-------------------- MODULE CopyEngine --------------------
(***************************************************************************)
(* The engine (services/copy_auto/engine.py): every leader event runs as an*)
(* asyncio task of its own, and an action below is the code between two    *)
(* awaits that other tasks, the reconcile loop, the router or the venue can*)
(* interleave with.                                                        *)
(***************************************************************************)
EXTENDS CopyState

(* A duplicate frame feeds a stored event again.  Not across a restart: the *)
(* tracker's unique event key stops that (engine.py:212-213).               *)
Redeliver(t) ==
  /\ At(t, "idle") /\ t[2] # 1
  /\ task[<<t[1], 1>>].pc \notin {"idle", "lost"}
  /\ task' = Goto(t, "start")
  /\ UNCHANGED <<db, venue, memory, lead, event, userOn, rec, patch, ops, burnt>>

(* Mutant: only active subscriptions hear of the event. *)
ReadSubsActive(t) ==
  /\ At(t, "start")
  /\ task' = IF sub[Ev(t).sub].status # "active"
             THEN Goto(t, "done")
             ELSE [task EXCEPT ![t].pc = "wait", ![t].mode = sub[Ev(t).sub].mode,
                               ![t].status = sub[Ev(t).sub].status]
  /\ UNCHANGED <<db, venue, memory, burnt>>

(* _subs_for: the subscription as it is NOW, before the lock. *)
ReadSubs(t) ==
  /\ At(t, "start")
  /\ task' = IF sub[Ev(t).sub].status = "stopped"
             THEN Goto(t, "done")
             ELSE [task EXCEPT ![t].pc = "wait", ![t].mode = sub[Ev(t).sub].mode,
                               ![t].status = sub[Ev(t).sub].status]
  /\ UNCHANGED <<db, venue, memory, burnt>>

(* Tasks reach the lock in the order their _subs_for reads return. *)
OlderOutside(t) ==
  \E u \in Task : /\ task[u].pc \in {"start", "wait"}
                  /\ Ev(u) # None /\ Ev(u).sub = Ev(t).sub /\ Ev(u).n < Ev(t).n

Acquire(t) ==
  /\ At(t, "wait") /\ lock[Ev(t).sub] = None
  /\ May("reorder") \/ ~OlderOutside(t)
  /\ lock' = [lock EXCEPT ![Ev(t).sub] = t]
  /\ task' = Goto(t, "next")
  /\ UNCHANGED <<db, venue, notCopied, burnt>>

(* Mutant: the lock stays taken. *)
ReleaseKeeps(t) ==
  /\ At(t, "next") /\ task[t].act > Len(ActsOf(t))
  /\ task' = [task EXCEPT ![t] = Fresh("done", 1, "live", "active")]
  /\ UNCHANGED <<db, venue, memory, burnt>>

(* All actions done: the liquidation check, and the lock is released. *)
Release(t) ==
  /\ At(t, "next") /\ task[t].act > Len(ActsOf(t))
  /\ lock' = [lock EXCEPT ![Ev(t).sub] = None]
  /\ task' = [task EXCEPT ![t] = Fresh("done", 1, "live", "active")]
  /\ \/ sub' = sub
     \/ /\ May("liquidated") /\ sub[Ev(t).sub].status = "active"
        /\ sub' = [sub EXCEPT ![Ev(t).sub].status = "paused"]
  /\ UNCHANGED <<venue, log, rows, notCopied, burnt>>

-----------------------------------------------------------------------------
(* _process: duplicates of a dropped action, actions on nothing of ours, and *)
(* the claim.                                                                *)
Working(t) == At(t, "next") /\ task[t].act <= Len(ActsOf(t))

Seen(t) ==
  /\ Working(t) /\ KeyOf(t) \in notCopied
  /\ task' = NextAct(t)
  /\ UNCHANGED <<db, venue, memory, burnt>>

HeldNow(t) == HeldRows(Ev(t).sub, Ev(t).coin, task[t].mode)

(* Mutant: a dropped action is not remembered. *)
DropForgets(t) ==
  /\ Working(t) /\ KeyOf(t) \notin notCopied
  /\ HeldNow(t) = {} /\ KindOf(t) # "open"
  /\ task' = NextAct(t)
  /\ UNCHANGED <<db, venue, memory, burnt>>

Drop(t) ==
  /\ Working(t) /\ KeyOf(t) \notin notCopied
  /\ HeldNow(t) = {} /\ KindOf(t) # "open"
  /\ notCopied' = notCopied \cup {KeyOf(t)}
  /\ task' = NextAct(t)
  /\ UNCHANGED <<db, venue, lock, burnt>>

ReadHeld(t) ==
  /\ Working(t) /\ KeyOf(t) \notin notCopied
  /\ HeldNow(t) = {} => KindOf(t) = "open"
  /\ \E h \in IF HeldNow(t) = {} THEN {None} ELSE HeldNow(t) :
       task' = [task EXCEPT ![t].pc = "claim", ![t].held = h,
                            ![t].size = IF h = None THEN 0 ELSE rows[h].size]
  /\ UNCHANGED <<db, venue, memory, burnt>>

(* Mutant: no UNIQUE key. *)
ClaimableAlways(t) == TRUE

(* The UNIQUE insert: a key already decided is not decided again. *)
Claimable(t) == log[KeyOf(t)] = "none"

Claim(t) ==
  /\ At(t, "claim")
  /\ \/ /\ Claimable(t)
        /\ log' = [log EXCEPT ![KeyOf(t)] = "pending"]
        /\ task' = Goto(t, IF IsExit(t) THEN "exit" ELSE "entry")
     \/ /\ ~Claimable(t)
        /\ task' = NextAct(t) /\ UNCHANGED log
  /\ UNCHANGED <<venue, memory, sub, rows, burnt>>

-----------------------------------------------------------------------------
(* _mirror_exit.                                                            *)
ExitQty(t)  == ExitSize(CurAct(t), task[t].size)
FullExit(t) == ExitQty(t) >= task[t].size

ExitRefused(t) ==
  \/ KindOf(t) = "reduce" /\ "reduces" \notin MirrorOn
  \/ ExitQty(t) <= 0

SkipExit(t) ==
  /\ At(t, "exit") /\ ExitRefused(t)
  /\ Skip(t)
  /\ UNCHANGED <<venue, memory, rows, burnt>>

ShadowExit(t) ==
  /\ At(t, "exit") /\ ~ExitRefused(t) /\ task[t].mode = "shadow"
  /\ task' = [task EXCEPT ![t].pc = "settle", ![t].res = "filled", ![t].fs = ExitQty(t)]
  /\ UNCHANGED <<db, venue, memory, burnt>>

(* An IOC order of the given size, of which at most depth can fill: what    *)
(* the executor reports, what it tells the engine (fs), what really filled. *)
(* Unconfirmed: the frame left and no answer came, whatever happened.       *)
Outcomes(size, depth, partial) ==
  LET most  == Least(size, depth)
      fills == IF May(partial) THEN 1..most ELSE {most} \ {0}
  IN  {[res |-> "filled", fs |-> f, real |-> f] : f \in fills}
      \cup {[res |-> "failed", fs |-> 0, real |-> 0] : x \in IF May("reject") \/ most = 0 THEN {1} ELSE {}}
      \cup {[res |-> "key", fs |-> 0, real |-> 0] : x \in IF May("key") THEN {1} ELSE {}}
      \cup {[res |-> "unconfirmed", fs |-> 0, real |-> f] : f \in IF May("unconfirmed") THEN {0, most} ELSE {}}

CloseOrder(t) ==
  /\ At(t, "exit") /\ ~ExitRefused(t) /\ task[t].mode = "live"
  /\ LET side == RowSide(task[t].held)
         size == IF FullExit(t) THEN task[t].size ELSE ExitQty(t)
     IN  \E o \in Outcomes(size, OnVenue(Ev(t).coin, side),
                           IF FullExit(t) THEN "partial_close" ELSE "partial") :
           /\ pos' = [pos EXCEPT ![Ev(t).coin] = @ - side * o.real]
           /\ task' = [task EXCEPT ![t].pc = "closing", ![t].res = o.res, ![t].fs = o.fs]
  /\ sent' = [sent EXCEPT ![KeyOf(t)] = @ + 1]
  /\ UNCHANGED <<db, memory, legs, burnt>>

CloseAnswer(t) ==
  /\ At(t, "closing")
  /\ IF task[t].res = "filled"
     THEN /\ task' = Goto(t, IF FullExit(t) THEN "unarm" ELSE "settle")
          /\ UNCHANGED <<log, sub>>
     ELSE Finish(t, "failed") /\ task' = Goto(t, "check")
  /\ UNCHANGED <<venue, memory, rows, burnt>>

(* Mutant: the take profit is left behind. *)
CancelledSl(e, stuck) ==
  [l \in Leg |-> IF l = <<e, "sl">> /\ l[2] \in rows[e].oids \ stuck THEN 0 ELSE legs[l]]

(* Both protective legs go with the position; a cancel that fails is only  *)
(* noted in the log detail.                                                 *)
CancelledLegs(e, stuck) ==
  [l \in Leg |-> IF l[1] = e /\ l[2] \in rows[e].oids \ stuck THEN 0 ELSE legs[l]]

Stuck(e) == IF May("cancel") THEN SUBSET rows[e].oids ELSE {{}}

Unarm(t) ==
  /\ At(t, "unarm")
  /\ \E stuck \in Stuck(task[t].held) : legs' = CancelledLegs(task[t].held, stuck)
  /\ task' = Goto(t, "settle")
  /\ UNCHANGED <<db, memory, pos, sent, burnt>>

(* Mutant: the row is reduced by what was asked for, not by what filled. *)
SettleAsked(t) ==
  /\ At(t, "settle")
  /\ LET left == task[t].size - ExitQty(t)
     IN  rows' = [rows EXCEPT ![task[t].held] =
                    IF left <= 0 THEN [@ EXCEPT !.status = "closed", !.size = 0]
                    ELSE [@ EXCEPT !.size = left]]
  /\ task' = Goto(t, "finish")
  /\ UNCHANGED <<venue, memory, log, sub, burnt>>

(* The position row, by id: a full exit closes it whatever filled.          *)
Settle(t) ==
  /\ At(t, "settle")
  /\ LET h    == task[t].held
         left == task[t].size - task[t].fs
     IN  rows' = [rows EXCEPT ![h] =
                    IF FullExit(t) \/ left <= 0
                    THEN [@ EXCEPT !.status = "closed", !.size = 0]
                    ELSE [@ EXCEPT !.size = left]]
  /\ \E hit \in IF May("loss") THEN BOOLEAN ELSE {FALSE} :
       /\ sub' = [sub EXCEPT ![Ev(t).sub].loss = @ \/ hit]
       /\ burnt' = [burnt EXCEPT ![Ev(t).sub] = @ \/ hit]
  /\ task' = Goto(t, "finish")
  /\ UNCHANGED <<venue, memory, log>>

FinishExit(t) ==
  /\ At(t, "finish")
  /\ Finish(t, IF task[t].mode = "live" THEN "copied" ELSE "shadow")
  /\ task' = Goto(t, "check")
  /\ UNCHANGED <<venue, memory, rows, burnt>>

(* _check_pause and _pause: only an active row is paused, and then the      *)
(* task's own copy of the subscription too.                                 *)
PauseReason(t) ==
  \/ task[t].res = "key"
  \/ sub[Ev(t).sub].fails >= FailsBeforePause
  \/ sub[Ev(t).sub].loss

CheckPause(t) ==
  /\ At(t, "check")
  /\ IF PauseReason(t) /\ sub[Ev(t).sub].status = "active"
     THEN /\ sub' = [sub EXCEPT ![Ev(t).sub].status = "paused"]
          /\ task' = [NextAct(t) EXCEPT ![t].status = "paused"]
     ELSE task' = NextAct(t) /\ UNCHANGED sub
  /\ UNCHANGED <<venue, memory, log, rows, burnt>>

-----------------------------------------------------------------------------
(* _mirror_entry.                                                           *)
EntryRefused(t) ==
  \/ ~userOn
  \/ task[t].status # "active"
  \/ KindOf(t) = "add" /\ "adds" \notin MirrorOn
  \/ KindOf(t) = "open" /\ Len(ActsOf(t)) = 2 /\ "flips" \notin MirrorOn

SkipEntry(t) ==
  /\ At(t, "entry") /\ EntryRefused(t)
  /\ Skip(t)
  /\ UNCHANGED <<venue, memory, rows, burnt>>

EntryLots(t) ==
  IF KindOf(t) = "open" THEN OpenLots
  ELSE ScaledChange(task[t].size, CurAct(t).move, CurAct(t).prev)

(* The slot rule: one source per market per account. *)
OthersHere(t) ==
  \E s \in Subs \ {Ev(t).sub} : HeldRows(s, Ev(t).coin, "live") # {}
(* Mutants: the account is not looked at, nor what we hold ourselves. *)
InUseRows(t) ==
  OthersHere(t) \/ (KindOf(t) = "open" /\ task[t].held # None)
InUseOthers(t) == OthersHere(t)

InUse(t) ==
  \/ OthersHere(t)
  \/ KindOf(t) = "open" /\ (pos[Ev(t).coin] # 0 \/ task[t].held # None)

(* run_gates in order, the loss gate apart because it also pauses.  Market  *)
(* data, the chain balance and the event's age are outside: their gates may *)
(* stop any entry.                                                          *)
(* Mutants: one position too many; the new margin is not counted. *)
GateOffByOne(t) ==
  \/ InUse(t)
  \/ KindOf(t) = "open" /\ Cardinality(OpenRows(Ev(t).sub, task[t].mode)) > MaxPositions

GateBeforeLoss(t) ==
  \/ InUse(t)
  \/ KindOf(t) = "open" /\ Cardinality(OpenRows(Ev(t).sub, task[t].mode)) >= MaxPositions
NoRoomLeft(t) ==
  \/ EntryLots(t) = 0
  \/ MarginInUse(Ev(t).sub, task[t].mode) > Allocation

NoRoom(t) ==
  \/ EntryLots(t) = 0
  \/ MarginInUse(Ev(t).sub, task[t].mode) + EntryLots(t) > Allocation

GateSkip(t) ==
  /\ At(t, "entry") /\ ~EntryRefused(t)
  /\ GateBeforeLoss(t) \/ (NoRoom(t) /\ ~sub[Ev(t).sub].loss) \/ May("gates")
  /\ Skip(t)
  /\ UNCHANGED <<venue, memory, rows, burnt>>

GateLoss(t) ==
  /\ At(t, "entry") /\ ~EntryRefused(t) /\ ~GateBeforeLoss(t)
  /\ sub[Ev(t).sub].loss
  /\ Finish(t, "skipped") /\ task' = Goto(t, "check")
  /\ UNCHANGED <<venue, memory, rows, burnt>>

GatePass(t) ==
  /\ At(t, "entry") /\ ~EntryRefused(t)
  /\ ~GateBeforeLoss(t) /\ ~NoRoom(t) /\ ~sub[Ev(t).sub].loss
  /\ task' = Goto(t, "place")
  /\ UNCHANGED <<db, venue, memory, burnt>>

ShadowEntry(t) ==
  /\ At(t, "place") /\ task[t].mode = "shadow"
  /\ task' = [task EXCEPT ![t].pc = "record", ![t].res = "filled", ![t].fs = EntryLots(t)]
  /\ UNCHANGED <<db, venue, memory, burnt>>

OpenOrder(t) ==
  /\ At(t, "place") /\ task[t].mode = "live"
  /\ \E o \in Outcomes(EntryLots(t), EntryLots(t), "partial") :
       /\ pos' = [pos EXCEPT ![Ev(t).coin] = @ + CurAct(t).side * o.real]
       /\ task' = [task EXCEPT ![t].pc = "opening", ![t].res = o.res, ![t].fs = o.fs]
  /\ sent' = [sent EXCEPT ![KeyOf(t)] = @ + 1]
  /\ UNCHANGED <<db, memory, legs, burnt>>

OpenAnswer(t) ==
  /\ At(t, "opening")
  /\ IF task[t].res = "filled"
     THEN /\ task' = Goto(t, IF KindOf(t) = "open" THEN "arm" ELSE "record")
          /\ UNCHANGED <<log, sub>>
     ELSE Finish(t, "failed") /\ task' = Goto(t, "check")
  /\ UNCHANGED <<venue, memory, rows, burnt>>

(* SL and TP on the real filled size.  An order the executor could not      *)
(* confirm may be armed all the same, its oid unknown to the row.           *)
Arm(t) ==
  /\ At(t, "arm")
  /\ \E armed \in IF May("arm") THEN SUBSET {"sl", "tp"} ELSE {{"sl", "tp"}} :
     \E known \in IF May("arm") THEN SUBSET armed ELSE {armed} :
       /\ legs' = [l \in Leg |-> IF l[1] = t[1] /\ l[2] \in armed THEN task[t].fs ELSE legs[l]]
       /\ task' = [task EXCEPT ![t].pc = "record", ![t].oids = known]
  /\ UNCHANGED <<db, memory, pos, sent, burnt>>

(* _record_entry: an add rewrites the row from the size read at the start.  *)
Record(t) ==
  /\ At(t, "record")
  /\ rows' = IF KindOf(t) = "add"
             THEN [rows EXCEPT ![task[t].held].size = task[t].size + task[t].fs,
                               ![task[t].held].margin = @ + task[t].fs]
             ELSE [rows EXCEPT ![t[1]] =
                     [status |-> "open", mode |-> task[t].mode, size |-> task[t].fs,
                      margin |-> task[t].fs, oids |-> task[t].oids]]
  /\ task' = Goto(t, "booked")
  /\ UNCHANGED <<venue, memory, sub, log, burnt>>

FinishEntry(t) ==
  /\ At(t, "booked")
  /\ Finish(t, IF task[t].mode = "live" THEN "copied" ELSE "shadow")
  /\ task' = NextAct(t)
  /\ UNCHANGED <<venue, memory, rows, burnt>>

-----------------------------------------------------------------------------
EntryStep(t) ==
  \/ SkipEntry(t) \/ GateSkip(t) \/ GateLoss(t) \/ GatePass(t) \/ ShadowEntry(t)
  \/ OpenOrder(t) \/ OpenAnswer(t) \/ Arm(t) \/ Record(t) \/ FinishEntry(t)
ExitStep(t) ==
  \/ SkipExit(t) \/ ShadowExit(t) \/ CloseOrder(t) \/ CloseAnswer(t) \/ Unarm(t)
  \/ Settle(t) \/ FinishExit(t)

(* A task leaves alone what the leader, the router and the sweep own. *)
TaskStep(t) ==
  /\ \/ ReadSubs(t) \/ Acquire(t) \/ Release(t) \/ Seen(t) \/ Drop(t) \/ ReadHeld(t)
     \/ Claim(t) \/ ExitStep(t) \/ EntryStep(t) \/ CheckPause(t)
  /\ UNCHANGED <<lead, event, userOn, rec, patch, ops>>

=============================================================================
