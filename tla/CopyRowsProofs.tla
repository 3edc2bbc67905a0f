--------------------------- MODULE CopyRowsProofs ---------------------------
(***************************************************************************)
(* What holds of AutoCopy for every choice of its constants.  Its types,   *)
(* and that an action of a leader event sends at most one market order.    *)
(* Of the positions it books: a subscription's lock keeps its tasks apart, *)
(* so what a task read under it is still so when it books its open.  From  *)
(* this follow one row per market, the limits of a subscription and, with  *)
(* what a task knows of its order ids, the owners of the protective legs.  *)
(***************************************************************************)
EXTENDS AutoCopy, SetLemmas, FiniteSetTheorems, TLAPS

-----------------------------------------------------------------------------
(* The operators the engine is built from.                                  *)

(* A side is 1 or -1, whatever the position. *)
LEMMA SideOfType == ASSUME NEW x PROVE SideOf(x) \in Side
  BY DEF SideOf, Side

(* An event normalizes to one or two actions, each well formed. *)
LEMMA NormalizeType ==
  ASSUME NEW old \in Int, NEW new \in Int
  PROVE  /\ Normalize(old, new) \in Seq(Action)
         /\ Len(Normalize(old, new)) \in {1, 2}
<1>1. CASE IsFlip(old, new)
  <2>1. Act("close", SideOf(old), Magnitude(old), Magnitude(old)) \in Action
    BY SideOfType DEF Act, Action, Magnitude, Kind
  <2>2. Act("open", SideOf(new), Magnitude(new), 0) \in Action
    BY SideOfType DEF Act, Action, Magnitude, Kind
  <2> QED BY <1>1, <2>1, <2>2 DEF Normalize
<1>2. CASE ~IsFlip(old, new)
  <2>1. Act(KindOfMove(old, new), SideOf(IF old = 0 THEN new ELSE old),
            Magnitude(new - old), Magnitude(old)) \in Action
    BY SideOfType DEF Act, Action, Magnitude, Kind, KindOfMove
  <2> QED BY <1>2, <2>1 DEF Normalize
<1> QED BY <1>1, <1>2

(* A scaled change is an integer. *)
LEMMA ScaledChangeType ==
  ASSUME NEW ours \in Int, NEW move \in Nat, NEW prev \in Nat
  PROVE  ScaledChange(ours, move, prev) \in Int
  BY DEF ScaledChange, Least

(* What an exit asks for is an integer. *)
LEMMA ExitSizeType ==
  ASSUME NEW a \in Action, NEW ours \in Int
  PROVE  ExitSize(a, ours) \in Int
  BY ScaledChangeType DEF ExitSize, Action

(* An order answers with a known result and fills an integer size. *)
LEMMA OutcomesType ==
  ASSUME NEW size \in Int, NEW depth \in Int, NEW partial,
         NEW o \in Outcomes(size, depth, partial)
  PROVE  /\ o.res \in {"filled", "failed", "key", "unconfirmed"}
         /\ o.fs \in Int /\ o.real \in Int
  BY DEF Outcomes, Least

-----------------------------------------------------------------------------
(* Type correctness.  It rests on every working task having its event and  *)
(* an action of it, and on every position having its event.                 *)
Acting == {"claim", "exit", "closing", "unarm", "settle", "finish", "check",
           "entry", "place", "opening", "arm", "record", "booked"}

WellFormed ==
  \A t \in Task : /\ task[t].act >= 1
                  /\ ~At(t, "idle") => event[t[1]] # None
                  /\ task[t].held # None => event[task[t].held] # None
                  /\ task[t].pc \in Acting => task[t].act <= Len(ActsOf(t))
RowsKnown  == \A e \in Events : rows[e].status # "none" => event[e] # None
SweepKnown == \A e \in Events : rec.size[e] # 0 => event[e] # None

TypeInv == TypeOK /\ WellFormed /\ RowsKnown /\ SweepKnown

(* A working task's action is well formed. *)
LEMMA ActionType ==
  ASSUME TypeInv, NEW t \in Task, task[t].pc \in Acting
  PROVE  /\ Ev(t) \in EventRec /\ Ev(t) = event[t[1]]
         /\ CurAct(t) \in Action
         /\ KeyOf(t) \in Key
<1>1. Ev(t) \in EventRec
  BY DEF TypeInv, TypeOK, WellFormed, At, Ev, Task, Acting
<1>2. ActsOf(t) \in Seq(Action) /\ Len(ActsOf(t)) \in {1, 2}
  BY <1>1, NormalizeType DEF ActsOf, EventRec
<1>3. task[t].act \in 1..Len(ActsOf(t))
  BY <1>2 DEF TypeInv, TypeOK, WellFormed, TaskRec
<1> QED BY <1>1, <1>2, <1>3 DEF CurAct, KeyOf, Key, Ev, Task

(* One task moves on, nothing else of what WellFormed reads changes. *)
LEMMA TaskMoves ==
  ASSUME TypeInv, NEW t \in Task, NEW r \in TaskRec,
         task' = [task EXCEPT ![t] = r], UNCHANGED event,
         r.act >= 1,
         r.pc # "idle" => event[t[1]] # None,
         r.held # None => event[r.held] # None,
         r.pc \in Acting => r.act <= Len(ActsOf(t))
  PROVE  task' \in [Task -> TaskRec] /\ WellFormed'
<1>1. task' \in [Task -> TaskRec]
  BY DEF TypeInv, TypeOK
<1>2. ASSUME NEW u \in Task
      PROVE  /\ task'[u].act >= 1
             /\ ~At(u, "idle")' => event'[u[1]] # None
             /\ task'[u].held # None => event'[task'[u].held] # None
             /\ task'[u].pc \in Acting => task'[u].act <= Len(ActsOf(u)')
  BY DEF TypeInv, TypeOK, WellFormed, At, ActsOf, Ev
<1> QED BY <1>1, <1>2 DEF WellFormed

PC == {"idle", "start", "wait", "next", "claim", "exit", "closing", "unarm",
       "settle", "finish", "check", "entry", "place", "opening", "arm",
       "record", "booked", "done", "lost"}

(* A working task goes to another point of the same action, or settles. *)
LEMMA GotoMoves ==
  ASSUME TypeInv, NEW t \in Task, NEW p \in PC,
         event[t[1]] # None, task[t].pc \in Acting \/ p \notin Acting,
         task' = Goto(t, p), UNCHANGED event
  PROVE  task' \in [Task -> TaskRec] /\ WellFormed'
<1> DEFINE r == [task[t] EXCEPT !.pc = p]
<1>0. task[t] \in TaskRec /\ task[t].act >= 1
  BY DEF TypeInv, TypeOK, WellFormed
<1>1. /\ r \in TaskRec /\ r.act >= 1 /\ r.act = task[t].act
      /\ r.pc = p /\ r.held = task[t].held
  BY <1>0 DEF TaskRec, PC
<1>2. task' = [task EXCEPT ![t] = r]
  BY DEF Goto
<1>3. /\ r.pc \in Acting => r.act <= Len(ActsOf(t))
      /\ r.held # None => event[r.held] # None
  BY <1>1 DEF TypeInv, WellFormed
<1> HIDE DEF r
<1> QED BY <1>1, <1>2, <1>3, TaskMoves

(* A task goes to the next action of its event. *)
LEMMA NextActMoves ==
  ASSUME TypeInv, NEW t \in Task, event[t[1]] # None, UNCHANGED event,
         task' = NextAct(t) \/ task' = [NextAct(t) EXCEPT ![t].status = "paused"]
  PROVE  task' \in [Task -> TaskRec] /\ WellFormed'
<1>0. task[t] \in TaskRec /\ task[t].act >= 1 /\ t \in DOMAIN task
  BY DEF TypeInv, TypeOK, WellFormed
<1>1. PICK status \in Status :
        task' = [task EXCEPT ![t] = Fresh("next", task[t].act + 1, task[t].mode, status)]
  <2>1. CASE task' = NextAct(t)
    BY <1>0, <2>1 DEF NextAct, TaskRec
  <2>2. CASE task' = [NextAct(t) EXCEPT ![t].status = "paused"]
    <3>1. [Fresh("next", task[t].act + 1, task[t].mode, task[t].status)
             EXCEPT !.status = "paused"]
            = Fresh("next", task[t].act + 1, task[t].mode, "paused")
      BY DEF Fresh
    <3> QED BY <1>0, <2>2, <3>1 DEF NextAct, Status
  <2> QED BY <2>1, <2>2
<1> DEFINE r == Fresh("next", task[t].act + 1, task[t].mode, status)
<1>2. r \in TaskRec /\ r.act >= 1 /\ r.pc = "next" /\ r.held = None
  BY <1>0 DEF Fresh, TaskRec
<1>3. r.pc \notin Acting
  BY <1>2 DEF Acting
<1> HIDE DEF r
<1> QED BY <1>1, <1>2, <1>3, TaskMoves DEF r

(* TypeOK by the part of the state an action touches. *)
TaskOK   == task \in [Task -> TaskRec] /\ WellFormed
DbOK     == /\ sub \in [Subs -> SubRec] /\ log \in [Key -> Decision]
            /\ rows \in [Events -> RowRec] /\ RowsKnown
VenueOK  == pos \in [Coins -> Int] /\ legs \in [Leg -> Int] /\ sent \in [Key -> Nat]
MemoryOK == lock \in [Subs -> Task \cup {None}] /\ notCopied \subseteq Key
BurntOK  == burnt \in [Subs -> BOOLEAN]
EngineOK == TaskOK /\ DbOK /\ VenueOK /\ MemoryOK /\ BurntOK

(* _finish keeps the types of the log and of the subscription. *)
LEMMA FinishType ==
  ASSUME TypeInv, NEW t \in Task, NEW d \in Decision, Finish(t, d),
         UNCHANGED <<rows, event>>
  PROVE  DbOK'
<1>1. log' \in [Key -> Decision]
  BY DEF Finish, TypeInv, TypeOK
<1>2. sub' \in [Subs -> SubRec]
  <2> DEFINE s == Ev(t).sub
             f == IF d = "failed" THEN sub[s].fails + 1
                  ELSE IF d = "copied" THEN 0 ELSE sub[s].fails
  <2>1. sub' = [sub EXCEPT ![s] = [sub[s] EXCEPT !.fails = f]] /\ sub \in [Subs -> SubRec]
    BY DEF Finish, TypeInv, TypeOK
  <2>2. ASSUME s \in Subs PROVE [sub[s] EXCEPT !.fails = f] \in SubRec
    BY <2>1, <2>2 DEF SubRec
  <2> QED BY <2>1, <2>2
<1> QED BY <1>1, <1>2 DEF DbOK, TypeInv, TypeOK, RowsKnown

(* The parts of the invariant, one by one. *)
LEMMA Parts == TypeInv => EngineOK
  BY DEF TypeInv, TypeOK, EngineOK, TaskOK, DbOK, VenueOK, MemoryOK, BurntOK

(* What leaves the variables of TypeInv alone keeps it. *)
LEMMA Unmoved ==
  ASSUME TypeInv
  PROVE  /\ UNCHANGED <<db, event>> => DbOK'
         /\ UNCHANGED venue => VenueOK'
         /\ UNCHANGED memory => MemoryOK'
         /\ UNCHANGED burnt => BurntOK'
  BY DEF TypeInv, TypeOK, DbOK, VenueOK, MemoryOK, BurntOK, RowsKnown, db, venue, memory

(* The way to the lock, and out of it. *)
LEMMA QueueType ==
  ASSUME TypeInv, NEW t \in Task, UNCHANGED event,
         ReadSubs(t) \/ Acquire(t) \/ Release(t)
  PROVE  EngineOK'
<1>0. /\ event[t[1]] # None /\ task[t] \in TaskRec /\ task[t].act >= 1
      /\ task[t].held # None => event[task[t].held] # None
      /\ task[t].pc \in {"start", "wait", "next"}
      /\ task \in [Task -> TaskRec] /\ sub \in [Subs -> SubRec] /\ Ev(t).sub \in Subs
  <2>1. task[t] \in TaskRec /\ task[t].pc \in {"start", "wait", "next"} /\ event[t[1]] # None
    BY DEF ReadSubs, Acquire, Release, At, TypeInv, TypeOK, WellFormed
  <2> QED BY <2>1 DEF TypeInv, TypeOK, WellFormed, Ev, Task, EventRec
<1>1. CASE ReadSubs(t)
  <2>1. CASE task' = Goto(t, "done")
    <3>1. TaskOK'
      BY <1>0, <2>1, GotoMoves DEF PC, Acting, TaskOK
    <3> QED BY <1>1, <3>1, Unmoved DEF ReadSubs, EngineOK
  <2>2. CASE task' # Goto(t, "done")
    <3> DEFINE r == [task[t] EXCEPT !.pc = "wait", !.mode = sub[Ev(t).sub].mode,
                                    !.status = sub[Ev(t).sub].status]
    <3>1. task' = [task EXCEPT ![t] = r]
      BY <1>0, <1>1, <2>2 DEF ReadSubs
    <3>2. sub[Ev(t).sub].mode \in Mode /\ sub[Ev(t).sub].status \in Status
      BY <1>0 DEF SubRec
    <3>3. r \in TaskRec /\ r.act = task[t].act /\ r.held = task[t].held /\ r.pc = "wait"
      BY <1>0, <3>2 DEF TaskRec
    <3>4. TaskOK'
      <4> HIDE DEF r
      <4> QED BY <1>0, <3>1, <3>3, TaskMoves DEF Acting, TaskOK
    <3> QED BY <1>1, <3>4, Unmoved DEF ReadSubs, EngineOK
  <2> QED BY <2>1, <2>2
<1>2. CASE Acquire(t)
  <2>1. TaskOK'
    BY <1>0, <1>2, GotoMoves DEF Acquire, PC, Acting, TaskOK
  <2>2. MemoryOK'
    BY <1>0, <1>2 DEF Acquire, MemoryOK, TypeInv, TypeOK
  <2> QED BY <1>2, <2>1, <2>2, Unmoved DEF Acquire, EngineOK
<1>3. CASE Release(t)
  <2> DEFINE r == Fresh("done", 1, "live", "active")
  <2>1. r \in TaskRec /\ r.act = 1 /\ r.pc = "done" /\ r.held = None
    BY DEF Fresh, TaskRec, Mode, Status
  <2>2. TaskOK'
    <3>1. task' = [task EXCEPT ![t] = r]
      BY <1>3 DEF Release
    <3> HIDE DEF r
    <3>2. r.act >= 1 /\ r.pc \notin Acting
      BY <2>1 DEF Acting
    <3> QED BY <1>0, <2>1, <3>1, <3>2, TaskMoves DEF TaskOK
  <2>3. MemoryOK'
    BY <1>0, <1>3 DEF Release, MemoryOK, TypeInv, TypeOK
  <2>4. DbOK'
    <3>1. [sub[Ev(t).sub] EXCEPT !.status = "paused"] \in SubRec
      BY <1>0 DEF SubRec, Status
    <3> QED BY <1>0, <1>3, <3>1 DEF Release, DbOK, TypeInv, TypeOK, RowsKnown
  <2> QED BY <1>3, <2>2, <2>3, <2>4, Unmoved DEF Release, EngineOK, venue, VenueOK
<1> QED BY <1>1, <1>2, <1>3

(* A working task between two actions: its next one is well formed too. *)
LEMMA WorkingType ==
  ASSUME TypeInv, NEW t \in Task, Working(t)
  PROVE  /\ event[t[1]] # None /\ KeyOf(t) \in Key
         /\ task[t] \in TaskRec /\ task[t].act >= 1 /\ task[t].act <= Len(ActsOf(t))
         /\ task[t].held # None => event[task[t].held] # None
<1>1. /\ task[t] \in TaskRec /\ task[t].act >= 1
      /\ task[t].pc = "next" /\ event[t[1]] # None
      /\ task[t].held # None => event[task[t].held] # None
  BY DEF Working, At, TypeInv, TypeOK, WellFormed
<1>2. event[t[1]] \in EventRec /\ t[1] \in Events
  BY <1>1 DEF TypeInv, TypeOK, Task
<1>3. Len(ActsOf(t)) \in {1, 2}
  BY <1>2, NormalizeType DEF ActsOf, Ev, EventRec
<1>4. task[t].act \in {1, 2} /\ task[t].act <= Len(ActsOf(t))
  <2> DEFINE n == Len(ActsOf(t))
  <2>1. task[t].act \in Nat
    BY <1>1 DEF TaskRec
  <2>2. task[t].act <= n /\ n \in {1, 2}
    BY <1>3 DEF Working
  <2> HIDE DEF n
  <2>3. task[t].act \in {1, 2}
    BY <1>1, <2>1, <2>2
  <2> QED BY <2>2, <2>3 DEF n
<1> QED BY <1>1, <1>2, <1>4 DEF KeyOf, Key

(* Duplicates, dropped actions, and the claim. *)
LEMMA ClaimType ==
  ASSUME TypeInv, NEW t \in Task, UNCHANGED event,
         Seen(t) \/ Drop(t) \/ ReadHeld(t) \/ Claim(t)
  PROVE  EngineOK'
<1>1. CASE Seen(t)
  <2>1. TaskOK'
    BY <1>1, WorkingType, NextActMoves DEF Seen, TaskOK
  <2> QED BY <1>1, <2>1, Unmoved DEF Seen, EngineOK
<1>2. CASE Drop(t)
  <2>1. TaskOK'
    BY <1>2, WorkingType, NextActMoves DEF Drop, TaskOK
  <2>2. MemoryOK'
    BY <1>2, WorkingType DEF Drop, MemoryOK, TypeInv, TypeOK
  <2> QED BY <1>2, <2>1, <2>2, Unmoved DEF Drop, EngineOK
<1>3. CASE ReadHeld(t)
  <2>1. PICK h \in IF HeldNow(t) = {} THEN {None} ELSE HeldNow(t) :
          task' = [task EXCEPT ![t].pc = "claim", ![t].held = h,
                               ![t].size = IF h = None THEN 0 ELSE rows[h].size]
    BY <1>3 DEF ReadHeld
  <2>2. h \in Events \cup {None} /\ (h # None => event[h] # None)
    BY DEF HeldNow, HeldRows, OpenRows
  <2> DEFINE n == IF h = None THEN 0 ELSE rows[h].size
             r == [task[t] EXCEPT !.pc = "claim", !.held = h, !.size = n]
  <2>3. n \in Int
    BY <2>2 DEF TypeInv, TypeOK, RowRec
  <2>4. /\ task[t] \in TaskRec /\ event[t[1]] # None
        /\ task[t].act >= 1 /\ task[t].act <= Len(ActsOf(t))
    BY <1>3, WorkingType DEF ReadHeld
  <2>5. task' = [task EXCEPT ![t] = r]
    BY <2>1 DEF TypeInv, TypeOK
  <2>6. r \in TaskRec /\ r.act = task[t].act /\ r.pc = "claim" /\ r.held = h
    <3> HIDE DEF n
    <3> QED BY <2>2, <2>3, <2>4 DEF TaskRec
  <2>7. TaskOK'
    <3> HIDE DEF r
    <3> QED BY <2>2, <2>4, <2>5, <2>6, TaskMoves DEF TaskOK
  <2> QED BY <1>3, <2>7, Unmoved DEF ReadHeld, EngineOK
<1>4. CASE Claim(t)
  <2>1. task[t].pc \in Acting
    BY <1>4 DEF Claim, At, Acting
  <2>2. KeyOf(t) \in Key /\ event[t[1]] # None
    BY <2>1, ActionType DEF TypeInv, WellFormed, At, Acting
  <2>3. TaskOK'
    <3>1. CASE task' = NextAct(t)
      BY <2>2, <3>1, NextActMoves DEF TaskOK
    <3>2. CASE task' # NextAct(t)
      <4>1. PICK p \in PC : task' = Goto(t, p)
        BY <1>4, <3>2 DEF Claim, PC
      <4> QED BY <2>1, <2>2, <4>1, GotoMoves DEF TaskOK
    <3> QED BY <3>1, <3>2
  <2>4. log' \in [Key -> Decision]
    BY <1>4 DEF Claim, TypeInv, TypeOK, Decision
  <2>5. DbOK'
    BY <1>4, <2>4 DEF Claim, DbOK, TypeInv, TypeOK, RowsKnown
  <2> QED BY <1>4, <2>3, <2>5, Unmoved DEF Claim, EngineOK
<1> QED BY <1>1, <1>2, <1>3, <1>4

(* A row keeps its type when it is closed. *)
LEMMA RowClosed ==
  ASSUME NEW r \in RowRec
  PROVE  [r EXCEPT !.status = "closed", !.size = 0] \in RowRec
<1>1. ASSUME NEW n \in Int PROVE [r EXCEPT !.status = "closed", !.size = n] \in RowRec
  BY DEF RowRec
<1>2. 0 \in Int
  OBVIOUS
<1> QED BY <1>1, <1>2, Zenon

(* The exits. *)
LEMMA ExitType ==
  ASSUME TypeInv, NEW t \in Task, UNCHANGED event, ExitStep(t)
  PROVE  EngineOK'
<1>0. task[t].pc \in Acting
  BY DEF ExitStep, SkipExit, ShadowExit, CloseOrder, CloseAnswer, Unarm, Settle,
         FinishExit, At, Acting
<1>1. /\ event[t[1]] # None /\ KeyOf(t) \in Key /\ Ev(t) \in EventRec
      /\ task[t] \in TaskRec /\ task[t].act >= 1 /\ task[t].act <= Len(ActsOf(t))
      /\ task[t].held # None => event[task[t].held] # None
      /\ CurAct(t) \in Action
  BY <1>0, ActionType DEF TypeInv, TypeOK, WellFormed, At, Acting
<1>2. ExitQty(t) \in Int
  BY <1>1, ExitSizeType DEF ExitQty, TaskRec
<1>3. CASE SkipExit(t)
  <2>1. DbOK'
    BY <1>3, FinishType DEF SkipExit, Skip, Decision, DbOK, TypeInv, TypeOK, RowsKnown
  <2>2. TaskOK'
    BY <1>1, <1>3, NextActMoves DEF SkipExit, Skip, TaskOK
  <2> QED BY <1>3, <2>1, <2>2, Unmoved DEF SkipExit, EngineOK
<1>4. CASE ShadowExit(t)
  <2> DEFINE r == [task[t] EXCEPT !.pc = "settle", !.res = "filled", !.fs = ExitQty(t)]
  <2>1. r \in TaskRec /\ r.act = task[t].act /\ r.held = task[t].held /\ r.pc = "settle"
    BY <1>1, <1>2 DEF TaskRec
  <2>2. task' = [task EXCEPT ![t] = r]
    BY <1>4 DEF ShadowExit, TypeInv, TypeOK
  <2>3. TaskOK'
    <3> HIDE DEF r
    <3> QED BY <1>1, <2>1, <2>2, TaskMoves DEF TaskOK
  <2> QED BY <1>4, <2>3, Unmoved DEF ShadowExit, EngineOK
<1>5. CASE CloseOrder(t)
  <2> DEFINE side == RowSide(task[t].held)
             size == IF FullExit(t) THEN task[t].size ELSE ExitQty(t)
             depth == OnVenue(Ev(t).coin, side)
             partial == IF FullExit(t) THEN "partial_close" ELSE "partial"
  <2>1. PICK o \in Outcomes(size, depth, partial) :
          /\ pos' = [pos EXCEPT ![Ev(t).coin] = @ - side * o.real]
          /\ task' = [task EXCEPT ![t].pc = "closing", ![t].res = o.res, ![t].fs = o.fs]
    BY <1>5 DEF CloseOrder
  <2>2. side \in Int
    BY SideOfType DEF RowSide, Side
  <2>3. size \in Int
    BY <1>1, <1>2 DEF TaskRec
  <2>4. depth \in Int
    <3>1. pos[Ev(t).coin] \in Int
      BY <1>1 DEF TypeInv, TypeOK, EventRec
    <3> HIDE DEF side
    <3> QED BY <3>1 DEF OnVenue, Magnitude
  <2>5. o.res \in {"filled", "failed", "key", "unconfirmed"} /\ o.fs \in Int /\ o.real \in Int
    <3> HIDE DEF size, depth, partial
    <3> QED BY <2>1, <2>3, <2>4, OutcomesType
  <2>6. VenueOK'
    <3>1. sent' \in [Key -> Nat]
      <4>1. sent \in [Key -> Nat] /\ sent' = [sent EXCEPT ![KeyOf(t)] = @ + 1]
        BY <1>5 DEF CloseOrder, TypeInv, TypeOK
      <4> QED BY <1>1, <4>1
    <3>2. pos' \in [Coins -> Int]
      <4>1. side * o.real \in Int
        BY <2>2, <2>5
      <4>2. pos \in [Coins -> Int] /\ Ev(t).coin \in Coins
        BY <1>1 DEF EventRec, TypeInv, TypeOK
      <4> HIDE DEF side
      <4> QED BY <2>1, <4>1, <4>2
    <3>3. legs' \in [Leg -> Int]
      BY <1>5 DEF CloseOrder, TypeInv, TypeOK
    <3> QED BY <3>1, <3>2, <3>3 DEF VenueOK
  <2> DEFINE r == [task[t] EXCEPT !.pc = "closing", !.res = o.res, !.fs = o.fs]
  <2>7. r \in TaskRec /\ r.act = task[t].act /\ r.held = task[t].held /\ r.pc = "closing"
    BY <1>1, <2>5 DEF TaskRec
  <2>8. TaskOK'
    <3>1. task' = [task EXCEPT ![t] = r]
      BY <2>1 DEF TypeInv, TypeOK
    <3> HIDE DEF r
    <3> QED BY <1>1, <2>7, <3>1, TaskMoves DEF TaskOK
  <2> QED BY <1>5, <2>6, <2>8, Unmoved DEF CloseOrder, EngineOK
<1>6. CASE CloseAnswer(t)
  <2>1. PICK p \in PC : task' = Goto(t, p)
    BY <1>6 DEF CloseAnswer, PC
  <2>2. TaskOK'
    BY <1>0, <1>1, <2>1, GotoMoves DEF TaskOK
  <2>3. DbOK'
    BY <1>6, FinishType DEF CloseAnswer, Decision, DbOK, TypeInv, TypeOK, RowsKnown
  <2> QED BY <1>6, <2>2, <2>3, Unmoved DEF CloseAnswer, EngineOK
<1>7. CASE Unarm(t)
  <2>1. TaskOK'
    BY <1>0, <1>1, <1>7, GotoMoves DEF Unarm, PC, TaskOK
  <2>2. VenueOK'
    BY <1>7 DEF Unarm, CancelledLegs, VenueOK, TypeInv, TypeOK
  <2> QED BY <1>7, <2>1, <2>2, Unmoved DEF Unarm, EngineOK
<1>8. CASE Settle(t)
  <2>1. TaskOK'
    BY <1>0, <1>1, <1>8, GotoMoves DEF Settle, PC, TaskOK
  <2>2. rows' \in [Events -> RowRec]
    <3> DEFINE h == task[t].held
               left == task[t].size - task[t].fs
    <3>1. left \in Int
      BY <1>1 DEF TaskRec
    <3>2. ASSUME h \in Events
          PROVE  /\ [rows[h] EXCEPT !.status = "closed", !.size = 0] \in RowRec
                 /\ [rows[h] EXCEPT !.size = left] \in RowRec
      <4>1. rows[h] \in RowRec
        BY <3>2 DEF TypeInv, TypeOK
      <4> HIDE DEF h, left
      <4>2. [rows[h] EXCEPT !.status = "closed", !.size = 0] \in RowRec
        BY <4>1, RowClosed
      <4>3. [rows[h] EXCEPT !.size = left] \in RowRec
        BY <3>1, <4>1 DEF RowRec
      <4> QED BY <4>2, <4>3
    <3> QED BY <1>8, <3>2 DEF Settle, TypeInv, TypeOK
  <2>3. sub' \in [Subs -> SubRec] /\ burnt' \in [Subs -> BOOLEAN]
    <3>1. PICK hit \in BOOLEAN :
            /\ sub' = [sub EXCEPT ![Ev(t).sub].loss = @ \/ hit]
            /\ burnt' = [burnt EXCEPT ![Ev(t).sub] = @ \/ hit]
      BY <1>8 DEF Settle
    <3>2. Ev(t).sub \in Subs /\ sub[Ev(t).sub] \in SubRec
      BY <1>1 DEF EventRec, TypeInv, TypeOK
    <3>3. [sub[Ev(t).sub] EXCEPT !.loss = @ \/ hit] \in SubRec
      BY <3>2 DEF SubRec
    <3> QED BY <3>1, <3>2, <3>3 DEF TypeInv, TypeOK
  <2>4. DbOK' /\ BurntOK'
    <3>1. RowsKnown'
      BY <1>1, <1>8, ConstantsOK DEF Settle, RowsKnown, TypeInv, TypeOK
    <3> QED BY <1>8, <2>2, <2>3, <3>1 DEF Settle, DbOK, BurntOK, TypeInv, TypeOK
  <2> QED BY <1>8, <2>1, <2>4, Unmoved DEF Settle, EngineOK
<1>9. CASE FinishExit(t)
  <2>1. TaskOK'
    BY <1>0, <1>1, <1>9, GotoMoves DEF FinishExit, PC, TaskOK
  <2>2. DbOK'
    BY <1>9, FinishType DEF FinishExit, Decision, DbOK, TypeInv, TypeOK, RowsKnown
  <2> QED BY <1>9, <2>1, <2>2, Unmoved DEF FinishExit, EngineOK
<1> QED BY <1>3, <1>4, <1>5, <1>6, <1>7, <1>8, <1>9 DEF ExitStep

(* The size of an entry is an integer. *)
LEMMA EntryLotsType ==
  ASSUME TypeInv, NEW t \in Task, CurAct(t) \in Action, task[t] \in TaskRec
  PROVE  EntryLots(t) \in Int
<1>1. /\ task[t].size \in Int /\ OpenLots \in Int
      /\ CurAct(t).move \in Nat /\ CurAct(t).prev \in Nat
  BY ConstantsOK DEF Action, TaskRec
<1>2. ScaledChange(task[t].size, CurAct(t).move, CurAct(t).prev) \in Int
  BY <1>1, ScaledChangeType
<1> QED BY <1>1, <1>2 DEF EntryLots

(* The entries. *)
LEMMA EntryType ==
  ASSUME TypeInv, NEW t \in Task, UNCHANGED event, EntryStep(t)
  PROVE  EngineOK'
<1>0. task[t].pc \in Acting
  BY DEF EntryStep, SkipEntry, GateSkip, GateLoss, GatePass, ShadowEntry, OpenOrder,
         OpenAnswer, Arm, Record, FinishEntry, At, Acting
<1>1. /\ event[t[1]] # None /\ KeyOf(t) \in Key /\ Ev(t) \in EventRec
      /\ task[t] \in TaskRec /\ task[t].act >= 1 /\ task[t].act <= Len(ActsOf(t))
      /\ task[t].held # None => event[task[t].held] # None
      /\ CurAct(t) \in Action
  BY <1>0, ActionType DEF TypeInv, TypeOK, WellFormed, At, Acting
<1>2. EntryLots(t) \in Int
  BY <1>1, EntryLotsType
<1>3. CASE SkipEntry(t) \/ GateSkip(t)
  <2>1. DbOK'
    BY <1>3, FinishType DEF SkipEntry, GateSkip, Skip, Decision, DbOK, TypeInv, TypeOK, RowsKnown
  <2>2. TaskOK'
    BY <1>1, <1>3, NextActMoves DEF SkipEntry, GateSkip, Skip, TaskOK
  <2> QED BY <1>3, <2>1, <2>2, Unmoved DEF SkipEntry, GateSkip, EngineOK
<1>4. CASE GateLoss(t)
  <2>1. DbOK'
    BY <1>4, FinishType DEF GateLoss, Decision, DbOK, TypeInv, TypeOK, RowsKnown
  <2>2. TaskOK'
    BY <1>0, <1>1, <1>4, GotoMoves DEF GateLoss, PC, TaskOK
  <2> QED BY <1>4, <2>1, <2>2, Unmoved DEF GateLoss, EngineOK
<1>5. CASE GatePass(t)
  <2>1. TaskOK'
    BY <1>0, <1>1, <1>5, GotoMoves DEF GatePass, PC, TaskOK
  <2> QED BY <1>5, <2>1, Unmoved DEF GatePass, EngineOK
<1>6. CASE ShadowEntry(t)
  <2> DEFINE r == [task[t] EXCEPT !.pc = "record", !.res = "filled", !.fs = EntryLots(t)]
  <2>1. r \in TaskRec /\ r.act = task[t].act /\ r.held = task[t].held /\ r.pc = "record"
    BY <1>1, <1>2 DEF TaskRec
  <2>2. task' = [task EXCEPT ![t] = r]
    BY <1>6 DEF ShadowEntry, TypeInv, TypeOK
  <2>3. TaskOK'
    <3> HIDE DEF r
    <3> QED BY <1>1, <2>1, <2>2, TaskMoves DEF TaskOK
  <2> QED BY <1>6, <2>3, Unmoved DEF ShadowEntry, EngineOK
<1>7. CASE OpenOrder(t)
  <2>1. PICK o \in Outcomes(EntryLots(t), EntryLots(t), "partial") :
          /\ pos' = [pos EXCEPT ![Ev(t).coin] = @ + CurAct(t).side * o.real]
          /\ task' = [task EXCEPT ![t].pc = "opening", ![t].res = o.res, ![t].fs = o.fs]
    BY <1>7 DEF OpenOrder
  <2>2. o.res \in {"filled", "failed", "key", "unconfirmed"} /\ o.fs \in Int /\ o.real \in Int
    BY <1>2, <2>1, OutcomesType
  <2>3. VenueOK'
    <3>1. sent' \in [Key -> Nat]
      <4>1. sent \in [Key -> Nat] /\ sent' = [sent EXCEPT ![KeyOf(t)] = @ + 1]
        BY <1>7 DEF OpenOrder, TypeInv, TypeOK
      <4> QED BY <1>1, <4>1
    <3>2. pos' \in [Coins -> Int]
      <4>1. CurAct(t).side * o.real \in Int
        BY <1>1, <2>2 DEF Action, Side
      <4>2. pos \in [Coins -> Int] /\ Ev(t).coin \in Coins
        BY <1>1 DEF EventRec, TypeInv, TypeOK
      <4> QED BY <2>1, <4>1, <4>2
    <3>3. legs' \in [Leg -> Int]
      BY <1>7 DEF OpenOrder, TypeInv, TypeOK
    <3> QED BY <3>1, <3>2, <3>3 DEF VenueOK
  <2> DEFINE r == [task[t] EXCEPT !.pc = "opening", !.res = o.res, !.fs = o.fs]
  <2>4. r \in TaskRec /\ r.act = task[t].act /\ r.held = task[t].held /\ r.pc = "opening"
    BY <1>1, <2>2 DEF TaskRec
  <2>5. TaskOK'
    <3>1. task' = [task EXCEPT ![t] = r]
      BY <2>1 DEF TypeInv, TypeOK
    <3> HIDE DEF r
    <3> QED BY <1>1, <2>4, <3>1, TaskMoves DEF TaskOK
  <2> QED BY <1>7, <2>3, <2>5, Unmoved DEF OpenOrder, EngineOK
<1>8. CASE OpenAnswer(t)
  <2>1. PICK p \in PC : task' = Goto(t, p)
    BY <1>8 DEF OpenAnswer, PC
  <2>2. TaskOK'
    BY <1>0, <1>1, <2>1, GotoMoves DEF TaskOK
  <2>3. DbOK'
    BY <1>8, FinishType DEF OpenAnswer, Decision, DbOK, TypeInv, TypeOK, RowsKnown
  <2> QED BY <1>8, <2>2, <2>3, Unmoved DEF OpenAnswer, EngineOK
<1>9. CASE Arm(t)
  <2>1. PICK armed \in SUBSET {"sl", "tp"}, known \in SUBSET {"sl", "tp"} :
          /\ legs' = [l \in Leg |-> IF l[1] = t[1] /\ l[2] \in armed
                                    THEN task[t].fs ELSE legs[l]]
          /\ task' = [task EXCEPT ![t].pc = "record", ![t].oids = known]
    <3>1. PICK armed \in SUBSET {"sl", "tp"} :
            \E known \in IF May("arm") THEN SUBSET armed ELSE {armed} :
              /\ legs' = [l \in Leg |-> IF l[1] = t[1] /\ l[2] \in armed
                                        THEN task[t].fs ELSE legs[l]]
              /\ task' = [task EXCEPT ![t].pc = "record", ![t].oids = known]
      BY <1>9 DEF Arm
    <3>2. \A known \in IF May("arm") THEN SUBSET armed ELSE {armed} :
            known \in SUBSET {"sl", "tp"}
      OBVIOUS
    <3> QED BY <3>1, <3>2
  <2>2. VenueOK'
    <3>1. task[t].fs \in Int
      BY <1>1 DEF TaskRec
    <3> QED BY <1>9, <2>1, <3>1 DEF Arm, VenueOK, TypeInv, TypeOK
  <2> DEFINE r == [task[t] EXCEPT !.pc = "record", !.oids = known]
  <2>3. r \in TaskRec /\ r.act = task[t].act /\ r.held = task[t].held /\ r.pc = "record"
    BY <1>1 DEF TaskRec
  <2>4. TaskOK'
    <3>1. task' = [task EXCEPT ![t] = r]
      BY <2>1 DEF TypeInv, TypeOK
    <3> HIDE DEF r
    <3> QED BY <1>1, <2>3, <3>1, TaskMoves DEF TaskOK
  <2> QED BY <1>9, <2>2, <2>4, Unmoved DEF Arm, EngineOK
<1>10. CASE Record(t)
  <2>1. TaskOK'
    BY <1>0, <1>1, <1>10, GotoMoves DEF Record, PC, TaskOK
  <2>2. /\ task[t].fs \in Int /\ task[t].size + task[t].fs \in Int
        /\ task[t].mode \in Mode /\ task[t].oids \in SUBSET {"sl", "tp"}
        /\ rows \in [Events -> RowRec]
    BY <1>1 DEF TaskRec, TypeInv, TypeOK
  <2>3. rows' \in [Events -> RowRec]
    <3>1. CASE KindOf(t) = "add"
      <4> DEFINE h == task[t].held
      <4>1. rows' = [rows EXCEPT ![h].size = task[t].size + task[t].fs,
                                 ![h].margin = @ + task[t].fs]
        BY <1>10, <3>1 DEF Record
      <4>2. ASSUME h \in Events
            PROVE  [rows[h] EXCEPT !.size = task[t].size + task[t].fs,
                                   !.margin = @ + task[t].fs] \in RowRec
        <5>1. rows[h] \in RowRec
          BY <2>2, <4>2
        <5>2. rows[h].margin + task[t].fs \in Int
          BY <2>2, <5>1 DEF RowRec
        <5> DEFINE size == task[t].size + task[t].fs
                   margin == rows[h].margin + task[t].fs
        <5>3. [rows[h] EXCEPT !.size = size, !.margin = margin] \in RowRec
          <6>1. size \in Int /\ margin \in Int
            BY <2>2, <5>2
          <6> HIDE DEF h, size, margin
          <6> QED BY <5>1, <6>1 DEF RowRec
        <5> QED BY <5>3
      <4> QED BY <2>2, <4>1, <4>2
    <3>2. CASE KindOf(t) # "add"
      <4>1. [status |-> "open", mode |-> task[t].mode, size |-> task[t].fs,
             margin |-> task[t].fs, oids |-> task[t].oids] \in RowRec
        BY <2>2 DEF RowRec
      <4> QED BY <1>10, <2>2, <3>2, <4>1 DEF Record
    <3> QED BY <3>1, <3>2
  <2>4. DbOK'
    <3>1. RowsKnown'
      BY <1>1, <1>10 DEF Record, RowsKnown, TypeInv, TypeOK
    <3> QED BY <1>10, <2>3, <3>1 DEF Record, DbOK, TypeInv, TypeOK
  <2> QED BY <1>10, <2>1, <2>4, Unmoved DEF Record, EngineOK
<1>11. CASE FinishEntry(t)
  <2>1. TaskOK'
    BY <1>1, <1>11, NextActMoves DEF FinishEntry, TaskOK
  <2>2. DbOK'
    BY <1>11, FinishType DEF FinishEntry, Decision, DbOK, TypeInv, TypeOK, RowsKnown
  <2> QED BY <1>11, <2>1, <2>2, Unmoved DEF FinishEntry, EngineOK
<1> QED BY <1>3, <1>4, <1>5, <1>6, <1>7, <1>8, <1>9, <1>10, <1>11 DEF EntryStep

(* The pause after a loss or after failures. *)
LEMMA CheckPauseType ==
  ASSUME TypeInv, NEW t \in Task, UNCHANGED event, CheckPause(t)
  PROVE  EngineOK'
<1>1. event[t[1]] # None
  BY DEF CheckPause, At, TypeInv, WellFormed
<1>2. TaskOK'
  BY <1>1, NextActMoves DEF CheckPause, TaskOK
<1>3. DbOK'
  <2>1. ASSUME Ev(t).sub \in Subs
        PROVE  [sub[Ev(t).sub] EXCEPT !.status = "paused"] \in SubRec
    <3>1. sub[Ev(t).sub] \in SubRec
      BY <2>1 DEF TypeInv, TypeOK
    <3> QED BY <3>1 DEF SubRec, Status
  <2> QED BY <2>1 DEF CheckPause, DbOK, TypeInv, TypeOK, RowsKnown
<1> QED BY <1>2, <1>3, Unmoved DEF CheckPause, EngineOK

(* A step of a task keeps the types. *)
LEMMA TaskStepType ==
  ASSUME TypeInv, NEW t \in Task, TaskStep(t)
  PROVE  TypeInv'
<1>1. UNCHANGED event
  BY DEF TaskStep
<1>2. EngineOK'
  <2>1. ReadSubs(t) \/ Acquire(t) \/ Release(t) \/ Seen(t) \/ Drop(t) \/ ReadHeld(t)
        \/ Claim(t) \/ ExitStep(t) \/ EntryStep(t) \/ CheckPause(t)
    BY DEF TaskStep
  <2> QED BY <1>1, <2>1, QueueType, ClaimType, ExitType, EntryType, CheckPauseType
<1> QED BY <1>1, <1>2 DEF TaskStep, TypeInv, TypeOK, EngineOK, TaskOK, DbOK, VenueOK,
                          MemoryOK, BurntOK, SweepKnown

(* A trade of the leader gives a new event and a new task their types. *)
LEMMA LeaderTradeType ==
  ASSUME TypeInv, NEW s \in Subs, NEW c \in Coins, NEW e \in Events,
         NEW new \in -MaxLead..MaxLead, LeaderTrade(s, c, e, new)
  PROVE  TypeInv'
<1>1. new \in Int /\ lead[s][c] \in Int /\ lead[s] \in [Coins -> Int]
  BY ConstantsOK DEF TypeInv, TypeOK
<1>2. lead' \in [Subs -> [Coins -> Int]]
  <2>1. [lead[s] EXCEPT ![c] = new] \in [Coins -> Int]
    BY <1>1
  <2> QED BY <2>1 DEF LeaderTrade, TypeInv, TypeOK
<1> DEFINE known == {d \in Events : event[d] # None}
           ev == [sub |-> s, coin |-> c, old |-> lead[s][c], new |-> new,
                  n |-> Cardinality(known) + 1]
<1>3. ev \in EventRec
  <2>1. IsFiniteSet(known)
    BY ConstantsOK, FS_Subset
  <2>2. Cardinality(known) + 1 \in Nat
    BY <2>1, FS_CardinalityType
  <2> QED BY <1>1, <2>2 DEF EventRec
<1>4. /\ event' = [event EXCEPT ![e] = ev] /\ event[e] = None
      /\ event \in [Events -> EventRec \cup {None}]
  BY DEF LeaderTrade, TypeInv, TypeOK
<1>5. event' \in [Events -> EventRec \cup {None}] /\ event'[e] # None
  <2> HIDE DEF ev
  <2> QED BY <1>3, <1>4, NoneIsNoEvent
<1> DEFINE t == <<e, 1>>
           r == [task[t] EXCEPT !.pc = "start"]
<1>6. t \in Task /\ task[t] \in TaskRec /\ task[t].act >= 1 /\ t[1] = e
  BY ConstantsOK DEF Task, TypeInv, TypeOK, WellFormed
<1>7. task' = [task EXCEPT ![t] = r] /\ task \in [Task -> TaskRec]
  BY DEF LeaderTrade, Goto, TypeInv, TypeOK
<1>8. r \in TaskRec /\ r.act >= 1 /\ r.pc = "start"
  BY <1>6 DEF TaskRec
<1>9. task' \in [Task -> TaskRec]
  <2> HIDE DEF t, r
  <2> QED BY <1>7, <1>8
<1>10. ASSUME NEW d \in Events, event[d] # None
       PROVE  event'[d] = event[d]
  BY <1>4, <1>10
<1>11. WellFormed'
  <2>1. ASSUME NEW u \in Task
        PROVE  /\ task'[u].act >= 1
               /\ ~At(u, "idle")' => event'[u[1]] # None
               /\ task'[u].held # None => event'[task'[u].held] # None
               /\ task'[u].pc \in Acting => task'[u].act <= Len(ActsOf(u)')
    <3>1. CASE u = t
      <4>1. task'[u] = r /\ r.held = task[t].held
        BY <1>7, <3>1
      <4>2. r.held # None => r.held \in Events /\ event[r.held] # None
        BY <1>6, <4>1 DEF TypeInv, WellFormed, TaskRec
      <4>3. r.held # None => event'[r.held] # None
        BY <1>10, <4>2
      <4> HIDE DEF r
      <4> QED BY <1>5, <1>6, <1>8, <3>1, <4>1, <4>3 DEF Acting
    <3>2. CASE u # t
      <4>1. task'[u] = task[u] /\ u[1] \in Events /\ task[u] \in TaskRec
        BY <1>7, <3>2 DEF Task
      <4>2. task[u].held # None => event'[task[u].held] # None
        <5>1. task[u].held # None => task[u].held \in Events /\ event[task[u].held] # None
          BY <4>1 DEF TypeInv, WellFormed, TaskRec
        <5> QED BY <1>10, <5>1
      <4>3. CASE event[u[1]] = None
        BY <4>1, <4>2, <4>3 DEF TypeInv, WellFormed, At, Acting
      <4>4. CASE event[u[1]] # None
        <5>1. event'[u[1]] = event[u[1]]
          BY <1>10, <4>1, <4>4
        <5> QED BY <4>1, <4>2, <4>4, <5>1 DEF TypeInv, WellFormed, At, ActsOf, Ev
      <4> QED BY <4>3, <4>4
    <3> QED BY <3>1, <3>2
  <2> QED BY <2>1 DEF WellFormed
<1>12. RowsKnown' /\ SweepKnown'
  BY <1>10 DEF LeaderTrade, TypeInv, RowsKnown, SweepKnown, db
<1> QED BY <1>2, <1>5, <1>9, <1>11, <1>12
    DEF LeaderTrade, TypeInv, TypeOK, db, venue, memory

(* An event fed again starts a second task. *)
LEMMA RedeliverType ==
  ASSUME TypeInv, NEW t \in Task, Redeliver(t)
  PROVE  TypeInv'
<1>1. event[t[1]] # None
  <2>1. <<t[1], 1>> \in Task
    BY ConstantsOK DEF Task
  <2> QED BY <2>1 DEF Redeliver, TypeInv, WellFormed, At
<1>2. task' \in [Task -> TaskRec] /\ WellFormed'
  BY <1>1, GotoMoves DEF Redeliver, PC, Acting
<1> QED BY <1>2 DEF Redeliver, TypeInv, TypeOK, RowsKnown, SweepKnown, db, venue, memory

(* The sweep keeps the types. *)
LEMMA SweepType ==
  ASSUME TypeInv, SweepStep
  PROVE  TypeInv'
<1>1. WellFormed'
  BY DEF SweepStep, SweepFrame, TypeInv, WellFormed, At, ActsOf, Ev
<1>2. /\ rec' \in [pc : {"idle", "chain", "apply"}, size : [Events -> Int],
                   chain : [Coins -> Int]]
      /\ SweepKnown'
  <2>1. CASE SweepRows
    <3> DEFINE size == [e \in Events |-> IF rows[e].status = "open" /\ rows[e].mode = "live"
                                         THEN rows[e].size ELSE 0]
    <3>1. size \in [Events -> Int]
      BY DEF TypeInv, TypeOK, RowRec
    <3>2. rec' = [rec EXCEPT !.pc = "chain", !.size = size]
      BY <2>1 DEF SweepRows
    <3>3. \A e \in Events : size[e] # 0 => event[e] # None
      BY DEF TypeInv, RowsKnown
    <3> HIDE DEF size
    <3> QED BY <3>1, <3>2, <3>3 DEF SweepStep, SweepFrame, SweepKnown, TypeInv, TypeOK
  <2>2. CASE SweepChain
    BY <2>2 DEF SweepChain, SweepStep, SweepFrame, SweepKnown, TypeInv, TypeOK
  <2>3. CASE SweepUnread \/ SweepApply
    BY <2>3 DEF SweepUnread, SweepApply, NoSweep, SweepKnown
  <2> QED BY <2>1, <2>2, <2>3 DEF SweepStep
<1>3. rows' \in [Events -> RowRec] /\ legs' \in [Leg -> Int] /\ RowsKnown'
  <2>1. CASE SweepApply
    <3>1. ASSUME NEW e \in Events, rec.size[e] > 0
          PROVE  OnChain(e) \in Int /\ event[e] # None
      <4>1. event[e] \in EventRec /\ event[e] # None
        BY <3>1 DEF TypeInv, TypeOK, SweepKnown
      <4>2. rec.chain[event[e].coin] \in Int
        BY <4>1 DEF TypeInv, TypeOK, EventRec
      <4> QED BY <4>1, <4>2 DEF OnChain, Magnitude
    <3>2. ASSUME NEW e \in Events
          PROVE  rows'[e] \in RowRec /\ (rows'[e].status # "none" => event[e] # None)
      <4>1. rows[e] \in RowRec /\ (rows[e].status # "none" => event[e] # None)
        BY DEF TypeInv, TypeOK, RowsKnown
      <4>2. CASE e \in Gone
        <5>1. rows'[e] = [rows[e] EXCEPT !.status = "detached"] /\ rec.size[e] > 0
          BY <2>1, <4>2 DEF SweepApply, Gone
        <5> QED BY <3>1, <4>1, <5>1 DEF RowRec
      <4>3. CASE e \notin Gone /\ rec.size[e] > 0 /\ OnChain(e) < rec.size[e]
        <5> DEFINE n == OnChain(e)
        <5>1. rows'[e] = [rows[e] EXCEPT !.size = n] /\ n \in Int
          BY <2>1, <3>1, <4>3 DEF SweepApply
        <5> HIDE DEF n
        <5> QED BY <4>1, <5>1 DEF RowRec
      <4>4. CASE ~(rec.size[e] > 0 /\ OnChain(e) < rec.size[e]) /\ e \notin Gone
        BY <2>1, <4>1, <4>4 DEF SweepApply
      <4> QED BY <4>2, <4>3, <4>4
    <3>3. legs' \in [Leg -> Int]
      BY <2>1 DEF SweepApply, TypeInv, TypeOK
    <3>4. DOMAIN rows' = Events /\ rows' = [e \in Events |-> rows'[e]]
      BY <2>1 DEF SweepApply
    <3> QED BY <3>2, <3>3, <3>4 DEF RowsKnown, SweepStep, SweepFrame
  <2>2. CASE ~SweepApply
    BY <2>2 DEF SweepStep, SweepFrame, SweepRows, SweepChain, SweepUnread, RowsKnown,
                TypeInv, TypeOK
  <2> QED BY <2>1, <2>2
<1> QED BY <1>1, <1>2, <1>3 DEF SweepStep, SweepFrame, TypeInv, TypeOK, memory

(* Changing an integer map at one place leaves it an integer map. *)
LEMMA IntUpdate ==
  ASSUME NEW S, NEW f \in [S -> Int], NEW x, NEW n \in Int
  PROVE  [f EXCEPT ![x] = n] \in [S -> Int]
  OBVIOUS

(* The router's calls keep the types. *)
LEMMA RouterType ==
  ASSUME TypeInv, RouterStep
  PROVE  TypeInv'
<1>1. WellFormed' /\ RowsKnown' /\ SweepKnown'
  BY DEF RouterStep, TypeInv, WellFormed, RowsKnown, SweepKnown, At, ActsOf, Ev
<1>2. ASSUME NEW s \in Subs, NEW st \in Status
      PROVE  SetStatus(s, st) \in [Subs -> SubRec]
  <2>1. sub[s] \in SubRec /\ sub \in [Subs -> SubRec]
    BY DEF TypeInv, TypeOK
  <2> DEFINE n == IF st = "active" THEN 0 ELSE sub[s].fails
  <2>2. n \in Nat
    BY <2>1 DEF SubRec
  <2>3. SetStatus(s, st) = [sub EXCEPT ![s] = [sub[s] EXCEPT !.status = st, !.fails = n]]
    BY <2>1 DEF SetStatus
  <2> HIDE DEF n
  <2>4. [sub[s] EXCEPT !.status = st, !.fails = n] \in SubRec
    BY <2>1, <2>2 DEF SubRec
  <2> QED BY <2>1, <2>3, <2>4
<1> DEFINE PatchOK == patch \in [Subs -> [mode : Mode, revive : BOOLEAN] \cup {None}]
<1>3. sub' \in [Subs -> SubRec] /\ userOn' \in BOOLEAN /\ PatchOK' /\ ops' \in Nat
  <2>0. /\ sub \in [Subs -> SubRec] /\ userOn \in BOOLEAN /\ PatchOK /\ ops \in Nat
    BY DEF TypeInv, TypeOK
  <2>1. ASSUME NEW s \in Subs, NEW st \in Status, PatchStatus(s, st)
        PROVE  sub' \in [Subs -> SubRec] /\ userOn' \in BOOLEAN /\ PatchOK' /\ ops' \in Nat
    BY <1>2, <2>0, <2>1 DEF PatchStatus, Outside
  <2>2. ASSUME NEW s \in Subs, NEW m \in Mode, NEW revive \in BOOLEAN, CheckMode(s, m, revive)
        PROVE  sub' \in [Subs -> SubRec] /\ userOn' \in BOOLEAN /\ PatchOK' /\ ops' \in Nat
    BY <2>0, <2>2 DEF CheckMode, Outside
  <2>3. ASSUME NEW s \in Subs, WriteMode(s)
        PROVE  sub' \in [Subs -> SubRec] /\ userOn' \in BOOLEAN /\ PatchOK' /\ ops' \in Nat
    <3>1. patch[s] \in [mode : Mode, revive : BOOLEAN]
      BY <2>0, <2>3 DEF WriteMode
    <3> DEFINE new == IF patch[s].revive THEN SetStatus(s, "active") ELSE sub
    <3>2. new \in [Subs -> SubRec]
      BY <1>2, <2>0 DEF Status
    <3>3. [new[s] EXCEPT !.mode = patch[s].mode] \in SubRec
      <4> HIDE DEF new
      <4> QED BY <3>1, <3>2 DEF SubRec
    <3>4. sub' = [new EXCEPT ![s].mode = patch[s].mode]
      BY <2>3 DEF WriteMode
    <3>5. sub' \in [Subs -> SubRec]
      <4> HIDE DEF new
      <4> QED BY <3>2, <3>3, <3>4
    <3> QED BY <2>0, <2>3, <3>5 DEF WriteMode
  <2>4. ASSUME NEW modes, PauseAll(modes)
        PROVE  sub' \in [Subs -> SubRec] /\ userOn' \in BOOLEAN /\ PatchOK' /\ ops' \in Nat
    <3>1. ASSUME NEW s \in Subs
          PROVE  [sub[s] EXCEPT !.status = "paused"] \in SubRec
      BY <2>0 DEF SubRec, Status
    <3> QED BY <2>0, <2>4, <3>1 DEF PauseAll, Outside
  <2>5. CASE ToggleUser
    BY <2>0, <2>5 DEF ToggleUser, Outside
  <2> HIDE DEF PatchOK
  <2> QED BY <2>1, <2>2, <2>3, <2>4, <2>5 DEF RouterStep
<1> QED BY <1>1, <1>3 DEF RouterStep, TypeInv, TypeOK, venue, memory

(* Moves of the account keep the types. *)
LEMMA AccountType ==
  ASSUME TypeInv, AccountStep
  PROVE  TypeInv'
<1>1. WellFormed' /\ RowsKnown' /\ SweepKnown'
  BY DEF AccountStep, TypeInv, WellFormed, RowsKnown, SweepKnown, At, ActsOf, Ev, db
<1>0. pos \in [Coins -> Int] /\ legs \in [Leg -> Int] /\ burnt \in [Subs -> BOOLEAN] /\ ops \in Nat
  BY DEF TypeInv, TypeOK
<1> DEFINE Moved == /\ pos' \in [Coins -> Int] /\ legs' \in [Leg -> Int]
                    /\ burnt' \in [Subs -> BOOLEAN] /\ ops' \in Nat
<1>2. ASSUME NEW l \in Leg, LegFires(l[1], l[2])
      PROVE  Moved
  <2>1. l = <<l[1], l[2]>>
    BY DEF Leg
  <2> DEFINE side == RowSide(l[1])
             size == legs[<<l[1], l[2]>>]
  <2>2. side \in Int /\ size \in Int
    BY <1>0, <2>1, SideOfType DEF RowSide, Side
  <2>3. side * size \in Int
    BY <2>2
  <2>4. pos' = [pos EXCEPT ![event[l[1]].coin] = @ - side * size]
    BY <1>2 DEF LegFires
  <2> HIDE DEF side, size
  <2>5. pos' \in [Coins -> Int]
    <3> DEFINE c == event[l[1]].coin
               d == side * size
    <3>1. d \in Int /\ pos' = [pos EXCEPT ![c] = @ - d]
      BY <2>3, <2>4
    <3> HIDE DEF c, d
    <3>2. CASE c \in Coins
      <4>1. pos[c] - d \in Int
        BY <1>0, <3>1, <3>2
      <4> QED BY <1>0, <3>1, <4>1, IntUpdate
    <3>3. CASE c \notin Coins
      BY <1>0, <3>1, <3>3
    <3> QED BY <3>2, <3>3
  <2>6. legs' \in [Leg -> Int] /\ ops' \in Nat
    <3>1. legs' = [legs EXCEPT ![<<l[1], l[2]>>] = 0]
      BY <1>2 DEF LegFires
    <3>2. legs' \in [Leg -> Int]
      BY <1>0, <3>1, IntUpdate
    <3> QED BY <1>0, <1>2, <3>2 DEF LegFires, Outside
  <2>7. burnt' \in [Subs -> BOOLEAN]
    BY <1>0, <1>2 DEF LegFires
  <2> QED BY <2>5, <2>6, <2>7
<1>3. ASSUME NEW c \in Coins, NEW held \in -OpenLots..OpenLots, UserTrades(c, held)
      PROVE  Moved
  BY <1>0, <1>3, ConstantsOK DEF UserTrades, Outside
<1>4. Moved
  <2> HIDE DEF Moved
  <2> QED BY <1>2, <1>3 DEF AccountStep
<1> QED BY <1>1, <1>4 DEF AccountStep, TypeInv, TypeOK, db, memory

(* A restart leaves only settled tasks. *)
LEMMA RestartType ==
  ASSUME TypeInv, Restart
  PROVE  TypeInv'
<1> DEFINE lost == Fresh("lost", 1, "live", "active")
<1>1. lost \in TaskRec /\ lost.pc = "lost" /\ lost.act = 1 /\ lost.held = None
  BY DEF Fresh, TaskRec, Mode, Status
<1>2. task' = [t \in Task |-> IF At(t, "idle") THEN task[t] ELSE lost] /\ UNCHANGED event
  BY DEF Restart
<1>3. task' \in [Task -> TaskRec] /\ WellFormed'
  <2> HIDE DEF lost
  <2>1. task' \in [Task -> TaskRec]
    BY <1>1, <1>2 DEF TypeInv, TypeOK
  <2>2. ASSUME NEW u \in Task
        PROVE  /\ task'[u].act >= 1
               /\ ~At(u, "idle")' => event'[u[1]] # None
               /\ task'[u].held # None => event'[task'[u].held] # None
               /\ task'[u].pc \in Acting => task'[u].act <= Len(ActsOf(u)')
    BY <1>1, <1>2 DEF TypeInv, WellFormed, At, Acting, ActsOf, Ev
  <2> QED BY <2>1, <2>2 DEF WellFormed
<1>4. RowsKnown' /\ SweepKnown'
  BY DEF Restart, db, TypeInv, RowsKnown, SweepKnown, NoSweep
<1>5. rec' \in [pc : {"idle", "chain", "apply"}, size : [Events -> Int], chain : [Coins -> Int]]
  BY DEF Restart, NoSweep
<1>6. ops' \in Nat /\ lock' \in [Subs -> Task \cup {None}] /\ notCopied' \subseteq Key
      /\ patch' \in [Subs -> [mode : Mode, revive : BOOLEAN] \cup {None}]
  BY DEF Restart, Outside, TypeInv, TypeOK
<1> QED BY <1>3, <1>4, <1>5, <1>6 DEF Restart, TypeInv, TypeOK, db, venue

(* The initial state has its types. *)
LEMMA InitType == Init => TypeInv
<1> SUFFICES ASSUME Init PROVE TypeInv
  OBVIOUS
<1>1. NoTask \in TaskRec /\ NoTask.act = 1 /\ NoTask.pc = "idle" /\ NoTask.held = None
  BY DEF NoTask, Fresh, TaskRec, Mode, Status
<1>2. NoRow \in RowRec /\ NoRow.status = "none"
  BY DEF NoRow, RowRec, Mode
<1>3. NoSweep \in [pc : {"idle", "chain", "apply"}, size : [Events -> Int], chain : [Coins -> Int]]
  BY DEF NoSweep
<1>4. sub \in [Subs -> SubRec]
  <2>1. \A m \in Mode :
          [mode |-> m, status |-> "active", fails |-> 0, loss |-> FALSE] \in SubRec
    BY DEF SubRec, Status
  <2>2. sub \in [Subs -> {[mode |-> m, status |-> "active", fails |-> 0, loss |-> FALSE] :
                            m \in Mode}]
    BY DEF Init, Mode
  <2> QED BY <2>1, <2>2
<1>5. WellFormed
  BY <1>1 DEF Init, WellFormed, At, Acting
<1>6. RowsKnown /\ SweepKnown
  BY <1>2 DEF Init, RowsKnown, SweepKnown, NoSweep
<1> QED BY <1>1, <1>2, <1>3, <1>4, <1>5, <1>6 DEF Init, TypeInv, TypeOK, Decision

(* Every step keeps the types. *)
LEMMA NextType == TypeInv /\ [Next]_vars => TypeInv'
<1> SUFFICES ASSUME TypeInv, [Next]_vars PROVE TypeInv'
  OBVIOUS
<1>1. CASE UNCHANGED vars
  BY <1>1 DEF vars, db, venue, memory, TypeInv, TypeOK, WellFormed, RowsKnown, SweepKnown,
              At, ActsOf, Ev
<1>2. CASE Next
  BY <1>2, LeaderTradeType, RedeliverType, TaskStepType, SweepType, RouterType,
     AccountType, RestartType DEF Next
<1> QED BY <1>1, <1>2

(* Types hold in every reachable state, and every working task has its event *)
(* and an action of it.                                                      *)
THEOREM TypesHold == Spec => []TypeOK
<1>1. TypeInv => TypeOK
  BY DEF TypeInv
<1> QED BY <1>1, InitType, NextType, PTL DEF Spec

-----------------------------------------------------------------------------
(* One order per action.  AtMostOneOrder is not inductive: that a task about*)
(* to send has not sent before needs the claim to be unique, by the log and *)
(* among the tasks that hold it.                                            *)
Claimed     == Acting \ {"claim"}
BeforeOrder == {"exit", "entry", "place"}

UnclaimedUnsent == \A k \in Key : log[k] = "none" => sent[k] = 0
ClaimLogged     == \A t \in Task : task[t].pc \in Claimed => log[KeyOf(t)] # "none"
ClaimUnique     ==
  \A t, u \in Task : /\ task[t].pc \in Claimed /\ task[u].pc \in Claimed
                     /\ KeyOf(t) = KeyOf(u)
                     => t = u
OrderPending    == \A t \in Task : task[t].pc \in BeforeOrder => sent[KeyOf(t)] = 0

OnceInv == UnclaimedUnsent /\ ClaimLogged /\ ClaimUnique /\ OrderPending /\ AtMostOneOrder

(* A task makes no claim, and does not go back to before its order. *)
KeepsClaim(u) ==
  task'[u].pc \in Claimed => /\ task[u].pc \in Claimed /\ task'[u].act = task[u].act
                             /\ task'[u].pc \in BeforeOrder => task[u].pc \in BeforeOrder

(* Steps that neither claim nor send, and undo no decision. *)
LEMMA OnceKept ==
  ASSUME TypeInv, OnceInv, UNCHANGED sent, \A u \in Task : KeepsClaim(u),
         \A k \in Key : log[k] # "none" => log'[k] # "none"
  PROVE  OnceInv'
<1>1. ASSUME NEW u \in Task, task'[u].pc \in Claimed
      PROVE  /\ task[u].pc \in Claimed /\ KeyOf(u)' = KeyOf(u) /\ KeyOf(u) \in Key
             /\ task'[u].pc \in BeforeOrder => task[u].pc \in BeforeOrder
  <2>1. task[u].pc \in Claimed /\ task'[u].act = task[u].act
        /\ (task'[u].pc \in BeforeOrder => task[u].pc \in BeforeOrder)
    BY <1>1 DEF KeepsClaim
  <2>2. KeyOf(u) \in Key
    BY <2>1, ActionType DEF Claimed
  <2> QED BY <2>1, <2>2 DEF KeyOf
<1>2. UnclaimedUnsent' /\ AtMostOneOrder'
  BY DEF OnceInv, UnclaimedUnsent, AtMostOneOrder
<1>3. ClaimLogged'
  BY <1>1 DEF OnceInv, ClaimLogged
<1>4. ClaimUnique'
  BY <1>1 DEF OnceInv, ClaimUnique
<1>5. OrderPending'
  <2>1. BeforeOrder \subseteq Claimed
    BY DEF BeforeOrder, Claimed, Acting
  <2> QED BY <1>1, <2>1 DEF OnceInv, OrderPending
<1> QED BY <1>2, <1>3, <1>4, <1>5 DEF OnceInv

(* The claim: the key is free, so nobody has sent for it or holds it. *)
LEMMA ClaimOnce ==
  ASSUME TypeInv, OnceInv, NEW t \in Task, Claim(t)
  PROVE  OnceInv'
<1>0. /\ task[t].pc = "claim" /\ KeyOf(t) \in Key /\ UNCHANGED sent
      /\ task \in [Task -> TaskRec] /\ log \in [Key -> Decision]
  BY ActionType DEF Claim, At, Acting, TypeInv, TypeOK, venue
<1>1. CASE task' = NextAct(t) /\ UNCHANGED log
  <2>1. \A u \in Task : KeepsClaim(u)
    BY <1>0, <1>1 DEF NextAct, Fresh, KeepsClaim, Claimed, Acting
  <2> QED BY <1>0, <1>1, <2>1, OnceKept
<1>2. CASE ~(task' = NextAct(t) /\ UNCHANGED log)
  <2>1. /\ log[KeyOf(t)] = "none" /\ log' = [log EXCEPT ![KeyOf(t)] = "pending"]
        /\ task' = Goto(t, IF IsExit(t) THEN "exit" ELSE "entry")
    BY <1>2 DEF Claim, Claimable
  <2>2. /\ task'[t].act = task[t].act
        /\ \A u \in Task \ {t} : task'[u] = task[u]
    BY <1>0, <2>1 DEF Goto, TaskRec
  <2>3. \A u \in Task : KeyOf(u)' = KeyOf(u)
    BY <2>2 DEF KeyOf
  <2>4. ASSUME NEW u \in Task \ {t}, task[u].pc \in Claimed
        PROVE  KeyOf(u) # KeyOf(t) /\ KeyOf(u) \in Key
    BY <2>1, <2>4, ActionType DEF OnceInv, ClaimLogged, Claimed
  <2>5. UnclaimedUnsent' /\ AtMostOneOrder'
    BY <1>0, <2>1 DEF OnceInv, UnclaimedUnsent, AtMostOneOrder
  <2>6. ClaimLogged'
    <3>1. ASSUME NEW u \in Task, task'[u].pc \in Claimed PROVE log'[KeyOf(u)] # "none"
      <4>1. CASE u = t
        BY <1>0, <2>1, <4>1
      <4>2. CASE u # t
        BY <1>0, <2>1, <2>2, <2>4, <3>1, <4>2 DEF OnceInv, ClaimLogged
      <4> QED BY <4>1, <4>2
    <3> QED BY <2>3, <3>1 DEF ClaimLogged
  <2>7. ClaimUnique'
    BY <2>2, <2>3, <2>4 DEF OnceInv, ClaimUnique
  <2>8. OrderPending'
    <3>1. sent[KeyOf(t)] = 0
      BY <1>0, <2>1 DEF OnceInv, UnclaimedUnsent
    <3> QED BY <1>0, <2>2, <2>3, <3>1 DEF OnceInv, OrderPending
  <2> QED BY <2>5, <2>6, <2>7, <2>8 DEF OnceInv
<1> QED BY <1>1, <1>2

(* The order: the first of its key, and the only task at it has sent it. *)
LEMMA OrderOnce ==
  ASSUME TypeInv, OnceInv, NEW t \in Task, CloseOrder(t) \/ OpenOrder(t)
  PROVE  OnceInv'
<1>0. /\ task[t].pc \in BeforeOrder /\ task[t].pc \in Claimed /\ KeyOf(t) \in Key
      /\ UNCHANGED log /\ sent' = [sent EXCEPT ![KeyOf(t)] = @ + 1]
      /\ task \in [Task -> TaskRec] /\ sent \in [Key -> Nat]
  BY ActionType DEF CloseOrder, OpenOrder, At, BeforeOrder, Claimed, Acting, TypeInv,
                    TypeOK, db
<1>1. PICK p \in {"closing", "opening"} : \E res, fs :
        task' = [task EXCEPT ![t].pc = p, ![t].res = res, ![t].fs = fs]
  BY DEF CloseOrder, OpenOrder
<1>2. /\ task'[t].act = task[t].act /\ task'[t].pc = p
      /\ \A u \in Task \ {t} : task'[u] = task[u]
  BY <1>0, <1>1 DEF TaskRec
<1>3. \A u \in Task : KeyOf(u)' = KeyOf(u)
  BY <1>2 DEF KeyOf
<1>4. sent[KeyOf(t)] = 0 /\ log[KeyOf(t)] # "none"
  BY <1>0 DEF OnceInv, OrderPending, ClaimLogged
<1>5. UnclaimedUnsent' /\ AtMostOneOrder'
  BY <1>0, <1>4 DEF OnceInv, UnclaimedUnsent, AtMostOneOrder
<1>6. ClaimLogged'
  BY <1>0, <1>2, <1>3 DEF OnceInv, ClaimLogged
<1>7. ClaimUnique'
  BY <1>0, <1>2, <1>3 DEF OnceInv, ClaimUnique
<1>8. OrderPending'
  <2>1. ASSUME NEW u \in Task, task'[u].pc \in BeforeOrder PROVE sent'[KeyOf(u)] = 0
    <3>1. u # t /\ task[u].pc \in BeforeOrder
      BY <1>2, <2>1 DEF BeforeOrder
    <3>2. task[u].pc \in Claimed
      BY <3>1 DEF BeforeOrder, Claimed, Acting
    <3>3. KeyOf(u) # KeyOf(t) /\ KeyOf(u) \in Key
      BY <1>0, <3>1, <3>2, ActionType DEF OnceInv, ClaimUnique, Claimed
    <3> QED BY <1>0, <3>1, <3>3 DEF OnceInv, OrderPending
  <2> QED BY <1>3, <2>1 DEF OrderPending
<1> QED BY <1>5, <1>6, <1>7, <1>8 DEF OnceInv

(* Every other step of a task. *)
LEMMA QuietTaskStep ==
  ASSUME TypeInv, NEW t \in Task, TaskStep(t),
         ~Claim(t), ~CloseOrder(t), ~OpenOrder(t)
  PROVE  /\ UNCHANGED sent /\ \A u \in Task : KeepsClaim(u)
         /\ \A k \in Key : log[k] # "none" => log'[k] # "none"
<1>0. task \in [Task -> TaskRec] /\ task[t] \in TaskRec /\ log \in [Key -> Decision]
  BY DEF TypeInv, TypeOK
<1>1. CASE ReadSubs(t) \/ Acquire(t) \/ Release(t) \/ Seen(t) \/ Drop(t) \/ ReadHeld(t)
  <2>1. \A u \in Task : KeepsClaim(u)
    <3>1. \A u \in Task \ {t} : task'[u] = task[u]
      BY <1>0, <1>1 DEF ReadSubs, Acquire, Release, Seen, Drop, ReadHeld, Goto, NextAct
    <3>2. task'[t].pc \in {"done", "wait", "next", "claim"}
      <4>1. CASE ReadSubs(t) \/ Acquire(t)
        BY <1>0, <4>1 DEF ReadSubs, Acquire, Goto, TaskRec
      <4>2. CASE Release(t) \/ Seen(t) \/ Drop(t)
        BY <1>0, <4>2 DEF Release, Seen, Drop, NextAct, Fresh
      <4>3. CASE ReadHeld(t)
        BY <1>0, <4>3 DEF ReadHeld, TaskRec
      <4> QED BY <1>1, <4>1, <4>2, <4>3
    <3> QED BY <3>1, <3>2 DEF KeepsClaim, Claimed, Acting
  <2>2. UNCHANGED <<sent, log>>
    BY <1>1 DEF ReadSubs, Acquire, Release, Seen, Drop, ReadHeld, db, venue
  <2> QED BY <2>1, <2>2
<1>2. CASE SkipExit(t) \/ SkipEntry(t) \/ GateSkip(t) \/ FinishEntry(t)
  <2>1. PICK d \in Decision \ {"none"} : Finish(t, d) /\ task' = NextAct(t)
    BY <1>2 DEF SkipExit, SkipEntry, GateSkip, FinishEntry, Skip, Decision
  <2>2. \A u \in Task : KeepsClaim(u)
    BY <1>0, <2>1 DEF NextAct, Fresh, KeepsClaim, Claimed, Acting
  <2>3. \A k \in Key : log[k] # "none" => log'[k] # "none"
    BY <1>0, <2>1 DEF Finish
  <2>4. UNCHANGED sent
    BY <1>2 DEF SkipExit, SkipEntry, GateSkip, FinishEntry, venue
  <2> QED BY <2>2, <2>3, <2>4
<1>3. CASE CloseAnswer(t) \/ FinishExit(t) \/ GateLoss(t) \/ OpenAnswer(t)
  <2>1. PICK p \in {"unarm", "settle", "check", "arm", "record"} : task' = Goto(t, p)
    BY <1>3 DEF CloseAnswer, FinishExit, GateLoss, OpenAnswer
  <2>2. task[t].pc \in Claimed
    BY <1>3 DEF CloseAnswer, FinishExit, GateLoss, OpenAnswer, At, Claimed, Acting
  <2>3. \A u \in Task : KeepsClaim(u)
    BY <1>0, <2>1, <2>2 DEF Goto, KeepsClaim, BeforeOrder, TaskRec
  <2>4. UNCHANGED log \/ \E d \in Decision \ {"none"} : Finish(t, d)
    BY <1>3 DEF CloseAnswer, FinishExit, GateLoss, OpenAnswer, Decision
  <2>5. \A k \in Key : log[k] # "none" => log'[k] # "none"
    BY <1>0, <2>4 DEF Finish
  <2>6. UNCHANGED sent
    BY <1>3 DEF CloseAnswer, FinishExit, GateLoss, OpenAnswer, venue
  <2> QED BY <2>3, <2>5, <2>6
<1>4. CASE ShadowExit(t) \/ Unarm(t) \/ Settle(t) \/ GatePass(t) \/ ShadowEntry(t)
           \/ Arm(t) \/ Record(t)
  <2>1. task[t].pc \in Claimed
    BY <1>4 DEF ShadowExit, Unarm, Settle, GatePass, ShadowEntry, Arm, Record, At,
                Claimed, Acting
  <2>2. \A u \in Task : KeepsClaim(u)
    <3>1. \A u \in Task \ {t} : task'[u] = task[u]
      BY <1>0, <1>4 DEF ShadowExit, Unarm, Settle, GatePass, ShadowEntry, Arm, Record, Goto
    <3>2. /\ task'[t].act = task[t].act
          /\ task'[t].pc \in BeforeOrder => task[t].pc \in BeforeOrder
      <4>1. CASE GatePass(t)
        BY <1>0, <4>1 DEF GatePass, At, Goto, BeforeOrder, TaskRec
      <4>2. CASE Unarm(t) \/ Settle(t) \/ Record(t)
        <5>1. PICK p \in {"settle", "finish", "booked"} : task' = Goto(t, p)
          BY <4>2 DEF Unarm, Settle, Record
        <5> QED BY <1>0, <5>1 DEF Goto, BeforeOrder, TaskRec
      <4>3. CASE ShadowExit(t) \/ ShadowEntry(t)
        BY <1>0, <4>3 DEF ShadowExit, ShadowEntry, BeforeOrder, TaskRec
      <4>4. CASE Arm(t)
        BY <1>0, <4>4 DEF Arm, BeforeOrder, TaskRec
      <4> QED BY <1>4, <4>1, <4>2, <4>3, <4>4
    <3> QED BY <2>1, <3>1, <3>2 DEF KeepsClaim
  <2>3. UNCHANGED <<sent, log>>
    BY <1>4 DEF ShadowExit, Unarm, Settle, GatePass, ShadowEntry, Arm, Record, db, venue
  <2> QED BY <2>2, <2>3
<1>5. CASE CheckPause(t)
  <2>1. \A u \in Task : KeepsClaim(u)
    BY <1>0, <1>5 DEF CheckPause, NextAct, Fresh, KeepsClaim, Claimed, Acting
  <2> QED BY <1>5, <2>1 DEF CheckPause, venue
<1> QED BY <1>1, <1>2, <1>3, <1>4, <1>5 DEF TaskStep, ExitStep, EntryStep

(* The steps of everybody else. *)
LEMMA OutsideKeepsClaims ==
  ASSUME TypeInv, [Next]_vars, ~ \E t \in Task : TaskStep(t)
  PROVE  UNCHANGED <<sent, log>> /\ \A u \in Task : KeepsClaim(u)
<1>0. task \in [Task -> TaskRec]
  BY DEF TypeInv, TypeOK
<1>1. ASSUME NEW s \in Subs, NEW c \in Coins, NEW e \in Events,
             NEW new \in -MaxLead..MaxLead, LeaderTrade(s, c, e, new)
      PROVE  UNCHANGED <<sent, log>> /\ \A u \in Task : KeepsClaim(u)
  BY <1>0, <1>1 DEF LeaderTrade, Goto, KeepsClaim, Claimed, Acting, TaskRec, db, venue
<1>2. ASSUME NEW t \in Task, Redeliver(t)
      PROVE  UNCHANGED <<sent, log>> /\ \A u \in Task : KeepsClaim(u)
  BY <1>0, <1>2 DEF Redeliver, Goto, KeepsClaim, Claimed, Acting, TaskRec, db, venue
<1>3. CASE SweepStep \/ RouterStep \/ AccountStep \/ UNCHANGED vars
  <2>1. UNCHANGED <<sent, log, task>>
    BY <1>3 DEF SweepStep, SweepFrame, RouterStep, AccountStep, vars, db, venue
  <2> QED BY <2>1 DEF KeepsClaim
<1>4. CASE Restart
  <2>1. \A u \in Task : task'[u].pc \in {"idle", "lost"}
    BY <1>4 DEF Restart, Fresh, At
  <2> QED BY <1>4, <2>1 DEF Restart, KeepsClaim, Claimed, Acting, db, venue
<1> QED BY <1>1, <1>2, <1>3, <1>4 DEF Next

(* Every step keeps the claims unique and each order behind its claim. *)
LEMMA OnceStep == TypeInv /\ OnceInv /\ [Next]_vars => OnceInv'
<1> SUFFICES ASSUME TypeInv, OnceInv, [Next]_vars PROVE OnceInv'
  OBVIOUS
<1>1. ASSUME NEW t \in Task, TaskStep(t) PROVE OnceInv'
  <2>1. CASE Claim(t)
    BY <2>1, ClaimOnce
  <2>2. CASE CloseOrder(t) \/ OpenOrder(t)
    BY <2>2, OrderOnce
  <2>3. CASE ~Claim(t) /\ ~CloseOrder(t) /\ ~OpenOrder(t)
    BY <1>1, <2>3, QuietTaskStep, OnceKept
  <2> QED BY <2>1, <2>2, <2>3
<1>2. CASE ~ \E t \in Task : TaskStep(t)
  BY <1>2, OutsideKeepsClaims, OnceKept
<1> QED BY <1>1, <1>2

(* At the start nothing is claimed and nothing sent. *)
LEMMA OnceInit == Init => OnceInv
  BY DEF Init, OnceInv, UnclaimedUnsent, ClaimLogged, ClaimUnique, OrderPending,
         AtMostOneOrder, NoTask, Fresh, Claimed, Acting, BeforeOrder

(* One leader event sends at most one market order per subscription and      *)
(* action, whatever the schedule, the venue's answers, the duplicate frames  *)
(* and the restarts.                                                         *)
THEOREM OneOrderPerAction == Spec => []AtMostOneOrder
<1>1. OnceInv => AtMostOneOrder
  BY DEF OnceInv
<1> QED BY <1>1, InitType, NextType, OnceInit, OnceStep, PTL DEF Spec


-----------------------------------------------------------------------------
(* The shape of a step.                                                     *)

(* A task inside its subscription's lock. *)
Inside(t) == task[t].pc \in Acting \cup {"next"}

(* A task at an action goes to its next point. *)
Edge == { <<"claim", "exit">>, <<"claim", "entry">>,
          <<"exit", "settle">>, <<"exit", "closing">>, <<"closing", "unarm">>,
          <<"closing", "settle">>, <<"closing", "check">>, <<"unarm", "settle">>,
          <<"settle", "finish">>, <<"finish", "check">>,
          <<"entry", "check">>, <<"entry", "place">>, <<"place", "record">>,
          <<"place", "opening">>, <<"opening", "arm">>, <<"opening", "record">>,
          <<"opening", "check">>, <<"arm", "record">>, <<"record", "booked">> }

Advances(t) ==
  /\ <<task[t].pc, task'[t].pc>> \in Edge
  /\ task'[t].act = task[t].act /\ task'[t].mode = task[t].mode
  /\ task'[t].held = task[t].held

(* A task leaves an action for the next one of its event. *)
Leaves(t) ==
  /\ Inside(t) /\ task'[t].pc = "next"
  /\ task'[t].act = task[t].act + 1 /\ task'[t].mode = task[t].mode
  /\ task'[t].held = None

(* A task that is outside the lock after its step, or enters it. *)
Queues(t) == ReadSubs(t) \/ Acquire(t) \/ Release(t)

(* One step moves one task, along one of these ways. *)
LEMMA StepShape ==
  ASSUME TypeInv, NEW t \in Task, TaskStep(t)
  PROVE  /\ \A u \in Task \ {t} : task'[u] = task[u]
         /\ Queues(t) \/ ReadHeld(t) \/ Leaves(t) \/ Advances(t)
         /\ Claim(t) => Leaves(t) \/ Advances(t)
<1>0. task \in [Task -> TaskRec] /\ task[t] \in TaskRec
  BY DEF TypeInv, TypeOK
<1>1. CASE Queues(t)
  BY <1>0, <1>1 DEF Queues, ReadSubs, Acquire, Release, Claim, At, Goto
<1>2. CASE ReadHeld(t)
  BY <1>0, <1>2 DEF ReadHeld, Claim, Working, At
<1>3. CASE task' = NextAct(t) \/ task' = [NextAct(t) EXCEPT ![t].status = "paused"]
  <2>1. /\ \A u \in Task \ {t} : task'[u] = task[u]
        /\ task'[t].pc = "next" /\ task'[t].act = task[t].act + 1
        /\ task'[t].mode = task[t].mode /\ task'[t].held = None
    BY <1>0, <1>3 DEF NextAct, Fresh
  <2>2. Inside(t) \/ Queues(t)
    BY DEF TaskStep, ExitStep, EntryStep, Queues, Seen, Drop, ReadHeld, Claim, SkipExit,
           ShadowExit, CloseOrder, CloseAnswer, Unarm, Settle, FinishExit, SkipEntry,
           GateSkip, GateLoss, GatePass, ShadowEntry, OpenOrder, OpenAnswer, Arm, Record,
           FinishEntry, CheckPause, Working, At, Inside, Acting
  <2> QED BY <1>1, <2>1, <2>2 DEF Leaves
<1>4. CASE CloseAnswer(t) \/ Unarm(t) \/ Settle(t) \/ FinishExit(t) \/ GateLoss(t)
           \/ GatePass(t) \/ OpenAnswer(t) \/ Record(t)
           \/ (Claim(t) /\ task' # NextAct(t))
  <2>1. PICK p \in PC : task' = Goto(t, p) /\ <<task[t].pc, p>> \in Edge
    BY <1>4 DEF CloseAnswer, Unarm, Settle, FinishExit, GateLoss, GatePass, OpenAnswer,
                Record, Claim, At, PC, Edge
  <2> QED BY <1>0, <2>1 DEF Goto, Advances, TaskRec
<1>5. CASE ShadowExit(t) \/ CloseOrder(t) \/ ShadowEntry(t) \/ OpenOrder(t) \/ Arm(t)
  <2>1. CASE ShadowExit(t)
    BY <1>0, <2>1 DEF ShadowExit, Claim, At, Edge, Advances, TaskRec
  <2>2. CASE CloseOrder(t)
    BY <1>0, <2>2 DEF CloseOrder, Claim, At, Edge, Advances, TaskRec
  <2>3. CASE ShadowEntry(t)
    BY <1>0, <2>3 DEF ShadowEntry, Claim, At, Edge, Advances, TaskRec
  <2>4. CASE OpenOrder(t)
    BY <1>0, <2>4 DEF OpenOrder, Claim, At, Edge, Advances, TaskRec
  <2>5. CASE Arm(t)
    BY <1>0, <2>5 DEF Arm, Claim, At, Edge, Advances, TaskRec
  <2> QED BY <1>5, <2>1, <2>2, <2>3, <2>4, <2>5
<1>6. CASE Seen(t) \/ Drop(t) \/ SkipExit(t) \/ SkipEntry(t) \/ GateSkip(t)
           \/ FinishEntry(t) \/ CheckPause(t) \/ (Claim(t) /\ task' = NextAct(t))
  BY <1>3, <1>6 DEF Seen, Drop, SkipExit, SkipEntry, GateSkip, FinishEntry, CheckPause, Skip
<1> QED BY <1>1, <1>2, <1>4, <1>5, <1>6 DEF TaskStep, ExitStep, EntryStep, Queues

(* A look at the rows changes nothing but the task. *)
LEMMA ReadHeldShape ==
  ASSUME TypeInv, NEW t \in Task, ReadHeld(t)
  PROVE  /\ task[t].pc = "next" /\ task'[t].pc = "claim" /\ Inside(t)
         /\ task'[t].act = task[t].act /\ task'[t].mode = task[t].mode
         /\ UNCHANGED <<rows, log, lock, notCopied>> /\ KeyOf(t) \notin notCopied
         /\ task'[t].held # None => task'[t].held \in HeldNow(t)
<1>0. task \in [Task -> TaskRec]
  BY DEF TypeInv, TypeOK
<1>1. task'[t].pc = "claim" /\ task'[t].act = task[t].act /\ task'[t].mode = task[t].mode
  BY <1>0 DEF ReadHeld, TaskRec
<1>2. task'[t].held # None => task'[t].held \in HeldNow(t)
  BY <1>0 DEF ReadHeld, TaskRec
<1> QED BY <1>1, <1>2 DEF ReadHeld, Working, At, Inside, db, memory

(* The steps of everybody else: a task inside the lock stands still, and    *)
(* what an event was it stays.                                              *)
LEMMA OutsideShape ==
  ASSUME TypeInv, [Next]_vars, ~ \E t \in Task : TaskStep(t)
  PROVE  /\ \A u \in Task : Inside(u)' => task'[u] = task[u] /\ Inside(u)
         /\ \A u \in Task : task'[u].held # None => task'[u].held = task[u].held
         /\ \A e \in Events : event[e] # None => event'[e] = event[e]
         /\ UNCHANGED <<lock, notCopied>> \/ Restart
         /\ UNCHANGED rows \/ SweepApply
         /\ UNCHANGED log
<1>0. task \in [Task -> TaskRec] /\ event \in [Events -> EventRec \cup {None}]
  BY DEF TypeInv, TypeOK
<1>1. ASSUME NEW s \in Subs, NEW c \in Coins, NEW e \in Events,
             NEW new \in -MaxLead..MaxLead, LeaderTrade(s, c, e, new)
      PROVE  /\ \A u \in Task : Inside(u)' => task'[u] = task[u] /\ Inside(u)
             /\ \A u \in Task : task'[u].held # None => task'[u].held = task[u].held
             /\ \A d \in Events : event[d] # None => event'[d] = event[d]
             /\ UNCHANGED <<lock, notCopied, rows, log>>
  BY <1>0, <1>1 DEF LeaderTrade, Goto, Inside, Acting, TaskRec, db, memory
<1>2. ASSUME NEW t \in Task, Redeliver(t)
      PROVE  /\ \A u \in Task : Inside(u)' => task'[u] = task[u] /\ Inside(u)
             /\ \A u \in Task : task'[u].held # None => task'[u].held = task[u].held
             /\ UNCHANGED <<event, lock, notCopied, rows, log>>
  BY <1>0, <1>2 DEF Redeliver, Goto, Inside, Acting, TaskRec, db, memory
<1>3. CASE SweepStep \/ RouterStep \/ AccountStep \/ UNCHANGED vars
  <2>1. UNCHANGED <<event, task, lock, notCopied, log>> /\ (UNCHANGED rows \/ SweepApply)
    BY <1>3 DEF SweepStep, SweepFrame, SweepRows, SweepChain, SweepUnread, RouterStep,
                AccountStep, vars, db, memory
  <2> QED BY <2>1 DEF Inside
<1>4. CASE Restart
  <2>1. \A u \in Task : task'[u] = task[u] \/ (task'[u].pc = "lost" /\ task'[u].held = None)
    BY <1>4 DEF Restart, Fresh
  <2>2. \A u \in Task : task'[u].pc \in {"idle", "lost"}
    BY <1>4 DEF Restart, Fresh, At
  <2> QED BY <1>4, <2>1, <2>2 DEF Restart, Inside, Acting, db
<1> QED BY <1>1, <1>2, <1>3, <1>4 DEF Next

-----------------------------------------------------------------------------
(* The lock.                                                                *)

LockHeld == \A t \in Task : Inside(t) => lock[Ev(t).sub] = t

(* A task inside the lock has its event and its subscription. *)
LEMMA InsideType ==
  ASSUME TypeInv, NEW t \in Task, Inside(t)
  PROVE  Ev(t) \in EventRec /\ Ev(t).sub \in Subs /\ Ev(t).coin \in Coins /\ t[1] \in Events
  BY DEF TypeInv, TypeOK, WellFormed, Inside, At, Acting, Ev, Task, EventRec

(* Two tasks inside the lock of one subscription are one. *)
LEMMA OneInside ==
  ASSUME LockHeld, NEW t \in Task, NEW u \in Task, Inside(t), Inside(u),
         Ev(t).sub = Ev(u).sub
  PROVE  t = u
  BY DEF LockHeld

(* Whoever is inside a subscription's lock holds it, after every step. *)
LEMMA LockStep == TypeInv /\ LockHeld /\ [Next]_vars => LockHeld'
<1> SUFFICES ASSUME TypeInv, LockHeld, [Next]_vars, NEW u \in Task, Inside(u)'
             PROVE  lock'[Ev(u)'.sub] = u
  BY DEF LockHeld
<1>0. lock \in [Subs -> Task \cup {None}] /\ task \in [Task -> TaskRec] /\ None \notin Task
  BY ConstantsOK DEF TypeInv, TypeOK, Task
<1>1. ASSUME NEW t \in Task, TaskStep(t) PROVE lock'[Ev(u)'.sub] = u
  <2>0. UNCHANGED event /\ Ev(u)' = Ev(u)
    BY <1>1 DEF TaskStep, Ev
  <2>1. CASE u # t
    <3>1. Inside(u) /\ Ev(u).sub \in Subs /\ lock[Ev(u).sub] = u
      BY <1>1, <2>1, StepShape, InsideType DEF Inside, LockHeld
    <3>2. CASE Acquire(t)
      BY <1>0, <2>0, <3>1, <3>2 DEF Acquire
    <3>3. CASE Release(t)
      <4>1. lock[Ev(t).sub] = t
        BY <3>3 DEF Release, At, Inside, LockHeld
      <4> QED BY <1>0, <2>0, <2>1, <3>1, <3>3, <4>1 DEF Release
    <3>4. CASE ~Acquire(t) /\ ~Release(t)
      <4>1. UNCHANGED lock
        BY <1>1, <3>4 DEF TaskStep, ExitStep, EntryStep, ReadSubs, Seen, Drop, ReadHeld,
             Claim, SkipExit, ShadowExit, CloseOrder, CloseAnswer, Unarm, Settle, FinishExit,
             SkipEntry, GateSkip, GateLoss, GatePass, ShadowEntry, OpenOrder, OpenAnswer,
             Arm, Record, FinishEntry, CheckPause, memory
      <4> QED BY <2>0, <3>1, <4>1
    <3> QED BY <3>2, <3>3, <3>4
  <2>2. CASE u = t
    <3>1. CASE Acquire(t)
      <4>1. Ev(t).sub \in Subs
        BY <3>1 DEF Acquire, At, TypeInv, TypeOK, WellFormed, Ev, Task, EventRec
      <4> QED BY <1>0, <2>0, <2>2, <3>1, <4>1 DEF Acquire
    <3>2. CASE ~Acquire(t)
      <4>1. ~ReadSubs(t) /\ ~Release(t)
        BY <1>0, <2>2 DEF ReadSubs, Release, Goto, Inside, Fresh, TaskRec, Acting
      <4>2. UNCHANGED lock
        BY <1>1, <3>2, <4>1 DEF TaskStep, ExitStep, EntryStep, Seen, Drop, ReadHeld,
             Claim, SkipExit, ShadowExit, CloseOrder, CloseAnswer, Unarm, Settle, FinishExit,
             SkipEntry, GateSkip, GateLoss, GatePass, ShadowEntry, OpenOrder, OpenAnswer,
             Arm, Record, FinishEntry, CheckPause, memory
      <4>3. Inside(t)
        <5>1. ReadHeld(t) \/ Leaves(t) \/ Advances(t)
          BY <1>1, <3>2, <4>1, StepShape DEF Queues
        <5> QED BY <5>1 DEF ReadHeld, Working, At, Leaves, Advances, Edge, Inside, Acting
      <4> QED BY <2>0, <2>2, <4>2, <4>3 DEF LockHeld
    <3> QED BY <3>1, <3>2
  <2> QED BY <2>1, <2>2
<1>2. CASE ~ \E t \in Task : TaskStep(t)
  <2>1. Inside(u) /\ task'[u] = task[u] /\ event'[u[1]] = event[u[1]]
    BY <1>2, OutsideShape DEF TypeInv, WellFormed, Inside, At, Acting, Task
  <2>2. ~Restart
    BY DEF Restart, Fresh, At, Inside, Acting
  <2>3. UNCHANGED lock
    BY <1>2, <2>2, OutsideShape
  <2> QED BY <2>1, <2>3 DEF LockHeld, Ev
<1> QED BY <1>1, <1>2

-----------------------------------------------------------------------------
(* What happens to the rows.                                                *)

HeldBooked  == \A t \in Task : task[t].held # None => rows[task[t].held].status # "none"
SweptBooked == \A e \in Events : rec.size[e] # 0 => rows[e].status # "none"

(* Rows are closed, detached or resized, none is opened. *)
RowsShrink ==
  \A e \in Events :
    /\ rows'[e].status = "open" => rows[e].status = "open" /\ rows'[e].mode = rows[e].mode
    /\ rows'[e].status = "none" <=> rows[e].status = "none"

(* A task books the position its event opened. *)
Books(t) == TaskStep(t) /\ Record(t) /\ KindOf(t) # "add"

(* An add rewrites the size and the margin of its row, nothing else. *)
LEMMA AddKeepsStatus ==
  ASSUME TypeInv, NEW t \in Task, Record(t), KindOf(t) = "add", NEW e \in Events
  PROVE  rows'[e].status = rows[e].status /\ rows'[e].mode = rows[e].mode
<1> DEFINE h == task[t].held
           size == task[t].size + task[t].fs
           margin == rows[h].margin + task[t].fs
<1>1. rows' = [rows EXCEPT ![h] = [rows[h] EXCEPT !.size = size, !.margin = margin]]
  BY DEF Record, TypeInv, TypeOK
<1>2. rows \in [Events -> RowRec]
  BY DEF TypeInv, TypeOK
<1>3. CASE e = h
  <2>1. rows'[e] = [rows[e] EXCEPT !.size = size, !.margin = margin]
    BY <1>1, <1>2, <1>3
  <2>2. rows[e] \in RowRec
    BY <1>2
  <2> HIDE DEF size, margin
  <2> QED BY <2>1, <2>2 DEF RowRec
<1>4. CASE e # h
  BY <1>1, <1>2, <1>4
<1> QED BY <1>3, <1>4

(* Only the booking of an open opens a row. *)
LEMMA RowsMove ==
  ASSUME TypeInv, HeldBooked, SweptBooked, [Next]_vars, ~ \E t \in Task : Books(t)
  PROVE  RowsShrink
<1>0. rows \in [Events -> RowRec]
  BY DEF TypeInv, TypeOK
<1>1. ASSUME NEW t \in Task, TaskStep(t) PROVE RowsShrink
  <2>1. CASE Settle(t)
    <3> DEFINE h == task[t].held
    <3>1. PICK r \in {[rows[h] EXCEPT !.status = "closed", !.size = 0],
                      [rows[h] EXCEPT !.size = task[t].size - task[t].fs]} :
            rows' = [rows EXCEPT ![h] = r]
      BY <2>1 DEF Settle
    <3>2. ASSUME h \in Events PROVE rows[h].status # "none" /\ rows[h] \in RowRec
      BY <1>0, <3>2, ConstantsOK DEF HeldBooked
    <3>3. h \in Events => (r.status \in {"closed", rows[h].status} /\ r.mode = rows[h].mode)
      BY <3>1, <3>2 DEF RowRec
    <3> HIDE DEF h
    <3>4. ASSUME NEW e \in Events
          PROVE  /\ rows'[e].status = "open" =>
                      rows[e].status = "open" /\ rows'[e].mode = rows[e].mode
                 /\ rows'[e].status = "none" <=> rows[e].status = "none"
      BY <1>0, <3>1, <3>2, <3>3
    <3> QED BY <3>4 DEF RowsShrink
  <2>2. CASE Record(t)
    <3>1. KindOf(t) = "add"
      BY <1>1, <2>2 DEF Books
    <3> QED BY <2>2, <3>1, AddKeepsStatus DEF RowsShrink
  <2>3. CASE ~Settle(t) /\ ~Record(t)
    <3>1. UNCHANGED rows
      BY <1>1, <2>3 DEF TaskStep, ExitStep, EntryStep, ReadSubs, Acquire, Release, Seen,
         Drop, ReadHeld, Claim, SkipExit, ShadowExit, CloseOrder, CloseAnswer, Unarm,
         FinishExit, SkipEntry, GateSkip, GateLoss, GatePass, ShadowEntry, OpenOrder,
         OpenAnswer, Arm, FinishEntry, CheckPause, db
    <3> QED BY <3>1 DEF RowsShrink
  <2> QED BY <2>1, <2>2, <2>3
<1>2. CASE ~ \E t \in Task : TaskStep(t)
  <2>1. CASE SweepApply
    <3>1. ASSUME NEW e \in Events
          PROVE  /\ rows'[e].status = "open" =>
                      rows[e].status = "open" /\ rows'[e].mode = rows[e].mode
                 /\ rows'[e].status = "none" <=> rows[e].status = "none"
      <4>0. rows[e] \in RowRec
        BY <1>0
      <4>1. CASE e \in Gone
        <5>1. rows[e].status # "none"
          BY <4>1 DEF Gone, SweptBooked, TypeInv, TypeOK
        <5>2. rows'[e] = [rows[e] EXCEPT !.status = "detached"]
          BY <2>1, <4>1 DEF SweepApply
        <5> QED BY <4>0, <5>1, <5>2 DEF RowRec
      <4>2. CASE e \notin Gone
        <5>1. PICK n : rows'[e] = rows[e] \/ rows'[e] = [rows[e] EXCEPT !.size = n]
          BY <2>1, <4>2 DEF SweepApply
        <5> QED BY <4>0, <5>1 DEF RowRec
      <4> QED BY <4>1, <4>2
    <3> QED BY <3>1 DEF RowsShrink
  <2>2. CASE UNCHANGED rows
    BY <2>2 DEF RowsShrink
  <2> QED BY <1>2, <2>1, <2>2, OutsideShape
<1> QED BY <1>1, <1>2

(* The row a task books is open, of its mode and its event. *)
LEMMA BookedRow ==
  ASSUME TypeInv, NEW t \in Task, Books(t)
  PROVE  /\ UNCHANGED <<event, log, rec, lock, notCopied>>
         /\ \A e \in Events \ {t[1]} : rows'[e] = rows[e]
         /\ rows'[t[1]].status = "open" /\ rows'[t[1]].mode = task[t].mode
         /\ task[t].pc = "record" /\ t[1] \in Events
         /\ task'[t].pc = "booked" /\ \A u \in Task \ {t} : task'[u] = task[u]
  BY DEF Books, TaskStep, Record, At, Goto, TypeInv, TypeOK, Task, memory, TaskRec

(* Rows that are not opened leave each subscription as many or fewer. *)
LEMMA ShrinkFewer ==
  ASSUME TypeInv, RowsShrink, \A e \in Events : event[e] # None => event'[e] = event[e],
         NEW s, NEW m
  PROVE  OpenRows(s, m)' \subseteq OpenRows(s, m)
  BY DEF RowsShrink, OpenRows, TypeInv, RowsKnown

(* A booked row is one more for its subscription and its mode. *)
LEMMA BooksOne ==
  ASSUME TypeInv, NEW t \in Task, Books(t), NEW s, NEW m
  PROVE  /\ OpenRows(s, m)' \subseteq OpenRows(s, m) \cup {t[1]}
         /\ s # Ev(t).sub \/ m # task[t].mode => OpenRows(s, m)' \subseteq OpenRows(s, m)
  BY BookedRow DEF OpenRows, Ev

(* What an event was it stays, through every step. *)
LEMMA EventsStay ==
  ASSUME TypeInv, [Next]_vars, NEW e \in Events, event[e] # None
  PROVE  event'[e] = event[e]
  BY OutsideShape DEF TaskStep

(* What a task holds and what the sweep has read are rows that were booked. *)
LEMMA BookedStep ==
  TypeInv /\ HeldBooked /\ SweptBooked /\ [Next]_vars => HeldBooked' /\ SweptBooked'
<1> SUFFICES ASSUME TypeInv, HeldBooked, SweptBooked, [Next]_vars
             PROVE  HeldBooked' /\ SweptBooked'
  OBVIOUS
<1>1. \A e \in Events : rows[e].status # "none" => rows'[e].status # "none"
  <2>1. CASE \E t \in Task : Books(t)
    BY <2>1, BookedRow
  <2>2. CASE ~ \E t \in Task : Books(t)
    BY <2>2, RowsMove DEF RowsShrink
  <2> QED BY <2>1, <2>2
<1>2. ASSUME NEW u \in Task, task'[u].held # None
      PROVE  rows'[task'[u].held].status # "none"
  <2>0. task[u].held # None => task[u].held \in Events
    BY DEF TypeInv, TypeOK, TaskRec
  <2>1. CASE task'[u].held = task[u].held
    BY <1>1, <1>2, <2>0, <2>1 DEF HeldBooked
  <2>2. ASSUME NEW t \in Task, TaskStep(t), task'[u].held # task[u].held
        PROVE  rows'[task'[u].held].status # "none"
    <3>1. u = t /\ ~Leaves(t) /\ ~Advances(t)
      BY <1>2, <2>2, StepShape DEF Leaves, Advances
    <3>2. CASE ReadHeld(t)
      <4>1. task'[t].held \in Events /\ rows[task'[t].held].status # "none"
        BY <1>2, <3>1, <3>2 DEF ReadHeld, HeldNow, HeldRows, OpenRows, TypeInv, TypeOK,
           TaskRec
      <4> QED BY <1>1, <3>1, <4>1
    <3>3. CASE Queues(t)
      BY <1>2, <2>2, <3>1, <3>3 DEF Queues, ReadSubs, Acquire, Release, Goto, Fresh,
         TypeInv, TypeOK, TaskRec
    <3> QED BY <2>2, <3>1, <3>2, <3>3, StepShape
  <2>3. CASE ~ \E t \in Task : TaskStep(t)
    BY <1>2, <2>1, <2>3, OutsideShape
  <2> QED BY <2>1, <2>2, <2>3
<1>3. ASSUME NEW e \in Events, rec'.size[e] # 0 PROVE rows'[e].status # "none"
  <2>1. CASE SweepRows
    <3>1. rec'.size[e] = IF rows[e].status = "open" /\ rows[e].mode = "live"
                         THEN rows[e].size ELSE 0
      BY <2>1 DEF SweepRows, TypeInv, TypeOK
    <3> QED BY <1>1, <1>3, <3>1
  <2>2. CASE ~SweepRows
    <3>1. rec'.size[e] = rec.size[e] \/ rec' = NoSweep
      BY <2>2 DEF Next, LeaderTrade, Redeliver, TaskStep, SweepStep, SweepChain, SweepUnread,
         SweepApply, RouterStep, AccountStep, Restart, vars, TypeInv, TypeOK
    <3> QED BY <1>1, <1>3, <3>1 DEF SweptBooked, NoSweep
  <2> QED BY <2>1, <2>2
<1> QED BY <1>2, <1>3 DEF HeldBooked, SweptBooked

-----------------------------------------------------------------------------
(* One row per market.  OneOpenRow is not inductive: that no row was booked *)
(* between a task's look at the rows and its own booking is the lock's      *)
(* doing, and that the row is its event's first is the claim's.             *)
Opening  == {"place", "opening", "arm", "record"}
Deciding == {"claim", "entry"} \cup Opening
Opens(t) == KindOf(t) = "open"

HeldCurrent ==
  \A t \in Task : task[t].pc \in Deciding /\ Opens(t) /\ task[t].held = None => HeldNow(t) = {}
OpensUnheld == \A t \in Task : task[t].pc \in Opening /\ Opens(t) => task[t].held = None

(* What came by the entry is no exit. *)
EntryKinds == \A t \in Task : task[t].pc \in {"entry"} \cup Opening => ~IsExit(t)

RowInv == /\ LockHeld /\ HeldBooked /\ SweptBooked
          /\ EntryKinds /\ HeldCurrent /\ OpensUnheld /\ OneOpenRow

(* A task that is the same after a step still has its event and its action. *)
LEMMA SameTask ==
  ASSUME TypeInv, [Next]_vars, NEW u \in Task, task[u].pc # "idle",
         task'[u].act = task[u].act
  PROVE  /\ Ev(u)' = Ev(u) /\ KindOf(u)' = KindOf(u) /\ IsExit(u)' = IsExit(u)
         /\ KeyOf(u)' = KeyOf(u)
<1>1. event'[u[1]] = event[u[1]]
  BY EventsStay DEF TypeInv, WellFormed, At, Task
<1> QED BY <1>1 DEF Ev, KindOf, CurAct, ActsOf, IsExit, KeyOf

(* A task that is inside the lock after the step of another was so before. *)
LEMMA OthersStand ==
  ASSUME TypeInv, [Next]_vars, NEW u \in Task, Inside(u)', ~TaskStep(u)
  PROVE  task'[u] = task[u] /\ Inside(u)
<1>1. ASSUME NEW t \in Task, TaskStep(t) PROVE task'[u] = task[u]
  BY <1>1, StepShape
<1>2. CASE ~ \E t \in Task : TaskStep(t)
  BY <1>2, OutsideShape
<1> QED BY <1>1, <1>2 DEF Inside

(* An entry that goes on to its order has passed the gates. *)
LEMMA PlacePassed ==
  ASSUME TypeInv, NEW t \in Task, TaskStep(t), task'[t].pc \in {"entry"} \cup Opening
  PROVE  \/ Claim(t) /\ ~IsExit(t) /\ task'[t].pc = "entry" /\ log[KeyOf(t)] = "none"
         \/ GatePass(t) /\ task'[t].pc = "place"
         \/ task[t].pc \in Opening /\ task'[t].pc \in Opening
<1>0. task \in [Task -> TaskRec] /\ task[t] \in TaskRec
  BY DEF TypeInv, TypeOK
<1>1. ~Queues(t) /\ ~ReadHeld(t) /\ ~Leaves(t)
  <2>1. CASE ReadSubs(t) \/ Acquire(t)
    BY <1>0, <2>1 DEF ReadSubs, Acquire, Goto, Opening, TaskRec
  <2>2. CASE Release(t)
    BY <1>0, <2>2 DEF Release, Fresh, Opening
  <2>3. CASE ReadHeld(t)
    <3>1. task'[t].pc = "claim"
      BY <1>0, <2>3 DEF ReadHeld, TaskRec
    <3> QED BY <3>1 DEF Opening
  <2> QED BY <2>1, <2>2, <2>3 DEF Queues, Leaves, Opening
<1>2. <<task[t].pc, task'[t].pc>> \in Edge
  BY <1>1, StepShape DEF Advances
<1>3. \/ task[t].pc = "claim" /\ task'[t].pc = "entry"
      \/ task[t].pc = "entry" /\ task'[t].pc = "place"
      \/ task[t].pc \in Opening /\ task'[t].pc \in Opening
  BY <1>2 DEF Edge, Opening
<1>4. CASE task[t].pc = "claim" /\ task'[t].pc = "entry"
  <2>1. Claim(t)
    BY <1>4 DEF TaskStep, ExitStep, EntryStep, ReadSubs, Acquire, Release, Seen, Drop,
       ReadHeld, SkipExit, ShadowExit, CloseOrder, CloseAnswer, Unarm, Settle, FinishExit,
       SkipEntry, GateSkip, GateLoss, GatePass, ShadowEntry, OpenOrder, OpenAnswer, Arm,
       Record, FinishEntry, CheckPause, Working, At
  <2>2. log[KeyOf(t)] = "none" /\ task' = Goto(t, IF IsExit(t) THEN "exit" ELSE "entry")
    BY <1>0, <1>4, <2>1 DEF Claim, Claimable, NextAct, Fresh
  <2>3. ~IsExit(t)
    BY <1>0, <1>4, <2>2 DEF Goto
  <2> QED BY <1>4, <2>1, <2>2, <2>3
<1>5. CASE task[t].pc = "entry" /\ task'[t].pc = "place"
  <2>1. SkipEntry(t) \/ GateSkip(t) \/ GateLoss(t) \/ GatePass(t)
    BY <1>5 DEF TaskStep, ExitStep, EntryStep, ReadSubs, Acquire, Release, Seen, Drop,
       ReadHeld, Claim, SkipExit, ShadowExit, CloseOrder, CloseAnswer, Unarm, Settle,
       FinishExit, ShadowEntry, OpenOrder, OpenAnswer, Arm, Record, FinishEntry,
       CheckPause, Working, At
  <2>2. GatePass(t)
    <3>1. CASE SkipEntry(t) \/ GateSkip(t)
      BY <1>0, <1>5, <3>1 DEF SkipEntry, GateSkip, Skip, NextAct, Fresh
    <3>2. CASE GateLoss(t)
      BY <1>0, <1>5, <3>2 DEF GateLoss, Goto, TaskRec
    <3> QED BY <2>1, <3>1, <3>2
  <2> QED BY <1>5, <2>2
<1> QED BY <1>3, <1>4, <1>5

(* A task that books opens a position, and its look at the rows still holds. *)
LEMMA BookingOpens ==
  ASSUME TypeInv, RowInv, NEW t \in Task, Books(t)
  PROVE  Opens(t) /\ HeldNow(t) = {} /\ task[t].pc \in Acting /\ Inside(t)
<1>1. task[t].pc = "record"
  BY BookedRow
<1>2. CurAct(t) \in Action
  BY <1>1, ActionType DEF Acting
<1>3. Opens(t)
  BY <1>1, <1>2 DEF Books, RowInv, EntryKinds, Opening, IsExit, KindOf, Opens, Action, Kind
<1> QED BY <1>1, <1>3 DEF RowInv, OpensUnheld, HeldCurrent, Opening, Deciding, Acting, Inside

(* No other task of the subscription is inside while a task books. *)
LEMMA OthersRows ==
  ASSUME TypeInv, RowInv, [Next]_vars, NEW u \in Task, Inside(u), ~TaskStep(u),
         NEW s, s = Ev(u).sub, NEW m
  PROVE  OpenRows(s, m)' \subseteq OpenRows(s, m)
<1>1. \A e \in Events : event[e] # None => event'[e] = event[e]
  BY EventsStay
<1>2. ASSUME NEW t \in Task, Books(t)
      PROVE  OpenRows(s, m)' \subseteq OpenRows(s, m)
  <2>1. Inside(t) /\ t # u
    BY <1>2, BookingOpens DEF Books
  <2>2. Ev(t).sub # s
    BY <2>1, OneInside DEF RowInv
  <2> QED BY <1>2, <2>2, BooksOne
<1>3. CASE ~ \E t \in Task : Books(t)
  BY <1>1, <1>3, RowsMove, ShrinkFewer DEF RowInv
<1> QED BY <1>2, <1>3

(* What a task sees of the rows, when its event and its mode are the same. *)
LEMMA SeesFewer ==
  ASSUME TypeInv, [Next]_vars, NEW u \in Task, task[u].pc # "idle",
         task'[u].mode = task[u].mode,
         OpenRows(Ev(u).sub, task[u].mode)' \subseteq OpenRows(Ev(u).sub, task[u].mode)
  PROVE  HeldNow(u)' \subseteq HeldNow(u)
<1>1. event'[u[1]] = event[u[1]]
  BY EventsStay DEF TypeInv, WellFormed, At, Task
<1>2. \A e \in OpenRows(Ev(u).sub, task[u].mode) : event'[e] = event[e]
  BY EventsStay DEF OpenRows
<1> QED BY <1>1, <1>2 DEF HeldNow, HeldRows, Ev

(* Every step keeps what a task has read of the rows true of the rows. *)
LEMMA RowStep == TypeInv /\ OnceInv /\ RowInv /\ [Next]_vars => RowInv'
<1> SUFFICES ASSUME TypeInv, OnceInv, RowInv, [Next]_vars PROVE RowInv'
  OBVIOUS
<1>0. task \in [Task -> TaskRec]
  BY DEF TypeInv, TypeOK
<1>1. LockHeld' /\ HeldBooked' /\ SweptBooked'
  BY LockStep, BookedStep DEF RowInv
<1>2. ASSUME NEW u \in Task, task'[u].pc \in Deciding, ~TaskStep(u)
      PROVE  /\ task'[u] = task[u] /\ KindOf(u)' = KindOf(u) /\ IsExit(u)' = IsExit(u)
             /\ HeldNow(u)' \subseteq HeldNow(u)
  <2>1. Inside(u)' /\ task'[u] = task[u] /\ Inside(u) /\ task[u].pc # "idle"
    BY <1>2, OthersStand DEF Inside, Deciding, Opening, Acting
  <2>2. KindOf(u)' = KindOf(u) /\ IsExit(u)' = IsExit(u) /\ Ev(u)' = Ev(u)
    BY <2>1, SameTask
  <2>3. OpenRows(Ev(u).sub, task[u].mode)' \subseteq OpenRows(Ev(u).sub, task[u].mode)
    BY <1>2, <2>1, <2>2, OthersRows
  <2> QED BY <2>1, <2>2, <2>3, SeesFewer
<1>3. ASSUME NEW u \in Task, task'[u].pc \in Deciding, TaskStep(u), ~ReadHeld(u)
      PROVE  /\ task'[u].held = task[u].held /\ KindOf(u)' = KindOf(u)
             /\ IsExit(u)' = IsExit(u) /\ HeldNow(u)' \subseteq HeldNow(u)
             /\ task[u].pc \in Deciding
             /\ task'[u].pc \in Opening => task[u].pc \in Opening \/ GatePass(u)
             /\ task'[u].pc # "claim"
  <2>1. task[u].pc # "idle" /\ task'[u].act = task[u].act /\ task'[u].mode = task[u].mode
        /\ task'[u].held = task[u].held /\ task'[u].pc # "claim"
        /\ task[u].pc \in Deciding
    <3>1. ~Queues(u) /\ ~Leaves(u)
      <4>1. CASE ReadSubs(u) \/ Acquire(u)
        BY <1>0, <1>3, <4>1 DEF ReadSubs, Acquire, Goto, Deciding, Opening, TaskRec
      <4>2. CASE Release(u)
        BY <1>0, <1>3, <4>2 DEF Release, Fresh, Deciding, Opening
      <4> QED BY <1>3, <4>1, <4>2 DEF Queues, Leaves, Deciding, Opening
    <3>2. Advances(u)
      BY <1>3, <3>1, StepShape
    <3> QED BY <1>3, <3>2 DEF Advances, Edge, Deciding, Opening
  <2>2. ASSUME NEW t \in Task PROVE ~Books(t)
    BY <1>3, BookedRow, StepShape DEF Deciding, Opening
  <2>3. KindOf(u)' = KindOf(u) /\ IsExit(u)' = IsExit(u) /\ Ev(u)' = Ev(u)
    BY <2>1, SameTask
  <2>4. OpenRows(Ev(u).sub, task[u].mode)' \subseteq OpenRows(Ev(u).sub, task[u].mode)
    <3>1. \A e \in Events : event[e] # None => event'[e] = event[e]
      BY EventsStay
    <3>2. RowsShrink
      BY <2>2, RowsMove DEF RowInv
    <3>3. \A s : OpenRows(s, task[u].mode)' \subseteq OpenRows(s, task[u].mode)
      <4> DEFINE m == task[u].mode
      <4>1. ASSUME NEW s, NEW n PROVE OpenRows(s, n)' \subseteq OpenRows(s, n)
        BY <3>1, <3>2, ShrinkFewer
      <4> QED BY <2>1, <4>1 DEF OpenRows
    <3> QED BY <2>3, <3>3
  <2>5. HeldNow(u)' \subseteq HeldNow(u)
    BY <2>1, <2>4, SeesFewer
  <2>6. task'[u].pc \in Opening => task[u].pc \in Opening \/ GatePass(u)
    BY <1>3, PlacePassed DEF Opening
  <2> QED BY <2>1, <2>3, <2>5, <2>6
<1>4. ASSUME NEW u \in Task, TaskStep(u), ReadHeld(u)
      PROVE  /\ task'[u].pc = "claim"
             /\ task'[u].held = None => HeldNow(u)' = {}
  <2>1. task'[u].pc = "claim" /\ task'[u].mode = task[u].mode /\ Ev(u)' = Ev(u)
        /\ UNCHANGED <<rows, event>>
    <3>1. task'[u].pc = "claim" /\ task'[u].mode = task[u].mode
      BY <1>0, <1>4 DEF ReadHeld, TaskRec
    <3> QED BY <1>4, <3>1 DEF ReadHeld, TaskStep, Ev, db
  <2>2. HeldNow(u) # {} => task'[u].held \in HeldNow(u)
    BY <1>0, <1>4 DEF ReadHeld, TaskRec
  <2>3. None \notin HeldNow(u)
    BY ConstantsOK DEF HeldNow, HeldRows, OpenRows
  <2>4. HeldNow(u)' = HeldNow(u)
    BY <2>1 DEF HeldNow, HeldRows, OpenRows
  <2> QED BY <2>1, <2>2, <2>3, <2>4
<1>5. EntryKinds'
  <2>1. ASSUME NEW u \in Task, task'[u].pc \in {"entry"} \cup Opening
        PROVE  ~IsExit(u)'
    <3>1. task'[u].pc \in Deciding /\ task'[u].pc # "claim"
      BY <2>1 DEF Deciding, Opening
    <3>2. CASE ~TaskStep(u)
      BY <1>2, <2>1, <3>1, <3>2 DEF RowInv, EntryKinds
    <3>3. CASE TaskStep(u)
      <4>1. ~ReadHeld(u)
        BY <1>4, <3>1, <3>3
      <4>2. ~IsExit(u)
        BY <2>1, <3>3, PlacePassed DEF RowInv, EntryKinds, GatePass, At
      <4> QED BY <1>3, <3>1, <3>3, <4>1, <4>2
    <3> QED BY <3>2, <3>3
  <2> QED BY <2>1 DEF EntryKinds
<1>6. HeldCurrent'
  <2>1. ASSUME NEW u \in Task, task'[u].pc \in Deciding, Opens(u)', task'[u].held = None
        PROVE  HeldNow(u)' = {}
    <3>1. CASE ~TaskStep(u)
      BY <1>2, <2>1, <3>1 DEF RowInv, HeldCurrent, Opens
    <3>2. CASE TaskStep(u) /\ ReadHeld(u)
      BY <1>4, <2>1, <3>2
    <3>3. CASE TaskStep(u) /\ ~ReadHeld(u)
      BY <1>3, <2>1, <3>3 DEF RowInv, HeldCurrent, Opens
    <3> QED BY <3>1, <3>2, <3>3
  <2> QED BY <2>1 DEF HeldCurrent
<1>7. OpensUnheld'
  <2>1. ASSUME NEW u \in Task, task'[u].pc \in Opening, Opens(u)'
        PROVE  task'[u].held = None
    <3>1. task'[u].pc \in Deciding /\ task'[u].pc # "claim"
      BY <2>1 DEF Deciding, Opening
    <3>2. CASE ~TaskStep(u)
      BY <1>2, <2>1, <3>1, <3>2 DEF RowInv, OpensUnheld, Opens
    <3>3. CASE TaskStep(u)
      <4>1. ~ReadHeld(u)
        BY <1>4, <3>1, <3>3
      <4>2. Opens(u) /\ task'[u].held = task[u].held
        BY <1>3, <2>1, <3>1, <3>3, <4>1 DEF Opens
      <4>3. GatePass(u) => task[u].held = None
        BY <4>2 DEF GatePass, GateBeforeLoss, InUse, Opens
      <4> QED BY <1>3, <2>1, <3>1, <3>3, <4>1, <4>2, <4>3 DEF RowInv, OpensUnheld
    <3> QED BY <3>2, <3>3
  <2> QED BY <2>1 DEF OpensUnheld
<1>8. OneOpenRow'
  <2>1. ASSUME NEW s \in Subs, NEW c \in Coins, NEW m \in Mode,
               NEW d \in HeldRows(s, c, m)', NEW e \in HeldRows(s, c, m)'
        PROVE  d = e
    <3>0. \A f \in OpenRows(s, m) : event'[f] = event[f]
      BY EventsStay DEF OpenRows
    <3>1. ASSUME NEW t \in Task, Books(t) PROVE d = e
      <4>1. HeldNow(t) = {} /\ OpenRows(s, m)' \subseteq OpenRows(s, m) \cup {t[1]}
            /\ (s # Ev(t).sub \/ m # task[t].mode => OpenRows(s, m)' \subseteq OpenRows(s, m))
        BY <3>1, BookingOpens, BooksOne
      <4>2. UNCHANGED event
        BY <3>1, BookedRow
      <4>3. CASE OpenRows(s, m)' \subseteq OpenRows(s, m)
        BY <2>1, <4>2, <4>3 DEF RowInv, OneOpenRow, HeldRows
      <4>4. CASE s = Ev(t).sub /\ m = task[t].mode
        BY <2>1, <4>1, <4>2, <4>4 DEF HeldNow, HeldRows, Ev, RowInv, OneOpenRow
      <4> QED BY <4>1, <4>3, <4>4
    <3>2. CASE ~ \E t \in Task : Books(t)
      <4>1. OpenRows(s, m)' \subseteq OpenRows(s, m)
        BY <3>2, RowsMove, ShrinkFewer, EventsStay DEF RowInv
      <4> QED BY <2>1, <3>0, <4>1 DEF RowInv, OneOpenRow, HeldRows
    <3> QED BY <3>1, <3>2
  <2> QED BY <2>1 DEF OneOpenRow
<1> QED BY <1>1, <1>5, <1>6, <1>7, <1>8 DEF RowInv

(* At the start nobody is inside a lock and nothing is booked. *)
LEMMA RowInit == Init => RowInv
<1> SUFFICES ASSUME Init PROVE RowInv
  OBVIOUS
<1>1. \A t \in Task : task[t].pc = "idle" /\ task[t].held = None
  BY DEF Init, NoTask, Fresh
<1>2. \A e \in Events : rows[e].status = "none" /\ rec.size[e] = 0
  BY DEF Init, NoRow, NoSweep
<1> QED BY <1>1, <1>2 DEF RowInv, LockHeld, HeldBooked, SweptBooked, EntryKinds, HeldCurrent,
           OpensUnheld, OneOpenRow, HeldRows, OpenRows, Inside, Acting, Deciding, Opening

(* A subscription never has two open copied positions on one market in the  *)
(* same mode, whatever its tasks, duplicate frames, restarts, sweeps and    *)
(* mode changes do to each other.                                           *)
THEOREM OneRowPerMarket == Spec => []OneOpenRow
<1>1. RowInv => OneOpenRow
  BY DEF RowInv
<1> QED BY <1>1, InitType, NextType, OnceInit, OnceStep, RowInit, RowStep, PTL DEF Spec

-----------------------------------------------------------------------------
(* One booking per event.  An event has one open at most, the last of its   *)
(* actions, and its row is booked by the task that claimed it.              *)
ActsOfEvent(e) == Normalize(event[e].old, event[e].new)
OpenKey(e)     == <<e, Len(ActsOfEvent(e))>>

OpenDecided ==
  \A e \in Events : rows[e].status # "none" =>
    log[OpenKey(e)] # "none" /\ ActsOfEvent(e)[Len(ActsOfEvent(e))].kind = "open"
Unbooked ==
  \A t \in Task : task[t].pc \in {"entry"} \cup Opening /\ Opens(t) => rows[t[1]].status = "none"

BookInv == OpenDecided /\ Unbooked

(* The open of an event is its last action. *)
LEMMA OpenIsLast ==
  ASSUME TypeInv, NEW t \in Task, task[t].pc \in Acting, Opens(t)
  PROVE  KeyOf(t) = OpenKey(t[1]) /\ ActsOfEvent(t[1])[Len(ActsOfEvent(t[1]))].kind = "open"
<1>1. /\ Ev(t) \in EventRec /\ task[t].act \in Nat /\ task[t].act >= 1
      /\ task[t].act <= Len(ActsOf(t))
  BY ActionType DEF TypeInv, TypeOK, WellFormed, TaskRec
<1> DEFINE old == event[t[1]].old
           new == event[t[1]].new
<1>2. ActsOf(t) = Normalize(old, new) /\ ActsOf(t)[task[t].act].kind = "open"
      /\ ActsOfEvent(t[1]) = Normalize(old, new) /\ old \in Int /\ new \in Int
  BY <1>1 DEF ActsOf, Ev, ActsOfEvent, Opens, KindOf, CurAct, EventRec
<1> HIDE DEF old, new
<1>3. CASE IsFlip(old, new)
  <2>1. ActsOf(t)[1].kind = "close" /\ Len(ActsOf(t)) = 2
    BY <1>2, <1>3 DEF Normalize, Act
  <2>2. task[t].act = 2
    BY <1>1, <1>2, <2>1
  <2> QED BY <1>2, <2>1, <2>2 DEF KeyOf, OpenKey
<1>4. CASE ~IsFlip(old, new)
  <2>1. Len(ActsOf(t)) = 1
    BY <1>2, <1>4 DEF Normalize
  <2>2. task[t].act = 1
    BY <1>1, <2>1
  <2> QED BY <1>2, <2>1, <2>2 DEF KeyOf, OpenKey
<1> QED BY <1>3, <1>4

(* A key of an event that was stored is a key of the log. *)
LEMMA OpenKeyType ==
  ASSUME TypeInv, NEW e \in Events, event[e] # None
  PROVE  OpenKey(e) \in Key /\ Len(ActsOfEvent(e)) \in {1, 2}
<1>1. event[e] \in EventRec
  BY DEF TypeInv, TypeOK
<1> QED BY <1>1, NormalizeType DEF OpenKey, ActsOfEvent, Key, EventRec

(* A decision is never forgotten, and only a claim makes a new one. *)
LEMMA LogGrows ==
  ASSUME TypeInv, OnceInv, [Next]_vars, NEW k \in Key
  PROVE  /\ log[k] # "none" => log'[k] # "none"
         /\ log'[k] # "none" => \/ log[k] # "none"
                                \/ \E t \in Task : TaskStep(t) /\ Claim(t) /\ k = KeyOf(t)
<1>0. log \in [Key -> Decision]
  BY DEF TypeInv, TypeOK
<1>1. ASSUME NEW t \in Task, TaskStep(t), Claim(t)
      PROVE  /\ log[k] # "none" => log'[k] # "none"
             /\ log'[k] # "none" => log[k] # "none" \/ k = KeyOf(t)
  BY <1>0, <1>1 DEF Claim, Claimable
<1>2. ASSUME NEW t \in Task, TaskStep(t), ~Claim(t)
      PROVE  (log'[k] # "none") <=> (log[k] # "none")
  <2>1. UNCHANGED log \/ \E d \in Decision : task[t].pc \in Claimed /\ d # "none" /\ Finish(t, d)
    BY <1>2 DEF TaskStep, ExitStep, EntryStep, ReadSubs, Acquire, Release, Seen,
       Drop, ReadHeld, SkipExit, ShadowExit, CloseOrder, CloseAnswer, Unarm, Settle,
       FinishExit, SkipEntry, GateSkip, GateLoss, GatePass, ShadowEntry, OpenOrder,
       OpenAnswer, Arm, Record, FinishEntry, CheckPause, db, Skip, At, Claimed, Acting,
       Decision
  <2>2. ASSUME NEW d \in Decision, task[t].pc \in Claimed, d # "none", Finish(t, d)
        PROVE  (log'[k] # "none") <=> (log[k] # "none")
    <3>1. log[KeyOf(t)] # "none" /\ KeyOf(t) \in Key
      BY <2>2, ActionType DEF OnceInv, ClaimLogged, Claimed
    <3> QED BY <1>0, <2>2, <3>1 DEF Finish
  <2> QED BY <2>1, <2>2
<1>3. CASE ~ \E t \in Task : TaskStep(t)
  BY <1>3, OutsideShape
<1> QED BY <1>1, <1>2, <1>3

(* A step books no row of the event of another task that is inside. *)
LEMMA OthersBook ==
  ASSUME TypeInv, RowInv, NEW t \in Task, Books(t), NEW u \in Task, Inside(u), u[1] = t[1]
  PROVE  t = u
  BY BookingOpens, OneInside DEF RowInv, Ev

(* Every step keeps an event's booking behind the claim of its open. *)
LEMMA BookStep == TypeInv /\ OnceInv /\ RowInv /\ BookInv /\ [Next]_vars => BookInv'
<1> SUFFICES ASSUME TypeInv, OnceInv, RowInv, BookInv, [Next]_vars PROVE BookInv'
  OBVIOUS
<1>1. ASSUME NEW e \in Events, rows'[e].status # "none"
      PROVE  /\ log'[OpenKey(e)'] # "none"
             /\ (ActsOfEvent(e)[Len(ActsOfEvent(e))].kind)' = "open"
  <2>1. CASE rows[e].status # "none"
    <3>1. event[e] # None /\ event'[e] = event[e]
      BY <2>1, EventsStay DEF TypeInv, RowsKnown
    <3>2. ActsOfEvent(e)' = ActsOfEvent(e) /\ OpenKey(e)' = OpenKey(e) /\ OpenKey(e) \in Key
      BY <3>1, OpenKeyType DEF ActsOfEvent, OpenKey
    <3> QED BY <2>1, <3>2, LogGrows DEF BookInv, OpenDecided
  <2>2. CASE rows[e].status = "none"
    <3>1. PICK t \in Task : Books(t)
      BY <1>1, <2>2, RowsMove DEF RowsShrink, RowInv
    <3>2. e = t[1] /\ UNCHANGED <<event, log>>
      BY <1>1, <2>2, <3>1, BookedRow
    <3>3. task[t].pc \in Acting /\ Opens(t) /\ log[KeyOf(t)] # "none"
      BY <3>1, BookedRow, BookingOpens DEF OnceInv, ClaimLogged, Claimed, Acting
    <3>4. ActsOfEvent(e)' = ActsOfEvent(e) /\ OpenKey(e)' = OpenKey(e)
      BY <3>2 DEF ActsOfEvent, OpenKey
    <3> QED BY <3>2, <3>3, <3>4, OpenIsLast
  <2> QED BY <2>1, <2>2
<1>2. ASSUME NEW u \in Task, task'[u].pc \in {"entry"} \cup Opening, Opens(u)'
      PROVE  rows'[u[1]].status = "none"
  <2>0. Inside(u)' /\ u[1] \in Events /\ task'[u].pc # "booked"
    BY <1>2 DEF Inside, Opening, Acting, Task
  <2>1. CASE ~TaskStep(u)
    <3>1. task'[u] = task[u] /\ Inside(u) /\ Opens(u) /\ rows[u[1]].status = "none"
      <4>1. task'[u] = task[u] /\ Inside(u)
        BY <2>0, <2>1, OthersStand
      <4>2. Opens(u)
        BY <1>2, <4>1, SameTask DEF Opens, Inside, Acting
      <4> QED BY <1>2, <4>1, <4>2 DEF BookInv, Unbooked
    <3>2. ASSUME NEW t \in Task, Books(t) PROVE t[1] # u[1]
      BY <2>1, <3>1, <3>2, OthersBook DEF Books
    <3> QED BY <2>0, <3>1, <3>2, BookedRow, RowsMove DEF RowsShrink, RowInv
  <2>2. CASE TaskStep(u)
    <3>1. ASSUME NEW t \in Task PROVE ~Books(t)
      BY <1>2, <2>0, <2>2, PlacePassed, StepShape, BookedRow DEF Opening, Claim, GatePass, At
    <3>2. (rows'[u[1]].status = "none") <=> (rows[u[1]].status = "none")
      BY <2>0, <3>1, RowsMove DEF RowsShrink, RowInv
    <3>3. task'[u].act = task[u].act /\ task[u].pc \in Acting /\ task[u].pc # "idle"
      BY <1>2, <2>2, PlacePassed, StepShape DEF Leaves, Advances, Queues, ReadHeld, Claim,
         GatePass, At, Working, Opening, Acting, ReadSubs, Acquire, Release
    <3>4. Opens(u)
      BY <1>2, <3>3, SameTask DEF Opens
    <3>5. CASE Claim(u) /\ log[KeyOf(u)] = "none"
      BY <2>0, <3>2, <3>3, <3>4, <3>5, OpenIsLast DEF BookInv, OpenDecided
    <3>6. CASE task[u].pc \in {"entry"} \cup Opening
      BY <3>2, <3>4, <3>6 DEF BookInv, Unbooked
    <3> QED BY <1>2, <2>2, <3>5, <3>6, PlacePassed DEF GatePass, At
  <2> QED BY <2>1, <2>2
<1> QED BY <1>1, <1>2 DEF BookInv, OpenDecided, Unbooked

(* At the start nothing is booked. *)
LEMMA BookInit == Init => BookInv
  BY DEF Init, BookInv, OpenDecided, Unbooked, NoRow, NoTask, Fresh, Opening

-----------------------------------------------------------------------------
(* The engine implements MirrorOnce: a claim decides, an order places, the  *)
(* booking of an open books, and what closes or detaches rows ends them.    *)
Decided == {k \in Key : log[k] # "none"}
Book    == [e \in Events |-> IF rows[e].status \in {"closed", "detached"}
                             THEN "ended" ELSE rows[e].status]

(* Rows that are not opened have ended or are as they were. *)
LEMMA ShrinkEnds ==
  ASSUME TypeInv, RowsShrink, rows' \in [Events -> RowRec]
  PROVE  \E ended \in SUBSET Events :
           /\ \A e \in ended : Book[e] # "none"
           /\ Book' = [e \in Events |-> IF e \in ended THEN "ended" ELSE Book[e]]
<1> DEFINE ended == {e \in Events : Book'[e] = "ended"}
<1>1. ASSUME NEW e \in Events
      PROVE  /\ e \in ended => Book[e] # "none"
             /\ e \notin ended => Book'[e] = Book[e]
  <2>1. rows[e] \in RowRec /\ rows'[e] \in RowRec
    BY DEF TypeInv, TypeOK
  <2>2. rows[e].status \in {"none", "open", "closed", "detached"}
        /\ rows'[e].status \in {"none", "open", "closed", "detached"}
    BY <2>1 DEF RowRec
  <2> QED BY <2>2 DEF RowsShrink, Book
<1>2. Book' = [e \in Events |-> IF e \in ended THEN "ended" ELSE Book[e]]
  BY <1>1 DEF Book
<1> QED BY <1>1, <1>2

(* Every step of the engine is a step of the promise, or none. *)
LEMMA MirrorStep ==
  TypeInv /\ OnceInv /\ RowInv /\ BookInv /\ [Next]_vars => [Once!Next]_(Once!vars)
<1> SUFFICES ASSUME TypeInv, OnceInv, RowInv, BookInv, [Next]_vars
             PROVE  Once!Next \/ UNCHANGED <<Decided, sent, Book>>
  BY DEF Once!vars, Decided, Book
<1>0. /\ log \in [Key -> Decision] /\ sent \in [Key -> Nat] /\ rows \in [Events -> RowRec]
      /\ rows' \in [Events -> RowRec]
  BY NextType DEF TypeInv, TypeOK
<1>1. ASSUME NEW t \in Task, TaskStep(t), Claim(t), log[KeyOf(t)] = "none",
             ~UNCHANGED log
      PROVE  Once!Next
  <2>1. KeyOf(t) \in Key /\ log' = [log EXCEPT ![KeyOf(t)] = "pending"]
        /\ UNCHANGED <<sent, rows>>
    BY <1>1, ActionType DEF Claim, At, Acting, venue
  <2>2. KeyOf(t) \notin Decided /\ Decided' = Decided \cup {KeyOf(t)} /\ UNCHANGED <<sent, Book>>
    BY <1>0, <1>1, <2>1 DEF Decided, Book
  <2>3. KeyOf(t) \in Once!Key
    BY <2>1 DEF Once!Key, Key
  <2>4. \E k \in Once!Key : Once!Decide(k)
    BY <2>2, <2>3 DEF Once!Decide, Decided, Book
  <2> QED BY <2>4 DEF Once!Next
<1>2. ASSUME NEW t \in Task, TaskStep(t), CloseOrder(t) \/ OpenOrder(t)
      PROVE  Once!Next
  <2>1. /\ KeyOf(t) \in Key /\ task[t].pc \in BeforeOrder /\ task[t].pc \in Claimed
        /\ sent' = [sent EXCEPT ![KeyOf(t)] = @ + 1] /\ UNCHANGED <<log, rows>>
    BY <1>2, ActionType DEF CloseOrder, OpenOrder, At, Acting, Claimed, BeforeOrder, db
  <2>2. KeyOf(t) \in Decided /\ sent[KeyOf(t)] = 0
    BY <2>1 DEF OnceInv, OrderPending, ClaimLogged, Decided
  <2>3. sent' = [sent EXCEPT ![KeyOf(t)] = 1]
    BY <1>0, <2>1, <2>2
  <2>4. Once!Place(KeyOf(t))
    BY <2>1, <2>2, <2>3 DEF Once!Place, Decided
  <2> QED BY <2>1, <2>4 DEF Once!Next, Once!Key, Key
<1>3. ASSUME NEW t \in Task, Books(t)
      PROVE  Once!Next
  <2>1. /\ UNCHANGED log /\ t[1] \in Events /\ rows'[t[1]].status = "open"
        /\ \A e \in Events \ {t[1]} : rows'[e] = rows[e]
        /\ task[t].pc = "record"
    BY <1>3, BookedRow
  <2>2. Opens(t) /\ task[t].pc \in Acting /\ task[t].pc \in Claimed
    BY <1>3, <2>1, BookingOpens DEF Claimed, Acting
  <2>3. rows[t[1]].status = "none"
    BY <2>1, <2>2 DEF BookInv, Unbooked, Opening
  <2>4. KeyOf(t) \in Key /\ KeyOf(t) \in Decided
    BY <2>2, ActionType DEF Decided, OnceInv, ClaimLogged
  <2>5. \E i \in {1, 2} : <<t[1], i>> \in Decided
    BY <2>4 DEF KeyOf, Key
  <2>6. Book[t[1]] = "none" /\ Book' = [Book EXCEPT ![t[1]] = "open"]
    BY <2>1, <2>3 DEF Book
  <2>7. UNCHANGED <<Decided, sent>>
    BY <1>3, <2>1 DEF Decided, Books, Record, venue
  <2>8. Once!Book(t[1])
    BY <2>5, <2>6, <2>7 DEF Once!Book, Decided, Book
  <2> QED BY <2>1, <2>8 DEF Once!Next
<1>4. CASE ~ \E t \in Task : \/ Books(t) \/ (TaskStep(t) /\ (CloseOrder(t) \/ OpenOrder(t)))
                             \/ (TaskStep(t) /\ Claim(t) /\ log[KeyOf(t)] = "none" /\ ~UNCHANGED log)
  <2>1. RowsShrink
    BY <1>4, RowsMove DEF RowInv
  <2>2. UNCHANGED sent
    <3>1. ASSUME NEW t \in Task, TaskStep(t) PROVE UNCHANGED sent
      BY <1>4, <3>1, QuietTaskStep DEF Claim, venue
    <3> QED BY <3>1, OutsideKeepsClaims
  <2>3. UNCHANGED Decided
    <3>1. ASSUME NEW k \in Key PROVE (log'[k] # "none") <=> (log[k] # "none")
      <4>1. ASSUME NEW t \in Task, TaskStep(t), Claim(t), k = KeyOf(t)
            PROVE  log'[k] # "none" => log[k] # "none"
        BY <1>4, <4>1
      <4> QED BY <4>1, LogGrows
    <3> QED BY <3>1 DEF Decided
  <2>4. PICK ended \in SUBSET Events :
           /\ \A e \in ended : Book[e] # "none"
           /\ Book' = [e \in Events |-> IF e \in ended THEN "ended" ELSE Book[e]]
    BY <1>0, <2>1, ShrinkEnds
  <2>5. Once!End(ended)
    BY <2>2, <2>3, <2>4 DEF Once!End, Decided, Book
  <2> QED BY <2>5 DEF Once!Next
<1> QED BY <1>1, <1>2, <1>3, <1>4

(* Every action of a leader event is decided at most once, only a decided   *)
(* action sends an order and it sends one, and the position an event opens  *)
(* is booked at most once and ends for good: auto-copy implements           *)
(* MirrorOnce, for every choice of its constants.                           *)
THEOREM ImplementsMirrorOnce == Spec => MirrorsOnce
<1>1. Init => Once!Init
  BY DEF Init, Once!Init, NoRow, Key, Once!Key
<1> QED BY <1>1, InitType, NextType, OnceInit, OnceStep, RowInit, RowStep, BookInit, BookStep,
           MirrorStep, PTL DEF Spec, MirrorsOnce, Once!Spec

-----------------------------------------------------------------------------
(* The number of positions.  It is counted at the gates and the row is      *)
(* booked several awaits later; under the lock there is still room then.    *)
RoomLeft ==
  \A t \in Task : task[t].pc \in Opening /\ Opens(t) =>
    Cardinality(OpenRows(Ev(t).sub, task[t].mode)) < MaxPositions

MaxInv == RoomLeft /\ PositionsWithinMax

(* A subset of the open rows is no larger. *)
LEMMA FewerRows ==
  ASSUME NEW A \in SUBSET Events, NEW B \in SUBSET A
  PROVE  Cardinality(B) <= Cardinality(A) /\ Cardinality(A) \in Nat /\ Cardinality(B) \in Nat
<1>1. IsFiniteSet(A)
  BY ConstantsOK, FS_Subset
<1>2. IsFiniteSet(B) /\ Cardinality(B) <= Cardinality(A)
  BY <1>1, FS_Subset
<1> QED BY <1>1, <1>2, FS_CardinalityType

(* One row more counts one more at most. *)
LEMMA OneMoreRow ==
  ASSUME NEW A \in SUBSET Events, NEW e \in Events, NEW B \in SUBSET (A \cup {e})
  PROVE  Cardinality(B) <= Cardinality(A) + 1
<1>1. IsFiniteSet(A)
  BY ConstantsOK, FS_Subset
<1>2. Cardinality(A \cup {e}) <= Cardinality(A) + 1
  <2>1. Cardinality(A) \in Nat
    BY <1>1, FS_CardinalityType
  <2>2. Cardinality(A \cup {e}) = Cardinality(A) \/ Cardinality(A \cup {e}) = Cardinality(A) + 1
    BY <1>1, FS_AddElement
  <2> QED BY <2>1, <2>2
<1>3. Cardinality(B) <= Cardinality(A \cup {e})
  BY FewerRows
<1>4. /\ Cardinality(B) \in Nat /\ Cardinality(A \cup {e}) \in Nat
      /\ Cardinality(A) \in Nat
  BY FewerRows
<1> QED BY <1>2, <1>3, <1>4

(* Every step keeps room for the task that is opening. *)
LEMMA MaxStep == TypeInv /\ OnceInv /\ RowInv /\ MaxInv /\ [Next]_vars => MaxInv'
<1> SUFFICES ASSUME TypeInv, OnceInv, RowInv, MaxInv, [Next]_vars PROVE MaxInv'
  OBVIOUS
<1>0. \A s, m : OpenRows(s, m) \in SUBSET Events /\ OpenRows(s, m)' \in SUBSET Events
  BY DEF OpenRows
<1>1. ASSUME NEW u \in Task, task'[u].pc \in Opening, Opens(u)'
      PROVE  Cardinality(OpenRows(Ev(u).sub, task[u].mode))' < MaxPositions
  <2>0. Inside(u)'
    BY <1>1 DEF Inside, Opening, Acting
  <2> DEFINE s == Ev(u).sub
             m == task[u].mode
             before == OpenRows(s, m)
  <2>1. /\ Ev(u)' = Ev(u) /\ task'[u].mode = task[u].mode
        /\ Cardinality(before) < MaxPositions
        /\ OpenRows(s, m)' \subseteq before
    <3>1. CASE ~TaskStep(u)
      <4>1. task'[u] = task[u] /\ Inside(u)
        BY <2>0, <3>1, OthersStand
      <4>2. Ev(u)' = Ev(u) /\ Opens(u)
        BY <1>1, <4>1, SameTask DEF Opens, Inside, Acting
      <4>3. \A r, n : r = Ev(u).sub => OpenRows(r, n)' \subseteq OpenRows(r, n)
        BY <3>1, <4>1, OthersRows
      <4>4. OpenRows(s, m)' = OpenRows(Ev(u).sub, task[u].mode)'
        OBVIOUS
      <4>5. OpenRows(s, m)' \subseteq before
        BY <4>1, <4>2, <4>3 DEF OpenRows
      <4> QED BY <1>1, <4>1, <4>2, <4>5 DEF MaxInv, RoomLeft
    <3>2. CASE TaskStep(u)
      <4>1. GatePass(u) \/ task[u].pc \in Opening
        BY <1>1, <3>2, PlacePassed DEF Opening
      <4>2. Advances(u)
        BY <1>1, <3>2, <4>1, StepShape DEF Leaves, Queues, ReadHeld, GatePass, At, Working,
           Opening, ReadSubs, Acquire, Release
      <4>3. Ev(u)' = Ev(u) /\ Opens(u) /\ task'[u].mode = task[u].mode
        BY <1>1, <4>1, <4>2, SameTask DEF Advances, Opens, GatePass, At, Opening
      <4>4. Cardinality(before) < MaxPositions
        <5>1. CASE GatePass(u)
          <6>1. ~(Cardinality(before) >= MaxPositions)
            BY <4>3, <5>1 DEF GatePass, GateBeforeLoss, Opens
          <6> QED BY <1>0, <6>1, FewerRows, ConstantsOK
        <5>2. CASE task[u].pc \in Opening
          BY <4>3, <5>2 DEF MaxInv, RoomLeft
        <5> QED BY <4>1, <5>1, <5>2
      <4>5. ASSUME NEW t \in Task PROVE ~Books(t)
        BY <1>1, <3>2, <4>2, StepShape, BookedRow DEF Advances, Edge, Opening
      <4>6. RowsShrink
        BY <4>5, RowsMove DEF RowInv
      <4>7. \A r, n : OpenRows(r, n)' \subseteq OpenRows(r, n)
        BY <4>6, ShrinkFewer, EventsStay
      <4>8. OpenRows(s, m)' \subseteq before
        BY <4>3, <4>7 DEF OpenRows
      <4> QED BY <4>3, <4>4, <4>8
    <3> QED BY <3>1, <3>2
  <2>2. Cardinality(OpenRows(s, m)') <= Cardinality(before)
        /\ Cardinality(before) \in Nat /\ Cardinality(OpenRows(s, m)') \in Nat
    BY <1>0, <2>1, FewerRows
  <2> HIDE DEF before
  <2> QED BY <2>1, <2>2, ConstantsOK
<1>2. ASSUME NEW s \in Subs, NEW m \in Mode
      PROVE  Cardinality(OpenRows(s, m)') <= MaxPositions
  <2>1. Cardinality(OpenRows(s, m)) <= MaxPositions /\ MaxPositions \in Nat
    BY ConstantsOK DEF MaxInv, PositionsWithinMax
  <2>2. CASE OpenRows(s, m)' \subseteq OpenRows(s, m)
    BY <1>0, <2>1, <2>2, FewerRows
  <2>3. ASSUME NEW t \in Task, Books(t), s = Ev(t).sub, m = task[t].mode
        PROVE  Cardinality(OpenRows(s, m)') <= MaxPositions
    <3>1. Cardinality(OpenRows(s, m)) < MaxPositions
      BY <2>3, BookedRow, BookingOpens DEF MaxInv, RoomLeft, Opening
    <3>2. Cardinality(OpenRows(s, m)') <= Cardinality(OpenRows(s, m)) + 1
      BY <1>0, <2>3, BookedRow, BooksOne, OneMoreRow
    <3> QED BY <1>0, <2>1, <3>1, <3>2, FewerRows
  <2>4. CASE ~ \E t \in Task : Books(t)
    <3>1. OpenRows(s, m)' \subseteq OpenRows(s, m)
      BY <2>4, RowsMove, ShrinkFewer, EventsStay DEF RowInv
    <3> QED BY <2>2, <3>1
  <2> QED BY <2>2, <2>3, <2>4, BooksOne
<1> QED BY <1>1, <1>2 DEF MaxInv, RoomLeft, PositionsWithinMax

(* At the start there is no position. *)
LEMMA MaxInit == Init => MaxInv
<1> SUFFICES ASSUME Init PROVE MaxInv
  OBVIOUS
<1>1. \A s, m : OpenRows(s, m) = {}
  BY DEF Init, OpenRows, NoRow
<1>2. Cardinality({}) = 0 /\ MaxPositions \in Nat
  BY FS_EmptySet, ConstantsOK
<1>3. RoomLeft
  BY DEF Init, RoomLeft, NoTask, Fresh, Opening
<1>4. PositionsWithinMax
  BY <1>1, <1>2 DEF PositionsWithinMax
<1> QED BY <1>3, <1>4 DEF MaxInv

(* The tasks of a subscription never exceed its max_positions, though the   *)
(* count is read several awaits before the row is booked: one half of       *)
(* LimitsKept, for every choice of the constants.                           *)
THEOREM PositionsStayWithinMax == Spec => []PositionsWithinMax
<1>1. MaxInv => PositionsWithinMax
  BY DEF MaxInv
<1> QED BY <1>1, InitType, NextType, OnceInit, OnceStep, RowInit, RowStep, MaxInit, MaxStep,
           PTL DEF Spec

-----------------------------------------------------------------------------
(* A flip and its own open.  The close half is remembered before the open   *)
(* half starts: by its log row, by _not_copied_seen, or, once a restart has *)
(* emptied that memory, because the event is not fed again.                 *)
FirstDone(e) ==
  log[<<e, 1>>] # "none" \/ <<e, 1>> \in notCopied \/ task[<<e, 1>>].pc = "lost"

RowsAfterFirst  ==
  \A e \in Events : rows[e].status # "none" /\ Len(ActsOfEvent(e)) = 2 => FirstDone(e)
TasksAfterFirst == \A t \in Task : Inside(t) /\ task[t].act >= 2 => FirstDone(t[1])
QueuedFirst     == \A t \in Task : task[t].pc \in {"idle", "start", "wait"} => task[t].act = 1
LostTogether    ==
  \A t \in Task : task[<<t[1], 1>>].pc = "lost" => task[t].pc \in {"idle", "lost"}
Started         == \A e \in Events : event[e] # None => task[<<e, 1>>].pc # "idle"
OwnSeen         ==
  \A t \in Task : At(t, "claim") /\ IsExit(t) /\ task[t].held = t[1] => log[KeyOf(t)] # "none"
ExitKinds       == \A t \in Task : InExit(t) => IsExit(t)

LostInv == QueuedFirst /\ LostTogether /\ Started
OwnInv  == RowsAfterFirst /\ TasksAfterFirst /\ OwnSeen /\ ExitKinds /\ OwnOpenKept

(* The first delivery of an event is one of its tasks. *)
LEMMA FirstTask == \A e \in Events : <<e, 1>> \in Task
  BY ConstantsOK DEF Task

(* A task leaves no state of rest but by being delivered, and gets lost only *)
(* with all the others.                                                      *)
LEMMA LostStep == TypeInv /\ LostInv /\ [Next]_vars => LostInv'
<1> SUFFICES ASSUME TypeInv, LostInv, [Next]_vars PROVE LostInv'
  OBVIOUS
<1>0. task \in [Task -> TaskRec] /\ event \in [Events -> EventRec \cup {None}]
  BY DEF TypeInv, TypeOK
<1>1. ASSUME NEW t \in Task, TaskStep(t) PROVE LostInv'
  <2>1. /\ task[t].pc \notin {"idle", "lost"} /\ task'[t].pc \notin {"idle", "lost", "start"}
        /\ task'[t].pc = "wait" => task'[t].act = 1
    <3>1. CASE ReadSubs(t) \/ Acquire(t)
      BY <1>0, <3>1 DEF ReadSubs, Acquire, At, Goto, TaskRec, LostInv, QueuedFirst
    <3>2. CASE Release(t)
      BY <1>0, <3>2 DEF Release, At, Fresh
    <3>3. CASE ReadHeld(t)
      BY <1>0, <3>3 DEF ReadHeld, Working, At, TaskRec
    <3>4. CASE Leaves(t)
      BY <3>4 DEF Leaves, Inside, Acting
    <3>5. CASE Advances(t)
      BY <3>5 DEF Advances, Edge
    <3> QED BY <1>1, <3>1, <3>2, <3>3, <3>4, <3>5, StepShape DEF Queues
  <2>2. \A u \in Task \ {t} : task'[u] = task[u]
    BY <1>1, StepShape
  <2>3. UNCHANGED event /\ t = <<t[1], t[2]>> /\ t[1] \in Events
    BY <1>1 DEF TaskStep, Task
  <2>4. QueuedFirst'
    BY <2>1, <2>2 DEF LostInv, QueuedFirst
  <2>5. LostTogether'
    BY <2>1, <2>2, <2>3, FirstTask DEF LostInv, LostTogether, Task
  <2>6. Started'
    BY <2>1, <2>2, <2>3, FirstTask DEF LostInv, Started
  <2> QED BY <2>4, <2>5, <2>6 DEF LostInv
<1>2. ASSUME NEW s \in Subs, NEW c \in Coins, NEW e \in Events,
             NEW new \in -MaxLead..MaxLead, LeaderTrade(s, c, e, new)
      PROVE  LostInv'
  <2>1. /\ event[e] = None /\ \A d \in Events \ {e} : event'[d] = event[d]
        /\ <<e, 1>> \in Task /\ task' = [task EXCEPT ![<<e, 1>>].pc = "start"]
    BY <1>0, <1>2, FirstTask DEF LeaderTrade, Goto
  <2>2. \A u \in Task : u[1] = e => task[u].pc = "idle"
    BY <2>1 DEF TypeInv, WellFormed, At, Task
  <2>3. /\ task'[<<e, 1>>].pc = "start" /\ task'[<<e, 1>>].act = task[<<e, 1>>].act
        /\ \A u \in Task \ {<<e, 1>>} : task'[u] = task[u]
    BY <1>0, <2>1 DEF TaskRec
  <2>4. QueuedFirst'
    BY <2>1, <2>2, <2>3 DEF LostInv, QueuedFirst
  <2>5. LostTogether'
    BY <2>1, <2>2, <2>3, FirstTask DEF LostInv, LostTogether, Task
  <2>6. Started'
    BY <2>1, <2>3, FirstTask DEF LostInv, Started
  <2> QED BY <2>4, <2>5, <2>6 DEF LostInv
<1>3. ASSUME NEW t \in Task, Redeliver(t) PROVE LostInv'
  <2>1. /\ task[t].pc = "idle" /\ t[2] # 1 /\ UNCHANGED event
        /\ task[<<t[1], 1>>].pc \notin {"idle", "lost"} /\ t[1] \in Events
        /\ task'[t].pc = "start" /\ task'[t].act = task[t].act
        /\ \A u \in Task \ {t} : task'[u] = task[u]
    BY <1>0, <1>3 DEF Redeliver, At, Goto, TaskRec, Task
  <2>2. QueuedFirst'
    BY <2>1 DEF LostInv, QueuedFirst
  <2>3. LostTogether'
    BY <2>1, FirstTask DEF LostInv, LostTogether, Task
  <2>4. Started'
    BY <2>1, FirstTask DEF LostInv, Started
  <2> QED BY <2>2, <2>3, <2>4 DEF LostInv
<1>4. CASE SweepStep \/ RouterStep \/ AccountStep \/ UNCHANGED vars
  <2>1. UNCHANGED <<event, task>>
    BY <1>4 DEF SweepStep, SweepFrame, RouterStep, AccountStep, vars
  <2> QED BY <2>1 DEF LostInv, QueuedFirst, LostTogether, Started
<1>5. CASE Restart
  <2>1. /\ UNCHANGED event
        /\ \A u \in Task : IF task[u].pc = "idle" THEN task'[u] = task[u]
                           ELSE task'[u].pc = "lost"
    BY <1>5 DEF Restart, Fresh, At
  <2>2. QueuedFirst'
    BY <2>1 DEF LostInv, QueuedFirst
  <2>3. LostTogether'
    BY <2>1 DEF LostTogether
  <2>4. Started'
    BY <2>1, FirstTask DEF LostInv, Started
  <2> QED BY <2>2, <2>3, <2>4 DEF LostInv
<1> QED BY <1>1, <1>2, <1>3, <1>4, <1>5 DEF Next

(* What the engine remembers of the first action of an event it does not    *)
(* forget while the event can still be fed.                                 *)
LEMMA FirstStays ==
  ASSUME TypeInv, OnceInv, LostInv, [Next]_vars, NEW e \in Events, event[e] # None,
         FirstDone(e)
  PROVE  FirstDone(e)'
<1>0. task \in [Task -> TaskRec] /\ <<e, 1>> \in Key /\ <<e, 1>> \in Task
  BY FirstTask DEF TypeInv, TypeOK, Key
<1>1. CASE log[<<e, 1>>] # "none"
  BY <1>0, <1>1, LogGrows DEF FirstDone
<1>2. CASE Restart
  BY <1>0, <1>2 DEF Restart, Fresh, At, LostInv, Started, FirstDone
<1>3. CASE ~Restart /\ <<e, 1>> \in notCopied
  <2>1. ASSUME NEW t \in Task, TaskStep(t) PROVE notCopied \subseteq notCopied'
    BY <2>1 DEF TaskStep, ExitStep, EntryStep, ReadSubs, Acquire, Release, Seen,
       Drop, ReadHeld, Claim, SkipExit, ShadowExit, CloseOrder, CloseAnswer, Unarm, Settle,
       FinishExit, SkipEntry, GateSkip, GateLoss, GatePass, ShadowEntry, OpenOrder,
       OpenAnswer, Arm, Record, FinishEntry, CheckPause, memory
  <2> QED BY <1>3, <2>1, OutsideShape DEF FirstDone
<1>4. CASE ~Restart /\ task[<<e, 1>>].pc = "lost"
  <2>1. ASSUME NEW t \in Task, TaskStep(t) PROVE task'[<<e, 1>>].pc = "lost"
    <3>1. task[t].pc # "lost"
      <4>1. Queues(t) \/ ReadHeld(t) \/ Leaves(t) \/ Advances(t)
        BY <2>1, StepShape
      <4> QED BY <4>1 DEF Queues, ReadSubs, Acquire, Release, ReadHeld, Working, At, Leaves,
                 Advances, Edge, Inside, Acting
    <3> QED BY <1>0, <1>4, <2>1, <3>1, StepShape
  <2>2. ASSUME NEW s \in Subs, NEW c \in Coins, NEW d \in Events,
               NEW new \in -MaxLead..MaxLead, LeaderTrade(s, c, d, new)
        PROVE  task'[<<e, 1>>].pc = "lost"
    <3>1. d # e
      BY <2>2 DEF LeaderTrade
    <3> QED BY <1>0, <1>4, <2>2, <3>1 DEF LeaderTrade, Goto
  <2>3. ASSUME NEW t \in Task, Redeliver(t) PROVE task'[<<e, 1>>].pc = "lost"
    BY <1>0, <1>4, <2>3 DEF Redeliver, Goto, At
  <2>4. CASE SweepStep \/ RouterStep \/ AccountStep \/ UNCHANGED vars
    BY <1>4, <2>4 DEF SweepStep, SweepFrame, RouterStep, AccountStep, vars, FirstDone
  <2> QED BY <1>4, <2>1, <2>2, <2>3, <2>4 DEF Next, FirstDone
<1> QED BY <1>1, <1>2, <1>3, <1>4 DEF FirstDone

(* A task leaves an action remembered. *)
LEMMA LeavesSeen ==
  ASSUME TypeInv, OnceInv, NEW t \in Task, TaskStep(t), Leaves(t)
  PROVE  log'[KeyOf(t)] # "none" \/ KeyOf(t) \in notCopied'
<1>0. log \in [Key -> Decision] /\ task \in [Task -> TaskRec] /\ task[t] \in TaskRec
  BY DEF TypeInv, TypeOK
<1>1. task'[t].pc = "next" /\ task[t].pc \notin {"wait", "start"}
  BY DEF Leaves, Inside, Acting
<1>2. ~Queues(t) /\ ~ReadHeld(t) /\ ~Advances(t)
  <2>1. ~ReadSubs(t) /\ ~Acquire(t)
    BY <1>1 DEF ReadSubs, Acquire, At
  <2>2. ~Release(t) /\ ~ReadHeld(t)
    BY <1>0, <1>1, ReadHeldShape DEF Release, Fresh
  <2> QED BY <1>1, <2>1, <2>2 DEF Queues, Advances, Edge
<1>3. CASE Seen(t) \/ Drop(t)
  BY <1>3 DEF Seen, Drop, memory
<1>4. CASE Claim(t)
  BY <1>0, <1>4, ActionType DEF Claim, Claimable, At, Acting
<1>5. CASE SkipExit(t) \/ SkipEntry(t) \/ GateSkip(t) \/ FinishEntry(t)
  <2>1. PICK d \in Decision \ {"none"} : Finish(t, d)
    BY <1>5 DEF SkipExit, SkipEntry, GateSkip, FinishEntry, Skip, Decision
  <2>2. KeyOf(t) \in Key
    BY <1>5, ActionType DEF SkipExit, SkipEntry, GateSkip, FinishEntry, At, Acting
  <2> QED BY <1>0, <2>1, <2>2 DEF Finish
<1>6. CASE CheckPause(t)
  BY <1>6 DEF CheckPause, At, OnceInv, ClaimLogged, Claimed, Acting
<1>7. CASE ~(Seen(t) \/ Drop(t) \/ Claim(t) \/ SkipExit(t) \/ SkipEntry(t) \/ GateSkip(t)
             \/ FinishEntry(t) \/ CheckPause(t))
  <2>1. ShadowExit(t) \/ CloseOrder(t) \/ CloseAnswer(t) \/ Unarm(t) \/ Settle(t)
        \/ FinishExit(t) \/ GateLoss(t) \/ GatePass(t) \/ ShadowEntry(t) \/ OpenOrder(t)
        \/ OpenAnswer(t) \/ Arm(t) \/ Record(t)
    BY <1>2, <1>7 DEF TaskStep, ExitStep, EntryStep, Queues
  <2>2. CASE ShadowExit(t) \/ CloseOrder(t) \/ ShadowEntry(t) \/ OpenOrder(t) \/ Arm(t)
    <3>1. CASE ShadowExit(t)
      BY <1>0, <1>1, <3>1 DEF ShadowExit, TaskRec
    <3>2. CASE CloseOrder(t)
      BY <1>0, <1>1, <3>2 DEF CloseOrder, TaskRec
    <3>3. CASE ShadowEntry(t)
      BY <1>0, <1>1, <3>3 DEF ShadowEntry, TaskRec
    <3>4. CASE OpenOrder(t)
      BY <1>0, <1>1, <3>4 DEF OpenOrder, TaskRec
    <3>5. CASE Arm(t)
      BY <1>0, <1>1, <3>5 DEF Arm, TaskRec
    <3> QED BY <2>2, <3>1, <3>2, <3>3, <3>4, <3>5
  <2>3. CASE ~(ShadowExit(t) \/ CloseOrder(t) \/ ShadowEntry(t) \/ OpenOrder(t) \/ Arm(t))
    <3>1. PICK p \in PC \ {"next"} : task' = Goto(t, p)
      BY <2>1, <2>3 DEF CloseAnswer, Unarm, Settle, FinishExit, GateLoss, GatePass,
         OpenAnswer, Record, PC
    <3> QED BY <1>0, <1>1, <3>1 DEF Goto, TaskRec
  <2> QED BY <2>2, <2>3
<1> QED BY <1>2, <1>3, <1>4, <1>5, <1>6, <1>7

(* Every step keeps a flip's close half off its own open. *)
LEMMA OwnStep ==
  TypeInv /\ OnceInv /\ RowInv /\ BookInv /\ LostInv /\ OwnInv /\ [Next]_vars => OwnInv'
<1> SUFFICES ASSUME TypeInv, OnceInv, RowInv, BookInv, LostInv, OwnInv, [Next]_vars
             PROVE  OwnInv'
  OBVIOUS
<1>0. task \in [Task -> TaskRec]
  BY DEF TypeInv, TypeOK
<1>1. ASSUME NEW e \in Events, rows'[e].status # "none", Len(ActsOfEvent(e)') = 2
      PROVE  FirstDone(e)'
  <2>1. CASE rows[e].status # "none"
    <3>1. event[e] # None /\ event'[e] = event[e]
      BY <2>1, EventsStay DEF TypeInv, RowsKnown
    <3>2. FirstDone(e)
      BY <1>1, <2>1, <3>1 DEF OwnInv, RowsAfterFirst, ActsOfEvent
    <3> QED BY <3>1, <3>2, FirstStays
  <2>2. CASE rows[e].status = "none"
    <3>1. PICK t \in Task : Books(t)
      BY <1>1, <2>2, RowsMove DEF RowsShrink, RowInv
    <3>2. e = t[1] /\ UNCHANGED event
      BY <1>1, <2>2, <3>1, BookedRow
    <3>3. task[t].pc \in Acting /\ Opens(t) /\ Inside(t)
      BY <3>1, BookingOpens
    <3>4. task[t].act = 2 /\ event[e] # None
      <4>1. KeyOf(t) = OpenKey(e)
        BY <3>2, <3>3, OpenIsLast
      <4>2. ActsOfEvent(e)' = ActsOfEvent(e)
        BY <3>2 DEF ActsOfEvent
      <4> QED BY <1>1, <3>2, <3>3, <4>1, <4>2 DEF KeyOf, OpenKey, TypeInv, WellFormed, At, Acting
    <3>5. FirstDone(e)
      BY <3>2, <3>3, <3>4 DEF OwnInv, TasksAfterFirst
    <3> QED BY <3>4, <3>5, FirstStays
  <2> QED BY <2>1, <2>2
<1>2. ASSUME NEW u \in Task, Inside(u)', task'[u].act >= 2
      PROVE  FirstDone(u[1])'
  <2>0. u[1] \in Events
    BY DEF Task
  <2>1. CASE Inside(u) /\ task[u].act >= 2
    <3>1. FirstDone(u[1]) /\ event[u[1]] # None
      BY <2>1 DEF OwnInv, TasksAfterFirst, TypeInv, WellFormed, Inside, At, Acting
    <3> QED BY <2>0, <3>1, FirstStays
  <2>2. CASE ~(Inside(u) /\ task[u].act >= 2)
    <3>1. TaskStep(u)
      BY <1>2, <2>2, OthersStand
    <3>2. CASE Leaves(u)
      <4>1. task[u].act = 1 /\ KeyOf(u) = <<u[1], 1>>
        BY <1>0, <1>2, <2>2, <3>2 DEF Leaves, KeyOf, TypeInv, WellFormed, TaskRec
      <4>2. log'[<<u[1], 1>>] # "none" \/ <<u[1], 1>> \in notCopied'
        BY <3>1, <3>2, <4>1, LeavesSeen
      <4> QED BY <4>2 DEF FirstDone
    <3>3. CASE ~Leaves(u)
      <4>1. CASE Queues(u)
        BY <1>0, <1>2, <4>1 DEF Queues, ReadSubs, Acquire, Release, At, Goto, Fresh, Inside,
           Acting, TaskRec, LostInv, QueuedFirst
      <4>2. CASE ReadHeld(u)
        BY <1>0, <1>2, <2>2, <4>2 DEF ReadHeld, Working, At, Inside, TaskRec
      <4>3. CASE Advances(u)
        BY <1>2, <2>2, <4>3 DEF Advances, Edge, Inside, Acting
      <4> QED BY <3>1, <3>3, <4>1, <4>2, <4>3, StepShape
    <3> QED BY <3>2, <3>3
  <2> QED BY <2>1, <2>2
<1>3. ASSUME NEW u \in Task, task'[u].pc = "claim", IsExit(u)', task'[u].held = u[1]
      PROVE  log'[KeyOf(u)'] # "none"
  <2>0. Inside(u)' /\ u[1] \in Events
    BY <1>3 DEF Inside, Acting, Task
  <2>1. CASE ~TaskStep(u)
    <3>1. task'[u] = task[u] /\ Inside(u)
      BY <2>0, <2>1, OthersStand
    <3>2. IsExit(u) /\ KeyOf(u)' = KeyOf(u) /\ KeyOf(u) \in Key
      BY <1>3, <3>1, SameTask, ActionType DEF Inside, Acting
    <3>3. log[KeyOf(u)] # "none"
      BY <1>3, <3>1, <3>2 DEF OwnInv, OwnSeen, At
    <3> QED BY <3>2, <3>3, LogGrows
  <2>2. CASE TaskStep(u)
    <3>1. ReadHeld(u)
      <4>1. ~Leaves(u) /\ ~Advances(u)
        BY <1>3 DEF Leaves, Advances, Edge
      <4>2. ~Queues(u)
        BY <1>0, <1>3 DEF Queues, ReadSubs, Acquire, Release, Goto, Fresh, TaskRec
      <4> QED BY <2>2, <4>1, <4>2, StepShape
    <3>2. /\ task[u].pc = "next" /\ KeyOf(u) \notin notCopied /\ UNCHANGED <<log, event>>
          /\ task'[u].act = task[u].act /\ Inside(u)
      BY <2>2, <3>1, ReadHeldShape DEF TaskStep
    <3>3. u[1] \in HeldNow(u)
      BY <1>3, <2>0, <3>1, ReadHeldShape, ConstantsOK
    <3>4. /\ rows[u[1]].status # "none" /\ event[u[1]] # None
          /\ ActsOfEvent(u[1])[Len(ActsOfEvent(u[1]))].kind = "open"
      BY <3>3 DEF HeldNow, HeldRows, OpenRows, BookInv, OpenDecided
    <3>5. IsExit(u) /\ KeyOf(u)' = KeyOf(u) /\ KeyOf(u) = <<u[1], task[u].act>>
      BY <1>3, <3>2, SameTask DEF KeyOf
    <3>6. ActsOf(u) = ActsOfEvent(u[1]) /\ task[u].act # Len(ActsOf(u))
      BY <3>4, <3>5 DEF ActsOf, ActsOfEvent, Ev, IsExit, KindOf, CurAct
    <3>7. task[u].act \in 1..Len(ActsOf(u)) /\ Len(ActsOf(u)) \in {1, 2}
      <4>1. task[u].act \in Nat /\ task[u].act >= 1 /\ task[u].act <= Len(ActsOf(u))
        BY <3>1, WorkingType DEF ReadHeld, TaskRec
      <4>2. Len(ActsOf(u)) \in {1, 2}
        BY <2>0, <3>4, <3>6, OpenKeyType
      <4> QED BY <4>1, <4>2
    <3>8. task[u].act = 1 /\ Len(ActsOf(u)) = 2
      <4> DEFINE n == Len(ActsOf(u))
      <4>1. task[u].act \in 1..n /\ n \in {1, 2} /\ task[u].act # n
        BY <3>6, <3>7
      <4> HIDE DEF n
      <4>2. task[u].act = 1 /\ n = 2
        BY <4>1
      <4> QED BY <4>2 DEF n
    <3>9. FirstDone(u[1])
      BY <2>0, <3>4, <3>6, <3>8 DEF OwnInv, RowsAfterFirst
    <3>10. task[<<u[1], 1>>].pc # "lost"
      BY <3>2 DEF LostInv, LostTogether
    <3> QED BY <3>2, <3>5, <3>8, <3>9, <3>10 DEF FirstDone
  <2> QED BY <2>1, <2>2
<1>4. ASSUME NEW u \in Task, InExit(u)'
      PROVE  IsExit(u)' /\ task'[u].held # u[1]
  <2>0. Inside(u)'
    BY <1>4 DEF InExit, Inside, Acting
  <2>1. CASE ~TaskStep(u)
    <3>1. task'[u] = task[u] /\ Inside(u)
      BY <2>0, <2>1, OthersStand
    <3>2. InExit(u) /\ IsExit(u)' = IsExit(u)
      BY <1>4, <3>1, SameTask DEF InExit, Inside, Acting
    <3> QED BY <3>1, <3>2 DEF OwnInv, ExitKinds, OwnOpenKept
  <2>2. CASE TaskStep(u)
    <3>1. Advances(u)
      <4>1. ~Leaves(u)
        BY <1>4 DEF Leaves, InExit
      <4>2. ~ReadHeld(u)
        BY <1>4, ReadHeldShape DEF InExit
      <4>3. ~Queues(u)
        <5>1. CASE ReadSubs(u) \/ Acquire(u)
          BY <1>0, <1>4, <5>1 DEF ReadSubs, Acquire, Goto, InExit, TaskRec
        <5>2. CASE Release(u)
          BY <1>0, <1>4, <5>2 DEF Release, Fresh, InExit
        <5> QED BY <5>1, <5>2 DEF Queues
      <4> QED BY <2>2, <4>1, <4>2, <4>3, StepShape
    <3>2. /\ InExit(u) \/ task[u].pc = "claim"
          /\ IsExit(u)' = IsExit(u) /\ task'[u].held = task[u].held
      <4>1. task[u].pc # "idle" /\ task'[u].act = task[u].act /\ task'[u].held = task[u].held
            /\ (InExit(u) \/ task[u].pc = "claim")
        BY <1>4, <3>1 DEF Advances, Edge, InExit
      <4> QED BY <4>1, SameTask
    <3>3. CASE InExit(u)
      BY <3>2, <3>3 DEF OwnInv, ExitKinds, OwnOpenKept
    <3>4. CASE task[u].pc = "claim"
      <4>1. Claim(u)
        BY <2>2, <3>4 DEF TaskStep, ExitStep, EntryStep, ReadSubs, Acquire, Release, Seen,
           Drop, ReadHeld, SkipExit, ShadowExit, CloseOrder, CloseAnswer, Unarm, Settle,
           FinishExit, SkipEntry, GateSkip, GateLoss, GatePass, ShadowEntry, OpenOrder,
           OpenAnswer, Arm, Record, FinishEntry, CheckPause, Working, At
      <4>2. log[KeyOf(u)] = "none" /\ task' = Goto(u, IF IsExit(u) THEN "exit" ELSE "entry")
        BY <1>0, <1>4, <4>1 DEF Claim, Claimable, NextAct, Fresh, InExit
      <4>3. IsExit(u)
        BY <1>0, <1>4, <4>2 DEF Goto, InExit, TaskRec
      <4> QED BY <3>2, <3>4, <4>2, <4>3 DEF OwnInv, OwnSeen, At
    <3> QED BY <3>2, <3>3, <3>4
  <2> QED BY <2>1, <2>2
<1> QED BY <1>1, <1>2, <1>3, <1>4
        DEF OwnInv, RowsAfterFirst, TasksAfterFirst, OwnSeen, ExitKinds, OwnOpenKept, At, KeyOf

(* At the start nothing was fed. *)
LEMMA OwnInit == Init => LostInv /\ OwnInv
<1> SUFFICES ASSUME Init PROVE LostInv /\ OwnInv
  OBVIOUS
<1>1. \A t \in Task : task[t].pc = "idle" /\ task[t].act = 1
  BY DEF Init, NoTask, Fresh
<1>2. \A e \in Events : rows[e].status = "none" /\ event[e] = None
  BY DEF Init, NoRow
<1>3. LostInv
  BY <1>1, <1>2, FirstTask DEF LostInv, QueuedFirst, LostTogether, Started, Task
<1>4. OwnInv
  BY <1>1, <1>2 DEF OwnInv, RowsAfterFirst, TasksAfterFirst, OwnSeen, ExitKinds, OwnOpenKept,
     Inside, Acting, At, InExit
<1> QED BY <1>3, <1>4

(* The close half of a flip never acts on the position its own open half    *)
(* made, however often the event is fed and whatever a restart forgets.     *)
THEOREM FlipsKeepTheirOpen == Spec => []OwnOpenKept
<1>1. OwnInv => OwnOpenKept
  BY DEF OwnInv
<1> QED BY <1>1, InitType, NextType, OnceInit, OnceStep, RowInit, RowStep, BookInit, BookStep,
           LostStep, OwnInit, OwnStep, PTL DEF Spec

-----------------------------------------------------------------------------
(* The margin in use, as a sum over the open rows.                          *)

MarginsOf(r) == [e \in Events |-> r[e].margin]
Margins == MarginsOf(rows)

AddsMargins(g, r, S) ==
  g = [T \in SUBSET S |-> IF T = {} THEN 0 ELSE r[Pick(T)].margin + g[T \ {Pick(T)}]]
MarginSum(r, S) == (CHOOSE g : AddsMargins(g, r, S))[S]

(* The sum of the open rows' margins, as MapThenSumSet spells it, is the    *)
(* total of SetLemmas.                                                      *)
LEMMA MarginSumIs ==
  ASSUME NEW r, NEW S \in SUBSET Events
  PROVE  MarginSum(r, S) = Total(MarginsOf(r), S)
<1> DEFINE w == MarginsOf(r)
           g == CHOOSE h : AddsMargins(h, r, S)
           k == CHOOSE h : Adds(h, w, S)
<1>1. IsFiniteSet(S)
  BY ConstantsOK, FS_Subset
<1>2. ASSUME NEW h PROVE AddsMargins(h, r, S) <=> Adds(h, w, S)
  <2>1. \A T \in SUBSET S : T # {} => r[Pick(T)].margin = w[Pick(T)]
    BY PickIn DEF MarginsOf
  <2> HIDE DEF w
  <2>2. [T \in SUBSET S |-> IF T = {} THEN 0 ELSE r[Pick(T)].margin + h[T \ {Pick(T)}]]
        = [T \in SUBSET S |-> IF T = {} THEN 0 ELSE w[Pick(T)] + h[T \ {Pick(T)}]]
    BY <2>1
  <2> QED BY <2>2 DEF AddsMargins, Adds
<1> HIDE DEF w
<1>3. \E h : Adds(h, w, S)
  BY <1>1, AddsExists
<1>4. Adds(g, w, S) /\ Adds(k, w, S)
  BY <1>2, <1>3
<1> HIDE DEF g, k
<1>5. g[S] = k[S]
  BY <1>1, <1>4, AddsAgree
<1> QED BY <1>5 DEF MarginSum, Total, g, k, w

(* What is in use, now and after a step. *)
LEMMA MarginIsTotal ==
  ASSUME NEW s, NEW m
  PROVE  /\ MarginInUse(s, m) = Total(Margins, OpenRows(s, m))
         /\ MarginInUse(s, m)' = Total(Margins', OpenRows(s, m)')
<1>1. MarginInUse(s, m) = MarginSum(rows, OpenRows(s, m))
  BY DEF MarginInUse, MapThenSumSet, MapThenFoldSet, MarginSum, AddsMargins, Pick
<1>2. MarginInUse(s, m)' = MarginSum(rows', OpenRows(s, m)')
  BY DEF MarginInUse, MapThenSumSet, MapThenFoldSet, MarginSum, AddsMargins, Pick
<1>3. OpenRows(s, m) \in SUBSET Events /\ OpenRows(s, m)' \in SUBSET Events
  BY DEF OpenRows
<1> QED BY <1>1, <1>2, <1>3, MarginSumIs DEF Margins

-----------------------------------------------------------------------------
(* What a step changes in a row besides its status.                         *)

Booking(t) == TaskStep(t) /\ Record(t)

(* Only a booking changes the mode, the margin or the oids of a row.        *)
LEMMA RowFields ==
  ASSUME TypeInv, [Next]_vars, ~ \E t \in Task : Booking(t), NEW e \in Events
  PROVE  /\ rows'[e].mode = rows[e].mode
         /\ rows'[e].margin = rows[e].margin
         /\ rows'[e].oids = rows[e].oids
<1>0. rows \in [Events -> RowRec] /\ rows[e] \in RowRec
  BY DEF TypeInv, TypeOK
<1>1. ASSUME NEW t \in Task, TaskStep(t)
      PROVE  /\ rows'[e].mode = rows[e].mode
             /\ rows'[e].margin = rows[e].margin
             /\ rows'[e].oids = rows[e].oids
  <2>1. CASE Settle(t)
    <3> DEFINE h == task[t].held
    <3>1. PICK r \in {[rows[h] EXCEPT !.status = "closed", !.size = 0],
                      [rows[h] EXCEPT !.size = task[t].size - task[t].fs]} :
            rows' = [rows EXCEPT ![h] = r]
      BY <2>1 DEF Settle
    <3>2. e = h => r.mode = rows[e].mode /\ r.margin = rows[e].margin /\ r.oids = rows[e].oids
      BY <1>0, <3>1 DEF RowRec
    <3> HIDE DEF h
    <3>3. rows'[e] = IF e = h THEN r ELSE rows[e]
      BY <1>0, <3>1
    <3> QED BY <3>2, <3>3
  <2>2. CASE ~Settle(t)
    <3>1. UNCHANGED rows
      BY <1>1, <2>2 DEF Booking, TaskStep, ExitStep, EntryStep, ReadSubs, Acquire, Release, Seen,
         Drop, ReadHeld, Claim, SkipExit, ShadowExit, CloseOrder, CloseAnswer, Unarm,
         FinishExit, SkipEntry, GateSkip, GateLoss, GatePass, ShadowEntry, OpenOrder,
         OpenAnswer, Arm, FinishEntry, CheckPause, db
    <3> QED BY <3>1
  <2> QED BY <2>1, <2>2
<1>2. CASE SweepApply
  <2>1. \E st, n : rows'[e] = rows[e] \/ rows'[e] = [rows[e] EXCEPT !.status = st]
                  \/ rows'[e] = [rows[e] EXCEPT !.size = n]
    BY <1>2 DEF SweepApply
  <2> QED BY <1>0, <2>1 DEF RowRec
<1>3. UNCHANGED rows \/ SweepApply \/ \E t \in Task : TaskStep(t)
  BY OutsideShape
<1> QED BY <1>1, <1>2, <1>3 DEF RowRec

(* What an add changes. *)
LEMMA AddedRow ==
  ASSUME TypeInv, NEW t \in Task, Record(t), KindOf(t) = "add", NEW e \in Events
  PROVE  /\ e # task[t].held => rows'[e] = rows[e]
         /\ e = task[t].held =>
              /\ rows'[e].status = rows[e].status /\ rows'[e].mode = rows[e].mode
              /\ rows'[e].oids = rows[e].oids
              /\ rows'[e].size = task[t].size + task[t].fs
              /\ rows'[e].margin = rows[e].margin + task[t].fs
<1> DEFINE h == task[t].held
           size == task[t].size + task[t].fs
           margin == rows[h].margin + task[t].fs
<1>1. rows' = [rows EXCEPT ![h] = [rows[h] EXCEPT !.size = size, !.margin = margin]]
  BY DEF Record, TypeInv, TypeOK
<1>2. rows \in [Events -> RowRec]
  BY DEF TypeInv, TypeOK
<1>3. CASE e = h
  <2>1. rows'[e] = [rows[e] EXCEPT !.size = size, !.margin = margin]
    BY <1>1, <1>2, <1>3
  <2>2. rows[e] \in RowRec
    BY <1>2
  <2>3. margin = rows[e].margin + task[t].fs
    BY <1>3
  <2> HIDE DEF size, margin
  <2>4. rows'[e].size = size /\ rows'[e].margin = margin /\ rows'[e].status = rows[e].status
        /\ rows'[e].mode = rows[e].mode /\ rows'[e].oids = rows[e].oids
    BY <2>1, <2>2 DEF RowRec
  <2> QED BY <1>3, <2>3, <2>4 DEF size
<1>4. CASE e # h
  BY <1>1, <1>2, <1>4
<1> QED BY <1>3, <1>4

(* What an open writes. *)
LEMMA OpenedRow ==
  ASSUME TypeInv, NEW t \in Task, Books(t)
  PROVE  /\ rows'[t[1]].size = task[t].fs /\ rows'[t[1]].margin = task[t].fs
         /\ rows'[t[1]].oids = task[t].oids
  BY DEF Books, Record, TypeInv, TypeOK, Task

(* The mode of a row stands. *)
LEMMA ModesStay ==
  ASSUME TypeInv, RowInv, BookInv, [Next]_vars, NEW e \in Events, rows[e].status # "none"
  PROVE  rows'[e].mode = rows[e].mode
<1>1. ASSUME NEW t \in Task, Books(t) PROVE rows'[e].mode = rows[e].mode
  <2>1. e # t[1]
    BY <1>1, BookingOpens, BookedRow DEF BookInv, Unbooked, Opening
  <2> QED BY <1>1, <2>1, BookedRow
<1>2. ASSUME NEW t \in Task, Booking(t), ~Books(t) PROVE rows'[e].mode = rows[e].mode
  BY <1>2, AddKeepsStatus DEF Booking, Books
<1>3. CASE ~ \E t \in Task : Booking(t)
  BY <1>3, RowFields
<1> QED BY <1>1, <1>2, <1>3

(* What a task holds is a position of its subscription, on its market and   *)
(* in its mode: nothing a restart, a mode change or another task moves.     *)
HeldOurs ==
  \A t \in Task : task[t].held # None =>
    /\ task[t].pc \in Acting
    /\ event[task[t].held].sub = Ev(t).sub
    /\ event[task[t].held].coin = Ev(t).coin
    /\ rows[task[t].held].mode = task[t].mode

(* Nobody else moves a task: a delivery starts it, a restart ends it.       *)
LEMMA OthersLeave ==
  ASSUME TypeInv, [Next]_vars, NEW u \in Task, ~TaskStep(u)
  PROVE  \/ task'[u] = task[u]
         \/ /\ task[u].pc = "idle" /\ task'[u].pc = "start"
            /\ task'[u].held = task[u].held /\ task'[u].oids = task[u].oids
         \/ Restart /\ task'[u] = Fresh("lost", 1, "live", "active")
<1>0. task \in [Task -> TaskRec]
  BY DEF TypeInv, TypeOK
<1>1. ASSUME NEW t \in Task, TaskStep(t) PROVE task'[u] = task[u]
  BY <1>1, StepShape
<1>2. ASSUME NEW s \in Subs, NEW c \in Coins, NEW e \in Events,
             NEW new \in -MaxLead..MaxLead, LeaderTrade(s, c, e, new), task'[u] # task[u]
      PROVE  /\ task[u].pc = "idle" /\ task'[u].pc = "start"
             /\ task'[u].held = task[u].held /\ task'[u].oids = task[u].oids
  <2>1. event[e] = None /\ task' = Goto(<<e, 1>>, "start")
    BY <1>2 DEF LeaderTrade
  <2>2. u = <<e, 1>> /\ u[1] = e
    BY <1>0, <1>2, <2>1 DEF Goto
  <2>3. /\ task'[u].pc = "start"
        /\ task'[u].held = task[u].held /\ task'[u].oids = task[u].oids
    BY <1>0, <2>1, <2>2 DEF Goto, TaskRec
  <2> QED BY <2>1, <2>2, <2>3 DEF TypeInv, WellFormed, At
<1>3. ASSUME NEW t \in Task, Redeliver(t), task'[u] # task[u]
      PROVE  /\ task[u].pc = "idle" /\ task'[u].pc = "start"
             /\ task'[u].held = task[u].held /\ task'[u].oids = task[u].oids
  <2>1. At(t, "idle") /\ task' = Goto(t, "start")
    BY <1>3 DEF Redeliver
  <2> QED BY <1>0, <1>3, <2>1 DEF Goto, At, TaskRec
<1>4. CASE Restart
  BY <1>0, <1>4 DEF Restart
<1>5. CASE SweepStep \/ RouterStep \/ AccountStep \/ UNCHANGED vars
  BY <1>5 DEF SweepStep, SweepFrame, RouterStep, AccountStep, vars
<1> QED BY <1>1, <1>2, <1>3, <1>4, <1>5 DEF Next

(* Nobody else moves a task that holds a position and leaves it that.       *)
LEMMA HolderStands ==
  ASSUME TypeInv, HeldOurs, [Next]_vars, NEW u \in Task, ~TaskStep(u), task'[u].held # None
  PROVE  task'[u] = task[u]
<1>1. task[u].pc = "idle" => task[u].held = None
  BY DEF HeldOurs, Acting
<1> QED BY <1>1, OthersLeave DEF Fresh

(* A task takes hold of a position when it looks at the rows.               *)
LEMMA HoldsOn ==
  ASSUME TypeInv, HeldOurs, NEW u \in Task, TaskStep(u), ~ReadHeld(u), task'[u].held # None
  PROVE  /\ task'[u].held = task[u].held /\ task'[u].mode = task[u].mode
         /\ task'[u].pc \in Acting /\ task[u].held # None
<1>0. task \in [Task -> TaskRec] /\ task[u] \in TaskRec
  BY DEF TypeInv, TypeOK
<1>1. CASE Advances(u)
  BY <1>1 DEF Advances, Edge, Acting
<1>2. CASE Queues(u)
  <2>1. task[u].pc \notin Acting
    BY <1>2 DEF Queues, ReadSubs, Acquire, Release, At, Acting
  <2>2. task[u].held = None
    BY <2>1 DEF HeldOurs
  <2>3. task'[u].held \in {None, task[u].held}
    BY <1>0, <1>2 DEF Queues, ReadSubs, Acquire, Release, Goto, Fresh, TaskRec
  <2> QED BY <2>2, <2>3
<1> QED BY <1>1, <1>2, StepShape DEF Leaves

(* What a task holds stays its own. *)
LEMMA HeldStep ==
  TypeInv /\ RowInv /\ BookInv /\ HeldOurs /\ [Next]_vars => HeldOurs'
<1> SUFFICES ASSUME TypeInv, RowInv, BookInv, HeldOurs, [Next]_vars,
                    NEW u \in Task, task'[u].held # None
             PROVE  /\ task'[u].pc \in Acting
                    /\ event'[task'[u].held].sub = Ev(u)'.sub
                    /\ event'[task'[u].held].coin = Ev(u)'.coin
                    /\ rows'[task'[u].held].mode = task'[u].mode
  BY DEF HeldOurs
<1>0. task \in [Task -> TaskRec] /\ task[u] \in TaskRec
  BY DEF TypeInv, TypeOK
<1>1. CASE ~(TaskStep(u) /\ ReadHeld(u))
  <2> DEFINE h == task[u].held
  <2>1. task'[u].held = h /\ task'[u].mode = task[u].mode /\ task'[u].pc \in Acting /\ h # None
    BY <1>1, HolderStands, HoldsOn DEF HeldOurs
  <2>2. h \in Events /\ rows[h].status # "none" /\ event[h] # None
    BY <1>0, <2>1 DEF TaskRec, RowInv, HeldBooked, TypeInv, WellFormed
  <2>3. event'[h] = event[h] /\ rows'[h].mode = rows[h].mode
    BY <2>2, EventsStay, ModesStay
  <2>4. Ev(u)' = Ev(u)
    <3>1. event[u[1]] # None /\ u[1] \in Events
      BY <2>1 DEF HeldOurs, Acting, TypeInv, WellFormed, At, Task
    <3> QED BY <3>1, EventsStay DEF Ev
  <2> QED BY <2>1, <2>3, <2>4 DEF HeldOurs
<1>2. ASSUME ReadHeld(u), TaskStep(u)
      PROVE  /\ task'[u].pc \in Acting
             /\ event'[task'[u].held].sub = Ev(u)'.sub
             /\ event'[task'[u].held].coin = Ev(u)'.coin
             /\ rows'[task'[u].held].mode = task'[u].mode
  <2>1. UNCHANGED <<rows, event>> /\ task'[u].held \in HeldNow(u)
        /\ task'[u].mode = task[u].mode /\ task'[u].pc = "claim"
    BY <1>2, ReadHeldShape DEF TaskStep
  <2> QED BY <2>1 DEF HeldNow, HeldRows, OpenRows, Ev, Acting
<1> QED BY <1>1, <1>2

(* At the start no task holds anything. *)
LEMMA HeldInit == Init => HeldOurs
  BY DEF Init, HeldOurs, NoTask, Fresh

-----------------------------------------------------------------------------
(* The margin of a subscription.  It is counted at the gates and booked     *)
(* several awaits later; under the lock there is still room for it then.    *)
Filling == {"opening", "arm", "record"}

MarginsNat == \A e \in Events : rows[e].margin \in Nat
FillFits   == \A t \in Task : task[t].pc \in Filling =>
                task[t].fs \in Nat /\ task[t].fs <= EntryLots(t)
MarginLeft ==
  \A t \in Task : task[t].pc \in Opening =>
    /\ EntryLots(t) \in Nat
    /\ MarginInUse(Ev(t).sub, task[t].mode) + EntryLots(t) <= Allocation

MarginInv == MarginsNat /\ FillFits /\ MarginLeft /\ MarginWithinAllocation

(* Our share of the leader's change is never negative. *)
LEMMA ScaledChangeNat ==
  ASSUME NEW ours \in Int, NEW move \in Nat, NEW prev \in Nat
  PROVE  ScaledChange(ours, move, prev) \in Nat
<1> DEFINE n == Least(move, prev)
<1>1. n \in Nat
  BY DEF Least
<1> HIDE DEF n
<1>2. CASE prev > 0 /\ ours > 0
  <2> DEFINE m == ours * n
  <2>1. m \in Nat
    BY <1>1, <1>2
  <2> HIDE DEF m
  <2>2. m \div prev \in Nat
    BY <1>2, <2>1
  <2> QED BY <1>2, <2>2 DEF ScaledChange, n, m
<1>3. CASE prev <= 0 \/ ours <= 0
  BY <1>3 DEF ScaledChange
<1> QED BY <1>2, <1>3

(* An entry asks for no negative size. *)
LEMMA EntryLotsNat ==
  ASSUME TypeInv, NEW t \in Task, task[t].pc \in Acting
  PROVE  EntryLots(t) \in Nat
<1>1. CurAct(t) \in Action /\ task[t].size \in Int
  BY ActionType DEF TypeInv, TypeOK, TaskRec
<1> QED BY <1>1, ScaledChangeNat, ConstantsOK DEF EntryLots, Action

(* What an entry asks for is the same after a step that leaves its action.  *)
LEMMA SameLots ==
  ASSUME TypeInv, [Next]_vars, NEW u \in Task, task[u].pc # "idle",
         task'[u].act = task[u].act, task'[u].size = task[u].size
  PROVE  EntryLots(u)' = EntryLots(u)
<1>1. event'[u[1]] = event[u[1]]
  BY EventsStay DEF TypeInv, WellFormed, At, Task
<1> QED BY <1>1 DEF Ev, KindOf, CurAct, ActsOf, EntryLots

(* An order answers with no more than what was asked for.                   *)
LEMMA OutcomesFit ==
  ASSUME NEW size \in Nat, NEW partial, NEW o \in Outcomes(size, size, partial)
  PROVE  o.fs \in Nat /\ o.fs <= size
BY DEF Outcomes, Least

(* An entry on its way keeps what it works with, and what fills fits. *)
LEMMA EntryMoves ==
  ASSUME TypeInv, NEW t \in Task, TaskStep(t), task'[t].pc \in Opening
  PROVE  /\ task'[t].act = task[t].act /\ task'[t].mode = task[t].mode
         /\ task'[t].held = task[t].held /\ task'[t].size = task[t].size
         /\ task[t].pc \in Acting /\ task[t].pc \in {"entry"} \cup Opening
         /\ GatePass(t) \/ task[t].pc \in Opening
         /\ task'[t].pc \in Filling =>
              \/ task[t].pc \in Filling /\ task'[t].fs = task[t].fs
              \/ task'[t].fs \in Nat /\ task'[t].fs <= EntryLots(t)
<1>0. task \in [Task -> TaskRec] /\ task[t] \in TaskRec
  BY DEF TypeInv, TypeOK
<1>1. GatePass(t) \/ (task[t].pc \in Opening /\ ~GatePass(t))
  BY PlacePassed DEF Opening
<1>2. CASE GatePass(t)
  BY <1>0, <1>2 DEF GatePass, Goto, At, TaskRec, Acting, Opening, Filling
<1>3. CASE task[t].pc \in Opening
  <2>1. ShadowEntry(t) \/ OpenOrder(t) \/ OpenAnswer(t) \/ Arm(t) \/ Record(t)
    BY <1>3 DEF TaskStep, ExitStep, EntryStep, ReadSubs, Acquire, Release, Seen, Drop,
       ReadHeld, Claim, SkipExit, ShadowExit, CloseOrder, CloseAnswer, Unarm, Settle,
       FinishExit, SkipEntry, GateSkip, GateLoss, GatePass, FinishEntry,
       CheckPause, Working, At, Opening
  <2>2. EntryLots(t) \in Nat
    BY <1>3, EntryLotsNat DEF Opening, Acting
  <2>3. CASE ShadowEntry(t)
    <3>1. /\ task'[t].act = task[t].act /\ task'[t].mode = task[t].mode
          /\ task'[t].held = task[t].held /\ task'[t].size = task[t].size
          /\ task'[t].fs = EntryLots(t)
      BY <1>0, <2>3 DEF ShadowEntry, TaskRec
    <3> QED BY <1>3, <2>2, <3>1 DEF Opening, Acting
  <2>4. CASE OpenOrder(t)
    <3>1. PICK o \in Outcomes(EntryLots(t), EntryLots(t), "partial") :
            task' = [task EXCEPT ![t].pc = "opening", ![t].res = o.res, ![t].fs = o.fs]
      BY <2>4 DEF OpenOrder
    <3>2. /\ task'[t].act = task[t].act /\ task'[t].mode = task[t].mode
          /\ task'[t].held = task[t].held /\ task'[t].size = task[t].size
          /\ task'[t].fs = o.fs
      BY <1>0, <3>1 DEF TaskRec
    <3>3. o.fs \in Nat /\ o.fs <= EntryLots(t)
      BY <2>2, <3>1, OutcomesFit
    <3> QED BY <1>3, <3>2, <3>3 DEF Opening, Acting
  <2>5. CASE OpenAnswer(t)
    <3>1. task[t].res = "filled"
      <4>1. ASSUME task' = Goto(t, "check") PROVE task'[t].pc = "check"
        BY <1>0, <4>1 DEF Goto, TaskRec
      <4> QED BY <2>5, <4>1 DEF OpenAnswer, Opening
    <3>2. PICK p : task' = Goto(t, p)
      BY <2>5, <3>1 DEF OpenAnswer
    <3>3. /\ task'[t].act = task[t].act /\ task'[t].mode = task[t].mode
          /\ task'[t].held = task[t].held /\ task'[t].size = task[t].size
          /\ task'[t].fs = task[t].fs
      BY <1>0, <3>2 DEF Goto, TaskRec
    <3> QED BY <1>3, <2>5, <3>3 DEF OpenAnswer, At, Opening, Acting, Filling
  <2>6. CASE Arm(t)
    <3>1. /\ task'[t].act = task[t].act /\ task'[t].mode = task[t].mode
          /\ task'[t].held = task[t].held /\ task'[t].size = task[t].size
          /\ task'[t].fs = task[t].fs
      BY <1>0, <2>6 DEF Arm, TaskRec
    <3> QED BY <1>3, <2>6, <3>1 DEF Arm, At, Opening, Acting, Filling
  <2>7. CASE Record(t)
    BY <1>0, <2>7 DEF Record, Goto, Opening, TaskRec
  <2> QED BY <2>1, <2>3, <2>4, <2>5, <2>6, <2>7
<1> QED BY <1>1, <1>2, <1>3

(* What is in use is an integer, before and after a step. *)
LEMMA MarginType ==
  ASSUME TypeInv, TypeOK', NEW s, NEW m
  PROVE  /\ MarginInUse(s, m) \in Int /\ MarginInUse(s, m)' \in Int
         /\ IsFiniteSet(OpenRows(s, m)) /\ IsFiniteSet(OpenRows(s, m)')
<1>1. /\ OpenRows(s, m) \in SUBSET Events /\ OpenRows(s, m)' \in SUBSET Events
      /\ IsFiniteSet(OpenRows(s, m)) /\ IsFiniteSet(OpenRows(s, m)')
  BY ConstantsOK, FS_Subset DEF OpenRows
<1>2. \A e \in Events : Margins[e] \in Int /\ Margins'[e] \in Int
  <2>1. \A e \in Events : rows[e] \in RowRec /\ rows'[e] \in RowRec
    BY DEF TypeInv, TypeOK
  <2>2. \A e \in Events : Margins[e] = rows[e].margin /\ Margins'[e] = rows'[e].margin
    BY DEF Margins, MarginsOf
  <2> QED BY <2>1, <2>2 DEF RowRec
<1>3. Total(Margins, OpenRows(s, m)) \in Int /\ Total(Margins', OpenRows(s, m)') \in Int
  BY <1>1, <1>2, TotalType
<1> QED BY <1>1, <1>3, MarginIsTotal

(* The task that books an add rewrites a row of its subscription and mode.  *)
LEMMA AddsToOurs ==
  ASSUME TypeInv, HeldOurs, RowInv, NEW t \in Task, Booking(t), ~Books(t)
  PROVE  /\ KindOf(t) = "add" /\ task[t].pc = "record" /\ UNCHANGED event
         /\ task[t].held # None =>
              /\ task[t].held \in Events /\ event[task[t].held].sub = Ev(t).sub
              /\ rows[task[t].held].mode = task[t].mode
  BY DEF Booking, Books, TaskStep, Record, At, HeldOurs, TypeInv, TypeOK, TaskRec

(* The margin in use grows with a booking of its subscription and mode only. *)
LEMMA MarginKept ==
  ASSUME TypeInv, TypeOK', RowInv, BookInv, HeldOurs, MarginsNat, MarginsNat', [Next]_vars,
         NEW s, NEW m,
         ~ \E t \in Task : Booking(t) /\ s = Ev(t).sub /\ m = task[t].mode
  PROVE  MarginInUse(s, m)' <= MarginInUse(s, m)
<1>1. OpenRows(s, m)' \subseteq OpenRows(s, m)
  <2>1. CASE ~ \E t \in Task : Books(t)
    BY <2>1, RowsMove, ShrinkFewer, EventsStay DEF RowInv
  <2>2. ASSUME NEW t \in Task, Books(t) PROVE OpenRows(s, m)' \subseteq OpenRows(s, m)
    BY <2>2, BooksOne DEF Booking, Books
  <2> QED BY <2>1, <2>2
<1>2. ASSUME NEW e \in OpenRows(s, m)' PROVE rows'[e].margin = rows[e].margin
  <2>0. e \in OpenRows(s, m) /\ e \in Events
    BY <1>1 DEF OpenRows
  <2>1. ASSUME NEW t \in Task, Books(t) PROVE rows'[e].margin = rows[e].margin
    <3>1. e # t[1]
      BY <1>2, <2>1, BookedRow DEF OpenRows, Ev, Booking, Books
    <3> QED BY <2>0, <2>1, <3>1, BookedRow
  <2>2. ASSUME NEW t \in Task, Booking(t), ~Books(t) PROVE rows'[e].margin = rows[e].margin
    <3>1. e # task[t].held
      BY <2>0, <2>2, AddsToOurs, ConstantsOK DEF OpenRows
    <3> QED BY <2>0, <2>2, <3>1, AddsToOurs, AddedRow DEF Booking
  <2>3. CASE ~ \E t \in Task : Booking(t)
    BY <2>0, <2>3, RowFields
  <2> QED BY <2>1, <2>2, <2>3
<1>3. /\ \A e \in OpenRows(s, m) : Margins[e] \in Nat
      /\ \A e \in OpenRows(s, m)' : Margins'[e] \in Nat /\ Margins'[e] <= Margins[e]
  BY <1>1, <1>2 DEF MarginsNat, Margins, MarginsOf, OpenRows
<1>4. Total(Margins', OpenRows(s, m)') <= Total(Margins, OpenRows(s, m))
  BY <1>1, <1>3, MarginType, TotalLess
<1> QED BY <1>4, MarginIsTotal

(* A booking adds what filled, to its subscription and mode. *)
LEMMA MarginBooked ==
  ASSUME TypeInv, TypeOK', RowInv, BookInv, HeldOurs, MarginsNat, MarginsNat', [Next]_vars,
         NEW t \in Task, Booking(t), task[t].fs \in Nat,
         NEW s, NEW m, s = Ev(t).sub, m = task[t].mode
  PROVE  MarginInUse(s, m)' <= MarginInUse(s, m) + task[t].fs
<1> DEFINE x == IF Books(t) THEN t[1] ELSE task[t].held
           d == task[t].fs
<1>1. OpenRows(s, m)' \subseteq OpenRows(s, m) \cup {x}
  <2>1. CASE Books(t)
    BY <2>1, BooksOne
  <2>2. CASE ~Books(t)
    <3>1. ASSUME NEW u \in Task PROVE ~Books(u)
      BY <2>2, <3>1, BookedRow, StepShape DEF Booking, Books, Record, At, Goto, TypeInv, TypeOK, TaskRec
    <3> QED BY <3>1, RowsMove, ShrinkFewer, EventsStay DEF RowInv
  <2> QED BY <2>1, <2>2
<1>2. ASSUME NEW e \in OpenRows(s, m)', e # x
      PROVE  rows'[e].margin = rows[e].margin
  <2>0. e \in Events
    BY DEF OpenRows
  <2>1. CASE Books(t)
    BY <1>2, <2>0, <2>1, BookedRow
  <2>2. CASE ~Books(t)
    BY <1>2, <2>0, <2>2, AddsToOurs, AddedRow DEF Booking
  <2> QED BY <2>1, <2>2
<1>3. ASSUME x \in OpenRows(s, m)'
      PROVE  rows'[x].margin <= d + (IF x \in OpenRows(s, m) THEN rows[x].margin ELSE 0)
  <2>1. CASE Books(t)
    <3>1. rows'[x].margin = d /\ x \in Events
      BY <2>1, OpenedRow, BookedRow
    <3>2. rows[x].margin \in Nat
      BY <3>1 DEF MarginsNat
    <3> HIDE DEF x
    <3> QED BY <3>1, <3>2
  <2>2. CASE ~Books(t)
    <3>1. x \in OpenRows(s, m)
      <4>1. x \in Events /\ rows'[x].status = "open" /\ rows'[x].mode = m
            /\ event'[x] # None /\ event'[x].sub = s
        BY <1>3 DEF OpenRows
      <4>2. rows'[x].status = rows[x].status /\ rows'[x].mode = rows[x].mode /\ UNCHANGED event
        BY <2>2, <4>1, AddsToOurs, AddedRow DEF Booking
      <4> QED BY <4>1, <4>2 DEF OpenRows
    <3>2. x \in Events /\ rows'[x].margin = rows[x].margin + d
      BY <2>2, <3>1, AddsToOurs, AddedRow DEF Booking, OpenRows
    <3>3. rows[x].margin \in Nat
      BY <3>2 DEF MarginsNat
    <3> HIDE DEF x
    <3> QED BY <3>1, <3>2, <3>3
  <2> QED BY <2>1, <2>2
<1> HIDE DEF x
<1>4. /\ \A e \in OpenRows(s, m) : Margins[e] \in Nat
      /\ \A e \in OpenRows(s, m)' : Margins'[e] \in Nat
      /\ \A e \in OpenRows(s, m)' \ {x} : Margins'[e] <= Margins[e]
      /\ x \in OpenRows(s, m)' =>
           Margins'[x] <= d + (IF x \in OpenRows(s, m) THEN Margins[x] ELSE 0)
  <2>1. \A e \in Events : Margins[e] = rows[e].margin /\ Margins'[e] = rows'[e].margin
    BY DEF Margins, MarginsOf
  <2>2. OpenRows(s, m) \subseteq Events /\ OpenRows(s, m)' \subseteq Events
    BY DEF OpenRows
  <2>3. \A e \in Events : rows[e].margin \in Nat /\ rows'[e].margin \in Nat
    BY DEF MarginsNat
  <2> QED BY <1>2, <1>3, <2>1, <2>2, <2>3
<1>5. Total(Margins', OpenRows(s, m)') <= Total(Margins, OpenRows(s, m)) + d
  BY <1>1, <1>4, MarginType, TotalGrows
<1> QED BY <1>5, MarginIsTotal

(* A booked margin is what filled. *)
LEMMA MarginsNatStep ==
  TypeInv /\ RowInv /\ HeldOurs /\ MarginsNat /\ FillFits /\ [Next]_vars => MarginsNat'
<1> SUFFICES ASSUME TypeInv, RowInv, HeldOurs, MarginsNat, FillFits, [Next]_vars,
                    NEW e \in Events
             PROVE  rows'[e].margin \in Nat
  BY DEF MarginsNat
<1>0. rows[e].margin \in Nat
  BY DEF MarginsNat
<1>1. ASSUME NEW t \in Task, Booking(t) PROVE rows'[e].margin \in Nat
  <2>1. task[t].fs \in Nat
    BY <1>1 DEF Booking, Record, At, FillFits, Filling
  <2>2. CASE Books(t)
    <3>1. CASE e = t[1]
      BY <2>1, <2>2, <3>1, OpenedRow
    <3>2. CASE e # t[1]
      BY <1>0, <2>2, <3>2, BookedRow
    <3> QED BY <3>1, <3>2
  <2>3. CASE ~Books(t)
    <3>1. CASE e = task[t].held
      BY <1>0, <1>1, <2>1, <2>3, <3>1, AddsToOurs, AddedRow DEF Booking
    <3>2. CASE e # task[t].held
      BY <1>0, <1>1, <2>3, <3>2, AddsToOurs, AddedRow DEF Booking
    <3> QED BY <3>1, <3>2
  <2> QED BY <2>2, <2>3
<1>2. CASE ~ \E t \in Task : Booking(t)
  BY <1>0, <1>2, RowFields
<1> QED BY <1>1, <1>2

(* An entry that is on its way after a step was so before, with the same    *)
(* event, mode and lots, or passes the gates now; nobody else of its        *)
(* subscription books, nor does it.                                         *)
LEMMA EntryOnItsWay ==
  ASSUME TypeInv, RowInv, HeldOurs, [Next]_vars, NEW u \in Task, task'[u].pc \in Opening
  PROVE  /\ Ev(u)' = Ev(u) /\ task'[u].mode = task[u].mode
         /\ EntryLots(u)' = EntryLots(u) /\ EntryLots(u) \in Nat
         /\ task[u].pc \in Opening \/ GatePass(u)
         /\ task'[u].pc \in Filling =>
              \/ task[u].pc \in Filling /\ task'[u].fs = task[u].fs
              \/ task'[u].fs \in Nat /\ task'[u].fs <= EntryLots(u)
         /\ ~ \E t \in Task : Booking(t) /\ Ev(t).sub = Ev(u).sub
<1>0. task \in [Task -> TaskRec] /\ Inside(u)'
  BY DEF TypeInv, TypeOK, Inside, Opening, Acting
<1>1. /\ task'[u].act = task[u].act /\ task'[u].mode = task[u].mode
      /\ task'[u].size = task[u].size /\ task[u].pc \in Acting
      /\ task[u].pc \in Opening \/ GatePass(u)
      /\ task'[u].pc \in Filling =>
              \/ task[u].pc \in Filling /\ task'[u].fs = task[u].fs
              \/ task'[u].fs \in Nat /\ task'[u].fs <= EntryLots(u)
  <2>1. CASE TaskStep(u)
    BY <2>1, EntryMoves
  <2>2. CASE ~TaskStep(u)
    <3>1. task'[u] = task[u]
      BY <1>0, <2>2, OthersStand
    <3> QED BY <3>1 DEF Opening, Acting
  <2> QED BY <2>1, <2>2
<1>2. EntryLots(u) \in Nat /\ EntryLots(u)' = EntryLots(u) /\ Ev(u)' = Ev(u)
  BY <1>1, EntryLotsNat, SameLots, SameTask DEF Acting
<1>3. ASSUME NEW t \in Task, Booking(t), Ev(t).sub = Ev(u).sub PROVE FALSE
  <2>1. Inside(t) /\ Inside(u)
    BY <1>1, <1>3 DEF Booking, Record, At, Inside, Acting
  <2>2. t = u
    BY <1>3, <2>1, OneInside DEF RowInv
  <2>3. task'[t].pc = "booked"
    BY <1>0, <1>3 DEF Booking, Record, Goto, TaskRec
  <2> QED BY <2>2, <2>3 DEF Opening
<1> QED BY <1>1, <1>2, <1>3

(* Every step keeps the margin of every subscription within its allocation. *)
LEMMA MarginStep ==
  TypeInv /\ TypeOK' /\ RowInv /\ BookInv /\ HeldOurs /\ MarginInv /\ [Next]_vars => MarginInv'
<1> SUFFICES ASSUME TypeInv, TypeOK', RowInv, BookInv, HeldOurs, MarginInv, [Next]_vars
             PROVE  MarginInv'
  OBVIOUS
<1>0. MarginsNat /\ MarginsNat' /\ Allocation \in Nat
  BY MarginsNatStep, ConstantsOK DEF MarginInv
<1>1. FillFits'
  <2>1. ASSUME NEW u \in Task, task'[u].pc \in Filling
        PROVE  task'[u].fs \in Nat /\ task'[u].fs <= EntryLots(u)'
    <3>1. task'[u].pc \in Opening
      BY <2>1 DEF Filling, Opening
    <3> QED BY <2>1, <3>1, EntryOnItsWay DEF MarginInv, FillFits
  <2> QED BY <2>1 DEF FillFits
<1>2. MarginLeft'
  <2>1. ASSUME NEW u \in Task, task'[u].pc \in Opening
        PROVE  /\ EntryLots(u)' \in Nat
               /\ (MarginInUse(Ev(u).sub, task[u].mode) + EntryLots(u) <= Allocation)'
    <3> DEFINE s == Ev(u).sub
               m == task[u].mode
               n == EntryLots(u)
    <3>1. /\ Ev(u)' = Ev(u) /\ task'[u].mode = task[u].mode /\ n' = n /\ n \in Nat
          /\ ~ \E t \in Task : Booking(t) /\ s = Ev(t).sub /\ m = task[t].mode
      BY <2>1, EntryOnItsWay
    <3>2. MarginInUse(s, m) + n <= Allocation
      <4>1. CASE task[u].pc \in Opening
        BY <4>1 DEF MarginInv, MarginLeft
      <4>2. CASE GatePass(u)
        <5>1. ~(MarginInUse(s, m) + n > Allocation)
          BY <4>2 DEF GatePass, NoRoom
        <5>2. MarginInUse(s, m) \in Int
          BY MarginType
        <5> QED BY <1>0, <3>1, <5>1, <5>2
      <4> QED BY <2>1, <4>1, <4>2, EntryOnItsWay
    <3>3. \A r, k : r = s /\ k = m => MarginInUse(r, k)' <= MarginInUse(r, k)
      BY <1>0, <3>1, MarginKept
    <3>4. \A r, k : MarginInUse(r, k) \in Int /\ MarginInUse(r, k)' \in Int
      BY MarginType
    <3>5. \A r, k : r = s /\ k = m => MarginInUse(r, k)' + n <= Allocation
      BY <1>0, <3>1, <3>2, <3>3, <3>4
    <3> QED BY <3>1, <3>5
  <2> QED BY <2>1 DEF MarginLeft
<1>3. MarginWithinAllocation'
  <2>1. ASSUME NEW s \in Subs, NEW m \in Mode PROVE MarginInUse(s, m)' <= Allocation
    <3>1. MarginInUse(s, m) <= Allocation
      BY DEF MarginInv, MarginWithinAllocation
    <3>2. CASE ~ \E t \in Task : Booking(t) /\ s = Ev(t).sub /\ m = task[t].mode
      <4>1. MarginInUse(s, m)' <= MarginInUse(s, m)
        BY <1>0, <3>2, MarginKept
      <4> QED BY <1>0, <3>1, <4>1, MarginType
    <3>3. ASSUME NEW t \in Task, Booking(t), s = Ev(t).sub, m = task[t].mode
          PROVE  MarginInUse(s, m)' <= Allocation
      <4>1. /\ task[t].fs \in Nat /\ task[t].fs <= EntryLots(t) /\ EntryLots(t) \in Nat
            /\ MarginInUse(s, m) + EntryLots(t) <= Allocation
        BY <3>3 DEF Booking, Record, At, Filling, Opening, MarginInv, FillFits, MarginLeft
      <4>2. MarginInUse(s, m)' <= MarginInUse(s, m) + task[t].fs
        BY <1>0, <3>3, <4>1, MarginBooked
      <4> QED BY <1>0, <4>1, <4>2, MarginType
    <3> QED BY <3>2, <3>3
  <2> QED BY <2>1 DEF MarginWithinAllocation
<1> QED BY <1>0, <1>1, <1>2, <1>3 DEF MarginInv

(* At the start nothing is in use. *)
LEMMA MarginInit == Init => MarginInv
<1> SUFFICES ASSUME Init PROVE MarginInv
  OBVIOUS
<1>1. MarginsNat /\ FillFits /\ MarginLeft
  BY DEF Init, MarginsNat, FillFits, MarginLeft, NoRow, NoTask, Fresh, Filling, Opening
<1>2. ASSUME NEW s, NEW m PROVE MarginInUse(s, m) = 0
  <2>1. OpenRows(s, m) = {}
    BY DEF Init, OpenRows, NoRow
  <2>2. Total(Margins, {}) = 0
    BY TotalRule, FS_EmptySet
  <2> QED BY <2>1, <2>2, MarginIsTotal
<1>3. MarginWithinAllocation
  BY <1>2, ConstantsOK DEF MarginWithinAllocation
<1> QED BY <1>1, <1>3 DEF MarginInv

(* The two limits a follower sets on a subscription hold, whatever its      *)
(* tasks, partial fills, restarts, sweeps and mode changes do: never more   *)
(* than max_positions open copies, never more margin in them than the       *)
(* allocation, for every choice of the constants.                           *)
THEOREM LimitsAreKept == Spec => []LimitsKept
<1>1. MaxInv /\ MarginInv => LimitsKept
  BY DEF MaxInv, MarginInv, LimitsKept
<1>2. TypeInv /\ [Next]_vars => TypeOK'
  BY NextType DEF TypeInv
<1> QED BY <1>1, <1>2, InitType, NextType, OnceInit, OnceStep, RowInit, RowStep, BookInit,
           BookStep, MaxInit, MaxStep, HeldInit, HeldStep, MarginInit, MarginStep, PTL DEF Spec

-----------------------------------------------------------------------------
(* How a task comes to a point of an action.                                *)

OrderPoints == {"opening", "arm", "record", "booked", "closing", "unarm", "settle"}

(* The step before a point with an order behind it.                         *)
LEMMA ComesBy ==
  ASSUME TypeInv, NEW t \in Task, TaskStep(t)
  PROVE  /\ task'[t].pc \in OrderPoints => Advances(t) /\ task[t].pc \in Acting
         /\ task'[t].pc = "opening" => OpenOrder(t)
         /\ task'[t].pc = "arm"     => OpenAnswer(t)
         /\ task'[t].pc = "record"  => ShadowEntry(t) \/ OpenAnswer(t) \/ Arm(t)
         /\ task'[t].pc = "booked"  => Record(t)
         /\ task'[t].pc = "closing" => CloseOrder(t)
         /\ task'[t].pc = "unarm"   => CloseAnswer(t)
         /\ task'[t].pc = "settle"  => ShadowExit(t) \/ CloseAnswer(t) \/ Unarm(t)
<1> SUFFICES ASSUME task'[t].pc \in OrderPoints
             PROVE  /\ Advances(t) /\ task[t].pc \in Acting
                    /\ task'[t].pc = "opening" => OpenOrder(t)
                    /\ task'[t].pc = "arm"     => OpenAnswer(t)
                    /\ task'[t].pc = "record"  => ShadowEntry(t) \/ OpenAnswer(t) \/ Arm(t)
                    /\ task'[t].pc = "booked"  => Record(t)
                    /\ task'[t].pc = "closing" => CloseOrder(t)
                    /\ task'[t].pc = "unarm"   => CloseAnswer(t)
                    /\ task'[t].pc = "settle"  => ShadowExit(t) \/ CloseAnswer(t) \/ Unarm(t)
  BY DEF OrderPoints
<1>0. task \in [Task -> TaskRec] /\ task[t] \in TaskRec
  BY DEF TypeInv, TypeOK
<1>1. Advances(t)
  <2>1. CASE Queues(t)
    BY <1>0, <2>1 DEF Queues, ReadSubs, Acquire, Release, Goto, Fresh, TaskRec, OrderPoints
  <2>2. CASE ReadHeld(t)
    BY <2>2, ReadHeldShape DEF OrderPoints
  <2> QED BY <2>1, <2>2, StepShape DEF Leaves, OrderPoints
<1>2. \/ task[t].pc = "exit" /\ task'[t].pc \in {"settle", "closing"}
      \/ task[t].pc = "closing" /\ task'[t].pc \in {"unarm", "settle"}
      \/ task[t].pc = "unarm" /\ task'[t].pc = "settle"
      \/ task[t].pc = "place" /\ task'[t].pc \in {"record", "opening"}
      \/ task[t].pc = "opening" /\ task'[t].pc \in {"arm", "record"}
      \/ task[t].pc = "arm" /\ task'[t].pc = "record"
      \/ task[t].pc = "record" /\ task'[t].pc = "booked"
  BY <1>1 DEF Advances, Edge, OrderPoints
<1>3. \/ task[t].pc = "exit" /\ (SkipExit(t) \/ ShadowExit(t) \/ CloseOrder(t))
      \/ task[t].pc = "closing" /\ CloseAnswer(t)
      \/ task[t].pc = "unarm" /\ Unarm(t)
      \/ task[t].pc = "place" /\ (ShadowEntry(t) \/ OpenOrder(t))
      \/ task[t].pc = "opening" /\ OpenAnswer(t)
      \/ task[t].pc = "arm" /\ Arm(t)
      \/ task[t].pc = "record" /\ Record(t)
  <2>1. task[t].pc = "exit" => SkipExit(t) \/ ShadowExit(t) \/ CloseOrder(t)
    BY DEF TaskStep, ExitStep, EntryStep, ReadSubs, Acquire, Release,
         Seen, Drop, ReadHeld, Claim, SkipExit, ShadowExit, CloseOrder, CloseAnswer, Unarm,
         Settle, FinishExit, SkipEntry, GateSkip, GateLoss, GatePass, ShadowEntry, OpenOrder,
         OpenAnswer, Arm, Record, FinishEntry, CheckPause, Working, At
  <2>2. task[t].pc = "closing" => CloseAnswer(t)
    BY DEF TaskStep, ExitStep, EntryStep, ReadSubs, Acquire, Release,
         Seen, Drop, ReadHeld, Claim, SkipExit, ShadowExit, CloseOrder, CloseAnswer, Unarm,
         Settle, FinishExit, SkipEntry, GateSkip, GateLoss, GatePass, ShadowEntry, OpenOrder,
         OpenAnswer, Arm, Record, FinishEntry, CheckPause, Working, At
  <2>3. task[t].pc = "unarm" => Unarm(t)
    BY DEF TaskStep, ExitStep, EntryStep, ReadSubs, Acquire, Release,
         Seen, Drop, ReadHeld, Claim, SkipExit, ShadowExit, CloseOrder, CloseAnswer, Unarm,
         Settle, FinishExit, SkipEntry, GateSkip, GateLoss, GatePass, ShadowEntry, OpenOrder,
         OpenAnswer, Arm, Record, FinishEntry, CheckPause, Working, At
  <2>4. task[t].pc = "place" => ShadowEntry(t) \/ OpenOrder(t)
    BY DEF TaskStep, ExitStep, EntryStep, ReadSubs, Acquire, Release,
         Seen, Drop, ReadHeld, Claim, SkipExit, ShadowExit, CloseOrder, CloseAnswer, Unarm,
         Settle, FinishExit, SkipEntry, GateSkip, GateLoss, GatePass, ShadowEntry, OpenOrder,
         OpenAnswer, Arm, Record, FinishEntry, CheckPause, Working, At
  <2>5. task[t].pc = "opening" => OpenAnswer(t)
    BY DEF TaskStep, ExitStep, EntryStep, ReadSubs, Acquire, Release,
         Seen, Drop, ReadHeld, Claim, SkipExit, ShadowExit, CloseOrder, CloseAnswer, Unarm,
         Settle, FinishExit, SkipEntry, GateSkip, GateLoss, GatePass, ShadowEntry, OpenOrder,
         OpenAnswer, Arm, Record, FinishEntry, CheckPause, Working, At
  <2>6. task[t].pc = "arm" => Arm(t)
    BY DEF TaskStep, ExitStep, EntryStep, ReadSubs, Acquire, Release,
         Seen, Drop, ReadHeld, Claim, SkipExit, ShadowExit, CloseOrder, CloseAnswer, Unarm,
         Settle, FinishExit, SkipEntry, GateSkip, GateLoss, GatePass, ShadowEntry, OpenOrder,
         OpenAnswer, Arm, Record, FinishEntry, CheckPause, Working, At
  <2>7. task[t].pc = "record" => Record(t)
    BY DEF TaskStep, ExitStep, EntryStep, ReadSubs, Acquire, Release,
         Seen, Drop, ReadHeld, Claim, SkipExit, ShadowExit, CloseOrder, CloseAnswer, Unarm,
         Settle, FinishExit, SkipEntry, GateSkip, GateLoss, GatePass, ShadowEntry, OpenOrder,
         OpenAnswer, Arm, Record, FinishEntry, CheckPause, Working, At
  <2> QED BY <1>2, <2>1, <2>2, <2>3, <2>4, <2>5, <2>6, <2>7
<1>4. CASE task[t].pc = "exit"
  <2>1. ~SkipExit(t)
    BY <1>0, <1>2, <1>4 DEF SkipExit, Skip, NextAct, Fresh
  <2>2. ShadowExit(t) => task'[t].pc = "settle"
    BY <1>0 DEF ShadowExit, TaskRec
  <2>3. CloseOrder(t) => task'[t].pc = "closing"
    BY <1>0 DEF CloseOrder, TaskRec
  <2> QED BY <1>1, <1>2, <1>3, <1>4, <2>1, <2>2, <2>3 DEF Acting
<1>5. CASE task[t].pc = "place"
  <2>1. ShadowEntry(t) => task'[t].pc = "record"
    BY <1>0 DEF ShadowEntry, TaskRec
  <2>2. OpenOrder(t) => task'[t].pc = "opening"
    BY <1>0 DEF OpenOrder, TaskRec
  <2> QED BY <1>1, <1>2, <1>3, <1>5, <2>1, <2>2 DEF Acting
<1> QED BY <1>1, <1>2, <1>3, <1>4, <1>5 DEF Acting

(* What an exit asks for is the same while its action and its size are.     *)
LEMMA SameExit ==
  ASSUME TypeInv, [Next]_vars, NEW u \in Task, task[u].pc # "idle",
         task'[u].act = task[u].act, task'[u].size = task[u].size
  PROVE  ExitQty(u)' = ExitQty(u) /\ FullExit(u)' = FullExit(u)
<1>1. event'[u[1]] = event[u[1]]
  BY EventsStay DEF TypeInv, WellFormed, At, Task
<1> QED BY <1>1 DEF Ev, CurAct, ActsOf, ExitQty, FullExit

-----------------------------------------------------------------------------
(* What an order works on.                                                  *)

(* Oids are known to a live entry about to be booked, orders leave in live  *)
(* mode, only an open arms, a row of the shadow mode has no oids, and a     *)
(* close fills no more than was asked for.                                  *)
OidsLive   == \A t \in Task : task[t].oids # {} =>
                task[t].mode = "live" /\ task[t].pc \in {"record", "booked"}
LiveOrders == \A t \in Task : task[t].pc \in {"opening", "arm", "closing", "unarm"} =>
                task[t].mode = "live"
ArmOpens   == \A t \in Task : At(t, "arm") => Opens(t)
ShadowBare == \A e \in Events : rows[e].mode = "shadow" => rows[e].oids = {}
ClosingFits == \A t \in Task : At(t, "closing") => task[t].fs <= ExitQty(t)

OrderInv == OidsLive /\ LiveOrders /\ ArmOpens /\ ShadowBare /\ ClosingFits

(* Only arming makes oids known. *)
LEMMA OidsMove ==
  ASSUME TypeInv, NEW t \in Task, TaskStep(t), ~Arm(t)
  PROVE  task'[t].oids \in {task[t].oids, {}}
<1>0. task \in [Task -> TaskRec]
  BY DEF TypeInv, TypeOK
<1>1. CASE \E p : task' = Goto(t, p)
  BY <1>0, <1>1 DEF Goto, TaskRec
<1>2. CASE task' = NextAct(t) \/ task' = [NextAct(t) EXCEPT ![t].status = "paused"]
  BY <1>0, <1>2 DEF NextAct, Fresh
<1>3. CASE ReadSubs(t)
  BY <1>0, <1>3 DEF ReadSubs, Goto, TaskRec
<1>4. CASE ReadHeld(t)
  BY <1>0, <1>4 DEF ReadHeld, TaskRec
<1>5. CASE Release(t)
  BY <1>0, <1>5 DEF Release, Fresh
<1>6. CASE ShadowExit(t) \/ CloseOrder(t) \/ ShadowEntry(t) \/ OpenOrder(t)
  <2>1. CASE ShadowExit(t)
    BY <1>0, <2>1 DEF ShadowExit, TaskRec
  <2>2. CASE CloseOrder(t)
    BY <1>0, <2>2 DEF CloseOrder, TaskRec
  <2>3. CASE ShadowEntry(t)
    BY <1>0, <2>3 DEF ShadowEntry, TaskRec
  <2>4. CASE OpenOrder(t)
    BY <1>0, <2>4 DEF OpenOrder, TaskRec
  <2> QED BY <1>6, <2>1, <2>2, <2>3, <2>4
<1>7. \/ ReadSubs(t) \/ ReadHeld(t) \/ Release(t)
      \/ ShadowExit(t) \/ CloseOrder(t) \/ ShadowEntry(t) \/ OpenOrder(t)
      \/ \E p : task' = Goto(t, p)
      \/ task' = NextAct(t) \/ task' = [NextAct(t) EXCEPT ![t].status = "paused"]
  BY DEF TaskStep, ExitStep, EntryStep, Acquire, Seen, Drop, Claim, SkipExit, CloseAnswer,
     Unarm, Settle, FinishExit, SkipEntry, GateSkip, GateLoss, GatePass, OpenAnswer, Record,
     FinishEntry, CheckPause, Skip
<1> QED BY <1>1, <1>2, <1>3, <1>4, <1>5, <1>6, <1>7

(* An order fills no more than was asked for, or nothing. *)
LEMMA OutcomesLess ==
  ASSUME NEW size \in Int, NEW depth \in Int, NEW partial,
         NEW o \in Outcomes(size, depth, partial)
  PROVE  o.fs <= size \/ o.fs = 0
BY DEF Outcomes, Least

(* A close that was sent fills no more than it asked for. *)
LEMMA CloseFits ==
  ASSUME TypeInv, NEW t \in Task, CloseOrder(t)
  PROVE  /\ task'[t].fs <= ExitQty(t) /\ task'[t].size = task[t].size
         /\ task'[t].act = task[t].act /\ ExitQty(t) \in Int /\ task[t].size \in Int
<1>0. task \in [Task -> TaskRec] /\ task[t] \in TaskRec /\ task[t].size \in Int
  BY DEF TypeInv, TypeOK, TaskRec
<1>1. CurAct(t) \in Action /\ Ev(t).coin \in Coins
  BY ActionType DEF CloseOrder, At, Acting, EventRec
<1>2. ExitQty(t) \in Int /\ ExitQty(t) > 0
  <2>1. ExitQty(t) \in Int
    BY <1>0, <1>1, ExitSizeType DEF ExitQty
  <2> QED BY <2>1 DEF CloseOrder, ExitRefused
<1> DEFINE size  == IF FullExit(t) THEN task[t].size ELSE ExitQty(t)
           depth == OnVenue(Ev(t).coin, RowSide(task[t].held))
           part  == IF FullExit(t) THEN "partial_close" ELSE "partial"
<1>3. PICK o \in Outcomes(size, depth, part) :
        task' = [task EXCEPT ![t].pc = "closing", ![t].res = o.res, ![t].fs = o.fs]
  BY DEF CloseOrder
<1>4. size \in Int /\ size <= ExitQty(t) /\ depth \in Int
  <2>1. pos[Ev(t).coin] \in Int
    BY <1>1 DEF TypeInv, TypeOK
  <2> QED BY <1>0, <1>2, <2>1 DEF FullExit, OnVenue, Magnitude
<1> HIDE DEF size, depth, part
<1>5. o.fs <= size \/ o.fs = 0
  BY <1>3, <1>4, OutcomesLess
<1>6. o.fs \in Int
  BY <1>3, <1>4, OutcomesType
<1>7. task'[t].fs = o.fs /\ task'[t].size = task[t].size /\ task'[t].act = task[t].act
  BY <1>0, <1>3 DEF TaskRec
<1> QED BY <1>0, <1>2, <1>4, <1>5, <1>6, <1>7

(* Every step keeps what an order works on. *)
LEMMA OrderStep == TypeInv /\ RowInv /\ HeldOurs /\ OrderInv /\ [Next]_vars => OrderInv'
<1> SUFFICES ASSUME TypeInv, RowInv, HeldOurs, OrderInv, [Next]_vars PROVE OrderInv'
  OBVIOUS
<1>0. task \in [Task -> TaskRec]
  BY DEF TypeInv, TypeOK
<1>1. OidsLive'
  <2>1. ASSUME NEW u \in Task, task'[u].oids # {}
        PROVE  task'[u].mode = "live" /\ task'[u].pc \in {"record", "booked"}
    <3>1. CASE ~TaskStep(u)
      <4>1. task[u].pc = "idle" => task[u].oids = {}
        BY DEF OrderInv, OidsLive
      <4> QED BY <2>1, <3>1, <4>1, OthersLeave DEF Fresh, OrderInv, OidsLive
    <3>2. CASE TaskStep(u) /\ Arm(u)
      <4>1. task'[u].pc = "record" /\ task'[u].mode = task[u].mode
        BY <1>0, <3>2 DEF Arm, TaskRec
      <4> QED BY <3>2, <4>1 DEF Arm, At, OrderInv, LiveOrders
    <3>3. CASE TaskStep(u) /\ ~Arm(u)
      <4>1. task[u].oids # {}
        BY <2>1, <3>3, OidsMove
      <4>2. task[u].mode = "live" /\ task[u].pc \in {"record", "booked"}
        BY <4>1 DEF OrderInv, OidsLive
      <4>3. Record(u) \/ FinishEntry(u)
        BY <3>3, <4>2 DEF TaskStep, ExitStep, EntryStep, ReadSubs, Acquire, Release,
         Seen, Drop, ReadHeld, Claim, SkipExit, ShadowExit, CloseOrder, CloseAnswer, Unarm,
         Settle, FinishExit, SkipEntry, GateSkip, GateLoss, GatePass, ShadowEntry, OpenOrder,
         OpenAnswer, Arm, CheckPause, Working, At
      <4>4. ~FinishEntry(u)
        BY <1>0, <2>1 DEF FinishEntry, NextAct, Fresh
      <4>5. task'[u].pc = "booked" /\ task'[u].mode = task[u].mode
        BY <1>0, <4>3, <4>4 DEF Record, Goto, TaskRec
      <4> QED BY <4>2, <4>5
    <3> QED BY <3>1, <3>2, <3>3
  <2> QED BY <2>1 DEF OidsLive
<1>2. ASSUME NEW u \in Task, ~TaskStep(u),
             task'[u].pc \in {"opening", "arm", "closing", "unarm"}
      PROVE  /\ task'[u] = task[u] /\ KindOf(u)' = KindOf(u) /\ ExitQty(u)' = ExitQty(u)
  <2>1. task'[u] = task[u]
    BY <1>2, OthersLeave DEF Fresh
  <2> QED BY <1>2, <2>1, SameTask, SameExit
<1>3. LiveOrders'
  <2>1. ASSUME NEW u \in Task, task'[u].pc \in {"opening", "arm", "closing", "unarm"},
               TaskStep(u)
        PROVE  task'[u].mode = "live"
    <3>1. task'[u].mode = task[u].mode
      BY <2>1, ComesBy DEF OrderPoints, Advances
    <3>2. OpenOrder(u) \/ CloseOrder(u) \/ OpenAnswer(u) \/ CloseAnswer(u)
      BY <2>1, ComesBy
    <3> QED BY <3>1, <3>2 DEF OpenOrder, CloseOrder, OpenAnswer, CloseAnswer, At, OrderInv,
               LiveOrders
  <2> QED BY <1>2, <2>1 DEF LiveOrders, OrderInv
<1>4. ArmOpens'
  <2>1. ASSUME NEW u \in Task, task'[u].pc = "arm", TaskStep(u)
        PROVE  Opens(u)'
    <3>1. OpenAnswer(u) /\ task'[u].act = task[u].act /\ task[u].pc # "idle"
      BY <2>1, ComesBy DEF OrderPoints, Advances, Acting
    <3>2. KindOf(u) = "open"
      <4>1. task' # Goto(u, "record") /\ task' # Goto(u, "check")
        BY <1>0, <2>1 DEF Goto, TaskRec
      <4> QED BY <3>1, <4>1 DEF OpenAnswer
    <3> QED BY <3>1, <3>2, SameTask DEF Opens
  <2>2. ASSUME NEW u \in Task, task'[u].pc = "arm", ~TaskStep(u)
        PROVE  Opens(u)'
    BY <1>2, <2>2 DEF OrderInv, ArmOpens, At, Opens
  <2> QED BY <2>1, <2>2 DEF ArmOpens, At
<1>5. ShadowBare'
  <2>1. ASSUME NEW e \in Events, rows'[e].mode = "shadow" PROVE rows'[e].oids = {}
    <3>1. ASSUME NEW t \in Task, Books(t) PROVE rows'[e].oids = {}
      <4>1. CASE e = t[1]
        <5>1. rows'[e].oids = task[t].oids /\ task[t].mode = "shadow"
          BY <2>1, <3>1, <4>1, OpenedRow, BookedRow
        <5> QED BY <5>1 DEF OrderInv, OidsLive
      <4>2. CASE e # t[1]
        BY <2>1, <3>1, <4>2, BookedRow DEF OrderInv, ShadowBare
      <4> QED BY <4>1, <4>2
    <3>2. ASSUME NEW t \in Task, Booking(t), ~Books(t) PROVE rows'[e].oids = {}
      BY <2>1, <3>2, AddsToOurs, AddedRow DEF Booking, OrderInv, ShadowBare
    <3>3. CASE ~ \E t \in Task : Booking(t)
      BY <2>1, <3>3, RowFields DEF OrderInv, ShadowBare
    <3> QED BY <3>1, <3>2, <3>3
  <2> QED BY <2>1 DEF ShadowBare
<1>6. ClosingFits'
  <2>1. ASSUME NEW u \in Task, task'[u].pc = "closing", TaskStep(u)
        PROVE  (task[u].fs <= ExitQty(u))'
    <3>1. CloseOrder(u)
      BY <2>1, ComesBy
    <3>2. /\ task'[u].fs <= ExitQty(u) /\ task'[u].size = task[u].size
          /\ task'[u].act = task[u].act /\ task[u].pc # "idle"
      BY <3>1, CloseFits DEF CloseOrder, At
    <3>3. ExitQty(u)' = ExitQty(u)
      BY <3>2, SameExit
    <3> QED BY <3>2, <3>3
  <2>2. ASSUME NEW u \in Task, task'[u].pc = "closing", ~TaskStep(u)
        PROVE  (task[u].fs <= ExitQty(u))'
    BY <1>2, <2>2 DEF OrderInv, ClosingFits, At
  <2> QED BY <2>1, <2>2 DEF ClosingFits, At
<1> QED BY <1>1, <1>3, <1>4, <1>5, <1>6 DEF OrderInv

(* At the start no order is on its way. *)
LEMMA OrderInit == Init => OrderInv
  BY DEF Init, OrderInv, OidsLive, LiveOrders, ArmOpens, ShadowBare, ClosingFits, NoTask, NoRow,
         Fresh, At

-----------------------------------------------------------------------------
(* Who owns a protective order.  NoOrphanLeg is not inductive: the owner    *)
(* must know the oid, and a position that is about to be closed must have   *)
(* none left.                                                               *)
RowOwns(l)  == rows[l[1]].status = "open" /\ l[2] \in rows[l[1]].oids
TaskOwns(l) ==
  \E t \in Task : t[1] = l[1] /\ At(t, "record") /\ Opens(t) /\ l[2] \in task[t].oids
LegsOwned   == \A l \in Leg : legs[l] > 0 => RowOwns(l) \/ TaskOwns(l)

Bare(e) == \A l \in Leg : l[1] = e => ~(legs[l] > 0)
SettleBare ==
  \A t \in Task : At(t, "settle") /\ task[t].mode = "live" =>
    Bare(task[t].held) \/ (~FullExit(t) /\ task[t].fs < task[t].size)

LegInv == LegsOwned /\ SettleBare

(* The process does not die, and the venue answers to every protective      *)
(* order and every cancel.                                                  *)
Steady == ~May("arm") /\ ~May("cancel") /\ ~May("restart")

(* A protective order is armed by a task that opens, on its own event.      *)
LEMMA LegsFall ==
  ASSUME TypeInv, [Next]_vars, NEW l \in Leg
  PROVE  \/ legs'[l] = legs[l] \/ legs'[l] = 0
         \/ \E t \in Task : TaskStep(t) /\ Arm(t) /\ t[1] = l[1]
<1>0. legs \in [Leg -> Int]
  BY DEF TypeInv, TypeOK
<1>1. ASSUME NEW t \in Task, TaskStep(t), Arm(t), t[1] # l[1] PROVE legs'[l] = legs[l]
  <2>1. PICK armed : legs' = [k \in Leg |-> IF k[1] = t[1] /\ k[2] \in armed
                                           THEN task[t].fs ELSE legs[k]]
    BY <1>1 DEF Arm
  <2> QED BY <1>1, <2>1
<1>2. ASSUME NEW t \in Task, TaskStep(t), Unarm(t) PROVE legs'[l] \in {legs[l], 0}
  BY <1>2 DEF Unarm, CancelledLegs
<1>3. ASSUME NEW t \in Task, TaskStep(t), ~Arm(t), ~Unarm(t) PROVE UNCHANGED legs
  BY <1>3 DEF TaskStep, ExitStep, EntryStep, ReadSubs, Acquire, Release,
     Seen, Drop, ReadHeld, Claim, SkipExit, ShadowExit, CloseOrder, CloseAnswer,
     Settle, FinishExit, SkipEntry, GateSkip, GateLoss, GatePass, ShadowEntry, OpenOrder,
     OpenAnswer, Record, FinishEntry, CheckPause, venue
<1>4. CASE SweepStep
  <2>1. CASE SweepApply
    <3>1. PICK stuck : legs' = [k \in Leg |-> IF k[1] \in Gone /\ k[2] \in rows[k[1]].oids \ stuck
                                             THEN 0 ELSE legs[k]]
      BY <2>1 DEF SweepApply
    <3> QED BY <3>1
  <2>2. CASE ~SweepApply
    BY <1>4, <2>2 DEF SweepStep, SweepRows, SweepChain, SweepUnread
  <2> QED BY <2>1, <2>2
<1>5. CASE AccountStep
  BY <1>0, <1>5 DEF AccountStep, LegFires, UserTrades, Leg
<1>6. ASSUME NEW s \in Subs, NEW c \in Coins, NEW e \in Events,
             NEW new \in -MaxLead..MaxLead, LeaderTrade(s, c, e, new)
      PROVE  UNCHANGED legs
  BY <1>6 DEF LeaderTrade, venue
<1>7. ASSUME NEW t \in Task, Redeliver(t) PROVE UNCHANGED legs
  BY <1>7 DEF Redeliver, venue
<1>8. CASE RouterStep \/ Restart \/ UNCHANGED vars
  BY <1>8 DEF RouterStep, Restart, vars, venue
<1> QED BY <1>1, <1>2, <1>3, <1>4, <1>5, <1>6, <1>7, <1>8 DEF Next

(* A position that was booked is not the event of a task that arms.         *)
LEMMA ArmsUnbooked ==
  ASSUME TypeInv, BookInv, OrderInv, NEW t \in Task, Arm(t)
  PROVE  rows[t[1]].status = "none"
BY DEF Arm, At, OrderInv, ArmOpens, BookInv, Unbooked, Opening

(* An open position that has an order keeps it, or is left bare. *)
LEMMA RowKeeps ==
  ASSUME TypeInv, RowInv, BookInv, HeldOurs, OrderInv, LegInv, Steady, [Next]_vars,
         NEW l \in Leg, legs[l] > 0, legs'[l] > 0, RowOwns(l)
  PROVE  RowOwns(l)'
<1> DEFINE e == l[1]
<1>0. /\ e \in Events /\ rows \in [Events -> RowRec] /\ rows[e] \in RowRec
      /\ rows[e].status = "open" /\ l[2] \in rows[e].oids
  BY DEF TypeInv, TypeOK, Leg, RowOwns
<1>1. ASSUME NEW t \in Task, Books(t) PROVE rows'[e] = rows[e]
  <2>1. e # t[1]
    BY <1>0, <1>1, BookingOpens, BookedRow DEF BookInv, Unbooked, Opening
  <2> QED BY <1>0, <1>1, <2>1, BookedRow
<1>2. ASSUME NEW t \in Task, Booking(t), ~Books(t)
      PROVE  rows'[e].status = rows[e].status /\ rows'[e].oids = rows[e].oids
  BY <1>0, <1>2, AddsToOurs, AddedRow DEF Booking
<1>3. CASE ~ \E t \in Task : Booking(t)
  <2>1. rows'[e].oids = rows[e].oids
    BY <1>0, <1>3, RowFields
  <2>2. ASSUME NEW t \in Task, TaskStep(t), Settle(t) PROVE rows'[e].status = rows[e].status
    <3> DEFINE h == task[t].held
               left == task[t].size - task[t].fs
    <3>1. rows' = [rows EXCEPT ![h] =
                    IF FullExit(t) \/ left <= 0
                    THEN [@ EXCEPT !.status = "closed", !.size = 0]
                    ELSE [@ EXCEPT !.size = left]]
      BY <2>2 DEF Settle
    <3>2. CASE e # h
      BY <1>0, <3>1, <3>2
    <3>3. CASE e = h
      <4>1. task[t].mode = "live"
        <5>1. h # None /\ rows[h].mode # "shadow" /\ task[t].mode \in Mode
          BY <1>0, <3>3, ConstantsOK DEF OrderInv, ShadowBare, TypeInv, TypeOK, TaskRec
        <5> QED BY <5>1 DEF HeldOurs, Mode
      <4>2. ~Bare(h)
        BY <3>3 DEF Bare
      <4>3. ~FullExit(t) /\ task[t].fs < task[t].size
        BY <2>2, <4>1, <4>2 DEF Settle, LegInv, SettleBare
      <4>4. ~(left <= 0)
        BY <4>3 DEF TypeInv, TypeOK, TaskRec
      <4> HIDE DEF left, h
      <4>5. rows' = [rows EXCEPT ![h] = [rows[h] EXCEPT !.size = left]]
        BY <3>1, <4>3, <4>4
      <4>6. rows'[e] = [rows[e] EXCEPT !.size = left]
        BY <1>0, <3>3, <4>5
      <4> QED BY <1>0, <4>6 DEF RowRec
    <3> QED BY <3>2, <3>3
  <2>3. ASSUME NEW t \in Task, TaskStep(t), ~Settle(t) PROVE UNCHANGED rows
    BY <1>3, <2>3 DEF Booking, TaskStep, ExitStep, EntryStep, ReadSubs, Acquire, Release, Seen,
         Drop, ReadHeld, Claim, SkipExit, ShadowExit, CloseOrder, CloseAnswer, Unarm,
         FinishExit, SkipEntry, GateSkip, GateLoss, GatePass, ShadowEntry, OpenOrder,
         OpenAnswer, Arm, FinishEntry, CheckPause, db
  <2>4. ASSUME SweepApply PROVE rows'[e].status = rows[e].status
    <3>1. legs' = [k \in Leg |-> IF k[1] \in Gone /\ k[2] \in rows[k[1]].oids \ {}
                                THEN 0 ELSE legs[k]]
      BY <2>4 DEF SweepApply, Steady
    <3>2. e \notin Gone
      BY <1>0, <3>1
    <3>3. PICK n : rows'[e] = rows[e] \/ rows'[e] = [rows[e] EXCEPT !.size = n]
      BY <1>0, <2>4, <3>2 DEF SweepApply
    <3> QED BY <1>0, <3>3 DEF RowRec
  <2>5. rows'[e].status = rows[e].status
    BY <2>2, <2>3, <2>4, OutsideShape
  <2> QED BY <1>0, <2>1, <2>5 DEF RowOwns
<1> QED BY <1>0, <1>1, <1>2, <1>3 DEF RowOwns

(* A task that has armed keeps what it armed until its position has it.     *)
LEMMA TaskKeeps ==
  ASSUME TypeInv, Steady, [Next]_vars, NEW l \in Leg, TaskOwns(l)
  PROVE  RowOwns(l)' \/ TaskOwns(l)'
<1>1. PICK t \in Task : t[1] = l[1] /\ At(t, "record") /\ Opens(t) /\ l[2] \in task[t].oids
  BY DEF TaskOwns
<1>2. CASE TaskStep(t)
  <2>1. Record(t)
    BY <1>1, <1>2 DEF TaskStep, ExitStep, EntryStep, ReadSubs, Acquire, Release,
         Seen, Drop, ReadHeld, Claim, SkipExit, ShadowExit, CloseOrder, CloseAnswer, Unarm,
         Settle, FinishExit, SkipEntry, GateSkip, GateLoss, GatePass, ShadowEntry, OpenOrder,
         OpenAnswer, Arm, FinishEntry, CheckPause, Working, At
  <2>2. Books(t)
    BY <1>1, <1>2, <2>1 DEF Books, Opens
  <2>3. rows'[l[1]].status = "open" /\ l[2] \in rows'[l[1]].oids
    BY <1>1, <2>2, BookedRow, OpenedRow
  <2> QED BY <2>3 DEF RowOwns
<1>3. CASE ~TaskStep(t)
  <2>1. task'[t] = task[t]
    BY <1>1, <1>3, OthersLeave DEF At, Restart, Steady
  <2>2. KindOf(t)' = KindOf(t)
    BY <1>1, <2>1, SameTask DEF At
  <2> QED BY <1>1, <2>1, <2>2 DEF TaskOwns, At, Opens
<1> QED BY <1>2, <1>3

(* A position whose orders were cancelled for its close is bare until then. *)
LEMMA SettleStep ==
  ASSUME TypeInv, TypeOK', RowInv, BookInv, OrderInv, LegInv, Steady, [Next]_vars
  PROVE  SettleBare'
<1>0. task \in [Task -> TaskRec] /\ legs \in [Leg -> Int]
  BY DEF TypeInv, TypeOK
<1> SUFFICES ASSUME NEW u \in Task, task'[u].pc = "settle", task'[u].mode = "live"
             PROVE  Bare(task[u].held)' \/ (~(FullExit(u)') /\ task'[u].fs < task'[u].size)
  BY DEF SettleBare, At
<1>1. CASE TaskStep(u)
  <2>1. Advances(u) /\ task[u].mode = "live" /\ task[u].pc # "idle"
        /\ (CloseAnswer(u) \/ Unarm(u))
    BY <1>1, ComesBy DEF OrderPoints, Advances, ShadowExit, Acting
  <2>2. task'[u].size = task[u].size /\ task'[u].fs = task[u].fs
        /\ task'[u].act = task[u].act /\ task'[u].held = task[u].held
    <3>1. PICK p : task' = Goto(u, p)
      BY <2>1 DEF CloseAnswer, Unarm
    <3> QED BY <1>0, <3>1 DEF Goto, TaskRec
  <2>3. FullExit(u)' = FullExit(u)
    BY <2>1, <2>2, SameExit
  <2>4. CASE CloseAnswer(u)
    <3>1. task' # Goto(u, "unarm") /\ task' # Goto(u, "check")
      BY <1>0 DEF Goto, TaskRec
    <3>2. ~FullExit(u) /\ At(u, "closing")
      BY <2>4, <3>1 DEF CloseAnswer
    <3>3. task[u].fs <= ExitQty(u) /\ task[u].fs \in Int /\ task[u].size \in Int
          /\ ExitQty(u) \in Int
      <4>1. CurAct(u) \in Action
        BY <3>2, ActionType DEF At, Acting
      <4> QED BY <3>2, <4>1, ExitSizeType DEF OrderInv, ClosingFits, ExitQty, TypeInv, TypeOK,
                 TaskRec
    <3> QED BY <2>2, <2>3, <3>2, <3>3 DEF FullExit
  <2>5. CASE Unarm(u)
    <3> DEFINE h == task[u].held
    <3>1. legs' = [l \in Leg |-> IF l[1] = h /\ l[2] \in rows[h].oids \ {} THEN 0 ELSE legs[l]]
      BY <2>5 DEF Unarm, Stuck, CancelledLegs, Steady
    <3>2. ASSUME NEW l \in Leg, l[1] = h PROVE ~(legs'[l] > 0)
      <4>1. ~TaskOwns(l)
        <5>1. rows[h].status # "none"
          BY <3>2, ConstantsOK DEF Leg, RowInv, HeldBooked
        <5> QED BY <3>2, <5>1 DEF TaskOwns, BookInv, Unbooked, Opening, At
      <4>2. CASE l[2] \in rows[h].oids
        BY <3>1, <3>2, <4>2
      <4>3. CASE l[2] \notin rows[h].oids
        <5>1. ~RowOwns(l)
          BY <3>2, <4>3 DEF RowOwns
        <5>2. ~(legs[l] > 0)
          BY <4>1, <5>1 DEF LegInv, LegsOwned
        <5> QED BY <3>1, <3>2, <4>3, <5>2
      <4> QED BY <4>2, <4>3
    <3>3. \A l \in Leg : l[1] = task'[u].held => ~(legs'[l] > 0)
      BY <2>2, <3>2
    <3> QED BY <3>3 DEF Bare
  <2> QED BY <2>1, <2>4, <2>5
<1>2. CASE ~TaskStep(u)
  <2>1. task'[u] = task[u]
    BY <1>2, OthersLeave DEF Fresh
  <2>2. FullExit(u)' = FullExit(u)
    BY <2>1, SameExit
  <2>3. ASSUME Bare(task[u].held), NEW l \in Leg, l[1] = task[u].held
        PROVE  ~(legs'[l] > 0)
    <3>1. ASSUME NEW t \in Task, TaskStep(t), Arm(t), t[1] = l[1] PROVE FALSE
      <4>1. rows[l[1]].status # "none"
        BY <2>3, ConstantsOK DEF Leg, RowInv, HeldBooked
      <4> QED BY <3>1, <4>1, ArmsUnbooked
    <3> QED BY <2>3, <3>1, LegsFall DEF Bare
  <2>4. ASSUME Bare(task[u].held) PROVE Bare(task[u].held)'
    <3>1. \A l \in Leg : l[1] = task'[u].held => ~(legs'[l] > 0)
      BY <2>1, <2>3, <2>4
    <3> QED BY <3>1 DEF Bare
  <2> QED BY <2>1, <2>2, <2>4 DEF LegInv, SettleBare, At
<1> QED BY <1>1, <1>2

(* Every step keeps an owner for every protective order. *)
LEMMA LegStep ==
  /\ TypeInv /\ TypeOK' /\ RowInv /\ BookInv /\ HeldOurs /\ OrderInv /\ OrderInv'
  /\ LegInv /\ Steady /\ [Next]_vars
  => LegInv'
<1> SUFFICES ASSUME TypeInv, TypeOK', RowInv, BookInv, HeldOurs, OrderInv, OrderInv', LegInv,
                    Steady, [Next]_vars
             PROVE  LegInv'
  OBVIOUS
<1>1. ASSUME NEW l \in Leg, legs'[l] > 0 PROVE RowOwns(l)' \/ TaskOwns(l)'
  <2>1. CASE legs'[l] = legs[l] \/ legs'[l] = 0
    <3>1. legs[l] > 0
      BY <1>1, <2>1
    <3>2. RowOwns(l) \/ TaskOwns(l)
      BY <3>1 DEF LegInv, LegsOwned
    <3> QED BY <1>1, <3>1, <3>2, RowKeeps, TaskKeeps
  <2>2. ASSUME NEW t \in Task, TaskStep(t), Arm(t), t[1] = l[1] PROVE TaskOwns(l)'
    <3>1. task' = [task EXCEPT ![t].pc = "record", ![t].oids = {"sl", "tp"}]
      BY <2>2 DEF Arm, Steady
    <3>2. task'[t].pc = "record" /\ task'[t].oids = {"sl", "tp"} /\ task'[t].act = task[t].act
      BY <3>1 DEF TypeInv, TypeOK, TaskRec
    <3>3. Opens(t)'
      BY <2>2, <3>2, SameTask DEF Arm, At, OrderInv, ArmOpens, Opens
    <3> QED BY <2>2, <3>2, <3>3 DEF TaskOwns, At, Leg
  <2> QED BY <2>1, <2>2, LegsFall
<1> QED BY <1>1, SettleStep DEF LegInv, LegsOwned

(* At the start nothing is armed. *)
LEMMA LegInit == Init => LegInv
  BY DEF Init, LegInv, LegsOwned, SettleBare, Bare, At, NoTask, Fresh

(* No SL or TP is left over to open an opposite position, through closes,   *)
(* partial closes, sweeps, mode changes and unconfirmed entries, for every  *)
(* choice of the constants under which the process does not die and the     *)
(* venue answers to protective orders and to cancels.                       *)
THEOREM LegsHaveOwners ==
  ASSUME ~May("arm"), ~May("cancel"), ~May("restart")
  PROVE  Spec => []NoOrphanLeg
<1>1. Steady
  BY DEF Steady
<1>2. LegInv => NoOrphanLeg
  BY DEF LegInv, LegsOwned, RowOwns, TaskOwns, NoOrphanLeg, LegOwned
<1>3. TypeInv /\ [Next]_vars => TypeOK'
  BY NextType DEF TypeInv
<1>4. /\ TypeInv /\ TypeOK' /\ RowInv /\ BookInv /\ HeldOurs /\ OrderInv /\ OrderInv'
      /\ LegInv /\ [Next]_vars
      => LegInv'
  BY <1>1, LegStep
<1> QED BY <1>2, <1>3, <1>4, InitType, NextType, OnceInit, OnceStep, RowInit, RowStep, BookInit,
           BookStep, HeldInit, HeldStep, OrderInit, OrderStep, LegInit, PTL DEF Spec

=============================================================================
