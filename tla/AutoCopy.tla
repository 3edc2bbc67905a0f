-------------------- MODULE AutoCopy --------------------
(***************************************************************************)
(* Auto-copy as a whole: the leaders trade, the tracker starts a task for  *)
(* each event, the tasks interleave with the reconcile loop, the router and*)
(* what happens to the account, and the process may die.                   *)
(***************************************************************************)
EXTENDS CopyEngine, CopyReconcile, CopyRouter

(* The leader trades; the tracker stores the event and starts its task. *)
LeaderTrade(s, c, e, new) ==
  /\ event[e] = None
  /\ new # lead[s][c]
  /\ lead' = [lead EXCEPT ![s][c] = new]
  /\ event' = [event EXCEPT ![e] =
       [sub |-> s, coin |-> c, old |-> lead[s][c], new |-> new,
        n |-> Cardinality({d \in Events : event[d] # None}) + 1]]
  /\ task' = Goto(<<e, 1>>, "start")
  /\ UNCHANGED <<db, venue, memory, userOn, rec, patch, ops, burnt>>

-----------------------------------------------------------------------------
(* The account moves without the engine: an armed order fires (with nothing *)
(* left to close it opens the opposite position, engine.py:256-258), the    *)
(* follower trades by hand.                                                 *)
LegFires(e, kind) ==
  /\ Outside /\ May("fire")
  /\ legs[<<e, kind>>] > 0
  /\ pos' = [pos EXCEPT ![event[e].coin] = @ - RowSide(e) * legs[<<e, kind>>]]
  /\ legs' = [legs EXCEPT ![<<e, kind>>] = 0]
  /\ burnt' = [burnt EXCEPT ![event[e].sub] = @ \/ kind = "sl"]

UserTrades(c, held) ==
  /\ Outside /\ May("user")
  /\ held # pos[c]
  /\ pos' = [pos EXCEPT ![c] = held]
  /\ UNCHANGED <<legs, burnt>>

(* The process dies and starts again: its memory goes, the database and the *)
(* venue stay.                                                              *)
Restart ==
  /\ Outside /\ May("restart")
  /\ lock' = [s \in Subs |-> None]
  /\ notCopied' = {}
  /\ task' = [t \in Task |-> IF At(t, "idle") THEN task[t] ELSE Fresh("lost", 1, "live", "active")]
  /\ rec' = NoSweep
  /\ patch' = [s \in Subs |-> None]
  /\ UNCHANGED <<db, venue, lead, event, userOn, burnt>>

AccountStep ==
  /\ \/ \E l \in Leg : LegFires(l[1], l[2])
     \/ \E c \in Coins, held \in -OpenLots..OpenLots : UserTrades(c, held)
  /\ UNCHANGED <<lead, event, userOn, db, sent, memory, task, rec, patch>>

Next ==
  \/ \E s \in Subs, c \in Coins, e \in Events, new \in -MaxLead..MaxLead :
       LeaderTrade(s, c, e, new)
  \/ \E t \in Task : Redeliver(t) \/ TaskStep(t)
  \/ SweepStep
  \/ RouterStep
  \/ AccountStep
  \/ Restart

Spec == Init /\ [][Next]_vars

(* asyncio runs every ready task and the venue's answers are bounded by the *)
(* 15 s timeouts; the reconcile loop wakes up every RECONCILE_SEC, and a    *)
(* chain read that is tried again and again succeeds in the end.            *)
Fairness == /\ \A t \in Task : WF_vars(TaskStep(t))
            /\ WF_vars(SweepStep) /\ SF_vars(SweepChain /\ SweepFrame)

FairSpec == Spec /\ Fairness

-----------------------------------------------------------------------------
(* Invariants.                                                              *)

Settled(t) == task[t].pc \in {"idle", "done", "lost"}
Quiet      == (\A t \in Task : Settled(t)) /\ rec.pc = "idle"

(* One leader event sends at most one market order per subscription and     *)
(* action, across duplicate frames and restarts (engine.py:7-9).            *)
AtMostOneOrder == \A k \in Key : sent[k] <= 1

(* A subscription never has two open copied positions on one market in the  *)
(* same mode: _held would mirror the leader's exits on the newest only      *)
(* (engine.py:98-104).                                                     *)
OneOpenRow ==
  \A s \in Subs, c \in Coins, m \in Mode : \A d, e \in HeldRows(s, c, m) : d = e

(* The close half of a flip never acts on the position its own open half    *)
(* made, however often the event is fed (engine.py:205-213).                *)
InExit(t) == task[t].pc \in {"exit", "closing", "unarm", "settle", "finish"}
OwnOpenKept == \A t \in Task : InExit(t) => task[t].held # t[1]

(* max_positions is never exceeded by the tasks of one subscription, though *)
(* the count is read several awaits before the row is inserted              *)
(* (engine.py:316-318, rules.py:173-175).                                   *)
PositionsWithinMax ==
  \A s \in Subs, m \in Mode : Cardinality(OpenRows(s, m)) <= MaxPositions

(* The margin of a subscription's open copies stays within its allocation,  *)
(* through opens, adds and partial fills (rules.py:79-80, engine.py:338).   *)
MarginWithinAllocation == \A s \in Subs, m \in Mode : MarginInUse(s, m) <= Allocation

(* The two limits a follower sets on a subscription's size hold together.   *)
LimitsKept == PositionsWithinMax /\ MarginWithinAllocation

(* An armed SL or TP belongs to an open copied position whose row knows its *)
(* oid, or its event's open is still being booked: none is left over to     *)
(* open an opposite position (engine.py:256-258, 472-473).                  *)
LegOwned(l) ==
  \/ rows[l[1]].status = "open" /\ l[2] \in rows[l[1]].oids
  \/ \E t \in Task : t[1] = l[1] /\ At(t, "record")
NoOrphanLeg == \A l \in Leg : legs[l] > 0 => LegOwned(l)

(* With no task under way, the account holds exactly what the live rows say *)
(* it holds: the rows record the real fills (engine.py:15-16).              *)
Booked(c) ==
  MapThenSumSet(LAMBDA e : RowSide(e) * rows[e].size,
                UNION {HeldRows(s, c, "live") : s \in Subs})
BooksMatchVenue == Quiet => \A c \in Coins : pos[c] = Booked(c)

(* With no task under way and no failed order, a leader who is flat leaves  *)
(* no copied position open: his close waited for our open and is mirrored   *)
(* while we are paused or switched off (engine.py:6-7, 11;                  *)
(* frontend/src/design-b/screens/AutoCopySettingsB.tsx:85).                 *)
NoOrphanCopy ==
  Quiet => \A s \in Subs, c \in Coins, m \in Mode : lead[s][c] = 0 => HeldRows(s, c, m) = {}

(* One source per market per account, over all the follower's subscriptions *)
(* (the slot rule, engine.py:320).                                          *)
OneSourcePerMarket ==
  \A c \in Coins : Cardinality(UNION {HeldRows(s, c, "live") : s \in Subs}) <= 1

-----------------------------------------------------------------------------
(* Action properties.                                                       *)

(* An add is only sent on the side of the position it adds to: for an add   *)
(* "the market is ours already" (engine.py:320).                            *)
AddsOnOwnSide ==
  [][\A t \in Task : At(t, "place") /\ KindOf(t) = "add" /\ task'[t].pc = "opening"
                        => CurAct(t).side = RowSide(task[t].held)]_vars

(* A copy is only opened on a market where the account is flat: a close     *)
(* that failed, was not confirmed or filled in part keeps the slot taken,   *)
(* and the open half of a flip waits for it (engine.py:319-321).            *)
OpensOnFlatMarket ==
  [][\A t \in Task : At(t, "place") /\ KindOf(t) = "open" /\ task'[t].pc = "opening"
                        => pos[Ev(t).coin] = 0]_vars

(* Once copied trades that lost the limit have ended in the books, no more  *)
(* entries pass the gates                                                   *)
(* (frontend/src/design-b/screens/AutoCopySettingsB.tsx:18-19).             *)
LossStopsEntries ==
  [][\A t \in Task : /\ At(t, "entry") /\ task'[t].pc = "place"
                      /\ OpenRows(Ev(t).sub, task[t].mode) = {}
                        => ~burnt[Ev(t).sub]]_vars

-----------------------------------------------------------------------------
(* What auto-copy promises, and its implementation.                         *)

(* The claim log, the orders and the rows, as MirrorOnce sees them. *)
Once == INSTANCE MirrorOnce WITH
  decided <- {k \in Key : log[k] # "none"},
  placed  <- sent,
  book    <- [e \in Events |-> IF rows[e].status \in {"closed", "detached"}
                               THEN "ended" ELSE rows[e].status]

(* Every action is decided once, sends at most one order once decided, and  *)
(* its position is booked once and ends for good (engine.py:7-9).           *)
MirrorsOnce == Once!Spec

-----------------------------------------------------------------------------
(* Liveness.                                                                *)

(* Every event delivered is worked through: no failure path keeps the       *)
(* subscription's lock (engine.py:185-190).                                 *)
EventsDone == \A t \in Task : At(t, "start") ~> Settled(t)

(* A live row whose position is gone from the account is eventually no      *)
(* longer open, or the position is back (engine.py:447-449).                *)
GhostRowsEnd ==
  \A e \in Events :
    (rows[e].status = "open" /\ rows[e].mode = "live" /\ OnVenue(event[e].coin, RowSide(e)) = 0)
      ~> (rows[e].status # "open" \/ OnVenue(event[e].coin, RowSide(e)) > 0)

(* What an unconfirmed order left on the account is eventually what the     *)
(* rows say: the reconcile settles the real size (executor.py:80-82).       *)
ReconcileSettles == \A c \in Coins : (pos[c] # Booked(c)) ~> (pos[c] = Booked(c))

=============================================================================
