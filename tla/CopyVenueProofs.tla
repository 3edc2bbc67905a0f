-------------------------- MODULE CopyVenueProofs --------------------------
(***************************************************************************)
(* The account and the leader against auto-copy's books: an open only goes *)
(* out where the account is flat; and while nothing upsets the copies of   *)
(* one subscription, the account holds what the rows say and a leader who  *)
(* is flat leaves nothing of ours open.                                    *)
(***************************************************************************)
EXTENDS CopyRowsProofs

-----------------------------------------------------------------------------
(* The account at an open.  The gates look at it some awaits before the     *)
(* order goes out; under the lock only somebody else can have moved it.     *)
FlatAtPlace ==
  \A t \in Task : At(t, "place") /\ Opens(t) => pos[Ev(t).coin] = 0

(* One subscription, and nobody but the engine moves the account.           *)
OnlyEngine == (\A r, s \in Subs : r = s) /\ ~May("user") /\ ~May("fire")

(* The account is moved by orders of tasks inside a lock. *)
LEMMA PosMoves ==
  ASSUME OnlyEngine, [Next]_vars, ~UNCHANGED pos
  PROVE  \E t \in Task : TaskStep(t) /\ (CloseOrder(t) \/ OpenOrder(t))
<1>1. ASSUME NEW t \in Task, TaskStep(t), ~CloseOrder(t), ~OpenOrder(t) PROVE UNCHANGED pos
  BY <1>1 DEF TaskStep, ExitStep, EntryStep, ReadSubs, Acquire, Release,
     Seen, Drop, ReadHeld, Claim, SkipExit, ShadowExit, CloseAnswer, Unarm,
     Settle, FinishExit, SkipEntry, GateSkip, GateLoss, GatePass, ShadowEntry,
     OpenAnswer, Arm, Record, FinishEntry, CheckPause, venue
<1>2. SweepStep \/ RouterStep \/ Restart \/ UNCHANGED vars => UNCHANGED pos
  BY DEF SweepStep, SweepFrame, RouterStep, Restart, vars, venue
<1>3. ~AccountStep
  BY DEF AccountStep, LegFires, UserTrades, OnlyEngine
<1>4. ASSUME NEW s \in Subs, NEW c \in Coins, NEW e \in Events,
             NEW new \in -MaxLead..MaxLead, LeaderTrade(s, c, e, new)
      PROVE  UNCHANGED pos
  BY <1>4 DEF LeaderTrade, venue
<1>5. ASSUME NEW t \in Task, Redeliver(t) PROVE UNCHANGED pos
  BY <1>5 DEF Redeliver, venue
<1> QED BY <1>1, <1>2, <1>3, <1>4, <1>5 DEF Next

(* Every step keeps the market flat for the open that has passed the gates. *)
LEMMA FlatStep ==
  TypeInv /\ RowInv /\ FlatAtPlace /\ OnlyEngine /\ [Next]_vars => FlatAtPlace'
<1> SUFFICES ASSUME TypeInv, RowInv, FlatAtPlace, OnlyEngine, [Next]_vars,
                    NEW u \in Task, task'[u].pc = "place", Opens(u)'
             PROVE  pos'[Ev(u)'.coin] = 0
  BY DEF FlatAtPlace, At
<1>1. CASE TaskStep(u)
  <2>1. GatePass(u)
    <3>1. task[u].pc \notin Opening
      <4>0. task \in [Task -> TaskRec]
        BY DEF TypeInv, TypeOK
      <4>1. ~Queues(u) /\ ~ReadHeld(u)
        <5>1. CASE Queues(u)
          BY <4>0, <5>1 DEF Queues, ReadSubs, Acquire, Release, Goto, Fresh, TaskRec
        <5>2. CASE ReadHeld(u)
          BY <5>2, ReadHeldShape
        <5> QED BY <5>1, <5>2
      <4> QED BY <1>1, <4>1, StepShape DEF Leaves, Advances, Edge, Opening
    <3> QED BY <1>1, <3>1, PlacePassed DEF Opening
  <2>2. task'[u].act = task[u].act /\ task[u].pc # "idle" /\ UNCHANGED pos
    BY <2>1 DEF GatePass, Goto, At, TypeInv, TypeOK, TaskRec, venue
  <2>3. Opens(u) /\ Ev(u)' = Ev(u)
    BY <2>2, SameTask DEF Opens
  <2> QED BY <2>1, <2>2, <2>3 DEF GatePass, GateBeforeLoss, InUse, Opens
<1>2. CASE ~TaskStep(u)
  <2>1. task'[u] = task[u] /\ Inside(u)
    BY <1>2, OthersStand DEF Inside, Acting
  <2>2. Opens(u) /\ Ev(u)' = Ev(u)
    BY <2>1, SameTask DEF Opens
  <2>3. UNCHANGED pos
    <3>1. ASSUME NEW t \in Task, TaskStep(t), CloseOrder(t) \/ OpenOrder(t) PROVE FALSE
      <4>1. Inside(t)
        BY <3>1 DEF CloseOrder, OpenOrder, At, Inside, Acting
      <4>2. Ev(t).sub = Ev(u).sub
        BY <2>1, <4>1, InsideType DEF OnlyEngine
      <4>3. t = u
        BY <2>1, <4>1, <4>2, OneInside DEF RowInv
      <4> QED BY <1>2, <3>1, <4>3
    <3> QED BY <3>1, PosMoves
  <2> QED BY <2>1, <2>2, <2>3 DEF FlatAtPlace, At
<1> QED BY <1>1, <1>2

(* A copy is only opened on a market where the account is flat, whatever    *)
(* fails, fills in part or is not confirmed, for every choice of the        *)
(* constants with one subscription and nobody else on the account.          *)
THEOREM OpensWhereFlat ==
  ASSUME \A r, s \in Subs : r = s, ~May("user"), ~May("fire")
  PROVE  Spec => OpensOnFlatMarket
<1>1. OnlyEngine
  BY DEF OnlyEngine
<1>2. TypeInv /\ RowInv /\ FlatAtPlace /\ [Next]_vars => FlatAtPlace'
  BY <1>1, FlatStep
<1>3. Init => FlatAtPlace
  BY DEF Init, FlatAtPlace, At, NoTask, Fresh
<1>4. FlatAtPlace => [\A t \in Task : At(t, "place") /\ KindOf(t) = "open" /\ task'[t].pc = "opening"
                                      => pos[Ev(t).coin] = 0]_vars
  BY DEF FlatAtPlace, Opens
<1> QED BY <1>2, <1>3, <1>4, InitType, NextType, OnceInit, OnceStep, RowInit, RowStep,
           PTL DEF Spec, OpensOnFlatMarket

-----------------------------------------------------------------------------
(* Calm: what is sound of the copies of one subscription when nothing       *)
(* upsets them.  The tasks of the events follow the leader's positions one  *)
(* after the other; the account holds what the rows and the orders on their *)
(* way say; every open row is on the side of the position the market is     *)
(* followed to.                                                             *)

(* One subscription; nobody else moves the account, no setting changes      *)
(* under its tasks, every order is answered, and a full close fills.        *)
Upsets == {"user", "fire", "restart", "reconcile", "mode", "stop", "reorder",
           "reject", "key", "unconfirmed", "partial_close"}
Calm == (\A r, s \in Subs : r = s) /\ (\A what \in Upsets : ~May(what))

(* Nothing is stopped, swept or about to change its mode.                   *)
Settings == /\ \A s \in Subs : sub[s].status # "stopped" /\ patch[s] = None
            /\ rec.pc = "idle"

(* The steps of everybody else.                                             *)
LEMMA Elsewhere ==
  ASSUME TypeInv, Calm, Settings, [Next]_vars, ~ \E t \in Task : TaskStep(t)
  PROVE  /\ UNCHANGED <<rows, log, lock, notCopied, pos, rec, patch>>
         /\ \A s \in Subs : sub'[s].mode = sub[s].mode /\ sub'[s].status # "stopped"
         /\ \A u \in Task : \/ task'[u] = task[u]
                            \/ task[u].pc = "idle" /\ task'[u].pc = "start"
         /\ \/ UNCHANGED <<event, lead>>
            \/ \E s \in Subs, c \in Coins, e \in Events, new \in -MaxLead..MaxLead :
                 LeaderTrade(s, c, e, new)
<1>0. ~SweepStep /\ ~AccountStep /\ ~Restart
  BY DEF SweepStep, SweepRows, SweepChain, SweepUnread, SweepApply, AccountStep, LegFires,
         UserTrades, Restart, Calm, Upsets, Settings
<1>1. \A u \in Task : task'[u] = task[u] \/ (task[u].pc = "idle" /\ task'[u].pc = "start")
  BY <1>0, OthersLeave
<1>2. CASE RouterStep
  <2>1. UNCHANGED <<rows, log, lock, notCopied, pos, rec, event, lead>>
    BY <1>2 DEF RouterStep, venue, memory
  <2>2. ASSUME NEW s \in Subs, NEW st \in Status, PatchStatus(s, st)
        PROVE  /\ UNCHANGED patch
               /\ \A r \in Subs : sub'[r].mode = sub[r].mode /\ sub'[r].status # "stopped"
    <3>1. st # "stopped" /\ UNCHANGED patch /\ sub' = SetStatus(s, st)
      BY <2>2 DEF PatchStatus, Calm, Upsets
    <3>2. sub \in [Subs -> SubRec]
      BY DEF TypeInv, TypeOK
    <3> QED BY <3>1, <3>2 DEF SetStatus, SubRec, Settings
  <2>3. ASSUME NEW modes, PauseAll(modes)
        PROVE  /\ UNCHANGED patch
               /\ \A r \in Subs : sub'[r].mode = sub[r].mode /\ sub'[r].status # "stopped"
    <3>2. sub \in [Subs -> SubRec]
      BY DEF TypeInv, TypeOK
    <3> QED BY <2>3, <3>2 DEF PauseAll, SubRec, Settings
  <2>4. ASSUME NEW s \in Subs, WriteMode(s) PROVE FALSE
    BY <2>4 DEF WriteMode, Settings
  <2>5. ASSUME NEW s \in Subs, NEW m \in Mode, NEW revive \in BOOLEAN, CheckMode(s, m, revive)
        PROVE  FALSE
    BY <2>5 DEF CheckMode, Calm, Upsets
  <2>6. ToggleUser => UNCHANGED <<sub, patch>>
    BY DEF ToggleUser
  <2> QED BY <1>1, <1>2, <2>1, <2>2, <2>3, <2>4, <2>5, <2>6 DEF RouterStep, Settings
<1>3. ASSUME NEW s \in Subs, NEW c \in Coins, NEW e \in Events,
             NEW new \in -MaxLead..MaxLead, LeaderTrade(s, c, e, new)
      PROVE  UNCHANGED <<rows, log, lock, notCopied, pos, rec, patch, sub>>
  BY <1>3 DEF LeaderTrade, db, venue, memory
<1>4. ASSUME NEW t \in Task, Redeliver(t)
      PROVE  UNCHANGED <<rows, log, lock, notCopied, pos, rec, patch, sub, event, lead>>
  BY <1>4 DEF Redeliver, db, venue, memory
<1>5. UNCHANGED vars => UNCHANGED <<rows, log, lock, notCopied, pos, rec, patch, sub, event, lead>>
  BY DEF vars, db, venue, memory
<1> QED BY <1>0, <1>1, <1>2, <1>3, <1>4, <1>5 DEF Next, Settings

(* A task may pause its subscription, nothing else. *)
LEMMA SubKept ==
  ASSUME TypeInv, NEW t \in Task, TaskStep(t), NEW s \in Subs
  PROVE  sub'[s].mode = sub[s].mode /\ sub'[s].status \in {sub[s].status, "paused"}
<1>0. sub \in [Subs -> SubRec]
  BY DEF TypeInv, TypeOK
<1>1. CASE UNCHANGED sub
  BY <1>1
<1>2. ASSUME NEW d, Finish(t, d)
      PROVE  sub'[s].mode = sub[s].mode /\ sub'[s].status = sub[s].status
  BY <1>0, <1>2 DEF Finish, SubRec
<1>3. CASE sub' = [sub EXCEPT ![Ev(t).sub].status = "paused"]
  BY <1>0, <1>3 DEF SubRec
<1>4. CASE Settle(t)
  <2>1. PICK hit \in BOOLEAN : sub' = [sub EXCEPT ![Ev(t).sub].loss = sub[Ev(t).sub].loss \/ hit]
    <3>1. CASE Ev(t).sub \in Subs
      BY <1>0, <1>4, <3>1 DEF Settle
    <3>2. CASE Ev(t).sub \notin Subs
      BY <1>0, <1>4, <3>2 DEF Settle
    <3> QED BY <3>1, <3>2
  <2> QED BY <1>0, <2>1 DEF SubRec
<1> QED BY <1>1, <1>2, <1>3, <1>4 DEF TaskStep, ExitStep, EntryStep, ReadSubs, Acquire, Release,
     Seen, Drop, ReadHeld, Claim, SkipExit, ShadowExit, CloseOrder, CloseAnswer, Unarm,
     FinishExit, SkipEntry, GateSkip, GateLoss, GatePass, ShadowEntry, OpenOrder,
     OpenAnswer, Arm, Record, FinishEntry, CheckPause, Skip, db

(* Every step keeps the settings as they are. *)
LEMMA SettingsStep == TypeInv /\ Calm /\ Settings /\ [Next]_vars => Settings'
<1> SUFFICES ASSUME TypeInv, Calm, Settings, [Next]_vars PROVE Settings'
  OBVIOUS
<1>1. ASSUME NEW t \in Task, TaskStep(t) PROVE Settings'
  <2>1. UNCHANGED <<rec, patch>>
    BY <1>1 DEF TaskStep
  <2> QED BY <1>1, <2>1, SubKept DEF Settings
<1>2. CASE ~ \E t \in Task : TaskStep(t)
  BY <1>2, Elsewhere DEF Settings
<1> QED BY <1>1, <1>2

(* The mode of a subscription is that of its tasks and of its open rows.    *)
OneMode ==
  /\ \A t \in Task : Inside(t) \/ At(t, "wait") => task[t].mode = sub[Ev(t).sub].mode
  /\ \A e \in Events : rows[e].status = "open" => rows[e].mode = sub[event[e].sub].mode

(* A delivered task keeps its event. *)
LEMMA EvStays ==
  ASSUME TypeInv, [Next]_vars, NEW u \in Task, task[u].pc # "idle"
  PROVE  Ev(u)' = Ev(u) /\ Ev(u) \in EventRec /\ event[u[1]] # None /\ u[1] \in Events
<1>1. event[u[1]] # None /\ u[1] \in Events
  BY DEF TypeInv, WellFormed, At, Task
<1> QED BY <1>1, EventsStay DEF Ev, TypeInv, TypeOK

(* With one subscription one task is inside a lock. *)
LEMMA OneActs ==
  ASSUME TypeInv, Calm, LockHeld, NEW t \in Task, NEW u \in Task, Inside(t), Inside(u)
  PROVE  t = u
  BY InsideType, OneInside DEF Calm

(* Every step keeps a subscription's tasks and rows in its mode. *)
LEMMA OneModeStep ==
  TypeInv /\ Calm /\ Settings /\ RowInv /\ OneMode /\ [Next]_vars => OneMode'
<1> SUFFICES ASSUME TypeInv, Calm, Settings, RowInv, OneMode, [Next]_vars
             PROVE  OneMode'
  OBVIOUS
<1>0. task \in [Task -> TaskRec]
  BY DEF TypeInv, TypeOK
<1>1. \A s \in Subs : sub'[s].mode = sub[s].mode
  <2>1. CASE \E t \in Task : TaskStep(t)
    BY <2>1, SubKept
  <2> QED BY <2>1, Elsewhere
<1>2. ASSUME NEW u \in Task, task'[u].pc \in Acting \cup {"next", "wait"}
      PROVE  task'[u].mode = sub'[Ev(u)'.sub].mode
  <2>1. CASE ~TaskStep(u)
    <3>1. ~Restart
      BY DEF Calm, Upsets, Restart
    <3>2. task'[u] = task[u]
      BY <1>2, <2>1, <3>1, OthersLeave DEF Acting
    <3>3. Ev(u)' = Ev(u) /\ Ev(u).sub \in Subs
      BY <1>2, <3>2, EvStays DEF Acting, EventRec
    <3> QED BY <1>1, <1>2, <3>2, <3>3 DEF OneMode, Inside, At
  <2>2. CASE TaskStep(u) /\ ReadSubs(u)
    <3>1. task[u].pc = "start" /\ Ev(u)' = Ev(u) /\ Ev(u).sub \in Subs
      BY <2>2, EvStays DEF ReadSubs, At, EventRec
    <3>2. task'[u].pc = "done" \/ task'[u].mode = sub[Ev(u).sub].mode
      BY <1>0, <2>2 DEF ReadSubs, Goto, TaskRec
    <3> QED BY <1>1, <1>2, <3>1, <3>2 DEF Acting
  <2>3. CASE TaskStep(u) /\ ~ReadSubs(u)
    <3>1. task'[u].mode = task[u].mode /\ (Inside(u) \/ At(u, "wait"))
      <4>1. CASE Acquire(u)
        BY <1>0, <4>1 DEF Acquire, Goto, At, TaskRec
      <4>2. CASE Release(u)
        BY <1>0, <1>2, <4>2 DEF Release, Fresh, Acting
      <4>3. CASE ReadHeld(u)
        BY <4>3, ReadHeldShape
      <4>4. CASE Leaves(u)
        BY <4>4 DEF Leaves
      <4>5. CASE Advances(u)
        BY <4>5 DEF Advances, Edge, Inside, Acting
      <4> QED BY <2>3, <4>1, <4>2, <4>3, <4>4, <4>5, StepShape DEF Queues
    <3>2. Ev(u)' = Ev(u) /\ Ev(u).sub \in Subs
      BY <3>1, EvStays DEF Inside, Acting, At, EventRec
    <3> QED BY <1>1, <3>1, <3>2 DEF OneMode
  <2> QED BY <2>1, <2>2, <2>3
<1>3. ASSUME NEW e \in Events, rows'[e].status = "open"
      PROVE  rows'[e].mode = sub'[event'[e].sub].mode
  <2>1. ASSUME rows[e].status = "open", rows'[e].mode = rows[e].mode
        PROVE  rows'[e].mode = sub'[event'[e].sub].mode
    <3>1. event[e] # None /\ event'[e] = event[e]
      BY <2>1, EventsStay DEF TypeInv, RowsKnown
    <3>2. event[e].sub \in Subs
      BY <3>1 DEF TypeInv, TypeOK, EventRec
    <3> QED BY <1>1, <2>1, <3>1, <3>2 DEF OneMode
  <2>2. ASSUME NEW t \in Task, Books(t) PROVE rows'[e].mode = sub'[event'[e].sub].mode
    <3>1. CASE e = t[1]
      <4>1. Inside(t) /\ rows'[e].mode = task[t].mode
        BY <2>2, <3>1, BookedRow, BookingOpens
      <4>2. Ev(t)' = Ev(t) /\ Ev(t).sub \in Subs
        BY <4>1, EvStays DEF Inside, Acting, EventRec
      <4> QED BY <1>1, <3>1, <4>1, <4>2 DEF OneMode, Ev
    <3>2. CASE e # t[1]
      BY <1>3, <2>1, <2>2, <3>2, BookedRow
    <3> QED BY <3>1, <3>2
  <2>3. CASE ~ \E t \in Task : Books(t)
    BY <1>3, <2>1, <2>3, RowsMove DEF RowInv, RowsShrink
  <2> QED BY <2>2, <2>3
<1> QED BY <1>2, <1>3 DEF OneMode, Inside, At

-----------------------------------------------------------------------------
(* The chain of the leader's events.                                        *)

(* The events of a market follow one another: each begins where the one     *)
(* before it ended, and the leader is where the last one ended.             *)
Known(e)        == event[e] # None
KnownEvents     == {e \in Events : Known(e)}
Precedes(d, e)  == Known(d) /\ Known(e) /\ event[d].coin = event[e].coin /\ event[d].n < event[e].n
NextTo(d, e)    == Precedes(d, e) /\ \A f \in Events : ~(Precedes(d, f) /\ Precedes(f, e))
Newest(d)       == Known(d) /\ \A f \in Events : ~Precedes(d, f)

Numbered ==
  /\ \A e \in Events : Known(e) =>
       event[e].n <= Cardinality(KnownEvents) /\ event[e].old # event[e].new
  /\ \A d, e \in Events : Known(d) /\ Known(e) /\ event[d].n = event[e].n => d = e
Linked ==
  /\ \A d, e \in Events : NextTo(d, e) => event[e].old = event[d].new
  /\ \A d \in Events : Newest(d) => \A s \in Subs : lead[s][event[d].coin] = event[d].new

ChainInv == Numbered /\ Linked

(* A trade of the leader stores the newest event. *)
LEMMA TradeShape ==
  ASSUME TypeInv, Numbered, NEW s \in Subs, NEW c \in Coins, NEW e \in Events,
         NEW new \in -MaxLead..MaxLead, LeaderTrade(s, c, e, new)
  PROVE  /\ ~Known(e) /\ Known(e)' /\ \A d \in Events \ {e} : event'[d] = event[d]
         /\ event'[e].sub = s /\ event'[e].coin = c
         /\ event'[e].old = lead[s][c] /\ event'[e].new = new /\ new # lead[s][c]
         /\ event'[e].n = Cardinality(KnownEvents) + 1
         /\ Cardinality(KnownEvents)' = Cardinality(KnownEvents) + 1
         /\ Cardinality(KnownEvents) \in Nat
         /\ \A d \in Events : Known(d) => event[d].n \in Nat /\ event[d].n < event'[e].n
         /\ lead'[s][c] = new
         /\ \A k \in Coins \ {c} : lead'[s][k] = lead[s][k]
<1> DEFINE r == [sub |-> s, coin |-> c, old |-> lead[s][c], new |-> new,
                 n |-> Cardinality(KnownEvents) + 1]
<1>1. event' = [event EXCEPT ![e] = r] /\ event[e] = None /\ new # lead[s][c]
      /\ lead' = [lead EXCEPT ![s][c] = new]
  BY DEF LeaderTrade, KnownEvents, Known
<1>2. event \in [Events -> EventRec \cup {None}] /\ lead \in [Subs -> [Coins -> Int]]
  BY DEF TypeInv, TypeOK
<1>3. IsFiniteSet(KnownEvents) /\ Cardinality(KnownEvents) \in Nat
  BY ConstantsOK, FS_Subset, FS_CardinalityType DEF KnownEvents
<1>4. r \in EventRec /\ r # None
  <2>1. r \in EventRec
    BY <1>2, <1>3 DEF EventRec
  <2> HIDE DEF r
  <2> QED BY <2>1, NoneIsNoEvent
<1>5. event'[e] = r /\ \A d \in Events \ {e} : event'[d] = event[d]
  BY <1>1, <1>2
<1>6. ~Known(e) /\ Known(e)'
  BY <1>1, <1>4, <1>5 DEF Known
<1>7. KnownEvents' = KnownEvents \cup {e} /\ e \notin KnownEvents
  BY <1>5, <1>6 DEF KnownEvents, Known
<1>8. Cardinality(KnownEvents') = Cardinality(KnownEvents) + 1
  BY <1>3, <1>7, FS_AddElement
<1>9. \A d \in Events : Known(d) => event[d].n \in Nat /\ event[d].n < Cardinality(KnownEvents) + 1
  <2>1. \A d \in Events : Known(d) => event[d].n \in Nat
    BY <1>2 DEF Known, EventRec
  <2> QED BY <1>3, <2>1 DEF Numbered
<1> QED BY <1>1, <1>2, <1>3, <1>5, <1>6, <1>8, <1>9

(* Every step keeps the chain of events. *)
LEMMA ChainStep == TypeInv /\ Calm /\ Settings /\ ChainInv /\ [Next]_vars => ChainInv'
<1> SUFFICES ASSUME TypeInv, Calm, Settings, ChainInv, [Next]_vars PROVE ChainInv'
  OBVIOUS
<1>1. CASE UNCHANGED <<event, lead>>
  BY <1>1 DEF ChainInv, Numbered, Linked, KnownEvents, Known, Precedes, NextTo, Newest
<1>2. ASSUME NEW s \in Subs, NEW c \in Coins, NEW e \in Events,
             NEW new \in -MaxLead..MaxLead, LeaderTrade(s, c, e, new)
      PROVE  ChainInv'
  <2>0. /\ ~Known(e) /\ Known(e)' /\ \A d \in Events \ {e} : event'[d] = event[d]
        /\ event'[e].sub = s /\ event'[e].coin = c
        /\ event'[e].old = lead[s][c] /\ event'[e].new = new /\ new # lead[s][c]
        /\ event'[e].n = Cardinality(KnownEvents) + 1
        /\ Cardinality(KnownEvents)' = Cardinality(KnownEvents) + 1
        /\ Cardinality(KnownEvents) \in Nat
        /\ \A d \in Events : Known(d) => event[d].n \in Nat /\ event[d].n < event'[e].n
        /\ lead'[s][c] = new
        /\ \A k \in Coins \ {c} : lead'[s][k] = lead[s][k]
    BY <1>2, TradeShape DEF ChainInv
  <2>1. \A d \in Events \ {e} : Known(d)' <=> Known(d)
    BY <2>0 DEF Known
  <2>2. Numbered'
    <3>1. ASSUME NEW d \in Events, Known(d)'
          PROVE  event'[d].n <= Cardinality(KnownEvents)' /\ event'[d].old # event'[d].new
      BY <2>0, <2>1, <3>1 DEF ChainInv, Numbered
    <3>2. ASSUME NEW d \in Events, NEW f \in Events, Known(d)', Known(f)',
                 event'[d].n = event'[f].n
          PROVE  d = f
      BY <2>0, <2>1, <3>2 DEF ChainInv, Numbered
    <3> QED BY <3>1, <3>2 DEF Numbered
  <2>3. \A d, f \in Events \ {e} : Precedes(d, f)' <=> Precedes(d, f)
    BY <2>0, <2>1 DEF Precedes
  <2>4. \A d \in Events \ {e} : /\ Precedes(d, e)' <=> Known(d) /\ event[d].coin = c
                                /\ ~Precedes(e, d)'
    BY <2>0, <2>1 DEF Precedes
  <2>5. ASSUME NEW d \in Events, NEW f \in Events, NextTo(d, f)'
        PROVE  event'[f].old = event'[d].new
    <3>1. d # e
      <4>1. ~Precedes(e, e)'
        BY <2>0 DEF Precedes
      <4> QED BY <2>4, <2>5, <4>1 DEF NextTo
    <3>2. CASE f # e
      <4>1. ASSUME NEW g \in Events PROVE ~(Precedes(d, g) /\ Precedes(g, f))
        <5>1. g = e => ~Precedes(d, g)
          BY <2>0 DEF Precedes
        <5> QED BY <2>3, <2>5, <3>1, <3>2, <5>1 DEF NextTo
      <4>2. NextTo(d, f)
        BY <2>3, <2>5, <3>1, <3>2, <4>1 DEF NextTo
      <4> QED BY <2>0, <3>1, <3>2, <4>2 DEF ChainInv, Linked
    <3>3. CASE f = e
      <4>1. Known(d) /\ event[d].coin = c
        BY <2>4, <2>5, <3>1, <3>3 DEF NextTo
      <4>2. ASSUME NEW g \in Events, Precedes(d, g) PROVE FALSE
        <5>1. g # e /\ Known(g) /\ event[g].coin = c
          BY <2>0, <4>1, <4>2 DEF Precedes
        <5> QED BY <2>3, <2>4, <2>5, <3>1, <3>3, <4>2, <5>1 DEF NextTo
      <4> QED BY <2>0, <3>1, <3>3, <4>1, <4>2 DEF ChainInv, Linked, Newest
    <3> QED BY <3>2, <3>3
  <2>6. ASSUME NEW d \in Events, Newest(d)', NEW r \in Subs
        PROVE  lead'[r][event'[d].coin] = event'[d].new
    <3>0. r = s
      BY DEF Calm
    <3>1. CASE d = e
      BY <2>0, <3>0, <3>1
    <3>2. CASE d # e
      <4>1. Known(d) /\ event[d].coin # c /\ event[d].coin \in Coins
        BY <2>1, <2>4, <2>6, <3>2 DEF Newest, TypeInv, TypeOK, Known, EventRec
      <4>2. Newest(d)
        BY <2>0, <2>3, <2>6, <3>2, <4>1 DEF Newest, Precedes
      <4> QED BY <2>0, <3>0, <3>2, <4>1, <4>2 DEF ChainInv, Linked
    <3> QED BY <3>1, <3>2
  <2> QED BY <2>2, <2>5, <2>6 DEF ChainInv, Linked
<1>3. ASSUME NEW t \in Task, TaskStep(t) PROVE ChainInv'
  BY <1>1, <1>3 DEF TaskStep
<1> QED BY <1>1, <1>2, <1>3, Elsewhere

-----------------------------------------------------------------------------
(* How far the copies have followed the chain.                              *)

(* The keys of the log and of the memory of dropped actions tell how far    *)
(* the subscription has followed the chain: events are met in the order     *)
(* they were stored, each by one delivery that takes all its keys before    *)
(* it leaves the lock.                                                      *)
Taken(k) == log[k] # "none" \/ k \in notCopied
Unmet(e) == Known(e) /\ ~Taken(<<e, 1>>)
Flips(e) == IsFlip(event[e].old, event[e].new)
Past(t)  == Inside(t) /\ ~(task[t].act = 1 /\ task[t].pc \in {"next", "claim"})

Unheard     == \A e \in Events : ~Known(e) => ~Taken(<<e, 1>>) /\ ~Taken(<<e, 2>>)
FirstWaits  == \A e \in Events : Unmet(e) => task[<<e, 1>>].pc \in {"start", "wait", "next", "claim"}
NoneOlder   == \A t \in Task, d \in Events : Inside(t) /\ Unmet(d) => event[d].n >= Ev(t).n
InOrder     == \A d, e \in Events : Unmet(d) /\ Known(e) /\ event[e].n > event[d].n => Unmet(e)
AfterFirst  == \A t \in Task : Past(t) => Taken(<<t[1], 1>>)
Halves      ==
  \A e \in Events : Known(e) =>
    /\ ~Taken(<<e, 1>>) => ~Taken(<<e, 2>>)
    /\ Flips(e) /\ Taken(<<e, 1>>) /\ ~Taken(<<e, 2>>)
         => \E t \in Task : t[1] = e /\ Past(t) /\ task[t].act <= 2
ClaimUnseen == \A t \in Task : At(t, "claim") => KeyOf(t) \notin notCopied

KeysInv == /\ Unheard /\ FirstWaits /\ NoneOlder /\ InOrder /\ AfterFirst /\ Halves /\ ClaimUnseen

(* A step that takes the key of its task's action. *)
Takes(t, k) == /\ TaskStep(t) /\ Inside(t) /\ task[t].pc \in {"next", "claim"}
               /\ k = KeyOf(t) /\ ~Taken(k) /\ Taken(k)'

(* Only a drop is remembered, with the key dropped. *)
LEMMA DropsOne ==
  ASSUME NEW t \in Task, TaskStep(t)
  PROVE  UNCHANGED notCopied \/ (Drop(t) /\ notCopied' = notCopied \cup {KeyOf(t)})
BY DEF TaskStep, ExitStep, EntryStep, ReadSubs, Acquire, Release, Seen,
       Drop, ReadHeld, Claim, SkipExit, ShadowExit, CloseOrder, CloseAnswer, Unarm, Settle,
       FinishExit, SkipEntry, GateSkip, GateLoss, GatePass, ShadowEntry, OpenOrder,
       OpenAnswer, Arm, Record, FinishEntry, CheckPause, memory

(* A key once taken stays so, and is taken by a task at its action. *)
LEMMA TakenMoves ==
  ASSUME TypeInv, OnceInv, Calm, Settings, [Next]_vars, NEW k \in Key
  PROVE  /\ Taken(k) => Taken(k)'
         /\ Taken(k)' /\ ~Taken(k) => \E t \in Task : Takes(t, k)
<1>1. log[k] # "none" => log'[k] # "none"
  BY LogGrows
<1>2. ASSUME NEW t \in Task, TaskStep(t)
      PROVE  /\ Taken(k) => Taken(k)'
             /\ k \in notCopied' => k \in notCopied \/ (Drop(t) /\ k = KeyOf(t))
  BY <1>1, <1>2, DropsOne DEF Taken
<1>3. (~ \E t \in Task : TaskStep(t)) => (Taken(k)' <=> Taken(k))
  BY Elsewhere DEF Taken
<1>4. ASSUME Taken(k)', ~Taken(k) PROVE \E t \in Task : Takes(t, k)
  <2>1. CASE log'[k] # "none"
    <3>1. PICK t \in Task : TaskStep(t) /\ Claim(t) /\ k = KeyOf(t)
      BY <1>4, <2>1, LogGrows DEF Taken
    <3> QED BY <1>4, <3>1 DEF Takes, Claim, At, Inside, Acting, Taken
  <2>2. CASE log'[k] = "none"
    <3>1. PICK t \in Task : TaskStep(t) /\ Drop(t) /\ k = KeyOf(t)
      BY <1>2, <1>3, <1>4, <2>2 DEF Taken
    <3> QED BY <1>4, <3>1 DEF Takes, Drop, Working, At, Inside, Taken
  <2> QED BY <2>1, <2>2
<1> QED BY <1>2, <1>3, <1>4

(* An event has two keys, and the second only matters when it flips. *)
LEMMA KeysOf ==
  ASSUME TypeInv, NEW e \in Events
  PROVE  /\ <<e, 1>> \in Key /\ <<e, 2>> \in Key
         /\ Known(e) => Len(ActsOfEvent(e)) = IF Flips(e) THEN 2 ELSE 1
<1>1. Known(e) => event[e].old \in Int /\ event[e].new \in Int
  BY DEF TypeInv, TypeOK, Known, EventRec
<1> QED BY <1>1 DEF Key, ActsOfEvent, Flips, Normalize

(* A task that acts on its second action mirrors a flip. *)
LEMMA ActsWithin ==
  ASSUME TypeInv, NEW t \in Task, Inside(t)
  PROVE  /\ t[1] \in Events /\ Known(t[1]) /\ task[t].act \in Nat /\ task[t].act >= 1
         /\ ActsOf(t) = ActsOfEvent(t[1]) /\ Ev(t) = event[t[1]]
         /\ task[t].pc \in Acting => task[t].act = 1 \/ (task[t].act = 2 /\ Flips(t[1]))
<1>1. /\ t[1] \in Events /\ Known(t[1]) /\ task[t].act \in Nat /\ task[t].act >= 1
      /\ ActsOf(t) = ActsOfEvent(t[1]) /\ Ev(t) = event[t[1]]
  BY DEF TypeInv, TypeOK, WellFormed, Inside, Acting, At, Task, TaskRec, Known, ActsOf,
         ActsOfEvent, Ev
<1>2. task[t].pc \in Acting => task[t].act <= Len(ActsOfEvent(t[1]))
  BY <1>1 DEF TypeInv, WellFormed
<1>3. Len(ActsOfEvent(t[1])) = IF Flips(t[1]) THEN 2 ELSE 1
  BY <1>1, KeysOf
<1> HIDE DEF ActsOfEvent
<1> QED BY <1>1, <1>2, <1>3

(* A task inside the lock that does not move stays what it was. *)
LEMMA StandsStill ==
  ASSUME TypeInv, Calm, [Next]_vars, NEW u \in Task, ~TaskStep(u), task[u].pc # "idle"
  PROVE  task'[u] = task[u] /\ Ev(u)' = Ev(u) /\ KeyOf(u)' = KeyOf(u)
<1>1. ~Restart
  BY DEF Calm, Upsets, Restart
<1> QED BY <1>1, OthersLeave, EvStays DEF KeyOf

(* A task that has taken its first key takes no other's. *)
LEMMA PastStep ==
  ASSUME TypeInv, Calm, OnceInv, OnceInv', LostInv, AfterFirst, [Next]_vars, NEW t \in Task, Past(t)',
         \A k \in Key : Taken(k) => Taken(k)'
  PROVE  Taken(<<t[1], 1>>)'
<1>0. task \in [Task -> TaskRec] /\ <<t[1], 1>> \in Key
  BY KeysOf DEF TypeInv, TypeOK, Task
<1>1. CASE ~TaskStep(t)
  <2>1. task'[t] = task[t] /\ Inside(t)
    BY <1>1, OthersStand DEF Past
  <2> QED BY <1>0, <2>1 DEF Past, AfterFirst, Inside
<1>2. CASE Past(t)
  BY <1>0, <1>2 DEF AfterFirst
<1>3. CASE TaskStep(t) /\ ~Past(t)
  <2>1. ~ReadHeld(t)
    BY <1>3, ReadHeldShape DEF Past, Inside
  <2>2. ~Queues(t)
    <3>1. CASE Acquire(t)
      <4>1. task'[t].pc = "next" /\ task'[t].act = 1
        BY <1>0, <3>1 DEF Acquire, Goto, At, TaskRec, LostInv, QueuedFirst
      <4> QED BY <4>1 DEF Past
    <3>2. CASE ReadSubs(t)
      BY <1>0, <3>2 DEF ReadSubs, Goto, TaskRec, Past, Inside, Acting
    <3>3. CASE Release(t)
      BY <1>0, <3>3 DEF Release, Fresh, Past, Inside, Acting
    <3> QED BY <3>1, <3>2, <3>3 DEF Queues
  <2>3. CASE Leaves(t)
    <3>1. task[t].act = 1 /\ KeyOf(t) = <<t[1], 1>>
      BY <1>3, <2>3 DEF Leaves, Past, KeyOf
    <3> QED BY <1>3, <2>3, <3>1, LeavesSeen DEF Taken
  <2>4. CASE Advances(t)
    <3>1. Inside(t) /\ task[t].act = 1 /\ task'[t].act = 1 /\ task'[t].pc \in Claimed
      BY <1>3, <2>4 DEF Advances, Edge, Past, Inside, Acting, Claimed
    <3>2. KeyOf(t)' = <<t[1], 1>>
      BY <3>1 DEF KeyOf
    <3> QED BY <3>1, <3>2 DEF OnceInv, ClaimLogged, Taken
  <2> QED BY <1>3, <2>1, <2>2, <2>3, <2>4, StepShape
<1> QED BY <1>1, <1>2, <1>3

(* What a step may do to the stored events. *)
LEMMA EventsGrow ==
  ASSUME TypeInv, Calm, Settings, ChainInv, KeysInv, [Next]_vars, NEW e \in Events, ~Known(e), Known(e)'
  PROVE  /\ \A d \in Events : Known(d) => event[d].n < event'[e].n /\ event[d].n \in Nat
         /\ task'[<<e, 1>>].pc = "start" /\ ~(\E t \in Task : TaskStep(t))
         /\ ~Taken(<<e, 1>>)' /\ ~Taken(<<e, 2>>)'
         /\ \A d \in Events : Known(d)' => d = e \/ Known(d)
<1>1. ~ \E t \in Task : TaskStep(t)
  BY DEF TaskStep, Known
<1>2. PICK s \in Subs, c \in Coins, d \in Events, new \in -MaxLead..MaxLead : LeaderTrade(s, c, d, new)
  BY <1>1, Elsewhere DEF Known
<1>3. d = e
  BY <1>2, TradeShape DEF ChainInv, Known
<1>4. task'[<<e, 1>>].pc = "start"
  BY <1>2, <1>3, FirstTask DEF LeaderTrade, Goto, TypeInv, TypeOK, TaskRec
<1>5. ~Taken(<<e, 1>>)' /\ ~Taken(<<e, 2>>)'
  BY <1>1, Elsewhere DEF KeysInv, Unheard, Taken
<1>6. \A f \in Events : Known(f) => event[f].n < event'[e].n /\ event[f].n \in Nat
  BY <1>2, <1>3, TradeShape DEF ChainInv
<1>7. \A f \in Events : Known(f)' => f = e \/ Known(f)
  BY <1>2, <1>3, TradeShape DEF ChainInv, Known
<1> QED BY <1>1, <1>4, <1>5, <1>6, <1>7

(* A first delivery waits, or works, until its first key is taken. *)
LEMMA FirstWaitsStep ==
  ASSUME TypeInv, Calm, Settings, OnceInv, OnceInv', LostInv, ChainInv, KeysInv, [Next]_vars,
         \A k \in Key : Taken(k) => Taken(k)', AfterFirst'
  PROVE  FirstWaits'
<1> SUFFICES ASSUME NEW e \in Events, Unmet(e)'
             PROVE  task'[<<e, 1>>].pc \in {"start", "wait", "next", "claim"}
  BY DEF FirstWaits
<1> DEFINE u == <<e, 1>>
<1>0. task \in [Task -> TaskRec] /\ u \in Task /\ <<e, 1>> \in Key /\ u[1] = e
  BY FirstTask, KeysOf DEF TypeInv, TypeOK
<1>1. CASE ~Known(e)
  BY <1>1, EventsGrow DEF Unmet
<1>2. CASE Known(e)
  <2>1. Unmet(e) /\ ~Past(u) /\ ~Past(u)' /\ task[u].pc \in {"start", "wait", "next", "claim"}
    BY <1>0, <1>2 DEF Unmet, KeysInv, FirstWaits, AfterFirst
  <2>2. CASE ~TaskStep(u)
    BY <1>0, <2>1, <2>2, StandsStill
  <2>3. CASE TaskStep(u) /\ ReadSubs(u)
    <3>1. Ev(u) \in EventRec
      BY <1>0, <2>1, EvStays
    <3>2. sub[Ev(u).sub].status # "stopped"
      BY <3>1 DEF Settings, EventRec
    <3> QED BY <1>0, <2>3, <3>2 DEF ReadSubs, TaskRec
  <2>4. CASE TaskStep(u) /\ Acquire(u)
    BY <1>0, <2>4 DEF Acquire, Goto, TaskRec
  <2>5. CASE TaskStep(u) /\ Release(u)
    <3>1. Inside(u) /\ task[u].act = 1
      BY <1>0, <2>1, <2>5 DEF Release, At, Inside, Past
    <3>2. ActsOf(u) = ActsOfEvent(e) /\ Len(ActsOfEvent(e)) \in {1, 2}
      BY <1>0, <1>2, <3>1, ActsWithin, KeysOf
    <3> QED BY <2>5, <3>1, <3>2 DEF Release
  <2>6. CASE ReadHeld(u)
    BY <1>0, <2>6, ReadHeldShape
  <2>7. CASE Leaves(u)
    BY <2>7 DEF Leaves
  <2>8. CASE Advances(u)
    <3>1. Inside(u) /\ Inside(u)' /\ task'[u].pc \in Acting \ {"claim"}
      BY <2>1, <2>8 DEF Advances, Edge, Inside, Acting
    <3> QED BY <2>1, <3>1 DEF Past, Acting
  <2> QED BY <1>0, <2>2, <2>3, <2>4, <2>5, <2>6, <2>7, <2>8, StepShape DEF Queues
<1> QED BY <1>1, <1>2

(* No event older than the one a task is working on is still unmet. *)
LEMMA NoneOlderStep ==
  ASSUME TypeInv, Calm, Settings, RowInv, ChainInv, KeysInv, [Next]_vars,
         \A k \in Key : Taken(k) => Taken(k)'
  PROVE  NoneOlder'
<1> SUFFICES ASSUME NEW t \in Task, NEW d \in Events, Inside(t)', Unmet(d)'
             PROVE  event'[d].n >= Ev(t)'.n
  BY DEF NoneOlder
<1>0. task \in [Task -> TaskRec] /\ <<d, 1>> \in Key /\ <<d, 1>> \in Task /\ None \notin Task
  BY KeysOf, FirstTask, ConstantsOK DEF TypeInv, TypeOK, Task
<1>1. task[t].pc # "idle" /\ (Inside(t) \/ (TaskStep(t) /\ Acquire(t)))
  <2>1. CASE ~TaskStep(t)
    BY <2>1, OthersStand DEF Inside, Acting
  <2>2. CASE TaskStep(t)
    <3>1. ~ReadSubs(t) /\ ~Release(t)
      BY <1>0, <2>2 DEF ReadSubs, Release, Goto, Fresh, TaskRec, Inside, Acting
    <3> QED BY <2>2, <3>1, StepShape, ReadHeldShape DEF Queues, Leaves, Advances, Edge, Inside,
               Acting, Acquire, At
  <2> QED BY <2>1, <2>2
<1>2. Ev(t)' = Ev(t) /\ Ev(t) \in EventRec /\ Known(t[1]) /\ t[1] \in Events /\ Ev(t) = event[t[1]]
  BY <1>1, EvStays DEF Known, Ev
<1>3. CASE ~Known(d)
  <2>1. Ev(t).n < event'[d].n /\ Ev(t).n \in Nat
    BY <1>2, <1>3, EventsGrow DEF Unmet
  <2>2. event'[d].n \in Int
    <3>1. ~ \E u \in Task : TaskStep(u)
      BY <1>3, EventsGrow DEF Unmet
    <3>2. PICK s \in Subs, c \in Coins, e \in Events, new \in -MaxLead..MaxLead :
            LeaderTrade(s, c, e, new)
      BY <1>3, <3>1, Elsewhere DEF Unmet, Known
    <3> QED BY <1>3, <3>2, TradeShape DEF Unmet, Known, ChainInv
  <2> QED BY <1>2, <2>1, <2>2
<1>4. CASE Known(d)
  <2>1. Unmet(d) /\ event'[d] = event[d] /\ event[d].n \in Nat /\ event[d].sub \in Subs
    BY <1>0, <1>4, EventsStay DEF Unmet, Known, TypeInv, TypeOK, EventRec
  <2>2. CASE Inside(t)
    BY <1>2, <2>1, <2>2 DEF KeysInv, NoneOlder
  <2>3. CASE TaskStep(t) /\ Acquire(t)
    <3>1. lock[Ev(t).sub] = None /\ ~OlderOutside(t)
      BY <2>3 DEF Acquire, Calm, Upsets
    <3> DEFINE u == <<d, 1>>
    <3>2. Ev(u) = event[d] /\ Ev(u).sub = Ev(t).sub /\ u \in Task
      BY <1>0, <1>2, <2>1 DEF Ev, Calm, EventRec
    <3>3. ~Inside(u)
      BY <1>0, <3>1, <3>2 DEF RowInv, LockHeld
    <3>4. task[u].pc \in {"start", "wait"}
      BY <1>0, <2>1, <3>3 DEF KeysInv, FirstWaits, Inside, Acting
    <3>5. ~(Ev(u).n < Ev(t).n)
      BY <1>0, <1>4, <3>1, <3>2, <3>4 DEF OlderOutside, Known
    <3> QED BY <1>2, <2>1, <3>2, <3>5 DEF EventRec
  <2> QED BY <1>1, <2>2, <2>3
<1> QED BY <1>3, <1>4

(* Events stay met in the order they were stored. *)
LEMMA InOrderStep ==
  ASSUME TypeInv, Calm, Settings, OnceInv, ChainInv, KeysInv, [Next]_vars,
         \A k \in Key : Taken(k) => Taken(k)'
  PROVE  InOrder'
<1> SUFFICES ASSUME NEW d \in Events, NEW e \in Events, Unmet(d)', Known(e)',
                    event'[e].n > event'[d].n
             PROVE  Unmet(e)'
  BY DEF InOrder
<1>0. <<d, 1>> \in Key /\ <<e, 1>> \in Key
  BY KeysOf
<1>1. CASE ~Known(e)
  BY <1>1, EventsGrow DEF Unmet
<1>2. CASE Known(e)
  <2>1. event'[e] = event[e] /\ event[e].n \in Nat
    BY <1>2, EventsStay DEF Known, TypeInv, TypeOK, EventRec
  <2>2. Known(d)
    <3>1. ASSUME ~Known(d) PROVE FALSE
      <4>1. event[e].n < event'[d].n
        BY <1>2, <3>1, EventsGrow DEF Unmet
      <4>2. event'[d].n \in Int
        <5>1. ~ \E u \in Task : TaskStep(u)
          BY <3>1, EventsGrow DEF Unmet
        <5>2. PICK s \in Subs, c \in Coins, f \in Events, new \in -MaxLead..MaxLead :
                LeaderTrade(s, c, f, new)
          BY <3>1, <5>1, Elsewhere DEF Unmet, Known
        <5> QED BY <3>1, <5>2, TradeShape DEF Unmet, Known, ChainInv
      <4> QED BY <2>1, <4>1, <4>2
    <3> QED BY <3>1
  <2>3. Unmet(d) /\ event'[d] = event[d]
    BY <1>0, <2>2, EventsStay DEF Unmet, Known
  <2>4. Unmet(e)
    BY <1>2, <2>1, <2>3 DEF KeysInv, InOrder
  <2>5. ASSUME Taken(<<e, 1>>)' PROVE FALSE
    <3>1. PICK t \in Task : Takes(t, <<e, 1>>)
      BY <1>0, <2>4, <2>5, TakenMoves DEF Unmet
    <3>2. Inside(t) /\ t[1] = e /\ Ev(t) = event[e]
      BY <3>1 DEF Takes, KeyOf, Ev
    <3>3. event[d].n >= event[e].n
      BY <2>3, <3>2 DEF KeysInv, NoneOlder
    <3>4. event[d].n \in Nat
      BY <2>2 DEF Known, TypeInv, TypeOK, EventRec
    <3> QED BY <2>1, <2>3, <3>3, <3>4
  <2> QED BY <2>5 DEF Unmet
<1> QED BY <1>1, <1>2

(* The keys of an event that was not stored are free. *)
LEMMA UnheardStep ==
  ASSUME TypeInv, Calm, Settings, OnceInv, ChainInv, KeysInv, [Next]_vars
  PROVE  Unheard'
<1> SUFFICES ASSUME NEW e \in Events, ~Known(e)', NEW i \in {1, 2}, Taken(<<e, i>>)'
             PROVE  FALSE
  BY DEF Unheard
<1>1. ~Known(e)
  BY EventsStay DEF Known
<1>2. <<e, i>> \in Key /\ ~Taken(<<e, i>>)
  BY <1>1 DEF KeysInv, Unheard, Key
<1>3. PICK t \in Task : Takes(t, <<e, i>>)
  BY <1>2, TakenMoves
<1> QED BY <1>1, <1>3, ActsWithin DEF Takes, KeyOf

(* A key about to be claimed is not among the dropped. *)
LEMMA ClaimUnseenStep ==
  ASSUME TypeInv, Calm, Settings, RowInv, KeysInv, [Next]_vars
  PROVE  ClaimUnseen'
<1> SUFFICES ASSUME NEW u \in Task, task'[u].pc = "claim" PROVE KeyOf(u)' \notin notCopied'
  BY DEF ClaimUnseen, At
<1>0. task \in [Task -> TaskRec]
  BY DEF TypeInv, TypeOK
<1>1. CASE TaskStep(u)
  <2>1. ReadHeld(u)
    <3>1. ~Queues(u)
      BY <1>0 DEF Queues, ReadSubs, Acquire, Release, Goto, Fresh, TaskRec
    <3> QED BY <1>1, <3>1, StepShape DEF Leaves, Advances, Edge
  <2> QED BY <2>1, ReadHeldShape DEF KeyOf
<1>2. CASE ~TaskStep(u)
  <2>1. task'[u] = task[u] /\ Inside(u) /\ KeyOf(u)' = KeyOf(u)
    BY <1>2, OthersStand DEF Inside, Acting, KeyOf
  <2>2. KeyOf(u) \notin notCopied
    BY <2>1 DEF KeysInv, ClaimUnseen, At
  <2>3. ASSUME NEW t \in Task, TaskStep(t), Drop(t) PROVE FALSE
    <3>1. Inside(t)
      BY <2>3 DEF Drop, Working, At, Inside
    <3> QED BY <1>2, <2>1, <2>3, <3>1, OneActs DEF RowInv
  <2>4. UNCHANGED notCopied
    <3>1. CASE \E t \in Task : TaskStep(t)
      BY <2>3, <3>1, DropsOne
    <3> QED BY <3>1, OutsideShape DEF Restart, Calm, Upsets
  <2> QED BY <2>1, <2>2, <2>4
<1> QED BY <1>1, <1>2

(* The two keys of a flip are taken by one delivery, in turn. *)
LEMMA HalvesStep ==
  ASSUME TypeInv, Calm, Settings, OnceInv, RowInv, ChainInv, KeysInv, [Next]_vars,
         \A k \in Key : Taken(k) => Taken(k)'
  PROVE  Halves'
<1> SUFFICES ASSUME NEW e \in Events, Known(e)'
             PROVE  /\ ~Taken(<<e, 1>>)' => ~Taken(<<e, 2>>)'
                    /\ Flips(e)' /\ Taken(<<e, 1>>)' /\ ~Taken(<<e, 2>>)'
                         => \E t \in Task : t[1] = e /\ Past(t)' /\ task'[t].act <= 2
  BY DEF Halves
<1>0. task \in [Task -> TaskRec] /\ <<e, 1>> \in Key /\ <<e, 2>> \in Key
  BY KeysOf DEF TypeInv, TypeOK
<1>1. CASE ~Known(e)
  BY <1>1, EventsGrow
<1>2. ASSUME Known(e), ~Taken(<<e, 1>>)', Taken(<<e, 2>>)' PROVE FALSE
  <2>1. ~Taken(<<e, 1>>) /\ ~Taken(<<e, 2>>)
    BY <1>0, <1>2 DEF KeysInv, Halves
  <2>2. PICK t \in Task : Takes(t, <<e, 2>>)
    BY <1>0, <1>2, <2>1, TakenMoves
  <2>3. Past(t) /\ t[1] = e
    BY <2>2 DEF Takes, KeyOf, Past
  <2> QED BY <2>1, <2>3 DEF KeysInv, AfterFirst
<1>3. ASSUME Known(e), Flips(e)', Taken(<<e, 1>>)', ~Taken(<<e, 2>>)'
      PROVE  \E t \in Task : t[1] = e /\ Past(t)' /\ task'[t].act <= 2
  <2>1. Flips(e) /\ ~Taken(<<e, 2>>)
    <3>1. event'[e] = event[e]
      BY <1>3, EventsStay DEF Known
    <3> QED BY <1>0, <1>3, <3>1 DEF Flips
  <2>2. CASE Taken(<<e, 1>>)
    <3>1. PICK t \in Task : t[1] = e /\ Past(t) /\ task[t].act <= 2
      BY <1>3, <2>1, <2>2 DEF KeysInv, Halves
    <3>2. Inside(t) /\ task[t].pc # "idle" /\ task[t].act \in {1, 2}
      BY <3>1, ActsWithin DEF Past, Inside, Acting
    <3>3. CASE ~TaskStep(t)
      BY <3>1, <3>2, <3>3, StandsStill DEF Past, Inside
    <3>4. CASE TaskStep(t) /\ Queues(t)
      <4>1. Release(t)
        BY <3>2, <3>4 DEF Queues, ReadSubs, Acquire, At, Inside, Acting
      <4>2. ActsOf(t) = ActsOfEvent(e) /\ Len(ActsOfEvent(e)) = 2
        BY <1>3, <2>1, <3>1, <3>2, ActsWithin, KeysOf
      <4> QED BY <3>2, <4>1, <4>2 DEF Release
    <3>5. CASE ReadHeld(t)
      BY <3>1, <3>5, ReadHeldShape DEF Past, Inside, Acting
    <3>6. CASE TaskStep(t) /\ Leaves(t)
      <4>1. CASE task[t].act = 1
        BY <3>1, <3>6, <4>1 DEF Leaves, Past, Inside
      <4>2. CASE task[t].act = 2
        <5>1. KeyOf(t) = <<e, 2>>
          BY <3>1, <4>2 DEF KeyOf
        <5> QED BY <1>3, <3>6, <5>1, LeavesSeen DEF Taken
      <4> QED BY <3>2, <4>1, <4>2
    <3>7. CASE Advances(t)
      BY <3>1, <3>7 DEF Advances, Edge, Past, Inside, Acting
    <3> QED BY <3>3, <3>4, <3>5, <3>6, <3>7, StepShape
  <2>3. CASE ~Taken(<<e, 1>>)
    <3>1. PICK t \in Task : Takes(t, <<e, 1>>)
      BY <1>0, <1>3, <2>3, TakenMoves
    <3>2. t[1] = e /\ task[t].act = 1 /\ Inside(t) /\ TaskStep(t)
      BY <3>1 DEF Takes, KeyOf
    <3>3. ~Queues(t)
      <4>1. ~ReadSubs(t) /\ ~Acquire(t)
        BY <3>1 DEF Takes, ReadSubs, Acquire, At
      <4>2. ~Release(t)
        <5>1. ActsOf(t) = ActsOfEvent(e) /\ Len(ActsOfEvent(e)) = 2
          BY <1>3, <2>1, <3>2, ActsWithin, KeysOf
        <5> QED BY <3>2, <5>1 DEF Release
      <4> QED BY <4>1, <4>2 DEF Queues
    <3>4. ~ReadHeld(t)
      <4>1. ReadHeld(t) => UNCHANGED <<log, notCopied>>
        BY ReadHeldShape
      <4> QED BY <3>1, <4>1 DEF Takes, Taken
    <3> QED BY <3>2, <3>3, <3>4, StepShape DEF Leaves, Advances, Edge, Past, Inside, Acting
  <2> QED BY <2>2, <2>3
<1> QED BY <1>1, <1>2, <1>3

(* Every step keeps the keys in the order of the chain. *)
LEMMA KeysStep ==
  /\ TypeInv /\ Calm /\ Settings /\ OnceInv /\ OnceInv' /\ LostInv /\ RowInv /\ ChainInv /\ KeysInv
  /\ [Next]_vars
  => KeysInv'
<1> SUFFICES ASSUME TypeInv, Calm, Settings, OnceInv, OnceInv', LostInv, RowInv, ChainInv, KeysInv,
                    [Next]_vars
             PROVE  KeysInv'
  OBVIOUS
<1>1. \A k \in Key : Taken(k) => Taken(k)'
  BY TakenMoves
<1>2. AfterFirst'
  BY <1>1, PastStep DEF AfterFirst, KeysInv
<1> QED BY <1>1, <1>2, UnheardStep, FirstWaitsStep, NoneOlderStep, InOrderStep, HalvesStep,
           ClaimUnseenStep DEF KeysInv

(* Where the books of a market stand in the leader's chain.                 *)
Oldest(e) == Unmet(e) /\ \A d \in Events : Unmet(d) => ~Precedes(d, e)
AllMet(c) == \A e \in Events : Unmet(e) => event[e].coin # c
Reached(c, p) == /\ \A e \in Events : Oldest(e) /\ event[e].coin = c => p = event[e].old
                 /\ AllMet(c) => \A s \in Subs : p = lead[s][c]

(* A task that has met its event and is not done with it.                   *)
Busy(t) == \/ task[t].pc \in Claimed
           \/ /\ task[t].pc \in {"next", "claim"} /\ task[t].act = 2
              /\ Flips(t[1]) /\ ~Taken(<<t[1], 2>>)
BusyReached == \A t \in Task : Busy(t) => Reached(Ev(t).coin, Ev(t).new)

(* Storing an event does not move the point the books stand at. *)
LEMMA ReachedStays ==
  ASSUME TypeInv, Calm, Settings, ChainInv, KeysInv, [Next]_vars, NEW c \in Coins, NEW p,
         \A e \in Events : Known(e) => (Unmet(e)' <=> Unmet(e))
  PROVE  Reached(c, p)' <=> Reached(c, p)
<1>1. \A e \in Events : Known(e) => Known(e)' /\ event'[e] = event[e]
  BY EventsStay DEF Known
<1>2. CASE UNCHANGED <<event, lead>>
  <2>1. \A e \in Events : Unmet(e)' <=> Unmet(e)
    BY <1>2 DEF Unmet, Known
  <2> QED BY <1>2, <2>1 DEF Reached, Oldest, AllMet, Precedes, Known
<1>3. ASSUME NEW s \in Subs, NEW k \in Coins, NEW n \in Events,
             NEW new \in -MaxLead..MaxLead, LeaderTrade(s, k, n, new)
      PROVE  Reached(c, p)' <=> Reached(c, p)
  <2>0. /\ ~Known(n) /\ Known(n)' /\ \A d \in Events \ {n} : event'[d] = event[d]
        /\ event'[n].coin = k /\ event'[n].old = lead[s][k]
        /\ \A d \in Events : Known(d) => event[d].n \in Nat /\ event[d].n < event'[n].n
        /\ \A h \in Coins \ {k} : lead'[s][h] = lead[s][h]
        /\ event'[n].n \in Nat /\ \A r \in Subs : r = s
    BY <1>3, TradeShape DEF ChainInv, Calm
  <2>1. ~Taken(<<n, 1>>)' /\ Unmet(n)' /\ ~Unmet(n)
    BY <2>0, EventsGrow DEF Unmet
  <2>2. \A e \in Events \ {n} : (Unmet(e)' <=> Unmet(e)) /\ (Known(e)' <=> Known(e))
    BY <2>0 DEF Unmet, Known
  <2>3. \A d, e \in Events \ {n} : Precedes(d, e)' <=> Precedes(d, e)
    BY <2>0, <2>2 DEF Precedes
  <2>4. \A e \in Events \ {n} : ~Precedes(n, e)' /\ (Precedes(e, n)' <=> Known(e) /\ event[e].coin = k)
    BY <2>0, <2>2 DEF Precedes
  <2>5. \A e \in Events \ {n} : Oldest(e)' <=> Oldest(e)
    BY <2>1, <2>2, <2>3, <2>4 DEF Oldest
  <2>6. Oldest(n)' <=> AllMet(k)
    <3>1. ~Precedes(n, n)'
      BY <2>0 DEF Precedes
    <3> QED BY <2>0, <2>1, <2>2, <2>4, <3>1 DEF Oldest, AllMet, Unmet
  <2>7. CASE c # k
    <3>1. AllMet(c)' <=> AllMet(c)
      BY <2>0, <2>1, <2>2, <2>7 DEF AllMet
    <3>2. \A e \in Events : Oldest(e)' /\ event'[e].coin = c <=> Oldest(e) /\ event[e].coin = c
      BY <2>0, <2>1, <2>5, <2>7 DEF Oldest
    <3>3. \A e \in Events : Oldest(e) => event'[e] = event[e]
      BY <1>1 DEF Oldest, Unmet
    <3>4. \A r \in Subs : lead'[r][c] = lead[r][c]
      BY <2>0, <2>7
    <3> QED BY <3>1, <3>2, <3>3, <3>4 DEF Reached
  <2>8. CASE c = k
    <3>1. ~AllMet(k)'
      BY <2>0, <2>1 DEF AllMet
    <3>2. \A e \in Events \ {n} : Oldest(e) => event'[e] = event[e]
      BY <2>0
    <3>3. CASE AllMet(k)
      <4>1. \A e \in Events : Oldest(e) => event[e].coin # k
        BY <3>3 DEF AllMet, Oldest
      <4> QED BY <2>0, <2>5, <2>6, <2>8, <3>1, <3>3, <4>1 DEF Reached
    <3>4. CASE ~AllMet(k)
      <4>1. \A e \in Events : Oldest(e)' <=> Oldest(e)
        BY <2>1, <2>5, <2>6, <3>4 DEF Oldest
      <4>2. ~Oldest(n)
        BY <2>1 DEF Oldest
      <4> QED BY <2>0, <2>8, <3>1, <3>2, <3>4, <4>1, <4>2 DEF Reached
    <3> QED BY <3>3, <3>4
  <2> QED BY <2>7, <2>8
<1>4. CASE \E t \in Task : TaskStep(t)
  BY <1>2, <1>4 DEF TaskStep
<1> QED BY <1>2, <1>3, <1>4, Elsewhere

(* A delivery that takes the first key of its event moves the point the     *)
(* books of its market stand at from where the event began to where it ended.*)
LEMMA TakesFirst ==
  ASSUME TypeInv, Calm, Settings, OnceInv, RowInv, ChainInv, KeysInv, [Next]_vars,
         NEW t \in Task, NEW e \in Events, Takes(t, <<e, 1>>)
  PROVE  /\ t[1] = e /\ task[t].act = 1 /\ Unmet(e) /\ Ev(t) = event[e] /\ UNCHANGED <<event, lead>>
         /\ Reached(event[e].coin, event[e].old)
         /\ Reached(event[e].coin, event[e].new)'
         /\ \A c \in Coins \ {event[e].coin} : \A p : Reached(c, p)' <=> Reached(c, p)
<1>1. t[1] = e /\ task[t].act = 1 /\ Inside(t) /\ TaskStep(t) /\ UNCHANGED <<event, lead>>
  BY DEF Takes, KeyOf, TaskStep
<1>2. Known(e) /\ Unmet(e) /\ Ev(t) = event[e] /\ ~Unmet(e)'
  BY <1>1, ActsWithin DEF Takes, Unmet, Ev
<1>3. \A d \in Events : Unmet(d)' <=> Unmet(d) /\ d # e
  <2>1. ASSUME NEW d \in Events, d # e, Unmet(d), ~Unmet(d)' PROVE FALSE
    <3>1. ~Taken(<<d, 1>>) /\ Taken(<<d, 1>>)' /\ <<d, 1>> \in Key
      BY <1>1, <2>1, KeysOf DEF Unmet, Known
    <3>2. PICK u \in Task : Takes(u, <<d, 1>>)
      BY <3>1, TakenMoves
    <3>3. u = t
      BY <1>1, <3>2, OneActs DEF RowInv, Takes
    <3> QED BY <2>1, <3>2, <3>3 DEF Takes
  <2>2. ASSUME NEW d \in Events, Unmet(d)' PROVE Unmet(d)
    BY <1>1, <2>2, KeysOf, TakenMoves DEF Unmet, Known
  <2> QED BY <1>2, <2>1, <2>2
<1>4. \A d \in Events : Unmet(d) /\ d # e => event[d].n > event[e].n
  <2>1. ASSUME NEW d \in Events, Unmet(d), d # e PROVE event[d].n > event[e].n
    <3>1. event[d].n >= event[e].n
      BY <1>1, <1>2, <2>1 DEF KeysInv, NoneOlder
    <3>2. event[d].n # event[e].n
      BY <1>2, <2>1 DEF ChainInv, Numbered, Unmet
    <3>3. event[d].n \in Nat /\ event[e].n \in Nat
      BY <1>2, <2>1 DEF Unmet, Known, TypeInv, TypeOK, EventRec
    <3> QED BY <3>1, <3>2, <3>3
  <2> QED BY <2>1
<1>5. \A d \in Events : Known(d) /\ event[d].n > event[e].n => Unmet(d)
  BY <1>2 DEF KeysInv, InOrder
<1>6. \A d \in Events : Known(d) => event[d].n \in Nat /\ event[d].coin \in Coins
  BY DEF Known, TypeInv, TypeOK, EventRec
<1> DEFINE c == event[e].coin
<1>7. Reached(c, event[e].old)
  <2>1. ASSUME NEW d \in Events, Oldest(d), event[d].coin = c PROVE d = e
    <3>1. Unmet(d) /\ ~Precedes(e, d)
      BY <1>2, <2>1 DEF Oldest
    <3> QED BY <1>2, <1>4, <1>6, <2>1, <3>1 DEF Precedes, Unmet
  <2>2. ~AllMet(c)
    BY <1>2 DEF AllMet
  <2> QED BY <2>1, <2>2 DEF Reached
<1>8. Reached(event[e].coin, event[e].new)'
  <2>0. \A d, f \in Events : Precedes(d, f)' <=> Precedes(d, f)
    BY <1>1 DEF Precedes, Known
  <2>1. ASSUME NEW d \in Events, Oldest(d)', event'[d].coin = event'[e].coin
        PROVE  event'[e].new = event'[d].old
    <3>1. Unmet(d) /\ d # e /\ Known(d) /\ event[d].coin = event[e].coin
      BY <1>1, <1>3, <2>1 DEF Oldest, Unmet
    <3>2. Precedes(e, d)
      BY <1>2, <1>4, <1>6, <3>1 DEF Precedes, Unmet
    <3>3. ASSUME NEW f \in Events, Precedes(e, f), Precedes(f, d) PROVE FALSE
      <4>1. Unmet(f) /\ f # e
        BY <1>5, <1>6, <3>3 DEF Precedes
      <4> QED BY <1>3, <2>0, <2>1, <3>3, <4>1 DEF Oldest
    <3>4. NextTo(e, d)
      BY <3>2, <3>3 DEF NextTo
    <3> QED BY <1>1, <3>4 DEF ChainInv, Linked
  <2>2. ASSUME AllMet(event[e].coin)', NEW s \in Subs PROVE event'[e].new = lead'[s][event'[e].coin]
    <3>1. ASSUME NEW f \in Events, Precedes(e, f) PROVE FALSE
      <4>1. Unmet(f) /\ f # e /\ event[f].coin = event[e].coin
        BY <1>5, <1>6, <3>1 DEF Precedes
      <4> QED BY <1>1, <1>3, <2>2, <4>1 DEF AllMet
    <3> QED BY <1>1, <1>2, <3>1 DEF Newest, ChainInv, Linked
  <2> QED BY <2>1, <2>2 DEF Reached
<1>9. ASSUME NEW k \in Coins \ {c}, NEW p PROVE Reached(k, p)' <=> Reached(k, p)
  <2>1. \A d \in Events : event'[d] = event[d] /\ (Precedes(e, d) => event[d].coin = c)
    BY <1>1 DEF Precedes
  <2>2. \A d \in Events : event[d].coin = k => (Oldest(d)' <=> Oldest(d))
    BY <1>1, <1>3, <2>1 DEF Oldest, Precedes, Known
  <2>3. AllMet(k)' <=> AllMet(k)
    BY <1>3, <2>1 DEF AllMet
  <2> QED BY <1>1, <2>1, <2>2, <2>3 DEF Reached
<1> QED BY <1>1, <1>2, <1>7, <1>8, <1>9

(* A claim that succeeds takes a free key. *)
LEMMA ClaimsFree ==
  ASSUME TypeInv, KeysInv, NEW t \in Task, TaskStep(t), task[t].pc \in {"next", "claim"}, Advances(t)
  PROVE  /\ Claim(t) /\ task[t].pc = "claim" /\ task'[t].pc = (IF IsExit(t) THEN "exit" ELSE "entry")
         /\ log' = [log EXCEPT ![KeyOf(t)] = "pending"] /\ KeyOf(t) \in Key
         /\ ~Taken(KeyOf(t)) /\ log'[KeyOf(t)] # "none"
<1>0. task \in [Task -> TaskRec] /\ log \in [Key -> Decision]
  BY DEF TypeInv, TypeOK
<1>1. task[t].pc = "claim" /\ task'[t].pc \in {"exit", "entry"}
  BY DEF Advances, Edge
<1>2. Claim(t) /\ KeyOf(t) \in Key
  BY <1>1, ActionType DEF TaskStep, ExitStep, EntryStep, ReadSubs, Acquire, Release, Seen, Acting,
     Drop, ReadHeld, Claim, SkipExit, ShadowExit, CloseOrder, CloseAnswer, Unarm, Settle,
     FinishExit, SkipEntry, GateSkip, GateLoss, GatePass, ShadowEntry, OpenOrder,
     OpenAnswer, Arm, Record, FinishEntry, CheckPause, Working, At
<1>3. task' # NextAct(t)
  BY <1>0, <1>1 DEF NextAct, Fresh
<1>4. /\ log[KeyOf(t)] = "none" /\ log' = [log EXCEPT ![KeyOf(t)] = "pending"]
      /\ task' = Goto(t, IF IsExit(t) THEN "exit" ELSE "entry")
  BY <1>2, <1>3 DEF Claim, Claimable
<1>5. task'[t].pc = (IF IsExit(t) THEN "exit" ELSE "entry")
  BY <1>0, <1>4 DEF Goto, TaskRec
<1>6. KeyOf(t) \notin notCopied
  BY <1>1 DEF KeysInv, ClaimUnseen, At
<1> QED BY <1>0, <1>1, <1>2, <1>4, <1>5, <1>6 DEF Taken

(* A task gets busy by taking its first key, and no other way. *)
LEMMA BusyMoves ==
  ASSUME TypeInv, Calm, Settings, OnceInv, RowInv, LostInv, KeysInv, [Next]_vars,
         NEW t \in Task, Busy(t)', ~Busy(t)
  PROVE  Takes(t, <<t[1], 1>>)
<1>0. task \in [Task -> TaskRec] /\ event \in [Events -> EventRec \cup {None}]
  BY DEF TypeInv, TypeOK
<1>1. Inside(t)'
  BY DEF Busy, Inside, Claimed, Acting
<1>2. TaskStep(t)
  <2>1. ASSUME ~TaskStep(t) PROVE FALSE
    <3>1. task'[t] = task[t] /\ Inside(t)
      BY <1>1, <2>1, OthersStand
    <3>2. t[1] \in Events /\ Known(t[1]) /\ event'[t[1]] = event[t[1]]
      BY <3>1, ActsWithin, EventsStay DEF Known
    <3>3. Taken(<<t[1], 2>>) => Taken(<<t[1], 2>>)'
      BY <3>2, KeysOf, TakenMoves
    <3> QED BY <3>1, <3>2, <3>3 DEF Busy, Flips
  <2> QED BY <2>1
<1>3. ~Queues(t)
  <2>1. CASE ReadSubs(t) \/ Release(t)
    BY <1>0, <1>1, <2>1 DEF ReadSubs, Release, Goto, Fresh, TaskRec, Inside, Acting
  <2>2. CASE Acquire(t)
    <3>1. task'[t].pc = "next" /\ task'[t].act = 1
      BY <1>0, <2>2 DEF Acquire, Goto, At, TaskRec, LostInv, QueuedFirst
    <3> QED BY <3>1 DEF Busy, Claimed, Acting
  <2> QED BY <2>1, <2>2 DEF Queues
<1>4. /\ Inside(t) /\ UNCHANGED event /\ t[1] \in Events /\ Known(t[1])
      /\ task[t].act \in Nat /\ task[t].act >= 1
      /\ task[t].pc \in Acting => task[t].act = 1 \/ (task[t].act = 2 /\ Flips(t[1]))
      /\ <<t[1], 1>> \in Key /\ <<t[1], 2>> \in Key
  <2>1. Inside(t) /\ UNCHANGED event
    BY <1>2, <1>3, StepShape, ReadHeldShape DEF Leaves, Advances, Edge, Inside, Acting, TaskStep
  <2> QED BY <2>1, ActsWithin, KeysOf
<1>5. task[t].pc \in {"next", "claim"}
  BY <1>4 DEF Busy, Inside, Claimed, Acting
<1>6. (Flips(t[1])' <=> Flips(t[1])) /\ (Taken(<<t[1], 2>>) => Taken(<<t[1], 2>>)')
  BY <1>4, TakenMoves DEF Flips
<1>7. ~ReadHeld(t)
  BY <1>6, ReadHeldShape DEF Busy, Claimed, Acting
<1>8. task[t].act = 1
  <2>1. CASE Advances(t)
    <3>1. ~Taken(KeyOf(t)) /\ task[t].pc = "claim"
      BY <1>2, <1>5, <2>1, ClaimsFree
    <3> QED BY <1>4, <3>1 DEF Busy, KeyOf, Acting
  <2>2. CASE Leaves(t)
    <3>1. task'[t].pc = "next" /\ task'[t].act = task[t].act + 1
      BY <2>2 DEF Leaves
    <3> QED BY <1>4, <3>1 DEF Busy, Claimed, Acting
  <2> QED BY <1>2, <1>3, <1>7, <2>1, <2>2, StepShape
<1>9. ~Taken(<<t[1], 1>>)
  <2>1. ASSUME Taken(<<t[1], 1>>) PROVE FALSE
    <3>1. ~Past(t)
      BY <1>5, <1>8 DEF Past
    <3>2. CASE Leaves(t)
      <4>1. Flips(t[1]) /\ ~Taken(<<t[1], 2>>)
        BY <1>6, <3>2 DEF Leaves, Busy, Claimed, Acting
      <4>2. PICK u \in Task : u[1] = t[1] /\ Past(u)
        BY <1>4, <2>1, <4>1 DEF KeysInv, Halves
      <4>3. u = t
        BY <1>4, <4>2, OneActs DEF RowInv, Past
      <4> QED BY <3>1, <4>2, <4>3
    <3>3. CASE Advances(t)
      BY <1>2, <1>5, <1>8, <2>1, <3>3, ClaimsFree DEF KeyOf
    <3> QED BY <1>2, <1>3, <1>7, <3>2, <3>3, StepShape
  <2> QED BY <2>1
<1>10. Taken(<<t[1], 1>>)'
  <2>0. KeyOf(t) = <<t[1], 1>>
    BY <1>8 DEF KeyOf
  <2>1. CASE Leaves(t)
    BY <1>2, <2>0, <2>1, LeavesSeen DEF Taken
  <2>2. CASE Advances(t)
    BY <1>2, <1>5, <2>0, <2>2, ClaimsFree DEF Taken
  <2> QED BY <1>2, <1>3, <1>7, <2>1, <2>2, StepShape
<1>11. <<t[1], 1>> = KeyOf(t)
  BY <1>8 DEF KeyOf
<1> QED BY <1>2, <1>4, <1>5, <1>9, <1>10, <1>11 DEF Takes

(* Every step keeps a busy task's market where its event ended. *)
LEMMA BusyStep ==
  /\ TypeInv /\ Calm /\ Settings /\ OnceInv /\ RowInv /\ LostInv /\ ChainInv /\ KeysInv /\ BusyReached
  /\ [Next]_vars
  => BusyReached'
<1> SUFFICES ASSUME TypeInv, Calm, Settings, OnceInv, RowInv, LostInv, ChainInv, KeysInv, BusyReached,
                    [Next]_vars, NEW t \in Task, Busy(t)'
             PROVE  Reached(Ev(t).coin, Ev(t).new)'
  BY DEF BusyReached
<1>0. Inside(t)'
  BY DEF Busy, Inside, Claimed, Acting
<1>1. CASE ~Busy(t)
  <2>1. Takes(t, <<t[1], 1>>) /\ t[1] \in Events
    BY <1>1, BusyMoves DEF Task
  <2> QED BY <2>1, TakesFirst DEF Ev
<1>2. CASE Busy(t)
  <2>1. Inside(t) /\ task[t].pc # "idle"
    BY <1>2 DEF Busy, Inside, Claimed, Acting
  <2>2. Ev(t)' = Ev(t) /\ Ev(t) \in EventRec /\ Reached(Ev(t).coin, Ev(t).new)
    BY <1>2, <2>1, EvStays DEF BusyReached
  <2>3. ASSUME NEW e \in Events, Known(e) PROVE Unmet(e)' <=> Unmet(e)
    <3>1. Known(e)' /\ <<e, 1>> \in Key
      BY <2>3, EventsStay, KeysOf DEF Known
    <3>2. ASSUME Taken(<<e, 1>>)', ~Taken(<<e, 1>>) PROVE FALSE
      <4>1. PICK u \in Task : Takes(u, <<e, 1>>)
        BY <3>1, <3>2, TakenMoves
      <4>2. u = t
        BY <2>1, <4>1, OneActs DEF Takes, RowInv
      <4>3. KeyOf(t) = <<e, 1>> /\ task[t].pc \in {"next", "claim"}
        BY <4>1, <4>2 DEF Takes
      <4>4. task[t].act = 1
        BY <4>3 DEF KeyOf
      <4> QED BY <1>2, <4>3, <4>4 DEF Busy, Claimed, Acting
    <3> QED BY <2>3, <3>1, <3>2, TakenMoves DEF Unmet
  <2>4. PICK c \in Coins, p \in Int : c = Ev(t).coin /\ p = Ev(t).new
    BY <2>2 DEF EventRec
  <2>5. Reached(c, p)'
    BY <2>2, <2>3, <2>4, ReachedStays
  <2> QED BY <2>2, <2>4, <2>5
<1> QED BY <1>1, <1>2

-----------------------------------------------------------------------------
(* What a task reads of its position and what its orders fill.              *)

(* What a task reads of its position, from its look at the rows on, is so   *)
(* until it books what became of its order.                                 *)
Undone  == {"exit", "closing", "unarm", "settle", "entry"} \cup Opening
Reading == {"claim"} \cup Undone
HeldOpen ==
  \A t \in Task : task[t].pc \in Reading =>
    IF task[t].held = None THEN HeldNow(t) = {} /\ Opens(t)
    ELSE task[t].held \in HeldNow(t) /\ task[t].size = rows[task[t].held].size

(* The rows are written by a task that settles or books. *)
LEMMA RowsByOne ==
  ASSUME TypeInv, Calm, Settings, [Next]_vars
  PROVE  UNCHANGED rows \/ \E t \in Task : TaskStep(t) /\ (Settle(t) \/ Record(t))
<1>1. ASSUME NEW t \in Task, TaskStep(t), ~Settle(t), ~Record(t) PROVE UNCHANGED rows
  BY <1>1 DEF TaskStep, ExitStep, EntryStep, ReadSubs, Acquire, Release, Seen, Drop,
       ReadHeld, Claim, SkipExit, ShadowExit, CloseOrder, CloseAnswer, Unarm, FinishExit,
       SkipEntry, GateSkip, GateLoss, GatePass, ShadowEntry, OpenOrder, OpenAnswer, Arm,
       FinishEntry, CheckPause, db
<1> QED BY <1>1, Elsewhere

(* Whoever is inside the lock beside a task that steps is that task. *)
LEMMA NobodyElse ==
  ASSUME TypeInv, Calm, LockHeld, NEW u \in Task, Inside(u), NEW t \in Task, Inside(t), ~TaskStep(u)
  PROVE  ~TaskStep(t)
  BY OneActs

(* While a task stands inside the lock the rows and the account stand.      *)
LEMMA InsideStands ==
  ASSUME TypeInv, Calm, Settings, LockHeld, [Next]_vars, NEW u \in Task, Inside(u), ~TaskStep(u)
  PROVE  UNCHANGED <<rows, pos>>
<1>1. UNCHANGED rows
  <2>1. \A t \in Task : Settle(t) \/ Record(t) => Inside(t)
    BY DEF Settle, Record, At, Inside, Acting
  <2> QED BY <2>1, RowsByOne, NobodyElse
<1>2. UNCHANGED pos
  <2>1. \A t \in Task : CloseOrder(t) \/ OpenOrder(t) => Inside(t)
    BY DEF CloseOrder, OpenOrder, At, Inside, Acting
  <2>2. OnlyEngine
    BY DEF OnlyEngine, Calm, Upsets
  <2> QED BY <2>1, <2>2, PosMoves, NobodyElse
<1> QED BY <1>1, <1>2

(* A step to a further point keeps the size read, and what was filled.      *)
LEMMA AdvanceFields ==
  ASSUME TypeInv, NEW t \in Task, TaskStep(t), Advances(t)
  PROVE  /\ task'[t].size = task[t].size
         /\ \/ task'[t].res = task[t].res /\ task'[t].fs = task[t].fs
            \/ ShadowExit(t) \/ CloseOrder(t) \/ ShadowEntry(t) \/ OpenOrder(t)
<1>0. task \in [Task -> TaskRec] /\ task'[t].pc # "next" /\ task'[t].pc # "claim"
      /\ task'[t].pc \notin {"wait", "done", "start"}
  BY DEF TypeInv, TypeOK, Advances, Edge
<1>1. CASE \E p : task' = Goto(t, p)
  BY <1>0, <1>1 DEF Goto, TaskRec
<1>2. CASE ShadowExit(t)
  BY <1>0, <1>2 DEF ShadowExit, TaskRec
<1>3. CASE CloseOrder(t)
  <2>1. task'[t].size = task[t].size
    BY <1>0, <1>3 DEF CloseOrder, TaskRec
  <2> QED BY <1>3, <2>1
<1>4. CASE ShadowEntry(t)
  BY <1>0, <1>4 DEF ShadowEntry, TaskRec
<1>5. CASE OpenOrder(t)
  <2>1. task'[t].size = task[t].size
    BY <1>0, <1>5 DEF OpenOrder, TaskRec
  <2> QED BY <1>5, <2>1
<1>6. CASE Arm(t)
  BY <1>0, <1>6 DEF Arm, TaskRec
<1>7. CASE ReadSubs(t)
  BY <1>0, <1>7 DEF ReadSubs, Goto, TaskRec
<1>8. CASE ReadHeld(t)
  BY <1>0, <1>8 DEF ReadHeld, TaskRec
<1>9. CASE Release(t)
  BY <1>0, <1>9 DEF Release, Fresh
<1>10. CASE task' = NextAct(t) \/ task' = [NextAct(t) EXCEPT ![t].status = "paused"]
  BY <1>0, <1>10 DEF NextAct, Fresh
<1> QED BY <1>1, <1>2, <1>3, <1>4, <1>5, <1>6, <1>7, <1>8, <1>9, <1>10
     DEF TaskStep, ExitStep, EntryStep, Acquire, Seen, Drop, Claim, SkipExit, CloseAnswer,
     Unarm, Settle, FinishExit, SkipEntry, GateSkip, GateLoss, GatePass, OpenAnswer, Record,
     FinishEntry, CheckPause, Skip

(* What a task sees of rows that stand. *)
LEMMA SeesSame ==
  ASSUME TypeInv, [Next]_vars, NEW u \in Task, task[u].pc # "idle", UNCHANGED rows,
         task'[u].mode = task[u].mode
  PROVE  HeldNow(u)' = HeldNow(u)
<1>1. \A e \in Events : rows[e].status = "open" => event[e] # None /\ event'[e] = event[e]
  BY EventsStay DEF TypeInv, RowsKnown
<1>2. Ev(u)' = Ev(u)
  BY EvStays
<1> QED BY <1>1, <1>2 DEF HeldNow, HeldRows, OpenRows

(* Every step keeps what tasks have read of their positions. *)
LEMMA HeldOpenStep ==
  TypeInv /\ Calm /\ Settings /\ RowInv /\ HeldOpen /\ [Next]_vars => HeldOpen'
<1> SUFFICES ASSUME TypeInv, Calm, Settings, RowInv, HeldOpen, [Next]_vars,
                    NEW u \in Task, task'[u].pc \in Reading
             PROVE  IF task'[u].held = None THEN HeldNow(u)' = {} /\ Opens(u)'
                    ELSE task'[u].held \in HeldNow(u)' /\ task'[u].size = rows'[task'[u].held].size
  BY DEF HeldOpen
<1>0. task \in [Task -> TaskRec]
  BY DEF TypeInv, TypeOK
<1>1. CASE ~TaskStep(u)
  <2>1. task'[u] = task[u] /\ Inside(u)
    BY <1>1, OthersStand DEF Inside, Reading, Undone, Opening, Acting
  <2>2. UNCHANGED rows
    BY <1>1, <2>1, InsideStands DEF RowInv
  <2>3. HeldNow(u)' = HeldNow(u) /\ Opens(u)' = Opens(u)
    BY <2>1, <2>2, SeesSame, SameTask DEF Opens, Inside, Acting
  <2> QED BY <2>1, <2>2, <2>3 DEF HeldOpen
<1>2. CASE TaskStep(u) /\ ReadHeld(u)
  <2>1. /\ UNCHANGED <<rows, event>> /\ task'[u].mode = task[u].mode /\ task[u].pc # "idle"
        /\ task'[u].act = task[u].act
    BY <1>2, ReadHeldShape DEF TaskStep
  <2>2. PICK h \in IF HeldNow(u) = {} THEN {None} ELSE HeldNow(u) :
          task' = [task EXCEPT ![u].pc = "claim", ![u].held = h,
                               ![u].size = IF h = None THEN 0 ELSE rows[h].size]
    BY <1>2 DEF ReadHeld
  <2>3. task'[u].held = h /\ task'[u].size = (IF h = None THEN 0 ELSE rows[h].size)
    BY <1>0, <2>2 DEF TaskRec
  <2>4. HeldNow(u)' = HeldNow(u) /\ Opens(u)' = Opens(u)
    BY <2>1, SeesSame, SameTask DEF Opens
  <2>5. None \notin HeldNow(u)
    BY ConstantsOK DEF HeldNow, HeldRows, OpenRows
  <2>6. HeldNow(u) = {} => Opens(u)
    BY <1>2 DEF ReadHeld, Opens
  <2> QED BY <2>1, <2>2, <2>3, <2>4, <2>5, <2>6
<1>3. CASE TaskStep(u) /\ ~ReadHeld(u)
  <2>1. Advances(u)
    <3>1. ~Queues(u)
      BY <1>0 DEF Queues, ReadSubs, Acquire, Release, Goto, Fresh, TaskRec, Reading, Undone, Opening
    <3>2. ~Leaves(u)
      BY DEF Leaves, Reading, Undone, Opening
    <3> QED BY <1>3, <3>1, <3>2, StepShape
  <2>2. /\ task[u].pc \in Reading /\ task[u].pc # "idle" /\ task'[u].act = task[u].act
        /\ task'[u].mode = task[u].mode /\ task'[u].held = task[u].held
    BY <2>1 DEF Advances, Edge, Reading, Undone, Opening
  <2>3. task'[u].size = task[u].size
    BY <1>3, <2>1, AdvanceFields
  <2>4. UNCHANGED rows
    <3>1. ~Settle(u) /\ ~Record(u)
      <4>1. Settle(u) => task'[u].pc = "finish"
        BY <1>0 DEF Settle, Goto
      <4>2. Record(u) => task'[u].pc = "booked"
        BY <1>0 DEF Record, Goto
      <4> QED BY <4>1, <4>2 DEF Reading, Undone, Opening
    <3>2. ASSUME NEW t \in Task, TaskStep(t), Settle(t) \/ Record(t) PROVE FALSE
      <4>1. Inside(t) /\ Inside(u)
        BY <2>2, <3>2 DEF Settle, Record, At, Inside, Acting, Reading, Undone, Opening
      <4> QED BY <3>1, <3>2, <4>1, OneActs DEF RowInv
    <3> QED BY <3>2, RowsByOne
  <2>5. HeldNow(u)' = HeldNow(u) /\ Opens(u)' = Opens(u)
    BY <2>2, <2>4, SeesSame, SameTask DEF Opens
  <2> QED BY <2>2, <2>3, <2>4, <2>5 DEF HeldOpen
<1> QED BY <1>1, <1>2, <1>3

(* An entry on its way asks for something, and what it got is something.    *)
LotsPos    == \A t \in Task : task[t].pc \in Opening => EntryLots(t) > 0
EntryFills == \A t \in Task : task[t].pc \in Filling => task[t].res = "filled" /\ task[t].fs > 0

(* With no order refused, rejected or unanswered, an order for something on a *)
(* market that has it fills.                                                *)
LEMMA OrdersFill ==
  ASSUME Calm, NEW size \in Nat, size > 0, NEW depth \in Nat, depth >= size, NEW partial,
         NEW o \in Outcomes(size, depth, partial)
  PROVE  /\ o.res = "filled" /\ o.fs = o.real /\ o.fs \in Nat /\ o.fs > 0 /\ o.fs <= size
         /\ partial = "partial_close" => o.fs = size
<1>1. ~May("reject") /\ ~May("key") /\ ~May("unconfirmed") /\ ~May("partial_close")
  BY DEF Calm, Upsets
<1>2. Least(size, depth) = size
  BY DEF Least
<1> QED BY <1>1, <1>2 DEF Outcomes

(* Every step keeps the entries on their way worth something. *)
LEMMA EntryFillsStep ==
  ASSUME TypeInv, Calm, Settings, RowInv, HeldOurs, LotsPos, EntryFills, [Next]_vars
  PROVE  LotsPos' /\ EntryFills'
<1>0. task \in [Task -> TaskRec]
  BY DEF TypeInv, TypeOK
<1>1. ASSUME NEW u \in Task, task'[u].pc \in Opening PROVE EntryLots(u)' > 0
  <2>1. EntryLots(u)' = EntryLots(u) /\ EntryLots(u) \in Nat /\ (task[u].pc \in Opening \/ GatePass(u))
    BY <1>1, EntryOnItsWay
  <2>2. GatePass(u) => EntryLots(u) # 0
    BY DEF GatePass, NoRoom
  <2> QED BY <2>1, <2>2 DEF LotsPos
<1>2. ASSUME NEW u \in Task, task'[u].pc \in Filling
      PROVE  task'[u].res = "filled" /\ task'[u].fs > 0
  <2>1. CASE ~TaskStep(u)
    <3>1. task'[u] = task[u]
      BY <1>2, <2>1, OthersStand DEF Filling, Inside, Acting
    <3> QED BY <1>2, <3>1 DEF EntryFills
  <2>2. CASE TaskStep(u)
    <3>1. Advances(u) /\ (OpenOrder(u) \/ OpenAnswer(u) \/ ShadowEntry(u) \/ Arm(u))
      BY <1>2, <2>2, ComesBy DEF Filling, OrderPoints
    <3>2. CASE OpenOrder(u)
      <4>1. PICK o \in Outcomes(EntryLots(u), EntryLots(u), "partial") :
              task' = [task EXCEPT ![u].pc = "opening", ![u].res = o.res, ![u].fs = o.fs]
        BY <3>2 DEF OpenOrder
      <4>2. EntryLots(u) \in Nat /\ EntryLots(u) > 0
        BY <3>2, EntryLotsNat DEF OpenOrder, At, Acting, LotsPos, Opening
      <4>3. o.res = "filled" /\ o.fs > 0
        BY <4>1, <4>2, OrdersFill
      <4> QED BY <1>0, <4>1, <4>3 DEF TaskRec
    <3>3. CASE ShadowEntry(u)
      <4>1. EntryLots(u) > 0
        BY <3>3 DEF ShadowEntry, At, LotsPos, Opening
      <4> QED BY <1>0, <3>3, <4>1 DEF ShadowEntry, TaskRec
    <3>4. CASE OpenAnswer(u) \/ Arm(u)
      <4>1. task[u].pc \in Filling /\ ~CloseOrder(u) /\ ~ShadowExit(u) /\ ~OpenOrder(u) /\ ~ShadowEntry(u)
        BY <3>4 DEF OpenAnswer, Arm, At, Filling, CloseOrder, ShadowExit, OpenOrder, ShadowEntry
      <4> QED BY <2>2, <3>1, <4>1, AdvanceFields DEF EntryFills
    <3> QED BY <3>1, <3>2, <3>3, <3>4
  <2> QED BY <2>1, <2>2
<1> QED BY <1>1, <1>2 DEF LotsPos, EntryFills

(* Open rows hold something. *)
SizesPos == \A e \in Events : rows[e].status = "open" => rows[e].size > 0

(* Every step keeps the open rows worth something. *)
LEMMA SizesStep ==
  ASSUME TypeInv, Calm, Settings, RowInv, HeldOpen, EntryFills, SizesPos, [Next]_vars
  PROVE  SizesPos'
<1> SUFFICES ASSUME NEW e \in Events, rows'[e].status = "open" PROVE rows'[e].size > 0
  BY DEF SizesPos
<1>0. rows \in [Events -> RowRec] /\ task \in [Task -> TaskRec]
  BY DEF TypeInv, TypeOK
<1>1. ASSUME NEW t \in Task, TaskStep(t), Settle(t) PROVE rows'[e].size > 0
  <2> DEFINE h == task[t].held
             left == task[t].size - task[t].fs
  <2>1. rows' = [rows EXCEPT ![h] = IF FullExit(t) \/ left <= 0
                                   THEN [@ EXCEPT !.status = "closed", !.size = 0]
                                   ELSE [@ EXCEPT !.size = left]]
    BY <1>1 DEF Settle
  <2>2. left \in Int
    BY <1>0 DEF TaskRec
  <2> HIDE DEF left
  <2>3. CASE e = h
    <3>1. ~(FullExit(t) \/ left <= 0)
      BY <1>0, <2>1, <2>3 DEF RowRec
    <3>2. rows'[e].size = left
      BY <1>0, <2>1, <2>3, <3>1 DEF RowRec
    <3> QED BY <2>2, <3>1, <3>2
  <2>4. CASE e # h
    BY <1>0, <2>1, <2>4 DEF SizesPos
  <2> QED BY <2>3, <2>4
<1>2. ASSUME NEW t \in Task, TaskStep(t), Record(t) PROVE rows'[e].size > 0
  <2>0. task[t].pc = "record" /\ task[t].fs \in Int /\ task[t].fs > 0
    BY <1>0, <1>2 DEF Record, At, EntryFills, Filling, TaskRec
  <2>1. CASE KindOf(t) # "add"
    <3>1. Books(t)
      BY <1>2, <2>1 DEF Books
    <3>2. CASE e = t[1]
      BY <1>0, <2>0, <3>1, <3>2, OpenedRow DEF Books
    <3>3. CASE e # t[1]
      BY <3>1, <3>3, BookedRow DEF SizesPos
    <3> QED BY <3>2, <3>3
  <2>2. CASE KindOf(t) = "add"
    <3> DEFINE h == task[t].held
    <3>1. h # None /\ h \in HeldNow(t) /\ task[t].size = rows[h].size
      BY <2>0, <2>2 DEF HeldOpen, Reading, Undone, Opening, Opens
    <3>2. h \in Events /\ rows[h].status = "open" /\ rows[h].size > 0 /\ rows[h].size \in Int
      BY <1>0, <3>1 DEF HeldNow, HeldRows, OpenRows, SizesPos, RowRec
    <3>3. rows' = [rows EXCEPT ![h].size = task[t].size + task[t].fs, ![h].margin = @ + task[t].fs]
      BY <1>2, <2>2 DEF Record
    <3> DEFINE n == task[t].size + task[t].fs
    <3>4. n \in Int /\ n > 0
      BY <2>0, <3>1, <3>2
    <3> HIDE DEF n
    <3>5. CASE e = h
      BY <1>0, <3>2, <3>3, <3>4, <3>5 DEF RowRec, n
    <3>6. CASE e # h
      BY <1>0, <3>3, <3>6 DEF SizesPos
    <3> QED BY <3>5, <3>6
  <2> QED BY <2>1, <2>2
<1> QED BY <1>1, <1>2, RowsByOne DEF SizesPos

-----------------------------------------------------------------------------
(* Which of the leader's positions a market's rows follow.                  *)

(* An open row of a task's market is one the task acts on.                  *)
LEMMA RowHere ==
  ASSUME TypeInv, Calm, OneMode, NEW t \in Task, Inside(t), NEW h \in Events,
         rows[h].status = "open", event[h].coin = Ev(t).coin
  PROVE  h \in HeldNow(t)
<1>1. event[h] # None /\ event[h].sub \in Subs
  BY DEF TypeInv, TypeOK, RowsKnown, EventRec
<1>2. event[h].sub = Ev(t).sub
  BY <1>1, InsideType DEF Calm
<1> QED BY <1>1, <1>2 DEF OneMode, HeldNow, HeldRows, OpenRows

(* A market's books stand at one point.                                     *)
LEMMA ReachedOne ==
  ASSUME TypeInv, NEW c, NEW p, NEW q, Reached(c, p), Reached(c, q), Subs # {}
  PROVE  p = q
<1>1. CASE AllMet(c)
  BY <1>1 DEF Reached
<1>2. CASE ~AllMet(c)
  <2> DEFINE Waiting == {e \in Events : Unmet(e) /\ event[e].coin = c}
             Numbers == {event[e].n : e \in Waiting}
  <2>1. Numbers \in SUBSET Nat /\ Numbers # {}
    <3>1. \A e \in Events : Unmet(e) => event[e].n \in Nat
      BY DEF Unmet, Known, TypeInv, TypeOK, EventRec
    <3>2. \E e \in Events : Unmet(e) /\ event[e].coin = c
      BY <1>2 DEF AllMet
    <3> QED BY <3>1, <3>2
  <2>2. PICK e \in Waiting : \A d \in Waiting : event[e].n <= event[d].n
    <3> HIDE DEF Numbers
    <3>1. PICK n \in Numbers : \A m \in Numbers : n <= m
      BY <2>1, LeastOf
    <3> USE DEF Numbers
    <3> QED BY <3>1
  <2>3. \A d \in Events : Unmet(d) => ~Precedes(d, e)
    BY <2>1, <2>2 DEF Precedes
  <2> QED BY <2>2, <2>3 DEF Reached, Oldest
<1> QED BY <1>1, <1>2

(* It only moves as a task takes the first key of its event.                *)
LEMMA ReachedMoves ==
  ASSUME TypeInv, Calm, Settings, OnceInv, RowInv, ChainInv, KeysInv, [Next]_vars,
         NEW c \in Coins, NEW p
  PROVE  \/ Reached(c, p)' <=> Reached(c, p)
         \/ \E t \in Task : Takes(t, <<t[1], 1>>) /\ c = Ev(t).coin
<1>1. ASSUME NEW t \in Task, NEW e \in Events, Takes(t, <<e, 1>>), c # Ev(t).coin
      PROVE  Reached(c, p)' <=> Reached(c, p)
  BY <1>1, TakesFirst
<1>2. ASSUME NEW e \in Events, Known(e), Unmet(e)' # Unmet(e)
      PROVE  \E t \in Task : Takes(t, <<e, 1>>) /\ t[1] = e
  <2>1. Known(e)' /\ <<e, 1>> \in Key
    BY <1>2, EventsStay, KeysOf DEF Known
  <2>2. PICK t \in Task : Takes(t, <<e, 1>>)
    BY <1>2, <2>1, TakenMoves DEF Unmet
  <2> QED BY <2>2 DEF Takes, KeyOf
<1>3. CASE \A e \in Events : Known(e) => (Unmet(e)' <=> Unmet(e))
  BY <1>3, ReachedStays
<1> QED BY <1>1, <1>2, <1>3

(* A task that is busy stays so until it steps.                             *)
LEMMA BusyStays ==
  ASSUME TypeInv, Calm, Settings, OnceInv, RowInv, LostInv, KeysInv, [Next]_vars,
         NEW t \in Task, ~TaskStep(t), Busy(t) \/ Busy(t)'
  PROVE  Busy(t) /\ Busy(t)' /\ task'[t] = task[t] /\ Ev(t)' = Ev(t) /\ Flips(t[1])' = Flips(t[1])
<1>1. Busy(t)
  <2>1. Busy(t)' /\ ~Busy(t) => Takes(t, <<t[1], 1>>)
    BY BusyMoves
  <2> QED BY <2>1 DEF Takes
<1>2. Inside(t) /\ task[t].pc # "idle"
  BY <1>1 DEF Busy, Inside, Claimed, Acting
<1>3. task'[t] = task[t] /\ Ev(t)' = Ev(t) /\ Flips(t[1])' = Flips(t[1])
  <2>1. task'[t] = task[t] /\ Ev(t)' = Ev(t)
    BY <1>2, StandsStill
  <2> QED BY <2>1 DEF Ev, Flips
<1>4. ASSUME <<t[1], 2>> \in Key, ~Taken(<<t[1], 2>>), Taken(<<t[1], 2>>)' PROVE FALSE
  <2>1. PICK u \in Task : Takes(u, <<t[1], 2>>)
    BY <1>4, TakenMoves
  <2> QED BY <1>2, <2>1, OneActs DEF Takes, RowInv
<1>5. <<t[1], 2>> \in Key
  BY DEF Key, Task
<1> QED BY <1>1, <1>3, <1>4, <1>5 DEF Busy

(* The leader's position the copy of a market follows: while a task works   *)
(* on an event, his position before it until the task has booked its order, *)
(* and none between the two halves of a flip.                               *)
Stand(t) == IF task[t].act = 1 /\ task[t].pc \in Undone THEN Ev(t).old
            ELSE IF Flips(t[1]) /\ (task[t].act = 1 \/ task[t].pc \in Undone \cup {"next", "claim"})
            THEN 0 ELSE Ev(t).new
Holds(c, p) ==
  \/ \E t \in Task : Busy(t) /\ Ev(t).coin = c /\ p = Stand(t)
  \/ (\A t \in Task : Busy(t) => Ev(t).coin # c) /\ Reached(c, p)

(* It moves by a task that works on the market. *)
LEMMA HoldsMoves ==
  ASSUME TypeInv, Calm, Settings, OnceInv, RowInv, LostInv, ChainInv, KeysInv, [Next]_vars,
         NEW c \in Coins, NEW p, Holds(c, p)'
  PROVE  \/ Holds(c, p)
         \/ \E t \in Task : /\ TaskStep(t) /\ Inside(t) /\ Ev(t).coin = c
                            /\ Busy(t) \/ Takes(t, <<t[1], 1>>)
<1> SUFFICES ASSUME ~ \E t \in Task : /\ TaskStep(t) /\ Inside(t) /\ Ev(t).coin = c
                                      /\ Busy(t) \/ Takes(t, <<t[1], 1>>)
             PROVE  Holds(c, p)
  OBVIOUS
<1>1. ASSUME NEW t \in Task, Busy(t) \/ Busy(t)', TaskStep(t) PROVE Ev(t).coin # c /\ Ev(t)' = Ev(t)
  <2>1. Busy(t) \/ Takes(t, <<t[1], 1>>)
    BY <1>1, BusyMoves
  <2>2. Inside(t) /\ task[t].pc # "idle"
    BY <2>1 DEF Busy, Takes, Inside, Claimed, Acting
  <2> QED BY <1>1, <2>1, <2>2, EvStays
<1>2. ASSUME NEW t \in Task, Busy(t)', Ev(t)'.coin = c, p = Stand(t)' PROVE Holds(c, p)
  <2>1. ~TaskStep(t)
    BY <1>1, <1>2
  <2>2. Busy(t) /\ task'[t] = task[t] /\ Ev(t)' = Ev(t) /\ Flips(t[1])' = Flips(t[1])
    BY <1>2, <2>1, BusyStays
  <2>3. Stand(t)' = Stand(t)
    BY <2>2 DEF Stand
  <2> QED BY <1>2, <2>2, <2>3 DEF Holds
<1>3. ASSUME \A t \in Task : Busy(t)' => Ev(t)'.coin # c, Reached(c, p)' PROVE Holds(c, p)
  <2>1. ASSUME NEW t \in Task, Busy(t) PROVE Ev(t).coin # c
    BY <1>1, <1>3, <2>1, BusyStays
  <2>2. Reached(c, p)
    BY <1>3, ReachedMoves DEF Takes
  <2> QED BY <2>1, <2>2 DEF Holds
<1> QED BY <1>2, <1>3 DEF Holds

(* Two positions are a flip when they are on different sides. *)
LEMMA SignRule ==
  ASSUME NEW x \in Int, NEW y \in Int, x # 0, y # 0
  PROVE  IsFlip(x, y) <=> SideOf(x) # SideOf(y)
<1>1. CASE x > 0 /\ y > 0
  BY <1>1 DEF IsFlip, SideOf
<1>2. CASE x > 0 /\ y < 0
  BY <1>2 DEF IsFlip, SideOf
<1>3. CASE x < 0 /\ y > 0
  BY <1>3 DEF IsFlip, SideOf
<1>4. CASE x < 0 /\ y < 0
  BY <1>4 DEF IsFlip, SideOf
<1> QED BY <1>1, <1>2, <1>3, <1>4

(* What an action says of the leader's move. *)
LEMMA ActCases ==
  ASSUME TypeInv, Numbered, NEW t \in Task, task[t].pc \in Acting
  PROVE  /\ \/ task[t].act = 1 /\ KindOf(t) \in {"open", "add", "reduce", "close"}
            \/ task[t].act = 2 /\ Flips(t[1]) /\ Opens(t)
         /\ Opens(t) => /\ CurAct(t).side = RowSide(t[1]) /\ Ev(t).new # 0
                        /\ task[t].act = 2 \/ (task[t].act = 1 /\ Ev(t).old = 0 /\ ~Flips(t[1]))
         /\ KindOf(t) \in {"add", "reduce"} =>
              /\ task[t].act = 1 /\ ~Flips(t[1]) /\ Ev(t).old # 0 /\ Ev(t).new # 0
              /\ CurAct(t).side = SideOf(Ev(t).old) /\ SideOf(Ev(t).new) = SideOf(Ev(t).old)
         /\ KindOf(t) = "close" => task[t].act = 1 /\ Ev(t).old # 0
<1>1. /\ t[1] \in Events /\ Ev(t) = event[t[1]] /\ ActsOf(t) = ActsOfEvent(t[1]) /\ Known(t[1])
      /\ task[t].act = 1 \/ (task[t].act = 2 /\ Flips(t[1]))
  BY ActsWithin DEF Inside
<1>2. PICK old \in Int, new \in Int : old = Ev(t).old /\ new = Ev(t).new /\ old # new
  BY <1>1 DEF TypeInv, TypeOK, Known, EventRec, Numbered
<1>3. Flips(t[1]) = IsFlip(old, new) /\ RowSide(t[1]) = SideOf(new)
      /\ CurAct(t) = Normalize(old, new)[task[t].act]
  BY <1>1, <1>2 DEF Flips, RowSide, CurAct, ActsOf
<1>4. CASE IsFlip(old, new)
  <2>1. old # 0 /\ new # 0
    BY <1>4 DEF IsFlip
  <2>2. /\ Normalize(old, new)[1] = Act("close", SideOf(old), Magnitude(old), Magnitude(old))
        /\ Normalize(old, new)[2] = Act("open", SideOf(new), Magnitude(new), 0)
    BY <1>4 DEF Normalize
  <2> QED BY <1>1, <1>2, <1>3, <1>4, <2>1, <2>2 DEF KindOf, Opens, Act
<1>5. CASE ~IsFlip(old, new)
  <2>1. Normalize(old, new)[1] =
          Act(KindOfMove(old, new), SideOf(IF old = 0 THEN new ELSE old),
              Magnitude(new - old), Magnitude(old))
    BY <1>5 DEF Normalize
  <2>2. task[t].act = 1 /\ KindOf(t) = KindOfMove(old, new)
        /\ CurAct(t).side = SideOf(IF old = 0 THEN new ELSE old)
    BY <1>1, <1>3, <1>5, <2>1 DEF KindOf, Act
  <2>3. old # 0 /\ new # 0 => SideOf(old) = SideOf(new)
    BY <1>5, SignRule
  <2> QED BY <1>2, <1>3, <1>5, <2>2, <2>3 DEF KindOfMove, Opens
<1> QED BY <1>4, <1>5

(* An open row is on the side of the position its market follows.           *)
Fits(p, h) == p # 0 /\ SideOf(p) = RowSide(h)
SideFits   == \A h \in Events : rows[h].status = "open" =>
                \A p \in Int : Holds(event[h].coin, p) => Fits(p, h)

(* A live exit on its way has filled what it asked for, or less of a part.  *)
ExitFills ==
  \A t \in Task : task[t].pc \in {"closing", "unarm", "settle"} /\ task[t].mode = "live" =>
    /\ task[t].res = "filled" /\ task[t].fs > 0
    /\ IF FullExit(t) THEN task[t].fs = task[t].size ELSE task[t].fs < task[t].size

(* Beside a task that steps nobody gets or stays busy. *)
LEMMA BusyAlone ==
  ASSUME TypeInv, Calm, Settings, OnceInv, RowInv, LostInv, KeysInv, [Next]_vars,
         NEW t \in Task, TaskStep(t), Inside(t), NEW u \in Task, Busy(u) \/ Busy(u)'
  PROVE  u = t
<1>1. CASE TaskStep(u)
  <2>1. Inside(u)
    BY <1>1, BusyMoves DEF Busy, Inside, Claimed, Acting, Takes
  <2> QED BY <2>1, OneActs DEF RowInv
<1>2. CASE ~TaskStep(u)
  <2>1. Inside(u)
    BY <1>2, BusyStays DEF Busy, Inside, Claimed, Acting
  <2> QED BY <2>1, OneActs DEF RowInv
<1> QED BY <1>1, <1>2

(* Where a busy task's market is followed to after its step. *)
LEMMA HoldsNext ==
  ASSUME TypeInv, Calm, Settings, OnceInv, RowInv, LostInv, ChainInv, KeysInv,
         BusyReached, [Next]_vars, NEW t \in Task, TaskStep(t), Busy(t), NEW p,
         NEW c \in Coins, c = Ev(t).coin, Holds(c, p)'
  PROVE  IF Busy(t)' THEN p = Stand(t)' ELSE p = Ev(t).new
<1>0. Inside(t) /\ task[t].pc # "idle"
  BY DEF Busy, Inside, Claimed, Acting
<1>1. Ev(t)' = Ev(t) /\ Ev(t).sub \in Subs
  BY <1>0, EvStays DEF EventRec
<1>2. \A u \in Task : Busy(u)' => u = t
  BY <1>0, BusyAlone
<1>3. CASE Busy(t)'
  BY <1>1, <1>2, <1>3 DEF Holds
<1>4. CASE ~Busy(t)'
  <2>1. Reached(c, p)'
    BY <1>2, <1>4 DEF Holds
  <2>2. ASSUME NEW u \in Task, Takes(u, <<u[1], 1>>) PROVE FALSE
    <3>1. u = t
      BY <1>0, <2>2, OneActs DEF Takes, RowInv
    <3> QED BY <2>2, <3>1 DEF Takes, KeyOf, Busy, Claimed, Acting
  <2>3. Reached(c, p)
    BY <2>1, <2>2, ReachedMoves
  <2>4. Reached(c, Ev(t).new)
    BY DEF BusyReached
  <2> QED BY <1>1, <1>4, <2>3, <2>4, ReachedOne
<1> QED BY <1>3, <1>4

(* A claim begins to work where the books of the market stand; what is      *)
(* dropped had no row.                                                      *)
LEMMA FitsTaken ==
  ASSUME TypeInv, Calm, Settings, OnceInv, RowInv, OneMode, LostInv, ChainInv, KeysInv,
         SideFits, [Next]_vars,
         NEW t \in Task, Takes(t, <<t[1], 1>>), NEW c \in Coins, c = Ev(t).coin, NEW p,
         Holds(c, p)', NEW h \in Events, rows[h].status = "open", event[h].coin = c
  PROVE  Fits(p, h)
<1>0. /\ Inside(t) /\ TaskStep(t) /\ task[t].pc \in {"next", "claim"} /\ task[t].act = 1
      /\ KeyOf(t) = <<t[1], 1>> /\ ~Taken(<<t[1], 1>>) /\ Taken(<<t[1], 1>>)'
  BY DEF Takes, KeyOf
<1>1. /\ t[1] \in Events /\ <<t[1], 1>> \in Key /\ Ev(t)' = Ev(t) /\ event[t[1]] = Ev(t)
      /\ task \in [Task -> TaskRec] /\ Ev(t).sub \in Subs
  <2>1. task[t].pc # "idle"
    BY <1>0
  <2>2. t[1] \in Events
    BY DEF Task
  <2> QED BY <2>1, <2>2, EvStays, KeysOf DEF Ev, TypeInv, TypeOK, EventRec
<1>2. h \in HeldNow(t)
  BY <1>0, RowHere
<1>3. notCopied' = notCopied
  BY <1>0, <1>2, DropsOne DEF Drop
<1>4. log[<<t[1], 1>>] = "none" /\ log'[<<t[1], 1>>] # "none"
  BY <1>0, <1>3 DEF Taken
<1>5. Claim(t)
  <2>1. PICK u \in Task : TaskStep(u) /\ Claim(u) /\ <<t[1], 1>> = KeyOf(u)
    BY <1>1, <1>4, LogGrows
  <2>2. Inside(u)
    BY <2>1 DEF Claim, At, Inside, Acting
  <2> QED BY <1>0, <2>1, <2>2, OneActs DEF RowInv
<1>6. task'[t].pc \in {"exit", "entry"} /\ task'[t].act = 1
  <2>1. log' # log
    BY <1>4
  <2>2. task' = Goto(t, IF IsExit(t) THEN "exit" ELSE "entry")
    BY <1>5, <2>1 DEF Claim
  <2> QED BY <1>0, <1>1, <2>2 DEF Goto
<1>7. Busy(t)' /\ ~Busy(t)
  BY <1>0, <1>6 DEF Busy, Claimed, Acting
<1>8. p = Ev(t).old
  <2>1. \A u \in Task : Busy(u)' => u = t
    BY <1>0, BusyAlone
  <2>2. p = Stand(t)'
    BY <1>1, <1>7, <2>1 DEF Holds
  <2> QED BY <1>1, <1>6, <2>2 DEF Stand, Undone
<1>9. Holds(c, p)
  <2>1. \A u \in Task : Busy(u) => Ev(u).coin # c
    BY <1>0, <1>7, BusyAlone
  <2>2. Reached(c, p)
    BY <1>1, <1>8, TakesFirst
  <2> QED BY <2>1, <2>2 DEF Holds
<1>10. p \in Int
  BY <1>0, <1>1, <1>8, EvStays DEF EventRec
<1> QED BY <1>9, <1>10 DEF SideFits

(* The steps of an exit. *)
LEMMA ExitMoves ==
  ASSUME TypeInv, NEW t \in Task, TaskStep(t)
  PROVE  /\ At(t, "exit") => SkipExit(t) \/ ShadowExit(t) \/ CloseOrder(t)
         /\ At(t, "closing") => CloseAnswer(t)
         /\ At(t, "unarm") => Unarm(t)
         /\ At(t, "settle") => Settle(t)
BY DEF TaskStep, ExitStep, EntryStep, ReadSubs, Acquire, Release, Seen, Drop, ReadHeld, Claim,
       SkipExit, ShadowExit, CloseOrder, CloseAnswer, Unarm, Settle, FinishExit, SkipEntry,
       GateSkip, GateLoss, GatePass, ShadowEntry, OpenOrder, OpenAnswer, Arm, Record,
       FinishEntry, CheckPause, Working, At

(* The position an exit acts on. *)
LEMMA ExitHolds ==
  ASSUME TypeInv, Calm, RowInv, OneMode, HeldOpen, SizesPos, NEW t \in Task,
         task[t].pc \in {"exit", "closing", "unarm", "settle"}, IsExit(t)
  PROVE  /\ task[t].held \in Events /\ rows[task[t].held].status = "open"
         /\ task[t].held \in HeldNow(t) /\ rows[task[t].held].mode = task[t].mode
         /\ task[t].size = rows[task[t].held].size /\ task[t].size \in Int /\ task[t].size > 0
         /\ event[task[t].held].coin = Ev(t).coin
         /\ \A h \in Events : rows[h].status = "open" /\ event[h].coin = Ev(t).coin
              => h = task[t].held
<1>1. task[t].held # None
  BY DEF HeldOpen, Reading, Undone, Opens, IsExit
<1>2. task[t].held \in HeldNow(t) /\ task[t].size = rows[task[t].held].size
  BY <1>1 DEF HeldOpen, Reading, Undone
<1>3. /\ task[t].held \in Events /\ rows[task[t].held].status = "open"
      /\ rows[task[t].held].mode = task[t].mode /\ event[task[t].held].coin = Ev(t).coin
  BY <1>2 DEF HeldNow, HeldRows, OpenRows
<1>4. task[t].size \in Int /\ task[t].size > 0
  BY <1>2, <1>3 DEF SizesPos, TypeInv, TypeOK, TaskRec
<1>5. Inside(t)
  BY DEF Inside, Acting
<1>6. ASSUME NEW h \in Events, rows[h].status = "open", event[h].coin = Ev(t).coin
      PROVE  h = task[t].held
  <2>1. h \in HeldNow(t)
    BY <1>5, <1>6, RowHere
  <2>2. task[t].mode \in Mode
    BY DEF TypeInv, TypeOK, TaskRec
  <2> QED BY <1>2, <1>5, <2>1, <2>2, InsideType DEF RowInv, OneOpenRow, HeldNow
<1> QED BY <1>2, <1>3, <1>4, <1>6

(* The close of a whole position goes on until it has closed the row. *)
LEMMA CloseGoesOn ==
  ASSUME TypeInv, Calm, RowInv, OneMode, OrderInv, HeldOpen, SizesPos, ExitFills,
         NEW t \in Task, TaskStep(t), KindOf(t) = "close",
         task[t].pc \in {"exit", "closing", "unarm", "settle"},
         NEW h \in Events, rows[h].status = "open", event[h].coin = Ev(t).coin,
         rows'[h].status = "open"
  PROVE  task'[t].pc \in {"closing", "unarm", "settle"} /\ task'[t].act = task[t].act
<1>0. task \in [Task -> TaskRec] /\ rows \in [Events -> RowRec]
  BY DEF TypeInv, TypeOK
<1>1. h = task[t].held /\ task[t].size \in Int /\ task[t].size > 0
  BY ExitHolds DEF IsExit
<1>2. ExitQty(t) = task[t].size /\ FullExit(t)
  BY <1>1 DEF ExitQty, ExitSize, KindOf, FullExit
<1>3. ~SkipExit(t)
  BY <1>1, <1>2 DEF SkipExit, ExitRefused
<1>4. CASE At(t, "exit")
  <2>1. ShadowExit(t) \/ CloseOrder(t)
    BY <1>3, <1>4, ExitMoves
  <2>2. ShadowExit(t) => task'[t].pc = "settle" /\ task'[t].act = task[t].act
    BY <1>0 DEF ShadowExit
  <2>3. CloseOrder(t) => task'[t].pc = "closing" /\ task'[t].act = task[t].act
    BY <1>0 DEF CloseOrder
  <2> QED BY <2>1, <2>2, <2>3
<1>5. CASE At(t, "closing")
  <2>1. CloseAnswer(t) /\ task[t].res = "filled"
    BY <1>5, ExitMoves DEF OrderInv, LiveOrders, ExitFills, At
  <2> QED BY <1>0, <2>1 DEF CloseAnswer, Goto, TaskRec
<1>6. CASE At(t, "unarm")
  <2>1. Unarm(t)
    BY <1>6, ExitMoves
  <2> QED BY <1>0, <2>1 DEF Unarm, Goto, TaskRec
<1>7. CASE At(t, "settle")
  <2>1. Settle(t)
    BY <1>7, ExitMoves
  <2>2. rows' = [rows EXCEPT ![h] = [@ EXCEPT !.status = "closed", !.size = 0]]
    BY <1>1, <1>2, <2>1 DEF Settle
  <2>3. rows'[h].status = "closed"
    BY <1>0, <2>2 DEF RowRec
  <2> QED BY <2>3
<1> QED BY <1>4, <1>5, <1>6, <1>7 DEF At

(* A row that stays open through a step of a busy task fits what its market *)
(* is followed to next.                                                     *)
LEMMA FitsWorked ==
  ASSUME TypeInv, Calm, Settings, OnceInv, RowInv, OneMode, LostInv, OrderInv, ChainInv, KeysInv,
         BusyReached, HeldOpen, SizesPos, ExitFills, SideFits, [Next]_vars,
         NEW t \in Task, TaskStep(t), Busy(t), NEW c \in Coins, c = Ev(t).coin, NEW p,
         Holds(c, p)', NEW h \in Events, rows[h].status = "open", event[h].coin = c,
         rows'[h].status = "open"
  PROVE  Fits(p, h)
<1>0. Inside(t) /\ task[t].pc # "idle" /\ task[t].pc \notin {"start", "wait", "done", "lost"}
  BY DEF Busy, Inside, Claimed, Acting
<1>1. /\ Ev(t)' = Ev(t) /\ Ev(t).old \in Int /\ Ev(t).new \in Int /\ t[1] \in Events
      /\ Flips(t[1])' = Flips(t[1])
  <2>1. Ev(t)' = Ev(t) /\ Ev(t) \in EventRec /\ t[1] \in Events
    BY <1>0, EvStays
  <2> QED BY <2>1 DEF EventRec, Flips, Ev
<1>2. Stand(t) \in Int /\ Holds(c, Stand(t))
  BY <1>1 DEF Stand, Holds
<1>3. Fits(Stand(t), h)
  BY <1>2 DEF SideFits
<1>4. Stand(t) # 0
  BY <1>3 DEF Fits
<1>5. task[t].pc \in Claimed /\ task[t].pc \in Acting
  BY <1>4 DEF Busy, Stand, Claimed, Acting, Undone
<1>6. /\ task[t].act = 1 \/ (task[t].act = 2 /\ Flips(t[1]))
  BY <1>0, <1>5, ActsWithin
<1>7. IF Busy(t)' THEN p = Stand(t)' ELSE p = Ev(t).new
  BY HoldsNext
<1>8. CASE task[t].act = 1 /\ task[t].pc \in Undone
  <2>1. Stand(t) = Ev(t).old /\ Ev(t).old # 0
    BY <1>4, <1>8 DEF Stand
  <2>2. KindOf(t) \in {"add", "reduce", "close"}
    BY <1>5, <1>8, <2>1, ActCases DEF ChainInv, Opens
  <2>3. CASE KindOf(t) \in {"add", "reduce"}
    <3>1. ~Flips(t[1]) /\ Ev(t).new # 0 /\ SideOf(Ev(t).new) = SideOf(Ev(t).old)
      BY <1>5, <2>3, ActCases DEF ChainInv
    <3>2. p \in {Ev(t).old, Ev(t).new}
      BY <1>1, <1>7, <3>1 DEF Stand
    <3> QED BY <1>3, <2>1, <3>1, <3>2 DEF Fits
  <2>4. CASE KindOf(t) = "close"
    <3>1. task[t].pc \in {"exit", "closing", "unarm", "settle"}
      BY <1>8, <2>4 DEF RowInv, EntryKinds, IsExit, Undone
    <3>2. task'[t].pc \in {"closing", "unarm", "settle"} /\ task'[t].act = task[t].act
      BY <2>4, <3>1, CloseGoesOn
    <3>3. Busy(t)' /\ Stand(t)' = Ev(t).old
      BY <1>1, <1>8, <3>2 DEF Busy, Claimed, Acting, Stand, Undone
    <3> QED BY <1>3, <1>7, <2>1, <3>3
  <2> QED BY <2>2, <2>3, <2>4
<1>9. CASE ~(task[t].act = 1 /\ task[t].pc \in Undone)
  <2>1. Stand(t) = Ev(t).new /\ (task[t].act = 1 => ~Flips(t[1])) /\ task[t].pc \notin Undone
    BY <1>4, <1>6, <1>9 DEF Stand
  <2>2. task[t].pc \in {"finish", "check", "booked"}
    BY <1>5, <2>1 DEF Claimed, Acting, Undone, Opening
  <2>3. Leaves(t) \/ Advances(t)
    BY <1>0, <2>2, StepShape, ReadHeldShape DEF Queues, ReadSubs, Acquire, Release, At
  <2>4. CASE Leaves(t)
    <3>1. ~Busy(t)'
      BY <1>1, <1>6, <2>1, <2>4 DEF Leaves, Busy, Claimed, Acting
    <3> QED BY <1>3, <1>7, <2>1, <3>1
  <2>5. CASE Advances(t)
    <3>1. task'[t].pc = "check" /\ task'[t].act = task[t].act
      BY <2>2, <2>5 DEF Advances, Edge
    <3>2. Stand(t)' = Ev(t).new
      BY <1>1, <1>6, <2>1, <3>1 DEF Stand, Undone, Opening
    <3> QED BY <1>3, <1>7, <2>1, <3>2
  <2> QED BY <2>3, <2>4, <2>5
<1> QED BY <1>8, <1>9

(* Every step keeps the open rows on the side of the leader's position.     *)
LEMMA SideFitsStep ==
  ASSUME TypeInv, Calm, Settings, OnceInv, RowInv, OneMode, LostInv, OrderInv, ChainInv, KeysInv,
         BusyReached, HeldOpen, SizesPos, ExitFills, SideFits, [Next]_vars
  PROVE  SideFits'
<1> SUFFICES ASSUME NEW h \in Events, rows'[h].status = "open", NEW p \in Int,
                    Holds(event[h].coin, p)'
             PROVE  Fits(p, h)'
  BY DEF SideFits
<1>1. CASE rows[h].status = "open"
  <2>1. event'[h] = event[h] /\ event[h].coin \in Coins
    BY <1>1, EventsStay DEF TypeInv, TypeOK, RowsKnown, EventRec
  <2>2. PICK c \in Coins : c = event[h].coin /\ Holds(c, p)'
    BY <2>1
  <2>3. Fits(p, h)
    <3>1. CASE Holds(c, p)
      BY <1>1, <2>2, <3>1 DEF SideFits
    <3>2. ASSUME NEW t \in Task, TaskStep(t), Ev(t).coin = c, Busy(t) PROVE Fits(p, h)
      BY <1>1, <2>2, <3>2, FitsWorked
    <3>3. ASSUME NEW t \in Task, Ev(t).coin = c, Takes(t, <<t[1], 1>>) PROVE Fits(p, h)
      BY <1>1, <2>2, <3>3, FitsTaken
    <3> QED BY <2>2, <3>1, <3>2, <3>3, HoldsMoves
  <2> QED BY <2>1, <2>3 DEF Fits, RowSide
<1>2. CASE rows[h].status # "open"
  <2>1. PICK t \in Task : Books(t)
    BY <1>2, RowsMove DEF RowInv, RowsShrink
  <2>2. /\ h = t[1] /\ task'[t].pc = "booked" /\ Inside(t) /\ Opens(t) /\ task[t].pc \in Acting
        /\ UNCHANGED event /\ TaskStep(t) /\ task[t].pc = "record"
    BY <1>2, <2>1, BookedRow, BookingOpens DEF Books
  <2>3. task'[t].act = task[t].act
    BY <2>2, ComesBy DEF OrderPoints, Advances
  <2>4. Busy(t)' /\ Ev(t)' = event[h] /\ Ev(t) = event[h]
    BY <2>2 DEF Busy, Claimed, Acting, Ev
  <2>5. p = Stand(t)'
    <3>1. \A u \in Task : Busy(u)' => u = t
      BY <2>2, BusyAlone
    <3> QED BY <2>2, <2>4, <3>1 DEF Holds
  <2>6. Ev(t).new # 0 /\ (task[t].act = 2 \/ ~Flips(t[1]))
    BY <2>2, ActCases DEF ChainInv
  <2>7. Stand(t)' = Ev(t).new
    <3>1. task[t].act = 2 \/ ~Flips(t[1])'
      BY <2>2, <2>6 DEF Flips
    <3>2. task'[t].act = 2 \/ ~Flips(t[1])'
      BY <2>3, <3>1
    <3>3. task'[t].act = 1 => ~Flips(t[1])'
      BY <3>2
    <3> QED BY <2>2, <2>4, <3>3 DEF Stand, Undone, Opening
  <2> QED BY <2>2, <2>4, <2>5, <2>6, <2>7 DEF Fits, RowSide
<1> QED BY <1>1, <1>2

-----------------------------------------------------------------------------
(* What the account holds of a market.                                      *)

(* A live task between its order and its row; what its order moved; and     *)
(* what the account holds of a market when it holds just its rows.          *)
Unsettled(t) == /\ task[t].mode = "live"
                /\ task[t].pc \in {"closing", "unarm", "settle", "opening", "arm", "record"}
Moved(t) == IF InExit(t) THEN -(RowSide(task[t].held) * task[t].fs) ELSE CurAct(t).side * task[t].fs
LiveOn(c, h) == rows[h].status = "open" /\ rows[h].mode = "live" /\ event[h].coin = c
RowsHold(c, x) ==
  /\ \A h \in Events : LiveOn(c, h) => x = RowSide(h) * rows[h].size
  /\ (\A h \in Events : ~LiveOn(c, h)) => x = 0
BooksNow ==
  \A c \in Coins :
    /\ \A t \in Task : Unsettled(t) /\ Ev(t).coin = c => RowsHold(c, pos[c] - Moved(t))
    /\ (\A t \in Task : Unsettled(t) => Ev(t).coin # c) => RowsHold(c, pos[c])

(* Alone inside the lock, a task that has no order out finds the account at *)
(* what the rows say. *)
LEMMA AloneBooks ==
  ASSUME TypeInv, Calm, RowInv, BooksNow, NEW t \in Task, Inside(t), ~Unsettled(t), NEW c \in Coins
  PROVE  RowsHold(c, pos[c])
<1>1. ASSUME NEW u \in Task, Unsettled(u) PROVE FALSE
  <2>1. Inside(u)
    BY <1>1 DEF Unsettled, Inside, Acting
  <2> QED BY <1>1, <2>1, OneActs DEF RowInv
<1> QED BY <1>1 DEF BooksNow

(* A live exit finds all it wants to close. *)
LEMMA CloseFinds ==
  ASSUME TypeInv, Calm, RowInv, OneMode, HeldOpen, SizesPos, OwnInv, BooksNow,
         NEW t \in Task, CloseOrder(t)
  PROVE  /\ IsExit(t) /\ OnVenue(Ev(t).coin, RowSide(task[t].held)) = task[t].size
         /\ task[t].size \in Int /\ task[t].size > 0 /\ Ev(t).coin \in Coins
<1>1. At(t, "exit") /\ task[t].mode = "live" /\ Inside(t) /\ ~Unsettled(t) /\ IsExit(t)
  BY DEF CloseOrder, At, Inside, Acting, Unsettled, OwnInv, ExitKinds, InExit
<1>2. /\ task[t].held \in Events /\ LiveOn(Ev(t).coin, task[t].held) /\ Ev(t).coin \in Coins
      /\ task[t].size = rows[task[t].held].size /\ task[t].size \in Int /\ task[t].size > 0
  BY <1>1, ExitHolds, InsideType DEF At, LiveOn
<1>3. pos[Ev(t).coin] = RowSide(task[t].held) * task[t].size
  BY <1>1, <1>2, AloneBooks DEF RowsHold
<1>4. CASE RowSide(task[t].held) = 1
  BY <1>1, <1>2, <1>3, <1>4 DEF OnVenue, Magnitude
<1>5. CASE RowSide(task[t].held) = -1
  BY <1>1, <1>2, <1>3, <1>5 DEF OnVenue, Magnitude
<1> QED BY <1>1, <1>2, <1>4, <1>5, SideOfType DEF RowSide, Side

(* What a live exit's order fills. *)
LEMMA CloseFills ==
  ASSUME TypeInv, Calm, RowInv, OneMode, HeldOpen, SizesPos, OwnInv, BooksNow,
         NEW t \in Task, TaskStep(t), CloseOrder(t)
  PROVE  /\ task'[t].res = "filled" /\ task'[t].fs \in Nat /\ task'[t].fs > 0
         /\ task'[t].pc = "closing" /\ task'[t].act = task[t].act /\ task'[t].size = task[t].size
         /\ task'[t].held = task[t].held /\ task'[t].mode = task[t].mode
         /\ IF FullExit(t) THEN task'[t].fs = task[t].size ELSE task'[t].fs < task[t].size
         /\ pos' = [pos EXCEPT ![Ev(t).coin] = @ - RowSide(task[t].held) * task'[t].fs]
<1>0. task \in [Task -> TaskRec]
  BY DEF TypeInv, TypeOK
<1> DEFINE size    == IF FullExit(t) THEN task[t].size ELSE ExitQty(t)
           partial == IF FullExit(t) THEN "partial_close" ELSE "partial"
           depth   == OnVenue(Ev(t).coin, RowSide(task[t].held))
<1>1. PICK o \in Outcomes(size, depth, partial) :
        /\ pos' = [pos EXCEPT ![Ev(t).coin] = @ - RowSide(task[t].held) * o.real]
        /\ task' = [task EXCEPT ![t].pc = "closing", ![t].res = o.res, ![t].fs = o.fs]
  BY DEF CloseOrder
<1>2. IsExit(t) /\ depth = task[t].size /\ task[t].size \in Int /\ task[t].size > 0
  BY CloseFinds
<1>3. ExitQty(t) \in Int /\ ExitQty(t) > 0
  <2>1. ExitQty(t) \in Int
    BY CloseFits
  <2>2. ~ExitRefused(t)
    BY DEF CloseOrder
  <2> QED BY <2>1, <2>2 DEF ExitRefused
<1>4. size \in Nat /\ size > 0 /\ depth \in Nat /\ size <= depth /\ (~FullExit(t) => size < task[t].size)
  BY <1>2, <1>3 DEF FullExit
<1>5. FullExit(t) => size = task[t].size /\ partial = "partial_close"
  OBVIOUS
<1> HIDE DEF size, partial, depth
<1>6. /\ o.res = "filled" /\ o.fs = o.real /\ o.fs \in Nat /\ o.fs > 0 /\ o.fs <= size
      /\ partial = "partial_close" => o.fs = size
  BY <1>1, <1>4, OrdersFill
<1>7. /\ task'[t].pc = "closing" /\ task'[t].res = o.res /\ task'[t].fs = o.fs
      /\ task'[t].act = task[t].act /\ task'[t].size = task[t].size
      /\ task'[t].held = task[t].held /\ task'[t].mode = task[t].mode
  BY <1>0, <1>1 DEF TaskRec
<1>8. pos' = [pos EXCEPT ![Ev(t).coin] = @ - RowSide(task[t].held) * task'[t].fs]
  BY <1>1, <1>6, <1>7
<1>9. IF FullExit(t) THEN task'[t].fs = task[t].size ELSE task'[t].fs < task[t].size
  <2>1. FullExit(t) => o.fs = task[t].size
    BY <1>5, <1>6
  <2>2. ~FullExit(t) => o.fs < task[t].size
    BY <1>2, <1>4, <1>6
  <2> QED BY <1>7, <2>1, <2>2
<1> QED BY <1>6, <1>7, <1>8, <1>9

(* What an entry's order fills. *)
LEMMA OpenFills ==
  ASSUME TypeInv, Calm, LotsPos, NEW t \in Task, TaskStep(t), OpenOrder(t)
  PROVE  /\ task'[t].res = "filled" /\ task'[t].fs \in Nat /\ task'[t].fs > 0
         /\ task'[t].pc = "opening" /\ task'[t].act = task[t].act
         /\ task'[t].held = task[t].held /\ task'[t].mode = task[t].mode
         /\ pos' = [pos EXCEPT ![Ev(t).coin] = @ + CurAct(t).side * task'[t].fs]
<1>0. task \in [Task -> TaskRec]
  BY DEF TypeInv, TypeOK
<1>1. PICK o \in Outcomes(EntryLots(t), EntryLots(t), "partial") :
        /\ pos' = [pos EXCEPT ![Ev(t).coin] = @ + CurAct(t).side * o.real]
        /\ task' = [task EXCEPT ![t].pc = "opening", ![t].res = o.res, ![t].fs = o.fs]
  BY DEF OpenOrder
<1>2. EntryLots(t) \in Nat /\ EntryLots(t) > 0
  BY EntryLotsNat DEF OpenOrder, At, Acting, LotsPos, Opening
<1>3. o.res = "filled" /\ o.fs = o.real /\ o.fs \in Nat /\ o.fs > 0
  BY <1>1, <1>2, OrdersFill
<1>4. /\ task'[t].pc = "opening" /\ task'[t].res = o.res /\ task'[t].fs = o.fs
      /\ task'[t].act = task[t].act
      /\ task'[t].held = task[t].held /\ task'[t].mode = task[t].mode
  BY <1>0, <1>1 DEF TaskRec
<1> QED BY <1>1, <1>3, <1>4

(* Every step keeps what live exits on their way have filled. *)
LEMMA ExitFillsStep ==
  ASSUME TypeInv, Calm, Settings, RowInv, OneMode, HeldOpen, SizesPos, OwnInv, OrderInv, ExitFills,
         BooksNow, [Next]_vars
  PROVE  ExitFills'
<1> SUFFICES ASSUME NEW u \in Task, task'[u].pc \in {"closing", "unarm", "settle"},
                    task'[u].mode = "live"
             PROVE  /\ task'[u].res = "filled" /\ task'[u].fs > 0
                    /\ IF FullExit(u)' THEN task'[u].fs = task'[u].size
                       ELSE task'[u].fs < task'[u].size
  BY DEF ExitFills
<1>0. task \in [Task -> TaskRec]
  BY DEF TypeInv, TypeOK
<1>1. CASE ~TaskStep(u)
  <2>1. task'[u] = task[u] /\ task[u].pc # "idle"
    BY <1>1, OthersStand DEF Inside, Acting
  <2>2. FullExit(u)' = FullExit(u)
    BY <2>1, SameExit
  <2> QED BY <2>1, <2>2 DEF ExitFills
<1>2. CASE TaskStep(u) /\ CloseOrder(u)
  <2>1. task[u].pc # "idle"
    BY <1>2 DEF CloseOrder, At
  <2> QED BY <1>2, <2>1, CloseFills, SameExit
<1>3. CASE TaskStep(u) /\ ~CloseOrder(u)
  <2>1. Advances(u) /\ (ShadowExit(u) \/ CloseAnswer(u) \/ Unarm(u)) /\ task[u].pc # "idle"
    BY <1>3, ComesBy DEF OrderPoints, Acting
  <2>2. task[u].mode = "live"
    BY <2>1 DEF Advances
  <2>3. task[u].pc \in {"closing", "unarm"} /\ ~ShadowExit(u) /\ ~ShadowEntry(u) /\ ~OpenOrder(u)
    BY <2>1, <2>2 DEF ShadowExit, CloseAnswer, Unarm, ShadowEntry, OpenOrder, At
  <2>4. task'[u].size = task[u].size /\ task'[u].res = task[u].res /\ task'[u].fs = task[u].fs
    BY <1>3, <2>1, <2>3, AdvanceFields
  <2>5. FullExit(u)' = FullExit(u)
    BY <2>1, <2>4, SameExit DEF Advances
  <2> QED BY <2>2, <2>3, <2>4, <2>5 DEF ExitFills
<1> QED BY <1>1, <1>2, <1>3

(* The steps that write a row and those that send an order.               *)
Settles(t) == TaskStep(t) /\ (Settle(t) \/ Record(t))
Orders(t)  == TaskStep(t) /\ (CloseOrder(t) \/ OpenOrder(t))

(* Rows that stand mean the same to the books. *)
LEMMA RowsHoldSame ==
  ASSUME TypeInv, [Next]_vars, NEW c, NEW x,
         \A h \in Events : \/ rows'[h] = rows[h]
                           \/ ~LiveOn(c, h) /\ ~LiveOn(c, h)'
  PROVE  RowsHold(c, x)' <=> RowsHold(c, x)
<1>1. \A h \in Events : rows[h].status = "open" => event'[h] = event[h]
  BY EventsStay DEF TypeInv, RowsKnown
<1>2. \A h \in Events : LiveOn(c, h)' <=> LiveOn(c, h)
  BY <1>1 DEF LiveOn
<1>3. \A h \in Events : LiveOn(c, h) => rows'[h] = rows[h] /\ RowSide(h)' = RowSide(h)
  BY <1>1 DEF LiveOn, RowSide
<1> QED BY <1>2, <1>3 DEF RowsHold

(* The row a task books is of its market and its mode. *)
LEMMA RowTouched ==
  ASSUME TypeInv, Calm, Settings, RowInv, OneMode, OwnInv, HeldOpen, SizesPos, [Next]_vars,
         NEW t \in Task, Settles(t), NEW h \in Events, rows'[h] # rows[h]
  PROVE  /\ event'[h].coin = Ev(t).coin /\ event[h].coin = Ev(t).coin
         /\ rows[h].status = "open" => rows[h].mode = task[t].mode
         /\ rows'[h].mode = task[t].mode
         /\ h = IF Record(t) /\ KindOf(t) # "add" THEN t[1] ELSE task[t].held
<1>0. UNCHANGED event /\ rows \in [Events -> RowRec]
  BY DEF Settles, TaskStep, TypeInv, TypeOK
<1>1. CASE Settle(t)
  <2>1. At(t, "settle") /\ ~Record(t)
    BY <1>1 DEF Settle, Record, At
  <2>2. IsExit(t)
    BY <2>1 DEF OwnInv, ExitKinds, InExit, At
  <2>3. /\ task[t].held \in Events /\ rows[task[t].held].mode = task[t].mode
        /\ event[task[t].held].coin = Ev(t).coin
    BY <2>1, <2>2, ExitHolds DEF At
  <2>4. h = task[t].held
    BY <1>0, <1>1 DEF Settle
  <2>5. rows'[h].mode = rows[h].mode
    <3>1. ~ \E u \in Task : Booking(u)
      <4>1. ASSUME NEW u \in Task, Booking(u) PROVE FALSE
        <5>1. Inside(u) /\ Inside(t)
          BY <2>1, <4>1 DEF Booking, Record, At, Inside, Acting
        <5> QED BY <2>1, <4>1, <5>1, OneActs DEF RowInv, Booking
      <4> QED BY <4>1
    <3> QED BY <3>1, RowFields
  <2> QED BY <1>0, <2>1, <2>3, <2>4, <2>5
<1>2. CASE Record(t) /\ KindOf(t) = "add"
  <2>1. h = task[t].held /\ rows'[h].mode = rows[h].mode
    BY <1>2, AddedRow
  <2>2. task[t].pc = "record" /\ ~Opens(t)
    BY <1>2 DEF Record, At, Opens
  <2>3. h \in HeldNow(t)
    BY <2>1, <2>2, ConstantsOK DEF HeldOpen, Reading, Undone, Opening
  <2> QED BY <1>0, <1>2, <2>1, <2>3 DEF HeldNow, HeldRows, OpenRows
<1>3. CASE Record(t) /\ KindOf(t) # "add"
  <2>1. Books(t)
    BY <1>3 DEF Books, Settles
  <2>2. h = t[1] /\ rows'[h].mode = task[t].mode
    BY <2>1, BookedRow
  <2>3. HeldNow(t) = {} /\ Inside(t)
    BY <2>1, BookingOpens
  <2>4. event[h].coin = Ev(t).coin
    BY <2>2 DEF Ev
  <2>5. rows[h].status # "open"
    BY <2>3, <2>4, RowHere
  <2> QED BY <1>0, <1>3, <2>2, <2>4, <2>5
<1> QED BY <1>1, <1>2, <1>3 DEF Settles

(* On its way from its order to its row a live task keeps what its order    *)
(* moved.                                                                   *)
LEMMA OrderOnItsWay ==
  ASSUME TypeInv, Calm, RowInv, RowInv', OwnInv, OwnInv', OrderInv, HeldOpen, EntryFills,
         ExitFills, [Next]_vars,
         NEW t \in Task, ~Settles(t), ~Orders(t), Unsettled(t) \/ Unsettled(t)'
  PROVE  Unsettled(t) /\ Unsettled(t)' /\ Ev(t)' = Ev(t) /\ Moved(t)' = Moved(t)
<1>0. task \in [Task -> TaskRec]
  BY DEF TypeInv, TypeOK
<1>1. /\ task[t].pc # "idle" /\ Unsettled(t) /\ Unsettled(t)' /\ task'[t].act = task[t].act
      /\ task'[t].fs = task[t].fs /\ task'[t].held = task[t].held
  <2>1. CASE ~TaskStep(t)
    <3>1. task[t].pc # "idle"
      BY <2>1, OthersStand DEF Unsettled, Inside, Acting
    <3>2. task'[t] = task[t]
      BY <2>1, <3>1, StandsStill
    <3> QED BY <3>1, <3>2 DEF Unsettled
  <2>2. CASE TaskStep(t) /\ Unsettled(t)
    <3>1. task[t].mode = "live" /\ task[t].pc \in {"closing", "unarm", "opening", "arm"}
      <4>1. At(t, "settle") => Settle(t)
        BY <2>2, ExitMoves
      <4>2. At(t, "record") => Record(t)
        BY <2>2 DEF TaskStep, ExitStep, EntryStep, ReadSubs, Acquire, Release, Seen, Drop, ReadHeld,
             Claim, SkipExit, ShadowExit, CloseOrder, CloseAnswer, Unarm, Settle, FinishExit,
             SkipEntry, GateSkip, GateLoss, GatePass, ShadowEntry, OpenOrder, OpenAnswer, Arm,
             Record, FinishEntry, CheckPause, Working, At
      <4> QED BY <2>2, <4>1, <4>2 DEF Unsettled, Settles, At
    <3>2. task[t].res = "filled"
      BY <3>1 DEF EntryFills, ExitFills, Filling
    <3>3. CloseAnswer(t) \/ Unarm(t) \/ OpenAnswer(t) \/ Arm(t)
      BY <2>2, <3>1 DEF TaskStep, ExitStep, EntryStep, ReadSubs, Acquire, Release, Seen, Drop,
           ReadHeld, Claim, SkipExit, ShadowExit, CloseOrder, CloseAnswer, Unarm, Settle, FinishExit,
           SkipEntry, GateSkip, GateLoss, GatePass, ShadowEntry, OpenOrder, OpenAnswer, Arm,
           Record, FinishEntry, CheckPause, Working, At
    <3>4. CASE CloseAnswer(t)
      BY <1>0, <2>2, <3>1, <3>2, <3>4 DEF CloseAnswer, Goto, Unsettled, TaskRec
    <3>5. CASE Unarm(t)
      BY <1>0, <2>2, <3>1, <3>5 DEF Unarm, Goto, Unsettled, TaskRec
    <3>6. CASE OpenAnswer(t)
      BY <1>0, <2>2, <3>1, <3>2, <3>6 DEF OpenAnswer, Goto, Unsettled, TaskRec
    <3>7. CASE Arm(t)
      BY <1>0, <2>2, <3>1, <3>7 DEF Arm, Unsettled, TaskRec
    <3> QED BY <3>3, <3>4, <3>5, <3>6, <3>7
  <2>3. CASE TaskStep(t) /\ Unsettled(t)' /\ ~Unsettled(t)
    <3>1. Advances(t) /\ task[t].mode = "live"
      BY <2>3, ComesBy DEF OrderPoints, Unsettled, Advances
    <3>2. ~CloseOrder(t) /\ ~OpenOrder(t) /\ ~ShadowExit(t) /\ ~ShadowEntry(t)
      BY <2>3, <3>1 DEF Orders, ShadowExit, ShadowEntry
    <3>3. CloseAnswer(t) \/ Unarm(t) \/ OpenAnswer(t) \/ Arm(t)
      BY <2>3, <3>2, ComesBy DEF Unsettled
    <3>4. Unsettled(t)
      BY <3>1, <3>3 DEF CloseAnswer, Unarm, OpenAnswer, Arm, At, Unsettled
    <3> QED BY <2>3, <3>4
  <2> QED BY <2>1, <2>2, <2>3
<1>2. Ev(t)' = Ev(t) /\ IsExit(t)' = IsExit(t) /\ CurAct(t)' = CurAct(t)
  BY <1>1, SameTask DEF CurAct, ActsOf
<1>3. (InExit(t) <=> IsExit(t)) /\ (InExit(t)' <=> IsExit(t)')
  <2>1. InExit(t) <=> IsExit(t)
    BY <1>1 DEF Unsettled, InExit, OwnInv, ExitKinds, RowInv, EntryKinds, Opening
  <2>2. InExit(t)' <=> IsExit(t)'
    BY <1>1 DEF Unsettled, InExit, OwnInv, ExitKinds, RowInv, EntryKinds, Opening
  <2> QED BY <2>1, <2>2
<1>4. IsExit(t) => RowSide(task[t].held)' = RowSide(task[t].held)
  <2>1. ASSUME IsExit(t) PROVE event'[task[t].held] = event[task[t].held]
    <3>1. task[t].held # None
      BY <1>1, <2>1 DEF HeldOpen, Reading, Undone, Opening, Opens, IsExit, Unsettled
    <3>2. task[t].held \in Events /\ event[task[t].held] # None
      BY <1>0, <3>1 DEF TypeInv, WellFormed, TaskRec
    <3> QED BY <3>2, EventsStay
  <2> QED BY <1>1, <2>1 DEF RowSide
<1>5. Moved(t)' = Moved(t)
  <2>1. CASE IsExit(t)
    BY <1>1, <1>2, <1>3, <1>4, <2>1 DEF Moved
  <2>2. CASE ~IsExit(t)
    BY <1>1, <1>2, <1>3, <2>2 DEF Moved
  <2> QED BY <2>1, <2>2
<1> QED BY <1>1, <1>2, <1>5

(* Steps that neither order nor book leave the books as they are. *)
LEMMA BooksStand ==
  ASSUME TypeInv, Calm, Settings, RowInv, RowInv', OwnInv, OwnInv', OrderInv, HeldOpen, EntryFills,
         ExitFills, BooksNow, [Next]_vars, ~ \E t \in Task : Settles(t) \/ Orders(t)
  PROVE  BooksNow'
<1>1. UNCHANGED rows
  BY RowsByOne DEF Settles
<1>2. UNCHANGED pos
  <2>1. OnlyEngine
    BY DEF OnlyEngine, Calm, Upsets
  <2> QED BY <2>1, PosMoves DEF Orders
<1>3. \A c \in Coins : \A x : RowsHold(c, x)' <=> RowsHold(c, x)
  BY <1>1, RowsHoldSame
<1>4. \A t \in Task : Unsettled(t) \/ Unsettled(t)' =>
        Unsettled(t) /\ Unsettled(t)' /\ Ev(t)' = Ev(t) /\ Moved(t)' = Moved(t)
  BY OrderOnItsWay
<1>5. ASSUME NEW c \in Coins, NEW t \in Task, Unsettled(t)', Ev(t)'.coin = c
      PROVE  RowsHold(c, pos[c] - Moved(t))'
  <2>1. Unsettled(t) /\ Ev(t).coin = c /\ Moved(t)' = Moved(t)
    BY <1>4, <1>5
  <2>2. PICK x : x = pos[c] - Moved(t)
    OBVIOUS
  <2>3. RowsHold(c, x)
    BY <2>1, <2>2 DEF BooksNow
  <2>4. RowsHold(c, x)' /\ (pos[c] - Moved(t))' = x
    BY <1>2, <1>3, <2>1, <2>2, <2>3
  <2> QED BY <2>4
<1>6. ASSUME NEW c \in Coins, \A t \in Task : Unsettled(t)' => Ev(t)'.coin # c
      PROVE  RowsHold(c, pos[c])'
  <2>1. RowsHold(c, pos[c])
    BY <1>4, <1>6 DEF BooksNow
  <2>2. PICK x : x = pos[c]
    OBVIOUS
  <2>3. RowsHold(c, x)'
    BY <1>3, <2>1, <2>2
  <2> QED BY <1>2, <2>2, <2>3
<1> QED BY <1>5, <1>6 DEF BooksNow

(* Beside a task that orders or books nobody has an order out. *)
LEMMA OthersSettled ==
  ASSUME TypeInv, Calm, RowInv, [Next]_vars, NEW t \in Task, Settles(t) \/ Orders(t),
         NEW u \in Task, u # t
  PROVE  ~Unsettled(u) /\ ~Unsettled(u)'
<1>1. Inside(t)
  BY DEF Settles, Orders, Settle, Record, CloseOrder, OpenOrder, At, Inside, Acting
<1>2. ~Inside(u)
  BY <1>1, OneActs DEF RowInv
<1>3. ~Unsettled(u)
  BY <1>2 DEF Unsettled, Inside, Acting
<1>4. ASSUME Unsettled(u)' PROVE FALSE
  <2>1. CASE TaskStep(u)
    BY <1>2, <1>4, <2>1, ComesBy DEF Unsettled, OrderPoints, Inside
  <2>2. CASE ~TaskStep(u)
    BY <1>2, <1>4, <2>2, OthersStand DEF Unsettled, Inside, Acting
  <2> QED BY <2>1, <2>2
<1> QED BY <1>3, <1>4

(* The task that steps is alone in touching the account and the rows. *)
LEMMA OneSettles ==
  ASSUME TypeInv, Calm, RowInv, NEW t \in Task, Settles(t) \/ Orders(t),
         NEW u \in Task, Settles(u) \/ Orders(u)
  PROVE  u = t
<1>1. Inside(t) /\ Inside(u)
  BY DEF Settles, Orders, Settle, Record, CloseOrder, OpenOrder, At, Inside, Acting
<1> QED BY <1>1, OneActs DEF RowInv

(* An order is counted while its task has not booked it. *)
LEMMA OrderBooks ==
  ASSUME TypeInv, Calm, Settings, RowInv, OneMode, HeldOpen, SizesPos, OwnInv, LotsPos, EntryFills,
         BooksNow, [Next]_vars, NEW t \in Task, Orders(t), NEW c \in Coins
  PROVE  IF c = Ev(t).coin THEN Unsettled(t)' /\ RowsHold(c, pos[c] - Moved(t))'
         ELSE RowsHold(c, pos[c])'
<1>0. /\ task \in [Task -> TaskRec] /\ pos \in [Coins -> Int] /\ UNCHANGED <<event, rows>>
      /\ Inside(t) /\ task[t].pc # "idle" /\ task[t].mode = "live" /\ ~Unsettled(t)
  BY DEF TypeInv, TypeOK, Orders, TaskStep, CloseOrder, OpenOrder, db, Inside, At, Acting, Unsettled
<1>1. PICK x \in Int : x = pos[c] /\ RowsHold(c, x)
  BY <1>0, AloneBooks
<1>2. RowsHold(c, x)'
  BY <1>0, <1>1, RowsHoldSame
<1>3. CASE CloseOrder(t)
  <2>1. /\ task'[t].fs \in Nat /\ task'[t].pc = "closing" /\ task'[t].held = task[t].held
        /\ task'[t].mode = "live"
        /\ pos' = [pos EXCEPT ![Ev(t).coin] = @ - RowSide(task[t].held) * task'[t].fs]
    BY <1>0, <1>3, CloseFills DEF Orders
  <2>2. PICK w \in Int : w = RowSide(task[t].held) * task'[t].fs
    BY <2>1, SideOfType DEF RowSide, Side
  <2>3. Unsettled(t)' /\ Moved(t)' = -w
    BY <1>0, <2>1, <2>2 DEF Unsettled, Moved, InExit, RowSide
  <2>4. CASE c = Ev(t).coin
    <3>1. pos'[c] = x - w
      BY <1>0, <1>1, <2>1, <2>2, <2>4
    <3>2. (pos[c] - Moved(t))' = x
      BY <1>1, <2>2, <2>3, <3>1
    <3> QED BY <1>2, <2>3, <2>4, <3>2
  <2>5. CASE c # Ev(t).coin
    <3>1. pos'[c] = x
      BY <1>0, <1>1, <2>1, <2>5
    <3> QED BY <1>2, <2>5, <3>1
  <2> QED BY <2>4, <2>5
<1>4. CASE OpenOrder(t)
  <2>1. /\ task'[t].fs \in Nat /\ task'[t].pc = "opening" /\ task'[t].act = task[t].act
        /\ task'[t].mode = "live"
        /\ pos' = [pos EXCEPT ![Ev(t).coin] = @ + CurAct(t).side * task'[t].fs]
    BY <1>0, <1>4, OpenFills DEF Orders
  <2>2. PICK w \in Int : w = CurAct(t).side * task'[t].fs
    <3>1. CurAct(t) \in Action
      BY <1>0, <1>4, ActionType DEF OpenOrder, At, Acting
    <3> QED BY <2>1, <3>1 DEF Action, Side
  <2>3. Unsettled(t)' /\ Moved(t)' = w
    <3>1. CurAct(t)' = CurAct(t)
      BY <1>0, <2>1, SameTask DEF CurAct, ActsOf
    <3> QED BY <2>1, <2>2, <3>1 DEF Unsettled, Moved, InExit
  <2>4. CASE c = Ev(t).coin
    <3>1. pos'[c] = x + w
      BY <1>0, <1>1, <2>1, <2>2, <2>4
    <3>2. (pos[c] - Moved(t))' = x
      BY <1>1, <2>2, <2>3, <3>1
    <3> QED BY <1>2, <2>3, <2>4, <3>2
  <2>5. CASE c # Ev(t).coin
    <3>1. pos'[c] = x
      BY <1>0, <1>1, <2>1, <2>5
    <3> QED BY <1>2, <2>5, <3>1
  <2> QED BY <2>4, <2>5
<1> QED BY <1>3, <1>4 DEF Orders

(* One row holding all there is.                                            *)
LEMMA RowHoldsAll ==
  ASSUME NEW c, NEW x, NEW h \in Events, LiveOn(c, h)', x = RowSide(h)' * rows'[h].size,
         \A g \in Events : LiveOn(c, g)' => g = h
  PROVE  RowsHold(c, x)'
BY DEF RowsHold

(* A booked exit takes from the row what its order took from the account.   *)
LEMMA SettleBooks ==
  ASSUME TypeInv, Calm, Settings, RowInv, OneMode, HeldOpen, SizesPos, OwnInv, ExitFills, BooksNow,
         [Next]_vars, NEW t \in Task, TaskStep(t), Settle(t), task[t].mode = "live",
         NEW x, x = pos[Ev(t).coin]
  PROVE  RowsHold(Ev(t).coin, x)'
<1>a. PICK h : h = task[t].held
  OBVIOUS
<1>0. /\ task \in [Task -> TaskRec] /\ rows \in [Events -> RowRec] /\ UNCHANGED event
      /\ At(t, "settle") /\ IsExit(t) /\ Unsettled(t) /\ Inside(t) /\ Ev(t)' = Ev(t)
  BY DEF TypeInv, TypeOK, TaskStep, Settle, OwnInv, ExitKinds, InExit, At, Unsettled, Inside,
         Acting, Ev
<1>1. /\ h \in Events /\ rows[h].status = "open" /\ rows[h].mode = "live"
      /\ task[t].size = rows[h].size /\ task[t].size \in Int /\ task[t].size > 0
      /\ event[h].coin = Ev(t).coin
      /\ \A g \in Events : rows[g].status = "open" /\ event[g].coin = Ev(t).coin => g = h
  BY <1>0, <1>a, ExitHolds DEF At
<1>2. Ev(t).coin \in Coins /\ pos[Ev(t).coin] \in Int /\ x \in Int
  BY <1>0, InsideType DEF TypeInv, TypeOK
<1>3. PICK s \in {1, -1} : s = RowSide(h)
  BY SideOfType DEF RowSide, Side
<1>4. PICK f \in Int : f = task[t].fs /\ f > 0 /\ (IF FullExit(t) THEN f = task[t].size ELSE f < task[t].size)
  BY <1>0 DEF ExitFills, At, TaskRec
<1>5. x + s * f = s * task[t].size
  <2>1. Moved(t) = -(s * f)
    BY <1>0, <1>a, <1>3, <1>4 DEF Moved, InExit, At
  <2>2. RowsHold(Ev(t).coin, x - Moved(t))
    BY <1>0, <1>2 DEF BooksNow
  <2>3. x - Moved(t) = s * task[t].size
    BY <1>1, <1>3, <2>2 DEF RowsHold, LiveOn
  <2>4. s * f \in Int /\ s * task[t].size \in Int
    BY <1>1, <1>4
  <2> QED BY <1>2, <2>1, <2>3, <2>4
<1>6. rows' = [rows EXCEPT ![h] = IF FullExit(t) \/ task[t].size - f <= 0
                                 THEN [@ EXCEPT !.status = "closed", !.size = 0]
                                 ELSE [@ EXCEPT !.size = task[t].size - f]]
  BY <1>a, <1>4 DEF Settle
<1>7. \A g \in Events : g # h => rows'[g] = rows[g]
  BY <1>0, <1>6
<1>8. \A g \in Events : LiveOn(Ev(t).coin, g)' => g = h
  BY <1>0, <1>1, <1>7 DEF LiveOn
<1>9. CASE FullExit(t)
  <2>1. rows'[h].status = "closed"
    BY <1>0, <1>1, <1>6, <1>9 DEF RowRec
  <2>2. x = 0
    BY <1>1, <1>2, <1>3, <1>4, <1>5, <1>9
  <2>3. \A g \in Events : ~LiveOn(Ev(t).coin, g)'
    BY <1>8, <2>1 DEF LiveOn
  <2> QED BY <2>2, <2>3 DEF RowsHold
<1>10. CASE ~FullExit(t)
  <2>1. rows' = [rows EXCEPT ![h] = [@ EXCEPT !.size = task[t].size - f]]
    <3>1. ~(FullExit(t) \/ task[t].size - f <= 0)
      BY <1>1, <1>4, <1>10
    <3> QED BY <1>6, <3>1
  <2>2. /\ rows'[h].status = "open" /\ rows'[h].mode = "live" /\ rows'[h].size = task[t].size - f
    BY <1>0, <1>1, <2>1 DEF RowRec
  <2>3. x = s * (task[t].size - f)
    <3>1. f \in Int /\ task[t].size \in Int
      BY <1>1, <1>4
    <3>2. CASE s = 1
      BY <1>2, <1>5, <3>1, <3>2
    <3>3. CASE s = -1
      BY <1>2, <1>5, <3>1, <3>3
    <3> QED BY <1>3, <3>2, <3>3
  <2>4. LiveOn(Ev(t).coin, h)' /\ RowSide(h)' = s
    BY <1>0, <1>1, <1>3, <2>2 DEF LiveOn, RowSide
  <2> QED BY <1>1, <1>8, <2>2, <2>3, <2>4 DEF RowsHold
<1> QED BY <1>9, <1>10

(* A booked entry gives the row what its order gave the account.            *)
LEMMA RecordBooks ==
  ASSUME TypeInv, Calm, Settings, RowInv, OneMode, HeldOpen, SizesPos, OwnInv, EntryFills, ChainInv,
         SideFits, BooksNow, [Next]_vars, NEW t \in Task, TaskStep(t), Record(t),
         task[t].mode = "live", NEW x, x = pos[Ev(t).coin]
  PROVE  RowsHold(Ev(t).coin, x)'
<1>0. /\ task \in [Task -> TaskRec] /\ rows \in [Events -> RowRec] /\ UNCHANGED event
      /\ task[t].pc = "record" /\ Unsettled(t) /\ Inside(t) /\ Ev(t)' = Ev(t) /\ ~InExit(t)
      /\ task[t].pc \in Acting
  BY DEF TypeInv, TypeOK, TaskStep, Record, InExit, At, Unsettled, Inside, Acting, Ev
<1>1. Ev(t).coin \in Coins /\ x \in Int /\ t[1] \in Events
  BY <1>0, InsideType DEF TypeInv, TypeOK
<1>2. PICK f \in Int : f = task[t].fs
  BY <1>0 DEF TaskRec
<1>3. RowsHold(Ev(t).coin, x - CurAct(t).side * f)
  BY <1>0, <1>1, <1>2 DEF BooksNow, Moved
<1>4. CASE KindOf(t) # "add"
  <2>1. Books(t)
    BY <1>4 DEF Books
  <2>2. Opens(t) /\ HeldNow(t) = {}
    BY <2>1, BookingOpens
  <2>3. PICK s \in {1, -1} : s = RowSide(t[1]) /\ CurAct(t).side = s
    BY <1>0, <2>2, ActCases, SideOfType DEF ChainInv, RowSide, Side
  <2>4. \A g \in Events : ~(rows[g].status = "open" /\ event[g].coin = Ev(t).coin)
    BY <1>0, <2>2, RowHere
  <2>5. x - s * f = 0
    BY <1>3, <2>3, <2>4 DEF RowsHold, LiveOn
  <2>6. \A g \in Events : LiveOn(Ev(t).coin, g)' => g = t[1]
    BY <1>0, <2>1, <2>4, BookedRow DEF LiveOn
  <2>7. rows'[t[1]].status = "open" /\ rows'[t[1]].mode = "live" /\ rows'[t[1]].size = f
    BY <1>2, <2>1, BookedRow, OpenedRow
  <2>8. LiveOn(Ev(t).coin, t[1])' /\ RowSide(t[1])' = s
    BY <1>0, <2>3, <2>7 DEF LiveOn, RowSide, Ev
  <2>9. x = s * f
    BY <1>1, <1>2, <2>3, <2>5
  <2> QED BY <1>1, <2>6, <2>7, <2>8, <2>9 DEF RowsHold
<1>5. CASE KindOf(t) = "add"
  <2>a. PICK h : h = task[t].held
    OBVIOUS
  <2>1. h \in HeldNow(t) /\ task[t].size = rows[h].size
    BY <1>0, <1>5, <2>a DEF HeldOpen, Reading, Undone, Opening, Opens
  <2>2. /\ h \in Events /\ rows[h].status = "open" /\ rows[h].mode = "live"
        /\ event[h].coin = Ev(t).coin
    BY <2>1 DEF HeldNow, HeldRows, OpenRows
  <2>3. task[t].act = 1 /\ CurAct(t).side = SideOf(Ev(t).old)
    BY <1>0, <1>5, ActCases DEF ChainInv
  <2>4. RowSide(h) = SideOf(Ev(t).old)
    <3>1. Holds(Ev(t).coin, Ev(t).old)
      BY <1>0, <2>3 DEF Holds, Busy, Claimed, Acting, Stand, Undone, Opening
    <3>2. Ev(t).old \in Int
      BY <1>0, InsideType DEF EventRec
    <3> QED BY <2>2, <3>1, <3>2 DEF SideFits, Fits
  <2>5. PICK s \in {1, -1} : s = RowSide(h) /\ CurAct(t).side = s
    BY <2>3, <2>4, SideOfType DEF RowSide, Side
  <2>6. task[t].size \in Int /\ x - s * f = s * task[t].size
    BY <1>0, <1>3, <2>1, <2>2, <2>5 DEF RowsHold, LiveOn, TaskRec
  <2>7. /\ rows'[h].status = "open" /\ rows'[h].mode = "live"
        /\ rows'[h].size = task[t].size + f /\ \A g \in Events : g # h => rows'[g] = rows[g]
    BY <1>2, <1>5, <2>a, <2>2, AddedRow
  <2>8. \A g \in Events : LiveOn(Ev(t).coin, g)' => g = h
    <3>1. ASSUME NEW g \in Events, rows[g].status = "open", event[g].coin = Ev(t).coin PROVE g = h
      <4>1. g \in HeldNow(t) /\ task[t].mode \in Mode
        BY <1>0, <3>1, RowHere DEF TaskRec
      <4> QED BY <1>0, <2>1, <4>1, InsideType DEF RowInv, OneOpenRow, HeldNow
    <3> QED BY <1>0, <2>7, <3>1 DEF LiveOn
  <2>9. LiveOn(Ev(t).coin, h)' /\ RowSide(h)' = s
    BY <1>0, <2>2, <2>5, <2>7 DEF LiveOn, RowSide
  <2>10. x = s * (task[t].size + f)
    BY <1>1, <1>2, <2>5, <2>6
  <2> QED BY <2>2, <2>7, <2>8, <2>9, <2>10 DEF RowsHold
<1> QED BY <1>4, <1>5

(* What a task books, and what is not its market's, the account holds.      *)
LEMMA BooksSettled ==
  ASSUME TypeInv, Calm, Settings, RowInv, OneMode, HeldOpen, SizesPos, OwnInv, EntryFills, ExitFills,
         ChainInv, SideFits, BooksNow, [Next]_vars, NEW t \in Task, Settles(t), NEW c \in Coins
  PROVE  ~Unsettled(t)' /\ RowsHold(c, pos[c])'
<1>0. task \in [Task -> TaskRec] /\ UNCHANGED pos /\ Inside(t)
  BY DEF TypeInv, TypeOK, Settles, Settle, Record, venue, At, Inside, Acting
<1>1. ~Unsettled(t)'
  <2>1. Settle(t) => task'[t].pc = "finish"
    BY <1>0 DEF Settle, Goto
  <2>2. Record(t) => task'[t].pc = "booked"
    BY <1>0 DEF Record, Goto
  <2> QED BY <2>1, <2>2 DEF Settles, Unsettled
<1>2. PICK x : x = pos[c]
  OBVIOUS
<1>3. CASE c = Ev(t).coin /\ task[t].mode = "live"
  <2>1. Ev(t)' = Ev(t)
    BY DEF Settles, TaskStep, Ev
  <2>2. RowsHold(Ev(t).coin, x)'
    BY <1>2, <1>3, SettleBooks, RecordBooks DEF Settles
  <2> QED BY <1>0, <1>1, <1>2, <1>3, <2>1, <2>2
<1>4. CASE ~(c = Ev(t).coin /\ task[t].mode = "live")
  <2>1. RowsHold(c, x)
    <3>1. CASE c = Ev(t).coin
      BY <1>0, <1>2, <1>4, <3>1, AloneBooks DEF Unsettled
    <3>2. CASE c # Ev(t).coin
      BY <1>2, <3>2, OthersSettled DEF BooksNow
    <3> QED BY <3>1, <3>2
  <2>2. ASSUME NEW h \in Events, rows'[h] # rows[h] PROVE ~LiveOn(c, h) /\ ~LiveOn(c, h)'
    BY <1>4, <2>2, RowTouched DEF LiveOn
  <2>3. RowsHold(c, x)'
    BY <2>1, <2>2, RowsHoldSame
  <2> QED BY <1>0, <1>1, <1>2, <2>3
<1> QED BY <1>3, <1>4

(* Every step keeps the account at what the rows and the orders on their    *)
(* way say.                                                                 *)
LEMMA BooksNowStep ==
  ASSUME TypeInv, Calm, Settings, RowInv, RowInv', OneMode, HeldOpen, SizesPos, OwnInv, OwnInv',
         OrderInv, LotsPos, EntryFills, ExitFills, ChainInv, SideFits, BooksNow, [Next]_vars
  PROVE  BooksNow'
<1>1. ASSUME NEW t \in Task, Settles(t) \/ Orders(t) PROVE BooksNow'
  <2>1. \A u \in Task : u # t => ~Unsettled(u)'
    BY <1>1, OthersSettled
  <2>2. Ev(t)' = Ev(t)
    BY <1>1 DEF Settles, Orders, TaskStep, Ev
  <2>3. CASE Settles(t)
    BY <2>1, <2>2, <2>3, BooksSettled DEF BooksNow
  <2>4. CASE Orders(t)
    <3>1. \A c \in Coins : IF c = Ev(t).coin THEN Unsettled(t)' /\ RowsHold(c, pos[c] - Moved(t))'
                           ELSE RowsHold(c, pos[c])'
      BY <2>4, OrderBooks
    <3> QED BY <2>1, <2>2, <3>1 DEF BooksNow
  <2> QED BY <1>1, <2>3, <2>4
<1> QED BY <1>1, BooksStand

-----------------------------------------------------------------------------
(* Together, and what it means when no task is under way.                   *)

(* The whole of it. *)
CalmInv == /\ Settings /\ OneMode /\ ChainInv /\ KeysInv /\ BusyReached /\ HeldOpen
           /\ LotsPos /\ EntryFills /\ SizesPos /\ ExitFills /\ SideFits /\ BooksNow

(* Nothing is under way and nothing is open at the start. *)
LEMMA CalmInit == Init => CalmInv
<1> SUFFICES ASSUME Init PROVE CalmInv
  OBVIOUS
<1>0. /\ \A t \in Task : task[t] = NoTask
      /\ \A e \in Events : event[e] = None /\ rows[e] = NoRow /\ <<e, 1>> \in Key /\ <<e, 2>> \in Key
      /\ \A k \in Key : log[k] = "none" /\ k \notin notCopied
      /\ \A c \in Coins : pos[c] = 0
  BY DEF Init, Key
<1>1. \A t \in Task : task[t].pc = "idle"
  BY <1>0 DEF NoTask, Fresh
<1>2. \A e \in Events : ~Known(e) /\ ~Unmet(e) /\ rows[e].status = "none"
  <2>0. NoRow.status = "none"
    BY DEF NoRow
  <2>1. \A e \in Events : rows[e].status = "none"
    BY <1>0, <2>0
  <2> QED BY <1>0, <2>1 DEF Known, Unmet
<1>3. \A t \in Task : ~Inside(t) /\ ~Busy(t) /\ ~Unsettled(t) /\ ~At(t, "wait") /\ ~At(t, "claim")
  BY <1>1 DEF Inside, Acting, Busy, Claimed, Unsettled, At
<1>4. Settings
  BY DEF Init, Settings, NoSweep
<1>5. OneMode
  BY <1>2, <1>3 DEF OneMode
<1>6. ChainInv
  BY <1>2 DEF ChainInv, Numbered, Linked, NextTo, Newest, Precedes
<1>7. KeysInv
  <2>1. Unheard
    BY <1>0 DEF Unheard, Taken
  <2>2. FirstWaits /\ NoneOlder /\ InOrder /\ AfterFirst /\ Halves /\ ClaimUnseen
    BY <1>2, <1>3 DEF FirstWaits, NoneOlder, InOrder, AfterFirst, Halves, ClaimUnseen, Past
  <2> QED BY <2>1, <2>2 DEF KeysInv
<1>8. BusyReached
  BY <1>3 DEF BusyReached
<1>9. HeldOpen /\ LotsPos /\ EntryFills /\ ExitFills
  BY <1>1 DEF HeldOpen, Reading, Undone, Opening, LotsPos, EntryFills, Filling, ExitFills
<1>10. SizesPos /\ SideFits
  BY <1>2 DEF SizesPos, SideFits
<1>11. BooksNow
  BY <1>0, <1>2, <1>3 DEF BooksNow, RowsHold, LiveOn
<1> QED BY <1>4, <1>5, <1>6, <1>7, <1>8, <1>9, <1>10, <1>11 DEF CalmInv

(* Every step keeps it. *)
LEMMA CalmStep ==
  ASSUME Calm
  PROVE  /\ TypeInv /\ OnceInv /\ OnceInv' /\ RowInv /\ RowInv' /\ LostInv /\ OwnInv /\ OwnInv'
         /\ HeldOurs /\ OrderInv /\ CalmInv /\ [Next]_vars
         => CalmInv'
<1> SUFFICES ASSUME TypeInv, OnceInv, OnceInv', RowInv, RowInv', LostInv, OwnInv, OwnInv',
                    HeldOurs, OrderInv, CalmInv, [Next]_vars
             PROVE  CalmInv'
  OBVIOUS
<1> USE DEF CalmInv
<1>1. Settings' /\ OneMode' /\ ChainInv'
  BY SettingsStep, OneModeStep, ChainStep
<1>2. KeysInv' /\ BusyReached'
  BY KeysStep, BusyStep
<1>3. HeldOpen' /\ LotsPos' /\ EntryFills' /\ SizesPos'
  BY HeldOpenStep, EntryFillsStep, SizesStep
<1>4. ExitFills'
  BY ExitFillsStep
<1>5. SideFits'
  BY SideFitsStep
<1>6. BooksNow'
  BY BooksNowStep
<1> QED BY <1>1, <1>2, <1>3, <1>4, <1>5, <1>6

(* What the rows say a market holds, as the sum MapThenSumSet spells.       *)
LiveRows(c) == UNION {HeldRows(s, c, "live") : s \in Subs}
Worth       == [e \in Events |-> RowSide(e) * rows[e].size]
AddsWorth(g, S) ==
  g = [T \in SUBSET S |-> IF T = {} THEN 0
                          ELSE RowSide(Pick(T)) * rows[Pick(T)].size + g[T \ {Pick(T)}]]

(* The sum over a market's live rows is the total of SetLemmas.            *)
LEMMA BookedIs ==
  ASSUME NEW c
  PROVE  Booked(c) = Total(Worth, LiveRows(c))
<1> DEFINE S == LiveRows(c)
           g == CHOOSE h : AddsWorth(h, S)
           k == CHOOSE h : Adds(h, Worth, S)
<1>1. S \in SUBSET Events /\ IsFiniteSet(S)
  <2>1. S \in SUBSET Events
    BY DEF LiveRows, HeldRows, OpenRows
  <2> QED BY <2>1, ConstantsOK, FS_Subset
<1>2. Booked(c) = g[S]
  BY DEF Booked, MapThenSumSet, MapThenFoldSet, LiveRows, AddsWorth, Pick
<1> HIDE DEF S
<1>3. ASSUME NEW h PROVE AddsWorth(h, S) <=> Adds(h, Worth, S)
  <2>1. \A T \in SUBSET S : T # {} => RowSide(Pick(T)) * rows[Pick(T)].size = Worth[Pick(T)]
    BY <1>1, PickIn DEF Worth
  <2>2. [T \in SUBSET S |-> IF T = {} THEN 0
                            ELSE RowSide(Pick(T)) * rows[Pick(T)].size + h[T \ {Pick(T)}]]
        = [T \in SUBSET S |-> IF T = {} THEN 0 ELSE Worth[Pick(T)] + h[T \ {Pick(T)}]]
    BY <2>1
  <2> QED BY <2>2 DEF AddsWorth, Adds
<1>4. \E h : Adds(h, Worth, S)
  BY <1>1, AddsExists
<1>5. Adds(g, Worth, S) /\ Adds(k, Worth, S)
  BY <1>3, <1>4
<1> HIDE DEF g, k
<1>6. g[S] = k[S]
  BY <1>1, <1>5, AddsAgree
<1> QED BY <1>2, <1>6 DEF Total, k, S

(* With no order out, the account holds what the rows add up to. *)
LEMMA QuietBooks ==
  ASSUME TypeInv, Calm, RowInv, BooksNow, Quiet, NEW c \in Coins
  PROVE  pos[c] = Booked(c)
<1>1. \A t \in Task : ~Unsettled(t)
  BY DEF Quiet, Settled, Unsettled
<1>2. RowsHold(c, pos[c])
  BY <1>1 DEF BooksNow
<1>3. \A h \in Events : LiveOn(c, h) <=> h \in LiveRows(c)
  <2>1. \A h \in Events : rows[h].status = "open" => event[h] # None /\ event[h].sub \in Subs
    BY DEF TypeInv, TypeOK, RowsKnown, EventRec
  <2> QED BY <2>1 DEF LiveOn, LiveRows, HeldRows, OpenRows
<1>4. LiveRows(c) \subseteq Events /\ \A d, e \in LiveRows(c) : d = e
  <2>1. LiveRows(c) \subseteq Events
    BY DEF LiveRows, HeldRows, OpenRows
  <2>2. ASSUME NEW d \in LiveRows(c), NEW e \in LiveRows(c) PROVE d = e
    <3>1. PICK s \in Subs : d \in HeldRows(s, c, "live") /\ e \in HeldRows(s, c, "live")
      BY DEF LiveRows, Calm
    <3> QED BY <3>1 DEF RowInv, OneOpenRow, Mode
  <2> QED BY <2>1, <2>2
<1>5. IsFiniteSet(LiveRows(c))
  BY <1>4, ConstantsOK, FS_Subset
<1>6. CASE LiveRows(c) = {}
  <2>1. pos[c] = 0
    BY <1>2, <1>3, <1>6 DEF RowsHold
  <2>2. Total(Worth, LiveRows(c)) = 0
    BY <1>5, <1>6, TotalRule
  <2> QED BY <2>1, <2>2, BookedIs
<1>7. CASE LiveRows(c) # {}
  <2>1. PICK h \in Events : LiveRows(c) = {h}
    BY <1>4, <1>7
  <2>2. pos[c] = Worth[h]
    BY <1>2, <1>3, <2>1 DEF RowsHold, Worth
  <2>3. Pick({h}) = h
    BY DEF Pick
  <2>4. Total(Worth, {h}) = Worth[h] + Total(Worth, {h} \ {h})
    BY <1>5, <2>1, <2>3, TotalRule
  <2>5. Total(Worth, {h} \ {h}) = 0
    <3>1. {h} \ {h} = {} /\ IsFiniteSet({})
      BY FS_EmptySet
    <3> QED BY <3>1, TotalRule
  <2>6. pos[c] \in Int
    BY DEF TypeInv, TypeOK
  <2>7. Total(Worth, {h}) = pos[c]
    BY <2>2, <2>4, <2>5, <2>6
  <2> QED BY <2>1, <2>7, BookedIs
<1> QED BY <1>6, <1>7

(* With no order out, the copies of a market are on the side of the leader. *)
LEMMA QuietSides ==
  ASSUME TypeInv, Calm, KeysInv, SideFits, Quiet, NEW s \in Subs, NEW c \in Coins, NEW m \in Mode,
         lead[s][c] = 0
  PROVE  HeldRows(s, c, m) = {}
<1> SUFFICES ASSUME NEW h \in HeldRows(s, c, m) PROVE FALSE
  OBVIOUS
<1>1. h \in Events /\ rows[h].status = "open" /\ event[h].coin = c
  BY DEF HeldRows, OpenRows
<1>2. \A e \in Events : ~Unmet(e)
  BY ConstantsOK DEF KeysInv, FirstWaits, Quiet, Settled, Task
<1>3. \A t \in Task : ~Busy(t)
  BY DEF Quiet, Settled, Busy, Claimed, Acting
<1>4. Holds(c, 0)
  <2>1. Reached(c, 0)
    BY <1>2 DEF Reached, Oldest, Calm
  <2> QED BY <1>3, <2>1 DEF Holds
<1> QED BY <1>1, <1>4 DEF SideFits, Fits

(* With one subscription, nobody else on the account, every order answered  *)
(* and filled (an open perhaps in part), the account holds exactly what the *)
(* rows say whenever no task is under way (engine.py:15-16).                *)
THEOREM BooksMatch == ASSUME Calm PROVE Spec => []BooksMatchVenue
<1>1. TypeInv /\ RowInv /\ CalmInv => BooksMatchVenue
  BY QuietBooks DEF CalmInv, BooksMatchVenue
<1>2. /\ TypeInv /\ OnceInv /\ OnceInv' /\ RowInv /\ RowInv' /\ LostInv /\ OwnInv /\ OwnInv'
      /\ HeldOurs /\ OrderInv /\ CalmInv /\ [Next]_vars
      => CalmInv'
  BY CalmStep
<1> QED BY <1>1, <1>2, InitType, NextType, OnceInit, OnceStep, RowInit, RowStep, BookInit, BookStep,
           HeldInit, HeldStep, OrderInit, OrderStep, OwnInit, LostStep, OwnStep, CalmInit,
           PTL DEF Spec

(* So does the leader's flat leave nothing of ours open (engine.py:6-7, 11).*)
THEOREM NoOrphans == ASSUME Calm PROVE Spec => []NoOrphanCopy
<1>1. TypeInv /\ CalmInv => NoOrphanCopy
  BY QuietSides DEF CalmInv, NoOrphanCopy
<1>2. /\ TypeInv /\ OnceInv /\ OnceInv' /\ RowInv /\ RowInv' /\ LostInv /\ OwnInv /\ OwnInv'
      /\ HeldOurs /\ OrderInv /\ CalmInv /\ [Next]_vars
      => CalmInv'
  BY CalmStep
<1> QED BY <1>1, <1>2, InitType, NextType, OnceInit, OnceStep, RowInit, RowStep, BookInit, BookStep,
           HeldInit, HeldStep, OrderInit, OrderStep, OwnInit, LostStep, OwnStep, CalmInit,
           PTL DEF Spec

=============================================================================
