-------------------- MODULE CopyState --------------------
(***************************************************************************)
(* The state auto-copy works on, for ONE follower: its subscriptions, the  *)
(* decision log and the copied positions in MySQL, the venue account, the  *)
(* engine's memory, and the asyncio task of every leader event.            *)
(*                                                                         *)
(* (follower, leader) is unique in auto_copy_subs, so a leader event       *)
(* concerns one subscription of the follower; the loop over the other      *)
(* followers' subscriptions only delays the task, which any schedule of    *)
(* the model allows.                                                       *)
(***************************************************************************)
EXTENDS CopyRules, FiniteSets, FiniteSetsExt

CONSTANTS
  Subs,               \* subscriptions of the follower, one per leader
  Coins,              \* markets
  Events,             \* ids of leader events: rows of the tracker's event table
  Copies,             \* deliveries of an event to the engine: 1 is the first
  None,
  MirrorOn,           \* settings switched on: subset of {"adds","reduces","flips"}
  MaxPositions,       \* max_positions of a subscription
  Allocation,         \* allocation_usd, in margin per lot
  OpenLots,           \* size of a fresh open
  FailsBeforePause,   \* rules.FAILS_BEFORE_PAUSE
  MaxLead,            \* bound: a leader's position stays in -MaxLead..MaxLead
  MaxOps,             \* bound: router calls, crashes and moves of the account by others
  Allowed             \* what this instance lets happen (see May)

ASSUME ConstantsOK ==
  /\ 1 \in Copies
  /\ IsFiniteSet(Events) /\ None \notin Events \cup (Events \X Copies)
  /\ OpenLots \in Nat \ {0}
  /\ MaxPositions \in Nat /\ Allocation \in Nat
  /\ FailsBeforePause \in Nat \ {0}
  /\ MaxLead \in Nat /\ MaxOps \in Nat

May(what) == what \in Allowed

Task     == Events \X Copies
Key      == Events \X {1, 2}          \* uq_acl_once: (event, action key)
Leg      == Events \X {"sl", "tp"}    \* protective orders of a copied position
Mode     == {"live", "shadow"}
Status   == {"active", "paused", "stopped"}
Decision == {"none", "pending", "copied", "shadow", "skipped", "failed"}

VARIABLES
  lead,       \* leader's own position, per subscription and coin
  event,      \* the event table: None, or who moved which position how, and when
  sub,        \* auto_copy_subs
  userOn,     \* auto_copy_user_settings.enabled
  log,        \* auto_copy_log.decision
  rows,       \* auto_copy_positions, keyed by open_event_id
  pos,        \* the account's positions on the venue, signed
  legs,       \* SL and TP orders armed on the venue: their size, 0 when none
  lock,       \* _locks: the task inside each subscription
  notCopied,  \* _not_copied_seen
  task,       \* the event tasks
  rec,        \* the reconcile sweep in progress
  patch,      \* a mode change whose open-count check has passed
  ops,        \* bound counter
  sent,       \* history: market orders sent for each key
  burnt       \* history: real losses have reached the subscription's loss limit

db     == <<sub, log, rows>>
venue  == <<pos, legs, sent>>
memory == <<lock, notCopied>>
vars   == <<lead, event, userOn, db, venue, memory, task, rec, patch, ops, burnt>>

EventRec == [sub : Subs, coin : Coins, old : Int, new : Int, n : Nat]
SubRec   == [mode : Mode, status : Status, fails : Nat, loss : BOOLEAN]
RowRec   == [status : {"none", "open", "closed", "detached"}, mode : Mode,
             size : Int, margin : Int, oids : SUBSET {"sl", "tp"}]
TaskRec  == [pc : {"idle", "start", "wait", "next", "claim", "exit", "closing",
                   "unarm", "settle", "finish", "check", "entry", "place",
                   "opening", "arm", "record", "booked", "done", "lost"},
             act : Nat, mode : Mode, status : Status,
             held : Events \cup {None}, size : Int,
             res : {"none", "filled", "failed", "key", "unconfirmed"},
             fs : Int, oids : SUBSET {"sl", "tp"}]

ASSUME NoneIsNoEvent == None \notin EventRec

(* A task with no working values yet. *)
Fresh(pc, act, mode, status) ==
  [pc |-> pc, act |-> act, mode |-> mode, status |-> status,
   held |-> None, size |-> 0, res |-> "none", fs |-> 0, oids |-> {}]
NoTask == Fresh("idle", 1, "live", "active")
NoRow  == [status |-> "none", mode |-> "live", size |-> 0, margin |-> 0, oids |-> {}]
NoSweep == [pc |-> "idle", size |-> [e \in Events |-> 0], chain |-> [c \in Coins |-> 0]]

TypeOK ==
  /\ lead \in [Subs -> [Coins -> Int]]
  /\ event \in [Events -> EventRec \cup {None}]
  /\ sub \in [Subs -> SubRec]
  /\ userOn \in BOOLEAN
  /\ log \in [Key -> Decision]
  /\ rows \in [Events -> RowRec]
  /\ pos \in [Coins -> Int]
  /\ legs \in [Leg -> Int]
  /\ lock \in [Subs -> Task \cup {None}]
  /\ notCopied \subseteq Key
  /\ task \in [Task -> TaskRec]
  /\ rec \in [pc : {"idle", "chain", "apply"}, size : [Events -> Int], chain : [Coins -> Int]]
  /\ patch \in [Subs -> [mode : Mode, revive : BOOLEAN] \cup {None}]
  /\ ops \in Nat
  /\ sent \in [Key -> Nat]
  /\ burnt \in [Subs -> BOOLEAN]

Init ==
  /\ lead = [s \in Subs |-> [c \in Coins |-> 0]]
  /\ event = [e \in Events |-> None]
  /\ sub \in [Subs -> {[mode |-> m, status |-> "active", fails |-> 0, loss |-> FALSE] :
                          m \in IF May("shadow") THEN Mode ELSE {"live"}}]
  /\ userOn = TRUE
  /\ log = [k \in Key |-> "none"]
  /\ rows = [e \in Events |-> NoRow]
  /\ pos = [c \in Coins |-> 0]
  /\ legs = [l \in Leg |-> 0]
  /\ lock = [s \in Subs |-> None]
  /\ notCopied = {}
  /\ task = [t \in Task |-> NoTask]
  /\ rec = NoSweep
  /\ patch = [s \in Subs |-> None]
  /\ ops = 0
  /\ sent = [k \in Key |-> 0]
  /\ burnt = [s \in Subs |-> FALSE]

-----------------------------------------------------------------------------
(* What a task works on. *)
Ev(t)      == event[t[1]]
ActsOf(t)  == Normalize(Ev(t).old, Ev(t).new)
CurAct(t)  == ActsOf(t)[task[t].act]
KindOf(t)  == CurAct(t).kind
KeyOf(t)   == <<t[1], task[t].act>>
IsExit(t)  == KindOf(t) \in {"close", "reduce"}
At(t, p)   == task[t].pc = p
Goto(t, p) == [task EXCEPT ![t].pc = p]

RowSide(e) == SideOf(event[e].new)
OpenRows(s, m) ==
  {e \in Events : /\ rows[e].status = "open" /\ rows[e].mode = m
                  /\ event[e] # None /\ event[e].sub = s}
HeldRows(s, c, m) == {e \in OpenRows(s, m) : event[e].coin = c}

(* The next action of the event, the working values of this one forgotten. *)
NextAct(t) ==
  [task EXCEPT ![t] = Fresh("next", task[t].act + 1, task[t].mode, task[t].status)]

(* Mutant: a failed decision is forgotten, so that the event can be retried. *)
FinishForgets(t, decision) ==
  /\ log' = [log EXCEPT ![KeyOf(t)] = IF decision = "failed" THEN "none" ELSE decision]
  /\ sub' = [sub EXCEPT ![Ev(t).sub].fails =
               IF decision = "failed" THEN @ + 1
               ELSE IF decision = "copied" THEN 0 ELSE @]

(* _finish: the decision, and the count of failures in a row. *)
Finish(t, decision) ==
  /\ log' = [log EXCEPT ![KeyOf(t)] = decision]
  /\ sub' = [sub EXCEPT ![Ev(t).sub].fails =
               IF decision = "failed" THEN @ + 1
               ELSE IF decision = "copied" THEN 0 ELSE @]

Skip(t) == Finish(t, "skipped") /\ task' = NextAct(t)

(* What the venue holds for a side of a market. *)
OnVenue(c, side) == IF pos[c] * side > 0 THEN Magnitude(pos[c]) ELSE 0

MarginInUse(s, m) == MapThenSumSet(LAMBDA e : rows[e].margin, OpenRows(s, m))

=============================================================================
