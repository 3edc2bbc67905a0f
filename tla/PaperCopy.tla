------------------------------ MODULE PaperCopy ------------------------------
(***************************************************************************)
(* Paper copies of a Perpl leader on one market: trader_tracker.py reads   *)
(* the leader's position every 30 seconds and works the difference to its  *)
(* last look into an event (copy/leader_events.py), which the paper engine *)
(* (copy/paper_engine.py, copy/positions.py) works through subscription by *)
(* subscription, all in one task: the snapshot moves on when it is done.   *)
(* The follower pauses and resumes meanwhile (routers/copy.py).  Of a row's *)
(* size the model keeps whether it is zero (a reduce halves and so ends    *)
(* no other row), the risk limits of an opening are open, and any change   *)
(* of the leader's size is one past the tolerance of 0.01%.                *)
(***************************************************************************)
EXTENDS Naturals

CONSTANTS
  PaperSubs,       \* copy_subscriptions of the leader, mode 'paper'
  Marks, NoMark,   \* prices; NoMark when the market's feed brought none yet
  MaxLots,         \* bound: sizes of the leader's position
  MaxMoves,        \* bound: moves of the leader
  MaxSlips         \* bound: failed writes and restarts

ASSUME PaperConstants == {MaxLots, MaxMoves, MaxSlips} \subseteq Nat /\ NoMark \notin Marks

VARIABLES
  atChain, leadMoves,   \* the leader's position on the chain
  lastLook,      \* TraderTracker._snapshots
  tick,          \* the change the tick works through, and how far it is
  leaderEvents,  \* leader_trade_events
  copyOrders,    \* copy_orders: pairs of an event and a subscription
  paperRow,      \* copy_paper_positions: the open row of a subscription
  activeSubs,    \* subscriptions with status 'active'
  sidesSince,    \* history: the sides the leader has been on since the last look
  astray,        \* history: the open rows a change did not reach, each for a named cause
  paperSlips

leadVars == <<atChain, leadMoves>>
paperVars == <<leadVars, lastLook, tick, leaderEvents, copyOrders, paperRow, activeSubs,
               sidesSince, astray, paperSlips>>

LeaderSides == {"long", "short"}
NoHolding == [side |-> "flat", size |-> 0, entry |-> NoMark]
Holding == [side : LeaderSides, size : 1 .. MaxLots, entry : Marks]
Unseen == [side |-> "unseen", size |-> 0, entry |-> NoMark]

Closing == {"reduced", "closed"}
ChangeTypes == {"opened", "increased"} \cup Closing
PaperEvents == [type : ChangeTypes, side : LeaderSides,
                size : 1 .. MaxLots, price : Marks \cup {NoMark}]
Seen == Holding \cup {NoHolding}
NoPaper == [side |-> "none", empty |-> FALSE]
NoChange == [at |-> "idle"]
Ticks == {NoChange}
  \cup [at : {"record"}, now : Seen, type : ChangeTypes]
  \cup [at : {"find"}, now : Seen, event : PaperEvents]
  \cup [at : {"each"}, now : Seen, event : PaperEvents, todo : SUBSET PaperSubs]
  \cup [at : {"apply"}, now : Seen, event : PaperEvents, todo : SUBSET PaperSubs, sub : PaperSubs]

(* The types of the tracker, the rows and the history. *)
PaperTypeOK ==
  /\ atChain \in Seen
  /\ lastLook \in Seen \cup {Unseen}
  /\ tick \in Ticks
  /\ leaderEvents \subseteq PaperEvents
  /\ copyOrders \subseteq leaderEvents \X PaperSubs
  /\ paperRow \in [PaperSubs -> [side : LeaderSides, empty : BOOLEAN] \cup {NoPaper}]
  /\ activeSubs \subseteq PaperSubs
  /\ sidesSince \subseteq LeaderSides \cup {"flat"}
  /\ astray \subseteq PaperSubs
  /\ leadMoves \in 0 .. MaxMoves /\ paperSlips \in 0 .. MaxSlips

PaperInit ==
  /\ atChain \in Seen /\ lastLook = Unseen /\ tick = NoChange
  /\ leaderEvents = {} /\ copyOrders = {} /\ paperRow = [s \in PaperSubs |-> NoPaper]
  /\ activeSubs = PaperSubs /\ sidesSince = {atChain.side} /\ astray = {}
  /\ leadMoves = 0 /\ paperSlips = 0

(* The open rows that are not on this side. *)
OffSide(subs, side) == {s \in subs : paperRow[s].side \notin {"none", side}}

-----------------------------------------------------------------------------
(* The leader trades: anything from any position to any other. *)
LeaderMoves ==
  /\ leadMoves < MaxMoves /\ leadMoves' = leadMoves + 1
  /\ \E next \in Seen \ {atChain} :
       /\ atChain' = next /\ sidesSince' = sidesSince \cup {next.side}
       /\ (next.side = atChain.side /\ next.size < atChain.size) => next.entry = atChain.entry
       /\ astray' = IF lastLook = Unseen THEN astray \cup OffSide(PaperSubs, next.side) ELSE astray
  /\ UNCHANGED <<lastLook, tick, leaderEvents, copyOrders, paperRow, activeSubs, paperSlips>>

(* A market whose read failed is missing from the positions read, and keeps  *)
(* its previous state.                                                      *)
PositionsRead(failed) == IF failed THEN NoHolding ELSE atChain
(* Mutant: it vanishes from the snapshot. *)
KeptReadNot(failed) == PositionsRead(failed)
KeptRead(failed) == IF failed THEN lastLook ELSE PositionsRead(failed)

ChangeTo(now) ==
  IF lastLook = NoHolding THEN IF now = NoHolding THEN "none" ELSE "opened"
  ELSE IF now = NoHolding THEN "closed"
  ELSE CASE now.size > lastLook.size -> "increased"
         [] now.size < lastLook.size -> "reduced"
         [] now.size = lastLook.size -> "none"

(* The first look at the leader only takes the baseline, and only from a    *)
(* clean read.                                                              *)
(* Mutant: from any read. *)
AnyRead(failed) == TRUE
CleanRead(failed) == ~failed

FirstLook(failed) ==
  /\ tick = NoChange /\ lastLook = Unseen /\ CleanRead(failed)
  /\ lastLook' = PositionsRead(failed) /\ sidesSince' = {atChain.side}
  /\ UNCHANGED <<leadVars, tick, leaderEvents, copyOrders, paperRow, activeSubs, astray, paperSlips>>

(* A later look.  A position turned over between two looks is not told from *)
(* one that changed its size.                                               *)
NextLook(failed) ==
  /\ tick = NoChange /\ lastLook # Unseen
  /\ LET now == KeptRead(failed)
         type == ChangeTo(now)
     IN  /\ IF type = "none" THEN lastLook' = now /\ tick' = tick
            ELSE tick' = [at |-> "record", now |-> now, type |-> type] /\ UNCHANGED lastLook
         /\ astray' = IF {now.side, lastLook.side} = LeaderSides
                      THEN astray \cup OffSide(PaperSubs, now.side) ELSE astray
  /\ sidesSince' = IF failed THEN sidesSince ELSE {atChain.side}
  /\ UNCHANGED <<leadVars, leaderEvents, copyOrders, paperRow, activeSubs, paperSlips>>

(* record_event: the key is the event without its time, so an event like an *)
(* earlier one is taken for it.  The price of an opening is the entry on    *)
(* the chain, of anything else the mark of the moment.                      *)
(* Mutant: without the price. *)
KeyWithoutPrice(e) == <<e.type, e.side, e.size>>
LeaderEventKey(e) == <<e.type, e.side, e.size, e.price>>

RecordEvent(mark) ==
  /\ tick.at = "record"
  /\ LET now == tick.now
         of == IF tick.type = "closed" THEN lastLook ELSE now
         new == [type |-> tick.type, side |-> of.side, size |-> of.size,
                 price |-> IF tick.type = "opened" THEN now.entry ELSE mark]
         known == {e \in leaderEvents : LeaderEventKey(e) = LeaderEventKey(new)}
     IN  /\ \E e \in IF known = {} THEN {new} ELSE known :
              tick' = [at |-> "find", now |-> now, event |-> e] /\ leaderEvents' = leaderEvents \cup {e}
         /\ astray' = IF new \in leaderEvents THEN astray \cup OffSide(PaperSubs, now.side) ELSE astray
  /\ UNCHANGED <<leadVars, lastLook, copyOrders, paperRow, activeSubs, sidesSince, paperSlips>>

(* process_leader_event: the active subscriptions, read once.               *)
FindSubs ==
  /\ tick.at = "find"
  /\ tick' = [at |-> "each", now |-> tick.now, event |-> tick.event, todo |-> activeSubs]
  /\ astray' = astray \cup OffSide(PaperSubs \ activeSubs, tick.now.side)
  /\ UNCHANGED <<leadVars, lastLook, leaderEvents, copyOrders, paperRow, activeSubs, sidesSince,
                 paperSlips>>

(* An exception in either is logged, and the event worked through no more.  *)
EventFails ==
  /\ tick.at \in {"record", "find"} /\ paperSlips < MaxSlips /\ paperSlips' = paperSlips + 1
  /\ lastLook' = tick.now /\ tick' = NoChange
  /\ astray' = astray \cup OffSide(PaperSubs, tick.now.side)
  /\ UNCHANGED <<leadVars, leaderEvents, copyOrders, paperRow, activeSubs, sidesSince>>

WithoutSub(s) == [at |-> "each", now |-> tick.now, event |-> tick.event, todo |-> tick.todo \ {s}]

(* process_event_for_subscription: one order row for an event and a         *)
(* subscription, a second time does nothing.  The limits may refuse an      *)
(* opening, never what reduces risk.                                        *)
AlreadyDone(s) == <<tick.event, s>> \in copyOrders
(* Mutant: the limits may refuse a close. *)
MayRefuseAny(type) == TRUE
MayRefuse(type) == type \notin Closing

DoneBefore(s) ==
  /\ tick.at = "each" /\ s \in tick.todo /\ AlreadyDone(s)
  /\ tick' = WithoutSub(s)
  /\ UNCHANGED <<leadVars, lastLook, leaderEvents, copyOrders, paperRow, activeSubs, sidesSince,
                 astray, paperSlips>>

RefuseOrder(s) ==
  /\ tick.at = "each" /\ s \in tick.todo /\ ~AlreadyDone(s) /\ MayRefuse(tick.event.type)
  /\ copyOrders' = copyOrders \cup {<<tick.event, s>>}
  /\ tick' = WithoutSub(s)
  /\ UNCHANGED <<leadVars, lastLook, leaderEvents, paperRow, activeSubs, sidesSince, astray,
                 paperSlips>>

OrderRow(s) ==
  /\ tick.at = "each" /\ s \in tick.todo /\ ~AlreadyDone(s)
  /\ copyOrders' = copyOrders \cup {<<tick.event, s>>}
  /\ tick' = [at |-> "apply", now |-> tick.now, event |-> tick.event,
               todo |-> tick.todo \ {s}, sub |-> s]
  /\ UNCHANGED <<leadVars, lastLook, leaderEvents, paperRow, activeSubs, sidesSince, astray,
                 paperSlips>>

(* The row of a simulated order, written after it: an opening or an         *)
(* increase opens one where none is open, of size zero when no price is     *)
(* known; a close ends it, and so does a reduce of a row of size zero.      *)
RowAfter(row) ==
  LET unpriced == tick.event.price = NoMark
  IN  IF tick.event.type = "closed" \/ (tick.event.type = "reduced" /\ row.empty) THEN NoPaper
      ELSE CASE tick.event.type = "reduced" -> row
             [] tick.event.type # "reduced" /\ row = NoPaper ->
                  [side |-> tick.event.side, empty |-> unpriced]
             [] tick.event.type = "opened" /\ row # NoPaper -> row
             [] tick.event.type = "increased" /\ row # NoPaper -> [row EXCEPT !.empty = @ /\ unpriced]

MovePaper(s) ==
  /\ tick.at = "apply" /\ s = tick.sub
  /\ paperRow' = [paperRow EXCEPT ![s] = RowAfter(@)]
  /\ astray' = IF paperRow'[s].side \in {"none", tick.now.side} THEN astray \ {s} ELSE astray
  /\ tick' = [at |-> "each", now |-> tick.now, event |-> tick.event, todo |-> tick.todo]
  /\ UNCHANGED <<leadVars, lastLook, leaderEvents, copyOrders, activeSubs, sidesSince, paperSlips>>

(* An exception for one subscription leaves the others to be worked through: *)
(* before its order row is written, or between that and the row.             *)
SubFails(s) ==
  /\ \/ tick.at = "each" /\ s \in tick.todo
     \/ tick.at = "apply" /\ s = tick.sub
  /\ paperSlips < MaxSlips /\ paperSlips' = paperSlips + 1
  /\ tick' = WithoutSub(s)
  /\ astray' = astray \cup OffSide({s}, tick.now.side)
  /\ UNCHANGED <<leadVars, lastLook, leaderEvents, copyOrders, paperRow, activeSubs, sidesSince>>

EndTick ==
  /\ tick.at = "each" /\ tick.todo = {}
  /\ lastLook' = tick.now /\ tick' = NoChange
  /\ UNCHANGED <<leadVars, leaderEvents, copyOrders, paperRow, activeSubs, sidesSince, astray,
                 paperSlips>>

-----------------------------------------------------------------------------
(* A restart of the backend forgets the snapshots and the tick's work.      *)
RestartTracker ==
  /\ paperSlips < MaxSlips /\ paperSlips' = paperSlips + 1
  /\ lastLook' = Unseen /\ tick' = NoChange
  /\ astray' = astray \cup OffSide(PaperSubs, atChain.side)
  /\ UNCHANGED <<leadVars, leaderEvents, copyOrders, paperRow, activeSubs, sidesSince>>

(* Pause, stop and resume, at any time. *)
SetRunning(s) ==
  /\ activeSubs' = IF s \in activeSubs THEN activeSubs \ {s} ELSE activeSubs \cup {s}
  /\ UNCHANGED <<leadVars, lastLook, tick, leaderEvents, copyOrders, paperRow, sidesSince, astray,
                 paperSlips>>

SubStep(s) ==
  DoneBefore(s) \/ RefuseOrder(s) \/ OrderRow(s) \/ MovePaper(s) \/ SubFails(s) \/ SetRunning(s)

PaperNext ==
  \/ LeaderMoves
  \/ \E failed \in BOOLEAN : FirstLook(failed) \/ NextLook(failed)
  \/ \E mark \in Marks \cup {NoMark} : RecordEvent(mark)
  \/ FindSubs \/ EventFails \/ EndTick \/ RestartTracker
  \/ \E s \in PaperSubs : SubStep(s)

PaperSpec == PaperInit /\ [][PaperNext]_paperVars

-----------------------------------------------------------------------------
(* The tracker sees only what happened (trader_tracker.py 94-125, 219-240): *)
(* it announces a close only when the leader was flat since its last look,  *)
(* an opening only when the leader was flat before it, and any change on a  *)
(* side the leader was on.  A failed read, a restart or a new leader        *)
(* announces nothing.                                                       *)
ChangesAreReal ==
  [][(tick = NoChange /\ tick' # NoChange) =>
       IF tick'.type = "closed" THEN "flat" \in sidesSince
       ELSE /\ tick'.now.side \in sidesSince
            /\ tick'.type = "opened" => "flat" \in sidesSince]_paperVars

(* A paper row stands where the leader stands (paper_engine.py 55-160): once *)
(* a tick is over no open row is on another side than the leader was seen,   *)
(* and none is open when the leader was seen flat, but the rows a change did *)
(* not reach because the leader turned over between two looks, the follower  *)
(* had paused, a write failed, the process was down, or the event was taken  *)
(* for an earlier one of the same figures.                                   *)
PaperFollows ==
  (tick = NoChange /\ lastLook # Unseen) =>
    \A s \in PaperSubs \ astray : paperRow[s].side \in {"none", lastLook.side}
=============================================================================
