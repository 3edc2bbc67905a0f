------------------------------ MODULE PaperRisk ------------------------------
(***************************************************************************)
(* Paper trades of the strategy engine and the risk rules over them:       *)
(* evaluator.py, model_runner.py, execution/manager.py, risk/engine.py and *)
(* the risk part of seed.py.  One engine process works in cycles, each one *)
(* database transaction per evaluator; a user re-arms what was paused.     *)
(* A cycle that fails as a whole is rolled back: no step.  Amounts are     *)
(* left open: a close is a loss or not, reaches the daily cap or not,      *)
(* brings the rolling profit factor below the minimum or not; a strategy   *)
(* switched off is one that does not fire.                                 *)
(***************************************************************************)
EXTENDS Integers, FiniteSets

CONSTANTS
  Strategies,      \* REGISTRY
  Models,          \* MODEL_REGISTRY
  Markets,         \* pairs of an asset and a direction
  Slots,           \* rows of strat_trades that are not closed: bound
  MaxConcurrent, LossLimit,
  PauseTicks       \* CONSEC_LOSS_PAUSE_MS

ASSUME RiskConstants ==
  /\ Strategies \cap Models = {}
  /\ {MaxConcurrent, LossLimit, PauseTicks} \subseteq Nat \ {0} /\ IsFiniteSet(Slots)

VARIABLES
  trade,    \* strat_trades: the rows that are not closed
  rules,    \* strat_risk_state
  killed,   \* strat_strategy_state.kill_switch_tripped
  cycle,    \* the scheduler's tick: manage and route of the evaluator, then the models
  owed      \* history: the pause and the cap the rules last imposed, whether a
            \* trade was closed since, and the kills no user has lifted

riskVars == <<trade, rules, killed, cycle, owed>>

Traders == Strategies \cup Models
NoTrade == [st |-> "none"]
TradeRecs == [st : {"pending", "open"}, of : Traders, mkt : Markets]
Taken(t) == trade[t] # NoTrade

(* The types of the trades and the risk state. *)
RiskTypeOK ==
  /\ trade \in [Slots -> TradeRecs \cup {NoTrade}]
  /\ rules \in [losses : 0 .. LossLimit, cap : BOOLEAN, pause : 0 .. PauseTicks]
  /\ killed \subseteq Traders
  /\ cycle \in {"idle", "manage", "route", "models", "settle"}
  /\ owed \in [cap : BOOLEAN, capExit : BOOLEAN, pause : 0 .. PauseTicks, pauseExit : BOOLEAN,
               kill : SUBSET Traders]

RiskInit ==
  /\ trade = [t \in Slots |-> NoTrade]
  /\ rules = [losses |-> 0, cap |-> FALSE, pause |-> 0]
  /\ killed = {} /\ cycle = "idle"
  /\ owed = [cap |-> FALSE, capExit |-> FALSE, pause |-> 0, pauseExit |-> FALSE, kill |-> {}]

-----------------------------------------------------------------------------
(* manage() *)
Managed(t) ==
  /\ Taken(t)
  /\ cycle = IF trade[t].of \in Models THEN "settle" ELSE "manage"

(* A resting entry the tape went through fills; one that outlived its
   validity, or a model's that its setup invalidates, is cancelled. *)
ResolvePending(t) ==
  /\ Managed(t) /\ trade[t].st = "pending"
  /\ \E row \in {NoTrade, [trade[t] EXCEPT !.st = "open"]} : trade' = [trade EXCEPT ![t] = row]
  /\ UNCHANGED <<rules, killed, cycle, owed>>

-----------------------------------------------------------------------------
Losses(loss) == IF ~loss THEN 0 ELSE IF rules.losses < LossLimit THEN rules.losses + 1 ELSE LossLimit

(* Mutant: the pause the rules impose is not written, as before D-100. *)
RegisteredNot(loss, hit) == [losses |-> Losses(loss), cap |-> hit, pause |-> rules.pause]

(* register_exit() on a state built without the pause and the cap in force:
   a close that imposes neither lifts both. *)
Registered(loss, hit) ==
  [losses |-> Losses(loss), cap |-> hit,
   pause |-> IF Losses(loss) = LossLimit THEN PauseTicks ELSE 0]

(* A stop, a target, a time stop or the mind closes a trade: _close and
   _apply_risk. *)
ResolveOpen(t) ==
  \E loss \in BOOLEAN, hit \in BOOLEAN, low \in BOOLEAN :
    LET tired == Losses(loss) = LossLimit
        dead  == IF low THEN {trade[t].of} ELSE {} IN
    /\ Managed(t) /\ trade[t].st = "open"
    /\ hit => loss \/ rules.cap
    /\ trade' = [trade EXCEPT ![t] = NoTrade]
    /\ rules' = Registered(loss, hit)
    /\ killed' = killed \cup dead
    /\ owed' = [cap |-> hit \/ owed.cap, capExit |-> ~hit /\ owed.cap,
                pause |-> IF tired THEN PauseTicks ELSE owed.pause,
                pauseExit |-> ~tired /\ owed.pause > 0,
                kill |-> owed.kill \cup dead]
    /\ UNCHANGED cycle

-----------------------------------------------------------------------------
(* Mutant: an entry that still rests is no position. *)
OpenPositionsFilled == {t \in Slots : Taken(t) /\ trade[t].st = "open"}

(* Every row without an exit, resting entries and models' trades included. *)
OpenPositions == {t \in Slots : Taken(t)}

(* Mutant: the cap is not looked at. *)
CanOpenUncapped(s, m) ==
  /\ s \notin killed /\ rules.pause = 0
  /\ Cardinality(OpenPositions) < MaxConcurrent
  /\ \A t \in OpenPositions : trade[t].mkt # m

CanOpen(s, m) ==
  /\ s \notin killed /\ ~rules.cap /\ rules.pause = 0
  /\ Cardinality(OpenPositions) < MaxConcurrent
  /\ \A t \in OpenPositions : trade[t].mkt # m

PlaceEntry(t, of, m) ==
  /\ ~Taken(t) /\ t = CHOOSE u \in Slots : ~Taken(u)
  /\ trade' = [trade EXCEPT ![t] = [st |-> "pending", of |-> of, mkt |-> m]]
  /\ UNCHANGED <<rules, killed, cycle, owed>>

(* A strategy fires; the entry rests unless its geometry or the post-only
   rule refuses it. *)
Route(s, m) ==
  /\ cycle = "route" /\ CanOpen(s, m)
  /\ \E t \in Slots : PlaceEntry(t, s, m)

(* A model asks for its own trade on the asset only: no risk rule. *)
RouteModel(s, m) ==
  /\ cycle = "models"
  /\ \A t \in Slots : Taken(t) => trade[t].of # s \/ trade[t].mkt[1] # m[1]
  /\ \E t \in Slots : PlaceEntry(t, s, m)

-----------------------------------------------------------------------------
NextPhase ==
  /\ cycle' = CASE cycle = "idle" -> "manage" [] cycle = "manage" -> "route"
                [] cycle = "route" -> "models" [] cycle = "models" -> "settle" [] cycle = "settle" -> "idle"
  /\ UNCHANGED <<trade, rules, killed, owed>>

(* RiskEngine.rearm() *)
Rearm(s) ==
  /\ cycle = "idle" /\ s \in killed
  /\ killed' = killed \ {s}
  /\ owed' = [owed EXCEPT !.kill = @ \ {s}]
  /\ UNCHANGED <<trade, rules, cycle>>

(* Mutant: the seeder clears the kill switches, as before D-100. *)
SeededClean == {}

Seeded == killed

(* The worker restarts and seeds its tables: an open cycle is rolled back. *)
WorkerRestart ==
  /\ cycle = "idle"
  /\ killed' = Seeded
  /\ UNCHANGED <<trade, rules, cycle, owed>>

(* An hour passes and may end the day, and the cap with it. *)
HourPasses == \E midnight \in BOOLEAN :
  /\ cycle = "idle"
  /\ rules' = [rules EXCEPT !.cap = @ /\ ~midnight, !.pause = IF @ = 0 THEN 0 ELSE @ - 1]
  /\ owed' = [owed EXCEPT !.cap = @ /\ ~midnight, !.pause = IF @ = 0 THEN 0 ELSE @ - 1]
  /\ UNCHANGED <<trade, killed, cycle>>

RiskNext ==
  \/ \E t \in Slots : ResolvePending(t) \/ ResolveOpen(t)
  \/ \E s \in Strategies, m \in Markets : Route(s, m)
  \/ \E s \in Models, m \in Markets : RouteModel(s, m)
  \/ \E s \in Traders : Rearm(s)
  \/ NextPhase \/ WorkerRestart \/ HourPasses
RiskSpec == RiskInit /\ [][RiskNext]_riskVars

-----------------------------------------------------------------------------
Entered(s) == \E t \in Slots : ~Taken(t) /\ trade'[t] # NoTrade /\ trade'[t].of = s

(* A strategy whose profit factor tripped the kill switch enters nothing  *)
(* until a user re-arms it, whatever restarts (engine.py:148-151).         *)
KilledStaysOut == [][\A s \in Strategies : Entered(s) => s \notin owed.kill]_riskVars

(* Within the pause after consecutive losses no strategy enters, and none  *)
(* between the daily loss cap and midnight; a later close may end either   *)
(* early (manager.py:324-339).                                             *)
RestsKept ==
  [][\A s \in Strategies : Entered(s) =>
       (owed.pause = 0 \/ owed.pauseExit) /\ (~owed.cap \/ owed.capExit)]_riskVars

(* What bars a strategy from entering holds: the kill switch and the rests. *)
EntriesBarred == KilledStaysOut /\ RestsKept

Own == {t \in Slots : Taken(t) /\ trade[t].of \in Strategies}

(* The strategies together hold at most MaxConcurrent trades, no two of    *)
(* the same asset and direction, and a model one per asset                 *)
(* (engine.py:75-80, model_runner.py:584).                                 *)
ConcurrencyKept ==
  /\ Cardinality(Own) <= MaxConcurrent
  /\ \A t, u \in Own : t # u => trade[t].mkt # trade[u].mkt
  /\ \A t, u \in Slots : t # u /\ Taken(t) /\ Taken(u) /\ trade[t].of = trade[u].of
                             /\ trade[t].of \in Models => trade[t].mkt[1] # trade[u].mkt[1]
=============================================================================
