--------------------------- MODULE ServicesProofs ---------------------------
(***************************************************************************)
(* Theorems about the other services around the copy engine, for any values*)
(* of their constants: the paper strategies and what they tell their user; *)
(* the paper copies of a trader and the manual live copies; and, of all of *)
(* them next to each other, their types.                                   *)
(***************************************************************************)
EXTENDS MCServices, ReadSideProofs, RoundTripsProofs

(*****************************************************************************)
(* The paper strategies: the risk rules, one trade of a model, the messages. *)
(*****************************************************************************)

(* What the rules hold is what the last closes imposed, unless a later close *)
(* has ended it early; a kill no user lifted is in force.                    *)
RulesInForce ==
  /\ owed.kill \subseteq killed
  /\ owed.capExit \/ rules.cap = owed.cap
  /\ owed.pauseExit \/ rules.pause = owed.pause

RiskInv == RiskTypeOK /\ RulesInForce /\ ConcurrencyKept

Limits == /\ MaxConcurrent \in Nat \ {0} /\ LossLimit \in Nat \ {0} /\ PauseTicks \in Nat \ {0}
          /\ Strategies \cap Models = {} /\ IsFiniteSet(Slots)

(* What the constants are assumed to be, fact by fact. *)
LEMMA LimitsHold == Limits
BY RiskConstants DEF Limits

(* The count of losses stays within its limit (engine.py:96-108). *)
LEMMA LossesBounded ==
  ASSUME RiskTypeOK, NEW loss \in BOOLEAN
  PROVE  Losses(loss) \in 0 .. LossLimit
BY LimitsHold DEF RiskTypeOK, Losses, Limits

(* A row is a record, never the empty slot. *)
LEMMA RowsAreNoSlots ==
  ASSUME NEW rcd \in TradeRecs
  PROVE  rcd # NoTrade /\ rcd.st \in {"pending", "open"} /\ rcd.of \in Traders /\ rcd.mkt \in Markets
<1>1. rcd.st \in {"pending", "open"} /\ rcd.of \in Traders /\ rcd.mkt \in Markets
  BY DEF TradeRecs
<1>2. NoTrade.st = "none"
  BY DEF NoTrade
<1> QED BY <1>1, <1>2

(* The first state satisfies the invariant. *)
LEMMA RiskInitOK ==
  ASSUME RiskInit
  PROVE  RiskInv
<1> USE LimitsHold DEF Limits
<1>1. RiskTypeOK
  BY DEF RiskInit, RiskTypeOK
<1>2. RulesInForce
  BY DEF RiskInit, RulesInForce
<1>3. \A t \in Slots : ~Taken(t)
  BY DEF RiskInit, Taken
<1>4. Own = {} /\ Cardinality({}) = 0
  BY <1>3, FS_EmptySet DEF Own
<1>5. ConcurrencyKept
  BY <1>3, <1>4 DEF ConcurrencyKept
<1> QED BY <1>1, <1>2, <1>5 DEF RiskInv

(* Where every taken row was taken before, by the same trader on the same  *)
(* market, the limits still hold: a fill, a cancel, a close.                *)
LEMMA FewerKeptWithin ==
  ASSUME ConcurrencyKept,
         \A t \in Slots : Taken(t)' => /\ Taken(t)
                                       /\ trade'[t].of = trade[t].of /\ trade'[t].mkt = trade[t].mkt
  PROVE  ConcurrencyKept'
<1>1. Own' \subseteq Own
  BY DEF Own
<1>2. IsFiniteSet(Own)
  BY LimitsHold, FS_Subset DEF Own, Limits
<1>3. Cardinality(Own') <= Cardinality(Own) /\ Cardinality(Own) \in Nat /\ Cardinality(Own') \in Nat
  BY <1>1, <1>2, FS_Subset, FS_CardinalityType
<1>4. Cardinality(Own') <= MaxConcurrent
  BY <1>3, LimitsHold DEF ConcurrencyKept, Limits
<1>5. \A t, u \in Own' : t # u => trade'[t].mkt # trade'[u].mkt
  BY <1>1 DEF ConcurrencyKept, Own
<1>6. \A t, u \in Slots : t # u /\ Taken(t)' /\ Taken(u)' /\ trade'[t].of = trade'[u].of
                            /\ trade'[t].of \in Models => trade'[t].mkt[1] # trade'[u].mkt[1]
  BY DEF ConcurrencyKept
<1> QED BY <1>4, <1>5, <1>6 DEF ConcurrencyKept

(* The rows, when the step leaves them alone. *)
LEMMA SameRowsWithin ==
  ASSUME ConcurrencyKept, UNCHANGED trade
  PROVE  ConcurrencyKept'
BY FewerKeptWithin DEF Taken

(* A resting entry that fills or is cancelled. *)
LEMMA ResolvePendingOK ==
  ASSUME RiskInv, NEW t \in Slots, ResolvePending(t)
  PROVE  RiskInv'
<1>1. trade[t] \in TradeRecs /\ trade \in [Slots -> TradeRecs \cup {NoTrade}]
  BY DEF RiskInv, RiskTypeOK, ResolvePending, Managed, Taken
<1>2. PICK rcd \in {NoTrade, [trade[t] EXCEPT !.st = "open"]} : trade' = [trade EXCEPT ![t] = rcd]
  BY DEF ResolvePending
<1>3. rcd \in TradeRecs \cup {NoTrade}
  BY <1>1, <1>2 DEF TradeRecs
<1>4. RiskTypeOK'
  <2>1. trade' \in [Slots -> TradeRecs \cup {NoTrade}]
    BY <1>1, <1>2, <1>3
  <2> QED BY <2>1 DEF RiskInv, RiskTypeOK, ResolvePending
<1>5. RulesInForce'
  BY DEF RiskInv, RulesInForce, ResolvePending
<1>6. rcd # NoTrade => rcd.of = trade[t].of /\ rcd.mkt = trade[t].mkt
  BY <1>1, <1>2 DEF TradeRecs
<1>7. \A u \in Slots : Taken(u)' => /\ Taken(u)
                                    /\ trade'[u].of = trade[u].of /\ trade'[u].mkt = trade[u].mkt
  BY <1>1, <1>2, <1>6 DEF Taken, ResolvePending, Managed
<1> QED BY <1>4, <1>5, <1>7, FewerKeptWithin DEF RiskInv

(* A close, with the rules registered on it. *)
LEMMA ResolveOpenOK ==
  ASSUME RiskInv, NEW t \in Slots, ResolveOpen(t)
  PROVE  RiskInv'
<1> USE LimitsHold DEF Limits
<1>1. PICK loss \in BOOLEAN, hit \in BOOLEAN, low \in BOOLEAN :
        LET tired == Losses(loss) = LossLimit
            dead  == IF low THEN {trade[t].of} ELSE {} IN
        /\ Managed(t) /\ trade[t].st = "open"
        /\ trade' = [trade EXCEPT ![t] = NoTrade]
        /\ rules' = Registered(loss, hit)
        /\ killed' = killed \cup dead
        /\ owed' = [cap |-> hit \/ owed.cap, capExit |-> ~hit /\ owed.cap,
                    pause |-> IF tired THEN PauseTicks ELSE owed.pause,
                    pauseExit |-> ~tired /\ owed.pause > 0,
                    kill |-> owed.kill \cup dead]
        /\ UNCHANGED cycle
  BY DEF ResolveOpen
<1> DEFINE dead == IF low THEN {trade[t].of} ELSE {}
           tired == Losses(loss) = LossLimit
<1>2. trade \in [Slots -> TradeRecs \cup {NoTrade}] /\ trade[t] \in TradeRecs
  BY <1>1 DEF RiskInv, RiskTypeOK, Managed, Taken
<1>3. dead \subseteq Traders
  BY <1>2 DEF TradeRecs
<1>4. owed.kill \subseteq Traders /\ owed.pause \in 0 .. PauseTicks /\ owed.cap \in BOOLEAN
      /\ owed.pauseExit \in BOOLEAN /\ owed.capExit \in BOOLEAN /\ killed \subseteq Traders
  BY DEF RiskInv, RiskTypeOK
<1>5. Losses(loss) \in 0 .. LossLimit
  BY LossesBounded DEF RiskInv
<1>6. /\ owed'.cap = (hit \/ owed.cap) /\ owed'.capExit = (~hit /\ owed.cap)
      /\ owed'.pause = (IF tired THEN PauseTicks ELSE owed.pause)
      /\ owed'.pauseExit = (~tired /\ owed.pause > 0)
      /\ owed'.kill = owed.kill \cup dead
  BY <1>1
<1>7. rules'.cap = hit /\ rules'.pause = IF tired THEN PauseTicks ELSE 0
  BY <1>1 DEF Registered
<1> HIDE DEF dead, tired
<1>8. RiskTypeOK'
  <2>1. trade' \in [Slots -> TradeRecs \cup {NoTrade}]
    BY <1>1, <1>2
  <2>2. rules' \in [losses : 0 .. LossLimit, cap : BOOLEAN, pause : 0 .. PauseTicks]
    BY <1>1, <1>5 DEF Registered
  <2>3. killed' \subseteq Traders
    BY <1>1, <1>3, <1>4 DEF dead
  <2>4. owed' \in [cap : BOOLEAN, capExit : BOOLEAN, pause : 0 .. PauseTicks, pauseExit : BOOLEAN,
                   kill : SUBSET Traders]
    BY <1>1, <1>3, <1>4 DEF dead, tired
  <2>5. cycle' \in {"idle", "manage", "route", "models", "settle"}
    BY <1>1 DEF RiskInv, RiskTypeOK
  <2> QED BY <2>1, <2>2, <2>3, <2>4, <2>5 DEF RiskTypeOK
<1>9. RulesInForce'
  <2>1. owed'.kill \subseteq killed'
    BY <1>1, <1>6 DEF RiskInv, RulesInForce, dead
  <2>2. owed'.capExit \/ rules'.cap = owed'.cap
    <3>1. CASE hit
      BY <1>6, <1>7, <3>1
    <3>2. CASE ~hit /\ owed.cap
      BY <1>6, <3>2
    <3>3. CASE ~hit /\ ~owed.cap
      <4>1. rules'.cap = FALSE /\ owed'.cap = FALSE
        BY <1>6, <1>7, <3>3
      <4> QED BY <4>1
    <3> QED BY <3>1, <3>2, <3>3
  <2>3. owed'.pauseExit \/ rules'.pause = owed'.pause
    <3>1. CASE tired
      <4>1. owed'.pause = PauseTicks /\ rules'.pause = PauseTicks
        BY <1>6, <1>7, <3>1
      <4> QED BY <4>1
    <3>2. CASE ~tired /\ owed.pause > 0
      BY <1>6, <3>2
    <3>3. CASE ~tired /\ ~(owed.pause > 0)
      <4>1. owed.pause = 0
        BY <1>4, <3>3
      <4>2. owed'.pause = 0 /\ rules'.pause = 0
        BY <1>6, <1>7, <3>3, <4>1
      <4> QED BY <4>2
    <3> QED BY <3>1, <3>2, <3>3
  <2> QED BY <2>1, <2>2, <2>3 DEF RulesInForce
<1>10. \A u \in Slots : Taken(u)' => /\ Taken(u)
                                     /\ trade'[u].of = trade[u].of /\ trade'[u].mkt = trade[u].mkt
  BY <1>1, <1>2 DEF Taken
<1> QED BY <1>8, <1>9, <1>10, FewerKeptWithin DEF RiskInv

(* What placing an entry does to the rows. *)
LEMMA Placed ==
  ASSUME RiskInv, NEW t \in Slots, NEW s \in Traders, NEW m \in Markets, PlaceEntry(t, s, m)
  PROVE  /\ RiskTypeOK' /\ RulesInForce'
         /\ ~Taken(t) /\ Taken(t)' /\ trade'[t].of = s /\ trade'[t].mkt = m
         /\ \A u \in Slots : u # t => trade'[u] = trade[u] /\ (Taken(u)' <=> Taken(u))
<1> DEFINE rcd == [st |-> "pending", of |-> s, mkt |-> m]
<1>1. rcd \in TradeRecs /\ rcd.of = s /\ rcd.mkt = m
  BY DEF TradeRecs
<1>2. rcd # NoTrade
  BY <1>1, RowsAreNoSlots
<1>3. trade \in [Slots -> TradeRecs \cup {NoTrade}]
  BY DEF RiskInv, RiskTypeOK
<1>4. ~Taken(t) /\ trade' = [trade EXCEPT ![t] = rcd] /\ UNCHANGED <<rules, killed, cycle, owed>>
  BY DEF PlaceEntry
<1> HIDE DEF rcd
<1>5. trade' \in [Slots -> TradeRecs \cup {NoTrade}] /\ trade'[t] = rcd
  BY <1>1, <1>3, <1>4
<1>6. RiskTypeOK' /\ RulesInForce'
  BY <1>4, <1>5 DEF RiskInv, RiskTypeOK, RulesInForce
<1>7. \A u \in Slots : u # t => trade'[u] = trade[u] /\ (Taken(u)' <=> Taken(u))
  BY <1>3, <1>4 DEF Taken
<1>8. Taken(t)'
  BY <1>2, <1>5 DEF Taken
<1> QED BY <1>1, <1>4, <1>5, <1>6, <1>7, <1>8

(* A strategy's entry: can_open has counted every row, so there is room for *)
(* one more, on a market that no row is on (engine.py:64-84).               *)
LEMMA RouteOK ==
  ASSUME RiskInv, NEW s \in Strategies, NEW m \in Markets, Route(s, m)
  PROVE  RiskInv'
<1>1. PICK t \in Slots : PlaceEntry(t, s, m)
  BY DEF Route
<1>2. s \in Traders /\ s \notin Models
  BY LimitsHold DEF Traders, Limits
<1>3. CanOpen(s, m)
  BY DEF Route
<1>4. /\ RiskTypeOK' /\ RulesInForce'
      /\ ~Taken(t) /\ Taken(t)' /\ trade'[t].of = s /\ trade'[t].mkt = m
      /\ \A u \in Slots : u # t => trade'[u] = trade[u] /\ (Taken(u)' <=> Taken(u))
  BY <1>1, <1>2, Placed
<1>5. Own' = Own \cup {t}
  BY <1>4 DEF Own
<1>6. IsFiniteSet(Own) /\ IsFiniteSet(OpenPositions) /\ Own \subseteq OpenPositions
  BY LimitsHold, FS_Subset DEF Own, OpenPositions, Limits
<1>7. Cardinality(Own) <= Cardinality(OpenPositions)
      /\ Cardinality(Own) \in Nat /\ Cardinality(OpenPositions) \in Nat
  BY <1>6, FS_Subset, FS_CardinalityType
<1>8. Cardinality(Own \cup {t}) <= Cardinality(Own) + 1 /\ Cardinality(Own \cup {t}) \in Nat
  <2> DEFINE own == Own
  <2> HIDE DEF own
  <2>1. IsFiniteSet(own) /\ Cardinality(own) \in Nat
    BY <1>6, <1>7 DEF own
  <2>2. /\ IsFiniteSet(own \cup {t})
        /\ Cardinality(own \cup {t}) = IF t \in own THEN Cardinality(own) ELSE Cardinality(own) + 1
    BY <2>1, FS_AddElement
  <2>3. Cardinality(own \cup {t}) <= Cardinality(own) + 1 /\ Cardinality(own \cup {t}) \in Nat
    BY <2>1, <2>2
  <2> QED BY <2>3 DEF own
<1>9. Cardinality(Own') <= MaxConcurrent
  BY <1>3, <1>5, <1>7, <1>8, LimitsHold DEF CanOpen, Limits
<1>10. \A u, v \in Own' : u # v => trade'[u].mkt # trade'[v].mkt
  <2>1. \A u \in Own : u # t /\ u \in OpenPositions
    BY <1>4, <1>6 DEF Own
  <2>2. \A u \in Own : trade'[u] = trade[u] /\ trade[u].mkt # m
    BY <2>1, <1>3, <1>4 DEF CanOpen, OpenPositions
  <2> QED BY <2>1, <2>2, <1>4, <1>5 DEF RiskInv, ConcurrencyKept
<1>11. \A u, v \in Slots : u # v /\ Taken(u)' /\ Taken(v)' /\ trade'[u].of = trade'[v].of
                            /\ trade'[u].of \in Models => trade'[u].mkt[1] # trade'[v].mkt[1]
  BY <1>2, <1>4 DEF RiskInv, ConcurrencyKept
<1> QED BY <1>4, <1>9, <1>10, <1>11 DEF RiskInv, ConcurrencyKept

(* A model's entry: its own row on the asset is all it looks at. *)
LEMMA RouteModelOK ==
  ASSUME RiskInv, NEW s \in Models, NEW m \in Markets, RouteModel(s, m)
  PROVE  RiskInv'
<1>1. PICK t \in Slots : PlaceEntry(t, s, m)
  BY DEF RouteModel
<1>2. s \in Traders /\ s \notin Strategies
  BY LimitsHold DEF Traders, Limits
<1>3. /\ RiskTypeOK' /\ RulesInForce'
      /\ ~Taken(t) /\ Taken(t)' /\ trade'[t].of = s /\ trade'[t].mkt = m
      /\ \A u \in Slots : u # t => trade'[u] = trade[u] /\ (Taken(u)' <=> Taken(u))
  BY <1>1, <1>2, Placed
<1>4. Own' = Own
  BY <1>2, <1>3 DEF Own
<1>5. \A u \in Own : trade'[u] = trade[u]
  BY <1>3 DEF Own
<1>6. Cardinality(Own') <= MaxConcurrent /\ \A u, v \in Own' : u # v => trade'[u].mkt # trade'[v].mkt
  BY <1>4, <1>5 DEF RiskInv, ConcurrencyKept
<1>7. \A u, v \in Slots : u # v /\ Taken(u)' /\ Taken(v)' /\ trade'[u].of = trade'[v].of
                            /\ trade'[u].of \in Models => trade'[u].mkt[1] # trade'[v].mkt[1]
  <2>1. \A u \in Slots : Taken(u) => trade[u].of # s \/ trade[u].mkt[1] # m[1]
    BY DEF RouteModel
  <2> QED BY <2>1, <1>3 DEF RiskInv, ConcurrencyKept
<1> QED BY <1>3, <1>6, <1>7 DEF RiskInv, ConcurrencyKept

(* The phases of a cycle, a user, a restart and the clock leave the rows. *)
LEMMA OthersOK ==
  ASSUME RiskInv, NextPhase \/ WorkerRestart \/ HourPasses \/ \E s \in Traders : Rearm(s)
  PROVE  RiskInv'
<1> USE LimitsHold DEF Limits
<1>1. ConcurrencyKept'
  <2>1. UNCHANGED trade
    BY DEF NextPhase, WorkerRestart, HourPasses, Rearm
  <2> QED BY <2>1, SameRowsWithin DEF RiskInv
<1>2. CASE NextPhase
  <2>1. cycle' \in {"idle", "manage", "route", "models", "settle"}
    BY <1>2 DEF NextPhase, RiskInv, RiskTypeOK
  <2> QED BY <1>1, <1>2, <2>1 DEF NextPhase, RiskInv, RiskTypeOK, RulesInForce
<1>3. CASE WorkerRestart
  BY <1>1, <1>3 DEF WorkerRestart, Seeded, RiskInv, RiskTypeOK, RulesInForce
<1>4. CASE HourPasses
  <2>1. PICK midnight \in BOOLEAN :
          /\ rules' = [rules EXCEPT !.cap = @ /\ ~midnight, !.pause = IF @ = 0 THEN 0 ELSE @ - 1]
          /\ owed' = [owed EXCEPT !.cap = @ /\ ~midnight, !.pause = IF @ = 0 THEN 0 ELSE @ - 1]
          /\ UNCHANGED <<trade, killed, cycle>>
    BY <1>4 DEF HourPasses
  <2>2. /\ rules \in [losses : 0 .. LossLimit, cap : BOOLEAN, pause : 0 .. PauseTicks]
        /\ owed \in [cap : BOOLEAN, capExit : BOOLEAN, pause : 0 .. PauseTicks, pauseExit : BOOLEAN,
                     kill : SUBSET Traders]
    BY DEF RiskInv, RiskTypeOK
  <2>3. /\ rules' \in [losses : 0 .. LossLimit, cap : BOOLEAN, pause : 0 .. PauseTicks]
        /\ rules'.cap = (rules.cap /\ ~midnight)
        /\ rules'.pause = IF rules.pause = 0 THEN 0 ELSE rules.pause - 1
    <3>1. rules.pause \in 0 .. PauseTicks /\ (rules.cap /\ ~midnight) \in BOOLEAN
      BY <2>2
    <3>2. (IF rules.pause = 0 THEN 0 ELSE rules.pause - 1) \in 0 .. PauseTicks
      BY <3>1
    <3> QED BY <2>1, <2>2, <3>1, <3>2
  <2>4. /\ owed' \in [cap : BOOLEAN, capExit : BOOLEAN, pause : 0 .. PauseTicks, pauseExit : BOOLEAN,
                      kill : SUBSET Traders]
        /\ owed'.cap = (owed.cap /\ ~midnight) /\ owed'.capExit = owed.capExit
        /\ owed'.pause = (IF owed.pause = 0 THEN 0 ELSE owed.pause - 1)
        /\ owed'.pauseExit = owed.pauseExit /\ owed'.kill = owed.kill
    <3>1. owed.pause \in 0 .. PauseTicks /\ (owed.cap /\ ~midnight) \in BOOLEAN
      BY <2>2
    <3>2. (IF owed.pause = 0 THEN 0 ELSE owed.pause - 1) \in 0 .. PauseTicks
      BY <3>1
    <3> QED BY <2>1, <2>2, <3>1, <3>2
  <2>5. RulesInForce'
    BY <2>1, <2>3, <2>4 DEF RiskInv, RulesInForce
  <2>6. RiskTypeOK'
    BY <2>1, <2>3, <2>4 DEF RiskInv, RiskTypeOK
  <2> QED BY <1>1, <2>5, <2>6 DEF RiskInv
<1>5. ASSUME NEW s \in Traders, Rearm(s) PROVE RiskInv'
  <2>1. /\ owed \in [cap : BOOLEAN, capExit : BOOLEAN, pause : 0 .. PauseTicks, pauseExit : BOOLEAN,
                     kill : SUBSET Traders]
        /\ owed' = [owed EXCEPT !.kill = @ \ {s}] /\ killed' = killed \ {s}
        /\ UNCHANGED <<trade, rules, cycle>>
    BY <1>5 DEF Rearm, RiskInv, RiskTypeOK
  <2>2. /\ owed' \in [cap : BOOLEAN, capExit : BOOLEAN, pause : 0 .. PauseTicks, pauseExit : BOOLEAN,
                      kill : SUBSET Traders]
        /\ owed'.cap = owed.cap /\ owed'.capExit = owed.capExit /\ owed'.pause = owed.pause
        /\ owed'.pauseExit = owed.pauseExit /\ owed'.kill = owed.kill \ {s}
    BY <2>1
  <2> QED BY <1>1, <2>1, <2>2 DEF RiskInv, RiskTypeOK, RulesInForce
<1> QED BY <1>2, <1>3, <1>4, <1>5

(* Every step keeps the invariant. *)
LEMMA RiskStep ==
  ASSUME RiskInv, [RiskNext]_riskVars
  PROVE  RiskInv'
<1>1. CASE UNCHANGED riskVars
  <2>1. UNCHANGED trade
    BY <1>1 DEF riskVars
  <2> QED BY <1>1, <2>1, SameRowsWithin DEF riskVars, RiskInv, RiskTypeOK, RulesInForce
<1>2. CASE RiskNext
  BY <1>2, ResolvePendingOK, ResolveOpenOK, RouteOK, RouteModelOK, OthersOK DEF RiskNext
<1> QED BY <1>1, <1>2

(* The invariant holds throughout. *)
LEMMA RiskInvariant == RiskSpec => []RiskInv
BY RiskInitOK, RiskStep, PTL DEF RiskSpec

(* The trades, the rules, the kill switches and the cycle keep their types, *)
(* for any strategies, models, markets and limits.                          *)
THEOREM RiskTypesHold == RiskSpec => []RiskTypeOK
<1>1. RiskInv => RiskTypeOK
  BY DEF RiskInv
<1> QED BY <1>1, RiskInvariant, PTL

(* can_open counts resting entries as positions, so the strategies together *)
(* never hold more than MaxConcurrent trades nor two on one market          *)
(* (engine.py:75-80).                                                       *)
THEOREM ConcurrencyHolds == RiskSpec => []ConcurrencyKept
<1>1. RiskInv => ConcurrencyKept
  BY DEF RiskInv
<1> QED BY <1>1, RiskInvariant, PTL

(* Only the route of a strategy that can open enters a trade of it. *)
LEMMA EnteredByRoute ==
  ASSUME RiskInv, RiskNext, NEW s \in Strategies, Entered(s)
  PROVE  \E m \in Markets : CanOpen(s, m)
<1>1. PICK u \in Slots : ~Taken(u) /\ trade'[u] # NoTrade /\ trade'[u].of = s
  BY DEF Entered
<1>2. trade \in [Slots -> TradeRecs \cup {NoTrade}]
  BY DEF RiskInv, RiskTypeOK
<1>3. s \in Traders /\ s \notin Models
  BY LimitsHold DEF Traders, Limits
<1>4. ASSUME NEW t \in Slots, ResolvePending(t) \/ ResolveOpen(t) PROVE FALSE
  <2>1. \E rcd : trade' = [trade EXCEPT ![t] = rcd]
    BY <1>4 DEF ResolvePending, ResolveOpen
  <2>2. Taken(t)
    BY <1>4 DEF ResolvePending, ResolveOpen, Managed
  <2> QED BY <1>1, <1>2, <2>1, <2>2 DEF Taken
<1>5. ASSUME NEW r \in Strategies, NEW m \in Markets, Route(r, m) PROVE \E n \in Markets : CanOpen(s, n)
  <2>1. PICK t \in Slots : PlaceEntry(t, r, m)
    BY <1>5 DEF Route
  <2>2. r \in Traders
    BY DEF Traders
  <2>3. trade'[t].of = r /\ \A v \in Slots : v # t => trade'[v] = trade[v]
    BY <2>1, <2>2, Placed
  <2>4. u = t
    BY <1>1, <2>3 DEF Taken
  <2> QED BY <1>1, <1>5, <2>3, <2>4 DEF Route
<1>6. ASSUME NEW r \in Models, NEW m \in Markets, RouteModel(r, m) PROVE FALSE
  <2>1. PICK t \in Slots : PlaceEntry(t, r, m)
    BY <1>6 DEF RouteModel
  <2>2. r \in Traders
    BY DEF Traders
  <2>3. trade'[t].of = r /\ \A v \in Slots : v # t => trade'[v] = trade[v]
    BY <2>1, <2>2, Placed
  <2>4. u = t
    BY <1>1, <2>3 DEF Taken
  <2> QED BY <1>1, <1>3, <2>3, <2>4
<1>7. ASSUME UNCHANGED trade PROVE FALSE
  BY <1>1, <1>7 DEF Taken
<1>8. NextPhase \/ WorkerRestart \/ HourPasses \/ (\E r \in Traders : Rearm(r)) => UNCHANGED trade
  BY DEF NextPhase, WorkerRestart, HourPasses, Rearm
<1> QED BY <1>4, <1>5, <1>6, <1>7, <1>8 DEF RiskNext

(* Nothing that stays as it is enters. *)
LEMMA NoneEntersByStutter ==
  ASSUME UNCHANGED riskVars, NEW s
  PROVE  ~Entered(s)
BY DEF riskVars, Entered, Taken

(* A strategy the profit factor switched off enters nothing until a user   *)
(* re-arms it, through any closes, cycles and restarts.                     *)
LEMMA KilledNeverEnters == RiskSpec => KilledStaysOut
<1>1. RiskInv /\ [RiskNext]_riskVars => [\A s \in Strategies : Entered(s) => s \notin owed.kill]_riskVars
  <2>1. ASSUME RiskInv, RiskNext, NEW s \in Strategies, Entered(s) PROVE s \notin owed.kill
    BY <2>1, EnteredByRoute DEF RiskInv, RulesInForce, CanOpen
  <2> QED BY <2>1, NoneEntersByStutter
<1> QED BY <1>1, RiskInvariant, PTL DEF RiskSpec, KilledStaysOut

(* No strategy enters within the pause after consecutive losses, nor       *)
(* between the daily loss cap and midnight, unless a later close ended     *)
(* either early.                                                            *)
LEMMA RestedNeverEnters == RiskSpec => RestsKept
<1>1. RiskInv /\ [RiskNext]_riskVars
        => [\A s \in Strategies : Entered(s) =>
              (owed.pause = 0 \/ owed.pauseExit) /\ (~owed.cap \/ owed.capExit)]_riskVars
  <2>1. ASSUME RiskInv, RiskNext, NEW s \in Strategies, Entered(s)
        PROVE  (owed.pause = 0 \/ owed.pauseExit) /\ (~owed.cap \/ owed.capExit)
    BY <2>1, EnteredByRoute DEF RiskInv, RulesInForce, CanOpen
  <2> QED BY <2>1, NoneEntersByStutter
<1> QED BY <1>1, RiskInvariant, PTL DEF RiskSpec, RestsKept

(* What bars a strategy from entering holds, for any strategies, models,   *)
(* markets and limits: the kill switch, the pause and the daily cap.       *)
THEOREM EntriesStayBarred == RiskSpec => EntriesBarred
BY KilledNeverEnters, RestedNeverEnters DEF EntriesBarred

(*****************************************************************************)
(* One paper trade of a model.                                               *)
(*****************************************************************************)

(* A cycle works on the trade in the state it was found in. *)
PhaseOK ==
  /\ phase = "pending" => pos.st = "pending"
  /\ phase = "open" => pos.st = "open"

(* Before the fill nothing was booked, closed, moved or reached. *)
Untouched == pos.st \in {"none", "pending"} => booked = 0 /\ pos.rem = Whole /\ ~pos.t1 /\ ~pos.trailed

(* Until the first target or a swing moves it, the stop is the setup's. *)
StopAsSet == ~pos.t1 /\ ~pos.trailed => pos.stop = setup.stop

(* What is on the tape came after the entry was priced. *)
NoneStale == \A i \in DOMAIN tape : ~tape[i].stale

TradeInv ==
  /\ TradeTypeOK /\ PhaseOK /\ Untouched /\ StopAsSet /\ NoneStale
  /\ PartsAddUp /\ BreakevenKept

(* The fields of a trade. *)
LEMMA PosFields ==
  ASSUME NEW p \in PosRec
  PROVE  /\ p.st \in {"none", "pending", "open", "closed", "cancelled"}
         /\ p.entry \in Nat /\ p.stop \in Nat /\ p.entry \in Prices /\ p.stop \in Prices
         /\ p.rem \in 0 .. Whole /\ p.rem \in Nat
         /\ p.t1 \in BOOLEAN /\ p.t2 \in BOOLEAN /\ p.armed \in BOOLEAN /\ p.trailed \in BOOLEAN
<1>1. /\ p.st \in {"none", "pending", "open", "closed", "cancelled"}
      /\ p.entry \in Prices /\ p.stop \in Prices /\ p.rem \in 0 .. Whole
      /\ p.t1 \in BOOLEAN /\ p.t2 \in BOOLEAN /\ p.armed \in BOOLEAN /\ p.trailed \in BOOLEAN
  BY DEF PosRec
<1>2. Prices \subseteq Nat /\ Whole \in Nat
  BY TapeConstants
<1>3. p.entry \in Nat /\ p.stop \in Nat
  BY <1>1, <1>2
<1>4. p.rem \in Nat
  BY <1>1, <1>2
<1> QED BY <1>1, <1>3, <1>4

(* A setup's levels are prices and its part is a part. *)
LEMMA SetupFields ==
  ASSUME NEW s \in Setups
  PROVE  s.entry \in Prices /\ s.stop \in Prices /\ s.part \in 1 .. Whole /\ s.part \in Nat
BY TapeConstants

(* The part taken at a target is between nothing and what is open. *)
LEMMA PartWithin ==
  ASSUME TradeInv
  PROVE  PartQty \in 0 .. pos.rem /\ PartQty \in Nat
<1>1. setup.part \in 1 .. Whole /\ pos.rem \in 0 .. Whole /\ Whole \in Nat
  BY SetupFields, PosFields, TapeConstants DEF TradeInv, TradeTypeOK
<1> QED BY <1>1 DEF PartQty

(* The empty tape. *)
LEMMA EmptyTape ==
  ASSUME tape' = <<>>
  PROVE  tape' \in Seq(MidRec) /\ Len(tape') <= MaxTape /\ NoneStale'
BY TapeConstants DEF NoneStale

(* The first state satisfies the invariant. *)
LEMMA TradeInitOK ==
  ASSUME TradeInit
  PROVE  TradeInv
<1>1. setup \in Setups
  BY TapeConstants DEF TradeInit
<1>2. setup.entry \in Prices /\ setup.stop \in Prices /\ Whole \in 0 .. Whole /\ Whole \in Nat
  BY <1>1, SetupFields, TapeConstants
<1>3. pos \in PosRec
  BY <1>2 DEF TradeInit, PosRec
<1>4. tape \in Seq(MidRec) /\ Len(tape) <= MaxTape /\ NoneStale
  BY TapeConstants DEF TradeInit, NoneStale
<1>5. TradeTypeOK
  BY <1>1, <1>2, <1>3, <1>4 DEF TradeInit, TradeTypeOK
<1>6. PhaseOK /\ Untouched /\ StopAsSet /\ PartsAddUp /\ BreakevenKept
  BY DEF TradeInit, PhaseOK, Untouched, StopAsSet, PartsAddUp, BreakevenKept
<1> QED BY <1>4, <1>5, <1>6 DEF TradeInv

(* A step that leaves the trade and its result alone keeps what is said of *)
(* them; what it does to the tape and the phase is for the step to show.    *)
LEMMA SamePosKeeps ==
  ASSUME TradeInv, UNCHANGED <<setup, pos, booked>>,
         tape' \in Seq(MidRec), Len(tape') <= MaxTape, NoneStale',
         phase' \in {"idle", phase, pos.st}, phase' \in {"idle", "pending", "open"}
  PROVE  TradeInv'
<1>1. TradeTypeOK'
  BY DEF TradeInv, TradeTypeOK
<1>2. PhaseOK'
  BY DEF TradeInv, PhaseOK
<1> QED BY <1>1, <1>2 DEF TradeInv, Untouched, StopAsSet, PartsAddUp, BreakevenKept

(* The model takes its setup. *)
LEMMA TakeSetupOK ==
  ASSUME TradeInv, TakeSetup
  PROVE  TradeInv'
<1>1. PICK s \in Setups, px \in Prices :
        setup' = s /\ pos' = [pos EXCEPT !.st = "pending", !.entry = px, !.stop = s.stop]
  BY DEF TakeSetup
<1>2. pos \in PosRec /\ pos.st = "none" /\ UNCHANGED <<phase, booked>> /\ tape' = <<>>
  BY DEF TradeInv, TradeTypeOK, TakeSetup
<1>3. s.stop \in Prices
  BY SetupFields
<1>4. /\ pos' \in PosRec
      /\ pos'.st = "pending" /\ pos'.stop = s.stop /\ pos'.rem = pos.rem
      /\ pos'.t1 = pos.t1 /\ pos'.trailed = pos.trailed
  BY <1>1, <1>2, <1>3 DEF PosRec
<1>5. booked = 0 /\ pos.rem = Whole /\ ~pos.t1 /\ ~pos.trailed
  BY <1>2 DEF TradeInv, Untouched
<1>6. phase = "idle" /\ booked \in Nat
  BY <1>2 DEF TradeInv, TradeTypeOK, PhaseOK
<1>7. TradeTypeOK'
  BY <1>1, <1>2, <1>4, <1>6, EmptyTape DEF TradeTypeOK
<1> QED BY <1>1, <1>2, <1>4, <1>5, <1>6, <1>7, EmptyTape
        DEF TradeInv, PhaseOK, Untouched, StopAsSet, PartsAddUp, BreakevenKept

(* A mid comes. *)
LEMMA MidComesOK ==
  ASSUME TradeInv, MidComes
  PROVE  TradeInv'
<1>1. PICK px \in Prices : tape' = Append(tape, [px |-> px, stale |-> FALSE])
  BY DEF MidComes
<1>2. [px |-> px, stale |-> FALSE] \in MidRec
  BY DEF MidRec
<1>3. tape \in Seq(MidRec) /\ Len(tape) < MaxTape /\ MaxTape \in Nat
  BY TapeConstants DEF TradeInv, TradeTypeOK, MidComes
<1>4. tape' \in Seq(MidRec) /\ Len(tape') <= MaxTape
  BY <1>1, <1>2, <1>3, AppendProperties
<1>5. NoneStale'
  BY <1>1, <1>2, <1>3, AppendProperties DEF TradeInv, NoneStale
<1> QED BY <1>4, <1>5, SamePosKeeps DEF MidComes, TradeInv, TradeTypeOK

(* A cycle begins, or ends with nothing done. *)
LEMMA CycleOK ==
  ASSUME TradeInv, StartCycle \/ CycleEnds
  PROVE  TradeInv'
<1>1. UNCHANGED <<setup, pos, booked, tape>>
  BY DEF StartCycle, CycleEnds
<1>2. phase' \in {"idle", phase, pos.st} /\ phase' \in {"idle", "pending", "open"}
  BY DEF StartCycle, CycleEnds
<1>3. tape' \in Seq(MidRec) /\ Len(tape') <= MaxTape /\ NoneStale'
  BY <1>1 DEF TradeInv, TradeTypeOK, NoneStale
<1> QED BY <1>1, <1>2, <1>3, SamePosKeeps

(* The mids after the one that filled are left of the tape. *)
LEMMA FillTape ==
  ASSUME TradeInv, NEW i \in DOMAIN tape, tape' = SubSeq(tape, i + 1, Len(tape))
  PROVE  tape' \in Seq(MidRec) /\ Len(tape') = Len(tape) - i /\ Len(tape') <= MaxTape /\ NoneStale'
<1>1. tape \in Seq(MidRec) /\ i \in 1 .. Len(tape) /\ Len(tape) \in Nat /\ Len(tape) <= MaxTape
      /\ MaxTape \in Nat
  BY TapeConstants DEF TradeInv, TradeTypeOK
<1>2. /\ tape' \in Seq(MidRec) /\ Len(tape') = Len(tape) - i
      /\ \A j \in 1 .. Len(tape) - i : tape'[j] = tape[i + j]
  BY <1>1
<1>3. \A j \in DOMAIN tape' : j \in 1 .. Len(tape) - i /\ i + j \in DOMAIN tape
  BY <1>1, <1>2
<1> QED BY <1>1, <1>2, <1>3 DEF TradeInv, NoneStale

(* The entry fills. *)
LEMMA FillOK ==
  ASSUME TradeInv, Fill
  PROVE  TradeInv'
<1>1. tape' \in Seq(MidRec) /\ Len(tape') <= MaxTape /\ NoneStale'
  BY FillTape DEF Fill
<1>2. pos \in PosRec /\ pos' = [pos EXCEPT !.st = "open"] /\ phase' = "open" /\ UNCHANGED <<setup, booked>>
  BY DEF TradeInv, TradeTypeOK, Fill
<1>3. pos' \in PosRec /\ pos'.st = "open" /\ pos'.rem = pos.rem /\ pos'.t1 = pos.t1
      /\ pos'.trailed = pos.trailed /\ pos'.stop = pos.stop /\ pos'.entry = pos.entry
  BY <1>2 DEF PosRec
<1>4. booked = 0 /\ pos.rem = Whole /\ ~pos.t1 /\ Whole \in Nat
  BY TapeConstants DEF TradeInv, Untouched, PhaseOK, Fill
<1>5. TradeTypeOK'
  BY <1>1, <1>2, <1>3 DEF TradeInv, TradeTypeOK
<1> QED BY <1>1, <1>2, <1>3, <1>4, <1>5
        DEF TradeInv, PhaseOK, Untouched, StopAsSet, PartsAddUp, BreakevenKept

(* An entry that does not fill rests on, is cancelled or gets a new price. *)
LEMMA PendingRestOK ==
  ASSUME TradeInv, PendingRest
  PROVE  TradeInv'
<1>1. pos \in PosRec /\ pos.st = "pending" /\ phase' = "idle" /\ UNCHANGED <<setup, booked>>
  BY DEF TradeInv, TradeTypeOK, PhaseOK, PendingRest
<1>2. tape' = <<>>
  <2>1. CASE Cancel \/ tape' = Walked
    BY <2>1 DEF Cancel, Walked
  <2>2. CASE Reprice
    <3>1. tape' = [i \in DOMAIN <<>> |-> [<<>>[i] EXCEPT !.stale = TRUE]]
      BY <2>2 DEF Reprice, Walked
    <3>2. DOMAIN <<>> = {}
      OBVIOUS
    <3> QED BY <3>1, <3>2
  <2> QED BY <2>1, <2>2 DEF PendingRest
<1>3. /\ pos' \in PosRec /\ pos'.st \in {"pending", "cancelled"} /\ pos'.rem = pos.rem
      /\ pos'.t1 = pos.t1 /\ pos'.trailed = pos.trailed /\ pos'.stop = pos.stop
  BY <1>1 DEF PendingRest, Cancel, Reprice, PosRec
<1>4. TradeTypeOK'
  BY <1>1, <1>2, <1>3, EmptyTape DEF TradeInv, TradeTypeOK
<1> QED BY <1>1, <1>2, <1>3, <1>4, EmptyTape
        DEF TradeInv, PhaseOK, Untouched, StopAsSet, PartsAddUp, BreakevenKept

(* Closing the rest books all that was open. *)
LEMMA CloseRestOK ==
  ASSUME TradeInv, pos.st = "open", CloseRest, UNCHANGED setup,
         tape' \in Seq(MidRec), Len(tape') <= MaxTape, NoneStale'
  PROVE  TradeInv'
<1>1. pos \in PosRec /\ pos' = [pos EXCEPT !.st = "closed", !.rem = 0] /\ booked' = booked + pos.rem
      /\ phase' = "idle" /\ booked \in Nat /\ Whole \in Nat
  BY TapeConstants DEF TradeInv, TradeTypeOK, CloseRest
<1>2. pos' \in PosRec /\ pos'.st = "closed" /\ pos'.rem = 0 /\ pos'.t1 = pos.t1
      /\ pos'.trailed = pos.trailed /\ pos'.stop = pos.stop /\ pos'.entry = pos.entry
  <2>1. 0 \in 0 .. Whole
    BY <1>1
  <2> QED BY <1>1, <2>1 DEF PosRec
<1>3. pos.rem \in Nat /\ booked + pos.rem = Whole
  BY <1>1, PosFields DEF TradeInv, PartsAddUp
<1>4. TradeTypeOK'
  BY <1>1, <1>2, <1>3 DEF TradeInv, TradeTypeOK
<1> QED BY <1>1, <1>2, <1>3, <1>4
        DEF TradeInv, PhaseOK, Untouched, StopAsSet, PartsAddUp, BreakevenKept

(* The stop, or the end of the time allowed. *)
LEMMA StopOrTimeOK ==
  ASSUME TradeInv, StopOrTime
  PROVE  TradeInv'
<1>1. pos.st = "open"
  BY DEF TradeInv, PhaseOK, StopOrTime
<1> QED BY <1>1, CloseRestOK, EmptyTape DEF StopOrTime

(* A part at a target books what it takes from the open part, and the stop *)
(* is at the entry or where it was.                                         *)
LEMMA PartCloseOK ==
  ASSUME TradeInv, pos.st = "open", UNCHANGED setup,
         tape' \in Seq(MidRec), Len(tape') <= MaxTape, NoneStale',
         PartClose(AtT1) \/ (pos.t1 /\ PartClose(AtT2))
  PROVE  TradeInv'
<1>1. pos \in PosRec /\ booked \in Nat /\ Whole \in Nat
  BY TapeConstants DEF TradeInv, TradeTypeOK
<1>2. PartQty \in 0 .. pos.rem /\ PartQty \in Nat /\ pos.rem \in Nat /\ pos.rem \in 0 .. Whole
  BY <1>1, PartWithin, PosFields
<1>3. pos.rem - PartQty \in 0 .. Whole
  BY <1>1, <1>2
<1> DEFINE left == pos.rem - PartQty
           st == IF left = 0 THEN "closed" ELSE "open"
<1> HIDE DEF left
<1>4. /\ pos' \in PosRec /\ pos'.st = st /\ pos'.rem = left /\ pos'.entry = pos.entry
      /\ booked' = booked + PartQty /\ phase' = IF left = 0 THEN "idle" ELSE "open"
      /\ pos'.t1 /\ pos'.stop >= pos'.entry
  <2>1. CASE PartClose(AtT1)
    <3>1. AtT1 = [pos EXCEPT !.rem = left, !.t1 = TRUE, !.stop = pos.entry,
                             !.armed = @ \/ setup.after = "t1"]
      BY <1>1 DEF AtT1, AfterPart, left, PosRec
    <3>2. /\ AtT1 \in PosRec /\ AtT1.rem = left /\ AtT1.t1 /\ AtT1.stop = pos.entry
          /\ AtT1.entry = pos.entry
      BY <1>1, <1>3, <3>1 DEF PosRec, left
    <3>3. pos' = [AtT1 EXCEPT !.st = st] /\ booked' = booked + PartQty
          /\ phase' = IF left = 0 THEN "idle" ELSE "open"
      BY <2>1, <3>2 DEF PartClose
    <3>4. pos.entry \in Nat
      BY <1>1, PosFields
    <3> QED BY <3>2, <3>3, <3>4 DEF PosRec
  <2>2. CASE pos.t1 /\ PartClose(AtT2)
    <3>1. AtT2 = [pos EXCEPT !.rem = left, !.t2 = TRUE,
                             !.armed = @ \/ setup.after \in {"t2", "near_t2"}]
      BY <1>1 DEF AtT2, AfterPart, left, PosRec
    <3>2. /\ AtT2 \in PosRec /\ AtT2.rem = left /\ AtT2.t1 = pos.t1 /\ AtT2.stop = pos.stop
          /\ AtT2.entry = pos.entry
      BY <1>1, <1>3, <3>1 DEF PosRec, left
    <3>3. pos' = [AtT2 EXCEPT !.st = st] /\ booked' = booked + PartQty
          /\ phase' = IF left = 0 THEN "idle" ELSE "open"
      BY <2>2, <3>2 DEF PartClose
    <3>4. pos.stop >= pos.entry
      BY <2>2 DEF TradeInv, BreakevenKept
    <3> QED BY <2>2, <3>2, <3>3, <3>4 DEF PosRec
  <2> QED BY <2>1, <2>2
<1>5. booked + pos.rem = Whole
  BY DEF TradeInv, PartsAddUp
<1>6. booked' \in Nat /\ booked' + left = Whole
  BY <1>1, <1>2, <1>4, <1>5 DEF left
<1>7. TradeTypeOK'
  BY <1>4, <1>6 DEF TradeInv, TradeTypeOK
<1> QED BY <1>4, <1>6, <1>7 DEF TradeInv, PhaseOK, Untouched, StopAsSet, PartsAddUp, BreakevenKept

(* A mid past no stop. *)
LEMMA TargetOK ==
  ASSUME TradeInv, Target
  PROVE  TradeInv'
<1>1. pos.st = "open" /\ phase = "open" /\ tape # <<>> /\ tape' = Tail(tape) /\ UNCHANGED setup
  BY DEF TradeInv, PhaseOK, Target
<1>2. tape \in Seq(MidRec) /\ Len(tape) <= MaxTape /\ MaxTape \in Nat
  BY TapeConstants DEF TradeInv, TradeTypeOK
<1>3. tape' \in Seq(MidRec) /\ Len(tape') <= MaxTape
  BY <1>1, <1>2
<1>4. NoneStale'
  BY <1>1, <1>2 DEF TradeInv, NoneStale
<1>5. \/ PartClose(AtT1) \/ (pos.t1 /\ PartClose(AtT2))
      \/ CloseRest \/ UNCHANGED <<pos, phase, booked>>
  BY DEF Target
<1>6. CASE PartClose(AtT1) \/ (pos.t1 /\ PartClose(AtT2))
  BY <1>1, <1>3, <1>4, <1>6, PartCloseOK
<1>7. CASE CloseRest
  BY <1>1, <1>3, <1>4, <1>7, CloseRestOK
<1>8. CASE UNCHANGED <<pos, phase, booked>>
  BY <1>1, <1>3, <1>4, <1>8, SamePosKeeps
<1> QED BY <1>5, <1>6, <1>7, <1>8

(* What the end of a cycle with a closed candle does to the trade. *)
LEMMA BarClosesDoes ==
  ASSUME TradeInv, BarCloses
  PROVE  /\ pos.st = "open" /\ pos' \in PosRec /\ pos'.st \in {"open", "closed"}
         /\ pos'.entry = pos.entry /\ pos'.t1 = pos.t1
         /\ pos'.stop >= pos.stop /\ (~pos'.trailed => ~pos.trailed /\ pos'.stop = pos.stop)
         /\ \/ pos'.st = "open" /\ pos'.rem = pos.rem /\ booked' = booked
            \/ pos'.st = "closed" /\ pos'.rem = 0 /\ booked' = booked + pos.rem
<1>1. pos.st = "open" /\ pos \in PosRec
  BY DEF TradeInv, TradeTypeOK, PhaseOK, BarCloses
<1>2. PICK near \in BOOLEAN, mindExits \in BOOLEAN, px \in Prices \cup {pos.stop} :
        LET armed == pos.armed \/ (setup.after = "near_t2" /\ near)
            trail == armed /\ px # pos.stop /\ TrailStop(px)
            next  == [pos EXCEPT !.armed = armed, !.trailed = @ \/ trail,
                                 !.stop = IF trail THEN px ELSE @]
        IN IF mindExits
           THEN pos' = [next EXCEPT !.st = "closed", !.rem = 0] /\ booked' = booked + pos.rem
           ELSE pos' = next /\ UNCHANGED booked
  BY DEF BarCloses
<1> DEFINE armed == pos.armed \/ (setup.after = "near_t2" /\ near)
           trail == armed /\ px # pos.stop /\ TrailStop(px)
           next  == [pos EXCEPT !.armed = armed, !.trailed = @ \/ trail,
                                !.stop = IF trail THEN px ELSE @]
<1>3. armed \in BOOLEAN /\ trail \in BOOLEAN /\ (trail => px > pos.stop)
  BY <1>1, PosFields DEF TrailStop
<1>4. pos.stop \in Nat /\ pos.stop \in Prices /\ px \in Prices /\ px \in Nat /\ pos.trailed \in BOOLEAN
  BY <1>1, PosFields, TapeConstants
<1>5. IF mindExits
      THEN pos' = [next EXCEPT !.st = "closed", !.rem = 0] /\ booked' = booked + pos.rem
      ELSE pos' = next /\ UNCHANGED booked
  BY <1>2
<1> HIDE DEF armed, trail
<1>6. /\ next \in PosRec /\ next.st = "open" /\ next.entry = pos.entry /\ next.t1 = pos.t1
      /\ next.rem = pos.rem /\ next.stop = (IF trail THEN px ELSE pos.stop)
      /\ next.trailed = (pos.trailed \/ trail)
  BY <1>1, <1>3, <1>4 DEF PosRec
<1>7. next.stop >= pos.stop /\ (~next.trailed => ~pos.trailed /\ next.stop = pos.stop)
  BY <1>3, <1>4, <1>6
<1> HIDE DEF next
<1>8. CASE mindExits
  <2>1. 0 \in 0 .. Whole
    BY TapeConstants
  <2>2. pos' = [next EXCEPT !.st = "closed", !.rem = 0] /\ booked' = booked + pos.rem
    BY <1>5, <1>8
  <2>3. /\ pos' \in PosRec /\ pos'.st = "closed" /\ pos'.rem = 0 /\ pos'.entry = next.entry
        /\ pos'.t1 = next.t1 /\ pos'.stop = next.stop /\ pos'.trailed = next.trailed
    BY <1>6, <2>1, <2>2 DEF PosRec
  <2> QED BY <1>1, <1>6, <1>7, <2>2, <2>3
<1>9. CASE ~mindExits
  BY <1>1, <1>5, <1>6, <1>7, <1>9
<1> QED BY <1>8, <1>9

(* The end of a cycle with a closed candle. *)
LEMMA BarClosesOK ==
  ASSUME TradeInv, BarCloses
  PROVE  TradeInv'
<1>1. phase' = "idle" /\ UNCHANGED <<setup, tape>> /\ booked \in Nat /\ Whole \in Nat /\ pos \in PosRec
  BY TapeConstants DEF BarCloses, TradeInv, TradeTypeOK
<1>2. pos.rem \in Nat /\ pos.stop \in Nat /\ pos.entry \in Nat /\ booked + pos.rem = Whole
  BY <1>1, PosFields, BarClosesDoes DEF TradeInv, PartsAddUp
<1>3. pos' \in PosRec /\ booked' \in Nat /\ PartsAddUp'
  BY <1>1, <1>2, BarClosesDoes DEF PartsAddUp
<1>4. TradeTypeOK'
  BY <1>1, <1>3 DEF TradeInv, TradeTypeOK
<1>5. NoneStale'
  BY <1>1 DEF TradeInv, NoneStale
<1>6. PhaseOK' /\ Untouched'
  BY <1>1, BarClosesDoes DEF PhaseOK, Untouched
<1>7. StopAsSet'
  BY <1>1, BarClosesDoes DEF TradeInv, StopAsSet
<1>8. BreakevenKept'
  <2>1. pos'.stop \in Nat
    BY <1>3, PosFields
  <2>2. pos'.stop >= pos.stop /\ pos'.entry = pos.entry /\ pos'.t1 = pos.t1
    BY BarClosesDoes
  <2>3. pos.t1 => pos.stop >= pos.entry
    BY DEF TradeInv, BreakevenKept
  <2>4. pos.t1 => pos'.stop >= pos.entry
    BY <1>2, <2>1, <2>2, <2>3
  <2> QED BY <2>2, <2>4 DEF BreakevenKept
<1> QED BY <1>3, <1>4, <1>5, <1>6, <1>7, <1>8 DEF TradeInv

(* Every step keeps the invariant. *)
LEMMA TradeStep ==
  ASSUME TradeInv, [TradeNext]_tradeVars
  PROVE  TradeInv'
<1>1. CASE UNCHANGED tradeVars
  <2>1. tape' \in Seq(MidRec) /\ Len(tape') <= MaxTape /\ NoneStale'
    BY <1>1 DEF tradeVars, TradeInv, TradeTypeOK, NoneStale
  <2>2. phase' \in {"idle", phase, pos.st} /\ phase' \in {"idle", "pending", "open"}
    BY <1>1 DEF tradeVars, TradeInv, TradeTypeOK
  <2> QED BY <1>1, <2>1, <2>2, SamePosKeeps DEF tradeVars
<1>2. CASE TradeNext
  BY <1>2, TakeSetupOK, MidComesOK, CycleOK, FillOK, PendingRestOK, StopOrTimeOK, TargetOK, BarClosesOK
     DEF TradeNext
<1> QED BY <1>1, <1>2

(* The invariant holds throughout. *)
LEMMA TradeInvariant == TradeSpec => []TradeInv
BY TradeInitOK, TradeStep, PTL DEF TradeSpec

(* The row of the trade, its lifecycle and the tape keep their types, for  *)
(* any prices, setups and sizes.                                            *)
THEOREM TradeTypesHold == TradeSpec => []TradeTypeOK
<1>1. TradeInv => TradeTypeOK
  BY DEF TradeInv
<1> QED BY <1>1, TradeInvariant, PTL

(* Whatever targets, stops and exits end a trade, the parts booked and the *)
(* part open make up its size (model_runner.py:864-935).                    *)
THEOREM PartsAlwaysAddUp == TradeSpec => []PartsAddUp
<1>1. TradeInv => PartsAddUp
  BY DEF TradeInv
<1> QED BY <1>1, TradeInvariant, PTL

(* The stop of a trade that took its first target is never below its entry. *)
THEOREM BreakevenHolds == TradeSpec => []BreakevenKept
<1>1. TradeInv => BreakevenKept
  BY DEF TradeInv
<1> QED BY <1>1, TradeInvariant, PTL

(* An entry fills on a mid that came after its price was set. *)
THEOREM FillsOnLaterMids == TradeSpec => FillsLater
<1>1. TradeInv /\ [TradeNext]_tradeVars
        => [pos.st = "pending" /\ pos'.st = "open"
              => \E i \in DOMAIN tape : ~tape[i].stale /\ Len(tape') = Len(tape) - i]_tradeVars
  <2> SUFFICES ASSUME TradeInv, TradeNext, pos.st = "pending", pos'.st = "open"
               PROVE  \E i \in DOMAIN tape : ~tape[i].stale /\ Len(tape') = Len(tape) - i
    OBVIOUS
  <2>1. pos \in PosRec
    BY DEF TradeInv, TradeTypeOK
  <2>2. ~(MidComes \/ StartCycle \/ CycleEnds \/ TakeSetup)
    BY <2>1 DEF MidComes, StartCycle, CycleEnds, TakeSetup, PosRec
  <2>3. ~PendingRest
    BY <2>1 DEF PendingRest, Cancel, Reprice, PosRec
  <2>4. ~(StopOrTime \/ Target \/ BarCloses)
    BY DEF StopOrTime, Target, BarCloses, TradeInv, PhaseOK
  <2>5. Fill
    BY <2>2, <2>3, <2>4 DEF TradeNext
  <2>6. PICK i \in DOMAIN tape : tape' = SubSeq(tape, i + 1, Len(tape))
    BY <2>5 DEF Fill
  <2> QED BY <2>6, FillTape DEF TradeInv, NoneStale
<1> QED BY <1>1, TradeInvariant, PTL DEF TradeSpec, FillsLater

(* The stop of an open trade never loosens, but by the first target's move *)
(* to the entry when the trail was armed before it or the entry was quoted  *)
(* beyond the stop.                                                         *)
THEOREM StopsNeverLoosen == TradeSpec => StopNeverLoosens
<1>1. TradeInv /\ [TradeNext]_tradeVars
        => [pos.st = "open" /\ pos'.st = "open"
              => pos'.stop >= pos.stop \/ (~pos.t1 /\ pos'.t1 /\ (pos.trailed \/ pos.entry < setup.stop))
           ]_tradeVars
  <2> SUFFICES ASSUME TradeInv, TradeNext, pos.st = "open", pos'.st = "open"
               PROVE  pos'.stop >= pos.stop
                        \/ (~pos.t1 /\ pos'.t1 /\ (pos.trailed \/ pos.entry < setup.stop))
    OBVIOUS
  <2>1. pos \in PosRec /\ pos.stop \in Nat /\ pos.entry \in Nat
    BY PosFields DEF TradeInv, TradeTypeOK
  <2>2. CASE UNCHANGED pos
    BY <2>1, <2>2
  <2>3. CASE BarCloses
    BY <2>3, BarClosesDoes
  <2>4. ~CloseRest
    BY <2>1 DEF CloseRest, PosRec
  <2>5. CASE PartClose(AtT2)
    BY <2>1, <2>5 DEF PartClose, AtT2, AfterPart, PosRec
  <2>6. CASE ~pos.t1 /\ PartClose(AtT1)
    <3>1. pos'.stop = pos.entry /\ pos'.t1
      BY <2>1, <2>6 DEF PartClose, AtT1, AfterPart, PosRec
    <3>2. CASE pos.trailed
      BY <2>6, <3>1, <3>2
    <3>3. CASE ~pos.trailed
      <4>1. pos.stop = setup.stop
        BY <2>6, <3>3 DEF TradeInv, StopAsSet
      <4> QED BY <2>1, <2>6, <3>1, <4>1
    <3> QED BY <3>2, <3>3
  <2>7. StopOrTime => CloseRest
    BY DEF StopOrTime
  <2>8. Target => CloseRest \/ PartClose(AtT2) \/ (~pos.t1 /\ PartClose(AtT1)) \/ UNCHANGED pos
    BY DEF Target
  <2>9. ~TakeSetup /\ ~Fill /\ ~PendingRest
    BY DEF TakeSetup, Fill, PendingRest, TradeInv, PhaseOK
  <2>10. MidComes \/ StartCycle \/ CycleEnds => UNCHANGED pos
    BY DEF MidComes, StartCycle, CycleEnds
  <2> QED BY <2>2, <2>3, <2>4, <2>5, <2>6, <2>7, <2>8, <2>9, <2>10 DEF TradeNext
<1> QED BY <1>1, TradeInvariant, PTL DEF TradeSpec, StopNeverLoosens

(*****************************************************************************)
(* The Telegram messages, for any alerts, calls, rows, windows, limits and   *)
(* faults.                                                                   *)
(*****************************************************************************)

(* The messages on their way: in the queue, or with its worker. *)
Going == {tgQueue[i] : i \in 1 .. Len(tgQueue)} \cup (IF tgWorker.msg = Nil THEN {} ELSE {tgWorker.msg})

Flies(a) == \E m \in Going : m.key = a
Rowed(r) == \E m \in Going : m.row = r

(* A message of an alert stands for a row of the log that is still queued. *)
Stands(m) ==
  IF m.key \in Alerts THEN m.row \in LogRows /\ alog[m.row].alert = m.key /\ alog[m.row].status = "queued"
                      ELSE m.row = Nil

MessagesStand == \A m \in Going : Stands(m)

(* No alert has two messages. *)
OneEach ==
  /\ \A i, j \in 1 .. Len(tgQueue) : tgQueue[i].key \in Alerts /\ tgQueue[i].key = tgQueue[j].key => i = j
  /\ \A i \in 1 .. Len(tgQueue) :
       tgWorker.msg # Nil /\ tgQueue[i].key \in Alerts => tgQueue[i].key # tgWorker.msg.key

(* A call that may still put its alert to the queue will be refused while the *)
(* alert has a message.                                                       *)
SendersKnow ==
  \A c \in Callers, a \in Alerts :
    sender[c].alert = a /\ sender[c].pc \in {"log", "send"} /\ Flies(a) => Known(a)

(* A call owns its row of the log until it has put or dropped its message. *)
SendersOwn ==
  /\ \A c \in Callers : /\ sender[c].pc # "idle" => sender[c].alert \in Alerts
                        /\ IF sender[c].pc \in {"send", "drop"} THEN sender[c].row \in LogRows
                                                                ELSE sender[c].row = Nil
  /\ \A c \in Callers, r \in LogRows : sender[c].row = r =>
       ~Rowed(r) /\ r \notin tgSent /\ alog[r].status = "queued" /\ alog[r].alert = sender[c].alert
  /\ \A c, d \in Callers : sender[c].row = sender[d].row /\ sender[c].row # Nil => c = d

(* What the worker has to report is so. *)
ReportsTrue ==
  /\ tgWorker.res # "none" => tgWorker.msg # Nil
  /\ tgWorker.res = "sent" /\ tgWorker.msg.row # Nil => tgWorker.msg.row \in tgSent

(* The log is right about what it settles, and what it calls queued is on its *)
(* way while nothing has failed.                                              *)
LogRight ==
  /\ \A r \in LogRows : /\ alog[r].status = "sent" => r \in tgSent
                        /\ alog[r].status \in {"dropped", "digested"} => r \notin tgSent
  /\ mishaps = 0 => \A r \in LogRows : alog[r].status = "queued" =>
       Rowed(r) \/ \E c \in Callers : sender[c].row = r

(* What the drain's open transaction has marked was offered too. *)
OfferedFirst == drained \subseteq offered /\ SettledWasOffered

NotifyInv == /\ NotifyTypeOK /\ MessagesStand /\ OneEach /\ SendersKnow /\ SendersOwn /\ ReportsTrue
             /\ LogRight /\ OfferedFirst

Spread == /\ KeyWindow \in Nat /\ LogWindow \in Nat /\ HourlyLimit \in Nat /\ MaxQueue \in Nat
          /\ MaxRetries \in Nat /\ MaxMishaps \in Nat /\ KeyWindow < LogWindow
          /\ Nil \notin Alerts \cup OutRows /\ Nil \notin LogRows /\ Nil \notin 0 .. KeyWindow
          /\ Nil \notin Msgs
          /\ Digest \notin Alerts /\ Alerts \cap OutRows = {}

(* What the constants are assumed to be, fact by fact. *)
LEMMA SpreadHolds == Spread
BY NotifyConstants DEF Spread, Msgs

SendRec == [pc : {"idle", "log", "send", "drop"}, alert : Alerts \cup {Nil}, row : LogRows \cup {Nil}]
LineRec == [alert : Alerts \cup {Nil}, age : 0 .. LogWindow,
            status : {"none", "queued", "sent", "failed", "digested", "dropped"}]
WorkRec == [msg : Msgs \cup {Nil}, tries : 0 .. MaxRetries, res : {"none", "sent", "failed"}]

(* The types, one record at a time. *)
LEMMA NotifyNow ==
  ASSUME NotifyTypeOK
  PROVE  /\ \A c \in Callers : sender[c] \in SendRec
         /\ \A r \in LogRows : alog[r] \in LineRec
         /\ tgWorker \in WorkRec /\ tgQueue \in Seq(Msgs) /\ Len(tgQueue) \in Nat /\ Len(tgQueue) <= MaxQueue
         /\ \A i \in 1 .. Len(tgQueue) : tgQueue[i] \in Msgs /\ tgQueue[i] # Nil
         /\ sender \in [Callers -> SendRec] /\ alog \in [LogRows -> LineRec]
         /\ DOMAIN tgKeys = Alerts \cup OutRows
         /\ Going \subseteq Msgs /\ mishaps \in Nat
<1>1. tgQueue \in Seq(Msgs) /\ tgWorker \in WorkRec
  BY DEF NotifyTypeOK, WorkRec
<1>2. \A i \in 1 .. Len(tgQueue) : tgQueue[i] \in Msgs
  BY <1>1, ElementOfSeq
<1>3. Going \subseteq Msgs
  BY <1>1, <1>2 DEF Going, WorkRec
<1>4. Len(tgQueue) \in Nat
  BY <1>1, LenProperties
<1>5. mishaps \in Nat
  BY SpreadHolds DEF NotifyTypeOK, Spread
<1> QED BY <1>1, <1>2, <1>3, <1>4, <1>5, SpreadHolds DEF NotifyTypeOK, SendRec, LineRec, Spread

(* A row is under way with a message on its way. *)
LEMMA RowedIs ==
  ASSUME NotifyTypeOK, NEW r
  PROVE  Underway(r) <=> Rowed(r)
BY NotifyNow DEF Underway, Rowed, Going

(* The first state satisfies the invariant. *)
LEMMA NotifyInitOK ==
  ASSUME NotifyInit
  PROVE  NotifyInv
<1> USE SpreadHolds DEF Spread
<1>1. NotifyTypeOK
  <2>1. tgQueue \in Seq(Msgs) /\ Len(tgQueue) = 0
    BY EmptySeq DEF NotifyInit
  <2>2. sender \in [Callers -> [pc : {"idle", "log", "send", "drop"},
                                alert : Alerts \cup {Nil}, row : LogRows \cup {Nil}]]
    BY DEF NotifyInit, Asleep
  <2>3. alog \in [LogRows -> [alert : Alerts \cup {Nil}, age : 0 .. LogWindow,
           status : {"none", "queued", "sent", "failed", "digested", "dropped"}]]
    BY DEF NotifyInit, NoLine
  <2>4. hourly \in [alerts : Nat, digests : 0 .. HourlyLimit]
    BY DEF NotifyInit, NoSends
  <2>5. tgWorker \in [msg : Msgs \cup {Nil}, tries : 0 .. MaxRetries, res : {"none", "sent", "failed"}]
    BY DEF NotifyInit, Resting
  <2>6. /\ tgKeys \in [Alerts \cup OutRows -> {Nil} \cup 0 .. KeyWindow]
        /\ outbox \in [OutRows -> {"none", "unsent", "sent"}] /\ held \in BOOLEAN
        /\ drained \subseteq OutRows /\ offered \subseteq OutRows /\ tgSent \subseteq LogRows
    BY DEF NotifyInit
  <2>8. mishaps \in 0 .. MaxMishaps
    BY DEF NotifyInit
  <2>7. Len(tgQueue) <= MaxQueue
    BY <2>1
  <2> QED BY <2>1, <2>2, <2>3, <2>4, <2>5, <2>6, <2>7, <2>8 DEF NotifyTypeOK
<1>2. Going = {}
  BY DEF NotifyInit, Going, Resting
<1>3. MessagesStand /\ OneEach /\ SendersKnow
  BY <1>2 DEF NotifyInit, MessagesStand, OneEach, SendersKnow, Flies
<1>4. SendersOwn
  BY <1>2 DEF NotifyInit, SendersOwn, Asleep
<1>5. ReportsTrue
  BY DEF NotifyInit, ReportsTrue, Resting
<1>6. LogRight
  BY DEF NotifyInit, LogRight, NoLine
<1>7. OfferedFirst
  BY DEF NotifyInit, OfferedFirst, SettledWasOffered
<1> QED BY <1>1, <1>3, <1>4, <1>5, <1>6, <1>7 DEF NotifyInv

(* A step of the outbox alone. *)
LEMMA ObStepOK ==
  ASSUME NotifyInv, NotifyTypeOK', OfferedFirst', UNCHANGED <<tg, alog, sender>>, mishaps <= mishaps'
  PROVE  NotifyInv'
<1>1. mishaps \in Nat /\ mishaps' \in Nat
  BY SpreadHolds DEF NotifyInv, NotifyTypeOK, Spread
<1>2. Going' = Going /\ UNCHANGED <<tgQueue, tgKeys, tgWorker, tgSent, alog, sender>>
  BY DEF Going, tg
<1>3. MessagesStand' /\ OneEach' /\ SendersKnow'
  BY <1>2 DEF NotifyInv, MessagesStand, Stands, OneEach, SendersKnow, Flies, Known
<1>4. SendersOwn' /\ ReportsTrue'
  BY <1>2 DEF NotifyInv, SendersOwn, Rowed, ReportsTrue
<1>5. LogRight'
  BY <1>1, <1>2 DEF NotifyInv, LogRight, Rowed
<1> QED BY <1>3, <1>4, <1>5 DEF NotifyInv

(* The outbox's own steps. *)
LEMMA OutboxOK ==
  ASSUME NotifyInv,
         (\E r \in OutRows : Write(r)) \/ DrainCommit \/ DrainFails
  PROVE  NotifyInv'
<1>0. mishaps \in Nat /\ NotifyTypeOK /\ OfferedFirst
  BY NotifyNow DEF NotifyInv
<1>1. CASE \E r \in OutRows : Write(r)
  <2>1. PICK r \in OutRows : Write(r)
    BY <1>1
  <2>2. NotifyTypeOK'
    BY <1>0, <2>1 DEF Write, tg, NotifyTypeOK
  <2>3. OfferedFirst'
    BY <1>0, <2>1 DEF Write, OfferedFirst, SettledWasOffered, NotifyTypeOK
  <2> QED BY <1>0, <2>1, <2>2, <2>3, ObStepOK DEF Write
<1>2. CASE DrainCommit
  <2>2. NotifyTypeOK'
    BY <1>0, <1>2 DEF DrainCommit, tg, NotifyTypeOK, Committed
  <2>3. OfferedFirst'
    BY <1>0, <1>2 DEF DrainCommit, OfferedFirst, SettledWasOffered, NotifyTypeOK, Committed
  <2> QED BY <1>0, <1>2, <2>2, <2>3, ObStepOK DEF DrainCommit
<1>3. CASE DrainFails
  <2>2. NotifyTypeOK'
    BY <1>0, <1>3, SpreadHolds DEF DrainFails, tg, NotifyTypeOK, Spread
  <2>3. OfferedFirst'
    BY <1>0, <1>3 DEF DrainFails, OfferedFirst, SettledWasOffered
  <2> QED BY <1>0, <1>3, <2>2, <2>3, ObStepOK DEF DrainFails
<1> QED BY <1>1, <1>2, <1>3

(* A step of one call that gives up its row, or has none and gets none. *)
LEMMA SenderLeaves ==
  ASSUME NotifyInv, NEW c \in Callers, NEW s \in SendRec, sender' = [sender EXCEPT ![c] = s],
         UNCHANGED <<tgQueue, tgKeys, tgWorker, tgSent, alog, drained, offered, outbox>>,
         s.row = Nil, s.pc \in {"idle", "log"}, s.pc = "log" => s.alert \in Alerts /\ ~Flies(s.alert),
         mishaps' \in 0 .. MaxMishaps, mishaps <= mishaps', mishaps' = 0 => sender[c].row = Nil,
         UNCHANGED <<held, hourly>>
  PROVE  NotifyInv'
<1>0. /\ NotifyTypeOK /\ mishaps \in Nat /\ mishaps' \in Nat /\ Going' = Going /\ sender \in [Callers -> SendRec]
      /\ Nil \notin LogRows
      /\ sender'[c] = s /\ \A d \in Callers \ {c} : sender'[d] = sender[d]
  BY NotifyNow, SpreadHolds DEF NotifyInv, Going, Spread
<1>1. NotifyTypeOK'
  BY <1>0 DEF NotifyTypeOK, SendRec
<1>2. MessagesStand' /\ OneEach' /\ ReportsTrue'
  BY <1>0 DEF NotifyInv, MessagesStand, Stands, OneEach, ReportsTrue
<1>3. SendersKnow'
  BY <1>0 DEF NotifyInv, SendersKnow, Flies, Known
<1>4. SendersOwn'
  BY <1>0 DEF NotifyInv, SendersOwn, Rowed
<1>5. LogRight'
  <2>1. ASSUME mishaps' = 0, NEW r \in LogRows, alog[r].status = "queued"
        PROVE  Rowed(r) \/ \E d \in Callers : sender'[d].row = r
    BY <1>0, <2>1 DEF NotifyInv, LogRight
  <2> QED BY <1>0, <2>1 DEF NotifyInv, LogRight, Rowed
<1>6. OfferedFirst'
  BY DEF NotifyInv, OfferedFirst, SettledWasOffered
<1> QED BY <1>1, <1>2, <1>3, <1>4, <1>5, <1>6 DEF NotifyInv

(* A call asks, or its update of the log fails. *)
LEMMA RouterAskOK ==
  ASSUME NotifyInv, NEW c \in Callers, DropFails(c) \/ \E a \in Alerts : AskAlert(c, a)
  PROVE  NotifyInv'
<1>0. NotifyTypeOK /\ mishaps \in Nat /\ mishaps \in 0 .. MaxMishaps /\ MaxMishaps \in Nat
  BY NotifyNow, SpreadHolds DEF NotifyInv, NotifyTypeOK, Spread
<1>1. CASE DropFails(c)
  <2>1. Asleep \in SendRec /\ Asleep.row = Nil /\ Asleep.pc = "idle"
    BY DEF Asleep, SendRec
  <2>2. /\ sender' = [sender EXCEPT ![c] = Asleep] /\ mishaps' = mishaps + 1 /\ mishaps < MaxMishaps
        /\ UNCHANGED <<tgQueue, tgKeys, tgWorker, tgSent, alog, drained, offered, outbox, held, hourly>>
    BY <1>1 DEF DropFails, tg, ob
  <2>3. mishaps' \in 0 .. MaxMishaps /\ mishaps <= mishaps' /\ mishaps' # 0
    BY <1>0, <2>2
  <2> HIDE DEF Asleep
  <2> QED BY <2>1, <2>2, <2>3, SenderLeaves
<1>2. CASE \E a \in Alerts : AskAlert(c, a)
  <2>1. PICK a \in Alerts : AskAlert(c, a)
    BY <1>2
  <2> DEFINE s == [Asleep EXCEPT !.pc = "log", !.alert = a]
  <2>2. s \in SendRec /\ s.row = Nil /\ s.pc = "log" /\ s.alert = a
    BY DEF Asleep, SendRec
  <2>3. /\ sender' = [sender EXCEPT ![c] = s] /\ mishaps' = mishaps /\ sender[c].pc = "idle"
        /\ UNCHANGED <<tgQueue, tgKeys, tgWorker, tgSent, alog, drained, offered, outbox, held, hourly>>
    BY <2>1 DEF AskAlert, tg, ob
  <2>4. sender[c].row = Nil
    BY <2>3 DEF NotifyInv, SendersOwn
  <2>5. ~Flies(a)
    BY <2>1 DEF AskAlert, SeenRecently, Flies, NotifyInv, MessagesStand, Stands
  <2>6. mishaps' \in 0 .. MaxMishaps /\ mishaps <= mishaps'
    BY <1>0, <2>3
  <2> HIDE DEF s
  <2> QED BY <2>2, <2>3, <2>4, <2>5, <2>6, SenderLeaves
<1> QED BY <1>1, <1>2

(* What the queue does with a message: it takes it or not, the key is known  *)
(* from then on, and an alert it did not know gets no second message.        *)
LEMMA EnqueueDoes ==
  ASSUME NotifyInv, NEW key \in Alerts \cup OutRows \cup {Digest}, NEW rcd \in LogRows \cup {Nil},
         Enqueue(key, rcd), UNCHANGED tgWorker, key \in Alerts => Known(key) \/ ~Flies(key)
  PROVE  /\ tgQueue' \in Seq(Msgs) /\ Len(tgQueue') <= MaxQueue
         /\ tgKeys' \in [Alerts \cup OutRows -> {Nil} \cup 0 .. KeyWindow]
         /\ Going' = IF Accepted(key) THEN Going \cup {[key |-> key, row |-> rcd]} ELSE Going
         /\ \A k \in Alerts : Known(k) \/ k = key => tgKeys'[k] # Nil
         /\ DOMAIN tgKeys' = Alerts \cup OutRows
         /\ OneEach'
<1> USE SpreadHolds DEF Spread
<1> DEFINE m == [key |-> key, row |-> rcd]
<1>0. /\ tgQueue \in Seq(Msgs) /\ Len(tgQueue) \in Nat /\ Len(tgQueue) <= MaxQueue /\ m \in Msgs /\ m # Nil
      /\ tgKeys \in [Alerts \cup OutRows -> {Nil} \cup 0 .. KeyWindow]
      /\ m.key = key /\ tgWorker' = tgWorker /\ OneEach
  BY NotifyNow DEF NotifyInv, NotifyTypeOK, Msgs
<1>1. tgKeys' \in [Alerts \cup OutRows -> {Nil} \cup 0 .. KeyWindow] /\ DOMAIN tgKeys' = Alerts \cup OutRows
  BY <1>0 DEF Enqueue
<1>2. \A k \in Alerts : Known(k) \/ k = key => tgKeys'[k] # Nil
  BY <1>0 DEF Enqueue, Known
<1>3. CASE Accepted(key)
  <2>1. tgQueue' = Append(tgQueue, m) /\ Len(tgQueue) < MaxQueue /\ ~Known(key)
    BY <1>0, <1>3 DEF Enqueue, Accepted
  <2> HIDE DEF m
  <2>2. /\ tgQueue' \in Seq(Msgs) /\ Len(tgQueue') = Len(tgQueue) + 1 /\ tgQueue'[Len(tgQueue) + 1] = m
        /\ \A i \in 1 .. Len(tgQueue) : tgQueue'[i] = tgQueue[i]
    BY <1>0, <2>1, AppendProperties
  <2>3. Going' = Going \cup {m}
    <3>1. {tgQueue'[i] : i \in 1 .. Len(tgQueue')} = {tgQueue[i] : i \in 1 .. Len(tgQueue)} \cup {m}
      <4>1. ASSUME NEW i \in 1 .. Len(tgQueue')
            PROVE  tgQueue'[i] \in {tgQueue[j] : j \in 1 .. Len(tgQueue)} \cup {m}
        <5>1. CASE i = Len(tgQueue) + 1
          BY <2>2, <5>1
        <5>2. CASE i # Len(tgQueue) + 1
          <6>1. i \in 1 .. Len(tgQueue)
            BY <1>0, <2>2, <5>2
          <6> QED BY <2>2, <6>1
        <5> QED BY <5>1, <5>2
      <4>2. ASSUME NEW i \in 1 .. Len(tgQueue)
            PROVE  tgQueue[i] \in {tgQueue'[j] : j \in 1 .. Len(tgQueue')}
        <5>1. i \in 1 .. Len(tgQueue') /\ tgQueue'[i] = tgQueue[i]
          BY <1>0, <2>2
        <5> QED BY <5>1
      <4>3. m \in {tgQueue'[j] : j \in 1 .. Len(tgQueue')}
        <5>1. Len(tgQueue) + 1 \in 1 .. Len(tgQueue')
          BY <1>0, <2>2
        <5> QED BY <2>2, <5>1
      <4> QED BY <4>1, <4>2, <4>3
    <3> QED BY <1>0, <3>1 DEF Going
  <2>4. OneEach'
    <3>1. ASSUME NEW i \in 1 .. Len(tgQueue), tgQueue[i].key = key, key \in Alerts
          PROVE  FALSE
      <4>1. tgQueue[i] \in Going
        BY DEF Going
      <4> QED BY <2>1, <3>1, <4>1 DEF Flies
    <3>2. ASSUME tgWorker.msg # Nil, tgWorker.msg.key = key, key \in Alerts
          PROVE  FALSE
      <4>1. tgWorker.msg \in Going
        BY <3>2 DEF Going
      <4> QED BY <2>1, <3>2, <4>1 DEF Flies
    <3>3. ASSUME NEW i \in 1 .. Len(tgQueue'), NEW j \in 1 .. Len(tgQueue'), tgQueue'[i].key \in Alerts,
                 tgQueue'[i].key = tgQueue'[j].key
          PROVE  i = j
      <4>1. CASE i \in 1 .. Len(tgQueue) /\ j \in 1 .. Len(tgQueue)
        BY <1>0, <2>2, <3>3, <4>1 DEF OneEach
      <4>2. CASE i = Len(tgQueue) + 1 /\ j = Len(tgQueue) + 1
        BY <4>2
      <4>3. CASE i = Len(tgQueue) + 1 /\ j \in 1 .. Len(tgQueue)
        BY <1>0, <2>2, <3>1, <3>3, <4>3
      <4>4. CASE j = Len(tgQueue) + 1 /\ i \in 1 .. Len(tgQueue)
        BY <1>0, <2>2, <3>1, <3>3, <4>4
      <4>5. \A n \in 1 .. Len(tgQueue') : n \in 1 .. Len(tgQueue) \/ n = Len(tgQueue) + 1
        BY <1>0, <2>2
      <4> QED BY <4>1, <4>2, <4>3, <4>4, <4>5
    <3>4. ASSUME NEW i \in 1 .. Len(tgQueue'), tgWorker.msg # Nil, tgQueue'[i].key \in Alerts
          PROVE  tgQueue'[i].key # tgWorker.msg.key
      <4>1. CASE i = Len(tgQueue) + 1
        BY <1>0, <2>2, <3>2, <3>4, <4>1
      <4>2. CASE i # Len(tgQueue) + 1
        <5>1. i \in 1 .. Len(tgQueue)
          BY <1>0, <2>2, <4>2
        <5> QED BY <1>0, <2>2, <3>4, <5>1 DEF OneEach
      <4> QED BY <4>1, <4>2
    <3> QED BY <1>0, <3>3, <3>4 DEF OneEach
  <2>5. Len(tgQueue') <= MaxQueue
    BY <1>0, <2>1, <2>2
  <2> QED BY <1>1, <1>2, <1>3, <2>2, <2>3, <2>4, <2>5 DEF m
<1>4. CASE ~Accepted(key)
  <2>1. tgQueue' = tgQueue
    BY <1>4 DEF Enqueue, Accepted
  <2> QED BY <1>0, <1>1, <1>2, <1>4, <2>1 DEF Going, OneEach
<1> QED BY <1>3, <1>4

(* A message without a row of the log: a digest, or a row of the outbox. *)
LEMMA PlainOK ==
  ASSUME NotifyInv, NEW key \in OutRows \cup {Digest}, Enqueue(key, Nil),
         UNCHANGED <<tgWorker, tgSent, alog, sender, mishaps>>, OfferedFirst',
         NotifyTypeOK'
  PROVE  NotifyInv'
<1> USE SpreadHolds DEF Spread
<1> DEFINE m == [key |-> key, row |-> Nil]
<1>0. /\ Going' = IF Accepted(key) THEN Going \cup {m} ELSE Going
      /\ \A k \in Alerts : Known(k) => tgKeys'[k] # Nil
      /\ DOMAIN tgKeys' = Alerts \cup OutRows /\ OneEach' /\ key \notin Alerts
  BY EnqueueDoes
<1>1. m.key = key /\ m.row = Nil
  OBVIOUS
<1> HIDE DEF m
<1>2. MessagesStand'
  <2>1. ASSUME NEW n \in Going'
        PROVE  Stands(n)'
    <3>1. n \in Going \/ n = m
      BY <1>0, <2>1
    <3> QED BY <1>0, <1>1, <3>1 DEF NotifyInv, MessagesStand, Stands
  <2> QED BY <2>1 DEF MessagesStand
<1>3. SendersKnow'
  BY <1>0, <1>1 DEF NotifyInv, SendersKnow, Flies, Known
<1>4. \A r \in LogRows : Rowed(r)' <=> Rowed(r)
  BY <1>0, <1>1 DEF Rowed
<1>5. SendersOwn'
  BY <1>4 DEF NotifyInv, SendersOwn
<1>6. ReportsTrue'
  BY DEF NotifyInv, ReportsTrue
<1>7. LogRight'
  BY <1>4 DEF NotifyInv, LogRight
<1> QED BY <1>0, <1>2, <1>3, <1>5, <1>6, <1>7 DEF NotifyInv

(* The digest, and one row of the drain. *)
LEMMA FlushAndDrainOK ==
  ASSUME NotifyInv, FlushDigest \/ \E r \in OutRows : Drain(r)
  PROVE  NotifyInv'
<1> USE SpreadHolds DEF Spread
<1>0. NotifyTypeOK /\ OfferedFirst
  BY DEF NotifyInv
<1>1. CASE FlushDigest
  <2>1. Enqueue(Digest, Nil) /\ UNCHANGED <<tgWorker, tgSent, alog, sender, mishaps, outbox, drained, offered>>
    BY <1>1 DEF FlushDigest, ob
  <2>2. /\ tgQueue' \in Seq(Msgs) /\ Len(tgQueue') <= MaxQueue
        /\ tgKeys' \in [Alerts \cup OutRows -> {Nil} \cup 0 .. KeyWindow]
    BY <2>1, EnqueueDoes
  <2>3. hourly' \in [alerts : Nat, digests : 0 .. HourlyLimit] /\ held' \in BOOLEAN
    <3>1. hourly \in [alerts : Nat, digests : 0 .. HourlyLimit] /\ HourlyLimit \in Nat
      BY <1>0 DEF NotifyTypeOK
    <3>2. /\ held' \in BOOLEAN
          /\ hourly' = hourly \/ (hourly.digests < HourlyLimit /\ hourly' = [hourly EXCEPT !.digests = @ + 1])
      BY <1>1 DEF FlushDigest
    <3> QED BY <3>1, <3>2
  <2>4. NotifyTypeOK'
    BY <1>0, <2>1, <2>2, <2>3 DEF NotifyTypeOK
  <2>5. OfferedFirst'
    BY <1>0, <2>1 DEF OfferedFirst, SettledWasOffered
  <2> QED BY <2>1, <2>4, <2>5, PlainOK
<1>2. ASSUME NEW r \in OutRows, Drain(r)
      PROVE  NotifyInv'
  <2>1. /\ Enqueue(r, Nil) /\ UNCHANGED <<tgWorker, tgSent, alog, sender, mishaps, outbox, held, hourly>>
        /\ offered' = offered \cup {r} /\ drained' = drained \cup {r}
    BY <1>2 DEF Drain, DrainRow
  <2>2. /\ tgQueue' \in Seq(Msgs) /\ Len(tgQueue') <= MaxQueue
        /\ tgKeys' \in [Alerts \cup OutRows -> {Nil} \cup 0 .. KeyWindow]
    BY <2>1, EnqueueDoes
  <2>4. NotifyTypeOK'
    BY <1>0, <2>1, <2>2 DEF NotifyTypeOK
  <2>5. OfferedFirst'
    BY <1>0, <2>1 DEF OfferedFirst, SettledWasOffered
  <2> QED BY <2>1, <2>4, <2>5, PlainOK
<1> QED BY <1>1, <1>2

(* send_alert's message, put or refused. *)
LEMMA SendAlertOK ==
  ASSUME NotifyInv, NEW c \in Callers, SendAlert(c)
  PROVE  NotifyInv'
<1> USE SpreadHolds DEF Spread
<1>. PICK a, r : a = sender[c].alert /\ r = sender[c].row
  OBVIOUS
<1> DEFINE m == [key |-> a, row |-> r]
           s == IF Accepted(a) THEN Asleep ELSE [sender[c] EXCEPT !.pc = "drop"]
<1>0. NotifyTypeOK /\ sender[c] \in SendRec /\ sender \in [Callers -> SendRec] /\ mishaps \in Nat
  BY NotifyNow DEF NotifyInv
<1>1. /\ sender[c].pc = "send" /\ a \in Alerts /\ r \in LogRows /\ r # Nil /\ Enqueue(a, r) /\ ~Rowed(r)
      /\ r \notin tgSent /\ alog[r].status = "queued" /\ alog[r].alert = a
      /\ \A d \in Callers \ {c} : sender[d].row # r
  BY <1>0 DEF SendAlert, NotifyInv, SendersOwn
<1>2. sender' = [sender EXCEPT ![c] = s] /\ UNCHANGED <<tgWorker, tgSent, alog, held, drained, offered, outbox, mishaps>>
  BY <1>0 DEF SendAlert, ob, QueueRefused
<1>3. hourly' \in [alerts : Nat, digests : 0 .. HourlyLimit]
  BY <1>0 DEF SendAlert, NotifyTypeOK
<1>4. Known(a) \/ ~Flies(a)
  BY <1>1 DEF NotifyInv, SendersKnow
<1>5. /\ s \in SendRec
      /\ Accepted(a) => s.pc = "idle" /\ s.row = Nil /\ s.alert = Nil
      /\ ~Accepted(a) => s.pc = "drop" /\ s.row = r /\ s.alert = a
  BY <1>0 DEF SendRec, Asleep
<1>6. m.key = a /\ m.row = r
  OBVIOUS
<1>7. /\ tgQueue' \in Seq(Msgs) /\ Len(tgQueue') <= MaxQueue
      /\ tgKeys' \in [Alerts \cup OutRows -> {Nil} \cup 0 .. KeyWindow]
      /\ Going' = IF Accepted(a) THEN Going \cup {m} ELSE Going
      /\ \A k \in Alerts : Known(k) \/ k = a => tgKeys'[k] # Nil
      /\ DOMAIN tgKeys' = Alerts \cup OutRows
      /\ OneEach'
  BY <1>1, <1>2, <1>4, EnqueueDoes
<1>8. sender'[c] = s /\ \A d \in Callers \ {c} : sender'[d] = sender[d]
  BY <1>0, <1>2
<1>9. NotifyTypeOK'
  <2>1. sender' \in [Callers -> SendRec]
    BY <1>0, <1>2, <1>5
  <2> QED BY <1>0, <1>2, <1>3, <1>7, <2>1 DEF NotifyTypeOK, SendRec
<1> HIDE DEF m, s
<1>10. MessagesStand'
  <2>1. ASSUME NEW n \in Going'
        PROVE  Stands(n)'
    <3>1. n \in Going \/ n = m
      BY <1>7, <2>1
    <3> QED BY <1>1, <1>2, <1>6, <3>1 DEF NotifyInv, MessagesStand, Stands
  <2> QED BY <2>1 DEF MessagesStand
<1>11. SendersKnow'
  BY <1>5, <1>6, <1>7, <1>8 DEF NotifyInv, SendersKnow, Flies, Known
<1>12. \A q \in LogRows \ {r} : Rowed(q)' <=> Rowed(q)
  BY <1>6, <1>7 DEF Rowed
<1>13. Accepted(a) => Rowed(r)'
  BY <1>6, <1>7 DEF Rowed
<1>14. ~Accepted(a) => ~Rowed(r)'
  BY <1>1, <1>7 DEF Rowed
<1>15. SendersOwn'
  <2>1. ASSUME NEW d \in Callers
        PROVE  /\ sender'[d].pc # "idle" => sender'[d].alert \in Alerts
               /\ IF sender'[d].pc \in {"send", "drop"} THEN sender'[d].row \in LogRows
                                                        ELSE sender'[d].row = Nil
               /\ sender'[d].row = sender[d].row \/ (d = c /\ sender'[d].row = Nil /\ Accepted(a))
    BY <1>1, <1>5, <1>8 DEF NotifyInv, SendersOwn
  <2>2. ASSUME NEW d \in Callers, NEW q \in LogRows, sender'[d].row = q
        PROVE  ~Rowed(q)' /\ q \notin tgSent' /\ alog'[q].status = "queued" /\ alog'[q].alert = sender'[d].alert
    <3>1. CASE d = c
      BY <1>1, <1>2, <1>5, <1>8, <1>14, <2>2, <3>1
    <3>2. CASE d # c
      BY <1>1, <1>2, <1>8, <1>12, <2>2, <3>2 DEF NotifyInv, SendersOwn
    <3> QED BY <3>1, <3>2
  <2>3. \A d, e \in Callers : sender'[d].row = sender'[e].row /\ sender'[d].row # Nil => d = e
    BY <2>1 DEF NotifyInv, SendersOwn
  <2> QED BY <2>1, <2>2, <2>3 DEF SendersOwn
<1>16. ReportsTrue'
  BY <1>2 DEF NotifyInv, ReportsTrue
<1>17. LogRight'
  <2>1. ASSUME mishaps' = 0, NEW q \in LogRows, alog[q].status = "queued"
        PROVE  Rowed(q)' \/ \E d \in Callers : sender'[d].row = q
    <3>1. CASE q = r
      BY <1>5, <1>8, <1>13, <3>1
    <3>2. CASE q # r /\ Rowed(q)
      BY <1>12, <3>2
    <3>3. CASE q # r /\ \E d \in Callers : sender[d].row = q
      <4>1. PICK d \in Callers : sender[d].row = q
        BY <3>3
      <4>2. d # c
        BY <3>3, <4>1
      <4> QED BY <1>8, <4>1, <4>2
    <3> QED BY <1>2, <2>1, <3>1, <3>2, <3>3 DEF NotifyInv, LogRight
  <2> QED BY <1>2, <2>1 DEF NotifyInv, LogRight
<1>18. OfferedFirst'
  BY <1>2 DEF NotifyInv, OfferedFirst, SettledWasOffered
<1> QED BY <1>7, <1>9, <1>10, <1>11, <1>15, <1>16, <1>17, <1>18 DEF NotifyInv

(* A decision gets its row of the log, one that nothing else uses. *)
LEMMA LogAlertOK ==
  ASSUME NotifyInv, NEW c \in Callers, LogAlert(c)
  PROVE  NotifyInv'
<1> USE SpreadHolds DEF Spread
<1>0. /\ NotifyTypeOK /\ sender[c] \in SendRec /\ sender \in [Callers -> SendRec] /\ mishaps \in Nat
      /\ alog \in [LogRows -> LineRec]
  BY NotifyNow DEF NotifyInv
<1>. PICK a, status : a = sender[c].alert /\ status = IF OverLimit THEN "digested" ELSE "queued"
  OBVIOUS
<1>1. /\ sender[c].pc = "log" /\ sender[c].row = Nil /\ a \in Alerts /\ status \in {"digested", "queued"}
      /\ Logged(c, a, status) /\ held' \in BOOLEAN
      /\ UNCHANGED <<tgQueue, tgKeys, tgWorker, hourly, mishaps, outbox, drained, offered>>
  BY <1>0 DEF LogAlert, NotifyInv, SendersOwn, ob, NotifyTypeOK
<1> DEFINE line == [NoLine EXCEPT !.alert = a, !.status = status]
<1>2. PICK r \in LogRows :
        /\ Free(r) /\ tgSent' = tgSent \ {r}
        /\ alog' = [alog EXCEPT ![r] = line]
        /\ sender' = [sender EXCEPT ![c] =
             IF status = "queued" THEN [pc |-> "send", alert |-> a, row |-> r] ELSE Asleep]
  BY <1>1 DEF Logged
<1>3. line \in LineRec /\ line.alert = a /\ line.status = status
  <2>1. NoLine \in LineRec
    BY DEF NoLine, LineRec
  <2> QED BY <1>1, <2>1 DEF LineRec
<1> DEFINE s == IF status = "queued" THEN [pc |-> "send", alert |-> a, row |-> r] ELSE Asleep
<1>4. /\ s \in SendRec
      /\ status = "queued" => s.pc = "send" /\ s.alert = a /\ s.row = r
      /\ status = "digested" => s.pc = "idle" /\ s.alert = Nil /\ s.row = Nil
  BY <1>1 DEF SendRec, Asleep
<1>5. /\ sender'[c] = s /\ \A d \in Callers \ {c} : sender'[d] = sender[d]
      /\ alog'[r] = line /\ \A q \in LogRows \ {r} : alog'[q] = alog[q]
  BY <1>0, <1>2
<1>6. /\ ~Rowed(r) /\ \A d \in Callers : sender[d].row # r
      /\ alog[r].status \in {"none", "failed", "dropped"}
  BY <1>0, <1>2, RowedIs DEF Free
<1>7. NotifyTypeOK'
  <2>1. sender' \in [Callers -> SendRec]
    BY <1>0, <1>2, <1>4
  <2>2. alog' \in [LogRows -> LineRec]
    BY <1>0, <1>2, <1>3
  <2>3. tgSent' \subseteq LogRows
    BY <1>0, <1>2 DEF NotifyTypeOK
  <2> QED BY <1>0, <1>1, <2>1, <2>2, <2>3 DEF NotifyTypeOK, SendRec, LineRec
<1> HIDE DEF line, s
<1>8. Going' = Going
  BY <1>1 DEF Going
<1>9. \A q \in LogRows : Rowed(q)' <=> Rowed(q)
  BY <1>8 DEF Rowed
<1>10. MessagesStand'
  <2>1. ASSUME NEW m \in Going
        PROVE  Stands(m)'
    <3>1. m.row # r
      BY <1>6 DEF Rowed
    <3> QED BY <1>5, <3>1 DEF NotifyInv, MessagesStand, Stands
  <2> QED BY <1>8, <2>1 DEF MessagesStand
<1>11. OneEach' /\ OfferedFirst'
  BY <1>1 DEF NotifyInv, OneEach, OfferedFirst, SettledWasOffered
<1>12. SendersKnow'
  BY <1>1, <1>4, <1>5, <1>8 DEF NotifyInv, SendersKnow, Flies, Known
<1>13. SendersOwn'
  <2>1. ASSUME NEW d \in Callers
        PROVE  /\ sender'[d].pc # "idle" => sender'[d].alert \in Alerts
               /\ IF sender'[d].pc \in {"send", "drop"} THEN sender'[d].row \in LogRows
                                                        ELSE sender'[d].row = Nil
    BY <1>1, <1>4, <1>5 DEF NotifyInv, SendersOwn
  <2>2. ASSUME NEW d \in Callers, NEW q \in LogRows, sender'[d].row = q
        PROVE  ~Rowed(q)' /\ q \notin tgSent' /\ alog'[q].status = "queued" /\ alog'[q].alert = sender'[d].alert
    <3>1. CASE d = c
      <4>1. q = r /\ status = "queued"
        BY <1>1, <1>4, <1>5, <2>2, <3>1
      <4> QED BY <1>2, <1>3, <1>4, <1>5, <1>6, <1>9, <3>1, <4>1
    <3>2. CASE d # c
      <4>1. q # r /\ sender[d].row = q /\ sender'[d] = sender[d]
        BY <1>5, <1>6, <2>2, <3>2
      <4>2. ~Rowed(q) /\ q \notin tgSent /\ alog[q].status = "queued" /\ alog[q].alert = sender[d].alert
        BY <4>1 DEF NotifyInv, SendersOwn
      <4> QED BY <1>2, <1>5, <1>9, <4>1, <4>2
    <3> QED BY <3>1, <3>2
  <2>3. \A d, e \in Callers : sender'[d].row = sender'[e].row /\ sender'[d].row # Nil => d = e
    <3>1. \A d \in Callers : sender'[d].row = IF d = c THEN s.row ELSE sender[d].row
      BY <1>5
    <3>2. s.row \in {r, Nil}
      BY <1>1, <1>4
    <3> QED BY <1>6, <3>1, <3>2 DEF NotifyInv, SendersOwn
  <2> QED BY <2>1, <2>2, <2>3 DEF SendersOwn
<1>14. ReportsTrue'
  <2>1. tgWorker.msg # Nil => tgWorker.msg.row # r
    BY <1>6 DEF Rowed, Going
  <2> QED BY <1>1, <1>2, <2>1 DEF NotifyInv, ReportsTrue
<1>15. LogRight'
  <2>1. ASSUME mishaps' = 0, NEW q \in LogRows, alog'[q].status = "queued"
        PROVE  Rowed(q)' \/ \E d \in Callers : sender'[d].row = q
    <3>1. CASE q = r
      BY <1>1, <1>3, <1>4, <1>5, <2>1, <3>1
    <3>2. CASE q # r
      <4>1. Rowed(q) \/ \E d \in Callers : sender[d].row = q
        BY <1>1, <1>5, <2>1, <3>2 DEF NotifyInv, LogRight
      <4>2. ASSUME NEW d \in Callers, sender[d].row = q
            PROVE  sender'[d].row = q
        BY <1>1, <1>5, <4>2
      <4> QED BY <1>9, <4>1, <4>2
    <3> QED BY <3>1, <3>2
  <2>2. ASSUME NEW q \in LogRows
        PROVE  /\ alog'[q].status = "sent" => q \in tgSent'
               /\ alog'[q].status \in {"dropped", "digested"} => q \notin tgSent'
    BY <1>1, <1>2, <1>3, <1>5 DEF NotifyInv, LogRight
  <2> QED BY <2>1, <2>2 DEF LogRight
<1> QED BY <1>7, <1>10, <1>11, <1>12, <1>13, <1>14, <1>15 DEF NotifyInv

(* A row of the log that is settled, and gives up what owned it.             *)
LEMMA DropAlertOK ==
  ASSUME NotifyInv, NEW c \in Callers, DropAlert(c)
  PROVE  NotifyInv'
<1> USE SpreadHolds DEF Spread
<1>0. /\ NotifyTypeOK /\ sender[c] \in SendRec /\ sender \in [Callers -> SendRec] /\ mishaps \in Nat
      /\ alog \in [LogRows -> LineRec]
  BY NotifyNow DEF NotifyInv
<1>1. PICK r \in LogRows : r = sender[c].row
  BY <1>0 DEF DropAlert, NotifyInv, SendersOwn
<1>2. /\ ~Rowed(r) /\ r \notin tgSent /\ \A d \in Callers \ {c} : sender[d].row # r
  BY <1>1 DEF NotifyInv, SendersOwn
<1>3. /\ UNCHANGED <<tgQueue, tgKeys, tgWorker, tgSent, hourly, held, outbox, drained, offered, mishaps>>
      /\ alog' = [alog EXCEPT ![r].status = "dropped"] /\ sender' = [sender EXCEPT ![c] = Asleep]
  BY <1>1 DEF DropAlert, tg, ob
<1>4. /\ Asleep \in SendRec /\ Asleep.pc = "idle" /\ Asleep.alert = Nil /\ Asleep.row = Nil
  BY DEF Asleep, SendRec
<1>5. /\ alog'[r].status = "dropped" /\ \A q \in LogRows \ {r} : alog'[q] = alog[q]
      /\ alog' \in [LogRows -> LineRec]
  BY <1>0, <1>3 DEF LineRec
<1>6. /\ sender'[c] = Asleep /\ \A d \in Callers \ {c} : sender'[d] = sender[d]
      /\ sender' \in [Callers -> SendRec]
  BY <1>0, <1>3, <1>4
<1>7. Going' = Going /\ \A q \in LogRows : Rowed(q)' <=> Rowed(q)
  BY <1>3 DEF Going, Rowed
<1>8. NotifyTypeOK'
  BY <1>0, <1>3, <1>5, <1>6 DEF NotifyTypeOK, SendRec, LineRec
<1>9. MessagesStand'
  <2>1. ASSUME NEW m \in Going
        PROVE  Stands(m)'
    <3>1. m.row # r
      BY <1>2 DEF Rowed
    <3> QED BY <1>5, <3>1 DEF NotifyInv, MessagesStand, Stands
  <2> QED BY <1>7, <2>1 DEF MessagesStand
<1>10. OneEach' /\ OfferedFirst' /\ ReportsTrue'
  BY <1>3 DEF NotifyInv, OneEach, OfferedFirst, SettledWasOffered, ReportsTrue
<1> HIDE DEF Asleep
<1>11. SendersKnow'
  BY <1>3, <1>4, <1>6, <1>7 DEF NotifyInv, SendersKnow, Flies, Known
<1>12. SendersOwn'
  <2>1. ASSUME NEW d \in Callers, NEW q \in LogRows, sender'[d].row = q
        PROVE  ~Rowed(q)' /\ q \notin tgSent' /\ alog'[q].status = "queued" /\ alog'[q].alert = sender'[d].alert
    <3>1. d # c /\ sender'[d] = sender[d] /\ q # r
      BY <1>2, <1>4, <1>6, <2>1
    <3>2. ~Rowed(q) /\ q \notin tgSent /\ alog[q].status = "queued" /\ alog[q].alert = sender[d].alert
      BY <2>1, <3>1 DEF NotifyInv, SendersOwn
    <3> QED BY <1>3, <1>5, <1>7, <3>1, <3>2
  <2> QED BY <1>4, <1>6, <2>1 DEF NotifyInv, SendersOwn
<1>13. LogRight'
  <2>1. ASSUME mishaps' = 0, NEW q \in LogRows, alog'[q].status = "queued"
        PROVE  Rowed(q)' \/ \E d \in Callers : sender'[d].row = q
    <3>1. q # r /\ (Rowed(q) \/ \E d \in Callers : sender[d].row = q)
      BY <1>3, <1>5, <2>1 DEF NotifyInv, LogRight
    <3>2. ASSUME NEW d \in Callers, sender[d].row = q
          PROVE  sender'[d].row = q
      BY <1>1, <1>6, <3>1, <3>2
    <3> QED BY <1>7, <3>1, <3>2
  <2>2. ASSUME NEW q \in LogRows
        PROVE  /\ alog'[q].status = "sent" => q \in tgSent'
               /\ alog'[q].status \in {"dropped", "digested"} => q \notin tgSent'
    BY <1>2, <1>3, <1>5 DEF NotifyInv, LogRight
  <2> QED BY <2>1, <2>2 DEF LogRight
<1> QED BY <1>8, <1>9, <1>10, <1>11, <1>12, <1>13 DEF NotifyInv

(* The worker takes the next message. *)
LEMMA TakeMsgOK ==
  ASSUME NotifyInv, TakeMsg
  PROVE  NotifyInv'
<1> USE SpreadHolds DEF Spread
<1>0. /\ NotifyTypeOK /\ tgQueue \in Seq(Msgs) /\ Len(tgQueue) \in Nat /\ Len(tgQueue) <= MaxQueue
      /\ \A i \in 1 .. Len(tgQueue) : tgQueue[i] \in Msgs /\ tgQueue[i] # Nil
  BY NotifyNow DEF NotifyInv
<1>1. /\ tgWorker.msg = Nil /\ tgQueue # <<>> /\ tgWorker' = [Resting EXCEPT !.msg = Head(tgQueue)]
      /\ tgQueue' = Tail(tgQueue)
      /\ UNCHANGED <<tgKeys, tgSent, alog, hourly, held, sender, outbox, drained, offered, mishaps>>
  BY DEF TakeMsg, ob
<1>2. /\ Head(tgQueue) = tgQueue[1] /\ tgQueue' \in Seq(Msgs) /\ Len(tgQueue') = Len(tgQueue) - 1
      /\ Len(tgQueue) >= 1 /\ \A i \in 1 .. Len(tgQueue') : tgQueue'[i] = tgQueue[i + 1]
  BY <1>0, <1>1, HeadTailProperties, EmptySeq
<1>3. tgWorker' \in WorkRec /\ tgWorker'.msg = tgQueue[1] /\ tgWorker'.res = "none" /\ tgWorker'.msg # Nil
  BY <1>0, <1>1, <1>2 DEF Resting, WorkRec
<1>4. NotifyTypeOK'
  <2>1. Len(tgQueue') <= MaxQueue
    BY <1>0, <1>2
  <2> QED BY <1>0, <1>1, <1>2, <1>3, <2>1 DEF NotifyTypeOK, WorkRec
<1>5. \A i \in 1 .. Len(tgQueue') : i + 1 \in 1 .. Len(tgQueue) /\ i + 1 # 1
  BY <1>0, <1>2
<1>6. Going' = Going
  <2>1. Going = {tgQueue[i] : i \in 1 .. Len(tgQueue)}
    BY <1>1 DEF Going
  <2>2. Going' = {tgQueue'[i] : i \in 1 .. Len(tgQueue')} \cup {tgQueue[1]}
    BY <1>3 DEF Going
  <2>3. Going' \subseteq Going
    <3>1. 1 \in 1 .. Len(tgQueue)
      BY <1>0, <1>2
    <3>2. ASSUME NEW i \in 1 .. Len(tgQueue')
          PROVE  tgQueue'[i] \in {tgQueue[j] : j \in 1 .. Len(tgQueue)}
      BY <1>2, <1>5
    <3> QED BY <2>1, <2>2, <3>1, <3>2
  <2>4. ASSUME NEW i \in 1 .. Len(tgQueue)
        PROVE  tgQueue[i] \in Going'
    <3>1. CASE i = 1
      BY <2>2, <3>1
    <3>2. CASE i # 1
      <4>1. PICK j \in 1 .. Len(tgQueue') : j = i - 1
        BY <1>0, <1>2, <3>2
      <4>2. j + 1 = i
        BY <4>1
      <4>3. tgQueue'[j] = tgQueue[i]
        BY <1>2, <4>2
      <4> QED BY <2>2, <4>3
    <3> QED BY <3>1, <3>2
  <2> QED BY <2>1, <2>3, <2>4
<1>7. OneEach'
  <2>1. ASSUME NEW i \in 1 .. Len(tgQueue'), NEW j \in 1 .. Len(tgQueue'), tgQueue'[i].key \in Alerts,
               tgQueue'[i].key = tgQueue'[j].key
        PROVE  i = j
    <3>1. i + 1 = j + 1
      BY <1>2, <1>5, <2>1 DEF NotifyInv, OneEach
    <3> QED BY <3>1
  <2>2. ASSUME NEW i \in 1 .. Len(tgQueue'), tgQueue'[i].key \in Alerts
        PROVE  tgQueue'[i].key # tgWorker'.msg.key
    <3>1. 1 \in 1 .. Len(tgQueue)
      BY <1>0, <1>2
    <3> QED BY <1>2, <1>3, <1>5, <2>2, <3>1 DEF NotifyInv, OneEach
  <2> QED BY <2>1, <2>2 DEF OneEach
<1>8. MessagesStand' /\ SendersKnow'
  BY <1>1, <1>6 DEF NotifyInv, MessagesStand, Stands, SendersKnow, Flies, Known
<1>9. SendersOwn' /\ LogRight'
  BY <1>1, <1>6 DEF NotifyInv, SendersOwn, LogRight, Rowed
<1>10. ReportsTrue' /\ OfferedFirst'
  BY <1>1, <1>3 DEF NotifyInv, ReportsTrue, OfferedFirst, SettledWasOffered
<1> QED BY <1>4, <1>7, <1>8, <1>9, <1>10 DEF NotifyInv

(* One try: Telegram takes it or not, and the worker learns of it or not. *)
LEMMA TrySendOK ==
  ASSUME NotifyInv, TrySend
  PROVE  NotifyInv'
<1> USE SpreadHolds DEF Spread
<1>0. NotifyTypeOK /\ tgWorker \in WorkRec
  BY NotifyNow DEF NotifyInv
<1>1. PICK took \in BOOLEAN, told \in BOOLEAN :
        /\ told => took
        /\ tgSent' = IF took THEN (tgSent \cup {tgWorker.msg.row}) \ {Nil} ELSE tgSent
        /\ tgWorker' =
             IF told THEN [tgWorker EXCEPT !.res = "sent"]
             ELSE IF LastTry THEN [tgWorker EXCEPT !.res = "failed"]
             ELSE [tgWorker EXCEPT !.tries = (@ + 1) % (MaxRetries + 1)]
  BY DEF TrySend
<1>2. /\ tgWorker.msg # Nil /\ tgWorker.res = "none"
      /\ UNCHANGED <<tgQueue, tgKeys, alog, hourly, held, sender, outbox, drained, offered, mishaps>>
  BY DEF TrySend, ob
<1>3. (tgWorker.tries + 1) % (MaxRetries + 1) \in 0 .. MaxRetries
  BY <1>0 DEF WorkRec
<1>4. /\ tgWorker' \in WorkRec /\ tgWorker'.msg = tgWorker.msg
      /\ tgWorker'.res = "sent" => told
  BY <1>0, <1>1, <1>2, <1>3 DEF WorkRec
<1>5. tgWorker.msg \in Going /\ tgWorker.msg \in Msgs /\ Stands(tgWorker.msg)
  BY <1>0, <1>2 DEF Going, WorkRec, NotifyInv, MessagesStand
<1>6. tgSent \subseteq LogRows /\ tgSent \subseteq tgSent' /\ tgSent' \subseteq LogRows
  BY <1>0, <1>1, <1>5 DEF NotifyTypeOK, Msgs
<1>7. NotifyTypeOK'
  BY <1>0, <1>2, <1>4, <1>6 DEF NotifyTypeOK, WorkRec
<1>8. Going' = Going
  BY <1>2, <1>4 DEF Going
<1>9. MessagesStand' /\ SendersKnow' /\ OneEach'
  BY <1>2, <1>4, <1>8 DEF NotifyInv, MessagesStand, Stands, SendersKnow, Flies, Known, OneEach
<1>10. \A r \in LogRows : r \in tgSent' =>
         r \in tgSent \/ (Rowed(r) /\ alog[r].status = "queued")
  BY <1>1, <1>5 DEF Rowed, Stands
<1>11. SendersOwn'
  BY <1>2, <1>8, <1>10 DEF NotifyInv, SendersOwn, Rowed
<1>12. LogRight'
  BY <1>2, <1>6, <1>8, <1>10 DEF NotifyInv, LogRight, Rowed
<1>13. ReportsTrue'
  BY <1>1, <1>2, <1>4 DEF ReportsTrue
<1>14. OfferedFirst'
  BY <1>2 DEF NotifyInv, OfferedFirst, SettledWasOffered
<1> QED BY <1>7, <1>9, <1>11, <1>12, <1>13, <1>14 DEF NotifyInv

(* The worker tells the log what became of its message, or fails to. *)
LEMMA ReportBackOK ==
  ASSUME NotifyInv, ReportBack
  PROVE  NotifyInv'
<1> USE SpreadHolds DEF Spread
<1>0. NotifyTypeOK /\ tgWorker \in WorkRec /\ alog \in [LogRows -> LineRec] /\ mishaps \in Nat
  BY NotifyNow DEF NotifyInv
<1>. PICK w : w = tgWorker.msg
  OBVIOUS
<1>1. /\ tgWorker.res \in {"sent", "failed"} /\ w # Nil /\ tgWorker' = Resting
      /\ UNCHANGED <<tgQueue, tgKeys, tgSent, hourly, held, sender, outbox, drained, offered>>
  BY <1>0 DEF ReportBack, ob, WorkRec, NotifyInv, ReportsTrue
<1>2. /\ mishaps' \in 0 .. MaxMishaps /\ mishaps <= mishaps'
      /\ mishaps' # mishaps => mishaps' # 0 /\ alog' = alog
      /\ mishaps' = mishaps => \/ w.row = Nil /\ alog' = alog
                               \/ alog' = [alog EXCEPT ![w.row].status = tgWorker.res]
  BY <1>0 DEF ReportBack, Reported, NotifyTypeOK
<1>3. w \in Going /\ w \in Msgs /\ Stands(w)
  BY <1>0, <1>1 DEF Going, NotifyInv, MessagesStand, WorkRec
<1>4. \A r \in LogRows : IF r = w.row /\ mishaps' = mishaps
                         THEN alog'[r] = [alog[r] EXCEPT !.status = tgWorker.res]
                         ELSE alog'[r] = alog[r]
  BY <1>0, <1>2
<1>5. alog' \in [LogRows -> LineRec]
  <2>1. CASE alog' = alog
    BY <1>0, <2>1
  <2>2. CASE alog' = [alog EXCEPT ![w.row].status = tgWorker.res]
    BY <1>0, <1>1, <2>2 DEF LineRec
  <2> QED BY <1>2, <2>1, <2>2
<1>6. Resting \in WorkRec /\ Resting.msg = Nil /\ Resting.res = "none"
  BY DEF Resting, WorkRec
<1>7. NotifyTypeOK'
  <2>1. tgWorker' \in WorkRec
    BY <1>1, <1>6
  <2> QED BY <1>0, <1>1, <1>2, <1>5, <2>1 DEF NotifyTypeOK, WorkRec, LineRec
<1> HIDE DEF Resting
<1>8. Going' \subseteq Going
  BY <1>1, <1>6 DEF Going
<1>9. Going \subseteq Going' \cup {w}
  BY <1>1, <1>6 DEF Going
<1>10. ASSUME NEW m \in Going', m.key \in Alerts
       PROVE  m.row # w.row
  <2>1. PICK i \in 1 .. Len(tgQueue) : m = tgQueue[i]
    BY <1>1, <1>6, <1>10 DEF Going
  <2>2. m.key # w.key /\ Stands(m)
    BY <1>1, <1>8, <1>10, <2>1 DEF NotifyInv, OneEach, MessagesStand
  <2> QED BY <1>3, <1>10, <2>2 DEF Stands
<1>11. MessagesStand'
  <2>1. ASSUME NEW m \in Going'
        PROVE  Stands(m)'
    <3>1. CASE m.key \in Alerts
      BY <1>4, <1>8, <1>10, <2>1, <3>1 DEF NotifyInv, MessagesStand, Stands
    <3>2. CASE m.key \notin Alerts
      BY <1>8, <2>1, <3>2 DEF NotifyInv, MessagesStand, Stands
    <3> QED BY <3>1, <3>2
  <2> QED BY <2>1 DEF MessagesStand
<1>12. OneEach' /\ ReportsTrue'
  BY <1>1, <1>6 DEF NotifyInv, OneEach, ReportsTrue
<1>13. SendersKnow'
  BY <1>1, <1>8 DEF NotifyInv, SendersKnow, Flies, Known
<1>14. SendersOwn'
  <2>1. ASSUME NEW d \in Callers, NEW q \in LogRows, sender'[d].row = q
        PROVE  ~Rowed(q)' /\ q \notin tgSent' /\ alog'[q].status = "queued" /\ alog'[q].alert = sender'[d].alert
    <3>1. ~Rowed(q) /\ q \notin tgSent /\ alog[q].status = "queued" /\ alog[q].alert = sender[d].alert
      BY <1>1, <2>1 DEF NotifyInv, SendersOwn
    <3>2. q # w.row
      BY <1>3, <3>1 DEF Rowed
    <3> QED BY <1>1, <1>4, <1>8, <3>1, <3>2 DEF Rowed
  <2> QED BY <1>1, <2>1 DEF NotifyInv, SendersOwn
<1>15. LogRight'
  <2>1. ASSUME mishaps' = 0, NEW q \in LogRows, alog'[q].status = "queued"
        PROVE  Rowed(q)' \/ \E d \in Callers : sender'[d].row = q
    <3>1. mishaps = 0 /\ mishaps' = mishaps
      BY <1>0, <1>2, <2>1
    <3>2. q # w.row
      <4>1. alog[q] \in LineRec
        BY <1>0
      <4> QED BY <1>1, <1>4, <2>1, <3>1, <4>1 DEF LineRec
    <3>3. Rowed(q) \/ \E d \in Callers : sender[d].row = q
      BY <1>4, <2>1, <3>1, <3>2 DEF NotifyInv, LogRight
    <3> QED BY <1>1, <1>9, <3>2, <3>3 DEF Rowed
  <2>2. ASSUME NEW q \in LogRows
        PROVE  /\ alog'[q].status = "sent" => q \in tgSent'
               /\ alog'[q].status \in {"dropped", "digested"} => q \notin tgSent'
    <3>1. alog[q] \in LineRec
      BY <1>0
    <3>2. CASE q = w.row /\ mishaps' = mishaps
      <4>1. alog'[q].status = tgWorker.res
        BY <1>4, <3>1, <3>2 DEF LineRec
      <4> QED BY <1>1, <3>2, <4>1 DEF NotifyInv, ReportsTrue
    <3>3. CASE ~(q = w.row /\ mishaps' = mishaps)
      BY <1>1, <1>4, <3>3 DEF NotifyInv, LogRight
    <3> QED BY <3>2, <3>3
  <2> QED BY <2>1, <2>2 DEF LogRight
<1>16. OfferedFirst'
  BY <1>1 DEF NotifyInv, OfferedFirst, SettledWasOffered
<1> QED BY <1>7, <1>11, <1>12, <1>13, <1>14, <1>15, <1>16 DEF NotifyInv

(* A restart: what only memory held is gone. *)
LEMMA RestartOK ==
  ASSUME NotifyInv, Restart
  PROVE  NotifyInv'
<1> USE SpreadHolds DEF Spread
<1>0. NotifyTypeOK /\ mishaps \in Nat
  BY NotifyNow DEF NotifyInv
<1>1. /\ mishaps' \in 0 .. MaxMishaps /\ mishaps' # 0
      /\ tgQueue' = <<>> /\ tgWorker' = Resting
      /\ tgKeys' = [k \in Alerts \cup OutRows |-> Nil]
      /\ hourly' = NoSends /\ held' = FALSE
      /\ sender' = [c \in Callers |-> Asleep]
      /\ drained' = {}
      /\ UNCHANGED <<alog, outbox, tgSent, offered>>
  BY <1>0 DEF Restart
<1>2. Resting \in WorkRec /\ Resting.msg = Nil /\ Resting.res = "none"
  BY DEF Resting, WorkRec
<1>3. Asleep \in SendRec /\ Asleep.pc = "idle" /\ Asleep.row = Nil
  BY DEF Asleep, SendRec
<1>4. NoSends \in [alerts : Nat, digests : 0 .. HourlyLimit]
  BY DEF NoSends
<1> HIDE DEF Resting, Asleep, NoSends
<1>5. tgQueue' \in Seq(Msgs) /\ Len(tgQueue') = 0
  BY <1>1, EmptySeq
<1>6. NotifyTypeOK'
  <2>1. tgWorker' \in WorkRec /\ sender' \in [Callers -> SendRec]
    BY <1>1, <1>2, <1>3
  <2>2. Len(tgQueue') <= MaxQueue
    BY <1>5
  <2>3. hourly' \in [alerts : Nat, digests : 0 .. HourlyLimit] /\ held' \in BOOLEAN
    BY <1>1, <1>4
  <2>4. tgKeys' \in [Alerts \cup OutRows -> {Nil} \cup 0 .. KeyWindow] /\ drained' \subseteq OutRows
    BY <1>1
  <2> QED BY <1>0, <1>1, <1>5, <2>1, <2>2, <2>3, <2>4 DEF NotifyTypeOK, WorkRec, SendRec
<1>7. Going' = {}
  BY <1>1, <1>2, <1>5 DEF Going
<1>8. MessagesStand' /\ OneEach' /\ SendersKnow'
  BY <1>1, <1>2, <1>5, <1>7 DEF MessagesStand, OneEach, SendersKnow, Flies
<1>9. SendersOwn'
  BY <1>1, <1>3 DEF SendersOwn
<1>10. ReportsTrue' /\ LogRight' /\ OfferedFirst'
  BY <1>1, <1>2 DEF NotifyInv, ReportsTrue, LogRight, OfferedFirst, SettledWasOffered
<1> QED BY <1>6, <1>8, <1>9, <1>10 DEF NotifyInv

(* Time: keys and rows of the log get old, but no row whose message is still *)
(* on its way; no call is under way.                                         *)
LEMMA NotifyTickOK ==
  ASSUME NotifyInv, Tick
  PROVE  NotifyInv'
<1> USE SpreadHolds DEF Spread
<1> DEFINE gone(r) == alog[r].age + 1 >= LogWindow
<1>0. /\ NotifyTypeOK /\ alog \in [LogRows -> LineRec]
  BY NotifyNow DEF NotifyInv
<1>1. /\ \A c \in Callers : sender[c] = Asleep
      /\ drained = {} /\ UNCHANGED <<tgQueue, tgWorker, held, sender, outbox, drained, offered, mishaps>>
      /\ tgKeys' = [k \in DOMAIN tgKeys |->
           IF tgKeys[k] = Nil \/ tgKeys[k] = KeyWindow THEN Nil ELSE tgKeys[k] + 1]
      /\ alog' = [r \in LogRows |-> IF alog[r] = NoLine \/ gone(r) THEN NoLine
                                    ELSE [alog[r] EXCEPT !.age = @ + 1]]
      /\ tgSent' = {r \in tgSent : ~gone(r)}
      /\ hourly' \in [alerts : 0 .. hourly.alerts, digests : 0 .. hourly.digests]
  BY DEF Tick, ob
<1>2. \A r \in LogRows : Rowed(r) => ~gone(r)
  BY <1>0, RowedIs DEF Tick
<1>3. Asleep.pc = "idle" /\ Asleep.row = Nil
  BY DEF Asleep
<1>4. /\ NoLine \in LineRec /\ NoLine.status = "none" /\ NoLine.alert = Nil
  BY DEF NoLine, LineRec
<1>5. ASSUME NEW r \in LogRows
      PROVE  /\ alog'[r] \in LineRec
             /\ \/ alog'[r].status = "none"
                \/ ~gone(r) /\ alog'[r].status = alog[r].status /\ alog'[r].alert = alog[r].alert
             /\ alog[r].status # "none" /\ ~gone(r) => alog'[r].status = alog[r].status /\ alog'[r].alert = alog[r].alert
  <2>1. alog[r] \in LineRec
    BY <1>0
  <2>2. CASE alog[r] = NoLine \/ gone(r)
    BY <1>1, <1>4, <2>2
  <2>3. CASE ~(alog[r] = NoLine \/ gone(r))
    <3>1. alog'[r] = [alog[r] EXCEPT !.age = @ + 1]
      BY <1>1, <2>3
    <3>2. alog[r].age + 1 \in 0 .. LogWindow
      BY <2>1, <2>3 DEF LineRec
    <3> QED BY <2>1, <2>3, <3>1, <3>2 DEF LineRec
  <2> QED BY <2>2, <2>3
<1> HIDE DEF gone
<1>6. NotifyTypeOK'
  <2>1. alog' \in [LogRows -> LineRec]
    BY <1>1, <1>5
  <2>2. tgKeys' \in [Alerts \cup OutRows -> {Nil} \cup 0 .. KeyWindow]
    <3>1. tgKeys \in [Alerts \cup OutRows -> {Nil} \cup 0 .. KeyWindow]
      BY <1>0 DEF NotifyTypeOK
    <3>2. ASSUME NEW k \in Alerts \cup OutRows
          PROVE  (IF tgKeys[k] = Nil \/ tgKeys[k] = KeyWindow THEN Nil ELSE tgKeys[k] + 1) \in {Nil} \cup 0 .. KeyWindow
      <4>1. tgKeys[k] \in {Nil} \cup 0 .. KeyWindow
        BY <3>1
      <4> QED BY <4>1
    <3> QED BY <1>1, <3>1, <3>2
  <2>3. hourly' \in [alerts : Nat, digests : 0 .. HourlyLimit]
    <3>1. hourly \in [alerts : Nat, digests : 0 .. HourlyLimit]
      BY <1>0 DEF NotifyTypeOK
    <3> QED BY <1>1, <3>1
  <2>4. tgSent' \subseteq LogRows
    BY <1>0, <1>1 DEF NotifyTypeOK
  <2> QED BY <1>0, <1>1, <2>1, <2>2, <2>3, <2>4 DEF NotifyTypeOK, LineRec
<1>7. Going' = Going
  BY <1>1 DEF Going
<1>8. MessagesStand'
  <2>1. ASSUME NEW m \in Going
        PROVE  Stands(m)'
    <3>1. Stands(m)
      BY DEF NotifyInv, MessagesStand
    <3>2. CASE m.key \in Alerts
      <4>1. m.row \in LogRows /\ ~gone(m.row)
        BY <1>2, <3>1, <3>2 DEF Stands, Rowed
      <4> QED BY <1>5, <3>1, <3>2, <4>1 DEF Stands
    <3>3. CASE m.key \notin Alerts
      BY <3>1, <3>3 DEF Stands
    <3> QED BY <3>2, <3>3
  <2> QED BY <1>7, <2>1 DEF MessagesStand
<1>9. OneEach' /\ OfferedFirst'
  BY <1>1 DEF NotifyInv, OneEach, OfferedFirst, SettledWasOffered
<1>10. SendersKnow' /\ SendersOwn'
  BY <1>1, <1>3 DEF SendersKnow, SendersOwn
<1>11. ReportsTrue'
  <2>1. ASSUME tgWorker.res = "sent", tgWorker.msg.row # Nil
        PROVE  tgWorker.msg.row \in tgSent'
    <3>1. tgWorker.msg # Nil /\ tgWorker.msg.row \in tgSent
      BY <2>1 DEF NotifyInv, ReportsTrue
    <3>2. Rowed(tgWorker.msg.row) /\ tgWorker.msg.row \in LogRows
      BY <1>0, <3>1 DEF Rowed, Going, NotifyTypeOK
    <3> QED BY <1>1, <1>2, <3>1, <3>2
  <2> QED BY <1>1, <2>1 DEF NotifyInv, ReportsTrue
<1>12. LogRight'
  <2>1. ASSUME mishaps' = 0, NEW q \in LogRows, alog'[q].status = "queued"
        PROVE  Rowed(q)' \/ \E d \in Callers : sender'[d].row = q
    <3>1. alog[q].status = "queued"
      BY <1>5, <2>1
    <3> QED BY <1>1, <1>7, <2>1, <3>1 DEF NotifyInv, LogRight, Rowed
  <2>2. ASSUME NEW q \in LogRows
        PROVE  /\ alog'[q].status = "sent" => q \in tgSent'
               /\ alog'[q].status \in {"dropped", "digested"} => q \notin tgSent'
    BY <1>1, <1>5 DEF NotifyInv, LogRight
  <2> QED BY <2>1, <2>2 DEF LogRight
<1> QED BY <1>6, <1>8, <1>9, <1>10, <1>11, <1>12 DEF NotifyInv

(* Every step keeps the invariant. *)
LEMMA NotifyStep == NotifyInv /\ [NotifyNext]_notifyVars => NotifyInv'
<1> SUFFICES ASSUME NotifyInv, [NotifyNext]_notifyVars PROVE NotifyInv'
  OBVIOUS
<1>1. CASE UNCHANGED notifyVars
  <2>1. NotifyTypeOK' /\ OfferedFirst' /\ mishaps <= mishaps' /\ UNCHANGED <<tg, alog, sender>>
    <3>1. mishaps \in Nat
      BY NotifyNow DEF NotifyInv
    <3> QED BY <1>1, <3>1 DEF notifyVars, tg, NotifyInv, NotifyTypeOK, OfferedFirst, SettledWasOffered
  <2> QED BY <2>1, ObStepOK
<1>2. CASE NotifyNext
  BY <1>2, RouterAskOK, LogAlertOK, SendAlertOK, DropAlertOK, OutboxOK, FlushAndDrainOK, TakeMsgOK, TrySendOK,
     ReportBackOK, RestartOK, NotifyTickOK DEF NotifyNext
<1> QED BY <1>1, <1>2

(* One message of an alert at a time: counted, no more than one. *)
LEMMA OneCopyCounted == NotifyInv => OneCopyUnderway
<1> SUFFICES ASSUME NotifyInv, NEW a \in Alerts
             PROVE  Cardinality({i \in 1 .. Len(tgQueue) : tgQueue[i].key = a})
                      + (IF tgWorker.msg # Nil /\ tgWorker.msg.key = a THEN 1 ELSE 0) <= 1
  BY DEF OneCopyUnderway
<1> DEFINE at == {i \in 1 .. Len(tgQueue) : tgQueue[i].key = a}
<1>1. CASE at = {}
  <2>1. Cardinality(at) = 0
    BY <1>1, FS_EmptySet
  <2> QED BY <2>1
<1>2. CASE at # {}
  <2>1. PICK i \in at : TRUE
    BY <1>2
  <2>2. at = {i}
    BY <2>1 DEF NotifyInv, OneEach
  <2>3. Cardinality(at) = 1
    BY <2>2, FS_Singleton
  <2>4. ~(tgWorker.msg # Nil /\ tgWorker.msg.key = a)
    BY <2>1 DEF NotifyInv, OneEach
  <2> QED BY <2>3, <2>4
<1> QED BY <1>1, <1>2

(* The invariant says that what the log and the outbox tell is so. *)
LEMMA NotifyInvSays == NotifyInv => MessagesAccounted
<1> SUFFICES ASSUME NotifyInv PROVE SettledIsTrue
  BY OneCopyCounted DEF MessagesAccounted
<1>1. \A r \in LogRows : Underway(r) <=> Rowed(r)
  BY RowedIs DEF NotifyInv
<1>2. \A r \in LogRows : Rowed(r) => alog[r].status = "queued"
  BY SpreadHolds DEF NotifyInv, MessagesStand, Stands, Rowed, Spread
<1>3. LogTellsTruth
  BY <1>1, <1>2 DEF LogTellsTruth, NotifyInv, LogRight
<1>4. QueuedIsUnderway
  BY <1>1 DEF QueuedIsUnderway, NotifyInv, LogRight
<1> QED BY <1>3, <1>4 DEF SettledIsTrue, NotifyInv, OfferedFirst

(* The alert path keeps its types, for any alerts, calls, rows, windows,     *)
(* limits and faults.                                                        *)
THEOREM NotifyTyped == NotifySpec => []NotifyTypeOK
<1>1. NotifyInv => NotifyTypeOK
  BY DEF NotifyInv
<1> QED BY NotifyInitOK, NotifyStep, <1>1, PTL DEF NotifySpec

(* One message of an alert at a time, and what the log and the outbox say of  *)
(* it is so (gateway.py, telegram_queue.py, strat_outbox.py): for any alerts, *)
(* calls, rows, windows, limits and faults.                                   *)
THEOREM MessagesAreAccounted == NotifySpec => []MessagesAccounted
<1>1. NotifyInit => NotifyInv
  BY NotifyInitOK
<1> QED BY <1>1, NotifyStep, NotifyInvSays, PTL DEF NotifySpec

(*****************************************************************************)
(* The paper copies and the trader tracker they follow.                      *)
(*****************************************************************************)

(* What the tick works on fits the two looks it came from: a close leads to *)
(* a flat position, anything else to one on the event's side.               *)
TickFits ==
  /\ tick # NoChange => lastLook \in Seen
  /\ tick.at = "record" =>
       IF tick.type = "closed" THEN tick.now = NoHolding /\ lastLook \in Holding
       ELSE tick.now \in Holding
  /\ tick.at \in {"find", "each", "apply"} => tick.event \in leaderEvents
  /\ tick.at \in {"find", "each", "apply"} =>
       IF tick.event.type = "closed" THEN tick.now = NoHolding
       ELSE tick.now \in Holding /\ tick.event.side = tick.now.side

(* What the leader was on at the last look is among the sides since then.   *)
SidesFit ==
  /\ atChain.side \in sidesSince
  /\ (tick = NoChange /\ lastLook # Unseen) => lastLook.side \in sidesSince
  /\ tick # NoChange => tick.now.side \in sidesSince

(* A close that the tick has yet to bring to a subscription. *)
StillToClose(s) ==
  \/ tick.at = "find" /\ ~AlreadyDone(s)
  \/ tick.at \in {"each", "apply"} /\ s \in tick.todo /\ ~AlreadyDone(s)
  \/ tick.at = "apply" /\ s = tick.sub

(* Where the rows stand at every point of a tick. *)
RowsFit ==
  \A s \in PaperSubs \ astray :
    /\ tick = NoChange =>
         paperRow[s].side \in {"none", IF lastLook = Unseen THEN atChain.side ELSE lastLook.side}
    /\ tick.at = "record" /\ tick.type # "closed" => paperRow[s].side \in {"none", tick.now.side}
    /\ tick.at \in {"find", "each", "apply"} =>
         IF tick.event.type = "closed" THEN paperRow[s].side = "none" \/ StillToClose(s)
         ELSE paperRow[s].side \in {"none", tick.now.side}

PaperInv == PaperTypeOK /\ TickFits /\ SidesFit /\ RowsFit

(* A tick at work carries what its stage needs. *)
LEMMA TickShapes ==
  ASSUME NEW t \in Ticks
  PROVE  /\ t.at \in {"idle", "record", "find", "each", "apply"}
         /\ t.at = "idle" <=> t = NoChange
         /\ t.at = "record" => t.now \in Seen /\ t.type \in ChangeTypes
         /\ t.at \in {"find", "each", "apply"} => t.now \in Seen /\ t.event \in PaperEvents
         /\ t.at \in {"each", "apply"} => t.todo \subseteq PaperSubs
         /\ t.at = "apply" => t.sub \in PaperSubs
BY DEF Ticks, NoChange

(* A position is on a side, the absence of one is not. *)
LEMMA Sides ==
  /\ \A h \in Holding : h.side \in LeaderSides /\ h.size \in 1 .. MaxLots /\ h.entry \in Marks
  /\ \A h \in Holding : h # NoHolding /\ h # Unseen
  /\ NoHolding.side = "flat" /\ NoHolding.size = 0 /\ Unseen.side = "unseen" /\ NoHolding # Unseen
  /\ "flat" \notin LeaderSides /\ "none" \notin LeaderSides /\ "unseen" \notin LeaderSides
BY DEF Holding, NoHolding, Unseen, LeaderSides

(* A row is on a side, the absence of one is not. *)
LEMMA Rows ==
  ASSUME PaperTypeOK, NEW s \in PaperSubs
  PROVE  paperRow[s] = NoPaper <=> paperRow[s].side = "none"
BY DEF PaperTypeOK, NoPaper, LeaderSides

(* The first state satisfies the invariant.                                 *)
LEMMA PaperInitOK ==
  ASSUME PaperInit
  PROVE  PaperInv
<1>1. PaperTypeOK
  BY PaperConstants DEF PaperInit, PaperTypeOK, Ticks, Seen, Holding, NoHolding, LeaderSides
<1>2. tick.at = "idle"
  BY DEF PaperInit, NoChange
<1>3. TickFits /\ SidesFit
  BY <1>2 DEF PaperInit, TickFits, SidesFit
<1>4. RowsFit
  BY <1>2 DEF PaperInit, RowsFit, NoPaper
<1> QED BY <1>1, <1>3, <1>4 DEF PaperInv

(* A move of the leader while no tick is at work, or beside one.            *)
LEMMA MovesKeep ==
  ASSUME PaperInv, LeaderMoves
  PROVE  PaperInv'
<1> USE DEF PaperInv
<1>1. PICK next \in Seen : /\ atChain' = next /\ sidesSince' = sidesSince \cup {next.side}
                           /\ astray' = IF lastLook = Unseen THEN astray \cup OffSide(PaperSubs, next.side)
                                        ELSE astray
  BY DEF LeaderMoves
<1>2. UNCHANGED <<lastLook, tick, leaderEvents, copyOrders, paperRow, activeSubs, paperSlips>>
  BY DEF LeaderMoves
<1>3. next.side \in LeaderSides \cup {"flat"}
  BY Sides DEF Seen
<1>4. PaperTypeOK'
  BY <1>1, <1>2, <1>3, PaperConstants DEF PaperTypeOK, OffSide, LeaderMoves
<1>5. TickFits' /\ SidesFit'
  BY <1>1, <1>2 DEF TickFits, SidesFit
<1>6. RowsFit'
  <2> SUFFICES ASSUME NEW s \in PaperSubs \ astray'
               PROVE  /\ tick = NoChange =>
                         paperRow[s].side \in {"none", IF lastLook = Unseen THEN next.side ELSE lastLook.side}
                      /\ tick.at = "record" /\ tick.type # "closed" =>
                           paperRow[s].side \in {"none", tick.now.side}
                      /\ tick.at \in {"find", "each", "apply"} =>
                           IF tick.event.type = "closed" THEN paperRow[s].side = "none" \/ StillToClose(s)
                           ELSE paperRow[s].side \in {"none", tick.now.side}
    BY <1>1, <1>2 DEF RowsFit, StillToClose, AlreadyDone
  <2>1. s \in PaperSubs \ astray /\ (lastLook = Unseen => s \notin OffSide(PaperSubs, next.side))
    BY <1>1
  <2> QED BY <2>1 DEF RowsFit, OffSide
<1> QED BY <1>4, <1>5, <1>6

(* The first look takes the position for the baseline.                      *)
LEMMA FirstLookKeeps ==
  ASSUME PaperInv, NEW failed \in BOOLEAN, FirstLook(failed)
  PROVE  PaperInv'
<1> USE DEF PaperInv
<1>1. /\ tick = NoChange /\ lastLook = Unseen /\ lastLook' = atChain /\ sidesSince' = {atChain.side}
      /\ UNCHANGED <<leadVars, tick, leaderEvents, copyOrders, paperRow, activeSubs, astray, paperSlips>>
  BY DEF FirstLook, CleanRead, PositionsRead
<1>2. atChain.side \in LeaderSides \cup {"flat"} /\ atChain # Unseen
  BY Sides DEF PaperTypeOK, Seen
<1>3. PaperTypeOK'
  BY <1>1, <1>2 DEF PaperTypeOK, leadVars
<1>4. tick.at = "idle"
  BY <1>1 DEF NoChange
<1>5. TickFits' /\ SidesFit'
  BY <1>1, <1>4 DEF TickFits, SidesFit, leadVars
<1>6. RowsFit'
  BY <1>1, <1>2, <1>4 DEF RowsFit, leadVars
<1> QED BY <1>3, <1>5, <1>6

(* What a look finds follows from the two positions; a failed read finds    *)
(* no change.                                                               *)
LEMMA LookFound ==
  ASSUME PaperInv, lastLook # Unseen, NEW now \in Seen
  PROVE  /\ now = lastLook => ChangeTo(now) = "none"
         /\ ChangeTo(now) \in ChangeTypes \cup {"none"}
         /\ ChangeTo(now) = "closed" <=> lastLook \in Holding /\ now = NoHolding
         /\ ChangeTo(now) = "opened" <=> lastLook = NoHolding /\ now \in Holding
         /\ ChangeTo(now) \notin {"none", "closed"} => now \in Holding
         /\ ChangeTo(now) = "none" /\ now = NoHolding => lastLook = NoHolding
         /\ ChangeTo(now) = "none" /\ now # NoHolding => lastLook \in Holding
<1>1. lastLook \in Seen
  BY DEF PaperInv, PaperTypeOK
<1>2. lastLook.size \in Nat /\ now.size \in Nat
  BY <1>1, Sides, PaperConstants DEF Seen
<1>3. /\ lastLook = NoHolding \/ lastLook \in Holding
      /\ now = NoHolding \/ now \in Holding
  BY <1>1 DEF Seen
<1>4. CASE lastLook = NoHolding /\ now = NoHolding
  BY <1>2, <1>4, Sides DEF ChangeTo, ChangeTypes, Closing
<1>5. CASE lastLook = NoHolding /\ now \in Holding
  BY <1>5, Sides DEF ChangeTo, ChangeTypes, Closing
<1>6. CASE lastLook \in Holding /\ now = NoHolding
  BY <1>6, Sides DEF ChangeTo, ChangeTypes, Closing
<1>7. CASE lastLook \in Holding /\ now \in Holding
  <2>1. ChangeTo(now) = IF now.size > lastLook.size THEN "increased"
                        ELSE IF now.size < lastLook.size THEN "reduced" ELSE "none"
    BY <1>2, <1>7, Sides DEF ChangeTo
  <2> QED BY <2>1, <1>2, <1>7, Sides DEF ChangeTypes, Closing
<1> QED BY <1>3, <1>4, <1>5, <1>6, <1>7

(* A later look, and the change it starts a tick's work with.               *)
LEMMA NextLookKeeps ==
  ASSUME PaperInv, NEW failed \in BOOLEAN, NextLook(failed)
  PROVE  PaperInv'
<1> DEFINE now == KeptRead(failed)
           type == ChangeTo(now)
           turned == {now.side, lastLook.side} = LeaderSides
<1>1. /\ tick = NoChange /\ lastLook # Unseen
      /\ UNCHANGED <<leadVars, leaderEvents, copyOrders, paperRow, activeSubs, paperSlips>>
      /\ IF type = "none" THEN lastLook' = now /\ tick' = tick
         ELSE tick' = [at |-> "record", now |-> now, type |-> type] /\ lastLook' = lastLook
      /\ astray' = IF turned THEN astray \cup OffSide(PaperSubs, now.side) ELSE astray
      /\ sidesSince' = IF failed THEN sidesSince ELSE {atChain.side}
  BY DEF NextLook
<1>2. lastLook \in Seen /\ atChain \in Seen /\ now \in Seen /\ lastLook.side \in sidesSince
  BY <1>1 DEF PaperInv, PaperTypeOK, KeptRead, PositionsRead, SidesFit
<1>3. now.side \in sidesSince' /\ atChain.side \in sidesSince'
  BY <1>1, <1>2 DEF KeptRead, PositionsRead, PaperInv, SidesFit
<1>4. /\ type \in ChangeTypes \cup {"none"}
      /\ type = "closed" <=> lastLook \in Holding /\ now = NoHolding
      /\ type = "opened" <=> lastLook = NoHolding /\ now \in Holding
      /\ type \notin {"none", "closed"} => now \in Holding
      /\ type = "none" /\ now = NoHolding => lastLook = NoHolding
      /\ type = "none" /\ now # NoHolding => lastLook \in Holding
  <2> HIDE DEF now
  <2> QED BY <1>1, <1>2, LookFound
<1> HIDE DEF now, type
<1>5. now # Unseen /\ now.side \in LeaderSides \cup {"flat"} /\ lastLook.side \in LeaderSides \cup {"flat"}
      /\ atChain.side \in LeaderSides \cup {"flat"} /\ tick.at = "idle"
  BY <1>1, <1>2, Sides DEF Seen, NoChange
<1>6. type # "none" => /\ tick'.at = "record" /\ tick'.now = now /\ tick'.type = type
                       /\ tick' \in Ticks /\ tick' # NoChange
  BY <1>1, <1>2, <1>4 DEF Ticks, NoChange
<1>7. PaperTypeOK'
  BY <1>1, <1>2, <1>4, <1>5, <1>6 DEF PaperInv, PaperTypeOK, OffSide, leadVars
<1>8. TickFits'
  BY <1>1, <1>2, <1>4, <1>5, <1>6 DEF TickFits, Seen
<1>9. SidesFit'
  BY <1>1, <1>3, <1>6 DEF SidesFit, leadVars
<1>10. RowsFit'
  <2> SUFFICES ASSUME NEW s \in PaperSubs \ astray'
               PROVE  /\ tick' = NoChange =>
                         paperRow[s].side \in {"none", IF lastLook' = Unseen THEN atChain.side ELSE lastLook'.side}
                      /\ tick'.at = "record" /\ tick'.type # "closed" =>
                           paperRow[s].side \in {"none", tick'.now.side}
                      /\ tick'.at \notin {"find", "each", "apply"}
    BY <1>1, <1>5, <1>6 DEF RowsFit, leadVars
  <2>1. s \notin astray /\ paperRow[s].side \in {"none", lastLook.side}
    BY <1>1 DEF PaperInv, RowsFit
  <2>2. turned => paperRow[s].side \in {"none", now.side}
    BY <1>1 DEF OffSide
  <2>3. type # "closed" /\ ~turned /\ lastLook.side # now.side => lastLook = NoHolding
    BY <1>2, <1>4, Sides DEF Seen, LeaderSides
  <2>4. type # "closed" => paperRow[s].side \in {"none", now.side}
    <3>1. lastLook = NoHolding => paperRow[s].side = "none"
      BY <2>1, Sides DEF PaperInv, PaperTypeOK, NoPaper
    <3> QED BY <2>1, <2>2, <2>3, <3>1
  <2> QED BY <1>1, <1>5, <1>6, <2>4, <1>4
<1> QED BY <1>7, <1>8, <1>9, <1>10 DEF PaperInv

(* The event recorded is the one seen, whether it is new or was there.      *)
LEMMA RecordKeeps ==
  ASSUME PaperInv, NEW mark \in Marks \cup {NoMark}, RecordEvent(mark)
  PROVE  PaperInv'
<1> DEFINE of == IF tick.type = "closed" THEN lastLook ELSE tick.now
           new == [type |-> tick.type, side |-> of.side, size |-> of.size,
                   price |-> IF tick.type = "opened" THEN tick.now.entry ELSE mark]
<1>1. tick.at = "record" /\ tick \in Ticks /\ leaderEvents \subseteq PaperEvents /\ tick # NoChange
  BY DEF PaperInv, PaperTypeOK, RecordEvent, NoChange
<1>2. tick.now \in Seen /\ tick.type \in ChangeTypes /\ of \in Holding
      /\ (IF tick.type = "closed" THEN tick.now = NoHolding ELSE tick.now \in Holding)
  BY <1>1, TickShapes DEF PaperInv, TickFits
<1>3. new \in PaperEvents
  BY <1>2, Sides DEF PaperEvents, ChangeTypes, Closing
<1>4. /\ tick' = [at |-> "find", now |-> tick.now, event |-> new]
      /\ leaderEvents' = leaderEvents \cup {new}
      /\ astray' = IF new \in leaderEvents THEN astray \cup OffSide(PaperSubs, tick.now.side) ELSE astray
  <2> DEFINE known == {e \in leaderEvents : LeaderEventKey(e) = LeaderEventKey(new)}
  <2>1. \A e \in known : e = new
    BY <1>1, <1>3 DEF LeaderEventKey, PaperEvents
  <2>2. PICK e \in IF known = {} THEN {new} ELSE known :
          tick' = [at |-> "find", now |-> tick.now, event |-> e] /\ leaderEvents' = leaderEvents \cup {e}
    BY DEF RecordEvent
  <2>3. e = new
    BY <2>1, <2>2
  <2> QED BY <2>2, <2>3 DEF RecordEvent
<1>5. UNCHANGED <<leadVars, lastLook, copyOrders, paperRow, activeSubs, sidesSince, paperSlips>>
  BY DEF RecordEvent
<1>6. new.type = tick.type /\ (new.type # "closed" => new.side = tick.now.side)
  OBVIOUS
<1> HIDE DEF new
<1>7. /\ tick'.at = "find" /\ tick'.now = tick.now /\ tick'.event = new
      /\ tick' \in Ticks /\ tick' # NoChange
  BY <1>2, <1>3, <1>4 DEF Ticks, NoChange
<1>8. PaperTypeOK'
  BY <1>3, <1>4, <1>5, <1>7 DEF PaperInv, PaperTypeOK, OffSide, leadVars
<1>9. TickFits' /\ SidesFit'
  BY <1>1, <1>2, <1>4, <1>5, <1>6, <1>7 DEF PaperInv, TickFits, SidesFit, leadVars
<1>10. RowsFit'
  <2> SUFFICES ASSUME NEW s \in PaperSubs \ astray'
               PROVE  IF new.type = "closed" THEN paperRow[s].side = "none" \/ <<new, s>> \notin copyOrders
                      ELSE paperRow[s].side \in {"none", tick.now.side}
    BY <1>5, <1>7 DEF RowsFit, StillToClose, AlreadyDone
  <2>1. s \notin astray /\ (tick.type # "closed" => paperRow[s].side \in {"none", tick.now.side})
    BY <1>1, <1>4 DEF PaperInv, RowsFit
  <2>2. new \in leaderEvents => paperRow[s].side \in {"none", tick.now.side}
    BY <1>4 DEF OffSide
  <2>3. new \notin leaderEvents => <<new, s>> \notin copyOrders
    BY DEF PaperInv, PaperTypeOK
  <2>4. tick.type = "closed" => paperRow[s].side # tick.now.side
    BY <1>2, Sides DEF PaperInv, PaperTypeOK, NoPaper
  <2> QED BY <1>6, <2>1, <2>2, <2>3, <2>4
<1> QED BY <1>8, <1>9, <1>10 DEF PaperInv

(* The subscriptions are found: a paused one stays behind.                  *)
LEMMA FindKeeps ==
  ASSUME PaperInv, FindSubs
  PROVE  PaperInv'
<1>1. /\ tick.at = "find" /\ tick \in Ticks /\ tick # NoChange
      /\ tick' = [at |-> "each", now |-> tick.now, event |-> tick.event, todo |-> activeSubs]
      /\ astray' = astray \cup OffSide(PaperSubs \ activeSubs, tick.now.side)
      /\ UNCHANGED <<leadVars, lastLook, leaderEvents, copyOrders, paperRow, activeSubs,
                     sidesSince, paperSlips>>
  BY DEF FindSubs, PaperInv, PaperTypeOK, NoChange
<1>2. tick.now \in Seen /\ tick.event \in PaperEvents /\ activeSubs \subseteq PaperSubs
  BY <1>1, TickShapes DEF PaperInv, PaperTypeOK
<1>3. /\ tick'.at = "each" /\ tick'.now = tick.now /\ tick'.event = tick.event /\ tick'.todo = activeSubs
      /\ tick' \in Ticks /\ tick' # NoChange
  BY <1>1, <1>2 DEF Ticks, NoChange
<1>4. PaperTypeOK'
  BY <1>1, <1>3 DEF PaperInv, PaperTypeOK, OffSide, leadVars
<1>5. TickFits' /\ SidesFit'
  BY <1>1, <1>3 DEF PaperInv, TickFits, SidesFit, leadVars
<1>6. RowsFit'
  <2> SUFFICES ASSUME NEW s \in PaperSubs \ astray'
               PROVE  IF tick.event.type = "closed"
                      THEN paperRow[s].side = "none" \/ (s \in activeSubs /\ ~AlreadyDone(s))
                      ELSE paperRow[s].side \in {"none", tick.now.side}
    BY <1>1, <1>3 DEF RowsFit, StillToClose, AlreadyDone
  <2>1. /\ s \notin astray
        /\ s \in activeSubs \/ paperRow[s].side \in {"none", tick.now.side}
    BY <1>1 DEF OffSide
  <2>2. IF tick.event.type = "closed" THEN paperRow[s].side = "none" \/ ~AlreadyDone(s)
        ELSE paperRow[s].side \in {"none", tick.now.side}
    BY <1>1, <2>1 DEF PaperInv, RowsFit, StillToClose
  <2>3. tick.event.type = "closed" => paperRow[s].side # tick.now.side
    BY <1>1, Sides DEF PaperInv, PaperTypeOK, TickFits, NoPaper
  <2> QED BY <2>1, <2>2, <2>3
<1> QED BY <1>4, <1>5, <1>6 DEF PaperInv

(* A tick that ends, or gives up an event, moves the snapshot on.           *)
LEMMA EndKeeps ==
  ASSUME PaperInv, tick # NoChange, lastLook' = tick.now, tick' = NoChange,
         UNCHANGED <<leadVars, leaderEvents, copyOrders, paperRow, activeSubs, sidesSince>>,
         paperSlips' \in 0 .. MaxSlips, astray' \subseteq PaperSubs, astray \subseteq astray',
         \A s \in PaperSubs \ astray' : paperRow[s].side \in {"none", tick.now.side}
  PROVE  PaperInv'
<1>1. tick.now \in Seen /\ tick.now # Unseen /\ tick'.at = "idle"
  <2>1. tick.at # "idle" /\ tick \in Ticks
    BY TickShapes DEF PaperInv, PaperTypeOK
  <2> QED BY <2>1, TickShapes, Sides DEF Seen, NoChange
<1>2. PaperTypeOK'
  BY <1>1 DEF PaperInv, PaperTypeOK, Ticks, leadVars
<1>3. TickFits' /\ SidesFit'
  BY <1>1 DEF PaperInv, TickFits, SidesFit, leadVars
<1>4. RowsFit'
  BY <1>1 DEF RowsFit
<1> QED BY <1>2, <1>3, <1>4 DEF PaperInv

(* An event given up leaves behind the rows it would have moved.            *)
LEMMA EventFailsKeeps ==
  ASSUME PaperInv, EventFails
  PROVE  PaperInv'
<1>1. tick # NoChange /\ astray' = astray \cup OffSide(PaperSubs, tick.now.side)
  BY DEF EventFails, NoChange
<1>2. \A s \in PaperSubs \ astray' : paperRow[s].side \in {"none", tick.now.side}
  BY <1>1 DEF OffSide
<1>3. astray' \subseteq PaperSubs /\ astray \subseteq astray' /\ paperSlips' \in 0 .. MaxSlips
  BY <1>1, PaperConstants DEF PaperInv, PaperTypeOK, OffSide, EventFails
<1> QED BY <1>1, <1>2, <1>3, EndKeeps DEF EventFails

(* At the end of a tick nothing is left to do.                              *)
LEMMA EndTickKeeps ==
  ASSUME PaperInv, EndTick
  PROVE  PaperInv'
<1>1. tick # NoChange /\ tick.at = "each" /\ tick.todo = {}
  BY DEF EndTick, NoChange
<1>2. \A s \in PaperSubs \ astray : paperRow[s].side \in {"none", tick.now.side}
  BY <1>1 DEF PaperInv, RowsFit, StillToClose
<1>3. UNCHANGED <<astray, paperSlips>>
  BY DEF EndTick
<1> QED BY <1>1, <1>2, <1>3, EndKeeps DEF EndTick, PaperInv, PaperTypeOK

(* One subscription of an event is done with, its row where the event      *)
(* wants it or left behind.                                                 *)
LEMMA DoneKeeps ==
  ASSUME PaperInv, NEW s \in PaperSubs, tick.at \in {"each", "apply"},
         tick' = WithoutSub(s), tick.at = "apply" => tick.sub = s,
         UNCHANGED <<leadVars, lastLook, leaderEvents, activeSubs, sidesSince>>,
         copyOrders \subseteq copyOrders', copyOrders' \subseteq copyOrders \cup {<<tick.event, s>>},
         copyOrders' \subseteq leaderEvents \X PaperSubs,
         \A r \in PaperSubs \ {s} : paperRow'[r] = paperRow[r] /\ (r \in astray => r \in astray'),
         paperRow' \in [PaperSubs -> [side : LeaderSides, empty : BOOLEAN] \cup {NoPaper}],
         paperSlips' \in 0 .. MaxSlips, astray' \subseteq PaperSubs,
         s \in astray' \/ paperRow'[s].side \in {"none", tick.now.side}
  PROVE  PaperInv'
<1>1. tick \in Ticks /\ tick # NoChange
  BY DEF PaperInv, PaperTypeOK, NoChange
<1>2. tick.now \in Seen /\ tick.event \in PaperEvents /\ tick.todo \subseteq PaperSubs
  BY <1>1, TickShapes
<1>3. /\ tick'.at = "each" /\ tick'.now = tick.now /\ tick'.event = tick.event
      /\ tick'.todo = tick.todo \ {s} /\ tick' \in Ticks /\ tick' # NoChange
  BY <1>2 DEF WithoutSub, Ticks, NoChange
<1>4. PaperTypeOK'
  BY <1>3 DEF PaperInv, PaperTypeOK, leadVars
<1>5. TickFits' /\ SidesFit'
  BY <1>1, <1>3 DEF PaperInv, TickFits, SidesFit, leadVars
<1>6. RowsFit'
  <2> SUFFICES ASSUME NEW r \in PaperSubs \ astray'
               PROVE  IF tick.event.type = "closed"
                      THEN paperRow'[r].side = "none"
                           \/ (r \in tick.todo \ {s} /\ <<tick.event, r>> \notin copyOrders')
                      ELSE paperRow'[r].side \in {"none", tick.now.side}
    BY <1>3 DEF RowsFit, StillToClose, AlreadyDone
  <2>1. CASE r = s
    <3>1. tick.event.type = "closed" => tick.now.side = "flat"
      BY Sides DEF PaperInv, TickFits
    <3>2. paperRow'[s].side # "flat"
      BY Sides DEF NoPaper
    <3> QED BY <2>1, <3>1, <3>2
  <2>2. CASE r # s
    <3>1. r \notin astray /\ paperRow'[r] = paperRow[r]
      BY <2>2
    <3>2. IF tick.event.type = "closed" THEN paperRow[r].side = "none" \/ StillToClose(r)
          ELSE paperRow[r].side \in {"none", tick.now.side}
      BY <3>1 DEF PaperInv, RowsFit
    <3>3. StillToClose(r) => r \in tick.todo /\ <<tick.event, r>> \notin copyOrders'
      BY <2>2 DEF StillToClose, AlreadyDone
    <3> QED BY <2>2, <3>1, <3>2, <3>3
  <2> QED BY <2>1, <2>2
<1> QED BY <1>4, <1>5, <1>6 DEF PaperInv

(* An event done before, or refused by a limit, leaves no row to be closed. *)
LEMMA SkipKeeps ==
  ASSUME PaperInv, NEW s \in PaperSubs, DoneBefore(s) \/ RefuseOrder(s)
  PROVE  PaperInv'
<1>1. /\ tick.at = "each" /\ s \in tick.todo /\ tick \in Ticks /\ tick' = WithoutSub(s)
      /\ UNCHANGED <<leadVars, lastLook, leaderEvents, paperRow, activeSubs, sidesSince, astray,
                     paperSlips>>
  BY DEF DoneBefore, RefuseOrder, PaperInv, PaperTypeOK
<1>2. tick.event.type = "closed" => AlreadyDone(s)
  BY DEF DoneBefore, RefuseOrder, MayRefuse, Closing
<1>3. s \in astray \/ paperRow[s].side \in {"none", tick.now.side}
  BY <1>1, <1>2 DEF PaperInv, RowsFit, StillToClose
<1>4. copyOrders \subseteq copyOrders' /\ copyOrders' \subseteq copyOrders \cup {<<tick.event, s>>}
  BY DEF DoneBefore, RefuseOrder
<1>5. copyOrders' \subseteq leaderEvents \X PaperSubs
  BY <1>1, <1>4 DEF PaperInv, PaperTypeOK, TickFits
<1> QED BY <1>1, <1>3, <1>4, <1>5, DoneKeeps DEF PaperInv, PaperTypeOK

(* The order row goes before the position's: the close is still to come.    *)
LEMMA OrderKeeps ==
  ASSUME PaperInv, NEW s \in PaperSubs, OrderRow(s)
  PROVE  PaperInv'
<1>1. /\ tick.at = "each" /\ s \in tick.todo /\ tick \in Ticks /\ tick # NoChange
      /\ tick' = [at |-> "apply", now |-> tick.now, event |-> tick.event,
                  todo |-> tick.todo \ {s}, sub |-> s]
      /\ copyOrders' = copyOrders \cup {<<tick.event, s>>}
      /\ UNCHANGED <<leadVars, lastLook, leaderEvents, paperRow, activeSubs, sidesSince, astray,
                     paperSlips>>
  BY DEF OrderRow, PaperInv, PaperTypeOK, NoChange
<1>2. tick.now \in Seen /\ tick.event \in PaperEvents /\ tick.todo \subseteq PaperSubs
  BY <1>1, TickShapes
<1>3. /\ tick'.at = "apply" /\ tick'.now = tick.now /\ tick'.event = tick.event
      /\ tick'.todo = tick.todo \ {s} /\ tick'.sub = s /\ tick' \in Ticks /\ tick' # NoChange
  BY <1>1, <1>2 DEF Ticks, NoChange
<1>4. PaperTypeOK'
  BY <1>1, <1>3 DEF PaperInv, PaperTypeOK, TickFits, leadVars
<1>5. TickFits' /\ SidesFit'
  BY <1>1, <1>3 DEF PaperInv, TickFits, SidesFit, leadVars
<1>6. RowsFit'
  <2> SUFFICES ASSUME NEW r \in PaperSubs \ astray
               PROVE  IF tick.event.type = "closed"
                      THEN paperRow[r].side = "none" \/ r = s
                           \/ (r \in tick.todo \ {s} /\ <<tick.event, r>> \notin copyOrders')
                      ELSE paperRow[r].side \in {"none", tick.now.side}
    BY <1>1, <1>3 DEF RowsFit, StillToClose, AlreadyDone
  <2> QED BY <1>1 DEF PaperInv, RowsFit, StillToClose, AlreadyDone
<1> QED BY <1>4, <1>5, <1>6 DEF PaperInv

(* The position's row moves with the leader.                                *)
LEMMA MoveKeeps ==
  ASSUME PaperInv, NEW s \in PaperSubs, MovePaper(s)
  PROVE  PaperInv'
<1> DEFINE after == RowAfter(paperRow[s])
<1>1. /\ tick.at = "apply" /\ s = tick.sub /\ tick \in Ticks
      /\ paperRow' = [paperRow EXCEPT ![s] = after]
      /\ astray' = IF paperRow'[s].side \in {"none", tick.now.side} THEN astray \ {s} ELSE astray
      /\ tick' = [at |-> "each", now |-> tick.now, event |-> tick.event, todo |-> tick.todo]
      /\ UNCHANGED <<leadVars, lastLook, leaderEvents, copyOrders, activeSubs, sidesSince, paperSlips>>
  BY DEF MovePaper, PaperInv, PaperTypeOK
<1>2. /\ tick.event \in PaperEvents /\ paperRow[s] \in [side : LeaderSides, empty : BOOLEAN] \cup {NoPaper}
      /\ tick.todo \subseteq PaperSubs /\ tick.now \in Seen /\ tick # NoChange
  BY <1>1, TickShapes DEF PaperInv, PaperTypeOK, NoChange
<1>3. after \in [side : LeaderSides, empty : BOOLEAN] \cup {NoPaper}
  BY <1>2 DEF RowAfter, PaperEvents, ChangeTypes, Closing
<1>4. s \notin astray => after.side \in {"none", tick.now.side}
  <2>1. CASE tick.event.type = "closed"
    BY <2>1 DEF RowAfter, NoPaper
  <2>2. CASE tick.event.type # "closed"
    <3>1. tick.event.side = tick.now.side
           /\ (s \notin astray => paperRow[s].side \in {"none", tick.now.side})
      BY <1>1, <2>2 DEF PaperInv, TickFits, RowsFit
    <3>2. after.side \in {"none", paperRow[s].side, tick.event.side}
      BY <1>2, <2>2 DEF RowAfter, NoPaper, PaperEvents, ChangeTypes, Closing
    <3> QED BY <3>1, <3>2
  <2> QED BY <2>1, <2>2
<1> HIDE DEF after
<1>5. paperRow'[s] = after /\ \A r \in PaperSubs \ {s} : paperRow'[r] = paperRow[r]
  BY <1>1 DEF PaperInv, PaperTypeOK
<1>6. /\ tick'.at = "each" /\ tick'.now = tick.now /\ tick'.event = tick.event
      /\ tick'.todo = tick.todo /\ tick' \in Ticks /\ tick' # NoChange
  BY <1>1, <1>2 DEF Ticks, NoChange
<1>7. PaperTypeOK'
  BY <1>1, <1>3, <1>6 DEF PaperInv, PaperTypeOK, leadVars
<1>8. TickFits' /\ SidesFit'
  BY <1>1, <1>2, <1>6 DEF PaperInv, TickFits, SidesFit, leadVars
<1>9. RowsFit'
  <2> SUFFICES ASSUME NEW r \in PaperSubs \ astray'
               PROVE  IF tick.event.type = "closed"
                      THEN paperRow'[r].side = "none" \/ (r \in tick.todo /\ ~AlreadyDone(r))
                      ELSE paperRow'[r].side \in {"none", tick.now.side}
    BY <1>1, <1>6 DEF RowsFit, StillToClose, AlreadyDone
  <2>1. CASE r = s
    <3>1. after.side \in {"none", tick.now.side}
      BY <1>1, <1>4, <1>5, <2>1
    <3>2. tick.event.type = "closed" => after.side # tick.now.side
      BY <1>1, <1>3, Sides DEF PaperInv, TickFits, NoPaper
    <3> QED BY <1>5, <2>1, <3>1, <3>2
  <2>2. CASE r # s
    BY <1>1, <1>5, <2>2 DEF PaperInv, RowsFit, StillToClose
  <2> QED BY <2>1, <2>2
<1> QED BY <1>7, <1>8, <1>9 DEF PaperInv

(* A failure for one subscription leaves its row behind.                    *)
LEMMA SubFailsKeeps ==
  ASSUME PaperInv, NEW s \in PaperSubs, SubFails(s)
  PROVE  PaperInv'
<1>1. /\ tick.at \in {"each", "apply"} /\ (tick.at = "apply" => tick.sub = s) /\ tick' = WithoutSub(s)
      /\ astray' = astray \cup OffSide({s}, tick.now.side)
      /\ UNCHANGED <<leadVars, lastLook, leaderEvents, copyOrders, paperRow, activeSubs, sidesSince>>
  BY DEF SubFails
<1>2. s \in astray' \/ paperRow[s].side \in {"none", tick.now.side}
  BY <1>1 DEF OffSide
<1>3. astray' \subseteq PaperSubs /\ paperSlips' \in 0 .. MaxSlips
  BY <1>1, PaperConstants DEF PaperInv, PaperTypeOK, OffSide, SubFails
<1> QED BY <1>1, <1>2, <1>3, DoneKeeps DEF PaperInv, PaperTypeOK

(* A restart leaves behind the rows that were not where the leader is.      *)
LEMMA RestartKeeps ==
  ASSUME PaperInv, RestartTracker
  PROVE  PaperInv'
<1>1. /\ lastLook' = Unseen /\ tick' = NoChange /\ astray' = astray \cup OffSide(PaperSubs, atChain.side)
      /\ UNCHANGED <<leadVars, leaderEvents, copyOrders, paperRow, activeSubs, sidesSince>>
  BY DEF RestartTracker
<1>2. tick'.at = "idle"
  BY <1>1 DEF NoChange
<1>3. PaperTypeOK'
  BY <1>1, PaperConstants DEF PaperInv, PaperTypeOK, OffSide, Ticks, RestartTracker, leadVars
<1>4. TickFits' /\ SidesFit'
  BY <1>1, <1>2 DEF PaperInv, TickFits, SidesFit, leadVars
<1>5. RowsFit'
  BY <1>1, <1>2 DEF RowsFit, OffSide, leadVars
<1> QED BY <1>3, <1>4, <1>5 DEF PaperInv

(* A pause or a resume moves no row.                                        *)
LEMMA RunningKeeps ==
  ASSUME PaperInv, NEW s \in PaperSubs, SetRunning(s)
  PROVE  PaperInv'
<1>1. UNCHANGED <<leadVars, lastLook, tick, leaderEvents, copyOrders, paperRow, sidesSince, astray,
                  paperSlips>>
  BY DEF SetRunning
<1>2. PaperTypeOK'
  BY <1>1 DEF PaperInv, PaperTypeOK, SetRunning, leadVars
<1> QED BY <1>1, <1>2 DEF PaperInv, TickFits, SidesFit, RowsFit, StillToClose, AlreadyDone, leadVars

(* Every step keeps the invariant.                                          *)
LEMMA PaperStep ==
  ASSUME PaperInv, [PaperNext]_paperVars
  PROVE  PaperInv'
<1>1. CASE UNCHANGED paperVars
  BY <1>1 DEF PaperInv, PaperTypeOK, TickFits, SidesFit, RowsFit, StillToClose, AlreadyDone,
              paperVars, leadVars
<1>2. ASSUME NEW s \in PaperSubs, SubStep(s) PROVE PaperInv'
  BY <1>2, SkipKeeps, OrderKeeps, MoveKeeps, SubFailsKeeps, RunningKeeps DEF SubStep
<1>3. ASSUME NEW failed \in BOOLEAN, FirstLook(failed) \/ NextLook(failed) PROVE PaperInv'
  BY <1>3, FirstLookKeeps, NextLookKeeps
<1> QED BY <1>1, <1>2, <1>3, MovesKeep, RecordKeeps, FindKeeps, EventFailsKeeps, EndTickKeeps, RestartKeeps
        DEF PaperNext

(* The invariant holds of every behaviour.                                  *)
LEMMA PaperInvariant == PaperSpec => []PaperInv
<1>1. PaperInit => PaperInv
  BY PaperInitOK
<1>2. PaperInv /\ [PaperNext]_paperVars => PaperInv'
  BY PaperStep
<1> QED BY <1>1, <1>2, PTL DEF PaperSpec

(* The tracker, its tick and the rows keep their types (copy_models.py).    *)
THEOREM PaperTypesHold == PaperSpec => []PaperTypeOK
<1>1. PaperInv => PaperTypeOK
  BY DEF PaperInv
<1> QED BY <1>1, PaperInvariant, PTL

(* A paper row stands where the leader was last seen, unless one of the     *)
(* named causes left it behind (paper_engine.py 55-160).                    *)
THEOREM PaperRowsFollow == PaperSpec => []PaperFollows
<1>1. PaperInv => PaperFollows
  BY DEF PaperInv, RowsFit, PaperFollows
<1> QED BY <1>1, PaperInvariant, PTL

(* The tracker announces only changes that took place (trader_tracker.py    *)
(* 94-125, 219-240).                                                        *)
THEOREM ChangesTookPlace == PaperSpec => ChangesAreReal
<1> DEFINE Real == (tick = NoChange /\ tick' # NoChange) =>
                     IF tick'.type = "closed" THEN "flat" \in sidesSince
                     ELSE /\ tick'.now.side \in sidesSince
                          /\ tick'.type = "opened" => "flat" \in sidesSince
<1>1. PaperInv /\ [PaperNext]_paperVars => [Real]_paperVars
  <2> SUFFICES ASSUME PaperInv, PaperNext, tick = NoChange, tick' # NoChange PROVE Real
    OBVIOUS
  <2>1. tick.at = "idle"
    BY DEF NoChange
  <2>2. PICK failed \in BOOLEAN : NextLook(failed)
    BY <2>1 DEF PaperNext, LeaderMoves, FirstLook, RecordEvent, FindSubs, EventFails, EndTick,
                RestartTracker,
                SubStep, DoneBefore, RefuseOrder, OrderRow, MovePaper, SubFails, SetRunning
  <2> DEFINE now == KeptRead(failed)
  <2>3. /\ lastLook # Unseen /\ ChangeTo(now) # "none"
        /\ tick' = [at |-> "record", now |-> now, type |-> ChangeTo(now)]
    BY <2>2 DEF NextLook
  <2>4. now \in Seen /\ (failed => now = lastLook) /\ (~failed => now = atChain)
    BY <2>3 DEF KeptRead, PositionsRead, PaperInv, PaperTypeOK
  <2> HIDE DEF now
  <2>5. ~failed /\ now = atChain
    BY <2>3, <2>4, LookFound
  <2>6. atChain.side \in sidesSince /\ lastLook.side \in sidesSince
    BY <2>3 DEF PaperInv, SidesFit
  <2>7. (ChangeTo(now) = "closed" => now.side = "flat")
         /\ (ChangeTo(now) = "opened" => lastLook.side = "flat")
    BY <2>3, <2>4, LookFound, Sides
  <2> QED BY <2>3, <2>5, <2>6, <2>7
<1> QED BY <1>1, PaperInvariant, PTL DEF PaperSpec, ChangesAreReal

(*****************************************************************************)
(* Manual live copies.                                                       *)
(*****************************************************************************)

Reports == {"filled", "placed", "failed"}
Statuses == {"none", "submitted"} \cup Reports
RowStatuses == Active \cup {"none", "closed", "detached"}
TabPoints == {"idle", "checked", "authorized", "sent", "apply", "downgrade", "write"}
(* The points of a tab with an attempt of its own. *)
WithAttempt == {"authorized", "sent", "apply", "downgrade", "write"}

AttemptRec == [status : Statuses, act : {"open", "close", "reduce"}, of : Attempts \cup {Nothing},
               stale : BOOLEAN, told : Reports \cup {"none"}, real : BOOLEAN, rests : BOOLEAN]
RowRec == [status : RowStatuses, size : 0 .. Lots, ripe : BOOLEAN, gone : BOOLEAN]
TabRec == [pc : TabPoints, att : Attempts \cup {Nothing}, act : {"open", "close", "reduce"},
           of : Attempts \cup {Nothing}, asked : 0 .. Lots, says : Reports \cup {"none"},
           id : BOOLEAN, qty : 0 .. Lots, was : RowRec]

SweepRec == [pc : {"idle", "rows", "detach"}, saw : {"none", "empty", "held", "no account"},
             due : SUBSET Attempts]

LiveTypes ==
  /\ attempt \in [Attempts -> AttemptRec] /\ row \in [Attempts -> RowRec]
  /\ tab \in [Tabs -> TabRec]
  /\ venue \in Nat /\ chain \in Nat
  /\ sweep \in SweepRec
  /\ streak \in [Attempts -> 0 .. 2]
  /\ glitches \in 0 .. MaxGlitches /\ faults \in 0 .. MaxFaults

(* What was reported stands. *)
ToldStands == \A a \in Attempts : attempt[a].told # "none" => attempt[a].status = attempt[a].told

(* A tab past the server's answer has an attempt no other tab has, which    *)
(* says what the tab is about.                                               *)
AttemptsOwned ==
  \A t \in Tabs : tab[t].pc \in WithAttempt =>
    LET a == tab[t].att IN
    /\ a \in Attempts /\ attempt[a].status # "none"
    /\ attempt[a].act = tab[t].act /\ attempt[a].of = tab[t].of
    /\ \A u \in Tabs : tab[u].pc \in WithAttempt /\ tab[u].att = a => u = t
    /\ tab[t].pc = "authorized" => attempt[a].told = "none" /\ ~attempt[a].real
    /\ tab[t].pc = "sent" => tab[t].says # "none"
    /\ tab[t].pc = "sent" /\ tab[t].says = "filled" /\ tab[t].id => attempt[a].real
    /\ tab[t].pc \in {"apply", "write"} => attempt[a].real
    /\ tab[t].pc = "write" => tab[t].act # "open"

(* A close is about a row that was made, and nobody unmakes it. *)
RowsMade ==
  /\ \A t \in Tabs : tab[t].pc = "checked" \/ (tab[t].pc \in WithAttempt /\ tab[t].act # "open") =>
       tab[t].act # "open" /\ tab[t].of \in Attempts /\ row[tab[t].of].status # "none"
  /\ \A a \in Attempts : row[a].status = "none" <=> row[a] = NoRow

(* A row that sees the market empty, at the venue or, once it is ripe, on   *)
(* the chain, has seen it gone.                                              *)
GoneSeen ==
  \A a \in Attempts : row[a] # NoRow /\ (venue = 0 \/ (Ripe(a) /\ chain = 0)) => row[a].gone

(* Each empty read of a market that was held all the time is a glitch.       *)
Misread(a) == Ripe(a) /\ ~row[a].gone
MissesAreGlitches ==
  \A a \in Attempts :
    /\ streak[a] > 0 /\ ~row[a].gone => glitches > 0
    /\ sweep.pc = "rows" /\ sweep.saw = "empty" /\ Misread(a) =>
         glitches > IF streak[a] > 0 THEN 1 ELSE 0
    /\ sweep.pc = "detach" /\ a \in sweep.due /\ MaxGlitches <= 1 => row[a].gone

(* A second glitch is what the sweep takes for a position that is gone.      *)
Detachments == MaxGlitches <= 1 => DetachedWasGone

LiveInv == /\ LiveTypes /\ ToldStands /\ AttemptsOwned /\ RowsMade /\ GoneSeen /\ MissesAreGlitches
           /\ Detachments /\ ClosesAreReal

(* The constants, fact by fact.                                             *)
LEMMA LiveBounds == Lots \in Nat /\ MaxGlitches \in Nat /\ MaxFaults \in Nat /\ Nothing \notin Attempts
BY LiveConstants

(* An attempt, a row, a tab and their fields. *)
LEMMA LiveRecs ==
  ASSUME LiveTypes
  PROVE  /\ \A a \in Attempts : attempt[a] \in AttemptRec /\ row[a] \in RowRec /\ streak[a] \in 0 .. 2
         /\ \A t \in Tabs : tab[t] \in TabRec
         /\ sweep \in SweepRec /\ sweep.due \subseteq Attempts
BY DEF LiveTypes, SweepRec

(* The fields of an attempt.                                                *)
LEMMA AttemptFields ==
  ASSUME NEW a \in AttemptRec
  PROVE  /\ a.status \in Statuses /\ a.act \in {"open", "close", "reduce"}
         /\ a.told \in Reports \cup {"none"} /\ a.real \in BOOLEAN
BY DEF AttemptRec

(* The fields of a row.                                                     *)
LEMMA RowFields ==
  ASSUME NEW r \in RowRec
  PROVE  /\ r.status \in RowStatuses /\ r.size \in 0 .. Lots /\ r.size \in Nat
         /\ r.ripe \in BOOLEAN /\ r.gone \in BOOLEAN
BY LiveBounds DEF RowRec

(* The fields of a tab.                                                     *)
LEMMA TabFields ==
  ASSUME NEW r \in TabRec
  PROVE  /\ r.pc \in TabPoints /\ r.says \in Reports \cup {"none"} /\ r.id \in BOOLEAN
         /\ r.asked \in 0 .. Lots /\ r.qty \in 0 .. Lots /\ r.was \in RowRec
         /\ r.act \in {"open", "close", "reduce"}
         /\ r.of \in Attempts \cup {Nothing} /\ r.att \in Attempts \cup {Nothing}
BY DEF TabRec

(* A tab with nothing to do is a tab.                                       *)
LEMMA IdleTabOK == IdleTab \in TabRec /\ IdleTab.pc = "idle"
BY LiveBounds DEF TabRec, TabPoints, IdleTab, NoRow, RowRec, RowStatuses, Reports

(* A new attempt is one that was never used; the expiry leaves it alone. *)
LEMMA NewIsUnused ==
  ASSUME \E a \in Attempts : attempt[a] = NoAttempt
  PROVE  New \in Attempts /\ attempt[New] = NoAttempt
BY DEF New

(* What the expiry leaves of the attempts. *)
LEMMA ExpiredOK ==
  ASSUME LiveTypes
  PROVE  /\ Expired \in [Attempts -> AttemptRec]
         /\ \A a \in Attempts :
              /\ Expired[a].act = attempt[a].act /\ Expired[a].of = attempt[a].of
              /\ Expired[a].told = attempt[a].told /\ Expired[a].real = attempt[a].real
              /\ Expired[a].status # attempt[a].status => attempt[a].status = "submitted"
              /\ Expired[a].status = "none" <=> attempt[a].status = "none"
<1>1. Expired \in [Attempts -> AttemptRec]
  BY DEF LiveTypes, Expired, AttemptRec, Statuses, Reports
<1>2. \A a \in Attempts :
        /\ Expired[a].act = attempt[a].act /\ Expired[a].of = attempt[a].of
        /\ Expired[a].told = attempt[a].told /\ Expired[a].real = attempt[a].real
        /\ Expired[a].status # attempt[a].status => attempt[a].status = "submitted"
        /\ Expired[a].status = "none" <=> attempt[a].status = "none"
  BY DEF LiveTypes, Expired, AttemptRec
<1> QED BY <1>1, <1>2

(* The first state satisfies the invariant. *)
LEMMA LiveInitOK ==
  ASSUME LiveInit
  PROVE  LiveInv
<1>1. LiveTypes
  BY LiveBounds DEF LiveInit, LiveTypes, SweepRec, NoAttempt, NoRow, IdleTab, IdleSweep, AttemptRec, RowRec,
                       TabRec, Statuses, Reports, RowStatuses, TabPoints
<1>2. ToldStands /\ AttemptsOwned /\ RowsMade
  BY DEF LiveInit, ToldStands, AttemptsOwned, RowsMade, NoAttempt, NoRow, IdleTab, WithAttempt
<1>3. GoneSeen /\ MissesAreGlitches /\ Detachments /\ ClosesAreReal
  BY DEF LiveInit, GoneSeen, MissesAreGlitches, Detachments, DetachedWasGone, ClosesAreReal, NoRow, IdleSweep,
         Misread, Ripe
<1> QED BY <1>1, <1>2, <1>3 DEF LiveInv

-----------------------------------------------------------------------------
(* Every step keeps the types.                                              *)

(* What each step does, field by field.                                     *)

(* One tab moves, the others stay.                                          *)
LEMMA TabPut ==
  ASSUME LiveTypes, NEW t \in Tabs, NEW r \in TabRec, tab' = [tab EXCEPT ![t] = r]
  PROVE  tab' \in [Tabs -> TabRec] /\ tab'[t] = r /\ \A u \in Tabs : u # t => tab'[u] = tab[u]
BY DEF LiveTypes

(* One attempt changes, the others stay.                                    *)
LEMMA AttemptPut ==
  ASSUME LiveTypes, NEW a \in Attempts, NEW r \in AttemptRec, attempt' = [attempt EXCEPT ![a] = r]
  PROVE  /\ attempt' \in [Attempts -> AttemptRec] /\ attempt'[a] = r
         /\ \A b \in Attempts : b # a => attempt'[b] = attempt[b]
BY DEF LiveTypes

(* One row changes, the others stay.                                        *)
LEMMA RowPut ==
  ASSUME LiveTypes, NEW a \in Attempts, NEW r \in RowRec, row' = [row EXCEPT ![a] = r]
  PROVE  /\ row' \in [Attempts -> RowRec] /\ row'[a] = r
         /\ \A b \in Attempts : b # a => row'[b] = row[b]
BY DEF LiveTypes

(* What an order makes of the venue's position is a size.                   *)
LEMMA MovedNat ==
  ASSUME venue \in Nat, NEW q \in Nat, NEW act
  PROVE  Moved(act, q) \in Nat
BY DEF Moved

(* A position that empties marks the rows as gone and changes nothing else  *)
(* of them.                                                                 *)
LEMMA EmptiedIs ==
  ASSUME LiveTypes, NEW v
  PROVE  /\ Emptied(v) \in [Attempts -> RowRec]
         /\ \A a \in Attempts :
              /\ Emptied(v)[a].status = row[a].status /\ Emptied(v)[a].ripe = row[a].ripe
              /\ row[a].gone => Emptied(v)[a].gone
              /\ row[a] = NoRow <=> Emptied(v)[a] = NoRow
              /\ v = 0 /\ row[a] # NoRow => Emptied(v)[a].gone
<1>1. ASSUME NEW a \in Attempts
      PROVE  /\ Emptied(v)[a] \in RowRec
             /\ Emptied(v)[a].status = row[a].status /\ Emptied(v)[a].ripe = row[a].ripe
             /\ row[a].gone => Emptied(v)[a].gone
             /\ row[a] = NoRow <=> Emptied(v)[a] = NoRow
             /\ v = 0 /\ row[a] # NoRow => Emptied(v)[a].gone
  <2> DEFINE r == row[a]
  <2>1. r \in RowRec
    BY LiveRecs
  <2>2. [r EXCEPT !.gone = TRUE] \in RowRec /\ [r EXCEPT !.gone = TRUE].status = r.status
        /\ [r EXCEPT !.gone = TRUE].ripe = r.ripe /\ [r EXCEPT !.gone = TRUE].gone
        /\ [r EXCEPT !.gone = TRUE] # NoRow
    BY <2>1 DEF RowRec, NoRow
  <2>3. Emptied(v)[a] = IF v = 0 /\ r # NoRow THEN [r EXCEPT !.gone = TRUE] ELSE r
    BY DEF Emptied
  <2> QED BY <2>1, <2>2, <2>3
<1>2. Emptied(v) \in [Attempts -> RowRec]
  BY <1>1 DEF Emptied
<1> QED BY <1>1, <1>2

(* Effect of an attempt: its row is new, its tab goes on with it            *)
(* (live_orders.py).                                                        *)
LEMMA SubmitMoves ==
  ASSUME LiveTypes, NEW t \in Tabs, NEW act \in {"open", "close", "reduce"},
         NEW of \in Attempts, NEW asked \in 0 .. Lots, Submitted(t, act, of, asked)
  PROVE  /\ tab' \in [Tabs -> TabRec] /\ \A u \in Tabs : u # t => tab'[u] = tab[u]
         /\ tab'[t].pc = "authorized" /\ tab'[t].att = New /\ tab'[t].act = act /\ tab'[t].of = of
         /\ attempt' \in [Attempts -> AttemptRec]
         /\ New \in Attempts /\ attempt[New] = NoAttempt
         /\ attempt'[New].status = "submitted" /\ attempt'[New].act = act /\ attempt'[New].of = of
         /\ attempt'[New].told = "none" /\ attempt'[New].real = FALSE
         /\ \A a \in Attempts : a # New => attempt'[a] = Expired[a]
<1>1. New \in Attempts /\ attempt[New] = NoAttempt
  BY NewIsUnused DEF Submitted
<1> DEFINE r == [tab[t] EXCEPT !.pc = "authorized", !.att = New, !.act = act, !.of = of, !.asked = asked]
           n == [Expired[New] EXCEPT !.status = "submitted", !.act = act, !.of = of]
<1>2. tab' = [tab EXCEPT ![t] = r]
  BY DEF Submitted
<1>3. tab[t] \in TabRec
  BY LiveRecs
<1>4. r \in TabRec /\ r.pc = "authorized" /\ r.att = New /\ r.act = act /\ r.of = of
  BY <1>1, <1>3 DEF TabRec, TabPoints
<1> HIDE DEF r
<1>5. attempt' = [Expired EXCEPT ![New] = n]
  BY DEF Submitted
<1>6. /\ Expired \in [Attempts -> AttemptRec] /\ Expired[New] \in AttemptRec
      /\ Expired[New].told = "none" /\ Expired[New].real = FALSE
  BY <1>1, ExpiredOK DEF NoAttempt
<1>7. n \in AttemptRec /\ n.status = "submitted" /\ n.act = act /\ n.of = of
      /\ n.told = "none" /\ n.real = FALSE
  BY <1>6 DEF AttemptRec, Statuses
<1> HIDE DEF n, Expired
<1>8. /\ attempt' \in [Attempts -> AttemptRec] /\ attempt'[New] = n
      /\ \A a \in Attempts : a # New => attempt'[a] = Expired[a]
  BY <1>1, <1>5, <1>6, <1>7
<1>9. /\ tab' \in [Tabs -> TabRec] /\ tab'[t] = r /\ \A u \in Tabs : u # t => tab'[u] = tab[u]
  BY <1>2, <1>4, TabPut
<1> QED BY <1>1, <1>4, <1>7, <1>8, <1>9

(* Effect of the check before a close: only the expiry writes.              *)
LEMMA CheckMoves ==
  ASSUME LiveTypes, NEW t \in Tabs, NEW p \in Attempts, CheckClose(t, p)
  PROVE  /\ tab' \in [Tabs -> TabRec] /\ \A u \in Tabs : u # t => tab'[u] = tab[u]
         /\ tab'[t].pc = "checked" /\ tab'[t].act # "open" /\ tab'[t].of = p
         /\ attempt' = Expired /\ p \in ActiveRows
         /\ UNCHANGED <<row, venue, chain, sweep, streak, glitches, faults>>
<1>1. PICK n \in 1 .. row[p].size :
        tab' = [tab EXCEPT ![t].pc = "checked", ![t].of = p, ![t].asked = n,
                           ![t].act = IF n = row[p].size THEN "close" ELSE "reduce"]
  BY DEF CheckClose
<1>2. n \in 0 .. Lots
  BY LiveRecs, RowFields, LiveBounds
<1> DEFINE act == IF n = row[p].size THEN "close" ELSE "reduce"
           r == [tab[t] EXCEPT !.pc = "checked", !.of = p, !.asked = n, !.act = act]
<1>3. tab' = [tab EXCEPT ![t] = r]
  BY <1>1
<1>4. act \in {"close", "reduce"} /\ tab[t] \in TabRec
  BY LiveRecs
<1> HIDE DEF act
<1>5. r \in TabRec /\ r.pc = "checked" /\ r.act # "open" /\ r.of = p
  BY <1>2, <1>4 DEF TabRec, TabPoints
<1> HIDE DEF r
<1>6. tab' \in [Tabs -> TabRec] /\ tab'[t] = r /\ \A u \in Tabs : u # t => tab'[u] = tab[u]
  BY <1>3, <1>5, TabPut
<1> QED BY <1>5, <1>6 DEF CheckClose

(* Effect of the order the browser sends: the attempt learns whether the    *)
(* venue took it.                                                           *)
LEMMA SendMoves ==
  ASSUME LiveTypes, NEW t \in Tabs, tab[t].att \in Attempts, SendOrder(t)
  PROVE  /\ tab[t].pc = "authorized"
         /\ tab' \in [Tabs -> TabRec] /\ \A u \in Tabs : u # t => tab'[u] = tab[u]
         /\ tab'[t].pc = "sent" /\ tab'[t].att = tab[t].att /\ tab'[t].act = tab[t].act
         /\ tab'[t].of = tab[t].of /\ tab'[t].says # "none"
         /\ attempt' \in [Attempts -> AttemptRec]
         /\ \A a \in Attempts : a # tab[t].att => attempt'[a] = attempt[a]
         /\ LET a == tab[t].att IN
            /\ attempt'[a].status = attempt[a].status /\ attempt'[a].told = attempt[a].told
            /\ attempt'[a].act = attempt[a].act /\ attempt'[a].of = attempt[a].of
            /\ tab'[t].says = "filled" /\ tab'[t].id => attempt'[a].real
         /\ venue' \in Nat /\ row' = Emptied(venue')
         /\ UNCHANGED <<chain, sweep, streak, glitches, faults>>
<1> DEFINE me == tab[t]
<1>1. PICK q \in 0 .. me.asked, rests \in BOOLEAN :
        /\ rests => q = 0
        /\ venue' = Moved(me.act, q)
        /\ attempt' = [attempt EXCEPT ![me.att].real = q > 0 \/ rests, ![me.att].rests = rests]
        /\ \E r \in Result(t, q, rests) :
             tab' = [tab EXCEPT ![t].pc = "sent", ![t].asked = 0, ![t].says = r.says,
                                ![t].id = r.id, ![t].qty = r.qty]
  BY DEF SendOrder
<1>2. PICK res \in Result(t, q, rests) :
        tab' = [tab EXCEPT ![t].pc = "sent", ![t].asked = 0, ![t].says = res.says,
                           ![t].id = res.id, ![t].qty = res.qty]
  BY <1>1
<1>3. /\ res.says \in Reports /\ res.id \in BOOLEAN /\ res.qty \in 0 .. Lots
      /\ res.says = "filled" /\ res.id => q > 0 \/ rests
  BY DEF Result, Reports
<1> DEFINE r == [me EXCEPT !.pc = "sent", !.asked = 0, !.says = res.says, !.id = res.id, !.qty = res.qty]
           real == q > 0 \/ rests
           n == [attempt[me.att] EXCEPT !.real = real, !.rests = rests]
<1>4. tab' = [tab EXCEPT ![t] = r] /\ attempt' = [attempt EXCEPT ![me.att] = n]
  BY <1>1, <1>2
<1>5. me \in TabRec /\ attempt[me.att] \in AttemptRec /\ 0 \in 0 .. Lots /\ q \in Nat
  BY LiveRecs, TabFields, LiveBounds
<1>6. real \in BOOLEAN /\ (res.says = "filled" /\ res.id => real)
  BY <1>3
<1> HIDE DEF real
<1>7. r \in TabRec /\ r.pc = "sent" /\ r.att = me.att /\ r.act = me.act /\ r.of = me.of
      /\ r.says = res.says /\ r.id = res.id
  BY <1>3, <1>5 DEF TabRec, TabPoints
<1> HIDE DEF r
<1> DEFINE o == attempt[me.att]
<1>8. n \in AttemptRec /\ n.status = o.status /\ n.told = o.told /\ n.act = o.act /\ n.of = o.of
      /\ n.real = real
  BY <1>5, <1>6 DEF AttemptRec
<1> HIDE DEF n
<1>9. tab' \in [Tabs -> TabRec] /\ tab'[t] = r /\ \A u \in Tabs : u # t => tab'[u] = tab[u]
  BY <1>4, <1>7, TabPut
<1>10. /\ attempt' \in [Attempts -> AttemptRec] /\ attempt'[me.att] = n
       /\ \A b \in Attempts : b # me.att => attempt'[b] = attempt[b]
  BY <1>4, <1>8, AttemptPut
<1>11. venue' \in Nat
  <2>1. venue \in Nat
    BY DEF LiveTypes
  <2> QED BY <1>1, <1>5, <2>1, MovedNat
<1>12. res.says # "none"
  BY <1>3 DEF Reports
<1> QED BY <1>6, <1>7, <1>8, <1>9, <1>10, <1>11, <1>12 DEF SendOrder

(* The attempt as a report leaves it: what was told is its status.          *)
LEMMA WrittenIs ==
  ASSUME LiveTypes, NEW a \in Attempts, NEW says \in Reports
  PROVE  /\ Written(a, says) \in [Attempts -> AttemptRec]
         /\ Written(a, says)[a].status = says /\ Written(a, says)[a].told = says
         /\ \A b \in Attempts :
              /\ b # a => Written(a, says)[b] = attempt[b]
              /\ Written(a, says)[b].act = attempt[b].act /\ Written(a, says)[b].of = attempt[b].of
              /\ Written(a, says)[b].real = attempt[b].real
<1> DEFINE o == attempt[a]
           n == [o EXCEPT !.status = says, !.told = says, !.stale = FALSE]
<1>1. o \in AttemptRec /\ attempt \in [Attempts -> AttemptRec]
  BY LiveRecs DEF LiveTypes
<1>2. n \in AttemptRec /\ n.status = says /\ n.told = says /\ n.act = o.act /\ n.of = o.of
      /\ n.real = o.real
  BY <1>1 DEF AttemptRec, Statuses
<1>3. Written(a, says) = [attempt EXCEPT ![a] = n]
  BY DEF Written
<1> HIDE DEF n
<1> QED BY <1>1, <1>2, <1>3

(* Effect of a report: the first one is written, a later one changes        *)
(* nothing.                                                                 *)
LEMMA ReportMoves ==
  ASSUME LiveTypes, NEW t \in Tabs, tab[t].att \in Attempts, tab[t].says # "none", Report(t)
  PROVE  /\ tab[t].pc = "sent"
         /\ tab' \in [Tabs -> TabRec] /\ \A u \in Tabs : u # t => tab'[u] = tab[u]
         /\ \/ tab'[t].pc = "idle"
            \/ /\ tab'[t].pc \in {"apply", "downgrade"} /\ tab'[t].att = tab[t].att
               /\ tab'[t].act = tab[t].act /\ tab'[t].of = tab[t].of
               /\ tab[t].says = "filled" /\ (tab'[t].pc = "apply" => tab[t].id)
         /\ tab[t].says \in Reports
         /\ attempt' = Written(tab[t].att, tab[t].says)
         /\ UNCHANGED <<row, venue, chain, sweep, streak, glitches, faults>>
<1> DEFINE me == tab[t]
           r == AfterReport(me)
<1>1. me \in TabRec /\ me.id \in BOOLEAN
  BY LiveRecs, TabFields
<1>2. /\ r \in TabRec
      /\ \/ r.pc = "idle"
         \/ /\ r.pc \in {"apply", "downgrade"} /\ r.att = me.att /\ r.act = me.act /\ r.of = me.of
            /\ me.says = "filled" /\ (r.pc = "apply" => me.id)
  <2>1. CASE me.says # "filled"
    BY <2>1, IdleTabOK DEF AfterReport
  <2>2. CASE me.says = "filled" /\ me.id
    <3>1. r = [me EXCEPT !.pc = "apply"]
      BY <2>2 DEF AfterReport
    <3> QED BY <1>1, <2>2, <3>1 DEF TabRec, TabPoints
  <2>3. CASE me.says = "filled" /\ ~me.id
    <3>1. r = [me EXCEPT !.pc = "downgrade"]
      BY <2>3 DEF AfterReport
    <3> QED BY <1>1, <2>3, <3>1 DEF TabRec, TabPoints
  <2> QED BY <2>1, <2>2, <2>3
<1>3. tab' = [tab EXCEPT ![t] = r]
  BY DEF Report
<1> HIDE DEF r
<1>4. tab' \in [Tabs -> TabRec] /\ tab'[t] = r /\ \A u \in Tabs : u # t => tab'[u] = tab[u]
  BY <1>2, <1>3, TabPut
<1> QED BY <1>1, <1>2, <1>4, TabFields DEF Report

(* A step after which the tab is idle. *)
LEMMA TabEnds ==
  ASSUME LiveTypes, NEW t \in Tabs, tab' = [tab EXCEPT ![t] = IdleTab]
  PROVE  /\ tab' \in [Tabs -> TabRec] /\ tab'[t].pc = "idle"
         /\ \A u \in Tabs : u # t => tab'[u] = tab[u]
BY IdleTabOK, TabPut

(* Effect of the row of an open: it is made where there was none.           *)
LEMMA OpenMoves ==
  ASSUME LiveTypes, NEW t \in Tabs, tab[t].att \in Attempts, OpenRow(t)
  PROVE  /\ tab[t].pc = "apply" /\ tab[t].act = "open"
         /\ row' \in [Attempts -> RowRec]
         /\ \A a \in Attempts : a # tab[t].att \/ row[a] # NoRow => row'[a] = row[a]
         /\ LET a == tab[t].att IN
            row[a] = NoRow => /\ row'[a].status = "open" /\ row'[a].ripe = FALSE
                              /\ row'[a].gone = (venue = 0) /\ row'[a] # NoRow
         /\ tab' = [tab EXCEPT ![t] = IdleTab]
         /\ UNCHANGED <<attempt, venue, chain, sweep, streak, glitches, faults>>
<1> DEFINE me == tab[t]
           a == me.att
           new == [status |-> "open", size |-> me.qty, ripe |-> FALSE, gone |-> venue = 0]
           r == IF row[a] # NoRow THEN row[a] ELSE new
<1>1. me.qty \in 0 .. Lots /\ row[a] \in RowRec
  BY LiveRecs, TabFields
<1>2. new \in RowRec /\ new.status = "open" /\ new.ripe = FALSE /\ new.gone = (venue = 0) /\ new # NoRow
  BY <1>1 DEF RowRec, RowStatuses, Active, NoRow
<1>3. row' = [row EXCEPT ![a] = r]
  BY DEF OpenRow
<1> HIDE DEF new
<1>4. row' \in [Attempts -> RowRec] /\ row'[a] = r /\ \A b \in Attempts : b # a => row'[b] = row[b]
  BY <1>1, <1>2, <1>3, RowPut
<1> QED BY <1>2, <1>4 DEF OpenRow

(* Effect of reading the row a close is of.                                 *)
LEMMA ReadMoves ==
  ASSUME LiveTypes, NEW t \in Tabs, tab[t].of \in Attempts, ReadRow(t)
  PROVE  /\ tab[t].pc = "apply" /\ tab[t].act # "open"
         /\ tab' \in [Tabs -> TabRec] /\ \A u \in Tabs : u # t => tab'[u] = tab[u]
         /\ tab'[t].pc = "write" /\ tab'[t].att = tab[t].att /\ tab'[t].act = tab[t].act
         /\ tab'[t].of = tab[t].of
         /\ UNCHANGED <<attempt, row, venue, chain, sweep, streak, glitches, faults>>
<1> DEFINE me == tab[t]
           was == row[me.of]
           r == [me EXCEPT !.pc = "write", !.was = was]
<1>1. me \in TabRec /\ was \in RowRec
  BY LiveRecs
<1>2. tab' = [tab EXCEPT ![t] = r]
  BY DEF ReadRow
<1> HIDE DEF was
<1>3. r \in TabRec /\ r.pc = "write" /\ r.att = me.att /\ r.act = me.act /\ r.of = me.of
  BY <1>1 DEF TabRec, TabPoints
<1> HIDE DEF r
<1>4. tab' \in [Tabs -> TabRec] /\ tab'[t] = r /\ \A u \in Tabs : u # t => tab'[u] = tab[u]
  BY <1>2, <1>3, TabPut
<1> QED BY <1>3, <1>4 DEF ReadRow

(* Effect of the reduction written from what was read.                      *)
LEMMA WriteMoves ==
  ASSUME LiveTypes, NEW t \in Tabs, tab[t].of \in Attempts, WriteRow(t)
  PROVE  /\ tab[t].pc = "write"
         /\ row' \in [Attempts -> RowRec]
         /\ \A a \in Attempts : a # tab[t].of => row'[a] = row[a]
         /\ LET a == tab[t].of IN
            /\ row'[a].status \in {"closed", "partially_closed"}
            /\ row'[a].ripe = row[a].ripe /\ row'[a].gone = row[a].gone
         /\ tab' = [tab EXCEPT ![t] = IdleTab]
         /\ UNCHANGED <<attempt, venue, chain, sweep, streak, glitches, faults>>
<1> DEFINE me == tab[t]
           a == me.of
           left == Remaining(me)
           status == IF left = 0 THEN "closed" ELSE "partially_closed"
           o == row[a]
           r == [o EXCEPT !.size = left, !.status = status]
<1>1. me \in TabRec /\ o \in RowRec /\ me.qty \in 0 .. Lots /\ me.was.size \in 0 .. Lots
  BY LiveRecs, TabFields, RowFields
<1>2. left \in 0 .. Lots /\ status \in {"closed", "partially_closed"}
  BY <1>1, LiveBounds DEF Remaining
<1>3. row' = [row EXCEPT ![a] = r]
  BY DEF WriteRow
<1> HIDE DEF left, status
<1>4. r \in RowRec /\ r.status = status /\ r.ripe = o.ripe /\ r.gone = o.gone
  BY <1>1, <1>2 DEF RowRec, RowStatuses, Active
<1> HIDE DEF r
<1>5. row' \in [Attempts -> RowRec] /\ row'[a] = r /\ \A b \in Attempts : b # a => row'[b] = row[b]
  BY <1>3, <1>4, RowPut
<1> QED BY <1>2, <1>4, <1>5 DEF WriteRow

(* Effect of a resting order that ends, which nobody reports.               *)
LEMMA RestMoves ==
  ASSUME LiveTypes, NEW a \in Attempts, RestEnds(a)
  PROVE  /\ attempt' \in [Attempts -> AttemptRec]
         /\ \A b \in Attempts :
              /\ attempt'[b].status = attempt[b].status /\ attempt'[b].told = attempt[b].told
              /\ attempt'[b].act = attempt[b].act /\ attempt'[b].of = attempt[b].of
              /\ attempt'[b].real = attempt[b].real
         /\ venue' \in Nat /\ row' = Emptied(venue')
         /\ UNCHANGED <<tab, chain, sweep, streak, glitches, faults>>
<1> DEFINE o == attempt[a]
           r == [o EXCEPT !.rests = FALSE]
<1>1. o \in AttemptRec /\ venue \in Nat
  BY LiveRecs DEF LiveTypes
<1>2. r \in AttemptRec /\ r.status = o.status /\ r.told = o.told /\ r.act = o.act /\ r.of = o.of
      /\ r.real = o.real
  BY <1>1 DEF AttemptRec
<1>3. attempt' = [attempt EXCEPT ![a] = r]
  BY DEF RestEnds
<1> HIDE DEF r
<1>4. /\ attempt' \in [Attempts -> AttemptRec] /\ attempt'[a] = r
      /\ \A b \in Attempts : b # a => attempt'[b] = attempt[b]
  BY <1>2, <1>3, AttemptPut
<1>5. venue' \in Nat
  BY <1>1, MovedNat DEF RestEnds
<1> QED BY <1>2, <1>4, <1>5 DEF RestEnds

(* Effect of a resting open that fills: its row grows.                      *)
LEMMA GrowMoves ==
  ASSUME LiveTypes, NEW a \in Attempts, Grow(a)
  PROVE  /\ attempt' \in [Attempts -> AttemptRec] /\ row' \in [Attempts -> RowRec]
         /\ \A b \in Attempts :
              /\ attempt'[b].status = attempt[b].status /\ attempt'[b].told = attempt[b].told
              /\ attempt'[b].act = attempt[b].act /\ attempt'[b].of = attempt[b].of
              /\ attempt'[b].real = attempt[b].real
              /\ row'[b].status = row[b].status /\ row'[b].gone = row[b].gone
              /\ row[b] = NoRow <=> row'[b] = NoRow
              /\ row'[b].ripe # row[b].ripe => chain = venue /\ sweep.pc # "rows"
<1>1. CASE attempt' = [attempt EXCEPT ![a].stale = TRUE] /\ row' = row
  <2> DEFINE o == attempt[a]
             r == [o EXCEPT !.stale = TRUE]
  <2>1. o \in AttemptRec
    BY LiveRecs
  <2>2. r \in AttemptRec /\ r.status = o.status /\ r.told = o.told /\ r.act = o.act /\ r.of = o.of
        /\ r.real = o.real
    BY <2>1 DEF AttemptRec
  <2>3. attempt' = [attempt EXCEPT ![a] = r]
    BY <1>1
  <2> HIDE DEF r
  <2>4. /\ attempt' \in [Attempts -> AttemptRec] /\ attempt'[a] = r
        /\ \A b \in Attempts : b # a => attempt'[b] = attempt[b]
    BY <2>2, <2>3, AttemptPut
  <2>5. row' \in [Attempts -> RowRec]
    BY <1>1 DEF LiveTypes
  <2> QED BY <1>1, <2>2, <2>4, <2>5
<1>2. CASE /\ row' = [row EXCEPT ![a].ripe = TRUE] /\ attempt' = attempt /\ a \in ActiveRows
           /\ chain = venue /\ sweep.pc # "rows"
  <2> DEFINE o == row[a]
             r == [o EXCEPT !.ripe = TRUE]
  <2>1. o \in RowRec /\ o # NoRow
    BY <1>2, LiveRecs DEF ActiveRows, Active, NoRow
  <2>2. r \in RowRec /\ r.status = o.status /\ r.gone = o.gone /\ r # NoRow
    BY <2>1 DEF RowRec, NoRow
  <2>3. row' = [row EXCEPT ![a] = r]
    BY <1>2
  <2> HIDE DEF r
  <2>4. row' \in [Attempts -> RowRec] /\ row'[a] = r /\ \A b \in Attempts : b # a => row'[b] = row[b]
    BY <2>2, <2>3, RowPut
  <2>5. attempt' \in [Attempts -> AttemptRec]
    BY <1>2 DEF LiveTypes
  <2> QED BY <1>2, <2>1, <2>2, <2>4, <2>5
<1> QED BY <1>1, <1>2 DEF Grow

(* Effect of the sweep's writes: rows due and still active are detached.    *)
LEMMA DetachMoves ==
  ASSUME LiveTypes, SweepDetach
  PROVE  /\ sweep.pc = "detach" /\ row' \in [Attempts -> RowRec] /\ streak' \in [Attempts -> 0 .. 2]
         /\ \A a \in Attempts :
              /\ row'[a].gone = row[a].gone /\ row'[a].ripe = row[a].ripe
              /\ streak'[a] \in {0, streak[a]}
              /\ \/ row'[a] = row[a]
                 \/ a \in sweep.due /\ row[a].status \in Active /\ row'[a].status = "detached"
         /\ sweep' = IdleSweep /\ UNCHANGED <<attempt, tab, venue, chain, glitches, faults>>
<1>1. ASSUME NEW a \in Attempts
      PROVE  /\ row'[a] \in RowRec /\ row'[a].gone = row[a].gone /\ row'[a].ripe = row[a].ripe
             /\ \/ row'[a] = row[a]
                \/ a \in sweep.due /\ row[a].status \in Active /\ row'[a].status = "detached"
  <2> DEFINE o == row[a]
             r == [o EXCEPT !.status = "detached", !.size = 0]
  <2>1. o \in RowRec /\ 0 \in 0 .. Lots
    BY LiveRecs, LiveBounds
  <2>2. r \in RowRec /\ r.status = "detached" /\ r.gone = o.gone /\ r.ripe = o.ripe
    BY <2>1 DEF RowRec, RowStatuses
  <2>3. row'[a] = IF a \in sweep.due /\ o.status \in Active THEN r ELSE o
    BY DEF SweepDetach, Detachable
  <2> HIDE DEF r
  <2> QED BY <2>1, <2>2, <2>3
<1>2. row' = [a \in Attempts |-> row'[a]]
  BY DEF SweepDetach
<1>3. row' \in [Attempts -> RowRec]
  BY <1>1, <1>2
<1>4. streak' \in [Attempts -> 0 .. 2] /\ \A a \in Attempts : streak'[a] \in {0, streak[a]}
  <2>1. streak' = [a \in Attempts |-> IF a \in sweep.due THEN 0 ELSE streak[a]]
    BY DEF SweepDetach
  <2>2. \A a \in Attempts : streak[a] \in 0 .. 2
    BY LiveRecs
  <2> QED BY <2>1, <2>2
<1> QED BY <1>1, <1>3, <1>4 DEF SweepDetach

(* Effect of the sweep's look at the rows: the misses it counts, the rows   *)
(* it finds due.                                                            *)
LEMMA SweepRowsMoves ==
  ASSUME LiveTypes, SweepRows
  PROVE  /\ sweep.pc = "rows" /\ streak' \in [Attempts -> 0 .. 2]
         /\ \A a \in Attempts : streak'[a] > 0 =>
              streak[a] > 0 \/ (sweep.saw = "empty" /\ Ripe(a))
         /\ sweep'.pc \in {"idle", "detach"} /\ sweep'.due \subseteq Attempts /\ sweep'.saw = "none"
         /\ sweep' \in SweepRec
         /\ \A a \in sweep'.due : sweep.saw = "empty" /\ Ripe(a) /\ streak[a] > 0
         /\ UNCHANGED <<attempt, row, tab, venue, chain, glitches, faults>>
<1>1. streak' \in [Attempts -> 0 .. 2]
  BY LiveRecs DEF SweepRows, Streak, DetachAfter
<1>2. \A a \in Attempts : streak'[a] > 0 => streak[a] > 0 \/ (sweep.saw = "empty" /\ Ripe(a))
  BY LiveRecs DEF SweepRows, Streak
<1>3. Due \subseteq Attempts /\ \A a \in Due : sweep.saw = "empty" /\ Ripe(a) /\ streak[a] > 0
  BY LiveRecs DEF Due, ActiveRows, DetachAfter
<1>4. sweep' \in {IdleSweep, [IdleSweep EXCEPT !.pc = "detach", !.due = Due]}
  BY DEF SweepRows
<1>5. sweep'.pc \in {"idle", "detach"} /\ sweep'.due \in {{}, Due} /\ sweep'.saw = "none"
      /\ sweep' \in SweepRec
  <2> HIDE DEF Due
  <2>1. CASE sweep' = IdleSweep
    BY <2>1 DEF IdleSweep, SweepRec
  <2>2. CASE sweep' = [IdleSweep EXCEPT !.pc = "detach", !.due = Due]
    <3>1. sweep' = [pc |-> "detach", saw |-> "none", due |-> Due]
      BY <2>2 DEF IdleSweep
    <3> QED BY <1>3, <3>1 DEF SweepRec
  <2> QED BY <1>4, <2>1, <2>2
<1> QED BY <1>1, <1>2, <1>3, <1>5 DEF SweepRows

-----------------------------------------------------------------------------
(* Each part of the invariant is kept.                                      *)

(* A step of a tab with nothing done to rows, venue and sweep. *)
LEMMA QuietRows ==
  ASSUME LiveInv, UNCHANGED <<row, venue, chain, sweep, streak, glitches, faults>>
  PROVE  /\ row' \in [Attempts -> RowRec] /\ venue' \in Nat /\ chain' \in Nat /\ sweep' \in SweepRec
         /\ streak' \in [Attempts -> 0 .. 2] /\ glitches' \in 0 .. MaxGlitches /\ faults' \in 0 .. MaxFaults
         /\ GoneSeen' /\ MissesAreGlitches' /\ Detachments'
BY DEF LiveInv, LiveTypes, GoneSeen, MissesAreGlitches, Detachments, DetachedWasGone, Misread, Ripe

(* What is said of a close stays so when the attempts only get further. *)
LEMMA ClosesStay ==
  ASSUME LiveInv, UNCHANGED row,
         \A a \in Attempts : attempt[a].real =>
           attempt'[a].of = attempt[a].of /\ attempt'[a].act = attempt[a].act /\ attempt'[a].real
  PROVE  ClosesAreReal'
BY DEF LiveInv, ClosesAreReal

(* What a tab has, field by field. *)
LEMMA Owned ==
  ASSUME LiveInv, NEW t \in Tabs
  PROVE  /\ tab[t].pc \in WithAttempt =>
              /\ tab[t].att \in Attempts /\ attempt[tab[t].att].status # "none"
              /\ attempt[tab[t].att].act = tab[t].act /\ attempt[tab[t].att].of = tab[t].of
         /\ tab[t].pc = "checked" \/ (tab[t].pc \in WithAttempt /\ tab[t].act # "open") =>
              tab[t].act # "open" /\ tab[t].of \in Attempts /\ row[tab[t].of].status # "none"
BY DEF LiveInv, AttemptsOwned, RowsMade

(* A tab gets an attempt of its own. *)
LEMMA SubmitOK ==
  ASSUME LiveInv, NEW t \in Tabs, NEW act \in {"open", "close", "reduce"},
         NEW of \in Attempts, NEW asked \in 0 .. Lots, Submitted(t, act, of, asked),
         act # "open" => row[of].status # "none",
         UNCHANGED <<row, venue, chain, sweep, streak, glitches, faults>>
  PROVE  LiveInv'
<1>0. LiveTypes
  BY DEF LiveInv
<1>1. /\ tab' \in [Tabs -> TabRec] /\ \A u \in Tabs : u # t => tab'[u] = tab[u]
      /\ tab'[t].pc = "authorized" /\ tab'[t].att = New /\ tab'[t].act = act /\ tab'[t].of = of
      /\ attempt' \in [Attempts -> AttemptRec]
      /\ New \in Attempts /\ attempt[New] = NoAttempt
      /\ attempt'[New].status = "submitted" /\ attempt'[New].act = act /\ attempt'[New].of = of
      /\ attempt'[New].told = "none" /\ attempt'[New].real = FALSE
      /\ \A a \in Attempts : a # New => attempt'[a] = Expired[a]
  BY <1>0, SubmitMoves
<1>2. \A a \in Attempts : a # New =>
        /\ attempt'[a].act = attempt[a].act /\ attempt'[a].of = attempt[a].of
        /\ attempt'[a].told = attempt[a].told /\ attempt'[a].real = attempt[a].real
        /\ attempt'[a].status # attempt[a].status => attempt[a].status = "submitted"
        /\ attempt'[a].status = "none" <=> attempt[a].status = "none"
  BY <1>0, <1>1, ExpiredOK
<1>3. attempt[New].status = "none" /\ attempt[New].real = FALSE
  BY <1>1 DEF NoAttempt
<1> HIDE DEF New, Expired
<1>4. LiveTypes'
  BY <1>1, QuietRows DEF LiveTypes
<1>5. ToldStands'
  <2>1. \A a \in Attempts : attempt[a].told # "submitted"
    BY <1>0, LiveRecs, AttemptFields DEF Reports
  <2> QED BY <1>1, <1>2, <2>1 DEF LiveInv, ToldStands
<1>6. AttemptsOwned'
  <2>1. \A u \in Tabs : u # t /\ tab'[u].pc \in WithAttempt => tab[u].att # New
    BY <1>1, <1>3, Owned
  <2>2. ASSUME NEW u \in Tabs, u # t, tab'[u].pc \in WithAttempt, NEW a, a = tab'[u].att
        PROVE  /\ a \in Attempts /\ attempt'[a].status # "none"
               /\ attempt'[a].act = tab'[u].act /\ attempt'[a].of = tab'[u].of
               /\ \A v \in Tabs : tab'[v].pc \in WithAttempt /\ tab'[v].att = a => v = u
               /\ tab'[u].pc = "authorized" => attempt'[a].told = "none" /\ ~attempt'[a].real
               /\ tab'[u].pc = "sent" => tab'[u].says # "none"
               /\ tab'[u].pc = "sent" /\ tab'[u].says = "filled" /\ tab'[u].id => attempt'[a].real
               /\ tab'[u].pc \in {"apply", "write"} => attempt'[a].real
               /\ tab'[u].pc = "write" => tab'[u].act # "open"
    BY <1>1, <1>2, <2>1, <2>2 DEF LiveInv, AttemptsOwned
  <2>3. \A v \in Tabs : tab'[v].pc \in WithAttempt /\ tab'[v].att = New => v = t
    BY <1>1, <2>1
  <2> QED BY <1>1, <2>2, <2>3 DEF AttemptsOwned
<1>7. RowsMade'
  BY <1>1 DEF LiveInv, RowsMade
<1>8. ClosesAreReal'
  BY <1>2, <1>3, ClosesStay
<1> QED BY <1>4, <1>5, <1>6, <1>7, <1>8, QuietRows DEF LiveInv

(* Tabs keep what they own when they keep their attempts. *)
Told(u) ==
  LET a == tab[u].att IN
  /\ tab[u].pc = "authorized" => attempt[a].told = "none" /\ ~attempt[a].real
  /\ tab[u].pc = "sent" => tab[u].says # "none"
  /\ tab[u].pc = "sent" /\ tab[u].says = "filled" /\ tab[u].id => attempt[a].real
  /\ tab[u].pc \in {"apply", "write"} => attempt[a].real
  /\ tab[u].pc = "write" => tab[u].act # "open"

(* Attempts stay with their tabs where no tab gets one anew and the told    *)
(* ones stay told.                                                          *)
LEMMA OwnedKept ==
  ASSUME LiveInv,
         \A u \in Tabs : tab'[u].pc \in WithAttempt =>
           /\ tab[u].pc \in WithAttempt /\ tab'[u].att = tab[u].att /\ tab'[u].act = tab[u].act
           /\ tab'[u].of = tab[u].of
           /\ Told(u)',
         \A a \in Attempts : /\ attempt'[a].act = attempt[a].act /\ attempt'[a].of = attempt[a].of
                             /\ attempt'[a].status = "none" => attempt[a].status = "none"
  PROVE  AttemptsOwned'
BY DEF LiveInv, AttemptsOwned, Told

(* Who works on an attempt has it told what it was.                         *)
LEMMA ToldNow ==
  ASSUME LiveInv, NEW u \in Tabs, tab[u].pc \in WithAttempt
  PROVE  Told(u)
BY DEF LiveInv, AttemptsOwned, Told

(* The check before a close keeps the invariant.                            *)
LEMMA CheckOK ==
  ASSUME LiveInv, NEW t \in Tabs, NEW p \in Attempts, CheckClose(t, p)
  PROVE  LiveInv'
<1>0. LiveTypes
  BY DEF LiveInv
<1>1. /\ tab' \in [Tabs -> TabRec] /\ \A u \in Tabs : u # t => tab'[u] = tab[u]
      /\ tab'[t].pc = "checked" /\ tab'[t].act # "open" /\ tab'[t].of = p
      /\ attempt' = Expired /\ p \in ActiveRows
      /\ UNCHANGED <<row, venue, chain, sweep, streak, glitches, faults>>
  BY <1>0, CheckMoves
<1>2. /\ attempt' \in [Attempts -> AttemptRec]
      /\ \A a \in Attempts :
           /\ attempt'[a].act = attempt[a].act /\ attempt'[a].of = attempt[a].of
           /\ attempt'[a].told = attempt[a].told /\ attempt'[a].real = attempt[a].real
           /\ attempt'[a].status # attempt[a].status => attempt[a].status = "submitted"
           /\ attempt'[a].status = "none" <=> attempt[a].status = "none"
  BY <1>0, <1>1, ExpiredOK
<1> HIDE DEF Expired
<1>3. LiveTypes'
  BY <1>1, <1>2, QuietRows DEF LiveTypes
<1>4. ToldStands'
  <2>1. \A a \in Attempts : attempt[a].told # "submitted"
    BY <1>0, LiveRecs, AttemptFields DEF Reports
  <2> QED BY <1>2, <2>1 DEF LiveInv, ToldStands
<1>5. AttemptsOwned'
  <2>1. ASSUME NEW u \in Tabs, tab'[u].pc \in WithAttempt
        PROVE  tab'[u] = tab[u] /\ tab[u].pc \in WithAttempt /\ Told(u)'
    <3>1. tab'[u] = tab[u]
      BY <1>1, <2>1 DEF WithAttempt
    <3>2. tab[u].att \in Attempts /\ Told(u)
      BY <2>1, <3>1, Owned, ToldNow
    <3> QED BY <1>2, <2>1, <3>1, <3>2 DEF Told
  <2> QED BY <1>2, <2>1, OwnedKept
<1>6. RowsMade'
  BY <1>1 DEF LiveInv, RowsMade, ActiveRows, Active, WithAttempt
<1>7. ClosesAreReal'
  BY <1>1, <1>2, ClosesStay
<1> QED BY <1>1, <1>3, <1>4, <1>5, <1>6, <1>7, QuietRows DEF LiveInv

(* Rows that only see the market empty. *)
LEMMA EmptiedOK ==
  ASSUME LiveInv, venue' \in Nat, row' = Emptied(venue'), chain' = chain,
         UNCHANGED <<sweep, streak, glitches>>
  PROVE  /\ row' \in [Attempts -> RowRec] /\ GoneSeen' /\ MissesAreGlitches' /\ Detachments'
         /\ \A a \in Attempts : row'[a].status = row[a].status /\ (row'[a] = NoRow <=> row[a] = NoRow)
<1>1. LiveTypes
  BY DEF LiveInv
<1>2. /\ row' \in [Attempts -> RowRec]
      /\ \A a \in Attempts :
           /\ row'[a].status = row[a].status /\ row'[a].ripe = row[a].ripe
           /\ row[a].gone => row'[a].gone
           /\ row[a] = NoRow <=> row'[a] = NoRow
           /\ venue' = 0 /\ row[a] # NoRow => row'[a].gone
  BY <1>1, EmptiedIs
<1> HIDE DEF Emptied
<1>3. GoneSeen'
  BY <1>2 DEF LiveInv, GoneSeen, Ripe
<1>4. MissesAreGlitches'
  BY <1>2 DEF LiveInv, MissesAreGlitches, Misread, Ripe
<1>5. Detachments'
  BY <1>2 DEF LiveInv, Detachments, DetachedWasGone
<1> QED BY <1>2, <1>3, <1>4, <1>5

(* Closes stay real while no row is reduced. *)
LEMMA ClosesKept ==
  ASSUME LiveInv, \A a \in Attempts : row'[a].status \in {"partially_closed", "closed"} => row'[a].status = row[a].status,
         \A a \in Attempts : attempt[a].real =>
           attempt'[a].of = attempt[a].of /\ attempt'[a].act = attempt[a].act /\ attempt'[a].real
  PROVE  ClosesAreReal'
BY DEF LiveInv, ClosesAreReal

(* The order keeps it.                                                      *)
LEMMA SendOK ==
  ASSUME LiveInv, NEW t \in Tabs, SendOrder(t)
  PROVE  LiveInv'
<1>0. LiveTypes /\ tab[t].pc = "authorized" /\ tab[t].att \in Attempts
  BY Owned DEF LiveInv, SendOrder, WithAttempt
<1> DEFINE x == tab[t].att
<1>1. /\ tab' \in [Tabs -> TabRec] /\ \A u \in Tabs : u # t => tab'[u] = tab[u]
      /\ tab'[t].pc = "sent" /\ tab'[t].att = x /\ tab'[t].act = tab[t].act
      /\ tab'[t].of = tab[t].of /\ tab'[t].says # "none"
      /\ attempt' \in [Attempts -> AttemptRec]
      /\ \A a \in Attempts : a # x => attempt'[a] = attempt[a]
      /\ attempt'[x].status = attempt[x].status /\ attempt'[x].told = attempt[x].told
      /\ attempt'[x].act = attempt[x].act /\ attempt'[x].of = attempt[x].of
      /\ (tab'[t].says = "filled" /\ tab'[t].id => attempt'[x].real)
      /\ venue' \in Nat /\ row' = Emptied(venue')
      /\ UNCHANGED <<chain, sweep, streak, glitches, faults>>
  BY <1>0, SendMoves
<1>2. /\ row' \in [Attempts -> RowRec] /\ GoneSeen' /\ MissesAreGlitches' /\ Detachments'
      /\ \A a \in Attempts : row'[a].status = row[a].status /\ (row'[a] = NoRow <=> row[a] = NoRow)
  BY <1>1, EmptiedOK
<1>3. Told(t) /\ ~attempt[x].real /\ \A u \in Tabs : tab[u].pc \in WithAttempt /\ u # t => tab[u].att # x
  BY <1>0 DEF LiveInv, AttemptsOwned, Told, WithAttempt
<1>4. LiveTypes'
  BY <1>0, <1>1, <1>2 DEF LiveTypes
<1>5. ToldStands'
  BY <1>1 DEF LiveInv, ToldStands
<1>6. AttemptsOwned'
  <2>1. ASSUME NEW u \in Tabs, u # t, tab'[u].pc \in WithAttempt
        PROVE  tab'[u] = tab[u] /\ tab[u].pc \in WithAttempt /\ Told(u)'
    <3>1. tab'[u] = tab[u] /\ tab[u].att \in Attempts /\ Told(u) /\ tab[u].att # x
      BY <1>1, <1>3, <2>1, Owned, ToldNow
    <3> QED BY <1>1, <2>1, <3>1 DEF Told
  <2>2. Told(t)' /\ tab[t].pc \in WithAttempt
    BY <1>0, <1>1 DEF Told, WithAttempt
  <2>3. \A a \in Attempts : /\ attempt'[a].act = attempt[a].act /\ attempt'[a].of = attempt[a].of
                            /\ attempt'[a].status = "none" => attempt[a].status = "none"
    BY <1>1
  <2> QED BY <1>1, <2>1, <2>2, <2>3, OwnedKept
<1>7. RowsMade'
  BY <1>0, <1>1, <1>2 DEF LiveInv, RowsMade, WithAttempt
<1>8. ClosesAreReal'
  BY <1>1, <1>2, <1>3, ClosesKept
<1> QED BY <1>2, <1>4, <1>5, <1>6, <1>7, <1>8 DEF LiveInv

(* The report keeps it: a status told stands.                               *)
LEMMA ReportOK ==
  ASSUME LiveInv, NEW t \in Tabs, Report(t)
  PROVE  LiveInv'
<1>0. LiveTypes /\ tab[t].pc = "sent" /\ tab[t].att \in Attempts /\ tab[t].says # "none" /\ Told(t)
  BY Owned, ToldNow DEF LiveInv, Report, WithAttempt, Told
<1> DEFINE x == tab[t].att
<1>1. /\ tab' \in [Tabs -> TabRec] /\ \A u \in Tabs : u # t => tab'[u] = tab[u]
      /\ \/ tab'[t].pc = "idle"
         \/ /\ tab'[t].pc \in {"apply", "downgrade"} /\ tab'[t].att = x
            /\ tab'[t].act = tab[t].act /\ tab'[t].of = tab[t].of
            /\ tab[t].says = "filled" /\ (tab'[t].pc = "apply" => tab[t].id)
      /\ tab[t].says \in Reports
      /\ attempt' = Written(x, tab[t].says)
      /\ UNCHANGED <<row, venue, chain, sweep, streak, glitches, faults>>
  BY <1>0, ReportMoves
<1>2. /\ attempt' \in [Attempts -> AttemptRec]
      /\ attempt'[x].status = tab[t].says /\ attempt'[x].told = tab[t].says
      /\ \A b \in Attempts :
           /\ b # x => attempt'[b] = attempt[b]
           /\ attempt'[b].act = attempt[b].act /\ attempt'[b].of = attempt[b].of
           /\ attempt'[b].real = attempt[b].real
  BY <1>0, <1>1, WrittenIs
<1> HIDE DEF Written
<1>3. attempt[x].status # "none" /\ \A u \in Tabs : tab[u].pc \in WithAttempt /\ u # t => tab[u].att # x
  BY <1>0 DEF LiveInv, AttemptsOwned, WithAttempt
<1>4. LiveTypes'
  BY <1>1, <1>2, QuietRows DEF LiveTypes
<1>5. ToldStands'
  BY <1>2 DEF LiveInv, ToldStands
<1>6. AttemptsOwned'
  <2>1. ASSUME NEW u \in Tabs, u # t, tab'[u].pc \in WithAttempt
        PROVE  tab'[u] = tab[u] /\ tab[u].pc \in WithAttempt /\ Told(u)'
    <3>1. tab'[u] = tab[u] /\ tab[u].att \in Attempts /\ Told(u) /\ tab[u].att # x
      BY <1>1, <1>3, <2>1, Owned, ToldNow
    <3> QED BY <1>2, <2>1, <3>1 DEF Told
  <2>2. tab'[t].pc \in WithAttempt => Told(t)' /\ tab'[t].att = x /\ tab'[t].act = tab[t].act
                                      /\ tab'[t].of = tab[t].of
    BY <1>0, <1>1, <1>2 DEF Told, WithAttempt
  <2>3. \A a \in Attempts : /\ attempt'[a].act = attempt[a].act /\ attempt'[a].of = attempt[a].of
                            /\ attempt'[a].status = "none" => attempt[a].status = "none"
    BY <1>1, <1>2 DEF Reports
  <2>4. tab[t].pc \in WithAttempt
    BY <1>0 DEF WithAttempt
  <2> QED BY <1>1, <2>1, <2>2, <2>3, <2>4, OwnedKept
<1>7. RowsMade'
  BY <1>0, <1>1 DEF LiveInv, RowsMade, WithAttempt
<1>8. ClosesAreReal'
  BY <1>1, <1>2, ClosesStay
<1> QED BY <1>1, <1>4, <1>5, <1>6, <1>7, <1>8, QuietRows DEF LiveInv

(* Tabs that end or stay as they are, the attempts as they were. *)
LEMMA EndsKeep ==
  ASSUME LiveInv, \A u \in Tabs : tab'[u] = tab[u] \/ tab'[u].pc = "idle",
         \A a \in Attempts : /\ attempt'[a].act = attempt[a].act /\ attempt'[a].of = attempt[a].of
                             /\ attempt'[a].real = attempt[a].real /\ attempt'[a].told = attempt[a].told
                             /\ attempt'[a].status = attempt[a].status,
         \A a \in Attempts : /\ row[a].status # "none" => row'[a].status # "none"
                             /\ row'[a].status = "none" <=> row'[a] = NoRow
  PROVE  ToldStands' /\ AttemptsOwned' /\ RowsMade'
<1>1. ToldStands'
  BY DEF LiveInv, ToldStands
<1>2. ASSUME NEW u \in Tabs, tab'[u].pc \in WithAttempt
      PROVE  tab'[u] = tab[u] /\ tab[u].pc \in WithAttempt /\ Told(u)'
  <2>1. tab'[u] = tab[u]
    BY <1>2 DEF WithAttempt
  <2>2. tab[u].att \in Attempts /\ Told(u)
    BY <1>2, <2>1, Owned, ToldNow
  <2> QED BY <1>2, <2>1, <2>2 DEF Told
<1>3. AttemptsOwned'
  BY <1>2, OwnedKept
<1>4. RowsMade'
  BY DEF LiveInv, RowsMade, WithAttempt
<1> QED BY <1>1, <1>3, <1>4

(* The downgrade writes failed over it.                                     *)
LEMMA DowngradeOK ==
  ASSUME LiveInv, NEW t \in Tabs, Downgrade(t)
  PROVE  LiveInv'
<1>0. LiveTypes /\ tab[t].pc = "downgrade" /\ tab[t].att \in Attempts
  BY Owned DEF LiveInv, Downgrade, WithAttempt
<1> DEFINE x == tab[t].att
<1>1. /\ tab' \in [Tabs -> TabRec] /\ \A u \in Tabs : u # t => tab'[u] = tab[u]
      /\ tab'[t].pc = "idle" /\ attempt' = Written(x, "failed")
      /\ UNCHANGED <<row, venue, chain, sweep, streak, glitches, faults>>
  BY <1>0, TabEnds DEF Downgrade
<1>2. /\ attempt' \in [Attempts -> AttemptRec]
      /\ attempt'[x].status = "failed" /\ attempt'[x].told = "failed"
      /\ \A b \in Attempts :
           /\ b # x => attempt'[b] = attempt[b]
           /\ attempt'[b].act = attempt[b].act /\ attempt'[b].of = attempt[b].of
           /\ attempt'[b].real = attempt[b].real
  BY <1>0, <1>1, WrittenIs DEF Reports
<1> HIDE DEF Written
<1>3. \A u \in Tabs : tab[u].pc \in WithAttempt /\ u # t => tab[u].att # x
  BY <1>0 DEF LiveInv, AttemptsOwned, WithAttempt
<1>4. LiveTypes'
  BY <1>1, <1>2, QuietRows DEF LiveTypes
<1>5. ToldStands'
  BY <1>2 DEF LiveInv, ToldStands
<1>6. AttemptsOwned'
  <2>1. ASSUME NEW u \in Tabs, tab'[u].pc \in WithAttempt
        PROVE  tab'[u] = tab[u] /\ tab[u].pc \in WithAttempt /\ Told(u)'
    <3>1. u # t
      BY <1>1, <2>1 DEF WithAttempt
    <3>2. tab'[u] = tab[u] /\ tab[u].att \in Attempts /\ Told(u) /\ tab[u].att # x
      BY <1>1, <1>3, <2>1, <3>1, Owned, ToldNow
    <3> QED BY <1>2, <2>1, <3>2 DEF Told
  <2>2. \A a \in Attempts : /\ attempt'[a].act = attempt[a].act /\ attempt'[a].of = attempt[a].of
                            /\ attempt'[a].status = "none" => attempt[a].status = "none"
    BY <1>2
  <2> QED BY <2>1, <2>2, OwnedKept
<1>7. RowsMade'
  BY <1>0, <1>1 DEF LiveInv, RowsMade, WithAttempt
<1>8. ClosesAreReal'
  BY <1>1, <1>2, ClosesStay
<1> QED BY <1>1, <1>4, <1>5, <1>6, <1>7, <1>8, QuietRows DEF LiveInv

(* Rows that are made or written, the market and the sweep as they were.    *)
LEMMA RowsKept ==
  ASSUME LiveInv, UNCHANGED <<venue, chain, sweep, streak, glitches>>,
         \A a \in Attempts :
           \/ row'[a] = row[a]
           \/ row[a] = NoRow /\ ~row'[a].ripe /\ (venue = 0 => row'[a].gone) /\ row'[a].status = "open"
           \/ /\ row[a] # NoRow /\ row'[a].ripe = row[a].ripe /\ row'[a].gone = row[a].gone
              /\ row'[a].status # "detached"
  PROVE  GoneSeen' /\ MissesAreGlitches' /\ Detachments'
<1>1. \A a \in Attempts : row[a] = NoRow => ~row[a].gone
  BY DEF NoRow
<1>2. GoneSeen'
  BY DEF LiveInv, GoneSeen, Ripe
<1>3. MissesAreGlitches'
  BY <1>1 DEF LiveInv, MissesAreGlitches, Misread, Ripe
<1>4. Detachments'
  BY DEF LiveInv, Detachments, DetachedWasGone
<1> QED BY <1>2, <1>3, <1>4

(* The row of an open keeps it: one row for an attempt.                     *)
LEMMA OpenOK ==
  ASSUME LiveInv, NEW t \in Tabs, OpenRow(t)
  PROVE  LiveInv'
<1>0. LiveTypes /\ tab[t].att \in Attempts
  BY Owned DEF LiveInv, OpenRow, WithAttempt
<1> DEFINE x == tab[t].att
<1>1. /\ row' \in [Attempts -> RowRec]
      /\ \A a \in Attempts : a # x \/ row[a] # NoRow => row'[a] = row[a]
      /\ row[x] = NoRow => /\ row'[x].status = "open" /\ row'[x].ripe = FALSE
                            /\ row'[x].gone = (venue = 0) /\ row'[x] # NoRow
      /\ tab' = [tab EXCEPT ![t] = IdleTab]
      /\ UNCHANGED <<attempt, venue, chain, sweep, streak, glitches, faults>>
  BY <1>0, OpenMoves
<1>2. tab' \in [Tabs -> TabRec] /\ tab'[t].pc = "idle" /\ \A u \in Tabs : u # t => tab'[u] = tab[u]
  BY <1>0, <1>1, TabEnds
<1>3. LiveTypes'
  BY <1>0, <1>1, <1>2 DEF LiveTypes
<1>4. \A a \in Attempts : /\ row[a].status # "none" => row'[a].status # "none"
                          /\ row'[a].status = "none" <=> row'[a] = NoRow
  BY <1>1 DEF LiveInv, RowsMade
<1>5. ToldStands' /\ AttemptsOwned' /\ RowsMade'
  BY <1>1, <1>2, <1>4, EndsKeep
<1>6. GoneSeen' /\ MissesAreGlitches' /\ Detachments'
  BY <1>1, RowsKept
<1>7. ClosesAreReal'
  BY <1>1, ClosesKept
<1> QED BY <1>3, <1>5, <1>6, <1>7 DEF LiveInv

(* So does the read of a close,                                             *)
LEMMA ReadOK ==
  ASSUME LiveInv, NEW t \in Tabs, ReadRow(t)
  PROVE  LiveInv'
<1>0. LiveTypes /\ tab[t].att \in Attempts /\ tab[t].of \in Attempts /\ Told(t) /\ tab[t].pc \in WithAttempt
  BY Owned, ToldNow DEF LiveInv, ReadRow, WithAttempt
<1>1. /\ tab[t].pc = "apply" /\ tab[t].act # "open"
      /\ tab' \in [Tabs -> TabRec] /\ \A u \in Tabs : u # t => tab'[u] = tab[u]
      /\ tab'[t].pc = "write" /\ tab'[t].att = tab[t].att /\ tab'[t].act = tab[t].act
      /\ tab'[t].of = tab[t].of
      /\ UNCHANGED <<attempt, row, venue, chain, sweep, streak, glitches, faults>>
  BY <1>0, ReadMoves
<1>2. LiveTypes'
  BY <1>0, <1>1 DEF LiveTypes
<1>3. ToldStands' /\ RowsMade'
  BY <1>0, <1>1 DEF LiveInv, ToldStands, RowsMade
<1>4. AttemptsOwned'
  <2>1. ASSUME NEW u \in Tabs, u # t, tab'[u].pc \in WithAttempt
        PROVE  tab'[u] = tab[u] /\ tab[u].pc \in WithAttempt /\ Told(u)'
    <3>1. tab'[u] = tab[u] /\ Told(u)
      BY <1>1, <2>1, ToldNow
    <3> QED BY <1>1, <2>1, <3>1 DEF Told
  <2>2. Told(t)'
    BY <1>0, <1>1 DEF Told
  <2> QED BY <1>0, <1>1, <2>1, <2>2, OwnedKept
<1>5. ClosesAreReal'
  BY <1>1, ClosesStay
<1> QED BY <1>1, <1>2, <1>3, <1>4, <1>5, QuietRows DEF LiveInv

(* and its write: a row is closed by an order the venue took.               *)
LEMMA WriteOK ==
  ASSUME LiveInv, NEW t \in Tabs, WriteRow(t)
  PROVE  LiveInv'
<1> DEFINE x == tab[t].att
           p == tab[t].of
<1>0. /\ LiveTypes /\ x \in Attempts /\ Told(t) /\ tab[t].pc = "write" /\ tab[t].act # "open"
      /\ p \in Attempts /\ row[p].status # "none" /\ attempt[x].act = tab[t].act /\ attempt[x].of = p
  BY Owned, ToldNow DEF LiveInv, WriteRow, WithAttempt, Told
<1>1. /\ row' \in [Attempts -> RowRec]
      /\ \A a \in Attempts : a # p => row'[a] = row[a]
      /\ row'[p].status \in {"closed", "partially_closed"}
      /\ row'[p].ripe = row[p].ripe /\ row'[p].gone = row[p].gone
      /\ tab' = [tab EXCEPT ![t] = IdleTab]
      /\ UNCHANGED <<attempt, venue, chain, sweep, streak, glitches, faults>>
  BY <1>0, WriteMoves
<1>2. tab' \in [Tabs -> TabRec] /\ tab'[t].pc = "idle" /\ \A u \in Tabs : u # t => tab'[u] = tab[u]
  BY <1>0, <1>1, TabEnds
<1>3. LiveTypes'
  BY <1>0, <1>1, <1>2 DEF LiveTypes
<1>4. NoRow.status = "none" /\ row[p] # NoRow
  BY <1>0 DEF NoRow
<1>5. \A a \in Attempts : /\ row[a].status # "none" => row'[a].status # "none"
                          /\ row'[a].status = "none" <=> row'[a] = NoRow
  BY <1>1, <1>4 DEF LiveInv, RowsMade
<1>6. ToldStands' /\ AttemptsOwned' /\ RowsMade'
  BY <1>1, <1>2, <1>5, EndsKeep
<1>7. GoneSeen' /\ MissesAreGlitches' /\ Detachments'
  <2>1. row'[p].status # "detached"
    BY <1>1
  <2> QED BY <1>1, <1>4, <2>1, RowsKept
<1>8. attempt[x].real /\ attempt[x].act # "open" /\ attempt[x].of = p
  BY <1>0 DEF Told
<1>9. ClosesAreReal'
  BY <1>0, <1>1, <1>8 DEF LiveInv, ClosesAreReal
<1> QED BY <1>3, <1>6, <1>7, <1>9 DEF LiveInv

(* A tab that is closed leaves its attempt where it is.                     *)
LEMMA AbandonOK ==
  ASSUME LiveInv, NEW t \in Tabs, Abandon(t)
  PROVE  LiveInv'
<1>1. LiveTypes /\ UNCHANGED <<attempt, row, venue, chain, sweep, streak, glitches, faults>>
  BY DEF LiveInv, Abandon
<1>2. tab' \in [Tabs -> TabRec] /\ tab'[t].pc = "idle" /\ \A u \in Tabs : u # t => tab'[u] = tab[u]
  BY <1>1, TabEnds DEF Abandon
<1>3. LiveTypes'
  BY <1>1, <1>2 DEF LiveTypes
<1>4. ToldStands' /\ AttemptsOwned' /\ RowsMade'
  BY <1>1, <1>2, EndsKeep DEF LiveInv, RowsMade
<1> QED BY <1>1, <1>3, <1>4, QuietRows, ClosesStay DEF LiveInv

(* A resting order ends.                                                    *)
LEMMA RestOK ==
  ASSUME LiveInv, NEW a \in Attempts, RestEnds(a)
  PROVE  LiveInv'
<1>1. LiveTypes
  BY DEF LiveInv
<1>2. /\ attempt' \in [Attempts -> AttemptRec]
      /\ \A b \in Attempts :
           /\ attempt'[b].status = attempt[b].status /\ attempt'[b].told = attempt[b].told
           /\ attempt'[b].act = attempt[b].act /\ attempt'[b].of = attempt[b].of
           /\ attempt'[b].real = attempt[b].real
      /\ venue' \in Nat /\ row' = Emptied(venue')
      /\ UNCHANGED <<tab, chain, sweep, streak, glitches, faults>>
  BY <1>1, RestMoves
<1>3. /\ row' \in [Attempts -> RowRec] /\ GoneSeen' /\ MissesAreGlitches' /\ Detachments'
      /\ \A b \in Attempts : row'[b].status = row[b].status /\ (row'[b] = NoRow <=> row[b] = NoRow)
  BY <1>2, EmptiedOK
<1>4. LiveTypes'
  BY <1>1, <1>2, <1>3 DEF LiveTypes
<1>5. ToldStands' /\ AttemptsOwned' /\ RowsMade'
  BY <1>2, <1>3, EndsKeep DEF LiveInv, RowsMade
<1>6. ClosesAreReal'
  BY <1>2, <1>3, ClosesKept
<1> QED BY <1>3, <1>4, <1>5, <1>6 DEF LiveInv

(* The follower closes by hand: every row of the market is gone.            *)
LEMMA OutsideOK ==
  ASSUME LiveInv, ClosedOutside
  PROVE  LiveInv'
<1>1. /\ LiveTypes /\ venue' = 0 /\ row' = Emptied(venue') /\ faults < MaxFaults /\ faults' = faults + 1
      /\ UNCHANGED <<attempt, tab, chain, sweep, streak, glitches>>
  BY DEF LiveInv, ClosedOutside
<1>2. /\ row' \in [Attempts -> RowRec] /\ GoneSeen' /\ MissesAreGlitches' /\ Detachments'
      /\ \A b \in Attempts : row'[b].status = row[b].status /\ (row'[b] = NoRow <=> row[b] = NoRow)
  BY <1>1, EmptiedOK
<1>3. LiveTypes'
  BY <1>1, <1>2, LiveBounds DEF LiveTypes
<1>4. ToldStands' /\ AttemptsOwned' /\ RowsMade'
  BY <1>1, <1>2, EndsKeep DEF LiveInv, RowsMade
<1>5. ClosesAreReal'
  BY <1>1, <1>2, ClosesKept
<1> QED BY <1>2, <1>3, <1>4, <1>5 DEF LiveInv

(* A counter below its bound, one up or as it was. *)
LEMMA OneMore ==
  ASSUME NEW n \in Nat, NEW m \in 0 .. n, NEW k, k = m \/ (m < n /\ k = m + 1)
  PROVE  k \in 0 .. n /\ k \in {m, m + 1}
OBVIOUS

(* The sweep reads the chain: an empty read of a market where a ripe row     *)
(* never saw the position gone is a glitch, and the one before it was too.   *)
LEMMA ChainOK ==
  ASSUME LiveInv, SweepChain
  PROVE  LiveInv'
<1>1. /\ LiveTypes /\ UNCHANGED <<attempt, row, tab, venue, chain, streak>>
      /\ GoneSeen /\ MissesAreGlitches
  BY DEF LiveInv, SweepChain
<1>2. glitches \in Nat /\ chain \in Nat /\ glitches <= MaxGlitches /\ faults \in 0 .. MaxFaults
  BY <1>1, LiveBounds DEF LiveTypes
<1>3. /\ glitches' \in 0 .. MaxGlitches /\ faults' \in 0 .. MaxFaults /\ glitches' \in {glitches, glitches + 1}
      /\ sweep' \in SweepRec /\ sweep'.pc = "rows"
      /\ sweep'.saw = "empty" => chain = 0 \/ glitches' = glitches + 1
  <2>1. /\ sweep \in SweepRec
        /\ glitches' = glitches \/ (glitches < MaxGlitches /\ glitches' = glitches + 1)
        /\ faults' = faults \/ (faults < MaxFaults /\ faults' = faults + 1)
    BY <1>1, <1>2, LiveRecs DEF SweepChain
  <2>2. PICK saw \in {"empty", "held", "no account"} :
          /\ sweep' = [sweep EXCEPT !.pc = "rows", !.saw = saw]
          /\ saw = "empty" => chain = 0 \/ glitches' = glitches + 1
    BY DEF SweepChain
  <2>3. sweep' \in SweepRec /\ sweep'.pc = "rows" /\ sweep'.saw = saw
    BY <2>1, <2>2 DEF SweepRec
  <2>4. glitches \in 0 .. MaxGlitches
    BY <1>1 DEF LiveTypes
  <2>5. glitches' \in 0 .. MaxGlitches /\ glitches' \in {glitches, glitches + 1} /\ faults' \in 0 .. MaxFaults
    BY <1>2, <2>1, <2>4, LiveBounds, OneMore
  <2> QED BY <2>1, <2>2, <2>3, <2>4, <2>5
<1>4. LiveTypes'
  BY <1>1, <1>3 DEF LiveTypes
<1>5. MissesAreGlitches'
  <2>1. \A a \in Attempts : row[a] = NoRow => ~row[a].ripe
    BY DEF NoRow
  <2> QED BY <1>1, <1>2, <1>3, <2>1 DEF MissesAreGlitches, Misread, Ripe, GoneSeen
<1>6. GoneSeen' /\ Detachments'
  BY <1>1 DEF LiveInv, GoneSeen, Detachments, DetachedWasGone, Ripe
<1>7. ToldStands' /\ AttemptsOwned' /\ RowsMade'
  BY <1>1, EndsKeep DEF LiveInv, RowsMade
<1>8. ClosesAreReal'
  BY <1>1, ClosesStay
<1> QED BY <1>4, <1>5, <1>6, <1>7, <1>8 DEF LiveInv

(* What is due has been missed twice, once at most by a glitch. *)
LEMMA SweepRowsOK ==
  ASSUME LiveInv, SweepRows
  PROVE  LiveInv'
<1>1. LiveTypes
  BY DEF LiveInv
<1>2. /\ sweep.pc = "rows" /\ streak' \in [Attempts -> 0 .. 2]
      /\ \A a \in Attempts : streak'[a] > 0 => streak[a] > 0 \/ (sweep.saw = "empty" /\ Ripe(a))
      /\ sweep'.pc \in {"idle", "detach"} /\ sweep'.due \subseteq Attempts /\ sweep'.saw = "none"
      /\ sweep' \in SweepRec
      /\ \A a \in sweep'.due : sweep.saw = "empty" /\ Ripe(a) /\ streak[a] > 0
      /\ UNCHANGED <<attempt, row, tab, venue, chain, glitches, faults>>
  BY <1>1, SweepRowsMoves
<1>3. LiveTypes'
  BY <1>1, <1>2 DEF LiveTypes
<1>4. glitches \in Nat /\ glitches <= MaxGlitches /\ MaxGlitches \in Nat /\ \A a \in Attempts : streak[a] \in Nat
  BY <1>1, LiveBounds DEF LiveTypes
<1>5. MissesAreGlitches'
  BY <1>2, <1>4 DEF LiveInv, MissesAreGlitches, Misread, Ripe
<1>6. GoneSeen' /\ Detachments'
  BY <1>2 DEF LiveInv, GoneSeen, Detachments, DetachedWasGone, Ripe
<1>7. ToldStands' /\ AttemptsOwned' /\ RowsMade'
  BY <1>2, EndsKeep DEF LiveInv, RowsMade
<1>8. ClosesAreReal'
  BY <1>2, ClosesStay
<1> QED BY <1>3, <1>5, <1>6, <1>7, <1>8 DEF LiveInv

(* The sweep detaches: two empty reads in a row, one of which told the      *)
(* truth.                                                                   *)
LEMMA DetachOK ==
  ASSUME LiveInv, SweepDetach
  PROVE  LiveInv'
<1>1. LiveTypes
  BY DEF LiveInv
<1>2. /\ sweep.pc = "detach" /\ row' \in [Attempts -> RowRec] /\ streak' \in [Attempts -> 0 .. 2]
      /\ \A a \in Attempts :
           /\ row'[a].gone = row[a].gone /\ row'[a].ripe = row[a].ripe
           /\ streak'[a] \in {0, streak[a]}
           /\ \/ row'[a] = row[a]
              \/ a \in sweep.due /\ row[a].status \in Active /\ row'[a].status = "detached"
      /\ sweep' = IdleSweep /\ UNCHANGED <<attempt, tab, venue, chain, glitches, faults>>
  BY <1>1, DetachMoves
<1>3. sweep' \in SweepRec /\ sweep'.pc = "idle"
  BY <1>2 DEF IdleSweep, SweepRec
<1>4. LiveTypes'
  BY <1>1, <1>2, <1>3 DEF LiveTypes
<1>5. NoRow.status = "none" /\ "none" \notin Active
  BY DEF NoRow, Active
<1>6. \A a \in Attempts : /\ row[a].status # "none" => row'[a].status # "none"
                          /\ row'[a].status = "none" <=> row'[a] = NoRow
                          /\ row'[a] # NoRow => row[a] # NoRow
  BY <1>2, <1>5 DEF LiveInv, RowsMade
<1>7. ToldStands' /\ AttemptsOwned' /\ RowsMade'
  BY <1>2, <1>6, EndsKeep
<1>8. GoneSeen'
  BY <1>2, <1>6 DEF LiveInv, GoneSeen, Ripe
<1>9. MissesAreGlitches'
  BY <1>2, <1>3 DEF LiveInv, MissesAreGlitches, Misread, Ripe
<1>10. Detachments'
  BY <1>2 DEF LiveInv, Detachments, DetachedWasGone, MissesAreGlitches
<1>11. ClosesAreReal'
  BY <1>2, ClosesKept
<1> QED BY <1>4, <1>7, <1>8, <1>9, <1>10, <1>11 DEF LiveInv

(* A restart of the sweep forgets its misses.                               *)
LEMMA SweepRestartOK ==
  ASSUME LiveInv, SweepRestart
  PROVE  LiveInv'
<1>1. /\ LiveTypes /\ faults < MaxFaults /\ faults' = faults + 1 /\ sweep' = IdleSweep
      /\ streak' = [a \in Attempts |-> 0]
      /\ UNCHANGED <<attempt, row, venue, chain, glitches>>
  BY DEF LiveInv, SweepRestart
<1>2. sweep' \in SweepRec /\ sweep'.pc = "idle"
  BY <1>1 DEF IdleSweep, SweepRec
<1>3. tab' \in [Tabs -> TabRec] /\ \A u \in Tabs : tab'[u] = tab[u] \/ tab'[u].pc = "idle"
  <2>1. tab' = [t \in Tabs |-> IF tab[t].pc \in {"apply", "downgrade", "write", "checked"} THEN IdleTab ELSE tab[t]]
    BY DEF SweepRestart
  <2>2. \A u \in Tabs : tab[u] \in TabRec
    BY <1>1, LiveRecs
  <2> QED BY <2>1, <2>2, IdleTabOK
<1>4. LiveTypes'
  <2>1. faults \in 0 .. MaxFaults
    BY <1>1 DEF LiveTypes
  <2>2. faults' \in 0 .. MaxFaults /\ streak' \in [Attempts -> 0 .. 2]
    BY <1>1, <2>1, LiveBounds
  <2> QED BY <1>1, <1>2, <1>3, <2>2 DEF LiveTypes
<1>5. ToldStands' /\ AttemptsOwned' /\ RowsMade'
  BY <1>1, <1>3, EndsKeep DEF LiveInv, RowsMade
<1>6. GoneSeen' /\ MissesAreGlitches' /\ Detachments'
  BY <1>1, <1>2 DEF LiveInv, GoneSeen, MissesAreGlitches, Detachments, DetachedWasGone, Misread, Ripe
<1>7. ClosesAreReal'
  BY <1>1, ClosesStay
<1> QED BY <1>4, <1>5, <1>6, <1>7 DEF LiveInv

(* Time makes rows ripe and attempts expire.                                *)
LEMMA TimeOK ==
  ASSUME LiveInv, LiveTime
  PROVE  LiveInv'
<1>0. LiveTypes /\ GoneSeen
  BY DEF LiveInv
<1>1. ASSUME NEW a \in Attempts, Grow(a), UNCHANGED <<tab, venue, chain, sweep, streak, glitches, faults>>
      PROVE  LiveInv'
  <2>1. /\ attempt' \in [Attempts -> AttemptRec] /\ row' \in [Attempts -> RowRec]
        /\ \A b \in Attempts :
             /\ attempt'[b].status = attempt[b].status /\ attempt'[b].told = attempt[b].told
             /\ attempt'[b].act = attempt[b].act /\ attempt'[b].of = attempt[b].of
             /\ attempt'[b].real = attempt[b].real
             /\ row'[b].status = row[b].status /\ row'[b].gone = row[b].gone
             /\ row[b] = NoRow <=> row'[b] = NoRow
             /\ row'[b].ripe # row[b].ripe => chain = venue /\ sweep.pc # "rows"
    BY <1>0, <1>1, GrowMoves
  <2>2. LiveTypes'
    BY <1>0, <1>1, <2>1 DEF LiveTypes
  <2>3. ToldStands' /\ AttemptsOwned' /\ RowsMade'
    BY <1>1, <2>1, EndsKeep DEF LiveInv, RowsMade
  <2>4. GoneSeen' /\ MissesAreGlitches' /\ Detachments'
    BY <1>0, <1>1, <2>1 DEF LiveInv, GoneSeen, MissesAreGlitches, Detachments, DetachedWasGone, Misread, Ripe
  <2>5. ClosesAreReal'
    BY <2>1, ClosesKept
  <2> QED BY <2>2, <2>3, <2>4, <2>5 DEF LiveInv
<1>2. CASE chain' = venue /\ UNCHANGED <<attempt, row, tab, venue, sweep, streak, glitches, faults>>
  <2>1. LiveTypes'
    BY <1>0, <1>2 DEF LiveTypes
  <2>2. ToldStands' /\ AttemptsOwned' /\ RowsMade'
    BY <1>2, EndsKeep DEF LiveInv, RowsMade
  <2>3. GoneSeen' /\ MissesAreGlitches' /\ Detachments'
    BY <1>0, <1>2 DEF LiveInv, GoneSeen, MissesAreGlitches, Detachments, DetachedWasGone, Misread, Ripe
  <2>4. ClosesAreReal'
    BY <1>2, ClosesStay
  <2> QED BY <2>1, <2>2, <2>3, <2>4 DEF LiveInv
<1> QED BY <1>1, <1>2 DEF LiveTime

(* Every step keeps the invariant. *)
LEMMA LiveStep ==
  ASSUME LiveInv, [LiveNext]_liveVars
  PROVE  LiveInv'
<1>1. ASSUME NEW t \in Tabs, StartOpen(t) PROVE LiveInv'
  <2>1. New \in Attempts
    BY <1>1, NewIsUnused DEF StartOpen, Submitted
  <2>2. PICK n \in 1 .. Lots : Submitted(t, "open", New, n)
    BY <1>1 DEF StartOpen
  <2>3. n \in 0 .. Lots /\ UNCHANGED <<row, venue, chain, sweep, streak, glitches, faults>>
    BY <1>1, LiveBounds DEF StartOpen
  <2> HIDE DEF New
  <2> QED BY <2>1, <2>2, <2>3, SubmitOK
<1>2. ASSUME NEW t \in Tabs, PersistClose(t) PROVE LiveInv'
  <2>1. /\ tab[t].act # "open" /\ tab[t].of \in Attempts /\ row[tab[t].of].status # "none"
        /\ Submitted(t, tab[t].act, tab[t].of, tab[t].asked)
        /\ UNCHANGED <<row, venue, chain, sweep, streak, glitches, faults>>
    BY <1>2, Owned DEF PersistClose
  <2>2. tab[t].act \in {"open", "close", "reduce"} /\ tab[t].asked \in 0 .. Lots
    BY LiveRecs, TabFields DEF LiveInv
  <2> QED BY <2>1, <2>2, SubmitOK
<1>3. CASE UNCHANGED liveVars
  <2>1. UNCHANGED <<attempt, row, tab, venue, chain, sweep, streak, glitches, faults>>
    BY <1>3 DEF liveVars
  <2>2. LiveTypes'
    BY <2>1 DEF LiveInv, LiveTypes
  <2> QED BY <2>1, <2>2, EndsKeep, QuietRows, ClosesStay DEF LiveInv, RowsMade
<1> QED BY <1>1, <1>2, <1>3, CheckOK, SendOK, ReportOK, DowngradeOK, OpenOK, ReadOK, WriteOK, AbandonOK,
           RestOK, ChainOK, SweepRowsOK, DetachOK, SweepRestartOK, TimeOK, OutsideOK DEF LiveNext

(* The types of the invariant, as LiveCopy states them. *)
LEMMA LiveTypesAreOK ==
  ASSUME LiveTypes
  PROVE  LiveTypeOK
<1>1. \A a \in Attempts :
        /\ attempt[a].status \in {"none", "submitted", "filled", "placed", "failed"}
        /\ row[a].status \in Active \cup {"none", "closed", "detached"} /\ row[a].size \in 0 .. Lots
  <2>1. ASSUME NEW a \in Attempts PROVE attempt[a].status \in Statuses /\ row[a].status \in RowStatuses /\ row[a].size \in 0 .. Lots
    BY LiveRecs DEF AttemptRec, RowRec
  <2>2. \A x \in Statuses : x \in {"none", "submitted", "filled", "placed", "failed"}
    BY DEF Statuses, Reports
  <2>3. \A x \in RowStatuses : x \in Active \cup {"none", "closed", "detached"}
    BY DEF RowStatuses
  <2> QED BY <2>1, <2>2, <2>3
<1>2. \A t \in Tabs : tab[t].pc \in {"idle", "checked", "authorized", "sent", "apply", "downgrade", "write"}
  BY LiveRecs DEF TabRec, TabPoints
<1>3. sweep.pc \in {"idle", "rows", "detach"}
  BY LiveRecs DEF SweepRec
<1> QED BY <1>1, <1>2, <1>3 DEF LiveTypes, LiveTypeOK

(* Attempts, rows and tabs have their types, and no size is below zero or    *)
(* past what is traded.                                                      *)
THEOREM LiveTyped == LiveSpec => []LiveTypeOK
<1>1. LiveInv => LiveTypeOK
  BY LiveTypesAreOK DEF LiveInv
<1> QED BY <1>1, LiveInitOK, LiveStep, PTL DEF LiveSpec

(* What attempts and rows come to is what happened, as long as no more than  *)
(* one read of a held market came back empty: whatever tabs, late reports,   *)
(* expiry, restarts and sweeps overlap (live_orders.py, live_positions.py,   *)
(* venue_reconcile.py).  A second such read in a row is what the sweep takes *)
(* for a position that is gone.                                              *)
THEOREM OutcomesHold == ASSUME MaxGlitches <= 1 PROVE LiveSpec => []OutcomesAreReal
<1>1. LiveInv => OutcomesAreReal
  BY DEF LiveInv, Detachments, OutcomesAreReal, EndsAreReal, ReportsStand, ToldStands
<1> QED BY <1>1, LiveInitOK, LiveStep, PTL DEF LiveSpec

(*****************************************************************************)
(* The services next to each other.                                          *)
(*****************************************************************************)

(* A behaviour of them all is one of each. *)
LEMMA EachStarts ==
  SvcInit => /\ CacheInit /\ BudgetInit /\ NotifyInit /\ LiveInit /\ RiskInit /\ TradeInit /\ FeedInit
             /\ TradesInit /\ RoundInit /\ HistoryInit /\ PaperInit
BY DEF SvcInit

(* A step of them all is a step or a stutter of each. *)
LEMMA EachSteps ==
  ASSUME [SvcNext]_svcVars
  PROVE  /\ [CacheNext]_cacheVars /\ [BudgetNext]_budgetVars /\ [NotifyNext]_notifyVars /\ [LiveNext]_liveVars
         /\ [RiskNext]_riskVars /\ [TradeNext]_tradeVars /\ [FeedNext]_feedVars /\ [TradesNext]_tradesVars
         /\ [RoundNext]_roundVars /\ [HistoryNext]_historyVars /\ [PaperNext]_paperVars
<1>1. CASE UNCHANGED svcVars
  BY <1>1 DEF svcVars
<1>2. CASE SvcNext
  BY <1>2 DEF SvcNext, Only
<1> QED BY <1>1, <1>2

(* The types of every service hold whichever is in focus: the services share *)
(* no state, so a behaviour of them all is one of each.                      *)
THEOREM ServicesTyped == SvcSpec => []ServicesTypeOK
<1> DEFINE AllOK == /\ CacheTypeOK /\ BudgetTypeOK /\ NotifyTypeOK /\ LiveTypeOK /\ RiskTypeOK /\ TradeTypeOK
                    /\ FeedTypeOK /\ TradesTypeOK /\ RoundTypeOK /\ HistoryTypeOK /\ PaperTypeOK
<1>1. [SvcNext]_svcVars =>
        /\ [CacheNext]_cacheVars /\ [BudgetNext]_budgetVars /\ [NotifyNext]_notifyVars /\ [LiveNext]_liveVars
        /\ [RiskNext]_riskVars /\ [TradeNext]_tradeVars /\ [FeedNext]_feedVars /\ [TradesNext]_tradesVars
        /\ [RoundNext]_roundVars /\ [HistoryNext]_historyVars /\ [PaperNext]_paperVars
  BY EachSteps
<1>2. SvcSpec => CacheSpec /\ BudgetSpec /\ NotifySpec /\ LiveSpec
  BY EachStarts, <1>1, PTL DEF SvcSpec, CacheSpec, BudgetSpec, NotifySpec, LiveSpec
<1>3. SvcSpec => RiskSpec /\ TradeSpec /\ FeedSpec /\ TradesSpec
  BY EachStarts, <1>1, PTL DEF SvcSpec, RiskSpec, TradeSpec, FeedSpec, TradesSpec
<1>4. SvcSpec => RoundSpec /\ HistorySpec /\ PaperSpec
  BY EachStarts, <1>1, PTL DEF SvcSpec, RoundSpec, HistorySpec, PaperSpec
<1>5. AllOK => ServicesTypeOK
  BY DEF ServicesTypeOK
<1>6. SvcSpec => [](CacheTypeOK /\ BudgetTypeOK /\ NotifyTypeOK /\ LiveTypeOK)
  BY <1>2, CacheTypesHold, BudgetTyped, NotifyTyped, LiveTyped, PTL
<1>7. SvcSpec => [](RiskTypeOK /\ TradeTypeOK /\ FeedTypeOK /\ TradesTypeOK)
  BY <1>3, RiskTypesHold, TradeTypesHold, FeedTypesHold, TradesTyped, PTL
<1>8. SvcSpec => [](RoundTypeOK /\ HistoryTypeOK /\ PaperTypeOK)
  BY <1>4, RoundTyped, HistoryTyped, PaperTypesHold, PTL
<1> QED BY <1>5, <1>6, <1>7, <1>8, PTL
=============================================================================
