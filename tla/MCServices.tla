----------------------------- MODULE MCServices -----------------------------
(***************************************************************************)
(* The services around the copy engine share no state: one instance of     *)
(* each for TLC.  A behaviour is one of the service in focus, the others   *)
(* stay as they start.                                                     *)
(***************************************************************************)
EXTENDS PerplSession, RespCache, HlBudget, Notify, LiveCopy, PaperRisk, ModelTrade, LeaderFeed,
        TradesFeed, RoundTrips, FillHistory, PaperCopy

VARIABLE focus

svcVars == <<focus, vars, cacheVars, budgetVars, notifyVars, liveVars, riskVars, tradeVars, feedVars,
             tradesVars, roundVars, historyVars, paperVars>>

Services == {"session", "cache", "budget", "notify", "live", "risk", "trade", "feed", "trades", "trips", "history", "paper"}

ClassOfSvc == [r \in Requests |-> IF r = "b" THEN "background" ELSE IF r = "e" THEN "explorer" ELSE "critical"]
WeightOfSvc == [r \in Requests |-> IF r = "c" THEN 2 ELSE 1]
MaxWaitSvc == [c \in Classes |-> IF c = "explorer" THEN 0 ELSE IF c = "critical" THEN 1 ELSE 2]
BreakerMaxSvc == [c \in Classes |-> IF c = "critical" THEN 1 ELSE 3]
MarketsSvc == {"btc"} \X {"long", "short"}
HoldingsSvc == {-1, 0, 1}
StakesSvc == {-1, 0, 1, 2}
KeyOfSvc(f) == IF f = "f3" THEN "f2" ELSE f
SetupsSvc == [entry : {3}, stop : {2}, t1 : {4}, t2 : {5}, t3 : {6, NoTarget}, part : {2},
              after : {"t1", "t2", "near_t2", "never"}, fallback : BOOLEAN, replaces : BOOLEAN]

SvcInit == Init /\ CacheInit /\ BudgetInit /\ NotifyInit /\ LiveInit /\ RiskInit /\ TradeInit /\ FeedInit
           /\ TradesInit /\ RoundInit /\ HistoryInit /\ PaperInit
           /\ focus \in Services /\ (focus = "paper" \/ atChain = NoHolding)

(* What tells two states apart: the others never change. *)
FocusView ==
  <<focus,
    CASE focus = "session" -> vars
      [] focus = "cache" -> cacheVars
      [] focus = "budget" -> budgetVars
      [] focus = "notify" -> notifyVars
      [] focus = "live" -> liveVars
      [] focus = "risk" -> riskVars
      [] focus = "trade" -> tradeVars
      [] focus = "feed" -> feedVars
      [] focus = "trades" -> tradesVars
      [] focus = "trips" -> roundVars
      [] focus = "history" -> historyVars
      [] focus = "paper" -> paperVars>>

(* Everything but the service in focus stays as it is. *)
Only(service) ==
  /\ focus = service /\ UNCHANGED focus
  /\ service = "session" \/ UNCHANGED vars
  /\ service = "cache" \/ UNCHANGED cacheVars
  /\ service = "budget" \/ UNCHANGED budgetVars
  /\ service = "notify" \/ UNCHANGED notifyVars
  /\ service = "live" \/ UNCHANGED liveVars
  /\ service = "risk" \/ UNCHANGED riskVars
  /\ service = "trade" \/ UNCHANGED tradeVars
  /\ service = "feed" \/ UNCHANGED feedVars
  /\ service = "trades" \/ UNCHANGED tradesVars
  /\ service = "trips" \/ UNCHANGED roundVars
  /\ service = "history" \/ UNCHANGED historyVars
  /\ service = "paper" \/ UNCHANGED paperVars

SvcNext ==
  \/ Only("session") /\ Next
  \/ Only("cache") /\ CacheNext
  \/ Only("budget") /\ BudgetNext
  \/ Only("notify") /\ NotifyNext
  \/ Only("live") /\ LiveNext
  \/ Only("risk") /\ RiskNext
  \/ Only("trade") /\ TradeNext
  \/ Only("feed") /\ FeedNext
  \/ Only("trades") /\ TradesNext
  \/ Only("trips") /\ RoundNext
  \/ Only("history") /\ HistoryNext
  \/ Only("paper") /\ PaperNext

(* The types of every service: no queue past its cap, no breaker past its   *)
(* longest, no size below zero.                                             *)
ServicesTypeOK ==
  /\ focus = "cache" => CacheTypeOK
  /\ focus = "budget" => BudgetTypeOK
  /\ focus = "notify" => NotifyTypeOK
  /\ focus = "live" => LiveTypeOK
  /\ focus = "risk" => RiskTypeOK
  /\ focus = "trade" => TradeTypeOK
  /\ focus = "feed" => FeedTypeOK
  /\ focus = "trades" => TradesTypeOK
  /\ focus = "trips" => RoundTypeOK
  /\ focus = "history" => HistoryTypeOK
  /\ focus = "paper" => PaperTypeOK

SvcSpec == SvcInit /\ [][SvcNext]_svcVars
=============================================================================
