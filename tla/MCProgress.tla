----------------------------- MODULE MCProgress -----------------------------
(***************************************************************************)
(* What must happen in the end, in the services that promise it: one small *)
(* instance of each, one of them in focus in a behaviour.                  *)
(***************************************************************************)
EXTENDS PerplSession, RespCache, HlBudget, Notify, LiveCopy, TradesFeed, FillHistory

VARIABLE focus

progressVars == <<focus, vars, cacheVars, budgetVars, notifyVars, liveVars, tradesVars, historyVars>>

HoldingsFew == {0, 1}
ClassOfFew == [r \in Requests |-> IF r = "b" THEN "background" ELSE "critical"]
WeightOfFew == [r \in Requests |-> IF r = "b" THEN 1 ELSE 2]
MaxWaitFew == [c \in Classes |-> IF c = "explorer" THEN 0 ELSE IF c = "critical" THEN 1 ELSE 2]
BreakerMaxFew == [c \in Classes |-> IF c = "critical" THEN 1 ELSE 2]

ProgressInit ==
  /\ Init /\ CacheInit /\ BudgetInit /\ NotifyInit /\ LiveInit /\ TradesInit /\ HistoryInit
  /\ focus \in {"session", "cache", "budget", "notify", "live", "trades", "history"}

(* Everything but the service in focus stays as it is. *)
Only(service) ==
  /\ focus = service /\ UNCHANGED focus
  /\ service = "session" \/ UNCHANGED vars
  /\ service = "cache" \/ UNCHANGED cacheVars
  /\ service = "budget" \/ UNCHANGED budgetVars
  /\ service = "notify" \/ UNCHANGED notifyVars
  /\ service = "live" \/ UNCHANGED liveVars
  /\ service = "trades" \/ UNCHANGED tradesVars
  /\ service = "history" \/ UNCHANGED historyVars

ProgressNext ==
  \/ Only("session") /\ Next
  \/ Only("cache") /\ CacheNext
  \/ Only("budget") /\ BudgetNext
  \/ Only("notify") /\ NotifyNext
  \/ Only("live") /\ LiveNext
  \/ Only("trades") /\ TradesNext
  \/ Only("history") /\ HistoryNext

(* asyncio runs what is ready and its waits end; a build and a delivery come
   to an end, locks are fair, the drain and the sweeps run again and again; of
   the state reads, some come back in time; the daily job runs every day and
   does not fail every time.  One service only is in focus, so
   one condition may speak of a step of each. *)
CallsFair == \A c \in Calls : WF_progressVars(Only("session") /\ CallStep(c))
ReadersFair ==
  \A r \in Readers :
    /\ WF_progressVars(Only("cache") /\ (BuildOk(r) \/ BuildFails(r)))
    /\ SF_progressVars(Only("cache") /\ TakeLock(r))
RequestsFair == \A r \in Requests : WF_progressVars(Only("budget") /\ Poll(r))
LoopsFair ==
  /\ WF_progressVars(\/ Only("cache") /\ WarmBuilt
                     \/ Only("notify") /\ (TakeMsg \/ TrySend \/ ReportBack)
                     \/ Only("live") /\ (SweepChain \/ SweepRows \/ SweepDetach)
                     \/ Only("trades") /\ (PosSweep \/ PosTake \/ PosDone \/ StateReadFails)
                     \/ Only("history") /\ (JobStart \/ JobTurn))
  /\ WF_progressVars(Only("notify") /\ (DrainCommit \/ \E r \in OutRows : Drain(r)))
TimeFair ==
  /\ SF_progressVars(\/ Only("budget") /\ BudgetTick
                     \/ Only("live") /\ LiveTime
                     \/ Only("trades") /\ StateRead
                     \/ Only("history") /\ JobPage)
  /\ SF_progressVars((Only("trades") /\ Adopt) \/ (Only("history") /\ JobWrite))

ProgressSpec ==
  /\ ProgressInit /\ [][ProgressNext]_progressVars
  /\ CallsFair /\ ReadersFair /\ RequestsFair /\ LoopsFair /\ TimeFair
=============================================================================
