------------------------------ MODULE HlBudget ------------------------------
(***************************************************************************)
(* The shared Hyperliquid client (hyperliquid/client.py): requests of three*)
(* classes are admitted into a rolling weight window, each class up to its *)
(* own ceiling; a 429 opens breakers.  Time is in ticks, every waiter polls*)
(* once a tick: the window gets emptier with time only.                    *)
(***************************************************************************)
EXTENDS Integers, FiniteSetsExt

CONSTANTS
  Requests, ClassOf, WeightOf, \* tasks calling post_info: priority, base weight
  HardCeiling, SoftCeiling, Headroom, BackgroundCap,
  WindowTicks, MaxWait,        \* MAX_WAIT_SEC per class
  BreakerMax,                  \* BREAKER_MAX_SEC per class; the base is one tick
  Extras, RetryAfter,          \* weights of responses, values of the header
  MaxRefused                   \* bound: 429 answers

Classes == {"critical", "background", "explorer"}
Parts == {"background", "rest"}
Ages == 0 .. WindowTicks - 1

ASSUME BudgetConstants ==
  /\ ClassOf \in [Requests -> Classes] /\ WeightOf \in [Requests -> Nat]
  /\ {HardCeiling, SoftCeiling, Headroom, BackgroundCap, MaxRefused} \subseteq Nat
  /\ WindowTicks \in Nat \ {0} /\ MaxWait \in [Classes -> Nat] /\ BreakerMax \in [Classes -> Nat]
  /\ Extras \cup RetryAfter \subseteq Nat

VARIABLES
  request,   \* _acquire and post_info, per task
  window,    \* _window: weight admitted for the background and for the rest, by age
  breaker,   \* _breaker: ticks still open, consecutive 429s
  refused

budgetVars == <<request, window, breaker, refused>>

IdleReq == [pc |-> "idle", waited |-> 0, polled |-> FALSE]
EndedReq == [pc |-> "idle", waited |-> 0, polled |-> TRUE]

(* The types of the requests, the window and the breakers; no breaker stays
   open longer than its class allows, whatever Retry-After says. *)
BudgetTypeOK ==
  /\ request \in [Requests -> [pc : {"idle", "wait", "sent"}, waited : Nat, polled : BOOLEAN]]
  /\ window \in [Parts -> [Ages -> Nat]]
  /\ breaker \in [Classes -> [left : Nat, n : Nat]]
  /\ \A c \in Classes : breaker[c].left <= BreakerMax[c]
  /\ refused \in 0 .. MaxRefused

BudgetInit ==
  /\ request = [r \in Requests |-> IdleReq]
  /\ window = [p \in Parts |-> [i \in Ages |-> 0]]
  /\ breaker = [c \in Classes |-> [left |-> 0, n |-> 0]]
  /\ refused = 0

-----------------------------------------------------------------------------
Smaller(a, b) == IF a < b THEN a ELSE b
PartUsed(part) == MapThenSumSet(LAMBDA i : window[part][i], Ages)
BackgroundUsed == PartUsed("background")
RestUsed == PartUsed("rest")
Used == BackgroundUsed + RestUsed

(* Mutant: the explorer is capped below the background, as it once was. *)
ClassCeilingOld(c) ==
  CASE c = "critical" -> HardCeiling [] c = "background" -> SoftCeiling
    [] OTHER -> SoftCeiling - Headroom

ClassCeiling(c) ==
  CASE c = "critical" -> HardCeiling
    [] c = "background" -> Max({0, Smaller(SoftCeiling - Headroom, BackgroundCap)})
    [] OTHER -> SoftCeiling

Added(weight, c) == window' = [window EXCEPT ![IF c = "background" THEN c ELSE "rest"][0] = @ + weight]

(* A task calls at most once a tick. *)
Acquire(r) ==
  /\ request[r] = IdleReq
  /\ request' = [request EXCEPT ![r] = [IdleReq EXCEPT !.pc = "wait"]]
  /\ UNCHANGED <<window, breaker, refused>>

Fits(r) == Used + WeightOf[r] <= ClassCeiling(ClassOf[r])
Overdue(r) == request[r].waited >= MaxWait[ClassOf[r]]
BreakerOpen(r) == breaker[ClassOf[r]].left > 0

(* Mutant: the background sits an open breaker out. *)
HopelessExplorer(r) == ClassOf[r] = "explorer"

Hopeless(r) ==
  \/ ClassOf[r] = "explorer"
  \/ ClassOf[r] = "background" /\ breaker["background"].left > MaxWait["background"] - request[r].waited

(* Mutant: a critical request has to wait for room like any other. *)
PastCeilingNever(r) == FALSE

PastCeiling(r) == ClassOf[r] = "critical" /\ Overdue(r)

Admit(r) ==
  /\ request[r].pc = "wait" /\ ~request[r].polled /\ ~BreakerOpen(r)
  /\ Fits(r) \/ PastCeiling(r)
  /\ request' = [request EXCEPT ![r].pc = "sent", ![r].waited = 0]
  /\ Added(WeightOf[r], ClassOf[r])
  /\ UNCHANGED <<breaker, refused>>

(* HLWeightShed: the breaker is open, or the window stayed full. *)
ShedFull(r) == ~BreakerOpen(r) /\ ~Fits(r) /\ Overdue(r) /\ ClassOf[r] # "critical"

Shed(r) ==
  /\ request[r].pc = "wait" /\ ~request[r].polled
  /\ (BreakerOpen(r) /\ Hopeless(r)) \/ ShedFull(r)
  /\ request' = [request EXCEPT ![r] = EndedReq]
  /\ UNCHANGED <<window, breaker, refused>>

KeepWaiting(r) ==
  /\ request[r].pc = "wait" /\ ~request[r].polled
  /\ IF BreakerOpen(r) THEN ~Hopeless(r) ELSE ~Fits(r) /\ ~PastCeiling(r) /\ ~ShedFull(r)
  /\ request' = [request EXCEPT ![r].polled = TRUE]
  /\ UNCHANGED <<window, breaker, refused>>

-----------------------------------------------------------------------------
(* A response: its size is weighed when it is here. *)
Answered(r) ==
  /\ request[r].pc = "sent"
  /\ request' = [request EXCEPT ![r] = EndedReq]
  /\ breaker' = [breaker EXCEPT ![ClassOf[r]].n = 0]
  /\ \E ex \in Extras \cup {0} : Added(ex, "extra")
  /\ UNCHANGED refused

Below(c) == CASE c = "critical" -> Classes [] c = "background" -> {"background", "explorer"}
              [] OTHER -> {"explorer"}

(* Mutant: the venue's Retry-After is taken as it is. *)
OpenedAsTold(b, c, after) ==
  LET n == Smaller(b.n + 1, BreakerMax[c] + 1)
      for == IF after # 0 THEN after ELSE Smaller(2 ^ (n - 1), BreakerMax[c])
  IN [left |-> IF for > b.left THEN for ELSE b.left, n |-> n]

(* _note_429: the breakers of the class and of those below it open. *)
Opened(b, c, after) ==
  LET n == Smaller(b.n + 1, BreakerMax[c] + 1)
      for == Smaller(IF after # 0 THEN after ELSE 2 ^ (n - 1), BreakerMax[c])
  IN [left |-> IF for > b.left THEN for ELSE b.left, n |-> n]

Refused(r) ==
  /\ request[r].pc = "sent" /\ refused < MaxRefused
  /\ refused' = refused + 1
  /\ request' = [request EXCEPT ![r] = EndedReq]
  /\ \E after \in RetryAfter \cup {0} :
       breaker' = [c \in Classes |->
         IF c \in Below(ClassOf[r]) THEN Opened(breaker[c], c, after) ELSE breaker[c]]
  /\ UNCHANGED window

(* The request fails or gets another status: nothing is noted. *)
Lost(r) ==
  /\ request[r].pc = "sent"
  /\ request' = [request EXCEPT ![r] = EndedReq]
  /\ UNCHANGED <<window, breaker, refused>>

BudgetTick ==
  /\ \A r \in Requests : request[r].pc = "wait" => request[r].polled
  /\ window' = [p \in Parts |-> [i \in Ages |-> IF i = 0 THEN 0 ELSE window[p][i - 1]]]
  /\ breaker' = [c \in Classes |-> [breaker[c] EXCEPT !.left = IF @ = 0 THEN 0 ELSE @ - 1]]
  /\ request' = [r \in Requests |-> IF request[r].pc # "wait" THEN [request[r] EXCEPT !.polled = FALSE]
       ELSE [request[r] EXCEPT !.polled = FALSE, !.waited = Smaller(@, MaxWait[ClassOf[r]]) + 1]]
  /\ UNCHANGED refused

Poll(r) == Admit(r) \/ Shed(r) \/ KeepWaiting(r)

BudgetNext ==
  \/ \E r \in Requests : Acquire(r) \/ Poll(r) \/ Answered(r) \/ Refused(r) \/ Lost(r)
  \/ BudgetTick

BudgetSpec == BudgetInit /\ [][BudgetNext]_budgetVars

-----------------------------------------------------------------------------
(* The background never eats the reserve: an explorer request is shed for
   want of room only when it would not fit in the headroom either, beside the
   critical requests, other explorers and responses weighed there. *)
ExplorerHasRoom ==
  [][\A r \in Requests : ClassOf[r] = "explorer" /\ request[r].pc = "wait" /\ request'[r].pc = "idle"
       => BreakerOpen(r) \/ RestUsed + WeightOf[r] > Headroom]_budgetVars

(* Only critical requests ever wait past their deadline, breakers included. *)
WaitsBounded ==
  \A r \in Requests : ClassOf[r] # "critical" => request[r].waited <= MaxWait[ClassOf[r]]

(* A critical request always goes out in the end, past the ceiling if need be. *)
CriticalGoesOut ==
  \A r \in Requests : ClassOf[r] = "critical" /\ request[r].pc = "wait" ~> request[r].pc = "sent"
=============================================================================
