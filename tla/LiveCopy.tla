------------------------------ MODULE LiveCopy ------------------------------
(***************************************************************************)
(* Manual live copies of ONE follower on one side of one market.  The      *)
(* browser asks the server for an attempt (copy/live_orders.py), places the*)
(* order at the venue itself and reports the result (routers/copy.py), from*)
(* which the server keeps the position rows (copy/live_positions.py); a    *)
(* sweep compares the rows with the venue (copy/venue_reconcile.py).       *)
(* A blocked attempt is recorded, places nothing and is left out.          *)
(***************************************************************************)
EXTENDS Integers, FiniteSets

CONSTANTS
  Attempts,                   \* copy_orders rows: bound
  Tabs, Nothing,
  Lots,                       \* the largest order, in lots: bound
  MaxGlitches, MaxFaults      \* bounds: empty reads of a held market; other faults

ASSUME LiveConstants == Nothing \notin Attempts /\ {Lots, MaxGlitches, MaxFaults} \subseteq Nat

VARIABLES
  attempt,   \* copy_orders
  row,       \* copy_live_positions, by the attempt that opened them
  tab,       \* what each browser tab, and the request it waits for, is doing
  venue, chain,   \* the position at the venue, and as the chain reader sees it
  sweep, streak,  \* run_once, _missing_streak
  glitches, faults

liveVars == <<attempt, row, tab, venue, chain, sweep, streak, glitches, faults>>

(* told: the last status reported to the server; real: the venue took the
   order and gave it an id; rests: it is in the book. *)
NoAttempt == [status |-> "none", act |-> "open", of |-> Nothing, stale |-> FALSE,
              told |-> "none", real |-> FALSE, rests |-> FALSE]
(* gone: the venue has held nothing at some time since the row was made. *)
NoRow == [status |-> "none", size |-> 0, ripe |-> FALSE, gone |-> FALSE]
IdleTab == [pc |-> "idle", att |-> Nothing, act |-> "open", of |-> Nothing, asked |-> 0,
            says |-> "none", id |-> FALSE, qty |-> 0, was |-> NoRow]
IdleSweep == [pc |-> "idle", saw |-> "none", due |-> {}]
Active == {"open", "partially_closed"}

(* The types of attempts, rows, tabs and the sweep; what is left of a row is
   never negative. *)
LiveTypeOK ==
  /\ \A a \in Attempts :
       /\ attempt[a].status \in {"none", "submitted", "filled", "placed", "failed"}
       /\ row[a].status \in Active \cup {"none", "closed", "detached"} /\ row[a].size \in 0 .. Lots
  /\ \A t \in Tabs : tab[t].pc \in {"idle", "checked", "authorized", "sent", "apply", "downgrade", "write"}
  /\ {venue, chain} \subseteq Nat
  /\ sweep.pc \in {"idle", "rows", "detach"} /\ streak \in [Attempts -> 0 .. 2]
  /\ glitches \in 0 .. MaxGlitches /\ faults \in 0 .. MaxFaults

LiveInit ==
  /\ attempt = [a \in Attempts |-> NoAttempt]
  /\ row = [a \in Attempts |-> NoRow]
  /\ tab = [t \in Tabs |-> IdleTab]
  /\ venue = 0 /\ chain = 0
  /\ sweep = IdleSweep
  /\ streak = [a \in Attempts |-> 0]
  /\ glitches = 0 /\ faults = 0

ActiveRows == {a \in Attempts : row[a].status \in Active}
Emptied(v) == [a \in Attempts |-> IF v = 0 /\ row[a] # NoRow THEN [row[a] EXCEPT !.gone = TRUE] ELSE row[a]]

-----------------------------------------------------------------------------
(* expire_stale_submitted: the first thing every new attempt does. *)
Expired == [a \in Attempts |->
  IF attempt[a].stale /\ attempt[a].status = "submitted"
  THEN [attempt[a] EXCEPT !.status = "failed", !.stale = FALSE] ELSE attempt[a]]

New == CHOOSE a \in Attempts : attempt[a] = NoAttempt

Submitted(t, act, of, asked) ==
  /\ \E a \in Attempts : attempt[a] = NoAttempt
  /\ attempt' = [Expired EXCEPT ![New].status = "submitted", ![New].act = act, ![New].of = of]
  /\ tab' = [tab EXCEPT ![t].pc = "authorized", ![t].att = New, ![t].act = act, ![t].of = of,
                        ![t].asked = asked]

StartOpen(t) ==
  /\ tab[t].pc = "idle"
  /\ \E n \in 1 .. Lots : Submitted(t, "open", New, n)
  /\ UNCHANGED <<row, venue, chain, sweep, streak, glitches, faults>>

PendingClose(p) == {a \in Attempts : attempt[a].act # "open" /\ attempt[a].of = p
                                     /\ attempt[a].status = "submitted"}

(* Gate 4a, and in a transaction of its own the attempt. *)
CheckClose(t, p) ==
  /\ tab[t].pc = "idle" /\ p \in ActiveRows /\ PendingClose(p) = {}
  /\ \E n \in 1 .. row[p].size :
       tab' = [tab EXCEPT ![t].pc = "checked", ![t].of = p, ![t].asked = n,
                          ![t].act = IF n = row[p].size THEN "close" ELSE "reduce"]
  /\ attempt' = Expired
  /\ UNCHANGED <<row, venue, chain, sweep, streak, glitches, faults>>

PersistClose(t) ==
  /\ tab[t].pc = "checked"
  /\ Submitted(t, tab[t].act, tab[t].of, tab[t].asked)
  /\ UNCHANGED <<row, venue, chain, sweep, streak, glitches, faults>>

(* placeOrder and closePosition: q lots execute, now or after the tab gave up;
   the tab takes the order's own answer, another order's event (no id), a
   timeout or an error for the result.  A close that only rests is taken for
   filled with the size it asked for. *)
Result(t, q, rests) ==
  LET me == tab[t] IN
  {r \in [says : {"filled", "placed", "failed"}, id : BOOLEAN, qty : 0 .. Lots] :
     \/ r.says = "failed" /\ ~r.id /\ r.qty = 0
     \/ r.says = "filled" /\ r.id /\ q > 0 /\ r.qty = q
     \/ r.says = "placed" /\ r.id /\ r.qty = 0 /\ rests /\ me.act = "open"
     \/ r.says = "filled" /\ r.id /\ r.qty = me.asked /\ rests /\ me.act # "open"
     \/ r.says = "filled" /\ ~r.id /\ r.qty = me.asked /\ me.act # "open"}

Moved(act, q) == IF act = "open" THEN venue + q ELSE IF q > venue THEN 0 ELSE venue - q

SendOrder(t) ==
  LET me == tab[t] IN
  /\ me.pc = "authorized"
  /\ \E q \in 0 .. me.asked, rests \in BOOLEAN :
       /\ rests => q = 0
       /\ venue' = Moved(me.act, q)
       /\ attempt' = [attempt EXCEPT ![me.att].real = q > 0 \/ rests, ![me.att].rests = rests]
       /\ \E r \in Result(t, q, rests) :
            tab' = [tab EXCEPT ![t].pc = "sent", ![t].asked = 0, ![t].says = r.says,
                                  ![t].id = r.id, ![t].qty = r.qty]
  /\ row' = Emptied(venue')
  /\ UNCHANGED <<chain, sweep, streak, glitches, faults>>

(* Nobody reports what a resting order does later. *)
RestEnds(a) ==
  /\ attempt[a].rests
  /\ attempt' = [attempt EXCEPT ![a].rests = FALSE]
  /\ venue' \in {venue, Moved(attempt[a].act, 1)}
  /\ row' = Emptied(venue')
  /\ UNCHANGED <<tab, chain, sweep, streak, glitches, faults>>

(* The tab is closed, its report gets lost, or its request dies half-way. *)
Abandon(t) ==
  /\ tab[t].pc # "idle"
  /\ tab' = [tab EXCEPT ![t] = IdleTab]
  /\ UNCHANGED <<attempt, row, venue, chain, sweep, streak, glitches, faults>>

-----------------------------------------------------------------------------
(* Mutant: a close needs no confirmation of the venue. *)
AfterReportAny(me) == IF me.says # "filled" THEN IdleTab ELSE [me EXCEPT !.pc = "apply"]

AfterReport(me) ==
  IF me.says # "filled" THEN IdleTab
  ELSE [me EXCEPT !.pc = IF me.id THEN "apply" ELSE "downgrade"]

(* Mutant: a report that comes after the expiry is not written. *)
WrittenInTime(a, says) ==
  [attempt EXCEPT ![a].status = IF @ = "submitted" THEN says ELSE @, ![a].told = says, ![a].stale = FALSE]

Written(a, says) == [attempt EXCEPT ![a].status = says, ![a].told = says, ![a].stale = FALSE]

(* PATCH /orders: update_result, then what a fill means for the rows. *)
Report(t) ==
  LET me == tab[t] IN
  /\ me.pc = "sent"
  /\ attempt' = Written(me.att, me.says)
  /\ tab' = [tab EXCEPT ![t] = AfterReport(me)]
  /\ UNCHANGED <<row, venue, chain, sweep, streak, glitches, faults>>

Downgrade(t) ==
  /\ tab[t].pc = "downgrade"
  /\ attempt' = Written(tab[t].att, "failed")
  /\ tab' = [tab EXCEPT ![t] = IdleTab]
  /\ UNCHANGED <<row, venue, chain, sweep, streak, glitches, faults>>

OpenRow(t) ==
  LET me == tab[t] IN
  /\ me.pc = "apply" /\ me.act = "open"
  /\ row' = [row EXCEPT ![me.att] =
       IF @ # NoRow THEN @ ELSE [status |-> "open", size |-> me.qty, ripe |-> FALSE, gone |-> venue = 0]]
  /\ tab' = [tab EXCEPT ![t] = IdleTab]
  /\ UNCHANGED <<attempt, venue, chain, sweep, streak, glitches, faults>>

(* apply_close_result reads the row and writes what it read less the fill. *)
ReadRow(t) ==
  /\ tab[t].pc = "apply" /\ tab[t].act # "open"
  /\ tab' = [tab EXCEPT ![t].pc = "write", ![t].was = row[tab[t].of]]
  /\ UNCHANGED <<attempt, row, venue, chain, sweep, streak, glitches, faults>>

(* Mutant: what a fill leaves is not floored at zero. *)
RemainingPlain(me) == IF me.act = "close" THEN 0 ELSE me.was.size - me.qty

Remaining(me) == IF me.act = "close" \/ me.qty >= me.was.size THEN 0 ELSE me.was.size - me.qty

WriteRow(t) ==
  LET me == tab[t]  left == Remaining(me) IN
  /\ me.pc = "write"
  /\ row' = [row EXCEPT ![me.of].size = left,
                        ![me.of].status = IF left = 0 THEN "closed" ELSE "partially_closed"]
  /\ tab' = [tab EXCEPT ![t] = IdleTab]
  /\ UNCHANGED <<attempt, venue, chain, sweep, streak, glitches, faults>>

-----------------------------------------------------------------------------
(* run_once.  Rows younger than two minutes do not count: by then the chain
   reader has caught up, and a sweep reads chain and rows closer together. *)
Ripe(a) == row[a].ripe

SweepChain ==
  /\ sweep.pc = "idle"
  /\ \/ /\ sweep' = [sweep EXCEPT !.pc = "rows", !.saw = IF chain = 0 THEN "empty" ELSE "held"]
        /\ UNCHANGED <<glitches, faults>>
     \/ /\ chain > 0 /\ glitches < MaxGlitches /\ glitches' = glitches + 1
        /\ sweep' = [sweep EXCEPT !.pc = "rows", !.saw = "empty"]
        /\ UNCHANGED faults
     \/ /\ faults < MaxFaults /\ faults' = faults + 1
        /\ sweep' = [sweep EXCEPT !.pc = "rows", !.saw = "no account"]
        /\ UNCHANGED glitches
  /\ UNCHANGED <<attempt, row, tab, venue, chain, streak>>

DetachAfter == 2
Streak == [a \in Attempts |->
  IF a \notin ActiveRows THEN streak[a]
  ELSE IF sweep.saw # "empty" THEN 0
  ELSE IF Ripe(a) /\ streak[a] < DetachAfter THEN streak[a] + 1 ELSE streak[a]]

(* Mutant: an empty read is enough. *)
DueAtOnce == {a \in ActiveRows : sweep.saw = "empty" /\ Ripe(a)}

Due == {a \in ActiveRows : sweep.saw = "empty" /\ Ripe(a) /\ streak[a] + 1 >= DetachAfter}

SweepRows ==
  /\ sweep.pc = "rows"
  /\ streak' = Streak
  /\ sweep' = IF Due = {} THEN IdleSweep ELSE [IdleSweep EXCEPT !.pc = "detach", !.due = Due]
  /\ UNCHANGED <<attempt, row, tab, venue, chain, glitches, faults>>

(* Mutant: only rows never reduced are detached. *)
DetachableOpen(a) == row[a].status = "open"

Detachable(a) == row[a].status \in Active

SweepDetach ==
  /\ sweep.pc = "detach"
  /\ row' = [a \in Attempts |-> IF a \in sweep.due /\ Detachable(a)
       THEN [row[a] EXCEPT !.status = "detached", !.size = 0] ELSE row[a]]
  /\ streak' = [a \in Attempts |-> IF a \in sweep.due THEN 0 ELSE streak[a]]
  /\ sweep' = IdleSweep
  /\ UNCHANGED <<attempt, tab, venue, chain, glitches, faults>>

(* The server restarts: the streaks are in memory. *)
SweepRestart ==
  /\ faults < MaxFaults /\ faults' = faults + 1
  /\ sweep' = IdleSweep
  /\ streak' = [a \in Attempts |-> 0]
  /\ tab' = [t \in Tabs |-> IF tab[t].pc \in {"apply", "downgrade", "write", "checked"} THEN IdleTab ELSE tab[t]]
  /\ UNCHANGED <<attempt, row, venue, chain, glitches>>

-----------------------------------------------------------------------------
(* Time: an attempt is 15 minutes old, a row two minutes, the chain catches up. *)
Grow(a) ==
  \/ /\ attempt[a].status = "submitted" /\ ~attempt[a].stale
     /\ attempt' = [attempt EXCEPT ![a].stale = TRUE]
     /\ UNCHANGED row
  \/ /\ a \in ActiveRows /\ ~row[a].ripe /\ chain = venue /\ sweep.pc # "rows"
     /\ row' = [row EXCEPT ![a].ripe = TRUE]
     /\ UNCHANGED attempt

LiveTime ==
  \/ /\ \E a \in Attempts : Grow(a)
     /\ UNCHANGED <<tab, venue, chain, sweep, streak, glitches, faults>>
  \/ /\ chain # venue /\ chain' = venue
     /\ UNCHANGED <<attempt, row, tab, venue, sweep, streak, glitches, faults>>

(* A stop fires, or the follower closes by hand. *)
ClosedOutside ==
  /\ venue > 0 /\ faults < MaxFaults /\ faults' = faults + 1
  /\ venue' = 0
  /\ row' = Emptied(0)
  /\ UNCHANGED <<attempt, tab, chain, sweep, streak, glitches>>

LiveNext ==
  \/ \E t \in Tabs :
       \/ StartOpen(t) \/ (\E p \in Attempts : CheckClose(t, p)) \/ PersistClose(t)
       \/ SendOrder(t) \/ Report(t) \/ Downgrade(t) \/ OpenRow(t) \/ ReadRow(t) \/ WriteRow(t)
       \/ Abandon(t)
  \/ \E a \in Attempts : RestEnds(a)
  \/ SweepChain \/ SweepRows \/ SweepDetach \/ SweepRestart
  \/ LiveTime \/ ClosedOutside

LiveSpec == LiveInit /\ [][LiveNext]_liveVars

-----------------------------------------------------------------------------
DetachedWasGone == \A a \in Attempts : row[a].status = "detached" => row[a].gone
ClosesAreReal ==
  \A p \in Attempts : row[p].status \in {"partially_closed", "closed"} =>
    \E a \in Attempts : attempt[a].of = p /\ attempt[a].act # "open" /\ attempt[a].real

(* A row ends for what happened at the venue: the sweep never detaches one
   whose position was held all the time, though one of its reads may come back
   empty by mistake, and none is closed or reduced but by an order it took. *)
EndsAreReal == DetachedWasGone /\ ClosesAreReal

(* What was reported of an attempt stands: neither order of a late report and
   the expiry leaves it failed when the report said otherwise. *)
ReportsStand == \A a \in Attempts : attempt[a].told # "none" => attempt[a].status = attempt[a].told

(* What attempts and rows come to is what happened: at the venue, and in the
   report of the browser. *)
OutcomesAreReal == EndsAreReal /\ ReportsStand

(* A row whose position has gone for good is ended by the sweep. *)
GoneRowsEnd ==
  \A a \in Attempts : (row[a].status \in Active /\ venue = 0)
                        ~> (row[a].status \notin Active \/ venue > 0)
=============================================================================
