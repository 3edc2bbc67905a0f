----------------------------- MODULE MirrorOnce -----------------------------
(***************************************************************************)
(* What auto-copy promises for each leader event, whatever the schedule,   *)
(* the failures and the restarts: an action of the event is decided at     *)
(* most once, only a decided action sends an order and it sends one, and   *)
(* the position an event opens is booked at most once and ends for good.   *)
(***************************************************************************)
EXTENDS Naturals

CONSTANT Events

Key == Events \X {1, 2}

VARIABLES decided, placed, book

vars == <<decided, placed, book>>

Init == /\ decided = {}
        /\ placed = [k \in Key |-> 0]
        /\ book = [e \in Events |-> "none"]

Decide(k) == /\ k \notin decided
             /\ decided' = decided \cup {k}
             /\ UNCHANGED <<placed, book>>

Place(k) == /\ k \in decided /\ placed[k] = 0
            /\ placed' = [placed EXCEPT ![k] = 1]
            /\ UNCHANGED <<decided, book>>

Book(e) == /\ book[e] = "none"
           /\ \E i \in {1, 2} : <<e, i>> \in decided
           /\ book' = [book EXCEPT ![e] = "open"]
           /\ UNCHANGED <<decided, placed>>

(* One sweep may end several positions. *)
End(ended) == /\ \A e \in ended : book[e] # "none"
              /\ book' = [e \in Events |-> IF e \in ended THEN "ended" ELSE book[e]]
              /\ UNCHANGED <<decided, placed>>

Next == \/ \E k \in Key : Decide(k) \/ Place(k)
        \/ \E e \in Events : Book(e)
        \/ \E ended \in SUBSET Events : End(ended)

Spec == Init /\ [][Next]_vars

=============================================================================
