-------------------- MODULE CopyReconcile --------------------
(***************************************************************************)
(* reconcile_once: the five-minute sweep that compares the live rows with the*)
(* chain.  It reads the rows, then the chain, then writes the rows by id,  *)
(* whatever happened to them since, and takes none of the engine's locks.  *)
(***************************************************************************)
EXTENDS CopyState

SweepRows ==
  /\ May("reconcile") /\ rec.pc = "idle"
  /\ rec' = [rec EXCEPT !.pc = "chain", !.size =
       [e \in Events |-> IF rows[e].status = "open" /\ rows[e].mode = "live"
                         THEN rows[e].size ELSE 0]]
  /\ UNCHANGED <<rows, legs>>

SweepChain ==
  /\ rec.pc = "chain"
  /\ rec' = [rec EXCEPT !.pc = "apply", !.chain = pos]
  /\ UNCHANGED <<rows, legs>>

(* A failed chain read never changes anything. *)
SweepUnread ==
  /\ rec.pc = "chain" /\ May("chain_fail")
  /\ rec' = NoSweep
  /\ UNCHANGED <<rows, legs>>

(* Mutant: a position of either side counts as ours. *)
OnAnySide(e) == Magnitude(rec.chain[event[e].coin])

OnChain(e) == IF rec.chain[event[e].coin] * RowSide(e) > 0
              THEN Magnitude(rec.chain[event[e].coin]) ELSE 0
Gone == {e \in Events : rec.size[e] > 0 /\ OnChain(e) = 0}

SweepApply ==
  /\ rec.pc = "apply"
  /\ rows' = [e \in Events |->
       IF e \in Gone THEN [rows[e] EXCEPT !.status = "detached"]
       ELSE IF rec.size[e] > 0 /\ OnChain(e) < rec.size[e]
            THEN [rows[e] EXCEPT !.size = OnChain(e)] ELSE rows[e]]
  /\ \E stuck \in IF May("cancel") THEN SUBSET {"sl", "tp"} ELSE {{}} :
       legs' = [l \in Leg |-> IF l[1] \in Gone /\ l[2] \in rows[l[1]].oids \ stuck
                              THEN 0 ELSE legs[l]]
  /\ rec' = NoSweep

(* The sweep writes rows and cancels legs, nothing else. *)
SweepFrame ==
  UNCHANGED <<lead, event, userOn, sub, log, pos, sent, memory, task, patch, ops, burnt>>

SweepStep ==
  (SweepRows \/ SweepChain \/ SweepUnread \/ SweepApply) /\ SweepFrame

=============================================================================
