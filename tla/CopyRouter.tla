-------------------- MODULE CopyRouter --------------------
(***************************************************************************)
(* The calls of routers/copy_auto.py that change a subscription while the  *)
(* engine runs.  Each is one of the bounded number of outside moves.       *)
(***************************************************************************)
EXTENDS CopyState

Outside == ops < MaxOps /\ ops' = ops + 1

SetStatus(s, status) ==
  [sub EXCEPT ![s].status = status, ![s].fails = IF status = "active" THEN 0 ELSE @]

(* PATCH /subs/{id} with a status, DELETE /subs/{id}. *)
PatchStatus(s, status) ==
  /\ Outside
  /\ May(IF status = "active" THEN "resume" ELSE IF status = "paused" THEN "pause" ELSE "stop")
  /\ sub' = SetStatus(s, status)
  /\ UNCHANGED <<userOn, patch>>

(* POST /pause-all, and DELETE /key which pauses the live ones only. *)
PauseAll(modes) ==
  /\ Outside /\ May("pause")
  /\ sub' = [s \in Subs |-> IF sub[s].status = "active" /\ sub[s].mode \in modes
                            THEN [sub[s] EXCEPT !.status = "paused"] ELSE sub[s]]
  /\ UNCHANGED <<userOn, patch>>

(* A mode change, by PATCH or by POST on a known leader (revive): refused   *)
(* while the current mode has open positions, then written.                 *)
CheckMode(s, m, revive) ==
  /\ Outside /\ May("mode") /\ patch[s] = None
  /\ m # sub[s].mode => OpenRows(s, sub[s].mode) = {}
  /\ patch' = [patch EXCEPT ![s] = [mode |-> m, revive |-> revive]]
  /\ UNCHANGED <<sub, userOn>>

WriteMode(s) ==
  /\ patch[s] # None
  /\ sub' = [(IF patch[s].revive THEN SetStatus(s, "active") ELSE sub)
               EXCEPT ![s].mode = patch[s].mode]
  /\ patch' = [patch EXCEPT ![s] = None]
  /\ UNCHANGED <<userOn, ops>>

ToggleUser ==
  /\ Outside /\ May("toggle")
  /\ userOn' = ~userOn
  /\ UNCHANGED <<sub, patch>>

RouterStep ==
  /\ \/ \E s \in Subs, st \in Status : PatchStatus(s, st)
     \/ \E s \in Subs, m \in Mode, revive \in BOOLEAN : CheckMode(s, m, revive)
     \/ \E s \in Subs : WriteMode(s)
     \/ \E modes \in {Mode, {"live"}} : PauseAll(modes)
     \/ ToggleUser
  /\ UNCHANGED <<lead, event, log, rows, venue, memory, task, rec, burnt>>

=============================================================================
