----------------------------- MODULE CopyRules -----------------------------
(***************************************************************************)
(* The pure decision rules of auto-copy (services/copy_auto/rules.py) that *)
(* decide what the engine does.  Sizes are integers, in lots (the code     *)
(* floors every size to 10^-size_decimals, so a lot is its unit); a leader *)
(* position is a signed integer, positive when long.                       *)
(***************************************************************************)
EXTENDS Integers, Sequences

Side == {1, -1}                      \* "long" and "short"
Kind == {"open", "add", "reduce", "close"}

Magnitude(x) == IF x < 0 THEN -x ELSE x
SideOf(x)    == IF x < 0 THEN -1 ELSE 1
Least(x, y)  == IF x < y THEN x ELSE y

(* rules.Action: kind, side acted on, the leader's move and what the leader *)
(* held before it.                                                          *)
Action == [kind : Kind, side : Side, move : Nat, prev : Nat]

Act(kind, side, move, prev) ==
  [kind |-> kind, side |-> side, move |-> move, prev |-> prev]

(***************************************************************************)
(* A leader fill takes the leader's position from old to new.  The tracker *)
(* classifies it by dir and startPosition, and rules.normalize turns the   *)
(* event into the actions to mirror; a flip is ONE event, split into the   *)
(* close of the old side and the open of the new one.                      *)
(***************************************************************************)
KindOfMove(old, new) ==
  IF old = 0 THEN "open"
  ELSE IF new = 0 THEN "close"
  ELSE IF Magnitude(new) > Magnitude(old) THEN "add" ELSE "reduce"

IsFlip(old, new) == old * new < 0

Normalize(old, new) ==
  IF IsFlip(old, new)
  THEN << Act("close", SideOf(old), Magnitude(old), Magnitude(old)),
          Act("open", SideOf(new), Magnitude(new), 0) >>
  ELSE << Act(KindOfMove(old, new), SideOf(IF old = 0 THEN new ELSE old),
              Magnitude(new - old), Magnitude(old)) >>

(* Mirror the leader's fraction of his position, capped at all of ours and  *)
(* rounded down to a lot.                                                   *)
ScaledChange(ours, move, prev) ==
  IF prev <= 0 \/ ours <= 0 THEN 0 ELSE (ours * Least(move, prev)) \div prev

(* How much of our position an exit action asks for. *)
ExitSize(a, ours) ==
  IF a.kind = "close" THEN ours ELSE ScaledChange(ours, a.move, a.prev)

=============================================================================
