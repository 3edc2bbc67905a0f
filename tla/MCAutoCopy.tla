---------------------------- MODULE MCAutoCopy ----------------------------
(* Instances of AutoCopy for TLC. *)
EXTENDS AutoCopy, TLC

Symmetry == Permutations(Events) \cup Permutations(Coins)

===========================================================================
