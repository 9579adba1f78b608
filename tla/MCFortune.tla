------------------------------ MODULE MCFortune ------------------------------
(* Finite instances of Fortune for TLC. *)
EXTENDS Fortune, TLC

Symmetry == Permutations(Letters) \cup Permutations(Procs)
=============================================================================
