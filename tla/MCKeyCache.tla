----------------------------- MODULE MCKeyCache -----------------------------
(* An instance of KeyCache for TLC. *)
EXTENDS KeyCache, TLC

Symmetry == Permutations(Callers) \cup Permutations(Rotators)
=============================================================================
