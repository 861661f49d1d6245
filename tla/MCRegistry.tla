----------------------------- MODULE MCRegistry -----------------------------
(* Two registrars, each of which may run again under either tag.           *)
EXTENDS Registry, TLC

Symmetry == Permutations(Registrars) \cup Permutations(Hefs) \cup Permutations(Tags)
=============================================================================
