------------------------------- MODULE MCArchive -------------------------------
(* Symmetry for checking Archive with TLC: half files and writers are only  *)
(* compared with each other.                                                *)
EXTENDS Archive, TLC

Symmetry == Permutations(Halves) \cup Permutations(Writers)
=============================================================================
