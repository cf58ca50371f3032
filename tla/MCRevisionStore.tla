--------------------------- MODULE MCRevisionStore ---------------------------
(* Symmetry for checking RevisionStore with TLC: payloads, keys and workers  *)
(* are only ever compared with each other.                                   *)
EXTENDS RevisionStore, TLC

Symmetry == Permutations(Batteries) \cup Permutations(Rtcs)
            \cup Permutations(Keys) \cup Permutations(Workers)
=============================================================================
