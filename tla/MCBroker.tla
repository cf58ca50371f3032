------------------------------- MODULE MCBroker -------------------------------
(***************************************************************************)
(* The broker on small instances: one game and both endpoints.  Batteries, *)
(* RTCs, keys and workers are interchangeable; endpoints are not, because  *)
(* bindings are served in their order.                                     *)
(***************************************************************************)
EXTENDS Broker, TLC

Symmetry == Permutations(Batteries) \cup Permutations(Rtcs)
            \cup Permutations(Keys) \cup Permutations(Workers)
=============================================================================
