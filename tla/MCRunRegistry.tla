--------------------------- MODULE MCRunRegistry ----------------------------
(* Instances of RunRegistry for TLC. *)
EXTENDS RunRegistry, TLC

\* The handlers of frontends are interchangeable.
ClientSymmetry == Permutations(Clients)
=============================================================================
