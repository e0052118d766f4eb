-------------------------- MODULE MCSessionRoutes --------------------------
(* Small instances of SessionRoutes for TLC.                               *)
EXTENDS SessionRoutes, TLC

Interchangeable == Permutations(Clients)
=============================================================================
