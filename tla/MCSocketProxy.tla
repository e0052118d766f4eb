--------------------------- MODULE MCSocketProxy ---------------------------
(* Small instances of SocketProxy for TLC.                                 *)
EXTENDS SocketProxy, TLC

Interchangeable == Permutations(Callers)
=============================================================================
