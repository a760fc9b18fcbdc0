--------------------------- MODULE MCClientStream ---------------------------
(* Instances of ClientStream for TLC.  Requests differ only by name. *)
EXTENDS ClientStream, TLC

Symmetry == Permutations(Requests)
=============================================================================
