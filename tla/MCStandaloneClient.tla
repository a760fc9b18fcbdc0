------------------------- MODULE MCStandaloneClient -------------------------
(* Instances of StandaloneClient for TLC.  Neither addresses nor requests are
   told apart by the specification. *)
EXTENDS StandaloneClient, TLC

Symmetry == Permutations(Addresses) \cup Permutations(Requests)
=============================================================================
