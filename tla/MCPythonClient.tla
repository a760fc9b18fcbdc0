--------------------------- MODULE MCPythonClient ---------------------------
(* Instances of PythonClient for TLC.  Calls differ only by name. *)
EXTENDS PythonClient, TLC

Symmetry == Permutations(Calls)
=============================================================================
