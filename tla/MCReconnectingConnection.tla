---------------------- MODULE MCReconnectingConnection ----------------------
(* TLC instance of ReconnectingConnection.  Requests, tasks and connections are
   interchangeable, but no symmetry is declared: the run checks liveness. *)
EXTENDS ReconnectingConnection
=============================================================================
