------------------------------ MODULE Exchange ------------------------------
(***************************************************************************)
(* What passes between a wrapper and the core over one socket, as each end *)
(* relies on it from the other.  The wrapper asks for its connection first *)
(* and for anything else only after that was answered; every request is    *)
(* asked once, and only what was asked is answered, once and in any order. *)
(* When the connection goes, so does everything under way.                 *)
(*                                                                         *)
(* No index, buffer, lock or partial write shows.  ClientStream is the     *)
(* core's end of this and PythonClient the wrapper's: each implements it,  *)
(* and takes from it what it assumes of the other.                         *)
(***************************************************************************)
CONSTANTS
  Requests,  \* all requests of the wrapper
  First      \* the one that asks for the connection

VARIABLES
  open,      \* the connection is not lost
  status     \* of each request: "unasked", "asked", "answered" or "lost"

exchangeVars == <<open, status>>

Init ==
  /\ open = TRUE
  /\ status = [r \in Requests |-> "unasked"]

(* One write may carry several requests, and one read several answers. *)
Becomes(batch, new) ==
  /\ open /\ UNCHANGED open
  /\ status' = [r \in Requests |-> IF r \in batch THEN new ELSE status[r]]

Ask(batch) ==
  /\ \A r \in batch : status[r] = "unasked"
  /\ \A r \in batch : r = First \/ status[First] = "answered"
  /\ Becomes(batch, "asked")

Answer(batch) ==
  /\ \A r \in batch : status[r] = "asked"
  /\ Becomes(batch, "answered")

Close ==
  /\ open /\ open' = FALSE
  /\ status' = [r \in Requests |-> "lost"]

Next ==
  \/ \E batch \in SUBSET Requests : Ask(batch) \/ Answer(batch)
  \/ Close

Spec == Init /\ [][Next]_exchangeVars
=============================================================================
