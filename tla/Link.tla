-------------------------------- MODULE Link --------------------------------
(***************************************************************************)
(* What a node's connection promises to the requests that use it, and what *)
(* the standalone client relies on: a request gets a connection only while *)
(* the link is up, waits while it is down, and a disconnect is announced   *)
(* by whoever holds a connection or by the heartbeat.  No retry task, lock *)
(* or signal shows; ReconnectingConnection implements this specification.  *)
(***************************************************************************)
CONSTANT Requests

VARIABLES
  link,  \* "new" until create_connection ends, then "up" or "down"
  use    \* what each request has of the link

linkVars == <<link, use>>

Init ==
  /\ link = "new"
  /\ use = [r \in Requests |-> "out"]

Open ==
  /\ link = "new" /\ link' \in {"up", "down"}
  /\ UNCHANGED use

Enter(r) ==
  /\ link # "new" /\ use[r] = "out"
  /\ use' = [use EXCEPT ![r] = "waiting"]
  /\ UNCHANGED link

Acquire(r) ==
  /\ link = "up" /\ use[r] = "waiting"
  /\ use' = [use EXCEPT ![r] = "holding"]
  /\ UNCHANGED link

(* The request is answered, fails or times out. *)
Leave(r) ==
  /\ use[r] # "out"
  /\ use' = [use EXCEPT ![r] = "out"]
  /\ UNCHANGED link

(* The request saw a disconnect; the link may be down already. *)
LeaveLost(r) ==
  /\ use[r] = "holding"
  /\ use' = [use EXCEPT ![r] = "out"]
  /\ link' = "down"

(* The heartbeat saw a disconnect. *)
Lose ==
  /\ link = "up" /\ link' = "down"
  /\ UNCHANGED use

Restore ==
  /\ link = "down" /\ link' = "up"
  /\ UNCHANGED use

Next ==
  \/ Open \/ Lose \/ Restore
  \/ \E r \in Requests : Enter(r) \/ Acquire(r) \/ Leave(r) \/ LeaveLost(r)

Spec == Init /\ [][Next]_linkVars
=============================================================================
