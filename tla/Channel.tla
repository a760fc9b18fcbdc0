------------------------------ MODULE Channel -------------------------------
(***************************************************************************)
(* What the socket between a wrapper and the core gives either end once    *)
(* its bytes are cut into messages: a queue, of which a read hands over    *)
(* the first few, in order.  The only way for it to fail is that the very  *)
(* first message does not come in one piece.                               *)
(*                                                                         *)
(* No byte, length or rest of a read shows.  Framing implements this, and  *)
(* ClientStream and PythonClient rely on it: their inbox is such a queue,  *)
(* and a partial configuration such a failure.                             *)
(***************************************************************************)
EXTENDS Naturals, Sequences

CONSTANT Messages

VARIABLES
  up,        \* the stream has not failed
  queue,     \* messages sent and not yet delivered
  delivered  \* history: the messages handed to the reader

channelVars == <<up, queue, delivered>>

Init == up = TRUE /\ queue = <<>> /\ delivered = <<>>

Send(m) ==
  /\ up
  /\ queue' = Append(queue, m)
  /\ UNCHANGED <<up, delivered>>

Deliver(n) ==
  /\ up
  /\ delivered' = delivered \o SubSeq(queue, 1, n)
  /\ queue' = SubSeq(queue, n + 1, Len(queue))
  /\ UNCHANGED up

Fail ==
  /\ up /\ up' = FALSE
  /\ delivered = <<>> /\ Len(queue) = 1
  /\ UNCHANGED <<queue, delivered>>

Next ==
  \/ \E m \in Messages : Send(m)
  \/ \E n \in 1..Len(queue) : Deliver(n)
  \/ Fail

Spec == Init /\ [][Next]_channelVars
=============================================================================
