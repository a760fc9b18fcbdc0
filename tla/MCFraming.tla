----------------------------- MODULE MCFraming ------------------------------
(* An instance of Framing for TLC.  A group has one bit, so lengths take one to
   three bytes; some bytes of the messages look like the start of a length. *)
EXTENDS Framing

MCMessages == {<<>>, <<2>>, <<3, 1>>, <<0, 3, 2, 1, 0>>}
=============================================================================
