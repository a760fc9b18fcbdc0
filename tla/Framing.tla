------------------------------ MODULE Framing -------------------------------
(***************************************************************************)
(* The framing of messages on the socket between the Python client and the *)
(* core: a varint length, then the message.  The reader is either the      *)
(* client's _reader_loop with protobuf_codec.py, or the core's             *)
(* RotatingBuffer behind a UnixStreamListener; the socket hands the bytes  *)
(* over in pieces of any size.                                             *)
(*                                                                         *)
(* A byte is a number below 2 * Base: the low group of bits (below Base,   *)
(* 128 in the code) and the continuation bit.  A message is its bytes.     *)
(***************************************************************************)
EXTENDS Naturals, Sequences

CONSTANTS
  Base,         \* values of one group of bits, 2^7 in the code
  Mask,         \* a decoded length is taken modulo this, 2^32 in the code
  MaxGroups,    \* a varint that goes on after so many bytes is refused, 10 in the code
  Messages,     \* messages that may be sent, as sequences of bytes
  MaxMessages,  \* bound: messages sent
  ReadSize      \* most bytes of one read, 2^16 in the code

Bytes == 0..(2 * Base - 1)

VARIABLES
  reader,  \* which of the two readers: "python" or "core"
  phase,   \* of the stream: "configuring" (core only), "ready" or "failed"
  sent,    \* history: the messages sent
  wire,    \* bytes sent and not yet read
  kept,    \* remaining_read_bytes, or backing_buffer, between two reads
  got      \* history: the messages the reader has passed on

vars == <<reader, phase, sent, wire, kept, got>>

-----------------------------------------------------------------------------
(* Varints *)

(* _varint_encoder, _varint_bytes: the low group first, each but the last one
   with the continuation bit. *)
EncodeVarint[value \in Nat] ==
  IF value < Base THEN <<value>>
  ELSE <<Base + (value % Base)>> \o EncodeVarint[value \div Base]

(* The constants, and what they say of one another: the length of a message has
   no more groups than a reader takes (five for one below 2^32). *)
ASSUME FramingAssumption ==
  /\ Base \in Nat \ {0, 1} /\ Mask \in Nat \ {0} /\ MaxGroups \in Nat \ {0}
  /\ \A length \in 0..(Mask - 1) : Len(EncodeVarint[length]) <= MaxGroups
  /\ \A m \in Messages : m \in Seq(Bytes) /\ Len(m) < Mask
  /\ MaxMessages \in Nat /\ ReadSize \in Nat \ {0}

(* encode_delimited *)
EncodeDelimited(m) == EncodeVarint[Len(m)] \o m

(* The value of the groups of a varint. *)
Value[groups \in Seq(Bytes)] ==
  IF groups = <<>> THEN 0 ELSE (Head(groups) % Base) + Base * Value[Tail(groups)]

Partial == [kind |-> "partial"]
Refused == [kind |-> "refused"]

(* Mutant: the byte without the continuation bit is not part of the value. *)
DecodeVarintShort(buffer, pos) ==
  LET ends == {i \in (pos + 1)..Len(buffer) : buffer[i] < Base /\ i <= pos + MaxGroups}
      last == CHOOSE i \in ends : \A j \in ends : i <= j
  IN IF ends = {} THEN Partial
     ELSE [kind |-> "ok", value |-> Value[SubSeq(buffer, pos + 1, last - 1)] % Mask, next |-> last]

(* _varint_decoder from offset pos: up to the first byte without the
   continuation bit; too many bytes raise DecodeError, too few IndexError. *)
DecodeVarint(buffer, pos) ==
  LET ends == {i \in (pos + 1)..Len(buffer) : buffer[i] < Base /\ i <= pos + MaxGroups}
      last == CHOOSE i \in ends : \A j \in ends : i <= j
  IN IF ends = {} THEN IF Len(buffer) - pos >= MaxGroups THEN Refused ELSE Partial
     ELSE [kind |-> "ok", value |-> Value[SubSeq(buffer, pos + 1, last)] % Mask, next |-> last]

(* Mutant: a message that ends with the buffer counts as partial. *)
DecodeDelimitedNeedsMore(buffer, pos) ==
  LET length == DecodeVarint(buffer, pos)
      end == length.next + length.value
  IN IF length.kind # "ok" THEN length
     ELSE IF end >= Len(buffer) THEN Partial
     ELSE [kind |-> "ok", message |-> SubSeq(buffer, length.next + 1, end), next |-> end]

(* decode_delimited: one message from offset pos, and the offset behind it. *)
DecodeDelimited(buffer, pos) ==
  LET length == DecodeVarint(buffer, pos)
      end == length.next + length.value
  IN IF length.kind # "ok" THEN length
     ELSE IF end > Len(buffer) THEN Partial
     ELSE [kind |-> "ok", message |-> SubSeq(buffer, length.next + 1, end), next |-> end]

-----------------------------------------------------------------------------
(* The readers *)

From(buffer, offset) == SubSeq(buffer, offset + 1, Len(buffer))

(* The condition of _reader_loop's inner loop.  With all bytes used it goes on
   once more: the next message is then partial, which empties the rest. *)
ReaderGoesOn(offset, length) == offset <= length

(* _reader_loop after one read: the messages it passes on and the rest it keeps,
   which only the PartialMessageException arm assigns. *)
ReaderLoop(rest, buffer) ==
  LET loop[offset \in 0..Len(buffer)] ==
        LET next == DecodeDelimited(buffer, offset)
        IN IF ~ReaderGoesOn(offset, Len(buffer)) THEN [out |-> <<>>, rest |-> rest, raised |-> FALSE]
           ELSE IF next.kind = "ok" THEN [loop[next.next] EXCEPT !.out = <<next.message>> \o @]
           ELSE [out |-> <<>>, rest |-> IF next.kind = "partial" THEN From(buffer, offset) ELSE rest,
                 raised |-> next.kind = "refused"]
  IN loop[0]

(* get_requests: the buffer is taken out, and what is behind the last complete
   request is put back.  A length that cannot be decoded waits for more. *)
GetRequests(buffer) ==
  LET loop[position \in 0..Len(buffer)] ==
        LET next == DecodeDelimited(buffer, position)
        IN IF position < Len(buffer) /\ next.kind = "ok"
             THEN [loop[next.next] EXCEPT !.out = <<next.message>> \o @]
             ELSE [out |-> <<>>, rest |-> From(buffer, position), raised |-> FALSE]
  IN loop[0]

(* What the reader makes of bytes of which it has kept none before. *)
Reads(buffer) == IF reader = "python" THEN ReaderLoop(<<>>, buffer) ELSE GetRequests(buffer)

-----------------------------------------------------------------------------
TypeOK ==
  /\ reader \in {"python", "core"} /\ phase \in {"configuring", "ready", "failed"}
  /\ sent \in Seq(Messages) /\ got \in Seq(Messages)
  /\ wire \in Seq(Bytes) /\ kept \in Seq(Bytes)
  /\ reader = "python" => phase = "ready"

Init ==
  /\ reader \in {"python", "core"}
  /\ phase = IF reader = "core" THEN "configuring" ELSE "ready"
  /\ sent = <<>> /\ wire = <<>> /\ kept = <<>> /\ got = <<>>

(* The writer at the other end sends a message.  A wrapper sends its connection
   request first, and nothing else until that is answered. *)
Send ==
  /\ Len(sent) < MaxMessages /\ phase # "failed"
  /\ phase = "configuring" => sent = <<>>
  /\ \E m \in Messages :
       /\ sent' = Append(sent, m)
       /\ wire' = wire \o EncodeDelimited(m)
  /\ UNCHANGED <<reader, phase, kept, got>>

(* A read of n bytes. *)
Arrives(n) == n <= Len(wire) /\ wire' = From(wire, n)

(* _reader_loop: one read and everything that follows from it. *)
ReadPython ==
  /\ reader = "python" /\ phase = "ready"
  /\ \E n \in 1..ReadSize :
       /\ Arrives(n)
       /\ LET read == ReaderLoop(kept, kept \o SubSeq(wire, 1, n))
          IN /\ kept' = read.rest /\ got' = got \o read.out
             /\ phase' = IF read.raised THEN "failed" ELSE phase
  /\ UNCHANGED <<reader, sent>>

(* wait_for_connection_configuration_and_create_client: the first read must hold
   a whole request, of which only the last one is used. *)
ReadConfiguration ==
  /\ reader = "core" /\ phase = "configuring"
  /\ \E n \in 1..ReadSize :
       /\ Arrives(n)
       /\ LET read == GetRequests(kept \o SubSeq(wire, 1, n))
          IN /\ kept' = read.rest
             /\ IF read.out = <<>> THEN phase' = "failed" /\ UNCHANGED got
                ELSE phase' = "ready" /\ got' = Append(got, read.out[Len(read.out)])
  /\ UNCHANGED <<reader, sent>>

(* Mutant: a read without a whole request ends the stream, as the first does. *)
ReadCoreNeedsRequest ==
  /\ reader = "core" /\ phase = "ready"
  /\ \E n \in 1..ReadSize :
       /\ Arrives(n)
       /\ LET read == GetRequests(kept \o SubSeq(wire, 1, n))
          IN /\ kept' = read.rest /\ got' = got \o read.out
             /\ phase' = IF read.out = <<>> THEN "failed" ELSE phase
  /\ UNCHANGED <<reader, sent>>

(* next_values in read_values_loop. *)
ReadCore ==
  /\ reader = "core" /\ phase = "ready"
  /\ \E n \in 1..ReadSize :
       /\ Arrives(n)
       /\ LET read == GetRequests(kept \o SubSeq(wire, 1, n))
          IN kept' = read.rest /\ got' = got \o read.out
  /\ UNCHANGED <<reader, phase, sent>>

Next == Send \/ ReadPython \/ ReadConfiguration \/ ReadCore

Spec == Init /\ [][Next]_vars

(* Both readers always await the next bytes; nobody has to send. *)
FairSpec == Spec /\ WF_vars(ReadPython \/ ReadConfiguration \/ ReadCore)

-----------------------------------------------------------------------------
(* A message of any length is read back whole by either reader, and none of its
   bytes is lost while others are missing: protobuf_codec.py's encoder and both
   decoders, at each change of the number of bytes of a length.  The property
   is about the functions alone and is stated for the initial states. *)
FramesRoundTrip ==
  sent = <<>> =>
    \A length \in 0..(Mask - 1) :
      LET m == [i \in 1..length |-> 0]
          frame == EncodeDelimited(m)
      IN /\ Reads(frame) = [out |-> <<m>>, rest |-> <<>>, raised |-> FALSE]
         /\ \A n \in 0..(Len(frame) - 1) :
              LET piece == SubSeq(frame, 1, n)
              IN Reads(piece) = [out |-> <<>>, rest |-> piece, raised |-> FALSE]

(* Whatever the pieces in which the bytes arrive, the reader passes on the
   messages that were sent, in order, none twice and none made of parts of two
   others. *)
MessagesInOrder == Len(got) <= Len(sent) /\ got = SubSeq(sent, 1, Len(got))

(* Some first bytes of a frame, and not all. *)
BeginsOnly(piece, frame) ==
  Len(piece) < Len(frame) /\ piece = SubSeq(frame, 1, Len(piece))

(* The bytes kept between two reads are a part of one single message: none that
   is complete waits for the next read, which may never come, and when all
   bytes were read nothing is kept. *)
NothingHeldBack ==
  phase # "failed" =>
    /\ wire = <<>> => got = sent /\ kept = <<>>
    /\ kept # <<>> => /\ Len(got) < Len(sent)
                      /\ BeginsOnly(kept, EncodeDelimited(sent[Len(got) + 1]))

(* The messages as the two ends see them. *)
AsChannel ==
  INSTANCE Channel WITH up <- phase # "failed", queue <- From(sent, Len(got)), delivered <- got

(* Lengths, reads and the bytes kept between them together are a queue of
   messages: a read delivers the next ones, whatever pieces the bytes came in,
   and only the first read of the core's end can make the stream fail. *)
ImplementsChannel == AsChannel!Spec

(* A message that was sent is passed on, unless the stream failed because the
   first read did not hold the whole connection request. *)
MessagesArrive ==
  \A n \in 1..MaxMessages : Len(sent) >= n ~> Len(got) >= n \/ phase = "failed"
=============================================================================
