------------------------- MODULE ClientStreamProofs -------------------------
(***************************************************************************)
(* Machine-checked proofs about ClientStream, for any number of requests:  *)
(* one task at a time writes, what the wrapper reads is whole responses,   *)
(* and no response is left in the accumulated outputs.                     *)
(***************************************************************************)
EXTENDS ClientStream, SequenceTheorems, TLAPS

(* The closing reasons are received until listen_on_client_stream returns. *)
ReceiverLives == receiver <=> phase # "closed"

(* The main task writes only while it answers or fails. *)
MainIdle == phase \in {"config", "creating", "serving"} => pc[Main] = "idle"

(* A request in the socket has no task yet, and is there once. *)
InboxIdle ==
  \A i \in DOMAIN inbox :
    /\ pc[inbox[i]] = "idle"
    /\ \A j \in DOMAIN inbox : inbox[i] = inbox[j] => i = j

(* The inductive invariant behind TypeOK and NothingStranded. *)
IInv ==
  /\ TypeOK
  /\ NothingStranded
  /\ ReceiverLives
  /\ MainIdle
  /\ InboxIdle

Byte == Responses \X {1, 2}

LEMMA BytesType == \A x \in Responses : Bytes(x) \in Seq(Byte) /\ Bytes(x) # <<>>
BY DEF Bytes, Byte

LEMMA InitIInv == Init => IInv
BY ConstantsAssumption DEF Init, IInv, TypeOK, NothingStranded, ReceiverLives, MainIdle,
   InboxIdle, Writers, Capacity

(* What write_to_writer leaves behind when a task that was not writing calls it. *)
WriteDone(w) ==
  /\ lock' \in Writers \cup {Nobody} /\ lock' # Nobody
  /\ acc' \in Seq(Byte) /\ output' \in Seq(Byte) /\ wire' = wire
  /\ pc' \in [Writers -> {"idle", "running", "write", "sendAndReturn", "sendAndLoop", "done"}]
  /\ \A v \in Writers : v # w => pc'[v] = pc[v]
  /\ pc'[w] \in {"write", "done"}
  /\ \A v \in Writers : pc'[v] \in {"write", "sendAndReturn", "sendAndLoop"} <=> lock' = v

LEMMA WriteToWriterKeeps ==
  ASSUME IInv, NEW w \in Writers, pc[w] \in {"idle", "running"},
         NEW x \in Responses, WriteToWriter(w, x)
  PROVE  WriteDone(w)
<1>1. acc \o Bytes(x) \in Seq(Byte)
  BY BytesType, ConcatProperties DEF IInv, TypeOK, Byte
<1> USE ConstantsAssumption DEF WriteToWriter, IInv, TypeOK, Writers
<1>2. acc' \in Seq(Byte) /\ output' \in Seq(Byte) /\ wire' = wire
  BY ZenonT(60), <1>1, EmptySeq DEF Byte
<1>3. /\ pc' \in [Writers -> {"idle", "running", "write", "sendAndReturn", "sendAndLoop", "done"}]
      /\ \A v \in Writers : v # w => pc'[v] = pc[v]
      /\ pc'[w] \in {"write", "done"}
  BY ZenonT(30)
<1>4. /\ lock' \in Writers \cup {Nobody} /\ lock' # Nobody
      /\ \A v \in Writers : pc'[v] \in {"write", "sendAndReturn", "sendAndLoop"} <=> lock' = v
  BY ZenonT(60)
<1>5. QED
  BY <1>2, <1>3, <1>4 DEF WriteDone

LEMMA NextIInv == IInv /\ [Next]_vars => IInv'
<1> SUFFICES ASSUME IInv, [Next]_vars PROVE IInv'
  OBVIOUS
<1> USE ConstantsAssumption
<1>1. CASE ReadConfigFails
  <2>1. WriteDone(Main)
    BY <1>1, WriteToWriterKeeps DEF ReadConfigFails, IInv, MainIdle, Writers, Responses
  <2>2. QED
    BY <1>1, <2>1 DEF ReadConfigFails, WriteDone, IInv, TypeOK, NothingStranded,
       ReceiverLives, MainIdle, InboxIdle, Byte, Writers, chanVars
<1>2. CASE ClientCreated
  <2>1. WriteDone(Main)
    BY <1>2, WriteToWriterKeeps DEF ClientCreated, IInv, MainIdle, Writers, Responses
  <2>2. QED
    BY SMTT(30), <1>2, <2>1 DEF ClientCreated, WriteDone, IInv, TypeOK, NothingStranded,
       ReceiverLives, MainIdle, InboxIdle, Byte, Writers, chanVars, peerVars
<1>3. CASE ClientFails
  <2>1. WriteDone(Main)
    BY <1>3, WriteToWriterKeeps DEF ClientFails, IInv, MainIdle, Writers, Responses
  <2>2. QED
    BY SMTT(30), <1>3, <2>1 DEF ClientFails, WriteDone, IInv, TypeOK, NothingStranded,
       ReceiverLives, MainIdle, InboxIdle, Byte, Writers, chanVars, peerVars
<1>4. CASE ReadFails
  <2>1. WriteDone(Main)
    BY <1>4, WriteToWriterKeeps DEF ReadFails, IInv, MainIdle, Writers, Responses
  <2>2. QED
    BY <1>4, <2>1 DEF ReadFails, WriteDone, IInv, TypeOK, NothingStranded,
       ReceiverLives, MainIdle, InboxIdle, Byte, Writers, chanVars, peerVars
<1>5. ASSUME NEW r \in Requests, Respond(r) PROVE IInv'
  <2>1. WriteDone(r)
    BY <1>5, WriteToWriterKeeps DEF Respond, IInv, Writers, Responses
  <2>2. QED
    BY <1>5, <2>1 DEF Respond, WriteDone, IInv, TypeOK, NothingStranded,
       ReceiverLives, MainIdle, InboxIdle, Byte, Writers, chanVars, peerVars
<1>6. ASSUME NEW w \in Writers, WriteSome(w) PROVE IInv'
  <2>1. PICK n \in 1..Len(output) :
          /\ wire' = wire \o SubSeq(output, 1, n)
          /\ \/ /\ n < Len(output)
                /\ output' = SubSeq(output, n + 1, Len(output))
                /\ UNCHANGED acc
             \/ /\ n = Len(output)
                /\ output' = acc /\ acc' = <<>>
    BY <1>6, SMTT(30) DEF WriteSome
  <2>2. output \in Seq(Byte) /\ acc \in Seq(Byte) /\ wire \in Seq(Byte)
    BY DEF IInv, TypeOK, Byte
  <2>3. SubSeq(output, 1, n) \in Seq(Byte)
    BY <2>2
  <2>4. /\ SubSeq(output, n + 1, Len(output)) \in Seq(Byte)
        /\ n < Len(output) => Len(SubSeq(output, n + 1, Len(output))) > 0
    BY <2>2
  <2>5. wire' \in Seq(Byte) /\ output' \in Seq(Byte) /\ acc' \in Seq(Byte)
    <3>1. wire \o SubSeq(output, 1, n) \in Seq(Byte)
      BY <2>2, <2>3, ConcatProperties
    <3>2. QED
      BY ZenonT(30), <2>1, <2>2, <2>4, <3>1, EmptySeq
  <2>6. output' = <<>> => acc' = <<>>
    <3>1. Len(<<>>) = 0
      BY EmptySeq
    <3>2. CASE n < Len(output)
      <4>1. Len(output') > 0
        BY <2>1, <2>4, <3>2
      <4>2. QED
        BY <3>1, <4>1
    <3>3. CASE n = Len(output)
      BY <2>1, <3>3
    <3>4. QED
      BY <2>2, <3>2, <3>3
  <2>7. /\ pc' \in [Writers -> {"idle", "running", "write", "sendAndReturn", "sendAndLoop", "done"}]
        /\ \A v \in Writers : pc'[v] \in {"write", "sendAndReturn", "sendAndLoop"} <=> lock' = v
        /\ \A v \in Writers : v # w => pc'[v] = pc[v]
        /\ lock' \in Writers \cup {Nobody}
        /\ lock' = Nobody => output' = <<>>
    BY <1>6, SMTT(30) DEF WriteSome, IInv, TypeOK, Writers
  <2>8. TypeOK'
    BY <1>6, <2>5, <2>7 DEF WriteSome, IInv, TypeOK, Byte, chanVars, peerVars
  <2>9. InboxIdle' /\ MainIdle'
    <3>1. pc[w] = "write" /\ phase' = phase /\ inbox' = inbox
      BY <1>6 DEF WriteSome, peerVars
    <3>2. \A i \in DOMAIN inbox : inbox[i] \in Writers
      BY DEF IInv, TypeOK, Writers
    <3>3. InboxIdle'
      BY <2>7, <3>1, <3>2 DEF IInv, InboxIdle
    <3>4. MainIdle'
      BY <2>7, <3>1 DEF IInv, MainIdle, Writers
    <3>5. QED
      BY <3>3, <3>4
  <2>10. QED
    BY <1>6, <2>6, <2>7, <2>8, <2>9 DEF WriteSome, IInv, NothingStranded, ReceiverLives,
       chanVars
<1>7. CASE ReadRequests
  <2>1. PICK n \in 1..Len(inbox) :
          /\ pc' = [w \in Writers |->
                      IF w \in Range(SubSeq(inbox, 1, n)) THEN "running" ELSE pc[w]]
          /\ inbox' = SubSeq(inbox, n + 1, Len(inbox))
    BY <1>7 DEF ReadRequests
  <2>2. inbox \in Seq(Requests)
    BY DEF IInv, TypeOK
  <2>3. Range(SubSeq(inbox, 1, n)) = {inbox[i] : i \in 1..n}
    BY SMTT(30), <2>2 DEF Range
  <2>4. /\ inbox' \in Seq(Requests) /\ DOMAIN inbox' = 1..(Len(inbox) - n)
        /\ \A i \in DOMAIN inbox' : inbox'[i] = inbox[n + i]
    BY SMTT(30), <2>1, <2>2
  <2>5. \A w \in Writers : (pc'[w] = "running" /\ pc[w] = "idle") \/ pc'[w] = pc[w]
    BY <2>1, <2>2, <2>3 DEF IInv, InboxIdle
  <2>6. pc'[Main] = pc[Main]
    BY <2>1, <2>2, <2>3 DEF Writers
  <2>7. InboxIdle'
    <3>1. \A i \in DOMAIN inbox' : i \in Nat /\ n + i \in DOMAIN inbox /\ n + i > n
      BY <2>2, <2>4
    <3>2. \A i \in DOMAIN inbox' : inbox'[i] \notin Range(SubSeq(inbox, 1, n))
      BY SMTT(30), <2>2, <2>3, <2>4, <3>1 DEF IInv, InboxIdle
    <3>3. \A i \in DOMAIN inbox' : pc'[inbox'[i]] = "idle"
      BY <2>1, <2>2, <2>4, <3>1, <3>2 DEF IInv, InboxIdle, Writers
    <3>4. \A i, j \in DOMAIN inbox' : inbox'[i] = inbox'[j] => i = j
      BY <2>4, <3>1 DEF IInv, InboxIdle
    <3>5. QED
      BY <3>3, <3>4 DEF InboxIdle
  <2>8. pc' \in [Writers -> {"idle", "running", "write", "sendAndReturn", "sendAndLoop", "done"}]
    BY <2>1 DEF IInv, TypeOK
  <2>9. QED
    BY ZenonT(30), <1>7, <2>4, <2>5, <2>6, <2>7, <2>8 DEF ReadRequests, IInv, TypeOK, NothingStranded,
       ReceiverLives, MainIdle, writerVars, chanVars
<1>8. ASSUME NEW r \in Requests, PeerSends(r) PROVE IInv'
  <2>1. pc[r] = "idle" /\ \A i \in DOMAIN inbox : inbox[i] # r
    BY SMTT(30), <1>8 DEF PeerSends, Asked, Range
  <2>2. InboxIdle'
    BY SMTT(30), <1>8, <2>1 DEF PeerSends, IInv, TypeOK, InboxIdle
  <2>3. QED
    BY <1>8, <2>2 DEF PeerSends, IInv, TypeOK, NothingStranded, ReceiverLives, MainIdle,
       writerVars, chanVars
<1> USE DEF IInv, TypeOK, NothingStranded, ReceiverLives, MainIdle, InboxIdle, Writers,
    Capacity, peerVars, writerVars, chanVars
<1>9. CASE PeerConfigures
  BY <1>9 DEF PeerConfigures
<1>10. CASE PeerCloses
  BY <1>10 DEF PeerCloses
<1>11. ASSUME NEW w \in Writers, WriteFails(w) PROVE IInv'
  <2>1. InboxIdle'
    BY <1>11 DEF WriteFails
  <2>2. TypeOK'
    BY <1>11, SMTT(60) DEF WriteFails
  <2>3. QED
    BY <1>11, <2>1, <2>2 DEF WriteFails
<1>12. ASSUME NEW w \in Writers, SendReason(w) PROVE IInv'
  <2>1. InboxIdle'
    BY <1>12 DEF SendReason
  <2>2. output' \in Seq(Byte)
    <3>1. output' = <<>> \/ output' = output
      BY <1>12 DEF SendReason
    <3>2. output \in Seq(Byte) /\ <<>> \in Seq(Byte)
      BY EmptySeq DEF Byte
    <3>3. QED
      BY ZenonT(30), <3>1, <3>2
  <2>3. TypeOK'
    <3>1. chan' \in 0..Capacity
      BY <1>12 DEF SendReason
    <3>2. /\ pc' \in [Writers -> {"idle", "running", "write", "sendAndReturn", "sendAndLoop", "done"}]
          /\ \A v \in Writers : pc'[v] \in {"write", "sendAndReturn", "sendAndLoop"} <=> lock' = v
          /\ lock' \in Writers \cup {Nobody}
      <4>1. CASE pc[w] = "sendAndReturn"
        <5>1. /\ pc' = [pc EXCEPT ![w] = "done"] /\ lock' = Nobody
              /\ lock = w /\ Nobody \notin Writers
          BY <1>12, <4>1 DEF SendReason
        <5>2. \A v \in Writers : pc'[v] \notin {"write", "sendAndReturn", "sendAndLoop"}
          BY <5>1
        <5>3. QED
          BY <5>1, <5>2
      <4>2. CASE pc[w] = "sendAndLoop"
        BY <1>12, <4>2 DEF SendReason
      <4>3. QED
        BY <1>12, <4>1, <4>2 DEF SendReason
    <3>3. QED
      BY <1>12, <2>2, <3>1, <3>2 DEF SendReason, Byte
  <2>4. NothingStranded'
    BY <1>12 DEF SendReason
  <2>5. QED
    BY <1>12, <2>1, <2>3, <2>4 DEF SendReason
<1>13. CASE ReadConfig
  BY <1>13 DEF ReadConfig
<1>14. CASE ReadConfigClosed
  BY ZenonT(30), <1>14 DEF ReadConfigClosed, Return
<1>15. CASE StartServing
  BY <1>15 DEF StartServing
<1>16. CASE ReturnAfterError
  BY ZenonT(30), <1>16 DEF ReturnAfterError, Return
<1>17. CASE ReadClosed
  BY ZenonT(30), <1>17 DEF ReadClosed, Return
<1>18. CASE ReceiveReason
  <2>1. chan' \in 0..Capacity
    BY <1>18 DEF ReceiveReason
  <2>2. QED
    BY ZenonT(30), <1>18, <2>1 DEF ReceiveReason
<1>19. CASE UNCHANGED vars
  BY <1>19 DEF vars
<1>20. QED
  BY ZenonT(30), <1>1, <1>2, <1>3, <1>4, <1>5, <1>6, <1>7, <1>8, <1>9, <1>10, <1>11, <1>12, <1>13,
     <1>14, <1>15, <1>16, <1>17, <1>18, <1>19 DEF Next, MainStep, WriteStep

(* The type invariant: in particular, exactly the holder of Writer.lock writes. *)
THEOREM TypeOKHolds == Spec => []TypeOK
<1>1. IInv => TypeOK
  BY DEF IInv
<1>2. QED
  BY InitIInv, NextIInv, <1>1, PTL DEF Spec

(* A response that found the lock taken is never left in accumulated_outputs
   with nobody to write it, unless the connection is going down. *)
THEOREM NothingStrandedHolds == Spec => []NothingStranded
<1>1. IInv => NothingStranded
  BY DEF IInv
<1>2. QED
  BY InitIInv, NextIInv, <1>1, PTL DEF Spec

-----------------------------------------------------------------------------
(* Everything written, being written and accumulated, in order. *)
Stream == (wire \o output) \o acc

Sent(x) == \E i \in DOMAIN Stream : Stream[i][1] = x

(* While the wrapper's end is open, the stream is whole responses and a response
   that is yet to come is not in it.  The task that gives up a write is the one
   that drops bytes, and it does so only when nobody reads them any more. *)
StreamIsWhole ==
  peer = "open" =>
    /\ Whole(Stream) /\ Len(Stream) % 2 = 0
    /\ \A r \in Requests : pc[r] \in {"idle", "running"} => ~Sent(r)
    /\ phase \in {"config", "creating"} => ~Sent(Ready)
    /\ phase \notin {"failing", "closed"} => ~Sent(Closing)

FailureMeansClosed ==
  \A w \in Writers : pc[w] \in {"sendAndReturn", "sendAndLoop"} => peer = "closed"

WInv ==
  /\ WireIsWholeResponses
  /\ StreamIsWhole
  /\ FailureMeansClosed
  /\ lock = Nobody => output = <<>>

(* A prefix of whole responses is whole responses. *)
LEMMA WholePrefix ==
  ASSUME NEW s \in Seq(Byte), NEW t \in Seq(Byte), Whole(s \o t)
  PROVE  Whole(s)
<1>1. /\ DOMAIN s = 1..Len(s) /\ Len(s) \in Nat /\ Len(t) \in Nat
      /\ DOMAIN (s \o t) = 1..(Len(s) + Len(t))
      /\ \A i \in 1..Len(s) : (s \o t)[i] = s[i]
  BY ConcatProperties, LenProperties
<1>2. \A i \in DOMAIN s : i % 2 = 0 => i - 1 \in 1..Len(s)
  BY <1>1
<1>3. QED
  BY SMTT(30), <1>1, <1>2 DEF Whole

(* A new response at the end of whole responses. *)
LEMMA WholeGrows ==
  ASSUME NEW s \in Seq(Byte), Whole(s), Len(s) % 2 = 0,
         NEW x \in Responses, \A i \in DOMAIN s : s[i][1] # x
  PROVE  /\ Whole(s \o Bytes(x)) /\ Len(s \o Bytes(x)) % 2 = 0
         /\ \A y : (\E i \in DOMAIN (s \o Bytes(x)) : (s \o Bytes(x))[i][1] = y)
                    <=> y = x \/ \E i \in DOMAIN s : s[i][1] = y
<1> DEFINE n == Len(s)
           u == s \o Bytes(x)
<1>1. n \in Nat /\ DOMAIN s = 1..n /\ n % 2 = 0
  BY LenProperties
<1>2. Len(Bytes(x)) = 2 /\ Bytes(x)[1] = <<x, 1>> /\ Bytes(x)[2] = <<x, 2>>
  BY DEF Bytes
<1>3. u \in Seq(Byte) /\ Len(u) = n + 2 /\ DOMAIN u = 1..(n + 2)
  <2>1. Bytes(x) \in Seq(Byte)
    BY BytesType
  <2>2. s \o Bytes(x) \in Seq(Byte) /\ Len(s \o Bytes(x)) = Len(s) + Len(Bytes(x))
    BY <2>1, ConcatProperties
  <2>3. QED
    BY <1>2, <2>2, LenProperties
<1>4. /\ \A i \in 1..n : u[i] = s[i]
      /\ u[n + 1] = <<x, 1>> /\ u[n + 2] = <<x, 2>>
  <2>1. Bytes(x) \in Seq(Byte)
    BY BytesType
  <2>2. \A i \in 1..(Len(s) + Len(Bytes(x))) :
          (s \o Bytes(x))[i] = IF i <= Len(s) THEN s[i] ELSE Bytes(x)[i - Len(s)]
    BY <2>1, ConcatProperties, SMTT(30)
  <2> DEFINE b == Bytes(x)
  <2>3. \A i \in 1..(n + 2) : u[i] = IF i <= n THEN s[i] ELSE b[i - n]
    BY ZenonT(30), <1>2, <2>2
  <2>4. b[1] = <<x, 1>> /\ b[2] = <<x, 2>>
    BY <1>2
  <2> HIDE DEF n, u, b
  <2>5. u[n + 1] = b[1] /\ u[n + 2] = b[2]
    BY <1>1, <2>3
  <2>6. QED
    BY <1>1, <2>3, <2>4, <2>5
<1> HIDE DEF n, u
<1>5. (n + 1) % 2 = 1 /\ (n + 2) % 2 = 0 /\ (n + 2) - 1 = n + 1
  BY SMTT(30), <1>1
<1>6. 1..(n + 2) = (1..n) \cup {n + 1, n + 2}
  BY <1>1
<1>7. \A i \in 1..n : u[i][1] # x
  BY ZenonT(30), <1>1, <1>4
<1>8. \A i \in 1..n : i % 2 = 0 => i - 1 \in 1..n
  BY <1>1
<1>9. ASSUME NEW i \in 1..(n + 2)
      PROVE  /\ i % 2 = 1 => u[i][2] = 1
             /\ i % 2 = 0 => u[i] = <<u[i - 1][1], 2>>
  <2>1. CASE i \in 1..n
    BY SMTT(30), <2>1, <1>1, <1>4, <1>8 DEF Whole
  <2>2. CASE i = n + 1
    BY <2>2, <1>4, <1>5
  <2>3. CASE i = n + 2
    BY <2>3, <1>4, <1>5
  <2>4. QED
    BY <1>6, <2>1, <2>2, <2>3
<1>10. ASSUME NEW i \in 1..(n + 2), NEW j \in 1..(n + 2), u[i] = u[j]
       PROVE  i = j
  <2>1. CASE i \in 1..n /\ j \in 1..n
    BY <2>1, <1>1, <1>4, <1>10, ZenonT(60) DEF Whole
  <2>2. u[n + 1][1] = x /\ u[n + 2][1] = x /\ u[n + 1] # u[n + 2]
    BY <1>4
  <2>3. QED
    BY <1>6, <1>7, <1>10, <2>1, <2>2
<1>11. Whole(u)
  BY <1>3, <1>9, <1>10 DEF Whole
<1>12. Len(u) % 2 = 0
  BY <1>3, <1>5
<1>13. ASSUME NEW y
       PROVE  (\E i \in 1..(n + 2) : u[i][1] = y) <=> y = x \/ \E i \in 1..n : s[i][1] = y
  <2>1. u[n + 1][1] = x /\ u[n + 2][1] = x /\ n + 1 \in 1..(n + 2)
    BY <1>1, <1>4
  <2>2. QED
    BY SMTT(30), <1>4, <1>6, <2>1
<1>14. QED
  BY ZenonT(30), <1>1, <1>3, <1>11, <1>12, <1>13 DEF u

LEMMA StreamType ==
  ASSUME IInv
  PROVE  /\ wire \in Seq(Byte) /\ output \in Seq(Byte) /\ acc \in Seq(Byte)
         /\ wire \o output \in Seq(Byte) /\ Stream \in Seq(Byte)
<1>1. wire \in Seq(Byte) /\ output \in Seq(Byte) /\ acc \in Seq(Byte)
  BY DEF IInv, TypeOK, Byte
<1>2. wire \o output \in Seq(Byte)
  BY <1>1, ConcatProperties
<1>3. QED
  BY <1>1, <1>2, ConcatProperties DEF Stream

(* Bytes may be joined in any order. *)
LEMMA JoinAssociative ==
  \A t, u, v \in Seq(Byte) : (t \o u) \o v = t \o (u \o v)
BY SMTT(30), ConcatAssociative

(* write_to_writer puts one response at the end of the stream, whether it gets
   the lock or not. *)
LEMMA StreamGrows ==
  ASSUME IInv, lock = Nobody => output = <<>>,
         NEW w, NEW x \in Responses, WriteToWriter(w, x)
  PROVE  Stream' = Stream \o Bytes(x)
<1>1. /\ wire \in Seq(Byte) /\ output \in Seq(Byte) /\ acc \in Seq(Byte)
      /\ wire \o output \in Seq(Byte) /\ Bytes(x) \in Seq(Byte)
  BY StreamType, BytesType
<1>2. CASE lock = Nobody
  <2>1. Stream' = (wire \o (acc \o Bytes(x))) \o <<>>
    BY ZenonT(30), <1>2 DEF WriteToWriter, Stream
  <2>2. wire \o (acc \o Bytes(x)) = (wire \o acc) \o Bytes(x)
    BY <1>1, JoinAssociative, ZenonT(60)
  <2>3. wire \o acc \in Seq(Byte)
    BY <1>1, ConcatProperties
  <2>4. (wire \o acc) \o Bytes(x) \in Seq(Byte)
    BY <1>1, <2>3, ConcatProperties
  <2>5. Stream' = (wire \o acc) \o Bytes(x)
    BY <2>1, <2>2, <2>4, ConcatEmptySeq
  <2>6. Stream = wire \o acc
    BY <1>1, <1>2, ConcatEmptySeq DEF Stream
  <2>7. QED
    BY <2>5, <2>6
<1>3. CASE lock # Nobody
  <2>1. Stream' = (wire \o output) \o (acc \o Bytes(x))
    BY ZenonT(30), <1>3 DEF WriteToWriter, Stream
  <2> DEFINE u == wire \o output
  <2>2. u \in Seq(Byte)
    BY <1>1
  <2> HIDE DEF u
  <2>3. (u \o acc) \o Bytes(x) = u \o (acc \o Bytes(x))
    BY <1>1, <2>2, JoinAssociative, ZenonT(60)
  <2>4. QED
    BY <2>1, <2>3, Zenon DEF Stream, u
<1>4. QED
  BY <1>2, <1>3

(* try_write moves bytes from the output to the wire, and the accumulated
   outputs become the output: the stream stays. *)
LEMMA StreamStays ==
  ASSUME IInv, NEW w \in Writers, WriteSome(w)
  PROVE  Stream' = Stream
<1>1. PICK n \in 1..Len(output) :
        /\ wire' = wire \o SubSeq(output, 1, n)
        /\ \/ /\ n < Len(output)
              /\ output' = SubSeq(output, n + 1, Len(output))
              /\ UNCHANGED acc
           \/ /\ n = Len(output)
              /\ output' = acc /\ acc' = <<>>
  BY ZenonT(30) DEF WriteSome
<1>2. /\ wire \in Seq(Byte) /\ output \in Seq(Byte) /\ acc \in Seq(Byte)
      /\ wire \o output \in Seq(Byte) /\ Stream \in Seq(Byte)
  BY StreamType
<1>3. Len(output) \in Nat /\ n \in Nat /\ n <= Len(output) /\ 1 <= Len(output)
  BY <1>2
<1>4. CASE n < Len(output)
  <2> DEFINE a == SubSeq(output, 1, n)
             b == SubSeq(output, n + 1, Len(output))
  <2>1. a \in Seq(Byte) /\ b \in Seq(Byte)
    BY <1>2, <1>3
  <2>2. a \o b = SubSeq(output, 1, Len(output))
    BY <1>2, <1>3, ConcatAdjacentSubSeq
  <2>3. a \o b = output
    BY <1>2, <2>2, SubSeqFull
  <2>4. wire' = wire \o a /\ output' = b /\ acc' = acc
    BY <1>1, <1>4
  <2> HIDE DEF a, b
  <2>5. (wire \o a) \o b = wire \o (a \o b)
    <3>1. wire \in Seq(Byte)
      BY <1>2
    <3>2. QED
      BY <2>1, <3>1, JoinAssociative, Zenon
  <2>6. QED
    BY <2>3, <2>4, <2>5, Zenon DEF Stream
<1>5. CASE n = Len(output)
  <2>1. wire' = wire \o output
    BY SMTT(30), <1>1, <1>2, <1>5, SubSeqFull
  <2>2. output' = acc /\ acc' = <<>>
    BY <1>1, <1>3, <1>5
  <2>3. Stream' = Stream \o <<>>
    BY <2>1, <2>2, Zenon DEF Stream
  <2>4. QED
    BY <1>2, <2>3, ConcatEmptySeq
<1>6. QED
  BY <1>3, <1>4, <1>5

(* What is written is a prefix of the stream. *)
LEMMA WireIsPrefix ==
  ASSUME IInv, Whole(Stream)
  PROVE  Whole(wire)
<1>1. /\ wire \in Seq(Byte) /\ output \in Seq(Byte) /\ acc \in Seq(Byte)
      /\ wire \o output \in Seq(Byte)
  BY StreamType
<1>2. Whole(wire \o output)
  BY ZenonT(30), <1>1, WholePrefix DEF Stream
<1>3. QED
  BY <1>1, <1>2, WholePrefix

LEMMA InitWInv == Init => WInv
<1> SUFFICES ASSUME Init PROVE WInv
  OBVIOUS
<1>1. wire = <<>> /\ Stream = <<>> /\ output = <<>>
  BY ConcatEmptySeq DEF Init, Stream
<1>2. DOMAIN <<>> = {} /\ Len(<<>>) = 0
  BY EmptySeq
<1>3. Whole(wire) /\ Whole(Stream) /\ Len(Stream) % 2 = 0 /\ \A x : ~Sent(x)
  BY <1>1, <1>2 DEF Whole, Sent
<1>4. FailureMeansClosed
  BY DEF Init, FailureMeansClosed
<1>5. QED
  BY <1>1, <1>3, <1>4 DEF WInv, WireIsWholeResponses, StreamIsWhole

(* A response that is not in the stream yet is written: the new stream, and
   what is in it. *)
LEMMA StreamIsExtended ==
  ASSUME IInv, WInv, NEW w, NEW x \in Responses, WriteToWriter(w, x),
         peer = "open", ~Sent(x)
  PROVE  /\ Whole(Stream)' /\ (Len(Stream) % 2 = 0)'
         /\ \A y : Sent(y)' <=> y = x \/ Sent(y)
<1>1. Stream' = Stream \o Bytes(x)
  BY StreamGrows DEF WInv
<1>2. /\ Stream \in Seq(Byte) /\ Whole(Stream) /\ Len(Stream) % 2 = 0
      /\ \A i \in DOMAIN Stream : Stream[i][1] # x
  BY StreamType DEF WInv, StreamIsWhole, Sent
<1> DEFINE s == Stream
<1>3. /\ s \in Seq(Byte) /\ Whole(s) /\ Len(s) % 2 = 0
      /\ \A i \in DOMAIN s : s[i][1] # x
  BY <1>2, Zenon
<1> HIDE DEF s
<1>4. /\ Whole(s \o Bytes(x)) /\ Len(s \o Bytes(x)) % 2 = 0
      /\ \A y : (\E i \in DOMAIN (s \o Bytes(x)) : (s \o Bytes(x))[i][1] = y)
                 <=> y = x \/ \E i \in DOMAIN s : s[i][1] = y
  BY <1>3, WholeGrows, Zenon
<1>5. /\ Whole(Stream') /\ Len(Stream') % 2 = 0
      /\ \A y : (\E i \in DOMAIN Stream' : Stream'[i][1] = y)
                 <=> y = x \/ \E i \in DOMAIN Stream : Stream[i][1] = y
  BY <1>1, <1>4, Zenon DEF s
<1>6. QED
  BY <1>5, Zenon DEF Sent, Whole

LEMMA NextWInv == IInv /\ WInv /\ [Next]_vars => WInv'
<1> SUFFICES ASSUME IInv, WInv, [Next]_vars PROVE WInv'
  OBVIOUS
<1> USE ConstantsAssumption
(* One task writes one new response; the others stay as they are. *)
<1>1. ASSUME NEW w \in Writers, pc[w] \in {"idle", "running"}, NEW x \in Responses,
             WriteToWriter(w, x), peer' = peer,
             peer = "open" => ~Sent(x),
             x \in Requests => x = w,
             x = Ready => phase' \notin {"config", "creating"},
             x = Closing => phase' \in {"failing", "closed"},
             phase' \in {"config", "creating"} => phase \in {"config", "creating"},
             phase \in {"failing", "closed"} => phase' \in {"failing", "closed"}
      PROVE  WInv'
  <2>1. WriteDone(w)
    BY <1>1, WriteToWriterKeeps
  <2>2. /\ wire' = wire /\ lock' # Nobody
        /\ \A v \in Writers : v # w => pc'[v] = pc[v]
        /\ pc'[w] \in {"write", "done"}
    BY <2>1 DEF WriteDone
  <2>3. WireIsWholeResponses'
    BY <2>2 DEF WInv, WireIsWholeResponses, Whole
  <2>4. FailureMeansClosed'
    BY <1>1, <2>2 DEF WInv, FailureMeansClosed
  <2>5. ASSUME peer' = "open" PROVE StreamIsWhole'
    <3>1. /\ Whole(Stream)' /\ (Len(Stream) % 2 = 0)'
          /\ \A y : Sent(y)' <=> y = x \/ Sent(y)
      BY <1>1, <2>5, StreamIsExtended
    <3>2. /\ \A r \in Requests : pc[r] \in {"idle", "running"} => ~Sent(r)
          /\ phase \in {"config", "creating"} => ~Sent(Ready)
          /\ phase \notin {"failing", "closed"} => ~Sent(Closing)
      BY <1>1, <2>5 DEF WInv, StreamIsWhole
    <3>3. ASSUME NEW r \in Requests, pc'[r] \in {"idle", "running"} PROVE ~Sent(r)'
      <4>1. r # w /\ r \in Writers
        BY <2>2, <3>3 DEF Writers
      <4>2. r # x /\ ~Sent(r)
        BY <1>1, <2>2, <3>2, <3>3, <4>1
      <4>3. QED
        BY <3>1, <4>2
    <3>4. phase' \in {"config", "creating"} => ~Sent(Ready)'
      BY <1>1, <3>1, <3>2
    <3>5. phase' \notin {"failing", "closed"} => ~Sent(Closing)'
      BY <1>1, <3>1, <3>2
    <3>6. QED
      BY <3>1, <3>3, <3>4, <3>5 DEF StreamIsWhole, Ready, Closing
  <2>6. QED
    BY <2>2, <2>3, <2>4, <2>5 DEF WInv, StreamIsWhole
(* No byte is added, and no response becomes due again. *)
<1>2. ASSUME peer' = "open" => peer = "open" /\ Stream' = Stream,
             WireIsWholeResponses', FailureMeansClosed', (lock = Nobody => output = <<>>)',
             \A r \in Requests : pc'[r] \in {"idle", "running"} => pc[r] \in {"idle", "running"},
             phase' \in {"config", "creating"} => phase \in {"config", "creating"},
             phase \in {"failing", "closed"} => phase' \in {"failing", "closed"}
      PROVE  WInv'
  <2>1. ASSUME peer' = "open" PROVE StreamIsWhole'
    <3>1. /\ Whole(Stream)' /\ (Len(Stream) % 2 = 0)'
          /\ \A y : Sent(y)' <=> Sent(y)
      BY <1>2, <2>1 DEF WInv, StreamIsWhole, Whole, Sent
    <3>2. /\ \A r \in Requests : pc[r] \in {"idle", "running"} => ~Sent(r)
          /\ phase \in {"config", "creating"} => ~Sent(Ready)
          /\ phase \notin {"failing", "closed"} => ~Sent(Closing)
      BY <1>2, <2>1 DEF WInv, StreamIsWhole
    <3>3. QED
      BY <1>2, <3>1, <3>2 DEF StreamIsWhole, Ready, Closing
  <2>2. QED
    BY <1>2, <2>1 DEF WInv, StreamIsWhole
(* The writer is left alone. *)
<1>3. ASSUME UNCHANGED writerVars, peer' = "open" => peer = "open",
             peer = "closed" => peer' = "closed",
             \A w \in Writers : pc'[w] = pc[w] \/ pc'[w] \in {"idle", "running"},
             \A r \in Requests : pc'[r] \in {"idle", "running"} => pc[r] \in {"idle", "running"},
             phase' \in {"config", "creating"} => phase \in {"config", "creating"},
             phase \in {"failing", "closed"} => phase' \in {"failing", "closed"}
      PROVE  WInv'
  <2>1. Stream' = Stream
    BY <1>3, Zenon DEF writerVars, Stream
  <2>2. WireIsWholeResponses' /\ (lock = Nobody => output = <<>>)'
    BY <1>3 DEF writerVars, WInv, WireIsWholeResponses, Whole
  <2>3. FailureMeansClosed'
    BY <1>3 DEF WInv, FailureMeansClosed
  <2>4. QED
    BY <1>2, <1>3, <2>1, <2>2, <2>3
<1>4. CASE ReadConfigFails
  BY <1>1, <1>4 DEF ReadConfigFails, IInv, MainIdle, WInv, StreamIsWhole, Writers, Responses,
     Ready, Closing
<1>5. CASE ClientCreated
  BY <1>1, <1>5 DEF ClientCreated, peerVars, WInv, StreamIsWhole, Writers, Responses,
     Ready, Closing
<1>6. CASE ClientFails
  BY <1>1, <1>6 DEF ClientFails, peerVars, WInv, StreamIsWhole, Writers, Responses,
     Ready, Closing
<1>7. CASE ReadFails
  BY <1>1, <1>7 DEF ReadFails, peerVars, IInv, MainIdle, WInv, StreamIsWhole, Writers,
     Responses, Ready, Closing
<1>8. ASSUME NEW r \in Requests, Respond(r) PROVE WInv'
  BY SMTT(30), <1>1, <1>8 DEF Respond, peerVars, WInv, StreamIsWhole, Writers, Responses, Ready, Closing
<1>9. ASSUME NEW w \in Writers, WriteSome(w) PROVE WInv'
  <2>1. Stream' = Stream /\ peer = "open" /\ peer' = "open"
    BY ZenonT(30), <1>9, StreamStays DEF WriteSome, peerVars
  <2>2. IInv'
    BY NextIInv
  <2>3. Whole(Stream)'
    BY <2>1 DEF WInv, StreamIsWhole, Whole
  <2>4. WireIsWholeResponses'
    <3>1. (IInv /\ Whole(Stream) => Whole(wire))'
      BY WireIsPrefix, PTL
    <3>2. QED
      BY <2>2, <2>3, <3>1 DEF WireIsWholeResponses
  <2>5. QED
    BY SMTT(30), <1>2, <1>9, <2>1, <2>4 DEF WriteSome, WInv, FailureMeansClosed, IInv, TypeOK, Writers
<1>10. CASE PeerCloses
  BY <1>3, <1>10 DEF PeerCloses
<1>11. ASSUME NEW w \in Writers, WriteFails(w) PROVE WInv'
  <2>1. peer = "closed" /\ peer' = "closed"
    BY <1>11 DEF WriteFails, peerVars
  <2>2. WireIsWholeResponses' /\ (lock = Nobody => output = <<>>)'
    BY <1>11 DEF WriteFails, writerVars, WInv, WireIsWholeResponses, Whole
  <2>3. QED
    BY <2>1, <2>2 DEF WInv, StreamIsWhole, FailureMeansClosed
<1>12. ASSUME NEW w \in Writers, SendReason(w) PROVE WInv'
  <2>1. peer = "closed" /\ peer' = "closed"
    BY <1>12 DEF SendReason, peerVars, WInv, FailureMeansClosed
  <2>2. WireIsWholeResponses' /\ (lock = Nobody => output = <<>>)'
    BY <1>12 DEF SendReason, WInv, WireIsWholeResponses, Whole
  <2>3. QED
    BY <2>1, <2>2 DEF WInv, StreamIsWhole, FailureMeansClosed
<1>13. CASE ReadRequests
  <2>1. PICK n \in 1..Len(inbox) :
          pc' = [w \in Writers |->
                   IF w \in Range(SubSeq(inbox, 1, n)) THEN "running" ELSE pc[w]]
    BY <1>13 DEF ReadRequests
  <2>2. \A w \in Range(SubSeq(inbox, 1, n)) : pc[w] = "idle"
    BY DEF IInv, TypeOK, InboxIdle, Range
  <2>3. /\ \A w \in Writers : pc'[w] = pc[w] \/ pc'[w] \in {"idle", "running"}
        /\ \A r \in Requests : pc'[r] \in {"idle", "running"} => pc[r] \in {"idle", "running"}
    BY <2>1, <2>2 DEF Writers
  <2>4. QED
    BY ZenonT(30), <1>3, <1>13, <2>3 DEF ReadRequests
<1>14. CASE PeerConfigures
  BY <1>3, <1>14 DEF PeerConfigures
<1>15. ASSUME NEW r \in Requests, PeerSends(r) PROVE WInv'
  BY <1>3, <1>15 DEF PeerSends
<1>16. CASE ReadConfig
  BY <1>3, <1>16 DEF ReadConfig
<1>17. CASE ReadConfigClosed
  BY <1>3, <1>17 DEF ReadConfigClosed, Return, peerVars
<1>18. CASE StartServing
  BY <1>3, <1>18 DEF StartServing, peerVars, IInv, TypeOK, Writers
<1>19. CASE ReturnAfterError
  BY <1>3, <1>19 DEF ReturnAfterError, Return, peerVars
<1>20. CASE ReadClosed
  BY <1>3, <1>20 DEF ReadClosed, Return, peerVars
<1>21. CASE ReceiveReason
  BY <1>3, <1>21 DEF ReceiveReason, peerVars
<1>22. CASE UNCHANGED vars
  BY <1>3, <1>22 DEF vars, peerVars
<1>23. QED
  BY <1>4, <1>5, <1>6, <1>7, <1>8, <1>9, <1>10, <1>11, <1>12, <1>13, <1>14, <1>15, <1>16,
     <1>17, <1>18, <1>19, <1>20, <1>21, <1>22 DEF Next, MainStep, WriteStep

(* What the wrapper reads is whole responses, each once: however many tasks call
   write_to_writer, wherever try_write stops, and whoever gives up. *)
THEOREM WireIsWholeResponsesHolds == Spec => []WireIsWholeResponses
<1>1. WInv => WireIsWholeResponses
  BY DEF WInv
<1>2. QED
  BY InitIInv, NextIInv, InitWInv, NextWInv, <1>1, PTL DEF Spec

-----------------------------------------------------------------------------
(* The core's end of the exchange *)

All == Requests \cup {Ready}

(* A response that the wrapper has in full, and a request it has sent. *)
Answered(r) == \E i \in DOMAIN wire : wire[i] = <<r, 2>>

AskedFor(r) == IF r = Ready THEN config # "none" ELSE r \in Asked

(* The configuration is read before anything is made of it. *)
ConfigFirst == peer = "open" /\ config = "none" => phase = "config"

LEMMA ConfigFirstInit == Init => ConfigFirst
BY DEF Init, ConfigFirst

LEMMA ConfigFirstStep == ConfigFirst /\ [Next]_vars => ConfigFirst'
<1> SUFFICES ASSUME ConfigFirst, [Next]_vars PROVE ConfigFirst'
  OBVIOUS
<1> USE DEF ConfigFirst
<1>1. CASE MainStep
  BY SMTT(30), <1>1 DEF MainStep, ReadConfig, ReadConfigFails, ReadConfigClosed, ClientCreated, ClientFails,
     StartServing, ReturnAfterError, ReadRequests, ReadClosed, ReceiveReason, Return, peerVars
<1>2. CASE PeerConfigures \/ PeerCloses \/ ReadFails
  BY SMTT(30), <1>2 DEF PeerConfigures, PeerCloses, ReadFails, peerVars
<1>3. ASSUME NEW r \in Requests, PeerSends(r) \/ Respond(r) PROVE ConfigFirst'
  BY SMTT(30), <1>3 DEF PeerSends, Respond, peerVars
<1>4. ASSUME NEW w \in Writers, WriteStep(w) PROVE ConfigFirst'
  BY SMTT(30), <1>4 DEF WriteStep, WriteSome, WriteFails, SendReason, peerVars
<1>5. CASE UNCHANGED vars
  BY <1>5 DEF vars, peerVars
<1> QED BY <1>1, <1>2, <1>3, <1>4, <1>5 DEF Next

(* What is answered was asked for: it went through the stream. *)
LEMMA AnsweredWasAsked ==
  ASSUME IInv, WInv, ConfigFirst, peer = "open", NEW r \in All, Sent(r)
  PROVE  AskedFor(r)
<1>1. CASE r = Ready
  BY <1>1 DEF WInv, StreamIsWhole, ConfigFirst, AskedFor
<1>2. CASE r # Ready
  <2>1. r \in Requests /\ pc[r] # "idle"
    BY <1>2 DEF All, WInv, StreamIsWhole
  <2> QED BY <1>2, <2>1 DEF AskedFor, Asked
<1> QED BY <1>1, <1>2

LEMMA AnsweredIsSent ==
  ASSUME IInv, NEW r, Answered(r)
  PROVE  Sent(r)
<1>1. PICK i \in DOMAIN wire : wire[i] = <<r, 2>>
  BY DEF Answered
<1>2. wire \in Seq(Byte) /\ output \in Seq(Byte) /\ acc \in Seq(Byte) /\ wire \o output \in Seq(Byte)
  BY StreamType
<1> DEFINE u == wire \o output
<1>3. i \in DOMAIN u /\ u[i] = wire[i]
  BY <1>2, ConcatProperties, LenProperties
<1>4. u \in Seq(Byte)
  BY <1>2
<1> HIDE DEF u
<1>5. i \in DOMAIN (u \o acc) /\ (u \o acc)[i] = u[i]
  BY <1>2, <1>3, <1>4, ConcatProperties, LenProperties
<1>6. i \in DOMAIN Stream /\ Stream[i] = <<r, 2>>
  BY <1>1, <1>3, <1>5, Zenon DEF Stream, u
<1>7. Stream[i][1] = r
  BY <1>6
<1> QED BY <1>6, <1>7, Zenon DEF Sent

(* The status of a request; none is answered twice. *)
LEMMA StatusIs ==
  ASSUME WInv, NEW r
  PROVE  StatusOf(r) = IF peer = "closed" THEN "lost" ELSE IF Answered(r) THEN "answered"
                       ELSE IF AskedFor(r) THEN "asked" ELSE "unasked"
<1>1. \A i, j \in DOMAIN wire : wire[i] = wire[j] => i = j
  BY DEF WInv, WireIsWholeResponses, Whole
<1> DEFINE answers == {i \in DOMAIN wire : wire[i] = <<r, 2>>}
<1>2. ~\E i, j \in answers : i # j
  BY <1>1
<1>3. answers # {} <=> Answered(r)
  BY DEF Answered
<1> HIDE DEF answers
<1>4. StatusOf(r) = IF peer = "closed" THEN "lost"
                    ELSE IF \E i, j \in answers : i # j THEN "repeated"
                    ELSE IF answers # {} THEN "answered"
                    ELSE IF AskedFor(r) THEN "asked" ELSE "unasked"
  BY Zenon DEF StatusOf, answers, AskedFor
<1> QED BY <1>2, <1>3, <1>4, Zenon

(* The statuses the exchange sees, and how a step that changes some of them, or
   none, is a step of the exchange. *)
Status(r) == IF peer = "closed" THEN "lost" ELSE IF Answered(r) THEN "answered"
             ELSE IF AskedFor(r) THEN "asked" ELSE "unasked"

StatusMap == [r \in Requests \cup {Ready} |-> StatusOf(r)]

LEMMA StatusMapIs == WInv => StatusMap = [r \in All |-> Status(r)]
<1> SUFFICES ASSUME WInv PROVE StatusMap = [r \in All |-> Status(r)]
  OBVIOUS
<1>1. \A r : StatusOf(r) = Status(r)
  BY StatusIs, Zenon DEF Status
<1> QED BY <1>1, Zenon DEF StatusMap, All

LEMMA Becoming ==
  ASSUME WInv, WInv', peer = "open", peer' = "open", NEW batch, NEW new,
         \A r \in All : Status(r)' = IF r \in batch THEN new ELSE Status(r)
  PROVE  AsExchange!Becomes(batch, new) /\ \A r \in All : StatusMap[r] = Status(r)
<1>1. StatusMap = [r \in All |-> Status(r)]
  BY StatusMapIs
<1>2. (WInv => StatusMap = [r \in All |-> Status(r)])'
  BY StatusMapIs, PTL
<1>3. StatusMap' = [r \in All |-> Status(r)']
  BY <1>2 DEF All
<1>4. StatusMap' = [r \in All |-> IF r \in batch THEN new ELSE StatusMap[r]]
  BY <1>1, <1>3, Zenon
<1> QED BY <1>1, <1>4 DEF AsExchange!Becomes, StatusMap, All

LEMMA Asking ==
  ASSUME WInv, WInv', peer = "open", peer' = "open", NEW batch \in SUBSET All,
         \A r \in batch : Status(r) = "unasked" /\ (r = Ready \/ Status(Ready) = "answered"),
         \A r \in All : Status(r)' = IF r \in batch THEN "asked" ELSE Status(r)
  PROVE  AsExchange!Next
<1>1. AsExchange!Becomes(batch, "asked") /\ \A r \in All : StatusMap[r] = Status(r)
  BY Becoming
<1>2. Ready \in All /\ \A r \in batch : r \in All
  BY DEF All
<1>3. \A r \in batch : StatusMap[r] = "unasked" /\ (r = Ready \/ StatusMap[Ready] = "answered")
  BY <1>1, <1>2
<1>4. AsExchange!Ask(batch)
  BY <1>1, <1>3, Zenon DEF AsExchange!Ask, StatusMap
<1> QED BY <1>4 DEF AsExchange!Next, All

LEMMA Answering ==
  ASSUME WInv, WInv', peer = "open", peer' = "open", NEW batch \in SUBSET All,
         \A r \in batch : Status(r) = "asked",
         \A r \in All : Status(r)' = IF r \in batch THEN "answered" ELSE Status(r)
  PROVE  AsExchange!Next
<1>1. AsExchange!Becomes(batch, "answered") /\ \A r \in All : StatusMap[r] = Status(r)
  BY Becoming
<1>2. \A r \in batch : StatusMap[r] = "asked"
  BY <1>1
<1>3. AsExchange!Answer(batch)
  BY <1>1, <1>2, Zenon DEF AsExchange!Answer, StatusMap
<1> QED BY <1>3 DEF AsExchange!Next, All

LEMMA Stuttering ==
  ASSUME WInv, WInv', peer' = peer, \A r \in All : Status(r)' = Status(r)
  PROVE  UNCHANGED AsExchange!exchangeVars
<1>1. StatusMap = [r \in All |-> Status(r)]
  BY StatusMapIs
<1>2. (WInv => StatusMap = [r \in All |-> Status(r)])'
  BY StatusMapIs, PTL
<1>3. StatusMap' = [r \in All |-> Status(r)']
  BY <1>2 DEF All
<1>4. StatusMap' = StatusMap
  BY <1>1, <1>3, Zenon
<1> QED BY <1>4 DEF AsExchange!exchangeVars, StatusMap

LEMMA Quiet ==
  ASSUME WInv, WInv', peer' = peer, wire' = wire, config' = "none" <=> config = "none",
         \A r \in Requests : r \in Asked' <=> r \in Asked
  PROVE  UNCHANGED AsExchange!exchangeVars
<1>1. \A r \in All : Answered(r)' <=> Answered(r)
  BY Zenon DEF Answered
<1>2. \A r \in All : AskedFor(r)' <=> AskedFor(r)
  BY DEF AskedFor, All
<1>3. \A r \in All : Status(r)' = Status(r)
  BY <1>1, <1>2, Zenon DEF Status
<1> QED BY <1>3, Stuttering

(* A task that is not idle stays so, and an idle one starts by a request. *)
LEMMA AskedStays ==
  ASSUME inbox' = inbox, \A r \in Requests : pc'[r] = "idle" <=> pc[r] = "idle"
  PROVE  \A r \in Requests : r \in Asked' <=> r \in Asked
BY Zenon DEF Asked

LEMMA WriteToWriterAsked ==
  ASSUME IInv, NEW w \in Writers, w = Main \/ pc[w] # "idle", NEW x, WriteToWriter(w, x)
  PROVE  wire' = wire /\ \A r \in Requests : pc'[r] = "idle" <=> pc[r] = "idle"
<1>1. pc' = [pc EXCEPT ![w] = "write"] \/ pc' = [pc EXCEPT ![w] = "done"]
  BY DEF WriteToWriter
<1>2. pc \in [Writers -> {"idle", "running", "write", "sendAndReturn", "sendAndLoop", "done"}]
  BY DEF IInv, TypeOK
<1> QED BY <1>1, <1>2, ConstantsAssumption DEF Writers, WriteToWriter

LEMMA ReadRequestsAsked ==
  ASSUME IInv, ReadRequests
  PROVE  \A r \in Requests : r \in Asked' <=> r \in Asked
<1>1. PICK n \in 1..Len(inbox) :
        /\ pc' = [w \in Writers |->
                    IF w \in Range(SubSeq(inbox, 1, n)) THEN "running" ELSE pc[w]]
        /\ inbox' = SubSeq(inbox, n + 1, Len(inbox))
  BY Zenon DEF ReadRequests
<1>2. inbox \in Seq(Requests)
  BY DEF IInv, TypeOK
<1> DEFINE a == SubSeq(inbox, 1, n)
<1> DEFINE b == SubSeq(inbox, n + 1, Len(inbox))
<1>3. /\ Len(inbox) \in Nat /\ n \in Nat /\ 1 <= n /\ n <= Len(inbox) /\ DOMAIN inbox = 1..Len(inbox)
      /\ DOMAIN a = 1..n /\ \A i \in 1..n : a[i] = inbox[i]
      /\ DOMAIN b = 1..(Len(inbox) - n) /\ \A i \in 1..(Len(inbox) - n) : b[i] = inbox[n + i]
  BY SMTT(30), <1>2, LenProperties
<1> HIDE DEF a, b
<1>4. \A i \in DOMAIN inbox : i \in DOMAIN a \/ (i - n \in DOMAIN b /\ n + (i - n) = i)
  BY <1>3
<1>5. \A i \in DOMAIN b : n + i \in DOMAIN inbox
  BY <1>3
<1>6. \A r : r \in Range(inbox) <=> r \in Range(a) \/ r \in Range(b)
  BY <1>3, <1>4, <1>5 DEF Range
<1>7. \A r \in Requests : pc'[r] = IF r \in Range(a) THEN "running" ELSE pc[r]
  BY <1>1, Zenon DEF Writers, a
<1>8. inbox' = b
  BY <1>1 DEF b
<1>9. \A r \in Requests : r \in Asked' <=> r \in Range(b) \/ pc'[r] # "idle"
  BY <1>8, Zenon DEF Asked
<1> QED BY <1>6, <1>7, <1>9, Zenon DEF Asked

(* The invariant of the mapping, and the steps of the exchange one by one. *)
XInv == IInv /\ WInv /\ ConfigFirst

LEMMA NextXInv == XInv /\ [Next]_vars => XInv'
BY NextIInv, NextWInv, ConfigFirstStep, Zenon DEF XInv

LEMMA PeerConfiguresAsks ==
  ASSUME XInv, XInv', PeerConfigures
  PROVE  AsExchange!Next
<1>1. /\ peer = "open" /\ peer' = "open" /\ config = "none" /\ config' # "none"
      /\ wire' = wire /\ inbox' = inbox /\ pc' = pc
  BY DEF PeerConfigures, writerVars
<1>2. \A r \in All : Answered(r)' <=> Answered(r)
  BY <1>1, Zenon DEF Answered
<1>3. \A r \in All : r # Ready => (AskedFor(r)' <=> AskedFor(r))
  BY <1>1, Zenon DEF AskedFor, Asked
<1>4. AskedFor(Ready)' /\ ~AskedFor(Ready)
  BY <1>1, Zenon DEF AskedFor
<1>5. Ready \in All /\ {Ready} \in SUBSET All
  BY DEF All
<1>6. ~Answered(Ready)
  BY <1>1, <1>4, <1>5, AnsweredIsSent, AnsweredWasAsked DEF XInv
<1>7. \A r \in All : Status(r)' = IF r \in {Ready} THEN "asked" ELSE Status(r)
  BY <1>1, <1>2, <1>3, <1>4, <1>6 DEF Status
<1>8. Status(Ready) = "unasked"
  BY <1>1, <1>4, <1>6 DEF Status
<1>9. \A r \in {Ready} : Status(r) = "unasked" /\ (r = Ready \/ Status(Ready) = "answered")
  BY <1>8
<1> HIDE DEF Status
<1> QED BY <1>1, <1>5, <1>7, <1>9, Asking DEF XInv

LEMMA PeerSendsAsks ==
  ASSUME XInv, XInv', NEW q \in Requests, PeerSends(q)
  PROVE  AsExchange!Next
<1>1. /\ peer = "open" /\ peer' = "open" /\ q \notin Asked /\ config' = config
      /\ wire' = wire /\ inbox' = Append(inbox, q) /\ pc' = pc
      /\ \E i \in DOMAIN wire : wire[i] = <<Ready, 2>>
  BY DEF PeerSends, writerVars
<1>2. \A r \in All : Answered(r)' <=> Answered(r)
  BY <1>1, Zenon DEF Answered
<1>3. Answered(Ready)
  BY <1>1, Zenon DEF Answered
<1>4. q # Ready /\ q \in All /\ {q} \in SUBSET All /\ Ready \in All
  BY ConstantsAssumption DEF All, Ready
<1>5. inbox \in Seq(Requests)
  BY DEF XInv, IInv, TypeOK
<1>6. \A r : r \in Range(inbox') <=> r = q \/ r \in Range(inbox)
  <2>1. /\ DOMAIN inbox = 1..Len(inbox) /\ Len(inbox) \in Nat
        /\ DOMAIN inbox' = 1..(Len(inbox) + 1)
        /\ \A i \in 1..Len(inbox) : inbox'[i] = inbox[i]
        /\ inbox'[Len(inbox) + 1] = q
    BY <1>1, <1>5
  <2> QED BY <2>1 DEF Range
<1>7. \A r : r \in Asked' <=> r = q \/ r \in Asked
  BY <1>1, <1>6, Zenon DEF Asked
<1>8. \A r \in All : AskedFor(r)' <=> r = q \/ AskedFor(r)
  BY <1>1, <1>4, <1>7, Zenon DEF AskedFor
<1>9. ~AskedFor(q)
  BY <1>1, <1>4 DEF AskedFor
<1>10. ~Answered(q)
  BY <1>1, <1>4, <1>9, AnsweredIsSent, AnsweredWasAsked DEF XInv
<1>11. \A r \in All : Status(r)' = IF r \in {q} THEN "asked" ELSE Status(r)
  BY <1>1, <1>2, <1>8, <1>10 DEF Status
<1>12. \A r \in {q} : Status(r) = "unasked" /\ (r = Ready \/ Status(Ready) = "answered")
  BY <1>1, <1>3, <1>9, <1>10 DEF Status
<1> HIDE DEF Status
<1> QED BY <1>1, <1>4, <1>11, <1>12, Asking DEF XInv

LEMMA AnsweredAreSent == \A r : IInv /\ Answered(r) => Sent(r)
BY AnsweredIsSent

(* Bytes that reach the wrapper complete some answers; the stream that they are
   taken from has only answers to what was asked. *)
LEMMA WriteSomeAnswers ==
  ASSUME XInv, XInv', NEW w \in Writers, WriteSome(w)
  PROVE  AsExchange!Next
<1>1. /\ peer = "open" /\ peer' = "open" /\ config' = config /\ inbox' = inbox
      /\ \E n \in 1..Len(output) : wire' = wire \o SubSeq(output, 1, n)
  BY Zenon DEF WriteSome, peerVars
<1>2. /\ pc \in [Writers -> {"idle", "running", "write", "sendAndReturn", "sendAndLoop", "done"}]
      /\ pc[w] = "write" /\ (pc' = [pc EXCEPT ![w] = "done"] \/ pc' = [pc EXCEPT ![w] = "write"])
  BY DEF WriteSome, XInv, IInv, TypeOK
<1>3. \A r \in Requests : pc'[r] = "idle" <=> pc[r] = "idle"
  BY <1>2 DEF Writers
<1>4. \A r \in Requests : r \in Asked' <=> r \in Asked
  BY <1>1, <1>3, AskedStays
<1>5. \A r \in All : AskedFor(r)' <=> AskedFor(r)
  BY <1>1, <1>4 DEF AskedFor, All
<1>6. \A r \in All : Answered(r) => Answered(r)'
  <2>1. PICK n \in 1..Len(output) : wire' = wire \o SubSeq(output, 1, n)
    BY <1>1
  <2>2. wire \in Seq(Byte) /\ output \in Seq(Byte)
    BY StreamType DEF XInv
  <2>3. SubSeq(output, 1, n) \in Seq(Byte)
    BY <2>2
  <2>4. \A i \in DOMAIN wire : i \in DOMAIN wire' /\ wire'[i] = wire[i]
    BY <2>1, <2>2, <2>3, ConcatProperties, LenProperties
  <2> QED BY <2>4, Zenon DEF Answered
<1> DEFINE batch == {r \in All : Answered(r)' /\ ~Answered(r)}
<1>7. (\A r : IInv /\ Answered(r) => Sent(r))'
  BY AnsweredAreSent, PTL
<1>8. Stream' = Stream
  BY StreamStays DEF XInv
<1>9. \A r \in batch : Sent(r)
  BY <1>7, <1>8, Zenon DEF Sent, XInv
<1>10. \A r \in batch : AskedFor(r)
  BY <1>1, <1>9, AnsweredWasAsked DEF XInv
<1>11. \A r \in batch : Status(r) = "asked"
  BY <1>1, <1>10 DEF Status
<1>12. \A r \in All : Status(r)' = IF r \in batch THEN "answered" ELSE Status(r)
  BY <1>1, <1>5, <1>6 DEF Status
<1>13. batch \in SUBSET All
  OBVIOUS
<1> HIDE DEF Status, batch
<1> QED BY <1>1, <1>11, <1>12, <1>13, Answering DEF XInv

LEMMA PeerClosesCloses ==
  ASSUME XInv, XInv', PeerCloses
  PROVE  AsExchange!Next
<1>1. peer = "open" /\ peer' = "closed"
  BY DEF PeerCloses
<1>2. (WInv => StatusMap = [r \in All |-> Status(r)])'
  BY StatusMapIs, PTL
<1>3. StatusMap' = [r \in All |-> "lost"]
  BY <1>1, <1>2, Zenon DEF Status, All, XInv
<1>4. AsExchange!Close
  BY <1>1, <1>3 DEF AsExchange!Close, StatusMap, All
<1> QED BY <1>4 DEF AsExchange!Next

LEMMA NextExchange == XInv /\ [Next]_vars => [AsExchange!Next]_(AsExchange!exchangeVars)
<1> SUFFICES ASSUME XInv, [Next]_vars PROVE [AsExchange!Next]_(AsExchange!exchangeVars)
  OBVIOUS
<1>1. XInv' /\ IInv /\ WInv /\ WInv'
  BY NextXInv, Zenon DEF XInv
<1>2. ASSUME peerVars' = peerVars, wire' = wire,
             \A r \in Requests : pc'[r] = "idle" <=> pc[r] = "idle"
      PROVE  UNCHANGED AsExchange!exchangeVars
  <2>1. peer' = peer /\ config' = config /\ inbox' = inbox
    BY <1>2 DEF peerVars
  <2> QED BY <1>1, <1>2, <2>1, AskedStays, Quiet
<1>3. Main \in Writers /\ Main \notin Requests /\ Requests \subseteq Writers
  BY ConstantsAssumption DEF Writers
<1>4. CASE ReadConfigFails
  <2>1. /\ peer' = peer /\ inbox' = inbox /\ config \in {"partial", "garbled"} /\ config' = "read"
        /\ WriteToWriter(Main, Closing)
    BY <1>4 DEF ReadConfigFails
  <2> QED BY <1>1, <1>3, <2>1, WriteToWriterAsked, AskedStays, Quiet
<1>5. CASE ClientCreated
  <2>1. peerVars' = peerVars /\ WriteToWriter(Main, Ready)
    BY <1>5 DEF ClientCreated
  <2> QED BY <1>1, <1>2, <1>3, <2>1, WriteToWriterAsked
<1>6. CASE ClientFails \/ ReadFails
  <2>1. peerVars' = peerVars /\ WriteToWriter(Main, Closing)
    BY <1>6 DEF ClientFails, ReadFails
  <2> QED BY <1>1, <1>2, <1>3, <2>1, WriteToWriterAsked
<1>7. ASSUME NEW r \in Requests, Respond(r) PROVE UNCHANGED AsExchange!exchangeVars
  <2>1. peerVars' = peerVars /\ WriteToWriter(r, r) /\ pc[r] # "idle"
    BY <1>7 DEF Respond
  <2> QED BY <1>1, <1>2, <1>3, <2>1, WriteToWriterAsked
<1>8. CASE ReadConfig
  <2>1. /\ peer' = peer /\ inbox' = inbox /\ config = "sent" /\ config' = "read"
        /\ wire' = wire /\ pc' = pc
    BY <1>8 DEF ReadConfig, writerVars
  <2> QED BY <1>1, <2>1, AskedStays, Quiet
<1>9. CASE ReadConfigClosed \/ ReturnAfterError \/ ReadClosed \/ ReceiveReason
  <2>1. peerVars' = peerVars /\ wire' = wire /\ pc' = pc
    BY <1>9, Zenon DEF ReadConfigClosed, ReturnAfterError, ReadClosed, ReceiveReason, writerVars
  <2> QED BY <1>2, <2>1
<1>10. CASE StartServing
  <2>1. peerVars' = peerVars /\ wire' = wire /\ pc' = [pc EXCEPT ![Main] = "idle"]
    BY <1>10, Zenon DEF StartServing, writerVars
  <2>2. pc \in [Writers -> {"idle", "running", "write", "sendAndReturn", "sendAndLoop", "done"}]
    BY <1>1 DEF IInv, TypeOK
  <2>3. \A r \in Requests : pc'[r] = pc[r]
    BY <1>3, <2>1, <2>2
  <2> QED BY <1>2, <2>1, <2>3
<1>11. CASE ReadRequests
  <2>1. peer' = peer /\ config' = config /\ wire' = wire
    BY <1>11, Zenon DEF ReadRequests, writerVars
  <2> QED BY <1>1, <1>11, <2>1, ReadRequestsAsked, Quiet
<1>12. ASSUME NEW w \in Writers, WriteFails(w) \/ SendReason(w)
       PROVE  UNCHANGED AsExchange!exchangeVars
  <2>1. /\ peerVars' = peerVars /\ wire' = wire
        /\ pc[w] # "idle"
        /\ \E s \in {"sendAndReturn", "sendAndLoop", "done", "write"} : pc' = [pc EXCEPT ![w] = s]
    BY <1>12 DEF WriteFails, SendReason, writerVars
  <2>2. pc \in [Writers -> {"idle", "running", "write", "sendAndReturn", "sendAndLoop", "done"}]
    BY <1>1 DEF IInv, TypeOK
  <2>3. \A r \in Requests : pc'[r] = "idle" <=> pc[r] = "idle"
    BY <1>3, <2>1, <2>2
  <2> QED BY <1>2, <2>1, <2>3
<1>13. CASE UNCHANGED vars
  <2>1. peerVars' = peerVars /\ wire' = wire /\ pc' = pc
    BY <1>13, Zenon DEF vars, writerVars
  <2> QED BY <1>2, <2>1
<1>14. CASE PeerConfigures \/ PeerCloses
  BY <1>1, <1>14, PeerConfiguresAsks, PeerClosesCloses
<1>15. ASSUME NEW r \in Requests, PeerSends(r) PROVE AsExchange!Next
  BY <1>1, <1>15, PeerSendsAsks
<1>16. ASSUME NEW w \in Writers, WriteSome(w) PROVE AsExchange!Next
  BY <1>1, <1>16, WriteSomeAnswers
<1> QED
  BY <1>4, <1>5, <1>6, <1>7, <1>8, <1>9, <1>10, <1>11, <1>12, <1>13, <1>14, <1>15, <1>16, Zenon
  DEF Next, MainStep, WriteStep

LEMMA InitExchange == Init => AsExchange!Init
<1> SUFFICES ASSUME Init PROVE AsExchange!Init
  OBVIOUS
<1>1. peer = "open" /\ config = "none" /\ wire = <<>> /\ inbox = <<>>
      /\ \A r \in Requests : pc[r] = "idle"
  BY DEF Init, Writers
<1>2. WInv
  BY InitWInv
<1>3. \A r \in Requests : r \notin Asked
  BY <1>1 DEF Asked, Range
<1>4. \A r \in All : ~Answered(r) /\ ~AskedFor(r)
  BY <1>1, <1>3 DEF All, Answered, AskedFor
<1>5. \A r \in All : Status(r) = "unasked"
  BY <1>1, <1>4 DEF Status
<1>6. StatusMap = [r \in All |-> "unasked"]
  BY <1>2, <1>5, StatusMapIs, Zenon
<1> QED BY <1>1, <1>6 DEF AsExchange!Init, StatusMap, All

(* The task of the connection, the tasks of its requests and the writer they
   share implement the core's end of the exchange: however the lock passes and
   wherever try_write stops, the wrapper has a response in full only for a
   request it sent, once, and none after it closed. *)
THEOREM ImplementsExchangeHolds == Spec => ImplementsExchange
<1>1. Init => XInv
  BY InitIInv, InitWInv, ConfigFirstInit DEF XInv
<1> QED
  BY <1>1, NextXInv, InitExchange, NextExchange, PTL DEF Spec, ImplementsExchange, AsExchange!Spec

=============================================================================
