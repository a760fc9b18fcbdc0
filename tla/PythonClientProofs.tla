------------------------- MODULE PythonClientProofs -------------------------
(***************************************************************************)
(* Machine-checked proofs about PythonClient, for any set of calls: the    *)
(* callback indexes stay a partition, a request is in one place at a time  *)
(* and finds its future from there, so that an answer reaches its caller.  *)
(***************************************************************************)
EXTENDS PythonClient, FiniteSetTheorems, SequenceTheorems, TLAPS

(* The types, with what makes them and NothingStranded inductive: a call that
   has not begun has no write task, and before the connection nothing has. *)
TypeInv ==
  /\ TypeOK
  /\ IsFiniteSet(futures)
  /\ NothingStranded
  /\ \A c \in AllCalls : fut[c] = "none" => wtask[c] = "none"
  /\ phase = "listener" =>
       /\ futures = {} /\ free = <<>> /\ buffered = <<>> /\ reader = "none"
       /\ \A c \in AllCalls : fut[c] = "none"

(* The answer of a call is on its way. *)
Answered(c) == \E i \in DOMAIN inbox : inbox[i].from = c

(* A request is to be written, in the buffer, at the core or answered, and in
   one of these places only; its answer carries the index it was given, and what
   is nobody's answer ends the stream. *)
PlaceInv ==
  /\ \A c \in AllCalls :
       /\ wtask[c] \in {"none", "start"} => c \notin Range(buffered)
       /\ wtask[c] \in {"none", "start"} \/ c \in Range(buffered) => c \notin core
       /\ wtask[c] \in {"none", "start"} \/ c \in Range(buffered) \/ c \in core => ~Answered(c)
  /\ \A i, j \in DOMAIN inbox : inbox[i].from = inbox[j].from => i = j \/ inbox[i].from = Nobody
  /\ \A i \in DOMAIN inbox : inbox[i].from # Nobody => inbox[i].idx = index[inbox[i].from]
  /\ \A i \in DOMAIN inbox : inbox[i].from = Nobody => inbox[i].kind \in {"closing", "eof"}

InFlight(c) == wtask[c] = "start" \/ c \in Range(buffered) \/ c \in core \/ Answered(c)

FlightsInTable == \A c \in AllCalls : InFlight(c) => <<index[c], c>> \in futures

UniqueKeys == \A p, q \in futures : p[1] = q[1] => p = q

(* The second half of IndexesPartition. *)
Partition ==
  /\ UniqueKeys
  /\ \A i, j \in DOMAIN free : free[i] = free[j] => i = j
  /\ Keys \cap Range(free) = {}
  /\ Keys \cup Range(free) = 0..(Cardinality(futures) + Len(free) - 1)

TableInv ==
  /\ leaked = TRUE \/ UniqueKeys
  /\ leaked = TRUE \/ closed = TRUE \/ Partition
  /\ leaked = TRUE \/ reader \in {"ended", "raised"} \/ (FlightsInTable /\ WaitersInTable)
  /\ AnswersReachCaller

-----------------------------------------------------------------------------
(* Types *)

Message == [idx : Nat, from : AllCalls \cup {Nobody}, kind : Answers \cup {"eof"}]

LEMMA NobodyIsNoCall == Nobody \notin AllCalls
BY ConstantsAssumption DEF AllCalls

LEMMA RangeOfAppend ==
  ASSUME NEW S, NEW s \in Seq(S), NEW x \in S
  PROVE  Append(s, x) \in Seq(S) /\ Range(Append(s, x)) = Range(s) \cup {x}
<1>1. /\ DOMAIN Append(s, x) = 1..(Len(s) + 1) /\ DOMAIN s = 1..Len(s) /\ Len(s) \in Nat
      /\ \A i \in 1..Len(s) : Append(s, x)[i] = s[i]
      /\ Append(s, x)[Len(s) + 1] = x
  OBVIOUS
<1>2. Range(s) \cup {x} \subseteq Range(Append(s, x))
  BY <1>1 DEF Range
<1>3. Range(Append(s, x)) \subseteq Range(s) \cup {x}
  BY <1>1 DEF Range
<1> QED BY <1>2, <1>3

LEMMA TypeInvInit == Init => TypeInv
<1> SUFFICES ASSUME Init PROVE TypeInv
  OBVIOUS
<1>1. IsFiniteSet(futures)
  BY FS_EmptySet DEF Init
<1>2. \A c \in AllCalls : wtask[c] = "drain" <=> lock = c
  BY NobodyIsNoCall DEF Init
<1>3. inbox \in Seq(Message) /\ free \in Seq(Nat) /\ buffered \in Seq(AllCalls)
  BY DEF Init
<1> QED
  BY ZenonT(30), <1>1, <1>2, <1>3 DEF Init, TypeInv, TypeOK, NothingStranded, Message

LEMMA CallbackIndexType ==
  ASSUME TypeInv
  PROVE  CallbackIndex \in Nat /\ FreeAfterPop \in Seq(Nat)
<1>1. Cardinality(futures) \in Nat
  BY FS_CardinalityType DEF TypeInv
<1>2. free \in Seq(Nat)
  BY DEF TypeInv, TypeOK
<1> QED
  BY <1>1, <1>2 DEF CallbackIndex, FreeAfterPop

(* _get_future keeps the types, whatever the index. *)
LEMMA GetFutureType ==
  ASSUME TypeInv, NEW i \in Nat, NEW c \in AllCalls, fut[c] = "none", GetFuture(i, c),
         wtask' = [wtask EXCEPT ![c] = "start"], lock' = lock
  PROVE  /\ futures' \subseteq Nat \X AllCalls /\ IsFiniteSet(futures')
         /\ index' \in [AllCalls -> Nat]
         /\ fut' \in [AllCalls -> {"none", "pending", "result", "error", "cancelled"}]
         /\ wtask' \in [AllCalls -> {"none", "start", "drain", "done"}]
         /\ \A d \in AllCalls : wtask'[d] = "drain" <=> lock' = d
         /\ \A d \in AllCalls : fut'[d] = "none" => wtask'[d] = "none"
<1> DEFINE old == {p \in futures : p[1] # i}
<1>1. IsFiniteSet(old)
  <2>1. old \in SUBSET futures
    OBVIOUS
  <2> QED BY <2>1, FS_Subset DEF TypeInv
<1>2. IsFiniteSet(old \cup {<<i, c>>})
  BY ZenonT(30), <1>1, FS_AddElement
<1> QED
  BY SMTT(30), <1>2 DEF GetFuture, TypeInv, TypeOK

(* The core's last messages. *)
Eof == [idx |-> NoIndex, from |-> Nobody, kind |-> "eof"]
Closing == [idx |-> NoIndex, from |-> Nobody, kind |-> "closing"]

LEMMA CoreClosesInbox ==
  ASSUME CoreCloses
  PROVE  inbox' = Append(inbox, Eof) \/ inbox' = inbox \o <<Closing, Eof>>
BY SMTT(60) DEF CoreCloses, Eof, Closing

LEMMA LastMessages ==
  /\ Eof \in Message /\ Eof.from = Nobody /\ Eof.kind = "eof"
  /\ Closing \in Message /\ Closing.from = Nobody /\ Closing.kind = "closing"
BY ConstantsAssumption DEF Eof, Closing, Message, Answers

LEMMA CoreClosesType ==
  ASSUME TypeInv, CoreCloses
  PROVE  inbox' \in Seq(Message)
<1>1. inbox \in Seq(Message) /\ <<Closing, Eof>> \in Seq(Message)
  BY LastMessages DEF TypeInv, TypeOK, Message
<1>2. inbox \o <<Closing, Eof>> \in Seq(Message) /\ Append(inbox, Eof) \in Seq(Message)
  BY <1>1, LastMessages, ConcatProperties
<1> QED BY <1>2, CoreClosesInbox, Zenon

(* What the core sends last is nobody's answer. *)
LEMMA CoreClosesAppends ==
  ASSUME TypeInv, CoreCloses
  PROVE  /\ \A i \in DOMAIN inbox : inbox'[i] = inbox[i] /\ i \in DOMAIN inbox'
         /\ \A i \in DOMAIN inbox' :
              i \in DOMAIN inbox \/ (inbox'[i].from = Nobody /\ inbox'[i].kind \in {"closing", "eof"})
<1>1. inbox \in Seq(Message)
  BY DEF TypeInv, TypeOK, Message
<1>2. /\ \A i \in DOMAIN inbox : inbox'[i] = inbox[i] /\ i \in DOMAIN inbox'
      /\ \A i \in DOMAIN inbox' : i \in DOMAIN inbox \/ inbox'[i] = Closing \/ inbox'[i] = Eof
  <2>1. CASE inbox' = Append(inbox, Eof)
    BY <1>1, <2>1, LastMessages, SMTT(30)
  <2>2. CASE inbox' = inbox \o <<Closing, Eof>>
    BY <1>1, <2>2, LastMessages, SMTT(30)
  <2> QED BY <2>1, <2>2, CoreClosesInbox, Zenon
<1> QED BY <1>2, LastMessages

LEMMA TypeInvStep ==
  ASSUME TypeInv, [Next]_vars
  PROVE  TypeInv'
<1> USE ConstantsAssumption
<1>1. CASE CreateConnects
  <2>1. 0 \in Nat /\ Config \in AllCalls /\ fut[Config] = "none"
    BY <1>1 DEF CreateConnects, TypeInv, AllCalls
  <2>2. lock' = lock /\ wtask' = [wtask EXCEPT ![Config] = "start"] /\ GetFuture(0, Config)
    BY <1>1 DEF CreateConnects
  <2> QED
    BY ZenonT(30), <1>1, <2>1, <2>2, GetFutureType
    DEF CreateConnects, TypeInv, TypeOK, NothingStranded, socketVars
<1>2. ASSUME NEW c \in Calls, Execute(c) PROVE TypeInv'
  <2> c \in AllCalls
    BY DEF AllCalls
  <2>1. CASE closed
    BY ZenonT(60), <1>2, <2>1 DEF Execute, TypeInv, TypeOK, NothingStranded, socketVars, tableVars
  <2>2. CASE ~closed
    <3>1. /\ fut[c] = "none" /\ GetFuture(CallbackIndex, c) /\ lock' = lock
          /\ wtask' = [wtask EXCEPT ![c] = "start"] /\ free' = FreeAfterPop
      BY SMTT(30), <1>2, <2>2 DEF Execute
    <3> QED
      BY ZenonT(60), <1>2, <2>2, <3>1, CallbackIndexType, GetFutureType
      DEF Execute, TypeInv, TypeOK, NothingStranded, socketVars
  <2> QED BY <2>1, <2>2
<1>3. ASSUME NEW c \in Calls, ExecuteRaises(c) PROVE TypeInv'
  BY SMTT(30), <1>3, CallbackIndexType
  DEF ExecuteRaises, TypeInv, TypeOK, NothingStranded, socketVars, writeVars, AllCalls
<1>4. CASE ListenerFails \/ CreateConnectFails \/ CreateEnds
  BY ZenonT(60), <1>4 DEF ListenerFails, CreateConnectFails, CreateEnds,
     TypeInv, TypeOK, NothingStranded, socketVars, writeVars, tableVars
<1>5. ASSUME NEW c \in Calls, Cancel(c) PROVE TypeInv'
  BY <1>5 DEF Cancel, TypeInv, TypeOK, NothingStranded, socketVars, writeVars, tableVars, AllCalls
<1>6. ASSUME NEW c \in AllCalls, WriteOrBuffer(c) PROVE TypeInv'
  <2>1. /\ wtask' \in [AllCalls -> {"none", "start", "drain", "done"}]
        /\ lock' \in AllCalls \cup {Nobody}
        /\ \A d \in AllCalls : wtask'[d] = "drain" <=> lock' = d
        /\ \A d \in AllCalls : fut[d] = "none" => wtask'[d] = "none"
    <3>1. \/ lock = Nobody /\ lock' = c /\ wtask' = [wtask EXCEPT ![c] = "drain"]
          \/ lock # Nobody /\ lock' = lock /\ wtask' = [wtask EXCEPT ![c] = "done"]
      BY <1>6 DEF WriteOrBuffer
    <3>2. /\ wtask[c] = "start" /\ fut[c] # "none"
          /\ wtask \in [AllCalls -> {"none", "start", "drain", "done"}]
          /\ lock \in AllCalls \cup {Nobody}
          /\ \A d \in AllCalls : wtask[d] = "drain" <=> lock = d
          /\ \A d \in AllCalls : fut[d] = "none" => wtask[d] = "none"
      BY <1>6 DEF WriteOrBuffer, TypeInv, TypeOK
    <3> QED BY <3>1, <3>2, NobodyIsNoCall
  <2>2. buffered' \in Seq(AllCalls) /\ core' \subseteq AllCalls
    <3>1. /\ buffered \in Seq(AllCalls) /\ core \subseteq AllCalls
          /\ Append(buffered, c) \in Seq(AllCalls) /\ Range(Append(buffered, c)) \subseteq AllCalls
      BY RangeOfSeq, RangeOfAppend DEF TypeInv, TypeOK
    <3>2. /\ buffered' = <<>> \/ buffered' = Append(buffered, c)
          /\ core' = core \/ core' = core \cup Range(Append(buffered, c))
      BY <1>6 DEF WriteOrBuffer, Flush
    <3>3. buffered' \in Seq(AllCalls)
      BY <3>1, <3>2, EmptySeq, Zenon
    <3>4. core' \subseteq AllCalls
      BY <3>1, <3>2, Zenon
    <3> QED BY <3>3, <3>4
  <2>3. NothingStranded' /\ phase # "listener"
    BY SMTT(30), <1>6, <2>1, NobodyIsNoCall DEF WriteOrBuffer, Flush, TypeInv, TypeOK, NothingStranded
  <2> QED
    BY SMTT(30), <1>6, <2>1, <2>2, <2>3 DEF WriteOrBuffer, TypeInv, TypeOK, tableVars
<1>7. ASSUME NEW c \in AllCalls, Drained(c) PROVE TypeInv'
  <2>1. /\ wtask' \in [AllCalls -> {"none", "start", "drain", "done"}]
        /\ lock' \in AllCalls \cup {Nobody}
        /\ \A d \in AllCalls : wtask'[d] = "drain" <=> lock' = d
        /\ \A d \in AllCalls : fut[d] = "none" => wtask'[d] = "none"
    BY ZenonT(60), <1>7, NobodyIsNoCall DEF Drained, TypeInv, TypeOK
  <2>2. buffered' \in Seq(AllCalls) /\ core' \subseteq AllCalls
    <3>1. buffered \in Seq(AllCalls) /\ core \subseteq AllCalls /\ Range(buffered) \subseteq AllCalls
      BY RangeOfSeq DEF TypeInv, TypeOK
    <3>2. /\ buffered' = <<>> \/ buffered' = buffered
          /\ core' = core \/ core' = core \cup Range(buffered)
      BY <1>7 DEF Drained, Flush
    <3>3. buffered' \in Seq(AllCalls)
      BY <3>1, <3>2, EmptySeq, Zenon
    <3>4. core' \subseteq AllCalls
      BY <3>1, <3>2, Zenon
    <3> QED BY <3>3, <3>4
  <2>3. NothingStranded' /\ phase # "listener"
    BY SMTT(30), <1>7, <2>1, NobodyIsNoCall DEF Drained, Flush, TypeInv, TypeOK, NothingStranded
  <2> QED
    BY SMTT(30), <1>7, <2>1, <2>2, <2>3 DEF Drained, TypeInv, TypeOK, tableVars
<1>8. ASSUME NEW c \in AllCalls, DrainRaises(c) PROVE TypeInv'
  <2>1. /\ wtask' \in [AllCalls -> {"none", "start", "drain", "done"}]
        /\ lock' \in AllCalls \cup {Nobody}
        /\ \A d \in AllCalls : wtask'[d] = "drain" <=> lock' = d
        /\ \A d \in AllCalls : fut[d] = "none" => wtask'[d] = "none"
    BY SMTT(30), <1>8, NobodyIsNoCall DEF DrainRaises, TypeInv, TypeOK
  <2> QED
    BY <1>8, <2>1 DEF DrainRaises, TypeInv, TypeOK, NothingStranded, tableVars, socketVars
<1>9. ASSUME NEW c \in AllCalls, NEW kind \in Answers, CoreAnswers(c, kind) PROVE TypeInv'
  BY SMTT(30), <1>9 DEF CoreAnswers, TypeInv, TypeOK, NothingStranded, tableVars, writeVars
<1>10. CASE CoreCloses
  <2>1. inbox' \in Seq(Message)
    BY <1>10, CoreClosesType
  <2> QED
    BY SMTT(30), <1>10, <2>1 DEF CoreCloses, TypeInv, TypeOK, NothingStranded, tableVars, writeVars, Message
<1>11. CASE UserCloses
  BY <1>11 DEF UserCloses, Close, FutAfterClose, TypeInv, TypeOK, NothingStranded, tableVars, writeVars, socketVars
<1>12. CASE CloseEnds
  BY SMTT(30), <1>12 DEF CloseEnds, TypeInv, TypeOK, NothingStranded, tableVars, writeVars, socketVars
<1>13. ASSUME Receives
       PROVE  /\ inbox' \in Seq(Message) /\ Head(inbox) \in Message
              /\ futures' \subseteq futures /\ IsFiniteSet(futures')
              /\ phase # "listener"
  <2>1. futures' \in SUBSET futures
    BY <1>13 DEF Receives
  <2>2. IsFiniteSet(futures')
    BY <2>1, FS_Subset DEF TypeInv
  <2> QED
    BY ZenonT(30), <1>13, <2>1, <2>2, HeadTailProperties DEF Receives, TypeInv, TypeOK, Message
<1>14. ASSUME NEW c \in AllCalls, ReadAnswer(c) PROVE TypeInv'
  <2>1. /\ free' \in Seq(Nat)
        /\ fut' \in [AllCalls -> {"none", "pending", "result", "error", "cancelled"}]
        /\ answer' \in [AllCalls -> AllCalls \cup {Nobody}]
        /\ \A d \in AllCalls : fut'[d] = "none" => fut[d] = "none"
    BY SMTT(30), <1>13, <1>14 DEF ReadAnswer, TypeInv, TypeOK, Message
  <2>2. UNCHANGED <<phase, closed, leaked, index, wtask, buffered, lock, writer, reader, core>> /\ Receives
    BY <1>14 DEF ReadAnswer, writeVars
  <2> QED
    BY SMTT(30), <1>13, <2>1, <2>2 DEF TypeInv, TypeOK, NothingStranded, Message
<1>15. ASSUME NEW c \in AllCalls, ReadRaises(c) PROVE TypeInv'
  <2>1. free' \in Seq(Nat) /\ reader' = "raised"
    BY <1>13, <1>15 DEF ReadRaises, TypeInv, TypeOK, Message
  <2>2. UNCHANGED <<phase, closed, leaked, index, fut, answer, wtask, buffered, lock, writer, core>> /\ Receives
    BY <1>15 DEF ReadRaises, writeVars
  <2> QED
    BY <1>13, <2>1, <2>2, SMTT(30) DEF TypeInv, TypeOK, NothingStranded, Message
<1>16. CASE ReadCloses
  BY SMTT(30), <1>13, <1>16
  DEF ReadCloses, Close, FutAfterClose, TypeInv, TypeOK, NothingStranded, writeVars, Message
<1>17. CASE UNCHANGED vars
  BY SMTT(30), <1>17 DEF vars, TypeInv, TypeOK, NothingStranded, tableVars, writeVars, socketVars
<1> QED
  BY <1>1, <1>2, <1>3, <1>4, <1>5, <1>6, <1>7, <1>8, <1>9, <1>10, <1>11, <1>12, <1>14, <1>15, SMTT(30),
     <1>16, <1>17
  DEF Next, ReaderStep, WriteStep

-----------------------------------------------------------------------------
(* Places *)

LEMMA PlaceInvInit == Init => PlaceInv
BY DEF Init, PlaceInv, Answered, Range

(* A call whose request is new gets an index: no answer of its is on the way. *)
LEMMA PlaceInvNewCall ==
  ASSUME TypeInv, PlaceInv, NEW c \in AllCalls, NEW i \in Nat, wtask[c] = "none",
         wtask' = [wtask EXCEPT ![c] = "start"], index' = [index EXCEPT ![c] = i],
         UNCHANGED <<buffered, core, inbox>>
  PROVE  PlaceInv'
<1>1. \A d \in AllCalls : wtask'[d] \in {"none", "start"} <=> wtask[d] \in {"none", "start"}
  BY SMTT(30) DEF TypeInv, TypeOK
<1>2. ~Answered(c)
  BY DEF PlaceInv
<1>3. ASSUME NEW k \in DOMAIN inbox, inbox[k].from # Nobody
      PROVE  inbox[k].idx = index'[inbox[k].from]
  <2>0. inbox \in Seq(Message)
    BY DEF TypeInv, TypeOK, Message
  <2>2. inbox[k] \in Message /\ inbox[k].from # c
    BY <1>2, <2>0 DEF Answered
  <2>1. inbox[k].from \in AllCalls /\ inbox[k].from # c
    BY <1>3, <2>2 DEF Message
  <2> QED
    BY <1>3, <2>1, SMTT(20) DEF PlaceInv, TypeInv, TypeOK
<1> QED
  BY <1>1, <1>3 DEF PlaceInv, Answered

(* A response leaves the socket. *)
LEMMA PlaceInvReceives ==
  ASSUME TypeInv, PlaceInv, Receives, UNCHANGED <<wtask, index, buffered, core>>
  PROVE  PlaceInv'
<1>1. /\ inbox \in Seq(Message) /\ inbox # <<>> /\ inbox' = Tail(inbox)
  BY DEF Receives, TypeInv, TypeOK, Message
<1>2. \A i \in DOMAIN inbox' : i + 1 \in DOMAIN inbox /\ inbox'[i] = inbox[i + 1] /\ i \in Nat
  BY <1>1
<1>3. \A c \in AllCalls : Answered(c)' => Answered(c)
  BY <1>2 DEF Answered
<1>4. \A i, j \in DOMAIN inbox' :
        inbox'[i].from = inbox'[j].from => i = j \/ inbox'[i].from = Nobody
  BY <1>2 DEF PlaceInv
<1>5. \A i \in DOMAIN inbox' :
        IF inbox'[i].from # Nobody THEN inbox'[i].idx = index[inbox'[i].from]
                                   ELSE inbox'[i].kind \in {"closing", "eof"}
  BY SMTT(30), <1>2 DEF PlaceInv
<1> QED
  BY <1>3, <1>4, <1>5 DEF PlaceInv

LEMMA PlaceInvCoreAnswers ==
  ASSUME TypeInv, PlaceInv, NEW c \in AllCalls, NEW kind \in Answers, CoreAnswers(c, kind)
  PROVE  PlaceInv'
<1> DEFINE m == [idx |-> index[c], from |-> c, kind |-> kind]
<1>1. /\ inbox \in Seq(Message) /\ m \in Message /\ inbox' = Append(inbox, m)
  BY DEF CoreAnswers, TypeInv, TypeOK, Message
<1>2. /\ Len(inbox) \in Nat /\ DOMAIN inbox = 1..Len(inbox) /\ DOMAIN inbox' = 1..(Len(inbox) + 1)
      /\ \A i \in DOMAIN inbox : inbox'[i] = inbox[i]
      /\ inbox'[Len(inbox) + 1] = m
  BY SMTT(30), <1>1
<1>3. \A d \in AllCalls : Answered(d)' => Answered(d) \/ d = c
  BY <1>2 DEF Answered
<1>4. /\ c \in core /\ core' = core \ {c} /\ wtask' = wtask /\ buffered' = buffered /\ index' = index
  BY DEF CoreAnswers, writeVars, tableVars
<1>5. ~Answered(c) /\ wtask[c] \notin {"none", "start"} /\ c \notin Range(buffered)
  BY SMTT(30), <1>4 DEF PlaceInv
<1>6. \A i, j \in DOMAIN inbox' :
        inbox'[i].from = inbox'[j].from => i = j \/ inbox'[i].from = Nobody
  BY SMTT(30), <1>2, <1>5 DEF PlaceInv, Answered
<1>7. \A i \in DOMAIN inbox' :
        IF inbox'[i].from # Nobody THEN inbox'[i].idx = index[inbox'[i].from]
                                   ELSE inbox'[i].kind \in {"closing", "eof"}
  BY SMTT(30), <1>2, NobodyIsNoCall DEF PlaceInv
<1> QED
  BY SMTT(30), <1>3, <1>4, <1>5, <1>6, <1>7 DEF PlaceInv

LEMMA PlaceInvCoreCloses ==
  ASSUME TypeInv, PlaceInv, CoreCloses
  PROVE  PlaceInv'
<1>2. /\ \A i \in DOMAIN inbox : inbox'[i] = inbox[i] /\ i \in DOMAIN inbox'
      /\ \A i \in DOMAIN inbox' :
           i \in DOMAIN inbox \/ (inbox'[i].from = Nobody /\ inbox'[i].kind \in {"closing", "eof"})
  BY CoreClosesAppends
<1>3. \A c \in AllCalls : Answered(c)' => Answered(c)
  BY <1>2, NobodyIsNoCall DEF Answered
<1>4. core' = {} /\ wtask' = wtask /\ buffered' = buffered /\ index' = index
  BY DEF CoreCloses, writeVars, tableVars
<1> QED
  BY <1>2, <1>3, <1>4 DEF PlaceInv

(* The writer takes the buffer, or a request joins it. *)
LEMMA PlaceInvWrites ==
  ASSUME TypeInv, PlaceInv, NEW c \in AllCalls, WriteOrBuffer(c) \/ Drained(c)
  PROVE  PlaceInv'
<1>1. buffered \in Seq(AllCalls) /\ wtask \in [AllCalls -> {"none", "start", "drain", "done"}]
  BY DEF TypeInv, TypeOK
<1>2. inbox' = inbox /\ index' = index
  BY DEF WriteOrBuffer, Drained, tableVars
<1>3. \A d \in AllCalls : Answered(d)' <=> Answered(d)
  BY <1>2 DEF Answered
<1>4. Range(<<>>) = {}
  BY SMTT(30) DEF Range
<1>5. CASE WriteOrBuffer(c)
  <2>1. Range(Append(buffered, c)) = Range(buffered) \cup {c}
    BY <1>1, RangeOfAppend
  <2>2. /\ wtask[c] = "start"
        /\ wtask' = [wtask EXCEPT ![c] = "drain"] \/ wtask' = [wtask EXCEPT ![c] = "done"]
        /\ \/ buffered' = <<>> /\ (core' = core \/ core' = core \cup Range(Append(buffered, c)))
           \/ buffered' = Append(buffered, c) /\ core' = core
    BY SMTT(30), <1>5 DEF WriteOrBuffer, Flush
  <2>3. /\ \A d \in AllCalls : wtask'[d] \in {"none", "start"} => wtask[d] \in {"none", "start"} /\ d # c
        /\ c \notin Range(buffered) /\ c \notin core /\ ~Answered(c)
    BY <1>1, <2>2 DEF PlaceInv
  <2>4. \/ Range(buffered') = {} /\ (core' = core \/ core' = core \cup Range(buffered) \cup {c})
        \/ Range(buffered') = Range(buffered) \cup {c} /\ core' = core
    BY <1>4, <2>1, <2>2, Zenon
  <2> QED
    BY <1>2, <1>3, <2>3, <2>4 DEF PlaceInv
<1>6. CASE Drained(c)
  <2>1. /\ wtask[c] = "drain"
        /\ wtask' = wtask \/ wtask' = [wtask EXCEPT ![c] = "done"]
        /\ \/ buffered' = <<>> /\ (core' = core \/ core' = core \cup Range(buffered))
           \/ buffered' = buffered /\ core' = core
    BY <1>6 DEF Drained, Flush
  <2>2. \A d \in AllCalls : wtask'[d] \in {"none", "start"} => wtask[d] \in {"none", "start"}
    BY <1>1, <2>1
  <2>3. \/ Range(buffered') = {} /\ (core' = core \/ core' = core \cup Range(buffered))
        \/ Range(buffered') = Range(buffered) /\ core' = core
    BY <1>4, <2>1, Zenon
  <2> QED
    BY <1>2, <1>3, <2>2, <2>3 DEF PlaceInv
<1> QED BY <1>5, <1>6

LEMMA PlaceInvStep ==
  ASSUME TypeInv, PlaceInv, [Next]_vars
  PROVE  PlaceInv'
<1> USE ConstantsAssumption
<1>1. CASE CreateConnects
  <2>1. /\ Config \in AllCalls /\ 0 \in Nat /\ wtask[Config] = "none"
        /\ wtask' = [wtask EXCEPT ![Config] = "start"] /\ index' = [index EXCEPT ![Config] = 0]
        /\ UNCHANGED <<buffered, core, inbox>>
    BY <1>1 DEF CreateConnects, GetFuture, TypeInv, AllCalls, socketVars
  <2> QED BY ZenonT(30), <2>1, PlaceInvNewCall
<1>2. ASSUME NEW c \in Calls, Execute(c) PROVE PlaceInv'
  <2>1. c \in AllCalls /\ wtask[c] = "none" /\ UNCHANGED <<buffered, core, inbox>>
    BY <1>2 DEF Execute, TypeInv, AllCalls, socketVars
  <2>2. \/ UNCHANGED <<wtask, index>>
        \/ wtask' = [wtask EXCEPT ![c] = "start"] /\ index' = [index EXCEPT ![c] = CallbackIndex]
    BY SMTT(30), <1>2 DEF Execute, GetFuture, tableVars
  <2>3. CASE UNCHANGED <<wtask, index>>
    BY <2>1, <2>3 DEF PlaceInv, Answered
  <2>4. CASE ~UNCHANGED <<wtask, index>>
    BY SMTT(30), <2>1, <2>2, <2>4, CallbackIndexType, PlaceInvNewCall
  <2> QED BY <2>3, <2>4
<1>3. CASE UNCHANGED <<wtask, index, buffered, core, inbox>>
  BY <1>3 DEF PlaceInv, Answered
<1>4. CASE UNCHANGED <<index, buffered, core, inbox>> /\ \E c \in AllCalls : DrainRaises(c)
  <2>1. \A d \in AllCalls : wtask'[d] \in {"none", "start"} => wtask[d] \in {"none", "start"}
    BY <1>4 DEF DrainRaises, TypeInv, TypeOK
  <2> QED
    BY <1>4, <2>1 DEF PlaceInv, Answered
<1>5. ASSUME NEW c \in Calls, ExecuteRaises(c) \/ Cancel(c)
      PROVE  UNCHANGED <<wtask, index, buffered, core, inbox>>
  BY <1>5 DEF ExecuteRaises, Cancel, socketVars, writeVars, tableVars
<1>6. CASE ListenerFails \/ CreateConnectFails \/ CreateEnds \/ UserCloses \/ CloseEnds
  <2>1. UNCHANGED <<wtask, index, buffered, core, inbox>>
    BY <1>6 DEF ListenerFails, CreateConnectFails, CreateEnds, UserCloses, CloseEnds,
       socketVars, writeVars, tableVars
  <2> QED BY <1>3, <2>1
<1>7. ASSUME NEW c \in AllCalls, DrainRaises(c) PROVE PlaceInv'
  BY ZenonT(30), <1>4, <1>7 DEF DrainRaises, tableVars, socketVars
<1>8. CASE ReadCloses \/ \E c \in AllCalls : ReadAnswer(c) \/ ReadRaises(c)
  <2>1. Receives /\ UNCHANGED <<wtask, index, buffered, core>>
    BY ZenonT(30), <1>8 DEF ReadCloses, ReadAnswer, ReadRaises, writeVars
  <2> QED BY <2>1, PlaceInvReceives
<1>9. CASE UNCHANGED vars
  BY <1>3, <1>9 DEF vars, tableVars, writeVars, socketVars
<1> QED
  BY SMTT(30), <1>1, <1>2, <1>3, <1>5, <1>6, <1>7, <1>8, <1>9,
     PlaceInvWrites, PlaceInvCoreAnswers, PlaceInvCoreCloses
  DEF Next, ReaderStep, WriteStep

-----------------------------------------------------------------------------
(* The table *)

LEMMA TableInvInit == Init => TableInv
<1> SUFFICES ASSUME Init PROVE TableInv
  OBVIOUS
<1>1. Cardinality(futures) = 0 /\ Len(free) = 0 /\ Range(free) = {} /\ Keys = {} /\ DOMAIN free = {}
  BY FS_EmptySet DEF Init, Range, Keys
<1>2. UniqueKeys /\ Partition
  <2>1. futures = {} /\ 0..(0 + 0 - 1) = {}
    BY DEF Init
  <2>2. UniqueKeys
    BY <2>1 DEF UniqueKeys
  <2> QED BY <1>1, <2>1, <2>2 DEF Partition
<1>3. FlightsInTable /\ WaitersInTable
  BY DEF Init, FlightsInTable, WaitersInTable, InFlight, Answered, Range
<1>4. AnswersReachCaller
  BY DEF Init, AnswersReachCaller
<1> QED BY SMTT(30), <1>2, <1>3, <1>4 DEF TableInv

(* The index a call is given is no key of the table, whether it is one that was
   given back or len(_available_futures). *)
LEMMA CallbackIndexFresh ==
  ASSUME TypeInv, Partition
  PROVE  CallbackIndex \notin Keys
<1>1. /\ free \in Seq(Nat) /\ Cardinality(futures) \in Nat /\ Keys \subseteq Nat
  BY FS_CardinalityType DEF TypeInv, TypeOK, Keys
<1>2. CASE free = <<>>
  <2>1. CallbackIndex = Cardinality(futures) /\ Len(free) = 0
    BY <1>2 DEF CallbackIndex
  <2>2. CallbackIndex \notin 0..(Cardinality(futures) + Len(free) - 1)
    BY <1>1, <2>1
  <2> QED BY <2>2 DEF Partition
<1>3. CASE free # <<>>
  <2>1. CallbackIndex = free[Len(free)] /\ Len(free) \in DOMAIN free
    BY <1>1, <1>3 DEF CallbackIndex
  <2>2. CallbackIndex \in Range(free)
    BY <2>1 DEF Range
  <2> QED BY <2>2 DEF Partition
<1> QED BY <1>2, <1>3

LEMMA WithoutLast ==
  ASSUME NEW S, NEW s \in Seq(S), Len(s) > 0
  PROVE  /\ Len(SubSeq(s, 1, Len(s) - 1)) = Len(s) - 1
         /\ DOMAIN SubSeq(s, 1, Len(s) - 1) = 1..(Len(s) - 1) /\ DOMAIN s = 1..Len(s)
         /\ \A k \in 1..(Len(s) - 1) : SubSeq(s, 1, Len(s) - 1)[k] = s[k]
<1> DEFINE n == Len(s) - 1
<1>1. n \in Nat /\ 1 \in Int /\ n \in Int /\ DOMAIN s = 1..(n + 1) /\ \A k \in 1..n : s[k] \in S
  OBVIOUS
<1> HIDE DEF n
<1>2. /\ SubSeq(s, 1, n) \in Seq(S)
      /\ Len(SubSeq(s, 1, n)) = IF 1 <= n THEN n - 1 + 1 ELSE 0
      /\ \A k \in 1..(n - 1 + 1) : SubSeq(s, 1, n)[k] = s[1 + k - 1]
  BY <1>1, SubSeqProperties
<1>3. Len(SubSeq(s, 1, n)) = n /\ DOMAIN SubSeq(s, 1, n) = 1..n
  BY <1>1, <1>2
<1>4. \A k \in 1..n : SubSeq(s, 1, n)[k] = s[k]
  BY <1>1, <1>2
<1>5. DOMAIN s = 1..Len(s)
  OBVIOUS
<1> QED BY <1>3, <1>4, <1>5 DEF n

(* What _get_callback_index and _get_future do to the table. *)
LEMMA PartitionTake ==
  ASSUME TypeInv, Partition, NEW c \in AllCalls, GetFuture(CallbackIndex, c), free' = FreeAfterPop
  PROVE  futures' = futures \cup {<<CallbackIndex, c>>} /\ Partition'
<1> DEFINE i == CallbackIndex
<1>1. /\ i \in Nat /\ i \notin Keys /\ free \in Seq(Nat) /\ IsFiniteSet(futures)
      /\ futures \subseteq Nat \X AllCalls
  <2>1. i \in Nat /\ i \notin Keys
    BY CallbackIndexFresh, CallbackIndexType
  <2> QED BY <2>1 DEF TypeInv, TypeOK
<1> HIDE DEF i
<1>2. futures' = {p \in futures : p[1] # i} \cup {<<i, c>>}
  BY DEF GetFuture, i
<1>3. futures' = futures \cup {<<i, c>>} /\ <<i, c>> \notin futures
  BY <1>1, <1>2 DEF Keys
<1>4. Cardinality(futures') = Cardinality(futures) + 1 /\ Cardinality(futures) \in Nat
  BY ZenonT(30), <1>1, <1>3, FS_AddElement, FS_CardinalityType
<1>5. Keys' = Keys \cup {i}
  BY <1>3 DEF Keys
<1>6. UniqueKeys'
  BY <1>1, <1>3 DEF Partition, UniqueKeys, Keys
<1>7. CASE free = <<>>
  <2>1. free' = <<>> /\ i = Cardinality(futures) /\ Len(free) = 0
    BY <1>7 DEF FreeAfterPop, i, CallbackIndex
  <2>2. Range(free') = {} /\ Range(free) = {} /\ Len(free') = 0
    BY <1>7, <2>1 DEF Range
  <2>3. Keys = 0..(Cardinality(futures) - 1)
    BY <1>4, <2>1, <2>2 DEF Partition
  <2>4. Keys' = 0..(Cardinality(futures') - 1)
    BY SMTT(30), <1>4, <1>5, <2>1, <2>3
  <2> QED BY SMTT(30), <1>3, <1>4, <1>6, <2>1, <2>2, <2>4 DEF Partition, i
<1>8. CASE free # <<>>
  <2>1. /\ Len(free) \in Nat /\ Len(free) > 0 /\ i = free[Len(free)]
        /\ free' = SubSeq(free, 1, Len(free) - 1)
    BY <1>1, <1>8 DEF FreeAfterPop, i, CallbackIndex
  <2>2. /\ Len(free') = Len(free) - 1 /\ DOMAIN free' = 1..(Len(free) - 1) /\ DOMAIN free = 1..Len(free)
        /\ \A k \in DOMAIN free' : free'[k] = free[k]
    BY <1>1, <2>1, WithoutLast
  <2>3. \A k, l \in DOMAIN free : free[k] = free[l] => k = l
    BY DEF Partition
  <2>4. Range(free') = Range(free) \ {i} /\ i \in Range(free)
    <3>1. i \in Range(free)
      BY <2>1, <2>2 DEF Range
    <3>2. \A x \in Range(free') : x \in Range(free) /\ x # i
      BY <2>1, <2>2, <2>3 DEF Range
    <3>3. \A x \in Range(free) : x # i => x \in Range(free')
      <4> SUFFICES ASSUME NEW k \in DOMAIN free, free[k] # i PROVE free[k] \in Range(free')
        BY DEF Range
      <4>1. k \in DOMAIN free'
        BY <2>1, <2>2
      <4> QED BY <4>1, <2>2 DEF Range
    <3> QED BY <3>1, <3>2, <3>3
  <2>5. Cardinality(futures') + Len(free') - 1 = Cardinality(futures) + Len(free) - 1
    BY <1>4, <2>1, <2>2
  <2>6. \A k, l \in DOMAIN free' : free'[k] = free'[l] => k = l
    BY <2>1, <2>2, <2>3
  <2>7. Keys \cap Range(free) = {} /\ Keys \cup Range(free) = 0..(Cardinality(futures) + Len(free) - 1)
    BY DEF Partition
  <2>8. Keys' \cap Range(free') = {} /\ Keys' \cup Range(free') = Keys \cup Range(free)
    BY <1>5, <2>4, <2>7
  <2> QED BY SMTT(30), <1>3, <1>6, <2>5, <2>6, <2>7, <2>8 DEF Partition, i
<1> QED BY <1>7, <1>8

(* A response takes one future out of the table. *)
LEMMA PoppedOne ==
  ASSUME TypeInv, UniqueKeys, Receives, NEW c \in AllCalls, <<Head(inbox).idx, c>> \in futures
  PROVE  futures' = futures \ {<<Head(inbox).idx, c>>} /\ Head(inbox) \in Message
<1>1. \A p \in futures : p[1] = Head(inbox).idx <=> p = <<Head(inbox).idx, c>>
  BY DEF UniqueKeys
<1>2. inbox \in Seq(Message) /\ inbox # <<>>
  BY DEF TypeInv, TypeOK, Receives, Message
<1> QED
  BY <1>1, <1>2, HeadTailProperties DEF Receives, Popped

(* Its index is given back. *)
LEMMA PartitionGiveBack ==
  ASSUME TypeInv, Partition, Receives, NEW c \in AllCalls, <<Head(inbox).idx, c>> \in futures,
         free' = Append(free, Head(inbox).idx)
  PROVE  Partition'
<1> DEFINE i == Head(inbox).idx
<1>1. /\ free \in Seq(Nat) /\ IsFiniteSet(futures) /\ futures \subseteq Nat \X AllCalls
      /\ UniqueKeys /\ <<i, c>> \in futures /\ free' = Append(free, i)
  BY DEF TypeInv, TypeOK, Partition
<1>2. futures' = futures \ {<<i, c>>}
  BY <1>1, PoppedOne
<1> HIDE DEF i
<1>3. i \in Nat /\ i \in Keys
  BY <1>1 DEF Keys
<1>4. /\ Cardinality(futures') = Cardinality(futures) - 1 /\ Cardinality(futures) \in Nat
  BY ZenonT(30), <1>1, <1>2, FS_RemoveElement, FS_CardinalityType
<1>5. UniqueKeys'
  BY <1>1, <1>2 DEF UniqueKeys
<1>6. Keys' = Keys \ {i}
  <2>1. \A p \in futures : p[1] = i <=> p = <<i, c>>
    BY <1>1 DEF UniqueKeys
  <2> QED BY <1>2, <2>1 DEF Keys
<1>7. /\ Len(free') = Len(free) + 1 /\ Len(free) \in Nat
      /\ DOMAIN free' = 1..(Len(free) + 1) /\ DOMAIN free = 1..Len(free)
      /\ free'[Len(free) + 1] = i /\ \A k \in DOMAIN free : free'[k] = free[k]
  BY SMTT(30), <1>1, <1>3
<1>8. Range(free') = Range(free) \cup {i}
  <2>0. free \in Seq(Nat) /\ i \in Nat
    BY <1>1, <1>3
  <2>1. Range(Append(free, i)) = Range(free) \cup {i}
    BY <2>0, RangeOfAppend
  <2> QED BY <1>1, <2>1, Zenon
<1>9. /\ \A k, l \in DOMAIN free : free[k] = free[l] => k = l
      /\ Keys \cap Range(free) = {}
      /\ Keys \cup Range(free) = 0..(Cardinality(futures) + Len(free) - 1)
  BY DEF Partition
<1>10. \A k \in DOMAIN free : free[k] # i
  BY SMTT(30), <1>3, <1>9 DEF Range
<1>11. \A k, l \in DOMAIN free' : free'[k] = free'[l] => k = l
  BY <1>7, <1>9, <1>10
<1>12. Keys' \cap Range(free') = {} /\ Keys' \cup Range(free') = Keys \cup Range(free)
  BY SMTT(30), <1>3, <1>6, <1>8, <1>9
<1>13. Cardinality(futures') + Len(free') - 1 = Cardinality(futures) + Len(free) - 1
  BY <1>4, <1>7
<1> QED
  BY SMTT(30), <1>5, <1>9, <1>11, <1>12, <1>13 DEF Partition

(* A step that leaves the table alone, and begins no call. *)
LEMMA TableInvSameTable ==
  ASSUME TypeInv, TableInv, UNCHANGED <<futures, free, leaked, index, answer>>,
         closed' = closed \/ closed' = TRUE, reader' = reader \/ reader' = "ended",
         \A c \in AllCalls : InFlight(c)' => InFlight(c),
         \A c \in AllCalls : fut'[c] = "pending" => fut[c] = "pending"
  PROVE  TableInv'
<1>1. (UniqueKeys' <=> UniqueKeys) /\ (Partition' <=> Partition)
  BY DEF UniqueKeys, Partition, Keys
<1>2. (FlightsInTable => FlightsInTable') /\ (WaitersInTable => WaitersInTable')
  BY DEF FlightsInTable, WaitersInTable
<1>3. AnswersReachCaller' <=> AnswersReachCaller
  BY DEF AnswersReachCaller
<1>4. /\ leaked = TRUE \/ UniqueKeys
      /\ leaked = TRUE \/ closed = TRUE \/ Partition
      /\ leaked = TRUE \/ reader = "ended" \/ reader = "raised" \/ (FlightsInTable /\ WaitersInTable)
      /\ AnswersReachCaller
  BY DEF TableInv
<1>5. /\ leaked' = TRUE \/ UniqueKeys'
      /\ leaked' = TRUE \/ closed' = TRUE \/ Partition'
      /\ leaked' = TRUE \/ reader' = "ended" \/ reader' = "raised" \/ (FlightsInTable' /\ WaitersInTable')
      /\ AnswersReachCaller'
  BY <1>1, <1>2, <1>3, <1>4, Zenon
<1> QED BY SMTT(30), <1>5 DEF TableInv

(* A call begins: what was in flight stays in the table, and the call joins it. *)
LEMMA TableInvExecute ==
  ASSUME TypeInv, PlaceInv, TableInv, NEW c \in AllCalls, fut[c] = "none", ~closed,
         GetFuture(CallbackIndex, c), free' = FreeAfterPop,
         wtask' = [wtask EXCEPT ![c] = "start"],
         UNCHANGED <<leaked, closed, reader, answer, buffered, core, inbox>>
  PROVE  TableInv'
<1>1. AnswersReachCaller'
  BY DEF TableInv, AnswersReachCaller
<1>2. CASE leaked = TRUE
  BY SMTT(30), <1>1, <1>2 DEF TableInv
<1>3. CASE leaked # TRUE
  <2>1. Partition
    BY <1>3, Zenon DEF TableInv
  <2>2. futures' = futures \cup {<<CallbackIndex, c>>} /\ Partition'
    BY <2>1, PartitionTake
  <2>3. ASSUME FlightsInTable, WaitersInTable PROVE FlightsInTable' /\ WaitersInTable'
    <3>1. /\ index' = [index EXCEPT ![c] = CallbackIndex] /\ fut' = [fut EXCEPT ![c] = "pending"]
          /\ index \in [AllCalls -> Nat] /\ DOMAIN fut = AllCalls /\ DOMAIN wtask = AllCalls
      BY SMTT(30) DEF GetFuture, TypeInv, TypeOK
    <3>2. \A d \in AllCalls : d # c => (InFlight(d)' => InFlight(d)) /\ fut'[d] = fut[d] /\ index'[d] = index[d]
      BY <3>1 DEF InFlight, Answered
    <3> QED
      BY SMTT(30), <2>2, <2>3, <3>1, <3>2 DEF FlightsInTable, WaitersInTable
  <2>4. UniqueKeys'
    BY <2>2 DEF Partition
  <2>5. \/ reader' = "ended" \/ reader' = "raised"
        \/ FlightsInTable' /\ WaitersInTable'
    BY ZenonT(30), <1>3, <2>3 DEF TableInv
  <2> QED
    BY <1>1, <2>2, <2>4, <2>5 DEF TableInv
<1> QED BY ZenonT(30), <1>2, <1>3

(* The first call: the table is empty, and nothing is in flight. *)
LEMMA TableInvCreateConnects ==
  ASSUME TypeInv, TableInv, CreateConnects
  PROVE  TableInv'
<1>1. /\ futures = {} /\ free = <<>> /\ buffered = <<>> /\ reader = "none"
      /\ \A d \in AllCalls : fut[d] = "none" /\ wtask[d] = "none"
  BY DEF TypeInv, CreateConnects
<1>2. /\ futures' = {<<0, Config>>} /\ free' = <<>> /\ leaked' = leaked /\ answer' = answer
      /\ index' = [index EXCEPT ![Config] = 0] /\ fut' = [fut EXCEPT ![Config] = "pending"]
      /\ wtask' = [wtask EXCEPT ![Config] = "start"] /\ closed' = closed
      /\ UNCHANGED <<buffered, core, inbox>>
  BY <1>1 DEF CreateConnects, GetFuture, socketVars
<1>3. UniqueKeys'
  BY <1>2 DEF UniqueKeys
<1>4. Partition'
  <2>1. Keys' = {0} /\ Range(free') = {} /\ DOMAIN free' = {} /\ Len(free') = 0
    BY <1>2 DEF Keys, Range
  <2>2. Cardinality(futures') = 1
    BY <1>2, FS_Singleton, Zenon
  <2>3. 0..(1 + 0 - 1) = {0}
    OBVIOUS
  <2> QED BY SMTT(30), <1>3, <2>1, <2>2, <2>3 DEF Partition
<1>5. AnswersReachCaller'
  BY <1>2 DEF TableInv, AnswersReachCaller
<1>6. leaked = TRUE \/ (FlightsInTable' /\ WaitersInTable')
  <2> SUFFICES ASSUME leaked # TRUE PROVE FlightsInTable' /\ WaitersInTable'
    BY ZenonT(30)
  <2>1. FlightsInTable
    BY ZenonT(30), <1>1 DEF TableInv
  <2>2. \A d \in AllCalls : ~InFlight(d)
    BY SMTT(30), <1>1, <2>1 DEF FlightsInTable
  <2>3. \A d \in AllCalls : d # Config => ~InFlight(d)' /\ fut'[d] # "pending"
    BY SMTT(30), <1>1, <1>2, <2>2 DEF InFlight, Answered, TypeInv, TypeOK
  <2>4. index'[Config] = 0 /\ <<0, Config>> \in futures'
    BY SMTT(30), <1>2 DEF TypeInv, TypeOK, AllCalls
  <2> QED BY <2>3, <2>4 DEF FlightsInTable, WaitersInTable
<1> QED BY SMTT(30), <1>2, <1>3, <1>4, <1>5, <1>6 DEF TableInv

(* The response at the head of the socket is the caller's, and the call is in no
   other place. *)
LEMMA AnswerIsCallers ==
  ASSUME TypeInv, PlaceInv, UniqueKeys, FlightsInTable, NEW c \in AllCalls, ReadAnswer(c)
  PROVE  /\ Head(inbox).from = c /\ ~InFlight(c)'
         /\ \A d \in AllCalls : InFlight(d)' => InFlight(d)
<1>1. /\ inbox \in Seq(Message) /\ inbox # <<>> /\ inbox' = Tail(inbox)
      /\ Head(inbox).kind \in {"value", "error"} /\ <<Head(inbox).idx, c>> \in futures
      /\ UNCHANGED <<wtask, buffered, core>>
  BY DEF ReadAnswer, Receives, writeVars, TypeInv, TypeOK, Message
<1>2. /\ 1 \in DOMAIN inbox /\ Head(inbox) = inbox[1] /\ inbox[1] \in Message
      /\ \A k \in DOMAIN inbox' : k \in Nat \ {0} /\ k + 1 \in DOMAIN inbox /\ inbox'[k] = inbox[k + 1]
  BY SMTT(30), <1>1
<1>3. inbox[1].from # Nobody /\ inbox[1].idx = index[inbox[1].from]
  BY SMTT(30), <1>1, <1>2 DEF PlaceInv
<1>4. inbox[1].from \in AllCalls
  BY SMTT(30), <1>2, <1>3 DEF Message
<1>5. Answered(inbox[1].from)
  BY <1>2 DEF Answered
<1>6. <<index[inbox[1].from], inbox[1].from>> \in futures
  BY SMTT(30), <1>4, <1>5 DEF FlightsInTable, InFlight
<1>7. inbox[1].from = c
  BY SMTT(30), <1>1, <1>2, <1>3, <1>6 DEF UniqueKeys
<1>8. wtask[c] # "start" /\ c \notin Range(buffered) /\ c \notin core
  BY <1>5, <1>7 DEF PlaceInv
<1>9. ~Answered(c)'
  <2> SUFFICES ASSUME NEW k \in DOMAIN inbox', inbox'[k].from = c PROVE FALSE
    BY DEF Answered
  <2>1. k \in Nat \ {0} /\ k + 1 \in DOMAIN inbox /\ inbox[k + 1].from = inbox[1].from
    BY SMTT(30), <1>2, <1>7
  <2>2. k + 1 = 1
    BY SMTT(30), <1>2, <1>3, <2>1 DEF PlaceInv
  <2> QED BY <2>1, <2>2
<1>10. \A d \in AllCalls : Answered(d)' => Answered(d)
  BY <1>2 DEF Answered
<1> QED
  BY SMTT(30), <1>1, <1>2, <1>7, <1>8, <1>9, <1>10 DEF InFlight

LEMMA TableInvReadAnswer ==
  ASSUME TypeInv, PlaceInv, TableInv, NEW c \in AllCalls, ReadAnswer(c)
  PROVE  TableInv'
<1>1. /\ Receives /\ reader = "running" /\ <<Head(inbox).idx, c>> \in futures
      /\ free' = Append(free, Head(inbox).idx) /\ leaked' = leaked /\ closed' = closed /\ reader' = reader
      /\ index' = index /\ answer' = [answer EXCEPT ![c] = Head(inbox).from]
      /\ fut'[c] # "pending" /\ \A d \in AllCalls : d # c => fut'[d] = fut[d]
  BY DEF ReadAnswer, Receives, TypeInv, TypeOK
<1>2. CASE leaked = TRUE
  BY <1>1, <1>2 DEF TableInv, AnswersReachCaller
<1>3. CASE leaked # TRUE
  <2>1. UniqueKeys /\ FlightsInTable /\ WaitersInTable
    BY ZenonT(30), <1>1, <1>3 DEF TableInv
  <2>2. futures' = futures \ {<<Head(inbox).idx, c>>}
    BY <1>1, <2>1, PoppedOne
  <2>3. UniqueKeys'
    BY SMTT(30), <2>1, <2>2 DEF UniqueKeys
  <2>4. closed' = TRUE \/ Partition'
    <3>1. closed = TRUE \/ Partition
      BY ZenonT(30), <1>3 DEF TableInv
    <3> QED BY <1>1, <3>1, PartitionGiveBack
  <2>5. /\ Head(inbox).from = c /\ ~InFlight(c)'
        /\ \A d \in AllCalls : InFlight(d)' => InFlight(d)
    BY SMTT(30), <2>1, AnswerIsCallers
  <2>6. FlightsInTable' /\ WaitersInTable'
    <3>1. \A d \in AllCalls : d # c /\ <<index[d], d>> \in futures => <<index'[d], d>> \in futures'
      BY <1>1, <2>2
    <3>2. FlightsInTable'
      BY ZenonT(30), <2>1, <2>5, <3>1 DEF FlightsInTable
    <3>3. WaitersInTable'
      BY <1>1, <2>1, <3>1 DEF WaitersInTable
    <3> QED BY SMTT(30), <3>2, <3>3
  <2>7. AnswersReachCaller'
    <3>1. \A d \in AllCalls : answer[d] \in {d, Nobody}
      BY ZenonT(30), <1>3 DEF TableInv, AnswersReachCaller, TypeInv, TypeOK
    <3>2. \A d \in AllCalls : answer'[d] \in {d, Nobody}
      BY <1>1, <2>5, <3>1 DEF TypeInv, TypeOK
    <3> QED BY <3>2 DEF AnswersReachCaller
  <2> QED BY <2>3, <2>4, <2>6, <2>7 DEF TableInv
<1> QED BY ZenonT(30), <1>2, <1>3

LEMMA TableInvReadRaises ==
  ASSUME TypeInv, TableInv, NEW c \in AllCalls, ReadRaises(c)
  PROVE  TableInv'
<1>1. /\ Receives /\ <<Head(inbox).idx, c>> \in futures
      /\ free' = Append(free, Head(inbox).idx) /\ leaked' = leaked /\ closed' = closed
      /\ reader' = "raised" /\ answer' = answer
  BY DEF ReadRaises
<1>2. AnswersReachCaller'
  BY <1>1 DEF TableInv, AnswersReachCaller
<1>3. leaked' = TRUE \/ UniqueKeys'
  BY <1>1 DEF TableInv, UniqueKeys, Receives
<1>4. leaked' = TRUE \/ closed' = TRUE \/ Partition'
  <2>1. leaked = TRUE \/ closed = TRUE \/ Partition
    BY DEF TableInv
  <2> QED BY <1>1, <2>1, PartitionGiveBack
<1> QED BY <1>1, <1>2, <1>3, <1>4 DEF TableInv

LEMMA TableInvReadCloses ==
  ASSUME TypeInv, TableInv, ReadCloses
  PROVE  TableInv'
<1>1. Receives /\ closed' = TRUE /\ leaked' = leaked /\ answer' = answer /\ reader' = "ended"
  BY DEF ReadCloses, Close
<1>2. AnswersReachCaller'
  BY <1>1 DEF TableInv, AnswersReachCaller
<1>3. leaked' = TRUE \/ UniqueKeys'
  BY SMTT(30), <1>1 DEF TableInv, UniqueKeys, Receives
<1> QED BY <1>1, <1>2, <1>3 DEF TableInv

(* A request that is written, buffered or answered was in flight before. *)
LEMMA WritesKeepFlights ==
  ASSUME TypeInv, NEW c \in AllCalls, WriteStep(c)
  PROVE  \A d \in AllCalls : InFlight(d)' => InFlight(d)
<1>1. /\ buffered \in Seq(AllCalls) /\ wtask \in [AllCalls -> {"none", "start", "drain", "done"}]
  BY DEF TypeInv, TypeOK
<1>2. inbox' = inbox
  BY DEF WriteStep, WriteOrBuffer, Drained, DrainRaises, socketVars
<1>3. \A d \in AllCalls : Answered(d)' <=> Answered(d)
  BY <1>2 DEF Answered
<1>4. Range(<<>>) = {} /\ Range(Append(buffered, c)) = Range(buffered) \cup {c}
  <2>1. Range(<<>>) = {}
    BY DEF Range
  <2>2. Range(Append(buffered, c)) = Range(buffered) \cup {c}
    BY SMTT(30), <1>1, RangeOfAppend
  <2> QED BY <2>1, <2>2
<1>5. /\ \/ wtask' = wtask \/ wtask' = [wtask EXCEPT ![c] = "drain"]
         \/ wtask' = [wtask EXCEPT ![c] = "done"]
      /\ \/ wtask[c] = "start" /\ buffered' = Append(buffered, c) /\ core' = core
         \/ wtask[c] = "start" /\ buffered' = <<>> /\ core' = core \cup Range(Append(buffered, c))
         \/ buffered' = <<>> /\ (core' = core \/ core' = core \cup Range(buffered))
         \/ buffered' = buffered /\ core' = core
  BY DEF WriteStep, WriteOrBuffer, Drained, DrainRaises, Flush, socketVars
<1>6. \A d \in AllCalls : wtask'[d] = "start" => wtask[d] = "start"
  BY <1>1, <1>5
<1>7. \/ wtask[c] = "start" /\ Range(buffered') = Range(buffered) \cup {c} /\ core' = core
      \/ wtask[c] = "start" /\ Range(buffered') = {} /\ core' = core \cup (Range(buffered) \cup {c})
      \/ Range(buffered') = {} /\ (core' = core \/ core' = core \cup Range(buffered))
      \/ Range(buffered') = Range(buffered) /\ core' = core
  BY <1>4, <1>5, Zenon
<1> QED
  BY SMTT(30), <1>3, <1>6, <1>7 DEF InFlight

LEMMA CoreKeepsFlights ==
  ASSUME TypeInv, \/ CoreCloses
                  \/ \E c \in AllCalls : \E kind \in Answers : CoreAnswers(c, kind)
  PROVE  \A d \in AllCalls : InFlight(d)' => InFlight(d)
<1>1. UNCHANGED <<wtask, buffered>>
  <2>1. CoreCloses => UNCHANGED <<wtask, buffered>>
    BY Zenon DEF CoreCloses, writeVars
  <2>2. ASSUME NEW c, NEW kind, CoreAnswers(c, kind) PROVE UNCHANGED <<wtask, buffered>>
    BY <2>2, Zenon DEF CoreAnswers, writeVars
  <2> QED BY <2>1, <2>2, Zenon
<1>2. inbox \in Seq(Message)
  BY DEF TypeInv, TypeOK, Message
<1>3. ASSUME NEW c \in AllCalls, NEW kind \in Answers, CoreAnswers(c, kind)
      PROVE  c \in core /\ core' \subseteq core /\ \A d \in AllCalls : Answered(d)' => Answered(d) \/ d = c
  <2> DEFINE m == [idx |-> index[c], from |-> c, kind |-> kind]
  <2>1. m \in Message /\ m.from = c /\ inbox' = Append(inbox, m) /\ c \in core /\ core' \subseteq core
    BY SMTT(30), <1>3 DEF CoreAnswers, TypeInv, TypeOK, Message
  <2> HIDE DEF m
  <2>2. \A i \in DOMAIN inbox' : (i \in DOMAIN inbox /\ inbox'[i] = inbox[i]) \/ inbox'[i] = m
    <3>1. m \in Message /\ inbox' = Append(inbox, m)
      BY SMTT(30), <2>1
    <3> QED BY <1>2, <3>1, SMTT(30)
  <2> QED BY SMTT(30), <2>1, <2>2 DEF Answered
<1>4. ASSUME CoreCloses
      PROVE  core' = {} /\ \A d \in AllCalls : Answered(d)' => Answered(d)
  BY SMTT(30), <1>4, CoreClosesAppends, NobodyIsNoCall DEF Answered, CoreCloses
<1> QED
  BY <1>1, <1>3, <1>4 DEF InFlight

LEMMA TableInvStep ==
  ASSUME TypeInv, PlaceInv, TableInv, [Next]_vars
  PROVE  TableInv'
<1> USE ConstantsAssumption
<1>1. CASE CreateConnects
  BY <1>1, TableInvCreateConnects
<1>2. ASSUME NEW c \in Calls, Execute(c) PROVE TableInv'
  <2>1. c \in AllCalls /\ DOMAIN fut = AllCalls
    BY DEF AllCalls, TypeInv, TypeOK
  <2>2. CASE closed
    <3>1. /\ UNCHANGED <<futures, free, leaked, index, answer, closed, reader, wtask, buffered, core, inbox>>
          /\ \A d \in AllCalls : fut'[d] = "pending" => fut[d] = "pending"
      BY SMTT(30), <1>2, <2>1, <2>2 DEF Execute, tableVars, socketVars
    <3>2. \A d \in AllCalls : InFlight(d)' => InFlight(d)
      BY <3>1 DEF InFlight, Answered
    <3> QED BY SMTT(30), <3>1, <3>2, TableInvSameTable
  <2>3. CASE ~closed
    <3>1. /\ fut[c] = "none" /\ GetFuture(CallbackIndex, c) /\ free' = FreeAfterPop
          /\ wtask' = [wtask EXCEPT ![c] = "start"]
          /\ UNCHANGED <<leaked, closed, reader, answer, buffered, core, inbox>>
      BY <1>2, <2>3 DEF Execute, socketVars
    <3> QED BY ZenonT(30), <2>1, <2>3, <3>1, TableInvExecute
  <2> QED BY SMTT(30), <2>2, <2>3
<1>3. ASSUME NEW c \in Calls, ExecuteRaises(c) PROVE TableInv'
  <2>1. /\ UNCHANGED <<futures, index, answer, closed, reader, wtask, buffered, core, inbox>>
        /\ \A d \in AllCalls : fut'[d] = "pending" => fut[d] = "pending"
        /\ free' = FreeAfterPop
    BY SMTT(30), <1>3 DEF ExecuteRaises, writeVars, socketVars, TypeInv, TypeOK
  <2>2. CASE free = <<>>
    <3>1. free' = free
      BY <2>1, <2>2 DEF FreeAfterPop
    <3>2. leaked' = leaked
      BY <1>3, <2>2, ZenonT(60) DEF ExecuteRaises, TypeInv, TypeOK
    <3>3. \A d \in AllCalls : InFlight(d)' => InFlight(d)
      BY <2>1 DEF InFlight, Answered
    <3> QED BY <2>1, <3>1, <3>2, <3>3, TableInvSameTable
  <2>3. CASE free # <<>>
    <3>1. leaked' = TRUE
      BY <1>3, <2>3, Zenon DEF ExecuteRaises
    <3> QED BY <3>1 DEF TableInv, AnswersReachCaller
  <2> QED BY SMTT(30), <2>2, <2>3
<1>4. ASSUME UNCHANGED <<futures, free, leaked, index, answer, wtask, buffered, core, inbox>>,
             closed' = closed \/ closed' = TRUE, reader' = reader \/ reader' = "ended",
             \A d \in AllCalls : fut'[d] = "pending" => fut[d] = "pending"
      PROVE  TableInv'
  <2>1. \A d \in AllCalls : InFlight(d)' => InFlight(d)
    BY <1>4 DEF InFlight, Answered
  <2> QED BY ZenonT(30), <1>4, <2>1, TableInvSameTable
<1>5. CASE ListenerFails \/ CreateConnectFails \/ CreateEnds \/ CloseEnds \/ UNCHANGED vars
  BY ZenonT(30), <1>4, <1>5 DEF ListenerFails, CreateConnectFails, CreateEnds, CloseEnds,
     vars, tableVars, writeVars, socketVars
<1>6. CASE UserCloses
  <2>1. \A d \in AllCalls : fut'[d] = "pending" => fut[d] = "pending"
    BY SMTT(30), <1>6 DEF UserCloses, Close, FutAfterClose
  <2> QED
    BY SMTT(30), <1>4, <1>6, <2>1 DEF UserCloses, Close, tableVars, writeVars, socketVars
<1>7. ASSUME NEW c \in Calls, Cancel(c) PROVE TableInv'
  <2>1. \A d \in AllCalls : fut'[d] = "pending" => fut[d] = "pending"
    BY SMTT(30), <1>7 DEF Cancel, TypeInv, TypeOK
  <2> QED
    BY SMTT(30), <1>4, <1>7, <2>1 DEF Cancel, tableVars, writeVars, socketVars
<1>8. ASSUME NEW c \in AllCalls, WriteStep(c) PROVE TableInv'
  <2>1. UNCHANGED <<futures, free, leaked, index, answer, closed, reader, fut>>
    BY <1>8 DEF WriteStep, WriteOrBuffer, Drained, DrainRaises, tableVars
  <2> QED BY SMTT(30), <1>8, <2>1, WritesKeepFlights, TableInvSameTable
<1>9. CASE CoreCloses \/ \E c \in AllCalls : \E kind \in Answers : CoreAnswers(c, kind)
  <2>1. UNCHANGED <<futures, free, leaked, index, answer, closed, reader, fut>>
    BY ZenonT(30), <1>9 DEF CoreCloses, CoreAnswers, tableVars
  <2> QED BY SMTT(30), <1>9, <2>1, CoreKeepsFlights, TableInvSameTable
<1> QED
  BY <1>1, <1>2, <1>3, <1>5, <1>6, <1>7, <1>8, <1>9, SMTT(30),
     TableInvReadAnswer, TableInvReadRaises, TableInvReadCloses
  DEF Next, ReaderStep

-----------------------------------------------------------------------------
LEMMA InvariantsHold == Spec => [](TypeInv /\ PlaceInv /\ TableInv)
<1>1. Init => TypeInv /\ PlaceInv /\ TableInv
  BY TypeInvInit, PlaceInvInit, TableInvInit
<1>2. TypeInv /\ PlaceInv /\ TableInv /\ [Next]_vars => (TypeInv /\ PlaceInv /\ TableInv)'
  BY TypeInvStep, PlaceInvStep, TableInvStep
<1> QED BY <1>1, <1>2, PTL DEF Spec

(* Every variable keeps its type, and exactly the holder of _writer_lock drains. *)
THEOREM TypeOKHolds == Spec => []TypeOK
<1>1. TypeInv => TypeOK
  BY DEF TypeInv
<1> QED BY <1>1, InvariantsHold, PTL

(* A request that found _writer_lock taken is not left in _buffered_requests: the
   holder of the lock is still to look, or the connection is lost. *)
THEOREM NothingStrandedHolds == Spec => []NothingStranded
<1>1. TypeInv => NothingStranded
  BY DEF TypeInv
<1> QED BY <1>1, InvariantsHold, PTL

(* While the client is open and no index leaked, the keys of _available_futures
   and the entries of _available_callback_indexes partition 0 .. n-1. *)
THEOREM IndexesPartitionHolds == Spec => []IndexesPartition
<1>1. TypeInv /\ TableInv => IndexesPartition
  <2> SUFFICES ASSUME TypeInv, TableInv, ~closed, ~leaked
               PROVE  Partition
    BY Zenon DEF IndexesPartition, Partition, UniqueKeys
  <2> QED BY Zenon DEF TableInv, TypeInv, TypeOK
<1> QED BY <1>1, InvariantsHold, PTL

(* Every waiting call has its future in _available_futures, where the reader or
   close() finds it, while the reader runs and no index leaked. *)
THEOREM NoCallForgottenHolds == Spec => []NoCallForgotten
<1>1. TypeInv /\ TableInv => NoCallForgotten
  <2> SUFFICES ASSUME TypeInv, TableInv, ~leaked, reader = "running"
               PROVE  WaitersInTable
    BY Zenon DEF NoCallForgotten
  <2>1. leaked # TRUE
    BY Zenon DEF TypeInv, TypeOK
  <2> QED BY <2>1 DEF TableInv
<1> QED BY <1>1, InvariantsHold, PTL

(* The answer of a call is the answer to its own request: the callback index
   identifies the request as long as no index leaked. *)
THEOREM AnswersReachCallerHolds == Spec => []AnswersReachCaller
<1>1. TableInv => AnswersReachCaller
  BY DEF TableInv
<1> QED BY <1>1, InvariantsHold, PTL

-----------------------------------------------------------------------------
(* The wrapper's end of the exchange *)

(* No call of the user begins before the connection request was answered, only
   calls that began have futures, and nothing is written before there is a
   writer. *)
FirstInv ==
  /\ \A p \in futures : fut[p[2]] # "none"
  /\ phase # "open" => \A c \in Calls : fut[c] = "none"
  /\ phase = "open" => fut[Config] = "result" /\ wtask[Config] = "done"
  /\ fut[Config] = "result" => ~Unwritten(Config) /\ Config \notin core
  /\ phase = "listener" => writer = "none"
  /\ writer = "none" => \A c \in AllCalls : wtask[c] = "none"

LEMMA FirstInvInit == Init => FirstInv
BY SMTT(30), ConstantsAssumption DEF Init, FirstInv, AllCalls

(* What a write step moves where. *)
LEMMA WriteMoves ==
  ASSUME TypeInv, PlaceInv, NEW c \in AllCalls, WriteOrBuffer(c) \/ Drained(c)
  PROVE  \/ /\ \A d \in AllCalls : Unwritten(d)' <=> Unwritten(d)
            /\ core' = core
         \/ \E batch \in SUBSET AllCalls :
              /\ \A d \in batch : Unwritten(d) /\ wtask[d] # "none"
              /\ \A d \in AllCalls : Unwritten(d)' <=> Unwritten(d) /\ d \notin batch
              /\ core' = IF writer = "open" THEN core \cup batch ELSE core
<1>1. buffered \in Seq(AllCalls) /\ wtask \in [AllCalls -> {"none", "start", "drain", "done"}]
  BY DEF TypeInv, TypeOK
<1>2. Range(<<>>) = {} /\ Range(buffered) \in SUBSET AllCalls
  BY SMTT(30), <1>1 DEF Range
<1>3. Range(Append(buffered, c)) = Range(buffered) \cup {c}
  BY <1>1, RangeOfAppend
<1>4. CASE WriteOrBuffer(c) /\ lock = Nobody
  <2>1. /\ wtask[c] = "start" /\ wtask' = [wtask EXCEPT ![c] = "drain"] /\ buffered' = <<>>
        /\ core' = IF writer = "open" THEN core \cup Range(Append(buffered, c)) ELSE core
    BY SMTT(30), <1>4 DEF WriteOrBuffer, Flush
  <2> DEFINE batch == Range(buffered) \cup {c}
  <2>2. \A d \in AllCalls : wtask'[d] = IF d = c THEN "drain" ELSE wtask[d]
    BY <1>1, <2>1
  <2>3. Range(buffered') = {}
    BY SMTT(30), <1>2, <2>1
  <2>4. \A d \in batch : Unwritten(d) /\ wtask[d] # "none"
    BY <1>2, <2>1 DEF Unwritten, PlaceInv
  <2>5. \A d \in AllCalls : Unwritten(d)' <=> Unwritten(d) /\ d \notin batch
    <3>1. \A d \in Range(buffered) : wtask[d] \notin {"none", "start"}
      BY <1>2 DEF PlaceInv
    <3> QED BY SMTT(30), <2>1, <2>2, <2>3, <3>1 DEF Unwritten
  <2>6. core' = IF writer = "open" THEN core \cup batch ELSE core
    BY <1>3, <2>1, Zenon
  <2>7. batch \in SUBSET AllCalls
    BY <1>2
  <2> HIDE DEF batch
  <2> QED BY <2>4, <2>5, <2>6, <2>7
<1>5. CASE WriteOrBuffer(c) /\ lock # Nobody
  <2>1. /\ wtask[c] = "start" /\ wtask' = [wtask EXCEPT ![c] = "done"]
        /\ buffered' = Append(buffered, c) /\ core' = core
    BY SMTT(30), <1>5 DEF WriteOrBuffer
  <2>2. \A d \in AllCalls : wtask'[d] = IF d = c THEN "done" ELSE wtask[d]
    BY <1>1, <2>1
  <2>3. Range(buffered') = Range(buffered) \cup {c}
    BY <1>3, <2>1
  <2> QED BY <2>1, <2>2, <2>3 DEF Unwritten
<1>6. CASE Drained(c) /\ buffered # <<>>
  <2>1. /\ wtask' = wtask /\ buffered' = <<>> /\ wtask[c] = "drain"
        /\ core' = IF writer = "open" THEN core \cup Range(buffered) ELSE core
    BY SMTT(30), <1>6 DEF Drained, Flush
  <2>2. \A d \in Range(buffered) : wtask[d] \notin {"none", "start"}
    BY <1>2 DEF PlaceInv
  <2>3. Range(buffered') = {}
    BY <1>2, <2>1
  <2>4. \A d \in AllCalls : Unwritten(d)' <=> Unwritten(d) /\ d \notin Range(buffered)
    BY <2>1, <2>2, <2>3 DEF Unwritten
  <2>5. \A d \in Range(buffered) : Unwritten(d) /\ wtask[d] # "none"
    BY <2>2 DEF Unwritten
  <2> QED BY <1>2, <2>1, <2>4, <2>5
<1>7. CASE Drained(c) /\ buffered = <<>>
  <2>1. /\ wtask' = [wtask EXCEPT ![c] = "done"] /\ buffered' = buffered /\ core' = core
        /\ wtask[c] = "drain"
    BY SMTT(30), <1>7 DEF Drained
  <2>2. \A d \in AllCalls : wtask'[d] = IF d = c THEN "done" ELSE wtask[d]
    BY SMTT(30), <1>1, <2>1
  <2> QED BY <2>1, <2>2 DEF Unwritten
<1> QED BY <1>4, <1>5, <1>6, <1>7

(* A step of another kind that writes nothing. *)
LEMMA FirstInvSame ==
  ASSUME TypeInv, FirstInv, phase' = phase, writer' # "none", futures' \subseteq futures, wtask' = wtask, buffered' = buffered,
         Config \notin core => Config \notin core',
         \A c \in AllCalls : fut'[c] = "none" <=> fut[c] = "none",
         fut'[Config] = "result" <=> fut[Config] = "result",
         phase = "listener" => writer' = "none"
  PROVE  FirstInv'
<1>1. \A p \in futures : p[2] \in AllCalls
  BY DEF TypeInv, TypeOK
<1>2. \A p \in futures' : fut'[p[2]] # "none"
  BY <1>1 DEF FirstInv
<1> QED BY <1>2, ConstantsAssumption DEF FirstInv, Unwritten, AllCalls

(* Only its own answer completes the connection request: nothing else was
   asked. *)
LEMMA ConfigAnswered ==
  ASSUME TypeInv, PlaceInv, FirstInv, ReadAnswer(Config)
  PROVE  Answered(Config)
<1>1. inbox # <<>> /\ inbox \in Seq(Message) /\ fut[Config] # "result"
  BY DEF ReadAnswer, Receives, Done, TypeInv, TypeOK, Message
<1>2. 1 \in DOMAIN inbox /\ Head(inbox) = inbox[1] /\ inbox[1] \in Message
  BY <1>1
<1>3. inbox[1].kind \notin {"closing", "eof"}
  BY <1>2 DEF ReadAnswer
<1>4. inbox[1].from \in AllCalls
  BY <1>2, <1>3 DEF PlaceInv, Message
<1>5. Answered(inbox[1].from)
  BY <1>2 DEF Answered
<1>6. wtask[inbox[1].from] # "none"
  BY <1>4, <1>5 DEF PlaceInv
<1>7. inbox[1].from \notin Calls
  BY <1>1, <1>4, <1>6 DEF FirstInv, TypeInv
<1> QED BY <1>4, <1>5, <1>7 DEF AllCalls

LEMMA ReceivesTakes == Receives => futures' \subseteq futures
BY DEF Receives

LEMMA FirstInvStep ==
  ASSUME TypeInv, PlaceInv, FirstInv, [Next]_vars
  PROVE  FirstInv'
<1> USE ConstantsAssumption
<1>1. /\ fut \in [AllCalls -> {"none", "pending", "result", "error", "cancelled"}]
      /\ wtask \in [AllCalls -> {"none", "start", "drain", "done"}]
      /\ Config \in AllCalls /\ (\A c \in Calls : c \in AllCalls /\ c # Config)
      /\ \A p \in futures : p[2] \in AllCalls
  BY DEF TypeInv, TypeOK, AllCalls
<1>2. CASE CreateConnects
  <2>1. /\ phase = "listener" /\ phase' = "configuring" /\ writer' = "open"
        /\ fut' = [fut EXCEPT ![Config] = "pending"]
        /\ futures' = {p \in futures : p[1] # 0} \cup {<<0, Config>>}
    BY <1>2 DEF CreateConnects, GetFuture
  <2>2. \A p \in futures' : fut'[p[2]] # "none"
    BY <1>1, <2>1 DEF FirstInv
  <2>3. \A c \in Calls : fut'[c] = "none"
    BY <1>1, <2>1 DEF FirstInv
  <2>4. fut'[Config] = "pending"
    BY <1>1, <2>1
  <2> QED BY <2>1, <2>2, <2>3, <2>4 DEF FirstInv
<1>3. CASE ListenerFails \/ CreateConnectFails
  <2>1. /\ phase = "listener" /\ phase' \in {"stuck", "failed"}
        /\ UNCHANGED <<futures, fut, wtask, buffered, core, writer>>
    BY SMTT(30), <1>3 DEF ListenerFails, CreateConnectFails, tableVars, writeVars, socketVars
  <2> QED BY <2>1 DEF FirstInv, Unwritten
<1>4. CASE CreateEnds
  <2>1. /\ phase = "configuring" /\ wtask[Config] = "done"
        /\ phase' = IF fut[Config] = "result" THEN "open" ELSE "failed"
        /\ UNCHANGED <<futures, fut, wtask, buffered, core, writer>>
    BY <1>4 DEF CreateEnds, tableVars, writeVars, socketVars
  <2> QED BY <2>1 DEF FirstInv, Unwritten
<1>5. ASSUME NEW c \in Calls, Execute(c) PROVE FirstInv'
  <2>1. /\ phase = "open" /\ phase' = "open" /\ UNCHANGED <<buffered, core, writer>>
        /\ \/ fut' = [fut EXCEPT ![c] = "error"] /\ wtask' = wtask /\ futures' = futures
           \/ /\ fut' = [fut EXCEPT ![c] = "pending"] /\ wtask' = [wtask EXCEPT ![c] = "start"]
              /\ \E i : futures' = {p \in futures : p[1] # i} \cup {<<i, c>>}
    BY SMTT(30), <1>5 DEF Execute, GetFuture, tableVars, socketVars
  <2>2. fut'[Config] = fut[Config] /\ wtask'[Config] = wtask[Config]
    BY <1>1, <2>1
  <2>3. writer # "none"
    BY <1>1, <2>1 DEF FirstInv
  <2>4. \A p \in futures' : fut'[p[2]] # "none"
    BY SMTT(30), <1>1, <2>1 DEF FirstInv
  <2> QED BY <2>1, <2>2, <2>3, <2>4 DEF FirstInv, Unwritten
<1>6. ASSUME NEW c \in Calls, ExecuteRaises(c) \/ Cancel(c) PROVE FirstInv'
  <2>1. /\ phase' = phase /\ UNCHANGED <<wtask, buffered, core, writer>>
        /\ phase = "open" \/ fut[c] = "pending"
        /\ futures' = futures
        /\ \E s \in {"error", "cancelled"} : fut' = [fut EXCEPT ![c] = s]
    BY <1>6 DEF ExecuteRaises, Cancel, tableVars, writeVars, socketVars
  <2>2. fut'[Config] = fut[Config]
    BY <1>1, <2>1
  <2>3. phase = "open"
    BY <2>1 DEF FirstInv
  <2>4. \A p \in futures' : fut'[p[2]] # "none"
    BY SMTT(30), <1>1, <2>1 DEF FirstInv
  <2> QED BY SMTT(30), <2>1, <2>2, <2>3, <2>4 DEF FirstInv, Unwritten
<1>7. ASSUME NEW c \in AllCalls, WriteOrBuffer(c) \/ Drained(c) PROVE FirstInv'
  <2>1. /\ UNCHANGED <<futures, phase, fut, writer>> /\ wtask[c] \in {"start", "drain"}
        /\ \E s \in {"drain", "done"} : wtask' = wtask \/ wtask' = [wtask EXCEPT ![c] = s]
        /\ wtask[c] = "drain" => wtask' = wtask \/ wtask' = [wtask EXCEPT ![c] = "done"]
    BY SMTT(30), <1>7 DEF WriteOrBuffer, Drained, tableVars
  <2>2. writer # "none"
    BY <2>1 DEF FirstInv
  <2>3. wtask[Config] = "done" => wtask'[Config] = "done"
    BY SMTT(30), <1>1, <2>1
  <2>4. ~Unwritten(Config) /\ Config \notin core => ~Unwritten(Config)' /\ Config \notin core'
    BY SMTT(30), <1>1, <1>7, WriteMoves
  <2> QED BY <2>1, <2>2, <2>3, <2>4 DEF FirstInv
<1>8. ASSUME NEW c \in AllCalls, DrainRaises(c) PROVE FirstInv'
  <2>1. /\ UNCHANGED <<futures, fut, writer, buffered, core>> /\ wtask[c] = "drain"
        /\ phase' = IF c = Config THEN "failed" ELSE phase
        /\ wtask' = [wtask EXCEPT ![c] = "done"]
    BY <1>8 DEF DrainRaises, tableVars, socketVars
  <2>2. \A d \in AllCalls : wtask'[d] \in {"none", "start"} <=> wtask[d] \in {"none", "start"}
    BY <1>1, <2>1
  <2>3. phase' # "open" => phase # "open"
    BY <2>1 DEF FirstInv
  <2>4. wtask[Config] = "done" => wtask'[Config] = "done"
    BY <1>1, <2>1
  <2>5. writer # "none"
    BY <2>1 DEF FirstInv
  <2>6. Unwritten(Config)' <=> Unwritten(Config)
    BY SMTT(30), <1>1, <2>1, <2>2 DEF Unwritten
  <2> QED BY <2>1, <2>3, <2>4, <2>5, <2>6 DEF FirstInv
<1>9. ASSUME NEW c \in AllCalls, NEW kind \in Answers, CoreAnswers(c, kind) PROVE FirstInv'
  <2>1. UNCHANGED <<futures, phase, fut, writer, wtask, buffered>> /\ core' = core \ {c}
    BY SMTT(30), <1>9 DEF CoreAnswers, tableVars, writeVars
  <2> QED BY <2>1 DEF FirstInv, Unwritten
<1>10. CASE CoreCloses
  <2>1. UNCHANGED <<futures, phase, fut, wtask, buffered>> /\ core' = {} /\ writer = "open" /\ writer' = "lost"
    BY SMTT(30), <1>10 DEF CoreCloses, tableVars, writeVars
  <2> QED BY <2>1 DEF FirstInv, Unwritten
<1>11. CASE UserCloses \/ ReadCloses
  <2>1. /\ UNCHANGED <<phase, wtask, buffered, core>> /\ writer' = "closed"
        /\ phase = "open" \/ reader = "running"
        /\ futures' \subseteq futures
        /\ \E table : fut' = FutAfterClose(table)
    BY SMTT(30), <1>11 DEF UserCloses, ReadCloses, Close, Receives, tableVars, writeVars, socketVars
  <2>2. /\ \A c \in AllCalls : fut'[c] = "none" <=> fut[c] = "none"
        /\ fut'[Config] = "result" <=> fut[Config] = "result"
    BY <1>1, <2>1 DEF FutAfterClose
  <2>3. phase # "listener"
    BY <2>1 DEF TypeInv
  <2> QED BY <2>1, <2>2, <2>3, FirstInvSame
<1>12. ASSUME NEW c \in AllCalls, ReadAnswer(c) PROVE FirstInv'
  <2>1. /\ UNCHANGED <<phase, writer, wtask, buffered, core>> /\ ~Done(c)
        /\ futures' \subseteq futures /\ fut[c] # "none"
        /\ \E s \in {"result", "error"} : fut' = [fut EXCEPT ![c] = s]
    <3>1. /\ UNCHANGED <<phase, writer, wtask, buffered, core>> /\ ~Done(c) /\ Receives
          /\ <<Head(inbox).idx, c>> \in futures
      BY <1>12, Zenon DEF ReadAnswer, writeVars
    <3>2. fut' = [fut EXCEPT ![c] = "result"] \/ fut' = [fut EXCEPT ![c] = "error"]
      BY <1>12 DEF ReadAnswer
    <3>3. fut[c] # "none"
      <4> DEFINE p == <<Head(inbox).idx, c>>
      <4>1. p \in futures /\ p[2] = c
        BY <3>1
      <4> HIDE DEF p
      <4> QED BY <4>1 DEF FirstInv
    <3> QED BY <3>1, <3>2, <3>3, ReceivesTakes
  <2>2. \A p \in futures' : fut'[p[2]] # "none"
    BY <1>1, <2>1 DEF FirstInv
  <2>3. CASE c = Config
    <3>1. ~Unwritten(Config) /\ Config \notin core
      BY SMTT(30), <1>1, <1>12, <2>3, ConfigAnswered DEF PlaceInv, Unwritten
    <3>2. \A d \in Calls : fut'[d] = fut[d]
      BY <1>1, <2>1, <2>3
    <3>3. phase # "open"
      BY SMTT(30), <2>1, <2>3 DEF FirstInv, Done
    <3> QED BY SMTT(30), <2>1, <2>2, <3>1, <3>2, <3>3 DEF FirstInv, Unwritten
  <2>4. CASE c # Config
    <3>1. fut'[Config] = fut[Config] /\ c \in Calls
      BY <1>1, <2>1, <2>4 DEF AllCalls
    <3>2. phase = "open"
      BY <2>1, <3>1 DEF FirstInv
    <3> QED BY SMTT(30), <2>1, <2>2, <3>1, <3>2 DEF FirstInv, Unwritten
  <2> QED BY <2>3, <2>4
<1>13. CASE CloseEnds \/ UNCHANGED vars \/ \E c \in AllCalls : ReadRaises(c)
  <2>1. UNCHANGED <<phase, fut, writer, wtask, buffered, core>> /\ futures' \subseteq futures
    <3>1. CASE CloseEnds \/ UNCHANGED vars
      BY <3>1 DEF CloseEnds, vars, tableVars, writeVars, socketVars
    <3>2. ASSUME NEW c \in AllCalls, ReadRaises(c)
          PROVE  UNCHANGED <<phase, fut, writer, wtask, buffered, core>> /\ Receives
      BY <3>2, Zenon DEF ReadRaises, writeVars
    <3> QED BY <1>13, <3>1, <3>2, ReceivesTakes
  <2> QED BY <2>1 DEF FirstInv, Unwritten
<1> QED
  BY SMTT(30), <1>2, <1>3, <1>4, <1>5, <1>6, <1>7, <1>8, <1>9, <1>10, <1>11, <1>12, <1>13
  DEF Next, ReaderStep, WriteStep

(* The statuses the exchange sees, and how a step that changes some of them, or
   none, is a step of the exchange. *)
StatusMap == [c \in AllCalls |-> StatusOf(c)]

Connected == writer \in {"none", "open"}

LEMMA Becoming ==
  ASSUME Connected, Connected', NEW batch, NEW new,
         \A c \in AllCalls : StatusOf(c)' = IF c \in batch THEN new ELSE StatusOf(c)
  PROVE  AsExchange!Becomes(batch, new)
<1>1. \A c \in AllCalls : StatusMap[c] = StatusOf(c)
  BY DEF StatusMap
<1>2. StatusMap' = [c \in AllCalls |-> IF c \in batch THEN new ELSE StatusMap[c]]
  BY <1>1, Zenon DEF StatusMap
<1>3. Connected' = Connected
  BY DEF Connected
<1> QED BY <1>2, <1>3, Zenon DEF AsExchange!Becomes, StatusMap, Connected

LEMMA Asking ==
  ASSUME Connected, Connected', NEW batch \in SUBSET AllCalls,
         \A c \in batch : StatusOf(c) = "unasked" /\ (c = Config \/ StatusOf(Config) = "answered"),
         \A c \in AllCalls : StatusOf(c)' = IF c \in batch THEN "asked" ELSE StatusOf(c)
  PROVE  AsExchange!Next
<1>1. AsExchange!Becomes(batch, "asked")
  BY Becoming
<1>2. Config \in AllCalls /\ \A c \in batch : c \in AllCalls
  BY DEF AllCalls
<1>3. \A c \in batch : StatusMap[c] = "unasked" /\ (c = Config \/ StatusMap[Config] = "answered")
  BY <1>2 DEF StatusMap
<1>4. AsExchange!Ask(batch)
  BY <1>1, <1>3, Zenon DEF AsExchange!Ask, StatusMap
<1> QED BY <1>4 DEF AsExchange!Next

LEMMA Stuttering ==
  ASSUME Connected' <=> Connected, \A c \in AllCalls : StatusOf(c)' = StatusOf(c)
  PROVE  UNCHANGED AsExchange!exchangeVars
<1>1. StatusMap' = StatusMap
  BY Zenon DEF StatusMap
<1>2. Connected' = Connected
  BY DEF Connected
<1> QED BY <1>1, <1>2, Zenon DEF AsExchange!exchangeVars, StatusMap, Connected

(* Once the connection is gone every request is lost, until then nothing moves
   without a write or an answer. *)
LEMMA Quiet ==
  ASSUME \/ ~Connected /\ ~Connected'
         \/ Connected /\ Connected' /\ core' = core /\ \A c \in AllCalls : Unwritten(c)' <=> Unwritten(c),
         writer \in {"none", "open", "lost", "closed"}, writer' \in {"none", "open", "lost", "closed"}
  PROVE  UNCHANGED AsExchange!exchangeVars
<1>1. CASE ~Connected /\ ~Connected'
  <2>1. \A c \in AllCalls : StatusOf(c)' = "lost" /\ StatusOf(c) = "lost"
    BY <1>1 DEF Connected, StatusOf
  <2> QED BY <1>1, <2>1, Stuttering
<1>2. CASE ~(~Connected /\ ~Connected')
  <2>1. \A c \in AllCalls : StatusOf(c)' = StatusOf(c)
    BY <1>2 DEF Connected, StatusOf
  <2> QED BY <1>2, <2>1, Stuttering
<1> QED BY <1>1, <1>2

LEMMA Closes ==
  ASSUME writer \in {"none", "open", "lost", "closed"}, writer' \in {"lost", "closed"}
  PROVE  AsExchange!Next \/ UNCHANGED AsExchange!exchangeVars
<1>1. ~Connected'
  BY DEF Connected
<1>2. CASE Connected
  <2>1. StatusMap' = [c \in AllCalls |-> "lost"]
    <3>1. \A c \in AllCalls : StatusOf(c)' = "lost"
      BY DEF StatusOf
    <3> QED BY <3>1, Zenon DEF StatusMap
  <2>2. Connected' = FALSE
    BY <1>1 DEF Connected
  <2>3. AsExchange!Close
    BY <1>2, <2>1, <2>2, Zenon DEF AsExchange!Close, StatusMap, Connected
  <2> QED BY <2>3 DEF AsExchange!Next
<1>3. CASE ~Connected
  BY <1>1, <1>3, Quiet
<1> QED BY <1>2, <1>3

XInv == TypeInv /\ PlaceInv /\ FirstInv

LEMMA NextXInv == XInv /\ [Next]_vars => XInv'
BY TypeInvStep, PlaceInvStep, FirstInvStep, Zenon DEF XInv

(* A task gives what is buffered to the writer, or leaves its own request to the
   task that holds the lock. *)
LEMMA WritesAsk ==
  ASSUME XInv, NEW c \in AllCalls, WriteOrBuffer(c) \/ Drained(c)
  PROVE  AsExchange!Next \/ UNCHANGED AsExchange!exchangeVars
<1>1. /\ writer' = writer /\ writer \in {"none", "open", "lost", "closed"} /\ wtask[c] # "none"
  BY DEF WriteOrBuffer, Drained, XInv, TypeInv, TypeOK
<1>2. writer # "none"
  BY <1>1 DEF XInv, FirstInv
<1>3. CASE writer # "open"
  BY <1>1, <1>2, <1>3, Quiet DEF Connected
<1>4. CASE writer = "open"
  <2>1. Connected /\ Connected'
    BY <1>1, <1>4 DEF Connected
  <2>2. CASE core' = core /\ \A d \in AllCalls : Unwritten(d)' <=> Unwritten(d)
    BY <1>1, <2>1, <2>2, Quiet
  <2>3. ASSUME NEW batch \in SUBSET AllCalls,
               \A d \in batch : Unwritten(d) /\ wtask[d] # "none",
               \A d \in AllCalls : Unwritten(d)' <=> Unwritten(d) /\ d \notin batch,
               core' = core \cup batch
        PROVE  AsExchange!Next
    <3>1. \A d \in AllCalls : Unwritten(d) => d \notin core
      BY DEF XInv, PlaceInv, Unwritten
    <3>2. \A d \in batch : StatusOf(d) = "unasked"
      BY <1>4, <2>3, <3>1 DEF StatusOf
    <3>3. \A d \in AllCalls : StatusOf(d)' = IF d \in batch THEN "asked" ELSE StatusOf(d)
      BY <1>1, <1>4, <2>3 DEF StatusOf
    <3>4. \A d \in batch : d = Config \/ StatusOf(Config) = "answered"
      <4> SUFFICES ASSUME NEW d \in batch, d # Config PROVE StatusOf(Config) = "answered"
        OBVIOUS
      <4>1. d \in Calls /\ d \in AllCalls
        BY DEF AllCalls
      <4>2. wtask[d] # "none"
        BY SMTT(30), <2>3, <4>1
      <4>3. fut[Config] = "result"
        BY <4>1, <4>2 DEF XInv, FirstInv, TypeInv
      <4> QED BY <1>4, <4>3 DEF XInv, FirstInv, StatusOf
    <3> QED BY SMTT(30), <2>1, <3>2, <3>3, <3>4, Asking
  <2> QED BY <1>4, <2>2, <2>3, WriteMoves DEF XInv
<1> QED BY <1>3, <1>4

LEMMA CoreAnswersAnswers ==
  ASSUME XInv, NEW c \in AllCalls, NEW kind, CoreAnswers(c, kind)
  PROVE  AsExchange!Next
<1>1. /\ writer = "open" /\ writer' = "open" /\ c \in core /\ core' = core \ {c}
      /\ wtask' = wtask /\ buffered' = buffered
  BY DEF CoreAnswers, writeVars
<1>2. ~Unwritten(c)
  BY <1>1 DEF XInv, PlaceInv, Unwritten
<1>3. \A d \in AllCalls : Unwritten(d)' <=> Unwritten(d)
  BY <1>1, Zenon DEF Unwritten
<1>4. \A d \in AllCalls : StatusOf(d)' = IF d \in {c} THEN "answered" ELSE StatusOf(d)
  BY <1>1, <1>2, <1>3 DEF StatusOf
<1>5. Connected /\ Connected'
  BY <1>1 DEF Connected
<1>6. AsExchange!Becomes({c}, "answered")
  BY <1>4, <1>5, Becoming
<1>7. \A d \in {c} : StatusMap[d] = "asked"
  BY <1>1 DEF StatusMap, StatusOf
<1>8. AsExchange!Answer({c})
  BY <1>6, <1>7, Zenon DEF AsExchange!Answer, StatusMap
<1> QED BY <1>8 DEF AsExchange!Next

LEMMA NextExchange == XInv /\ [Next]_vars => [AsExchange!Next]_(AsExchange!exchangeVars)
<1> SUFFICES ASSUME XInv, [Next]_vars PROVE [AsExchange!Next]_(AsExchange!exchangeVars)
  OBVIOUS
<1> USE ConstantsAssumption
<1>1. XInv'
  BY SMTT(30), NextXInv
<1>2. /\ writer \in {"none", "open", "lost", "closed"} /\ writer' \in {"none", "open", "lost", "closed"}
      /\ wtask \in [AllCalls -> {"none", "start", "drain", "done"}]
  BY <1>1 DEF XInv, TypeInv, TypeOK
<1>3. ASSUME writer' = writer, core' = core, buffered' = buffered,
             \A c \in AllCalls : wtask'[c] = wtask[c] \/ {wtask[c], wtask'[c]} = {"none", "start"}
      PROVE  UNCHANGED AsExchange!exchangeVars
  <2>1. \A c \in AllCalls : wtask'[c] \in {"none", "start"} <=> wtask[c] \in {"none", "start"}
    BY <1>3
  <2>2. \A c \in AllCalls : Unwritten(c)' <=> Unwritten(c)
    BY <1>3, <2>1, Zenon DEF Unwritten
  <2>3. Connected' <=> Connected
    BY <1>3 DEF Connected
  <2> QED BY SMTT(30), <1>2, <1>3, <2>2, <2>3, Quiet
<1>4. CASE CreateConnects
  <2>1. /\ phase = "listener" /\ writer' = "open" /\ buffered' = buffered /\ core' = core
        /\ wtask' = [wtask EXCEPT ![Config] = "start"]
    BY <1>4 DEF CreateConnects, socketVars
  <2>2. Connected /\ Connected' /\ wtask[Config] = "none"
    BY <2>1 DEF Connected, XInv, FirstInv, AllCalls
  <2>3. \A c \in AllCalls : wtask'[c] \in {"none", "start"} <=> wtask[c] \in {"none", "start"}
    BY <1>2, <2>1, <2>2
  <2>4. \A c \in AllCalls : Unwritten(c)' <=> Unwritten(c)
    BY <2>1, <2>3, Zenon DEF Unwritten
  <2> QED BY <1>2, <2>1, <2>2, <2>4, Quiet
<1>5. ASSUME NEW c \in Calls, Execute(c) PROVE UNCHANGED AsExchange!exchangeVars
  <2>1. /\ writer' = writer /\ core' = core /\ buffered' = buffered /\ fut[c] = "none"
        /\ wtask' = wtask \/ wtask' = [wtask EXCEPT ![c] = "start"]
    BY <1>5 DEF Execute, socketVars
  <2>2. wtask[c] = "none"
    BY <2>1 DEF XInv, TypeInv, AllCalls
  <2> QED BY <1>2, <1>3, <2>1, <2>2
<1>6. ASSUME UNCHANGED <<writer, core, buffered, wtask>>
      PROVE  UNCHANGED AsExchange!exchangeVars
  BY <1>3, <1>6
<1>7. ASSUME NEW c \in Calls, ExecuteRaises(c) \/ Cancel(c) PROVE UNCHANGED AsExchange!exchangeVars
  BY SMTT(30), <1>6, <1>7 DEF ExecuteRaises, Cancel, writeVars, socketVars
<1>8. CASE ListenerFails \/ CreateConnectFails \/ CreateEnds \/ CloseEnds \/ UNCHANGED vars
  BY <1>6, <1>8 DEF ListenerFails, CreateConnectFails, CreateEnds, CloseEnds, vars, writeVars, socketVars
<1>9. ASSUME NEW c \in AllCalls, ReadAnswer(c) \/ ReadRaises(c)
      PROVE  UNCHANGED AsExchange!exchangeVars
  <2>1. UNCHANGED <<writer, core, buffered, wtask>>
    BY <1>9, Zenon DEF ReadAnswer, ReadRaises, writeVars
  <2> QED BY <1>6, <2>1
<1>10. ASSUME NEW c \in AllCalls, DrainRaises(c) PROVE UNCHANGED AsExchange!exchangeVars
  <2>1. writer' = writer /\ writer # "open" /\ wtask[c] = "drain"
    BY <1>10 DEF DrainRaises
  <2>2. writer # "none"
    BY <2>1 DEF XInv, FirstInv
  <2> QED BY <1>2, <2>1, <2>2, Quiet DEF Connected
<1>11. CASE CoreCloses \/ UserCloses \/ ReadCloses
  <2>1. writer' \in {"lost", "closed"}
    BY <1>11 DEF CoreCloses, UserCloses, ReadCloses, Close
  <2> QED BY SMTT(30), <1>2, <2>1, Closes
<1>12. ASSUME NEW c \in AllCalls, WriteOrBuffer(c) \/ Drained(c)
       PROVE  AsExchange!Next \/ UNCHANGED AsExchange!exchangeVars
  BY <1>12, WritesAsk
<1>13. ASSUME NEW c \in AllCalls, NEW kind \in Answers, CoreAnswers(c, kind) PROVE AsExchange!Next
  BY <1>13, CoreAnswersAnswers
<1> QED
  BY <1>4, <1>5, <1>7, <1>8, <1>9, <1>10, <1>11, <1>12, <1>13, Zenon
  DEF Next, ReaderStep, WriteStep

LEMMA InitExchange == Init => AsExchange!Init
<1> SUFFICES ASSUME Init PROVE AsExchange!Init
  OBVIOUS
<1>1. writer = "none" /\ core = {} /\ \A c \in AllCalls : wtask[c] = "none"
  BY DEF Init
<1>2. \A c \in AllCalls : StatusOf(c) = "unasked"
  BY <1>1 DEF StatusOf, Unwritten
<1>3. StatusMap = [c \in AllCalls |-> "unasked"]
  BY <1>2, Zenon DEF StatusMap
<1>4. (writer \in {"none", "open"}) = TRUE
  BY <1>1
<1> QED BY <1>3, <1>4, Zenon DEF AsExchange!Init, StatusMap

(* create, the write tasks and _buffered_requests implement the wrapper's end of
   the exchange: the connection request is written first and answered before any
   other, and each request is written once, by its own task or by the one that
   held _writer_lock. *)
THEOREM ImplementsExchangeHolds == Spec => ImplementsExchange
<1>1. Init => XInv
  BY TypeInvInit, PlaceInvInit, FirstInvInit DEF XInv
<1> QED
  BY <1>1, NextXInv, InitExchange, NextExchange, PTL DEF Spec, ImplementsExchange, AsExchange!Spec

=============================================================================
