---------------------------- MODULE ClientStream ----------------------------
(***************************************************************************)
(* One wrapper connection inside the core's socket listener                *)
(* (glide-core/src/socket_listener.rs): listen_on_client_stream, which     *)
(* reads the configuration, creates the client and then reads requests;    *)
(* one spawned task per request; and the writer they share, with its lock, *)
(* its accumulated outputs and its channel of closing reasons.             *)
(*                                                                         *)
(* All of these run on one thread, so a task runs from one await to the    *)
(* next without interference.  A response is two bytes, enough to be split *)
(* by a partial write.                                                     *)
(***************************************************************************)
EXTENDS Naturals, Sequences, Functions

CONSTANTS
  Requests,  \* requests of the wrapper, each with its callback index
  Main,      \* the task that runs listen_on_client_stream
  Nobody     \* the lock is free

ASSUME ConstantsAssumption ==
  /\ Main \notin Requests /\ Nobody \notin Requests /\ Main # Nobody
  /\ "ready" \notin Requests /\ "closing" \notin Requests

VARIABLES
  peer,      \* the wrapper's end of the socket: "open" or "closed"
  config,    \* the ConnectionRequest: "none", "sent", "partial", "garbled" or "read"
  inbox,     \* requests in the socket, in order
  phase,     \* where listen_on_client_stream is
  pc,        \* what each task is doing
  lock,      \* holder of Writer.lock
  acc,       \* Writer.accumulated_outputs
  output,    \* what the holder of the lock is writing
  wire,      \* bytes the wrapper can read
  chan,      \* closing reasons in the channel, of capacity 1
  receiver   \* the receiver of the channel exists

peerVars   == <<peer, config, inbox>>
writerVars == <<lock, acc, output, wire>>
chanVars   == <<chan, receiver>>
vars == <<peerVars, phase, pc, writerVars, chanVars>>

Capacity == 1
Writers == Requests \cup {Main}
Ready   == "ready"     \* the OK response to the configuration, index 0
Closing == "closing"   \* a closing error, index u32::MAX
Responses == Requests \cup {Ready, Closing}

Bytes(x) == <<<<x, 1>>, <<x, 2>>>>

Init ==
  /\ peer = "open" /\ config = "none" /\ inbox = <<>>
  /\ phase = "config"
  /\ pc = [w \in Writers |-> "idle"]
  /\ lock = Nobody /\ acc = <<>> /\ output = <<>> /\ wire = <<>>
  /\ chan = 0 /\ receiver = TRUE

-----------------------------------------------------------------------------
(* The wrapper. *)
PeerConfigures ==
  /\ peer = "open" /\ config = "none"
  /\ config' \in {"sent", "partial", "garbled"}
  /\ UNCHANGED <<peer, inbox, phase, pc, writerVars, chanVars>>

Asked == Range(inbox) \cup {r \in Requests : pc[r] # "idle"}

(* The wrapper sends requests once its client was created. *)
PeerSends(r) ==
  /\ peer = "open" /\ r \notin Asked
  /\ \E i \in DOMAIN wire : wire[i] = <<Ready, 2>>
  /\ inbox' = Append(inbox, r)
  /\ UNCHANGED <<peer, config, phase, pc, writerVars, chanVars>>

PeerCloses ==
  /\ peer = "open"
  /\ peer' = "closed"
  /\ UNCHANGED <<config, inbox, phase, pc, writerVars, chanVars>>

-----------------------------------------------------------------------------
(* Mutant: the lock is not looked at. *)
WriteToWriterNoLock(w, x) ==
  /\ lock' = w /\ output' = acc \o Bytes(x) /\ acc' = <<>>
  /\ pc' = [pc EXCEPT ![w] = "write"]
  /\ UNCHANGED wire

(* write_to_writer and the head of write_to_output: the response is added to
   the accumulated outputs, and whoever gets the lock takes them all. *)
WriteToWriter(w, x) ==
  /\ IF lock = Nobody
     THEN /\ lock' = w /\ output' = acc \o Bytes(x) /\ acc' = <<>>
          /\ pc' = [pc EXCEPT ![w] = "write"]
     ELSE /\ acc' = acc \o Bytes(x)
          /\ pc' = [pc EXCEPT ![w] = "done"]
          /\ UNCHANGED <<lock, output>>
  /\ UNCHANGED wire

(* Mutant: the lock is given up without a look at the accumulated outputs. *)
WriteSomeStops(w) ==
  /\ pc[w] = "write" /\ peer = "open"
  /\ \E n \in 1..Len(output) :
       /\ wire' = wire \o SubSeq(output, 1, n)
       /\ output' = SubSeq(output, n + 1, Len(output))
  /\ lock' = IF output' = <<>> THEN Nobody ELSE w
  /\ pc' = [pc EXCEPT ![w] = IF output' = <<>> THEN "done" ELSE "write"]
  /\ UNCHANGED <<peerVars, phase, acc, chanVars>>

(* Mutant: after a partial write, writing starts again from the beginning. *)
WriteSomeRestarts(w) ==
  /\ pc[w] = "write" /\ peer = "open"
  /\ \E n \in 1..Len(output) :
       /\ wire' = wire \o SubSeq(output, 1, n)
       /\ output' = IF n < Len(output) THEN output ELSE acc
       /\ acc' = IF n < Len(output) THEN acc ELSE <<>>
  /\ Len(wire') <= 12
  /\ lock' = IF output' = <<>> THEN Nobody ELSE w
  /\ pc' = [pc EXCEPT ![w] = IF output' = <<>> THEN "done" ELSE "write"]
  /\ UNCHANGED <<peerVars, phase, chanVars>>

(* try_write takes some bytes.  After the last one the outputs accumulated
   meanwhile are next; with none, the lock is given up. *)
WriteSome(w) ==
  /\ pc[w] = "write" /\ peer = "open"
  /\ \E n \in 1..Len(output) :
       /\ wire' = wire \o SubSeq(output, 1, n)
       /\ \/ /\ n < Len(output)
             /\ output' = SubSeq(output, n + 1, Len(output))
             /\ UNCHANGED acc
          \/ /\ n = Len(output)
             /\ output' = acc /\ acc' = <<>>
  /\ lock' = IF output' = <<>> THEN Nobody ELSE w
  /\ pc' = [pc EXCEPT ![w] = IF output' = <<>> THEN "done" ELSE "write"]
  /\ UNCHANGED <<peerVars, phase, chanVars>>

(* The socket is gone: writable() fails and the task will return, or try_write
   fails and it will go round the loop; the reason is sent first. *)
WriteFails(w) ==
  /\ pc[w] = "write" /\ peer = "closed"
  /\ pc' = [pc EXCEPT ![w] = "sendAndReturn"] \/ pc' = [pc EXCEPT ![w] = "sendAndLoop"]
  /\ UNCHANGED <<peerVars, phase, writerVars, chanVars>>

(* closing_sender.send(..).await: waits while the channel is full, fails when
   the receiver is gone. *)
SendReason(w) ==
  /\ pc[w] \in {"sendAndReturn", "sendAndLoop"}
  /\ IF receiver THEN chan < Capacity /\ chan' = chan + 1 ELSE UNCHANGED chan
  /\ IF pc[w] = "sendAndReturn"
     THEN /\ pc' = [pc EXCEPT ![w] = "done"]
          /\ lock' = Nobody /\ output' = <<>>
     ELSE /\ pc' = [pc EXCEPT ![w] = "write"]
          /\ UNCHANGED <<lock, output>>
  /\ UNCHANGED <<peerVars, phase, acc, wire, receiver>>

-----------------------------------------------------------------------------
(* listen_on_client_stream returns: its receiver is dropped. *)
Return ==
  /\ phase' = "closed"
  /\ receiver' = FALSE
  /\ UNCHANGED chan

(* wait_for_connection_configuration_and_create_client: one read of the socket
   must yield the configuration. *)
ReadConfig ==
  /\ phase = "config" /\ config = "sent"
  /\ config' = "read" /\ phase' = "creating"
  /\ UNCHANGED <<peer, inbox, pc, writerVars, chanVars>>

(* It yields no request, or one that cannot be parsed. *)
ReadConfigFails ==
  /\ phase = "config" /\ config \in {"partial", "garbled"}
  /\ config' = "read" /\ phase' = "failing"
  /\ WriteToWriter(Main, Closing)
  /\ UNCHANGED <<peer, inbox, chanVars>>

(* The wrapper only looked whether anybody listens. *)
ReadConfigClosed ==
  /\ phase = "config" /\ config = "none" /\ peer = "closed"
  /\ Return
  /\ UNCHANGED <<peerVars, pc, writerVars>>

(* Client::new ends; the OK response carries index 0. *)
ClientCreated ==
  /\ phase = "creating" /\ pc[Main] = "idle"
  /\ phase' = "answering"
  /\ WriteToWriter(Main, Ready)
  /\ UNCHANGED <<peerVars, chanVars>>

ClientFails ==
  /\ phase = "creating" /\ pc[Main] = "idle"
  /\ phase' = "failing"
  /\ WriteToWriter(Main, Closing)
  /\ UNCHANGED <<peerVars, chanVars>>

(* The OK response was written, or given up: the select! begins. *)
StartServing ==
  /\ phase = "answering" /\ pc[Main] = "done"
  /\ phase' = "serving"
  /\ pc' = [pc EXCEPT ![Main] = "idle"]
  /\ UNCHANGED <<peerVars, writerVars, chanVars>>

ReturnAfterError ==
  /\ phase = "failing" /\ pc[Main] = "done"
  /\ Return
  /\ UNCHANGED <<peerVars, pc, writerVars>>

(* read_values_loop: the requests read at once are each given a task. *)
ReadRequests ==
  /\ phase = "serving"
  /\ \E n \in 1..Len(inbox) :
       /\ pc' = [w \in Writers |->
                   IF w \in Range(SubSeq(inbox, 1, n)) THEN "running" ELSE pc[w]]
       /\ inbox' = SubSeq(inbox, n + 1, Len(inbox))
  /\ UNCHANGED <<peer, config, phase, writerVars, chanVars>>

(* A request that cannot be parsed, or a failing read. *)
ReadFails ==
  /\ phase = "serving"
  /\ phase' = "failing"
  /\ WriteToWriter(Main, Closing)
  /\ UNCHANGED <<peerVars, chanVars>>

ReadClosed ==
  /\ phase = "serving" /\ inbox = <<>> /\ peer = "closed"
  /\ Return
  /\ UNCHANGED <<peerVars, pc, writerVars>>

(* The other arm of the select!: the writer reported a failure. *)
ReceiveReason ==
  /\ phase = "serving" /\ chan > 0
  /\ phase' = "closed" /\ receiver' = FALSE /\ chan' = chan - 1
  /\ UNCHANGED <<peerVars, pc, writerVars>>

(* Mutant: the response carries the index of some request, not of its own. *)
RespondToAny(r) ==
  /\ pc[r] = "running"
  /\ \E x \in Requests : WriteToWriter(r, x)
  /\ UNCHANGED <<peerVars, phase, chanVars>>

(* handle_request: the client's answer to a request arrives, write_result. *)
Respond(r) ==
  /\ pc[r] = "running"
  /\ WriteToWriter(r, r)
  /\ UNCHANGED <<peerVars, phase, chanVars>>

WriteStep(w) == WriteSome(w) \/ WriteFails(w) \/ SendReason(w)

MainStep ==
  \/ ReadConfig \/ ReadConfigFails \/ ReadConfigClosed \/ ClientCreated \/ ClientFails
  \/ StartServing \/ ReturnAfterError \/ ReadRequests \/ ReadClosed \/ ReceiveReason

Next ==
  \/ PeerConfigures \/ PeerCloses \/ MainStep \/ ReadFails
  \/ \E r \in Requests : PeerSends(r) \/ Respond(r)
  \/ \E w \in Writers : WriteStep(w)

Spec == Init /\ [][Next]_vars

(* Tasks are polled, the client answers every request (it has a timeout), and
   the wrapper reads its socket while it is open. *)
Fairness ==
  /\ WF_vars(MainStep)
  /\ \A r \in Requests : WF_vars(Respond(r))
  /\ \A w \in Writers : WF_vars(WriteStep(w))

FairSpec == Spec /\ Fairness

-----------------------------------------------------------------------------
(* Every variable has its type, and exactly the holder of the lock writes. *)
TypeOK ==
  /\ peer \in {"open", "closed"}
  /\ config \in {"none", "sent", "partial", "garbled", "read"}
  /\ inbox \in Seq(Requests)
  /\ phase \in {"config", "creating", "answering", "serving", "failing", "closed"}
  /\ pc \in [Writers -> {"idle", "running", "write", "sendAndReturn", "sendAndLoop", "done"}]
  /\ lock \in Writers \cup {Nobody}
  /\ acc \in Seq(Responses \X {1, 2}) /\ output \in Seq(Responses \X {1, 2})
  /\ wire \in Seq(Responses \X {1, 2})
  /\ chan \in 0..Capacity /\ receiver \in BOOLEAN
  /\ \A w \in Writers : pc[w] \in {"write", "sendAndReturn", "sendAndLoop"} <=> lock = w

(* Whole responses one after the other, the last of them perhaps incomplete, and
   none of them twice. *)
Whole(bytes) ==
  \A i \in DOMAIN bytes :
    /\ i % 2 = 1 => bytes[i][2] = 1
    /\ i % 2 = 0 => bytes[i] = <<bytes[i - 1][1], 2>>
    /\ \A j \in DOMAIN bytes : bytes[i] = bytes[j] => i = j

(* However many tasks write, and wherever try_write stops, what the wrapper
   reads is whole responses: bytes are never mixed, repeated or skipped. *)
WireIsWholeResponses == Whole(wire)

(* A response that found the lock taken is not left behind: the holder of the
   lock will come back for it, or the connection is on its way down. *)
NothingStranded ==
  acc # <<>> => lock # Nobody \/ chan > 0 \/ phase = "closed"

(* The exchange as the wrapper sees it: what it wrote, and which responses it
   has in full.  Ready stands for the connection request it answers. *)
StatusOf(r) ==
  LET answers == {i \in DOMAIN wire : wire[i] = <<r, 2>>}
      asked   == IF r = Ready THEN config # "none" ELSE r \in Asked
  IN  IF peer = "closed" THEN "lost"
      ELSE IF \E i, j \in answers : i # j THEN "repeated"
      ELSE IF answers # {} THEN "answered"
      ELSE IF asked THEN "asked" ELSE "unasked"

AsExchange ==
  INSTANCE Exchange WITH Requests <- Requests \cup {Ready}, First <- Ready,
                         open <- peer = "open",
                         status <- [r \in Requests \cup {Ready} |-> StatusOf(r)]

(* The tasks, the writer they share and its partial writes together are the
   core's end of the exchange: a response appears in full only for a request
   that was sent, and only once. *)
ImplementsExchange == AsExchange!Spec

(* Every request that was read is answered completely while the wrapper keeps
   its end open, with any number of other answers in the way. *)
RequestsAnswered ==
  \A r \in Requests :
    pc[r] = "running" ~> peer = "closed" \/ \E i \in DOMAIN wire : wire[i] = <<r, 2>>

(* A task whose write failed ends: the comment beside closing_sender.send says
   that a failed send "means that the reader was dropped, which is ok". *)
WritersEnd ==
  \A r \in Requests : pc[r] = "sendAndLoop" ~> pc[r] = "done"

(* The comment on ReadSocketClosed: "This is the expected way that the listener
   should be closed."  When the wrapper closes the socket, the task that serves
   it ends. *)
StreamEnds == peer = "closed" ~> phase = "closed"
=============================================================================
