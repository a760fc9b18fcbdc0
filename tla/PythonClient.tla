---------------------------- MODULE PythonClient ----------------------------
(***************************************************************************)
(* The Python client (python/python/glide/redis_client.py): create, the    *)
(* callback indexes and futures of the requests, the buffered writer, the  *)
(* reader loop and close, with the core at the other end of the socket.    *)
(*                                                                         *)
(* All of it runs on one event loop, so a coroutine or task runs from one  *)
(* await to the next without interference.  A call is one run of           *)
(* _execute_command or execute_transaction; Config is the connection       *)
(* request that create sends.                                              *)
(***************************************************************************)
EXTENDS Naturals, Sequences, FiniteSets, Functions

CONSTANTS
  Calls,      \* calls of the user
  Config,     \* the call of create
  Nobody,     \* the writer lock is free; nobody's answer
  NoIndex     \* the callback index u32::MAX, which no request has

ASSUME ConstantsAssumption ==
  /\ Config \notin Calls /\ Nobody \notin Calls /\ Config # Nobody
  /\ NoIndex \in Nat

VARIABLES
  phase,     \* where create is; "open" once it returned the client
  closed,    \* _is_closed
  futures,   \* _available_futures: pairs of an index and the call that waits on it
  free,      \* _available_callback_indexes, a stack
  leaked,    \* history: an index was taken off that list by a call that was refused
  index,     \* callback_idx of each call's request
  fut,       \* state of each call's future
  answer,    \* history: whose answer each future received
  wtask,     \* the task that writes the call's request
  buffered,  \* _buffered_requests, as the calls they belong to
  lock,      \* holder of _writer_lock
  writer,    \* the writer's side of the socket
  reader,    \* the reader task
  core,      \* requests the core has not answered yet
  inbox      \* responses in the socket, in order; "eof" ends them

tableVars  == <<futures, free, leaked, index>>
writeVars  == <<wtask, buffered, lock>>
socketVars == <<core, inbox>>
vars == <<phase, closed, tableVars, fut, answer, writeVars, writer, reader, socketVars>>

AllCalls == Calls \cup {Config}
Keys == {p[1] : p \in futures}
Done(c) == fut[c] \in {"result", "error", "cancelled"}

Init ==
  /\ phase = "listener" /\ closed = FALSE
  /\ futures = {} /\ free = <<>> /\ leaked = FALSE /\ index = [c \in AllCalls |-> 0]
  /\ fut = [c \in AllCalls |-> "none"] /\ answer = [c \in AllCalls |-> Nobody]
  /\ wtask = [c \in AllCalls |-> "none"] /\ buffered = <<>> /\ lock = Nobody
  /\ writer = "none" /\ reader = "none"
  /\ core = {} /\ inbox = <<>>

-----------------------------------------------------------------------------
(* _get_future: self._available_futures.update({callback_idx: future}) *)
GetFuture(i, c) ==
  /\ futures' = {p \in futures : p[1] # i} \cup {<<i, c>>}
  /\ index' = [index EXCEPT ![c] = i]
  /\ fut' = [fut EXCEPT ![c] = "pending"]

(* Mutant: the index is read from the list and stays there. *)
FreeAfterPeek == free

(* _get_callback_index *)
CallbackIndex ==
  IF free # <<>> THEN free[Len(free)] ELSE Cardinality(futures)

FreeAfterPop == IF free # <<>> THEN SubSeq(free, 1, Len(free) - 1) ELSE free

(* create: the socket listener calls init_callback with the path, and the
   connection to the socket is opened; the reader task starts, and the
   connection request takes index 0. *)
CreateConnects ==
  /\ phase = "listener"
  /\ phase' = "configuring"
  /\ writer' = "open" /\ reader' = "running"
  /\ GetFuture(0, Config)
  /\ wtask' = [wtask EXCEPT ![Config] = "start"]
  /\ UNCHANGED <<closed, free, leaked, answer, buffered, lock, socketVars>>

(* init_callback raises; nobody sees the exception, and create waits on. *)
ListenerFails ==
  /\ phase = "listener"
  /\ phase' = "stuck"
  /\ UNCHANGED <<closed, tableVars, fut, answer, writeVars, writer, reader, socketVars>>

(* open_unix_connection fails: close() is called before there is a writer to
   close, and create raises. *)
CreateConnectFails ==
  /\ phase = "listener"
  /\ phase' = "failed" /\ closed' = TRUE
  /\ UNCHANGED <<tableVars, fut, answer, writeVars, writer, reader, socketVars>>

(* _set_connection_configurations: create goes on when the request is written
   and its future is done. *)
CreateEnds ==
  /\ phase = "configuring" /\ wtask[Config] = "done" /\ Done(Config)
  /\ phase' = IF fut[Config] = "result" THEN "open" ELSE "failed"
  /\ UNCHANGED <<closed, tableVars, fut, answer, writeVars, writer, reader, socketVars>>

-----------------------------------------------------------------------------
(* _execute_command, execute_transaction: refused on a closed client, otherwise
   an index, a future and a task that writes the request. *)
Execute(c) ==
  /\ phase = "open" /\ fut[c] = "none"
  /\ IF closed
     THEN /\ fut' = [fut EXCEPT ![c] = "error"]
          /\ UNCHANGED <<tableVars, wtask>>
     ELSE /\ GetFuture(CallbackIndex, c)
          /\ free' = FreeAfterPop /\ UNCHANGED leaked
          /\ wtask' = [wtask EXCEPT ![c] = "start"]
  /\ UNCHANGED <<phase, closed, answer, buffered, lock, writer, reader, socketVars>>

(* The request takes an index, and then its arguments or its route are refused:
   the call raises before it has a future. *)
ExecuteRaises(c) ==
  /\ phase = "open" /\ ~closed /\ fut[c] = "none"
  /\ fut' = [fut EXCEPT ![c] = "error"]
  /\ free' = FreeAfterPop
  /\ leaked' = (leaked \/ free # <<>>)
  /\ UNCHANGED <<phase, closed, futures, index, answer, writeVars, writer, reader, socketVars>>

(* The task of the user that awaits the call is cancelled. *)
Cancel(c) ==
  /\ c \in Calls /\ fut[c] = "pending"
  /\ fut' = [fut EXCEPT ![c] = "cancelled"]
  /\ UNCHANGED <<phase, closed, tableVars, answer, writeVars, writer, reader, socketVars>>

-----------------------------------------------------------------------------
(* Mutant: what was written stays in the buffer. *)
FlushKeepsBuffer(requests) ==
  /\ buffered' = requests
  /\ core' = IF writer = "open" THEN core \cup Range(requests) ELSE core

(* The body of the loop of _write_or_buffer_request: everything buffered is
   given to the writer in one piece. *)
Flush(requests) ==
  /\ buffered' = <<>>
  /\ core' = IF writer = "open" THEN core \cup Range(requests) ELSE core

(* _write_or_buffer_request, up to the first drain. *)
WriteOrBuffer(c) ==
  /\ wtask[c] = "start"
  /\ IF lock = Nobody
     THEN /\ lock' = c
          /\ wtask' = [wtask EXCEPT ![c] = "drain"]
          /\ Flush(Append(buffered, c))
     ELSE /\ buffered' = Append(buffered, c)
          /\ wtask' = [wtask EXCEPT ![c] = "done"]
          /\ UNCHANGED <<lock, core>>
  /\ UNCHANGED <<phase, closed, tableVars, fut, answer, writer, reader, inbox>>

(* Mutant: what was buffered during the drain is not looked at. *)
DrainedOnce(c) ==
  /\ wtask[c] = "drain"
  /\ wtask' = [wtask EXCEPT ![c] = "done"]
  /\ lock' = Nobody
  /\ UNCHANGED <<buffered, core>>
  /\ UNCHANGED <<phase, closed, tableVars, fut, answer, writer, reader, inbox>>

(* The drain ends: once more if requests were buffered meanwhile, otherwise the
   lock is released. *)
Drained(c) ==
  /\ wtask[c] = "drain"
  /\ IF buffered # <<>>
     THEN Flush(buffered) /\ UNCHANGED <<wtask, lock>>
     ELSE /\ wtask' = [wtask EXCEPT ![c] = "done"]
          /\ lock' = Nobody
          /\ UNCHANGED <<buffered, core>>
  /\ UNCHANGED <<phase, closed, tableVars, fut, answer, writer, reader, inbox>>

(* Mutant: the lock is released only after a successful drain. *)
DrainRaisesKeepsLock(c) ==
  /\ wtask[c] = "drain" /\ writer # "open"
  /\ phase' = IF c = Config THEN "failed" ELSE phase
  /\ wtask' = [wtask EXCEPT ![c] = "done"]
  /\ UNCHANGED <<closed, tableVars, fut, answer, buffered, lock, writer, reader, socketVars>>

(* The connection is lost: the drain raises, and the lock is released.  create
   awaits its own write and raises too; the other writes are tasks. *)
DrainRaises(c) ==
  /\ wtask[c] = "drain" /\ writer # "open"
  /\ phase' = IF c = Config THEN "failed" ELSE phase
  /\ wtask' = [wtask EXCEPT ![c] = "done"]
  /\ lock' = Nobody
  /\ UNCHANGED <<closed, tableVars, fut, answer, buffered, writer, reader, socketVars>>

-----------------------------------------------------------------------------
(* The core: answers in any order, with a value, an error, a closing error, or
   a value the binding cannot convert; the connection request gets OK. *)
CoreAnswers(c, kind) ==
  /\ c \in core /\ writer = "open"
  /\ c = Config => kind = "value"
  /\ core' = core \ {c}
  /\ inbox' = Append(inbox, [idx |-> index[c], from |-> c, kind |-> kind])
  /\ UNCHANGED <<phase, closed, tableVars, fut, answer, writeVars, writer, reader>>

Last == IF inbox = <<>> THEN "none" ELSE inbox[Len(inbox)].kind

(* It closes the connection, with or without a closing error of index
   u32::MAX. *)
CoreCloses ==
  /\ writer = "open" /\ Last # "eof"
  /\ LET eof == [idx |-> NoIndex, from |-> Nobody, kind |-> "eof"]
     IN  \/ inbox' = Append(inbox, eof)
         \/ inbox' = inbox \o <<[eof EXCEPT !.kind = "closing"], eof>>
  /\ core' = {} /\ writer' = "lost"
  /\ UNCHANGED <<phase, closed, tableVars, fut, answer, writeVars, reader>>

-----------------------------------------------------------------------------
(* close(), up to its await: the futures of the table that are not done get an
   exception, and the writer is closed. *)
FutAfterClose(table) ==
  [c \in AllCalls |-> IF fut[c] = "pending" /\ \E p \in table : p[2] = c
                      THEN "error" ELSE fut[c]]

Close(table) ==
  /\ closed' = TRUE
  /\ fut' = FutAfterClose(table)
  /\ writer' = "closed"

UserCloses ==
  /\ phase = "open" /\ ~closed
  /\ Close(futures)
  /\ UNCHANGED <<phase, tableVars, answer, writeVars, reader, socketVars>>

(* The writer is closed for good, and the reader task is cancelled. *)
CloseEnds ==
  /\ closed /\ reader = "running"
  /\ reader' = "ended"
  /\ UNCHANGED <<phase, closed, tableVars, fut, answer, writeVars, writer, socketVars>>

(* _reader_loop takes a response off the socket, and the table's future with it:
   self._available_futures.pop(response.callback_idx, None) *)
Popped == {p \in futures : p[1] = Head(inbox).idx}

Receives ==
  /\ reader = "running" /\ inbox # <<>>
  /\ inbox' = Tail(inbox)
  /\ futures' = futures \ Popped

(* Mutant: the index is not made available again. *)
ReadAnswerKeepsIndex(c) ==
  /\ Receives
  /\ Head(inbox).kind \in {"value", "error"}
  /\ <<Head(inbox).idx, c>> \in futures /\ ~Done(c)
  /\ fut' = [fut EXCEPT ![c] = IF Head(inbox).kind = "value" THEN "result" ELSE "error"]
  /\ answer' = [answer EXCEPT ![c] = Head(inbox).from]
  /\ UNCHANGED <<phase, closed, free, leaked, index, writeVars, writer, reader, core>>

(* A response with a value or a request error, for a future that waits. *)
ReadAnswer(c) ==
  /\ Receives
  /\ Head(inbox).kind \in {"value", "error"}
  /\ <<Head(inbox).idx, c>> \in futures /\ ~Done(c)
  /\ free' = Append(free, Head(inbox).idx)
  /\ fut' = [fut EXCEPT ![c] = IF Head(inbox).kind = "value" THEN "result" ELSE "error"]
  /\ answer' = [answer EXCEPT ![c] = Head(inbox).from]
  /\ UNCHANGED <<phase, closed, leaked, index, writeVars, writer, reader, core>>

(* set_result or set_exception finds the future cancelled or closed and raises,
   or value_from_pointer raises: the reader task ends with that exception. *)
ReadRaises(c) ==
  /\ Receives
  /\ <<Head(inbox).idx, c>> \in futures
  /\ \/ Head(inbox).kind \in {"value", "error"} /\ Done(c)
     \/ Head(inbox).kind = "unreadable"
  /\ free' = Append(free, Head(inbox).idx)
  /\ reader' = "raised"
  /\ UNCHANGED <<phase, closed, leaked, index, fut, answer, writeVars, writer, core>>

(* A closing error, an index without a future, or the end of the stream: the
   client is closed, with the futures that are left in the table. *)
ReadCloses ==
  /\ Receives
  /\ Head(inbox).kind \in {"closing", "eof"} \/ Popped = {}
  /\ Close(futures')
  /\ reader' = "ended"
  /\ UNCHANGED <<phase, free, leaked, index, answer, writeVars, core>>

Answers == {"value", "error", "closing", "unreadable"}

WriteStep(c) == WriteOrBuffer(c) \/ Drained(c) \/ DrainRaises(c)
ReaderStep == ReadCloses \/ CloseEnds \/ \E c \in AllCalls : ReadAnswer(c) \/ ReadRaises(c)

Next ==
  \/ CreateConnects \/ ListenerFails \/ CreateConnectFails \/ CreateEnds
  \/ \E c \in Calls : Execute(c) \/ ExecuteRaises(c) \/ Cancel(c)
  \/ \E c \in AllCalls : WriteStep(c) \/ \E kind \in Answers : CoreAnswers(c, kind)
  \/ CoreCloses \/ UserCloses \/ ReaderStep

Spec == Init /\ [][Next]_vars

(* The event loop runs every task that can go on, and the core answers every
   request or closes the connection. *)
Fairness ==
  /\ WF_vars(CreateEnds) /\ WF_vars(ReaderStep)
  /\ \A c \in AllCalls : WF_vars(WriteStep(c))
  /\ \A c \in AllCalls : WF_vars(\E kind \in Answers : CoreAnswers(c, kind))

FairSpec == Spec /\ Fairness

-----------------------------------------------------------------------------
(* Every variable has its type, and exactly the holder of the lock drains. *)
TypeOK ==
  /\ phase \in {"listener", "stuck", "configuring", "open", "failed"}
  /\ closed \in BOOLEAN
  /\ futures \subseteq Nat \X AllCalls
  /\ free \in Seq(Nat) /\ leaked \in BOOLEAN
  /\ index \in [AllCalls -> Nat]
  /\ fut \in [AllCalls -> {"none", "pending", "result", "error", "cancelled"}]
  /\ answer \in [AllCalls -> AllCalls \cup {Nobody}]
  /\ wtask \in [AllCalls -> {"none", "start", "drain", "done"}]
  /\ buffered \in Seq(AllCalls)
  /\ lock \in AllCalls \cup {Nobody}
  /\ writer \in {"none", "open", "lost", "closed"}
  /\ reader \in {"none", "running", "ended", "raised"}
  /\ core \subseteq AllCalls
  /\ inbox \in Seq([idx : Nat, from : AllCalls \cup {Nobody}, kind : Answers \cup {"eof"}])
  /\ \A c \in AllCalls : wtask[c] = "drain" <=> lock = c

(* While the client is open, the indexes in the table and on the free list are
   disjoint, none is listed twice, and together they are 0 .. n-1: this is why
   len(self._available_futures) is a new index when the free list is empty,
   after any history of answers out of order, errors and cancellations that
   leaked no index. *)
IndexesPartition ==
  ~closed /\ ~leaked =>
    /\ \A p, q \in futures : p[1] = q[1] => p = q
    /\ \A i, j \in DOMAIN free : free[i] = free[j] => i = j
    /\ Keys \cap Range(free) = {}
    /\ Keys \cup Range(free) = 0..(Cardinality(futures) + Len(free) - 1)

(* A call gets the answer to its own request and never another one's, although
   indexes are reused and the core answers in any order, if no index leaked. *)
AnswersReachCaller ==
  ~leaked => \A c \in AllCalls : answer[c] \in {c, Nobody}

(* A call that waits has its future in the table, where a response or close()
   will find it. *)
WaitersInTable ==
  \A c \in AllCalls : fut[c] = "pending" => <<index[c], c>> \in futures

(* No call is forgotten while the reader runs, the client is open and no index
   has leaked: the reader or close() completes the future of every call. *)
NoCallForgotten ==
  ~closed /\ ~leaked /\ reader = "running" => WaitersInTable

(* A request that found the lock taken is not left in the buffer: the holder of
   the lock is still to look, or the connection is lost. *)
NothingStranded ==
  buffered # <<>> => lock # Nobody \/ writer # "open"

(* The exchange as the core sees it: a request is asked once it was given to
   the writer of an open connection. *)
Unwritten(c) == wtask[c] \in {"none", "start"} \/ c \in Range(buffered)

StatusOf(c) ==
  IF writer \in {"lost", "closed"} THEN "lost"
  ELSE IF c \in core THEN "asked"
  ELSE IF Unwritten(c) THEN "unasked" ELSE "answered"

AsExchange ==
  INSTANCE Exchange WITH Requests <- AllCalls, First <- Config,
                         open <- writer \in {"none", "open"},
                         status <- [c \in AllCalls |-> StatusOf(c)]

(* create, the write tasks and their common buffer are the wrapper's end of the
   exchange: the connection request goes first and alone, and every request is
   written once, whoever of the tasks writes it. *)
ImplementsExchange == AsExchange!Spec

(* Every call ends unless the reader task died of an exception, the client was
   closed or an index leaked. *)
CallsComplete ==
  \A c \in AllCalls :
    fut[c] = "pending" ~> Done(c) \/ closed \/ leaked \/ reader = "raised"

(* The docstring of close: "All open futures will be closed with an exception." *)
AllFuturesClosed ==
  closed => \A c \in AllCalls : fut[c] # "pending"

(* The comment of _execute_command: "Create a response future for this request
   and add it to the available futures map".  No step of another call takes it
   out of the map again: only its own response does. *)
FuturesStayInMap ==
  ~closed /\ reader = "running" => WaitersInTable
=============================================================================
