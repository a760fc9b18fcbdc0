# glide-for-redis in TLA+

This directory specifies the concurrent core of the GLIDE client library, its Python client and the tool that runs
its test clusters in TLA+, model-checks them with TLC on small instances, and proves their central invariants with
TLAPS for instances of any size. Every definition is translated from the code; `PROJECT.json` gives the lines behind
each of them.

## The system

A process that uses GLIDE contains a *wrapper* client (Python, Node, Java or C#) and the Rust *core* (`glide-core`).

- **Socket listener** (`glide-core/src/socket_listener.rs`). One listener thread per process binds a Unix domain
  socket. Each wrapper client opens a stream to it, sends one `ConnectionRequest`, waits for its answer, and then
  sends `RedisRequest`s tagged with a *callback index*. A task on a single-threaded pool serves the stream: it
  creates the core client, reads requests, and spawns a task for each. These tasks write their `Response`s, tagged
  with the same index and in any order, through one shared writer.
- **Core client** (`glide-core/src/client/`). Behind a stream is a `Client`: a standalone client with one
  *reconnecting connection* per node, or a cluster client of the redis crate. A request runs under a timeout.
- **Wrappers**. Python, Node and Java keep a table from callback index to the promise of a call, buffer requests
  while a write is in progress, and complete promises as responses arrive. C# calls the core through FFI and is
  called back from its threads.
- **Between them**: each message is preceded by its length as a varint. The Python side cuts what it reads with
  `protobuf_codec.py`, the core with a `RotatingBuffer`. A method of a Python client builds a request type and a list
  of strings, a transaction a list of those; routes and the configuration of the client travel in the same messages,
  and the core reads them back with its own tables and defaults.
- **Cluster manager** (`utils/cluster_manager.py`). A command-line tool that starts and stops the servers of a test
  cluster. It keeps no state but the file system: one folder for each cluster, in it one for each server, named after
  its port; a folder of TLS files is shared by all managers of the host.
- **Around them**: conversion of values, the container of scripts, retry strategies, logging, benchmarks, examples.

`PROJECT.json` lists all components, with the reason for each one that is not modelled, and the hazards of the code
at the lines where they bite.

## Modules

| Module | Models | Shown by |
|---|---|---|
| `Link` | what a node's connection promises to requests | abstract specification |
| `ReconnectingConnection` | one reconnecting connection, its requests, heartbeat and reconnect task | TLC, TLAPS; implements `Link` |
| `StandaloneClient` | creation, primary, reads from replicas, requests, over several nodes | TLC, TLAPS; each node used as a `Link` |
| `Exchange` | what passes between a wrapper and the core: requests asked, answered or lost | abstract specification |
| `ClientStream` | one wrapper stream inside the core | TLC, TLAPS; implements `Exchange` |
| `PythonClient` | the Python wrapper's client object, with the core as environment | TLC, TLAPS; implements `Exchange` |
| `Channel` | the queue of messages that the bytes of the socket stand for | abstract specification |
| `Framing` | varints, delimited messages and the two readers, over any fragmentation | TLC, TLAPS; implements `Channel` |
| `Commands` | every method of the Python clients and transactions, and the core's table of commands | used by `Requests` |
| `Settings` | configuration and routes, from the user's objects to the core's | used by `Requests` |
| `Requests` | clients, calls and a transaction shared by threads, over `Commands` and `Settings` | TLC, TLAPS |
| `TlsFiles` | the TLS files that cluster managers share | part of `ClusterManager` |
| `ClusterManager` | start and stop of a cluster, with its servers and other programs of the host | TLC, TLAPS |
| `*Proofs` | theorems about the module of that name; `CommandsProofs` has the lemmas about the tables that `RequestsProofs` rests on | TLAPS |
| `MC*` | the module of that name with the values or the symmetry of its constants, for TLC | |

A definition whose comment begins with "Mutant:" is a faulty variant of the one it precedes. It is part of no
specification; it records a mistake the property named in `PROJECT.json` would catch.

### Link and ReconnectingConnection

The code has a mutex around `ConnectionState`, a manual-reset event that requests wait on, a flag set when the last
clone of the client is dropped, and a task spawned by `reconnect()`. `state`, `connection`, `signal` and `dropped`
are these. `lock` shows the one critical section with a visible middle: the reconnect task sets the signal *before*
it writes the state, and requests wait on the signal without the mutex. The other critical sections are single
steps. `task`, `req` and `hb` are program counters, one value per await or lock; `taskConn`, `reqConn` and `hbConn`
the connections each has in scope. `owner` follows creation and the drop of the client's handle. The environment
breaks connections and makes the server unreachable at any time (`broken`, `network`), until `network` becomes
`"stable"`. Durations, and the counts of retries, are abstracted: a sleep or an attempt ends in its own step.

`Link` has only the link (new, up, down) and what each request has of it (out, waiting, holding). `ImplementsLink`
maps `Connected` to up, `Reconnecting` to down, and shows that the signal, the mutex and the tasks can be forgotten:
a request gets a connection only while the link is up, and the link goes down only through somebody who held a
connection.

### StandaloneClient

`nodes` grows in the order in which nodes answer, failures included, as in `buffer_unordered`; `primary` is the index
of the first master. A read with `PreferReplica` loads the shared index, looks at one node after the other, and ends
in a compare-and-exchange whose result is ignored. Each of these is a step, because requests run on several threads.
The exchange is the weak one, which may fail for no reason. The nodes are links: the module uses `up` and `down` as
`Link` does, and `NodesAreLinks` checks that each node's behaviour is one `Link` allows. Together with
`ImplementsLink` this composes the two levels. `steady` and `lastRead` are history variables for the properties.

### Exchange and Channel

The two ends of a socket are modelled apart, each with the other as its environment. `Exchange` is what they agree on:
a request is unasked, asked, answered or lost; the connection request is asked first, and the others after it was
answered; an answer is given once, and to what was asked. `ImplementsExchange` of `ClientStream` reads this off what the
wrapper wrote and the responses that are on the wire in full, that of `PythonClient` off what was given to the writer
and what the core has taken. So the steps that one module allows its environment, and that the other takes, are steps
of one specification: a wrapper sends a request at most once and none before the client is ready (`PeerSends`), the
core answers only what is at the core (`CoreAnswers`). Loss is seen by each end on its own: the core's end when the
wrapper closes, the wrapper's when its writer is lost or closed.

`Channel` is what is left of the socket when bytes are forgotten: a queue, of which a read delivers the first few
messages. It is the reason why `inbox` in the two modules is a sequence of whole messages. Its only failure, a first message
that comes in parts, is the `partial` configuration of `ClientStream`. `ImplementsChannel` maps the queue to the
messages of `sent` behind those of `got`.

### ClientStream

`phase` is where `listen_on_client_stream` is, `pc` what the main task and the request tasks do, `lock`, `acc` and
`output` the writer, `chan` and `receiver` the channel of closing reasons. All tasks of a stream run on one thread,
so a step runs from one await to the next. `try_write` takes any non-empty part of the output. A response is two
bytes, the least that a partial write can cut. The wrapper may close at any time, after which writes fail: either
`writable()` fails, and the task returns, or `try_write` fails, and the loop goes on, as the code has it.

### PythonClient

`futures` and `free` are `_available_futures` and `_available_callback_indexes`; `fut` is the state of each call's
future, `wtask` its write task, `buffered` and `lock` the buffer and the writer lock, `reader` the reader task.
Everything runs on one event loop, so a step runs from one await to the next. The core answers requests in any
order, with a value, an error, a closing error or a value that cannot be converted, and may close the stream. Calls
may be cancelled, and may raise after they took an index. `answer` (whose answer a future received) and `leaked` (a
call that raised has lost an index) are history variables. Two outcomes of the reader are kept apart: it *ended*
through `close()`, or it *raised* out of the loop, after which nobody completes futures.

### Framing

A byte has a group of value bits and a continuation bit; `Base` is the number of values of a group, 2^7 in the code.
`EncodeVarint`, `DecodeVarint` and `DecodeDelimited` are the functions of `protobuf_codec.py`, with its two ways to
fail: not enough bytes yet (partial), and a length that goes on for too long (refused). `ReaderLoop` is what
`_reader_loop` does after one read, `GetRequests` the core's function of that name; both are recursive functions on
the offset. `wire` holds the bytes on their way, `kept` those kept between two reads, `sent` and `got` are history.
One run covers both readers. For the core, `phase` also has the first read of a stream, which must hold a whole
connection request: a shorter one fails the stream, as the code has it.

### Commands, Settings and Requests

`Commands` gives every method as the request it builds: `ClusterCommand` and `StandaloneCommand` for the clients,
which share the operators of `core.py`, and `TransactionCommand`. They are separate copies in the code, and so
here; `GetRedisCommand` is the table of `socket_listener.rs` for the request types they use. A list argument is an
object of the caller: some methods of a transaction keep it (`Passes`), the others build their own (`Makes`).
The value of an expiry is a number or a time. A time is counted in microseconds, and becomes whole seconds or
milliseconds by truncation; a product of floats may fall just short of the exact one (`short`), which costs a
millisecond when the exact one is whole. A value of the wrong class raises, and a zero is left out, as in `ExpirySet`.
`Settings` follows a configuration and a route through the messages, with proto3's defaults in the middle, and the
casts of ports and slot numbers to 16 bits. `CommandRouting` and `TransactionRouting` are what `Client::send_command`
and `Client::send_transaction` make of a routing: a command without one is routed by its keys, and a transaction keeps
a routing to a single node and otherwise goes to a random node. The documentation of `exec` promises the owner of the
first key for a transaction without a route (`cluster_commands.py:70-72`); the code does not look at keys there.

`Requests` has a client that is created, calls and transactions. A single command runs without a pause up to the
write of its request, and is a step. A transaction is shared by threads: `AppendCommand` and `Clear` take its lock,
`Exec` copies its list without it, and each round of the loop of `execute_transaction` (`BuildCommand`) is a step,
between which other threads append, clear, or change a list they passed (`ListChanges`).

What the methods *should* send is defined apart from `Commands`, at the end of `Requests`: the name of the Redis
command that the documentation of the method links to, and the parameters in the order of the signature.

### TlsFiles and ClusterManager

`pc` is where the tool is, between two of its waits or subprocesses; `owner` and `booting` are the host's ports and
the daemons that have not bound theirs yet; `dirs` and `log` are the node folders and what the logs in them say. A
server found by its log or its PING may be a stranger's, since a port is all that identifies it. Every subprocess may
fail or take too long, every wait may run out, a server may end before or after it has bound its port, and one PING
in each wait for a shutdown may fail although the server is up. `mishaps` is a history variable: what happened that
the tool cannot see. Each property names the mishaps it excepts:
- *same port*: two servers of one start got the same port from `next_free_port`, and share a folder;
- *slow*: a log said nothing until the timeout, which counts as a free address;
- *crash*: a server that was up went down by itself;
- *stranger asked*: a SHUTDOWN went to a stranger that had taken the port of one of our servers;
- *stranger viewed*: the answer of such a stranger to CLUSTER SLOTS was taken for that of our server.

After the messages in the logs a start in cluster mode asks one server after the other for its topology view
(`viewed`, `asks`). A view counts when it names the host as often as there are servers; otherwise, and when the answer takes too
long, it is asked for again until the retries run out, and an error of `redis-cli` ends the start at once. A server of
the cluster may name any number of hosts up to the number of servers there are, which is smaller than the length of the
list when two of them share a port.

In `TlsFiles` one manager looks for the files, or generates them, beside another one that does the same. `waitedOut`
marks that a file was missing, or too old, for the whole of its wait.

## Runs

| Run | Instance | Shows |
|---|---|---|
| `reconnecting` | 2 requests, 2 task identities, 3 connections, heartbeat | one reconnect task; signal and state agree; no abandoned waiter; `ImplementsLink`; waiters are served, and tasks of a dropped client end, once faults stop |
| `reconnecting_signal_reset` | 2 requests | *violation*: a late error of an old connection discards the new one |
| `standalone_safety` | 3 nodes, 2 requests | the primary is a master; no connected replica is skipped; reads alternate; `NodesAreLinks` |
| `stream` | 3 requests | whole responses on the wire; no response stranded; every request answered while the wrapper listens; `ImplementsExchange` |
| `stream_writers_end` | 2 requests | *violation*: a task whose `try_write` failed never ends |
| `stream_ends` | 2 requests | *violation*: the serving task waits for ever on its own full channel |
| `python` | connection request and 2 calls | indexes partition; answers reach their callers; no call forgotten; nothing stays buffered; calls complete; `ImplementsExchange` |
| `python_close` | connection request and 2 calls | *violation*: a call answered by a closing error is not completed by `close()` |
| `python_malformed_call` | connection request and 4 calls | *violation*: an index lost by a call that raised makes a later call replace a future in flight |
| `framing` | 3 of 4 messages of up to 5 bytes, one bit to a group | messages arrive whole, in order, none held back, for every fragmentation; every length below 2^5 is read back; `ImplementsChannel` |
| `requests` | every method of each client and of a transaction, every kind of configuration and of route; 2 threads that share a transaction | commands as documented, times converted; a transaction as of one instant; routes and configuration as asked |
| `cluster_manager` | 3 ports, 4 kinds of start, 2 stops, 2 ports taken by others | a server that runs has its folder; stopped means down; servers returned are the tool's own; the cluster is up, with no port twice; TLS key before use; every run ends |

The violations are disagreements between the code and its own comments or docstrings; `PROJECT.json` quotes them
under `findings`. The passing properties are stated for what the code does promise: for instance `CallsComplete`
excepts a reader that raised, a closed client and a leaked index, each of which ends the promise in the code.

**Bounds.** The four models of the core and the Python client object have no step counter: apart from the finite
sets of actors the state spaces are explored completely. Requests of `ReconnectingConnection` and
`StandaloneClient` return to idle and run again, so two of them stand for any sequence of requests with two at a
time. Two requests are the least that can disagree about which connection failed; a second task identity is what a
second reconnect task would need; with three connections one request can hold a connection that was replaced, and
another its successor, while a third is made. The proofs cover any number. Three nodes are a primary and two replicas, the least for a round robin. Three requests let one write, one wait in
`accumulated_outputs` and one arrive during the second pass. Two Python calls beside the connection request reuse
its index and each other's; the leak needs four. `NoIndex` stands for `u32::MAX`, which no request has. Requests,
addresses, calls and threads are interchangeable, so symmetry is used, in runs without temporal properties
other than step conditions.

In `framing` one bit to a group makes lengths of one to five bytes out of small messages, some of whose bytes look
like the start of a length; a read takes up to 20 bytes, more than three messages, so every way to cut the stream
occurs. In `requests` a *session* fixes what one behaviour is about: most of them append or send one call, and so
check each method once with and once without its optional parameters, with distinct arguments; one has two threads,
three appends and two executions, the least for an append and a clear within one loop. Ports and slot numbers lie on
both sides of 2^16, times below and above one unit. In `cluster_manager` the kinds of start are two shards on ports
the tool chooses, a primary and a replica on given ports, a single server with TLS on a given port, and a call with a
wrong number of ports; the third port, and two taken by strangers, leave room for a launch anew and for running out of
ports. `stop_server` has one retry instead of three (`StopRetries`), and a view is asked for again once instead of 60
times (`ViewRetries`): a further one repeats the step of the first. `MaxStops`, `MaxTaken`, `MaxMessages`, `maxAppends` and `maxExecs` bound what is
otherwise endless.

**Deadlock** is not checked: a dropped client, a closed stream, a closed wrapper, a finished run of the tool and a
stream of which everything was read rightly stop.

**Fairness.** Weak fairness of the steps of each task stands for an executor (tokio, asyncio) that polls every task
that can go on, and for network operations that end in an answer or an error. In `ReconnectingConnection` it covers
the reconnect task, the heartbeat and a request's own steps; nothing obliges a user to start or release anything, a
request to time out, or the network to change. `network = "stable"` in the liveness properties states when
they are claimed. In `ClientStream` a client answers every request, because `run_with_timeout` bounds it, and a
wrapper that keeps its end open reads. In `PythonClient` the core answers every request or closes. In `Framing`
a reader that awaits bytes gets some of those that were sent. In `ClusterManager` a run of the tool takes its steps,
one of which is always the end of its time: nothing is assumed of the servers or the host. No strong fairness is used.

## Proofs

Theorems hold for any sets of requests, tasks, connections, calls and threads, finite or not. The assumptions are the
named ones of each module, and TLC evaluates them on every run:
- `ConstantsAssumption`: the special values (nobody, no connection, the main task) are not members of the sets they
  are added to, and the addresses of a `StandaloneClient` are finitely many and not none;
- `ManagerAssumption`: a host has finitely many ports, and a start has arguments of the right types;
- `RequestsAssumption`: a configuration, a route and a call are objects that Python can make. A call (`IsCall`) names a
  method and gives each of its parameters, of which only the optional ones may be `None`; `None` is no string, number
  or sub-message, which holds in Python by type. A port is any natural number and a slot number any integer. The list
  that a caller keeps has two contents, before and after it changes;
- `FramingAssumption`: a message is shorter than `Mask` (2^32), and the varint of such a length has no more groups
  than a reader takes. In the code that is five groups of seven bits; TLC computes it for its instance.

**`ReconnectingConnectionProofs`** proves `TypeOK`, `SingleReconnectTask`, `SignalMatchesState`,
`NoAbandonedWaiter`, `TaskOwnsState` and `ImplementsLink`. The inductive invariant `IInv` adds to these what each of
them forgets:
- *LockHeldBySetter*: the mutex is held across a step only by the task that has set the signal. Without it
  `SignalMatchesState` is lost between the two halves of the installation.
- *NotSharedYet*: before creation ends, nobody but the creator sees the connection.
- *UsersHoldClient*: requests keep the client from being dropped. This is why the reconnect task of a connection
  that somebody waits for does not give up.
- *ReconnectingHasTask*: `Reconnecting` without a task occurs only after the drop.

`NoAbandonedWaiter` then follows: a waiter means not dropped, so connected or with a task at work. The refinement is
proved action by action from `IInv`; each action maps to one action of `Link` or to a stutter.

**`StandaloneClientProofs`** proves `TypeOK`, `PrimaryIsMaster`, `NoReplicaSkipped` and `ReadsAlternate`, in three
layers, and `NodesAreLinks`:
- *NodesInv*: no address is twice in the list while it grows, the primary's index points at a master, and a request
  runs only while the client is served. The index never moves afterwards, which is why it may be used without a check.
- *ScanInv*: a scan that has looked at *k* nodes has met no replica that was up all along, so every such replica is at
  least *k* places away; the one it finds is exactly *k* places away. Distances are taken modulo the number of nodes;
  `GapOf` and `NextOf` replace the modulus by the two cases it stands for.
- *ReadInv*: after a read that counts, `latest_read_replica_index` is the place of its replica, and every scan that
  runs has loaded it. That replica is then the farthest from where the next scan begins.

`NodesAreLinks` is proved for each node: a step of a request changes the use of at most one node, in one of the four
ways `Link` knows.

**`PythonClientProofs`** proves `TypeOK`, `NothingStranded`, `IndexesPartition`, `NoCallForgotten` and
`AnswersReachCaller`:
- *PlaceInv*: a request is to be written, in the buffer, at the core or answered, and in one of these places only; an
  answer carries the index its request was given.
- *TableInv*: until an index leaks, no two futures have the same key, the keys and the free list partition `0 .. n-1`
  while the client is open, and every request in flight has its future in the table while the reader lives. The
  partition makes the next index a new one; then the key of an answer belongs to one call, and it is the caller.

`leaked` is part of the statements because the code loses the property there: see `python_malformed_call`.

`ImplementsExchange` holds with leaked indexes too. From *PlaceInv* a request that a task gives to the writer is not at
the core and was not answered, so it is asked once. *FirstInv* has the order: no call begins before `create` has
returned, and it returns a client only when the future of the connection request has a result. That this result is the answer to the connection
request, and no other message, is where the order comes from: nothing else was asked.

**`ClientStreamProofs`** proves `TypeOK`, `NothingStranded` and `WireIsWholeResponses`, in two layers. `IInv` has the
types, who holds the lock, and that a request in the socket has no task yet. With it, a response is written by one
task and once. `WInv` then speaks of the whole stream `wire \o output \o acc`: it consists of whole responses, none
of them twice, until a write has failed, after which nothing more reaches the wire. A write moves bytes from
`output` to `wire` and leaves the stream as it is; an answer extends it by a whole response; so the wire, a prefix,
is whole responses with the last perhaps cut. The lemmas about prefixes and extensions (`WholePrefix`, `WholeGrows`)
are stated once.

`ImplementsExchange` follows from these and *ConfigFirst* (nothing is made of a configuration that was not sent). The bytes
that a write adds to the wire complete answers that were in the stream before; a response enters the stream only through
the task of its request, which a request from the socket started. Since no response is in the stream twice,
an answer that is complete is never completed again.

**`ClusterManagerProofs`** proves `TypeOK`, `KeyWrittenBeforeUse`, `ServersHaveFolders`, `StoppedMeansDown`,
`ReadyServersAreOurs` and `ClusterIsUp`, for any set of ports, any arguments and any bounds, from `ManagerAssumption`. `TypeInv` adds to the types that there is a
server to launch, and a port for it, whenever the tool is about to launch one, and that a wait for a shutdown has
PINGs left. `TlsInv` has the order in which both managers write the files, and that a manager which has not waited in
vain only ever looked for the first file of its list; that file is written after the key. `ServerInv` speaks of
behaviours in which no port was used twice and no stranger was asked to shut down:
- *LaunchedInv*: a server that may run has its folder, is the only one on its port, and its log does not say that the
  address is in use. The last part is needed because the tool removes the folder of a server whose log says so.
- *StopInv*: while a stop runs, every server that may run is still on its list. A server leaves the list after two
  failed PINGs; `verify` and `blip` together say that the first of them came from a server that was down, unless it
  was the one false failure of this wait, in which case the second was not.

`StoppedMeansDown` follows when the list is empty.

`StartInv` is about a start that runs or has returned:
- *ListsInv* and *CountInv*: the node folders are those of the servers in the lists of `create_servers`, each in one
  place of one list, and together with the servers still to launch they are as many as were asked for. A relaunch
  takes a folder away before it makes another; this is why the count is kept. It needs that no port was used twice.
- *SettledInv*: once the logs were waited for every folder has its message. `create_cluster` waits for folders and
  returns servers; `ListsInv` is what connects the two.
- *ViewInv*: if a view was counted, and none of a stranger, the servers have distinct ports. A server of the cluster
  names at most as many hosts as there are ports in the list; that this is the length of the list only when no port is
  twice in it is the pigeonhole principle (`DistinctPorts`).
- *ReadyInv*: a log that says "Ready" is that of a server which has the port, unless a server went down or a silent log
  was taken for a free address.

**`RequestsProofs`** proves `TypeOK`, `ExecutedAtOneInstant`, `RoutedAsAsked`, `ConfiguredAsAsked` and
`SentAsDocumented`. The first two need `RequestsInv`: an execution that runs has built a prefix of its copy, and the calls of the copy are those that the
transaction had at a moment this execution has seen. An append or a clear of another thread adds a moment and leaves
the copy alone; the loop of `execute_transaction` extends the prefix. The other two are statements about the
conversions: each kind of route, and each field of a configuration, is followed through the message to what the core
makes of it. There `RequestsInv` says only that the client, and the last routing, came about by these conversions, and
(*ConnectedInv*) that nothing is sent before the client exists, whose mode decides whether a routing is used.

`SentAsDocumented` compares two tables with a row for each method, for any arguments; `CommandsProofs` has the lemmas
about the tables. `Fits` says of one request that its
type is that of the documented command and its arguments the parameters in order, a time as the whole units that are
over, except for a list that the
request shares with the caller. Methods with the same parameters are one lemma (`KeyFits`, `RangeFits`, ...); the chains
of definitions in `Commands` are followed one link at a time (`TransactionFits`, `StandaloneFits`, `ClusterFits`). `FittingIsSent` then
goes through the core's table and adds the list as it is at that moment. `SentInv` carries this through the life of
a transaction: every entry of the transaction and of a copy under way fits, and every command that was built or sent is as
documented for a content that the list had since the call. A list changes once, which is why a command
built before and one built after the change are both within the property.

**`FramingProofs`** proves `TypeOK`, `MessagesInOrder`, `NothingHeldBack`, `FramesRoundTrip` and `ImplementsChannel`,
for any messages, any sizes of reads, and any base and mask. It goes from the bytes up:
- *Varints* (`VarintRoundTrip`): the encoding of a number ends at its only group without the continuation bit, and
  `Value` of it is the number. So `DecodeVarint` at the start of one yields the number when all of it is there
  (`DecodeVarintWhole`), and is partial otherwise (`DecodeVarintPart`).
- *Frames* (`DecodeDelimitedWhole`, `DecodeDelimitedPart`): the same for a message behind its length.
- *Loops* (`ReadersRead`, `LoopRuns`): both readers are loops with the equations of `IsReader`; such a loop passes on
  the frames that are whole and keeps the rest.
- *Streams* (`ReadPiece`, `SendPiece`): all bytes ever sent lie in one stream, of which `Laid` gives the offset of each
  message. `ReadTo` says that the bytes kept follow the messages passed on, that the bytes on the wire follow those,
  and that the bytes kept do not reach the end of the next message. The inductive invariant `FramingInv` is that such a
  stream exists unless the reader has failed.
- *The queue* (`PassesDelivers`, `ConfigurationFails`): a read passes on the messages up to some *k*, which are the head
  of the queue; a first read that yields none was of a single message.

What these recursive functions compute is proved by induction in first-order form: a set of numbers that contains 0
and the successor of each member is `Nat` (`SetInduction`, from the existence of a least element), and a function whose
equation refers to smaller numbers only exists (`Recursion`).

**Only model-checked**: liveness (`WaitersServed`, `BackgroundTasksEnd`, `RequestsAnswered`, `CallsComplete`,
`MessagesArrive`, `RunsEnd`), which rests on fairness and `ENABLED` and is out of the prover's reach.

**Only proved**: `MessagesInOrder`, which follows from `ImplementsChannel`, and the type invariants of
`ReconnectingConnection` and `Framing`, which their other properties rest on; no run repeats them.

## Not modelled

- The cluster client is the redis crate's, which is not in this tree.
- Protobuf encoding: generated code. Messages are records, and bytes in `Framing`.
- Ownership of the leaked replies whose pointers cross the socket, and the conversion of replies to the types that
  commands promise: what the server answers is not part of any model.
- Binding of the socket file by several listeners, and the container of scripts: small protocols between processes
  or objects of the user, apart from the path of a request.
- The Node, Java and C# clients. Node's has the shape of the Python client; those of Java and C# depend on the
  threads and the memory model of their runtimes.
- Logging, benchmarks and examples: no effect on the state of a client.
- A PING that is never answered. The code gives it no timeout; the models assume it ends.
- Client creation that fails after some nodes exist: `ReconnectingConnection` has it (`CreationFails`), and
  `BackgroundTasksEnd` speaks only of dropped clients, because the code marks no node as dropped in that case.
- Requests to all nodes of a standalone client (`send_request_to_all_nodes`).
- A response that cannot be encoded (`socket_listener.rs:252-259`). It would take with it what other tasks have put in
  `accumulated_outputs`; no field is required (proto3), so only a message beyond the size limit of protobuf is refused, and responses hold a pointer or an error text.
- Times that a float does not hold to the microsecond, and the floats themselves: a product is exact, or falls short.
- Of the cluster manager: `stop --prefix`, which stops several clusters in turn; contents of TLS files; durations.

Properties except, by name, what the code does not do:
- `SentAsDocumented`: the count of a client's `rpop`, and an expiry of less than one unit, are not sent;
- `RoutedAsAsked`: a transaction without a route, or with one to many nodes, goes to a random node, contrary to the
  documentation of `exec`, and a slot number beyond 16 bits is another slot;
- `ConfiguredAsAsked`: a zero stands for a default, and a port beyond 16 bits is another port;
- `KeyWrittenBeforeUse`: the server's certificate may be missing when servers start with it;
- `ReadyServersAreOurs`, `ClusterIsUp`, `ServersHaveFolders` and `StoppedMeansDown`: the mishaps above.

`hazards` in `PROJECT.json` gives the lines.
