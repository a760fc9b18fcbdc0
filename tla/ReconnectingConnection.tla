----------------------- MODULE ReconnectingConnection -----------------------
(***************************************************************************)
(* One ReconnectingConnection of the core's standalone client              *)
(* (glide-core/src/client/reconnecting_connection.rs) together with the    *)
(* tasks that use it: requests (send_request and send_pipeline of          *)
(* standalone_client.rs), the optional heartbeat task, and the reconnect   *)
(* task that reconnect() spawns.                                           *)
(*                                                                         *)
(* A step of a task runs between two points where another thread may see   *)
(* its effects: an await, or a lock or unlock of the state mutex.  The     *)
(* identity of a MultiplexedConnection is a member of Conns; an identity   *)
(* nobody holds any more may be used again for a new connection.           *)
(***************************************************************************)
EXTENDS FiniteSets

CONSTANTS
  Requests,   \* tasks that run send_request on this connection
  Tasks,      \* spawned reconnect tasks
  Conns,      \* identities of server connections
  None,       \* no connection; nobody holds the mutex
  Heartbeat   \* TRUE when built with cfg(standalone_heartbeat)

ASSUME ConstantsAssumption ==
  /\ Heartbeat \in BOOLEAN
  /\ None \notin Conns
  /\ None \notin Tasks

VARIABLES
  state,       \* ConnectionState, the mutex-protected enum
  connection,  \* the payload of ConnectionState::Connected
  lock,        \* the reconnect task inside the mutex with the state half written
  signal,      \* connection_available_signal
  dropped,     \* client_dropped_flagged
  owner,       \* create_connection, then the client that holds the result
  task,        \* program counter of each reconnect task
  taskConn,    \* the new connection a reconnect task has in scope
  req,         \* program counter of each request
  reqConn,     \* the clone of the connection a request sends on
  hb,          \* program counter of the heartbeat task
  hbConn,      \* the clone of the connection a heartbeat pings
  broken,      \* connections whose socket is gone
  network      \* "up", "down", or "stable": up, and no fault happens any more

connVars == <<state, connection, lock, signal>>
taskVars == <<task, taskConn>>
reqVars  == <<req, reqConn>>
hbVars   == <<hb, hbConn>>
envVars  == <<broken, network>>
vars == <<connVars, dropped, owner, taskVars, reqVars, hbVars, envVars>>

ConnStates == {"Connected", "Reconnecting", "InitializedDisconnected"}

(* Clones of connections that some task or the state still holds. *)
HeldConns == {connection, hbConn} \cup {reqConn[r] : r \in Requests}
                                  \cup {taskConn[t] : t \in Tasks}

Reachable == network # "down"

Init ==
  /\ state = "InitializedDisconnected" /\ connection = None
  /\ lock = None /\ signal = TRUE
  /\ dropped = FALSE /\ owner = "creating"
  /\ task = [t \in Tasks |-> "none"] /\ taskConn = [t \in Tasks |-> None]
  /\ req = [r \in Requests |-> "idle"] /\ reqConn = [r \in Requests |-> None]
  /\ hb = "off" /\ hbConn = None
  /\ broken = {} /\ network \in {"up", "down"}

-----------------------------------------------------------------------------
(* get_multiplexed_connection: a new socket to a reachable server. *)
NewConnection(c) ==
  /\ Reachable
  /\ c \in Conns \ HeldConns
  /\ broken' = broken \ {c}
  /\ UNCHANGED network

(* Mutant: reconnect() without its early return. *)
ReconnectAlways ==
  /\ lock = None
  /\ signal' = FALSE
  /\ state' = "Reconnecting" /\ connection' = None
  /\ \E t \in Tasks : task[t] = "none" /\ task' = [task EXCEPT ![t] = "check"]
  /\ UNCHANGED <<lock, taskConn>>

(* Mutant: reconnect() that leaves the signal set. *)
ReconnectKeepsSignal ==
  /\ lock = None
  /\ \/ /\ state = "Reconnecting"
        /\ UNCHANGED <<connVars, taskVars>>
     \/ /\ state # "Reconnecting"
        /\ state' = "Reconnecting" /\ connection' = None
        /\ \E t \in Tasks : task[t] = "none" /\ task' = [task EXCEPT ![t] = "check"]
        /\ UNCHANGED <<lock, signal, taskConn>>

(* reconnect(): under the mutex, nothing when a reconnection is under way;
   otherwise the signal is reset, the old connection is discarded and a
   reconnect task is spawned. *)
Reconnect ==
  /\ lock = None
  /\ \/ /\ state = "Reconnecting"
        /\ UNCHANGED <<connVars, taskVars>>
     \/ /\ state # "Reconnecting"
        /\ signal' = FALSE
        /\ state' = "Reconnecting" /\ connection' = None
        /\ \E t \in Tasks : task[t] = "none" /\ task' = [task EXCEPT ![t] = "check"]
        /\ UNCHANGED <<lock, taskConn>>

(* create_connection, Ok: the retries of the strategy end in a connection. *)
CreateOk(c) ==
  /\ owner = "creating"
  /\ NewConnection(c)
  /\ state' = "Connected" /\ connection' = c
  /\ owner' = "built"
  /\ UNCHANGED <<lock, signal, dropped, taskVars, reqVars, hbVars>>

(* create_connection, Err: the object is built disconnected and reconnects
   before anybody else sees it. *)
CreateErr ==
  /\ owner = "creating"
  /\ Reconnect
  /\ owner' = "built"
  /\ UNCHANGED <<dropped, reqVars, hbVars, envVars>>

(* create_client keeps the node: the heartbeat starts, and the DropWrapper
   that will mark the node as dropped is built. *)
ClientCreated ==
  /\ owner = "built"
  /\ owner' = "ready"
  /\ hb' = IF Heartbeat THEN "sleep" ELSE "off"
  /\ UNCHANGED <<connVars, dropped, taskVars, reqVars, hbConn, envVars>>

(* create_client returns an error (no primary among the nodes) or is itself
   dropped by the creation timeout: the node goes without being marked. *)
CreationFails ==
  /\ owner = "built"
  /\ owner' = "abandoned"
  /\ UNCHANGED <<connVars, dropped, taskVars, reqVars, hbVars, envVars>>

-----------------------------------------------------------------------------
(* Mutant: the flag is set when the user's handle goes, requests or not. *)
MarkAsDroppedEarly(stillActive) ==
  dropped' = (dropped \/ owner' = "released")

(* Every request holds a clone of the client; dropping the last clone runs
   DropWrapper::drop, which calls mark_as_dropped. *)
MarkAsDropped(stillActive) ==
  dropped' = (dropped \/ (owner' = "released" /\ stillActive = {}))

Active == {r \in Requests : req[r] # "idle"}

StartRequest(r) ==
  /\ owner = "ready" /\ req[r] = "idle"
  /\ req' = [req EXCEPT ![r] = "wait"]
  /\ UNCHANGED <<connVars, dropped, owner, taskVars, reqConn, hbVars, envVars>>

(* get_connection: connection_available_signal.wait().await *)
WaitSignal(r) ==
  /\ req[r] = "wait" /\ signal
  /\ req' = [req EXCEPT ![r] = "woken"]
  /\ UNCHANGED <<connVars, dropped, owner, taskVars, reqConn, hbVars, envVars>>

(* get_connection: try_get_connection under the mutex, wait again on None. *)
TryGetConnection(r) ==
  /\ req[r] = "woken" /\ lock = None
  /\ \/ /\ state = "Connected"
        /\ req' = [req EXCEPT ![r] = "sent"]
        /\ reqConn' = [reqConn EXCEPT ![r] = connection]
     \/ /\ state # "Connected"
        /\ req' = [req EXCEPT ![r] = "wait"]
        /\ UNCHANGED reqConn
  /\ UNCHANGED <<connVars, dropped, owner, taskVars, hbVars, envVars>>

FinishRequest(r) ==
  /\ req' = [req EXCEPT ![r] = "idle"]
  /\ reqConn' = [reqConn EXCEPT ![r] = None]
  /\ UNCHANGED owner
  /\ MarkAsDropped(Active \ {r})

(* send_packed_command answers with a value or an error other than a
   disconnect. *)
Reply(r) ==
  /\ req[r] = "sent" /\ reqConn[r] \notin broken /\ Reachable
  /\ FinishRequest(r)
  /\ UNCHANGED <<connVars, taskVars, hbVars, envVars>>

(* send_packed_command returns an error that is_connection_dropped. *)
SendFails(r) ==
  /\ req[r] = "sent" /\ reqConn[r] \in broken
  /\ req' = [req EXCEPT ![r] = "failed"]
  /\ UNCHANGED <<connVars, dropped, owner, taskVars, reqConn, hbVars, envVars>>

(* The error path of send_request and send_pipeline. *)
RequestReconnects(r) ==
  /\ req[r] = "failed"
  /\ Reconnect
  /\ FinishRequest(r)
  /\ UNCHANGED <<hbVars, envVars>>

(* Mutant: a timeout is taken for a disconnect. *)
TimeoutReconnects(r) ==
  /\ req[r] \in {"wait", "sent"}
  /\ Reconnect
  /\ FinishRequest(r)
  /\ UNCHANGED <<hbVars, envVars>>

(* run_with_timeout drops the future of a request at one of its awaits. *)
Timeout(r) ==
  /\ req[r] \in {"wait", "sent"}
  /\ FinishRequest(r)
  /\ UNCHANGED <<connVars, taskVars, hbVars, envVars>>

(* The client's own handle is dropped. *)
Release ==
  /\ owner = "ready"
  /\ owner' = "released"
  /\ MarkAsDropped(Active)
  /\ UNCHANGED <<connVars, taskVars, reqVars, hbVars, envVars>>

-----------------------------------------------------------------------------
(* The reconnect task: for sleep_duration in internal_retry_iterator() ... *)
TaskCheck(t) ==
  /\ task[t] = "check"
  /\ task' = [task EXCEPT ![t] = IF dropped THEN "none" ELSE "connect"]
  /\ UNCHANGED <<connVars, dropped, owner, taskConn, reqVars, hbVars, envVars>>

TaskConnects(t) ==
  /\ task[t] = "connect"
  /\ \E c \in Conns : NewConnection(c) /\ taskConn' = [taskConn EXCEPT ![t] = c]
  /\ task' = [task EXCEPT ![t] = "ping"]
  /\ UNCHANGED <<connVars, dropped, owner, reqVars, hbVars>>

(* Mutant: the first failed attempt ends the task. *)
TaskConnectGivesUp(t) ==
  /\ task[t] = "connect" /\ ~Reachable
  /\ task' = [task EXCEPT ![t] = "none"]
  /\ UNCHANGED <<connVars, dropped, owner, taskConn, reqVars, hbVars, envVars>>

(* An unreachable server; the attempt ends by an error or by its timeout. *)
TaskConnectFails(t) ==
  /\ task[t] = "connect" /\ ~Reachable
  /\ task' = [task EXCEPT ![t] = "sleep"]
  /\ UNCHANGED <<connVars, dropped, owner, taskConn, reqVars, hbVars, envVars>>

(* The connection stays in scope while the task sleeps. *)
TaskPingFails(t) ==
  /\ task[t] = "ping" /\ taskConn[t] \in broken
  /\ task' = [task EXCEPT ![t] = "sleep"]
  /\ UNCHANGED <<connVars, dropped, owner, taskConn, reqVars, hbVars, envVars>>

(* PING answered: the task takes the mutex and sets the signal, which a
   waiting request sees at once, ... *)
TaskSetsSignal(t) ==
  /\ task[t] = "ping" /\ taskConn[t] \notin broken /\ Reachable
  /\ lock = None
  /\ lock' = t /\ signal' = TRUE
  /\ task' = [task EXCEPT ![t] = "set"]
  /\ UNCHANGED <<state, connection, dropped, owner, taskConn, reqVars, hbVars, envVars>>

(* Mutant: the loop goes on after a success. *)
TaskInstallsAndLoops(t) ==
  /\ task[t] = "set"
  /\ state' = "Connected" /\ connection' = taskConn[t]
  /\ lock' = None
  /\ task' = [task EXCEPT ![t] = "check"]
  /\ taskConn' = [taskConn EXCEPT ![t] = None]
  /\ UNCHANGED <<signal, dropped, owner, reqVars, hbVars, envVars>>

(* ... then writes the state, unlocks and returns. *)
TaskInstalls(t) ==
  /\ task[t] = "set"
  /\ state' = "Connected" /\ connection' = taskConn[t]
  /\ lock' = None
  /\ task' = [task EXCEPT ![t] = "none"]
  /\ taskConn' = [taskConn EXCEPT ![t] = None]
  /\ UNCHANGED <<signal, dropped, owner, reqVars, hbVars, envVars>>

(* The sleep ends, and with it the iteration and what it had in scope. *)
TaskWakes(t) ==
  /\ task[t] = "sleep"
  /\ task' = [task EXCEPT ![t] = "check"]
  /\ taskConn' = [taskConn EXCEPT ![t] = None]
  /\ UNCHANGED <<connVars, dropped, owner, reqVars, hbVars, envVars>>

-----------------------------------------------------------------------------
(* Mutant: the heartbeat does not look at the flag. *)
HeartbeatWakesAlways ==
  /\ hb = "sleep" /\ lock = None /\ state = "Connected"
  /\ hb' = "ping" /\ hbConn' = connection
  /\ UNCHANGED <<connVars, dropped, owner, taskVars, reqVars, envVars>>

(* start_heartbeat: after the sleep, stop when the client was dropped, skip
   the beat while there is no connection, otherwise send a PING. *)
HeartbeatWakes ==
  /\ hb = "sleep"
  /\ \/ /\ dropped
        /\ hb' = "stopped"
        /\ UNCHANGED hbConn
     \/ /\ ~dropped /\ lock = None /\ state = "Connected"
        /\ hb' = "ping" /\ hbConn' = connection
  /\ UNCHANGED <<connVars, dropped, owner, taskVars, reqVars, envVars>>

HeartbeatAnswered ==
  /\ hb = "ping" /\ hbConn \notin broken /\ Reachable
  /\ hb' = "sleep" /\ hbConn' = None
  /\ UNCHANGED <<connVars, dropped, owner, taskVars, reqVars, envVars>>

HeartbeatReconnects ==
  /\ hb = "ping" /\ hbConn \in broken
  /\ Reconnect
  /\ hb' = "sleep" /\ hbConn' = None
  /\ UNCHANGED <<dropped, owner, reqVars, envVars>>

-----------------------------------------------------------------------------
(* The network: a socket breaks, the server goes and comes back, and at some
   point faults may stop for good. *)
Break(c) ==
  /\ network # "stable"
  /\ c \in HeldConns \ (broken \cup {None})
  /\ broken' = broken \cup {c}
  /\ UNCHANGED <<connVars, dropped, owner, taskVars, reqVars, hbVars, network>>

NetworkChanges ==
  /\ network # "stable"
  /\ network' \in {"up", "down", "stable"} \ {network}
  /\ UNCHANGED <<connVars, dropped, owner, taskVars, reqVars, hbVars, broken>>

RequestStep(r) ==
  \/ StartRequest(r) \/ WaitSignal(r) \/ TryGetConnection(r)
  \/ Reply(r) \/ SendFails(r) \/ RequestReconnects(r) \/ Timeout(r)

TaskStep(t) ==
  \/ TaskCheck(t) \/ TaskConnects(t) \/ TaskConnectFails(t) \/ TaskPingFails(t)
  \/ TaskSetsSignal(t) \/ TaskInstalls(t) \/ TaskWakes(t)

HeartbeatStep == HeartbeatWakes \/ HeartbeatAnswered \/ HeartbeatReconnects

Next ==
  \/ \E c \in Conns : CreateOk(c) \/ Break(c)
  \/ CreateErr \/ ClientCreated \/ CreationFails \/ Release
  \/ \E r \in Requests : RequestStep(r)
  \/ \E t \in Tasks : TaskStep(t)
  \/ HeartbeatStep
  \/ NetworkChanges

Spec == Init /\ [][Next]_vars

(* The runtime keeps polling woken tasks, and a wait on the network ends with
   an answer or an error; nothing obliges a user to send or to release, a
   request to time out, or the network to fail or recover. *)
Fairness ==
  /\ \A t \in Tasks : WF_vars(TaskStep(t))
  /\ \A r \in Requests : WF_vars(WaitSignal(r) \/ TryGetConnection(r) \/ Reply(r)
                                 \/ SendFails(r) \/ RequestReconnects(r))
  /\ WF_vars(HeartbeatStep)

FairSpec == Spec /\ Fairness

-----------------------------------------------------------------------------
(* Every variable has its type, and a connection is held exactly where the code
   has one in scope: in the Connected state, in a request that sends, in a
   reconnect task that tests it, in a heartbeat that pings. *)
TypeOK ==
  /\ state \in ConnStates
  /\ connection \in Conns \cup {None}
  /\ lock \in Tasks \cup {None}
  /\ signal \in BOOLEAN /\ dropped \in BOOLEAN
  /\ owner \in {"creating", "built", "ready", "released", "abandoned"}
  /\ task \in [Tasks -> {"none", "check", "connect", "ping", "set", "sleep"}]
  /\ taskConn \in [Tasks -> Conns \cup {None}]
  /\ req \in [Requests -> {"idle", "wait", "woken", "sent", "failed"}]
  /\ reqConn \in [Requests -> Conns \cup {None}]
  /\ hb \in {"off", "sleep", "ping", "stopped"}
  /\ hbConn \in Conns \cup {None}
  /\ broken \subseteq Conns
  /\ network \in {"up", "down", "stable"}
  /\ connection # None <=> state = "Connected"
  /\ \A r \in Requests : reqConn[r] # None <=> req[r] \in {"sent", "failed"}
  /\ \A t \in Tasks : /\ task[t] \in {"ping", "set"} => taskConn[t] # None
                      /\ taskConn[t] # None => task[t] \in {"ping", "set", "sleep"}
  /\ hbConn # None <=> hb = "ping"

Running == {t \in Tasks : task[t] # "none"}

(* However many requests and heartbeats report the same disconnect, and
   whenever they do, reconnect() never leaves two reconnect tasks running. *)
SingleReconnectTask ==
  \A t, u \in Running : t = u

(* With the mutex free and the connection handed to its client, the signal is
   set exactly when the state holds a connection: get_connection never spins
   on a set signal, and never sleeps through an available connection.  It also
   says that is_connected(), which only tests for Reconnecting, never takes the
   initial disconnected state for a connected one. *)
SignalMatchesState ==
  lock = None /\ owner # "creating" => (signal <=> state = "Connected")

(* A request inside get_connection is never left behind: there is a connection
   to be had, or a reconnect task that works on one.  The reconnect task of a
   dropped client gives up with the state still Reconnecting, so this rests on
   requests keeping their client alive. *)
NoAbandonedWaiter ==
  \A r \in Requests :
    req[r] \in {"wait", "woken"} => state = "Connected" \/ Running # {}

(* A reconnect task never replaces a connection: from the moment reconnect()
   spawned it until it installs its own, the state holds none, so no live
   connection is lost and no clone of a replaced one is handed out. *)
TaskOwnsState ==
  Running # {} => state = "Reconnecting"

(* Once faults stop, every request that waits in get_connection gets on. *)
WaitersServed ==
  \A r \in Requests :
    (network = "stable" /\ req[r] = "wait") ~> req[r] \notin {"wait", "woken"}

(* Once faults stop, a dropped client's reconnect and heartbeat tasks end, and
   no later step starts them again. *)
BackgroundTasksEnd ==
  (network = "stable" /\ dropped) ~> [](Running = {} /\ hb \in {"off", "stopped"})

(* The connection as its users see it: the state, and for each request whether
   it is inside get_connection or sends on a clone of the connection. *)
LinkOf(s) ==
  CASE s = "Connected" -> "up" [] s = "Reconnecting" -> "down" [] OTHER -> "new"

UseOf(pc) ==
  CASE pc = "idle" -> "out" [] pc \in {"wait", "woken"} -> "waiting" [] OTHER -> "holding"

AsLink == INSTANCE Link WITH link <- LinkOf(state),
                             use <- [r \in Requests |-> UseOf(req[r])]

(* The mutex, the signal and the reconnect task together implement the simple
   link of module Link: whatever the interleaving, a request passes from
   waiting to holding only in a step that finds the connection up. *)
ImplementsLink == AsLink!Spec

(* The comment on connection_available_signal: it is reset when a connection
   disconnects, so the connection given up by a reset is a broken one. *)
SignalResetOnDisconnect ==
  [][signal /\ ~signal' /\ connection # None => connection \in broken]_vars
=============================================================================
