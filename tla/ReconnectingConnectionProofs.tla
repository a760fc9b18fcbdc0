-------------------- MODULE ReconnectingConnectionProofs --------------------
(***************************************************************************)
(* Machine-checked proofs about ReconnectingConnection: its safety          *)
(* invariants hold for any number of requests, reconnect tasks and          *)
(* connections, with and without the heartbeat.                             *)
(***************************************************************************)
EXTENDS ReconnectingConnection, TLAPS

(* The reconnect task that has set the signal holds the mutex, and only it. *)
LockHeldBySetter ==
  /\ \A t \in Tasks : task[t] = "set" <=> lock = t
  /\ lock # None => signal

(* Only create_connection sees the disconnected initial state, and before it
   returns nobody uses the connection. *)
NotSharedYet ==
  /\ owner = "creating" <=> state = "InitializedDisconnected"
  /\ owner = "creating" => lock = None /\ signal /\ Running = {}

(* Requests and heartbeats belong to a client that was created, and requests
   keep it from being dropped. *)
UsersHoldClient ==
  /\ owner \in {"creating", "built", "abandoned"} => Active = {} /\ hb = "off"
  /\ dropped => owner = "released" /\ Active = {}

(* While the state is Reconnecting, a task is at work unless the client was
   dropped. *)
ReconnectingHasTask ==
  state = "Reconnecting" /\ ~dropped => Running # {}

(* The inductive invariant behind the theorems of this module. *)
IInv ==
  /\ TypeOK
  /\ SingleReconnectTask
  /\ SignalMatchesState
  /\ TaskOwnsState
  /\ LockHeldBySetter
  /\ NotSharedYet
  /\ UsersHoldClient
  /\ ReconnectingHasTask

LEMMA InitIInv == Init => IInv
<1> SUFFICES ASSUME Init PROVE IInv
  OBVIOUS
<1> USE ConstantsAssumption DEF Init
<1>1. TypeOK
  BY ZenonT(30) DEF TypeOK, ConnStates
<1>2. Running = {} /\ Active = {}
  BY DEF Running, Active
<1>3. LockHeldBySetter
  BY DEF LockHeldBySetter
<1>4. QED
  BY <1>1, <1>2, <1>3 DEF IInv, SingleReconnectTask, SignalMatchesState,
     TaskOwnsState, NotSharedYet, UsersHoldClient, ReconnectingHasTask

(* What reconnect() leaves behind, whoever calls it: the state is Reconnecting
   with the signal reset, the mutex is free, and one task is at work unless an
   earlier one has given up on a dropped client. *)
ReconnectDone ==
  /\ state' = "Reconnecting" /\ connection' = None
  /\ lock' = None /\ signal' = FALSE
  /\ task' \in [Tasks -> {"none", "check", "connect", "ping", "set", "sleep"}]
  /\ taskConn' \in [Tasks -> Conns \cup {None}]
  /\ \A t \in Tasks : /\ task'[t] \in {"ping", "set"} => taskConn'[t] # None
                      /\ taskConn'[t] # None => task'[t] \in {"ping", "set", "sleep"}
  /\ SingleReconnectTask' /\ TaskOwnsState' /\ LockHeldBySetter'
  /\ dropped \/ Running' # {}

LEMMA ReconnectKeeps == IInv /\ Reconnect => ReconnectDone
<1> SUFFICES ASSUME IInv, Reconnect PROVE ReconnectDone
  OBVIOUS
<1> USE ConstantsAssumption DEF IInv, TypeOK, SingleReconnectTask, TaskOwnsState,
    LockHeldBySetter, Running, connVars, taskVars, ReconnectDone
<1>1. CASE state = "Reconnecting"
  BY <1>1 DEF Reconnect, SignalMatchesState, NotSharedYet, ReconnectingHasTask
<1>2. CASE state # "Reconnecting"
  <2>1. Running = {}
    BY <1>2
  <2>2. PICK t \in Tasks : task' = [task EXCEPT ![t] = "check"]
    BY <1>2 DEF Reconnect
  <2>3. Running' = {t}
    BY <2>1, <2>2, SMTT(30)
  <2>4. QED
    BY <1>2, <2>1, <2>2, <2>3 DEF Reconnect
<1>3. QED
  BY ZenonT(30), <1>1, <1>2

LEMMA NextIInv == IInv /\ [Next]_vars => IInv'
<1> SUFFICES ASSUME IInv, [Next]_vars PROVE IInv'
  OBVIOUS
<1>1. Reconnect => ReconnectDone
  BY ReconnectKeeps
<1>2. CASE CreateErr
  BY ZenonT(30), <1>1, <1>2 DEF CreateErr, ReconnectDone, IInv, TypeOK, ConnStates,
     SignalMatchesState, NotSharedYet, UsersHoldClient, ReconnectingHasTask,
     Active, reqVars, hbVars, envVars
<1>3. ASSUME NEW r \in Requests, RequestReconnects(r) PROVE IInv'
  BY ZenonT(30), <1>1, <1>3 DEF RequestReconnects, FinishRequest, MarkAsDropped, ReconnectDone,
     IInv, TypeOK, ConnStates, SignalMatchesState, NotSharedYet, UsersHoldClient,
     ReconnectingHasTask, Active, hbVars, envVars
<1>4. CASE HeartbeatReconnects
  BY ZenonT(30), <1>1, <1>4 DEF HeartbeatReconnects, ReconnectDone, IInv, TypeOK, ConnStates,
     SignalMatchesState, NotSharedYet, UsersHoldClient, ReconnectingHasTask,
     Active, reqVars, envVars
<1> USE ConstantsAssumption DEF IInv, TypeOK, ConnStates, SingleReconnectTask,
    SignalMatchesState, TaskOwnsState, LockHeldBySetter, NotSharedYet,
    UsersHoldClient, ReconnectingHasTask, Running, Active,
    connVars, taskVars, reqVars, hbVars, envVars
<1>5. ASSUME NEW c \in Conns, CreateOk(c) PROVE IInv'
  BY <1>5 DEF CreateOk, NewConnection
<1>6. CASE ClientCreated
  BY <1>6 DEF ClientCreated
<1>7. CASE CreationFails
  BY <1>7 DEF CreationFails
<1>8. CASE Release
  BY <1>8 DEF Release, MarkAsDropped
<1>9. ASSUME NEW r \in Requests, StartRequest(r) PROVE IInv'
  BY <1>9 DEF StartRequest
<1>10. ASSUME NEW r \in Requests, WaitSignal(r) PROVE IInv'
  BY <1>10 DEF WaitSignal
<1>11. ASSUME NEW r \in Requests, TryGetConnection(r) PROVE IInv'
  BY <1>11 DEF TryGetConnection
<1>12. ASSUME NEW r \in Requests, Reply(r) PROVE IInv'
  BY <1>12 DEF Reply, FinishRequest, MarkAsDropped
<1>13. ASSUME NEW r \in Requests, SendFails(r) PROVE IInv'
  BY <1>13 DEF SendFails
<1>14. ASSUME NEW r \in Requests, Timeout(r) PROVE IInv'
  BY <1>14 DEF Timeout, FinishRequest, MarkAsDropped
<1>15. ASSUME NEW t \in Tasks, TaskCheck(t) PROVE IInv'
  BY <1>15 DEF TaskCheck
<1>16. ASSUME NEW t \in Tasks, TaskConnects(t) PROVE IInv'
  BY <1>16 DEF TaskConnects, NewConnection
<1>17. ASSUME NEW t \in Tasks, TaskConnectFails(t) PROVE IInv'
  BY <1>17 DEF TaskConnectFails
<1>18. ASSUME NEW t \in Tasks, TaskPingFails(t) PROVE IInv'
  BY <1>18 DEF TaskPingFails
<1>19. ASSUME NEW t \in Tasks, TaskSetsSignal(t) PROVE IInv'
  BY <1>19 DEF TaskSetsSignal
<1>20. ASSUME NEW t \in Tasks, TaskInstalls(t) PROVE IInv'
  BY <1>20 DEF TaskInstalls
<1>21. ASSUME NEW t \in Tasks, TaskWakes(t) PROVE IInv'
  BY <1>21 DEF TaskWakes
<1>22. CASE HeartbeatWakes
  BY <1>22 DEF HeartbeatWakes
<1>23. CASE HeartbeatAnswered
  BY <1>23 DEF HeartbeatAnswered
<1>24. ASSUME NEW c \in Conns, Break(c) PROVE IInv'
  BY <1>24 DEF Break, HeldConns
<1>25. CASE NetworkChanges
  BY <1>25 DEF NetworkChanges
<1>26. CASE UNCHANGED vars
  BY <1>26 DEF vars
<1>27. QED
  BY ZenonT(30), <1>2, <1>3, <1>4, <1>5, <1>6, <1>7, <1>8, <1>9, <1>10, <1>11, <1>12,
     <1>13, <1>14, <1>15, <1>16, <1>17, <1>18, <1>19, <1>20, <1>21, <1>22, <1>23, <1>24, <1>25, <1>26
     DEF Next, RequestStep, TaskStep, HeartbeatStep

(* Every variable keeps its type, and connections are held exactly where the
   code has one in scope. *)
THEOREM TypeOKHolds == Spec => []TypeOK
<1>1. IInv => TypeOK
  BY DEF IInv
<1>2. QED
  BY InitIInv, NextIInv, <1>1, PTL DEF Spec

(* For every number of requests, tasks and connections, and with or without a
   heartbeat, at most one reconnect task runs. *)
THEOREM SingleReconnectTaskHolds == Spec => []SingleReconnectTask
<1>1. IInv => SingleReconnectTask
  BY DEF IInv
<1>2. QED
  BY InitIInv, NextIInv, <1>1, PTL DEF Spec

(* The availability signal and the connection state agree whenever the mutex is
   free and the connection was handed out. *)
THEOREM SignalMatchesStateHolds == Spec => []SignalMatchesState
<1>1. IInv => SignalMatchesState
  BY DEF IInv
<1>2. QED
  BY InitIInv, NextIInv, <1>1, PTL DEF Spec

(* A waiting request always has a connection to take or a reconnect task to
   wait for: it holds the client, so the client is not dropped, so the task of
   the Reconnecting state has not given up. *)
THEOREM NoAbandonedWaiterHolds == Spec => []NoAbandonedWaiter
<1>1. IInv => NoAbandonedWaiter
  <2> SUFFICES ASSUME IInv, NEW r \in Requests, req[r] \in {"wait", "woken"}
               PROVE  state = "Connected" \/ Running # {}
    BY DEF NoAbandonedWaiter
  <2>1. ~dropped /\ owner \notin {"creating", "built", "abandoned"}
    BY DEF IInv, UsersHoldClient, Active
  <2>2. CASE lock = None
    BY <2>1, <2>2 DEF IInv, SignalMatchesState, ReconnectingHasTask, NotSharedYet,
       TypeOK, ConnStates
  <2>3. CASE lock # None
    BY <2>3 DEF IInv, LockHeldBySetter, TypeOK, Running
  <2>4. QED
    BY <2>2, <2>3
<1>2. QED
  BY InitIInv, NextIInv, <1>1, PTL DEF Spec

(* The state holds no connection while a reconnect task runs. *)
THEOREM TaskOwnsStateHolds == Spec => []TaskOwnsState
<1>1. IInv => TaskOwnsState
  BY DEF IInv
<1>2. QED
  BY InitIInv, NextIInv, <1>1, PTL DEF Spec

(* Every step of the connection and its tasks is a step of the link its users
   see, or changes nothing they see. *)
LEMMA NextLink == IInv /\ [Next]_vars => [AsLink!Next]_(AsLink!linkVars)
<1> SUFFICES ASSUME IInv, [Next]_vars PROVE [AsLink!Next]_(AsLink!linkVars)
  OBVIOUS
<1> USE DEF AsLink!linkVars, AsLink!Next
<1>1. Reconnect => state' = "Reconnecting"
  BY DEF Reconnect, connVars
<1>2. CASE CreateErr
  <2>1. state = "InitializedDisconnected" /\ UNCHANGED req
    BY <1>2 DEF CreateErr, IInv, NotSharedYet, reqVars
  <2>2. AsLink!Open
    BY <1>1, <1>2, <2>1 DEF CreateErr, AsLink!Open, LinkOf, UseOf
  <2>3. QED
    BY <2>2
<1>3. ASSUME NEW r \in Requests, RequestReconnects(r) PROVE AsLink!LeaveLost(r)
  BY ZenonT(30), <1>1, <1>3 DEF RequestReconnects, FinishRequest, IInv, TypeOK, AsLink!LeaveLost,
     LinkOf, UseOf
<1>4. CASE HeartbeatReconnects
  <2>1. state # "InitializedDisconnected" /\ UNCHANGED req
    BY <1>4 DEF HeartbeatReconnects, IInv, NotSharedYet, UsersHoldClient, reqVars
  <2>2. AsLink!Lose \/ UNCHANGED AsLink!linkVars
    BY <1>1, <1>4, <2>1 DEF HeartbeatReconnects, IInv, TypeOK, ConnStates,
       AsLink!Lose, LinkOf, UseOf
  <2>3. QED
    BY <2>2
<1>5. ASSUME NEW c \in Conns, CreateOk(c) PROVE AsLink!Open
  BY <1>5 DEF CreateOk, IInv, NotSharedYet, reqVars, AsLink!Open, LinkOf, UseOf
<1>6. ASSUME NEW r \in Requests, StartRequest(r) PROVE AsLink!Enter(r)
  BY ZenonT(30), <1>6 DEF StartRequest, IInv, NotSharedYet, TypeOK, ConnStates, connVars,
     AsLink!Enter, LinkOf, UseOf
<1>7. ASSUME NEW r \in Requests, WaitSignal(r) PROVE UNCHANGED AsLink!linkVars
  BY <1>7 DEF WaitSignal, IInv, TypeOK, connVars, LinkOf, UseOf
<1>8. ASSUME NEW r \in Requests, TryGetConnection(r)
      PROVE  AsLink!Acquire(r) \/ UNCHANGED AsLink!linkVars
  BY <1>8, ZenonT(60) DEF TryGetConnection, IInv, TypeOK, connVars, AsLink!Acquire, LinkOf, UseOf
<1>9. ASSUME NEW r \in Requests, Reply(r) \/ Timeout(r) PROVE AsLink!Leave(r)
  BY <1>9, ZenonT(60) DEF Reply, Timeout, FinishRequest, IInv, TypeOK, connVars, AsLink!Leave, LinkOf, UseOf
<1>10. ASSUME NEW r \in Requests, SendFails(r) PROVE UNCHANGED AsLink!linkVars
  BY <1>10 DEF SendFails, IInv, TypeOK, connVars, LinkOf, UseOf
<1>11. ASSUME NEW t \in Tasks, TaskInstalls(t) PROVE AsLink!Restore
  <2>1. state = "Reconnecting"
    BY <1>11 DEF TaskInstalls, IInv, TaskOwnsState, Running
  <2>2. QED
    BY <1>11, <2>1 DEF TaskInstalls, reqVars, AsLink!Restore, LinkOf, UseOf
<1>12. ASSUME NEW t \in Tasks,
              TaskCheck(t) \/ TaskConnects(t) \/ TaskConnectFails(t) \/ TaskPingFails(t)
              \/ TaskSetsSignal(t) \/ TaskWakes(t)
       PROVE  UNCHANGED <<state, req>>
  BY <1>12 DEF TaskCheck, TaskConnects, TaskConnectFails, TaskPingFails, TaskSetsSignal,
     TaskWakes, connVars, reqVars
<1>13. CASE ClientCreated \/ CreationFails \/ Release \/ HeartbeatWakes
            \/ HeartbeatAnswered \/ NetworkChanges \/ UNCHANGED vars
            \/ \E c \in Conns : Break(c)
  <2>1. UNCHANGED <<state, req>>
    BY <1>13 DEF ClientCreated, CreationFails, Release, HeartbeatWakes, HeartbeatAnswered,
       NetworkChanges, Break, vars, connVars, reqVars
  <2>2. QED
    BY <2>1
<1>14. UNCHANGED <<state, req>> => UNCHANGED AsLink!linkVars
  OBVIOUS
<1>15. QED
  BY <1>2, <1>3, <1>4, <1>5, <1>6, <1>7, <1>8, <1>9, <1>10, <1>11, <1>12, <1>13, <1>14
     DEF Next, RequestStep, TaskStep, HeartbeatStep

(* The reconnecting connection implements the abstract link for any number of
   requests, tasks and connections. *)
THEOREM ImplementsLinkHolds == Spec => ImplementsLink
<1>1. Init => AsLink!Init
  BY DEF Init, AsLink!Init, LinkOf, UseOf
<1>2. QED
  BY InitIInv, NextIInv, NextLink, <1>1, PTL DEF Spec, ImplementsLink, AsLink!Spec
=============================================================================
