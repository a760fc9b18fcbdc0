------------------------ MODULE ClusterManagerProofs ------------------------
(***************************************************************************)
(* Proofs about ClusterManager, for every set of ports, every set of       *)
(* arguments and every number of stops and strangers.                      *)
(***************************************************************************)
EXTENDS ClusterManager, FiniteSetTheorems, TLAPS

(* TypeOK with what it takes to be inductive: servers are left to launch, and
   ports for them; the folder exists while the tool runs; a wait for a server's
   end has PINGs left, and one for the views has servers left. *)
TypeInv ==
  /\ TypeOK
  /\ pc \in {"tls", "launching"} =>
       /\ toStart > 0
       /\ args.ports # <<>> => toStart <= Len(args.ports)
  /\ pc \in Starting \union Stopping => folder
  /\ pc = "verifying" => verify > 0
  /\ pc = "viewing" => viewed < Len(ready)

(* The number of servers of a start is positive. *)
LEMMA NodesCountPositive ==
  ASSUME NEW a \in StartArgs
  PROVE  NodesCount(a) \in Nat /\ NodesCount(a) > 0
<1> DEFINE s == IF a.cluster_mode THEN a.shard_count ELSE 1
           r == 1 + a.replica_count
<1>1. s \in Nat /\ s >= 1 /\ r \in Nat /\ r >= 1
  BY DEF StartArgs
<1>2. s * r \in Nat /\ s * r >= 1
  <2> HIDE DEF s, r
  <2> QED BY <1>1
<1> QED BY <1>2 DEF NodesCount

(* The port of the next server is a port. *)
LEMMA PortChoicesArePorts ==
  ASSUME TypeInv, pc = "launching"
  PROVE  PortChoices \subseteq Ports
<1>1. args.ports \in Seq(Ports)
  BY ManagerAssumption DEF TypeInv, TypeOK, StartTypeOK, StartArgs
<1>2. toStart \in Nat /\ toStart > 0 /\ (args.ports # <<>> => toStart <= Len(args.ports))
  BY DEF TypeInv, TypeOK, StartTypeOK
<1>3. ASSUME args.ports # <<>>
      PROVE  Len(args.ports) - toStart + 1 \in 1..Len(args.ports)
  BY <1>1, <1>2, <1>3
<1> QED BY <1>1, <1>3 DEF PortChoices

(* The steps that leave the servers, the ports and the history alone. *)
LEMMA HostUnchanged ==
  ASSUME [Next]_vars
  PROVE  \/ StartRedisServer \/ StartRedisServerRaises \/ AddressFree
         \/ ViewComplete \/ ShutdownReturns \/ ShutdownRefused \/ ShutdownTimesOut
         \/ \E p \in Ports : ServerBinds(p) \/ ServerEnds(p)
         \/ \E p \in Ports : ServerCrashes(p) \/ StrangerTakes(p) \/ StrangerLeaves(p)
         \/ UNCHANGED <<owner, booting, taken, mishaps>>
<1> USE DEF procVars, StartRaises, StopRaises
<1>1. CASE StartStep
  BY ZenonT(30), <1>1 DEF StartStep, ParserError, Start, Tls, NoFreePort, PopServer, LogMissing, AddressInUse,
       RemoveFolderRaises, ServerUp, WaitForServerTimesOut, AllServersUp, CreateCluster, ReplicaOf,
       JoinRaises, Settled, SettleRaises, ViewComplete, ViewIncomplete,
       ViewRaises
<1>2. CASE Stop \/ StopStep
  BY ZenonT(30), <1>2 DEF Stop, StopStep, StopServer, ShutdownRefused, ShutdownFails, PingFails, WaitForShutdownTimesOut,
       AllHostsStopped, RemoveClusterFolderRaises
<1>3. CASE HostStep
  BY <1>3 DEF HostStep, ServerLogs, ServerSettles, Rival
<1>4. CASE UNCHANGED vars
  BY <1>4 DEF vars
<1> QED BY SMTT(30), <1>1, <1>2, <1>3, <1>4 DEF Next

(* What a step of start or of stop may do with the servers and their ports. *)
LEMMA HostTypeStep ==
  ASSUME TypeInv, [Next]_vars
  PROVE  HostTypeOK'
<1> USE DEF HostTypeOK
<1>0. HostTypeOK /\ PcTypeOK
  BY DEF TypeInv, TypeOK
<1>1. ASSUME pc = "launching",
             \E p \in PortChoices, spawned, ok \in BOOLEAN : Launch(p, spawned, ok)
      PROVE  HostTypeOK'
  <2> PICK p \in PortChoices, spawned \in BOOLEAN, ok \in BOOLEAN : Launch(p, spawned, ok)
    BY <1>1
  <2>1. p \in Ports
    BY <1>1, PortChoicesArePorts
  <2>2. /\ booting' = [booting EXCEPT ![p] = IF spawned THEN @ + 1 ELSE @]
        /\ mishaps' = IF p \in dirs THEN mishaps \union {"same port"} ELSE mishaps
        /\ UNCHANGED <<owner, taken>>
    BY ZenonT(30) DEF Launch
  <2>3. booting' \in [Ports -> Nat]
    <3>1. \/ booting' = [booting EXCEPT ![p] = @ + 1]
          \/ booting' = [booting EXCEPT ![p] = @]
      BY <2>2, Zenon
    <3> QED BY <1>0, <2>1, <3>1
  <2> QED BY ZenonT(30), <1>0, <2>2, <2>3 DEF Mishaps
<1>2. ASSUME pc = "shutting", SendShutdown \/ UNCHANGED <<owner, mishaps>>, UNCHANGED <<booting, taken>>
      PROVE  HostTypeOK'
  BY ZenonT(30), <1>0, <1>2 DEF SendShutdown, Mishaps, PcTypeOK
<1>3. CASE StartRedisServer \/ StartRedisServerRaises
  BY ZenonT(30), <1>1, <1>3 DEF StartRedisServer, StartRedisServerRaises
<1>4. CASE AddressFree
  BY ZenonT(30), <1>0, <1>4 DEF AddressFree, procVars, Mishaps
<1>5. CASE ShutdownReturns \/ ShutdownRefused \/ ShutdownTimesOut
  BY ZenonT(30), <1>2, <1>5 DEF ShutdownReturns, ShutdownRefused, ShutdownFails, ShutdownTimesOut
<1>6. ASSUME NEW p \in Ports, ServerBinds(p) \/ ServerEnds(p)
      PROVE  HostTypeOK'
  <2>1. /\ booting[p] > 0 /\ booting' = [booting EXCEPT ![p] = @ - 1]
        /\ owner' = owner \/ owner' = [owner EXCEPT ![p] = "cluster"]
        /\ UNCHANGED <<taken, mishaps>>
    BY ZenonT(30), <1>6 DEF ServerBinds, ServerEnds
  <2>2. booting' \in [Ports -> Nat]
    BY <1>0, <2>1
  <2> QED BY <1>0, <2>1, <2>2
<1>7. ASSUME NEW p \in Ports, ServerCrashes(p) \/ StrangerTakes(p) \/ StrangerLeaves(p)
      PROVE  HostTypeOK'
  <2>1. CASE ServerCrashes(p)
    BY ZenonT(30), <1>0, <2>1 DEF ServerCrashes, Mishaps
  <2>2. CASE StrangerTakes(p)
    BY <1>0, <2>2 DEF StrangerTakes
  <2>3. CASE StrangerLeaves(p)
    BY <1>0, <2>3 DEF StrangerLeaves
  <2> QED BY <1>7, <2>1, <2>2, <2>3
<1>8. CASE ViewComplete
  BY ZenonT(30), <1>0, <1>8 DEF ViewComplete, procVars, Mishaps
<1>9. CASE UNCHANGED <<owner, booting, taken, mishaps>>
  BY <1>0, <1>9
<1> QED
  BY <1>3, <1>4, <1>5, <1>6, <1>7, <1>8, <1>9, HostUnchanged

(* The steps that leave the folders and the logs alone. *)
LEMMA FilesUnchanged ==
  ASSUME [Next]_vars
  PROVE  \/ Start \/ StartRedisServer \/ StartRedisServerRaises \/ AddressInUse
         \/ AllHostsStopped \/ RemoveClusterFolderRaises
         \/ \E p \in Ports : ServerLogs(p) \/ ServerBinds(p) \/ ServerEnds(p) \/ ServerSettles(p)
         \/ UNCHANGED <<folder, dirs, log>>
<1> USE DEF fileVars, StartRaises, StopRaises
<1>1. CASE StartStep
  BY ZenonT(30), <1>1 DEF StartStep, ParserError, Tls, NoFreePort, PopServer, LogMissing,
       RemoveFolderRaises, AddressFree, ServerUp, WaitForServerTimesOut, AllServersUp,
       CreateCluster, ReplicaOf, JoinRaises, Settled, SettleRaises, ViewComplete, ViewIncomplete,
       ViewRaises
<1>2. CASE Stop \/ StopStep
  BY ZenonT(30), <1>2 DEF Stop, StopStep, StopServer, ShutdownReturns, ShutdownRefused, ShutdownFails, ShutdownTimesOut,
       PingFails, WaitForShutdownTimesOut
<1>3. CASE HostStep
  BY <1>3 DEF HostStep, ServerCrashes, StrangerTakes, StrangerLeaves, Rival
<1>4. CASE UNCHANGED vars
  BY <1>4 DEF vars
<1> QED BY SMTT(30), <1>1, <1>2, <1>3, <1>4 DEF Next

(* A server writes its log only into a folder that exists. *)
LEMMA WritesType ==
  ASSUME FilesTypeOK, NEW p \in Ports, NEW lines \in SUBSET LogLines, Writes(p, lines),
         UNCHANGED <<folder, dirs>>
  PROVE  FilesTypeOK'
<1>1. log' \in [Ports -> SUBSET LogLines]
  BY ZenonT(30) DEF FilesTypeOK, Writes, LogLines
<1>2. \A q \in Ports : log'[q] # {} => q \in dirs
  BY DEF FilesTypeOK, Writes
<1> QED BY <1>1, <1>2 DEF FilesTypeOK

(* The logs are in node folders, and those in the cluster's folder. *)
LEMMA FilesTypeStep ==
  ASSUME TypeInv, [Next]_vars
  PROVE  FilesTypeOK'
<1>0. FilesTypeOK /\ PcTypeOK
  BY DEF TypeInv, TypeOK
<1>1. CASE Start
  BY <1>0, <1>1 DEF Start, FilesTypeOK
<1>2. CASE StartRedisServer \/ StartRedisServerRaises
  <2>1. /\ pc = "launching"
        /\ \E p \in PortChoices, spawned, ok \in BOOLEAN : Launch(p, spawned, ok)
    BY ZenonT(30), <1>2 DEF StartRedisServer, StartRedisServerRaises
  <2>2. folder
    BY <2>1 DEF TypeInv, Starting
  <2>3. \E p \in Ports : dirs' = dirs \union {p} /\ UNCHANGED <<folder, log>>
    BY ZenonT(30), <2>1, PortChoicesArePorts DEF Launch
  <2> QED BY <1>0, <2>2, <2>3 DEF FilesTypeOK
<1>3. CASE AddressInUse
  <2>1. dirs' = dirs \ {target} /\ log' = [log EXCEPT ![target] = {}] /\ UNCHANGED folder
    BY ZenonT(30), <1>3 DEF AddressInUse
  <2>2. log' \in [Ports -> SUBSET LogLines]
    BY ZenonT(30), <1>0, <2>1 DEF FilesTypeOK
  <2>3. target \in Ports
    BY ZenonT(30), <1>0, <1>3 DEF AddressInUse, PcTypeOK
  <2>4. \A q \in Ports : log'[q] # {} => q \in dirs'
    BY <1>0, <2>1, <2>3 DEF FilesTypeOK
  <2> QED BY <1>0, <2>1, <2>2, <2>4 DEF FilesTypeOK
<1>4. CASE AllHostsStopped
  <2>1. CASE folder' = FALSE /\ dirs' = {} /\ log' = [p \in Ports |-> {}]
    BY ZenonT(30), <2>1 DEF FilesTypeOK
  <2>2. CASE UNCHANGED fileVars
    BY <1>0, <2>2 DEF FilesTypeOK, fileVars
  <2> QED BY ZenonT(30), <1>4, <2>1, <2>2 DEF AllHostsStopped
<1>5. CASE RemoveClusterFolderRaises
  BY ZenonT(30), <1>0, <1>5 DEF RemoveClusterFolderRaises, FilesTypeOK
<1>6. ASSUME NEW p \in Ports,
             ServerLogs(p) \/ ServerBinds(p) \/ ServerEnds(p) \/ ServerSettles(p)
      PROVE  FilesTypeOK'
  <2>1. /\ \E lines \in SUBSET LogLines : Writes(p, lines)
        /\ UNCHANGED <<folder, dirs>>
    BY ZenonT(30), <1>6 DEF ServerLogs, ServerBinds, ServerEnds, ServerSettles, LogLines
  <2> QED BY <1>0, <2>1, WritesType
<1>7. CASE UNCHANGED <<folder, dirs, log>>
  BY <1>0, <1>7 DEF FilesTypeOK
<1> QED BY <1>1, <1>2, <1>3, <1>4, <1>5, <1>6, <1>7, FilesUnchanged
(* The steps that leave the arguments and the lists of start alone. *)
LEMMA StartUnchanged ==
  ASSUME [Next]_vars
  PROVE  /\ args' = args
         /\ \/ Start \/ StartRedisServer \/ StartRedisServerRaises \/ AddressInUse \/ ServerUp
            \/ CreateCluster \/ ReplicaOf \/ Settled \/ ViewComplete \/ ViewIncomplete
            \/ \E p \in Ports : PopServer(p)
            \/ StartEnds /\ UNCHANGED <<ready, joined>>
            \/ UNCHANGED <<toStart, toCheck, ready, joined, viewed, asks>>
<1> USE DEF startVars, joinVars, viewVars, StartRaises, StopRaises
<1>1. CASE StartStep
  BY ZenonT(30), <1>1 DEF StartStep, ParserError, Start, Tls, StartRedisServer, StartRedisServerRaises, Launch,
       NoFreePort, PopServer, LogMissing, AddressInUse, RemoveFolderRaises, AddressFree, ServerUp,
       WaitForServerTimesOut, AllServersUp, CreateCluster, ReplicaOf, JoinRaises, Settled, SettleRaises, ViewComplete, ViewIncomplete,
       ViewRaises
<1>2. CASE Stop \/ StopStep
  BY ZenonT(60), <1>2 DEF Stop, StopStep, StopServer, ShutdownReturns, ShutdownRefused, ShutdownFails, ShutdownTimesOut,
       PingFails, WaitForShutdownTimesOut, AllHostsStopped, RemoveClusterFolderRaises
<1>3. CASE HostStep
  BY ZenonT(30), <1>3 DEF HostStep, ServerLogs, ServerBinds, ServerEnds, ServerSettles, ServerCrashes,
       StrangerTakes, StrangerLeaves, Rival
<1>4. CASE UNCHANGED vars
  BY <1>4 DEF vars
<1> QED BY SMTT(30), <1>1, <1>2, <1>3, <1>4 DEF Next

(* The lists of start keep their types. *)
LEMMA StartTypeStep ==
  ASSUME TypeInv, [Next]_vars
  PROVE  StartTypeOK'
<1> USE DEF StartTypeOK, joinVars, viewVars
<1>0. StartTypeOK /\ PcTypeOK /\ args' = args /\ ViewRetries \in Nat
  BY StartUnchanged, ManagerAssumption DEF TypeInv, TypeOK
<1>1. CASE Start
  BY <1>0, <1>1, NodesCountPositive, ManagerAssumption DEF Start
<1>2. CASE StartRedisServer \/ StartRedisServerRaises
  <2>1. PICK p \in PortChoices, spawned \in BOOLEAN, ok \in BOOLEAN :
          pc = "launching" /\ Launch(p, spawned, ok)
    BY ZenonT(30), <1>2 DEF StartRedisServer, StartRedisServerRaises
  <2>2. p \in Ports /\ toStart > 0
    BY <2>1, PortChoicesArePorts DEF TypeInv
  <2>3. /\ UNCHANGED <<ready, joined>>
        /\ \/ StartEnds
           \/ /\ toStart' = toStart - 1 /\ toCheck' = [toCheck EXCEPT ![p] = @ + 1]
              /\ UNCHANGED <<viewed, asks>>
    BY ZenonT(30), <2>1 DEF Launch
  <2>4. CASE StartEnds
    BY <1>0, <2>3, <2>4 DEF StartEnds
  <2>5. CASE ~StartEnds
    BY SMTT(30), <1>0, <2>2, <2>3, <2>5
  <2> QED BY <2>4, <2>5
<1>3. CASE AddressInUse
  <2>1. UNCHANGED <<ready, joined>> /\ (StartEnds \/ (toStart' = 1 /\ UNCHANGED <<toCheck, viewed, asks>>))
    BY ZenonT(30), <1>3 DEF AddressInUse
  <2> QED BY <1>0, <2>1 DEF StartEnds
<1>4. CASE ServerUp
  <2>1. ready' \in Seq(Ports) /\ Len(ready') = Len(ready) + 1
    BY <1>0, <1>4 DEF ServerUp, PcTypeOK
  <2> QED BY <1>0, <1>4, <2>1 DEF ServerUp
<1>5. CASE CreateCluster
  BY <1>0, <1>5 DEF CreateCluster
<1>6. CASE ReplicaOf
  BY <1>0, <1>6 DEF ReplicaOf
<1>7. ASSUME NEW p \in Ports, PopServer(p) PROVE StartTypeOK'
  <2>1. toCheck[p] > 0 /\ toCheck' = [toCheck EXCEPT ![p] = @ - 1]
        /\ UNCHANGED <<toStart, ready, joined, viewed, asks>>
    BY <1>7 DEF PopServer
  <2> QED BY <1>0, <2>1
<1>8. CASE StartEnds /\ UNCHANGED <<ready, joined>>
  BY <1>0, <1>8 DEF StartEnds
<1>9. CASE UNCHANGED <<toStart, toCheck, ready, joined, viewed, asks>>
  BY <1>0, <1>9
<1>10. CASE Settled
  <2>1. viewed' = 0 /\ asks' = ViewRetries /\ UNCHANGED <<toStart, toCheck, ready, joined>>
    BY <1>10, Zenon DEF Settled
  <2> QED BY <1>0, <2>1
<1>11. CASE ViewComplete
  <2>1. /\ pc = "viewing" /\ viewed' = viewed + 1 /\ asks' = ViewRetries
        /\ UNCHANGED <<toStart, toCheck, ready, joined>>
    BY <1>11, Zenon DEF ViewComplete
  <2>2. viewed < Len(ready)
    BY <2>1, Zenon DEF TypeInv
  <2> QED BY <1>0, <2>1, <2>2
<1>12. CASE ViewIncomplete
  <2>1. /\ UNCHANGED <<ready, joined>>
        /\ \/ StartEnds
           \/ asks # 0 /\ asks' = asks - 1 /\ UNCHANGED <<toStart, toCheck, viewed>>
    BY <1>12, Zenon DEF ViewIncomplete
  <2> QED BY <1>0, <2>1 DEF StartEnds
<1> QED BY SMTT(30), <1>1, <1>2, <1>3, <1>4, <1>5, <1>6, <1>7, <1>8, <1>9, <1>10, <1>11, <1>12,
     StartUnchanged

(* What start and stop do next, and with which server. *)
LEMMA PcTypeStep ==
  ASSUME TypeInv, [Next]_vars
  PROVE  PcTypeOK'
<1> USE DEF PcTypeOK, Starting, Stopping
<1>0. PcTypeOK
  BY ZenonT(30) DEF TypeInv, TypeOK
<1>1. CASE StartStep
  <2>1. CASE Tls
    BY <1>0, <2>1 DEF Tls
  <2>2. CASE StartRedisServer \/ StartRedisServerRaises
    <3>1. pc' \in {"checking", "launching", "failed"} /\ target' \in {target, NoPort}
      BY ZenonT(30), <2>2 DEF StartRedisServer, StartRedisServerRaises, Launch, StartEnds
    <3> QED BY ZenonT(30), <1>0, <3>1
  <2>3. ASSUME NEW p \in Ports, PopServer(p) PROVE PcTypeOK'
    BY SMTT(30), <2>3 DEF PopServer
  <2>4. CASE \/ ParserError \/ NoFreePort \/ LogMissing \/ RemoveFolderRaises
             \/ WaitForServerTimesOut \/ JoinRaises \/ SettleRaises \/ ViewRaises
    BY ZenonT(30), <2>4 DEF ParserError, NoFreePort, LogMissing, RemoveFolderRaises, WaitForServerTimesOut,
         JoinRaises, SettleRaises, ViewRaises, StartRaises, StartEnds
  <2>5. CASE AddressInUse
    BY ZenonT(60), <2>5 DEF AddressInUse, StartEnds
  <2>6. CASE Start \/ AddressFree \/ ServerUp
    BY ZenonT(30), <1>0, <2>6 DEF Start, AddressFree, ServerUp
  <2>7. CASE AllServersUp \/ CreateCluster \/ ReplicaOf \/ Settled
    BY ZenonT(30), <1>0, <2>7 DEF AllServersUp, CreateCluster, ReplicaOf, Settled
  <2>8. CASE ViewComplete \/ ViewIncomplete
    <3>1. pc' \in {"viewing", "started", "failed"} /\ target' \in {target, NoPort}
      BY ZenonT(30), <2>8 DEF ViewComplete, ViewIncomplete, StartEnds
    <3> QED BY ZenonT(30), <1>0, <3>1
  <2> QED BY ZenonT(30), <1>1, <2>1, <2>2, <2>3, <2>4, <2>5, <2>6, <2>7, <2>8 DEF StartStep
<1>2. CASE Stop \/ StopStep
  <2>1. CASE Stop
    BY ZenonT(30), <1>0, <2>1 DEF Stop
  <2>2. ASSUME NEW p \in Ports, StopServer(p) PROVE PcTypeOK'
    BY <2>2 DEF StopServer
  <2>3. CASE \/ ShutdownRefused \/ WaitForShutdownTimesOut \/ AllHostsStopped
             \/ RemoveClusterFolderRaises
    BY ZenonT(30), <2>3 DEF ShutdownRefused, ShutdownFails, WaitForShutdownTimesOut, AllHostsStopped,
         RemoveClusterFolderRaises, StopRaises, StopEnds
  <2>4. CASE ShutdownReturns
    BY <1>0, <2>4 DEF ShutdownReturns
  <2>5. CASE ShutdownTimesOut
    <3>1. (pc' = "stop failed" /\ target' = NoPort) \/ UNCHANGED <<pc, target>>
      BY ZenonT(30), <2>5 DEF ShutdownTimesOut, StopEnds
    <3> QED BY ZenonT(30), <1>0, <3>1
  <2>6. CASE PingFails
    <3>1. (pc' = "stopping" /\ target' = NoPort) \/ UNCHANGED <<pc, target>>
      BY <2>6 DEF PingFails
    <3> QED BY ZenonT(30), <1>0, <3>1
  <2> QED BY ZenonT(30), <1>2, <2>1, <2>2, <2>3, <2>4, <2>5, <2>6 DEF StopStep
<1>3. CASE HostStep
  <2>1. UNCHANGED <<pc, target>>
    BY ZenonT(30), <1>3 DEF HostStep, ServerLogs, ServerBinds, ServerEnds, ServerSettles, ServerCrashes,
         StrangerTakes, StrangerLeaves, Rival
  <2> QED BY ZenonT(30), <1>0, <2>1
<1>4. CASE UNCHANGED vars
  BY ZenonT(30), <1>0, <1>4 DEF vars
<1> QED BY ZenonT(30), <1>1, <1>2, <1>3, <1>4 DEF Next

(* The counters of stop keep their types, and a wait has PINGs left. *)
StopCounters ==
  /\ retries \in 0..StopRetries /\ verify \in 0..2 /\ toStop \subseteq Ports /\ stops \in Nat
  /\ pc = "verifying" => verify > 0

LEMMA StopTypeStep ==
  ASSUME TypeInv, [Next]_vars
  PROVE  StopCounters' /\ blip' \in BOOLEAN
<1> USE DEF StopCounters
<1>0. StopCounters /\ dirs \subseteq Ports /\ StopRetries \in Nat
  BY ManagerAssumption DEF TypeInv, TypeOK, StopTypeOK, FilesTypeOK
<1>b. blip' \in BOOLEAN
  <2>1. blip \in BOOLEAN
    BY ZenonT(60) DEF TypeInv, TypeOK, StopTypeOK
  <2>2. UNCHANGED blip \/ blip' = FALSE \/ PingFails
    BY ZenonT(30) DEF Next, vars, stopVars, StartStep, ParserError, Start, Tls, StartRedisServer,
         StartRedisServerRaises, Launch, NoFreePort, PopServer, LogMissing, AddressInUse,
         RemoveFolderRaises, AddressFree, ServerUp, WaitForServerTimesOut, AllServersUp,
         CreateCluster, ReplicaOf, JoinRaises, Settled, SettleRaises, ViewComplete, ViewIncomplete,
       ViewRaises, StartRaises,
         Stop, StopStep, StopServer, ShutdownReturns, ShutdownRefused, ShutdownFails, ShutdownTimesOut,
         WaitForShutdownTimesOut, AllHostsStopped, RemoveClusterFolderRaises, StopRaises, StopEnds,
         HostStep, ServerLogs, ServerBinds, ServerEnds, ServerSettles, ServerCrashes, StrangerTakes,
         StrangerLeaves, Rival
  <2> QED BY <2>1, <2>2, Zenon DEF PingFails
<1> SUFFICES StopCounters'
  BY <1>b
<1>1. CASE StartStep
  <2>1. UNCHANGED stopVars
    BY ZenonT(30), <1>1 DEF StartStep, ParserError, Start, Tls, StartRedisServer, StartRedisServerRaises, Launch,
         NoFreePort, PopServer, LogMissing, AddressInUse, RemoveFolderRaises, AddressFree, ServerUp,
         WaitForServerTimesOut, AllServersUp, CreateCluster, ReplicaOf, JoinRaises, Settled,
         SettleRaises, ViewComplete, ViewIncomplete,
       ViewRaises, StartRaises
  <2>2. pc' # "verifying"
    <3>1. CASE Tls
      BY <3>1, SMTT(30) DEF Tls
    <3>2. CASE ~Tls
      BY ZenonT(30), <1>1, <3>2 DEF StartStep, ParserError, Start, StartRedisServer, StartRedisServerRaises,
           Launch, NoFreePort, PopServer, LogMissing, AddressInUse, RemoveFolderRaises, AddressFree,
           ServerUp, WaitForServerTimesOut, AllServersUp, CreateCluster, ReplicaOf, JoinRaises,
           Settled, SettleRaises, ViewComplete, ViewIncomplete,
       ViewRaises, StartRaises, StartEnds
    <3> QED BY <3>1, <3>2
  <2> QED BY <1>0, <2>1, <2>2 DEF stopVars
<1>2. CASE Stop
  <2>1. /\ stops' = stops + 1 /\ toStop' = dirs /\ pc' = "stopping"
        /\ UNCHANGED <<retries, verify>>
    BY ZenonT(30), <1>2 DEF Stop
  <2> QED BY <1>0, <2>1
<1>3. CASE StopStep
  <2>1. ASSUME NEW p \in Ports, StopServer(p)
        PROVE  StopCounters'
    BY <1>0, <2>1 DEF StopServer
  <2>2. CASE ShutdownReturns
    BY <1>0, <2>2 DEF ShutdownReturns, VerifyTimes
  <2>3. CASE \/ ShutdownRefused \/ WaitForShutdownTimesOut \/ AllHostsStopped
             \/ RemoveClusterFolderRaises
    <3>1. /\ retries' = 0 /\ verify' = 0 /\ toStop' = {} /\ UNCHANGED stops
          /\ pc' # "verifying"
      BY ZenonT(30), <2>3 DEF ShutdownRefused, ShutdownFails, WaitForShutdownTimesOut, AllHostsStopped,
           RemoveClusterFolderRaises, StopRaises, StopEnds
    <3> QED BY <1>0, <3>1, SMTT(30)
  <2>4. CASE ShutdownTimesOut
    <3>1. \/ /\ retries' = 0 /\ verify' = 0 /\ toStop' = {} /\ UNCHANGED stops
             /\ pc' # "verifying"
          \/ retries # 0 /\ retries' = retries - 1 /\ UNCHANGED <<pc, verify, toStop, stops>>
      BY ZenonT(30), <2>4 DEF ShutdownTimesOut, StopEnds
    <3>2. CASE /\ retries' = 0 /\ verify' = 0 /\ toStop' = {} /\ UNCHANGED stops
               /\ pc' # "verifying"
      BY <1>0, <3>2
    <3>3. CASE retries # 0 /\ retries' = retries - 1 /\ UNCHANGED <<pc, verify, toStop, stops>>
      BY <1>0, <3>3
    <3> QED BY <3>1, <3>2, <3>3
  <2>5. CASE PingFails
    <3>1. /\ pc = "verifying" /\ verify' = verify - 1 /\ UNCHANGED <<retries, stops>>
          /\ \/ pc' = "stopping" /\ toStop' = toStop \ {target}
             \/ verify # 1 /\ UNCHANGED <<pc, toStop>>
      BY <2>5 DEF PingFails
    <3> QED BY <1>0, <3>1
  <2> QED BY SMTT(30), <1>3, <2>1, <2>2, <2>3, <2>4, <2>5 DEF StopStep
<1>4. CASE HostStep \/ UNCHANGED vars
  <2>1. UNCHANGED <<pc, retries, verify, toStop, stops>>
    BY ZenonT(30), <1>4 DEF HostStep, ServerLogs, ServerBinds, ServerEnds, ServerSettles, ServerCrashes,
         StrangerTakes, StrangerLeaves, Rival, vars, stopVars
  <2> QED BY SMTT(30), <1>0, <2>1
<1> QED BY <1>1, <1>2, <1>3, <1>4 DEF Next
(* The steps that do something about the TLS files. *)
LEMMA TlsUnchanged ==
  ASSUME [Next]_vars
  PROVE  \/ /\ tlsPc' \in {"should", "off"}
            /\ UNCHANGED <<tlsFolder, tlsFiles, tlsIndex, rival, waitedOut>>
            /\ pc = "idle"
         \/ TlsStep \/ RivalStep \/ UNCHANGED tlsVars
<1> USE DEF StartRaises, StopRaises
<1>1. CASE StartStep
  BY ZenonT(30), <1>1 DEF StartStep, ParserError, Start, Tls, StartRedisServer, StartRedisServerRaises, Launch,
       NoFreePort, PopServer, LogMissing, AddressInUse, RemoveFolderRaises, AddressFree, ServerUp,
       WaitForServerTimesOut, AllServersUp, CreateCluster, ReplicaOf, JoinRaises, Settled, SettleRaises, ViewComplete, ViewIncomplete,
       ViewRaises
<1>2. CASE Stop \/ StopStep
  BY ZenonT(30), <1>2 DEF Stop, StopStep, StopServer, ShutdownReturns, ShutdownRefused, ShutdownFails, ShutdownTimesOut,
       PingFails, WaitForShutdownTimesOut, AllHostsStopped, RemoveClusterFolderRaises
<1>3. CASE HostStep
  BY ZenonT(30), <1>3 DEF HostStep, ServerLogs, ServerBinds, ServerEnds, ServerSettles, ServerCrashes,
       StrangerTakes, StrangerLeaves, Rival
<1>4. CASE UNCHANGED vars
  BY SMTT(30), <1>4 DEF vars
<1> QED BY <1>1, <1>2, <1>3, <1>4 DEF Next

(* The TLS files are written in the order of generate_tls_certs, by this manager
   and by the rival; without a wait that ran out only the first file is looked
   for. *)
TlsInv ==
  /\ tlsFiles \subseteq {"redis_key", "ca_crt", "redis_crt"}
  /\ tlsPc \in {"off", "should", "wait", "generate", "use", "raised"}
  /\ tlsIndex \in 1..3
  /\ "ca_crt" \in tlsFiles => "redis_key" \in tlsFiles
  /\ tlsPc = "generate" => /\ tlsIndex > 1 => "redis_key" \in tlsFiles
                           /\ tlsIndex > 2 => "ca_crt" \in tlsFiles
  /\ tlsPc = "wait" => tlsIndex = 1 \/ waitedOut = TRUE
  /\ KeyWrittenBeforeUse

LEMMA TlsInvStep ==
  ASSUME TlsInv, [Next]_vars
  PROVE  TlsInv'
<1> USE DEF TlsInv, KeyWrittenBeforeUse
<1>1. CASE tlsPc' \in {"should", "off"} /\ UNCHANGED <<tlsFolder, tlsFiles, tlsIndex, rival, waitedOut>>
  BY <1>1
<1>2. CASE TlsFolderCreated \/ TlsFolderExists
  <2>1. tlsPc' \in {"generate", "wait"} /\ tlsIndex' = 1 /\ UNCHANGED tlsFiles
    BY <1>2 DEF TlsFolderCreated, TlsFolderExists
  <2> QED BY <2>1
<1>3. CASE TlsFileFound
  BY <1>3 DEF TlsFileFound, WaitOrder
<1>4. CASE TlsFileUnusable
  BY <1>4 DEF TlsFileUnusable
<1>5. CASE TlsGenerates
  <2>1. /\ tlsPc = "generate" /\ tlsFiles' = tlsFiles \union {GenerateOrder[tlsIndex]}
        /\ tlsPc' = IF tlsIndex < 3 THEN "generate" ELSE "use"
        /\ tlsIndex' = IF tlsIndex < 3 THEN tlsIndex + 1 ELSE 1
    BY <1>5 DEF TlsGenerates
  <2>2. CASE tlsIndex = 1
    BY <2>1, <2>2 DEF GenerateOrder
  <2>3. CASE tlsIndex = 2
    BY <2>1, <2>3 DEF GenerateOrder
  <2>4. CASE tlsIndex = 3
    BY <2>1, <2>4 DEF GenerateOrder
  <2>5. tlsIndex = 1 \/ tlsIndex = 2 \/ tlsIndex = 3
    OBVIOUS
  <2> HIDE DEF TlsInv
  <2> QED BY <2>2, <2>3, <2>4, <2>5
<1>6. CASE TlsGenerateRaises
  BY <1>6 DEF TlsGenerateRaises
<1>7. CASE RivalCreatesFolder \/ RivalGivesUp
  BY ZenonT(30), <1>7 DEF RivalCreatesFolder, RivalGivesUp
<1>8. CASE RivalGenerates
  <2>1. PICK n \in 1..3 : /\ GeneratedUpTo(n - 1) \subseteq tlsFiles
                         /\ tlsFiles' = tlsFiles \union {GenerateOrder[n]}
    BY <1>8 DEF RivalGenerates
  <2>2. n = 2 => "redis_key" \in tlsFiles
    BY <2>1 DEF GeneratedUpTo, GenerateOrder
  <2>3. tlsFiles' \in {tlsFiles \union {"redis_key"}, tlsFiles \union {"redis_crt"}}
        \/ ("redis_key" \in tlsFiles /\ tlsFiles' = tlsFiles \union {"ca_crt"})
    BY <2>1, <2>2 DEF GenerateOrder
  <2>4. UNCHANGED <<tlsPc, tlsIndex, waitedOut>>
    BY <1>8 DEF RivalGenerates
  <2> QED BY ZenonT(30), <2>3, <2>4
<1>9. CASE UNCHANGED tlsVars
  BY <1>9 DEF tlsVars
<1> QED
  BY ZenonT(30), <1>1, <1>2, <1>3, <1>4, <1>5, <1>6, <1>7, <1>8, <1>9, TlsUnchanged DEF TlsStep, RivalStep
(* The flags of the TLS files. *)
LEMMA TlsFlagsStep ==
  ASSUME tlsFolder \in BOOLEAN, rival \in BOOLEAN, waitedOut \in BOOLEAN, [Next]_vars
  PROVE  tlsFolder' \in BOOLEAN /\ rival' \in BOOLEAN /\ waitedOut' \in BOOLEAN
<1>1. tlsFolder' \in {tlsFolder, TRUE}
  BY TlsUnchanged, Zenon DEF TlsStep, TlsFolderCreated, TlsFolderExists, TlsFileFound,
     TlsFileUnusable, TlsGenerates, TlsGenerateRaises, RivalStep, RivalCreatesFolder,
     RivalGenerates, RivalGivesUp, tlsVars
<1>2. waitedOut' \in {waitedOut, TRUE}
  BY TlsUnchanged, Zenon DEF TlsStep, TlsFolderCreated, TlsFolderExists, TlsFileFound,
     TlsFileUnusable, TlsGenerates, TlsGenerateRaises, RivalStep, RivalCreatesFolder,
     RivalGenerates, RivalGivesUp, tlsVars
<1>3. rival' \in BOOLEAN
  <2>1. rival' \in {rival, TRUE, FALSE} \/ RivalGenerates
    BY TlsUnchanged, Zenon DEF TlsStep, TlsFolderCreated, TlsFolderExists, TlsFileFound,
       TlsFileUnusable, TlsGenerates, TlsGenerateRaises, RivalStep, RivalCreatesFolder,
       RivalGivesUp, tlsVars
  <2>2. ASSUME RivalGenerates PROVE rival' \in BOOLEAN
    <3>1. PICK n \in 1..3 : rival' = (n < 3)
      BY <2>2, Zenon DEF RivalGenerates
    <3>2. (n < 3) = TRUE \/ (n < 3) = FALSE
      OBVIOUS
    <3> QED BY <3>1, <3>2, Zenon
  <2> QED BY <2>1, <2>2, Zenon
<1> QED BY <1>1, <1>2, <1>3, Zenon

(* While servers are left to launch there are ports for them. *)
LEMMA LaunchesLeft ==
  ASSUME TypeInv, [Next]_vars, pc' \in {"tls", "launching"}
  PROVE  toStart' > 0 /\ (args'.ports # <<>> => toStart' <= Len(args'.ports))
<1>0. /\ toStart \in Nat /\ args \in StartArgs /\ args' = args /\ args.ports \in Seq(Ports)
      /\ pc \in {"tls", "launching"} =>
           toStart > 0 /\ (args.ports # <<>> => toStart <= Len(args.ports))
  BY StartUnchanged, ManagerAssumption DEF TypeInv, TypeOK, StartTypeOK, StartArgs
<1>1. CASE Start
  <2>1. toStart' = NodesCount(args) /\ (args.ports # <<>> => Len(args.ports) = NodesCount(args))
    BY <1>1 DEF Start
  <2> QED BY <1>0, <2>1, NodesCountPositive
<1>2. CASE StartRedisServer \/ StartRedisServerRaises
  <2>1. pc = "launching" /\ (pc' = "launching" => toStart' = toStart - 1 /\ toStart # 1)
        /\ pc' \in {"checking", "launching", "failed"}
    BY ZenonT(30), <1>2 DEF StartRedisServer, StartRedisServerRaises, Launch, StartEnds
  <2> QED BY <1>0, <2>1
<1>3. CASE AddressInUse
  <2>1. args.ports = <<>> /\ toStart' = 1
    BY ZenonT(30), <1>3 DEF AddressInUse, StartEnds
  <2> QED BY SMTT(30), <1>0, <2>1
<1>4. CASE pc \in {"tls", "launching"} /\ UNCHANGED toStart
  BY <1>0, <1>4
<1>5. \/ Start \/ StartRedisServer \/ StartRedisServerRaises \/ AddressInUse
      \/ pc \in {"tls", "launching"} /\ UNCHANGED toStart
  <2>1. CASE StartStep
    BY ZenonT(60), <2>1 DEF StartStep, ParserError, Tls, NoFreePort, PopServer, LogMissing,
       RemoveFolderRaises, AddressFree, ServerUp, WaitForServerTimesOut, AllServersUp, CreateCluster,
       ReplicaOf, JoinRaises, Settled, SettleRaises, ViewComplete, ViewIncomplete,
       ViewRaises, StartRaises, StartEnds, startVars
  <2>2. CASE Stop \/ StopStep
    BY ZenonT(30), <2>2 DEF Stop, StopStep, StopServer, ShutdownReturns, ShutdownRefused, ShutdownFails, ShutdownTimesOut,
       PingFails, WaitForShutdownTimesOut, AllHostsStopped, RemoveClusterFolderRaises, StopRaises,
       StopEnds
  <2>3. CASE HostStep \/ UNCHANGED vars
    BY ZenonT(30), <2>3 DEF HostStep, ServerLogs, ServerBinds, ServerEnds, ServerSettles, ServerCrashes,
       StrangerTakes, StrangerLeaves, Rival, startVars, vars
  <2> QED BY <2>1, <2>2, <2>3 DEF Next
<1> QED BY <1>1, <1>2, <1>3, <1>4, <1>5

(* The cluster's folder exists while start or stop runs. *)
LEMMA FolderThere ==
  ASSUME TypeInv, [Next]_vars, pc' \in Starting \union Stopping
  PROVE  folder'
<1>1. (pc \in Starting \union Stopping => folder)
  BY DEF TypeInv
<1>2. CASE StartStep
  BY ZenonT(30), <1>1, <1>2 DEF StartStep, ParserError, Start, Tls, StartRedisServer, StartRedisServerRaises,
     Launch, NoFreePort, PopServer, LogMissing, AddressInUse, RemoveFolderRaises, AddressFree,
     ServerUp, WaitForServerTimesOut, AllServersUp, CreateCluster, ReplicaOf, JoinRaises, Settled,
     SettleRaises, ViewComplete, ViewIncomplete,
       ViewRaises, StartRaises, StartEnds, fileVars, Starting, Stopping
<1>3. CASE Stop \/ StopStep
  BY <1>1, <1>3, ZenonT(60) DEF Stop, StopStep, StopServer, ShutdownReturns, ShutdownRefused, ShutdownFails, ShutdownTimesOut,
     PingFails, WaitForShutdownTimesOut, AllHostsStopped, RemoveClusterFolderRaises, StopRaises,
     StopEnds, fileVars, Starting, Stopping
<1>4. CASE HostStep \/ UNCHANGED vars
  <2>1. UNCHANGED <<pc, folder>>
    BY ZenonT(30), <1>4 DEF HostStep, ServerLogs, ServerBinds, ServerEnds, ServerSettles, ServerCrashes,
       StrangerTakes, StrangerLeaves, Rival, fileVars, vars
  <2> QED BY <1>1, <2>1, ZenonT(60)
<1> QED BY <1>2, <1>3, <1>4 DEF Next

(* A start that has not raised. *)
Running == {"idle", "started"} \union Starting

(* After a step of stop no start is running. *)
LEMMA StopNotRunning ==
  ASSUME Stop \/ StopStep
  PROVE  pc' \notin Running
<1> SUFFICES ASSUME pc' \in Running PROVE FALSE
  OBVIOUS
<1>1. ~Stop
  BY Zenon DEF Stop, Running, Starting
<1>2. ~StopStep
  <2>1. pc' \notin {"stopping", "shutting", "verifying", "stopped", "stop failed"}
    BY DEF Running, Starting
  <2>2. ~(\E p \in Ports : StopServer(p)) /\ ~ShutdownReturns /\ ~ShutdownRefused
        /\ ~WaitForShutdownTimesOut /\ ~AllHostsStopped /\ ~RemoveClusterFolderRaises
    BY <2>1, ZenonT(30) DEF StopServer, ShutdownReturns, ShutdownRefused, ShutdownFails, WaitForShutdownTimesOut,
       AllHostsStopped, RemoveClusterFolderRaises, StopRaises, StopEnds
  <2>3. ~ShutdownTimesOut
    BY <2>1, ZenonT(30) DEF ShutdownTimesOut, StopEnds
  <2>4. ~PingFails
    BY <2>1, ZenonT(30) DEF PingFails
  <2> QED BY <2>2, <2>3, <2>4 DEF StopStep
<1> QED BY <1>1, <1>2

(* While start asks for views there is a server left to ask. *)
LEMMA ServersLeft ==
  ASSUME TypeInv, [Next]_vars, pc' = "viewing"
  PROVE  viewed' < Len(ready')
<1>0. ready \in Seq(Ports) /\ viewed \in 0..Len(ready) /\ (pc = "viewing" => viewed < Len(ready))
  BY DEF TypeInv, TypeOK, StartTypeOK
<1>1. CASE Settled
  <2>1. viewed' = 0 /\ ready' = ready /\ ready # <<>>
    BY <1>1, SMTT(30) DEF Settled
  <2> QED BY <1>0, <2>1
<1>2. CASE ViewComplete
  <2>1. viewed' = viewed + 1 /\ ready' = ready /\ viewed' # Len(ready) /\ pc = "viewing"
    BY <1>2, ZenonT(30) DEF ViewComplete
  <2> QED BY <1>0, <2>1
<1>3. CASE pc = "viewing" /\ UNCHANGED <<viewed, ready>>
  BY <1>0, <1>3
<1>4. Settled \/ ViewComplete \/ (pc = "viewing" /\ UNCHANGED <<viewed, ready>>)
  <2>1. CASE StartStep
    <3>1. ~Tls
      BY SMTT(30) DEF Tls
    <3> QED BY <2>1, <3>1, ZenonT(60) DEF StartStep, ParserError, Start, StartRedisServer,
       StartRedisServerRaises, Launch, NoFreePort, PopServer, LogMissing, AddressInUse,
       RemoveFolderRaises, AddressFree, ServerUp, WaitForServerTimesOut, AllServersUp, CreateCluster,
       ReplicaOf, JoinRaises, SettleRaises, ViewIncomplete, ViewRaises, StartRaises, StartEnds
  <2>2. CASE Stop \/ StopStep
    BY <2>2, StopNotRunning, ZenonT(30) DEF Running, Starting
  <2>3. CASE HostStep \/ UNCHANGED vars
    BY <2>3, ZenonT(30) DEF HostStep, ServerLogs, ServerBinds, ServerEnds, ServerSettles, ServerCrashes,
       StrangerTakes, StrangerLeaves, Rival, startVars, joinVars, viewVars, vars
  <2> QED BY <2>1, <2>2, <2>3 DEF Next
<1> QED BY <1>1, <1>2, <1>3, <1>4

(* TypeInv and TlsInv hold at first and are kept by every step. *)
LEMMA TypeInvInit == Init => TypeInv /\ TlsInv
<1> SUFFICES ASSUME Init PROVE TypeInv /\ TlsInv
  OBVIOUS
<1>1. TlsTypeOK /\ TlsInv
  <2>1. tlsFolder \in BOOLEAN /\ rival \in BOOLEAN /\ waitedOut \in BOOLEAN
    BY Zenon DEF Init, TlsInit
  <2>2. tlsFiles = {} /\ tlsPc = "off" /\ tlsIndex = 1
    BY DEF Init, TlsInit
  <2>3. TlsInv
    BY <2>2 DEF TlsInv, KeyWrittenBeforeUse
  <2>4. tlsFiles \subseteq TlsFileNames /\ tlsIndex \in 1..3
    BY <2>2
  <2> QED BY <2>1, <2>2, <2>3, <2>4, Zenon DEF TlsTypeOK
<1>2. HostTypeOK /\ FilesTypeOK
  BY ZenonT(30) DEF Init, HostTypeOK, FilesTypeOK
<1>3. StartTypeOK /\ PcTypeOK /\ pc = "idle"
  BY ManagerAssumption DEF Init, StartTypeOK, PcTypeOK
<1>4. StopTypeOK
  <2>1. retries \in 0..StopRetries /\ verify \in 0..2 /\ toStop \subseteq Ports /\ stops \in Nat
    BY ManagerAssumption DEF Init
  <2>2. blip \in BOOLEAN
    BY Zenon DEF Init
  <2> QED BY <2>1, <2>2, Zenon DEF StopTypeOK
<1> QED BY <1>1, <1>2, <1>3, <1>4 DEF TypeInv, TypeOK, Starting, Stopping

LEMMA TypeInvStep == TypeInv /\ TlsInv /\ [Next]_vars => TypeInv' /\ TlsInv'
<1> SUFFICES ASSUME TypeInv, TlsInv, [Next]_vars PROVE TypeInv' /\ TlsInv'
  OBVIOUS
<1>1. TlsTypeOK'
  <2>1. tlsFolder' \in BOOLEAN /\ rival' \in BOOLEAN /\ waitedOut' \in BOOLEAN
    BY TlsFlagsStep DEF TypeInv, TypeOK, TlsTypeOK
  <2>2. TlsFileNames = {"redis_key", "ca_crt", "redis_crt"}
    BY DEF TlsFileNames, WaitOrder
  <2> QED BY <2>1, <2>2, TlsInvStep, Zenon DEF TlsTypeOK, TlsInv
<1>2. StopTypeOK' /\ (pc' = "verifying" => verify' > 0)
  BY StopTypeStep DEF StopTypeOK, StopCounters
<1> QED
  BY <1>1, <1>2, HostTypeStep, FilesTypeStep, StartTypeStep, PcTypeStep, LaunchesLeft, FolderThere,
     ServersLeft, TlsInvStep DEF TypeInv, TypeOK

(* Types hold in every behaviour: every operation of the cluster manager keeps
   its lists, counters, folders and logs well formed, so that it never counts a
   retry, a PING or a launched server below zero. *)
THEOREM TypeOKHolds == Spec => []TypeOK
<1>1. TypeInv => TypeOK
  BY DEF TypeInv
<1> QED BY <1>1, TypeInvInit, TypeInvStep, PTL DEF Spec

(* Whatever the rival manager does and whenever either gives up, servers are
   started with TLS only when the key and the CA's certificate exist. *)
THEOREM KeyWrittenBeforeUseHolds == Spec => []KeyWrittenBeforeUse
<1>1. TlsInv => KeyWrittenBeforeUse
  BY Zenon DEF TlsInv
<1> QED BY <1>1, TypeInvInit, TypeInvStep, PTL DEF Spec

-----------------------------------------------------------------------------
(* The mix-ups that ServersHaveFolders and StoppedMeansDown except. *)
NoMixUp == Known({"same port", "stranger asked"})

(* A launched server has a folder, no other server of this start has its port,
   and its log does not say that the address is in use. *)
LaunchedInv ==
  \A p \in Ports :
    /\ booting[p] > 0 =>
         /\ p \in dirs /\ booting[p] = 1 /\ owner[p] # "cluster"
         /\ "Address already in use" \notin log[p]
    /\ owner[p] = "cluster" => p \in dirs /\ "Address already in use" \notin log[p]

(* While stop runs it still has to come to every server that may run; once it
   has verified one PING of the server at hand, either that PING was answered
   by nobody or it was the one that failed although the server was up. *)
StopInv ==
  /\ pc \in Stopping => \A p \in Ports : Alive(p) => p \in toStop
  /\ pc = "stopped" => \A p \in Ports : ~Alive(p)
  /\ pc # "verifying" => blip = FALSE
  /\ pc = "verifying" =>
       /\ booting[target] = 0
       /\ verify = 2 => blip = FALSE
       /\ verify = 1 /\ blip = FALSE => owner[target] # "cluster"

ServerInv == NoMixUp => LaunchedInv /\ StopInv

(* What has happened stays in the history. *)
LEMMA MishapsGrow ==
  ASSUME [Next]_vars
  PROVE  mishaps \subseteq mishaps'
BY ZenonT(30), HostUnchanged DEF StartRedisServer, StartRedisServerRaises, Launch, AddressFree, ViewComplete,
   ShutdownReturns, ShutdownRefused, ShutdownFails, ShutdownTimesOut, SendShutdown, ServerBinds, ServerEnds, ServerCrashes, StrangerTakes,
   StrangerLeaves

(* A line that is not "Address already in use" does not put it into the log. *)
LEMMA WritesOther ==
  ASSUME FilesTypeOK, NEW p \in Ports, NEW lines, Writes(p, lines),
         "Address already in use" \notin lines,
         NEW q \in Ports, "Address already in use" \notin log[q]
  PROVE  "Address already in use" \notin log'[q]
BY ZenonT(30) DEF FilesTypeOK, Writes

(* What LaunchedInv says of one port. *)
LEMMA LaunchedAt ==
  ASSUME TypeInv, LaunchedInv, NEW p \in Ports
  PROVE  /\ booting[p] \in Nat
         /\ booting[p] = 0 \/ (booting[p] = 1 /\ booting[p] > 0 /\ p \in dirs)
         /\ booting[p] # 0 \/ owner[p] = "cluster" => "Address already in use" \notin log[p]
         /\ booting[p] # 0 => owner[p] # "cluster"
         /\ owner[p] = "cluster" => p \in dirs
<1>1. booting[p] \in Nat
  BY DEF TypeInv, TypeOK, HostTypeOK
<1>2. booting[p] = 0 \/ booting[p] > 0
  BY <1>1
<1>3. ~(0 > 0) /\ 1 > 0
  OBVIOUS
<1>4. /\ booting[p] > 0 =>
           /\ p \in dirs /\ booting[p] = 1 /\ owner[p] # "cluster"
           /\ "Address already in use" \notin log[p]
      /\ owner[p] = "cluster" => p \in dirs /\ "Address already in use" \notin log[p]
  BY Zenon DEF LaunchedInv
<1> QED BY <1>1, <1>2, <1>3, <1>4, Zenon

(* A port that start gives to a server gets its first one. *)
LEMMA LaunchedByStart ==
  ASSUME TypeInv, NoMixUp', LaunchedInv, StartRedisServer \/ StartRedisServerRaises
  PROVE  LaunchedInv'
<1>0. booting \in [Ports -> Nat] /\ (\A p \in Ports : log[p] # {} => p \in dirs)
  BY DEF TypeInv, TypeOK, HostTypeOK, FilesTypeOK
<1>1. PICK p \in PortChoices, spawned \in BOOLEAN, ok \in BOOLEAN :
        pc = "launching" /\ Launch(p, spawned, ok)
  BY ZenonT(30) DEF StartRedisServer, StartRedisServerRaises
<1>2. p \in Ports
  BY <1>1, PortChoicesArePorts
<1>3. /\ dirs' = dirs \union {p} /\ UNCHANGED <<owner, log>>
      /\ \/ booting' = [booting EXCEPT ![p] = @ + 1]
         \/ booting' = [booting EXCEPT ![p] = @]
  BY <1>1, Zenon DEF Launch
<1>4. p \notin dirs
  BY ZenonT(30), <1>1 DEF Launch, NoMixUp, Known
<1>5. booting[p] = 0 /\ owner[p] # "cluster" /\ log[p] = {}
  BY ZenonT(30), <1>0, <1>2, <1>4, LaunchedAt
<1>6. booting'[p] \in {0, 1} /\ (\A q \in Ports : q # p => booting'[q] = booting[q])
  BY <1>0, <1>2, <1>3, <1>5
<1> QED BY ZenonT(30), <1>2, <1>3, <1>5, <1>6 DEF LaunchedInv

(* LaunchedInv is kept: a folder is removed only when no server of its port is
   left. *)
LEMMA LaunchedStep ==
  ASSUME TypeInv, NoMixUp', LaunchedInv, StopInv, [Next]_vars
  PROVE  LaunchedInv'
<1>0. /\ booting \in [Ports -> Nat] /\ owner \in [Ports -> {"nobody", "cluster", "stranger"}]
      /\ log \in [Ports -> SUBSET LogLines] /\ FilesTypeOK
      /\ pc \in {"reading", "shutting"} => target \in Ports
  BY ZenonT(30) DEF TypeInv, TypeOK, HostTypeOK, FilesTypeOK, PcTypeOK
<1>1. CASE StartRedisServer \/ StartRedisServerRaises
  BY <1>1, LaunchedByStart
<1>2. CASE ShutdownReturns \/ ShutdownRefused \/ ShutdownTimesOut
  <2>1. /\ pc = "shutting" /\ owner' \in {owner, [owner EXCEPT ![target] = "nobody"]}
        /\ UNCHANGED <<booting, dirs, log>>
    BY ZenonT(30), <1>2 DEF ShutdownReturns, ShutdownRefused, ShutdownFails, ShutdownTimesOut,
       SendShutdown, fileVars
  <2> QED BY ZenonT(30), <1>0, <2>1 DEF LaunchedInv
<1>3. ASSUME NEW p \in Ports, ServerBinds(p) PROVE LaunchedInv'
  <2>1. /\ booting[p] > 0 /\ booting' = [booting EXCEPT ![p] = @ - 1]
        /\ owner' = [owner EXCEPT ![p] = "cluster"] /\ Writes(p, {"Ready"}) /\ UNCHANGED dirs
    BY <1>3 DEF ServerBinds
  <2>2. booting[p] = 1 /\ booting'[p] = 0 /\ p \in dirs
        /\ "Address already in use" \notin log[p]
    <3>0. booting[p] # 0
      BY <2>1
    <3>1. booting[p] = 1 /\ p \in dirs /\ "Address already in use" \notin log[p]
      BY <3>0, LaunchedAt, Zenon
    <3>2. booting'[p] = booting[p] - 1
      BY <1>0, <2>1
    <3>3. 1 - 1 = 0
      OBVIOUS
    <3> QED BY <3>1, <3>2, <3>3, Zenon
  <2>3. \A q \in Ports : q # p => booting'[q] = booting[q] /\ owner'[q] = owner[q]
    BY <1>0, <2>1
  <2>4. \A q \in Ports : "Address already in use" \notin log[q] =>
                         "Address already in use" \notin log'[q]
    BY ZenonT(30), <1>0, <2>1, WritesOther
  <2>5. owner'[p] = "cluster"
    BY <1>0, <2>1
  <2>6. ~(0 > 0) /\ dirs' = dirs
    BY <2>1
  <2> QED BY <2>2, <2>3, <2>4, <2>5, <2>6, Zenon DEF LaunchedInv
<1>4. ASSUME NEW p \in Ports, ServerEnds(p) PROVE LaunchedInv'
  <2>1. /\ booting[p] > 0 /\ booting' = [booting EXCEPT ![p] = @ - 1]
        /\ \E lines : Writes(p, lines)
        /\ UNCHANGED <<owner, dirs>>
    BY ZenonT(30), <1>4 DEF ServerEnds
  <2>2. booting[p] = 1 /\ booting'[p] = 0 /\ owner[p] # "cluster"
    <3>0. booting[p] # 0
      BY <2>1
    <3>1. booting[p] = 1 /\ owner[p] # "cluster"
      BY <3>0, LaunchedAt, Zenon
    <3>2. booting'[p] = booting[p] - 1
      BY <1>0, <2>1
    <3>3. 1 - 1 = 0
      OBVIOUS
    <3> QED BY <3>1, <3>2, <3>3, Zenon
  <2>3. \A q \in Ports : q # p => booting'[q] = booting[q] /\ log'[q] = log[q]
    BY <1>0, <2>1 DEF Writes
  <2>4. ~(0 > 0) /\ dirs' = dirs /\ owner' = owner
    BY <2>1
  <2> QED BY <2>2, <2>3, <2>4, Zenon DEF LaunchedInv
<1>5. ASSUME NEW p \in Ports, ServerCrashes(p) \/ StrangerTakes(p) \/ StrangerLeaves(p)
      PROVE  LaunchedInv'
  <2>1. /\ \E who \in {"nobody", "stranger"} : owner' = [owner EXCEPT ![p] = who]
        /\ UNCHANGED <<booting, dirs, log>>
    BY SMTT(30), <1>5 DEF ServerCrashes, StrangerTakes, StrangerLeaves, fileVars
  <2> QED BY ZenonT(30), <1>0, <2>1 DEF LaunchedInv
<1>6. ASSUME NEW p \in Ports, ServerLogs(p) \/ ServerSettles(p) PROVE LaunchedInv'
  <2>1. (Writes(p, {}) \/ Writes(p, {"settled"})) /\ UNCHANGED <<owner, booting, dirs>>
    BY <1>6 DEF ServerLogs, ServerSettles, procVars
  <2>2. \A q \in Ports : "Address already in use" \notin log[q] =>
                         "Address already in use" \notin log'[q]
    BY ZenonT(30), <1>0, <2>1, WritesOther
  <2> QED BY ZenonT(30), <2>1, <2>2 DEF LaunchedInv
<1>7. CASE AddressInUse
  <2>1. /\ pc = "reading" /\ "Address already in use" \in log[target] /\ dirs' = dirs \ {target}
        /\ log' = [log EXCEPT ![target] = {}] /\ UNCHANGED <<owner, booting>>
    BY ZenonT(30), <1>7 DEF AddressInUse, procVars
  <2>2. booting[target] = 0 /\ owner[target] # "cluster"
    BY ZenonT(30), <1>0, <2>1, LaunchedAt
  <2> QED BY ZenonT(30), <1>0, <2>1, <2>2 DEF LaunchedInv
<1>8. CASE AllHostsStopped \/ RemoveClusterFolderRaises
  <2>1. pc = "stopping" /\ toStop = {} /\ UNCHANGED <<owner, booting>>
    BY ZenonT(30), <1>8 DEF AllHostsStopped, RemoveClusterFolderRaises, procVars
  <2>2. \A p \in Ports : ~Alive(p)
    BY <2>1 DEF StopInv, Stopping
  <2> QED BY ZenonT(30), <2>1, <2>2 DEF LaunchedInv, Alive
<1>9. CASE UNCHANGED <<owner, booting, dirs, log>>
  BY ZenonT(30), <1>9 DEF LaunchedInv
<1>10. CASE Start \/ AddressFree \/ ViewComplete
  BY ZenonT(30), <1>9, <1>10 DEF Start, AddressFree, ViewComplete, procVars, fileVars
<1> QED
  BY SMTT(30), <1>1, <1>2, <1>3, <1>4, <1>5, <1>6, <1>7, <1>8, <1>9, <1>10, HostUnchanged, FilesUnchanged
(* Only start launches servers: no other step makes a server alive, and none
   makes one listen that was not about to. *)
LEMMA NoNewServer ==
  ASSUME TypeInv, [Next]_vars, ~(StartRedisServer \/ StartRedisServerRaises), NEW p \in Ports
  PROVE  /\ booting[p] = 0 => booting'[p] = 0
         /\ booting[p] = 0 /\ owner[p] # "cluster" => owner'[p] # "cluster"
<1>0. /\ booting \in [Ports -> Nat] /\ owner \in [Ports -> {"nobody", "cluster", "stranger"}]
      /\ pc = "shutting" => target \in Ports
  BY ZenonT(30) DEF TypeInv, TypeOK, HostTypeOK, PcTypeOK
<1>1. CASE ShutdownReturns \/ ShutdownRefused \/ ShutdownTimesOut
  <2>1. /\ pc = "shutting" /\ owner' \in {owner, [owner EXCEPT ![target] = "nobody"]}
        /\ UNCHANGED booting
    BY ZenonT(30), <1>1 DEF ShutdownReturns, ShutdownRefused, ShutdownFails, ShutdownTimesOut,
       SendShutdown
  <2> QED BY <1>0, <2>1
<1>2. ASSUME NEW q \in Ports, ServerBinds(q) \/ ServerEnds(q)
      PROVE  /\ booting[p] = 0 => booting'[p] = 0
             /\ booting[p] = 0 /\ owner[p] # "cluster" => owner'[p] # "cluster"
  <2>1. /\ booting[q] > 0 /\ booting' = [booting EXCEPT ![q] = @ - 1]
        /\ owner' = owner \/ owner' = [owner EXCEPT ![q] = "cluster"]
    BY ZenonT(30), <1>2 DEF ServerBinds, ServerEnds
  <2>2. booting[p] = 0 => p # q
    BY <2>1
  <2> QED BY <1>0, <2>1, <2>2
<1>3. ASSUME NEW q \in Ports, ServerCrashes(q) \/ StrangerTakes(q) \/ StrangerLeaves(q)
      PROVE  /\ booting[p] = 0 => booting'[p] = 0
             /\ booting[p] = 0 /\ owner[p] # "cluster" => owner'[p] # "cluster"
  <2>1. /\ \E who \in {"nobody", "stranger"} : owner' = [owner EXCEPT ![q] = who]
        /\ UNCHANGED booting
    BY <1>3 DEF ServerCrashes, StrangerTakes, StrangerLeaves
  <2> QED BY <1>0, <2>1
<1>4. CASE AddressFree \/ ViewComplete \/ UNCHANGED <<owner, booting>>
  BY ZenonT(30), <1>4 DEF AddressFree, ViewComplete, procVars
<1> QED BY <1>1, <1>2, <1>3, <1>4, HostUnchanged

(* The same with Alive. *)
LEMMA AliveShrinks ==
  ASSUME TypeInv, [Next]_vars, ~(StartRedisServer \/ StartRedisServerRaises), NEW p \in Ports,
         Alive(p)'
  PROVE  Alive(p)
<1>1. booting[p] \in Nat
  BY DEF TypeInv, TypeOK, HostTypeOK
<1>2. booting[p] = 0 \/ booting[p] > 0
  BY <1>1
<1>3. ~(0 > 0)
  OBVIOUS
<1> QED BY <1>2, <1>3, NoNewServer, Zenon DEF Alive

(* A server that got SHUTDOWN was ours and is not starting, and no PING of the
   wait has failed yet. *)
LEMMA ShutdownStep ==
  ASSUME TypeInv, NoMixUp', LaunchedInv, StopInv, ShutdownReturns
  PROVE  booting'[target'] = 0 /\ blip' = FALSE /\ verify' = 2
<1>1. /\ pc = "shutting" /\ owner[target] # "nobody" /\ target' = target /\ booting' = booting
      /\ blip' = blip /\ verify' = 2
      /\ owner[target] = "stranger" => "stranger asked" \in mishaps'
  BY ZenonT(30) DEF ShutdownReturns, SendShutdown, VerifyTimes
<1>2. target \in Ports /\ owner \in [Ports -> {"nobody", "cluster", "stranger"}]
  BY ZenonT(30), <1>1 DEF TypeInv, TypeOK, PcTypeOK, HostTypeOK
<1>3. owner[target] = "cluster"
  BY ZenonT(30), <1>1, <1>2 DEF NoMixUp, Known
<1>4. booting[target] = 0
  BY <1>2, <1>3, LaunchedAt, Zenon
<1>5. blip = FALSE
  BY ZenonT(30), <1>1 DEF StopInv
<1> QED BY <1>1, <1>4, <1>5, Zenon

(* A failed PING: the wait goes on with what it shows, or ends with the server
   down. *)
LEMMA PingStep ==
  ASSUME TypeInv, StopInv, PingFails
  PROVE  /\ pc' = "verifying" =>
              /\ booting'[target'] = 0 /\ verify' # 2
              /\ verify' = 1 /\ blip' = FALSE => owner'[target'] # "cluster"
              /\ UNCHANGED toStop
         /\ pc' # "verifying" => blip' = FALSE /\ pc' = "stopping" /\ toStop' = toStop \ {target}
                                 /\ ~Alive(target)
<1>1. /\ pc = "verifying" /\ (owner[target] = "nobody" \/ ~blip) /\ verify' = verify - 1
      /\ owner' = owner /\ booting' = booting
  BY DEF PingFails, procVars
<1>2. /\ booting[target] = 0 /\ verify \in {1, 2} /\ blip \in BOOLEAN
      /\ verify = 1 /\ blip = FALSE => owner[target] # "cluster"
  BY <1>1 DEF StopInv, TypeInv, TypeOK, StopTypeOK
<1>3. CASE verify = 1
  <2>1. /\ pc' = "stopping" /\ toStop' = toStop \ {target} /\ blip' = FALSE
    BY <1>3 DEF PingFails
  <2>2. owner[target] # "cluster"
    BY <1>1, <1>2, <1>3
  <2>3. ~(0 > 0)
    OBVIOUS
  <2>4. ~Alive(target)
    BY <1>1, <1>2, <2>2, <2>3 DEF Alive
  <2> QED BY <2>1, <2>4
<1>4. CASE verify = 2
  <2>1. /\ pc' = pc /\ toStop' = toStop /\ target' = target
        /\ blip' = (blip \/ owner[target] # "nobody")
    BY <1>4 DEF PingFails
  <2>2. verify' # 2
    BY <1>1, <1>4
  <2>3. blip' = FALSE => owner[target] = "nobody"
    BY <2>1, Zenon
  <2> QED BY SMTT(30), <1>1, <1>2, <2>1, <2>2, <2>3
<1> QED BY ZenonT(30), <1>2, <1>3, <1>4
(* The steps of start, and its end. *)
LEMMA StartPc ==
  ASSUME StartStep, pc' \in Stopping \union {"stopped", "verifying"}
  PROVE  FALSE
<1>1. CASE Tls
  BY <1>1, SMTT(30) DEF Tls, Stopping
<1>2. CASE ~Tls
  BY ZenonT(30), <1>2 DEF StartStep, ParserError, Start, StartRedisServer, StartRedisServerRaises,
     Launch, NoFreePort, PopServer, LogMissing, AddressInUse, RemoveFolderRaises, AddressFree,
     ServerUp, WaitForServerTimesOut, AllServersUp, CreateCluster, ReplicaOf, JoinRaises,
     Settled, SettleRaises, ViewComplete, ViewIncomplete,
       ViewRaises, StartRaises, StartEnds, Stopping
<1> QED BY <1>1, <1>2

(* StopInv is kept: stop passes by a server only when it is down. *)
LEMMA StopStepInv ==
  ASSUME TypeInv, NoMixUp', LaunchedInv, StopInv, [Next]_vars
  PROVE  StopInv'
<1>1. CASE StartStep
  <2>1. pc' \notin Stopping /\ pc' # "stopped" /\ pc' # "verifying"
    BY SMTT(30), <1>1, StartPc
  <2>2. pc \notin Stopping /\ UNCHANGED blip
    BY ZenonT(30), <1>1 DEF StartStep, ParserError, Start, Tls, StartRedisServer, StartRedisServerRaises, Launch,
       NoFreePort, PopServer, LogMissing, AddressInUse, RemoveFolderRaises, AddressFree, ServerUp,
       WaitForServerTimesOut, AllServersUp, CreateCluster, ReplicaOf, JoinRaises, Settled,
       SettleRaises, ViewComplete, ViewIncomplete,
       ViewRaises, StartRaises, stopVars, Stopping
  <2>3. blip' = FALSE
    BY <2>2 DEF StopInv, Stopping
  <2> QED BY <2>1, <2>3, Zenon DEF StopInv
<1>2. ASSUME ~StartStep, NEW p \in Ports, Alive(p)' PROVE Alive(p)
  BY <1>2, AliveShrinks DEF StartStep
<1>3. CASE Stop
  <2>1. /\ pc \notin Stopping /\ pc' = "stopping" /\ toStop' = dirs
        /\ UNCHANGED <<owner, booting, blip>>
    BY ZenonT(30), <1>3 DEF Stop, procVars, Stopping
  <2>2. \A p \in Ports : Alive(p)' => p \in dirs
    <3> SUFFICES ASSUME NEW p \in Ports, Alive(p) PROVE p \in dirs
      BY <2>1 DEF Alive
    <3>1. booting[p] = 0 \/ p \in dirs
      BY LaunchedAt, Zenon
    <3>2. ~(0 > 0)
      BY SMTT(30)
    <3> QED BY <3>1, <3>2, LaunchedAt, Zenon DEF Alive
  <2>3. blip = FALSE
    BY <2>1, SMTT(30) DEF StopInv, Stopping
  <2> QED BY <2>1, <2>2, <2>3, Zenon DEF StopInv
<1>4. CASE StopStep /\ ~StartStep
  <2>0. \A p \in Ports : Alive(p)' => Alive(p)
    BY <1>2, <1>4, Zenon
  <2>1. ASSUME NEW p \in Ports, StopServer(p) PROVE StopInv'
    <3>1. pc = "stopping" /\ pc' = "shutting" /\ UNCHANGED <<toStop, blip>>
      BY <2>1 DEF StopServer
    <3>2. blip = FALSE /\ \A q \in Ports : Alive(q) => q \in toStop
      BY <3>1 DEF StopInv, Stopping
    <3> QED BY <2>0, <3>1, <3>2, Zenon DEF StopInv
  <2>2. CASE ShutdownReturns
    <3>1. pc = "shutting" /\ pc' = "verifying" /\ UNCHANGED toStop
      BY <2>2 DEF ShutdownReturns
    <3>2. \A q \in Ports : Alive(q) => q \in toStop
      BY <3>1 DEF StopInv, Stopping
    <3>3. 2 # 1
      BY SMTT(30)
    <3> QED BY <2>0, <2>2, <3>1, <3>2, <3>3, ShutdownStep, Zenon DEF StopInv
  <2>3. CASE pc' = "stop failed" /\ blip' = FALSE
    BY ZenonT(30), <2>3 DEF StopInv, Stopping
  <2>4. CASE ShutdownTimesOut /\ pc' # "stop failed"
    <3>1. pc = "shutting" /\ UNCHANGED <<pc, toStop, blip>>
      BY ZenonT(30), <2>4 DEF ShutdownTimesOut, StopEnds
    <3>2. blip = FALSE /\ \A q \in Ports : Alive(q) => q \in toStop
      BY <3>1 DEF StopInv, Stopping
    <3> QED BY <2>0, <3>1, <3>2, Zenon DEF StopInv
  <2>5. CASE PingFails
    <3>1. pc = "verifying"
      BY <2>5 DEF PingFails
    <3>2. \A q \in Ports : Alive(q) => q \in toStop
      BY <3>1 DEF StopInv, Stopping
    <3>3. CASE pc' = "verifying"
      BY <2>0, <2>5, <3>2, <3>3, PingStep, Zenon DEF StopInv
    <3>4. CASE pc' # "verifying"
      <4>1. blip' = FALSE /\ pc' = "stopping" /\ toStop' = toStop \ {target} /\ ~Alive(target)
        BY <2>5, <3>4, PingStep
      <4>2. \A q \in Ports : Alive(q) => q \in toStop'
        BY <3>2, <4>1, Zenon
      <4> QED BY <2>0, <4>1, <4>2, Zenon DEF StopInv
    <3> QED BY <3>3, <3>4
  <2>6. CASE AllHostsStopped
    <3>1. pc = "stopping" /\ toStop = {} /\ pc' = "stopped" /\ blip' = FALSE
      BY <2>6 DEF AllHostsStopped, StopEnds
    <3>2. \A q \in Ports : ~Alive(q)
      BY <3>1 DEF StopInv, Stopping
    <3>3. pc' \notin Stopping /\ pc' # "verifying"
      BY <3>1 DEF Stopping
    <3> QED BY <2>0, <3>1, <3>2, <3>3, Zenon DEF StopInv
  <2> QED
    BY ZenonT(30), <1>4, <2>1, <2>2, <2>3, <2>4, <2>5, <2>6
    DEF StopStep, ShutdownRefused, ShutdownFails, ShutdownTimesOut, WaitForShutdownTimesOut,
        RemoveClusterFolderRaises, StopRaises, StopEnds
<1>5. CASE (HostStep \/ UNCHANGED vars) /\ ~StartStep
  <2>0. \A p \in Ports : Alive(p)' => Alive(p)
    BY <1>2, <1>5, ZenonT(60)
  <2>1. UNCHANGED <<pc, target, verify, blip, toStop>>
    BY ZenonT(30), <1>5 DEF HostStep, ServerLogs, ServerBinds, ServerEnds, ServerSettles, ServerCrashes,
       StrangerTakes, StrangerLeaves, Rival, vars, stopVars
  <2>2. ASSUME pc = "verifying"
        PROVE  /\ booting'[target] = 0
               /\ verify = 2 => blip = FALSE
               /\ verify = 1 /\ blip = FALSE => owner'[target] # "cluster"
    <3>1. target \in Ports
      BY <2>2 DEF TypeInv, TypeOK, PcTypeOK
    <3>2. ~(StartRedisServer \/ StartRedisServerRaises)
      BY SMTT(30), <1>5 DEF StartStep
    <3> QED BY <2>2, <3>1, <3>2, NoNewServer, Zenon DEF StopInv
  <2> QED BY <2>0, <2>1, <2>2, Zenon DEF StopInv
<1> QED BY <1>1, <1>3, <1>4, <1>5 DEF Next

(* The two together, from the first state on. *)
LEMMA ServerInvInit == Init => ServerInv
<1> SUFFICES ASSUME Init PROVE LaunchedInv /\ StopInv
  BY DEF ServerInv
<1>1. /\ \A p \in Ports : owner[p] = "nobody" /\ booting[p] = 0
      /\ pc = "idle" /\ blip = FALSE
  BY DEF Init
<1>2. ~(0 > 0)
  OBVIOUS
<1> QED BY ZenonT(30), <1>1, <1>2 DEF LaunchedInv, StopInv, Stopping

LEMMA ServerInvStep == TypeInv /\ ServerInv /\ [Next]_vars => ServerInv'
<1> SUFFICES ASSUME TypeInv, ServerInv, [Next]_vars, NoMixUp'
             PROVE  LaunchedInv' /\ StopInv'
  BY DEF ServerInv
<1>1. NoMixUp
  BY ZenonT(30), MishapsGrow DEF NoMixUp, Known
<1> QED BY <1>1, LaunchedStep, StopStepInv DEF ServerInv

(* Every server that may still run has its folder, so that stop can find it:
   for any number of servers, any arguments, and wherever start or stop raised. *)
THEOREM ServersHaveFoldersHolds == Spec => []ServersHaveFolders
<1>1. TypeInv /\ ServerInv => ServersHaveFolders
  <2> SUFFICES ASSUME TypeInv, LaunchedInv, NEW p \in Ports, Alive(p) PROVE p \in dirs
    BY ZenonT(30) DEF ServersHaveFolders, ServerInv, NoMixUp
  <2>1. ~(0 > 0)
    OBVIOUS
  <2> QED BY <2>1, LaunchedAt, Zenon DEF Alive
<1> QED BY <1>1, TypeInvInit, TypeInvStep, ServerInvInit, ServerInvStep, PTL DEF Spec

(* After "All hosts were stopped" no server of the cluster runs or is about to,
   for any number of servers and of PINGs that fail once. *)
THEOREM StoppedMeansDownHolds == Spec => []StoppedMeansDown
<1>1. ServerInv => StoppedMeansDown
  BY ZenonT(30) DEF StoppedMeansDown, ServerInv, StopInv, NoMixUp
<1> QED BY <1>1, TypeInvInit, TypeInvStep, ServerInvInit, ServerInvStep, PTL DEF Spec
-----------------------------------------------------------------------------
(* The mix-ups that ClusterIsUp and ReadyServersAreOurs except. *)
NoSamePort == Known({"same port"})
NoneMissed == Known({"same port", "slow", "crash"})

(* The servers of a start: not yet checked, being checked, and checked. *)
Pending == {p \in Ports : toCheck[p] > 0}
AtHand == IF pc \in {"reading", "pinging"} THEN {target} ELSE {}
Checked == {ready[i] : i \in 1..Len(ready)}

(* The lists of create_servers and the node folders: each folder belongs to one
   server in one of the lists, and with the servers still to launch they are as
   many as were asked for. *)
ListsInv ==
  /\ dirs = Pending \union AtHand \union Checked
  /\ \A p \in Ports : toCheck[p] <= 1
  /\ Pending \intersect (AtHand \union Checked) = {} /\ AtHand \intersect Checked = {}
  /\ \A i, j \in 1..Len(ready) : i # j => ready[i] # ready[j]

CountInv ==
  /\ Cardinality(Checked) = Len(ready)
  /\ pc = "idle" => dirs = {}
  /\ pc # "idle" => toStart + Cardinality(dirs) = NodesCount(args)
  /\ pc \notin {"tls", "launching"} => toStart = 0
  /\ pc \in {"joining", "settling", "viewing", "started"} => Pending = {}

(* When start has waited for the logs, every folder has its message. *)
SettledInv == pc \in {"viewing", "started"} /\ args.cluster_mode => \A p \in dirs : "settled" \in log[p]

(* Once a view has named as many hosts as there are servers, no two servers have
   the same port. *)
ViewInv ==
  /\ pc \in {"viewing", "started"} /\ viewed # 0 /\ Known({"stranger viewed"}) =>
       \A i, j \in 1..Len(ready) : i # j => ready[i] # ready[j]
  /\ pc = "started" /\ args.cluster_mode => viewed = Len(ready)

(* A log that says "Ready" is that of a server that has the port, and every
   checked server's log says so. *)
ReadyInv ==
  /\ \A p \in Ports : "Ready" \in log[p] => owner[p] = "cluster"
  /\ \A p \in Checked : "Ready" \in log[p]
  /\ pc = "pinging" => "Ready" \in log[target]

StartInv ==
  pc \in Running =>
    /\ ViewInv
    /\ NoSamePort => ListsInv /\ CountInv /\ SettledInv
    /\ NoneMissed => ReadyInv

(* The steps after which a start has not raised: it had not before, and the step
   is one of those that change the lists, or the lists stay and the logs grow. *)
LEMMA RunningStep ==
  ASSUME [Next]_vars, FilesTypeOK, pc' \in Running
  PROVE  /\ pc \in Running
         /\ \/ Start \/ Tls \/ StartRedisServer \/ (\E p \in Ports : PopServer(p)) \/ AddressInUse
            \/ AddressFree \/ ServerUp \/ AllServersUp \/ CreateCluster \/ ReplicaOf \/ Settled
            \/ ViewComplete \/ ViewIncomplete
            \/ /\ UNCHANGED <<pc, target, args, toStart, toCheck, ready, viewed, dirs>>
               /\ \A p \in Ports : log[p] \subseteq log'[p]
<1>1. CASE StartStep
  <2>1. pc' # "failed"
    BY DEF Running, Starting
  <2>2. ~StartEnds
    BY <2>1 DEF StartEnds
  <2>3. pc \in Running
    BY <1>1, ZenonT(60) DEF StartStep, ParserError, Start, Tls, StartRedisServer, StartRedisServerRaises,
       NoFreePort, PopServer, LogMissing, AddressInUse, RemoveFolderRaises, AddressFree,
       ServerUp, WaitForServerTimesOut, AllServersUp, CreateCluster, ReplicaOf, JoinRaises,
       Settled, SettleRaises, ViewComplete, ViewIncomplete,
       ViewRaises, Running, Starting
  <2>4. ~(ParserError \/ NoFreePort \/ LogMissing \/ RemoveFolderRaises \/ WaitForServerTimesOut
          \/ JoinRaises \/ SettleRaises \/ ViewRaises)
    BY <2>2, ZenonT(30) DEF ParserError, NoFreePort, LogMissing, RemoveFolderRaises, WaitForServerTimesOut,
       JoinRaises, SettleRaises, ViewRaises, StartRaises
  <2>5. ~StartRedisServerRaises
    BY <2>2, ZenonT(30) DEF StartRedisServerRaises, Launch
  <2> QED BY <1>1, <2>3, <2>4, <2>5, ZenonT(30) DEF StartStep
<1>3. CASE Stop \/ StopStep
  BY SMTT(30), <1>3, StopNotRunning
<1>4. CASE HostStep
  <2>1. UNCHANGED <<pc, target, args, toStart, toCheck, ready, viewed, dirs>>
    BY <1>4, ZenonT(30) DEF HostStep, ServerLogs, ServerBinds, ServerEnds, ServerSettles, ServerCrashes,
       StrangerTakes, StrangerLeaves, Rival, startVars, joinVars, viewVars, fileVars
  <2>2. ASSUME NEW p \in Ports, NEW lines, Writes(p, lines), NEW q \in Ports
        PROVE  log[q] \subseteq log'[q]
    BY <2>2 DEF Writes, FilesTypeOK
  <2>3. log' = log \/ \E p \in Ports : \E lines \in SUBSET LogLines : Writes(p, lines)
    BY <1>4, ZenonT(30) DEF HostStep, ServerLogs, ServerBinds, ServerEnds, ServerSettles, ServerCrashes,
       StrangerTakes, StrangerLeaves, Rival, fileVars, LogLines
  <2>4. \A p \in Ports : log[p] \subseteq log'[p]
    BY <2>2, <2>3, ZenonT(60)
  <2> QED BY <2>1, <2>4
<1>5. CASE UNCHANGED vars
  BY <1>5 DEF vars, startVars, joinVars, viewVars, fileVars
<1> QED BY <1>1, <1>3, <1>4, <1>5 DEF Next

(* start gives a port to its next server: it joins the servers to check. *)
LEMMA ListsStartRedisServer ==
  ASSUME TypeInv, ListsInv, CountInv, StartRedisServer, NoSamePort'
  PROVE  ListsInv' /\ CountInv'
<1>0. /\ toCheck \in [Ports -> Nat] /\ dirs \subseteq Ports /\ IsFiniteSet(dirs) /\ toStart \in Nat
      /\ ready \in Seq(Ports)
  BY ManagerAssumption, FS_Subset DEF TypeInv, TypeOK, StartTypeOK, FilesTypeOK
<1>1. PICK p \in PortChoices : pc = "launching" /\ Launch(p, TRUE, TRUE)
  BY DEF StartRedisServer
<1>2. p \in Ports /\ p \notin dirs
  BY <1>1, PortChoicesArePorts, ZenonT(30) DEF Launch, NoSamePort, Known
<1>3. /\ dirs' = dirs \union {p} /\ toStart' = toStart - 1 /\ UNCHANGED <<args, ready>>
      /\ toCheck' = [toCheck EXCEPT ![p] = @ + 1]
      /\ pc' = IF toStart = 1 THEN "checking" ELSE "launching"
  BY <1>1, Zenon DEF Launch
<1>4. Checked' = Checked /\ AtHand = {} /\ AtHand' = {}
  BY <1>1, <1>3 DEF Checked, AtHand
<1>5. p \notin Pending /\ p \notin Checked
  BY <1>2, <1>4 DEF ListsInv
<1>6. toCheck[p] = 0
  BY <1>0, <1>2, <1>5 DEF Pending
<1>7. Pending' = Pending \union {p}
  BY SMTT(30), <1>0, <1>2, <1>3, <1>6 DEF Pending
<1>8. \A q \in Ports : toCheck'[q] <= 1
  BY SMTT(30), <1>0, <1>2, <1>3, <1>6 DEF ListsInv
<1>9. ListsInv'
  <2>1. dirs' = (Pending \union AtHand \union Checked)'
    BY <1>3, <1>4, <1>7 DEF ListsInv
  <2>2. (Pending \intersect (AtHand \union Checked) = {} /\ AtHand \intersect Checked = {})'
    BY SMTT(30), <1>4, <1>5, <1>7 DEF ListsInv
  <2> QED BY SMTT(30), <1>3, <1>8, <2>1, <2>2 DEF ListsInv
<1>10. Cardinality(dirs') = Cardinality(dirs) + 1 /\ Cardinality(dirs) \in Nat
  BY SMTT(30), <1>0, <1>2, <1>3, FS_AddElement, FS_CardinalityType
<1>11. toStart' + Cardinality(dirs') = toStart + Cardinality(dirs)
  BY SMTT(30), <1>0, <1>3, <1>10
<1> QED BY SMTT(30), <1>0, <1>1, <1>3, <1>4, <1>9, <1>11 DEF CountInv, NodesCount

(* A server is taken from the list, and the lists stay apart. *)
LEMMA ListsPopServer ==
  ASSUME TypeInv, ListsInv, CountInv, NEW p \in Ports, PopServer(p)
  PROVE  ListsInv' /\ CountInv'
<1>0. /\ toCheck \in [Ports -> Nat] /\ ready \in Seq(Ports)
  BY DEF TypeInv, TypeOK, StartTypeOK
<1>1. /\ pc = "checking" /\ p \in Pending /\ target' = p /\ pc' = "reading"
      /\ toCheck' = [toCheck EXCEPT ![p] = @ - 1] /\ UNCHANGED <<args, toStart, ready, dirs>>
  BY SMTT(30) DEF PopServer, Pending, fileVars
<1>2. Checked' = Checked /\ AtHand = {} /\ AtHand' = {p}
  BY <1>1 DEF Checked, AtHand
<1>3. toCheck[p] = 1
  BY <1>0, <1>1 DEF ListsInv, Pending
<1>4. Pending' = Pending \ {p}
  BY SMTT(30), <1>0, <1>1, <1>3 DEF Pending
<1>5. \A q \in Ports : toCheck'[q] <= 1
  BY SMTT(30), <1>0, <1>1, <1>3 DEF ListsInv
<1>6. ListsInv'
  <2>1. dirs' = (Pending \union AtHand \union Checked)'
    BY SMTT(30), <1>1, <1>2, <1>4 DEF ListsInv
  <2>2. (Pending \intersect (AtHand \union Checked) = {} /\ AtHand \intersect Checked = {})'
    BY SMTT(30), <1>1, <1>2, <1>4 DEF ListsInv
  <2> QED BY SMTT(30), <1>1, <1>5, <2>1, <2>2 DEF ListsInv
<1> QED BY SMTT(30), <1>1, <1>2, <1>6 DEF CountInv, NodesCount

(* A server whose port was taken leaves the lists with its folder, and one more
   has to be launched. *)
LEMMA ListsAddressInUse ==
  ASSUME TypeInv, ListsInv, CountInv, AddressInUse, pc' \in Running
  PROVE  ListsInv' /\ CountInv'
<1>0. dirs \subseteq Ports /\ IsFiniteSet(dirs) /\ ready \in Seq(Ports)
  BY ManagerAssumption, FS_Subset DEF TypeInv, TypeOK, StartTypeOK, FilesTypeOK
<1>1. /\ pc = "reading" /\ dirs' = dirs \ {target} /\ UNCHANGED <<args, ready>>
      /\ pc' = "launching" /\ toStart' = 1 /\ UNCHANGED toCheck
  BY ZenonT(30) DEF AddressInUse, StartEnds, Running, Starting
<1>2. Checked' = Checked /\ AtHand = {target} /\ AtHand' = {} /\ Pending' = Pending
  BY <1>1 DEF Checked, AtHand, Pending
<1>3. target \in dirs /\ target \notin Pending /\ target \notin Checked
  BY <1>2 DEF ListsInv
<1>4. ListsInv'
  <2>1. dirs' = (Pending \union AtHand \union Checked)'
    BY <1>1, <1>2, <1>3 DEF ListsInv
  <2>2. (Pending \intersect (AtHand \union Checked) = {} /\ AtHand \intersect Checked = {})'
    BY <1>2 DEF ListsInv
  <2> QED BY SMTT(30), <1>1, <2>1, <2>2 DEF ListsInv
<1>5. Cardinality(dirs') = Cardinality(dirs) - 1 /\ Cardinality(dirs) \in Nat
  BY <1>0, <1>1, <1>3, FS_RemoveElement, FS_CardinalityType
<1>6. toStart = 0
  BY <1>1 DEF CountInv
<1>7. toStart' + Cardinality(dirs') = toStart + Cardinality(dirs)
  BY <1>1, <1>5, <1>6
<1> QED BY SMTT(30), <1>1, <1>2, <1>4, <1>7 DEF CountInv, NodesCount

(* A server that answers is appended to ready_servers, which has no duplicates. *)
LEMMA ListsServerUp ==
  ASSUME TypeInv, ListsInv, CountInv, ServerUp
  PROVE  ListsInv' /\ CountInv' /\ Checked' = Checked \union {target}
<1>0. dirs \subseteq Ports /\ IsFiniteSet(dirs) /\ ready \in Seq(Ports) /\ target \in Ports
  BY ManagerAssumption, FS_Subset DEF TypeInv, TypeOK, StartTypeOK, FilesTypeOK, PcTypeOK, ServerUp
<1>1. /\ pc = "pinging" /\ ready' = Append(ready, target) /\ pc' = "checking"
      /\ UNCHANGED <<args, toStart, toCheck, dirs>>
  BY DEF ServerUp, fileVars
<1>2. AtHand = {target} /\ AtHand' = {} /\ Pending' = Pending
  BY <1>1 DEF AtHand, Pending
<1>3. target \in dirs /\ target \notin Pending /\ target \notin Checked
  BY <1>2 DEF ListsInv
<1>4. /\ Len(ready') = Len(ready) + 1 /\ Len(ready) \in Nat
      /\ ready'[Len(ready) + 1] = target
      /\ \A i \in 1..Len(ready) : ready'[i] = ready[i]
  BY <1>0, <1>1
<1>5. Checked' = Checked \union {target}
  <2>1. Checked' \subseteq Checked \union {target}
    BY <1>4 DEF Checked
  <2>2. Checked \subseteq Checked'
    BY <1>4 DEF Checked
  <2>3. target \in Checked'
    BY SMTT(30), <1>4 DEF Checked
  <2> QED BY SMTT(30), <2>1, <2>2, <2>3
<1>6. \A i, j \in 1..Len(ready') : i # j => ready'[i] # ready'[j]
  <2> SUFFICES ASSUME NEW i \in 1..Len(ready'), NEW j \in 1..Len(ready'), i # j
               PROVE  ready'[i] # ready'[j]
    OBVIOUS
  <2>1. \A k \in 1..Len(ready) : ready[k] # target
    BY <1>3 DEF Checked
  <2>2. CASE i \in 1..Len(ready) /\ j \in 1..Len(ready)
    BY <1>4, <2>2 DEF ListsInv
  <2>3. CASE i = Len(ready) + 1 /\ j \in 1..Len(ready)
    BY <1>4, <2>1, <2>3
  <2>4. CASE j = Len(ready) + 1 /\ i \in 1..Len(ready)
    BY <1>4, <2>1, <2>4
  <2> QED BY <1>4, <2>2, <2>3, <2>4
<1>7. ListsInv'
  <2>1. dirs' = (Pending \union AtHand \union Checked)'
    BY SMTT(30), <1>1, <1>2, <1>3, <1>5 DEF ListsInv
  <2>2. (Pending \intersect (AtHand \union Checked) = {} /\ AtHand \intersect Checked = {})'
    BY <1>2, <1>3, <1>5 DEF ListsInv
  <2> QED BY SMTT(30), <1>1, <1>6, <2>1, <2>2 DEF ListsInv
<1>8. IsFiniteSet(Checked)
  BY <1>0, FS_Subset DEF ListsInv
<1>9. Cardinality(Checked') = Len(ready')
  BY ZenonT(60), <1>3, <1>4, <1>5, <1>8, FS_AddElement DEF CountInv
<1> QED BY SMTT(30), <1>1, <1>5, <1>7, <1>9 DEF CountInv, NodesCount

(* The steps that leave the lists and the folders alone. *)
LEMMA ListsUnchanged ==
  ASSUME ListsInv, UNCHANGED <<dirs, toCheck, ready>>, AtHand' = AtHand
  PROVE  ListsInv' /\ Pending' = Pending /\ Checked' = Checked
<1>1. Pending' = Pending /\ Checked' = Checked
  BY DEF Pending, Checked
<1> QED BY <1>1 DEF ListsInv

(* Each step keeps the folders and the lists of a start together. *)
LEMMA ListsStep ==
  ASSUME TypeInv, NoSamePort', ListsInv, CountInv, [Next]_vars, pc' \in Running
  PROVE  ListsInv' /\ CountInv'
<1>0. FilesTypeOK /\ toCheck \in [Ports -> Nat]
  BY DEF TypeInv, TypeOK, StartTypeOK
<1>1. CASE Start
  <2>1. /\ pc = "idle" /\ pc' \in {"tls", "launching"} /\ toStart' = NodesCount(args)
        /\ UNCHANGED <<dirs, toCheck, ready, args>>
    BY <1>1 DEF Start
  <2>2. AtHand' = AtHand
    BY SMTT(30), <2>1 DEF AtHand
  <2>3. NodesCount(args) \in Nat /\ NodesCount(args') = NodesCount(args)
    BY <2>1, ManagerAssumption, NodesCountPositive DEF TypeInv, TypeOK, StartTypeOK
  <2>4. toStart' + Cardinality(dirs') = NodesCount(args')
    <3>1. dirs' = {}
      BY <2>1 DEF CountInv
    <3>2. Cardinality(dirs') = 0
      BY <3>1, FS_EmptySet
    <3> QED BY SMTT(30), <2>1, <2>3, <3>2
  <2> QED BY <2>1, <2>2, <2>4, ListsUnchanged DEF CountInv
<1>2. CASE Tls
  <2>1. pc = "tls" /\ pc' \in {"tls", "launching"} /\ UNCHANGED <<dirs, toCheck, ready, args, toStart>>
    BY <1>2, SMTT(30) DEF Tls, fileVars, startVars, Running, Starting
  <2>2. AtHand' = AtHand /\ NodesCount(args') = NodesCount(args)
    BY <2>1 DEF AtHand
  <2> QED BY <2>1, <2>2, ListsUnchanged DEF CountInv
<1>3. CASE StartRedisServer
  BY <1>3, ListsStartRedisServer
<1>4. CASE \E p \in Ports : PopServer(p)
  BY <1>4, ListsPopServer
<1>5. CASE AddressInUse
  BY <1>5, ListsAddressInUse
<1>6. CASE ServerUp
  BY <1>6, ListsServerUp
<1>7. CASE AllServersUp
  <2>1. /\ pc = "checking" /\ pc' = "joining" /\ (\A p \in Ports : toCheck[p] = 0)
        /\ UNCHANGED <<dirs, toCheck, ready, args, toStart>>
    BY <1>7 DEF AllServersUp, fileVars, startVars
  <2>2. AtHand' = AtHand /\ NodesCount(args') = NodesCount(args)
    BY <2>1 DEF AtHand
  <2>3. Pending = {}
    BY SMTT(30), <1>0, <2>1 DEF Pending
  <2> QED BY SMTT(30), <2>1, <2>2, <2>3, ListsUnchanged DEF CountInv
<1>8. CASE \/ AddressFree \/ CreateCluster \/ ReplicaOf \/ Settled
           \/ ViewComplete \/ ViewIncomplete
  <2>0. pc' # "failed"
    BY DEF Running, Starting
  <2>1. /\ \/ pc = "reading" /\ pc' = "pinging" /\ target' = target
           \/ /\ pc \in {"joining", "settling", "viewing"}
              /\ pc' \in {"joining", "settling", "viewing", "started"}
        /\ UNCHANGED <<dirs, toCheck, ready, args, toStart>>
    BY <1>8, <2>0, ZenonT(30) DEF AddressFree, CreateCluster, ReplicaOf, Settled, ViewComplete,
       ViewIncomplete, StartEnds, fileVars, startVars
  <2>2. AtHand' = AtHand /\ NodesCount(args') = NodesCount(args)
    BY <2>1 DEF AtHand
  <2> QED BY <2>1, <2>2, ListsUnchanged DEF CountInv
<1>9. CASE UNCHANGED <<pc, target, args, toStart, toCheck, ready, viewed, dirs>>
  <2>1. AtHand' = AtHand /\ NodesCount(args') = NodesCount(args)
    BY <1>9 DEF AtHand
  <2> QED BY <1>9, <2>1, ListsUnchanged DEF CountInv
<1> QED BY <1>0, <1>1, <1>2, <1>3, <1>4, <1>5, <1>6, <1>7, <1>8, <1>9, RunningStep, ZenonT(30)

(* What start waited for stays in the logs. *)
LEMMA SettledStep ==
  ASSUME TypeInv, SettledInv, [Next]_vars, pc' \in Running
  PROVE  SettledInv'
<1>0. FilesTypeOK
  BY DEF TypeInv, TypeOK
<1> SUFFICES ASSUME pc' \in {"viewing", "started"}, args'.cluster_mode, NEW p \in dirs'
             PROVE  "settled" \in log'[p]
  BY DEF SettledInv
<1>1. CASE Settled
  <2>1. /\ \A q \in WaitedFor : "settled" \in log[q]
        /\ UNCHANGED <<dirs, log, args>>
    BY <1>1 DEF Settled, fileVars, startVars
  <2>2. WaitedFor = dirs
    BY <2>1 DEF WaitedFor
  <2> QED BY SMTT(30), <2>1, <2>2
<1>2. ~Tls
  BY SMTT(30) DEF Tls
<1>3. ~(Start \/ StartRedisServer \/ (\E q \in Ports : PopServer(q)) \/ AddressInUse
        \/ AddressFree \/ ServerUp \/ AllServersUp \/ CreateCluster \/ ReplicaOf)
  BY ZenonT(30) DEF Start, StartRedisServer, Launch, PopServer, AddressInUse, StartEnds, AddressFree,
     ServerUp, AllServersUp, CreateCluster, ReplicaOf
<1>4. CASE /\ UNCHANGED <<pc, target, args, toStart, toCheck, ready, viewed, dirs>>
           /\ \A q \in Ports : log[q] \subseteq log'[q]
  BY <1>0, <1>4 DEF SettledInv, FilesTypeOK
<1>5. CASE ViewComplete \/ ViewIncomplete
  <2>1. pc = "viewing" /\ UNCHANGED <<args, dirs, log>>
    BY <1>5, Zenon DEF ViewComplete, ViewIncomplete, fileVars
  <2> QED BY <2>1, SMTT(30) DEF SettledInv
<1> QED BY <1>0, <1>1, <1>2, <1>3, <1>4, <1>5, RunningStep, ZenonT(30)

(* As many ports as servers: each server has its own. *)
LEMMA DistinctPorts ==
  ASSUME ready \in Seq(Ports), Len(ready) <= Cardinality(Checked)
  PROVE  \A i, j \in 1..Len(ready) : i # j => ready[i] # ready[j]
<1> DEFINE S == 1..Len(ready)
<1>1. Len(ready) \in Nat /\ ready \in [S -> Checked] /\ ready \in Surjection(S, Checked)
  BY DEF Checked, Surjection
<1>2. IsFiniteSet(S) /\ Cardinality(S) = Len(ready)
  BY SMTT(30), <1>1, FS_Interval
<1>3. /\ IsFiniteSet(Checked) /\ Cardinality(Checked) <= Cardinality(S)
      /\ Cardinality(Checked) = Cardinality(S) => ready \in Injection(S, Checked)
  BY <1>1, <1>2, FS_Surjection, Zenon
<1>4. Cardinality(Checked) = Cardinality(S)
  BY <1>1, <1>2, <1>3, FS_CardinalityType
<1>5. ready \in Injection(S, Checked)
  BY <1>3, <1>4
<1>6. \A i, j \in S : ready[i] = ready[j] => i = j
  BY <1>1, <1>5 DEF Injection, IsInjective
<1> QED BY <1>6

(* A view of one of our servers that is complete shows that the ports differ. *)
LEMMA ViewStep ==
  ASSUME TypeInv, ViewInv, [Next]_vars, pc' \in Running
  PROVE  ViewInv'
<1>0. FilesTypeOK /\ ready \in Seq(Ports)
  BY DEF TypeInv, TypeOK, StartTypeOK
<1> DEFINE Distinct == \A i, j \in 1..Len(ready) : i # j => ready[i] # ready[j]
<1>1. CASE pc' \notin {"viewing", "started"}
  BY <1>1, Zenon DEF ViewInv
<1>2. CASE pc' \in {"viewing", "started"} /\ Settled
  <2>1. viewed' = 0 /\ UNCHANGED <<args, ready>> /\ (pc' = "started" => ~args.cluster_mode \/ ready = <<>>)
    BY <1>2, SMTT(30) DEF Settled
  <2>2. Len(<<>>) = 0
    OBVIOUS
  <2> QED BY <2>1, <2>2, Zenon DEF ViewInv
<1>3. CASE ViewComplete
  <2>1. /\ pc = "viewing" /\ Len(ready) \in HostsNamed /\ UNCHANGED <<args, ready>>
        /\ pc' = IF viewed' = Len(ready) THEN "started" ELSE "viewing"
        /\ owner[ready[viewed + 1]] = "stranger" => "stranger viewed" \in mishaps'
    BY <1>3, Zenon DEF ViewComplete
  <2>2. ASSUME Known({"stranger viewed"})' PROVE Distinct
    <3>1. owner[ready[viewed + 1]] # "stranger"
      BY <2>1, <2>2, Zenon DEF Known
    <3>2. Len(ready) \in 0..Cardinality(Checked)
      BY <2>1, <3>1, ZenonT(30) DEF HostsNamed, Checked
    <3>3. Cardinality(Checked) \in Int
      <4>1. Checked \subseteq Ports
        BY <1>0 DEF Checked
      <4> QED BY SMTT(30), <4>1, ManagerAssumption, FS_Subset, FS_CardinalityType
    <3>4. Len(ready) <= Cardinality(Checked)
      BY <3>2, <3>3
    <3> QED BY <1>0, <3>4, DistinctPorts
  <2>3. pc' = "started" => viewed' = Len(ready')
    BY <2>1, ZenonT(30)
  <2> QED BY <2>1, <2>2, <2>3, Zenon DEF ViewInv
<1>4. CASE ViewIncomplete
  <2>0. pc' # "failed"
    BY DEF Running, Starting
  <2>1. pc = "viewing" /\ UNCHANGED <<pc, viewed, ready, args, mishaps>>
    BY <1>4, <2>0, Zenon DEF ViewIncomplete, StartEnds
  <2> QED BY <2>1, Zenon DEF ViewInv, Known
<1>5. CASE UNCHANGED <<pc, args, ready, viewed>>
  <2>1. Known({"stranger viewed"})' => Known({"stranger viewed"})
    BY MishapsGrow, Zenon DEF Known
  <2> QED BY <1>5, <2>1, Zenon DEF ViewInv
<1>6. ASSUME pc' \in {"viewing", "started"}
      PROVE  ~Tls /\ ~(\/ Start \/ StartRedisServer \/ (\E q \in Ports : PopServer(q)) \/ AddressInUse
                       \/ AddressFree \/ ServerUp \/ AllServersUp \/ CreateCluster \/ ReplicaOf)
  <2>1. ~Tls
    BY <1>6, SMTT(30) DEF Tls
  <2> QED BY <1>6, <2>1, ZenonT(30) DEF Start, StartRedisServer, Launch, PopServer, AddressInUse, StartEnds,
     AddressFree, ServerUp, AllServersUp, CreateCluster, ReplicaOf
<1> QED BY <1>0, <1>1, <1>2, <1>3, <1>4, <1>5, <1>6, RunningStep, ZenonT(30)

(* While start runs, a server whose log says "Ready" keeps its port. *)
LEMMA OwnerStep ==
  ASSUME TypeInv, NoneMissed', ReadyInv, [Next]_vars, pc' \in Running,
         NEW p \in Ports, "Ready" \in log'[p]
  PROVE  owner'[p] = "cluster"
<1>0. /\ owner \in [Ports -> {"nobody", "cluster", "stranger"}]
      /\ log \in [Ports -> SUBSET LogLines] /\ FilesTypeOK
  BY DEF TypeInv, TypeOK, HostTypeOK, FilesTypeOK
<1>1. "Ready" \in log[p] => owner[p] = "cluster"
  BY SMTT(30) DEF ReadyInv
<1>2. ASSUME NEW q \in Ports, ServerBinds(q) PROVE owner'[p] = "cluster"
  <2>1. owner' = [owner EXCEPT ![q] = "cluster"] /\ Writes(q, {"Ready"})
    BY <1>2 DEF ServerBinds
  <2>2. p # q => log'[p] = log[p]
    BY <1>0, <2>1 DEF Writes
  <2> QED BY SMTT(30), <1>0, <1>1, <2>1, <2>2
<1>3. ASSUME NEW q \in Ports, ServerCrashes(q) PROVE FALSE
  BY <1>3, ZenonT(30) DEF ServerCrashes, NoneMissed, Known
<1>4. ASSUME NEW q \in Ports, StrangerTakes(q) \/ StrangerLeaves(q) PROVE owner'[p] = "cluster"
  <2>1. owner[q] # "cluster" /\ owner' \in {[owner EXCEPT ![q] = "stranger"], [owner EXCEPT ![q] = "nobody"]}
        /\ log' = log
    BY <1>4 DEF StrangerTakes, StrangerLeaves, fileVars
  <2> QED BY SMTT(30), <1>0, <1>1, <2>1
<1>5. ASSUME UNCHANGED owner, "Ready" \in log[p] PROVE owner'[p] = "cluster"
  BY <1>1, <1>5
<1>6. ASSUME NEW q \in Ports, NEW lines, Writes(q, lines), "Ready" \notin lines PROVE "Ready" \in log[p]
  <2>1. log'[p] \subseteq log[p] \union {"file"} \union lines
    BY SMTT(30), <1>0, <1>6 DEF Writes
  <2> QED BY <1>6, <2>1
<1>7. ASSUME NEW q \in Ports, ServerLogs(q) \/ ServerEnds(q) \/ ServerSettles(q) PROVE owner'[p] = "cluster"
  <2>1. UNCHANGED owner
    BY <1>7, Zenon DEF ServerLogs, ServerEnds, ServerSettles, procVars
  <2>2. Writes(q, {}) \/ Writes(q, {"Address already in use"}) \/ Writes(q, {"settled"})
    BY <1>7, Zenon DEF ServerLogs, ServerEnds, ServerSettles
  <2>3. "Ready" \in log[p]
    BY <1>6, <2>2
  <2> QED BY <1>5, <2>1, <2>3
<1>8. CASE Rival \/ UNCHANGED vars
  <2>1. UNCHANGED <<owner, log>>
    BY <1>8, Zenon DEF Rival, vars, procVars, fileVars
  <2> QED BY <1>5, <2>1
<1>9. CASE StartStep
  <2>1. UNCHANGED owner
    BY <1>9, ZenonT(30) DEF StartStep, ParserError, Start, Tls, StartRedisServer, StartRedisServerRaises, Launch,
       NoFreePort, PopServer, LogMissing, AddressInUse, RemoveFolderRaises, AddressFree, ServerUp,
       WaitForServerTimesOut, AllServersUp, CreateCluster, ReplicaOf, JoinRaises, Settled, SettleRaises, ViewComplete, ViewIncomplete,
       ViewRaises,
       StartRaises, procVars
  <2>2. CASE AddressInUse
    <3>1. log' = [log EXCEPT ![target] = {}]
      BY <2>2 DEF AddressInUse
    <3>2. "Ready" \in log[p]
      BY SMTT(30), <1>0, <3>1
    <3> QED BY SMTT(30), <1>5, <2>1, <3>2
  <2>3. CASE ~AddressInUse
    <3>1. UNCHANGED log
      BY <1>9, <2>3, ZenonT(30) DEF StartStep, ParserError, Start, Tls, StartRedisServer, StartRedisServerRaises,
         Launch, NoFreePort, PopServer, LogMissing, RemoveFolderRaises, AddressFree, ServerUp,
         WaitForServerTimesOut, AllServersUp, CreateCluster, ReplicaOf, JoinRaises, Settled, SettleRaises, ViewComplete, ViewIncomplete,
       ViewRaises,
         StartRaises, fileVars
    <3> QED BY <1>5, <2>1, <3>1
  <2> QED BY <2>2, <2>3
<1>10. CASE Stop \/ StopStep
  BY <1>10, StopNotRunning
<1> QED BY <1>2, <1>3, <1>4, <1>7, <1>8, <1>9, <1>10, ZenonT(30) DEF Next, HostStep

(* A server is pinged only after its log has said "Ready", and its log is kept. *)
LEMMA ReadyStep ==
  ASSUME TypeInv, NoneMissed', ListsInv, ReadyInv, [Next]_vars, pc \in Running, pc' \in Running
  PROVE  ReadyInv'
<1>0. /\ log \in [Ports -> SUBSET LogLines] /\ FilesTypeOK /\ ready \in Seq(Ports)
      /\ pc \in {"reading", "pinging"} => target \in Ports
  BY ZenonT(30) DEF TypeInv, TypeOK, FilesTypeOK, StartTypeOK, PcTypeOK
<1>1. \A p \in Ports : "Ready" \in log'[p] => owner'[p] = "cluster"
  BY OwnerStep
<1>2. Checked \subseteq Ports
  BY SMTT(30), <1>0 DEF Checked
<1>3. CASE AddressInUse
  <2>1. /\ pc = "reading" /\ log' = [log EXCEPT ![target] = {}] /\ ready' = ready /\ pc' # "pinging"
    BY <1>3, Zenon DEF AddressInUse, StartEnds
  <2>2. target \notin Checked
    BY <2>1 DEF ListsInv, AtHand
  <2>3. Checked' = Checked
    BY <2>1 DEF Checked
  <2>4. \A p \in Checked : log'[p] = log[p]
    BY SMTT(30), <1>0, <1>2, <2>1, <2>2
  <2> QED BY <1>1, <2>1, <2>3, <2>4 DEF ReadyInv
<1>4. CASE AddressFree
  <2>1. UNCHANGED <<log, ready, target>> /\ pc' = "pinging" /\ "Ready" \in log[target]
    BY <1>4, ZenonT(30) DEF AddressFree, NoneMissed, Known, fileVars, startVars
  <2>2. Checked' = Checked
    BY <2>1 DEF Checked
  <2> QED BY <1>1, <2>1, <2>2 DEF ReadyInv
<1>5. CASE ServerUp
  <2>1. UNCHANGED log /\ pc = "pinging" /\ pc' # "pinging" /\ ready' = Append(ready, target)
    BY <1>5 DEF ServerUp, fileVars
  <2>2. Checked' \subseteq Checked \union {target}
    BY <1>0, <2>1 DEF Checked
  <2> QED BY <1>1, <2>1, <2>2 DEF ReadyInv
<1>6. CASE Start \/ StartRedisServer \/ (\E p \in Ports : PopServer(p))
           \/ AllServersUp \/ CreateCluster \/ ReplicaOf \/ Settled \/ ViewComplete \/ ViewIncomplete
           \/ Tls
  <2>1. UNCHANGED <<log, ready>> /\ pc' # "pinging"
    <3>1. CASE Tls
      BY <3>1, SMTT(30) DEF Tls, fileVars, startVars
    <3>2. CASE ~Tls
      BY <1>6, <3>2, ZenonT(30) DEF Start, StartRedisServer, Launch, PopServer, AllServersUp, CreateCluster,
         ReplicaOf, Settled, ViewComplete, ViewIncomplete, StartEnds, fileVars, startVars
    <3> QED BY <3>1, <3>2
  <2>2. Checked' = Checked
    BY SMTT(30), <2>1 DEF Checked
  <2> QED BY <1>1, <2>1, <2>2 DEF ReadyInv
<1>7. CASE /\ UNCHANGED <<pc, target, args, toStart, toCheck, ready, viewed, dirs>>
           /\ \A p \in Ports : log[p] \subseteq log'[p]
  <2>1. Checked' = Checked
    BY <1>7 DEF Checked
  <2> QED BY SMTT(30), <1>0, <1>1, <1>2, <1>7, <2>1 DEF ReadyInv
<1> QED BY <1>0, <1>3, <1>4, <1>5, <1>6, <1>7, RunningStep, ZenonT(30)

(* The three together, from the first state on. *)
LEMMA StartInvInit == Init => StartInv
<1> SUFFICES ASSUME Init PROVE ViewInv /\ ListsInv /\ CountInv /\ SettledInv /\ ReadyInv
  BY DEF StartInv
<1>1. /\ pc = "idle" /\ dirs = {} /\ ready = <<>> /\ toCheck = [p \in Ports |-> 0]
      /\ log = [p \in Ports |-> {}] /\ toStart = 0
  BY DEF Init
<1>2. Pending = {} /\ AtHand = {} /\ Checked = {}
  BY <1>1 DEF Pending, AtHand, Checked
<1>3. ListsInv
  BY SMTT(30), <1>1, <1>2 DEF ListsInv
<1>4. CountInv
  BY SMTT(30), <1>1, <1>2, FS_EmptySet DEF CountInv
<1> QED BY <1>1, <1>2, <1>3, <1>4 DEF ViewInv, SettledInv, ReadyInv

LEMMA StartInvStep == TypeInv /\ StartInv /\ [Next]_vars => StartInv'
<1> SUFFICES ASSUME TypeInv, StartInv, [Next]_vars, pc' \in Running
             PROVE  /\ ViewInv'
                    /\ NoSamePort' => (ListsInv /\ CountInv /\ SettledInv)'
                    /\ NoneMissed' => ReadyInv'
  BY SMTT(30) DEF StartInv
<1>0. pc \in Running
  BY RunningStep DEF TypeInv, TypeOK
<1>1. (NoSamePort' => NoSamePort) /\ (NoneMissed' => NoneMissed) /\ (NoneMissed => NoSamePort)
  BY MishapsGrow, ZenonT(30) DEF NoSamePort, NoneMissed, Known
<1>2. NoSamePort => ListsInv /\ CountInv /\ SettledInv
  BY <1>0 DEF StartInv
<1>3. NoneMissed => ReadyInv
  BY SMTT(30), <1>0 DEF StartInv
<1>4. ViewInv'
  BY <1>0, ViewStep, ZenonT(60) DEF StartInv
<1> QED BY SMTT(30), <1>0, <1>1, <1>2, <1>3, <1>4, ListsStep, SettledStep, ReadyStep

(* The servers that create_servers returns are as many as were asked for, have
   ports of their own and belong to this start: for any number of shards and
   replicas, whatever other programs do with the ports, and with the exceptions
   that ReadyServersAreOurs names. *)
THEOREM ReadyServersAreOursHolds == Spec => []ReadyServersAreOurs
<1>1. TypeInv /\ StartInv => ReadyServersAreOurs
  <2> SUFFICES ASSUME TypeInv, StartInv, pc \in {"joining", "settling", "viewing", "started"}, NoneMissed
               PROVE  /\ Len(ready) = NodesCount(args)
                      /\ \A i, j \in 1..Len(ready) : i # j => ready[i] # ready[j]
                      /\ \A i \in 1..Len(ready) : owner[ready[i]] = "cluster"
    BY DEF ReadyServersAreOurs, NoneMissed
  <2>0. ready \in Seq(Ports) /\ pc \in Running
    BY DEF TypeInv, TypeOK, StartTypeOK, Running, Starting
  <2>1. NoSamePort
    BY ZenonT(30) DEF NoSamePort, NoneMissed, Known
  <2>2. ListsInv /\ CountInv /\ ReadyInv
    BY <2>0, <2>1 DEF StartInv
  <2>3. Len(ready) = NodesCount(args)
    <3>1. dirs = Checked
      BY <2>2 DEF ListsInv, CountInv, AtHand
    <3>2. toStart = 0 /\ toStart + Cardinality(dirs) = NodesCount(args) /\ Cardinality(Checked) = Len(ready)
      BY SMTT(30), <2>2 DEF CountInv
    <3> QED BY SMTT(30), <2>0, <3>1, <3>2
  <2>4. \A i \in 1..Len(ready) : owner[ready[i]] = "cluster"
    BY SMTT(30), <2>0, <2>2 DEF ReadyInv, Checked
  <2> QED BY SMTT(30), <2>2, <2>3, <2>4 DEF ListsInv
<1> QED BY <1>1, TypeInvInit, TypeInvStep, StartInvInit, StartInvStep, PTL DEF Spec

(* A start with cluster mode returns only after every server it returns has
   logged that the cluster is up, for any number of servers: the folders that
   create_cluster waits for are those of the servers of its list.  And it returns
   no two servers with one port, whatever the views say before. *)
THEOREM ClusterIsUpHolds == Spec => []ClusterIsUp
<1>1. TypeInv /\ StartInv => ClusterIsUp
  <2> SUFFICES ASSUME TypeInv, StartInv, pc = "started", args.cluster_mode
               PROVE  /\ NoSamePort => \A i \in 1..Len(ready) : "settled" \in log[ready[i]]
                      /\ Known({"stranger viewed"}) =>
                           \A i, j \in 1..Len(ready) : i # j => ready[i] # ready[j]
    BY DEF ClusterIsUp, NoSamePort
  <2>1. pc \in Running
    BY DEF Running
  <2>2. ASSUME NoSamePort, NEW i \in 1..Len(ready) PROVE "settled" \in log[ready[i]]
    <3>1. ListsInv /\ SettledInv
      BY <2>1, <2>2, Zenon DEF StartInv
    <3>2. ready[i] \in dirs
      BY <3>1 DEF ListsInv, Checked
    <3> QED BY <3>1, <3>2 DEF SettledInv
  <2>3. ASSUME Known({"stranger viewed"}), NEW i \in 1..Len(ready), NEW j \in 1..Len(ready), i # j
        PROVE  ready[i] # ready[j]
    <3>1. ViewInv
      BY <2>1, Zenon DEF StartInv
    <3>2. viewed # 0
      <4>1. viewed = Len(ready) /\ ready \in Seq(Ports)
        BY <3>1, Zenon DEF ViewInv, TypeInv, TypeOK, StartTypeOK
      <4> QED BY <4>1
    <3> QED BY <2>3, <3>1, <3>2, Zenon DEF ViewInv
  <2> QED BY <2>2, <2>3, Zenon
<1> QED BY <1>1, TypeInvInit, TypeInvStep, StartInvInit, StartInvStep, PTL DEF Spec
=============================================================================
