--------------------------- MODULE ClusterManager ---------------------------
(***************************************************************************)
(* utils/cluster_manager.py: one `start`, which launches the servers of a  *)
(* cluster, checks them and joins them, and then any number of `stop`s of  *)
(* its folder.  The tool keeps no state but the file system: a server is   *)
(* known by the folder named after its port, and what became of it is read *)
(* from the log in that folder and from PING.                              *)
(*                                                                         *)
(* Beside the tool run the servers it launched, which bind their port some *)
(* time after redis-server has returned, and other programs of the host,   *)
(* which take and leave ports.  Every wait of the tool may end by its      *)
(* timeout; durations are left out.                                        *)
(***************************************************************************)
EXTENDS TlsFiles, FiniteSets

CONSTANTS
  Ports,          \* ports the tool may choose or be given
  Starts,         \* argument records of `start`, see StartArgs
  MaxStops,       \* bound: runs of `stop`
  MaxTaken,       \* bound: ports taken by other programs
  StopRetries,    \* retries of stop_server, 3 in the code
  ViewRetries,    \* retries of wait_for_all_topology_views, 60 in the code
  NoPort

(* ports is <<>> when --ports is not given. *)
StartArgs ==
  [ports : Seq(Ports), cluster_mode : BOOLEAN, shard_count : Nat \ {0}, replica_count : Nat,
   tls : BOOLEAN]

ASSUME ManagerAssumption ==
  /\ IsFiniteSet(Ports) /\ NoPort \notin Ports
  /\ Starts \subseteq StartArgs
  /\ MaxStops \in Nat /\ MaxTaken \in Nat /\ StopRetries \in Nat /\ ViewRetries \in Nat

VARIABLES
  owner,      \* who listens on a port: "nobody", "cluster" or "stranger"
  booting,    \* servers launched on a port that have not bound it yet
  folder,     \* the cluster's folder exists
  dirs,       \* the node folders in it, named after ports
  log,        \* what redis.log in a node folder says; {} when there is none
  pc,         \* what the tool is doing
  args,       \* the arguments of `start`
  toStart,    \* servers still to launch
  toCheck,    \* servers_to_check: how many of its servers have a port
  ready,      \* ready_servers
  joined,     \* how many servers of ready_servers were told to join or to replicate
  viewed,     \* how many of them were seen to know all the others
  asks,       \* retries left to ask the next one
  target,     \* the server being checked or stopped
  retries,    \* of stop_server
  verify,     \* verify_times of wait_for_server_shutdown
  blip,       \* in this wait a PING failed although the server was up
  toStop,     \* node folders `stop` has not come to
  stops,      \* runs of `stop`
  taken,      \* ports taken by strangers so far
  mishaps     \* history: what happened that the tool cannot see

procVars == <<owner, booting>>
fileVars == <<folder, dirs, log>>
viewVars == <<viewed, asks>>
joinVars == <<joined, viewVars>>
startVars == <<args, toStart, toCheck, ready, joinVars>>
stopVars == <<retries, verify, blip, toStop, stops>>
vars == <<tlsVars, procVars, fileVars, pc, startVars, target, stopVars, taken, mishaps>>

LogLines == {"file", "Ready", "Address already in use", "settled"}
Mishaps == {"same port", "slow", "crash", "stranger asked", "stranger viewed"}
Starting == {"tls", "launching", "checking", "reading", "pinging", "joining", "settling", "viewing"}
Stopping == {"stopping", "shutting", "verifying"}

NodesCount(a) == (IF a.cluster_mode THEN a.shard_count ELSE 1) * (1 + a.replica_count)

HostTypeOK ==
  /\ owner \in [Ports -> {"nobody", "cluster", "stranger"}]
  /\ booting \in [Ports -> Nat]
  /\ taken \in Nat /\ mishaps \subseteq Mishaps

FilesTypeOK ==
  /\ folder \in BOOLEAN /\ dirs \subseteq Ports /\ (dirs # {} => folder)
  /\ log \in [Ports -> SUBSET LogLines] /\ \A p \in Ports : log[p] # {} => p \in dirs

StartTypeOK ==
  /\ args \in Starts
  /\ toStart \in Nat /\ toCheck \in [Ports -> Nat]
  /\ ready \in Seq(Ports) /\ joined \in 0..Len(ready)
  /\ viewed \in 0..Len(ready) /\ asks \in 0..ViewRetries

StopTypeOK ==
  /\ retries \in 0..StopRetries /\ verify \in 0..2 /\ blip \in BOOLEAN
  /\ toStop \subseteq Ports /\ stops \in Nat

PcTypeOK ==
  /\ pc \in {"idle", "started", "failed", "stopped", "stop failed"} \union Starting \union Stopping
  /\ target \in Ports \union {NoPort}
  /\ pc \in {"reading", "pinging", "shutting", "verifying"} => target \in Ports

TypeOK ==
  TlsTypeOK /\ HostTypeOK /\ FilesTypeOK /\ StartTypeOK /\ StopTypeOK /\ PcTypeOK

Init ==
  /\ TlsInit
  /\ owner = [p \in Ports |-> "nobody"] /\ booting = [p \in Ports |-> 0]
  /\ folder = FALSE /\ dirs = {} /\ log = [p \in Ports |-> {}]
  /\ pc = "idle" /\ args \in Starts /\ toStart = 0 /\ toCheck = [p \in Ports |-> 0]
  /\ ready = <<>> /\ joined = 0 /\ viewed = 0 /\ asks = ViewRetries /\ target = NoPort
  /\ retries = 0 /\ verify = 0 /\ blip = FALSE /\ toStop = {} /\ stops = 0
  /\ taken = 0 /\ mishaps = {}

-----------------------------------------------------------------------------
(* start *)

(* An exception ends the run; what is on disk and on the host stays. *)
StartEnds ==
  /\ pc' = "failed" /\ toStart' = 0 /\ toCheck' = [p \in Ports |-> 0] /\ target' = NoPort
  /\ viewed' = 0 /\ asks' = ViewRetries

StartRaises ==
  StartEnds /\ UNCHANGED <<tlsVars, procVars, fileVars, args, ready, joined, stopVars, taken, mishaps>>

(* main: the number of ports must be that of the nodes. *)
ParserError ==
  /\ pc = "idle" /\ args.ports # <<>> /\ Len(args.ports) # NodesCount(args)
  /\ StartRaises

(* main: create_cluster_folder, and the beginning of create_servers. *)
Start ==
  /\ pc = "idle" /\ (args.ports # <<>> => Len(args.ports) = NodesCount(args))
  /\ folder' = TRUE /\ toStart' = NodesCount(args)
  /\ pc' = IF args.tls THEN "tls" ELSE "launching"
  /\ tlsPc' = IF args.tls THEN "should" ELSE "off"
  /\ UNCHANGED <<tlsFolder, tlsFiles, tlsIndex, rival, waitedOut, procVars, dirs, log,
                 args, toCheck, ready, joinVars, target, stopVars, taken, mishaps>>

(* create_servers: the TLS files are there, or could not be generated. *)
Tls ==
  /\ pc = "tls" /\ TlsStep
  /\ pc' = CASE tlsPc' = "use" -> "launching" [] tlsPc' = "raised" -> "failed" [] OTHER -> "tls"
  /\ UNCHANGED <<procVars, fileVars, startVars, target, stopVars, taken, mishaps>>

(* The port of the next server: the next one given, or one that
   next_free_port could bind, and has closed again. *)
PortChoices ==
  IF args.ports # <<>> THEN {args.ports[Len(args.ports) - toStart + 1]}
  ELSE {p \in Ports : owner[p] = "nobody"}

(* start_redis_server: the node's folder is made, or found, and redis-server
   leaves a daemon behind (spawned) and returns 0 in time (ok). *)
Launch(p, spawned, ok) ==
  /\ dirs' = dirs \union {p}
  /\ booting' = [booting EXCEPT ![p] = IF spawned THEN @ + 1 ELSE @]
  /\ mishaps' = IF p \in dirs THEN mishaps \union {"same port"} ELSE mishaps
  /\ IF ok THEN /\ toStart' = toStart - 1
                /\ toCheck' = [toCheck EXCEPT ![p] = @ + 1]
                /\ pc' = IF toStart = 1 THEN "checking" ELSE "launching"
                /\ UNCHANGED <<viewVars, target>>
           ELSE StartEnds
  /\ UNCHANGED <<tlsVars, owner, folder, log, args, ready, joined, stopVars, taken>>

StartRedisServer == pc = "launching" /\ \E p \in PortChoices : Launch(p, TRUE, TRUE)

(* A non-zero return code, or two seconds without one. *)
StartRedisServerRaises ==
  pc = "launching" /\ \E p \in PortChoices, spawned \in BOOLEAN : Launch(p, spawned, FALSE)

(* next_free_port: no port could be bound for a minute. *)
NoFreePort ==
  /\ pc = "launching" /\ PortChoices = {}
  /\ StartRaises

(* create_servers: pop a server and look at its log. *)
PopServer(p) ==
  /\ pc = "checking" /\ toCheck[p] > 0
  /\ toCheck' = [toCheck EXCEPT ![p] = @ - 1]
  /\ target' = p /\ pc' = "reading"
  /\ UNCHANGED <<tlsVars, procVars, fileVars, args, toStart, ready, joinVars, stopVars, taken, mishaps>>

(* is_address_already_in_use opens a log that is not there. *)
LogMissing ==
  /\ pc = "reading" /\ log[target] = {}
  /\ StartRaises

(* It returns True: the folder goes, and the server is launched anew on another
   port, unless the ports were given. *)
AddressInUse ==
  /\ pc = "reading" /\ "Address already in use" \in log[target]
  /\ dirs' = dirs \ {target} /\ log' = [log EXCEPT ![target] = {}]
  /\ IF args.ports = <<>>
       THEN pc' = "launching" /\ toStart' = 1 /\ target' = NoPort /\ UNCHANGED <<toCheck, viewVars>>
       ELSE StartEnds
  /\ UNCHANGED <<tlsVars, procVars, folder, args, ready, joined, stopVars, taken, mishaps>>

(* remove_folder fails, or takes too long. *)
RemoveFolderRaises ==
  /\ pc = "reading" /\ "Address already in use" \in log[target]
  /\ StartRaises

(* Mutant: only "Ready" and the timeout are looked for. *)
AddressNotChecked ==
  /\ pc = "reading" /\ log[target] # {}
  /\ pc' = "pinging"
  /\ mishaps' = IF log[target] = {"file"} THEN mishaps \union {"slow"} ELSE mishaps
  /\ UNCHANGED <<tlsVars, procVars, fileVars, startVars, target, stopVars, taken>>

(* It returns False, because the server is ready or because time is up. *)
AddressFree ==
  /\ pc = "reading" /\ log[target] # {} /\ "Address already in use" \notin log[target]
  /\ pc' = "pinging"
  /\ mishaps' = IF "Ready" \in log[target] THEN mishaps ELSE mishaps \union {"slow"}
  /\ UNCHANGED <<tlsVars, procVars, fileVars, startVars, target, stopVars, taken>>

(* wait_for_server: whoever listens on the port answers PONG. *)
ServerUp ==
  /\ pc = "pinging" /\ owner[target] # "nobody"
  /\ ready' = Append(ready, target) /\ pc' = "checking" /\ target' = NoPort
  /\ UNCHANGED <<tlsVars, procVars, fileVars, args, toStart, toCheck, joinVars, stopVars, taken, mishaps>>

WaitForServerTimesOut ==
  /\ pc = "pinging"
  /\ StartRaises

AllServersUp ==
  /\ pc = "checking" /\ \A p \in Ports : toCheck[p] = 0
  /\ pc' = "joining"
  /\ UNCHANGED <<tlsVars, procVars, fileVars, startVars, target, stopVars, taken, mishaps>>

-----------------------------------------------------------------------------
(* create_cluster and create_standalone_replication *)

(* redis-cli --cluster create reaches every server. *)
CreateCluster ==
  /\ pc = "joining" /\ args.cluster_mode
  /\ \A i \in 1..Len(ready) : owner[ready[i]] # "nobody"
  /\ joined' = Len(ready) /\ pc' = "settling"
  /\ UNCHANGED <<tlsVars, procVars, fileVars, args, toStart, toCheck, ready, viewVars, target, stopVars, taken, mishaps>>

(* The next server of the list gets REPLICAOF, the primary is skipped. *)
ReplicaOf ==
  /\ pc = "joining" /\ ~args.cluster_mode /\ joined < Len(ready)
  /\ joined > 0 => owner[ready[joined + 1]] # "nobody"
  /\ joined' = joined + 1
  /\ pc' = IF joined' = Len(ready) THEN "settling" ELSE "joining"
  /\ UNCHANGED <<tlsVars, procVars, fileVars, args, toStart, toCheck, ready, viewVars, target, stopVars, taken, mishaps>>

(* redis-cli reports an error or takes too long. *)
JoinRaises ==
  /\ pc = "joining"
  /\ StartRaises

(* wait_for_a_message_in_redis_logs: the folders whose log is waited for.
   Given the replicas' ports it compares them with the whole path of a folder,
   so it waits for no folder; given no port (no replica) it waits for all. *)
WaitedFor == IF ~args.cluster_mode /\ Len(ready) > 1 THEN {} ELSE dirs

(* The message is in all of these logs. *)
Settled ==
  /\ pc = "settling" /\ \A p \in WaitedFor : "settled" \in log[p]
  /\ pc' = IF args.cluster_mode /\ ready # <<>> THEN "viewing" ELSE "started"
  /\ viewed' = 0 /\ asks' = ViewRetries
  /\ UNCHANGED <<tlsVars, procVars, fileVars, args, toStart, toCheck, ready, joined, target,
                 stopVars, taken, mishaps>>

(* One of them has not got it in time, or is not there. *)
SettleRaises ==
  /\ pc = "settling" /\ \E p \in WaitedFor : "settled" \notin log[p]
  /\ StartRaises

(* wait_for_all_topology_views: how often the answer of the next server to
   CLUSTER SLOTS may name the host.  A server of the cluster names at most the
   servers that were joined, once each; a stranger may name any number. *)
HostsNamed ==
  CASE owner[ready[viewed + 1]] = "cluster" -> 0..Cardinality({ready[i] : i \in 1..Len(ready)})
    [] owner[ready[viewed + 1]] = "stranger" -> 0..Len(ready)
    [] OTHER -> {}

(* Mutant: a view of any size will do. *)
ViewNotCounted ==
  /\ pc = "viewing" /\ HostsNamed # {}
  /\ viewed' = viewed + 1 /\ asks' = ViewRetries
  /\ pc' = IF viewed' = Len(ready) THEN "started" ELSE "viewing"
  /\ mishaps' = IF owner[ready[viewed + 1]] = "stranger" THEN mishaps \union {"stranger viewed"}
                                                       ELSE mishaps
  /\ UNCHANGED <<tlsVars, procVars, fileVars, args, toStart, toCheck, ready, joined, target,
                 stopVars, taken>>

(* It is named as often as there are servers: on to the next one. *)
ViewComplete ==
  /\ pc = "viewing" /\ Len(ready) \in HostsNamed
  /\ viewed' = viewed + 1 /\ asks' = ViewRetries
  /\ pc' = IF viewed' = Len(ready) THEN "started" ELSE "viewing"
  /\ mishaps' = IF owner[ready[viewed + 1]] = "stranger" THEN mishaps \union {"stranger viewed"}
                                                       ELSE mishaps
  /\ UNCHANGED <<tlsVars, procVars, fileVars, args, toStart, toCheck, ready, joined, target,
                 stopVars, taken>>

(* Mutant: the retries start anew when they run out. *)
ViewIncompleteForever ==
  /\ pc = "viewing"
  /\ asks' = IF asks = 0 THEN ViewRetries ELSE asks - 1
  /\ UNCHANGED <<tlsVars, procVars, fileVars, pc, args, toStart, toCheck, ready, joined, viewed, target,
                 stopVars, taken, mishaps>>

(* It is named more or less often, or the answer takes too long: asked again. *)
ViewIncomplete ==
  /\ pc = "viewing"
  /\ IF asks = 0 THEN StartEnds
                 ELSE asks' = asks - 1 /\ UNCHANGED <<pc, toStart, toCheck, viewed, target>>
  /\ UNCHANGED <<tlsVars, procVars, fileVars, args, ready, joined, stopVars, taken, mishaps>>

(* redis-cli reports an error, which is not retried. *)
ViewRaises ==
  /\ pc = "viewing"
  /\ StartRaises

-----------------------------------------------------------------------------
(* stop *)

StopEnds(how) ==
  /\ pc' = how /\ target' = NoPort /\ retries' = 0 /\ verify' = 0 /\ blip' = FALSE /\ toStop' = {}
  /\ UNCHANGED stops

StopRaises ==
  StopEnds("stop failed") /\ UNCHANGED <<tlsVars, procVars, fileVars, startVars, taken, mishaps>>

(* stop_cluster: the folder is listed.  Without the folder it has nothing to
   write its own log to, and raises before it does anything. *)
Stop ==
  /\ pc \in {"started", "failed", "stopped", "stop failed"} /\ folder /\ stops < MaxStops
  /\ stops' = stops + 1 /\ toStop' = dirs /\ pc' = "stopping"
  /\ UNCHANGED <<tlsVars, procVars, fileVars, startVars, target, retries, verify, blip, taken, mishaps>>

StopServer(p) ==
  /\ pc = "stopping" /\ p \in toStop
  /\ target' = p /\ retries' = StopRetries /\ pc' = "shutting"
  /\ UNCHANGED <<tlsVars, procVars, fileVars, startVars, verify, blip, toStop, stops, taken, mishaps>>

(* Whoever listens on the port gets SHUTDOWN, and may go down. *)
SendShutdown ==
  /\ owner[target] # "nobody"
  /\ owner' \in {owner, [owner EXCEPT ![target] = "nobody"]}
  /\ mishaps' = IF owner[target] = "stranger" THEN mishaps \union {"stranger asked"} ELSE mishaps

(* Mutant: one failed PING is enough. *)
VerifyOnce == 1

(* verify_times *)
VerifyTimes == 2

(* redis-cli returns without an error: the server went down, or it answered
   that it would not, which redis-cli does not report as an error. *)
ShutdownReturns ==
  /\ pc = "shutting" /\ SendShutdown
  /\ pc' = "verifying" /\ verify' = VerifyTimes /\ retries' = 0
  /\ UNCHANGED <<tlsVars, booting, fileVars, startVars, target, blip, toStop, stops, taken>>

(* redis-cli reports an error: nobody listens, or whoever does answers with
   one, whether or not it goes down. *)
ShutdownFails ==
  /\ pc = "shutting"
  /\ (owner[target] = "nobody" /\ UNCHANGED <<owner, mishaps>>) \/ SendShutdown

(* Mutant: a server that cannot be shut down counts as stopped. *)
ShutdownRefusedIgnored ==
  /\ ShutdownFails
  /\ pc' = "stopping" /\ toStop' = toStop \ {target} /\ target' = NoPort /\ retries' = 0
  /\ UNCHANGED <<tlsVars, booting, fileVars, startVars, verify, blip, stops, taken>>

(* The error is not retried. *)
ShutdownRefused ==
  /\ ShutdownFails
  /\ StopEnds("stop failed")
  /\ UNCHANGED <<tlsVars, booting, fileVars, startVars, taken>>

(* Mutant: the retries are counted but never run out. *)
ShutdownTimesOutForever ==
  /\ pc = "shutting" /\ SendShutdown
  /\ retries' = retries - 1
  /\ UNCHANGED <<tlsVars, booting, fileVars, startVars, taken, pc, target, verify, blip, toStop, stops>>

(* TimeoutExpired: tried again, whether or not the server went down. *)
ShutdownTimesOut ==
  /\ pc = "shutting" /\ SendShutdown
  /\ IF retries = 0 THEN StopEnds("stop failed")
                    ELSE retries' = retries - 1 /\ UNCHANGED <<pc, target, verify, blip, toStop, stops>>
  /\ UNCHANGED <<tlsVars, booting, fileVars, startVars, taken>>

(* wait_for_server_shutdown: a PING fails, because nobody listens or, at most
   once in a wait, although somebody does. *)
PingFails ==
  /\ pc = "verifying" /\ (owner[target] = "nobody" \/ ~blip)
  /\ verify' = verify - 1
  /\ IF verify = 1
       THEN pc' = "stopping" /\ toStop' = toStop \ {target} /\ blip' = FALSE /\ target' = NoPort
       ELSE blip' = (blip \/ owner[target] # "nobody") /\ UNCHANGED <<pc, toStop, target>>
  /\ UNCHANGED <<tlsVars, procVars, fileVars, startVars, retries, stops, taken, mishaps>>

(* PONG, or no answer, until the time is up. *)
WaitForShutdownTimesOut ==
  /\ pc = "verifying"
  /\ StopRaises

(* "All hosts were stopped": the folder is removed, or kept with --keep-folder. *)
AllHostsStopped ==
  /\ pc = "stopping" /\ toStop = {}
  /\ StopEnds("stopped")
  /\ \/ folder' = FALSE /\ dirs' = {} /\ log' = [p \in Ports |-> {}]
     \/ UNCHANGED fileVars
  /\ UNCHANGED <<tlsVars, procVars, startVars, taken, mishaps>>

(* rm fails or takes too long: some of the folders are gone. *)
RemoveClusterFolderRaises ==
  /\ pc = "stopping" /\ toStop = {}
  /\ StopEnds("stop failed")
  /\ dirs' \in SUBSET dirs
  /\ log' = [p \in Ports |-> IF p \in dirs' THEN log[p] ELSE {}]
  /\ UNCHANGED <<tlsVars, procVars, folder, startVars, taken, mishaps>>

-----------------------------------------------------------------------------
(* The servers and the other programs of the host *)

(* What a server writes to its log, if its folder is still there. *)
Writes(p, lines) ==
  log' = [log EXCEPT ![p] = IF p \in dirs THEN @ \union {"file"} \union lines ELSE @]

(* A launched server writes its first lines. *)
ServerLogs(p) ==
  /\ booting[p] > 0 /\ Writes(p, {}) /\ log' # log
  /\ UNCHANGED <<tlsVars, procVars, folder, dirs, pc, startVars, target, stopVars, taken, mishaps>>

(* It binds its port. *)
ServerBinds(p) ==
  /\ booting[p] > 0 /\ owner[p] = "nobody"
  /\ booting' = [booting EXCEPT ![p] = @ - 1] /\ owner' = [owner EXCEPT ![p] = "cluster"]
  /\ Writes(p, {"Ready"})
  /\ UNCHANGED <<tlsVars, folder, dirs, pc, startVars, target, stopVars, taken, mishaps>>

(* It finds the port in use and ends, or ends for another reason. *)
ServerEnds(p) ==
  /\ booting[p] > 0
  /\ booting' = [booting EXCEPT ![p] = @ - 1]
  /\ \/ Writes(p, {})
     \/ owner[p] # "nobody" /\ Writes(p, {"Address already in use"})
  /\ UNCHANGED <<tlsVars, owner, folder, dirs, pc, startVars, target, stopVars, taken, mishaps>>

(* A server that was told to join reports so in its log. *)
ServerSettles(p) ==
  /\ owner[p] = "cluster" /\ \E i \in (IF args.cluster_mode THEN 1 ELSE 2)..joined : ready[i] = p
  /\ Writes(p, {"settled"}) /\ log' # log
  /\ UNCHANGED <<tlsVars, procVars, folder, dirs, pc, startVars, target, stopVars, taken, mishaps>>

(* A running server goes down by itself, or by a SHUTDOWN whose redis-cli the
   tool no longer waits for. *)
ServerCrashes(p) ==
  /\ owner[p] = "cluster"
  /\ owner' = [owner EXCEPT ![p] = "nobody"] /\ mishaps' = mishaps \union {"crash"}
  /\ UNCHANGED <<tlsVars, booting, fileVars, pc, startVars, target, stopVars, taken>>

StrangerTakes(p) ==
  /\ owner[p] = "nobody" /\ taken < MaxTaken
  /\ owner' = [owner EXCEPT ![p] = "stranger"] /\ taken' = taken + 1
  /\ UNCHANGED <<tlsVars, booting, fileVars, pc, startVars, target, stopVars, mishaps>>

StrangerLeaves(p) ==
  /\ owner[p] = "stranger"
  /\ owner' = [owner EXCEPT ![p] = "nobody"]
  /\ UNCHANGED <<tlsVars, booting, fileVars, pc, startVars, target, stopVars, taken, mishaps>>

(* Another manager is busy with the TLS files. *)
Rival ==
  /\ RivalStep
  /\ UNCHANGED <<procVars, fileVars, pc, startVars, target, stopVars, taken, mishaps>>

-----------------------------------------------------------------------------
StartStep ==
  \/ ParserError \/ Start \/ Tls
  \/ StartRedisServer \/ StartRedisServerRaises \/ NoFreePort
  \/ \E p \in Ports : PopServer(p)
  \/ LogMissing \/ AddressInUse \/ RemoveFolderRaises \/ AddressFree
  \/ ServerUp \/ WaitForServerTimesOut \/ AllServersUp
  \/ CreateCluster \/ ReplicaOf \/ JoinRaises \/ Settled \/ SettleRaises
  \/ ViewComplete \/ ViewIncomplete \/ ViewRaises

StopStep ==
  \/ \E p \in Ports : StopServer(p)
  \/ ShutdownReturns \/ ShutdownRefused \/ ShutdownTimesOut
  \/ PingFails \/ WaitForShutdownTimesOut
  \/ AllHostsStopped \/ RemoveClusterFolderRaises

HostStep ==
  \/ \E p \in Ports :
       \/ ServerLogs(p) \/ ServerBinds(p) \/ ServerEnds(p) \/ ServerSettles(p)
       \/ ServerCrashes(p) \/ StrangerTakes(p) \/ StrangerLeaves(p)
  \/ Rival

Next == StartStep \/ Stop \/ StopStep \/ HostStep

Spec == Init /\ [][Next]_vars

(* A run of the tool goes on until it returns or raises; nobody has to run
   `stop`, and nothing is assumed of the servers or of the host. *)
FairSpec == Spec /\ WF_vars(StartStep) /\ WF_vars(StopStep)

-----------------------------------------------------------------------------
Alive(p) == owner[p] = "cluster" \/ booting[p] > 0
Known(excluded) == mishaps \intersect excluded = {}

(* `stop` finds servers by the folders named after their ports.  Every server
   the tool launched and that may still run has its folder, also after a start
   or a stop that raised half way.  The two exceptions are two servers of one
   start that got the same port, and a stranger's server that was asked to shut
   down in the place of one of ours. *)
ServersHaveFolders ==
  Known({"same port", "stranger asked"}) => \A p \in Ports : Alive(p) => p \in dirs

(* After "All hosts were stopped" no server of the cluster runs or is about to,
   although one PING of each wait may have failed while the server was up. *)
StoppedMeansDown ==
  pc = "stopped" /\ Known({"same port", "stranger asked"}) => \A p \in Ports : ~Alive(p)

(* The servers that create_servers returns are as many as were asked for, and
   each of them is one it launched itself and not a stranger that happens to
   answer on the port; unless two got the same port, a log stayed silent until
   the timeout, or a server went down in the meantime. *)
ReadyServersAreOurs ==
  pc \in {"joining", "settling", "viewing", "started"} /\ Known({"same port", "slow", "crash"}) =>
    /\ Len(ready) = NodesCount(args)
    /\ \A i, j \in 1..Len(ready) : i # j => ready[i] # ready[j]
    /\ \A i \in 1..Len(ready) : owner[ready[i]] = "cluster"

(* A start with cluster mode returns only after every server it returns has
   logged that the cluster is up (create_cluster waits for all the folders it
   finds, not for the servers of its list), unless two of them got the same
   port.  And it never returns a cluster in which two share a port: no view can
   then name as many hosts as there are servers, unless a stranger's view was
   taken for that of one of them. *)
ClusterIsUp ==
  pc = "started" /\ args.cluster_mode =>
    /\ Known({"same port"}) => \A i \in 1..Len(ready) : "settled" \in log[ready[i]]
    /\ Known({"stranger viewed"}) => \A i, j \in 1..Len(ready) : i # j => ready[i] # ready[j]

(* Every run of the tool returns or raises, whatever the servers do. *)
RunsEnd == (pc \in Starting \union Stopping) ~> (pc \notin Starting \union Stopping)
=============================================================================
