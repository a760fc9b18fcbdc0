-------------------------- MODULE StandaloneClient --------------------------
(***************************************************************************)
(* The core's standalone client (glide-core/src/client/standalone_client.rs)*)
(* over several nodes: create_client, the choice of a node for a request   *)
(* (get_connection and round_robin_read_from_replica), the request itself, *)
(* its timeout, and the drop of the client.  Each node's connection is     *)
(* seen as in module Link: up, down, or new until it was created.          *)
(*                                                                         *)
(* Requests run on several threads of the runtime, so every access to the  *)
(* shared index and every is_connected() is a step of its own.  Node       *)
(* indexes count from 0, as in the code.                                   *)
(***************************************************************************)
EXTENDS Integers, Sequences, FiniteSets

CONSTANTS
  Addresses,      \* the addresses of the connection request
  Requests,       \* requests that run concurrently
  PreferReplica,  \* read_from: PreferReplica, or Primary
  Nowhere         \* no node chosen

ASSUME ConstantsAssumption ==
  /\ IsFiniteSet(Addresses) /\ Addresses # {}
  /\ PreferReplica \in BOOLEAN
  /\ Nowhere \notin Addresses

VARIABLES
  phase,    \* "creating", "ready", "failed", "released" or "dropped"
  nodes,    \* DropWrapper.nodes: the addresses in the order they answered
  primary,  \* DropWrapper.primary_index, -1 for None
  masters,  \* history: the addresses that reported role:master
  link,     \* link of each node, see module Link
  latest,   \* latest_read_replica_index
  pc,       \* what each request is doing
  initial,  \* initial_index of a request that scans the replicas
  count,    \* its check_count
  target,   \* the node chosen for the request
  steady,   \* history: the nodes that were up ever since the scan started
  lastRead  \* history: the replica of the last read, if it stored its index,
            \* no other read ran beside it and no link has changed since

clientVars == <<phase, nodes, primary, masters>>
scanVars   == <<initial, count, steady>>
vars == <<clientVars, link, latest, pc, scanVars, target, lastRead>>

At(i) == nodes[i + 1]
Up == {a \in Addresses : link[a] = "up"}
Answered == {nodes[i] : i \in 1..Len(nodes)}
Active == {r \in Requests : pc[r] # "idle"}
Scanning == {r \in Requests : pc[r] \in {"scan", "exchange"}}

Init ==
  /\ phase = "creating" /\ nodes = <<>> /\ primary = -1 /\ masters = {}
  /\ link = [a \in Addresses |-> "new"]
  /\ latest = 0
  /\ pc = [r \in Requests |-> "idle"]
  /\ initial = [r \in Requests |-> 0] /\ count = [r \in Requests |-> 0]
  /\ target = [r \in Requests |-> Nowhere]
  /\ steady = [r \in Requests |-> {}] /\ lastRead = Nowhere

(* The links after a step, and with them the history of the scans. *)
LinksStay ==
  /\ UNCHANGED <<link, lastRead>>
  /\ steady' = [r \in Requests |-> IF pc'[r] = "idle" THEN {} ELSE steady[r]]

LinkBecomes(a, l) ==
  /\ link' = [link EXCEPT ![a] = l]
  /\ lastRead' = Nowhere
  /\ steady' = [r \in Requests |-> IF pc'[r] = "idle" THEN {}
                                   ELSE IF l = "up" THEN steady[r] ELSE steady[r] \ {a}]

-----------------------------------------------------------------------------
(* get_connection_and_replication_info: ReconnectingConnection::new succeeds,
   and INFO REPLICATION is sent. *)
Connect(a) ==
  /\ phase = "creating" /\ link[a] = "new"
  /\ link' = [link EXCEPT ![a] = "up"]
  /\ UNCHANGED <<clientVars, latest, pc, scanVars, target, lastRead>>

(* It fails: the Err arm of the loop keeps the node, which goes on
   reconnecting. *)
ConnectErr(a) ==
  /\ phase = "creating" /\ link[a] = "new"
  /\ link' = [link EXCEPT ![a] = "down"]
  /\ nodes' = Append(nodes, a)
  /\ UNCHANGED <<phase, primary, masters, latest, pc, scanVars, target, lastRead>>

AwaitsInfo(a) == phase = "creating" /\ link[a] # "new" /\ a \notin Answered

(* The INFO request fails: the node is kept too. *)
InfoErr(a) ==
  /\ AwaitsInfo(a)
  /\ nodes' = Append(nodes, a)
  /\ UNCHANGED <<phase, primary, masters, link, latest, pc, scanVars, target, lastRead>>

(* Mutant: the primary's index is the number of nodes that answered INFO. *)
InfoOkMiscounts(a, master) ==
  /\ AwaitsInfo(a)
  /\ nodes' = Append(nodes, a)
  /\ primary' = IF primary = -1 /\ master THEN Cardinality(Up \cap Answered) ELSE primary
  /\ masters' = IF master THEN masters \cup {a} ELSE masters
  /\ UNCHANGED <<phase, link, latest, pc, scanVars, target, lastRead>>

(* The node answers INFO REPLICATION; the first master to answer is the
   primary. *)
InfoOk(a, master) ==
  /\ AwaitsInfo(a)
  /\ nodes' = Append(nodes, a)
  /\ primary' = IF primary = -1 /\ master THEN Len(nodes) ELSE primary
  /\ masters' = IF master THEN masters \cup {a} ELSE masters
  /\ UNCHANGED <<phase, link, latest, pc, scanVars, target, lastRead>>

(* Mutant: a client without a primary is handed out. *)
CreationEndsAnyhow ==
  /\ phase = "creating" /\ Answered = Addresses
  /\ phase' = "ready"
  /\ UNCHANGED <<nodes, primary, masters, link, latest, pc, scanVars, target, lastRead>>

(* The stream of answers is exhausted. *)
CreationEnds ==
  /\ phase = "creating" /\ Answered = Addresses
  /\ phase' = IF primary = -1 THEN "failed" ELSE "ready"
  /\ UNCHANGED <<nodes, primary, masters, link, latest, pc, scanVars, target, lastRead>>

(* Client::new gives up after DEFAULT_CLIENT_CREATION_TIMEOUT. *)
CreationTimesOut ==
  /\ phase = "creating"
  /\ phase' = "failed"
  /\ UNCHANGED <<nodes, primary, masters, link, latest, pc, scanVars, target, lastRead>>

-----------------------------------------------------------------------------
(* get_primary_connection, for a write, a pipeline, a client of one node, and a
   client that reads from the primary. *)
SendToPrimary(r) ==
  /\ phase = "ready" /\ pc[r] = "idle"
  /\ pc' = [pc EXCEPT ![r] = "wait"]
  /\ target' = [target EXCEPT ![r] = At(primary)]
  /\ UNCHANGED <<clientVars, link, latest, scanVars, lastRead>>

(* round_robin_read_from_replica: the shared index is loaded. *)
StartScan(r) ==
  /\ phase = "ready" /\ pc[r] = "idle"
  /\ PreferReplica /\ Len(nodes) > 1
  /\ pc' = [pc EXCEPT ![r] = "scan"]
  /\ initial' = [initial EXCEPT ![r] = latest]
  /\ count' = [count EXCEPT ![r] = 0]
  /\ steady' = [steady EXCEPT ![r] = Up]
  /\ UNCHANGED <<clientVars, link, latest, target, lastRead>>

ScanIndex(r) == (initial[r] + count[r] + 1) % Len(nodes)

(* All nodes were looked at: the primary serves the read. *)
ScanExhausted(r) ==
  /\ pc[r] = "scan" /\ count[r] + 1 > Len(nodes)
  /\ pc' = [pc EXCEPT ![r] = "wait"]
  /\ target' = [target EXCEPT ![r] = At(primary)]
  /\ count' = [count EXCEPT ![r] = @ + 1]
  /\ UNCHANGED <<clientVars, link, latest, initial, steady, lastRead>>

(* Mutant: the scan stops at the primary. *)
ScanStopsAtPrimary(r) ==
  /\ pc[r] = "scan" /\ count[r] + 1 <= Len(nodes)
  /\ ScanIndex(r) = primary \/ link[At(ScanIndex(r))] # "up"
  /\ count' = [count EXCEPT ![r] = IF ScanIndex(r) = primary THEN Len(nodes) ELSE @ + 1]
  /\ UNCHANGED <<clientVars, link, latest, pc, initial, target, steady, lastRead>>

(* The primary and nodes that are not connected are passed over. *)
ScanSkips(r) ==
  /\ pc[r] = "scan" /\ count[r] + 1 <= Len(nodes)
  /\ ScanIndex(r) = primary \/ link[At(ScanIndex(r))] # "up"
  /\ count' = [count EXCEPT ![r] = @ + 1]
  /\ UNCHANGED <<clientVars, link, latest, pc, initial, target, steady, lastRead>>

(* is_connected() of a replica. *)
ScanFinds(r) ==
  /\ pc[r] = "scan" /\ count[r] + 1 <= Len(nodes)
  /\ ScanIndex(r) # primary /\ link[At(ScanIndex(r))] = "up"
  /\ pc' = [pc EXCEPT ![r] = "exchange"]
  /\ count' = [count EXCEPT ![r] = @ + 1]
  /\ target' = [target EXCEPT ![r] = At(ScanIndex(r))]
  /\ UNCHANGED <<clientVars, link, latest, initial, steady, lastRead>>

OnlyScan(r) == \A q \in Scanning : q = r

(* Mutant: the result of the exchange is never stored. *)
ExchangeNothing(r) ==
  /\ pc[r] = "exchange"
  /\ latest = initial[r] /\ UNCHANGED latest
  /\ lastRead' = IF OnlyScan(r) THEN target[r] ELSE Nowhere
  /\ pc' = [pc EXCEPT ![r] = "wait"]
  /\ UNCHANGED <<clientVars, link, scanVars, target>>

(* compare_exchange_weak(initial_index, index), whose result is ignored: it may
   fail although the index is the one loaded. *)
Exchange(r) ==
  /\ pc[r] = "exchange"
  /\ \/ /\ latest = initial[r]
        /\ latest' = (initial[r] + count[r]) % Len(nodes)
        /\ lastRead' = IF OnlyScan(r) THEN target[r] ELSE Nowhere
     \/ /\ UNCHANGED latest
        /\ lastRead' = Nowhere
  /\ pc' = [pc EXCEPT ![r] = "wait"]
  /\ UNCHANGED <<clientVars, link, scanVars, target>>

-----------------------------------------------------------------------------
(* Mutant: the request trusts the is_connected() it saw while choosing. *)
GetConnectionNow(r) ==
  /\ pc[r] = "wait"
  /\ pc' = [pc EXCEPT ![r] = "sent"]
  /\ UNCHANGED <<clientVars, link, latest, scanVars, target, lastRead>>

(* send_request on the chosen node: get_connection().await ... *)
GetConnection(r) ==
  /\ pc[r] = "wait" /\ link[target[r]] = "up"
  /\ pc' = [pc EXCEPT ![r] = "sent"]
  /\ UNCHANGED <<clientVars, link, latest, scanVars, target, lastRead>>

(* The request ends, and its clone of the client goes; the last clone runs
   DropWrapper::drop. *)
FinishRequest(r) ==
  /\ pc' = [pc EXCEPT ![r] = "idle"]
  /\ target' = [target EXCEPT ![r] = Nowhere]
  /\ initial' = [initial EXCEPT ![r] = 0]
  /\ count' = [count EXCEPT ![r] = 0]
  /\ phase' = IF phase = "released" /\ Active = {r} THEN "dropped" ELSE phase
  /\ UNCHANGED <<nodes, primary, masters, latest>>

(* ... then an answer, ... *)
Reply(r) ==
  /\ pc[r] = "sent"
  /\ FinishRequest(r)
  /\ LinksStay

(* ... or a disconnect, which calls reconnect(). *)
Disconnected(r) ==
  /\ pc[r] = "sent"
  /\ FinishRequest(r)
  /\ LinkBecomes(target[r], "down")

(* run_with_timeout drops the request at one of its two awaits. *)
Timeout(r) ==
  /\ pc[r] \in {"wait", "sent"}
  /\ FinishRequest(r)
  /\ LinksStay

(* The handle of the client is dropped. *)
Release ==
  /\ phase = "ready"
  /\ phase' = IF Active = {} THEN "dropped" ELSE "released"
  /\ UNCHANGED <<nodes, primary, masters, link, latest, pc, scanVars, target, lastRead>>

(* A reconnect task installs its connection; the heartbeat finds a node gone. *)
Restore(a) ==
  /\ link[a] = "down"
  /\ UNCHANGED <<clientVars, latest, pc, initial, count, target>>
  /\ LinkBecomes(a, "up")

HeartbeatLoses(a) ==
  /\ phase \in {"ready", "released", "dropped"} /\ link[a] = "up"
  /\ UNCHANGED <<clientVars, latest, pc, initial, count, target>>
  /\ LinkBecomes(a, "down")

ScanStep(r) == ScanExhausted(r) \/ ScanSkips(r) \/ ScanFinds(r) \/ Exchange(r)

Next ==
  \/ \E a \in Addresses :
       \/ Connect(a) \/ ConnectErr(a) \/ InfoErr(a)
       \/ \E master \in BOOLEAN : InfoOk(a, master)
       \/ Restore(a) \/ HeartbeatLoses(a)
  \/ CreationEnds \/ CreationTimesOut \/ Release
  \/ \E r \in Requests :
       \/ SendToPrimary(r) \/ StartScan(r) \/ ScanStep(r)
       \/ GetConnection(r) \/ Reply(r) \/ Disconnected(r) \/ Timeout(r)

Spec == Init /\ [][Next]_vars

-----------------------------------------------------------------------------
(* Every variable has its type, and both node indexes are in bounds whenever
   they are used: get_primary_connection's unwrap cannot fail, and the None arm
   of nodes.get(index) is never taken. *)
TypeOK ==
  /\ phase \in {"creating", "ready", "failed", "released", "dropped"}
  /\ nodes \in Seq(Addresses)
  /\ primary \in -1..(Len(nodes) - 1)
  /\ masters \subseteq Addresses
  /\ link \in [Addresses -> {"new", "up", "down"}]
  /\ latest \in Nat
  /\ pc \in [Requests -> {"idle", "scan", "exchange", "wait", "sent"}]
  /\ initial \in [Requests -> Nat] /\ count \in [Requests -> Nat]
  /\ target \in [Requests -> Addresses \cup {Nowhere}]
  /\ steady \in [Requests -> SUBSET Addresses]
  /\ lastRead \in Addresses \cup {Nowhere}
  /\ phase \in {"ready", "released"} => primary >= 0 /\ latest < Len(nodes)
  /\ \A r \in Requests : target[r] # Nowhere <=> pc[r] \in {"exchange", "wait", "sent"}

(* However the answers of the nodes interleave and whichever of them fail, a
   created client has every address exactly once, and its primary is a node
   that reported role:master. *)
PrimaryIsMaster ==
  phase \in {"ready", "released"} =>
    /\ Answered = Addresses /\ Len(nodes) = Cardinality(Addresses)
    /\ At(primary) \in masters

Index(a) == CHOOSE i \in 0..(Len(nodes) - 1) : At(i) = a
Replicas == Addresses \ {At(primary)}

(* How many nodes a scan that starts after index i meets before node a. *)
Distance(i, a) == (Index(a) - i - 1) % Len(nodes)

(* The choice of a read: the nearest replica after the index it loaded, or the
   primary; a replica is passed over only if it was down at some moment of the
   scan, so one that stays connected is never skipped, and the primary never
   serves the read while one exists. *)
NoReplicaSkipped ==
  \A r \in Requests :
    pc[r] \in {"exchange", "wait"} /\ count[r] > 0 =>
      \A a \in steady[r] \cap Replicas :
        /\ target[r] # At(primary)
        /\ Distance(initial[r], target[r]) <= Distance(initial[r], a)

(* Two reads one after the other, with no other read in between, no change of
   any link, and an exchange that was carried out, use different replicas when
   there are two to choose from.  The test of round robin reads (three reads,
   three replicas, one read each) relies on it, and on no exchange failing. *)
ReadsAlternate ==
  \A r \in Requests :
    pc[r] = "exchange" /\ Cardinality(Up \cap Replicas) > 1 => target[r] # lastRead

(* A node as its own requests see it. *)
Node(a) == INSTANCE Link WITH
  link <- link[a],
  use <- [r \in Requests |->
            IF target[r] # a \/ pc[r] = "exchange" THEN "out"
            ELSE IF pc[r] = "wait" THEN "waiting" ELSE "holding"]

(* The client uses each of its nodes as a link may be used, and relies on no
   more than a link offers: it is a composition of links. *)
NodesAreLinks ==
  /\ \A a \in Addresses : Node(a)!Init
  /\ [][\A a \in Addresses : [Node(a)!Next]_(Node(a)!linkVars)]_vars
=============================================================================
