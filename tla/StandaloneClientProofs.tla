----------------------- MODULE StandaloneClientProofs -----------------------
(***************************************************************************)
(* Machine-checked proofs about StandaloneClient, for any set of addresses *)
(* and any number of concurrent requests: the client that create_client    *)
(* returns, the choice of a replica by round_robin_read_from_replica, and  *)
(* the use of each node as a Link.                                         *)
(***************************************************************************)
EXTENDS StandaloneClient, FiniteSetTheorems, TLAPS

Served == {"ready", "released"}

(* The node list while it grows, and where requests run: TypeOK and
   PrimaryIsMaster with what makes them inductive. *)
NodesInv ==
  /\ TypeOK
  /\ \A i, j \in 1..Len(nodes) : nodes[i] = nodes[j] => i = j
  /\ IsFiniteSet(Answered) /\ Cardinality(Answered) = Len(nodes)
  /\ \A a \in Addresses : link[a] = "new" => a \notin Answered
  /\ primary # -1 => At(primary) \in masters
  /\ phase \in Served => Answered = Addresses
  /\ \A r \in Requests : pc[r] # "idle" => phase \in Served
  /\ phase = "creating" => latest = 0 /\ lastRead = Nowhere

Places == 0..(Len(nodes) - 1)

(* How many nodes a scan that starts after place i meets before place j. *)
Gap(i, j) == (j - i - 1) % Len(nodes)

(* The places of replicas that were up ever since the scan started. *)
SteadyPlaces(r) == {j \in Places : nodes[j + 1] \in steady[r] /\ j # primary}

(* A scan that looked at k nodes has met no replica that was up all along, and
   one that found a replica holds the k-th node after the index it loaded; the
   choice is no farther away than any replica that was up all along. *)
ScanInvOf(r) ==
  /\ steady[r] \subseteq Up
  /\ pc[r] = "idle" => count[r] = 0
  /\ pc[r] \in {"scan", "exchange"} => initial[r] < Len(nodes) /\ count[r] <= Len(nodes)
  /\ pc[r] = "scan" => \A j \in SteadyPlaces(r) : Gap(initial[r], j) >= count[r]
  /\ pc[r] = "exchange" =>
       count[r] > 0 /\ target[r] = nodes[((initial[r] + count[r]) % Len(nodes)) + 1]
  /\ pc[r] \in {"exchange", "wait"} /\ count[r] > 0 =>
       \A j \in SteadyPlaces(r) : \E t \in Places :
         /\ target[r] = nodes[t + 1] /\ t # primary
         /\ Gap(initial[r], t) <= Gap(initial[r], j)

ScanInv == \A r \in Requests : ScanInvOf(r)

(* The last read that counts stored its own index, and the scans that run have
   loaded it and seen the links as they are. *)
ReadInv ==
  lastRead # Nowhere =>
    /\ latest < Len(nodes) /\ lastRead = At(latest)
    /\ \A r \in Scanning : initial[r] = latest /\ steady[r] = Up

-----------------------------------------------------------------------------
(* The node list *)

LEMMA NodesInvInit == Init => NodesInv
<1> SUFFICES ASSUME Init PROVE NodesInv
  OBVIOUS
<1>1. nodes = <<>> /\ nodes \in Seq(Addresses) /\ Len(nodes) = 0 /\ primary = -1
  BY DEF Init
<1>2. Answered = {}
  BY <1>1 DEF Answered
<1>3. IsFiniteSet(Answered) /\ Cardinality(Answered) = 0
  BY <1>2, FS_EmptySet
<1>4. TypeOK
  BY <1>1, ConstantsAssumption DEF Init, TypeOK
<1> QED
  BY <1>1, <1>2, <1>3, <1>4 DEF Init, NodesInv, Served

(* A node joins the list once. *)
LEMMA NodeJoins ==
  ASSUME NodesInv, NEW a \in Addresses, a \notin Answered, nodes' = Append(nodes, a)
  PROVE  /\ nodes' \in Seq(Addresses) /\ Len(nodes') = Len(nodes) + 1 /\ Len(nodes) \in Nat
         /\ nodes'[Len(nodes) + 1] = a /\ \A i \in 1..Len(nodes) : nodes'[i] = nodes[i]
         /\ \A i, j \in 1..Len(nodes') : nodes'[i] = nodes'[j] => i = j
         /\ Answered' = Answered \cup {a}
         /\ IsFiniteSet(Answered') /\ Cardinality(Answered') = Len(nodes')
<1>1. nodes \in Seq(Addresses)
  BY DEF NodesInv, TypeOK
<1>2. /\ nodes' \in Seq(Addresses) /\ Len(nodes') = Len(nodes) + 1 /\ Len(nodes) \in Nat
      /\ nodes'[Len(nodes) + 1] = a /\ \A i \in 1..Len(nodes) : nodes'[i] = nodes[i]
  BY <1>1
<1>3. \A i \in 1..Len(nodes) : nodes[i] # a
  BY DEF Answered
<1>4. \A i, j \in 1..Len(nodes') : nodes'[i] = nodes'[j] => i = j
  <2>1. \A i, j \in 1..Len(nodes) : nodes[i] = nodes[j] => i = j
    BY DEF NodesInv
  <2> QED BY <1>2, <1>3, <2>1
<1>5. Answered' = Answered \cup {a}
  BY <1>2 DEF Answered
<1>6. IsFiniteSet(Answered') /\ Cardinality(Answered') = Cardinality(Answered) + 1
  BY <1>5, FS_AddElement DEF NodesInv
<1>7. Cardinality(Answered) = Len(nodes)
  BY DEF NodesInv
<1> QED BY SMTT(30), <1>2, <1>4, <1>5, <1>6, <1>7

(* The answer of one node, whatever it is. *)
LEMMA NodesInvJoins ==
  ASSUME NodesInv, NEW a \in Addresses, a \notin Answered, phase = "creating",
         nodes' = Append(nodes, a),
         link' = link \/ link' = [link EXCEPT ![a] = "down"], link'[a] # "new",
         masters' = masters \/ masters' = masters \cup {a},
         primary' = primary \/ (primary = -1 /\ primary' = Len(nodes) /\ a \in masters'),
         UNCHANGED <<phase, latest, pc, initial, count, steady, target, lastRead>>
  PROVE  NodesInv'
<1>1. /\ nodes' \in Seq(Addresses) /\ Len(nodes') = Len(nodes) + 1 /\ Len(nodes) \in Nat
      /\ nodes'[Len(nodes) + 1] = a /\ \A i \in 1..Len(nodes) : nodes'[i] = nodes[i]
      /\ \A i, j \in 1..Len(nodes') : nodes'[i] = nodes'[j] => i = j
      /\ Answered' = Answered \cup {a}
      /\ IsFiniteSet(Answered') /\ Cardinality(Answered') = Len(nodes')
  BY NodeJoins
<1>2. /\ primary' \in -1..(Len(nodes') - 1)
      /\ primary' # -1 => nodes'[primary' + 1] \in masters'
  <2>1. primary \in -1..(Len(nodes) - 1) /\ (primary # -1 => nodes[primary + 1] \in masters)
    BY DEF NodesInv, TypeOK, At
  <2> QED BY <1>1, <2>1
<1>3. /\ link' \in [Addresses -> {"new", "up", "down"}] /\ masters' \subseteq Addresses
      /\ \A b \in Addresses : link'[b] = "new" => b \notin Answered'
  BY ZenonT(60), <1>1 DEF NodesInv, TypeOK
<1>4. TypeOK'
  <2>1. phase' = "creating"
    OBVIOUS
  <2> QED BY <1>1, <1>2, <1>3, <2>1 DEF NodesInv, TypeOK
<1> QED
  BY ZenonT(30), <1>1, <1>2, <1>3, <1>4 DEF NodesInv, At, Served

(* A step that leaves the list alone. *)
LEMMA NodesInvSameNodes ==
  ASSUME NodesInv, UNCHANGED <<nodes, primary, masters>>, TypeOK',
         \A a \in Addresses : link'[a] = "new" => link[a] = "new",
         phase' \in Served => Answered = Addresses,
         \A r \in Requests : pc'[r] # "idle" => phase' \in Served,
         phase' = "creating" => latest' = 0 /\ lastRead' = Nowhere
  PROVE  NodesInv'
<1>1. Answered' = Answered
  BY DEF Answered
<1> QED
  BY <1>1 DEF NodesInv, At

(* The nodes that requests use are nodes of the client. *)
LEMMA NodeTypes ==
  ASSUME NodesInv, phase \in Served
  PROVE  /\ Len(nodes) \in Nat \ {0} /\ primary \in 0..(Len(nodes) - 1)
         /\ \A i \in 0..(Len(nodes) - 1) : At(i) \in Addresses
         /\ \A i, j \in 0..(Len(nodes) - 1) : At(i) = At(j) => i = j
<1>1. nodes \in Seq(Addresses) /\ primary \in -1..(Len(nodes) - 1) /\ primary >= 0
  BY DEF NodesInv, TypeOK, Served
<1>2. \A i, j \in 1..Len(nodes) : nodes[i] = nodes[j] => i = j
  BY DEF NodesInv
<1>3. \A i \in 0..(Len(nodes) - 1) : At(i) \in Addresses /\ i + 1 \in 1..Len(nodes)
  BY <1>1 DEF At
<1>4. \A i, j \in 0..(Len(nodes) - 1) : At(i) = At(j) => i = j
  BY <1>2, <1>3 DEF At
<1> QED BY <1>1, <1>3, <1>4

LEMMA ModBelow ==
  ASSUME NEW n \in Nat \ {0}, NEW x \in Nat
  PROVE  x % n \in 0..(n - 1)
OBVIOUS

(* What the end of a request does to the phase. *)
LEMMA FinishRequestPhase ==
  ASSUME NodesInv, NEW r \in Requests, pc[r] # "idle", FinishRequest(r)
  PROVE  /\ phase \in Served /\ phase' \in {"ready", "released", "dropped"}
         /\ \A q \in Requests : pc'[q] # "idle" => phase' \in Served
<1>1. /\ phase \in Served /\ pc \in [Requests -> {"idle", "scan", "exchange", "wait", "sent"}]
      /\ pc' = [pc EXCEPT ![r] = "idle"]
      /\ phase' = IF phase = "released" /\ Active = {r} THEN "dropped" ELSE phase
  BY DEF NodesInv, TypeOK, FinishRequest
<1>2. \A q \in Requests : pc'[q] # "idle" => q \in Active /\ q # r
  BY <1>1 DEF Active
<1> QED
  BY <1>1, <1>2 DEF Served

LEMMA LinksStayType ==
  ASSUME TypeOK, LinksStay
  PROVE  /\ link' \in [Addresses -> {"new", "up", "down"}] /\ lastRead' \in Addresses \cup {Nowhere}
         /\ steady' \in [Requests -> SUBSET Addresses]
         /\ \A a \in Addresses : link'[a] = "new" => link[a] = "new"
BY DEF TypeOK, LinksStay

LEMMA LinkBecomesType ==
  ASSUME TypeOK, NEW a, NEW l \in {"up", "down"}, LinkBecomes(a, l)
  PROVE  /\ link' \in [Addresses -> {"new", "up", "down"}] /\ lastRead' \in Addresses \cup {Nowhere}
         /\ steady' \in [Requests -> SUBSET Addresses]
         /\ \A b \in Addresses : link'[b] = "new" => link[b] = "new"
BY ZenonT(30) DEF TypeOK, LinkBecomes

LEMMA NodesInvEnds ==
  ASSUME NodesInv, NEW r \in Requests, Reply(r) \/ Disconnected(r) \/ Timeout(r)
  PROVE  NodesInv'
<1>1. pc[r] # "idle" /\ FinishRequest(r)
  BY DEF Reply, Disconnected, Timeout
<1>2. /\ phase \in Served /\ phase' \in {"ready", "released", "dropped"}
      /\ \A q \in Requests : pc'[q] # "idle" => phase' \in Served
  BY <1>1, FinishRequestPhase
<1>3. /\ UNCHANGED <<nodes, primary, masters, latest>>
      /\ pc' = [pc EXCEPT ![r] = "idle"] /\ target' = [target EXCEPT ![r] = Nowhere]
      /\ initial' = [initial EXCEPT ![r] = 0] /\ count' = [count EXCEPT ![r] = 0]
  BY <1>1 DEF FinishRequest
<1>4. /\ link' \in [Addresses -> {"new", "up", "down"}] /\ lastRead' \in Addresses \cup {Nowhere}
      /\ steady' \in [Requests -> SUBSET Addresses]
      /\ \A a \in Addresses : link'[a] = "new" => link[a] = "new"
  <2>1. LinksStay \/ LinkBecomes(target[r], "down")
    BY DEF Reply, Disconnected, Timeout
  <2> QED BY <2>1, LinksStayType, LinkBecomesType DEF NodesInv
<1>5. TypeOK'
  BY ZenonT(60), <1>2, <1>3, <1>4 DEF NodesInv, TypeOK, Served
<1>6. phase' # "creating" /\ Answered = Addresses
  BY <1>2 DEF NodesInv
<1> QED
  BY SMTT(30), <1>2, <1>3, <1>4, <1>5, <1>6, NodesInvSameNodes

(* The steps of a request before it ends. *)
LEMMA NodesInvRuns ==
  ASSUME NodesInv, NEW r \in Requests,
         SendToPrimary(r) \/ StartScan(r) \/ ScanStep(r) \/ GetConnection(r)
  PROVE  NodesInv'
<1>1. phase \in Served /\ UNCHANGED <<phase, nodes, primary, masters, link>>
  BY DEF SendToPrimary, StartScan, ScanStep, ScanExhausted, ScanSkips, ScanFinds, Exchange,
     GetConnection, clientVars, NodesInv, Served
<1>2. /\ Len(nodes) \in Nat \ {0} /\ primary \in 0..(Len(nodes) - 1)
      /\ \A i \in 0..(Len(nodes) - 1) : At(i) \in Addresses
  BY <1>1, NodeTypes
<1>3. TypeOK
  BY DEF NodesInv
<1>4. /\ At(primary) \in Addresses /\ ScanIndex(r) \in 0..(Len(nodes) - 1)
      /\ (initial[r] + count[r]) % Len(nodes) \in 0..(Len(nodes) - 1)
  <2>1. initial[r] + count[r] + 1 \in Nat /\ initial[r] + count[r] \in Nat
    BY <1>3 DEF TypeOK
  <2> QED BY ZenonT(30), <1>2, <2>1, ModBelow DEF ScanIndex
<1>5. TypeOK'
  <2>1. CASE SendToPrimary(r)
    BY SMTT(30), <1>1, <1>3, <1>4, <2>1, ConstantsAssumption DEF SendToPrimary, TypeOK, scanVars
  <2>2. CASE StartScan(r)
    BY <1>1, <1>3, <2>2 DEF StartScan, TypeOK, Up
  <2>3. CASE ScanExhausted(r)
    BY SMTT(30), <1>1, <1>3, <1>4, <2>3, ConstantsAssumption DEF ScanExhausted, TypeOK
  <2>4. CASE ScanSkips(r)
    BY SMTT(30), <1>1, <1>3, <2>4 DEF ScanSkips, TypeOK
  <2>5. CASE ScanFinds(r)
    BY SMTT(30), <1>1, <1>2, <1>3, <1>4, <2>5, ConstantsAssumption DEF ScanFinds, TypeOK
  <2>6. CASE Exchange(r)
    BY <1>1, <1>2, <1>3, <1>4, <2>6, SMTT(30) DEF Exchange, TypeOK, scanVars
  <2>7. CASE GetConnection(r)
    BY <1>1, <1>3, <2>7 DEF GetConnection, TypeOK, scanVars
  <2> QED BY SMTT(30), <2>1, <2>2, <2>3, <2>4, <2>5, <2>6, <2>7 DEF ScanStep
<1>6. Answered = Addresses /\ phase' \in Served /\ phase' # "creating"
  BY <1>1 DEF NodesInv, Served
<1> QED
  BY <1>1, <1>5, <1>6, NodesInvSameNodes

LEMMA NodesInvStep ==
  ASSUME NodesInv, [Next]_vars
  PROVE  NodesInv'
<1>0. TypeOK
  BY DEF NodesInv
<1>1. ASSUME NEW a \in Addresses, Connect(a) PROVE NodesInv'
  <2>1. TypeOK' /\ \A b \in Addresses : link'[b] = "new" => link[b] = "new"
    BY <1>0, <1>1 DEF Connect, TypeOK, clientVars, scanVars
  <2> QED
    BY <1>1, <2>1, NodesInvSameNodes DEF Connect, clientVars, NodesInv
<1>2. ASSUME NEW a \in Addresses, ConnectErr(a) PROVE NodesInv'
  <2>1. a \notin Answered /\ link'[a] # "new"
    BY <1>0, <1>2 DEF ConnectErr, NodesInv, TypeOK
  <2> QED
    BY ZenonT(30), <1>2, <2>1, NodesInvJoins DEF ConnectErr, scanVars
<1>3. ASSUME NEW a \in Addresses, InfoErr(a) PROVE NodesInv'
  BY <1>3, NodesInvJoins DEF InfoErr, AwaitsInfo, scanVars
<1>4. ASSUME NEW a \in Addresses, NEW master \in BOOLEAN, InfoOk(a, master) PROVE NodesInv'
  <2>1. /\ masters' = masters \/ masters' = masters \cup {a}
        /\ primary' = primary \/ (primary = -1 /\ primary' = Len(nodes) /\ a \in masters')
    BY <1>4, Zenon DEF InfoOk
  <2> QED
    BY <1>4, <2>1, NodesInvJoins DEF InfoOk, AwaitsInfo, scanVars
<1>5. ASSUME NEW a \in Addresses, Restore(a) \/ HeartbeatLoses(a) PROVE NodesInv'
  <2>1. LinkBecomes(a, "up") \/ LinkBecomes(a, "down")
    BY <1>5 DEF Restore, HeartbeatLoses
  <2>2. UNCHANGED <<phase, nodes, primary, masters, latest, pc, initial, count, target>> /\ lastRead' = Nowhere
    BY <1>5 DEF Restore, HeartbeatLoses, clientVars, LinkBecomes
  <2>3. TypeOK' /\ \A b \in Addresses : link'[b] = "new" => link[b] = "new"
    BY <1>0, <2>1, <2>2, LinkBecomesType DEF TypeOK
  <2> QED
    BY <2>2, <2>3, NodesInvSameNodes DEF NodesInv
<1>6. CASE CreationEnds
  <2>1. \A r \in Requests : pc[r] = "idle"
    BY <1>6 DEF CreationEnds, NodesInv, Served
  <2>2. phase' \in Served => primary >= 0 /\ latest < Len(nodes)
    BY <1>0, <1>6 DEF CreationEnds, NodesInv, TypeOK, Served
  <2>3. TypeOK'
    BY <1>0, <1>6, <2>2 DEF CreationEnds, TypeOK, scanVars, Served
  <2> QED
    BY <1>6, <2>1, <2>3, NodesInvSameNodes DEF CreationEnds, Served
<1>7. CASE CreationTimesOut
  <2>1. \A r \in Requests : pc[r] = "idle"
    BY <1>7 DEF CreationTimesOut, NodesInv, Served
  <2>2. TypeOK'
    BY SMTT(30), <1>0, <1>7 DEF CreationTimesOut, TypeOK, scanVars
  <2> QED
    BY <1>7, <2>1, <2>2, NodesInvSameNodes DEF CreationTimesOut, Served
<1>8. CASE Release
  <2>1. TypeOK'
    BY <1>0, <1>8 DEF Release, TypeOK, scanVars
  <2>2. \A r \in Requests : pc[r] # "idle" => r \in Active
    BY SMTT(30) DEF Active
  <2> QED
    BY SMTT(30), <1>8, <2>1, <2>2, NodesInvSameNodes DEF Release, NodesInv, Served
<1>9. CASE UNCHANGED vars
  <2>1. TypeOK'
    BY <1>0, <1>9 DEF TypeOK, vars, clientVars, scanVars
  <2> QED
    BY SMTT(30), <1>9, <2>1, NodesInvSameNodes DEF NodesInv, vars, clientVars, scanVars
<1> QED
  BY SMTT(30), <1>1, <1>2, <1>3, <1>4, <1>5, <1>6, <1>7, <1>8, <1>9, NodesInvRuns, NodesInvEnds DEF Next

-----------------------------------------------------------------------------
(* The scan *)

LEMMA ModOf ==
  ASSUME NEW n \in Nat \ {0}, NEW x \in Int
  PROVE  /\ x \in 0..(n - 1) => x % n = x
         /\ x \in n..(2 * n - 1) => x % n = x - n
         /\ x \in (-n)..(-1) => x % n = x + n
OBVIOUS

(* The gap, and the node a scan looks at, without a modulus. *)
LEMMA GapOf ==
  ASSUME NEW n \in Nat \ {0}, NEW i \in 0..(n - 1), NEW j \in 0..(n - 1)
  PROVE  (j - i - 1) % n = IF j > i THEN j - i - 1 ELSE j - i - 1 + n
<1>1. j - i - 1 \in Int
  OBVIOUS
<1>2. CASE j > i
  BY <1>1, <1>2, ModOf
<1>3. CASE ~(j > i)
  <2> DEFINE x == j - i - 1
  <2>1. x \in (-n)..(-1) /\ x \in Int
    BY <1>3
  <2> HIDE DEF x
  <2>2. x % n = x + n
    BY ZenonT(30), <2>1, ModOf
  <2> QED BY <1>3, <2>2 DEF x
<1> QED BY <1>2, <1>3

LEMMA NextOf ==
  ASSUME NEW n \in Nat \ {0}, NEW i \in 0..(n - 1), NEW k \in 0..(n - 1)
  PROVE  (i + k + 1) % n = IF i + k + 1 < n THEN i + k + 1 ELSE i + k + 1 - n
<1>1. i + k + 1 \in Int
  OBVIOUS
<1>2. CASE i + k + 1 < n
  BY <1>1, <1>2, ModOf
<1>3. CASE ~(i + k + 1 < n)
  <2> DEFINE x == i + k + 1
  <2>1. x \in n..(2 * n - 1) /\ x \in Int
    BY <1>3
  <2> HIDE DEF x
  <2>2. x % n = x - n
    BY <2>1, ModOf
  <2> QED BY <1>3, <2>2 DEF x
<1> QED BY <1>2, <1>3

(* The node looked at after k others is the one with k others before it. *)
LEMMA GapOfNext ==
  ASSUME NEW n \in Nat \ {0}, NEW i \in 0..(n - 1), NEW k \in 0..(n - 1), NEW j \in 0..(n - 1)
  PROVE  (j - i - 1) % n = k <=> j = (i + k + 1) % n
<1>1. (j - i - 1) % n = IF j > i THEN j - i - 1 ELSE j - i - 1 + n
  BY GapOf
<1>2. (i + k + 1) % n = IF i + k + 1 < n THEN i + k + 1 ELSE i + k + 1 - n
  BY NextOf
<1> DEFINE g == (j - i - 1) % n
           x == (i + k + 1) % n
<1>3. g = IF j > i THEN j - i - 1 ELSE j - i - 1 + n
  BY <1>1
<1>4. x = IF i + k + 1 < n THEN i + k + 1 ELSE i + k + 1 - n
  BY <1>2
<1> HIDE DEF g, x
<1>5. g = k <=> j = x
  BY <1>3, <1>4
<1> QED BY <1>5 DEF g, x

LEMMA ScanInvInit == Init => ScanInv
BY SMTT(30) DEF Init, ScanInv, ScanInvOf

(* A request that a step does not move; links may go down. *)
LEMMA ScanInvKept ==
  ASSUME NEW r \in Requests, ScanInvOf(r), steady'[r] \subseteq steady[r], steady'[r] \subseteq Up',
         pc'[r] = pc[r], initial'[r] = initial[r], count'[r] = count[r], target'[r] = target[r],
         UNCHANGED <<nodes, primary>>
  PROVE  ScanInvOf(r)'
<1>1. SteadyPlaces(r)' \subseteq SteadyPlaces(r) /\ Places' = Places
  BY DEF SteadyPlaces, Places
<1> QED
  BY <1>1 DEF ScanInvOf, Gap

(* One that is idle, sent, or on its way to the primary without a scan. *)
LEMMA ScanInvOut ==
  ASSUME NEW r \in Requests, steady'[r] \subseteq Up', pc'[r] \in {"idle", "wait", "sent"},
         count'[r] = 0 \/ pc'[r] = "sent"
  PROVE  ScanInvOf(r)'
BY DEF ScanInvOf

LEMMA LinksKeepSteady ==
  ASSUME TypeOK, NEW r \in Requests, steady[r] \subseteq Up,
         LinksStay \/ \E a : \E l \in {"up", "down"} : LinkBecomes(a, l)
  PROVE  steady'[r] \subseteq steady[r] /\ steady'[r] \subseteq Up'
<1>1. CASE LinksStay
  BY <1>1 DEF LinksStay, Up
<1>2. ASSUME NEW a, NEW l \in {"up", "down"}, LinkBecomes(a, l)
      PROVE  steady'[r] \subseteq steady[r] /\ steady'[r] \subseteq Up'
  <2>1. steady'[r] = {} \/ (l = "up" /\ steady'[r] = steady[r]) \/ steady'[r] = steady[r] \ {a}
    BY <1>2 DEF LinkBecomes
  <2>2. \A b \in Addresses : link'[b] = IF b = a THEN l ELSE link[b]
    BY <1>2 DEF LinkBecomes, TypeOK
  <2> QED BY <2>1, <2>2 DEF Up
<1> QED BY <1>1, <1>2

(* The types a scan needs. *)
LEMMA ScanTypes ==
  ASSUME NodesInv, NEW r \in Requests, ScanInvOf(r), pc[r] = "scan"
  PROVE  /\ Len(nodes) \in Nat \ {0} /\ primary \in Places
         /\ initial[r] \in Places /\ count[r] \in 0..Len(nodes)
         /\ \A j \in Places : Gap(initial[r], j) \in Places
<1>1. /\ Len(nodes) \in Nat \ {0} /\ primary \in Places
  BY NodeTypes DEF NodesInv, Places
<1>2. initial[r] \in Places /\ count[r] \in 0..Len(nodes)
  BY <1>1 DEF NodesInv, TypeOK, ScanInvOf, Places
<1>3. \A j \in Places : Gap(initial[r], j) \in Places
  BY SMTT(30), <1>1, <1>2, GapOf DEF Gap, Places
<1> QED BY <1>1, <1>2, <1>3

LEMMA ScanIndexGap ==
  ASSUME NEW r, Len(nodes) \in Nat \ {0}, initial[r] \in Places, count[r] \in Places
  PROVE  /\ ScanIndex(r) \in Places
         /\ \A j \in Places : Gap(initial[r], j) = count[r] <=> j = ScanIndex(r)
<1> DEFINE n == Len(nodes)
           i == initial[r]
           k == count[r]
<1>1. n \in Nat \ {0} /\ i \in 0..(n - 1) /\ k \in 0..(n - 1)
  BY DEF Places
<1> HIDE DEF n, i, k
<1>2. i + k + 1 \in Nat
  BY <1>1
<1>3. (i + k + 1) % n \in 0..(n - 1)
  BY <1>1, <1>2, ModBelow, ZenonT(60)
<1>4. \A j \in 0..(n - 1) : (j - i - 1) % n = k <=> j = (i + k + 1) % n
  BY <1>1, GapOfNext, SMTT(30)
<1> QED
  BY <1>3, <1>4, Zenon DEF ScanIndex, Gap, Places, n, i, k

LEMMA ScanInvExhausted ==
  ASSUME NodesInv, NEW r \in Requests, ScanInvOf(r), ScanExhausted(r)
  PROVE  ScanInvOf(r)'
<1>1. /\ pc[r] = "scan" /\ count[r] + 1 > Len(nodes) /\ pc'[r] = "wait"
      /\ steady' = steady /\ UNCHANGED <<nodes, primary, link>>
  BY DEF ScanExhausted, clientVars, NodesInv, TypeOK
<1>2. /\ Len(nodes) \in Nat \ {0} /\ count[r] \in 0..Len(nodes)
      /\ \A j \in Places : Gap(initial[r], j) \in Places
  BY <1>1, ScanTypes
<1>3. SteadyPlaces(r) = {}
  <2>1. ASSUME NEW j \in SteadyPlaces(r) PROVE FALSE
    <3>1. j \in Places /\ Gap(initial[r], j) >= count[r]
      BY <1>1 DEF ScanInvOf, SteadyPlaces
    <3>2. Gap(initial[r], j) \in 0..(Len(nodes) - 1)
      BY SMTT(30), <1>2, <3>1 DEF Places
    <3> QED BY SMTT(30), <1>1, <1>2, <3>1, <3>2
  <2> QED BY <2>1
<1>4. SteadyPlaces(r)' = {}
  BY <1>1, <1>3 DEF SteadyPlaces, Places
<1>5. steady'[r] \subseteq Up'
  BY SMTT(30), <1>1 DEF ScanInvOf, Up
<1> QED
  BY <1>1, <1>4, <1>5 DEF ScanInvOf

LEMMA ScanInvSkips ==
  ASSUME NodesInv, NEW r \in Requests, ScanInvOf(r), ScanSkips(r)
  PROVE  ScanInvOf(r)'
<1>1. /\ pc[r] = "scan" /\ count[r] + 1 <= Len(nodes) /\ pc' = pc /\ initial' = initial
      /\ ScanIndex(r) = primary \/ link[nodes[ScanIndex(r) + 1]] # "up"
      /\ count'[r] = count[r] + 1 /\ UNCHANGED <<nodes, primary, link, steady, target>>
  BY SMTT(30) DEF ScanSkips, clientVars, NodesInv, TypeOK, At
<1>2. /\ Len(nodes) \in Nat \ {0} /\ initial[r] \in Places /\ count[r] \in 0..Len(nodes)
      /\ \A j \in Places : Gap(initial[r], j) \in Places
  BY <1>1, ScanTypes
<1>3. ASSUME NEW j \in SteadyPlaces(r) PROVE Gap(initial[r], j) >= count[r] + 1
  <2>1. /\ j \in Places /\ j # primary /\ link[nodes[j + 1]] = "up" /\ Gap(initial[r], j) >= count[r]
    BY <1>1 DEF ScanInvOf, SteadyPlaces, Up
  <2>2. j # ScanIndex(r)
    BY <1>1, <2>1
  <2>3. Gap(initial[r], j) # count[r]
    <3>1. count[r] \in Places
      BY <1>1, <1>2 DEF Places
    <3> QED BY SMTT(30), <1>2, <2>1, <2>2, <3>1, ScanIndexGap
  <2>4. Gap(initial[r], j) \in Int /\ count[r] \in Int
    BY <1>2, <2>1 DEF Places
  <2> QED BY <2>1, <2>3, <2>4
<1>4. SteadyPlaces(r)' = SteadyPlaces(r)
  BY <1>1 DEF SteadyPlaces, Places
<1>5. \A j \in SteadyPlaces(r)' : Gap(initial[r], j)' >= count'[r]
  BY <1>1, <1>3, <1>4 DEF Gap
<1>6. steady'[r] \subseteq Up' /\ initial'[r] < Len(nodes') /\ count'[r] <= Len(nodes')
  BY SMTT(30), <1>1 DEF ScanInvOf, Up
<1> QED
  BY SMTT(30), <1>1, <1>5, <1>6 DEF ScanInvOf

LEMMA ScanInvFinds ==
  ASSUME NodesInv, NEW r \in Requests, ScanInvOf(r), ScanFinds(r)
  PROVE  ScanInvOf(r)'
<1>1. /\ pc[r] = "scan" /\ count[r] + 1 <= Len(nodes) /\ pc'[r] = "exchange" /\ initial' = initial
      /\ ScanIndex(r) # primary /\ target'[r] = nodes[ScanIndex(r) + 1]
      /\ count'[r] = count[r] + 1 /\ UNCHANGED <<nodes, primary, link, steady>>
  BY SMTT(30) DEF ScanFinds, clientVars, NodesInv, TypeOK, At
<1>2. /\ Len(nodes) \in Nat \ {0} /\ initial[r] \in Places /\ count[r] \in 0..Len(nodes)
  BY <1>1, ScanTypes
<1>3. ScanIndex(r) \in Places /\ Gap(initial[r], ScanIndex(r)) = count[r]
  <2>1. count[r] \in Places
    BY SMTT(30), <1>1, <1>2 DEF Places
  <2> QED BY SMTT(30), <1>2, <2>1, ScanIndexGap
<1>4. \A j \in SteadyPlaces(r) : Gap(initial[r], ScanIndex(r)) <= Gap(initial[r], j)
  <2>1. \A j \in SteadyPlaces(r) : Gap(initial[r], j) >= count[r]
    BY <1>1 DEF ScanInvOf
  <2> QED BY SMTT(30), <1>3, <2>1
<1>5. SteadyPlaces(r)' = SteadyPlaces(r) /\ Places' = Places
  BY <1>1 DEF SteadyPlaces, Places
<1>6. \A j \in SteadyPlaces(r)' : \E t \in Places' :
         /\ target'[r] = nodes'[t + 1] /\ t # primary'
         /\ Gap(initial[r], t)' <= Gap(initial[r], j)'
  BY SMTT(30), <1>1, <1>3, <1>4, <1>5 DEF Gap
<1>7. target'[r] = nodes'[((initial'[r] + count'[r]) % Len(nodes')) + 1]
  <2>1. initial[r] + (count[r] + 1) = initial[r] + count[r] + 1
    BY SMTT(30), <1>2 DEF Places
  <2> QED BY <1>1, <2>1 DEF ScanIndex
<1>8. /\ steady'[r] \subseteq Up' /\ initial'[r] < Len(nodes') /\ count'[r] <= Len(nodes') /\ count'[r] > 0
  BY SMTT(30), <1>1, <1>2 DEF ScanInvOf, Up
<1> QED
  BY SMTT(30), <1>1, <1>6, <1>7, <1>8 DEF ScanInvOf

(* Every step of a request keeps the scans of the others. *)
LEMMA ScanInvOthers ==
  ASSUME ScanInv, TypeOK, NEW r \in Requests, NEW q \in Requests, q # r,
         SendToPrimary(r) \/ StartScan(r) \/ ScanStep(r) \/ GetConnection(r)
  PROVE  ScanInvOf(q)'
<1>1. /\ pc'[q] = pc[q] /\ initial'[q] = initial[q] /\ count'[q] = count[q] /\ target'[q] = target[q]
      /\ steady'[q] = steady[q] /\ UNCHANGED <<nodes, primary, link>>
  BY SMTT(30) DEF SendToPrimary, StartScan, ScanStep, ScanExhausted, ScanSkips, ScanFinds, Exchange,
     GetConnection, clientVars, scanVars, TypeOK
<1>2. ScanInvOf(q) /\ Up' = Up
  BY <1>1 DEF ScanInv, Up
<1>3. steady[q] \subseteq Up
  BY <1>2 DEF ScanInvOf
<1> QED
  BY SMTT(30), <1>1, <1>2, <1>3, ScanInvKept

LEMMA ScanInvRuns ==
  ASSUME NodesInv, ScanInv, NEW r \in Requests,
         SendToPrimary(r) \/ StartScan(r) \/ ScanStep(r) \/ GetConnection(r)
  PROVE  ScanInv'
<1>1. TypeOK /\ ScanInvOf(r)
  BY DEF NodesInv, ScanInv
<1>2. \A q \in Requests : q # r => ScanInvOf(q)'
  BY <1>1, ScanInvOthers, SMTT(30)
<1>3. UNCHANGED <<link, nodes, primary>> /\ steady[r] \subseteq Up
  BY SMTT(30), <1>1 DEF SendToPrimary, StartScan, ScanStep, ScanExhausted, ScanSkips, ScanFinds, Exchange,
     GetConnection, ScanInvOf, clientVars
<1>4. CASE SendToPrimary(r)
  <2>1. pc'[r] = "wait" /\ count'[r] = 0 /\ steady'[r] \subseteq Up'
    BY <1>1, <1>3, <1>4 DEF SendToPrimary, ScanInvOf, scanVars, TypeOK, Up
  <2> QED BY SMTT(30), <1>2, <2>1, ScanInvOut DEF ScanInv
<1>5. CASE StartScan(r)
  <2>1. /\ pc'[r] = "scan" /\ count'[r] = 0 /\ initial'[r] = latest /\ steady'[r] = Up
        /\ phase = "ready"
    BY <1>1, <1>5, SMTT(30) DEF StartScan, TypeOK
  <2>2. latest \in Nat /\ latest < Len(nodes) /\ Len(nodes) \in Nat \ {0}
    BY <2>1, NodeTypes DEF NodesInv, TypeOK, Served
  <2>3. \A j \in Places : Gap(latest, j) >= 0
    BY <2>2, SMTT(30) DEF Gap, Places
  <2>4. \A j \in SteadyPlaces(r)' : Gap(initial[r], j)' >= count'[r]
    BY <1>3, <2>1, <2>3, SMTT(30) DEF SteadyPlaces, Places, Gap
  <2>5. ScanInvOf(r)'
    BY <1>3, <2>1, <2>2, <2>4 DEF ScanInvOf, Up
  <2> QED BY <1>2, <2>5 DEF ScanInv
<1>6. CASE ScanExhausted(r) \/ ScanSkips(r) \/ ScanFinds(r)
  BY SMTT(30), <1>1, <1>2, <1>6, ScanInvExhausted, ScanInvSkips, ScanInvFinds DEF ScanInv
<1>7. CASE Exchange(r)
  <2>1. /\ pc[r] = "exchange" /\ pc'[r] = "wait" /\ UNCHANGED <<initial, count, steady, target>>
    BY SMTT(30), <1>1, <1>7 DEF Exchange, scanVars, TypeOK
  <2>2. SteadyPlaces(r)' = SteadyPlaces(r) /\ Places' = Places /\ Up' = Up
    BY SMTT(30), <1>3, <2>1 DEF SteadyPlaces, Places, Up
  <2>3. ScanInvOf(r)'
    BY <1>1, <1>3, <2>1, <2>2 DEF ScanInvOf, Gap
  <2> QED BY <1>2, <2>3 DEF ScanInv
<1>8. CASE GetConnection(r)
  <2>1. pc'[r] = "sent" /\ steady'[r] \subseteq Up'
    BY <1>1, <1>3, <1>8 DEF GetConnection, scanVars, TypeOK, Up
  <2> QED BY <1>2, <2>1, ScanInvOut DEF ScanInv
<1> QED BY SMTT(30), <1>4, <1>5, <1>6, <1>7, <1>8 DEF ScanStep

LEMMA ScanInvStep ==
  ASSUME NodesInv, ScanInv, [Next]_vars
  PROVE  ScanInv'
<1>0. TypeOK /\ \A q \in Requests : ScanInvOf(q) /\ steady[q] \subseteq Up
  BY DEF NodesInv, ScanInv, ScanInvOf
<1>1. ASSUME NEW a \in Addresses,
             Connect(a) \/ ConnectErr(a) \/ InfoErr(a) \/ \E master \in BOOLEAN : InfoOk(a, master)
      PROVE  ScanInv'
  <2>1. phase = "creating" /\ UNCHANGED <<pc, count, steady>>
    BY <1>1 DEF Connect, ConnectErr, InfoErr, InfoOk, AwaitsInfo, scanVars
  <2>2. Up \subseteq Up'
    <3>1. link' = link \/ (link[a] = "new" /\ link' = [link EXCEPT ![a] = "up"])
                       \/ (link[a] = "new" /\ link' = [link EXCEPT ![a] = "down"])
      BY SMTT(30), <1>1 DEF Connect, ConnectErr, InfoErr, InfoOk
    <3> QED BY <1>0, <3>1 DEF Up, TypeOK
  <2>3. \A q \in Requests : pc[q] = "idle" /\ count[q] = 0
    BY SMTT(30), <1>0, <2>1 DEF NodesInv, Served, ScanInvOf
  <2> QED
    BY SMTT(30), <1>0, <2>1, <2>2, <2>3, ScanInvOut DEF ScanInv
<1>2. ASSUME NEW a \in Addresses, Restore(a) \/ HeartbeatLoses(a) PROVE ScanInv'
  <2>1. \E l \in {"up", "down"} : LinkBecomes(a, l)
    BY <1>2 DEF Restore, HeartbeatLoses
  <2>2. UNCHANGED <<nodes, primary, pc, initial, count, target>>
    BY <1>2 DEF Restore, HeartbeatLoses, clientVars
  <2>3. \A q \in Requests : steady'[q] \subseteq steady[q] /\ steady'[q] \subseteq Up'
    BY <1>0, <2>1, LinksKeepSteady, SMTT(30)
  <2> QED
    BY <1>0, <2>2, <2>3, ScanInvKept DEF ScanInv
<1>3. CASE CreationEnds \/ CreationTimesOut \/ Release \/ UNCHANGED vars
  <2>1. UNCHANGED <<nodes, primary, link, pc, initial, count, steady, target>>
    BY <1>3 DEF CreationEnds, CreationTimesOut, Release, vars, clientVars, scanVars
  <2>2. Up' = Up
    BY SMTT(30), <2>1 DEF Up
  <2> QED
    BY <1>0, <2>1, <2>2, ScanInvKept DEF ScanInv
<1>4. ASSUME NEW r \in Requests, Reply(r) \/ Disconnected(r) \/ Timeout(r) PROVE ScanInv'
  <2>1. /\ pc'[r] = "idle" /\ count'[r] = 0 /\ UNCHANGED <<nodes, primary>>
        /\ \A q \in Requests : q # r => /\ pc'[q] = pc[q] /\ initial'[q] = initial[q]
                                        /\ count'[q] = count[q] /\ target'[q] = target[q]
    BY <1>0, <1>4 DEF Reply, Disconnected, Timeout, FinishRequest, TypeOK
  <2>2. LinksStay \/ \E b : \E l \in {"up", "down"} : LinkBecomes(b, l)
    BY <1>4 DEF Reply, Disconnected, Timeout
  <2>3. \A q \in Requests : steady'[q] \subseteq steady[q] /\ steady'[q] \subseteq Up'
    BY <1>0, <2>2, LinksKeepSteady
  <2> QED
    BY SMTT(30), <1>0, <2>1, <2>3, ScanInvKept, ScanInvOut DEF ScanInv
<1> QED
  BY SMTT(30), <1>1, <1>2, <1>3, <1>4, ScanInvRuns DEF Next

-----------------------------------------------------------------------------
(* The last read *)

LEMMA ReadInvInit == Init => ReadInv
BY DEF Init, ReadInv

LEMMA ReadInvKept ==
  ASSUME ReadInv, UNCHANGED <<nodes, link, latest, lastRead>>,
         \A r \in Scanning' :
           \/ r \in Scanning /\ initial'[r] = initial[r] /\ steady'[r] = steady[r]
           \/ initial'[r] = latest /\ steady'[r] = Up
  PROVE  ReadInv'
<1>1. Up' = Up
  BY DEF Up
<1> QED
  BY <1>1 DEF ReadInv, At

LEMMA ReadInvExchange ==
  ASSUME NodesInv, ScanInv, NEW r \in Requests, Exchange(r), lastRead' # Nowhere
  PROVE  ReadInv'
<1>1. /\ pc[r] = "exchange" /\ OnlyScan(r) /\ lastRead' = target[r]
      /\ latest' = (initial[r] + count[r]) % Len(nodes) /\ UNCHANGED nodes
      /\ pc' = [pc EXCEPT ![r] = "wait"]
  BY DEF Exchange, clientVars
<1>2. TypeOK /\ ScanInvOf(r) /\ phase \in Served
  BY <1>1 DEF NodesInv, ScanInv
<1>3. Len(nodes) \in Nat \ {0} /\ initial[r] + count[r] \in Nat
  BY <1>2, NodeTypes DEF TypeOK
<1>4. latest' < Len(nodes)
  BY SMTT(30), <1>1, <1>3, ModBelow
<1>5. lastRead' = nodes[latest' + 1]
  BY <1>1, <1>2 DEF ScanInvOf
<1>6. Scanning' = {}
  BY <1>1, <1>2 DEF Scanning, OnlyScan, TypeOK
<1> QED
  BY SMTT(30), <1>1, <1>4, <1>5, <1>6 DEF ReadInv, At

LEMMA ReadInvStep ==
  ASSUME NodesInv, ScanInv, ReadInv, [Next]_vars
  PROVE  ReadInv'
<1>0. TypeOK
  BY DEF NodesInv
<1>1. CASE lastRead' = Nowhere
  BY <1>1 DEF ReadInv
<1>2. ASSUME NEW a \in Addresses,
             Connect(a) \/ ConnectErr(a) \/ InfoErr(a) \/ \E master \in BOOLEAN : InfoOk(a, master)
      PROVE  lastRead' = Nowhere
  BY <1>2, SMTT(30) DEF Connect, ConnectErr, InfoErr, InfoOk, AwaitsInfo, NodesInv
<1>3. ASSUME NEW a \in Addresses, Restore(a) \/ HeartbeatLoses(a) PROVE lastRead' = Nowhere
  BY <1>3 DEF Restore, HeartbeatLoses, LinkBecomes
<1>4. CASE CreationEnds \/ CreationTimesOut \/ Release \/ UNCHANGED vars
  <2>1. UNCHANGED <<nodes, link, latest, lastRead, pc, initial, steady>>
    BY <1>4 DEF CreationEnds, CreationTimesOut, Release, vars, clientVars, scanVars
  <2> QED BY <2>1, ReadInvKept DEF Scanning
<1>5. ASSUME NEW r \in Requests, SendToPrimary(r) \/ StartScan(r) \/ GetConnection(r) PROVE ReadInv'
  <2>1. UNCHANGED <<nodes, link, latest, lastRead>>
    BY SMTT(30), <1>5 DEF SendToPrimary, StartScan, GetConnection, clientVars
  <2>2. \A q \in Scanning' :
           \/ q \in Scanning /\ initial'[q] = initial[q] /\ steady'[q] = steady[q]
           \/ initial'[q] = latest /\ steady'[q] = Up
    BY <1>0, <1>5 DEF SendToPrimary, StartScan, GetConnection, scanVars, Scanning, TypeOK
  <2> QED BY <2>1, <2>2, ReadInvKept
<1>6. ASSUME NEW r \in Requests, ScanExhausted(r) \/ ScanSkips(r) \/ ScanFinds(r) PROVE ReadInv'
  <2>1. UNCHANGED <<nodes, link, latest, lastRead, initial, steady>>
    BY SMTT(30), <1>6 DEF ScanExhausted, ScanSkips, ScanFinds, clientVars
  <2>2. Scanning' \subseteq Scanning
    BY <1>0, <1>6 DEF ScanExhausted, ScanSkips, ScanFinds, Scanning, TypeOK
  <2> QED BY SMTT(30), <2>1, <2>2, ReadInvKept
<1>7. ASSUME NEW r \in Requests, Exchange(r) PROVE ReadInv'
  BY <1>1, <1>7, ReadInvExchange
<1>8. ASSUME NEW r \in Requests, Reply(r) \/ Disconnected(r) \/ Timeout(r) PROVE ReadInv'
  <2>1. FinishRequest(r) /\ (LinksStay \/ lastRead' = Nowhere)
    BY <1>8 DEF Reply, Disconnected, Timeout, LinkBecomes
  <2>2. CASE LinksStay
    <3>1. UNCHANGED <<nodes, link, latest, lastRead>>
      BY SMTT(30), <2>1, <2>2 DEF FinishRequest, LinksStay
    <3>2. \A q \in Scanning' : q \in Scanning /\ initial'[q] = initial[q] /\ steady'[q] = steady[q]
      BY <1>0, <2>1, <2>2 DEF FinishRequest, LinksStay, Scanning, TypeOK
    <3> QED BY SMTT(30), <3>1, <3>2, ReadInvKept
  <2> QED BY SMTT(30), <1>1, <2>1, <2>2
<1> QED
  BY SMTT(30), <1>1, <1>2, <1>3, <1>4, <1>5, <1>6, <1>7, <1>8 DEF Next, ScanStep

-----------------------------------------------------------------------------
(* Addresses and places *)

LEMMA IndexOf ==
  ASSUME NodesInv, phase \in Served
  PROVE  /\ \A a \in Addresses : Index(a) \in Places /\ At(Index(a)) = a
         /\ \A i \in Places : Index(At(i)) = i
<1>1. /\ \A i \in Places : At(i) \in Addresses
      /\ \A i, j \in Places : At(i) = At(j) => i = j
  BY NodeTypes DEF Places
<1>2. \A a \in Addresses : \E i \in Places : At(i) = a
  <2> SUFFICES ASSUME NEW a \in Addresses PROVE \E i \in Places : At(i) = a
    OBVIOUS
  <2>1. nodes \in Seq(Addresses) /\ a \in Answered
    BY DEF NodesInv, TypeOK
  <2>2. PICK k \in 1..Len(nodes) : nodes[k] = a
    BY <2>1 DEF Answered
  <2>3. k - 1 \in Places /\ (k - 1) + 1 = k
    BY <2>1, <2>2 DEF Places
  <2> QED BY <2>2, <2>3 DEF At
<1>3. \A a \in Addresses : Index(a) \in Places /\ At(Index(a)) = a
  BY <1>2, Zenon DEF Index, Places
<1> QED BY <1>1, <1>3

LEMMA DistanceOf ==
  ASSUME NodesInv, phase \in Served, NEW i, NEW j \in Places
  PROVE  Distance(i, At(j)) = Gap(i, j)
BY SMTT(30), IndexOf DEF Distance, Gap

LEMMA NoReplicaSkippedInv ==
  ASSUME NodesInv, ScanInv
  PROVE  NoReplicaSkipped
<1> SUFFICES ASSUME NEW r \in Requests, pc[r] \in {"exchange", "wait"}, count[r] > 0,
                    NEW a \in steady[r] \cap Replicas
             PROVE  /\ target[r] # At(primary)
                    /\ Distance(initial[r], target[r]) <= Distance(initial[r], a)
  BY DEF NoReplicaSkipped
<1>1. phase \in Served /\ ScanInvOf(r) /\ a \in Addresses /\ a # At(primary)
  BY DEF NodesInv, ScanInv, Replicas
<1>2. Index(a) \in Places /\ At(Index(a)) = a
  BY <1>1, IndexOf
<1>3. Index(a) \in SteadyPlaces(r)
  BY SMTT(30), <1>1, <1>2 DEF SteadyPlaces, At
<1>4. PICK t \in Places : /\ target[r] = nodes[t + 1] /\ t # primary
                          /\ Gap(initial[r], t) <= Gap(initial[r], Index(a))
  BY <1>1, <1>3, SMTT(30) DEF ScanInvOf
<1>5. target[r] = At(t) /\ primary \in Places /\ At(t) # At(primary)
  BY SMTT(30), <1>1, <1>4, NodeTypes DEF At, Places
<1>6. /\ Distance(initial[r], At(t)) = Gap(initial[r], t)
      /\ Distance(initial[r], At(Index(a))) = Gap(initial[r], Index(a))
  BY SMTT(30), <1>1, <1>2, DistanceOf
<1> QED BY <1>2, <1>4, <1>5, <1>6

LEMMA ReadsAlternateInv ==
  ASSUME NodesInv, ScanInv, ReadInv
  PROVE  ReadsAlternate
<1> SUFFICES ASSUME NEW r \in Requests, pc[r] = "exchange", Cardinality(Up \cap Replicas) > 1,
                    target[r] = lastRead
             PROVE  FALSE
  BY SMTT(30) DEF ReadsAlternate
<1>1. phase \in Served /\ ScanInvOf(r) /\ TypeOK /\ target[r] \in Addresses
  BY SMTT(30) DEF NodesInv, ScanInv, TypeOK
<1>2. /\ lastRead # Nowhere /\ r \in Scanning
  BY <1>1, ConstantsAssumption DEF Scanning
<1>3. /\ latest < Len(nodes) /\ lastRead = At(latest) /\ initial[r] = latest /\ steady[r] = Up
  BY <1>2 DEF ReadInv
<1>4. latest \in Places /\ Len(nodes) \in Nat \ {0}
  BY SMTT(30), <1>1, <1>3, NodeTypes DEF TypeOK, Places
<1>5. PICK a \in Up \cap Replicas : a # lastRead
  <2>1. ASSUME \A a \in Up \cap Replicas : a = lastRead PROVE FALSE
    <3>1. Up \cap Replicas \in SUBSET {lastRead} /\ IsFiniteSet({lastRead}) /\ Cardinality({lastRead}) = 1
      BY <2>1, FS_Singleton
    <3>2. Cardinality(Up \cap Replicas) <= 1 /\ Cardinality(Up \cap Replicas) \in Nat
      BY SMTT(30), <3>1, FS_Subset, FS_CardinalityType
    <3> QED BY <3>2
  <2> QED BY <2>1
<1>6. /\ a \in steady[r] \cap Replicas /\ a \in Addresses /\ count[r] > 0
  BY <1>1, <1>3, <1>5, SMTT(30) DEF ScanInvOf, Up
<1>7. Distance(initial[r], target[r]) <= Distance(initial[r], a)
  BY <1>6, NoReplicaSkippedInv DEF NoReplicaSkipped
<1>8. Index(a) \in Places /\ At(Index(a)) = a /\ Index(a) # latest
  BY SMTT(30), <1>1, <1>3, <1>5, <1>6, IndexOf
<1>9. Gap(latest, latest) <= Gap(latest, Index(a))
  BY SMTT(30), <1>1, <1>3, <1>4, <1>7, <1>8, DistanceOf
<1>10. Gap(latest, latest) = Len(nodes) - 1
  BY <1>4, GapOf DEF Gap, Places
<1>11. Gap(latest, Index(a)) = IF Index(a) > latest THEN Index(a) - latest - 1
                                                    ELSE Index(a) - latest - 1 + Len(nodes)
  BY ZenonT(30), <1>4, <1>8, GapOf DEF Gap, Places
<1>12. /\ Index(a) \in 0..(Len(nodes) - 1) /\ latest \in 0..(Len(nodes) - 1)
       /\ Index(a) # latest /\ Len(nodes) \in Nat
  BY <1>4, <1>8 DEF Places
<1> QED BY <1>9, <1>10, <1>11, <1>12

-----------------------------------------------------------------------------
LEMMA InvariantsHold == Spec => [](NodesInv /\ ScanInv /\ ReadInv)
<1>1. Init => NodesInv /\ ScanInv /\ ReadInv
  BY NodesInvInit, ScanInvInit, ReadInvInit
<1>2. NodesInv /\ ScanInv /\ ReadInv /\ [Next]_vars => (NodesInv /\ ScanInv /\ ReadInv)'
  BY NodesInvStep, ScanInvStep, ReadInvStep
<1> QED BY <1>1, <1>2, PTL DEF Spec

(* Every variable keeps its type, and primary_index and latest_read_replica_index
   are in bounds whenever get_connection uses them. *)
THEOREM TypeOKHolds == Spec => []TypeOK
<1>1. NodesInv => TypeOK
  BY DEF NodesInv
<1> QED BY <1>1, InvariantsHold, PTL

(* A client that create_client returned has every address exactly once, and its
   primary reported role:master. *)
THEOREM PrimaryIsMasterHolds == Spec => []PrimaryIsMaster
<1>1. NodesInv => PrimaryIsMaster
  <2> SUFFICES ASSUME NodesInv, phase \in Served
               PROVE  /\ Answered = Addresses /\ Len(nodes) = Cardinality(Addresses)
                      /\ At(primary) \in masters
    BY DEF PrimaryIsMaster, Served
  <2>1. Answered = Addresses /\ Cardinality(Answered) = Len(nodes)
    BY DEF NodesInv
  <2>2. primary # -1
    BY DEF NodesInv, TypeOK, Served
  <2> QED BY <2>1, <2>2 DEF NodesInv
<1> QED BY <1>1, InvariantsHold, PTL

(* round_robin_read_from_replica passes over no replica that stays connected
   during the scan, and falls back to the primary only if there is none. *)
THEOREM NoReplicaSkippedHolds == Spec => []NoReplicaSkipped
<1>1. NodesInv /\ ScanInv => NoReplicaSkipped
  BY NoReplicaSkippedInv
<1> QED BY <1>1, InvariantsHold, PTL

(* Two reads one after the other use different replicas, if the exchange of the
   first was carried out, no other scan ran and no link changed. *)
THEOREM ReadsAlternateHolds == Spec => []ReadsAlternate
<1>1. NodesInv /\ ScanInv /\ ReadInv => ReadsAlternate
  BY ReadsAlternateInv
<1> QED BY <1>1, InvariantsHold, PTL

-----------------------------------------------------------------------------
(* Each node is used as module Link says a connection is used, for any set *)
(* of addresses and any number of concurrent requests.                     *)

UseOf(a, r) ==
  IF target[r] # a \/ pc[r] = "exchange" THEN "out"
  ELSE IF pc[r] = "wait" THEN "waiting" ELSE "holding"

LinkStep(a) == [Node(a)!Next]_(Node(a)!linkVars)

LEMMA NodesAreLinksInit ==
  ASSUME Init, NEW a \in Addresses
  PROVE  Node(a)!Init
BY ConstantsAssumption DEF Init, Node!Init

(* A node that a step does not concern. *)
LEMMA NodeStays ==
  ASSUME NEW a \in Addresses, \A r \in Requests : UseOf(a, r)' = UseOf(a, r), link'[a] = link[a]
  PROVE  LinkStep(a)
BY SMTT(30) DEF LinkStep, UseOf, Node!linkVars

(* Its link changes, and no request's use of it. *)
LEMMA NodeLinkChanges ==
  ASSUME NEW a \in Addresses, \A r \in Requests : UseOf(a, r)' = UseOf(a, r),
         \/ link[a] = "new" /\ link'[a] \in {"up", "down"}
         \/ link[a] = "up" /\ link'[a] = "down"
         \/ link[a] = "down" /\ link'[a] = "up"
  PROVE  LinkStep(a)
<1>1. UNCHANGED [r \in Requests |-> UseOf(a, r)]
  BY SMTT(30)
<1> QED
  BY <1>1 DEF LinkStep, UseOf, Node!Next, Node!Open, Node!Lose, Node!Restore

(* One request's use of it changes. *)
LEMMA NodeUseChanges ==
  ASSUME NEW a \in Addresses, NEW q \in Requests,
         \A r \in Requests : r # q => UseOf(a, r)' = UseOf(a, r),
         \/ link[a] # "new" /\ link'[a] = link[a] /\ UseOf(a, q) = "out" /\ UseOf(a, q)' = "waiting"
         \/ link[a] = "up" /\ link'[a] = link[a] /\ UseOf(a, q) = "waiting" /\ UseOf(a, q)' = "holding"
         \/ link'[a] = link[a] /\ UseOf(a, q) # "out" /\ UseOf(a, q)' = "out"
         \/ link'[a] = "down" /\ UseOf(a, q) = "holding" /\ UseOf(a, q)' = "out"
  PROVE  LinkStep(a)
<1> DEFINE use == [r \in Requests |-> UseOf(a, r)]
<1>1. use' = [use EXCEPT ![q] = UseOf(a, q)'] /\ use[q] = UseOf(a, q)
  BY ZenonT(60)
<1> QED
  BY ZenonT(30), <1>1 DEF LinkStep, UseOf, Node!Next, Node!Enter, Node!Acquire, Node!Leave, Node!LeaveLost

(* A step of a request, and what it leaves of the uses of a node. *)
Runs(q) ==
  \/ SendToPrimary(q) \/ StartScan(q) \/ ScanStep(q) \/ GetConnection(q)
  \/ Reply(q) \/ Disconnected(q) \/ Timeout(q)

Concerns(a, q) ==
  /\ TypeOK /\ link[a] # "new"
  /\ \A r \in Requests : r # q => UseOf(a, r)' = UseOf(a, r)
  /\ pc[q] \in {"idle", "scan"} => UseOf(a, q) = "out"

LEMMA RunsServed ==
  ASSUME NEW q \in Requests, Runs(q)
  PROVE  pc[q] # "idle" \/ phase = "ready"
<1>1. CASE SendToPrimary(q) \/ StartScan(q)
  BY <1>1, ZenonT(60) DEF SendToPrimary, StartScan
<1>2. CASE ScanStep(q)
  BY <1>2, ZenonT(60) DEF ScanStep, ScanExhausted, ScanSkips, ScanFinds, Exchange
<1>3. CASE GetConnection(q) \/ Reply(q) \/ Disconnected(q) \/ Timeout(q)
  BY <1>3, ZenonT(60) DEF GetConnection, Reply, Disconnected, Timeout
<1> QED BY <1>1, <1>2, <1>3, Zenon DEF Runs

LEMMA OthersStay ==
  ASSUME TypeOK, NEW q \in Requests, NEW r \in Requests, r # q, Runs(q)
  PROVE  pc'[r] = pc[r] /\ target'[r] = target[r]
<1>1. CASE SendToPrimary(q) \/ StartScan(q)
  BY <1>1, ZenonT(60) DEF SendToPrimary, StartScan, TypeOK
<1>2. CASE ScanStep(q)
  BY <1>2, ZenonT(60) DEF ScanStep, ScanExhausted, ScanSkips, ScanFinds, Exchange, TypeOK
<1>3. CASE GetConnection(q)
  BY <1>3, ZenonT(60) DEF GetConnection, TypeOK
<1>4. CASE Reply(q) \/ Disconnected(q) \/ Timeout(q)
  BY <1>4, ZenonT(60) DEF Reply, Disconnected, Timeout, FinishRequest, TypeOK
<1> QED BY <1>1, <1>2, <1>3, <1>4, Zenon DEF Runs

LEMMA RunsConcerns ==
  ASSUME NodesInv, NEW a \in Addresses, NEW q \in Requests, Runs(q)
  PROVE  Concerns(a, q)
<1>1. TypeOK
  BY SMTT(30) DEF NodesInv
<1>2. link[a] # "new"
  <2>1. pc[q] # "idle" \/ phase = "ready"
    BY RunsServed, Zenon
  <2>2. phase \in Served
    BY SMTT(30), <2>1 DEF NodesInv, Served
  <2>3. a \in Answered
    BY SMTT(30), <2>2 DEF NodesInv
  <2> QED BY SMTT(30), <2>3 DEF NodesInv
<1>3. \A r \in Requests : r # q => UseOf(a, r)' = UseOf(a, r)
  <2>1. \A r \in Requests : r # q => pc'[r] = pc[r] /\ target'[r] = target[r]
    BY <1>1, OthersStay, Zenon
  <2> QED BY <2>1, SMTT(30) DEF UseOf
<1>4. pc[q] \in {"idle", "scan"} => UseOf(a, q) = "out"
  BY ZenonT(60), <1>1, ConstantsAssumption DEF TypeOK, UseOf
<1> QED BY <1>1, <1>2, <1>3, <1>4 DEF Concerns

(* No use of the node changes. *)
LEMMA NotConcerned ==
  ASSUME NEW a \in Addresses, NEW q \in Requests, Concerns(a, q),
         UseOf(a, q)' = UseOf(a, q), link'[a] = link[a]
  PROVE  LinkStep(a)
<1>1. \A r \in Requests : UseOf(a, r)' = UseOf(a, r)
  BY Zenon DEF Concerns
<1> QED BY <1>1, NodeStays, Zenon

(* One way of changing a use, or none. *)
LEMMA OneConcerned ==
  ASSUME NEW a \in Addresses, NEW q \in Requests, Concerns(a, q),
         \/ UseOf(a, q)' = UseOf(a, q) /\ link'[a] = link[a]
         \/ link[a] # "new" /\ link'[a] = link[a] /\ UseOf(a, q) = "out" /\ UseOf(a, q)' = "waiting"
         \/ link[a] = "up" /\ link'[a] = link[a] /\ UseOf(a, q) = "waiting" /\ UseOf(a, q)' = "holding"
         \/ link'[a] = link[a] /\ UseOf(a, q) # "out" /\ UseOf(a, q)' = "out"
         \/ link'[a] = "down" /\ UseOf(a, q) = "holding" /\ UseOf(a, q)' = "out"
  PROVE  LinkStep(a)
<1>1. \A r \in Requests : r # q => UseOf(a, r)' = UseOf(a, r)
  BY Zenon DEF Concerns
<1> QED BY <1>1, NotConcerned, NodeUseChanges, ZenonT(60)

(* What each action of a request does to the node. *)
LEMMA Enters ==
  ASSUME NEW q \in Requests, TypeOK, SendToPrimary(q) \/ ScanExhausted(q) \/ Exchange(q)
  PROVE  pc[q] \in {"idle", "scan", "exchange"} /\ pc'[q] = "wait" /\ link' = link
<1>1. CASE SendToPrimary(q)
  BY <1>1, ZenonT(60) DEF SendToPrimary, TypeOK
<1>2. CASE ScanExhausted(q)
  BY <1>2, ZenonT(60) DEF ScanExhausted, TypeOK
<1>3. CASE Exchange(q)
  BY <1>3, ZenonT(60) DEF Exchange, TypeOK
<1> QED BY <1>1, <1>2, <1>3

LEMMA NodeEnters ==
  ASSUME NEW a \in Addresses, NEW q \in Requests, Concerns(a, q),
         pc[q] \in {"idle", "scan", "exchange"}, pc'[q] = "wait", link' = link
  PROVE  LinkStep(a)
<1>1. UseOf(a, q) = "out" /\ link'[a] = link[a] /\ link[a] # "new"
  BY ZenonT(60) DEF Concerns, UseOf
<1>2. UseOf(a, q)' = "out" \/ UseOf(a, q)' = "waiting"
  BY ZenonT(60) DEF UseOf
<1> QED BY <1>1, <1>2, OneConcerned, ZenonT(60)

LEMMA Scans ==
  ASSUME NEW q \in Requests, TypeOK, StartScan(q) \/ ScanSkips(q) \/ ScanFinds(q)
  PROVE  /\ pc[q] \in {"idle", "scan"} /\ link' = link
         /\ pc'[q] = "exchange" \/ target'[q] = Nowhere
<1>1. CASE StartScan(q)
  BY <1>1, ZenonT(60) DEF StartScan, TypeOK
<1>2. CASE ScanSkips(q)
  BY <1>2, ZenonT(60) DEF ScanSkips, TypeOK
<1>3. CASE ScanFinds(q)
  BY <1>3, ZenonT(60) DEF ScanFinds, TypeOK
<1> QED BY <1>1, <1>2, <1>3

LEMMA NodeScanned ==
  ASSUME NEW a \in Addresses, NEW q \in Requests, Concerns(a, q),
         pc[q] \in {"idle", "scan"}, link' = link, pc'[q] = "exchange" \/ target'[q] = Nowhere
  PROVE  LinkStep(a)
<1>1. UseOf(a, q) = "out" /\ link'[a] = link[a]
  BY ZenonT(60) DEF Concerns
<1>2. UseOf(a, q)' = "out"
  BY ConstantsAssumption, ZenonT(60) DEF UseOf
<1> QED BY <1>1, <1>2, NotConcerned, ZenonT(60)

LEMMA NodeAcquired ==
  ASSUME NEW a \in Addresses, NEW q \in Requests, Concerns(a, q), GetConnection(q)
  PROVE  LinkStep(a)
<1>1. /\ link'[a] = link[a] /\ pc[q] = "wait" /\ pc'[q] = "sent" /\ target'[q] = target[q]
      /\ link[target[q]] = "up"
  BY SMTT(30) DEF GetConnection, Concerns, TypeOK
<1>2. \/ UseOf(a, q) = "out" /\ UseOf(a, q)' = "out"
      \/ UseOf(a, q) = "waiting" /\ UseOf(a, q)' = "holding" /\ link[a] = "up"
  BY <1>1, ZenonT(60) DEF UseOf
<1> QED BY <1>1, <1>2, OneConcerned, ZenonT(60)

LEMMA NodeLeft ==
  ASSUME NEW a \in Addresses, NEW q \in Requests, Concerns(a, q), Reply(q) \/ Timeout(q)
  PROVE  LinkStep(a)
<1>1. UseOf(a, q)' = "out" /\ link'[a] = link[a]
  BY ConstantsAssumption, SMTT(30) DEF Reply, Timeout, FinishRequest, LinksStay, UseOf, Concerns, TypeOK
<1> QED BY <1>1, OneConcerned, ZenonT(60)

LEMMA NodeLost ==
  ASSUME NEW a \in Addresses, NEW q \in Requests, Concerns(a, q), Disconnected(q)
  PROVE  LinkStep(a)
<1>1. /\ pc[q] = "sent" /\ target'[q] = Nowhere
      /\ link' = [link EXCEPT ![target[q]] = "down"]
  BY SMTT(30) DEF Disconnected, FinishRequest, LinkBecomes, Concerns, TypeOK
<1>2. UseOf(a, q)' = "out"
  BY SMTT(30), <1>1, ConstantsAssumption DEF UseOf
<1>3. \/ UseOf(a, q) = "out" /\ link'[a] = link[a]
      \/ UseOf(a, q) = "holding" /\ link'[a] = "down"
  BY SMTT(30), <1>1 DEF UseOf, Concerns, TypeOK
<1> QED BY <1>2, <1>3, OneConcerned, ZenonT(60)

LEMMA NodeRuns ==
  ASSUME NodesInv, NEW a \in Addresses, NEW q \in Requests, Runs(q)
  PROVE  LinkStep(a)
<1>1. Concerns(a, q)
  BY RunsConcerns, Zenon
<1>2. \/ SendToPrimary(q) \/ ScanExhausted(q) \/ Exchange(q)
      \/ StartScan(q) \/ ScanSkips(q) \/ ScanFinds(q)
      \/ GetConnection(q) \/ Reply(q) \/ Timeout(q) \/ Disconnected(q)
  BY Zenon DEF Runs, ScanStep
<1>3. TypeOK
  BY <1>1 DEF Concerns
<1>4. CASE SendToPrimary(q) \/ ScanExhausted(q) \/ Exchange(q)
  BY <1>1, <1>3, <1>4, Enters, NodeEnters, ZenonT(60)
<1>5. CASE StartScan(q) \/ ScanSkips(q) \/ ScanFinds(q)
  BY <1>1, <1>3, <1>5, Scans, NodeScanned, ZenonT(60)
<1> QED BY <1>1, <1>2, <1>4, <1>5, NodeAcquired, NodeLeft, NodeLost, ZenonT(60)

LEMMA NodesAreLinksStep ==
  ASSUME NodesInv, [Next]_vars, NEW a \in Addresses
  PROVE  LinkStep(a)
<1>0. TypeOK
  BY DEF NodesInv
<1>1. ASSUME UNCHANGED <<pc, target>>
      PROVE  \A r \in Requests : UseOf(a, r)' = UseOf(a, r)
  BY <1>1, SMTT(30) DEF UseOf
<1>2. ASSUME NEW b \in Addresses,
             \/ Connect(b) \/ ConnectErr(b) \/ InfoErr(b) \/ \E master \in BOOLEAN : InfoOk(b, master)
             \/ Restore(b) \/ HeartbeatLoses(b)
      PROVE  LinkStep(a)
  <2>1. UNCHANGED <<pc, target>>
    BY SMTT(30), <1>2 DEF Connect, ConnectErr, InfoErr, InfoOk, Restore, HeartbeatLoses
  <2>2. \/ link'[a] = link[a]
        \/ link[a] = "new" /\ link'[a] \in {"up", "down"}
        \/ link[a] = "up" /\ link'[a] = "down"
        \/ link[a] = "down" /\ link'[a] = "up"
    BY SMTT(30), <1>0, <1>2 DEF Connect, ConnectErr, InfoErr, InfoOk, Restore, HeartbeatLoses, LinkBecomes, TypeOK
  <2> QED BY SMTT(30), <1>1, <2>1, <2>2, NodeStays, NodeLinkChanges
<1>3. CASE CreationEnds \/ CreationTimesOut \/ Release \/ UNCHANGED vars
  <2>1. UNCHANGED <<pc, target, link>>
    BY <1>3 DEF CreationEnds, CreationTimesOut, Release, vars
  <2> QED BY SMTT(30), <1>1, <2>1, NodeStays
<1> QED
  BY <1>2, <1>3, NodeRuns DEF Next, Runs

(* The client uses each of its nodes as module Link says a connection is used:
   every step of the client is, for each node, a step of its link or none. *)
THEOREM NodesAreLinksHolds == Spec => NodesAreLinks
<1>1. Init => \A a \in Addresses : Node(a)!Init
  BY NodesAreLinksInit
<1>2. NodesInv /\ [Next]_vars => [\A a \in Addresses : [Node(a)!Next]_(Node(a)!linkVars)]_vars
  BY NodesAreLinksStep DEF LinkStep
<1> QED
  BY <1>1, <1>2, InvariantsHold, PTL DEF Spec, NodesAreLinks
=============================================================================
