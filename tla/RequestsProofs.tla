--------------------------- MODULE RequestsProofs ---------------------------
(***************************************************************************)
(* Proofs about Requests, for any number of threads, any sessions and any  *)
(* bounds on the commands appended and the requests sent.                  *)
(***************************************************************************)
EXTENDS CommandsProofs

-----------------------------------------------------------------------------
(* The transaction *)

(* An execution under way: the copy was the transaction of one instant of it,
   and the commands built so far are the first ones of the copy. *)
Execution(e) ==
  /\ e = [copy |-> e.copy, built |-> e.built, route |-> e.route, seen |-> e.seen]
  /\ IsSeq(e.copy) /\ IsSeq(e.built)
  /\ Len(e.built) <= Len(e.copy) /\ Len(e.copy) <= session.maxAppends
  /\ \A i \in 1..Len(e.built) : e.built[i].call = e.copy[i].call
  /\ CallsOf(e.copy) \in e.seen
  /\ e.route \in session.routes

ExecInv ==
  /\ exec = [t \in Threads |-> exec[t]]
  /\ \A t \in Threads : exec[t] # None => Execution(exec[t])

ListInv ==
  /\ session \in Sessions /\ list \in Range(Lists)
  /\ appends \in 0..session.maxAppends /\ execs \in 0..session.maxExecs
  /\ IsSeq(commands) /\ Len(commands) <= appends
  /\ \A i \in DOMAIN commands : commands[i].call \in session.calls

(* Where the core sends what it got, by the mode of its client. *)
Routing(direct, asked) ==
  LET routing == GetRoute(SetProtobufRoute(asked))
  IN  IF direct THEN CommandRouting(routing, link.cluster) ELSE TransactionRouting(routing, link.cluster)

(* What the core got last. *)
ServedInv ==
  served # None =>
    /\ CallsOf(served.entries) \in served.seen
    /\ served.asked \in session.routes
    /\ served.direct \in BOOLEAN
    /\ served.route = Routing(served.direct, served.asked)

(* Only a client that was created executes and sends. *)
ConnectedInv ==
  /\ served # None => Connected
  /\ \A t \in Threads : exec[t] # None => Connected

(* The client is the one of the session's configuration. *)
LinkInv ==
  \/ link = None \/ link = Raised
  \/ /\ ~ConnRequestRaises(session.config, IsCluster)
     /\ link = CoreClient(ConnRequest(session.config, IsCluster))

RequestsInv == ListInv /\ ExecInv /\ ServedInv /\ LinkInv /\ ConnectedInv

(* What the assumption says of the session at hand. *)
LEMMA SessionFacts ==
  ASSUME session \in Sessions
  PROVE  /\ session.maxAppends \in Nat /\ session.maxExecs \in Nat
         /\ IsConfig(session.config)
         /\ \A r \in session.routes : IsRoute(r)
BY RequestsAssumption

(* The caller's list has two contents. *)
LEMMA ListsInRange == Lists[1] \in Range(Lists) /\ Lists[2] \in Range(Lists)
<1> DEFINE X == Range(Lists)
<1>1. Lists \in Seq(X) /\ Len(Lists) = 2
  BY RequestsAssumption, Zenon
<1>2. 1 \in DOMAIN Lists /\ 2 \in DOMAIN Lists
  <2> HIDE DEF X
  <2> QED BY <1>1
<1> QED BY <1>2, Zenon DEF Range

(* The mode of a client is a Boolean. *)
LEMMA ClientMode ==
  CoreClient(ConnRequest(session.config, IsCluster)).cluster \in BOOLEAN
BY DEF CoreClient, ConnRequest, BaseConnRequest, IsCluster

(* The history of an execution grows, the rest of it stays. *)
LEMMA NoticedExecution ==
  ASSUME NEW now, ExecInv, exec' = Noticed(now), session' = session
  PROVE  ExecInv'
<1>1. /\ exec' = [t \in Threads |-> exec'[t]]
      /\ \A t \in Threads : exec'[t] = IF exec[t] = None THEN None
                                        ELSE [exec[t] EXCEPT !.seen = @ \union {CallsOf(now)}]
  BY DEF Noticed
<1>2. ASSUME NEW t \in Threads, exec'[t] # None PROVE Execution(exec[t])' 
  <2>1. Execution(exec[t]) /\ exec[t] # None
    BY SMTT(30), <1>1, <1>2 DEF ExecInv
  <2>2. exec'[t] = [copy |-> exec[t].copy, built |-> exec[t].built, route |-> exec[t].route,
                    seen |-> exec[t].seen \union {CallsOf(now)}]
    BY SMTT(30), <1>1, <2>1 DEF Execution
  <2>3. /\ exec'[t].copy = exec[t].copy /\ exec'[t].built = exec[t].built
        /\ exec'[t].route = exec[t].route
        /\ exec'[t].seen = exec[t].seen \union {CallsOf(now)}
    BY SMTT(30), <2>2
  <2>4. exec'[t] = [copy |-> exec'[t].copy, built |-> exec'[t].built, route |-> exec'[t].route,
                    seen |-> exec'[t].seen]
    BY SMTT(30), <2>2, <2>3
  <2> QED BY <2>1, <2>3, <2>4 DEF Execution, IsSeq, CallsOf
<1> QED BY <1>1, <1>2 DEF ExecInv

(* The list of commands keeps its type and its bound. *)
LEMMA ListStep ==
  ASSUME ListInv, [Next]_vars
  PROVE  ListInv'
<1>0. /\ session.maxAppends \in Nat /\ session.maxExecs \in Nat
      /\ appends \in Nat /\ execs \in Nat
  BY SMTT(30), SessionFacts DEF ListInv
<1>1. ASSUME NEW t \in Threads, NEW c \in session.calls, AppendCommand(t, c) PROVE ListInv'
  <2> DEFINE e == [call |-> c, list |-> list, type |-> TransactionCommand(c, list).type,
                   args |-> TransactionCommand(c, list).args,
                   shared |-> TransactionCommand(c, list).shared]
  <2>1. /\ commands' = Append(commands, e) /\ appends' = appends + 1
        /\ appends < session.maxAppends
        /\ UNCHANGED <<session, list, execs>>
    BY SMTT(30), <1>1 DEF AppendCommand
  <2>2. e.call = c
    OBVIOUS
  <2>3. /\ IsSeq(commands') /\ Len(commands') = Len(commands) + 1 /\ Len(commands) \in Nat
        /\ DOMAIN commands = 1..Len(commands)
        /\ DOMAIN commands' = 1..(Len(commands) + 1)
        /\ (\A i \in 1..Len(commands) : commands'[i] = commands[i])
        /\ commands'[Len(commands) + 1].call = c
    <3> HIDE DEF e
    <3> QED BY SMTT(30), <2>1, <2>2, AppendIsSeq DEF ListInv
  <2>4. \A i \in DOMAIN commands' : commands'[i].call \in session.calls
    BY SMTT(30), <2>3 DEF ListInv
  <2>5. appends' \in 0..session.maxAppends /\ Len(commands') <= appends'
    BY SMTT(30), <1>0, <2>1, <2>3 DEF ListInv
  <2> QED BY SMTT(30), <2>1, <2>3, <2>4, <2>5 DEF ListInv, IsSeq
<1>2. ASSUME NEW t \in Threads, Clear(t) PROVE ListInv'
  <2>1. commands' = <<>> /\ UNCHANGED <<session, list, appends, execs>>
    BY <1>2 DEF Clear
  <2>2. IsSeq(commands') /\ Len(commands') <= appends' /\ DOMAIN commands' = {}
    BY SMTT(30), <1>0, <2>1, EmptyIsSeq DEF IsSeq
  <2> QED BY SMTT(30), <2>1, <2>2 DEF ListInv
<1>3. ASSUME execs < session.maxExecs, execs' = execs + 1, UNCHANGED <<session, list, commands, appends>>
      PROVE  ListInv'
  BY SMTT(30), <1>0, <1>3 DEF ListInv, IsSeq
<1>4. CASE ListChanges
  <2>1. list' = Lists[2] /\ UNCHANGED <<session, commands, appends, execs>>
    BY <1>4 DEF ListChanges
  <2>2. Lists[2] \in Range(Lists)
    BY SMTT(30), ListsInRange
  <2> QED BY SMTT(30), <2>1, <2>2 DEF ListInv, IsSeq
<1>5. ASSUME UNCHANGED <<session, list, commands, appends, execs>> PROVE ListInv'
  BY <1>5 DEF ListInv, IsSeq
<1>6. ASSUME NEW t \in Threads, ThreadStep(t) PROVE ListInv'
  <2>1. ASSUME NEW c, NEW r, ExecuteCommand(c, r) PROVE ListInv'
    BY SMTT(30), <1>3, <2>1 DEF ExecuteCommand
  <2>2. ASSUME NEW r, Exec(t, r) PROVE ListInv'
    BY SMTT(30), <1>3, <2>2 DEF Exec
  <2>3. CASE BuildCommand(t) \/ SendTransaction(t)
    BY SMTT(30), <1>5, <2>3 DEF BuildCommand, SendTransaction
  <2> QED BY SMTT(30), <1>1, <1>2, <1>6, <2>1, <2>2, <2>3 DEF ThreadStep
<1>7. CASE Create \/ CreateRaises
  BY SMTT(30), <1>5, <1>7 DEF Create, CreateRaises
<1>8. CASE UNCHANGED vars
  BY SMTT(30), <1>5, <1>8 DEF vars
<1> QED BY SMTT(30), <1>4, <1>6, <1>7, <1>8 DEF Next

(* Executions keep to the copy they were given. *)
LEMMA ExecutionStep ==
  ASSUME ListInv, ExecInv, [Next]_vars
  PROVE  ExecInv'
<1>0. /\ session.maxAppends \in Nat /\ appends \in 0..session.maxAppends /\ session \in Sessions
      /\ IsSeq(commands) /\ Len(commands) <= appends /\ Len(commands) \in Nat
  BY SMTT(30), SessionFacts, AppendIsSeq DEF ListInv
<1>1. ASSUME NEW t \in Threads, NEW c, AppendCommand(t, c) PROVE ExecInv'
  BY SMTT(30), <1>1, NoticedExecution DEF AppendCommand
<1>2. ASSUME NEW t \in Threads, Clear(t) PROVE ExecInv'
  BY SMTT(30), <1>2, NoticedExecution DEF Clear
<1>3. ASSUME NEW t \in Threads, NEW e, exec' = [exec EXCEPT ![t] = e], session' = session,
             e # None => Execution(e)
      PROVE  ExecInv'
  <2>1. exec' = [u \in Threads |-> exec'[u]] /\ exec'[t] = e
        /\ \A u \in Threads : u # t => exec'[u] = exec[u]
    BY SMTT(30), <1>3 DEF ExecInv
  <2> SUFFICES ASSUME NEW u \in Threads, exec'[u] # None PROVE Execution(exec[u])'
    BY <2>1 DEF ExecInv
  <2>2. Execution(exec'[u])
    BY SMTT(30), <1>3, <2>1 DEF ExecInv
  <2> QED BY SMTT(30), <1>3, <2>2 DEF Execution, IsSeq, CallsOf
<1>4. ASSUME NEW t \in Threads, NEW r \in session.routes, Exec(t, r) PROVE ExecInv'
  <2> DEFINE e == [copy |-> commands, built |-> <<>>, route |-> r, seen |-> {CallsOf(commands)}]
  <2>1. exec' = [exec EXCEPT ![t] = e] /\ session' = session
    BY SMTT(30), <1>4 DEF Exec
  <2>2. e.copy = commands /\ e.built = <<>> /\ e.route = r /\ e.seen = {CallsOf(commands)}
    OBVIOUS
  <2>3. e = [copy |-> e.copy, built |-> e.built, route |-> e.route, seen |-> e.seen]
    OBVIOUS
  <2>4. Execution(e)
    <3> HIDE DEF e
    <3>1. Len(e.built) = 0 /\ IsSeq(e.built) /\ 1..Len(e.built) = {}
      BY SMTT(30), <2>2, EmptyIsSeq
    <3>2. Len(e.built) <= Len(e.copy) /\ Len(e.copy) <= session.maxAppends
      BY SMTT(30), <1>0, <2>2, <3>1
    <3> QED BY <1>0, <2>2, <2>3, <3>1, <3>2, Zenon DEF Execution
  <2> QED BY ZenonT(60), <1>3, <2>1, <2>4
<1>5. ASSUME NEW t \in Threads, BuildCommand(t) PROVE ExecInv'
  <2> DEFINE o == exec[t]
             n == o.copy[Len(o.built) + 1]
             b == [call |-> n.call, list |-> n.list, type |-> n.type, args |-> ArgsOf(n, list)]
             e == [copy |-> o.copy, built |-> Append(o.built, b), route |-> o.route, seen |-> o.seen]
  <2>1. /\ o # None /\ Len(o.built) < Len(o.copy) /\ session' = session
        /\ exec' = [exec EXCEPT ![t].built = Append(@, b)]
    BY SMTT(30), <1>5 DEF BuildCommand, CommandsOf
  <2>2. Execution(o)
    BY SMTT(30), <2>1 DEF ExecInv
  <2>3. exec' = [exec EXCEPT ![t] = e]
    <3>1. [o EXCEPT !.built = Append(@, b)] = e
      <4> HIDE DEF b
      <4> QED BY SMTT(30), <2>2 DEF Execution
    <3> HIDE DEF b, e
    <3> QED BY <2>1, <3>1
  <2>4. /\ e.copy = o.copy /\ e.built = Append(o.built, b) /\ e.route = o.route /\ e.seen = o.seen
        /\ e = [copy |-> e.copy, built |-> e.built, route |-> e.route, seen |-> e.seen]
        /\ b.call = o.copy[Len(o.built) + 1].call
    OBVIOUS
  <2>5. Execution(e)
    <3> HIDE DEF o, b, e
    <3>1. /\ IsSeq(e.built) /\ Len(e.built) = Len(o.built) + 1 /\ Len(o.built) \in Nat
          /\ (\A i \in 1..Len(o.built) : e.built[i] = o.built[i])
          /\ e.built[Len(o.built) + 1] = b
          /\ Len(o.copy) \in Nat
      BY SMTT(30), <2>2, <2>4, AppendIsSeq DEF Execution
    <3>2. \A i \in 1..Len(e.built) : e.built[i].call = e.copy[i].call
      BY SMTT(30), <2>2, <2>4, <3>1 DEF Execution
    <3>3. Len(e.built) <= Len(e.copy)
      BY SMTT(30), <2>1, <2>4, <3>1
    <3> QED BY SMTT(30), <2>2, <2>4, <3>1, <3>2, <3>3 DEF Execution
  <2> QED BY ZenonT(60), <1>3, <2>1, <2>3, <2>5
<1>6. ASSUME NEW t \in Threads, SendTransaction(t) PROVE ExecInv'
  <2>1. exec' = [exec EXCEPT ![t] = None] /\ session' = session
    BY <1>6 DEF SendTransaction
  <2> QED BY <1>3, <2>1
<1>7. ASSUME UNCHANGED <<session, exec>> PROVE ExecInv'
  <2> SUFFICES ASSUME NEW t \in Threads, exec'[t] # None PROVE Execution(exec[t])'
    BY SMTT(30), <1>7 DEF ExecInv
  <2>1. Execution(exec[t]) /\ exec'[t] = exec[t]
    BY SMTT(30), <1>7 DEF ExecInv
  <2> QED BY <1>7, <2>1 DEF Execution, IsSeq, CallsOf
<1>8. ASSUME NEW t \in Threads, ThreadStep(t) PROVE ExecInv'
  <2>1. ASSUME NEW c, NEW r, ExecuteCommand(c, r) PROVE ExecInv'
    BY SMTT(30), <1>7, <2>1 DEF ExecuteCommand
  <2> QED BY SMTT(30), <1>1, <1>2, <1>4, <1>5, <1>6, <1>8, <2>1 DEF ThreadStep
<1>9. CASE Create \/ CreateRaises \/ ListChanges \/ UNCHANGED vars
  BY SMTT(30), <1>7, <1>9 DEF Create, CreateRaises, ListChanges, vars
<1> QED BY SMTT(30), <1>8, <1>9 DEF Next

(* A client that was created stays as it is, and the executions with it. *)
LEMMA ConnectedStep ==
  ASSUME ExecInv, ConnectedInv, [Next]_vars
  PROVE  ConnectedInv' /\ (Connected => link' = link)
<1>1. ASSUME link' = link, served' = served \/ Connected,
             \A t \in Threads : exec'[t] # None => exec[t] # None \/ Connected
      PROVE  ConnectedInv' /\ (Connected => link' = link)
  BY <1>1, ZenonT(60) DEF ConnectedInv, Connected
<1>2. CASE Create \/ CreateRaises
  BY <1>2, ZenonT(60) DEF Create, CreateRaises, ConnectedInv, Connected
<1>3. CASE ListChanges \/ UNCHANGED vars
  BY <1>1, <1>3, ZenonT(60) DEF ListChanges, vars
<1>4. ASSUME NEW t \in Threads, ThreadStep(t) PROVE ConnectedInv' /\ (Connected => link' = link)
  <2>1. ASSUME NEW c, NEW r, ExecuteCommand(c, r) PROVE ConnectedInv' /\ (Connected => link' = link)
    <3>1. Connected /\ UNCHANGED <<link, exec>>
      BY <2>1, Zenon DEF ExecuteCommand
    <3> QED BY <1>1, <3>1, Zenon
  <2>2. ASSUME NEW now, exec' = Noticed(now), UNCHANGED <<link, served>>
        PROVE  ConnectedInv' /\ (Connected => link' = link)
    <3>1. \A u \in Threads : exec'[u] # None => exec[u] # None
      BY <2>2 DEF Noticed
    <3> QED BY <1>1, <2>2, <3>1, Zenon
  <2>3. ASSUME NEW c, AppendCommand(t, c) PROVE ConnectedInv' /\ (Connected => link' = link)
    BY <2>2, <2>3, Zenon DEF AppendCommand
  <2>4. CASE Clear(t)
    BY <2>2, <2>4, Zenon DEF Clear
  <2>5. ASSUME NEW e, exec' = [exec EXCEPT ![t] = e], link' = link, Connected
        PROVE  ConnectedInv' /\ (Connected => link' = link)
    BY <1>1, <2>5, Zenon
  <2>6. ASSUME NEW r, Exec(t, r) PROVE ConnectedInv' /\ (Connected => link' = link)
    BY <2>5, <2>6, Zenon DEF Exec
  <2>7. CASE BuildCommand(t)
    <3>1. Connected /\ link' = link
      BY <2>7, Zenon DEF BuildCommand, ConnectedInv
    <3> QED BY <1>1, <3>1, Zenon
  <2>8. CASE SendTransaction(t)
    <3>1. Connected /\ link' = link
      BY <2>8, Zenon DEF SendTransaction, ConnectedInv
    <3> QED BY <1>1, <3>1, Zenon
  <2> QED BY <1>4, <2>1, <2>3, <2>4, <2>6, <2>7, <2>8, ZenonT(60) DEF ThreadStep
<1> QED BY <1>2, <1>3, <1>4, Zenon DEF Next

(* What the core gets was the transaction of one instant. *)
LEMMA ServedStep ==
  ASSUME ListInv, ExecInv, ServedInv, ConnectedInv, [Next]_vars
  PROVE  ServedInv'
<1>1. ASSUME NEW c, NEW r \in session.routes, ExecuteCommand(c, r) PROVE ServedInv'
  <2>1. /\ served'.entries = <<[call |-> c, list |-> list]>> /\ served'.seen = {<<c>>}
        /\ served'.asked = r /\ served'.direct = TRUE /\ session' = session /\ link' = link
        /\ served'.route = CommandRouting(GetRoute(SetProtobufRoute(r)), link.cluster)
    BY <1>1, Zenon DEF ExecuteCommand
  <2>2. CallsOf(<<[call |-> c, list |-> list]>>) = <<c>>
    BY DEF CallsOf
  <2>3. CallsOf(served'.entries) \in served'.seen
    BY <2>1, <2>2, Zenon
  <2>4. served'.route = Routing(served.direct, served.asked)'
    BY <2>1, Zenon DEF Routing
  <2> QED BY <1>1, <2>1, <2>3, <2>4, Zenon DEF ServedInv, CallsOf
<1>2. ASSUME NEW t \in Threads, SendTransaction(t) PROVE ServedInv'
  <2> DEFINE e == exec[t]
  <2>1. /\ e # None /\ Len(e.built) >= Len(e.copy) /\ session' = session
        /\ served'.entries = e.built /\ served'.seen = e.seen
        /\ served'.asked = e.route /\ served'.direct = FALSE /\ link' = link
        /\ served'.route = TransactionRouting(GetRoute(SetProtobufRoute(e.route)), link.cluster)
    BY <1>2, Zenon DEF SendTransaction, CommandsOf
  <2>2. Execution(e)
    BY SMTT(30), <2>1 DEF ExecInv
  <2>3. CallsOf(e.built) = CallsOf(e.copy)
    <3> HIDE DEF e
    <3>1. /\ Len(e.built) \in Nat /\ Len(e.copy) \in Nat /\ DOMAIN e.built = 1..Len(e.built)
          /\ DOMAIN e.copy = 1..Len(e.copy)
      BY SMTT(30), <2>2, AppendIsSeq DEF Execution
    <3>2. Len(e.built) = Len(e.copy)
      BY SMTT(30), <2>1, <2>2, <3>1 DEF Execution
    <3> QED BY SMTT(30), <2>2, <3>1, <3>2 DEF CallsOf, Execution
  <2>4. CallsOf(served'.entries) \in served'.seen
    BY <2>1, <2>2, <2>3, Zenon DEF Execution
  <2>5. served'.route = Routing(served.direct, served.asked)'
    BY <2>1, Zenon DEF Routing
  <2> QED BY <2>1, <2>2, <2>4, <2>5, ZenonT(60) DEF ServedInv, CallsOf, Execution
<1>3. ASSUME UNCHANGED <<session, served>> PROVE ServedInv'
  <2>1. CASE served = None
    BY <1>3, <2>1, Zenon DEF ServedInv
  <2>2. CASE served # None
    <3>1. link' = link
      BY <2>2, ConnectedStep, Zenon DEF ConnectedInv
    <3> QED BY <1>3, <3>1, ZenonT(60) DEF ServedInv, CallsOf, Routing
  <2> QED BY <2>1, <2>2
<1>4. ASSUME NEW t \in Threads, ThreadStep(t) PROVE ServedInv'
  <2>1. ASSUME NEW c, AppendCommand(t, c) PROVE ServedInv'
    BY SMTT(30), <1>3, <2>1 DEF AppendCommand
  <2>2. ASSUME NEW r, Exec(t, r) PROVE ServedInv'
    BY SMTT(30), <1>3, <2>2 DEF Exec
  <2>3. CASE Clear(t) \/ BuildCommand(t)
    BY SMTT(30), <1>3, <2>3 DEF Clear, BuildCommand
  <2> QED BY SMTT(30), <1>1, <1>2, <1>4, <2>1, <2>2, <2>3 DEF ThreadStep
<1>5. CASE Create \/ CreateRaises \/ ListChanges \/ UNCHANGED vars
  BY SMTT(30), <1>3, <1>5 DEF Create, CreateRaises, ListChanges, vars
<1> QED BY SMTT(30), <1>4, <1>5 DEF Next

(* The client is made once, of the session's configuration. *)
LEMMA LinkStep ==
  ASSUME LinkInv, [Next]_vars
  PROVE  LinkInv'
<1>1. session' = session
  BY DEF Next, ThreadStep, Create, CreateRaises, ListChanges, AppendCommand, ExecuteCommand, Clear,
     Exec, BuildCommand, SendTransaction, vars
<1>2. (ConnRequest(session.config, IsCluster) = ConnRequest(session.config, IsCluster)')
      /\ (ConnRequestRaises(session.config, IsCluster) <=> ConnRequestRaises(session.config, IsCluster)')
  BY <1>1, Zenon DEF IsCluster
<1>3. CASE Create
  BY <1>1, <1>3, Zenon DEF Create, LinkInv, IsCluster
<1>4. CASE CreateRaises
  BY <1>4 DEF CreateRaises, LinkInv
<1>5. CASE link' = link
  BY <1>1, <1>5, Zenon DEF LinkInv, IsCluster
<1> QED BY <1>3, <1>4, <1>5, ZenonT(60) DEF Next, ThreadStep, ListChanges, AppendCommand, ExecuteCommand, Clear,
     Exec, BuildCommand, SendTransaction, vars

(* All of it, from the first state on. *)
LEMMA RequestsInvInit == Init => RequestsInv
<1> SUFFICES ASSUME Init PROVE RequestsInv
  OBVIOUS
<1>1. /\ session \in Sessions /\ link = None /\ list = Lists[1] /\ commands = <<>>
      /\ exec = [t \in Threads |-> None] /\ served = None /\ appends = 0 /\ execs = 0
  BY DEF Init
<1>2. Lists[1] \in Range(Lists)
  BY ListsInRange
<1>3. ListInv
  <2>1. IsSeq(commands) /\ Len(commands) <= appends /\ DOMAIN commands = {}
    BY SMTT(30), <1>1, EmptyIsSeq
  <2>2. appends \in 0..session.maxAppends /\ execs \in 0..session.maxExecs
    BY SMTT(30), <1>1, SessionFacts
  <2> QED BY <1>1, <1>2, <2>1, <2>2, Zenon DEF ListInv
<1>4. ExecInv
  BY <1>1, Zenon DEF ExecInv
<1> QED BY <1>1, <1>3, <1>4, Zenon DEF RequestsInv, ServedInv, LinkInv, ConnectedInv

LEMMA RequestsInvStep == RequestsInv /\ [Next]_vars => RequestsInv'
BY ListStep, ExecutionStep, ServedStep, LinkStep, ConnectedStep, ZenonT(60) DEF RequestsInv

-----------------------------------------------------------------------------
(* Whatever threads append, clear, execute and change lists, the transaction and
   every execution of it stay well formed, within the bounds of the session. *)
THEOREM TypeOKHolds == Spec => []TypeOK
<1>1. RequestsInv => TypeOK
  <2> SUFFICES ASSUME RequestsInv PROVE TypeOK
    OBVIOUS
  <2>1. ListInv /\ ExecInv /\ LinkInv
    BY DEF RequestsInv
  <2>2. Len(commands) <= session.maxAppends
    BY SMTT(30), <2>1, SessionFacts, AppendIsSeq DEF ListInv
  <2>3. ASSUME NEW t \in Threads, exec[t] # None
        PROVE  exec[t].route \in session.routes /\ Len(exec[t].built) <= session.maxAppends
    <3> DEFINE e == exec[t]
    <3>1. Execution(e)
      BY SMTT(30), <2>1, <2>3 DEF ExecInv
    <3>2. Len(e.built) \in Nat /\ Len(e.copy) \in Nat /\ session.maxAppends \in Nat
      BY SMTT(30), <2>1, <3>1, SessionFacts, AppendIsSeq DEF Execution, ListInv
    <3> QED BY SMTT(30), <3>1, <3>2 DEF Execution
  <2>4. Connected => link.cluster \in BOOLEAN
    BY SMTT(30), <2>1, ClientMode DEF Connected, LinkInv
  <2> QED BY SMTT(30), <2>1, <2>2, <2>3, <2>4 DEF TypeOK, ListInv
<1> QED BY <1>1, RequestsInvInit, RequestsInvStep, PTL DEF Spec

(* An executed transaction is the transaction of one instant of its execution,
   for any number of threads that append, clear and execute, and any number of
   commands. *)
THEOREM ExecutedAtOneInstantHolds == Spec => []ExecutedAtOneInstant
<1>1. RequestsInv => ExecutedAtOneInstant
  BY Zenon DEF RequestsInv, ServedInv, ExecutedAtOneInstant
<1> QED BY <1>1, RequestsInvInit, RequestsInvStep, PTL DEF Spec

-----------------------------------------------------------------------------
(* Routes *)

(* get_route of the messages that set_protobuf_route makes. *)
LEMMA GetSimpleRoute ==
  ASSUME NEW m, m # None, NEW x \in {"AllNodes", "AllPrimaries", "Random"}, m = [simple |-> x]
  PROVE  GetRoute(m) = [AllNodes |-> [multi |-> "AllNodes"], AllPrimaries |-> [multi |-> "AllMasters"],
                        Random |-> [single |-> "Random"]][x]
<1>1. DOMAIN m = {"simple"} /\ m.simple = x
  OBVIOUS
<1>2. "simple" \in DOMAIN m /\ "slot_key" \notin DOMAIN m /\ "slot_id" \notin DOMAIN m
  BY SMTT(30), <1>1
<1> QED BY <1>1, <1>2, SMTT(30) DEF GetRoute

LEMMA GetKeyRoute ==
  ASSUME NEW m, m # None, NEW type, NEW k, m = [slot_type |-> type, slot_key |-> k]
  PROVE  GetRoute(m) = [slot |-> [of |-> k], addr |-> GetSlotAddr(type)]
<1>1. DOMAIN m = {"slot_type", "slot_key"} /\ m.slot_type = type /\ m.slot_key = k
  OBVIOUS
<1>2. "simple" \notin DOMAIN m /\ "slot_key" \in DOMAIN m /\ "slot_id" \notin DOMAIN m
  BY SMTT(30), <1>1
<1> QED BY <1>1, <1>2, SMTT(30) DEF GetRoute

LEMMA GetIdRoute ==
  ASSUME NEW m, m # None, NEW type, NEW n, m = [slot_type |-> type, slot_id |-> n]
  PROVE  GetRoute(m) = [slot |-> n % 65536, addr |-> GetSlotAddr(type)]
<1>1. DOMAIN m = {"slot_type", "slot_id"} /\ m.slot_type = type /\ m.slot_id = n
  OBVIOUS
<1>2. "simple" \notin DOMAIN m /\ "slot_key" \notin DOMAIN m /\ "slot_id" \in DOMAIN m
  BY SMTT(30), <1>1
<1> QED BY <1>1, <1>2, SMTT(30) DEF GetRoute

(* A slot type reaches get_route as the address it stands for. *)
LEMMA SlotAddr ==
  ASSUME NEW type
  PROVE  GetSlotAddr(ProtobufSlotType(type)) = "Master" <=> type = "PRIMARY"
<1>1. CASE type = "PRIMARY"
  BY SMTT(30), <1>1 DEF GetSlotAddr, ProtobufSlotType
<1>2. CASE type # "PRIMARY"
  BY <1>2 DEF GetSlotAddr, ProtobufSlotType
<1> QED BY SMTT(30), <1>1, <1>2

(* Every route object becomes the routing it stands for. *)
LEMMA RouteReadBack ==
  ASSUME NEW r, IsRoute(r), r # None, NEW route, route = GetRoute(SetProtobufRoute(r))
  PROVE  \/ r.class = "AllNodes" /\ route = [multi |-> "AllNodes"]
         \/ r.class = "AllPrimaries" /\ route = [multi |-> "AllMasters"]
         \/ r.class = "RandomNode" /\ route = [single |-> "Random"]
         \/ /\ r.class \in {"SlotKeyRoute", "SlotIdRoute"}
            /\ route.addr = "Master" <=> r.slot_type = "PRIMARY"
            /\ ~Multi(route) /\ ToSlot(route)
            /\ r.class = "SlotKeyRoute" => route.slot = [of |-> r.slot_key]
            /\ r.class = "SlotIdRoute" /\ IsU16(r.slot_id) => route.slot = r.slot_id
<1>0. SetProtobufRoute(r) # None
  BY SMTT(30) DEF IsRoute
<1>1. CASE r.class = "AllNodes"
  <2>1. SetProtobufRoute(r) = [simple |-> "AllNodes"]
    BY <1>1, SMTT(30) DEF SetProtobufRoute
  <2> QED BY SMTT(30), <1>0, <1>1, <2>1, GetSimpleRoute
<1>2. CASE r.class = "AllPrimaries"
  <2>1. SetProtobufRoute(r) = [simple |-> "AllPrimaries"]
    BY <1>2, SMTT(30) DEF SetProtobufRoute
  <2> QED BY SMTT(30), <1>0, <1>2, <2>1, GetSimpleRoute
<1>3. CASE r.class = "RandomNode"
  <2>1. SetProtobufRoute(r) = [simple |-> "Random"]
    BY <1>3, SMTT(30) DEF SetProtobufRoute
  <2> QED BY SMTT(30), <1>0, <1>3, <2>1, GetSimpleRoute
<1>4. CASE r.class = "SlotKeyRoute"
  <2>1. SetProtobufRoute(r) = [slot_type |-> ProtobufSlotType(r.slot_type), slot_key |-> r.slot_key]
    BY <1>4, SMTT(30) DEF SetProtobufRoute
  <2>2. route = [slot |-> [of |-> r.slot_key], addr |-> GetSlotAddr(ProtobufSlotType(r.slot_type))]
    BY SMTT(30), <1>0, <2>1, GetKeyRoute
  <2>3. ~Multi(route) /\ ToSlot(route)
    BY <2>2 DEF Multi, ToSlot
  <2> QED BY SMTT(30), <1>4, <2>2, <2>3, SlotAddr
<1>5. CASE r.class = "SlotIdRoute"
  <2>1. SetProtobufRoute(r) = [slot_type |-> ProtobufSlotType(r.slot_type), slot_id |-> r.slot_id]
    BY <1>5, SMTT(30) DEF SetProtobufRoute
  <2>2. route = [slot |-> r.slot_id % 65536, addr |-> GetSlotAddr(ProtobufSlotType(r.slot_type))]
    BY SMTT(30), <1>0, <2>1, GetIdRoute
  <2>3. IsU16(r.slot_id) => r.slot_id % 65536 = r.slot_id
    BY <1>5, SMTT(30) DEF IsU16, IsRoute
  <2>4. ~Multi(route) /\ ToSlot(route)
    BY <2>2 DEF Multi, ToSlot
  <2> QED BY SMTT(30), <1>5, <2>2, <2>3, <2>4, SlotAddr
<1>6. r.class \in {"AllNodes", "AllPrimaries", "RandomNode", "SlotKeyRoute", "SlotIdRoute"}
  BY SMTT(30) DEF IsRoute
<1> QED BY <1>1, <1>2, <1>3, <1>4, <1>5, <1>6, ZenonT(60)

-----------------------------------------------------------------------------
(* The configuration *)

(* What a request carries of a configuration, whatever its class. *)
Carries(r, config, cluster) ==
  /\ r.cluster_mode_enabled = cluster
  /\ r.addresses = config.addresses
  /\ r.tls_mode = IF config.use_tls THEN "SecureTls" ELSE "NoTls"
  /\ r.read_from = [PRIMARY |-> "Primary", PREFER_REPLICA |-> "PreferReplica"][config.read_from]
  /\ r.request_timeout = IF config.request_timeout = None THEN 0 ELSE config.request_timeout
  /\ r.protocol = config.protocol
  /\ r.client_name = IF config.client_name = None THEN "" ELSE config.client_name
  /\ r.authentication_info =
       IF config.credentials = None THEN None
       ELSE [username |-> IF config.credentials.username = None
                            THEN "" ELSE config.credentials.username,
             password |-> config.credentials.password]

RequestFields ==
  {"addresses", "tls_mode", "read_from", "request_timeout", "cluster_mode_enabled",
   "authentication_info", "client_name", "protocol", "connection_retry_strategy", "database_id"}

(* The base class's request. *)
LEMMA BaseFields ==
  ASSUME NEW config, NEW cluster
  PROVE  /\ BaseConnRequest(config, cluster)
              = [f \in RequestFields |-> BaseConnRequest(config, cluster)[f]]
         /\ Carries(BaseConnRequest(config, cluster), config, cluster)
<1>1. DOMAIN BaseConnRequest(config, cluster) = RequestFields
  BY ZenonT(30) DEF BaseConnRequest, RequestFields
<1>2. BaseConnRequest(config, cluster)
        = [f \in DOMAIN BaseConnRequest(config, cluster) |-> BaseConnRequest(config, cluster)[f]]
  BY ZenonT(30) DEF BaseConnRequest
<1>3. Carries(BaseConnRequest(config, cluster), config, cluster)
  BY ZenonT(30) DEF BaseConnRequest, AuthenticationInfo, Carries
<1> QED BY <1>1, <1>2, <1>3, ZenonT(60)

(* What RedisClientConfiguration adds leaves the other fields alone. *)
LEMMA WithTwoFields ==
  ASSUME NEW b, b = [f \in RequestFields |-> b[f]], NEW strategy, NEW database,
         NEW config, NEW cluster, Carries(b, config, cluster)
  PROVE  LET r == [b EXCEPT !.connection_retry_strategy = strategy, !.database_id = database]
         IN  /\ r.connection_retry_strategy = strategy /\ r.database_id = database
             /\ Carries(r, config, cluster)
<1> DEFINE r == [b EXCEPT !.connection_retry_strategy = strategy, !.database_id = database]
<1>1. /\ r.connection_retry_strategy = strategy /\ r.database_id = database
      /\ r.cluster_mode_enabled = b.cluster_mode_enabled /\ r.addresses = b.addresses
      /\ r.tls_mode = b.tls_mode /\ r.read_from = b.read_from
      /\ r.request_timeout = b.request_timeout /\ r.protocol = b.protocol
      /\ r.client_name = b.client_name /\ r.authentication_info = b.authentication_info
  BY DEF RequestFields
<1> HIDE DEF r
<1>2. Carries(r, config, cluster)
  BY <1>1, Zenon DEF Carries
<1> QED BY <1>1, <1>2, Zenon DEF r

(* The retry strategy that a configuration asks for. *)
Strategy(config) ==
  IF config.reconnect_strategy = None THEN None
  ELSE [number_of_retries |-> config.reconnect_strategy.num_of_retries,
        factor            |-> config.reconnect_strategy.factor,
        exponent_base     |-> config.reconnect_strategy.exponent_base]

(* The request of a client's create. *)
LEMMA ConnRequestFields ==
  ASSUME NEW config, NEW cluster \in BOOLEAN, ~ConnRequestRaises(config, cluster),
         config.class \in {"Redis", "Cluster"}
  PROVE  /\ Carries(ConnRequest(config, cluster), config, cluster)
         /\ config.class = "Redis" =>
              /\ ConnRequest(config, cluster).connection_retry_strategy = Strategy(config)
              /\ ConnRequest(config, cluster).database_id
                   = IF config.database_id = None THEN 0 ELSE config.database_id
              /\ cluster = FALSE
<1>1. CASE config.class = "Cluster"
  <2>1. ConnRequest(config, cluster) = BaseConnRequest(config, cluster) /\ config.class # "Redis"
    BY <1>1, Zenon DEF ConnRequest
  <2> QED BY <2>1, BaseFields, Zenon
<1>2. CASE config.class = "Redis"
  <2> DEFINE b == BaseConnRequest(config, FALSE)
             d == IF config.database_id = None THEN 0 ELSE config.database_id
             s == Strategy(config)
  <2>1. cluster = FALSE
    BY SMTT(30), <1>2 DEF ConnRequestRaises
  <2>2. ConnRequest(config, cluster)
          = [b EXCEPT !.connection_retry_strategy = s, !.database_id = d]
    BY <1>2, ZenonT(30) DEF ConnRequest, ConnectionRetryStrategy, Strategy
  <2>3. b = [f \in RequestFields |-> b[f]] /\ Carries(b, config, FALSE)
    BY BaseFields, Zenon
  <2> HIDE DEF b, d, s
  <2>4. /\ ConnRequest(config, cluster).connection_retry_strategy = s
        /\ ConnRequest(config, cluster).database_id = d
        /\ Carries(ConnRequest(config, cluster), config, FALSE)
    <3> DEFINE r == [b EXCEPT !.connection_retry_strategy = s, !.database_id = d]
    <3>1. /\ r.connection_retry_strategy = s /\ r.database_id = d
          /\ Carries(r, config, FALSE)
      BY <2>3, WithTwoFields, Zenon
    <3>2. ConnRequest(config, cluster) = r
      BY SMTT(30), <2>2
    <3> HIDE DEF r
    <3> QED BY <3>1, <3>2, Zenon
  <2> QED BY <2>1, <2>4, Zenon DEF d, s
<1> QED BY <1>1, <1>2, Zenon

(* The core's reading of a request, field by field. *)
LEMMA ClientFields ==
  ASSUME NEW q
  PROVE  /\ CoreClient(q).cluster = q.cluster_mode_enabled
         /\ CoreClient(q).nodes = [i \in DOMAIN q.addresses |-> ConnectionInfo(q.addresses[i], q)]
         /\ CoreClient(q).replica_reads = (q.read_from # "Primary")
         /\ CoreClient(q).request_timeout = ToDuration(q.request_timeout, DefaultResponseTimeout)
         /\ CoreClient(q).info = RedisConnectionInfo(q)
         /\ CoreClient(q).retries = IF q.cluster_mode_enabled THEN None
                                    ELSE RetryStrategy(q.connection_retry_strategy)
BY ZenonT(30) DEF CoreClient

LEMMA InfoFields ==
  ASSUME NEW q
  PROVE  /\ RedisConnectionInfo(q).db = q.database_id
         /\ RedisConnectionInfo(q).protocol = q.protocol
         /\ RedisConnectionInfo(q).client_name = CharsToStringOption(q.client_name)
         /\ RedisConnectionInfo(q).username =
              IF q.authentication_info = None THEN None
              ELSE CharsToStringOption(q.authentication_info.username)
         /\ RedisConnectionInfo(q).password =
              IF q.authentication_info = None THEN None
              ELSE CharsToStringOption(q.authentication_info.password)
BY ZenonT(30) DEF RedisConnectionInfo

LEMMA NodeFields ==
  ASSUME NEW a, NEW q
  PROVE  /\ ConnectionInfo(a, q).host = a.host
         /\ ConnectionInfo(a, q).port = GetPort(a)
         /\ ConnectionInfo(a, q).tls = (q.tls_mode # "NoTls")
         /\ ConnectionInfo(a, q).insecure = (q.tls_mode = "InsecureTls")
BY ZenonT(30) DEF ConnectionInfo

(* A port of 16 bits is read back, and 0 as the default. *)
LEMMA PortReadBack ==
  ASSUME NEW a, a.port \in Nat
  PROVE  (a.port = 0 => GetPort(a) = DefaultPort) /\ (a.port # 0 /\ IsU16(a.port) => GetPort(a) = a.port)
BY SMTT(30) DEF GetPort, IsU16

(* A string is read back, an empty one as None. *)
LEMMA StringReadBack ==
  ASSUME NEW x
  PROVE  CharsToStringOption(IF x = None THEN "" ELSE x) = IF x = "" THEN None ELSE x
BY RequestsAssumption, ZenonT(60) DEF CharsToStringOption

(* The core's client is the one the configuration describes, for every
   configuration: what the user sets survives both kinds of defaults. *)
THEOREM ConfiguredAsAskedHolds == Spec => []ConfiguredAsAsked
<1>1. RequestsInv => ConfiguredAsAsked
  <2> SUFFICES ASSUME RequestsInv, Connected PROVE ConfiguredAsAsked
    BY DEF ConfiguredAsAsked
  <2> DEFINE config == session.config
             q == ConnRequest(config, IsCluster)
             Given(x) == IF x = "" THEN None ELSE x
             Set(x) == x # None /\ x # 0
  <2>0. IsConfig(config) /\ IsCluster \in BOOLEAN
    BY SMTT(30), SessionFacts DEF RequestsInv, ListInv, IsCluster
  <2>1. link = CoreClient(q) /\ ~ConnRequestRaises(config, IsCluster)
    BY Zenon DEF RequestsInv, LinkInv, Connected
  <2>2. /\ config.class \in {"Redis", "Cluster"} /\ config.use_tls \in BOOLEAN
        /\ config.read_from \in {"PRIMARY", "PREFER_REPLICA"}
        /\ config.request_timeout \in Nat \union {None}
        /\ config.addresses \in Seq({config.addresses[i] : i \in DOMAIN config.addresses})
        /\ \A i \in DOMAIN config.addresses : config.addresses[i].port \in Nat
    BY <2>0, ZenonT(30) DEF IsConfig
  <2>3. /\ Carries(q, config, IsCluster)
        /\ config.class = "Redis" =>
             /\ q.connection_retry_strategy = Strategy(config)
             /\ q.database_id = IF config.database_id = None THEN 0 ELSE config.database_id
             /\ IsCluster = FALSE
    <3> HIDE DEF config
    <3> QED BY <2>0, <2>1, <2>2, ConnRequestFields, ZenonT(60)
  <2> HIDE DEF q, config
  <2>4. link.cluster <=> IsCluster
    BY <2>1, <2>3, ClientFields, ZenonT(60) DEF Carries
  <2>5. /\ Len(link.nodes) = Len(config.addresses) /\ DOMAIN link.nodes = DOMAIN config.addresses
        /\ \A i \in DOMAIN link.nodes : link.nodes[i] = ConnectionInfo(config.addresses[i], q)
    <3>1. link.nodes = [i \in DOMAIN config.addresses |-> ConnectionInfo(config.addresses[i], q)]
      BY <2>1, <2>3, ClientFields, ZenonT(60) DEF Carries
    <3> QED BY SMTT(30), <2>2, <3>1
  <2>6. ASSUME NEW i \in DOMAIN link.nodes
        PROVE  /\ link.nodes[i].host = config.addresses[i].host
               /\ config.addresses[i].port # 0 /\ IsU16(config.addresses[i].port) => link.nodes[i].port = config.addresses[i].port
               /\ config.addresses[i].port = 0 => link.nodes[i].port = DefaultPort
               /\ link.nodes[i].tls = config.use_tls /\ ~link.nodes[i].insecure
    <3> DEFINE a == config.addresses[i]
    <3>0. link.nodes[i] = ConnectionInfo(a, q) /\ a.port \in Nat
      BY <2>2, <2>5, <2>6, ZenonT(60)
    <3> HIDE DEF a
    <3> DEFINE n == link.nodes[i]
    <3>1. n = ConnectionInfo(a, q)
      BY SMTT(30), <3>0
    <3> HIDE DEF n
    <3>2. /\ n.host = a.host /\ n.port = GetPort(a)
          /\ n.tls = (q.tls_mode # "NoTls") /\ n.insecure = (q.tls_mode = "InsecureTls")
      BY SMTT(30), <3>1 DEF ConnectionInfo
    <3>3. (a.port = 0 => GetPort(a) = DefaultPort) /\ (a.port # 0 /\ IsU16(a.port) => GetPort(a) = a.port)
      BY <3>0, PortReadBack, Zenon
    <3>4. q.tls_mode = IF config.use_tls THEN "SecureTls" ELSE "NoTls"
      BY <2>3, Zenon DEF Carries
    <3>5. n.tls = config.use_tls /\ ~n.insecure
      BY <2>2, <3>2, <3>4, ZenonT(60)
    <3> QED BY <3>2, <3>3, <3>5, ZenonT(60) DEF a, n
  <2>7. link.replica_reads <=> config.read_from = "PREFER_REPLICA"
    <3>1. link.replica_reads = (q.read_from # "Primary")
      BY <2>1, ClientFields, Zenon
    <3>2. q.read_from = [PRIMARY |-> "Primary", PREFER_REPLICA |-> "PreferReplica"][config.read_from]
      BY <2>3, Zenon DEF Carries
    <3>3. q.read_from = IF config.read_from = "PRIMARY" THEN "Primary" ELSE "PreferReplica"
      BY SMTT(30), <2>2, <3>2
    <3> QED BY <2>2, <3>1, <3>3
  <2>8. link.request_timeout = IF Set(config.request_timeout) THEN config.request_timeout
                               ELSE DefaultResponseTimeout
    <3>1. link.request_timeout = ToDuration(q.request_timeout, DefaultResponseTimeout)
      BY <2>1, ClientFields, Zenon
    <3>2. q.request_timeout = IF config.request_timeout = None THEN 0 ELSE config.request_timeout
      BY <2>3, Zenon DEF Carries
    <3> QED BY SMTT(30), <2>2, <3>1, <3>2 DEF ToDuration
  <2>9. link.info = RedisConnectionInfo(q)
    BY <2>1, ClientFields, ZenonT(60)
  <2>10. /\ link.info.protocol = config.protocol
         /\ link.info.client_name = Given(config.client_name)
    <3>1. q.protocol = config.protocol
          /\ q.client_name = IF config.client_name = None THEN "" ELSE config.client_name
      BY <2>3, Zenon DEF Carries
    <3>2. link.info.protocol = q.protocol /\ link.info.client_name = CharsToStringOption(q.client_name)
      BY <2>9, InfoFields, ZenonT(60)
    <3> QED BY <3>1, <3>2, StringReadBack, ZenonT(60)
  <2>11. IF config.credentials = None
           THEN link.info.username = None /\ link.info.password = None
           ELSE /\ link.info.username = Given(config.credentials.username)
                /\ link.info.password = Given(config.credentials.password)
    <3>1. CASE config.credentials = None
      BY <2>3, <2>9, <3>1, InfoFields, ZenonT(60) DEF Carries
    <3>2. CASE config.credentials # None
      <4> DEFINE u == IF config.credentials.username = None THEN "" ELSE config.credentials.username
      <4>1. q.authentication_info = [username |-> u, password |-> config.credentials.password]
        BY <2>3, <3>2, Zenon DEF Carries
      <4>2. q.authentication_info # None
        <5>1. AuthenticationInfo(config.credentials) # None
          BY <2>0, <3>2, Zenon DEF IsConfig
        <5> QED BY <4>1, <5>1, ZenonT(60) DEF AuthenticationInfo
      <4>3. q.authentication_info.username = u /\ q.authentication_info.password = config.credentials.password
        <5> HIDE DEF u
        <5> QED BY SMTT(30), <4>1
      <4>4. link.info.password = CharsToStringOption(config.credentials.password)
        BY <2>9, <4>2, <4>3, InfoFields, ZenonT(60)
      <4>5. link.info.username = CharsToStringOption(u)
        BY <2>9, <4>2, <4>3, InfoFields, ZenonT(60)
      <4> QED BY <3>2, <4>4, <4>5, StringReadBack, ZenonT(60) DEF CharsToStringOption
    <3> QED BY <3>1, <3>2
  <2>12. ASSUME config.class = "Redis"
         PROVE  link.info.db = IF config.database_id = None THEN 0 ELSE config.database_id
    BY <2>3, <2>9, <2>12, InfoFields, ZenonT(60)
  <2>13. ASSUME config.class = "Redis", config.reconnect_strategy # None
         PROVE  /\ link.retries.number_of_retries = config.reconnect_strategy.num_of_retries
                /\ Set(config.reconnect_strategy.factor) =>
                     link.retries.factor = config.reconnect_strategy.factor
                /\ Set(config.reconnect_strategy.exponent_base) =>
                     link.retries.exponent_base = config.reconnect_strategy.exponent_base
    <3> DEFINE s == [number_of_retries |-> config.reconnect_strategy.num_of_retries,
                     factor            |-> config.reconnect_strategy.factor,
                     exponent_base     |-> config.reconnect_strategy.exponent_base]
    <3>1. Strategy(config) = s
      BY <2>13, Zenon DEF Strategy
    <3>2. s # None /\ config.reconnect_strategy.factor \in Nat /\ config.reconnect_strategy.exponent_base \in Nat
      <4>1. ConnectionRetryStrategy(config.reconnect_strategy) # None
            /\ config.reconnect_strategy.factor \in Nat /\ config.reconnect_strategy.exponent_base \in Nat
        BY <2>0, <2>13, Zenon DEF IsConfig
      <4> QED BY <4>1, ZenonT(60) DEF ConnectionRetryStrategy
    <3>3. link.retries = RetryStrategy(s)
      <4>1. link.retries = IF q.cluster_mode_enabled THEN None ELSE RetryStrategy(q.connection_retry_strategy)
        BY <2>1, ClientFields, ZenonT(60)
      <4>2. q.cluster_mode_enabled = FALSE /\ q.connection_retry_strategy = s
        BY <2>3, <2>13, <3>1, ZenonT(60) DEF Carries
      <4> QED BY <4>1, <4>2, Zenon
    <3>4. /\ s.number_of_retries = config.reconnect_strategy.num_of_retries
          /\ s.factor = config.reconnect_strategy.factor
          /\ s.exponent_base = config.reconnect_strategy.exponent_base
      OBVIOUS
    <3> HIDE DEF s
    <3> QED BY SMTT(30), <3>2, <3>3, <3>4 DEF RetryStrategy
  <2> QED BY <2>4, <2>5, <2>6, <2>7, <2>8, <2>10, <2>11, <2>12, <2>13, ZenonT(60)
        DEF ConfiguredAsAsked, config
<1> QED BY <1>1, RequestsInvInit, RequestsInvStep, PTL DEF Spec

-----------------------------------------------------------------------------
(* Where requests go *)

(* The mode of the core's client is that of the class that created it. *)
LEMMA ModeOfClass ==
  ASSUME RequestsInv, Connected
  PROVE  link.cluster <=> IsCluster
<1> DEFINE config == session.config
           q == ConnRequest(config, IsCluster)
<1>1. IsConfig(config) /\ IsCluster \in BOOLEAN
  BY SMTT(30), SessionFacts DEF RequestsInv, ListInv, IsCluster
<1>2. link = CoreClient(q) /\ ~ConnRequestRaises(config, IsCluster)
  BY Zenon DEF RequestsInv, LinkInv, Connected
<1>3. config.class \in {"Redis", "Cluster"}
  BY <1>1, Zenon DEF IsConfig
<1> HIDE DEF config
<1>4. q.cluster_mode_enabled = IsCluster
  BY <1>1, <1>2, <1>3, ConnRequestFields, ZenonT(60) DEF Carries
<1> HIDE DEF q
<1> QED BY <1>2, <1>4, ClientFields, ZenonT(60)

(* A request of a cluster client goes where its route says, whatever the routes;
   of a transaction, the routes to one node are kept, and without one of those
   it goes to a random node. *)
THEOREM RoutedAsAskedHolds == Spec => []RoutedAsAsked
<1>1. RequestsInv => RoutedAsAsked
  <2> SUFFICES ASSUME RequestsInv, served # None PROVE RoutedAsAsked
    BY DEF RoutedAsAsked
  <2> DEFINE asked == served.asked
             route == served.route
             routing == GetRoute(SetProtobufRoute(asked))
  <2>1. /\ session \in Sessions /\ asked \in session.routes /\ served.direct \in BOOLEAN
        /\ route = IF served.direct THEN CommandRouting(routing, link.cluster)
                   ELSE TransactionRouting(routing, link.cluster)
    BY Zenon DEF RequestsInv, ListInv, ServedInv, Routing
  <2>2. IsRoute(asked)
    BY <2>1, SessionFacts, Zenon
  <2>3. link.cluster <=> IsCluster
    BY ModeOfClass, Zenon DEF RequestsInv, ConnectedInv
  <2>4. CASE ~IsCluster
    <3>1. route = Chosen("StandaloneClient")
      BY <2>1, <2>3, <2>4, Zenon DEF CommandRouting, TransactionRouting
    <3> QED BY <2>4, <3>1, Zenon DEF RoutedAsAsked
  <2>5. CASE IsCluster /\ asked = None
    <3>1. SetProtobufRoute(None) = None
      BY SMTT(30) DEF SetProtobufRoute
    <3>2. GetRoute(None) = None
      BY SMTT(30) DEF GetRoute
    <3>3. routing = None
      BY <2>5, <3>1, <3>2, Zenon
    <3> HIDE DEF routing
    <3>4. route = IF served.direct THEN Chosen("Command") ELSE [single |-> "Random"]
      BY <2>1, <2>3, <2>5, <3>3, Zenon DEF CommandRouting, TransactionRouting
    <3> QED BY <2>5, <3>4, Zenon DEF RoutedAsAsked
  <2>6. CASE IsCluster /\ asked # None
    <3>1. routing # None
      BY <2>2, <2>6, Zenon DEF IsRoute
    <3>2. \/ asked.class = "AllNodes" /\ routing = [multi |-> "AllNodes"]
          \/ asked.class = "AllPrimaries" /\ routing = [multi |-> "AllMasters"]
          \/ asked.class = "RandomNode" /\ routing = [single |-> "Random"]
          \/ /\ asked.class \in {"SlotKeyRoute", "SlotIdRoute"}
             /\ routing.addr = "Master" <=> asked.slot_type = "PRIMARY"
             /\ ~Multi(routing) /\ ToSlot(routing)
             /\ asked.class = "SlotKeyRoute" => routing.slot = [of |-> asked.slot_key]
             /\ asked.class = "SlotIdRoute" /\ IsU16(asked.slot_id) => routing.slot = asked.slot_id
      BY <2>2, <2>6, RouteReadBack, Zenon
    <3> HIDE DEF asked, routing, route
    <3>3. route = IF served.direct \/ ~Multi(routing) THEN routing ELSE [single |-> "Random"]
      BY <2>1, <2>3, <2>6, <3>1, Zenon DEF CommandRouting, TransactionRouting
    <3>4. /\ Multi([multi |-> "AllNodes"]) /\ Multi([multi |-> "AllMasters"])
          /\ ~Multi([single |-> "Random"])
      BY DEF Multi
    <3>5. CASE asked.class \in {"AllNodes", "AllPrimaries"} /\ ~served.direct
      <4>1. route = [single |-> "Random"]
        BY <3>2, <3>3, <3>4, <3>5, Zenon
      <4> QED BY <2>6, <3>5, <4>1, Zenon DEF RoutedAsAsked, asked, route
    <3>6. CASE asked.class \notin {"AllNodes", "AllPrimaries"} \/ served.direct
      <4>1. route = routing
        BY <3>2, <3>3, <3>4, <3>6, Zenon
      <4>2. CASE asked.class = "AllNodes"
        <5>1. served.direct /\ route = [multi |-> "AllNodes"]
          BY <3>2, <3>6, <4>1, <4>2, Zenon
        <5> QED BY <2>6, <4>2, <5>1, Zenon DEF RoutedAsAsked, asked, route
      <4>3. CASE asked.class = "AllPrimaries"
        <5>1. served.direct /\ route = [multi |-> "AllMasters"]
          BY <3>2, <3>6, <4>1, <4>3, Zenon
        <5> QED BY <2>6, <4>3, <5>1, Zenon DEF RoutedAsAsked, asked, route
      <4>4. CASE asked.class = "RandomNode"
        <5>1. route = [single |-> "Random"]
          BY <3>2, <4>1, <4>4, Zenon
        <5> QED BY <2>6, <4>4, <5>1, Zenon DEF RoutedAsAsked, asked, route
      <4>5. CASE asked.class = "SlotKeyRoute"
        <5>1. /\ ToSlot(route) /\ (route.addr = "Master" <=> asked.slot_type = "PRIMARY")
              /\ route.slot = [of |-> asked.slot_key]
          BY <3>2, <4>1, <4>5, Zenon
        <5> QED BY <2>6, <4>5, <5>1, Zenon DEF RoutedAsAsked, asked, route
      <4>6. CASE asked.class = "SlotIdRoute"
        <5>1. /\ ToSlot(route) /\ (route.addr = "Master" <=> asked.slot_type = "PRIMARY")
              /\ IsU16(asked.slot_id) => route.slot = asked.slot_id
          BY <3>2, <4>1, <4>6, Zenon
        <5> QED BY <2>6, <4>6, <5>1, Zenon DEF RoutedAsAsked, asked, route
      <4> QED BY <3>2, <4>2, <4>3, <4>4, <4>5, <4>6, Zenon
    <3> QED BY <3>5, <3>6
  <2> QED BY <2>4, <2>5, <2>6
<1> QED BY <1>1, RequestsInvInit, RequestsInvStep, PTL DEF Spec

-----------------------------------------------------------------------------
(* Every command of a transaction, on its way to the core *)

(* The list was passed when it held what it holds now, or before it changed. *)
Earlier(l, now) == l \in Range(Lists) /\ (now = Lists[1] => l = Lists[1])

(* A command in the transaction or in the copy of it, ... *)
Entry(e, now) ==
  /\ IsCall(e.call) /\ Earlier(e.list, now)
  /\ Undocumented(e.call, FALSE) \/ Fits(e.call, e, e.list)

(* ... and one that is in a message or was sent. *)
Sent(e, sent, direct, now) ==
  /\ Earlier(e.list, now)
  /\ Undocumented(e.call, direct) \/ AsDocumented(e.call, sent, e.list, now)

Underway(x, now) ==
  /\ \A i \in DOMAIN x.copy : Entry(x.copy[i], now)
  /\ \A i \in DOMAIN x.built : Sent(x.built[i], GetRedisCommand(x.built[i]), FALSE, now)

Report(x, now) ==
  /\ Len(x.sent) = Len(x.entries)
  /\ \A i \in DOMAIN x.entries : Sent(x.entries[i], x.sent[i], x.direct, now)

EntriesInv == \A i \in DOMAIN commands : Entry(commands[i], list)

UnderwayInv == \A t \in Threads : exec[t] # None => Underway(exec[t], list)

ReportInv == served # None => Report(served, list)

SentInv == EntriesInv /\ UnderwayInv /\ ReportInv

(* The caller's list has one of two contents, and is a sequence. *)
LEMMA ListContents ==
  ASSUME NEW l \in Range(Lists)
  PROVE  (l = Lists[1] \/ l = Lists[2]) /\ IsSeq(l)
<1>1. Lists \in Seq(Range(Lists)) /\ Len(Lists) = 2
  BY RequestsAssumption, Zenon
<1>2. DOMAIN Lists = 1..2
  <2> DEFINE X == Range(Lists)
  <2>1. Lists \in Seq(X) /\ Len(Lists) = 2
    BY <1>1
  <2> HIDE DEF X
  <2> QED BY <2>1
<1>3. PICK i \in DOMAIN Lists : l = Lists[i]
  BY Zenon DEF Range
<1>4. i = 1 \/ i = 2
  BY SMTT(30), <1>2
<1>5. l \in Seq(Range(l))
  BY RequestsAssumption, Zenon
<1> QED BY <1>3, <1>4, <1>5, Zenon DEF IsSeq, Range

(* When the list changes, what was passed before is still accounted for. *)
LEMMA ListMoves ==
  ASSUME NEW now \in Range(Lists), now # Lists[2]
  PROVE  /\ \A e : Entry(e, now) => Entry(e, Lists[2])
         /\ \A e, sent, direct : Sent(e, sent, direct, now) => Sent(e, sent, direct, Lists[2])
<1>1. now = Lists[1] /\ Lists[1] # Lists[2]
  BY ListContents, Zenon
<1>2. \A l : Earlier(l, now) => Earlier(l, Lists[2]) /\ l = now
  BY <1>1, Zenon DEF Earlier
<1>3. \A c, sent : AsDocumented(c, sent, now, now) => AsDocumented(c, sent, now, Lists[2])
  BY Zenon DEF AsDocumented
<1>4. \A e : Entry(e, now) => Entry(e, Lists[2])
  BY <1>2, Zenon DEF Entry
<1>5. ASSUME NEW e, NEW sent, NEW direct, Sent(e, sent, direct, now)
      PROVE  Sent(e, sent, direct, Lists[2])
  <2>1. e.list = now /\ Earlier(e.list, Lists[2])
    BY <1>2, <1>5, Zenon DEF Sent
  <2> QED BY <1>3, <1>5, <2>1, Zenon DEF Sent
<1> QED BY <1>4, <1>5, Zenon

LEMMA CallFacts ==
  ASSUME session \in Sessions, NEW c \in session.calls
  PROVE  IsCall(c)
BY RequestsAssumption, Zenon

(* What is passed now was passed when the list held what it holds now. *)
LEMMA EarlierNow ==
  ASSUME NEW now \in Range(Lists)
  PROVE  Earlier(now, now)
BY Zenon DEF Earlier

(* A method appends a command that fits its call, ... *)
LEMMA AppendsEntry ==
  ASSUME NEW c, IsCall(c), TransactionHas(c), ~ArgumentsRaise(c), NEW now \in Range(Lists), NEW e,
         e.call = c, e.list = now, e.type = TransactionCommand(c, now).type,
         e.args = TransactionCommand(c, now).args, e.shared = TransactionCommand(c, now).shared
  PROVE  Entry(e, now)
<1>1. CASE Undocumented(c, FALSE)
  BY <1>1, EarlierNow, Zenon DEF Entry
<1>2. CASE ~Undocumented(c, FALSE)
  <2>1. c.method \notin {"lpop_count", "rpop_count"}
    BY Zenon DEF TransactionHas
  <2>2. Fits(c, TransactionCommand(c, now), now)
    BY <1>2, <2>1, TransactionFits, Zenon
  <2>3. Fits(c, e, now)
    BY <2>2, Zenon DEF Fits
  <2> QED BY <2>3, EarlierNow, Zenon DEF Entry
<1> QED BY <1>1, <1>2

(* ... from which execute_transaction makes a documented one ... *)
LEMMA BuildsSent ==
  ASSUME NEW now \in Range(Lists), NEW n, Entry(n, now), NEW b,
         b = [call |-> n.call, list |-> n.list, type |-> n.type, args |-> ArgsOf(n, now)]
  PROVE  Sent(b, GetRedisCommand(b), FALSE, now)
<1>1. b.call = n.call /\ b.list = n.list /\ b.type = n.type /\ b.args = ArgsOf(n, now)
  OBVIOUS
<1>2. GetRedisCommand(b) = GetRedisCommand([type |-> n.type, args |-> ArgsOf(n, now)])
  BY <1>1 DEF GetRedisCommand
<1>3. IsSeq(now)
  BY ListContents, Zenon
<1>4. CASE Undocumented(n.call, FALSE)
  BY <1>1, <1>4, Zenon DEF Sent, Entry
<1>5. CASE ~Undocumented(n.call, FALSE)
  <2>1. IsCall(n.call) /\ Fits(n.call, n, n.list)
    BY <1>5, Zenon DEF Entry
  <2>2. AsDocumented(n.call, GetRedisCommand(b), n.list, now)
    BY <1>2, <1>3, <2>1, FittingIsSent, Zenon
  <2> QED BY <1>1, <2>2, Zenon DEF Sent, Entry
<1> QED BY <1>4, <1>5

(* ... as a client does of a single command. *)
LEMMA ExecutesSent ==
  ASSUME NEW c, IsCall(c), ClientHas(c), LpopFits(c), ~ArgumentsRaise(c), list \in Range(Lists)
  PROVE  LET request == ClientRequest(c)
         IN  Sent([call |-> c, list |-> list],
                  GetRedisCommand([type |-> request.type, args |-> ArgsOf(request, list)]), TRUE, list)
<1> DEFINE request == ClientRequest(c)
           sent == GetRedisCommand([type |-> request.type, args |-> ArgsOf(request, list)])
           e == [call |-> c, list |-> list]
<1>1. e.call = c /\ e.list = list
  OBVIOUS
<1>2. CASE Undocumented(c, TRUE)
  BY <1>1, <1>2, EarlierNow, Zenon DEF Sent
<1>3. CASE ~Undocumented(c, TRUE)
  <2>1. c.method = "lpop" => c.count = None
    BY Zenon DEF LpopFits
  <2>2. Fits(c, request, list)
    <3>1. CASE IsCluster
      <4>1. c.method # "select"
        BY <3>1, Zenon DEF ClientHas
      <4>2. Fits(c, ClusterCommand(c, list), list)
        BY <1>3, <2>1, <4>1, ClusterFits, Zenon
      <4> QED BY <3>1, <4>2, Zenon DEF ClientRequest
    <3>2. CASE ~IsCluster
      <4>1. Fits(c, StandaloneCommand(c, list), list)
        BY <1>3, <2>1, StandaloneFits, Zenon
      <4> QED BY <3>2, <4>1, Zenon DEF ClientRequest
    <3> QED BY <3>1, <3>2
  <2>3. IsSeq(list)
    BY ListContents, Zenon
  <2> HIDE DEF request
  <2>4. AsDocumented(c, sent, list, list)
    BY <2>2, <2>3, FittingIsSent, Zenon
  <2> HIDE DEF sent, e
  <2>5. Sent(e, sent, TRUE, list)
    BY <1>1, <2>4, EarlierNow, Zenon DEF Sent
  <2> QED BY <2>5 DEF request, sent, e
<1> QED BY <1>2, <1>3

(* The steps. *)
LEMMA SentInvInit == Init => SentInv
<1> SUFFICES ASSUME Init PROVE SentInv
  OBVIOUS
<1>1. commands = <<>> /\ served = None /\ \A t \in Threads : exec[t] = None
  BY DEF Init
<1>2. DOMAIN commands = {}
  BY SMTT(30), <1>1
<1> QED BY <1>1, <1>2, Zenon DEF SentInv, EntriesInv, UnderwayInv, ReportInv

LEMMA EntriesStep ==
  ASSUME ListInv, EntriesInv, [Next]_vars
  PROVE  EntriesInv'
<1>1. ASSUME NEW t, NEW c \in session.calls, AppendCommand(t, c) PROVE EntriesInv'
  <2> DEFINE e == [call |-> c, list |-> list, type |-> TransactionCommand(c, list).type,
                   args |-> TransactionCommand(c, list).args,
                   shared |-> TransactionCommand(c, list).shared]
  <2>1. commands' = Append(commands, e) /\ list' = list /\ TransactionHas(c) /\ ~ArgumentsRaise(c)
    BY SMTT(30), <1>1 DEF AppendCommand
  <2>2. /\ e.call = c /\ e.list = list /\ e.type = TransactionCommand(c, list).type
        /\ e.args = TransactionCommand(c, list).args /\ e.shared = TransactionCommand(c, list).shared
    OBVIOUS
  <2> HIDE DEF e
  <2>3. IsCall(c) /\ list \in Range(Lists) /\ IsSeq(commands)
    BY CallFacts, Zenon DEF ListInv
  <2>4. Entry(e, list)
    BY <2>1, <2>2, <2>3, AppendsEntry, Zenon
  <2>5. /\ DOMAIN commands = 1..Len(commands) /\ Len(commands) \in Nat
        /\ DOMAIN commands' = 1..(Len(commands) + 1)
        /\ (\A i \in 1..Len(commands) : commands'[i] = commands[i])
        /\ commands'[Len(commands) + 1] = e
    BY SMTT(30), <2>1, <2>3, AppendIsSeq
  <2>6. \A i \in DOMAIN commands' : i \in DOMAIN commands \/ i = Len(commands) + 1
    BY SMTT(30), <2>5
  <2> QED BY <2>1, <2>4, <2>5, <2>6, Zenon DEF EntriesInv
<1>2. ASSUME commands' = <<>> PROVE EntriesInv'
  BY SMTT(30), <1>2 DEF EntriesInv
<1>3. CASE ListChanges
  <2>1. list # Lists[2] /\ list' = Lists[2] /\ commands' = commands
    BY SMTT(30), <1>3 DEF ListChanges
  <2>2. list \in Range(Lists)
    BY Zenon DEF ListInv
  <2> QED BY <2>1, <2>2, ListMoves, Zenon DEF EntriesInv
<1>4. ASSUME UNCHANGED <<commands, list>> PROVE EntriesInv'
  BY <1>4, ZenonT(60) DEF EntriesInv
<1>5. ASSUME NEW t \in Threads, ThreadStep(t) PROVE EntriesInv'
  <2>1. ASSUME NEW c, NEW r, ExecuteCommand(c, r) PROVE EntriesInv'
    BY SMTT(30), <1>4, <2>1 DEF ExecuteCommand
  <2>2. ASSUME NEW r, Exec(t, r) PROVE EntriesInv'
    BY SMTT(30), <1>4, <2>2 DEF Exec
  <2>3. CASE BuildCommand(t) \/ SendTransaction(t)
    BY SMTT(30), <1>4, <2>3 DEF BuildCommand, SendTransaction
  <2>4. CASE Clear(t)
    BY SMTT(30), <1>2, <2>4 DEF Clear
  <2> QED BY SMTT(30), <1>1, <1>5, <2>1, <2>2, <2>3, <2>4 DEF ThreadStep
<1>6. CASE Create \/ CreateRaises \/ UNCHANGED vars
  BY SMTT(30), <1>4, <1>6 DEF Create, CreateRaises, vars
<1> QED BY SMTT(30), <1>3, <1>5, <1>6 DEF Next

LEMMA UnderwayStep ==
  ASSUME ListInv, ExecInv, EntriesInv, UnderwayInv, [Next]_vars
  PROVE  UnderwayInv'
<1>0. list \in Range(Lists)
  BY Zenon DEF ListInv
<1>1. ASSUME NEW now, exec' = Noticed(now), list' = list PROVE UnderwayInv'
  <2> SUFFICES ASSUME NEW t \in Threads, exec'[t] # None PROVE Underway(exec'[t], list)
    BY <1>1, Zenon DEF UnderwayInv
  <2>1. exec[t] # None /\ exec'[t] = [exec[t] EXCEPT !.seen = @ \union {CallsOf(now)}]
    BY SMTT(30), <1>1 DEF Noticed
  <2>2. Execution(exec[t]) /\ Underway(exec[t], list)
    BY SMTT(30), <2>1 DEF ExecInv, UnderwayInv
  <2>3. exec'[t].copy = exec[t].copy /\ exec'[t].built = exec[t].built
    BY SMTT(30), <2>1, <2>2 DEF Execution
  <2> QED BY <2>2, <2>3, Zenon DEF Underway
<1>2. ASSUME NEW t \in Threads, NEW e, exec' = [exec EXCEPT ![t] = e], list' = list,
             e # None => Underway(e, list)
      PROVE  UnderwayInv'
  <2>1. exec'[t] = e /\ \A u \in Threads : u # t => exec'[u] = exec[u]
    BY SMTT(30), <1>2 DEF ExecInv
  <2> QED BY <1>2, <2>1, Zenon DEF UnderwayInv
<1>3. ASSUME NEW t \in Threads, NEW r, Exec(t, r) PROVE UnderwayInv'
  <2> DEFINE e == [copy |-> commands, built |-> <<>>, route |-> r, seen |-> {CallsOf(commands)}]
  <2>1. exec' = [exec EXCEPT ![t] = e] /\ list' = list
    BY SMTT(30), <1>3 DEF Exec
  <2>2. e.copy = commands /\ e.built = <<>>
    OBVIOUS
  <2> HIDE DEF e
  <2>3. DOMAIN e.built = {}
    BY SMTT(30), <2>2
  <2>4. Underway(e, list)
    BY <2>2, <2>3, Zenon DEF Underway, EntriesInv
  <2> QED BY <1>2, <2>1, <2>4, Zenon
<1>4. ASSUME NEW t \in Threads, BuildCommand(t) PROVE UnderwayInv'
  <2> DEFINE o == exec[t]
             n == o.copy[Len(o.built) + 1]
             b == [call |-> n.call, list |-> n.list, type |-> n.type, args |-> ArgsOf(n, list)]
             e == [copy |-> o.copy, built |-> Append(o.built, b), route |-> o.route, seen |-> o.seen]
  <2>1. /\ o # None /\ Len(o.built) < Len(o.copy) /\ list' = list
        /\ exec' = [exec EXCEPT ![t].built = Append(@, b)]
    BY SMTT(30), <1>4 DEF BuildCommand, CommandsOf
  <2>2. Execution(o) /\ Underway(o, list)
    BY SMTT(30), <2>1 DEF ExecInv, UnderwayInv
  <2>3. exec' = [exec EXCEPT ![t] = e]
    <3>1. [o EXCEPT !.built = Append(@, b)] = e
      <4> HIDE DEF b
      <4> QED BY SMTT(30), <2>2 DEF Execution
    <3> HIDE DEF b, e
    <3> QED BY <2>1, <3>1
  <2>4. e.copy = o.copy /\ e.built = Append(o.built, b)
    OBVIOUS
  <2>5. Underway(e, list)
    <3> HIDE DEF o, e
    <3>1. /\ IsSeq(o.built) /\ Len(o.built) \in Nat /\ Len(o.copy) \in Nat
          /\ DOMAIN o.built = 1..Len(o.built) /\ DOMAIN o.copy = 1..Len(o.copy)
      BY SMTT(30), <2>2, AppendIsSeq DEF Execution
    <3>2. Len(o.built) + 1 \in DOMAIN o.copy
      BY SMTT(30), <2>1, <3>1
    <3>3. Entry(n, list)
      BY <2>2, <3>2, Zenon DEF Underway
    <3> HIDE DEF n
    <3>4. Sent(b, GetRedisCommand(b), FALSE, list)
      BY <1>0, <3>3, BuildsSent, Zenon
    <3> HIDE DEF b
    <3>5. /\ DOMAIN e.built = 1..(Len(o.built) + 1)
          /\ (\A i \in 1..Len(o.built) : e.built[i] = o.built[i])
          /\ e.built[Len(o.built) + 1] = b
      BY SMTT(30), <2>4, <3>1, AppendIsSeq
    <3>6. \A i \in DOMAIN e.built : i \in DOMAIN o.built \/ i = Len(o.built) + 1
      BY SMTT(30), <3>1, <3>5
    <3>7. \A i \in DOMAIN e.built : Sent(e.built[i], GetRedisCommand(e.built[i]), FALSE, list)
      BY <2>2, <3>1, <3>4, <3>5, <3>6, Zenon DEF Underway
    <3> QED BY <2>2, <2>4, <3>7, Zenon DEF Underway
  <2> HIDE DEF o, n, b, e
  <2> QED BY <1>2, <2>1, <2>3, <2>5, Zenon
<1>5. ASSUME NEW t \in Threads, SendTransaction(t) PROVE UnderwayInv'
  <2>1. exec' = [exec EXCEPT ![t] = None] /\ list' = list
    BY <1>5 DEF SendTransaction
  <2> QED BY <1>2, <2>1, Zenon
<1>6. CASE ListChanges
  <2>1. list # Lists[2] /\ list' = Lists[2] /\ exec' = exec
    BY <1>6 DEF ListChanges
  <2>2. \A x : Underway(x, list) => Underway(x, Lists[2])
    BY <1>0, <2>1, ListMoves, Zenon DEF Underway
  <2> QED BY <2>1, <2>2, Zenon DEF UnderwayInv
<1>7. ASSUME UNCHANGED <<exec, list>> PROVE UnderwayInv'
  BY <1>7, ZenonT(60) DEF UnderwayInv
<1>8. ASSUME NEW t \in Threads, ThreadStep(t) PROVE UnderwayInv'
  <2>1. ASSUME NEW c, NEW r, ExecuteCommand(c, r) PROVE UnderwayInv'
    BY SMTT(30), <1>7, <2>1 DEF ExecuteCommand
  <2>2. ASSUME NEW c, AppendCommand(t, c) PROVE UnderwayInv'
    BY SMTT(30), <1>1, <2>2 DEF AppendCommand
  <2>3. CASE Clear(t)
    BY SMTT(30), <1>1, <2>3 DEF Clear
  <2> QED BY SMTT(30), <1>3, <1>4, <1>5, <1>8, <2>1, <2>2, <2>3 DEF ThreadStep
<1>9. CASE Create \/ CreateRaises \/ UNCHANGED vars
  BY SMTT(30), <1>7, <1>9 DEF Create, CreateRaises, vars
<1> QED BY SMTT(30), <1>6, <1>8, <1>9 DEF Next

LEMMA ReportStep ==
  ASSUME ListInv, ExecInv, UnderwayInv, ReportInv, [Next]_vars
  PROVE  ReportInv'
<1>0. list \in Range(Lists)
  BY Zenon DEF ListInv
<1>1. ASSUME NEW c \in session.calls, NEW r, ExecuteCommand(c, r) PROVE ReportInv'
  <2> DEFINE request == ClientRequest(c)
             sent == GetRedisCommand([type |-> request.type, args |-> ArgsOf(request, list)])
             e == [call |-> c, list |-> list]
  <2>1. /\ ClientHas(c) /\ LpopFits(c) /\ ~ArgumentsRaise(c) /\ list' = list
        /\ served'.entries = <<e>> /\ served'.sent = <<sent>> /\ served'.direct = TRUE
    BY <1>1, Zenon DEF ExecuteCommand
  <2>2. Sent(e, sent, TRUE, list)
    BY <1>0, <2>1, CallFacts, ExecutesSent, Zenon DEF ListInv
  <2> HIDE DEF request, sent, e
  <2>3. /\ Len(served'.sent) = Len(served'.entries)
        /\ \A i \in DOMAIN served'.entries : i = 1
        /\ served'.entries[1] = e /\ served'.sent[1] = sent
    BY SMTT(30), <2>1
  <2>4. Report(served', list)
    BY <2>1, <2>2, <2>3, Zenon DEF Report
  <2> QED BY <2>1, <2>4, Zenon DEF ReportInv
<1>2. ASSUME NEW t \in Threads, SendTransaction(t) PROVE ReportInv'
  <2> DEFINE b == exec[t].built
  <2>1. /\ exec[t] # None /\ list' = list
        /\ served'.entries = b /\ served'.direct = FALSE
        /\ served'.sent = [i \in DOMAIN b |-> GetRedisCommand(b[i])]
    BY <1>2, Zenon DEF SendTransaction
  <2>2. IsSeq(b) /\ \A i \in DOMAIN b : Sent(b[i], GetRedisCommand(b[i]), FALSE, list)
    BY <2>1 DEF ExecInv, UnderwayInv, Execution, Underway
  <2> HIDE DEF b
  <2>3. DOMAIN b = 1..Len(b) /\ Len(b) \in Nat
    BY <2>2, AppendIsSeq
  <2>4. /\ Len(served'.sent) = Len(served'.entries)
        /\ \A i \in DOMAIN b : served'.sent[i] = GetRedisCommand(b[i])
    BY SMTT(30), <2>1, <2>3
  <2>5. Report(served', list)
    BY <2>1, <2>2, <2>4, Zenon DEF Report
  <2> QED BY <2>1, <2>5, Zenon DEF ReportInv
<1>3. CASE ListChanges
  <2>1. list # Lists[2] /\ list' = Lists[2] /\ served' = served
    BY SMTT(30), <1>3 DEF ListChanges
  <2>2. Report(served, list) => Report(served, Lists[2])
    BY <1>0, <2>1, ListMoves, Zenon DEF Report
  <2> QED BY <2>1, <2>2, Zenon DEF ReportInv
<1>4. ASSUME UNCHANGED <<served, list>> PROVE ReportInv'
  BY <1>4, Zenon DEF ReportInv
<1>5. ASSUME NEW t \in Threads, ThreadStep(t) PROVE ReportInv'
  <2>1. ASSUME NEW c, AppendCommand(t, c) PROVE ReportInv'
    BY SMTT(30), <1>4, <2>1 DEF AppendCommand
  <2>2. ASSUME NEW r, Exec(t, r) PROVE ReportInv'
    BY SMTT(30), <1>4, <2>2 DEF Exec
  <2>3. CASE Clear(t) \/ BuildCommand(t)
    BY SMTT(30), <1>4, <2>3 DEF Clear, BuildCommand
  <2> QED BY SMTT(30), <1>1, <1>2, <1>5, <2>1, <2>2, <2>3 DEF ThreadStep
<1>6. CASE Create \/ CreateRaises \/ UNCHANGED vars
  BY SMTT(30), <1>4, <1>6 DEF Create, CreateRaises, vars
<1> QED BY SMTT(30), <1>3, <1>5, <1>6 DEF Next

(* Through either client and through a transaction that several threads fill,
   clear and execute, while the caller changes the list it passed, the core
   sends the documented command of every call: name, parameters, order. *)
THEOREM SentAsDocumentedHolds == Spec => []SentAsDocumented
<1>1. SentInv => SentAsDocumented
  BY Zenon DEF SentInv, ReportInv, Report, Sent, AsDocumented, SentAsDocumented
<1>2. RequestsInv /\ SentInv /\ [Next]_vars => (RequestsInv /\ SentInv)'
  <2> SUFFICES ASSUME RequestsInv, SentInv, [Next]_vars PROVE (RequestsInv /\ SentInv)'
    OBVIOUS
  <2>1. ListInv /\ ExecInv /\ EntriesInv /\ UnderwayInv /\ ReportInv
    BY Zenon DEF RequestsInv, SentInv
  <2>2. EntriesInv'
    BY <2>1, EntriesStep, Zenon
  <2>3. UnderwayInv'
    BY <2>1, UnderwayStep, Zenon
  <2>4. ReportInv'
    BY <2>1, ReportStep, Zenon
  <2> QED BY <2>2, <2>3, <2>4, RequestsInvStep, Zenon DEF SentInv
<1> QED BY <1>1, <1>2, RequestsInvInit, SentInvInit, PTL DEF Spec

=============================================================================
