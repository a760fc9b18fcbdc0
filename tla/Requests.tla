------------------------------ MODULE Requests ------------------------------
(***************************************************************************)
(* From a method call of the Python client to the command the core sends:  *)
(* a client is created, threads of the program call its methods, fill one  *)
(* transaction they share and execute it.                                  *)
(*                                                                         *)
(* A coroutine of the client runs without a pause from the call to the     *)
(* write of its request, so a single command is one step.  Other THREADS   *)
(* do run in between: BaseTransaction has a lock for them.  exec takes a   *)
(* slice of the command list, without the lock, and execute_transaction    *)
(* then copies one command after the other into the message.  Appends,     *)
(* clears and changes of an argument list fall between those steps.        *)
(*                                                                         *)
(* A session says what one behaviour is about: the class of the client,    *)
(* its configuration, the calls and routes the threads use, and the bounds *)
(* on the commands appended and the requests sent.  The records of         *)
(* `commands' carry, beside the pair the code stores, the call and the     *)
(* contents of the caller's list at the append; `seen' and `served' are    *)
(* history too, read by the properties only.                               *)
(***************************************************************************)
EXTENDS Commands

CONSTANTS Threads,       \* threads of the program
          Raised,        \* what create is after its assertion failed
          Sessions,      \* [client, config, calls, routes, maxAppends, maxExecs]
          Lists          \* what the caller's list holds before and after a change

INSTANCE Settings

\* A configuration object, as config.py's constructors take it; a sub-message
\* of its request is not None.  A port is what the uint32 of the message takes.
IsConfig(config) ==
    /\ config.class \in {"Redis", "Cluster"}
    /\ config.addresses \in Seq({config.addresses[i] : i \in DOMAIN config.addresses})
    /\ \A i \in DOMAIN config.addresses : config.addresses[i].port \in Nat
    /\ config.use_tls \in BOOLEAN /\ config.read_from \in {"PRIMARY", "PREFER_REPLICA"}
    /\ config.request_timeout \in Nat \union {None}
    /\ config.credentials # None => AuthenticationInfo(config.credentials) # None
    /\ config.class = "Redis" /\ config.reconnect_strategy # None =>
          /\ config.reconnect_strategy.factor \in Nat /\ config.reconnect_strategy.exponent_base \in Nat
          /\ ConnectionRetryStrategy(config.reconnect_strategy) # None

\* A route object of routes.py; neither its message nor the core's reading of
\* it is None.  A slot number is what the int32 of the message takes.
IsRoute(route) ==
    \/ route = None
    \/ /\ route.class \in {"AllNodes", "AllPrimaries", "RandomNode", "SlotKeyRoute", "SlotIdRoute"}
       /\ route.class = "SlotIdRoute" => route.slot_id \in Int
       /\ SetProtobufRoute(route) # None /\ GetRoute(SetProtobufRoute(route)) # None

\* The parameters of a method, in the order of its Python signature
Signature(method) ==
    CASE method \in {"config_resetstat", "config_rewrite", "client_id",
                     "client_getname"}                        -> <<>>
      [] method \in {"delete", "mget", "exists", "unlink"}    -> <<"keys">>
      [] method = "custom_command"                            -> <<"command_args">>
      [] method = "info"                                      -> <<"sections">>
      [] method = "config_get"                                -> <<"parameters">>
      [] method = "config_set"                                -> <<"parameters_map">>
      [] method = "mset"                                      -> <<"key_value_map">>
      [] method = "select"                                    -> <<"index">>
      [] method = "ping"                                      -> <<"message">>
      [] method = "hset"                                      -> <<"key", "field_value_map">>
      [] method \in {"incrby", "incrbyfloat", "decrby"}       -> <<"key", "amount">>
      [] method \in {"hget", "hexists"}                       -> <<"key", "field">>
      [] method \in {"hincrby", "hincrbyfloat"}               -> <<"key", "field", "amount">>
      [] method \in {"hmget", "hdel"}                         -> <<"key", "fields">>
      [] method \in {"lpush", "rpush"}                        -> <<"key", "elements">>
      [] method \in {"sadd", "srem"}                          -> <<"key", "members">>
      [] method \in {"lpop", "rpop", "lpop_count", "rpop_count"} -> <<"key", "count">>
      [] method \in {"lrange", "ltrim"}                       -> <<"key", "start", "end">>
      [] method = "lrem"                                      -> <<"key", "count", "element">>
      [] method = "expire"                                    -> <<"key", "seconds", "option">>
      [] method = "expireat"                                  -> <<"key", "unix_seconds", "option">>
      [] method = "pexpire"                                   -> <<"key", "milliseconds", "option">>
      [] method = "pexpireat"                                 -> <<"key", "unix_milliseconds", "option">>
      [] method = "set" -> <<"key", "value", "conditional_set", "expiry", "return_old_value">>
      [] OTHER                                                -> <<"key">>

Methods ==
    {"custom_command", "info", "select", "config_resetstat", "config_rewrite",
     "client_id", "ping", "config_get", "config_set", "client_getname",
     "get", "set", "delete", "incr", "incrby", "incrbyfloat", "mset", "mget", "decr",
     "decrby", "hset", "hget", "hincrby", "hincrbyfloat", "hexists", "hgetall",
     "hmget", "hdel", "lpush", "lpop", "lpop_count", "lrange", "rpush", "rpop",
     "rpop_count", "sadd", "srem", "smembers", "scard", "ltrim", "lrem", "llen",
     "exists", "unlink", "expire", "expireat", "pexpire", "pexpireat", "ttl"}

\* Parameters declared Optional, with None as their default
MayBeNone(method) ==
    {"message", "option", "sections", "conditional_set", "expiry"}
        \union IF method \in {"lpop", "rpop"} THEN {"count"} ELSE {}

\* A call of a method with arguments of the declared types
IsCall(c) ==
    /\ c.method \in Methods
    /\ \A p \in Range(Signature(c.method)) : c[p] = None => p \in MayBeNone(c.method)
    /\ c.method = "set" =>
          /\ c.conditional_set \in {None, "ONLY_IF_EXISTS", "ONLY_IF_DOES_NOT_EXIST"}
          /\ c.return_old_value \in BOOLEAN
          /\ c.expiry # None =>
                /\ c.expiry.type \in {"SEC", "MILLSEC", "UNIX_SEC", "UNIX_MILLSEC", "KEEP_TTL"}
                /\ c.expiry.value # None =>
                      /\ c.expiry.value.class \in {"int", "timedelta", "datetime"}
                      /\ c.expiry.value.n \in Int /\ c.expiry.value.short \in BOOLEAN

ASSUME RequestsAssumption ==
    /\ Lists \in Seq(Range(Lists)) /\ Len(Lists) = 2
    /\ \A contents \in Range(Lists) : contents \in Seq(Range(contents))
    /\ None \notin {"", "ONLY_IF_EXISTS", "ONLY_IF_DOES_NOT_EXIST"} /\ None \notin Int
    /\ \A s \in Sessions :
          /\ s.maxAppends \in Nat /\ s.maxExecs \in Nat
          /\ IsConfig(s.config)
          /\ \A r \in s.routes : IsRoute(r)
          /\ \A c \in s.calls : IsCall(c)

VARIABLES session,       \* one of Sessions
          link,          \* the core's client, once created
          list,          \* the caller's list
          commands,      \* transaction.commands
          exec,          \* thread -> its execution of the transaction, or None
          served,        \* the last request the core took
          appends, execs

vars == <<session, link, list, commands, exec, served, appends, execs>>

IsCluster == session.client = "RedisClusterClient"

Connected == link # None /\ link # Raised

Init ==
    /\ session \in Sessions
    /\ link = None
    /\ list = Lists[1]
    /\ commands = <<>>
    /\ exec = [t \in Threads |-> None]
    /\ served = None
    /\ appends = 0
    /\ execs = 0

-----------------------------------------------------------------------------
(* Creating the client *)

\* create: _get_protobuf_conn_request, read by the core
Create ==
    /\ link = None
    /\ ~ConnRequestRaises(session.config, IsCluster)
    /\ link' = CoreClient(ConnRequest(session.config, IsCluster))
    /\ UNCHANGED <<session, list, commands, exec, served, appends, execs>>

CreateRaises ==
    /\ link = None
    /\ ConnRequestRaises(session.config, IsCluster)
    /\ link' = Raised
    /\ UNCHANGED <<session, list, commands, exec, served, appends, execs>>

-----------------------------------------------------------------------------
(* One command *)

\* lpop of a client takes no count: lpop_count does.
LpopFits(c) == c.method = "lpop" => c.count = None

\* Only a standalone client has select.
ClientHas(c) == c.method = "select" => ~IsCluster

\* Methods that take a route: the server commands of a cluster client
Routed(c) ==
    c.method \in {"custom_command", "info", "config_resetstat", "config_rewrite",
                  "client_id", "ping", "config_get", "config_set", "client_getname"}

\* The expiry of a call is constructed before the call is made.
ArgumentsRaise(c) == c.method = "set" /\ c.expiry # None /\ ExpiryRaises(c.expiry)

ClientRequest(c) ==
    IF IsCluster THEN ClusterCommand(c, list) ELSE StandaloneCommand(c, list)

\* _execute_command and, in the core, get_redis_command, get_route and
\* send_command.
ExecuteCommand(c, route) ==
    /\ Connected /\ execs < session.maxExecs
    /\ ClientHas(c) /\ LpopFits(c) /\ ~ArgumentsRaise(c)
    /\ route # None => IsCluster /\ Routed(c)
    /\ LET request == ClientRequest(c)
           args    == ArgsOf(request, list)
       IN  served' = [entries |-> <<[call |-> c, list |-> list]>>,
                      sent    |-> <<GetRedisCommand([type |-> request.type, args |-> args])>>,
                      asked   |-> route,
                      route   |-> CommandRouting(GetRoute(SetProtobufRoute(route)), link.cluster),
                      direct  |-> TRUE,
                      seen    |-> {<<c>>}]
    /\ execs' = execs + 1
    /\ UNCHANGED <<session, link, list, commands, exec, appends>>

-----------------------------------------------------------------------------
(* The transaction *)

CallsOf(entries) == [i \in DOMAIN entries |-> entries[i].call]

\* History: what the transaction holds now, for every execution under way
Noticed(now) ==
    [t \in Threads |-> IF exec[t] = None THEN None
                       ELSE [exec[t] EXCEPT !.seen = @ \union {CallsOf(now)}]]

\* Methods a transaction lacks
TransactionHas(c) ==
    /\ c.method \notin {"lpop_count", "rpop_count"}
    /\ c.method = "select" => ~IsCluster

\* append_command, under the lock
AppendCommand(t, c) ==
    /\ exec[t] = None
    /\ appends < session.maxAppends
    /\ TransactionHas(c) /\ ~ArgumentsRaise(c)
    /\ LET request == TransactionCommand(c, list)
       IN  commands' = Append(commands, [call   |-> c, list |-> list,
                                         type   |-> request.type,
                                         args   |-> request.args,
                                         shared |-> request.shared])
    /\ exec' = Noticed(commands')
    /\ appends' = appends + 1
    /\ UNCHANGED <<session, link, list, served, execs>>

\* clear, under the lock
Clear(t) ==
    /\ exec[t] = None
    /\ commands # <<>>
    /\ commands' = <<>>
    /\ exec' = Noticed(commands')
    /\ UNCHANGED <<session, link, list, served, appends, execs>>

\* exec of the standalone or the cluster client: commands = transaction.commands[:]
Exec(t, route) ==
    /\ exec[t] = None
    /\ Connected /\ execs < session.maxExecs
    /\ route # None => IsCluster
    /\ exec' = [exec EXCEPT ![t] = [copy |-> commands, built |-> <<>>, route |-> route,
                                    seen |-> {CallsOf(commands)}]]
    /\ execs' = execs + 1
    /\ UNCHANGED <<session, link, list, commands, served, appends>>

(* Mutant: the loop runs over the transaction's list instead of the copy. *)
CommandsOfLive(t) == commands

\* The list that the loop of execute_transaction runs over
CommandsOf(t) == exec[t].copy

(* Mutant: a command is added to the message twice. *)
BuildCommandTwice(t) ==
    /\ exec[t] # None
    /\ Len(exec[t].built) < Len(CommandsOf(t))
    /\ LET entry == CommandsOf(t)[Len(exec[t].built) + 1]
           built == [call |-> entry.call, list |-> entry.list,
                     type |-> entry.type, args |-> ArgsOf(entry, list)]
       IN  exec' = [exec EXCEPT ![t].built = @ \o <<built, built>>]
    /\ UNCHANGED <<session, link, list, commands, served, appends, execs>>

\* One round of the loop: command.args_array.args[:] = args
BuildCommand(t) ==
    /\ exec[t] # None
    /\ Len(exec[t].built) < Len(CommandsOf(t))
    /\ LET entry == CommandsOf(t)[Len(exec[t].built) + 1]
       IN  exec' = [exec EXCEPT ![t].built =
                        Append(@, [call |-> entry.call, list |-> entry.list,
                                   type |-> entry.type, args |-> ArgsOf(entry, list)])]
    /\ UNCHANGED <<session, link, list, commands, served, appends, execs>>

\* The rest of execute_transaction and, in the core, send_transaction
SendTransaction(t) ==
    /\ exec[t] # None
    /\ Len(exec[t].built) >= Len(CommandsOf(t))
    /\ served' = [entries |-> exec[t].built,
                  sent    |-> [i \in DOMAIN exec[t].built |-> GetRedisCommand(exec[t].built[i])],
                  asked   |-> exec[t].route,
                  route   |-> TransactionRouting(GetRoute(SetProtobufRoute(exec[t].route)), link.cluster),
                  direct  |-> FALSE,
                  seen    |-> exec[t].seen]
    /\ exec' = [exec EXCEPT ![t] = None]
    /\ UNCHANGED <<session, link, list, commands, appends, execs>>

\* The caller changes the list it passed to a method.
ListChanges ==
    /\ list # Lists[2]
    /\ list' = Lists[2]
    /\ UNCHANGED <<session, link, commands, exec, served, appends, execs>>

ThreadStep(t) ==
    \/ \E c \in session.calls : AppendCommand(t, c)
    \/ \E c \in session.calls, r \in session.routes : exec[t] = None /\ ExecuteCommand(c, r)
    \/ Clear(t)
    \/ \E r \in session.routes : Exec(t, r)
    \/ BuildCommand(t)
    \/ SendTransaction(t)

Next ==
    \/ Create
    \/ CreateRaises
    \/ ListChanges
    \/ \E t \in Threads : ThreadStep(t)

Spec == Init /\ [][Next]_vars

-----------------------------------------------------------------------------
(***************************************************************************)
(* What the methods promise.  The documentation of a method names the      *)
(* Redis command it stands for (`See https://redis.io/commands/...') and   *)
(* its parameters: the command is expected to be that name, followed by    *)
(* the parameters in the order of the method's signature, written out by   *)
(* their kind.                                                             *)
(***************************************************************************)

Name(method) ==
    CASE method = "custom_command"           -> <<>>
      [] method = "delete"                   -> <<"del">>
      [] method \in {"lpop", "lpop_count"}   -> <<"lpop">>
      [] method \in {"rpop", "rpop_count"}   -> <<"rpop">>
      [] method = "config_get"               -> <<"config", "get">>
      [] method = "config_set"               -> <<"config", "set">>
      [] method = "config_resetstat"         -> <<"config", "resetstat">>
      [] method = "config_rewrite"           -> <<"config", "rewrite">>
      [] method = "client_id"                -> <<"client", "id">>
      [] method = "client_getname"           -> <<"client", "getname">>
      [] OTHER                               -> <<method>>

\* The numbers that may stand for an expiry, None where there is none: an int
\* as it is, a time in the whole units that are over, and a millisecond less
\* where the double falls short.  No number stands for a value whose type does
\* not fit the expiry's.
Units(expiry) ==
    IF expiry = None THEN {None}
    ELSE IF expiry.value = None THEN (IF expiry.type = "KEEP_TTL" THEN {None} ELSE {})
    ELSE LET class == expiry.value.class
             n     == expiry.value.n
             unit  == IF expiry.type \in {"SEC", "UNIX_SEC"} THEN Second ELSE Millisecond
             Left(k) == IF n >= 0 THEN n - k * unit ELSE k * unit - n
         IN  CASE expiry.type = "KEEP_TTL" -> {}
               [] expiry.type # "KEEP_TTL" /\ class = "int" -> {n}
               [] class = (IF expiry.type \in {"SEC", "MILLSEC"} THEN "timedelta" ELSE "datetime") ->
                     {k \in (n \div unit) - 1 .. (n \div unit) + 2 :
                         \/ Left(k) \in 0..(unit - 1)
                         \/ unit = Millisecond /\ expiry.value.short /\ Left(k) = unit}
               [] OTHER -> {}

ExpiryWords(expiry, number) ==
    CASE expiry.type = "SEC"          -> <<"EX", ToString(number)>>
      [] expiry.type = "MILLSEC"      -> <<"PX", ToString(number)>>
      [] expiry.type = "UNIX_SEC"     -> <<"EXAT", ToString(number)>>
      [] expiry.type = "UNIX_MILLSEC" -> <<"PXAT", ToString(number)>>
      [] expiry.type = "KEEP_TTL"     -> <<"KEEPTTL">>

\* The options of SET
SetOption(c, option, number) ==
    IF c[option] = None THEN <<>>
    ELSE CASE option = "conditional_set" ->
                 <<[ONLY_IF_EXISTS |-> "XX", ONLY_IF_DOES_NOT_EXIST |-> "NX"][c.conditional_set]>>
           [] option = "return_old_value" -> IF c.return_old_value THEN <<"GET">> ELSE <<>>
           [] option = "expiry" -> ExpiryWords(c.expiry, number)

Words(c, parameter, contents) ==
    LET v == c[parameter]
    IN  IF v = None THEN <<>>
        ELSE CASE parameter \in {"keys", "fields", "elements", "members", "sections",
                                 "parameters", "command_args"} -> contents
               [] parameter \in {"key_value_map", "field_value_map", "parameters_map"} ->
                     Joined(v)
               [] parameter \in {"key", "value", "field", "element", "message"} -> <<v>>
               [] parameter = "option" ->
                     <<[HasNoExpiry |-> "NX", HasExistingExpiry |-> "XX",
                        NewExpiryGreaterThanCurrent |-> "GT",
                        NewExpiryLessThanCurrent |-> "LT"][v]>>
               [] OTHER -> <<ToString(v)>>

Parameters(c, contents, order) ==
    Joined([i \in DOMAIN order |-> Words(c, order[i], contents)])

\* The options of SET may come in any order.
SetWords(c, number) ==
    {Joined(<<<<c.key>>, <<c.value>>, SetOption(c, option[1], number),
              SetOption(c, option[2], number), SetOption(c, option[3], number)>>) :
        option \in Injection(1..3, {"conditional_set", "expiry", "return_old_value"})}

Documented(c, contents) ==
    {Name(c.method) \o words :
        words \in IF c.method = "set"
                  THEN UNION {SetWords(c, number) : number \in Units(c.expiry)}
                  ELSE {Parameters(c, contents, Signature(c.method))}}

\* Two calls whose command is not the documented one: rpop of a client drops
\* its count, and an expiry of less than one unit loses its value.
Undocumented(c, direct) ==
    \/ direct /\ c.method = "rpop" /\ c.count # None
    \/ c.method = "set" /\ 0 \in Units(c.expiry)

\* Ports and slots have 16 bits in the core.
IsU16(n) == 0 <= n /\ n < 65536

\* The methods of a transaction that keep the caller's list, and notice
\* what becomes of it
KeepsList(c) ==
    c.method \in {"custom_command", "delete", "config_get", "mget", "exists", "unlink"}

-----------------------------------------------------------------------------
(* Properties *)

(* Type correctness of the client, the transaction and the executions. *)
TypeOK ==
    /\ session \in Sessions
    /\ list \in Range(Lists)
    /\ appends \in 0..session.maxAppends /\ execs \in 0..session.maxExecs
    /\ Len(commands) <= session.maxAppends
    /\ \A i \in DOMAIN commands : commands[i].call \in session.calls
    /\ \A t \in Threads : exec[t] # None =>
          /\ exec[t].route \in session.routes
          /\ Len(exec[t].built) <= session.maxAppends
    /\ Connected => link.cluster \in BOOLEAN

(***************************************************************************)
(* The core sends what the method documents, with the arguments the caller *)
(* gave: through either kind of client and through a transaction, every    *)
(* command has the documented name, and its parameters in order.  A list   *)
(* that is changed after the append is not noticed by a method that built  *)
(* its own ([key] + fields in transaction.py), and only by it as a whole   *)
(* where the method keeps the caller's list.  A time is sent in the whole  *)
(* units that are over, and one whose type does not fit the expiry's is    *)
(* not sent at all.                                                        *)
(***************************************************************************)
SentAsDocumented ==
    served # None =>
        /\ Len(served.sent) = Len(served.entries)
        /\ \A i \in DOMAIN served.entries :
              LET entry == served.entries[i]
              IN  Undocumented(entry.call, served.direct)
                  \/ \E contents \in {entry.list} \union (IF KeepsList(entry.call) THEN {list} ELSE {}) :
                        served.sent[i] \in Documented(entry.call, contents)

(***************************************************************************)
(* An executed transaction is the transaction of one instant: the commands *)
(* that the core gets from execute_transaction are, in order, all commands *)
(* that the transaction held at some moment of the execution, though other *)
(* threads append to it and clear it while the message is built.           *)
(***************************************************************************)
ExecutedAtOneInstant ==
    served # None => CallsOf(served.entries) \in served.seen

(* The route names a slot. *)
ToSlot(route) == "slot" \in DOMAIN route

(***************************************************************************)
(* A request of a cluster client goes where its route says: a command to   *)
(* all nodes, to all primaries, to a random node, to the primary or to a   *)
(* replica of a slot or, without a route, to the node of its keys; and so  *)
(* does a transaction with the route to one node (TSingleNodeRoute).       *)
(* Two things are not as asked.  Client::send_transaction sends a          *)
(* transaction with no route to a random node, where the documentation of  *)
(* exec promises the owner of its first key, and one with a route to many  *)
(* nodes as well.  And a slot number beyond 16 bits is another slot.       *)
(***************************************************************************)
RoutedAsAsked ==
    served # None =>
        LET asked == served.asked
            route == served.route
            Kept  == asked # None /\ (served.direct \/ asked.class \notin {"AllNodes", "AllPrimaries"})
        IN  IF ~IsCluster THEN route = Chosen("StandaloneClient")
            ELSE IF ~Kept
                 THEN route = IF served.direct THEN Chosen("Command") ELSE [single |-> "Random"]
            ELSE CASE asked.class = "AllNodes"     -> route = [multi |-> "AllNodes"]
                   [] asked.class = "AllPrimaries" -> route = [multi |-> "AllMasters"]
                   [] asked.class = "RandomNode"   -> route = [single |-> "Random"]
                   [] asked.class = "SlotKeyRoute" ->
                        /\ ToSlot(route) /\ (route.addr = "Master" <=> asked.slot_type = "PRIMARY")
                        /\ route.slot = [of |-> asked.slot_key]
                   [] asked.class = "SlotIdRoute" ->
                        /\ ToSlot(route) /\ (route.addr = "Master" <=> asked.slot_type = "PRIMARY")
                        /\ IsU16(asked.slot_id) => route.slot = asked.slot_id

(***************************************************************************)
(* The core's client is the one the configuration describes: its mode is   *)
(* that of the client's class, and what the user set is what it uses, over *)
(* every default on the way (proto3's and the core's).  A zero timeout,    *)
(* port, factor or base counts as not set, and so does an empty string.    *)
(* A port beyond 16 bits is another port, and may be 0.                    *)
(***************************************************************************)
ConfiguredAsAsked ==
    Connected =>
        LET config == session.config
            Set(x) == x # None /\ x # 0
            Given(x) == IF x = "" THEN None ELSE x
        IN  /\ link.cluster <=> IsCluster
            /\ Len(link.nodes) = Len(config.addresses)
            /\ \A i \in DOMAIN link.nodes :
                  /\ link.nodes[i].host = config.addresses[i].host
                  /\ config.addresses[i].port # 0 /\ IsU16(config.addresses[i].port) =>
                        link.nodes[i].port = config.addresses[i].port
                  /\ config.addresses[i].port = 0 => link.nodes[i].port = DefaultPort
                  /\ link.nodes[i].tls = config.use_tls /\ ~link.nodes[i].insecure
            /\ link.replica_reads <=> config.read_from = "PREFER_REPLICA"
            /\ link.request_timeout = IF Set(config.request_timeout)
                                        THEN config.request_timeout ELSE DefaultResponseTimeout
            /\ link.info.protocol = config.protocol
            /\ link.info.client_name = Given(config.client_name)
            /\ IF config.credentials = None
                 THEN link.info.username = None /\ link.info.password = None
                 ELSE /\ link.info.username = Given(config.credentials.username)
                      /\ link.info.password = Given(config.credentials.password)
            /\ config.class = "Redis" =>
                  /\ link.info.db = IF config.database_id = None THEN 0 ELSE config.database_id
                  /\ config.reconnect_strategy # None =>
                        /\ link.retries.number_of_retries = config.reconnect_strategy.num_of_retries
                        /\ Set(config.reconnect_strategy.factor) =>
                              link.retries.factor = config.reconnect_strategy.factor
                        /\ Set(config.reconnect_strategy.exponent_base) =>
                              link.retries.exponent_base = config.reconnect_strategy.exponent_base

=============================================================================
