------------------------------ MODULE Settings ------------------------------
(***************************************************************************)
(* What a user sets on the Python side and the core reads back: the        *)
(* configuration of a client (config.py, sent once as a ConnectionRequest) *)
(* and the route of a request (routes.py, sent with it).                   *)
(*                                                                         *)
(* A message in between has proto3's defaults: a number or a string that   *)
(* is not assigned is read as 0 or "", a sub-message as absent (None).     *)
(* Hosts, names and passwords are tokens.                                  *)
(***************************************************************************)
EXTENDS Integers, Sequences

CONSTANT None

-----------------------------------------------------------------------------
(* The configuration *)

\* The sub-messages of a request
AuthenticationInfo(credentials) ==
    [username |-> IF credentials.username = None THEN "" ELSE credentials.username,
     password |-> credentials.password]

ConnectionRetryStrategy(strategy) ==
    [number_of_retries |-> strategy.num_of_retries,
     factor            |-> strategy.factor,
     exponent_base     |-> strategy.exponent_base]

\* BaseClientConfiguration._create_a_protobuf_conn_request.  The tests
\* `if self.request_timeout', `if ...username', `if self.client_name' leave
\* out a 0 or an empty string as they leave out a None.
BaseConnRequest(config, cluster) ==
    [addresses            |-> config.addresses,
     tls_mode             |-> IF config.use_tls THEN "SecureTls" ELSE "NoTls",
     read_from            |-> [PRIMARY |-> "Primary",
                               PREFER_REPLICA |-> "PreferReplica"][config.read_from],
     request_timeout      |-> IF config.request_timeout = None
                                THEN 0 ELSE config.request_timeout,
     cluster_mode_enabled |-> cluster,
     authentication_info  |->
        IF config.credentials = None THEN None
        ELSE AuthenticationInfo(config.credentials),
     client_name          |-> IF config.client_name = None
                                THEN "" ELSE config.client_name,
     protocol             |-> config.protocol,
     connection_retry_strategy |-> None,
     database_id          |-> 0]

\* RedisClientConfiguration._create_a_protobuf_conn_request: its assertion ...
ConnRequestRaises(config, cluster) == config.class = "Redis" /\ cluster

(* Mutant: the database is left out of the request. *)
ConnRequestWithoutDatabase(config, cluster) == BaseConnRequest(config, cluster)

\* ... and what it adds; ClusterClientConfiguration adds nothing.
ConnRequest(config, cluster) ==
    IF config.class = "Cluster" THEN BaseConnRequest(config, cluster)
    ELSE [BaseConnRequest(config, FALSE) EXCEPT
            !.connection_retry_strategy =
                IF config.reconnect_strategy = None THEN None
                ELSE ConnectionRetryStrategy(config.reconnect_strategy),
            !.database_id = IF config.database_id = None THEN 0 ELSE config.database_id]

(* The core's reading of it *)

DefaultPort == 6379

\* `address.port as u16'
GetPort(address) == IF address.port = 0 THEN DefaultPort ELSE address.port % 65536

CharsToStringOption(chars) == IF chars = "" THEN None ELSE chars

ToDuration(millis, default) == IF millis > 0 THEN millis ELSE default

DefaultResponseTimeout == 250

\* RetryStrategy::new and get_exponential_backoff
RetryStrategy(strategy) ==
    IF strategy = None THEN [exponent_base |-> 2, factor |-> 100, number_of_retries |-> 5]
    ELSE [exponent_base     |-> IF strategy.exponent_base > 0 THEN strategy.exponent_base ELSE 2,
          factor            |-> IF strategy.factor > 0 THEN strategy.factor ELSE 100,
          number_of_retries |-> strategy.number_of_retries]

\* get_redis_connection_info
RedisConnectionInfo(request) ==
    [db          |-> request.database_id,
     username    |-> IF request.authentication_info = None THEN None
                     ELSE CharsToStringOption(request.authentication_info.username),
     password    |-> IF request.authentication_info = None THEN None
                     ELSE CharsToStringOption(request.authentication_info.password),
     protocol    |-> request.protocol,
     client_name |-> CharsToStringOption(request.client_name)]

\* get_connection_info
ConnectionInfo(address, request) ==
    [host |-> address.host, port |-> GetPort(address),
     tls |-> request.tls_mode # "NoTls", insecure |-> request.tls_mode = "InsecureTls"]

\* Client::new with create_cluster_client or StandaloneClient::create_client.
\* The retry strategy is read by the standalone client alone.
CoreClient(request) ==
    [cluster         |-> request.cluster_mode_enabled,
     nodes           |-> [i \in DOMAIN request.addresses |->
                            ConnectionInfo(request.addresses[i], request)],
     info            |-> RedisConnectionInfo(request),
     replica_reads   |-> request.read_from # "Primary",
     request_timeout |-> ToDuration(request.request_timeout, DefaultResponseTimeout),
     retries         |-> IF request.cluster_mode_enabled THEN None
                         ELSE RetryStrategy(request.connection_retry_strategy)]

-----------------------------------------------------------------------------
(* Routes *)

\* to_protobuf_slot_type
ProtobufSlotType(type) == IF type = "PRIMARY" THEN "Primary" ELSE "Replica"

\* set_protobuf_route
SetProtobufRoute(route) ==
    IF route = None THEN None
    ELSE
    CASE route.class = "AllNodes"     -> [simple |-> "AllNodes"]
      [] route.class = "AllPrimaries" -> [simple |-> "AllPrimaries"]
      [] route.class = "RandomNode"   -> [simple |-> "Random"]
      [] route.class = "SlotKeyRoute" -> [slot_type |-> ProtobufSlotType(route.slot_type),
                                          slot_key  |-> route.slot_key]
      [] route.class = "SlotIdRoute"  -> [slot_type |-> ProtobufSlotType(route.slot_type),
                                          slot_id   |-> route.slot_id]

\* get_slot_addr
GetSlotAddr(type) == [Primary |-> "Master", Replica |-> "ReplicaRequired"][type]

\* get_route.  The slot of a key, a hash, is [of |-> key]; a slot number is
\* cast to u16.
GetRoute(route) ==
    IF route = None THEN None
    ELSE
    CASE "simple" \in DOMAIN route ->
            [AllNodes     |-> [multi |-> "AllNodes"],
             AllPrimaries |-> [multi |-> "AllMasters"],
             Random       |-> [single |-> "Random"]][route.simple]
      [] "slot_key" \in DOMAIN route ->
            [slot |-> [of |-> route.slot_key], addr |-> GetSlotAddr(route.slot_type)]
      [] "slot_id" \in DOMAIN route ->
            [slot |-> route.slot_id % 65536, addr |-> GetSlotAddr(route.slot_type)]

\* Where the core sends what it was given with a routing: to nodes that the
\* routing names or, as [by |-> ...], to the one chosen by someone else.  A
\* standalone client takes no routing, and chooses among its own nodes.
Chosen(by) == [by |-> by]

Multi(routing) == "multi" \in DOMAIN routing

\* Client::send_command.  Without a routing, the command has it
\* (RoutingInfo::for_routable), or a random node is taken.
CommandRouting(routing, cluster) ==
    IF ~cluster THEN Chosen("StandaloneClient")
    ELSE IF routing = None THEN Chosen("Command") ELSE routing

(* Mutant: the routing of a transaction is not looked at. *)
TransactionRoutingDropped(routing, cluster) ==
    IF ~cluster THEN Chosen("StandaloneClient") ELSE [single |-> "Random"]

\* Client::send_transaction.  Only the routing to a single node is kept.
TransactionRouting(routing, cluster) ==
    IF ~cluster THEN Chosen("StandaloneClient")
    ELSE IF routing # None /\ ~Multi(routing) THEN routing ELSE [single |-> "Random"]

=============================================================================
