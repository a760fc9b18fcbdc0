----------------------------- MODULE MCRequests -----------------------------
(* Requests, every method once and the interesting ones together *)
EXTENDS Requests

CONSTANTS t1, t2

MCThreads == {t1, t2}

MCLists == <<<<"a", "b">>, <<"c">>>>

Pairs == <<<<"f", "v">>, <<"g", "w">>>>

\* Distinct values for the parameters of one method, so that no two of them
\* can be taken for each other
Sample(method, parameter) ==
    CASE parameter \in {"amount", "seconds", "unix_seconds", "milliseconds",
                        "unix_milliseconds", "count"} -> 7
      [] parameter = "start" -> 0
      [] parameter = "end" -> -1
      [] parameter = "index" -> 0
      [] parameter = "option" -> "NewExpiryLessThanCurrent"
      [] parameter \in {"key_value_map", "field_value_map", "parameters_map"} -> Pairs
      [] OTHER -> parameter

Call(method, given) ==
    LET names == Range(Signature(method))
    IN  [n \in names \union {"method"} |->
            IF n = "method" THEN method
            ELSE IF ~given /\ n \in MayBeNone(method) THEN None ELSE Sample(method, n)]

Set(x, e, r) ==
    [method |-> "set", key |-> "key", value |-> "value", conditional_set |-> x,
     expiry |-> e, return_old_value |-> r]

Value(class, n) == [class |-> class, n |-> n, short |-> FALSE]

ExpiryTypes == {"SEC", "MILLSEC", "UNIX_SEC", "UNIX_MILLSEC", "KEEP_TTL"}

\* No value, a zero, a number, and times: less than a second, less than a
\* millisecond, seconds and a bit (also before 1970), and the 1001 ms whose
\* double falls short.  Half of them do not fit a type.
Values ==
    {None, Value("int", 0), Value("int", 9), [class |-> "timedelta", n |-> 1001000, short |-> TRUE]}
    \union {Value(class, n) : class \in {"timedelta", "datetime"}, n \in {400, 500000, 2999999, -2500000}}

SetCalls ==
    {Set(x, e, r) : x \in {None, "ONLY_IF_EXISTS", "ONLY_IF_DOES_NOT_EXIST"},
                    e \in {None, [type |-> "KEEP_TTL", value |-> None],
                          [type |-> "SEC", value |-> Value("int", 9)]},
                    r \in BOOLEAN}
    \union {Set(None, e, FALSE) : e \in [type : ExpiryTypes, value : Values]}

AllCalls == {Call(m, g) : m \in Methods \ {"set"}, g \in BOOLEAN} \union SetCalls

Routes ==
    {[class |-> "AllNodes"], [class |-> "AllPrimaries"], [class |-> "RandomNode"]}
    \union [class : {"SlotKeyRoute"}, slot_type : {"PRIMARY", "REPLICA"}, slot_key : {"key"}]
    \union [class : {"SlotIdRoute"}, slot_type : {"PRIMARY", "REPLICA"}, slot_id : {0, 16383, 65536, -1}]

Default ==
    [class |-> "Redis", addresses |-> <<[host |-> "h1", port |-> 6380], [host |-> "h2", port |-> 0]>>,
     use_tls |-> FALSE, credentials |-> None, read_from |-> "PRIMARY",
     request_timeout |-> None, client_name |-> None, protocol |-> "RESP3",
     reconnect_strategy |-> None, database_id |-> None]

Configs ==
    {Default,
     [Default EXCEPT !.class = "Cluster"],
     [Default EXCEPT !.addresses = <<[host |-> "h1", port |-> 65535], [host |-> "h2", port |-> 65536]>>],
     [Default EXCEPT !.use_tls = TRUE, !.protocol = "RESP2"],
     [Default EXCEPT !.read_from = "PREFER_REPLICA", !.client_name = "name"],
     [Default EXCEPT !.credentials = [username |-> None, password |-> "pw"], !.database_id = 0],
     [Default EXCEPT !.credentials = [username |-> "user", password |-> "pw"], !.database_id = 4],
     [Default EXCEPT !.request_timeout = 0, !.class = "Cluster", !.client_name = "",
                     !.credentials = [username |-> "", password |-> "pw"]],
     [Default EXCEPT !.request_timeout = 700, !.database_id = 1],
     [Default EXCEPT !.reconnect_strategy = [num_of_retries |-> 0, factor |-> 0, exponent_base |-> 3]],
     [Default EXCEPT !.reconnect_strategy = [num_of_retries |-> 4, factor |-> 10, exponent_base |-> 0]]}

Cluster == [Default EXCEPT !.class = "Cluster"]

\* One call, appended and sent once
Short(client, config, call, routes) ==
    [client |-> client, config |-> config, calls |-> {call}, routes |-> routes,
     maxAppends |-> 1, maxExecs |-> 1]

\* Threads that append, clear and execute at the same time
Long ==
    [client |-> "RedisClient", config |-> Default, routes |-> {None},
     calls |-> {Call("get", TRUE), Call("hmget", TRUE), Call("delete", TRUE)},
     maxAppends |-> 3, maxExecs |-> 2]

MCSessions ==
    {Long}
    \union {Short("RedisClient", Default, c, {None}) : c \in AllCalls}
    \union {Short("RedisClusterClient", Cluster, c, {None}) : c \in AllCalls}
    \union {Short("RedisClusterClient", Cluster, Call("ping", TRUE), {None, r}) : r \in Routes}
    \union {Short(client, config, Call("get", TRUE), {None}) :
                client \in {"RedisClient", "RedisClusterClient"}, config \in Configs}

ThreadSymmetry == Permutations(MCThreads)
=============================================================================
