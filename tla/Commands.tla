------------------------------ MODULE Commands ------------------------------
(***************************************************************************)
(* The commands of the Python client, and the table by which the core      *)
(* turns them into Redis commands.                                         *)
(*                                                                         *)
(* A call is a record of the method's name and its arguments under their   *)
(* Python names.  Every method builds one request, the pair of a           *)
(* RequestType and a list of strings.  The same methods exist three times  *)
(* in the code: on the clients (core.py, with standalone_commands.py or    *)
(* cluster_commands.py for the server commands) and on a transaction       *)
(* (transaction.py), where the pair is appended to a list instead.         *)
(*                                                                         *)
(* Keys and values are tokens.  A dict is the sequence of its items.  A    *)
(* list argument is an object of the caller, who may change it later: a    *)
(* call holds no copy of it, and `list' is what it holds when the method   *)
(* runs.  Some methods put the caller's list itself into the request       *)
(* (Passes), the others make a list of their own (Makes).                  *)
(*                                                                         *)
(* Each of the three is one chain of CASEs, in the order of the source.    *)
(***************************************************************************)
EXTENDS Integers, Sequences, Functions, TLC

CONSTANT None      \* Python's None

\* str() of an int
Str(n) == ToString(n)

\* A request whose argument list is made by the method, and one whose
\* argument list is the caller's own.
Makes(type, args) == [type |-> type, args |-> args, shared |-> FALSE]

Passes(type) == [type |-> type, args |-> <<>>, shared |-> TRUE]

\* The arguments of a request at a moment when the caller's list holds `list'.
ArgsOf(request, list) == IF request.shared THEN request.args \o list ELSE request.args

\* A list that is extended by each of some lists in turn.
Joined(lists) ==
  IF lists = <<>> THEN <<>>
  ELSE LET upTo[n \in 1..Len(lists)] == IF n = 1 THEN lists[1] ELSE upTo[n - 1] \o lists[n]
       IN  upTo[Len(lists)]

\* for pair in map.items(): parameters.extend(pair)
Items(map) == Joined(map)

-----------------------------------------------------------------------------
(* Options *)

(***************************************************************************)
(* ExpirySet.  Its value is None, or an int, a timedelta or a datetime: n  *)
(* is the int, or the microseconds of the time, as many as a double keeps. *)
(* Seconds are such a double; times 1000 it may fall short of the product: *)
(* timedelta(milliseconds=1001) comes to 1000.9999999999999.  `short' says *)
(* of a value whether it does.                                             *)
(***************************************************************************)

Millisecond == 1000
Second == 1000000

\* The classes that isinstance accepts, by the table of ExpiryType; anything
\* else is a ValueError.
ExpiryClasses(type) ==
    [SEC |-> {"int", "timedelta"}, MILLSEC |-> {"int", "timedelta"},
     UNIX_SEC |-> {"int", "datetime"}, UNIX_MILLSEC |-> {"int", "datetime"},
     KEEP_TTL |-> {}][type]

ExpiryRaises(expiry) ==
    IF expiry.value = None THEN expiry.type # "KEEP_TTL"
    ELSE expiry.value.class \notin ExpiryClasses(expiry.type)

\* int() drops what is behind the point.
Truncated(n, unit) == IF n >= 0 THEN n \div unit ELSE -((-n) \div unit)

\* A product that falls short is a little nearer to zero.
Product(value) ==
    IF ~value.short \/ value.n = 0 THEN value.n
    ELSE IF value.n > 0 THEN value.n - 1 ELSE value.n + 1

\* set_expiry_type_and_value: the keyword ...
ExpiryKeyword(type) ==
    [SEC |-> "EX", MILLSEC |-> "PX", UNIX_SEC |-> "EXAT",
     UNIX_MILLSEC |-> "PXAT", KEEP_TTL |-> "KEEPTTL"][type]

\* ... and the number, in whole seconds or milliseconds.
ExpiryNumber(expiry) ==
    IF expiry.value.class = "int" THEN expiry.value.n
    ELSE IF expiry.type \in {"SEC", "UNIX_SEC"} THEN Truncated(expiry.value.n, Second)
    ELSE Truncated(Product(expiry.value), Millisecond)

\* `str(value) if value else None', and get_cmd_args: a zero is dropped, and
\* the keyword of its type stays.
ExpiryArgs(expiry) ==
    <<ExpiryKeyword(expiry.type)>>
        \o IF expiry.value = None THEN <<>>
           ELSE IF ExpiryNumber(expiry) = 0 THEN <<>> ELSE <<Str(ExpiryNumber(expiry))>>

\* ConditionalSet, by the two tests of set
ConditionArgs(condition) ==
    (IF condition = "ONLY_IF_EXISTS" THEN <<"XX">> ELSE <<>>)
        \o (IF condition = "ONLY_IF_DOES_NOT_EXIST" THEN <<"NX">> ELSE <<>>)

\* ExpireOptions
ExpireOption(option) ==
    [HasNoExpiry |-> "NX", HasExistingExpiry |-> "XX",
     NewExpiryGreaterThanCurrent |-> "GT", NewExpiryLessThanCurrent |-> "LT"][option]

Optional(x) == IF x = None THEN <<>> ELSE <<x>>

OptionalStr(n) == IF n = None THEN <<>> ELSE <<Str(n)>>

OptionalOption(option) == IF option = None THEN <<>> ELSE <<ExpireOption(option)>>

SetArgs(c) ==
    <<c.key, c.value>>
        \o ConditionArgs(c.conditional_set)
        \o (IF c.return_old_value THEN <<"GET">> ELSE <<>>)
        \o (IF c.expiry = None THEN <<>> ELSE ExpiryArgs(c.expiry))

-----------------------------------------------------------------------------
(* The methods of the clients.  core.py, last group first. *)

CoreExpiry(c, list) ==
    CASE c.method = "expire"    -> Makes("Expire", <<c.key, Str(c.seconds)>> \o OptionalOption(c.option))
      [] c.method = "expireat"  -> Makes("ExpireAt", <<c.key, Str(c.unix_seconds)>> \o OptionalOption(c.option))
      [] c.method = "pexpire"   -> Makes("PExpire", <<c.key, Str(c.milliseconds)>> \o OptionalOption(c.option))
      [] c.method = "pexpireat" -> Makes("PExpireAt", <<c.key, Str(c.unix_milliseconds)>> \o OptionalOption(c.option))
      [] c.method = "ttl"       -> Makes("TTL", <<c.key>>)

CoreKeys(c, list) ==
    CASE c.method = "exists" -> Passes("Exists")
      [] c.method = "unlink" -> Passes("Unlink")
      [] OTHER               -> CoreExpiry(c, list)

CoreListEdits(c, list) ==
    CASE c.method = "ltrim" -> Makes("LTrim", <<c.key, Str(c.start), Str(c.end)>>)
      [] c.method = "lrem"  -> Makes("LRem", <<c.key, Str(c.count), c.element>>)
      [] c.method = "llen"  -> Makes("LLen", <<c.key>>)
      [] OTHER              -> CoreKeys(c, list)

CoreSets(c, list) ==
    CASE c.method = "sadd"     -> Makes("SAdd", <<c.key>> \o list)
      [] c.method = "srem"     -> Makes("SRem", <<c.key>> \o list)
      [] c.method = "smembers" -> Makes("SMembers", <<c.key>>)
      [] c.method = "scard"    -> Makes("SCard", <<c.key>>)
      [] OTHER                 -> CoreListEdits(c, list)

\* rpop has a count, and does not send it.
CorePops(c, list) ==
    CASE c.method = "rpop"       -> Makes("RPop", <<c.key>>)
      [] c.method = "rpop_count" -> Makes("RPop", <<c.key, Str(c.count)>>)
      [] OTHER                   -> CoreSets(c, list)

CoreLists(c, list) ==
    CASE c.method = "lpush"      -> Makes("LPush", <<c.key>> \o list)
      [] c.method = "lpop"       -> Makes("LPop", <<c.key>>)
      [] c.method = "lpop_count" -> Makes("LPop", <<c.key, Str(c.count)>>)
      [] c.method = "lrange"     -> Makes("LRange", <<c.key, Str(c.start), Str(c.end)>>)
      [] c.method = "rpush"      -> Makes("RPush", <<c.key>> \o list)
      [] OTHER                   -> CorePops(c, list)

CoreFields(c, list) ==
    CASE c.method = "hmget" -> Makes("HashMGet", <<c.key>> \o list)
      [] c.method = "hdel"  -> Makes("HashDel", <<c.key>> \o list)
      [] OTHER              -> CoreLists(c, list)

CoreHashes(c, list) ==
    CASE c.method = "hset"         -> Makes("HashSet", <<c.key>> \o Items(c.field_value_map))
      [] c.method = "hget"         -> Makes("HashGet", <<c.key, c.field>>)
      [] c.method = "hincrby"      -> Makes("HashIncrBy", <<c.key, c.field, Str(c.amount)>>)
      [] c.method = "hincrbyfloat" -> Makes("HashIncrByFloat", <<c.key, c.field, Str(c.amount)>>)
      [] c.method = "hexists"      -> Makes("HashExists", <<c.key, c.field>>)
      [] c.method = "hgetall"      -> Makes("HashGetAll", <<c.key>>)
      [] OTHER                     -> CoreFields(c, list)

CoreStrings(c, list) ==
    CASE c.method = "get"         -> Makes("GetString", <<c.key>>)
      [] c.method = "delete"      -> Passes("Del")
      [] c.method = "incr"        -> Makes("Incr", <<c.key>>)
      [] c.method = "incrby"      -> Makes("IncrBy", <<c.key, Str(c.amount)>>)
      [] c.method = "incrbyfloat" -> Makes("IncrByFloat", <<c.key, Str(c.amount)>>)
      [] c.method = "mset"        -> Makes("MSet", Items(c.key_value_map))
      [] c.method = "mget"        -> Passes("MGet")
      [] c.method = "decr"        -> Makes("Decr", <<c.key>>)
      [] c.method = "decrby"      -> Makes("DecrBy", <<c.key, Str(c.amount)>>)
      [] OTHER                    -> CoreHashes(c, list)

CoreSet(c, list) ==
    IF c.method = "set" THEN Makes("SetString", SetArgs(c)) ELSE CoreStrings(c, list)

(* The server commands of a standalone client ... *)

StandaloneServer(c, list) ==
    CASE c.method = "select"           -> Makes("Select", <<Str(c.index)>>)
      [] c.method = "config_resetstat" -> Makes("ConfigResetStat", <<>>)
      [] c.method = "config_rewrite"   -> Makes("ConfigRewrite", <<>>)
      [] c.method = "client_id"        -> Makes("ClientId", <<>>)
      [] c.method = "ping"             -> Makes("Ping", Optional(c.message))
      [] c.method = "config_get"       -> Passes("ConfigGet")
      [] c.method = "config_set"       -> Makes("ConfigSet", Items(c.parameters_map))
      [] c.method = "client_getname"   -> Makes("ClientGetName", <<>>)
      [] OTHER                         -> CoreSet(c, list)

StandaloneCommand(c, list) ==
    CASE c.method = "custom_command" -> Passes("CustomCommand")
      [] c.method = "info"           -> Makes("Info", IF c.sections = None THEN <<>> ELSE list)
      [] OTHER                       -> StandaloneServer(c, list)

(* ... and of a cluster client, which also take a route. *)

ClusterServer(c, list) ==
    CASE c.method = "config_resetstat" -> Makes("ConfigResetStat", <<>>)
      [] c.method = "config_rewrite"   -> Makes("ConfigRewrite", <<>>)
      [] c.method = "client_id"        -> Makes("ClientId", <<>>)
      [] c.method = "ping"             -> Makes("Ping", Optional(c.message))
      [] c.method = "config_get"       -> Passes("ConfigGet")
      [] c.method = "config_set"       -> Makes("ConfigSet", Items(c.parameters_map))
      [] c.method = "client_getname"   -> Makes("ClientGetName", <<>>)
      [] OTHER                         -> CoreSet(c, list)

ClusterCommand(c, list) ==
    CASE c.method = "custom_command" -> Passes("CustomCommand")
      [] c.method = "info"           -> Makes("Info", IF c.sections = None THEN <<>> ELSE list)
      [] OTHER                       -> ClusterServer(c, list)

-----------------------------------------------------------------------------
(* The methods of a transaction.  transaction.py, last group first. *)

TxSelect(c, list) == CASE c.method = "select" -> Makes("Select", <<Str(c.index)>>)

TxKeys(c, list) ==
    CASE c.method = "exists"    -> Passes("Exists")
      [] c.method = "unlink"    -> Passes("Unlink")
      [] c.method = "expire"    -> Makes("Expire", <<c.key, Str(c.seconds)>> \o OptionalOption(c.option))
      [] c.method = "expireat"  -> Makes("ExpireAt", <<c.key, Str(c.unix_seconds)>> \o OptionalOption(c.option))
      [] c.method = "pexpire"   -> Makes("PExpire", <<c.key, Str(c.milliseconds)>> \o OptionalOption(c.option))
      [] c.method = "pexpireat" -> Makes("PExpireAt", <<c.key, Str(c.unix_milliseconds)>> \o OptionalOption(c.option))
      [] c.method = "ttl"       -> Makes("TTL", <<c.key>>)
      [] OTHER                  -> TxSelect(c, list)

TxListEdits(c, list) ==
    CASE c.method = "ltrim" -> Makes("LTrim", <<c.key, Str(c.start), Str(c.end)>>)
      [] c.method = "lrem"  -> Makes("LRem", <<c.key, Str(c.count), c.element>>)
      [] c.method = "llen"  -> Makes("LLen", <<c.key>>)
      [] OTHER              -> TxKeys(c, list)

TxSets(c, list) ==
    CASE c.method = "sadd"     -> Makes("SAdd", <<c.key>> \o list)
      [] c.method = "srem"     -> Makes("SRem", <<c.key>> \o list)
      [] c.method = "smembers" -> Makes("SMembers", <<c.key>>)
      [] c.method = "scard"    -> Makes("SCard", <<c.key>>)
      [] OTHER                 -> TxListEdits(c, list)

TxLists(c, list) ==
    CASE c.method = "lpush"  -> Makes("LPush", <<c.key>> \o list)
      [] c.method = "lpop"   -> Makes("LPop", <<c.key>> \o OptionalStr(c.count))
      [] c.method = "lrange" -> Makes("LRange", <<c.key, Str(c.start), Str(c.end)>>)
      [] c.method = "rpush"  -> Makes("RPush", <<c.key>> \o list)
      [] c.method = "rpop"   -> Makes("RPop", <<c.key>> \o OptionalStr(c.count))
      [] OTHER               -> TxSets(c, list)

TxHashes(c, list) ==
    CASE c.method = "hset"           -> Makes("HashSet", <<c.key>> \o Items(c.field_value_map))
      [] c.method = "hget"           -> Makes("HashGet", <<c.key, c.field>>)
      [] c.method = "hincrby"        -> Makes("HashIncrBy", <<c.key, c.field, Str(c.amount)>>)
      [] c.method = "hincrbyfloat"   -> Makes("HashIncrByFloat", <<c.key, c.field, Str(c.amount)>>)
      [] c.method = "hexists"        -> Makes("HashExists", <<c.key, c.field>>)
      [] c.method = "client_getname" -> Makes("ClientGetName", <<>>)
      [] c.method = "hgetall"        -> Makes("HashGetAll", <<c.key>>)
      [] c.method = "hmget"          -> Makes("HashMGet", <<c.key>> \o list)
      [] c.method = "hdel"           -> Makes("HashDel", <<c.key>> \o list)
      [] OTHER                       -> TxLists(c, list)

TxStrings(c, list) ==
    CASE c.method = "incr"        -> Makes("Incr", <<c.key>>)
      [] c.method = "incrby"      -> Makes("IncrBy", <<c.key, Str(c.amount)>>)
      [] c.method = "incrbyfloat" -> Makes("IncrByFloat", <<c.key, Str(c.amount)>>)
      [] c.method = "ping"        -> Makes("Ping", Optional(c.message))
      [] c.method = "decr"        -> Makes("Decr", <<c.key>>)
      [] c.method = "decrby"      -> Makes("DecrBy", <<c.key, Str(c.amount)>>)
      [] OTHER                    -> TxHashes(c, list)

TxServer(c, list) ==
    CASE c.method = "custom_command"   -> Passes("CustomCommand")
      [] c.method = "info"             -> Makes("Info", IF c.sections = None THEN <<>> ELSE list)
      [] c.method = "delete"           -> Passes("Del")
      [] c.method = "config_get"       -> Passes("ConfigGet")
      [] c.method = "config_set"       -> Makes("ConfigSet", Items(c.parameters_map))
      [] c.method = "config_resetstat" -> Makes("ConfigResetStat", <<>>)
      [] c.method = "mset"             -> Makes("MSet", Items(c.key_value_map))
      [] c.method = "mget"             -> Passes("MGet")
      [] c.method = "config_rewrite"   -> Makes("ConfigRewrite", <<>>)
      [] c.method = "client_id"        -> Makes("ClientId", <<>>)
      [] OTHER                         -> TxStrings(c, list)

(* Mutant: a list of fields is kept as the caller's list behind the key. *)
TransactionCommandSharesFields(c, list) ==
    CASE c.method = "get"   -> Makes("GetString", <<c.key>>)
      [] c.method = "set"   -> Makes("SetString", SetArgs(c))
      [] c.method = "hmget" -> [type |-> "HashMGet", args |-> <<c.key>>, shared |-> TRUE]
      [] OTHER              -> TxServer(c, list)

TransactionCommand(c, list) ==
    CASE c.method = "get" -> Makes("GetString", <<c.key>>)
      [] c.method = "set" -> Makes("SetString", SetArgs(c))
      [] OTHER            -> TxServer(c, list)

-----------------------------------------------------------------------------
(* The core's side *)

(***************************************************************************)
(* get_command, for the request types the Python client sends: the words   *)
(* of the command, in small letters.  CustomCommand has none of its own.   *)
(***************************************************************************)
GetCommand(type) ==
    [CustomCommand |-> <<>>,
     GetString |-> <<"get">>, SetString |-> <<"set">>, Ping |-> <<"ping">>,
     Info |-> <<"info">>, Del |-> <<"del">>, Select |-> <<"select">>,
     ConfigGet |-> <<"config", "get">>, ConfigSet |-> <<"config", "set">>,
     ConfigResetStat |-> <<"config", "resetstat">>,
     ConfigRewrite |-> <<"config", "rewrite">>,
     ClientGetName |-> <<"client", "getname">>, ClientId |-> <<"client", "id">>,
     Expire |-> <<"expire">>, HashSet |-> <<"hset">>, HashGet |-> <<"hget">>,
     HashDel |-> <<"hdel">>, HashExists |-> <<"hexists">>,
     MSet |-> <<"mset">>, MGet |-> <<"mget">>, Incr |-> <<"incr">>,
     IncrBy |-> <<"incrby">>, IncrByFloat |-> <<"incrbyfloat">>,
     Decr |-> <<"decr">>, DecrBy |-> <<"decrby">>,
     HashGetAll |-> <<"hgetall">>, HashMGet |-> <<"hmget">>,
     HashIncrBy |-> <<"hincrby">>, HashIncrByFloat |-> <<"hincrbyfloat">>,
     LPush |-> <<"lpush">>, LPop |-> <<"lpop">>, RPush |-> <<"rpush">>,
     RPop |-> <<"rpop">>, LLen |-> <<"llen">>, LRem |-> <<"lrem">>,
     LRange |-> <<"lrange">>, LTrim |-> <<"ltrim">>, SAdd |-> <<"sadd">>,
     SRem |-> <<"srem">>, SMembers |-> <<"smembers">>, SCard |-> <<"scard">>,
     PExpireAt |-> <<"pexpireat">>, PExpire |-> <<"pexpire">>,
     ExpireAt |-> <<"expireat">>, Exists |-> <<"exists">>,
     Unlink |-> <<"unlink">>, TTL |-> <<"ttl">>][type]

\* get_redis_command: the command's words, then its arguments
GetRedisCommand(command) == GetCommand(command.type) \o command.args

=============================================================================
