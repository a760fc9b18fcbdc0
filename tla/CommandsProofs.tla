--------------------------- MODULE CommandsProofs ---------------------------
(***************************************************************************)
(* Lemmas about the tables of Commands: what each method of the Python     *)
(* client and of its transactions puts in a request is what the documented *)
(* command of that name takes, for any texts, numbers, lists and maps.     *)
(***************************************************************************)
EXTENDS Requests, TLAPS

-----------------------------------------------------------------------------
(* Sequences whose elements have no type of their own *)

IsSeq(s) == s \in Seq({s[i] : i \in DOMAIN s})

(* The empty sequence is one, and one stays one when an element is appended. *)
LEMMA EmptyIsSeq == IsSeq(<<>>) /\ Len(<<>>) = 0
BY DEF IsSeq

LEMMA AppendIsSeq ==
  ASSUME NEW s, IsSeq(s), NEW e
  PROVE  /\ Len(s) \in Nat /\ DOMAIN s = 1..Len(s)
         /\ IsSeq(Append(s, e))
         /\ Len(Append(s, e)) = Len(s) + 1 /\ DOMAIN Append(s, e) = 1..(Len(s) + 1)
         /\ \A i \in 1..Len(s) : Append(s, e)[i] = s[i]
         /\ Append(s, e)[Len(s) + 1] = e
<1> DEFINE X == {s[i] : i \in DOMAIN s} \union {e}
           a == Append(s, e)
<1>1. s \in Seq(X) /\ e \in X
  BY DEF IsSeq
<1>2. a \in Seq(X)
  BY <1>1
<1>3. Len(s) \in Nat /\ DOMAIN s = 1..Len(s) /\ Len(a) = Len(s) + 1 /\ DOMAIN a = 1..(Len(s) + 1)
  BY <1>1
<1>4. (\A i \in 1..Len(s) : a[i] = s[i]) /\ a[Len(s) + 1] = e
  BY <1>1
<1>5. a \in Seq({a[i] : i \in DOMAIN a})
  <2> HIDE DEF a
  <2> QED BY SMTT(30), <1>2, <1>3
<1> QED BY SMTT(30), <1>3, <1>4, <1>5 DEF IsSeq

-----------------------------------------------------------------------------
(* Short sequences *)

LEMMA SameSeq ==
  ASSUME NEW S, NEW s \in Seq(S), NEW t \in Seq(S), Len(s) = Len(t), \A i \in 1..Len(s) : s[i] = t[i]
  PROVE  s = t
OBVIOUS

LEMMA JoinOne ==
  ASSUME NEW S, NEW s \in Seq(S), NEW x \in S
  PROVE  s \o <<x>> = Append(s, x)
OBVIOUS

(* One element behind another, and behind two others. *)
LEMMA Pair ==
  ASSUME NEW a, NEW b
  PROVE  <<a>> \o <<b>> = <<a, b>>
<1> DEFINE S == {a, b}
           s == <<a>>
           t == <<a, b>>
           u == Append(s, b)
<1>1. s \in Seq(S) /\ Len(s) = 1 /\ s[1] = a /\ b \in S
  OBVIOUS
<1>2. t \in Seq(S) /\ Len(t) = 2 /\ t[1] = a /\ t[2] = b
  OBVIOUS
<1>3. s \o <<b>> = u
  <2> HIDE DEF s, S
  <2> QED BY <1>1, JoinOne
<1> HIDE DEF s, t, S
<1>4. u \in Seq(S)
  BY <1>1
<1>5. Len(u) = Len(s) + 1 /\ (\A i \in 1..Len(s) : u[i] = s[i]) /\ u[Len(s) + 1] = b
  <2>1. s \in Seq(S) /\ b \in S
    BY <1>1
  <2> QED BY <2>1
<1> HIDE DEF u
<1>6. Len(u) = Len(t) /\ \A i \in 1..Len(u) : u[i] = t[i]
  BY <1>1, <1>2, <1>5
<1>7. u = t
  BY SMTT(30), <1>2, <1>4, <1>6, SameSeq
<1> QED BY <1>3, <1>7, Zenon DEF s, t

LEMMA Triple ==
  ASSUME NEW a, NEW b, NEW c
  PROVE  <<a, b>> \o <<c>> = <<a, b, c>>
<1> DEFINE S == {a, b, c}
           s == <<a, b>>
           t == <<a, b, c>>
           u == Append(s, c)
<1>1. s \in Seq(S) /\ Len(s) = 2 /\ s[1] = a /\ s[2] = b /\ c \in S
  OBVIOUS
<1>2. t \in Seq(S) /\ Len(t) = 3 /\ t[1] = a /\ t[2] = b /\ t[3] = c
  OBVIOUS
<1>3. s \o <<c>> = u
  <2> HIDE DEF s, S
  <2> QED BY <1>1, JoinOne
<1> HIDE DEF s, t, S
<1>4. u \in Seq(S)
  BY <1>1
<1>5. Len(u) = Len(s) + 1 /\ (\A i \in 1..Len(s) : u[i] = s[i]) /\ u[Len(s) + 1] = c
  <2>1. s \in Seq(S) /\ c \in S
    BY <1>1
  <2> QED BY <2>1
<1> HIDE DEF u
<1>6. Len(u) = Len(t) /\ \A i \in 1..Len(u) : u[i] = t[i]
  BY <1>1, <1>2, <1>5
<1>7. u = t
  BY SMTT(30), <1>2, <1>4, <1>6, SameSeq
<1> QED BY <1>3, <1>7, Zenon DEF s, t

(* The equation by which Joined defines its local function. *)
Joins(f, s) == f = [i \in 1..Len(s) |-> IF i = 1 THEN s[1] ELSE f[i - 1] \o s[i]]

(* Joined is the last value of a function that satisfies the equation, if
   there is one. *)
LEMMA JoinUnfolds ==
  ASSUME NEW s, Len(s) # 0, NEW g, Joins(g, s)
  PROVE  \E f : Joins(f, s) /\ Joined(s) = f[Len(s)]
<1> DEFINE upTo[i \in 1..Len(s)] == IF i = 1 THEN s[1] ELSE upTo[i - 1] \o s[i]
<1>1. Joined(s) = upTo[Len(s)]
  <2>1. s # <<>>
    OBVIOUS
  <2> QED BY <2>1, Zenon DEF Joined
<1>2. Joins(upTo, s)
  BY Zenon DEF Joins
<1> HIDE DEF upTo
<1> QED BY <1>1, <1>2

(* For a few sequences there is one, and Joined concatenates them. *)
LEMMA JoinedNone == Joined(<<>>) = <<>>
BY DEF Joined

LEMMA JoinedOne ==
  ASSUME NEW s, Len(s) = 1
  PROVE  Joined(s) = s[1]
<1> DEFINE g == [i \in 1..1 |-> s[1]]
<1>2. g[1] = s[1]
  OBVIOUS
<1>3. 1 # 0 /\ 1 \in 1..1
  OBVIOUS
<1>4. Joins(g, s)
  <2>1. ASSUME NEW i \in 1..1 PROVE g[i] = IF i = 1 THEN s[1] ELSE g[i - 1] \o s[i]
    <3> HIDE DEF g
    <3>1. CASE i = 1
      BY <1>2, <1>3, <3>1, Zenon
    <3> QED BY <3>1
  <2> QED BY <2>1, Zenon DEF Joins
<1> HIDE DEF g
<1>5. PICK f : Joins(f, s) /\ Joined(s) = f[Len(s)]
  <2>1. Len(s) # 0
    OBVIOUS
  <2> QED BY <1>4, <2>1, JoinUnfolds, Zenon
<1>6. \A i \in 1..1 : f[i] = IF i = 1 THEN s[1] ELSE f[i - 1] \o s[i]
  BY <1>5, Zenon DEF Joins
<1>7. f[1] = s[1]
  BY SMTT(30), <1>3, <1>6
<1> QED BY <1>5, <1>7, Zenon

LEMMA JoinedTwo ==
  ASSUME NEW s, Len(s) = 2
  PROVE  Joined(s) = s[1] \o s[2]
<1> DEFINE v2 == s[1] \o s[2]
           g == [i \in 1..2 |-> IF i = 1 THEN s[1] ELSE v2]
<1>1. v2 = s[1] \o s[2]
  OBVIOUS
<1> HIDE DEF v2
<1>2. g[1] = s[1] /\ g[2] = v2
  OBVIOUS
<1>3. 2 # 1 /\ 2 - 1 = 1 /\ 2 \in 1..2
  OBVIOUS
<1>4. Joins(g, s)
  <2>1. ASSUME NEW i \in 1..2 PROVE g[i] = IF i = 1 THEN s[1] ELSE g[i - 1] \o s[i]
    <3> HIDE DEF g
    <3>1. CASE i = 1
      BY <1>1, <1>2, <1>3, <3>1, Zenon
    <3>2. CASE i = 2
      BY <1>1, <1>2, <1>3, <3>2, Zenon
    <3> QED BY <3>1, <3>2
  <2> QED BY <2>1, Zenon DEF Joins
<1> HIDE DEF g
<1>5. PICK f : Joins(f, s) /\ Joined(s) = f[Len(s)]
  <2>1. Len(s) # 0
    OBVIOUS
  <2> QED BY <1>4, <2>1, JoinUnfolds, Zenon
<1>6. \A i \in 1..2 : f[i] = IF i = 1 THEN s[1] ELSE f[i - 1] \o s[i]
  BY <1>5, Zenon DEF Joins
<1>7. f[1] = s[1]
  BY <1>1, <1>3, <1>6
<1>8. f[2] = v2
  BY <1>1, <1>3, <1>6, <1>7, Zenon
<1> QED BY <1>5, <1>8, Zenon DEF v2

LEMMA JoinedThree ==
  ASSUME NEW s, Len(s) = 3
  PROVE  Joined(s) = (s[1] \o s[2]) \o s[3]
<1> DEFINE v2 == s[1] \o s[2]
           v3 == v2 \o s[3]
           g == [i \in 1..3 |-> IF i = 1 THEN s[1] ELSE IF i = 2 THEN v2 ELSE v3]
<1>1. v2 = s[1] \o s[2] /\ v3 = v2 \o s[3]
  OBVIOUS
<1> HIDE DEF v2, v3
<1>2. g[1] = s[1] /\ g[2] = v2 /\ g[3] = v3
  OBVIOUS
<1>3. 2 # 1 /\ 2 - 1 = 1 /\ 2 \in 1..3 /\ 3 # 1 /\ 3 - 1 = 2 /\ 3 \in 1..3
  OBVIOUS
<1>4. Joins(g, s)
  <2>1. ASSUME NEW i \in 1..3 PROVE g[i] = IF i = 1 THEN s[1] ELSE g[i - 1] \o s[i]
    <3> HIDE DEF g
    <3>1. CASE i = 1
      BY <1>1, <1>2, <1>3, <3>1, Zenon
    <3>2. CASE i = 2
      BY <1>1, <1>2, <1>3, <3>2, Zenon
    <3>3. CASE i = 3
      BY <1>1, <1>2, <1>3, <3>3, Zenon
    <3> QED BY <3>1, <3>2, <3>3
  <2> QED BY <2>1, Zenon DEF Joins
<1> HIDE DEF g
<1>5. PICK f : Joins(f, s) /\ Joined(s) = f[Len(s)]
  <2>1. Len(s) # 0
    OBVIOUS
  <2> QED BY <1>4, <2>1, JoinUnfolds, Zenon
<1>6. \A i \in 1..3 : f[i] = IF i = 1 THEN s[1] ELSE f[i - 1] \o s[i]
  BY <1>5, Zenon DEF Joins
<1>7. f[1] = s[1]
  BY <1>1, <1>3, <1>6
<1>8. f[2] = v2
  BY <1>1, <1>3, <1>6, <1>7, Zenon
<1>9. f[3] = v3
  BY <1>1, <1>3, <1>6, <1>8, Zenon
<1> QED BY <1>5, <1>9, Zenon DEF v2, v3

LEMMA JoinedFive ==
  ASSUME NEW s, Len(s) = 5
  PROVE  Joined(s) = (((s[1] \o s[2]) \o s[3]) \o s[4]) \o s[5]
<1> DEFINE v2 == s[1] \o s[2]
           v3 == v2 \o s[3]
           v4 == v3 \o s[4]
           v5 == v4 \o s[5]
           g == [i \in 1..5 |-> IF i = 1 THEN s[1] ELSE IF i = 2 THEN v2 ELSE IF i = 3 THEN v3 ELSE IF i = 4 THEN v4 ELSE v5]
<1>1. v2 = s[1] \o s[2] /\ v3 = v2 \o s[3] /\ v4 = v3 \o s[4] /\ v5 = v4 \o s[5]
  OBVIOUS
<1> HIDE DEF v2, v3, v4, v5
<1>2. g[1] = s[1] /\ g[2] = v2 /\ g[3] = v3 /\ g[4] = v4 /\ g[5] = v5
  OBVIOUS
<1>3. 2 # 1 /\ 2 - 1 = 1 /\ 2 \in 1..5 /\ 3 # 1 /\ 3 - 1 = 2 /\ 3 \in 1..5 /\ 4 # 1 /\ 4 - 1 = 3 /\ 4 \in 1..5 /\ 5 # 1 /\ 5 - 1 = 4 /\ 5 \in 1..5
  OBVIOUS
<1>4. Joins(g, s)
  <2>1. ASSUME NEW i \in 1..5 PROVE g[i] = IF i = 1 THEN s[1] ELSE g[i - 1] \o s[i]
    <3> HIDE DEF g
    <3>1. CASE i = 1
      BY <1>1, <1>2, <1>3, <3>1, Zenon
    <3>2. CASE i = 2
      BY <1>1, <1>2, <1>3, <3>2, Zenon
    <3>3. CASE i = 3
      BY <1>1, <1>2, <1>3, <3>3, Zenon
    <3>4. CASE i = 4
      BY <1>1, <1>2, <1>3, <3>4, Zenon
    <3>5. CASE i = 5
      BY <1>1, <1>2, <1>3, <3>5, Zenon
    <3> QED BY SMTT(30), <3>1, <3>2, <3>3, <3>4, <3>5
  <2> QED BY <2>1, Zenon DEF Joins
<1> HIDE DEF g
<1>5. PICK f : Joins(f, s) /\ Joined(s) = f[Len(s)]
  <2>1. Len(s) # 0
    OBVIOUS
  <2> QED BY <1>4, <2>1, JoinUnfolds, Zenon
<1>6. \A i \in 1..5 : f[i] = IF i = 1 THEN s[1] ELSE f[i - 1] \o s[i]
  BY <1>5, Zenon DEF Joins
<1>7. f[1] = s[1]
  BY <1>1, <1>3, <1>6
<1>8. f[2] = v2
  BY <1>1, <1>3, <1>6, <1>7, Zenon
<1>9. f[3] = v3
  BY <1>1, <1>3, <1>6, <1>8, Zenon
<1>10. f[4] = v4
  BY <1>1, <1>3, <1>6, <1>9, Zenon
<1>11. f[5] = v5
  BY <1>1, <1>3, <1>6, <1>10, Zenon
<1> QED BY <1>5, <1>11, Zenon DEF v2, v3, v4, v5

-----------------------------------------------------------------------------
(* What the methods document *)

(* The words of one parameter, by its kind. *)
LEMMA TextWords ==
  ASSUME NEW c, NEW l, NEW p \in {"key", "value", "field", "element", "message"}, c[p] # None
  PROVE  Words(c, p, l) = <<c[p]>>
BY DEF Words

LEMMA NumberWords ==
  ASSUME NEW c, NEW l,
         NEW p \in {"index", "amount", "start", "end", "count", "seconds", "unix_seconds",
                    "milliseconds", "unix_milliseconds"}, c[p] # None
  PROVE  Words(c, p, l) = <<Str(c[p])>>
BY DEF Words, Str

LEMMA ListWords ==
  ASSUME NEW c, NEW l,
         NEW p \in {"keys", "fields", "elements", "members", "sections", "parameters",
                    "command_args"}, c[p] # None
  PROVE  Words(c, p, l) = l
BY DEF Words

LEMMA MapWords ==
  ASSUME NEW c, NEW l, NEW p \in {"key_value_map", "field_value_map", "parameters_map"}, c[p] # None
  PROVE  Words(c, p, l) = Items(c[p])
BY DEF Words, Items

LEMMA NoWords ==
  ASSUME NEW c, NEW l, NEW p, c[p] = None
  PROVE  Words(c, p, l) = <<>>
BY DEF Words

LEMMA OptionWords ==
  ASSUME NEW c, NEW l
  PROVE  Words(c, "option", l) = OptionalOption(c.option)
BY DEF Words, OptionalOption, ExpireOption

(* A few parameters, one after the other. *)
LEMMA NoParameters ==
  ASSUME NEW c, NEW l
  PROVE  Parameters(c, l, <<>>) = <<>>
<1>1. [i \in DOMAIN <<>> |-> Words(c, <<>>[i], l)] = <<>>
  OBVIOUS
<1> QED BY <1>1, JoinedNone, Zenon DEF Parameters

LEMMA OneParameter ==
  ASSUME NEW c, NEW l, NEW p
  PROVE  Parameters(c, l, <<p>>)
           = Words(c, p, l)
<1> DEFINE w == [i \in DOMAIN <<p>> |-> Words(c, <<p>>[i], l)]
<1>1. Len(w) = 1 /\ w[1] = Words(c, p, l)
  OBVIOUS
<1>2. Parameters(c, l, <<p>>) = Joined(w)
  BY Zenon DEF Parameters
<1> HIDE DEF w
<1>3. Joined(w) = w[1]
  BY <1>1, JoinedOne, Zenon
<1> QED BY <1>1, <1>2, <1>3, Zenon

LEMMA TwoParameters ==
  ASSUME NEW c, NEW l, NEW p, NEW q
  PROVE  Parameters(c, l, <<p, q>>)
           = Words(c, p, l) \o Words(c, q, l)
<1> DEFINE w == [i \in DOMAIN <<p, q>> |-> Words(c, <<p, q>>[i], l)]
<1>1. Len(w) = 2 /\ w[1] = Words(c, p, l) /\ w[2] = Words(c, q, l)
  OBVIOUS
<1>2. Parameters(c, l, <<p, q>>) = Joined(w)
  BY Zenon DEF Parameters
<1> HIDE DEF w
<1>3. Joined(w) = w[1] \o w[2]
  BY <1>1, JoinedTwo, Zenon
<1> QED BY <1>1, <1>2, <1>3, Zenon

LEMMA ThreeParameters ==
  ASSUME NEW c, NEW l, NEW order, DOMAIN order = 1..3
  PROVE  Parameters(c, l, order) = (Words(c, order[1], l) \o Words(c, order[2], l)) \o Words(c, order[3], l)
<1> DEFINE w == [i \in DOMAIN order |-> Words(c, order[i], l)]
<1>1. Len(w) = 3 /\ w[1] = Words(c, order[1], l) /\ w[2] = Words(c, order[2], l) /\ w[3] = Words(c, order[3], l)
  OBVIOUS
<1>2. Parameters(c, l, order) = Joined(w)
  BY Zenon DEF Parameters
<1> HIDE DEF w
<1>3. Joined(w) = (w[1] \o w[2]) \o w[3]
  BY <1>1, JoinedThree, Zenon
<1> QED BY <1>1, <1>2, <1>3, Zenon

(* A parameter that is not optional has a value. *)
LEMMA ValueGiven ==
  ASSUME NEW c, IsCall(c), NEW p \in Range(Signature(c.method)), p \notin MayBeNone(c.method)
  PROVE  c[p] # None
BY Zenon DEF IsCall

LEMMA TupleRange ==
  ASSUME NEW a, NEW b, NEW c
  PROVE  /\ a \in Range(<<a>>)
         /\ a \in Range(<<a, b>>) /\ b \in Range(<<a, b>>)
         /\ a \in Range(<<a, b, c>>) /\ b \in Range(<<a, b, c>>) /\ c \in Range(<<a, b, c>>)
BY DEF Range

(* The request is the documented one of the call, the caller's list aside. *)
Fits(c, request, l) ==
  IF KeepsList(c)
  THEN request.shared = TRUE /\ request.args = <<>> /\ GetCommand(request.type) = Name(c.method)
  ELSE request.shared = FALSE /\ GetCommand(request.type) \o request.args \in Documented(c, l)

LEMMA MakesFits ==
  ASSUME NEW c, ~KeepsList(c), c.method # "set", NEW l, NEW type, GetCommand(type) = Name(c.method),
         NEW args, args = Parameters(c, l, Signature(c.method))
  PROVE  Fits(c, Makes(type, args), l)
<1> DEFINE m == Makes(type, args)
<1>1. m.shared = FALSE /\ m.args = args /\ m.type = type
  BY DEF Makes
<1>2. GetCommand(type) \o args \in Documented(c, l)
  BY Zenon DEF Documented
<1> HIDE DEF m
<1>3. Fits(c, m, l)
  BY <1>1, <1>2, Zenon DEF Fits
<1> QED BY <1>3 DEF m

(* Methods without parameters. *)
LEMMA BareFits ==
  ASSUME NEW c, IsCall(c), NEW l
  PROVE  /\ c.method = "config_resetstat" => Fits(c, Makes("ConfigResetStat", <<>>), l)
         /\ c.method = "config_rewrite"   => Fits(c, Makes("ConfigRewrite", <<>>), l)
         /\ c.method = "client_id"        => Fits(c, Makes("ClientId", <<>>), l)
         /\ c.method = "client_getname"   => Fits(c, Makes("ClientGetName", <<>>), l)
<1>1. ASSUME NEW type, GetCommand(type) = Name(c.method),
             c.method \in {"config_resetstat", "config_rewrite", "client_id", "client_getname"}
      PROVE  Fits(c, Makes(type, <<>>), l)
  <2>1. Signature(c.method) = <<>> /\ ~KeepsList(c) /\ c.method # "set"
    BY <1>1 DEF Signature, KeepsList
  <2>9. <<>> = Parameters(c, l, Signature(c.method))
    BY <2>1, NoParameters, Zenon
  <2> QED BY <1>1, <2>1, <2>9, MakesFits, Zenon
<1>2. /\ GetCommand("ConfigResetStat") = Name("config_resetstat")
      /\ GetCommand("ConfigRewrite") = Name("config_rewrite")
      /\ GetCommand("ClientId") = Name("client_id")
      /\ GetCommand("ClientGetName") = Name("client_getname")
  BY DEF GetCommand, Name
<1> QED BY <1>1, <1>2

(* Methods of a key alone. *)
LEMMA KeyFits ==
  ASSUME NEW c, IsCall(c), NEW l
  PROVE  /\ c.method = "get"      => Fits(c, Makes("GetString", <<c.key>>), l)
         /\ c.method = "incr"     => Fits(c, Makes("Incr", <<c.key>>), l)
         /\ c.method = "decr"     => Fits(c, Makes("Decr", <<c.key>>), l)
         /\ c.method = "hgetall"  => Fits(c, Makes("HashGetAll", <<c.key>>), l)
         /\ c.method = "smembers" => Fits(c, Makes("SMembers", <<c.key>>), l)
         /\ c.method = "scard"    => Fits(c, Makes("SCard", <<c.key>>), l)
         /\ c.method = "llen"     => Fits(c, Makes("LLen", <<c.key>>), l)
         /\ c.method = "ttl"      => Fits(c, Makes("TTL", <<c.key>>), l)
<1>1. ASSUME NEW type, GetCommand(type) = Name(c.method),
             c.method \in {"get", "incr", "decr", "hgetall", "smembers", "scard", "llen", "ttl"}
      PROVE  Fits(c, Makes(type, <<c.key>>), l)
  <2>1. Signature(c.method) = <<"key">> /\ ~KeepsList(c) /\ c.method # "set"
    BY <1>1, Zenon DEF Signature, KeepsList
  <2>2. "key" \in Range(Signature(c.method))
    BY <2>1, TupleRange, Zenon
  <2>3. "key" \notin MayBeNone(c.method)
    BY <1>1 DEF MayBeNone
  <2>4. c["key"] # None
    BY <2>2, <2>3, ValueGiven, Zenon
  <2>5. Words(c, "key", l) = <<c.key>>
    BY <2>4, TextWords, Zenon
  <2>9. <<c.key>> = Parameters(c, l, Signature(c.method))
    BY <2>1, <2>5, OneParameter, Zenon
  <2> QED BY <1>1, <2>1, <2>9, MakesFits, Zenon
<1>2. /\ GetCommand("GetString") = Name("get")
      /\ GetCommand("Incr") = Name("incr")
      /\ GetCommand("Decr") = Name("decr")
      /\ GetCommand("HashGetAll") = Name("hgetall")
      /\ GetCommand("SMembers") = Name("smembers")
      /\ GetCommand("SCard") = Name("scard")
      /\ GetCommand("LLen") = Name("llen")
      /\ GetCommand("TTL") = Name("ttl")
  BY DEF GetCommand, Name
<1> QED BY <1>1, <1>2

(* The number of a database. *)
LEMMA SelectFits ==
  ASSUME NEW c, IsCall(c), NEW l
  PROVE  c.method = "select" => Fits(c, Makes("Select", <<Str(c.index)>>), l)
<1>1. ASSUME NEW type, GetCommand(type) = Name(c.method),
             c.method \in {"select"}
      PROVE  Fits(c, Makes(type, <<Str(c.index)>>), l)
  <2>1. Signature(c.method) = <<"index">> /\ ~KeepsList(c) /\ c.method # "set"
    BY <1>1, Zenon DEF Signature, KeepsList
  <2>2. "index" \in Range(Signature(c.method))
    BY <2>1, TupleRange, Zenon
  <2>3. "index" \notin MayBeNone(c.method)
    BY <1>1 DEF MayBeNone
  <2>4. c["index"] # None
    BY <2>2, <2>3, ValueGiven, Zenon
  <2>5. Words(c, "index", l) = <<Str(c.index)>>
    BY <2>4, NumberWords, Zenon
  <2>9. <<Str(c.index)>> = Parameters(c, l, Signature(c.method))
    BY <2>1, <2>5, OneParameter, Zenon
  <2> QED BY <1>1, <2>1, <2>9, MakesFits, ZenonT(60)
<1>2. GetCommand("Select") = Name("select")
  BY DEF GetCommand, Name
<1> QED BY SMTT(30), <1>1, <1>2

(* A key and an amount. *)
LEMMA AmountFits ==
  ASSUME NEW c, IsCall(c), NEW l
  PROVE  /\ c.method = "incrby"      => Fits(c, Makes("IncrBy", <<c.key, Str(c.amount)>>), l)
         /\ c.method = "incrbyfloat" => Fits(c, Makes("IncrByFloat", <<c.key, Str(c.amount)>>), l)
         /\ c.method = "decrby"      => Fits(c, Makes("DecrBy", <<c.key, Str(c.amount)>>), l)
<1>1. ASSUME NEW type, GetCommand(type) = Name(c.method),
             c.method \in {"incrby", "incrbyfloat", "decrby"}
      PROVE  Fits(c, Makes(type, <<c.key, Str(c.amount)>>), l)
  <2>1. Signature(c.method) = <<"key", "amount">> /\ ~KeepsList(c) /\ c.method # "set"
    BY <1>1 DEF Signature, KeepsList
  <2>2. "key" \in Range(Signature(c.method)) /\ "amount" \in Range(Signature(c.method))
    BY <2>1, TupleRange, Zenon
  <2>3. "key" \notin MayBeNone(c.method) /\ "amount" \notin MayBeNone(c.method)
    BY <1>1 DEF MayBeNone
  <2>4. c["key"] # None /\ c["amount"] # None
    BY <2>2, <2>3, ValueGiven, Zenon
  <2>5. Words(c, "key", l) = <<c.key>> /\ Words(c, "amount", l) = <<Str(c.amount)>>
    BY <2>4, NumberWords, TextWords, Zenon
  <2>6. Parameters(c, l, Signature(c.method)) = <<c.key>> \o <<Str(c.amount)>>
    BY <2>1, <2>5, TwoParameters, Zenon
  <2>9. <<c.key, Str(c.amount)>> = Parameters(c, l, Signature(c.method))
    BY <2>6, Pair, Zenon
  <2> QED BY <1>1, <2>1, <2>9, MakesFits, Zenon
<1>2. /\ GetCommand("IncrBy") = Name("incrby")
      /\ GetCommand("IncrByFloat") = Name("incrbyfloat")
      /\ GetCommand("DecrBy") = Name("decrby")
  BY DEF GetCommand, Name
<1> QED BY <1>1, <1>2

(* A field of a hash. *)
LEMMA FieldFits ==
  ASSUME NEW c, IsCall(c), NEW l
  PROVE  /\ c.method = "hget"    => Fits(c, Makes("HashGet", <<c.key, c.field>>), l)
         /\ c.method = "hexists" => Fits(c, Makes("HashExists", <<c.key, c.field>>), l)
<1>1. ASSUME NEW type, GetCommand(type) = Name(c.method),
             c.method \in {"hget", "hexists"}
      PROVE  Fits(c, Makes(type, <<c.key, c.field>>), l)
  <2>1. Signature(c.method) = <<"key", "field">> /\ ~KeepsList(c) /\ c.method # "set"
    BY <1>1 DEF Signature, KeepsList
  <2>2. "key" \in Range(Signature(c.method)) /\ "field" \in Range(Signature(c.method))
    BY <2>1, TupleRange, Zenon
  <2>3. "key" \notin MayBeNone(c.method) /\ "field" \notin MayBeNone(c.method)
    BY <1>1 DEF MayBeNone
  <2>4. c["key"] # None /\ c["field"] # None
    BY <2>2, <2>3, ValueGiven, Zenon
  <2>5. Words(c, "key", l) = <<c.key>> /\ Words(c, "field", l) = <<c.field>>
    BY <2>4, TextWords, Zenon
  <2>6. Parameters(c, l, Signature(c.method)) = <<c.key>> \o <<c.field>>
    BY <2>1, <2>5, TwoParameters, Zenon
  <2>9. <<c.key, c.field>> = Parameters(c, l, Signature(c.method))
    BY <2>6, Pair, Zenon
  <2> QED BY <1>1, <2>1, <2>9, MakesFits, Zenon
<1>2. /\ GetCommand("HashGet") = Name("hget")
      /\ GetCommand("HashExists") = Name("hexists")
  BY DEF GetCommand, Name
<1> QED BY <1>1, <1>2

(* A key and a count. *)
LEMMA CountFits ==
  ASSUME NEW c, IsCall(c), NEW l
  PROVE  /\ c.method = "lpop_count" => Fits(c, Makes("LPop", <<c.key, Str(c.count)>>), l)
         /\ c.method = "rpop_count" => Fits(c, Makes("RPop", <<c.key, Str(c.count)>>), l)
<1>1. ASSUME NEW type, GetCommand(type) = Name(c.method),
             c.method \in {"lpop_count", "rpop_count"}
      PROVE  Fits(c, Makes(type, <<c.key, Str(c.count)>>), l)
  <2>1. Signature(c.method) = <<"key", "count">> /\ ~KeepsList(c) /\ c.method # "set"
    BY <1>1, Zenon DEF Signature, KeepsList
  <2>2. "key" \in Range(Signature(c.method)) /\ "count" \in Range(Signature(c.method))
    BY <2>1, TupleRange, Zenon
  <2>3. "key" \notin MayBeNone(c.method) /\ "count" \notin MayBeNone(c.method)
    BY <1>1 DEF MayBeNone
  <2>4. c["key"] # None /\ c["count"] # None
    BY <2>2, <2>3, ValueGiven, Zenon
  <2>5. Words(c, "key", l) = <<c.key>> /\ Words(c, "count", l) = <<Str(c.count)>>
    BY <2>4, NumberWords, TextWords, Zenon
  <2>6. Parameters(c, l, Signature(c.method)) = <<c.key>> \o <<Str(c.count)>>
    BY <2>1, <2>5, TwoParameters, Zenon
  <2>9. <<c.key, Str(c.count)>> = Parameters(c, l, Signature(c.method))
    BY <2>6, Pair, Zenon
  <2> QED BY <1>1, <2>1, <2>9, MakesFits, Zenon
<1>2. /\ GetCommand("LPop") = Name("lpop_count")
      /\ GetCommand("RPop") = Name("rpop_count")
  BY DEF GetCommand, Name
<1> QED BY <1>1, <1>2

(* A field of a hash, and an amount. *)
LEMMA FieldAmountFits ==
  ASSUME NEW c, IsCall(c), NEW l
  PROVE  /\ c.method = "hincrby"      => Fits(c, Makes("HashIncrBy", <<c.key, c.field, Str(c.amount)>>), l)
         /\ c.method = "hincrbyfloat" => Fits(c, Makes("HashIncrByFloat", <<c.key, c.field, Str(c.amount)>>), l)
<1>1. ASSUME NEW type, GetCommand(type) = Name(c.method),
             c.method \in {"hincrby", "hincrbyfloat"}
      PROVE  Fits(c, Makes(type, <<c.key, c.field, Str(c.amount)>>), l)
  <2>1. Signature(c.method) = <<"key", "field", "amount">> /\ ~KeepsList(c) /\ c.method # "set"
    BY <1>1 DEF Signature, KeepsList
  <2>2. "key" \in Range(Signature(c.method)) /\ "field" \in Range(Signature(c.method)) /\ "amount" \in Range(Signature(c.method))
    BY <2>1, TupleRange, Zenon
  <2>3. "key" \notin MayBeNone(c.method) /\ "field" \notin MayBeNone(c.method) /\ "amount" \notin MayBeNone(c.method)
    BY <1>1 DEF MayBeNone
  <2>4. c["key"] # None /\ c["field"] # None /\ c["amount"] # None
    BY <2>2, <2>3, ValueGiven, Zenon
  <2>5. Words(c, "key", l) = <<c.key>> /\ Words(c, "field", l) = <<c.field>> /\ Words(c, "amount", l) = <<Str(c.amount)>>
    BY <2>4, NumberWords, TextWords, Zenon
  <2> DEFINE order == <<"key", "field", "amount">>
  <2>6. DOMAIN order = 1..3 /\ order[1] = "key" /\ order[2] = "field" /\ order[3] = "amount"
    OBVIOUS
  <2>7. Signature(c.method) = order
    BY <2>1
  <2> HIDE DEF order
  <2>8. Parameters(c, l, order) = (<<c.key>> \o <<c.field>>) \o <<Str(c.amount)>>
    BY <2>5, <2>6, ThreeParameters, Zenon
  <2>9. <<c.key>> \o <<c.field>> = <<c.key, c.field>> /\ <<c.key, c.field>> \o <<Str(c.amount)>> = <<c.key, c.field, Str(c.amount)>>
    BY Pair, Triple, Zenon
  <2>10. <<c.key, c.field, Str(c.amount)>> = Parameters(c, l, Signature(c.method))
    BY <2>7, <2>8, <2>9, Zenon
  <2> QED BY <1>1, <2>1, <2>10, MakesFits, Zenon
<1>2. /\ GetCommand("HashIncrBy") = Name("hincrby")
      /\ GetCommand("HashIncrByFloat") = Name("hincrbyfloat")
  BY DEF GetCommand, Name
<1> QED BY <1>1, <1>2

(* A part of a list. *)
LEMMA RangeFits ==
  ASSUME NEW c, IsCall(c), NEW l
  PROVE  /\ c.method = "lrange" => Fits(c, Makes("LRange", <<c.key, Str(c.start), Str(c.end)>>), l)
         /\ c.method = "ltrim"  => Fits(c, Makes("LTrim", <<c.key, Str(c.start), Str(c.end)>>), l)
<1>1. ASSUME NEW type, GetCommand(type) = Name(c.method),
             c.method \in {"lrange", "ltrim"}
      PROVE  Fits(c, Makes(type, <<c.key, Str(c.start), Str(c.end)>>), l)
  <2>1. Signature(c.method) = <<"key", "start", "end">> /\ ~KeepsList(c) /\ c.method # "set"
    BY <1>1 DEF Signature, KeepsList
  <2>2. "key" \in Range(Signature(c.method)) /\ "start" \in Range(Signature(c.method)) /\ "end" \in Range(Signature(c.method))
    BY <2>1, TupleRange, Zenon
  <2>3. "key" \notin MayBeNone(c.method) /\ "start" \notin MayBeNone(c.method) /\ "end" \notin MayBeNone(c.method)
    BY <1>1 DEF MayBeNone
  <2>4. c["key"] # None /\ c["start"] # None /\ c["end"] # None
    BY <2>2, <2>3, ValueGiven, Zenon
  <2>5. Words(c, "key", l) = <<c.key>> /\ Words(c, "start", l) = <<Str(c.start)>> /\ Words(c, "end", l) = <<Str(c.end)>>
    BY <2>4, NumberWords, TextWords, Zenon
  <2> DEFINE order == <<"key", "start", "end">>
  <2>6. DOMAIN order = 1..3 /\ order[1] = "key" /\ order[2] = "start" /\ order[3] = "end"
    OBVIOUS
  <2>7. Signature(c.method) = order
    BY <2>1
  <2> HIDE DEF order
  <2>8. Parameters(c, l, order) = (<<c.key>> \o <<Str(c.start)>>) \o <<Str(c.end)>>
    BY <2>5, <2>6, ThreeParameters, Zenon
  <2>9. <<c.key>> \o <<Str(c.start)>> = <<c.key, Str(c.start)>> /\ <<c.key, Str(c.start)>> \o <<Str(c.end)>> = <<c.key, Str(c.start), Str(c.end)>>
    BY Pair, Triple, Zenon
  <2>10. <<c.key, Str(c.start), Str(c.end)>> = Parameters(c, l, Signature(c.method))
    BY <2>7, <2>8, <2>9, Zenon
  <2> QED BY <1>1, <2>1, <2>10, MakesFits, Zenon
<1>2. /\ GetCommand("LRange") = Name("lrange")
      /\ GetCommand("LTrim") = Name("ltrim")
  BY DEF GetCommand, Name
<1> QED BY <1>1, <1>2

(* lrem, with its count before the element. *)
LEMMA LRemFits ==
  ASSUME NEW c, IsCall(c), NEW l
  PROVE  c.method = "lrem" => Fits(c, Makes("LRem", <<c.key, Str(c.count), c.element>>), l)
<1>1. ASSUME NEW type, GetCommand(type) = Name(c.method),
             c.method \in {"lrem"}
      PROVE  Fits(c, Makes(type, <<c.key, Str(c.count), c.element>>), l)
  <2>1. Signature(c.method) = <<"key", "count", "element">> /\ ~KeepsList(c) /\ c.method # "set"
    BY <1>1, Zenon DEF Signature, KeepsList
  <2>2. "key" \in Range(Signature(c.method)) /\ "count" \in Range(Signature(c.method)) /\ "element" \in Range(Signature(c.method))
    BY <2>1, TupleRange, Zenon
  <2>3. "key" \notin MayBeNone(c.method) /\ "count" \notin MayBeNone(c.method) /\ "element" \notin MayBeNone(c.method)
    BY <1>1 DEF MayBeNone
  <2>4. c["key"] # None /\ c["count"] # None /\ c["element"] # None
    BY <2>2, <2>3, ValueGiven, Zenon
  <2>5. Words(c, "key", l) = <<c.key>> /\ Words(c, "count", l) = <<Str(c.count)>> /\ Words(c, "element", l) = <<c.element>>
    BY <2>4, NumberWords, TextWords, Zenon
  <2> DEFINE order == <<"key", "count", "element">>
  <2>6. DOMAIN order = 1..3 /\ order[1] = "key" /\ order[2] = "count" /\ order[3] = "element"
    OBVIOUS
  <2>7. Signature(c.method) = order
    BY <2>1
  <2> HIDE DEF order
  <2>8. Parameters(c, l, order) = (<<c.key>> \o <<Str(c.count)>>) \o <<c.element>>
    BY <2>5, <2>6, ThreeParameters, Zenon
  <2>9. <<c.key>> \o <<Str(c.count)>> = <<c.key, Str(c.count)>> /\ <<c.key, Str(c.count)>> \o <<c.element>> = <<c.key, Str(c.count), c.element>>
    BY Pair, Triple, Zenon
  <2>10. <<c.key, Str(c.count), c.element>> = Parameters(c, l, Signature(c.method))
    BY <2>7, <2>8, <2>9, Zenon
  <2> QED BY <1>1, <2>1, <2>10, MakesFits, ZenonT(60)
<1>2. GetCommand("LRem") = Name("lrem")
  BY DEF GetCommand, Name
<1> QED BY <1>1, <1>2

(* The items of a dict (mset). *)
LEMMA MSetFits ==
  ASSUME NEW c, IsCall(c), NEW l
  PROVE  c.method = "mset" => Fits(c, Makes("MSet", Items(c.key_value_map)), l)
<1>1. ASSUME NEW type, GetCommand(type) = Name(c.method),
             c.method \in {"mset"}
      PROVE  Fits(c, Makes(type, Items(c.key_value_map)), l)
  <2>1. Signature(c.method) = <<"key_value_map">> /\ ~KeepsList(c) /\ c.method # "set"
    BY <1>1, Zenon DEF Signature, KeepsList
  <2>2. "key_value_map" \in Range(Signature(c.method))
    BY <2>1, TupleRange, Zenon
  <2>3. "key_value_map" \notin MayBeNone(c.method)
    BY <1>1 DEF MayBeNone
  <2>4. c["key_value_map"] # None
    BY <2>2, <2>3, ValueGiven, Zenon
  <2>5. Words(c, "key_value_map", l) = Items(c.key_value_map)
    BY <2>4, MapWords, Zenon
  <2>9. Items(c.key_value_map) = Parameters(c, l, Signature(c.method))
    BY <2>1, <2>5, OneParameter, Zenon
  <2> QED BY <1>1, <2>1, <2>9, MakesFits, Zenon
<1>2. GetCommand("MSet") = Name("mset")
  BY DEF GetCommand, Name
<1> QED BY <1>1, <1>2

(* The items of a dict (config_set). *)
LEMMA ConfigSetFits ==
  ASSUME NEW c, IsCall(c), NEW l
  PROVE  c.method = "config_set" => Fits(c, Makes("ConfigSet", Items(c.parameters_map)), l)
<1>1. ASSUME NEW type, GetCommand(type) = Name(c.method),
             c.method \in {"config_set"}
      PROVE  Fits(c, Makes(type, Items(c.parameters_map)), l)
  <2>1. Signature(c.method) = <<"parameters_map">> /\ ~KeepsList(c) /\ c.method # "set"
    BY <1>1, Zenon DEF Signature, KeepsList
  <2>2. "parameters_map" \in Range(Signature(c.method))
    BY <2>1, TupleRange, Zenon
  <2>3. "parameters_map" \notin MayBeNone(c.method)
    BY <1>1 DEF MayBeNone
  <2>4. c["parameters_map"] # None
    BY <2>2, <2>3, ValueGiven, Zenon
  <2>5. Words(c, "parameters_map", l) = Items(c.parameters_map)
    BY <2>4, MapWords, Zenon
  <2>9. Items(c.parameters_map) = Parameters(c, l, Signature(c.method))
    BY <2>1, <2>5, OneParameter, Zenon
  <2> QED BY <1>1, <2>1, <2>9, MakesFits, ZenonT(60)
<1>2. GetCommand("ConfigSet") = Name("config_set")
  BY DEF GetCommand, Name
<1> QED BY <1>1, <1>2

(* A key and the items of a dict. *)
LEMMA HSetFits ==
  ASSUME NEW c, IsCall(c), NEW l
  PROVE  c.method = "hset" => Fits(c, Makes("HashSet", <<c.key>> \o Items(c.field_value_map)), l)
<1>1. ASSUME NEW type, GetCommand(type) = Name(c.method),
             c.method \in {"hset"}
      PROVE  Fits(c, Makes(type, <<c.key>> \o Items(c.field_value_map)), l)
  <2>1. Signature(c.method) = <<"key", "field_value_map">> /\ ~KeepsList(c) /\ c.method # "set"
    BY <1>1, Zenon DEF Signature, KeepsList
  <2>2. "key" \in Range(Signature(c.method)) /\ "field_value_map" \in Range(Signature(c.method))
    BY <2>1, TupleRange, Zenon
  <2>3. "key" \notin MayBeNone(c.method) /\ "field_value_map" \notin MayBeNone(c.method)
    BY <1>1 DEF MayBeNone
  <2>4. c["key"] # None /\ c["field_value_map"] # None
    BY <2>2, <2>3, ValueGiven, Zenon
  <2>5. Words(c, "key", l) = <<c.key>> /\ Words(c, "field_value_map", l) = Items(c.field_value_map)
    BY <2>4, MapWords, TextWords, Zenon
  <2>6. Parameters(c, l, Signature(c.method)) = <<c.key>> \o Items(c.field_value_map)
    BY <2>1, <2>5, TwoParameters, Zenon
  <2>9. <<c.key>> \o Items(c.field_value_map) = Parameters(c, l, Signature(c.method))
    BY <2>6, Zenon
  <2> QED BY <1>1, <2>1, <2>9, MakesFits, ZenonT(60)
<1>2. GetCommand("HashSet") = Name("hset")
  BY DEF GetCommand, Name
<1> QED BY <1>1, <1>2

(* Methods that pass the caller's list on. *)
LEMMA PassesFits ==
  ASSUME NEW c, NEW l
  PROVE  /\ c.method = "custom_command" => Fits(c, Passes("CustomCommand"), l)
         /\ c.method = "delete"         => Fits(c, Passes("Del"), l)
         /\ c.method = "config_get"     => Fits(c, Passes("ConfigGet"), l)
         /\ c.method = "mget"           => Fits(c, Passes("MGet"), l)
         /\ c.method = "exists"         => Fits(c, Passes("Exists"), l)
         /\ c.method = "unlink"         => Fits(c, Passes("Unlink"), l)
<1>1. ASSUME NEW type, GetCommand(type) = Name(c.method), KeepsList(c)
      PROVE  Fits(c, Passes(type), l)
  BY <1>1 DEF Fits, Passes
<1>2. /\ GetCommand("CustomCommand") = Name("custom_command") /\ GetCommand("Del") = Name("delete")
      /\ GetCommand("ConfigGet") = Name("config_get") /\ GetCommand("MGet") = Name("mget")
      /\ GetCommand("Exists") = Name("exists") /\ GetCommand("Unlink") = Name("unlink")
  BY DEF GetCommand, Name
<1> QED BY <1>1, <1>2 DEF KeepsList

(* A key and the caller's list behind it, in a list of the method's own. *)
LEMMA ListFits ==
  ASSUME NEW c, IsCall(c), NEW l
  PROVE  /\ c.method = "hmget" => Fits(c, Makes("HashMGet", <<c.key>> \o l), l)
         /\ c.method = "hdel"  => Fits(c, Makes("HashDel", <<c.key>> \o l), l)
         /\ c.method = "lpush" => Fits(c, Makes("LPush", <<c.key>> \o l), l)
         /\ c.method = "rpush" => Fits(c, Makes("RPush", <<c.key>> \o l), l)
         /\ c.method = "sadd"  => Fits(c, Makes("SAdd", <<c.key>> \o l), l)
         /\ c.method = "srem"  => Fits(c, Makes("SRem", <<c.key>> \o l), l)
<1>1. ASSUME NEW type, GetCommand(type) = Name(c.method),
             c.method \in {"hmget", "hdel", "lpush", "rpush", "sadd", "srem"}
      PROVE  Fits(c, Makes(type, <<c.key>> \o l), l)
  <2>1. PICK p \in {"fields", "elements", "members"} :
          Signature(c.method) = <<"key", p>> /\ ~KeepsList(c) /\ c.method # "set"
    BY <1>1, Zenon DEF Signature, KeepsList
  <2>2. "key" \in Range(Signature(c.method)) /\ p \in Range(Signature(c.method))
    BY <2>1, TupleRange, Zenon
  <2>3. "key" \notin MayBeNone(c.method) /\ p \notin MayBeNone(c.method)
    BY <1>1 DEF MayBeNone
  <2>4. c["key"] # None /\ c[p] # None
    BY <2>2, <2>3, ValueGiven, Zenon
  <2>5. Words(c, "key", l) = <<c.key>> /\ Words(c, p, l) = l
    <3>1. p \in {"keys", "fields", "elements", "members", "sections", "parameters", "command_args"}
      OBVIOUS
    <3> QED BY <2>4, <3>1, TextWords, ListWords, Zenon
  <2>6. Parameters(c, l, <<"key", p>>) = Words(c, "key", l) \o Words(c, p, l)
    BY TwoParameters, Zenon
  <2>9. <<c.key>> \o l = Parameters(c, l, Signature(c.method))
    BY <2>1, <2>5, <2>6, Zenon
  <2> QED BY <1>1, <2>1, <2>9, MakesFits, Zenon
<1>2. /\ GetCommand("HashMGet") = Name("hmget")
      /\ GetCommand("HashDel") = Name("hdel")
      /\ GetCommand("LPush") = Name("lpush")
      /\ GetCommand("RPush") = Name("rpush")
      /\ GetCommand("SAdd") = Name("sadd")
      /\ GetCommand("SRem") = Name("srem")
  BY DEF GetCommand, Name
<1> QED BY <1>1, <1>2

(* expire, with its option last. *)
LEMMA ExpireFits ==
  ASSUME NEW c, IsCall(c), NEW l
  PROVE  c.method = "expire" => Fits(c, Makes("Expire", <<c.key, Str(c.seconds)>> \o OptionalOption(c.option)), l)
<1>1. ASSUME NEW type, GetCommand(type) = Name(c.method),
             c.method \in {"expire"}
      PROVE  Fits(c, Makes(type, <<c.key, Str(c.seconds)>> \o OptionalOption(c.option)), l)
  <2>1. Signature(c.method) = <<"key", "seconds", "option">> /\ ~KeepsList(c) /\ c.method # "set"
    BY <1>1, Zenon DEF Signature, KeepsList
  <2>2. "key" \in Range(Signature(c.method)) /\ "seconds" \in Range(Signature(c.method))
    BY <2>1, TupleRange, Zenon
  <2>3. "key" \notin MayBeNone(c.method) /\ "seconds" \notin MayBeNone(c.method)
    BY <1>1 DEF MayBeNone
  <2>4. c["key"] # None /\ c["seconds"] # None
    BY <2>2, <2>3, ValueGiven, Zenon
  <2>5. Words(c, "key", l) = <<c.key>> /\ Words(c, "seconds", l) = <<Str(c.seconds)>> /\ Words(c, "option", l) = OptionalOption(c.option)
    BY <2>4, TextWords, NumberWords, OptionWords, Zenon
  <2> DEFINE order == <<"key", "seconds", "option">>
  <2>6. DOMAIN order = 1..3 /\ order[1] = "key" /\ order[2] = "seconds" /\ order[3] = "option"
    OBVIOUS
  <2>7. Signature(c.method) = order
    BY <2>1
  <2> HIDE DEF order
  <2>8. Parameters(c, l, order) = (<<c.key>> \o <<Str(c.seconds)>>) \o OptionalOption(c.option)
    BY <2>5, <2>6, ThreeParameters, Zenon
  <2>9. <<c.key>> \o <<Str(c.seconds)>> = <<c.key, Str(c.seconds)>>
    BY Pair, Zenon
  <2>10. <<c.key, Str(c.seconds)>> \o OptionalOption(c.option) = Parameters(c, l, Signature(c.method))
    BY <2>7, <2>8, <2>9, Zenon
  <2> QED BY <1>1, <2>1, <2>10, MakesFits, ZenonT(60)
<1>2. GetCommand("Expire") = Name("expire")
  BY DEF GetCommand, Name
<1> QED BY <1>1, <1>2

(* expireat, with its option last. *)
LEMMA ExpireAtFits ==
  ASSUME NEW c, IsCall(c), NEW l
  PROVE  c.method = "expireat" => Fits(c, Makes("ExpireAt", <<c.key, Str(c.unix_seconds)>> \o OptionalOption(c.option)), l)
<1>1. ASSUME NEW type, GetCommand(type) = Name(c.method),
             c.method \in {"expireat"}
      PROVE  Fits(c, Makes(type, <<c.key, Str(c.unix_seconds)>> \o OptionalOption(c.option)), l)
  <2>1. Signature(c.method) = <<"key", "unix_seconds", "option">> /\ ~KeepsList(c) /\ c.method # "set"
    BY <1>1, Zenon DEF Signature, KeepsList
  <2>2. "key" \in Range(Signature(c.method)) /\ "unix_seconds" \in Range(Signature(c.method))
    BY <2>1, TupleRange, Zenon
  <2>3. "key" \notin MayBeNone(c.method) /\ "unix_seconds" \notin MayBeNone(c.method)
    BY <1>1 DEF MayBeNone
  <2>4. c["key"] # None /\ c["unix_seconds"] # None
    BY <2>2, <2>3, ValueGiven, Zenon
  <2>5. Words(c, "key", l) = <<c.key>> /\ Words(c, "unix_seconds", l) = <<Str(c.unix_seconds)>> /\ Words(c, "option", l) = OptionalOption(c.option)
    BY <2>4, TextWords, NumberWords, OptionWords, Zenon
  <2> DEFINE order == <<"key", "unix_seconds", "option">>
  <2>6. DOMAIN order = 1..3 /\ order[1] = "key" /\ order[2] = "unix_seconds" /\ order[3] = "option"
    OBVIOUS
  <2>7. Signature(c.method) = order
    BY <2>1
  <2> HIDE DEF order
  <2>8. Parameters(c, l, order) = (<<c.key>> \o <<Str(c.unix_seconds)>>) \o OptionalOption(c.option)
    BY <2>5, <2>6, ThreeParameters, Zenon
  <2>9. <<c.key>> \o <<Str(c.unix_seconds)>> = <<c.key, Str(c.unix_seconds)>>
    BY Pair, Zenon
  <2>10. <<c.key, Str(c.unix_seconds)>> \o OptionalOption(c.option) = Parameters(c, l, Signature(c.method))
    BY <2>7, <2>8, <2>9, Zenon
  <2> QED BY <1>1, <2>1, <2>10, MakesFits, ZenonT(60)
<1>2. GetCommand("ExpireAt") = Name("expireat")
  BY DEF GetCommand, Name
<1> QED BY <1>1, <1>2

(* pexpire, with its option last. *)
LEMMA PExpireFits ==
  ASSUME NEW c, IsCall(c), NEW l
  PROVE  c.method = "pexpire" => Fits(c, Makes("PExpire", <<c.key, Str(c.milliseconds)>> \o OptionalOption(c.option)), l)
<1>1. ASSUME NEW type, GetCommand(type) = Name(c.method),
             c.method \in {"pexpire"}
      PROVE  Fits(c, Makes(type, <<c.key, Str(c.milliseconds)>> \o OptionalOption(c.option)), l)
  <2>1. Signature(c.method) = <<"key", "milliseconds", "option">> /\ ~KeepsList(c) /\ c.method # "set"
    BY <1>1, Zenon DEF Signature, KeepsList
  <2>2. "key" \in Range(Signature(c.method)) /\ "milliseconds" \in Range(Signature(c.method))
    BY <2>1, TupleRange, Zenon
  <2>3. "key" \notin MayBeNone(c.method) /\ "milliseconds" \notin MayBeNone(c.method)
    BY <1>1 DEF MayBeNone
  <2>4. c["key"] # None /\ c["milliseconds"] # None
    BY <2>2, <2>3, ValueGiven, Zenon
  <2>5. Words(c, "key", l) = <<c.key>> /\ Words(c, "milliseconds", l) = <<Str(c.milliseconds)>> /\ Words(c, "option", l) = OptionalOption(c.option)
    BY <2>4, TextWords, NumberWords, OptionWords, Zenon
  <2> DEFINE order == <<"key", "milliseconds", "option">>
  <2>6. DOMAIN order = 1..3 /\ order[1] = "key" /\ order[2] = "milliseconds" /\ order[3] = "option"
    OBVIOUS
  <2>7. Signature(c.method) = order
    BY <2>1
  <2> HIDE DEF order
  <2>8. Parameters(c, l, order) = (<<c.key>> \o <<Str(c.milliseconds)>>) \o OptionalOption(c.option)
    BY <2>5, <2>6, ThreeParameters, Zenon
  <2>9. <<c.key>> \o <<Str(c.milliseconds)>> = <<c.key, Str(c.milliseconds)>>
    BY Pair, Zenon
  <2>10. <<c.key, Str(c.milliseconds)>> \o OptionalOption(c.option) = Parameters(c, l, Signature(c.method))
    BY <2>7, <2>8, <2>9, Zenon
  <2> QED BY <1>1, <2>1, <2>10, MakesFits, Zenon
<1>2. GetCommand("PExpire") = Name("pexpire")
  BY DEF GetCommand, Name
<1> QED BY <1>1, <1>2

(* pexpireat, with its option last. *)
LEMMA PExpireAtFits ==
  ASSUME NEW c, IsCall(c), NEW l
  PROVE  c.method = "pexpireat" => Fits(c, Makes("PExpireAt", <<c.key, Str(c.unix_milliseconds)>> \o OptionalOption(c.option)), l)
<1>1. ASSUME NEW type, GetCommand(type) = Name(c.method),
             c.method \in {"pexpireat"}
      PROVE  Fits(c, Makes(type, <<c.key, Str(c.unix_milliseconds)>> \o OptionalOption(c.option)), l)
  <2>1. Signature(c.method) = <<"key", "unix_milliseconds", "option">> /\ ~KeepsList(c) /\ c.method # "set"
    BY <1>1, Zenon DEF Signature, KeepsList
  <2>2. "key" \in Range(Signature(c.method)) /\ "unix_milliseconds" \in Range(Signature(c.method))
    BY <2>1, TupleRange, Zenon
  <2>3. "key" \notin MayBeNone(c.method) /\ "unix_milliseconds" \notin MayBeNone(c.method)
    BY <1>1 DEF MayBeNone
  <2>4. c["key"] # None /\ c["unix_milliseconds"] # None
    BY <2>2, <2>3, ValueGiven, Zenon
  <2>5. Words(c, "key", l) = <<c.key>> /\ Words(c, "unix_milliseconds", l) = <<Str(c.unix_milliseconds)>> /\ Words(c, "option", l) = OptionalOption(c.option)
    BY <2>4, TextWords, NumberWords, OptionWords, Zenon
  <2> DEFINE order == <<"key", "unix_milliseconds", "option">>
  <2>6. DOMAIN order = 1..3 /\ order[1] = "key" /\ order[2] = "unix_milliseconds" /\ order[3] = "option"
    OBVIOUS
  <2>7. Signature(c.method) = order
    BY <2>1
  <2> HIDE DEF order
  <2>8. Parameters(c, l, order) = (<<c.key>> \o <<Str(c.unix_milliseconds)>>) \o OptionalOption(c.option)
    BY <2>5, <2>6, ThreeParameters, Zenon
  <2>9. <<c.key>> \o <<Str(c.unix_milliseconds)>> = <<c.key, Str(c.unix_milliseconds)>>
    BY Pair, Zenon
  <2>10. <<c.key, Str(c.unix_milliseconds)>> \o OptionalOption(c.option) = Parameters(c, l, Signature(c.method))
    BY <2>7, <2>8, <2>9, Zenon
  <2> QED BY <1>1, <2>1, <2>10, MakesFits, ZenonT(60)
<1>2. GetCommand("PExpireAt") = Name("pexpireat")
  BY DEF GetCommand, Name
<1> QED BY <1>1, <1>2

(* A pop, with its count if there is one. *)
LEMMA PopFits ==
  ASSUME NEW c, IsCall(c), NEW l
  PROVE  /\ c.method = "lpop" => Fits(c, Makes("LPop", <<c.key>> \o OptionalStr(c.count)), l)
         /\ c.method = "rpop" => Fits(c, Makes("RPop", <<c.key>> \o OptionalStr(c.count)), l)
<1>1. ASSUME NEW type, GetCommand(type) = Name(c.method),
             c.method \in {"lpop", "rpop"}
      PROVE  Fits(c, Makes(type, <<c.key>> \o OptionalStr(c.count)), l)
  <2>1. Signature(c.method) = <<"key", "count">> /\ ~KeepsList(c) /\ c.method # "set"
    BY <1>1, Zenon DEF Signature, KeepsList
  <2>2. "key" \in Range(Signature(c.method))
    BY <2>1, TupleRange, Zenon
  <2>3. "key" \notin MayBeNone(c.method)
    BY SMTT(30), <1>1 DEF MayBeNone
  <2>4. c["key"] # None
    BY <2>2, <2>3, ValueGiven, Zenon
  <2>5. Words(c, "key", l) = <<c.key>> /\ Words(c, "count", l) = OptionalStr(c.count)
    BY <2>4, TextWords, NumberWords, NoWords, Zenon DEF OptionalStr
  <2>9. <<c.key>> \o OptionalStr(c.count) = Parameters(c, l, Signature(c.method))
    BY <2>1, <2>5, TwoParameters, Zenon
  <2> QED BY <1>1, <2>1, <2>9, MakesFits, ZenonT(60)
<1>2. /\ GetCommand("LPop") = Name("lpop")
      /\ GetCommand("RPop") = Name("rpop")
  BY DEF GetCommand, Name
<1> QED BY <1>1, <1>2

LEMMA BarePopFits ==
  ASSUME NEW c, IsCall(c), c.count = None, NEW l
  PROVE  /\ c.method = "lpop" => Fits(c, Makes("LPop", <<c.key>>), l)
         /\ c.method = "rpop" => Fits(c, Makes("RPop", <<c.key>>), l)
<1>1. OptionalStr(c.count) = <<>>
  BY DEF OptionalStr
<1>2. <<c.key>> \o <<>> = <<c.key>>
  OBVIOUS
<1> QED BY <1>1, <1>2, PopFits, Zenon

(* ping, with its message if there is one. *)
LEMMA PingFits ==
  ASSUME NEW c, IsCall(c), NEW l
  PROVE  c.method = "ping" => Fits(c, Makes("Ping", Optional(c.message)), l)
<1>1. ASSUME NEW type, GetCommand(type) = Name(c.method),
             c.method \in {"ping"}
      PROVE  Fits(c, Makes(type, Optional(c.message)), l)
  <2>1. Signature(c.method) = <<"message">> /\ ~KeepsList(c) /\ c.method # "set"
    BY <1>1, Zenon DEF Signature, KeepsList
  <2>5. Words(c, "message", l) = Optional(c.message)
    BY TextWords, NoWords, Zenon DEF Optional
  <2>9. Optional(c.message) = Parameters(c, l, Signature(c.method))
    BY <2>1, <2>5, OneParameter, Zenon
  <2> QED BY <1>1, <2>1, <2>9, MakesFits, Zenon
<1>2. GetCommand("Ping") = Name("ping")
  BY DEF GetCommand, Name
<1> QED BY <1>1, <1>2

(* info, with its sections if there are any. *)
LEMMA InfoFits ==
  ASSUME NEW c, IsCall(c), NEW l
  PROVE  c.method = "info" => Fits(c, Makes("Info", IF c.sections = None THEN <<>> ELSE l), l)
<1>1. ASSUME NEW type, GetCommand(type) = Name(c.method),
             c.method \in {"info"}
      PROVE  Fits(c, Makes(type, IF c.sections = None THEN <<>> ELSE l), l)
  <2>1. Signature(c.method) = <<"sections">> /\ ~KeepsList(c) /\ c.method # "set"
    BY <1>1, Zenon DEF Signature, KeepsList
  <2>5. Words(c, "sections", l) = IF c.sections = None THEN <<>> ELSE l
    BY ListWords, NoWords, Zenon
  <2>9. (IF c.sections = None THEN <<>> ELSE l) = Parameters(c, l, Signature(c.method))
    BY <2>1, <2>5, OneParameter, Zenon
  <2> QED BY <1>1, <2>1, <2>9, MakesFits, ZenonT(60)
<1>2. GetCommand("Info") = Name("info")
  BY DEF GetCommand, Name
<1> QED BY <1>1, <1>2

(* The order in which set writes its options is one of those documented. *)
LEMMA OptionsInAnyOrder ==
  <<"conditional_set", "return_old_value", "expiry">>
    \in Injection(1..3, {"conditional_set", "expiry", "return_old_value"})
BY SMTT(30) DEF Injection, IsInjective

(* int() of a time is the number of whole units that are over. *)
LEMMA Quotient ==
  ASSUME NEW n \in Int, NEW unit \in {Millisecond, Second}
  PROVE  /\ n \div unit \in Int
         /\ (n \div unit) * unit <= n /\ n < (n \div unit) * unit + unit
<1>1. CASE unit = Millisecond
  BY <1>1, SMTT(30) DEF Millisecond
<1>2. CASE unit = Second
  BY <1>2, SMTT(30) DEF Second
<1> QED BY <1>1, <1>2, Zenon

(* What int() leaves over is less than a unit. *)
LEMMA Remainder ==
  ASSUME NEW n \in Int, NEW unit \in {Millisecond, Second}
  PROVE  LET k == Truncated(n, unit)
         IN  /\ k \in Int
             /\ n >= 0 => k * unit <= n /\ n < k * unit + unit
             /\ n <= 0 => n <= k * unit /\ k * unit - unit < n
<1> DEFINE p == n \div unit
           q == (-n) \div unit
<1>1. p \in Int /\ p * unit <= n /\ n < p * unit + unit
  BY Quotient, Zenon
<1>2. q \in Int /\ q * unit <= -n /\ -n < q * unit + unit
  <2>1. -n \in Int
    BY SMTT(30)
  <2> QED BY <2>1, Quotient, Zenon
<1>3. Truncated(n, unit) = IF n >= 0 THEN p ELSE -q
  BY Zenon DEF Truncated
<1> HIDE DEF p, q
<1>4. CASE unit = Millisecond
  BY <1>1, <1>2, <1>3, <1>4, SMTT(30) DEF Millisecond
<1>5. CASE unit = Second
  BY <1>1, <1>2, <1>3, <1>5, SMTT(30) DEF Second
<1> QED BY <1>4, <1>5, Zenon

LEMMA TruncatedUnits ==
  ASSUME NEW n \in Int, NEW unit \in {Millisecond, Second}
  PROVE  LET k == Truncated(n, unit)
         IN  /\ k \in (n \div unit) - 1 .. (n \div unit) + 2
             /\ n >= 0 => n - k * unit \in 0..(unit - 1)
             /\ n < 0 => k * unit - n \in 0..(unit - 1)
<1> DEFINE k == Truncated(n, unit)
           p == n \div unit
<1>1. p \in Int /\ p * unit <= n /\ n < p * unit + unit
  BY Quotient, Zenon
<1>2. /\ k \in Int
      /\ n >= 0 => k * unit <= n /\ n < k * unit + unit
      /\ n <= 0 => n <= k * unit /\ k * unit - unit < n
  BY Remainder, Zenon
<1> HIDE DEF k, p
<1>3. /\ p - 1 <= k /\ k <= p + 2 /\ unit \in Int /\ k * unit \in Int
      /\ n >= 0 => 0 <= n - k * unit /\ n - k * unit <= unit - 1
      /\ n < 0 => 0 <= k * unit - n /\ k * unit - n <= unit - 1
  <2>1. CASE unit = Millisecond
    BY <1>1, <1>2, <2>1, SMTT(30) DEF Millisecond
  <2>2. CASE unit = Second
    BY <1>1, <1>2, <2>2, SMTT(30) DEF Second
  <2> QED BY <2>1, <2>2, Zenon
<1> DEFINE whole == k * unit
<1>4. whole \in Int /\ unit - 1 \in Int /\ n - whole \in Int /\ whole - n \in Int
  BY <1>3, SMTT(30)
<1> HIDE DEF whole
<1>5. /\ k \in p - 1 .. p + 2
      /\ n >= 0 => n - whole \in 0..(unit - 1)
      /\ n < 0 => whole - n \in 0..(unit - 1)
  BY <1>1, <1>2, <1>3, <1>4, SMTT(30) DEF whole
<1> QED BY <1>5, Zenon DEF k, p, whole

(* A product that falls short loses a millisecond if the time was whole, and
   nothing otherwise. *)
LEMMA ShortUnits ==
  ASSUME NEW v, v.n \in Int, v.short = TRUE
  PROVE  LET k == Truncated(Product(v), Millisecond)
             left == IF v.n >= 0 THEN v.n - k * Millisecond ELSE k * Millisecond - v.n
         IN  /\ k \in (v.n \div Millisecond) - 1 .. (v.n \div Millisecond) + 2
             /\ left \in 0..(Millisecond - 1) \/ left = Millisecond
<1> DEFINE n == v.n
           m == Product(v)
           k == Truncated(m, Millisecond)
           p == n \div Millisecond
<1>1. p \in Int /\ p * Millisecond <= n /\ n < p * Millisecond + Millisecond
  BY Quotient, Zenon
<1>2. n \in Int /\ m \in Int /\ m = IF n = 0 THEN 0 ELSE IF n > 0 THEN n - 1 ELSE n + 1
  BY SMTT(30) DEF Product
<1> HIDE DEF m
<1>3. /\ k \in Int
      /\ m >= 0 => k * Millisecond <= m /\ m < k * Millisecond + Millisecond
      /\ m <= 0 => m <= k * Millisecond /\ k * Millisecond - Millisecond < m
  BY <1>2, Remainder, Zenon
<1> HIDE DEF k, p, n
<1>4. /\ k \in p - 1 .. p + 2
      /\ n >= 0 => n - k * Millisecond \in 0..(Millisecond - 1) \/ n - k * Millisecond = Millisecond
      /\ n < 0 => k * Millisecond - n \in 0..(Millisecond - 1) \/ k * Millisecond - n = Millisecond
  BY <1>1, <1>2, <1>3, SMTT(30) DEF Millisecond
<1>5. (n >= 0) \/ (n < 0 /\ ~(n >= 0))
  BY <1>2, SMTT(30)
<1> QED BY <1>4, <1>5, Zenon DEF k, p, n, m

(* The number of an expiry that does not raise is one that stands for it. *)
LEMMA NumberStands ==
  ASSUME NEW e, e # None, e.type \in {"SEC", "MILLSEC", "UNIX_SEC", "UNIX_MILLSEC", "KEEP_TTL"},
         e.value # None, e.value.n \in Int, e.value.short \in BOOLEAN, ~ExpiryRaises(e)
  PROVE  ExpiryNumber(e) \in Units(e) /\ e.type # "KEEP_TTL"
<1> DEFINE v == e.value
           unit == IF e.type \in {"SEC", "UNIX_SEC"} THEN Second ELSE Millisecond
<1>1. e.type # "KEEP_TTL" /\ v.class \in ExpiryClasses(e.type)
  BY SMTT(30) DEF ExpiryRaises, ExpiryClasses
<1>2. CASE v.class = "int"
  <2>1. Units(e) = {v.n} /\ ExpiryNumber(e) = v.n
    BY <1>1, <1>2, ZenonT(30) DEF Units, ExpiryNumber
  <2> QED BY <1>1, <2>1, Zenon
<1>3. CASE v.class # "int"
  <2> DEFINE Left(k) == IF v.n >= 0 THEN v.n - k * unit ELSE k * unit - v.n
             U == {k \in (v.n \div unit) - 1 .. (v.n \div unit) + 2 :
                     \/ Left(k) \in 0..(unit - 1)
                     \/ unit = Millisecond /\ v.short /\ Left(k) = unit}
  <2>1. v.class = (IF e.type \in {"SEC", "MILLSEC"} THEN "timedelta" ELSE "datetime")
    BY <1>1, <1>3, SMTT(30) DEF ExpiryClasses
  <2>2. Units(e) = U
    BY <1>1, <1>3, <2>1, ZenonT(60) DEF Units
  <2>3. (v.n >= 0) \/ (v.n < 0 /\ ~(v.n >= 0))
    BY SMTT(30)
  <2>4. Second # Millisecond
    BY SMTT(30) DEF Second, Millisecond
  <2>5. ExpiryNumber(e) = IF unit = Second THEN Truncated(v.n, Second) ELSE Truncated(Product(v), Millisecond)
    BY <1>3, <2>4, Zenon DEF ExpiryNumber
  <2>6. unit \in {Millisecond, Second}
    BY Zenon
  <2>7. CASE unit = Second \/ ~v.short
    <3>1. ExpiryNumber(e) = Truncated(v.n, unit)
      BY <2>4, <2>5, <2>6, <2>7, Zenon DEF Product
    <3> HIDE DEF unit
    <3>2. Truncated(v.n, unit) \in U
      BY <2>3, <2>6, TruncatedUnits, Zenon
    <3> QED BY <1>1, <2>2, <3>1, <3>2, Zenon
  <2>8. CASE unit = Millisecond /\ v.short = TRUE
    <3>1. ExpiryNumber(e) = Truncated(Product(v), Millisecond)
      BY <2>4, <2>5, <2>8, Zenon
    <3> HIDE DEF unit
    <3>2. Truncated(Product(v), Millisecond) \in U
      BY <2>8, ShortUnits, Zenon
    <3> QED BY <1>1, <2>2, <3>1, <3>2, Zenon
  <2>9. v.short = TRUE \/ ~v.short
    BY Zenon
  <2> QED BY <2>6, <2>7, <2>8, <2>9, Zenon
<1> QED BY <1>2, <1>3, Zenon

(* So is the number that set sends, unless it is zero and dropped. *)
LEMMA ExpiryFits ==
  ASSUME NEW c, IsCall(c), c.method = "set", ~ArgumentsRaise(c), ~Undocumented(c, FALSE)
  PROVE  \E number \in Units(c.expiry) :
            SetOption(c, "expiry", number) = IF c.expiry = None THEN <<>> ELSE ExpiryArgs(c.expiry)
<1> DEFINE e == c.expiry
<1>1. CASE e = None
  BY <1>1, Zenon DEF Units, SetOption
<1>2. CASE e # None
  <2>1. /\ e.type \in {"SEC", "MILLSEC", "UNIX_SEC", "UNIX_MILLSEC", "KEEP_TTL"}
        /\ e.value # None => e.value.n \in Int /\ e.value.short \in BOOLEAN
        /\ ~ExpiryRaises(e)
    BY <1>2, Zenon DEF IsCall, ArgumentsRaise
  <2>2. ASSUME NEW number PROVE SetOption(c, "expiry", number) = ExpiryWords(e, number)
    BY <1>2 DEF SetOption
  <2> HIDE DEF e
  <2>3. CASE e.value = None
    <3>1. e.type = "KEEP_TTL" /\ Units(e) = {None}
      BY <1>2, <2>1, <2>3 DEF ExpiryRaises, Units
    <3>2. ExpiryWords(e, None) = <<"KEEPTTL">> /\ ExpiryKeyword(e.type) = "KEEPTTL"
      BY <3>1 DEF ExpiryWords, ExpiryKeyword
    <3>3. ExpiryArgs(e) = <<"KEEPTTL">> \o <<>>
      BY <2>3, <3>2, Zenon DEF ExpiryArgs
    <3>4. <<"KEEPTTL">> \o <<>> = <<"KEEPTTL">>
      OBVIOUS
    <3> QED BY <1>2, <2>2, <3>1, <3>2, <3>3, <3>4, Zenon DEF e
  <2>4. CASE e.value # None
    <3> DEFINE k == ExpiryNumber(e)
    <3>1. k \in Units(e) /\ e.type # "KEEP_TTL"
      BY <1>2, <2>1, <2>4, NumberStands, Zenon
    <3>2. k # 0
      BY <3>1, Zenon DEF Undocumented, e
    <3>3. ExpiryArgs(e) = <<ExpiryKeyword(e.type)>> \o <<Str(k)>>
      BY <2>4, <3>2, Zenon DEF ExpiryArgs
    <3> HIDE DEF k
    <3>4. ExpiryWords(e, k) = <<ExpiryKeyword(e.type), Str(k)>>
      BY <2>1, <3>1 DEF ExpiryWords, ExpiryKeyword, Str
    <3>5. SetOption(c, "expiry", k) = ExpiryArgs(e)
      BY <2>2, <3>3, <3>4, Pair, Zenon
    <3> QED BY <1>2, <3>1, <3>5, Zenon DEF e
  <2> QED BY <2>3, <2>4
<1> QED BY <1>1, <1>2

(* set, with its options in the order in which both methods write them. *)
LEMMA SetFits ==
  ASSUME NEW c, IsCall(c), c.method = "set", ~ArgumentsRaise(c), ~Undocumented(c, FALSE), NEW l
  PROVE  Fits(c, Makes("SetString", SetArgs(c)), l)
<1> DEFINE option == <<"conditional_set", "return_old_value", "expiry">>
           C == ConditionArgs(c.conditional_set)
           G == IF c.return_old_value THEN <<"GET">> ELSE <<>>
           E == IF c.expiry = None THEN <<>> ELSE ExpiryArgs(c.expiry)
           m == Makes("SetString", SetArgs(c))
<1>1. ~KeepsList(c) /\ GetCommand("SetString") = Name(c.method)
  BY DEF KeepsList, GetCommand, Name
<1>2. PICK number \in Units(c.expiry) : SetOption(c, "expiry", number) = E
  BY ExpiryFits, Zenon
<1>3. SetOption(c, "conditional_set", number) = C
  <2>1. c.conditional_set \in {None, "ONLY_IF_EXISTS", "ONLY_IF_DOES_NOT_EXIST"}
    BY Zenon DEF IsCall
  <2>2. None # "ONLY_IF_EXISTS" /\ None # "ONLY_IF_DOES_NOT_EXIST"
    BY RequestsAssumption, Zenon
  <2>3. CASE c.conditional_set = None
    BY <2>3, <2>2 DEF SetOption, ConditionArgs
  <2>4. CASE c.conditional_set = "ONLY_IF_EXISTS"
    BY SMTT(30), <2>4, <2>2 DEF SetOption, ConditionArgs
  <2>5. CASE c.conditional_set = "ONLY_IF_DOES_NOT_EXIST"
    BY <2>5, <2>2 DEF SetOption, ConditionArgs
  <2> QED BY <2>1, <2>3, <2>4, <2>5, Zenon
<1>4. SetOption(c, "return_old_value", number) = G
  <2>1. Signature(c.method) = <<"key", "value", "conditional_set", "expiry", "return_old_value">>
    BY DEF Signature
  <2>2. "return_old_value" \in Range(Signature(c.method))
    BY <2>1 DEF Range
  <2>3. "return_old_value" \notin MayBeNone(c.method)
    BY DEF MayBeNone
  <2>4. c["return_old_value"] # None
    BY <2>2, <2>3, ValueGiven, Zenon
  <2> QED BY <2>4 DEF SetOption
<1>5. option[1] = "conditional_set" /\ option[2] = "return_old_value" /\ option[3] = "expiry"
  OBVIOUS
<1>6. option \in Injection(1..3, {"conditional_set", "expiry", "return_old_value"})
  BY OptionsInAnyOrder, Zenon
<1>7. SetArgs(c) = ((<<c.key, c.value>> \o C) \o G) \o E
  BY Zenon DEF SetArgs
<1>8. m.shared = FALSE /\ m.args = SetArgs(c) /\ m.type = "SetString"
  BY DEF Makes
<1> HIDE DEF option, C, G, E, m
<1> DEFINE w == <<<<c.key>>, <<c.value>>, C, G, E>>
<1>9. Joined(w) = (((<<c.key>> \o <<c.value>>) \o C) \o G) \o E
  <2>1. /\ Len(w) = 5 /\ w[1] = <<c.key>> /\ w[2] = <<c.value>>
        /\ w[3] = C /\ w[4] = G /\ w[5] = E
    OBVIOUS
  <2> HIDE DEF w
  <2>2. Joined(w) = (((w[1] \o w[2]) \o w[3]) \o w[4]) \o w[5]
    BY <2>1, JoinedFive, Zenon
  <2> QED BY <2>1, <2>2, Zenon
<1>10. <<c.key>> \o <<c.value>> = <<c.key, c.value>>
  BY Pair, Zenon
<1>11. Joined(w) = SetArgs(c)
  BY <1>7, <1>9, <1>10, Zenon
<1>12. Name(c.method) \o Joined(w) \in Documented(c, l)
  <2>1. w = <<<<c.key>>, <<c.value>>, SetOption(c, option[1], number),
              SetOption(c, option[2], number), SetOption(c, option[3], number)>>
    BY <1>2, <1>3, <1>4, <1>5, Zenon
  <2> HIDE DEF w
  <2>2. Joined(w) \in SetWords(c, number)
    BY <1>6, <2>1, Zenon DEF SetWords
  <2> QED BY <1>2, <2>2, Zenon DEF Documented
<1>13. Fits(c, m, l)
  BY <1>1, <1>8, <1>11, <1>12, Zenon DEF Fits
<1> QED BY <1>13 DEF m

(* The methods of a transaction, group by group. *)
LEMMA TransactionCommandFits ==
  ASSUME NEW c, IsCall(c), NEW l, c.method = "set" => ~ArgumentsRaise(c) /\ ~Undocumented(c, FALSE)
  PROVE  /\ c.method \in {"get", "set"} => Fits(c, TransactionCommand(c, l), l)
         /\ c.method \notin {"get", "set"} => TransactionCommand(c, l) = TxServer(c, l)
<1>1. ASSUME c.method = "get" PROVE Fits(c, TransactionCommand(c, l), l)
  <2>1. TransactionCommand(c, l) = Makes("GetString", <<c.key>>)
    BY <1>1 DEF TransactionCommand
  <2> QED BY <1>1, <2>1, KeyFits, Zenon
<1>2. ASSUME c.method = "set" PROVE Fits(c, TransactionCommand(c, l), l)
  <2>1. TransactionCommand(c, l) = Makes("SetString", SetArgs(c))
    BY <1>2 DEF TransactionCommand
  <2> QED BY <1>2, <2>1, SetFits, Zenon
<1>3. c.method \in {"get", "set"} => Fits(c, TransactionCommand(c, l), l)
  BY <1>1, <1>2, Zenon
<1>4. c.method \notin {"get", "set"} => TransactionCommand(c, l) = TxServer(c, l)
  BY DEF TransactionCommand
<1> QED BY <1>3, <1>4, Zenon

LEMMA TxServerFits ==
  ASSUME NEW c, IsCall(c), NEW l
  PROVE  /\ c.method \in {"custom_command", "info", "delete", "config_get", "config_set", "config_resetstat", "mset", "mget", "config_rewrite", "client_id"} => Fits(c, TxServer(c, l), l)
         /\ c.method \notin {"custom_command", "info", "delete", "config_get", "config_set", "config_resetstat", "mset", "mget", "config_rewrite", "client_id"} => TxServer(c, l) = TxStrings(c, l)
<1>1. ASSUME c.method = "custom_command" PROVE Fits(c, TxServer(c, l), l)
  <2>1. TxServer(c, l) = Passes("CustomCommand")
    BY <1>1 DEF TxServer
  <2> QED BY <1>1, <2>1, PassesFits, Zenon
<1>2. ASSUME c.method = "info" PROVE Fits(c, TxServer(c, l), l)
  <2>1. TxServer(c, l) = Makes("Info", IF c.sections = None THEN <<>> ELSE l)
    BY <1>2 DEF TxServer
  <2> QED BY <1>2, <2>1, InfoFits, Zenon
<1>3. ASSUME c.method = "delete" PROVE Fits(c, TxServer(c, l), l)
  <2>1. TxServer(c, l) = Passes("Del")
    BY <1>3 DEF TxServer
  <2> QED BY <1>3, <2>1, PassesFits, Zenon
<1>4. ASSUME c.method = "config_get" PROVE Fits(c, TxServer(c, l), l)
  <2>1. TxServer(c, l) = Passes("ConfigGet")
    BY <1>4 DEF TxServer
  <2> QED BY <1>4, <2>1, PassesFits, Zenon
<1>5. ASSUME c.method = "config_set" PROVE Fits(c, TxServer(c, l), l)
  <2>1. TxServer(c, l) = Makes("ConfigSet", Items(c.parameters_map))
    BY <1>5 DEF TxServer
  <2> QED BY <1>5, <2>1, ConfigSetFits, Zenon
<1>6. ASSUME c.method = "config_resetstat" PROVE Fits(c, TxServer(c, l), l)
  <2>1. TxServer(c, l) = Makes("ConfigResetStat", <<>>)
    BY <1>6 DEF TxServer
  <2> QED BY <1>6, <2>1, BareFits, Zenon
<1>7. ASSUME c.method = "mset" PROVE Fits(c, TxServer(c, l), l)
  <2>1. TxServer(c, l) = Makes("MSet", Items(c.key_value_map))
    BY <1>7 DEF TxServer
  <2> QED BY <1>7, <2>1, MSetFits, Zenon
<1>8. ASSUME c.method = "mget" PROVE Fits(c, TxServer(c, l), l)
  <2>1. TxServer(c, l) = Passes("MGet")
    BY <1>8 DEF TxServer
  <2> QED BY <1>8, <2>1, PassesFits, Zenon
<1>9. ASSUME c.method = "config_rewrite" PROVE Fits(c, TxServer(c, l), l)
  <2>1. TxServer(c, l) = Makes("ConfigRewrite", <<>>)
    BY <1>9 DEF TxServer
  <2> QED BY <1>9, <2>1, BareFits, Zenon
<1>10. ASSUME c.method = "client_id" PROVE Fits(c, TxServer(c, l), l)
  <2>1. TxServer(c, l) = Makes("ClientId", <<>>)
    BY <1>10 DEF TxServer
  <2> QED BY <1>10, <2>1, BareFits, Zenon
<1>11. c.method \in {"custom_command", "info", "delete", "config_get", "config_set", "config_resetstat", "mset", "mget", "config_rewrite", "client_id"} => Fits(c, TxServer(c, l), l)
  BY <1>1, <1>2, <1>3, <1>4, <1>5, <1>6, <1>7, <1>8, <1>9, <1>10, Zenon
<1>12. c.method \notin {"custom_command", "info", "delete", "config_get", "config_set", "config_resetstat", "mset", "mget", "config_rewrite", "client_id"} => TxServer(c, l) = TxStrings(c, l)
  BY DEF TxServer
<1> QED BY <1>11, <1>12, Zenon

LEMMA TxStringsFits ==
  ASSUME NEW c, IsCall(c), NEW l
  PROVE  /\ c.method \in {"incr", "incrby", "incrbyfloat", "ping", "decr", "decrby"} => Fits(c, TxStrings(c, l), l)
         /\ c.method \notin {"incr", "incrby", "incrbyfloat", "ping", "decr", "decrby"} => TxStrings(c, l) = TxHashes(c, l)
<1>1. ASSUME c.method = "incr" PROVE Fits(c, TxStrings(c, l), l)
  <2>1. TxStrings(c, l) = Makes("Incr", <<c.key>>)
    BY <1>1 DEF TxStrings
  <2> QED BY <1>1, <2>1, KeyFits, Zenon
<1>2. ASSUME c.method = "incrby" PROVE Fits(c, TxStrings(c, l), l)
  <2>1. TxStrings(c, l) = Makes("IncrBy", <<c.key, Str(c.amount)>>)
    BY <1>2 DEF TxStrings
  <2> QED BY <1>2, <2>1, AmountFits, Zenon
<1>3. ASSUME c.method = "incrbyfloat" PROVE Fits(c, TxStrings(c, l), l)
  <2>1. TxStrings(c, l) = Makes("IncrByFloat", <<c.key, Str(c.amount)>>)
    BY <1>3 DEF TxStrings
  <2> QED BY <1>3, <2>1, AmountFits, Zenon
<1>4. ASSUME c.method = "ping" PROVE Fits(c, TxStrings(c, l), l)
  <2>1. TxStrings(c, l) = Makes("Ping", Optional(c.message))
    BY <1>4 DEF TxStrings
  <2> QED BY <1>4, <2>1, PingFits, Zenon
<1>5. ASSUME c.method = "decr" PROVE Fits(c, TxStrings(c, l), l)
  <2>1. TxStrings(c, l) = Makes("Decr", <<c.key>>)
    BY <1>5 DEF TxStrings
  <2> QED BY <1>5, <2>1, KeyFits, Zenon
<1>6. ASSUME c.method = "decrby" PROVE Fits(c, TxStrings(c, l), l)
  <2>1. TxStrings(c, l) = Makes("DecrBy", <<c.key, Str(c.amount)>>)
    BY <1>6 DEF TxStrings
  <2> QED BY <1>6, <2>1, AmountFits, Zenon
<1>7. c.method \in {"incr", "incrby", "incrbyfloat", "ping", "decr", "decrby"} => Fits(c, TxStrings(c, l), l)
  BY <1>1, <1>2, <1>3, <1>4, <1>5, <1>6, Zenon
<1>8. c.method \notin {"incr", "incrby", "incrbyfloat", "ping", "decr", "decrby"} => TxStrings(c, l) = TxHashes(c, l)
  BY DEF TxStrings
<1> QED BY <1>7, <1>8, Zenon

LEMMA TxHashesFits ==
  ASSUME NEW c, IsCall(c), NEW l
  PROVE  /\ c.method \in {"hset", "hget", "hincrby", "hincrbyfloat", "hexists", "client_getname", "hgetall", "hmget", "hdel"} => Fits(c, TxHashes(c, l), l)
         /\ c.method \notin {"hset", "hget", "hincrby", "hincrbyfloat", "hexists", "client_getname", "hgetall", "hmget", "hdel"} => TxHashes(c, l) = TxLists(c, l)
<1>1. ASSUME c.method = "hset" PROVE Fits(c, TxHashes(c, l), l)
  <2>1. TxHashes(c, l) = Makes("HashSet", <<c.key>> \o Items(c.field_value_map))
    BY <1>1 DEF TxHashes
  <2> QED BY <1>1, <2>1, HSetFits, Zenon
<1>2. ASSUME c.method = "hget" PROVE Fits(c, TxHashes(c, l), l)
  <2>1. TxHashes(c, l) = Makes("HashGet", <<c.key, c.field>>)
    BY <1>2 DEF TxHashes
  <2> QED BY <1>2, <2>1, FieldFits, Zenon
<1>3. ASSUME c.method = "hincrby" PROVE Fits(c, TxHashes(c, l), l)
  <2>1. TxHashes(c, l) = Makes("HashIncrBy", <<c.key, c.field, Str(c.amount)>>)
    BY <1>3 DEF TxHashes
  <2> QED BY <1>3, <2>1, FieldAmountFits, Zenon
<1>4. ASSUME c.method = "hincrbyfloat" PROVE Fits(c, TxHashes(c, l), l)
  <2>1. TxHashes(c, l) = Makes("HashIncrByFloat", <<c.key, c.field, Str(c.amount)>>)
    BY <1>4 DEF TxHashes
  <2> QED BY <1>4, <2>1, FieldAmountFits, Zenon
<1>5. ASSUME c.method = "hexists" PROVE Fits(c, TxHashes(c, l), l)
  <2>1. TxHashes(c, l) = Makes("HashExists", <<c.key, c.field>>)
    BY <1>5 DEF TxHashes
  <2> QED BY <1>5, <2>1, FieldFits, Zenon
<1>6. ASSUME c.method = "client_getname" PROVE Fits(c, TxHashes(c, l), l)
  <2>1. TxHashes(c, l) = Makes("ClientGetName", <<>>)
    BY <1>6 DEF TxHashes
  <2> QED BY <1>6, <2>1, BareFits, Zenon
<1>7. ASSUME c.method = "hgetall" PROVE Fits(c, TxHashes(c, l), l)
  <2>1. TxHashes(c, l) = Makes("HashGetAll", <<c.key>>)
    BY <1>7 DEF TxHashes
  <2> QED BY <1>7, <2>1, KeyFits, Zenon
<1>8. ASSUME c.method = "hmget" PROVE Fits(c, TxHashes(c, l), l)
  <2>1. TxHashes(c, l) = Makes("HashMGet", <<c.key>> \o l)
    BY <1>8 DEF TxHashes
  <2> QED BY <1>8, <2>1, ListFits, Zenon
<1>9. ASSUME c.method = "hdel" PROVE Fits(c, TxHashes(c, l), l)
  <2>1. TxHashes(c, l) = Makes("HashDel", <<c.key>> \o l)
    BY <1>9 DEF TxHashes
  <2> QED BY <1>9, <2>1, ListFits, Zenon
<1>10. c.method \in {"hset", "hget", "hincrby", "hincrbyfloat", "hexists", "client_getname", "hgetall", "hmget", "hdel"} => Fits(c, TxHashes(c, l), l)
  BY <1>1, <1>2, <1>3, <1>4, <1>5, <1>6, <1>7, <1>8, <1>9, Zenon
<1>11. c.method \notin {"hset", "hget", "hincrby", "hincrbyfloat", "hexists", "client_getname", "hgetall", "hmget", "hdel"} => TxHashes(c, l) = TxLists(c, l)
  BY DEF TxHashes
<1> QED BY <1>10, <1>11, Zenon

LEMMA TxListsFits ==
  ASSUME NEW c, IsCall(c), NEW l
  PROVE  /\ c.method \in {"lpush", "lpop", "lrange", "rpush", "rpop"} => Fits(c, TxLists(c, l), l)
         /\ c.method \notin {"lpush", "lpop", "lrange", "rpush", "rpop"} => TxLists(c, l) = TxSets(c, l)
<1>1. ASSUME c.method = "lpush" PROVE Fits(c, TxLists(c, l), l)
  <2>1. TxLists(c, l) = Makes("LPush", <<c.key>> \o l)
    BY <1>1 DEF TxLists
  <2> QED BY <1>1, <2>1, ListFits, Zenon
<1>2. ASSUME c.method = "lpop" PROVE Fits(c, TxLists(c, l), l)
  <2>1. TxLists(c, l) = Makes("LPop", <<c.key>> \o OptionalStr(c.count))
    BY <1>2 DEF TxLists
  <2> QED BY <1>2, <2>1, PopFits, Zenon
<1>3. ASSUME c.method = "lrange" PROVE Fits(c, TxLists(c, l), l)
  <2>1. TxLists(c, l) = Makes("LRange", <<c.key, Str(c.start), Str(c.end)>>)
    BY <1>3 DEF TxLists
  <2> QED BY <1>3, <2>1, RangeFits, Zenon
<1>4. ASSUME c.method = "rpush" PROVE Fits(c, TxLists(c, l), l)
  <2>1. TxLists(c, l) = Makes("RPush", <<c.key>> \o l)
    BY <1>4 DEF TxLists
  <2> QED BY <1>4, <2>1, ListFits, Zenon
<1>5. ASSUME c.method = "rpop" PROVE Fits(c, TxLists(c, l), l)
  <2>1. TxLists(c, l) = Makes("RPop", <<c.key>> \o OptionalStr(c.count))
    BY <1>5 DEF TxLists
  <2> QED BY <1>5, <2>1, PopFits, Zenon
<1>6. c.method \in {"lpush", "lpop", "lrange", "rpush", "rpop"} => Fits(c, TxLists(c, l), l)
  BY <1>1, <1>2, <1>3, <1>4, <1>5, Zenon
<1>7. c.method \notin {"lpush", "lpop", "lrange", "rpush", "rpop"} => TxLists(c, l) = TxSets(c, l)
  BY DEF TxLists
<1> QED BY <1>6, <1>7, Zenon

LEMMA TxSetsFits ==
  ASSUME NEW c, IsCall(c), NEW l
  PROVE  /\ c.method \in {"sadd", "srem", "smembers", "scard"} => Fits(c, TxSets(c, l), l)
         /\ c.method \notin {"sadd", "srem", "smembers", "scard"} => TxSets(c, l) = TxListEdits(c, l)
<1>1. ASSUME c.method = "sadd" PROVE Fits(c, TxSets(c, l), l)
  <2>1. TxSets(c, l) = Makes("SAdd", <<c.key>> \o l)
    BY <1>1 DEF TxSets
  <2> QED BY <1>1, <2>1, ListFits, Zenon
<1>2. ASSUME c.method = "srem" PROVE Fits(c, TxSets(c, l), l)
  <2>1. TxSets(c, l) = Makes("SRem", <<c.key>> \o l)
    BY <1>2 DEF TxSets
  <2> QED BY <1>2, <2>1, ListFits, Zenon
<1>3. ASSUME c.method = "smembers" PROVE Fits(c, TxSets(c, l), l)
  <2>1. TxSets(c, l) = Makes("SMembers", <<c.key>>)
    BY <1>3 DEF TxSets
  <2> QED BY <1>3, <2>1, KeyFits, Zenon
<1>4. ASSUME c.method = "scard" PROVE Fits(c, TxSets(c, l), l)
  <2>1. TxSets(c, l) = Makes("SCard", <<c.key>>)
    BY SMTT(30), <1>4 DEF TxSets
  <2> QED BY <1>4, <2>1, KeyFits, Zenon
<1>5. c.method \in {"sadd", "srem", "smembers", "scard"} => Fits(c, TxSets(c, l), l)
  BY <1>1, <1>2, <1>3, <1>4, Zenon
<1>6. c.method \notin {"sadd", "srem", "smembers", "scard"} => TxSets(c, l) = TxListEdits(c, l)
  BY DEF TxSets
<1> QED BY <1>5, <1>6, Zenon

LEMMA TxListEditsFits ==
  ASSUME NEW c, IsCall(c), NEW l
  PROVE  /\ c.method \in {"ltrim", "lrem", "llen"} => Fits(c, TxListEdits(c, l), l)
         /\ c.method \notin {"ltrim", "lrem", "llen"} => TxListEdits(c, l) = TxKeys(c, l)
<1>1. ASSUME c.method = "ltrim" PROVE Fits(c, TxListEdits(c, l), l)
  <2>1. TxListEdits(c, l) = Makes("LTrim", <<c.key, Str(c.start), Str(c.end)>>)
    BY <1>1 DEF TxListEdits
  <2> QED BY <1>1, <2>1, RangeFits, Zenon
<1>2. ASSUME c.method = "lrem" PROVE Fits(c, TxListEdits(c, l), l)
  <2>1. TxListEdits(c, l) = Makes("LRem", <<c.key, Str(c.count), c.element>>)
    BY <1>2 DEF TxListEdits
  <2> QED BY <1>2, <2>1, LRemFits, Zenon
<1>3. ASSUME c.method = "llen" PROVE Fits(c, TxListEdits(c, l), l)
  <2>1. TxListEdits(c, l) = Makes("LLen", <<c.key>>)
    BY <1>3 DEF TxListEdits
  <2> QED BY <1>3, <2>1, KeyFits, Zenon
<1>4. c.method \in {"ltrim", "lrem", "llen"} => Fits(c, TxListEdits(c, l), l)
  BY <1>1, <1>2, <1>3, Zenon
<1>5. c.method \notin {"ltrim", "lrem", "llen"} => TxListEdits(c, l) = TxKeys(c, l)
  BY DEF TxListEdits
<1> QED BY <1>4, <1>5, Zenon

LEMMA TxKeysFits ==
  ASSUME NEW c, IsCall(c), NEW l
  PROVE  /\ c.method \in {"exists", "unlink", "expire", "expireat", "pexpire", "pexpireat", "ttl"} => Fits(c, TxKeys(c, l), l)
         /\ c.method \notin {"exists", "unlink", "expire", "expireat", "pexpire", "pexpireat", "ttl"} => TxKeys(c, l) = TxSelect(c, l)
<1>1. ASSUME c.method = "exists" PROVE Fits(c, TxKeys(c, l), l)
  <2>1. TxKeys(c, l) = Passes("Exists")
    BY <1>1 DEF TxKeys
  <2> QED BY <1>1, <2>1, PassesFits, Zenon
<1>2. ASSUME c.method = "unlink" PROVE Fits(c, TxKeys(c, l), l)
  <2>1. TxKeys(c, l) = Passes("Unlink")
    BY <1>2 DEF TxKeys
  <2> QED BY <1>2, <2>1, PassesFits, Zenon
<1>3. ASSUME c.method = "expire" PROVE Fits(c, TxKeys(c, l), l)
  <2>1. TxKeys(c, l) = Makes("Expire", <<c.key, Str(c.seconds)>> \o OptionalOption(c.option))
    BY <1>3 DEF TxKeys
  <2> QED BY <1>3, <2>1, ExpireFits, Zenon
<1>4. ASSUME c.method = "expireat" PROVE Fits(c, TxKeys(c, l), l)
  <2>1. TxKeys(c, l) = Makes("ExpireAt", <<c.key, Str(c.unix_seconds)>> \o OptionalOption(c.option))
    BY <1>4 DEF TxKeys
  <2> QED BY <1>4, <2>1, ExpireAtFits, Zenon
<1>5. ASSUME c.method = "pexpire" PROVE Fits(c, TxKeys(c, l), l)
  <2>1. TxKeys(c, l) = Makes("PExpire", <<c.key, Str(c.milliseconds)>> \o OptionalOption(c.option))
    BY <1>5 DEF TxKeys
  <2> QED BY <1>5, <2>1, PExpireFits, Zenon
<1>6. ASSUME c.method = "pexpireat" PROVE Fits(c, TxKeys(c, l), l)
  <2>1. TxKeys(c, l) = Makes("PExpireAt", <<c.key, Str(c.unix_milliseconds)>> \o OptionalOption(c.option))
    BY <1>6 DEF TxKeys
  <2> QED BY <1>6, <2>1, PExpireAtFits, Zenon
<1>7. ASSUME c.method = "ttl" PROVE Fits(c, TxKeys(c, l), l)
  <2>1. TxKeys(c, l) = Makes("TTL", <<c.key>>)
    BY <1>7 DEF TxKeys
  <2> QED BY <1>7, <2>1, KeyFits, Zenon
<1>8. c.method \in {"exists", "unlink", "expire", "expireat", "pexpire", "pexpireat", "ttl"} => Fits(c, TxKeys(c, l), l)
  BY <1>1, <1>2, <1>3, <1>4, <1>5, <1>6, <1>7, Zenon
<1>9. c.method \notin {"exists", "unlink", "expire", "expireat", "pexpire", "pexpireat", "ttl"} => TxKeys(c, l) = TxSelect(c, l)
  BY DEF TxKeys
<1> QED BY <1>8, <1>9, Zenon

LEMMA TxSelectFits ==
  ASSUME NEW c, IsCall(c), NEW l
  PROVE  c.method \in {"select"} => Fits(c, TxSelect(c, l), l)
<1>1. ASSUME c.method = "select" PROVE Fits(c, TxSelect(c, l), l)
  <2>1. TxSelect(c, l) = Makes("Select", <<Str(c.index)>>)
    BY <1>1 DEF TxSelect
  <2> QED BY <1>1, <2>1, SelectFits, Zenon
<1>2. c.method \in {"select"} => Fits(c, TxSelect(c, l), l)
  BY <1>1, Zenon
<1> QED BY <1>2, Zenon

(* The methods of a client, group by group. *)
LEMMA StandaloneCommandFits ==
  ASSUME NEW c, IsCall(c), NEW l
  PROVE  /\ c.method \in {"custom_command", "info"} => Fits(c, StandaloneCommand(c, l), l)
         /\ c.method \notin {"custom_command", "info"} => StandaloneCommand(c, l) = StandaloneServer(c, l)
<1>1. ASSUME c.method = "custom_command" PROVE Fits(c, StandaloneCommand(c, l), l)
  <2>1. StandaloneCommand(c, l) = Passes("CustomCommand")
    BY SMTT(30), <1>1 DEF StandaloneCommand
  <2> QED BY <1>1, <2>1, PassesFits, Zenon
<1>2. ASSUME c.method = "info" PROVE Fits(c, StandaloneCommand(c, l), l)
  <2>1. StandaloneCommand(c, l) = Makes("Info", IF c.sections = None THEN <<>> ELSE l)
    BY <1>2 DEF StandaloneCommand
  <2> QED BY <1>2, <2>1, InfoFits, Zenon
<1>3. c.method \in {"custom_command", "info"} => Fits(c, StandaloneCommand(c, l), l)
  BY <1>1, <1>2, Zenon
<1>4. c.method \notin {"custom_command", "info"} => StandaloneCommand(c, l) = StandaloneServer(c, l)
  BY DEF StandaloneCommand
<1> QED BY <1>3, <1>4, Zenon

LEMMA StandaloneServerFits ==
  ASSUME NEW c, IsCall(c), NEW l
  PROVE  /\ c.method \in {"select", "config_resetstat", "config_rewrite", "client_id", "ping", "config_get", "config_set", "client_getname"} => Fits(c, StandaloneServer(c, l), l)
         /\ c.method \notin {"select", "config_resetstat", "config_rewrite", "client_id", "ping", "config_get", "config_set", "client_getname"} => StandaloneServer(c, l) = CoreSet(c, l)
<1>1. ASSUME c.method = "select" PROVE Fits(c, StandaloneServer(c, l), l)
  <2>1. StandaloneServer(c, l) = Makes("Select", <<Str(c.index)>>)
    BY SMTT(30), <1>1 DEF StandaloneServer
  <2> QED BY <1>1, <2>1, SelectFits, Zenon
<1>2. ASSUME c.method = "config_resetstat" PROVE Fits(c, StandaloneServer(c, l), l)
  <2>1. StandaloneServer(c, l) = Makes("ConfigResetStat", <<>>)
    BY SMTT(30), <1>2 DEF StandaloneServer
  <2> QED BY <1>2, <2>1, BareFits, Zenon
<1>3. ASSUME c.method = "config_rewrite" PROVE Fits(c, StandaloneServer(c, l), l)
  <2>1. StandaloneServer(c, l) = Makes("ConfigRewrite", <<>>)
    BY SMTT(30), <1>3 DEF StandaloneServer
  <2> QED BY <1>3, <2>1, BareFits, Zenon
<1>4. ASSUME c.method = "client_id" PROVE Fits(c, StandaloneServer(c, l), l)
  <2>1. StandaloneServer(c, l) = Makes("ClientId", <<>>)
    BY SMTT(30), <1>4 DEF StandaloneServer
  <2> QED BY <1>4, <2>1, BareFits, Zenon
<1>5. ASSUME c.method = "ping" PROVE Fits(c, StandaloneServer(c, l), l)
  <2>1. StandaloneServer(c, l) = Makes("Ping", Optional(c.message))
    BY SMTT(30), <1>5 DEF StandaloneServer
  <2> QED BY <1>5, <2>1, PingFits, Zenon
<1>6. ASSUME c.method = "config_get" PROVE Fits(c, StandaloneServer(c, l), l)
  <2>1. StandaloneServer(c, l) = Passes("ConfigGet")
    BY SMTT(30), <1>6 DEF StandaloneServer
  <2> QED BY <1>6, <2>1, PassesFits, Zenon
<1>7. ASSUME c.method = "config_set" PROVE Fits(c, StandaloneServer(c, l), l)
  <2>1. StandaloneServer(c, l) = Makes("ConfigSet", Items(c.parameters_map))
    BY SMTT(30), <1>7 DEF StandaloneServer
  <2> QED BY <1>7, <2>1, ConfigSetFits, Zenon
<1>8. ASSUME c.method = "client_getname" PROVE Fits(c, StandaloneServer(c, l), l)
  <2>1. StandaloneServer(c, l) = Makes("ClientGetName", <<>>)
    BY <1>8 DEF StandaloneServer
  <2> QED BY <1>8, <2>1, BareFits, Zenon
<1>9. c.method \in {"select", "config_resetstat", "config_rewrite", "client_id", "ping", "config_get", "config_set", "client_getname"} => Fits(c, StandaloneServer(c, l), l)
  BY <1>1, <1>2, <1>3, <1>4, <1>5, <1>6, <1>7, <1>8, Zenon
<1>10. c.method \notin {"select", "config_resetstat", "config_rewrite", "client_id", "ping", "config_get", "config_set", "client_getname"} => StandaloneServer(c, l) = CoreSet(c, l)
  BY DEF StandaloneServer
<1> QED BY <1>9, <1>10, Zenon

LEMMA CoreSetFits ==
  ASSUME NEW c, IsCall(c), NEW l, c.method = "set" => ~ArgumentsRaise(c) /\ ~Undocumented(c, FALSE)
  PROVE  /\ c.method \in {"set"} => Fits(c, CoreSet(c, l), l)
         /\ c.method \notin {"set"} => CoreSet(c, l) = CoreStrings(c, l)
<1>1. ASSUME c.method = "set" PROVE Fits(c, CoreSet(c, l), l)
  <2>1. CoreSet(c, l) = Makes("SetString", SetArgs(c))
    BY <1>1 DEF CoreSet
  <2> QED BY <1>1, <2>1, SetFits, Zenon
<1>2. c.method \in {"set"} => Fits(c, CoreSet(c, l), l)
  BY <1>1, Zenon
<1>3. c.method \notin {"set"} => CoreSet(c, l) = CoreStrings(c, l)
  BY DEF CoreSet
<1> QED BY <1>2, <1>3, Zenon

LEMMA CoreStringsFits ==
  ASSUME NEW c, IsCall(c), NEW l
  PROVE  /\ c.method \in {"get", "delete", "incr", "incrby", "incrbyfloat", "mset", "mget", "decr", "decrby"} => Fits(c, CoreStrings(c, l), l)
         /\ c.method \notin {"get", "delete", "incr", "incrby", "incrbyfloat", "mset", "mget", "decr", "decrby"} => CoreStrings(c, l) = CoreHashes(c, l)
<1>1. ASSUME c.method = "get" PROVE Fits(c, CoreStrings(c, l), l)
  <2>1. CoreStrings(c, l) = Makes("GetString", <<c.key>>)
    BY SMTT(30), <1>1 DEF CoreStrings
  <2> QED BY <1>1, <2>1, KeyFits, Zenon
<1>2. ASSUME c.method = "delete" PROVE Fits(c, CoreStrings(c, l), l)
  <2>1. CoreStrings(c, l) = Passes("Del")
    BY SMTT(30), <1>2 DEF CoreStrings
  <2> QED BY <1>2, <2>1, PassesFits, Zenon
<1>3. ASSUME c.method = "incr" PROVE Fits(c, CoreStrings(c, l), l)
  <2>1. CoreStrings(c, l) = Makes("Incr", <<c.key>>)
    BY SMTT(30), <1>3 DEF CoreStrings
  <2> QED BY <1>3, <2>1, KeyFits, Zenon
<1>4. ASSUME c.method = "incrby" PROVE Fits(c, CoreStrings(c, l), l)
  <2>1. CoreStrings(c, l) = Makes("IncrBy", <<c.key, Str(c.amount)>>)
    BY SMTT(30), <1>4 DEF CoreStrings
  <2> QED BY <1>4, <2>1, AmountFits, Zenon
<1>5. ASSUME c.method = "incrbyfloat" PROVE Fits(c, CoreStrings(c, l), l)
  <2>1. CoreStrings(c, l) = Makes("IncrByFloat", <<c.key, Str(c.amount)>>)
    BY SMTT(30), <1>5 DEF CoreStrings
  <2> QED BY <1>5, <2>1, AmountFits, Zenon
<1>6. ASSUME c.method = "mset" PROVE Fits(c, CoreStrings(c, l), l)
  <2>1. CoreStrings(c, l) = Makes("MSet", Items(c.key_value_map))
    BY SMTT(30), <1>6 DEF CoreStrings
  <2> QED BY <1>6, <2>1, MSetFits, Zenon
<1>7. ASSUME c.method = "mget" PROVE Fits(c, CoreStrings(c, l), l)
  <2>1. CoreStrings(c, l) = Passes("MGet")
    BY SMTT(30), <1>7 DEF CoreStrings
  <2> QED BY <1>7, <2>1, PassesFits, Zenon
<1>8. ASSUME c.method = "decr" PROVE Fits(c, CoreStrings(c, l), l)
  <2>1. CoreStrings(c, l) = Makes("Decr", <<c.key>>)
    BY SMTT(30), <1>8 DEF CoreStrings
  <2> QED BY <1>8, <2>1, KeyFits, Zenon
<1>9. ASSUME c.method = "decrby" PROVE Fits(c, CoreStrings(c, l), l)
  <2>1. CoreStrings(c, l) = Makes("DecrBy", <<c.key, Str(c.amount)>>)
    BY <1>9 DEF CoreStrings
  <2> QED BY <1>9, <2>1, AmountFits, Zenon
<1>10. c.method \in {"get", "delete", "incr", "incrby", "incrbyfloat", "mset", "mget", "decr", "decrby"} => Fits(c, CoreStrings(c, l), l)
  BY <1>1, <1>2, <1>3, <1>4, <1>5, <1>6, <1>7, <1>8, <1>9, Zenon
<1>11. c.method \notin {"get", "delete", "incr", "incrby", "incrbyfloat", "mset", "mget", "decr", "decrby"} => CoreStrings(c, l) = CoreHashes(c, l)
  BY DEF CoreStrings
<1> QED BY <1>10, <1>11, Zenon

LEMMA CoreHashesFits ==
  ASSUME NEW c, IsCall(c), NEW l
  PROVE  /\ c.method \in {"hset", "hget", "hincrby", "hincrbyfloat", "hexists", "hgetall"} => Fits(c, CoreHashes(c, l), l)
         /\ c.method \notin {"hset", "hget", "hincrby", "hincrbyfloat", "hexists", "hgetall"} => CoreHashes(c, l) = CoreFields(c, l)
<1>1. ASSUME c.method = "hset" PROVE Fits(c, CoreHashes(c, l), l)
  <2>1. CoreHashes(c, l) = Makes("HashSet", <<c.key>> \o Items(c.field_value_map))
    BY SMTT(30), <1>1 DEF CoreHashes
  <2> QED BY <1>1, <2>1, HSetFits, Zenon
<1>2. ASSUME c.method = "hget" PROVE Fits(c, CoreHashes(c, l), l)
  <2>1. CoreHashes(c, l) = Makes("HashGet", <<c.key, c.field>>)
    BY SMTT(30), <1>2 DEF CoreHashes
  <2> QED BY <1>2, <2>1, FieldFits, Zenon
<1>3. ASSUME c.method = "hincrby" PROVE Fits(c, CoreHashes(c, l), l)
  <2>1. CoreHashes(c, l) = Makes("HashIncrBy", <<c.key, c.field, Str(c.amount)>>)
    BY SMTT(30), <1>3 DEF CoreHashes
  <2> QED BY <1>3, <2>1, FieldAmountFits, Zenon
<1>4. ASSUME c.method = "hincrbyfloat" PROVE Fits(c, CoreHashes(c, l), l)
  <2>1. CoreHashes(c, l) = Makes("HashIncrByFloat", <<c.key, c.field, Str(c.amount)>>)
    BY SMTT(30), <1>4 DEF CoreHashes
  <2> QED BY <1>4, <2>1, FieldAmountFits, Zenon
<1>5. ASSUME c.method = "hexists" PROVE Fits(c, CoreHashes(c, l), l)
  <2>1. CoreHashes(c, l) = Makes("HashExists", <<c.key, c.field>>)
    BY SMTT(30), <1>5 DEF CoreHashes
  <2> QED BY <1>5, <2>1, FieldFits, Zenon
<1>6. ASSUME c.method = "hgetall" PROVE Fits(c, CoreHashes(c, l), l)
  <2>1. CoreHashes(c, l) = Makes("HashGetAll", <<c.key>>)
    BY <1>6 DEF CoreHashes
  <2> QED BY <1>6, <2>1, KeyFits, Zenon
<1>7. c.method \in {"hset", "hget", "hincrby", "hincrbyfloat", "hexists", "hgetall"} => Fits(c, CoreHashes(c, l), l)
  BY <1>1, <1>2, <1>3, <1>4, <1>5, <1>6, Zenon
<1>8. c.method \notin {"hset", "hget", "hincrby", "hincrbyfloat", "hexists", "hgetall"} => CoreHashes(c, l) = CoreFields(c, l)
  BY DEF CoreHashes
<1> QED BY <1>7, <1>8, Zenon

LEMMA CoreFieldsFits ==
  ASSUME NEW c, IsCall(c), NEW l
  PROVE  /\ c.method \in {"hmget", "hdel"} => Fits(c, CoreFields(c, l), l)
         /\ c.method \notin {"hmget", "hdel"} => CoreFields(c, l) = CoreLists(c, l)
<1>1. ASSUME c.method = "hmget" PROVE Fits(c, CoreFields(c, l), l)
  <2>1. CoreFields(c, l) = Makes("HashMGet", <<c.key>> \o l)
    BY SMTT(30), <1>1 DEF CoreFields
  <2> QED BY <1>1, <2>1, ListFits, Zenon
<1>2. ASSUME c.method = "hdel" PROVE Fits(c, CoreFields(c, l), l)
  <2>1. CoreFields(c, l) = Makes("HashDel", <<c.key>> \o l)
    BY <1>2 DEF CoreFields
  <2> QED BY <1>2, <2>1, ListFits, Zenon
<1>3. c.method \in {"hmget", "hdel"} => Fits(c, CoreFields(c, l), l)
  BY <1>1, <1>2, Zenon
<1>4. c.method \notin {"hmget", "hdel"} => CoreFields(c, l) = CoreLists(c, l)
  BY DEF CoreFields
<1> QED BY <1>3, <1>4, Zenon

LEMMA CoreListsFits ==
  ASSUME NEW c, IsCall(c), NEW l, c.method = "lpop" => c.count = None
  PROVE  /\ c.method \in {"lpush", "lpop", "lpop_count", "lrange", "rpush"} => Fits(c, CoreLists(c, l), l)
         /\ c.method \notin {"lpush", "lpop", "lpop_count", "lrange", "rpush"} => CoreLists(c, l) = CorePops(c, l)
<1>1. ASSUME c.method = "lpush" PROVE Fits(c, CoreLists(c, l), l)
  <2>1. CoreLists(c, l) = Makes("LPush", <<c.key>> \o l)
    BY <1>1 DEF CoreLists
  <2> QED BY <1>1, <2>1, ListFits, Zenon
<1>2. ASSUME c.method = "lpop" PROVE Fits(c, CoreLists(c, l), l)
  <2>1. CoreLists(c, l) = Makes("LPop", <<c.key>>)
    BY <1>2 DEF CoreLists
  <2> QED BY <1>2, <2>1, BarePopFits, Zenon
<1>3. ASSUME c.method = "lpop_count" PROVE Fits(c, CoreLists(c, l), l)
  <2>1. CoreLists(c, l) = Makes("LPop", <<c.key, Str(c.count)>>)
    BY <1>3 DEF CoreLists
  <2> QED BY <1>3, <2>1, CountFits, Zenon
<1>4. ASSUME c.method = "lrange" PROVE Fits(c, CoreLists(c, l), l)
  <2>1. CoreLists(c, l) = Makes("LRange", <<c.key, Str(c.start), Str(c.end)>>)
    BY <1>4 DEF CoreLists
  <2> QED BY <1>4, <2>1, RangeFits, Zenon
<1>5. ASSUME c.method = "rpush" PROVE Fits(c, CoreLists(c, l), l)
  <2>1. CoreLists(c, l) = Makes("RPush", <<c.key>> \o l)
    BY <1>5 DEF CoreLists
  <2> QED BY <1>5, <2>1, ListFits, Zenon
<1>6. c.method \in {"lpush", "lpop", "lpop_count", "lrange", "rpush"} => Fits(c, CoreLists(c, l), l)
  BY <1>1, <1>2, <1>3, <1>4, <1>5, Zenon
<1>7. c.method \notin {"lpush", "lpop", "lpop_count", "lrange", "rpush"} => CoreLists(c, l) = CorePops(c, l)
  BY DEF CoreLists
<1> QED BY <1>6, <1>7, Zenon

LEMMA CorePopsFits ==
  ASSUME NEW c, IsCall(c), NEW l, c.method = "rpop" => c.count = None
  PROVE  /\ c.method \in {"rpop", "rpop_count"} => Fits(c, CorePops(c, l), l)
         /\ c.method \notin {"rpop", "rpop_count"} => CorePops(c, l) = CoreSets(c, l)
<1>1. ASSUME c.method = "rpop" PROVE Fits(c, CorePops(c, l), l)
  <2>1. CorePops(c, l) = Makes("RPop", <<c.key>>)
    BY <1>1 DEF CorePops
  <2> QED BY <1>1, <2>1, BarePopFits, Zenon
<1>2. ASSUME c.method = "rpop_count" PROVE Fits(c, CorePops(c, l), l)
  <2>1. CorePops(c, l) = Makes("RPop", <<c.key, Str(c.count)>>)
    BY <1>2 DEF CorePops
  <2> QED BY <1>2, <2>1, CountFits, Zenon
<1>3. c.method \in {"rpop", "rpop_count"} => Fits(c, CorePops(c, l), l)
  BY <1>1, <1>2, Zenon
<1>4. c.method \notin {"rpop", "rpop_count"} => CorePops(c, l) = CoreSets(c, l)
  BY SMTT(30) DEF CorePops
<1> QED BY <1>3, <1>4, Zenon

LEMMA CoreSetsFits ==
  ASSUME NEW c, IsCall(c), NEW l
  PROVE  /\ c.method \in {"sadd", "srem", "smembers", "scard"} => Fits(c, CoreSets(c, l), l)
         /\ c.method \notin {"sadd", "srem", "smembers", "scard"} => CoreSets(c, l) = CoreListEdits(c, l)
<1>1. ASSUME c.method = "sadd" PROVE Fits(c, CoreSets(c, l), l)
  <2>1. CoreSets(c, l) = Makes("SAdd", <<c.key>> \o l)
    BY <1>1 DEF CoreSets
  <2> QED BY <1>1, <2>1, ListFits, Zenon
<1>2. ASSUME c.method = "srem" PROVE Fits(c, CoreSets(c, l), l)
  <2>1. CoreSets(c, l) = Makes("SRem", <<c.key>> \o l)
    BY <1>2 DEF CoreSets
  <2> QED BY <1>2, <2>1, ListFits, Zenon
<1>3. ASSUME c.method = "smembers" PROVE Fits(c, CoreSets(c, l), l)
  <2>1. CoreSets(c, l) = Makes("SMembers", <<c.key>>)
    BY <1>3 DEF CoreSets
  <2> QED BY <1>3, <2>1, KeyFits, Zenon
<1>4. ASSUME c.method = "scard" PROVE Fits(c, CoreSets(c, l), l)
  <2>1. CoreSets(c, l) = Makes("SCard", <<c.key>>)
    BY <1>4 DEF CoreSets
  <2> QED BY <1>4, <2>1, KeyFits, Zenon
<1>5. c.method \in {"sadd", "srem", "smembers", "scard"} => Fits(c, CoreSets(c, l), l)
  BY <1>1, <1>2, <1>3, <1>4, Zenon
<1>6. c.method \notin {"sadd", "srem", "smembers", "scard"} => CoreSets(c, l) = CoreListEdits(c, l)
  BY DEF CoreSets
<1> QED BY <1>5, <1>6, Zenon

LEMMA CoreListEditsFits ==
  ASSUME NEW c, IsCall(c), NEW l
  PROVE  /\ c.method \in {"ltrim", "lrem", "llen"} => Fits(c, CoreListEdits(c, l), l)
         /\ c.method \notin {"ltrim", "lrem", "llen"} => CoreListEdits(c, l) = CoreKeys(c, l)
<1>1. ASSUME c.method = "ltrim" PROVE Fits(c, CoreListEdits(c, l), l)
  <2>1. CoreListEdits(c, l) = Makes("LTrim", <<c.key, Str(c.start), Str(c.end)>>)
    BY <1>1 DEF CoreListEdits
  <2> QED BY <1>1, <2>1, RangeFits, Zenon
<1>2. ASSUME c.method = "lrem" PROVE Fits(c, CoreListEdits(c, l), l)
  <2>1. CoreListEdits(c, l) = Makes("LRem", <<c.key, Str(c.count), c.element>>)
    BY <1>2 DEF CoreListEdits
  <2> QED BY <1>2, <2>1, LRemFits, Zenon
<1>3. ASSUME c.method = "llen" PROVE Fits(c, CoreListEdits(c, l), l)
  <2>1. CoreListEdits(c, l) = Makes("LLen", <<c.key>>)
    BY <1>3 DEF CoreListEdits
  <2> QED BY <1>3, <2>1, KeyFits, Zenon
<1>4. c.method \in {"ltrim", "lrem", "llen"} => Fits(c, CoreListEdits(c, l), l)
  BY <1>1, <1>2, <1>3, Zenon
<1>5. c.method \notin {"ltrim", "lrem", "llen"} => CoreListEdits(c, l) = CoreKeys(c, l)
  BY DEF CoreListEdits
<1> QED BY <1>4, <1>5, Zenon

LEMMA CoreKeysFits ==
  ASSUME NEW c, IsCall(c), NEW l
  PROVE  /\ c.method \in {"exists", "unlink"} => Fits(c, CoreKeys(c, l), l)
         /\ c.method \notin {"exists", "unlink"} => CoreKeys(c, l) = CoreExpiry(c, l)
<1>1. ASSUME c.method = "exists" PROVE Fits(c, CoreKeys(c, l), l)
  <2>1. CoreKeys(c, l) = Passes("Exists")
    BY SMTT(30), <1>1 DEF CoreKeys
  <2> QED BY <1>1, <2>1, PassesFits, Zenon
<1>2. ASSUME c.method = "unlink" PROVE Fits(c, CoreKeys(c, l), l)
  <2>1. CoreKeys(c, l) = Passes("Unlink")
    BY <1>2 DEF CoreKeys
  <2> QED BY <1>2, <2>1, PassesFits, Zenon
<1>3. c.method \in {"exists", "unlink"} => Fits(c, CoreKeys(c, l), l)
  BY <1>1, <1>2, Zenon
<1>4. c.method \notin {"exists", "unlink"} => CoreKeys(c, l) = CoreExpiry(c, l)
  BY DEF CoreKeys
<1> QED BY <1>3, <1>4, Zenon

LEMMA CoreExpiryFits ==
  ASSUME NEW c, IsCall(c), NEW l
  PROVE  c.method \in {"expire", "expireat", "pexpire", "pexpireat", "ttl"} => Fits(c, CoreExpiry(c, l), l)
<1>1. ASSUME c.method = "expire" PROVE Fits(c, CoreExpiry(c, l), l)
  <2>1. CoreExpiry(c, l) = Makes("Expire", <<c.key, Str(c.seconds)>> \o OptionalOption(c.option))
    BY SMTT(30), <1>1 DEF CoreExpiry
  <2> QED BY <1>1, <2>1, ExpireFits, Zenon
<1>2. ASSUME c.method = "expireat" PROVE Fits(c, CoreExpiry(c, l), l)
  <2>1. CoreExpiry(c, l) = Makes("ExpireAt", <<c.key, Str(c.unix_seconds)>> \o OptionalOption(c.option))
    BY SMTT(30), <1>2 DEF CoreExpiry
  <2> QED BY <1>2, <2>1, ExpireAtFits, Zenon
<1>3. ASSUME c.method = "pexpire" PROVE Fits(c, CoreExpiry(c, l), l)
  <2>1. CoreExpiry(c, l) = Makes("PExpire", <<c.key, Str(c.milliseconds)>> \o OptionalOption(c.option))
    BY SMTT(30), <1>3 DEF CoreExpiry
  <2> QED BY <1>3, <2>1, PExpireFits, Zenon
<1>4. ASSUME c.method = "pexpireat" PROVE Fits(c, CoreExpiry(c, l), l)
  <2>1. CoreExpiry(c, l) = Makes("PExpireAt", <<c.key, Str(c.unix_milliseconds)>> \o OptionalOption(c.option))
    BY SMTT(30), <1>4 DEF CoreExpiry
  <2> QED BY <1>4, <2>1, PExpireAtFits, Zenon
<1>5. ASSUME c.method = "ttl" PROVE Fits(c, CoreExpiry(c, l), l)
  <2>1. CoreExpiry(c, l) = Makes("TTL", <<c.key>>)
    BY <1>5 DEF CoreExpiry
  <2> QED BY <1>5, <2>1, KeyFits, Zenon
<1>6. c.method \in {"expire", "expireat", "pexpire", "pexpireat", "ttl"} => Fits(c, CoreExpiry(c, l), l)
  BY <1>1, <1>2, <1>3, <1>4, <1>5, Zenon
<1> QED BY <1>6, Zenon

LEMMA ClusterCommandFits ==
  ASSUME NEW c, IsCall(c), NEW l
  PROVE  /\ c.method \in {"custom_command", "info"} => Fits(c, ClusterCommand(c, l), l)
         /\ c.method \notin {"custom_command", "info"} => ClusterCommand(c, l) = ClusterServer(c, l)
<1>1. ASSUME c.method = "custom_command" PROVE Fits(c, ClusterCommand(c, l), l)
  <2>1. ClusterCommand(c, l) = Passes("CustomCommand")
    BY <1>1 DEF ClusterCommand
  <2> QED BY <1>1, <2>1, PassesFits, Zenon
<1>2. ASSUME c.method = "info" PROVE Fits(c, ClusterCommand(c, l), l)
  <2>1. ClusterCommand(c, l) = Makes("Info", IF c.sections = None THEN <<>> ELSE l)
    BY <1>2 DEF ClusterCommand
  <2> QED BY <1>2, <2>1, InfoFits, Zenon
<1>3. c.method \in {"custom_command", "info"} => Fits(c, ClusterCommand(c, l), l)
  BY <1>1, <1>2, Zenon
<1>4. c.method \notin {"custom_command", "info"} => ClusterCommand(c, l) = ClusterServer(c, l)
  BY DEF ClusterCommand
<1> QED BY <1>3, <1>4, Zenon

LEMMA ClusterServerFits ==
  ASSUME NEW c, IsCall(c), NEW l
  PROVE  /\ c.method \in {"config_resetstat", "config_rewrite", "client_id", "ping", "config_get", "config_set", "client_getname"} => Fits(c, ClusterServer(c, l), l)
         /\ c.method \notin {"config_resetstat", "config_rewrite", "client_id", "ping", "config_get", "config_set", "client_getname"} => ClusterServer(c, l) = CoreSet(c, l)
<1>1. ASSUME c.method = "config_resetstat" PROVE Fits(c, ClusterServer(c, l), l)
  <2>1. ClusterServer(c, l) = Makes("ConfigResetStat", <<>>)
    BY SMTT(30), <1>1 DEF ClusterServer
  <2> QED BY <1>1, <2>1, BareFits, Zenon
<1>2. ASSUME c.method = "config_rewrite" PROVE Fits(c, ClusterServer(c, l), l)
  <2>1. ClusterServer(c, l) = Makes("ConfigRewrite", <<>>)
    BY SMTT(30), <1>2 DEF ClusterServer
  <2> QED BY <1>2, <2>1, BareFits, Zenon
<1>3. ASSUME c.method = "client_id" PROVE Fits(c, ClusterServer(c, l), l)
  <2>1. ClusterServer(c, l) = Makes("ClientId", <<>>)
    BY SMTT(30), <1>3 DEF ClusterServer
  <2> QED BY <1>3, <2>1, BareFits, Zenon
<1>4. ASSUME c.method = "ping" PROVE Fits(c, ClusterServer(c, l), l)
  <2>1. ClusterServer(c, l) = Makes("Ping", Optional(c.message))
    BY SMTT(30), <1>4 DEF ClusterServer
  <2> QED BY <1>4, <2>1, PingFits, Zenon
<1>5. ASSUME c.method = "config_get" PROVE Fits(c, ClusterServer(c, l), l)
  <2>1. ClusterServer(c, l) = Passes("ConfigGet")
    BY SMTT(30), <1>5 DEF ClusterServer
  <2> QED BY <1>5, <2>1, PassesFits, Zenon
<1>6. ASSUME c.method = "config_set" PROVE Fits(c, ClusterServer(c, l), l)
  <2>1. ClusterServer(c, l) = Makes("ConfigSet", Items(c.parameters_map))
    BY SMTT(30), <1>6 DEF ClusterServer
  <2> QED BY <1>6, <2>1, ConfigSetFits, Zenon
<1>7. ASSUME c.method = "client_getname" PROVE Fits(c, ClusterServer(c, l), l)
  <2>1. ClusterServer(c, l) = Makes("ClientGetName", <<>>)
    BY <1>7 DEF ClusterServer
  <2> QED BY <1>7, <2>1, BareFits, Zenon
<1>8. c.method \in {"config_resetstat", "config_rewrite", "client_id", "ping", "config_get", "config_set", "client_getname"} => Fits(c, ClusterServer(c, l), l)
  BY <1>1, <1>2, <1>3, <1>4, <1>5, <1>6, <1>7, Zenon
<1>9. c.method \notin {"config_resetstat", "config_rewrite", "client_id", "ping", "config_get", "config_set", "client_getname"} => ClusterServer(c, l) = CoreSet(c, l)
  BY DEF ClusterServer
<1> QED BY <1>8, <1>9, Zenon

(* Every method of a transaction makes the request it documents. *)
LEMMA TransactionFits ==
  ASSUME NEW c, IsCall(c), NEW l,
         c.method \notin {"lpop_count", "rpop_count"}, ~ArgumentsRaise(c), ~Undocumented(c, FALSE)
  PROVE  Fits(c, TransactionCommand(c, l), l)
<1> DEFINE M1 == {"get", "set"}
           M2 == {"custom_command", "info", "delete", "config_get", "config_set", "config_resetstat", "mset", "mget", "config_rewrite", "client_id"}
           M3 == {"incr", "incrby", "incrbyfloat", "ping", "decr", "decrby"}
           M4 == {"hset", "hget", "hincrby", "hincrbyfloat", "hexists", "client_getname", "hgetall", "hmget", "hdel"}
           M5 == {"lpush", "lpop", "lrange", "rpush", "rpop"}
           M6 == {"sadd", "srem", "smembers", "scard"}
           M7 == {"ltrim", "lrem", "llen"}
           M8 == {"exists", "unlink", "expire", "expireat", "pexpire", "pexpireat", "ttl"}
           M9 == {"select"}
<1>1. c.method \in M1 \/ c.method \in M2 \/ c.method \in M3 \/ c.method \in M4 \/ c.method \in M5 \/ c.method \in M6 \/ c.method \in M7 \/ c.method \in M8 \/ c.method \in M9
  BY DEF IsCall, Methods
<1>2. /\ c.method \in M1 => Fits(c, TransactionCommand(c, l), l)
      /\ c.method \notin M1 => TransactionCommand(c, l) = TxServer(c, l)
  BY TransactionCommandFits, Zenon
<1>3. /\ c.method \in M2 => Fits(c, TxServer(c, l), l)
      /\ c.method \notin M2 => TxServer(c, l) = TxStrings(c, l)
  BY TxServerFits, Zenon
<1>4. /\ c.method \in M3 => Fits(c, TxStrings(c, l), l)
      /\ c.method \notin M3 => TxStrings(c, l) = TxHashes(c, l)
  BY TxStringsFits, Zenon
<1>5. /\ c.method \in M4 => Fits(c, TxHashes(c, l), l)
      /\ c.method \notin M4 => TxHashes(c, l) = TxLists(c, l)
  BY TxHashesFits, Zenon
<1>6. /\ c.method \in M5 => Fits(c, TxLists(c, l), l)
      /\ c.method \notin M5 => TxLists(c, l) = TxSets(c, l)
  BY TxListsFits, Zenon
<1>7. /\ c.method \in M6 => Fits(c, TxSets(c, l), l)
      /\ c.method \notin M6 => TxSets(c, l) = TxListEdits(c, l)
  BY TxSetsFits, Zenon
<1>8. /\ c.method \in M7 => Fits(c, TxListEdits(c, l), l)
      /\ c.method \notin M7 => TxListEdits(c, l) = TxKeys(c, l)
  BY TxListEditsFits, Zenon
<1>9. /\ c.method \in M8 => Fits(c, TxKeys(c, l), l)
      /\ c.method \notin M8 => TxKeys(c, l) = TxSelect(c, l)
  BY TxKeysFits, Zenon
<1>10. c.method \in M9 => Fits(c, TxSelect(c, l), l)
  BY TxSelectFits
<1> HIDE DEF M1, M2, M3, M4, M5, M6, M7, M8, M9
<1> QED BY <1>1, <1>2, <1>3, <1>4, <1>5, <1>6, <1>7, <1>8, <1>9, <1>10, Zenon

(* So does every method of a standalone client ... *)
LEMMA StandaloneFits ==
  ASSUME NEW c, IsCall(c), NEW l,
         c.method = "lpop" => c.count = None, ~ArgumentsRaise(c), ~Undocumented(c, TRUE)
  PROVE  Fits(c, StandaloneCommand(c, l), l)
<1> DEFINE M1 == {"custom_command", "info"}
           M2 == {"select", "config_resetstat", "config_rewrite", "client_id", "ping", "config_get", "config_set", "client_getname"}
           M3 == {"set"}
           M4 == {"get", "delete", "incr", "incrby", "incrbyfloat", "mset", "mget", "decr", "decrby"}
           M5 == {"hset", "hget", "hincrby", "hincrbyfloat", "hexists", "hgetall"}
           M6 == {"hmget", "hdel"}
           M7 == {"lpush", "lpop", "lpop_count", "lrange", "rpush"}
           M8 == {"rpop", "rpop_count"}
           M9 == {"sadd", "srem", "smembers", "scard"}
           M10 == {"ltrim", "lrem", "llen"}
           M11 == {"exists", "unlink"}
           M12 == {"expire", "expireat", "pexpire", "pexpireat", "ttl"}
<1>1. c.method \in M1 \/ c.method \in M2 \/ c.method \in M3 \/ c.method \in M4 \/ c.method \in M5 \/ c.method \in M6 \/ c.method \in M7 \/ c.method \in M8 \/ c.method \in M9 \/ c.method \in M10 \/ c.method \in M11 \/ c.method \in M12
  BY DEF IsCall, Methods
<1> c.method = "rpop" => c.count = None
  BY DEF Undocumented
<1> ~Undocumented(c, FALSE)
  BY DEF Undocumented
<1>2. /\ c.method \in M1 => Fits(c, StandaloneCommand(c, l), l)
      /\ c.method \notin M1 => StandaloneCommand(c, l) = StandaloneServer(c, l)
  BY StandaloneCommandFits, Zenon
<1>3. /\ c.method \in M2 => Fits(c, StandaloneServer(c, l), l)
      /\ c.method \notin M2 => StandaloneServer(c, l) = CoreSet(c, l)
  BY StandaloneServerFits, Zenon
<1>4. /\ c.method \in M3 => Fits(c, CoreSet(c, l), l)
      /\ c.method \notin M3 => CoreSet(c, l) = CoreStrings(c, l)
  BY CoreSetFits, Zenon
<1>5. /\ c.method \in M4 => Fits(c, CoreStrings(c, l), l)
      /\ c.method \notin M4 => CoreStrings(c, l) = CoreHashes(c, l)
  BY CoreStringsFits, Zenon
<1>6. /\ c.method \in M5 => Fits(c, CoreHashes(c, l), l)
      /\ c.method \notin M5 => CoreHashes(c, l) = CoreFields(c, l)
  BY CoreHashesFits, Zenon
<1>7. /\ c.method \in M6 => Fits(c, CoreFields(c, l), l)
      /\ c.method \notin M6 => CoreFields(c, l) = CoreLists(c, l)
  BY CoreFieldsFits, Zenon
<1>8. /\ c.method \in M7 => Fits(c, CoreLists(c, l), l)
      /\ c.method \notin M7 => CoreLists(c, l) = CorePops(c, l)
  BY CoreListsFits, Zenon
<1>9. /\ c.method \in M8 => Fits(c, CorePops(c, l), l)
      /\ c.method \notin M8 => CorePops(c, l) = CoreSets(c, l)
  BY CorePopsFits, Zenon
<1>10. /\ c.method \in M9 => Fits(c, CoreSets(c, l), l)
       /\ c.method \notin M9 => CoreSets(c, l) = CoreListEdits(c, l)
  BY CoreSetsFits, Zenon
<1>11. /\ c.method \in M10 => Fits(c, CoreListEdits(c, l), l)
       /\ c.method \notin M10 => CoreListEdits(c, l) = CoreKeys(c, l)
  BY CoreListEditsFits, Zenon
<1>12. /\ c.method \in M11 => Fits(c, CoreKeys(c, l), l)
       /\ c.method \notin M11 => CoreKeys(c, l) = CoreExpiry(c, l)
  BY CoreKeysFits, Zenon
<1>13. c.method \in M12 => Fits(c, CoreExpiry(c, l), l)
  BY SMTT(30), CoreExpiryFits
<1> HIDE DEF M1, M2, M3, M4, M5, M6, M7, M8, M9, M10, M11, M12
<1> QED BY <1>1, <1>2, <1>3, <1>4, <1>5, <1>6, <1>7, <1>8, <1>9, <1>10, <1>11, <1>12, <1>13, Zenon

(* ... and of a cluster client. *)
LEMMA ClusterFits ==
  ASSUME NEW c, IsCall(c), NEW l,
         c.method = "lpop" => c.count = None, ~ArgumentsRaise(c), ~Undocumented(c, TRUE), c.method # "select"
  PROVE  Fits(c, ClusterCommand(c, l), l)
<1> DEFINE M1 == {"custom_command", "info"}
           M2 == {"config_resetstat", "config_rewrite", "client_id", "ping", "config_get", "config_set", "client_getname"}
           M3 == {"set"}
           M4 == {"get", "delete", "incr", "incrby", "incrbyfloat", "mset", "mget", "decr", "decrby"}
           M5 == {"hset", "hget", "hincrby", "hincrbyfloat", "hexists", "hgetall"}
           M6 == {"hmget", "hdel"}
           M7 == {"lpush", "lpop", "lpop_count", "lrange", "rpush"}
           M8 == {"rpop", "rpop_count"}
           M9 == {"sadd", "srem", "smembers", "scard"}
           M10 == {"ltrim", "lrem", "llen"}
           M11 == {"exists", "unlink"}
           M12 == {"expire", "expireat", "pexpire", "pexpireat", "ttl"}
<1>1. c.method \in M1 \/ c.method \in M2 \/ c.method \in M3 \/ c.method \in M4 \/ c.method \in M5 \/ c.method \in M6 \/ c.method \in M7 \/ c.method \in M8 \/ c.method \in M9 \/ c.method \in M10 \/ c.method \in M11 \/ c.method \in M12
  BY DEF IsCall, Methods
<1> c.method = "rpop" => c.count = None
  BY DEF Undocumented
<1> ~Undocumented(c, FALSE)
  BY DEF Undocumented
<1>2. /\ c.method \in M1 => Fits(c, ClusterCommand(c, l), l)
      /\ c.method \notin M1 => ClusterCommand(c, l) = ClusterServer(c, l)
  BY ClusterCommandFits, Zenon
<1>3. /\ c.method \in M2 => Fits(c, ClusterServer(c, l), l)
      /\ c.method \notin M2 => ClusterServer(c, l) = CoreSet(c, l)
  BY ClusterServerFits, Zenon
<1>4. /\ c.method \in M3 => Fits(c, CoreSet(c, l), l)
      /\ c.method \notin M3 => CoreSet(c, l) = CoreStrings(c, l)
  BY CoreSetFits, Zenon
<1>5. /\ c.method \in M4 => Fits(c, CoreStrings(c, l), l)
      /\ c.method \notin M4 => CoreStrings(c, l) = CoreHashes(c, l)
  BY CoreStringsFits, Zenon
<1>6. /\ c.method \in M5 => Fits(c, CoreHashes(c, l), l)
      /\ c.method \notin M5 => CoreHashes(c, l) = CoreFields(c, l)
  BY CoreHashesFits, Zenon
<1>7. /\ c.method \in M6 => Fits(c, CoreFields(c, l), l)
      /\ c.method \notin M6 => CoreFields(c, l) = CoreLists(c, l)
  BY CoreFieldsFits, Zenon
<1>8. /\ c.method \in M7 => Fits(c, CoreLists(c, l), l)
      /\ c.method \notin M7 => CoreLists(c, l) = CorePops(c, l)
  BY CoreListsFits, Zenon
<1>9. /\ c.method \in M8 => Fits(c, CorePops(c, l), l)
      /\ c.method \notin M8 => CorePops(c, l) = CoreSets(c, l)
  BY CorePopsFits, Zenon
<1>10. /\ c.method \in M9 => Fits(c, CoreSets(c, l), l)
       /\ c.method \notin M9 => CoreSets(c, l) = CoreListEdits(c, l)
  BY CoreSetsFits, Zenon
<1>11. /\ c.method \in M10 => Fits(c, CoreListEdits(c, l), l)
       /\ c.method \notin M10 => CoreListEdits(c, l) = CoreKeys(c, l)
  BY CoreListEditsFits, Zenon
<1>12. /\ c.method \in M11 => Fits(c, CoreKeys(c, l), l)
       /\ c.method \notin M11 => CoreKeys(c, l) = CoreExpiry(c, l)
  BY CoreKeysFits, Zenon
<1>13. c.method \in M12 => Fits(c, CoreExpiry(c, l), l)
  BY CoreExpiryFits
<1> HIDE DEF M1, M2, M3, M4, M5, M6, M7, M8, M9, M10, M11, M12
<1> QED BY <1>1, <1>2, <1>3, <1>4, <1>5, <1>6, <1>7, <1>8, <1>9, <1>10, <1>11, <1>12, <1>13, Zenon

-----------------------------------------------------------------------------
(* The command that the core sends *)

(* The command is the documented one, with the caller's list as it was when *)
(* the method ran or, where the method keeps it, as it is `now'.            *)
AsDocumented(c, sent, l, now) ==
  \E contents \in {l} \union (IF KeepsList(c) THEN {now} ELSE {}) : sent \in Documented(c, contents)

(* A method that keeps the caller's list has it as its one parameter. *)
LEMMA KeptList ==
  ASSUME NEW c, IsCall(c), KeepsList(c), NEW l
  PROVE  Parameters(c, l, Signature(c.method)) = l
<1>1. PICK p \in {"keys", "parameters", "command_args"} :
        Signature(c.method) = <<p>>
  BY Zenon DEF KeepsList, Signature
<1>2. p \in Range(Signature(c.method))
  BY <1>1, TupleRange, Zenon
<1>3. p \notin MayBeNone(c.method)
  BY DEF MayBeNone
<1>4. c[p] # None
  BY <1>2, <1>3, ValueGiven, Zenon
<1>5. p \in {"keys", "fields", "elements", "members", "sections", "parameters", "command_args"}
  OBVIOUS
<1>6. Words(c, p, l) = l
  BY <1>4, <1>5, ListWords, Zenon
<1> QED BY <1>1, <1>6, OneParameter, Zenon

LEMMA JoinNone ==
  ASSUME NEW s, IsSeq(s)
  PROVE  <<>> \o s = s
BY DEF IsSeq

(* A request that fits its call is sent as the documented command. *)
LEMMA FittingIsSent ==
  ASSUME NEW c, IsCall(c), NEW request, NEW l, Fits(c, request, l), NEW now, IsSeq(now)
  PROVE  AsDocumented(c, GetRedisCommand([type |-> request.type, args |-> ArgsOf(request, now)]), l, now)
<1> DEFINE sent == GetRedisCommand([type |-> request.type, args |-> ArgsOf(request, now)])
<1>1. sent = GetCommand(request.type) \o ArgsOf(request, now)
  BY DEF GetRedisCommand
<1> HIDE DEF sent
<1>2. CASE KeepsList(c)
  <2>1. ArgsOf(request, now) = <<>> \o now /\ GetCommand(request.type) = Name(c.method)
    BY <1>2, Zenon DEF Fits, ArgsOf
  <2>2. ArgsOf(request, now) = Parameters(c, now, Signature(c.method)) /\ c.method # "set"
    BY <1>2, <2>1, JoinNone, KeptList, Zenon DEF KeepsList
  <2>3. sent \in Documented(c, now)
    BY <1>1, <2>1, <2>2, Zenon DEF Documented
  <2>4. AsDocumented(c, sent, l, now)
    BY <1>2, <2>3, Zenon DEF AsDocumented
  <2> QED BY <2>4 DEF sent
<1>3. CASE ~KeepsList(c)
  <2>1. ArgsOf(request, now) = request.args /\ GetCommand(request.type) \o request.args \in Documented(c, l)
    BY <1>3, Zenon DEF Fits, ArgsOf
  <2>2. AsDocumented(c, sent, l, now)
    BY <1>1, <2>1, Zenon DEF AsDocumented
  <2> QED BY <2>2 DEF sent
<1> QED BY SMTT(30), <1>2, <1>3

=============================================================================
