--------------------------- MODULE FramingProofs ----------------------------
(***************************************************************************)
(* Proofs about Framing: messages of any number and any length, read in    *)
(* pieces of any size, for every base and every limit on a varint.         *)
(*                                                                         *)
(* The encoder, the value of a varint and the readers' loops are recursive *)
(* functions.  What they compute is proved by induction: a set of numbers  *)
(* with 0 and closed under successor is Nat (SetInduction), and a function *)
(* that calls itself on a smaller argument exists (Recursion).             *)
(***************************************************************************)
EXTENDS Framing, WellFoundedInduction, TLAPS

-----------------------------------------------------------------------------
(* Induction and recursion *)

(* A nonempty set of numbers has a least one. *)
LEMMA LeastNat ==
  ASSUME NEW T \in SUBSET Nat, T # {}
  PROVE  \E x \in T : \A y \in T : x <= y
<1> DEFINE R == {ss \in Nat \X Nat : ss[1] < ss[2]}
<1>1. IsWellFoundedOn(R, Nat)
  BY NatLessThanWellFounded DEF OpToRel
<1>2. PICK x \in T : \A y \in T : ~(<<y, x>> \in R)
  <2> HIDE DEF R
  <2> QED BY <1>1, WFMin, Zenon
<1>3. ASSUME NEW y \in T PROVE x <= y
  <2>1. ~(y < x)
    BY ZenonT(30), <1>2
  <2> QED BY <2>1
<1> QED BY <1>3

(* Induction, for a set in the place of a property. *)
LEMMA SetInduction ==
  ASSUME NEW S \in SUBSET Nat, 0 \in S, \A n \in S : n + 1 \in S
  PROVE  S = Nat
<1> SUFFICES ASSUME Nat \ S # {} PROVE FALSE
  BY ZenonT(30)
<1>1. PICK x \in Nat \ S : \A y \in Nat \ S : x <= y
  BY ZenonT(30), LeastNat
<1>2. x # 0 /\ x - 1 \in Nat
  BY <1>1
<1>3. x - 1 \in S
  BY <1>1, <1>2
<1> QED BY <1>1, <1>2, <1>3

LEMMA StrongInduction ==
  ASSUME NEW T \in SUBSET Nat, \A n \in Nat : (\A m \in Nat : m < n => m \in T) => n \in T
  PROVE  T = Nat
<1> SUFFICES ASSUME Nat \ T # {} PROVE FALSE
  BY ZenonT(30)
<1>1. PICK x \in Nat \ T : \A y \in Nat \ T : x <= y
  BY ZenonT(30), LeastNat
<1> QED BY <1>1

(* What a recursive function on S with values in D is made of: a measure of its
   arguments, those on which it calls itself, the argument of that call, which
   is smaller, what it makes of the result, and its value on the others. *)
Recursive(S, D, mu, Go, next, step, end) ==
  /\ mu \in [S -> Nat] /\ Go \in SUBSET S
  /\ next \in [Go -> S] /\ step \in [Go -> [D -> D]] /\ end \in [S -> D]
  /\ \A o \in Go : mu[next[o]] < mu[o]

Solves(f, S, D, Go, next, step, end) ==
  /\ f \in [S -> D]
  /\ \A o \in S : f[o] = IF o \in Go THEN step[o][f[next[o]]] ELSE end[o]

(* f is defined by recursion as far as its arguments have a measure below n. *)
Upto(f, n, S, mu, Go, next, step, end) ==
  \A o \in S : mu[o] < n => f[o] = IF o \in Go THEN step[o][f[next[o]]] ELSE end[o]

(* A function that calls itself on arguments of a smaller measure exists. *)
LEMMA Recursion ==
  ASSUME NEW S, NEW D, NEW mu, NEW Go, NEW next, NEW step, NEW end,
         Recursive(S, D, mu, Go, next, step, end)
  PROVE  \E f : Solves(f, S, D, Go, next, step, end)
<1> USE DEF Recursive
<1> DEFINE U(f, n) == Upto(f, n, S, mu, Go, next, step, end)
<1>0. ASSUME NEW f \in [S -> D], NEW g \in [S -> D], NEW n \in Nat, U(f, n), U(g, n)
      PROVE  \A o \in S : mu[o] < n => f[o] = g[o]
  <2> DEFINE Q == {m \in Nat : \A o \in S : mu[o] < m /\ mu[o] < n => f[o] = g[o]}
  <2>1. 0 \in Q
    OBVIOUS
  <2>2. ASSUME NEW m \in Q PROVE m + 1 \in Q
    <3> SUFFICES ASSUME NEW o \in S, mu[o] < m + 1, mu[o] < n PROVE f[o] = g[o]
      OBVIOUS
    <3>1. CASE o \in Go
      <4>1. next[o] \in S /\ mu[next[o]] < m /\ mu[next[o]] < n
        BY <3>1
      <4>2. f[next[o]] = g[next[o]]
        BY <4>1
      <4> QED BY <1>0, <3>1, <4>2 DEF Upto
    <3>2. CASE o \notin Go
      BY <1>0, <3>2 DEF Upto
    <3> QED BY <3>1, <3>2
  <2>3. Q = Nat
    <3>1. Q \in SUBSET Nat
      OBVIOUS
    <3> HIDE DEF Q
    <3> QED BY <2>1, <2>2, <3>1, SetInduction
  <2> QED BY ZenonT(30), <2>3
<1> DEFINE P == {n \in Nat : \E f \in [S -> D] : U(f, n)}
<1>1. 0 \in P
  BY DEF Upto
<1>2. ASSUME NEW n \in P PROVE n + 1 \in P
  <2>1. PICK f \in [S -> D] : U(f, n)
    BY <1>2
  <2> DEFINE g == [o \in S |-> IF mu[o] < n THEN f[o]
                               ELSE IF o \in Go THEN step[o][f[next[o]]] ELSE end[o]]
  <2>2. g \in [S -> D]
    BY SMTT(30)
  <2>3. ASSUME NEW o \in S, mu[o] < n + 1
        PROVE  g[o] = IF o \in Go THEN step[o][g[next[o]]] ELSE end[o]
    <3>1. g[o] = IF o \in Go THEN step[o][f[next[o]]] ELSE end[o]
      BY <2>1, <2>3 DEF Upto
    <3>2. o \in Go => g[next[o]] = f[next[o]]
      BY <2>3
    <3> QED BY ZenonT(30), <3>1, <3>2
  <2>4. U(g, n + 1)
    <3> HIDE DEF g
    <3> QED BY <2>3 DEF Upto
  <2> HIDE DEF g
  <2> QED BY <2>2, <2>4
<1>3. P = Nat
  <2>1. P \in SUBSET Nat
    OBVIOUS
  <2> HIDE DEF P
  <2> QED BY <1>1, <1>2, <2>1, SetInduction
<1> DEFINE F(n) == CHOOSE f \in [S -> D] : U(f, n)
           h == [o \in S |-> F(mu[o] + 1)[o]]
<1>4. \A n \in Nat : F(n) \in [S -> D] /\ U(F(n), n)
  BY ZenonT(30), <1>3
<1> HIDE DEF F
<1>5. h \in [S -> D]
  BY <1>4
<1>6. ASSUME NEW o \in S PROVE h[o] = IF o \in Go THEN step[o][h[next[o]]] ELSE end[o]
  <2> DEFINE n == mu[o] + 1
  <2>1. h[o] = IF o \in Go THEN step[o][F(n)[next[o]]] ELSE end[o]
    BY SMTT(30), <1>4 DEF Upto
  <2>2. ASSUME o \in Go PROVE F(n)[next[o]] = h[next[o]]
    <3> DEFINE m == mu[next[o]] + 1
    <3>1. m \in Nat /\ n \in Nat /\ m <= n /\ next[o] \in S /\ mu[next[o]] < m
      BY <2>2
    <3> HIDE DEF m, n
    <3>2. U(F(n), m) /\ U(F(m), m) /\ F(n) \in [S -> D] /\ F(m) \in [S -> D]
      BY <1>4, <3>1 DEF Upto
    <3>3. \A x \in S : mu[x] < m => F(n)[x] = F(m)[x]
      BY <1>0, <3>1, <3>2
    <3> QED BY <3>1, <3>3 DEF m
  <2> HIDE DEF h, n
  <2> QED BY <2>1, <2>2
<1> HIDE DEF h
<1> QED BY <1>5, <1>6 DEF Solves

-----------------------------------------------------------------------------
(* Varints *)

LEMMA Constants ==
  /\ Base \in Nat \ {0, 1} /\ Mask \in Nat \ {0} /\ MaxGroups \in Nat \ {0}
  /\ MaxMessages \in Nat /\ ReadSize \in Nat \ {0}
BY FramingAssumption, Zenon

LEMMA ByteSequences ==
  ASSUME NEW b \in Bytes, NEW s \in Seq(Bytes)
  PROVE  <<b>> \in Seq(Bytes) /\ <<b>> \o s \in Seq(Bytes)
OBVIOUS

(* Sequences with the same elements are the same. *)
LEMMA SameSequence ==
  ASSUME NEW S, NEW s \in Seq(S), NEW t \in Seq(S), Len(s) = Len(t),
         \A i \in 1..Len(t) : s[i] = t[i]
  PROVE  s = t
<1>1. /\ DOMAIN s = 1..Len(s) /\ DOMAIN t = 1..Len(t)
      /\ s = [i \in DOMAIN s |-> s[i]] /\ t = [i \in DOMAIN t |-> t[i]]
  OBVIOUS
<1> QED BY <1>1

LEMMA Division ==
  ASSUME NEW v \in Nat
  PROVE  /\ v \div Base \in Nat /\ v % Base \in 0..(Base - 1)
         /\ v = Base * (v \div Base) + (v % Base)
         /\ v >= Base => v \div Base < v
BY Constants

LEMMA MoreInNat ==
  ASSUME NEW r \in Nat, NEW x \in Nat
  PROVE  r + Base * x \in Nat
BY Constants

LEMMA Remainder ==
  ASSUME NEW r \in 0..(Base - 1)
  PROVE  r % Base = r /\ (Base + r) % Base = r
BY Constants

LEMMA DigitIsByte ==
  ASSUME NEW v \in Nat
  PROVE  Base + (v % Base) \in Bytes /\ (v < Base => v \in Bytes)
<1> DEFINE r == v % Base
<1>1. r \in 0..(Base - 1)
  BY Division
<1> HIDE DEF r
<1>2. Base + r \in 0..(2 * Base - 1) /\ (v < Base => v \in 0..(2 * Base - 1))
  BY SMTT(30), <1>1, Constants
<1> QED BY <1>2 DEF Bytes, r

(* The encoder's recursive equation. *)
LEMMA EncodeVarintDef ==
  /\ EncodeVarint \in [Nat -> Seq(Bytes)]
  /\ \A v \in Nat : EncodeVarint[v] = IF v < Base THEN <<v>>
                                      ELSE <<Base + (v % Base)>> \o EncodeVarint[v \div Base]
<1> DEFINE Go == {v \in Nat : ~(v < Base)}
           mu == [v \in Nat |-> v]
           next == [v \in Go |-> v \div Base]
           step == [v \in Go |-> [s \in Seq(Bytes) |-> <<Base + (v % Base)>> \o s]]
           end == [v \in Nat |-> IF v < Base THEN <<v>> ELSE <<>>]
<1>1. mu \in [Nat -> Nat] /\ Go \in SUBSET Nat
  OBVIOUS
<1>2. next \in [Go -> Nat] /\ \A v \in Go : mu[next[v]] < mu[v]
  BY Division, Constants
<1>3. step \in [Go -> [Seq(Bytes) -> Seq(Bytes)]]
  <2> SUFFICES ASSUME NEW v \in Go, NEW s \in Seq(Bytes) PROVE <<Base + (v % Base)>> \o s \in Seq(Bytes)
    OBVIOUS
  <2>1. Base + (v % Base) \in Bytes
    BY DigitIsByte
  <2> QED BY <2>1
<1>4. end \in [Nat -> Seq(Bytes)]
  BY DigitIsByte
<1>5. PICK f \in [Nat -> Seq(Bytes)] : \A v \in Nat : f[v] = IF v \in Go THEN step[v][f[next[v]]] ELSE end[v]
  <2> HIDE DEF Go, mu, next, step, end
  <2>1. Recursive(Nat, Seq(Bytes), mu, Go, next, step, end)
    BY <1>1, <1>2, <1>3, <1>4, Zenon DEF Recursive
  <2>2. \E f : Solves(f, Nat, Seq(Bytes), Go, next, step, end)
    BY <2>1, Recursion, Zenon
  <2> QED BY <2>2, Zenon DEF Solves
<1>6. f = [v \in Nat |-> IF v < Base THEN <<v>> ELSE <<Base + (v % Base)>> \o f[v \div Base]]
  <2>1. ASSUME NEW v \in Nat
        PROVE  f[v] = IF v < Base THEN <<v>> ELSE <<Base + (v % Base)>> \o f[v \div Base]
    <3>1. v \in Go => f[v \div Base] \in Seq(Bytes)
      BY ZenonT(30), Division, Constants
    <3>2. v \in Go => step[v][f[next[v]]] = <<Base + (v % Base)>> \o f[v \div Base]
      BY ZenonT(30), <3>1
    <3>3. v \notin Go => end[v] = <<v>>
      BY Constants
    <3> HIDE DEF step, end, next
    <3> QED BY ZenonT(30), <1>5, <3>2, <3>3
  <2>2. f = [v \in Nat |-> f[v]]
    BY <1>5, Zenon
  <2> HIDE DEF Go, mu, next, step, end
  <2> QED BY ZenonT(30), <2>1, <2>2
<1>7. EncodeVarint = [v \in Nat |-> IF v < Base THEN <<v>>
                                    ELSE <<Base + (v % Base)>> \o EncodeVarint[v \div Base]]
  <2>1. \E g : g = [v \in Nat |-> IF v < Base THEN <<v>> ELSE <<Base + (v % Base)>> \o g[v \div Base]]
    BY <1>6, Zenon
  <2> QED BY <2>1, Zenon DEF EncodeVarint
<1>8. \A v \in Nat : EncodeVarint[v] = IF v < Base THEN <<v>>
                                         ELSE <<Base + (v % Base)>> \o EncodeVarint[v \div Base]
  BY <1>7, Zenon
<1> HIDE DEF Go, mu, next, step, end
<1> DEFINE T == {v \in Nat : EncodeVarint[v] \in Seq(Bytes)}
<1>9. ASSUME NEW v \in Nat, \A w \in Nat : w < v => w \in T PROVE v \in T
  <2>1. CASE v < Base
    <3>1. EncodeVarint[v] = <<v>> /\ v \in Bytes
      BY <1>8, <2>1, DigitIsByte, Zenon
    <3>2. EncodeVarint[v] \in Seq(Bytes)
      <4>1. <<>> \in Seq(Bytes)
        OBVIOUS
      <4> QED BY <3>1, <4>1, ByteSequences, Zenon
    <3> QED BY <3>2, Zenon
  <2>2. CASE ~(v < Base)
    <3>1. v \div Base \in T
      <4>1. v \div Base \in Nat /\ v \div Base < v
        BY SMTT(30), <2>2, Division, Constants
      <4> QED BY <1>9, <4>1, Zenon
    <3>2. EncodeVarint[v] = <<Base + (v % Base)>> \o EncodeVarint[v \div Base]
          /\ Base + (v % Base) \in Bytes
      BY <1>8, <2>2, DigitIsByte, Zenon
    <3>3. EncodeVarint[v] \in Seq(Bytes)
      BY <3>1, <3>2, ByteSequences, Zenon
    <3> QED BY <3>3, Zenon
  <2> QED BY <2>1, <2>2
<1>10. T = Nat
  <2>1. T \in SUBSET Nat
    OBVIOUS
  <2> HIDE DEF T
  <2> QED BY ZenonT(30), <1>9, <2>1, StrongInduction
<1> QED BY ZenonT(30), <1>7, <1>8, <1>10

(* The recursive equation of the value of a varint. *)
LEMMA ValueDef ==
  /\ Value \in [Seq(Bytes) -> Nat]
  /\ \A s \in Seq(Bytes) : Value[s] = IF s = <<>> THEN 0 ELSE (Head(s) % Base) + Base * Value[Tail(s)]
<1> DEFINE S == Seq(Bytes)
           Go == {s \in S : s # <<>>}
           mu == [s \in S |-> Len(s)]
           next == [s \in Go |-> Tail(s)]
           step == [s \in Go |-> [x \in Nat |-> (Head(s) % Base) + Base * x]]
           end == [s \in S |-> 0]
<1>1. mu \in [S -> Nat] /\ Go \in SUBSET S /\ end \in [S -> Nat]
  OBVIOUS
<1>2. next \in [Go -> S] /\ \A s \in Go : mu[next[s]] < mu[s]
  OBVIOUS
<1>0. ASSUME NEW s \in Go PROVE Head(s) % Base \in Nat
  <2>1. Head(s) \in Nat
    BY Constants DEF Bytes
  <2>2. ASSUME NEW h \in Nat PROVE h % Base \in Nat
    BY Division, Constants
  <2> QED BY <2>1, <2>2, Zenon
<1>3. step \in [Go -> [Nat -> Nat]]
  <2>1. ASSUME NEW s \in Go, NEW x \in Nat PROVE (Head(s) % Base) + Base * x \in Nat
    BY <1>0, <2>1, MoreInNat, Zenon
  <2> HIDE DEF Go
  <2> QED BY <2>1
<1>5. PICK f \in [S -> Nat] : \A s \in S : f[s] = IF s \in Go THEN step[s][f[next[s]]] ELSE end[s]
  <2> HIDE DEF S, Go, mu, next, step, end
  <2>1. Recursive(S, Nat, mu, Go, next, step, end)
    BY <1>1, <1>2, <1>3, Zenon DEF Recursive
  <2>2. \E f : Solves(f, S, Nat, Go, next, step, end)
    BY <2>1, Recursion, Zenon
  <2> QED BY <2>2, Zenon DEF Solves
<1>6. f = [s \in S |-> IF s = <<>> THEN 0 ELSE (Head(s) % Base) + Base * f[Tail(s)]]
  <2>1. ASSUME NEW s \in S
        PROVE  f[s] = IF s = <<>> THEN 0 ELSE (Head(s) % Base) + Base * f[Tail(s)]
    <3>1. s \in Go => f[Tail(s)] \in Nat
      <4>1. s \in Go => Tail(s) \in S
        OBVIOUS
      <4> HIDE DEF S, Go
      <4> QED BY <4>1
    <3>2. s \in Go => step[s][f[next[s]]] = (Head(s) % Base) + Base * f[Tail(s)]
      BY <3>1
    <3>3. s \notin Go <=> s = <<>>
      OBVIOUS
    <3>4. end[s] = 0
      OBVIOUS
    <3> HIDE DEF step, end, next, Go
    <3> QED BY SMTT(30), <1>5, <3>2, <3>3, <3>4
  <2> HIDE DEF S
  <2> QED BY <2>1
<1>7. Value = [s \in S |-> IF s = <<>> THEN 0 ELSE (Head(s) % Base) + Base * Value[Tail(s)]]
  <2>1. \E g : g = [s \in S |-> IF s = <<>> THEN 0 ELSE (Head(s) % Base) + Base * g[Tail(s)]]
    BY ZenonT(30), <1>6
  <2> QED BY <2>1, Zenon DEF Value
<1>8. \A s \in S : Value[s] = IF s = <<>> THEN 0 ELSE (Head(s) % Base) + Base * Value[Tail(s)]
  BY <1>7, Zenon
<1> HIDE DEF mu, next, step, end
<1> DEFINE T == {n \in Nat : \A s \in S : Len(s) = n => Value[s] \in Nat}
<1>9. 0 \in T
  BY <1>8
<1>10. ASSUME NEW n \in T PROVE n + 1 \in T
  <2> SUFFICES ASSUME NEW s \in S, Len(s) = n + 1 PROVE Value[s] \in Nat
    OBVIOUS
  <2>1. s \in Go /\ Tail(s) \in S /\ Len(Tail(s)) = n
    OBVIOUS
  <2>2. Value[Tail(s)] \in Nat /\ Head(s) % Base \in Nat /\ s # <<>>
    BY ZenonT(30), <1>0, <2>1
  <2>3. Value[s] = (Head(s) % Base) + Base * Value[Tail(s)]
    BY <1>8, <2>2, Zenon
  <2> QED BY <2>2, <2>3, MoreInNat, Zenon
<1>11. T = Nat
  <2>1. T \in SUBSET Nat
    OBVIOUS
  <2> HIDE DEF T
  <2> QED BY SMTT(30), <1>9, <1>10, <2>1, SetInduction
<1>12. ASSUME NEW s \in S PROVE Value[s] \in Nat
  <2>1. Len(s) \in T
    BY <1>11
  <2> QED BY <2>1
<1> QED BY SMTT(30), <1>7, <1>8, <1>12

(* A varint is the encoder's output: every byte but the last has the
   continuation bit. *)
IsVarint(e) ==
  /\ e \in Seq(Bytes) /\ Len(e) >= 1 /\ e[Len(e)] < Base
  /\ \A i \in 1..(Len(e) - 1) : ~(e[i] < Base)

LEMMA SingleIsVarint ==
  ASSUME NEW b \in Bytes, b < Base
  PROVE  IsVarint(<<b>>) /\ Value[<<b>>] = b
<1>1. <<b>> \in Seq(Bytes) /\ <<b>> # <<>> /\ Head(<<b>>) = b /\ Tail(<<b>>) = <<>> /\ <<>> \in Seq(Bytes)
  OBVIOUS
<1>2. Value[<<>>] = 0 /\ Value[<<b>>] = (b % Base) + Base * 0
  BY <1>1, ValueDef, Zenon
<1>3. b % Base = b /\ b \in Nat
  BY Remainder, Constants DEF Bytes
<1>4. Value[<<b>>] = b
  BY <1>2, <1>3, Constants
<1> QED BY <1>4 DEF IsVarint

LEMMA LongerIsVarint ==
  ASSUME NEW r \in 0..(Base - 1), NEW e, IsVarint(e)
  PROVE  IsVarint(<<Base + r>> \o e) /\ Value[<<Base + r>> \o e] = r + Base * Value[e]
<1> DEFINE b == Base + r
           s == <<b>> \o e
<1>1. b \in Bytes /\ ~(b < Base) /\ b % Base = r
  BY Remainder, Constants DEF Bytes
<1> HIDE DEF b
<1>2. e \in Seq(Bytes) /\ Len(e) >= 1
  BY DEF IsVarint
<1>3. /\ s \in Seq(Bytes) /\ s # <<>> /\ Head(s) = b /\ Tail(s) = e /\ Len(s) = Len(e) + 1
      /\ s[1] = b /\ \A i \in 1..Len(e) : s[i + 1] = e[i]
  BY <1>1, <1>2
<1> HIDE DEF s
<1>4. Value[s] = r + Base * Value[e]
  BY <1>1, <1>3, ValueDef, Zenon
<1>5. s[Len(s)] < Base
  BY <1>2, <1>3 DEF IsVarint
<1>6. ASSUME NEW i \in 1..(Len(s) - 1) PROVE ~(s[i] < Base)
  <2>1. CASE i = 1
    BY SMTT(30), <1>1, <1>3, <2>1
  <2>2. CASE i # 1
    <3>1. i - 1 \in 1..(Len(e) - 1) /\ s[(i - 1) + 1] = e[i - 1] /\ (i - 1) + 1 = i
      BY SMTT(30), <1>2, <1>3, <2>2
    <3> QED BY <3>1 DEF IsVarint
  <2> QED BY <2>1, <2>2
<1>7. IsVarint(s)
  BY <1>2, <1>3, <1>5, <1>6 DEF IsVarint
<1> QED BY <1>4, <1>7 DEF s, b

(* What the encoder writes is a varint of the value. *)
LEMMA VarintRoundTrip ==
  ASSUME NEW v \in Nat
  PROVE  IsVarint(EncodeVarint[v]) /\ Value[EncodeVarint[v]] = v
<1> DEFINE T == {w \in Nat : IsVarint(EncodeVarint[w]) /\ Value[EncodeVarint[w]] = w}
<1>1. ASSUME NEW w \in Nat, \A x \in Nat : x < w => x \in T PROVE w \in T
  <2>1. CASE w < Base
    <3>1. EncodeVarint[w] = <<w>> /\ w \in Bytes
      BY <2>1, EncodeVarintDef, DigitIsByte, Zenon
    <3> QED BY <2>1, <3>1, SingleIsVarint, Zenon
  <2>2. CASE ~(w < Base)
    <3> DEFINE d == w \div Base
               r == w % Base
    <3>1. d \in Nat /\ d < w /\ r \in 0..(Base - 1) /\ w = Base * d + r
      BY <2>2, Division, Constants
    <3>2. EncodeVarint[w] = <<Base + r>> \o EncodeVarint[d]
      BY <2>2, EncodeVarintDef, Zenon
    <3> HIDE DEF d, r
    <3>3. d \in T
      BY <1>1, <3>1, Zenon
    <3>4. IsVarint(EncodeVarint[w]) /\ Value[EncodeVarint[w]] = r + Base * d
      BY <3>1, <3>2, <3>3, LongerIsVarint, Zenon
    <3>5. r + Base * d = w
      BY <3>1, Constants
    <3> QED BY <3>4, <3>5, Zenon
  <2> QED BY <2>1, <2>2
<1>2. T = Nat
  <2>1. T \in SUBSET Nat
    OBVIOUS
  <2> HIDE DEF T
  <2> QED BY <1>1, <2>1, StrongInduction
<1> QED BY <1>2

-----------------------------------------------------------------------------
(* Decoding *)

(* The bytes of s are in buffer behind pos, as far as both go. *)
Matches(buffer, pos, s) ==
  \A i \in 1..Len(s) : pos + i <= Len(buffer) => buffer[pos + i] = s[i]

(* What the decoder's loop looks for: the positions it stops at. *)
Ends(buffer, pos) == {i \in (pos + 1)..Len(buffer) : buffer[i] < Base /\ i <= pos + MaxGroups}

LEMMA DecodeVarintUnfold ==
  ASSUME NEW buffer, NEW pos
  PROVE  LET last == CHOOSE i \in Ends(buffer, pos) : \A j \in Ends(buffer, pos) : i <= j
         IN DecodeVarint(buffer, pos) =
              IF Ends(buffer, pos) = {} THEN IF Len(buffer) - pos >= MaxGroups THEN Refused ELSE Partial
              ELSE [kind |-> "ok", value |-> Value[SubSeq(buffer, pos + 1, last)] % Mask, next |-> last]
BY Zenon DEF DecodeVarint, Ends

(* The decoder stops at the first position of Ends. *)
LEMMA DecodeVarintAt ==
  ASSUME NEW buffer, NEW pos \in Nat, NEW last \in Ends(buffer, pos),
         \A j \in Ends(buffer, pos) : last <= j, Ends(buffer, pos) \subseteq Nat
  PROVE  DecodeVarint(buffer, pos) =
           [kind |-> "ok", value |-> Value[SubSeq(buffer, pos + 1, last)] % Mask, next |-> last]
<1> DEFINE E == Ends(buffer, pos)
           c == CHOOSE i \in E : \A j \in E : i <= j
<1> HIDE DEF E
<1>0. last \in E /\ (\A j \in E : last <= j) /\ E \subseteq Nat
  BY DEF E
<1>1. c \in E /\ \A j \in E : c <= j
  BY ZenonT(30), <1>0
<1> HIDE DEF c
<1>2. c = last
  BY <1>0, <1>1
<1>3. DecodeVarint(buffer, pos) =
        IF E = {} THEN IF Len(buffer) - pos >= MaxGroups THEN Refused ELSE Partial
        ELSE [kind |-> "ok", value |-> Value[SubSeq(buffer, pos + 1, c)] % Mask, next |-> c]
  BY DecodeVarintUnfold, Zenon DEF E, c
<1> QED BY <1>0, <1>2, <1>3, Zenon

LEMMA EndsAreNat ==
  ASSUME NEW buffer \in Seq(Bytes), NEW pos \in Nat
  PROVE  Ends(buffer, pos) \subseteq Nat
BY DEF Ends

LEMMA Reduced ==
  ASSUME NEW v \in Nat
  PROVE  v % Mask \in Nat /\ (v < Mask => v % Mask = v)
BY Constants

(* The decoder reads any sequence without failing otherwise than it says. *)
LEMMA DecodeVarintType ==
  ASSUME NEW buffer \in Seq(Bytes), NEW pos \in 0..Len(buffer)
  PROVE  LET d == DecodeVarint(buffer, pos)
         IN \/ d = Partial \/ d = Refused
            \/ /\ d.kind = "ok" /\ d.value \in Nat
               /\ d.next \in (pos + 1)..Len(buffer)
<1>1. CASE Ends(buffer, pos) = {}
  BY <1>1, DecodeVarintUnfold, Zenon
<1>2. CASE Ends(buffer, pos) # {}
  <2>1. Ends(buffer, pos) \in SUBSET Nat /\ pos \in Nat
    BY EndsAreNat
  <2>2. PICK last \in Ends(buffer, pos) : \A j \in Ends(buffer, pos) : last <= j
    BY <1>2, <2>1, LeastNat, Zenon
  <2>3. DecodeVarint(buffer, pos) =
          [kind |-> "ok", value |-> Value[SubSeq(buffer, pos + 1, last)] % Mask, next |-> last]
    BY <2>1, <2>2, DecodeVarintAt, Zenon
  <2>4. last \in (pos + 1)..Len(buffer)
    BY DEF Ends
  <2>5. Value[SubSeq(buffer, pos + 1, last)] \in Nat
    <3>1. SubSeq(buffer, pos + 1, last) \in Seq(Bytes)
      BY <2>4
    <3> QED BY ZenonT(30), <3>1, ValueDef
  <2>6. Value[SubSeq(buffer, pos + 1, last)] % Mask \in Nat
    BY <2>5, Reduced, Zenon
  <2> DEFINE x == Value[SubSeq(buffer, pos + 1, last)] % Mask
             d == DecodeVarint(buffer, pos)
  <2>7. d = [kind |-> "ok", value |-> x, next |-> last] /\ x \in Nat
    BY <2>3, <2>6, Zenon
  <2> HIDE DEF x, d
  <2>8. d.kind = "ok" /\ d.value \in Nat /\ d.next \in (pos + 1)..Len(buffer)
    BY <2>4, <2>7
  <2> QED BY <2>8, Zenon DEF d
<1> QED BY <1>1, <1>2

(* A whole varint is read back, whatever follows it. *)
LEMMA DecodeVarintWhole ==
  ASSUME NEW buffer \in Seq(Bytes), NEW pos \in 0..Len(buffer), NEW v \in Nat, v < Mask,
         Matches(buffer, pos, EncodeVarint[v]), pos + Len(EncodeVarint[v]) <= Len(buffer)
  PROVE  DecodeVarint(buffer, pos) =
           [kind |-> "ok", value |-> v, next |-> pos + Len(EncodeVarint[v])]
<1> DEFINE e == EncodeVarint[v]
           last == pos + Len(e)
<1>1. IsVarint(e) /\ Value[e] = v
  BY VarintRoundTrip
<1>2. Len(e) <= MaxGroups
  <2>1. v \in 0..(Mask - 1)
    BY Constants
  <2> QED BY <2>1, FramingAssumption, Zenon
<1>3. Matches(buffer, pos, e) /\ pos + Len(e) <= Len(buffer)
  OBVIOUS
<1> HIDE DEF e
<1>4. e \in Seq(Bytes) /\ Len(e) \in Nat /\ Len(e) >= 1
  BY <1>1 DEF IsVarint
<1>5. last \in Ends(buffer, pos)
  <2>1. buffer[last] = e[Len(e)] /\ e[Len(e)] < Base
    BY <1>1, <1>3, <1>4 DEF Matches, IsVarint
  <2> QED BY SMTT(30), <1>2, <1>3, <1>4, <2>1, Constants DEF Ends
<1>6. ASSUME NEW j \in Ends(buffer, pos), j < last PROVE FALSE
  <2> DEFINE i == j - pos
  <2>1. /\ i \in 1..(Len(e) - 1) /\ i \in 1..Len(e)
        /\ pos + i = j /\ buffer[j] < Base /\ pos + i <= Len(buffer)
    BY <1>4, <1>6 DEF Ends
  <2> HIDE DEF i
  <2>2. ~(e[i] < Base)
    BY <1>1, <2>1, Zenon DEF IsVarint
  <2>3. buffer[pos + i] = e[i]
    BY <1>3, <2>1, Zenon DEF Matches
  <2> QED BY <2>1, <2>2, <2>3, Zenon
<1>7. Ends(buffer, pos) \subseteq Nat
  BY EndsAreNat
<1>8. \A j \in Ends(buffer, pos) : last <= j
  BY SMTT(30), <1>4, <1>6, <1>7
<1>9. SubSeq(buffer, pos + 1, last) = e
  <2>1. SubSeq(buffer, pos + 1, last) \in Seq(Bytes) /\ Len(SubSeq(buffer, pos + 1, last)) = Len(e)
    BY SMTT(30), <1>3, <1>4
  <2>2. ASSUME NEW i \in 1..Len(e) PROVE SubSeq(buffer, pos + 1, last)[i] = e[i]
    <3>1. pos + i <= Len(buffer) /\ SubSeq(buffer, pos + 1, last)[i] = buffer[pos + i]
      BY <1>3, <1>4
    <3> QED BY <1>3, <3>1 DEF Matches
  <2> QED BY SMTT(30), <1>4, <2>1, <2>2, SameSequence
<1>10. DecodeVarint(buffer, pos) =
         [kind |-> "ok", value |-> Value[SubSeq(buffer, pos + 1, last)] % Mask, next |-> last]
  <2> HIDE DEF last
  <2> QED BY SMTT(30), <1>5, <1>7, <1>8, DecodeVarintAt
<1>11. Value[e] % Mask = v
  BY <1>1, Reduced
<1> QED BY ZenonT(30), <1>9, <1>10, <1>11 DEF e, last

(* A varint of which bytes are missing is partial, never refused. *)
LEMMA DecodeVarintPart ==
  ASSUME NEW buffer \in Seq(Bytes), NEW pos \in 0..Len(buffer), NEW v \in Nat, v < Mask,
         Matches(buffer, pos, EncodeVarint[v]), Len(buffer) < pos + Len(EncodeVarint[v])
  PROVE  DecodeVarint(buffer, pos) = Partial
<1> DEFINE e == EncodeVarint[v]
<1>1. IsVarint(e)
  BY VarintRoundTrip
<1>2. Len(e) <= MaxGroups
  <2>1. v \in 0..(Mask - 1)
    BY Constants
  <2> QED BY <2>1, FramingAssumption, Zenon
<1>3. Matches(buffer, pos, e) /\ Len(buffer) < pos + Len(e)
  OBVIOUS
<1> HIDE DEF e
<1>4. e \in Seq(Bytes) /\ Len(e) \in Nat /\ Len(e) >= 1
  BY <1>1 DEF IsVarint
<1>5. ASSUME NEW j \in Ends(buffer, pos) PROVE FALSE
  <2> DEFINE i == j - pos
  <2>1. /\ i \in 1..(Len(e) - 1) /\ i \in 1..Len(e)
        /\ pos + i = j /\ buffer[j] < Base /\ pos + i <= Len(buffer)
    BY <1>3, <1>4 DEF Ends
  <2> HIDE DEF i
  <2>2. ~(e[i] < Base)
    BY <1>1, <2>1, Zenon DEF IsVarint
  <2>3. buffer[pos + i] = e[i]
    BY <1>3, <2>1, Zenon DEF Matches
  <2> QED BY <2>1, <2>2, <2>3, Zenon
<1>6. Ends(buffer, pos) = {}
  BY <1>5
<1>7. ~(Len(buffer) - pos >= MaxGroups)
  BY SMTT(30), <1>2, <1>3, <1>4, Constants
<1> QED BY <1>6, <1>7, DecodeVarintUnfold, Zenon

(* A frame is a varint, then the message. *)
LEMMA FrameFacts ==
  ASSUME NEW m \in Seq(Bytes)
  PROVE  LET e == EncodeVarint[Len(m)]
             f == EncodeDelimited(m)
         IN /\ e \in Seq(Bytes) /\ f \in Seq(Bytes) /\ Len(e) >= 1 /\ Len(f) = Len(e) + Len(m)
            /\ \A i \in 1..Len(e) : f[i] = e[i]
            /\ \A i \in 1..Len(m) : f[Len(e) + i] = m[i]
<1> DEFINE e == EncodeVarint[Len(m)]
<1>1. e \in Seq(Bytes) /\ Len(e) >= 1
  BY VarintRoundTrip DEF IsVarint
<1> HIDE DEF e
<1>2. /\ e \o m \in Seq(Bytes) /\ Len(e \o m) = Len(e) + Len(m)
      /\ \A i \in 1..Len(e) : (e \o m)[i] = e[i]
      /\ \A i \in 1..Len(m) : (e \o m)[Len(e) + i] = m[i]
  BY <1>1
<1>3. EncodeDelimited(m) = e \o m
  BY DEF EncodeDelimited, e
<1> QED BY <1>1, <1>2, <1>3, Zenon DEF e

LEMMA DecodeDelimitedType ==
  ASSUME NEW buffer \in Seq(Bytes), NEW pos \in 0..Len(buffer)
  PROVE  LET d == DecodeDelimited(buffer, pos)
         IN \/ d = Partial \/ d = Refused
            \/ /\ d.kind = "ok" /\ d.message \in Seq(Bytes)
               /\ d.next \in (pos + 1)..Len(buffer)
<1> DEFINE l == DecodeVarint(buffer, pos)
           end == l.next + l.value
           d == DecodeDelimited(buffer, pos)
<1>1. d = IF l.kind # "ok" THEN l ELSE IF end > Len(buffer) THEN Partial
          ELSE [kind |-> "ok", message |-> SubSeq(buffer, l.next + 1, end), next |-> end]
  BY Zenon DEF DecodeDelimited
<1>2. \/ l = Partial \/ l = Refused
      \/ l.kind = "ok" /\ l.value \in Nat /\ l.next \in (pos + 1)..Len(buffer)
  BY DecodeVarintType, Zenon
<1>3. Partial.kind # "ok" /\ Refused.kind # "ok"
  BY DEF Partial, Refused
<1> HIDE DEF l, d
<1>4. CASE l.kind # "ok"
  BY <1>1, <1>2, <1>4, Zenon DEF d
<1>5. CASE l.kind = "ok" /\ end > Len(buffer)
  BY <1>1, <1>5, Zenon DEF d
<1>6. CASE l.kind = "ok" /\ ~(end > Len(buffer))
  <2>1. l.value \in Nat /\ l.next \in (pos + 1)..Len(buffer)
    BY <1>2, <1>3, <1>6, Zenon
  <2>2. end \in (pos + 1)..Len(buffer) /\ SubSeq(buffer, l.next + 1, end) \in Seq(Bytes)
    BY SMTT(30), <1>6, <2>1
  <2> HIDE DEF end
  <2>3. d = [kind |-> "ok", message |-> SubSeq(buffer, l.next + 1, end), next |-> end]
    BY <1>1, <1>6, Zenon
  <2>4. d.kind = "ok" /\ d.message \in Seq(Bytes) /\ d.next \in (pos + 1)..Len(buffer)
    BY SMTT(30), <2>2, <2>3
  <2> QED BY <2>4, Zenon DEF d
<1> QED BY <1>4, <1>5, <1>6, Zenon

(* A whole frame yields its message and the offset behind it, whatever follows. *)
LEMMA DecodeDelimitedWhole ==
  ASSUME NEW buffer \in Seq(Bytes), NEW pos \in 0..Len(buffer), NEW m \in Seq(Bytes), Len(m) < Mask,
         Matches(buffer, pos, EncodeDelimited(m)), pos + Len(EncodeDelimited(m)) <= Len(buffer)
  PROVE  DecodeDelimited(buffer, pos) =
           [kind |-> "ok", message |-> m, next |-> pos + Len(EncodeDelimited(m))]
<1> DEFINE e == EncodeVarint[Len(m)]
           f == EncodeDelimited(m)
           start == pos + Len(e)
           end == start + Len(m)
<1>1. /\ e \in Seq(Bytes) /\ f \in Seq(Bytes) /\ Len(e) >= 1 /\ Len(f) = Len(e) + Len(m)
      /\ \A i \in 1..Len(e) : f[i] = e[i]
      /\ \A i \in 1..Len(m) : f[Len(e) + i] = m[i]
  BY FrameFacts, Zenon
<1>2. Matches(buffer, pos, f) /\ pos + Len(f) <= Len(buffer)
  OBVIOUS
<1>3. Matches(buffer, pos, e) /\ pos + Len(e) <= Len(buffer)
  <2> HIDE DEF e, f
  <2> QED BY SMTT(30), <1>1, <1>2 DEF Matches
<1>4. DecodeVarint(buffer, pos) = [kind |-> "ok", value |-> Len(m), next |-> start]
  BY SMTT(30), <1>3, DecodeVarintWhole
<1>5. DecodeDelimited(buffer, pos) =
        IF end > Len(buffer) THEN Partial
        ELSE [kind |-> "ok", message |-> SubSeq(buffer, start + 1, end), next |-> end]
  <2> DEFINE l == DecodeVarint(buffer, pos)
  <2>1. l.kind = "ok" /\ l.value = Len(m) /\ l.next = start
    BY <1>4
  <2> HIDE DEF l, start
  <2>2. DecodeDelimited(buffer, pos) =
          IF l.kind # "ok" THEN l ELSE IF l.next + l.value > Len(buffer) THEN Partial
          ELSE [kind |-> "ok", message |-> SubSeq(buffer, l.next + 1, l.next + l.value),
                next |-> l.next + l.value]
    BY Zenon DEF DecodeDelimited, l
  <2> QED BY <2>1, <2>2, Zenon
<1> HIDE DEF e, f
<1>6. start \in Nat /\ end = pos + Len(f) /\ end <= Len(buffer) /\ end \in Nat
  BY SMTT(30), <1>1, <1>2
<1>7. SubSeq(buffer, start + 1, end) = m
  <2> DEFINE s == SubSeq(buffer, start + 1, end)
  <2>1. s \in Seq(Bytes) /\ Len(s) = Len(m)
    BY <1>6
  <2>2. ASSUME NEW i \in 1..Len(m) PROVE s[i] = m[i]
    <3>1. s[i] = buffer[start + i]
      BY <1>6
    <3>2. Len(e) + i \in 1..Len(f) /\ pos + (Len(e) + i) = start + i /\ pos + (Len(e) + i) <= Len(buffer)
      BY SMTT(30), <1>1, <1>6
    <3>3. buffer[pos + (Len(e) + i)] = f[Len(e) + i]
      BY <1>2, <3>2, Zenon DEF Matches
    <3> HIDE DEF s, start
    <3> QED BY <1>1, <3>1, <3>2, <3>3, Zenon
  <2> HIDE DEF s
  <2>3. s = m
    BY <2>1, <2>2, SameSequence, Zenon
  <2> QED BY <2>3 DEF s
<1>8. ~(end > Len(buffer))
  BY <1>6
<1> HIDE DEF start, end
<1>9. DecodeDelimited(buffer, pos) = [kind |-> "ok", message |-> m, next |-> pos + Len(f)]
  BY <1>5, <1>6, <1>7, <1>8, Zenon
<1> QED BY <1>9 DEF f

(* A frame of which bytes are missing is partial. *)
LEMMA DecodeDelimitedPart ==
  ASSUME NEW buffer \in Seq(Bytes), NEW pos \in 0..Len(buffer), NEW m \in Seq(Bytes), Len(m) < Mask,
         Matches(buffer, pos, EncodeDelimited(m)), Len(buffer) < pos + Len(EncodeDelimited(m))
  PROVE  DecodeDelimited(buffer, pos) = Partial
<1> DEFINE e == EncodeVarint[Len(m)]
           f == EncodeDelimited(m)
           l == DecodeVarint(buffer, pos)
<1>1. /\ e \in Seq(Bytes) /\ f \in Seq(Bytes) /\ Len(e) >= 1 /\ Len(f) = Len(e) + Len(m)
      /\ \A i \in 1..Len(e) : f[i] = e[i]
  BY FrameFacts, Zenon
<1>2. Matches(buffer, pos, f) /\ Len(buffer) < pos + Len(f)
  OBVIOUS
<1>3. Matches(buffer, pos, e)
  <2> HIDE DEF e, f
  <2> QED BY <1>1, <1>2 DEF Matches
<1>4. DecodeDelimited(buffer, pos) =
        IF l.kind # "ok" THEN l ELSE IF l.next + l.value > Len(buffer) THEN Partial
        ELSE [kind |-> "ok", message |-> SubSeq(buffer, l.next + 1, l.next + l.value),
              next |-> l.next + l.value]
  BY Zenon DEF DecodeDelimited
<1>5. CASE pos + Len(e) <= Len(buffer)
  <2>1. l = [kind |-> "ok", value |-> Len(m), next |-> pos + Len(e)]
    BY SMTT(30), <1>3, <1>5, DecodeVarintWhole
  <2> HIDE DEF l, e, f
  <2>2. l.kind = "ok" /\ l.value = Len(m) /\ l.next = pos + Len(e)
    BY <2>1
  <2>3. l.next + l.value > Len(buffer)
    BY SMTT(30), <1>1, <1>2, <2>2
  <2> QED BY <1>4, <2>2, <2>3, Zenon
<1>6. CASE ~(pos + Len(e) <= Len(buffer))
  <2>1. Len(buffer) < pos + Len(e)
    <3> HIDE DEF e
    <3> QED BY SMTT(30), <1>1, <1>6
  <2>2. l = Partial
    BY SMTT(30), <1>3, <2>1, DecodeVarintPart
  <2>3. Partial.kind # "ok"
    BY DEF Partial
  <2> HIDE DEF l
  <2> QED BY <1>4, <2>2, <2>3, Zenon
<1> QED BY <1>5, <1>6

(* Behind the last byte there is nothing to decode. *)
LEMMA DecodeAtEnd ==
  ASSUME NEW buffer \in Seq(Bytes)
  PROVE  DecodeDelimited(buffer, Len(buffer)) = Partial
<1>1. <<>> \in Seq(Bytes) /\ Len(<<>>) = 0 /\ 0 < Mask
  BY Constants
<1>2. Len(EncodeDelimited(<<>>)) >= 1 /\ Len(EncodeDelimited(<<>>)) \in Nat
  <2> DEFINE e == EncodeVarint[Len(<<>>)]
             f == EncodeDelimited(<<>>)
  <2>1. e \in Seq(Bytes) /\ f \in Seq(Bytes) /\ Len(e) >= 1 /\ Len(f) = Len(e) + Len(<<>>)
    BY <1>1, FrameFacts, Zenon
  <2> HIDE DEF e, f
  <2>2. Len(f) >= 1 /\ Len(f) \in Nat
    BY <1>1, <2>1
  <2> QED BY <2>2 DEF f
<1>3. Matches(buffer, Len(buffer), EncodeDelimited(<<>>))
  BY <1>2 DEF Matches
<1>4. Len(buffer) < Len(buffer) + Len(EncodeDelimited(<<>>)) /\ Len(buffer) \in 0..Len(buffer)
  BY <1>2
<1> QED BY ZenonT(30), <1>1, <1>3, <1>4, DecodeDelimitedPart

-----------------------------------------------------------------------------
(* The readers' loops *)

Results == [out : Seq(Seq(Bytes)), rest : Seq(Bytes), raised : BOOLEAN]

WithMessage(message, r) == [r EXCEPT !.out = <<message>> \o @]

LEMMA WithMessageType ==
  ASSUME NEW message \in Seq(Bytes), NEW r \in Results
  PROVE  WithMessage(message, r) \in Results
<1> DEFINE M == Seq(Bytes)
           s == <<message>> \o r.out
<1>1. message \in M /\ r \in [out : Seq(M), rest : M, raised : BOOLEAN]
  BY DEF Results
<1> HIDE DEF M
<1>2. s \in Seq(M)
  BY <1>1
<1>3. WithMessage(message, r) = [r EXCEPT !.out = s]
  BY DEF WithMessage
<1> HIDE DEF s
<1>4. WithMessage(message, r) \in [out : Seq(M), rest : M, raised : BOOLEAN]
  BY <1>1, <1>2, <1>3
<1> QED BY <1>4 DEF M, Results

LEMMA WithMessageOf ==
  ASSUME NEW message, NEW s, NEW r
  PROVE  WithMessage(message, [out |-> s, rest |-> r, raised |-> FALSE]) =
           [out |-> <<message>> \o s, rest |-> r, raised |-> FALSE]
<1> DEFINE q == [out |-> s, rest |-> r, raised |-> FALSE]
           t == <<message>> \o s
<1>1. q.out = s
  OBVIOUS
<1>2. WithMessage(message, q) = [q EXCEPT !.out = t]
  <2>1. WithMessage(message, q) = [q EXCEPT !.out = <<message>> \o q.out]
    <3> HIDE DEF q
    <3> QED BY DEF WithMessage
  <2> HIDE DEF q
  <2> QED BY <1>1, <2>1, Zenon
<1> HIDE DEF t
<1>3. [q EXCEPT !.out = t] = [out |-> t, rest |-> r, raised |-> FALSE]
  <2> DEFINE F == {"out", "rest", "raised"}
             u == [q EXCEPT !.out = t]
             v == [out |-> t, rest |-> r, raised |-> FALSE]
  <2>1. u = [x \in F |-> u[x]] /\ v = [x \in F |-> v[x]]
    BY ZenonT(30)
  <2>2. u["out"] = v["out"] /\ u["rest"] = v["rest"] /\ u["raised"] = v["raised"]
    OBVIOUS
  <2> HIDE DEF u, v
  <2>3. \A x \in F : u[x] = v[x]
    BY <2>2
  <2> HIDE DEF F
  <2>4. u = v
    BY SMTT(30), <2>1, <2>3
  <2> QED BY <2>4 DEF u, v
<1> QED BY <1>2, <1>3, Zenon DEF t

(* Every call of a loop by itself is at a greater offset, so that the loop is a
   function: both readers' are, with their own conditions and ends. *)
IsLoop(buffer, Go, end) ==
  /\ buffer \in Seq(Bytes) /\ Go \in SUBSET (0..Len(buffer))
  /\ \A p \in Go : DecodeDelimited(buffer, p).kind = "ok"
  /\ end \in [0..Len(buffer) -> Results]

LoopOf(f, buffer, Go, end) ==
  f = [p \in 0..Len(buffer) |->
         IF p \in Go THEN WithMessage(DecodeDelimited(buffer, p).message,
                                      f[DecodeDelimited(buffer, p).next])
         ELSE end[p]]

LEMMA LoopExists ==
  ASSUME NEW buffer, NEW Go, NEW end, IsLoop(buffer, Go, end)
  PROVE  \E f : LoopOf(f, buffer, Go, end)
<1> DEFINE S == 0..Len(buffer)
           d(p) == DecodeDelimited(buffer, p)
           mu == [p \in S |-> Len(buffer) - p]
           next == [p \in Go |-> d(p).next]
           step == [p \in Go |-> [r \in Results |-> WithMessage(d(p).message, r)]]
<1>0. /\ Go \in SUBSET S /\ end \in [S -> Results] /\ buffer \in Seq(Bytes)
      /\ \A p \in Go : DecodeDelimited(buffer, p).kind = "ok"
  BY DEF IsLoop
<1>1. mu \in [S -> Nat]
  BY <1>0
<1>2. ASSUME NEW p \in Go PROVE d(p).message \in Seq(Bytes) /\ d(p).next \in (p + 1)..Len(buffer)
  <2>1. Partial.kind # "ok" /\ Refused.kind # "ok"
    BY DEF Partial, Refused
  <2>2. \/ d(p) = Partial \/ d(p) = Refused
        \/ /\ d(p).kind = "ok" /\ d(p).message \in Seq(Bytes)
           /\ d(p).next \in (p + 1)..Len(buffer)
    BY <1>0, DecodeDelimitedType, Zenon
  <2> QED BY <1>0, <2>1, <2>2, Zenon
<1> HIDE DEF d
<1>3. next \in [Go -> S] /\ \A p \in Go : mu[next[p]] < mu[p]
  <2>1. ASSUME NEW p \in Go PROVE d(p).next \in S /\ Len(buffer) - d(p).next < Len(buffer) - p
    BY SMTT(30), <1>0, <1>2
  <2>2. ASSUME NEW p \in Go PROVE mu[next[p]] = Len(buffer) - d(p).next /\ mu[p] = Len(buffer) - p
    BY <1>0, <2>1
  <2> HIDE DEF S, mu
  <2> QED BY SMTT(30), <2>1, <2>2
<1>4. step \in [Go -> [Results -> Results]]
  BY <1>2, WithMessageType
<1>5. PICK f \in [S -> Results] : \A p \in S : f[p] = IF p \in Go THEN step[p][f[next[p]]] ELSE end[p]
  <2> HIDE DEF S, mu, next, step
  <2>1. Recursive(S, Results, mu, Go, next, step, end)
    BY <1>0, <1>1, <1>3, <1>4, Zenon DEF Recursive
  <2>2. \E f : Solves(f, S, Results, Go, next, step, end)
    BY <2>1, Recursion, Zenon
  <2> QED BY <2>2, Zenon DEF Solves
<1>6. ASSUME NEW p \in S
      PROVE  f[p] = IF p \in Go THEN WithMessage(d(p).message, f[d(p).next]) ELSE end[p]
  <2>1. p \in Go => next[p] = d(p).next /\ d(p).next \in S
    BY <1>3
  <2>2. p \in Go => step[p][f[d(p).next]] = WithMessage(d(p).message, f[d(p).next])
    <3> HIDE DEF S
    <3> QED BY <2>1
  <2> HIDE DEF step, next, S
  <2> QED BY <1>5, <2>1, <2>2, Zenon
<1>7. f = [p \in S |-> IF p \in Go THEN WithMessage(d(p).message, f[d(p).next]) ELSE end[p]]
  <2> HIDE DEF S
  <2> QED BY <1>6
<1> QED BY <1>7, Zenon DEF d, LoopOf

(* get_requests' loop. *)
LEMMA GetRequestsLoop ==
  ASSUME NEW buffer \in Seq(Bytes)
  PROVE  \E loop :
           /\ GetRequests(buffer) = loop[0]
           /\ \A p \in 0..Len(buffer) :
                loop[p] = IF p < Len(buffer) /\ DecodeDelimited(buffer, p).kind = "ok"
                          THEN WithMessage(DecodeDelimited(buffer, p).message,
                                           loop[DecodeDelimited(buffer, p).next])
                          ELSE [out |-> <<>>, rest |-> From(buffer, p), raised |-> FALSE]
<1> DEFINE loop[position \in 0..Len(buffer)] ==
             LET next == DecodeDelimited(buffer, position)
             IN IF position < Len(buffer) /\ next.kind = "ok"
                  THEN [loop[next.next] EXCEPT !.out = <<next.message>> \o @]
                  ELSE [out |-> <<>>, rest |-> From(buffer, position), raised |-> FALSE]
<1>1. GetRequests(buffer) = loop[0]
  BY Zenon DEF GetRequests
<1> DEFINE Go == {p \in 0..Len(buffer) : p < Len(buffer) /\ DecodeDelimited(buffer, p).kind = "ok"}
           end == [p \in 0..Len(buffer) |-> [out |-> <<>>, rest |-> From(buffer, p), raised |-> FALSE]]
<1>2. end \in [0..Len(buffer) -> Results]
  BY DEF Results, From
<1>3. Go \in SUBSET (0..Len(buffer)) /\ \A p \in Go : DecodeDelimited(buffer, p).kind = "ok"
  OBVIOUS
<1>4. PICK f : f = [p \in 0..Len(buffer) |->
                      IF p \in Go THEN WithMessage(DecodeDelimited(buffer, p).message,
                                                   f[DecodeDelimited(buffer, p).next])
                      ELSE end[p]]
  <2> HIDE DEF Go, end
  <2>1. IsLoop(buffer, Go, end)
    BY <1>2, <1>3, Zenon DEF IsLoop
  <2>2. \E f : LoopOf(f, buffer, Go, end)
    BY <2>1, LoopExists, Zenon
  <2> QED BY <2>2, Zenon DEF LoopOf
<1>5. f = [position \in 0..Len(buffer) |->
             LET next == DecodeDelimited(buffer, position)
             IN IF position < Len(buffer) /\ next.kind = "ok"
                  THEN [f[next.next] EXCEPT !.out = <<next.message>> \o @]
                  ELSE [out |-> <<>>, rest |-> From(buffer, position), raised |-> FALSE]]
  BY <1>4, Zenon DEF WithMessage
<1>6. loop = [position \in 0..Len(buffer) |->
                LET next == DecodeDelimited(buffer, position)
                IN IF position < Len(buffer) /\ next.kind = "ok"
                     THEN [loop[next.next] EXCEPT !.out = <<next.message>> \o @]
                     ELSE [out |-> <<>>, rest |-> From(buffer, position), raised |-> FALSE]]
  BY <1>5, Zenon
<1>7. \A p \in 0..Len(buffer) :
        loop[p] = IF p < Len(buffer) /\ DecodeDelimited(buffer, p).kind = "ok"
                  THEN WithMessage(DecodeDelimited(buffer, p).message,
                                   loop[DecodeDelimited(buffer, p).next])
                  ELSE [out |-> <<>>, rest |-> From(buffer, p), raised |-> FALSE]
  <2> HIDE DEF loop
  <2> QED BY <1>6, Zenon DEF WithMessage
<1> HIDE DEF loop
<1> QED BY <1>1, <1>7, Zenon

(* _reader_loop's inner loop. *)
LEMMA ReaderLoopLoop ==
  ASSUME NEW buffer \in Seq(Bytes), NEW rest \in Seq(Bytes)
  PROVE  \E loop :
           /\ ReaderLoop(rest, buffer) = loop[0]
           /\ \A p \in 0..Len(buffer) :
                LET next == DecodeDelimited(buffer, p)
                IN /\ next.kind = "ok" => loop[p] = WithMessage(next.message, loop[next.next])
                   /\ next.kind = "partial" =>
                        loop[p] = [out |-> <<>>, rest |-> From(buffer, p), raised |-> FALSE]
<1> DEFINE loop[offset \in 0..Len(buffer)] ==
             LET next == DecodeDelimited(buffer, offset)
             IN IF ~ReaderGoesOn(offset, Len(buffer)) THEN [out |-> <<>>, rest |-> rest, raised |-> FALSE]
                ELSE IF next.kind = "ok" THEN [loop[next.next] EXCEPT !.out = <<next.message>> \o @]
                ELSE [out |-> <<>>, rest |-> IF next.kind = "partial" THEN From(buffer, offset) ELSE rest,
                      raised |-> next.kind = "refused"]
<1>1. ReaderLoop(rest, buffer) = loop[0]
  BY Zenon DEF ReaderLoop
<1> DEFINE Go == {p \in 0..Len(buffer) : ReaderGoesOn(p, Len(buffer)) /\ DecodeDelimited(buffer, p).kind = "ok"}
           ended(p) == IF ~ReaderGoesOn(p, Len(buffer)) THEN [out |-> <<>>, rest |-> rest, raised |-> FALSE]
                       ELSE [out |-> <<>>,
                             rest |-> IF DecodeDelimited(buffer, p).kind = "partial" THEN From(buffer, p) ELSE rest,
                             raised |-> DecodeDelimited(buffer, p).kind = "refused"]
           end == [p \in 0..Len(buffer) |-> ended(p)]
<1>2. end \in [0..Len(buffer) -> Results]
  <2>1. ASSUME NEW p \in 0..Len(buffer) PROVE ended(p) \in Results
    <3> DEFINE r == IF DecodeDelimited(buffer, p).kind = "partial" THEN From(buffer, p) ELSE rest
               b == DecodeDelimited(buffer, p).kind = "refused"
    <3>1. From(buffer, p) \in Seq(Bytes)
      BY DEF From
    <3>2. r \in Seq(Bytes) /\ b \in BOOLEAN
      BY <3>1, Zenon
    <3> HIDE DEF r, b
    <3>3. /\ [out |-> <<>>, rest |-> r, raised |-> b] \in Results
          /\ [out |-> <<>>, rest |-> rest, raised |-> FALSE] \in Results
      BY <3>2 DEF Results
    <3> QED BY <3>3, Zenon DEF r, b
  <2> HIDE DEF ended
  <2> QED BY <2>1
<1>3. Go \in SUBSET (0..Len(buffer)) /\ \A p \in Go : DecodeDelimited(buffer, p).kind = "ok"
  BY Zenon
<1>4. PICK f : f = [p \in 0..Len(buffer) |->
                      IF p \in Go THEN WithMessage(DecodeDelimited(buffer, p).message,
                                                   f[DecodeDelimited(buffer, p).next])
                      ELSE end[p]]
  <2> HIDE DEF Go, end, ended, loop
  <2>1. IsLoop(buffer, Go, end)
    BY <1>2, <1>3, Zenon DEF IsLoop
  <2>2. \E f : LoopOf(f, buffer, Go, end)
    BY <2>1, LoopExists, Zenon
  <2> QED BY <2>2, Zenon DEF LoopOf
<1>5. f = [offset \in 0..Len(buffer) |->
             LET next == DecodeDelimited(buffer, offset)
             IN IF ~ReaderGoesOn(offset, Len(buffer)) THEN [out |-> <<>>, rest |-> rest, raised |-> FALSE]
                ELSE IF next.kind = "ok" THEN [f[next.next] EXCEPT !.out = <<next.message>> \o @]
                ELSE [out |-> <<>>, rest |-> IF next.kind = "partial" THEN From(buffer, offset) ELSE rest,
                      raised |-> next.kind = "refused"]]
  BY <1>4, ZenonT(30) DEF WithMessage
<1>6. loop = [offset \in 0..Len(buffer) |->
                LET next == DecodeDelimited(buffer, offset)
                IN IF ~ReaderGoesOn(offset, Len(buffer)) THEN [out |-> <<>>, rest |-> rest, raised |-> FALSE]
                   ELSE IF next.kind = "ok" THEN [loop[next.next] EXCEPT !.out = <<next.message>> \o @]
                   ELSE [out |-> <<>>, rest |-> IF next.kind = "partial" THEN From(buffer, offset) ELSE rest,
                         raised |-> next.kind = "refused"]]
  BY <1>5, ZenonT(30)
<1> HIDE DEF loop
<1>7. ASSUME NEW p \in 0..Len(buffer)
      PROVE  LET next == DecodeDelimited(buffer, p)
             IN /\ next.kind = "ok" => loop[p] = WithMessage(next.message, loop[next.next])
                /\ next.kind = "partial" =>
                     loop[p] = [out |-> <<>>, rest |-> From(buffer, p), raised |-> FALSE]
  <2>1. ReaderGoesOn(p, Len(buffer))
    BY DEF ReaderGoesOn
  <2> DEFINE next == DecodeDelimited(buffer, p)
  <2>2. loop[p] = IF next.kind = "ok" THEN WithMessage(next.message, loop[next.next])
                  ELSE [out |-> <<>>, rest |-> IF next.kind = "partial" THEN From(buffer, p) ELSE rest,
                        raised |-> next.kind = "refused"]
    BY <1>6, <2>1, ZenonT(30) DEF WithMessage
  <2>3. ASSUME next.kind = "partial"
        PROVE  loop[p] = [out |-> <<>>, rest |-> From(buffer, p), raised |-> FALSE]
    <3> HIDE DEF next
    <3>1. next.kind # "ok" /\ (next.kind = "refused") = FALSE
      BY <2>3
    <3> QED BY <2>2, <2>3, <3>1, Zenon
  <2> QED BY <2>2, <2>3, Zenon
<1> HIDE DEF Go, end, ended
<1> QED BY <1>1, <1>7, Zenon

(* What both loops have in common: a message is passed on before those behind
   it, and a partial one ends the loop with the bytes from its start on. *)
IsReader(loop, buffer) ==
  \A p \in 0..Len(buffer) :
    LET next == DecodeDelimited(buffer, p)
    IN /\ p < Len(buffer) /\ next.kind = "ok" => loop[p] = WithMessage(next.message, loop[next.next])
       /\ next.kind = "partial" =>
            loop[p] = [out |-> <<>>, rest |-> From(buffer, p), raised |-> FALSE]

LEMMA ReadersRead ==
  ASSUME NEW buffer \in Seq(Bytes), NEW rest \in Seq(Bytes)
  PROVE  /\ \E loop : IsReader(loop, buffer) /\ ReaderLoop(rest, buffer) = loop[0]
         /\ \E loop : IsReader(loop, buffer) /\ GetRequests(buffer) = loop[0]
<1>1. \E loop : IsReader(loop, buffer) /\ ReaderLoop(rest, buffer) = loop[0]
  BY ReaderLoopLoop, ZenonT(60) DEF IsReader
<1>2. PICK loop :
        /\ GetRequests(buffer) = loop[0]
        /\ \A p \in 0..Len(buffer) :
             loop[p] = IF p < Len(buffer) /\ DecodeDelimited(buffer, p).kind = "ok"
                       THEN WithMessage(DecodeDelimited(buffer, p).message,
                                        loop[DecodeDelimited(buffer, p).next])
                       ELSE [out |-> <<>>, rest |-> From(buffer, p), raised |-> FALSE]
  BY GetRequestsLoop, Zenon
<1>3. IsReader(loop, buffer)
  <2>1. "partial" # "ok"
    OBVIOUS
  <2> QED BY <1>2, <2>1, Zenon DEF IsReader
<1> QED BY <1>1, <1>2, <1>3, Zenon

LEMMA ConsFacts ==
  ASSUME NEW S, NEW x \in S, NEW t \in Seq(S)
  PROVE  /\ <<x>> \o t \in Seq(S) /\ Len(<<x>> \o t) = Len(t) + 1 /\ (<<x>> \o t)[1] = x
         /\ \A j \in 1..Len(t) : (<<x>> \o t)[j + 1] = t[j]
OBVIOUS

LEMMA ConcatFacts ==
  ASSUME NEW S, NEW s \in Seq(S), NEW t \in Seq(S)
  PROVE  /\ s \o t \in Seq(S) /\ Len(s \o t) = Len(s) + Len(t)
         /\ \A i \in 1..Len(s) : (s \o t)[i] = s[i]
         /\ \A i \in 1..Len(t) : (s \o t)[Len(s) + i] = t[i]
OBVIOUS

LEMMA FromFacts ==
  ASSUME NEW S, NEW s \in Seq(S), NEW off \in 0..Len(s)
  PROVE  /\ From(s, off) \in Seq(S) /\ Len(From(s, off)) = Len(s) - off
         /\ \A i \in 1..(Len(s) - off) : From(s, off)[i] = s[off + i]
BY DEF From

LEMMA SubSeqCons ==
  ASSUME NEW S, NEW s \in Seq(S), NEW k \in 0..Len(s), NEW i \in 1..k
  PROVE  <<s[i]>> \o SubSeq(s, i + 1, k) = SubSeq(s, i, k)
<1> DEFINE t == SubSeq(s, i + 1, k)
           u == SubSeq(s, i, k)
<1>1. /\ t \in Seq(S) /\ Len(t) = k - i /\ \A j \in 1..(k - i) : t[j] = s[i + j]
      /\ u \in Seq(S) /\ Len(u) = (k - i) + 1 /\ \A j \in 1..((k - i) + 1) : u[j] = s[i + j - 1]
  OBVIOUS
<1> HIDE DEF t, u
<1> DEFINE v == <<s[i]>> \o t
<1>2. /\ v \in Seq(S) /\ Len(v) = Len(t) + 1 /\ v[1] = s[i]
      /\ \A j \in 1..Len(t) : v[j + 1] = t[j]
  <2>1. s[i] \in S
    OBVIOUS
  <2> DEFINE x == s[i]
  <2> HIDE DEF x
  <2>2. /\ <<x>> \o t \in Seq(S) /\ Len(<<x>> \o t) = Len(t) + 1 /\ (<<x>> \o t)[1] = x
        /\ \A j \in 1..Len(t) : (<<x>> \o t)[j + 1] = t[j]
    <3>1. x \in S /\ t \in Seq(S)
      BY SMTT(30), <1>1, <2>1 DEF x
    <3> QED BY SMTT(30), <3>1, ConsFacts
  <2> QED BY <2>2, Zenon DEF x
<1> HIDE DEF v
<1>3. ASSUME NEW j \in 1..Len(u) PROVE v[j] = u[j]
  <2>1. CASE j = 1
    BY SMTT(30), <1>1, <1>2, <2>1
  <2>2. CASE j # 1
    <3>1. j - 1 \in 1..(k - i) /\ i + (j - 1) = i + j - 1 /\ (j - 1) + 1 = j
      BY <1>1, <2>2
    <3> QED BY ZenonT(30), <1>1, <1>2, <3>1
  <2> QED BY SMTT(30), <2>1, <2>2
<1>4. v = u
  BY SMTT(30), <1>1, <1>2, <1>3, SameSequence
<1> QED BY <1>4 DEF v, t, u

(* Frames g+1 to k of msgs are in buffer from offset p[g] on, frame i up to
   p[i]; from p[k] on there is none. *)
Frames(buffer, msgs, g, k, p) ==
  /\ buffer \in Seq(Bytes) /\ msgs \in Seq(Seq(Bytes))
  /\ g \in Nat /\ k \in g..Len(msgs) /\ p \in [g..k -> 0..Len(buffer)]
  /\ \A i \in (g + 1)..k :
       /\ p[i - 1] < Len(buffer)
       /\ DecodeDelimited(buffer, p[i - 1]) = [kind |-> "ok", message |-> msgs[i], next |-> p[i]]
  /\ DecodeDelimited(buffer, p[k]) = Partial

(* The loop passes on those messages and keeps the rest. *)
PassesOn(loop, buffer, msgs, g, k, p) ==
  loop[p[g]] = [out |-> SubSeq(msgs, g + 1, k), rest |-> From(buffer, p[k]), raised |-> FALSE]

LEMMA LoopRuns ==
  ASSUME NEW buffer, NEW loop, IsReader(loop, buffer),
         NEW msgs, NEW g, NEW k, NEW p, Frames(buffer, msgs, g, k, p)
  PROVE  PassesOn(loop, buffer, msgs, g, k, p)
<1> DEFINE R(i) == [out |-> SubSeq(msgs, i + 1, k), rest |-> From(buffer, p[k]), raised |-> FALSE]
           T == {n \in Nat : n <= k - g => loop[p[k - n]] = R(k - n)}
<1> DEFINE M == Seq(Bytes)
<1>0. g \in Nat /\ k \in g..Len(msgs) /\ k \in Nat /\ p \in [g..k -> 0..Len(buffer)] /\ k - g \in Nat
      /\ buffer \in Seq(Bytes) /\ msgs \in Seq(M)
  BY DEF Frames
<1> HIDE DEF M
<1>1. 0 \in T
  <2>1. loop[p[k]] = [out |-> <<>>, rest |-> From(buffer, p[k]), raised |-> FALSE]
    <3>1. p[k] \in 0..Len(buffer) /\ DecodeDelimited(buffer, p[k]).kind = "partial"
      BY <1>0 DEF Frames, Partial
    <3> QED BY <3>1, Zenon DEF IsReader
  <2>2. SubSeq(msgs, k + 1, k) = <<>> /\ k - 0 = k
    BY <1>0
  <2> QED BY ZenonT(30), <2>1, <2>2
<1>2. ASSUME NEW n \in T PROVE n + 1 \in T
  <2> SUFFICES ASSUME n + 1 <= k - g PROVE loop[p[k - (n + 1)]] = R(k - (n + 1))
    BY SMTT(30), <1>2
  <2> DEFINE i == k - n
  <2>1. i \in (g + 1)..k /\ i \in Nat /\ k - (n + 1) = i - 1 /\ n \in Nat /\ i - 1 \in g..k /\ (i - 1) + 1 = i
    BY SMTT(30), <1>0
  <2>2. loop[p[i]] = R(i)
    BY SMTT(30), <1>0, <1>2
  <2> HIDE DEF i
  <2>3. p[i - 1] \in 0..Len(buffer) /\ p[i - 1] < Len(buffer)
        /\ DecodeDelimited(buffer, p[i - 1]) = [kind |-> "ok", message |-> msgs[i], next |-> p[i]]
    BY SMTT(30), <1>0, <2>1 DEF Frames
  <2> DEFINE d == DecodeDelimited(buffer, p[i - 1])
  <2>4. d.kind = "ok" /\ d.message = msgs[i] /\ d.next = p[i]
    BY <2>3
  <2>5. loop[p[i - 1]] = WithMessage(d.message, loop[d.next])
    BY <2>3, <2>4, Zenon DEF IsReader
  <2> HIDE DEF d
  <2>6. loop[p[i - 1]] = WithMessage(msgs[i], R(i))
    BY <2>2, <2>4, <2>5, Zenon
  <2>7. <<msgs[i]>> \o SubSeq(msgs, i + 1, k) = SubSeq(msgs, i, k)
    <3>1. k \in 0..Len(msgs) /\ i \in 1..k
      BY SMTT(30), <1>0, <2>1
    <3> QED BY <1>0, <3>1, SubSeqCons, ZenonT(60)
  <2>8. WithMessage(msgs[i], R(i)) =
          [out |-> <<msgs[i]>> \o SubSeq(msgs, i + 1, k), rest |-> From(buffer, p[k]), raised |-> FALSE]
    <3> DEFINE s == SubSeq(msgs, i + 1, k)
               r == From(buffer, p[k])
    <3> HIDE DEF s, r
    <3>1. WithMessage(msgs[i], [out |-> s, rest |-> r, raised |-> FALSE]) =
            [out |-> <<msgs[i]>> \o s, rest |-> r, raised |-> FALSE]
      BY WithMessageOf, Zenon
    <3> QED BY <3>1, Zenon DEF s, r
  <2> QED BY <2>1, <2>6, <2>7, <2>8, ZenonT(60)
<1>3. T = Nat
  <2>1. T \in SUBSET Nat
    OBVIOUS
  <2> HIDE DEF T
  <2> QED BY SMTT(30), <1>1, <1>2, <2>1, SetInduction
<1>4. k - g <= k - g /\ k - (k - g) = g
  BY <1>0
<1>5. k - g \in T
  <2> HIDE DEF T
  <2> QED BY SMTT(30), <1>0, <1>3
<1>6. loop[p[k - (k - g)]] = R(k - (k - g))
  BY <1>4, <1>5, Zenon
<1> QED BY <1>4, <1>6, Zenon DEF PassesOn

-----------------------------------------------------------------------------
(* The stream *)

(* stream holds the frames of msgs one behind the other, frame i up to at[i]. *)
Laid(stream, at, msgs) ==
  /\ stream \in Seq(Bytes) /\ at \in [0..Len(msgs) -> Nat]
  /\ at[0] = 0 /\ at[Len(msgs)] = Len(stream)
  /\ \A i \in 1..Len(msgs) :
       /\ at[i] = at[i - 1] + Len(EncodeDelimited(msgs[i]))
       /\ \A j \in 1..Len(EncodeDelimited(msgs[i])) :
            stream[at[i - 1] + j] = EncodeDelimited(msgs[i])[j]
  /\ \A i, j \in 0..Len(msgs) : i <= j => at[i] <= at[j]

(* The bytes of s are in stream behind offset from. *)
Lies(stream, from, s) ==
  /\ from + Len(s) <= Len(stream)
  /\ \A i \in 1..Len(s) : s[i] = stream[from + i]

(* A reader that has passed on g messages is behind them; the bytes it has kept
   are a part of the next one, and the bytes to come follow them. *)
ReadTo(stream, at, msgs, g, held, coming) ==
  /\ g \in 0..Len(msgs) /\ held \in Seq(Bytes) /\ coming \in Seq(Bytes)
  /\ Lies(stream, at[g], held)
  /\ Lies(stream, at[g] + Len(held), coming)
  /\ at[g] + Len(held) + Len(coming) = Len(stream)
  /\ g < Len(msgs) => at[g] + Len(held) < at[g + 1]

(* The inductive invariant: all bytes sent are one stream of frames, of which
   the reader has passed on whole ones only.  A stream that failed is not read
   any more. *)
FramingInv ==
  /\ TypeOK
  /\ Len(got) <= Len(sent) /\ got = SubSeq(sent, 1, Len(got))
  /\ phase # "failed" =>
       \E stream, at : Laid(stream, at, sent) /\ ReadTo(stream, at, sent, Len(got), kept, wire)
  /\ phase = "configuring" => got = <<>> /\ Len(sent) <= 1

(* Messages that a reader takes. *)
IsMsgs(msgs) == msgs \in Seq(Seq(Bytes)) /\ \A i \in 1..Len(msgs) : Len(msgs[i]) < Mask

LEMMA MessagesAreMsgs ==
  ASSUME NEW msgs \in Seq(Messages)
  PROVE  IsMsgs(msgs)
<1>1. \A m \in Messages : m \in Seq(Bytes) /\ Len(m) < Mask
  BY FramingAssumption, Zenon
<1> DEFINE M == Seq(Bytes)
<1>2. \A m \in Messages : m \in M
  BY <1>1
<1>3. \A i \in 1..Len(msgs) : Len(msgs[i]) < Mask
  BY <1>1
<1> HIDE DEF M
<1>4. msgs \in Seq(M)
  BY <1>2
<1> QED BY SMTT(30), <1>3, <1>4 DEF IsMsgs, M

LEMMA MessageFacts ==
  ASSUME NEW msgs, IsMsgs(msgs), NEW i \in 1..Len(msgs)
  PROVE  /\ msgs[i] \in Seq(Bytes) /\ Len(msgs[i]) < Mask
         /\ EncodeDelimited(msgs[i]) \in Seq(Bytes) /\ Len(EncodeDelimited(msgs[i])) >= 1
<1> DEFINE m == msgs[i]
           M == Seq(Bytes)
<1>1. msgs \in Seq(M) /\ Len(m) < Mask
  BY DEF IsMsgs
<1> HIDE DEF M
<1>0. m \in M
  BY <1>1
<1> HIDE DEF m
<1>2. m \in Seq(Bytes) /\ Len(m) < Mask
  BY <1>0, <1>1, Zenon DEF M
<1> DEFINE e == EncodeVarint[Len(m)]
           f == EncodeDelimited(m)
<1>3. e \in Seq(Bytes) /\ f \in Seq(Bytes) /\ Len(e) >= 1 /\ Len(f) = Len(e) + Len(m)
  BY <1>2, FrameFacts, Zenon
<1> HIDE DEF e, f
<1>4. Len(f) >= 1
  BY SMTT(30), <1>2, <1>3
<1> QED BY <1>2, <1>3, <1>4, Zenon DEF f, m

LEMMA LaidAt ==
  ASSUME NEW msgs, IsMsgs(msgs), NEW stream, NEW at, Laid(stream, at, msgs)
  PROVE  /\ Len(msgs) \in Nat /\ stream \in Seq(Bytes) /\ Len(stream) \in Nat
         /\ \A i \in 0..Len(msgs) : at[i] \in Nat
         /\ \A i, j \in 0..Len(msgs) : i <= j => at[i] <= at[j]
<1>1. stream \in Seq(Bytes) /\ Len(stream) \in Nat
  BY DEF Laid
<1>2. Len(msgs) \in Nat
  BY DEF IsMsgs
<1>3. at \in [0..Len(msgs) -> Nat] /\ \A i, j \in 0..Len(msgs) : i <= j => at[i] <= at[j]
  BY Zenon DEF Laid
<1> QED BY SMTT(30), <1>1, <1>2, <1>3

(* How far a piece of the stream goes: message k is the last that ends in it. *)
LEMMA LastInPiece ==
  ASSUME NEW msgs, IsMsgs(msgs), NEW stream, NEW at, Laid(stream, at, msgs),
         NEW g \in 0..Len(msgs), NEW upto \in Nat, at[g] <= upto
  PROVE  \E k \in g..Len(msgs) :
           /\ \A i \in g..k : at[i] <= upto
           /\ k < Len(msgs) => upto < at[k + 1]
<1> DEFINE T == {j \in g..Len(msgs) : j = Len(msgs) \/ upto < at[j + 1]}
<1>0. Len(msgs) \in Nat /\ \A i \in 0..Len(msgs) : at[i] \in Nat
  BY LaidAt, Zenon
<1>1. T \in SUBSET Nat /\ T # {}
  <2>1. Len(msgs) \in T
    BY <1>0
  <2>2. T \in SUBSET Nat
    BY <1>0
  <2> QED BY <2>1, <2>2, Zenon
<1>2. PICK k \in T : \A j \in T : k <= j
  <2> HIDE DEF T
  <2> QED BY SMTT(30), <1>1, LeastNat
<1>3. k \in g..Len(msgs) /\ (k < Len(msgs) => upto < at[k + 1])
  BY SMTT(30), <1>0
<1>4. ASSUME NEW i \in g..k PROVE at[i] <= upto
  <2>1. CASE i = g
    BY <2>1
  <2>2. CASE i # g
    <3>1. i - 1 \in g..Len(msgs) /\ i - 1 # Len(msgs) /\ (i - 1) + 1 = i /\ ~(k <= i - 1) /\ i \in 0..Len(msgs)
      BY SMTT(30), <1>0, <1>3, <2>2
    <3>2. i - 1 \notin T
      <4> HIDE DEF T
      <4> QED BY SMTT(30), <1>2, <3>1
    <3>3. ~(upto < at[i])
      BY SMTT(30), <3>1, <3>2
    <3>4. at[i] \in Nat
      BY <1>0, <3>1, Zenon
    <3> QED BY SMTT(30), <3>3, <3>4
  <2> QED BY SMTT(30), <2>1, <2>2
<1> QED BY SMTT(30), <1>3, <1>4

(* The frame of message i, in a piece of the stream that begins at a frame. *)
LEMMA FrameInPiece ==
  ASSUME NEW msgs, IsMsgs(msgs), NEW stream, NEW at, Laid(stream, at, msgs),
         NEW g \in 0..Len(msgs), NEW buffer \in Seq(Bytes), Lies(stream, at[g], buffer),
         NEW i \in 1..Len(msgs), g <= i - 1
  PROVE  /\ at[i - 1] - at[g] \in Nat
         /\ (at[i - 1] - at[g]) + Len(EncodeDelimited(msgs[i])) = at[i] - at[g]
         /\ Matches(buffer, at[i - 1] - at[g], EncodeDelimited(msgs[i]))
<1> DEFINE f == EncodeDelimited(msgs[i])
           pos == at[i - 1] - at[g]
<1>0. Len(msgs) \in Nat
  BY LaidAt, Zenon
<1>1. /\ i - 1 \in 0..Len(msgs) /\ i \in 0..Len(msgs) /\ g \in Nat /\ i \in Nat
  BY SMTT(30), <1>0
<1>2. /\ at[g] \in Nat /\ at[i - 1] \in Nat /\ at[g] <= at[i - 1] /\ at[i] = at[i - 1] + Len(f)
      /\ \A j \in 1..Len(f) : stream[at[i - 1] + j] = f[j]
  <2>1. at[g] \in Nat /\ at[i - 1] \in Nat /\ at[g] <= at[i - 1]
    BY <1>1, LaidAt, Zenon
  <2>2. at[i] = at[i - 1] + Len(f) /\ \A j \in 1..Len(f) : stream[at[i - 1] + j] = f[j]
    BY Zenon DEF Laid
  <2> QED BY SMTT(30), <2>1, <2>2
<1>3. f \in Seq(Bytes) /\ Len(f) \in Nat
  BY SMTT(30), MessageFacts
<1> HIDE DEF f
<1>4. pos \in Nat /\ pos + Len(f) = at[i] - at[g]
  BY SMTT(30), <1>2, <1>3
<1>5. ASSUME NEW j \in 1..Len(f), pos + j <= Len(buffer) PROVE buffer[pos + j] = f[j]
  <2>0. ASSUME NEW a \in Nat, NEW b \in Nat, a <= b PROVE a + ((b - a) + j) = b + j
    BY <1>3
  <2>1. pos + j \in 1..Len(buffer) /\ at[g] + (pos + j) = at[i - 1] + j
    <3>1. at[g] + (pos + j) = at[i - 1] + j
      BY <1>2, <2>0, Zenon
    <3> HIDE DEF pos
    <3>2. pos + j \in 1..Len(buffer)
      BY SMTT(30), <1>3, <1>4, <1>5
    <3> QED BY SMTT(30), <3>1, <3>2
  <2> HIDE DEF pos
  <2>2. buffer[pos + j] = stream[at[g] + (pos + j)]
    BY <2>1, Zenon DEF Lies
  <2> QED BY <1>2, <2>1, <2>2, Zenon
<1>6. Matches(buffer, pos, f)
  <2> HIDE DEF pos
  <2> QED BY <1>5, Zenon DEF Matches
<1> QED BY SMTT(30), <1>4, <1>6 DEF f, pos

PassesOnFrames(loop, buffer, msgs, at, g, k) ==
  loop[0] = [out |-> SubSeq(msgs, g + 1, k), rest |-> From(buffer, at[k] - at[g]), raised |-> FALSE]

(* Both readers pass on the messages that end in a piece of the stream, and keep
   what is behind them. *)
LEMMA ReadsFrames ==
  ASSUME NEW msgs, IsMsgs(msgs), NEW stream, NEW at, Laid(stream, at, msgs),
         NEW g \in 0..Len(msgs), NEW buffer \in Seq(Bytes), Lies(stream, at[g], buffer),
         NEW k \in g..Len(msgs),
         \A i \in g..k : at[i] <= at[g] + Len(buffer),
         k < Len(msgs) => at[g] + Len(buffer) < at[k + 1],
         NEW loop, IsReader(loop, buffer)
  PROVE  PassesOnFrames(loop, buffer, msgs, at, g, k)
<1> DEFINE p == [i \in g..k |-> at[i] - at[g]]
<1>0. Len(msgs) \in Nat
  BY LaidAt, Zenon
<1>1. g \in Nat /\ k \in Nat /\ g <= k /\ k <= Len(msgs) /\ g \in g..k /\ k \in g..k
  BY <1>0
<1>2. \A i \in g..k : at[i] \in Nat /\ at[g] <= at[i] /\ at[i] <= at[g] + Len(buffer)
  <2> SUFFICES ASSUME NEW i \in g..k PROVE at[i] \in Nat /\ at[g] <= at[i]
    OBVIOUS
  <2>1. i \in 0..Len(msgs) /\ g <= i
    BY SMTT(30), <1>0, <1>1
  <2> QED BY <2>1, LaidAt, Zenon
<1>3. p \in [g..k -> 0..Len(buffer)] /\ p[g] = 0 /\ p[k] = at[k] - at[g]
  <2>1. ASSUME NEW i \in g..k PROVE at[i] - at[g] \in 0..Len(buffer)
    BY SMTT(30), <1>1, <1>2
  <2>2. at[g] - at[g] = 0
    BY SMTT(30), <1>1, <1>2
  <2> QED BY SMTT(30), <1>1, <2>1, <2>2
<1>4. ASSUME NEW i \in (g + 1)..k
      PROVE  /\ p[i - 1] < Len(buffer)
             /\ DecodeDelimited(buffer, p[i - 1]) = [kind |-> "ok", message |-> msgs[i], next |-> p[i]]
  <2> DEFINE f == EncodeDelimited(msgs[i])
  <2>1. i \in 1..Len(msgs) /\ g <= i - 1 /\ i - 1 \in g..k /\ i \in g..k
    BY SMTT(30), <1>1
  <2>2. p[i - 1] = at[i - 1] - at[g] /\ p[i] = at[i] - at[g] /\ p[i - 1] \in 0..Len(buffer) /\ p[i] \in 0..Len(buffer)
    BY SMTT(30), <1>3, <2>1
  <2> HIDE DEF p
  <2>3. msgs[i] \in Seq(Bytes) /\ Len(msgs[i]) < Mask /\ f \in Seq(Bytes) /\ Len(f) >= 1
    BY SMTT(30), <2>1, MessageFacts
  <2>4. p[i - 1] + Len(f) = p[i] /\ Matches(buffer, p[i - 1], f)
    BY SMTT(30), <2>1, <2>2, FrameInPiece
  <2>5. p[i - 1] < Len(buffer) /\ p[i - 1] + Len(f) <= Len(buffer)
    <3> HIDE DEF f
    <3> QED BY SMTT(30), <2>2, <2>3, <2>4
  <2>6. DecodeDelimited(buffer, p[i - 1]) = [kind |-> "ok", message |-> msgs[i], next |-> p[i - 1] + Len(f)]
    BY SMTT(30), <2>2, <2>3, <2>4, <2>5, DecodeDelimitedWhole
  <2> QED BY <2>4, <2>5, <2>6, ZenonT(60)
<1>5. DecodeDelimited(buffer, p[k]) = Partial
  <2>1. p[k] = at[k] - at[g] /\ p[k] \in 0..Len(buffer)
    BY SMTT(30), <1>1, <1>3
  <2> HIDE DEF p
  <2>2. CASE k < Len(msgs)
    <3> DEFINE i == k + 1
               f == EncodeDelimited(msgs[i])
    <3>1. i \in 1..Len(msgs) /\ g <= i - 1 /\ i - 1 = k
      BY SMTT(30), <1>1, <2>2
    <3>2. at[g] + Len(buffer) < at[i]
      BY <2>2
    <3> HIDE DEF i
    <3>3. msgs[i] \in Seq(Bytes) /\ Len(msgs[i]) < Mask /\ f \in Seq(Bytes)
      BY SMTT(30), <3>1, MessageFacts
    <3>4. p[k] + Len(f) = at[i] - at[g] /\ Matches(buffer, p[k], f)
      BY SMTT(30), <2>1, <3>1, FrameInPiece
    <3>5. at[i] \in Nat /\ at[g] \in Nat
      <4>1. i \in 0..Len(msgs)
        BY SMTT(30), <1>0, <3>1
      <4> QED BY <4>1, LaidAt, Zenon
    <3>6. Len(buffer) < p[k] + Len(f)
      BY SMTT(30), <3>2, <3>4, <3>5
    <3> QED BY SMTT(30), <2>1, <3>3, <3>4, <3>6, DecodeDelimitedPart
  <2>3. CASE k = Len(msgs)
    <3>1. at[k] = Len(stream) /\ at[g] + Len(buffer) <= Len(stream)
      BY SMTT(30), <2>3 DEF Laid, Lies
    <3>2. p[k] = Len(buffer)
      BY SMTT(30), <1>1, <1>2, <2>1, <3>1
    <3> QED BY SMTT(30), <3>2, DecodeAtEnd
  <2> QED BY SMTT(30), <1>1, <2>2, <2>3
<1>6. Frames(buffer, msgs, g, k, p)
  <2> HIDE DEF p
  <2>1. msgs \in Seq(Seq(Bytes))
    BY Zenon DEF IsMsgs
  <2> QED BY <1>1, <1>3, <1>4, <1>5, <2>1, ZenonT(60) DEF Frames
<1>7. loop[p[g]] = [out |-> SubSeq(msgs, g + 1, k), rest |-> From(buffer, p[k]), raised |-> FALSE]
  <2> HIDE DEF p
  <2>1. PassesOn(loop, buffer, msgs, g, k, p)
    BY <1>6, LoopRuns, Zenon
  <2> QED BY <2>1, Zenon DEF PassesOn
<1> QED BY <1>3, <1>7, Zenon DEF PassesOnFrames

(* What a read of n bytes, with those kept before, comes to. *)
LEMMA ReadPiece ==
  ASSUME NEW msgs, IsMsgs(msgs), NEW stream, NEW at, Laid(stream, at, msgs),
         NEW g, NEW held, NEW coming, ReadTo(stream, at, msgs, g, held, coming),
         NEW n \in 1..Len(coming)
  PROVE  LET buffer == held \o SubSeq(coming, 1, n)
         IN /\ buffer \in Seq(Bytes)
            /\ \E k \in g..Len(msgs) :
                 /\ \A loop : IsReader(loop, buffer) => PassesOnFrames(loop, buffer, msgs, at, g, k)
                 /\ ReadTo(stream, at, msgs, k, From(buffer, at[k] - at[g]), From(coming, n))
<1> DEFINE piece == SubSeq(coming, 1, n)
           buffer == held \o piece
           after == From(coming, n)
<1>0. /\ Len(msgs) \in Nat /\ stream \in Seq(Bytes) /\ Len(stream) \in Nat
      /\ \A i \in 0..Len(msgs) : at[i] \in Nat
      /\ \A i, j \in 0..Len(msgs) : i <= j => at[i] <= at[j]
  BY LaidAt, Zenon
<1>1. /\ g \in 0..Len(msgs) /\ held \in Seq(Bytes) /\ coming \in Seq(Bytes)
      /\ at[g] + Len(held) + Len(coming) = Len(stream)
      /\ \A i \in 1..Len(held) : held[i] = stream[at[g] + i]
      /\ \A i \in 1..Len(coming) : coming[i] = stream[at[g] + Len(held) + i]
  BY Zenon DEF ReadTo, Lies
<1>2. /\ piece \in Seq(Bytes) /\ Len(piece) = n /\ \A i \in 1..n : piece[i] = coming[i]
      /\ after \in Seq(Bytes) /\ Len(after) = Len(coming) - n
      /\ \A i \in 1..(Len(coming) - n) : after[i] = coming[n + i]
  BY SMTT(30), <1>1 DEF From
<1> HIDE DEF piece, after
<1>3. /\ buffer \in Seq(Bytes) /\ Len(buffer) = Len(held) + n
      /\ \A i \in 1..Len(held) : buffer[i] = held[i]
      /\ \A i \in 1..n : buffer[Len(held) + i] = piece[i]
  <2>1. held \in Seq(Bytes) /\ piece \in Seq(Bytes) /\ Len(piece) = n
    BY <1>1, <1>2, Zenon
  <2>2. /\ held \o piece \in Seq(Bytes) /\ Len(held \o piece) = Len(held) + Len(piece)
        /\ \A i \in 1..Len(held) : (held \o piece)[i] = held[i]
        /\ \A i \in 1..Len(piece) : (held \o piece)[Len(held) + i] = piece[i]
    <3> HIDE DEF buffer
    <3>1. \A s, t \in Seq(Bytes) :
            /\ s \o t \in Seq(Bytes) /\ Len(s \o t) = Len(s) + Len(t)
            /\ \A i \in 1..Len(s) : (s \o t)[i] = s[i]
            /\ \A i \in 1..Len(t) : (s \o t)[Len(s) + i] = t[i]
      BY ConcatFacts
    <3> QED BY <2>1, <3>1, Zenon
  <2> QED BY <2>1, <2>2, Zenon
<1> HIDE DEF buffer
<1> DEFINE a == at[g]
<1>4. a \in Nat /\ Len(held) \in Nat /\ Len(coming) \in Nat /\ n \in Nat /\ n <= Len(coming)
      /\ Len(buffer) \in Nat /\ a + Len(buffer) <= Len(stream)
      /\ a + Len(buffer) + Len(after) = Len(stream)
  <2>1. a \in Nat
    BY <1>0, <1>1, Zenon
  <2> HIDE DEF a
  <2>2. Len(held) \in Nat /\ Len(coming) \in Nat
    BY <1>1
  <2>3. a + Len(held) + Len(coming) = Len(stream) /\ Len(after) = Len(coming) - n /\ Len(buffer) = Len(held) + n
    BY <1>1, <1>2, <1>3, Zenon DEF a
  <2> QED BY SMTT(30), <2>1, <2>2, <2>3
<1> HIDE DEF a
<1>5. Lies(stream, a, buffer)
  <2>1. ASSUME NEW i \in 1..Len(buffer) PROVE buffer[i] = stream[a + i]
    <3>1. CASE i <= Len(held)
      BY SMTT(30), <1>1, <1>3, <1>4, <3>1 DEF a
    <3>2. CASE ~(i <= Len(held))
      <4> DEFINE j == i - Len(held)
      <4>1. j \in 1..n /\ Len(held) + j = i /\ a + Len(held) + j = a + i /\ j \in 1..Len(coming)
        BY SMTT(30), <1>3, <1>4, <3>2
      <4> HIDE DEF j
      <4>2. buffer[Len(held) + j] = piece[j] /\ piece[j] = coming[j]
        BY <1>2, <1>3, <4>1, ZenonT(60)
      <4>3. coming[j] = stream[a + Len(held) + j]
        BY <1>1, <4>1, ZenonT(60) DEF a
      <4> QED BY <4>1, <4>2, <4>3, ZenonT(60)
    <3> QED BY SMTT(30), <3>1, <3>2
  <2> QED BY <1>4, <2>1, ZenonT(60) DEF Lies
<1>6. PICK k \in g..Len(msgs) : /\ \A i \in g..k : at[i] <= a + Len(buffer)
                                /\ k < Len(msgs) => a + Len(buffer) < at[k + 1]
  <2>1. a + Len(buffer) \in Nat /\ at[g] <= a + Len(buffer)
    BY SMTT(30), <1>4 DEF a
  <2> QED BY <1>1, <2>1, LastInPiece, ZenonT(60)
<1>7. \A loop : IsReader(loop, buffer) => PassesOnFrames(loop, buffer, msgs, at, g, k)
  BY <1>1, <1>3, <1>5, <1>6, ReadsFrames, ZenonT(60) DEF a
<1> DEFINE b == at[k]
           off == b - a
           rest == From(buffer, off)
<1>8. b \in Nat /\ a <= b /\ b <= a + Len(buffer) /\ k \in 0..Len(msgs) /\ k \in g..k
  <2>1. k \in 0..Len(msgs) /\ g \in 0..Len(msgs) /\ g <= k /\ k \in g..k
    BY SMTT(30), <1>0, <1>1, <1>6
  <2> QED BY <1>0, <1>6, <2>1, ZenonT(60) DEF a
<1> HIDE DEF b
<1>9. off \in Nat /\ off <= Len(buffer) /\ a + off = b
  BY SMTT(30), <1>4, <1>8
<1> HIDE DEF off
<1>10. rest \in Seq(Bytes) /\ Len(rest) = Len(buffer) - off /\ \A i \in 1..(Len(buffer) - off) : rest[i] = buffer[off + i]
  <2>1. off \in 0..Len(buffer)
    BY SMTT(30), <1>4, <1>9
  <2> QED BY <1>3, <2>1, FromFacts, ZenonT(60)
<1> HIDE DEF rest
<1>11. Lies(stream, b, rest)
  <2>1. b + Len(rest) <= Len(stream)
    BY SMTT(30), <1>4, <1>8, <1>9, <1>10
  <2>2. ASSUME NEW i \in 1..Len(rest) PROVE rest[i] = stream[b + i]
    <3>1. i \in 1..(Len(buffer) - off) /\ off + i \in 1..Len(buffer) /\ a + (off + i) = b + i
      BY SMTT(30), <1>4, <1>8, <1>9, <1>10
    <3>2. buffer[off + i] = stream[a + (off + i)]
      BY <1>5, <3>1, ZenonT(60) DEF Lies
    <3> QED BY <1>10, <3>1, <3>2, ZenonT(60)
  <2> QED BY <2>1, <2>2, ZenonT(60) DEF Lies
<1>12. Lies(stream, b + Len(rest), after) /\ b + Len(rest) + Len(after) = Len(stream)
  <2>1. /\ b + Len(rest) + Len(after) = Len(stream) /\ b + Len(rest) + Len(after) <= Len(stream)
        /\ b + Len(rest) = a + Len(buffer)
    <3>1. Len(rest) = Len(buffer) - off /\ Len(after) \in Nat /\ Len(stream) \in Nat
      BY SMTT(30), <1>0, <1>2, <1>10
    <3> DEFINE lb == Len(buffer)
               lr == Len(rest)
               la == Len(after)
               ls == Len(stream)
    <3>2. /\ a \in Nat /\ b \in Nat /\ off \in Nat /\ lb \in Nat /\ la \in Nat /\ ls \in Nat
          /\ off <= lb /\ a + off = b /\ lr = lb - off /\ a + lb + la = ls
      BY <1>4, <1>8, <1>9, <3>1, Zenon
    <3> HIDE DEF lb, lr, la, ls
    <3>3. b + lr + la = ls /\ b + lr + la <= ls /\ b + lr = a + lb
      BY <3>2
    <3> QED BY SMTT(30), <3>3 DEF lb, lr, la, ls
  <2>2. ASSUME NEW i \in 1..Len(after) PROVE after[i] = stream[b + Len(rest) + i]
    <3>1. i \in 1..(Len(coming) - n) /\ n + i \in 1..Len(coming) /\ a + Len(held) + (n + i) = b + Len(rest) + i
      BY SMTT(30), <1>2, <1>3, <1>4, <2>1
    <3>2. coming[n + i] = stream[a + Len(held) + (n + i)]
      BY <1>1, <3>1, ZenonT(60) DEF a
    <3> QED BY <1>2, <3>1, <3>2, ZenonT(60)
  <2> QED BY <2>1, <2>2, ZenonT(60) DEF Lies
<1>13. k < Len(msgs) => b + Len(rest) < at[k + 1]
  <2>1. Len(rest) = Len(buffer) - off
    BY <1>10
  <2>2. b + Len(rest) = a + Len(buffer)
    BY SMTT(30), <1>4, <1>8, <1>9, <2>1
  <2> QED BY <1>6, <2>2, Zenon
<1>14. ReadTo(stream, at, msgs, k, rest, after)
  BY <1>2, <1>8, <1>10, <1>11, <1>12, <1>13, ZenonT(60) DEF ReadTo, b
<1>15. ReadTo(stream, at, msgs, k, From(buffer, at[k] - at[g]), From(coming, n))
  BY <1>14, Zenon DEF rest, off, a, b, after
<1> QED BY <1>3, <1>7, <1>15, Zenon DEF buffer, piece

LEMMA SubSeqJoin ==
  ASSUME NEW S, NEW s \in Seq(S), NEW k \in 0..Len(s), NEW g \in 0..k
  PROVE  SubSeq(s, 1, g) \o SubSeq(s, g + 1, k) = SubSeq(s, 1, k)
<1> DEFINE t == SubSeq(s, 1, g)
           u == SubSeq(s, g + 1, k)
           w == SubSeq(s, 1, k)
<1>1. /\ t \in Seq(S) /\ Len(t) = g /\ \A j \in 1..g : t[j] = s[j]
      /\ u \in Seq(S) /\ Len(u) = k - g /\ \A j \in 1..(k - g) : u[j] = s[g + j]
      /\ w \in Seq(S) /\ Len(w) = k /\ \A j \in 1..k : w[j] = s[j]
  OBVIOUS
<1> HIDE DEF t, u, w
<1>2. /\ t \o u \in Seq(S) /\ Len(t \o u) = Len(t) + Len(u)
      /\ \A i \in 1..Len(t) : (t \o u)[i] = t[i]
      /\ \A i \in 1..Len(u) : (t \o u)[Len(t) + i] = u[i]
  BY SMTT(30), <1>1, ConcatFacts
<1> DEFINE v == t \o u
<1> HIDE DEF v
<1>3. v \in Seq(S) /\ Len(v) = k
  BY SMTT(30), <1>1, <1>2 DEF v
<1>4. ASSUME NEW j \in 1..Len(w) PROVE v[j] = w[j]
  <2>1. CASE j <= g
    <3>1. j \in 1..g /\ j \in 1..k
      BY SMTT(30), <1>1, <2>1
    <3> QED BY <1>1, <1>2, <3>1, Zenon DEF v
  <2>2. CASE ~(j <= g)
    <3> DEFINE i == j - g
    <3>1. i \in 1..(k - g) /\ g + i = j /\ j \in 1..k
      BY SMTT(30), <1>1, <2>2
    <3> HIDE DEF i
    <3> QED BY <1>1, <1>2, <3>1, ZenonT(60) DEF v
  <2> QED BY SMTT(30), <2>1, <2>2
<1>5. v = w
  BY SMTT(30), <1>1, <1>3, <1>4, SameSequence
<1> QED BY SMTT(30), <1>5 DEF v, t, u, w

(* The stream with one more message behind it. *)
LEMMA LaidAppend ==
  ASSUME NEW msgs \in Seq(Messages), NEW stream, NEW at, Laid(stream, at, msgs), NEW m \in Messages
  PROVE  LET f == EncodeDelimited(m)
             n == Len(msgs) + 1
             upto == [i \in 0..n |-> IF i = n THEN Len(stream) + Len(f) ELSE at[i]]
         IN Laid(stream \o f, upto, Append(msgs, m))
<1> DEFINE f == EncodeDelimited(m)
           n == Len(msgs) + 1
           upto == [i \in 0..n |-> IF i = n THEN Len(stream) + Len(f) ELSE at[i]]
           msgs2 == Append(msgs, m)
           stream2 == stream \o f
<1>1. IsMsgs(msgs)
  BY MessagesAreMsgs
<1>2. /\ Len(msgs) \in Nat /\ stream \in Seq(Bytes) /\ Len(stream) \in Nat
      /\ \A i \in 0..Len(msgs) : at[i] \in Nat
      /\ \A i, j \in 0..Len(msgs) : i <= j => at[i] <= at[j]
      /\ at[0] = 0 /\ at[Len(msgs)] = Len(stream)
  <2>1. at[0] = 0 /\ at[Len(msgs)] = Len(stream)
    BY DEF Laid
  <2> QED BY <1>1, <2>1, LaidAt, ZenonT(60)
<1>3. f \in Seq(Bytes) /\ Len(f) \in Nat
  <2>1. m \in Seq(Bytes)
    BY FramingAssumption, Zenon
  <2>2. f \in Seq(Bytes)
    BY <2>1, FrameFacts, Zenon
  <2> HIDE DEF f
  <2> QED BY <2>2
<1> HIDE DEF f
<1>4. /\ msgs2 \in Seq(Messages) /\ Len(msgs2) = n /\ msgs2[n] = m
      /\ \A i \in 1..Len(msgs) : msgs2[i] = msgs[i]
  OBVIOUS
<1>5. /\ stream2 \in Seq(Bytes) /\ Len(stream2) = Len(stream) + Len(f)
      /\ \A i \in 1..Len(stream) : stream2[i] = stream[i]
      /\ \A i \in 1..Len(f) : stream2[Len(stream) + i] = f[i]
  BY SMTT(30), <1>2, <1>3, ConcatFacts
<1> HIDE DEF stream2, msgs2
<1>6. n \in Nat /\ n = Len(msgs) + 1
  BY SMTT(30), <1>2
<1>7. /\ upto[n] = Len(stream) + Len(f) /\ \A i \in 0..Len(msgs) : upto[i] = at[i]
      /\ upto \in [0..n -> Nat]
  BY SMTT(30), <1>2, <1>3, <1>6
<1> HIDE DEF upto, n
<1>8. upto[0] = 0 /\ upto[Len(msgs2)] = Len(stream2) /\ upto \in [0..Len(msgs2) -> Nat]
  BY SMTT(30), <1>2, <1>4, <1>5, <1>7
<1>9. ASSUME NEW i \in 1..Len(msgs2)
      PROVE  /\ upto[i] = upto[i - 1] + Len(EncodeDelimited(msgs2[i]))
             /\ \A j \in 1..Len(EncodeDelimited(msgs2[i])) :
                  stream2[upto[i - 1] + j] = EncodeDelimited(msgs2[i])[j]
  <2>1. CASE i = n
    <3>1. i - 1 \in 0..Len(msgs) /\ i - 1 = Len(msgs)
      BY SMTT(30), <1>2, <1>6, <2>1
    <3>2. upto[i - 1] = Len(stream) /\ EncodeDelimited(msgs2[i]) = f /\ upto[i] = Len(stream) + Len(f)
      BY <1>2, <1>4, <1>7, <2>1, <3>1, ZenonT(60) DEF f
    <3> QED BY <1>5, <3>2, ZenonT(60)
  <2>2. CASE i # n
    <3> DEFINE h == EncodeDelimited(msgs[i])
    <3>1. i \in 1..Len(msgs) /\ i - 1 \in 0..Len(msgs) /\ i \in 0..Len(msgs)
      BY SMTT(30), <1>2, <1>4, <1>6, <2>2
    <3>2. msgs2[i] = msgs[i] /\ upto[i] = at[i] /\ upto[i - 1] = at[i - 1]
      BY <1>4, <1>7, <3>1, ZenonT(60)
    <3>3. at[i] = at[i - 1] + Len(h) /\ \A j \in 1..Len(h) : stream[at[i - 1] + j] = h[j]
      BY <3>1, Zenon DEF Laid
    <3>4. Len(h) \in Nat
      BY SMTT(30), <1>1, <3>1, MessageFacts
    <3>5. at[i] <= Len(stream) /\ at[i - 1] \in Nat /\ at[i] \in Nat
      <4>1. Len(msgs) \in 0..Len(msgs) /\ i <= Len(msgs)
        BY SMTT(30), <1>2, <3>1
      <4> QED BY <1>2, <3>1, <4>1, ZenonT(60)
    <3> HIDE DEF h
    <3>6. ASSUME NEW j \in 1..Len(h) PROVE stream2[at[i - 1] + j] = h[j]
      <4>1. at[i - 1] + j \in 1..Len(stream)
        BY SMTT(30), <1>2, <3>3, <3>4, <3>5
      <4> QED BY <1>5, <3>3, <4>1, ZenonT(60)
    <3> QED BY <3>2, <3>3, <3>6, ZenonT(60) DEF h
  <2> QED BY SMTT(30), <2>1, <2>2
<1>10. ASSUME NEW i \in 0..Len(msgs2), NEW j \in 0..Len(msgs2), i <= j PROVE upto[i] <= upto[j]
  <2>1. CASE j # n
    <3>1. i \in 0..Len(msgs) /\ j \in 0..Len(msgs)
      BY SMTT(30), <1>2, <1>4, <1>6, <1>10, <2>1
    <3> QED BY <1>2, <1>7, <1>10, <3>1, ZenonT(60)
  <2>2. CASE i = n
    <3>1. i = j /\ upto[i] \in Nat
      BY SMTT(30), <1>4, <1>6, <1>7, <1>10, <2>2
    <3> QED BY SMTT(30), <3>1
  <2>3. CASE i # n /\ j = n
    <3>1. i \in 0..Len(msgs) /\ Len(msgs) \in 0..Len(msgs) /\ i <= Len(msgs)
      BY SMTT(30), <1>2, <1>4, <1>6, <2>3
    <3>2. at[i] <= Len(stream) /\ at[i] \in Nat
      BY <1>2, <3>1, ZenonT(60)
    <3>3. upto[i] = at[i] /\ upto[j] = Len(stream) + Len(f)
      BY <1>7, <2>3, <3>1, ZenonT(60)
    <3> QED BY SMTT(30), <1>2, <1>3, <3>2, <3>3
  <2> QED BY <2>1, <2>2, <2>3, ZenonT(60)
<1>11. Laid(stream2, upto, msgs2)
  BY <1>5, <1>8, <1>9, <1>10, ZenonT(60) DEF Laid
<1> QED BY <1>11, Zenon DEF stream2, upto, msgs2, n, f

(* A message that is sent joins the bytes to come. *)
LEMMA SendPiece ==
  ASSUME NEW msgs \in Seq(Messages), NEW stream, NEW at, Laid(stream, at, msgs),
         NEW g, NEW held, NEW coming, ReadTo(stream, at, msgs, g, held, coming),
         NEW m \in Messages
  PROVE  \E s, t : /\ Laid(s, t, Append(msgs, m))
                   /\ ReadTo(s, t, Append(msgs, m), g, held, coming \o EncodeDelimited(m))
<1> DEFINE f == EncodeDelimited(m)
           n == Len(msgs) + 1
           t == [i \in 0..n |-> IF i = n THEN Len(stream) + Len(f) ELSE at[i]]
           msgs2 == Append(msgs, m)
           s == stream \o f
           later == coming \o f
<1>1. Laid(s, t, msgs2)
  BY LaidAppend, Zenon
<1>2. /\ Len(msgs) \in Nat /\ stream \in Seq(Bytes) /\ Len(stream) \in Nat
      /\ \A i \in 0..Len(msgs) : at[i] \in Nat
      /\ \A i, j \in 0..Len(msgs) : i <= j => at[i] <= at[j]
  BY MessagesAreMsgs, LaidAt, Zenon
<1>3. f \in Seq(Bytes) /\ Len(f) \in Nat /\ Len(f) >= 1
  <2> DEFINE e == EncodeVarint[Len(m)]
  <2>1. m \in Seq(Bytes)
    BY FramingAssumption, Zenon
  <2>2. e \in Seq(Bytes) /\ f \in Seq(Bytes) /\ Len(e) >= 1 /\ Len(f) = Len(e) + Len(m)
    BY <2>1, FrameFacts, ZenonT(60)
  <2> HIDE DEF e, f
  <2> QED BY SMTT(30), <2>1, <2>2
<1> HIDE DEF f
<1>4. /\ g \in 0..Len(msgs) /\ held \in Seq(Bytes) /\ coming \in Seq(Bytes)
      /\ at[g] + Len(held) + Len(coming) = Len(stream)
      /\ \A i \in 1..Len(held) : held[i] = stream[at[g] + i]
      /\ \A i \in 1..Len(coming) : coming[i] = stream[at[g] + Len(held) + i]
      /\ g < Len(msgs) => at[g] + Len(held) < at[g + 1]
  BY Zenon DEF ReadTo, Lies
<1>5. /\ t[n] = Len(stream) + Len(f) /\ \A i \in 0..Len(msgs) : t[i] = at[i]
  BY SMTT(30), <1>2
<1> HIDE DEF t
<1>6. Len(msgs2) = n /\ n \in Nat
  BY SMTT(30), <1>2
<1> HIDE DEF msgs2
<1>7. \A x, y \in Seq(Bytes) :
        /\ x \o y \in Seq(Bytes) /\ Len(x \o y) = Len(x) + Len(y)
        /\ \A i \in 1..Len(x) : (x \o y)[i] = x[i]
        /\ \A i \in 1..Len(y) : (x \o y)[Len(x) + i] = y[i]
  BY SMTT(30), ConcatFacts
<1>8. /\ s \in Seq(Bytes) /\ Len(s) = Len(stream) + Len(f)
      /\ \A i \in 1..Len(stream) : s[i] = stream[i]
      /\ \A i \in 1..Len(f) : s[Len(stream) + i] = f[i]
  BY <1>2, <1>3, <1>7, ZenonT(60)
<1>9. /\ later \in Seq(Bytes) /\ Len(later) = Len(coming) + Len(f)
      /\ \A i \in 1..Len(coming) : later[i] = coming[i]
      /\ \A i \in 1..Len(f) : later[Len(coming) + i] = f[i]
  BY <1>3, <1>4, <1>7, ZenonT(60)
<1> HIDE DEF s, later
<1> DEFINE a == at[g]
<1>10. a \in Nat /\ Len(held) \in Nat /\ Len(coming) \in Nat /\ t[g] = a /\ g \in Nat
       /\ a + Len(held) + Len(coming) = Len(stream) /\ Len(stream) \in Nat
       /\ Len(later) = Len(coming) + Len(f) /\ Len(s) = Len(stream) + Len(f)
  <2>1. Len(held) \in Nat /\ Len(coming) \in Nat /\ g \in Nat
    BY SMTT(30), <1>2, <1>4
  <2> QED BY <1>2, <1>4, <1>5, <1>8, <1>9, <2>1, ZenonT(60)
<1> HIDE DEF a
<1>11. Lies(s, a, held)
  <2>1. a + Len(held) <= Len(s)
    BY SMTT(30), <1>2, <1>3, <1>8, <1>10
  <2>2. ASSUME NEW i \in 1..Len(held) PROVE held[i] = s[a + i]
    <3>1. a + i \in 1..Len(stream)
      BY SMTT(30), <1>10
    <3> QED BY <1>4, <1>8, <3>1, ZenonT(60) DEF a
  <2> QED BY <2>1, <2>2, ZenonT(60) DEF Lies
<1>12. Lies(s, a + Len(held), later) /\ a + Len(held) + Len(later) = Len(s)
  <2> DEFINE h == Len(held)
             c == Len(coming)
             l == Len(stream)
             w == Len(f)
             x == Len(later)
             y == Len(s)
  <2>0. a \in Nat /\ h \in Nat /\ c \in Nat /\ l \in Nat /\ w \in Nat /\ a + h + c = l /\ x = c + w /\ y = l + w
    BY <1>3, <1>10, ZenonT(60)
  <2> HIDE DEF h, c, l, w, x, y
  <2>1. a + Len(held) + Len(later) = Len(s) /\ a + Len(held) + Len(later) <= Len(s)
    <3>1. a + h + x = y /\ a + h + x <= y
      BY SMTT(30), <2>0
    <3> QED BY <3>1, Zenon DEF h, x, y
  <2>2. ASSUME NEW i \in 1..Len(later) PROVE later[i] = s[a + Len(held) + i]
    <3>1. CASE i <= Len(coming)
      <4>1. i \in 1..Len(coming) /\ a + Len(held) + i \in 1..Len(stream)
        BY SMTT(30), <1>10, <3>1
      <4> QED BY <1>4, <1>8, <1>9, <4>1, ZenonT(60) DEF a
    <3>2. CASE ~(i <= Len(coming))
      <4> DEFINE j == i - Len(coming)
      <4>1. j \in 1..Len(f) /\ Len(coming) + j = i /\ Len(stream) + j = a + Len(held) + i
        <5>1. i \in 1..x /\ ~(i <= c)
          BY SMTT(30), <3>2 DEF x, c
        <5>2. i - c \in 1..w /\ c + (i - c) = i /\ l + (i - c) = a + h + i
          BY SMTT(30), <2>0, <5>1
        <5> QED BY <5>2, Zenon DEF h, c, l, w
      <4> HIDE DEF j
      <4>2. later[Len(coming) + j] = f[j] /\ s[Len(stream) + j] = f[j]
        BY <1>8, <1>9, <4>1, ZenonT(60)
      <4> QED BY <4>1, <4>2, ZenonT(60)
    <3> QED BY SMTT(30), <3>1, <3>2
  <2> QED BY <2>1, <2>2, ZenonT(60) DEF Lies
<1>13. g \in 0..Len(msgs2)
  BY SMTT(30), <1>2, <1>4, <1>6
<1>14. a + Len(held) < t[g + 1]
  <2>1. CASE g < Len(msgs)
    <3>1. g + 1 \in 0..Len(msgs)
      BY SMTT(30), <1>2, <1>10, <2>1
    <3>2. t[g + 1] = at[g + 1] /\ a + Len(held) < at[g + 1]
      BY <1>4, <1>5, <2>1, <3>1, ZenonT(60) DEF a
    <3> QED BY <3>2, Zenon
  <2>2. CASE ~(g < Len(msgs))
    <3>1. g + 1 = n
      BY SMTT(30), <1>2, <1>4, <2>2
    <3>2. t[g + 1] = Len(stream) + Len(f)
      BY <1>5, <3>1, Zenon
    <3> QED BY SMTT(30), <1>2, <1>3, <1>10, <3>2
  <2> QED BY SMTT(30), <2>1, <2>2
<1>15. ReadTo(s, t, msgs2, g, held, later)
  <2> HIDE DEF n
  <2> QED BY <1>4, <1>9, <1>10, <1>11, <1>12, <1>13, <1>14, ZenonT(60) DEF ReadTo
<1>16. Laid(s, t, msgs2) /\ ReadTo(s, t, msgs2, g, held, later)
  BY <1>1, <1>15, Zenon DEF s, t, msgs2
<1> QED BY <1>16, Zenon DEF later, msgs2, f

(* What either reader makes of a read, in a state that satisfies the invariant:
   the messages behind the last one it has passed on, and a part of the next. *)
LEMMA ReadStep ==
  ASSUME FramingInv, phase # "failed", NEW n \in 1..ReadSize, n <= Len(wire)
  PROVE  LET buffer == kept \o SubSeq(wire, 1, n)
         IN \E stream, at : \E k \in Len(got)..Len(sent) : \E rest :
              /\ Laid(stream, at, sent)
              /\ ReadTo(stream, at, sent, k, rest, From(wire, n))
              /\ ReaderLoop(kept, buffer) =
                   [out |-> SubSeq(sent, Len(got) + 1, k), rest |-> rest, raised |-> FALSE]
              /\ GetRequests(buffer) =
                   [out |-> SubSeq(sent, Len(got) + 1, k), rest |-> rest, raised |-> FALSE]
<1> DEFINE buffer == kept \o SubSeq(wire, 1, n)
<1>1. IsMsgs(sent) /\ kept \in Seq(Bytes)
  BY MessagesAreMsgs, Zenon DEF FramingInv, TypeOK
<1>2. PICK stream, at : Laid(stream, at, sent) /\ ReadTo(stream, at, sent, Len(got), kept, wire)
  BY Zenon DEF FramingInv
<1>3. n \in 1..Len(wire)
  <2>1. wire \in Seq(Bytes)
    BY DEF FramingInv, TypeOK
  <2> QED BY SMTT(30), <2>1, Constants
<1>4. /\ buffer \in Seq(Bytes)
      /\ \E k \in Len(got)..Len(sent) :
           /\ \A loop : IsReader(loop, buffer) => PassesOnFrames(loop, buffer, sent, at, Len(got), k)
           /\ ReadTo(stream, at, sent, k, From(buffer, at[k] - at[Len(got)]), From(wire, n))
  BY <1>1, <1>2, <1>3, ReadPiece, ZenonT(60)
<1>5. PICK k \in Len(got)..Len(sent) :
           /\ \A loop : IsReader(loop, buffer) => PassesOnFrames(loop, buffer, sent, at, Len(got), k)
           /\ ReadTo(stream, at, sent, k, From(buffer, at[k] - at[Len(got)]), From(wire, n))
  BY <1>4, Zenon
<1> HIDE DEF buffer
<1> DEFINE rest == From(buffer, at[k] - at[Len(got)])
<1>6. /\ \E loop : IsReader(loop, buffer) /\ ReaderLoop(kept, buffer) = loop[0]
      /\ \E loop : IsReader(loop, buffer) /\ GetRequests(buffer) = loop[0]
  BY <1>1, <1>4, ReadersRead, ZenonT(60)
<1>7. /\ ReaderLoop(kept, buffer) =
           [out |-> SubSeq(sent, Len(got) + 1, k), rest |-> rest, raised |-> FALSE]
      /\ GetRequests(buffer) =
           [out |-> SubSeq(sent, Len(got) + 1, k), rest |-> rest, raised |-> FALSE]
  BY <1>5, <1>6, ZenonT(60) DEF PassesOnFrames
<1> QED BY <1>2, <1>5, <1>7, Zenon DEF buffer

LEMMA FramingInvInit == Init => FramingInv
<1> SUFFICES ASSUME Init PROVE FramingInv
  OBVIOUS
<1>1. sent = <<>> /\ wire = <<>> /\ kept = <<>> /\ got = <<>>
  BY DEF Init
<1>2. TypeOK
  BY DEF Init, TypeOK
<1> DEFINE stream == <<>>
           at == [i \in {0} |-> 0]
<1>3. /\ stream \in Seq(Bytes) /\ Len(stream) = 0 /\ 0..Len(sent) = {0} /\ 1..Len(sent) = {} /\ Len(sent) = 0
      /\ Len(got) = 0 /\ Len(kept) = 0 /\ Len(wire) = 0 /\ SubSeq(sent, 1, 0) = <<>> /\ 0 <= 0 /\ 0 + 0 = 0
      /\ 1..0 = {} /\ ~(0 < 0) /\ 0 \in 0..0 /\ 0 <= 1 /\ 0 \in Nat
  BY SMTT(30), <1>1
<1>4. at \in [{0} -> Nat] /\ at[0] = 0
  BY SMTT(30)
<1> HIDE DEF stream, at
<1>5. Laid(stream, at, sent)
  BY SMTT(30), <1>3, <1>4 DEF Laid
<1>6. ReadTo(stream, at, sent, Len(got), kept, wire)
  <2>1. kept \in Seq(Bytes) /\ wire \in Seq(Bytes)
    BY SMTT(30), <1>2 DEF TypeOK
  <2> QED BY SMTT(30), <1>3, <1>4, <2>1 DEF ReadTo, Lies
<1>7. Len(got) <= Len(sent) /\ got = SubSeq(sent, 1, Len(got))
  BY SMTT(30), <1>1, <1>3
<1> QED BY SMTT(30), <1>1, <1>2, <1>3, <1>5, <1>6, <1>7 DEF FramingInv

LEMMA FramingInvSend ==
  ASSUME FramingInv, Send
  PROVE  FramingInv'
<1>1. PICK m \in Messages : sent' = Append(sent, m) /\ wire' = wire \o EncodeDelimited(m)
  BY ZenonT(30) DEF Send
<1>2. phase # "failed" /\ reader' = reader /\ phase' = phase /\ kept' = kept /\ got' = got
  BY DEF Send
<1>3. PICK stream, at : Laid(stream, at, sent) /\ ReadTo(stream, at, sent, Len(got), kept, wire)
  BY <1>2, Zenon DEF FramingInv
<1>4. sent \in Seq(Messages)
  BY DEF FramingInv, TypeOK
<1>5. PICK s, t : /\ Laid(s, t, Append(sent, m))
                  /\ ReadTo(s, t, Append(sent, m), Len(got), kept, wire \o EncodeDelimited(m))
  BY <1>3, <1>4, SendPiece, Zenon
<1>6. \E s1, t1 : Laid(s1, t1, sent') /\ ReadTo(s1, t1, sent', Len(got'), kept', wire')
  BY <1>1, <1>2, <1>5, ZenonT(60)
<1>7. TypeOK'
  <2>1. wire' \in Seq(Bytes)
    BY SMTT(30), <1>1, <1>5 DEF ReadTo
  <2>2. sent' \in Seq(Messages)
    BY SMTT(30), <1>1, <1>4
  <2> QED BY SMTT(30), <1>2, <2>1, <2>2 DEF FramingInv, TypeOK
<1>8. Len(got') <= Len(sent') /\ got' = SubSeq(sent', 1, Len(got'))
  <2>1. got \in Seq(Messages) /\ Len(got) <= Len(sent) /\ got = SubSeq(sent, 1, Len(got))
    BY DEF FramingInv, TypeOK
  <2>2. Len(Append(sent, m)) = Len(sent) + 1 /\ SubSeq(Append(sent, m), 1, Len(got)) = SubSeq(sent, 1, Len(got))
    BY SMTT(30), <1>4, <2>1
  <2> QED BY SMTT(30), <1>1, <1>2, <1>4, <2>1, <2>2
<1>9. phase' = "configuring" => got' = <<>> /\ Len(sent') <= 1
  <2> SUFFICES ASSUME phase = "configuring" PROVE got' = <<>> /\ Len(sent') <= 1
    BY SMTT(30), <1>2
  <2>1. sent = <<>> /\ got = <<>>
    BY DEF Send, FramingInv
  <2> QED BY SMTT(30), <1>1, <1>2, <2>1
<1> QED BY SMTT(30), <1>6, <1>7, <1>8, <1>9 DEF FramingInv

(* The state after a read that yields messages up to k. *)
LEMMA FramingInvRead ==
  ASSUME FramingInv, NEW k \in Len(got)..Len(sent),
         got' = SubSeq(sent, 1, k), sent' = sent, reader' = reader, phase' = "ready",
         NEW stream, NEW at, Laid(stream, at, sent), ReadTo(stream, at, sent, k, kept', wire')
  PROVE  FramingInv'
<1>1. sent \in Seq(Messages) /\ got \in Seq(Messages) /\ reader \in {"python", "core"}
  BY DEF FramingInv, TypeOK
<1>2. k \in 0..Len(sent) /\ k \in Nat
  BY SMTT(30), <1>1
<1>3. got' \in Seq(Messages) /\ Len(got') = k
  BY SMTT(30), <1>1, <1>2
<1>4. kept' \in Seq(Bytes) /\ wire' \in Seq(Bytes)
  BY DEF ReadTo
<1>5. TypeOK'
  BY SMTT(30), <1>1, <1>3, <1>4 DEF TypeOK
<1>6. Len(got') <= Len(sent') /\ got' = SubSeq(sent', 1, Len(got'))
  BY SMTT(30), <1>2, <1>3
<1>7. \E s, t : Laid(s, t, sent') /\ ReadTo(s, t, sent', Len(got'), kept', wire')
  BY <1>3, Zenon
<1>8. phase' # "configuring"
  OBVIOUS
<1> QED BY <1>5, <1>6, <1>7, <1>8, ZenonT(60) DEF FramingInv

(* The messages read before and the ones of this read are the first k sent. *)
LEMMA ReadJoins ==
  ASSUME FramingInv, NEW k \in Len(got)..Len(sent)
  PROVE  got \o SubSeq(sent, Len(got) + 1, k) = SubSeq(sent, 1, k)
<1> DEFINE g == Len(got)
<1>1. sent \in Seq(Messages) /\ got \in Seq(Messages) /\ got = SubSeq(sent, 1, g)
  BY DEF FramingInv, TypeOK
<1>2. k \in 0..Len(sent) /\ g \in 0..k
  BY SMTT(30), <1>1
<1>3. SubSeq(sent, 1, g) \o SubSeq(sent, g + 1, k) = SubSeq(sent, 1, k)
  <2> HIDE DEF g
  <2> QED BY <1>1, <1>2, SubSeqJoin, ZenonT(60)
<1> QED BY <1>1, <1>3, ZenonT(60)

(* A read that does not fail passes on the next messages, if any. *)
Passes ==
  /\ phase' = "ready" /\ sent' = sent
  /\ \E k \in Len(got)..Len(sent) : got' = SubSeq(sent, 1, k)

LEMMA FramingInvPython ==
  ASSUME FramingInv, ReadPython
  PROVE  FramingInv' /\ Passes
<1>1. PICK n \in 1..ReadSize :
        /\ Arrives(n)
        /\ LET read == ReaderLoop(kept, kept \o SubSeq(wire, 1, n))
           IN /\ kept' = read.rest /\ got' = got \o read.out
              /\ phase' = IF read.raised THEN "failed" ELSE phase
  BY Zenon DEF ReadPython
<1>2. phase = "ready" /\ reader' = reader /\ sent' = sent
  BY DEF ReadPython
<1>3. n <= Len(wire) /\ wire' = From(wire, n)
  BY SMTT(30), <1>1 DEF Arrives
<1>4. phase # "failed"
  BY SMTT(30), <1>2
<1> DEFINE read == ReaderLoop(kept, kept \o SubSeq(wire, 1, n))
<1>5. PICK stream, at : \E k \in Len(got)..Len(sent) : \E rest :
        /\ Laid(stream, at, sent)
        /\ ReadTo(stream, at, sent, k, rest, From(wire, n))
        /\ read = [out |-> SubSeq(sent, Len(got) + 1, k), rest |-> rest, raised |-> FALSE]
  BY <1>3, <1>4, ReadStep, ZenonT(60)
<1>6. PICK k \in Len(got)..Len(sent) : \E rest :
        /\ Laid(stream, at, sent)
        /\ ReadTo(stream, at, sent, k, rest, From(wire, n))
        /\ read = [out |-> SubSeq(sent, Len(got) + 1, k), rest |-> rest, raised |-> FALSE]
  BY <1>5, Zenon
<1>7. PICK rest :
        /\ Laid(stream, at, sent)
        /\ ReadTo(stream, at, sent, k, rest, From(wire, n))
        /\ read = [out |-> SubSeq(sent, Len(got) + 1, k), rest |-> rest, raised |-> FALSE]
  BY <1>6, Zenon
<1>8. kept' = read.rest /\ got' = got \o read.out /\ phase' = IF read.raised THEN "failed" ELSE phase
  BY <1>1, Zenon
<1> HIDE DEF read
<1>9. read.rest = rest /\ read.out = SubSeq(sent, Len(got) + 1, k) /\ read.raised = FALSE
  BY SMTT(30), <1>7
<1>10. kept' = rest /\ phase' = "ready"
  BY <1>2, <1>8, <1>9, ZenonT(60)
<1>11. got' = SubSeq(sent, 1, k)
  BY <1>8, <1>9, ReadJoins, ZenonT(60)
<1>12. ReadTo(stream, at, sent, k, kept', wire')
  BY <1>3, <1>7, <1>10, ZenonT(60)
<1>13. Passes
  BY <1>2, <1>10, <1>11, Zenon DEF Passes
<1>14. FramingInv'
  BY <1>2, <1>7, <1>10, <1>11, <1>12, FramingInvRead, ZenonT(60)
<1> QED BY <1>13, <1>14

LEMMA FramingInvCore ==
  ASSUME FramingInv, ReadCore
  PROVE  FramingInv' /\ Passes
<1>1. PICK n \in 1..ReadSize :
        /\ Arrives(n)
        /\ LET read == GetRequests(kept \o SubSeq(wire, 1, n))
           IN kept' = read.rest /\ got' = got \o read.out
  BY Zenon DEF ReadCore
<1>2. phase = "ready" /\ phase' = "ready" /\ reader' = reader /\ sent' = sent
  BY DEF ReadCore
<1>3. n <= Len(wire) /\ wire' = From(wire, n)
  BY <1>1 DEF Arrives
<1>4. phase # "failed"
  BY <1>2
<1> DEFINE read == GetRequests(kept \o SubSeq(wire, 1, n))
<1>5. PICK stream, at : \E k \in Len(got)..Len(sent) : \E rest :
        /\ Laid(stream, at, sent)
        /\ ReadTo(stream, at, sent, k, rest, From(wire, n))
        /\ read = [out |-> SubSeq(sent, Len(got) + 1, k), rest |-> rest, raised |-> FALSE]
  BY <1>3, <1>4, ReadStep, ZenonT(60)
<1>6. PICK k \in Len(got)..Len(sent) : \E rest :
        /\ Laid(stream, at, sent)
        /\ ReadTo(stream, at, sent, k, rest, From(wire, n))
        /\ read = [out |-> SubSeq(sent, Len(got) + 1, k), rest |-> rest, raised |-> FALSE]
  BY <1>5, Zenon
<1>7. PICK rest :
        /\ Laid(stream, at, sent)
        /\ ReadTo(stream, at, sent, k, rest, From(wire, n))
        /\ read = [out |-> SubSeq(sent, Len(got) + 1, k), rest |-> rest, raised |-> FALSE]
  BY <1>6, Zenon
<1>8. kept' = read.rest /\ got' = got \o read.out
  BY <1>1, Zenon
<1> HIDE DEF read
<1>9. read.rest = rest /\ read.out = SubSeq(sent, Len(got) + 1, k)
  BY <1>7
<1>11. got' = SubSeq(sent, 1, k)
  BY <1>8, <1>9, ReadJoins, Zenon
<1>12. ReadTo(stream, at, sent, k, kept', wire')
  BY <1>3, <1>7, <1>8, <1>9, ZenonT(60)
<1>13. Passes
  BY <1>2, <1>11, Zenon DEF Passes
<1>14. FramingInv'
  BY <1>2, <1>7, <1>11, <1>12, FramingInvRead, ZenonT(60)
<1> QED BY <1>13, <1>14

(* The first read: all of the connection request, or the stream has failed. *)
LEMMA FramingInvConfiguration ==
  ASSUME FramingInv, ReadConfiguration
  PROVE  /\ FramingInv'
         /\ Passes \/ (phase' = "failed" /\ got' = <<>> /\ Len(sent) = 1)
<1>1. PICK n \in 1..ReadSize :
        /\ Arrives(n)
        /\ LET read == GetRequests(kept \o SubSeq(wire, 1, n))
           IN /\ kept' = read.rest
              /\ IF read.out = <<>> THEN phase' = "failed" /\ UNCHANGED got
                 ELSE phase' = "ready" /\ got' = Append(got, read.out[Len(read.out)])
  BY Zenon DEF ReadConfiguration
<1>2. reader = "core" /\ phase = "configuring" /\ reader' = reader /\ sent' = sent
  BY DEF ReadConfiguration
<1>3. n <= Len(wire) /\ wire' = From(wire, n)
  BY SMTT(30), <1>1 DEF Arrives
<1>0. phase # "failed"
  BY SMTT(30), <1>2
<1>4. got = <<>> /\ Len(sent) <= 1 /\ sent \in Seq(Messages)
  BY <1>2 DEF FramingInv, TypeOK
<1> DEFINE read == GetRequests(kept \o SubSeq(wire, 1, n))
<1>5. PICK stream, at : \E k \in Len(got)..Len(sent) : \E rest :
        /\ Laid(stream, at, sent)
        /\ ReadTo(stream, at, sent, k, rest, From(wire, n))
        /\ read = [out |-> SubSeq(sent, Len(got) + 1, k), rest |-> rest, raised |-> FALSE]
  BY <1>0, <1>3, ReadStep, ZenonT(60)
<1>6. PICK k \in Len(got)..Len(sent) : \E rest :
        /\ Laid(stream, at, sent)
        /\ ReadTo(stream, at, sent, k, rest, From(wire, n))
        /\ read = [out |-> SubSeq(sent, Len(got) + 1, k), rest |-> rest, raised |-> FALSE]
  BY <1>5, Zenon
<1>7. PICK rest :
        /\ Laid(stream, at, sent)
        /\ ReadTo(stream, at, sent, k, rest, From(wire, n))
        /\ read = [out |-> SubSeq(sent, Len(got) + 1, k), rest |-> rest, raised |-> FALSE]
  BY <1>6, Zenon
<1>8. /\ kept' = read.rest
      /\ IF read.out = <<>> THEN phase' = "failed" /\ got' = got
         ELSE phase' = "ready" /\ got' = Append(got, read.out[Len(read.out)])
  BY SMTT(30), <1>1
<1> HIDE DEF read
<1>9. read.rest = rest /\ read.out = SubSeq(sent, Len(got) + 1, k)
  BY <1>7
<1>10. Len(got) = 0 /\ Len(got) + 1 = 1
  BY SMTT(30), <1>4
<1>11. k \in 0..1 /\ k <= Len(sent)
  BY SMTT(30), <1>4, <1>10
<1>12. ReadTo(stream, at, sent, k, kept', wire')
  BY <1>3, <1>7, <1>8, <1>9, ZenonT(60)
<1>13. CASE k = 0
  <2>1. read.out = <<>>
    BY SMTT(30), <1>4, <1>9, <1>10, <1>13
  <2>2. phase' = "failed" /\ got' = <<>>
    BY SMTT(30), <1>4, <1>8, <2>1
  <2>3. kept' \in Seq(Bytes) /\ wire' \in Seq(Bytes)
    BY SMTT(30), <1>12 DEF ReadTo
  <2>4. TypeOK'
    BY SMTT(30), <1>2, <1>4, <2>2, <2>3 DEF TypeOK
  <2>5. Len(got') <= Len(sent') /\ got' = SubSeq(sent', 1, Len(got'))
    BY SMTT(30), <1>2, <1>4, <2>2
  <2>6. FramingInv'
    BY SMTT(30), <2>2, <2>4, <2>5 DEF FramingInv
  <2>7. Len(sent) = 1
    <3>1. PICK s, t : Laid(s, t, sent) /\ ReadTo(s, t, sent, Len(got), kept, wire)
      BY <1>0, Zenon DEF FramingInv
    <3>2. /\ t[0] = 0 /\ t[Len(sent)] = Len(s)
          /\ t[Len(got)] + Len(kept) + Len(wire) = Len(s)
          /\ kept \in Seq(Bytes) /\ wire \in Seq(Bytes)
      BY <3>1, Zenon DEF Laid, ReadTo
    <3>3. Len(wire) >= 1 /\ Len(kept) >= 0 /\ Len(wire) \in Nat /\ Len(kept) \in Nat
      BY SMTT(30), <1>3, <3>2, Constants
    <3>4. Len(sent) # 0
      BY SMTT(30), <1>10, <3>2, <3>3
    <3>5. Len(sent) \in Nat /\ Len(sent) <= 1
      BY SMTT(30), <1>4
    <3> QED BY SMTT(30), <3>4, <3>5
  <2> QED BY SMTT(30), <2>2, <2>6, <2>7
<1>14. CASE k = 1
  <2>1. read.out = SubSeq(sent, 1, 1)
    BY <1>9, <1>10, <1>14, ZenonT(60)
  <2>2. /\ Len(SubSeq(sent, 1, 1)) = 1 /\ SubSeq(sent, 1, 1)[1] = sent[1] /\ SubSeq(sent, 1, 1) # <<>>
        /\ SubSeq(sent, 1, 1) = Append(<<>>, sent[1])
    <3>1. 1 <= Len(sent)
      BY SMTT(30), <1>11, <1>14
    <3> DEFINE one == SubSeq(sent, 1, 1)
    <3>2. one \in Seq(Messages) /\ Len(one) = 1 /\ one[1] = sent[1] /\ sent[1] \in Messages
      BY SMTT(30), <1>4, <3>1
    <3>3. <<sent[1]>> \in Seq(Messages) /\ Len(<<sent[1]>>) = 1 /\ <<sent[1]>>[1] = sent[1]
      BY SMTT(30), <3>2
    <3> HIDE DEF one
    <3>4. one = <<sent[1]>>
      BY SMTT(30), <3>2, <3>3
    <3>5. one # <<>> /\ Append(<<>>, sent[1]) = <<sent[1]>>
      BY SMTT(30), <3>2
    <3> QED BY SMTT(30), <3>2, <3>4, <3>5 DEF one
  <2>3. read.out[Len(read.out)] = sent[1] /\ read.out # <<>>
    BY <2>1, <2>2, ZenonT(60)
  <2>4. phase' = "ready" /\ got' = SubSeq(sent, 1, k)
    BY <1>4, <1>8, <1>14, <2>2, <2>3, ZenonT(60)
  <2>5. FramingInv'
    BY <1>2, <1>7, <1>12, <2>4, FramingInvRead, ZenonT(60)
  <2>6. Passes
    BY <1>2, <2>4, Zenon DEF Passes
  <2> QED BY <2>5, <2>6
<1> QED BY SMTT(30), <1>11, <1>13, <1>14

LEMMA FramingInvStep == FramingInv /\ [Next]_vars => FramingInv'
<1> SUFFICES ASSUME FramingInv, [Next]_vars PROVE FramingInv'
  OBVIOUS
<1>1. CASE Send
  BY SMTT(30), <1>1, FramingInvSend
<1>2. CASE ReadPython
  BY SMTT(30), <1>2, FramingInvPython
<1>3. CASE ReadConfiguration
  BY SMTT(30), <1>3, FramingInvConfiguration
<1>4. CASE ReadCore
  BY <1>4, FramingInvCore
<1>5. CASE UNCHANGED vars
  <2>1. /\ reader' = reader /\ phase' = phase /\ sent' = sent /\ wire' = wire
        /\ kept' = kept /\ got' = got
    BY SMTT(30), <1>5 DEF vars
  <2>2. TypeOK'
    BY SMTT(30), <2>1 DEF FramingInv, TypeOK
  <2> QED BY <2>1, <2>2, ZenonT(60) DEF FramingInv
<1> QED BY <1>1, <1>2, <1>3, <1>4, <1>5, ZenonT(60) DEF Next

(* The inductive invariant holds in every state. *)
THEOREM FramingInvHolds == Spec => []FramingInv
BY ZenonT(60), FramingInvInit, FramingInvStep, PTL DEF Spec

(* Every buffer holds bytes and every message passed on is one of the messages,
   whatever the messages, their number and the size of the reads. *)
THEOREM TypeOKHolds == Spec => []TypeOK
<1>1. FramingInv => TypeOK
  BY DEF FramingInv
<1> QED BY ZenonT(60), <1>1, FramingInvHolds, PTL

(* The messages passed on are the first ones sent, in order (MessagesInOrder),
   however the bytes are cut into reads. *)
THEOREM MessagesInOrderHolds == Spec => []MessagesInOrder
<1>1. FramingInv => MessagesInOrder
  <2> SUFFICES ASSUME FramingInv PROVE MessagesInOrder
    OBVIOUS
  <2>1. got \in Seq(Messages) /\ Len(got) <= Len(sent) /\ got = SubSeq(sent, 1, Len(got))
    BY DEF FramingInv, TypeOK
  <2> QED BY <2>1, Zenon DEF MessagesInOrder
<1> QED BY ZenonT(60), <1>1, FramingInvHolds, PTL

(* The bytes kept are a part of one message, none complete is held back and
   with all bytes read nothing is kept (NothingHeldBack). *)
THEOREM NothingHeldBackHolds == Spec => []NothingHeldBack
<1>1. FramingInv => NothingHeldBack
  <2> SUFFICES ASSUME FramingInv, phase # "failed"
               PROVE  /\ wire = <<>> => got = sent /\ kept = <<>>
                      /\ kept # <<>> => /\ Len(got) < Len(sent)
                                        /\ BeginsOnly(kept, EncodeDelimited(sent[Len(got) + 1]))
    BY Zenon DEF NothingHeldBack
  <2>1. PICK stream, at : Laid(stream, at, sent) /\ ReadTo(stream, at, sent, Len(got), kept, wire)
    BY Zenon DEF FramingInv
  <2>2. /\ sent \in Seq(Messages) /\ got \in Seq(Messages) /\ kept \in Seq(Bytes) /\ wire \in Seq(Bytes)
        /\ got = SubSeq(sent, 1, Len(got))
    BY DEF FramingInv, TypeOK
  <2>3. IsMsgs(sent)
    BY SMTT(30), <2>2, MessagesAreMsgs
  <2> DEFINE g == Len(got)
             N == Len(sent)
             k == Len(kept)
             w == Len(wire)
             L == Len(stream)
  <2>4. /\ N \in Nat /\ L \in Nat /\ \A i \in 0..N : at[i] \in Nat
        /\ \A i, j \in 0..N : i <= j => at[i] <= at[j]
    BY <2>1, <2>3, LaidAt, ZenonT(60)
  <2>5. /\ g \in 0..N /\ at[g] + k + w = L /\ at[N] = L /\ (g < N => at[g] + k < at[g + 1])
        /\ Lies(stream, at[g], kept)
    BY <2>1, Zenon DEF Laid, ReadTo
  <2>6. k \in Nat /\ w \in Nat
    BY <2>2
  <2> HIDE DEF g, N, k, w, L
  <2>7. g < N => at[g + 1] <= L /\ at[g + 1] \in Nat
    <3>1. g < N => g + 1 \in 0..N /\ N \in 0..N /\ g + 1 <= N
      BY SMTT(30), <2>4, <2>5
    <3> QED BY <2>4, <2>5, <3>1, ZenonT(60)
  <2>8. at[g] \in Nat
    BY <2>4, <2>5, Zenon
  <2>9. g < N => w # 0
    <3> DEFINE a == at[g]
               b == at[g + 1]
    <3>1. g < N => a + k < b /\ b <= L /\ b \in Nat
      BY <2>5, <2>7, Zenon
    <3>2. a + k + w = L /\ a \in Nat
      BY <2>5, <2>8, Zenon
    <3> HIDE DEF a, b
    <3> QED BY SMTT(30), <2>4, <2>6, <3>1, <3>2
  <2>10. g = N => k = 0
    <3> DEFINE a == at[g]
    <3>1. g = N => a = L
      BY <2>5, ZenonT(60)
    <3>2. a + k + w = L /\ a \in Nat
      BY <2>5, <2>8, Zenon
    <3> HIDE DEF a
    <3> QED BY SMTT(30), <2>4, <2>6, <3>1, <3>2
  <2>11. g = N \/ g < N
    BY SMTT(30), <2>4, <2>5
  <2>12. ASSUME wire = <<>> PROVE got = sent /\ kept = <<>>
    <3>1. w = 0
      BY <2>12 DEF w
    <3>2. g = N /\ k = 0
      BY <2>9, <2>10, <2>11, <3>1, ZenonT(60)
    <3>3. kept = <<>>
      BY SMTT(30), <2>2, <3>2 DEF k
    <3>4. got = sent
      BY SMTT(30), <2>2, <3>2 DEF g, N
    <3> QED BY SMTT(30), <3>3, <3>4
  <2>13. ASSUME kept # <<>>
         PROVE  /\ Len(got) < Len(sent)
                /\ BeginsOnly(kept, EncodeDelimited(sent[Len(got) + 1]))
    <3>1. k # 0
      BY SMTT(30), <2>2, <2>13 DEF k
    <3>2. g < N
      BY <2>10, <2>11, <3>1, ZenonT(60)
    <3> DEFINE f == EncodeDelimited(sent[g + 1])
    <3>3. g + 1 \in 1..N /\ (g + 1) - 1 = g
      BY SMTT(30), <2>4, <2>5, <3>2
    <3>4. f \in Seq(Bytes)
      BY <2>3, <3>3, MessageFacts, ZenonT(60) DEF N
    <3>5. /\ at[g + 1] = at[g] + Len(f)
          /\ \A j \in 1..Len(f) : stream[at[g] + j] = f[j]
      <4>1. \A i \in 1..N : /\ at[i] = at[i - 1] + Len(EncodeDelimited(sent[i]))
                            /\ \A j \in 1..Len(EncodeDelimited(sent[i])) :
                                 stream[at[i - 1] + j] = EncodeDelimited(sent[i])[j]
        BY <2>1, Zenon DEF Laid, N
      <4> QED BY <3>3, <4>1, Zenon
    <3> HIDE DEF f
    <3>6. k < Len(f)
      <4> DEFINE a == at[g]
      <4>1. a + k < a + Len(f) /\ a \in Nat
        BY <2>5, <2>8, <3>2, <3>5, ZenonT(60)
      <4> HIDE DEF a
      <4> QED BY SMTT(30), <2>6, <3>4, <4>1
    <3>7. \A i \in 1..k : kept[i] = f[i]
      <4> SUFFICES ASSUME NEW i \in 1..k PROVE kept[i] = f[i]
        OBVIOUS
      <4>1. i \in 1..Len(f)
        BY SMTT(30), <2>6, <3>4, <3>6
      <4>2. kept[i] = stream[at[g] + i]
        BY <2>5, Zenon DEF Lies, k
      <4> QED BY <3>5, <4>1, <4>2, ZenonT(60)
    <3>8. kept = SubSeq(f, 1, k)
      <4> DEFINE t == SubSeq(f, 1, k)
      <4>1. Len(kept) = k
        BY DEF k
      <4>2. t \in Seq(Bytes) /\ Len(t) = k /\ \A i \in 1..k : t[i] = f[i]
        BY SMTT(30), <2>6, <3>4, <3>6
      <4> HIDE DEF t
      <4>3. kept = t
        BY <2>2, <3>7, <4>1, <4>2, SameSequence, ZenonT(60)
      <4> QED BY ZenonT(30), <4>3 DEF t
    <3>9. k < Len(f)
      BY SMTT(30), <2>6, <3>4, <3>6
    <3>10. BeginsOnly(kept, f)
      BY <3>8, <3>9, ZenonT(60) DEF BeginsOnly, k
    <3> QED BY <3>2, <3>10, Zenon DEF g, N, f
  <2> QED BY SMTT(30), <2>12, <2>13
<1> QED BY <1>1, FramingInvHolds, PTL

(* A reader that sees the first n bytes of the frame of m, and nothing else. *)
LEMMA ReadsOneFrame ==
  ASSUME NEW m \in Seq(Bytes), Len(m) < Mask, NEW n \in 0..Len(EncodeDelimited(m)),
         NEW loop, IsReader(loop, SubSeq(EncodeDelimited(m), 1, n))
  PROVE  /\ n = Len(EncodeDelimited(m)) => loop[0] = [out |-> <<m>>, rest |-> <<>>, raised |-> FALSE]
         /\ n < Len(EncodeDelimited(m)) =>
              loop[0] = [out |-> <<>>, rest |-> SubSeq(EncodeDelimited(m), 1, n), raised |-> FALSE]
<1> DEFINE e == EncodeVarint[Len(m)]
           f == EncodeDelimited(m)
           piece == SubSeq(f, 1, n)
<1>1. f \in Seq(Bytes) /\ Len(f) >= 1
  <2>1. e \in Seq(Bytes) /\ f \in Seq(Bytes) /\ Len(e) >= 1 /\ Len(f) = Len(e) + Len(m)
    BY FrameFacts, Zenon
  <2> HIDE DEF e, f
  <2> QED BY SMTT(30), <2>1
<1>2. n \in 0..Len(f) /\ IsReader(loop, piece)
  OBVIOUS
<1> HIDE DEF f
<1>3. piece \in Seq(Bytes) /\ Len(piece) = n /\ \A i \in 1..n : piece[i] = f[i]
  BY SMTT(30), <1>1, <1>2
<1> HIDE DEF piece
<1>4. Matches(piece, 0, f)
  <2> SUFFICES ASSUME NEW i \in 1..Len(f), 0 + i <= Len(piece) PROVE piece[0 + i] = f[i]
    BY Zenon DEF Matches
  <2>1. i \in 1..n /\ 0 + i = i
    BY SMTT(30), <1>1, <1>3
  <2> QED BY <1>3, <2>1, Zenon
<1>5. 0 \in 0..Len(piece) /\ Len(piece) \in 0..Len(piece) /\ n \in Nat /\ ~(n < 0)
  BY SMTT(30), <1>1, <1>2, <1>3
<1>6. ASSUME n = Len(f) PROVE loop[0] = [out |-> <<m>>, rest |-> <<>>, raised |-> FALSE]
  <2>1. 0 + Len(f) <= Len(piece) /\ 0 < Len(piece) /\ 0 + Len(f) = Len(piece)
    BY SMTT(30), <1>1, <1>3, <1>6
  <2> DEFINE d == DecodeDelimited(piece, 0)
             rest == [out |-> <<>>, rest |-> From(piece, Len(piece)), raised |-> FALSE]
  <2>2. d = [kind |-> "ok", message |-> m, next |-> Len(piece)]
    <3>1. d = [kind |-> "ok", message |-> m, next |-> 0 + Len(f)]
      BY <1>3, <1>4, <1>5, <2>1, DecodeDelimitedWhole, ZenonT(60) DEF f
    <3> QED BY <2>1, <3>1, ZenonT(60)
  <2>3. DecodeDelimited(piece, Len(piece)) = Partial
    BY <1>3, DecodeAtEnd, ZenonT(60)
  <2>4. loop[Len(piece)] = rest
    <3>1. Partial.kind = "partial"
      BY DEF Partial
    <3> QED BY <1>2, <1>5, <2>3, <3>1, ZenonT(60) DEF IsReader
  <2>5. loop[0] = WithMessage(m, rest)
    <3> HIDE DEF rest, d
    <3>1. d.kind = "ok" /\ d.message = m /\ d.next = Len(piece)
      BY <2>2
    <3> QED BY <1>2, <1>5, <2>1, <2>4, <3>1, ZenonT(60) DEF IsReader, d
  <2>6. From(piece, Len(piece)) = <<>>
    <3>1. Len(From(piece, Len(piece))) = 0 /\ From(piece, Len(piece)) \in Seq(Bytes)
      BY <1>3 DEF From
    <3> QED BY <3>1
  <2>7. WithMessage(m, rest) = [out |-> <<m>> \o <<>>, rest |-> <<>>, raised |-> FALSE]
    BY <2>6, WithMessageOf, Zenon
  <2>8. <<m>> \o <<>> = <<m>>
    <3> DEFINE M == Seq(Bytes)
    <3>1. m \in M
      OBVIOUS
    <3> HIDE DEF M
    <3> QED BY <3>1
  <2> QED BY <2>5, <2>7, <2>8, ZenonT(60)
<1>7. ASSUME n < Len(f) PROVE loop[0] = [out |-> <<>>, rest |-> piece, raised |-> FALSE]
  <2>1. Len(piece) < 0 + Len(f)
    BY SMTT(30), <1>1, <1>3, <1>7
  <2>2. DecodeDelimited(piece, 0) = Partial
    BY <1>3, <1>4, <1>5, <2>1, DecodeDelimitedPart, ZenonT(60) DEF f
  <2>3. loop[0] = [out |-> <<>>, rest |-> From(piece, 0), raised |-> FALSE]
    <3>1. Partial.kind = "partial"
      BY DEF Partial
    <3> QED BY <1>2, <1>5, <2>2, <3>1, ZenonT(60) DEF IsReader
  <2>4. From(piece, 0) = piece
    <3>1. 0 + 1 = 1 /\ SubSeq(piece, 1, Len(piece)) = piece
      BY <1>3
    <3> QED BY <3>1, Zenon DEF From
  <2> QED BY <2>3, <2>4, ZenonT(60)
<1> QED BY <1>6, <1>7, ZenonT(60) DEF piece, f

(* A message of any length below the mask is read back whole by either reader,
   and a part of its frame is kept as it is (FramesRoundTrip). *)
THEOREM FramesRoundTripHolds == Spec => []FramesRoundTrip
<1>1. FramesRoundTrip
  <2> SUFFICES ASSUME NEW length \in 0..(Mask - 1)
               PROVE  LET m == [i \in 1..length |-> 0]
                          frame == EncodeDelimited(m)
                      IN /\ Reads(frame) = [out |-> <<m>>, rest |-> <<>>, raised |-> FALSE]
                         /\ \A n \in 0..(Len(frame) - 1) :
                              LET piece == SubSeq(frame, 1, n)
                              IN Reads(piece) = [out |-> <<>>, rest |-> piece, raised |-> FALSE]
    BY Zenon DEF FramesRoundTrip
  <2> DEFINE m == [i \in 1..length |-> 0]
             frame == EncodeDelimited(m)
             e == EncodeVarint[Len(m)]
  <2>1. m \in Seq(Bytes) /\ Len(m) < Mask
    <3>1. length \in Nat /\ length < Mask
      BY Constants
    <3>2. 0 \in Bytes
      BY Constants DEF Bytes
    <3> HIDE DEF m
    <3>3. m \in Seq(Bytes) /\ Len(m) = length
      BY SMTT(30), <3>1, <3>2 DEF m
    <3> QED BY SMTT(30), <3>1, <3>3
  <2> HIDE DEF m
  <2>2. frame \in Seq(Bytes)
    <3>1. e \in Seq(Bytes) /\ frame \in Seq(Bytes) /\ Len(e) >= 1 /\ Len(frame) = Len(e) + Len(m)
      BY <2>1, FrameFacts, Zenon
    <3> QED BY <3>1
  <2>3. ASSUME NEW n \in 0..Len(frame)
        PROVE  LET piece == SubSeq(frame, 1, n)
               IN /\ n = Len(frame) => Reads(piece) = [out |-> <<m>>, rest |-> <<>>, raised |-> FALSE]
                  /\ n < Len(frame) => Reads(piece) = [out |-> <<>>, rest |-> piece, raised |-> FALSE]
    <3> DEFINE piece == SubSeq(frame, 1, n)
    <3>1. piece \in Seq(Bytes) /\ <<>> \in Seq(Bytes)
      <4> HIDE DEF frame
      <4> QED BY SMTT(30), <2>2
    <3>2. PICK loop : IsReader(loop, piece) /\ Reads(piece) = loop[0]
      <4> HIDE DEF piece
      <4>1. /\ \E loop : IsReader(loop, piece) /\ ReaderLoop(<<>>, piece) = loop[0]
            /\ \E loop : IsReader(loop, piece) /\ GetRequests(piece) = loop[0]
        BY <3>1, ReadersRead, Zenon
      <4> QED BY <4>1, Zenon DEF Reads
    <3> QED BY <2>1, <3>2, ReadsOneFrame, Zenon
  <2>4. Len(frame) \in 0..Len(frame) /\ SubSeq(frame, 1, Len(frame)) = frame
    <3> HIDE DEF frame
    <3> QED BY <2>2
  <2>5. \A n \in 0..(Len(frame) - 1) : n \in 0..Len(frame) /\ n < Len(frame)
    <3> HIDE DEF frame
    <3> QED BY <2>2
  <2> HIDE DEF frame
  <2>6. Reads(frame) = [out |-> <<m>>, rest |-> <<>>, raised |-> FALSE]
    BY <2>3, <2>4, Zenon
  <2>7. ASSUME NEW n \in 0..(Len(frame) - 1)
        PROVE  Reads(SubSeq(frame, 1, n)) = [out |-> <<>>, rest |-> SubSeq(frame, 1, n), raised |-> FALSE]
    BY <2>3, <2>5, Zenon
  <2> QED BY <2>6, <2>7, Zenon DEF frame, m
<1> QED BY <1>1, PTL

-----------------------------------------------------------------------------
(* The queue of messages *)

(* What is left of a sequence behind its first g, and then behind n more. *)
LEMMA FromLater ==
  ASSUME NEW S, NEW s \in Seq(S), NEW g \in 0..Len(s), NEW k \in g..Len(s)
  PROVE  LET q == From(s, g)
         IN /\ Len(q) = Len(s) - g
            /\ SubSeq(q, 1, k - g) = SubSeq(s, g + 1, k)
            /\ SubSeq(q, (k - g) + 1, Len(q)) = From(s, k)
<1> DEFINE q == From(s, g)
<1>1. /\ Len(s) \in Nat /\ g \in Nat /\ k \in Nat /\ g <= k /\ k <= Len(s)
      /\ q \in Seq(S) /\ Len(q) = Len(s) - g /\ \A i \in 1..(Len(s) - g) : q[i] = s[g + i]
  BY SMTT(30) DEF From
<1> HIDE DEF q
<1> DEFINE a == SubSeq(q, 1, k - g)
           b == SubSeq(s, g + 1, k)
<1>2. /\ a \in Seq(S) /\ Len(a) = k - g /\ \A i \in 1..(k - g) : a[i] = q[i]
      /\ b \in Seq(S) /\ Len(b) = k - g /\ \A i \in 1..(k - g) : b[i] = s[g + i]
  BY SMTT(30), <1>1
<1>3. a = b
  <2> HIDE DEF a, b
  <2> QED BY SMTT(30), <1>1, <1>2
<1> DEFINE c == SubSeq(q, (k - g) + 1, Len(q))
           d == From(s, k)
<1>4. /\ c \in Seq(S) /\ Len(c) = Len(s) - k /\ \A i \in 1..(Len(s) - k) : c[i] = q[(k - g) + i]
      /\ d \in Seq(S) /\ Len(d) = Len(s) - k /\ \A i \in 1..(Len(s) - k) : d[i] = s[k + i]
  BY SMTT(30), <1>1 DEF From
<1>5. c = d
  <2> HIDE DEF c, d
  <2>1. \A i \in 1..(Len(s) - k) : (k - g) + i \in 1..(Len(s) - g) /\ g + ((k - g) + i) = k + i
    BY SMTT(30), <1>1
  <2>2. \A i \in 1..(Len(s) - k) : c[i] = d[i]
    BY <1>1, <1>4, <2>1, Zenon
  <2>3. Len(s) - k \in Nat
    BY SMTT(30), <1>1
  <2> QED BY SMTT(30), <1>4, <2>2, <2>3
<1> QED BY <1>1, <1>3, <1>5, Zenon DEF q, a, b, c, d

LEMMA FromAppend ==
  ASSUME NEW S, NEW s \in Seq(S), NEW m \in S, NEW g \in 0..Len(s)
  PROVE  From(Append(s, m), g) = Append(From(s, g), m)
<1>1. Len(s) \in Nat /\ g \in Nat /\ g <= Len(s)
  BY SMTT(30)
<1> DEFINE a == From(Append(s, m), g)
           b == Append(From(s, g), m)
<1>2. /\ Append(s, m) \in Seq(S) /\ Len(Append(s, m)) = Len(s) + 1
      /\ \A i \in 1..(Len(s) + 1) : Append(s, m)[i] = IF i = Len(s) + 1 THEN m ELSE s[i]
  BY SMTT(30)
<1>3. /\ From(s, g) \in Seq(S) /\ Len(From(s, g)) = Len(s) - g
      /\ \A i \in 1..(Len(s) - g) : From(s, g)[i] = s[g + i]
  BY SMTT(30), <1>1 DEF From
<1>4. /\ a \in Seq(S) /\ Len(a) = (Len(s) - g) + 1
      /\ \A i \in 1..((Len(s) - g) + 1) : a[i] = Append(s, m)[g + i]
  <2> DEFINE t == Append(s, m)
  <2>1. t \in Seq(S) /\ Len(t) = Len(s) + 1
    BY <1>2
  <2> HIDE DEF t
  <2>2. /\ From(t, g) \in Seq(S) /\ Len(From(t, g)) = (Len(s) - g) + 1
        /\ \A i \in 1..((Len(s) - g) + 1) : From(t, g)[i] = t[g + i]
    BY SMTT(30), <1>1, <2>1 DEF From
  <2> QED BY <2>2 DEF t
<1>5. /\ b \in Seq(S) /\ Len(b) = (Len(s) - g) + 1
      /\ \A i \in 1..((Len(s) - g) + 1) :
           b[i] = IF i = (Len(s) - g) + 1 THEN m ELSE From(s, g)[i]
  <2> DEFINE u == From(s, g)
  <2>1. u \in Seq(S) /\ Len(u) = Len(s) - g
    BY <1>3
  <2> HIDE DEF u
  <2> QED BY SMTT(30), <1>1, <2>1 DEF u
<1>6. \A i \in 1..((Len(s) - g) + 1) : a[i] = b[i]
  <2> HIDE DEF a, b
  <2>1. \A i \in 1..((Len(s) - g) + 1) :
          /\ g + i \in 1..(Len(s) + 1)
          /\ g + i = Len(s) + 1 <=> i = (Len(s) - g) + 1
          /\ i # (Len(s) - g) + 1 => i \in 1..(Len(s) - g)
    BY SMTT(30), <1>1
  <2> QED BY <1>2, <1>3, <1>4, <1>5, <2>1, SMTT(30)
<1>7. a = b
  <2> HIDE DEF a, b
  <2> QED BY SMTT(30), <1>1, <1>4, <1>5, <1>6
<1> QED BY <1>7

Queue == From(sent, Len(got))

Up == phase # "failed"

LEMMA SendSends ==
  ASSUME FramingInv, Send
  PROVE  AsChannel!Next
<1>1. PICK m \in Messages : sent' = Append(sent, m)
  BY Zenon DEF Send
<1>2. phase # "failed" /\ phase' = phase /\ got' = got
  BY DEF Send
<1>3. sent \in Seq(Messages) /\ got \in Seq(Messages) /\ Len(got) <= Len(sent)
  BY DEF FramingInv, TypeOK
<1>4. Len(got) \in 0..Len(sent)
  BY SMTT(30), <1>3
<1>5. Queue' = Append(Queue, m)
  BY <1>1, <1>2, <1>3, <1>4, FromAppend, ZenonT(60) DEF Queue
<1>6. Up = TRUE /\ Up' = Up
  BY <1>2 DEF Up
<1>7. AsChannel!Send(m)
  BY <1>2, <1>5, <1>6, Zenon DEF AsChannel!Send, Queue, Up
<1> QED BY <1>7 DEF AsChannel!Next

LEMMA PassesDelivers ==
  ASSUME FramingInv, phase # "failed", Passes
  PROVE  AsChannel!Next \/ UNCHANGED AsChannel!channelVars
<1>1. sent \in Seq(Messages) /\ got \in Seq(Messages) /\ Len(got) <= Len(sent)
  BY DEF FramingInv, TypeOK
<1>2. PICK k \in Len(got)..Len(sent) : got' = SubSeq(sent, 1, k)
  BY DEF Passes
<1>3. phase' = "ready" /\ sent' = sent
  BY DEF Passes
<1>4. Len(got) \in 0..Len(sent) /\ Len(got) \in Nat /\ k \in Nat /\ Len(got) <= k /\ k <= Len(sent)
  BY SMTT(30), <1>1
<1>5. Len(got') = k
  BY SMTT(30), <1>1, <1>2, <1>4
<1>6. /\ Len(Queue) = Len(sent) - Len(got)
      /\ SubSeq(Queue, 1, k - Len(got)) = SubSeq(sent, Len(got) + 1, k)
      /\ SubSeq(Queue, (k - Len(got)) + 1, Len(Queue)) = From(sent, k)
  BY <1>1, <1>4, FromLater, ZenonT(60) DEF Queue
<1>7. Queue' = From(sent, k)
  BY <1>3, <1>5, Zenon DEF Queue
<1>8. got' = got \o SubSeq(sent, Len(got) + 1, k)
  BY <1>2, ReadJoins, Zenon
<1>9. Up = TRUE /\ Up' = Up
  BY <1>3 DEF Up
<1>10. CASE k = Len(got)
  <2>1. Queue' = Queue
    BY <1>7, <1>10 DEF Queue
  <2>2. got' = got
    BY <1>2, <1>10, Zenon DEF FramingInv
  <2> QED BY <1>9, <2>1, <2>2, Zenon DEF AsChannel!channelVars, Queue, Up
<1>11. CASE k # Len(got)
  <2> DEFINE n == k - Len(got)
  <2>1. n \in 1..Len(Queue)
    BY SMTT(30), <1>1, <1>4, <1>6, <1>11
  <2>2. got' = got \o SubSeq(Queue, 1, n) /\ Queue' = SubSeq(Queue, n + 1, Len(Queue))
    BY <1>6, <1>7, <1>8, Zenon
  <2> HIDE DEF n
  <2>3. AsChannel!Deliver(n)
    BY <1>9, <2>2, Zenon DEF AsChannel!Deliver, Queue, Up
  <2> QED BY <2>1, <2>3, Zenon DEF AsChannel!Next, Queue
<1> QED BY SMTT(30), <1>10, <1>11

LEMMA ConfigurationFails ==
  ASSUME FramingInv, ReadConfiguration, phase' = "failed", got' = <<>>, Len(sent) = 1
  PROVE  AsChannel!Next
<1>1. phase = "configuring" /\ sent' = sent
  BY DEF ReadConfiguration
<1>2. got = <<>> /\ sent \in Seq(Messages)
  BY <1>1 DEF FramingInv, TypeOK
<1>3. Len(got) = 0 /\ 0 \in 0..Len(sent) /\ Len(sent) \in 0..Len(sent) /\ Len(sent) - 0 = 1
  BY <1>2
<1>4. Queue' = Queue
  BY <1>1, <1>2, Zenon DEF Queue
<1>5. Len(Queue) = 1
  BY <1>2, <1>3, SMTT(30) DEF Queue, From
<1>6. Up = TRUE /\ Up' = FALSE
  BY <1>1 DEF Up
<1>7. AsChannel!Fail
  BY <1>2, <1>4, <1>5, <1>6, Zenon DEF AsChannel!Fail, Queue, Up
<1> QED BY <1>7 DEF AsChannel!Next

LEMMA NextChannel == FramingInv /\ [Next]_vars => [AsChannel!Next]_(AsChannel!channelVars)
<1> SUFFICES ASSUME FramingInv, [Next]_vars PROVE [AsChannel!Next]_(AsChannel!channelVars)
  OBVIOUS
<1>1. CASE Send
  BY <1>1, SendSends
<1>2. CASE ReadPython
  <2>1. phase # "failed"
    BY SMTT(30), <1>2 DEF ReadPython
  <2> QED BY SMTT(30), <1>2, <2>1, FramingInvPython, PassesDelivers
<1>3. CASE ReadCore
  <2>1. phase # "failed"
    BY <1>3 DEF ReadCore
  <2> QED BY <1>3, <2>1, FramingInvCore, PassesDelivers
<1>4. CASE ReadConfiguration
  <2>1. phase # "failed"
    BY <1>4 DEF ReadConfiguration
  <2> QED BY SMTT(30), <1>4, <2>1, FramingInvConfiguration, PassesDelivers, ConfigurationFails
<1>5. CASE UNCHANGED vars
  <2>1. Up' = Up /\ Queue' = Queue /\ got' = got
    BY <1>5, Zenon DEF vars, Up, Queue
  <2> QED BY <2>1, Zenon DEF AsChannel!channelVars, Up, Queue
<1> QED BY SMTT(30), <1>1, <1>2, <1>3, <1>4, <1>5 DEF Next

LEMMA InitChannel == Init => AsChannel!Init
<1> SUFFICES ASSUME Init PROVE AsChannel!Init
  OBVIOUS
<1>1. sent = <<>> /\ got = <<>> /\ phase # "failed"
  BY DEF Init
<1>2. Queue = <<>>
  BY <1>1 DEF Queue, From
<1>3. Up = TRUE
  BY <1>1 DEF Up
<1> QED BY <1>1, <1>2, <1>3, Zenon DEF AsChannel!Init, Queue, Up

(* Varints, frames, reads of any size and the bytes kept between them implement
   a queue of messages, for either reader: _reader_loop and get_requests deliver
   the next messages in order, and no cut of the bytes but one through the
   connection request makes the stream fail. *)
THEOREM ImplementsChannelHolds == Spec => ImplementsChannel
BY FramingInvInit, FramingInvStep, InitChannel, NextChannel, PTL
   DEF Spec, ImplementsChannel, AsChannel!Spec

=============================================================================
