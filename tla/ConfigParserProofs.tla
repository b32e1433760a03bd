--------------------------- MODULE ConfigParserProofs --------------------------
(***************************************************************************)
(* What parser.c makes of a file, for every file of the shape that a       *)
(* configuration has and every number of routers, devices and fields.      *)
(*                                                                         *)
(* The library's induction theorems take the claim as an operator, which   *)
(* the provers cannot instantiate.  Everything here is by Induction, which *)
(* takes the set of numbers that the claim holds for.                      *)
(***************************************************************************)
EXTENDS ConfigParser, SequenceTheorems, WellFoundedInduction, TLAPS

(* A set with 0 and the successors of its elements has all numbers.        *)
LEMMA Induction ==
  ASSUME NEW S, 0 \in S, \A n \in Nat : n \in S => n + 1 \in S
  PROVE  Nat \subseteq S
<1> DEFINE T == {n \in Nat : n \notin S}
<1>1. SUFFICES T = {}
  OBVIOUS
<1>2. SUFFICES ASSUME T # {} PROVE FALSE
  OBVIOUS
<1>3. T \subseteq Nat
  OBVIOUS
<1> HIDE DEF T
<1>4. PICK n \in T : \A m \in T : ~ (<<m, n>> \in OpToRel(<, Nat))
  BY <1>2, <1>3, NatLessThanWellFounded, WFMin
<1>5. n \in Nat /\ n \notin S /\ n # 0
  BY <1>4 DEF T
<1>6. n - 1 \in Nat /\ n - 1 < n /\ (n - 1) + 1 = n
  BY <1>5
<1>7. n - 1 \notin T
  <2>1. <<n - 1, n>> \in OpToRel(<, Nat)
    BY <1>5, <1>6 DEF OpToRel
  <2> QED BY <2>1, <1>4
<1>8. n - 1 \in S
  BY <1>6, <1>7 DEF T
<1> QED BY <1>5, <1>6, <1>8

-----------------------------------------------------------------------------
(* Sequences.                                                              *)

IsSeq(s) == \E S : s \in Seq(S)

LEMMA SeqFacts ==
  ASSUME NEW s, IsSeq(s)
  PROVE  Len(s) \in Nat /\ DOMAIN s = 1..Len(s)
BY DEF IsSeq

LEMMA Joint ==
  ASSUME NEW s, NEW t, IsSeq(s), IsSeq(t)
  PROVE  \E S : s \in Seq(S) /\ t \in Seq(S)
<1>1. PICK S : s \in Seq(S)
  BY DEF IsSeq
<1>2. PICK T : t \in Seq(T)
  BY DEF IsSeq
<1>3. s \in Seq(S \cup T) /\ t \in Seq(S \cup T)
  BY <1>1, <1>2
<1> QED BY <1>3

LEMMA JoinFacts ==
  ASSUME NEW s, NEW t, IsSeq(s), IsSeq(t)
  PROVE  /\ IsSeq(s \o t) /\ Len(s \o t) = Len(s) + Len(t)
         /\ \A i \in 1..Len(s) : (s \o t)[i] = s[i]
         /\ \A i \in 1..Len(t) : (s \o t)[Len(s) + i] = t[i]
<1>1. PICK S : s \in Seq(S) /\ t \in Seq(S)
  BY Joint
<1>2. Len(s) \in Nat /\ Len(t) \in Nat
  BY <1>1
<1>3. /\ s \o t \in Seq(S) /\ Len(s \o t) = Len(s) + Len(t)
      /\ \A i \in 1..Len(s) + Len(t) :
           (s \o t)[i] = IF i <= Len(s) THEN s[i] ELSE t[i - Len(s)]
  BY <1>1, ConcatProperties
<1>4. \A i \in 1..Len(s) : i \in 1..Len(s) + Len(t) /\ i <= Len(s)
  BY <1>2
<1>5. \A i \in 1..Len(t) :
        /\ Len(s) + i \in 1..Len(s) + Len(t) /\ ~(Len(s) + i <= Len(s))
        /\ (Len(s) + i) - Len(s) = i
  BY <1>2
<1> QED BY <1>3, <1>4, <1>5 DEF IsSeq

LEMMA Listed ==
  ASSUME NEW n \in Nat, NEW s, s = [i \in 1..n |-> s[i]]
  PROVE  IsSeq(s) /\ Len(s) = n
<1> DEFINE T == {s[i] : i \in 1..n}
<1>1. s \in [1..n -> T]
  OBVIOUS
<1> HIDE DEF T
<1>2. s \in Seq(T) /\ Len(s) = n
  BY <1>1
<1> QED BY <1>2 DEF IsSeq

LEMMA NoElements == IsSeq(<<>>) /\ Len(<<>>) = 0
<1>1. <<>> \in Seq({})
  OBVIOUS
<1> QED BY <1>1 DEF IsSeq

LEMMA OneElement ==
  ASSUME NEW x
  PROVE  IsSeq(<<x>>) /\ Len(<<x>>) = 1 /\ <<x>>[1] = x
<1>1. <<x>> \in Seq({x})
  OBVIOUS
<1> QED BY <1>1 DEF IsSeq

LEMMA SameElements ==
  ASSUME NEW s, NEW t, IsSeq(s), IsSeq(t), Len(s) = Len(t),
         \A i \in 1..Len(s) : s[i] = t[i]
  PROVE  s = t
<1>1. PICK S : s \in Seq(S) /\ t \in Seq(S)
  BY Joint
<1> QED BY <1>1, SeqEqual

LEMMA TwoElements ==
  ASSUME NEW x, NEW y
  PROVE  <<x, y>> = <<x>> \o <<y>>
<1> DEFINE s == <<x, y>>
<1>1. s \in Seq({x, y}) /\ Len(s) = 2 /\ s[1] = x /\ s[2] = y
  OBVIOUS
<1> HIDE DEF s
<1>2. IsSeq(s)
  BY <1>1 DEF IsSeq
<1>3. /\ IsSeq(<<x>> \o <<y>>) /\ Len(<<x>> \o <<y>>) = 2
      /\ (<<x>> \o <<y>>)[1] = x /\ (<<x>> \o <<y>>)[2] = y
  <2>1. 1 \in 1..1 /\ 1 + 1 = 2
    OBVIOUS
  <2> QED BY <2>1, OneElement, JoinFacts
<1>4. \A i \in 1..2 : i = 1 \/ i = 2
  OBVIOUS
<1>5. s = <<x>> \o <<y>>
  BY <1>1, <1>2, <1>3, <1>4, SameElements
<1> QED BY <1>5 DEF s

LEMMA JoinedTwice ==
  ASSUME NEW s, NEW t, NEW u, IsSeq(s), IsSeq(t), IsSeq(u)
  PROVE  (s \o t) \o u = s \o (t \o u)
<1>1. PICK S : s \in Seq(S) /\ t \in Seq(S)
  BY Joint
<1>2. PICK T : u \in Seq(T)
  BY DEF IsSeq
<1> DEFINE V == S \cup T
<1>3. s \in Seq(V) /\ t \in Seq(V) /\ u \in Seq(V)
  BY <1>1, <1>2
<1> HIDE DEF V
<1> QED BY <1>3, ConcatAssociative

LEMMA JoinedNothing ==
  ASSUME NEW s, IsSeq(s)
  PROVE  s \o <<>> = s /\ <<>> \o s = s
BY ConcatEmptySeq DEF IsSeq

-----------------------------------------------------------------------------
(* The parts of a file, one behind the other.                              *)

(* The function that FlattenSeq defines by recursion.                      *)
Flattens(f, parts, n) ==
  f = [i \in 1..n |-> IF i = 1 THEN parts[i] ELSE f[i - 1] \o parts[i]]

LEMMA FlattenExists ==
  ASSUME NEW parts
  PROVE  \A n \in Nat : \E f : Flattens(f, parts, n)
<1> DEFINE S == {n \in Nat : \E f : Flattens(f, parts, n)}
<1>1. 0 \in S
  <2>1. Flattens([i \in 1..0 |-> 0], parts, 0)
    BY DEF Flattens
  <2> QED BY <2>1
<1>2. ASSUME NEW n \in Nat, n \in S
      PROVE  n + 1 \in S
  <2>1. PICK f : Flattens(f, parts, n)
    BY <1>2
  <2> DEFINE g == [i \in 1..n + 1 |-> IF i = 1 THEN parts[i]
                                     ELSE IF i = n + 1 THEN f[n] \o parts[i] ELSE f[i]]
  <2>2. ASSUME NEW i \in 1..n + 1
        PROVE  g[i] = IF i = 1 THEN parts[i] ELSE g[i - 1] \o parts[i]
    <3>1. CASE i = 1
      BY <3>1
    <3>2. CASE i # 1 /\ i # n + 1
      <4>1. i \in 1..n /\ i - 1 \in 1..n + 1 /\ i - 1 \in 1..n /\ i - 1 # n + 1
        BY <3>2
      <4>2. f[i] = f[i - 1] \o parts[i]
        BY <2>1, <3>2, <4>1 DEF Flattens
      <4>3. g[i - 1] = f[i - 1]
        BY <4>1, <2>1 DEF Flattens
      <4> QED BY <3>2, <4>2, <4>3
    <3>3. CASE i # 1 /\ i = n + 1
      <4>1. n \in 1..n /\ n \in 1..n + 1 /\ n # n + 1 /\ i - 1 = n
        BY <3>3
      <4>2. g[n] = f[n]
        BY <4>1, <2>1 DEF Flattens
      <4>3. g[i] = f[n] \o parts[i]
        BY <3>3
      <4> HIDE DEF g
      <4> QED BY <3>3, <4>1, <4>2, <4>3
    <3> QED BY <3>1, <3>2, <3>3
  <2>3. g = [i \in 1..n + 1 |-> g[i]]
    OBVIOUS
  <2> HIDE DEF g
  <2>4. Flattens(g, parts, n + 1)
    BY <2>2, <2>3 DEF Flattens
  <2> QED BY <2>4
<1> HIDE DEF S
<1>3. Nat \subseteq S
  BY <1>1, <1>2, Induction
<1> QED BY <1>3 DEF S

(* Two such functions agree as far as the shorter one goes.                *)
LEMMA FlattenUnique ==
  ASSUME NEW parts, NEW n \in Nat,
         NEW f, Flattens(f, parts, n), NEW g, Flattens(g, parts, n + 1)
  PROVE  \A i \in 1..n : f[i] = g[i]
<1> DEFINE S == {i \in Nat : i \in 1..n => f[i] = g[i]}
<1>1. 0 \in S
  OBVIOUS
<1>2. ASSUME NEW i \in Nat, i \in S
      PROVE  i + 1 \in S
  <2>1. SUFFICES ASSUME i + 1 \in 1..n PROVE f[i + 1] = g[i + 1]
    OBVIOUS
  <2>2. i + 1 \in 1..n + 1 /\ (i + 1) - 1 = i
    BY <2>1
  <2>3. /\ f[i + 1] = IF i + 1 = 1 THEN parts[i + 1] ELSE f[(i + 1) - 1] \o parts[i + 1]
        /\ g[i + 1] = IF i + 1 = 1 THEN parts[i + 1] ELSE g[(i + 1) - 1] \o parts[i + 1]
    BY <2>1, <2>2 DEF Flattens
  <2>4. CASE i + 1 = 1
    BY <2>3, <2>4
  <2>5. CASE i + 1 # 1
    <3>1. f[i] = g[i]
      BY <1>2, <2>1, <2>5
    <3> QED BY <2>2, <2>3, <2>5, <3>1
  <2> QED BY <2>4, <2>5
<1> HIDE DEF S
<1>3. Nat \subseteq S
  BY <1>1, <1>2, Induction
<1> QED BY <1>3 DEF S

LEMMA FlattenedMore ==
  ASSUME NEW parts, NEW n \in Nat, n # 0,
         NEW f, Flattens(f, parts, n), NEW g, Flattens(g, parts, n + 1)
  PROVE  g[n + 1] = f[n] \o parts[n + 1]
<1>1. n \in 1..n /\ n + 1 \in 1..n + 1 /\ n + 1 # 1 /\ (n + 1) - 1 = n
  OBVIOUS
<1>2. f[n] = g[n]
  BY <1>1, FlattenUnique
<1>3. g[n + 1] = IF n + 1 = 1 THEN parts[n + 1] ELSE g[(n + 1) - 1] \o parts[n + 1]
  BY <1>1 DEF Flattens
<1> QED BY <1>1, <1>2, <1>3

LEMMA FlattenIs ==
  ASSUME NEW parts, IsSeq(parts), Len(parts) # 0
  PROVE  \E f : Flattens(f, parts, Len(parts)) /\ FlattenSeq(parts) = f[Len(parts)]
<1> DEFINE f == CHOOSE f : f = [i \in 1..Len(parts) |->
                                  IF i = 1 THEN parts[i] ELSE f[i - 1] \o parts[i]]
<1>1. Len(parts) \in Nat
  BY SeqFacts
<1>2. \E g : g = [i \in 1..Len(parts) |-> IF i = 1 THEN parts[i] ELSE g[i - 1] \o parts[i]]
  BY <1>1, FlattenExists DEF Flattens
<1>3. Flattens(f, parts, Len(parts))
  BY <1>2 DEF Flattens
<1>4. FlattenSeq(parts) = f[Len(parts)]
  BY DEF FlattenSeq
<1> QED BY <1>3, <1>4

LEMMA FlattenNothing == FlattenSeq(<<>>) = <<>>
BY NoElements DEF FlattenSeq

(* One more part.                                                          *)
LEMMA FlattenMore ==
  ASSUME NEW n \in Nat, NEW s, NEW t,
         s = [i \in 1..n |-> t[i]], t = [i \in 1..n + 1 |-> t[i]], IsSeq(t[n + 1])
  PROVE  FlattenSeq(t) = FlattenSeq(s) \o t[n + 1]
<1>1. IsSeq(s) /\ Len(s) = n
  BY Listed
<1>2. n + 1 \in Nat /\ n + 1 # 0 /\ n <= n + 1 /\ IsSeq(t) /\ Len(t) = n + 1
  BY Listed
<1>3. PICK g : Flattens(g, t, n + 1) /\ FlattenSeq(t) = g[n + 1]
  <2>1. \E g : Flattens(g, t, Len(t)) /\ FlattenSeq(t) = g[Len(t)]
    BY <1>2, FlattenIs
  <2> QED BY <2>1, <1>2
<1>4. CASE n = 0
  <2>1. FlattenSeq(s) = <<>>
    <3>1. s = <<>>
      BY <1>1, <1>4, NoElements, SameElements
    <3> QED BY <3>1, FlattenNothing
  <2>2. g[1] = t[1]
    BY <1>3, <1>4 DEF Flattens
  <2> QED BY <1>3, <1>4, <2>1, <2>2, JoinedNothing
<1>5. CASE n # 0
  <2>1. PICK f : Flattens(f, s, n) /\ FlattenSeq(s) = f[n]
    BY <1>1, <1>5, FlattenIs
  <2>2. Flattens(f, t, n)
    BY <2>1 DEF Flattens
  <2>3. g[n + 1] = f[n] \o t[n + 1]
    BY <1>3, <1>5, <2>2, FlattenedMore
  <2> QED BY <1>3, <2>1, <2>3
<1> QED BY <1>4, <1>5
Parts(parts, n) ==
  /\ parts = [i \in 1..n |-> parts[i]]
  /\ \A i \in 1..n : IsSeq(parts[i])

(* The parts joined one by one.                                            *)
Joins(f, parts, n) ==
  /\ f[0] = <<>> /\ f[n] = FlattenSeq(parts)
  /\ \A k \in 0..n : IsSeq(f[k])
  /\ \A k \in 1..n : f[k] = f[k - 1] \o parts[k]

LEMMA FlattenJoins ==
  ASSUME NEW n \in Nat, NEW parts, Parts(parts, n)
  PROVE  \E f : Joins(f, parts, n)
<1> USE DEF Parts
<1> DEFINE First(k) == [i \in 1..k |-> parts[i]]
           f == [k \in 0..n |-> FlattenSeq(First(k))]
           S == {k \in Nat : k <= n => IsSeq(f[k])}
<1>1. f[0] = <<>>
  <2>1. First(0) = [i \in 1..0 |-> First(0)[i]]
    OBVIOUS
  <2>2. f[0] = FlattenSeq(First(0))
    OBVIOUS
  <2> HIDE DEF First, f
  <2>3. First(0) = <<>>
    BY <2>1, Listed, NoElements, SameElements
  <2> QED BY <2>2, <2>3, FlattenNothing
<1>2. f[n] = FlattenSeq(parts)
  OBVIOUS
<1>3. ASSUME NEW k \in 1..n
      PROVE  f[k] = f[k - 1] \o parts[k]
  <2>1. /\ k - 1 \in Nat /\ k - 1 \in 0..n /\ k \in 0..n /\ (k - 1) + 1 = k
    OBVIOUS
  <2>2. /\ First(k - 1) = [i \in 1..k - 1 |-> First(k)[i]]
        /\ First(k) = [i \in 1..k |-> First(k)[i]]
        /\ First(k)[k] = parts[k]
    OBVIOUS
  <2>3. f[k] = FlattenSeq(First(k)) /\ f[k - 1] = FlattenSeq(First(k - 1))
    BY <2>1
  <2> HIDE DEF First, f
  <2>4. IsSeq(First(k)[k])
    BY <2>2
  <2>5. FlattenSeq(First(k)) = FlattenSeq(First(k - 1)) \o First(k)[k]
    BY <2>1, <2>2, <2>4, FlattenMore
  <2> QED BY <2>2, <2>3, <2>5
<1> HIDE DEF f
<1>4. 0 \in S
  BY <1>1, NoElements
<1>5. ASSUME NEW k \in Nat, k \in S
      PROVE  k + 1 \in S
  <2>1. SUFFICES ASSUME k + 1 <= n PROVE IsSeq(f[k + 1])
    OBVIOUS
  <2>2. k + 1 \in 1..n /\ (k + 1) - 1 = k /\ IsSeq(f[k]) /\ IsSeq(parts[k + 1])
    BY <1>5, <2>1
  <2>3. f[k + 1] = f[k] \o parts[k + 1]
    BY <1>3, <2>2
  <2> QED BY <2>2, <2>3, JoinFacts
<1> HIDE DEF S
<1>6. Nat \subseteq S
  BY <1>4, <1>5, Induction
<1>7. \A k \in 0..n : IsSeq(f[k])
  BY <1>6 DEF S
<1> QED BY <1>1, <1>2, <1>3, <1>7 DEF Joins

-----------------------------------------------------------------------------
(* The parsers at work.                                                    *)

(* One token takes a parser's variables from p to q.                       *)
Moves(file, p, token, q) ==
  \/ file = "server" /\ ~NoServerValue(p, token) /\ q = ScanServerToken(p, token)
  \/ file = "routers" /\ ~NoValue(p, token) /\ q = ScanToken(p, token)

(* The tokens s take them from p to q.                                     *)
Visits(file, s, g) == \A k \in 1..Len(s) : Moves(file, g[k - 1], s[k], g[k])

Reads(file, p, s, q) == \E g : g[0] = p /\ g[Len(s)] = q /\ Visits(file, s, g)

LEMMA ReadsNothing ==
  ASSUME NEW file, NEW p
  PROVE  Reads(file, p, <<>>, p) /\ \A q : Reads(file, p, <<>>, q) => q = p
<1> DEFINE g == [k \in {0} |-> p]
<1>1. g[0] = p /\ Len(<<>>) = 0 /\ \A k \in 1..0 : FALSE
  OBVIOUS
<1> HIDE DEF g
<1>2. Visits(file, <<>>, g)
  BY <1>1 DEF Visits
<1> QED BY <1>1, <1>2 DEF Reads

LEMMA ReadsOne ==
  ASSUME NEW file, NEW p, NEW x, NEW q, Reads(file, p, <<x>>, q)
  PROVE  Moves(file, p, x, q)
<1>1. Len(<<x>>) = 1 /\ <<x>>[1] = x /\ 1 \in 1..1 /\ 1 - 1 = 0
  BY OneElement
<1>2. PICK g : g[0] = p /\ g[1] = q /\ \A k \in 1..1 : Moves(file, g[k - 1], <<x>>[k], g[k])
  BY <1>1 DEF Reads, Visits
<1>3. Moves(file, g[1 - 1], <<x>>[1], g[1])
  BY <1>1, <1>2
<1> QED BY <1>1, <1>2, <1>3

(* What is read in one go is read one part behind the other.               *)
LEMMA ReadsBoth ==
  ASSUME NEW file, NEW p, NEW s, NEW t, IsSeq(s), IsSeq(t), NEW q, Reads(file, p, s \o t, q)
  PROVE  \E r : Reads(file, p, s, r) /\ Reads(file, r, t, q)
<1>1. PICK g : g[0] = p /\ g[Len(s \o t)] = q /\ Visits(file, s \o t, g)
  BY DEF Reads
<1>2. /\ Len(s) \in Nat /\ Len(t) \in Nat /\ Len(s \o t) = Len(s) + Len(t)
      /\ \A i \in 1..Len(s) : (s \o t)[i] = s[i]
      /\ \A i \in 1..Len(t) : (s \o t)[Len(s) + i] = t[i]
  BY SeqFacts, JoinFacts
<1> DEFINE h == [k \in 0..Len(t) |-> g[Len(s) + k]]
           r == g[Len(s)]
<1>3. Reads(file, p, s, r)
  <2>1. ASSUME NEW k \in 1..Len(s)
        PROVE  Moves(file, g[k - 1], s[k], g[k])
    <3>1. k \in 1..Len(s) + Len(t)
      BY <1>2
    <3> QED BY <1>1, <1>2, <3>1 DEF Visits
  <2> QED BY <1>1, <2>1 DEF Reads, Visits
<1>4. Reads(file, r, t, q)
  <2>1. h[0] = r /\ h[Len(t)] = q
    BY <1>1, <1>2
  <2>2. ASSUME NEW k \in 1..Len(t)
        PROVE  Moves(file, h[k - 1], t[k], h[k])
    <3>1. /\ Len(s) + k \in 1..Len(s) + Len(t) /\ (Len(s) + k) - 1 = Len(s) + (k - 1)
          /\ k \in 0..Len(t) /\ k - 1 \in 0..Len(t)
      BY <1>2
    <3>2. h[k] = g[Len(s) + k] /\ h[k - 1] = g[(Len(s) + k) - 1]
      BY <3>1
    <3> HIDE DEF h
    <3>3. Moves(file, g[(Len(s) + k) - 1], (s \o t)[Len(s) + k], g[Len(s) + k])
      BY <1>1, <1>2, <3>1 DEF Visits
    <3> QED BY <1>2, <3>2, <3>3
  <2> HIDE DEF h
  <2> QED BY <2>1, <2>2 DEF Reads, Visits
<1> QED BY <1>3, <1>4

LEMMA ReadsMore ==
  ASSUME NEW file, NEW p, NEW s, IsSeq(s), NEW q, Reads(file, p, s, q),
         NEW x, NEW r, Moves(file, q, x, r)
  PROVE  Reads(file, p, s \o <<x>>, r)
<1>1. PICK g : g[0] = p /\ g[Len(s)] = q /\ Visits(file, s, g)
  BY DEF Reads
<1> DEFINE n == Len(s)
           t == s \o <<x>>
           h == [k \in 0..n + 1 |-> IF k <= n THEN g[k] ELSE r]
<1>2. /\ n \in Nat /\ Len(t) = n + 1 /\ t[n + 1] = x
      /\ \A i \in 1..n : t[i] = s[i]
  <2>1. 1 \in 1..Len(<<x>>)
    BY OneElement
  <2> QED BY <2>1, SeqFacts, JoinFacts, OneElement
<1> HIDE DEF t
<1>3. h[0] = p /\ h[n + 1] = r
  BY <1>1, <1>2
<1>4. ASSUME NEW k \in 1..n + 1
      PROVE  Moves(file, h[k - 1], t[k], h[k])
  <2>1. CASE k \in 1..n
    <3>1. k \in 0..n + 1 /\ k - 1 \in 0..n + 1 /\ k <= n /\ k - 1 <= n
      BY <1>2, <2>1
    <3>2. h[k] = g[k] /\ h[k - 1] = g[k - 1]
      BY <3>1
    <3> HIDE DEF h
    <3> QED BY <1>1, <1>2, <2>1, <3>2 DEF Visits
  <2>2. CASE k = n + 1
    <3>1. n \in 0..n + 1 /\ n <= n /\ k - 1 = n
      BY <1>2, <2>2
    <3>2. h[n] = g[n]
      BY <3>1
    <3> HIDE DEF h
    <3> QED BY <1>1, <1>2, <1>3, <2>2, <3>1, <3>2
  <2> QED BY <1>2, <2>1, <2>2
<1> HIDE DEF h
<1> QED BY <1>2, <1>3, <1>4 DEF Reads, Visits, t
LEMMA ReadsThree ==
  ASSUME NEW file, NEW p, NEW x, NEW y, NEW z, NEW q, Reads(file, p, <<x, y, z>>, q)
  PROVE  \E a, b : Moves(file, p, x, a) /\ Moves(file, a, y, b) /\ Moves(file, b, z, q)
<1> DEFINE s == <<x, y, z>>
<1>1. Len(s) = 3 /\ s[1] = x /\ s[2] = y /\ s[3] = z
  OBVIOUS
<1> HIDE DEF s
<1>2. PICK g : g[0] = p /\ g[3] = q /\ \A k \in 1..3 : Moves(file, g[k - 1], s[k], g[k])
  BY <1>1 DEF Reads, Visits, s
<1>3. 1 \in 1..3 /\ 2 \in 1..3 /\ 3 \in 1..3 /\ 1 - 1 = 0 /\ 2 - 1 = 1 /\ 3 - 1 = 2
  OBVIOUS
<1>4. /\ Moves(file, g[1 - 1], s[1], g[1]) /\ Moves(file, g[2 - 1], s[2], g[2])
      /\ Moves(file, g[3 - 1], s[3], g[3])
  BY <1>2, <1>3
<1> QED BY <1>1, <1>2, <1>3, <1>4

LEMMA PairIsSeq ==
  ASSUME NEW key, NEW value, IsSeq(value)
  PROVE  IsSeq(Pair(key, value))
<1> DEFINE s == <<Token("KEY"), Scalar(key), Token("VALUE")>>
<1>1. s \in Seq({Token("KEY"), Scalar(key), Token("VALUE")})
  OBVIOUS
<1> QED BY <1>1, JoinFacts DEF Pair, IsSeq

LEMMA ReadsPair ==
  ASSUME NEW file, NEW p, NEW key, NEW value, IsSeq(value), NEW q,
         Reads(file, p, Pair(key, value), q)
  PROVE  \E a, b, c : /\ Moves(file, p, Token("KEY"), a) /\ Moves(file, a, Scalar(key), b)
                      /\ Moves(file, b, Token("VALUE"), c) /\ Reads(file, c, value, q)
<1> DEFINE s == <<Token("KEY"), Scalar(key), Token("VALUE")>>
<1>1. IsSeq(s)
  <2>1. s \in Seq({Token("KEY"), Scalar(key), Token("VALUE")})
    OBVIOUS
  <2> QED BY <2>1 DEF IsSeq
<1>2. PICK c : Reads(file, p, s, c) /\ Reads(file, c, value, q)
  BY <1>1, ReadsBoth DEF Pair
<1> QED BY <1>2, ReadsThree

LEMMA ReadsBlock ==
  ASSUME NEW file, NEW p, NEW type, NEW tokens, IsSeq(tokens), NEW q,
         Reads(file, p, Block(type, tokens), q)
  PROVE  \E a, b : /\ Moves(file, p, Token(type), a) /\ Reads(file, a, tokens, b)
                   /\ Moves(file, b, Token("BLOCK_END"), q)
<1>1. IsSeq(<<Token(type)>>) /\ IsSeq(<<Token("BLOCK_END")>>)
  BY OneElement
<1>2. IsSeq(<<Token(type)>> \o tokens)
  BY <1>1, JoinFacts
<1>3. PICK b : /\ Reads(file, p, <<Token(type)>> \o tokens, b)
               /\ Reads(file, b, <<Token("BLOCK_END")>>, q)
  BY <1>1, <1>2, ReadsBoth DEF Block
<1>4. PICK a : Reads(file, p, <<Token(type)>>, a) /\ Reads(file, a, tokens, b)
  BY <1>1, <1>3, ReadsBoth
<1> QED BY <1>3, <1>4, ReadsOne

(* What is read part by part.                                              *)
InParts(file, p, parts, n, q) ==
  \E g : g[0] = p /\ g[n] = q /\ \A k \in 1..n : Reads(file, g[k - 1], parts[k], g[k])

LEMMA InNoParts ==
  ASSUME NEW file, NEW p, NEW parts
  PROVE  InParts(file, p, parts, 0, p)
<1> DEFINE g == [i \in {0} |-> p]
<1>1. g[0] = p /\ \A i \in 1..0 : FALSE
  OBVIOUS
<1> HIDE DEF g
<1> QED BY <1>1 DEF InParts

LEMMA InMoreParts ==
  ASSUME NEW file, NEW p, NEW parts, NEW k \in Nat, NEW q, InParts(file, p, parts, k, q),
         NEW r, Reads(file, q, parts[k + 1], r)
  PROVE  InParts(file, p, parts, k + 1, r)
<1>1. PICK g : /\ g[0] = p /\ g[k] = q
               /\ \A i \in 1..k : Reads(file, g[i - 1], parts[i], g[i])
  BY DEF InParts
<1> DEFINE h == [i \in 0..k + 1 |-> IF i <= k THEN g[i] ELSE r]
<1>2. h[0] = p /\ h[k] = q /\ h[k + 1] = r /\ (k + 1) - 1 = k
  BY <1>1
<1>3. ASSUME NEW i \in 1..k + 1
      PROVE  Reads(file, h[i - 1], parts[i], h[i])
  <2>1. CASE i \in 1..k
    <3>1. h[i] = g[i] /\ h[i - 1] = g[i - 1]
      BY <2>1
    <3> HIDE DEF h
    <3> QED BY <1>1, <2>1, <3>1
  <2>2. CASE i = k + 1
    <3> HIDE DEF h
    <3> QED BY <1>2, <2>2
  <2> QED BY <2>1, <2>2
<1> HIDE DEF h
<1> QED BY <1>2, <1>3 DEF InParts

LEMMA ReadsParts ==
  ASSUME NEW file, NEW p, NEW n \in Nat, NEW parts, Parts(parts, n), NEW q,
         Reads(file, p, FlattenSeq(parts), q)
  PROVE  InParts(file, p, parts, n, q)
<1>1. PICK f : Joins(f, parts, n)
  BY FlattenJoins
<1> DEFINE S == {k \in Nat : k <= n =>
                   \A r : Reads(file, p, f[k], r) => InParts(file, p, parts, k, r)}
<1>2. 0 \in S
  <2>1. ASSUME NEW r, Reads(file, p, f[0], r)
        PROVE  InParts(file, p, parts, 0, r)
    <3>1. Reads(file, p, <<>>, r)
      BY <1>1, <2>1 DEF Joins
    <3>2. r = p
      BY <3>1, ReadsNothing
    <3> QED BY <3>2, InNoParts
  <2> QED BY <2>1
<1>3. ASSUME NEW k \in Nat, k \in S
      PROVE  k + 1 \in S
  <2>1. ASSUME k + 1 <= n, NEW r, Reads(file, p, f[k + 1], r)
        PROVE  InParts(file, p, parts, k + 1, r)
    <3>1. k + 1 \in 1..n /\ k \in 0..n /\ k <= n /\ (k + 1) - 1 = k
      BY <2>1
    <3>2. f[k + 1] = f[k] \o parts[k + 1]
      BY <1>1, <3>1 DEF Joins
    <3>3. IsSeq(f[k]) /\ IsSeq(parts[k + 1])
      BY <1>1, <3>1 DEF Joins, Parts
    <3>4. PICK a : Reads(file, p, f[k], a) /\ Reads(file, a, parts[k + 1], r)
      BY <2>1, <3>2, <3>3, ReadsBoth
    <3>5. InParts(file, p, parts, k, a)
      BY <1>3, <3>1, <3>4
    <3> HIDE DEF S
    <3> QED BY <3>4, <3>5, InMoreParts
  <2> QED BY <2>1
<1> HIDE DEF S
<1>4. n \in S
  BY <1>2, <1>3, Induction
<1>5. Reads(file, p, f[n], q)
  BY <1>1 DEF Joins
<1> QED BY <1>4, <1>5 DEF S

-----------------------------------------------------------------------------
(* No token but the last of a file is STREAM_END.                          *)

Inner(s) == IsSeq(s) /\ \A i \in 1..Len(s) : s[i].type # "STREAM_END"

LEMMA InnerNothing == Inner(<<>>)
BY NoElements DEF Inner

LEMMA InnerOne ==
  ASSUME NEW x, x.type # "STREAM_END"
  PROVE  Inner(<<x>>)
<1>1. \A i \in 1..1 : i = 1
  OBVIOUS
<1> QED BY <1>1, OneElement DEF Inner

LEMMA InnerBoth ==
  ASSUME NEW s, NEW t, Inner(s), Inner(t)
  PROVE  Inner(s \o t)
<1>1. /\ Len(s) \in Nat /\ Len(t) \in Nat /\ IsSeq(s \o t) /\ Len(s \o t) = Len(s) + Len(t)
      /\ \A i \in 1..Len(s) : (s \o t)[i] = s[i]
      /\ \A i \in 1..Len(t) : (s \o t)[Len(s) + i] = t[i]
  BY SeqFacts, JoinFacts DEF Inner
<1>2. ASSUME NEW i \in 1..Len(s \o t)
      PROVE  (s \o t)[i].type # "STREAM_END"
  <2>1. CASE i \in 1..Len(s)
    BY <1>1, <2>1 DEF Inner
  <2>2. CASE i \notin 1..Len(s)
    <3>1. i - Len(s) \in 1..Len(t) /\ Len(s) + (i - Len(s)) = i
      BY <1>1, <2>2
    <3> QED BY <1>1, <3>1 DEF Inner
  <2> QED BY <2>1, <2>2
<1> QED BY <1>1, <1>2 DEF Inner

LEMMA InnerFlatten ==
  ASSUME NEW n \in Nat, NEW parts, Parts(parts, n), \A i \in 1..n : Inner(parts[i])
  PROVE  Inner(FlattenSeq(parts))
<1>1. PICK f : Joins(f, parts, n)
  BY FlattenJoins
<1> DEFINE S == {k \in Nat : k <= n => Inner(f[k])}
<1>2. 0 \in S
  BY <1>1, InnerNothing DEF Joins
<1>3. ASSUME NEW k \in Nat, k \in S
      PROVE  k + 1 \in S
  <2>1. SUFFICES ASSUME k + 1 <= n PROVE Inner(f[k + 1])
    OBVIOUS
  <2>2. k + 1 \in 1..n /\ (k + 1) - 1 = k /\ Inner(f[k]) /\ Inner(parts[k + 1])
    BY <1>3, <2>1
  <2>3. f[k + 1] = f[k] \o parts[k + 1]
    BY <1>1, <2>2 DEF Joins
  <2> QED BY <2>2, <2>3, InnerBoth
<1> HIDE DEF S
<1>4. n \in S
  BY <1>2, <1>3, Induction
<1> QED BY <1>1, <1>4 DEF Joins, S

LEMMA InnerPair ==
  ASSUME NEW key, NEW value, Inner(value)
  PROVE  Inner(Pair(key, value))
<1> DEFINE s == <<Token("KEY"), Scalar(key), Token("VALUE")>>
<1>1. s \in Seq({Token("KEY"), Scalar(key), Token("VALUE")}) /\ Len(s) = 3
  OBVIOUS
<1>2. s[1].type # "STREAM_END" /\ s[2].type # "STREAM_END" /\ s[3].type # "STREAM_END"
  BY DEF Token, Scalar
<1> HIDE DEF s
<1>3. Inner(s)
  <2>1. \A i \in 1..3 : i = 1 \/ i = 2 \/ i = 3
    OBVIOUS
  <2> QED BY <1>1, <1>2, <2>1 DEF Inner, IsSeq
<1> QED BY <1>3, InnerBoth DEF Pair, s

LEMMA InnerBlock ==
  ASSUME NEW type, type # "STREAM_END", NEW tokens, Inner(tokens)
  PROVE  Inner(Block(type, tokens))
<1>1. Inner(<<Token(type)>>) /\ Inner(<<Token("BLOCK_END")>>)
  BY InnerOne DEF Token
<1> QED BY <1>1, InnerBoth DEF Block

-----------------------------------------------------------------------------
(* The first fields of a mapping and what they say.                        *)

First(s, n) == SubSeq(s, 1, n)

LEMMA FirstFacts ==
  ASSUME NEW s, IsSeq(s), NEW n \in 0..Len(s)
  PROVE  /\ IsSeq(First(s, n)) /\ Len(First(s, n)) = n /\ DOMAIN First(s, n) = 1..n
         /\ \A i \in 1..n : First(s, n)[i] = s[i]
<1>1. PICK S : s \in Seq(S)
  BY DEF IsSeq
<1>2. n \in Nat /\ Len(s) \in Nat /\ \A i \in 1..n : s[i] \in S
  BY <1>1
<1>3. First(s, n) \in Seq(S) /\ Len(First(s, n)) = n /\ \A i \in 1..n : First(s, n)[i] = s[i]
  <2>1. /\ SubSeq(s, 1, n) \in Seq(S)
        /\ Len(SubSeq(s, 1, n)) = IF 1 <= n THEN n - 1 + 1 ELSE 0
        /\ \A i \in 1..n - 1 + 1 : SubSeq(s, 1, n)[i] = s[1 + i - 1]
    BY <1>2, SubSeqProperties
  <2>2. Len(SubSeq(s, 1, n)) = n
    BY <1>2, <2>1
  <2>3. \A i \in 1..n : i \in 1..n - 1 + 1 /\ 1 + i - 1 = i
    BY <1>2
  <2> QED BY <2>1, <2>2, <2>3 DEF First
<1> QED BY <1>2, <1>3, SeqFacts DEF IsSeq

LEMMA FirstAll ==
  ASSUME NEW s, IsSeq(s)
  PROVE  First(s, Len(s)) = s
<1>1. Len(s) \in 0..Len(s)
  BY SeqFacts
<1> QED BY <1>1, FirstFacts, SameElements

LEMMA MappingFacts ==
  ASSUME NEW fields, IsMapping(fields)
  PROVE  /\ IsSeq(fields) /\ Len(fields) \in Nat /\ DOMAIN fields = 1..Len(fields)
         /\ \A i, j \in 1..Len(fields) : fields[i].key = fields[j].key => i = j
BY SeqFacts DEF IsMapping, IsSeq

LEMMA ValueFound ==
  ASSUME NEW fields, IsMapping(fields), NEW n \in 0..Len(fields), NEW i \in 1..n, NEW default
  PROVE  ValueOf(First(fields, n), fields[i].key, default) = fields[i].value
<1> DEFINE t == First(fields, n)
<1>1. /\ IsSeq(fields) /\ Len(fields) \in Nat
      /\ \A k, j \in 1..Len(fields) : fields[k].key = fields[j].key => k = j
  BY MappingFacts
<1>2. n \in Nat /\ DOMAIN t = 1..n /\ \A j \in 1..n : t[j] = fields[j] /\ j \in 1..Len(fields)
  BY <1>1, FirstFacts
<1> HIDE DEF t
<1>3. i \in DOMAIN t /\ t[i].key = fields[i].key
  BY <1>2
<1>4. \A j \in DOMAIN t : t[j].key = fields[i].key => j = i
  BY <1>1, <1>2
<1>5. (CHOOSE j \in DOMAIN t : t[j].key = fields[i].key) = i
  BY <1>3, <1>4
<1>6. fields[i].key \in Keys(t)
  BY <1>3 DEF Keys
<1> QED BY <1>2, <1>5, <1>6 DEF ValueOf, t

LEMMA ValueNotFound ==
  ASSUME NEW fields, IsMapping(fields), NEW n \in 0..Len(fields), NEW key, NEW default,
         \A i \in 1..n : fields[i].key # key
  PROVE  ValueOf(First(fields, n), key, default) = default
<1>1. IsSeq(fields)
  BY MappingFacts
<1>2. key \notin Keys(First(fields, n))
  BY <1>1, FirstFacts DEF Keys
<1> QED BY <1>2 DEF ValueOf

LEMMA ValueOfMore ==
  ASSUME NEW fields, IsMapping(fields), NEW n \in Nat, n + 1 <= Len(fields)
  PROVE  \A key, default :
           ValueOf(First(fields, n + 1), key, default) =
             IF fields[n + 1].key = key THEN fields[n + 1].value
             ELSE ValueOf(First(fields, n), key, default)
<1> SUFFICES ASSUME NEW key, NEW default
             PROVE  ValueOf(First(fields, n + 1), key, default) =
                      IF fields[n + 1].key = key THEN fields[n + 1].value
                      ELSE ValueOf(First(fields, n), key, default)
  OBVIOUS
<1>1. Len(fields) \in Nat
  BY MappingFacts
<1>2. /\ n \in 0..Len(fields) /\ n + 1 \in 0..Len(fields) /\ n + 1 \in 1..n + 1
      /\ \A i \in 1..n : i \in 1..n + 1
      /\ \A i \in 1..n + 1 : i = n + 1 \/ i \in 1..n
  BY <1>1
<1>3. CASE fields[n + 1].key = key
  BY <1>2, <1>3, ValueFound
<1>4. CASE fields[n + 1].key # key
  <2>1. CASE \E i \in 1..n : fields[i].key = key
    <3>1. PICK i \in 1..n : fields[i].key = key
      BY <2>1
    <3>2. ValueOf(First(fields, n), fields[i].key, default) = fields[i].value
      BY <1>2, ValueFound
    <3>3. ValueOf(First(fields, n + 1), fields[i].key, default) = fields[i].value
      BY <1>2, ValueFound
    <3> QED BY <1>4, <3>1, <3>2, <3>3
  <2>2. CASE \A i \in 1..n : fields[i].key # key
    <3>1. \A i \in 1..n + 1 : fields[i].key # key
      BY <1>2, <1>4, <2>2
    <3>2. ValueOf(First(fields, n), key, default) = default
      BY <1>2, <2>2, ValueNotFound
    <3>3. ValueOf(First(fields, n + 1), key, default) = default
      BY <1>2, <3>1, ValueNotFound
    <3> QED BY <1>4, <3>2, <3>3
  <2> QED BY <2>1, <2>2
<1> QED BY <1>3, <1>4

-----------------------------------------------------------------------------
(* The server's file.                                                      *)

ServerState(s, k, awaited) == [server |-> s, key |-> k, pending |-> awaited]

LEMMA ServerSkips ==
  ASSUME NEW s, NEW k, NEW type, type \notin {"KEY", "VALUE"}, NEW q,
         Moves("server", ServerState(s, k, "none"), Token(type), q)
  PROVE  q = ServerState(s, k, "none")
BY DEF Moves, ServerState, Token, ScanServerToken, Awaits

LEMMA ServerKey ==
  ASSUME NEW s, NEW k, NEW key, NEW a, NEW b, NEW c,
         Moves("server", ServerState(s, k, "none"), Token("KEY"), a),
         Moves("server", a, Scalar(key), b), Moves("server", b, Token("VALUE"), c)
  PROVE  c = ServerState(s, key, "value")
<1>1. a = ServerState(s, k, "key")
  BY DEF Moves, ServerState, Token, ScanServerToken, Awaits
<1>2. b = ServerState(s, key, "none")
  BY <1>1 DEF Moves, ServerState, Scalar, ScanServerToken, OnKey
<1> QED BY <1>2 DEF Moves, ServerState, Token, ScanServerToken, Awaits

LEMMA ServerValue ==
  ASSUME NEW s, NEW k, NEW v, NEW q, Moves("server", ServerState(s, k, "value"), Scalar(v), q)
  PROVE  q = ServerState(IF k \in DOMAIN NoServer THEN [s EXCEPT ![k] = v] ELSE s, Null, "none")
BY DEF Moves, ServerState, Scalar, ScanServerToken

LEMMA ServerNoValue ==
  ASSUME NEW s, NEW k, NEW type, type # "SCALAR", NEW q,
         Moves("server", ServerState(s, k, "value"), Token(type), q)
  PROVE  k \notin DOMAIN NoServer /\ q = ServerState(s, Null, "none")
BY DEF Moves, ServerState, Token, ScanServerToken, NoServerValue

(* Behind n fields the parser has what they say, or it waits for the value *)
(* of a field without one.                                                 *)
ServerAfter(fields, n, q) ==
  \/ \E k : q = ServerState(ServerWritten(First(fields, n)), k, "none")
  \/ \E s : \E k \in DOMAIN NoServer : q = ServerState(s, k, "value")

LEMMA ServerField ==
  ASSUME NEW fields, IsServer(fields), NEW n \in Nat, n + 1 <= Len(fields),
         NEW p, ServerAfter(fields, n, p), NEW q,
         Reads("server", p, Pair(fields[n + 1].key, ValueTokens(fields[n + 1])), q)
  PROVE  ServerAfter(fields, n + 1, q)
<1> DEFINE f == fields[n + 1]
           w == ServerWritten(First(fields, n))
<1>1. IsMapping(fields) /\ Len(fields) \in Nat /\ n + 1 \in DOMAIN fields
  BY MappingFacts DEF IsServer
<1>2. IsSeq(ValueTokens(f))
  BY OneElement, NoElements DEF ValueTokens
<1>3. PICK a, b, c : /\ Moves("server", p, Token("KEY"), a) /\ Moves("server", a, Scalar(f.key), b)
                     /\ Moves("server", b, Token("VALUE"), c)
                     /\ Reads("server", c, ValueTokens(f), q)
  BY <1>2, ReadsPair
<1>4. PICK k : p = ServerState(w, k, "none")
  <2>1. ASSUME NEW s, NEW k \in DOMAIN NoServer, p = ServerState(s, k, "value")
        PROVE  FALSE
    BY <1>3, <2>1, ServerNoValue
  <2> QED BY <2>1 DEF ServerAfter
<1>5. c = ServerState(w, f.key, "value")
  BY <1>3, <1>4, ServerKey
<1>6. CASE "value" \in DOMAIN f
  <2>1. Moves("server", c, Scalar(f.value), q)
    BY <1>3, <1>6, ReadsOne DEF ValueTokens
  <2>2. q = ServerState(IF f.key \in DOMAIN NoServer THEN [w EXCEPT ![f.key] = f.value] ELSE w,
                        Null, "none")
    BY <1>5, <2>1, ServerValue
  <2>3. \A key, default :
          ValueOf(First(fields, n + 1), key, default) =
            IF f.key = key THEN f.value ELSE ValueOf(First(fields, n), key, default)
    BY <1>1, ValueOfMore
  <2>4. ServerWritten(First(fields, n + 1)) =
          IF f.key \in DOMAIN NoServer THEN [w EXCEPT ![f.key] = f.value] ELSE w
    BY <2>3 DEF ServerWritten
  <2> QED BY <2>2, <2>4 DEF ServerAfter
<1>7. CASE "value" \notin DOMAIN f
  <2>1. q = c
    BY <1>3, <1>7, ReadsNothing DEF ValueTokens
  <2>2. f.key \in DOMAIN NoServer
    BY <1>1, <1>7 DEF IsServer, Known
  <2> QED BY <1>5, <2>1, <2>2 DEF ServerAfter
<1> QED BY <1>6, <1>7

LEMMA ServerFields ==
  ASSUME NEW fields, IsServer(fields), NEW p, ServerAfter(fields, 0, p), NEW q,
         Reads("server", p, Concat(Len(fields), LAMBDA i :
                                     Pair(fields[i].key, ValueTokens(fields[i]))), q)
  PROVE  ServerAfter(fields, Len(fields), q)
<1> DEFINE N == Len(fields)
           parts == [i \in 1..N |-> Pair(fields[i].key, ValueTokens(fields[i]))]
<1>1. N \in Nat
  BY MappingFacts DEF IsServer
<1>2. \A i \in 1..N : IsSeq(ValueTokens(fields[i]))
  BY OneElement, NoElements DEF ValueTokens
<1>3. \A i \in 1..N : parts[i] = Pair(fields[i].key, ValueTokens(fields[i]))
  OBVIOUS
<1>4. Reads("server", p, FlattenSeq(parts), q)
  BY DEF Concat
<1>5. parts = [i \in 1..N |-> parts[i]]
  OBVIOUS
<1> HIDE DEF parts, N
<1>6. Parts(parts, N)
  BY <1>2, <1>3, <1>5, PairIsSeq DEF Parts
<1>7. PICK g : /\ g[0] = p /\ g[N] = q
               /\ \A k \in 1..N : Reads("server", g[k - 1], parts[k], g[k])
  <2>1. InParts("server", p, parts, N, q)
    BY <1>1, <1>4, <1>6, ReadsParts
  <2> QED BY <2>1 DEF InParts
<1> DEFINE S == {k \in Nat : k <= N => ServerAfter(fields, k, g[k])}
<1>8. 0 \in S
  BY <1>7
<1>9. ASSUME NEW k \in Nat, k \in S
      PROVE  k + 1 \in S
  <2>1. ASSUME k + 1 <= N
        PROVE  ServerAfter(fields, k + 1, g[k + 1])
    <3>1. k + 1 \in 1..N /\ k <= N /\ (k + 1) - 1 = k
      BY <1>1, <2>1
    <3>2. Reads("server", g[k], parts[k + 1], g[k + 1])
      BY <1>7, <3>1
    <3>3. parts[k + 1] = Pair(fields[k + 1].key, ValueTokens(fields[k + 1]))
      BY <1>3, <3>1
    <3>4. ServerAfter(fields, k, g[k])
      BY <1>9, <3>1
    <3> HIDE DEF S
    <3> QED BY <2>1, <3>2, <3>3, <3>4, ServerField DEF N
  <2> QED BY <2>1
<1> HIDE DEF S
<1>10. N \in S
  BY <1>1, <1>8, <1>9, Induction
<1> QED BY <1>7, <1>10 DEF S, N

(* A file but for its end.                                                 *)
Body(key, value) == <<Token("STREAM_START")>> \o Block("BLOCK_MAPPING_START", Pair(key, value))

LEMMA ReadsBody ==
  ASSUME NEW file, NEW p, NEW key, NEW value, IsSeq(value), NEW q,
         Reads(file, p, Body(key, value), q)
  PROVE  \E a, b, c, d, e, f :
           /\ Moves(file, p, Token("STREAM_START"), a)
           /\ Moves(file, a, Token("BLOCK_MAPPING_START"), b)
           /\ Moves(file, b, Token("KEY"), c) /\ Moves(file, c, Scalar(key), d)
           /\ Moves(file, d, Token("VALUE"), e) /\ Reads(file, e, value, f)
           /\ Moves(file, f, Token("BLOCK_END"), q)
<1>1. IsSeq(Pair(key, value))
  BY PairIsSeq
<1>2. IsSeq(<<Token("STREAM_START")>>) /\ IsSeq(Block("BLOCK_MAPPING_START", Pair(key, value)))
  BY <1>1, OneElement, JoinFacts DEF Block
<1>3. PICK a : /\ Reads(file, p, <<Token("STREAM_START")>>, a)
               /\ Reads(file, a, Block("BLOCK_MAPPING_START", Pair(key, value)), q)
  BY <1>2, ReadsBoth DEF Body
<1>4. PICK b, f : /\ Moves(file, a, Token("BLOCK_MAPPING_START"), b)
                  /\ Reads(file, b, Pair(key, value), f)
                  /\ Moves(file, f, Token("BLOCK_END"), q)
  BY <1>1, <1>3, ReadsBlock
<1>5. PICK c, d, e : /\ Moves(file, b, Token("KEY"), c) /\ Moves(file, c, Scalar(key), d)
                     /\ Moves(file, d, Token("VALUE"), e) /\ Reads(file, e, value, f)
  BY <1>4, ReadsPair
<1>6. Moves(file, p, Token("STREAM_START"), a)
  BY <1>3, ReadsOne
<1> QED BY <1>4, <1>5, <1>6

LEMMA FieldsAreSeq ==
  ASSUME NEW fields, IsMapping(fields)
  PROVE  /\ Inner(Concat(Len(fields), LAMBDA i :
                           Pair(fields[i].key, ValueTokens(fields[i]))))
         /\ Inner(Fields(fields, ValueTokens))
<1> DEFINE N == Len(fields)
           parts == [i \in 1..N |-> Pair(fields[i].key, ValueTokens(fields[i]))]
<1>1. N \in Nat
  BY MappingFacts
<1>2. \A i \in 1..N : Inner(ValueTokens(fields[i]))
  BY InnerNothing, InnerOne DEF ValueTokens, Scalar
<1>3. \A i \in 1..N : parts[i] = Pair(fields[i].key, ValueTokens(fields[i]))
  OBVIOUS
<1>4. parts = [i \in 1..N |-> parts[i]]
  OBVIOUS
<1> HIDE DEF parts
<1>5. Parts(parts, N) /\ \A i \in 1..N : Inner(parts[i])
  BY <1>2, <1>3, <1>4, InnerPair DEF Parts, Inner
<1>6. Inner(FlattenSeq(parts))
  BY <1>1, <1>5, InnerFlatten
<1> QED BY <1>6, InnerBlock DEF Concat, Fields, parts

LEMMA ServerIsInner ==
  ASSUME NEW fields, IsMapping(fields)
  PROVE  /\ Inner(<<Token("BLOCK_ENTRY")>> \o Fields(fields, ValueTokens))
         /\ Inner(ServerTokens(fields))
<1> DEFINE dash == <<Token("BLOCK_ENTRY")>>
           entry == Fields(fields, ValueTokens)
<1>1. Inner(entry)
  BY FieldsAreSeq
<1>2. Inner(dash)
  BY InnerOne DEF Token
<1>3. ServerTokens(fields) = Block("BLOCK_SEQUENCE_START", dash \o entry)
  BY DEF ServerTokens
<1> HIDE DEF dash, entry
<1>4. Inner(dash \o entry)
  BY <1>1, <1>2, InnerBoth
<1>5. Inner(Block("BLOCK_SEQUENCE_START", dash \o entry))
  BY <1>4, InnerBlock
<1> QED BY <1>3, <1>4, <1>5 DEF dash, entry

(* However many fields the server's file has and in whatever order, what   *)
(* is read of it, if the program gets to its end, is what it says          *)
(* (parse_yaml_file_to_server).                                            *)
THEOREM ServerRead ==
  ASSUME NEW fields, IsServer(fields), NEW q,
         Reads("server", AtServerStart, Body("server", ServerTokens(fields)), q)
  PROVE  q.server = ServerWritten(fields)
<1> DEFINE items == Concat(Len(fields), LAMBDA i : Pair(fields[i].key, ValueTokens(fields[i])))
           entry == Fields(fields, ValueTokens)
           value == ServerTokens(fields)
<1>1. IsMapping(fields) /\ IsSeq(fields)
  BY MappingFacts DEF IsServer
<1>2. IsSeq(items) /\ IsSeq(entry) /\ IsSeq(<<Token("BLOCK_ENTRY")>> \o entry) /\ IsSeq(value)
  <2>1. Inner(items) /\ Inner(entry)
    BY <1>1, FieldsAreSeq
  <2>2. Inner(value) /\ Inner(<<Token("BLOCK_ENTRY")>> \o entry)
    BY <1>1, ServerIsInner
  <2> QED BY <2>1, <2>2 DEF Inner
<1>3. /\ entry = Block("BLOCK_MAPPING_START", items)
      /\ value = Block("BLOCK_SEQUENCE_START", <<Token("BLOCK_ENTRY")>> \o entry)
  BY DEF Fields, ServerTokens
<1> HIDE DEF value, entry
<1>4. PICK a, b, c, d, e, f :
        /\ Moves("server", AtServerStart, Token("STREAM_START"), a)
        /\ Moves("server", a, Token("BLOCK_MAPPING_START"), b)
        /\ Moves("server", b, Token("KEY"), c) /\ Moves("server", c, Scalar("server"), d)
        /\ Moves("server", d, Token("VALUE"), e) /\ Reads("server", e, value, f)
        /\ Moves("server", f, Token("BLOCK_END"), q)
  BY <1>2, ReadsBody DEF value
<1>5. AtServerStart = ServerState(NoServer, Null, "none")
  BY DEF AtServerStart, ServerState
<1>6. b = ServerState(NoServer, Null, "none")
  BY <1>4, <1>5, ServerSkips
<1>7. e = ServerState(NoServer, "server", "value")
  BY <1>4, <1>6, ServerKey
<1>8. PICK g, h, l, m, n :
        /\ Moves("server", e, Token("BLOCK_SEQUENCE_START"), l)
        /\ Moves("server", l, Token("BLOCK_ENTRY"), m)
        /\ Moves("server", m, Token("BLOCK_MAPPING_START"), g)
        /\ Reads("server", g, items, h) /\ Moves("server", h, Token("BLOCK_END"), n)
        /\ Moves("server", n, Token("BLOCK_END"), f)
  <2>1. PICK l, n : /\ Moves("server", e, Token("BLOCK_SEQUENCE_START"), l)
                    /\ Reads("server", l, <<Token("BLOCK_ENTRY")>> \o entry, n)
                    /\ Moves("server", n, Token("BLOCK_END"), f)
    BY <1>2, <1>3, <1>4, ReadsBlock
  <2>2. PICK m : Reads("server", l, <<Token("BLOCK_ENTRY")>>, m) /\ Reads("server", m, entry, n)
    BY <1>2, <2>1, OneElement, ReadsBoth
  <2>3. Moves("server", l, Token("BLOCK_ENTRY"), m)
    BY <2>2, ReadsOne
  <2>4. PICK g, h : /\ Moves("server", m, Token("BLOCK_MAPPING_START"), g)
                    /\ Reads("server", g, items, h)
                    /\ Moves("server", h, Token("BLOCK_END"), n)
    BY <1>2, <1>3, <2>2, ReadsBlock
  <2> QED BY <2>1, <2>3, <2>4
<1>9. g = ServerState(NoServer, Null, "none")
  <2>1. l = ServerState(NoServer, Null, "none")
    BY <1>7, <1>8, ServerNoValue
  <2> QED BY <1>8, <2>1, ServerSkips
<1>10. ServerAfter(fields, 0, g)
  <2>1. 0 \in 0..Len(fields)
    BY <1>1, SeqFacts
  <2>2. \A key \in DOMAIN NoServer : ValueOf(First(fields, 0), key, NoServer[key]) = NoServer[key]
    BY <1>1, <2>1, ValueNotFound
  <2>3. NoServer = [key \in DOMAIN NoServer |-> NoServer[key]]
    BY DEF NoServer
  <2>4. ServerWritten(First(fields, 0)) = NoServer
    BY <2>2, <2>3 DEF ServerWritten
  <2> QED BY <1>9, <2>4 DEF ServerAfter
<1>11. ServerAfter(fields, Len(fields), h)
  BY <1>8, <1>10, ServerFields
<1>12. PICK k : h = ServerState(ServerWritten(fields), k, "none")
  <2>1. ASSUME NEW s, NEW k \in DOMAIN NoServer, h = ServerState(s, k, "value")
        PROVE  FALSE
    BY <1>8, <2>1, ServerNoValue
  <2>2. \E k : h = ServerState(ServerWritten(First(fields, Len(fields))), k, "none")
    BY <1>11, <2>1 DEF ServerAfter
  <2> QED BY <1>1, <2>2, FirstAll
<1>13. f = ServerState(ServerWritten(fields), k, "none")
  BY <1>8, <1>12, ServerSkips
<1>14. q = ServerState(ServerWritten(fields), k, "none")
  BY <1>4, <1>13, ServerSkips
<1> QED BY <1>14 DEF ServerState

-----------------------------------------------------------------------------
(* The routers' file: what a token does to the parser's variables.         *)

State(routers, router, device, k, awaited) ==
  [routers |-> routers, router |-> router, device |-> device, key |-> k, pending |-> awaited]

RouterRecord(name, port, table, devices) ==
  [name |-> name, port |-> port, table |-> table, devices |-> devices]

(* x is the router that the parser fills in, or would open, behind others. *)
Fills(rs, r, others, x) ==
  /\ IsSeq(others)
  /\ \/ r = Len(others) + 1 /\ rs = Append(others, x)
     \/ r = 0 /\ rs = others /\ x = NewRouter

LEMMA LastReplaced ==
  ASSUME NEW s, IsSeq(s), NEW x
  PROVE  /\ Len(s) \in Nat /\ IsSeq(Append(s, x)) /\ Len(Append(s, x)) = Len(s) + 1
         /\ Append(s, x)[Len(s) + 1] = x /\ DOMAIN Append(s, x) = 1..Len(s) + 1
         /\ \A i \in 1..Len(s) : Append(s, x)[i] = s[i]
         /\ \A y : [Append(s, x) EXCEPT ![Len(s) + 1] = y] = Append(s, y)
<1>1. PICK S : s \in Seq(S)
  BY DEF IsSeq
<1>2. ASSUME NEW y
      PROVE  /\ Len(s) \in Nat /\ IsSeq(Append(s, y))
             /\ Len(Append(s, y)) = Len(s) + 1 /\ Append(s, y)[Len(s) + 1] = y
             /\ DOMAIN Append(s, y) = 1..Len(s) + 1
             /\ \A i \in 1..Len(s) : Append(s, y)[i] = s[i]
  <2>1. s \in Seq(S \cup {y}) /\ y \in S \cup {y}
    BY <1>1
  <2> DEFINE V == S \cup {y}
  <2> HIDE DEF V
  <2>2. s \in Seq(V) /\ y \in V
    BY <2>1 DEF V
  <2>3. /\ Append(s, y) \in Seq(V) /\ Len(Append(s, y)) = Len(s) + 1
        /\ Append(s, y)[Len(s) + 1] = y /\ \A i \in 1..Len(s) : Append(s, y)[i] = s[i]
    BY <2>2, AppendProperties
  <2>4. Len(s) \in Nat /\ DOMAIN Append(s, y) = 1..Len(s) + 1
    BY <2>2, <2>3
  <2> QED BY <2>3, <2>4 DEF IsSeq
<1>3. ASSUME NEW y
      PROVE  [Append(s, x) EXCEPT ![Len(s) + 1] = y] = Append(s, y)
  <2> DEFINE N == Len(s) + 1
             a == Append(s, x)
             t == [a EXCEPT ![N] = y]
  <2>1. /\ Len(s) \in Nat /\ DOMAIN a = 1..N
        /\ \A i \in 1..Len(s) : a[i] = s[i]
    BY <1>2
  <2>2. /\ N \in Nat /\ IsSeq(Append(s, y)) /\ Len(Append(s, y)) = N /\ Append(s, y)[N] = y
        /\ \A i \in 1..Len(s) : Append(s, y)[i] = s[i]
    BY <1>2
  <2>3. /\ \A i \in 1..N : i = N \/ i \in 1..Len(s)
        /\ \A i \in 1..Len(s) : i # N /\ i \in 1..N
        /\ N \in 1..N
    BY <2>1
  <2> HIDE DEF a, N
  <2>7. t = [i \in 1..N |-> t[i]] /\ t[N] = y /\ \A i \in 1..Len(s) : t[i] = s[i]
    BY <2>1, <2>3
  <2> HIDE DEF t
  <2>4. IsSeq(t) /\ Len(t) = N
    BY <2>2, <2>7, Listed
  <2>5. \A i \in 1..N : t[i] = Append(s, y)[i]
    BY <2>2, <2>3, <2>7
  <2>6. t = Append(s, y)
    BY <2>2, <2>4, <2>5, SameElements
  <2> QED BY <2>6 DEF t, a, N
<1> QED BY <1>2, <1>3

LEMMA Skips ==
  ASSUME NEW rs, NEW r, NEW d, NEW k, NEW token,
         token.type \notin {"KEY", "VALUE", "BLOCK_END"}, NEW q,
         Moves("routers", State(rs, r, d, k, "none"), token, q)
  PROVE  q = State(rs, r, d, k, "none")
BY DEF Moves, State, ScanToken, Awaits

LEMMA ReadsKey ==
  ASSUME NEW rs, NEW r, NEW d, NEW k, NEW key, NEW a, NEW b, NEW c,
         Moves("routers", State(rs, r, d, k, "none"), Token("KEY"), a),
         Moves("routers", a, Scalar(key), b), Moves("routers", b, Token("VALUE"), c)
  PROVE  c = State(rs, r, d, key, "value")
<1>1. a = State(rs, r, d, k, "key")
  BY DEF Moves, State, Token, ScanToken, Awaits
<1>2. b = State(rs, r, d, key, "none")
  BY <1>1 DEF Moves, State, Scalar, ScanToken, OnKey
<1> QED BY <1>2 DEF Moves, State, Token, ScanToken, Awaits

LEMMA Opens ==
  ASSUME NEW rs, NEW r, NEW others, NEW x, Fills(rs, r, others, x), NEW d, NEW k, NEW awaited
  PROVE  OpenRouter(State(rs, r, d, k, awaited)) =
           State(Append(others, x), Len(others) + 1, d, k, awaited)
<1>1. CASE r = Len(others) + 1 /\ rs = Append(others, x)
  <2>1. r # 0
    BY <1>1, SeqFacts DEF Fills
  <2> QED BY <1>1, <2>1 DEF OpenRouter, State
<1>2. CASE r = 0 /\ rs = others /\ x = NewRouter
  BY <1>2 DEF OpenRouter, State
<1> QED BY <1>1, <1>2 DEF Fills

LEMMA KeyForgotten ==
  ASSUME NEW rs, NEW r, NEW d, NEW k, NEW q,
         q = [State(rs, r, d, k, "value") EXCEPT !.key = Null, !.pending = "none"]
  PROVE  q = State(rs, r, d, Null, "none")
BY DEF State

LEMMA ReadsNoValue ==
  ASSUME NEW rs, NEW r, NEW others, NEW x, Fills(rs, r, others, x), NEW d, NEW k,
         NEW type, type # "SCALAR", NEW q,
         Moves("routers", State(rs, r, d, k, "value"), Token(type), q)
  PROVE  /\ k \notin DOMAIN NewDevice /\ (k \in {"name", "port"} => d # 0)
         /\ q = State(Append(others, x), Len(others) + 1, d, Null, "none")
<1>1. ~NoValue(State(rs, r, d, k, "value"), Token(type))
  BY DEF Moves
<1>2. k \notin {"interface", "ip", "mask"} /\ (k \in {"name", "port"} => d # 0)
  BY <1>1 DEF NoValue, State, Token
<1>3. q = [OpenRouter(State(rs, r, d, k, "value")) EXCEPT !.key = Null, !.pending = "none"]
  BY DEF Moves, ScanToken, OnValue, State, Token
<1>4. q = State(Append(others, x), Len(others) + 1, d, Null, "none")
  <2>1. OpenRouter(State(rs, r, d, k, "value"))
          = State(Append(others, x), Len(others) + 1, d, k, "value")
    BY Opens
  <2> QED BY <1>3, <2>1, KeyForgotten
<1> QED BY <1>2, <1>4 DEF NewDevice

LEMMA ReadsBlockEnd ==
  ASSUME NEW rs, NEW r, NEW d, NEW k, NEW q,
         Moves("routers", State(rs, r, d, k, "none"), Token("BLOCK_END"), q)
  PROVE  q = IF d # 0 THEN State(rs, r, 0, k, "none") ELSE State(rs, 0, d, k, "none")
BY DEF Moves, State, Token, ScanToken, OnBlockEnd

(* The fields of a router that have a value.                               *)
Filled(x, k, v) ==
  CASE k = "name" -> [x EXCEPT !.name = v, !.table = v]
    [] k = "port" -> [x EXCEPT !.port = v]
    [] OTHER -> x

LEMMA ReadsRouterValue ==
  ASSUME NEW rs, NEW r, NEW others, NEW n, NEW po, NEW ta, NEW ds,
         Fills(rs, r, others, RouterRecord(n, po, ta, ds)),
         NEW k, k \notin DOMAIN NewDevice, NEW v, NEW q,
         Moves("routers", State(rs, r, 0, k, "value"), Scalar(v), q)
  PROVE  q = State(Append(others, Filled(RouterRecord(n, po, ta, ds), k, v)), Len(others) + 1,
                   0, Null, "none")
<1> DEFINE x == RouterRecord(n, po, ta, ds)
           o == State(Append(others, x), Len(others) + 1, 0, k, "value")
           N == Len(others) + 1
<1>1. OpenRouter(State(rs, r, 0, k, "value")) = o
  BY Opens
<1>2. q = [Assign(o, v) EXCEPT !.key = Null, !.pending = "none"]
  BY <1>1 DEF Moves, ScanToken, OnValue, State, Scalar
<1>3. k \notin {"interface", "ip", "mask"}
  BY DEF NewDevice
<1>4. /\ Append(others, x)[N] = x /\ N \in DOMAIN Append(others, x)
      /\ \A y : [Append(others, x) EXCEPT ![N] = y] = Append(others, y)
  <2>1. IsSeq(others)
    BY DEF Fills
  <2>2. Len(others) \in Nat
    BY <2>1, SeqFacts
  <2>3. N \in 1..N
    BY <2>2
  <2> HIDE DEF x
  <2> QED BY <2>1, <2>3, LastReplaced
<1>5. CASE k = "name"
  <2>1. Assign(o, v) = [o EXCEPT !.routers[N].name = v, !.routers[N].table = v]
    BY <1>5 DEF Assign, State
  <2> DEFINE y == [x EXCEPT !.name = v, !.table = v]
  <2>2. [o EXCEPT !.routers[N].name = v, !.routers[N].table = v].routers = Append(others, y)
    <3>1. [Append(others, x) EXCEPT ![N].name = v, ![N].table = v]
            = [Append(others, x) EXCEPT ![N] = y]
      BY <1>4
    <3> QED BY <1>4, <3>1 DEF State
  <2> QED BY <1>2, <1>5, <2>1, <2>2 DEF State, Filled
<1>6. CASE k = "port"
  <2>1. Assign(o, v) = [o EXCEPT !.routers[N].port = v]
    BY <1>6 DEF Assign, State
  <2> DEFINE y == [x EXCEPT !.port = v]
  <2>2. [o EXCEPT !.routers[N].port = v].routers = Append(others, y)
    <3>1. [Append(others, x) EXCEPT ![N].port = v] = [Append(others, x) EXCEPT ![N] = y]
      BY <1>4
    <3> QED BY <1>4, <3>1 DEF State
  <2> QED BY <1>2, <1>6, <2>1, <2>2 DEF State, Filled
<1>7. CASE k \notin {"name", "port"}
  <2>1. Assign(o, v) = o
    BY <1>3, <1>7 DEF Assign, State
  <2>2. Filled(x, k, v) = x
    BY <1>7 DEF Filled
  <2>3. q = State(Append(others, x), N, 0, Null, "none")
    <3>1. q = [State(Append(others, x), N, 0, k, "value") EXCEPT !.key = Null, !.pending = "none"]
      BY <1>2, <2>1
    <3> HIDE DEF x, N
    <3> QED BY <3>1, KeyForgotten
  <2> QED BY <2>2, <2>3
<1> QED BY <1>5, <1>6, <1>7

(* y is the device that the parser fills in, or would open, behind others. *)
FillsDevice(list, d, others, y) ==
  /\ IsSeq(others)
  /\ \/ d = Len(others) + 1 /\ list = Append(others, y)
     \/ d = 0 /\ list = others /\ y = NewDevice

LEMMA OpensDevice ==
  ASSUME NEW others, IsSeq(others), NEW n, NEW po, NEW ta,
         NEW list, NEW d, NEW ds, NEW y, FillsDevice(list, d, ds, y), NEW k
  PROVE  OpenDevice(State(Append(others, RouterRecord(n, po, ta, list)), Len(others) + 1,
                          d, k, "value")) =
           State(Append(others, RouterRecord(n, po, ta, Append(ds, y))), Len(others) + 1,
                 Len(ds) + 1, k, "value")
<1> DEFINE N == Len(others) + 1
           x == RouterRecord(n, po, ta, list)
           a == Append(others, x)
           o == State(a, N, d, k, "value")
<1>1. CASE d = Len(ds) + 1 /\ list = Append(ds, y)
  <2>1. d # 0
    BY <1>1, SeqFacts DEF FillsDevice
  <2> QED BY <1>1, <2>1 DEF OpenDevice, State
<1>2. CASE d = 0 /\ list = ds /\ y = NewDevice
  <2> DEFINE z == RouterRecord(n, po, ta, Append(ds, NewDevice))
             q == [o EXCEPT !.routers[N].devices = Append(@, NewDevice),
                            !.device = Len(a[N].devices) + 1]
  <2>1. a[N] = x /\ N \in DOMAIN a /\ \A w : [a EXCEPT ![N] = w] = Append(others, w)
    <3>1. Len(others) \in Nat
      BY SeqFacts
    <3>2. N \in 1..N
      BY <3>1
    <3> HIDE DEF x
    <3> QED BY <3>2, LastReplaced
  <2>2. OpenDevice(o) = q
    BY <1>2 DEF OpenDevice, State
  <2>3. x.devices = ds
    BY <1>2 DEF RouterRecord
  <2>4. [x EXCEPT !.devices = Append(@, NewDevice)] = z
    <3>1. ASSUME NEW w, w = [x EXCEPT !.devices = Append(@, NewDevice)]
          PROVE  w = z
      BY <1>2, <3>1 DEF RouterRecord
    <3> QED BY <3>1
  <2> HIDE DEF a, x, z
  <2>5. [a EXCEPT ![N].devices = Append(@, NewDevice)] = Append(others, z)
    <3>1. [a EXCEPT ![N].devices = Append(@, NewDevice)]
            = [a EXCEPT ![N] = [x EXCEPT !.devices = Append(@, NewDevice)]]
      BY <2>1
    <3> QED BY <2>1, <2>4, <3>1
  <2>6. ASSUME NEW w, w = [o EXCEPT !.routers[N].devices = Append(@, NewDevice),
                                    !.device = Len(a[N].devices) + 1]
        PROVE  w = State(Append(others, z), N, Len(ds) + 1, k, "value")
    <3>1. w.routers = [a EXCEPT ![N].devices = Append(@, NewDevice)]
      BY <2>6 DEF State
    <3>2. /\ DOMAIN w = {"routers", "router", "device", "key", "pending"}
          /\ w.router = N /\ w.device = Len(ds) + 1 /\ w.key = k /\ w.pending = "value"
      BY <2>1, <2>3, <2>6 DEF State
    <3>3. w = [f \in DOMAIN w |-> w[f]]
      BY <2>6
    <3> QED BY <2>5, <3>1, <3>2, <3>3 DEF State
  <2> QED BY <1>2, <2>2, <2>6 DEF a, x, z
<1> QED BY <1>1, <1>2 DEF FillsDevice

DeviceAssigned(others, n, po, ta, ds, y, k, v) ==
  [State(Append(others, RouterRecord(n, po, ta, Append(ds, y))), Len(others) + 1,
         Len(ds) + 1, k, "value")
     EXCEPT !.routers[Len(others) + 1].devices[Len(ds) + 1][k] = v]

LEMMA AssignsDevice ==
  ASSUME NEW others, IsSeq(others), NEW n, NEW po, NEW ta,
         NEW ds, IsSeq(ds), NEW y, NEW k \in DOMAIN NewDevice, NEW v
  PROVE  DeviceAssigned(others, n, po, ta, ds, y, k, v) =
           State(Append(others, RouterRecord(n, po, ta, Append(ds, [y EXCEPT ![k] = v]))),
                   Len(others) + 1, Len(ds) + 1, k, "value")
<1> DEFINE N == Len(others) + 1
           M == Len(ds) + 1
           l == Append(ds, y)
           m == Append(ds, [y EXCEPT ![k] = v])
           x == RouterRecord(n, po, ta, l)
           z == RouterRecord(n, po, ta, m)
           a == Append(others, x)
           o == State(a, N, M, k, "value")
           q == DeviceAssigned(others, n, po, ta, ds, y, k, v)
<1>1. a[N] = x /\ N \in DOMAIN a /\ \A w : [a EXCEPT ![N] = w] = Append(others, w)
  <2>1. Len(others) \in Nat
    BY SeqFacts
  <2>2. N \in 1..N
    BY <2>1
  <2> HIDE DEF x
  <2> QED BY <2>2, LastReplaced
<1>2. l[M] = y /\ M \in DOMAIN l /\ \A w : [l EXCEPT ![M] = w] = Append(ds, w)
  <2>1. Len(ds) \in Nat
    BY SeqFacts
  <2>2. M \in 1..M
    BY <2>1
  <2> QED BY <2>2, LastReplaced
<1>3. q = [o EXCEPT !.routers[N].devices[M][k] = v]
  BY DEF DeviceAssigned
<1> HIDE DEF N, M, l, q
<1>4. [l EXCEPT ![M][k] = v] = m
  <2>1. [l EXCEPT ![M][k] = v] = [l EXCEPT ![M] = [y EXCEPT ![k] = v]]
    BY <1>2
  <2> QED BY <1>2, <2>1
<1> HIDE DEF m
<1>5. [x EXCEPT !.devices[M][k] = v] = z
  <2>1. ASSUME NEW w, w = [x EXCEPT !.devices[M][k] = v]
        PROVE  w = z
    <3>1. w.devices = [l EXCEPT ![M][k] = v]
      BY <2>1 DEF RouterRecord
    <3>2. /\ DOMAIN w = {"name", "port", "table", "devices"}
          /\ w.name = n /\ w.port = po /\ w.table = ta
      BY <2>1 DEF RouterRecord
    <3>3. w = [f \in DOMAIN w |-> w[f]]
      BY <2>1
    <3> QED BY <1>4, <3>1, <3>2, <3>3 DEF RouterRecord
  <2> QED BY <2>1
<1> HIDE DEF x, z, a
<1>6. [a EXCEPT ![N].devices[M][k] = v] = Append(others, z)
  <2>1. [a EXCEPT ![N].devices[M][k] = v] = [a EXCEPT ![N] = [x EXCEPT !.devices[M][k] = v]]
    BY <1>1
  <2> QED BY <1>1, <1>5, <2>1
<1>7. q.routers = [a EXCEPT ![N].devices[M][k] = v]
  BY <1>3 DEF State
<1>8. /\ DOMAIN q = {"routers", "router", "device", "key", "pending"}
      /\ q.router = N /\ q.device = M /\ q.key = k /\ q.pending = "value"
  BY <1>3 DEF State
<1>9. q = [f \in DOMAIN q |-> q[f]]
  BY <1>3
<1>10. q = State(Append(others, z), N, M, k, "value")
  BY <1>6, <1>7, <1>8, <1>9 DEF State
<1> QED BY <1>10 DEF N, M, z, m, q

LEMMA ReadsDeviceValue ==
  ASSUME NEW others, IsSeq(others), NEW n, NEW po, NEW ta,
         NEW list, NEW d, NEW ds, NEW y, FillsDevice(list, d, ds, y),
         NEW k \in DOMAIN NewDevice, NEW v, NEW q,
         Moves("routers", State(Append(others, RouterRecord(n, po, ta, list)), Len(others) + 1,
                                d, k, "value"), Scalar(v), q)
  PROVE  q = State(Append(others, RouterRecord(n, po, ta, Append(ds, [y EXCEPT ![k] = v]))),
                   Len(others) + 1, Len(ds) + 1, Null, "none")
<1> DEFINE N == Len(others) + 1
           M == Len(ds) + 1
           o == State(Append(others, RouterRecord(n, po, ta, list)), N, d, k, "value")
           p == State(Append(others, RouterRecord(n, po, ta, Append(ds, y))), N, M, k, "value")
           w == DeviceAssigned(others, n, po, ta, ds, y, k, v)
<1>1. OpenRouter(o) = o
  <2>1. N # 0
    BY SeqFacts
  <2> QED BY <2>1 DEF OpenRouter, State
<1>2. OpenDevice(o) = p
  BY OpensDevice
<1>3. k \in {"interface", "ip", "mask"}
  BY DEF NewDevice
<1>4. o.key = k /\ p.router = N /\ p.device = M /\ p.key = k
  BY DEF State
<1>5. q = [Assign(OpenRouter(o), v) EXCEPT !.key = Null, !.pending = "none"]
  BY DEF Moves, ScanToken, OnValue, State, Scalar
<1> HIDE DEF o, p
<1>6. Assign(o, v) = w
  <2>1. w = [p EXCEPT !.routers[N].devices[M][k] = v]
    BY DEF DeviceAssigned, p
  <2> QED BY <1>2, <1>3, <1>4, <2>1 DEF Assign
<1>7. w = State(Append(others, RouterRecord(n, po, ta, Append(ds, [y EXCEPT ![k] = v]))),
                N, M, k, "value")
  <2>1. IsSeq(ds)
    BY DEF FillsDevice
  <2> QED BY <2>1, AssignsDevice
<1> HIDE DEF w, N, M
<1>8. q = [State(Append(others, RouterRecord(n, po, ta, Append(ds, [y EXCEPT ![k] = v]))),
                 N, M, k, "value") EXCEPT !.key = Null, !.pending = "none"]
  BY <1>1, <1>5, <1>6, <1>7
<1> QED BY <1>8, KeyForgotten DEF N, M

-----------------------------------------------------------------------------
(* The routers' file: devices and their lists.                             *)

(* The parser waits for the value of a field of a device.                  *)
Stuck(q) ==
  \E others, x, d : \E k \in DOMAIN NewDevice :
    IsSeq(others) /\ q = State(Append(others, x), Len(others) + 1, d, k, "value")

LEMMA StuckForGood ==
  ASSUME NEW p, Stuck(p), NEW type, type # "SCALAR", NEW q, Moves("routers", p, Token(type), q)
  PROVE  FALSE
<1>1. PICK others, x, d : \E k \in DOMAIN NewDevice :
        IsSeq(others) /\ p = State(Append(others, x), Len(others) + 1, d, k, "value")
  BY DEF Stuck
<1>2. PICK k \in DOMAIN NewDevice :
        IsSeq(others) /\ p = State(Append(others, x), Len(others) + 1, d, k, "value")
  BY <1>1
<1>3. Fills(Append(others, x), Len(others) + 1, others, x)
  BY <1>2 DEF Fills
<1> QED BY <1>2, <1>3, ReadsNoValue

(* Behind n fields of a device, the first of a new device behind ds.       *)
DeviceAfter(others, name, port, table, ds, device, n, q) ==
  \/ \E list, d, k :
       /\ FillsDevice(list, d, ds, DeviceWritten(First(device, n)))
       /\ n > 0 => d # 0
       /\ q = State(Append(others, RouterRecord(name, port, table, list)), Len(others) + 1,
                    d, k, "none")
  \/ Stuck(q)

LEMMA DeviceWrittenMore ==
  ASSUME NEW device, IsDevice(device), NEW n \in Nat, n + 1 <= Len(device)
  PROVE  DeviceWritten(First(device, n + 1)) =
           [DeviceWritten(First(device, n)) EXCEPT ![device[n + 1].key] = device[n + 1].value]
<1> DEFINE f == device[n + 1]
           w == DeviceWritten(First(device, n))
           q == [w EXCEPT ![f.key] = f.value]
<1>1. \A key, default :
        ValueOf(First(device, n + 1), key, default) =
          IF f.key = key THEN f.value ELSE ValueOf(First(device, n), key, default)
  BY ValueOfMore DEF IsDevice
<1>2. f.key \in {"interface", "ip", "mask"}
  <2>1. Len(device) \in Nat /\ DOMAIN device = 1..Len(device)
    BY MappingFacts DEF IsDevice
  <2>2. n + 1 \in DOMAIN device
    BY <2>1
  <2> HIDE DEF w, q
  <2>3. f.key \in Keys(device)
    BY <2>2 DEF Keys
  <2> HIDE DEF f
  <2> QED BY <2>3 DEF IsDevice, NewDevice
<1>3. /\ DOMAIN w = {"interface", "ip", "mask"}
      /\ w.interface = ValueOf(First(device, n), "interface", Null)
      /\ w.ip = ValueOf(First(device, n), "ip", Null)
      /\ w.mask = ValueOf(First(device, n), "mask", 0)
  BY DEF DeviceWritten
<1> HIDE DEF w, f
<1>4. /\ q = [k \in {"interface", "ip", "mask"} |-> q[k]]
      /\ q.interface = ValueOf(First(device, n + 1), "interface", Null)
      /\ q.ip = ValueOf(First(device, n + 1), "ip", Null)
      /\ q.mask = ValueOf(First(device, n + 1), "mask", 0)
  BY <1>1, <1>2, <1>3
<1> HIDE DEF q
<1>5. q = DeviceWritten(First(device, n + 1))
  BY <1>4 DEF DeviceWritten
<1> QED BY <1>5 DEF q, w, f

LEMMA DeviceField ==
  ASSUME NEW others, IsSeq(others), NEW name, NEW port, NEW table, NEW ds,
         NEW device, IsDevice(device), NEW n \in Nat, n + 1 <= Len(device),
         NEW p, DeviceAfter(others, name, port, table, ds, device, n, p), NEW q,
         Reads("routers", p, Pair(device[n + 1].key, ValueTokens(device[n + 1])), q)
  PROVE  DeviceAfter(others, name, port, table, ds, device, n + 1, q)
<1> DEFINE f == device[n + 1]
           w == DeviceWritten(First(device, n))
<1>1. IsSeq(ValueTokens(f))
  BY OneElement, NoElements DEF ValueTokens
<1>2. PICK a, b, c : /\ Moves("routers", p, Token("KEY"), a) /\ Moves("routers", a, Scalar(f.key), b)
                     /\ Moves("routers", b, Token("VALUE"), c)
                     /\ Reads("routers", c, ValueTokens(f), q)
  BY <1>1, ReadsPair
<1>3. ~Stuck(p)
  BY <1>2, StuckForGood
<1>4. PICK list, d, k :
        /\ FillsDevice(list, d, ds, w)
        /\ p = State(Append(others, RouterRecord(name, port, table, list)), Len(others) + 1,
                     d, k, "none")
  BY <1>3 DEF DeviceAfter
<1>5. c = State(Append(others, RouterRecord(name, port, table, list)), Len(others) + 1,
                d, f.key, "value")
  BY <1>2, <1>4, ReadsKey
<1>6. f.key \in DOMAIN NewDevice
  <2>1. Len(device) \in Nat /\ DOMAIN device = 1..Len(device)
    BY MappingFacts DEF IsDevice
  <2> QED BY <2>1 DEF IsDevice, Keys
<1>7. CASE "value" \in DOMAIN f
  <2> DEFINE y == [w EXCEPT ![f.key] = f.value]
  <2>1. Moves("routers", c, Scalar(f.value), q)
    BY <1>2, <1>7, ReadsOne DEF ValueTokens
  <2>2. q = State(Append(others, RouterRecord(name, port, table, Append(ds, y))),
                  Len(others) + 1, Len(ds) + 1, Null, "none")
    <3> HIDE DEF f, w
    <3> QED BY <1>4, <1>5, <1>6, <2>1, ReadsDeviceValue
  <2>3. y = DeviceWritten(First(device, n + 1))
    BY DeviceWrittenMore
  <2>4. IsSeq(ds) /\ Len(ds) + 1 # 0
    BY <1>4, SeqFacts DEF FillsDevice
  <2> HIDE DEF y
  <2>5. FillsDevice(Append(ds, y), Len(ds) + 1, ds, y)
    BY <2>4 DEF FillsDevice
  <2> QED BY <2>2, <2>3, <2>4, <2>5 DEF DeviceAfter
<1>8. CASE "value" \notin DOMAIN f
  <2>1. q = c
    BY <1>2, <1>8, ReadsNothing DEF ValueTokens
  <2>2. Stuck(q)
    BY <1>5, <1>6, <2>1 DEF Stuck
  <2> QED BY <2>2 DEF DeviceAfter
<1> QED BY <1>7, <1>8

LEMMA DeviceFields ==
  ASSUME NEW others, IsSeq(others), NEW name, NEW port, NEW table, NEW ds,
         NEW device, IsDevice(device),
         NEW p, DeviceAfter(others, name, port, table, ds, device, 0, p), NEW q,
         Reads("routers", p, Concat(Len(device), LAMBDA i :
                                      Pair(device[i].key, ValueTokens(device[i]))), q)
  PROVE  DeviceAfter(others, name, port, table, ds, device, Len(device), q)
<1> DEFINE N == Len(device)
           parts == [i \in 1..N |-> Pair(device[i].key, ValueTokens(device[i]))]
           After(k, r) == DeviceAfter(others, name, port, table, ds, device, k, r)
<1>1. N \in Nat
  BY MappingFacts DEF IsDevice
<1>2. \A i \in 1..N : IsSeq(ValueTokens(device[i]))
  BY OneElement, NoElements DEF ValueTokens
<1>3. \A i \in 1..N : parts[i] = Pair(device[i].key, ValueTokens(device[i]))
  OBVIOUS
<1>4. Reads("routers", p, FlattenSeq(parts), q)
  BY DEF Concat
<1>5. parts = [i \in 1..N |-> parts[i]]
  OBVIOUS
<1> HIDE DEF parts, N
<1>6. Parts(parts, N)
  BY <1>2, <1>3, <1>5, PairIsSeq DEF Parts
<1>7. PICK g : /\ g[0] = p /\ g[N] = q
               /\ \A k \in 1..N : Reads("routers", g[k - 1], parts[k], g[k])
  <2>1. InParts("routers", p, parts, N, q)
    BY <1>1, <1>4, <1>6, ReadsParts
  <2> QED BY <2>1 DEF InParts
<1>8. ASSUME NEW k \in Nat, k + 1 <= N, After(k, g[k])
      PROVE  After(k + 1, g[k + 1])
  <2>1. k + 1 \in 1..N /\ (k + 1) - 1 = k
    BY <1>1, <1>8
  <2>2. Reads("routers", g[k], parts[k + 1], g[k + 1])
    BY <1>7, <2>1
  <2>3. parts[k + 1] = Pair(device[k + 1].key, ValueTokens(device[k + 1]))
    BY <1>3, <2>1
  <2> QED BY <1>8, <2>2, <2>3, DeviceField DEF N
<1> HIDE DEF After
<1> DEFINE S == {k \in Nat : k <= N => After(k, g[k])}
<1>9. 0 \in S
  BY <1>7 DEF After
<1>10. ASSUME NEW k \in Nat, k \in S
       PROVE  k + 1 \in S
  BY <1>1, <1>8, <1>10
<1> HIDE DEF S
<1>11. N \in S
  BY <1>1, <1>9, <1>10, Induction
<1>12. After(N, q)
  BY <1>1, <1>7, <1>11 DEF S
<1> QED BY <1>12 DEF N, After

(* A device is read as it is written, behind those of its router.          *)
LEMMA DeviceRead ==
  ASSUME NEW others, IsSeq(others), NEW name, NEW port, NEW table, NEW ds, IsSeq(ds),
         NEW device, IsDevice(device), NEW k, NEW q,
         Reads("routers", State(Append(others, RouterRecord(name, port, table, ds)),
                                Len(others) + 1, 0, k, "none"), DeviceTokens(device), q)
  PROVE  \E key : q = State(Append(others, RouterRecord(name, port, table,
                                                        Append(ds, DeviceWritten(device)))),
                            Len(others) + 1, 0, key, "none")
<1> DEFINE N == Len(others) + 1
           p == State(Append(others, RouterRecord(name, port, table, ds)), N, 0, k, "none")
           items == Concat(Len(device), LAMBDA i : Pair(device[i].key, ValueTokens(device[i])))
           After(n, r) == DeviceAfter(others, name, port, table, ds, device, n, r)
<1>1. IsMapping(device) /\ IsSeq(device) /\ device # <<>>
  BY MappingFacts DEF IsDevice
<1>2. IsSeq(items)
  <2>1. Inner(items) /\ Inner(Fields(device, ValueTokens))
    BY <1>1, FieldsAreSeq
  <2> QED BY <2>1 DEF Inner
<1>3. DeviceTokens(device) = Block("BLOCK_MAPPING_START", items)
  BY DEF DeviceTokens, Fields
<1> HIDE DEF p
<1>4. PICK a, b : /\ Moves("routers", p, Token("BLOCK_MAPPING_START"), a)
                  /\ Reads("routers", a, items, b) /\ Moves("routers", b, Token("BLOCK_END"), q)
  <2>1. Reads("routers", p, Block("BLOCK_MAPPING_START", items), q)
    BY <1>3 DEF p
  <2> HIDE DEF items
  <2> QED BY <1>2, <2>1, ReadsBlock
<1>5. a = p
  <2>1. Token("BLOCK_MAPPING_START").type \notin {"KEY", "VALUE", "BLOCK_END"}
    BY DEF Token
  <2> QED BY <1>4, <2>1, Skips DEF p
<1>6. After(0, a)
  <2>1. DeviceWritten(First(device, 0)) = NewDevice
    <3>1. 0 \in 0..Len(device) /\ \A i \in 1..0 : FALSE
      BY <1>1, SeqFacts
    <3>2. \A key, default : ValueOf(First(device, 0), key, default) = default
      BY <1>1, <3>1, ValueNotFound
    <3> QED BY <3>2 DEF DeviceWritten, NewDevice
  <2>2. FillsDevice(ds, 0, ds, DeviceWritten(First(device, 0)))
    BY <2>1 DEF FillsDevice
  <2> QED BY <1>5, <2>2 DEF DeviceAfter, p
<1>7. After(Len(device), b)
  BY <1>4, <1>6, DeviceFields
<1>8. ~Stuck(b)
  BY <1>4, StuckForGood
<1>9. PICK list, d, key :
        /\ FillsDevice(list, d, ds, DeviceWritten(device)) /\ d # 0
        /\ b = State(Append(others, RouterRecord(name, port, table, list)), N, d, key, "none")
  <2>1. Len(device) > 0
    BY <1>1, SeqFacts, NoElements, SameElements
  <2>2. First(device, Len(device)) = device
    BY <1>1, FirstAll
  <2> QED BY <1>7, <1>8, <2>1, <2>2 DEF DeviceAfter
<1>10. list = Append(ds, DeviceWritten(device))
  BY <1>9 DEF FillsDevice
<1>11. q = State(Append(others, RouterRecord(name, port, table, list)), N, 0, key, "none")
  BY <1>4, <1>9, ReadsBlockEnd
<1> QED BY <1>10, <1>11

LEMMA OneMore ==
  ASSUME NEW s, NEW t, IsSeq(s), IsSeq(t), Len(t) = Len(s) + 1,
         \A i \in 1..Len(s) : t[i] = s[i]
  PROVE  t = Append(s, t[Len(s) + 1])
<1> DEFINE x == t[Len(s) + 1]
<1>1. /\ Len(s) \in Nat /\ IsSeq(Append(s, x)) /\ Len(Append(s, x)) = Len(s) + 1
      /\ Append(s, x)[Len(s) + 1] = x
      /\ \A i \in 1..Len(s) : Append(s, x)[i] = s[i]
  BY LastReplaced
<1> HIDE DEF x
<1>2. \A i \in 1..Len(t) : t[i] = Append(s, x)[i]
  BY <1>1 DEF x
<1>3. t = Append(s, x)
  BY <1>1, <1>2, SameElements
<1> QED BY <1>3 DEF x

LEMMA AppendedLater ==
  ASSUME NEW s, NEW t, IsSeq(s), IsSeq(t), NEW x
  PROVE  s \o Append(t, x) = Append(s \o t, x)
<1>1. Len(s) \in Nat /\ Len(t) \in Nat /\ IsSeq(s \o t) /\ Len(s \o t) = Len(s) + Len(t)
  BY SeqFacts, JoinFacts
<1>2. /\ IsSeq(Append(t, x)) /\ Len(Append(t, x)) = Len(t) + 1 /\ Append(t, x)[Len(t) + 1] = x
      /\ \A i \in 1..Len(t) : Append(t, x)[i] = t[i]
  BY LastReplaced
<1> DEFINE a == Append(t, x)
           u == s \o a
<1> HIDE DEF a
<1>3. /\ IsSeq(u) /\ Len(u) = Len(s) + Len(a)
      /\ \A i \in 1..Len(s) : u[i] = s[i]
      /\ \A i \in 1..Len(a) : u[Len(s) + i] = a[i]
  BY <1>2, JoinFacts DEF a
<1>4. /\ \A i \in 1..Len(s) : (s \o t)[i] = s[i]
      /\ \A i \in 1..Len(t) : (s \o t)[Len(s) + i] = t[i]
  BY JoinFacts
<1> HIDE DEF u
<1>5. Len(a) = Len(t) + 1 /\ a[Len(t) + 1] = x /\ \A i \in 1..Len(t) : a[i] = t[i]
  BY <1>2 DEF a
<1>6. ASSUME NEW i \in 1..Len(s \o t)
      PROVE  u[i] = (s \o t)[i]
  <2>1. CASE i \in 1..Len(s)
    BY <1>3, <1>4, <2>1
  <2>2. CASE i \notin 1..Len(s)
    <3>1. i - Len(s) \in 1..Len(t) /\ i - Len(s) \in 1..Len(a) /\ Len(s) + (i - Len(s)) = i
      BY <1>1, <1>5, <2>2
    <3> QED BY <1>3, <1>4, <1>5, <3>1
  <2> QED BY <2>1, <2>2
<1>7. /\ Len(t) + 1 \in 1..Len(a) /\ Len(s) + (Len(t) + 1) = Len(s \o t) + 1
      /\ Len(u) = Len(s \o t) + 1
  BY <1>1, <1>3, <1>5
<1>8. u[Len(s \o t) + 1] = x
  BY <1>3, <1>5, <1>7
<1>9. u = Append(s \o t, x)
  BY <1>1, <1>3, <1>6, <1>7, <1>8, OneMore
<1> QED BY <1>9 DEF u, a

(* The devices of a list.                                                  *)
Written(list) == [i \in DOMAIN list |-> DeviceWritten(list[i])]

LEMMA WrittenFirst ==
  ASSUME NEW list, IsSeq(list)
  PROVE  /\ Written(First(list, 0)) = <<>> /\ Written(First(list, Len(list))) = Written(list)
         /\ \A n \in 0..Len(list) : IsSeq(Written(First(list, n)))
         /\ \A n \in Nat : n + 1 <= Len(list) =>
              Written(First(list, n + 1)) =
                Append(Written(First(list, n)), DeviceWritten(list[n + 1]))
<1>1. Len(list) \in Nat
  BY SeqFacts
<1>2. ASSUME NEW n \in 0..Len(list)
      PROVE  /\ IsSeq(Written(First(list, n))) /\ Len(Written(First(list, n))) = n
             /\ \A i \in 1..n : Written(First(list, n))[i] = DeviceWritten(list[i])
  <2> DEFINE w == Written(First(list, n))
  <2>1. n \in Nat /\ DOMAIN First(list, n) = 1..n /\ \A i \in 1..n : First(list, n)[i] = list[i]
    BY <1>1, FirstFacts
  <2>2. w = [i \in 1..n |-> DeviceWritten(First(list, n)[i])]
    BY <2>1 DEF Written
  <2>3. w = [i \in 1..n |-> w[i]] /\ \A i \in 1..n : w[i] = DeviceWritten(list[i])
    BY <2>1, <2>2
  <2> HIDE DEF w
  <2>4. IsSeq(w) /\ Len(w) = n
    BY <2>1, <2>3, Listed
  <2> QED BY <2>3, <2>4 DEF w
<1>3. Written(First(list, 0)) = <<>>
  <2>1. 0 \in 0..Len(list) /\ \A i \in 1..0 : FALSE
    BY <1>1
  <2> QED BY <1>2, <2>1, NoElements, SameElements
<1>4. ASSUME NEW n \in Nat, n + 1 <= Len(list)
      PROVE  Written(First(list, n + 1)) =
               Append(Written(First(list, n)), DeviceWritten(list[n + 1]))
  <2>1. /\ n \in 0..Len(list) /\ n + 1 \in 0..Len(list) /\ n + 1 \in 1..n + 1
        /\ \A i \in 1..n : i \in 1..n + 1
    BY <1>1, <1>4
  <2> DEFINE s == Written(First(list, n))
             t == Written(First(list, n + 1))
  <2>2. /\ IsSeq(s) /\ Len(s) = n /\ \A i \in 1..n : s[i] = DeviceWritten(list[i])
    BY <1>2, <2>1
  <2>3. /\ IsSeq(t) /\ Len(t) = n + 1 /\ \A i \in 1..n + 1 : t[i] = DeviceWritten(list[i])
    BY <1>2, <2>1
  <2> HIDE DEF s, t
  <2>4. t = Append(s, t[n + 1])
    BY <2>1, <2>2, <2>3, OneMore
  <2> QED BY <2>1, <2>3, <2>4 DEF s, t
<1>5. Written(First(list, Len(list))) = Written(list)
  BY FirstAll
<1> QED BY <1>2, <1>3, <1>4, <1>5

ItemTokens(device) == <<Token("BLOCK_ENTRY")>> \o DeviceTokens(device)

LEMMA DeviceIsInner ==
  ASSUME NEW device, IsDevice(device)
  PROVE  Inner(DeviceTokens(device)) /\ Inner(ItemTokens(device))
<1>1. Inner(Concat(Len(device), LAMBDA i : Pair(device[i].key, ValueTokens(device[i]))))
      /\ Inner(Fields(device, ValueTokens))
  BY FieldsAreSeq DEF IsDevice
<1>2. Inner(<<Token("BLOCK_ENTRY")>>)
  BY InnerOne DEF Token
<1>3. Inner(DeviceTokens(device))
  BY <1>1 DEF DeviceTokens
<1> QED BY <1>2, <1>3, InnerBoth DEF ItemTokens

(* The router that is open between two devices, behind others.             *)
OpenState(others, name, port, table, devices, k) ==
  State(Append(others, RouterRecord(name, port, table, devices)), Len(others) + 1, 0, k, "none")

LEMMA ItemRead ==
  ASSUME NEW others, IsSeq(others), NEW name, NEW port, NEW table, NEW ds, IsSeq(ds),
         NEW device, IsDevice(device), NEW k, NEW q,
         Reads("routers", OpenState(others, name, port, table, ds, k), ItemTokens(device), q)
  PROVE  \E key : q = OpenState(others, name, port, table, Append(ds, DeviceWritten(device)), key)
<1> DEFINE p == OpenState(others, name, port, table, ds, k)
<1>1. IsSeq(<<Token("BLOCK_ENTRY")>>) /\ IsSeq(DeviceTokens(device))
  BY OneElement, DeviceIsInner DEF Inner
<1>2. PICK a : /\ Reads("routers", p, <<Token("BLOCK_ENTRY")>>, a)
               /\ Reads("routers", a, DeviceTokens(device), q)
  BY <1>1, ReadsBoth DEF ItemTokens
<1>3. Moves("routers", p, Token("BLOCK_ENTRY"), a)
  BY <1>2, ReadsOne
<1>4. a = p
  <2>1. Token("BLOCK_ENTRY").type \notin {"KEY", "VALUE", "BLOCK_END"}
    BY DEF Token
  <2> QED BY <1>3, <2>1, Skips DEF OpenState
<1> QED BY <1>2, <1>4, DeviceRead DEF OpenState

IsList(list) == IsSeq(list) /\ \A i \in 1..Len(list) : IsDevice(list[i])

ItemsTokens(list) == FlattenSeq([i \in 1..Len(list) |-> ItemTokens(list[i])])

LEMMA ListTokens ==
  ASSUME NEW list
  PROVE  Items(list, DeviceTokens) =
           IF list = <<>> THEN <<Token("FLOW_SEQUENCE_START")>> \o <<Token("FLOW_SEQUENCE_END")>>
           ELSE Block("BLOCK_SEQUENCE_START", ItemsTokens(list))
<1>1. CASE list = <<>>
  BY <1>1, TwoElements DEF Items
<1>2. CASE list # <<>>
  BY <1>2 DEF Items, Concat, ItemTokens, ItemsTokens
<1> QED BY <1>1, <1>2

LEMMA ItemsParts ==
  ASSUME NEW list, IsList(list), NEW parts,
         parts = [i \in 1..Len(list) |-> ItemTokens(list[i])]
  PROVE  Parts(parts, Len(list)) /\ \A i \in 1..Len(list) : Inner(parts[i])
<1>1. \A i \in 1..Len(list) : parts[i] = ItemTokens(list[i]) /\ IsDevice(list[i])
  BY DEF IsList
<1>2. parts = [i \in 1..Len(list) |-> parts[i]]
  OBVIOUS
<1> QED BY <1>1, <1>2, DeviceIsInner DEF Parts, Inner

LEMMA ItemsAreInner ==
  ASSUME NEW list, IsList(list)
  PROVE  Inner(ItemsTokens(list)) /\ Inner(Items(list, DeviceTokens))
<1>1. Inner(ItemsTokens(list))
  <2> DEFINE parts == [i \in 1..Len(list) |-> ItemTokens(list[i])]
  <2>1. Len(list) \in Nat
    BY SeqFacts DEF IsList
  <2>2. Parts(parts, Len(list)) /\ \A i \in 1..Len(list) : Inner(parts[i])
    BY ItemsParts
  <2>3. ItemsTokens(list) = FlattenSeq(parts)
    BY DEF ItemsTokens
  <2> HIDE DEF parts
  <2> QED BY <2>1, <2>2, <2>3, InnerFlatten
<1>2. /\ Inner(<<Token("FLOW_SEQUENCE_START")>>) /\ Inner(<<Token("FLOW_SEQUENCE_END")>>)
  BY InnerOne DEF Token
<1>3. /\ Inner(<<Token("FLOW_SEQUENCE_START")>> \o <<Token("FLOW_SEQUENCE_END")>>)
      /\ Inner(Block("BLOCK_SEQUENCE_START", ItemsTokens(list)))
  BY <1>1, <1>2, InnerBoth, InnerBlock
<1> QED BY <1>1, <1>3, ListTokens

LEMMA ItemsRead ==
  ASSUME NEW others, IsSeq(others), NEW name, NEW port, NEW table, NEW ds, IsSeq(ds),
         NEW list, IsList(list), NEW k, NEW q,
         Reads("routers", OpenState(others, name, port, table, ds, k), ItemsTokens(list), q)
  PROVE  \E key : q = OpenState(others, name, port, table, ds \o Written(list), key)
<1> DEFINE N == Len(list)
           p == OpenState(others, name, port, table, ds, k)
           parts == [i \in 1..N |-> ItemTokens(list[i])]
           After(n, r) == \E key : r = OpenState(others, name, port, table,
                                                 ds \o Written(First(list, n)), key)
<1>1. N \in Nat /\ IsSeq(list)
  BY SeqFacts DEF IsList
<1>2. \A i \in 1..N : parts[i] = ItemTokens(list[i])
  OBVIOUS
<1>3. Parts(parts, N)
  BY ItemsParts
<1>4. Reads("routers", p, FlattenSeq(parts), q)
  BY DEF ItemsTokens
<1> HIDE DEF parts, p, N
<1>6. PICK g : /\ g[0] = p /\ g[N] = q
               /\ \A i \in 1..N : Reads("routers", g[i - 1], parts[i], g[i])
  <2>1. InParts("routers", p, parts, N, q)
    BY <1>1, <1>3, <1>4, ReadsParts
  <2> QED BY <2>1 DEF InParts
<1>7. After(0, g[0])
  BY <1>1, <1>6, WrittenFirst, JoinedNothing DEF p
<1> HIDE DEF After
<1>8. ASSUME NEW n \in Nat, n + 1 <= N, After(n, g[n])
      PROVE  After(n + 1, g[n + 1])
  <2>1. n + 1 \in 1..N /\ (n + 1) - 1 = n /\ n \in 0..N
    BY <1>1, <1>8
  <2>2. Reads("routers", g[n], ItemTokens(list[n + 1]), g[n + 1])
    BY <1>2, <1>6, <2>1
  <2> DEFINE w == Written(First(list, n))
  <2>3. IsSeq(w) /\ IsSeq(ds \o w) /\ IsDevice(list[n + 1])
    BY <1>1, <2>1, WrittenFirst, JoinFacts DEF IsList, N
  <2>4. PICK a : g[n] = OpenState(others, name, port, table, ds \o w, a)
    BY <1>8 DEF After
  <2>5. Written(First(list, n + 1)) = Append(w, DeviceWritten(list[n + 1]))
    BY <1>1, <1>8, WrittenFirst DEF N
  <2> HIDE DEF w
  <2>6. \E key : g[n + 1] = OpenState(others, name, port, table,
                                      Append(ds \o w, DeviceWritten(list[n + 1])), key)
    BY <2>2, <2>3, <2>4, ItemRead
  <2>7. ds \o Append(w, DeviceWritten(list[n + 1])) = Append(ds \o w, DeviceWritten(list[n + 1]))
    BY <2>3, AppendedLater
  <2> QED BY <2>5, <2>6, <2>7 DEF After
<1> DEFINE S == {n \in Nat : n <= N => After(n, g[n])}
<1>9. 0 \in S
  BY <1>7
<1>10. ASSUME NEW n \in Nat, n \in S
       PROVE  n + 1 \in S
  BY <1>1, <1>8, <1>10
<1> HIDE DEF S
<1>11. N \in S
  BY <1>1, <1>9, <1>10, Induction
<1>12. After(N, q)
  BY <1>1, <1>6, <1>11 DEF S
<1> QED BY <1>1, <1>12, WrittenFirst DEF After, N

(* A list is read as it is written, behind the devices that its router has *)
(* got.  Only an empty one leaves the router open.                         *)
LEMMA ListRead ==
  ASSUME NEW rs, NEW r, NEW others, NEW name, NEW port, NEW table, NEW ds, IsSeq(ds),
         Fills(rs, r, others, RouterRecord(name, port, table, ds)),
         NEW k, NEW list, IsList(list), NEW q,
         Reads("routers", State(rs, r, 0, k, "value"), Items(list, DeviceTokens), q)
  PROVE  /\ k \notin DOMAIN NewDevice
         /\ \E s \in {0, Len(others) + 1} : \E key :
              q = State(Append(others, RouterRecord(name, port, table, ds \o Written(list))),
                        s, 0, key, "none")
<1> DEFINE x == RouterRecord(name, port, table, ds)
           p == State(rs, r, 0, k, "value")
           o == OpenState(others, name, port, table, ds, Null)
           N == Len(others) + 1
<1>1. ASSUME NEW type, type # "SCALAR", NEW a, Moves("routers", p, Token(type), a)
      PROVE  k \notin DOMAIN NewDevice /\ a = o
  BY <1>1, ReadsNoValue DEF OpenState
<1>2. CASE list = <<>>
  <2>1. IsSeq(<<Token("FLOW_SEQUENCE_START")>>) /\ IsSeq(<<Token("FLOW_SEQUENCE_END")>>)
    BY OneElement
  <2>2. PICK a : /\ Reads("routers", p, <<Token("FLOW_SEQUENCE_START")>>, a)
                 /\ Reads("routers", a, <<Token("FLOW_SEQUENCE_END")>>, q)
    BY <1>2, <2>1, ListTokens, ReadsBoth
  <2> HIDE DEF p, o
  <2>3. k \notin DOMAIN NewDevice /\ a = o
    BY <1>1, <2>2, ReadsOne
  <2>4. q = o
    <3>1. Moves("routers", o, Token("FLOW_SEQUENCE_END"), q)
      BY <2>2, <2>3, ReadsOne
    <3>2. Token("FLOW_SEQUENCE_END").type \notin {"KEY", "VALUE", "BLOCK_END"}
      BY DEF Token
    <3> QED BY <3>1, <3>2, Skips DEF o, OpenState
  <2>5. ds \o Written(list) = ds
    <3>1. Written(list) = <<>>
      BY <1>2, WrittenFirst, NoElements, FirstAll
    <3> QED BY <3>1, JoinedNothing
  <2> QED BY <2>3, <2>4, <2>5 DEF o, OpenState
<1>3. CASE list # <<>>
  <2>1. PICK a, b : /\ Moves("routers", p, Token("BLOCK_SEQUENCE_START"), a)
                    /\ Reads("routers", a, ItemsTokens(list), b)
                    /\ Moves("routers", b, Token("BLOCK_END"), q)
    <3>1. IsSeq(ItemsTokens(list))
      BY ItemsAreInner DEF Inner
    <3> QED BY <1>3, <3>1, ListTokens, ReadsBlock
  <2> HIDE DEF p, o
  <2>2. k \notin DOMAIN NewDevice /\ a = o
    BY <1>1, <2>1
  <2>3. PICK key : b = OpenState(others, name, port, table, ds \o Written(list), key)
    <3>1. IsSeq(others)
      BY DEF Fills
    <3> QED BY <2>1, <2>2, <3>1, ItemsRead DEF o
  <2>4. q = State(Append(others, RouterRecord(name, port, table, ds \o Written(list))),
                  0, 0, key, "none")
    BY <2>1, <2>3, ReadsBlockEnd DEF OpenState
  <2> QED BY <2>2, <2>4
<1> QED BY <1>2, <1>3

-----------------------------------------------------------------------------
(* The routers' file: the fields of a router.                              *)

IsRecord(x) ==
  \E name, port, table, devices :
    IsSeq(devices) /\ x = RouterRecord(name, port, table, devices)

WithDevices(x, devices) == [x EXCEPT !.devices = @ \o devices]

IsField(f) == "list" \in DOMAIN f => IsList(f.list)

(* What a field adds to the devices.                                       *)
FieldDevices(f) == IF "list" \in DOMAIN f THEN Written(f.list) ELSE <<>>

LEMMA FieldDevicesAreSeq ==
  ASSUME NEW f, IsField(f)
  PROVE  IsSeq(FieldDevices(f))
<1>1. ASSUME NEW list, IsList(list)
      PROVE  IsSeq(Written(list))
  <2>1. IsSeq(list) /\ Len(list) \in 0..Len(list)
    BY <1>1, SeqFacts DEF IsList
  <2> QED BY <2>1, WrittenFirst
<1> QED BY <1>1, NoElements DEF FieldDevices, IsField

LEMMA RecordFacts ==
  ASSUME NEW x, IsRecord(x)
  PROVE  /\ IsSeq(x.devices)
         /\ \A k, v : IsRecord(Filled(x, k, v)) /\ Filled(x, k, v).devices = x.devices
         /\ \A w : IsSeq(w) => /\ IsRecord(WithDevices(x, w))
                               /\ WithDevices(x, w).devices = x.devices \o w
<1>1. PICK name, port, table, ds : IsSeq(ds) /\ x = RouterRecord(name, port, table, ds)
  BY DEF IsRecord
<1>2. ASSUME NEW a, NEW b, NEW c, NEW d, IsSeq(d)
      PROVE  IsRecord(RouterRecord(a, b, c, d)) /\ RouterRecord(a, b, c, d).devices = d
  <2>1. RouterRecord(a, b, c, d).devices = d
    BY DEF RouterRecord
  <2> QED BY <1>2, <2>1 DEF IsRecord
<1>3. ASSUME NEW k, NEW v
      PROVE  IsRecord(Filled(x, k, v)) /\ Filled(x, k, v).devices = x.devices
  <2>1. CASE k = "name"
    <3>1. ASSUME NEW y, y = [x EXCEPT !.name = v, !.table = v]
          PROVE  y = RouterRecord(v, port, v, ds)
      BY <1>1, <3>1 DEF RouterRecord
    <3>2. Filled(x, k, v) = RouterRecord(v, port, v, ds)
      BY <2>1, <3>1 DEF Filled
    <3> QED BY <1>1, <1>2, <3>2
  <2>2. CASE k = "port"
    <3>1. ASSUME NEW y, y = [x EXCEPT !.port = v]
          PROVE  y = RouterRecord(name, v, table, ds)
      BY <1>1, <3>1 DEF RouterRecord
    <3>2. Filled(x, k, v) = RouterRecord(name, v, table, ds)
      BY <2>2, <3>1 DEF Filled
    <3> QED BY <1>1, <1>2, <3>2
  <2>3. CASE k \notin {"name", "port"}
    BY <2>3 DEF Filled
  <2> QED BY <2>1, <2>2, <2>3
<1>4. ASSUME NEW w, IsSeq(w)
      PROVE  IsRecord(WithDevices(x, w)) /\ WithDevices(x, w).devices = x.devices \o w
  <2>1. ASSUME NEW y, y = [x EXCEPT !.devices = @ \o w]
        PROVE  y = RouterRecord(name, port, table, ds \o w)
    BY <1>1, <2>1 DEF RouterRecord
  <2>2. WithDevices(x, w) = RouterRecord(name, port, table, ds \o w)
    BY <2>1 DEF WithDevices
  <2>3. IsSeq(ds \o w)
    BY <1>1, <1>4, JoinFacts
  <2>4. x.devices = ds
    BY <1>1, <1>2
  <2> DEFINE e == ds \o w
  <2>5. IsSeq(e) /\ WithDevices(x, w) = RouterRecord(name, port, table, e)
    BY <2>2, <2>3
  <2>6. e = x.devices \o w
    BY <2>4
  <2> HIDE DEF e
  <2>7. IsRecord(RouterRecord(name, port, table, e))
        /\ RouterRecord(name, port, table, e).devices = e
    BY <1>2, <2>5
  <2> QED BY <2>5, <2>6, <2>7
<1> QED BY <1>1, <1>2, <1>3, <1>4

(* The list of a field goes to the open router, its value to where the key *)
(* says; without either the parser waits for the value.                    *)
LEMMA FieldRead ==
  ASSUME NEW rs, NEW r, NEW others, NEW x, IsRecord(x), Fills(rs, r, others, x),
         NEW k, k \notin DOMAIN NewDevice, NEW f, IsField(f), NEW q,
         Reads("routers", State(rs, r, 0, k, "value"), FieldTokens(f), q)
  PROVE  \/ /\ "list" \in DOMAIN f
            /\ \E s \in {0, Len(others) + 1} : \E key :
                 q = State(Append(others, WithDevices(x, Written(f.list))), s, 0, key, "none")
         \/ /\ "list" \notin DOMAIN f /\ "value" \in DOMAIN f
            /\ q = State(Append(others, Filled(x, k, f.value)), Len(others) + 1, 0, Null, "none")
         \/ /\ "list" \notin DOMAIN f /\ "value" \notin DOMAIN f
            /\ q = State(rs, r, 0, k, "value")
<1>1. PICK name, port, table, ds : IsSeq(ds) /\ x = RouterRecord(name, port, table, ds)
  BY DEF IsRecord
<1>2. CASE "list" \in DOMAIN f
  <2>1. \A w : WithDevices(x, w) = RouterRecord(name, port, table, ds \o w)
    <3>1. ASSUME NEW w, NEW y, y = [x EXCEPT !.devices = @ \o w]
          PROVE  y = RouterRecord(name, port, table, ds \o w)
      BY <1>1, <3>1 DEF RouterRecord
    <3> QED BY <3>1 DEF WithDevices
  <2>2. Reads("routers", State(rs, r, 0, k, "value"), Items(f.list, DeviceTokens), q)
    BY <1>2 DEF FieldTokens
  <2>3. \E s \in {0, Len(others) + 1} : \E key :
          q = State(Append(others, RouterRecord(name, port, table, ds \o Written(f.list))),
                    s, 0, key, "none")
    BY <1>1, <1>2, <2>2, ListRead DEF IsField
  <2> QED BY <1>2, <2>1, <2>3
<1>3. CASE "list" \notin DOMAIN f /\ "value" \in DOMAIN f
  <2>1. Moves("routers", State(rs, r, 0, k, "value"), Scalar(f.value), q)
    BY <1>3, ReadsOne DEF FieldTokens, ValueTokens
  <2>2. q = State(Append(others, Filled(x, k, f.value)), Len(others) + 1, 0, Null, "none")
    BY <1>1, <2>1, ReadsRouterValue
  <2> QED BY <1>3, <2>2
<1>4. CASE "list" \notin DOMAIN f /\ "value" \notin DOMAIN f
  <2>1. q = State(rs, r, 0, k, "value")
    BY <1>4, ReadsNothing DEF FieldTokens, ValueTokens
  <2> QED BY <1>4, <2>1
<1> QED BY <1>2, <1>3, <1>4

LEMMA FieldIsInner ==
  ASSUME NEW f, IsField(f)
  PROVE  Inner(FieldTokens(f)) /\ Inner(Pair(f.key, FieldTokens(f)))
<1>1. Inner(FieldTokens(f))
  <2>1. Inner(ValueTokens(f))
    BY InnerNothing, InnerOne DEF ValueTokens, Scalar
  <2>2. CASE "list" \in DOMAIN f
    BY <2>2, ItemsAreInner DEF FieldTokens, IsField
  <2>3. CASE "list" \notin DOMAIN f
    BY <2>1, <2>3 DEF FieldTokens
  <2> QED BY <2>2, <2>3
<1> QED BY <1>1, InnerPair

IsFields(router) == IsMapping(router) /\ \A i \in 1..Len(router) : IsField(router[i])

LEMMA RouterFacts ==
  ASSUME NEW router, IsRouter(router)
  PROVE  /\ IsFields(router) /\ IsSeq(router) /\ Len(router) \in Nat /\ Len(router) > 0
         /\ \A i \in 1..Len(router) :
              /\ router[i].key \notin DOMAIN NewDevice
              /\ "list" \in DOMAIN router[i] => router[i].key = "devices"
              /\ router[i].key \in {"name", "port", "devices"} \/ "value" \in DOMAIN router[i]
         /\ \A i, j \in 1..Len(router) :
              "list" \in DOMAIN router[i] /\ "list" \in DOMAIN router[j] => i = j
<1>1. /\ IsMapping(router) /\ IsSeq(router) /\ Len(router) \in Nat
      /\ DOMAIN router = 1..Len(router)
      /\ \A i, j \in 1..Len(router) : router[i].key = router[j].key => i = j
  BY MappingFacts DEF IsRouter
<1>2. Len(router) > 0
  <2>1. router # <<>>
    BY DEF IsRouter
  <2>2. Len(router) # 0
    BY <1>1, <2>1, NoElements, SameElements
  <2> QED BY <1>1, <2>2
<1>3. ASSUME NEW i \in 1..Len(router)
      PROVE  /\ router[i].key \notin DOMAIN NewDevice
             /\ "list" \in DOMAIN router[i] => router[i].key = "devices"
             /\ router[i].key \in {"name", "port", "devices"} \/ "value" \in DOMAIN router[i]
             /\ IsField(router[i])
  <2>1. router[i].key \in Keys(router)
    BY <1>1 DEF Keys
  <2>2. router[i].key \notin DOMAIN NewDevice
    BY <2>1 DEF IsRouter
  <2>3. "list" \in DOMAIN router[i] =>
          /\ router[i].key = "devices"
          /\ router[i].list \in Seq(Range(router[i].list))
          /\ \A j \in DOMAIN router[i].list : IsDevice(router[i].list[j])
    BY <1>1 DEF IsRouter
  <2>4. router[i].key \in {"name", "port", "devices"} \/ "value" \in DOMAIN router[i]
    BY <1>1 DEF IsRouter, Known
  <2>5. ASSUME NEW list, list \in Seq(Range(list)), \A j \in DOMAIN list : IsDevice(list[j])
        PROVE  IsList(list)
    BY <2>5, SeqFacts DEF IsList, IsSeq
  <2>6. IsField(router[i])
    BY <2>3, <2>5 DEF IsField
  <2> QED BY <2>2, <2>3, <2>4, <2>6
<1> QED BY <1>1, <1>2, <1>3 DEF IsFields

LEMMA DevicesFirst ==
  ASSUME NEW router, IsRouter(router)
  PROVE  /\ DevicesWritten(First(router, 0)) = <<>>
         /\ DevicesWritten(First(router, Len(router))) = DevicesWritten(router)
         /\ \A n \in 0..Len(router) : IsSeq(DevicesWritten(First(router, n)))
         /\ \A n \in Nat : n + 1 <= Len(router) =>
              /\ DevicesWritten(First(router, n + 1)) =
                   DevicesWritten(First(router, n)) \o FieldDevices(router[n + 1])
              /\ "list" \in DOMAIN router[n + 1] => DevicesWritten(First(router, n)) = <<>>
<1> DEFINE D(n) == DevicesWritten(First(router, n))
<1>1. /\ IsSeq(router) /\ Len(router) \in Nat /\ \A i \in 1..Len(router) : IsField(router[i])
      /\ \A i, j \in 1..Len(router) :
           "list" \in DOMAIN router[i] /\ "list" \in DOMAIN router[j] => i = j
  BY RouterFacts DEF IsFields
<1>2. ASSUME NEW n \in 0..Len(router)
      PROVE  /\ n \in Nat /\ DOMAIN First(router, n) = 1..n
             /\ \A i \in 1..n : First(router, n)[i] = router[i] /\ i \in 1..Len(router)
  BY <1>1, FirstFacts
<1>3. ASSUME NEW list
      PROVE  Written(list) = [i \in DOMAIN list |-> DeviceWritten(list[i])]
  BY DEF Written
<1>4. ASSUME NEW n \in 0..Len(router), NEW i \in 1..n, "list" \in DOMAIN router[i]
      PROVE  D(n) = Written(router[i].list)
  <2> DEFINE t == First(router, n)
  <2>1. /\ DOMAIN t = 1..n /\ \A j \in 1..n : t[j] = router[j]
        /\ \A j \in 1..n : "list" \in DOMAIN router[j] => j = i
    BY <1>1, <1>2, <1>4
  <2> HIDE DEF t
  <2>2. (CHOOSE j \in DOMAIN t : "list" \in DOMAIN t[j]) = i
    BY <1>4, <2>1
  <2>3. DevicesOf(t) = router[i].list
    BY <1>4, <2>1, <2>2 DEF DevicesOf
  <2> QED BY <2>3 DEF DevicesWritten, Written, t
<1>5. ASSUME NEW n \in 0..Len(router), \A i \in 1..n : "list" \notin DOMAIN router[i]
      PROVE  D(n) = <<>>
  <2>1. DevicesOf(First(router, n)) = <<>>
    BY <1>2, <1>5 DEF DevicesOf
  <2>2. Written(<<>>) = <<>>
    BY NoElements, WrittenFirst, FirstAll
  <2> QED BY <2>1, <2>2 DEF DevicesWritten, Written
<1>6. D(0) = <<>>
  <2>1. 0 \in 0..Len(router) /\ \A i \in 1..0 : FALSE
    BY <1>1
  <2> QED BY <1>5, <2>1
<1>7. D(Len(router)) = DevicesWritten(router)
  BY <1>1, FirstAll
<1>8. ASSUME NEW n \in 0..Len(router)
      PROVE  IsSeq(D(n))
  <2>1. CASE \E i \in 1..n : "list" \in DOMAIN router[i]
    <3>1. PICK i \in 1..n : "list" \in DOMAIN router[i]
      BY <2>1
    <3>2. D(n) = FieldDevices(router[i])
      BY <1>4, <3>1 DEF FieldDevices
    <3> HIDE DEF D
    <3> QED BY <1>1, <1>2, <3>2, FieldDevicesAreSeq
  <2>2. CASE \A i \in 1..n : "list" \notin DOMAIN router[i]
    BY <1>5, <2>2, NoElements
  <2> QED BY <2>1, <2>2
<1>9. ASSUME NEW n \in Nat, n + 1 <= Len(router)
      PROVE  /\ D(n + 1) = D(n) \o FieldDevices(router[n + 1])
             /\ "list" \in DOMAIN router[n + 1] => D(n) = <<>>
  <2>1. /\ n \in 0..Len(router) /\ n + 1 \in 0..Len(router) /\ n + 1 \in 1..n + 1
        /\ \A i \in 1..n : i \in 1..n + 1 /\ i # n + 1
        /\ \A i \in 1..n + 1 : i \in 1..Len(router) /\ (i = n + 1 \/ i \in 1..n)
    BY <1>1, <1>9
  <2>2. CASE "list" \in DOMAIN router[n + 1]
    <3>1. \A i \in 1..n : "list" \notin DOMAIN router[i]
      BY <1>1, <2>1, <2>2
    <3>2. D(n) = <<>>
      BY <1>5, <2>1, <3>1
    <3>3. D(n + 1) = FieldDevices(router[n + 1])
      BY <1>4, <2>1, <2>2 DEF FieldDevices
    <3>4. IsSeq(FieldDevices(router[n + 1]))
      BY <1>1, <2>1, FieldDevicesAreSeq
    <3> HIDE DEF D
    <3> QED BY <3>2, <3>3, <3>4, JoinedNothing
  <2>3. CASE "list" \notin DOMAIN router[n + 1]
    <3>1. FieldDevices(router[n + 1]) = <<>>
      BY <2>3 DEF FieldDevices
    <3>2. D(n + 1) = D(n)
      <4>1. CASE \E i \in 1..n : "list" \in DOMAIN router[i]
        <5>1. PICK i \in 1..n : "list" \in DOMAIN router[i]
          BY <4>1
        <5>2. D(n) = Written(router[i].list) /\ D(n + 1) = Written(router[i].list)
          BY <1>4, <2>1, <5>1
        <5> HIDE DEF D
        <5> QED BY <5>2
      <4>2. CASE \A i \in 1..n : "list" \notin DOMAIN router[i]
        <5>1. \A i \in 1..n + 1 : "list" \notin DOMAIN router[i]
          BY <2>1, <2>3, <4>2
        <5>2. D(n) = <<>> /\ D(n + 1) = <<>>
          BY <1>5, <2>1, <4>2, <5>1
        <5> HIDE DEF D
        <5> QED BY <5>2
      <4> QED BY <4>1, <4>2
    <3>3. IsSeq(D(n))
      BY <1>8, <2>1
    <3> HIDE DEF D
    <3> QED BY <2>3, <3>1, <3>2, <3>3, JoinedNothing
  <2> QED BY <2>2, <2>3
<1> HIDE DEF D
<1>10. /\ D(0) = <<>> /\ D(Len(router)) = DevicesWritten(router)
       /\ \A n \in 0..Len(router) : IsSeq(D(n))
       /\ \A n \in Nat : n + 1 <= Len(router) =>
            /\ D(n + 1) = D(n) \o FieldDevices(router[n + 1])
            /\ "list" \in DOMAIN router[n + 1] => D(n) = <<>>
  BY <1>6, <1>7, <1>8, <1>9
<1> QED BY <1>10 DEF D

-----------------------------------------------------------------------------
(* No device is lost: keys in any order.                                   *)

LEMMA AllOfNothing == AllOf(<<>>) = <<>>
<1> DEFINE parts == [i \in 1..0 |-> <<>>[i].devices]
<1>1. parts = [i \in 1..0 |-> parts[i]] /\ Len(<<>>) = 0
  OBVIOUS
<1>2. AllOf(<<>>) = FlattenSeq(parts)
  BY <1>1 DEF AllOf, Concat
<1> HIDE DEF parts
<1>3. IsSeq(parts) /\ Len(parts) = 0
  BY <1>1, Listed
<1>4. parts = <<>>
  BY <1>3, NoElements, SameElements
<1> QED BY <1>2, <1>4, FlattenNothing

LEMMA AllOfMore ==
  ASSUME NEW s, IsSeq(s), NEW x, IsSeq(x.devices)
  PROVE  AllOf(Append(s, x)) = AllOf(s) \o x.devices
<1> DEFINE n == Len(s)
           a == Append(s, x)
           before == [i \in 1..n |-> s[i].devices]
           after == [i \in 1..n + 1 |-> a[i].devices]
<1>1. /\ n \in Nat /\ Len(a) = n + 1 /\ a[n + 1] = x
      /\ \A i \in 1..n : a[i] = s[i]
  BY LastReplaced
<1>2. AllOf(a) = FlattenSeq(after) /\ AllOf(s) = FlattenSeq(before)
  BY <1>1 DEF AllOf, Concat
<1> HIDE DEF a, n
<1>3. /\ \A i \in 1..n : i \in 1..n + 1
      /\ n + 1 \in 1..n + 1
  BY <1>1
<1>4. /\ before = [i \in 1..n |-> after[i]] /\ after = [i \in 1..n + 1 |-> after[i]]
      /\ after[n + 1] = x.devices
  BY <1>1, <1>3
<1> HIDE DEF before, after
<1>5. FlattenSeq(after) = FlattenSeq(before) \o after[n + 1]
  BY <1>1, <1>4, FlattenMore
<1> QED BY <1>2, <1>4, <1>5 DEF a

LEMMA NewRouterIsRecord == IsRecord(NewRouter) /\ NewRouter.devices = <<>>
<1>1. NewRouter = RouterRecord(Null, Unset, Unset, <<>>)
  BY DEF NewRouter, RouterRecord
<1> QED BY <1>1, NoElements DEF IsRecord, RouterRecord

LEMMA FillsFacts ==
  ASSUME NEW rs, NEW r, NEW others, NEW x, Fills(rs, r, others, x), IsRecord(x),
         IsSeq(AllOf(others))
  PROVE  /\ AllOf(rs) = AllOf(others) \o x.devices /\ IsSeq(AllOf(rs)) /\ IsSeq(rs)
         /\ Fills(rs, 0, rs, NewRouter)
<1>1. IsSeq(others) /\ IsSeq(x.devices)
  BY RecordFacts DEF Fills
<1>2. CASE rs = Append(others, x)
  <2>1. AllOf(rs) = AllOf(others) \o x.devices
    BY <1>1, <1>2, AllOfMore
  <2>2. IsSeq(rs) /\ IsSeq(AllOf(rs))
    BY <1>1, <1>2, <2>1, LastReplaced, JoinFacts
  <2> QED BY <2>1, <2>2 DEF Fills
<1>3. CASE rs = others /\ x = NewRouter
  <2>1. AllOf(others) \o x.devices = AllOf(others)
    BY <1>3, NewRouterIsRecord, JoinedNothing
  <2> QED BY <1>1, <1>3, <2>1 DEF Fills
<1> QED BY <1>2, <1>3 DEF Fills

(* Behind any number of fields the parser has the devices of all, and may  *)
(* wait for the value of a field without one.                              *)
Keeps(all, q, awaited) ==
  \E rs, r, others, x, k :
    /\ IsRecord(x) /\ IsSeq(AllOf(others)) /\ Fills(rs, r, others, x)
    /\ all = AllOf(others) \o x.devices
    /\ awaited = "value" => k \notin DOMAIN NewDevice
    /\ q = State(rs, r, 0, k, awaited)

(* The next token is not the value.                                        *)
LEMMA KeptOn ==
  ASSUME NEW all, NEW p, Keeps(all, p, "value"), NEW type, type # "SCALAR", NEW q,
         Moves("routers", p, Token(type), q)
  PROVE  Keeps(all, q, "none")
<1>1. PICK rs, r, others, x, k :
        /\ IsRecord(x) /\ IsSeq(AllOf(others)) /\ Fills(rs, r, others, x)
        /\ all = AllOf(others) \o x.devices
        /\ p = State(rs, r, 0, k, "value")
  BY DEF Keeps
<1>2. q = State(Append(others, x), Len(others) + 1, 0, Null, "none")
  BY <1>1, ReadsNoValue
<1>3. Fills(Append(others, x), Len(others) + 1, others, x)
  BY <1>1 DEF Fills
<1> QED BY <1>1, <1>2, <1>3 DEF Keeps

LEMMA KeptSkips ==
  ASSUME NEW all, NEW p, Keeps(all, p, "none"), NEW token,
         token.type \notin {"KEY", "VALUE", "BLOCK_END"}, NEW q, Moves("routers", p, token, q)
  PROVE  Keeps(all, q, "none")
<1>1. PICK rs, r, others, x, k :
        /\ IsRecord(x) /\ IsSeq(AllOf(others)) /\ Fills(rs, r, others, x)
        /\ all = AllOf(others) \o x.devices
        /\ p = State(rs, r, 0, k, "none")
  BY DEF Keeps
<1>2. q = State(rs, r, 0, k, "none")
  BY <1>1, Skips
<1> QED BY <1>1, <1>2 DEF Keeps

LEMMA KeptAtEnd ==
  ASSUME NEW all, NEW p, Keeps(all, p, "none"), NEW q,
         Moves("routers", p, Token("BLOCK_END"), q)
  PROVE  Keeps(all, q, "none")
<1>1. PICK rs, r, others, x, k :
        /\ IsRecord(x) /\ IsSeq(AllOf(others)) /\ Fills(rs, r, others, x)
        /\ all = AllOf(others) \o x.devices
        /\ p = State(rs, r, 0, k, "none")
  BY DEF Keeps
<1>2. q = State(rs, 0, 0, k, "none")
  BY <1>1, ReadsBlockEnd
<1>3. AllOf(rs) = all /\ IsSeq(AllOf(rs)) /\ Fills(rs, 0, rs, NewRouter)
  BY <1>1, FillsFacts
<1>4. all = AllOf(rs) \o NewRouter.devices
  BY <1>3, NewRouterIsRecord, JoinedNothing
<1> QED BY <1>2, <1>3, <1>4, NewRouterIsRecord DEF Keeps

(* A key without a value swallows the KEY behind it: the next key is never *)
(* assigned, and what has it for a key goes nowhere.                       *)
LEMMA KeptKey ==
  ASSUME NEW all, NEW awaited \in {"none", "value"}, NEW p, Keeps(all, p, awaited),
         NEW key, key \notin DOMAIN NewDevice, NEW a, NEW b, NEW q,
         Moves("routers", p, Token("KEY"), a), Moves("routers", a, Scalar(key), b),
         Moves("routers", b, Token("VALUE"), q)
  PROVE  Keeps(all, q, "value")
<1>1. CASE awaited = "none"
  <2>1. PICK rs, r, others, x, k :
          /\ IsRecord(x) /\ IsSeq(AllOf(others)) /\ Fills(rs, r, others, x)
          /\ all = AllOf(others) \o x.devices
          /\ p = State(rs, r, 0, k, "none")
    BY <1>1 DEF Keeps
  <2>2. q = State(rs, r, 0, key, "value")
    BY <2>1, ReadsKey
  <2> QED BY <2>1, <2>2 DEF Keeps
<1>2. CASE awaited = "value"
  <2>1. PICK rs, r, others, x, k :
          /\ IsRecord(x) /\ IsSeq(AllOf(others)) /\ Fills(rs, r, others, x)
          /\ all = AllOf(others) \o x.devices
          /\ p = State(rs, r, 0, k, "value")
    BY <1>2 DEF Keeps
  <2>2. a = State(Append(others, x), Len(others) + 1, 0, Null, "none")
    <3>1. "KEY" # "SCALAR"
      OBVIOUS
    <3> QED BY <2>1, <3>1, ReadsNoValue
  <2>3. b = a
    <3>1. Scalar(key).type \notin {"KEY", "VALUE", "BLOCK_END"}
      BY DEF Scalar
    <3> QED BY <2>2, <3>1, Skips
  <2>4. q = State(Append(others, x), Len(others) + 1, 0, Null, "value")
    BY <2>2, <2>3 DEF Moves, State, Token, ScanToken, Awaits
  <2>5. Null \notin DOMAIN NewDevice
    BY KeyAssumption DEF NewDevice
  <2>6. Fills(Append(others, x), Len(others) + 1, others, x)
    BY <2>1 DEF Fills
  <2> QED BY <2>1, <2>4, <2>5, <2>6 DEF Keeps
<1> QED BY <1>1, <1>2

FieldsTokens(router) ==
  FlattenSeq([i \in 1..Len(router) |-> Pair(router[i].key, FieldTokens(router[i]))])

LEMMA RouterIsInner ==
  ASSUME NEW router, IsFields(router)
  PROVE  /\ RouterTokens(router) = Block("BLOCK_MAPPING_START", FieldsTokens(router))
         /\ Inner(FieldsTokens(router)) /\ Inner(RouterTokens(router))
<1> DEFINE N == Len(router)
           parts == [i \in 1..N |-> Pair(router[i].key, FieldTokens(router[i]))]
<1>1. N \in Nat
  BY MappingFacts DEF IsFields
<1>2. \A i \in 1..N : parts[i] = Pair(router[i].key, FieldTokens(router[i])) /\ IsField(router[i])
  BY DEF IsFields
<1>3. parts = [i \in 1..N |-> parts[i]]
  OBVIOUS
<1>4. FieldsTokens(router) = FlattenSeq(parts)
  BY DEF FieldsTokens
<1>5. RouterTokens(router) = Block("BLOCK_MAPPING_START", FieldsTokens(router))
  BY DEF RouterTokens, Fields, Concat, FieldsTokens
<1> HIDE DEF parts
<1>6. \A i \in 1..N : Inner(parts[i])
  BY <1>2, FieldIsInner
<1>7. Parts(parts, N)
  BY <1>3, <1>6 DEF Parts, Inner
<1>8. Inner(FieldsTokens(router))
  BY <1>1, <1>4, <1>6, <1>7, InnerFlatten
<1>9. Inner(Block("BLOCK_MAPPING_START", FieldsTokens(router)))
  BY <1>8, InnerBlock
<1> QED BY <1>5, <1>8, <1>9

(* The states between the fields.                                          *)
FieldByField(router, p, q, g) ==
  /\ g[0] = p /\ g[Len(router)] = q
  /\ \A n \in Nat : n + 1 <= Len(router) =>
       Reads("routers", g[n], Pair(router[n + 1].key, FieldTokens(router[n + 1])), g[n + 1])

LEMMA FieldsRead ==
  ASSUME NEW router, IsFields(router), NEW p, NEW q,
         Reads("routers", p, FieldsTokens(router), q)
  PROVE  \E g : FieldByField(router, p, q, g)
<1> DEFINE N == Len(router)
           parts == [i \in 1..N |-> Pair(router[i].key, FieldTokens(router[i]))]
<1>1. N \in Nat
  BY MappingFacts DEF IsFields
<1>2. \A i \in 1..N : parts[i] = Pair(router[i].key, FieldTokens(router[i])) /\ IsField(router[i])
  BY DEF IsFields
<1>3. parts = [i \in 1..N |-> parts[i]]
  OBVIOUS
<1>4. FieldsTokens(router) = FlattenSeq(parts)
  BY DEF FieldsTokens
<1> HIDE DEF parts, N
<1>5. Parts(parts, N)
  <2>1. \A i \in 1..N : Inner(parts[i])
    BY <1>2, FieldIsInner
  <2> QED BY <1>3, <2>1 DEF Parts, Inner
<1>6. PICK g : /\ g[0] = p /\ g[N] = q
               /\ \A i \in 1..N : Reads("routers", g[i - 1], parts[i], g[i])
  <2>1. InParts("routers", p, parts, N, q)
    BY <1>1, <1>4, <1>5, ReadsParts
  <2> QED BY <2>1 DEF InParts
<1>7. ASSUME NEW n \in Nat, n + 1 <= N
      PROVE  Reads("routers", g[n], Pair(router[n + 1].key, FieldTokens(router[n + 1])), g[n + 1])
  <2>1. n + 1 \in 1..N /\ (n + 1) - 1 = n
    BY <1>1, <1>7
  <2> QED BY <1>2, <1>6, <2>1
<1> QED BY <1>6, <1>7 DEF N, FieldByField

LEMMA KeptField ==
  ASSUME NEW all, IsSeq(all), NEW awaited \in {"none", "value"}, NEW p, Keeps(all, p, awaited),
         NEW f, IsField(f), f.key \notin DOMAIN NewDevice, NEW q,
         Reads("routers", p, Pair(f.key, FieldTokens(f)), q)
  PROVE  \E b \in {"none", "value"} : Keeps(all \o FieldDevices(f), q, b)
<1>1. IsSeq(FieldTokens(f))
  BY FieldIsInner DEF Inner
<1>2. PICK a, b, c : /\ Moves("routers", p, Token("KEY"), a) /\ Moves("routers", a, Scalar(f.key), b)
                     /\ Moves("routers", b, Token("VALUE"), c)
                     /\ Reads("routers", c, FieldTokens(f), q)
  BY <1>1, ReadsPair
<1>3. Keeps(all, c, "value")
  BY <1>2, KeptKey
<1>4. PICK rs, r, others, x, k :
        /\ IsRecord(x) /\ IsSeq(AllOf(others)) /\ Fills(rs, r, others, x)
        /\ all = AllOf(others) \o x.devices /\ k \notin DOMAIN NewDevice
        /\ c = State(rs, r, 0, k, "value")
  BY <1>3 DEF Keeps
<1> DEFINE N == Len(others) + 1
<1>5. ASSUME NEW y, IsRecord(y), NEW s \in {0, N}, NEW key, NEW w, IsSeq(w),
             y.devices = x.devices \o w,
             q = State(Append(others, y), s, 0, key, "none")
      PROVE  Keeps(all \o w, q, "none")
  <2>1. IsSeq(others) /\ IsSeq(x.devices)
    BY <1>4, RecordFacts DEF Fills
  <2>2. all \o w = AllOf(others) \o y.devices
    <3> DEFINE before == AllOf(others)
               ds == x.devices
    <3>1. IsSeq(before) /\ IsSeq(ds) /\ IsSeq(w)
      BY <1>4, <1>5, <2>1
    <3>2. all = before \o ds /\ y.devices = ds \o w
      BY <1>4, <1>5
    <3> HIDE DEF before, ds
    <3>3. (before \o ds) \o w = before \o (ds \o w)
      BY <3>1, JoinedTwice
    <3>4. all \o w = before \o y.devices
      BY <3>2, <3>3
    <3> QED BY <3>4 DEF before
  <2>3. Fills(Append(others, y), N, others, y)
    BY <2>1 DEF Fills
  <2>4. CASE s = N
    BY <1>4, <1>5, <2>2, <2>3, <2>4 DEF Keeps
  <2>5. CASE s = 0
    <3> DEFINE t == Append(others, y)
    <3> HIDE DEF t
    <3>1. /\ AllOf(t) = AllOf(others) \o y.devices /\ IsSeq(AllOf(t))
          /\ Fills(t, 0, t, NewRouter)
      <4>1. Fills(t, N, others, y) /\ IsRecord(y) /\ IsSeq(AllOf(others))
        BY <1>4, <1>5, <2>3 DEF t
      <4> HIDE DEF N
      <4> QED BY <4>1, FillsFacts
    <3>2. all \o w = AllOf(t) \o NewRouter.devices
      BY <2>2, <3>1, NewRouterIsRecord, JoinedNothing
    <3>3. q = State(t, 0, 0, key, "none")
      BY <1>5, <2>5 DEF t
    <3> QED BY <3>1, <3>2, <3>3, NewRouterIsRecord DEF Keeps
  <2> QED BY <2>4, <2>5
<1>6. CASE "list" \in DOMAIN f
  <2>1. PICK s \in {0, N} : \E key :
          q = State(Append(others, WithDevices(x, Written(f.list))), s, 0, key, "none")
    BY <1>2, <1>4, <1>6, FieldRead
  <2>2. FieldDevices(f) = Written(f.list) /\ IsSeq(Written(f.list))
    BY <1>6, FieldDevicesAreSeq DEF FieldDevices
  <2> DEFINE w == Written(f.list)
             y == WithDevices(x, w)
  <2>3. PICK key : q = State(Append(others, y), s, 0, key, "none")
    BY <2>1
  <2> HIDE DEF w
  <2>4. IsSeq(w) /\ IsRecord(y) /\ y.devices = x.devices \o w
    BY <1>4, <2>2, RecordFacts DEF w
  <2> HIDE DEF y
  <2>5. Keeps(all \o w, q, "none")
    BY <1>5, <2>3, <2>4
  <2> QED BY <2>2, <2>5 DEF w
<1>7. CASE "list" \notin DOMAIN f
  <2>1. FieldDevices(f) = <<>> /\ all \o <<>> = all
    BY <1>7, JoinedNothing DEF FieldDevices
  <2>2. CASE "value" \in DOMAIN f
    <3> DEFINE y == Filled(x, k, f.value)
    <3>1. q = State(Append(others, y), N, 0, Null, "none")
      BY <1>2, <1>4, <1>7, <2>2, FieldRead
    <3>2. IsRecord(y) /\ y.devices = x.devices \o <<>>
      <4>1. IsRecord(y) /\ y.devices = x.devices /\ IsSeq(x.devices)
        BY <1>4, RecordFacts
      <4> HIDE DEF y
      <4> QED BY <4>1, JoinedNothing
    <3> HIDE DEF y
    <3>3. Keeps(all \o <<>>, q, "none")
      BY <1>5, <3>1, <3>2, NoElements
    <3> QED BY <2>1, <3>3
  <2>3. CASE "value" \notin DOMAIN f
    <3>1. q = c
      BY <1>2, <1>4, <1>7, <2>3, FieldRead
    <3> QED BY <1>3, <2>1, <3>1
  <2> QED BY <2>2, <2>3
<1> QED BY <1>6, <1>7

LEMMA RouterKept ==
  ASSUME NEW all, IsSeq(all), NEW p, Keeps(all, p, "none"), NEW router, IsRouter(router), NEW q,
         Reads("routers", p, RouterTokens(router), q)
  PROVE  Keeps(all \o DevicesWritten(router), q, "none")
<1> DEFINE N == Len(router)
           D(n) == DevicesWritten(First(router, n))
           After(n, r) == \E b \in {"none", "value"} : Keeps(all \o D(n), r, b)
<1>1. /\ IsFields(router) /\ N \in Nat
      /\ \A i \in 1..N : IsField(router[i]) /\ router[i].key \notin DOMAIN NewDevice
  BY RouterFacts DEF IsFields
<1>2. PICK a, b : /\ Moves("routers", p, Token("BLOCK_MAPPING_START"), a)
                  /\ Reads("routers", a, FieldsTokens(router), b)
                  /\ Moves("routers", b, Token("BLOCK_END"), q)
  <2>1. IsSeq(FieldsTokens(router))
    BY <1>1, RouterIsInner DEF Inner
  <2> QED BY <1>1, <2>1, RouterIsInner, ReadsBlock
<1>3. Keeps(all, a, "none")
  <2>1. Token("BLOCK_MAPPING_START").type \notin {"KEY", "VALUE", "BLOCK_END"}
    BY DEF Token
  <2> QED BY <1>2, <2>1, KeptSkips
<1>4. PICK g : FieldByField(router, a, b, g)
  BY <1>1, <1>2, FieldsRead
<1>5. /\ D(0) = <<>> /\ D(N) = DevicesWritten(router)
      /\ \A n \in 0..N : IsSeq(D(n))
      /\ \A n \in Nat : n + 1 <= N => D(n + 1) = D(n) \o FieldDevices(router[n + 1])
  BY DevicesFirst
<1> HIDE DEF D
<1>6. After(0, g[0])
  BY <1>3, <1>4, <1>5, JoinedNothing DEF FieldByField
<1>7. ASSUME NEW n \in Nat, n + 1 <= N, After(n, g[n])
      PROVE  After(n + 1, g[n + 1])
  <2> DEFINE f == router[n + 1]
             d == all \o D(n)
  <2>1. n + 1 \in 1..N /\ n \in 0..N
    BY <1>1, <1>7
  <2>2. IsField(f) /\ f.key \notin DOMAIN NewDevice /\ IsSeq(FieldDevices(f))
    BY <1>1, <2>1, FieldDevicesAreSeq
  <2>3. IsSeq(d) /\ d \o FieldDevices(f) = all \o D(n + 1)
    <3>1. IsSeq(D(n)) /\ D(n + 1) = D(n) \o FieldDevices(f)
      BY <1>5, <1>7, <2>1
    <3>2. IsSeq(d)
      BY <3>1, JoinFacts
    <3>3. (all \o D(n)) \o FieldDevices(f) = all \o (D(n) \o FieldDevices(f))
      BY <2>2, <3>1, JoinedTwice
    <3> QED BY <3>1, <3>2, <3>3
  <2>4. Reads("routers", g[n], Pair(f.key, FieldTokens(f)), g[n + 1])
    BY <1>4, <1>7 DEF FieldByField
  <2>5. PICK e \in {"none", "value"} : Keeps(d, g[n], e)
    BY <1>7
  <2> HIDE DEF d, f
  <2>6. \E h \in {"none", "value"} : Keeps(d \o FieldDevices(f), g[n + 1], h)
    BY <2>2, <2>3, <2>4, <2>5, KeptField
  <2> QED BY <2>3, <2>6
<1> HIDE DEF After
<1> DEFINE S == {n \in Nat : n <= N => After(n, g[n])}
<1>8. 0 \in S
  BY <1>6
<1>9. ASSUME NEW n \in Nat, n \in S
      PROVE  n + 1 \in S
  BY <1>1, <1>7, <1>9
<1> HIDE DEF S
<1>10. N \in S
  BY <1>1, <1>8, <1>9, Induction
<1>11. After(N, b)
  BY <1>1, <1>4, <1>10 DEF S, FieldByField
<1>12. PICK e \in {"none", "value"} : Keeps(all \o DevicesWritten(router), b, e)
  BY <1>5, <1>11 DEF After
<1>13. CASE e = "none"
  BY <1>2, <1>12, <1>13, KeptAtEnd
<1>14. CASE e = "value"
  BY <1>2, <1>12, <1>14, KeptOn
<1> QED BY <1>13, <1>14

-----------------------------------------------------------------------------
(* What is read as it is written: keys in the expected order.              *)

LEMMA WithDevicesIs ==
  ASSUME NEW a, NEW b, NEW c, NEW d, NEW e
  PROVE  WithDevices(RouterRecord(a, b, c, d), e) = RouterRecord(a, b, c, d \o e)
<1>1. ASSUME NEW z, z = [RouterRecord(a, b, c, d) EXCEPT !.devices = @ \o e]
      PROVE  z = RouterRecord(a, b, c, d \o e)
  BY <1>1 DEF RouterRecord
<1> QED BY <1>1 DEF WithDevices

LEMMA RouterWrittenMore ==
  ASSUME NEW router, IsRouter(router), NEW n \in Nat, n + 1 <= Len(router)
  PROVE  LET f == router[n + 1]
             w == RouterWritten(First(router, n))
         IN /\ "list" \in DOMAIN f =>
                 RouterWritten(First(router, n + 1)) = WithDevices(w, Written(f.list))
            /\ "list" \notin DOMAIN f /\ "value" \in DOMAIN f =>
                 RouterWritten(First(router, n + 1)) = Filled(w, f.key, f.value)
<1> DEFINE f == router[n + 1]
           V(i, key, default) == ValueOf(First(router, i), key, default)
           D(i) == DevicesWritten(First(router, i))
           w == RouterWritten(First(router, n))
           y == RouterWritten(First(router, n + 1))
<1>1. /\ IsMapping(router) /\ n + 1 \in 1..Len(router) /\ n \in 0..Len(router)
      /\ "list" \in DOMAIN f => f.key = "devices"
  <2>1. IsMapping(router) /\ Len(router) \in Nat
    BY RouterFacts DEF IsFields
  <2>2. n + 1 \in 1..Len(router) /\ n \in 0..Len(router)
    BY <2>1
  <2> QED BY <2>1, <2>2, RouterFacts
<1>2. \A key, default : V(n + 1, key, default) = IF f.key = key THEN f.value ELSE V(n, key, default)
  BY <1>1, ValueOfMore
<1>3. D(n + 1) = D(n) \o FieldDevices(f) /\ IsSeq(D(n))
  BY <1>1, DevicesFirst
<1>4. /\ w = RouterRecord(V(n, "name", Null), V(n, "port", Unset), V(n, "name", Unset), D(n))
      /\ y = RouterRecord(V(n + 1, "name", Null), V(n + 1, "port", Unset),
                          V(n + 1, "name", Unset), D(n + 1))
  BY DEF RouterWritten, RouterRecord
<1> HIDE DEF V, D, w, y, f
<1>5. CASE "list" \in DOMAIN f
  <2>1. /\ V(n + 1, "name", Null) = V(n, "name", Null)
        /\ V(n + 1, "port", Unset) = V(n, "port", Unset)
        /\ V(n + 1, "name", Unset) = V(n, "name", Unset)
    <3>1. f.key # "name" /\ f.key # "port"
      BY <1>1, <1>5 DEF f
    <3> QED BY <1>2, <3>1
  <2>2. D(n + 1) = D(n) \o Written(f.list)
    BY <1>3, <1>5 DEF FieldDevices
  <2> DEFINE d == D(n)
             e == Written(f.list)
             t == d \o e
  <2>4. WithDevices(w, e) = RouterRecord(V(n, "name", Null), V(n, "port", Unset),
                                         V(n, "name", Unset), t)
    <3>1. WithDevices(RouterRecord(V(n, "name", Null), V(n, "port", Unset),
                                   V(n, "name", Unset), d), e) =
            RouterRecord(V(n, "name", Null), V(n, "port", Unset), V(n, "name", Unset), t)
      BY WithDevicesIs
    <3> HIDE DEF t
    <3> QED BY <1>4, <3>1
  <2>5. y = RouterRecord(V(n, "name", Null), V(n, "port", Unset), V(n, "name", Unset), t)
    <3>1. D(n + 1) = t
      BY <2>2
    <3> HIDE DEF t
    <3> QED BY <1>4, <2>1, <3>1
  <2> HIDE DEF t
  <2>6. y = WithDevices(w, Written(f.list))
    BY <2>4, <2>5
  <2> QED BY <1>5, <2>6 DEF y, w, f
<1>6. CASE "list" \notin DOMAIN f
  <2>1. D(n + 1) = D(n)
    BY <1>3, <1>6, JoinedNothing DEF FieldDevices
  <2>2. ASSUME NEW a, NEW b, NEW c, NEW d, NEW v, NEW z, z = Filled(RouterRecord(a, b, c, d), "name", v)
        PROVE  z = RouterRecord(v, b, v, d)
    BY <2>2 DEF RouterRecord, Filled
  <2>3. ASSUME NEW a, NEW b, NEW c, NEW d, NEW v, NEW z, z = Filled(RouterRecord(a, b, c, d), "port", v)
        PROVE  z = RouterRecord(a, v, c, d)
    BY <2>3 DEF RouterRecord, Filled
  <2>4. ASSUME NEW x, NEW k, k \notin {"name", "port"}, NEW v
        PROVE  Filled(x, k, v) = x
    BY <2>4 DEF Filled
  <2>5. CASE f.key = "name"
    <3>1. /\ V(n + 1, "name", Null) = f.value /\ V(n + 1, "name", Unset) = f.value
          /\ V(n + 1, "port", Unset) = V(n, "port", Unset)
      BY <1>2, <2>5
    <3>2. y = Filled(w, f.key, f.value)
      BY <1>4, <2>1, <2>2, <2>5, <3>1
    <3> QED BY <1>6, <3>2 DEF y, w, f
  <2>6. CASE f.key = "port"
    <3>1. /\ V(n + 1, "name", Null) = V(n, "name", Null)
          /\ V(n + 1, "name", Unset) = V(n, "name", Unset)
          /\ V(n + 1, "port", Unset) = f.value
      BY <1>2, <2>6
    <3>2. y = Filled(w, f.key, f.value)
      BY <1>4, <2>1, <2>3, <2>6, <3>1
    <3> QED BY <1>6, <3>2 DEF y, w, f
  <2>7. CASE f.key \notin {"name", "port"}
    <3>1. /\ V(n + 1, "name", Null) = V(n, "name", Null)
          /\ V(n + 1, "name", Unset) = V(n, "name", Unset)
          /\ V(n + 1, "port", Unset) = V(n, "port", Unset)
      BY <1>2, <2>7
    <3>2. y = Filled(w, f.key, f.value)
      BY <1>4, <2>1, <2>4, <2>7, <3>1
    <3> QED BY <1>6, <3>2 DEF y, w, f
  <2> QED BY <2>5, <2>6, <2>7
<1> QED BY <1>5, <1>6 DEF y, w, f

(* Behind n fields of a router, those before it being written: it is as    *)
(* written so far, and left if the last one was its devices; or the parser *)
(* waits for its name or port.                                             *)
AsWritten(written, router, n, q) ==
  \/ \E rs, r, k : /\ Fills(rs, r, written, RouterWritten(First(router, n)))
                   /\ n > 0 => r # 0
                   /\ q = State(rs, r, 0, k, "none")
  \/ /\ n = Len(router)
     /\ \E k : q = State(Append(written, RouterWritten(router)), 0, 0, k, "none")
  \/ \E rs, r, others, x : \E k \in {"name", "port"} :
       Fills(rs, r, others, x) /\ q = State(rs, r, 0, k, "value")

LEMMA NotWaiting ==
  ASSUME NEW p, NEW rs, NEW r, NEW others, NEW x, NEW k \in {"name", "port"},
         Fills(rs, r, others, x), p = State(rs, r, 0, k, "value"),
         NEW type, type # "SCALAR", NEW q, Moves("routers", p, Token(type), q)
  PROVE  FALSE
BY ReadsNoValue

LEMMA FirstIsRecord ==
  ASSUME NEW router, IsRouter(router)
  PROVE  /\ \A n \in 0..Len(router) : IsRecord(RouterWritten(First(router, n)))
         /\ RouterWritten(First(router, 0)) = NewRouter
         /\ RouterWritten(First(router, Len(router))) = RouterWritten(router)
<1>1. ASSUME NEW n \in 0..Len(router)
      PROVE  IsRecord(RouterWritten(First(router, n)))
  <2>1. IsSeq(DevicesWritten(First(router, n)))
    BY DevicesFirst
  <2> QED BY <2>1 DEF IsRecord, RouterWritten, RouterRecord
<1>2. RouterWritten(First(router, 0)) = NewRouter
  <2>1. IsMapping(router) /\ 0 \in 0..Len(router) /\ \A i \in 1..0 : FALSE
    BY RouterFacts DEF IsFields
  <2>2. \A key, default : ValueOf(First(router, 0), key, default) = default
    BY <2>1, ValueNotFound
  <2>3. DevicesWritten(First(router, 0)) = <<>>
    BY DevicesFirst
  <2> QED BY <2>2, <2>3 DEF RouterWritten, NewRouter
<1> QED BY <1>1, <1>2, RouterFacts, FirstAll

LEMMA WrittenField ==
  ASSUME NEW written, IsSeq(written), NEW router, IsRouter(router), InExpectedOrder(router),
         NEW n \in Nat, n + 1 <= Len(router), NEW p, AsWritten(written, router, n, p), NEW q,
         Reads("routers", p, Pair(router[n + 1].key, FieldTokens(router[n + 1])), q)
  PROVE  AsWritten(written, router, n + 1, q)
<1> DEFINE f == router[n + 1]
           w == RouterWritten(First(router, n))
           N == Len(written) + 1
<1>1. /\ Len(router) \in Nat /\ n + 1 \in 1..Len(router) /\ n \in 0..Len(router) /\ n # Len(router)
      /\ IsField(f) /\ f.key \notin DOMAIN NewDevice /\ N # 0
      /\ "list" \in DOMAIN f => f.key = "devices"
      /\ f.key \in {"name", "port", "devices"} \/ "value" \in DOMAIN f
      /\ f.key = "devices" => n + 1 = Len(router) /\ "list" \in DOMAIN f
  <2>1. Len(router) \in Nat /\ Len(written) \in Nat
    BY RouterFacts, SeqFacts
  <2>2. n + 1 \in 1..Len(router) /\ n \in 0..Len(router) /\ n # Len(router) /\ N # 0
    BY <2>1
  <2>3. f.key = "devices" => n + 1 = Len(router) /\ "list" \in DOMAIN f
    <3>1. IsSeq(router)
      BY RouterFacts
    <3>2. DOMAIN router = 1..Len(router)
      BY <3>1, SeqFacts
    <3> QED BY <2>2, <3>2 DEF InExpectedOrder
  <2>4. /\ IsField(f) /\ f.key \notin DOMAIN NewDevice
        /\ "list" \in DOMAIN f => f.key = "devices"
        /\ f.key \in {"name", "port", "devices"} \/ "value" \in DOMAIN f
    BY <2>2, RouterFacts DEF IsFields
  <2> HIDE DEF f, N
  <2> QED BY <2>2, <2>1, <2>3, <2>4
<1>2. PICK a, b, c : /\ Moves("routers", p, Token("KEY"), a) /\ Moves("routers", a, Scalar(f.key), b)
                     /\ Moves("routers", b, Token("VALUE"), c)
                     /\ Reads("routers", c, FieldTokens(f), q)
  <2>1. IsSeq(FieldTokens(f))
    BY <1>1, FieldIsInner DEF Inner
  <2> QED BY <2>1, ReadsPair
<1>3. PICK rs, r, k : Fills(rs, r, written, w) /\ p = State(rs, r, 0, k, "none")
  <2>1. ASSUME NEW rs, NEW r, NEW others, NEW x, NEW k \in {"name", "port"},
               Fills(rs, r, others, x), p = State(rs, r, 0, k, "value")
        PROVE  FALSE
    <3>1. "KEY" # "SCALAR"
      OBVIOUS
    <3> QED BY <1>2, <2>1, <3>1, NotWaiting
  <2> QED BY <1>1, <2>1 DEF AsWritten
<1>4. c = State(rs, r, 0, f.key, "value")
  BY <1>2, <1>3, ReadsKey
<1>5. IsRecord(w)
  BY <1>1, FirstIsRecord
<1>6. ASSUME NEW y, y = RouterWritten(First(router, n + 1)), NEW key,
             q = State(Append(written, y), N, 0, key, "none")
      PROVE  AsWritten(written, router, n + 1, q)
  <2>1. Fills(Append(written, y), N, written, RouterWritten(First(router, n + 1)))
    BY <1>6 DEF Fills
  <2> QED BY <1>1, <1>6, <2>1 DEF AsWritten
<1>7. CASE "list" \in DOMAIN f
  <2> DEFINE y == WithDevices(w, Written(f.list))
  <2>1. PICK s \in {0, N} : \E key : q = State(Append(written, y), s, 0, key, "none")
    BY <1>1, <1>2, <1>3, <1>4, <1>5, <1>7, FieldRead
  <2>2. PICK key : q = State(Append(written, y), s, 0, key, "none")
    BY <2>1
  <2>3. y = RouterWritten(First(router, n + 1))
    BY <1>7, RouterWrittenMore
  <2> HIDE DEF y
  <2>4. CASE s = N
    BY <1>6, <2>2, <2>3, <2>4
  <2>5. CASE s = 0
    <3>1. n + 1 = Len(router)
      BY <1>1, <1>7
    <3>2. y = RouterWritten(router)
      BY <2>3, <3>1, FirstIsRecord
    <3> QED BY <2>2, <2>5, <3>1, <3>2 DEF AsWritten
  <2> QED BY <2>4, <2>5
<1>8. CASE "list" \notin DOMAIN f /\ "value" \in DOMAIN f
  <2> DEFINE y == Filled(w, f.key, f.value)
  <2>1. q = State(Append(written, y), N, 0, Null, "none")
    BY <1>1, <1>2, <1>3, <1>4, <1>5, <1>8, FieldRead
  <2>2. y = RouterWritten(First(router, n + 1))
    BY <1>8, RouterWrittenMore
  <2> HIDE DEF y
  <2> QED BY <1>6, <2>1, <2>2
<1>9. CASE "list" \notin DOMAIN f /\ "value" \notin DOMAIN f
  <2>1. q = c
    BY <1>1, <1>2, <1>3, <1>4, <1>5, <1>9, FieldRead
  <2>2. f.key \in {"name", "port"}
    BY <1>1, <1>9
  <2> QED BY <1>3, <1>4, <2>1, <2>2 DEF AsWritten
<1> QED BY <1>7, <1>8, <1>9

LEMMA RouterRead ==
  ASSUME NEW rs, NEW r, NEW written, Fills(rs, r, written, NewRouter), NEW k,
         NEW router, IsRouter(router), InExpectedOrder(router), NEW q,
         Reads("routers", State(rs, r, 0, k, "none"), RouterTokens(router), q)
  PROVE  \E key : q = State(Append(written, RouterWritten(router)), 0, 0, key, "none")
<1> DEFINE N == Len(router)
           p == State(rs, r, 0, k, "none")
           After(n, s) == AsWritten(written, router, n, s)
<1>1. IsFields(router) /\ N \in Nat /\ N > 0 /\ IsSeq(written)
  BY RouterFacts DEF Fills
<1> HIDE DEF p
<1>2. PICK a, b : /\ Moves("routers", p, Token("BLOCK_MAPPING_START"), a)
                  /\ Reads("routers", a, FieldsTokens(router), b)
                  /\ Moves("routers", b, Token("BLOCK_END"), q)
  <2>1. IsSeq(FieldsTokens(router))
    BY <1>1, RouterIsInner DEF Inner
  <2>2. Reads("routers", p, RouterTokens(router), q)
    BY DEF p
  <2> QED BY <1>1, <2>1, <2>2, RouterIsInner, ReadsBlock
<1>3. a = p
  <2>1. Token("BLOCK_MAPPING_START").type \notin {"KEY", "VALUE", "BLOCK_END"}
    BY DEF Token
  <2> QED BY <1>2, <2>1, Skips DEF p
<1>4. PICK g : FieldByField(router, a, b, g)
  BY <1>1, <1>2, FieldsRead
<1>5. After(0, g[0])
  <2>1. RouterWritten(First(router, 0)) = NewRouter
    BY FirstIsRecord
  <2>2. g[0] = p
    BY <1>3, <1>4 DEF FieldByField
  <2> QED BY <2>1, <2>2 DEF AsWritten, p
<1>6. ASSUME NEW n \in Nat, n + 1 <= N, After(n, g[n])
      PROVE  After(n + 1, g[n + 1])
  BY <1>1, <1>4, <1>6, WrittenField DEF FieldByField
<1> HIDE DEF After
<1> DEFINE S == {n \in Nat : n <= N => After(n, g[n])}
<1>7. 0 \in S
  BY <1>5
<1>8. ASSUME NEW n \in Nat, n \in S
      PROVE  n + 1 \in S
  BY <1>1, <1>6, <1>8
<1> HIDE DEF S
<1>9. N \in S
  BY <1>1, <1>7, <1>8, Induction
<1>10. AsWritten(written, router, N, b)
  BY <1>1, <1>4, <1>9 DEF S, FieldByField, After
<1>11. RouterWritten(First(router, N)) = RouterWritten(router)
  BY FirstIsRecord
<1>12. PICK t, key : b = State(Append(written, RouterWritten(router)), t, 0, key, "none")
  <2>1. ASSUME NEW rs_1, NEW r_1, NEW others, NEW x, NEW kk \in {"name", "port"},
               Fills(rs_1, r_1, others, x), b = State(rs_1, r_1, 0, kk, "value")
        PROVE  FALSE
    <3>1. "BLOCK_END" # "SCALAR"
      OBVIOUS
    <3> QED BY <1>2, <2>1, <3>1, NotWaiting
  <2>2. ASSUME NEW rs_1, NEW r_1, Fills(rs_1, r_1, written, RouterWritten(router)), r_1 # 0
        PROVE  rs_1 = Append(written, RouterWritten(router))
    BY <2>2 DEF Fills
  <2> QED BY <1>1, <1>10, <1>11, <2>1, <2>2 DEF AsWritten
<1>13. q = State(Append(written, RouterWritten(router)), 0, 0, key, "none")
  BY <1>2, <1>12, ReadsBlockEnd
<1> QED BY <1>13

-----------------------------------------------------------------------------
(* The whole routers' file.                                                *)

LEMMA FirstMore ==
  ASSUME NEW s, IsSeq(s)
  PROVE  /\ First(s, 0) = <<>>
         /\ \A n \in Nat : n + 1 <= Len(s) => First(s, n + 1) = Append(First(s, n), s[n + 1])
<1>1. Len(s) \in Nat /\ 0 \in 0..Len(s)
  BY SeqFacts
<1>2. First(s, 0) = <<>>
  <2>1. IsSeq(First(s, 0)) /\ Len(First(s, 0)) = 0
    BY <1>1, FirstFacts
  <2>2. \A i \in 1..0 : FALSE
    OBVIOUS
  <2> QED BY <2>1, <2>2, NoElements, SameElements
<1>3. ASSUME NEW n \in Nat, n + 1 <= Len(s)
      PROVE  First(s, n + 1) = Append(First(s, n), s[n + 1])
  <2> DEFINE t == First(s, n)
             u == First(s, n + 1)
  <2>1. n \in 0..Len(s) /\ n + 1 \in 0..Len(s) /\ n + 1 \in 1..n + 1 /\ \A i \in 1..n : i \in 1..n + 1
    BY <1>1, <1>3
  <2>2. /\ IsSeq(t) /\ Len(t) = n /\ \A i \in 1..n : t[i] = s[i]
        /\ IsSeq(u) /\ Len(u) = n + 1 /\ \A i \in 1..n + 1 : u[i] = s[i]
    BY <2>1, FirstFacts
  <2> HIDE DEF t, u
  <2>3. u = Append(t, u[n + 1])
    BY <2>1, <2>2, OneMore
  <2> QED BY <2>1, <2>2, <2>3 DEF t, u
<1> QED BY <1>2, <1>3

LEMMA DocumentFacts ==
  ASSUME NEW document, IsDocument(document)
  PROVE  /\ IsSeq(document) /\ Len(document) \in Nat /\ DOMAIN document = 1..Len(document)
         /\ \A i \in 1..Len(document) : IsRouter(document[i])
         /\ IsSeq(RoutersWritten(document)) /\ Len(RoutersWritten(document)) = Len(document)
         /\ \A i \in 1..Len(document) :
              RoutersWritten(document)[i] = RouterWritten(document[i])
<1>1. /\ IsSeq(document) /\ Len(document) \in Nat /\ DOMAIN document = 1..Len(document)
      /\ \A i \in 1..Len(document) : IsRouter(document[i])
  BY SeqFacts DEF IsDocument, IsSeq
<1> DEFINE w == RoutersWritten(document)
<1>2. w = [i \in 1..Len(document) |-> RouterWritten(document[i])]
  BY <1>1 DEF RoutersWritten
<1>3. w = [i \in 1..Len(document) |-> w[i]]
      /\ \A i \in 1..Len(document) : w[i] = RouterWritten(document[i])
  BY <1>2
<1> HIDE DEF w
<1>4. IsSeq(w) /\ Len(w) = Len(document)
  BY <1>1, <1>3, Listed
<1> QED BY <1>1, <1>3, <1>4 DEF w

RouterItem(router) == <<Token("BLOCK_ENTRY")>> \o RouterTokens(router)

RoutersTokens(document) == FlattenSeq([i \in 1..Len(document) |-> RouterItem(document[i])])

LEMMA DocumentTokens ==
  ASSUME NEW document
  PROVE  Items(document, RouterTokens) =
           IF document = <<>>
           THEN <<Token("FLOW_SEQUENCE_START")>> \o <<Token("FLOW_SEQUENCE_END")>>
           ELSE Block("BLOCK_SEQUENCE_START", RoutersTokens(document))
<1>1. CASE document = <<>>
  BY <1>1, TwoElements DEF Items
<1>2. CASE document # <<>>
  BY <1>2 DEF Items, Concat, RouterItem, RoutersTokens
<1> QED BY <1>1, <1>2

LEMMA RouterItems ==
  ASSUME NEW document, IsDocument(document), NEW parts,
         parts = [i \in 1..Len(document) |-> RouterItem(document[i])]
  PROVE  Parts(parts, Len(document)) /\ \A i \in 1..Len(document) : Inner(parts[i])
<1>1. \A i \in 1..Len(document) : parts[i] = RouterItem(document[i]) /\ IsFields(document[i])
  BY DocumentFacts, RouterFacts
<1>2. parts = [i \in 1..Len(document) |-> parts[i]]
  OBVIOUS
<1>3. Inner(<<Token("BLOCK_ENTRY")>>)
  BY InnerOne DEF Token
<1>4. \A i \in 1..Len(document) : Inner(parts[i])
  BY <1>1, <1>3, RouterIsInner, InnerBoth DEF RouterItem
<1> QED BY <1>2, <1>4 DEF Parts, Inner

LEMMA DocumentIsInner ==
  ASSUME NEW document, IsDocument(document)
  PROVE  Inner(RoutersTokens(document)) /\ Inner(Items(document, RouterTokens))
<1>1. Inner(RoutersTokens(document))
  <2> DEFINE parts == [i \in 1..Len(document) |-> RouterItem(document[i])]
  <2>1. Len(document) \in Nat
    BY DocumentFacts
  <2>2. Parts(parts, Len(document)) /\ \A i \in 1..Len(document) : Inner(parts[i])
    BY RouterItems
  <2>3. RoutersTokens(document) = FlattenSeq(parts)
    BY DEF RoutersTokens
  <2> HIDE DEF parts
  <2> QED BY <2>1, <2>2, <2>3, InnerFlatten
<1>2. /\ Inner(<<Token("FLOW_SEQUENCE_START")>>) /\ Inner(<<Token("FLOW_SEQUENCE_END")>>)
  BY InnerOne DEF Token
<1>3. /\ Inner(<<Token("FLOW_SEQUENCE_START")>> \o <<Token("FLOW_SEQUENCE_END")>>)
      /\ Inner(Block("BLOCK_SEQUENCE_START", RoutersTokens(document)))
  BY <1>1, <1>2, InnerBoth, InnerBlock
<1> QED BY <1>1, <1>3, DocumentTokens

AllInOrder(document) == \A i \in DOMAIN document : InExpectedOrder(document[i])

(* Behind n routers all their devices are there, and with the keys in the  *)
(* expected order exactly what is written, but for a router just opened.   *)
RoutersAfter(document, n, q) ==
  LET written == First(RoutersWritten(document), n)
  IN /\ Keeps(AllOf(written), q, "none")
     /\ AllInOrder(document) => \E rs, r, k : /\ Fills(rs, r, written, NewRouter)
                                              /\ n > 0 => r = 0
                                              /\ q = State(rs, r, 0, k, "none")

LEMMA RouterItemRead ==
  ASSUME NEW document, IsDocument(document), NEW n \in Nat, n + 1 <= Len(document),
         NEW p, RoutersAfter(document, n, p), NEW q,
         Reads("routers", p, RouterItem(document[n + 1]), q)
  PROVE  RoutersAfter(document, n + 1, q)
<1> DEFINE router == document[n + 1]
           W == RoutersWritten(document)
           w == First(W, n)
           z == RouterWritten(router)
<1>1. /\ IsSeq(W) /\ Len(W) = Len(document) /\ n + 1 \in 1..Len(document) /\ n \in 0..Len(W)
      /\ n + 1 \in DOMAIN document /\ IsRouter(router) /\ W[n + 1] = z
  <2>1. n + 1 \in 1..Len(document) /\ n \in 0..Len(document)
    <3>1. Len(document) \in Nat
      BY DocumentFacts
    <3> QED BY <3>1
  <2> QED BY <2>1, DocumentFacts
<1>2. IsSeq(w) /\ First(W, n + 1) = Append(w, z)
  BY <1>1, FirstFacts, FirstMore
<1>3. IsRecord(z) /\ IsSeq(z.devices) /\ z.devices = DevicesWritten(router)
  <2>1. IsRecord(z)
    <3>1. Len(router) \in 0..Len(router)
      BY <1>1, RouterFacts
    <3> QED BY <1>1, <3>1, FirstIsRecord
  <2>2. z.devices = DevicesWritten(router)
    BY DEF RouterWritten
  <2> HIDE DEF z
  <2> QED BY <2>1, <2>2, RecordFacts
<1> HIDE DEF W, w, z, router
<1>4. AllOf(First(W, n + 1)) = AllOf(w) \o DevicesWritten(router)
  BY <1>2, <1>3, AllOfMore
<1>5. IsFields(router) /\ IsSeq(RouterTokens(router)) /\ IsSeq(<<Token("BLOCK_ENTRY")>>)
  BY <1>1, RouterFacts, RouterIsInner, OneElement DEF Inner
<1>6. PICK a : /\ Reads("routers", p, <<Token("BLOCK_ENTRY")>>, a)
               /\ Reads("routers", a, RouterTokens(router), q)
  BY <1>5, ReadsBoth DEF RouterItem, router
<1>7. Moves("routers", p, Token("BLOCK_ENTRY"), a)
  BY <1>6, ReadsOne
<1>8. Token("BLOCK_ENTRY").type \notin {"KEY", "VALUE", "BLOCK_END"}
  BY DEF Token
<1>9. Keeps(AllOf(w), p, "none")
  BY DEF RoutersAfter, w, W
<1>10. Keeps(AllOf(First(W, n + 1)), q, "none")
  <2>1. Keeps(AllOf(w), a, "none")
    BY <1>7, <1>8, <1>9, KeptSkips
  <2>2. IsSeq(AllOf(w))
    BY <1>9, FillsFacts, RecordFacts, JoinFacts DEF Keeps
  <2> QED BY <1>1, <1>4, <1>6, <2>1, <2>2, RouterKept
<1>11. ASSUME AllInOrder(document)
       PROVE  \E rs, r, k : /\ Fills(rs, r, First(W, n + 1), NewRouter) /\ r = 0
                            /\ q = State(rs, r, 0, k, "none")
  <2>1. PICK rs, r, k : Fills(rs, r, w, NewRouter) /\ p = State(rs, r, 0, k, "none")
    BY <1>11 DEF RoutersAfter, w, W
  <2>2. a = State(rs, r, 0, k, "none")
    BY <1>7, <1>8, <2>1, Skips
  <2>3. InExpectedOrder(router)
    BY <1>1, <1>11 DEF AllInOrder, router
  <2>4. PICK key : q = State(Append(w, z), 0, 0, key, "none")
    BY <1>1, <1>6, <2>1, <2>2, <2>3, RouterRead DEF z
  <2>5. Fills(Append(w, z), 0, Append(w, z), NewRouter)
    BY <1>2, LastReplaced DEF Fills
  <2> QED BY <1>2, <2>4, <2>5
<1> QED BY <1>10, <1>11 DEF RoutersAfter, W

LEMMA RoutersTokensRead ==
  ASSUME NEW document, IsDocument(document), NEW p, RoutersAfter(document, 0, p), NEW q,
         Reads("routers", p, RoutersTokens(document), q)
  PROVE  RoutersAfter(document, Len(document), q)
<1> DEFINE N == Len(document)
           parts == [i \in 1..N |-> RouterItem(document[i])]
           After(n, r) == RoutersAfter(document, n, r)
<1>1. N \in Nat
  BY DocumentFacts
<1>2. \A i \in 1..N : parts[i] = RouterItem(document[i])
  OBVIOUS
<1>3. Parts(parts, N)
  BY RouterItems
<1>4. Reads("routers", p, FlattenSeq(parts), q)
  BY DEF RoutersTokens
<1> HIDE DEF parts, N
<1>5. PICK g : /\ g[0] = p /\ g[N] = q
               /\ \A i \in 1..N : Reads("routers", g[i - 1], parts[i], g[i])
  <2>1. InParts("routers", p, parts, N, q)
    BY <1>1, <1>3, <1>4, ReadsParts
  <2> QED BY <2>1 DEF InParts
<1>6. ASSUME NEW n \in Nat, n + 1 <= N, After(n, g[n])
      PROVE  After(n + 1, g[n + 1])
  <2>1. n + 1 \in 1..N /\ (n + 1) - 1 = n
    BY <1>1, <1>6
  <2>2. Reads("routers", g[n], RouterItem(document[n + 1]), g[n + 1])
    BY <1>2, <1>5, <2>1
  <2> QED BY <1>6, <2>2, RouterItemRead DEF N
<1>7. After(0, g[0])
  BY <1>5
<1> HIDE DEF After
<1> DEFINE S == {n \in Nat : n <= N => After(n, g[n])}
<1>8. 0 \in S
  BY <1>7
<1>9. ASSUME NEW n \in Nat, n \in S
      PROVE  n + 1 \in S
  BY <1>1, <1>6, <1>9
<1> HIDE DEF S
<1>10. N \in S
  BY <1>1, <1>8, <1>9, Induction
<1> QED BY <1>1, <1>5, <1>10 DEF S, After, N

LEMMA KeptAll ==
  ASSUME NEW all, NEW q, Keeps(all, q, "none")
  PROVE  AllOf(q.routers) = all
<1>1. PICK rs, r, others, x, k :
        /\ IsRecord(x) /\ IsSeq(AllOf(others)) /\ Fills(rs, r, others, x)
        /\ all = AllOf(others) \o x.devices
        /\ q = State(rs, r, 0, k, "none")
  BY DEF Keeps
<1>2. q.routers = rs
  BY <1>1 DEF State
<1> QED BY <1>1, <1>2, FillsFacts

LEMMA OpenedKept ==
  ASSUME NEW k, k \notin DOMAIN NewDevice
  PROVE  Keeps(<<>>, State(<<>>, 0, 0, k, "value"), "value")
<1>1. Fills(<<>>, 0, <<>>, NewRouter)
  BY NoElements DEF Fills
<1>2. IsSeq(AllOf(<<>>)) /\ <<>> = AllOf(<<>>) \o NewRouter.devices
  BY AllOfNothing, NewRouterIsRecord, NoElements, JoinedNothing
<1> QED BY <1>1, <1>2, NewRouterIsRecord DEF Keeps

(* However many routers, devices and keys the routers' file has: if the    *)
(* program gets to its end all devices are read, once each and in order,   *)
(* and if the devices are the last key of every router, what is read is    *)
(* what the file says (parse_yaml_file_to_router).                         *)
THEOREM RoutersRead ==
  ASSUME NEW document, IsDocument(document), NEW q,
         Reads("routers", AtStart, Body("routers", Items(document, RouterTokens)), q)
  PROVE  /\ AllOf(q.routers) = AllOf(RoutersWritten(document))
         /\ document # <<>> /\ AllInOrder(document) => q.routers = RoutersWritten(document)
<1> DEFINE value == Items(document, RouterTokens)
           W == RoutersWritten(document)
<1>1. PICK a, b, c, d, e, f :
        /\ Moves("routers", AtStart, Token("STREAM_START"), a)
        /\ Moves("routers", a, Token("BLOCK_MAPPING_START"), b)
        /\ Moves("routers", b, Token("KEY"), c) /\ Moves("routers", c, Scalar("routers"), d)
        /\ Moves("routers", d, Token("VALUE"), e) /\ Reads("routers", e, value, f)
        /\ Moves("routers", f, Token("BLOCK_END"), q)
  <2>1. IsSeq(value)
    BY DocumentIsInner DEF Inner
  <2> HIDE DEF value
  <2> QED BY <2>1, ReadsBody DEF value
<1> HIDE DEF value
<1>2. /\ Token("STREAM_START").type \notin {"KEY", "VALUE", "BLOCK_END"}
      /\ Token("BLOCK_MAPPING_START").type \notin {"KEY", "VALUE", "BLOCK_END"}
      /\ Token("FLOW_SEQUENCE_END").type \notin {"KEY", "VALUE", "BLOCK_END"}
  BY DEF Token
<1>3. AtStart = State(<<>>, 0, 0, Null, "none")
  BY DEF AtStart, State
<1>4. b = State(<<>>, 0, 0, Null, "none")
  BY <1>1, <1>2, <1>3, Skips
<1>5. e = State(<<>>, 0, 0, "routers", "value")
  BY <1>1, <1>4, ReadsKey
<1>6. Keeps(<<>>, e, "value")
  <2>1. "routers" \notin DOMAIN NewDevice
    BY DEF NewDevice
  <2> QED BY <1>5, <2>1, OpenedKept
<1>7. /\ IsSeq(W) /\ Len(W) = Len(document) /\ First(W, 0) = <<>>
      /\ First(W, Len(document)) = W
  <2>1. IsSeq(W) /\ Len(W) = Len(document)
    BY DocumentFacts
  <2> HIDE DEF W
  <2> QED BY <2>1, FirstMore, FirstAll
<1>8. CASE document = <<>>
  <2>1. PICK g : /\ Reads("routers", e, <<Token("FLOW_SEQUENCE_START")>>, g)
                 /\ Reads("routers", g, <<Token("FLOW_SEQUENCE_END")>>, f)
    BY <1>1, <1>8, DocumentTokens, OneElement, ReadsBoth DEF value
  <2>2. /\ Moves("routers", e, Token("FLOW_SEQUENCE_START"), g)
        /\ Moves("routers", g, Token("FLOW_SEQUENCE_END"), f)
    BY <2>1, ReadsOne
  <2>3. Keeps(<<>>, g, "none")
    BY <1>6, <2>2, KeptOn
  <2>4. Keeps(<<>>, f, "none")
    BY <1>2, <2>2, <2>3, KeptSkips
  <2>5. Keeps(<<>>, q, "none")
    BY <1>1, <2>4, KeptAtEnd
  <2>6. W = <<>>
    BY <1>7, <1>8, NoElements
  <2> QED BY <1>8, <2>5, <2>6, KeptAll, AllOfNothing
<1>9. CASE document # <<>>
  <2>1. PICK g, h : /\ Moves("routers", e, Token("BLOCK_SEQUENCE_START"), g)
                    /\ Reads("routers", g, RoutersTokens(document), h)
                    /\ Moves("routers", h, Token("BLOCK_END"), f)
    <3>1. IsSeq(RoutersTokens(document))
      BY DocumentIsInner DEF Inner
    <3>2. Reads("routers", e, Block("BLOCK_SEQUENCE_START", RoutersTokens(document)), f)
      BY <1>1, <1>9, DocumentTokens DEF value
    <3> QED BY <3>1, <3>2, ReadsBlock
  <2>2. Keeps(<<>>, g, "none")
    BY <1>6, <2>1, KeptOn
  <2>3. Fills(<<>>, 0, <<>>, NewRouter) /\ Fills(Append(<<>>, NewRouter), 1, <<>>, NewRouter)
    <3>1. IsSeq(<<>>) /\ Len(<<>>) + 1 = 1
      BY NoElements
    <3> QED BY <3>1 DEF Fills
  <2>4. g = State(Append(<<>>, NewRouter), 1, 0, Null, "none")
    <3> DEFINE none == <<>>
    <3>1. Len(none) + 1 = 1 /\ Fills(none, 0, none, NewRouter)
      BY <2>3, NoElements
    <3>2. e = State(none, 0, 0, "routers", "value")
      BY <1>5
    <3> HIDE DEF none
    <3>3. "BLOCK_SEQUENCE_START" # "SCALAR"
      OBVIOUS
    <3>4. g = State(Append(none, NewRouter), Len(none) + 1, 0, Null, "none")
      BY <2>1, <3>1, <3>2, <3>3, ReadsNoValue
    <3> QED BY <3>1, <3>4 DEF none
  <2>5. RoutersAfter(document, 0, g)
    <3>1. Keeps(AllOf(First(W, 0)), g, "none")
      BY <1>7, <2>2, AllOfNothing
    <3>2. Fills(Append(<<>>, NewRouter), 1, First(W, 0), NewRouter)
      BY <1>7, <2>3
    <3> QED BY <2>4, <3>1, <3>2 DEF RoutersAfter
  <2>6. RoutersAfter(document, Len(document), h)
    BY <2>1, <2>5, RoutersTokensRead
  <2>7. AllOf(q.routers) = AllOf(W)
    <3>1. Keeps(AllOf(W), h, "none")
      BY <1>7, <2>6 DEF RoutersAfter
    <3>2. Keeps(AllOf(W), f, "none")
      BY <2>1, <3>1, KeptAtEnd
    <3>3. Keeps(AllOf(W), q, "none")
      BY <1>1, <3>2, KeptAtEnd
    <3> QED BY <3>3, KeptAll
  <2>8. ASSUME AllInOrder(document)
        PROVE  q.routers = W
    <3>1. PICK rs, r, k : Fills(rs, r, W, NewRouter) /\ r = 0 /\ h = State(rs, r, 0, k, "none")
      <4>1. Len(document) > 0
        <5>1. Len(document) # 0 /\ Len(document) \in Nat
          BY <1>9, DocumentFacts, NoElements, SameElements
        <5> QED BY <5>1
      <4> QED BY <1>7, <2>6, <2>8, <4>1 DEF RoutersAfter
    <3>2. f = State(rs, 0, 0, k, "none")
      BY <2>1, <3>1, ReadsBlockEnd
    <3>3. rs = W
      <4>1. Len(W) + 1 # 0
        BY <1>7, SeqFacts
      <4> QED BY <3>1, <4>1 DEF Fills
    <3>4. q = State(rs, 0, 0, k, "none")
      BY <1>1, <3>2, ReadsBlockEnd
    <3> QED BY <3>3, <3>4 DEF State
  <2> QED BY <2>7, <2>8
<1> QED BY <1>8, <1>9

=============================================================================
