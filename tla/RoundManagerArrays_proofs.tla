--------------------- MODULE RoundManagerArrays_proofs ----------------------
(***************************************************************************)
(* The arrays and loops of RoundManagerArrays do what RoundManager says.   *)
(***************************************************************************)
EXTENDS RoundManagerArrays, StakeOrder, Arithmetic_proofs, SequenceTheorems

-----------------------------------------------------------------------------
(***************************************************************************)
(* Address sets.                                                           *)
(***************************************************************************)
AddressSet == [values : Seq(Owners), indexes : [Owners -> Nat]]

\* An address set that stands for a set.
Proper == {set \in AddressSet : Consistent(set)}

LEMMA ProperFacts ==
    ASSUME NEW set \in Proper
    PROVE  /\ set.values \in Seq(Owners) /\ Len(set.values) \in Nat
           /\ DOMAIN set.values = 1..Len(set.values)
           /\ set.indexes \in [Owners -> Nat]
           /\ set = [values |-> set.values, indexes |-> set.indexes]
           /\ \A i \in 1..Len(set.values) : set.values[i] \in Owners /\ set.indexes[set.values[i]] = i
           /\ \A i, j \in 1..Len(set.values) : set.values[i] = set.values[j] => i = j
           /\ Elements(set) \subseteq Owners
           /\ \A a \in Owners \ Elements(set) : set.indexes[a] = 0
           /\ \A a \in Elements(set) :
                 set.indexes[a] \in 1..Len(set.values) /\ set.values[set.indexes[a]] = a
<1>1. set.values \in Seq(Owners) /\ set.indexes \in [Owners -> Nat] /\ Consistent(set)
      /\ set = [values |-> set.values, indexes |-> set.indexes]
  BY DEF Proper, AddressSet
<1> DEFINE v == set.values
<1>2. Len(v) \in Nat /\ DOMAIN v = 1..Len(v) /\ \A i \in 1..Len(v) : v[i] \in Owners
  BY <1>1
<1>3. \A i \in 1..Len(v) : set.indexes[v[i]] = i
  BY <1>1, <1>2 DEF Consistent
<1>4. \A i, j \in 1..Len(v) : v[i] = v[j] => i = j
  BY <1>3
<1>5. \A a \in Elements(set) : \E i \in 1..Len(v) : v[i] = a
  BY <1>2 DEF Elements, ToSet
<1>6. Elements(set) \subseteq Owners
  BY <1>2, <1>5
<1>7. \A a \in Owners \ Elements(set) : set.indexes[a] = 0
  BY <1>1 DEF Consistent
<1>8. ASSUME NEW a \in Elements(set)
      PROVE  set.indexes[a] \in 1..Len(v) /\ v[set.indexes[a]] = a
  BY <1>3, <1>5
<1> QED
  BY <1>1, <1>2, <1>3, <1>4, <1>6, <1>7, <1>8

LEMMA MakeProper ==
    ASSUME NEW v \in Seq(Owners), NEW ix \in [Owners -> Nat],
           \A i \in 1..Len(v) : ix[v[i]] = i,
           \A a \in Owners : (\A i \in 1..Len(v) : v[i] # a) => ix[a] = 0
    PROVE  [values |-> v, indexes |-> ix] \in Proper
<1> DEFINE set == [values |-> v, indexes |-> ix]
<1>1. set \in AddressSet /\ set.values = v /\ set.indexes = ix
  BY DEF AddressSet
<1>2. DOMAIN v = 1..Len(v)
  OBVIOUS
<1> HIDE DEF set
<1>3. Consistent(set)
  BY <1>1, <1>2 DEF Consistent, Elements, ToSet
<1> QED
  BY <1>1, <1>3 DEF Proper, set

LEMMA HasIsMember ==
    ASSUME NEW set \in Proper, NEW a \in Owners
    PROVE  Has(set, a) <=> a \in Elements(set)
BY ProperFacts DEF Has

LEMMA EmptyIsProper == EmptyAddressSet \in Proper /\ Elements(EmptyAddressSet) = {}
<1> DEFINE ix == [a \in Owners |-> 0]
           v == <<>>
<1>0. v \in Seq(Owners) /\ Len(v) = 0 /\ ix \in [Owners -> Nat] /\ \A a \in Owners : ix[a] = 0
  OBVIOUS
<1>1. EmptyAddressSet \in Proper
  <2> HIDE DEF ix, v
  <2>0. \A i \in 1..Len(v) : ix[v[i]] = i
    BY <1>0
  <2>1. [values |-> v, indexes |-> ix] \in Proper
    BY <1>0, <2>0, MakeProper
  <2> QED
    BY <2>1 DEF EmptyAddressSet, ix, v
<1> QED
  BY <1>1 DEF EmptyAddressSet, Elements, ToSet

LEMMA AddedFacts ==
    ASSUME NEW set \in Proper, NEW a \in Owners
    PROVE  /\ Added(set, a) \in Proper
           /\ Elements(Added(set, a)) = Elements(set) \cup {a}
<1>1. CASE Has(set, a)
  BY <1>1, HasIsMember DEF Added
<1>2. CASE ~Has(set, a)
  <2> DEFINE v == set.values
             w == Append(v, a)
             ix == [set.indexes EXCEPT ![a] = Len(v) + 1]
  <2>1. Added(set, a) = [values |-> w, indexes |-> ix]
    BY <1>2 DEF Added
  <2>2. /\ v \in Seq(Owners) /\ Len(v) \in Nat /\ set.indexes \in [Owners -> Nat]
        /\ a \notin Elements(set) /\ Elements(set) = {v[i] : i \in 1..Len(v)}
        /\ \A i \in 1..Len(v) : v[i] \in Owners /\ set.indexes[v[i]] = i
        /\ \A b \in Owners \ Elements(set) : set.indexes[b] = 0
    BY <1>2, ProperFacts, HasIsMember DEF Elements, ToSet
  <2>3. /\ w \in Seq(Owners) /\ Len(w) = Len(v) + 1
        /\ \A i \in 1..Len(v) : w[i] = v[i]
        /\ w[Len(v) + 1] = a
    BY <2>2
  <2> HIDE DEF w, v
  <2>4. ix \in [Owners -> Nat] /\ ix[a] = Len(v) + 1 /\ \A b \in Owners \ {a} : ix[b] = set.indexes[b]
    BY <2>2
  <2> HIDE DEF ix
  <2>5. \A i \in 1..Len(w) : ix[w[i]] = i
    <3> SUFFICES ASSUME NEW i \in 1..Len(w) PROVE ix[w[i]] = i
      OBVIOUS
    <3>1. CASE i = Len(v) + 1
      BY <3>1, <2>3, <2>4
    <3>2. CASE i \in 1..Len(v)
      <4>1. v[i] \in Owners \ {a} /\ w[i] = v[i]
        BY <3>2, <2>2, <2>3
      <4> QED
        BY <3>2, <4>1, <2>2, <2>4
    <3>3. i = Len(v) + 1 \/ i \in 1..Len(v)
      <4>1. Len(v) \in Nat /\ i \in 1..(Len(v) + 1)
        BY <2>2, <2>3
      <4> QED
        BY <4>1
    <3> QED
      BY <3>1, <3>2, <3>3
  <2>6. {w[i] : i \in 1..Len(w)} = Elements(set) \cup {a}
    <3>1. \A i : i \in 1..Len(w) <=> i \in 1..Len(v) \/ i = Len(v) + 1
      <4>1. Len(v) \in Nat /\ Len(w) = Len(v) + 1
        BY <2>2, <2>3
      <4> QED
        BY <4>1
    <3>2. \A i \in 1..Len(w) : w[i] \in Elements(set) \cup {a}
      BY <2>2, <2>3, <3>1
    <3>3. \A i \in 1..Len(v) : \E k \in 1..Len(w) : w[k] = v[i]
      BY <2>3, <3>1
    <3>4. Len(v) + 1 \in 1..Len(w)
      BY <3>1
    <3>5. \A b \in Elements(set) \cup {a} : \E i \in 1..Len(w) : w[i] = b
      <4> SUFFICES ASSUME NEW b \in Elements(set) \cup {a}
                   PROVE  \E i \in 1..Len(w) : w[i] = b
        OBVIOUS
      <4>1. CASE b = a
        BY <2>3, <3>4, <4>1
      <4>2. CASE b \in Elements(set)
        <5>1. PICK i \in 1..Len(v) : v[i] = b
          BY <2>2, <4>2
        <5> QED
          BY <3>3, <5>1
      <4> QED
        BY <4>1, <4>2
    <3> QED
      BY <3>2, <3>5
  <2>7. \A b \in Owners : (\A i \in 1..Len(w) : w[i] # b) => ix[b] = 0
    <3> SUFFICES ASSUME NEW b \in Owners, \A i \in 1..Len(w) : w[i] # b PROVE ix[b] = 0
      OBVIOUS
    <3>1. b \notin Elements(set) \cup {a}
      BY <2>6
    <3> QED
      BY <3>1, <2>2, <2>4
  <2>8. Added(set, a) \in Proper
    BY <2>1, <2>3, <2>4, <2>5, <2>7, MakeProper
  <2>9. Elements(Added(set, a)) = {w[i] : i \in 1..Len(w)}
    BY <2>1, <2>3 DEF Elements, ToSet
  <2> QED
    BY <2>6, <2>8, <2>9
<1> QED
  BY <1>1, <1>2

LEMMA RemovedFacts ==
    ASSUME NEW set \in Proper, NEW a \in Owners
    PROVE  /\ Removed(set, a) \in Proper
           /\ Elements(Removed(set, a)) = Elements(set) \ {a}
           /\ Has(set, a) => Len(Removed(set, a).values) = Len(set.values) - 1
<1>1. CASE ~Has(set, a)
  BY <1>1, HasIsMember DEF Removed
<1>2. CASE Has(set, a)
  <2> DEFINE v == set.values
             n == Len(v)
             k == set.indexes[a]
             z == Last(v)
             u == [v EXCEPT ![k] = z]
             w == Front(u)
             ix == [set.indexes EXCEPT ![z] = k, ![a] = 0]
  <2>1. Removed(set, a) = [values |-> w, indexes |-> ix]
    BY <1>2 DEF Removed
  <2>2. /\ v \in Seq(Owners) /\ n \in Nat /\ set.indexes \in [Owners -> Nat]
        /\ Elements(set) = {v[i] : i \in 1..n}
        /\ \A i \in 1..n : v[i] \in Owners /\ set.indexes[v[i]] = i
        /\ \A b \in Owners \ Elements(set) : set.indexes[b] = 0
    BY ProperFacts DEF Elements, ToSet
  <2>3. k \in 1..n /\ v[k] = a
    BY <1>2, ProperFacts, HasIsMember
  <2>4. n \in 1..n /\ z = v[n] /\ z \in Owners
    BY <2>2, <2>3 DEF Last
  <2>5. u \in Seq(Owners) /\ Len(u) = n /\ \A i \in 1..n : u[i] = IF i = k THEN z ELSE v[i]
    BY <2>2, <2>3, <2>4, ExceptSeq
  <2> HIDE DEF u
  <2>6. /\ w \in Seq(Owners) /\ Len(w) = n - 1
        /\ \A i \in 1..(n - 1) : w[i] = u[i]
    <3>1. \A i \in 1..(n - 1) : u[i] \in Owners
      BY <2>5, <2>2, <2>4
    <3>2. w = SubSeq(u, 1, n - 1)
      BY <2>5 DEF Front
    <3> HIDE DEF w
    <3> QED
      BY <3>1, <3>2, <2>2, <2>4, SubSeqProperties
  <2>7. ix \in [Owners -> Nat] /\ ix[a] = 0 /\ (z # a => ix[z] = k)
        /\ \A b \in Owners \ {a, z} : ix[b] = set.indexes[b]
    BY <2>2, <2>3, <2>4
  <2> HIDE DEF w, ix, v, n, k, z
  <2>8. ASSUME NEW i \in 1..(n - 1) PROVE ix[w[i]] = i
    <3>1. i \in 1..n /\ n # i
      BY <2>2
    <3>2. CASE i = k
      <4>1. w[i] = z
        BY <3>1, <3>2, <2>5, <2>6
      <4>2. z # a
        BY <3>1, <3>2, <2>2, <2>3, <2>4
      <4> QED
        BY <3>2, <4>1, <4>2, <2>7
    <3>3. CASE i # k
      <4>1. w[i] = v[i]
        BY <3>1, <3>3, <2>5, <2>6
      <4>2. v[i] # a /\ v[i] # z
        BY <3>1, <3>3, <2>2, <2>3, <2>4
      <4> QED
        BY <3>1, <4>1, <4>2, <2>2, <2>7
    <3> QED
      BY <3>2, <3>3
  <2>9. {w[i] : i \in 1..(n - 1)} = Elements(set) \ {a}
    <3>1. ASSUME NEW i \in 1..(n - 1) PROVE w[i] \in Elements(set) \ {a}
      <4>1. i \in 1..n /\ i # n
        BY <2>2
      <4>2. CASE i = k
        <5>1. w[i] = z /\ z # a
          BY <4>1, <4>2, <2>2, <2>3, <2>4, <2>5, <2>6
        <5> QED
          BY <5>1, <2>2, <2>4
      <4>3. CASE i # k
        <5>1. w[i] = v[i] /\ v[i] # a
          BY <4>1, <4>3, <2>2, <2>3, <2>5, <2>6
        <5> QED
          BY <5>1, <4>1, <2>2
      <4> QED
        BY <4>2, <4>3
    <3>2. ASSUME NEW b \in Elements(set) \ {a} PROVE \E i \in 1..(n - 1) : w[i] = b
      <4>1. PICK i \in 1..n : v[i] = b
        BY <2>2
      <4>2. i # k
        BY <4>1, <2>3
      <4>3. CASE i = n
        <5>1. k \in 1..(n - 1) /\ w[k] = z
          <6>1. k \in 1..n /\ k # n /\ n \in Nat
            BY <4>2, <4>3, <2>2, <2>3
          <6>2. k \in 1..(n - 1)
            BY <6>1
          <6> QED
            BY <6>2, <2>5, <2>6
        <5> QED
          BY <4>1, <4>3, <5>1, <2>4
      <4>4. CASE i # n
        <5>1. i \in 1..(n - 1)
          BY <4>4, <2>2
        <5> QED
          BY <4>1, <4>2, <5>1, <2>5, <2>6
      <4> QED
        BY <4>3, <4>4
    <3> QED
      BY <3>1, <3>2
  <2>10. ASSUME NEW b \in Owners, \A i \in 1..(n - 1) : w[i] # b PROVE ix[b] = 0
    <3>1. b \notin Elements(set) \ {a}
      BY <2>10, <2>9
    <3>2. CASE b = a
      BY <3>2, <2>7
    <3>3. CASE b # a
      <4>1. b \notin Elements(set) /\ b # z
        BY <3>1, <3>3, <2>2, <2>4
      <4> QED
        BY <3>3, <4>1, <2>2, <2>7
    <3> QED
      BY <3>2, <3>3
  <2>11. Removed(set, a) \in Proper
    BY <2>1, <2>6, <2>7, <2>8, <2>10, MakeProper
  <2>12. Elements(Removed(set, a)) = {w[i] : i \in 1..(n - 1)}
    BY <2>1, <2>2, <2>6 DEF Elements, ToSet
  <2>13. Len(Removed(set, a).values) = n - 1
    BY <2>1, <2>6
  <2> QED
    BY <2>9, <2>11, <2>12, <2>13 DEF n, v
<1> QED
  BY <1>1, <1>2

LEMMA ClearedFacts ==
    ASSUME NEW set \in Proper
    PROVE  Cleared(set) \in Proper /\ Elements(Cleared(set)) = {}
<1> DEFINE v == <<>>
           ix == [a \in Owners |-> IF Contains(set.values, a) THEN 0 ELSE set.indexes[a]]
<1>1. v \in Seq(Owners) /\ Len(v) = 0
  OBVIOUS
<1>2. ix \in [Owners -> Nat] /\ \A a \in Owners : ix[a] = 0
  <2>1. ASSUME NEW a \in Owners PROVE ix[a] = 0
    <3>1. CASE Contains(set.values, a)
      BY <3>1
    <3>2. CASE ~Contains(set.values, a)
      <4>1. a \notin Elements(set)
        BY <3>2, ProperFacts DEF Contains, Elements, ToSet
      <4> QED
        BY <3>2, <4>1, ProperFacts
    <3> QED
      BY <3>1, <3>2
  <2> HIDE DEF v
  <2> QED
    BY <2>1
<1>3. Cleared(set) = [values |-> v, indexes |-> ix]
  BY DEF Cleared
<1> HIDE DEF v, ix
<1>4. Cleared(set) \in Proper
  <2>1. \A i \in 1..Len(v) : ix[v[i]] = i
    BY <1>1
  <2> QED
    BY <1>1, <1>2, <1>3, <2>1, MakeProper
<1>5. Elements(Cleared(set)) = {}
  BY <1>1, <1>3 DEF Elements, ToSet
<1> QED
  BY <1>4, <1>5

\* An array has as many places as its set has elements.
\* A sequence without repetitions has as many places as members.
LEMMA DistinctSize ==
    ASSUME NEW S, NEW s \in Seq(S), \A i, k \in 1..Len(s) : s[i] = s[k] => i = k
    PROVE  IsFiniteSet(ToSet(s)) /\ Cardinality(ToSet(s)) = Len(s)
<1> DEFINE n == Len(s)
           f == [i \in 1..n |-> s[i]]
<1>1. n \in Nat /\ IsFiniteSet(1..n) /\ Cardinality(1..n) = n
  <2>1. n \in Nat
    OBVIOUS
  <2> HIDE DEF n
  <2> QED
    BY <2>1, FS_Interval
<1>2. f \in Bijection(1..n, ToSet(s))
  <2>1. \A i \in 1..n : f[i] \in ToSet(s)
    BY DEF ToSet
  <2>2. \A b \in ToSet(s) : \E i \in 1..n : f[i] = b
    BY DEF ToSet
  <2>3. \A i, k \in 1..n : f[i] = f[k] => i = k
    OBVIOUS
  <2>4. f \in [1..n -> ToSet(s)]
    BY <2>1
  <2> HIDE DEF f, n
  <2>5. f \in Injection(1..n, ToSet(s)) /\ f \in Surjection(1..n, ToSet(s))
    BY <2>2, <2>3, <2>4 DEF Injection, IsInjective, Surjection
  <2> QED
    BY <2>5 DEF Bijection
<1>3. ExistsBijection(1..n, ToSet(s))
  BY <1>2 DEF ExistsBijection
<1> HIDE DEF n, f
<1>4. IsFiniteSet(ToSet(s)) /\ Cardinality(ToSet(s)) = n
  BY <1>1, <1>3, FS_Bijection
<1> QED
  BY <1>4 DEF n

LEMMA ProperSize ==
    ASSUME NEW set \in Proper
    PROVE  IsFiniteSet(Elements(set)) /\ Cardinality(Elements(set)) = Len(set.values)
<1>1. /\ set.values \in Seq(Owners)
      /\ \A i, k \in 1..Len(set.values) : set.values[i] = set.values[k] => i = k
  BY ProperFacts
<1> QED
  BY <1>1, DistinctSize DEF Elements

-----------------------------------------------------------------------------
(***************************************************************************)
(* The loops of SubscribedOraclesLib.                                      *)
(***************************************************************************)
\* An owner with its stake, and one pass of the loops that look for one.
Found(A) == [addr : A, stake : Nat]

Poorer(min, v, st) == IF st[v] < min.stake THEN [addr |-> v, stake |-> st[v]] ELSE min

Richer(max, v, st) ==
    IF v # 0 /\ BalanceAt(v, st) > max.stake
    THEN [addr |-> v, stake |-> BalanceAt(v, st)]
    ELSE max

\* What getMin finds: an owner with the least stake.
LeastFound(min, A, values, st) ==
    /\ min.addr \in ToSet(values) /\ min.addr \in A /\ min.stake = st[min.addr]
    /\ \A v \in ToSet(values) : min.stake <= st[v]

LEMMA PoorestFound ==
    ASSUME NEW A, NEW st \in [A -> Nat], NEW values \in Seq(A), values # <<>>
    PROVE  LeastFound(GetMin(values, st), A, values, st)
<1> DEFINE first == Head(values)
           rest == Tail(values)
           n == Len(rest)
           m == Len(values)
           found == GetMin(values, st)
<1>1. /\ m \in Nat \ {0} /\ DOMAIN values = 1..m /\ n \in Nat /\ n = m - 1
      /\ first = values[1] /\ first \in A /\ rest \in Seq(A) /\ DOMAIN rest = 1..n
      /\ \A i \in 1..n : rest[i] = values[i + 1] /\ rest[i] \in A
      /\ \A i \in 1..m : values[i] \in A
  BY HeadTailProperties, EmptySeq
<1> HIDE DEF first, rest, n, m, found
<1>2. PICK t \in [0..n -> Found(A)] :
          /\ t[0] = [addr |-> first, stake |-> st[first]]
          /\ \A i \in 1..n : t[i] = Poorer(t[i - 1], rest[i], st)
          /\ found = t[n]
  <2> DEFINE base == [addr |-> first, stake |-> st[first]]
             G == [p \in Found(A) \X (1..n) |-> Poorer(p[1], rest[p[2]], st)]
             Fits(f) == f = [s \in SUBSET (1..n) |->
                               IF s = {} THEN base
                               ELSE Poorer(f[s \ {Greatest(s)}], rest[Greatest(s)], st)]
             h == CHOOSE f : Fits(f)
  <2>1. base \in Found(A)
    BY <1>1 DEF Found
  <2>2. ASSUME NEW v \in Found(A), NEW i \in 1..n PROVE Poorer(v, rest[i], st) \in Found(A)
    BY <1>1 DEF Found, Poorer
  <2> HIDE DEF base
  <2>3. G \in [Found(A) \X (1..n) -> Found(A)]
    BY <1>1, <2>2
  <2>4. PICK g \in [SUBSET (1..n) -> Found(A)] : LoopsOver(g, G, base, 1..n)
    <3> HIDE DEF G
    <3> QED
      BY <1>1, <2>1, <2>3, LoopExists
  <2>5. Fits(g)
    BY <1>1, <2>4, GreatestInPlaces DEF LoopsOver
  <2>6. Fits(h)
    BY <2>5
  <2>7. found = h[1..n]
    <3>1. found = FoldLeft(LAMBDA c, v : Poorer(c, v, st), base, rest)
      BY DEF GetMin, Poorer, found, first, rest, base
    <3>2. FoldLeft(LAMBDA c, v : Poorer(c, v, st), base, rest) = (CHOOSE f : Fits(f))[1..n]
      BY <1>1 DEF FoldLeft, MapThenFoldSet, Max, Greatest
    <3> QED
      BY <3>1, <3>2
  <2> HIDE DEF h
  <2>8. \A s \in SUBSET (1..n) : s # {} /\ h[s \ {Greatest(s)}] \in Found(A) =>
           h[s] = G[<<h[s \ {Greatest(s)}], Greatest(s)>>]
    BY <1>1, <2>6, GreatestInPlaces
  <2>9. StepsAs(h, G, Found(A), base, n)
    BY <2>6, <2>8 DEF StepsAs
  <2> HIDE DEF Fits
  <2>10. PICK t \in [0..n -> Found(A)] : LoopStates(t, h, G, base, n)
    <3> HIDE DEF G
    <3> QED
      BY <1>1, <2>1, <2>3, <2>9, LoopTrace
  <2>11. ASSUME NEW i \in 1..n PROVE G[<<t[i - 1], i>>] = Poorer(t[i - 1], rest[i], st)
    <3>1. i - 1 \in 0..n
      BY <1>1
    <3>2. t[i - 1] \in Found(A)
      BY <3>1
    <3> QED
      BY <3>2
  <2> QED
    BY <2>7, <2>10, <2>11 DEF base, LoopStates
<1> DEFINE Good == {i \in 0..n : /\ \E k \in 1..(i + 1) : t[i].addr = values[k]
                                /\ t[i].stake = st[t[i].addr]
                                /\ \A k \in 1..(i + 1) : t[i].stake <= st[values[k]]}
<1>3. 0 \in Good
  <2>1. \A k \in 1..(0 + 1) : k = 1
    OBVIOUS
  <2>2. 0 \in 0..n /\ 1 \in 1..(0 + 1) /\ 1 \in 1..m /\ st[first] \in Nat
    BY <1>1
  <2> QED
    BY <1>1, <1>2, <2>1, <2>2
<1>4. ASSUME NEW i \in 1..n, i - 1 \in Good PROVE i \in Good
  <2> DEFINE p == t[i - 1]
  <2>1. i - 1 \in 0..n /\ (i - 1) + 1 = i /\ i + 1 \in 1..m /\ i \in 0..n /\ 1..i \subseteq 1..(i + 1)
    BY <1>1
  <2>2. p \in Found(A) /\ p.addr \in A /\ p.stake \in Nat
    BY <2>1 DEF Found
  <2>3. PICK k \in 1..i : p.addr = values[k]
    BY <1>4, <2>1
  <2>4. p.stake = st[p.addr] /\ \A j \in 1..i : p.stake <= st[values[j]]
    BY <1>4, <2>1
  <2>5. values[i + 1] \in A /\ rest[i] = values[i + 1] /\ st[values[i + 1]] \in Nat
    BY <1>1, <2>1
  <2>6. t[i] = Poorer(p, values[i + 1], st)
    BY <1>2, <2>5
  <2>7. \A j \in 1..i : values[j] \in A /\ st[values[j]] \in Nat
    BY <1>1, <2>1
  <2> HIDE DEF p
  <2>8. (\E j \in 1..(i + 1) : t[i].addr = values[j]) /\ t[i].stake = st[t[i].addr]
    BY <2>1, <2>2, <2>3, <2>4, <2>5, <2>6 DEF Poorer
  <2>9. ASSUME NEW j \in 1..(i + 1) PROVE t[i].stake <= st[values[j]]
    <3>1. CASE j = i + 1
      BY <3>1, <2>2, <2>5, <2>6 DEF Poorer
    <3>2. CASE j # i + 1
      <4>1. j \in 1..i
        BY <3>2
      <4>2. p.stake <= st[values[j]]
        BY <4>1, <2>4
      <4> QED
        BY <4>1, <4>2, <2>2, <2>5, <2>6, <2>7 DEF Poorer
    <3> QED
      BY <3>1, <3>2
  <2> QED
    BY <2>1, <2>8, <2>9
<1>5. n \in Good
  <2> HIDE DEF Good
  <2>1. \A i \in 0..n : i \in Good
    BY <1>1, <1>3, <1>4, CountingInduction
  <2> QED
    BY <1>1, <2>1
<1>6. 1..(n + 1) = 1..m
  BY <1>1
<1>7. /\ \E k \in 1..m : found.addr = values[k]
      /\ found.stake = st[found.addr]
      /\ \A k \in 1..m : found.stake <= st[values[k]]
  BY <1>2, <1>5, <1>6
<1>8. LeastFound(found, A, values, st)
  BY <1>1, <1>7 DEF ToSet, LeastFound
<1> QED
  BY <1>8 DEF found

\* getMaxMOCBalance finds an address with the most stake, address(0) only when
\* that is the first.
LEMMA RichestFound ==
    ASSUME NEW A, 0 \notin A, NEW st \in [A -> Nat], NEW values \in Seq(A \cup {0}), values # <<>>
    PROVE  LET found == GetMaxMOCBalance(values, st)
           IN  /\ found.addr \in ToSet(values)
               /\ found.stake = BalanceAt(found.addr, st)
               /\ \A v \in ToSet(values) : BalanceAt(v, st) <= found.stake
               /\ found.addr = 0 => values[1] = 0
<1> DEFINE B == A \cup {0}
           first == Head(values)
           rest == Tail(values)
           n == Len(rest)
           m == Len(values)
           found == GetMaxMOCBalance(values, st)
<1>0. BalanceAt(0, st) = 0 /\ \A v \in B : BalanceAt(v, st) \in Nat
  BY DEF BalanceAt
<1>1. /\ m \in Nat \ {0} /\ DOMAIN values = 1..m /\ n \in Nat /\ n = m - 1
      /\ first = values[1] /\ first \in B /\ rest \in Seq(B) /\ DOMAIN rest = 1..n
      /\ \A i \in 1..n : rest[i] = values[i + 1] /\ rest[i] \in B
      /\ \A i \in 1..m : values[i] \in B
  BY HeadTailProperties, EmptySeq
<1> HIDE DEF first, rest, n, m, found
<1> HIDE DEF B
<1>2. PICK t \in [0..n -> Found(B)] :
          /\ t[0] = [addr |-> first, stake |-> BalanceAt(first, st)]
          /\ \A i \in 1..n : t[i] = Richer(t[i - 1], rest[i], st)
          /\ found = t[n]
  <2> DEFINE base == [addr |-> first, stake |-> BalanceAt(first, st)]
             G == [p \in Found(B) \X (1..n) |-> Richer(p[1], rest[p[2]], st)]
             Fits(f) == f = [s \in SUBSET (1..n) |->
                               IF s = {} THEN base
                               ELSE Richer(f[s \ {Greatest(s)}], rest[Greatest(s)], st)]
             h == CHOOSE f : Fits(f)
  <2>1. base \in Found(B)
    BY <1>0, <1>1 DEF Found
  <2>2. ASSUME NEW v \in Found(B), NEW i \in 1..n PROVE Richer(v, rest[i], st) \in Found(B)
    BY <1>0, <1>1 DEF Found, Richer
  <2> HIDE DEF base
  <2>3. G \in [Found(B) \X (1..n) -> Found(B)]
    BY <1>1, <2>2
  <2>4. PICK g \in [SUBSET (1..n) -> Found(B)] : LoopsOver(g, G, base, 1..n)
    <3> HIDE DEF G
    <3> QED
      BY <1>1, <2>1, <2>3, LoopExists
  <2>5. Fits(g)
    BY <1>1, <2>4, GreatestInPlaces DEF LoopsOver
  <2>6. Fits(h)
    BY <2>5
  <2>7. found = h[1..n]
    <3>1. found = FoldLeft(LAMBDA c, v : Richer(c, v, st), base, rest)
      BY DEF GetMaxMOCBalance, Richer, found, first, rest, base
    <3>2. FoldLeft(LAMBDA c, v : Richer(c, v, st), base, rest) = (CHOOSE f : Fits(f))[1..n]
      BY <1>1 DEF FoldLeft, MapThenFoldSet, Max, Greatest
    <3> QED
      BY <3>1, <3>2
  <2> HIDE DEF h
  <2>8. \A s \in SUBSET (1..n) : s # {} /\ h[s \ {Greatest(s)}] \in Found(B) =>
           h[s] = G[<<h[s \ {Greatest(s)}], Greatest(s)>>]
    BY <1>1, <2>6, GreatestInPlaces
  <2>9. StepsAs(h, G, Found(B), base, n)
    BY <2>6, <2>8 DEF StepsAs
  <2> HIDE DEF Fits
  <2>10. PICK t \in [0..n -> Found(B)] : LoopStates(t, h, G, base, n)
    <3> HIDE DEF G
    <3> QED
      BY <1>1, <2>1, <2>3, <2>9, LoopTrace
  <2>11. ASSUME NEW i \in 1..n PROVE G[<<t[i - 1], i>>] = Richer(t[i - 1], rest[i], st)
    <3>1. i - 1 \in 0..n
      BY <1>1
    <3>2. t[i - 1] \in Found(B)
      BY <3>1
    <3> QED
      BY <3>2
  <2> QED
    BY <2>7, <2>10, <2>11 DEF base, LoopStates
<1> DEFINE Reached(i) == /\ \E k \in 1..(i + 1) : t[i].addr = values[k]
                         /\ t[i].stake = BalanceAt(t[i].addr, st)
                         /\ \A k \in 1..(i + 1) : BalanceAt(values[k], st) <= t[i].stake
                         /\ t[i].addr = 0 => values[1] = 0
           Good == {i \in 0..n : Reached(i)}
<1>3. 0 \in Good
  <2>1. \A k \in 1..(0 + 1) : k = 1
    OBVIOUS
  <2>2. 0 \in 0..n /\ 1 \in 1..(0 + 1) /\ 1 \in 1..m /\ BalanceAt(first, st) \in Nat
    BY <1>0, <1>1
  <2> QED
    BY <1>1, <1>2, <2>1, <2>2
<1>4. ASSUME NEW i \in 1..n, i - 1 \in Good PROVE i \in Good
  <2> DEFINE p == t[i - 1]
  <2>1. i - 1 \in 0..n /\ (i - 1) + 1 = i /\ i + 1 \in 1..m /\ i \in 0..n /\ 1..i \subseteq 1..(i + 1)
    BY <1>1
  <2>2. p \in Found(B) /\ p.addr \in B /\ p.stake \in Nat
    BY <2>1 DEF Found
  <2>3. PICK k \in 1..i : p.addr = values[k]
    BY <1>4, <2>1
  <2>4. p.stake = BalanceAt(p.addr, st) /\ \A j \in 1..i : BalanceAt(values[j], st) <= p.stake
    BY <1>4, <2>1
  <2>5. values[i + 1] \in B /\ rest[i] = values[i + 1] /\ BalanceAt(values[i + 1], st) \in Nat
    BY <1>0, <1>1, <2>1
  <2>6. t[i] = Richer(p, values[i + 1], st)
    BY <1>2, <2>5
  <2>7. \A j \in 1..i : values[j] \in B /\ BalanceAt(values[j], st) \in Nat
    BY <1>0, <1>1, <2>1
  <2> HIDE DEF p
  <2>8. (\E j \in 1..(i + 1) : t[i].addr = values[j]) /\ t[i].stake = BalanceAt(t[i].addr, st)
    BY <2>1, <2>2, <2>3, <2>4, <2>5, <2>6 DEF Richer
  <2>9. ASSUME NEW j \in 1..(i + 1) PROVE BalanceAt(values[j], st) <= t[i].stake
    <3>1. CASE j = i + 1
      BY <1>0, <3>1, <2>2, <2>5, <2>6 DEF Richer
    <3>2. CASE j # i + 1
      <4>1. j \in 1..i
        BY <3>2
      <4>2. BalanceAt(values[j], st) <= p.stake
        BY <4>1, <2>4
      <4> QED
        BY <4>1, <4>2, <2>2, <2>5, <2>6, <2>7 DEF Richer
    <3> QED
      BY <3>1, <3>2
  <2>10. t[i].addr = 0 => values[1] = 0
    BY <1>4, <2>1, <2>2, <2>6 DEF Richer, p
  <2> QED
    BY <2>1, <2>8, <2>9, <2>10
<1>5. n \in Good
  <2> HIDE DEF Good
  <2>1. \A i \in 0..n : i \in Good
    BY <1>1, <1>3, <1>4, CountingInduction
  <2> QED
    BY <1>1, <2>1
<1>6. 1..(n + 1) = 1..m
  BY <1>1
<1>7. /\ \E k \in 1..m : found.addr = values[k]
      /\ found.stake = BalanceAt(found.addr, st)
      /\ \A k \in 1..m : BalanceAt(values[k], st) <= found.stake
      /\ found.addr = 0 => values[1] = 0
  BY <1>2, <1>5, <1>6
<1> QED
  BY <1>1, <1>7 DEF ToSet, found

-----------------------------------------------------------------------------
(***************************************************************************)
(* Elements of sequences.                                                  *)
(***************************************************************************)
LEMMA AppendToSet ==
    ASSUME NEW S, NEW s \in Seq(S), NEW e \in S
    PROVE  ToSet(Append(s, e)) = ToSet(s) \cup {e}
<1> DEFINE w == Append(s, e)
           n == Len(s)
<1>1. /\ n \in Nat /\ DOMAIN s = 1..n /\ DOMAIN w = 1..(n + 1)
      /\ \A i \in 1..n : w[i] = s[i]
      /\ w[n + 1] = e
  OBVIOUS
<1> HIDE DEF w, n
<1>2. \A i \in 1..(n + 1) : i \in 1..n \/ i = n + 1
  BY <1>1
<1>3. 1..n \subseteq 1..(n + 1) /\ n + 1 \in 1..(n + 1)
  BY <1>1
<1>4. ToSet(w) = ToSet(s) \cup {e}
  BY <1>1, <1>2, <1>3 DEF ToSet
<1> QED
  BY <1>4 DEF w

\* What a new array holds before it is written to.
LEMMA PadFound ==
    ASSUME NEW n \in Nat, NEW S, NEW w \in Seq(S)
    PROVE  \E k \in Nat : LET pad == [i \in 1..(n - Len(w)) |-> 0]
                          IN  /\ pad \in Seq({0}) /\ Len(pad) = k
                              /\ \A i \in 1..k : pad[i] = 0
<1> DEFINE d == n - Len(w)
           k == IF d > 0 THEN d ELSE 0
           pad == [i \in 1..d |-> 0]
<1>1. d \in Int /\ k \in Nat /\ 1..d = 1..k
  OBVIOUS
<1>2. pad = [i \in 1..k |-> 0]
  BY <1>1
<1> HIDE DEF d, k
<1> HIDE DEF pad
<1>3. pad \in Seq({0}) /\ Len(pad) = k /\ \A i \in 1..k : pad[i] = 0
  BY <1>1, <1>2
<1> QED
  BY <1>1, <1>3 DEF d, pad

\* One pass of the loop that collects those without a seat.
Kept(waiting, v, chosen) == IF v \in chosen THEN waiting ELSE Append(waiting, v)

LEMMA RemainingFound ==
    ASSUME NEW A, NEW values \in Seq(A), NEW chosen
    PROVE  /\ Remaining(values, chosen) \in Seq(A)
           /\ ToSet(Remaining(values, chosen)) = ToSet(values) \ chosen
<1> DEFINE n == Len(values)
           found == Remaining(values, chosen)
<1>1. n \in Nat /\ DOMAIN values = 1..n /\ \A i \in 1..n : values[i] \in A
  OBVIOUS
<1> HIDE DEF n, found
<1>2. PICK t \in [0..n -> Seq(A)] :
          /\ t[0] = <<>>
          /\ \A i \in 1..n : t[i] = Kept(t[i - 1], values[i], chosen)
          /\ found = t[n]
  <2> DEFINE base == <<>>
             G == [p \in Seq(A) \X (1..n) |-> Kept(p[1], values[p[2]], chosen)]
             Fits(f) == f = [s \in SUBSET (1..n) |->
                               IF s = {} THEN base
                               ELSE Kept(f[s \ {Greatest(s)}], values[Greatest(s)], chosen)]
             h == CHOOSE f : Fits(f)
  <2>1. base \in Seq(A)
    OBVIOUS
  <2>2. ASSUME NEW v \in Seq(A), NEW i \in 1..n PROVE Kept(v, values[i], chosen) \in Seq(A)
    BY <1>1 DEF Kept
  <2> HIDE DEF base
  <2>3. G \in [Seq(A) \X (1..n) -> Seq(A)]
    BY <2>2
  <2>4. PICK g \in [SUBSET (1..n) -> Seq(A)] : LoopsOver(g, G, base, 1..n)
    <3> HIDE DEF G
    <3> QED
      BY <1>1, <2>1, <2>3, LoopExists
  <2>5. Fits(g)
    BY <1>1, <2>4, GreatestInPlaces DEF LoopsOver
  <2>6. Fits(h)
    BY <2>5
  <2>7. found = h[1..n]
    <3>1. found = FoldLeft(LAMBDA u, v : Kept(u, v, chosen), base, values)
      BY DEF Remaining, Kept, found, base
    <3>2. FoldLeft(LAMBDA u, v : Kept(u, v, chosen), base, values) = (CHOOSE f : Fits(f))[1..n]
      BY <1>1 DEF FoldLeft, MapThenFoldSet, Max, Greatest
    <3> QED
      BY <3>1, <3>2
  <2> HIDE DEF h
  <2>8. \A s \in SUBSET (1..n) : s # {} /\ h[s \ {Greatest(s)}] \in Seq(A) =>
           h[s] = G[<<h[s \ {Greatest(s)}], Greatest(s)>>]
    BY <1>1, <2>6, GreatestInPlaces
  <2>9. StepsAs(h, G, Seq(A), base, n)
    BY <2>6, <2>8 DEF StepsAs
  <2> HIDE DEF Fits
  <2>10. PICK t \in [0..n -> Seq(A)] : LoopStates(t, h, G, base, n)
    <3> HIDE DEF G
    <3> QED
      BY <1>1, <2>1, <2>3, <2>9, LoopTrace
  <2>11. ASSUME NEW i \in 1..n PROVE G[<<t[i - 1], i>>] = Kept(t[i - 1], values[i], chosen)
    <3>1. i - 1 \in 0..n
      BY <1>1
    <3>2. t[i - 1] \in Seq(A)
      BY <3>1
    <3> QED
      BY <3>2
  <2> QED
    BY <2>7, <2>10, <2>11 DEF base, LoopStates
<1> DEFINE Before(i) == {values[k] : k \in 1..i}
           Good == {i \in 0..n : ToSet(t[i]) = Before(i) \ chosen}
<1>3. 0 \in Good
  <2>1. 0 \in 0..n /\ Before(0) = {}
    BY <1>1
  <2>2. ToSet(t[0]) = {}
    BY <1>2 DEF ToSet
  <2> QED
    BY <2>1, <2>2
<1>4. ASSUME NEW i \in 1..n, i - 1 \in Good PROVE i \in Good
  <2> DEFINE u == t[i - 1]
             v == values[i]
  <2>1. i - 1 \in 0..n /\ i \in 0..n /\ 1..i = (1..(i - 1)) \cup {i}
    BY <1>1
  <2>2. u \in Seq(A) /\ v \in A /\ ToSet(u) = Before(i - 1) \ chosen
    BY <1>1, <1>4, <2>1
  <2>3. Before(i) = Before(i - 1) \cup {v}
    BY <2>1
  <2>4. t[i] = Kept(u, v, chosen)
    BY <1>2
  <2> HIDE DEF u, v, Before
  <2>5. CASE v \in chosen
    BY <2>1, <2>2, <2>3, <2>4, <2>5 DEF Kept
  <2>6. CASE v \notin chosen
    <3>1. t[i] = Append(u, v)
      BY <2>4, <2>6 DEF Kept
    <3>2. ToSet(Append(u, v)) = ToSet(u) \cup {v}
      BY <2>2, AppendToSet
    <3> QED
      BY <2>1, <2>2, <2>3, <2>6, <3>1, <3>2
  <2> QED
    BY <2>5, <2>6
<1>5. n \in Good
  <2> HIDE DEF Good
  <2>1. \A i \in 0..n : i \in Good
    BY <1>1, <1>3, <1>4, CountingInduction
  <2> QED
    BY <1>1, <2>1
<1>6. Before(n) = ToSet(values)
  BY <1>1 DEF ToSet
<1>7. found \in Seq(A) /\ ToSet(found) = ToSet(values) \ chosen
  BY <1>1, <1>2, <1>5, <1>6
<1> QED
  BY <1>7 DEF found

\* The array that getMaxUnselectedStake asks about holds these and address(0),
\* which comes first only when there are none.
LEMMA UnselectedFound ==
    ASSUME NEW A, 0 \notin A, NEW values \in Seq(A), NEW chosen
    PROVE  /\ Unselected(values, chosen) \in Seq(A \cup {0})
           /\ ToSet(values) \ chosen \subseteq ToSet(Unselected(values, chosen))
           /\ ToSet(Unselected(values, chosen)) \subseteq (ToSet(values) \ chosen) \cup {0}
           /\ ToSet(values) \ chosen # {} => /\ Unselected(values, chosen) # <<>>
                                             /\ Unselected(values, chosen)[1] # 0
<1> DEFINE w == Remaining(values, chosen)
           pad == [i \in 1..(Len(values) - Len(w)) |-> 0]
           u == Unselected(values, chosen)
           waiting == ToSet(values) \ chosen
<1>1. w \in Seq(A) /\ ToSet(w) = waiting
  BY RemainingFound
<1>2. u = w \o pad
  BY DEF Unselected
<1>3. Len(values) \in Nat
  OBVIOUS
<1> SUFFICES /\ u \in Seq(A \cup {0})
             /\ waiting \subseteq ToSet(u)
             /\ ToSet(u) \subseteq waiting \cup {0}
             /\ waiting # {} => u # <<>> /\ u[1] # 0
  OBVIOUS
<1> HIDE DEF w, u, waiting
<1>4. PICK k \in Nat : pad \in Seq({0}) /\ Len(pad) = k /\ \A i \in 1..k : pad[i] = 0
  BY <1>1, <1>3, PadFound
<1> HIDE DEF pad
<1> DEFINE n == Len(w)
<1>5. n \in Nat /\ DOMAIN w = 1..n /\ \A i \in 1..n : w[i] \in A
  BY <1>1
<1>6. /\ u \in Seq(A \cup {0}) /\ Len(u) = n + k /\ DOMAIN u = 1..(n + k)
      /\ \A i \in 1..(n + k) : u[i] = IF i <= n THEN w[i] ELSE 0
  <2>1. w \in Seq(A \cup {0}) /\ pad \in Seq(A \cup {0})
    BY <1>1, <1>4
  <2>2. u \in Seq(A \cup {0}) /\ Len(u) = Len(w) + Len(pad)
    BY <1>2, <2>1
  <2>3. \A i \in 1..(Len(w) + Len(pad)) : u[i] = IF i <= Len(w) THEN w[i] ELSE pad[i - Len(w)]
    BY <1>2, <2>1
  <2>4. DOMAIN u = 1..(n + k)
    BY <1>4, <2>2
  <2>5. ASSUME NEW i \in 1..(n + k) PROVE u[i] = IF i <= n THEN w[i] ELSE 0
    <3>1. u[i] = IF i <= n THEN w[i] ELSE pad[i - n]
      BY <1>4, <2>3
    <3>2. i <= n \/ i - n \in 1..k
      BY <1>4, <1>5
    <3> QED
      BY <1>4, <3>1, <3>2
  <2> QED
    BY <1>4, <2>2, <2>4, <2>5
<1> HIDE DEF n
<1>7. ASSUME NEW v \in ToSet(w) PROVE v \in ToSet(u)
  BY <1>4, <1>5, <1>6, <1>7 DEF ToSet
<1>8. ASSUME NEW v \in ToSet(u) PROVE v \in ToSet(w) \cup {0}
  BY <1>4, <1>5, <1>6, <1>8 DEF ToSet
<1>9. ASSUME waiting # {} PROVE u # <<>> /\ u[1] # 0
  <2>1. n > 0
    BY <1>1, <1>5, <1>9 DEF ToSet
  <2>2. 1 \in 1..n /\ 1 \in 1..(n + k)
    BY <1>4, <1>5, <2>1
  <2> QED
    BY <1>5, <1>6, <2>2
<1> QED
  BY <1>1, <1>6, <1>7, <1>8, <1>9

\* getMaxUnselectedStake finds the owner with the most stake among those without
\* a seat, if there is any.
MostFound(max, A, waiting, st) ==
    IF waiting = {}
    THEN max.addr = 0 /\ max.stake = 0
    ELSE /\ max.addr \in waiting /\ max.addr \in A /\ max.stake = st[max.addr]
         /\ \A v \in waiting : st[v] <= max.stake

LEMMA RichestUnselectedFound ==
    ASSUME NEW A, 0 \notin A, NEW st \in [A -> Nat], NEW values \in Seq(A), NEW chosen
    PROVE  MostFound(GetMaxUnselectedStake(values, st, chosen), A, ToSet(values) \ chosen, st)
<1> DEFINE u == Unselected(values, chosen)
           most == GetMaxUnselectedStake(values, st, chosen)
           waiting == ToSet(values) \ chosen
<1>1. /\ u \in Seq(A \cup {0})
      /\ waiting \subseteq ToSet(u) /\ ToSet(u) \subseteq waiting \cup {0}
      /\ waiting # {} => u # <<>> /\ u[1] # 0
  BY UnselectedFound
<1>2. most = GetMaxMOCBalance(u, st)
  BY DEF GetMaxUnselectedStake
<1>3. waiting \subseteq A
  BY DEF ToSet
<1> SUFFICES MostFound(most, A, waiting, st)
  OBVIOUS
<1> HIDE DEF most, waiting, u
<1>4. CASE u = <<>>
  <2>1. GetMaxMOCBalance(u, st) = NoOracle
    BY <1>4 DEF GetMaxMOCBalance
  <2> QED
    BY <1>1, <1>2, <1>4, <2>1 DEF NoOracle, MostFound
<1>5. CASE u # <<>>
  <2>1. /\ most.addr \in ToSet(u)
        /\ most.stake = BalanceAt(most.addr, st)
        /\ \A v \in ToSet(u) : BalanceAt(v, st) <= most.stake
        /\ most.addr = 0 => u[1] = 0
    BY <1>1, <1>2, <1>5, RichestFound
  <2>2. CASE waiting = {}
    BY <1>1, <2>1, <2>2 DEF MostFound, BalanceAt
  <2>3. CASE waiting # {}
    <3>1. most.addr \in waiting /\ most.addr # 0
      BY <1>1, <2>1, <2>3
    <3>2. \A v \in waiting : v \in ToSet(u) /\ BalanceAt(v, st) = st[v]
      BY <1>1, <1>3 DEF BalanceAt
    <3> QED
      BY <1>3, <2>1, <2>3, <3>1, <3>2 DEF MostFound
  <2> QED
    BY <2>2, <2>3
<1> QED
  BY <1>4, <1>5

-----------------------------------------------------------------------------
(***************************************************************************)
(* sort.                                                                   *)
(***************************************************************************)
\* The place of v among the first j of c: after the last that is not poorer.
LEMMA PlaceFound ==
    ASSUME NEW A, NEW st \in [A -> Nat], NEW c \in Seq(A), NEW j \in 0..Len(c), NEW v \in A
    PROVE  LET p == (CHOOSE f : f = [k \in 0..j |-> IF k > 0 /\ st[v] > st[c[k]]
                                                    THEN f[k - 1] ELSE k])[j]
           IN  /\ p \in 0..j
               /\ (p > 0 => st[v] <= st[c[p]])
               /\ \A k \in (p + 1)..j : st[v] > st[c[k]]
<1> DEFINE Fits(f) == f = [k \in 0..j |-> IF k > 0 /\ st[v] > st[c[k]] THEN f[k - 1] ELSE k]
           G == [q \in (0..j) \X (1..j) |-> IF st[v] > st[c[q[2]]] THEN q[1] ELSE q[2]]
           f == CHOOSE f : Fits(f)
<1>0. /\ j \in Nat /\ 1..j \subseteq 1..Len(c) /\ st[v] \in Nat
      /\ \A k \in 1..j : c[k] \in A /\ st[c[k]] \in Nat
  OBVIOUS
<1>1. PICK t \in [0..j -> 0..j] : Counts(t, G, 0, j)
  <2>1. 0 \in 0..j /\ G \in [(0..j) \X (1..j) -> 0..j]
    BY <1>0
  <2> HIDE DEF G
  <2> QED
    BY <1>0, <2>1, RecursionExists
<1>2. Fits(t)
  <2>1. ASSUME NEW k \in 0..j PROVE t[k] = IF k > 0 /\ st[v] > st[c[k]] THEN t[k - 1] ELSE k
    <3>1. CASE k = 0
      BY <3>1, <1>1 DEF Counts
    <3>2. CASE k # 0
      <4>1. k \in 1..j /\ k > 0 /\ k - 1 \in 0..j
        BY <3>2, <1>0
      <4>2. <<t[k - 1], k>> \in (0..j) \X (1..j) /\ t[k] = G[<<t[k - 1], k>>]
        BY <4>1, <1>1 DEF Counts
      <4> QED
        BY <4>1, <4>2
    <3> QED
      BY <3>1, <3>2
  <2> QED
    BY <2>1
<1>3. Fits(f)
  BY <1>2
<1> HIDE DEF f
<1> DEFINE Good == {i \in 0..j : /\ f[i] \in 0..i
                                /\ (f[i] > 0 => st[v] <= st[c[f[i]]])
                                /\ \A k \in (f[i] + 1)..i : st[v] > st[c[k]]}
<1>4. 0 \in Good
  <2>1. f[0] = 0 /\ 0 \in 0..j
    BY <1>0, <1>3
  <2> QED
    BY <2>1
<1>5. ASSUME NEW i \in 1..j, i - 1 \in Good PROVE i \in Good
  <2>1. i \in 0..j /\ i > 0 /\ i - 1 \in 0..j /\ i \in Nat /\ c[i] \in A /\ st[c[i]] \in Nat
    BY <1>0
  <2>2. CASE st[v] > st[c[i]]
    <3>1. f[i] = f[i - 1]
      BY <1>3, <2>1, <2>2
    <3>2. f[i - 1] \in 0..(i - 1) /\ \A k \in (f[i - 1] + 1)..(i - 1) : st[v] > st[c[k]]
      BY <1>5
    <3>3. \A k \in (f[i] + 1)..i : k = i \/ k \in (f[i - 1] + 1)..(i - 1)
      BY <2>1, <3>1, <3>2
    <3>4. f[i] > 0 => st[v] <= st[c[f[i]]]
      BY <1>5, <3>1
    <3>5. f[i] \in 0..i
      <4>1. \A q \in 0..(i - 1) : q \in 0..i
        BY <2>1
      <4> QED
        BY <3>1, <3>2, <4>1
    <3>6. ASSUME NEW k \in (f[i] + 1)..i PROVE st[v] > st[c[k]]
      BY <2>2, <3>2, <3>3, <3>6
    <3> QED
      BY <2>1, <3>4, <3>5, <3>6
  <2>3. CASE ~(st[v] > st[c[i]])
    <3>1. f[i] = i
      BY <1>3, <2>1, <2>3
    <3>2. \A k \in (i + 1)..i : FALSE
      BY <2>1
    <3>3. st[v] <= st[c[i]]
      <4> DEFINE a == st[v]
                 b == st[c[i]]
      <4>1. a \in Nat /\ b \in Nat /\ ~(a > b)
        BY <1>0, <2>1, <2>3
      <4> HIDE DEF a, b
      <4>2. a <= b
        BY <4>1
      <4> QED
        BY <4>2 DEF a, b
    <3>4. f[i] \in 0..i /\ (f[i] > 0 => st[v] <= st[c[f[i]]])
      BY <2>1, <3>1, <3>3
    <3>5. \A k \in (f[i] + 1)..i : st[v] > st[c[k]]
      BY <3>1, <3>2
    <3> QED
      BY <2>1, <3>4, <3>5
  <2> QED
    BY <2>2, <2>3
<1>6. j \in Good
  <2> HIDE DEF Good
  <2>1. \A i \in 0..j : i \in Good
    BY <1>0, <1>4, <1>5, CountingInduction
  <2> QED
    BY <1>0, <2>1
<1> QED
  BY <1>6 DEF f

\* The first j of c with v after the first p.
WithPlaced(c, v, p, j) == SubSeq(c, 1, p) \o <<v>> \o SubSeq(c, p + 1, j)

\* r is those j, the first p in their places, v, the rest one place further.
Shifted(r, S, c, v, p, j) ==
    /\ r \in Seq(S) /\ Len(r) = j + 1
    /\ \A k \in 1..p : r[k] = c[k]
    /\ r[p + 1] = v
    /\ \A k \in (p + 1)..j : r[k + 1] = c[k]

LEMMA InsertFacts ==
    ASSUME NEW S, NEW c \in Seq(S), NEW j \in 0..Len(c), NEW p \in 0..j, NEW v \in S
    PROVE  Shifted(WithPlaced(c, v, p, j), S, c, v, p, j)
<1> DEFINE a == SubSeq(c, 1, p)
           b == SubSeq(c, p + 1, j)
           m == a \o <<v>>
           r == m \o b
<1>1. p \in Nat /\ j \in Nat /\ p <= j /\ Len(c) \in Nat /\ j <= Len(c)
      /\ \A k \in 1..j : c[k] \in S
  OBVIOUS
<1>2. a \in Seq(S) /\ Len(a) = p /\ \A k \in 1..p : a[k] = c[k]
  <2>1. \A k \in 1..p : c[k] \in S
    BY <1>1
  <2> QED
    BY <1>1, <2>1, SubSeqProperties
<1>3. b \in Seq(S) /\ Len(b) = j - p /\ \A k \in 1..(j - p) : b[k] = c[p + k]
  <2>1. \A k \in (p + 1)..j : c[k] \in S
    BY <1>1
  <2> QED
    BY <1>1, <2>1, SubSeqProperties
<1> HIDE DEF a, b
<1>4. m \in Seq(S) /\ Len(m) = p + 1 /\ m[p + 1] = v /\ \A k \in 1..p : m[k] = a[k]
  <2>1. m = Append(a, v)
    BY <1>2
  <2> HIDE DEF m
  <2> QED
    BY <1>1, <1>2, <2>1
<1> HIDE DEF m
<1>5. /\ r \in Seq(S) /\ Len(r) = j + 1
      /\ \A k \in 1..(p + 1) : r[k] = m[k]
      /\ \A k \in 1..(j - p) : r[p + 1 + k] = b[k]
  <2>1. /\ r \in Seq(S) /\ Len(r) = Len(m) + Len(b)
        /\ \A k \in 1..(Len(m) + Len(b)) :
              r[k] = IF k <= Len(m) THEN m[k] ELSE b[k - Len(m)]
    BY <1>3, <1>4, ConcatProperties
  <2>2. Len(r) = j + 1 /\ Len(m) + Len(b) = j + 1
    BY <1>1, <1>3, <1>4, <2>1
  <2> HIDE DEF r
  <2>3. ASSUME NEW k \in 1..(p + 1) PROVE r[k] = m[k]
    <3>1. k \in 1..(j + 1) /\ k <= Len(m)
      BY <1>1, <1>4
    <3> QED
      BY <2>1, <2>2, <3>1
  <2>4. ASSUME NEW k \in 1..(j - p) PROVE r[p + 1 + k] = b[k]
    <3> DEFINE q == p + 1 + k
    <3>1. q \in 1..(j + 1) /\ ~(q <= Len(m)) /\ q - Len(m) = k
      BY <1>1, <1>4
    <3> HIDE DEF q
    <3>2. r[q] = b[k]
      BY <2>1, <2>2, <3>1
    <3> QED
      BY <3>2 DEF q
  <2> QED
    BY <2>1, <2>2, <2>3, <2>4
<1> HIDE DEF r
<1>6. ASSUME NEW k \in (p + 1)..j PROVE r[k + 1] = c[k]
  <2>1. k - p \in 1..(j - p) /\ p + 1 + (k - p) = k + 1 /\ p + (k - p) = k
    BY <1>1
  <2>2. r[p + 1 + (k - p)] = b[k - p] /\ b[k - p] = c[p + (k - p)]
    BY <1>3, <1>5, <2>1
  <2> QED
    BY <2>1, <2>2
<1>7. \A k \in 1..p : k \in 1..(p + 1)
  BY <1>1
<1>8. p + 1 \in 1..(p + 1)
  BY <1>1
<1>9. r = WithPlaced(c, v, p, j)
  BY DEF r, m, a, b, WithPlaced
<1> HIDE DEF a, b, m
<1>10. Shifted(r, S, c, v, p, j)
  BY <1>2, <1>4, <1>5, <1>6, <1>7, <1>8 DEF Shifted
<1> QED
  BY <1>9, <1>10

\* u comes out of the sort before v: it has more stake, or as much and a place
\* before.
Ahead(u, v, st, pos) == st[u] > st[v] \/ (st[u] = st[v] /\ pos[u] < pos[v])

Ranked(c, st, pos) == \A i, k \in 1..Len(c) : i < k => Ahead(c[i], c[k], st, pos)

LEMMA AheadIsTransitive ==
    ASSUME NEW A, NEW st \in [A -> Nat], NEW pos \in [A -> Nat],
           NEW u \in A, NEW v \in A, NEW w \in A,
           Ahead(u, v, st, pos), Ahead(v, w, st, pos)
    PROVE  Ahead(u, w, st, pos)
<1>1. /\ st[u] \in Nat /\ st[v] \in Nat /\ st[w] \in Nat
      /\ pos[u] \in Nat /\ pos[v] \in Nat /\ pos[w] \in Nat
  OBVIOUS
<1> QED
  BY <1>1 DEF Ahead

\* r is what sort has chosen after v, if v is in the array after all those it
\* had chosen before.
WellPlaced(A, r, c, v, st, pos, count) ==
    /\ r \in Seq(A) /\ Len(r) = (IF Len(c) < count THEN Len(c) + 1 ELSE count)
    /\ ToSet(r) \subseteq ToSet(c) \cup {v}
    /\ (Len(c) < count => ToSet(r) = ToSet(c) \cup {v})
    /\ (Ranked(c, st, pos) /\ (\A u \in ToSet(c) : pos[u] < pos[v]) =>
          /\ Ranked(r, st, pos)
          /\ (v \in ToSet(r) /\ Len(c) = count => \E z \in ToSet(c) : Ahead(v, z, st, pos))
          /\ \A u \in (ToSet(c) \cup {v}) \ ToSet(r), w \in ToSet(r) : Ahead(w, u, st, pos))

\* One pass of sort.
LEMMA PlacedFacts ==
    ASSUME NEW A, NEW st \in [A -> Nat], NEW pos \in [A -> Nat],
           NEW count \in Nat \ {0}, NEW c \in Seq(A), Len(c) <= count,
           NEW v \in A
    PROVE  WellPlaced(A, Placed(c, v, st, count), c, v, st, pos, count)
<1> DEFINE n == Len(c)
           full == n = count
           j == IF full THEN count - 1 ELSE n
           place == CHOOSE f : f = [k \in 0..j |-> IF k > 0 /\ st[v] > st[c[k]] THEN f[k - 1] ELSE k]
           p == place[j]
           r == Placed(c, v, st, count)
           s == WithPlaced(c, v, p, j)
           Rest == Ranked(c, st, pos) /\ (\A u \in ToSet(c) : pos[u] < pos[v])
<1>1. /\ n \in Nat /\ j \in 0..n /\ count \in Nat /\ n <= count
      /\ st[v] \in Nat /\ pos[v] \in Nat
      /\ \A k \in 1..n : c[k] \in A /\ st[c[k]] \in Nat /\ pos[c[k]] \in Nat
      /\ ToSet(c) = {c[k] : k \in 1..n}
  <2>1. n \in Nat /\ count \in Nat \ {0} /\ n <= count
    OBVIOUS
  <2>2. DOMAIN c = 1..n /\ \A k \in 1..n : c[k] \in A
    OBVIOUS
  <2>3. j \in 0..n
    <3> HIDE DEF n
    <3> QED
      BY <2>1
  <2> HIDE DEF n, j
  <2> QED
    BY <2>1, <2>2, <2>3 DEF ToSet
<1>2. p \in 0..j /\ (p > 0 => st[v] <= st[c[p]]) /\ \A k \in (p + 1)..j : st[v] > st[c[k]]
  <2> HIDE DEF j
  <2> QED
    BY <1>1, PlaceFound
<1>3. r = IF full /\ st[v] <= st[c[count]] THEN c ELSE s
  BY DEF Placed, WithPlaced
<1>4. Rest => \A i, k \in 1..n : i < k => Ahead(c[i], c[k], st, pos)
  BY DEF Ranked
<1>5. Rest => \A k \in 1..n : pos[c[k]] < pos[v]
  BY <1>1
<1>6. CASE full /\ st[v] <= st[c[count]]
  <2>1. r = c
    BY <1>3, <1>6
  <2>2. Len(c) = count
    BY <1>6
  <2>3. ASSUME Rest
        PROVE  /\ v \notin ToSet(c)
               /\ \A w \in ToSet(c) : Ahead(w, v, st, pos)
    <3>1. v \notin ToSet(c)
      BY <1>1, <2>3
    <3>2. ASSUME NEW k \in 1..n PROVE Ahead(c[k], v, st, pos)
      <4>1. st[c[k]] >= st[v]
        <5>1. CASE k = n
          BY <5>1, <1>6
        <5>2. CASE k # n
          <6>1. Ahead(c[k], c[n], st, pos) /\ c[n] \in A /\ st[c[n]] >= st[v] /\ st[c[n]] \in Nat
            BY <5>2, <1>1, <1>4, <1>6, <2>3
          <6> QED
            BY <6>1, <1>1 DEF Ahead
        <5> QED
          BY <5>1, <5>2
      <4>2. pos[c[k]] < pos[v]
        BY <1>5, <2>3
      <4> QED
        BY <1>1, <4>1, <4>2 DEF Ahead
    <3> QED
      BY <1>1, <3>1, <3>2
  <2> HIDE DEF r
  <2> QED
    BY <2>1, <2>2, <2>3 DEF r, WellPlaced
<1>7. CASE ~(full /\ st[v] <= st[c[count]])
  <2>1. r = s
    BY <1>3, <1>7
  <2>2. /\ s \in Seq(A) /\ Len(s) = j + 1
        /\ \A k \in 1..p : s[k] = c[k]
        /\ s[p + 1] = v
        /\ \A k \in (p + 1)..j : s[k + 1] = c[k]
    <3>1. j \in 0..Len(c) /\ p \in 0..j
      BY <1>1, <1>2
    <3> HIDE DEF n, full, j, place, p, r, s, Rest
    <3>2. c \in Seq(A) /\ v \in A
      OBVIOUS
    <3>3. Shifted(WithPlaced(c, v, p, j), A, c, v, p, j)
      BY <3>1, <3>2, InsertFacts
    <3> QED
      BY <3>3 DEF s, Shifted
  <2>3. j + 1 = (IF Len(c) < count THEN Len(c) + 1 ELSE count)
    BY <1>1
  <2>4. (full => j = n - 1 /\ st[v] > st[c[n]]) /\ (~full => j = n /\ n < count)
    <3>1. full => n \in 1..n
      BY <1>1
    <3> QED
      BY <1>1, <1>7, <3>1
  <2> HIDE DEF n, full, j, place, p, r, s, Rest
  <2>5. \A i \in 1..(j + 1) : i \in 1..p \/ i = p + 1 \/ (i - 1 \in (p + 1)..j /\ (i - 1) + 1 = i)
    BY <1>1, <1>2
  <2>6. 1..p \subseteq 1..n /\ (p + 1)..j \subseteq 1..n /\ 1..j \subseteq 1..n
        /\ 1..j = (1..p) \cup ((p + 1)..j)
    <3>1. p \in Nat /\ j \in Nat /\ n \in Nat /\ p <= j /\ j <= n
      BY <1>1, <1>2
    <3>2. \A k : k \in 1..j <=> k \in 1..p \/ k \in (p + 1)..j
      BY <3>1
    <3>3. \A k : k \in 1..j => k \in 1..n
      BY <3>1
    <3> QED
      BY <3>2, <3>3
  <2>7. ToSet(s) = {s[k] : k \in 1..(j + 1)}
    <3>1. DOMAIN s = 1..(j + 1)
      BY <2>2
    <3> QED
      BY <3>1 DEF ToSet
  <2>8. ToSet(s) = {c[k] : k \in 1..j} \cup {v}
    <3>1. ASSUME NEW i \in 1..(j + 1) PROVE s[i] \in {c[k] : k \in 1..j} \cup {v}
      <4>1. CASE i \in 1..p
        BY <4>1, <2>2, <2>6
      <4>2. CASE i = p + 1
        BY <4>2, <2>2
      <4>3. CASE i - 1 \in (p + 1)..j /\ (i - 1) + 1 = i
        <5>1. s[(i - 1) + 1] = c[i - 1] /\ i - 1 \in 1..j
          BY <4>3, <2>2, <2>6
        <5> QED
          BY <4>3, <5>1
      <4> QED
        BY <2>5, <4>1, <4>2, <4>3
    <3>2. ASSUME NEW k \in 1..j PROVE \E i \in 1..(j + 1) : s[i] = c[k]
      <4>1. CASE k \in 1..p
        <5>1. k \in 1..(j + 1) /\ s[k] = c[k]
          BY <4>1, <1>1, <1>2, <2>2
        <5> QED
          BY <5>1
      <4>2. CASE k \in (p + 1)..j
        <5>1. k + 1 \in 1..(j + 1) /\ s[k + 1] = c[k]
          BY <4>2, <1>1, <1>2, <2>2
        <5> QED
          BY <5>1
      <4> QED
        BY <2>6, <4>1, <4>2
    <3>3. p + 1 \in 1..(j + 1)
      BY <1>1, <1>2
    <3>4. ToSet(s) \subseteq {c[k] : k \in 1..j} \cup {v}
      BY <2>7, <3>1
    <3>5. {c[k] : k \in 1..j} \subseteq ToSet(s)
      BY <2>7, <3>2
    <3>6. v \in ToSet(s)
      BY <2>2, <2>7, <3>3
    <3> QED
      BY <3>4, <3>5, <3>6
  <2>9. ToSet(s) \subseteq ToSet(c) \cup {v} /\ (~full => ToSet(s) = ToSet(c) \cup {v})
    BY <1>1, <2>4, <2>6, <2>8
  <2>10. Len(c) < count => ~full
    BY <1>1 DEF full, n
  <2>11. ASSUME Rest
         PROVE  Ranked(s, st, pos)
    <3> SUFFICES ASSUME NEW a \in 1..(j + 1), NEW b \in 1..(j + 1), a < b
                 PROVE  Ahead(s[a], s[b], st, pos)
      BY <2>2 DEF Ranked
    <3>1. ASSUME NEW k \in 1..p PROVE Ahead(c[k], v, st, pos)
      <4>1. k \in 1..n /\ p \in 1..n /\ k <= p /\ st[v] <= st[c[p]]
        BY <1>1, <1>2, <2>6
      <4>2. st[c[k]] >= st[c[p]]
        <5>1. CASE k = p
          BY <5>1, <4>1, <1>1
        <5>2. CASE k # p
          <6>1. Ahead(c[k], c[p], st, pos)
            BY <5>2, <1>4, <2>11, <4>1
          <6>2. st[c[k]] > st[c[p]] \/ st[c[k]] = st[c[p]]
            BY <6>1 DEF Ahead
          <6> DEFINE x == st[c[k]]
                     y == st[c[p]]
          <6>3. x \in Nat /\ y \in Nat /\ (x > y \/ x = y)
            BY <1>1, <4>1, <6>2
          <6> HIDE DEF x, y
          <6>4. x >= y
            BY <6>3
          <6> QED
            BY <6>4 DEF x, y
        <5> QED
          BY <5>1, <5>2
      <4>3. pos[c[k]] < pos[v]
        BY <1>5, <2>11, <4>1
      <4>4. st[c[k]] \in Nat /\ st[c[p]] \in Nat /\ st[v] \in Nat
        BY <1>1, <4>1
      <4>5. st[c[k]] > st[v] \/ st[c[k]] = st[v]
        <5> DEFINE x == st[c[k]]
                   y == st[c[p]]
                   z == st[v]
        <5>1. x \in Nat /\ y \in Nat /\ z \in Nat /\ x >= y /\ z <= y
          BY <4>1, <4>2, <4>4
        <5> HIDE DEF x, y, z
        <5>2. x > z \/ x = z
          BY <5>1
        <5> QED
          BY <5>2 DEF x, z
      <4> QED
        BY <4>3, <4>5 DEF Ahead
    <3>2. ASSUME NEW k \in (p + 1)..j PROVE Ahead(v, c[k], st, pos)
      BY <1>2 DEF Ahead
    <3>3. \A i, k \in 1..n : i < k => Ahead(c[i], c[k], st, pos)
      BY <1>4, <2>11
    <3>4. CASE a \in 1..p
      <4>1. CASE b \in 1..p
        BY <2>2, <2>6, <3>3, <3>4, <4>1
      <4>2. CASE b = p + 1
        BY <2>2, <3>1, <3>4, <4>2
      <4>3. CASE b - 1 \in (p + 1)..j /\ (b - 1) + 1 = b
        <5>1. s[(b - 1) + 1] = c[b - 1] /\ s[a] = c[a] /\ a \in 1..n /\ b - 1 \in 1..n
          BY <2>2, <2>6, <3>4, <4>3
        <5>2. s[b] = c[b - 1] /\ a < b - 1
          BY <1>1, <1>2, <5>1, <4>3, <3>4
        <5> QED
          BY <3>3, <5>1, <5>2
      <4> QED
        BY <2>5, <4>1, <4>2, <4>3
    <3>5. CASE a = p + 1
      <4>1. b - 1 \in (p + 1)..j /\ (b - 1) + 1 = b
        BY <1>1, <1>2, <3>5
      <4>2. s[(b - 1) + 1] = c[b - 1]
        BY <4>1, <2>2
      <4> QED
        BY <2>2, <3>2, <3>5, <4>1, <4>2
    <3>6. CASE a - 1 \in (p + 1)..j /\ (a - 1) + 1 = a
      <4>1. b - 1 \in (p + 1)..j /\ (b - 1) + 1 = b /\ a - 1 < b - 1
        BY <1>1, <1>2, <3>6
      <4>2. s[(b - 1) + 1] = c[b - 1] /\ s[(a - 1) + 1] = c[a - 1]
        BY <3>6, <4>1, <2>2
      <4>3. s[b] = c[b - 1] /\ s[a] = c[a - 1]
        BY <3>6, <4>1, <4>2
      <4>4. a - 1 \in 1..n /\ b - 1 \in 1..n
        BY <2>6, <3>6, <4>1
      <4> QED
        BY <3>3, <4>1, <4>3, <4>4
    <3> QED
      BY <2>5, <3>4, <3>5, <3>6
  <2>12. ASSUME Rest, full
         PROVE  /\ \E z \in ToSet(c) : Ahead(v, z, st, pos)
                /\ \A u \in (ToSet(c) \cup {v}) \ ToSet(s), w \in ToSet(s) : Ahead(w, u, st, pos)
    <3>1. n \in 1..n /\ j = n - 1 /\ Ahead(v, c[n], st, pos)
      <4>1. n = j + 1
        BY <1>1, <2>4, <2>12
      <4> QED
        BY <1>1, <2>4, <2>12, <4>1 DEF Ahead
    <3>2. \A k \in 1..n : k \in 1..j \/ k = n
      BY <1>1, <3>1
    <3>3. \A u \in (ToSet(c) \cup {v}) \ ToSet(s) : u = c[n]
      BY <1>1, <2>8, <3>2
    <3>4. ASSUME NEW k \in 1..j PROVE Ahead(c[k], c[n], st, pos)
      <4>1. k \in 1..n /\ k < n
        BY <1>1, <3>1
      <4> QED
        BY <1>4, <2>12, <3>1, <4>1
    <3>5. \A w \in ToSet(s) : Ahead(w, c[n], st, pos)
      BY <2>8, <3>1, <3>4
    <3> QED
      BY <1>1, <3>1, <3>3, <3>5
  <2>13. /\ r \in Seq(A) /\ Len(r) = (IF Len(c) < count THEN Len(c) + 1 ELSE count)
         /\ ToSet(r) \subseteq ToSet(c) \cup {v}
         /\ (Len(c) < count => ToSet(r) = ToSet(c) \cup {v})
    BY <2>1, <2>2, <2>3, <2>9, <2>10
  <2>14. ASSUME Rest
         PROVE  /\ Ranked(r, st, pos)
                /\ (v \in ToSet(r) /\ Len(c) = count => \E z \in ToSet(c) : Ahead(v, z, st, pos))
                /\ \A u \in (ToSet(c) \cup {v}) \ ToSet(r), w \in ToSet(r) : Ahead(w, u, st, pos)
    <3>1. Len(c) = count => full
      BY DEF full, n
    <3>2. CASE full
      BY <2>1, <2>11, <2>12, <2>14, <3>1, <3>2
    <3>3. CASE ~full
      BY <2>1, <2>9, <2>11, <2>14, <3>1, <3>3
    <3> QED
      BY <3>2, <3>3
  <2> QED
    BY <2>13, <2>14 DEF r, Rest, WellPlaced
<1> QED
  BY <1>6, <1>7

\* What sort works on.
UpTo(A, count) == {c \in Seq(A) : Len(c) <= count}

\* r is the part of S that comes first in the order of sort, in that order.
InOrder(r, A, S, st, pos) ==
    /\ st \in [A -> Nat] /\ pos \in [A -> Nat]
    /\ r \in Seq(A) /\ ToSet(r) \subseteq S /\ S \subseteq A
    /\ Ranked(r, st, pos)
    /\ \A u \in S \ ToSet(r), w \in ToSet(r) : Ahead(w, u, st, pos)

\* pos gives the values of an array, each with a stake, the order of their places.
Placing(pos, values, A, st) ==
    /\ st \in [A -> Nat] /\ pos \in [A -> Nat] /\ values \in Seq(A)
    /\ \A i, k \in 1..Len(values) : i < k => pos[values[i]] < pos[values[k]]

Fewer(count, n) == IF count < n THEN count ELSE n

\* sort finds as many of them as asked for.
LEMMA SortedFacts ==
    ASSUME NEW A, NEW st, NEW pos, NEW values, NEW count \in Nat, Placing(pos, values, A, st)
    PROVE  /\ InOrder(Sorted(values, st, count), A, ToSet(values), st, pos)
           /\ Len(Sorted(values, st, count)) = Fewer(count, Len(values))
<1> DEFINE n == Len(values)
           r == Sorted(values, st, count)
<1>0. st \in [A -> Nat] /\ pos \in [A -> Nat] /\ values \in Seq(A)
  BY DEF Placing
<1> USE <1>0
<1> SUFFICES /\ InOrder(r, A, ToSet(values), st, pos)
             /\ Len(r) = IF count < n THEN count ELSE n
  BY DEF Fewer
<1>1. n \in Nat /\ DOMAIN values = 1..n /\ \A i \in 1..n : values[i] \in A
  OBVIOUS
<1>2. /\ \A i, k \in 1..n : i < k => pos[values[i]] < pos[values[k]]
      /\ ToSet(values) \subseteq A
  BY <1>1 DEF Placing, ToSet
<1> HIDE DEF n
<1>3. CASE count = 0
  <2> DEFINE e == <<>>
  <2>1. r = e /\ e \in Seq(A) /\ Len(e) = 0 /\ ToSet(e) = {}
    BY <1>3 DEF Sorted, ToSet
  <2> HIDE DEF e, r
  <2>2. Ranked(r, st, pos)
    BY <2>1 DEF Ranked
  <2>3. Len(r) = (IF count < n THEN count ELSE n)
    BY <1>1, <1>3, <2>1
  <2> QED
    BY <1>2, <2>1, <2>2, <2>3 DEF InOrder
<1>4. CASE count # 0
  <2>1. count \in Nat \ {0}
    BY <1>4
  <2> HIDE DEF r
  <2>2. PICK t \in [0..n -> UpTo(A, count)] :
            /\ t[0] = <<>>
            /\ \A i \in 1..n : t[i] = Placed(t[i - 1], values[i], st, count)
            /\ r = t[n]
    <3> DEFINE base == <<>>
               G == [p \in UpTo(A, count) \X (1..n) |-> Placed(p[1], values[p[2]], st, count)]
               Fits(f) == f = [s \in SUBSET (1..n) |->
                                 IF s = {} THEN base
                                 ELSE Placed(f[s \ {Greatest(s)}], values[Greatest(s)], st, count)]
               h == CHOOSE f : Fits(f)
    <3>1. base \in UpTo(A, count)
      BY <2>1 DEF UpTo
    <3>2. ASSUME NEW c \in UpTo(A, count), NEW i \in 1..n
          PROVE  Placed(c, values[i], st, count) \in UpTo(A, count)
      <4>1. c \in Seq(A) /\ Len(c) <= count
        BY DEF UpTo
      <4> DEFINE o == values[i]
                 d == Placed(c, o, st, count)
      <4>2. o \in A
        BY <1>1
      <4> HIDE DEF o, d
      <4>3. d \in Seq(A) /\ Len(d) = (IF Len(c) < count THEN Len(c) + 1 ELSE count)
        <5>1. WellPlaced(A, d, c, o, st, pos, count)
          BY <2>1, <4>1, <4>2, PlacedFacts DEF d
        <5> QED
          BY <5>1 DEF WellPlaced
      <4>4. d \in UpTo(A, count)
        BY <4>1, <4>3 DEF UpTo
      <4> QED
        BY <4>4 DEF d, o
    <3> HIDE DEF base
    <3>3. G \in [UpTo(A, count) \X (1..n) -> UpTo(A, count)]
      BY <3>2
    <3>4. PICK g \in [SUBSET (1..n) -> UpTo(A, count)] : LoopsOver(g, G, base, 1..n)
      <4> HIDE DEF G
      <4> QED
        BY <1>1, <3>1, <3>3, LoopExists
    <3>5. Fits(g)
      BY <1>1, <3>4, GreatestInPlaces DEF LoopsOver
    <3>6. Fits(h)
      BY <3>5
    <3>7. r = h[1..n]
      <4>1. r = FoldLeft(LAMBDA c, v : Placed(c, v, st, count), base, values)
        BY <1>4 DEF Sorted, r, base
      <4>2. FoldLeft(LAMBDA c, v : Placed(c, v, st, count), base, values) = (CHOOSE f : Fits(f))[1..n]
        BY <1>1 DEF FoldLeft, MapThenFoldSet, Max, Greatest
      <4> QED
        BY <4>1, <4>2
    <3> HIDE DEF h
    <3>8. \A s \in SUBSET (1..n) : s # {} /\ h[s \ {Greatest(s)}] \in UpTo(A, count) =>
             h[s] = G[<<h[s \ {Greatest(s)}], Greatest(s)>>]
      BY <1>1, <3>6, GreatestInPlaces
    <3>9. StepsAs(h, G, UpTo(A, count), base, n)
      BY <3>6, <3>8 DEF StepsAs
    <3> HIDE DEF Fits
    <3>10. PICK t \in [0..n -> UpTo(A, count)] : LoopStates(t, h, G, base, n)
      <4> HIDE DEF G
      <4> QED
        BY <1>1, <3>1, <3>3, <3>9, LoopTrace
    <3>11. ASSUME NEW i \in 1..n PROVE G[<<t[i - 1], i>>] = Placed(t[i - 1], values[i], st, count)
      <4>1. i - 1 \in 0..n
        BY <1>1
      <4>2. t[i - 1] \in UpTo(A, count)
        BY <4>1
      <4> QED
        BY <4>2
    <3> QED
      BY <3>7, <3>10, <3>11 DEF base, LoopStates
  <2> DEFINE Before(i) == {values[k] : k \in 1..i}
             Good == {i \in 0..n : /\ Len(t[i]) = (IF i < count THEN i ELSE count)
                                   /\ ToSet(t[i]) \subseteq Before(i)
                                   /\ (i <= count => ToSet(t[i]) = Before(i))
                                   /\ Ranked(t[i], st, pos)
                                   /\ \A u \in Before(i) \ ToSet(t[i]), w \in ToSet(t[i]) :
                                          Ahead(w, u, st, pos)}
  <2>3. 0 \in Good
    <3>1. 0 \in 0..n /\ Before(0) = {}
      BY <1>1
    <3>2. ToSet(t[0]) = {} /\ Len(t[0]) = 0
      BY <2>2 DEF ToSet
    <3>3. Ranked(t[0], st, pos)
      BY <3>2 DEF Ranked
    <3> QED
      BY <2>1, <3>1, <3>2, <3>3
  <2>4. ASSUME NEW i \in 1..n, i - 1 \in Good PROVE i \in Good
    <3> DEFINE c == t[i - 1]
               v == values[i]
               d == Placed(c, v, st, count)
               m == i - 1
    <3>1. m \in 0..n /\ i \in 0..n /\ 1..i = (1..m) \cup {i} /\ m + 1 = i /\ i \in 1..n
      BY <1>1
    <3>2. c \in Seq(A) /\ Len(c) <= count /\ v \in A
      BY <1>1, <3>1 DEF UpTo
    <3>3. /\ Len(c) = (IF m < count THEN m ELSE count)
          /\ ToSet(c) \subseteq Before(m)
          /\ (m <= count => ToSet(c) = Before(m))
          /\ Ranked(c, st, pos)
          /\ \A u \in Before(m) \ ToSet(c), w \in ToSet(c) : Ahead(w, u, st, pos)
      BY <2>4
    <3>4. Before(i) = Before(m) \cup {v} /\ Before(i) \subseteq A
      <4>1. Before(i) = Before(m) \cup {v}
        BY <3>1
      <4>2. \A k \in 1..i : values[k] \in A
        BY <1>1
      <4> HIDE DEF m, v
      <4> QED
        BY <4>1, <4>2
    <3>5. \A u \in ToSet(c) : pos[u] < pos[v]
      <4>1. \A k \in 1..m : pos[values[k]] < pos[v]
        BY <1>1, <1>2, <3>1
      <4> QED
        BY <3>3, <4>1
    <3>6. t[i] = d
      BY <2>2
    <3> HIDE DEF c, v, m, Before, d
    <3>7. /\ d \in Seq(A) /\ Len(d) = (IF Len(c) < count THEN Len(c) + 1 ELSE count)
          /\ ToSet(d) \subseteq ToSet(c) \cup {v}
          /\ (Len(c) < count => ToSet(d) = ToSet(c) \cup {v})
          /\ (Ranked(c, st, pos) /\ (\A u \in ToSet(c) : pos[u] < pos[v]) =>
                /\ Ranked(d, st, pos)
                /\ (v \in ToSet(d) /\ Len(c) = count => \E z \in ToSet(c) : Ahead(v, z, st, pos))
                /\ \A u \in (ToSet(c) \cup {v}) \ ToSet(d), w \in ToSet(d) : Ahead(w, u, st, pos))
      BY <2>1, <3>2, PlacedFacts DEF d, WellPlaced
    <3>8. Ranked(d, st, pos)
      BY <3>3, <3>5, <3>7
    <3>9. Len(d) = (IF i < count THEN i ELSE count)
      BY <2>1, <3>1, <3>3, <3>7
    <3>10. ToSet(d) \subseteq Before(i)
      BY <3>3, <3>4, <3>7
    <3>11. i <= count => ToSet(d) = Before(i)
      <4> SUFFICES ASSUME i <= count PROVE ToSet(d) = Before(i)
        OBVIOUS
      <4>1. m < count /\ m <= count
        BY <2>1, <3>1
      <4>2. Len(c) = m
        BY <3>3, <4>1
      <4>3. ToSet(c) = Before(m) /\ ToSet(d) = ToSet(c) \cup {v}
        BY <3>3, <3>7, <4>1, <4>2
      <4> QED
        BY <3>4, <4>3
    <3>12. ASSUME NEW u \in Before(i) \ ToSet(d), NEW w \in ToSet(d)
           PROVE  Ahead(w, u, st, pos)
      <4>1. CASE u \in ToSet(c) \cup {v}
        BY <3>3, <3>5, <3>7, <4>1
      <4>2. CASE u \notin ToSet(c) \cup {v}
        <5>1. u \in Before(m) \ ToSet(c)
          BY <3>4, <4>2
        <5>2. CASE w \in ToSet(c)
          BY <3>3, <5>1, <5>2
        <5>3. CASE w = v
          <6>1. Len(c) = count
            BY <2>1, <3>1, <3>3, <5>1
          <6>2. PICK z \in ToSet(c) : Ahead(v, z, st, pos)
            BY <3>3, <3>5, <3>7, <5>3, <6>1
          <6>3. Ahead(z, u, st, pos)
            BY <3>3, <5>1
          <6>4. z \in A /\ u \in A /\ v \in A
            BY <3>2, <3>3, <3>4
          <6> QED
            BY <5>3, <6>2, <6>3, <6>4, AheadIsTransitive
        <5> QED
          BY <3>7, <5>2, <5>3
      <4> QED
        BY <4>1, <4>2
    <3> QED
      BY <3>1, <3>6, <3>8, <3>9, <3>10, <3>11, <3>12
  <2>5. n \in Good
    <3> HIDE DEF Good
    <3>1. \A i \in 0..n : i \in Good
      BY <1>1, <2>3, <2>4, CountingInduction
    <3> QED
      BY <1>1, <3>1
  <2>6. Before(n) = ToSet(values)
    BY <1>1 DEF ToSet
  <2>7. r \in Seq(A)
    <3>1. n \in 0..n
      BY <1>1
    <3> QED
      BY <2>2, <3>1 DEF UpTo
  <2>8. Len(r) = (IF count < n THEN count ELSE n)
    BY <1>1, <2>1, <2>2, <2>5
  <2>9. /\ ToSet(r) \subseteq ToSet(values)
        /\ Ranked(r, st, pos)
        /\ \A u \in ToSet(values) \ ToSet(r), w \in ToSet(r) : Ahead(w, u, st, pos)
    BY <2>2, <2>5, <2>6
  <2> QED
    BY <1>2, <2>7, <2>8, <2>9 DEF InOrder
<1> QED
  BY <1>3, <1>4

-----------------------------------------------------------------------------
(***************************************************************************)
(* The loops of RoundManager.                                              *)
(***************************************************************************)
Seat(set, o) == IF Len(set.values) < maxOraclesPerRound THEN Added(set, o) ELSE set

\* Everyone chosen gets a seat, if they are not too many.
LEMMA SeatedFacts ==
    ASSUME selectedOracles \in Proper, NEW chosen \in Seq(Owners),
           Len(chosen) <= maxOraclesPerRound
    PROVE  Seated(chosen) \in Proper /\ Elements(Seated(chosen)) = ToSet(chosen)
<1> DEFINE n == Len(chosen)
<1>1. n \in Nat /\ DOMAIN chosen = 1..n /\ \A i \in 1..n : chosen[i] \in Owners
  OBVIOUS
<1>0. n <= maxOraclesPerRound /\ maxOraclesPerRound \in Nat
  BY ConfigAssumption
<1> HIDE DEF n
<1>2. PICK t \in [0..n -> Proper] :
          /\ t[0] = Cleared(selectedOracles)
          /\ \A i \in 1..n : t[i] = Seat(t[i - 1], chosen[i])
          /\ Seated(chosen) = t[n]
  <2> DEFINE base == Cleared(selectedOracles)
             G == [p \in Proper \X (1..n) |-> Seat(p[1], chosen[p[2]])]
             Fits(f) == f = [s \in SUBSET (1..n) |->
                               IF s = {} THEN base
                               ELSE Seat(f[s \ {Greatest(s)}], chosen[Greatest(s)])]
             h == CHOOSE f : Fits(f)
  <2>1. base \in Proper
    BY ClearedFacts
  <2>2. ASSUME NEW v \in Proper, NEW i \in 1..n PROVE Seat(v, chosen[i]) \in Proper
    BY <1>1, AddedFacts DEF Seat
  <2> HIDE DEF base
  <2>3. G \in [Proper \X (1..n) -> Proper]
    BY <2>2
  <2>4. PICK g \in [SUBSET (1..n) -> Proper] : LoopsOver(g, G, base, 1..n)
    <3> HIDE DEF G
    <3> QED
      BY <1>1, <2>1, <2>3, LoopExists
  <2>5. Fits(g)
    BY <1>1, <2>4, GreatestInPlaces DEF LoopsOver
  <2>6. Fits(h)
    BY <2>5
  <2>7. Seated(chosen) = h[1..n]
    <3>1. Seated(chosen) = FoldLeft(LAMBDA set, o : Seat(set, o), base, chosen)
      BY DEF Seated, Seat, base
    <3>2. FoldLeft(LAMBDA set, o : Seat(set, o), base, chosen) = (CHOOSE f : Fits(f))[1..n]
      BY <1>1 DEF FoldLeft, MapThenFoldSet, Max, Greatest
    <3> QED
      BY <3>1, <3>2
  <2> HIDE DEF h
  <2>8. \A s \in SUBSET (1..n) : s # {} /\ h[s \ {Greatest(s)}] \in Proper =>
           h[s] = G[<<h[s \ {Greatest(s)}], Greatest(s)>>]
    BY <1>1, <2>6, GreatestInPlaces
  <2>9. StepsAs(h, G, Proper, base, n)
    BY <2>6, <2>8 DEF StepsAs
  <2> HIDE DEF Fits
  <2>10. PICK t \in [0..n -> Proper] : LoopStates(t, h, G, base, n)
    <3> HIDE DEF G
    <3> QED
      BY <1>1, <2>1, <2>3, <2>9, LoopTrace
  <2>11. ASSUME NEW i \in 1..n PROVE G[<<t[i - 1], i>>] = Seat(t[i - 1], chosen[i])
    <3>1. i - 1 \in 0..n
      BY <1>1
    <3>2. t[i - 1] \in Proper
      BY <3>1
    <3> QED
      BY <3>2
  <2> QED
    BY <2>7, <2>10, <2>11 DEF base, LoopStates
<1> DEFINE Before(i) == {chosen[k] : k \in 1..i}
           Good == {i \in 0..n : Elements(t[i]) = Before(i) /\ Len(t[i].values) <= i}
<1>3. 0 \in Good
  <2>1. 0 \in 0..n /\ Before(0) = {}
    BY <1>1
  <2>2. Elements(t[0]) = {}
    BY <1>2, ClearedFacts
  <2>3. Len(t[0].values) = 0
    BY <1>2 DEF Cleared
  <2> QED
    BY <2>1, <2>2, <2>3
<1>4. ASSUME NEW i \in 1..n, i - 1 \in Good PROVE i \in Good
  <2> DEFINE set == t[i - 1]
             o == chosen[i]
             m == i - 1
  <2>1. m \in 0..n /\ i \in 0..n /\ 1..i = (1..m) \cup {i} /\ i = m + 1 /\ i <= n
    BY <1>1
  <2>2. set \in Proper /\ o \in Owners /\ Elements(set) = Before(m) /\ Len(set.values) <= m
    BY <1>1, <1>4, <2>1
  <2>3. Before(i) = Before(m) \cup {o}
    BY <2>1
  <2>4. t[i] = Seat(set, o)
    BY <1>2
  <2> HIDE DEF set, o, m, Before
  <2>5. Len(set.values) \in Nat
    BY <2>2, ProperFacts
  <2>6. t[i] = Added(set, o)
    BY <1>0, <1>1, <2>1, <2>2, <2>4, <2>5 DEF Seat
  <2>7. Elements(t[i]) = Before(i)
    BY <2>2, <2>3, <2>6, AddedFacts
  <2>8. Len(t[i].values) <= i
    <3>1. CASE Has(set, o)
      BY <2>1, <2>2, <2>5, <2>6, <3>1 DEF Added
    <3>2. CASE ~Has(set, o)
      <4>1. t[i].values = Append(set.values, o)
        BY <2>6, <3>2 DEF Added
      <4>2. set.values \in Seq(Owners)
        BY <2>2, ProperFacts
      <4> QED
        BY <2>1, <2>2, <4>1, <4>2
    <3> QED
      BY <3>1, <3>2
  <2> QED
    BY <2>1, <2>7, <2>8
<1>5. n \in Good
  <2> HIDE DEF Good
  <2>1. \A i \in 0..n : i \in Good
    BY <1>1, <1>3, <1>4, CountingInduction
  <2> QED
    BY <1>1, <2>1
<1>6. Before(n) = ToSet(chosen)
  BY <1>1 DEF ToSet
<1>7. n \in 0..n
  BY <1>1
<1> QED
  BY <1>2, <1>5, <1>6, <1>7

\* The loop of roundInfo.switchRound() takes the points of the owners in the
\* round, and nobody else's.
WithoutPoints(p, o) == [p EXCEPT ![o] = 0]

LEMMA PointsCleared ==
    ASSUME points \in [Owners -> Nat], NEW values \in Seq(Owners)
    PROVE  FoldLeft(LAMBDA p, o : [p EXCEPT ![o] = 0], points, values) =
              [o \in Owners |-> IF o \in ToSet(values) THEN 0 ELSE points[o]]
<1> DEFINE n == Len(values)
           left == FoldLeft(LAMBDA p, o : [p EXCEPT ![o] = 0], points, values)
<1>1. n \in Nat /\ DOMAIN values = 1..n /\ \A i \in 1..n : values[i] \in Owners
  OBVIOUS
<1> HIDE DEF n, left
<1>2. PICK t \in [0..n -> [Owners -> Nat]] :
          /\ t[0] = points
          /\ \A i \in 1..n : t[i] = WithoutPoints(t[i - 1], values[i])
          /\ left = t[n]
  <2> DEFINE base == points
             G == [p \in [Owners -> Nat] \X (1..n) |-> WithoutPoints(p[1], values[p[2]])]
             Fits(f) == f = [s \in SUBSET (1..n) |->
                               IF s = {} THEN base
                               ELSE WithoutPoints(f[s \ {Greatest(s)}], values[Greatest(s)])]
             h == CHOOSE f : Fits(f)
  <2>1. base \in [Owners -> Nat]
    OBVIOUS
  <2>2. ASSUME NEW v \in [Owners -> Nat], NEW i \in 1..n PROVE WithoutPoints(v, values[i]) \in [Owners -> Nat]
    BY <1>1 DEF WithoutPoints
  <2> HIDE DEF base
  <2>3. G \in [[Owners -> Nat] \X (1..n) -> [Owners -> Nat]]
    BY <2>2
  <2>4. PICK g \in [SUBSET (1..n) -> [Owners -> Nat]] : LoopsOver(g, G, base, 1..n)
    <3> HIDE DEF G
    <3> QED
      BY <1>1, <2>1, <2>3, LoopExists
  <2>5. Fits(g)
    BY <1>1, <2>4, GreatestInPlaces DEF LoopsOver
  <2>6. Fits(h)
    BY <2>5
  <2>7. left = h[1..n]
    <3>1. left = FoldLeft(LAMBDA p, o : WithoutPoints(p, o), base, values)
      BY DEF left, WithoutPoints, base
    <3>2. FoldLeft(LAMBDA p, o : WithoutPoints(p, o), base, values) = (CHOOSE f : Fits(f))[1..n]
      BY <1>1 DEF FoldLeft, MapThenFoldSet, Max, Greatest
    <3> QED
      BY <3>1, <3>2
  <2> HIDE DEF h
  <2>8. \A s \in SUBSET (1..n) : s # {} /\ h[s \ {Greatest(s)}] \in [Owners -> Nat] =>
           h[s] = G[<<h[s \ {Greatest(s)}], Greatest(s)>>]
    BY <1>1, <2>6, GreatestInPlaces
  <2>9. StepsAs(h, G, [Owners -> Nat], base, n)
    BY <2>6, <2>8 DEF StepsAs
  <2> HIDE DEF Fits
  <2>10. PICK t \in [0..n -> [Owners -> Nat]] : LoopStates(t, h, G, base, n)
    <3> HIDE DEF G
    <3> QED
      BY <1>1, <2>1, <2>3, <2>9, LoopTrace
  <2>11. ASSUME NEW i \in 1..n PROVE G[<<t[i - 1], i>>] = WithoutPoints(t[i - 1], values[i])
    <3>1. i - 1 \in 0..n
      BY <1>1
    <3>2. t[i - 1] \in [Owners -> Nat]
      BY <3>1
    <3> QED
      BY <3>2
  <2> QED
    BY <2>7, <2>10, <2>11 DEF base, LoopStates
<1> DEFINE Before(i) == {values[k] : k \in 1..i}
           Good == {i \in 0..n : t[i] = [o \in Owners |-> IF o \in Before(i) THEN 0 ELSE points[o]]}
<1>3. 0 \in Good
  <2>1. 0 \in 0..n /\ Before(0) = {}
    BY <1>1
  <2>2. points = [o \in Owners |-> IF o \in Before(0) THEN 0 ELSE points[o]]
    BY <2>1
  <2> QED
    BY <1>2, <2>1, <2>2
<1>4. ASSUME NEW i \in 1..n, i - 1 \in Good PROVE i \in Good
  <2> DEFINE v == values[i]
             m == i - 1
  <2>1. m \in 0..n /\ i \in 0..n /\ 1..i = (1..m) \cup {i}
    <3>1. i \in Nat /\ i > 0 /\ i <= n /\ n \in Nat
      BY <1>1
    <3>2. m \in 0..n /\ i \in 0..n
      BY <3>1
    <3>3. \A k : k \in 1..i <=> k \in 1..m \/ k = i
      BY <3>1
    <3> QED
      BY <3>2, <3>3
  <2>2. v \in Owners /\ t[m] = [o \in Owners |-> IF o \in Before(m) THEN 0 ELSE points[o]]
    BY <1>1, <1>4
  <2>3. Before(i) = Before(m) \cup {v}
    BY <2>1
  <2>4. t[i] = [t[m] EXCEPT ![v] = 0]
    BY <1>2 DEF WithoutPoints
  <2> HIDE DEF v, m, Before
  <2>5. t[i] = [o \in Owners |-> IF o \in Before(i) THEN 0 ELSE points[o]]
    BY <2>2, <2>3, <2>4
  <2> QED
    BY <2>1, <2>5
<1>5. n \in Good
  <2> HIDE DEF Good
  <2>1. \A i \in 0..n : i \in Good
    BY <1>1, <1>3, <1>4, CountingInduction
  <2> QED
    BY <1>1, <2>1
<1>6. Before(n) = ToSet(values)
  BY <1>1 DEF ToSet
<1>7. left = [o \in Owners |-> IF o \in ToSet(values) THEN 0 ELSE points[o]]
  BY <1>2, <1>5, <1>6
<1> QED
  BY <1>7 DEF left

\* In increasing order, no signer comes twice.
LEMMA IncreasingIsStrict ==
    ASSUME NEW signatures \in Seq(Owners), Increasing(signatures)
    PROVE  \A i, k \in 1..Len(signatures) : k < i => signatures[k] < signatures[i]
<1> DEFINE n == Len(signatures)
           Good == {i \in 0..n : \A k \in 1..n : k < i => signatures[k] < signatures[i]}
<1>1. n \in Nat /\ \A i \in 1..n : signatures[i] \in Nat
  <2>1. n \in Nat /\ \A i \in 1..n : signatures[i] \in Owners
    OBVIOUS
  <2> QED
    BY <2>1, AddressAssumption
<1>2. \A i \in 1..(n - 1) : signatures[i] < signatures[i + 1]
  BY DEF Increasing
<1> HIDE DEF n
<1>3. 0 \in Good
  <2>1. 0 \in 0..n /\ \A k \in 1..n : ~(k < 0)
    BY <1>1
  <2> QED
    BY <2>1
<1>4. ASSUME NEW i \in 1..n, i - 1 \in Good PROVE i \in Good
  <2>1. i \in 0..n
    BY <1>1
  <2>2. ASSUME NEW k \in 1..n, k < i PROVE signatures[k] < signatures[i]
    <3> DEFINE m == i - 1
    <3>1. m \in 1..(n - 1) /\ m + 1 = i /\ m \in 1..n
      BY <1>1, <2>2
    <3>2. signatures[m] < signatures[m + 1]
      BY <1>2, <3>1
    <3>3. CASE k = m
      BY <3>1, <3>2, <3>3
    <3>4. CASE k # m
      <4>1. k < m
        BY <1>1, <2>2, <3>1, <3>4
      <4>2. signatures[k] < signatures[m]
        BY <1>4, <4>1
      <4> HIDE DEF m
      <4> QED
        BY <1>1, <3>1, <3>2, <4>2
    <3> QED
      BY <3>3, <3>4
  <2> QED
    BY <2>1, <2>2
<1>5. \A i \in 0..n : i \in Good
  <2> HIDE DEF Good
  <2> QED
    BY <1>1, <1>3, <1>4, CountingInduction
<1>6. \A i \in 1..n : i \in 0..n
  BY <1>1
<1> QED
  BY <1>5, <1>6 DEF n

\* One pass of the loop of _validateExecution.
Tally == [valid : Nat, missed : [Owners -> Nat], lastSigned : [Owners -> Nat]]

Counted(acc, o) ==
    IF Has(selectedOracles, o)
    THEN [valid      |-> acc.valid + 1,
          missed     |-> [acc.missed EXCEPT ![o] = 0],
          lastSigned |-> [acc.lastSigned EXCEPT ![o] = number]]
    ELSE acc

\* What the loop leaves: each signer of the round counts once.
LEMMA SignaturesCounted ==
    ASSUME selectedOracles \in Proper, number \in Nat,
           missed \in [Owners -> Nat], lastSigned \in [Owners -> Nat],
           NEW signatures \in Seq(Owners), Increasing(signatures)
    PROVE  LET counted == CountSignatures(signatures)
               signers == ToSet(signatures) \cap Elements(selectedOracles)
           IN  /\ IsFiniteSet(signers) /\ counted.valid = Cardinality(signers)
               /\ counted.missed = [o \in Owners |-> IF o \in signers THEN 0 ELSE missed[o]]
               /\ counted.lastSigned = [o \in Owners |-> IF o \in signers THEN number ELSE lastSigned[o]]
<1> DEFINE n == Len(signatures)
           counted == CountSignatures(signatures)
           In == Elements(selectedOracles)
<1>1. n \in Nat /\ DOMAIN signatures = 1..n /\ \A i \in 1..n : signatures[i] \in Owners
  OBVIOUS
<1>0. \A i, k \in 1..n : k < i => signatures[k] # signatures[i]
  <2>1. \A i \in 1..n : signatures[i] \in Nat
    BY AddressAssumption
  <2>2. \A i, k \in 1..n : k < i => signatures[k] < signatures[i]
    BY IncreasingIsStrict
  <2> HIDE DEF n
  <2> QED
    BY <2>1, <2>2
<1> HIDE DEF n, counted, In
<1>2. PICK t \in [0..n -> Tally] :
          /\ t[0] = [valid |-> 0, missed |-> missed, lastSigned |-> lastSigned]
          /\ \A i \in 1..n : t[i] = Counted(t[i - 1], signatures[i])
          /\ counted = t[n]
  <2> DEFINE base == [valid |-> 0, missed |-> missed, lastSigned |-> lastSigned]
             G == [p \in Tally \X (1..n) |-> Counted(p[1], signatures[p[2]])]
             Fits(f) == f = [s \in SUBSET (1..n) |->
                               IF s = {} THEN base
                               ELSE Counted(f[s \ {Greatest(s)}], signatures[Greatest(s)])]
             h == CHOOSE f : Fits(f)
  <2>1. base \in Tally
    BY DEF Tally
  <2>2. ASSUME NEW v \in Tally, NEW i \in 1..n PROVE Counted(v, signatures[i]) \in Tally
    <3> DEFINE o == signatures[i]
    <3>1. /\ o \in Owners /\ number \in Nat
          /\ v.valid \in Nat /\ v.missed \in [Owners -> Nat] /\ v.lastSigned \in [Owners -> Nat]
      BY <1>1 DEF Tally
    <3> HIDE DEF o
    <3>2. /\ v.valid + 1 \in Nat
          /\ [v.missed EXCEPT ![o] = 0] \in [Owners -> Nat]
          /\ [v.lastSigned EXCEPT ![o] = number] \in [Owners -> Nat]
      BY <3>1
    <3>3. Counted(v, o) \in Tally
      BY <3>2 DEF Tally, Counted
    <3> QED
      BY <3>3 DEF o
  <2> HIDE DEF base
  <2>3. G \in [Tally \X (1..n) -> Tally]
    BY <2>2
  <2>4. PICK g \in [SUBSET (1..n) -> Tally] : LoopsOver(g, G, base, 1..n)
    <3> HIDE DEF G
    <3> QED
      BY <1>1, <2>1, <2>3, LoopExists
  <2>5. Fits(g)
    BY <1>1, <2>4, GreatestInPlaces DEF LoopsOver
  <2>6. Fits(h)
    BY <2>5
  <2>7. counted = h[1..n]
    <3>1. counted = FoldLeft(LAMBDA acc, o : Counted(acc, o), base, signatures)
      BY DEF CountSignatures, Counted, counted, base
    <3>2. FoldLeft(LAMBDA acc, o : Counted(acc, o), base, signatures) = (CHOOSE f : Fits(f))[1..n]
      BY <1>1 DEF FoldLeft, MapThenFoldSet, Max, Greatest
    <3> QED
      BY <3>1, <3>2
  <2> HIDE DEF h
  <2>8. \A s \in SUBSET (1..n) : s # {} /\ h[s \ {Greatest(s)}] \in Tally =>
           h[s] = G[<<h[s \ {Greatest(s)}], Greatest(s)>>]
    BY <1>1, <2>6, GreatestInPlaces
  <2>9. StepsAs(h, G, Tally, base, n)
    BY <2>6, <2>8 DEF StepsAs
  <2> HIDE DEF Fits
  <2>10. PICK t \in [0..n -> Tally] : LoopStates(t, h, G, base, n)
    <3> HIDE DEF G
    <3> QED
      BY <1>1, <2>1, <2>3, <2>9, LoopTrace
  <2>11. ASSUME NEW i \in 1..n PROVE G[<<t[i - 1], i>>] = Counted(t[i - 1], signatures[i])
    <3>1. i - 1 \in 0..n
      BY <1>1
    <3>2. t[i - 1] \in Tally
      BY <3>1
    <3> QED
      BY <3>2
  <2> QED
    BY <2>7, <2>10, <2>11 DEF base, LoopStates
<1> DEFINE Before(i) == {signatures[k] : k \in 1..i} \cap In
           Good == {i \in 0..n :
                      /\ IsFiniteSet(Before(i)) /\ t[i].valid = Cardinality(Before(i))
                      /\ t[i].missed = [o \in Owners |-> IF o \in Before(i) THEN 0 ELSE missed[o]]
                      /\ t[i].lastSigned =
                            [o \in Owners |-> IF o \in Before(i) THEN number ELSE lastSigned[o]]}
<1>3. 0 \in Good
  <2>1. 0 \in 0..n /\ Before(0) = {}
    BY <1>1
  <2>2. /\ missed = [o \in Owners |-> IF o \in Before(0) THEN 0 ELSE missed[o]]
        /\ lastSigned = [o \in Owners |-> IF o \in Before(0) THEN number ELSE lastSigned[o]]
    BY <2>1
  <2>3. IsFiniteSet(Before(0)) /\ Cardinality(Before(0)) = 0
    BY <2>1, FS_EmptySet
  <2> HIDE DEF Before
  <2> QED
    BY <1>2, <2>1, <2>2, <2>3
<1>4. ASSUME NEW i \in 1..n, i - 1 \in Good PROVE i \in Good
  <2> DEFINE v == signatures[i]
             m == i - 1
             acc == t[m]
  <2>1. m \in 0..n /\ i \in 0..n /\ 1..i = (1..m) \cup {i} /\ \A k \in 1..m : k \in 1..n /\ k < i
    BY <1>1
  <2>2. /\ v \in Owners /\ acc \in Tally
        /\ IsFiniteSet(Before(m)) /\ acc.valid = Cardinality(Before(m))
        /\ acc.missed = [o \in Owners |-> IF o \in Before(m) THEN 0 ELSE missed[o]]
        /\ acc.lastSigned = [o \in Owners |-> IF o \in Before(m) THEN number ELSE lastSigned[o]]
    BY <1>1, <1>4, <2>1
  <2>3. Before(i) = (IF v \in In THEN Before(m) \cup {v} ELSE Before(m)) /\ v \notin Before(m)
    <3>1. {signatures[k] : k \in 1..i} = {signatures[k] : k \in 1..m} \cup {v}
      BY <2>1
    <3>2. v \notin {signatures[k] : k \in 1..m}
      BY <1>0, <2>1
    <3> QED
      BY <3>1, <3>2
  <2>4. t[i] = Counted(acc, v)
    BY <1>2
  <2>5. Has(selectedOracles, v) <=> v \in In
    BY <2>2, HasIsMember DEF In
  <2> HIDE DEF v, m, acc, Before
  <2>6. CASE v \in In
    <3>1. t[i] = [valid      |-> acc.valid + 1,
                  missed     |-> [acc.missed EXCEPT ![v] = 0],
                  lastSigned |-> [acc.lastSigned EXCEPT ![v] = number]]
      BY <2>4, <2>5, <2>6 DEF Counted
    <3>2. Before(i) = Before(m) \cup {v}
      BY <2>3, <2>6
    <3>3. IsFiniteSet(Before(i)) /\ Cardinality(Before(i)) = acc.valid + 1
      <4>1. /\ IsFiniteSet(Before(m) \cup {v})
            /\ Cardinality(Before(m) \cup {v}) = Cardinality(Before(m)) + 1
        BY <2>2, <2>3, FS_AddElement
      <4> QED
        BY <2>2, <3>2, <4>1
    <3>4. t[i].missed = [o \in Owners |-> IF o \in Before(i) THEN 0 ELSE missed[o]]
      <4>1. t[i].missed = [acc.missed EXCEPT ![v] = 0]
        BY <3>1
      <4> QED
        BY <2>2, <3>2, <4>1
    <3>5. t[i].lastSigned = [o \in Owners |-> IF o \in Before(i) THEN number ELSE lastSigned[o]]
      <4>1. t[i].lastSigned = [acc.lastSigned EXCEPT ![v] = number]
        BY <3>1
      <4> QED
        BY <2>2, <3>2, <4>1
    <3>6. t[i].valid = acc.valid + 1
      BY <3>1
    <3> QED
      BY <2>1, <3>3, <3>4, <3>5, <3>6
  <2>7. CASE v \notin In
    BY <2>1, <2>2, <2>3, <2>4, <2>5, <2>7 DEF Counted
  <2> QED
    BY <2>6, <2>7
<1>5. n \in Good
  <2> HIDE DEF Good
  <2>1. \A i \in 0..n : i \in Good
    BY <1>1, <1>3, <1>4, CountingInduction
  <2> QED
    BY <1>1, <2>1
<1>6. Before(n) = ToSet(signatures) \cap In
  BY <1>1 DEF ToSet
<1> QED
  BY <1>2, <1>5, <1>6 DEF counted, In

-----------------------------------------------------------------------------
(***************************************************************************)
(* The automatic unsubscription.                                           *)
(***************************************************************************)
Removal == [subscribed : Proper, count : Nat, missed : [Owners -> Nat],
            lastSigned : [Owners -> Nat], events : SUBSET Owners]

ArraysTyped ==
    /\ subscribedOracles \in Proper
    /\ selectedOracles \in Proper
    /\ stake \in [Owners -> Nat]
    /\ number \in Nat
    /\ lockPeriodTimestamp \in Nat
    /\ totalPoints \in Nat
    /\ points \in [Owners -> Nat]
    /\ missed \in [Owners -> Nat]
    /\ lastSigned \in [Owners -> Nat]
    /\ maxMissedSigRounds \in Nat
    /\ timestamp \in Nat
    /\ autoUnsubscribed \subseteq Owners

SubscribedNow == Elements(subscribedOracles)
MissedThis(o) == lastSigned[o] # number
Due == {o \in Elements(selectedOracles) : MissedThis(o) /\ missed[o] + 1 >= maxMissedSigRounds}
Floor == minOraclesPerRound + 1

\* What acc says when the loop has passed the owners of B: those it removed
\* were due, all of them were as long as there is somebody to spare, and only
\* what it had to change has changed.
RemovedSoFar(acc, B) ==
    /\ Elements(acc.subscribed) = SubscribedNow \ acc.events
    /\ acc.events \subseteq Due \cap B
    /\ IsFiniteSet(acc.events)
    /\ acc.count = Len(subscribedOracles.values) - Cardinality(acc.events)
    /\ acc.count >= Floor
    /\ (acc.count > Floor => acc.events = Due \cap B)
    /\ acc.missed = [o \in Owners |-> IF o \in acc.events \cap SubscribedNow THEN 0
                                      ELSE IF o \in B /\ MissedThis(o) THEN missed[o] + 1
                                      ELSE missed[o]]
    /\ acc.lastSigned = [o \in Owners |-> IF o \in acc.events \cap SubscribedNow THEN 0
                                          ELSE lastSigned[o]]

LEMMA AccountMissTyped ==
    ASSUME ArraysTyped, NEW acc \in Removal, NEW o \in Owners
    PROVE  AccountMiss(acc, o) \in Removal
<1> DEFINE misses == acc.missed[o] + 1
           counted == [acc EXCEPT !.missed[o] = misses]
           removed == Removed(acc.subscribed, o)
           gone == [subscribed |-> removed,
                    count      |-> acc.count - 1,
                    missed     |-> IF Has(acc.subscribed, o)
                                   THEN [acc.missed EXCEPT ![o] = 0] ELSE counted.missed,
                    lastSigned |-> IF Has(acc.subscribed, o)
                                   THEN [acc.lastSigned EXCEPT ![o] = 0] ELSE acc.lastSigned,
                    events     |-> acc.events \cup {o}]
<1>1. /\ acc.subscribed \in Proper /\ acc.count \in Nat /\ acc.missed \in [Owners -> Nat]
      /\ acc.lastSigned \in [Owners -> Nat] /\ acc.events \in SUBSET Owners
      /\ misses \in Nat /\ minOraclesPerRound \in Nat
  BY ConfigAssumption DEF Removal
<1>2. counted \in Removal /\ counted.missed \in [Owners -> Nat]
  BY <1>1 DEF Removal
<1>3. removed \in Proper
  BY <1>1, RemovedFacts
<1> HIDE DEF removed, counted
<1>4. acc.count > minOraclesPerRound + 1 => gone \in Removal
  BY <1>1, <1>2, <1>3 DEF Removal
<1>5. AccountMiss(acc, o) =
         IF acc.lastSigned[o] = number THEN acc
         ELSE IF misses >= maxMissedSigRounds /\ acc.count > minOraclesPerRound + 1
         THEN gone ELSE counted
  BY DEF AccountMiss, counted, removed
<1> HIDE DEF gone
<1> QED
  BY <1>2, <1>4, <1>5

\* One pass of the loop.
LEMMA AccountMissFacts ==
    ASSUME ArraysTyped, NEW acc \in Removal, NEW B \in SUBSET Elements(selectedOracles),
           NEW o \in Elements(selectedOracles) \ B, RemovedSoFar(acc, B)
    PROVE  RemovedSoFar(AccountMiss(acc, o), B \cup {o})
<1> DEFINE misses == acc.missed[o] + 1
           C == B \cup {o}
           r == AccountMiss(acc, o)
           n0 == Len(subscribedOracles.values)
<1>1. /\ o \in Owners /\ C \in SUBSET Owners /\ o \notin B
      /\ SubscribedNow \in SUBSET Owners /\ n0 \in Nat /\ Floor \in Nat
      /\ acc.subscribed \in Proper /\ acc.count \in Nat /\ acc.missed \in [Owners -> Nat]
      /\ acc.lastSigned \in [Owners -> Nat] /\ acc.events \in SUBSET Owners
      /\ maxMissedSigRounds \in Nat /\ missed \in [Owners -> Nat] /\ lastSigned \in [Owners -> Nat]
  <2>1. SubscribedNow \in SUBSET Owners /\ n0 \in Nat /\ Elements(selectedOracles) \in SUBSET Owners
    BY ProperFacts DEF ArraysTyped, SubscribedNow
  <2>2. Floor \in Nat
    BY ConfigAssumption DEF Floor
  <2>3. o \in Owners /\ C \in SUBSET Owners /\ o \notin B
    BY <2>1
  <2> HIDE DEF n0, C
  <2> QED
    BY <2>1, <2>2, <2>3 DEF Removal, ArraysTyped
<1>2. o \notin acc.events /\ acc.missed[o] = missed[o] /\ acc.lastSigned[o] = lastSigned[o]
  BY <1>1 DEF RemovedSoFar
<1>3. Has(acc.subscribed, o) <=> o \in SubscribedNow
  <2>1. Elements(acc.subscribed) = SubscribedNow \ acc.events
    BY DEF RemovedSoFar
  <2> QED
    BY <1>1, <1>2, <2>1, HasIsMember
<1>4. Due \cap C = IF MissedThis(o) /\ missed[o] + 1 >= maxMissedSigRounds
                   THEN (Due \cap B) \cup {o} ELSE Due \cap B
  BY DEF Due
<1>5. CASE ~MissedThis(o)
  <2>1. r = acc
    BY <1>2, <1>5 DEF AccountMiss, MissedThis
  <2>2. \A p \in Owners : p \in B /\ MissedThis(p) <=> p \in C /\ MissedThis(p)
    BY <1>5
  <2>3. acc.missed = [p \in Owners |-> IF p \in acc.events \cap SubscribedNow THEN 0
                                      ELSE IF p \in C /\ MissedThis(p) THEN missed[p] + 1
                                      ELSE missed[p]]
    BY <2>2 DEF RemovedSoFar
  <2>4. Due \cap C = Due \cap B
    BY <1>4, <1>5
  <2> HIDE DEF C
  <2>5. RemovedSoFar(acc, C)
    BY <2>3, <2>4 DEF RemovedSoFar
  <2> QED
    BY <2>1, <2>5 DEF C
<1>6. CASE MissedThis(o)
  <2> DEFINE counted == [acc EXCEPT !.missed[o] = misses]
             gone == [subscribed |-> Removed(acc.subscribed, o),
                      count      |-> acc.count - 1,
                      missed     |-> IF Has(acc.subscribed, o)
                                     THEN [acc.missed EXCEPT ![o] = 0] ELSE counted.missed,
                      lastSigned |-> IF Has(acc.subscribed, o)
                                     THEN [acc.lastSigned EXCEPT ![o] = 0] ELSE acc.lastSigned,
                      events     |-> acc.events \cup {o}]
  <2>1. r = IF misses >= maxMissedSigRounds /\ acc.count > Floor THEN gone ELSE counted
    BY <1>2, <1>6 DEF AccountMiss, MissedThis, Floor
  <2>2. misses = missed[o] + 1 /\ misses \in Nat
    BY <1>1, <1>2
  <2>3. /\ counted.subscribed = acc.subscribed /\ counted.count = acc.count
        /\ counted.lastSigned = acc.lastSigned /\ counted.events = acc.events
        /\ counted.missed = [acc.missed EXCEPT ![o] = misses]
    BY DEF Removal
  <2> HIDE DEF counted, misses
  <2>4. counted.missed = [p \in Owners |-> IF p \in acc.events \cap SubscribedNow THEN 0
                                          ELSE IF p \in C /\ MissedThis(p) THEN missed[p] + 1
                                          ELSE missed[p]]
    <3>1. \A p \in Owners \ {o} : p \in C <=> p \in B
      OBVIOUS
    <3>2. acc.missed = [p \in Owners |-> IF p \in acc.events \cap SubscribedNow THEN 0
                                        ELSE IF p \in B /\ MissedThis(p) THEN missed[p] + 1
                                        ELSE missed[p]]
      BY DEF RemovedSoFar
    <3>3. o \in C
      OBVIOUS
    <3> HIDE DEF C
    <3>4. /\ acc.missed \in [Owners -> Nat] /\ o \in Owners
          /\ o \notin acc.events /\ MissedThis(o) /\ counted.missed \in [Owners -> Nat]
          /\ counted.missed[o] = missed[o] + 1
      BY <1>1, <1>2, <1>6, <2>2, <2>3
    <3>5. ASSUME NEW p \in Owners
          PROVE  counted.missed[p] = IF p \in acc.events \cap SubscribedNow THEN 0
                                     ELSE IF p \in C /\ MissedThis(p) THEN missed[p] + 1
                                     ELSE missed[p]
      <4>1. CASE p = o
        BY <3>3, <3>4, <4>1
      <4>2. CASE p # o
        <5>1. counted.missed[p] = acc.missed[p]
          BY <2>3, <3>4, <4>2
        <5>2. p \in C <=> p \in B
          BY <3>1, <4>2
        <5> QED
          BY <3>2, <5>1, <5>2
      <4> QED
        BY <4>1, <4>2
    <3> QED
      BY <3>4, <3>5
  <2>5. CASE misses >= maxMissedSigRounds /\ acc.count > Floor
    <3> DEFINE e == acc.events \cup {o}
    <3>1. r = gone
      BY <2>1, <2>5
    <3>2. /\ gone.subscribed = Removed(acc.subscribed, o) /\ gone.count = acc.count - 1
          /\ gone.events = e
          /\ gone.missed = IF o \in SubscribedNow THEN [acc.missed EXCEPT ![o] = 0] ELSE counted.missed
          /\ gone.lastSigned =
                IF o \in SubscribedNow THEN [acc.lastSigned EXCEPT ![o] = 0] ELSE acc.lastSigned
      BY <1>3
    <3> HIDE DEF gone
    <3>3. acc.events = Due \cap B /\ Due \cap C = e
      BY <1>4, <1>6, <2>2, <2>5 DEF RemovedSoFar
    <3>4. Elements(gone.subscribed) = SubscribedNow \ e
      <4>1. Elements(acc.subscribed) = SubscribedNow \ acc.events
        BY DEF RemovedSoFar
      <4>2. Elements(Removed(acc.subscribed, o)) = Elements(acc.subscribed) \ {o}
        BY <1>1, RemovedFacts
      <4> QED
        BY <3>2, <4>1, <4>2
    <3>5. IsFiniteSet(e) /\ gone.count = n0 - Cardinality(e)
      <4>1. /\ IsFiniteSet(acc.events) /\ acc.count = n0 - Cardinality(acc.events)
            /\ Cardinality(acc.events) \in Nat
        BY FS_CardinalityType DEF RemovedSoFar
      <4>2. IsFiniteSet(e) /\ Cardinality(e) = Cardinality(acc.events) + 1
        BY <1>2, <4>1, FS_AddElement
      <4> QED
        BY <1>1, <3>2, <4>1, <4>2
    <3>6. gone.count >= Floor
      BY <1>1, <2>5, <3>2
    <3>7. gone.missed = [p \in Owners |-> IF p \in e \cap SubscribedNow THEN 0
                                         ELSE IF p \in C /\ MissedThis(p) THEN missed[p] + 1
                                         ELSE missed[p]]
      <4>1. CASE o \in SubscribedNow
        <5>1. gone.missed = [acc.missed EXCEPT ![o] = 0]
          BY <3>2, <4>1
        <5>2. acc.missed = [p \in Owners |-> IF p \in acc.events \cap SubscribedNow THEN 0
                                            ELSE IF p \in B /\ MissedThis(p) THEN missed[p] + 1
                                            ELSE missed[p]]
          BY DEF RemovedSoFar
        <5> QED
          BY <1>1, <4>1, <5>1, <5>2
      <4>2. CASE o \notin SubscribedNow
        <5>1. gone.missed = counted.missed
          BY <3>2, <4>2
        <5>2. e \cap SubscribedNow = acc.events \cap SubscribedNow
          BY <4>2
        <5> HIDE DEF e, C
        <5> QED
          BY <2>4, <5>1, <5>2
      <4> QED
        BY <4>1, <4>2
    <3>8. gone.lastSigned = [p \in Owners |-> IF p \in e \cap SubscribedNow THEN 0
                                             ELSE lastSigned[p]]
      <4>1. acc.lastSigned = [p \in Owners |-> IF p \in acc.events \cap SubscribedNow THEN 0
                                              ELSE lastSigned[p]]
        BY DEF RemovedSoFar
      <4>2. CASE o \in SubscribedNow
        BY <1>1, <3>2, <4>1, <4>2
      <4>3. CASE o \notin SubscribedNow
        <5>1. e \cap SubscribedNow = acc.events \cap SubscribedNow
          BY <4>3
        <5> HIDE DEF e
        <5> QED
          BY <3>2, <4>1, <4>3, <5>1
      <4> QED
        BY <4>2, <4>3
    <3> HIDE DEF e, C, n0, r
    <3>9. RemovedSoFar(gone, C)
      BY <3>2, <3>3, <3>4, <3>5, <3>6, <3>7, <3>8 DEF RemovedSoFar, n0
    <3> QED
      BY <3>1, <3>9 DEF C, r
  <2>6. CASE ~(misses >= maxMissedSigRounds /\ acc.count > Floor)
    <3>1. r = counted
      BY <2>1, <2>6
    <3>2. acc.events \subseteq Due \cap C
      BY DEF RemovedSoFar
    <3>3. acc.count > Floor => acc.events = Due \cap C
      <4>1. acc.count > Floor => Due \cap C = Due \cap B
        BY <1>4, <2>2, <2>6
      <4> QED
        BY <4>1 DEF RemovedSoFar
    <3> HIDE DEF C, r
    <3>4. RemovedSoFar(counted, C)
      BY <2>3, <2>4, <3>2, <3>3 DEF RemovedSoFar
    <3> QED
      BY <3>1, <3>4 DEF C, r
  <2> QED
    BY <2>5, <2>6
<1> QED
  BY <1>5, <1>6

\* The whole loop, for the owners in the round.
LEMMA RemovalsFound ==
    ASSUME ArraysTyped, Len(subscribedOracles.values) > Floor
    PROVE  LET after == FoldLeft(AccountMiss, BeforeRemovals, selectedOracles.values)
           IN  after \in Removal /\ RemovedSoFar(after, Elements(selectedOracles))
<1> DEFINE values == selectedOracles.values
           n == Len(values)
           after == FoldLeft(AccountMiss, BeforeRemovals, values)
<1>1. n \in Nat /\ DOMAIN values = 1..n /\ \A i \in 1..n : values[i] \in Owners
  BY ProperFacts DEF ArraysTyped
<1>0. /\ \A i, k \in 1..n : values[i] = values[k] => i = k
      /\ Elements(selectedOracles) = {values[i] : i \in 1..n}
  BY <1>1, ProperFacts DEF ArraysTyped, Elements, ToSet
<1>00. BeforeRemovals \in Removal /\ RemovedSoFar(BeforeRemovals, {})
  <2>1. Len(subscribedOracles.values) \in Nat /\ Floor \in Nat
    <3>1. Len(subscribedOracles.values) \in Nat
      BY ProperFacts DEF ArraysTyped
    <3>2. Floor \in Nat
      BY ConfigAssumption DEF Floor
    <3> QED
      BY <3>1, <3>2
  <2>2. BeforeRemovals \in Removal
    BY <2>1 DEF BeforeRemovals, Removal, ArraysTyped
  <2>3. IsFiniteSet({}) /\ Cardinality({}) = 0
    BY FS_EmptySet
  <2>4. /\ missed = [o \in Owners |-> IF o \in {} \cap SubscribedNow THEN 0
                                      ELSE IF o \in {} /\ MissedThis(o) THEN missed[o] + 1
                                      ELSE missed[o]]
        /\ lastSigned = [o \in Owners |-> IF o \in {} \cap SubscribedNow THEN 0
                                          ELSE lastSigned[o]]
    BY DEF ArraysTyped
  <2>5. RemovedSoFar(BeforeRemovals, {})
    BY <2>1, <2>3, <2>4 DEF RemovedSoFar, BeforeRemovals, SubscribedNow
  <2> QED
    BY <2>2, <2>5
<1> HIDE DEF n, after, values
<1>2. PICK t \in [0..n -> Removal] :
          /\ t[0] = BeforeRemovals
          /\ \A i \in 1..n : t[i] = AccountMiss(t[i - 1], values[i])
          /\ after = t[n]
  <2> DEFINE base == BeforeRemovals
             G == [p \in Removal \X (1..n) |-> AccountMiss(p[1], values[p[2]])]
             Fits(f) == f = [s \in SUBSET (1..n) |->
                               IF s = {} THEN base
                               ELSE AccountMiss(f[s \ {Greatest(s)}], values[Greatest(s)])]
             h == CHOOSE f : Fits(f)
  <2>1. base \in Removal
    BY <1>00
  <2>2. ASSUME NEW v \in Removal, NEW i \in 1..n PROVE AccountMiss(v, values[i]) \in Removal
    BY <1>1, AccountMissTyped
  <2> HIDE DEF base
  <2>3. G \in [Removal \X (1..n) -> Removal]
    BY <2>2
  <2>4. PICK g \in [SUBSET (1..n) -> Removal] : LoopsOver(g, G, base, 1..n)
    <3> HIDE DEF G
    <3> QED
      BY <1>1, <2>1, <2>3, LoopExists
  <2>5. Fits(g)
    BY <1>1, <2>4, GreatestInPlaces DEF LoopsOver
  <2>6. Fits(h)
    BY <2>5
  <2>7. after = h[1..n]
    BY <1>1 DEF after, FoldLeft, MapThenFoldSet, Max, Greatest, base
  <2> HIDE DEF h
  <2>8. \A s \in SUBSET (1..n) : s # {} /\ h[s \ {Greatest(s)}] \in Removal =>
           h[s] = G[<<h[s \ {Greatest(s)}], Greatest(s)>>]
    BY <1>1, <2>6, GreatestInPlaces
  <2>9. StepsAs(h, G, Removal, base, n)
    BY <2>6, <2>8 DEF StepsAs
  <2> HIDE DEF Fits
  <2>10. PICK t \in [0..n -> Removal] : LoopStates(t, h, G, base, n)
    <3> HIDE DEF G
    <3> QED
      BY <1>1, <2>1, <2>3, <2>9, LoopTrace
  <2>11. ASSUME NEW i \in 1..n PROVE G[<<t[i - 1], i>>] = AccountMiss(t[i - 1], values[i])
    <3>1. i - 1 \in 0..n
      BY <1>1
    <3>2. t[i - 1] \in Removal
      BY <3>1
    <3> QED
      BY <3>2
  <2> QED
    BY <2>7, <2>10, <2>11 DEF base, LoopStates
<1> DEFINE Before(i) == {values[k] : k \in 1..i}
           Good == {i \in 0..n : RemovedSoFar(t[i], Before(i))}
<1>3. 0 \in Good
  <2>1. 0 \in 0..n /\ Before(0) = {}
    BY <1>1
  <2> QED
    BY <1>2, <1>00, <2>1
<1>4. ASSUME NEW i \in 1..n, i - 1 \in Good PROVE i \in Good
  <2> DEFINE v == values[i]
             m == i - 1
             acc == t[m]
  <2>1. m \in 0..n /\ i \in 0..n /\ 1..i = (1..m) \cup {i} /\ \A k \in 1..m : k \in 1..n /\ k # i
    BY <1>1
  <2>2. acc \in Removal /\ RemovedSoFar(acc, Before(m))
    BY <1>4, <2>1
  <2>3. Before(i) = Before(m) \cup {v}
    BY <2>1
  <2>4. v \in Elements(selectedOracles) \ Before(m) /\ Before(m) \in SUBSET Elements(selectedOracles)
    BY <1>0, <2>1
  <2>5. t[i] = AccountMiss(acc, v)
    BY <1>2
  <2> HIDE DEF v, m, acc, Before
  <2>6. RemovedSoFar(t[i], Before(i))
    BY <2>2, <2>3, <2>4, <2>5, AccountMissFacts
  <2> QED
    BY <2>1, <2>6
<1>5. n \in Good
  <2> HIDE DEF Good
  <2>1. \A i \in 0..n : i \in Good
    BY <1>1, <1>3, <1>4, CountingInduction
  <2> QED
    BY <1>1, <2>1
<1>6. Before(n) = Elements(selectedOracles) /\ n \in 0..n
  BY <1>0, <1>1
<1>7. after \in Removal /\ RemovedSoFar(after, Elements(selectedOracles))
  BY <1>2, <1>5, <1>6
<1> QED
  BY <1>7 DEF after, values

-----------------------------------------------------------------------------
(***************************************************************************)
(* The loop of unregisterCoinPair, which takes the first as often as there *)
(* were owners.                                                            *)
(***************************************************************************)
WithoutFirst(set) == Removed(set, set.values[1])

LEMMA WithoutFirstFacts ==
    ASSUME NEW set \in Proper, Len(set.values) > 0
    PROVE  /\ WithoutFirst(set) \in Proper
           /\ Len(WithoutFirst(set).values) = Len(set.values) - 1
<1>1. set.values[1] \in Elements(set) /\ set.values[1] \in Owners
  <2>1. 1 \in 1..Len(set.values) /\ DOMAIN set.values = 1..Len(set.values)
    BY ProperFacts
  <2> QED
    BY <2>1, ProperFacts DEF Elements, ToSet
<1>2. Has(set, set.values[1])
  BY <1>1, HasIsMember
<1> QED
  BY <1>1, <1>2, RemovedFacts DEF WithoutFirst

\* f takes one away at each place, as long as there is one.
TakesAway(f, set, n) ==
    /\ f[{}] = set
    /\ \A s \in SUBSET (1..n) :
          s # {} /\ f[s \ {Greatest(s)}] \in Proper /\ Len(f[s \ {Greatest(s)}].values) > 0
             => f[s] = WithoutFirst(f[s \ {Greatest(s)}])

\* As many are left at each place as f has not taken away.
LeavesTheRest(f, n) ==
    \A s \in SUBSET (1..n) : /\ f[s] \in Proper
                             /\ Len(f[s].values) = n - Cardinality(s)

LEMMA TakenAway ==
    ASSUME NEW set \in Proper, NEW n \in Nat, n = Len(set.values), NEW f, TakesAway(f, set, n)
    PROVE  LeavesTheRest(f, n)
<1> DEFINE Fine == {s \in SUBSET (1..n) : f[s] \in Proper /\ Len(f[s].values) = n - Cardinality(s)}
<1>1. IsFiniteSet(1..n) /\ Cardinality(1..n) = n
  BY FS_Interval
<1>2. ASSUME NEW s \in SUBSET (1..n), \A r \in SUBSET s : r # s => r \in Fine
      PROVE  s \in Fine
  <2>1. IsFiniteSet(s) /\ Cardinality(s) \in Nat /\ Cardinality(s) <= n
    BY <1>1, FS_Subset, FS_CardinalityType
  <2>2. CASE s = {}
    <3>1. f[s] = set /\ Cardinality(s) = 0
      BY <2>2, FS_EmptySet DEF TakesAway
    <3> QED
      BY <3>1
  <2>3. CASE s # {}
    <3> DEFINE r == s \ {Greatest(s)}
    <3>1. Greatest(s) \in s
      BY <2>3, GreatestInPlaces
    <3>2. Cardinality(r) = Cardinality(s) - 1
      BY <2>1, <3>1, FS_RemoveElement
    <3>3. r \in SUBSET s /\ r # s
      BY <3>1
    <3>4. f[r] \in Proper /\ Len(f[r].values) = n - Cardinality(r)
      BY <1>2, <3>3
    <3>5. Len(f[r].values) > 0
      BY <2>1, <3>2, <3>4
    <3>6. f[s] = WithoutFirst(f[r])
      BY <2>3, <3>4, <3>5 DEF TakesAway
    <3> HIDE DEF r
    <3>7. f[s] \in Proper /\ Len(f[s].values) = Len(f[r].values) - 1
      BY <3>4, <3>5, <3>6, WithoutFirstFacts
    <3>8. Len(f[s].values) = n - Cardinality(s)
      BY <2>1, <3>2, <3>4, <3>7
    <3> QED
      BY <3>7, <3>8
  <2> QED
    BY <2>2, <2>3
<1> HIDE DEF Fine
<1>3. \A s \in SUBSET (1..n) : s \in Fine
  <2> DEFINE E == 1..n
  <2>1. IsFiniteSet(E) /\ \A s \in SUBSET E : (\A r \in SUBSET s : r # s => r \in Fine) => s \in Fine
    BY <1>1, <1>2
  <2> HIDE DEF E
  <2>2. \A s \in SUBSET E : s \in Fine
    BY <2>1, SubsetInduction
  <2> QED
    BY <2>2 DEF E
<1> QED
  BY <1>3 DEF Fine, LeavesTheRest

LEMMA AllTakenAway ==
    ASSUME NEW set \in Proper
    PROVE  LET left == FoldLeft(LAMBDA q, i : Removed(q, q.values[1]), set, set.values)
           IN  left \in Proper /\ Elements(left) = {}
<1> DEFINE values == set.values
           n == Len(values)
           left == FoldLeft(LAMBDA q, i : Removed(q, q.values[1]), set, values)
           Fits(f) == f = [s \in SUBSET (1..n) |->
                             IF s = {} THEN set ELSE WithoutFirst(f[s \ {Greatest(s)}])]
           h == CHOOSE f : Fits(f)
           G == [p \in Proper \X (1..n) |->
                   IF Len(p[1].values) > 0 THEN WithoutFirst(p[1]) ELSE p[1]]
<1>1. n \in Nat /\ DOMAIN values = 1..n
  BY ProperFacts
<1>2. n = Len(set.values)
  OBVIOUS
<1>3. left = h[1..n]
  <2>1. left = FoldLeft(LAMBDA q, i : WithoutFirst(q), set, values)
    BY DEF WithoutFirst
  <2> HIDE DEF values, n
  <2>2. FoldLeft(LAMBDA q, i : WithoutFirst(q), set, values) = (CHOOSE f : Fits(f))[1..n]
    BY <1>1 DEF FoldLeft, MapThenFoldSet, Max, Greatest
  <2> QED
    BY <2>1, <2>2
<1> HIDE DEF n, values, left
<1>4. PICK g \in [SUBSET (1..n) -> Proper] : LoopsOver(g, G, set, 1..n)
  <2>1. G \in [Proper \X (1..n) -> Proper]
    BY WithoutFirstFacts
  <2> HIDE DEF G
  <2> QED
    BY <1>1, <2>1, LoopExists
<1>5. \A s \in SUBSET (1..n) : s # {} =>
         g[s] = IF Len(g[s \ {Greatest(s)}].values) > 0
                THEN WithoutFirst(g[s \ {Greatest(s)}]) ELSE g[s \ {Greatest(s)}]
  <2> SUFFICES ASSUME NEW s \in SUBSET (1..n), s # {}
               PROVE  g[s] = IF Len(g[s \ {Greatest(s)}].values) > 0
                             THEN WithoutFirst(g[s \ {Greatest(s)}]) ELSE g[s \ {Greatest(s)}]
    OBVIOUS
  <2> DEFINE r == s \ {Greatest(s)}
  <2>1. Greatest(s) \in s /\ r \in SUBSET (1..n)
    BY <1>1, GreatestInPlaces
  <2>2. g[s] = G[<<g[r], Greatest(s)>>]
    BY <1>4 DEF LoopsOver
  <2> HIDE DEF r
  <2>3. <<g[r], Greatest(s)>> \in Proper \X (1..n)
    BY <2>1
  <2>4. g[s] = IF Len(g[r].values) > 0 THEN WithoutFirst(g[r]) ELSE g[r]
    BY <2>2, <2>3
  <2> QED
    BY <2>4 DEF r
<1>6. TakesAway(g, set, n)
  <2>1. g[{}] = set
    BY <1>4 DEF LoopsOver
  <2> QED
    BY <1>5, <2>1 DEF TakesAway
<1>7. \A s \in SUBSET (1..n) : s # {} => g[s] = WithoutFirst(g[s \ {Greatest(s)}])
  <2> SUFFICES ASSUME NEW s \in SUBSET (1..n), s # {}
               PROVE  g[s] = WithoutFirst(g[s \ {Greatest(s)}])
    OBVIOUS
  <2> DEFINE r == s \ {Greatest(s)}
  <2>1. Greatest(s) \in s /\ r \in SUBSET (1..n)
    BY <1>1, GreatestInPlaces
  <2>2. IsFiniteSet(s) /\ Cardinality(s) \in Nat /\ Cardinality(s) <= n
    <3>1. IsFiniteSet(1..n) /\ Cardinality(1..n) = n
      BY <1>1, FS_Interval
    <3>2. IsFiniteSet(s) /\ Cardinality(s) <= Cardinality(1..n)
      BY <3>1, FS_Subset
    <3> QED
      BY <3>1, <3>2, FS_CardinalityType
  <2>3. Cardinality(r) = Cardinality(s) - 1
    <3> DEFINE x == Greatest(s)
    <3>1. x \in s /\ IsFiniteSet(s)
      BY <2>1, <2>2
    <3> HIDE DEF x
    <3>2. Cardinality(s \ {x}) = Cardinality(s) - 1
      BY <3>1, FS_RemoveElement
    <3> QED
      BY <3>2 DEF x
  <2> HIDE DEF r
  <2>4. Len(g[r].values) = n - Cardinality(r)
    <3>1. n \in Nat /\ set \in Proper /\ n = Len(set.values) /\ TakesAway(g, set, n)
      BY <1>1, <1>2, <1>6
    <3> HIDE DEF n
    <3>2. LeavesTheRest(g, n)
      BY <3>1, TakenAway
    <3> QED
      BY <2>1, <3>2 DEF LeavesTheRest
  <2>5. Len(g[r].values) > 0
    <3>1. n \in Nat /\ Cardinality(s) \in Nat /\ Cardinality(s) <= n
      BY <1>1, <2>2
    <3> QED
      BY <2>3, <2>4, <3>1
  <2> QED
    BY <1>5, <2>5 DEF r
<1>8. Fits(g)
  <2>1. g[{}] = set
    BY <1>4 DEF LoopsOver
  <2>2. g = [s \in SUBSET (1..n) |-> g[s]]
    OBVIOUS
  <2>3. \A s \in SUBSET (1..n) : g[s] = IF s = {} THEN set ELSE WithoutFirst(g[s \ {Greatest(s)}])
    BY <1>7, <2>1
  <2> QED
    BY <2>2, <2>3
<1>9. Fits(h)
  BY <1>8
<1> HIDE DEF h
<1>10. TakesAway(h, set, n)
  BY <1>9 DEF TakesAway
<1> HIDE DEF Fits
<1>11. left \in Proper /\ Len(left.values) = 0
  <2>1. Cardinality(1..n) = n
    BY <1>1, FS_Interval
  <2>2. h[1..n] \in Proper /\ Len(h[1..n].values) = n - Cardinality(1..n)
    <3>1. n \in Nat /\ set \in Proper /\ n = Len(set.values) /\ TakesAway(h, set, n)
      BY <1>1, <1>2, <1>10
    <3> HIDE DEF n
    <3>2. LeavesTheRest(h, n)
      BY <3>1, TakenAway
    <3> QED
      BY <3>2 DEF LeavesTheRest
  <2> QED
    BY <1>1, <1>3, <2>1, <2>2
<1>12. Elements(left) = {}
  <2>1. DOMAIN left.values = 1..0
    BY <1>11, ProperFacts
  <2> QED
    BY <2>1 DEF Elements, ToSet
<1> QED
  BY <1>11, <1>12 DEF left, values

-----------------------------------------------------------------------------
(***************************************************************************)
(* What sort selects, as the sets of RoundManager.                         *)
(***************************************************************************)
LEMMA SameSize == \A S : Abstract!Cardinality(S) = Cardinality(S)
BY DEF Abstract!Cardinality, Cardinality

Distinct(s) == \A i, k \in 1..Len(s) : s[i] = s[k] => i = k

LEMMA RankedIsDistinct ==
    ASSUME NEW A, NEW st, NEW pos, NEW S, NEW s, InOrder(s, A, S, st, pos)
    PROVE  Distinct(s)
<1>0. s \in Seq(A) /\ Ranked(s, st, pos) /\ st \in [A -> Nat] /\ pos \in [A -> Nat]
  BY DEF InOrder
<1> SUFFICES ASSUME NEW i \in 1..Len(s), NEW k \in 1..Len(s), s[i] = s[k], i < k
             PROVE  FALSE
  <2>1. \A i, k \in 1..Len(s) : i = k \/ i < k \/ k < i
    BY <1>0
  <2> QED
    BY <1>0, <2>1 DEF Distinct
<1>1. Ahead(s[i], s[k], st, pos)
  BY <1>0 DEF Ranked
<1>2. s[i] \in A
  BY <1>0
<1>3. st[s[i]] \in Nat /\ pos[s[i]] \in Nat
  BY <1>0, <1>2
<1> QED
  BY <1>1, <1>3 DEF Ahead

\* sort selects the ones with most stake, each once.
LEMMA SortedIsTop ==
    ASSUME NEW st \in [Owners -> Nat], NEW set \in Proper, NEW count \in Nat
    PROVE  LET r == Sorted(set.values, st, count)
           IN  /\ r \in Seq(Owners) /\ Len(r) <= count
               /\ ToSet(r) \in Abstract!TopStaked(Elements(set), st, count)
<1> DEFINE values == set.values
           pos == set.indexes
           r == Sorted(values, st, count)
<1>1. /\ values \in Seq(Owners) /\ Len(values) \in Nat /\ pos \in [Owners -> Nat]
      /\ \A i \in 1..Len(values) : pos[values[i]] = i
  BY ProperFacts
<1>2. Elements(set) = ToSet(values) /\ Cardinality(Elements(set)) = Len(values)
      /\ Elements(set) \subseteq Owners
  BY ProperSize, ProperFacts DEF Elements
<1> HIDE DEF values, pos, r
<1>3. /\ InOrder(r, Owners, ToSet(values), st, pos)
      /\ Len(r) = IF count < Len(values) THEN count ELSE Len(values)
  <2>1. Placing(pos, values, Owners, st)
    BY <1>1 DEF Placing
  <2>2. /\ InOrder(Sorted(values, st, count), Owners, ToSet(values), st, pos)
        /\ Len(Sorted(values, st, count)) = Fewer(count, Len(values))
    BY <2>1, SortedFacts
  <2> QED
    BY <2>2 DEF r, Fewer
<1> USE DEF InOrder
<1>4. Cardinality(ToSet(r)) = Len(r)
  <2> HIDE DEF InOrder
  <2>1. Distinct(r)
    BY <1>1, <1>3, RankedIsDistinct
  <2>2. r \in Seq(Owners)
    BY <1>3 DEF InOrder
  <2> QED
    BY <2>1, <2>2, DistinctSize DEF Distinct
<1>5. Len(r) <= count
  BY <1>1, <1>3
<1>6. Cardinality(ToSet(r)) = Abstract!AtMost(count, Elements(set))
  BY <1>1, <1>2, <1>3, <1>4, SameSize DEF Abstract!AtMost
<1>7. \A o \in ToSet(r), p \in Elements(set) \ ToSet(r) : st[o] >= st[p]
  <2> SUFFICES ASSUME NEW o \in ToSet(r), NEW p \in Elements(set) \ ToSet(r)
               PROVE  st[o] >= st[p]
    OBVIOUS
  <2>1. Ahead(o, p, st, pos) /\ st[o] \in Nat /\ st[p] \in Nat
    BY <1>2, <1>3
  <2> QED
    BY <2>1 DEF Ahead
<1>8. ToSet(r) \in Abstract!TopStaked(Elements(set), st, count)
  BY <1>2, <1>3, <1>6, <1>7, SameSize DEF Abstract!TopStaked
<1> QED
  BY <1>3, <1>5, <1>8 DEF r, values

-----------------------------------------------------------------------------
(***************************************************************************)
(* Every step is a step of RoundManager.                                   *)
(***************************************************************************)
LEMMA ResetIsTyped ==
    ASSUME ArraysTyped, NEW S, ResetTracking(S)
    PROVE  /\ missed' \in [Owners -> Nat] /\ lastSigned' \in [Owners -> Nat]
           /\ Abstract!ResetTracking(S)
BY DEF ArraysTyped, ResetTracking, Abstract!ResetTracking

LEMMA RemoveSubscribedRefines ==
    ASSUME ArraysTyped, NEW o \in Owners, RemoveSubscribed(o)
    PROVE  /\ Abstract!RemoveSubscribed({o})
           /\ subscribedOracles' \in Proper
           /\ missed' \in [Owners -> Nat] /\ lastSigned' \in [Owners -> Nat]
<1>1. Has(subscribedOracles, o) <=> o \in Elements(subscribedOracles)
  BY HasIsMember DEF ArraysTyped
<1>2. subscribedOracles' = Removed(subscribedOracles, o)
  BY DEF RemoveSubscribed
<1>3. subscribedOracles' \in Proper /\ Elements(subscribedOracles') = Elements(subscribedOracles) \ {o}
  BY <1>2, RemovedFacts DEF ArraysTyped
<1>4. CASE o \in Elements(subscribedOracles)
  <2>1. ResetTracking({o})
    BY <1>1, <1>4 DEF RemoveSubscribed
  <2>2. {o} \cap Elements(subscribedOracles) = {o}
    BY <1>4
  <2>3. /\ missed' \in [Owners -> Nat] /\ lastSigned' \in [Owners -> Nat]
        /\ Abstract!ResetTracking({o})
    BY <2>1, ResetIsTyped
  <2> QED
    BY <1>3, <2>2, <2>3 DEF Abstract!RemoveSubscribed, Elements
<1>5. CASE o \notin Elements(subscribedOracles)
  <2>1. missed' = missed /\ lastSigned' = lastSigned
    BY <1>1, <1>5 DEF RemoveSubscribed, tracking
  <2>2. {o} \cap Elements(subscribedOracles) = {}
    BY <1>5
  <2>3. Abstract!ResetTracking({})
    BY <2>1 DEF ArraysTyped, Abstract!ResetTracking
  <2> QED
    BY <1>3, <2>1, <2>2, <2>3 DEF Abstract!RemoveSubscribed, ArraysTyped, Elements
<1> QED
  BY <1>4, <1>5

LEMMA UnsubscribeRefines ==
    ASSUME ArraysTyped, NEW o \in Owners, Unsubscribe(o)
    PROVE  Abstract!Unsubscribe(o) /\ ArraysTyped'
<1>1. o \in Elements(subscribedOracles)
  BY HasIsMember DEF ArraysTyped, Unsubscribe
<1>2. /\ Abstract!RemoveSubscribed({o}) /\ subscribedOracles' \in Proper
      /\ missed' \in [Owners -> Nat] /\ lastSigned' \in [Owners -> Nat]
  BY RemoveSubscribedRefines DEF Unsubscribe
<1>3. Abstract!Unsubscribe(o)
  BY <1>1, <1>2 DEF Unsubscribe, Abstract!Unsubscribe, round, Abstract!round
<1>4. ArraysTyped'
  BY <1>2 DEF ArraysTyped, Unsubscribe, round
<1> QED
  BY <1>3, <1>4

LEMMA DepositRefines ==
    ASSUME ArraysTyped, NEW o \in Owners, Deposit(o)
    PROVE  Abstract!Deposit(o) /\ ArraysTyped'
<1>1. Abstract!Deposit(o)
  BY DEF Deposit, Abstract!Deposit, sets, round, tracking, Abstract!membership, Abstract!round,
         Abstract!tracking
<1>2. stake' \in [Owners -> Nat]
  <2>1. PICK s \in (stake[o] + 1)..MaxStake : stake' = [stake EXCEPT ![o] = s]
    BY DEF Deposit
  <2>2. stake[o] \in Nat /\ s \in Nat
    BY BoundsAssumption DEF ArraysTyped
  <2> QED
    BY <2>1, <2>2 DEF ArraysTyped
<1>3. ArraysTyped'
  BY <1>2 DEF ArraysTyped, Deposit, sets, round, tracking
<1> QED
  BY <1>1, <1>3

LEMMA SetMaxMissedRefines ==
    ASSUME ArraysTyped, NEW m \in 0..MaxMissed, SetMaxMissedSigRounds(m)
    PROVE  Abstract!SetMaxMissedSigRounds(m) /\ ArraysTyped'
<1>1. Abstract!SetMaxMissedSigRounds(m)
  BY DEF SetMaxMissedSigRounds, Abstract!SetMaxMissedSigRounds, sets, round, tracking,
         Abstract!membership, Abstract!round, Abstract!tracking
<1>2. m \in Nat
  BY BoundsAssumption
<1>3. ArraysTyped'
  BY <1>2 DEF ArraysTyped, SetMaxMissedSigRounds, sets, round, tracking
<1> QED
  BY <1>1, <1>3

LEMMA TickRefines ==
    ASSUME ArraysTyped, Tick
    PROVE  Abstract!Tick /\ ArraysTyped'
<1>1. Abstract!Tick
  BY DEF ArraysTyped, Tick, Abstract!Tick, Abstract!IsReadyToSwitch, sets, round, tracking,
         Abstract!membership, Abstract!round, Abstract!tracking
<1>2. ArraysTyped'
  BY DEF ArraysTyped, Tick, sets, round, tracking
<1> QED
  BY <1>1, <1>2

LEMMA SizeOfSets ==
    ASSUME ArraysTyped
    PROVE  /\ Abstract!Cardinality(Elements(subscribedOracles)) = Len(subscribedOracles.values)
           /\ Abstract!Cardinality(Elements(selectedOracles)) = Len(selectedOracles.values)
           /\ Len(subscribedOracles.values) \in Nat /\ Len(selectedOracles.values) \in Nat
BY SameSize, ProperSize, ProperFacts DEF ArraysTyped

LEMMA SubscribeRefines ==
    ASSUME ArraysTyped, NEW o \in Owners, Subscribe(o)
    PROVE  Abstract!Subscribe(o) /\ ArraysTyped'
<1>1. o \notin Elements(subscribedOracles) /\ stake[o] >= minCPSubscriptionStake
  BY HasIsMember DEF ArraysTyped, Subscribe
<1>2. PICK evicted \in Abstract!Evictions(o) :
          /\ Elements(subscribedOracles') = (Elements(subscribedOracles) \ evicted) \cup {o}
          /\ subscribedOracles' \in Proper
          /\ ResetTracking(evicted \cup {o})
  <2>1. CASE Len(subscribedOracles.values) < maxSubscribedOraclesPerRound
    <3>1. {} \in Abstract!Evictions(o)
      BY <2>1, SizeOfSets DEF Abstract!Evictions
    <3>2. subscribedOracles' = Added(subscribedOracles, o) /\ ResetTracking({o})
      BY <2>1 DEF Subscribe, AddOrReplace
    <3>3. /\ Elements(subscribedOracles') = Elements(subscribedOracles) \cup {o}
          /\ subscribedOracles' \in Proper
      BY <3>2, AddedFacts DEF ArraysTyped
    <3>4. {} \cup {o} = {o} /\ Elements(subscribedOracles) \ {} = Elements(subscribedOracles)
      OBVIOUS
    <3> QED
      BY <3>1, <3>2, <3>3, <3>4
  <2>2. CASE ~(Len(subscribedOracles.values) < maxSubscribedOraclesPerRound)
    <3> DEFINE min == GetMin(subscribedOracles.values, stake)
               p == min.addr
    <3>1. /\ stake[o] > min.stake /\ min.addr # 0
          /\ subscribedOracles' = Added(Removed(subscribedOracles, p), o)
          /\ ResetTracking({p, o})
      BY <2>2 DEF Subscribe, AddOrReplace
    <3>2. subscribedOracles.values \in Seq(Owners) /\ stake \in [Owners -> Nat]
      BY ProperFacts DEF ArraysTyped
    <3>3. subscribedOracles.values # <<>>
      BY <3>1 DEF GetMin, NoOracle
    <3> HIDE DEF min
    <3>4. /\ min.addr \in Elements(subscribedOracles) /\ min.addr \in Owners
          /\ min.stake = stake[min.addr]
          /\ \A v \in Elements(subscribedOracles) : min.stake <= stake[v]
      <4>1. LeastFound(min, Owners, subscribedOracles.values, stake)
        BY <3>2, <3>3, PoorestFound DEF min
      <4> QED
        BY <4>1 DEF LeastFound, Elements
    <3> HIDE DEF p
    <3>5. p \in Abstract!Lowest(Elements(subscribedOracles), stake) /\ stake[o] > stake[p]
          /\ p \in Owners
      BY <3>1, <3>4 DEF p, Abstract!Lowest
    <3>6. {p} \in Abstract!Evictions(o)
      BY <2>2, <3>5, SizeOfSets DEF Abstract!Evictions
    <3>7. /\ Removed(subscribedOracles, p) \in Proper
          /\ Elements(Removed(subscribedOracles, p)) = Elements(subscribedOracles) \ {p}
      BY <3>5, RemovedFacts DEF ArraysTyped
    <3>8. /\ subscribedOracles' \in Proper
          /\ Elements(subscribedOracles') = (Elements(subscribedOracles) \ {p}) \cup {o}
      BY <3>1, <3>7, AddedFacts
    <3>9. {p} \cup {o} = {p, o}
      OBVIOUS
    <3> QED
      BY <3>1, <3>6, <3>8, <3>9
  <2> QED
    BY <2>1, <2>2
<1>3. /\ missed' \in [Owners -> Nat] /\ lastSigned' \in [Owners -> Nat]
      /\ Abstract!ResetTracking(evicted \cup {o})
  BY <1>2, ResetIsTyped
<1>4. /\ selectedOracles' \in Proper
      /\ Elements(selectedOracles') = IF Abstract!IsFull THEN Elements(selectedOracles)
                                      ELSE Elements(selectedOracles) \cup {o}
  <2>1. IsFull <=> Abstract!IsFull
    BY SizeOfSets DEF IsFull, Abstract!IsFull
  <2>2. Has(selectedOracles, o) <=> o \in Elements(selectedOracles)
    BY HasIsMember DEF ArraysTyped
  <2>3. selectedOracles' = IF ~IsFull /\ ~Has(selectedOracles, o)
                           THEN Added(selectedOracles, o) ELSE selectedOracles
    BY DEF Subscribe
  <2>4. /\ Added(selectedOracles, o) \in Proper /\ selectedOracles \in Proper
        /\ Elements(Added(selectedOracles, o)) = Elements(selectedOracles) \cup {o}
    BY AddedFacts DEF ArraysTyped
  <2> QED
    BY <2>1, <2>2, <2>3, <2>4
<1>5. autoUnsubscribed' = {} /\ UNCHANGED <<stake, round, maxMissedSigRounds, timestamp>>
  BY DEF Subscribe
<1>6. Abstract!Subscribe(o)
  BY <1>1, <1>2, <1>3, <1>4, <1>5 DEF Abstract!Subscribe, round, Abstract!round
<1>7. ArraysTyped'
  BY <1>2, <1>3, <1>4, <1>5 DEF ArraysTyped, round
<1> QED
  BY <1>6, <1>7

LEMMA WithdrawRefines ==
    ASSUME ArraysTyped, NEW o \in Owners, Withdraw(o)
    PROVE  Abstract!Withdraw(o) /\ ArraysTyped'
<1> DEFINE st == stake'
           In == Elements(selectedOracles)
           waiting == Elements(subscribedOracles) \ In
           other == GetMaxUnselectedStake(subscribedOracles.values, st, In)
           below == st[o] < minCPSubscriptionStake
<1>1. PICK s \in 0..stake[o] : st = [stake EXCEPT ![o] = s]
  BY DEF Withdraw
<1>2. st \in [Owners -> Nat]
  BY <1>1 DEF ArraysTyped
<1>3. /\ selectedOracles \in Proper /\ subscribedOracles \in Proper
      /\ subscribedOracles.values \in Seq(Owners)
      /\ In \subseteq Owners
      /\ points \in [Owners -> Nat] /\ st[o] \in Nat
  BY <1>2, ProperFacts DEF ArraysTyped
<1>4. {v \in Owners : Has(selectedOracles, v)} = In /\ (Has(selectedOracles, o) <=> o \in In)
  BY <1>3, HasIsMember
<1>5. IF waiting = {}
      THEN other.addr = 0 /\ other.stake = 0
      ELSE /\ other.addr \in waiting /\ other.addr \in Owners
           /\ other.stake = st[other.addr]
           /\ \A v \in waiting : st[v] <= other.stake
  <2>1. MostFound(other, Owners, ToSet(subscribedOracles.values) \ In, st)
    <3> HIDE DEF st, In
    <3> QED
      BY <1>2, <1>3, AddressAssumption, RichestUnselectedFound
  <2>2. waiting = ToSet(subscribedOracles.values) \ In
    BY DEF Elements
  <2> HIDE DEF waiting, other
  <2> QED
    BY <2>1, <2>2 DEF MostFound
<1>6. /\ IF o \in In /\ (below \/ other.stake > st[o])
         THEN Displaced(o, other.addr)
         ELSE UNCHANGED <<selectedOracles, points>>
      /\ IF below THEN RemoveSubscribed(o) ELSE UNCHANGED <<subscribedOracles, tracking>>
  BY <1>4 DEF Withdraw, OnWithdraw
<1> HIDE DEF st, In, waiting, other, below
<1>7. Abstract!Waiting = waiting
  BY DEF Abstract!Waiting, waiting, In
<1>8. other.stake > st[o] <=> \E r \in waiting : st[r] > st[o]
  <2>1. CASE waiting = {}
    BY <1>3, <1>5, <2>1
  <2>2. CASE waiting # {}
    <3>1. waiting \subseteq Owners
      BY <1>3, ProperFacts DEF waiting
    <3>2. \A r \in waiting : st[r] \in Nat /\ st[r] <= other.stake
      BY <1>2, <1>5, <2>2, <3>1
    <3>3. other.stake \in Nat /\ other.addr \in waiting /\ other.stake = st[other.addr]
      BY <1>5, <2>2, <3>2
    <3> QED
      BY <1>3, <3>2, <3>3
  <2> QED
    BY <2>1, <2>2
<1>9. Abstract!LosesSeat(o, st) <=> o \in In /\ (below \/ other.stake > st[o])
  BY <1>7, <1>8 DEF Abstract!LosesSeat, Abstract!BelowMinimum, below, In
<1>10. Abstract!BelowMinimum(o, st) <=> below
  BY DEF Abstract!BelowMinimum, below
<1>11. /\ IF Abstract!LosesSeat(o, st) THEN Abstract!Displaced(o, st)
          ELSE UNCHANGED <<points, Elements(selectedOracles)>>
       /\ selectedOracles' \in Proper /\ points' \in [Owners -> Nat]
  <2>1. CASE ~(o \in In /\ (below \/ other.stake > st[o]))
    BY <1>3, <1>6, <1>9, <2>1 DEF Elements
  <2>2. CASE o \in In /\ (below \/ other.stake > st[o])
    <3> DEFINE left == Removed(selectedOracles, o)
    <3>1. /\ selectedOracles' = IF other.addr # 0 THEN Added(left, other.addr) ELSE left
          /\ points' = [points EXCEPT ![o] = 0]
      BY <1>6, <2>2 DEF Displaced
    <3>2. left \in Proper /\ Elements(left) = In \ {o}
      BY <1>3, RemovedFacts DEF In
    <3>3. points' \in [Owners -> Nat]
      BY <1>3, <3>1
    <3> HIDE DEF left
    <3>4. CASE waiting = {}
      <4>1. selectedOracles' = left
        BY <1>5, <3>1, <3>4
      <4>2. Elements(selectedOracles') = In \ {o}
        BY <3>2, <4>1
      <4>3. Abstract!Displaced(o, st)
        BY <1>7, <3>1, <3>4, <4>2 DEF Abstract!Displaced, In
      <4> QED
        BY <1>9, <2>2, <3>2, <3>3, <4>1, <4>3
    <3>5. CASE waiting # {}
      <4>1. other.addr \in Owners /\ other.addr # 0 /\ other.addr \in waiting
        BY <1>5, <3>5, AddressAssumption
      <4>2. selectedOracles' = Added(left, other.addr)
        BY <3>1, <4>1
      <4>3. selectedOracles' \in Proper /\ Elements(selectedOracles') = (In \ {o}) \cup {other.addr}
        BY <3>2, <4>1, <4>2, AddedFacts
      <4>4. other.addr \in Abstract!Highest(Abstract!Waiting, st)
        <5>1. waiting \subseteq Owners
          BY <1>3, ProperFacts DEF waiting
        <5>2. \A v \in waiting : st[other.addr] >= st[v]
          BY <1>2, <1>5, <3>5, <5>1
        <5> QED
          BY <1>7, <4>1, <5>2 DEF Abstract!Highest
      <4>5. Abstract!Displaced(o, st)
        BY <1>7, <3>1, <3>5, <4>3, <4>4 DEF Abstract!Displaced, In
      <4> QED
        BY <1>9, <2>2, <3>3, <4>3, <4>5
    <3> QED
      BY <3>4, <3>5
  <2> QED
    BY <2>1, <2>2
<1>12. /\ IF Abstract!BelowMinimum(o, st)
          THEN Abstract!RemoveSubscribed({o})
          ELSE UNCHANGED <<Elements(subscribedOracles), Abstract!tracking>>
       /\ subscribedOracles' \in Proper
       /\ missed' \in [Owners -> Nat] /\ lastSigned' \in [Owners -> Nat]
  <2>1. CASE below
    BY <1>6, <1>10, <2>1, RemoveSubscribedRefines
  <2>2. CASE ~below
    BY <1>6, <1>10, <2>2 DEF ArraysTyped, tracking, Abstract!tracking, Elements
  <2> QED
    BY <2>1, <2>2
<1>13. Abstract!OnWithdraw(o, st)
  BY <1>11, <1>12 DEF Abstract!OnWithdraw
<1>14. Abstract!Withdraw(o)
  BY <1>1, <1>13 DEF Abstract!Withdraw, Withdraw, st
<1>15. ArraysTyped'
  BY <1>2, <1>11, <1>12 DEF ArraysTyped, Withdraw, st
<1> QED
  BY <1>14, <1>15

LEMMA BoundedSeqIsSeq ==
    ASSUME NEW s \in BoundedSeq(Owners, MaxSignatures)
    PROVE  s \in Seq(Owners)
<1>1. PICK m \in 0..MaxSignatures : s \in [1..m -> Owners]
  BY DEF BoundedSeq, SeqOf
<1>2. m \in Nat
  BY BoundsAssumption
<1> QED
  BY <1>1, <1>2

LEMMA ExecutionRefines ==
    ASSUME ArraysTyped, NEW o \in Owners, NEW signatures \in BoundedSeq(Owners, MaxSignatures),
           NEW award \in Awards, Execution(o, signatures, award)
    PROVE  /\ \E signers \in SUBSET Elements(selectedOracles) : Abstract!Execution(o, signers, award)
           /\ ArraysTyped'
<1> DEFINE signers == ToSet(signatures) \cap Elements(selectedOracles)
           counted == CountSignatures(signatures)
<1>1. signatures \in Seq(Owners) /\ award \in Nat
  BY BoundedSeqIsSeq, ConfigAssumption
<1>2. Elements(selectedOracles) \subseteq Owners
  BY ProperFacts DEF ArraysTyped
<1>3. /\ counted.valid = Cardinality(signers)
      /\ counted.missed = [p \in Owners |-> IF p \in signers THEN 0 ELSE missed[p]]
      /\ counted.lastSigned = [p \in Owners |-> IF p \in signers THEN number ELSE lastSigned[p]]
  BY <1>1, SignaturesCounted DEF ArraysTyped, Execution
<1>4. {p \in ToSet(signatures) : Has(selectedOracles, p)} = signers
  <2>1. ToSet(signatures) \subseteq Owners
    BY <1>1 DEF ToSet
  <2>2. \A p \in Owners : Has(selectedOracles, p) <=> p \in Elements(selectedOracles)
    BY HasIsMember DEF ArraysTyped
  <2> QED
    BY <2>1, <2>2
<1>5. /\ number > 0
      /\ o \in Elements(selectedOracles)
      /\ Len(selectedOracles.values) >= minOraclesPerRound
      /\ counted.valid > Len(selectedOracles.values) \div 2
      /\ totalPoints + award <= MaxTotalPoints
      /\ missed' = counted.missed
      /\ lastSigned' = counted.lastSigned
      /\ points' = [points EXCEPT ![o] = @ + award]
      /\ totalPoints' = totalPoints + award
      /\ autoUnsubscribed' = {}
      /\ UNCHANGED <<sets, stake, number, lockPeriodTimestamp, maxMissedSigRounds, timestamp>>
  BY <1>4, HasIsMember DEF Execution, ArraysTyped
<1> HIDE DEF signers, counted
<1>6. signers \subseteq Elements(selectedOracles)
  BY DEF signers
<1>7. Abstract!RecordSignatures(signers)
  BY <1>3, <1>5 DEF Abstract!RecordSignatures
<1>8. Abstract!ValidSignatures(signers)
  BY <1>3, <1>5, <1>6, SizeOfSets, SameSize DEF Abstract!ValidSignatures
<1>9. Abstract!ValidateExecution(o, signers)
  BY <1>5, <1>7, <1>8, SizeOfSets DEF Abstract!ValidateExecution
<1>10. Abstract!Execution(o, signers, award)
  BY <1>5, <1>9 DEF Abstract!Execution, Abstract!membership, sets, Elements
<1>11. ArraysTyped'
  <2>1. missed' \in [Owners -> Nat] /\ lastSigned' \in [Owners -> Nat]
    BY <1>3, <1>5 DEF ArraysTyped
  <2>2. points' \in [Owners -> Nat] /\ totalPoints' \in Nat
    BY <1>1, <1>5 DEF ArraysTyped
  <2> QED
    BY <1>2, <1>5, <1>6, <2>1, <2>2 DEF ArraysTyped, sets
<1> QED
  BY <1>6, <1>10, <1>11

\* What the removal loop leaves is one of the outcomes of RoundManager.
LEMMA RemovalsRefine ==
    ASSUME ArraysTyped
    PROVE  LET after == AfterRemovals
               all   == Elements(subscribedOracles)
           IN  /\ after \in Removal
               /\ after.events \in Abstract!Removals
               /\ Elements(after.subscribed) = all \ after.events
               /\ after.missed = [o \in Owners |-> IF o \in after.events \cap all THEN 0
                                                   ELSE Abstract!CountMiss(o)]
               /\ after.lastSigned = [o \in Owners |-> IF o \in after.events \cap all THEN 0
                                                       ELSE lastSigned[o]]
<1> DEFINE after == AfterRemovals
           all == Elements(subscribedOracles)
           n0 == Len(subscribedOracles.values)
<1>1. /\ n0 \in Nat /\ Floor \in Nat /\ maxMissedSigRounds \in Nat
      /\ Abstract!Cardinality(all) = n0
  BY SizeOfSets, ConfigAssumption DEF ArraysTyped, Floor
<1>2. Abstract!AccountsMisses <=> maxMissedSigRounds > 0 /\ n0 > Floor
  BY <1>1 DEF Abstract!AccountsMisses, Abstract!SubscribedFloor, Floor
<1>3. Abstract!DueForRemoval = Due /\ \A o \in Owners : o \in Abstract!Silent <=>
         o \in Elements(selectedOracles) /\ MissedThis(o)
  BY DEF Abstract!DueForRemoval, Abstract!Silent, Due, MissedThis
<1>4. CASE maxMissedSigRounds = 0 \/ n0 <= Floor
  <2>1. after = BeforeRemovals /\ ~Abstract!AccountsMisses
    BY <1>1, <1>2, <1>4 DEF AfterRemovals, Floor
  <2>2. /\ after.subscribed = subscribedOracles /\ after.count = n0 /\ after.missed = missed
        /\ after.lastSigned = lastSigned /\ after.events = {}
    BY <2>1 DEF BeforeRemovals
  <2>3. after \in Removal
    BY <1>1, <2>1 DEF BeforeRemovals, Removal, ArraysTyped
  <2>4. {} \in Abstract!Removals
    BY <2>1 DEF Abstract!Removals
  <2>5. \A o \in Owners : Abstract!CountMiss(o) = missed[o]
    BY <2>1 DEF Abstract!CountMiss
  <2>6. missed = [o \in Owners |-> IF o \in {} \cap all THEN 0 ELSE Abstract!CountMiss(o)]
    BY <2>5 DEF ArraysTyped
  <2>7. lastSigned = [o \in Owners |-> IF o \in {} \cap all THEN 0 ELSE lastSigned[o]]
    BY DEF ArraysTyped
  <2> HIDE DEF after
  <2> QED
    BY <2>2, <2>3, <2>4, <2>6, <2>7 DEF after
<1>5. CASE ~(maxMissedSigRounds = 0 \/ n0 <= Floor)
  <2>1. n0 > Floor /\ Abstract!AccountsMisses
    BY <1>1, <1>2, <1>5
  <2>2. after = FoldLeft(AccountMiss, BeforeRemovals, selectedOracles.values)
    BY <1>1, <1>5 DEF AfterRemovals, Floor
  <2>3. after \in Removal /\ RemovedSoFar(after, Elements(selectedOracles))
    BY <2>1, <2>2, RemovalsFound
  <2> HIDE DEF after, n0
  <2> DEFINE e == after.events
  <2>4. Due \cap Elements(selectedOracles) = Due
    BY DEF Due
  <2>5. /\ Elements(after.subscribed) = all \ e
        /\ e \subseteq Due /\ IsFiniteSet(e)
        /\ after.count = n0 - Cardinality(e)
        /\ after.count >= Floor
        /\ (after.count > Floor => e = Due)
        /\ after.missed = [o \in Owners |-> IF o \in e \cap all THEN 0
                                            ELSE IF o \in Elements(selectedOracles) /\ MissedThis(o)
                                            THEN missed[o] + 1 ELSE missed[o]]
        /\ after.lastSigned = [o \in Owners |-> IF o \in e \cap all THEN 0 ELSE lastSigned[o]]
    BY <2>3, <2>4 DEF RemovedSoFar, SubscribedNow, n0
  <2> HIDE DEF e, all
  <2>6. IsFiniteSet(Due) /\ Cardinality(Due) \in Nat /\ Cardinality(e) \in Nat
        /\ Cardinality(e) <= Cardinality(Due)
    <3>1. IsFiniteSet(Elements(selectedOracles))
      BY ProperSize DEF ArraysTyped
    <3>2. Due \subseteq Elements(selectedOracles)
      BY DEF Due
    <3>3. IsFiniteSet(Due)
      BY <3>1, <3>2, FS_Subset
    <3> QED
      BY <2>5, <3>3, FS_Subset, FS_CardinalityType
  <2>7. Cardinality(e) = IF Cardinality(Due) < n0 - Floor THEN Cardinality(Due) ELSE n0 - Floor
    <3>1. CASE after.count > Floor
      BY <1>1, <2>5, <2>6, <3>1
    <3>2. CASE after.count = Floor
      BY <1>1, <2>5, <2>6, <3>2
    <3>3. after.count \in Nat
      BY <2>3 DEF Removal
    <3> QED
      BY <1>1, <2>5, <3>1, <3>2, <3>3
  <2>8. e \in Abstract!Removals
    <3>1. Abstract!Cardinality(e) = Cardinality(e) /\ Abstract!Cardinality(Due) = Cardinality(Due)
      BY SameSize
    <3>2. Abstract!SubscribedFloor = Floor
      BY DEF Abstract!SubscribedFloor, Floor
    <3>3. Cardinality(e) = Abstract!AtMost(n0 - Floor, Due)
      BY <2>7, <3>1 DEF Abstract!AtMost
    <3> QED
      BY <1>1, <1>3, <2>1, <2>5, <3>1, <3>2, <3>3 DEF Abstract!Removals, all
  <2>9. after.missed = [o \in Owners |-> IF o \in e \cap all THEN 0 ELSE Abstract!CountMiss(o)]
    <3>1. \A o \in Owners : Abstract!CountMiss(o) =
             IF o \in Elements(selectedOracles) /\ MissedThis(o) THEN missed[o] + 1 ELSE missed[o]
      BY <1>3, <2>1 DEF Abstract!CountMiss
    <3> QED
      BY <2>5, <3>1
  <2> QED
    BY <2>3, <2>5, <2>8, <2>9 DEF e, after, all
<1> QED
  BY <1>4, <1>5

LEMMA StartRoundRefines ==
    ASSUME ArraysTyped, StartRound
    PROVE  /\ Abstract!StartRound
           /\ number' \in Nat /\ lockPeriodTimestamp' \in Nat /\ totalPoints' \in Nat
           /\ points' \in [Owners -> Nat]
<1>1. points' = [o \in Owners |-> IF o \in Elements(selectedOracles) THEN 0 ELSE points[o]]
  <2>1. selectedOracles.values \in Seq(Owners) /\ points \in [Owners -> Nat]
    BY ProperFacts DEF ArraysTyped
  <2> QED
    BY <2>1, PointsCleared DEF StartRound, Elements
<1>2. points' \in [Owners -> Nat]
  BY <1>1 DEF ArraysTyped
<1>3. Abstract!StartRound
  BY <1>1 DEF StartRound, Abstract!StartRound
<1>4. roundLockPeriodSecs \in Nat
  BY ConfigAssumption
<1>5. number' \in Nat /\ lockPeriodTimestamp' \in Nat /\ totalPoints' \in Nat
  <2>1. /\ number' = number + 1
        /\ lockPeriodTimestamp' = timestamp + 1 + roundLockPeriodSecs
        /\ totalPoints' = 0
    BY DEF StartRound
  <2>2. number \in Nat /\ timestamp \in Nat
    BY DEF ArraysTyped
  <2> QED
    BY <1>4, <2>1, <2>2
<1> QED
  BY <1>2, <1>3, <1>5

LEMMA SwitchRoundRefines ==
    ASSUME ArraysTyped, SwitchRound
    PROVE  Abstract!SwitchRound /\ ArraysTyped'
<1> DEFINE after == AfterRemovals
           all == Elements(subscribedOracles)
           chosen == Sorted(after.subscribed.values, stake, maxOraclesPerRound)
<1>1. /\ after \in Removal
      /\ after.events \in Abstract!Removals
      /\ Elements(after.subscribed) = all \ after.events
      /\ after.missed = [o \in Owners |-> IF o \in after.events \cap all THEN 0
                                          ELSE Abstract!CountMiss(o)]
      /\ after.lastSigned = [o \in Owners |-> IF o \in after.events \cap all THEN 0
                                              ELSE lastSigned[o]]
  BY RemovalsRefine
<1>2. /\ number < MaxRound
      /\ (number > 0 => timestamp > lockPeriodTimestamp)
      /\ subscribedOracles' = after.subscribed
      /\ missed' = after.missed
      /\ lastSigned' = after.lastSigned
      /\ autoUnsubscribed' = after.events
      /\ selectedOracles' = Seated(chosen)
      /\ StartRound
      /\ UNCHANGED <<stake, maxMissedSigRounds, timestamp>>
  BY DEF SwitchRound
<1> HIDE DEF after
<1>3. /\ after.subscribed \in Proper /\ after.missed \in [Owners -> Nat]
      /\ after.lastSigned \in [Owners -> Nat] /\ after.events \subseteq Owners
  BY <1>1 DEF Removal
<1>4. Abstract!ProcessAutoUnsubscribe(after.events)
  BY <1>1, <1>2 DEF Abstract!ProcessAutoUnsubscribe, all, Elements
<1>5. /\ chosen \in Seq(Owners) /\ Len(chosen) <= maxOraclesPerRound
      /\ ToSet(chosen) \in Abstract!TopStaked(Elements(after.subscribed), stake, maxOraclesPerRound)
  <2>1. maxOraclesPerRound \in Nat /\ stake \in [Owners -> Nat]
    BY ConfigAssumption DEF ArraysTyped
  <2> QED
    BY <1>3, <2>1, SortedIsTop
<1> HIDE DEF chosen
<1>6. selectedOracles' \in Proper /\ Elements(selectedOracles') = ToSet(chosen)
  BY <1>2, <1>5, SeatedFacts DEF ArraysTyped
<1>7. Elements(selectedOracles') \in
         Abstract!TopStaked(Elements(subscribedOracles'), stake, maxOraclesPerRound)
  BY <1>2, <1>5, <1>6
<1>8. /\ Abstract!StartRound
      /\ number' \in Nat /\ lockPeriodTimestamp' \in Nat /\ totalPoints' \in Nat
      /\ points' \in [Owners -> Nat]
  BY <1>2, StartRoundRefines
<1>9. Abstract!SwitchRound
  BY <1>1, <1>2, <1>4, <1>7, <1>8 DEF Abstract!SwitchRound, Abstract!IsReadyToSwitch
<1>10. ArraysTyped'
  BY <1>2, <1>3, <1>6, <1>8 DEF ArraysTyped
<1> QED
  BY <1>9, <1>10

LEMMA UnregisterRefines ==
    ASSUME ArraysTyped, Unregister
    PROVE  Abstract!Unregister /\ ArraysTyped'
<1>1. selectedOracles' \in Proper /\ Elements(selectedOracles') = {}
  BY ClearedFacts DEF ArraysTyped, Unregister
<1>2. subscribedOracles' \in Proper /\ Elements(subscribedOracles') = {}
  BY AllTakenAway DEF ArraysTyped, Unregister
<1>3. /\ missed' \in [Owners -> Nat] /\ lastSigned' \in [Owners -> Nat]
      /\ Abstract!ResetTracking(Elements(subscribedOracles))
  BY ResetIsTyped DEF Unregister
<1>4. Abstract!RemoveSubscribed(Elements(subscribedOracles))
  <2>1. Elements(subscribedOracles) \cap Elements(subscribedOracles) = Elements(subscribedOracles)
    OBVIOUS
  <2> QED
    BY <1>2, <1>3, <2>1 DEF Abstract!RemoveSubscribed
<1>5. /\ Abstract!StartRound
      /\ number' \in Nat /\ lockPeriodTimestamp' \in Nat /\ totalPoints' \in Nat
      /\ points' \in [Owners -> Nat]
  BY StartRoundRefines DEF Unregister
<1>6. Abstract!Unregister
  BY <1>1, <1>4, <1>5 DEF Unregister, Abstract!Unregister
<1>7. ArraysTyped'
  BY <1>1, <1>2, <1>3, <1>5 DEF ArraysTyped, Unregister
<1> QED
  BY <1>6, <1>7

-----------------------------------------------------------------------------
(***************************************************************************)
(* The theorems.                                                           *)
(***************************************************************************)
LEMMA InitRefines ==
    ASSUME Init
    PROVE  Abstract!Init /\ ArraysTyped
<1>1. Abstract!Init
  BY DEF Init
<1>2. stake \in [Owners -> Nat]
  BY <1>1, BoundsAssumption DEF Abstract!Init
<1>3. ArraysTyped
  BY <1>1, <1>2, EmptyIsProper, BoundsAssumption DEF ArraysTyped, Init, Abstract!Init
<1> QED
  BY <1>1, <1>3

LEMMA NextRefines ==
    ASSUME ArraysTyped, [Next]_vars
    PROVE  [Abstract!Next]_(Abstract!vars) /\ ArraysTyped'
<1>1. ASSUME NEW o \in Owners, Subscribe(o) PROVE Abstract!Next /\ ArraysTyped'
  BY <1>1, SubscribeRefines DEF Abstract!Next, Abstract!OwnerStep
<1>2. ASSUME NEW o \in Owners, Unsubscribe(o) PROVE Abstract!Next /\ ArraysTyped'
  BY <1>2, UnsubscribeRefines DEF Abstract!Next, Abstract!OwnerStep
<1>3. ASSUME NEW o \in Owners, Deposit(o) PROVE Abstract!Next /\ ArraysTyped'
  BY <1>3, DepositRefines DEF Abstract!Next, Abstract!OwnerStep
<1>4. ASSUME NEW o \in Owners, Withdraw(o) PROVE Abstract!Next /\ ArraysTyped'
  BY <1>4, WithdrawRefines DEF Abstract!Next, Abstract!OwnerStep
<1>5. ASSUME NEW o \in Owners, NEW signatures \in BoundedSeq(Owners, MaxSignatures),
             NEW award \in Awards, Execution(o, signatures, award)
      PROVE  Abstract!Next /\ ArraysTyped'
  BY <1>5, ExecutionRefines DEF Abstract!Next, Abstract!OwnerStep
<1>6. ASSUME SwitchRound PROVE Abstract!Next /\ ArraysTyped'
  BY <1>6, SwitchRoundRefines DEF Abstract!Next
<1>7. ASSUME Unregister PROVE Abstract!Next /\ ArraysTyped'
  BY <1>7, UnregisterRefines DEF Abstract!Next
<1>8. ASSUME NEW m \in 0..MaxMissed, SetMaxMissedSigRounds(m) PROVE Abstract!Next /\ ArraysTyped'
  BY <1>8, SetMaxMissedRefines DEF Abstract!Next
<1>9. ASSUME Tick PROVE Abstract!Next /\ ArraysTyped'
  BY <1>9, TickRefines DEF Abstract!Next
<1>10. ASSUME UNCHANGED vars PROVE UNCHANGED Abstract!vars /\ ArraysTyped'
  BY <1>10 DEF vars, sets, round, tracking, Abstract!vars, ArraysTyped, Elements
<1> QED
  BY <1>1, <1>2, <1>3, <1>4, <1>5, <1>6, <1>7, <1>8, <1>9, <1>10 DEF Next

\* Every value has its type, and the two address sets stand for sets.
THEOREM ArraysTypes == Spec => []ArraysTyped
<1>1. Init => ArraysTyped
  BY InitRefines
<1>2. ArraysTyped /\ [Next]_vars => ArraysTyped'
  BY NextRefines
<1> QED
  BY <1>1, <1>2, PTL DEF Spec

\* Whatever was added, swapped and popped, no array has a value twice and the
\* index of every value leads to it (AddressSetLib.sol).
THEOREM ArraysAlwaysConsistent == Spec => []ArraysConsistent
<1>1. ArraysTyped => ArraysConsistent
  BY DEF ArraysTyped, Proper, ArraysConsistent
<1> QED
  BY <1>1, ArraysTypes, PTL

\* The loops over the arrays (SubscribedOraclesLib.sol, RoundManager.sol,
\* RoundInfoLib.sol) implement the rounds: every behaviour of the arrays is a
\* behaviour of RoundManager for the sets they stand for.
THEOREM ArraysImplementRounds == Spec => ImplementsRounds
<1>1. Init => Abstract!Init
  BY InitRefines
<1>2. ArraysTyped /\ [Next]_vars => [Abstract!Next]_(Abstract!vars)
  BY NextRefines
<1> QED
  BY <1>1, <1>2, ArraysTypes, PTL DEF Spec, ImplementsRounds, Abstract!Spec

-----------------------------------------------------------------------------
(***************************************************************************)
(* What StakeOrder says of an array and a stake.                           *)
(***************************************************************************)
\* The members of S that come out of the sort before v.
Forerunners(v, S, st, pos) == {u \in S : Ahead(u, v, st, pos)}

\* Exactly i - 1 values come before the one that sort leaves at place i.
LEMMA RankIsPlace ==
    ASSUME NEW A, NEW st, NEW pos, NEW S, NEW r, InOrder(r, A, S, st, pos),
           NEW i \in 1..Len(r)
    PROVE  Cardinality(Forerunners(r[i], S, st, pos)) = i - 1
<1> DEFINE n == Len(r)
           before == [k \in 1..(i - 1) |-> r[k]]
<1>0. /\ r \in Seq(A) /\ ToSet(r) \subseteq S /\ Ranked(r, st, pos)
      /\ \A u \in S \ ToSet(r), w \in ToSet(r) : Ahead(w, u, st, pos)
      /\ st \in [A -> Nat] /\ pos \in [A -> Nat] /\ S \subseteq A
  BY DEF InOrder
<1>1. n \in Nat /\ DOMAIN r = 1..n /\ i \in 1..n /\ \A k \in 1..n : r[k] \in A
  BY <1>0
<1>2. /\ \A u \in ToSet(r) : \E k \in 1..n : u = r[k]
      /\ \A k \in 1..n : r[k] \in ToSet(r)
  BY <1>1 DEF ToSet
<1>3. \A k, m \in 1..n : k < m => Ahead(r[k], r[m], st, pos)
  BY <1>0 DEF Ranked
<1>4. \A k, m \in 1..n : r[k] = r[m] => k = m
  <2>1. Distinct(r)
    BY RankedIsDistinct
  <2> QED
    BY <2>1 DEF Distinct
<1>5. \A u, w \in A : Ahead(u, w, st, pos) => ~Ahead(w, u, st, pos)
  <2> SUFFICES ASSUME NEW u \in A, NEW w \in A,
                      Ahead(u, w, st, pos), Ahead(w, u, st, pos)
               PROVE  FALSE
    OBVIOUS
  <2>1. st[u] \in Nat /\ st[w] \in Nat /\ pos[u] \in Nat /\ pos[w] \in Nat
    BY <1>0
  <2> QED
    BY <2>1 DEF Ahead
<1> HIDE DEF n
<1>6. before \in Seq(A) /\ Len(before) = i - 1 /\ DOMAIN before = 1..(i - 1)
      /\ \A k \in 1..(i - 1) : before[k] = r[k] /\ k \in 1..n /\ k < i
  <2>1. i - 1 \in Nat /\ \A k \in 1..(i - 1) : k \in 1..n /\ k < i
    BY <1>1
  <2>2. \A k \in 1..(i - 1) : r[k] \in A
    BY <1>1, <2>1
  <2> QED
    BY <2>1, <2>2
<1> HIDE DEF before
<1>7. ToSet(before) = {r[k] : k \in 1..(i - 1)}
  BY <1>6 DEF ToSet
<1>8. ASSUME NEW u \in S, Ahead(u, r[i], st, pos) PROVE u \in ToSet(before)
  <2>1. ~Ahead(r[i], u, st, pos)
    BY <1>0, <1>1, <1>5, <1>8
  <2>2. u \in ToSet(r)
    BY <1>0, <1>1, <1>2, <2>1
  <2>3. PICK k \in 1..n : u = r[k]
    BY <1>2, <2>2
  <2>4. ~(i < k)
    BY <1>1, <1>3, <2>1, <2>3
  <2>5. k # i
    BY <1>8, <2>1, <2>3
  <2>6. k \in 1..(i - 1)
    BY <1>1, <2>4, <2>5
  <2> QED
    BY <1>7, <2>3, <2>6
<1>9. ASSUME NEW u \in ToSet(before) PROVE u \in S /\ Ahead(u, r[i], st, pos)
  <2>1. PICK k \in 1..(i - 1) : u = r[k]
    BY <1>7
  <2>2. k \in 1..n /\ k < i
    BY <1>6
  <2> QED
    BY <1>0, <1>1, <1>2, <1>3, <2>1, <2>2
<1>10. Forerunners(r[i], S, st, pos) = ToSet(before)
  BY <1>8, <1>9 DEF Forerunners
<1>11. Cardinality(ToSet(before)) = Len(before)
  <2>1. \A k, m \in 1..Len(before) : before[k] = before[m] => k = m
    BY <1>4, <1>6
  <2> QED
    BY <1>6, <2>1, DistinctSize
<1> QED
  BY <1>6, <1>10, <1>11

\* The place of v in an array, and u before v in the order of sort: by stake,
\* then by place.
PlaceIn(values, v) == CHOOSE i \in DOMAIN values : values[i] = v

InFront(u, v, values, st) ==
    \/ st[u] > st[v]
    \/ st[u] = st[v] /\ PlaceIn(values, u) < PlaceIn(values, v)

\* What sort should choose from an array.
RichestFirst(chosen, values, st, count) ==
    /\ Len(chosen) = IF count < Len(values) THEN count ELSE Len(values)
    /\ \A i \in DOMAIN chosen :
          /\ chosen[i] \in ToSet(values)
          /\ Cardinality({u \in ToSet(values) : InFront(u, chosen[i], values, st)}) = i - 1

\* It does, for any array without repetitions and any stakes.
LEMMA SortChooses ==
    ASSUME NEW A, NEW st \in [A -> Nat], NEW values \in Seq(A), NEW count \in Nat,
           \A i, k \in 1..Len(values) : values[i] = values[k] => i = k
    PROVE  RichestFirst(Sorted(values, st, count), values, st, count)
<1> DEFINE n == Len(values)
           S == ToSet(values)
           pos == [a \in A |-> IF a \in S THEN PlaceIn(values, a) ELSE 0]
           r == Sorted(values, st, count)
<1>1. /\ n \in Nat /\ DOMAIN values = 1..n /\ \A i \in 1..n : values[i] \in A
      /\ \A i, k \in 1..n : values[i] = values[k] => i = k
  OBVIOUS
<1>2. /\ S \subseteq A /\ \A i \in 1..n : values[i] \in S
      /\ \A u \in S : \E i \in 1..n : values[i] = u
  BY <1>1 DEF ToSet
<1> HIDE DEF n
<1>3. ASSUME NEW i \in 1..n PROVE PlaceIn(values, values[i]) = i
  <2>1. \A k \in 1..n : values[k] = values[i] => k = i
    BY <1>1
  <2>2. (CHOOSE k \in 1..n : values[k] = values[i]) = i
    BY <2>1
  <2> QED
    BY <1>1, <2>2 DEF PlaceIn
<1> HIDE DEF S
<1>4. \A u \in S : pos[u] = PlaceIn(values, u)
  BY <1>2
<1>5. pos \in [A -> Nat]
  <2>1. ASSUME NEW a \in A PROVE (IF a \in S THEN PlaceIn(values, a) ELSE 0) \in Nat
    <3>1. CASE a \in S
      <4>1. PICK i \in 1..n : values[i] = a
        BY <1>2, <3>1
      <4>2. PlaceIn(values, a) = i /\ i \in Nat
        BY <1>1, <1>3, <4>1
      <4> QED
        BY <3>1, <4>2
    <3>2. CASE a \notin S
      BY <3>2
    <3> QED
      BY <3>1, <3>2
  <2> QED
    BY <2>1
<1> HIDE DEF pos
<1>6. \A i, k \in 1..n : i < k => pos[values[i]] < pos[values[k]]
  BY <1>2, <1>3, <1>4
<1>7. InOrder(r, A, S, st, pos) /\ Len(r) = IF count < n THEN count ELSE n
  <2>1. Placing(pos, values, A, st)
    BY <1>5, <1>6 DEF n, Placing
  <2> HIDE DEF r
  <2>2. /\ InOrder(Sorted(values, st, count), A, ToSet(values), st, pos)
        /\ Len(Sorted(values, st, count)) = Fewer(count, Len(values))
    BY <2>1, SortedFacts
  <2> QED
    BY <2>2 DEF r, n, S, Fewer
<1> HIDE DEF r
<1>8. DOMAIN r = 1..Len(r) /\ ToSet(r) \subseteq S
  BY <1>7 DEF InOrder
<1>9. ASSUME NEW i \in 1..Len(r)
      PROVE  /\ r[i] \in S
             /\ Cardinality({u \in S : InFront(u, r[i], values, st)}) = i - 1
  <2>1. r[i] \in S
    BY <1>8 DEF ToSet
  <2>2. {u \in S : InFront(u, r[i], values, st)} = Forerunners(r[i], S, st, pos)
    BY <1>4, <2>1 DEF InFront, Forerunners, Ahead
  <2>3. Cardinality(Forerunners(r[i], S, st, pos)) = i - 1
    BY <1>7, RankIsPlace
  <2> QED
    BY <2>1, <2>2, <2>3
<1> QED
  BY <1>7, <1>8, <1>9 DEF RichestFirst, r, n, S

\* The owners in an array, each once, and their stakes.
ArrayTyped ==
    /\ array \in Seq(Addresses) /\ balance \in [Addresses -> Nat]
    /\ \A i, k \in 1..Len(array) : array[i] = array[k] => i = k

LEMMA ArrayAlwaysTyped == OrderSpec => []ArrayTyped
<1>1. OrderInit => ArrayTyped
  BY DEF OrderInit, ArrayTyped
<1>2. ArrayTyped /\ [OrderNext]_orderVars => ArrayTyped'
  <2> SUFFICES ASSUME ArrayTyped, [OrderNext]_orderVars PROVE ArrayTyped'
    OBVIOUS
  <2>1. CASE UNCHANGED orderVars
    BY <2>1 DEF orderVars, ArrayTyped
  <2>2. ASSUME NEW o \in Addresses, NEW s \in 0..MaxBalance, Add(o, s) PROVE ArrayTyped'
    <3> DEFINE n == Len(array)
               w == Append(array, o)
    <3>1. /\ array \in Seq(Addresses) /\ n \in Nat /\ DOMAIN array = 1..n
          /\ \A i, k \in 1..n : array[i] = array[k] => i = k
      BY DEF ArrayTyped
    <3>2. balance' \in [Addresses -> Nat]
      BY <2>2, StakeOrderAssumption DEF Add, ArrayTyped
    <3>3. w \in Seq(Addresses) /\ Len(w) = n + 1 /\ w[n + 1] = o
          /\ \A i \in 1..n : w[i] = array[i]
      BY <3>1
    <3>4. \A i \in 1..n : array[i] # o
      BY <2>2, <3>1 DEF Add, ToSet
    <3>5. array' = w
      BY <2>2 DEF Add
    <3> HIDE DEF n, w
    <3>6. \A i \in 1..(n + 1) : i \in 1..n \/ i = n + 1
      BY <3>1
    <3>7. \A i, k \in 1..(n + 1) : w[i] = w[k] => i = k
      BY <3>1, <3>3, <3>4, <3>6
    <3> QED
      BY <3>2, <3>3, <3>5, <3>7 DEF ArrayTyped
  <2> QED
    BY <2>1, <2>2 DEF OrderNext
<1> QED
  BY <1>1, <1>2, PTL DEF OrderSpec

\* sort leaves any array of owners in the order of their stakes, ties by their
\* place, and drops the others, for every number asked for
\* (SubscribedOraclesLib.sol sort).
THEOREM SortAlwaysSelectsRichest == OrderSpec => []SortSelectsRichest
<1>1. ASSUME ArrayTyped PROVE SortSelectsRichest
  <2> SUFFICES ASSUME NEW count \in 0..(Cardinality(Addresses) + 1)
               PROVE  RichestFirst(Sorted(array, balance, count), array, balance, count)
    BY DEF SortSelectsRichest, RichestFirst, InFront, PlaceIn, Precedes, Position
  <2>1. count \in Nat
    BY StakeOrderAssumption, FS_CardinalityType
  <2> QED
    BY <1>1, <2>1, SortChooses DEF ArrayTyped
<1> QED
  BY <1>1, ArrayAlwaysTyped, PTL

\* The owner that a newcomer replaces has the least stake, and a seat goes to
\* one with the most among those that wait, to nobody if none waits, in any
\* array of owners (SubscribedOraclesLib.sol getMin and getMaxUnselectedStake).
THEOREM ReplacementsAlwaysExtreme == OrderSpec => []ReplacementsAreExtreme
<1>1. ASSUME ArrayTyped PROVE ReplacementsAreExtreme
  <2>1. array # <<>> => LeastFound(GetMin(array, balance), Addresses, array, balance)
    BY <1>1, PoorestFound DEF ArrayTyped
  <2>2. \A selected \in SUBSET Addresses :
           MostFound(GetMaxUnselectedStake(array, balance, selected), Addresses,
                     ToSet(array) \ selected, balance)
    BY <1>1, StakeOrderAssumption, RichestUnselectedFound DEF ArrayTyped
  <2> QED
    BY <2>1, <2>2 DEF ReplacementsAreExtreme, LeastFound, MostFound
<1> QED
  BY <1>1, ArrayAlwaysTyped, PTL

-----------------------------------------------------------------------------
(***************************************************************************)
(* The same of the subscribed oracles and their stakes, which withdrawals, *)
(* replacements and rounds change.                                         *)
(***************************************************************************)
Order == INSTANCE StakeOrder WITH
    Addresses <- Owners, MaxBalance <- MaxStake,
    array <- subscribedOracles.values, balance <- stake

LEMMA SameSorted ==
    ASSUME NEW values, NEW st, NEW count
    PROVE  Order!Sorted(values, st, count) = Sorted(values, st, count)
BY Zenon DEF Order!Sorted, Sorted, Order!Placed, Placed, Order!FoldLeft, FoldLeft,
             Order!MapThenFoldSet, MapThenFoldSet, Order!Max, Max

LEMMA SameMin ==
    ASSUME NEW values, NEW st
    PROVE  Order!GetMin(values, st) = GetMin(values, st)
BY Zenon DEF Order!GetMin, GetMin, Order!NoOracle, NoOracle, Order!FoldLeft, FoldLeft,
             Order!MapThenFoldSet, MapThenFoldSet, Order!Max, Max

LEMMA SameMaxUnselected ==
    ASSUME NEW values, NEW st, NEW selected
    PROVE  Order!GetMaxUnselectedStake(values, st, selected)
           = GetMaxUnselectedStake(values, st, selected)
BY Zenon DEF Order!GetMaxUnselectedStake, GetMaxUnselectedStake, Order!GetMaxMOCBalance,
             GetMaxMOCBalance, Order!NoOracle, NoOracle, Order!Unselected, Unselected,
             Order!Remaining, Remaining, Order!BalanceAt, BalanceAt,
             Order!FoldLeft, FoldLeft, Order!MapThenFoldSet, MapThenFoldSet, Order!Max, Max

LEMMA SameSets ==
    /\ \A s : Order!ToSet(s) = ToSet(s)
    /\ \A S : Order!Cardinality(S) = Cardinality(S)
BY DEF Order!ToSet, ToSet, Order!Cardinality, Cardinality

\* sort leaves the array of subscribed oracles in the order of their stakes,
\* whatever has moved in it (SubscribedOraclesLib.sol sort).
THEOREM SubscribersSortedRight == Spec => []Order!SortSelectsRichest
<1> DEFINE values == subscribedOracles.values
<1>1. ASSUME ArraysTyped PROVE Order!SortSelectsRichest
  <2>1. /\ stake \in [Owners -> Nat] /\ values \in Seq(Owners)
        /\ \A i, k \in 1..Len(values) : values[i] = values[k] => i = k
    BY <1>1, ProperFacts DEF ArraysTyped
  <2> HIDE DEF values
  <2>2. ASSUME NEW count \in 0..(Cardinality(Owners) + 1)
        PROVE  RichestFirst(Order!Sorted(values, stake, count), values, stake, count)
    <3>1. count \in Nat
      BY AddressAssumption, FS_CardinalityType
    <3> QED
      BY <2>1, <3>1, SortChooses, SameSorted
  <2>3. \A u, v : Order!Precedes(u, v) <=> InFront(u, v, values, stake)
    BY DEF Order!Precedes, Order!Position, InFront, PlaceIn, values
  <2> QED
    BY <2>2, <2>3, SameSets DEF Order!SortSelectsRichest, RichestFirst, values
<1> QED
  BY <1>1, ArraysTypes, PTL

\* A newcomer replaces a subscribed oracle with the least stake, and a seat goes
\* to one with the most among those that wait (SubscribedOraclesLib.sol getMin
\* and getMaxUnselectedStake).
THEOREM SubscribersReplacedRight == Spec => []Order!ReplacementsAreExtreme
<1> DEFINE values == subscribedOracles.values
<1>1. ASSUME ArraysTyped PROVE Order!ReplacementsAreExtreme
  <2>1. stake \in [Owners -> Nat] /\ values \in Seq(Owners)
    BY <1>1, ProperFacts DEF ArraysTyped
  <2> HIDE DEF values
  <2>2. values # <<>> => LeastFound(Order!GetMin(values, stake), Owners, values, stake)
    BY <2>1, PoorestFound, SameMin
  <2>3. \A selected \in SUBSET Owners :
           MostFound(Order!GetMaxUnselectedStake(values, stake, selected),
                     Owners, ToSet(values) \ selected, stake)
    BY <2>1, AddressAssumption, RichestUnselectedFound, SameMaxUnselected
  <2> QED
    BY <2>2, <2>3, SameSets DEF Order!ReplacementsAreExtreme, LeastFound, MostFound, values
<1> QED
  BY <1>1, ArraysTypes, PTL
=============================================================================
