------------------------- MODULE OracleRegistry_proofs -------------------------
(***************************************************************************)
(* The registries keep their arrays, indexes and mappings consistent, and  *)
(* so implement the directory; and nobody is subscribed or seated that is  *)
(* not registered.  For any number of owners, addresses and coin pairs.    *)
(***************************************************************************)
EXTENDS OracleRegistry, SequenceTheorems, TLAPS

\* The list of coin pairs has each pair of the mapping once.
PairsConsistent ==
    /\ \A i, j \in 1..Len(coinPairList) : coinPairList[i] = coinPairList[j] => i = j
    /\ \A i \in 1..Len(coinPairList) : coinPairMap[coinPairList[i]] # Zero
    /\ \A p \in Pairs : coinPairMap[p] # Zero =>
          \E i \in 1..Len(coinPairList) : coinPairList[i] = p

Memberships == [subscribed : SUBSET Owners, seated : SUBSET Owners]
Everybody(m) == m.subscribed \cup m.seated

\* A contract that serves no coin pair has no members.
UnlistedEmpty == \A c \in Contracts \ Listed : Everybody(members[c]) = {}

OracleInv == RegistryTypeOK /\ Consistent
RegistryInv == OracleInv /\ PairsConsistent /\ UnlistedEmpty /\ MembersRegistered

-----------------------------------------------------------------------------
(***************************************************************************)
(* Arrays.                                                                 *)
(***************************************************************************)
\* The last element is at i and the others where they were.
LEMMA SwapAndPopIs ==
  ASSUME NEW S, NEW list \in Seq(S), NEW i \in 1..Len(list)
  PROVE  /\ SwapAndPop(list, i) \in Seq(S)
         /\ Len(SwapAndPop(list, i)) = Len(list) - 1
         /\ \A j \in 1..(Len(list) - 1) :
               SwapAndPop(list, i)[j] = IF j = i THEN list[Len(list)] ELSE list[j]
<1> DEFINE n    == Len(list)
           swap == [list EXCEPT ![i] = list[n]]
<1>1. n \in Nat /\ n \in 1..n /\ DOMAIN list = 1..n
  BY LenProperties
<1>2. list[n] \in S
  BY <1>1, ElementOfSeq
<1>3. /\ swap \in Seq(S)
      /\ Len(swap) = n
      /\ \A j \in 1..n : swap[j] = IF j = i THEN list[n] ELSE list[j]
  BY <1>1, <1>2, ExceptSeq
<1>4. SwapAndPop(list, i) = SubSeq(swap, 1, n - 1)
  BY <1>3 DEF SwapAndPop, Front, Last
<1> HIDE DEF swap
<1>5. \A j \in 1..(n - 1) : swap[j] \in S
  BY <1>1, <1>3, ElementOfSeq
<1>6. n - 1 \in Int /\ 1 \in Int /\ (n - 1) - 1 + 1 = n - 1
  BY <1>1
<1>7. /\ SubSeq(swap, 1, n - 1) \in Seq(S)
      /\ Len(SubSeq(swap, 1, n - 1)) = IF 1 <= n - 1 THEN (n - 1) - 1 + 1 ELSE 0
      /\ \A j \in 1..((n - 1) - 1 + 1) : SubSeq(swap, 1, n - 1)[j] = swap[1 + j - 1]
  BY <1>5, <1>6, SubSeqProperties
<1> QED
  BY <1>1, <1>3, <1>4, <1>6, <1>7

\* Where the element comes from that is at j once i was removed from n.
Origin(j, i, n) == IF j = i THEN n ELSE j

LEMMA OriginIs ==
  ASSUME NEW n \in Nat, NEW k \in 1..n
  PROVE  /\ \A j \in 1..(n - 1) : Origin(j, k, n) \in 1..n /\ Origin(j, k, n) # k
         /\ \A i \in 1..n : i # k => \E j \in 1..(n - 1) : i = Origin(j, k, n)
         /\ \A i, j \in 1..(n - 1) : Origin(i, k, n) = Origin(j, k, n) => i = j
<1>1. ASSUME NEW i \in 1..n, i # k
      PROVE  \E j \in 1..(n - 1) : i = Origin(j, k, n)
  <2>1. CASE i = n
    <3>1. k \in 1..(n - 1) /\ i = Origin(k, k, n)
      BY <1>1, <2>1 DEF Origin
    <3> QED
      BY <3>1
  <2>2. CASE i # n
    <3>1. i \in 1..(n - 1) /\ i = Origin(i, k, n)
      BY <1>1, <2>2 DEF Origin
    <3> QED
      BY <3>1
  <2> QED
    BY <2>1, <2>2
<1> QED
  BY <1>1 DEF Origin

-----------------------------------------------------------------------------
(***************************************************************************)
(* The registry of oracles.                                                *)
(***************************************************************************)
LEMMA RegisterOracleKeeps ==
  ASSUME OracleInv, NEW o \in Owners, NEW a \in Addresses, RegisterOracle(o, a)
  PROVE  OracleInv'
<1> USE DEF OracleInv
<1> DEFINE n == Len(values)
<1>1. n \in Nat
  BY LenProperties DEF RegistryTypeOK
<1>2. /\ values' \in Seq(Addresses)
      /\ Len(values') = n + 1
      /\ values'[n + 1] = a
      /\ \A i \in 1..n : values'[i] = values[i]
  BY AppendProperties DEF RegisterOracle, RegistryTypeOK
<1>3. RegistryTypeOK'
  <2>1. indexes' \in [Owners -> Nat]
    BY <1>1 DEF RegisterOracle, RegistryTypeOK
  <2> QED
    BY <1>2, <2>1 DEF RegisterOracle, RegistryTypeOK, pairVars
<1>4. /\ registeredOwners'[a] = o
      /\ \A b \in Addresses : b # a => registeredOwners'[b] = registeredOwners[b]
      /\ indexes'[o] = n + 1
      /\ \A p \in Owners : p # o => indexes'[p] = indexes[p]
  BY DEF RegisterOracle, RegistryTypeOK
<1>5. ASSUME NEW i \in 1..n
      PROVE  /\ values[i] \in Addresses /\ values[i] # a
             /\ registeredOwners[values[i]] \in Owners \ {o}
             /\ indexes[registeredOwners[values[i]]] = i
  <2>1. values[i] \in Addresses
    BY ElementOfSeq DEF RegistryTypeOK
  <2>2. registeredOwners[values[i]] \in Owners /\ indexes[registeredOwners[values[i]]] = i
    BY DEF Consistent
  <2> QED
    BY <1>1, <2>1, <2>2, RegistryAssumption DEF RegisterOracle, IsRegistered
<1>6. ASSUME NEW i \in 1..(n + 1)
      PROVE  /\ registeredOwners'[values'[i]] \in Owners
             /\ indexes'[registeredOwners'[values'[i]]] = i
  <2>1. CASE i = n + 1
    BY <1>2, <1>4, <2>1
  <2>2. CASE i # n + 1
    <3>1. i \in 1..n
      BY <1>1, <2>2
    <3> QED
      BY <1>2, <1>4, <1>5, <3>1
  <2> QED
    BY <2>1, <2>2
<1>7. ASSUME NEW p \in Owners, indexes'[p] # 0
      PROVE  indexes'[p] \in 1..(n + 1) /\ registeredOwners'[values'[indexes'[p]]] = p
  <2>1. CASE p = o
    BY <1>1, <1>2, <1>4, <2>1
  <2>2. CASE p # o
    <3>1. indexes'[p] = indexes[p]
      BY <1>4, <2>2
    <3>2. indexes[p] \in 1..n /\ registeredOwners[values[indexes[p]]] = p
      BY <1>7, <3>1 DEF Consistent, IsRegistered, Current
    <3> QED
      BY <1>1, <1>2, <1>4, <1>5, <3>1, <3>2
  <2> QED
    BY <2>1, <2>2
<1>8. Consistent'
  BY <1>2, <1>6, <1>7 DEF Consistent, IsRegistered, Current
<1> QED
  BY <1>3, <1>8

LEMMA SetOracleAddressKeeps ==
  ASSUME OracleInv, NEW o \in Owners, NEW a \in Addresses, SetOracleAddress(o, a)
  PROVE  OracleInv'
<1> USE DEF OracleInv
<1>1. indexes[o] \in 1..Len(values)
  BY DEF SetOracleAddress, Consistent
<1>2. /\ values' \in Seq(Addresses)
      /\ Len(values') = Len(values)
      /\ \A i \in 1..Len(values) : values'[i] = IF i = indexes[o] THEN a ELSE values[i]
  BY <1>1, ExceptSeq DEF SetOracleAddress, RegistryTypeOK
<1>3. RegistryTypeOK'
  BY <1>2 DEF SetOracleAddress, RegistryTypeOK, pairVars
<1>4. Current(o) \in Addresses /\ registeredOwners[Current(o)] = o
  BY <1>1, ElementOfSeq DEF SetOracleAddress, Consistent, Current, RegistryTypeOK
<1>5. /\ registeredOwners'[a] = o
      /\ \A b \in Addresses : b # a /\ b # Current(o) =>
            registeredOwners'[b] = registeredOwners[b]
  BY <1>4 DEF SetOracleAddress, RegistryTypeOK
<1>6. ASSUME NEW i \in 1..Len(values)
      PROVE  registeredOwners'[values'[i]] = registeredOwners[values[i]]
  <2>1. values[i] \in Addresses
    BY ElementOfSeq DEF RegistryTypeOK
  <2>2. CASE i = indexes[o]
    BY <1>2, <1>4, <1>5, <2>2 DEF Current
  <2>3. CASE i # indexes[o]
    <3>1. values'[i] = values[i]
      BY <1>2, <2>3
    <3>2. registeredOwners[values[i]] \in Owners /\ indexes[registeredOwners[values[i]]] = i
      BY DEF Consistent
    <3>3. values[i] # a
      BY <3>2, RegistryAssumption DEF SetOracleAddress
    <3>4. values[i] # Current(o)
      BY <1>4, <2>3, <3>2
    <3> QED
      BY <1>5, <2>1, <3>1, <3>3, <3>4
  <2> QED
    BY <2>2, <2>3
<1>7. indexes' = indexes
  BY DEF SetOracleAddress
<1>8. \A i \in 1..Len(values') : /\ registeredOwners'[values'[i]] \in Owners
                                /\ indexes'[registeredOwners'[values'[i]]] = i
  BY <1>2, <1>6, <1>7 DEF Consistent
<1>9. ASSUME NEW p \in Owners, indexes'[p] # 0
      PROVE  indexes'[p] \in 1..Len(values') /\ registeredOwners'[values'[indexes'[p]]] = p
  BY <1>2, <1>6, <1>7, <1>9 DEF Consistent, IsRegistered, Current
<1>10. Consistent'
  BY <1>8, <1>9 DEF Consistent, IsRegistered, Current
<1> QED
  BY <1>3, <1>10

LEMMA RemoveEntryKeeps ==
  ASSUME OracleInv, NEW o \in Owners, IsRegistered(o), RemoveEntry(o),
         UNCHANGED pairVars,
         members' \in [Contracts -> Memberships]
  PROVE  OracleInv'
<1> USE DEF OracleInv
<1> DEFINE n         == Len(values)
           k         == indexes[o]
           lastOwner == registeredOwners[values[n]]
<1>1. n \in Nat /\ k \in 1..n /\ n \in 1..n
  BY LenProperties DEF RegistryTypeOK, Consistent
<1>2. /\ values' \in Seq(Addresses)
      /\ Len(values') = n - 1
      /\ \A j \in 1..(n - 1) : values'[j] = IF j = k THEN values[n] ELSE values[j]
  BY <1>1, SwapAndPopIs DEF RemoveEntry, RegistryTypeOK
<1>3. /\ lastOwner \in Owners
      /\ indexes[lastOwner] = n
      /\ indexes' = [indexes EXCEPT ![lastOwner] = k, ![o] = 0]
      /\ registeredOwners' = [registeredOwners EXCEPT ![values[k]] = Zero]
  BY <1>1 DEF RemoveEntry, Consistent, Current, Last
<1>4. RegistryTypeOK'
  BY <1>1, <1>2, <1>3, RegistryAssumption DEF RegistryTypeOK, Memberships, pairVars
<1>5. registeredOwners[values[k]] = o
  BY DEF Consistent, Current
<1>6. ASSUME NEW j \in 1..(n - 1)
      PROVE  /\ registeredOwners'[values'[j]] \in Owners
             /\ indexes'[registeredOwners'[values'[j]]] = j
  <2> DEFINE i == IF j = k THEN n ELSE j
  <2>1. i \in 1..n /\ i # k /\ values'[j] = values[i]
    BY <1>1, <1>2
  <2>2. values[i] \in Addresses /\ registeredOwners[values[i]] \in Owners
        /\ indexes[registeredOwners[values[i]]] = i
    BY <2>1, ElementOfSeq DEF Consistent, RegistryTypeOK
  <2>3. values[i] # values[k]
    BY <1>5, <2>1, <2>2
  <2>4. registeredOwners'[values'[j]] = registeredOwners[values[i]]
    BY <1>3, <2>1, <2>2, <2>3 DEF RegistryTypeOK
  <2>5. registeredOwners[values[i]] # o
    BY <2>1, <2>2
  <2> QED
    BY <1>1, <1>3, <2>1, <2>2, <2>4, <2>5 DEF RegistryTypeOK
<1>7. ASSUME NEW p \in Owners, indexes'[p] # 0
      PROVE  indexes'[p] \in 1..(n - 1) /\ registeredOwners'[values'[indexes'[p]]] = p
  <2>1. p # o
    BY <1>3, <1>7 DEF RegistryTypeOK
  <2>2. CASE p = lastOwner
    <3>1. indexes'[p] = k
      BY <1>3, <2>1, <2>2 DEF RegistryTypeOK
    <3>2. k # n
      BY <1>5, <2>1, <2>2
    <3>3. values'[k] = values[n]
      BY <1>1, <1>2, <3>2
    <3>4. values[n] # values[k] /\ values[n] \in Addresses
      BY <1>1, <1>5, <2>1, <2>2, ElementOfSeq DEF RegistryTypeOK
    <3>5. registeredOwners'[values[n]] = registeredOwners[values[n]]
      BY <1>3, <3>4 DEF RegistryTypeOK
    <3>6. k \in 1..(n - 1)
      BY <1>1, <3>2
    <3> QED
      BY <2>2, <3>1, <3>3, <3>5, <3>6
  <2>3. CASE p # lastOwner
    <3>1. indexes'[p] = indexes[p]
      BY <1>3, <2>1, <2>3 DEF RegistryTypeOK
    <3>2. indexes[p] \in 1..n /\ registeredOwners[values[indexes[p]]] = p
      BY <1>7, <3>1 DEF Consistent, IsRegistered, Current
    <3>3. indexes[p] # n /\ indexes[p] # k
      BY <1>5, <2>1, <2>3, <3>2
    <3>4. indexes[p] \in 1..(n - 1) /\ values'[indexes[p]] = values[indexes[p]]
      BY <1>1, <1>2, <3>2, <3>3
    <3>5. values[indexes[p]] # values[k] /\ values[indexes[p]] \in Addresses
      BY <1>5, <2>1, <3>2, ElementOfSeq DEF RegistryTypeOK
    <3> QED
      BY <1>3, <3>1, <3>2, <3>4, <3>5 DEF RegistryTypeOK
  <2> QED
    BY <2>2, <2>3
<1>8. Consistent'
  BY <1>2, <1>6, <1>7 DEF Consistent, IsRegistered, Current
<1> QED
  BY <1>4, <1>8

LEMMA ClearRegisteredOwnerKeeps ==
  ASSUME OracleInv, NEW a \in Addresses \ ToSet(values), ClearRegisteredOwner(a)
  PROVE  OracleInv'
<1> USE DEF OracleInv
<1>1. RegistryTypeOK'
  BY RegistryAssumption DEF ClearRegisteredOwner, RegistryTypeOK, pairVars
<1>2. Len(values) \in Nat /\ DOMAIN values = 1..Len(values)
  BY LenProperties DEF RegistryTypeOK
<1>3. ASSUME NEW i \in 1..Len(values)
      PROVE  registeredOwners'[values[i]] = registeredOwners[values[i]]
  <2>1. values[i] \in Addresses
    BY ElementOfSeq DEF RegistryTypeOK
  <2>2. values[i] # a
    BY <1>2 DEF ToSet
  <2> QED
    BY <2>1, <2>2 DEF ClearRegisteredOwner, RegistryTypeOK
<1>4. Consistent'
  BY <1>3 DEF ClearRegisteredOwner, Consistent, IsRegistered, Current
<1> QED
  BY <1>1, <1>4

-----------------------------------------------------------------------------
(***************************************************************************)
(* The register of coin pairs.                                             *)
(***************************************************************************)
LEMMA ListIs ==
  ASSUME RegistryTypeOK
  PROVE  /\ Len(coinPairList) \in Nat
         /\ DOMAIN coinPairList = 1..Len(coinPairList)
         /\ \A i \in 1..Len(coinPairList) : coinPairList[i] \in Pairs
BY LenProperties, ElementOfSeq DEF RegistryTypeOK

\* With a hint that is not too late, the position found is that of the pair.
LEMMA FoundAtItsPlace ==
  ASSUME RegistryTypeOK, PairsConsistent, NEW p \in Pairs, NEW hint \in Nat,
         Positions(p, hint) # {}
  PROVE  /\ FirstFrom(p, hint) \in 1..Len(coinPairList)
         /\ coinPairList[FirstFrom(p, hint)] = p
<1>1. PICK i \in Positions(p, hint) : TRUE
  OBVIOUS
<1>2. \A j \in Positions(p, hint) : /\ j \in 1..Len(coinPairList)
                                    /\ coinPairList[j] = p
  BY ListIs DEF Positions
<1>3. \A j \in Positions(p, hint) : j = i
  BY <1>2 DEF PairsConsistent
<1>4. FirstFrom(p, hint) \in Positions(p, hint)
  BY <1>1, <1>2, <1>3 DEF FirstFrom
<1> QED
  BY <1>2, <1>4

LEMMA RegisterCoinPairKeeps ==
  ASSUME RegistryTypeOK, PairsConsistent, NEW p \in Pairs, NEW c \in Contracts,
         RegisterCoinPair(p, c)
  PROVE  /\ RegistryTypeOK' /\ PairsConsistent'
         /\ ToSet(coinPairList') = ToSet(coinPairList) \cup {p}
         /\ p \notin ToSet(coinPairList)
         /\ coinPairMap'[p] = c
         /\ \A q \in Pairs \ {p} : coinPairMap'[q] = coinPairMap[q]
<1> DEFINE n == Len(coinPairList)
<1>1. n \in Nat /\ DOMAIN coinPairList = 1..n /\ \A i \in 1..n : coinPairList[i] \in Pairs
  BY ListIs
<1>2. /\ coinPairList' \in Seq(Pairs)
      /\ Len(coinPairList') = n + 1
      /\ coinPairList'[n + 1] = p
      /\ \A i \in 1..n : coinPairList'[i] = coinPairList[i]
  BY AppendProperties DEF RegisterCoinPair, RegistryTypeOK
<1>3. /\ coinPairMap' \in [Pairs -> Contracts \cup {Zero}]
      /\ coinPairMap'[p] = c
      /\ \A q \in Pairs \ {p} : coinPairMap'[q] = coinPairMap[q]
  BY DEF RegisterCoinPair, RegistryTypeOK
<1>4. RegistryTypeOK'
  BY <1>2, <1>3 DEF RegisterCoinPair, RegistryTypeOK, oracleVars
<1>5. \A i \in 1..n : coinPairList[i] # p
  BY DEF RegisterCoinPair, PairsConsistent
<1>6. DOMAIN coinPairList' = 1..(n + 1)
  BY <1>2, LenProperties
<1>7. ToSet(coinPairList') = ToSet(coinPairList) \cup {p}
  BY <1>1, <1>2, <1>6 DEF ToSet
<1>8. \A i, j \in 1..(n + 1) : coinPairList'[i] = coinPairList'[j] => i = j
  BY <1>1, <1>2, <1>5 DEF PairsConsistent
<1>9. \A i \in 1..(n + 1) : coinPairMap'[coinPairList'[i]] # Zero
  BY <1>1, <1>2, <1>3, <1>5, RegistryAssumption DEF PairsConsistent
<1>10. \A q \in Pairs : coinPairMap'[q] # Zero =>
          \E i \in 1..(n + 1) : coinPairList'[i] = q
  <2> SUFFICES ASSUME NEW q \in Pairs, coinPairMap'[q] # Zero
               PROVE  \E i \in 1..(n + 1) : coinPairList'[i] = q
    OBVIOUS
  <2>1. CASE q = p
    BY <1>1, <1>2, <2>1
  <2>2. CASE q # p
    <3>1. PICK i \in 1..n : coinPairList[i] = q
      BY <1>3, <2>2 DEF PairsConsistent
    <3> QED
      BY <1>1, <1>2, <3>1
  <2> QED
    BY <2>1, <2>2
<1>11. PairsConsistent'
  BY <1>2, <1>8, <1>9, <1>10 DEF PairsConsistent
<1> QED
  BY <1>1, <1>3, <1>4, <1>5, <1>7, <1>11 DEF ToSet

LEMMA UnregisterCoinPairKeeps ==
  ASSUME RegistryTypeOK, PairsConsistent, NEW p \in Pairs, NEW hint \in Nat,
         UnregisterCoinPair(p, hint)
  PROVE  /\ RegistryTypeOK' /\ PairsConsistent'
         /\ p \in ToSet(coinPairList)
         /\ ToSet(coinPairList') = ToSet(coinPairList) \ {p}
         /\ \A q \in Pairs \ {p} : coinPairMap'[q] = coinPairMap[q]
<1> DEFINE n == Len(coinPairList)
           k == FirstFrom(p, hint)
<1>1. n \in Nat /\ DOMAIN coinPairList = 1..n /\ \A i \in 1..n : coinPairList[i] \in Pairs
  BY ListIs
<1>2. k \in 1..n /\ coinPairList[k] = p
  BY FoundAtItsPlace DEF UnregisterCoinPair
<1>3. coinPairList' = SwapAndPop(coinPairList, k)
  BY DEF UnregisterCoinPair
<1> HIDE DEF k
<1>4. /\ coinPairList' \in Seq(Pairs)
      /\ Len(coinPairList') = n - 1
      /\ \A j \in 1..(n - 1) : coinPairList'[j] = IF j = k THEN coinPairList[n] ELSE coinPairList[j]
  BY <1>2, <1>3, SwapAndPopIs DEF RegistryTypeOK
<1>5. /\ coinPairMap' \in [Pairs -> Contracts \cup {Zero}]
      /\ coinPairMap'[p] = Zero
      /\ \A q \in Pairs \ {p} : coinPairMap'[q] = coinPairMap[q]
  BY DEF UnregisterCoinPair, RegistryTypeOK
<1>6. members' \in [Contracts -> Memberships]
  BY DEF UnregisterCoinPair, RegistryTypeOK, Memberships, NoMembers, Membership
<1>7. RegistryTypeOK'
  BY <1>4, <1>5, <1>6 DEF UnregisterCoinPair, RegistryTypeOK, Memberships, oracleVars
<1> DEFINE Place(j) == Origin(j, k, n)
<1>8. \A j \in 1..(n - 1) : /\ Place(j) \in 1..n /\ Place(j) # k
                            /\ coinPairList'[j] = coinPairList[Place(j)]
  BY <1>1, <1>2, <1>4, OriginIs DEF Origin
<1>9. \A i \in 1..n : i # k => \E j \in 1..(n - 1) : i = Place(j)
  BY <1>1, <1>2, OriginIs
<1>10. \A i, j \in 1..(n - 1) : Place(i) = Place(j) => i = j
  BY <1>1, <1>2, OriginIs
<1> HIDE DEF Place
<1>11. \A i \in 1..n : i # k => coinPairList[i] # p
  BY <1>2 DEF PairsConsistent
<1>12. \A i, j \in 1..n : coinPairList[i] = coinPairList[j] => i = j
  BY DEF PairsConsistent
<1>13. \A i, j \in 1..(n - 1) : coinPairList'[i] = coinPairList'[j] => i = j
  <2> SUFFICES ASSUME NEW i \in 1..(n - 1), NEW j \in 1..(n - 1), coinPairList'[i] = coinPairList'[j]
               PROVE  i = j
    OBVIOUS
  <2>1. coinPairList[Place(i)] = coinPairList[Place(j)]
    BY <1>8
  <2>2. Place(i) \in 1..n /\ Place(j) \in 1..n
    BY <1>8
  <2>3. Place(i) = Place(j)
    BY <1>12, <2>1, <2>2
  <2> QED
    BY <1>10, <2>3
<1>14. \A j \in 1..(n - 1) : coinPairMap'[coinPairList'[j]] # Zero
  <2> SUFFICES ASSUME NEW j \in 1..(n - 1) PROVE coinPairMap'[coinPairList'[j]] # Zero
    OBVIOUS
  <2>1. Place(j) \in 1..n /\ Place(j) # k /\ coinPairList'[j] = coinPairList[Place(j)]
    BY <1>8
  <2>2. coinPairList[Place(j)] \in Pairs \ {p} /\ coinPairMap[coinPairList[Place(j)]] # Zero
    BY <1>1, <1>11, <2>1 DEF PairsConsistent
  <2> QED
    BY <1>5, <2>1, <2>2
<1>15. \A q \in Pairs : coinPairMap'[q] # Zero => \E j \in 1..(n - 1) : coinPairList'[j] = q
  <2> SUFFICES ASSUME NEW q \in Pairs, coinPairMap'[q] # Zero
               PROVE  \E j \in 1..(n - 1) : coinPairList'[j] = q
    OBVIOUS
  <2>1. q # p /\ coinPairMap[q] # Zero
    BY <1>5
  <2>2. PICK i \in 1..n : coinPairList[i] = q
    BY <2>1 DEF PairsConsistent
  <2>3. i # k
    BY <1>2, <2>1, <2>2
  <2>4. PICK j \in 1..(n - 1) : i = Place(j)
    BY <1>9, <2>3
  <2> QED
    BY <1>8, <2>2, <2>4
<1>16. PairsConsistent'
  BY <1>4, <1>13, <1>14, <1>15 DEF PairsConsistent
<1>17. DOMAIN coinPairList' = 1..(n - 1)
  BY <1>4, LenProperties
<1>18. ToSet(coinPairList') = ToSet(coinPairList) \ {p}
  <2>1. ASSUME NEW q \in ToSet(coinPairList')
        PROVE  q \in ToSet(coinPairList) \ {p}
    <3>1. PICK j \in 1..(n - 1) : q = coinPairList'[j]
      BY <1>17, <2>1 DEF ToSet
    <3>2. Place(j) \in 1..n /\ q = coinPairList[Place(j)] /\ q # p
      BY <1>8, <1>11, <3>1
    <3> QED
      BY <1>1, <3>2 DEF ToSet
  <2>2. ASSUME NEW q \in ToSet(coinPairList) \ {p}
        PROVE  q \in ToSet(coinPairList')
    <3>1. PICK i \in 1..n : q = coinPairList[i]
      BY <1>1, <2>2 DEF ToSet
    <3>2. i # k
      BY <1>2, <2>2, <3>1
    <3>3. PICK j \in 1..(n - 1) : i = Place(j)
      BY <1>9, <3>2
    <3> QED
      BY <1>8, <1>17, <3>1, <3>3 DEF ToSet
  <2> QED
    BY <2>1, <2>2
<1> QED
  BY <1>1, <1>2, <1>5, <1>7, <1>16, <1>18 DEF ToSet

-----------------------------------------------------------------------------
(***************************************************************************)
(* Members.                                                                *)
(***************************************************************************)
LEMMA MembershipsAre ==
  ASSUME NEW m \in Memberships, NEW o \in Owners
  PROVE  /\ \A r \in AfterSubscribe(m, o) :
               r \in Memberships /\ Everybody(r) \subseteq Everybody(m) \cup {o}
         /\ AfterUnsubscribe(m, o) \in Memberships
         /\ AfterUnsubscribe(m, o).subscribed = m.subscribed \ {o}
         /\ AfterUnsubscribe(m, o).seated = m.seated
         /\ \A r \in AfterWithdraw(m, o) :
               r \in Memberships /\ Everybody(r) \subseteq Everybody(m)
<1>1. \A r \in AfterSubscribe(m, o) :
         r \in Memberships /\ Everybody(r) \subseteq Everybody(m) \cup {o}
  BY DEF AfterSubscribe, AtMostOneOf, Membership, Memberships, Everybody
<1>2. /\ AfterUnsubscribe(m, o) \in Memberships
      /\ AfterUnsubscribe(m, o).subscribed = m.subscribed \ {o}
      /\ AfterUnsubscribe(m, o).seated = m.seated
  BY DEF AfterUnsubscribe, Membership, Memberships
<1>3. \A r \in AfterWithdraw(m, o) :
         r \in Memberships /\ Everybody(r) \subseteq Everybody(m)
  <2> SUFFICES ASSUME NEW r \in AfterWithdraw(m, o)
               PROVE  r \in Memberships /\ Everybody(r) \subseteq Everybody(m)
    OBVIOUS
  <2>1. CASE r \in {m, AfterUnsubscribe(m, o)}
    BY <1>2, <2>1 DEF Everybody
  <2>2. CASE r \in AfterSeatLost(m, o)
    BY <2>2 DEF AfterSeatLost, AtMostOneOf, Membership, Memberships, Everybody
  <2>3. r \in {m, AfterUnsubscribe(m, o)} \/ r \in AfterSeatLost(m, o)
    BY DEF AfterWithdraw
  <2> QED
    BY <2>1, <2>2, <2>3
<1> QED
  BY <1>1, <1>2, <1>3

LEMMA AfterSwitchRoundIs ==
  ASSUME NEW m \in Memberships, NEW r \in AfterSwitchRound(m)
  PROVE  r \in Memberships /\ Everybody(r) \subseteq Everybody(m)
BY DEF AfterSwitchRound, Membership, Memberships, Everybody

\* Actions by which nobody comes in keep the two invariants on members.
LEMMA ShrinkingKeeps ==
  ASSUME RegistryInv, UNCHANGED <<oracleVars, pairVars>>,
         members' \in [Contracts -> Memberships],
         \A c \in Contracts : Everybody(members'[c]) \subseteq Everybody(members[c])
  PROVE  RegistryInv'
<1>1. UNCHANGED <<values, indexes, registeredOwners, coinPairMap, coinPairList>>
  BY DEF oracleVars, pairVars
<1>2. OracleInv' /\ PairsConsistent'
  BY <1>1 DEF RegistryInv, OracleInv, RegistryTypeOK, Memberships, Consistent, IsRegistered, Current, PairsConsistent
<1>3. Listed' = Listed
  BY <1>1 DEF Listed
<1>4. UnlistedEmpty'
  BY <1>3 DEF RegistryInv, UnlistedEmpty
<1>5. MembersRegistered'
  BY <1>1 DEF RegistryInv, MembersRegistered, Everybody, IsRegistered
<1> QED
  BY <1>2, <1>4, <1>5 DEF RegistryInv

\* The contract that serves a coin pair is in the list.
LEMMA ServesIsListed ==
  ASSUME RegistryTypeOK, PairsConsistent, NEW p \in Pairs, coinPairMap[p] # Zero
  PROVE  coinPairMap[p] \in Listed /\ coinPairMap[p] \in Contracts
<1>1. p \in ToSet(coinPairList)
  BY ListIs DEF PairsConsistent, ToSet
<1> QED
  BY <1>1 DEF Listed, RegistryTypeOK

-----------------------------------------------------------------------------
(***************************************************************************)
(* The steps.                                                              *)
(***************************************************************************)
LEMMA OracleStepKeeps ==
  ASSUME RegistryInv, OracleInv', UNCHANGED <<pairVars, members>>,
         \A o \in Owners : IsRegistered(o) => IsRegistered(o)'
  PROVE  RegistryInv'
<1>1. PairsConsistent' /\ Listed' = Listed
  BY DEF RegistryInv, PairsConsistent, Listed, pairVars
<1>2. UnlistedEmpty'
  BY <1>1 DEF RegistryInv, UnlistedEmpty
<1>3. MembersRegistered'
  BY DEF RegistryInv, OracleInv, RegistryTypeOK, MembersRegistered
<1> QED
  BY <1>1, <1>2, <1>3 DEF RegistryInv

LEMMA RemoveOracleKeeps ==
  ASSUME RegistryInv, NEW o \in Owners, RemoveOracle(o)
  PROVE  RegistryInv'
<1> USE DEF RegistryInv, OracleInv
<1>1. members \in [Contracts -> Memberships]
  BY DEF RegistryTypeOK, Memberships
<1>2. ASSUME NEW c \in Contracts
      PROVE  /\ members'[c] \in Memberships
             /\ Everybody(members'[c]) \subseteq Everybody(members[c]) \ {o}
  <2>1. members[c] \in Memberships
    BY <1>1
  <2>2. CASE c \in Listed
    <3>1. members'[c] = AfterUnsubscribe(members[c], o) /\ o \notin members[c].seated
      BY <2>2 DEF RemoveOracle, CanRemoveOracle
    <3> QED
      BY <2>1, <3>1, MembershipsAre DEF Everybody
  <2>3. CASE c \notin Listed
    BY <2>1, <2>3 DEF RemoveOracle, UnlistedEmpty
  <2> QED
    BY <2>2, <2>3
<1>3. members' \in [Contracts -> Memberships]
  <2>1. members' = [c \in Contracts |-> members'[c]]
    BY DEF RemoveOracle
  <2> QED
    BY <1>2, <2>1
<1>4. OracleInv' /\ UNCHANGED pairVars
  BY <1>3, RemoveEntryKeeps DEF RemoveOracle
<1>5. PairsConsistent' /\ Listed' = Listed
  BY <1>4 DEF PairsConsistent, Listed, pairVars
<1>6. UnlistedEmpty'
  BY <1>2, <1>5 DEF UnlistedEmpty
<1>7. \A q \in Owners \ {o} : IsRegistered(q) => IsRegistered(q)'
  BY DEF RemoveOracle, RemoveEntry, IsRegistered, RegistryTypeOK
<1>8. MembersRegistered'
  BY <1>1, <1>2, <1>7 DEF MembersRegistered, Everybody, Memberships
<1> QED
  BY <1>4, <1>5, <1>6, <1>8

LEMMA PairStepKeeps ==
  ASSUME RegistryInv, RegistryTypeOK', PairsConsistent', UNCHANGED oracleVars,
         UnlistedEmpty', \A c \in Contracts : Everybody(members'[c]) \subseteq Everybody(members[c])
  PROVE  RegistryInv'
<1>1. Consistent'
  BY DEF RegistryInv, OracleInv, Consistent, IsRegistered, Current, oracleVars
<1>2. MembersRegistered'
  BY DEF RegistryInv, MembersRegistered, Everybody, IsRegistered, oracleVars
<1> QED
  BY <1>1, <1>2 DEF RegistryInv, OracleInv

LEMMA RegisterPairStep ==
  ASSUME RegistryInv, NEW p \in Pairs, NEW c \in Contracts, RegisterCoinPair(p, c)
  PROVE  RegistryInv'
<1> USE DEF RegistryInv, OracleInv
<1>1. /\ RegistryTypeOK' /\ PairsConsistent'
      /\ ToSet(coinPairList') = ToSet(coinPairList) \cup {p}
      /\ p \notin ToSet(coinPairList)
      /\ \A q \in Pairs \ {p} : coinPairMap'[q] = coinPairMap[q]
  BY RegisterCoinPairKeeps
<1>2. ToSet(coinPairList) \subseteq Pairs
  BY ListIs DEF ToSet
<1>3. Listed \subseteq Listed'
  BY <1>1, <1>2 DEF Listed
<1>4. members' = members /\ UNCHANGED oracleVars
  BY DEF RegisterCoinPair
<1>5. UnlistedEmpty'
  BY <1>3, <1>4 DEF UnlistedEmpty
<1> QED
  BY <1>1, <1>4, <1>5, PairStepKeeps

LEMMA UnregisterPairStep ==
  ASSUME RegistryInv, NEW p \in Pairs, NEW hint \in Nat, UnregisterCoinPair(p, hint)
  PROVE  RegistryInv'
<1> USE DEF RegistryInv, OracleInv
<1> DEFINE gone == coinPairMap[p]
<1>1. /\ RegistryTypeOK' /\ PairsConsistent'
      /\ ToSet(coinPairList') = ToSet(coinPairList) \ {p}
      /\ \A q \in Pairs \ {p} : coinPairMap'[q] = coinPairMap[q]
  BY UnregisterCoinPairKeeps
<1>2. ToSet(coinPairList) \subseteq Pairs
  BY ListIs DEF ToSet
<1>3. Listed \subseteq Listed' \cup {gone}
  BY <1>1, <1>2 DEF Listed
<1>4. gone \in Contracts /\ UNCHANGED oracleVars
  BY DEF UnregisterCoinPair, RegistryTypeOK
<1>5. /\ Everybody(members'[gone]) = {}
      /\ \A c \in Contracts \ {gone} : members'[c] = members[c]
  BY <1>4 DEF UnregisterCoinPair, RegistryTypeOK, NoMembers, Membership, Everybody
<1>6. UnlistedEmpty'
  BY <1>3, <1>5 DEF UnlistedEmpty
<1> QED
  BY <1>1, <1>4, <1>5, <1>6, PairStepKeeps

LEMMA SubscribeStep ==
  ASSUME RegistryInv, NEW o \in Owners, NEW p \in Pairs, SubscribeToCoinPair(o, p)
  PROVE  RegistryInv'
<1> USE DEF RegistryInv, OracleInv
<1> DEFINE c == coinPairMap[p]
<1>1. c \in Listed /\ c \in Contracts
  BY ServesIsListed DEF SubscribeToCoinPair
<1>2. members \in [Contracts -> Memberships]
  BY DEF RegistryTypeOK, Memberships
<1>3. PICK m \in AfterSubscribe(members[c], o) : members' = [members EXCEPT ![c] = m]
  BY DEF SubscribeToCoinPair
<1> HIDE DEF c
<1>4. m \in Memberships /\ Everybody(m) \subseteq Everybody(members[c]) \cup {o}
  BY <1>1, <1>2, MembershipsAre
<1>5. /\ members' \in [Contracts -> Memberships]
      /\ members'[c] = m
      /\ \A d \in Contracts \ {c} : members'[d] = members[d]
  BY <1>1, <1>2, <1>3, <1>4
<1>6. UNCHANGED <<values, indexes, registeredOwners, coinPairMap, coinPairList>>
  BY DEF SubscribeToCoinPair, oracleVars, pairVars
<1>7. OracleInv' /\ PairsConsistent'
  BY <1>5, <1>6 DEF RegistryTypeOK, Memberships, Consistent, IsRegistered, Current, PairsConsistent
<1>8. Listed' = Listed
  BY <1>6 DEF Listed
<1>9. UnlistedEmpty'
  BY <1>1, <1>5, <1>8 DEF UnlistedEmpty
<1>10. IsRegistered(o)
  BY DEF SubscribeToCoinPair
<1>11. MembersRegistered'
  <2> SUFFICES ASSUME NEW d \in Contracts, NEW q \in Everybody(members'[d])
               PROVE  IsRegistered(q)
    BY <1>6 DEF MembersRegistered, Everybody, IsRegistered
  <2>1. CASE d = c
    BY <1>1, <1>4, <1>5, <1>10, <2>1 DEF MembersRegistered, Everybody
  <2>2. CASE d # c
    BY <1>5, <2>2 DEF MembersRegistered, Everybody
  <2> QED
    BY <2>1, <2>2
<1> QED
  BY <1>7, <1>9, <1>11

LEMMA UnsubscribeStep ==
  ASSUME RegistryInv, NEW o \in Owners, NEW p \in Pairs, UnSubscribeFromCoinPair(o, p)
  PROVE  RegistryInv'
<1> DEFINE c == coinPairMap[p]
<1>1. c \in Contracts /\ members \in [Contracts -> Memberships]
  BY ServesIsListed DEF UnSubscribeFromCoinPair, RegistryInv, OracleInv, RegistryTypeOK, Memberships
<1>2. members' = [members EXCEPT ![c] = AfterUnsubscribe(members[c], o)]
  BY DEF UnSubscribeFromCoinPair
<1> HIDE DEF c
<1>3. /\ AfterUnsubscribe(members[c], o) \in Memberships
      /\ Everybody(AfterUnsubscribe(members[c], o)) \subseteq Everybody(members[c])
  BY <1>1, MembershipsAre DEF Everybody
<1>4. /\ members' \in [Contracts -> Memberships]
      /\ \A d \in Contracts : Everybody(members'[d]) \subseteq Everybody(members[d])
  BY <1>1, <1>2, <1>3
<1>5. UNCHANGED <<oracleVars, pairVars>>
  BY DEF UnSubscribeFromCoinPair
<1> QED
  BY <1>4, <1>5, ShrinkingKeeps

LEMMA WithdrawStep ==
  ASSUME RegistryInv, NEW o \in Owners, OnWithdraw(o)
  PROVE  RegistryInv'
<1>1. members \in [Contracts -> Memberships]
  BY DEF RegistryInv, OracleInv, RegistryTypeOK, Memberships
<1>2. ASSUME NEW c \in Contracts
      PROVE  members'[c] \in Memberships /\ Everybody(members'[c]) \subseteq Everybody(members[c])
  <2>1. members'[c] \in AfterWithdraw(members[c], o) \/ members'[c] = members[c]
    BY DEF OnWithdraw
  <2> QED
    BY <1>1, <2>1, MembershipsAre
<1>3. members' = [c \in Contracts |-> members'[c]]
  BY DEF OnWithdraw
<1>4. members' \in [Contracts -> Memberships]
  BY <1>2, <1>3
<1>5. UNCHANGED <<oracleVars, pairVars>>
  BY DEF OnWithdraw
<1> QED
  BY <1>2, <1>4, <1>5, ShrinkingKeeps

LEMMA SwitchRoundStep ==
  ASSUME RegistryInv, NEW c \in Contracts, SwitchRound(c)
  PROVE  RegistryInv'
<1>1. members \in [Contracts -> Memberships]
  BY DEF RegistryInv, OracleInv, RegistryTypeOK, Memberships
<1>2. PICK m \in AfterSwitchRound(members[c]) : members' = [members EXCEPT ![c] = m]
  BY DEF SwitchRound
<1>3. m \in Memberships /\ Everybody(m) \subseteq Everybody(members[c])
  BY <1>1, AfterSwitchRoundIs
<1>4. /\ members' \in [Contracts -> Memberships]
      /\ \A d \in Contracts : Everybody(members'[d]) \subseteq Everybody(members[d])
  BY <1>1, <1>2, <1>3
<1>5. UNCHANGED <<oracleVars, pairVars>>
  BY DEF SwitchRound
<1> QED
  BY <1>4, <1>5, ShrinkingKeeps

-----------------------------------------------------------------------------
(***************************************************************************)
(* The invariant.                                                          *)
(***************************************************************************)
LEMMA InitialRegistry == RegistryInit => RegistryInv
<1> SUFFICES ASSUME RegistryInit PROVE RegistryInv
  OBVIOUS
<1>1. Len(<<>>) = 0 /\ <<>> \in Seq(Addresses) /\ <<>> \in Seq(Pairs)
  BY EmptySeq
<1>2. RegistryTypeOK
  BY <1>1 DEF RegistryInit, RegistryTypeOK, NoMembers, Membership
<1>3. Consistent /\ PairsConsistent
  BY <1>1 DEF RegistryInit, Consistent, PairsConsistent, IsRegistered
<1>4. UnlistedEmpty /\ MembersRegistered
  BY DEF RegistryInit, UnlistedEmpty, MembersRegistered, NoMembers, Membership, Everybody
<1> QED
  BY <1>2, <1>3, <1>4 DEF RegistryInv, OracleInv

LEMMA RegistryStep == RegistryInv /\ [RegistryNext]_registryVars => RegistryInv'
<1> SUFFICES ASSUME RegistryInv, [RegistryNext]_registryVars PROVE RegistryInv'
  OBVIOUS
<1> USE DEF RegistryInv
<1>1. ASSUME NEW o \in Owners, NEW a \in Addresses, RegisterOracle(o, a)
      PROVE  RegistryInv'
  <2>1. \A p \in Owners : IsRegistered(p) => IsRegistered(p)'
    <3>1. Len(values) + 1 # 0
      BY LenProperties DEF OracleInv, RegistryTypeOK
    <3> QED
      BY <1>1, <3>1 DEF RegisterOracle, IsRegistered, OracleInv, RegistryTypeOK
  <2> QED
    BY <1>1, <2>1, RegisterOracleKeeps, OracleStepKeeps DEF RegisterOracle
<1>2. ASSUME NEW o \in Owners, NEW a \in Addresses, SetOracleAddress(o, a)
      PROVE  RegistryInv'
  BY <1>2, SetOracleAddressKeeps, OracleStepKeeps DEF SetOracleAddress, IsRegistered
<1>3. ASSUME NEW o \in Owners, RemoveOracle(o) PROVE RegistryInv'
  BY <1>3, RemoveOracleKeeps
<1>4. ASSUME NEW o \in Owners, NEW p \in Pairs,
             SubscribeToCoinPair(o, p) \/ UnSubscribeFromCoinPair(o, p)
      PROVE  RegistryInv'
  BY <1>4, SubscribeStep, UnsubscribeStep
<1>5. ASSUME NEW o \in Owners, OnWithdraw(o) PROVE RegistryInv'
  BY <1>5, WithdrawStep
<1>6. ASSUME NEW a \in Addresses \ ToSet(values), ClearRegisteredOwner(a) PROVE RegistryInv'
  BY <1>6, ClearRegisteredOwnerKeeps, OracleStepKeeps DEF ClearRegisteredOwner, IsRegistered
<1>7. ASSUME NEW p \in Pairs, NEW c \in Contracts, RegisterCoinPair(p, c) PROVE RegistryInv'
  BY <1>7, RegisterPairStep
<1>8. ASSUME NEW p \in Pairs, NEW hint \in 0..MaxHint, UnregisterCoinPair(p, hint) PROVE RegistryInv'
  BY <1>8, UnregisterPairStep, RegistryAssumption
<1>9. ASSUME NEW c \in Contracts, SwitchRound(c) PROVE RegistryInv'
  BY <1>9, SwitchRoundStep
<1>10. CASE UNCHANGED registryVars
  BY <1>10, ShrinkingKeeps DEF registryVars, OracleInv, RegistryTypeOK, Memberships
<1> QED
  BY <1>1, <1>2, <1>3, <1>4, <1>5, <1>6, <1>7, <1>8, <1>9, <1>10 DEF RegistryNext

\* The arrays, indexes and mappings of both registries stay consistent.
THEOREM RegistryInvariant == RegistrySpec => []RegistryInv
BY InitialRegistry, RegistryStep, PTL DEF RegistrySpec

\* Whoever is subscribed or seated anywhere is registered, whatever was removed,
\* unregistered and registered again: for any number of coin pairs.
THEOREM MembersRegisteredHolds == RegistrySpec => []MembersRegistered
<1>1. RegistryInv => MembersRegistered
  BY DEF RegistryInv
<1> QED
  BY <1>1, RegistryInvariant, PTL

-----------------------------------------------------------------------------
(***************************************************************************)
(* The refinement.                                                         *)
(***************************************************************************)
Enrolled == {p \in Owners : IsRegistered(p)}
OracleOf == [o \in Enrolled |-> Current(o)]
PairOf   == [p \in ToSet(coinPairList) |-> coinPairMap[p]]

LEMMA RegisterOracleEnrols ==
  ASSUME RegistryInv, NEW o \in Owners, NEW a \in Addresses, RegisterOracle(o, a)
  PROVE  Directory!Enrol(o, a)
<1> USE DEF RegistryInv, OracleInv
<1> DEFINE n == Len(values)
<1>1. n \in Nat /\ \A p \in Enrolled : indexes[p] \in 1..n
  BY LenProperties DEF RegistryTypeOK, Consistent, Enrolled
<1>2. /\ \A i \in 1..n : values'[i] = values[i]
      /\ values'[n + 1] = a
  BY AppendProperties DEF RegisterOracle, RegistryTypeOK
<1>3. indexes'[o] = n + 1 /\ \A p \in Owners \ {o} : indexes'[p] = indexes[p]
  BY DEF RegisterOracle, RegistryTypeOK
<1>4. Enrolled' = Enrolled \cup {o} /\ o \notin Enrolled
  BY <1>1, <1>3 DEF Enrolled, IsRegistered, RegisterOracle
<1>5. \A p \in Enrolled' : Current(p)' = IF p = o THEN a ELSE Current(p)
  BY <1>1, <1>2, <1>3, <1>4 DEF Current, Enrolled
<1>6. OracleOf' = [p \in Enrolled \cup {o} |-> IF p = o THEN a ELSE OracleOf[p]]
  BY <1>4, <1>5 DEF OracleOf
<1>7. PairOf' = PairOf
  BY DEF RegisterOracle, PairOf, pairVars
<1>8. DOMAIN OracleOf = Enrolled
  BY DEF OracleOf
<1> QED
  BY <1>4, <1>6, <1>7, <1>8
     DEF RegisterOracle, Directory!Enrol, Directory!Registered, OracleOf, PairOf, Enrolled

LEMMA SetOracleAddressMoves ==
  ASSUME RegistryInv, NEW o \in Owners, NEW a \in Addresses, SetOracleAddress(o, a)
  PROVE  Directory!Move(o, a)
<1> USE DEF RegistryInv, OracleInv
<1>1. o \in Enrolled /\ \A p \in Enrolled : indexes[p] \in 1..Len(values)
  BY DEF SetOracleAddress, Consistent, Enrolled
<1>2. \A i \in 1..Len(values) : values'[i] = IF i = indexes[o] THEN a ELSE values[i]
  BY <1>1, ExceptSeq DEF SetOracleAddress, RegistryTypeOK
<1>3. \A p \in Enrolled : indexes[p] = indexes[o] => p = o
  BY <1>1 DEF Consistent, Enrolled, Current
<1>4. indexes' = indexes /\ Enrolled' = Enrolled
  BY DEF SetOracleAddress, Enrolled, IsRegistered
<1>5. \A p \in Enrolled' : Current(p)' = IF p = o THEN a ELSE Current(p)
  BY <1>1, <1>2, <1>3, <1>4 DEF Current
<1>6. OracleOf' = [OracleOf EXCEPT ![o] = a]
  BY <1>1, <1>4, <1>5 DEF OracleOf
<1>7. PairOf' = PairOf
  BY DEF SetOracleAddress, PairOf, pairVars
<1>8. DOMAIN OracleOf = Enrolled /\ OracleOf[o] = Current(o)
  BY <1>1 DEF OracleOf
<1>9. registeredOwners' = [registeredOwners EXCEPT ![OracleOf[o]] = Directory!Forgotten(OracleOf[o]),
                                                   ![a] = o]
  BY <1>8 DEF SetOracleAddress, Directory!Forgotten
<1> QED
  BY <1>1, <1>6, <1>7, <1>8, <1>9
     DEF SetOracleAddress, Directory!Move, Directory!Registered, OracleOf, PairOf, Enrolled

LEMMA RemoveOracleStrikes ==
  ASSUME RegistryInv, NEW o \in Owners, RemoveOracle(o)
  PROVE  Directory!Strike(o)
<1> USE DEF RegistryInv, OracleInv
<1> DEFINE n         == Len(values)
           k         == indexes[o]
           lastOwner == registeredOwners[values[n]]
<1>1. n \in Nat /\ k \in 1..n /\ n \in 1..n /\ o \in Enrolled
  BY LenProperties DEF RemoveOracle, RegistryTypeOK, Consistent, Enrolled
<1>2. \A j \in 1..(n - 1) : values'[j] = IF j = k THEN values[n] ELSE values[j]
  BY <1>1, SwapAndPopIs DEF RemoveOracle, RemoveEntry, RegistryTypeOK
<1>3. /\ lastOwner \in Owners /\ indexes[lastOwner] = n
      /\ indexes' = [indexes EXCEPT ![lastOwner] = k, ![o] = 0]
      /\ registeredOwners' = [registeredOwners EXCEPT ![Current(o)] = Zero]
  BY <1>1 DEF RemoveOracle, RemoveEntry, Consistent, Last
<1>4. \A p \in Owners : indexes'[p] = IF p = o THEN 0 ELSE IF p = lastOwner THEN k ELSE indexes[p]
  BY <1>3 DEF RegistryTypeOK
<1>5. Enrolled' = Enrolled \ {o}
  <2>1. k # 0 /\ n # 0
    BY <1>1
  <2>2. indexes[lastOwner] # 0
    BY <1>3, <2>1
  <2>3. \A p \in Owners : indexes'[p] # 0 <=> (p # o /\ indexes[p] # 0)
    BY <1>4, <2>1, <2>2
  <2>4. Enrolled' = {p \in Owners : indexes'[p] # 0} /\ Enrolled = {p \in Owners : indexes[p] # 0}
    BY DEF Enrolled, IsRegistered
  <2> HIDE DEF k, n, lastOwner
  <2> QED
    BY <2>3, <2>4
<1>6. \A p \in Enrolled : /\ indexes[p] \in 1..n
                          /\ registeredOwners[values[indexes[p]]] = p
  BY DEF Consistent, Enrolled, Current
<1>7. ASSUME NEW p \in Enrolled \ {o}
      PROVE  Current(p)' = Current(p)
  <2>1. indexes[p] # k
    BY <1>1, <1>6, <1>7
  <2>2. CASE p = lastOwner
    <3>1. indexes[p] = n /\ indexes'[p] = k /\ p \in Owners
      BY <1>3, <1>4, <1>7, <2>2
    <3>2. k \in 1..(n - 1)
      BY <1>1, <2>1, <3>1
    <3> QED
      BY <1>2, <3>1, <3>2 DEF Current
  <2>3. CASE p # lastOwner
    <3>1. p \in Owners /\ indexes'[p] = indexes[p]
      BY <1>4, <1>7, <2>3 DEF Enrolled
    <3>2. indexes[p] # n
      BY <1>6, <2>3
    <3>3. indexes[p] \in 1..(n - 1)
      BY <1>1, <1>6, <3>2
    <3> QED
      BY <1>2, <2>1, <3>1, <3>3 DEF Current
  <2> QED
    BY <2>2, <2>3
<1>8. DOMAIN OracleOf = Enrolled /\ OracleOf[o] = Current(o)
  BY <1>1 DEF OracleOf
<1>9. OracleOf' = [p \in Enrolled \ {o} |-> OracleOf[p]]
  BY <1>5, <1>7 DEF OracleOf
<1>10. PairOf' = PairOf
  BY DEF RemoveOracle, PairOf, pairVars
<1> QED
  BY <1>1, <1>3, <1>8, <1>9, <1>10
     DEF Directory!Strike, Directory!Registered, OracleOf, PairOf, Enrolled

LEMMA ClearRegisteredOwnerForgets ==
  ASSUME RegistryInv, NEW a \in Addresses \ ToSet(values), ClearRegisteredOwner(a)
  PROVE  Directory!Forget(a)
<1>1. DOMAIN values = 1..Len(values)
  BY LenProperties DEF RegistryInv, OracleInv, RegistryTypeOK
<1>2. \A o \in Enrolled : Current(o) \in ToSet(values)
  BY <1>1 DEF RegistryInv, OracleInv, Consistent, Enrolled, Current, ToSet
<1>3. DOMAIN OracleOf = Enrolled /\ \A o \in Enrolled : OracleOf[o] = Current(o)
  BY DEF OracleOf
<1>4. a \notin {OracleOf[o] : o \in Enrolled}
  BY <1>2, <1>3
<1>5. OracleOf' = OracleOf /\ PairOf' = PairOf
  BY DEF ClearRegisteredOwner, OracleOf, Enrolled, IsRegistered, Current, PairOf, pairVars
<1> QED
  BY <1>3, <1>4, <1>5 DEF ClearRegisteredOwner, Directory!Forget, Directory!InUse,
     Directory!Registered, OracleOf, PairOf, Enrolled

LEMMA RegisterCoinPairAdds ==
  ASSUME RegistryInv, NEW p \in Pairs, NEW c \in Contracts, RegisterCoinPair(p, c)
  PROVE  Directory!AddPair(p, c)
<1>1. /\ ToSet(coinPairList') = ToSet(coinPairList) \cup {p}
      /\ p \notin ToSet(coinPairList)
      /\ coinPairMap'[p] = c
      /\ \A q \in Pairs \ {p} : coinPairMap'[q] = coinPairMap[q]
  BY RegisterCoinPairKeeps DEF RegistryInv, OracleInv
<1>2. ToSet(coinPairList) \subseteq Pairs
  BY ListIs DEF RegistryInv, OracleInv, ToSet
<1>3. DOMAIN PairOf = ToSet(coinPairList)
  BY DEF PairOf
<1>4. PairOf' = [q \in ToSet(coinPairList) \cup {p} |-> IF q = p THEN c ELSE PairOf[q]]
  BY <1>1, <1>2 DEF PairOf
<1>5. OracleOf' = OracleOf /\ UNCHANGED registeredOwners
  BY DEF RegisterCoinPair, OracleOf, Enrolled, IsRegistered, Current, oracleVars
<1> QED
  BY <1>1, <1>3, <1>4, <1>5 DEF Directory!AddPair, OracleOf, PairOf, Enrolled

LEMMA UnregisterCoinPairDrops ==
  ASSUME RegistryInv, NEW p \in Pairs, NEW hint \in Nat, UnregisterCoinPair(p, hint)
  PROVE  Directory!DropPair(p)
<1>1. /\ p \in ToSet(coinPairList)
      /\ ToSet(coinPairList') = ToSet(coinPairList) \ {p}
      /\ \A q \in Pairs \ {p} : coinPairMap'[q] = coinPairMap[q]
  BY UnregisterCoinPairKeeps DEF RegistryInv, OracleInv
<1>2. ToSet(coinPairList) \subseteq Pairs
  BY ListIs DEF RegistryInv, OracleInv, ToSet
<1>3. DOMAIN PairOf = ToSet(coinPairList)
  BY DEF PairOf
<1>4. PairOf' = [q \in ToSet(coinPairList) \ {p} |-> PairOf[q]]
  BY <1>1, <1>2 DEF PairOf
<1>5. OracleOf' = OracleOf /\ UNCHANGED registeredOwners
  BY DEF UnregisterCoinPair, OracleOf, Enrolled, IsRegistered, Current, oracleVars
<1> QED
  BY <1>1, <1>3, <1>4, <1>5 DEF Directory!DropPair, OracleOf, PairOf, Enrolled

LEMMA MemberStepsStutter ==
  ASSUME UNCHANGED <<oracleVars, pairVars>>
  PROVE  UNCHANGED Directory!directoryVars
BY DEF oracleVars, pairVars, Directory!directoryVars, IsRegistered, Current

LEMMA RegistryStepsTheDirectory ==
  ASSUME RegistryInv, [RegistryNext]_registryVars
  PROVE  [Directory!DirectoryNext]_(Directory!directoryVars)
<1>1. ASSUME NEW o \in Owners, NEW a \in Addresses, RegisterOracle(o, a) \/ SetOracleAddress(o, a)
      PROVE  Directory!DirectoryNext
  BY <1>1, RegisterOracleEnrols, SetOracleAddressMoves DEF Directory!DirectoryNext
<1>2. ASSUME NEW o \in Owners, RemoveOracle(o) PROVE Directory!DirectoryNext
  BY <1>2, RemoveOracleStrikes DEF Directory!DirectoryNext
<1>3. ASSUME NEW a \in Addresses \ ToSet(values), ClearRegisteredOwner(a)
      PROVE  Directory!DirectoryNext
  BY <1>3, ClearRegisteredOwnerForgets DEF Directory!DirectoryNext
<1>4. ASSUME NEW p \in Pairs, NEW c \in Contracts, RegisterCoinPair(p, c)
      PROVE  Directory!DirectoryNext
  BY <1>4, RegisterCoinPairAdds DEF Directory!DirectoryNext
<1>5. ASSUME NEW p \in Pairs, NEW hint \in 0..MaxHint, UnregisterCoinPair(p, hint)
      PROVE  Directory!DirectoryNext
  BY <1>5, UnregisterCoinPairDrops, RegistryAssumption DEF Directory!DirectoryNext
<1>6. ASSUME NEW o \in Owners, NEW p \in Pairs,
             SubscribeToCoinPair(o, p) \/ UnSubscribeFromCoinPair(o, p)
      PROVE  UNCHANGED Directory!directoryVars
  BY <1>6, MemberStepsStutter DEF SubscribeToCoinPair, UnSubscribeFromCoinPair
<1>7. ASSUME NEW o \in Owners, OnWithdraw(o) PROVE UNCHANGED Directory!directoryVars
  BY <1>7, MemberStepsStutter DEF OnWithdraw
<1>8. ASSUME NEW c \in Contracts, SwitchRound(c) PROVE UNCHANGED Directory!directoryVars
  BY <1>8, MemberStepsStutter DEF SwitchRound
<1>9. CASE UNCHANGED registryVars
  BY <1>9, MemberStepsStutter DEF registryVars
<1> QED
  BY <1>1, <1>2, <1>3, <1>4, <1>5, <1>6, <1>7, <1>8, <1>9 DEF RegistryNext

LEMMA InitialDirectory == RegistryInit => Directory!DirectoryInit
<1> SUFFICES ASSUME RegistryInit PROVE Directory!DirectoryInit
  OBVIOUS
<1>1. Enrolled = {}
  BY DEF RegistryInit, Enrolled, IsRegistered
<1>2. ToSet(coinPairList) = {}
  BY EmptySeq DEF RegistryInit, ToSet
<1> QED
  BY <1>1, <1>2 DEF RegistryInit, Directory!DirectoryInit, Enrolled

\* Refinement: with any number of owners, addresses and pairs, arrays, indexes,
\* swap-and-pop and hints behave as the directory.
THEOREM ImplementsDirectoryHolds == RegistrySpec => ImplementsDirectory
<1>1. RegistryInv /\ [RegistryNext]_registryVars => [Directory!DirectoryNext]_(Directory!directoryVars)
  BY RegistryStepsTheDirectory
<1> QED
  BY <1>1, InitialDirectory, RegistryInvariant, PTL
     DEF RegistrySpec, ImplementsDirectory, Directory!DirectorySpec

\* An oracle address in use is its owner's: no two owners share one.
THEOREM EachHasItsOwnHolds == RegistrySpec => []Directory!EachHasItsOwn
<1>1. RegistryInv => Directory!EachHasItsOwn
  BY DEF RegistryInv, OracleInv, Consistent, Directory!EachHasItsOwn, Directory!Registered
<1> QED
  BY <1>1, RegistryInvariant, PTL
=============================================================================
