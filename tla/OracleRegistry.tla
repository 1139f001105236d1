---------------------------- MODULE OracleRegistry ----------------------------
(***************************************************************************)
(* contracts/OracleManager.sol with its two registries, of oracles         *)
(* (libs/IterableOraclesLib.sol) and of coin pairs                         *)
(* (libs/CoinPairRegisterLib.sol), and its calls to all the coin pairs.    *)
(*                                                                         *)
(* Both registries are arrays with swap and pop.  That of oracles has no   *)
(* owner in its entries: the owner of the entry that moves is looked up by *)
(* its oracle address, which owners change and governance clears.  That of *)
(* coin pairs has no index: the caller gives a hint where to search.       *)
(***************************************************************************)
EXTENDS Integers, SequencesExt, PairMembership

CONSTANTS
    Owners,
    Addresses,              \* of oracles, with Zero among them
    Zero,                   \* address(0)
    Pairs,                  \* names of coin pairs
    Contracts,              \* the contracts that may serve them
    MaxHint                 \* bound: the hint of an unregistration

ASSUME RegistryAssumption ==
    /\ Zero \in Addresses
    /\ Zero \notin Owners /\ Zero \notin Contracts
    /\ MaxHint \in Nat

VARIABLES
    values,                 \* registeredOracles._values, of the oracle addresses
    indexes,                \* registeredOracles._indexes, 0 for none
    registeredOwners,       \* registeredOracles.registeredOwners
    coinPairMap, coinPairList,
    members                 \* the membership of each contract

oracleVars   == <<values, indexes, registeredOwners>>
pairVars     == <<coinPairMap, coinPairList>>
registryVars == <<oracleVars, pairVars, members>>

-----------------------------------------------------------------------------
(***************************************************************************)
(* Arrays.                                                                 *)
(***************************************************************************)
\* Faulty variant of SwapAndPop: the hole is not filled.
JustPop(list, i) == Front(list)

\* The last element fills the hole.
SwapAndPop(list, i) == Front([list EXCEPT ![i] = Last(list)])

IsRegistered(o) == indexes[o] # 0
Current(o)      == values[indexes[o]]

\* _getCoinPairIndex: where p is found from the hint on, if it is.
Positions(p, hint) == {i \in (hint + 1)..Len(coinPairList) : coinPairList[i] = p}
FirstFrom(p, hint) == CHOOSE i \in Positions(p, hint) : \A j \in Positions(p, hint) : i <= j

Listed == {coinPairMap[p] : p \in ToSet(coinPairList)}

-----------------------------------------------------------------------------
(***************************************************************************)
(* Oracles.                                                                *)
(***************************************************************************)
RegisterOracle(o, a) ==
    /\ a # Zero
    /\ ~IsRegistered(o)
    /\ registeredOwners[a] = Zero
    /\ registeredOwners' = [registeredOwners EXCEPT ![a] = o]
    /\ values' = Append(values, a)
    /\ indexes' = [indexes EXCEPT ![o] = Len(values) + 1]
    /\ UNCHANGED <<pairVars, members>>

\* The new address may be 0, the old one is not forgotten then.
SetOracleAddress(o, a) ==
    /\ IsRegistered(o)
    /\ registeredOwners[a] = Zero
    /\ registeredOwners' = [registeredOwners EXCEPT
                              ![Current(o)] = IF Current(o) = Zero THEN @ ELSE Zero,
                              ![a] = o]
    /\ values' = [values EXCEPT ![indexes[o]] = a]
    /\ UNCHANGED <<indexes, pairVars, members>>

\* _removeOracle
RemoveEntry(o) ==
    LET lastOwner == registeredOwners[Last(values)]
    IN  /\ lastOwner # Zero
        /\ values' = SwapAndPop(values, indexes[o])
        /\ indexes' = [indexes EXCEPT ![lastOwner] = indexes[o], ![o] = 0]
        /\ registeredOwners' = [registeredOwners EXCEPT ![Current(o)] = Zero]

\* Faulty variant of CanRemoveOracle: seats are not looked at.
CanRemoveSubscribed(o) == TRUE

\* In no coin pair the owner has a seat.
CanRemoveOracle(o) == \A c \in Listed : o \notin members[c].seated

\* The owner leaves every list before; by itself or by governance.
RemoveOracle(o) ==
    /\ IsRegistered(o)
    /\ members' = [c \in Contracts |-> IF c \in Listed THEN AfterUnsubscribe(members[c], o)
                                                       ELSE members[c]]
    /\ CanRemoveOracle(o)
    /\ RemoveEntry(o)
    /\ UNCHANGED pairVars

\* Governance, for addresses left over.
ClearRegisteredOwner(a) ==
    /\ registeredOwners' = [registeredOwners EXCEPT ![a] = Zero]
    /\ UNCHANGED <<values, indexes, pairVars, members>>

-----------------------------------------------------------------------------
(***************************************************************************)
(* Coin pairs.                                                             *)
(***************************************************************************)
RegisterCoinPair(p, c) ==
    /\ coinPairMap[p] = Zero
    /\ coinPairMap' = [coinPairMap EXCEPT ![p] = c]
    /\ coinPairList' = Append(coinPairList, p)
    /\ UNCHANGED <<oracleVars, members>>

\* The round is closed with no selection after it, and all are unsubscribed.
UnregisterCoinPair(p, hint) ==
    /\ coinPairMap[p] # Zero
    /\ Positions(p, hint) # {}
    /\ members' = [members EXCEPT ![coinPairMap[p]] = NoMembers]
    /\ coinPairMap' = [coinPairMap EXCEPT ![p] = Zero]
    /\ coinPairList' = SwapAndPop(coinPairList, FirstFrom(p, hint))
    /\ UNCHANGED oracleVars

SubscribeToCoinPair(o, p) ==
    LET c == coinPairMap[p]
    IN  /\ IsRegistered(o)
        /\ c # Zero
        /\ o \notin members[c].subscribed
        /\ \E m \in AfterSubscribe(members[c], o) : members' = [members EXCEPT ![c] = m]
        /\ UNCHANGED <<oracleVars, pairVars>>

UnSubscribeFromCoinPair(o, p) ==
    LET c == coinPairMap[p]
    IN  /\ IsRegistered(o)
        /\ c # Zero
        /\ o \in members[c].subscribed
        /\ members' = [members EXCEPT ![c] = AfterUnsubscribe(@, o)]
        /\ UNCHANGED <<oracleVars, pairVars>>

\* Every coin pair of the list is told; a contract with two names is told
\* twice, and has nothing left to change the second time.
OnWithdraw(o) ==
    LET After(c) == IF c \in Listed THEN AfterWithdraw(members[c], o) ELSE {members[c]}
    IN  /\ members' \in {f \in [Contracts -> UNION {After(c) : c \in Contracts}] :
                            \A c \in Contracts : f[c] \in After(c)}
        /\ UNCHANGED <<oracleVars, pairVars>>

\* Anybody closes the round of any contract, in the list or not.
SwitchRound(c) ==
    /\ \E m \in AfterSwitchRound(members[c]) : members' = [members EXCEPT ![c] = m]
    /\ UNCHANGED <<oracleVars, pairVars>>

-----------------------------------------------------------------------------
\* The addresses an earlier version did not forget may be anybody's.
RegistryInit ==
    /\ values = <<>>
    /\ indexes = [o \in Owners |-> 0]
    /\ registeredOwners \in [Addresses -> Owners \cup {Zero}]
    /\ coinPairMap = [p \in Pairs |-> Zero]
    /\ coinPairList = <<>>
    /\ members = [c \in Contracts |-> NoMembers]

\* Governance clears what is left over only: of an address in use it would
\* leave an entry nobody can remove.
RegistryNext ==
    \/ \E o \in Owners :
          \/ \E a \in Addresses : RegisterOracle(o, a) \/ SetOracleAddress(o, a)
          \/ RemoveOracle(o)
          \/ \E p \in Pairs : SubscribeToCoinPair(o, p) \/ UnSubscribeFromCoinPair(o, p)
          \/ OnWithdraw(o)
    \/ \E a \in Addresses \ ToSet(values) : ClearRegisteredOwner(a)
    \/ \E p \in Pairs :
          \/ \E c \in Contracts : RegisterCoinPair(p, c)
          \/ \E hint \in 0..MaxHint : UnregisterCoinPair(p, hint)
    \/ \E c \in Contracts : SwitchRound(c)

RegistrySpec == RegistryInit /\ [][RegistryNext]_registryVars

-----------------------------------------------------------------------------
(***************************************************************************)
(* Properties.                                                             *)
(***************************************************************************)
RegistryTypeOK ==
    /\ values \in Seq(Addresses)
    /\ indexes \in [Owners -> Nat]
    /\ registeredOwners \in [Addresses -> Owners \cup {Zero}]
    /\ coinPairMap \in [Pairs -> Contracts \cup {Zero}]
    /\ coinPairList \in Seq(Pairs)
    /\ members \in [Contracts -> [subscribed : SUBSET Owners, seated : SUBSET Owners]]

\* The entries and the indexes are each other's inverse by way of the owners
\* that the addresses are known to have.
Consistent ==
    /\ \A i \in 1..Len(values) : /\ registeredOwners[values[i]] \in Owners
                                 /\ indexes[registeredOwners[values[i]]] = i
    /\ \A o \in Owners : IsRegistered(o) => /\ indexes[o] \in 1..Len(values)
                                            /\ registeredOwners[Current(o)] = o

\* The arrays and indexes behave as the directory: after any sequence of
\* registrations, changes of address and removals each owner has the address it
\* gave, and a hint out of date removes no other coin pair.
Directory == INSTANCE OracleDirectory WITH
    oracleOf   <- [o \in {p \in Owners : IsRegistered(p)} |-> Current(o)],
    ownerOf    <- registeredOwners,
    contractOf <- [p \in ToSet(coinPairList) |-> coinPairMap[p]]

ImplementsDirectory == Directory!DirectorySpec

\* An owner that is removed takes no subscription and no seat with it: whoever is
\* subscribed or seated in any contract, in the list or not, is registered,
\* although a seat outlasts its subscription and a coin pair may be
\* unregistered and registered again.
MembersRegistered ==
    \A c \in Contracts : \A o \in members[c].subscribed \cup members[c].seated : IsRegistered(o)
=============================================================================
