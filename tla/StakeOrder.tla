----------------------------- MODULE StakeOrder -----------------------------
(***************************************************************************)
(* The loops of SubscribedOraclesLib against what they are for, on every   *)
(* array of owners and every stake: the array grows by one owner at a time *)
(* (AddressSetLib.add), with any stake.                                    *)
(***************************************************************************)
EXTENDS SubscribedOraclesLib, FiniteSets

CONSTANTS
    Addresses,              \* the owners, 0 is address(0)
    MaxBalance              \* bound: stake of an owner

ASSUME StakeOrderAssumption ==
    Addresses \subseteq Nat \ {0} /\ IsFiniteSet(Addresses) /\ MaxBalance \in Nat

VARIABLES
    array,                  \* the values of the set
    balance                 \* the stake of each owner

orderVars == <<array, balance>>

OrderInit ==
    /\ array = <<>>
    /\ balance = [o \in Addresses |-> 0]

\* A new owner subscribes with stake s.
Add(o, s) ==
    /\ o \notin ToSet(array)
    /\ array' = Append(array, o)
    /\ balance' = [balance EXCEPT ![o] = s]

OrderNext == \E o \in Addresses, s \in 0..MaxBalance : Add(o, s)

OrderSpec == OrderInit /\ [][OrderNext]_orderVars

-----------------------------------------------------------------------------
Position(v) == CHOOSE i \in DOMAIN array : array[i] = v

\* u has more right to a seat than v: by stake, then by its place in the array.
Precedes(u, v) ==
    \/ balance[u] > balance[v]
    \/ balance[u] = balance[v] /\ Position(u) < Position(v)

\* sort leaves at place i the owner that exactly i - 1 others precede, for as
\* many places as were asked for and there are owners: ties do not move, and
\* those that fall off the end are not missed.
SortSelectsRichest ==
    \A count \in 0..(Cardinality(Addresses) + 1) :
        LET chosen == Sorted(array, balance, count)
        IN  /\ Len(chosen) = IF count < Len(array) THEN count ELSE Len(array)
            /\ \A i \in DOMAIN chosen :
                  /\ chosen[i] \in ToSet(array)
                  /\ Cardinality({u \in ToSet(array) : Precedes(u, chosen[i])}) = i - 1

\* The owner a newcomer replaces is the poorest, and the owner that takes a
\* seat is the richest of those without one, address(0) if there is none.
ReplacementsAreExtreme ==
    /\ array # <<>> =>
          LET min == GetMin(array, balance)
          IN  /\ min.addr \in ToSet(array) /\ min.stake = balance[min.addr]
              /\ \A v \in ToSet(array) : min.stake <= balance[v]
    /\ \A selected \in SUBSET Addresses :
          LET max     == GetMaxUnselectedStake(array, balance, selected)
              waiting == ToSet(array) \ selected
          IN  IF waiting = {}
              THEN max.addr = 0 /\ max.stake = 0
              ELSE /\ max.addr \in waiting /\ max.stake = balance[max.addr]
                   /\ \A v \in waiting : balance[v] <= max.stake
=============================================================================
