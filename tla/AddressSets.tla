----------------------------- MODULE AddressSets ----------------------------
(***************************************************************************)
(* AddressSetLib, the enumerable sets behind subscribedOracles,            *)
(* selectedOracles and the tasks of TasksRunner: an array of values and,   *)
(* for each value, its position in the array plus one, 0 meaning that the  *)
(* value is not in the set.                                                *)
(***************************************************************************)
EXTENDS Naturals, SequencesExt

CONSTANT Address

EmptyAddressSet == [values |-> <<>>, indexes |-> [a \in Address |-> 0]]

Has(set, a) == set.indexes[a] # 0

Added(set, a) ==
    IF Has(set, a)
    THEN set
    ELSE [values  |-> Append(set.values, a),
          indexes |-> [set.indexes EXCEPT ![a] = Len(set.values) + 1]]

\* Faulty variant of Removed: the value moved into the hole keeps its old index.
RemovedForgettingIndex(set, a) ==
    IF Has(set, a)
    THEN [values  |-> Front([set.values EXCEPT ![set.indexes[a]] = Last(set.values)]),
          indexes |-> [set.indexes EXCEPT ![a] = 0]]
    ELSE set

\* Swap with the last value and pop.
Removed(set, a) ==
    IF Has(set, a)
    THEN [values  |-> Front([set.values EXCEPT ![set.indexes[a]] = Last(set.values)]),
          indexes |-> [set.indexes EXCEPT ![Last(set.values)] = set.indexes[a], ![a] = 0]]
    ELSE set

Cleared(set) ==
    [values  |-> <<>>,
     indexes |-> [a \in Address |-> IF Contains(set.values, a) THEN 0 ELSE set.indexes[a]]]

\* The set an AddressSet stands for, and when it stands for one: the indexes
\* point at the values and nothing else has an index.
Elements(set) == ToSet(set.values)

Consistent(set) ==
    /\ \A i \in DOMAIN set.values : set.indexes[set.values[i]] = i
    /\ \A a \in Address \ Elements(set) : set.indexes[a] = 0
=============================================================================
