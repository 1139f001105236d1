------------------------ MODULE SubscribedOraclesLib ------------------------
(***************************************************************************)
(* The loops over an array of subscribed owners:                           *)
(* contracts/libs/SubscribedOraclesLib.sol, with                           *)
(* Supporters.getMaxMOCBalance, which getMaxUnselectedStake calls.         *)
(*                                                                         *)
(* values is the array, st the stake of every owner; 0 is address(0).      *)
(***************************************************************************)
EXTENDS Integers, SequencesExt

NoOracle == [addr |-> 0, stake |-> 0]

\* getMin: the first of the values with least stake.
GetMin(values, st) ==
    LET Less(min, v) == IF st[v] < min.stake THEN [addr |-> v, stake |-> st[v]] ELSE min
    IN  IF values = <<>>
        THEN NoOracle
        ELSE FoldLeft(Less, [addr |-> Head(values), stake |-> st[Head(values)]], Tail(values))

\* _getMOCBalanceAt: deposits are made by the owner or by the DelayMachine, never
\* for address(0) (Staking.sol:88), which has no stake.
BalanceAt(v, st) == IF v = 0 THEN 0 ELSE st[v]

\* Faulty variant of GetMaxMOCBalance: the first address is not looked at.
GetMaxMOCBalanceOfTail(addresses, st) ==
    LET More(max, v) == IF v # 0 /\ BalanceAt(v, st) > max.stake
                        THEN [addr |-> v, stake |-> BalanceAt(v, st)]
                        ELSE max
    IN  FoldLeft(More, NoOracle, IF addresses = <<>> THEN <<>> ELSE Tail(addresses))

\* Supporters.getMaxMOCBalance: the first of the addresses with most stake.  The
\* first counts even if it is address(0), the others are skipped when they are.
GetMaxMOCBalance(addresses, st) ==
    LET first        == Head(addresses)
        More(max, v) == IF v # 0 /\ BalanceAt(v, st) > max.stake
                        THEN [addr |-> v, stake |-> BalanceAt(v, st)]
                        ELSE max
    IN  IF addresses = <<>>
        THEN NoOracle
        ELSE FoldLeft(More, [addr |-> first, stake |-> BalanceAt(first, st)], Tail(addresses))

\* The values the loop of getMaxUnselectedStake writes, selected being the owners
\* the other set contains.
Remaining(values, selected) ==
    LET Keep(waiting, v) == IF v \in selected THEN waiting ELSE Append(waiting, v)
    IN  FoldLeft(Keep, <<>>, values)

\* Faulty variant of Unselected: a selected owner leaves a hole in the array.
UnselectedWithHoles(values, selected) ==
    [i \in DOMAIN values |-> IF values[i] \in selected THEN 0 ELSE values[i]]

\* The array of that loop, as long as the set: address(0) in what it leaves.
Unselected(values, selected) ==
    LET waiting == Remaining(values, selected)
    IN  waiting \o [i \in 1..(Len(values) - Len(waiting)) |-> 0]

\* getMaxUnselectedStake
GetMaxUnselectedStake(values, st, selected) == GetMaxMOCBalance(Unselected(values, selected), st)

\* Faulty variant of Placed: v goes before those with the same stake.
PlacedBeforeEquals(chosen, v, st, count) ==
    LET full == Len(chosen) = count
        j == IF full THEN count - 1 ELSE Len(chosen)
        place[k \in 0..j] == IF k > 0 /\ st[v] >= st[chosen[k]] THEN place[k - 1] ELSE k
    IN  IF full /\ st[v] <= st[chosen[count]]
        THEN chosen
        ELSE SubSeq(chosen, 1, place[j]) \o <<v>> \o SubSeq(chosen, place[j] + 1, j)

\* One pass of the loop of sort: v moves the poorer ones of the chosen down
\* and takes its place; the last of count falls off.
Placed(chosen, v, st, count) ==
    LET full == Len(chosen) = count
        j == IF full THEN count - 1 ELSE Len(chosen)
        place[k \in 0..j] == IF k > 0 /\ st[v] > st[chosen[k]] THEN place[k - 1] ELSE k
    IN  IF full /\ st[v] <= st[chosen[count]]
        THEN chosen
        ELSE SubSeq(chosen, 1, place[j]) \o <<v>> \o SubSeq(chosen, place[j] + 1, j)

\* sort
Sorted(values, st, count) ==
    LET Place(chosen, v) == Placed(chosen, v, st, count)
    IN  IF count = 0 THEN <<>> ELSE FoldLeft(Place, <<>>, values)
=============================================================================
