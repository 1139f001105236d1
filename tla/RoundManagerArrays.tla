------------------------- MODULE RoundManagerArrays -------------------------
(***************************************************************************)
(* RoundManager at the level of its loops: the two sets are AddressSets,   *)
(* and the choices RoundManager leaves open are made the way the code      *)
(* makes them, by the order of the arrays.  The module implements          *)
(* RoundManager, the sets being the elements of the arrays.                *)
(*                                                                         *)
(* Addresses are the positive numbers Owners; 0 is address(0).             *)
(***************************************************************************)
EXTENDS Integers, SequencesExt, FiniteSetsExt, SubscribedOraclesLib

CONSTANTS
    Owners, maxOraclesPerRound, maxSubscribedOraclesPerRound, minOraclesPerRound,
    minCPSubscriptionStake, roundLockPeriodSecs, Awards,
    MaxStake, MaxTotalPoints, MaxRound, MaxMissed,
    MaxSignatures           \* bound: signatures of an execution

ASSUME AddressAssumption == Owners \subseteq Nat \ {0} /\ IsFiniteSet(Owners)

\* initRoundInfo rejects the two zeros.
ASSUME ConfigAssumption ==
    /\ maxOraclesPerRound \in Nat \ {0}
    /\ maxSubscribedOraclesPerRound \in Nat
    /\ minOraclesPerRound \in Nat
    /\ minCPSubscriptionStake \in Nat
    /\ roundLockPeriodSecs \in Nat \ {0}
    /\ Awards \subseteq Nat

ASSUME BoundsAssumption ==
    /\ MaxStake \in Nat /\ MaxTotalPoints \in Nat /\ MaxRound \in Nat /\ MaxMissed \in Nat
    /\ MaxSignatures \in Nat

VARIABLES
    subscribedOracles,      \* AddressSet
    selectedOracles,        \* AddressSet, roundInfo.selectedOracles
    stake, number, lockPeriodTimestamp, totalPoints, points, missed, lastSigned,
    maxMissedSigRounds, timestamp, autoUnsubscribed

INSTANCE AddressSets WITH Address <- Owners

Abstract == INSTANCE RoundManager WITH
    subscribed <- Elements(subscribedOracles),
    selected   <- Elements(selectedOracles)

sets     == <<subscribedOracles, selectedOracles>>
round    == <<number, lockPeriodTimestamp, totalPoints, points>>
tracking == <<missed, lastSigned>>
vars     == <<sets, stake, round, tracking, maxMissedSigRounds, timestamp,
              autoUnsubscribed>>

-----------------------------------------------------------------------------
(***************************************************************************)
(* Subscription and stake.                                                 *)
(***************************************************************************)
IsFull == Len(selectedOracles.values) >= maxOraclesPerRound

ResetTracking(S) ==
    /\ missed' = [o \in Owners |-> IF o \in S THEN 0 ELSE missed[o]]
    /\ lastSigned' = [o \in Owners |-> IF o \in S THEN 0 ELSE lastSigned[o]]

\* _addOrReplaceSubscribedOracle, then the reset for the newcomer.
AddOrReplace(o) ==
    IF Len(subscribedOracles.values) < maxSubscribedOraclesPerRound
    THEN /\ subscribedOracles' = Added(subscribedOracles, o)
         /\ ResetTracking({o})
    ELSE LET min == GetMin(subscribedOracles.values, stake)
         IN  /\ stake[o] > min.stake
             /\ min.addr # 0
             /\ subscribedOracles' = Added(Removed(subscribedOracles, min.addr), o)
             /\ ResetTracking({min.addr, o})

Subscribe(o) ==
    /\ ~Has(subscribedOracles, o)
    /\ stake[o] >= minCPSubscriptionStake
    /\ AddOrReplace(o)
    /\ selectedOracles' = IF ~IsFull /\ ~Has(selectedOracles, o)
                          THEN Added(selectedOracles, o)
                          ELSE selectedOracles
    /\ autoUnsubscribed' = {}
    /\ UNCHANGED <<stake, round, maxMissedSigRounds, timestamp>>

\* _removeSubscribedOracle
RemoveSubscribed(o) ==
    /\ subscribedOracles' = Removed(subscribedOracles, o)
    /\ IF Has(subscribedOracles, o) THEN ResetTracking({o}) ELSE UNCHANGED tracking

Unsubscribe(o) ==
    /\ Has(subscribedOracles, o)
    /\ RemoveSubscribed(o)
    /\ autoUnsubscribed' = {}
    /\ UNCHANGED <<selectedOracles, stake, round, maxMissedSigRounds, timestamp>>

Deposit(o) ==
    /\ \E s \in (stake[o] + 1)..MaxStake : stake' = [stake EXCEPT ![o] = s]
    /\ autoUnsubscribed' = {}
    /\ UNCHANGED <<sets, round, tracking, maxMissedSigRounds, timestamp>>

\* onWithdraw when the owner is selected and has lost its place.
Displaced(o, addr) ==
    /\ LET left == Removed(selectedOracles, o)
       IN  selectedOracles' = IF addr # 0 THEN Added(left, addr) ELSE left
    /\ points' = [points EXCEPT ![o] = 0]

OnWithdraw(o, st) ==
    LET below == st[o] < minCPSubscriptionStake
        other == GetMaxUnselectedStake(subscribedOracles.values, st,
                                       {v \in Owners : Has(selectedOracles, v)})
    IN  /\ IF Has(selectedOracles, o) /\ (below \/ other.stake > st[o])
           THEN Displaced(o, other.addr)
           ELSE UNCHANGED <<selectedOracles, points>>
        /\ IF below THEN RemoveSubscribed(o) ELSE UNCHANGED <<subscribedOracles, tracking>>

Withdraw(o) ==
    /\ \E s \in 0..stake[o] : stake' = [stake EXCEPT ![o] = s]
    /\ OnWithdraw(o, stake')
    /\ autoUnsubscribed' = {}
    /\ UNCHANGED <<number, lockPeriodTimestamp, totalPoints, maxMissedSigRounds, timestamp>>

-----------------------------------------------------------------------------
(***************************************************************************)
(* Executions.  signatures is the sequence of recovered signers.           *)
(***************************************************************************)
Increasing(signatures) ==
    \A i \in 1..(Len(signatures) - 1) : signatures[i] < signatures[i + 1]

\* The loop of _validateExecution: what it leaves in the two mappings and the
\* number of signatures it counted.
CountSignatures(signatures) ==
    LET Count(acc, o) ==
            IF Has(selectedOracles, o)
            THEN [valid      |-> acc.valid + 1,
                  missed     |-> [acc.missed EXCEPT ![o] = 0],
                  lastSigned |-> [acc.lastSigned EXCEPT ![o] = number]]
            ELSE acc
    IN  FoldLeft(Count, [valid |-> 0, missed |-> missed, lastSigned |-> lastSigned], signatures)

Execution(o, signatures, award) ==
    LET counted == CountSignatures(signatures)
    IN  /\ number > 0
        /\ Has(selectedOracles, o)
        /\ Len(selectedOracles.values) >= minOraclesPerRound
        /\ Increasing(signatures)
        /\ counted.valid > Len(selectedOracles.values) \div 2
        /\ totalPoints + award <= MaxTotalPoints
        /\ missed' = counted.missed
        /\ lastSigned' = counted.lastSigned
        /\ points' = [points EXCEPT ![o] = @ + award]
        /\ totalPoints' = totalPoints + award
        /\ autoUnsubscribed' = {}
        /\ UNCHANGED <<sets, stake, number, lockPeriodTimestamp, maxMissedSigRounds, timestamp>>

-----------------------------------------------------------------------------
(***************************************************************************)
(* Closing a round.                                                        *)
(***************************************************************************)

\* The state the loop of _processAutoUnsubscribeBySignatures starts with.
BeforeRemovals ==
    [subscribed |-> subscribedOracles, count |-> Len(subscribedOracles.values),
     missed |-> missed, lastSigned |-> lastSigned, events |-> {}]

\* One pass of the loop, for a selected owner.
AccountMiss(acc, o) ==
    LET misses  == acc.missed[o] + 1
        counted == [acc EXCEPT !.missed[o] = misses]
    IN  IF acc.lastSigned[o] = number
        THEN acc
        ELSE IF misses >= maxMissedSigRounds /\ acc.count > minOraclesPerRound + 1
        THEN [subscribed |-> Removed(acc.subscribed, o),
              count      |-> acc.count - 1,
              missed     |-> IF Has(acc.subscribed, o)
                             THEN [acc.missed EXCEPT ![o] = 0] ELSE counted.missed,
              lastSigned |-> IF Has(acc.subscribed, o)
                             THEN [acc.lastSigned EXCEPT ![o] = 0] ELSE acc.lastSigned,
              events     |-> acc.events \cup {o}]
        ELSE counted

AfterRemovals ==
    IF maxMissedSigRounds = 0 \/ Len(subscribedOracles.values) <= minOraclesPerRound + 1
    THEN BeforeRemovals
    ELSE FoldLeft(AccountMiss, BeforeRemovals, selectedOracles.values)

\* roundInfo.switchRound(): points go for the owners in the array.
StartRound ==
    /\ number' = number + 1
    /\ lockPeriodTimestamp' = timestamp + 1 + roundLockPeriodSecs
    /\ totalPoints' = 0
    /\ points' = FoldLeft(LAMBDA p, o : [p EXCEPT ![o] = 0], points, selectedOracles.values)

\* The loop that selects, on the cleared set of selected oracles.
Seated(chosen) ==
    LET Seat(set, o) == IF Len(set.values) < maxOraclesPerRound THEN Added(set, o) ELSE set
    IN  FoldLeft(Seat, Cleared(selectedOracles), chosen)

SwitchRound ==
    /\ number < MaxRound
    /\ number > 0 => timestamp > lockPeriodTimestamp
    /\ LET after == AfterRemovals
       IN  /\ subscribedOracles' = after.subscribed
           /\ missed' = after.missed
           /\ lastSigned' = after.lastSigned
           /\ autoUnsubscribed' = after.events
           /\ selectedOracles' = Seated(Sorted(after.subscribed.values, stake, maxOraclesPerRound))
    /\ StartRound
    /\ UNCHANGED <<stake, maxMissedSigRounds, timestamp>>

\* unregisterCoinPair unsubscribes the first of the array until none is left.
Unregister ==
    /\ number < MaxRound
    /\ StartRound
    /\ selectedOracles' = Cleared(selectedOracles)
    /\ subscribedOracles' =
          FoldLeft(LAMBDA set, i : Removed(set, set.values[1]), subscribedOracles,
                   subscribedOracles.values)
    /\ ResetTracking(Elements(subscribedOracles))
    /\ autoUnsubscribed' = {}
    /\ UNCHANGED <<stake, maxMissedSigRounds, timestamp>>

SetMaxMissedSigRounds(m) ==
    /\ maxMissedSigRounds' = m
    /\ autoUnsubscribed' = {}
    /\ UNCHANGED <<sets, stake, round, tracking, timestamp>>

Tick ==
    /\ timestamp <= lockPeriodTimestamp
    /\ timestamp' = timestamp + 1
    /\ autoUnsubscribed' = {}
    /\ UNCHANGED <<sets, stake, round, tracking, maxMissedSigRounds>>

-----------------------------------------------------------------------------
Init ==
    /\ subscribedOracles = EmptyAddressSet
    /\ selectedOracles = EmptyAddressSet
    /\ Abstract!Init

Next ==
    \/ \E o \in Owners : Subscribe(o) \/ Unsubscribe(o) \/ Deposit(o) \/ Withdraw(o)
    \/ \E o \in Owners, signatures \in BoundedSeq(Owners, MaxSignatures), award \in Awards :
          Execution(o, signatures, award)
    \/ SwitchRound
    \/ Unregister
    \/ \E m \in 0..MaxMissed : SetMaxMissedSigRounds(m)
    \/ Tick

Spec == Init /\ [][Next]_vars

-----------------------------------------------------------------------------
\* However oracles come and go, swapped and popped, each array has no value
\* twice and the index of every value leads to it.
ArraysConsistent == Consistent(subscribedOracles) /\ Consistent(selectedOracles)

\* Whatever the loops do, in the order of the arrays, is one of the outcomes
\* RoundManager allows for the same call.
ImplementsRounds == Abstract!Spec
=============================================================================
