---------------------------- MODULE RoundManager ----------------------------
(***************************************************************************)
(* The rounds of one coin pair: contracts/RoundManager.sol with the round  *)
(* bookkeeping of contracts/libs/RoundInfoLib.sol.                         *)
(*                                                                         *)
(* Oracle owners with enough stake subscribe; the ones with most stake are *)
(* selected when a round starts and collect points while it lasts; anybody *)
(* may close a round once its lock period is over.  A withdrawal of stake  *)
(* may cost an oracle its seat at any moment, and oracles that did not     *)
(* sign in too many rounds are unsubscribed when a round closes.           *)
(*                                                                         *)
(* Every action is one transaction: the EVM runs them one at a time and a  *)
(* failed require undoes the whole call, so a guard is a require.          *)
(*                                                                         *)
(* RoundManager is an abstract contract.  What CoinPairPrice and           *)
(* TasksRunner add (payloads, prices, tasks, reward tokens) is in their    *)
(* own modules; here an execution only has its signers and its points.     *)
(*                                                                         *)
(* The two address sets are TLA+ sets: SubscribedOraclesLib gives no       *)
(* guarantee on the order of its elements, so whatever depends on the      *)
(* order (ties in stake, the order of the removal loop) is a choice.       *)
(***************************************************************************)
EXTENDS Integers, FiniteSets

CONSTANTS
    Owners,                 \* addresses of oracle owners
    maxOraclesPerRound,
    maxSubscribedOraclesPerRound,
    minOraclesPerRound,     \* ORACLE_MIN_ORACLES_PER_ROUND of the registry
    minCPSubscriptionStake,
    roundLockPeriodSecs,
    Awards,                 \* the points an execution can earn
    MaxStake,               \* bounds: stake of an owner,
    MaxTotalPoints,         \* points given in a round,
    MaxRound,               \* rounds,
    MaxMissed               \* governance's choices of maxMissedSigRounds

ASSUME OwnersAssumption == IsFiniteSet(Owners)

\* initRoundInfo rejects the two zeros.
ASSUME ConfigAssumption ==
    /\ maxOraclesPerRound \in Nat \ {0}
    /\ maxSubscribedOraclesPerRound \in Nat
    /\ minOraclesPerRound \in Nat
    /\ minCPSubscriptionStake \in Nat
    /\ roundLockPeriodSecs \in Nat \ {0}
    /\ Awards \subseteq Nat

ASSUME BoundsAssumption ==
    MaxStake \in Nat /\ MaxTotalPoints \in Nat /\ MaxRound \in Nat /\ MaxMissed \in Nat

VARIABLES
    stake,                  \* the MOCs each owner has in Supporters
    subscribed,             \* subscribedOracles
    selected,               \* roundInfo.selectedOracles
    number,                 \* roundInfo.number
    lockPeriodTimestamp,    \* roundInfo.lockPeriodTimestamp
    totalPoints,            \* roundInfo.totalPoints
    points,                 \* roundInfo.points
    missed,                 \* missedSignatureRoundsByOracle
    lastSigned,             \* lastSignedRoundByOracle
    maxMissedSigRounds,
    timestamp,              \* block.timestamp
    autoUnsubscribed        \* history: OracleAutoUnsubscribed events of the last step

membership == <<subscribed, selected>>
round      == <<number, lockPeriodTimestamp, totalPoints, points>>
tracking   == <<missed, lastSigned>>

vars == <<stake, subscribed, selected, number, lockPeriodTimestamp, totalPoints, points,
          missed, lastSigned, maxMissedSigRounds, timestamp, autoUnsubscribed>>

-----------------------------------------------------------------------------
(***************************************************************************)
(* Choices by stake.  st is the stake of every owner.                      *)
(***************************************************************************)
AtMost(n, S) == IF Cardinality(S) < n THEN Cardinality(S) ELSE n

\* getMin: an owner of S with the least stake.
Lowest(S, st) == {o \in S : \A p \in S : st[o] <= st[p]}

\* getMaxUnselectedStake, getMaxBalance: an owner of S with the most stake.
Highest(S, st) == {o \in S : \A p \in S : st[o] >= st[p]}

\* sort: the n owners of S with most stake.
TopStaked(S, st, n) ==
    {T \in SUBSET S : /\ Cardinality(T) = AtMost(n, S)
                      /\ \A o \in T, p \in S \ T : st[o] >= st[p]}

-----------------------------------------------------------------------------
(***************************************************************************)
(* RoundInfoLib and the small internal functions.                          *)
(***************************************************************************)
\* Faulty variant of IsFull, off by one.
IsFullByOne == Cardinality(selected) > maxOraclesPerRound

IsFull == Cardinality(selected) >= maxOraclesPerRound

IsReadyToSwitch == timestamp > lockPeriodTimestamp

\* roundInfo.switchRound(), without the selection of the new oracles.
StartRound ==
    /\ number' = number + 1
    /\ lockPeriodTimestamp' = timestamp + 1 + roundLockPeriodSecs
    /\ totalPoints' = 0
    /\ points' = [o \in Owners |-> IF o \in selected THEN 0 ELSE points[o]]

\* Faulty variant of ResetTracking: the missed rounds outlive the subscription.
ResetLastSigned(S) ==
    /\ missed' = missed
    /\ lastSigned' = [o \in Owners |-> IF o \in S THEN 0 ELSE lastSigned[o]]

\* _resetAutoUnsubscribeTracking for every owner of S.
ResetTracking(S) ==
    /\ missed' = [o \in Owners |-> IF o \in S THEN 0 ELSE missed[o]]
    /\ lastSigned' = [o \in Owners |-> IF o \in S THEN 0 ELSE lastSigned[o]]

\* _removeSubscribedOracle for every owner of S.
RemoveSubscribed(S) ==
    /\ subscribed' = subscribed \ S
    /\ ResetTracking(S \cap subscribed)

-----------------------------------------------------------------------------
(***************************************************************************)
(* Subscription.                                                           *)
(***************************************************************************)

\* _addOrReplaceSubscribedOracle: who has to leave to make room for o.  The
\* empty set of answers is the require "Not enough stake to add".
Evictions(o) ==
    IF Cardinality(subscribed) < maxSubscribedOraclesPerRound
    THEN {{}}
    ELSE {{p} : p \in {p \in Lowest(subscribed, stake) : stake[o] > stake[p]}}

\* An evicted owner that is selected keeps its seat until the round closes.
Subscribe(o) ==
    /\ o \notin subscribed
    /\ stake[o] >= minCPSubscriptionStake
    /\ \E evicted \in Evictions(o) :
          /\ subscribed' = (subscribed \ evicted) \cup {o}
          /\ ResetTracking(evicted \cup {o})
    /\ selected' = IF IsFull THEN selected ELSE selected \cup {o}
    /\ autoUnsubscribed' = {}
    /\ UNCHANGED <<stake, round, maxMissedSigRounds, timestamp>>

\* Faulty variant of Unsubscribe: it empties the seat too.
UnsubscribeFromRound(o) ==
    /\ o \in subscribed
    /\ RemoveSubscribed({o})
    /\ selected' = selected \ {o}
    /\ autoUnsubscribed' = {}
    /\ UNCHANGED <<stake, round, maxMissedSigRounds, timestamp>>

\* The owner leaves the next rounds, not the current one.
Unsubscribe(o) ==
    /\ o \in subscribed
    /\ RemoveSubscribed({o})
    /\ autoUnsubscribed' = {}
    /\ UNCHANGED <<stake, selected, round, maxMissedSigRounds, timestamp>>

-----------------------------------------------------------------------------
(***************************************************************************)
(* Stake.  Staking and Supporters keep it; it grows by deposits and by     *)
(* vested earnings, nobody tells the coin pair.  It shrinks by             *)
(* Staking.withdrawTokens only, which calls onWithdraw in the same         *)
(* transaction, even when it withdraws nothing.                            *)
(***************************************************************************)
Deposit(o) ==
    /\ \E s \in (stake[o] + 1)..MaxStake : stake' = [stake EXCEPT ![o] = s]
    /\ autoUnsubscribed' = {}
    /\ UNCHANGED <<membership, round, tracking, maxMissedSigRounds, timestamp>>

BelowMinimum(o, st) == st[o] < minCPSubscriptionStake

\* Subscribed owners without a seat.
Waiting == subscribed \ selected

LosesSeat(o, st) ==
    /\ o \in selected
    /\ BelowMinimum(o, st) \/ \E r \in Waiting : st[r] > st[o]

\* Faulty variants of Displaced: the seat is left empty, the points stay.
DisplacedByNobody(o, st) ==
    /\ points' = [points EXCEPT ![o] = 0]
    /\ selected' = selected \ {o}

DisplacedKeepingPoints(o, st) ==
    /\ points' = points
    /\ IF Waiting = {}
       THEN selected' = selected \ {o}
       ELSE \E r \in Highest(Waiting, st) : selected' = (selected \ {o}) \cup {r}

\* onWithdraw(o) when o loses its seat: its points are forfeited, the total
\* of the round stays, and the richest of those that wait takes the seat.
Displaced(o, st) ==
    /\ points' = [points EXCEPT ![o] = 0]
    /\ IF Waiting = {}
       THEN selected' = selected \ {o}
       ELSE \E r \in Highest(Waiting, st) : selected' = (selected \ {o}) \cup {r}

\* Faulty variant of OnWithdraw: it stops at owners that are not selected.
OnWithdrawOfSelected(o, st) ==
    /\ IF LosesSeat(o, st) THEN Displaced(o, st) ELSE UNCHANGED <<points, selected>>
    /\ IF o \in selected /\ BelowMinimum(o, st)
       THEN RemoveSubscribed({o})
       ELSE UNCHANGED <<subscribed, tracking>>

\* onWithdraw(o), st being the stakes after the withdrawal.
OnWithdraw(o, st) ==
    /\ IF LosesSeat(o, st) THEN Displaced(o, st) ELSE UNCHANGED <<points, selected>>
    /\ IF BelowMinimum(o, st)
       THEN RemoveSubscribed({o})
       ELSE UNCHANGED <<subscribed, tracking>>

Withdraw(o) ==
    /\ \E s \in 0..stake[o] : stake' = [stake EXCEPT ![o] = s]
    /\ OnWithdraw(o, stake')
    /\ autoUnsubscribed' = {}
    /\ UNCHANGED <<number, lockPeriodTimestamp, totalPoints, maxMissedSigRounds, timestamp>>

-----------------------------------------------------------------------------
(***************************************************************************)
(* Executions and the closing of a round.                                  *)
(***************************************************************************)

\* The signatures _validateExecution counts.  Signers that are not selected
\* are skipped and the others must be in increasing order, so each counts once.
ValidSignatures(signers) ==
    /\ signers \subseteq selected
    /\ Cardinality(signers) > Cardinality(selected) \div 2

\* Faulty variant of RecordSignatures: the missed rounds are not reset.
RecordLastSigned(signers) ==
    /\ missed' = missed
    /\ lastSigned' = [o \in Owners |-> IF o \in signers THEN number ELSE lastSigned[o]]

\* The loop of _validateExecution on the counted signatures.
RecordSignatures(signers) ==
    /\ missed' = [o \in Owners |-> IF o \in signers THEN 0 ELSE missed[o]]
    /\ lastSigned' = [o \in Owners |-> IF o \in signers THEN number ELSE lastSigned[o]]

\* _validateExecution
ValidateExecution(o, signers) ==
    /\ number > 0
    /\ o \in selected
    /\ Cardinality(selected) >= minOraclesPerRound
    /\ ValidSignatures(signers)
    /\ RecordSignatures(signers)

\* A publication by o: _validateExecution, then addPoints.
Execution(o, signers, award) ==
    /\ ValidateExecution(o, signers)
    /\ totalPoints + award <= MaxTotalPoints
    /\ points' = [points EXCEPT ![o] = @ + award]
    /\ totalPoints' = totalPoints + award
    /\ autoUnsubscribed' = {}
    /\ UNCHANGED <<stake, membership, number, lockPeriodTimestamp, maxMissedSigRounds,
                   timestamp>>

\* Selected owners with no counted signature in the round, or none since they
\* last subscribed or left the subscribers: both erase lastSigned.
Silent == {o \in selected : lastSigned[o] # number}

\* minSubscribedAfterAutoUnsubscribe
SubscribedFloor == minOraclesPerRound + 1

\* _processAutoUnsubscribeBySignatures returns at once unless this holds.
AccountsMisses == maxMissedSigRounds > 0 /\ Cardinality(subscribed) > SubscribedFloor

DueForRemoval == {o \in Silent : missed[o] + 1 >= maxMissedSigRounds}

\* The owners the loop reports as removed: subscribedCount goes down at each,
\* subscribed or not, and the loop stops removing at the floor.  Which owners
\* come first depends on the order of the selected set.
Removals ==
    IF AccountsMisses
    THEN {R \in SUBSET DueForRemoval :
            Cardinality(R) = AtMost(Cardinality(subscribed) - SubscribedFloor, DueForRemoval)}
    ELSE {{}}

\* missedSignatureRoundsByOracle[o] after the loop, unless it was reset.
CountMiss(o) == IF AccountsMisses /\ o \in Silent THEN missed[o] + 1 ELSE missed[o]

ProcessAutoUnsubscribe(removed) ==
    /\ subscribed' = subscribed \ removed
    /\ missed' = [o \in Owners |-> IF o \in removed \cap subscribed THEN 0 ELSE CountMiss(o)]
    /\ lastSigned' = [o \in Owners |-> IF o \in removed \cap subscribed THEN 0 ELSE lastSigned[o]]
    /\ autoUnsubscribed' = removed

\* Anybody may call switchRound.
SwitchRound ==
    /\ number < MaxRound
    /\ number > 0 => IsReadyToSwitch
    /\ \E removed \in Removals : ProcessAutoUnsubscribe(removed)
    /\ StartRound
    /\ selected' \in TopStaked(subscribed', stake, maxOraclesPerRound)
    /\ UNCHANGED <<stake, maxMissedSigRounds, timestamp>>

\* OracleManager.unregisterCoinPair: forceCloseRound, then unsubscribe for
\* each subscribed owner, in one transaction.
Unregister ==
    /\ number < MaxRound
    /\ StartRound
    /\ selected' = {}
    /\ RemoveSubscribed(subscribed)
    /\ autoUnsubscribed' = {}
    /\ UNCHANGED <<stake, maxMissedSigRounds, timestamp>>

\* Governance.
SetMaxMissedSigRounds(m) ==
    /\ maxMissedSigRounds' = m
    /\ autoUnsubscribed' = {}
    /\ UNCHANGED <<stake, membership, round, tracking, timestamp>>

\* Time passes.  Bound: it stops one second after the lock period, since
\* block.timestamp is only ever compared with lockPeriodTimestamp.
Tick ==
    /\ ~IsReadyToSwitch
    /\ timestamp' = timestamp + 1
    /\ autoUnsubscribed' = {}
    /\ UNCHANGED <<stake, membership, round, tracking, maxMissedSigRounds>>

-----------------------------------------------------------------------------
Init ==
    /\ stake \in [Owners -> {0, MaxStake}]
    /\ subscribed = {}
    /\ selected = {}
    /\ number = 1
    /\ lockPeriodTimestamp = 0
    /\ totalPoints = 0
    /\ points = [o \in Owners |-> 0]
    /\ missed = [o \in Owners |-> 0]
    /\ lastSigned = [o \in Owners |-> 0]
    /\ maxMissedSigRounds \in 0..MaxMissed
    /\ timestamp = 1
    /\ autoUnsubscribed = {}

OwnerStep(o) ==
    \/ Subscribe(o)
    \/ Unsubscribe(o)
    \/ Deposit(o)
    \/ Withdraw(o)
    \/ \E signers \in SUBSET selected, award \in Awards : Execution(o, signers, award)

Next ==
    \/ \E o \in Owners : OwnerStep(o)
    \/ SwitchRound
    \/ Unregister
    \/ \E m \in 0..MaxMissed : SetMaxMissedSigRounds(m)
    \/ Tick

Spec == Init /\ [][Next]_vars

-----------------------------------------------------------------------------
(***************************************************************************)
(* Properties.                                                             *)
(***************************************************************************)
TypeOK ==
    /\ stake \in [Owners -> Nat]
    /\ subscribed \subseteq Owners
    /\ selected \subseteq Owners
    /\ number \in Nat
    /\ lockPeriodTimestamp \in Nat
    /\ totalPoints \in Nat
    /\ points \in [Owners -> Nat]
    /\ missed \in [Owners -> Nat]
    /\ lastSigned \in [Owners -> Nat]
    /\ maxMissedSigRounds \in Nat
    /\ timestamp \in Nat
    /\ autoUnsubscribed \subseteq Owners

\* Whoever is subscribed or sits in the round has the minimum stake, whatever
\* was withdrawn in between: the case onWithdraw treats apart for owners that
\* are subscribed but not selected (RoundManager.sol:139).
MembersStaked ==
    \A o \in subscribed \cup selected : stake[o] >= minCPSubscriptionStake

\* Neither the round nor the list of subscribers grows beyond its limit,
\* although seats are filled by subscriptions, by withdrawals and by the
\* closing of rounds.
MembershipBounded ==
    /\ Cardinality(selected) <= maxOraclesPerRound
    /\ Cardinality(subscribed) <= maxSubscribedOraclesPerRound

\* No seat stays empty while a subscribed owner waits for one.
NoIdleSeat == Cardinality(selected) < maxOraclesPerRound => subscribed \subseteq selected

\* Only the owners in the round hold points, never more than the round gave:
\* what an owner that left had is forfeited and cannot come back with it.
PointsBacked ==
    \A o \in Owners : points[o] <= totalPoints /\ (points[o] > 0 => o \in selected)

\* Within a round an owner loses its seat only by a withdrawal of its own.
SeatLostByOwnWithdrawal ==
    [][\A o \in selected \ selected' : number' > number \/ Withdraw(o)]_vars
=============================================================================
