------------------------ MODULE RoundManager_proofs -------------------------
(***************************************************************************)
(* Theorems about RoundManager, for every set of owners and every          *)
(* configuration the assumptions of RoundManager allow.                    *)
(*                                                                         *)
(* Types come first.  Each safety invariant is then inductive relative to  *)
(* TypeOK, so it has a step lemma of its own, proved action by action.     *)
(***************************************************************************)
EXTENDS RoundHistory, PairMembership, Arithmetic_proofs

-----------------------------------------------------------------------------
(***************************************************************************)
(* Types.                                                                  *)
(***************************************************************************)

LEMMA InitTypeOK == Init => TypeOK
BY ConfigAssumption, BoundsAssumption DEF Init, TypeOK

LEMMA ResetTrackingTyped ==
    ASSUME TypeOK, NEW S, ResetTracking(S)
    PROVE  missed' \in [Owners -> Nat] /\ lastSigned' \in [Owners -> Nat]
BY DEF TypeOK, ResetTracking

LEMMA RemoveSubscribedTyped ==
    ASSUME TypeOK, NEW S, RemoveSubscribed(S)
    PROVE  /\ subscribed' \subseteq Owners
           /\ missed' \in [Owners -> Nat]
           /\ lastSigned' \in [Owners -> Nat]
BY ResetTrackingTyped DEF TypeOK, RemoveSubscribed

LEMMA StartRoundTyped ==
    ASSUME TypeOK, StartRound
    PROVE  /\ number' \in Nat
           /\ lockPeriodTimestamp' \in Nat
           /\ totalPoints' \in Nat
           /\ points' \in [Owners -> Nat]
BY ConfigAssumption DEF TypeOK, StartRound

\* Every transaction of RoundManager.sol keeps the types of its storage.
LEMMA NextTypeOK == TypeOK /\ [Next]_vars => TypeOK'
<1> SUFFICES ASSUME TypeOK, [Next]_vars PROVE TypeOK'
  OBVIOUS
<1> USE ConfigAssumption, BoundsAssumption
<1>1. CASE UNCHANGED vars
  BY <1>1 DEF TypeOK, vars
<1>2. ASSUME NEW o \in Owners, Subscribe(o) PROVE TypeOK'
  <2>1. PICK evicted \in Evictions(o) :
            subscribed' = (subscribed \ evicted) \cup {o} /\ ResetTracking(evicted \cup {o})
    BY <1>2 DEF Subscribe
  <2> QED
    BY <1>2, <2>1, ResetTrackingTyped DEF Subscribe, TypeOK, round
<1>3. ASSUME NEW o \in Owners, Unsubscribe(o) PROVE TypeOK'
  BY <1>3, RemoveSubscribedTyped DEF Unsubscribe, TypeOK, round
<1>4. ASSUME NEW o \in Owners, Deposit(o) PROVE TypeOK'
  BY <1>4 DEF Deposit, TypeOK, membership, round, tracking
<1>5. ASSUME NEW o \in Owners, Withdraw(o) PROVE TypeOK'
  <2>1. stake' \in [Owners -> Nat]
    BY <1>5 DEF Withdraw, TypeOK
  <2>2. points' \in [Owners -> Nat] /\ selected' \subseteq Owners
    BY <1>5 DEF Withdraw, OnWithdraw, Displaced, Highest, Waiting, TypeOK
  <2>3. /\ subscribed' \subseteq Owners
        /\ missed' \in [Owners -> Nat]
        /\ lastSigned' \in [Owners -> Nat]
    BY <1>5, RemoveSubscribedTyped DEF Withdraw, OnWithdraw, tracking, TypeOK
  <2> QED
    BY <1>5, <2>1, <2>2, <2>3 DEF Withdraw, TypeOK
<1>6. ASSUME NEW o \in Owners, NEW signers \in SUBSET selected, NEW award \in Awards,
             Execution(o, signers, award)
      PROVE  TypeOK'
  <2>1. award \in Nat
    OBVIOUS
  <2>2. /\ missed' \in [Owners -> Nat]
        /\ lastSigned' \in [Owners -> Nat]
    BY <1>6 DEF Execution, ValidateExecution, RecordSignatures, TypeOK
  <2>3. points' \in [Owners -> Nat] /\ totalPoints' \in Nat
    BY <1>6, <2>1 DEF Execution, ValidateExecution, TypeOK
  <2> QED
    BY <1>6, <2>2, <2>3 DEF Execution, ValidateExecution, TypeOK, membership
<1>7. CASE SwitchRound
  <2>1. PICK removed \in Removals : ProcessAutoUnsubscribe(removed)
    BY <1>7 DEF SwitchRound
  <2>2. removed \subseteq Owners
    BY DEF Removals, DueForRemoval, Silent, TypeOK
  <2>3. /\ subscribed' \subseteq Owners
        /\ missed' \in [Owners -> Nat]
        /\ lastSigned' \in [Owners -> Nat]
        /\ autoUnsubscribed' \subseteq Owners
    BY <2>1, <2>2 DEF ProcessAutoUnsubscribe, CountMiss, TypeOK
  <2>4. selected' \subseteq Owners
    BY <1>7, <2>3 DEF SwitchRound, TopStaked
  <2> QED
    BY <1>7, <2>3, <2>4, StartRoundTyped DEF SwitchRound, TypeOK
<1>8. CASE Unregister
  BY <1>8, StartRoundTyped, RemoveSubscribedTyped DEF Unregister, TypeOK
<1>9. ASSUME NEW m \in 0..MaxMissed, SetMaxMissedSigRounds(m) PROVE TypeOK'
  BY <1>9 DEF SetMaxMissedSigRounds, TypeOK, membership, round, tracking
<1>10. CASE Tick
  BY <1>10 DEF Tick, TypeOK, membership, round, tracking
<1> QED
  BY <1>1, <1>2, <1>3, <1>4, <1>5, <1>6, <1>7, <1>8, <1>9, <1>10 DEF Next, OwnerStep

\* TypeOK is an invariant.
THEOREM TypeCorrect == Spec => []TypeOK
BY InitTypeOK, NextTypeOK, PTL DEF Spec

-----------------------------------------------------------------------------
(***************************************************************************)
(* The cardinalities the membership arguments need.                        *)
(***************************************************************************)

LEMMA MembersFinite ==
    ASSUME TypeOK
    PROVE  /\ IsFiniteSet(subscribed) /\ Cardinality(subscribed) \in Nat
           /\ IsFiniteSet(selected) /\ Cardinality(selected) \in Nat
BY OwnersAssumption, FS_Subset, FS_CardinalityType DEF TypeOK

\* A swap of one member for one outsider keeps the size of a set.
LEMMA SwapCardinality ==
    ASSUME NEW S, IsFiniteSet(S), NEW old \in S, NEW new, new \notin S
    PROVE  Cardinality((S \ {old}) \cup {new}) = Cardinality(S)
<1>1. IsFiniteSet(S \ {old}) /\ Cardinality(S \ {old}) = Cardinality(S) - 1
  BY FS_RemoveElement
<1>2. Cardinality((S \ {old}) \cup {new}) = Cardinality(S \ {old}) + 1
  BY <1>1, FS_AddElement
<1> QED
  BY <1>1, <1>2, FS_CardinalityType

\* sort returns maxOraclesPerRound subscribers, or all of them if they are fewer.
LEMMA TopStakedSize ==
    ASSUME NEW S, IsFiniteSet(S), NEW st, NEW n \in Nat, NEW T \in TopStaked(S, st, n)
    PROVE  /\ T \subseteq S
           /\ Cardinality(T) <= n
           /\ Cardinality(T) < n => T = S
<1>1. T \subseteq S /\ Cardinality(T) = AtMost(n, S)
  BY DEF TopStaked
<1>2. Cardinality(S) \in Nat
  BY FS_CardinalityType
<1>3. CASE Cardinality(S) < n
  <2>1. Cardinality(T) = Cardinality(S)
    BY <1>1, <1>3 DEF AtMost
  <2>2. T = S
    BY <1>1, <2>1, FS_Subset
  <2> QED
    BY <1>2, <1>3, <2>1, <2>2
<1>4. CASE ~(Cardinality(S) < n)
  BY <1>1, <1>4 DEF AtMost
<1> QED
  BY <1>3, <1>4

\* The members of a set that is cut down are among those it had.
LEMMA ShrinkCardinality ==
    ASSUME NEW S, IsFiniteSet(S), NEW T, T \subseteq S
    PROVE  IsFiniteSet(T) /\ Cardinality(T) <= Cardinality(S)
BY FS_Subset

-----------------------------------------------------------------------------
(***************************************************************************)
(* MembersStaked.  Stake only falls in a withdrawal, whose onWithdraw      *)
(* takes the owner out of both sets when it falls below the minimum;       *)
(* whoever enters the round comes from the subscribers.                    *)
(***************************************************************************)
LEMMA InitMembersStaked == Init => MembersStaked
BY DEF Init, MembersStaked

LEMMA NextMembersStaked == TypeOK /\ MembersStaked /\ [Next]_vars => MembersStaked'
<1> SUFFICES ASSUME TypeOK, MembersStaked, [Next]_vars PROVE MembersStaked'
  OBVIOUS
<1> USE DEF MembersStaked
<1>1. CASE UNCHANGED vars
  BY <1>1 DEF vars
<1>2. ASSUME NEW o \in Owners, Subscribe(o) PROVE MembersStaked'
  <2>1. subscribed' \subseteq subscribed \cup {o}
    BY <1>2 DEF Subscribe
  <2> QED
    BY <1>2, <2>1 DEF Subscribe
<1>3. ASSUME NEW o \in Owners, Unsubscribe(o) PROVE MembersStaked'
  BY <1>3 DEF Unsubscribe, RemoveSubscribed
<1>4. ASSUME NEW o \in Owners, Deposit(o) PROVE MembersStaked'
  <2>1. PICK s \in (stake[o] + 1)..MaxStake : stake' = [stake EXCEPT ![o] = s]
    BY <1>4 DEF Deposit
  <2>2. \A p \in Owners : stake'[p] >= stake[p]
    BY <2>1, BoundsAssumption DEF TypeOK
  <2> QED
    BY <1>4, <2>1, <2>2, ConfigAssumption DEF Deposit, membership, TypeOK
<1>5. ASSUME NEW o \in Owners, Withdraw(o) PROVE MembersStaked'
  <2>1. \A p \in Owners \ {o} : stake'[p] = stake[p]
    BY <1>5 DEF Withdraw, TypeOK
  <2>2. \A p \in subscribed' \cup selected' : p # o => p \in subscribed \cup selected
    BY <1>5 DEF Withdraw, OnWithdraw, Displaced, Highest, Waiting, RemoveSubscribed
  <2>3. BelowMinimum(o, stake') => o \notin subscribed' \cup selected'
    BY <1>5 DEF Withdraw, OnWithdraw, LosesSeat, Displaced, Highest, Waiting,
                RemoveSubscribed
  <2>4. stake' \in [Owners -> Nat]
    BY <1>5 DEF Withdraw, TypeOK
  <2>5. subscribed \cup selected \subseteq Owners
    BY DEF TypeOK
  <2>6. ASSUME NEW p \in subscribed' \cup selected' PROVE stake'[p] >= minCPSubscriptionStake
    <3>1. CASE p = o
      BY <2>3, <2>4, <2>6, <3>1, ConfigAssumption DEF BelowMinimum
    <3>2. CASE p # o
      BY <2>1, <2>2, <2>5, <3>2
    <3> QED
      BY <3>1, <3>2
  <2> QED
    BY <2>6
<1>6. ASSUME NEW o \in Owners, NEW signers \in SUBSET selected, NEW award \in Awards,
             Execution(o, signers, award)
      PROVE  MembersStaked'
  BY <1>6 DEF Execution, ValidateExecution, membership
<1>7. CASE SwitchRound
  <2>1. subscribed' \subseteq subscribed /\ selected' \subseteq subscribed'
    BY <1>7 DEF SwitchRound, ProcessAutoUnsubscribe, TopStaked
  <2> QED
    BY <1>7, <2>1 DEF SwitchRound
<1>8. CASE Unregister
  BY <1>8 DEF Unregister, RemoveSubscribed
<1>9. ASSUME NEW m \in 0..MaxMissed, SetMaxMissedSigRounds(m) PROVE MembersStaked'
  BY <1>9 DEF SetMaxMissedSigRounds, membership
<1>10. CASE Tick
  BY <1>10 DEF Tick, membership
<1> QED
  BY <1>1, <1>2, <1>3, <1>4, <1>5, <1>6, <1>7, <1>8, <1>9, <1>10 DEF Next, OwnerStep

\* No owner below the minimum stake is subscribed or sits in the round.
THEOREM MembersStakedInvariant == Spec => []MembersStaked
<1>1. TypeOK /\ MembersStaked /\ [Next]_vars => (TypeOK /\ MembersStaked)'
  BY NextTypeOK, NextMembersStaked
<1> QED
  BY <1>1, InitTypeOK, InitMembersStaked, PTL DEF Spec

-----------------------------------------------------------------------------
(***************************************************************************)
(* MembershipBounded and NoIdleSeat.  A withdrawal swaps one member of the *)
(* round for another, or empties a seat nobody waits for; a subscription   *)
(* takes a free seat or replaces one subscriber; closing the round seats   *)
(* as many subscribers as there are seats.                                 *)
(***************************************************************************)
LEMMA SubscribeSizes ==
    ASSUME TypeOK, NEW o \in Owners, Subscribe(o)
    PROVE  /\ subscribed' \subseteq subscribed \cup {o}
           /\ Cardinality(subscribed) <= maxSubscribedOraclesPerRound
                => Cardinality(subscribed') <= maxSubscribedOraclesPerRound
           /\ IsFull => selected' = selected
           /\ ~IsFull => /\ selected' = selected \cup {o}
                         /\ Cardinality(selected') <= maxOraclesPerRound
                         /\ Cardinality(selected) <= Cardinality(selected')
<1>1. /\ IsFiniteSet(subscribed) /\ Cardinality(subscribed) \in Nat
      /\ IsFiniteSet(selected) /\ Cardinality(selected) \in Nat
  BY MembersFinite
<1>2. PICK evicted \in Evictions(o) : subscribed' = (subscribed \ evicted) \cup {o}
  BY DEF Subscribe
<1>3. o \notin subscribed
  BY DEF Subscribe
<1>4. Cardinality(subscribed) <= maxSubscribedOraclesPerRound
        => Cardinality(subscribed') <= maxSubscribedOraclesPerRound
  <2>1. CASE Cardinality(subscribed) < maxSubscribedOraclesPerRound
    <3>1. subscribed' = subscribed \cup {o}
      BY <1>2, <2>1 DEF Evictions
    <3>2. Cardinality(subscribed') = Cardinality(subscribed) + 1
      BY <1>1, <1>3, <3>1, FS_AddElement
    <3> QED
      BY <1>1, <2>1, <3>2, ConfigAssumption
  <2>2. CASE ~(Cardinality(subscribed) < maxSubscribedOraclesPerRound)
    <3>1. PICK p \in subscribed : evicted = {p}
      BY <1>2, <2>2 DEF Evictions, Lowest
    <3>2. Cardinality(subscribed') = Cardinality(subscribed)
      BY <1>1, <1>2, <1>3, <3>1, SwapCardinality
    <3> QED
      BY <3>2
  <2> QED
    BY <2>1, <2>2
<1>5. IsFull => selected' = selected
  BY DEF Subscribe
<1>6. ASSUME ~IsFull
      PROVE  /\ selected' = selected \cup {o}
             /\ Cardinality(selected') <= maxOraclesPerRound
             /\ Cardinality(selected) <= Cardinality(selected')
  <2>1. selected' = selected \cup {o}
    BY <1>6 DEF Subscribe
  <2>2. Cardinality(selected') =
          IF o \in selected THEN Cardinality(selected) ELSE Cardinality(selected) + 1
    BY <1>1, <2>1, FS_AddElement
  <2> QED
    BY <1>1, <1>6, <2>1, <2>2, ConfigAssumption DEF IsFull
<1> QED
  BY <1>2, <1>4, <1>5, <1>6

LEMMA WithdrawSizes ==
    ASSUME TypeOK, NEW o \in Owners, Withdraw(o)
    PROVE  /\ subscribed' \subseteq subscribed
           /\ \/ selected' = selected
              \/ /\ Waiting # {}
                 /\ Cardinality(selected') = Cardinality(selected)
              \/ /\ Waiting = {}
                 /\ selected' = selected \ {o}
                 /\ BelowMinimum(o, stake')
<1>1. subscribed' \subseteq subscribed
  BY DEF Withdraw, OnWithdraw, RemoveSubscribed
<1>2. CASE LosesSeat(o, stake') /\ Waiting = {}
  BY <1>1, <1>2 DEF Withdraw, OnWithdraw, Displaced, LosesSeat
<1>3. CASE LosesSeat(o, stake') /\ Waiting # {}
  <2>1. PICK r \in Waiting : selected' = (selected \ {o}) \cup {r}
    BY <1>3 DEF Withdraw, OnWithdraw, Displaced, Highest
  <2>2. o \in selected /\ r \notin selected
    BY <1>3 DEF LosesSeat, Waiting
  <2>3. Cardinality(selected') = Cardinality(selected)
    BY <2>1, <2>2, MembersFinite, SwapCardinality
  <2> QED
    BY <1>1, <1>3, <2>3
<1>4. CASE ~LosesSeat(o, stake')
  BY <1>1, <1>4 DEF Withdraw, OnWithdraw
<1> QED
  BY <1>2, <1>3, <1>4

LEMMA InitSeats == Init => MembershipBounded /\ NoIdleSeat
BY ConfigAssumption, FS_EmptySet DEF Init, MembershipBounded, NoIdleSeat

LEMMA NextMembershipBounded ==
    TypeOK /\ MembershipBounded /\ [Next]_vars => MembershipBounded'
<1> SUFFICES ASSUME TypeOK, MembershipBounded, [Next]_vars PROVE MembershipBounded'
  OBVIOUS
<1> USE ConfigAssumption, MembersFinite DEF MembershipBounded
<1>1. CASE UNCHANGED vars
  BY <1>1 DEF vars
<1>2. ASSUME NEW o \in Owners, Subscribe(o) PROVE MembershipBounded'
  BY <1>2, SubscribeSizes
<1>3. ASSUME NEW o \in Owners, Unsubscribe(o) PROVE MembershipBounded'
  <2>1. Cardinality(subscribed') <= Cardinality(subscribed) /\ Cardinality(subscribed') \in Nat
    BY <1>3, ShrinkCardinality, FS_CardinalityType DEF Unsubscribe, RemoveSubscribed
  <2> QED
    BY <1>3, <2>1 DEF Unsubscribe
<1>4. ASSUME NEW o \in Owners, Deposit(o) PROVE MembershipBounded'
  BY <1>4 DEF Deposit, membership
<1>5. ASSUME NEW o \in Owners, Withdraw(o) PROVE MembershipBounded'
  <2>1. /\ Cardinality(subscribed') <= Cardinality(subscribed)
        /\ Cardinality(subscribed') \in Nat
    BY <1>5, WithdrawSizes, ShrinkCardinality, FS_CardinalityType
  <2>2. /\ Cardinality(selected') <= Cardinality(selected)
        /\ Cardinality(selected') \in Nat
    <3>1. \/ Cardinality(selected') = Cardinality(selected)
          \/ selected' = selected \ {o}
      BY <1>5, WithdrawSizes
    <3>2. /\ Cardinality(selected \ {o}) <= Cardinality(selected)
          /\ Cardinality(selected \ {o}) \in Nat
      BY ShrinkCardinality, FS_CardinalityType
    <3> QED
      BY <3>1, <3>2
  <2> QED
    BY <2>1, <2>2
<1>6. ASSUME NEW o \in Owners, NEW signers \in SUBSET selected, NEW award \in Awards,
             Execution(o, signers, award)
      PROVE  MembershipBounded'
  BY <1>6 DEF Execution, ValidateExecution, membership
<1>7. CASE SwitchRound
  <2>1. subscribed' \subseteq subscribed
    BY <1>7 DEF SwitchRound, ProcessAutoUnsubscribe
  <2>2. IsFiniteSet(subscribed') /\ Cardinality(subscribed') <= Cardinality(subscribed)
    BY <2>1, ShrinkCardinality
  <2>3. Cardinality(selected') <= maxOraclesPerRound
    BY <1>7, <2>2, TopStakedSize DEF SwitchRound
  <2> QED
    BY <2>2, <2>3, FS_CardinalityType
<1>8. CASE Unregister
  <2>1. subscribed' = {} /\ selected' = {}
    BY <1>8 DEF Unregister, RemoveSubscribed
  <2> QED
    BY <2>1, FS_EmptySet
<1>9. ASSUME NEW m \in 0..MaxMissed, SetMaxMissedSigRounds(m) PROVE MembershipBounded'
  BY <1>9 DEF SetMaxMissedSigRounds, membership
<1>10. CASE Tick
  BY <1>10 DEF Tick, membership
<1> QED
  BY <1>1, <1>2, <1>3, <1>4, <1>5, <1>6, <1>7, <1>8, <1>9, <1>10 DEF Next, OwnerStep

LEMMA NextNoIdleSeat == TypeOK /\ NoIdleSeat /\ [Next]_vars => NoIdleSeat'
<1> SUFFICES ASSUME TypeOK, NoIdleSeat, [Next]_vars PROVE NoIdleSeat'
  OBVIOUS
<1> USE ConfigAssumption, MembersFinite DEF NoIdleSeat
<1>1. CASE UNCHANGED vars
  BY <1>1 DEF vars
<1>2. ASSUME NEW o \in Owners, Subscribe(o) PROVE NoIdleSeat'
  <2>1. CASE IsFull
    BY <1>2, <2>1, SubscribeSizes DEF IsFull
  <2>2. CASE ~IsFull
    BY <1>2, <2>2, SubscribeSizes DEF IsFull
  <2> QED
    BY <2>1, <2>2
<1>3. ASSUME NEW o \in Owners, Unsubscribe(o) PROVE NoIdleSeat'
  BY <1>3 DEF Unsubscribe, RemoveSubscribed
<1>4. ASSUME NEW o \in Owners, Deposit(o) PROVE NoIdleSeat'
  BY <1>4 DEF Deposit, membership
<1>5. ASSUME NEW o \in Owners, Withdraw(o) PROVE NoIdleSeat'
  <2>1. CASE selected' = selected
    BY <1>5, <2>1, WithdrawSizes
  <2>2. CASE Waiting # {} /\ Cardinality(selected') = Cardinality(selected)
    BY <2>2 DEF Waiting
  <2>3. CASE Waiting = {} /\ selected' = selected \ {o} /\ BelowMinimum(o, stake')
    <3>1. subscribed' = subscribed \ {o}
      BY <1>5, <2>3 DEF Withdraw, OnWithdraw, RemoveSubscribed
    <3> QED
      BY <2>3, <3>1 DEF Waiting
  <2> QED
    BY <1>5, <2>1, <2>2, <2>3, WithdrawSizes
<1>6. ASSUME NEW o \in Owners, NEW signers \in SUBSET selected, NEW award \in Awards,
             Execution(o, signers, award)
      PROVE  NoIdleSeat'
  BY <1>6 DEF Execution, ValidateExecution, membership
<1>7. CASE SwitchRound
  <2>1. IsFiniteSet(subscribed')
    BY <1>7, ShrinkCardinality DEF SwitchRound, ProcessAutoUnsubscribe
  <2>2. Cardinality(selected') < maxOraclesPerRound => selected' = subscribed'
    BY <1>7, <2>1, TopStakedSize DEF SwitchRound
  <2> QED
    BY <2>2
<1>8. CASE Unregister
  BY <1>8 DEF Unregister, RemoveSubscribed
<1>9. ASSUME NEW m \in 0..MaxMissed, SetMaxMissedSigRounds(m) PROVE NoIdleSeat'
  BY <1>9 DEF SetMaxMissedSigRounds, membership
<1>10. CASE Tick
  BY <1>10 DEF Tick, membership
<1> QED
  BY <1>1, <1>2, <1>3, <1>4, <1>5, <1>6, <1>7, <1>8, <1>9, <1>10 DEF Next, OwnerStep

\* The round and the list of subscribers never exceed their limits.
THEOREM MembershipBoundedInvariant == Spec => []MembershipBounded
<1>1. TypeOK /\ MembershipBounded /\ [Next]_vars => (TypeOK /\ MembershipBounded)'
  BY NextTypeOK, NextMembershipBounded
<1> QED
  BY <1>1, InitTypeOK, InitSeats, PTL DEF Spec

\* A subscribed owner never waits beside an empty seat.
THEOREM NoIdleSeatInvariant == Spec => []NoIdleSeat
<1>1. TypeOK /\ NoIdleSeat /\ [Next]_vars => (TypeOK /\ NoIdleSeat)'
  BY NextTypeOK, NextNoIdleSeat
<1> QED
  BY <1>1, InitTypeOK, InitSeats, PTL DEF Spec

-----------------------------------------------------------------------------
(***************************************************************************)
(* PointsBacked.  Points are earned by owners in the round only, leaving   *)
(* the round deletes them, and a new round deletes those of all the        *)
(* owners that are in it.                                                  *)
(***************************************************************************)
LEMMA InitPointsBacked == Init => PointsBacked
BY DEF Init, PointsBacked

LEMMA StartRoundClearsPoints ==
    ASSUME TypeOK, PointsBacked, StartRound
    PROVE  totalPoints' = 0 /\ \A o \in Owners : points'[o] = 0
BY DEF TypeOK, PointsBacked, StartRound

LEMMA NextPointsBacked == TypeOK /\ PointsBacked /\ [Next]_vars => PointsBacked'
<1> SUFFICES ASSUME TypeOK, PointsBacked, [Next]_vars PROVE PointsBacked'
  OBVIOUS
<1> USE DEF PointsBacked
<1>1. CASE UNCHANGED vars
  BY <1>1 DEF vars
<1>2. ASSUME NEW o \in Owners, Subscribe(o) PROVE PointsBacked'
  BY <1>2 DEF Subscribe, round
<1>3. ASSUME NEW o \in Owners, Unsubscribe(o) PROVE PointsBacked'
  BY <1>3 DEF Unsubscribe, round
<1>4. ASSUME NEW o \in Owners, Deposit(o) PROVE PointsBacked'
  BY <1>4 DEF Deposit, membership, round
<1>5. ASSUME NEW o \in Owners, Withdraw(o) PROVE PointsBacked'
  <2>1. totalPoints' = totalPoints
    BY <1>5 DEF Withdraw
  <2>2. CASE UNCHANGED <<points, selected>>
    BY <2>1, <2>2
  <2>3. CASE Displaced(o, stake')
    <3>1. points' = [points EXCEPT ![o] = 0]
      BY <2>3 DEF Displaced
    <3>2. selected \ {o} \subseteq selected'
      BY <2>3 DEF Displaced
    <3> QED
      BY <2>1, <3>1, <3>2 DEF TypeOK
  <2> QED
    BY <1>5, <2>2, <2>3 DEF Withdraw, OnWithdraw
<1>6. ASSUME NEW o \in Owners, NEW signers \in SUBSET selected, NEW award \in Awards,
             Execution(o, signers, award)
      PROVE  PointsBacked'
  <2>1. award \in Nat
    BY ConfigAssumption
  <2> QED
    BY <1>6, <2>1 DEF Execution, ValidateExecution, membership, TypeOK
<1>7. CASE SwitchRound
  BY <1>7, StartRoundClearsPoints DEF SwitchRound
<1>8. CASE Unregister
  BY <1>8, StartRoundClearsPoints DEF Unregister
<1>9. ASSUME NEW m \in 0..MaxMissed, SetMaxMissedSigRounds(m) PROVE PointsBacked'
  BY <1>9 DEF SetMaxMissedSigRounds, membership, round
<1>10. CASE Tick
  BY <1>10 DEF Tick, membership, round
<1> QED
  BY <1>1, <1>2, <1>3, <1>4, <1>5, <1>6, <1>7, <1>8, <1>9, <1>10 DEF Next, OwnerStep

\* Only owners in the round hold points, at most those the round gave.
THEOREM PointsBackedInvariant == Spec => []PointsBacked
<1>1. TypeOK /\ PointsBacked /\ [Next]_vars => (TypeOK /\ PointsBacked)'
  BY NextTypeOK, NextPointsBacked
<1> QED
  BY <1>1, InitTypeOK, InitPointsBacked, PTL DEF Spec

\* Together the owners hold no more points than the round gave.
PointsWithinTotal == SumFunction(points) <= totalPoints

PointsInv == TypeOK /\ PointsBacked /\ PointsWithinTotal

LEMMA PointsSummed ==
    ASSUME TypeOK
    PROVE  /\ DOMAIN points = Owners
           /\ SumFunction(points) = SumFunctionOnSet(points, Owners)
           /\ SumFunction(points) \in Nat
<1> DEFINE f == points
<1>1. f \in [Owners -> Nat]
  BY DEF TypeOK
<1> HIDE DEF f
<1>2. SumFunctionOnSet(f, Owners) \in Nat
  BY <1>1, OwnersAssumption, SumNat
<1>3. DOMAIN f = Owners /\ SumFunction(f) = SumFunctionOnSet(f, Owners)
  BY <1>1 DEF SumFunction
<1> QED
  BY <1>2, <1>3 DEF f

LEMMA PointsSummedNext ==
    ASSUME TypeOK'
    PROVE  SumFunction(points)' = SumFunctionOnSet(points', Owners)
<1> DEFINE f == points'
<1>1. f \in [Owners -> Nat]
  BY DEF TypeOK
<1> HIDE DEF f
<1>2. SumFunction(f) = SumFunctionOnSet(f, Owners)
  BY <1>1 DEF SumFunction
<1> QED
  BY <1>2 DEF f

\* A step after which one owner has other points changes the sum by these.
LEMMA PointsOfOne ==
    ASSUME TypeOK, TypeOK', NEW o \in Owners, NEW n \in Nat,
           points' = [points EXCEPT ![o] = n]
    PROVE  SumFunction(points)' = SumFunction(points) - points[o] + n
<1> DEFINE f == points
           g == points'
<1>1. /\ \A i \in Owners : f[i] \in Nat
      /\ g[o] = n
      /\ \A i \in Owners \ {o} : g[i] = f[i]
  BY DEF TypeOK
<1> HIDE DEF f, g
<1>2. SumFunctionOnSet(g, Owners) = SumFunctionOnSet(f, Owners) - f[o] + g[o]
  BY <1>1, OwnersAssumption, SumChangeOne
<1> QED
  BY <1>1, <1>2, PointsSummed, PointsSummedNext DEF f, g

LEMMA InitPointsWithin == Init => PointsWithinTotal
<1> SUFFICES ASSUME Init PROVE PointsWithinTotal
  OBVIOUS
<1> DEFINE f == points
<1>1. \A i \in Owners : f[i] = 0
  BY DEF Init
<1> HIDE DEF f
<1>2. SumFunctionOnSet(f, Owners) = 0
  BY <1>1, OwnersAssumption, SumZero
<1>3. TypeOK /\ totalPoints = 0
  BY InitTypeOK DEF Init
<1> QED
  BY <1>2, <1>3, PointsSummed DEF f, PointsWithinTotal

LEMMA StartRoundPointsWithin ==
    ASSUME TypeOK, TypeOK', PointsBacked, StartRound
    PROVE  PointsWithinTotal'
<1> DEFINE f == points'
<1>1. totalPoints' = 0 /\ \A i \in Owners : f[i] = 0
  BY StartRoundClearsPoints
<1> HIDE DEF f
<1>2. SumFunctionOnSet(f, Owners) = 0
  BY <1>1, OwnersAssumption, SumZero
<1> QED
  BY <1>1, <1>2, PointsSummedNext DEF f, PointsWithinTotal

LEMMA NextPointsWithin == PointsInv /\ TypeOK' /\ [Next]_vars => PointsWithinTotal'
<1> SUFFICES ASSUME PointsInv, TypeOK', [Next]_vars PROVE PointsWithinTotal'
  OBVIOUS
<1>0. TypeOK /\ PointsBacked /\ PointsWithinTotal
  BY DEF PointsInv
<1>1. ASSUME UNCHANGED <<points, totalPoints>> PROVE PointsWithinTotal'
  BY <1>0, <1>1 DEF PointsWithinTotal
<1>2. CASE UNCHANGED vars
  BY <1>1, <1>2 DEF vars
<1>3. ASSUME NEW o \in Owners, Subscribe(o) \/ Unsubscribe(o) \/ Deposit(o)
      PROVE  PointsWithinTotal'
  BY <1>1, <1>3 DEF Subscribe, Unsubscribe, Deposit, round
<1>4. ASSUME NEW o \in Owners, Withdraw(o) PROVE PointsWithinTotal'
  <2>1. totalPoints' = totalPoints
    BY <1>4 DEF Withdraw
  <2>2. CASE UNCHANGED <<points, selected>>
    BY <1>1, <2>1, <2>2
  <2>3. CASE points' = [points EXCEPT ![o] = 0]
    <3>1. SumFunction(points)' = SumFunction(points) - points[o] + 0
      BY <1>0, <2>3, PointsOfOne
    <3>2. SumFunction(points) \in Nat /\ points[o] \in Nat /\ totalPoints \in Nat
      BY <1>0, PointsSummed DEF TypeOK
    <3> QED
      BY <1>0, <2>1, <3>1, <3>2 DEF PointsWithinTotal
  <2> QED
    BY <1>4, <2>2, <2>3 DEF Withdraw, OnWithdraw, Displaced
<1>5. ASSUME NEW o \in Owners, NEW signers \in SUBSET selected, NEW award \in Awards,
             Execution(o, signers, award)
      PROVE  PointsWithinTotal'
  <2>1. award \in Nat /\ points[o] \in Nat /\ totalPoints \in Nat
    BY <1>0, ConfigAssumption DEF TypeOK
  <2>2. /\ points' = [points EXCEPT ![o] = points[o] + award]
        /\ totalPoints' = totalPoints + award
    BY <1>5 DEF Execution
  <2>3. SumFunction(points)' = SumFunction(points) - points[o] + (points[o] + award)
    <3> DEFINE n == points[o] + award
    <3>1. n \in Nat /\ points' = [points EXCEPT ![o] = n]
      BY <2>1, <2>2
    <3> HIDE DEF n
    <3>2. SumFunction(points)' = SumFunction(points) - points[o] + n
      BY <1>0, <3>1, PointsOfOne
    <3> QED
      BY <3>2 DEF n
  <2>4. SumFunction(points) \in Nat
    BY <1>0, PointsSummed
  <2> QED
    BY <1>0, <2>1, <2>2, <2>3, <2>4 DEF PointsWithinTotal
<1>6. CASE SwitchRound
  BY <1>0, <1>6, StartRoundPointsWithin DEF SwitchRound
<1>7. CASE Unregister
  BY <1>0, <1>7, StartRoundPointsWithin DEF Unregister
<1>8. ASSUME NEW m \in 0..MaxMissed, SetMaxMissedSigRounds(m) PROVE PointsWithinTotal'
  BY <1>1, <1>8 DEF SetMaxMissedSigRounds, round
<1>9. CASE Tick
  BY <1>1, <1>9 DEF Tick, round
<1> QED
  BY <1>2, <1>3, <1>4, <1>5, <1>6, <1>7, <1>8, <1>9 DEF Next, OwnerStep

\* The shares of a round never exceed one: addPoints adds to the owner and to
\* the total, and what clears the total clears every owner.
THEOREM PointsNeverExceedRound == Spec => []PointsInv
<1>1. Init => PointsInv
  BY InitTypeOK, InitPointsBacked, InitPointsWithin DEF PointsInv
<1>2. PointsInv /\ [Next]_vars => PointsInv'
  BY NextTypeOK, NextPointsBacked, NextPointsWithin DEF PointsInv
<1> QED
  BY <1>1, <1>2, PTL DEF Spec

-----------------------------------------------------------------------------
(***************************************************************************)
(* Action properties.                                                      *)
(***************************************************************************)
LEMMA SeatStep ==
    ASSUME TypeOK, [Next]_vars, NEW p \in selected \ selected'
    PROVE  number' > number \/ Withdraw(p)
<1>1. CASE UNCHANGED vars
  BY <1>1 DEF vars
<1>2. ASSUME NEW o \in Owners, OwnerStep(o) PROVE Withdraw(p)
  <2>1. Withdraw(o)
    BY <1>2 DEF OwnerStep, Subscribe, Unsubscribe, Deposit, Execution, ValidateExecution, membership
  <2>2. selected \ {o} \subseteq selected'
    BY <2>1 DEF Withdraw, OnWithdraw, Displaced
  <2>3. p = o
    BY <2>2
  <2> QED
    BY <2>1, <2>3
<1>3. CASE SwitchRound \/ Unregister
  BY <1>3 DEF SwitchRound, Unregister, StartRound, TypeOK
<1>4. ASSUME NEW m \in 0..MaxMissed, SetMaxMissedSigRounds(m) PROVE FALSE
  BY <1>4 DEF SetMaxMissedSigRounds, membership
<1>5. CASE Tick
  BY <1>5 DEF Tick, membership
<1> QED
  BY <1>1, <1>2, <1>3, <1>4, <1>5 DEF Next

\* Within a round an owner loses its seat only by a withdrawal of its own.
THEOREM SeatLostByOwnWithdrawalHolds == Spec => SeatLostByOwnWithdrawal
<1>1. TypeOK /\ [Next]_vars
        => [\A o \in selected \ selected' : number' > number \/ Withdraw(o)]_vars
  BY SeatStep
<1> QED
  BY <1>1, TypeCorrect, PTL DEF Spec, SeatLostByOwnWithdrawal

-----------------------------------------------------------------------------
(***************************************************************************)
(* The history.  HistorySpec adds a variable to Spec and takes no step     *)
(* from it, so what holds of Spec holds of HistorySpec.                    *)
(***************************************************************************)
LEMMA HistoryStepIsNext == HistoryNext => Next
BY DEF HistoryNext, StakeStep, Next, OwnerStep

\* The history only watches.
THEOREM HistoryOnlyWatches == HistorySpec => Spec
<1>1. HistoryInit => Init
  BY DEF HistoryInit
<1>2. [HistoryNext]_historyVars => [Next]_vars
  BY HistoryStepIsNext DEF historyVars
<1> QED
  BY <1>1, <1>2, PTL DEF HistorySpec, Spec

(***************************************************************************)
(* MissesHeldSince.  The round is past the first that may be held against  *)
(* an owner unless the owner signed in it, and then lastSigned says so, so *)
(* the loop that closes the round adds no miss.  Whatever moves heldFrom   *)
(* up - a signature, a subscription, a removal - clears the misses too.    *)
(***************************************************************************)
HeldTyped == heldFrom \in [Owners -> Nat]

HeldNow(o) ==
    heldFrom[o] <= number \/ (heldFrom[o] = number + 1 /\ lastSigned[o] = number)

HistoryInv ==
    /\ TypeOK
    /\ HeldTyped
    /\ \A o \in Owners : HeldNow(o)
    /\ MissesHeldSince

LEMMA InitHistoryInv == HistoryInit => HistoryInv
<1> SUFFICES ASSUME HistoryInit PROVE HistoryInv
  OBVIOUS
<1>1. TypeOK
  BY InitTypeOK DEF HistoryInit
<1>2. /\ number = 1
      /\ \A o \in Owners : missed[o] = 0 /\ heldFrom[o] = 1
      /\ heldFrom = [o \in Owners |-> 1]
  BY DEF HistoryInit, Init
<1> QED
  BY <1>1, <1>2 DEF HistoryInv, HeldTyped, HeldNow, MissesHeldSince

\* What a step that counts no signature does to the tracking of an owner: a
\* subscription that begins or ends clears it, the closing of a round adds a
\* miss to an owner that did not sign in it, nothing else touches it.
TrackingCleared(o) == missed'[o] = 0 /\ lastSigned'[o] = 0
TrackingKept(o) == missed'[o] = missed[o] /\ lastSigned'[o] = lastSigned[o]
MissAdded(o) ==
    /\ number' = number + 1
    /\ lastSigned[o] # number
    /\ missed'[o] = missed[o] + 1 /\ lastSigned'[o] = lastSigned[o]
TrackingStep(o) ==
    IF o \in Turned THEN TrackingCleared(o) ELSE TrackingKept(o) \/ MissAdded(o)

\* The steps that count no signature.
QuietStep ==
    \/ \E o \in Owners : StakeStep(o)
    \/ SwitchRound
    \/ Unregister
    \/ \E m \in 0..MaxMissed : SetMaxMissedSigRounds(m)
    \/ Tick

LEMMA QuietIsNext == QuietStep => Next
BY DEF QuietStep, StakeStep, Next, OwnerStep

LEMMA ResetTrackingCases ==
    ASSUME TypeOK, NEW S, ResetTracking(S), NEW o \in Owners
    PROVE  IF o \in S THEN TrackingCleared(o) ELSE TrackingKept(o)
BY DEF ResetTracking, TypeOK, TrackingCleared, TrackingKept

LEMMA RemoveSubscribedTracking ==
    ASSUME TypeOK, NEW S, RemoveSubscribed(S), NEW o \in Owners
    PROVE  TrackingStep(o)
<1>1. o \in Turned <=> o \in S \cap subscribed
  BY DEF RemoveSubscribed, Turned
<1>2. ResetTracking(S \cap subscribed)
  BY DEF RemoveSubscribed
<1> QED
  BY <1>1, <1>2, ResetTrackingCases DEF TrackingStep

LEMMA NothingTracked ==
    ASSUME UNCHANGED <<subscribed, missed, lastSigned>>, NEW o \in Owners
    PROVE  TrackingStep(o)
BY DEF Turned, TrackingStep, TrackingKept

LEMMA QuietTracking ==
    ASSUME TypeOK, QuietStep, NEW p \in Owners
    PROVE  TrackingStep(p)
<1>1. ASSUME NEW o \in Owners, Subscribe(o) PROVE TrackingStep(p)
  <2>1. PICK evicted \in Evictions(o) :
            subscribed' = (subscribed \ evicted) \cup {o} /\ ResetTracking(evicted \cup {o})
    BY <1>1 DEF Subscribe
  <2>2. o \notin subscribed /\ evicted \subseteq subscribed
    BY <1>1, <2>1 DEF Subscribe, Evictions, Lowest
  <2>3. p \in Turned <=> p \in evicted \cup {o}
    BY <2>1, <2>2 DEF Turned
  <2> QED
    BY <2>1, <2>3, ResetTrackingCases DEF TrackingStep
<1>2. ASSUME NEW o \in Owners, Unsubscribe(o) PROVE TrackingStep(p)
  BY <1>2, RemoveSubscribedTracking DEF Unsubscribe
<1>3. ASSUME NEW o \in Owners, Deposit(o) PROVE TrackingStep(p)
  BY <1>3, NothingTracked DEF Deposit, membership, tracking
<1>4. ASSUME NEW o \in Owners, Withdraw(o) PROVE TrackingStep(p)
  <2>1. RemoveSubscribed({o}) \/ UNCHANGED <<subscribed, missed, lastSigned>>
    BY <1>4 DEF Withdraw, OnWithdraw, tracking
  <2> QED
    BY <2>1, RemoveSubscribedTracking, NothingTracked
<1>5. CASE SwitchRound
  <2>1. PICK removed \in Removals : ProcessAutoUnsubscribe(removed)
    BY <1>5 DEF SwitchRound
  <2>2. number' = number + 1
    BY <1>5 DEF SwitchRound, StartRound
  <2>3. p \in Turned <=> p \in removed \cap subscribed
    BY <2>1 DEF ProcessAutoUnsubscribe, Turned
  <2>4. CASE p \in removed \cap subscribed
    <3>1. missed'[p] = 0 /\ lastSigned'[p] = 0
      BY <2>1, <2>4 DEF ProcessAutoUnsubscribe
    <3> QED
      BY <2>3, <2>4, <3>1 DEF TrackingStep, TrackingCleared
  <2>5. CASE p \notin removed \cap subscribed
    <3>1. missed'[p] = CountMiss(p) /\ lastSigned'[p] = lastSigned[p]
      BY <2>1, <2>5 DEF ProcessAutoUnsubscribe
    <3>2. CASE AccountsMisses /\ p \in Silent
      <4>1. lastSigned[p] # number /\ missed'[p] = missed[p] + 1
        BY <3>1, <3>2 DEF Silent, CountMiss
      <4> QED
        BY <2>2, <2>3, <2>5, <3>1, <4>1 DEF TrackingStep, MissAdded
    <3>3. CASE ~(AccountsMisses /\ p \in Silent)
      <4>1. missed'[p] = missed[p]
        BY <3>1, <3>3 DEF CountMiss
      <4> QED
        BY <2>3, <2>5, <3>1, <4>1 DEF TrackingStep, TrackingKept
    <3> QED
      BY <3>2, <3>3
  <2> QED
    BY <2>4, <2>5
<1>6. CASE Unregister
  BY <1>6, RemoveSubscribedTracking DEF Unregister
<1>7. ASSUME NEW m \in 0..MaxMissed, SetMaxMissedSigRounds(m)
      PROVE  TrackingStep(p)
  BY <1>7, NothingTracked DEF SetMaxMissedSigRounds, membership, tracking
<1>8. CASE Tick
  BY <1>8, NothingTracked DEF Tick, membership, tracking
<1> QED
  BY <1>1, <1>2, <1>3, <1>4, <1>5, <1>6, <1>7, <1>8 DEF QuietStep, StakeStep

LEMMA QuietNumber == QuietStep => number' \in {number, number + 1}
BY DEF QuietStep, StakeStep, Subscribe, Unsubscribe, Deposit, Withdraw, SwitchRound, Unregister,
       StartRound, SetMaxMissedSigRounds, Tick, round

LEMMA ExecutionIsNext ==
    ASSUME NEW o \in Owners, NEW signers \in SUBSET selected, NEW award \in Awards,
           Execution(o, signers, award)
    PROVE  Next
BY DEF Next, OwnerStep

LEMMA ExecutionKeepsHistory ==
    ASSUME HistoryInv, NEW o \in Owners, NEW signers \in SUBSET selected,
           NEW award \in Awards, Execution(o, signers, award), Counted(signers)
    PROVE  HistoryInv'
<1>1. TypeOK /\ TypeOK'
  BY ExecutionIsNext, NextTypeOK DEF HistoryInv
<1>2. HeldTyped /\ HeldTyped'
  BY <1>1 DEF HistoryInv, Counted, HeldTyped, TypeOK
<1>3. number' = number
  BY DEF Execution
<1>4. ASSUME NEW p \in Owners
      PROVE  HeldNow(p)' /\ (missed'[p] > 0 => heldFrom'[p] + missed'[p] <= number')
  <2>1. CASE p \in signers
    <3>1. missed'[p] = 0 /\ lastSigned'[p] = number /\ heldFrom'[p] = number + 1
      BY <2>1 DEF Execution, ValidateExecution, RecordSignatures, Counted
    <3> QED
      BY <1>3, <3>1 DEF HeldNow
  <2>2. CASE p \notin signers
    <3>1. missed'[p] = missed[p] /\ lastSigned'[p] = lastSigned[p] /\ heldFrom'[p] = heldFrom[p]
      BY <2>2 DEF Execution, ValidateExecution, RecordSignatures, Counted
    <3> QED
      BY <1>3, <3>1 DEF HistoryInv, HeldNow, MissesHeldSince
  <2> QED
    BY <2>1, <2>2
<1> QED
  BY <1>1, <1>2, <1>4 DEF HistoryInv, MissesHeldSince

LEMMA TrackingStepKeepsHistory ==
    ASSUME HistoryInv, TypeOK', NoteTurned, number' \in {number, number + 1},
           \A p \in Owners : TrackingStep(p)
    PROVE  HistoryInv'
<1>1. /\ number \in Nat /\ number' \in Nat
      /\ missed \in [Owners -> Nat] /\ heldFrom \in [Owners -> Nat]
  BY DEF HistoryInv, HeldTyped, TypeOK
<1>2. HeldTyped'
  BY <1>1 DEF NoteTurned, HeldTyped
<1>3. ASSUME NEW p \in Owners
      PROVE  HeldNow(p)' /\ (missed'[p] > 0 => heldFrom'[p] + missed'[p] <= number')
  <2>1. HeldNow(p) /\ (missed[p] > 0 => heldFrom[p] + missed[p] <= number)
    BY DEF HistoryInv, MissesHeldSince
  <2>2. missed[p] \in Nat /\ heldFrom[p] \in Nat
    BY <1>1
  <2>3. CASE p \in Turned
    <3>1. missed'[p] = 0 /\ heldFrom'[p] = number'
      BY <2>3 DEF NoteTurned, TrackingStep, TrackingCleared
    <3> QED
      BY <1>1, <3>1 DEF HeldNow
  <2>4. CASE p \notin Turned
    <3>1. heldFrom'[p] = heldFrom[p] /\ (TrackingKept(p) \/ MissAdded(p))
      BY <2>4 DEF NoteTurned, TrackingStep
    <3>2. CASE TrackingKept(p)
      BY <1>1, <2>1, <2>2, <3>1, <3>2 DEF HeldNow, TrackingKept
    <3>3. CASE MissAdded(p)
      BY <1>1, <2>1, <2>2, <3>1, <3>3 DEF HeldNow, MissAdded
    <3> QED
      BY <3>1, <3>2, <3>3
  <2> QED
    BY <2>3, <2>4
<1> QED
  BY <1>2, <1>3 DEF HistoryInv, MissesHeldSince

LEMMA NextHistoryInv == HistoryInv /\ [HistoryNext]_historyVars => HistoryInv'
<1> SUFFICES ASSUME HistoryInv, [HistoryNext]_historyVars PROVE HistoryInv'
  OBVIOUS
<1>1. CASE UNCHANGED historyVars
  BY <1>1 DEF historyVars, vars, HistoryInv, TypeOK, HeldTyped, HeldNow, MissesHeldSince
<1>2. ASSUME NEW o \in Owners, NEW signers \in SUBSET selected, NEW award \in Awards,
             Execution(o, signers, award), Counted(signers)
      PROVE  HistoryInv'
  BY <1>2, ExecutionKeepsHistory
<1>3. CASE QuietStep /\ NoteTurned
  <2>1. Next /\ TypeOK /\ TypeOK'
    BY <1>3, QuietIsNext, NextTypeOK DEF HistoryInv
  <2> QED
    <3>1. TypeOK' /\ NoteTurned
      BY <1>3, <2>1
    <3>2. \A p \in Owners : TrackingStep(p)
      BY <1>3, <2>1, QuietTracking
    <3>3. number' \in {number, number + 1}
      BY <1>3, QuietNumber
    <3> QED
      BY <3>1, <3>2, <3>3, TrackingStepKeepsHistory
<1> QED
  BY <1>1, <1>2, <1>3 DEF HistoryNext, QuietStep

\* The misses of an owner are closed rounds, counted once each, since it last
\* signed or its subscription last began or ended.
THEOREM MissedInvariant == HistorySpec => []MissesHeldSince
<1>1. HistoryInv => MissesHeldSince
  BY DEF HistoryInv
<1> QED
  BY <1>1, InitHistoryInv, NextHistoryInv, PTL DEF HistorySpec

(***************************************************************************)
(* AutoUnsubscribeSpares.                                                  *)
(***************************************************************************)
\* The removal loop stops at the floor and takes due owners only.
LEMMA AutoUnsubscribeStep ==
    ASSUME HistoryInv, Next, autoUnsubscribed' # {}
    PROVE  /\ \A o \in autoUnsubscribed' : number + 1 - heldFrom[o] >= maxMissedSigRounds
           /\ Cardinality(subscribed') >= minOraclesPerRound + 1
<1> USE DEF HistoryInv
<1>1. SwitchRound
  BY DEF Next, OwnerStep, Subscribe, Unsubscribe, Deposit, Withdraw, Execution, ValidateExecution, Unregister,
         SetMaxMissedSigRounds, Tick
<1>2. PICK removed \in Removals : ProcessAutoUnsubscribe(removed)
  BY <1>1 DEF SwitchRound
<1>3. autoUnsubscribed' = removed /\ removed # {} /\ subscribed' = subscribed \ removed
  BY <1>2 DEF ProcessAutoUnsubscribe
<1>4. AccountsMisses
  BY <1>3 DEF Removals
<1>5. /\ removed \subseteq DueForRemoval
      /\ Cardinality(removed) = AtMost(Cardinality(subscribed) - SubscribedFloor, DueForRemoval)
  BY <1>4 DEF Removals
<1>6. ASSUME NEW o \in removed
      PROVE  number + 1 - heldFrom[o] >= maxMissedSigRounds
  <2>1. lastSigned[o] # number /\ missed[o] + 1 >= maxMissedSigRounds /\ o \in Owners
    BY <1>5 DEF DueForRemoval, Silent, TypeOK
  <2>2. HeldNow(o) /\ (missed[o] > 0 => heldFrom[o] + missed[o] <= number)
    BY <2>1 DEF MissesHeldSince
  <2>3. /\ number \in Nat /\ heldFrom[o] \in Nat /\ missed[o] \in Nat
        /\ maxMissedSigRounds \in Nat
    BY <2>1 DEF TypeOK, HeldTyped
  <2> QED
    BY <2>1, <2>2, <2>3 DEF HeldNow
<1>7. Cardinality(subscribed') >= minOraclesPerRound + 1
  <2>1. /\ IsFiniteSet(subscribed) /\ Cardinality(subscribed) \in Nat
        /\ IsFiniteSet(selected)
    BY MembersFinite
  <2>2. IsFiniteSet(DueForRemoval) /\ Cardinality(DueForRemoval) \in Nat
    BY <2>1, FS_Subset, FS_CardinalityType DEF DueForRemoval, Silent
  <2>3. IsFiniteSet(removed) /\ Cardinality(removed) \in Nat
    BY <1>5, <2>2, FS_Subset, FS_CardinalityType
  <2>4. Cardinality(removed) <= Cardinality(subscribed) - SubscribedFloor
    BY <1>5, <2>1, <2>2, ConfigAssumption DEF AtMost, SubscribedFloor
  <2>5. /\ Cardinality(subscribed \cap removed) <= Cardinality(removed)
        /\ Cardinality(subscribed \cap removed) \in Nat
    BY <2>3, FS_Intersection, FS_CardinalityType
  <2>6. Cardinality(subscribed') = Cardinality(subscribed) - Cardinality(subscribed \cap removed)
    BY <1>3, <2>1, FS_Difference
  <2> QED
    BY <2>1, <2>3, <2>4, <2>5, <2>6, ConfigAssumption DEF SubscribedFloor
<1> QED
  BY <1>3, <1>6, <1>7

\* The automatic unsubscription takes only owners against which enough rounds
\* may be held and leaves one subscriber more than a round needs.
THEOREM AutoUnsubscribeSparesHolds == HistorySpec => AutoUnsubscribeSpares
<1>1. HistoryInv /\ [HistoryNext]_historyVars
        => [autoUnsubscribed' # {} =>
              /\ \A o \in autoUnsubscribed' : number + 1 - heldFrom[o] >= maxMissedSigRounds
              /\ Cardinality(subscribed') >= minOraclesPerRound + 1]_historyVars
  BY AutoUnsubscribeStep, HistoryStepIsNext
<1> QED
  BY <1>1, InitHistoryInv, NextHistoryInv, PTL DEF HistorySpec, AutoUnsubscribeSpares

-----------------------------------------------------------------------------
(***************************************************************************)
(* RoundManager keeps the contract on memberships that OracleRegistry      *)
(* assumes of each coin pair: what OracleRegistry shows of any contracts   *)
(* that keep it is true of contracts/RoundManager.sol.                     *)
(***************************************************************************)
Members == Membership(subscribed, selected)

\* What each call of a coin pair may do to its members; the other calls, of
\* oracles that publish and of governance, leave them alone.
KeepsContract ==
    /\ \A o \in Owners :
          /\ Subscribe(o) => o \notin subscribed /\ Members' \in AfterSubscribe(Members, o)
          /\ Unsubscribe(o) => o \in subscribed /\ Members' = AfterUnsubscribe(Members, o)
          /\ Withdraw(o) => Members' \in AfterWithdraw(Members, o)
    /\ SwitchRound => Members' \in AfterSwitchRound(Members)
    /\ Unregister => Members' = NoMembers
    /\ \/ \E o \in Owners : Subscribe(o) \/ Unsubscribe(o) \/ Withdraw(o)
       \/ SwitchRound \/ Unregister
       \/ Members' = Members

LEMMA MembersAre == Members.subscribed = subscribed /\ Members.seated = selected
BY DEF Members, Membership

LEMMA SubscribeMembers ==
  ASSUME NEW o \in Owners, Subscribe(o)
  PROVE  o \notin subscribed /\ Members' \in AfterSubscribe(Members, o)
<1>1. PICK evicted \in Evictions(o) : subscribed' = (subscribed \ evicted) \cup {o}
  BY DEF Subscribe
<1>2. evicted \in AtMostOneOf(subscribed)
  <2>1. CASE evicted = {}
    BY <2>1 DEF AtMostOneOf
  <2>2. CASE evicted # {}
    <3>1. PICK p \in Lowest(subscribed, stake) : evicted = {p}
      BY <1>1, <2>2 DEF Evictions
    <3>2. p \in subscribed
      BY <3>1 DEF Lowest
    <3> QED
      BY <3>1, <3>2 DEF AtMostOneOf
  <2> QED
    BY <2>1, <2>2
<1>3. \E seat \in AtMostOneOf({o}) : selected' = selected \cup seat
  <2>1. {} \in AtMostOneOf({o}) /\ {o} \in AtMostOneOf({o})
    BY DEF AtMostOneOf
  <2>2. selected' = selected \cup {} \/ selected' = selected \cup {o}
    BY DEF Subscribe
  <2> QED
    BY <2>1, <2>2
<1>4. PICK seat \in AtMostOneOf({o}) : selected' = selected \cup seat
  BY <1>3
<1>5. Members' = Membership((Members.subscribed \ evicted) \cup {o}, Members.seated \cup seat)
  BY <1>1, <1>4, MembersAre DEF Members
<1>6. evicted \in AtMostOneOf(Members.subscribed)
  BY <1>2, MembersAre
<1>7. Members' \in AfterSubscribe(Members, o)
  <2>1. Members' \in {Membership((Members.subscribed \ e) \cup {o}, Members.seated \cup seat) :
                         e \in AtMostOneOf(Members.subscribed)}
    BY <1>5, <1>6
  <2> QED
    BY <1>4, <2>1 DEF AfterSubscribe
<1> QED
  BY <1>7 DEF Subscribe

LEMMA UnsubscribeMembers ==
  ASSUME NEW o \in Owners, Unsubscribe(o)
  PROVE  o \in subscribed /\ Members' = AfterUnsubscribe(Members, o)
BY DEF Unsubscribe, RemoveSubscribed, AfterUnsubscribe, Members, Membership

LEMMA WithdrawMembers ==
  ASSUME NEW o \in Owners, Withdraw(o)
  PROVE  Members' \in AfterWithdraw(Members, o)
<1>1. PICK gone \in AtMostOneOf({o}) :
         /\ subscribed' = subscribed \ gone
         /\ gone = IF BelowMinimum(o, stake') THEN {o} ELSE {}
  BY DEF Withdraw, OnWithdraw, RemoveSubscribed, AtMostOneOf
<1>2. CASE LosesSeat(o, stake')
  <2>1. o \in selected /\ Displaced(o, stake')
    BY <1>2 DEF Withdraw, OnWithdraw, LosesSeat
  <2>2. PICK next \in AtMostOneOf(subscribed \ selected) : selected' = (selected \ {o}) \cup next
    <3>1. CASE Waiting = {}
      BY <2>1, <3>1 DEF Displaced, AtMostOneOf
    <3>2. CASE Waiting # {}
      <4>1. PICK r \in Highest(Waiting, stake') : selected' = (selected \ {o}) \cup {r}
        BY <2>1, <3>2 DEF Displaced
      <4>2. r \in subscribed \ selected
        BY <4>1 DEF Highest, Waiting
      <4> QED
        BY <4>1, <4>2 DEF AtMostOneOf
    <3> QED
      BY <3>1, <3>2
  <2>3. Members' = Membership(Members.subscribed \ gone, (Members.seated \ {o}) \cup next)
    BY <1>1, <2>2, MembersAre DEF Members
  <2>4. next \in AtMostOneOf(Members.subscribed \ Members.seated) /\ o \in Members.seated
    BY <2>1, <2>2, MembersAre
  <2>5. Members' \in {Membership(Members.subscribed \ gone, (Members.seated \ {o}) \cup n) :
                         n \in AtMostOneOf(Members.subscribed \ Members.seated)}
    BY <2>3, <2>4
  <2>6. Members' \in AfterSeatLost(Members, o)
    <3>1. gone \in AtMostOneOf({o})
      BY <1>1
    <3>2. \A g \in AtMostOneOf({o}) :
             {Membership(Members.subscribed \ g, (Members.seated \ {o}) \cup n) :
                n \in AtMostOneOf(Members.subscribed \ Members.seated)} \subseteq AfterSeatLost(Members, o)
      BY DEF AfterSeatLost
    <3> QED
      BY <2>5, <3>1, <3>2
  <2> QED
    BY <2>4, <2>6 DEF AfterWithdraw
<1>3. CASE ~LosesSeat(o, stake')
  <2>1. selected' = selected
    BY <1>3 DEF Withdraw, OnWithdraw
  <2>2. o \in selected => ~BelowMinimum(o, stake')
    BY <1>3 DEF LosesSeat
  <2>3. CASE gone = {}
    <3>1. Members' = Members
      BY <1>1, <2>1, <2>3 DEF Members
    <3> QED
      BY <3>1 DEF AfterWithdraw
  <2>4. CASE gone = {o}
    <3>1. o \notin Members.seated
      BY <1>1, <2>2, <2>4, MembersAre
    <3>2. Members' = AfterUnsubscribe(Members, o)
      BY <1>1, <2>1, <2>4, MembersAre DEF Members, AfterUnsubscribe
    <3> QED
      BY <3>1, <3>2 DEF AfterWithdraw
  <2> QED
    BY <1>1, <2>3, <2>4
<1> QED
  BY <1>2, <1>3

LEMMA SwitchRoundMembers == SwitchRound => Members' \in AfterSwitchRound(Members)
<1> SUFFICES ASSUME SwitchRound PROVE Members' \in AfterSwitchRound(Members)
  OBVIOUS
<1>1. PICK removed \in Removals : subscribed' = subscribed \ removed
  BY DEF SwitchRound, ProcessAutoUnsubscribe
<1>2. removed \subseteq selected
  BY <1>1 DEF Removals, DueForRemoval, Silent
<1>3. selected' \subseteq subscribed \ removed
  BY <1>1 DEF SwitchRound, TopStaked
<1>4. Members' = Membership(Members.subscribed \ removed, selected')
  BY <1>1, MembersAre DEF Members
<1>5. Members' \in {Membership(Members.subscribed \ removed, seats) :
                       seats \in SUBSET (Members.subscribed \ removed)}
  BY <1>3, <1>4, MembersAre
<1>6. removed \in SUBSET Members.seated
  BY <1>2, MembersAre
<1> QED
  BY <1>5, <1>6 DEF AfterSwitchRound

LEMMA UnregisterMembers == Unregister => Members' = NoMembers
BY DEF Unregister, RemoveSubscribed, Members, NoMembers, Membership

\* Every call of a coin pair changes its subscribers and its seats as
\* OracleRegistry assumes: evictions cost no seat, a withdrawal seats nobody but
\* one that waited, a new round seats subscribers only.
THEOREM RoundsKeepTheContract == Spec => [][KeepsContract]_vars
<1>1. ASSUME Next PROVE KeepsContract
  <2>1. \/ \E o \in Owners : Subscribe(o) \/ Unsubscribe(o) \/ Withdraw(o)
        \/ SwitchRound \/ Unregister
        \/ Members' = Members
    BY <1>1 DEF Next, OwnerStep, Deposit, Execution, SetMaxMissedSigRounds, Tick, membership, Members
  <2> QED
    BY <2>1, SubscribeMembers, UnsubscribeMembers, WithdrawMembers, SwitchRoundMembers,
       UnregisterMembers DEF KeepsContract
<1> QED
  BY <1>1, PTL DEF Spec
=============================================================================
