------------------------ MODULE CoinPairPrice_proofs ------------------------
(***************************************************************************)
(* Theorems about CoinPairPrice.  The price feed only takes steps of       *)
(* RoundManager, so it inherits its invariants; the properties of the      *)
(* publications follow from FeedInv, which says that the storage remembers *)
(* the latest publication.                                                 *)
(***************************************************************************)
EXTENDS CoinPairPrice, RoundManager_proofs

-----------------------------------------------------------------------------
(***************************************************************************)
(* CoinPairPrice implements RoundManager.                                  *)
(***************************************************************************)

\* Whatever CoinPairPrice.sol adds to a transaction, what the transaction does
\* to the rounds is a step of RoundManager.sol or nothing.
LEMMA PriceStepIsRoundStep == [PriceNext]_<<vars, priceVars>> => [Next]_vars
<1> SUFFICES ASSUME [PriceNext]_<<vars, priceVars>> PROVE [Next]_vars
  OBVIOUS
<1>1. CASE UNCHANGED <<vars, priceVars>>
  BY <1>1
<1>2. ASSUME NEW o \in Owners, NEW signers \in SUBSET selected, NEW price \in Prices,
             NEW nonce \in 0..MaxBlock, PublishPrice(o, signers, price, nonce)
      PROVE  Next
  BY <1>2, PriceConfigAssumption DEF PublishPrice, Next, OwnerStep
<1>3. ASSUME NEW price \in Prices, EmergencyPublish(price) PROVE UNCHANGED vars
  BY <1>3 DEF EmergencyPublish
<1>4. ASSUME NEW mode \in QueryModes, SetPriceQueryMode(mode) PROVE UNCHANGED vars
  BY <1>4 DEF SetPriceQueryMode
<1>5. CASE CloseRound
  BY <1>5 DEF CloseRound, Next
<1>6. CASE PlainStep
  BY <1>6 DEF PlainStep, Next, OwnerStep
<1>7. CASE ReceiveFees
  BY <1>7 DEF ReceiveFees
<1>8. CASE NextBlock
  BY <1>8 DEF NextBlock, Next
<1> QED
  BY <1>1, <1>2, <1>3, <1>4, <1>5, <1>6, <1>7, <1>8 DEF PriceNext

\* The price feed implements the rounds: RoundManager is an abstract contract
\* and CoinPairPrice keeps what it promises.
THEOREM PriceImplementsRounds == PriceSpec => Spec
<1>1. PriceInit => Init
  BY DEF PriceInit
<1> QED
  BY <1>1, PriceStepIsRoundStep, PTL DEF PriceSpec, Spec

\* So the members of a live price feed have the minimum stake, their numbers
\* are bounded, no seat is idle and no points are stale.
THEOREM RoundsOfPriceFeed ==
    PriceSpec => [](MembersStaked /\ MembershipBounded /\ NoIdleSeat /\ PointsBacked)
BY PriceImplementsRounds, MembersStakedInvariant, MembershipBoundedInvariant,
   NoIdleSeatInvariant, PointsBackedInvariant, PTL

-----------------------------------------------------------------------------
(***************************************************************************)
(* Types.                                                                  *)
(***************************************************************************)

LEMMA PriceInitTypeOK == PriceInit => PriceTypeOK
BY InitTypeOK DEF PriceInit, PriceTypeOK, PriceQueryMode

\* Every transaction keeps the types of the storage, and no transaction
\* publishes the price 0.
LEMMA PriceNextTypeOK ==
    PriceTypeOK /\ [PriceNext]_<<vars, priceVars>> => PriceTypeOK'
<1> SUFFICES ASSUME PriceTypeOK, [PriceNext]_<<vars, priceVars>> PROVE PriceTypeOK'
  OBVIOUS
<1>1. TypeOK'
  BY PriceStepIsRoundStep, NextTypeOK DEF PriceTypeOK
<1>2. CASE UNCHANGED <<vars, priceVars>>
  BY <1>1, <1>2 DEF PriceTypeOK, priceVars, feed
<1>3. ASSUME NEW o \in Owners, NEW signers \in SUBSET selected, NEW price \in Prices,
             NEW nonce \in 0..MaxBlock, PublishPrice(o, signers, price, nonce)
      PROVE  PriceTypeOK'
  BY <1>1, <1>3, PriceConfigAssumption, PriceBoundsAssumption
     DEF PublishPrice, Publish, PriceTypeOK
<1>4. ASSUME NEW price \in Prices, EmergencyPublish(price) PROVE PriceTypeOK'
  BY <1>1, <1>4, PriceConfigAssumption DEF EmergencyPublish, Publish, PriceTypeOK
<1>5. ASSUME NEW mode \in QueryModes, SetPriceQueryMode(mode) PROVE PriceTypeOK'
  BY <1>1, <1>5, PriceConfigAssumption
     DEF SetPriceQueryMode, feed, PriceTypeOK, PriceQueryMode
<1>6. CASE CloseRound
  BY <1>1, <1>6 DEF CloseRound, DistributeRewards, feed, PriceTypeOK
<1>7. CASE PlainStep
  BY <1>1, <1>7 DEF PlainStep, priceVars, feed, PriceTypeOK
<1>8. CASE ReceiveFees
  BY <1>1, <1>8, PriceBoundsAssumption DEF ReceiveFees, feed, PriceTypeOK
<1>9. CASE NextBlock
  BY <1>1, <1>9 DEF NextBlock, feed, PriceTypeOK
<1> QED
  BY <1>2, <1>3, <1>4, <1>5, <1>6, <1>7, <1>8, <1>9 DEF PriceNext

\* The storage of CoinPairPrice is typed and only the bootstrap price can be 0.
THEOREM PriceTypeCorrect == PriceSpec => []PriceTypeOK
BY PriceInitTypeOK, PriceNextTypeOK, PTL DEF PriceSpec

-----------------------------------------------------------------------------
(***************************************************************************)
(* Publications.                                                           *)
(***************************************************************************)

\* The storage remembers the latest publication, and it is not in the future.
LatestKept ==
    /\ lastPublicationBlock \in Published
    /\ \A b \in Published : b <= lastPublicationBlock
    /\ lastPublicationBlock <= blockNumber

FeedInv == LatestKept /\ NothingPublishedBetween /\ EmergencyAfterSilence

LEMMA PublishedTyped == PriceTypeOK => Published \subseteq Nat
<1> SUFFICES ASSUME PriceTypeOK PROVE Published \subseteq Nat
  OBVIOUS
<1>1. \A c \in Nat \X Nat : c[2] \in Nat
  OBVIOUS
<1>2. consensus \subseteq Nat \X Nat /\ emergencies \subseteq Nat
  BY DEF PriceTypeOK
<1>3. \A c \in consensus : c[2] \in Nat
  BY <1>1, <1>2
<1>4. {c[2] : c \in consensus} \subseteq Nat
  <2> SUFFICES ASSUME NEW b \in {c[2] : c \in consensus} PROVE b \in Nat
    OBVIOUS
  <2>1. PICK c \in consensus : b = c[2]
    OBVIOUS
  <2> QED
    BY <1>3, <2>1
<1>5. \A S \in SUBSET Nat : {0} \cup emergencies \cup S \subseteq Nat
  BY <1>2
<1> QED
  BY <1>4, <1>5 DEF Published

\* Steps that publish nothing keep FeedInv.
LEMMA FeedInvQuiet ==
    ASSUME PriceTypeOK, FeedInv, UNCHANGED feed, blockNumber' \in Nat, blockNumber' >= blockNumber
    PROVE  FeedInv'
BY PublishedTyped
   DEF FeedInv, LatestKept, NothingPublishedBetween, EmergencyAfterSilence, Published, feed,
       PriceTypeOK

\* A publication signed for the latest one has nothing in between.
LEMMA FeedInvPublishPrice ==
    ASSUME PriceTypeOK, FeedInv,
           NEW o \in Owners, NEW signers \in SUBSET selected, NEW price \in Prices,
           NEW nonce \in 0..MaxBlock, PublishPrice(o, signers, price, nonce)
    PROVE  FeedInv'
<1>1. /\ nonce = lastPublicationBlock
      /\ lastPublicationBlock' = blockNumber
      /\ blockNumber' = blockNumber
      /\ emergencies' = emergencies
      /\ consensus' = consensus \cup {<<lastPublicationBlock, blockNumber>>}
  BY DEF PublishPrice, Publish
<1>2. Published' = Published \cup {blockNumber}
  <2> DEFINE new == <<lastPublicationBlock, blockNumber>>
  <2>1. new[2] = blockNumber
    OBVIOUS
  <2>2. {c[2] : c \in consensus \cup {new}} = {c[2] : c \in consensus} \cup {new[2]}
    OBVIOUS
  <2> QED
    BY <1>1, <2>1, <2>2 DEF Published
<1>3. /\ blockNumber \in Nat /\ lastPublicationBlock \in Nat
      /\ Published \subseteq Nat /\ emergencies \subseteq Nat /\ consensus \subseteq Nat \X Nat
      /\ \A c \in consensus : c[2] \in Published
      /\ emergencies \subseteq Published
  BY PublishedTyped DEF PriceTypeOK, Published
<1>4. LatestKept'
  BY <1>1, <1>2, <1>3 DEF FeedInv, LatestKept
<1>5. NothingPublishedBetween'
  <2> SUFFICES ASSUME NEW c \in consensus', NEW b \in Published'
               PROVE  c[1] <= c[2] /\ ~(c[1] < b /\ b < c[2])
    BY <1>2 DEF NothingPublishedBetween
  <2>1. CASE c = <<lastPublicationBlock, blockNumber>>
    BY <1>2, <1>3, <2>1 DEF FeedInv, LatestKept
  <2>2. CASE c \in consensus
    BY <1>2, <1>3, <2>2 DEF FeedInv, LatestKept, NothingPublishedBetween
  <2> QED
    BY <1>1, <2>1, <2>2
<1>6. EmergencyAfterSilence'
  BY <1>1, <1>2, <1>3 DEF FeedInv, LatestKept, EmergencyAfterSilence
<1> QED
  BY <1>4, <1>5, <1>6 DEF FeedInv

\* An emergency publication comes late enough after the latest one.
LEMMA FeedInvEmergencyPublish ==
    ASSUME PriceTypeOK, FeedInv, NEW price \in Prices, EmergencyPublish(price)
    PROVE  FeedInv'
<1>1. /\ blockNumber > lastPublicationBlock + emergencyPublishingPeriodInBlocks
      /\ lastPublicationBlock' = blockNumber
      /\ blockNumber' = blockNumber
      /\ consensus' = consensus
      /\ emergencies' = emergencies \cup {blockNumber}
  BY DEF EmergencyPublish, Publish
<1>2. Published' = Published \cup {blockNumber}
  BY <1>1 DEF Published
<1>3. /\ blockNumber \in Nat /\ lastPublicationBlock \in Nat
      /\ Published \subseteq Nat /\ emergencies \subseteq Nat /\ consensus \subseteq Nat \X Nat
      /\ \A c \in consensus : c[2] \in Published
      /\ emergencies \subseteq Published
      /\ emergencyPublishingPeriodInBlocks \in Nat
  BY PublishedTyped, PriceConfigAssumption DEF PriceTypeOK, Published
<1>4. LatestKept'
  BY <1>1, <1>2, <1>3 DEF FeedInv, LatestKept
<1>5. NothingPublishedBetween'
  BY <1>1, <1>2, <1>3 DEF FeedInv, LatestKept, NothingPublishedBetween
<1>6. EmergencyAfterSilence'
  BY <1>1, <1>2, <1>3 DEF FeedInv, LatestKept, EmergencyAfterSilence
<1> QED
  BY <1>4, <1>5, <1>6 DEF FeedInv

LEMMA FeedInvInit == PriceInit => FeedInv
BY DEF PriceInit, FeedInv, LatestKept, NothingPublishedBetween, EmergencyAfterSilence, Published

LEMMA FeedInvStep ==
    PriceTypeOK /\ FeedInv /\ [PriceNext]_<<vars, priceVars>> => FeedInv'
<1> SUFFICES ASSUME PriceTypeOK, FeedInv, [PriceNext]_<<vars, priceVars>> PROVE FeedInv'
  OBVIOUS
<1>1. blockNumber \in Nat
  BY DEF PriceTypeOK
<1>2. CASE UNCHANGED <<vars, priceVars>>
  BY <1>1, <1>2, FeedInvQuiet DEF priceVars
<1>3. ASSUME NEW mode \in QueryModes, SetPriceQueryMode(mode) PROVE FeedInv'
  BY <1>1, <1>3, FeedInvQuiet DEF SetPriceQueryMode
<1>4. CASE CloseRound
  BY <1>1, <1>4, FeedInvQuiet DEF CloseRound
<1>5. CASE PlainStep
  BY <1>1, <1>5, FeedInvQuiet DEF PlainStep, priceVars
<1>6. CASE ReceiveFees
  BY <1>1, <1>6, FeedInvQuiet DEF ReceiveFees
<1>7. CASE NextBlock
  BY <1>1, <1>7, FeedInvQuiet DEF NextBlock
<1> QED
  BY <1>2, <1>3, <1>4, <1>5, <1>6, <1>7, FeedInvPublishPrice, FeedInvEmergencyPublish
     DEF PriceNext

LEMMA FeedInvariant == PriceSpec => [](PriceTypeOK /\ FeedInv)
BY PriceTypeCorrect, FeedInvInit, FeedInvStep, PTL DEF PriceSpec

\* The nonce of publishPrice orders publications: between the block a message
\* was signed for and the block that executes it nothing was published.
THEOREM NothingPublishedBetweenHolds == PriceSpec => []NothingPublishedBetween
BY FeedInvariant, PTL DEF FeedInv

\* emergencyPublish waits for a silence of both kinds of publication.
THEOREM EmergencyAfterSilenceHolds == PriceSpec => []EmergencyAfterSilence
BY FeedInvariant, PTL DEF FeedInv

\* What peek, getIsValid and getPriceInfo report is the freshness of the
\* latest publication, and they never fail on their own requirement.
THEOREM ValidPriceIsRecentHolds == PriceSpec => []ValidPriceIsRecent
<1>1. PriceTypeOK /\ FeedInv => ValidPriceIsRecent
  BY PublishedTyped, PriceConfigAssumption
     DEF FeedInv, LatestKept, ValidPriceIsRecent, QueryAnswers, PriceValidity, PriceTypeOK
<1> QED
  BY <1>1, FeedInvariant, PTL

-----------------------------------------------------------------------------
(***************************************************************************)
(* Rewards.  Every share is rounded down and the points of a round add up  *)
(* to at most its total, so the shares add up to at most the tokens.       *)
(***************************************************************************)
LEMMA PayoutWithinFees ==
    ASSUME PointsInv, rewardFees \in Nat
    PROVE  Payout \in Nat /\ Payout <= rewardFees
<1> DEFINE f == points
           g == [o \in Owners |-> Reward(o)]
           D == {o \in selected : points[o] > 0}
           t == totalPoints
           fees == rewardFees
<1>1. CASE totalPoints = 0
  BY <1>1 DEF Payout
<1>2. CASE totalPoints # 0
  <2>1. /\ t \in Nat \ {0} /\ fees \in Nat
        /\ \A o \in Owners : f[o] \in Nat
        /\ D \in SUBSET Owners
    BY <1>2 DEF PointsInv, TypeOK
  <2>2. \A o \in Owners : g[o] = (f[o] * fees) \div t
    BY DEF Reward
  <2>3. SumFunctionOnSet(f, Owners) <= t
    BY PointsSummed DEF PointsInv, PointsWithinTotal
  <2>4. Payout = SumFunctionOnSet(g, D)
    BY <1>2 DEF Payout
  <2> HIDE DEF f, g, D, t, fees
  <2>5. ASSUME NEW o \in Owners
        PROVE  g[o] \in Nat /\ g[o] <= (f[o] * fees) \div t
    <3>1. f[o] * fees \in Nat
      BY <2>1, ProductNat
    <3>2. (f[o] * fees) \div t \in Nat
      BY <2>1, <3>1, Quotient
    <3> QED
      BY <2>2, <3>2
  <2>6. SumFunctionOnSet(g, D) \in Nat /\ SumFunctionOnSet(g, D) <= fees
    BY <2>1, <2>3, <2>5, OwnersAssumption, SharesWithin
  <2> QED
    BY <2>4, <2>6 DEF fees
<1> QED
  BY <1>1, <1>2

\* _distributeRewards never fails for want of tokens, whatever withdrawals,
\* replacements and forfeited points the round has seen.
THEOREM RewardsAffordableHolds == PriceSpec => []RewardsAffordable
<1>1. PointsInv /\ PriceTypeOK => RewardsAffordable
  BY PayoutWithinFees DEF PriceTypeOK, RewardsAffordable
<1> QED
  BY <1>1, PriceImplementsRounds, PointsNeverExceedRound, PriceTypeCorrect, PTL
=============================================================================
