--------------------------- MODULE CoinPairPrice ----------------------------
(***************************************************************************)
(* The price feed of one coin pair: contracts/CoinPairPrice.sol on top of  *)
(* the rounds of RoundManager.  It adds the published price and its age in *)
(* blocks, the block number that serves as a nonce of signed messages, the *)
(* emergency publication, the forced query mode, and the rewards of a      *)
(* closing round (RoundManager's _distributeRewards, which CoinPairPrice   *)
(* does not override).                                                     *)
(*                                                                         *)
(* Oracles sign <price, voted oracle, block number> off chain.  Nothing    *)
(* limits what they sign, so a publication may carry any signatures.       *)
(***************************************************************************)
EXTENDS RoundManager, Functions

CONSTANTS
    Prices,                 \* the prices somebody tries to publish
    QueryModes,             \* the query modes somebody sets
    validPricePeriodInBlocks,
    emergencyPublishingPeriodInBlocks,
    MaxBlock,               \* bounds: block numbers,
    MaxFees                 \* reward tokens in the contract

ASSUME PriceConfigAssumption ==
    /\ Prices \subseteq Nat
    /\ QueryModes \subseteq {"Ok", "Invalid", "Revert"}
    /\ 1 \in Awards
    /\ validPricePeriodInBlocks \in Nat \ {0}
    /\ emergencyPublishingPeriodInBlocks \in Nat \ {0}

ASSUME PriceBoundsAssumption == MaxBlock \in Nat /\ MaxFees \in Nat

VARIABLES
    blockNumber,            \* block.number
    lastPublicationBlock,
    currentPrice,
    priceQueryMode,
    rewardFees,             \* token.balanceOf(this)
    consensus,              \* history: <<signed block number, block>> of publishPrice
    emergencies             \* history: blocks of emergencyPublish

feed      == <<lastPublicationBlock, currentPrice, consensus, emergencies>>
priceVars == <<blockNumber, feed, priceQueryMode, rewardFees>>

PriceQueryMode == {"Ok", "Invalid", "Revert"}

-----------------------------------------------------------------------------
(***************************************************************************)
(* Rewards.                                                                *)
(***************************************************************************)

\* Faulty variant of Reward: rounded up.
RewardRoundedUp(o) == (points[o] * rewardFees + totalPoints - 1) \div totalPoints

\* distAmount of an owner in the closing round: its share, rounded down.
Reward(o) == (points[o] * rewardFees) \div totalPoints

\* What _distributeRewards transfers in all.
Payout ==
    IF totalPoints = 0
    THEN 0
    ELSE SumFunctionOnSet([o \in Owners |-> Reward(o)], {o \in selected : points[o] > 0})

\* A transfer the balance does not cover fails, and the round does not close.
DistributeRewards ==
    \E paid \in 0..rewardFees : paid = Payout /\ rewardFees' = rewardFees - paid

-----------------------------------------------------------------------------
(***************************************************************************)
(* Publications.                                                           *)
(***************************************************************************)

\* _publish
Publish(price) ==
    /\ lastPublicationBlock' = blockNumber
    /\ currentPrice' = price

\* Faulty variant of PublishPrice: any past block will do for a nonce.
PublishPriceOfPast(o, signers, price, nonce) ==
    /\ price > 0
    /\ nonce <= blockNumber
    /\ Execution(o, signers, 1)
    /\ Publish(price)
    /\ consensus' = consensus \cup {<<nonce, blockNumber>>}
    /\ UNCHANGED <<blockNumber, emergencies, priceQueryMode, rewardFees>>

\* publishPrice, with a message signed for block number nonce.
PublishPrice(o, signers, price, nonce) ==
    /\ price > 0
    /\ nonce = lastPublicationBlock
    /\ Execution(o, signers, 1)
    /\ Publish(price)
    /\ consensus' = consensus \cup {<<nonce, blockNumber>>}
    /\ UNCHANGED <<blockNumber, emergencies, priceQueryMode, rewardFees>>

\* Faulty variants of EmergencyPublish: without the test of the price, and one
\* block too early.
EmergencyPublishZero(price) ==
    /\ blockNumber > lastPublicationBlock + emergencyPublishingPeriodInBlocks
    /\ Publish(price)
    /\ emergencies' = emergencies \cup {blockNumber}
    /\ UNCHANGED <<vars, blockNumber, consensus, priceQueryMode, rewardFees>>

EmergencyPublishEarly(price) ==
    /\ price > 0
    /\ blockNumber >= lastPublicationBlock + emergencyPublishingPeriodInBlocks
    /\ Publish(price)
    /\ emergencies' = emergencies \cup {blockNumber}
    /\ UNCHANGED <<vars, blockNumber, consensus, priceQueryMode, rewardFees>>

\* A whitelisted account publishes without signatures.
EmergencyPublish(price) ==
    /\ price > 0
    /\ blockNumber > lastPublicationBlock + emergencyPublishingPeriodInBlocks
    /\ Publish(price)
    /\ emergencies' = emergencies \cup {blockNumber}
    /\ UNCHANGED <<vars, blockNumber, consensus, priceQueryMode, rewardFees>>

\* Governance or a whitelisted account.
SetPriceQueryMode(mode) ==
    /\ priceQueryMode' = mode
    /\ UNCHANGED <<vars, blockNumber, feed, rewardFees>>

\* Faulty variant of PriceValidity: valid for one more block.
PriceValidityInclusive ==
    priceQueryMode = "Ok" /\ blockNumber - lastPublicationBlock <= validPricePeriodInBlocks

\* _getPriceValidity, for the modes that answer.
PriceValidity ==
    priceQueryMode = "Ok" /\ blockNumber - lastPublicationBlock < validPricePeriodInBlocks

\* getPriceInfo in mode Ok requires this first.
QueryAnswers == blockNumber >= lastPublicationBlock

-----------------------------------------------------------------------------
CloseRound ==
    /\ SwitchRound \/ Unregister
    /\ DistributeRewards
    /\ UNCHANGED <<blockNumber, feed, priceQueryMode>>

\* The steps of RoundManager that the price feed does not add anything to.
PlainStep ==
    /\ \/ \E o \in Owners : Subscribe(o) \/ Unsubscribe(o) \/ Deposit(o) \/ Withdraw(o)
       \/ \E m \in 0..MaxMissed : SetMaxMissedSigRounds(m)
    /\ UNCHANGED priceVars

\* Somebody sends reward tokens to the contract.
ReceiveFees ==
    /\ \E fees \in (rewardFees + 1)..MaxFees : rewardFees' = fees
    /\ UNCHANGED <<vars, blockNumber, feed, priceQueryMode>>

\* The next block has a later timestamp, as far as RoundManager follows time.
NextBlock ==
    /\ blockNumber < MaxBlock
    /\ blockNumber' = blockNumber + 1
    /\ Tick \/ (IsReadyToSwitch /\ UNCHANGED vars)
    /\ UNCHANGED <<feed, priceQueryMode, rewardFees>>

\* initialize publishes the bootstrap price.
PriceInit ==
    /\ Init
    /\ blockNumber = 0
    /\ lastPublicationBlock = 0
    /\ currentPrice \in Prices
    /\ priceQueryMode = "Ok"
    /\ rewardFees = 0
    /\ consensus = {}
    /\ emergencies = {}

PriceNext ==
    \/ \E o \in Owners, signers \in SUBSET selected, price \in Prices, nonce \in 0..MaxBlock :
          PublishPrice(o, signers, price, nonce)
    \/ \E price \in Prices : EmergencyPublish(price)
    \/ \E mode \in QueryModes : SetPriceQueryMode(mode)
    \/ CloseRound
    \/ PlainStep
    \/ ReceiveFees
    \/ NextBlock

PriceSpec == PriceInit /\ [][PriceNext]_<<vars, priceVars>>

-----------------------------------------------------------------------------
(***************************************************************************)
(* Properties.                                                             *)
(***************************************************************************)

\* The blocks with a publication; block 0 has the bootstrap price.
Published == {0} \cup emergencies \cup {c[2] : c \in consensus}

\* Types.  Only the bootstrap price, which initialize does not check, can be 0.
PriceTypeOK ==
    /\ TypeOK
    /\ blockNumber \in Nat
    /\ lastPublicationBlock \in Nat
    /\ currentPrice \in Prices
    /\ consensus # {} \/ emergencies # {} => currentPrice > 0
    /\ priceQueryMode \in PriceQueryMode
    /\ rewardFees \in Nat
    /\ consensus \subseteq Nat \X Nat
    /\ emergencies \subseteq Nat

\* The block number in a signed message protects from replays (the comment of
\* CoinPairPrice.sol:99): between the block a message was signed for and the
\* block it is executed in, nothing else was published, in either way.
NothingPublishedBetween ==
    \A c \in consensus : c[1] <= c[2] /\ \A b \in Published : ~(c[1] < b /\ b < c[2])

\* An emergency publication comes after more than the emergency period with
\* no publication at all, of its own kind included.
EmergencyAfterSilence ==
    \A e \in emergencies, b \in Published :
        b < e => e - b > emergencyPublishingPeriodInBlocks

\* Unless a query mode is forced, the price is reported valid exactly when
\* something was published less than validPricePeriodInBlocks ago, and the
\* query never fails on a publication block in the future.
ValidPriceIsRecent ==
    priceQueryMode = "Ok" =>
        /\ QueryAnswers
        /\ PriceValidity <=> \E b \in Published : blockNumber - b < validPricePeriodInBlocks

\* The tokens in the contract always cover the rewards of the round: points
\* are forfeited, carried and cleared so that the shares never exceed one.
RewardsAffordable == Payout <= rewardFees
=============================================================================
