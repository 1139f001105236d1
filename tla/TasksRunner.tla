----------------------------- MODULE TasksRunner -----------------------------
(***************************************************************************)
(* contracts/TasksRunner.sol: the second kind of RoundManager, which runs  *)
(* the tasks of other contracts instead of publishing a price.             *)
(*                                                                         *)
(* A run is one transaction, but it calls contracts that may call back:    *)
(* between the validation of the runner and its points, a task may close   *)
(* the round (TaskSwitchRoundCoinPair with this contract for coin pair).   *)
(* calls is the call in progress; nothing but its tasks happens meanwhile. *)
(*                                                                         *)
(* Which messages are still good is as in CoinPairPrice (the block of the  *)
(* last execution is their nonce); here any signers may have signed any    *)
(* flags.                                                                  *)
(*                                                                         *)
(* A closing round first gives back, in tokens, what the oracles spent on  *)
(* gas, then shares the rest by points, each share capped by stake.        *)
(***************************************************************************)
EXTENDS RoundManager, TaskQueue

CONSTANTS
    SelfTasks,              \* the tasks that close the rounds of this contract
    TokenPrices,            \* coinbase for a token, as the provider may answer
    GasCosts,               \* what a run may cost
    sharesCapMultiplier,
    PRECISION,              \* 10^18
    MaxFees,                \* bounds: reward tokens in the contract,
    MaxCoinbase             \* coinbase that an owner is owed

ASSUME RunnerAssumption ==
    /\ SelfTasks \subseteq Tasks
    /\ TokenPrices \subseteq Nat
    /\ GasCosts \subseteq Nat /\ GasCosts # {}
    /\ sharesCapMultiplier \in Nat
    /\ PRECISION \in Nat \ {0}
    /\ MaxFees \in Nat /\ MaxCoinbase \in Nat

VARIABLES
    calls,                  \* the run in progress, if any
    coinbaseUsed,           \* oracleOwnerCoinbaseUsed
    rewardFees,             \* token.balanceOf(this)
    strayPoints             \* history: a run gave points to an owner without a seat

rewardVars == <<coinbaseUsed, rewardFees>>
runnerVars == <<calls, rewardVars, strayPoints>>

-----------------------------------------------------------------------------
(***************************************************************************)
(* Rewards.                                                                *)
(***************************************************************************)

\* Faulty variant of AfterGas: what was paid is still there for the others.
AfterGasUnspent(left, paid) == left

\* What is left for the others after a payment for gas.
AfterGas(left, paid) == left - paid

GasReward(o, price) == IF coinbaseUsed[o] = 0 THEN 0 ELSE coinbaseUsed[o] \div price

\* _getRewardTokensForGasUsed: an owner is paid in full, if the fees left cover
\* it, or stays in credit.
PayForGas(acc, o, price) ==
    IF GasReward(o, price) = 0 \/ GasReward(o, price) > acc.left
    THEN acc
    ELSE [left   |-> AfterGas(acc.left, GasReward(o, price)),
          repaid |-> acc.repaid \cup {o}]

GasPayments(order, price) ==
    FoldLeft(LAMBDA acc, o : PayForGas(acc, o, price), [left |-> rewardFees, repaid |-> {}], order)

TotalStake == SumFunctionOnSet(stake, selected)

\* _getCappedPointsReward, with left for the fees that remain.
CappedPointsReward(o, left) ==
    LET share    == (left * points[o]) \div totalPoints
        maxShare == (stake[o] * sharesCapMultiplier) \div TotalStake
        most     == (left * maxShare) \div PRECISION
    IN  IF points[o] = 0 \/ totalPoints = 0 \/ TotalStake = 0 \/ left = 0
        THEN 0
        ELSE IF maxShare >= PRECISION \/ share <= most THEN share ELSE most

\* What is transferred when the selected owners come in this order.
Payout(order, price) ==
    LET gas == GasPayments(order, price)
    IN  SumFunctionOnSet([o \in Owners |-> GasReward(o, price)], gas.repaid)
        + SumFunctionOnSet([o \in Owners |-> CappedPointsReward(o, gas.left)], selected)

\* With no price somebody's gas is divided by zero.
PriceServes(price) == price > 0 \/ \A o \in selected : coinbaseUsed[o] = 0

\* Faulty variant of Repaid: the credit is gone, paid or not.
RepaidAll(order, price) == selected

\* The owners whose gas was paid.
Repaid(order, price) == GasPayments(order, price).repaid

\* _distributeRewards; the round does not close if a transfer fails.
DistributeRewards ==
    \E order \in SetToSeqs(selected), price \in TokenPrices :
        IF rewardFees = 0
        THEN UNCHANGED rewardVars
        ELSE /\ PriceServes(price)
             /\ Payout(order, price) <= rewardFees
             /\ rewardFees' = rewardFees - Payout(order, price)
             /\ coinbaseUsed' = [o \in Owners |->
                                   IF o \in Repaid(order, price) THEN 0 ELSE coinbaseUsed[o]]

CloseRound == (SwitchRound \/ Unregister) /\ DistributeRewards

-----------------------------------------------------------------------------
(***************************************************************************)
(* A run of tasks.                                                         *)
(***************************************************************************)
Idle == calls = <<>>
Call == Head(calls)

\* Bounds: the points and the gas that the run may add.
RunFits(o, batch) ==
    /\ totalPoints + Len(batch) <= MaxTotalPoints
    /\ coinbaseUsed[o] + Max(GasCosts) <= MaxCoinbase

\* runTasks, up to the first task.  A task does not see lastTaskIndex, so it
\* may be set at once.
RunTasks(o, signers, flags) ==
    /\ Idle
    /\ ValidateExecution(o, signers)
    /\ \E v \in 0..Len(tasks) :
          /\ RunBatch(flags, v)
          /\ RunFits(o, Batch(flags, v))
          /\ calls' = <<[owner |-> o, batch |-> Batch(flags, v), earned |-> 0,
                         flagged |-> flags # {}]>>
    /\ autoUnsubscribed' = {}
    /\ UNCHANGED <<stake, membership, round, maxMissedSigRounds, timestamp, rewardVars,
                   strayPoints>>

\* try task.runTask(): a point if it does not fail.
TaskSucceeds ==
    /\ ~Idle /\ Call.batch # <<>>
    /\ calls' = <<[Call EXCEPT !.batch = Tail(@), !.earned = @ + 1]>>
    /\ IF Head(Call.batch) \in SelfTasks
       THEN SwitchRound /\ DistributeRewards
       ELSE UNCHANGED <<vars, rewardVars>>
    /\ UNCHANGED <<queueVars, strayPoints>>

\* Its own changes are undone, its gas may have run out.
TaskFails ==
    /\ ~Idle /\ Call.batch # <<>>
    /\ calls' = <<[Call EXCEPT !.batch = Tail(@)]>>
    /\ UNCHANGED <<vars, queueVars, rewardVars, strayPoints>>

\* addPoints and the gas of the run.
FinishRun ==
    /\ ~Idle /\ Call.batch = <<>>
    /\ calls' = <<>>
    /\ points' = [points EXCEPT ![Call.owner] = @ + Call.earned]
    /\ totalPoints' = totalPoints + Call.earned
    /\ strayPoints' = (strayPoints \/ (Call.earned > 0 /\ Call.owner \notin selected))
    /\ \E gas \in GasCosts :
          coinbaseUsed' = IF Call.flagged
                          THEN [coinbaseUsed EXCEPT ![Call.owner] = @ + gas]
                          ELSE coinbaseUsed
    /\ autoUnsubscribed' = {}
    /\ UNCHANGED <<stake, membership, number, lockPeriodTimestamp, tracking,
                   maxMissedSigRounds, timestamp, queueVars, rewardFees>>

-----------------------------------------------------------------------------
\* Between runs: the rounds, governance and the fees that are sent.
RoundStep ==
    /\ Idle
    /\ \/ \E o \in Owners : Subscribe(o) \/ Unsubscribe(o) \/ Deposit(o) \/ Withdraw(o)
       \/ \E m \in 0..MaxMissed : SetMaxMissedSigRounds(m)
       \/ Tick
    /\ UNCHANGED <<queueVars, runnerVars>>

ClosingStep ==
    /\ Idle
    /\ CloseRound
    /\ UNCHANGED <<queueVars, calls, strayPoints>>

GovernanceStep ==
    /\ Idle
    /\ QueueChange
    /\ UNCHANGED <<vars, runnerVars>>

ReceiveFees ==
    /\ Idle
    /\ \E fees \in (rewardFees + 1)..MaxFees : rewardFees' = fees
    /\ UNCHANGED <<vars, queueVars, calls, coinbaseUsed, strayPoints>>

RunnerInit ==
    /\ Init
    /\ QueueInit
    /\ calls = <<>>
    /\ coinbaseUsed = [o \in Owners |-> 0]
    /\ rewardFees = 0
    /\ strayPoints = FALSE

RunnerNext ==
    \/ \E o \in Owners, signers \in SUBSET selected, flags \in SUBSET (0..Len(tasks)) :
          RunTasks(o, signers, flags)
    \/ TaskSucceeds
    \/ TaskFails
    \/ FinishRun
    \/ RoundStep
    \/ ClosingStep
    \/ GovernanceStep
    \/ ReceiveFees

RunnerSpec == RunnerInit /\ [][RunnerNext]_<<vars, queueVars, runnerVars>>

-----------------------------------------------------------------------------
(***************************************************************************)
(* Properties.                                                             *)
(***************************************************************************)
RewardsCovered ==
    \A order \in SetToSeqs(selected), price \in TokenPrices \ {0} :
        Payout(order, price) <= rewardFees

\* What a closing round owes for gas and for points is in the contract, in
\* whatever order the owners come and whatever the price of the token, as
\* long as no run gave points to an owner without a seat.
RewardsCoveredUnlessStray == strayPoints \/ RewardsCovered

\* What an oracle spent on gas is owed until it is paid: its credit falls only
\* when the contract pays, and by the whole of it.
CreditKeptUntilPaid ==
    [][\A o \in Owners : coinbaseUsed'[o] < coinbaseUsed[o] =>
          /\ coinbaseUsed'[o] = 0
          /\ \E price \in TokenPrices \ {0} :
                /\ coinbaseUsed[o] \div price > 0
                /\ coinbaseUsed[o] \div price <= rewardFees - rewardFees']_<<vars, queueVars, runnerVars>>

(***************************************************************************)
(* switchRound "can be called by *anyone* if current round lock period is  *)
(* expired" (RoundManager.sol:205).  It fails when a task closes the round *)
(* of its own runner: the points land in a round in which the runner has   *)
(* no seat, stay when that round closes, and later exceed the fees.        *)
(***************************************************************************)
SwitchAvailable == Idle /\ IsReadyToSwitch /\ rewardFees > 0 => RewardsCovered
=============================================================================
