----------------------------- MODULE Supporters -----------------------------
(***************************************************************************)
(* The pool of staked MOCs: contracts/Supporters.sol with                  *)
(* contracts/libs/SupportersLib.sol, and the way contracts/Staking.sol     *)
(* uses it.                                                                *)
(*                                                                         *)
(* A subaccount (an oracle owner) holds internal tokens, shares of the     *)
(* MOCs that are available.  MOCs sent to the contract become earnings     *)
(* when somebody calls distribute, and are vested block by block; until    *)
(* then they are locked.  All quantities are integers, so every conversion *)
(* rounds.                                                                 *)
(*                                                                         *)
(* tokenBalances has one user, the Staking contract: it is the only        *)
(* whitelisted one.  A block lasts a unit of time, so one clock serves for *)
(* the blocks of the vesting and the timestamps of the locks.              *)
(***************************************************************************)
EXTENDS Integers, FiniteSets, Functions

CONSTANTS
    Owners,                 \* subaccounts
    Periods,                \* the periods governance sets
    LockTimes,              \* the times the voting machine locks MOCs until
    MaxStaked,              \* bounds: MOCs of a deposit,
    MaxMocs,                \* MOCs in the contract,
    MaxBlock                \* blocks

ASSUME OwnersAssumption == IsFiniteSet(Owners)

\* With a period of 0 _getEarningsAt divides by zero in the block of distribute.
ASSUME PeriodsAssumption == Periods \subseteq Nat \ {0}

ASSUME LockTimesAssumption == LockTimes \subseteq Nat

ASSUME SupportersBoundsAssumption == MaxStaked \in Nat /\ MaxMocs \in Nat /\ MaxBlock \in Nat

VARIABLES
    mocBalance,             \* MOCs accounted for, locked earnings included
    balance,                \* mocToken.balanceOf(this)
    tokenBalances,
    totalSupply,
    earnings, startEarnings, endEarnings, period,
    lockedMocs,             \* lockedMocs[owner], an amount until a time
    now                     \* block.number and block.timestamp

shares   == <<tokenBalances, totalSupply>>
vesting  == <<earnings, startEarnings, endEarnings>>
poolVars == <<mocBalance, balance, shares, vesting, period, lockedMocs, now>>

-----------------------------------------------------------------------------
(***************************************************************************)
(* What the views compute.                                                 *)
(***************************************************************************)

\* _getEarningsAt; no block is before startEarnings.
EarningsAt(block) ==
    IF earnings = 0 \/ block > endEarnings
    THEN earnings
    ELSE (earnings * (block - startEarnings)) \div (endEarnings - startEarnings)

LockedAt(block) == earnings - EarningsAt(block)

Available == mocBalance - LockedAt(now)

\* Neither _mocToToken nor _tokenToMoc divides by zero.
Convertible == Available > 0 <=> totalSupply > 0

MocToToken(mocs) ==
    IF Available = 0 /\ totalSupply = 0 THEN mocs ELSE (mocs * totalSupply) \div Available

\* Faulty variant of TokenToMoc: rounded up.
TokenToMocRoundedUp(tokens) ==
    IF Available = 0
    THEN 0
    ELSE (tokens * Available + totalSupply - 1) \div totalSupply

TokenToMoc(tokens) == IF Available = 0 THEN 0 ELSE (tokens * Available) \div totalSupply

\* Faulty variant of TokenToMocUP: rounded down.
TokenToMocDown(tokens) == IF Available = 0 THEN 0 ELSE (tokens * Available) \div totalSupply

TokenToMocUP(tokens) ==
    IF Available = 0
    THEN 0
    ELSE (tokens * Available + totalSupply - 1) \div totalSupply

MocBalanceOf(o) == TokenToMoc(tokenBalances[o])

LockedAmount(o) == IF now < lockedMocs[o].until THEN lockedMocs[o].amount ELSE 0

-----------------------------------------------------------------------------
(***************************************************************************)
(* Stakes.                                                                 *)
(***************************************************************************)

\* _stakeAtFromInternal
StakeInternal(o, tokens, mocs) ==
    /\ balance + mocs <= MaxMocs
    /\ mocBalance' = mocBalance + mocs
    /\ balance' = balance + mocs
    /\ tokenBalances' = [tokenBalances EXCEPT ![o] = @ + tokens]
    /\ totalSupply' = totalSupply + tokens
    /\ UNCHANGED <<vesting, period, lockedMocs, now>>

\* stakeAt and stakeAtFrom take all the MOCs for as many tokens as they buy.
StakeAtFrom(o, mocs) ==
    /\ Convertible
    /\ StakeInternal(o, MocToToken(mocs), mocs)

\* What Staking._depositFrom takes for the tokens that mocs buy.
Charged(mocs) ==
    LET tokens == MocToToken(mocs)
        price  == TokenToMocUP(tokens)
    IN  IF price = 0 THEN tokens ELSE price

\* Staking._depositFrom, when mocs buy a token; otherwise it just returns.
Deposit(o, mocs) ==
    /\ Convertible
    /\ MocToToken(mocs) > 0
    /\ StakeInternal(o, MocToToken(mocs), Charged(mocs))

\* Faulty variant of Surplus: the lock is not deducted.
SurplusWithLocked(o) == MocBalanceOf(o)

Surplus(o) == MocBalanceOf(o) - LockedAmount(o)

\* stakeAvailable; the subtraction must not underflow.
StakeAvailable(o, tokens) == Surplus(o) >= 0 /\ TokenToMoc(tokens) <= Surplus(o)

\* Faulty variants of Withdraw: mocBalance is not reset when the last supporter
\* exits, or never reduced.
WithdrawWithoutReset(o, tokens) ==
    LET mocs == TokenToMoc(tokens)
    IN  /\ Convertible
        /\ StakeAvailable(o, tokens)
        /\ tokens <= tokenBalances[o]
        /\ tokenBalances' = [tokenBalances EXCEPT ![o] = @ - tokens]
        /\ totalSupply' = totalSupply - tokens
        /\ balance' = balance - mocs
        /\ mocBalance' = mocBalance - mocs
        /\ earnings' = IF totalSupply' = 0 THEN 0 ELSE earnings
        /\ UNCHANGED <<startEarnings, endEarnings, period, lockedMocs, now>>

WithdrawUnaccounted(o, tokens) ==
    LET mocs == TokenToMoc(tokens)
    IN  /\ Convertible
        /\ StakeAvailable(o, tokens)
        /\ tokens <= tokenBalances[o]
        /\ tokenBalances' = [tokenBalances EXCEPT ![o] = @ - tokens]
        /\ totalSupply' = totalSupply - tokens
        /\ balance' = balance - mocs
        /\ mocBalance' = IF totalSupply' = 0 THEN 0 ELSE mocBalance
        /\ earnings' = IF totalSupply' = 0 THEN 0 ELSE earnings
        /\ UNCHANGED <<startEarnings, endEarnings, period, lockedMocs, now>>

\* withdrawFrom and withdrawFromTo.  When the last supporter exits the pending
\* earnings are left for the next distribution (_resetEarnings).
Withdraw(o, tokens) ==
    LET mocs == TokenToMoc(tokens)
    IN  /\ Convertible
        /\ StakeAvailable(o, tokens)
        /\ tokens <= tokenBalances[o]
        /\ tokenBalances' = [tokenBalances EXCEPT ![o] = @ - tokens]
        /\ totalSupply' = totalSupply - tokens
        /\ balance' = balance - mocs
        /\ mocBalance' = IF totalSupply' = 0 THEN 0 ELSE mocBalance - mocs
        /\ earnings' = IF totalSupply' = 0 THEN 0 ELSE earnings
        /\ UNCHANGED <<startEarnings, endEarnings, period, lockedMocs, now>>

\* lockMocs, for the voting machine.
LockMocs(o, until) ==
    /\ lockedMocs' = [lockedMocs EXCEPT ![o] = [amount |-> MocBalanceOf(o), until |-> until]]
    /\ UNCHANGED <<mocBalance, balance, shares, vesting, period, now>>

-----------------------------------------------------------------------------
(***************************************************************************)
(* Earnings.                                                               *)
(***************************************************************************)

\* Somebody sends MOCs to the contract.
ReceiveMocs(mocs) ==
    /\ balance + mocs <= MaxMocs
    /\ balance' = balance + mocs
    /\ UNCHANGED <<mocBalance, shares, vesting, period, lockedMocs, now>>

IsReadyToDistribute == totalSupply > 0 /\ now > endEarnings

Distribute ==
    /\ IsReadyToDistribute
    /\ earnings' = balance - mocBalance
    /\ startEarnings' = now
    /\ endEarnings' = now + period
    /\ mocBalance' = balance
    /\ UNCHANGED <<balance, shares, period, lockedMocs, now>>

\* Governance: SupportersPeriodChange.
SetPeriod(p) ==
    /\ period' = p
    /\ UNCHANGED <<mocBalance, balance, shares, vesting, lockedMocs, now>>

\* Faulty variant of StopPeriod: the vested part is taken back too.
StopPeriodWithVested ==
    /\ mocBalance' = mocBalance - earnings
    /\ earnings' = 0
    /\ endEarnings' = now
    /\ UNCHANGED <<balance, shares, startEarnings, period, lockedMocs, now>>

\* Governance: SupportersStopPeriodChange.
StopPeriod ==
    /\ mocBalance' = mocBalance - LockedAt(now)
    /\ earnings' = 0
    /\ endEarnings' = now
    /\ UNCHANGED <<balance, shares, startEarnings, period, lockedMocs, now>>

NextBlock ==
    /\ now < MaxBlock
    /\ now' = now + 1
    /\ UNCHANGED <<mocBalance, balance, shares, vesting, period, lockedMocs>>

-----------------------------------------------------------------------------
PoolInit ==
    /\ mocBalance = 0
    /\ balance = 0
    /\ tokenBalances = [o \in Owners |-> 0]
    /\ totalSupply = 0
    /\ earnings = 0
    /\ startEarnings = 0
    /\ endEarnings = 0
    /\ period \in Periods
    /\ lockedMocs = [o \in Owners |-> [amount |-> 0, until |-> 0]]
    /\ now = 1

\* What anybody but a staker does to the pool.
PoolStep ==
    \/ \E mocs \in 1..MaxMocs : ReceiveMocs(mocs)
    \/ Distribute
    \/ \E p \in Periods : SetPeriod(p)
    \/ StopPeriod
    \/ NextBlock
    \/ \E o \in Owners, until \in LockTimes : LockMocs(o, until)

PoolNext ==
    \/ PoolStep
    \/ \E o \in Owners, mocs \in 0..MaxStaked : StakeAtFrom(o, mocs) \/ Deposit(o, mocs)
    \/ \E o \in Owners : \E tokens \in 0..tokenBalances[o] : Withdraw(o, tokens)

PoolSpec == PoolInit /\ [][PoolNext]_poolVars

-----------------------------------------------------------------------------
(***************************************************************************)
(* Properties.                                                             *)
(***************************************************************************)
PoolTypeOK ==
    /\ mocBalance \in Nat
    /\ balance \in Nat
    /\ tokenBalances \in [Owners -> Nat]
    /\ totalSupply \in Nat
    /\ earnings \in Nat /\ startEarnings \in Nat /\ endEarnings \in Nat
    /\ period \in Nat
    /\ lockedMocs \in [Owners -> [amount : Nat, until : Nat]]
    /\ now \in Nat

\* The contract has the MOCs it accounts for and can lock the earnings it has
\* not vested: the checked subtractions of _distribute, of _getEarningsInfo and
\* of _getAvailableMOC never fail.
Solvent == 0 <= LockedAt(now) /\ LockedAt(now) <= mocBalance /\ mocBalance <= balance

\* A token is worth a MOC at least, and nothing is available when there are no
\* tokens: no conversion divides by zero, however stakes were rounded, earnings
\* vested or stopped, and supporters gone.
TokenWorthAMoc == Available >= totalSupply /\ (totalSupply = 0 => Available = 0)

TokensAddUp == totalSupply = SumFunction(tokenBalances)

\* Supporters can all withdraw: their MOCs, each rounded, are available.
SharesCovered ==
    /\ TokensAddUp
    /\ SumFunction([o \in Owners |-> MocBalanceOf(o)]) <= Available

\* Stake falls by withdrawals of its owner only.  RoundManager relies on it: a
\* coin pair is told of withdrawals and of nothing else.
StakeFallsByOwnWithdrawal ==
    [][\A o \in Owners :
        MocBalanceOf(o)' < MocBalanceOf(o) => tokenBalances'[o] < tokenBalances[o]]_poolVars

\* Rounding is never to the advantage of who moves MOCs: stake grows by what
\* came in at most, and falls by what went out at least.
MoverNeverGains ==
    [][\A o \in Owners :
        tokenBalances'[o] # tokenBalances[o] =>
            MocBalanceOf(o)' - MocBalanceOf(o) <= balance' - balance]_poolVars

\* While MOCs are locked, rounding costs the lock one MOC at most.
LockHoldsButForRounding ==
    \A o \in Owners : LockedAmount(o) <= MocBalanceOf(o) + 1

(***************************************************************************)
(* "Used by the voting machine to lock an amount of MOCs" (Supporters.sol: *)
(* 72): the amount stays until the lock ends.  It fails by one MOC, since  *)
(* the withdrawal and the rest are both rounded down.                      *)
(***************************************************************************)
LockHolds == \A o \in Owners : LockedAmount(o) <= MocBalanceOf(o)
=============================================================================
