---------------------------- MODULE DelayMachine ----------------------------
(***************************************************************************)
(* Withdrawals of stake: contracts/Staking.sol sends what it withdraws     *)
(* from Supporters to contracts/DelayMachine.sol, where it waits as a      *)
(* payment until its owner takes it, or cancels it and stakes it again.    *)
(*                                                                         *)
(* In the same transaction Staking asks OracleManager how long the rounds  *)
(* the owner is in are locked; what onWithdraw does to the rounds is in    *)
(* RoundManager, here its answer is any duration up to roundLockPeriodSecs *)
(* plus the second by which a round's lock starts late.                    *)
(***************************************************************************)
EXTENDS Supporters

CONSTANTS
    withdrawLockTime,
    roundLockPeriodSecs,
    MaxPayments             \* bound: payments ever made

ASSUME DelayAssumption ==
    withdrawLockTime \in Nat /\ roundLockPeriodSecs \in Nat /\ MaxPayments \in Nat

VARIABLES
    payments,               \* the payments that wait, by id
    lastId,                 \* _id
    held                    \* token.balanceOf of the DelayMachine

machineVars == <<payments, lastId, held>>

Pending == DOMAIN payments

-----------------------------------------------------------------------------
\* Faulty variant of Delay: the id is not taken.
DelayWithOldId(o, mocs, expiration) ==
    /\ lastId < MaxPayments
    /\ lastId' = lastId
    /\ payments' = [id \in Pending \cup {lastId + 1} |->
                      IF id \in Pending
                      THEN payments[id]
                      ELSE [owner |-> o, amount |-> mocs, expiration |-> now + expiration]]
    /\ held' = held + mocs

\* DelayMachine.deposit
Delay(o, mocs, expiration) ==
    /\ lastId < MaxPayments
    /\ lastId' = lastId + 1
    /\ payments' = [id \in Pending \cup {lastId + 1} |->
                      IF id \in Pending
                      THEN payments[id]
                      ELSE [owner |-> o, amount |-> mocs, expiration |-> now + expiration]]
    /\ held' = held + mocs

\* Faulty variant of WithdrawTokens: the payment is rounded up.
WithdrawTokensRoundedUp(o, tokens) ==
    /\ Withdraw(o, tokens)
    /\ \E locked \in 0..(roundLockPeriodSecs + 1) :
          Delay(o, TokenToMocUP(tokens), locked + withdrawLockTime)

\* Staking.withdrawTokens; withdraw and withdrawAll only compute the tokens.
WithdrawTokens(o, tokens) ==
    /\ Withdraw(o, tokens)
    /\ \E locked \in 0..(roundLockPeriodSecs + 1) :
          Delay(o, TokenToMoc(tokens), locked + withdrawLockTime)

\* delete payments[id]
Without(id) == Restrict(payments, Pending \ {id})

\* Faulty variant of Cancel: the payment still waits afterwards.
CancelKeepingPayment(id) ==
    LET amount == payments[id].amount
    IN  /\ Convertible
        /\ IF MocToToken(amount) > 0
           THEN /\ StakeInternal(payments[id].owner, MocToToken(amount), Charged(amount))
                /\ held' = held - Charged(amount)
           ELSE UNCHANGED <<poolVars, held>>
        /\ UNCHANGED <<payments, lastId>>

\* cancel, by the owner of the payment: Staking.depositFrom takes the MOCs back
\* from the machine, or returns without taking any if they buy no token.
Cancel(id) ==
    LET amount == payments[id].amount
    IN  /\ Convertible
        /\ payments' = Without(id)
        /\ IF MocToToken(amount) > 0
           THEN /\ StakeInternal(payments[id].owner, MocToToken(amount), Charged(amount))
                /\ held' = held - Charged(amount)
           ELSE UNCHANGED <<poolVars, held>>
        /\ UNCHANGED lastId

\* withdraw, by the owner of the payment.
Pay(id) ==
    /\ payments[id].expiration < now
    /\ payments[id].amount <= held
    /\ held' = held - payments[id].amount
    /\ payments' = Without(id)
    /\ UNCHANGED <<poolVars, lastId>>

-----------------------------------------------------------------------------
Init ==
    /\ PoolInit
    /\ payments = <<>>
    /\ lastId = 0
    /\ held = 0

Next ==
    \/ PoolStep /\ UNCHANGED machineVars
    \/ \E o \in Owners, mocs \in 1..MaxStaked : Deposit(o, mocs) /\ UNCHANGED machineVars
    \/ \E o \in Owners : \E tokens \in 0..tokenBalances[o] : WithdrawTokens(o, tokens)
    \/ \E id \in Pending : Cancel(id) \/ Pay(id)

Spec == Init /\ [][Next]_<<poolVars, machineVars>>

-----------------------------------------------------------------------------
(***************************************************************************)
(* Properties.                                                             *)
(***************************************************************************)
Amounts == [id \in Pending |-> payments[id].amount]

PendingMocs == SumFunction(Amounts)

\* Types; every id that waits was given out.
MachineTypeOK ==
    /\ PoolTypeOK
    /\ lastId \in Nat
    /\ Pending \subseteq 1..lastId
    /\ \A id \in Pending : /\ payments[id].owner \in Owners
                           /\ payments[id].amount \in Nat
                           /\ payments[id].expiration \in Nat
    /\ held \in Nat

\* The machine can make all the payments that wait, in any order, and every
\* cancellation finds the MOCs it stakes.
PaymentsCovered == PendingMocs <= held

PaymentsOf(o) == {id \in Pending : payments[id].owner = o}

\* What an owner has in the pool and in the machine.
Wealth(o) == MocBalanceOf(o) + SumFunctionOnSet(Amounts, PaymentsOf(o))

\* Withdrawing and cancelling, in any number and order, earns nobody a MOC: an
\* owner's stake and payments together grow by nothing but deposits, vested
\* earnings and the rounding of others.
ChurningNeverGains ==
    [][\A o \in Owners :
        (tokenBalances'[o] # tokenBalances[o] /\ held' # held) =>
            Wealth(o)' <= Wealth(o)]_<<poolVars, machineVars>>

(***************************************************************************)
(* "Cancel a transaction returning the funds to the source"                *)
(* (DelayMachine.sol:61): the machine keeps none of a payment that was     *)
(* cancelled.  It fails: Staking takes the price of a whole number of      *)
(* tokens, and the rest stays in the machine, of no payment any more.      *)
(***************************************************************************)
NothingLeftBehind == held = PendingMocs
=============================================================================
