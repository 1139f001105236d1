---------------------------- MODULE RoundHistory ----------------------------
(***************************************************************************)
(* RoundManager with the history its storage forgets: subscribing, leaving *)
(* the subscribers and being removed from them all erase                   *)
(* lastSignedRoundByOracle, so what the automatic unsubscription holds     *)
(* against an owner cannot be judged from the contract's own variables.    *)
(*                                                                         *)
(* The history variable only watches: every action is RoundManager's,      *)
(* joined with what it adds to the history.                                *)
(***************************************************************************)
EXTENDS RoundManager

VARIABLE
    heldFrom    \* history: the first round that may be held against each owner

historyVars == <<vars, heldFrom>>

\* The signatures of an execution count: nothing up to the round that is open
\* may be held against the signers.
Counted(signers) ==
    heldFrom' = [o \in Owners |-> IF o \in signers THEN number + 1 ELSE heldFrom[o]]

\* Owners that subscribe, unsubscribe, are evicted or removed.
Turned == {o \in Owners : (o \in subscribed) # (o \in subscribed')}

\* A subscription that begins or ends erases what was before it, the signature
\* of the open round included: that round may be held against the owner again.
\* A removal that closes a round belongs to the round it opens.
NoteTurned ==
    heldFrom' = [o \in Owners |-> IF o \in Turned THEN number' ELSE heldFrom[o]]

-----------------------------------------------------------------------------
HistoryInit ==
    /\ Init
    /\ heldFrom = [o \in Owners |-> 1]

StakeStep(o) == Subscribe(o) \/ Unsubscribe(o) \/ Deposit(o) \/ Withdraw(o)

HistoryNext ==
    \/ \E o \in Owners, signers \in SUBSET selected, award \in Awards :
          Execution(o, signers, award) /\ Counted(signers)
    \/ \E o \in Owners : StakeStep(o) /\ NoteTurned
    \/ SwitchRound /\ NoteTurned
    \/ Unregister /\ NoteTurned
    \/ \E m \in 0..MaxMissed : SetMaxMissedSigRounds(m) /\ NoteTurned
    \/ Tick /\ NoteTurned

HistorySpec == HistoryInit /\ [][HistoryNext]_historyVars

-----------------------------------------------------------------------------
(***************************************************************************)
(* Properties.                                                             *)
(***************************************************************************)

\* The missed rounds of an owner are closed rounds, none counted twice: all of
\* them come after the last round it signed in and none before its subscription
\* last began or ended, however often the counting is disabled, skipped at the
\* floor and resumed.  "Rounds where each selected oracle owner did not sign"
\* (CoinPairPriceStorage.sol:66) they need not be: leaving the subscribers and
\* subscribing again erase a signature that counted in the open round
\* (RoundManager.sol:101, 548), so the misses start with the round of the last
\* of these events, even when the owner signed in it.
MissesHeldSince ==
    \A o \in Owners : missed[o] > 0 => heldFrom[o] + missed[o] <= number

\* The automatic unsubscription reports and takes only owners against which at
\* least maxMissedSigRounds rounds may be held, the closing one included,
\* whatever maxMissedSigRounds was while they were counted.  As above the first
\* of these may be a round in which the owner signed and then left or subscribed
\* again.  The removal leaves enough subscribers for a round with one to spare.
AutoUnsubscribeSpares ==
    [][autoUnsubscribed' # {} =>
        /\ \A o \in autoUnsubscribed' : number + 1 - heldFrom[o] >= maxMissedSigRounds
        /\ Cardinality(subscribed') >= minOraclesPerRound + 1]_historyVars
=============================================================================
