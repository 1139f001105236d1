# OMoC decentralized oracle in TLA+

A verification project for the contracts of `contracts/`, their deployment and
the scripts they are operated with: TLA+ models of the rounds of oracles, the
price feed, the runner of tasks, the registries, the pool of stakes, the machine
that delays withdrawals, the migrations and the governance scripts; TLC
configurations that check them on small instances; and TLAPS proofs that the
properties of the rounds, the price feed, the runner of tasks, the registries, the pool,
the delay of withdrawals, the deployment and the scripts hold for every instance, and that the
loops of the contracts over their arrays do what the rounds say. Paths below are relative to
`src/`.

Contents: [the system](#the-system), [modules](#modules),
[conventions](#conventions), [runs](#runs), [divergences](#where-the-code-and-its-comments-part),
[proofs](#proofs), [what is not modelled](#what-is-not-modelled), [plan](#plan).

## The system

The contracts run in EVM transactions: one at a time, each undone as a whole by a
failed `require`. Nothing interleaves within a transaction, with the exception
of external calls (the tasks of `TasksRunner`). What is hard is therefore the
order of transactions of many independent actors, what they leave behind for
each other, rounding, and blocks and timestamps passing in between.

Around the contracts are programs that send several transactions and read in
between: the migrations, which may be interrupted anywhere and are started again,
and the scripts of the foundation, which several people may run at once.

| component | state | operations | hard behaviours | correct when |
|---|---|---|---|---|
| `RoundManager` (`RoundManager.sol`, `libs/RoundInfoLib.sol`) | subscribed owners, selected owners, round number, lock, points, missed rounds | `subscribe`, `unsubscribe`, `onWithdraw`, `_validateExecution`, `switchRound`, `forceCloseRound`, `setMaxMissedSigRounds` | seats filled and lost on three paths; owners that leave keep their seat; removal loop with its own count | members have the minimum stake, lists are bounded, no idle seat, points belong to seats, no round is held against an oracle twice, nor one up to its last signature or from before its subscription, unless it subscribes again |
| `SubscribedOraclesLib`, `AddressSetLib` | arrays and indexes | `add`, `remove`, `clear`, `getMin`, `sort`, `getMaxUnselectedStake` | swap and pop, ties, padding with `address(0)` | indexes follow values, the richest are chosen |
| `CoinPairPrice` | price, last publication block, query mode, fees | `publishPrice`, `emergencyPublish`, `setPriceQueryMode`, `peek`/`getPriceInfo`, rewards at round change | messages signed off chain and used later, two ways to publish, block boundaries | no message outlives a publication, emergencies follow silence, validity is exact, rewards are covered |
| `Supporters` (`libs/SupportersLib.sol`) | MOCs, tokens, earnings being vested, locks | `stakeAt*`, `withdrawFrom*`, `distribute`, `lockMocs`, governance's changes | integer rounding, the last supporter leaving, earnings stopped half way | solvent, no division by zero, nobody pays for another's move |
| `Staking` | none of its own that moves | `deposit`, `withdraw*`, delegation to `OracleManager` | three contracts in one transaction | as above |
| `DelayMachine` | payments, their owners and ids | `deposit`, `cancel`, `withdraw` | cancelling stakes at another price | payments are covered |
| `TasksRunner` | tasks, index, coinbase spent | `runTasks`, setters | external calls between validation and points, indexes that shift | rewards covered, capped |
| `OracleManager` (`libs/IterableOraclesLib.sol`, `libs/CoinPairRegisterLib.sol`) | registered oracles and coin pairs | `registerOracle`, `setOracleAddress`, `removeOracle`, `clearRegisteredOwner`, `registerCoinPair`, `unregisterCoinPair`, `subscribeToCoinPair`, `onWithdraw` | swap and pop through a mapping that owners and governance rewrite, hints, seats that outlast subscriptions | one owner per oracle, the right entry goes, nobody unregistered has a seat |
| migrations (`migrations/*.js`, `Migrations.sol`) | proxies of the network file, links between contracts, last completed migration | `deploy` of each, `setCompleted` | interruption between transactions, repetition, calls that work only once | contracts know each other and no abandoned proxy; the deployment can be finished |
| operator scripts (`scripts/change_*.js`, `give_coinbase_to_test_servers.js`, `change/GovernorChange.sol`, the changes of pairs) | change contracts, the governor each contract obeys, the pairs of two registers | list, check, confirm, `executeChange`; register and unregister pairs; read balances, transfer | lists that are stale when they are used, two terminals, changes executed again | control moves as a whole but for pairs registered meanwhile, to an owner, once |
| price providers, whitelists, other `change/*`, `InfoGetter` | configuration | reads and setters | governance at any time | - |

How they interact. An owner deposits MOCs through `Staking` into `Supporters`;
`RoundManager` reads the stake through `OracleManager`. A withdrawal
(`Staking.withdrawTokens`) takes MOCs from `Supporters`, calls
`OracleManager.onWithdraw`, which calls every coin pair, and gives the MOCs to
`DelayMachine`, which pays the owner later or stakes them again. Oracles sign
off chain; the one whose turn it is publishes with their signatures. Anybody
closes a round whose lock is over, which pays the rewards, removes the silent
and selects again. `TasksRunner` is another `RoundManager`: its oracles sign which tasks
to run, and a task may close a round, that of its own runner too. `OracleManager`
passes subscriptions and withdrawals on to the coin pairs it lists. Governance acts
through change contracts that the governor executes for its owner; migrations 150,
250 and 300 and the `change_*` scripts deploy and execute them.

## Modules

| module | models | state |
|---|---|---|
| `RoundManager` | the rounds of a coin pair with sets; whatever depends on the order of an array is a choice | the storage of `RoundManager`, the stakes, the time, a history of removals |
| `RoundHistory` | extends `RoundManager` with what its storage forgets: from which round on misses may be held against an owner | `heldFrom`, a history that watches every action |
| `RoundManagerArrays` | the same functions with the arrays and loops of the code; refines `RoundManager` | the two `AddressSets` in place of the sets |
| `AddressSets`, `SubscribedOraclesLib` | the array library and the loops by stake, as pure operators | - |
| `StakeOrder` | arrays of owners, for checking the loops against reference definitions | the array and the stakes |
| `CoinPairPrice` | extends `RoundManager` with publications, blocks and rewards | price, publication block, mode, fees; histories of publications |
| `Supporters` | `Supporters`, `SupportersLib` and the deposits of `Staking` | storage of the pool, its token balance, the clock |
| `DelayMachine` | extends `Supporters` with withdrawals through `Staking` | payments, last id, token balance |
| `TaskQueue` | which flagged tasks a run of `TasksRunner` executes and where the next one starts | list of tasks, batch size, position; how long each task waits (history) |
| `TasksRunner` | extends `RoundManager` and `TaskQueue` with runs whose tasks call back, gas credit and capped shares | the run in progress, credits, fees |
| `OracleDirectory` | what `OracleManager` promises: functions from owners to addresses and from names to contracts | the functions |
| `OracleRegistry` | the same with arrays, indexes and hints, and the memberships of all contracts | storage of the two libraries, a membership per contract |
| `PairMembership` | how a coin pair may change subscriptions and seats, as pure operators | - |
| `Deployment` | the migrations, truffle and its operator | proxies, links, the process |
| `OperatorScripts` | extends `Deployment` with the scripts run afterwards | governors' owners, changes, one session per terminal, balances; contracts registered out of step (history) |
| `*_proofs` | theorems | - |
| `MC*` | symmetry sets for TLC | - |

How they compose: `CoinPairPrice` conjoins its own updates to the actions of
`RoundManager` that the same transaction performs (`publishPrice` is
`Execution /\ Publish`, a round change is `SwitchRound` or `Unregister` with
`DistributeRewards`). `DelayMachine` conjoins `Withdraw` of `Supporters` with its own
`Delay`. `RoundManager` and `Supporters` are connected by a contract on the
stake: in `RoundManager` a stake rises at any moment (`Deposit`) and falls only in a
`Withdraw` of its owner, with `onWithdraw` in the same step. That is what
`StakeFallsByOwnWithdrawal` shows of `Supporters`; the small rises that rounding
gives to the others in a withdrawal are `Deposit` steps right before it.
`OracleRegistry` and the rounds are connected by `PairMembership`: the registry calls a
coin pair through its operators, which leave open who is evicted, seated or
removed, and `RoundsKeepTheContract` proves that every action of `RoundManager` does
what the operator of its name allows. `TasksRunner` conjoins `ValidateExecution` of
`RoundManager` with `RunBatch` of `TaskQueue`; `RunnerImplementsQueue` proves that the whole
behaves as the queue.

Correspondence of actions to code, beyond the comments in the modules:

* An `Execution` is what `publishPrice` and `runTasks` share. A signer stands for
  its owner: `OracleManager.getOracleOwner` maps each registered oracle to one
  owner, and unregistered signers map to `address(0)`, which holds no seat.
  Signatures that are not of selected owners are skipped by the loop; the
  abstract module leaves them out, `RoundManagerArrays` has them.
* A run of `TasksRunner` is one transaction in several steps: `RunTasks` up to the first task,
  `TaskSucceeds` or `TaskFails` for each, `FinishRun` for `addPoints`. While `calls` is not empty
  nothing else happens but what tasks do. A run that would revert as a whole leaves
  nothing, so a run in the model is one that comes to its end.
* `runTasks` checks and sets the nonce as `publishPrice` does; `NothingPublishedBetween` has it there, so
  `TasksRunner` leaves it out and lets any signers have signed any flags.
* The price of the token is any of `TokenPrices`, 0 included, at each closing: the
  provider answers what it likes. With 0 `_getTokenToCoinbasePrice` is a division by zero
  as soon as a selected owner is owed gas, and the round does not close (`PriceServes`).
* The memberships of `OracleRegistry` are what `RoundManager` calls `subscribed` and `selected`.
  `removeOracle` unsubscribes everywhere and requires that no listed pair has the owner
  seated; a contract that leaves the list is emptied by `unregisterCoinPair`, and a contract
  may be registered under two names.
* In `Deployment` a proxy is named by its alias and a number, because `ozAdd` with `force` makes a new
  one each time and `ozGetAddr` gives the last. What contracts keep of each other is one
  set of links. `todo` is a set where the code has the order of the configuration: every
  order is checked.
* A session of `OperatorScripts` is at a step between two calls. The reads of one
  loop are one step. A pair registered in the middle of a loop counts as registered out of step, as
  if it came right after. A pair unregistered in the middle makes the last index of the loop illegal and ends
  the script. What is left out is both in one loop: the register then has as many
  pairs as at its start, and swap and pop may have moved one of them to an index already read.
* A change of pairs is `OracleManagerPairChange`, `PriceProviderRegisterPairChange` or
  `OracleManagerPairChangeRemove`, deployed by `change_run` and executed by `change_execute`, any number of
  times (their TODO says so). The changes of lists (`OracleManagerPairChangeList*`,
  `PriceProviderOracleManagerRegisterPairChange`) are several of them in a transaction, and their
  whitelists are left out. What `unregisterCoinPair` does to the rounds is `Unregister` of `RoundManager` and
  `OracleRegistry`. No change of the repository calls `setCoinPair` or unregisters from `PriceProviderRegister`.
* `Unregister` is the whole of `OracleManager.unregisterCoinPair` on the pair. A
  pair may be registered again, so the rounds go on after it.
* `lastSigned = 0` is the deleted mapping entry; rounds start at 1.
* `Convertible` in `Supporters` guards the actions that would divide by zero. It
  is never what stops one: `TokenWorthAMoc` says so in every reachable state.
* `roundLockPeriodSecs + 1` in `DelayMachine`: `RoundInfoLib.switchRound` starts
  the lock one second late.

## Conventions

Each action is one transaction or one governance change; its guards are the
`require`s. Access control (only `OracleManager`, only whitelisted) is the reason
why actions are called where they are and is not modelled. Histories
(`autoUnsubscribed`, `heldFrom`, `consensus`, `emergencies`, `strays`) are marked as such
and guard nothing. Definitions called *faulty variant* are the bugs each property
is tested against: replacing the definition by the variant makes TLC find a
violation of the property, so no property holds by the shape of the model. They are
used by no specification.

Time. `RoundManager` only compares `block.timestamp` with the end of the lock, so
`Tick` stops one second after it. `CoinPairPrice` counts blocks; a new block has a
later timestamp. In `Supporters` a block lasts one unit of time, so that one
clock serves for vesting and locks; the two are never compared with each other.

Fairness is assumed in `Deployment` only: `WF(Progress)`, which says that a process of truffle that
runs goes on, and that an operator whose deployment is incomplete tries again, as
long as `MaxAttempts` allows. An interruption is not part of it, but may happen as
long as an attempt is left. That justifies `DeploymentFinishes`. For the contracts no
fairness is assumed: calling `switchRound`, `distribute` or `withdraw` is up to programs and
people outside of them. What could block them for good is stated as safety instead
(`RewardsAffordable`, `RewardsCoveredUnlessStray`: closing a round never fails for lack of
fees; `TokenWorthAMoc`, `Solvent`: the pool's arithmetic never reverts; `NoStarvation`: the
number of runs a task waits is bounded). Deadlock is checked in every run but
`StakeOrder`, which stops when all owners are in the array, and `Deployment`, `OperatorScripts` and
`RunWithoutAwait`, which stop when the deployment is over, or out of attempts, and the
sessions are used up. Where counters are bounded, governance's setters always remain enabled.

## Runs

All finish in the state spaces given, exhaustively.

| run | question | bounds and why they are enough |
|---|---|---|
| `Rounds` | do seats, list, points and missed rounds stay in step, and who is removed? 520,448 states | 3 owners, 2 seats, 2 places: owners are outbid for both; stakes 0..2: below the minimum, at it, above; 3 rounds and thresholds 0..2, reached, changed and reset; a minimum of 0 oracles, so that the floor of the removals is reached with 2 subscribers |
| `PriceFeed` | nonce, emergency, validity; are the shares of a round covered? | 2 owners and 2 seats, 2 rounds, 2 points, 2 fees; 4 blocks against periods of 1 and 2: points are forfeited, carried and shared, and each boundary has a block before and after it |
| `RoundArrays` | do the loops implement the rounds? | 3 owners, 2 seats, 2 places, 2 rounds, up to 2 signatures; a minimum of 0 oracles so that the removal loop runs with 2 subscribers |
| `StakeOrder` | do the loops select what they should? | 5 owners, stakes 0..2, every number of places from 0 to 6, every set of selected owners: the array of the unselected is padded with up to 5 `address(0)`, first or last |
| `Pool` | rounding, vesting, locks | 2 owners, 6 MOCs, 4 blocks, periods 1 and 2, one lock time: the prices of a token reached are not integers |
| `Withdrawals` | payments and churning | 2 owners, 4 MOCs, 3 blocks, 2 payments: one may be cancelled while another waits |
| `TasksRunner` | whose turn is it; are gas and points covered? | 2 owners and seats, 2 tasks, one of which closes the round of its runner, batches of 1 and 2 changed at any time, prices 0, 1, 2, so that gas is worth more, less or nothing; a cap of the shares that binds when one of two owners has all the points |
| `Registry` | do arrays and hints behave as a directory; who keeps a seat? | 3 owners, 2 addresses and `address(0)`, 2 names, 2 contracts, hints 0..2: one of them beyond the list. Also explored once with 4 addresses (380,689 states), with no violation |
| `Deployment` | does a deployment survive interruption? | 3 pairs, 2 of them base pairs, any configuration of them; 3 attempts: a migration may be cut off, repeated, cut off again |
| `OperatorScripts` | do scripts at two terminals spoil each other? 478,982 states | 2 terminals, 3 sessions, 2 governors of which one may have no owner, 1 server, a contract for a new pair, 1 change by `change_run` (`MaxRuns`): a handover, its way back and a repeated change fit, and so do a handover, the change of a pair and its execution while the list of the handover waits |
| `RunWithoutAwait` | comment that fails | as `OperatorScripts` |
| `SelfClosingTask` | comment that fails | as `TasksRunner` with 1 seat, 3 rounds, and no gas |

What they show: in these instances all stated invariants and action properties
hold, the array-level code implements the set-level one, the registries implement the
directory, a deployment whose configuration is complete finishes, and the two
properties of the last runs fail.

## Where the code and its comments part

The first two are runs that expect the violation. Where another names a run in brackets, its
property is defined in the module and in no run; to see the counterexample, name it in place
of those of that run.

1. `scripts/change_run.js:7` "DO THE SAME AS change_execute". `helpers.getGovernor` is async and neither
   `change_run.js:22` nor `change_run_in_coinpair.js:29` awaits it; the promise has no
   `executeChange`, so both deploy the change and end in a TypeError (`RunExecutes`, run
   `RunWithoutAwait`).
2. `RoundManager.sol:205` `switchRound` "can be called by *anyone* if current round lock period is expired".
   If governance registers, in a `TasksRunner`, a `TaskSwitchRoundCoinPair` for that runner, a
   run closes the round between the validation of the runner and its points
   (`TasksRunner.sol:298`). They may land with an owner that has no seat. Closing a round clears the
   points of the selected only, so they stay, and when the owner is seated again they
   count against a total that lacks them: the shares exceed the fees and
   `switchRound` reverts until enough fees arrive or the owner loses its seat
   (`SwitchAvailable`, run `SelfClosingTask`). No deployment in the repository registers such a
   task; nothing prevents it. With no stray points the rewards are always covered
   (`RewardsCoveredUnlessStray`).
3. `RoundManager.sol:506` "Emits OracleAutoUnsubscribed on removals". A selected owner that
   unsubscribed, or was evicted, keeps its seat; when it has missed enough rounds the loop
   emits the event and lowers its own count of subscribers although
   `_removeSubscribedOracle` returned false (line 534). The loop may then stop before it
   reached the floor. `AutoUnsubscribeSpares` and the proofs are therefore about the events
   (`autoUnsubscribed`), of which the removals are a part.
4. `CoinPairPriceStorage.sol:66` "Consecutive rounds where each selected oracle owner did not
   sign". `subscribe`, `unsubscribe` and removal clear `lastSignedRoundByOracle` (lines 101, 548). An owner that
   signs, leaves and comes back in one round keeps its seat, and the round it signed
   in counts as missed when it closes; with `maxMissedSigRounds` 1 that removes it. A
   property that reads `lastSigned` cannot see this, since it is erased, so `RoundHistory` has
   `heldFrom`: the round after the last signature or the
   round in which a subscription last began or ended, whichever came last. `MissesHeldSince` and
   `AutoUnsubscribeSpares` are stated over it and say no more than what holds: misses are counted from there, so
   rounds before it are never held against an owner, but that round is, signed or not.
5. `Supporters.sol:72` "to lock an amount of MOCs". The withdrawn and the remaining MOCs are
   rounded down separately, so one MOC less than the locked amount may stay; from then
   on `stakeAvailable` underflows and blocks the owner's withdrawals, of 0 tokens too, until
   the lock ends (`LockHolds` of `Supporters` [`Pool`]). The weaker `LockHoldsButForRounding` holds.
6. `DelayMachine.sol:61` "Cancel a transaction returning the funds to the source". `Staking`
   takes only the price of whole tokens, or nothing at all if the amount buys none; the
   rest stays in `DelayMachine` and belongs to no payment (`NothingLeftBehind` of
   `DelayMachine`, with 5 MOCs and 4 blocks [`Withdrawals`]).
7. `scripts/change_delegate_governor.js:3` "Change the current truffle governor to a new governor in all
   governable smart-contracts". It lists the contracts named in `ContractNames`, the `OracleManager`, the
   register of prices and the contracts these have for coin pairs; `Staking`, `DelayMachine` and
   others keep the old governor. And the list may be stale: a pair registered by `change_execute` after the
   script listed its register and before `executeChange` stays with the old governor, the rest
   moves, and the next handover ends at that pair. `strays` has the contracts registered so;
   `ListedTogether` is what holds of all others. Without `\ strays` in it, `OperatorScripts` shows the
   stale list.

Two more that need no run: `runTasks` records gas for flags beyond the end of the list,
although nothing is executed for them; and `setOracleAddress` to `address(0)` leaves
`registeredOwners[0]` behind, against "allowing to have only one registered oracle
per owner" of `OracleManager.sol:116`. `OracleDirectory` has the latter as `Forgotten`.

## Proofs

The eight proof modules are checked by TLAPS to the last leaf. They assume the named
assumptions of the modules only: finitely many owners, at least one seat and a positive
lock (`RoundInfoLib.initRoundInfo` requires both), natural numbers elsewhere (for the arrays the addresses are positive numbers, 0 being
`address(0)`), that a publication gives one point, that neither a batch nor a period of vesting is 0, that `address(0)`
is an address but no owner and no contract, that the names of the links a contract keeps
are no names of coin pairs, and that the two contracts the migrations do not deploy are found.

Sums. What is due to all owners is a sum over a set, so facts about it are proved by induction on
the subsets of a finite set. The library's induction theorem takes a predicate;
`SubsetInduction` of `Arithmetic_proofs` is the same fact about the set of the subsets that are
good. From it come that the recursive function behind a sum exists, what it is of one more
element and after a change at one element, and that shares rounded down are together within the whole
(`SharesWithin`). The fold that pays for gas is a recursive function of its own
(`PaidAt` of `TasksRunner_proofs`), shown to exist in the same way (`PaidExists`).

The rounds. `TypeCorrect` comes first, from one step per action. The other invariants are
inductive relative to `TypeOK`, so each has a lemma with one step per action:

* `MembersStakedInvariant`: the cases are `Withdraw` (who falls below leaves both sets) and
  `SwitchRound` (who is selected was subscribed).
* `MembershipBoundedInvariant`, `NoIdleSeatInvariant`: by the cardinalities of a set that
  gains, loses or swaps an element (`SwapCardinality`, `TopStakedSize`, `SubscribeSizes`,
  `WithdrawSizes`). `NoIdleSeat` needs that a seat is given to somebody who waits.
* `PointsBackedInvariant`: a displaced owner's points are cleared and a round change clears
  those of the owners seated, who by the invariant are all that have any.
* `MissedInvariant`, of `RoundHistory`: `heldFrom + missed <= number` is kept because a round counted as
  missed is closed in the same step, and what moves `heldFrom` up, a signature or a subscription that begins or ends,
  clears the misses. `HistoryOnlyWatches` carries the invariants of the rounds over.
* `SeatLostByOwnWithdrawalHolds`, `AutoUnsubscribeSparesHolds`: from single steps and, for the
  second, the invariant on missed rounds: with `missed + 1 >= maxMissedSigRounds` it bounds
  from below the rounds since `heldFrom`.

The price feed. `PriceImplementsRounds` shows that every step is a step of `RoundManager` or
leaves its variables alone, so it inherits those invariants (`RoundsOfPriceFeed`). Its own
follow from `FeedInv`, which adds `LatestKept` to the properties: the storage has the block of the
latest publication, and it is not in the future. Without it nothing relates the nonce in
storage to the publications of the past.

The arrays. `ArraysImplementRounds` says that the contracts' loops implement the rounds: each
action of `RoundManagerArrays` is the action of its name in `RoundManager`, for the sets
its arrays stand for, so what is proved of the rounds is true of the arrays. Three layers
lead to it.

* Sets. An address set is `Proper` if values and indexes are each other's inverse; adding, swap and
  pop and clearing keep that and do to the elements what they should (`AddedFacts`, `RemovedFacts`,
  `ClearedFacts`). `ArraysTyped`, both sets `Proper` and the rest typed, is the inductive
  invariant (`ArraysTypes`), and `ArraysAlwaysConsistent` its consequence.
* Loops. The folds of the community modules are recursive functions on sets of places.
  `LoopTrace` of `Arithmetic_proofs` turns one into the sequence of states of a loop, one per pass, and
  what holds before the first pass and is kept by each holds after the last
  (`CountingInduction`): the loop invariant is stated on the places that were passed. So
  for the owner with least stake (`PoorestFound`) and most among the unselected, past the padding (`RemainingFound`, `UnselectedFound`, `RichestUnselectedFound`), the sort
  (`SortedFacts`), the count of signatures (`SignaturesCounted`), points
  cleared (`PointsCleared`), seats given (`SeatedFacts`), the automatic removals
  (`RemovalsFound`) and the emptying of the list in `unregisterCoinPair` (`AllTakenAway`).
* The sort. One pass is `PlacedFacts`: what was chosen stays in order, with ties by place in the
  array, what falls off comes after all that stay. The order is the indexes' one, which is what
  makes equal stakes stay as they were.

The removals are the case with two counters: the loop compares its own count, which goes down for
owners that are no longer subscribed too, so its invariant (`RemovedSoFar`) ties the count
to the events, not to the length of the list.

The lemmas on the loops are stated for any set of owners, so they serve twice.
`SortAlwaysSelectsRichest` and `ReplacementsAlwaysExtreme` state the two properties of
`StakeOrder` for arrays of any length and any stakes; their invariant (`ArrayTyped`) adds that no
owner is in the array twice, without which the rank of an owner would not be its place.
`SubscribersSortedRight` and `SubscribersReplacedRight` say the same of the array of subscribed
oracles in every reachable state of the rounds, where values are swapped, popped and replaced.

The queue of tasks. `NoStarvation` bounds the runs a task may wait; it is not inductive. `QueueInv` adds
*Turn*: a task that was left out in `k` runs is, counted in a circle from `lastTaskIndex`, at
least `k * maxTasksPerBatch` positions nearer to its turn than the length of the list. A run
that leaves it out executed a full batch before it (`FullBatch`), so it moves on by as many
(`OneMoreRun`); the rest is arithmetic of remainders, from lemmas on `%` and `\div` that are
proved first. `RunnerImplementsQueue` carries the result to the runner with its rounds and calls
(`RunnerNoStarvation`).

Rewards. The points of a round add up to `totalPoints` at most, because only who has a seat
gets points and all are cleared together (`PointsInv`, `PointsNeverExceedRound`). So shares of the
fees in proportion to points are together within them: `RewardsAffordableHolds` for a coin pair. For the runner, gas
is paid first, to each owner what is left at most, and the shares, capped, come out of what gas leaves
(`PayoutSound`); `RunnerInv` adds where the run in progress stands, because a task may close
the round under it. That is also where points go astray, and why `RewardsStayCovered` is
about the histories in which none did (`strayPoints`). `CreditStaysUntilPaid` says of every step that a
credit for gas goes only to its payment.

The registries. `RegistryInv` says that entries, indexes and the owners that addresses are
known to have are each other's inverse (`Consistent`), that a name is in the list of
coin pairs exactly once if it has a contract, that members are registered owners and that a
contract out of the list has none. The case that needs all of it is `RemoveEntry`: the
owner of the entry that moves is found by its address (`RemoveEntryKeeps`).
`MembersRegisteredHolds` follows, and with it the refinement (`ImplementsDirectoryHolds`): every action is
the action of the directory of its name, under `oracleOf <- indexes and values`, or
leaves it alone. `EachHasItsOwnHolds` is what callers use.

The composition. `RoundsKeepTheContract` shows by cases on `Next` that the rounds keep the contract the
registry relies on: an eviction costs no seat, a withdrawal seats only one that waited, and
whoever a round change removes or seats was a member.

The pool. The argument is the price of a token, `Available / totalSupply`, with no division:
prices are compared by cross products. Who stakes pays the price at least
(`StakesAtPrice`), who withdraws is paid it at most (`WorthOfTokens`), so neither lowers it
(`PriceAfterPurchase`, `PriceAfterSale`); `distribute` and a stopped period leave it alone, and
vesting raises it (`NextBlockKeepsInv`). Hence a token is always worth a MOC
(`TokensAlwaysWorthAMoc`), nobody pays for another's move (`StakeNeverTaken`), a mover gains
nothing (`BuyerNeverGains`, `SellerNeverGains`) and a withdrawal takes one MOC too many at most
(`SellerLosesOneMore`), which makes `LockHoldsButForRounding` inductive. `PoolInv` adds to the
properties that earnings vest between two blocks in order, that with no supporter there is nothing left, and
that the balances add up to `totalSupply`: without the last a mover might have more tokens
than there are. `SharesAlwaysCovered` follows from it: every stake is its owner's share of the
MOCs rounded down (`StakesFit`).

The delay of withdrawals. Each step is a move of the pool or none (`MachineMovesPool`), so the pool's
theorems hold behind the machine (`PoolSoundBehindMachine`, `LocksHoldBehindMachine`,
`StakeNeverTakenBehindMachine`), also for a cancellation of more MOCs than a deposit may
have. `MachineInv` adds that what waits to be paid is within the balance. A cancellation
charges no more than its payment, whatever the price has become (`StakesAtPrice`), so the
balance covers the others still: `PaymentsAlwaysCovered`. `NobodyGainsByChurning` puts the two halves of a
round trip together: what a withdrawal pays and what a cancellation buys back are
each at the price of the moment or worse for the mover, so a stake and its waiting payments
are together never more for it.

The deployment. `DeployInv` has the place of the process (`Position`: which transactions
are behind it), how many proxies of each alias there are at that place (`ProxiesCounted`: a
migration that is started again makes another), and the links between contracts in two halves:
`LinksFit`, what links there may be, for each kind of contract, and `CoreWired`, what links
there are by now. `ScriptInv` is what holds between two transactions of the scripts that
register prices and coin pairs. Proxies are only added and links only added or replaced, so
most steps are by frame lemmas (`LinksKept`, `NewLink`). `ContractsAlwaysAgree`,
`RegisteredPairsAlwaysReadable`, `CalculatedAlwaysReadable` and `FailuresExplained` are its
consequences: wherever a migration was interrupted, the next one finds what it reads.

The scripts. `OpsInv` starts from a finished deployment, whose `DeployInv` it takes
over. `Held` are the contracts of the list that were not registered out of step; they obey one
governor (`Together`), and every governor in force has an owner, of strays too (`Owned`). What makes this inductive
is that lists only lag behind in one direction: each session has collected at its step all that is held
in what it has read (`SessionsInStep`), and a change of the governor that may yet be executed has all that is held
(`ChangesWhole`). Three facts keep it so: a governor moves for everything held or for nothing (`GovernorMoves`), a pair that
leaves takes contracts out of `Held` only (`PairLeaves`), and a pair that joins while somebody lists
or a change waits is not held (`PairJoins`), whereas otherwise there is no list it could
be missing from (`InStepKeeps`). What servers have been given is `Funding`. From it: `ListedAlwaysTogether`, `ControlAlwaysKept`,
`ServersAlwaysFunded`, and of every step `HandedOverOnce`. With one change by `change_run` the run never registers a pair a second time in
step, which takes it out of `strays`; the proof covers it.

Model-checked only: `DeploymentFinishes`, which is a liveness property and out of the provers'
reach, and the divergences. All other properties of the runs are theorems.

## What is not modelled

* Governance changes of the minimum stake, of the number of seats and of the lock period while a round is
  open, and `SupportersPeriodAndEndChange`, which sets the end of the vesting freely. In the
  modules these are constants. A period of 0 blocks is excluded by `PeriodsAssumption`: with it
  `_getEarningsAt` divides by zero in the block of `distribute`.
* Signatures as cryptography: any set of selected owners may have signed anything. The
  rounds take one oracle address per owner. With an address left over from the version that
  did not forget them, one owner's two keys could count as two votes until governance
  clears it; `OracleRegistry` starts with any such leftovers.
* `clearRegisteredOwner` of an address in use. It is governance's to call, for leftovers; of an
  address in use it would leave an entry that nobody can remove. `RegistryNext` has it as an
  assumption on the input.
* Several coin pairs with their own stakes and rounds at once: `OracleRegistry` has several, with
  memberships only.
* Overflow: amounts are bounded by the supply of MOCs, far below 2^256, and `SafeMath` checks.
* The nonce has the granularity of a block: two publications in one block have the same
  block number, and the model allows both, as the code does.
* The migrations 10 and 20 and `ozAdd`, `ozGetAddr`, which come from `@moc/shared`: modelled as the migrations use
  them and marked external.
* Pairs registered and unregistered both within one loop of reads of `change_delegate_governor.js`, see above.
* Whitelists, but for the one of free price contracts; the arithmetic of calculated prices, which keeps no
  state; views.
* Scripts that only print or flatten sources; `register_test_servers.js`, which calls functions with
  arguments that the contracts no longer take; the scripts for test tokens.

## Plan

Done: everything above. What is left:

1. Governance changes in an open round, as actions of `RoundManager` and `Supporters`, and which
   invariants become "until the next round".
2. Several coin pairs as instances of `RoundManager` over one map of stakes, with the longest lock of
   `OracleManager.onWithdraw` as the delay of a payment.
