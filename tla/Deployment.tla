----------------------------- MODULE Deployment -----------------------------
(***************************************************************************)
(* The deployment: the truffle migrations of migrations/*.js, which create *)
(* the contracts behind proxies, initialize them with each other's         *)
(* addresses, and register the coin pairs through the governor.            *)
(*                                                                         *)
(* Truffle runs the migrations in the order of their numbers, starting     *)
(* after the last one contracts/Migrations.sol has recorded as completed.  *)
(* Each is a sequence of transactions; a failed transaction, a lost node   *)
(* or an operator's ^C ends the process anywhere in between, and the next  *)
(* attempt starts that migration again from its first line.  So a          *)
(* migration must bear being run twice, or must not be interrupted after   *)
(* the transaction it cannot repeat.                                       *)
(*                                                                         *)
(* A proxy is named <<contract, pair, n>>: the n-th the deployment made    *)
(* for that alias.  What the contracts keep of each other is a set of      *)
(* links <<from, role, to>>.  The governor, the token and the registry     *)
(* come from the migrations of @moc/shared (10 and 20).                    *)
(***************************************************************************)
EXTENDS Naturals, FiniteSets

CONSTANTS
    Pairs,          \* names of coin pairs the configuration may list
    BasePairs,      \* multiplyByPairs of migration 300
    Calculated,     \* the pair calculated from them, RIFUSD
    Found,          \* governed contracts the network has before the deployment
    MaxAttempts     \* bound: times truffle migrate is run

ASSUME DeploymentAssumption ==
    /\ BasePairs \subseteq Pairs
    /\ Pairs \cap {Calculated, "none"} = {}
    /\ Calculated # "none"
    /\ MaxAttempts \in Nat

VARIABLES
    config,         \* truffle's network entry: its coin pairs, and whether all of it is there
    recorded,       \* how many proxies the network file has for an alias; ozGetAddr gives the last
    wired,          \* the links between the contracts
    completed,      \* lastCompletedMigration
    mode,           \* "stopped", "running", "failed"
    migration, tx,  \* the migration that runs and its next transaction
    coin, todo,     \* the loop of migration 150
    attempts,       \* times truffle migrate was run
    torn            \* history: migrations interrupted when they could not be repeated

chainVars   == <<recorded, wired>>
processVars == <<mode, migration, tx, coin, todo>>
deployVars  == <<config, recorded, wired, completed, mode, migration, tx, coin, todo, attempts, torn>>

Single  == {"InfoGetter", "Supporters", "OracleManager", "DelayMachine", "Staking",
            "PriceProviderRegister", "CalculatedPriceProvider"}
PerPair == {"CoinPairPriceFree", "CoinPairPrice"}
Aliases == (Single \X {"none"}) \cup (PerPair \X (Pairs \cup {Calculated}))

\* What a contract keeps of another, but for the pairs of a register.
RegistryNames == {"DelayMachine", "OracleManager", "Supporters", "InfoGetter"}
LinkNames     == {"governor", "token", "whitelist", "staking", "supporters", "oracleManager",
                  "delayMachine", "registry", "provider", "multiplyBy", "implementation"}
                 \cup RegistryNames

\* A register keeps its pairs apart from its other links, and what the network
\* has before is none of what the migrations make.
ASSUME NamesAssumption ==
    /\ (Pairs \cup {Calculated}) \cap LinkNames = {}
    /\ Found \cap (Single \cup PerPair \cup {"Registry"}) = {}

Governor   == <<"Governor", "none", 1>>
Token      == <<"MocToken", "none", 1>>
Registry   == <<"Registry", "none", 1>>
FlatGetter == <<"InfoGetterFlat", "none", 1>>
Zero       == <<"none", "none", 0>>

FoundContracts == {<<c, "none", 1>> : c \in Found}

\* helpers.ozGetAddr
Addr(contract, pair) == <<contract, pair, recorded[<<contract, pair>>]>>
Proxy(contract)      == Addr(contract, "none")

\* The proxy the next ozAdd of the alias makes.
NewAddr(contract, pair) == <<contract, pair, recorded[<<contract, pair>>] + 1>>
NewProxy(contract)      == NewAddr(contract, "none")

Links(a, role) == {l[3] : l \in {k \in wired : k[1] = a /\ k[2] = role}}

\* OpenZeppelin's Initializable, seen from what initialize leaves behind.
Initialized(a) == Links(a, "governor") \cup Links(a, "provider") # {}

\* coinPairList of the OracleManager
RegisteredPairs == {p \in Pairs : Links(Proxy("OracleManager"), p) # {}}

\* onlyAuthorizedChanger, in a change the governor executes.
Governed(a) == Governor \in Links(a, "governor")

-----------------------------------------------------------------------------
(***************************************************************************)
(* The process.                                                            *)
(***************************************************************************)
Migrations == {1, 30, 50, 60, 70, 80, 100, 110, 120, 130, 150, 200, 250, 300, 1001}
LastMigration == 1001

After(m) == CHOOSE n \in Migrations : n > m /\ \A k \in Migrations : k > m => n <= k

Transactions(m) == CASE m = 250 -> 2 [] m = 300 -> 5 [] OTHER -> 1

\* Transaction t of migration m is the next one.
Turn(m, t) == mode = "running" /\ migration = m /\ tx = t

\* A migration is over when deploy() is.
Returned == IF migration = 150 THEN tx = 1 /\ todo = {} ELSE tx = Transactions(migration) + 1

\* The process starts migration m: the variables of deploy are new.
Begin(m) ==
    /\ migration' = m
    /\ tx' = 1
    /\ coin' = "none"
    /\ todo' = IF m = 150 THEN config'.pairs ELSE {}

\* The transaction was mined and deploy goes on.
Mined ==
    /\ tx' = tx + 1
    /\ UNCHANGED <<config, completed, mode, migration, coin, todo, attempts, torn>>

\* A transaction is reverted, or the script exits.
Abort ==
    /\ mode' = "failed"
    /\ UNCHANGED <<config, recorded, wired, completed, migration, tx, coin, todo, attempts, torn>>

\* Faulty variants of OzAdd: without force, and with a transaction that is sent twice.
OzAddReusing(contract, pair) == recorded' = [recorded EXCEPT ![<<contract, pair>>] = 1]
OzAddTwice(contract, pair)   == recorded' = [recorded EXCEPT ![<<contract, pair>>] = @ + 2]

\* helpers.ozAdd with force: a new proxy, also when the alias has one.
OzAdd(contract, pair) == recorded' = [recorded EXCEPT ![<<contract, pair>>] = @ + 1]

\* ozAdd with methodArgs: the proxy is created and initialized at once.
OzAddInitialized(contract, pair, links) ==
    /\ OzAdd(contract, pair)
    /\ wired' = wired \cup links

\* A call of initialize of a proxy that is there.
Initialize(a, links) ==
    IF Initialized(a)
    THEN Abort
    ELSE /\ wired' = wired \cup links
         /\ UNCHANGED recorded
         /\ Mined

\* CoinPairRegisterLib._registerCoinPair
Register(register, pair, a) ==
    /\ wired' = wired \cup {<<register, pair, a>>}
    /\ UNCHANGED recorded

-----------------------------------------------------------------------------
(***************************************************************************)
(* The transactions of the migrations, in their order.                     *)
(***************************************************************************)
\* 1: nothing is deployed with an incomplete network entry.
ConfigCheck ==
    /\ Turn(1, 1)
    /\ IF config.complete THEN Mined /\ UNCHANGED chainVars ELSE Abort

\* 30
AddInfoGetter ==
    /\ Turn(30, 1)
    /\ OzAddInitialized("InfoGetter", "none",
          {<<NewProxy("InfoGetter"), "governor", Governor>>})
    /\ Mined

\* 50, 60, 70, 80: proxies that wait for their initialize.
AddProxy(m, contract) ==
    /\ Turn(m, 1)
    /\ OzAdd(contract, "none")
    /\ UNCHANGED wired
    /\ Mined

\* 100
InitializeSupporters ==
    LET s == Proxy("Supporters")
    IN  /\ Turn(100, 1)
        /\ Initialize(s, {<<s, "governor", Governor>>, <<s, "whitelist", Proxy("Staking")>>,
                          <<s, "token", Token>>})

\* 110
InitializeOracleManager ==
    LET o == Proxy("OracleManager")
    IN  /\ Turn(110, 1)
        /\ Initialize(o, {<<o, "governor", Governor>>, <<o, "staking", Proxy("Staking")>>,
                          <<o, "whitelist", Proxy("Staking")>>})

\* 120
InitializeDelayMachine ==
    LET d == Proxy("DelayMachine")
    IN  /\ Turn(120, 1)
        /\ Initialize(d, {<<d, "governor", Governor>>, <<d, "token", Token>>,
                          <<d, "staking", Proxy("Staking")>>})

\* Faulty variant of InitializeStaking: two of its addresses are swapped.
InitializeStakingSwapped ==
    LET s == Proxy("Staking")
    IN  /\ Turn(130, 1)
        /\ Initialize(s, {<<s, "governor", Governor>>,
                          <<s, "supporters", Proxy("Supporters")>>,
                          <<s, "oracleManager", Proxy("DelayMachine")>>,
                          <<s, "delayMachine", Proxy("OracleManager")>>}
                         \cup {<<s, "token", t>> : t \in Links(Proxy("Supporters"), "token")})

\* 130: Staking takes its token from Supporters.
InitializeStaking ==
    LET s == Proxy("Staking")
    IN  /\ Turn(130, 1)
        /\ Initialize(s, {<<s, "governor", Governor>>,
                          <<s, "supporters", Proxy("Supporters")>>,
                          <<s, "oracleManager", Proxy("OracleManager")>>,
                          <<s, "delayMachine", Proxy("DelayMachine")>>}
                         \cup {<<s, "token", t>> : t \in Links(Proxy("Supporters"), "token")})

\* 150, for each coin pair of the configuration
AddPairFree(p) ==
    /\ Turn(150, 1)
    /\ coin' = p
    /\ todo' = todo \ {p}
    /\ tx' = 2
    /\ OzAdd("CoinPairPriceFree", p)
    /\ UNCHANGED <<wired, config, completed, mode, migration, attempts, torn>>

AddPair ==
    LET c == NewAddr("CoinPairPrice", coin)
    IN  /\ Turn(150, 2)
        /\ OzAddInitialized("CoinPairPrice", coin,
              {<<c, "governor", Governor>>, <<c, "token", Token>>,
               <<c, "whitelist", Addr("CoinPairPriceFree", coin)>>,
               <<c, "whitelist", Proxy("InfoGetter")>>,
               <<c, "oracleManager", Proxy("OracleManager")>>, <<c, "registry", Registry>>})
        /\ Mined

\* Faulty variant of InitializePairFree: an alias of an earlier attempt is taken
\* for initialized.
InitializeNewPairFree ==
    LET f == Addr("CoinPairPriceFree", coin)
    IN  /\ Turn(150, 3)
        /\ IF f[3] > 1
           THEN UNCHANGED chainVars /\ Mined
           ELSE Initialize(f, {<<f, "provider", Addr("CoinPairPrice", coin)>>})

InitializePairFree ==
    LET f == Addr("CoinPairPriceFree", coin)
    IN  /\ Turn(150, 3)
        /\ Initialize(f, {<<f, "provider", Addr("CoinPairPrice", coin)>>})

RegisterPair ==
    LET o == Proxy("OracleManager")
    IN  /\ Turn(150, 4)
        /\ IF Governed(o) /\ Links(o, coin) = {}
           THEN /\ Register(o, coin, Addr("CoinPairPrice", coin))
                /\ tx' = 1
                /\ UNCHANGED <<config, completed, mode, migration, coin, todo, attempts, torn>>
           ELSE Abort

\* Faulty variant of RegisterValues: the registry takes a value only once.
RegisterValuesOnce ==
    /\ Turn(200, 1)
    /\ IF \A n \in RegistryNames : Links(Registry, n) = {}
       THEN /\ wired' = wired \cup {<<Registry, n, Proxy(n)>> : n \in RegistryNames}
            /\ UNCHANGED recorded
            /\ Mined
       ELSE Abort

\* 200: setAddress overwrites.
RegisterValues ==
    /\ Turn(200, 1)
    /\ wired' = {l \in wired : l[1] # Registry}
                  \cup {<<Registry, n, Proxy(n)>> : n \in RegistryNames}
    /\ UNCHANGED recorded
    /\ Mined

\* 250
AddRegister ==
    /\ Turn(250, 1)
    /\ OzAddInitialized("PriceProviderRegister", "none",
          {<<NewProxy("PriceProviderRegister"), "governor", Governor>>})
    /\ Mined

RegisterAllPairs ==
    LET r == Proxy("PriceProviderRegister")
    IN  /\ Turn(250, 2)
        /\ IF \A p \in RegisteredPairs : Links(r, p) = {}
           THEN /\ wired' = wired \cup UNION {{<<r, p, a>> : a \in Links(Proxy("OracleManager"), p)} :
                                              p \in RegisteredPairs}
                /\ UNCHANGED recorded
                /\ Mined
           ELSE Abort

\* 300
Sources == UNION {IF Links(Proxy("PriceProviderRegister"), p) = {}
                  THEN {Zero}
                  ELSE Links(Proxy("PriceProviderRegister"), p) : p \in BasePairs}

AddCalculatedFree ==
    /\ Turn(300, 1)
    /\ OzAdd("CoinPairPriceFree", Calculated)
    /\ UNCHANGED wired
    /\ Mined

AddCalculated ==
    LET c == NewProxy("CalculatedPriceProvider")
    IN  /\ Turn(300, 2)
        /\ OzAddInitialized("CalculatedPriceProvider", "none",
              {<<c, "governor", Governor>>,
               <<c, "whitelist", Addr("CoinPairPriceFree", Calculated)>>}
              \cup {<<c, "multiplyBy", s>> : s \in Sources})
        /\ Mined

InitializeCalculatedFree ==
    LET f == Addr("CoinPairPriceFree", Calculated)
    IN  /\ Turn(300, 3)
        /\ Initialize(f, {<<f, "provider", Proxy("CalculatedPriceProvider")>>})

\* Faulty variant of WhitelistCalculated: the free contract is let in instead.
WhitelistCalculatedFree ==
    /\ Turn(300, 4)
    /\ IF \A s \in Sources : Governed(s)
       THEN /\ wired' = wired \cup
                  {<<s, "whitelist", Addr("CoinPairPriceFree", Calculated)>> : s \in Sources}
            /\ UNCHANGED recorded
            /\ Mined
       ELSE Abort

\* The change runs in every source; there is none at address(0).
WhitelistCalculated ==
    /\ Turn(300, 4)
    /\ IF \A s \in Sources : Governed(s)
       THEN /\ wired' = wired \cup {<<s, "whitelist", Proxy("CalculatedPriceProvider")>> : s \in Sources}
            /\ UNCHANGED recorded
            /\ Mined
       ELSE Abort

RegisterCalculated ==
    LET r == Proxy("PriceProviderRegister")
    IN  /\ Turn(300, 5)
        /\ IF Governed(r) /\ Links(r, Calculated) = {}
           THEN Register(r, Calculated, Proxy("CalculatedPriceProvider")) /\ Mined
           ELSE Abort

\* 1001
UpgradeInfoGetter ==
    /\ Turn(1001, 1)
    /\ wired' = wired \cup {<<Proxy("InfoGetter"), "implementation", FlatGetter>>}
    /\ UNCHANGED recorded
    /\ Mined

Transaction ==
    \/ ConfigCheck \/ AddInfoGetter
    \/ AddProxy(50, "Supporters") \/ AddProxy(60, "OracleManager")
    \/ AddProxy(70, "DelayMachine") \/ AddProxy(80, "Staking")
    \/ InitializeSupporters \/ InitializeOracleManager
    \/ InitializeDelayMachine \/ InitializeStaking
    \/ \E p \in todo : AddPairFree(p)
    \/ AddPair \/ InitializePairFree \/ RegisterPair
    \/ RegisterValues \/ AddRegister \/ RegisterAllPairs
    \/ AddCalculatedFree \/ AddCalculated \/ InitializeCalculatedFree
    \/ WhitelistCalculated \/ RegisterCalculated \/ UpgradeInfoGetter

-----------------------------------------------------------------------------
(***************************************************************************)
(* Truffle and its operator.                                               *)
(***************************************************************************)
\* Migrations.setCompleted
SetCompleted ==
    /\ mode = "running"
    /\ Returned
    /\ completed' = migration
    /\ UNCHANGED <<config, chainVars, attempts, torn>>
    /\ IF migration = LastMigration
       THEN mode' = "stopped" /\ UNCHANGED <<migration, tx, coin, todo>>
       ELSE Begin(After(migration)) /\ UNCHANGED mode

\* truffle migrate; between two attempts the operator may complete the network
\* entry and take out of it the pairs that are registered already.
Migrate ==
    /\ mode # "running"
    /\ completed # LastMigration
    /\ attempts < MaxAttempts
    /\ attempts' = attempts + 1
    /\ mode' = "running"
    /\ config' \in {config, [pairs |-> config.pairs \ RegisteredPairs, complete |-> TRUE]}
    /\ Begin(After(completed))
    /\ UNCHANGED <<chainVars, completed, torn>>

\* What the migration that runs did already makes its next call fail.
Unrepeatable ==
    \/ migration \in {100, 110, 120, 130} /\ Returned
    \/ migration = 150 /\ config.pairs \cap RegisteredPairs # {}
    \/ migration = 300 /\ Returned

\* The process ends between two transactions, or before it knows that the last
\* one was mined.
Interrupt ==
    /\ mode = "running"
    /\ attempts < MaxAttempts
    /\ mode' = "stopped"
    /\ torn' = IF Unrepeatable THEN torn \cup {migration} ELSE torn
    /\ UNCHANGED <<config, chainVars, completed, migration, tx, coin, todo, attempts>>

Progress == Transaction \/ SetCompleted \/ Migrate

DeployInit ==
    /\ config \in [pairs : SUBSET Pairs, complete : BOOLEAN]
    /\ recorded = [a \in Aliases |-> 0]
    /\ wired = {<<c, "governor", Governor>> : c \in FoundContracts}
    /\ completed = 0
    /\ mode = "stopped" /\ migration = 1 /\ tx = 1 /\ coin = "none" /\ todo = {}
    /\ attempts = 0
    /\ torn = {}

DeployNext == Progress \/ Interrupt

\* A process that runs goes on, and an operator whose deployment is not
\* complete tries again.
DeploySpec == DeployInit /\ [][DeployNext]_deployVars /\ WF_deployVars(Progress)

-----------------------------------------------------------------------------
(***************************************************************************)
(* Properties.                                                             *)
(***************************************************************************)
Contract == {<<a[1], a[2], n>> : a \in Aliases, n \in 0..MaxAttempts}
Roles    == LinkNames \cup Pairs \cup {Calculated}

DeployTypeOK ==
    /\ config \in [pairs : SUBSET Pairs, complete : BOOLEAN]
    /\ recorded \in [Aliases -> 0..MaxAttempts]
    /\ wired \subseteq (Contract \cup FoundContracts \cup {Registry}) \X Roles
                         \X (Contract \cup {Governor, Token, Registry, FlatGetter, Zero})
    /\ completed \in Migrations \cup {0}
    /\ mode \in {"stopped", "running", "failed"}
    /\ migration \in Migrations /\ tx \in 1..6
    /\ coin \in Pairs \cup {"none"} /\ todo \subseteq Pairs
    /\ attempts \in 0..MaxAttempts
    /\ torn \subseteq Migrations

\* The contract f lets clients read the provider c for free.
ReadsFor(f, c) == f \in Links(c, "whitelist") /\ c \in Links(f, "provider")

\* However often migration 150 was interrupted and repeated, a pair the
\* OracleManager has registered reports to it, and clients can read its price: the
\* CoinPairPriceFree in its whitelist was initialized, and with this pair.
RegisteredPairsReadable ==
    \A p \in RegisteredPairs : \A c \in Links(Proxy("OracleManager"), p) :
       /\ Links(c, "oracleManager") = {Proxy("OracleManager")}
       /\ \E f \in Links(c, "whitelist") : ReadsFor(f, c)

\* Migration 300 registers the calculated price only when every pair it is
\* calculated from lets it read, and its own clients can read it.
CalculatedReadable ==
    \A c \in Links(Proxy("PriceProviderRegister"), Calculated) :
       /\ \A s \in Links(c, "multiplyBy") : c \in Links(s, "whitelist")
       /\ \E f \in Links(c, "whitelist") : ReadsFor(f, c)

\* Once Staking is initialized the four contracts that move the stakes know each
\* other and no abandoned proxy of an earlier attempt, and use one token; and the
\* registry and the register of prices name what is in use once they are filled.
ContractsAgree ==
    LET staking == Proxy("Staking")
    IN  /\ completed >= 130 =>
             /\ Links(staking, "supporters") = {Proxy("Supporters")}
             /\ Links(Proxy("Supporters"), "whitelist") = {staking}
             /\ Links(staking, "oracleManager") = {Proxy("OracleManager")}
             /\ Links(Proxy("OracleManager"), "staking") = {staking}
             /\ Links(staking, "delayMachine") = {Proxy("DelayMachine")}
             /\ Links(Proxy("DelayMachine"), "staking") = {staking}
             /\ \A c \in {"Staking", "Supporters", "DelayMachine"} : Links(Proxy(c), "token") = {Token}
        /\ completed >= 200 => \A n \in RegistryNames : Links(Registry, n) = {Proxy(n)}
        /\ completed >= 250 => \A p \in Pairs :
              Links(Proxy("PriceProviderRegister"), p) = Links(Proxy("OracleManager"), p)

\* Repeating a migration fails only where it was interrupted after a call it
\* cannot make twice, or where a pair RIFUSD is calculated from was never configured.
FailureExplained ==
    mode = "failed" =>
       \/ ~config.complete
       \/ migration \in torn
       \/ migration = 300 /\ Zero \in Sources

\* With the configuration complete, the deployment comes to its end, if no
\* interruption hits one of those places.
DeploymentFinishes ==
    config.complete /\ BasePairs \subseteq config.pairs ~> completed = LastMigration \/ torn # {}
=============================================================================
