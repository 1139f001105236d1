----------------------- MODULE OperatorScripts_proofs -----------------------
(***************************************************************************)
(* Theorems about Deployment and OperatorScripts: however often the        *)
(* migrations are interrupted and repeated, what they wire together fits,  *)
(* and no interleaving of the operator's scripts tears it apart.           *)
(*                                                                         *)
(* The invariant of the deployment has one part for each contract, which   *)
(* says what its links may be and where in the migrations they were made,  *)
(* and parts for the values deploy() holds between two transactions.       *)
(***************************************************************************)
EXTENDS OperatorScripts, TLAPS

-----------------------------------------------------------------------------
(***************************************************************************)
(* The position of the process.                                            *)
(***************************************************************************)

\* Transaction t of migration m was mined, and no migration before m runs again.
Done(m, t) == completed >= m \/ (mode = "running" /\ migration = m /\ tx > t)

\* The process is between two transactions of migration m, the next one in S.
At(m, S) == mode = "running" /\ migration = m /\ tx \in S

Position ==
    /\ completed # LastMigration => migration = After(completed)
    /\ completed = LastMigration => mode = "stopped"
    /\ mode = "running" =>
          tx \in IF migration = 150 THEN 1..4 ELSE 1..(Transactions(migration) + 1)
    /\ todo \subseteq config.pairs
    /\ At(150, 2..4) => coin \in config.pairs \ todo

\* The only transaction that makes a proxy of an alias with one.
OzAdds == {<<30, 1, "InfoGetter", "none">>, <<50, 1, "Supporters", "none">>,
           <<60, 1, "OracleManager", "none">>, <<70, 1, "DelayMachine", "none">>,
           <<80, 1, "Staking", "none">>, <<250, 1, "PriceProviderRegister", "none">>,
           <<300, 1, "CoinPairPriceFree", Calculated>>,
           <<300, 2, "CalculatedPriceProvider", "none">>}

\* This attempt has still to make its proxy of the alias.
Ahead(contract, pair) ==
    \/ \E s \in OzAdds : /\ s[3] = contract /\ s[4] = pair
                         /\ migration < s[1] \/ (migration = s[1] /\ tx <= s[2])
    \/ /\ contract \in PerPair /\ pair \in Pairs
       /\ \/ migration < 150
          \/ migration = 150 /\ pair \in todo
          \/ migration = 150 /\ contract = "CoinPairPrice" /\ pair = coin /\ tx = 2

\* An attempt makes at most one proxy of an alias.
ProxiesCounted ==
    \A c \in Single \cup PerPair, p \in Pairs \cup {Calculated, "none"} :
       <<c, p>> \in Aliases =>
          /\ recorded[<<c, p>>] <= attempts
          /\ mode = "running" /\ Ahead(c, p) => recorded[<<c, p>>] < attempts

-----------------------------------------------------------------------------
(***************************************************************************)
(* What the links of a contract may be.                                    *)
(***************************************************************************)

\* Only what there is has links.
Fresh ==
    \A l \in wired :
       \/ l[1] \in FoundContracts \cup {Registry}
       \/ <<l[1][1], l[1][2]>> \in Aliases /\ l[1][3] <= recorded[<<l[1][1], l[1][2]>>]

GovernorFirst == \A l \in wired : l[2] = "governor" => l[3] = Governor

\* The links of all proxies of a contract.
Of(contract) == {l \in wired : l[1][1] = contract}

SupportersLinks ==
    \A l \in Of("Supporters") :
       /\ completed >= 80 /\ l[1] = Proxy("Supporters")
       /\ l[2] = "whitelist" => l[3] = Proxy("Staking")
       /\ l[2] = "token" => l[3] = Token
       /\ Done(100, 1) \/ 100 \in torn

ManagerLinks ==
    \A l \in Of("OracleManager") :
       /\ completed >= 80 /\ l[1] = Proxy("OracleManager")
       /\ l[2] = "staking" => l[3] = Proxy("Staking")
       /\ l[2] \in Pairs => completed >= 130 /\ l[3][1] = "CoinPairPrice"
       /\ l[2] # Calculated
       /\ Done(110, 1) \/ 110 \in torn

MachineLinks ==
    \A l \in Of("DelayMachine") :
       /\ completed >= 80 /\ l[1] = Proxy("DelayMachine")
       /\ l[2] = "staking" => l[3] = Proxy("Staking")
       /\ l[2] = "token" => l[3] = Token
       /\ Done(120, 1) \/ 120 \in torn

StakingLinks ==
    \A l \in Of("Staking") :
       /\ completed >= 80 /\ l[1] = Proxy("Staking")
       /\ l[2] = "supporters" => l[3] = Proxy("Supporters")
       /\ l[2] = "oracleManager" => l[3] = Proxy("OracleManager")
       /\ l[2] = "delayMachine" => l[3] = Proxy("DelayMachine")
       /\ l[2] = "token" => l[3] = Token
       /\ Done(130, 1) \/ 130 \in torn

PairLinks ==
    \A l \in Of("CoinPairPrice") :
       /\ completed >= 130
       /\ l[2] = "oracleManager" => l[3] = Proxy("OracleManager")

RegistryLinks ==
    \A l \in Of("Registry") : completed >= 150 /\ l[2] \in RegistryNames /\ l[3] = Proxy(l[2])

RegisterLink(l) ==
    /\ completed >= 200
    /\ l[2] \in Pairs => <<Proxy("OracleManager"), l[2], l[3]>> \in wired
    /\ l[2] = Calculated => /\ completed >= 250 /\ l[1] = Proxy("PriceProviderRegister")
                            /\ Done(300, 5) \/ 300 \in torn

RegisterLinks == \A l \in Of("PriceProviderRegister") : RegisterLink(l)

CalculatedLinks ==
    \A l \in Of("CalculatedPriceProvider") :
       completed >= 250 /\ (l[2] = "multiplyBy" => l[3] \in Sources)

-----------------------------------------------------------------------------
(***************************************************************************)
(* What links there are.                                                   *)
(***************************************************************************)
FoundGoverned == \A c \in FoundContracts : <<c, "governor", Governor>> \in wired

GetterWired == <<Proxy("InfoGetter"), "governor", Governor>> \in wired

SupportersWired ==
    {<<Proxy("Supporters"), "governor", Governor>>,
     <<Proxy("Supporters"), "whitelist", Proxy("Staking")>>,
     <<Proxy("Supporters"), "token", Token>>} \subseteq wired

ManagerWired ==
    {<<Proxy("OracleManager"), "governor", Governor>>,
     <<Proxy("OracleManager"), "staking", Proxy("Staking")>>} \subseteq wired

MachineWired ==
    {<<Proxy("DelayMachine"), "token", Token>>,
     <<Proxy("DelayMachine"), "staking", Proxy("Staking")>>} \subseteq wired

StakingWired ==
    {<<Proxy("Staking"), "supporters", Proxy("Supporters")>>,
     <<Proxy("Staking"), "oracleManager", Proxy("OracleManager")>>,
     <<Proxy("Staking"), "delayMachine", Proxy("DelayMachine")>>,
     <<Proxy("Staking"), "token", Token>>} \subseteq wired

RegistryWired == \A n \in RegistryNames : <<Registry, n, Proxy(n)>> \in wired

RegisterWired == <<Proxy("PriceProviderRegister"), "governor", Governor>> \in wired

PricesWired ==
    \A l \in wired : l[1] = Proxy("OracleManager") /\ l[2] \in Pairs =>
       <<Proxy("PriceProviderRegister"), l[2], l[3]>> \in wired

CoreWired ==
    /\ Done(30, 1) => GetterWired
    /\ Done(100, 1) => SupportersWired
    /\ Done(110, 1) => ManagerWired
    /\ Done(120, 1) => MachineWired
    /\ Done(130, 1) => StakingWired
    /\ Done(200, 1) => RegistryWired
    /\ Done(250, 1) => RegisterWired
    /\ Done(250, 2) => PricesWired

\* A pair that is registered can be governed and read, and reports.
PairReady(c) ==
    /\ <<c, "governor", Governor>> \in wired
    /\ <<c, "oracleManager", Proxy("OracleManager")>> \in wired
    /\ \E f \in Contract : <<c, "whitelist", f>> \in wired /\ <<f, "provider", c>> \in wired

PairsReady == \A l \in Of("OracleManager") : l[2] \in Pairs => PairReady(l[3])

CalculatedReady(c) ==
    /\ c[1] = "CalculatedPriceProvider"
    /\ <<c, "governor", Governor>> \in wired
    /\ \A s \in Sources : <<s, "whitelist", c>> \in wired
    /\ \E f \in Contract : <<c, "whitelist", f>> \in wired /\ <<f, "provider", c>> \in wired

CalculatedsReady ==
    \A l \in Of("PriceProviderRegister") : l[2] = Calculated => CalculatedReady(l[3])

-----------------------------------------------------------------------------
(***************************************************************************)
(* Between two transactions of a migration.                                *)
(***************************************************************************)
NoLinks(a) == \A l \in wired : l[1] # a

InPairs ==
    LET c == Addr("CoinPairPrice", coin)
        f == Addr("CoinPairPriceFree", coin)
    IN  /\ At(150, 2..3) => NoLinks(f)
        /\ At(150, 3..4) => {<<c, "governor", Governor>>, <<c, "whitelist", f>>,
                             <<c, "oracleManager", Proxy("OracleManager")>>} \subseteq wired
        /\ At(150, {4}) => <<f, "provider", c>> \in wired

InRegister ==
    At(250, {2}) =>
       \A l \in wired : l[1] = Proxy("PriceProviderRegister") => l[2] = "governor"

InCalculated ==
    LET c == Proxy("CalculatedPriceProvider")
        f == Addr("CoinPairPriceFree", Calculated)
    IN  /\ At(300, 2..3) => NoLinks(f)
        /\ At(300, 3..5) => {<<c, "governor", Governor>>, <<c, "whitelist", f>>} \subseteq wired
        /\ At(300, 4..5) => <<f, "provider", c>> \in wired
        /\ At(300, {5}) => \A s \in Sources : <<s, "whitelist", c>> \in wired

\* The pairs deploy() of migration 150 still has to register.
Unregistered == IF tx = 1 THEN todo ELSE todo \cup {coin}

\* It finds one of them registered only after an interruption.
PairsTorn ==
    completed = 130 =>
       IF mode = "running"
       THEN Unregistered \cap RegisteredPairs # {} => 150 \in torn
       ELSE config.pairs \cap RegisteredPairs # {} => 150 \in torn

LinksFit ==
    /\ SupportersLinks /\ ManagerLinks /\ MachineLinks /\ StakingLinks /\ PairLinks
    /\ RegistryLinks /\ RegisterLinks /\ CalculatedLinks

\* The parts of DeployTypeOK: the links, and the process.
LinkTypes == (Contract \cup FoundContracts \cup {Registry}) \X Roles
               \X (Contract \cup {Governor, Token, Registry, FlatGetter, Zero})

WiredTyped == wired \subseteq LinkTypes

ProcessTyped ==
    /\ config \in [pairs : SUBSET Pairs, complete : BOOLEAN]
    /\ completed \in Migrations \cup {0}
    /\ mode \in {"stopped", "running", "failed"}
    /\ migration \in Migrations /\ tx \in 1..6
    /\ coin \in Pairs \cup {"none"} /\ todo \subseteq Pairs
    /\ attempts \in 0..MaxAttempts
    /\ torn \subseteq Migrations

LinkInv ==
    /\ WiredTyped /\ Fresh /\ GovernorFirst /\ LinksFit
    /\ FoundGoverned /\ CoreWired /\ PairsReady /\ CalculatedsReady

ScriptInv == InPairs /\ InRegister /\ InCalculated /\ PairsTorn /\ FailureExplained

DeployInv == DeployTypeOK /\ Position /\ ProxiesCounted /\ LinkInv /\ ScriptInv

-----------------------------------------------------------------------------
(***************************************************************************)
(* Links and proxies.                                                      *)
(***************************************************************************)
LEMMA NextMigration ==
    ASSUME NEW m \in Migrations \cup {0}, m # LastMigration
    PROVE  /\ After(m) \in Migrations /\ After(m) > m
           /\ \A k \in Migrations : k > m => After(m) <= k
<1> DEFINE Follows(n) == n \in Migrations /\ n > m /\ \A k \in Migrations : k > m => n <= k
<1>1. \E n : Follows(n)
  BY DEF Migrations, LastMigration
<1>2. Follows(CHOOSE n : Follows(n))
  BY <1>1
<1>3. After(m) = CHOOSE n : Follows(n)
  <2>1. \A n : Follows(n) <=> n \in Migrations /\ (n > m /\ \A k \in Migrations : k > m => n <= k)
    OBVIOUS
  <2> QED
    BY <2>1 DEF After
<1> QED
  BY <1>2, <1>3

LinksAreWired == \A a, r, x : x \in Links(a, r) <=> <<a, r, x>> \in wired

LEMMA TypeParts ==
    DeployTypeOK <=> ProcessTyped /\ recorded \in [Aliases -> 0..MaxAttempts] /\ WiredTyped
BY DEF DeployTypeOK, ProcessTyped, WiredTyped, LinkTypes

LEMMA LinksOfWired == WiredTyped => LinksAreWired
<1> SUFFICES ASSUME WiredTyped, NEW a, NEW r, NEW x
             PROVE  x \in Links(a, r) <=> <<a, r, x>> \in wired
  BY DEF LinksAreWired
<1>1. \A l \in wired : l = <<l[1], l[2], l[3]>>
  BY DEF WiredTyped, LinkTypes
<1>2. x \in Links(a, r) <=> \E l \in wired : l[1] = a /\ l[2] = r /\ l[3] = x
  BY DEF Links
<1>3. ASSUME NEW l \in wired, l[1] = a, l[2] = r, l[3] = x PROVE <<a, r, x>> \in wired
  BY <1>1, <1>3
<1>4. ASSUME <<a, r, x>> \in wired
      PROVE  \E l \in wired : l[1] = a /\ l[2] = r /\ l[3] = x
  <2> DEFINE l == <<a, r, x>>
  <2>1. l[1] = a /\ l[2] = r /\ l[3] = x
    OBVIOUS
  <2> QED
    BY <1>4, <2>1
<1> QED
  BY <1>2, <1>3, <1>4

LEMMA AliasNames ==
    /\ \A c \in Single : <<c, "none">> \in Aliases
    /\ \A c \in PerPair, p \in Pairs \cup {Calculated} : <<c, p>> \in Aliases
    /\ "none" \notin Pairs \cup {Calculated} /\ Calculated \notin Pairs
BY DeploymentAssumption DEF Aliases

LEMMA AddressTyped ==
    ASSUME DeployTypeOK, NEW c, NEW p, <<c, p>> \in Aliases
    PROVE  /\ recorded[<<c, p>>] \in 0..MaxAttempts
           /\ Addr(c, p) \in Contract
           /\ Addr(c, p) = <<c, p, recorded[<<c, p>>]>>
<1> DEFINE a == <<c, p>>
           n == recorded[a]
<1>1. a \in Aliases /\ a[1] = c /\ a[2] = p
  OBVIOUS
<1>2. n \in 0..MaxAttempts
  BY <1>1 DEF DeployTypeOK
<1> HIDE DEF a, n
<1>3. <<a[1], a[2], n>> \in Contract
  BY <1>1, <1>2 DEF Contract
<1> QED
  BY <1>1, <1>2, <1>3 DEF a, n, Addr

-----------------------------------------------------------------------------
(***************************************************************************)
(* What every step leaves alone.                                           *)
(***************************************************************************)

\* A transaction is the next one of the migration that runs: deploy goes on
\* after it, or the process ends.
Works ==
    /\ mode = "running"
    /\ UNCHANGED <<config, completed, migration, attempts, torn>>
    /\ migration # 150 => tx <= Transactions(migration) /\ UNCHANGED <<coin, todo>>
    /\ \/ mode' = "running" /\ (migration # 150 => tx' = tx + 1)
       \/ mode' = "failed" /\ UNCHANGED <<chainVars, tx, coin, todo>>

LEMMA TransactionWorks == Transaction => Works
<1> SUFFICES ASSUME Transaction PROVE Works
  OBVIOUS
<1> USE DEF Works, Turn, Mined, Abort, Transactions, chainVars
<1>1. CASE ConfigCheck
  BY <1>1 DEF ConfigCheck
<1>2. CASE AddInfoGetter
  BY <1>2 DEF AddInfoGetter
<1>3. ASSUME NEW c, NEW m \in {50, 60, 70, 80}, AddProxy(m, c) PROVE Works
  BY <1>3 DEF AddProxy
<1>4. CASE InitializeSupporters
  BY <1>4 DEF InitializeSupporters, Initialize
<1>5. CASE InitializeOracleManager
  BY <1>5 DEF InitializeOracleManager, Initialize
<1>6. CASE InitializeDelayMachine
  BY <1>6 DEF InitializeDelayMachine, Initialize
<1>7. CASE InitializeStaking
  BY <1>7 DEF InitializeStaking, Initialize
<1>8. ASSUME NEW p \in todo, AddPairFree(p) PROVE Works
  BY <1>8 DEF AddPairFree
<1>9. CASE AddPair
  BY <1>9 DEF AddPair
<1>10. CASE InitializePairFree
  BY <1>10 DEF InitializePairFree, Initialize
<1>11. CASE RegisterPair
  BY <1>11 DEF RegisterPair
<1>12. CASE RegisterValues
  BY <1>12 DEF RegisterValues
<1>13. CASE AddRegister
  BY <1>13 DEF AddRegister
<1>14. CASE RegisterAllPairs
  BY <1>14 DEF RegisterAllPairs
<1>15. CASE AddCalculatedFree
  BY <1>15 DEF AddCalculatedFree
<1>16. CASE AddCalculated
  BY <1>16 DEF AddCalculated
<1>17. CASE InitializeCalculatedFree
  BY <1>17 DEF InitializeCalculatedFree, Initialize
<1>18. CASE WhitelistCalculated
  BY <1>18 DEF WhitelistCalculated
<1>19. CASE RegisterCalculated
  BY <1>19 DEF RegisterCalculated
<1>20. CASE UpgradeInfoGetter
  BY <1>20 DEF UpgradeInfoGetter
<1> QED
  BY <1>1, <1>2, <1>3, <1>4, <1>5, <1>6, <1>7, <1>8, <1>9, <1>10, <1>11, <1>12, <1>13,
     <1>14, <1>15, <1>16, <1>17, <1>18, <1>19, <1>20 DEF Transaction

\* Only one kind of transaction changes what the network file has.
LEMMA TransactionAdds ==
    ASSUME Transaction
    PROVE  \/ recorded' = recorded
           \/ \E s \in OzAdds : Turn(s[1], s[2]) /\ OzAdd(s[3], s[4])
           \/ \E p \in todo : AddPairFree(p)
           \/ AddPair
<1> DEFINE Goal == \/ recorded' = recorded
                   \/ \E s \in OzAdds : Turn(s[1], s[2]) /\ OzAdd(s[3], s[4])
<1>1. ASSUME NEW m, NEW t, NEW c, NEW p, <<m, t, c, p>> \in OzAdds, Turn(m, t), OzAdd(c, p)
      PROVE  Goal
  <2> DEFINE s == <<m, t, c, p>>
  <2>1. s[1] = m /\ s[2] = t /\ s[3] = c /\ s[4] = p
    OBVIOUS
  <2> QED
    BY <1>1, <2>1
<1>2. /\ <<30, 1, "InfoGetter", "none">> \in OzAdds
      /\ <<50, 1, "Supporters", "none">> \in OzAdds
      /\ <<60, 1, "OracleManager", "none">> \in OzAdds
      /\ <<70, 1, "DelayMachine", "none">> \in OzAdds
      /\ <<80, 1, "Staking", "none">> \in OzAdds
      /\ <<250, 1, "PriceProviderRegister", "none">> \in OzAdds
      /\ <<300, 1, "CoinPairPriceFree", Calculated>> \in OzAdds
      /\ <<300, 2, "CalculatedPriceProvider", "none">> \in OzAdds
  BY DEF OzAdds
<1> HIDE DEF Goal
<1>3. CASE AddInfoGetter \/ AddRegister \/ AddCalculated
  BY <1>1, <1>2, <1>3 DEF AddInfoGetter, AddRegister, AddCalculated, OzAddInitialized
<1>4. CASE \/ AddProxy(50, "Supporters") \/ AddProxy(60, "OracleManager")
           \/ AddProxy(70, "DelayMachine") \/ AddProxy(80, "Staking")
           \/ AddCalculatedFree
  BY <1>1, <1>2, <1>4 DEF AddProxy, AddCalculatedFree
<1>5. ASSUME \/ ConfigCheck
             \/ InitializeSupporters \/ InitializeOracleManager
             \/ InitializeDelayMachine \/ InitializeStaking
             \/ InitializePairFree \/ RegisterPair \/ RegisterValues \/ RegisterAllPairs
             \/ InitializeCalculatedFree \/ WhitelistCalculated \/ RegisterCalculated
             \/ UpgradeInfoGetter
      PROVE  recorded' = recorded
  BY <1>5 DEF ConfigCheck, InitializeSupporters, InitializeOracleManager,
              InitializeDelayMachine, InitializeStaking, InitializePairFree, RegisterPair,
              RegisterValues, RegisterAllPairs, InitializeCalculatedFree,
              WhitelistCalculated, RegisterCalculated, UpgradeInfoGetter, Initialize,
              Register, Abort, chainVars
<1> QED
  BY <1>3, <1>4, <1>5 DEF Transaction, Goal

LEMMA PositionTyped ==
    ASSUME DeployTypeOK, Position
    PROVE  /\ completed \in Migrations \cup {0} /\ completed \in Nat
           /\ migration \in Migrations /\ migration \in Nat
           /\ completed # LastMigration => migration > completed
           /\ mode = "running" => completed # LastMigration
           /\ tx \in Nat
<1>1. completed \in Migrations \cup {0} /\ migration \in Migrations /\ tx \in Nat
  BY DEF DeployTypeOK
<1>2. Migrations \subseteq Nat
  BY DEF Migrations
<1> QED
  BY <1>1, <1>2, NextMigration DEF Position

\* The migrations before the one that runs are over.
LEMMA EarlierOver ==
    ASSUME DeployTypeOK, Position, mode = "running"
    PROVE  completed < migration /\ \A k \in Migrations : k < migration => k <= completed
<1>1. completed # LastMigration /\ migration = After(completed)
  BY DEF Position
<1>2. completed \in Nat /\ migration \in Nat
  BY PositionTyped
<1>3. ASSUME NEW k \in Migrations, k < migration PROVE k <= completed
  <2>1. k \in Nat
    BY DEF Migrations
  <2>2. k > completed => After(completed) <= k
    BY <1>1, NextMigration DEF DeployTypeOK
  <2> QED
    BY <1>1, <1>2, <1>3, <2>1, <2>2
<1> QED
  BY <1>1, <1>3, PositionTyped

\* What a step may not take back, once the process has come this far.
Frame ==
    /\ completed <= completed' /\ torn \subseteq torn'
    /\ \A m \in {100, 110, 120, 130} :
          Done(m, 1) \/ m \in torn => Done(m, 1)' \/ m \in torn'
    /\ Done(300, 5) \/ 300 \in torn => Done(300, 5)' \/ 300 \in torn'
    /\ Done(30, 1) => Proxy("InfoGetter")' = Proxy("InfoGetter")
    /\ completed >= 80 => \A c \in {"Supporters", "OracleManager", "DelayMachine", "Staking"} :
                             Proxy(c)' = Proxy(c)
    /\ Done(250, 1) => Proxy("PriceProviderRegister")' = Proxy("PriceProviderRegister")
    /\ \A a \in Aliases : recorded[a] <= recorded'[a]

\* The process only gets further, and records what it may not repeat.
LEMMA ProcessFrame ==
    ASSUME DeployTypeOK, Position, DeployNext
    PROVE  /\ completed <= completed' /\ torn \subseteq torn'
           /\ \A m \in {100, 110, 120, 130} :
                 Done(m, 1) \/ m \in torn => Done(m, 1)' \/ m \in torn'
           /\ Done(300, 5) \/ 300 \in torn => Done(300, 5)' \/ 300 \in torn'
<1> USE PositionTyped
<1>1. CASE Transaction
  <2>1. Works
    BY <1>1, TransactionWorks
  <2>2. completed <= completed' /\ torn \subseteq torn'
    BY <2>1 DEF Works
  <2>3. ASSUME NEW m \in {100, 110, 120, 130}, Done(m, 1) PROVE Done(m, 1)'
    BY <2>1, <2>3 DEF Works, Done, Transactions
  <2>4. ASSUME Done(300, 5) PROVE Done(300, 5)'
    BY <2>1, <2>4 DEF Works, Done, Transactions
  <2> QED
    BY <2>2, <2>3, <2>4
<1>2. CASE SetCompleted
  <2>1. completed' = migration /\ torn' = torn /\ mode = "running"
    BY <1>2 DEF SetCompleted
  <2> QED
    BY <2>1 DEF Done
<1>3. CASE Migrate
  <2>1. completed' = completed /\ torn' = torn /\ mode # "running"
    BY <1>3 DEF Migrate
  <2> QED
    BY <2>1 DEF Done
<1>4. CASE Interrupt
  <2>1. /\ completed' = completed /\ mode = "running"
        /\ torn' = IF Unrepeatable THEN torn \cup {migration} ELSE torn
    BY <1>4 DEF Interrupt
  <2>2. ASSUME NEW m \in {100, 110, 120, 130}, migration = m, tx > 1 PROVE Unrepeatable
    BY <2>1, <2>2 DEF Position, Transactions, Unrepeatable, Returned
  <2>3. ASSUME migration = 300, tx > 5 PROVE Unrepeatable
    BY <2>1, <2>3 DEF Position, Transactions, Unrepeatable, Returned
  <2> QED
    BY <2>1, <2>2, <2>3 DEF Done
<1> QED
  BY <1>1, <1>2, <1>3, <1>4 DEF DeployNext, Progress

LEMMA StepFrame ==
    ASSUME DeployTypeOK, Position, DeployNext
    PROVE  Frame
<1> USE PositionTyped
<1> DEFINE Core == {"Supporters", "OracleManager", "DelayMachine", "Staking"}
<1>1. ASSUME recorded' = recorded PROVE Frame
  <2>1. \A a \in Aliases : recorded[a] <= recorded'[a]
    BY <1>1 DEF DeployTypeOK
  <2> QED
    BY <1>1, <2>1, ProcessFrame DEF Frame, Proxy, Addr
<1>2. ASSUME NEW c, NEW p, <<c, p>> \in Aliases, OzAdd(c, p)
      PROVE  /\ \A a \in Aliases : recorded[a] <= recorded'[a]
             /\ \A d : d # c => Proxy(d)' = Proxy(d)
             /\ p # "none" => \A d : Proxy(d)' = Proxy(d)
  <2> DEFINE b == <<c, p>>
  <2>1. recorded' = [recorded EXCEPT ![b] = @ + 1]
    BY <1>2 DEF OzAdd
  <2>2. b[1] = c /\ b[2] = p
    OBVIOUS
  <2>3. ASSUME NEW d, d # c \/ p # "none" PROVE <<d, "none">> # b
    <3>1. ASSUME <<d, "none">> = b PROVE FALSE
      BY <2>2, <2>3, <3>1
    <3> QED
      BY <3>1
  <2> HIDE DEF b
  <2>4. \A a : a # b => recorded'[a] = recorded[a]
    BY <2>1 DEF DeployTypeOK
  <2>5. ASSUME NEW a \in Aliases PROVE recorded[a] <= recorded'[a]
    BY <2>1 DEF DeployTypeOK
  <2>6. ASSUME NEW d, d # c \/ p # "none" PROVE Proxy(d)' = Proxy(d)
    BY <2>3, <2>4, <2>6 DEF Proxy, Addr
  <2> QED
    BY <2>5, <2>6
<1>3. ASSUME NEW s \in OzAdds, Turn(s[1], s[2]), OzAdd(s[3], s[4]) PROVE Frame
  <2>1. <<s[3], s[4]>> \in Aliases
    BY <1>3, AliasNames DEF OzAdds, Single, PerPair
  <2>2. /\ \A a \in Aliases : recorded[a] <= recorded'[a]
        /\ \A d : d # s[3] => Proxy(d)' = Proxy(d)
    BY <1>2, <1>3, <2>1
  <2>3. mode = "running" /\ migration = s[1] /\ tx = s[2]
    BY <1>3 DEF Turn
  <2>4. Done(30, 1) => s[3] # "InfoGetter"
    BY <2>3 DEF Done, OzAdds
  <2>5. completed >= 80 => s[3] \notin Core
    BY <2>3 DEF OzAdds
  <2>6. Done(250, 1) => s[3] # "PriceProviderRegister"
    BY <2>3 DEF Done, OzAdds
  <2> QED
    BY <2>2, <2>4, <2>5, <2>6, ProcessFrame DEF Frame
<1>4. ASSUME NEW p \in todo, AddPairFree(p) PROVE Frame
  <2>1. p \in Pairs /\ p # "none" /\ <<"CoinPairPriceFree", p>> \in Aliases
    BY AliasNames DEF DeployTypeOK, PerPair
  <2>2. OzAdd("CoinPairPriceFree", p)
    BY <1>4 DEF AddPairFree
  <2> QED
    BY <1>2, <2>1, <2>2, ProcessFrame DEF Frame
<1>5. CASE AddPair
  <2>1. coin \in Pairs /\ coin # "none" /\ <<"CoinPairPrice", coin>> \in Aliases
    BY <1>5, AliasNames DEF AddPair, Turn, DeployTypeOK, PerPair, Position, At
  <2>2. OzAdd("CoinPairPrice", coin)
    BY <1>5 DEF AddPair, OzAddInitialized
  <2> QED
    BY <1>2, <2>1, <2>2, ProcessFrame DEF Frame
<1>6. CASE SetCompleted \/ Migrate \/ Interrupt
  BY <1>1, <1>6 DEF SetCompleted, Migrate, Interrupt, chainVars
<1> QED
  BY <1>1, <1>3, <1>4, <1>5, <1>6, TransactionAdds DEF DeployNext, Progress

-----------------------------------------------------------------------------
(***************************************************************************)
(* The process is typed and in its place after every step.                 *)
(***************************************************************************)

\* The loop of migration 150.
LEMMA PairLoop ==
    ASSUME Transaction, migration = 150
    PROVE  \/ mode' = "failed" /\ UNCHANGED <<chainVars, tx, coin, todo>>
           \/ \E p \in todo : tx = 1 /\ tx' = 2 /\ coin' = p /\ todo' = todo \ {p}
           \/ tx \in {2, 3} /\ tx' = tx + 1 /\ UNCHANGED <<coin, todo>>
           \/ tx = 4 /\ tx' = 1 /\ UNCHANGED <<coin, todo>>
<1> USE DEF Turn, Mined, Abort, chainVars
<1>1. ASSUME NEW p \in todo, AddPairFree(p)
      PROVE  tx = 1 /\ tx' = 2 /\ coin' = p /\ todo' = todo \ {p}
  BY <1>1 DEF AddPairFree
<1>2. CASE AddPair
  BY <1>2 DEF AddPair
<1>3. CASE InitializePairFree
  BY <1>3 DEF InitializePairFree, Initialize
<1>4. CASE RegisterPair
  BY <1>4 DEF RegisterPair
<1>5. ASSUME \/ ConfigCheck \/ AddInfoGetter
             \/ AddProxy(50, "Supporters") \/ AddProxy(60, "OracleManager")
             \/ AddProxy(70, "DelayMachine") \/ AddProxy(80, "Staking")
             \/ InitializeSupporters \/ InitializeOracleManager
             \/ InitializeDelayMachine \/ InitializeStaking
             \/ RegisterValues \/ AddRegister \/ RegisterAllPairs
             \/ AddCalculatedFree \/ AddCalculated \/ InitializeCalculatedFree
             \/ WhitelistCalculated \/ RegisterCalculated \/ UpgradeInfoGetter
      PROVE  FALSE
  BY <1>5 DEF ConfigCheck, AddInfoGetter, AddProxy, InitializeSupporters,
              InitializeOracleManager, InitializeDelayMachine, InitializeStaking,
              RegisterValues, AddRegister, RegisterAllPairs, AddCalculatedFree,
              AddCalculated, InitializeCalculatedFree, WhitelistCalculated,
              RegisterCalculated, UpgradeInfoGetter
<1> QED
  BY <1>1, <1>2, <1>3, <1>4, <1>5 DEF Transaction

LEMMA PositionStep ==
    ASSUME DeployTypeOK, Position, DeployNext
    PROVE  Position' /\ ProcessTyped'
<1> USE PositionTyped
<1>0. ProcessTyped
  BY DEF DeployTypeOK, ProcessTyped
<1>1. ASSUME Transaction, migration # 150 PROVE Position' /\ ProcessTyped'
  <2>1. Works
    BY <1>1, TransactionWorks
  <2> QED
    BY <1>0, <1>1, <2>1 DEF Works, Position, ProcessTyped, At, Transactions
<1>2. ASSUME Transaction, migration = 150 PROVE Position' /\ ProcessTyped'
  <2>1. Works
    BY <1>2, TransactionWorks
  <2>2. tx \in 1..4
    BY <1>2, <2>1 DEF Works, Position
  <2>3. CASE mode' = "failed" /\ UNCHANGED <<chainVars, tx, coin, todo>>
    BY <1>0, <1>2, <2>1, <2>3 DEF Works, Position, ProcessTyped, At
  <2>4. ASSUME NEW p \in todo, tx = 1, tx' = 2, coin' = p, todo' = todo \ {p}, mode' = "running"
        PROVE  Position' /\ ProcessTyped'
    BY <1>0, <1>2, <2>1, <2>4 DEF Works, Position, ProcessTyped, At
  <2>5. CASE mode' = "running" /\ tx \in {2, 3} /\ tx' = tx + 1 /\ UNCHANGED <<coin, todo>>
    BY <1>0, <1>2, <2>1, <2>5 DEF Works, Position, ProcessTyped, At
  <2>6. CASE mode' = "running" /\ tx = 4 /\ tx' = 1 /\ UNCHANGED <<coin, todo>>
    BY <1>0, <1>2, <2>1, <2>6 DEF Works, Position, ProcessTyped, At
  <2> QED
    BY <1>2, <2>1, <2>2, <2>3, <2>4, <2>5, <2>6, PairLoop DEF Works
<1>3. CASE SetCompleted
  <2>1. completed' = migration /\ UNCHANGED <<config, attempts, torn>> /\ mode = "running"
    BY <1>3 DEF SetCompleted
  <2>2. CASE migration = LastMigration
    <3>1. mode' = "stopped" /\ UNCHANGED <<migration, tx, coin, todo>>
      BY <1>3, <2>2 DEF SetCompleted
    <3> QED
      BY <1>0, <2>1, <2>2, <3>1 DEF Position, ProcessTyped, At
  <2>3. CASE migration # LastMigration
    <3>1. Begin(After(migration)) /\ mode' = mode
      BY <1>3, <2>3 DEF SetCompleted
    <3>2. /\ migration' = After(migration) /\ tx' = 1 /\ coin' = "none"
          /\ todo' \subseteq config.pairs
      BY <2>1, <3>1 DEF Begin
    <3>3. After(migration) \in Migrations
      BY <2>3, NextMigration
    <3>4. 1 \in IF migration' = 150 THEN 1..4 ELSE 1..(Transactions(migration') + 1)
      BY DEF Transactions
    <3> QED
      BY <1>0, <2>1, <2>3, <3>1, <3>2, <3>3, <3>4 DEF Position, ProcessTyped, At
  <2> QED
    BY <2>2, <2>3
<1>4. CASE Migrate
  <2>1. /\ completed' = completed /\ completed # LastMigration /\ torn' = torn
        /\ mode' = "running" /\ Begin(After(completed))
        /\ attempts < MaxAttempts /\ attempts' = attempts + 1
        /\ config' \in {config, [pairs |-> config.pairs \ RegisteredPairs, complete |-> TRUE]}
    BY <1>4 DEF Migrate
  <2>2. /\ config' \in [pairs : SUBSET Pairs, complete : BOOLEAN]
        /\ attempts' \in 0..MaxAttempts
    <3> DEFINE P == config.pairs \ RegisteredPairs
    <3>1. config \in [pairs : SUBSET Pairs, complete : BOOLEAN]
      BY <1>0 DEF ProcessTyped
    <3>2. P \in SUBSET Pairs
      BY <3>1
    <3> HIDE DEF P
    <3>3. [pairs |-> P, complete |-> TRUE] \in [pairs : SUBSET Pairs, complete : BOOLEAN]
      BY <3>2
    <3>4. config' \in [pairs : SUBSET Pairs, complete : BOOLEAN]
      BY <2>1, <3>1, <3>3 DEF P
    <3>5. attempts \in 0..MaxAttempts
      BY <1>0 DEF ProcessTyped
    <3> QED
      BY <2>1, <3>4, <3>5, DeploymentAssumption
  <2>3. migration' = After(completed) /\ tx' = 1 /\ coin' = "none" /\ todo' \subseteq config'.pairs
    BY <2>1 DEF Begin
  <2>4. After(completed) \in Migrations
    BY <2>1, NextMigration
  <2>5. 1 \in IF migration' = 150 THEN 1..4 ELSE 1..(Transactions(migration') + 1)
    BY DEF Transactions
  <2> QED
    BY <1>0, <2>1, <2>2, <2>3, <2>4, <2>5 DEF Position, ProcessTyped, At
<1>5. CASE Interrupt
  <2>1. /\ UNCHANGED <<config, completed, migration, tx, coin, todo, attempts>>
        /\ mode' = "stopped" /\ mode = "running"
        /\ torn' \in {torn, torn \cup {migration}}
    BY <1>5 DEF Interrupt
  <2> QED
    BY <1>0, <2>1 DEF Position, ProcessTyped, At
<1> QED
  BY <1>1, <1>2, <1>3, <1>4, <1>5 DEF DeployNext, Progress

\* A transaction brings no alias back ahead of the process.
LEMMA AheadBack ==
    ASSUME DeployTypeOK, Position, Transaction, mode' = "running",
           NEW c, NEW p, Ahead(c, p)'
    PROVE  Ahead(c, p)
<1> USE PositionTyped
<1>1. Works
  BY TransactionWorks
<1>2. CASE migration # 150
  BY <1>1, <1>2 DEF Works, Ahead, OzAdds
<1>3. CASE migration = 150
  <2>1. migration' = 150
    BY <1>1, <1>3 DEF Works
  <2>2. ASSUME \E s \in OzAdds : /\ s[3] = c /\ s[4] = p
                                 /\ migration' < s[1] \/ (migration' = s[1] /\ tx' <= s[2])
        PROVE  Ahead(c, p)
    BY <1>3, <2>1, <2>2 DEF Ahead, OzAdds
  <2>3. ASSUME c \in PerPair, p \in Pairs,
               p \in todo' \/ (c = "CoinPairPrice" /\ p = coin' /\ tx' = 2)
        PROVE  p \in todo \/ (c = "CoinPairPrice" /\ p = coin /\ tx = 2)
    BY <1>1, <1>3, <2>3, PairLoop DEF Works
  <2> QED
    BY <1>3, <2>1, <2>2, <2>3 DEF Ahead
<1> QED
  BY <1>2, <1>3

LEMMA OzAddCounts ==
    ASSUME DeployTypeOK, Position, ProxiesCounted, Transaction,
           NEW c \in Single \cup PerPair, NEW p \in Pairs \cup {Calculated, "none"},
           <<c, p>> \in Aliases, OzAdd(c, p), Ahead(c, p), ~Ahead(c, p)'
    PROVE  recorded' \in [Aliases -> 0..MaxAttempts] /\ ProxiesCounted'
<1> DEFINE b == <<c, p>>
<1>1. Works
  BY TransactionWorks
<1>2. recorded \in [Aliases -> 0..MaxAttempts] /\ attempts \in 0..MaxAttempts /\ MaxAttempts \in Nat
  BY DeploymentAssumption DEF DeployTypeOK
<1>3. recorded[b] < attempts /\ recorded' = [recorded EXCEPT ![b] = @ + 1] /\ b \in Aliases
  BY <1>1 DEF Works, ProxiesCounted, OzAdd
<1>4. \A d, q : <<d, q>> = b => d = c /\ q = p
  OBVIOUS
<1> HIDE DEF b
<1>5. recorded' \in [Aliases -> 0..MaxAttempts]
  BY <1>2, <1>3
<1>6. ASSUME NEW d \in Single \cup PerPair, NEW q \in Pairs \cup {Calculated, "none"},
             <<d, q>> \in Aliases
      PROVE  /\ recorded'[<<d, q>>] <= attempts'
             /\ mode' = "running" /\ Ahead(d, q)' => recorded'[<<d, q>>] < attempts'
  <2>1. attempts' = attempts
    BY <1>1 DEF Works
  <2>2. CASE <<d, q>> = b
    BY <1>2, <1>3, <1>4, <2>1, <2>2
  <2>3. CASE <<d, q>> # b
    <3>1. recorded'[<<d, q>>] = recorded[<<d, q>>]
      BY <1>2, <1>3, <1>6, <2>3
    <3> QED
      BY <1>1, <1>6, <2>1, <3>1, AheadBack DEF ProxiesCounted, Works
  <2> QED
    BY <2>2, <2>3
<1> QED
  BY <1>5, <1>6 DEF ProxiesCounted

LEMMA CountedStep ==
    ASSUME DeployTypeOK, Position, ProxiesCounted, DeployNext
    PROVE  recorded' \in [Aliases -> 0..MaxAttempts] /\ ProxiesCounted'
<1> USE PositionTyped
<1>1. recorded \in [Aliases -> 0..MaxAttempts] /\ attempts \in Nat
  BY DEF DeployTypeOK
<1>2. ASSUME NEW s \in OzAdds, Transaction, Turn(s[1], s[2]), OzAdd(s[3], s[4])
      PROVE  recorded' \in [Aliases -> 0..MaxAttempts] /\ ProxiesCounted'
  <2>1. Works /\ s[1] # 150
    BY <1>2, TransactionWorks DEF OzAdds
  <2>2. /\ s[3] \in Single \cup PerPair /\ s[4] \in Pairs \cup {Calculated, "none"}
        /\ <<s[3], s[4]>> \in Aliases /\ s[4] \notin Pairs
    BY AliasNames DEF OzAdds, Single, PerPair
  <2>3. Ahead(s[3], s[4])
    BY <1>2 DEF Ahead, Turn
  <2>4. CASE mode' = "running"
    <3>1. migration' = s[1] /\ tx' = s[2] + 1 /\ s[2] \in Nat /\ s[1] \in Nat
      BY <1>2, <2>1, <2>4 DEF Works, Turn, OzAdds
    <3>2. \A r \in OzAdds : r[3] = s[3] /\ r[4] = s[4] => r[1] = s[1] /\ r[2] = s[2]
      BY AliasNames DEF OzAdds
    <3>3. ~Ahead(s[3], s[4])'
      BY <2>2, <3>1, <3>2 DEF Ahead
    <3> QED
      BY <1>2, <2>2, <2>3, <3>3, OzAddCounts
  <2>5. CASE mode' # "running"
    BY <1>1, <2>1, <2>5 DEF Works, chainVars, ProxiesCounted
  <2> QED
    BY <2>4, <2>5
<1>3. ASSUME NEW p \in todo, AddPairFree(p), Transaction
      PROVE  recorded' \in [Aliases -> 0..MaxAttempts] /\ ProxiesCounted'
  <2>1. /\ migration = 150 /\ migration' = 150 /\ todo' = todo \ {p} /\ tx' = 2
        /\ OzAdd("CoinPairPriceFree", p)
    BY <1>3 DEF AddPairFree, Turn
  <2>2. p \in Pairs /\ "CoinPairPriceFree" \in PerPair /\ <<"CoinPairPriceFree", p>> \in Aliases
    BY AliasNames DEF DeployTypeOK, PerPair
  <2>3. Ahead("CoinPairPriceFree", p)
    BY <2>1, <2>2 DEF Ahead
  <2>4. ~Ahead("CoinPairPriceFree", p)'
    BY <2>1, <2>2, AliasNames DEF Ahead, OzAdds
  <2> QED
    BY <1>3, <2>1, <2>2, <2>3, <2>4, OzAddCounts
<1>4. ASSUME NEW p \in Pairs, p = coin, AddPair, Transaction
      PROVE  recorded' \in [Aliases -> 0..MaxAttempts] /\ ProxiesCounted'
  <2>1. /\ migration = 150 /\ migration' = 150 /\ todo' = todo /\ tx = 2 /\ tx' = 3
        /\ OzAdd("CoinPairPrice", p) /\ p \notin todo
    BY <1>4 DEF AddPair, OzAddInitialized, Mined, Turn, Position, At, DeployTypeOK
  <2>2. "CoinPairPrice" \in PerPair /\ <<"CoinPairPrice", p>> \in Aliases
    BY AliasNames DEF PerPair
  <2>3. Ahead("CoinPairPrice", p)
    BY <1>4, <2>1, <2>2 DEF Ahead
  <2>4. ~Ahead("CoinPairPrice", p)'
    BY <2>1, <2>2, AliasNames DEF Ahead, OzAdds
  <2> QED
    BY <1>4, <2>1, <2>2, <2>3, <2>4, OzAddCounts
<1>5. ASSUME Transaction, recorded' = recorded
      PROVE  recorded' \in [Aliases -> 0..MaxAttempts] /\ ProxiesCounted'
  BY <1>1, <1>5, AheadBack, TransactionWorks DEF Works, ProxiesCounted
<1>6. CASE SetCompleted
  <2>1. recorded' = recorded /\ attempts' = attempts
    BY <1>6 DEF SetCompleted, chainVars
  <2>2. ASSUME mode' = "running", NEW c, NEW p, Ahead(c, p)' PROVE Ahead(c, p) /\ mode = "running"
    <3>1. migration # LastMigration /\ Begin(After(migration)) /\ mode = "running"
      BY <1>6, <2>2 DEF SetCompleted
    <3>2. migration' > migration /\ migration' \in Nat /\ tx' = 1
      BY <3>1, NextMigration DEF Begin, Migrations
    <3> QED
      BY <2>2, <3>1, <3>2 DEF Ahead, OzAdds
  <2> QED
    BY <1>1, <2>1, <2>2 DEF ProxiesCounted
<1>7. CASE Migrate
  <2>1. recorded' = recorded /\ attempts' = attempts + 1
    BY <1>7 DEF Migrate, chainVars
  <2>2. \A a \in Aliases : recorded[a] \in Nat
    BY <1>1
  <2> QED
    BY <1>1, <2>1, <2>2 DEF ProxiesCounted
<1>8. CASE Interrupt
  BY <1>1, <1>8 DEF Interrupt, chainVars, ProxiesCounted
<1>9. CASE AddPair /\ Transaction
  <2>1. coin \in Pairs
    BY <1>9 DEF AddPair, Turn, Position, At, DeployTypeOK
  <2> QED
    BY <1>4, <1>9, <2>1
<1> QED
  BY <1>2, <1>3, <1>5, <1>6, <1>7, <1>8, <1>9, TransactionAdds DEF DeployNext, Progress

-----------------------------------------------------------------------------
(***************************************************************************)
(* What a transaction wires leaves the links of the other contracts alone. *)
(***************************************************************************)
\* A link of a proxy of contract that is there after the step.
NewLink(contract, l) ==
    /\ l \in LinkTypes /\ l[1][1] = contract
    /\ l[2] = "governor" => l[3] = Governor
    /\ \/ l[1] = Registry
       \/ /\ <<l[1][1], l[1][2]>> \in Aliases
          /\ l[1][3] <= recorded'[<<l[1][1], l[1][2]>>]

\* A transaction adds nothing but links of proxies of one contract.
NewLinks(contract) ==
    /\ \A l \in wired : l[1] # Registry \/ contract # "Registry" => l \in wired'
    /\ \A l \in wired' : l \notin wired => NewLink(contract, l)

LEMMA ContractsNamed ==
    /\ \A c : Proxy(c)[1] = c
    /\ \A c, p : Addr(c, p)[1] = c
    /\ Registry[1] = "Registry"
    /\ \A a \in FoundContracts : a[1] \in Found
    /\ Found \cap (Single \cup PerPair \cup {"Registry"}) = {}
    /\ "Registry" \notin Single \cup PerPair
BY NamesAssumption DEF Proxy, Addr, Registry, FoundContracts, Single, PerPair

LEMMA BasicsKept ==
    ASSUME DeployTypeOK, LinkInv, Frame, recorded' \in [Aliases -> 0..MaxAttempts],
           NEW c, NewLinks(c)
    PROVE  WiredTyped' /\ Fresh' /\ GovernorFirst' /\ FoundGoverned'
<1>1. WiredTyped'
  BY DEF LinkInv, NewLinks, NewLink, WiredTyped
<1>2. GovernorFirst'
  BY DEF LinkInv, NewLinks, NewLink, GovernorFirst
<1>3. FoundGoverned'
  <2> SUFFICES ASSUME NEW a \in FoundContracts PROVE <<a, "governor", Governor>> \in wired'
    BY DEF FoundGoverned
  <2> DEFINE l == <<a, "governor", Governor>>
  <2>1. l \in wired /\ l[1] = a
    BY DEF LinkInv, FoundGoverned
  <2>2. a # Registry
    BY ContractsNamed
  <2> HIDE DEF l
  <2>3. l \in wired'
    BY <2>1, <2>2 DEF NewLinks, NewLink
  <2> QED
    BY <2>3 DEF l
<1>4. Fresh'
  <2> SUFFICES ASSUME NEW l \in wired'
               PROVE  \/ l[1] \in FoundContracts \cup {Registry}
                      \/ /\ <<l[1][1], l[1][2]>> \in Aliases
                         /\ l[1][3] <= recorded'[<<l[1][1], l[1][2]>>]
    BY DEF Fresh
  <2>1. CASE l \notin wired
    BY <2>1 DEF NewLinks, NewLink
  <2>2. CASE l \in wired
    <3> DEFINE a == <<l[1][1], l[1][2]>>
               n == l[1][3]
    <3>1. CASE l[1] \in FoundContracts \cup {Registry}
      BY <3>1
    <3>2. CASE a \in Aliases /\ n <= recorded[a]
      <4>1. n \in Nat
        <5>1. l \in LinkTypes
          BY <2>2 DEF LinkInv, WiredTyped
        <5>2. l[1] \in Contract \cup FoundContracts \cup {Registry}
          BY <5>1 DEF LinkTypes
        <5>3. \A k \in Contract : k[3] \in Nat
          BY DEF Contract
        <5>4. \A k \in FoundContracts \cup {Registry} : k[3] \in Nat
          BY DEF FoundContracts, Registry
        <5> QED
          BY <5>2, <5>3, <5>4
      <4>2. recorded[a] \in Nat /\ recorded'[a] \in Nat /\ recorded[a] <= recorded'[a]
        BY <3>2 DEF Frame, DeployTypeOK
      <4> QED
        BY <3>2, <4>1, <4>2
    <3> QED
      BY <2>2, <3>1, <3>2 DEF LinkInv, Fresh
  <2> QED
    BY <2>1, <2>2
<1> QED
  BY <1>1, <1>2, <1>3, <1>4

LEMMA OthersKept ==
    ASSUME NEW c, NewLinks(c), NEW d, d # c, d # "Registry"
    PROVE  \A l : l \in Of(d)' <=> l \in Of(d)
<1>1. \A l : l[1][1] = d => l[1] # Registry
  BY ContractsNamed
<1>2. \A l : l[1][1] = d => (l \in wired' <=> l \in wired)
  BY <1>1 DEF NewLinks, NewLink
<1> QED
  BY <1>2 DEF Of

LEMMA RegistryKept ==
    ASSUME NEW c, NewLinks(c), c # "Registry"
    PROVE  wired \subseteq wired' /\ \A l : l \in Of("Registry")' <=> l \in Of("Registry")
BY DEF NewLinks, NewLink, Of

\* The links of the four contracts that move the stakes.
LEMMA CoreLinksKept ==
    ASSUME LinksFit, Frame, completed \in Nat, completed' \in Nat, NEW c, NewLinks(c)
    PROVE  /\ c # "Supporters" => SupportersLinks'
           /\ c # "OracleManager" => ManagerLinks'
           /\ c # "DelayMachine" => MachineLinks'
           /\ c # "Staking" => StakingLinks'
<1>1. \A d : d # c /\ d # "Registry" => \A l : l \in Of(d)' <=> l \in Of(d)
  BY OthersKept
<1>2. /\ completed >= 80 => completed' >= 80 /\ \A d \in {"Supporters", "OracleManager", "DelayMachine", "Staking"} :
                                                   Proxy(d)' = Proxy(d)
      /\ completed >= 130 => completed' >= 130
      /\ \A m \in {100, 110, 120, 130} : Done(m, 1) \/ m \in torn => Done(m, 1)' \/ m \in torn'
  BY DEF Frame
<1>3. ASSUME c # "Supporters" PROVE SupportersLinks'
  <2>1. \A l : l \in Of("Supporters")' => l \in Of("Supporters")
    BY <1>1, <1>3
  <2> QED
    BY <1>2, <2>1 DEF LinksFit, SupportersLinks
<1>4. ASSUME c # "OracleManager" PROVE ManagerLinks'
  <2>1. \A l : l \in Of("OracleManager")' => l \in Of("OracleManager")
    BY <1>1, <1>4
  <2> QED
    BY <1>2, <2>1 DEF LinksFit, ManagerLinks
<1>5. ASSUME c # "DelayMachine" PROVE MachineLinks'
  <2>1. \A l : l \in Of("DelayMachine")' => l \in Of("DelayMachine")
    BY <1>1, <1>5
  <2> QED
    BY <1>2, <2>1 DEF LinksFit, MachineLinks
<1>6. ASSUME c # "Staking" PROVE StakingLinks'
  <2>1. \A l : l \in Of("Staking")' => l \in Of("Staking")
    BY <1>1, <1>6
  <2> QED
    BY <1>2, <2>1 DEF LinksFit, StakingLinks
<1> QED
  BY <1>3, <1>4, <1>5, <1>6

\* The pairs the register of prices has.
PricesKept ==
    \A p \in Pairs : \A x :
       <<Proxy("PriceProviderRegister"), p, x>> \in wired' <=>
          <<Proxy("PriceProviderRegister"), p, x>> \in wired

LEMMA PricesKeptByOthers ==
    ASSUME NEW c, NewLinks(c), c # "PriceProviderRegister"
    PROVE  PricesKept
<1> DEFINE r == Proxy("PriceProviderRegister")
<1>1. r[1] = "PriceProviderRegister" /\ r # Registry
  BY ContractsNamed
<1> HIDE DEF r
<1>2. SUFFICES ASSUME NEW p \in Pairs, NEW x
               PROVE  <<r, p, x>> \in wired' <=> <<r, p, x>> \in wired
  BY DEF PricesKept, r
<1> DEFINE l == <<r, p, x>>
<1>3. l[1] = r
  OBVIOUS
<1> HIDE DEF l
<1>4. l \in wired' <=> l \in wired
  BY <1>1, <1>3 DEF NewLinks, NewLink
<1> QED
  BY <1>4 DEF l

LEMMA SourcesKept ==
    ASSUME WiredTyped, WiredTyped', PricesKept,
           Proxy("PriceProviderRegister")' = Proxy("PriceProviderRegister")
    PROVE  Sources' = Sources
<1> DEFINE r == Proxy("PriceProviderRegister")
<1>1. LinksAreWired /\ LinksAreWired'
  BY LinksOfWired, PTL
<1>2. ASSUME NEW p \in BasePairs PROVE Links(r, p)' = Links(r, p)
  <2>1. p \in Pairs
    BY DeploymentAssumption
  <2>2. \A x : x \in Links(r, p)' <=> x \in Links(r, p)
    BY <1>1, <2>1 DEF LinksAreWired, PricesKept
  <2> QED
    BY <2>2
<1> QED
  BY <1>2 DEF Sources

LEMMA OtherLinksKept ==
    ASSUME LinkInv, WiredTyped', Frame, completed \in Nat, completed' \in Nat,
           NEW c, NewLinks(c)
    PROVE  /\ c # "CoinPairPrice" => PairLinks'
           /\ c # "Registry" => RegistryLinks'
           /\ c # "PriceProviderRegister" => RegisterLinks'
           /\ c # "CalculatedPriceProvider" /\ (completed >= 250 => PricesKept)
                 => CalculatedLinks'
<1> USE DEF LinkInv, LinksFit
<1>1. \A d : d # c /\ d # "Registry" => \A l : l \in Of(d)' <=> l \in Of(d)
  BY OthersKept
<1>2. /\ completed >= 80 => completed' >= 80 /\ \A d \in {"Supporters", "OracleManager", "DelayMachine", "Staking"} :
                                                   Proxy(d)' = Proxy(d)
      /\ \A m \in {130, 150, 200, 250} : completed >= m => completed' >= m /\ completed >= 80
      /\ Done(300, 5) \/ 300 \in torn => Done(300, 5)' \/ 300 \in torn'
      /\ completed >= 250 => Proxy("PriceProviderRegister")' = Proxy("PriceProviderRegister")
      /\ completed >= 150 => Proxy("InfoGetter")' = Proxy("InfoGetter")
  BY DEF Frame, Done
<1>3. ASSUME c # "CoinPairPrice" PROVE PairLinks'
  <2>1. \A l : l \in Of("CoinPairPrice")' => l \in Of("CoinPairPrice")
    BY <1>1, <1>3
  <2> QED
    BY <1>2, <2>1 DEF PairLinks
<1>4. ASSUME c # "Registry" PROVE RegistryLinks'
  <2>1. \A l : l \in Of("Registry")' => l \in Of("Registry")
    BY <1>4, RegistryKept
  <2>2. completed >= 150 => \A n \in RegistryNames : Proxy(n)' = Proxy(n)
    BY <1>2 DEF RegistryNames
  <2> QED
    BY <1>2, <2>1, <2>2 DEF RegistryLinks
<1>5. ASSUME c # "PriceProviderRegister" PROVE RegisterLinks'
  <2>1. \A l : l \in Of("PriceProviderRegister")' => l \in Of("PriceProviderRegister")
    BY <1>1, <1>5
  <2>2. completed >= 200 => Proxy("OracleManager")' = Proxy("OracleManager")
    BY <1>2
  <2>3. ASSUME NEW l \in Of("PriceProviderRegister") PROVE RegisterLink(l)'
    <3> DEFINE k == <<Proxy("OracleManager"), l[2], l[3]>>
    <3>1. k[1] # Registry
      BY ContractsNamed
    <3>2. k \in wired => k \in wired'
      BY <3>1 DEF NewLinks, NewLink
    <3>3. RegisterLink(l)
      BY <2>3 DEF RegisterLinks
    <3>4. l[2] \in Pairs => <<Proxy("OracleManager")', l[2], l[3]>> \in wired'
      BY <2>2, <3>2, <3>3 DEF RegisterLink
    <3> QED
      BY <1>2, <3>3, <3>4 DEF RegisterLink
  <2> QED
    BY <2>1, <2>3 DEF RegisterLinks
<1>6. ASSUME c # "CalculatedPriceProvider", completed >= 250 => PricesKept
      PROVE  CalculatedLinks'
  <2>1. \A l : l \in Of("CalculatedPriceProvider")' => l \in Of("CalculatedPriceProvider")
    BY <1>1, <1>6
  <2>2. completed >= 250 => Sources' = Sources
    BY <1>2, <1>6, SourcesKept
  <2> QED
    BY <1>2, <2>1, <2>2 DEF CalculatedLinks
<1> QED
  BY <1>3, <1>4, <1>5, <1>6

-----------------------------------------------------------------------------
(***************************************************************************)
(* What is wired stays wired.                                              *)
(***************************************************************************)

\* What a step may add to the facts of CoreWired.
LEMMA DoneStep ==
    ASSUME DeployTypeOK, Position, DeployNext,
           NEW m \in Migrations, m # 150, NEW t \in Nat \ {0}, t <= Transactions(m), Done(m, t)'
    PROVE  Done(m, t) \/ (Transaction /\ Turn(m, t) /\ mode' = "running")
<1> USE PositionTyped
<1>0. m \in Nat /\ t \in Nat /\ t >= 1
  BY DEF Migrations
<1>1. CASE Transaction
  <2>1. Works
    BY <1>1, TransactionWorks
  <2> QED
    BY <1>0, <1>1, <2>1 DEF Works, Done, Turn
<1>2. CASE SetCompleted
  <2>1. completed' = migration /\ mode = "running" /\ Returned
    BY <1>2 DEF SetCompleted
  <2>2. mode' = "running" => migration' > migration /\ migration' \in Nat /\ tx' = 1
    <3>1. ASSUME mode' = "running" PROVE migration # LastMigration /\ Begin(After(migration))
      BY <1>2, <3>1 DEF SetCompleted
    <3> QED
      BY <3>1, NextMigration DEF Begin, Migrations
  <2>3. CASE migration < m
    BY <1>0, <2>1, <2>2, <2>3 DEF Done
  <2>4. CASE migration = m
    BY <1>0, <2>1, <2>4 DEF Done, Returned, Transactions
  <2>5. CASE migration > m
    <3>1. completed # LastMigration /\ migration = After(completed)
      BY <2>1 DEF Position
    <3>2. ~(m > completed)
      BY <1>0, <2>5, <3>1, NextMigration
    <3> QED
      BY <1>0, <3>2 DEF Done
  <2> QED
    BY <1>0, <2>3, <2>4, <2>5
<1>3. CASE Migrate
  <2>1. completed' = completed /\ tx' = 1
    BY <1>3 DEF Migrate, Begin
  <2> QED
    BY <1>0, <2>1 DEF Done
<1>4. CASE Interrupt
  BY <1>4 DEF Interrupt, Done
<1> QED
  BY <1>1, <1>2, <1>3, <1>4 DEF DeployNext, Progress

\* What a transaction wires besides, where it is the one a fact of CoreWired waits for.
NewFacts ==
    /\ Turn(30, 1) => GetterWired'
    /\ Turn(100, 1) => SupportersWired'
    /\ Turn(110, 1) => ManagerWired'
    /\ Turn(120, 1) => MachineWired'
    /\ Turn(130, 1) => StakingWired'
    /\ Turn(200, 1) => RegistryWired'
    /\ Turn(250, 1) => RegisterWired'
    /\ Turn(250, 2) => PricesWired'

LEMMA LinkKept ==
    ASSUME NEW c, NewLinks(c), NEW a, a[1] # "Registry"
    PROVE  \A r : \A x : <<a, r, x>> \in wired => <<a, r, x>> \in wired'
<1> SUFFICES ASSUME NEW r, NEW x, <<a, r, x>> \in wired PROVE <<a, r, x>> \in wired'
  OBVIOUS
<1> DEFINE l == <<a, r, x>>
<1>1. l[1] = a /\ a # Registry /\ l \in wired
  BY ContractsNamed
<1> HIDE DEF l
<1>2. l \in wired'
  BY <1>1 DEF NewLinks, NewLink
<1> QED
  BY <1>2 DEF l

LEMMA FactsKept ==
    ASSUME DeployTypeOK, Position, LinkInv, Frame, NEW c, NewLinks(c)
    PROVE  /\ Done(30, 1) => GetterWired'
           /\ Done(100, 1) => SupportersWired'
           /\ Done(110, 1) => ManagerWired'
           /\ Done(120, 1) => MachineWired'
           /\ Done(130, 1) => StakingWired'
           /\ Done(200, 1) /\ c # "Registry" => RegistryWired'
           /\ Done(250, 1) => RegisterWired'
           /\ Done(250, 2) /\ c # "OracleManager" => PricesWired'
<1> USE PositionTyped
<1> DEFINE g == Proxy("InfoGetter")
           s == Proxy("Supporters")
           o == Proxy("OracleManager")
           d == Proxy("DelayMachine")
           k == Proxy("Staking")
           r == Proxy("PriceProviderRegister")
<1>1. /\ completed \in Nat /\ migration \in Nat
      /\ mode = "running" => migration = After(completed) /\ completed # LastMigration
  BY DEF Position
<1>2. /\ mode = "running" /\ migration \in {100, 110, 120, 130, 200, 250} => completed >= 80
      /\ mode = "running" /\ migration \in {200, 250} => completed >= 30
  <2>1. ASSUME mode = "running", NEW m \in Migrations, migration > m PROVE completed >= m
    BY <1>1, <2>1, NextMigration DEF Migrations
  <2>2. 80 \in Migrations /\ 30 \in Migrations
    BY DEF Migrations
  <2> QED
    BY <1>1, <2>1, <2>2
<1>3. Done(30, 1) => g' = g
  BY DEF Frame
<1>4. \A m \in {100, 110, 120, 130, 200, 250} : \A t : Done(m, t) =>
         s' = s /\ o' = o /\ d' = d /\ k' = k
  BY <1>1, <1>2 DEF Frame, Done
<1>5. \A t \in Nat \ {0} : Done(250, t) => r' = r
  BY DEF Frame, Done
<1>6. /\ g[1] # "Registry" /\ s[1] # "Registry" /\ o[1] # "Registry" /\ d[1] # "Registry"
      /\ k[1] # "Registry" /\ r[1] # "Registry"
  BY ContractsNamed
<1> HIDE DEF g, s, o, d, k, r
<1>7. ASSUME Done(30, 1) PROVE GetterWired'
  <2>1. <<g, "governor", Governor>> \in wired
    BY <1>7 DEF g, LinkInv, CoreWired, GetterWired
  <2>2. <<g', "governor", Governor>> \in wired'
    BY <1>3, <1>6, <1>7, <2>1, LinkKept
  <2> QED
    BY <2>2 DEF g, GetterWired
<1>8. ASSUME Done(100, 1) PROVE SupportersWired'
  <2>1. /\ <<s, "governor", Governor>> \in wired /\ <<s, "whitelist", k>> \in wired
        /\ <<s, "token", Token>> \in wired
    BY <1>8 DEF s, k, LinkInv, CoreWired, SupportersWired
  <2>2. /\ <<s', "governor", Governor>> \in wired' /\ <<s', "whitelist", k'>> \in wired'
        /\ <<s', "token", Token>> \in wired'
    BY <1>4, <1>6, <1>8, <2>1, LinkKept
  <2> QED
    BY <2>2 DEF s, k, SupportersWired
<1>9. ASSUME Done(110, 1) PROVE ManagerWired'
  <2>1. <<o, "governor", Governor>> \in wired /\ <<o, "staking", k>> \in wired
    BY <1>9 DEF o, k, LinkInv, CoreWired, ManagerWired
  <2>2. <<o', "governor", Governor>> \in wired' /\ <<o', "staking", k'>> \in wired'
    BY <1>4, <1>6, <1>9, <2>1, LinkKept
  <2> QED
    BY <2>2 DEF o, k, ManagerWired
<1>10. ASSUME Done(120, 1) PROVE MachineWired'
  <2>1. <<d, "token", Token>> \in wired /\ <<d, "staking", k>> \in wired
    BY <1>10 DEF d, k, LinkInv, CoreWired, MachineWired
  <2>2. <<d', "token", Token>> \in wired' /\ <<d', "staking", k'>> \in wired'
    BY <1>4, <1>6, <1>10, <2>1, LinkKept
  <2> QED
    BY <2>2 DEF d, k, MachineWired
<1>11. ASSUME Done(130, 1) PROVE StakingWired'
  <2>1. /\ <<k, "supporters", s>> \in wired /\ <<k, "oracleManager", o>> \in wired
        /\ <<k, "delayMachine", d>> \in wired /\ <<k, "token", Token>> \in wired
    BY <1>11 DEF s, o, d, k, LinkInv, CoreWired, StakingWired
  <2>2. /\ <<k', "supporters", s'>> \in wired' /\ <<k', "oracleManager", o'>> \in wired'
        /\ <<k', "delayMachine", d'>> \in wired' /\ <<k', "token", Token>> \in wired'
    BY <1>4, <1>6, <1>11, <2>1, LinkKept
  <2> QED
    BY <2>2 DEF s, o, d, k, StakingWired
<1>12. ASSUME Done(200, 1), c # "Registry" PROVE RegistryWired'
  <2>1. \A n \in RegistryNames : Proxy(n)' = Proxy(n)
    <3>1. Done(30, 1)
      BY <1>1, <1>2, <1>12 DEF Done
    <3> QED
      BY <1>3, <1>4, <1>12, <3>1 DEF RegistryNames, g, s, o, d
  <2>2. ASSUME NEW n \in RegistryNames PROVE <<Registry, n, Proxy(n)'>> \in wired'
    <3> DEFINE x == Proxy(n)
               l == <<Registry, n, x>>
    <3>1. l \in wired
      BY <1>12, <2>2 DEF LinkInv, CoreWired, RegistryWired
    <3> HIDE DEF l
    <3>2. l \in wired'
      BY <1>12, <3>1 DEF NewLinks, NewLink
    <3>3. x' = x
      BY <2>1, <2>2
    <3> HIDE DEF x
    <3>4. <<Registry, n, x'>> \in wired'
      BY <3>2, <3>3 DEF l
    <3> QED
      BY <3>4 DEF x
  <2> QED
    BY <2>2 DEF RegistryWired
<1>13. ASSUME Done(250, 1) PROVE RegisterWired'
  <2>1. <<r, "governor", Governor>> \in wired
    BY <1>13 DEF r, LinkInv, CoreWired, RegisterWired
  <2>2. <<r', "governor", Governor>> \in wired'
    BY <1>5, <1>6, <1>13, <2>1, LinkKept
  <2> QED
    BY <2>2 DEF r, RegisterWired
<1>14. ASSUME Done(250, 2), c # "OracleManager" PROVE PricesWired'
  <2>1. o' = o /\ r' = r
    BY <1>4, <1>5, <1>14
  <2>2. ASSUME NEW l \in wired', l[1] = o, l[2] \in Pairs
        PROVE  <<r, l[2], l[3]>> \in wired'
    <3>1. l[1][1] = "OracleManager"
      BY <2>2, ContractsNamed DEF o
    <3>2. l \in wired
      BY <1>14, <3>1 DEF NewLinks, NewLink
    <3>3. <<r, l[2], l[3]>> \in wired
      BY <1>14, <2>2, <3>2 DEF LinkInv, CoreWired, PricesWired, o, r
    <3> QED
      BY <1>6, <3>3, LinkKept
  <2>3. \A l \in wired' : l[1] = o' /\ l[2] \in Pairs => <<r', l[2], l[3]>> \in wired'
    BY <2>1, <2>2
  <2> QED
    BY <2>3 DEF PricesWired, o, r
<1> QED
  BY <1>7, <1>8, <1>9, <1>10, <1>11, <1>12, <1>13, <1>14

\* A pair stays ready, and so does the calculated price.
LEMMA PairKept ==
    ASSUME NEW c, NewLinks(c), Proxy("OracleManager")' = Proxy("OracleManager"),
           NEW x, x[1] # "Registry", PairReady(x)
    PROVE  PairReady(x)'
<1> DEFINE o == Proxy("OracleManager")
<1>1. PICK f \in Contract : <<x, "whitelist", f>> \in wired /\ <<f, "provider", x>> \in wired
  BY DEF PairReady
<1>2. f[1] # "Registry"
  BY ContractsNamed DEF Contract, Aliases
<1>3. <<x, "governor", Governor>> \in wired /\ <<x, "oracleManager", o>> \in wired
  BY DEF PairReady
<1> HIDE DEF o
<1>4. /\ <<x, "governor", Governor>> \in wired' /\ <<x, "oracleManager", o>> \in wired'
      /\ <<x, "whitelist", f>> \in wired'
  BY <1>1, <1>3, LinkKept
<1>5. <<f, "provider", x>> \in wired'
  BY <1>1, <1>2, LinkKept
<1> QED
  BY <1>4, <1>5 DEF PairReady, o

LEMMA CalculatedKept ==
    ASSUME NEW c, NewLinks(c), Sources' = Sources, "Registry" \notin {s[1] : s \in Sources},
           NEW x, CalculatedReady(x)
    PROVE  CalculatedReady(x)'
<1>1. PICK f \in Contract : <<x, "whitelist", f>> \in wired /\ <<f, "provider", x>> \in wired
  BY DEF CalculatedReady
<1>2. f[1] # "Registry"
  BY ContractsNamed DEF Contract, Aliases
<1>3. x[1] = "CalculatedPriceProvider" /\ <<x, "governor", Governor>> \in wired
  BY DEF CalculatedReady
<1>4. <<x, "governor", Governor>> \in wired' /\ <<x, "whitelist", f>> \in wired'
  BY <1>1, <1>3, LinkKept
<1>5. <<f, "provider", x>> \in wired'
  BY <1>1, <1>2, LinkKept
<1>6. ASSUME NEW s \in Sources PROVE <<s, "whitelist", x>> \in wired'
  <2>1. s[1] # "Registry" /\ <<s, "whitelist", x>> \in wired
    BY DEF CalculatedReady
  <2> QED
    BY <2>1, LinkKept
<1> QED
  BY <1>3, <1>4, <1>5, <1>6 DEF CalculatedReady

\* The sources of a calculated price are pairs.
LEMMA SourcesArePairs ==
    ASSUME WiredTyped, RegisterLinks, ManagerLinks
    PROVE  \A s \in Sources : s = Zero \/ s[1] = "CoinPairPrice"
<1> SUFFICES ASSUME NEW s \in Sources, s # Zero PROVE s[1] = "CoinPairPrice"
  OBVIOUS
<1> DEFINE r == Proxy("PriceProviderRegister")
           o == Proxy("OracleManager")
<1>1. PICK p \in BasePairs : s \in Links(r, p)
  BY DEF Sources
<1>2. p \in Pairs
  BY DeploymentAssumption
<1>3. <<r, p, s>> \in wired
  BY <1>1, LinksOfWired DEF LinksAreWired
<1>4. r[1] = "PriceProviderRegister" /\ o[1] = "OracleManager"
  BY ContractsNamed
<1> HIDE DEF r, o
<1>5. <<r, p, s>> \in Of("PriceProviderRegister")
  BY <1>3, <1>4 DEF Of
<1>6. <<o, p, s>> \in wired
  BY <1>2, <1>5 DEF RegisterLinks, RegisterLink, o
<1>7. <<o, p, s>> \in Of("OracleManager")
  BY <1>4, <1>6 DEF Of
<1> QED
  BY <1>2, <1>7 DEF ManagerLinks

LEMMA ReadyKept ==
    ASSUME DeployTypeOK, Position, LinkInv, WiredTyped', Frame, NEW c, NewLinks(c)
    PROVE  /\ c # "OracleManager" => PairsReady'
           /\ c # "PriceProviderRegister" /\ PricesKept => CalculatedsReady'
<1> USE PositionTyped
<1>1. ASSUME c # "OracleManager" PROVE PairsReady'
  <2>1. \A l : l \in Of("OracleManager")' <=> l \in Of("OracleManager")
    BY <1>1, OthersKept
  <2>2. ASSUME NEW l \in Of("OracleManager"), l[2] \in Pairs PROVE PairReady(l[3])'
    <3> DEFINE x == l[3]
    <3>1. completed >= 130 /\ x[1] = "CoinPairPrice" /\ PairReady(x)
      <4>1. ManagerLinks /\ PairsReady
        BY DEF LinkInv, LinksFit
      <4>2. PairReady(x)
        BY <2>2, <4>1 DEF PairsReady
      <4>3. completed >= 130 /\ x[1] = "CoinPairPrice"
        BY <2>2, <4>1 DEF ManagerLinks
      <4> QED
        BY <4>2, <4>3
    <3>2. Proxy("OracleManager")' = Proxy("OracleManager")
      BY <3>1 DEF Frame
    <3> HIDE DEF x
    <3>3. PairReady(x)'
      BY <3>1, <3>2, PairKept
    <3> QED
      BY <3>3 DEF x
  <2> QED
    BY <2>1, <2>2 DEF PairsReady
<1>2. ASSUME c # "PriceProviderRegister", PricesKept PROVE CalculatedsReady'
  <2>1. \A l : l \in Of("PriceProviderRegister")' <=> l \in Of("PriceProviderRegister")
    BY <1>2, OthersKept
  <2>2. ASSUME NEW l \in Of("PriceProviderRegister"), l[2] = Calculated
        PROVE  CalculatedReady(l[3])'
    <3> DEFINE x == l[3]
    <3>1. completed >= 250 /\ CalculatedReady(x)
      <4>1. RegisterLinks /\ CalculatedsReady
        BY DEF LinkInv, LinksFit
      <4>2. RegisterLink(l) /\ CalculatedReady(l[3])
        BY <2>2, <4>1 DEF RegisterLinks, CalculatedsReady
      <4>3. completed >= 250
        BY <2>2, <4>2 DEF RegisterLink
      <4> QED
        BY <4>2, <4>3
    <3>2. Proxy("PriceProviderRegister")' = Proxy("PriceProviderRegister")
      BY <3>1 DEF Frame, Done
    <3>3. Sources' = Sources
      BY <1>2, <3>2, SourcesKept DEF LinkInv
    <3>4. "Registry" \notin {s[1] : s \in Sources}
      BY SourcesArePairs DEF LinkInv, LinksFit, Zero
    <3> HIDE DEF x
    <3>5. CalculatedReady(x)'
      BY <3>1, <3>3, <3>4, CalculatedKept
    <3> QED
      BY <3>5 DEF x
  <2> QED
    BY <2>1, <2>2 DEF CalculatedsReady
<1> QED
  BY <1>1, <1>2

\* What a step that wires proxies of contract has to show of them itself.
OwnLinks(contract) ==
    /\ contract = "Supporters" => SupportersLinks
    /\ contract = "OracleManager" => ManagerLinks /\ PairsReady
    /\ contract = "DelayMachine" => MachineLinks
    /\ contract = "Staking" => StakingLinks
    /\ contract = "CoinPairPrice" => PairLinks
    /\ contract = "Registry" => RegistryLinks
    /\ contract = "PriceProviderRegister" => RegisterLinks /\ CalculatedsReady
    /\ contract = "CalculatedPriceProvider" => CalculatedLinks

LEMMA LinksKept ==
    ASSUME DeployTypeOK, Position, ProxiesCounted, LinkInv, DeployNext,
           NEW c, NewLinks(c), OwnLinks(c)',
           c = "OracleManager" => Transaction /\ migration < 250,
           c = "Registry" => Transaction /\ mode' = "running" /\ Turn(200, 1),
           c = "PriceProviderRegister" /\ completed >= 250 => PricesKept,
           Transaction /\ mode' = "running" => NewFacts
    PROVE  LinkInv'
<1> USE PositionTyped
<1>1. Frame /\ recorded' \in [Aliases -> 0..MaxAttempts] /\ Position' /\ completed' \in Nat
  <2>1. completed' \in Migrations \cup {0}
    BY PositionStep DEF ProcessTyped
  <2> QED
    BY <2>1, StepFrame, CountedStep, PositionStep DEF Migrations
<1>2. WiredTyped' /\ Fresh' /\ GovernorFirst' /\ FoundGoverned'
  BY <1>1, BasicsKept
<1>3. completed >= 250 \/ c # "PriceProviderRegister" => PricesKept
  BY PricesKeptByOthers
<1>4. LinksFit'
  <2>1. LinksFit
    BY DEF LinkInv
  <2>2. /\ c # "Supporters" => SupportersLinks'
        /\ c # "OracleManager" => ManagerLinks'
        /\ c # "DelayMachine" => MachineLinks'
        /\ c # "Staking" => StakingLinks'
    BY <1>1, <2>1, CoreLinksKept
  <2>3. /\ c # "CoinPairPrice" => PairLinks'
        /\ c # "Registry" => RegistryLinks'
        /\ c # "PriceProviderRegister" => RegisterLinks'
        /\ c # "CalculatedPriceProvider" => CalculatedLinks'
    BY <1>1, <1>2, <1>3, OtherLinksKept
  <2> QED
    BY <2>2, <2>3 DEF LinksFit, OwnLinks
<1>5. PairsReady' /\ CalculatedsReady'
  BY <1>1, <1>2, <1>3, ReadyKept DEF OwnLinks
<1>6. CoreWired'
  <2>1. /\ Done(30, 1) => GetterWired'
        /\ Done(100, 1) => SupportersWired'
        /\ Done(110, 1) => ManagerWired'
        /\ Done(120, 1) => MachineWired'
        /\ Done(130, 1) => StakingWired'
        /\ Done(200, 1) /\ c # "Registry" => RegistryWired'
        /\ Done(250, 1) => RegisterWired'
        /\ Done(250, 2) /\ c # "OracleManager" => PricesWired'
    BY <1>1, FactsKept
  <2>2. ASSUME NEW m \in {30, 100, 110, 120, 130, 200, 250},
               NEW t \in {1, 2}, t = 1 \/ m = 250, Done(m, t)'
        PROVE  Done(m, t) \/ (Transaction /\ Turn(m, t) /\ mode' = "running")
    <3>1. m \in Migrations /\ m # 150 /\ t \in Nat \ {0} /\ t <= Transactions(m)
      BY <2>2 DEF Migrations, Transactions
    <3> QED
      BY <2>2, <3>1, DoneStep
  <2>3. ASSUME c = "OracleManager" PROVE ~(Done(250, 2)')
    <3>1. migration < 250 /\ completed < 250
      BY <2>3, EarlierOver, TransactionWorks DEF Works
    <3>2. ~Done(250, 2) /\ ~Turn(250, 2)
      BY <3>1 DEF Done, Turn
    <3> QED
      BY <2>2, <3>2
  <2>4. c = "Registry" => RegistryWired'
    BY DEF NewFacts
  <2>5. /\ Done(30, 1)' => GetterWired'
        /\ Done(100, 1)' => SupportersWired'
        /\ Done(110, 1)' => ManagerWired'
        /\ Done(120, 1)' => MachineWired'
        /\ Done(130, 1)' => StakingWired'
        /\ Done(200, 1)' => RegistryWired'
        /\ Done(250, 1)' => RegisterWired'
        /\ Done(250, 2)' => PricesWired'
    BY <2>1, <2>2, <2>3, <2>4 DEF NewFacts
  <2> QED
    BY <2>5 DEF CoreWired
<1> QED
  BY <1>2, <1>4, <1>5, <1>6 DEF LinkInv

\* A step that wires nothing.
LEMMA UnwiredKept ==
    ASSUME DeployTypeOK, Position, ProxiesCounted, LinkInv, DeployNext, wired' = wired,
           Transaction /\ mode' = "running" => NewFacts
    PROVE  LinkInv'
<1>1. NewLinks("none")
  BY DEF NewLinks, NewLink
<1>2. OwnLinks("none")'
  BY DEF OwnLinks
<1> QED
  BY <1>1, <1>2, LinksKept

-----------------------------------------------------------------------------
(***************************************************************************)
(* Why a transaction fails.                                                *)
(***************************************************************************)
LEMMA SourcesGoverned ==
    ASSUME WiredTyped, LinksFit, PairsReady
    PROVE  \A s \in Sources : s = Zero \/ Governed(s)
<1> SUFFICES ASSUME NEW s \in Sources, s # Zero PROVE Governed(s)
  OBVIOUS
<1> DEFINE r == Proxy("PriceProviderRegister")
           o == Proxy("OracleManager")
<1>1. PICK p \in BasePairs : s \in Links(r, p)
  BY DEF Sources
<1>2. p \in Pairs
  BY DeploymentAssumption
<1>3. LinksAreWired
  BY LinksOfWired
<1>4. <<r, p, s>> \in wired
  BY <1>1, <1>3 DEF LinksAreWired
<1>5. r[1] = "PriceProviderRegister" /\ o[1] = "OracleManager"
  BY ContractsNamed
<1> HIDE DEF r, o
<1>6. <<r, p, s>> \in Of("PriceProviderRegister")
  BY <1>4, <1>5 DEF Of
<1>7. <<o, p, s>> \in wired
  BY <1>2, <1>6 DEF LinksFit, RegisterLinks, RegisterLink, o
<1>8. <<o, p, s>> \in Of("OracleManager")
  BY <1>5, <1>7 DEF Of
<1>9. PairReady(s)
  BY <1>2, <1>8 DEF PairsReady
<1> QED
  BY <1>3, <1>9 DEF PairReady, Governed, LinksAreWired

\* A contract without links was not initialized.
LEMMA NoLinksOfIt ==
    ASSUME NEW a, NoLinks(a)
    PROVE  ~Initialized(a) /\ \A r : Links(a, r) = {}
BY DEF NoLinks, Initialized, Links

LEMMA InitializedLinked ==
    ASSUME NEW a, Initialized(a)
    PROVE  \E l \in wired : l[1] = a
BY DEF Initialized, Links

LEMMA AbortExplained ==
    ASSUME DeployInv, Transaction, mode' = "failed"
    PROVE  \/ migration = 1 /\ ~config.complete
           \/ migration \in torn
           \/ migration = 300 /\ Zero \in Sources
<1> USE PositionTyped DEF DeployInv
<1> DEFINE Goal == \/ migration = 1 /\ ~config.complete
                   \/ migration \in torn
                   \/ migration = 300 /\ Zero \in Sources
<1>0. WiredTyped /\ LinksFit /\ LinksAreWired
  BY LinksOfWired DEF LinkInv
<1>1. CASE ConfigCheck
  BY <1>1 DEF ConfigCheck, Turn, Mined
<1>2. ASSUME NEW m \in {100, 110, 120, 130}, Turn(m, 1) PROVE ~Done(m, 1)
  BY <1>2 DEF Turn, Done
<1>3. CASE InitializeSupporters
  <2>1. Turn(100, 1) /\ Initialized(Proxy("Supporters"))
    BY <1>3 DEF InitializeSupporters, Initialize, Turn, Mined
  <2>2. PICK l \in wired : l[1] = Proxy("Supporters")
    BY <2>1, InitializedLinked
  <2>3. l \in Of("Supporters")
    BY <2>2, ContractsNamed DEF Of
  <2> QED
    BY <1>0, <1>2, <2>1, <2>3 DEF LinksFit, SupportersLinks, Turn
<1>4. CASE InitializeOracleManager
  <2>1. Turn(110, 1) /\ Initialized(Proxy("OracleManager"))
    BY <1>4 DEF InitializeOracleManager, Initialize, Turn, Mined
  <2>2. PICK l \in wired : l[1] = Proxy("OracleManager")
    BY <2>1, InitializedLinked
  <2>3. l \in Of("OracleManager")
    BY <2>2, ContractsNamed DEF Of
  <2> QED
    BY <1>0, <1>2, <2>1, <2>3 DEF LinksFit, ManagerLinks, Turn
<1>5. CASE InitializeDelayMachine
  <2>1. Turn(120, 1) /\ Initialized(Proxy("DelayMachine"))
    BY <1>5 DEF InitializeDelayMachine, Initialize, Turn, Mined
  <2>2. PICK l \in wired : l[1] = Proxy("DelayMachine")
    BY <2>1, InitializedLinked
  <2>3. l \in Of("DelayMachine")
    BY <2>2, ContractsNamed DEF Of
  <2> QED
    BY <1>0, <1>2, <2>1, <2>3 DEF LinksFit, MachineLinks, Turn
<1>6. CASE InitializeStaking
  <2>1. Turn(130, 1) /\ Initialized(Proxy("Staking"))
    BY <1>6 DEF InitializeStaking, Initialize, Turn, Mined
  <2>2. PICK l \in wired : l[1] = Proxy("Staking")
    BY <2>1, InitializedLinked
  <2>3. l \in Of("Staking")
    BY <2>2, ContractsNamed DEF Of
  <2> QED
    BY <1>0, <1>2, <2>1, <2>3 DEF LinksFit, StakingLinks, Turn
<1>7. CASE InitializePairFree
  <2> DEFINE f == Addr("CoinPairPriceFree", coin)
  <2>1. Turn(150, 3) /\ Initialized(f)
    BY <1>7 DEF InitializePairFree, Initialize, Turn, Mined
  <2>2. NoLinks(f)
    BY <2>1 DEF ScriptInv, InPairs, At, Turn
  <2> HIDE DEF f
  <2> QED
    BY <2>1, <2>2, NoLinksOfIt
<1>8. CASE RegisterPair
  <2> DEFINE o == Proxy("OracleManager")
  <2>1. Turn(150, 4) /\ ~(Governed(o) /\ Links(o, coin) = {})
    BY <1>8 DEF RegisterPair, Turn
  <2>2. migration = 150 /\ mode = "running" /\ tx = 4 /\ completed = 130
    <3>1. migration = 150 /\ mode = "running" /\ tx = 4
      BY <2>1 DEF Turn
    <3> QED
      BY <3>1, EarlierOver DEF Migrations
  <2>3. Governed(o)
    <3>1. ManagerWired
      BY <2>2 DEF LinkInv, CoreWired, Done
    <3> QED
      BY <1>0, <3>1 DEF ManagerWired, LinksAreWired, Governed
  <2>4. coin \in Pairs
    BY <2>2 DEF Position, At, DeployTypeOK
  <2>5. coin \in RegisteredPairs
    BY <2>1, <2>3, <2>4 DEF RegisteredPairs
  <2>6. coin \in Unregistered
    BY <2>2 DEF Unregistered
  <2> QED
    BY <2>2, <2>5, <2>6 DEF ScriptInv, PairsTorn
<1>9. CASE RegisterAllPairs
  <2> DEFINE r == Proxy("PriceProviderRegister")
  <2>1. Turn(250, 2) /\ \E p \in RegisteredPairs : Links(r, p) # {}
    BY <1>9 DEF RegisterAllPairs, Turn, Mined
  <2>2. PICK p \in Pairs : Links(r, p) # {}
    BY <2>1 DEF RegisteredPairs
  <2>3. PICK l \in wired : l[1] = r /\ l[2] = p
    BY <2>2 DEF Links
  <2>4. l[2] = "governor"
    BY <2>1, <2>3 DEF ScriptInv, InRegister, At, Turn
  <2> QED
    BY <2>3, <2>4, NamesAssumption DEF LinkNames
<1>10. CASE InitializeCalculatedFree
  <2> DEFINE f == Addr("CoinPairPriceFree", Calculated)
  <2>1. Turn(300, 3) /\ Initialized(f)
    BY <1>10 DEF InitializeCalculatedFree, Initialize, Turn, Mined
  <2>2. NoLinks(f)
    BY <2>1 DEF ScriptInv, InCalculated, At, Turn
  <2> HIDE DEF f
  <2> QED
    BY <2>1, <2>2, NoLinksOfIt
<1>11. CASE WhitelistCalculated
  <2>1. Turn(300, 4) /\ \E s \in Sources : ~Governed(s)
    BY <1>11 DEF WhitelistCalculated, Turn, Mined
  <2>2. Zero \in Sources
    BY <1>0, <2>1, SourcesGoverned DEF LinkInv
  <2> QED
    BY <2>1, <2>2 DEF Turn
<1>12. CASE RegisterCalculated
  <2> DEFINE r == Proxy("PriceProviderRegister")
  <2>1. Turn(300, 5) /\ ~(Governed(r) /\ Links(r, Calculated) = {})
    BY <1>12 DEF RegisterCalculated, Turn, Mined
  <2>2. /\ completed >= 250 /\ ~Done(300, 5)
        /\ migration = 300
    <3>1. migration = 300 /\ mode = "running" /\ tx = 5
      BY <2>1 DEF Turn
    <3>2. completed >= 250 /\ completed < 300
      BY <3>1, EarlierOver DEF Migrations
    <3> QED
      BY <3>1, <3>2 DEF Done
  <2>3. Governed(r)
    <3>1. RegisterWired
      BY <2>2 DEF LinkInv, CoreWired, Done
    <3> QED
      BY <1>0, <3>1 DEF RegisterWired, LinksAreWired, Governed
  <2>4. PICK l \in wired : l[1] = r /\ l[2] = Calculated
    BY <2>1, <2>3 DEF Links
  <2>5. l \in Of("PriceProviderRegister")
    BY <2>4, ContractsNamed DEF Of
  <2> QED
    BY <1>0, <2>2, <2>4, <2>5 DEF LinksFit, RegisterLinks, RegisterLink
<1>13. CASE \/ AddInfoGetter
            \/ AddProxy(50, "Supporters") \/ AddProxy(60, "OracleManager")
            \/ AddProxy(70, "DelayMachine") \/ AddProxy(80, "Staking")
            \/ (\E p \in todo : AddPairFree(p)) \/ AddPair
            \/ RegisterValues \/ AddRegister
            \/ AddCalculatedFree \/ AddCalculated \/ UpgradeInfoGetter
  BY <1>13 DEF AddInfoGetter, AddProxy, AddPairFree, AddPair, RegisterValues, AddRegister,
               AddCalculatedFree, AddCalculated, UpgradeInfoGetter, Turn, Mined
<1> QED
  BY <1>1, <1>3, <1>4, <1>5, <1>6, <1>7, <1>8, <1>9, <1>10, <1>11, <1>12, <1>13
     DEF Transaction

-----------------------------------------------------------------------------
(***************************************************************************)
(* The steps of truffle and its operator, and the failures.                *)
(***************************************************************************)
LEMMA After130 == After(130) = 150
BY NextMigration DEF Migrations, LastMigration

\* What holds of a running process outside migrations 150, 250 and 300.
LEMMA ScriptElsewhere ==
    ASSUME Position', ProcessTyped', mode' = "running"
    PROVE  /\ migration' # 150 => InPairs' /\ PairsTorn'
           /\ migration' # 250 => InRegister'
           /\ migration' # 300 => InCalculated'
           /\ tx' = 1 => InPairs' /\ InRegister' /\ InCalculated'
           /\ FailureExplained'
<1>1. completed' # LastMigration /\ migration' = After(completed')
  BY DEF Position
<1>2. migration' # 150 => completed' # 130
  BY <1>1, After130
<1>3. /\ migration' # 150 => PairsTorn'
      /\ FailureExplained'
  BY <1>2 DEF PairsTorn, FailureExplained
<1>4. \A m : \A S : migration' # m \/ tx' \notin S => ~At(m, S)'
  BY DEF At
<1>5. 1 \notin 2..3 /\ 1 \notin 3..4 /\ 1 \notin {4} /\ 1 \notin {2} /\ 1 \notin 3..5
      /\ 1 \notin 4..5 /\ 1 \notin {5}
  OBVIOUS
<1>6. migration' # 150 \/ tx' = 1 => InPairs'
  BY <1>4, <1>5 DEF InPairs
<1>7. migration' # 250 \/ tx' = 1 => InRegister'
  BY <1>4, <1>5 DEF InRegister
<1>8. migration' # 300 \/ tx' = 1 => InCalculated'
  BY <1>4, <1>5 DEF InCalculated
<1> QED
  BY <1>3, <1>6, <1>7, <1>8

LEMMA NotRunning ==
    ASSUME mode' # "running"
    PROVE  InPairs' /\ InRegister' /\ InCalculated'
<1>1. \A m : \A S : ~At(m, S)'
  BY DEF At
<1>2. InPairs'
  BY <1>1 DEF InPairs
<1>3. InRegister'
  BY <1>1 DEF InRegister
<1>4. InCalculated'
  BY <1>1 DEF InCalculated
<1> QED
  BY <1>2, <1>3, <1>4

\* The pairs that are registered are a matter of the chain.
LEMMA ChainKept ==
    ASSUME UNCHANGED chainVars
    PROVE  RegisteredPairs' = RegisteredPairs /\ Sources' = Sources /\ wired' = wired
<1>1. wired' = wired /\ recorded' = recorded
  BY DEF chainVars
<1>2. \A c : Proxy(c)' = Proxy(c)
  BY <1>1 DEF Proxy, Addr
<1>3. \A a, r : Links(a, r)' = Links(a, r)
  BY <1>1 DEF Links
<1> QED
  BY <1>1, <1>2, <1>3 DEF RegisteredPairs, Sources

LEMMA SetCompletedKeeps ==
    ASSUME DeployInv, SetCompleted
    PROVE  LinkInv' /\ ScriptInv'
<1> USE PositionTyped DEF DeployInv
<1>0. DeployNext /\ UNCHANGED chainVars /\ completed' = migration /\ mode = "running" /\ Returned
  BY DEF DeployNext, Progress, SetCompleted
<1>1. LinkInv'
  <2>1. ~ \E m \in Migrations : m # 150 /\ \E t \in 1..Transactions(m) : Turn(m, t)
    BY <1>0 DEF Returned, Turn, Transactions
  <2>2. \A m \in {30, 100, 110, 120, 130, 200, 250} : ~Turn(m, 1)
    BY <2>1 DEF Migrations, Transactions
  <2>3. ~Turn(250, 2)
    BY <2>1 DEF Migrations, Transactions
  <2>4. NewFacts
    BY <2>2, <2>3 DEF NewFacts
  <2> QED
    BY <1>0, <2>4, ChainKept, UnwiredKept
<1>2. Position' /\ ProcessTyped'
  BY <1>0, PositionStep
<1>3. CASE migration = LastMigration
  <2>1. mode' = "stopped" /\ completed' # 130
    BY <1>0, <1>3 DEF SetCompleted, LastMigration
  <2> QED
    BY <1>1, <2>1, NotRunning DEF ScriptInv, PairsTorn, FailureExplained
<1>4. CASE migration # LastMigration
  <2>1. mode' = "running" /\ Begin(After(migration))
    BY <1>0, <1>4 DEF SetCompleted
  <2>2. tx' = 1
    BY <2>1 DEF Begin
  <2>3. PairsTorn'
    <3>1. CASE migration # 130
      BY <1>0, <3>1 DEF PairsTorn
    <3>2. CASE migration = 130
      <4>1. RegisteredPairs = {}
        <5>1. completed < 130
          BY <1>0, <3>2, EarlierOver
        <5>2. ASSUME NEW p \in RegisteredPairs PROVE FALSE
          <6>1. p \in Pairs /\ \E l \in wired : l[1] = Proxy("OracleManager") /\ l[2] = p
            BY DEF RegisteredPairs, Links
          <6>2. PICK l \in wired : l[1] = Proxy("OracleManager") /\ l[2] = p
            BY <6>1
          <6>3. l \in Of("OracleManager")
            BY <6>2, ContractsNamed DEF Of
          <6> QED
            BY <5>1, <6>1, <6>2, <6>3 DEF LinkInv, LinksFit, ManagerLinks
        <5> QED
          BY <5>2
      <4>2. RegisteredPairs' = {}
        BY <1>0, <4>1, ChainKept
      <4> QED
        BY <2>1, <4>2 DEF PairsTorn
    <3> QED
      BY <3>1, <3>2
  <2> QED
    BY <1>1, <1>2, <2>1, <2>2, <2>3, ScriptElsewhere DEF ScriptInv
<1> QED
  BY <1>3, <1>4

LEMMA MigrateKeeps ==
    ASSUME DeployInv, Migrate
    PROVE  LinkInv' /\ ScriptInv'
<1> USE PositionTyped DEF DeployInv
<1>0. /\ DeployNext /\ UNCHANGED chainVars /\ completed' = completed /\ mode # "running"
      /\ mode' = "running" /\ Begin(After(completed)) /\ torn' = torn
      /\ config' \in {config, [pairs |-> config.pairs \ RegisteredPairs, complete |-> TRUE]}
  BY DEF DeployNext, Progress, Migrate
<1>1. LinkInv'
  <2>1. NewFacts
    BY <1>0 DEF NewFacts, Turn
  <2> QED
    BY <1>0, <2>1, ChainKept, UnwiredKept
<1>2. Position' /\ ProcessTyped'
  BY <1>0, PositionStep
<1>3. tx' = 1
  BY <1>0 DEF Begin
<1>4. PairsTorn'
  <2> SUFFICES ASSUME completed = 130, Unregistered' \cap RegisteredPairs' # {}
               PROVE  150 \in torn
    BY <1>0 DEF PairsTorn
  <2>1. todo' = config'.pairs
    BY <1>0, After130 DEF Begin
  <2>2. config'.pairs \cap RegisteredPairs # {}
    BY <1>0, <1>3, <2>1, ChainKept DEF Unregistered
  <2>3. config' = config
    <3> DEFINE P == config.pairs \ RegisteredPairs
    <3>1. P \cap RegisteredPairs = {}
      OBVIOUS
    <3> HIDE DEF P
    <3>2. [pairs |-> P, complete |-> TRUE].pairs = P
      OBVIOUS
    <3> QED
      BY <1>0, <2>2, <3>1, <3>2 DEF P
  <2> QED
    BY <1>0, <2>2, <2>3 DEF ScriptInv, PairsTorn
<1> QED
  BY <1>0, <1>1, <1>2, <1>3, <1>4, ScriptElsewhere DEF ScriptInv

LEMMA InterruptKeeps ==
    ASSUME DeployInv, Interrupt
    PROVE  LinkInv' /\ ScriptInv'
<1> USE PositionTyped DEF DeployInv
<1>0. /\ DeployNext /\ UNCHANGED chainVars /\ completed' = completed /\ mode = "running"
      /\ mode' = "stopped" /\ config' = config
      /\ torn' = IF Unrepeatable THEN torn \cup {migration} ELSE torn
  BY DEF DeployNext, Interrupt
<1>1. LinkInv'
  BY <1>0, ChainKept, UnwiredKept
<1>2. PairsTorn'
  <2> SUFFICES ASSUME completed = 130, config.pairs \cap RegisteredPairs # {}
               PROVE  150 \in torn'
    BY <1>0, ChainKept DEF PairsTorn
  <2>1. migration = 150
    BY <1>0, After130 DEF Position, LastMigration
  <2> QED
    BY <1>0, <2>1 DEF Unrepeatable
<1> QED
  BY <1>0, <1>1, <1>2, NotRunning DEF ScriptInv, FailureExplained

LEMMA AbortKeeps ==
    ASSUME DeployInv, Transaction, mode' = "failed"
    PROVE  LinkInv' /\ ScriptInv'
<1> USE PositionTyped DEF DeployInv
<1>0. /\ DeployNext /\ UNCHANGED chainVars /\ UNCHANGED <<completed, migration, config, torn>>
      /\ mode = "running"
  BY TransactionWorks DEF DeployNext, Progress, Works
<1>1. LinkInv'
  BY <1>0, ChainKept, UnwiredKept
<1>2. \/ migration = 1 /\ ~config.complete
      \/ migration \in torn
      \/ migration = 300 /\ Zero \in Sources
  BY AbortExplained
<1>3. FailureExplained'
  BY <1>0, <1>2, ChainKept DEF FailureExplained
<1>4. PairsTorn'
  <2> SUFFICES ASSUME completed = 130 PROVE 150 \in torn
    BY <1>0 DEF PairsTorn
  <2>1. migration = 150
    BY <1>0, After130 DEF Position, LastMigration
  <2> QED
    BY <1>2, <2>1
<1> QED
  BY <1>1, <1>3, <1>4, NotRunning DEF ScriptInv

-----------------------------------------------------------------------------
(***************************************************************************)
(* The transactions that are mined.                                        *)
(***************************************************************************)

\* Where the process is after one.
LEMMA GoesOn ==
    ASSUME DeployInv, Transaction, mode' = "running"
    PROVE  /\ DeployNext /\ mode = "running"
           /\ UNCHANGED <<config, completed, migration, attempts, torn>>
           /\ migration # 150 => tx' = tx + 1 /\ UNCHANGED <<coin, todo>>
           /\ Position' /\ ProcessTyped' /\ FailureExplained'
           /\ migration # 150 => InPairs' /\ PairsTorn'
           /\ migration # 250 => InRegister'
           /\ migration # 300 => InCalculated'
           /\ recorded' \in [Aliases -> 0..MaxAttempts]
           /\ completed < migration /\ \A k \in Migrations : k < migration => k <= completed
<1>1. DeployNext /\ Works
  BY TransactionWorks DEF DeployNext, Progress
<1>2. Position' /\ ProcessTyped' /\ recorded' \in [Aliases -> 0..MaxAttempts]
  BY <1>1, PositionStep, CountedStep DEF DeployInv
<1>3. mode = "running" /\ UNCHANGED <<config, completed, migration, attempts, torn>>
  BY <1>1 DEF Works
<1>4. migration # 150 => tx' = tx + 1 /\ UNCHANGED <<coin, todo>>
  BY <1>1 DEF Works
<1>5. completed < migration /\ \A k \in Migrations : k < migration => k <= completed
  BY <1>3, EarlierOver DEF DeployInv
<1>6. /\ FailureExplained'
      /\ migration # 150 => InPairs' /\ PairsTorn'
      /\ migration # 250 => InRegister'
      /\ migration # 300 => InCalculated'
  BY <1>2, <1>3, ScriptElsewhere
<1> QED
  BY <1>1, <1>2, <1>3, <1>4, <1>5, <1>6

LEMMA AddressAfter ==
    ASSUME recorded' \in [Aliases -> 0..MaxAttempts], NEW c, NEW p, <<c, p>> \in Aliases
    PROVE  /\ Addr(c, p)' \in Contract
           /\ Addr(c, p)' = <<c, p, recorded'[<<c, p>>]>>
           /\ recorded'[<<c, p>>] \in 0..MaxAttempts
<1> DEFINE a == <<c, p>>
           n == recorded'[a]
<1>1. a \in Aliases /\ a[1] = c /\ a[2] = p
  OBVIOUS
<1>2. n \in 0..MaxAttempts
  BY <1>1
<1> HIDE DEF a, n
<1>3. <<a[1], a[2], n>> \in Contract
  BY <1>1, <1>2 DEF Contract
<1> QED
  BY <1>1, <1>2, <1>3 DEF a, n, Addr

\* The proxy of an alias has a new link.
LEMMA LinkAdded ==
    ASSUME recorded' \in [Aliases -> 0..MaxAttempts], NEW c, NEW p, <<c, p>> \in Aliases,
           NEW a, a = Addr(c, p)', NEW r \in Roles, NEW x,
           x \in Contract \cup {Governor, Token, Registry, FlatGetter, Zero},
           r = "governor" => x = Governor
    PROVE  NewLink(c, <<a, r, x>>)
<1> DEFINE l == <<a, r, x>>
           n == recorded'[<<c, p>>]
<1>1. a \in Contract /\ a = <<c, p, n>> /\ n \in 0..MaxAttempts
  BY AddressAfter
<1>2. a[1] = c /\ a[2] = p /\ a[3] = n
  BY <1>1
<1>3. l \in LinkTypes
  BY <1>1 DEF LinkTypes
<1>4. l[1] = a /\ l[2] = r /\ l[3] = x
  OBVIOUS
<1>5. n <= n
  BY <1>1
<1>6. <<a[1], a[2]>> = <<c, p>>
  BY <1>2
<1> HIDE DEF l
<1>7. NewLink(c, l)
  BY <1>2, <1>3, <1>4, <1>5, <1>6 DEF NewLink
<1> QED
  BY <1>7 DEF l

LEMMA LinksAdded ==
    ASSUME NEW c, NEW S, wired' = wired \cup S, \A l \in S : NewLink(c, l)
    PROVE  NewLinks(c) /\ S \subseteq wired'
BY DEF NewLinks

\* Calls that wire nothing.
LEMMA UnwiringKeeps ==
    ASSUME DeployInv, Transaction, mode' = "running", wired' = wired,
           migration \in {1, 50, 60, 70, 80}
    PROVE  LinkInv' /\ ScriptInv'
<1>1. NewFacts
  BY DEF NewFacts, Turn
<1> QED
  BY <1>1, GoesOn, UnwiredKept DEF DeployInv, ScriptInv

LEMMA AddInfoGetterKeeps ==
    ASSUME DeployInv, AddInfoGetter
    PROVE  LinkInv' /\ ScriptInv'
<1> DEFINE a == Proxy("InfoGetter")'
           l == <<a, "governor", Governor>>
<1>1. Transaction /\ mode' = "running" /\ Turn(30, 1) /\ migration = 30
  BY DEF Transaction, AddInfoGetter, Turn, Mined
<1>2. <<"InfoGetter", "none">> \in Aliases
  BY AliasNames DEF Single
<1>3. NewProxy("InfoGetter") = a
  <2>1. recorded' = [recorded EXCEPT ![<<"InfoGetter", "none">>] = @ + 1]
    BY DEF AddInfoGetter, OzAddInitialized, OzAdd
  <2>2. recorded'[<<"InfoGetter", "none">>] = recorded[<<"InfoGetter", "none">>] + 1
    BY <1>2, <2>1 DEF DeployInv, DeployTypeOK
  <2> QED
    BY <2>2 DEF NewProxy, NewAddr, Proxy, Addr
<1>4. wired' = wired \cup {l}
  BY <1>3 DEF AddInfoGetter, OzAddInitialized
<1>5. NewLink("InfoGetter", l)
  <2>1. a = Addr("InfoGetter", "none")'
    BY DEF Proxy
  <2>2. "governor" \in Roles
    BY DEF Roles, LinkNames
  <2> HIDE DEF a
  <2> QED
    BY <1>1, <1>2, <2>1, <2>2, GoesOn, LinkAdded
<1> HIDE DEF l
<1>6. NewLinks("InfoGetter") /\ l \in wired'
  <2> DEFINE S == {l}
  <2>1. wired' = wired \cup S /\ \A n \in S : NewLink("InfoGetter", n)
    BY <1>4, <1>5
  <2> HIDE DEF S
  <2>2. NewLinks("InfoGetter") /\ S \subseteq wired'
    BY <2>1, LinksAdded
  <2> QED
    BY <2>2 DEF S
<1>7. NewFacts
  BY <1>1, <1>6 DEF NewFacts, Turn, GetterWired, l
<1>8. OwnLinks("InfoGetter")'
  BY DEF OwnLinks
<1>9. LinkInv'
  BY <1>1, <1>6, <1>7, <1>8, GoesOn, LinksKept DEF DeployInv
<1> QED
  BY <1>1, <1>9, GoesOn DEF ScriptInv

LEMMA InitializeSupportersKeeps ==
    ASSUME DeployInv, InitializeSupporters, mode' = "running"
    PROVE  LinkInv' /\ ScriptInv'
<1> USE PositionTyped DEF DeployInv
<1> DEFINE s == Proxy("Supporters")
           o == Proxy("OracleManager")
           d == Proxy("DelayMachine")
           k == Proxy("Staking")
           S == {<<s, "governor", Governor>>,
                  <<s, "whitelist", k>>,
                  <<s, "token", Token>>}
<1>1. Transaction /\ Turn(100, 1) /\ migration = 100 /\ completed >= 80
  <2>1. Transaction /\ Turn(100, 1) /\ migration = 100
    BY DEF Transaction, InitializeSupporters, Turn
  <2> QED
    BY <2>1, GoesOn DEF Migrations
<1>2. recorded' = recorded /\ wired' = wired \cup S
  BY <1>1 DEF InitializeSupporters, Initialize, Abort
<1>3. s' = s /\ o' = o /\ d' = d /\ k' = k
  BY <1>2 DEF Proxy, Addr
<1>4. /\ s \in Contract /\ o \in Contract /\ d \in Contract /\ k \in Contract
      /\ <<"Supporters", "none">> \in Aliases
      /\ s = Addr("Supporters", "none")'
  BY <1>2, AliasNames, AddressTyped DEF Proxy, Addr, Single
<1>5. ASSUME NEW l \in S PROVE NewLink("Supporters", l)
  <2>1. {"governor", "token", "whitelist", "staking", "supporters", "oracleManager", "delayMachine"}
           \subseteq Roles
    BY DEF Roles, LinkNames
  <2>2. recorded' \in [Aliases -> 0..MaxAttempts]
    BY <1>1, GoesOn
  <2>3. \A r \in Roles : \A y \in Contract \cup {Governor, Token} :
           (r = "governor" => y = Governor) => NewLink("Supporters", <<s, r, y>>)
    <3> HIDE DEF s, o, d, k
    <3> QED
      BY <1>4, <2>2, LinkAdded
  <2> HIDE DEF s, o, d, k
  <2> QED
    BY <1>4, <2>1, <2>3
<1>6. NewLinks("Supporters") /\ S \subseteq wired'
  <2> HIDE DEF S
  <2> QED
    BY <1>2, <1>5, LinksAdded
<1>7. OwnLinks("Supporters")'
  <2>1. ASSUME NEW l \in Of("Supporters")'
        PROVE  /\ completed >= 80 /\ l[1] = s
               /\ l[2] = "whitelist" => l[3] = k
               /\ l[2] = "token" => l[3] = Token
    <3>1. CASE l \in S
      BY <1>1, <3>1
    <3>2. CASE l \in Of("Supporters")
      BY <1>1, <3>2 DEF LinkInv, LinksFit, SupportersLinks
    <3> QED
      BY <1>2, <2>1, <3>1, <3>2 DEF Of
  <2>2. Done(100, 1)' /\ completed' >= 80
    BY <1>1, GoesOn DEF Turn, Done
  <2>3. SupportersLinks'
    BY <1>3, <2>1, <2>2 DEF SupportersLinks
  <2> QED
    BY <2>3 DEF OwnLinks
<1>8. NewFacts
  <2>1. SupportersWired'
    BY <1>3, <1>6 DEF SupportersWired
  <2> QED
    BY <1>1, <2>1 DEF NewFacts, Turn
<1>9. LinkInv'
  BY <1>1, <1>6, <1>7, <1>8, GoesOn, LinksKept
<1> QED
  BY <1>1, <1>9, GoesOn DEF ScriptInv

LEMMA InitializeOracleManagerKeeps ==
    ASSUME DeployInv, InitializeOracleManager, mode' = "running"
    PROVE  LinkInv' /\ ScriptInv'
<1> USE PositionTyped DEF DeployInv
<1> DEFINE s == Proxy("Supporters")
           o == Proxy("OracleManager")
           d == Proxy("DelayMachine")
           k == Proxy("Staking")
           S == {<<o, "governor", Governor>>,
                  <<o, "staking", k>>,
                  <<o, "whitelist", k>>}
<1>1. Transaction /\ Turn(110, 1) /\ migration = 110 /\ completed >= 80
  <2>1. Transaction /\ Turn(110, 1) /\ migration = 110
    BY DEF Transaction, InitializeOracleManager, Turn
  <2> QED
    BY <2>1, GoesOn DEF Migrations
<1>2. recorded' = recorded /\ wired' = wired \cup S
  BY <1>1 DEF InitializeOracleManager, Initialize, Abort
<1>3. s' = s /\ o' = o /\ d' = d /\ k' = k
  BY <1>2 DEF Proxy, Addr
<1>4. /\ s \in Contract /\ o \in Contract /\ d \in Contract /\ k \in Contract
      /\ <<"OracleManager", "none">> \in Aliases
      /\ o = Addr("OracleManager", "none")'
  BY <1>2, AliasNames, AddressTyped DEF Proxy, Addr, Single
<1>5. ASSUME NEW l \in S PROVE NewLink("OracleManager", l)
  <2>1. {"governor", "token", "whitelist", "staking", "supporters", "oracleManager", "delayMachine"}
           \subseteq Roles
    BY DEF Roles, LinkNames
  <2>2. recorded' \in [Aliases -> 0..MaxAttempts]
    BY <1>1, GoesOn
  <2>3. \A r \in Roles : \A y \in Contract \cup {Governor, Token} :
           (r = "governor" => y = Governor) => NewLink("OracleManager", <<o, r, y>>)
    <3> HIDE DEF s, o, d, k
    <3> QED
      BY <1>4, <2>2, LinkAdded
  <2> HIDE DEF s, o, d, k
  <2> QED
    BY <1>4, <2>1, <2>3
<1>6. NewLinks("OracleManager") /\ S \subseteq wired'
  <2> HIDE DEF S
  <2> QED
    BY <1>2, <1>5, LinksAdded
<1>7. OwnLinks("OracleManager")'
  <2>1. ASSUME NEW l \in Of("OracleManager")'
        PROVE  /\ completed >= 80 /\ l[1] = o
               /\ l[2] = "staking" => l[3] = k
               /\ l[2] \in Pairs => completed >= 130 /\ l[3][1] = "CoinPairPrice"
               /\ l[2] # Calculated
    <3>1. CASE l \in S
      BY <1>1, <3>1, NamesAssumption DEF LinkNames
    <3>2. CASE l \in Of("OracleManager")
      BY <1>1, <3>2 DEF LinkInv, LinksFit, ManagerLinks
    <3> QED
      BY <1>2, <2>1, <3>1, <3>2 DEF Of
  <2>2. Done(110, 1)' /\ completed' = completed /\ completed < 110
    BY <1>1, GoesOn DEF Turn, Done
  <2>3. ManagerLinks'
    BY <1>3, <2>1, <2>2 DEF ManagerLinks
  <2>4. PairsReady'
    BY <2>1, <2>2 DEF PairsReady
  <2> QED
    BY <2>3, <2>4 DEF OwnLinks
<1>8. NewFacts
  <2>1. ManagerWired'
    BY <1>3, <1>6 DEF ManagerWired
  <2> QED
    BY <1>1, <2>1 DEF NewFacts, Turn
<1>9. LinkInv'
  BY <1>1, <1>6, <1>7, <1>8, GoesOn, LinksKept
<1> QED
  BY <1>1, <1>9, GoesOn DEF ScriptInv

LEMMA InitializeDelayMachineKeeps ==
    ASSUME DeployInv, InitializeDelayMachine, mode' = "running"
    PROVE  LinkInv' /\ ScriptInv'
<1> USE PositionTyped DEF DeployInv
<1> DEFINE s == Proxy("Supporters")
           o == Proxy("OracleManager")
           d == Proxy("DelayMachine")
           k == Proxy("Staking")
           S == {<<d, "governor", Governor>>,
                  <<d, "token", Token>>,
                  <<d, "staking", k>>}
<1>1. Transaction /\ Turn(120, 1) /\ migration = 120 /\ completed >= 80
  <2>1. Transaction /\ Turn(120, 1) /\ migration = 120
    BY DEF Transaction, InitializeDelayMachine, Turn
  <2> QED
    BY <2>1, GoesOn DEF Migrations
<1>2. recorded' = recorded /\ wired' = wired \cup S
  BY <1>1 DEF InitializeDelayMachine, Initialize, Abort
<1>3. s' = s /\ o' = o /\ d' = d /\ k' = k
  BY <1>2 DEF Proxy, Addr
<1>4. /\ s \in Contract /\ o \in Contract /\ d \in Contract /\ k \in Contract
      /\ <<"DelayMachine", "none">> \in Aliases
      /\ d = Addr("DelayMachine", "none")'
  BY <1>2, AliasNames, AddressTyped DEF Proxy, Addr, Single
<1>5. ASSUME NEW l \in S PROVE NewLink("DelayMachine", l)
  <2>1. {"governor", "token", "whitelist", "staking", "supporters", "oracleManager", "delayMachine"}
           \subseteq Roles
    BY DEF Roles, LinkNames
  <2>2. recorded' \in [Aliases -> 0..MaxAttempts]
    BY <1>1, GoesOn
  <2>3. \A r \in Roles : \A y \in Contract \cup {Governor, Token} :
           (r = "governor" => y = Governor) => NewLink("DelayMachine", <<d, r, y>>)
    <3> HIDE DEF s, o, d, k
    <3> QED
      BY <1>4, <2>2, LinkAdded
  <2> HIDE DEF s, o, d, k
  <2> QED
    BY <1>4, <2>1, <2>3
<1>6. NewLinks("DelayMachine") /\ S \subseteq wired'
  <2> HIDE DEF S
  <2> QED
    BY <1>2, <1>5, LinksAdded
<1>7. OwnLinks("DelayMachine")'
  <2>1. ASSUME NEW l \in Of("DelayMachine")'
        PROVE  /\ completed >= 80 /\ l[1] = d
               /\ l[2] = "staking" => l[3] = k
               /\ l[2] = "token" => l[3] = Token
    <3>1. CASE l \in S
      BY <1>1, <3>1
    <3>2. CASE l \in Of("DelayMachine")
      BY <1>1, <3>2 DEF LinkInv, LinksFit, MachineLinks
    <3> QED
      BY <1>2, <2>1, <3>1, <3>2 DEF Of
  <2>2. Done(120, 1)' /\ completed' >= 80
    BY <1>1, GoesOn DEF Turn, Done
  <2>3. MachineLinks'
    BY <1>3, <2>1, <2>2 DEF MachineLinks
  <2> QED
    BY <2>3 DEF OwnLinks
<1>8. NewFacts
  <2>1. MachineWired'
    BY <1>3, <1>6 DEF MachineWired
  <2> QED
    BY <1>1, <2>1 DEF NewFacts, Turn
<1>9. LinkInv'
  BY <1>1, <1>6, <1>7, <1>8, GoesOn, LinksKept
<1> QED
  BY <1>1, <1>9, GoesOn DEF ScriptInv

LEMMA InitializeStakingKeeps ==
    ASSUME DeployInv, InitializeStaking, mode' = "running"
    PROVE  LinkInv' /\ ScriptInv'
<1> USE PositionTyped DEF DeployInv
<1> DEFINE s == Proxy("Supporters")
           o == Proxy("OracleManager")
           d == Proxy("DelayMachine")
           k == Proxy("Staking")
           S == {<<k, "governor", Governor>>,
                  <<k, "supporters", s>>,
                  <<k, "oracleManager", o>>,
                  <<k, "delayMachine", d>>,
                  <<k, "token", Token>>}
<1>1. Transaction /\ Turn(130, 1) /\ migration = 130 /\ completed >= 80
  <2>1. Transaction /\ Turn(130, 1) /\ migration = 130
    BY DEF Transaction, InitializeStaking, Turn
  <2> QED
    BY <2>1, GoesOn DEF Migrations
<1>2. recorded' = recorded /\ wired' = wired \cup S
  <2>1. LinksAreWired /\ Links(s, "token") = {Token}
    <3>1. LinksAreWired
      BY LinksOfWired DEF LinkInv
    <3>2. <<s, "token", Token>> \in wired
      <4>1. Done(100, 1)
        BY <1>1, GoesOn DEF Migrations, Done
      <4> QED
        BY <4>1 DEF LinkInv, CoreWired, SupportersWired
    <3>3. ASSUME NEW x \in Links(s, "token") PROVE x = Token
      <4>1. PICK l \in wired : l[1] = s /\ l[2] = "token" /\ l[3] = x
        BY <3>3 DEF Links
      <4>2. l \in Of("Supporters")
        BY <4>1, ContractsNamed DEF Of
      <4> QED
        BY <4>1, <4>2 DEF LinkInv, LinksFit, SupportersLinks
    <3> QED
      BY <3>1, <3>2, <3>3 DEF LinksAreWired
  <2> DEFINE T == {<<k, "token", t>> : t \in Links(s, "token")}
  <2>2. T = {<<k, "token", Token>>}
    BY <2>1
  <2>3. recorded' = recorded
    BY DEF InitializeStaking, Initialize, Abort
  <2>4. wired' = wired \cup ({<<k, "governor", Governor>>, <<k, "supporters", s>>,
                              <<k, "oracleManager", o>>, <<k, "delayMachine", d>>} \cup T)
    BY <1>1 DEF InitializeStaking, Initialize, Abort
  <2> QED
    BY <2>2, <2>3, <2>4
<1>3. s' = s /\ o' = o /\ d' = d /\ k' = k
  BY <1>2 DEF Proxy, Addr
<1>4. /\ s \in Contract /\ o \in Contract /\ d \in Contract /\ k \in Contract
      /\ <<"Staking", "none">> \in Aliases
      /\ k = Addr("Staking", "none")'
  BY <1>2, AliasNames, AddressTyped DEF Proxy, Addr, Single
<1>5. ASSUME NEW l \in S PROVE NewLink("Staking", l)
  <2>1. {"governor", "token", "whitelist", "staking", "supporters", "oracleManager", "delayMachine"}
           \subseteq Roles
    BY DEF Roles, LinkNames
  <2>2. recorded' \in [Aliases -> 0..MaxAttempts]
    BY <1>1, GoesOn
  <2>3. \A r \in Roles : \A y \in Contract \cup {Governor, Token} :
           (r = "governor" => y = Governor) => NewLink("Staking", <<k, r, y>>)
    <3> HIDE DEF s, o, d, k
    <3> QED
      BY <1>4, <2>2, LinkAdded
  <2> HIDE DEF s, o, d, k
  <2> QED
    BY <1>4, <2>1, <2>3
<1>6. NewLinks("Staking") /\ S \subseteq wired'
  <2> HIDE DEF S
  <2> QED
    BY <1>2, <1>5, LinksAdded
<1>7. OwnLinks("Staking")'
  <2>1. ASSUME NEW l \in Of("Staking")'
        PROVE  /\ completed >= 80 /\ l[1] = k
               /\ l[2] = "supporters" => l[3] = s
               /\ l[2] = "oracleManager" => l[3] = o
               /\ l[2] = "delayMachine" => l[3] = d
               /\ l[2] = "token" => l[3] = Token
    <3>1. CASE l \in S
      BY <1>1, <3>1
    <3>2. CASE l \in Of("Staking")
      BY <1>1, <3>2 DEF LinkInv, LinksFit, StakingLinks
    <3> QED
      BY <1>2, <2>1, <3>1, <3>2 DEF Of
  <2>2. Done(130, 1)' /\ completed' >= 80
    BY <1>1, GoesOn DEF Turn, Done
  <2>3. StakingLinks'
    BY <1>3, <2>1, <2>2 DEF StakingLinks
  <2> QED
    BY <2>3 DEF OwnLinks
<1>8. NewFacts
  <2>1. StakingWired'
    BY <1>3, <1>6 DEF StakingWired
  <2> QED
    BY <1>1, <2>1 DEF NewFacts, Turn
<1>9. LinkInv'
  BY <1>1, <1>6, <1>7, <1>8, GoesOn, LinksKept
<1> QED
  BY <1>1, <1>9, GoesOn DEF ScriptInv

-----------------------------------------------------------------------------
(***************************************************************************)
(* The transactions of migrations 150, 250 and 300.                        *)
(***************************************************************************)

\* What ozAdd does to the addresses.
LEMMA ProxyAdded ==
    ASSUME DeployTypeOK, NEW c, NEW p, <<c, p>> \in Aliases, OzAdd(c, p)
    PROVE  /\ Addr(c, p)' = NewAddr(c, p)
           /\ \A d, q : <<d, q>> # <<c, p>> => Addr(d, q)' = Addr(d, q)
           /\ \A d : d # c => Proxy(d)' = Proxy(d)
           /\ p # "none" => \A d : Proxy(d)' = Proxy(d)
<1> DEFINE b == <<c, p>>
<1>1. recorded' = [recorded EXCEPT ![b] = @ + 1] /\ b \in Aliases
  BY DEF OzAdd
<1>2. recorded \in [Aliases -> 0..MaxAttempts]
  BY DEF DeployTypeOK
<1> HIDE DEF b
<1>3. recorded'[b] = recorded[b] + 1 /\ \A a : a # b => recorded'[a] = recorded[a]
  BY <1>1, <1>2
<1>4. Addr(c, p)' = NewAddr(c, p)
  BY <1>3 DEF Addr, NewAddr, b
<1>5. \A d, q : <<d, q>> # b => Addr(d, q)' = Addr(d, q)
  BY <1>3 DEF Addr
<1>6. \A d : d # c \/ p # "none" => <<d, "none">> # b
  <2> SUFFICES ASSUME NEW d, <<d, "none">> = b PROVE d = c /\ p = "none"
    OBVIOUS
  <2> QED
    BY DEF b
<1>7. \A d : d # c \/ p # "none" => Proxy(d)' = Proxy(d)
  BY <1>5, <1>6 DEF Proxy
<1> QED
  BY <1>4, <1>5, <1>7 DEF b

\* A new proxy has no links.
LEMMA NewProxyUnlinked ==
    ASSUME DeployTypeOK, Fresh, NEW c \in Single \cup PerPair, NEW p, <<c, p>> \in Aliases
    PROVE  NoLinks(NewAddr(c, p))
<1> SUFFICES ASSUME NEW l \in wired, l[1] = NewAddr(c, p) PROVE FALSE
  BY DEF NoLinks
<1> DEFINE n == recorded[<<c, p>>]
           a == <<c, p, n + 1>>
<1>1. n \in Nat
  BY AddressTyped
<1>2. l[1] = a
  BY DEF NewAddr
<1>3. a[1] = c /\ a[2] = p /\ a[3] = n + 1
  OBVIOUS
<1> HIDE DEF a
<1>4. a \notin FoundContracts \cup {Registry}
  BY <1>3, ContractsNamed
<1>5. <<a[1], a[2]>> = <<c, p>>
  BY <1>3
<1>6. a[3] <= n
  BY <1>2, <1>4, <1>5 DEF Fresh
<1> QED
  BY <1>1, <1>3, <1>6

\* Links of other contracts leave a contract without links, and the pairs.
LEMMA UnlinkedKept ==
    ASSUME NEW c, NewLinks(c), NEW a, NoLinks(a), a[1] # c
    PROVE  \A l \in wired' : l[1] # a
BY DEF NewLinks, NewLink, NoLinks

LEMMA RegisteredKept ==
    ASSUME NEW c, NewLinks(c), c # "OracleManager",
           Proxy("OracleManager")' = Proxy("OracleManager")
    PROVE  RegisteredPairs' = RegisteredPairs
<1> DEFINE o == Proxy("OracleManager")
<1>1. o[1] = "OracleManager" /\ o # Registry
  BY ContractsNamed
<1> HIDE DEF o
<1>2. \A l : l[1] = o => (l \in wired' <=> l \in wired)
  BY <1>1 DEF NewLinks, NewLink
<1>3. \A p : Links(o, p)' # {} <=> Links(o, p) # {}
  BY <1>2 DEF Links, o
<1> QED
  BY <1>3 DEF RegisteredPairs, o

LEMMA AddPairFreeKeeps ==
    ASSUME DeployInv, NEW p \in todo, AddPairFree(p)
    PROVE  LinkInv' /\ ScriptInv'
<1> USE PositionTyped DEF DeployInv
<1> DEFINE a == "CoinPairPriceFree"
<1>1. /\ Transaction /\ mode' = "running" /\ migration = 150 /\ tx = 1 /\ tx' = 2
      /\ coin' = p /\ todo' = todo \ {p} /\ wired' = wired /\ OzAdd(a, p)
  BY DEF Transaction, AddPairFree, Turn
<1>2. p \in Pairs /\ p # "none" /\ <<a, p>> \in Aliases
  BY AliasNames DEF DeployTypeOK, PerPair
<1>3. LinkInv'
  <2>1. NewFacts
    BY <1>1 DEF NewFacts, Turn
  <2> QED
    BY <1>1, <2>1, GoesOn, UnwiredKept
<1>4. InPairs'
  <2> DEFINE f == Addr(a, coin)
  <2>1. f' = NewAddr(a, p)
    BY <1>1, <1>2, ProxyAdded DEF Addr
  <2>2. NoLinks(NewAddr(a, p))
    BY <1>2, NewProxyUnlinked DEF LinkInv, PerPair
  <2>3. \A l \in wired' : l[1] # f'
    BY <1>1, <2>1, <2>2 DEF NoLinks
  <2>4. NoLinks(f)'
    <3> HIDE DEF f
    <3> QED
      BY <2>3 DEF NoLinks
  <2>5. ~At(150, 3..4)' /\ ~At(150, {4})'
    BY <1>1 DEF At
  <2> QED
    BY <2>4, <2>5 DEF InPairs
<1>5. PairsTorn'
  <2>1. RegisteredPairs' = RegisteredPairs
    <3>1. NewLinks("none")
      BY <1>1 DEF NewLinks
    <3>2. Proxy("OracleManager")' = Proxy("OracleManager")
      BY <1>1, <1>2, ProxyAdded
    <3> QED
      BY <3>1, <3>2, RegisteredKept
  <2>2. Unregistered' = Unregistered
    BY <1>1 DEF Unregistered
  <2> QED
    BY <1>1, <2>1, <2>2, GoesOn DEF ScriptInv, PairsTorn
<1> QED
  BY <1>1, <1>3, <1>4, <1>5, GoesOn DEF ScriptInv

LEMMA AddPairKeeps ==
    ASSUME DeployInv, NEW p, p = coin, AddPair
    PROVE  LinkInv' /\ ScriptInv'
<1> USE PositionTyped DEF DeployInv
<1> DEFINE a == "CoinPairPrice"
           c == NewAddr(a, p)
           f == Addr("CoinPairPriceFree", p)
           o == Proxy("OracleManager")
           g == Proxy("InfoGetter")
           S == {<<c, "governor", Governor>>, <<c, "token", Token>>,
                 <<c, "whitelist", f>>, <<c, "whitelist", g>>,
                 <<c, "oracleManager", o>>, <<c, "registry", Registry>>}
<1>1. /\ Transaction /\ mode' = "running" /\ migration = 150 /\ tx = 2 /\ tx' = 3
      /\ UNCHANGED <<coin, todo>> /\ OzAdd(a, p) /\ Turn(150, 2)
  BY DEF Transaction, AddPair, OzAddInitialized, Turn, Mined
<1>2. p \in Pairs /\ p # "none" /\ <<a, p>> \in Aliases /\ <<"CoinPairPriceFree", p>> \in Aliases
  BY <1>1, AliasNames DEF DeployTypeOK, PerPair, Position, At, Turn
<1>3. wired' = wired \cup S
  BY DEF AddPair, OzAddInitialized
<1>4. Addr(a, p)' = c /\ f' = f /\ o' = o /\ g' = g
  <2>1. <<"CoinPairPriceFree", p>> # <<a, p>>
    OBVIOUS
  <2> QED
    BY <1>1, <1>2, <2>1, ProxyAdded
<1>5. f \in Contract /\ o \in Contract /\ g \in Contract
  BY <1>2, AliasNames, AddressTyped DEF Proxy, Single
<1>6. ASSUME NEW l \in S PROVE NewLink(a, l)
  <2>1. {"governor", "token", "whitelist", "oracleManager", "registry"} \subseteq Roles
    BY DEF Roles, LinkNames
  <2>2. recorded' \in [Aliases -> 0..MaxAttempts]
    BY <1>1, GoesOn
  <2> HIDE DEF c, f, o, g
  <2>3. \A r \in Roles : \A y \in Contract \cup {Governor, Token, Registry} :
           (r = "governor" => y = Governor) => NewLink(a, <<c, r, y>>)
    BY <1>2, <1>4, <2>2, LinkAdded
  <2> QED
    BY <1>5, <2>1, <2>3
<1>7. NewLinks(a) /\ S \subseteq wired'
  <2> HIDE DEF S
  <2> QED
    BY <1>3, <1>6, LinksAdded
<1>8. completed = 130 /\ completed' = completed
  BY <1>1, GoesOn DEF Migrations
<1>9. LinkInv'
  <2>1. ASSUME NEW l \in Of(a)' PROVE l[2] = "oracleManager" => l[3] = o
    <3>1. CASE l \in S
      BY <3>1
    <3>2. CASE l \in Of(a)
      BY <3>2 DEF LinkInv, LinksFit, PairLinks
    <3> QED
      BY <1>3, <2>1, <3>1, <3>2 DEF Of
  <2>2. PairLinks'
    BY <1>4, <1>8, <2>1 DEF PairLinks
  <2>3. OwnLinks(a)'
    BY <2>2 DEF OwnLinks
  <2>4. NewFacts
    BY <1>1 DEF NewFacts, Turn
  <2> QED
    BY <1>1, <1>7, <2>3, <2>4, GoesOn, LinksKept
<1>10. InPairs'
  <2>1. NoLinks(f)
    BY <1>1 DEF ScriptInv, InPairs, At, Turn
  <2>2. f[1] # a
    BY ContractsNamed
  <2>3. \A l \in wired' : l[1] # f
    BY <1>7, <2>1, <2>2, UnlinkedKept
  <2>4. {<<c, "governor", Governor>>, <<c, "whitelist", f>>, <<c, "oracleManager", o>>} \subseteq wired'
    BY <1>7
  <2>5. Addr(a, coin)' = c /\ Addr("CoinPairPriceFree", coin)' = f
    BY <1>1, <1>4 DEF Addr
  <2>6. ~At(150, {4})'
    BY <1>1 DEF At
  <2> HIDE DEF c, f, o
  <2>7. NoLinks(Addr("CoinPairPriceFree", coin))'
    BY <2>3, <2>5 DEF NoLinks
  <2>8. {<<Addr(a, coin)', "governor", Governor>>,
         <<Addr(a, coin)', "whitelist", Addr("CoinPairPriceFree", coin)'>>,
         <<Addr(a, coin)', "oracleManager", o'>>} \subseteq wired'
    BY <1>4, <2>4, <2>5
  <2> QED
    BY <2>6, <2>7, <2>8 DEF InPairs, o
<1>11. PairsTorn'
  <2>1. RegisteredPairs' = RegisteredPairs
    BY <1>4, <1>7, RegisteredKept
  <2>2. Unregistered' = Unregistered
    BY <1>1 DEF Unregistered
  <2> QED
    BY <1>1, <2>1, <2>2, GoesOn DEF ScriptInv, PairsTorn
<1> QED
  BY <1>1, <1>9, <1>10, <1>11, GoesOn DEF ScriptInv

LEMMA InitializePairFreeKeeps ==
    ASSUME DeployInv, NEW p, p = coin, InitializePairFree, mode' = "running"
    PROVE  LinkInv' /\ ScriptInv'
<1> USE PositionTyped DEF DeployInv
<1> DEFINE a == "CoinPairPriceFree"
           f == Addr(a, p)
           c == Addr("CoinPairPrice", p)
           o == Proxy("OracleManager")
           S == {<<f, "provider", c>>}
<1>1. /\ Transaction /\ migration = 150 /\ tx = 3 /\ tx' = 4 /\ Turn(150, 3)
      /\ UNCHANGED <<coin, todo>> /\ recorded' = recorded /\ wired' = wired \cup S
  BY DEF Transaction, InitializePairFree, Initialize, Turn, Mined, Abort
<1>2. p \in Pairs /\ <<a, p>> \in Aliases /\ <<"CoinPairPrice", p>> \in Aliases
  BY <1>1, AliasNames DEF DeployTypeOK, PerPair, Position, At, Turn
<1>3. f' = f /\ c' = c /\ o' = o
  BY <1>1 DEF Addr, Proxy
<1>4. ASSUME NEW l \in S PROVE NewLink(a, l)
  <2>1. "provider" \in Roles
    BY DEF Roles, LinkNames
  <2>2. c \in Contract
    BY <1>2, AddressTyped
  <2>3. recorded' \in [Aliases -> 0..MaxAttempts]
    BY <1>1, GoesOn
  <2> HIDE DEF f, c
  <2>4. NewLink(a, <<f, "provider", c>>)
    <3>1. f = Addr(a, p)'
      BY <1>3 DEF f
    <3> QED
      BY <1>2, <2>1, <2>2, <2>3, <3>1, LinkAdded
  <2> QED
    BY <2>4
<1>5. NewLinks(a) /\ S \subseteq wired'
  <2> HIDE DEF S
  <2> QED
    BY <1>1, <1>4, LinksAdded
<1>6. LinkInv'
  <2>1. NewFacts
    BY <1>1 DEF NewFacts, Turn
  <2>2. OwnLinks(a)'
    BY DEF OwnLinks
  <2> QED
    BY <1>1, <1>5, <2>1, <2>2, GoesOn, LinksKept
<1>7. InPairs'
  <2>1. {<<c, "governor", Governor>>, <<c, "whitelist", f>>, <<c, "oracleManager", o>>} \subseteq wired
    BY <1>1 DEF ScriptInv, InPairs, At, Turn
  <2>2. wired \subseteq wired' /\ <<f, "provider", c>> \in wired'
    BY <1>1
  <2>3. Addr("CoinPairPrice", coin)' = c /\ Addr(a, coin)' = f
    BY <1>1, <1>3 DEF Addr
  <2>4. ~At(150, 2..3)'
    BY <1>1 DEF At
  <2> HIDE DEF c, f, o
  <2>5. {<<Addr("CoinPairPrice", coin)', "governor", Governor>>,
         <<Addr("CoinPairPrice", coin)', "whitelist", Addr(a, coin)'>>,
         <<Addr("CoinPairPrice", coin)', "oracleManager", o'>>} \subseteq wired'
    BY <1>3, <2>1, <2>2, <2>3
  <2>6. <<Addr(a, coin)', "provider", Addr("CoinPairPrice", coin)'>> \in wired'
    BY <2>2, <2>3
  <2> QED
    BY <2>4, <2>5, <2>6 DEF InPairs, o
<1>8. PairsTorn'
  <2>1. RegisteredPairs' = RegisteredPairs
    BY <1>3, <1>5, RegisteredKept
  <2>2. Unregistered' = Unregistered
    BY <1>1 DEF Unregistered
  <2> QED
    BY <1>1, <2>1, <2>2, GoesOn DEF ScriptInv, PairsTorn
<1> QED
  BY <1>1, <1>6, <1>7, <1>8, GoesOn DEF ScriptInv

LEMMA RegisterPairKeeps ==
    ASSUME DeployInv, NEW p, p = coin, RegisterPair, mode' = "running"
    PROVE  LinkInv' /\ ScriptInv'
<1> USE PositionTyped DEF DeployInv
<1> DEFINE a == "OracleManager"
           f == Addr("CoinPairPriceFree", p)
           c == Addr("CoinPairPrice", p)
           o == Proxy(a)
           l0 == <<o, p, c>>
           S == {l0}
<1>1. /\ Transaction /\ migration = 150 /\ tx = 4 /\ tx' = 1 /\ Turn(150, 4)
      /\ UNCHANGED <<coin, todo>> /\ recorded' = recorded /\ wired' = wired \cup S
  BY DEF Transaction, RegisterPair, Register, Turn, Abort
<1>2. /\ p \in Pairs /\ p \notin todo /\ <<a, "none">> \in Aliases
      /\ <<"CoinPairPrice", p>> \in Aliases /\ <<"CoinPairPriceFree", p>> \in Aliases
  BY <1>1, AliasNames DEF DeployTypeOK, PerPair, Single, Position, At, Turn
<1>3. o' = o
  BY <1>1 DEF Addr, Proxy
<1>4. c \in Contract /\ f \in Contract /\ c[1] = "CoinPairPrice" /\ o[1] = a
  BY <1>2, AddressTyped, ContractsNamed
<1>5. completed = 130 /\ completed' = completed
  BY <1>1, GoesOn DEF Migrations
<1>6. NewLinks(a) /\ l0 \in wired'
  <2>1. p \in Roles /\ p # "governor"
    BY <1>2, NamesAssumption DEF Roles, LinkNames
  <2>2. recorded' \in [Aliases -> 0..MaxAttempts]
    BY <1>1, GoesOn
  <2>3. o = Addr(a, "none")'
    BY <1>3 DEF Proxy
  <2> HIDE DEF o, c
  <2>4. NewLink(a, <<o, p, c>>)
    BY <1>2, <1>4, <2>1, <2>2, <2>3, LinkAdded
  <2>5. \A l \in S : NewLink(a, l)
    BY <2>4
  <2> HIDE DEF S
  <2>6. NewLinks(a) /\ S \subseteq wired'
    BY <1>1, <2>5, LinksAdded
  <2> QED
    BY <2>6 DEF S
<1>7. ManagerLinks'
  <2>1. Proxy("Staking")' = Proxy("Staking")
    BY <1>1 DEF Addr, Proxy
  <2>2. ASSUME NEW l \in Of(a)'
        PROVE  /\ completed >= 80 /\ l[1] = o
               /\ l[2] = "staking" => l[3] = Proxy("Staking")
               /\ l[2] \in Pairs => completed >= 130 /\ l[3][1] = "CoinPairPrice"
               /\ l[2] # Calculated
    <3>1. CASE l = l0
      <4>1. l[1] = o /\ l[2] = p /\ l[3] = c
        BY <3>1
      <4>2. p # "staking" /\ p # Calculated
        BY <1>2, AliasNames, NamesAssumption DEF LinkNames
      <4> QED
        BY <1>4, <1>5, <4>1, <4>2
    <3>2. CASE l \in Of(a)
      BY <3>2 DEF LinkInv, LinksFit, ManagerLinks
    <3> QED
      BY <1>1, <2>2, <3>1, <3>2 DEF Of
  <2>3. Done(110, 1)'
    BY <1>5 DEF Done
  <2> QED
    BY <1>3, <1>5, <2>1, <2>2, <2>3 DEF ManagerLinks
<1>8. PairsReady'
  <2>1. PairReady(c)
    <3>1. /\ <<c, "governor", Governor>> \in wired /\ <<c, "whitelist", f>> \in wired
          /\ <<c, "oracleManager", o>> \in wired /\ <<f, "provider", c>> \in wired
      BY <1>1 DEF ScriptInv, InPairs, At, Turn
    <3> HIDE DEF c, f
    <3> QED
      BY <1>4, <3>1 DEF PairReady
  <2>2. ASSUME NEW x, PairReady(x), x[1] = "CoinPairPrice" PROVE PairReady(x)'
    <3>1. x[1] # "Registry"
      BY <2>2
    <3> QED
      BY <1>3, <1>6, <2>2, <3>1, PairKept
  <2>3. ASSUME NEW l \in Of(a)', l[2] \in Pairs PROVE PairReady(l[3])'
    <3> DEFINE x == l[3]
    <3>1. CASE l = l0
      <4>1. x = c
        BY <3>1
      <4> HIDE DEF x, c
      <4> QED
        BY <1>4, <2>1, <2>2, <4>1 DEF x
    <3>2. CASE l \in Of(a)
      <4>1. PairReady(x) /\ x[1] = "CoinPairPrice"
        BY <2>3, <3>2 DEF LinkInv, LinksFit, ManagerLinks, PairsReady
      <4> HIDE DEF x
      <4>2. PairReady(x)'
        BY <2>2, <4>1
      <4> QED
        BY <4>2 DEF x
    <3> QED
      BY <1>1, <2>3, <3>1, <3>2 DEF Of
  <2> QED
    BY <2>3 DEF PairsReady
<1>9. LinkInv'
  <2>1. NewFacts
    BY <1>1 DEF NewFacts, Turn
  <2>2. OwnLinks(a)'
    BY <1>7, <1>8 DEF OwnLinks
  <2> QED
    BY <1>1, <1>6, <2>1, <2>2, GoesOn, LinksKept
<1>10. InPairs' /\ InRegister' /\ InCalculated' /\ FailureExplained'
  BY <1>1, GoesOn, ScriptElsewhere
<1>11. PairsTorn'
  <2>1. \A q : q # p => Links(o, q)' = Links(o, q)
    <3>1. l0[2] = p
      OBVIOUS
    <3> HIDE DEF l0
    <3> QED
      BY <1>1, <1>3, <3>1 DEF Links
  <2>2. RegisteredPairs' \subseteq RegisteredPairs \cup {p}
    BY <1>3, <2>1 DEF RegisteredPairs
  <2>3. Unregistered' = todo /\ todo \subseteq Unregistered
    BY <1>1 DEF Unregistered
  <2>4. Unregistered' \cap RegisteredPairs' \subseteq Unregistered \cap RegisteredPairs
    BY <1>2, <2>2, <2>3
  <2> QED
    BY <1>1, <2>4, GoesOn DEF ScriptInv, PairsTorn
<1> QED
  BY <1>9, <1>10, <1>11 DEF ScriptInv

LEMMA RegisterValuesKeeps ==
    ASSUME DeployInv, RegisterValues
    PROVE  LinkInv' /\ ScriptInv'
<1> USE PositionTyped DEF DeployInv
<1> DEFINE a == "Registry"
           S == {<<Registry, n, Proxy(n)>> : n \in RegistryNames}
<1>1. /\ Transaction /\ mode' = "running" /\ migration = 200 /\ Turn(200, 1)
      /\ recorded' = recorded /\ wired' = {l \in wired : l[1] # Registry} \cup S
  BY DEF Transaction, RegisterValues, Turn, Mined
<1>2. \A n : Proxy(n)' = Proxy(n)
  BY <1>1 DEF Addr, Proxy
<1>3. completed = 150 /\ completed' = completed
  BY <1>1, GoesOn DEF Migrations
<1>4. ASSUME NEW l \in S
      PROVE  l \in LinkTypes /\ l[1] = Registry /\ l[2] \in RegistryNames /\ l[3] = Proxy(l[2])
  <2>1. PICK n \in RegistryNames : l = <<Registry, n, Proxy(n)>>
    BY <1>4
  <2> DEFINE x == Proxy(n)
  <2>2. x \in Contract /\ n \in Roles
    BY AliasNames, AddressTyped DEF Proxy, Single, RegistryNames, Roles, LinkNames
  <2>3. l[1] = Registry /\ l[2] = n /\ l[3] = x
    BY <2>1
  <2> HIDE DEF x
  <2>4. <<Registry, n, x>> \in LinkTypes
    BY <2>2 DEF LinkTypes
  <2> QED
    BY <2>1, <2>3, <2>4 DEF x
<1>5. NewLinks(a)
  <2>1. ASSUME NEW l \in S PROVE NewLink(a, l)
    BY <1>4, ContractsNamed DEF NewLink, RegistryNames
  <2> HIDE DEF S
  <2> QED
    BY <1>1, <2>1 DEF NewLinks
<1>6. RegistryLinks'
  <2>1. ASSUME NEW l \in Of(a)' PROVE l \in S
    <3>1. l[1] = Registry
      <4>1. l[1][1] = "Registry" /\ l \in wired'
        BY <2>1 DEF Of
      <4>2. CASE l \in wired
        <5>1. l[1] \notin FoundContracts
          BY <4>1, ContractsNamed
        <5>2. <<l[1][1], l[1][2]>> \notin Aliases
          BY <4>1 DEF Aliases, Single, PerPair
        <5> QED
          BY <4>2, <5>1, <5>2 DEF LinkInv, Fresh
      <4> QED
        BY <1>1, <1>4, <4>1, <4>2
    <3> QED
      BY <1>1, <2>1, <3>1 DEF Of
  <2> HIDE DEF S
  <2> QED
    BY <1>2, <1>3, <1>4, <2>1 DEF RegistryLinks
<1>7. RegistryWired'
  <2>1. ASSUME NEW n \in RegistryNames PROVE <<Registry, n, Proxy(n)'>> \in wired'
    BY <1>1, <1>2
  <2> QED
    BY <2>1 DEF RegistryWired
<1>8. LinkInv'
  <2>1. NewFacts
    BY <1>1, <1>7 DEF NewFacts, Turn
  <2>2. OwnLinks(a)'
    BY <1>6 DEF OwnLinks
  <2> QED
    BY <1>1, <1>5, <2>1, <2>2, GoesOn, LinksKept
<1> QED
  BY <1>1, <1>8, GoesOn DEF ScriptInv

LEMMA AddRegisterKeeps ==
    ASSUME DeployInv, AddRegister
    PROVE  LinkInv' /\ ScriptInv'
<1> USE PositionTyped DEF DeployInv
<1> DEFINE a == "PriceProviderRegister"
           r == NewProxy(a)
           l0 == <<r, "governor", Governor>>
           S == {l0}
<1>1. /\ Transaction /\ mode' = "running" /\ migration = 250 /\ tx = 1 /\ tx' = 2
      /\ Turn(250, 1) /\ OzAdd(a, "none") /\ wired' = wired \cup S
  BY DEF Transaction, AddRegister, OzAddInitialized, Turn, Mined
<1>2. <<a, "none">> \in Aliases /\ a \in Single
  BY AliasNames DEF Single
<1>3. Proxy(a)' = r /\ Proxy("OracleManager")' = Proxy("OracleManager") /\ r[1] = a
  BY <1>1, <1>2, ProxyAdded DEF Proxy, NewProxy, NewAddr
<1>4. completed = 200 /\ completed' = completed
  BY <1>1, GoesOn DEF Migrations
<1>5. NewLinks(a) /\ l0 \in wired'
  <2>1. "governor" \in Roles
    BY DEF Roles, LinkNames
  <2>2. recorded' \in [Aliases -> 0..MaxAttempts]
    BY <1>1, GoesOn
  <2> HIDE DEF r
  <2>3. NewLink(a, <<r, "governor", Governor>>)
    BY <1>2, <1>3, <2>1, <2>2, LinkAdded DEF Proxy
  <2>4. \A l \in S : NewLink(a, l)
    BY <2>3
  <2> HIDE DEF S
  <2>5. NewLinks(a) /\ S \subseteq wired'
    BY <1>1, <2>4, LinksAdded
  <2> QED
    BY <2>5 DEF S
<1>6. ASSUME NEW l \in Of(a)' PROVE l[2] = "governor" \/ l \in Of(a)
  <2>1. l0[2] = "governor"
    OBVIOUS
  <2> HIDE DEF l0
  <2> QED
    BY <1>1, <1>6, <2>1 DEF Of
<1>7. "governor" \notin Pairs /\ "governor" # Calculated
  BY NamesAssumption DEF LinkNames
<1>8. RegisterLinks' /\ CalculatedsReady'
  <2>1. ASSUME NEW l \in Of(a) PROVE RegisterLink(l)' /\ l[2] # Calculated
    <3> DEFINE o == Proxy("OracleManager")
    <3>1. RegisterLink(l) /\ l[2] # Calculated
      BY <1>4, <2>1 DEF LinkInv, LinksFit, RegisterLinks, RegisterLink
    <3>2. o[1] # "Registry"
      BY ContractsNamed
    <3>3. l[2] \in Pairs => <<o, l[2], l[3]>> \in wired
      BY <3>1 DEF RegisterLink
    <3> HIDE DEF o
    <3>4. l[2] \in Pairs => <<o', l[2], l[3]>> \in wired'
      BY <1>3, <1>5, <3>2, <3>3, LinkKept DEF o
    <3> QED
      BY <1>4, <3>1, <3>4 DEF RegisterLink, o
  <2>2. ASSUME NEW l \in Of(a)', l[2] = "governor" PROVE RegisterLink(l)'
    BY <1>4, <1>7, <2>2 DEF RegisterLink
  <2> QED
    BY <1>6, <1>7, <2>1, <2>2 DEF RegisterLinks, CalculatedsReady
<1>9. LinkInv'
  <2>1. RegisterWired'
    BY <1>3, <1>5 DEF RegisterWired
  <2>2. NewFacts
    BY <1>1, <2>1 DEF NewFacts, Turn
  <2>3. OwnLinks(a)'
    BY <1>8 DEF OwnLinks
  <2> QED
    BY <1>1, <1>4, <1>5, <2>2, <2>3, GoesOn, LinksKept
<1>10. InRegister'
  <2>1. NoLinks(r)
    BY <1>2, NewProxyUnlinked DEF LinkInv, NewProxy
  <2>2. ASSUME NEW l \in wired', l[1] = r PROVE l[2] = "governor"
    <3>1. l0[2] = "governor"
      OBVIOUS
    <3> HIDE DEF l0
    <3> QED
      BY <1>1, <2>1, <2>2, <3>1 DEF NoLinks
  <2> HIDE DEF r
  <2> QED
    BY <1>3, <2>2 DEF InRegister
<1> QED
  BY <1>1, <1>9, <1>10, GoesOn DEF ScriptInv

LEMMA RegisterAllPairsKeeps ==
    ASSUME DeployInv, RegisterAllPairs, mode' = "running"
    PROVE  LinkInv' /\ ScriptInv'
<1> USE PositionTyped DEF DeployInv
<1> DEFINE a == "PriceProviderRegister"
           r == Proxy(a)
           o == Proxy("OracleManager")
           S == UNION {{<<r, p, x>> : x \in Links(o, p)} : p \in RegisteredPairs}
<1>1. /\ Transaction /\ migration = 250 /\ tx = 2 /\ tx' = 3
      /\ Turn(250, 2) /\ recorded' = recorded /\ wired' = wired \cup S
  BY DEF Transaction, RegisterAllPairs, Turn, Mined, Abort
<1>2. <<a, "none">> \in Aliases /\ r[1] = a /\ o[1] = "OracleManager"
  BY AliasNames, ContractsNamed DEF Single
<1>3. r' = r /\ o' = o
  BY <1>1 DEF Proxy, Addr
<1>4. completed = 200 /\ completed' = completed
  BY <1>1, GoesOn DEF Migrations
<1>5. ASSUME NEW l \in S
      PROVE  /\ l = <<r, l[2], l[3]>> /\ l[2] \in Pairs /\ <<o, l[2], l[3]>> \in wired
  <2>1. PICK p \in RegisteredPairs : \E x \in Links(o, p) : l = <<r, p, x>>
    BY <1>5
  <2>2. PICK x \in Links(o, p) : l = <<r, p, x>>
    BY <2>1
  <2>3. p \in Pairs /\ <<o, p, x>> \in wired
    <3>1. LinksAreWired
      BY LinksOfWired DEF LinkInv
    <3> QED
      BY <3>1 DEF RegisteredPairs, LinksAreWired
  <2> QED
    BY <2>2, <2>3
<1>6. ASSUME NEW p \in Pairs, NEW x, <<o, p, x>> \in wired PROVE <<r, p, x>> \in S
  <2>1. x \in Links(o, p)
    BY <1>6, LinksOfWired DEF LinkInv, LinksAreWired
  <2>2. p \in RegisteredPairs
    BY <2>1 DEF RegisteredPairs
  <2> QED
    BY <2>1, <2>2
<1>7. NewLinks(a) /\ S \subseteq wired'
  <2>1. recorded' \in [Aliases -> 0..MaxAttempts]
    BY <1>1, GoesOn
  <2>2. ASSUME NEW l \in S PROVE NewLink(a, l)
    <3> DEFINE p == l[2]
               x == l[3]
               k == <<o, p, x>>
    <3>1. l = <<r, p, x>> /\ p \in Pairs /\ k \in wired
      BY <1>5, <2>2
    <3>2. k[3] = x
      OBVIOUS
    <3> HIDE DEF k
    <3>3. x \in Contract \cup {Governor, Token, Registry, FlatGetter, Zero}
      BY <3>1, <3>2 DEF LinkInv, WiredTyped, LinkTypes
    <3>4. p \in Roles /\ p # "governor"
      BY <3>1, NamesAssumption DEF Roles, LinkNames
    <3>5. r = Addr(a, "none")'
      BY <1>3 DEF Proxy
    <3> HIDE DEF r, p, x
    <3>6. NewLink(a, <<r, p, x>>)
      BY <1>2, <2>1, <3>3, <3>4, <3>5, LinkAdded
    <3> QED
      BY <3>1, <3>6
  <2> HIDE DEF S
  <2> QED
    BY <1>1, <2>2, LinksAdded
<1>8. RegisterLinks' /\ CalculatedsReady'
  <2>1. ASSUME NEW l \in Of(a)'
        PROVE  /\ l[2] \in Pairs => <<o, l[2], l[3]>> \in wired
               /\ l[2] # Calculated
    <3>1. CASE l \in S
      BY <1>5, <3>1, AliasNames
    <3>2. CASE l \in Of(a)
      BY <1>4, <3>2 DEF LinkInv, LinksFit, RegisterLinks, RegisterLink
    <3> HIDE DEF S
    <3> QED
      BY <1>1, <2>1, <3>1, <3>2 DEF Of
  <2>2. ASSUME NEW l \in Of(a)' PROVE RegisterLink(l)'
    <3>1. l[2] \in Pairs => <<o', l[2], l[3]>> \in wired'
      <4> HIDE DEF o, S
      <4> QED
        BY <1>1, <1>3, <2>1
    <3>2. l[2] # Calculated
      BY <2>1, <2>2
    <3>3. completed' >= 200
      BY <1>4
    <3> HIDE DEF S, r
    <3> QED
      BY <3>1, <3>2, <3>3 DEF RegisterLink
  <2> QED
    BY <2>1, <2>2 DEF RegisterLinks, CalculatedsReady
<1>9. PricesWired'
  <2>1. ASSUME NEW l \in wired', l[1] = o, l[2] \in Pairs
        PROVE  <<r, l[2], l[3]>> \in wired'
    <3> DEFINE p == l[2]
               x == l[3]
    <3>1. l \in wired
      <4>1. l[1][1] # a
        BY <1>2, <2>1
      <4> HIDE DEF S, r
      <4> QED
        BY <1>7, <4>1 DEF NewLinks, NewLink
    <3>2. l = <<o, p, x>>
      BY <2>1, <3>1 DEF LinkInv, WiredTyped, LinkTypes
    <3> HIDE DEF p, x, S, o
    <3>3. <<r, p, x>> \in S
      BY <1>6, <2>1, <3>1, <3>2 DEF p
    <3> QED
      BY <1>7, <3>3 DEF p, x
  <2>2. \A l \in wired' : l[1] = o' /\ l[2] \in Pairs => <<r', l[2], l[3]>> \in wired'
    <3> HIDE DEF o, r, S
    <3> QED
      BY <1>3, <2>1
  <2> QED
    BY <2>2 DEF PricesWired
<1>10. LinkInv'
  <2>1. NewFacts
    BY <1>1, <1>9 DEF NewFacts, Turn
  <2>2. OwnLinks(a)'
    BY <1>8 DEF OwnLinks
  <2> HIDE DEF S
  <2> QED
    BY <1>1, <1>4, <1>7, <2>1, <2>2, GoesOn, LinksKept
<1>11. InRegister'
  BY <1>1 DEF InRegister, At
<1> QED
  BY <1>1, <1>10, <1>11, GoesOn DEF ScriptInv

LEMMA AddCalculatedFreeKeeps ==
    ASSUME DeployInv, AddCalculatedFree
    PROVE  LinkInv' /\ ScriptInv'
<1> USE PositionTyped DEF DeployInv
<1> DEFINE a == "CoinPairPriceFree"
           f == Addr(a, Calculated)
<1>1. /\ Transaction /\ mode' = "running" /\ migration = 300 /\ tx = 1 /\ tx' = 2
      /\ wired' = wired /\ OzAdd(a, Calculated)
  BY DEF Transaction, AddCalculatedFree, Turn, Mined
<1>2. <<a, Calculated>> \in Aliases
  BY AliasNames DEF PerPair
<1>3. LinkInv'
  <2>1. NewFacts
    BY <1>1 DEF NewFacts, Turn
  <2> QED
    BY <1>1, <2>1, GoesOn, UnwiredKept
<1>4. InCalculated'
  <2>1. f' = NewAddr(a, Calculated)
    BY <1>1, <1>2, ProxyAdded
  <2>2. NoLinks(NewAddr(a, Calculated))
    BY <1>2, NewProxyUnlinked DEF LinkInv, PerPair
  <2>3. \A l \in wired' : l[1] # f'
    BY <1>1, <2>1, <2>2 DEF NoLinks
  <2>4. NoLinks(f)'
    <3> HIDE DEF f
    <3> QED
      BY <2>3 DEF NoLinks
  <2>5. ~At(300, 3..5)' /\ ~At(300, 4..5)' /\ ~At(300, {5})'
    BY <1>1 DEF At
  <2> QED
    BY <2>4, <2>5 DEF InCalculated
<1> QED
  BY <1>1, <1>3, <1>4, GoesOn DEF ScriptInv

LEMMA AddCalculatedKeeps ==
    ASSUME DeployInv, AddCalculated
    PROVE  LinkInv' /\ ScriptInv'
<1> USE PositionTyped DEF DeployInv
<1> DEFINE a == "CalculatedPriceProvider"
           c == NewProxy(a)
           f == Addr("CoinPairPriceFree", Calculated)
           r == Proxy("PriceProviderRegister")
           S1 == {<<c, "governor", Governor>>, <<c, "whitelist", f>>}
           S2 == {<<c, "multiplyBy", s>> : s \in Sources}
           S == S1 \cup S2
<1>1. /\ Transaction /\ mode' = "running" /\ migration = 300 /\ tx = 2 /\ tx' = 3
      /\ Turn(300, 2) /\ OzAdd(a, "none") /\ wired' = wired \cup S
  BY DEF Transaction, AddCalculated, OzAddInitialized, Turn, Mined
<1>2. /\ <<a, "none">> \in Aliases /\ <<"CoinPairPriceFree", Calculated>> \in Aliases
      /\ c[1] = a
  BY AliasNames DEF Single, PerPair, NewProxy, NewAddr
<1>3. Proxy(a)' = c /\ f' = f /\ r' = r
  <2>1. <<"CoinPairPriceFree", Calculated>> # <<a, "none">>
    OBVIOUS
  <2>2. Addr(a, "none")' = c
    BY <1>1, <1>2, ProxyAdded DEF NewProxy
  <2>3. f' = f
    BY <1>1, <1>2, <2>1, ProxyAdded
  <2>4. r' = r
    BY <1>1, <1>2, ProxyAdded
  <2> QED
    BY <2>2, <2>3, <2>4 DEF Proxy
<1>4. completed = 250 /\ completed' = completed
  BY <1>1, GoesOn DEF Migrations
<1>5. Sources \subseteq Contract \cup {Governor, Token, Registry, FlatGetter, Zero}
  <2>1. ASSUME NEW s \in Sources, s # Zero PROVE s \in Contract \cup {Governor, Token, Registry, FlatGetter}
    <3>1. PICK p \in BasePairs : s \in Links(r, p)
      BY <2>1 DEF Sources
    <3>2. PICK l \in wired : l[3] = s
      BY <3>1 DEF Links
    <3> QED
      BY <2>1, <3>2 DEF LinkInv, WiredTyped, LinkTypes
  <2> QED
    BY <2>1
<1>6. NewLinks(a) /\ S \subseteq wired'
  <2>1. {"governor", "whitelist", "multiplyBy"} \subseteq Roles
    BY DEF Roles, LinkNames
  <2>2. recorded' \in [Aliases -> 0..MaxAttempts]
    BY <1>1, GoesOn
  <2>3. f \in Contract
    BY <1>2, AddressTyped
  <2>4. c = Addr(a, "none")'
    BY <1>3 DEF Proxy
  <2> HIDE DEF c, f
  <2>5. ASSUME NEW q \in {"governor", "whitelist", "multiplyBy"},
               NEW x \in Contract \cup {Governor, Token, Registry, FlatGetter, Zero},
               q = "governor" => x = Governor
        PROVE  NewLink(a, <<c, q, x>>)
    BY <1>2, <2>1, <2>2, <2>4, <2>5, LinkAdded
  <2>6. \A l \in S1 : NewLink(a, l)
    BY <2>3, <2>5
  <2>7. \A l \in S2 : NewLink(a, l)
    BY <1>5, <2>5
  <2>8. \A l \in S : NewLink(a, l)
    BY <2>6, <2>7
  <2> HIDE DEF S
  <2> QED
    BY <1>1, <2>8, LinksAdded
<1>7. CalculatedLinks'
  <2>1. Sources' = Sources
    <3>1. PricesKept
      <4> HIDE DEF S
      <4> QED
        BY <1>6, PricesKeptByOthers
    <3>2. WiredTyped'
      <4> HIDE DEF S
      <4> QED
        BY <1>6 DEF LinkInv, NewLinks, NewLink, WiredTyped
    <3> HIDE DEF S
    <3> QED
      BY <1>3, <3>1, <3>2, SourcesKept DEF LinkInv
  <2>2. ASSUME NEW l \in Of(a)', l[2] = "multiplyBy" PROVE l[3] \in Sources
    <3>1. CASE l \in S
      BY <2>2, <3>1
    <3>2. CASE l \in Of(a)
      BY <2>2, <3>2 DEF LinkInv, LinksFit, CalculatedLinks
    <3> HIDE DEF S
    <3> QED
      BY <1>1, <2>2, <3>1, <3>2 DEF Of
  <2> HIDE DEF S
  <2> QED
    BY <1>4, <2>1, <2>2 DEF CalculatedLinks
<1>8. LinkInv'
  <2>1. NewFacts
    BY <1>1 DEF NewFacts, Turn
  <2>2. OwnLinks(a)'
    BY <1>7 DEF OwnLinks
  <2> HIDE DEF S
  <2> QED
    BY <1>1, <1>6, <2>1, <2>2, GoesOn, LinksKept
<1>9. InCalculated'
  <2>1. NoLinks(f)
    BY <1>1 DEF ScriptInv, InCalculated, At, Turn
  <2>2. f[1] # a
    BY ContractsNamed
  <2>3. \A l \in wired' : l[1] # f
    <3> HIDE DEF S, f
    <3> QED
      BY <1>6, <2>1, <2>2, UnlinkedKept
  <2>4. {<<c, "governor", Governor>>, <<c, "whitelist", f>>} \subseteq wired'
    BY <1>6
  <2>5. ~At(300, 4..5)' /\ ~At(300, {5})'
    BY <1>1 DEF At
  <2> DEFINE x == Proxy(a)
  <2>6. x' = c
    BY <1>3
  <2> HIDE DEF c, f, x, S
  <2>7. NoLinks(f)'
    BY <1>3, <2>3 DEF NoLinks
  <2>8. {<<x', "governor", Governor>>, <<x', "whitelist", f'>>} \subseteq wired'
    BY <1>3, <2>4, <2>6
  <2> QED
    BY <2>5, <2>7, <2>8 DEF InCalculated, f, x
<1> QED
  BY <1>1, <1>8, <1>9, GoesOn DEF ScriptInv

LEMMA InitializeCalculatedFreeKeeps ==
    ASSUME DeployInv, InitializeCalculatedFree, mode' = "running"
    PROVE  LinkInv' /\ ScriptInv'
<1> USE PositionTyped DEF DeployInv
<1> DEFINE a == "CoinPairPriceFree"
           f == Addr(a, Calculated)
           c == Proxy("CalculatedPriceProvider")
           S == {<<f, "provider", c>>}
<1>1. /\ Transaction /\ migration = 300 /\ tx = 3 /\ tx' = 4 /\ Turn(300, 3)
      /\ recorded' = recorded /\ wired' = wired \cup S
  BY DEF Transaction, InitializeCalculatedFree, Initialize, Turn, Mined, Abort
<1>2. <<a, Calculated>> \in Aliases /\ <<"CalculatedPriceProvider", "none">> \in Aliases
  BY AliasNames DEF PerPair, Single
<1>3. f' = f /\ c' = c
  BY <1>1 DEF Addr, Proxy
<1>4. ASSUME NEW l \in S PROVE NewLink(a, l)
  <2>1. "provider" \in Roles
    BY DEF Roles, LinkNames
  <2>2. c \in Contract
    BY <1>2, AddressTyped DEF Proxy
  <2>3. recorded' \in [Aliases -> 0..MaxAttempts]
    BY <1>1, GoesOn
  <2>4. f = Addr(a, Calculated)'
    BY <1>3
  <2> HIDE DEF f, c
  <2>5. NewLink(a, <<f, "provider", c>>)
    BY <1>2, <2>1, <2>2, <2>3, <2>4, LinkAdded
  <2> QED
    BY <2>5
<1>5. NewLinks(a) /\ S \subseteq wired'
  <2> HIDE DEF S
  <2> QED
    BY <1>1, <1>4, LinksAdded
<1>6. LinkInv'
  <2>1. NewFacts
    BY <1>1 DEF NewFacts, Turn
  <2>2. OwnLinks(a)'
    BY DEF OwnLinks
  <2> QED
    BY <1>1, <1>5, <2>1, <2>2, GoesOn, LinksKept
<1>7. InCalculated'
  <2>1. {<<c, "governor", Governor>>, <<c, "whitelist", f>>} \subseteq wired
    BY <1>1 DEF ScriptInv, InCalculated, At, Turn
  <2>2. wired \subseteq wired' /\ <<f, "provider", c>> \in wired'
    BY <1>1
  <2>3. ~At(300, 2..3)' /\ ~At(300, {5})'
    BY <1>1 DEF At
  <2> HIDE DEF c, f
  <2>4. {<<c', "governor", Governor>>, <<c', "whitelist", f'>>} \subseteq wired'
    BY <1>3, <2>1, <2>2
  <2>5. <<f', "provider", c'>> \in wired'
    BY <1>3, <2>2
  <2> QED
    BY <2>3, <2>4, <2>5 DEF InCalculated, c, f
<1> QED
  BY <1>1, <1>6, <1>7, GoesOn DEF ScriptInv

LEMMA WhitelistCalculatedKeeps ==
    ASSUME DeployInv, WhitelistCalculated, mode' = "running"
    PROVE  LinkInv' /\ ScriptInv'
<1> USE PositionTyped DEF DeployInv
<1> DEFINE a == "CoinPairPrice"
           f == Addr("CoinPairPriceFree", Calculated)
           c == Proxy("CalculatedPriceProvider")
           r == Proxy("PriceProviderRegister")
           S == {<<s, "whitelist", c>> : s \in Sources}
<1>1. /\ Transaction /\ migration = 300 /\ tx = 4 /\ tx' = 5 /\ Turn(300, 4)
      /\ recorded' = recorded /\ wired' = wired \cup S
      /\ \A s \in Sources : Governed(s)
  BY DEF Transaction, WhitelistCalculated, Turn, Mined, Abort
<1>2. f' = f /\ c' = c /\ r' = r /\ Proxy("OracleManager")' = Proxy("OracleManager")
  BY <1>1 DEF Addr, Proxy
<1>3. c \in Contract
  BY AliasNames, AddressTyped DEF Single, Proxy
<1>4. completed = 250 /\ completed' = completed
  BY <1>1, GoesOn DEF Migrations
<1>5. ASSUME NEW s \in Sources
      PROVE  /\ s \in Contract /\ s[1] = a
             /\ <<s[1], s[2]>> \in Aliases /\ s[3] <= recorded[<<s[1], s[2]>>]
  <2>1. PICK l \in wired : l[1] = s
    BY <1>1 DEF Governed, Links
  <2>2. s \in Contract \cup FoundContracts \cup {Registry}
    BY <2>1 DEF LinkInv, WiredTyped, LinkTypes
  <2>3. s # Zero
    <3>1. \A k \in Contract : k[1] # "none"
      BY DEF Contract, Aliases, Single, PerPair
    <3>2. \A k \in FoundContracts \cup {Registry} : k[3] = 1
      BY DEF FoundContracts, Registry
    <3>3. Zero[1] = "none" /\ Zero[3] = 0
      BY DEF Zero
    <3> QED
      BY <2>2, <3>1, <3>2, <3>3
  <2>4. s[1] = a
    BY <2>3, SourcesArePairs DEF LinkInv, LinksFit
  <2>5. s \notin FoundContracts \cup {Registry}
    BY <2>4, ContractsNamed DEF PerPair
  <2> QED
    BY <2>1, <2>2, <2>4, <2>5 DEF LinkInv, Fresh
<1>6. ASSUME NEW l \in S PROVE NewLink(a, l) /\ l[2] = "whitelist"
  <2>1. PICK s \in Sources : l = <<s, "whitelist", c>>
    BY <1>6
  <2>2. l[1] = s /\ l[2] = "whitelist" /\ l[3] = c
    BY <2>1
  <2>3. "whitelist" \in Roles
    BY DEF Roles, LinkNames
  <2> HIDE DEF c
  <2>4. l \in LinkTypes
    BY <1>3, <1>5, <2>1, <2>3 DEF LinkTypes
  <2> QED
    BY <1>1, <1>5, <2>2, <2>4 DEF NewLink
<1>7. NewLinks(a) /\ S \subseteq wired'
  <2> HIDE DEF S
  <2> QED
    BY <1>1, <1>6, LinksAdded
<1>8. LinkInv'
  <2>1. PairLinks'
    <3>1. ASSUME NEW l \in Of(a)' PROVE l[2] = "oracleManager" => l[3] = Proxy("OracleManager")
      <4>1. CASE l \in S
        BY <1>6, <4>1
      <4>2. CASE l \in Of(a)
        BY <4>2 DEF LinkInv, LinksFit, PairLinks
      <4> HIDE DEF S
      <4> QED
        BY <1>1, <3>1, <4>1, <4>2 DEF Of
    <3> HIDE DEF S
    <3> QED
      BY <1>2, <1>4, <3>1 DEF PairLinks
  <2>2. NewFacts
    BY <1>1 DEF NewFacts, Turn
  <2>3. OwnLinks(a)'
    BY <2>1 DEF OwnLinks
  <2> HIDE DEF S
  <2> QED
    BY <1>1, <1>7, <2>2, <2>3, GoesOn, LinksKept
<1>9. InCalculated'
  <2>1. {<<c, "governor", Governor>>, <<c, "whitelist", f>>} \subseteq wired
        /\ <<f, "provider", c>> \in wired
    BY <1>1 DEF ScriptInv, InCalculated, At, Turn
  <2>2. wired \subseteq wired' /\ \A s \in Sources : <<s, "whitelist", c>> \in wired'
    BY <1>1
  <2>3. Sources' = Sources
    <3> HIDE DEF S
    <3> QED
      BY <1>2, <1>7, <1>8, PricesKeptByOthers, SourcesKept DEF LinkInv
  <2>4. ~At(300, 2..3)'
    BY <1>1 DEF At
  <2> HIDE DEF c, f, S
  <2>5. {<<c', "governor", Governor>>, <<c', "whitelist", f'>>} \subseteq wired'
    BY <1>2, <2>1, <2>2
  <2>6. <<f', "provider", c'>> \in wired' /\ \A s \in Sources' : <<s, "whitelist", c'>> \in wired'
    BY <1>2, <2>1, <2>2, <2>3
  <2> QED
    BY <2>4, <2>5, <2>6 DEF InCalculated, c, f
<1> QED
  BY <1>1, <1>8, <1>9, GoesOn DEF ScriptInv

LEMMA RegisterCalculatedKeeps ==
    ASSUME DeployInv, RegisterCalculated, mode' = "running"
    PROVE  LinkInv' /\ ScriptInv'
<1> USE PositionTyped DEF DeployInv
<1> DEFINE a == "PriceProviderRegister"
           f == Addr("CoinPairPriceFree", Calculated)
           c == Proxy("CalculatedPriceProvider")
           r == Proxy(a)
           l0 == <<r, Calculated, c>>
           S == {l0}
<1>1. /\ Transaction /\ migration = 300 /\ tx = 5 /\ tx' = 6 /\ Turn(300, 5)
      /\ recorded' = recorded /\ wired' = wired \cup S
  BY DEF Transaction, RegisterCalculated, Register, Turn, Mined, Abort
<1>2. c' = c /\ r' = r /\ Proxy("OracleManager")' = Proxy("OracleManager")
  BY <1>1 DEF Addr, Proxy
<1>3. /\ c \in Contract /\ f \in Contract /\ c[1] = "CalculatedPriceProvider" /\ r[1] = a
      /\ <<a, "none">> \in Aliases
  BY AliasNames, AddressTyped, ContractsNamed DEF Single, PerPair, Proxy
<1>4. completed = 250 /\ completed' = completed
  BY <1>1, GoesOn DEF Migrations
<1>5. NewLinks(a) /\ l0 \in wired'
  <2>1. Calculated \in Roles /\ Calculated # "governor"
    BY NamesAssumption DEF Roles, LinkNames
  <2>2. recorded' \in [Aliases -> 0..MaxAttempts]
    BY <1>1, GoesOn
  <2>3. r = Addr(a, "none")'
    BY <1>2 DEF Proxy
  <2> HIDE DEF r, c
  <2>4. NewLink(a, <<r, Calculated, c>>)
    BY <1>3, <2>1, <2>2, <2>3, LinkAdded
  <2>5. \A l \in S : NewLink(a, l)
    BY <2>4
  <2> HIDE DEF S
  <2>6. NewLinks(a) /\ S \subseteq wired'
    BY <1>1, <2>5, LinksAdded
  <2> QED
    BY <2>6 DEF S
<1>6. PricesKept
  <2>1. l0[2] \notin Pairs
    BY AliasNames
  <2>2. ASSUME NEW p \in Pairs, NEW x PROVE <<r, p, x>> # l0
    <3>1. <<r, p, x>>[2] = p
      OBVIOUS
    <3> QED
      BY <2>1, <2>2, <3>1
  <2> HIDE DEF r, l0
  <2>3. ASSUME NEW p \in Pairs, NEW x PROVE <<r, p, x>> \in wired' <=> <<r, p, x>> \in wired
    BY <1>1, <2>2, <2>3
  <2> QED
    BY <2>3 DEF PricesKept, r
<1>7. Sources' = Sources
  <2>1. WiredTyped'
    BY <1>5 DEF LinkInv, NewLinks, NewLink, WiredTyped
  <2> QED
    BY <1>2, <1>6, <2>1, SourcesKept DEF LinkInv
<1>8. CalculatedsReady'
  <2>1. ASSUME NEW x, CalculatedReady(x) PROVE CalculatedReady(x)'
    <3>1. "Registry" \notin {s[1] : s \in Sources}
      BY SourcesArePairs DEF LinkInv, LinksFit, Zero
    <3> QED
      BY <1>5, <1>7, <2>1, <3>1, CalculatedKept
  <2>2. CalculatedReady(c)
    <3>1. /\ <<c, "governor", Governor>> \in wired /\ <<c, "whitelist", f>> \in wired
          /\ <<f, "provider", c>> \in wired
          /\ \A s \in Sources : <<s, "whitelist", c>> \in wired
      BY <1>1 DEF ScriptInv, InCalculated, At, Turn
    <3> HIDE DEF c, f
    <3> QED
      BY <1>3, <3>1 DEF CalculatedReady
  <2>3. ASSUME NEW l \in Of(a)', l[2] = Calculated PROVE CalculatedReady(l[3])
    <3>1. CASE l = l0
      <4>1. l[3] = c
        BY <3>1
      <4> HIDE DEF c, l0
      <4> QED
        BY <2>2, <4>1
    <3>2. CASE l \in Of(a)
      BY <2>3, <3>2 DEF LinkInv, CalculatedsReady
    <3> QED
      BY <1>1, <2>3, <3>1, <3>2 DEF Of
  <2>4. ASSUME NEW l \in Of(a)', l[2] = Calculated PROVE CalculatedReady(l[3])'
    <3> DEFINE x == l[3]
    <3>1. CalculatedReady(x)
      BY <2>3, <2>4
    <3> HIDE DEF x
    <3>2. CalculatedReady(x)'
      BY <2>1, <3>1
    <3> QED
      BY <3>2 DEF x
  <2> QED
    BY <2>4 DEF CalculatedsReady
<1>9. RegisterLinks'
  <2>1. Done(300, 5)'
    BY <1>1, GoesOn DEF Done
  <2>2. ASSUME NEW l \in Of(a)' PROVE RegisterLink(l)'
    <3>1. CASE l = l0
      <4>1. l[2] = Calculated /\ l[1] = r
        BY <3>1
      <4> QED
        BY <1>2, <1>4, <2>1, <4>1, AliasNames DEF RegisterLink
    <3>2. CASE l \in Of(a)
      <4> DEFINE o == Proxy("OracleManager")
      <4>1. RegisterLink(l)
        BY <3>2 DEF LinkInv, LinksFit, RegisterLinks
      <4>2. l[2] \in Pairs => <<o, l[2], l[3]>> \in wired
        BY <4>1 DEF RegisterLink
      <4> HIDE DEF o
      <4>3. l[2] \in Pairs => <<o', l[2], l[3]>> \in wired'
        BY <1>1, <1>2, <4>2 DEF o
      <4> QED
        BY <1>2, <1>4, <2>1, <4>1, <4>3 DEF RegisterLink, o
    <3> QED
      BY <1>1, <2>2, <3>1, <3>2 DEF Of
  <2> QED
    BY <2>2 DEF RegisterLinks
<1>10. LinkInv'
  <2>1. NewFacts
    BY <1>1 DEF NewFacts, Turn
  <2>2. OwnLinks(a)'
    BY <1>8, <1>9 DEF OwnLinks
  <2> QED
    BY <1>1, <1>5, <1>6, <2>1, <2>2, GoesOn, LinksKept
<1>11. InCalculated'
  <2>1. ~At(300, 2..3)' /\ ~At(300, 3..5)' /\ ~At(300, 4..5)' /\ ~At(300, {5})'
    BY <1>1 DEF At
  <2> QED
    BY <2>1 DEF InCalculated
<1> QED
  BY <1>1, <1>10, <1>11, GoesOn DEF ScriptInv

LEMMA UpgradeInfoGetterKeeps ==
    ASSUME DeployInv, UpgradeInfoGetter
    PROVE  LinkInv' /\ ScriptInv'
<1> USE DEF DeployInv
<1> DEFINE a == "InfoGetter"
           g == Proxy(a)
           S == {<<g, "implementation", FlatGetter>>}
<1>1. /\ Transaction /\ mode' = "running" /\ migration = 1001 /\ Turn(1001, 1)
      /\ recorded' = recorded /\ wired' = wired \cup S
  BY DEF Transaction, UpgradeInfoGetter, Turn, Mined
<1>2. ASSUME NEW l \in S PROVE NewLink(a, l)
  <2>1. "implementation" \in Roles
    BY DEF Roles, LinkNames
  <2>2. recorded' \in [Aliases -> 0..MaxAttempts] /\ <<a, "none">> \in Aliases
    BY <1>1, AliasNames, GoesOn DEF Single
  <2>3. g = Addr(a, "none")'
    BY <1>1 DEF Proxy, Addr
  <2> HIDE DEF g
  <2>4. NewLink(a, <<g, "implementation", FlatGetter>>)
    BY <2>1, <2>2, <2>3, LinkAdded
  <2> QED
    BY <2>4
<1>3. NewLinks(a)
  <2> HIDE DEF S
  <2> QED
    BY <1>1, <1>2, LinksAdded
<1>4. LinkInv'
  <2>1. NewFacts
    BY <1>1 DEF NewFacts, Turn
  <2>2. OwnLinks(a)'
    BY DEF OwnLinks
  <2> QED
    BY <1>1, <1>3, <2>1, <2>2, GoesOn, LinksKept
<1> QED
  BY <1>1, <1>4, GoesOn DEF ScriptInv

-----------------------------------------------------------------------------
(***************************************************************************)
(* The invariant of the deployment.                                        *)
(***************************************************************************)
LEMMA DeployInitInv == DeployInit => DeployInv
<1> SUFFICES ASSUME DeployInit PROVE DeployInv
  OBVIOUS
<1> USE DEF DeployInit
<1>1. \A l \in wired : \E a \in FoundContracts : l = <<a, "governor", Governor>>
  OBVIOUS
<1>2. \A l \in wired : l[1] \in FoundContracts /\ l[2] = "governor" /\ l[3] = Governor
  <2>1. ASSUME NEW l \in wired, NEW a \in FoundContracts, l = <<a, "governor", Governor>>
        PROVE  l[1] = a /\ l[2] = "governor" /\ l[3] = Governor
    BY <2>1
  <2> QED
    BY <1>1, <2>1
<1>3. WiredTyped
  <2>1. "governor" \in Roles
    BY DEF Roles, LinkNames
  <2>2. ASSUME NEW a \in FoundContracts PROVE <<a, "governor", Governor>> \in LinkTypes
    BY <2>1 DEF LinkTypes
  <2> QED
    BY <1>1, <2>2 DEF WiredTyped
<1>4. \A d \in Single \cup PerPair \cup {"Registry"} : \A l \in wired : l[1][1] # d
  BY <1>2, ContractsNamed
<1>5. DeployTypeOK
  <2>1. ProcessTyped
    BY DeploymentAssumption DEF ProcessTyped, Migrations
  <2>2. recorded \in [Aliases -> 0..MaxAttempts]
    BY DeploymentAssumption
  <2> QED
    BY <1>3, <2>1, <2>2, TypeParts
<1>6. Position
  <2>1. 0 \in Migrations \cup {0} /\ 0 # LastMigration /\ 1 \in Migrations
    BY DEF Migrations, LastMigration
  <2>2. After(0) \in Migrations /\ After(0) > 0 /\ (1 > 0 => After(0) <= 1)
    BY <2>1, NextMigration
  <2>3. After(0) = 1
    BY <2>2 DEF Migrations
  <2> QED
    BY <2>1, <2>3, <1>5 DEF Position, At, DeployTypeOK
<1>7. ProxiesCounted
  <2>1. ASSUME NEW a \in Aliases PROVE recorded[a] = 0
    OBVIOUS
  <2> QED
    BY <2>1 DEF ProxiesCounted
<1>8. Fresh /\ GovernorFirst /\ FoundGoverned
  BY <1>2 DEF Fresh, GovernorFirst, FoundGoverned
<1>9. \A d \in Single \cup PerPair \cup {"Registry"} : Of(d) = {}
  BY <1>4 DEF Of
<1>10. LinksFit /\ PairsReady /\ CalculatedsReady
  BY <1>9 DEF LinksFit, SupportersLinks, ManagerLinks, MachineLinks, StakingLinks, PairLinks,
              RegistryLinks, RegisterLinks, CalculatedLinks, PairsReady, CalculatedsReady,
              Single, PerPair
<1>11. CoreWired
  BY DEF CoreWired, Done
<1>12. ScriptInv
  BY DEF ScriptInv, InPairs, InRegister, InCalculated, PairsTorn, FailureExplained, At
<1> QED
  BY <1>3, <1>5, <1>6, <1>7, <1>8, <1>10, <1>11, <1>12 DEF DeployInv, LinkInv

LEMMA MinedKeeps ==
    ASSUME DeployInv, Transaction, mode' = "running"
    PROVE  LinkInv' /\ ScriptInv'
<1>1. CASE \/ ConfigCheck
           \/ AddProxy(50, "Supporters") \/ AddProxy(60, "OracleManager")
           \/ AddProxy(70, "DelayMachine") \/ AddProxy(80, "Staking")
  <2>1. wired' = wired /\ migration \in {1, 50, 60, 70, 80}
    BY <1>1 DEF ConfigCheck, AddProxy, Turn, chainVars, Abort
  <2> QED
    BY <2>1, UnwiringKeeps
<1>2. CASE InitializeSupporters \/ InitializeOracleManager \/ InitializeDelayMachine
           \/ InitializeStaking
  BY <1>2, InitializeSupportersKeeps, InitializeOracleManagerKeeps,
     InitializeDelayMachineKeeps, InitializeStakingKeeps
<1>3. ASSUME NEW p \in todo, AddPairFree(p) PROVE LinkInv' /\ ScriptInv'
  BY <1>3, AddPairFreeKeeps
<1>4. CASE AddPair \/ InitializePairFree \/ RegisterPair
  <2> SUFFICES ASSUME NEW p, p = coin PROVE LinkInv' /\ ScriptInv'
    OBVIOUS
  <2> QED
    BY <1>4, AddPairKeeps, InitializePairFreeKeeps, RegisterPairKeeps
<1>5. CASE AddInfoGetter \/ RegisterValues \/ AddRegister \/ RegisterAllPairs
           \/ UpgradeInfoGetter
  BY <1>5, AddInfoGetterKeeps, RegisterValuesKeeps, AddRegisterKeeps, RegisterAllPairsKeeps,
     UpgradeInfoGetterKeeps
<1>6. CASE AddCalculatedFree \/ AddCalculated \/ InitializeCalculatedFree
           \/ WhitelistCalculated \/ RegisterCalculated
  BY <1>6, AddCalculatedFreeKeeps, AddCalculatedKeeps, InitializeCalculatedFreeKeeps,
     WhitelistCalculatedKeeps, RegisterCalculatedKeeps
<1> QED
  BY <1>1, <1>2, <1>3, <1>4, <1>5, <1>6 DEF Transaction

LEMMA DeployNextInv ==
    ASSUME DeployInv, DeployNext
    PROVE  DeployInv'
<1>1. Position' /\ ProcessTyped'
  BY PositionStep DEF DeployInv
<1>2. recorded' \in [Aliases -> 0..MaxAttempts] /\ ProxiesCounted'
  BY CountedStep DEF DeployInv
<1>3. LinkInv' /\ ScriptInv'
  <2>1. CASE Transaction
    <3>1. mode' = "running" \/ mode' = "failed"
      BY <2>1, TransactionWorks DEF Works
    <3> QED
      BY <2>1, <3>1, MinedKeeps, AbortKeeps
  <2> QED
    BY <2>1, SetCompletedKeeps, MigrateKeeps, InterruptKeeps DEF DeployNext, Progress
<1>4. DeployTypeOK'
  <2>1. WiredTyped'
    BY <1>3 DEF LinkInv
  <2> QED
    BY <1>1, <1>2, <2>1 DEF DeployTypeOK, ProcessTyped, WiredTyped, LinkTypes
<1> QED
  BY <1>1, <1>2, <1>3, <1>4 DEF DeployInv

LEMMA DeployStutterInv ==
    ASSUME DeployInv, UNCHANGED deployVars
    PROVE  DeployInv'
<1> USE DEF deployVars
<1>1. DeployTypeOK' /\ Position' /\ ProxiesCounted'
  BY DEF DeployInv, DeployTypeOK, Position, At, ProxiesCounted, Ahead
<1>2. /\ \A m, t : Done(m, t)' = Done(m, t)
      /\ \A m, S : At(m, S)' = At(m, S)
      /\ \A d, p : Addr(d, p)' = Addr(d, p)
      /\ \A d : Proxy(d)' = Proxy(d) /\ Of(d)' = Of(d)
      /\ Sources' = Sources /\ RegisteredPairs' = RegisteredPairs
  <2>1. UNCHANGED chainVars
    BY DEF chainVars
  <2> QED
    BY <2>1, ChainKept DEF Done, At, Addr, Proxy, Of
<1>3. LinksFit'
  BY <1>2 DEF DeployInv, LinkInv, LinksFit, SupportersLinks, ManagerLinks, MachineLinks,
              StakingLinks, PairLinks, RegistryLinks, RegisterLinks, RegisterLink, CalculatedLinks
<1>4. CoreWired'
  BY <1>2 DEF DeployInv, LinkInv, CoreWired, GetterWired, SupportersWired, ManagerWired,
              MachineWired, StakingWired, RegistryWired, RegisterWired, PricesWired
<1>5. PairsReady' /\ CalculatedsReady'
  BY <1>2 DEF DeployInv, LinkInv, PairsReady, PairReady, CalculatedsReady, CalculatedReady
<1>6. WiredTyped' /\ Fresh' /\ GovernorFirst' /\ FoundGoverned'
  BY DEF DeployInv, LinkInv, WiredTyped, Fresh, GovernorFirst, FoundGoverned
<1>7. ScriptInv'
  BY <1>2 DEF DeployInv, ScriptInv, InPairs, InRegister, InCalculated, PairsTorn,
              FailureExplained, NoLinks, Unregistered
<1> QED
  BY <1>1, <1>3, <1>4, <1>5, <1>6, <1>7 DEF DeployInv, LinkInv

\* Whatever migrations were interrupted and repeated, the contracts are linked as far
\* as the scripts have come, and the registries name only contracts that are ready.
THEOREM DeploymentInvariant == DeploySpec => []DeployInv
<1>1. DeployInit => DeployInv
  BY DeployInitInv
<1>2. DeployInv /\ [DeployNext]_deployVars => DeployInv'
  BY DeployNextInv, DeployStutterInv
<1> QED
  BY <1>1, <1>2, PTL DEF DeploySpec

LEMMA ReadableInState ==
    ASSUME DeployInv
    PROVE  RegisteredPairsReadable
<1> DEFINE o == Proxy("OracleManager")
<1>1. LinksAreWired /\ WiredTyped /\ LinksFit
  BY LinksOfWired DEF DeployInv, LinkInv
<1>2. SUFFICES ASSUME NEW p \in Pairs, NEW c \in Links(o, p)
               PROVE  Links(c, "oracleManager") = {o} /\ \E f \in Links(c, "whitelist") : ReadsFor(f, c)
  BY DEF RegisteredPairsReadable, RegisteredPairs
<1>3. o[1] = "OracleManager"
  BY ContractsNamed
<1>4. <<o, p, c>> \in wired
  BY <1>1 DEF LinksAreWired
<1> HIDE DEF o
<1>5. <<o, p, c>> \in Of("OracleManager")
  BY <1>3, <1>4 DEF Of
<1>6. PairReady(c) /\ c[1] = "CoinPairPrice"
  BY <1>1, <1>5 DEF DeployInv, LinkInv, LinksFit, PairsReady, ManagerLinks
<1>7. Links(c, "oracleManager") = {o}
  <2>1. ASSUME NEW x \in Links(c, "oracleManager") PROVE x = o
    <3>1. PICK l \in wired : l[1] = c /\ l[2] = "oracleManager" /\ l[3] = x
      BY <2>1 DEF Links
    <3>2. l \in Of("CoinPairPrice")
      BY <1>6, <3>1 DEF Of
    <3> QED
      BY <1>1, <3>1, <3>2 DEF LinksFit, PairLinks, o
  <2>2. o \in Links(c, "oracleManager")
    BY <1>1, <1>6 DEF PairReady, LinksAreWired, o
  <2> QED
    BY <2>1, <2>2
<1>8. \E f \in Links(c, "whitelist") : ReadsFor(f, c)
  BY <1>1, <1>6 DEF PairReady, LinksAreWired, ReadsFor
<1> QED
  BY <1>7, <1>8

LEMMA CalculatedInState ==
    ASSUME DeployInv
    PROVE  CalculatedReadable
<1> DEFINE r == Proxy("PriceProviderRegister")
<1>1. LinksAreWired /\ WiredTyped /\ LinksFit
  BY LinksOfWired DEF DeployInv, LinkInv
<1>2. SUFFICES ASSUME NEW c \in Links(r, Calculated)
               PROVE  /\ \A s \in Links(c, "multiplyBy") : c \in Links(s, "whitelist")
                      /\ \E f \in Links(c, "whitelist") : ReadsFor(f, c)
  BY DEF CalculatedReadable
<1>3. r[1] = "PriceProviderRegister"
  BY ContractsNamed
<1>4. <<r, Calculated, c>> \in wired
  BY <1>1 DEF LinksAreWired
<1> HIDE DEF r
<1>5. <<r, Calculated, c>> \in Of("PriceProviderRegister")
  BY <1>3, <1>4 DEF Of
<1>6. CalculatedReady(c)
  BY <1>5 DEF DeployInv, LinkInv, CalculatedsReady
<1>7. ASSUME NEW s \in Links(c, "multiplyBy") PROVE c \in Links(s, "whitelist")
  <2>1. PICK l \in wired : l[1] = c /\ l[2] = "multiplyBy" /\ l[3] = s
    BY <1>7 DEF Links
  <2>2. l \in Of("CalculatedPriceProvider")
    BY <1>6, <2>1 DEF CalculatedReady, Of
  <2>3. s \in Sources
    BY <1>1, <2>1, <2>2 DEF LinksFit, CalculatedLinks
  <2> QED
    BY <1>1, <1>6, <2>3 DEF CalculatedReady, LinksAreWired
<1>8. \E f \in Links(c, "whitelist") : ReadsFor(f, c)
  BY <1>1, <1>6 DEF CalculatedReady, LinksAreWired, ReadsFor
<1> QED
  BY <1>7, <1>8

\* The links of a role are one, if there is one and no other may be.
LEMMA OnlyLink ==
    ASSUME LinksAreWired, NEW a, NEW r, NEW x, <<a, r, x>> \in wired,
           \A l \in wired : l[1] = a /\ l[2] = r => l[3] = x
    PROVE  Links(a, r) = {x}
<1>1. x \in Links(a, r)
  BY DEF LinksAreWired
<1>2. ASSUME NEW y \in Links(a, r) PROVE y = x
  BY <1>2 DEF Links
<1> QED
  BY <1>1, <1>2

LEMMA AgreeInState ==
    ASSUME DeployInv
    PROVE  ContractsAgree
<1> DEFINE s == Proxy("Supporters")
           o == Proxy("OracleManager")
           d == Proxy("DelayMachine")
           k == Proxy("Staking")
           r == Proxy("PriceProviderRegister")
<1>1. LinksAreWired /\ WiredTyped /\ LinksFit /\ CoreWired
  BY LinksOfWired DEF DeployInv, LinkInv
<1>2. \A l \in wired : \A c : l[1] = Proxy(c) => l \in Of(c)
  BY ContractsNamed DEF Of
<1>3. ASSUME completed >= 130
      PROVE  /\ Links(k, "supporters") = {s} /\ Links(s, "whitelist") = {k}
             /\ Links(k, "oracleManager") = {o} /\ Links(o, "staking") = {k}
             /\ Links(k, "delayMachine") = {d} /\ Links(d, "staking") = {k}
             /\ Links(k, "token") = {Token} /\ Links(s, "token") = {Token}
             /\ Links(d, "token") = {Token}
  <2>1. Done(100, 1) /\ Done(110, 1) /\ Done(120, 1) /\ Done(130, 1)
    BY <1>3, PositionTyped DEF Done, DeployInv
  <2>2. SupportersWired /\ ManagerWired /\ MachineWired /\ StakingWired
    BY <1>1, <2>1 DEF CoreWired
  <2>3. \A l \in wired :
           /\ l[1] = s => (l[2] = "whitelist" => l[3] = k) /\ (l[2] = "token" => l[3] = Token)
           /\ l[1] = o => (l[2] = "staking" => l[3] = k)
           /\ l[1] = d => (l[2] = "staking" => l[3] = k) /\ (l[2] = "token" => l[3] = Token)
           /\ l[1] = k => /\ l[2] = "supporters" => l[3] = s
                          /\ l[2] = "oracleManager" => l[3] = o
                          /\ l[2] = "delayMachine" => l[3] = d
                          /\ l[2] = "token" => l[3] = Token
    BY <1>1, <1>2 DEF LinksFit, SupportersLinks, ManagerLinks, MachineLinks, StakingLinks
  <2>4. /\ <<k, "supporters", s>> \in wired /\ <<s, "whitelist", k>> \in wired
        /\ <<k, "oracleManager", o>> \in wired /\ <<o, "staking", k>> \in wired
        /\ <<k, "delayMachine", d>> \in wired /\ <<d, "staking", k>> \in wired
        /\ <<k, "token", Token>> \in wired /\ <<s, "token", Token>> \in wired
        /\ <<d, "token", Token>> \in wired
    BY <2>2 DEF SupportersWired, ManagerWired, MachineWired, StakingWired
  <2> HIDE DEF s, o, d, k
  <2> QED
    BY <1>1, <2>3, <2>4, OnlyLink
<1>4. ASSUME completed >= 200, NEW n \in RegistryNames PROVE Links(Registry, n) = {Proxy(n)}
  <2> DEFINE x == Proxy(n)
  <2>1. Done(200, 1)
    BY <1>4 DEF Done
  <2>2. <<Registry, n, x>> \in wired
    BY <1>1, <1>4, <2>1 DEF CoreWired, RegistryWired
  <2>3. \A l \in wired : l[1] = Registry /\ l[2] = n => l[3] = x
    BY <1>1, ContractsNamed DEF LinksFit, RegistryLinks, Of
  <2> HIDE DEF x
  <2>4. Links(Registry, n) = {x}
    BY <1>1, <2>2, <2>3, OnlyLink
  <2> QED
    BY <2>4 DEF x
<1>5. ASSUME completed >= 250, NEW p \in Pairs PROVE Links(r, p) = Links(o, p)
  <2>1. Done(250, 2)
    BY <1>5 DEF Done
  <2>2. r[1] = "PriceProviderRegister" /\ o[1] = "OracleManager"
    BY ContractsNamed
  <2>3. \A l \in Of("PriceProviderRegister") : l[2] \in Pairs => <<o, l[2], l[3]>> \in wired
    BY <1>1 DEF LinksFit, RegisterLinks, RegisterLink
  <2>4. \A l \in wired : l[1] = o /\ l[2] \in Pairs => <<r, l[2], l[3]>> \in wired
    BY <1>1, <2>1 DEF CoreWired, PricesWired
  <2> HIDE DEF o, r
  <2>5. ASSUME NEW x \in Links(r, p) PROVE x \in Links(o, p)
    <3>1. PICK l \in wired : l[1] = r /\ l[2] = p /\ l[3] = x
      BY <2>5 DEF Links
    <3>2. l \in Of("PriceProviderRegister")
      BY <2>2, <3>1 DEF Of
    <3> QED
      BY <1>1, <2>3, <3>1, <3>2 DEF LinksAreWired
  <2>6. ASSUME NEW x \in Links(o, p) PROVE x \in Links(r, p)
    <3>1. PICK l \in wired : l[1] = o /\ l[2] = p /\ l[3] = x
      BY <2>6 DEF Links
    <3> QED
      BY <1>1, <2>4, <3>1 DEF LinksAreWired
  <2> QED
    BY <2>5, <2>6
<1> QED
  BY <1>3, <1>4, <1>5 DEF ContractsAgree

\* The deployment is in a state of the types above: no proxy is counted beyond
\* the attempts, and no link names a contract that is not there.
THEOREM DeployTypes == DeploySpec => []DeployTypeOK
BY DeploymentInvariant, PTL DEF DeployInv

\* However often migration 150 was interrupted and repeated (150_*.js: a new
\* CoinPairPrice and CoinPairPriceFree for each pair), a registered pair reports to
\* the OracleManager in use and can be read by its CoinPairPriceFree.
THEOREM RegisteredPairsAlwaysReadable == DeploySpec => []RegisteredPairsReadable
<1>1. DeployInv => RegisteredPairsReadable
  BY ReadableInState
<1> QED
  BY <1>1, DeploymentInvariant, PTL

\* Migration 300 registers the calculated price only once every pair it multiplies
\* lets it read, and its own clients can read it.
THEOREM CalculatedAlwaysReadable == DeploySpec => []CalculatedReadable
<1>1. DeployInv => CalculatedReadable
  BY CalculatedInState
<1> QED
  BY <1>1, DeploymentInvariant, PTL

\* From migration 130 on the four contracts that move the stakes know each other
\* and no proxy of an abandoned attempt; the registry and the register of prices
\* name what is in use once migrations 200 and 250 are over.
THEOREM ContractsAlwaysAgree == DeploySpec => []ContractsAgree
<1>1. DeployInv => ContractsAgree
  BY AgreeInState
<1> QED
  BY <1>1, DeploymentInvariant, PTL

\* A migration that is repeated fails only where an earlier attempt was interrupted
\* after a call it cannot make twice, or over what the configuration leaves out.
THEOREM FailuresExplained == DeploySpec => []FailureExplained
<1>1. DeployInv => FailureExplained
  BY DEF DeployInv, ScriptInv
<1> QED
  BY <1>1, DeploymentInvariant, PTL

-----------------------------------------------------------------------------
(***************************************************************************)
(* The operator's scripts.  Until the deployment is complete none runs;    *)
(* from then on the migrations do not, and the only links that change are  *)
(* those to the governors and those of the registers to their pairs.       *)
(***************************************************************************)
Places == Contract \cup FoundContracts \cup Governors \cup {Token, Registry, FlatGetter, Zero}

ScriptTypes ==
    [script : {"none", "delegate", "execute", "implementation", "run", "topup"},
     step : {"names", "pairs", "register", "owner", "confirm", "execute", "call", "send", "done",
             "ended"},
     governor : Places, newGovernor : Governors, list : SUBSET Places, change : Nat,
     need : [Servers -> Nat]]

\* The contracts a pair is registered with after the deployment.
PairPlaces ==
    {<<"CoinPairPrice", p, n>> : p \in Pairs, n \in 0..MaxAttempts}
      \cup {<<n, "none", 1>> : n \in NewPairs}

\* The entries of changes of pairs: of a register, and with such a contract.
Entries == {Deployed("OracleManager"), Deployed("PriceProviderRegister")} \X Pairs
             \X (PairPlaces \cup {Zero})

ChangeTypes ==
    [kind : {"governor", "implementation", "setting", "register", "unregister"},
     targets : SUBSET Places, newGovernor : Places, entry : Places \X (Pairs \cup {"none"}) \X Places,
     executed : BOOLEAN]

OpsTyped ==
    /\ ownerOf \in [Governors -> {"foundation", "newOwner", "nobody"}]
    /\ changes \in Seq(ChangeTypes)
    /\ session \in [Terminals -> ScriptTypes]
    /\ balance \in [Servers -> Nat] /\ funds \in Nat
    /\ spent \in [Terminals -> [Servers -> Nat]]
    /\ strays \subseteq PairPlaces

WiredPlaces ==
    wired \subseteq (Contract \cup FoundContracts \cup {Registry}) \X Roles \X Places

\* While the migrations are not over.
Deploying ==
    completed # LastMigration =>
       /\ DeployInv
       /\ changes = <<>> /\ ownerOf[Governor] = "foundation" /\ strays = {}
       /\ \A t \in Terminals : session[t].script = "none" /\ session[t].step = "ended"

\* What is listed, but for the pairs that were registered out of step.
Held == Listed \ strays

\* It obeys one governor.
Together == \E g \in Governors : \A a \in Held : GovernorOf(a) = {g}

\* Every contract, also one that was left behind, obeys a governor somebody owns.
Owned == \A l \in wired : l[2] = "governor" => l[3] \in Governors /\ ownerOf[l[3]] # "nobody"

Operating ==
    completed = LastMigration =>
       /\ mode = "stopped" /\ recorded \in [Aliases -> 0..MaxAttempts]
       /\ WiredPlaces /\ Together /\ Owned

\* A change of the governor that can be executed yet moves all that is held together,
\* and to a governor with an owner; a change of pairs is one of a register.
ChangeWhole(c) ==
    /\ c.kind = "governor" =>
          /\ c.newGovernor \in Governors /\ ownerOf[c.newGovernor] # "nobody"
          /\ c.executed \/ Held \subseteq c.targets
    /\ c.kind \in {"register", "unregister"} => c.entry \in Entries /\ c.targets = {c.entry[1]}
    /\ c.kind = "register" => c.entry[3] \in PairPlaces

ChangesWhole == \A k \in DOMAIN changes : ChangeWhole(changes[k])

\* What a script has looked at when it takes its next step.
Collected(step) ==
    CASE step = "names"    -> {}
      [] step = "pairs"    -> {Deployed(n) : n \in ContractNames}
      [] step = "register" -> {Deployed(n) : n \in ContractNames} \cup PairsOf(Deployed("OracleManager"))
      [] OTHER             -> Listed

Listing == {"names", "pairs", "register", "owner", "confirm"}

SessionInStep(s) ==
    /\ s.step \in Listing => Collected(s.step) \ strays \subseteq s.list
    /\ s.step = "confirm" => ownerOf[s.newGovernor] # "nobody"
    /\ s.step = "execute" => s.change \in DOMAIN changes

SessionsInStep == \A t \in Terminals : SessionInStep(session[t])

\* What a server still gets makes up for what it has not.
Funded(t) ==
    session[t].step \in {"send", "done"} =>
       \A s \in Servers :
          /\ balance[s] + spent[t][s] + session[t].need[s] >= EACH_NEEDED
          /\ session[t].step = "done" => session[t].need[s] = 0

Funding == \A t \in Terminals : Funded(t)

OpsInv == OpsTyped /\ Deploying /\ Operating /\ ChangesWhole /\ SessionsInStep /\ Funding

LEMMA GovernorIsOne == Governor \in Governors
<1>1. 1 \in 1..MaxGovernors
  BY ScriptsAssumption
<1> QED
  BY <1>1 DEF Governor, Governors

LEMMA LinksOfPlaces == WiredPlaces => LinksAreWired
<1> SUFFICES ASSUME WiredPlaces, NEW a, NEW r, NEW x
             PROVE  x \in Links(a, r) <=> <<a, r, x>> \in wired
  BY DEF LinksAreWired
<1>1. \A l \in wired : l = <<l[1], l[2], l[3]>>
  BY DEF WiredPlaces
<1>2. x \in Links(a, r) <=> \E l \in wired : l[1] = a /\ l[2] = r /\ l[3] = x
  BY DEF Links
<1>3. ASSUME NEW l \in wired, l[1] = a, l[2] = r, l[3] = x PROVE <<a, r, x>> \in wired
  BY <1>1, <1>3
<1>4. ASSUME <<a, r, x>> \in wired
      PROVE  \E l \in wired : l[1] = a /\ l[2] = r /\ l[3] = x
  <2> DEFINE l == <<a, r, x>>
  <2>1. l[1] = a /\ l[2] = r /\ l[3] = x
    OBVIOUS
  <2> QED
    BY <1>4, <2>1
<1> QED
  BY <1>2, <1>3, <1>4

\* What is listed shrinks with what the registers have.
LEMMA ListedShrinks ==
    ASSUME recorded' = recorded,
           \A a : \A p \in Pairs \cup {Calculated} : Links(a, p)' \subseteq Links(a, p)
    PROVE  /\ Listed' \subseteq Listed /\ \A step : Collected(step)' \subseteq Collected(step)
<1>1. \A n : Deployed(n)' = Deployed(n)
  BY DEF Deployed, Proxy, Addr
<1>2. \A a : PairsOf(a)' \subseteq PairsOf(a)
  BY DEF PairsOf
<1>3. Listed' \subseteq Listed
  BY <1>1, <1>2 DEF Listed
<1>4. PairsOf(Deployed("OracleManager"))' \subseteq PairsOf(Deployed("OracleManager"))
  BY <1>1, <1>2
<1> QED
  BY <1>1, <1>3, <1>4 DEF Collected

\* It does not depend on the governors.
LEMMA ListedStays ==
    ASSUME recorded' = recorded, \A l : l[2] # "governor" => (l \in wired' => l \in wired)
    PROVE  /\ Listed' \subseteq Listed /\ \A step : Collected(step)' \subseteq Collected(step)
<1>1. \A a : \A p \in Pairs \cup {Calculated} : Links(a, p)' \subseteq Links(a, p)
  <2>1. "governor" \notin Pairs \cup {Calculated}
    BY NamesAssumption DEF LinkNames
  <2> QED
    BY <2>1 DEF Links
<1> QED
  BY <1>1, ListedShrinks

\* When the migrations are over, what is listed obeys the first governor.
AtFirst ==
    DeployInv /\ completed = LastMigration /\ ownerOf[Governor] = "foundation" /\ strays = {}

LEMMA TogetherAtFirst == AtFirst => Operating
<1> SUFFICES ASSUME AtFirst PROVE Operating
  OBVIOUS
<1>0. DeployInv /\ completed = LastMigration /\ ownerOf[Governor] = "foundation"
  BY DEF AtFirst
<1> DEFINE o == Proxy("OracleManager")
           r == Proxy("PriceProviderRegister")
<1>1. LinksAreWired /\ WiredTyped /\ LinksFit /\ CoreWired /\ GovernorFirst /\ FoundGoverned
  BY <1>0, LinksOfWired DEF DeployInv, LinkInv
<1>2. GetterWired /\ SupportersWired /\ ManagerWired /\ RegisterWired
  BY <1>0, <1>1 DEF CoreWired, Done, LastMigration
<1>3. /\ <<Proxy("InfoGetter"), "governor", Governor>> \in wired
      /\ <<Proxy("Supporters"), "governor", Governor>> \in wired
      /\ <<o, "governor", Governor>> \in wired
      /\ <<r, "governor", Governor>> \in wired
  BY <1>2 DEF GetterWired, SupportersWired, ManagerWired, RegisterWired
<1>4. ASSUME NEW n \in ContractNames PROVE <<Deployed(n), "governor", Governor>> \in wired
  <2>1. CASE n \in {"InfoGetter", "Supporters"}
    BY <1>3, <2>1 DEF Deployed, Single
  <2>2. CASE n \in {"SupportersVested", "TestMOC"}
    <3>1. n \in Found /\ n \notin Single
      BY <2>2, FoundAssumption, NamesAssumption
    <3>2. Deployed(n) \in FoundContracts
      BY <3>1 DEF Deployed, FoundContracts
    <3> QED
      BY <1>1, <3>2 DEF FoundGoverned
  <2> QED
    BY <1>4, <2>1, <2>2 DEF ContractNames
<1>5. Deployed("OracleManager") = o /\ Deployed("PriceProviderRegister") = r
  BY DEF Deployed, Single
<1>6. o[1] = "OracleManager" /\ r[1] = "PriceProviderRegister"
  BY ContractsNamed
<1> HIDE DEF o, r
<1>7. ASSUME NEW p \in Pairs, NEW x, <<o, p, x>> \in wired
      PROVE  <<x, "governor", Governor>> \in wired
  <2> DEFINE l == <<o, p, x>>
  <2>1. l \in wired /\ l[1] = o /\ l[2] = p /\ l[3] = x
    BY <1>7
  <2> HIDE DEF l
  <2>2. l \in Of("OracleManager")
    BY <1>6, <2>1 DEF Of
  <2>3. PairReady(x)
    BY <1>0, <2>1, <2>2 DEF DeployInv, LinkInv, PairsReady
  <2> QED
    BY <2>3 DEF PairReady
<1>8. ASSUME NEW p \in Pairs, NEW x, <<r, p, x>> \in wired
      PROVE  <<o, p, x>> \in wired
  <2> DEFINE l == <<r, p, x>>
  <2>1. l \in wired /\ l[1] = r /\ l[2] = p /\ l[3] = x
    BY <1>8
  <2> HIDE DEF l
  <2>2. l \in Of("PriceProviderRegister")
    BY <1>6, <2>1 DEF Of
  <2>3. <<o, l[2], l[3]>> \in wired
    BY <1>1, <2>1, <2>2 DEF LinksFit, RegisterLinks, RegisterLink, o
  <2> QED
    BY <2>1, <2>3
<1>9. ASSUME NEW x, <<r, Calculated, x>> \in wired
      PROVE  <<x, "governor", Governor>> \in wired
  <2> DEFINE l == <<r, Calculated, x>>
  <2>1. l \in wired /\ l[1] = r /\ l[2] = Calculated /\ l[3] = x
    BY <1>9
  <2> HIDE DEF l
  <2>2. l \in Of("PriceProviderRegister")
    BY <1>6, <2>1 DEF Of
  <2>3. CalculatedReady(x)
    BY <1>0, <2>1, <2>2 DEF DeployInv, LinkInv, CalculatedsReady
  <2> QED
    BY <2>3 DEF CalculatedReady
<1>10. ASSUME NEW x PROVE <<o, Calculated, x>> \notin wired
  <2> DEFINE l == <<o, Calculated, x>>
  <2>1. l[1] = o /\ l[2] = Calculated
    OBVIOUS
  <2> HIDE DEF l
  <2>2. l \notin wired
    BY <1>1, <1>6, <2>1 DEF LinksFit, ManagerLinks, Of
  <2> QED
    BY <2>2 DEF l
<1>11. ASSUME NEW a \in Listed PROVE <<a, "governor", Governor>> \in wired
  <2>1. CASE a \in {Deployed(n) : n \in ContractNames}
    BY <1>4, <2>1
  <2>2. CASE a \in PairsOf(o)
    <3>1. CASE a = o
      BY <1>3, <3>1
    <3>2. ASSUME NEW p \in Pairs \cup {Calculated}, a \in Links(o, p)
          PROVE  <<a, "governor", Governor>> \in wired
      BY <1>1, <1>7, <1>10, <3>2 DEF LinksAreWired
    <3> QED
      BY <2>2, <3>1, <3>2 DEF PairsOf
  <2>3. CASE a \in PairsOf(r)
    <3>1. CASE a = r
      BY <1>3, <3>1
    <3>2. ASSUME NEW p \in Pairs \cup {Calculated}, a \in Links(r, p)
          PROVE  <<a, "governor", Governor>> \in wired
      BY <1>1, <1>7, <1>8, <1>9, <3>2 DEF LinksAreWired
    <3> QED
      BY <2>3, <3>1, <3>2 DEF PairsOf
  <2> QED
    BY <1>5, <2>1, <2>2, <2>3 DEF Listed
<1>12. ASSUME NEW a \in Listed PROVE GovernorOf(a) = {Governor}
  <2>1. \A l \in wired : l[1] = a /\ l[2] = "governor" => l[3] = Governor
    BY <1>1 DEF GovernorFirst
  <2>2. <<a, "governor", Governor>> \in wired /\ LinksAreWired
    BY <1>1, <1>11
  <2> HIDE DEF Governor
  <2>3. Links(a, "governor") = {Governor}
    BY <2>1, <2>2, OnlyLink
  <2> QED
    BY <2>3 DEF GovernorOf
<1>13. Together
  BY <1>12, GovernorIsOne DEF Together, Held
<1>14. WiredPlaces
  BY <1>1, GovernorIsOne DEF WiredTyped, LinkTypes, WiredPlaces, Places
<1>15. Owned
  BY <1>0, <1>1, GovernorIsOne DEF Owned, GovernorFirst
<1> QED
  BY <1>0, <1>13, <1>14, <1>15 DEF Operating, DeployInv, Position, DeployTypeOK

-----------------------------------------------------------------------------
(***************************************************************************)
(* Steps of the migrations and of the scripts exclude each other.          *)
(***************************************************************************)
LEMMA DeployNextUnfinished ==
    ASSUME DeployNext, completed = LastMigration, mode = "stopped"
    PROVE  FALSE
<1>1. ~Transaction
  BY TransactionWorks DEF Works
<1> QED
  BY <1>1 DEF DeployNext, Progress, SetCompleted, Migrate, Interrupt

LEMMA ScriptsFinished ==
    ASSUME Deploying, ScriptStep \/ \E t \in Terminals : Execute(t)
    PROVE  completed = LastMigration
<1> SUFFICES ASSUME completed # LastMigration PROVE FALSE
  OBVIOUS
<1>1. \A t \in Terminals : session[t].script = "none" /\ session[t].step = "ended"
  BY DEF Deploying
<1>2. ASSUME NEW t \in Terminals, CollectAll(t) PROVE FALSE
  BY <1>1, <1>2 DEF CollectAll, Collect, Running
<1>3. ASSUME NEW t \in Terminals,
             \/ CheckNewOwner(t) \/ Confirm(t) \/ CallPromise(t) \/ EndTopUp(t)
             \/ CloseTerminal(t) \/ Execute(t) \/ \E s \in Servers : Transfer(t, s)
      PROVE  FALSE
  BY <1>1, <1>3 DEF CheckNewOwner, Confirm, CallPromise, EndTopUp, CloseTerminal, Execute,
                    Transfer, Running
<1>4. ASSUME NEW t \in Terminals,
             \/ \E g, new \in Governors : StartDelegate(t, g, new)
             \/ \E g \in Governors, k \in DOMAIN changes : StartExecute(t, g, k)
             \/ StartImplementation(t) \/ StartTopUp(t)
             \/ \E c \in SettingChanges \cup PairChanges : StartRun(t, c)
      PROVE  FALSE
  BY <1>4 DEF StartDelegate, StartExecute, StartImplementation, StartRun, StartTopUp, Start
<1>5. ASSUME \/ \E g \in Governors : ConfigureGovernor(g)
             \/ \E s \in Servers : PayGas(s)
      PROVE  FALSE
  BY <1>1, <1>5 DEF ConfigureGovernor, PayGas
<1> QED
  BY <1>2, <1>3, <1>4, <1>5 DEF ScriptStep

-----------------------------------------------------------------------------
(***************************************************************************)
(* What a script's step leaves alone.                                      *)
(***************************************************************************)

\* Owners and changes are added, and what the other terminals run stays.
OwnersAndChanges ==
    /\ \A g \in Governors : ownerOf[g] # "nobody" => ownerOf'[g] # "nobody"
    /\ \A k \in DOMAIN changes : k \in DOMAIN changes'

\* What is held together, and what of it a script has looked at, only shrinks.
HeldShrinks ==
    /\ Held' \subseteq Held
    /\ \A step : Collected(step)' \ strays' \subseteq Collected(step) \ strays

LEMMA OtherSession ==
    ASSUME OpsTyped, OwnersAndChanges, HeldShrinks, NEW s \in ScriptTypes, SessionInStep(s)
    PROVE  SessionInStep(s)'
<1>1. s.newGovernor \in Governors
  BY DEF ScriptTypes
<1>2. Collected(s.step)' \ strays' \subseteq Collected(s.step) \ strays
  BY DEF HeldShrinks
<1> QED
  BY <1>1, <1>2 DEF SessionInStep, OwnersAndChanges

LEMMA OtherChange ==
    ASSUME OwnersAndChanges, recorded' = recorded, Held' \subseteq Held, NEW c, ChangeWhole(c)
    PROVE  ChangeWhole(c)'
<1>1. Entries' = Entries
  BY DEF Entries, Deployed, Proxy, Addr
<1> QED
  BY <1>1 DEF ChangeWhole, OwnersAndChanges

LEMMA StepKeeps ==
    ASSUME OpsInv, completed = LastMigration, completed' = completed, recorded' = recorded,
           Operating', OpsTyped', HeldShrinks, OwnersAndChanges, Funding',
           \A k \in DOMAIN changes' :
              (k \in DOMAIN changes /\ changes'[k] = changes[k]) \/ ChangeWhole(changes[k])',
           \A t \in Terminals : session'[t] = session[t] \/ SessionInStep(session[t])'
    PROVE  OpsInv'
<1> USE DEF OpsInv
<1>1. Deploying'
  BY DEF Deploying
<1>2. ChangesWhole'
  <2>1. ASSUME NEW k \in DOMAIN changes', NEW c, c = changes'[k], c = changes[k],
               k \in DOMAIN changes
        PROVE  ChangeWhole(changes[k])'
    <3>1. ChangeWhole(c)
      BY <2>1 DEF ChangesWhole
    <3>2. ChangeWhole(c)'
      BY <3>1, OtherChange DEF HeldShrinks
    <3> QED
      BY <2>1, <3>2 DEF ChangeWhole
  <2> QED
    BY <2>1 DEF ChangesWhole
<1>3. SessionsInStep'
  <2>1. ASSUME NEW t \in Terminals, NEW s, s = session'[t], s = session[t]
        PROVE  SessionInStep(session[t])'
    <3>1. s \in ScriptTypes /\ SessionInStep(s)
      BY <2>1 DEF OpsTyped, SessionsInStep
    <3>2. SessionInStep(s)'
      BY <3>1, OtherSession
    <3> QED
      BY <2>1, <3>2 DEF SessionInStep
  <2> QED
    BY <2>1 DEF SessionsInStep
<1> QED
  BY <1>1, <1>2, <1>3

\* A step that leaves the chain alone.
LEMMA ScriptKeeps ==
    ASSUME OpsInv, completed = LastMigration, UNCHANGED <<deployVars, strays>>, OpsTyped',
           OwnersAndChanges, Funding',
           \A k \in DOMAIN changes' :
              (k \in DOMAIN changes /\ changes'[k] = changes[k]) \/ ChangeWhole(changes[k])',
           \A t \in Terminals : session'[t] = session[t] \/ SessionInStep(session[t])'
    PROVE  OpsInv'
<1>1. completed' = completed /\ recorded' = recorded /\ wired' = wired /\ mode' = mode
  BY DEF deployVars
<1>2. HeldShrinks
  BY <1>1, ListedStays DEF HeldShrinks, Held
<1>3. Operating'
  <2>1. \A a : GovernorOf(a)' = GovernorOf(a)
    BY <1>1 DEF GovernorOf, Links
  <2>2. Together'
    BY <1>2, <2>1 DEF OpsInv, Operating, Together, HeldShrinks
  <2>3. Owned'
    BY <1>1 DEF OpsInv, Operating, Owned, OwnersAndChanges
  <2> QED
    BY <1>1, <2>2, <2>3 DEF OpsInv, Operating, WiredPlaces
<1> QED
  BY <1>1, <1>2, <1>3, StepKeeps

-----------------------------------------------------------------------------
(***************************************************************************)
(* The steps of the scripts.                                               *)
(***************************************************************************)

\* A script goes on from what it has read, or deploys a change.
SessionAfter(s) ==
    /\ s.step \in Listing => Collected(s.step) \ strays \subseteq s.list
    /\ s.step = "confirm" => ownerOf[s.newGovernor] # "nobody"
    /\ s.step = "execute" => s.change \in DOMAIN changes'
    /\ s.step \notin {"send", "done"}

ChangesAfter ==
    changes' = changes \/ \E c \in ChangeTypes : changes' = Append(changes, c) /\ ChangeWhole(c)

LEMMA SessionStep ==
    ASSUME OpsInv, completed = LastMigration, UNCHANGED deployVars, NEW t \in Terminals,
           NEW s \in ScriptTypes, session' = [session EXCEPT ![t] = s], SessionAfter(s),
           UNCHANGED <<ownerOf, balance, funds, spent, strays>>, ChangesAfter
    PROVE  OpsInv'
<1>1. OpsTyped /\ Funding /\ SessionsInStep
  BY DEF OpsInv
<1>2. HeldShrinks /\ recorded' = recorded
  BY ListedStays DEF deployVars, HeldShrinks, Held
<1>3. changes' \in Seq(ChangeTypes) /\ \A k \in DOMAIN changes : k \in DOMAIN changes'
  <2>1. changes \in Seq(ChangeTypes)
    BY <1>1 DEF OpsTyped
  <2>2. ASSUME NEW c \in ChangeTypes, changes' = Append(changes, c)
        PROVE  changes' \in Seq(ChangeTypes) /\ \A k \in DOMAIN changes : k \in DOMAIN changes'
    BY <2>1, <2>2
  <2> QED
    BY <2>1, <2>2 DEF ChangesAfter
<1>4. OwnersAndChanges
  BY <1>3 DEF OwnersAndChanges
<1>5. \A k \in DOMAIN changes' :
         (k \in DOMAIN changes /\ changes'[k] = changes[k]) \/ ChangeWhole(changes[k])'
  <2>1. CASE changes' = changes
    BY <2>1
  <2>2. ASSUME NEW c \in ChangeTypes, changes' = Append(changes, c), ChangeWhole(c)
        PROVE  \A k \in DOMAIN changes' :
                  (k \in DOMAIN changes /\ changes'[k] = changes[k]) \/ ChangeWhole(changes[k])'
    <3>1. ASSUME NEW k \in DOMAIN changes', k \notin DOMAIN changes PROVE changes'[k] = c
      BY <1>1, <2>2, <3>1 DEF OpsTyped
    <3>2. \A k \in DOMAIN changes : changes'[k] = changes[k]
      BY <1>1, <2>2 DEF OpsTyped
    <3>3. ChangeWhole(c)'
      BY <1>2, <1>4, <2>2, OtherChange DEF HeldShrinks
    <3> QED
      BY <3>1, <3>2, <3>3 DEF ChangeWhole
  <2> QED
    BY <2>1, <2>2 DEF ChangesAfter
<1>6. session'[t] = s /\ \A q \in Terminals \ {t} : session'[q] = session[q]
  BY <1>1 DEF OpsTyped
<1>7. OpsTyped'
  BY <1>1, <1>3 DEF OpsTyped, PairPlaces
<1>8. Funding'
  BY <1>1, <1>6 DEF Funding, Funded, SessionAfter
<1>9. SessionInStep(session[t])'
  <2>1. Collected(s.step)' \ strays' \subseteq Collected(s.step) \ strays
    BY <1>2 DEF HeldShrinks
  <2> QED
    BY <1>6, <2>1 DEF SessionAfter, SessionInStep
<1> QED
  BY <1>4, <1>5, <1>6, <1>7, <1>8, <1>9, ScriptKeeps

LEMMA IdleTyped == Idle \in ScriptTypes
<1>1. Governor \in Places
  BY GovernorIsOne DEF Places
<1> QED
  BY <1>1, GovernorIsOne DEF Idle, ScriptTypes

LEMMA NoEntryTyped == NoEntry \in Places \X (Pairs \cup {"none"}) \X Places
BY DEF NoEntry, Places

LEMMA StartDelegateKeeps ==
    ASSUME OpsInv, UNCHANGED deployVars, NEW t \in Terminals,
           NEW g \in Governors, NEW new \in Governors, StartDelegate(t, g, new)
    PROVE  OpsInv'
<1> DEFINE s == [Idle EXCEPT !.script = "delegate", !.step = "names",
                             !.governor = g, !.newGovernor = new]
<1>1. completed = LastMigration /\ session' = [session EXCEPT ![t] = s]
  BY DEF StartDelegate, Start
<1>2. s \in ScriptTypes /\ s.step = "names" /\ s.list = {}
  BY IdleTyped DEF ScriptTypes, Places, Idle
<1>3. SessionAfter(s)
  <2> HIDE DEF s
  <2> QED
    BY <1>2 DEF SessionAfter, Collected
<1> HIDE DEF s
<1> QED
  BY <1>1, <1>2, <1>3, SessionStep DEF StartDelegate, ChangesAfter

LEMMA GotoTyped ==
    ASSUME OpsTyped, NEW t \in Terminals,
           NEW step \in {"names", "pairs", "register", "owner", "confirm", "execute", "call",
                         "send", "done", "ended"}, Goto(t, step)
    PROVE  \E s \in ScriptTypes :
              /\ session' = [session EXCEPT ![t] = s]
              /\ s.step = step /\ s.list = session[t].list /\ s.change = session[t].change
              /\ s.newGovernor = session[t].newGovernor /\ s.need = session[t].need
<1> DEFINE s == [session[t] EXCEPT !.step = step]
<1>1. session[t] \in ScriptTypes
  BY DEF OpsTyped
<1>2. s \in ScriptTypes /\ s.step = step /\ s.list = session[t].list
      /\ s.change = session[t].change /\ s.newGovernor = session[t].newGovernor
      /\ s.need = session[t].need
  BY <1>1 DEF ScriptTypes
<1>3. session' = [session EXCEPT ![t] = s]
  BY DEF Goto
<1> QED
  BY <1>2, <1>3

\* A script that stops there.
LEMMA EndsKeeps ==
    ASSUME OpsInv, UNCHANGED deployVars, completed = LastMigration, NEW t \in Terminals,
           Goto(t, "ended") \/ Goto(t, "call"),
           UNCHANGED <<ownerOf, changes, balance, funds, spent, strays>>
    PROVE  OpsInv'
<1>1. PICK s \in ScriptTypes : session' = [session EXCEPT ![t] = s] /\ s.step \in {"ended", "call"}
  BY GotoTyped DEF OpsInv
<1> QED
  BY <1>1, SessionStep DEF SessionAfter, ChangesAfter, Listing

\* Each loop of reads adds what it is about to the list.
LEMMA CollectKeeps ==
    ASSUME OpsInv, UNCHANGED deployVars, completed = LastMigration, NEW t \in Terminals,
           NEW step \in {"names", "pairs", "register"},
           NEW next \in {"pairs", "register", "owner"}, NEW found,
           Collected(next) = Collected(step) \cup found, Collect(t, step, found, next)
    PROVE  OpsInv'
<1>1. CASE \A a \in found : GovernorOf(a) = {session[t].governor}
  <2> DEFINE s == [session[t] EXCEPT !.list = session[t].list \cup found, !.step = next]
  <2>1. session[t] \in ScriptTypes /\ session[t].step = step
    BY DEF OpsInv, OpsTyped, Collect, Running
  <2>2. Collected(step) \ strays \subseteq session[t].list
    BY <2>1 DEF OpsInv, SessionsInStep, SessionInStep, Listing
  <2>3. found \subseteq Places
    <3>1. ASSUME NEW a \in found PROVE a \in Places
      <4>1. session[t].governor \in Links(a, "governor")
        BY <1>1 DEF GovernorOf
      <4>2. PICK l \in wired : l[1] = a
        BY <4>1 DEF Links
      <4>3. l[1] \in Contract \cup FoundContracts \cup {Registry}
        BY <4>2 DEF OpsInv, Operating, WiredPlaces
      <4> QED
        BY <4>2, <4>3 DEF Places
    <3> QED
      BY <3>1
  <2>4. Collected(next) \ strays \subseteq session[t].list \cup found
    BY <2>2
  <2>5. s \in ScriptTypes /\ s.step = next /\ s.list = session[t].list \cup found
    BY <2>1, <2>3 DEF ScriptTypes
  <2>6. session' = [session EXCEPT ![t] = s]
    BY <1>1 DEF Collect
  <2> HIDE DEF s
  <2>7. SessionAfter(s)
    BY <2>4, <2>5 DEF SessionAfter
  <2> QED
    BY <2>5, <2>6, <2>7, SessionStep DEF Collect, ChangesAfter
<1>2. CASE ~\A a \in found : GovernorOf(a) = {session[t].governor}
  <2>1. Goto(t, "ended")
    BY <1>2 DEF Collect, Goto
  <2> QED
    BY <2>1, EndsKeeps DEF Collect
<1> QED
  BY <1>1, <1>2

LEMMA CollectAllKeeps ==
    ASSUME OpsInv, UNCHANGED deployVars, completed = LastMigration, NEW t \in Terminals,
           CollectAll(t)
    PROVE  OpsInv'
<1>1. /\ Collected("pairs") = Collected("names") \cup {Deployed(n) : n \in ContractNames}
      /\ Collected("register") = Collected("pairs") \cup PairsOf(Deployed("OracleManager"))
      /\ Collected("owner") = Collected("register") \cup PairsOf(Deployed("PriceProviderRegister"))
  BY DEF Collected, Listed
<1>2. CASE Collect(t, "names", {Deployed(n) : n \in ContractNames}, "pairs")
  <2> DEFINE found == {Deployed(n) : n \in ContractNames}
  <2>1. Collected("pairs") = Collected("names") \cup found
    BY <1>1
  <2>2. Collect(t, "names", found, "pairs")
    BY <1>2
  <2> HIDE DEF found
  <2> QED
    BY <2>1, <2>2, CollectKeeps
<1>3. CASE Collect(t, "pairs", PairsOf(Deployed("OracleManager")), "register")
  <2> DEFINE found == PairsOf(Deployed("OracleManager"))
  <2>1. Collected("register") = Collected("pairs") \cup found
    BY <1>1
  <2>2. Collect(t, "pairs", found, "register")
    BY <1>3
  <2> HIDE DEF found
  <2> QED
    BY <2>1, <2>2, CollectKeeps
<1>4. CASE Collect(t, "register", PairsOf(Deployed("PriceProviderRegister")), "owner")
  <2> DEFINE found == PairsOf(Deployed("PriceProviderRegister"))
  <2>1. Collected("owner") = Collected("register") \cup found
    BY <1>1
  <2>2. Collect(t, "register", found, "owner")
    BY <1>4
  <2> HIDE DEF found
  <2> QED
    BY <2>1, <2>2, CollectKeeps
<1> QED
  BY <1>2, <1>3, <1>4 DEF CollectAll

LEMMA CheckNewOwnerKeeps ==
    ASSUME OpsInv, UNCHANGED deployVars, completed = LastMigration, NEW t \in Terminals,
           CheckNewOwner(t)
    PROVE  OpsInv'
<1>1. CASE ownerOf[session[t].newGovernor] = "nobody"
  BY <1>1, EndsKeeps DEF CheckNewOwner
<1>2. CASE ownerOf[session[t].newGovernor] # "nobody"
  <2>1. Collected("owner") \ strays \subseteq session[t].list
    BY DEF CheckNewOwner, Running, OpsInv, SessionsInStep, SessionInStep, Listing
  <2>2. Collected("owner") = Collected("confirm")
    BY DEF Collected
  <2>3. PICK s \in ScriptTypes :
           /\ session' = [session EXCEPT ![t] = s] /\ s.step = "confirm"
           /\ s.list = session[t].list /\ s.newGovernor = session[t].newGovernor
    BY <1>2, GotoTyped DEF OpsInv, CheckNewOwner
  <2>4. SessionAfter(s)
    BY <1>2, <2>1, <2>2, <2>3 DEF SessionAfter
  <2> QED
    BY <2>3, <2>4, SessionStep DEF CheckNewOwner, ChangesAfter
<1> QED
  BY <1>1, <1>2

LEMMA ConfirmKeeps ==
    ASSUME OpsInv, UNCHANGED deployVars, completed = LastMigration, NEW t \in Terminals,
           Confirm(t)
    PROVE  OpsInv'
<1>1. CASE Goto(t, "ended") /\ UNCHANGED changes
  BY <1>1, EndsKeeps DEF Confirm
<1>2. CASE /\ changes' = Append(changes, Change("governor", session[t].list, session[t].newGovernor))
           /\ session' = [session EXCEPT ![t].change = Len(changes) + 1, ![t].step = "execute"]
  <2> DEFINE c == Change("governor", session[t].list, session[t].newGovernor)
             s == [session[t] EXCEPT !.change = Len(changes) + 1, !.step = "execute"]
  <2>1. /\ session[t] \in ScriptTypes /\ session[t].step = "confirm"
        /\ changes \in Seq(ChangeTypes) /\ session \in [Terminals -> ScriptTypes]
    BY DEF OpsInv, OpsTyped, Confirm, Running
  <2>2. Held \subseteq session[t].list /\ ownerOf[session[t].newGovernor] # "nobody"
    BY <2>1 DEF OpsInv, SessionsInStep, SessionInStep, Collected, Held, Listing
  <2>3. session[t].list \in SUBSET Places /\ session[t].newGovernor \in Governors
    BY <2>1 DEF ScriptTypes
  <2>4. c \in ChangeTypes /\ ChangeWhole(c)
    BY <2>2, <2>3, NoEntryTyped DEF Change, ChangeTypes, ChangeWhole, Places
  <2>5. s \in ScriptTypes /\ s.step = "execute" /\ s.change = Len(changes) + 1
    <3>1. Len(changes) + 1 \in Nat
      BY <2>1
    <3> QED
      BY <2>1, <3>1 DEF ScriptTypes
  <2>6. session' = [session EXCEPT ![t] = s]
    BY <1>2, <2>1
  <2>7. changes' = Append(changes, c)
    BY <1>2
  <2> HIDE DEF s, c
  <2>8. SessionAfter(s) /\ ChangesAfter
    BY <2>1, <2>4, <2>5, <2>7 DEF SessionAfter, ChangesAfter, Listing
  <2> QED
    BY <2>5, <2>6, <2>8, SessionStep DEF Confirm
<1> QED
  BY <1>1, <1>2 DEF Confirm

LEMMA StartExecuteKeeps ==
    ASSUME OpsInv, UNCHANGED deployVars, NEW t \in Terminals, NEW g \in Governors,
           NEW k \in DOMAIN changes, StartExecute(t, g, k)
    PROVE  OpsInv'
<1> DEFINE s == [Idle EXCEPT !.script = "execute", !.step = "execute", !.governor = g, !.change = k]
<1>1. completed = LastMigration /\ session' = [session EXCEPT ![t] = s]
  BY DEF StartExecute, Start
<1>2. changes \in Seq(ChangeTypes)
  BY DEF OpsInv, OpsTyped
<1>3. k \in Nat
  BY <1>2
<1>4. s \in ScriptTypes /\ s.step = "execute" /\ s.change = k
  BY <1>3, IdleTyped DEF ScriptTypes, Places, Idle
<1> HIDE DEF s
<1>5. SessionAfter(s)
  BY <1>4 DEF SessionAfter, StartExecute, Listing
<1> QED
  BY <1>1, <1>4, <1>5, SessionStep DEF StartExecute, ChangesAfter

\* A change of anything but the governor is deployed.
LEMMA NewChangeKeeps ==
    ASSUME OpsInv, UNCHANGED deployVars, NEW t \in Terminals,
           NEW c \in ChangeTypes, c.kind # "governor", ChangeWhole(c), changes' = Append(changes, c),
           NEW s, Start(t, s), Len(changes) + 1 \in Nat => s \in ScriptTypes,
           s.step \in {"execute", "call"}, s.change = Len(changes) + 1,
           UNCHANGED <<ownerOf, balance, funds, spent, strays>>
    PROVE  OpsInv'
<1>1. completed = LastMigration /\ session' = [session EXCEPT ![t] = s]
  BY DEF Start
<1>2. changes \in Seq(ChangeTypes)
  BY DEF OpsInv, OpsTyped
<1>3. Len(changes) + 1 \in Nat /\ Len(changes) + 1 \in DOMAIN changes'
  BY <1>2
<1>4. SessionAfter(s) /\ ChangesAfter
  BY <1>3 DEF SessionAfter, ChangesAfter, Listing
<1> QED
  BY <1>1, <1>3, <1>4, SessionStep

LEMMA StartImplementationKeeps ==
    ASSUME OpsInv, UNCHANGED deployVars, NEW t \in Terminals, StartImplementation(t)
    PROVE  OpsInv'
<1> DEFINE d == Deployed("UpgradeDelegator")
<1>1. PICK g \in GovernorOf(d) :
         /\ changes' = Append(changes, Change("implementation", {d}, g))
         /\ Start(t, [Idle EXCEPT !.script = "implementation", !.step = "execute",
                                  !.governor = g, !.change = Len(changes) + 1])
         /\ UNCHANGED <<ownerOf, balance, funds, spent, strays>>
  BY DEF StartImplementation
<1> HIDE DEF d
<1>2. WiredPlaces
  BY <1>1 DEF Start, OpsInv, Operating
<1>3. PICK l \in wired : l[1] = d /\ l[3] = g
  BY <1>1 DEF GovernorOf, Links
<1>4. d \in Places /\ g \in Places
  <2>1. l[1] \in Contract \cup FoundContracts \cup {Registry} /\ l[3] \in Places
    BY <1>2, <1>3 DEF WiredPlaces
  <2> QED
    BY <1>3, <2>1 DEF Places
<1> DEFINE c == Change("implementation", {d}, g)
<1>5. c \in ChangeTypes /\ c.kind # "governor" /\ ChangeWhole(c)
  BY <1>4, NoEntryTyped DEF Change, ChangeTypes, ChangeWhole
<1>6. changes' = Append(changes, c)
  BY <1>1
<1> DEFINE s == [Idle EXCEPT !.script = "implementation", !.step = "execute",
                             !.governor = g, !.change = Len(changes) + 1]
<1>7. /\ Len(changes) + 1 \in Nat => s \in ScriptTypes
      /\ s.step = "execute" /\ s.change = Len(changes) + 1
  BY <1>4, IdleTyped DEF ScriptTypes, Idle
<1>8. Start(t, s)
  BY <1>1
<1> HIDE DEF c, s
<1> QED
  BY <1>1, <1>5, <1>6, <1>7, <1>8, NewChangeKeeps

LEMMA RegisterPlaces ==
    ASSUME recorded \in [Aliases -> 0..MaxAttempts]
    PROVE  /\ {Deployed("OracleManager"), Deployed("PriceProviderRegister")} \subseteq Contract \cap Places
           /\ \A p \in Pairs : PairContracts(p) \subseteq PairPlaces
           /\ PairPlaces \subseteq Places
<1>1. ASSUME NEW c \in {"OracleManager", "PriceProviderRegister"} PROVE Deployed(c) \in Contract
  <2>1. <<c, "none">> \in Aliases
    BY AliasNames DEF Single
  <2>2. recorded[<<c, "none">>] \in 0..MaxAttempts
    BY <2>1
  <2> QED
    BY <2>1, <2>2 DEF Deployed, Single, Proxy, Addr, Contract
<1>2. ASSUME NEW p \in Pairs
      PROVE  /\ recorded[<<"CoinPairPrice", p>>] \in 0..MaxAttempts
             /\ \A n \in 0..MaxAttempts : <<"CoinPairPrice", p, n>> \in Contract
  <2>1. <<"CoinPairPrice", p>> \in Aliases
    BY AliasNames DEF PerPair
  <2> QED
    BY <2>1 DEF Contract
<1>3. ASSUME NEW p \in Pairs, NEW a \in PairContracts(p) PROVE a \in PairPlaces
  <2> DEFINE n == recorded[<<"CoinPairPrice", p>>]
  <2>1. a = <<"CoinPairPrice", p, n>> \/ a \in {<<m, "none", 1>> : m \in NewPairs}
    BY DEF PairContracts
  <2>2. n \in 0..MaxAttempts
    BY <1>2
  <2> HIDE DEF n
  <2>3. <<"CoinPairPrice", p, n>> \in {<<"CoinPairPrice", q, k>> : q \in Pairs, k \in 0..MaxAttempts}
    BY <2>2
  <2> QED
    BY <2>1, <2>3 DEF PairPlaces
<1>4. \A n \in NewPairs : <<n, "none", 1>> \in FoundContracts
  BY FoundAssumption DEF FoundContracts
<1>5. ASSUME NEW a \in PairPlaces PROVE a \in Places
  <2>1. CASE a \in {<<"CoinPairPrice", p, n>> : p \in Pairs, n \in 0..MaxAttempts}
    <3>1. PICK p \in Pairs, n \in 0..MaxAttempts : a = <<"CoinPairPrice", p, n>>
      BY <2>1
    <3> QED
      BY <1>2, <3>1 DEF Places
  <2>2. CASE a \in {<<n, "none", 1>> : n \in NewPairs}
    BY <1>4, <2>2 DEF Places
  <2> QED
    BY <2>1, <2>2 DEF PairPlaces
<1>6. {Deployed("OracleManager"), Deployed("PriceProviderRegister")} \subseteq Contract \cap Places
  BY <1>1 DEF Places
<1> QED
  BY <1>3, <1>5, <1>6

LEMMA StartRunKeeps ==
    ASSUME OpsInv, UNCHANGED deployVars, NEW t \in Terminals,
           NEW c \in SettingChanges \cup PairChanges, StartRun(t, c)
    PROVE  OpsInv'
<1>1. completed = LastMigration /\ WiredPlaces /\ recorded \in [Aliases -> 0..MaxAttempts]
  BY DEF StartRun, Start, OpsInv, Operating
<1>2. Governor \in Places /\ Zero \in Places
  BY GovernorIsOne DEF Places
<1>3. ASSUME NEW a \in RunTargets, c = Change("setting", {a}, Governor)
      PROVE  c \in ChangeTypes /\ c.kind # "governor" /\ ChangeWhole(c)
  <2>1. ASSUME NEW p, a \in Links(Deployed("OracleManager"), p) PROVE a \in Places
    <3>1. PICK l \in wired : l[3] = a
      BY <2>1 DEF Links
    <3> QED
      BY <1>1, <3>1 DEF WiredPlaces
  <2>2. a \in Places
    BY <1>1, <1>2, <2>1, RegisterPlaces DEF RunTargets
  <2> QED
    BY <1>2, <1>3, <2>2, NoEntryTyped DEF Change, ChangeTypes, ChangeWhole
<1>4. ASSUME NEW kind \in {"register", "unregister"}, NEW p \in Pairs, NEW a \in PairPlaces \cup {Zero},
             NEW r \in {Deployed("OracleManager"), Deployed("PriceProviderRegister")},
             kind = "register" => a \in PairPlaces, c = PairChange(kind, r, p, a)
      PROVE  c \in ChangeTypes /\ c.kind # "governor" /\ ChangeWhole(c)
  <2> DEFINE entry == <<r, p, a>>
  <2>1. entry[1] = r /\ entry[3] = a /\ r \in Places /\ a \in Places
    BY <1>1, <1>2, RegisterPlaces
  <2>2. entry \in Entries /\ entry \in Places \X (Pairs \cup {"none"}) \X Places
    BY <2>1 DEF Entries
  <2>3. c = [kind |-> kind, targets |-> {r}, newGovernor |-> Governor, entry |-> entry,
             executed |-> FALSE]
    BY <1>4 DEF PairChange, Change
  <2> HIDE DEF entry
  <2>4. c \in ChangeTypes /\ c.kind = kind /\ c.targets = {r} /\ c.entry = entry
    BY <1>2, <2>1, <2>2, <2>3 DEF ChangeTypes
  <2> QED
    BY <1>4, <2>1, <2>2, <2>4 DEF ChangeWhole
<1>5. c \in ChangeTypes /\ c.kind # "governor" /\ ChangeWhole(c)
  <2>1. CASE c \in SettingChanges
    BY <1>3, <2>1 DEF SettingChanges
  <2>2. ASSUME NEW p \in Pairs, NEW a \in PairContracts(p),
               NEW r \in {"OracleManager", "PriceProviderRegister"},
               c = PairChange("register", Deployed(r), p, a)
        PROVE  c \in ChangeTypes /\ c.kind # "governor" /\ ChangeWhole(c)
    <3>1. a \in PairPlaces
      BY <1>1, RegisterPlaces
    <3> QED
      BY <1>4, <2>2, <3>1
  <2>3. ASSUME NEW p \in Pairs, c = PairChange("unregister", Deployed("OracleManager"), p, Zero)
        PROVE  c \in ChangeTypes /\ c.kind # "governor" /\ ChangeWhole(c)
    BY <1>4, <2>3
  <2>4. CASE c \in PairChanges
    <3> DEFINE A == UNION {Registrations(p) : p \in Pairs}
               B == {PairChange("unregister", Deployed("OracleManager"), p, Zero) : p \in Pairs}
    <3>1. PairChanges = A \cup B
      BY DEF PairChanges
    <3>2. ASSUME NEW p \in Pairs, c \in Registrations(p)
          PROVE  c \in ChangeTypes /\ c.kind # "governor" /\ ChangeWhole(c)
      BY <2>2, <3>2 DEF Registrations
    <3>3. CASE c \in A
      <4>1. PICK S \in {Registrations(p) : p \in Pairs} : c \in S
        BY <3>3
      <4>2. PICK p \in Pairs : S = Registrations(p)
        BY <4>1
      <4> QED
        BY <3>2, <4>1, <4>2
    <3>4. CASE c \in B
      BY <2>3, <3>4
    <3> HIDE DEF A, B
    <3> QED
      BY <2>4, <3>1, <3>3, <3>4
  <2> QED
    BY <2>1, <2>4
<1> DEFINE s == [Idle EXCEPT !.script = "run", !.step = "call", !.change = Len(changes) + 1]
<1>6. /\ Len(changes) + 1 \in Nat => s \in ScriptTypes
      /\ s.step = "call" /\ s.change = Len(changes) + 1
  BY IdleTyped DEF ScriptTypes, Idle
<1>7. changes' = Append(changes, c) /\ Start(t, s)
      /\ UNCHANGED <<ownerOf, balance, funds, spent, strays>>
  BY DEF StartRun
<1> HIDE DEF s
<1> QED
  BY <1>5, <1>6, <1>7, NewChangeKeeps

-----------------------------------------------------------------------------
(***************************************************************************)
(* The steps that move money.                                              *)
(***************************************************************************)
\* These deploy no change, and read nothing of the contracts.
LEMMA TopUpStep ==
    ASSUME OpsInv, completed = LastMigration, UNCHANGED <<deployVars, ownerOf, changes, strays>>,
           OpsTyped', Funding',
           \A t \in Terminals :
              session'[t] = session[t] \/ session'[t].step \in {"send", "done", "ended"}
    PROVE  OpsInv'
<1>1. OwnersAndChanges
  BY DEF OwnersAndChanges
<1>2. \A k \in DOMAIN changes' :
         (k \in DOMAIN changes /\ changes'[k] = changes[k]) \/ ChangeWhole(changes[k])'
  OBVIOUS
<1>3. \A t \in Terminals : session'[t] = session[t] \/ SessionInStep(session[t])'
  BY DEF SessionInStep, Listing
<1> QED
  BY <1>1, <1>2, <1>3, ScriptKeeps

LEMMA LacksEnough ==
    ASSUME NEW b \in Nat
    PROVE  Lacks(b) \in Nat /\ b + Lacks(b) >= EACH_NEEDED
BY ScriptsAssumption DEF Lacks

LEMMA StartTopUpKeeps ==
    ASSUME OpsInv, UNCHANGED deployVars, NEW t \in Terminals, StartTopUp(t)
    PROVE  OpsInv'
<1> DEFINE need == [x \in Servers |-> Lacks(balance[x])]
           s == [Idle EXCEPT !.script = "topup", !.step = "send", !.need = need]
<1>1. /\ completed = LastMigration /\ session' = [session EXCEPT ![t] = s]
      /\ spent' = [spent EXCEPT ![t] = [x \in Servers |-> 0]]
      /\ UNCHANGED <<ownerOf, changes, balance, funds, strays>>
  BY DEF StartTopUp, Start
<1>2. OpsTyped /\ Funding
  BY DEF OpsInv
<1>3. need \in [Servers -> Nat] /\ \A x \in Servers : balance[x] + need[x] >= EACH_NEEDED
  BY <1>2, LacksEnough DEF OpsTyped
<1> HIDE DEF need
<1>4. s \in ScriptTypes /\ s.step = "send" /\ s.need = need
  BY <1>3, IdleTyped DEF ScriptTypes, Idle
<1> HIDE DEF s
<1>5. /\ session'[t] = s /\ \A q \in Terminals \ {t} : session'[q] = session[q]
      /\ spent'[t] = [x \in Servers |-> 0] /\ \A q \in Terminals \ {t} : spent'[q] = spent[q]
  BY <1>1, <1>2 DEF OpsTyped
<1>6. OpsTyped'
  BY <1>1, <1>2, <1>4 DEF OpsTyped
<1>7. Funding'
  <2>1. Funded(t)'
    BY <1>1, <1>2, <1>3, <1>4, <1>5 DEF Funded, OpsTyped
  <2>2. \A q \in Terminals \ {t} : Funded(q)'
    BY <1>1, <1>2, <1>5 DEF Funded, Funding
  <2> QED
    BY <2>1, <2>2 DEF Funding
<1> QED
  BY <1>1, <1>4, <1>5, <1>6, <1>7, TopUpStep

LEMMA TransferKeeps ==
    ASSUME OpsInv, UNCHANGED deployVars, completed = LastMigration, NEW t \in Terminals,
           NEW s \in Servers, Transfer(t, s)
    PROVE  OpsInv'
<1> DEFINE n == session[t].need[s]
           need == [session[t].need EXCEPT ![s] = 0]
           r == [session[t] EXCEPT !.need = need]
<1>1. OpsTyped /\ Funding
  BY DEF OpsInv
<1>2. session[t] \in ScriptTypes /\ session[t].step = "send"
  BY <1>1 DEF Transfer, Running, OpsTyped
<1>3. session[t].need \in [Servers -> Nat] /\ n \in Nat
  BY <1>2 DEF ScriptTypes
<1>4. r \in ScriptTypes /\ r.step = "send" /\ r.need = need
  BY <1>2, <1>3 DEF ScriptTypes
<1>5. session' = [session EXCEPT ![t] = r]
  BY DEF Transfer
<1>6. n <= funds /\ funds' = funds - n /\ balance' = [balance EXCEPT ![s] = @ + n]
      /\ UNCHANGED <<ownerOf, changes, spent, strays>>
  BY <1>1 DEF Transfer, OpsTyped
<1>7. need[s] = 0 /\ \A x \in Servers \ {s} : need[x] = session[t].need[x]
  BY <1>3
<1> HIDE DEF r, need
<1>8. session'[t] = r /\ \A q \in Terminals \ {t} : session'[q] = session[q]
  BY <1>1, <1>5 DEF OpsTyped
<1>9. balance'[s] = balance[s] + n /\ \A x \in Servers \ {s} : balance'[x] = balance[x]
  BY <1>1, <1>6 DEF OpsTyped
<1>10. OpsTyped'
  <2>1. funds' \in Nat /\ balance' \in [Servers -> Nat]
    BY <1>1, <1>3, <1>6 DEF OpsTyped
  <2> QED
    BY <1>1, <1>4, <1>5, <1>6, <2>1 DEF OpsTyped
<1>11. Funding'
  <2>1. Funded(t)'
    <3>1. ASSUME NEW x \in Servers
          PROVE  balance'[x] + spent'[t][x] + r.need[x] >= EACH_NEEDED
      <4>1. balance[x] + spent[t][x] + session[t].need[x] >= EACH_NEEDED
        BY <1>1, <1>2 DEF Funding, Funded
      <4>2. balance[x] \in Nat /\ spent[t][x] \in Nat /\ session[t].need[x] \in Nat
        BY <1>1, <1>3 DEF OpsTyped
      <4> QED
        BY <1>3, <1>4, <1>6, <1>7, <1>9, <4>1, <4>2
    <3> QED
      BY <1>4, <1>8, <3>1 DEF Funded
  <2>2. ASSUME NEW q \in Terminals \ {t} PROVE Funded(q)'
    <3>1. ASSUME NEW x \in Servers, session[q].step \in {"send", "done"}
          PROVE  balance'[x] + spent[q][x] + session[q].need[x] >= EACH_NEEDED
      <4>1. balance[x] + spent[q][x] + session[q].need[x] >= EACH_NEEDED
        BY <1>1, <3>1 DEF Funding, Funded
      <4>2. balance[x] \in Nat /\ spent[q][x] \in Nat /\ session[q].need[x] \in Nat
        BY <1>1 DEF OpsTyped, ScriptTypes
      <4>3. balance'[x] = balance[x] \/ balance'[x] = balance[x] + n
        BY <1>9
      <4> HIDE DEF n
      <4> QED
        BY <1>3, <4>1, <4>2, <4>3, ScriptsAssumption
    <3> QED
      BY <1>1, <1>6, <1>8, <3>1 DEF Funded, Funding
  <2> QED
    BY <2>1, <2>2 DEF Funding
<1> QED
  BY <1>4, <1>6, <1>8, <1>10, <1>11, TopUpStep

LEMMA EndTopUpKeeps ==
    ASSUME OpsInv, UNCHANGED deployVars, completed = LastMigration, NEW t \in Terminals,
           EndTopUp(t)
    PROVE  OpsInv'
<1>1. CASE Goto(t, "ended")
  BY <1>1, EndsKeeps DEF EndTopUp
<1>2. CASE (\A x \in Servers : session[t].need[x] = 0) /\ Goto(t, "done")
  <2>1. OpsTyped /\ Funding
    BY DEF OpsInv
  <2>2. PICK s \in ScriptTypes :
           session' = [session EXCEPT ![t] = s] /\ s.step = "done" /\ s.need = session[t].need
    BY <1>2, <2>1, GotoTyped
  <2>3. session'[t] = s /\ \A q \in Terminals \ {t} : session'[q] = session[q]
    BY <2>1, <2>2 DEF OpsTyped
  <2>4. UNCHANGED <<ownerOf, changes, balance, funds, spent, strays>> /\ session[t].step = "send"
    BY DEF EndTopUp, Running
  <2>5. OpsTyped'
    BY <2>1, <2>2, <2>4 DEF OpsTyped
  <2>6. Funding'
    BY <1>2, <2>1, <2>2, <2>3, <2>4 DEF Funding, Funded
  <2> QED
    BY <2>2, <2>3, <2>4, <2>5, <2>6, TopUpStep
<1> QED
  BY <1>1, <1>2 DEF EndTopUp

LEMMA CloseTerminalKeeps ==
    ASSUME OpsInv, UNCHANGED deployVars, completed = LastMigration, NEW t \in Terminals,
           CloseTerminal(t)
    PROVE  OpsInv'
<1>1. SessionAfter(Idle)
  BY DEF SessionAfter, Idle, Listing
<1> QED
  BY <1>1, IdleTyped, SessionStep DEF CloseTerminal, ChangesAfter

LEMMA ConfigureGovernorKeeps ==
    ASSUME OpsInv, UNCHANGED deployVars, NEW g \in Governors, ConfigureGovernor(g)
    PROVE  OpsInv'
<1>1. PICK o \in {"foundation", "newOwner"} : ownerOf' = [ownerOf EXCEPT ![g] = o]
  BY DEF ConfigureGovernor
<1>2. completed = LastMigration /\ UNCHANGED <<changes, session, balance, funds, spent, strays>>
  BY DEF ConfigureGovernor
<1>3. OpsTyped /\ Funding
  BY DEF OpsInv
<1>4. OpsTyped'
  BY <1>1, <1>2, <1>3 DEF OpsTyped
<1>5. Funding'
  BY <1>2, <1>3 DEF Funding, Funded
<1>6. OwnersAndChanges
  BY <1>1, <1>2, <1>3 DEF OwnersAndChanges, OpsTyped
<1> QED
  BY <1>2, <1>4, <1>5, <1>6, ScriptKeeps

LEMMA PayGasKeeps ==
    ASSUME OpsInv, UNCHANGED deployVars, completed = LastMigration, NEW s \in Servers, PayGas(s)
    PROVE  OpsInv'
<1>1. UNCHANGED <<ownerOf, changes, session, funds, strays>>
  BY DEF PayGas
<1>2. OpsTyped /\ Funding
  BY DEF OpsInv
<1>3. balance' = [balance EXCEPT ![s] = @ - 1] /\ balance[s] > 0
  BY DEF PayGas
<1>4. spent' = [t \in Terminals |-> [spent[t] EXCEPT ![s] = @ + 1]]
  BY DEF PayGas
<1>5. /\ balance'[s] = balance[s] - 1 /\ \A x \in Servers \ {s} : balance'[x] = balance[x]
      /\ balance[s] \in Nat /\ balance[s] - 1 \in Nat
  BY <1>2, <1>3 DEF OpsTyped
<1>6. balance' \in [Servers -> Nat]
  BY <1>2, <1>3, <1>5 DEF OpsTyped
<1>7. ASSUME NEW t \in Terminals
      PROVE  /\ spent'[t] \in [Servers -> Nat] /\ spent'[t][s] = spent[t][s] + 1
             /\ \A x \in Servers \ {s} : spent'[t][x] = spent[t][x]
  <2>1. spent[t] \in [Servers -> Nat] /\ spent[t][s] \in Nat
    BY <1>2 DEF OpsTyped
  <2>2. spent'[t] = [spent[t] EXCEPT ![s] = spent[t][s] + 1]
    BY <1>4
  <2> QED
    BY <2>1, <2>2
<1>8. spent' \in [Terminals -> [Servers -> Nat]]
  BY <1>4, <1>7
<1>9. OpsTyped'
  BY <1>1, <1>2, <1>6, <1>8 DEF OpsTyped
<1>10. Funding'
  <2>1. ASSUME NEW t \in Terminals, NEW x \in Servers
        PROVE  balance'[x] + spent'[t][x] = balance[x] + spent[t][x]
    <3>1. spent[t][x] \in Nat /\ balance[x] \in Nat
      BY <1>2 DEF OpsTyped
    <3> QED
      BY <1>5, <1>7, <3>1
  <2> QED
    BY <1>1, <1>2, <2>1 DEF Funding, Funded
<1> QED
  BY <1>1, <1>9, <1>10, TopUpStep

LEMMA ScriptStepKeeps ==
    ASSUME OpsInv, ScriptStep, UNCHANGED deployVars
    PROVE  OpsInv'
<1>1. completed = LastMigration
  BY ScriptsFinished DEF OpsInv
<1>2. ASSUME NEW t \in Terminals, NEW g \in Governors, NEW new \in Governors,
             StartDelegate(t, g, new)
      PROVE  OpsInv'
  BY <1>2, StartDelegateKeeps
<1>3. ASSUME NEW t \in Terminals, CollectAll(t) PROVE OpsInv'
  BY <1>1, <1>3, CollectAllKeeps
<1>4. ASSUME NEW t \in Terminals, CheckNewOwner(t) PROVE OpsInv'
  BY <1>1, <1>4, CheckNewOwnerKeeps
<1>5. ASSUME NEW t \in Terminals, Confirm(t) PROVE OpsInv'
  BY <1>1, <1>5, ConfirmKeeps
<1>6. ASSUME NEW t \in Terminals, NEW g \in Governors, NEW k \in DOMAIN changes,
             StartExecute(t, g, k)
      PROVE  OpsInv'
  BY <1>6, StartExecuteKeeps
<1>7. ASSUME NEW t \in Terminals, StartImplementation(t) PROVE OpsInv'
  BY <1>7, StartImplementationKeeps
<1>8. ASSUME NEW t \in Terminals, NEW c \in SettingChanges \cup PairChanges, StartRun(t, c)
      PROVE  OpsInv'
  BY <1>8, StartRunKeeps
<1>9. ASSUME NEW t \in Terminals, CallPromise(t) PROVE OpsInv'
  BY <1>1, <1>9, EndsKeeps DEF CallPromise
<1>10. ASSUME NEW t \in Terminals, StartTopUp(t) PROVE OpsInv'
  BY <1>10, StartTopUpKeeps
<1>11. ASSUME NEW t \in Terminals, EndTopUp(t) PROVE OpsInv'
  BY <1>1, <1>11, EndTopUpKeeps
<1>12. ASSUME NEW t \in Terminals, CloseTerminal(t) PROVE OpsInv'
  BY <1>1, <1>12, CloseTerminalKeeps
<1>13. ASSUME NEW t \in Terminals, NEW s \in Servers, Transfer(t, s) PROVE OpsInv'
  BY <1>1, <1>13, TransferKeeps
<1>14. ASSUME NEW g \in Governors, ConfigureGovernor(g) PROVE OpsInv'
  BY <1>14, ConfigureGovernorKeeps
<1>15. ASSUME NEW s \in Servers, PayGas(s) PROVE OpsInv'
  BY <1>1, <1>15, PayGasKeeps
<1> QED
  BY <1>2, <1>3, <1>4, <1>5, <1>6, <1>7, <1>8, <1>9, <1>10, <1>11, <1>12, <1>13, <1>14, <1>15
  DEF ScriptStep

-----------------------------------------------------------------------------
(***************************************************************************)
(* A change that a governor executes.                                      *)
(***************************************************************************)
\* The entry of a change of pairs: a register, a pair and, when it is registered, a
\* contract that is no register.
LEMMA EntryFits ==
    ASSUME recorded \in [Aliases -> 0..MaxAttempts], NEW c, ChangeWhole(c),
           c.kind \in {"register", "unregister"}
    PROVE  /\ c.entry = <<c.entry[1], c.entry[2], c.entry[3]>>
           /\ c.entry[1] \in Contract /\ c.entry[1] \in Listed /\ c.entry[1] \notin PairPlaces
           /\ c.entry[2] \in Pairs /\ c.entry[2] # "governor" /\ c.targets = {c.entry[1]}
           /\ c.kind = "register" => c.entry[3] \in PairPlaces /\ c.entry[3] \in Places
<1>1. c.entry \in Entries /\ c.targets = {c.entry[1]}
      /\ (c.kind = "register" => c.entry[3] \in PairPlaces)
  BY DEF ChangeWhole
<1>2. /\ c.entry = <<c.entry[1], c.entry[2], c.entry[3]>> /\ c.entry[2] \in Pairs
      /\ c.entry[1] \in {Deployed("OracleManager"), Deployed("PriceProviderRegister")}
  BY <1>1 DEF Entries
<1>3. c.entry[2] # "governor"
  BY <1>2, NamesAssumption DEF LinkNames
<1>4. c.entry[1] \in Contract /\ PairPlaces \subseteq Places
  BY <1>2, RegisterPlaces
<1>5. c.entry[1] \in Listed
  BY <1>2 DEF Listed, PairsOf
<1>6. c.entry[1][1] \in {"OracleManager", "PriceProviderRegister"}
  BY <1>2 DEF Deployed, Single, Proxy, Addr
<1>7. \A a \in PairPlaces : a[1] = "CoinPairPrice" \/ a[1] \in NewPairs
  BY DEF PairPlaces
<1>8. NewPairs \cap {"OracleManager", "PriceProviderRegister"} = {}
  BY FoundAssumption, NamesAssumption DEF Single
<1>9. c.entry[1] \notin PairPlaces
  BY <1>6, <1>7, <1>8
<1> QED
  BY <1>1, <1>2, <1>3, <1>4, <1>5, <1>9

\* A change of pairs leaves the governors alone.
LEMMA GovernorsStay ==
    ASSUME \A l : l[2] = "governor" => (l \in wired' <=> l \in wired)
    PROVE  \A a : GovernorOf(a)' = GovernorOf(a)
BY DEF GovernorOf, Links

\* What is listed grows by the contract a pair is registered with.
LEMMA ListedGrows ==
    ASSUME recorded' = recorded, NEW e, wired' = wired \cup {e}
    PROVE  /\ Listed' \subseteq Listed \cup {e[3]}
           /\ \A step : Collected(step)' \subseteq Collected(step) \cup {e[3]}
<1>1. \A n : Deployed(n)' = Deployed(n)
  BY DEF Deployed, Proxy, Addr
<1>2. \A a, q : Links(a, q)' \subseteq Links(a, q) \cup {e[3]}
  BY DEF Links
<1>3. \A a : PairsOf(a)' \subseteq PairsOf(a) \cup {e[3]}
  BY <1>2 DEF PairsOf
<1>4. Listed' \subseteq Listed \cup {e[3]}
  BY <1>1, <1>3 DEF Listed
<1>5. PairsOf(Deployed("OracleManager"))' \subseteq PairsOf(Deployed("OracleManager")) \cup {e[3]}
  BY <1>1, <1>3
<1>6. ASSUME NEW step PROVE Collected(step)' \subseteq Collected(step) \cup {e[3]}
  BY <1>1, <1>4, <1>5 DEF Collected
<1> QED
  BY <1>4, <1>6

\* The links after a change of the governor.
LEMMA GovernorMoves ==
    ASSUME Operating, completed = LastMigration, UNCHANGED <<mode, recorded, completed, ownerOf, strays>>,
           NEW targets, NEW g, NEW new \in Governors, ownerOf[new] # "nobody",
           Held \subseteq targets, \A a \in targets : GovernorOf(a) = {g},
           wired' = {l \in wired : l[1] \notin targets \/ l[2] # "governor"}
                      \cup {<<a, "governor", new>> : a \in targets}
    PROVE  Operating' /\ HeldShrinks
<1> DEFINE Kept == {l \in wired : l[1] \notin targets \/ l[2] # "governor"}
           Added == {<<a, "governor", new>> : a \in targets}
<1>1. \A l \in Added : l[1] \in targets /\ l[2] = "governor" /\ l[3] = new
  OBVIOUS
<1>2. \A l \in Kept : l \in wired /\ (l[1] \notin targets \/ l[2] # "governor")
  OBVIOUS
<1>3. WiredPlaces /\ Owned
  BY DEF Operating
<1>4. ASSUME NEW a \in targets
      PROVE  <<a, "governor", new>> \in Added /\ a \in Contract \cup FoundContracts \cup {Registry}
  <2>1. g \in Links(a, "governor")
    BY DEF GovernorOf
  <2>2. PICK l \in wired : l[1] = a
    BY <2>1 DEF Links
  <2>3. l[1] \in Contract \cup FoundContracts \cup {Registry}
    BY <1>3, <2>2 DEF WiredPlaces
  <2> QED
    BY <2>2, <2>3
<1>5. Added \subseteq (Contract \cup FoundContracts \cup {Registry}) \X Roles \X Places
  <2>1. "governor" \in Roles /\ new \in Places
    BY DEF Roles, LinkNames, Places
  <2> QED
    BY <1>4, <2>1
<1>6. wired' = Kept \cup Added
  OBVIOUS
<1> HIDE DEF Kept, Added
<1>7. HeldShrinks
  <2>1. \A l : l[2] # "governor" => (l \in wired' => l \in wired)
    BY <1>1, <1>2, <1>6
  <2> QED
    BY <2>1, ListedStays DEF HeldShrinks, Held
<1>8. ASSUME NEW a \in targets PROVE GovernorOf(a)' = {new}
  <2> DEFINE l0 == <<a, "governor", new>>
  <2>1. l0 \in wired' /\ l0[1] = a /\ l0[2] = "governor" /\ l0[3] = new
    BY <1>4, <1>6
  <2> HIDE DEF l0
  <2>2. \A l \in wired' : l[1] = a /\ l[2] = "governor" => l[3] = new
    BY <1>1, <1>2, <1>6
  <2>3. GovernorOf(a)' = {l[3] : l \in {q \in wired' : q[1] = a /\ q[2] = "governor"}}
    BY DEF GovernorOf, Links
  <2> QED
    BY <2>1, <2>2, <2>3
<1>9. Together'
  BY <1>7, <1>8 DEF Together, HeldShrinks
<1>10. WiredPlaces'
  BY <1>2, <1>3, <1>5, <1>6 DEF WiredPlaces
<1>11. Owned'
  BY <1>1, <1>2, <1>3, <1>6 DEF Owned
<1> QED
  BY <1>7, <1>9, <1>10, <1>11 DEF Operating

\* One element of a sequence is replaced.
LEMMA ElementReplaced ==
    ASSUME NEW S, NEW q \in Seq(S), NEW k \in DOMAIN q, NEW d \in S,
           NEW e, e = [q EXCEPT ![k] = d]
    PROVE  /\ e \in Seq(S) /\ DOMAIN e = DOMAIN q /\ e[k] = d
           /\ \A j \in DOMAIN q \ {k} : e[j] = q[j]
<1>1. e \in Seq(S)
  OBVIOUS
<1>2. DOMAIN e = DOMAIN q
  OBVIOUS
<1>3. e[k] = d /\ \A j \in DOMAIN q \ {k} : e[j] = q[j]
  OBVIOUS
<1> QED
  BY <1>1, <1>2, <1>3

\* The links after a pair is unregistered.
LEMMA PairLeaves ==
    ASSUME Operating, completed = LastMigration, UNCHANGED <<mode, recorded, completed, ownerOf, strays>>,
           NEW r, NEW p, p # "governor", wired' = {l \in wired : l[1] # r \/ l[2] # p}
    PROVE  Operating' /\ HeldShrinks
<1>1. wired' \subseteq wired /\ \A l : l[2] = "governor" => (l \in wired' <=> l \in wired)
  OBVIOUS
<1>2. HeldShrinks
  <2>1. \A a, q : Links(a, q)' \subseteq Links(a, q)
    BY <1>1 DEF Links
  <2> QED
    BY <2>1, ListedShrinks DEF HeldShrinks, Held
<1>3. \A a : GovernorOf(a)' = GovernorOf(a)
  BY <1>1, GovernorsStay
<1>4. Together'
  BY <1>2, <1>3 DEF Operating, Together, HeldShrinks
<1> QED
  <2>1. WiredPlaces'
    BY <1>1 DEF Operating, WiredPlaces
  <2>2. Owned'
    BY <1>1 DEF Operating, Owned
  <2>3. mode = "stopped" /\ recorded \in [Aliases -> 0..MaxAttempts]
    BY DEF Operating
  <2>4. mode' = mode /\ recorded' = recorded
    OBVIOUS
  <2> QED
    BY <1>2, <1>4, <2>1, <2>2, <2>3, <2>4 DEF Operating

\* The links after a pair is registered.
LEMMA PairJoins ==
    ASSUME Operating, completed = LastMigration, UNCHANGED <<mode, recorded, completed, ownerOf>>,
           NEW r \in Contract, NEW p \in Pairs, p # "governor", NEW a \in Places,
           wired' = wired \cup {<<r, p, a>>}
    PROVE  /\ WiredPlaces' /\ Owned' /\ \A b : GovernorOf(b)' = GovernorOf(b)
           /\ Listed' \subseteq Listed \cup {a}
           /\ \A step : Collected(step)' \subseteq Collected(step) \cup {a}
<1> DEFINE e == <<r, p, a>>
<1>1. e[1] = r /\ e[2] = p /\ e[3] = a
  OBVIOUS
<1>2. e \in (Contract \cup FoundContracts \cup {Registry}) \X Roles \X Places
  BY DEF Roles
<1>3. wired' = wired \cup {e}
  OBVIOUS
<1> HIDE DEF e
<1>4. \A b : GovernorOf(b)' = GovernorOf(b)
  BY <1>1, <1>3, GovernorsStay
<1>5. WiredPlaces' /\ Owned'
  BY <1>1, <1>2, <1>3 DEF Operating, WiredPlaces, Owned
<1> QED
  BY <1>1, <1>3, <1>4, <1>5, ListedGrows

\* In step: it obeys the governor of its register, and nothing depends on the list.
LEMMA InStepKeeps ==
    ASSUME OpsInv, completed = LastMigration, UNCHANGED <<completed, recorded>>,
           ~HandoverUnderWay, OpsTyped', Operating', Funding', OwnersAndChanges,
           \A k \in DOMAIN changes' :
              (k \in DOMAIN changes /\ changes'[k] = changes[k]) \/ ChangeWhole(changes[k])',
           \A t \in Terminals : session'[t] = session[t] \/ session'[t].step = "ended"
    PROVE  OpsInv'
<1>1. Entries' = Entries
  BY DEF Entries, Deployed, Proxy, Addr
<1>2. ChangesWhole'
  <2>1. ASSUME NEW k \in DOMAIN changes', NEW c, c = changes'[k], c = changes[k],
               k \in DOMAIN changes
        PROVE  ChangeWhole(changes[k])'
    <3>1. ChangeWhole(c) /\ (c.kind = "governor" => c.executed)
      BY <2>1 DEF OpsInv, ChangesWhole, HandoverUnderWay
    <3>2. ChangeWhole(c)'
      BY <1>1, <3>1 DEF ChangeWhole, OwnersAndChanges
    <3> QED
      BY <2>1, <3>2 DEF ChangeWhole
  <2> QED
    BY <2>1 DEF ChangesWhole
<1>3. SessionsInStep'
  <2>1. ASSUME NEW t \in Terminals, session'[t] = session[t] PROVE SessionInStep(session[t])'
    <3>1. SessionInStep(session[t]) /\ session[t].step \notin Listing
      BY DEF OpsInv, SessionsInStep, HandoverUnderWay, Listing
    <3> QED
      BY <2>1, <3>1 DEF SessionInStep, Listing, OwnersAndChanges
  <2>2. ASSUME NEW t \in Terminals, session'[t].step = "ended" PROVE SessionInStep(session[t])'
    BY <2>2 DEF SessionInStep, Listing
  <2> QED
    BY <2>1, <2>2 DEF SessionsInStep
<1>4. Deploying'
  BY DEF Deploying
<1> QED
  BY <1>2, <1>3, <1>4 DEF OpsInv

LEMMA AcceptedKeeps ==
    ASSUME OpsInv, completed = LastMigration, NEW k \in DOMAIN changes, NEW c, c = changes[k], NEW g,
           \A a \in c.targets : GovernorOf(a) = {g}, c.kind = "governor" => ~c.executed,
           changes' = [changes EXCEPT ![k].executed = TRUE], wired' = Applied(c), NoteEntry(c, g),
           UNCHANGED <<config, recorded, completed, processVars, attempts, torn>>,
           UNCHANGED <<ownerOf, balance, funds, spent>>, session' \in [Terminals -> ScriptTypes],
           \A t \in Terminals : session'[t] = session[t] \/ session'[t].step = "ended"
    PROVE  OpsInv'
<1>1. OpsTyped /\ Funding /\ Operating /\ changes \in Seq(ChangeTypes)
  BY DEF OpsInv, OpsTyped
<1>2. /\ mode' = mode /\ recorded' = recorded /\ completed' = completed
      /\ recorded \in [Aliases -> 0..MaxAttempts]
  BY <1>1 DEF processVars, Operating
<1>3. c \in ChangeTypes /\ ChangeWhole(c)
  BY <1>1 DEF OpsInv, ChangesWhole
<1> DEFINE d == [c EXCEPT !.executed = TRUE]
<1>4. /\ d \in ChangeTypes /\ d.kind = c.kind /\ d.targets = c.targets /\ d.entry = c.entry
      /\ d.newGovernor = c.newGovernor /\ d.executed
  BY <1>3 DEF ChangeTypes
<1>5. changes' = [changes EXCEPT ![k] = d]
  BY <1>1
<1> HIDE DEF d
<1>6. /\ changes' \in Seq(ChangeTypes) /\ DOMAIN changes' = DOMAIN changes /\ changes'[k] = d
      /\ \A j \in DOMAIN changes \ {k} : changes'[j] = changes[j]
  <2>1. changes \in Seq(ChangeTypes) /\ d \in ChangeTypes /\ k \in DOMAIN changes
    BY <1>1, <1>4
  <2>2. ASSUME NEW e, e = [changes EXCEPT ![k] = d]
        PROVE  /\ e \in Seq(ChangeTypes) /\ DOMAIN e = DOMAIN changes /\ e[k] = d
               /\ \A j \in DOMAIN changes \ {k} : e[j] = changes[j]
    BY <2>1, <2>2, ElementReplaced
  <2> QED
    BY <1>5, <2>2
<1>7. OwnersAndChanges
  BY <1>6 DEF OwnersAndChanges
<1>8. Funding'
  BY <1>1 DEF Funding, Funded
<1>9. ASSUME strays' \subseteq PairPlaces PROVE OpsTyped'
  BY <1>1, <1>6, <1>9 DEF OpsTyped, PairPlaces
<1>10. \A j \in DOMAIN changes' :
          (j \in DOMAIN changes /\ changes'[j] = changes[j]) \/ ChangeWhole(changes[j])'
  <2>1. Entries' = Entries
    BY <1>2 DEF Entries, Deployed, Proxy, Addr
  <2>2. ChangeWhole(d)'
    BY <1>3, <1>4, <2>1 DEF ChangeWhole
  <2>3. ChangeWhole(changes[k])'
    BY <1>6, <2>2 DEF ChangeWhole
  <2> QED
    BY <1>6, <2>3
<1>11. \A t \in Terminals : session'[t] = session[t] \/ SessionInStep(session[t])'
  BY DEF SessionInStep, Listing
<1>12. ASSUME strays' = strays, Operating', HeldShrinks PROVE OpsInv'
  <2>1. OpsTyped'
    BY <1>1, <1>9, <1>12 DEF OpsTyped
  <2> QED
    BY <1>2, <1>7, <1>8, <1>10, <1>11, <1>12, <2>1, StepKeeps
<1>13. CASE c.kind = "governor"
  <2>1. Held \subseteq c.targets /\ c.newGovernor \in Governors /\ ownerOf[c.newGovernor] # "nobody"
    BY <1>3, <1>13 DEF ChangeWhole
  <2>2. wired' = {l \in wired : l[1] \notin c.targets \/ l[2] # "governor"}
                   \cup {<<a, "governor", c.newGovernor>> : a \in c.targets}
    BY <1>13 DEF Applied
  <2>3. strays' = strays
    BY <1>13 DEF NoteEntry
  <2>4. Operating' /\ HeldShrinks
    BY <1>1, <1>2, <2>1, <2>2, <2>3, GovernorMoves
  <2> QED
    BY <1>12, <2>3, <2>4
<1>14. CASE c.kind = "unregister"
  <2> DEFINE r == c.entry[1]
             p == c.entry[2]
  <2>1. p # "governor"
    BY <1>2, <1>3, <1>14, EntryFits
  <2>2. wired' = {l \in wired : l[1] # r \/ l[2] # p} /\ strays' = strays
    BY <1>14 DEF Applied, NoteEntry
  <2> HIDE DEF r, p
  <2>3. UNCHANGED <<mode, recorded, completed, ownerOf, strays>>
    BY <1>2, <2>2
  <2>4. Operating' /\ HeldShrinks
    BY <1>1, <2>1, <2>2, <2>3, PairLeaves
  <2> QED
    BY <1>12, <2>2, <2>4
<1>15. CASE c.kind = "register"
  <2> DEFINE r == c.entry[1]
             p == c.entry[2]
             a == c.entry[3]
  <2>1. /\ c.entry = <<r, p, a>> /\ r \in Contract /\ r \in Listed /\ r \notin PairPlaces
        /\ p \in Pairs /\ p # "governor" /\ c.targets = {r} /\ a \in PairPlaces /\ a \in Places
    BY <1>2, <1>3, <1>15, EntryFits
  <2>2. strays' = IF OutOfStep(a, g) THEN strays \cup {a} ELSE strays \ {a}
    BY <1>15 DEF NoteEntry
  <2>3. wired' = wired \cup {<<r, p, a>>}
    BY <1>15, <2>1 DEF Applied
  <2> HIDE DEF r, p, a
  <2>4. /\ WiredPlaces' /\ Owned' /\ \A b : GovernorOf(b)' = GovernorOf(b)
        /\ Listed' \subseteq Listed \cup {a}
        /\ \A step : Collected(step)' \subseteq Collected(step) \cup {a}
    BY <1>1, <1>2, <2>1, <2>3, PairJoins
  <2>5. PICK h \in Governors : \A b \in Held : GovernorOf(b) = {h}
    BY <1>1 DEF Operating, Together
  <2>6. OpsTyped'
    BY <1>1, <1>9, <2>1, <2>2 DEF OpsTyped
  <2>7. CASE OutOfStep(a, g)
    <3>1. HeldShrinks
      BY <2>2, <2>4, <2>7 DEF HeldShrinks, Held
    <3>2. Together'
      BY <2>4, <2>5, <3>1 DEF Together, HeldShrinks
    <3>3. Operating'
      BY <1>1, <1>2, <2>4, <3>2 DEF Operating
    <3> QED
      BY <1>2, <1>7, <1>8, <1>10, <1>11, <2>6, <3>1, <3>3, StepKeeps
  <2>8. CASE ~OutOfStep(a, g)
    <3>1. GovernorOf(a) = {g} /\ ~HandoverUnderWay
      BY <2>8 DEF OutOfStep
    <3>2. h = g
      <4>1. r \in Held
        BY <1>1, <2>1 DEF Held, OpsTyped
      <4>2. GovernorOf(r) = {g} /\ GovernorOf(r) = {h}
        BY <2>1, <2>5, <4>1
      <4> QED
        BY <4>2
    <3>3. Together'
      <4>1. Held' \subseteq Held \cup {a}
        BY <2>2, <2>4, <2>8 DEF Held
      <4> QED
        BY <2>4, <2>5, <3>1, <3>2, <4>1 DEF Together
    <3>4. Operating'
      BY <1>1, <1>2, <2>4, <3>3 DEF Operating
    <3> QED
      BY <1>2, <1>7, <1>8, <1>10, <2>6, <3>1, <3>4, InStepKeeps
  <2> QED
    BY <2>7, <2>8
<1>16. CASE c.kind \in {"implementation", "setting"}
  <2>1. wired' = wired /\ strays' = strays
    BY <1>16 DEF Applied, NoteEntry
  <2>2. UNCHANGED <<deployVars, strays>>
    BY <2>1 DEF deployVars, processVars
  <2>3. OpsTyped'
    BY <1>1, <1>9, <2>1 DEF OpsTyped
  <2> QED
    BY <1>7, <1>8, <1>10, <1>11, <2>2, <2>3, ScriptKeeps
<1> QED
  BY <1>3, <1>13, <1>14, <1>15, <1>16 DEF ChangeTypes

LEMMA ExecuteKeeps ==
    ASSUME OpsInv, completed = LastMigration, NEW t \in Terminals, Execute(t),
           UNCHANGED <<config, recorded, completed, processVars, attempts, torn>>
    PROVE  OpsInv'
<1>0. SUFFICES ASSUME NEW k, NEW g, k = session[t].change, g = session[t].governor
               PROVE  OpsInv'
  OBVIOUS
<1>1. OpsTyped
  BY DEF OpsInv
<1>2. k \in DOMAIN changes
  BY <1>0 DEF OpsInv, SessionsInStep, SessionInStep, Execute
<1>3. ExecuteChange(k, g) /\ Goto(t, "ended") /\ UNCHANGED <<ownerOf, balance, funds, spent>>
  BY <1>0 DEF Execute
<1>4. PICK s \in ScriptTypes : session' = [session EXCEPT ![t] = s] /\ s.step = "ended"
  BY <1>1, <1>3, GotoTyped
<1>5. /\ session' \in [Terminals -> ScriptTypes]
      /\ \A q \in Terminals : session'[q] = session[q] \/ session'[q].step = "ended"
  BY <1>1, <1>4 DEF OpsTyped
<1>6. CASE ~Accepted(k, g)
  <2>1. UNCHANGED <<changes, wired, strays>>
    BY <1>3, <1>6 DEF ExecuteChange
  <2>2. UNCHANGED deployVars
    BY <2>1 DEF deployVars, processVars
  <2> QED
    BY <1>3, <2>1, <2>2, EndsKeeps
<1>7. ASSUME NEW c, c = changes[k], Accepted(k, g) PROVE OpsInv'
  <2>1. /\ changes' = [changes EXCEPT ![k].executed = TRUE]
        /\ wired' = Applied(c) /\ NoteEntry(c, g)
    BY <1>3, <1>7 DEF ExecuteChange
  <2>2. (\A a \in c.targets : GovernorOf(a) = {g}) /\ (c.kind = "governor" => ~c.executed)
    BY <1>7 DEF Accepted
  <2> QED
    BY <1>2, <1>3, <1>5, <1>7, <2>1, <2>2, AcceptedKeeps
<1> QED
  BY <1>6, <1>7

-----------------------------------------------------------------------------
(***************************************************************************)
(* The invariant of the system with its operators.                         *)
(***************************************************************************)
LEMMA DeployingKeeps ==
    ASSUME OpsInv, completed # LastMigration, DeployInv', UNCHANGED scriptVars
    PROVE  OpsInv'
<1> USE DEF scriptVars
<1>1. /\ changes = <<>> /\ ownerOf[Governor] = "foundation" /\ strays = {}
      /\ \A t \in Terminals : session[t].script = "none" /\ session[t].step = "ended"
  BY DEF OpsInv, Deploying
<1>2. OpsTyped'
  BY DEF OpsInv, OpsTyped, PairPlaces
<1>3. Deploying'
  BY <1>1 DEF Deploying
<1>4. Operating'
  <2>1. CASE completed' = LastMigration
    <3>1. AtFirst'
      BY <1>1, <2>1 DEF AtFirst
    <3> QED
      BY <3>1, TogetherAtFirst, PTL
  <2>2. CASE completed' # LastMigration
    BY <2>2 DEF Operating
  <2> QED
    BY <2>1, <2>2
<1>5. ChangesWhole'
  BY <1>1 DEF ChangesWhole
<1>6. SessionsInStep'
  BY <1>1 DEF SessionsInStep, SessionInStep, Listing
<1>7. Funding'
  BY <1>1 DEF Funding, Funded
<1> QED
  BY <1>2, <1>3, <1>4, <1>5, <1>6, <1>7 DEF OpsInv

LEMMA OpsInitInv == OpsInit => OpsInv
<1> SUFFICES ASSUME OpsInit PROVE OpsInv
  OBVIOUS
<1>1. DeployInv /\ completed # LastMigration
  BY DeployInitInv DEF OpsInit, DeployInit, LastMigration
<1>2. /\ ownerOf \in [Governors -> {"foundation", "nobody"}] /\ ownerOf[Governor] = "foundation"
      /\ changes = <<>> /\ session = [t \in Terminals |-> Idle]
      /\ balance \in [Servers -> 0..EACH_NEEDED] /\ funds = Funds
      /\ spent = [t \in Terminals |-> [s \in Servers |-> 0]] /\ strays = {}
  BY DEF OpsInit
<1>3. \A t \in Terminals : session[t] = Idle
  BY <1>2
<1>4. Idle.script = "none" /\ Idle.step = "ended"
  BY DEF Idle
<1>5. OpsTyped
  <2>1. session \in [Terminals -> ScriptTypes]
    BY <1>2, IdleTyped
  <2>2. balance \in [Servers -> Nat] /\ funds \in Nat
    BY <1>2, ScriptsAssumption
  <2>3. changes \in Seq(ChangeTypes)
    BY <1>2
  <2>4. ownerOf \in [Governors -> {"foundation", "newOwner", "nobody"}]
    BY <1>2
  <2> QED
    BY <1>2, <2>1, <2>2, <2>3, <2>4 DEF OpsTyped
<1>6. Deploying /\ Operating
  BY <1>1, <1>2, <1>3, <1>4 DEF Deploying, Operating
<1>7. ChangesWhole
  BY <1>2 DEF ChangesWhole
<1>8. SessionsInStep /\ Funding
  BY <1>3, <1>4 DEF SessionsInStep, SessionInStep, Listing, Funding, Funded
<1> QED
  BY <1>5, <1>6, <1>7, <1>8 DEF OpsInv

LEMMA OpsNextInv ==
    ASSUME OpsInv, [OpsNext]_opsVars
    PROVE  OpsInv'
<1>1. CASE DeployNext /\ UNCHANGED scriptVars
  <2>1. completed # LastMigration
    BY <1>1, DeployNextUnfinished DEF OpsInv, Operating
  <2>2. DeployInv'
    BY <1>1, <2>1, DeployNextInv DEF OpsInv, Deploying
  <2> QED
    BY <1>1, <2>1, <2>2, DeployingKeeps
<1>2. CASE ScriptStep /\ UNCHANGED deployVars
  BY <1>2, ScriptStepKeeps
<1>3. ASSUME NEW t \in Terminals, Execute(t),
             UNCHANGED <<config, recorded, completed, processVars, attempts, torn>>
      PROVE  OpsInv'
  <2>1. completed = LastMigration
    BY <1>3, ScriptsFinished DEF OpsInv
  <2> QED
    BY <1>3, <2>1, ExecuteKeeps
<1>4. CASE UNCHANGED opsVars
  <2>1. UNCHANGED deployVars /\ UNCHANGED scriptVars
    BY <1>4 DEF opsVars
  <2>2. CASE completed = LastMigration
    <3>1. OpsTyped' /\ Funding'
      BY <2>1 DEF scriptVars, OpsInv, OpsTyped, Funding, Funded, PairPlaces
    <3> QED
      BY <2>1, <2>2, <3>1, TopUpStep DEF scriptVars
  <2>3. CASE completed # LastMigration
    <3>1. DeployInv'
      BY <2>1, <2>3, DeployStutterInv DEF OpsInv, Deploying
    <3> QED
      BY <2>1, <2>3, <3>1, DeployingKeeps
  <2> QED
    BY <2>2, <2>3
<1> QED
  BY <1>1, <1>2, <1>3, <1>4 DEF OpsNext

\* While the migrations are not over nothing but they moves.  From then on every governor
\* that is obeyed has an owner; what is listed, but for the pairs that were registered out
\* of step, obeys one governor; and all of it is in every list a script works on and in
\* every change of the governor that was not executed yet, whatever pairs the registers
\* got or lost since.
THEOREM OperationInvariant == OpsSpec => []OpsInv
<1>1. OpsInv /\ [OpsNext]_opsVars => OpsInv'
  BY OpsNextInv
<1> QED
  BY <1>1, OpsInitInv, PTL DEF OpsSpec

\* The governed contracts that change_delegate_governor.js lists obey one governor,
\* however the scripts and the changes of pairs interleave, but for the contracts of
\* pairs that were registered out of step.
THEOREM ListedAlwaysTogether == OpsSpec => []ListedTogether
<1>1. OpsInv => ListedTogether
  BY DEF OpsInv, Operating, Together, Held, ListedTogether
<1> QED
  BY <1>1, OperationInvariant, PTL

\* The governor that a listed contract obeys has an owner, from the first migration on.
THEOREM ControlAlwaysKept == OpsSpec => []ControlKept
<1>1. OpsInv => ControlKept
  <2> SUFFICES ASSUME OpsInv, NEW g \in Governors, NEW a \in Listed, g \in GovernorOf(a)
               PROVE  ownerOf[g] # "nobody"
    BY DEF ControlKept
  <2>1. CASE completed = LastMigration
    <3>1. PICK l \in wired : l[2] = "governor" /\ l[3] = g
      BY DEF GovernorOf, Links
    <3> QED
      BY <2>1, <3>1 DEF OpsInv, Operating, Owned
  <2>2. CASE completed # LastMigration
    <3>1. DeployInv /\ ownerOf[Governor] = "foundation"
      BY <2>2 DEF OpsInv, Deploying
    <3>2. PICK l \in wired : l[2] = "governor" /\ l[3] = g
      BY DEF GovernorOf, Links
    <3>3. g = Governor
      BY <3>1, <3>2 DEF DeployInv, LinkInv, GovernorFirst
    <3> QED
      BY <3>1, <3>3
  <2> QED
    BY <2>1, <2>2
<1> QED
  BY <1>1, OperationInvariant, PTL

\* When the script says ALL DONE every server has had what it needs, whatever it and
\* the other terminals spent and sent meanwhile.
THEOREM ServersAlwaysFunded == OpsSpec => []ServersFunded
<1>1. OpsInv => ServersFunded
  <2> SUFFICES ASSUME OpsInv, NEW t \in Terminals, Running(t, "topup", "done"), NEW s \in Servers
               PROVE  balance[s] + spent[t][s] >= EACH_NEEDED
    BY DEF ServersFunded
  <2>1. /\ session[t].need[s] = 0
        /\ balance[s] + spent[t][s] + session[t].need[s] >= EACH_NEEDED
    BY DEF Running, OpsInv, Funding, Funded
  <2>2. balance[s] \in Nat /\ spent[t][s] \in Nat
    BY DEF OpsInv, OpsTyped
  <2> QED
    BY <2>1, <2>2, ScriptsAssumption
<1> QED
  BY <1>1, OperationInvariant, PTL

\* A migration takes no link away but those of the registry, which it overwrites.
LEMMA LinksStay ==
    ASSUME DeployNext
    PROVE  \A l \in wired : l[1] # Registry => l \in wired'
<1>1. CASE RegisterValues
  BY <1>1 DEF RegisterValues
<1>2. CASE \/ ConfigCheck \/ AddInfoGetter \/ AddRegister \/ AddCalculated \/ AddCalculatedFree
           \/ (\E p \in todo : AddPairFree(p)) \/ AddPair \/ UpgradeInfoGetter
           \/ AddProxy(50, "Supporters") \/ AddProxy(60, "OracleManager")
           \/ AddProxy(70, "DelayMachine") \/ AddProxy(80, "Staking")
  BY <1>2 DEF ConfigCheck, AddInfoGetter, AddRegister, AddCalculated, AddCalculatedFree,
              AddPairFree, AddPair, UpgradeInfoGetter, AddProxy, OzAddInitialized, Abort, chainVars
<1>3. CASE \/ InitializeSupporters \/ InitializeOracleManager
           \/ InitializeDelayMachine \/ InitializeStaking
           \/ InitializePairFree \/ InitializeCalculatedFree
  <2>1. ASSUME NEW a, NEW links, Initialize(a, links) PROVE wired \subseteq wired'
    BY <2>1 DEF Initialize, Abort
  <2> QED
    BY <1>3, <2>1 DEF InitializeSupporters, InitializeOracleManager, InitializeDelayMachine,
                      InitializeStaking, InitializePairFree, InitializeCalculatedFree
<1>4. CASE RegisterPair \/ RegisterAllPairs \/ WhitelistCalculated \/ RegisterCalculated
  <2>1. wired \subseteq wired'
    BY <1>4 DEF RegisterPair, RegisterAllPairs, WhitelistCalculated, RegisterCalculated,
                Register, Abort
  <2> QED
    BY <2>1
<1>5. CASE SetCompleted \/ Migrate \/ Interrupt
  BY <1>5 DEF SetCompleted, Migrate, Interrupt, chainVars
<1> QED
  BY <1>1, <1>2, <1>3, <1>4, <1>5 DEF DeployNext, Progress, Transaction

\* A change of the governor gives the control away only the first time it is
\* executed: a governor loses the OracleManager in no other step.
THEOREM HandedOverOnce == OpsSpec => HandoverOnce
<1> DEFINE Step ==
      \A g \in Governors :
         g \in GovernorOf(Proxy("OracleManager")) /\ g \notin GovernorOf(Proxy("OracleManager"))'
         => \E k \in DOMAIN changes : /\ changes[k].kind = "governor"
                                      /\ ~changes[k].executed /\ changes'[k].executed
<1>1. ASSUME OpsInv, OpsNext PROVE Step
  <2> SUFFICES ASSUME NEW g \in Governors, g \in GovernorOf(Proxy("OracleManager")),
                      g \notin GovernorOf(Proxy("OracleManager"))'
               PROVE  \E k \in DOMAIN changes : /\ changes[k].kind = "governor"
                                                /\ ~changes[k].executed /\ changes'[k].executed
    OBVIOUS
  <2>1. ASSUME recorded' = recorded, wired' = wired PROVE FALSE
    BY <2>1 DEF GovernorOf, Links, Proxy, Addr
  <2>2. CASE DeployNext /\ UNCHANGED scriptVars
    <3>1. completed # LastMigration
      BY <1>1, <2>2, DeployNextUnfinished DEF OpsInv, Operating
    <3>2. DeployInv
      BY <1>1, <3>1 DEF OpsInv, Deploying
    <3>3. Frame
      BY <2>2, <3>2, StepFrame DEF DeployInv
    <3> DEFINE o == Proxy("OracleManager")
    <3>4. PICK l \in wired : l[1] = o /\ l[2] = "governor" /\ l[3] = g
      BY DEF GovernorOf, Links
    <3>5. l[1][1] = "OracleManager" /\ l[1] # Registry
      BY <3>4, ContractsNamed DEF Registry
    <3>6. completed >= 80
      BY <3>2, <3>4, <3>5 DEF DeployInv, LinkInv, LinksFit, ManagerLinks, Of
    <3>7. Proxy("OracleManager")' = Proxy("OracleManager")
      BY <3>3, <3>6 DEF Frame
    <3>8. l \in wired'
      BY <2>2, <3>4, <3>5, LinksStay
    <3>9. l[1] = Proxy("OracleManager")'
      BY <3>4, <3>7
    <3>10. g \in GovernorOf(Proxy("OracleManager"))'
      BY <3>4, <3>8, <3>9 DEF GovernorOf, Links
    <3> QED
      BY <3>10
  <2>3. CASE ScriptStep /\ UNCHANGED deployVars
    BY <2>1, <2>3 DEF deployVars
  <2>4. ASSUME NEW t \in Terminals, Execute(t), recorded' = recorded
        PROVE  \E k \in DOMAIN changes : /\ changes[k].kind = "governor"
                                         /\ ~changes[k].executed /\ changes'[k].executed
    <3>1. PICK k, h : k = session[t].change /\ ExecuteChange(k, h)
      BY <2>4 DEF Execute
    <3>2. k \in DOMAIN changes /\ changes \in Seq(ChangeTypes)
      BY <1>1, <2>4, <3>1 DEF OpsInv, OpsTyped, SessionsInStep, SessionInStep, Execute
    <3>3. changes[k] \in ChangeTypes
      BY <3>2
    <3>4. Accepted(k, h) /\ changes[k].kind = "governor"
      <4>1. CASE ~Accepted(k, h)
        BY <2>1, <2>4, <3>1, <4>1 DEF ExecuteChange
      <4>2. ASSUME NEW c, c = changes[k], Accepted(k, h), c.kind # "governor" PROVE FALSE
        <5>1. wired' = Applied(c) /\ ChangeWhole(c)
          BY <1>1, <3>1, <3>2, <4>2 DEF ExecuteChange, OpsInv, ChangesWhole
        <5>2. completed = LastMigration
          BY <1>1, <2>4, ScriptsFinished DEF OpsInv
        <5>3. recorded \in [Aliases -> 0..MaxAttempts]
          BY <1>1, <5>2 DEF OpsInv, Operating
        <5>4. c.kind \in {"register", "unregister"} => c.entry[2] # "governor"
          BY <5>1, <5>3, EntryFits
        <5>5. c.kind = "register" => c.entry = <<c.entry[1], c.entry[2], c.entry[3]>>
          BY <5>1, <5>3, EntryFits
        <5>6. \A l : l[2] = "governor" => (l \in wired' <=> l \in wired)
          BY <4>2, <5>1, <5>4, <5>5 DEF Applied
        <5>7. \A a : GovernorOf(a)' = GovernorOf(a)
          BY <5>6, GovernorsStay
        <5> QED
          BY <2>4, <5>7 DEF Proxy, Addr
      <4> QED
        BY <4>1, <4>2
    <3>5. ~changes[k].executed
      BY <3>4 DEF Accepted
    <3>6. changes' = [changes EXCEPT ![k].executed = TRUE]
      BY <3>1, <3>4 DEF ExecuteChange
    <3>7. changes'[k].executed
      BY <3>2, <3>3, <3>6 DEF ChangeTypes
    <3> QED
      BY <3>2, <3>4, <3>5, <3>7
  <2> QED
    BY <1>1, <2>2, <2>3, <2>4 DEF OpsNext
<1>2. OpsInv /\ [OpsNext]_opsVars => [Step]_opsVars
  BY <1>1
<1>3. OpsSpec => [][Step]_opsVars
  BY <1>2, OperationInvariant, PTL DEF OpsSpec
<1> QED
  BY <1>3 DEF HandoverOnce
=============================================================================
