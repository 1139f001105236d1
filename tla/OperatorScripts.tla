-------------------------- MODULE OperatorScripts ---------------------------
(***************************************************************************)
(* What the foundation runs on a deployed system: the truffle scripts of   *)
(* scripts/*.js that change settings, implementations and the governor,    *)
(* and the one that tops up the servers of the test network.               *)
(*                                                                         *)
(* A script reads the chain call by call and sends its transactions when   *)
(* it has read enough; in between, a person at another terminal may run    *)
(* another script, or the same.  A script that exits before its first      *)
(* transaction leaves nothing behind, and is not a step here when it       *)
(* would exit on its first look at the owner.                              *)
(*                                                                         *)
(* A governor executes a change contract for its owner, and a governed     *)
(* contract obeys one governor.  The governors are of @moc/shared.  Among  *)
(* the changes are those of the pairs two contracts have in their          *)
(* registers, the same registers change_delegate_governor.js reads.        *)
(***************************************************************************)
EXTENDS Deployment, Sequences, Functions

CONSTANTS
    NewPairs,               \* contracts of a pair that no register has yet
    Terminals,              \* where scripts run, all with the foundation's account
    MaxGovernors,           \* governors on the network
    MaxSessions,            \* bound: scripts ever started
    MaxRuns,                \* bound: changes ever deployed by change_run and run_in_coinpair
    Servers,                \* the oracles of TEST_SERVERS
    EACH_NEEDED,
    Funds                   \* of the foundation, at first

ASSUME ScriptsAssumption ==
    /\ MaxGovernors \in Nat \ {0} /\ MaxSessions \in Nat /\ MaxRuns \in Nat
    /\ EACH_NEEDED \in Nat /\ Funds \in Nat

\* The contracts change_delegate_governor.js expects beside those of the migrations.
ASSUME FoundAssumption ==
    /\ {"SupportersVested", "TestMOC"} \subseteq Found
    /\ NewPairs \subseteq Found \ {"SupportersVested", "TestMOC", "UpgradeDelegator"}

VARIABLES
    ownerOf,                \* Governor.owner()
    changes,                \* the change contracts, as they were deployed
    session,                \* what each terminal runs
    started,                \* scripts ever started
    balance, funds,         \* of the servers, and of the foundation
    spent,                  \* history: gas a server paid since a terminal read its balance
    strays                  \* history: contracts of pairs that were last registered out of step

scriptVars == <<ownerOf, changes, session, started, balance, funds, spent, strays>>
opsVars    == <<deployVars, scriptVars>>

Governors == {<<"Governor", "none", n>> : n \in 1..MaxGovernors}

GovernorOf(a) == Links(a, "governor")

Idle == [script |-> "none", step |-> "ended", governor |-> Governor, newGovernor |-> Governor,
         list |-> {}, change |-> 0, need |-> [s \in Servers |-> 0]]

\* artifacts.require(name).deployed()
Deployed(name) == IF name \in Single THEN Proxy(name) ELSE <<name, "none", 1>>

Start(t, s) ==
    /\ completed = LastMigration
    /\ session[t].step = "ended"
    /\ started < MaxSessions
    /\ started' = started + 1
    /\ session' = [session EXCEPT ![t] = s]

Running(t, script, step) == session[t].script = script /\ session[t].step = step

Goto(t, step) == session' = [session EXCEPT ![t].step = step]

-----------------------------------------------------------------------------
(***************************************************************************)
(* Changes and governors.                                                  *)
(***************************************************************************)
NoEntry == <<Zero, "none", Zero>>

\* Artifact.new for a change contract: it affects the contracts in targets.
Change(kind, targets, newGovernor) ==
    [kind |-> kind, targets |-> targets, newGovernor |-> newGovernor, entry |-> NoEntry,
     executed |-> FALSE]

\* OracleManagerPairChange, PriceProviderRegisterPairChange and their like, and
\* OracleManagerPairChangeRemove: the register gets, or loses, the entry of a pair.
PairChange(kind, register, pair, a) ==
    [Change(kind, {register}, Governor) EXCEPT !.entry = <<register, pair, a>>]

\* Faulty variant of Accepted: a change of the governor may be used again.
AcceptedAgain(k, g) ==
    LET c == changes[k]
    IN  /\ ownerOf[g] = "foundation"
        /\ \A a \in c.targets : GovernorOf(a) = {g}
        /\ c.kind = "register" => Links(c.entry[1], c.entry[2]) = {}
        /\ c.kind = "unregister" => Links(c.entry[1], c.entry[2]) # {}

\* Governor.executeChange is for its owner, every target obeys only its governor,
\* and GovernorChange is usable just once.  A pair is registered only once at a time.
Accepted(k, g) ==
    LET c == changes[k]
    IN  /\ ownerOf[g] = "foundation"
        /\ \A a \in c.targets : GovernorOf(a) = {g}
        /\ c.kind = "governor" => ~c.executed
        /\ c.kind = "register" => Links(c.entry[1], c.entry[2]) = {}
        /\ c.kind = "unregister" => Links(c.entry[1], c.entry[2]) # {}

\* Somebody is listing contracts for a change of the governor, or one is deployed
\* and was not executed.
HandoverUnderWay ==
    \/ \E t \in Terminals : session[t].step \in {"names", "pairs", "register", "owner", "confirm"}
    \/ \E k \in DOMAIN changes : changes[k].kind = "governor" /\ ~changes[k].executed

\* The contract a pair is registered with obeys another governor than the register,
\* or no list that is being made or is made has it.
OutOfStep(a, g) == GovernorOf(a) # {g} \/ HandoverUnderWay

\* The links after the change c.
Applied(c) ==
    CASE c.kind = "governor" ->
            {l \in wired : l[1] \notin c.targets \/ l[2] # "governor"}
              \cup {<<a, "governor", c.newGovernor>> : a \in c.targets}
      [] c.kind = "register"   -> wired \cup {c.entry}
      [] c.kind = "unregister" -> {l \in wired : l[1] # c.entry[1] \/ l[2] # c.entry[2]}
      [] OTHER                 -> wired

NoteEntry(c, g) ==
    strays' = IF c.kind # "register" THEN strays
              ELSE IF OutOfStep(c.entry[3], g) THEN strays \cup {c.entry[3]}
              ELSE strays \ {c.entry[3]}

\* executeChange, of the governor g: all of the change or, when it is reverted, nothing.
ExecuteChange(k, g) ==
    IF Accepted(k, g)
    THEN /\ changes' = [changes EXCEPT ![k].executed = TRUE]
         /\ wired' = Applied(changes[k])
         /\ NoteEntry(changes[k], g)
    ELSE UNCHANGED <<changes, wired, strays>>

-----------------------------------------------------------------------------
(***************************************************************************)
(* change_delegate_governor.js                                             *)
(***************************************************************************)
ContractNames == {"InfoGetter", "SupportersVested", "Supporters", "TestMOC"}

\* The register and the contracts it has for its pairs.
PairsOf(register) ==
    {register} \cup UNION {Links(register, p) : p \in Pairs \cup {Calculated}}

StartDelegate(t, g, new) ==
    /\ ownerOf[g] = "foundation"
    /\ Start(t, [Idle EXCEPT !.script = "delegate", !.step = "names",
                             !.governor = g, !.newGovernor = new])
    /\ UNCHANGED <<ownerOf, changes, balance, funds, spent, strays>>

\* Each contract found must still obey the governor the script started with.  One
\* loop of reads is a step: that one change takes a pair out of the register and
\* another puts one in between two reads of a loop, so that swap and pop moves a pair
\* to an index already read, is left out; a removal alone makes the last index illegal
\* and ends the script.
Collect(t, step, found, next) ==
    LET s == session[t]
    IN  /\ Running(t, "delegate", step)
        /\ session' = [session EXCEPT ![t] =
              IF \A a \in found : GovernorOf(a) = {s.governor}
              THEN [s EXCEPT !.list = s.list \cup found, !.step = next]
              ELSE [s EXCEPT !.step = "ended"]]
        /\ UNCHANGED <<ownerOf, changes, started, balance, funds, spent, strays>>

\* Faulty variant of CollectAll: the register itself is not listed.
CollectWithoutRegister(t) ==
    \/ Collect(t, "names", {Deployed(n) : n \in ContractNames}, "pairs")
    \/ Collect(t, "pairs", PairsOf(Deployed("OracleManager")), "register")
    \/ LET r == Deployed("PriceProviderRegister")
       IN  Collect(t, "register", PairsOf(r) \ {r}, "owner")

CollectAll(t) ==
    \/ Collect(t, "names", {Deployed(n) : n \in ContractNames}, "pairs")
    \/ Collect(t, "pairs", PairsOf(Deployed("OracleManager")), "register")
    \/ Collect(t, "register", PairsOf(Deployed("PriceProviderRegister")), "owner")

\* Faulty variant of CheckNewOwner: the new governor is not looked at.
TrustNewOwner(t) ==
    /\ Running(t, "delegate", "owner")
    /\ Goto(t, "confirm")
    /\ UNCHANGED <<ownerOf, changes, started, balance, funds, spent, strays>>

CheckNewOwner(t) ==
    /\ Running(t, "delegate", "owner")
    /\ Goto(t, IF ownerOf[session[t].newGovernor] = "nobody" THEN "ended" ELSE "confirm")
    /\ UNCHANGED <<ownerOf, changes, started, balance, funds, spent, strays>>

\* yes: GovernorChange.new.  no: nothing.
Confirm(t) ==
    /\ Running(t, "delegate", "confirm")
    /\ \/ /\ changes' = Append(changes, Change("governor", session[t].list, session[t].newGovernor))
          /\ session' = [session EXCEPT ![t].change = Len(changes) + 1, ![t].step = "execute"]
       \/ Goto(t, "ended") /\ UNCHANGED changes
    /\ UNCHANGED <<ownerOf, started, balance, funds, spent, strays>>

\* governor.executeChange, the last call of every script that makes it.
Execute(t) ==
    /\ session[t].step = "execute"
    /\ ExecuteChange(session[t].change, session[t].governor)
    /\ Goto(t, "ended")
    /\ UNCHANGED <<ownerOf, started, balance, funds, spent>>

-----------------------------------------------------------------------------
(***************************************************************************)
(* change_execute.js, change_implementation.js, change_run.js and          *)
(* change_run_in_coinpair.js                                               *)
(***************************************************************************)
\* A change that is already deployed, with a governor by its address.
StartExecute(t, g, k) ==
    /\ ownerOf[g] = "foundation"
    /\ Start(t, [Idle EXCEPT !.script = "execute", !.step = "execute",
                             !.governor = g, !.change = k])
    /\ UNCHANGED <<ownerOf, changes, balance, funds, spent, strays>>

\* The governor is the one the UpgradeDelegator obeys; the UpgraderTemplate acts
\* through that delegator.
StartImplementation(t) ==
    \E g \in GovernorOf(Deployed("UpgradeDelegator")) :
       /\ ownerOf[g] = "foundation"
       /\ changes' = Append(changes, Change("implementation", {Deployed("UpgradeDelegator")}, g))
       /\ Start(t, [Idle EXCEPT !.script = "implementation", !.step = "execute",
                                !.governor = g, !.change = Len(changes) + 1])
       /\ UNCHANGED <<ownerOf, balance, funds, spent, strays>>

RunKinds == {"setting", "register", "unregister"}

\* A change is deployed (change_run, run_in_coinpair).
StartRun(t, c) ==
    /\ Cardinality({k \in DOMAIN changes : changes[k].kind \in RunKinds}) < MaxRuns
    /\ changes' = Append(changes, c)
    /\ Start(t, [Idle EXCEPT !.script = "run", !.step = "call", !.change = Len(changes) + 1])
    /\ UNCHANGED <<ownerOf, balance, funds, spent, strays>>

\* A setting of the OracleManager or of a pair (run_in_coinpair asks the OracleManager
\* for the pair's contract).
RunTargets ==
    {Deployed("OracleManager")}
      \cup UNION {IF Links(Deployed("OracleManager"), p) = {} THEN {Zero}
                  ELSE Links(Deployed("OracleManager"), p) : p \in Pairs}

SettingChanges == {Change("setting", {a}, Governor) : a \in RunTargets}

\* The contracts a pair is registered with: the one the network file has for it, or a
\* new one.
PairContracts(p) ==
    {<<"CoinPairPrice", p, n>> : n \in {recorded[<<"CoinPairPrice", p>>]} \ {0}}
      \cup {<<n, "none", 1>> : n \in NewPairs}

Registrations(p) ==
    {PairChange("register", Deployed(r), p, a) :
        r \in {"OracleManager", "PriceProviderRegister"}, a \in PairContracts(p)}

\* No change takes a pair out of the PriceProviderRegister.
PairChanges ==
    (UNION {Registrations(p) : p \in Pairs})
      \cup {PairChange("unregister", Deployed("OracleManager"), p, Zero) : p \in Pairs}

\* getGovernor is async and is not awaited: the promise has no executeChange, and
\* the script ends in a TypeError.
CallPromise(t) ==
    /\ Running(t, "run", "call")
    /\ Goto(t, "ended")
    /\ UNCHANGED <<ownerOf, changes, started, balance, funds, spent, strays>>

-----------------------------------------------------------------------------
(***************************************************************************)
(* give_coinbase_to_test_servers.js                                        *)
(***************************************************************************)
Lacks(b) == IF b < EACH_NEEDED THEN EACH_NEEDED - b ELSE 0

Total(need) == FoldFunctionOnSet(+, 0, need, Servers)

\* The balances are read one by one and none changes the others: one step.
StartTopUp(t) ==
    LET need == [s \in Servers |-> Lacks(balance[s])]
    IN  /\ Total(need) <= funds
        /\ Start(t, [Idle EXCEPT !.script = "topup", !.step = "send", !.need = need])
        /\ spent' = [spent EXCEPT ![t] = [s \in Servers |-> 0]]
        /\ UNCHANGED <<ownerOf, changes, balance, funds, strays>>

\* Faulty variant of Transfer: a server that has something is not looked at again.
TransferToEmpty(t, s) ==
    /\ Running(t, "topup", "send")
    /\ session[t].need[s] \in 1..funds
    /\ funds' = funds - (IF balance[s] = 0 THEN session[t].need[s] ELSE 0)
    /\ balance' = [balance EXCEPT ![s] = IF @ = 0 THEN session[t].need[s] ELSE @]
    /\ session' = [session EXCEPT ![t].need[s] = 0]
    /\ UNCHANGED <<ownerOf, changes, started, spent, strays>>

\* sendTransaction of what the server needed when it was read.
Transfer(t, s) ==
    /\ Running(t, "topup", "send")
    /\ session[t].need[s] \in 1..funds
    /\ funds' = funds - session[t].need[s]
    /\ balance' = [balance EXCEPT ![s] = @ + session[t].need[s]]
    /\ session' = [session EXCEPT ![t].need[s] = 0]
    /\ UNCHANGED <<ownerOf, changes, started, spent, strays>>

\* A transfer the funds do not cover any more throws; with no server left the
\* script says ALL DONE.
EndTopUp(t) ==
    /\ Running(t, "topup", "send")
    /\ \/ /\ \A s \in Servers : session[t].need[s] = 0
          /\ Goto(t, "done")
       \/ /\ \E s \in Servers : session[t].need[s] > funds
          /\ Goto(t, "ended")
    /\ UNCHANGED <<ownerOf, changes, started, balance, funds, spent, strays>>

CloseTerminal(t) ==
    /\ Running(t, "topup", "done")
    /\ session' = [session EXCEPT ![t] = Idle]
    /\ UNCHANGED <<ownerOf, changes, started, balance, funds, spent, strays>>

-----------------------------------------------------------------------------
(***************************************************************************)
(* The surroundings.                                                       *)
(***************************************************************************)
\* The owner of a governor that had none is set.
ConfigureGovernor(g) ==
    /\ completed = LastMigration
    /\ ownerOf[g] = "nobody"
    /\ \E o \in {"foundation", "newOwner"} : ownerOf' = [ownerOf EXCEPT ![g] = o]
    /\ UNCHANGED <<changes, session, started, balance, funds, spent, strays>>

\* A server pays for a transaction of its own.
PayGas(s) ==
    /\ \E t \in Terminals : session[t].script = "topup"
    /\ balance[s] > 0
    /\ balance' = [balance EXCEPT ![s] = @ - 1]
    /\ \A t \in Terminals : spent[t][s] < EACH_NEEDED
    /\ spent' = [t \in Terminals |-> [spent[t] EXCEPT ![s] = @ + 1]]
    /\ UNCHANGED <<ownerOf, changes, session, started, funds, strays>>

OpsInit ==
    /\ DeployInit
    /\ ownerOf \in {f \in [Governors -> {"foundation", "nobody"}] : f[Governor] = "foundation"}
    /\ changes = <<>>
    /\ session = [t \in Terminals |-> Idle]
    /\ started = 0
    /\ balance \in [Servers -> 0..EACH_NEEDED]
    /\ funds = Funds
    /\ spent = [t \in Terminals |-> [s \in Servers |-> 0]]
    /\ strays = {}

ScriptStep ==
    \/ \E t \in Terminals :
          \/ \E g, new \in Governors : StartDelegate(t, g, new)
          \/ CollectAll(t) \/ CheckNewOwner(t) \/ Confirm(t)
          \/ \E g \in Governors, k \in DOMAIN changes : StartExecute(t, g, k)
          \/ StartImplementation(t)
          \/ \E c \in SettingChanges \cup PairChanges : StartRun(t, c)
          \/ CallPromise(t)
          \/ StartTopUp(t) \/ EndTopUp(t) \/ CloseTerminal(t)
          \/ \E s \in Servers : Transfer(t, s)
    \/ \E g \in Governors : ConfigureGovernor(g)
    \/ \E s \in Servers : PayGas(s)

OpsNext ==
    \/ DeployNext /\ UNCHANGED scriptVars
    \/ ScriptStep /\ UNCHANGED deployVars
    \/ /\ \E t \in Terminals : Execute(t)
       /\ UNCHANGED <<config, recorded, completed, processVars, attempts, torn>>

OpsSpec == OpsInit /\ [][OpsNext]_opsVars

-----------------------------------------------------------------------------
(***************************************************************************)
(* Properties.                                                             *)
(***************************************************************************)
\* What change_delegate_governor.js looks for on the network.
Listed ==
    {Deployed(n) : n \in ContractNames}
      \cup PairsOf(Deployed("OracleManager")) \cup PairsOf(Deployed("PriceProviderRegister"))

\* However the scripts of two terminals interleave, and whatever pairs are registered
\* and unregistered between the loops of change_delegate_governor.js and before its
\* change is executed, a contract of the list obeys the same governor as the others,
\* but for those registered out of step: while a list was being made or waited to be
\* executed (they stay with the old governor and the next handover ends at them), or
\* with a contract of another governor.  A change that would move only some of the
\* list is reverted, and a stale list misses nothing else.
ListedTogether ==
    completed = LastMigration =>
       \E g \in Governors : \A a \in Listed \ strays : GovernorOf(a) = {g}

\* The control is handed over, never lost: the governor in force has an owner.
ControlKept ==
    \A g \in Governors :
       (\E a \in Listed : g \in GovernorOf(a)) => ownerOf[g] # "nobody"

\* Executing a change of governor again, after the control has come back, does
\* not give it away a second time.
HandoverOnce ==
    [][\A g \in Governors :
          g \in GovernorOf(Proxy("OracleManager")) /\ g \notin GovernorOf(Proxy("OracleManager"))'
          => \E k \in DOMAIN changes : /\ changes[k].kind = "governor"
                                       /\ ~changes[k].executed /\ changes'[k].executed
      ]_opsVars

\* When the script says ALL DONE every server has had what it needs: what it lacks
\* of it then it has paid for transactions since it was read.
ServersFunded ==
    \A t \in Terminals : Running(t, "topup", "done") =>
       \A s \in Servers : balance[s] + spent[t][s] >= EACH_NEEDED

\* "DO THE SAME AS change_execute": a change that was run is executed, if its
\* governor can.
RunExecutes ==
    \A t \in Terminals :
       Running(t, "run", "ended") /\ Accepted(session[t].change, Governor)
       => changes[session[t].change].executed
=============================================================================
