---------------------------- MODULE OracleDirectory ----------------------------
(***************************************************************************)
(* What contracts/OracleManager.sol promises to its callers: a directory   *)
(* of oracles and one of coin pairs, with no arrays and no indexes.        *)
(*                                                                         *)
(* Each registered owner has one oracle address, of which ownerOf tells    *)
(* the owner: a signature is worth a vote of that owner.  ownerOf may know *)
(* more addresses than are in use: those an owner had before, if its       *)
(* registration is as old as the version that did not forget them, and     *)
(* address(0), which setOracleAddress accepts and does not forget.         *)
(***************************************************************************)
CONSTANTS Owners, Addresses, Zero, Pairs, Contracts

VARIABLES
    oracleOf,               \* of each registered owner
    ownerOf,                \* the owner of an oracle address, or Zero
    contractOf              \* of each registered coin pair

directoryVars == <<oracleOf, ownerOf, contractOf>>

Registered == DOMAIN oracleOf
InUse      == {oracleOf[o] : o \in Registered}

\* What an address that is given up is worth from then on.
Forgotten(a) == IF a = Zero THEN ownerOf[a] ELSE Zero

Enrol(o, a) ==
    /\ o \notin Registered
    /\ a # Zero /\ ownerOf[a] = Zero
    /\ oracleOf' = [p \in Registered \cup {o} |-> IF p = o THEN a ELSE oracleOf[p]]
    /\ ownerOf' = [ownerOf EXCEPT ![a] = o]
    /\ UNCHANGED contractOf

Move(o, a) ==
    /\ o \in Registered
    /\ ownerOf[a] = Zero
    /\ oracleOf' = [oracleOf EXCEPT ![o] = a]
    /\ ownerOf' = [ownerOf EXCEPT ![oracleOf[o]] = Forgotten(oracleOf[o]), ![a] = o]
    /\ UNCHANGED contractOf

Strike(o) ==
    /\ o \in Registered
    /\ oracleOf' = [p \in Registered \ {o} |-> oracleOf[p]]
    /\ ownerOf' = [ownerOf EXCEPT ![oracleOf[o]] = Zero]
    /\ UNCHANGED contractOf

Forget(a) ==
    /\ a \notin InUse
    /\ ownerOf' = [ownerOf EXCEPT ![a] = Zero]
    /\ UNCHANGED <<oracleOf, contractOf>>

AddPair(p, c) ==
    /\ p \notin DOMAIN contractOf
    /\ contractOf' = [q \in DOMAIN contractOf \cup {p} |-> IF q = p THEN c ELSE contractOf[q]]
    /\ UNCHANGED <<oracleOf, ownerOf>>

DropPair(p) ==
    /\ p \in DOMAIN contractOf
    /\ contractOf' = [q \in DOMAIN contractOf \ {p} |-> contractOf[q]]
    /\ UNCHANGED <<oracleOf, ownerOf>>

DirectoryInit ==
    /\ oracleOf = [o \in {} |-> Zero]
    /\ ownerOf \in [Addresses -> Owners \cup {Zero}]
    /\ contractOf = [p \in {} |-> Zero]

DirectoryNext ==
    \/ \E o \in Owners : Strike(o) \/ \E a \in Addresses : Enrol(o, a) \/ Move(o, a)
    \/ \E a \in Addresses : Forget(a)
    \/ \E p \in Pairs : DropPair(p) \/ \E c \in Contracts : AddPair(p, c)

DirectorySpec == DirectoryInit /\ [][DirectoryNext]_directoryVars

-----------------------------------------------------------------------------
\* What the callers want: the address that an owner publishes from is known to
\* be that owner's, so no two owners share one.
EachHasItsOwn == \A o \in Registered : ownerOf[oracleOf[o]] = o
=============================================================================
