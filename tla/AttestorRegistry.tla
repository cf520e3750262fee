-------------------------- MODULE AttestorRegistry --------------------------
(***************************************************************************)
(* The attestor registry of src/contract.rs: registration, revocation and  *)
(* reactivation through the admin paths and through sessions, composed     *)
(* with Governance (who may call) and Sessions (the session-scoped         *)
(* variants).  A SEP-10 token presented to register_attestor is an input   *)
(* whose check either panics or lets the call go on.                       *)
(***************************************************************************)
EXTENDS Governance, Sessions, FiniteSets, SequencesExt

CONSTANTS
    Key,              \* ed25519 public keys
    NoKey,            \* no key stored
    DefaultCapacity,  \* max_attestors of CapacityConfig::default_config
    MaxCapacity       \* bound: largest max_attestors an admin sets

ASSUME RegistryConstants ==
    /\ NoKey \notin Key
    /\ {"register", "revoke"} \subseteq Kinds
    /\ DefaultCapacity \in Nat
    /\ MaxCapacity \in Nat

VARIABLES
    registered,    \* addresses with an ATTESTOR entry
    pubkey,        \* ATPUBKEY
    revocation,    \* ATREVOC: key preserved for a reactivation
    count,         \* ATCNT
    list,          \* ATLIST
    maxAttestors,  \* CAPCFG.max_attestors
    announced      \* who a consumer of the events takes for registered (ghost)

regVars == <<registered, pubkey, revocation, count, list, maxAttestors,
             announced>>

NoRecord == [key |-> NoKey, reactivated |-> FALSE]

RegInit ==
    /\ GovInit
    /\ SessInit
    /\ registered = {}
    /\ pubkey = [a \in Addr |-> NoKey]
    /\ revocation = [a \in Addr |-> NoRecord]
    /\ count = 0
    /\ list = <<>>
    /\ maxAttestors = DefaultCapacity
    /\ announced = {}

-----------------------------------------------------------------------------
\* A bug ListComplete must catch.
ListedAgain(a) == Append(list, a)

Listed(a) == IF Contains(list, a) THEN list ELSE Append(list, a)

\* A bug ImplementsAttestorKeys must catch: a second registration goes through.
EnterAgain(a, key) ==
    /\ registered' = registered \cup {a}
    /\ pubkey' = [pubkey EXCEPT ![a] = key]
    /\ list' = Listed(a)
    /\ announced' = announced \cup {a}

\* The writes every registration path shares: flag, key, list and event.
Enter(a, key) ==
    /\ a \notin registered
    /\ registered' = registered \cup {a}
    /\ pubkey' = [pubkey EXCEPT ![a] = key]
    /\ list' = Listed(a)
    /\ announced' = announced \cup {a}

\* A bug RegistryConsistent must catch: the key outlives the registration.
LeaveKeepsKey(a) ==
    /\ a \in registered
    /\ registered' = registered \ {a}
    /\ UNCHANGED pubkey

\* The writes every revocation path shares.
Leave(a) ==
    /\ a \in registered
    /\ registered' = registered \ {a}
    /\ pubkey' = [pubkey EXCEPT ![a] = NoKey]

SetCapacityConfig(signer, n) ==
    /\ RequireAdmin(signer)
    /\ maxAttestors' = n
    /\ UNCHANGED <<registered, pubkey, revocation, count, list, announced>>

\* An attestor that holds the role or the capability signs for itself;
\* anybody else is registered by the admin.
RegisterAttestor(signer, a, key) ==
    /\ IF \/ HasRole(a, "AttestorAdmin")
          \/ HasCapability(a, "ManageAttestors")
       THEN signer = a
       ELSE RequireAdmin(signer)
    /\ count < maxAttestors
    /\ Enter(a, key)
    /\ count' = count + 1
    /\ UNCHANGED <<revocation, maxAttestors>>

\* A bug ListComplete must catch: the list keeps the address.
UncountKeepsList(a) ==
    IF count > 0 THEN count' = count - 1 /\ UNCHANGED list
                 ELSE UNCHANGED <<count, list>>

\* The list is only maintained while the counter is positive.
Uncount(a) ==
    IF count > 0 THEN count' = count - 1 /\ list' = RemoveFirst(list, a)
                 ELSE UNCHANGED <<count, list>>

\* A revocation record that says "not reactivated" suppresses the event.
RevokeAttestor(signer, a) ==
    /\ RequireAdmin(signer)
    /\ Leave(a)
    /\ revocation' = [revocation EXCEPT ![a] =
                        [key |-> pubkey[a], reactivated |-> FALSE]]
    /\ Uncount(a)
    /\ announced' = IF revocation[a] # NoRecord /\ ~revocation[a].reactivated
                    THEN announced ELSE announced \ {a}
    /\ UNCHANGED maxAttestors

\* Restores the key of the revocation record; the capacity is not consulted.
ReactivateAttestor(signer, a) ==
    /\ RequireAdmin(signer)
    /\ revocation[a] # NoRecord
    /\ Enter(a, revocation[a].key)
    /\ revocation' = [revocation EXCEPT ![a].reactivated = TRUE]
    /\ count' = count + 1
    /\ UNCHANGED maxAttestors

\* The session-scoped variants skip the counter, the capacity and the
\* revocation record.
RegisterAttestorWithSession(operator, s, a, key) ==
    /\ RequireAdminOrRole(operator, operator, "AttestorAdmin")
    /\ SessionOp(s, operator, "register")
    /\ Enter(a, key)
    /\ UNCHANGED <<revocation, count, maxAttestors>>

\* A bug SessSpec must catch: the operation is counted but not logged.
RevokeUnlogged(operator, s, a) ==
    /\ RequireAdminOrRole(operator, operator, "AttestorAdmin")
    /\ SessionOpen(s)
    /\ sessions' = [sessions EXCEPT ![s].state = "Active"]
    /\ opCount' = [opCount EXCEPT ![s] = @ + 1]
    /\ outcome' = Returned
    /\ UNCHANGED <<now, nextSession, slog, audit, logCount, retention, threshold>>
    /\ Leave(a)
    /\ list' = RemoveFirst(list, a)
    /\ announced' = announced \ {a}
    /\ UNCHANGED <<revocation, count, maxAttestors>>

RevokeAttestorWithSession(operator, s, a) ==
    /\ RequireAdminOrRole(operator, operator, "AttestorAdmin")
    /\ SessionOp(s, operator, "revoke")
    /\ Leave(a)
    /\ list' = RemoveFirst(list, a)
    /\ announced' = announced \ {a}
    /\ UNCHANGED <<revocation, count, maxAttestors>>

-----------------------------------------------------------------------------
\* Calls of the registry that involve no session.
RegistryCall ==
    \E signer \in Addr :
        \/ \E n \in 0..MaxCapacity : SetCapacityConfig(signer, n)
        \/ \E a \in Addr :
             \/ RevokeAttestor(signer, a)
             \/ ReactivateAttestor(signer, a)
             \/ \E key \in Key : RegisterAttestor(signer, a, key)

RegistrySessionCall ==
    \E operator \in Addr, s \in SessionId, a \in Addr :
        \/ RevokeAttestorWithSession(operator, s, a)
        \/ \E key \in Key : RegisterAttestorWithSession(operator, s, a, key)

RegNext ==
    \/ GovNext /\ UNCHANGED <<sessVars, regVars>>
    \/ SessionUserCall /\ UNCHANGED <<govVars, regVars>>
    \/ admin # NoAddr /\ SessionAdminCall /\ UNCHANGED <<govVars, regVars>>
    \/ RegistryCall /\ UNCHANGED <<govVars, sessVars>>
    \/ RegistrySessionCall /\ UNCHANGED govVars

registryVars == <<govVars, sessVars, regVars>>

RegSpec == RegInit /\ [][RegNext]_registryVars

-----------------------------------------------------------------------------
(* Properties *)

\* Types of the registry storage of src/contract.rs.
RegTypeOK ==
    /\ registered \subseteq Addr
    /\ pubkey \in [Addr -> Key \cup {NoKey}]
    /\ revocation \in [Addr -> [key : Key \cup {NoKey}, reactivated : BOOLEAN]]
    /\ count \in Nat
    /\ maxAttestors \in Nat
    /\ announced \subseteq Addr

\* Five paths write the registration flag and the signing key under separate
\* storage keys: an address can sign exactly while it is registered, a
\* reactivation always finds a key to restore, and whoever is registered has
\* been announced to event consumers.
RegistryConsistent ==
    /\ \A a \in Addr : a \in registered <=> pubkey[a] # NoKey
    /\ \A a \in Addr : revocation[a].reactivated => revocation[a].key # NoKey
    /\ registered \subseteq announced

\* The registry implements AttestorKeys, the view the submission paths have
\* of it: whichever of the five paths runs, a key is only ever added for an
\* address that has none, and never replaced in place.
Keys == INSTANCE AttestorKeys WITH pubkey <- pubkey

ImplementsAttestorKeys == Keys!KeysSpec

\* list_registered_attestors misses nobody and repeats nobody, whichever of the
\* five paths ran; and as long as no session-scoped call has touched the registry,
\* the counter, the list and the flags agree.
ListComplete ==
    /\ RegTypeOK
    /\ registered \subseteq ToSet(list)
    /\ Cardinality(ToSet(list)) = Len(list)
    /\ (\A s \in SessionId : opCount[s] = 0) =>
         /\ count = Cardinality(registered)
         /\ ToSet(list) = registered
=============================================================================
