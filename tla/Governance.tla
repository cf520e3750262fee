----------------------------- MODULE Governance -----------------------------
(***************************************************************************)
(* Initialization, the two-step transfer of the primary admin, and the     *)
(* roles and capabilities it delegates (src/contract.rs).  The signer of a *)
(* call is a parameter of its action: require_auth is the comparison with  *)
(* it.  Entries of the admin action log are not part of this state.        *)
(***************************************************************************)
EXTENDS Accounts

CONSTANTS
    Roles,         \* AdminRole variants
    Capabilities   \* AdminCapability variants

ASSUME GovernanceConstants ==
    Roles \subseteq {"KycAdmin", "AttestorAdmin", "CacheAdmin"}

VARIABLES
    initialized,   \* the persistent INITIALIZED flag
    admin,         \* ADMIN
    pendingAdmin,  \* PADMIN
    roles,         \* pairs <<role, grantee>> with a stored grant
    caps,          \* pairs <<capability, grantee>> with a stored grant
    proposer       \* who proposed pendingAdmin (ghost)

govVars == <<initialized, admin, pendingAdmin, roles, caps, proposer>>

GovInit ==
    /\ initialized = FALSE
    /\ admin = NoAddr
    /\ pendingAdmin = NoAddr
    /\ roles = {}
    /\ caps = {}
    /\ proposer = NoAddr

-----------------------------------------------------------------------------
(* Authorization guards *)

\* require_admin: NotInitialized before initialize, else the admin signs.
RequireAdmin(signer) == admin # NoAddr /\ signer = admin

\* The primary admin implicitly holds every role and capability.
HasRole(a, role) == a = admin \/ <<role, a>> \in roles

HasCapability(a, cap) == a = admin \/ <<cap, a>> \in caps

\* require_admin_or_role: the caller holds the role, and signs.
RequireAdminOrRole(signer, caller, role) ==
    HasRole(caller, role) /\ signer = caller

-----------------------------------------------------------------------------
(* Operations *)

\* Bugs InitializedIffAdmin and AdminChangesByTransfer must catch.
InitializeWithoutFlag(signer) ==
    /\ ~initialized
    /\ admin' = signer
    /\ UNCHANGED <<initialized, pendingAdmin, roles, caps, proposer>>

InitializeAgain(signer) ==
    /\ initialized' = TRUE
    /\ admin' = signer
    /\ UNCHANGED <<pendingAdmin, roles, caps, proposer>>

Initialize(signer) ==
    /\ ~initialized
    /\ initialized' = TRUE
    /\ admin' = signer
    /\ UNCHANGED <<pendingAdmin, roles, caps, proposer>>

ProposeAdminTransfer(signer, newAdmin) ==
    /\ RequireAdmin(signer)
    /\ pendingAdmin' = newAdmin
    /\ proposer' = signer
    /\ UNCHANGED <<initialized, admin, roles, caps>>

\* A bug ProposalByCurrentAdmin must catch: the proposal stays in its slot and
\* could be accepted again after the new admin has passed the contract on.
AcceptKeepsProposal(signer) ==
    /\ pendingAdmin # NoAddr
    /\ signer = pendingAdmin
    /\ admin' = pendingAdmin
    /\ UNCHANGED <<initialized, pendingAdmin, proposer, roles, caps>>

AcceptAdminTransfer(signer) ==
    /\ pendingAdmin # NoAddr
    /\ signer = pendingAdmin
    /\ admin' = pendingAdmin
    /\ pendingAdmin' = NoAddr
    /\ proposer' = NoAddr
    /\ UNCHANGED <<initialized, roles, caps>>

GrantRole(signer, grantee, role) ==
    /\ RequireAdmin(signer)
    /\ roles' = roles \cup {<<role, grantee>>}
    /\ UNCHANGED <<initialized, admin, pendingAdmin, caps, proposer>>

RevokeRole(signer, grantee, role) ==
    /\ RequireAdmin(signer)
    /\ roles' = roles \ {<<role, grantee>>}
    /\ UNCHANGED <<initialized, admin, pendingAdmin, caps, proposer>>

GrantCapability(signer, grantee, cap) ==
    /\ RequireAdmin(signer)
    /\ caps' = caps \cup {<<cap, grantee>>}
    /\ UNCHANGED <<initialized, admin, pendingAdmin, roles, proposer>>

RevokeCapability(signer, grantee, cap) ==
    /\ RequireAdmin(signer)
    /\ caps' = caps \ {<<cap, grantee>>}
    /\ UNCHANGED <<initialized, admin, pendingAdmin, roles, proposer>>

GovNext ==
    \E signer \in Addr :
        \/ Initialize(signer)
        \/ AcceptAdminTransfer(signer)
        \/ \E a \in Addr :
             \/ ProposeAdminTransfer(signer, a)
             \/ \E role \in Roles :
                  GrantRole(signer, a, role) \/ RevokeRole(signer, a, role)
             \/ \E cap \in Capabilities :
                  GrantCapability(signer, a, cap) \/ RevokeCapability(signer, a, cap)

GovSpec == GovInit /\ [][GovNext]_govVars

-----------------------------------------------------------------------------
(* Properties *)

\* Types of the governance storage of src/contract.rs.
GovTypeOK ==
    /\ initialized \in BOOLEAN
    /\ admin \in Addr \cup {NoAddr}
    /\ pendingAdmin \in Addr \cup {NoAddr}
    /\ roles \subseteq Roles \X Addr
    /\ caps \subseteq Capabilities \X Addr
    /\ proposer \in Addr \cup {NoAddr}

\* A transfer that can still be accepted was proposed by whoever is the admin
\* now: no admin leaves behind an offer that survives its own replacement.
ProposalByCurrentAdmin ==
    pendingAdmin # NoAddr => admin # NoAddr /\ proposer = admin

\* Delegated authority exists only in an initialized contract, and the flag
\* that blocks a second initialize is set exactly while there is an admin.
InitializedIffAdmin ==
    /\ initialized <=> admin # NoAddr
    /\ roles # {} \/ caps # {} => initialized

\* An admin is replaced only by the address it had proposed; in particular
\* nobody can initialize the contract again.
AdminChangesByTransfer ==
    [][admin # NoAddr => admin' \in {admin, pendingAdmin} \ {NoAddr}]_govVars
=============================================================================
