---------------------------- MODULE AttestorKeys ----------------------------
(***************************************************************************)
(* What the attestor registry promises to the rest of the contract: at     *)
(* any time an address either has one signing key or none, and a key never *)
(* changes while it is in force; to rotate it the address must leave       *)
(* first.  AttestorRegistry implements this specification.                 *)
(***************************************************************************)
EXTENDS Accounts

CONSTANTS
    Key,     \* ed25519 public keys
    NoKey    \* no key stored

ASSUME KeyConstants == NoKey \notin Key

VARIABLE pubkey   \* ATPUBKEY

KeysInit == pubkey = [a \in Addr |-> NoKey]

EnterKey(a, key) ==
    /\ pubkey[a] = NoKey
    /\ pubkey' = [pubkey EXCEPT ![a] = key]

LeaveKey(a) ==
    /\ pubkey[a] # NoKey
    /\ pubkey' = [pubkey EXCEPT ![a] = NoKey]

KeysNext ==
    \E a \in Addr : LeaveKey(a) \/ \E key \in Key : EnterKey(a, key)

KeysSpec == KeysInit /\ [][KeysNext]_pubkey
=============================================================================
