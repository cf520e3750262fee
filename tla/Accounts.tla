------------------------------ MODULE Accounts ------------------------------
(***************************************************************************)
(* Account addresses, shared by the component modules of the contract.     *)
(* They are opaque: the contract only compares them and asks the host      *)
(* whether one has signed the call.                                        *)
(***************************************************************************)
CONSTANTS
    Addr,    \* account addresses
    NoAddr   \* a storage slot that holds no address

ASSUME NoAddrAssumption == NoAddr \notin Addr
=============================================================================
