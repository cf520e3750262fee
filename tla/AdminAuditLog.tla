--------------------------- MODULE AdminAuditLog ---------------------------
(***************************************************************************)
(* The admin audit log (src/admin_audit_log.rs): numbered entries in a     *)
(* ring whose size an admin may change, and which may be cleared.  What an *)
(* entry says is never read back, so an entry is its number.               *)
(***************************************************************************)
EXTENDS Integers, FiniteSetsExt

CONSTANTS
    RingSizes,      \* max_entries values; 0 keeps everything
    FirstRingSize,  \* max_entries of the default configuration
    MaxLogged       \* bound on the entries written

ASSUME AdminAuditLogConstants ==
    RingSizes \subseteq Nat /\ FirstRingSize \in RingSizes /\ MaxLogged \in Nat

VARIABLES
    entries,    \* ids of the ADMIN_AUDIT entries stored
    nextEntry,  \* ADMIN_AUDIT_CNT
    ring,       \* ADMIN_AUDIT_CFG: enabled and max
    smallest    \* smallest ring an entry was written under since a clear (ghost)

adminLogVars == <<entries, nextEntry, ring, smallest>>

AdminLogInit ==
    /\ entries = {}
    /\ nextEntry = 0
    /\ ring = [enabled |-> TRUE, max |-> FirstRingSize]
    /\ smallest = MaxLogged

\* A bug NewestEntriesKept must catch: one entry too many is evicted.
EvictedTooMany ==
    IF ring.max > 0 /\ nextEntry >= ring.max THEN {nextEntry - ring.max, nextEntry - ring.max + 1}
                                             ELSE {}

\* What the write of the next entry evicts.
Evicted == IF ring.max > 0 /\ nextEntry >= ring.max THEN {nextEntry - ring.max} ELSE {}

\* write_event: no step while logging is disabled.
WriteEvent ==
    /\ ring.enabled
    /\ nextEntry < MaxLogged
    /\ entries' = (entries \ Evicted) \cup {nextEntry}
    /\ nextEntry' = nextEntry + 1
    /\ smallest' = IF ring.max = 0 THEN smallest ELSE Min({smallest, ring.max})
    /\ UNCHANGED ring

\* set_config touches no entry.
SetLogConfig(enabled, max) ==
    /\ ring' = [enabled |-> enabled, max |-> max]
    /\ UNCHANGED <<entries, nextEntry, smallest>>

\* clear_entries: everything up to the counter, and ids start again.
ClearEntries ==
    /\ entries' = entries \ 0..(nextEntry - 1)
    /\ nextEntry' = 0
    /\ smallest' = MaxLogged
    /\ UNCHANGED ring

AdminLogNext ==
    \/ WriteEvent
    \/ \E enabled \in BOOLEAN, max \in RingSizes : SetLogConfig(enabled, max)
    \/ ClearEntries

AdminLogSpec == AdminLogInit /\ [][AdminLogNext]_adminLogVars

-----------------------------------------------------------------------------
(* Properties *)

\* Whatever happens to the size of the ring, the newest entries are all there, as
\* many as the smallest ring in use since the last clear holds, no entry has a
\* number that will be written again.
NewestEntriesKept ==
    /\ entries \subseteq 0..(nextEntry - 1)
    /\ \A id \in 0..(nextEntry - 1) : id >= nextEntry - smallest => id \in entries
=============================================================================
