--------------------------- MODULE MCAttestations ---------------------------
(***************************************************************************)
(* Two issuers, two payload hashes, one session of two operations, batches *)
(* of up to two entries and room for three attestations; or, while traced, *)
(* two root requests or one and a child, two named operations and spans    *)
(* that live for one ledger.                                               *)
(***************************************************************************)
EXTENDS ContractReads

CONSTANTS alice, bob, h1, h2

VARIABLE traced

mcVars == <<traced, allVars, traceVars>>

MCAddr == {alice, bob}
MCHash == {h1, h2}
Symmetry == Permutations(MCAddr) \cup Permutations(MCHash)

MCLimit == [max |-> 2, window |-> 1]
MCLimits == {}

MCInit == traced \in BOOLEAN /\ AttInit /\ TraceInit

\* Bound: submissions see one ledger close, between the first two attestations.
Submissions ==
    /\ ~traced
    /\ AttNext
    /\ ledger' < MaxLedger
    /\ ledger' # ledger => counter = 1
    /\ UNCHANGED <<traced, traceVars>>

\* Bound: two requests, one attestation, and one attestor, whose key stays.
Requests ==
    /\ traced
    /\ TraceNext
    /\ counter' < 2
    /\ Cardinality(issued') <= 2
    /\ \E a \in Addr : pubkey'[a] = NoKey
    /\ \A a \in Addr : pubkey'[a] \in {pubkey[a]} \cup Key
    /\ UNCHANGED traced

MCNext == Submissions \/ Requests

MCSpec == MCInit /\ [][MCNext]_mcVars
=============================================================================
