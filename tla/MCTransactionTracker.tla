----------------------- MODULE MCTransactionTracker -------------------------
(***************************************************************************)
(* Transactions under a budget of two records.  The full life of one, with *)
(* failures, resumption, import and retention, and short lives of three,   *)
(* so that evictions have a choice, in one state graph; or a tracker in    *)
(* each mode, given the same calls.                                        *)
(***************************************************************************)
EXTENDS TransactionTracker, TLC

CONSTANTS t1, t2, t3

VARIABLE twoModes

mcVars == <<twoModes, txVars, devVars>>

ThreeTx == {t1, t2, t3}
SymmetryOfThree == Permutations(ThreeTx)
MCPolicies == {[age |-> 1, retries |-> 1]}

\* One transaction, created once or more, and all it may go through.
FullLife == Cardinality(ToSet(txIds) \cup archive \cup expired) <= 1

\* Three transactions that are not recovered.
ShortLife ==
    /\ archive = {}
    /\ \A id \in Tx : /\ records[id].meta.retries = 0
                       /\ records[id].state = "Failed" <=> records[id].meta # NoMeta

\* Bound: what a behaviour combines.
Lives == FullLife \/ ShortLife

MCInit == twoModes \in BOOLEAN /\ TxInit /\ DevInit

MCNext ==
    /\ \/ ~twoModes /\ TxNext /\ UNCHANGED devVars
       \/ twoModes /\ DevNext
    /\ UNCHANGED twoModes

MCSpec == MCInit /\ [][MCNext]_mcVars

\* A tracker in development mode and one in production mode that are given the same
\* calls agree.
ModesAgree == twoModes => DevModeAgrees
=============================================================================
