------------------------ MODULE MCSessionsAndLimits -------------------------
(***************************************************************************)
(* What stands between an attestor and a submission, one part at a time:   *)
(* two sessions of two operations with their shared audit log; and two     *)
(* attestors under global, role and address limits, a bucket and a fair    *)
(* share that change at any time, chosen so that windows, buckets and the  *)
(* shared window all fill up and expire at different ledgers.              *)
(***************************************************************************)
EXTENDS Sessions, RateLimiter, TLC

CONSTANTS alice, bob

VARIABLE part

mcVars == <<part, sessVars, rlVars>>

MCAddr == {alice, bob}
Symmetry == Permutations(MCAddr)

TwoPerTwo == [max |-> 2, window |-> 2]
TwoPerThree == [max |-> 2, window |-> 3]
TwoLimits == {TwoPerTwo, TwoPerThree}

SmallBucket == {[capacity |-> 1, refill |-> 1]}
HalfShare == {[share |-> 50, minTotal |-> 2]}

MCInit == part \in {"sessions", "limits"} /\ SessInit /\ RlInit

\* Bound: the first operation of a session is of a kind that tells it from the other
\* session's; so the two together have each kind follow each kind.
FirstKind ==
    \A log \in audit' \ audit :
        log.index = 0 => log.kind = (IF log.session = 0 THEN "attest" ELSE "revoke")

SessionPart ==
    /\ part = "sessions"
    /\ SessNext
    /\ FirstKind
    /\ UNCHANGED <<part, rlVars>>

\* Bound: a bucket and a fair share, but never both.
BucketOrShare == burstConfig' = NoConfig \/ fairConfig' = NoConfig

LimitPart ==
    /\ part = "limits"
    /\ RlNext
    /\ BucketOrShare
    /\ UNCHANGED <<part, sessVars>>

MCNext == SessionPart \/ LimitPart

MCSpec == MCInit /\ [][MCNext]_mcVars
=============================================================================
