-------------------------------- MODULE Kyc ---------------------------------
(***************************************************************************)
(* KYC records and compliance checks (src/contract.rs), composed with      *)
(* Governance, which decides who may review.  The registered attestors,    *)
(* the only ones who may submit, are a constant set here.                  *)
(***************************************************************************)
EXTENDS Governance, Naturals, Sequences

CONSTANTS
    Attestor,      \* addresses check_attestor accepts
    Subject,       \* subjects of KYC records
    DataHash,      \* hashes of submitted KYC data
    NoHash,        \* no KYCDATA entry
    CheckType,     \* compliance check types
    Cooldown,      \* 86400 seconds between submissions
    KycExpiry,     \* KYC_EXPIRY_SECONDS
    NoTime,        \* None of the optional timestamps
    MaxChecks,     \* bound on the compliance checks recorded
    MaxClock       \* bound: the ledger timestamp stops here

ASSUME KycConstants ==
    /\ Attestor \subseteq Addr
    /\ NoHash \notin DataHash
    /\ Cooldown \in Nat
    /\ KycExpiry \in Nat
    /\ NoTime \notin Nat
    /\ MaxChecks \in Nat
    /\ MaxClock \in Nat

VARIABLES
    clock,        \* env.ledger().timestamp()
    kyc,          \* subject -> KycRecord
    dataHash,     \* KYCDATA
    latest,       \* latest compliance check of a subject and type
    history,      \* its ordered history
    checkIndex,   \* the check types recorded for a subject
    submissions,  \* submissions accepted per subject (ghost)
    decisions,    \* approvals and rejections per subject (ghost)
    approved      \* the data hash the latest approval was given for (ghost)

kycStore == <<kyc, dataHash>>
checkStore == <<latest, history, checkIndex>>
kycGhosts == <<submissions, decisions, approved>>
kycVars == <<clock, kycStore, checkStore, kycGhosts>>

KycStatus == {"NotSubmitted", "Pending", "Approved", "Rejected", "Expired", "Reopened"}

\* A missing record is one whose status reads NotSubmitted.
NoRecord == [status |-> "NotSubmitted", submittedAt |-> 0,
             reviewedAt |-> NoTime, expiry |-> NoTime]
NoCheck == "none"
\* The result of a check; its timestamp and provider are left out.
CheckResult == {"passed", "failed"}

KycInit ==
    /\ GovInit
    /\ clock = 0
    /\ kyc = [s \in Subject |-> NoRecord]
    /\ dataHash = [s \in Subject |-> NoHash]
    /\ latest = [s \in Subject |-> [t \in CheckType |-> NoCheck]]
    /\ history = [s \in Subject |-> [t \in CheckType |-> <<>>]]
    /\ checkIndex = [s \in Subject |-> <<>>]
    /\ submissions = [s \in Subject |-> 0]
    /\ decisions = [s \in Subject |-> 0]
    /\ approved = [s \in Subject |-> NoHash]

-----------------------------------------------------------------------------
\* A bug KycSound must catch: the expiry is never consulted.
StatusAsStored(s) == kyc[s].status

\* current_kyc_status, get_kyc_status, get_kyc_status_internal
CurrentStatus(s) ==
    IF kyc[s].expiry # NoTime /\ clock > kyc[s].expiry
    THEN "Expired" ELSE kyc[s].status

\* A bug KycSound must catch: a pending record is replaced.
EdgesWithResubmission ==
    {<<"NotSubmitted", "Pending">>, <<"Expired", "Pending">>,
     <<"Rejected", "Pending">>, <<"Reopened", "Pending">>,
     <<"Pending", "Approved">>, <<"Pending", "Rejected">>,
     <<"Rejected", "Reopened">>, <<"Pending", "Pending">>}

KycEdges ==
    {<<"NotSubmitted", "Pending">>, <<"Expired", "Pending">>,
     <<"Rejected", "Pending">>, <<"Reopened", "Pending">>,
     <<"Pending", "Approved">>, <<"Pending", "Rejected">>,
     <<"Rejected", "Reopened">>}

\* Every resubmission waits for the cooldown, whatever state it starts from.
ValidKycTransition(s, next) ==
    /\ next = "Pending" => clock - kyc[s].submittedAt >= Cooldown
    /\ <<CurrentStatus(s), next>> \in KycEdges

\* A coarse role or a fine-grained capability; reopen_kyc takes the role only.
MayReview(operator) ==
    HasRole(operator, "KycAdmin") \/ HasCapability(operator, "ManageKyc")

SubmitKyc(attestor, s, h) ==
    /\ attestor \in Attestor
    /\ kyc[s] # NoRecord => ValidKycTransition(s, "Pending")
    /\ kyc' = [kyc EXCEPT ![s] = [status |-> "Pending", submittedAt |-> clock,
                                  reviewedAt |-> NoTime, expiry |-> NoTime]]
    /\ dataHash' = [dataHash EXCEPT ![s] = h]
    /\ submissions' = [submissions EXCEPT ![s] = @ + 1]
    /\ UNCHANGED <<clock, checkStore, decisions, approved>>

ApprovalExpiry == clock + KycExpiry

ApproveKyc(operator, s) ==
    /\ MayReview(operator)
    /\ kyc[s] # NoRecord
    /\ ValidKycTransition(s, "Approved")
    /\ kyc' = [kyc EXCEPT ![s].status = "Approved",
                          ![s].reviewedAt = clock,
                          ![s].expiry = ApprovalExpiry]
    /\ decisions' = [decisions EXCEPT ![s] = @ + 1]
    /\ approved' = [approved EXCEPT ![s] = dataHash[s]]
    /\ UNCHANGED <<clock, dataHash, checkStore, submissions>>

RejectKyc(operator, s) ==
    /\ MayReview(operator)
    /\ kyc[s] # NoRecord
    /\ ValidKycTransition(s, "Rejected")
    /\ kyc' = [kyc EXCEPT ![s].status = "Rejected",
                          ![s].reviewedAt = clock,
                          ![s].expiry = NoTime]
    /\ decisions' = [decisions EXCEPT ![s] = @ + 1]
    /\ UNCHANGED <<clock, dataHash, checkStore, submissions, approved>>

ReopenKyc(operator, s) ==
    /\ RequireAdminOrRole(operator, operator, "KycAdmin")
    /\ kyc[s] # NoRecord
    /\ ValidKycTransition(s, "Reopened")
    /\ kyc' = [kyc EXCEPT ![s].status = "Reopened", ![s].reviewedAt = clock]
    /\ UNCHANGED <<clock, dataHash, checkStore, kycGhosts>>

\* A bug KycSound must catch: the type is indexed on every check.
IndexedAgain(s, t) == Append(checkIndex[s], t)

Indexed(s, t) ==
    IF \E i \in 1..Len(checkIndex[s]) : checkIndex[s][i] = t
    THEN checkIndex[s] ELSE Append(checkIndex[s], t)

\* record_compliance_check: latest entry, history entry and type index.
RecordComplianceCheck(signer, s, t, result) ==
    /\ RequireAdmin(signer)
    /\ Len(history[s][t]) < MaxChecks
    /\ latest' = [latest EXCEPT ![s][t] = result]
    /\ history' = [history EXCEPT ![s][t] = Append(@, result)]
    /\ checkIndex' = [checkIndex EXCEPT ![s] = Indexed(s, t)]
    /\ UNCHANGED <<clock, kycStore, kycGhosts>>

ClockTick ==
    /\ clock < MaxClock
    /\ clock' = clock + 1
    /\ UNCHANGED <<kycStore, checkStore, kycGhosts>>

KycCall ==
    \/ ClockTick
    \/ \E s \in Subject, a \in Addr :
         \/ \E h \in DataHash : SubmitKyc(a, s, h)
         \/ ApproveKyc(a, s)
         \/ RejectKyc(a, s)
         \/ ReopenKyc(a, s)
         \/ \E t \in CheckType, result \in CheckResult :
              RecordComplianceCheck(a, s, t, result)

KycNext ==
    \/ KycCall /\ UNCHANGED govVars
    \/ GovNext /\ UNCHANGED kycVars

KycSpec == KycInit /\ [][KycNext]_<<govVars, kycVars>>

-----------------------------------------------------------------------------
(* Properties *)

OptTime == Nat \cup {NoTime}

\* Types of the KYC and compliance storage of src/contract.rs.
KycTypeOK ==
    /\ clock \in Nat
    /\ kyc \in [Subject -> [status : KycStatus, submittedAt : Nat,
                            reviewedAt : OptTime, expiry : OptTime]]
    /\ dataHash \in [Subject -> DataHash \cup {NoHash}]
    /\ latest \in [Subject -> [CheckType -> CheckResult \cup {NoCheck}]]
    /\ submissions \in [Subject -> Nat]
    /\ decisions \in [Subject -> Nat]
    /\ approved \in [Subject -> DataHash \cup {NoHash}]

\* Every submission is decided at most once, and a record is open for a
\* decision exactly while its latest submission has none: expiry, reopening
\* and resubmission never make a decided submission decidable again.
EachSubmissionDecidedOnce ==
    \A s \in Subject :
        submissions[s] = decisions[s] + (IF CurrentStatus(s) = "Pending" THEN 1 ELSE 0)

\* A subject reads as approved only for the data that was reviewed, only
\* after the submission of that data, and only until the approval expires.
ApprovalIsForReviewedData ==
    \A s \in Subject : CurrentStatus(s) = "Approved" =>
        /\ dataHash[s] = approved[s]
        /\ kyc[s].submittedAt <= kyc[s].reviewedAt
        /\ clock <= kyc[s].reviewedAt + KycExpiry

\* Only an approval can expire: no later decision or submission inherits the
\* expiry of an earlier approval.
OnlyApprovalsExpire ==
    \A s \in Subject : kyc[s].expiry # NoTime <=> kyc[s].status = "Approved"

\* The latest check of a type is the last entry of its history, and the index
\* of a subject lists each recorded type once.
ChecksConsistent ==
    \A s \in Subject :
        /\ \A t \in CheckType :
             LET h == history[s][t]
             IN  latest[s][t] = IF h = <<>> THEN NoCheck ELSE h[Len(h)]
        /\ {checkIndex[s][i] : i \in 1..Len(checkIndex[s])}
             = {t \in CheckType : history[s][t] # <<>>}
        /\ \A i, j \in 1..Len(checkIndex[s]) :
             checkIndex[s][i] = checkIndex[s][j] => i = j

\* What the KYC records and the compliance checks promise, under every change
\* of the roles and capabilities of the reviewers.
KycSound ==
    /\ GovTypeOK
    /\ KycTypeOK
    /\ EachSubmissionDecidedOnce
    /\ ApprovalIsForReviewedData
    /\ OnlyApprovalsExpire
    /\ ChecksConsistent
=============================================================================
