----------------------------- MODULE KycProofs ------------------------------
(***************************************************************************)
(* Proofs about Governance, Kyc and Quotes, for any sets of addresses,     *)
(* roles, subjects, hashes, check types and reasons, any cooldown and      *)
(* expiry, and any number of quotes.  Kyc and Quotes are both composed     *)
(* with Governance, whose invariant GovInv is used: a step of either is a  *)
(* step of Governance or leaves its state alone.                           *)
(***************************************************************************)
EXTENDS QuoteAcceptance, FiniteSetTheorems, TLAPS

-----------------------------------------------------------------------------
(* Governance, for any set of addresses, roles and capabilities.  The two  *)
(* invariants support each other: an offer names the current admin as its  *)
(* proposer because accepting it clears it, and nobody can be made admin   *)
(* before initialize because only an admin can make an offer.              *)

GovInv ==
    /\ GovTypeOK
    /\ ProposalByCurrentAdmin
    /\ InitializedIffAdmin

\* At the start there is neither an admin nor an offer.
LEMMA GovInvInit == GovInit => GovInv
    BY DEF GovInit, GovInv, GovTypeOK, ProposalByCurrentAdmin, InitializedIffAdmin

\* Every call that changes the admin changes flag and offer with it.
LEMMA GovInvStep == GovInv /\ [GovNext]_govVars => GovInv'
<1> SUFFICES ASSUME GovInv, [GovNext]_govVars PROVE GovInv'
    OBVIOUS
<1> USE NoAddrAssumption
    DEF NoAddrAssumption, GovInv, GovTypeOK, ProposalByCurrentAdmin, InitializedIffAdmin
<1>1. ASSUME NEW signer \in Addr, Initialize(signer) PROVE GovInv'
    BY <1>1 DEF Initialize
<1>2. ASSUME NEW signer \in Addr, AcceptAdminTransfer(signer) PROVE GovInv'
    BY <1>2 DEF AcceptAdminTransfer
<1>3. ASSUME NEW signer \in Addr, NEW a \in Addr, ProposeAdminTransfer(signer, a)
      PROVE  GovInv'
    BY <1>3 DEF ProposeAdminTransfer, RequireAdmin
<1>4. ASSUME NEW signer \in Addr, NEW a \in Addr, NEW role \in Roles,
             GrantRole(signer, a, role) \/ RevokeRole(signer, a, role)
      PROVE  GovInv'
    BY <1>4 DEF GrantRole, RevokeRole, RequireAdmin
<1>5. ASSUME NEW signer \in Addr, NEW a \in Addr, NEW cap \in Capabilities,
             GrantCapability(signer, a, cap) \/ RevokeCapability(signer, a, cap)
      PROVE  GovInv'
    BY <1>5 DEF GrantCapability, RevokeCapability, RequireAdmin
<1>6. CASE UNCHANGED govVars
    BY <1>6 DEF govVars
<1> QED
    BY <1>1, <1>2, <1>3, <1>4, <1>5, <1>6 DEF GovNext

\* GovInv holds throughout.
LEMMA GovInvariant == GovSpec => []GovInv
    BY GovInvInit, GovInvStep, PTL DEF GovSpec

\* No admin leaves behind an offer that outlives its own replacement.
THEOREM ProposalByCurrentAdminHolds == GovSpec => []ProposalByCurrentAdmin
    BY GovInvariant, PTL DEF GovInv

\* The flag that blocks a second initialize is set exactly while there is an
\* admin, and nothing is delegated before that.
THEOREM InitializedIffAdminHolds == GovSpec => []InitializedIffAdmin
    BY GovInvariant, PTL DEF GovInv

\* One step replaces an admin only by the address it had proposed.
LEMMA AdminStep ==
    ASSUME GovInv, [GovNext]_govVars, admin # NoAddr
    PROVE  admin' \in {admin, pendingAdmin} \ {NoAddr}
    BY DEF GovInv, InitializedIffAdmin, GovNext, Initialize, AcceptAdminTransfer,
           ProposeAdminTransfer, GrantRole, RevokeRole, GrantCapability,
           RevokeCapability, govVars

\* An admin is replaced only by the address it had proposed.
THEOREM AdminChangesByTransferHolds == GovSpec => AdminChangesByTransfer
<1>1. GovInv /\ [GovNext]_govVars =>
        [admin # NoAddr => admin' \in {admin, pendingAdmin} \ {NoAddr}]_govVars
    BY AdminStep
<1> QED
    BY <1>1, GovInvariant, PTL DEF GovSpec, AdminChangesByTransfer

-----------------------------------------------------------------------------
(* KYC records *)

\* Types of the compliance histories, which KycTypeOK leaves to the checks.
HistoryTypeOK ==
    /\ history \in [Subject -> [CheckType -> Seq(CheckResult)]]
    /\ checkIndex \in [Subject -> Seq(CheckType)]

\* The same promises about the stored status: what is read as pending is stored as
\* pending, because only an approval carries an expiry and it runs from its review.
RecordInv(s) ==
    /\ kyc[s].status # "Expired"
    /\ kyc[s].submittedAt <= clock
    /\ submissions[s] = decisions[s] + (IF kyc[s].status = "Pending" THEN 1 ELSE 0)
    /\ kyc[s].expiry # NoTime <=> kyc[s].status = "Approved"
    /\ kyc[s].status = "Approved" =>
         /\ kyc[s].reviewedAt \in Nat
         /\ kyc[s].expiry = kyc[s].reviewedAt + KycExpiry
         /\ kyc[s].submittedAt <= kyc[s].reviewedAt
         /\ dataHash[s] = approved[s]

KycRecord ==
    [status : KycStatus, submittedAt : Nat, reviewedAt : OptTime, expiry : OptTime]

KycInv ==
    /\ GovInv
    /\ KycTypeOK
    /\ HistoryTypeOK
    /\ \A s \in Subject : RecordInv(s)
    /\ ChecksConsistent

\* At the start no subject has a record and no check is stored.
LEMMA KycInvInit == KycInit => KycInv
<1> SUFFICES ASSUME KycInit PROVE KycInv
    OBVIOUS
<1>1. GovInv
    BY GovInvInit DEF KycInit
<1>2. KycTypeOK
    BY KycConstants
    DEF KycInit, KycTypeOK, KycConstants, NoRecord, KycStatus, OptTime, CheckResult
<1>3. HistoryTypeOK
    BY DEF KycInit, HistoryTypeOK
<1>4. ASSUME NEW s \in Subject PROVE RecordInv(s)
    BY <1>4, KycConstants DEF KycInit, RecordInv, NoRecord, KycConstants
<1>5. ChecksConsistent
    BY DEF KycInit, ChecksConsistent
<1> QED
    BY <1>1, <1>2, <1>3, <1>4, <1>5 DEF KycInv

\* A submission, a review and the clock keep every record within its promises.
LEMMA RecordStep ==
    ASSUME KycInv, KycCall
    PROVE  KycTypeOK' /\ \A s \in Subject : RecordInv(s)'
<1> USE KycConstants DEF KycConstants, KycInv, KycTypeOK, OptTime, kycStore, checkStore, kycGhosts
<1>1. CASE ClockTick
    BY <1>1 DEF ClockTick, RecordInv
<1>2. ASSUME NEW s \in Subject, NEW a \in Addr, NEW h \in DataHash, SubmitKyc(a, s, h)
      PROVE  KycTypeOK' /\ \A u \in Subject : RecordInv(u)'
  <2>1. kyc[s].status # "Pending"
    BY <1>2 DEF SubmitKyc, ValidKycTransition, CurrentStatus, KycEdges, RecordInv, NoRecord
  <2> DEFINE new == [status |-> "Pending", submittedAt |-> clock,
                     reviewedAt |-> NoTime, expiry |-> NoTime]
  <2>2. new \in KycRecord
    BY DEF KycRecord, KycStatus
  <2>3. /\ kyc' = [kyc EXCEPT ![s] = new]
        /\ dataHash' = [dataHash EXCEPT ![s] = h]
        /\ submissions' = [submissions EXCEPT ![s] = @ + 1]
        /\ UNCHANGED <<clock, latest, history, checkIndex, decisions, approved>>
    BY <1>2 DEF SubmitKyc
  <2> HIDE DEF new
  <2>4. KycTypeOK'
    BY <2>2, <2>3 DEF KycRecord
  <2>5. ASSUME NEW u \in Subject PROVE RecordInv(u)'
    BY <2>1, <2>3 DEF RecordInv, new
  <2> QED
    BY <2>4, <2>5
<1>3. ASSUME NEW s \in Subject, NEW a \in Addr, ApproveKyc(a, s)
      PROVE  KycTypeOK' /\ \A u \in Subject : RecordInv(u)'
  <2> DEFINE new == [kyc[s] EXCEPT !.status = "Approved", !.reviewedAt = clock,
                                   !.expiry = clock + KycExpiry]
  <2>1. kyc[s].status = "Pending"
    BY <1>3 DEF ApproveKyc, ValidKycTransition, CurrentStatus, KycEdges
  <2>2. new \in KycRecord
    <3>1. kyc[s] \in KycRecord
      BY DEF KycRecord
    <3>2. clock + KycExpiry \in OptTime
      OBVIOUS
    <3> QED
      BY <3>1, <3>2 DEF KycRecord, KycStatus
  <2>3. /\ kyc' = [kyc EXCEPT ![s] = new]
        /\ decisions' = [decisions EXCEPT ![s] = @ + 1]
        /\ approved' = [approved EXCEPT ![s] = dataHash[s]]
        /\ UNCHANGED <<clock, dataHash, latest, history, checkIndex, submissions>>
    BY <1>3 DEF ApproveKyc, ApprovalExpiry
  <2>4. KycTypeOK'
    <3> HIDE DEF new
    <3> QED
      BY <2>2, <2>3 DEF KycRecord
  <2>5. ASSUME NEW u \in Subject PROVE RecordInv(u)'
    BY <1>3, <2>1 DEF ApproveKyc, ApprovalExpiry, RecordInv
  <2> QED
    BY <2>4, <2>5
<1>4. ASSUME NEW s \in Subject, NEW a \in Addr, RejectKyc(a, s)
      PROVE  KycTypeOK' /\ \A u \in Subject : RecordInv(u)'
  <2> DEFINE new == [kyc[s] EXCEPT !.status = "Rejected", !.reviewedAt = clock,
                                   !.expiry = NoTime]
  <2>1. kyc[s].status = "Pending"
    BY <1>4 DEF RejectKyc, ValidKycTransition, CurrentStatus, KycEdges
  <2>2. new \in KycRecord
    <3>1. kyc[s] \in KycRecord
      BY DEF KycRecord
    <3> QED
      BY <3>1 DEF KycRecord, KycStatus
  <2>3. /\ kyc' = [kyc EXCEPT ![s] = new]
        /\ decisions' = [decisions EXCEPT ![s] = @ + 1]
        /\ UNCHANGED <<clock, dataHash, latest, history, checkIndex, submissions, approved>>
    BY <1>4 DEF RejectKyc
  <2>4. KycTypeOK'
    <3> HIDE DEF new
    <3> QED
      BY <2>2, <2>3 DEF KycRecord
  <2>5. ASSUME NEW u \in Subject PROVE RecordInv(u)'
    BY <1>4, <2>1 DEF RejectKyc, RecordInv
  <2> QED
    BY <2>4, <2>5
<1>5. ASSUME NEW s \in Subject, NEW a \in Addr, ReopenKyc(a, s)
      PROVE  KycTypeOK' /\ \A u \in Subject : RecordInv(u)'
  <2> DEFINE new == [kyc[s] EXCEPT !.status = "Reopened", !.reviewedAt = clock]
  <2>1. kyc[s].status = "Rejected"
    BY <1>5 DEF ReopenKyc, ValidKycTransition, CurrentStatus, KycEdges
  <2>2. new \in KycRecord
    <3>1. kyc[s] \in KycRecord
      BY DEF KycRecord
    <3> QED
      BY <3>1 DEF KycRecord, KycStatus
  <2>3. /\ kyc' = [kyc EXCEPT ![s] = new]
        /\ UNCHANGED <<clock, dataHash, latest, history, checkIndex>>
        /\ UNCHANGED <<submissions, decisions, approved>>
    BY <1>5 DEF ReopenKyc
  <2>4. KycTypeOK'
    <3> HIDE DEF new
    <3> QED
      BY <2>2, <2>3 DEF KycRecord
  <2>5. ASSUME NEW u \in Subject PROVE RecordInv(u)'
    BY <1>5, <2>1 DEF ReopenKyc, RecordInv
  <2> QED
    BY <2>4, <2>5
<1>6. ASSUME NEW s \in Subject, NEW a \in Addr, NEW t \in CheckType, NEW r \in CheckResult,
             RecordComplianceCheck(a, s, t, r)
      PROVE  KycTypeOK' /\ \A u \in Subject : RecordInv(u)'
    BY <1>6 DEF RecordComplianceCheck, RecordInv
<1> QED
    BY <1>1, <1>2, <1>3, <1>4, <1>5, <1>6 DEF KycCall

\* A check is appended to the history of its type, becomes the latest one, and adds
\* its type to the index unless it is there.
LEMMA ChecksStep ==
    ASSUME KycInv, KycCall
    PROVE  HistoryTypeOK' /\ ChecksConsistent'
<1>1. CASE UNCHANGED checkStore
    BY <1>1 DEF KycInv, HistoryTypeOK, ChecksConsistent, checkStore
<1>2. ASSUME NEW s \in Subject, NEW a \in Addr, NEW t \in CheckType, NEW r \in CheckResult,
             RecordComplianceCheck(a, s, t, r)
      PROVE  HistoryTypeOK' /\ ChecksConsistent'
  <2> DEFINE h == Append(history[s][t], r)
             ix == Indexed(s, t)
             at == checkIndex[s]
  <2>1. /\ latest \in [Subject -> [CheckType -> CheckResult \cup {NoCheck}]]
        /\ history[s][t] \in Seq(CheckResult)
        /\ at \in Seq(CheckType)
        /\ HistoryTypeOK
    BY DEF KycInv, KycTypeOK, HistoryTypeOK
  <2>2. /\ latest' = [latest EXCEPT ![s][t] = r]
        /\ history' = [history EXCEPT ![s][t] = h]
        /\ checkIndex' = [checkIndex EXCEPT ![s] = ix]
    BY <1>2, <2>1 DEF RecordComplianceCheck, HistoryTypeOK
  <2>3. /\ h \in Seq(CheckResult)
        /\ h # <<>>
        /\ h[Len(h)] = r
    BY <2>1
  <2>4. /\ ix \in Seq(CheckType)
        /\ {ix[i] : i \in 1..Len(ix)} = {at[i] : i \in 1..Len(at)} \cup {t}
        /\ \A i, j \in 1..Len(ix) : ix[i] = ix[j] => i = j
    <3>1. \A i, j \in 1..Len(at) : at[i] = at[j] => i = j
      BY DEF KycInv, ChecksConsistent
    <3>2. CASE \E i \in 1..Len(at) : at[i] = t
      BY <2>1, <3>1, <3>2 DEF Indexed
    <3>3. CASE ~\E i \in 1..Len(at) : at[i] = t
      <4>1. ix = Append(at, t)
        BY <3>3 DEF Indexed
      <4>2. /\ Append(at, t) \in Seq(CheckType)
            /\ Len(Append(at, t)) = Len(at) + 1
            /\ \A i \in 1..Len(at) : Append(at, t)[i] = at[i]
            /\ Append(at, t)[Len(at) + 1] = t
        BY <2>1
      <4> QED
        BY <2>1, <3>1, <3>3, <4>1, <4>2
    <3> QED
      BY <3>2, <3>3
  <2> HIDE DEF h, ix
  <2>5. HistoryTypeOK'
    BY <2>1, <2>2, <2>3, <2>4 DEF HistoryTypeOK
  <2>6. ASSUME NEW u \in Subject, NEW c \in CheckType
        PROVE  LET g == history'[u][c]
               IN  latest'[u][c] = IF g = <<>> THEN NoCheck ELSE g[Len(g)]
    BY <2>1, <2>2, <2>3 DEF HistoryTypeOK, KycInv, ChecksConsistent
  <2>7. ASSUME NEW u \in Subject
        PROVE  /\ {checkIndex'[u][i] : i \in 1..Len(checkIndex'[u])}
                    = {c \in CheckType : history'[u][c] # <<>>}
               /\ \A i, j \in 1..Len(checkIndex'[u]) :
                    checkIndex'[u][i] = checkIndex'[u][j] => i = j
    <3>1. CASE u # s
      <4>1. checkIndex'[u] = checkIndex[u] /\ history'[u] = history[u]
        BY <2>1, <2>2, <3>1 DEF HistoryTypeOK
      <4> QED
        BY <4>1 DEF KycInv, ChecksConsistent
    <3>2. CASE u = s
      <4>1. checkIndex'[s] = ix
        BY <2>1, <2>2 DEF HistoryTypeOK
      <4>2. {c \in CheckType : history'[s][c] # <<>>}
              = {c \in CheckType : history[s][c] # <<>>} \cup {t}
        BY <2>1, <2>2, <2>3 DEF HistoryTypeOK
      <4>3. {at[i] : i \in 1..Len(at)} = {c \in CheckType : history[s][c] # <<>>}
        BY DEF KycInv, ChecksConsistent
      <4>4. {checkIndex'[s][i] : i \in 1..Len(checkIndex'[s])}
              = {c \in CheckType : history'[s][c] # <<>>}
        <5>1. {checkIndex'[s][i] : i \in 1..Len(checkIndex'[s])} = {ix[i] : i \in 1..Len(ix)}
          BY <4>1, Zenon
        <5>2. {ix[i] : i \in 1..Len(ix)}
                = {c \in CheckType : history[s][c] # <<>>} \cup {t}
          BY <2>4, <4>3, Zenon
        <5> QED
          BY <4>2, <5>1, <5>2, Zenon
      <4>5. \A i, j \in 1..Len(checkIndex'[s]) :
              checkIndex'[s][i] = checkIndex'[s][j] => i = j
        BY <2>4, <4>1
      <4> QED
        BY <3>2, <4>4, <4>5
    <3> QED
      BY <3>1, <3>2
  <2> QED
    BY <2>5, <2>6, <2>7 DEF ChecksConsistent
<1> QED
    BY <1>1, <1>2, ZenonT(30)
    DEF KycCall, ClockTick, SubmitKyc, ApproveKyc, RejectKyc, ReopenKyc

\* Every call, and every tick of the clock, keeps the records and the index of
\* checks as KycInv describes them.
LEMMA KycInvStep == KycInv /\ [KycNext]_<<govVars, kycVars>> => KycInv'
<1> SUFFICES ASSUME KycInv, [KycNext]_<<govVars, kycVars>> PROVE KycInv'
    OBVIOUS
<1>1. GovInv'
  <2>1. [GovNext]_govVars
    BY DEF KycNext
  <2> QED
    BY <2>1, GovInvStep DEF KycInv
<1>2. CASE KycCall
    BY <1>1, <1>2, RecordStep, ChecksStep DEF KycInv
<1>3. CASE UNCHANGED kycVars
  <2> USE <1>3 DEF kycVars, kycStore, checkStore, kycGhosts
  <2>1. KycTypeOK'
    BY DEF KycInv, KycTypeOK
  <2>2. HistoryTypeOK'
    BY DEF KycInv, HistoryTypeOK
  <2>3. \A s \in Subject : RecordInv(s)'
    BY DEF KycInv, RecordInv
  <2>4. ChecksConsistent'
    BY DEF KycInv, ChecksConsistent
  <2> QED
    BY <1>1, <2>1, <2>2, <2>3, <2>4 DEF KycInv
<1> QED
    BY <1>2, <1>3 DEF KycNext

\* KycInv holds throughout.
LEMMA KycInvariant == KycSpec => []KycInv
    BY KycInvInit, KycInvStep, PTL DEF KycSpec

\* The stored status and the status a reader gets differ only where an approval
\* has run out.
LEMMA KycInvImpliesSound == KycInv => KycSound
<1> SUFFICES ASSUME KycInv PROVE KycSound
    OBVIOUS
<1> USE KycConstants DEF KycConstants, KycInv, KycTypeOK, OptTime, CurrentStatus, RecordInv
<1>1. EachSubmissionDecidedOnce
    BY DEF EachSubmissionDecidedOnce
<1>2. ApprovalIsForReviewedData
    BY DEF ApprovalIsForReviewedData
<1>3. OnlyApprovalsExpire
    BY DEF OnlyApprovalsExpire
<1> QED
    BY <1>1, <1>2, <1>3 DEF KycSound, GovInv

\* Every submission is decided at most once, an approval is for the data that was
\* reviewed and until its expiry, and the latest checks agree with their histories,
\* whoever gains or loses the authority to review in between.
THEOREM KycSoundHolds == KycSpec => []KycSound
    BY KycInvariant, KycInvImpliesSound, PTL

-----------------------------------------------------------------------------
(* Quotes and their migration *)

\* The pointer of an anchor is its newest quote, said without a maximum.
NewestInv ==
    /\ quoteIndex = [i \in 1..Len(quotes) |-> i]
    /\ \A a \in Addr : latestQuote[a] # 0 =>
         latestQuote[a] <= Len(quotes) /\ quotes[latestQuote[a]].anchor = a
    /\ \A id \in 1..Len(quotes) : id <= latestQuote[quotes[id].anchor]

\* There is one migration step, so its history is empty or one record; the count of
\* the quotes that V2 was committed over is 0 until then.
MigrationInv ==
    /\ cursor <= Len(quotes)
    /\ cursor # 0 => version = SchemaV1
    /\ migratedTo \in 0..Len(quotes)
    /\ version # SchemaV2 => migratedTo = 0
    /\ initialized <=> version # 0
    /\ migrations = IF version = SchemaV2 THEN <<<<SchemaV1, SchemaV2>>>> ELSE <<>>
    /\ \A id \in 1..Len(quotes) :
         quotes[id].schema = SchemaV2 <=> id <= cursor \/ id <= migratedTo

QuoteInv ==
    /\ GovInv
    /\ QuoteTypeOK
    /\ NewestInv
    /\ MigrationInv

\* At the start there is no quote and no migration has begun.
LEMMA QuoteInvInit == QuoteInit => QuoteInv
<1> SUFFICES ASSUME QuoteInit PROVE QuoteInv
    OBVIOUS
<1> USE QuoteConstants DEF QuoteConstants, QuoteInit, SchemaV1, SchemaV2
<1>1. GovInv
    BY GovInvInit
<1>2. QuoteTypeOK
    BY DEF QuoteTypeOK
<1>3. NewestInv
    BY DEF NewestInv
<1>4. MigrationInv
    BY <1>1 DEF MigrationInv, GovInit
<1> QED
    BY <1>1, <1>2, <1>3, <1>4 DEF QuoteInv

\* The ids below and up to one of them in an interval: what the loop has counted.
LEMMA CountUpTo ==
    ASSUME NEW lo \in Nat, NEW hi \in Nat, NEW id \in (lo + 1)..hi
    PROVE  /\ Cardinality({j \in (lo + 1)..hi : j <= id}) = id - lo
           /\ Cardinality({j \in (lo + 1)..hi : j < id}) = id - lo - 1
           /\ Cardinality((lo + 1)..hi) = hi - lo
<1>1. {j \in (lo + 1)..hi : j <= id} = (lo + 1)..id
    OBVIOUS
<1>2. {j \in (lo + 1)..hi : j < id} = (lo + 1)..(id - 1)
    OBVIOUS
<1>3. Cardinality((lo + 1)..id) = id - lo
    BY FS_Interval, lo + 1 \in Int, id \in Int, lo + 1 <= id
<1>4. Cardinality((lo + 1)..(id - 1)) = id - lo - 1
    BY FS_Interval, lo + 1 \in Int, id - 1 \in Int, lo + 1 <= id
<1>5. Cardinality((lo + 1)..hi) = hi - lo
    BY FS_Interval, lo + 1 \in Int, hi \in Int, lo + 1 <= hi
<1> QED
    BY <1>1, <1>2, <1>3, <1>4, <1>5

\* While a migration is under way the ids left to it are those beyond the cursor; a
\* call rewrites the next n of them, and stops before the end exactly if there are
\* more, at the last one it rewrote.
LEMMA BatchIsNext ==
    ASSUME QuoteInv, version = SchemaV1, NEW n \in Nat \ {0}
    PROVE  /\ Batch(n) = {id \in (cursor + 1)..Len(quotes) : id <= cursor + n}
           /\ StopsEarly(n) <=> Len(quotes) > cursor + n
           /\ StopsEarly(n) => LastProcessed(n) = cursor + n
<1> DEFINE rest == (cursor + 1)..Len(quotes)
<1>1. Len(quotes) \in Nat /\ cursor \in Nat
    BY QuoteConstants DEF QuoteInv, QuoteTypeOK, QuoteConstants
<1>2. Ahead = rest
  <2>1. ToSet(quoteIndex) = 1..Len(quotes)
    BY <1>1 DEF ToSet, QuoteInv, NewestInv
  <2> QED
    BY <1>1, <2>1 DEF Ahead
<1>3. Todo = rest
  <2>1. \A id \in rest : quotes[id].schema < SchemaV2
    <3>1. \A id \in 1..Len(quotes) : quotes[id] \in Quote
      BY <1>1 DEF QuoteInv, QuoteTypeOK
    <3>2. \A id \in rest : quotes[id].schema # SchemaV2
      BY <1>1 DEF QuoteInv, MigrationInv, SchemaV1, SchemaV2
    <3> QED
      BY <1>1, <3>1, <3>2 DEF Quote, SchemaV2
  <2> QED
    BY <1>2, <2>1 DEF Todo
<1> DEFINE upTo(id) == Cardinality({j \in rest : j <= id})
           below(id) == Cardinality({j \in rest : j < id})
<1>4. /\ Batch(n) = {id \in rest : upTo(id) <= n}
      /\ StopsEarly(n) <=> Cardinality(rest) >= n /\ \E id \in rest : below(id) >= n
      /\ LastProcessed(n) = CHOOSE id \in rest : upTo(id) = n
    BY <1>2, <1>3 DEF Batch, StopsEarly, LastProcessed
<1>5. \A id \in rest : /\ upTo(id) = id - cursor
                       /\ below(id) = id - cursor - 1
                       /\ Cardinality(rest) = Len(quotes) - cursor
    BY <1>1, CountUpTo
<1> HIDE DEF upTo, below
<1>6. Batch(n) = {id \in rest : id <= cursor + n}
    BY <1>1, <1>4, <1>5
<1>7. StopsEarly(n) <=> Len(quotes) > cursor + n
  <2>1. ASSUME StopsEarly(n) PROVE Len(quotes) > cursor + n
    BY <1>1, <1>4, <1>5, <2>1
  <2>2. ASSUME Len(quotes) > cursor + n PROVE StopsEarly(n)
    <3>1. cursor + n + 1 \in rest
      BY <1>1, <2>2
    <3>2. below(cursor + n + 1) = n /\ Cardinality(rest) >= n
      BY <1>1, <1>5, <2>2, <3>1
    <3> QED
      BY <1>4, <3>1, <3>2
  <2> QED
    BY <2>1, <2>2
<1>8. ASSUME StopsEarly(n) PROVE LastProcessed(n) = cursor + n
  <2>1. cursor + n \in rest
    BY <1>1, <1>7, <1>8
  <2>2. ASSUME NEW id \in rest PROVE upTo(id) = n <=> id = cursor + n
    <3>1. upTo(id) = id - cursor /\ id \in Nat
      BY <1>1, <1>5
    <3> QED
      BY <1>1, <3>1
  <2> QED
    BY <1>4, <2>1, <2>2
<1> QED
    BY <1>6, <1>7, <1>8

\* A new quote is beyond the cursor, so an unfinished migration still has it to do.
LEMMA SubmitStep ==
    ASSUME QuoteInv, NEW a \in Addr, NEW until \in Nat, NEW r \in Reason \cup {NoReason},
           SubmitQuoteWithReason(a, until, r), UNCHANGED govVars
    PROVE  QuoteInv'
<1> DEFINE id == Len(quotes) + 1
           new == [anchor |-> a, validUntil |-> until, schema |-> 1,
                   reason |-> r, lifecycle |-> "Active"]
<1>1. /\ id <= MaxQuotes
      /\ quotes' = Append(quotes, new)
      /\ quoteIndex' = Append(quoteIndex, id)
      /\ latestQuote' = [latestQuote EXCEPT ![a] = id]
      /\ UNCHANGED <<time, version, cursor, migrations, migratedTo>>
    BY DEF SubmitQuoteWithReason, LatestId, schemaStore
<1>2. new \in Quote
    BY DEF Quote
<1>3. /\ new.anchor = a
      /\ new.schema # SchemaV2
    BY DEF SchemaV2
<1> HIDE DEF new
<1>4. /\ quotes \in Seq(Quote)
      /\ quoteIndex \in Seq(1..MaxQuotes)
      /\ latestQuote \in [Addr -> 0..MaxQuotes]
      /\ cursor \in Nat
      /\ MaxQuotes \in Nat
    BY QuoteConstants DEF QuoteInv, QuoteTypeOK, QuoteConstants
<1>5. /\ Len(quotes') = id
      /\ \A i \in 1..Len(quotes) : quotes'[i] = quotes[i]
      /\ quotes'[id] = new
    BY <1>1, <1>2, <1>4
<1>6. QuoteTypeOK'
    BY <1>1, <1>2, <1>4 DEF QuoteInv, QuoteTypeOK
<1>7. NewestInv'
  <2>1. quoteIndex' = [i \in 1..Len(quotes') |-> i]
    BY <1>1, <1>4, <1>5 DEF QuoteInv, NewestInv
  <2>2. ASSUME NEW b \in Addr, latestQuote'[b] # 0
        PROVE  latestQuote'[b] <= Len(quotes') /\ quotes'[latestQuote'[b]].anchor = b
    <3>1. CASE b = a
      BY <1>1, <1>3, <1>4, <1>5, <3>1
    <3>2. CASE b # a
      <4>1. latestQuote'[b] = latestQuote[b] /\ latestQuote[b] \in 1..Len(quotes)
        BY <1>1, <1>4, <2>2, <3>2 DEF QuoteInv, NewestInv
      <4> QED
        BY <1>4, <1>5, <2>2, <4>1 DEF QuoteInv, NewestInv
    <3> QED
      BY <3>1, <3>2
  <2>3. ASSUME NEW i \in 1..Len(quotes') PROVE i <= latestQuote'[quotes'[i].anchor]
    <3>1. CASE i = id
      BY <1>1, <1>3, <1>4, <1>5, <3>1
    <3>2. CASE i # id
      <4>1. i \in 1..Len(quotes) /\ quotes'[i] = quotes[i]
        BY <1>4, <1>5, <2>3, <3>2
      <4>2. quotes[i].anchor \in Addr
        <5>1. quotes[i] \in Quote
          BY <1>4, <4>1
        <5> QED
          BY <5>1 DEF Quote
      <4>3. i <= latestQuote[quotes[i].anchor]
        BY <4>1 DEF QuoteInv, NewestInv
      <4> QED
        BY <1>1, <1>4, <4>1, <4>2, <4>3
    <3> QED
      BY <3>1, <3>2
  <2> QED
    BY <2>1, <2>2, <2>3 DEF NewestInv
<1>8. MigrationInv'
  <2>1. UNCHANGED initialized
    BY DEF govVars
  <2>2. ASSUME NEW i \in 1..Len(quotes')
        PROVE  quotes'[i].schema = SchemaV2 <=> i <= cursor \/ i <= migratedTo
    <3>1. CASE i = id
      BY <1>3, <1>4, <1>5, <3>1 DEF QuoteInv, MigrationInv
    <3>2. CASE i # id
      <4>1. i \in 1..Len(quotes) /\ quotes'[i] = quotes[i]
        BY <1>4, <1>5, <2>2, <3>2
      <4> QED
        BY <4>1 DEF QuoteInv, MigrationInv
    <3> QED
      BY <3>1, <3>2
  <2>3. cursor <= Len(quotes') /\ migratedTo \in 0..Len(quotes')
    BY <1>4, <1>5 DEF QuoteInv, MigrationInv
  <2> QED
    BY <1>1, <2>1, <2>2, <2>3 DEF QuoteInv, MigrationInv, SchemaV1, SchemaV2
<1>9. GovInv'
    BY GovInvStep DEF QuoteInv
<1> QED
    BY <1>6, <1>7, <1>8, <1>9 DEF QuoteInv

\* Invalidating a quote leaves its id, anchor and schema alone.
LEMMA InvalidateStep ==
    ASSUME QuoteInv, NEW signer \in Addr, NEW id, InvalidateQuote(signer, id),
           UNCHANGED govVars
    PROVE  QuoteInv'
<1> DEFINE new == [quotes[id] EXCEPT !.lifecycle = "Invalidated"]
<1>1. /\ id \in 1..Len(quotes)
      /\ quotes' = [quotes EXCEPT ![id] = new]
      /\ UNCHANGED <<time, quoteIndex, latestQuote, version, cursor, migrations, migratedTo>>
      /\ UNCHANGED initialized
    BY DEF InvalidateQuote, schemaStore, govVars
<1>2. quotes \in Seq(Quote) /\ Len(quotes) \in Nat
    BY DEF QuoteInv, QuoteTypeOK
<1>3. quotes[id] \in Quote
    BY <1>1, <1>2
<1>4. /\ new \in Quote
      /\ new.anchor = quotes[id].anchor
      /\ new.schema = quotes[id].schema
    BY <1>3 DEF Quote
<1> HIDE DEF new
<1>5. /\ quotes' \in Seq(Quote)
      /\ Len(quotes') = Len(quotes)
      /\ \A i \in 1..Len(quotes) : /\ quotes'[i].anchor = quotes[i].anchor
                                   /\ quotes'[i].schema = quotes[i].schema
    BY <1>1, <1>2, <1>4
<1>6. QuoteTypeOK' /\ NewestInv' /\ MigrationInv'
  <2>1. QuoteTypeOK'
    BY <1>1, <1>5 DEF QuoteInv, QuoteTypeOK
  <2>2. \A a \in Addr : latestQuote[a] \in Nat
    BY QuoteConstants DEF QuoteInv, QuoteTypeOK, QuoteConstants
  <2>3. NewestInv'
    BY <1>1, <1>2, <1>5, <2>2 DEF QuoteInv, NewestInv
  <2>4. MigrationInv'
    BY <1>1, <1>2, <1>5 DEF QuoteInv, MigrationInv
  <2> QED
    BY <2>1, <2>3, <2>4
<1>7. GovInv'
    BY GovInvStep DEF QuoteInv
<1> QED
    BY <1>6, <1>7 DEF QuoteInv

\* A call of migrate moves the cursor over exactly the quotes it rewrites, and commits
\* the version only when none is left.
LEMMA MigrateStep ==
    ASSUME QuoteInv, NEW signer \in Addr, NEW target \in 0..3, NEW n \in 0..MaxBatchSize,
           Migrate(signer, target, n), UNCHANGED govVars
    PROVE  QuoteInv'
<1>1. /\ version = SchemaV1
      /\ target = SchemaV2
      /\ n \in Nat \ {0}
  <2>1. <<version, target>> = <<SchemaV1, SchemaV2>>
    BY DEF Migrate, ValidMigration, AllSteps
  <2>2. n > 0
    BY DEF Migrate
  <2> QED
    BY <2>1, <2>2, QuoteConstants DEF QuoteConstants
<1>2. /\ quotes \in Seq(Quote)
      /\ Len(quotes) \in Nat
      /\ cursor \in Nat
      /\ cursor <= Len(quotes)
      /\ migratedTo = 0
      /\ MaxQuotes \in Nat
      /\ migrations = << >>
      /\ initialized
    BY <1>1, QuoteConstants
    DEF QuoteInv, QuoteTypeOK, MigrationInv, SchemaV1, SchemaV2, QuoteConstants
<1>3. /\ Batch(n) = {id \in (cursor + 1)..Len(quotes) : id <= cursor + n}
      /\ StopsEarly(n) <=> Len(quotes) > cursor + n
      /\ StopsEarly(n) => LastProcessed(n) = cursor + n
    BY <1>1, BatchIsNext
<1> DEFINE new(id) == [quotes[id] EXCEPT !.schema = SchemaV2, !.reason = NoReason]
<1>4. /\ quotes' = [id \in 1..Len(quotes) |-> IF id \in Batch(n) THEN new(id) ELSE quotes[id]]
      /\ UNCHANGED <<time, quoteIndex, latestQuote>>
      /\ UNCHANGED initialized
  <2>1. DOMAIN quotes = 1..Len(quotes)
    BY <1>2
  <2> QED
    BY <2>1, Zenon DEF Migrate, govVars
<1>5. ASSUME NEW id \in 1..Len(quotes)
      PROVE  /\ new(id) \in Quote
             /\ new(id).anchor = quotes[id].anchor
             /\ new(id).schema = SchemaV2
             /\ quotes[id] \in Quote
  <2>1. quotes[id] \in Quote
    BY <1>2
  <2> QED
    BY <2>1 DEF Quote, SchemaV2
<1> HIDE DEF new
<1>6. /\ quotes' \in Seq(Quote)
      /\ Len(quotes') = Len(quotes)
      /\ \A id \in 1..Len(quotes) :
           /\ quotes'[id].anchor = quotes[id].anchor
           /\ quotes'[id].schema = IF id \in Batch(n) THEN SchemaV2 ELSE quotes[id].schema
  <2>1. quotes' \in [1..Len(quotes) -> Quote]
    BY <1>4, <1>5
  <2>2. quotes' \in Seq(Quote) /\ Len(quotes') = Len(quotes)
    BY <1>2, <2>1
  <2>3. ASSUME NEW id \in 1..Len(quotes)
        PROVE  /\ quotes'[id].anchor = quotes[id].anchor
               /\ quotes'[id].schema = IF id \in Batch(n) THEN SchemaV2 ELSE quotes[id].schema
    <3>1. quotes'[id] = IF id \in Batch(n) THEN new(id) ELSE quotes[id]
      BY <1>4
    <3> QED
      BY <1>5, <3>1
  <2> QED
    BY <2>2, <2>3
<1>7. \A id \in 1..Len(quotes) : quotes[id].schema = SchemaV2 <=> id <= cursor
    BY <1>2 DEF QuoteInv, MigrationInv
<1>8. \A a \in Addr : latestQuote[a] \in 0..MaxQuotes
    BY DEF QuoteInv, QuoteTypeOK
<1>9. NewestInv'
    BY <1>2, <1>4, <1>6, <1>8 DEF QuoteInv, NewestInv
<1>10. CASE StopsEarly(n)
  <2>1. /\ cursor' = cursor + n
        /\ cursor + n < Len(quotes)
        /\ UNCHANGED <<version, migrations, migratedTo>>
    BY <1>3, <1>10 DEF Migrate
  <2>2. Len(quotes) <= MaxQuotes
    BY <1>2 DEF QuoteInv, QuoteTypeOK, NewestInv
  <2>3. QuoteTypeOK'
    BY <1>1, <1>2, <1>4, <1>6, <2>1, <2>2 DEF QuoteInv, QuoteTypeOK
  <2>4. ASSUME NEW id \in 1..Len(quotes')
        PROVE  quotes'[id].schema = SchemaV2 <=> id <= cursor + n
    <3>1. id \in 1..Len(quotes) /\ id \in Nat
      BY <1>2, <1>6
    <3>2. id \in Batch(n) <=> cursor < id /\ id <= cursor + n
      BY <1>1, <1>2, <1>3, <3>1
    <3> QED
      BY <1>1, <1>2, <1>6, <1>7, <3>1, <3>2
  <2>5. MigrationInv'
    BY <1>1, <1>2, <1>4, <1>6, <2>1, <2>4 DEF MigrationInv, SchemaV1, SchemaV2
  <2> QED
    BY <1>9, <2>3, <2>5, GovInvStep DEF QuoteInv
<1>11. CASE ~StopsEarly(n)
  <2>1. /\ cursor' = 0
        /\ version' = SchemaV2
        /\ migrations' = <<<<SchemaV1, SchemaV2>>>>
        /\ migratedTo' = Len(quotes)
        /\ Len(quotes) <= cursor + n
    <3>1. migrations' = Append(migrations, <<version, target>>)
      BY <1>11 DEF Migrate, CommitVersion
    <3>2. migrations' = <<<<SchemaV1, SchemaV2>>>>
      BY <1>1, <1>2, <3>1
    <3>3. cursor' = 0 /\ version' = SchemaV2 /\ migratedTo' = Len(quotes)
      BY <1>1, <1>11 DEF Migrate, CommitVersion
    <3>4. Len(quotes) <= cursor + n
      BY <1>1, <1>2, <1>3, <1>11
    <3> QED
      BY <3>2, <3>3, <3>4
  <2>2. QuoteTypeOK'
    BY <1>2, <1>4, <1>6, <2>1 DEF QuoteInv, QuoteTypeOK, SchemaV2
  <2>3. ASSUME NEW id \in 1..Len(quotes')
        PROVE  quotes'[id].schema = SchemaV2
    <3>1. id \in 1..Len(quotes) /\ id \in Nat
      BY <1>2, <1>6
    <3>2. id \in Batch(n) \/ id <= cursor
      BY <1>1, <1>2, <1>3, <2>1, <3>1
    <3>3. quotes'[id].schema = IF id \in Batch(n) THEN SchemaV2 ELSE quotes[id].schema
      BY <1>6, <3>1
    <3>4. id <= cursor => quotes[id].schema = SchemaV2
      BY <1>7, <3>1
    <3> QED
      BY <3>2, <3>3, <3>4
  <2>4. MigrationInv'
    BY <1>2, <1>4, <1>6, <2>1, <2>3 DEF MigrationInv, SchemaV1, SchemaV2
  <2> QED
    BY <1>9, <2>2, <2>4, GovInvStep DEF QuoteInv
<1> QED
    BY <1>10, <1>11

\* Every call keeps the indexes and the cursor: a submission between two batches
\* of a migration included.
LEMMA QuoteInvStep == QuoteInv /\ [QuoteNext]_<<govVars, quoteVars>> => QuoteInv'
<1> SUFFICES ASSUME QuoteInv, [QuoteNext]_<<govVars, quoteVars>> PROVE QuoteInv'
    OBVIOUS
<1>1. ASSUME NEW a \in Addr, NEW until \in 0..(MaxTime + MaxValidity),
             NEW r \in Reason \cup {NoReason}, SubmitQuoteWithReason(a, until, r),
             UNCHANGED govVars
      PROVE  QuoteInv'
  <2>1. until \in Nat
    BY QuoteConstants DEF QuoteConstants
  <2> QED
    BY <1>1, <2>1, SubmitStep
<1>2. CASE /\ UNCHANGED <<quotes, quoteIndex, latestQuote, schemaStore, govVars>>
           /\ time' \in Nat
    BY <1>2, GovInvStep
    DEF QuoteInv, QuoteTypeOK, NewestInv, MigrationInv, schemaStore, govVars
<1>3. ASSUME QuoteTick \/ (\E signer \in Addr : PurgeExpiredQuotes(signer)),
             UNCHANGED govVars
      PROVE  QuoteInv'
    BY <1>2, <1>3
    DEF QuoteTick, PurgeExpiredQuotes, quoteStore, schemaStore, QuoteInv, QuoteTypeOK
<1>4. CASE QuoteCall /\ UNCHANGED govVars
    BY <1>1, <1>3, <1>4, InvalidateStep DEF QuoteCall
<1>5. CASE MigrateCall /\ UNCHANGED govVars
    BY <1>5, MigrateStep DEF MigrateCall
<1>6. CASE GovernanceCall
  <2>1. GovInv'
    BY <1>6, GovInvStep DEF GovernanceCall, QuoteInv
  <2>2. initialized => initialized'
    BY <1>6 DEF GovernanceCall, GovNext, Initialize, AcceptAdminTransfer,
                ProposeAdminTransfer, GrantRole, RevokeRole, GrantCapability, RevokeCapability
  <2>3. /\ initialized \in BOOLEAN
        /\ initialized' \in BOOLEAN
    BY <2>1 DEF QuoteInv, GovInv, GovTypeOK
  <2>4. version' = IF initialized' /\ ~initialized THEN SchemaV1 ELSE version
    BY <1>6 DEF GovernanceCall
  <2>5. initialized <=> version # 0
    BY DEF QuoteInv, MigrationInv
  <2>6. UNCHANGED <<time, quotes, quoteIndex, latestQuote, cursor, migrations, migratedTo>>
    BY <1>6 DEF GovernanceCall, quoteStore
  <2>7. QuoteTypeOK' /\ NewestInv'
    BY <2>4, <2>6 DEF QuoteInv, QuoteTypeOK, NewestInv, SchemaV1, SchemaV2
  <2>8. MigrationInv'
    BY <2>2, <2>3, <2>4, <2>5, <2>6 DEF QuoteInv, MigrationInv, SchemaV1, SchemaV2
  <2> QED
    BY <2>1, <2>7, <2>8 DEF QuoteInv
<1>7. CASE UNCHANGED <<govVars, quoteVars>>
    BY <1>2, <1>7 DEF quoteVars, quoteStore, QuoteInv, QuoteTypeOK
<1> QED
    BY <1>4, <1>5, <1>6, <1>7 DEF QuoteNext

\* QuoteInv holds throughout.
LEMMA QuoteInvariant == QuoteSpec => []QuoteInv
    BY QuoteInvInit, QuoteInvStep, PTL DEF QuoteSpec

\* A number of a set that none of them exceeds is its maximum.
LEMMA MaxIs ==
    ASSUME NEW S \in SUBSET Nat, NEW m \in S, \A x \in S : m >= x
    PROVE  Max(S) = m
<1>1. \A x \in S : (\A y \in S : x >= y) <=> x = m
    OBVIOUS
<1> QED
    BY <1>1 DEF Max

\* The properties of quotes that the runs check follow from QuoteInv.
LEMMA QuoteInvImpliesSound == QuoteInv => QuotesSound
<1> SUFFICES ASSUME QuoteInv PROVE QuotesSound
    OBVIOUS
<1>1. LatestIsNewest
  <2>1. ASSUME NEW a \in Addr
        PROVE  latestQuote[a] = Max({0} \cup {id \in 1..Len(quotes) : quotes[id].anchor = a})
    <3> DEFINE S == {0} \cup {id \in 1..Len(quotes) : quotes[id].anchor = a}
    <3>1. latestQuote[a] \in Nat /\ Len(quotes) \in Nat
      BY QuoteConstants DEF QuoteInv, QuoteTypeOK, QuoteConstants
    <3>2. latestQuote[a] \in S
      BY <3>1 DEF QuoteInv, NewestInv
    <3>3. \A id \in S : latestQuote[a] >= id
      BY <3>1 DEF QuoteInv, NewestInv
    <3> HIDE DEF S
    <3>4. S \in SUBSET Nat
      BY DEF S
    <3>5. latestQuote[a] = Max(S)
      BY <3>2, <3>3, <3>4, MaxIs
    <3> QED
      BY <3>5 DEF S
  <2> QED
    BY <2>1 DEF LatestIsNewest, QuoteInv, NewestInv
<1>2. NothingSkipped
    BY DEF QuoteInv, MigrationInv, NothingSkipped
<1>3. HistoryExplainsVersion
  <2>1. CASE version = SchemaV2
    BY <2>1 DEF QuoteInv, MigrationInv, HistoryExplainsVersion
  <2>2. CASE version # SchemaV2
    BY <2>2 DEF QuoteInv, QuoteTypeOK, MigrationInv, HistoryExplainsVersion, SchemaV1, SchemaV2
  <2> QED
    BY <2>1, <2>2
<1> QED
    BY <1>1, <1>2, <1>3 DEF QuotesSound, QuoteInv

\* Routing finds the newest quote of every anchor, an interrupted migration skips no
\* quote, whatever is submitted between its batches, and its history explains the
\* version in force.
THEOREM QuotesSoundHolds == QuoteSpec => []QuotesSound
    BY QuoteInvariant, QuoteInvImpliesSound, PTL

\* The quotes that are not rewritten, counted: all beyond the one up to which they are.
LEMMA BacklogCount ==
    ASSUME NEW qs \in Seq(Quote), NEW c \in 0..Len(qs),
           \A id \in 1..Len(qs) : qs[id].schema = SchemaV2 <=> id <= c
    PROVE  Cardinality({id \in DOMAIN qs : qs[id].schema = SchemaV1}) = Len(qs) - c
<1>1. Len(qs) \in Nat /\ c \in Nat /\ DOMAIN qs = 1..Len(qs)
    OBVIOUS
<1>2. ASSUME NEW id \in 1..Len(qs)
      PROVE  qs[id].schema = SchemaV1 <=> id \in (c + 1)..Len(qs)
  <2>1. qs[id].schema \in {SchemaV1, SchemaV2}
    <3>1. qs[id] \in Quote
      OBVIOUS
    <3> QED
      BY <3>1 DEF Quote, SchemaV1, SchemaV2
  <2>2. qs[id].schema = SchemaV2 <=> id <= c
    OBVIOUS
  <2> QED
    BY <1>1, <2>1, <2>2 DEF SchemaV1, SchemaV2
<1>3. \A id \in (c + 1)..Len(qs) : id \in 1..Len(qs)
    BY <1>1
<1>4. {id \in DOMAIN qs : qs[id].schema = SchemaV1} = (c + 1)..Len(qs)
    BY <1>1, <1>2, <1>3
<1>5. Cardinality((c + 1)..Len(qs)) = IF c + 1 > Len(qs) THEN 0 ELSE Len(qs) - (c + 1) + 1
  <2>1. c + 1 \in Int /\ Len(qs) \in Int
    BY <1>1
  <2> QED
    BY <2>1, FS_Interval, Zenon
<1>6. Cardinality((c + 1)..Len(qs)) = Len(qs) - c
    BY <1>1, <1>5
<1> QED
    BY <1>4, <1>6

\* No step but a batch of migrate touches an upgrade under way, and a submission adds
\* its one quote to it; a batch commits when nothing is left, or moves the cursor on.
LEMMA UpgradeStep ==
    ASSUME QuoteInv, QuoteInv', version = SchemaV1, [QuoteNext]_<<govVars, quoteVars>>
    PROVE  UpgradeAdvances
<1> DEFINE len == Len(quotes)
           submits == Len(quotes') = len + 1 /\ UNCHANGED <<version, cursor>>
           leaves == Len(quotes') = len /\ UNCHANGED <<version, cursor>>
           commits == version' = SchemaV2 /\ migratedTo' = Len(quotes')
                      /\ Len(quotes') = len
           moves == version' = SchemaV1 /\ cursor' \in Nat /\ cursor < cursor' /\ cursor' < len
                    /\ Len(quotes') = len
<1>1. /\ quotes \in Seq(Quote) /\ len \in Nat /\ cursor \in 0..len
      /\ \A id \in 1..len : quotes[id].schema = SchemaV2 <=> id <= cursor
      /\ initialized
    BY DEF QuoteInv, QuoteTypeOK, MigrationInv, SchemaV1, SchemaV2
<1>2. Backlog = len - cursor
    BY <1>1, BacklogCount, Zenon DEF Backlog
<1>3. version' = SchemaV1 => Backlog' = Len(quotes') - cursor'
  <2> SUFFICES ASSUME version' = SchemaV1 PROVE Backlog' = Len(quotes') - cursor'
    OBVIOUS
  <2>1. /\ quotes' \in Seq(Quote) /\ cursor' \in 0..Len(quotes')
        /\ \A id \in 1..Len(quotes') : quotes'[id].schema = SchemaV2 <=> id <= cursor'
    BY DEF QuoteInv, QuoteTypeOK, MigrationInv, SchemaV1, SchemaV2
  <2> QED
    BY <2>1, BacklogCount, Zenon DEF Backlog
<1>4. commits => Backlog' = 0
  <2> SUFFICES ASSUME commits PROVE Backlog' = 0
    OBVIOUS
  <2>1. /\ quotes' \in Seq(Quote) /\ Len(quotes') \in 0..Len(quotes')
        /\ \A id \in 1..Len(quotes') : quotes'[id].schema = SchemaV2 <=> id <= Len(quotes')
    BY DEF QuoteInv, QuoteTypeOK, MigrationInv, SchemaV1, SchemaV2
  <2>2. Backlog' = Len(quotes') - Len(quotes')
    BY <2>1, BacklogCount, Zenon DEF Backlog
  <2> QED
    BY <2>1, <2>2
<1>5. ASSUME UNCHANGED <<quotes, schemaStore>> PROVE leaves
    BY <1>5 DEF schemaStore
<1>6. ASSUME NEW a \in Addr, NEW until, NEW r, SubmitQuoteWithReason(a, until, r)
      PROVE  submits
  <2> DEFINE new == [anchor |-> a, validUntil |-> until, schema |-> 1, reason |-> r,
                     lifecycle |-> "Active"]
  <2>1. quotes' = Append(quotes, new)
    BY <1>6 DEF SubmitQuoteWithReason
  <2> HIDE DEF new
  <2> QED
    BY <1>1, <1>6, <2>1 DEF SubmitQuoteWithReason, schemaStore
<1>7. ASSUME NEW signer \in Addr, NEW id, InvalidateQuote(signer, id)
      PROVE  leaves
    BY <1>1, <1>7 DEF InvalidateQuote, schemaStore
<1>8. ASSUME NEW signer \in Addr, NEW target \in 0..3, NEW n \in 0..MaxBatchSize,
             Migrate(signer, target, n)
      PROVE  commits \/ moves
  <2>1. target = SchemaV2 /\ n \in Nat \ {0}
    <3>1. <<version, target>> = <<SchemaV1, SchemaV2>>
      BY <1>8 DEF Migrate, ValidMigration, AllSteps
    <3>2. n > 0
      BY <1>8 DEF Migrate
    <3> QED
      BY <3>1, <3>2, QuoteConstants DEF QuoteConstants
  <2>2. Len(quotes') = len
    <3>1. DOMAIN quotes' = DOMAIN quotes
      BY <1>8 DEF Migrate
    <3>2. quotes' \in Seq(Quote)
      BY DEF QuoteInv, QuoteTypeOK
    <3> QED
      BY <1>1, <3>1, <3>2
  <2>3. /\ StopsEarly(n) <=> len > cursor + n
        /\ StopsEarly(n) => LastProcessed(n) = cursor + n
    BY <2>1, BatchIsNext
  <2>4. CASE StopsEarly(n)
    <3>1. cursor' = LastProcessed(n) /\ version' = version
      BY <1>8, <2>4 DEF Migrate
    <3> QED
      BY <1>1, <2>1, <2>2, <2>3, <2>4, <3>1
  <2>5. CASE ~StopsEarly(n)
    BY <1>8, <2>1, <2>2, <2>5 DEF Migrate, CommitVersion
  <2> QED
    BY <2>4, <2>5
<1>9. ASSUME GovernanceCall PROVE leaves
    BY <1>1, <1>9 DEF GovernanceCall, quoteStore, SchemaV1
<1>10. ASSUME QuoteTick \/ (\E signer \in Addr : PurgeExpiredQuotes(signer)) PROVE leaves
    BY <1>5, <1>10 DEF QuoteTick, PurgeExpiredQuotes, quoteStore
<1>11. submits \/ leaves \/ commits \/ moves
  <2> HIDE DEF submits, leaves, commits, moves
  <2>1. CASE UNCHANGED <<govVars, quoteVars>>
    BY <1>5, <2>1 DEF quoteVars, quoteStore
  <2>2. CASE QuoteCall
    BY <1>6, <1>7, <1>10, <2>2 DEF QuoteCall
  <2>3. CASE MigrateCall
    BY <1>8, <2>3 DEF MigrateCall
  <2> QED
    BY <1>9, <2>1, <2>2, <2>3 DEF QuoteNext
<1>12. CASE submits
    BY <1>1, <1>2, <1>3, <1>12 DEF UpgradeAdvances
<1>13. CASE leaves
    BY <1>1, <1>2, <1>3, <1>13 DEF UpgradeAdvances
<1>14. CASE commits
    BY <1>1, <1>4, <1>14 DEF UpgradeAdvances
<1>15. CASE moves
    BY <1>1, <1>2, <1>3, <1>15 DEF UpgradeAdvances
<1> QED
    BY <1>11, <1>12, <1>13, <1>14, <1>15

\* Every step of an upgrade brings it nearer to its commit, but for the submissions,
\* each of which adds its one quote to what is left: migrate has no other way to spend
\* a call, whatever is submitted, invalidated or delegated between its batches.
THEOREM UpgradeAdvancesHolds == QuoteSpec => [][UpgradeAdvances]_quoteVars
<1>1. QuoteInv /\ QuoteInv' /\ [QuoteNext]_<<govVars, quoteVars>> => [UpgradeAdvances]_quoteVars
    BY UpgradeStep DEF UpgradeAdvances
<1> QED
    BY <1>1, QuoteInvariant, PTL DEF QuoteSpec

-----------------------------------------------------------------------------
(* Taking a quote *)

\* What a quote that was taken still finds in the stores.
TakenInv ==
    taken # NotTaken =>
        /\ taken.receiver \in Subject
        /\ taken.id \in 1..Len(quotes)
        /\ taken.way # "received" => taken.at < quotes[taken.id].validUntil
        /\ taken.way = "checked" =>
             /\ taken.checks \in 1..Len(KycChecks(taken.receiver))
             /\ KycChecks(taken.receiver)[taken.checks] = "passed"

\* No step removes a quote or changes its validity.
LEMMA QuotesKeepValidity ==
    ASSUME QuoteInv, [QuoteNext]_<<govVars, quoteVars>>
    PROVE  /\ Len(quotes) <= Len(quotes')
           /\ \A id \in 1..Len(quotes) : quotes'[id].validUntil = quotes[id].validUntil
<1>1. quotes \in Seq(Quote) /\ Len(quotes) \in Nat
    BY DEF QuoteInv, QuoteTypeOK
<1>2. CASE UNCHANGED quotes
    BY <1>1, <1>2
<1>3. ASSUME NEW a \in Addr, NEW until, NEW r, SubmitQuoteWithReason(a, until, r)
      PROVE  /\ Len(quotes) <= Len(quotes')
             /\ \A id \in 1..Len(quotes) : quotes'[id] = quotes[id]
    BY <1>1, <1>3 DEF SubmitQuoteWithReason
<1>4. ASSUME NEW signer \in Addr, NEW i, InvalidateQuote(signer, i)
      PROVE  /\ Len(quotes) <= Len(quotes')
             /\ \A id \in 1..Len(quotes) : quotes'[id].validUntil = quotes[id].validUntil
  <2> DEFINE new == [quotes[i] EXCEPT !.lifecycle = "Invalidated"]
  <2>1. i \in 1..Len(quotes) /\ quotes' = [quotes EXCEPT ![i] = new]
    BY <1>4 DEF InvalidateQuote
  <2>2. new.validUntil = quotes[i].validUntil
    <3>1. quotes[i] \in Quote
      BY <1>1, <2>1
    <3> QED
      BY <3>1 DEF Quote
  <2> HIDE DEF new
  <2> QED
    BY <1>1, <2>1, <2>2
<1>5. ASSUME NEW signer \in Addr, NEW target, NEW n, Migrate(signer, target, n)
      PROVE  /\ Len(quotes) <= Len(quotes')
             /\ \A id \in 1..Len(quotes) : quotes'[id].validUntil = quotes[id].validUntil
  <2> DEFINE new(id) == [quotes[id] EXCEPT !.schema = SchemaV2, !.reason = NoReason]
  <2>1. quotes' = [id \in 1..Len(quotes) |-> IF id \in Batch(n) THEN new(id) ELSE quotes[id]]
    <3>1. DOMAIN quotes = 1..Len(quotes)
      BY <1>1
    <3> QED
      BY <1>5, <3>1, Zenon DEF Migrate
  <2>2. \A id \in 1..Len(quotes) : new(id).validUntil = quotes[id].validUntil
    <3>1. \A id \in 1..Len(quotes) : quotes[id] \in Quote
      BY <1>1
    <3> QED
      BY <3>1 DEF Quote
  <2> HIDE DEF new
  <2>3. Len(quotes') = Len(quotes)
    BY <1>1, <2>1
  <2> QED
    BY <1>1, <2>1, <2>2, <2>3
<1> QED
    BY <1>1, <1>2, <1>3, <1>4, <1>5
    DEF QuoteNext, QuoteCall, MigrateCall, QuoteTick, PurgeExpiredQuotes, GovernanceCall,
        quoteVars, quoteStore

\* Compliance checks are only ever appended.
LEMMA ChecksAppendOnly ==
    ASSUME KycInv, KycCall, NEW s \in Subject, NEW t \in CheckType
    PROVE  /\ Len(history[s][t]) <= Len(history'[s][t])
           /\ \A i \in 1..Len(history[s][t]) : history'[s][t][i] = history[s][t][i]
<1> DEFINE old == history[s][t]
           new == history'[s][t]
           grown == Len(old) <= Len(new) /\ \A i \in 1..Len(old) : new[i] = old[i]
<1> SUFFICES grown
    OBVIOUS
<1>1. /\ history \in [Subject -> [CheckType -> Seq(CheckResult)]]
      /\ old \in Seq(CheckResult)
    BY DEF KycInv, HistoryTypeOK
<1>2. CASE UNCHANGED checkStore
    BY <1>1, <1>2 DEF checkStore
<1>3. ASSUME NEW u \in Subject, NEW a \in Addr, NEW c \in CheckType, NEW r \in CheckResult,
             RecordComplianceCheck(a, u, c, r)
      PROVE  grown
  <2>1. new \in {old, Append(old, r)}
    BY <1>1, <1>3 DEF RecordComplianceCheck
  <2>2. /\ Len(Append(old, r)) = Len(old) + 1
        /\ \A i \in 1..Len(old) : Append(old, r)[i] = old[i]
        /\ Len(old) \in Nat
    BY <1>1
  <2> HIDE DEF old, new
  <2>3. CASE new = old
    BY <2>2, <2>3
  <2>4. CASE new = Append(old, r)
    BY <2>2, <2>4
  <2> QED
    BY <2>1, <2>3, <2>4
<1>4. \/ UNCHANGED checkStore
      \/ \E u \in Subject, a \in Addr, c \in CheckType, r \in CheckResult :
           RecordComplianceCheck(a, u, c, r)
    BY DEF KycCall, ClockTick, SubmitKyc, ApproveKyc, RejectKyc, ReopenKyc
<1> HIDE DEF grown
<1> QED
    BY <1>2, <1>3, <1>4

\* What was true of a quote when it was taken stays true while the quotes keep their
\* validity and the checks are appended.
LEMMA TakenStays ==
    ASSUME KycInv, QuoteInv, TakenInv, UNCHANGED taken, Len(quotes') \in Nat,
           [KycNext]_<<govVars, kycVars>>, [QuoteNext]_<<govVars, quoteVars>>
    PROVE  TakenInv'
<1> SUFFICES ASSUME taken # NotTaken PROVE TakenInv'
    BY DEF TakenInv
<1> DEFINE old == KycChecks(taken.receiver)
           new == history'[taken.receiver]["kyc"]
<1>1. taken.receiver \in Subject /\ taken.id \in 1..Len(quotes)
    BY DEF TakenInv
<1>2. /\ Len(quotes) <= Len(quotes')
      /\ \A id \in 1..Len(quotes) : quotes'[id].validUntil = quotes[id].validUntil
      /\ Len(quotes) \in Nat
    BY QuotesKeepValidity DEF QuoteInv, QuoteTypeOK
<1>3. KycInv'
    BY KycInvStep
<1>4. /\ Len(old) <= Len(new)
      /\ \A i \in 1..Len(old) : new[i] = old[i]
      /\ Len(old) \in Nat
      /\ Len(new) \in Nat
  <2>1. /\ old = history[taken.receiver]["kyc"]
        /\ old \in Seq(CheckResult)
        /\ new \in Seq(CheckResult)
    BY <1>1, <1>3, KycIsACheck DEF KycInv, HistoryTypeOK, KycChecks
  <2>2. CASE KycCall
    <3>1. Len(old) <= Len(new) /\ \A i \in 1..Len(old) : new[i] = old[i]
      BY <1>1, <2>1, <2>2, ChecksAppendOnly, KycIsACheck
    <3> QED
      BY <2>1, <3>1
  <2>3. CASE UNCHANGED history
    BY <2>1, <2>3 DEF KycChecks
  <2> QED
    BY <2>2, <2>3 DEF KycNext, kycVars, checkStore
<1>5. KycChecks(taken.receiver)' = new
    BY DEF KycChecks
<1> HIDE DEF old, new
<1>6. taken.id \in 1..Len(quotes')
    BY <1>1, <1>2
<1>7. taken.way = "checked" => taken.checks \in 1..Len(new) /\ new[taken.checks] = "passed"
    BY <1>4 DEF TakenInv, old
<1> QED
    BY <1>1, <1>2, <1>5, <1>6, <1>7 DEF TakenInv

\* A call that takes a quote reads the checks and the validity it is judged by.
LEMMA TakeStep ==
    ASSUME KycInv, QuoteInv, TakeNext
    PROVE  TakenInv'
<1>1. PICK receiver \in Subject, id \in 1..MaxQuotes :
        \/ ReceiveQuote(receiver, id)
        \/ \E gated \in BOOLEAN : AcceptQuoteWithCompliance(receiver, id, gated)
    BY DEF TakeNext
<1> DEFINE checks == KycChecks(receiver)
<1>2. /\ checks \in Seq(CheckResult)
      /\ latest[receiver]["kyc"] = IF checks = <<>> THEN NoCheck ELSE checks[Len(checks)]
    BY KycIsACheck DEF KycInv, HistoryTypeOK, ChecksConsistent, KycChecks
<1>3. ASSUME NEW way,
             Take(receiver, id, way),
             way # "received" => time < quotes[id].validUntil,
             way = "checked" => latest[receiver]["kyc"] = "passed"
      PROVE  TakenInv'
  <2>1. /\ id \in 1..Len(quotes)
        /\ taken' = [receiver |-> receiver, id |-> id, way |-> way, at |-> time,
                     lifecycle |-> quotes[id].lifecycle, checks |-> Len(checks)]
        /\ UNCHANGED <<quotes, history>>
    BY <1>3 DEF Take, quoteVars, quoteStore, kycVars, checkStore
  <2>2. way = "checked" => Len(checks) \in 1..Len(checks) /\ checks[Len(checks)] = "passed"
    <3> HIDE DEF checks
    <3> QED
      BY <1>2, <1>3 DEF NoCheck
  <2>3. KycChecks(taken.receiver)' = checks
    BY <2>1 DEF KycChecks
  <2>4. /\ taken'.receiver = receiver
        /\ taken'.id \in 1..Len(quotes')
        /\ taken'.way # "received" => taken'.at < quotes'[taken'.id].validUntil
        /\ taken'.way = "checked" =>
             taken'.checks \in 1..Len(checks) /\ checks[taken'.checks] = "passed"
    <3> HIDE DEF checks
    <3> QED
      BY <1>3, <2>1, <2>2
  <2> HIDE DEF checks
  <2> QED
    BY <2>3, <2>4 DEF TakenInv
<1>4. CASE ReceiveQuote(receiver, id)
    BY <1>3, <1>4 DEF ReceiveQuote
<1>5. ASSUME NEW gated \in BOOLEAN, AcceptQuoteWithCompliance(receiver, id, gated)
      PROVE  TakenInv'
  <2>1. Take(receiver, id, IF gated THEN "checked" ELSE "accepted")
    BY <1>5 DEF AcceptQuoteWithCompliance
  <2>2. time < quotes[id].validUntil
    <3>1. id \in 1..Len(quotes) /\ quotes[id].validUntil > time
      BY <1>5 DEF AcceptQuoteWithCompliance
    <3>2. quotes[id] \in Quote /\ time \in Nat
      BY <3>1 DEF QuoteInv, QuoteTypeOK
    <3> QED
      BY <3>1, <3>2 DEF Quote
  <2>3. gated => latest[receiver]["kyc"] = "passed"
    BY <1>5 DEF AcceptQuoteWithCompliance
  <2> QED
    BY <1>3, <2>1, <2>2, <2>3
<1> QED
    BY <1>1, <1>4, <1>5

TakingInv == KycInv /\ QuoteInv /\ TakenInv

\* Every step of the contract is a step of its records and a step of its quotes.
LEMMA TakingIsKycAndQuotes ==
    ASSUME [TakingNext]_takingVars
    PROVE  [KycNext]_<<govVars, kycVars>> /\ [QuoteNext]_<<govVars, quoteVars>>
    BY DEF TakingNext, takingVars, KycNext, QuoteNext, GovernanceCall, TakeNext, ReceiveQuote,
           AcceptQuoteWithCompliance, Take

\* Receiving and accepting a quote keeps what was taken sound, and so does every
\* call that changes a record or a quote afterwards.
LEMMA TakingInvStep == TakingInv /\ [TakingNext]_takingVars => TakingInv'
<1> SUFFICES ASSUME TakingInv, [TakingNext]_takingVars PROVE TakingInv'
    OBVIOUS
<1>1. KycInv' /\ QuoteInv'
    BY TakingIsKycAndQuotes, KycInvStep, QuoteInvStep DEF TakingInv
<1>2. CASE UNCHANGED taken
  <2>1. Len(quotes') \in Nat
    BY <1>1 DEF QuoteInv, QuoteTypeOK
  <2> QED
    BY <1>1, <1>2, <2>1, TakingIsKycAndQuotes, TakenStays DEF TakingInv
<1>3. CASE TakeNext
    BY <1>1, <1>3, TakeStep DEF TakingInv
<1> QED
    BY <1>2, <1>3 DEF TakingNext, takingVars

\* TakingInv holds throughout.
LEMMA TakingInvariant == TakingSpec => []TakingInv
<1>1. TakingInit => TakingInv
    BY KycInvInit, QuoteInvInit DEF TakingInit, TakingInv, TakenInv
<1> QED
    BY <1>1, TakingInvStep, PTL DEF TakingSpec

\* A quote that was accepted was within its validity, and the last check of its receiver
\* up to then had been passed if that was asked for, whatever was submitted, invalidated,
\* migrated or checked between the two.
THEOREM TakenSoundlyHolds == TakingSpec => []TakenSoundly
<1>1. TakingInv => TakenSoundly
    BY DEF TakingInv, TakenInv, TakenSoundly, KycInv, HistoryTypeOK, KycChecks
<1> QED
    BY <1>1, TakingInvariant, PTL

\* The composition is a refinement of each of its parts, so what is proved of the records
\* alone and of the quotes alone holds of the contract that has both.
THEOREM TakingImplementsParts == TakingSpec => KycSpec /\ QuoteSpec
<1>1. TakingInit => KycInit /\ QuoteInit
    BY DEF TakingInit
<1>2. [TakingNext]_takingVars =>
        [KycNext]_<<govVars, kycVars>> /\ [QuoteNext]_<<govVars, quoteVars>>
    BY TakingIsKycAndQuotes
<1> QED
    BY <1>1, <1>2, PTL DEF TakingSpec, KycSpec, QuoteSpec
=============================================================================
