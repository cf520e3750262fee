---------------------------- MODULE ContractReads ---------------------------
(***************************************************************************)
(* The paginated reads of src/contract.rs over the attestations, the audit *)
(* log and the log of a session, the export of the audit log, and the      *)
(* diagnostics read from the same storage.  Page sizes are capped.         *)
(***************************************************************************)
EXTENDS RequestTracing, SequencesExt

CONSTANT PageCap    \* PAGE_CAP, and the 50 of the log reads

ASSUME PageCapIsPositive == PageCap \in Nat \ {0}

AtMost(x, y) == IF x <= y THEN x ELSE y

\* AttestationFilter: an absent minimum is 0, an absent issuer NoAddr.  The filters by
\* subject and by time compare further fields of the record in the same way.
Matches(f, id) ==
    /\ id >= f.minId
    /\ id + 1 \in DOMAIN attestations
    /\ f.issuer # NoAddr => attestations[id + 1].issuer = f.issuer

Matching(f) == Kept(idIndex, {id \in ToSet(idIndex) : Matches(f, id)})

\* A bug PagesComplete must catch: the record that did not fit is passed over.
ResumePastNext(offset, n) == offset + n + 1

ResumeAt(offset, n) == offset + n

\* get_attestations_paginated: the offset counts matching records, the total all of
\* them, and the total as next offset says that the last page was read.
GetAttestationsPaginated(offset, limit, f) ==
    LET total == Len(idIndex)
        n     == AtMost(limit, PageCap)
        found == Matching(f)
    IN  IF offset >= total
        THEN [ids |-> <<>>, next |-> total]
        ELSE [ids  |-> SubSeq(found, offset + 1, AtMost(offset + n, Len(found))),
              next |-> IF Len(found) > offset + n THEN ResumeAt(offset, n) ELSE total]

\* get_attestation_by_hash
GetAttestationByHash(issuer, h) == used[issuer][h]

-----------------------------------------------------------------------------
\* The audit records with the ids lo..hi-1 that are stored, in order.
AuditRecords(ids) ==
    LET present == Kept(ids, {e.log_id : e \in audit})
    IN  [i \in 1..Len(present) |-> CHOOSE e \in audit : e.log_id = present[i]]

IdsFrom(from, to) == [i \in 1..(IF to > from THEN to - from ELSE 0) |-> from + i - 1]

\* get_audit_logs_paginated and export_audit_log_batch: pruned records leave gaps, so a
\* page may be short although more follow.
GetAuditLogsPaginated(offset, limit) ==
    AuditRecords(IdsFrom(offset, AtMost(offset + AtMost(limit, PageCap), logCount)))

\* The log ids that SLOG holds for the given operations of a session.
LoggedOps(s, from, to) ==
    Kept([i \in 1..Len(IdsFrom(from, to)) |-> slog[s][from + i - 1]],
         {slog[s][i] : i \in OpIndex} \ {NoLog})

\* get_session_logs_paginated
GetSessionLogsPaginated(s, offset, limit) ==
    AuditRecords(LoggedOps(s, offset, AtMost(offset + AtMost(limit, PageCap), opCount[s])))

\* get_session_audit_logs reads the latest `limit` operations.
FirstOfLatest(s, limit) == IF opCount[s] > limit THEN opCount[s] - limit ELSE 0

GetSessionAuditLogs(s, limit) == AuditRecords(LoggedOps(s, FirstOfLatest(s, limit), opCount[s]))

\* get_session_state reports Expired for every session past its lifetime, closed or not.
GetSessionState(s) ==
    IF Expired(s) THEN "Expired" ELSE sessions[s].state

\* get_contract_diagnostics and get_session_diagnostics
Diagnostics == [attestations |-> counter, quotes |-> quotesTaken, sessions |-> nextSession]

-----------------------------------------------------------------------------
(* Properties *)

\* One page more for a reader that starts at 0 and follows next_offset to the total.
NextPage(w, limit, f) ==
    IF w.next = Len(idIndex) THEN w
    ELSE LET p == GetAttestationsPaginated(w.next, limit, f)
         IN  [ids |-> w.ids \o p.ids, next |-> p.next]

\* What the reader has after so many pages that no more can follow.
Walk(limit, f) ==
    LET walk[k \in 0..(Len(idIndex) + 1)] ==
            IF k = 0 THEN [ids |-> <<>>, next |-> 0] ELSE NextPage(walk[k - 1], limit, f)
    IN  walk[Len(idIndex) + 1]

InOrder(page) == \A i \in 2..Len(page) : page[i - 1].log_id < page[i].log_id

\* Whatever the filter and the page size, following next_offset reads every matching
\* attestation exactly once, in the order of submission, and reaches the total.  Pages of
\* the audit log at consecutive offsets hold every stored record once, in order, whatever
\* was pruned; the log of a session holds its own records alone, and its latest n are the
\* end of that log.  What a payload hash leads to is an attestation of its issuer, a
\* session that reads as open accepts operations while it has some left, and the
\* diagnostics agree with the stores.
PagesComplete ==
    /\ \A f \in [minId : 0..1, issuer : Addr \cup {NoAddr}], limit \in 1..(PageCap + 1) :
         Walk(limit, f) = [ids |-> Matching(f), next |-> Len(idIndex)]
    /\ \A n \in 1..PageCap, i \in 0..logCount :
         LET page == GetAuditLogsPaginated(i * n, n)
         IN  InOrder(page) /\ Range(page) = {e \in audit : e.log_id \div n = i}
    /\ \A s \in SessionId, n \in 1..PageCap :
         /\ \A i \in 0..opCount[s] :
              LET page == GetSessionLogsPaginated(s, i * n, n)
              IN  InOrder(page)
                  /\ Range(page) = {e \in audit : e.session = s /\ e.index \div n = i}
         /\ Range(GetSessionAuditLogs(s, n))
              = {e \in audit : e.session = s /\ e.index + n >= opCount[s]}
    /\ \A a \in Addr, h \in Hash : GetAttestationByHash(a, h) # NoId =>
         attestations[GetAttestationByHash(a, h) + 1].issuer = a
    /\ \A s \in SessionId : Exists(s) =>
         (GetSessionState(s) \in {"Created", "Active"} /\ opCount[s] < MaxOps
            <=> SessionOpen(s))
    /\ Diagnostics.attestations = Len(attestations)
    /\ Diagnostics.sessions = Cardinality({s \in SessionId : Exists(s)})
=============================================================================
