----------------------------- MODULE HostStores -----------------------------
(***************************************************************************)
(* What the host remembers about requests: the results of operations       *)
(* already executed (src/request_deduplication.rs), the request ids seen   *)
(* at the boundary (src/host_replay_prevention.rs) and the history of      *)
(* requests with its retention, export and archive (src/request_record.rs).*)
(***************************************************************************)
EXTENDS Lists, FiniteSets

CONSTANTS
    Requests,       \* deduplication keys and request ids
    DedupTtl,       \* default_ttl_secs
    DedupSizes,     \* max_entries; zero: no cap
    GuardWindows,   \* window_secs; zero: for ever
    RecordPolicies, \* records, age (zero: no limit) and onWrite
    PageSize,       \* size of the pages an export asks for
    MaxRecords,     \* bound on the history
    MaxHostTime

ASSUME HostStoreConstants ==
    /\ DedupTtl \in Nat \ {0}
    /\ DedupSizes \subseteq Nat /\ GuardWindows \subseteq Nat
    /\ RecordPolicies \subseteq [records : Nat, age : Nat, onWrite : BOOLEAN]
    /\ PageSize \in Nat \ {0}
    /\ {MaxRecords, MaxHostTime} \subseteq Nat

VARIABLES
    hostTime,
    dedup,     \* size, and the entries: result and expiry by key
    lastRun,   \* ghost: time and result last recorded for each key
    served,    \* ghost: time and result of the last reply flagged a duplicate since then
    guard,     \* window, and the ids seen with first_seen_at (its two counters are left out)
    accepts,   \* ghost: acceptances of each id since forget or reset
    store,     \* policy, records, archive
    pushed,    \* ghost: records pushed so far
    discarded, \* ghost: records a retention policy removes, or an emptied archive held
    export     \* an export in progress: cursor, pages, what it started from

dedupVars == <<dedup, lastRun, served>>
guardVars == <<guard, accepts>>
recordVars == <<store, pushed, discarded, export>>
hostStoreVars == <<hostTime, dedupVars, guardVars, recordVars>>

NoRun == [at |-> 0, result |-> "none"]
NoExport == [cursor |-> 0, got |-> <<>>, from |-> <<>>, state |-> "idle"]

HostStoreInit ==
    /\ hostTime = 1
    /\ dedup \in [size : DedupSizes, entries : {[k \in {} |-> NoRun]}]
    /\ lastRun = [k \in Requests |-> NoRun]
    /\ served = lastRun
    /\ guard \in [window : GuardWindows, seen : {<<>>}]
    /\ accepts = [k \in Requests |-> <<>>]
    /\ store \in [policy : RecordPolicies, records : {<<>>}, archive : {<<>>}]
    /\ pushed = <<>>
    /\ discarded = {}
    /\ export = NoExport

HostTick ==
    /\ hostTime < MaxHostTime
    /\ hostTime' = hostTime + 1
    /\ UNCHANGED <<dedupVars, guardVars, recordVars>>

-----------------------------------------------------------------------------
(* DeduplicationStore *)

\* A bug ReacceptedOnlyAfterExpiry must catch: a result is dropped a second early.
LiveButLastSecond == {k \in DOMAIN dedup.entries : dedup.entries[k].expires > hostTime + 1}

LiveResults == {k \in DOMAIN dedup.entries : dedup.entries[k].expires > hostTime}

IsDuplicate(k) == k \in LiveResults

CachedResult(k) == IF IsDuplicate(k) THEN dedup.entries[k].result ELSE "none"

\* record_success and record_failure: at capacity the expired entries go, and a
\* result that still finds no room is not kept, be its key one of those stored.
RecordResult(k, result) ==
    LET full == dedup.size > 0 /\ Cardinality(DOMAIN dedup.entries) >= dedup.size
        keep == IF full THEN LiveResults ELSE DOMAIN dedup.entries
        room == dedup.size = 0 \/ Cardinality(keep) < dedup.size
    IN  /\ dedup' = [dedup EXCEPT !.entries =
             [q \in keep \cup (IF room THEN {k} ELSE {}) |->
                IF q = k /\ room THEN [result |-> result, expires |-> hostTime + DedupTtl]
                ELSE dedup.entries[q]]]
        /\ lastRun' = IF room THEN [lastRun EXCEPT ![k] = [at |-> hostTime, result |-> result]]
                      ELSE lastRun
        /\ served' = IF room THEN [served EXCEPT ![k] = NoRun] ELSE served

\* The operation has run and has given result, new or not.
RecordDirectly(k, result) ==
    /\ RecordResult(k, result)
    /\ UNCHANGED <<hostTime, guardVars, recordVars>>

\* execute_deduplicated, whose operation gives result: a duplicate runs the operation
\* all the same, to have a value of the right type, and is handed that value.
ExecuteDeduplicated(k, result) ==
    /\ IF IsDuplicate(k)
       THEN /\ served' = [served EXCEPT ![k] = [at |-> hostTime, result |-> result]]
            /\ UNCHANGED <<dedup, lastRun>>
       ELSE RecordResult(k, result)
    /\ UNCHANGED <<hostTime, guardVars, recordVars>>

PurgeExpired ==
    /\ dedup' = [dedup EXCEPT !.entries = [k \in LiveResults |-> dedup.entries[k]]]
    /\ dedup' # dedup
    /\ UNCHANGED <<hostTime, lastRun, served, guardVars, recordVars>>

-----------------------------------------------------------------------------
(* HostReplayGuard *)

PrunedSeen ==
    IF guard.window = 0 THEN guard.seen
    ELSE Kept(guard.seen, {e \in ToSet(guard.seen) : e.at >= Max({hostTime - guard.window, 0})})

IsKnown(seen, k) == \E i \in DOMAIN seen : seen[i].id = k

CheckReplay(k) ==
    /\ IF IsKnown(PrunedSeen, k)
       THEN /\ guard' = [guard EXCEPT !.seen = PrunedSeen]
            /\ UNCHANGED accepts
       ELSE /\ guard' = [guard EXCEPT !.seen = Append(PrunedSeen, [id |-> k, at |-> hostTime])]
            /\ accepts' = [accepts EXCEPT ![k] = Append(@, hostTime)]
    /\ UNCHANGED <<hostTime, dedupVars, recordVars>>

Forget(k) ==
    /\ guard' = [guard EXCEPT !.seen = Kept(@, {e \in ToSet(@) : e.id # k})]
    /\ accepts' = [accepts EXCEPT ![k] = <<>>]
    /\ UNCHANGED <<hostTime, dedupVars, recordVars>>

ResetGuard ==
    /\ guard' = [guard EXCEPT !.seen = <<>>]
    /\ accepts' = [k \in Requests |-> <<>>]
    /\ UNCHANGED <<hostTime, dedupVars, recordVars>>

-----------------------------------------------------------------------------
(* RequestRecordStore *)

\* enforce_policy: too old first, then the oldest beyond the limit.
Enforced(policy, records) ==
    LET young == IF policy.age = 0 \/ hostTime = 0 THEN records
                 ELSE Kept(records, {r \in ToSet(records) : r.at >= Max({hostTime - policy.age, 0})})
        n == Len(young)
    IN  IF policy.records > 0 /\ n > policy.records
        THEN SubSeq(young, n - policy.records + 1, n) ELSE young

\* The place of a record a policy does not retain: its record is older than the age
\* limit, or as many as the record limit came after it.
Leaves(policy, records, i) ==
    \/ policy.age > 0 /\ records[i].at + policy.age < hostTime
    \/ policy.records > 0 /\ Len(records) - i >= policy.records

Expendable(policy, records) ==
    {records[i] : i \in {j \in DOMAIN records : Leaves(policy, records, j)}}

PushRecord ==
    /\ Len(pushed) < MaxRecords
    /\ LET record == [id |-> Len(pushed), at |-> hostTime]
           records == Append(store.records, record)
       IN  /\ pushed' = Append(pushed, record)
           /\ store' = [store EXCEPT !.records =
                IF store.policy.onWrite THEN Enforced(store.policy, records) ELSE records]
           /\ discarded' = discarded \cup
                (IF store.policy.onWrite THEN Expendable(store.policy, records) ELSE {})
    /\ UNCHANGED <<hostTime, dedupVars, guardVars, export>>

SetRetentionPolicy(policy) ==
    /\ store' = [store EXCEPT !.policy = policy, !.records = Enforced(policy, @)]
    /\ discarded' = discarded \cup Expendable(policy, store.records)
    /\ UNCHANGED <<hostTime, dedupVars, guardVars, pushed, export>>

\* A bug HistoryAccounted must catch: what is archived replaces what was.
ArchiveReplaces(cutoff) ==
    /\ LET old == {r \in ToSet(store.records) : r.at < cutoff}
       IN  store' = [store EXCEPT !.records = Kept(@, ToSet(@) \ old),
                                  !.archive = Kept(store.records, old)]
    /\ UNCHANGED <<hostTime, dedupVars, guardVars, pushed, discarded, export>>

ArchiveBefore(cutoff) ==
    /\ LET old == {r \in ToSet(store.records) : r.at < cutoff}
       IN  store' = [store EXCEPT !.records = Kept(@, ToSet(@) \ old),
                                  !.archive = @ \o Kept(store.records, old)]
    /\ UNCHANGED <<hostTime, dedupVars, guardVars, pushed, discarded, export>>

ClearArchive ==
    /\ store.archive # <<>>
    /\ store' = [store EXCEPT !.archive = <<>>]
    /\ discarded' = discarded \cup ToSet(store.archive)
    /\ UNCHANGED <<hostTime, dedupVars, guardVars, pushed, export>>

\* A bug HistoryAccounted must catch: the next page starts one record late.
PageSkipping(records, cursor, size) ==
    LET end == Min({cursor + size, Len(records)})
    IN  IF cursor >= Len(records) THEN [records |-> <<>>, next |-> cursor, more |-> FALSE]
        ELSE [records |-> SubSeq(records, cursor + 1, end), next |-> end + 1,
              more |-> end < Len(records)]

\* export_batch, and archive_export over the archive.
Page(records, cursor, size) ==
    LET end == Min({cursor + size, Len(records)})
    IN  IF cursor >= Len(records) THEN [records |-> <<>>, next |-> cursor, more |-> FALSE]
        ELSE [records |-> SubSeq(records, cursor + 1, end), next |-> end,
              more |-> end < Len(records)]

\* The caller's loop: it advances the cursor until there is no more.
ExportPage ==
    /\ export.state # "done"
    /\ LET page == Page(store.records, export.cursor, PageSize)
       IN  export' = [cursor |-> page.next, got |-> export.got \o page.records,
                      from |-> IF export.state = "idle" THEN store.records ELSE export.from,
                      state |-> IF page.more THEN "paging" ELSE "done"]
    /\ UNCHANGED <<hostTime, dedupVars, guardVars, store, pushed, discarded>>
-----------------------------------------------------------------------------

DedupNext ==
    \/ \E k \in Requests, result \in {"ok", "err"} :
          ExecuteDeduplicated(k, result) \/ RecordDirectly(k, result)
    \/ PurgeExpired

GuardNext == ResetGuard \/ \E k \in Requests : CheckReplay(k) \/ Forget(k)

RecordNext ==
    \/ PushRecord
    \/ \E policy \in RecordPolicies : SetRetentionPolicy(policy)
    \/ \E cutoff \in 1..hostTime : ArchiveBefore(cutoff)
    \/ ClearArchive
    \/ ExportPage

HostStoreNext == HostTick \/ DedupNext \/ GuardNext \/ RecordNext

HostStoreSpec == HostStoreInit /\ [][HostStoreNext]_hostStoreVars
-----------------------------------------------------------------------------
(* Properties *)

\* The result last recorded for a key is what cached_result gives until its time to
\* live is over, whatever executes, is recorded or purged in between and however full
\* the store; only within that time is a call flagged a duplicate (what it is handed is
\* the result of its own run: DuplicateGetsCached). An id the guard accepted is not
\* accepted again within the window, at its last second included, and never when the
\* window is unlimited.
ReacceptedOnlyAfterExpiry ==
    /\ \A k \in Requests : lastRun[k] # NoRun /\ hostTime < lastRun[k].at + DedupTtl
                           => CachedResult(k) = lastRun[k].result
    /\ \A k \in Requests : served[k] # NoRun =>
          /\ lastRun[k] # NoRun /\ lastRun[k].at <= served[k].at
          /\ served[k].at < lastRun[k].at + DedupTtl
    /\ dedup.size > 0 => Cardinality(DOMAIN dedup.entries) <= dedup.size
    /\ \A k \in Requests : \A i, j \in DOMAIN accepts[k] :
          i < j => guard.window > 0 /\ accepts[k][j] - accepts[k][i] > guard.window

\* Every record pushed, and none but those, is in the history, in the archive, or among
\* those that a policy or an emptied archive discarded, in one of them only and as it was
\* pushed; history and archive are each in the order of the requests. And an export
\* that no retention or archival interrupted returns every record that was there when
\* it began, each once, even while requests are added.
HistoryAccounted ==
    LET active == ToSet(store.records)
        archived == ToSet(store.archive)
        InOrder(s) == \A i, j \in DOMAIN s : i < j => s[i].id < s[j].id
        interrupted == ~IsPrefix(export.from, store.records)
    IN  /\ InOrder(store.records) /\ InOrder(store.archive)
        /\ ToSet(pushed) = active \cup archived \cup discarded
        /\ active \cap archived = {} /\ (active \cup archived) \cap discarded = {}
        /\ ~interrupted /\ export.state = "done" => IsPrefix(export.from, export.got)
        /\ ~interrupted => IsPrefix(export.got, store.records)

\* The stores of request results and records: a result is forgotten and an id accepted
\* again only after its entry expired, and every record is accounted for by its history,
\* its archive and its pages.
StoresSound == ReacceptedOnlyAfterExpiry /\ HistoryAccounted

\* "On subsequent calls with the same key (within the TTL): returns the cached outcome
\* without calling f" (src/request_deduplication.rs:301-302).
DuplicateGetsCached == \A k \in Requests : served[k] # NoRun => served[k].result = lastRun[k].result
=============================================================================
