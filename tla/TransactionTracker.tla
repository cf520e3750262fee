------------------------- MODULE TransactionTracker -------------------------
(***************************************************************************)
(* Transaction records: the state machine, recovery and retention of       *)
(* src/transaction_state_tracker.rs in production mode, and the contract   *)
(* calls of src/contract.rs that share its storage keys TXSTATE and TXIDS  *)
(* and evict under a storage budget; and the tracker in development mode,  *)
(* which keeps its records in memory, next to the other and given the same *)
(* calls.  There every record counts 256 bytes, so the budget monitor is a *)
(* number of records; the callers set the fields that turn evictions on,   *)
(* while in production mode the monitor counts nothing and the tracker     *)
(* never evicts.  Error texts, initiators and the write-only transition    *)
(* log TXAUDIT are left out.                                               *)
(***************************************************************************)
EXTENDS Lists, FiniteSets

CONSTANTS
    Tx,           \* transaction ids
    RecordBytes,  \* APPROX_TXSTATE_RECORD_BYTES
    DefaultWarn,  \* DEFAULT_TXBUDGET_WARNING_BYTES
    WarnBytes,    \* warning thresholds an admin may set
    EvictMax,     \* max_per_call values an admin may set
    DefaultEvictMax, \* max_per_call when none is stored
    Policy,       \* RecoveryRetentionPolicy values callers pass
    MaxIds,       \* bound on the length of TXIDS
    MaxHistory,   \* bound on the states of one record
    MaxAttempts,  \* bound on retry_count
    MaxBatch,     \* MAX_BATCH of a range query
    MaxTxTime,    \* bound: the ledger timestamp stops here
    WarnEntries   \* records that reach WARNING_BYTES, in development mode

\* RecoveryRetentionPolicy::validate, set_storage_budget_thresholds
ASSUME TrackerConstants ==
    /\ RecordBytes \in Nat \ {0}
    /\ DefaultWarn \in Nat \ {0}
    /\ WarnBytes \subseteq Nat \ {0}
    /\ EvictMax \subseteq Nat
    /\ DefaultEvictMax \in Nat
    /\ Policy \subseteq [age : Nat \ {0}, retries : Nat \ {0}]
    /\ MaxIds \in Nat
    /\ MaxHistory \in Nat
    /\ MaxAttempts \in Nat
    /\ MaxBatch \in Nat
    /\ MaxTxTime \in Nat

ASSUME WarnEntriesIsPositive == WarnEntries \in Nat \ {0}

VARIABLES
    txTime,    \* env.ledger().timestamp()
    records,   \* TXSTATE: id -> TransactionStateRecord
    txIds,     \* TXIDS: ids in order of creation, repeated if created again
    archive,   \* RCVARCH: ids with archived recovery metadata
    evicting,  \* EVICTEN
    evictMax,  \* EVICTMAX
    warnBytes, \* TXBUDWRN
    expired,   \* ids whose record the host has expired (ghost)
    cache,     \* the records, an id once per creation
    knownIds,  \* known_ids
    budget,    \* entry_count of the budget monitor
    devEvicting, \* eviction_enabled and max_evictions_per_call
    past       \* what has happened so far (ghost)

txStore == <<records, txIds, archive>>
txConfig == <<evicting, evictMax, warnBytes>>
txVars == <<txTime, txStore, txConfig, expired>>

InFlight == {"Pending", "InProgress"}
Terminal == {"Completed", "Failed"}
TransactionState == InFlight \cup Terminal

NoMeta == [from |-> "none", retries |-> 0]

\* "Absent" stands for a storage key that is not there.
NoRecord == [state |-> "Absent", created |-> 0, updated |-> 0,
             history |-> <<>>, meta |-> NoMeta]

TxInit ==
    /\ txTime = 0
    /\ records = [id \in Tx |-> NoRecord]
    /\ txIds = <<>>
    /\ archive = {}
    /\ evicting = FALSE
    /\ evictMax = DefaultEvictMax
    /\ warnBytes = DefaultWarn
    /\ expired = {}

-----------------------------------------------------------------------------
Stored(id) == records[id].state # "Absent"

IsTerminal(id) == records[id].state \in Terminal

\* A bug TrackerSound must catch: a completed transaction may fail.
CompletedMayFail(from, to) ==
    \/ from = "Pending" /\ to \in {"InProgress", "Failed"}
    \/ from \in {"InProgress", "Completed"} /\ to \in Terminal \ {from}

IsValidTransition(from, to) ==
    \/ from = "Pending" /\ to \in {"InProgress", "Failed"}
    \/ from = "InProgress" /\ to \in Terminal

\* get_storage_budget_report: every entry of TXIDS counts, repeated or not.
UnderPressure == Len(txIds) * RecordBytes >= warnBytes

Smaller(x, y) == IF x <= y THEN x ELSE y

\* A bug EvictionIsSafe must catch: the entries are taken in TXIDS order.
FirstPositions ==
    LET terminal == {i \in 1..Len(txIds) : IsTerminal(txIds[i])}
    IN  {K \in SUBSET terminal :
           /\ Cardinality(K) = Smaller(evictMax, Cardinality(terminal))
           /\ \A i \in K, j \in terminal \ K : i < j}

\* The TXIDS positions run_auto_eviction picks: the max_per_call terminal
\* entries of the oldest records.  The sort is unstable, so any order among
\* records of one timestamp is possible.
OldestPositions ==
    LET terminal == {i \in 1..Len(txIds) : IsTerminal(txIds[i])}
    IN  {K \in SUBSET terminal :
           /\ Cardinality(K) = Smaller(evictMax, Cardinality(terminal))
           /\ \A i \in K, j \in terminal \ K :
                records[txIds[i]].created <= records[txIds[j]].created}

\* The sets of ids a creation may evict.
Evictions ==
    IF evicting /\ UnderPressure
    THEN {{txIds[i] : i \in K} : K \in OldestPositions}
    ELSE {{}}

\* A bug TrackerSound must catch: one entry is dropped per evicted id.
OneEntryDropped(gone) ==
    LET i == CHOOSE j \in 1..Len(txIds) : txIds[j] \in gone
    IN  IF gone = {} THEN txIds ELSE RemoveAt(txIds, i)

LiveIds(gone) == Kept(txIds, Tx \ gone)

NewRecord(state, history, meta) ==
    [state |-> state, created |-> txTime, updated |-> txTime,
     history |-> history, meta |-> meta]

\* Evict, then store the record and append its id.  An id that is in use is
\* not refused: its record is replaced.
Insert(id, gone, record) ==
    /\ Len(LiveIds(gone)) < MaxIds
    /\ records' = [x \in Tx |-> IF x = id THEN record
                                ELSE IF x \in gone THEN NoRecord ELSE records[x]]
    /\ txIds' = Append(LiveIds(gone), id)
    /\ expired' = (expired \ gone) \ {id}
    /\ UNCHANGED <<txTime, archive, txConfig>>

\* create_transaction_record and create_txn_record_with_reason of the contract
CreateTransactionRecord(id) ==
    \E gone \in Evictions :
        Insert(id, gone, NewRecord("Pending", <<"Pending">>, NoMeta))

\* create_transaction of the tracker: its in-memory budget monitor counts
\* nothing in production mode, so it never evicts.
CreateTransaction(id) ==
    Insert(id, {}, NewRecord("Pending", <<"Pending">>, NoMeta))

\* A bug TrackerSound must catch: from_state is read after the update.
FailedFromAfterUpdate(r, to) ==
    IF to = "Failed" THEN [from |-> to, retries |-> 0] ELSE r.meta

\* A failure writes new recovery metadata over what is there.
FailedFrom(r, to) ==
    IF to = "Failed" THEN [from |-> r.state, retries |-> 0] ELSE r.meta

\* update_state and advance_transaction_state_internal
UpdateState(id, to) ==
    LET r == records[id]
    IN  /\ Stored(id)
        /\ IsValidTransition(r.state, to)
        /\ records' = [records EXCEPT ![id] =
             [r EXCEPT !.state = to, !.updated = txTime,
                       !.history = Append(@, to),
                       !.meta = FailedFrom(r, to)]]
        /\ UNCHANGED <<txTime, txIds, archive, txConfig, expired>>

\* The calls of the tracker, and of the contract, which has no audit entries.
StartTransaction(id) == UpdateState(id, "InProgress")
CompleteTransaction(id) == UpdateState(id, "Completed")
FailTransaction(id) == UpdateState(id, "Failed")
AdvanceTransactionState(id, to) == UpdateState(id, to)

AdvanceTransactionStateInternal(id, to) ==
    /\ to \in {"InProgress"} \cup Terminal
    /\ UpdateState(id, to)

-----------------------------------------------------------------------------
(* Recovery *)

RecordRecoveryAttempt(id) ==
    /\ records[id].state = "Failed"
    /\ records[id].meta # NoMeta
    /\ records[id].meta.retries < MaxAttempts
    /\ records' = [records EXCEPT ![id].meta.retries = @ + 1]
    /\ UNCHANGED <<txTime, txIds, archive, txConfig, expired>>

\* The failed_from_state values import_recovery_state accepts.
ImportableStates == InFlight

\* A new record is given the history Pending, failed_from, Failed.
ImportRecoveryState(id, from, retries) ==
    /\ from \in ImportableStates
    /\ LET meta == [from |-> from, retries |-> retries]
       IN  \/ /\ records[id].state = "Failed"
              /\ records' = [records EXCEPT ![id].meta = meta, ![id].updated = txTime]
              /\ UNCHANGED <<txTime, txIds, archive, txConfig, expired>>
           \/ /\ ~Stored(id)
              /\ Insert(id, {}, NewRecord("Failed", <<"Pending", from, "Failed">>, meta))

\* Back to the state the transaction failed from; the metadata stays.
ResumePartialRecovery(id) ==
    LET r == records[id]
    IN  /\ r.state = "Failed"
        /\ r.meta # NoMeta
        /\ r.meta.from \notin Terminal
        /\ r.meta.retries < MaxAttempts
        /\ Len(r.history) < MaxHistory
        /\ records' = [records EXCEPT ![id] =
             [r EXCEPT !.state = r.meta.from, !.updated = txTime,
                       !.history = Append(@, r.meta.from),
                       !.meta.retries = @ + 1]]
        /\ UNCHANGED <<txTime, txIds, archive, txConfig, expired>>

\* is_eligible: the age counts from the last state change or import.
IsEligible(id, policy) ==
    /\ records[id].meta # NoMeta
    /\ \/ txTime - records[id].updated >= policy.age
       \/ records[id].meta.retries >= policy.retries

\* The metadata that is eligible is removed, and kept aside if it is archived.
DropMetadata(ids, policy, keep) ==
    LET dropped == {id \in ids : IsEligible(id, policy)}
    IN  /\ dropped # {}
        /\ records' = [id \in Tx |->
             IF id \in dropped THEN [records[id] EXCEPT !.meta = NoMeta]
                               ELSE records[id]]
        /\ archive' = IF keep THEN archive \cup dropped ELSE archive
        /\ UNCHANGED <<txTime, txIds, txConfig, expired>>

PruneRecoveryMetadata(id, policy) == DropMetadata({id}, policy, FALSE)
ArchiveRecoveryMetadata(id, policy) == DropMetadata({id}, policy, TRUE)

\* One of the two for every id of TXIDS.
SweepRecoveryMetadata(policy, keep) == DropMetadata(ToSet(txIds), policy, keep)

-----------------------------------------------------------------------------
(* Time, expiry and configuration *)

\* The host expires a record; its id stays in TXIDS.
ExpireRecord(id) ==
    /\ Stored(id)
    /\ records' = [records EXCEPT ![id] = NoRecord]
    /\ expired' = expired \cup {id}
    /\ UNCHANGED <<txTime, txIds, archive, txConfig>>

CleanupExpired ==
    /\ txIds' = Kept(txIds, {id \in Tx : Stored(id)})
    /\ expired' = {}
    /\ UNCHANGED <<txTime, records, archive, txConfig>>

SetEvictionPolicy(enabled, n) ==
    /\ evicting' = enabled
    /\ evictMax' = n
    /\ UNCHANGED <<txTime, txStore, warnBytes, expired>>

SetStorageBudgetThresholds(n) ==
    /\ warnBytes' = n
    /\ UNCHANGED <<txTime, txStore, evicting, evictMax, expired>>

TxTick ==
    /\ txTime < MaxTxTime
    /\ txTime' = txTime + 1
    /\ UNCHANGED <<txStore, txConfig, expired>>

-----------------------------------------------------------------------------
(* Reads: ids are given by their positions in an ascending list of all of them *)

\* The first `limit` members of a list, at most MaxBatch.
Batch(seq, limit) == SubSeq(seq, 1, Smaller(Smaller(limit, MaxBatch), Len(seq)))

\* get_transactions_in_range: ids without a record are passed over.
GetTransactionsInRange(ascending, from, to, limit) ==
    LET found == Batch(SelectSeq(SubSeq(ascending, from, to), Stored), limit)
    IN  [i \in 1..Len(found) |-> records[found[i]]]

\* summarize_transactions_by_status walks TXIDS: an id created twice counts twice.
SummarizeTransactionsByStatus ==
    [state \in TransactionState |->
       Cardinality({i \in 1..Len(txIds) : records[txIds[i]].state = state})]

GetRecoveryMetadata(id) == records[id].meta
IsRecoverable(id) == records[id].state = "Failed"
IsPartiallyRecoverable(id) ==
    records[id].state = "Failed" /\ records[id].meta # NoMeta /\ records[id].meta.from \notin Terminal

\* export_recovery_state asks for the metadata, and not for the state.
Exports(id) == GetRecoveryMetadata(id) # NoMeta

TxNext ==
    \/ TxTick
    \/ CleanupExpired
    \/ \E n \in EvictMax, enabled \in BOOLEAN : SetEvictionPolicy(enabled, n)
    \/ \E n \in WarnBytes : SetStorageBudgetThresholds(n)
    \/ \E p \in Policy, keep \in BOOLEAN : SweepRecoveryMetadata(p, keep)
    \/ \E id \in Tx :
         \/ CreateTransactionRecord(id)
         \/ CreateTransaction(id)
         \/ StartTransaction(id) \/ CompleteTransaction(id) \/ FailTransaction(id)
         \/ \E to \in TransactionState : AdvanceTransactionState(id, to)
         \/ \E to \in TransactionState : AdvanceTransactionStateInternal(id, to)
         \/ RecordRecoveryAttempt(id)
         \/ \E from \in TransactionState, n \in 0..MaxAttempts :
              ImportRecoveryState(id, from, n)
         \/ ResumePartialRecovery(id)
         \/ \E p \in Policy : PruneRecoveryMetadata(id, p) \/ ArchiveRecoveryMetadata(id, p)
         \/ ExpireRecord(id)

TxSpec == TxInit /\ [][TxNext]_txVars

-----------------------------------------------------------------------------
(* Development mode *)

devVars == <<cache, knownIds, budget, devEvicting, past>>

DevInit ==
    /\ cache = <<>>
    /\ knownIds = <<>>
    /\ budget = 0
    /\ devEvicting = [on |-> FALSE, max |-> DefaultEvictMax]
    /\ past = [begun |-> {}, reused |-> FALSE, cleared |-> FALSE, evicted |-> FALSE]

\* get_transaction_state: the first record with the id.
Find(id) == CHOOSE i \in 1..Len(cache) : /\ cache[i].id = id
                                         /\ \A j \in 1..(i - 1) : cache[j].id # id

IsCached(id) == \E i \in 1..Len(cache) : cache[i].id = id

\* auto_evict_if_needed: the positions it may pick.
Picks ==
    LET terminal == {i \in 1..Len(cache) : cache[i].record.state \in Terminal}
    IN  IF ~devEvicting.on \/ budget < WarnEntries THEN {{}}
        ELSE {K \in SUBSET terminal :
                /\ Cardinality(K) = Smaller(devEvicting.max, Cardinality(terminal))
                /\ \A i \in K, j \in terminal \ K :
                     cache[i].record.created <= cache[j].record.created}

\* A bug ModesAgree must catch: an eviction gives no budget back.
RemovedForFree(n) == budget

\* remove_entry, n times.
Removed(n) == IF budget >= n THEN budget - n ELSE 0

DevCreate(id) ==
    \E K \in Picks :
        LET gone == {cache[i].id : i \in K}
        IN  /\ Len(cache) < MaxIds
            /\ cache' = Append(SelectSeq(cache, LAMBDA c : c.id \notin gone),
                               [id |-> id, record |-> NewRecord("Pending", <<"Pending">>, NoMeta)])
            /\ knownIds' = Append(SelectSeq(knownIds, LAMBDA x : x \notin gone), id)
            /\ budget' = Removed(Cardinality(K)) + 1
            /\ past' = [past EXCEPT !.begun = @ \cup {id},
                                    !.reused = @ \/ id \in past.begun,
                                    !.evicted = @ \/ K # {}]
            /\ UNCHANGED devEvicting

\* update_state in development mode.
ChangeFirst(id, to) ==
    LET r == cache[Find(id)].record
    IN  cache' = [cache EXCEPT ![Find(id)].record =
                    [r EXCEPT !.state = to, !.updated = txTime, !.history = Append(@, to),
                              !.meta = FailedFrom(r, to)]]

DevAccepts(id, to) == IsCached(id) /\ IsValidTransition(cache[Find(id)].record.state, to)

DevUpdate(id, to) ==
    /\ DevAccepts(id, to)
    /\ ChangeFirst(id, to)
    /\ UNCHANGED <<knownIds, budget, devEvicting, past>>

\* clear_cache empties the cache and nothing else.
ClearCache ==
    /\ cache' = <<>>
    /\ past' = [past EXCEPT !.cleared = TRUE]
    /\ UNCHANGED <<knownIds, budget, devEvicting>>

SetDevEviction(on, n) ==
    /\ devEvicting' = [on |-> on, max |-> n]
    /\ UNCHANGED <<cache, knownIds, budget, past>>

\* The same call to both trackers; an update may be refused by one of them alone.
DevNext ==
    \/ TxTick /\ UNCHANGED devVars
    \/ \E id \in Tx :
         \/ DevCreate(id) /\ CreateTransaction(id)
         \/ \E to \in TransactionState :
              \/ DevUpdate(id, to) /\ UpdateState(id, to)
              \/ DevUpdate(id, to) /\ ~IsValidTransition(records[id].state, to)
                 /\ UNCHANGED txVars
              \/ UpdateState(id, to) /\ ~DevAccepts(id, to) /\ UNCHANGED devVars
    \/ ClearCache /\ UNCHANGED txVars
    \/ \E on \in BOOLEAN, n \in EvictMax : SetDevEviction(on, n) /\ UNCHANGED txVars

-----------------------------------------------------------------------------
(* Reads in development mode *)

DevRange(ascending, from, to, limit) ==
    LET ids   == SubSeq(ascending, from, to)
        found == FlattenSeq([i \in 1..Len(ids) |->
                               SelectSeq(cache, LAMBDA c : c.id = ids[i])])
        batch == Batch(found, limit)
    IN  [i \in 1..Len(batch) |-> batch[i].record]

DevSummary ==
    [state \in TransactionState |->
       Cardinality({i \in 1..Len(cache) : cache[i].record.state = state})]

\* get_all_transactions, get_transactions_by_state, get_failed_transactions; they
\* return nothing in production mode.
GetAllTransactions == [i \in 1..Len(cache) |-> cache[i].record]
GetTransactionsByState(state) == SelectSeq(GetAllTransactions, LAMBDA r : r.state = state)
GetFailedTransactions == GetTransactionsByState("Failed")

-----------------------------------------------------------------------------
(* Properties *)

Meta == [from : TransactionState \cup {"none"}, retries : Nat]

\* Types of the transaction storage.
TrkTypeOK ==
    /\ txTime \in Nat
    /\ records \in [Tx -> [state : TransactionState \cup {"Absent"},
                           created : Nat, updated : Nat,
                           history : Seq(TransactionState), meta : Meta]]
    /\ txIds \in Seq(Tx)
    /\ archive \subseteq Tx
    /\ evicting \in BOOLEAN
    /\ evictMax \in Nat
    /\ warnBytes \in Nat
    /\ expired \subseteq Tx

\* TXIDS, which the summary, the sweep and the eviction walk, misses no stored
\* record, and names no id without a record but those the host has expired:
\* an eviction leaves none behind even when an id was created twice.
IndexResolves ==
    /\ \A id \in Tx : Stored(id) => id \in ToSet(txIds)
    /\ \A id \in ToSet(txIds) : Stored(id) \/ id \in expired

\* An eviction takes only terminal transactions, the oldest ones, and no more
\* than the policy allows: nothing in flight disappears under pressure.
Evicted == {id \in ToSet(txIds) : Stored(id) /\ id \notin ToSet(txIds')}

EvictionIsSafe ==
    [][/\ Cardinality(Evicted) <= evictMax
       /\ \A id \in Evicted :
            /\ IsTerminal(id)
            /\ \A y \in Tx \ Evicted :
                 IsTerminal(y) /\ records'[y] = records[y]
                     => records[id].created <= records[y].created]_txVars

\* The history of a record starts at Pending and ends in its state; every step
\* is a transition, or a resumption, which only ever leaves Failed.  So within
\* one record Completed is final, whatever recovery does.  (An imported
\* failure from Pending repeats its first entry.)
HistoryExplainsState ==
    \A id \in Tx : Stored(id) =>
        LET h == records[id].history
        IN  /\ h[1] = "Pending"
            /\ h[Len(h)] = records[id].state
            /\ \A i \in 1..(Len(h) - 1) :
                 \/ <<h[i], h[i + 1]>> \in {<<"Pending", "InProgress">>, <<"Pending", "Failed">>,
                                            <<"InProgress", "Completed">>, <<"InProgress", "Failed">>}
                 \/ h[i] = "Failed" /\ h[i + 1] \in InFlight
                 \/ i = 1 /\ h[2] = "Pending"

\* resume_partial_recovery guards against a terminal failed_from_state that
\* "should never happen in practice": it never does, imports included.  Metadata
\* exists, and can be exported, only for a transaction that has failed; one that
\* is no longer Failed was resumed, and its metadata counts that.
ResumePointLive ==
    \A id \in Tx : Exports(id) =>
        /\ records[id].meta.from \in InFlight
        /\ "Failed" \in ToSet(records[id].history)
        /\ IsRecoverable(id) => IsPartiallyRecoverable(id)
        /\ ~IsRecoverable(id) => GetRecoveryMetadata(id).retries > 0

\* The storage of transactions is consistent.
TrackerSound == TrkTypeOK /\ IndexResolves /\ HistoryExplainsState /\ ResumePointLive

Ascending == SetToSeqs(Tx)

\* While ids are not reused, the cache is not cleared and nothing was evicted, every
\* read gives the same answer in both modes, whatever the numbering of the ids.  Evictions
\* keep the budget and the known ids in step with the cache and never take a transaction in
\* flight; a summary counts every record once.
DevModeAgrees ==
    ~past.reused /\ ~past.cleared =>
        /\ budget = Len(cache)
        /\ knownIds = [i \in 1..Len(cache) |-> cache[i].id]
        /\ \A id \in past.begun : Stored(id) /\ ~IsTerminal(id) =>
             IsCached(id) /\ cache[Find(id)].record = records[id]
        /\ ~past.evicted =>
             /\ DevSummary = SummarizeTransactionsByStatus
             /\ \A state \in TransactionState :
                  ToSet(GetTransactionsByState(state))
                    = {records[id] : id \in {x \in Tx : records[x].state = state}}
             /\ \A r \in ToSet(GetFailedTransactions) : r.meta # NoMeta
             /\ \A ascending \in Ascending, from, to \in 1..Cardinality(Tx), limit \in {1, 3} :
                  DevRange(ascending, from, to, limit)
                    = GetTransactionsInRange(ascending, from, to, limit)
=============================================================================
