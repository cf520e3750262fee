------------------------------- MODULE Archive -------------------------------
(***************************************************************************)
(* Transaction history on the host: batches archived under a commitment    *)
(* (src/transaction_archive.rs) and summaries per time window              *)
(* (src/transaction_compaction.rs).  A transaction id is the sequence of   *)
(* its lines, blank when empty; the hash of a commitment is injective.     *)
(***************************************************************************)
EXTENDS Integers, Sequences, SequencesExt, FiniteSetsExt

CONSTANTS
    TxIds,          \* sequences of lines, the blank <<>> included
    MaxArchives,    \* largest archive id
    TxRecords,      \* timestamp, status and amount a record may have
    WindowSizes,    \* window_seconds
    MaxTimestamp,   \* u64::MAX, scaled down
    MaxVolume,      \* u64::MAX of the volumes, scaled down
    MaxHistory

ASSUME ArchiveConstants ==
    /\ WindowSizes \subseteq Nat
    /\ {MaxArchives, MaxTimestamp, MaxVolume, MaxHistory} \subseteq Nat

VARIABLES
    archives,   \* TransactionArchive: id, count, commitment, uri known
    nextId,
    batches,    \* ghost: the ids of each archive
    txHistory   \* RawTransactionRecords in the order the caller collected them

archiveVars == <<archives, nextId, batches, txHistory>>

ArchiveInit ==
    /\ archives = <<>> /\ nextId = 0
    /\ batches = <<>>
    /\ txHistory = <<>>

-----------------------------------------------------------------------------
(* TransactionArchiveManager *)

\* SHA-256 over the ids, each followed by a newline.
ArchiveCommitment(ids) == FlattenSeq(ids)

VerifyArchiveCommitment(stored, ids) == stored = ArchiveCommitment(ids)

\* Blank ids are refused; the label and the URL are checked too.
ArchiveBatch(ids, uri) ==
    /\ ids # <<>> /\ <<>> \notin ToSet(ids)
    /\ nextId < MaxArchives
    /\ archives' = Append(archives, [id |-> nextId, count |-> Len(ids),
                                     commitment |-> ArchiveCommitment(ids), uri |-> uri])
    /\ batches' = Append(batches, ids)
    /\ nextId' = nextId + 1
    /\ UNCHANGED txHistory

GetArchive(id) ==
    LET hits == SelectSeq(archives, LAMBDA a : a.id = id)
    IN  IF hits = <<>> THEN "NotFound" ELSE IF hits[1].uri THEN "Found" ELSE "PendingUri"

\* Not validated, unlike the URL given with the batch.
SetRetrievalUri(id) ==
    /\ GetArchive(id) # "NotFound"
    /\ archives' = [i \in DOMAIN archives |->
                      IF archives[i].id = id THEN [archives[i] EXCEPT !.uri = TRUE] ELSE archives[i]]
    /\ UNCHANGED <<nextId, batches, txHistory>>

-----------------------------------------------------------------------------
(* compact_history *)

CompactionError == [windows |-> <<>>, total |-> -1, volume |-> -1]

\* The sum of the volumes passed u64::MAX: overflow checks abort the process.
CompactionPanic == [windows |-> <<>>, total |-> -2, volume |-> -2]

SumOf(numbers) == FoldLeft(+, 0, numbers)

EmptyWindow(start) ==
    [start |-> start, count |-> 0, completed |-> 0, pending |-> 0, failed |-> 0, volume |-> 0,
     max |-> 0, min |-> MaxVolume, first |-> 0, last |-> 0]

Classified(status) ==
    [completed |-> IF status = "completed" THEN 1 ELSE 0,
     pending |-> IF status = "pending" THEN 1 ELSE 0,
     failed |-> IF status = "error" THEN 1 ELSE 0]

\* A bug CompactionCountsAll must catch: a record on the boundary stays in the window it ends.
AdvancePastEnd(from, ts, size) ==
    LET next[w \in 0..MaxTimestamp] ==
          IF w + size > MaxTimestamp THEN -1 ELSE IF ts > w + size THEN next[w + size] ELSE w
    IN  next[from]

\* The while loop over windows, until the one that ends after ts; -1: overflow.
AdvanceWindow(from, ts, size) ==
    LET next[w \in 0..MaxTimestamp] ==
          IF w + size > MaxTimestamp THEN -1 ELSE IF ts >= w + size THEN next[w + size] ELSE w
    IN  next[from]

\* A bug CompactionCountsAll must catch: the volume of a window starts anew at the cap.
RecordWraps(w, n, r) ==
    LET c == Classified(r.status) IN
    [w EXCEPT !.count = @ + 1, !.volume = (@ + r.amount) % (MaxVolume + 1),
       !.completed = @ + c.completed, !.pending = @ + c.pending, !.failed = @ + c.failed,
       !.max = Max({@, r.amount}), !.min = Min({@, r.amount}),
       !.first = IF w.count = 0 THEN n ELSE @, !.last = n]

\* One record in its window; saturating_add caps the volume.
WithRecord(w, n, r) ==
    LET c == Classified(r.status) IN
    [w EXCEPT !.count = @ + 1, !.volume = Min({@ + r.amount, MaxVolume}),
       !.completed = @ + c.completed, !.pending = @ + c.pending, !.failed = @ + c.failed,
       !.max = Max({@, r.amount}), !.min = Min({@, r.amount}),
       !.first = IF w.count = 0 THEN n ELSE @, !.last = n]

\* One record: s holds the closed windows, the open one, the record's number.
CompactRecord(s, r, size) ==
    LET start == IF s.open.start = -1 THEN -1 ELSE AdvanceWindow(s.open.start, r.ts, size)
        closed == IF start # s.open.start /\ s.open.count > 0
                  THEN Append(s.closed, s.open) ELSE s.closed
        open == IF start = s.open.start THEN s.open ELSE EmptyWindow(start)
    IN  [closed |-> closed, n |-> s.n + 1, open |-> WithRecord(open, s.n + 1, r)]

\* A volume is capped within its window, their sum is not; no count can overflow.
CompactHistory(records, size) ==
    LET sorted == \A i \in 2..Len(records) : records[i].ts >= records[i - 1].ts
        first == (records[1].ts \div size) * size
        run == FoldLeft(LAMBDA s, r : CompactRecord(s, r, size),
                        [closed |-> <<>>, n |-> 0,
                         open |-> EmptyWindow(IF first + size > MaxTimestamp THEN -1 ELSE first)],
                        records)
        windows == Append(run.closed, run.open)
        volume == SumOf([i \in DOMAIN windows |-> windows[i].volume])
    IN  IF size = 0 \/ ~sorted THEN CompactionError
        ELSE IF records = <<>> THEN [windows |-> <<>>, total |-> 0, volume |-> 0]
        ELSE IF run.open.start = -1 THEN CompactionError
        ELSE IF volume > MaxVolume THEN CompactionPanic
        ELSE [windows |-> windows, volume |-> volume,
              total |-> SumOf([i \in DOMAIN windows |-> windows[i].count])]

AddRecord(r) ==
    /\ Len(txHistory) < MaxHistory
    /\ txHistory' = Append(txHistory, r)
    /\ UNCHANGED <<archives, nextId, batches>>

ArchiveNext ==
    \/ \E n \in 0..2 : \E ids \in [1..n -> TxIds], uri \in BOOLEAN : ArchiveBatch(ids, uri)
    \/ \E id \in 0..MaxArchives : SetRetrievalUri(id)

CompactionNext == \E r \in TxRecords : AddRecord(r)
-----------------------------------------------------------------------------
(* Properties *)

\* A history in order, within the clock's range, whose volumes add up to a u64 is
\* summarised without loss: the windows are aligned, disjoint and in order, one for each
\* that has a record, and each holds exactly the records of its span.  Volumes that do
\* not fit are capped as long as one window holds them all, and abort the process, with
\* no summary at all, as soon as they are spread over two.  A batch's commitment verifies
\* that batch, and no other archived one when ids have no newline.
CompactionCountsAll ==
    /\ \A size \in WindowSizes \ {0} :
          LET result == CompactHistory(txHistory, size)
              of(k) == {i \in DOMAIN txHistory : txHistory[i].ts \div size = k}
              used == {txHistory[i].ts \div size : i \in DOMAIN txHistory}
              sorted == \A i \in 2..Len(txHistory) : txHistory[i].ts >= txHistory[i - 1].ts
              moved(rs) == MapThenSumSet(LAMBDA i : txHistory[i].amount, rs)
              volume(k) == Min({moved(of(k)), MaxVolume})
              all == MapThenSumSet(volume, used)
          IN  IF ~sorted \/ \E k \in used : (k + 1) * size > MaxTimestamp
              THEN result = CompactionError
              ELSE IF all > MaxVolume
              THEN result = CompactionPanic /\ Cardinality(used) > 1
              ELSE /\ {w.start : w \in ToSet(result.windows)} = {k * size : k \in used}
                   /\ \A i \in 2..Len(result.windows) :
                         result.windows[i - 1].start < result.windows[i].start
                   /\ \A w \in ToSet(result.windows) :
                         LET rs == of(w.start \div size) IN
                         /\ rs = w.first..w.last /\ w.count = Cardinality(rs)
                         /\ w.volume = volume(w.start \div size)
                         /\ w.max = Max({txHistory[i].amount : i \in rs})
                         /\ w.min = Min({txHistory[i].amount : i \in rs})
                         /\ w.completed = Cardinality({i \in rs : txHistory[i].status = "completed"})
                   /\ result.total = Len(txHistory)
                   /\ result.volume = all
                   /\ moved(DOMAIN txHistory) <= MaxVolume => all = moved(DOMAIN txHistory)
    /\ \A i \in DOMAIN archives :
          /\ archives[i].id = i - 1
          /\ VerifyArchiveCommitment(archives[i].commitment, batches[i])
          /\ \A j \in DOMAIN archives :
                /\ VerifyArchiveCommitment(archives[j].commitment, batches[i])
                /\ \A id \in ToSet(batches[i]) \cup ToSet(batches[j]) : Len(id) = 1
                => batches[i] = batches[j] /\ archives[i].count = archives[j].count
=============================================================================
