---------------------------- MODULE TrackerProofs -----------------------------
(***************************************************************************)
(* Proofs about the transaction records in production mode, for any ids,   *)
(* policies and bounds.  That a resumed transaction was in flight before   *)
(* it failed is not inductive: the state recovery returns to is read from  *)
(* metadata that failures, imports and earlier resumptions wrote, so the   *)
(* invariant explains every record by its history and its metadata at      *)
(* once.  Then what the host remembers about requests (HostStores).        *)
(***************************************************************************)
EXTENDS TransactionTracker, HostStores, FiniteSetTheorems

Record == [state : TransactionState \cup {"Absent"}, created : Nat, updated : Nat,
           history : Seq(TransactionState), meta : Meta]

\* One state of a history and the next, as HistoryExplainsState allows them.
Follows(x, y, first) ==
    \/ <<x, y>> \in {<<"Pending", "InProgress">>, <<"Pending", "Failed">>,
                     <<"InProgress", "Completed">>, <<"InProgress", "Failed">>}
    \/ x = "Failed" /\ y \in InFlight
    \/ first /\ y = "Pending"

\* The history of a stored record leads to its state.
Explained(r) ==
    /\ r.state \in TransactionState
    /\ Len(r.history) > 0
    /\ r.history[1] = "Pending"
    /\ r.history[Len(r.history)] = r.state
    /\ \A i \in 1..(Len(r.history) - 1) : Follows(r.history[i], r.history[i + 1], i = 1)

\* Recovery metadata names a state to resume, after a failure; when the record is no
\* longer failed it was resumed.
Resumable(r) ==
    r.meta # NoMeta =>
        /\ r.meta.from \in InFlight
        /\ \E i \in 1..Len(r.history) : r.history[i] = "Failed"
        /\ r.state # "Failed" => r.meta.retries > 0

TrackerInv ==
    /\ TrkTypeOK
    /\ IndexResolves
    /\ \A id \in Tx : records[id] = NoRecord \/ (Explained(records[id]) /\ Resumable(records[id]))

-----------------------------------------------------------------------------
(* One record *)

\* The value that stands for an absent key is a record.
LEMMA EmptyRecord == NoRecord \in Record /\ NoRecord.state = "Absent"
<1>1. <<>> \in Seq(TransactionState) /\ NoMeta \in Meta
    BY DEF NoMeta, Meta
<1> QED
    BY <1>1 DEF NoRecord, Record

\* What the invariant says of the record of an id.
LEMMA RecordFacts ==
    ASSUME TrackerInv, NEW id \in Tx
    PROVE  /\ records[id] \in Record /\ txTime \in Nat
           /\ Stored(id) => Explained(records[id]) /\ Resumable(records[id])
           /\ ~Stored(id) => records[id] = NoRecord
           /\ NoRecord.state = "Absent" /\ NoRecord.meta = NoMeta
<1>1. records \in [Tx -> Record] /\ txTime \in Nat
    BY DEF TrackerInv, TrkTypeOK, Record
<1>2. NoRecord.state = "Absent" /\ NoRecord.meta = NoMeta
    BY DEF NoRecord
<1>3. records[id] = NoRecord \/ (Explained(records[id]) /\ Resumable(records[id]))
    BY DEF TrackerInv
<1>4. Explained(records[id]) => records[id].state # "Absent"
    BY DEF Explained, TransactionState, InFlight, Terminal
<1> QED
    BY <1>1, <1>2, <1>3, <1>4 DEF Stored

\* A transition or a resumption lengthens a history without breaking it.
LEMMA HistoryGrows ==
    ASSUME NEW r \in Record, Explained(r), NEW to \in TransactionState, NEW s \in Record,
           s.state = to, s.history = Append(r.history, to), Follows(r.state, to, FALSE)
    PROVE  /\ Explained(s)
           /\ Len(s.history) = Len(r.history) + 1
           /\ \A i \in 1..Len(r.history) : s.history[i] = r.history[i]
<1> DEFINE h == r.history
           g == s.history
<1>1. h \in Seq(TransactionState) /\ Len(h) \in Nat /\ Len(h) > 0
    BY DEF Record, Explained
<1>2. g = Append(h, to)
    OBVIOUS
<1>3. /\ h[1] = "Pending" /\ h[Len(h)] = r.state
      /\ \A i \in 1..(Len(h) - 1) : Follows(h[i], h[i + 1], i = 1)
    BY DEF Explained
<1> HIDE DEF h, g
<1>4. /\ Len(g) = Len(h) + 1
      /\ g[Len(h) + 1] = to
      /\ \A i \in 1..Len(h) : g[i] = h[i]
    BY <1>1, <1>2, AppendProperties
<1>5. ASSUME NEW i \in 1..(Len(g) - 1)
      PROVE  Follows(g[i], g[i + 1], i = 1)
  <2>1. i \in 1..Len(h) /\ g[i] = h[i]
    BY <1>1, <1>4
  <2>2. CASE i = Len(h)
    <3>1. g[i] = r.state /\ g[i + 1] = to
      BY <1>3, <1>4, <2>1, <2>2
    <3> QED
      BY <3>1 DEF Follows
  <2>3. CASE i # Len(h)
    <3>1. i \in 1..(Len(h) - 1) /\ i + 1 \in 1..Len(h)
      BY <1>1, <2>1, <2>3
    <3> QED
      BY <1>3, <1>4, <2>1, <3>1
  <2> QED
    BY <2>2, <2>3
<1>6. Len(g) > 0 /\ g[1] = "Pending" /\ g[Len(g)] = to
    BY <1>1, <1>3, <1>4
<1> QED
    BY <1>4, <1>5, <1>6 DEF Explained, g, h

\* Replacing a stored record by another that is explained.
LEMMA RecordReplaced ==
    ASSUME TrackerInv, NEW id \in Tx, Stored(id),
           NEW r \in Record, Explained(r), Resumable(r),
           records' = [records EXCEPT ![id] = r],
           UNCHANGED <<txTime, txIds, archive, txConfig, expired>>
    PROVE  TrackerInv'
<1>1. records \in [Tx -> Record]
    BY DEF TrackerInv, TrkTypeOK, Record
<1>2. records' \in [Tx -> Record]
    BY <1>1
<1>3. TrkTypeOK'
    BY <1>2 DEF TrackerInv, TrkTypeOK, Record, txConfig
<1>4. \A x \in Tx : records'[x] = IF x = id THEN r ELSE records[x]
    BY <1>1
<1>5. r.state # "Absent"
    BY DEF Explained, TransactionState, InFlight, Terminal
<1>6. \A x \in Tx : records'[x].state # "Absent" <=> Stored(x)
    BY <1>4, <1>5 DEF Stored
<1>7. IndexResolves'
  <2>1. /\ \A x \in Tx : Stored(x) => x \in ToSet(txIds)
        /\ \A x \in ToSet(txIds) : Stored(x) \/ x \in expired
        /\ txIds \in Seq(Tx)
    BY DEF TrackerInv, IndexResolves, TrkTypeOK
  <2>2. \A x \in ToSet(txIds) : x \in Tx
    BY <2>1 DEF ToSet
  <2>3. \A x \in Tx : Stored(x)' <=> Stored(x)
    BY <1>6 DEF Stored
  <2>4. ToSet(txIds)' = ToSet(txIds) /\ expired' = expired
    BY DEF ToSet
  <2> QED
    BY <2>1, <2>2, <2>3, <2>4 DEF IndexResolves
<1>8. \A x \in Tx : (records[x] = NoRecord \/ (Explained(records[x]) /\ Resumable(records[x])))'
    BY <1>4 DEF TrackerInv, Explained, Resumable
<1> QED
    BY <1>3, <1>7, <1>8 DEF TrackerInv

\* A transition: update_state and advance_transaction_state_internal.
LEMMA UpdateStep ==
    ASSUME TrackerInv, NEW id \in Tx, NEW to \in TransactionState, UpdateState(id, to)
    PROVE  TrackerInv'
<1> DEFINE r == records[id]
           s == [r EXCEPT !.state = to, !.updated = txTime, !.history = Append(@, to),
                          !.meta = FailedFrom(r, to)]
<1>1. /\ Stored(id)
      /\ IsValidTransition(r.state, to)
      /\ records' = [records EXCEPT ![id] = s]
      /\ UNCHANGED <<txTime, txIds, archive, txConfig, expired>>
    BY DEF UpdateState
<1>2. r \in Record /\ txTime \in Nat /\ Explained(r) /\ Resumable(r)
    BY <1>1, RecordFacts
<1>3. r.history \in Seq(TransactionState) /\ Append(r.history, to) \in Seq(TransactionState)
    BY <1>2 DEF Record
<1>4. FailedFrom(r, to) \in Meta /\ r.meta \in Meta
    BY <1>2 DEF FailedFrom, Meta, Record, Explained
<1>5. s \in Record
    BY <1>2, <1>3, <1>4 DEF Record
<1>6. /\ s.state = to
      /\ s.history = Append(r.history, to)
      /\ s.meta = FailedFrom(r, to)
    BY <1>2 DEF Record
<1> HIDE DEF s
<1>7. Follows(r.state, to, FALSE) /\ r.state \in InFlight
    BY <1>1 DEF IsValidTransition, Follows, Terminal, InFlight
<1>8. /\ Explained(s)
      /\ Len(s.history) = Len(r.history) + 1
      /\ \A i \in 1..Len(r.history) : s.history[i] = r.history[i]
    BY <1>2, <1>5, <1>6, <1>7, HistoryGrows
<1>9. Resumable(s)
  <2>1. Len(r.history) \in Nat /\ s.history[Len(s.history)] = to /\ Len(s.history) \in 1..Len(s.history)
    BY <1>3, <1>6, <1>8 DEF Explained
  <2>2. CASE to = "Failed"
    <3>1. s.meta = [from |-> r.state, retries |-> 0]
      BY <1>6, <2>2 DEF FailedFrom
    <3>2. s.meta.from \in InFlight
      BY <1>7, <3>1
    <3> QED
      BY <1>6, <2>1, <2>2, <3>2 DEF Resumable
  <2>3. CASE to # "Failed"
    <3>1. s.meta = r.meta
      BY <1>6, <2>3 DEF FailedFrom
    <3>2. r.state # "Failed"
      BY <1>7 DEF InFlight
    <3>3. \A i \in 1..Len(r.history) : i \in 1..Len(s.history)
      BY <1>8, <2>1
    <3> QED
      BY <1>2, <1>8, <3>1, <3>2, <3>3 DEF Resumable
  <2> QED
    BY <2>2, <2>3
<1> QED
    BY <1>1, <1>5, <1>8, <1>9, RecordReplaced

\* A recovery attempt counts in the metadata of a failed transaction.
LEMMA AttemptStep ==
    ASSUME TrackerInv, NEW id \in Tx, RecordRecoveryAttempt(id)
    PROVE  TrackerInv'
<1> DEFINE r == records[id]
           s == [r EXCEPT !.meta.retries = @ + 1]
<1>1. /\ r.state = "Failed" /\ r.meta # NoMeta
      /\ records' = [records EXCEPT ![id] = s]
      /\ UNCHANGED <<txTime, txIds, archive, txConfig, expired>>
    BY DEF RecordRecoveryAttempt
<1>2. Stored(id)
    BY <1>1 DEF Stored
<1>3. r \in Record /\ Explained(r) /\ Resumable(r)
    BY <1>2, RecordFacts
<1>4. r.meta \in Meta /\ r.meta.retries + 1 \in Nat
    BY <1>3 DEF Record, Meta
<1>5. s \in Record
    BY <1>3, <1>4 DEF Record, Meta
<1>6. /\ s.state = "Failed" /\ s.history = r.history
      /\ s.meta.from = r.meta.from
    BY <1>1, <1>3, <1>4 DEF Record, Meta
<1> HIDE DEF s
<1>7. Explained(s)
    BY <1>1, <1>3, <1>6 DEF Explained
<1>8. Resumable(s)
    BY <1>1, <1>3, <1>6 DEF Resumable
<1> QED
    BY <1>1, <1>2, <1>5, <1>7, <1>8, RecordReplaced

\* Recovery returns a failed transaction to where it failed from.
LEMMA ResumeStep ==
    ASSUME TrackerInv, NEW id \in Tx, ResumePartialRecovery(id)
    PROVE  TrackerInv'
<1> DEFINE r == records[id]
           s == [r EXCEPT !.state = r.meta.from, !.updated = txTime,
                          !.history = Append(@, r.meta.from), !.meta.retries = @ + 1]
<1>1. /\ r.state = "Failed" /\ r.meta # NoMeta
      /\ records' = [records EXCEPT ![id] = s]
      /\ UNCHANGED <<txTime, txIds, archive, txConfig, expired>>
    BY DEF ResumePartialRecovery
<1>2. Stored(id)
    BY <1>1 DEF Stored
<1>3. r \in Record /\ Explained(r) /\ Resumable(r) /\ txTime \in Nat
    BY <1>2, RecordFacts
<1>4. r.meta.from \in InFlight /\ r.meta.from \in TransactionState
    BY <1>1, <1>3 DEF Resumable, TransactionState
<1>5. /\ r.meta \in Meta /\ r.meta.retries \in Nat
      /\ Append(r.history, r.meta.from) \in Seq(TransactionState)
    BY <1>3, <1>4 DEF Record, Meta
<1>6. s \in Record
  <2> DEFINE m == [r.meta EXCEPT !.retries = @ + 1]
             h == Append(r.history, r.meta.from)
  <2>1. m \in Meta /\ h \in Seq(TransactionState)
    BY <1>5 DEF Meta
  <2>2. s = [r EXCEPT !.state = r.meta.from, !.updated = txTime, !.history = h, !.meta = m]
    BY <1>3 DEF Record
  <2> HIDE DEF m, h
  <2> QED
    BY <1>3, <1>4, <2>1, <2>2 DEF Record
<1>7. /\ s.state = r.meta.from
      /\ s.history = Append(r.history, r.meta.from)
      /\ s.meta.from = r.meta.from
      /\ s.meta.retries = r.meta.retries + 1
    BY <1>3, <1>5 DEF Record, Meta
<1> HIDE DEF s
<1>8. Follows(r.state, r.meta.from, FALSE)
    BY <1>1, <1>4 DEF Follows
<1>9. /\ Explained(s)
      /\ Len(s.history) = Len(r.history) + 1
      /\ \A i \in 1..Len(r.history) : s.history[i] = r.history[i]
    BY <1>3, <1>4, <1>6, <1>7, <1>8, HistoryGrows
<1>10. Resumable(s)
  <2>1. Len(r.history) \in Nat /\ \A i \in 1..Len(r.history) : i \in 1..Len(s.history)
    BY <1>3, <1>9 DEF Record
  <2>2. \E i \in 1..Len(s.history) : s.history[i] = "Failed"
    BY <1>1, <1>3, <1>9, <2>1 DEF Resumable
  <2>3. s.meta.retries > 0
    BY <1>5, <1>7
  <2> QED
    BY <1>4, <1>7, <2>2, <2>3 DEF Resumable
<1> QED
    BY <1>1, <1>2, <1>6, <1>9, <1>10, RecordReplaced

\* A creation, which evicts ids that are gone and may replace a record.
LEMMA InsertStep ==
    ASSUME TrackerInv, NEW id \in Tx, NEW gone \in SUBSET Tx,
           NEW r \in Record, Explained(r), Resumable(r), Insert(id, gone, r)
    PROVE  TrackerInv'
<1>1. /\ records' = [x \in Tx |-> IF x = id THEN r
                                  ELSE IF x \in gone THEN NoRecord ELSE records[x]]
      /\ txIds' = Append(LiveIds(gone), id)
      /\ expired' = (expired \ gone) \ {id}
      /\ UNCHANGED <<txTime, archive, txConfig>>
    BY DEF Insert
<1>2. records \in [Tx -> Record] /\ txIds \in Seq(Tx) /\ expired \subseteq Tx
    BY DEF TrackerInv, TrkTypeOK, Record
<1>3. NoRecord \in Record /\ NoRecord.state = "Absent"
    BY EmptyRecord
<1>4. records' \in [Tx -> Record]
    BY <1>1, <1>2, <1>3
<1>5. LiveIds(gone) \in Seq(Tx) /\ ToSet(LiveIds(gone)) = ToSet(txIds) \cap (Tx \ gone)
    BY <1>2, KeptIds DEF LiveIds
<1>6. txIds' \in Seq(Tx) /\ ToSet(txIds') = ToSet(LiveIds(gone)) \cup {id}
  <2> DEFINE live == LiveIds(gone)
  <2> HIDE DEF live
  <2>1. live \in Seq(Tx) /\ txIds' = Append(live, id)
    BY <1>1, <1>5 DEF live
  <2>2. ToSet(Append(live, id)) = ToSet(live) \cup {id}
    BY <2>1, AppendedSet
  <2> QED
    BY <2>1, <2>2 DEF live
<1>7. TrkTypeOK'
    BY <1>1, <1>2, <1>4, <1>6 DEF TrackerInv, TrkTypeOK, Record, txConfig
<1>8. r.state # "Absent"
    BY DEF Explained, TransactionState, InFlight, Terminal
<1>9. \A x \in Tx : records'[x] = IF x = id THEN r
                                  ELSE IF x \in gone THEN NoRecord ELSE records[x]
    BY <1>1
<1>10. IndexResolves'
  <2>1. /\ \A x \in Tx : Stored(x) => x \in ToSet(txIds)
        /\ \A x \in ToSet(txIds) : Stored(x) \/ x \in expired
    BY DEF TrackerInv, IndexResolves
  <2>2. \A x \in Tx : Stored(x)' <=> x = id \/ (x \notin gone /\ Stored(x))
    BY <1>3, <1>8, <1>9 DEF Stored
  <2>3. ToSet(txIds)' = (ToSet(txIds) \cap (Tx \ gone)) \cup {id}
    BY <1>5, <1>6 DEF ToSet
  <2> QED
    BY <1>1, <2>1, <2>2, <2>3 DEF IndexResolves
<1>11. \A x \in Tx : (records[x] = NoRecord \/ (Explained(records[x]) /\ Resumable(records[x])))'
  <2>1. \A x \in Tx : records[x] = NoRecord \/ (Explained(records[x]) /\ Resumable(records[x]))
    BY DEF TrackerInv
  <2>2. ASSUME NEW x \in Tx
        PROVE  \/ records'[x] = NoRecord
               \/ Explained(records'[x]) /\ Resumable(records'[x])
    BY <1>9, <2>1
  <2> QED
    BY <2>2 DEF Explained, Resumable
<1> QED
    BY <1>7, <1>10, <1>11 DEF TrackerInv

\* The record a creation stores.
LEMMA FreshRecord ==
    ASSUME txTime \in Nat
    PROVE  LET r == NewRecord("Pending", <<"Pending">>, NoMeta)
           IN  r \in Record /\ Explained(r) /\ Resumable(r) /\ r.state = "Pending"
<1> DEFINE h == <<"Pending">>
           r == NewRecord("Pending", h, NoMeta)
<1>1. h \in Seq(TransactionState) /\ Len(h) = 1 /\ h[1] = "Pending"
    BY DEF TransactionState, InFlight
<1> HIDE DEF h
<1>2. NoMeta \in Meta /\ "Pending" \in TransactionState
    BY DEF NoMeta, Meta, TransactionState, InFlight
<1>3. /\ r.state = "Pending" /\ r.history = h /\ r.meta = NoMeta
      /\ r \in Record
    BY <1>1, <1>2 DEF NewRecord, Record
<1> HIDE DEF r
<1>4. Explained(r)
  <2>1. /\ r.state \in TransactionState
        /\ Len(r.history) = 1
        /\ r.history[1] = "Pending"
        /\ r.history[Len(r.history)] = r.state
    BY <1>1, <1>2, <1>3
  <2>2. 1..(Len(r.history) - 1) = {}
    BY <2>1
  <2> QED
    BY <2>1, <2>2 DEF Explained
<1>5. Resumable(r)
    BY <1>3 DEF Resumable
<1> QED
    BY <1>3, <1>4, <1>5 DEF r, h

\* The record an import stores for an unknown id.
LEMMA ImportedRecord ==
    ASSUME txTime \in Nat, NEW from \in InFlight, NEW retries \in Nat
    PROVE  LET r == NewRecord("Failed", <<"Pending", from, "Failed">>,
                              [from |-> from, retries |-> retries])
           IN  r \in Record /\ Explained(r) /\ Resumable(r)
<1> DEFINE h == <<"Pending", from, "Failed">>
           m == [from |-> from, retries |-> retries]
           r == NewRecord("Failed", h, m)
<1>1. /\ h \in Seq(TransactionState) /\ Len(h) = 3
      /\ h[1] = "Pending" /\ h[2] = from /\ h[3] = "Failed"
    BY DEF TransactionState, InFlight, Terminal
<1>2. m \in Meta /\ m.from = from
    BY DEF Meta, TransactionState
<1> HIDE DEF h, m
<1>3. "Failed" \in TransactionState
    BY DEF TransactionState, Terminal
<1>4. /\ r.state = "Failed" /\ r.history = h /\ r.meta = m
      /\ r \in Record
    BY <1>1, <1>2, <1>3 DEF NewRecord, Record
<1> HIDE DEF r
<1>5. Follows("Pending", from, TRUE) /\ Follows(from, "Failed", FALSE)
    BY DEF Follows, InFlight
<1>6. ASSUME NEW i \in 1..(Len(h) - 1)
      PROVE  Follows(h[i], h[i + 1], i = 1)
  <2>1. i = 1 \/ i = 2
    BY <1>1
  <2>2. CASE i = 1
    <3>1. h[i] = "Pending" /\ h[i + 1] = from
      BY <1>1, <2>2
    <3> QED
      BY <1>5, <2>2, <3>1 DEF Follows
  <2>3. CASE i = 2
    <3>1. h[i] = from /\ h[i + 1] = "Failed"
      BY <1>1, <2>3
    <3> QED
      BY <1>5, <2>3, <3>1 DEF Follows
  <2> QED
    BY <2>1, <2>2, <2>3
<1>7. Explained(r)
  <2>1. /\ r.state \in TransactionState
        /\ Len(r.history) = 3
        /\ r.history[1] = "Pending"
        /\ r.history[3] = r.state
    BY <1>1, <1>3, <1>4
  <2>2. \A i \in 1..(Len(r.history) - 1) :
          Follows(r.history[i], r.history[i + 1], i = 1)
    BY <1>4, <1>6
  <2> QED
    BY <2>1, <2>2 DEF Explained
<1>8. Resumable(r)
  <2>1. 3 \in 1..Len(h)
    BY <1>1
  <2> QED
    BY <1>1, <1>2, <1>4, <2>1 DEF Resumable
<1> QED
    BY <1>4, <1>7, <1>8 DEF r, h, m

\* An import updates a failed transaction or creates one.
LEMMA ImportStep ==
    ASSUME TrackerInv, NEW id \in Tx, NEW from, NEW retries \in Nat,
           ImportRecoveryState(id, from, retries)
    PROVE  TrackerInv'
<1> DEFINE m == [from |-> from, retries |-> retries]
           r == records[id]
           s == [r EXCEPT !.meta = m, !.updated = txTime]
<1>1. from \in InFlight
    BY DEF ImportRecoveryState, ImportableStates
<1>2. m \in Meta /\ m.from = from
    BY <1>1 DEF Meta, TransactionState
<1>3. \/ /\ r.state = "Failed"
         /\ records' = [records EXCEPT ![id] = s]
         /\ UNCHANGED <<txTime, txIds, archive, txConfig, expired>>
      \/ Insert(id, {}, NewRecord("Failed", <<"Pending", from, "Failed">>, m))
    BY DEF ImportRecoveryState
<1>4. CASE /\ r.state = "Failed"
           /\ records' = [records EXCEPT ![id] = s]
           /\ UNCHANGED <<txTime, txIds, archive, txConfig, expired>>
  <2>1. Stored(id)
    BY <1>4 DEF Stored
  <2>2. r \in Record /\ Explained(r) /\ txTime \in Nat
    BY <2>1, RecordFacts
  <2> HIDE DEF m
  <2>3. s \in Record /\ s.state = "Failed" /\ s.history = r.history /\ s.meta = m
    BY <1>2, <1>4, <2>2 DEF Record
  <2> HIDE DEF s
  <2>4. Explained(s)
    BY <1>4, <2>2, <2>3 DEF Explained
  <2>5. Len(s.history) \in 1..Len(s.history) /\ s.history[Len(s.history)] = "Failed"
    BY <2>3, <2>4 DEF Explained, Record
  <2>6. Resumable(s)
    BY <1>1, <1>2, <2>3, <2>5 DEF Resumable
  <2> QED
    BY <1>4, <2>1, <2>3, <2>4, <2>6, RecordReplaced
<1>5. CASE Insert(id, {}, NewRecord("Failed", <<"Pending", from, "Failed">>, m))
  <2> DEFINE q == NewRecord("Failed", <<"Pending", from, "Failed">>, m)
  <2>1. txTime \in Nat
    BY RecordFacts
  <2>2. q \in Record /\ Explained(q) /\ Resumable(q)
    BY <1>1, <2>1, ImportedRecord
  <2>3. {} \in SUBSET Tx
    OBVIOUS
  <2> HIDE DEF q
  <2> QED
    BY <1>5, <2>2, <2>3, InsertStep DEF q
<1> QED
    BY <1>3, <1>4, <1>5

\* The ids an eviction removes are ids.
LEMMA EvictedIds ==
    ASSUME TrackerInv, NEW gone \in Evictions
    PROVE  gone \in SUBSET Tx
<1>1. \A i \in 1..Len(txIds) : txIds[i] \in Tx
    BY DEF TrackerInv, TrkTypeOK
<1>2. gone = {} \/ \E K \in OldestPositions : gone = {txIds[i] : i \in K}
    BY DEF Evictions
<1>3. \A K \in OldestPositions : K \subseteq 1..Len(txIds)
    BY DEF OldestPositions
<1> QED
    BY <1>1, <1>2, <1>3

\* The contract's creation and the tracker's, which never evicts.
LEMMA CreateStep ==
    ASSUME TrackerInv, NEW id \in Tx, CreateTransactionRecord(id) \/ CreateTransaction(id)
    PROVE  TrackerInv'
<1> DEFINE r == NewRecord("Pending", <<"Pending">>, NoMeta)
<1>1. r \in Record /\ Explained(r) /\ Resumable(r)
    BY FreshRecord, RecordFacts
<1>2. \E gone \in SUBSET Tx : Insert(id, gone, r)
    BY EvictedIds DEF CreateTransactionRecord, CreateTransaction
<1> HIDE DEF r
<1> QED
    BY <1>1, <1>2, InsertStep

\* Pruning, archiving and the sweep take metadata away.
LEMMA DropStep ==
    ASSUME TrackerInv, NEW ids \in SUBSET Tx, NEW policy, NEW keep,
           DropMetadata(ids, policy, keep)
    PROVE  TrackerInv'
<1> DEFINE dropped == {id \in ids : IsEligible(id, policy)}
<1>1. /\ records' = [id \in Tx |-> IF id \in dropped THEN [records[id] EXCEPT !.meta = NoMeta]
                                                      ELSE records[id]]
      /\ archive' = IF keep THEN archive \cup dropped ELSE archive
      /\ UNCHANGED <<txTime, txIds, txConfig, expired>>
    BY DEF DropMetadata
<1>2. dropped \subseteq Tx /\ \A id \in dropped : records[id].meta # NoMeta
    BY DEF IsEligible
<1> HIDE DEF dropped
<1>3. \A x \in Tx : records'[x] = IF x \in dropped THEN [records[x] EXCEPT !.meta = NoMeta]
                                                   ELSE records[x]
    BY <1>1
<1>4. ASSUME NEW x \in dropped
      PROVE  /\ records'[x] \in Record /\ Explained(records'[x]) /\ Resumable(records'[x])
             /\ records'[x].state = records[x].state
  <2> DEFINE r == records[x]
             s == [r EXCEPT !.meta = NoMeta]
  <2>1. x \in Tx /\ r.meta # NoMeta
    BY <1>2, <1>4
  <2>2. r \in Record /\ Explained(r)
    BY <2>1, RecordFacts
  <2>3. NoMeta \in Meta
    BY DEF NoMeta, Meta
  <2>4. s \in Record /\ s.state = r.state /\ s.history = r.history /\ s.meta = NoMeta
    BY <2>2, <2>3 DEF Record
  <2>5. records'[x] = s
    BY <1>3, <1>4, <2>1
  <2> HIDE DEF s
  <2>6. Explained(s) /\ Resumable(s)
    BY <2>2, <2>4 DEF Explained, Resumable
  <2> QED
    BY <2>4, <2>5, <2>6
<1>5. \A x \in Tx : records[x] \in Record
    BY RecordFacts
<1>6. records' \in [Tx -> Record]
  <2>1. \A x \in Tx : records'[x] \in Record
    BY <1>3, <1>4, <1>5
  <2>2. records' = [x \in Tx |-> records'[x]]
    BY <1>1
  <2> QED
    BY <2>1, <2>2
<1>7. TrkTypeOK'
    BY <1>1, <1>2, <1>6 DEF TrackerInv, TrkTypeOK, Record, txConfig
<1>8. IndexResolves'
  <2>1. /\ \A x \in Tx : Stored(x) => x \in ToSet(txIds)
        /\ \A x \in ToSet(txIds) : Stored(x) \/ x \in expired
        /\ txIds \in Seq(Tx)
    BY DEF TrackerInv, IndexResolves, TrkTypeOK
  <2>2. \A x \in ToSet(txIds) : x \in Tx
    BY <2>1 DEF ToSet
  <2>3. \A x \in Tx : Stored(x)' <=> Stored(x)
    BY <1>3, <1>4 DEF Stored
  <2>4. ToSet(txIds)' = ToSet(txIds) /\ expired' = expired
    BY <1>1 DEF ToSet
  <2> QED
    BY <2>1, <2>2, <2>3, <2>4 DEF IndexResolves
<1>9. \A x \in Tx : (records[x] = NoRecord \/ (Explained(records[x]) /\ Resumable(records[x])))'
  <2>1. \A x \in Tx : records[x] = NoRecord \/ (Explained(records[x]) /\ Resumable(records[x]))
    BY DEF TrackerInv
  <2>2. ASSUME NEW x \in Tx
        PROVE  \/ records'[x] = NoRecord
               \/ Explained(records'[x]) /\ Resumable(records'[x])
    BY <1>3, <1>4, <2>1
  <2> QED
    BY <2>2 DEF Explained, Resumable
<1> QED
    BY <1>7, <1>8, <1>9 DEF TrackerInv

\* The host expires a record, and CleanupExpired drops the ids without one.
LEMMA ExpiryStep ==
    ASSUME TrackerInv, CleanupExpired \/ \E id \in Tx : ExpireRecord(id)
    PROVE  TrackerInv'
<1>1. /\ records \in [Tx -> Record] /\ txIds \in Seq(Tx) /\ expired \subseteq Tx
      /\ \A x \in Tx : Stored(x) => x \in ToSet(txIds)
      /\ \A x \in ToSet(txIds) : Stored(x) \/ x \in expired
      /\ \A x \in Tx : records[x] = NoRecord \/ (Explained(records[x]) /\ Resumable(records[x]))
    BY DEF TrackerInv, TrkTypeOK, IndexResolves, Record
<1>2. CASE CleanupExpired
  <2> DEFINE S == {id \in Tx : Stored(id)}
  <2>1. /\ txIds' = Kept(txIds, S) /\ expired' = {}
        /\ UNCHANGED <<txTime, records, archive, txConfig>>
    BY <1>2 DEF CleanupExpired
  <2>2. txIds' \in Seq(Tx) /\ ToSet(txIds') = ToSet(txIds) \cap S
    <3> HIDE DEF S
    <3> QED
      BY <1>1, <2>1, KeptIds
  <2>3. TrkTypeOK'
    BY <2>1, <2>2 DEF TrackerInv, TrkTypeOK, txConfig
  <2>4. IndexResolves'
    <3>1. \A x \in Tx : Stored(x)' <=> Stored(x)
      BY <2>1 DEF Stored
    <3>2. ToSet(txIds)' = ToSet(txIds) \cap S
      BY <2>2 DEF ToSet
    <3> QED
      BY <1>1, <3>1, <3>2 DEF IndexResolves
  <2>5. \A x \in Tx : (records[x] = NoRecord \/ (Explained(records[x]) /\ Resumable(records[x])))'
    BY <1>1, <2>1 DEF Explained, Resumable
  <2> QED
    BY <2>3, <2>4, <2>5 DEF TrackerInv
<1>3. ASSUME NEW id \in Tx, ExpireRecord(id)
      PROVE  TrackerInv'
  <2>1. /\ records' = [records EXCEPT ![id] = NoRecord]
        /\ expired' = expired \cup {id}
        /\ UNCHANGED <<txTime, txIds, archive, txConfig>>
    BY <1>3 DEF ExpireRecord
  <2>2. NoRecord \in Record /\ NoRecord.state = "Absent"
    BY EmptyRecord
  <2>3. records' \in [Tx -> Record]
    BY <1>1, <2>1, <2>2
  <2>4. TrkTypeOK'
    BY <1>1, <2>1, <2>3 DEF TrackerInv, TrkTypeOK, Record, txConfig
  <2>5. \A x \in Tx : records'[x] = IF x = id THEN NoRecord ELSE records[x]
    BY <1>1, <2>1
  <2>6. IndexResolves'
    <3>1. \A x \in Tx : Stored(x)' <=> (Stored(x) /\ x # id)
      BY <2>2, <2>5 DEF Stored
    <3>2. ToSet(txIds)' = ToSet(txIds)
      BY <2>1 DEF ToSet
    <3>3. \A x \in ToSet(txIds) : x \in Tx
      BY <1>1 DEF ToSet
    <3> QED
      BY <1>1, <2>1, <3>1, <3>2, <3>3 DEF IndexResolves
  <2>7. \A x \in Tx : (records[x] = NoRecord \/ (Explained(records[x]) /\ Resumable(records[x])))'
    <3>1. ASSUME NEW x \in Tx
          PROVE  \/ records'[x] = NoRecord
                 \/ Explained(records'[x]) /\ Resumable(records'[x])
      BY <1>1, <2>5
    <3> QED
      BY <3>1 DEF Explained, Resumable
  <2> QED
    BY <2>4, <2>6, <2>7 DEF TrackerInv
<1> QED
    BY <1>2, <1>3

-----------------------------------------------------------------------------
(* The tracker *)

\* At the start nothing is recorded.
LEMMA TrackerInvInit == TxInit => TrackerInv
<1> SUFFICES ASSUME TxInit PROVE TrackerInv
    OBVIOUS
<1>1. records = [id \in Tx |-> NoRecord] /\ txIds = <<>>
    BY DEF TxInit
<1>2. NoRecord \in Record /\ NoRecord.state = "Absent"
    BY EmptyRecord
<1>3. TrkTypeOK
  <2>1. records \in [Tx -> Record]
    BY <1>1, <1>2
  <2> QED
    <3>1. txTime = 0 /\ archive = {} /\ expired = {}
      BY DEF TxInit
    <3>2. evicting \in BOOLEAN /\ evictMax \in Nat /\ warnBytes \in Nat
      BY TrackerConstants DEF TxInit, TrackerConstants
    <3>3. txIds \in Seq(Tx)
      BY <1>1
    <3> QED
      BY <2>1, <3>1, <3>2, <3>3 DEF TrkTypeOK, Record
<1>4. IndexResolves
  <2>1. ToSet(txIds) = {}
    BY <1>1 DEF ToSet
  <2> QED
    BY <1>1, <1>2, <2>1 DEF IndexResolves, Stored
<1> QED
    BY <1>1, <1>3, <1>4 DEF TrackerInv

\* A step that leaves the records and their list alone.
LEMMA RecordsKept ==
    ASSUME TrackerInv, UNCHANGED <<records, txIds, archive, expired>>, txTime' \in Nat,
           evicting' \in BOOLEAN, evictMax' \in Nat, warnBytes' \in Nat
    PROVE  TrackerInv'
<1>1. TrkTypeOK'
    BY DEF TrackerInv, TrkTypeOK
<1>2. IndexResolves'
    BY DEF TrackerInv, IndexResolves, Stored, ToSet
<1>3. \A x \in Tx : (records[x] = NoRecord \/ (Explained(records[x]) /\ Resumable(records[x])))'
    BY DEF TrackerInv, Explained, Resumable
<1> QED
    BY <1>1, <1>2, <1>3 DEF TrackerInv

\* The calls that create, the calls that remove, and what is left.
Creates(id) == CreateTransactionRecord(id) \/ CreateTransaction(id)

\* What a step does to the records: nothing, one creation, one rewrite, or a removal.
LEMMA TrackerSteps ==
    ASSUME TrackerInv, [TxNext]_txVars
    PROVE  \/ /\ UNCHANGED <<records, txIds, archive, expired>>
              /\ txTime' \in Nat /\ evicting' \in BOOLEAN
              /\ evictMax' \in Nat /\ warnBytes' \in Nat
           \/ CleanupExpired \/ \E id \in Tx : ExpireRecord(id)
           \/ \E ids \in SUBSET Tx, p \in Policy, keep \in BOOLEAN : DropMetadata(ids, p, keep)
           \/ \E id \in Tx :
                \/ Creates(id)
                \/ \E to \in TransactionState : UpdateState(id, to)
                \/ RecordRecoveryAttempt(id)
                \/ \E from \in TransactionState, n \in 0..MaxAttempts :
                     ImportRecoveryState(id, from, n)
                \/ ResumePartialRecovery(id)
<1>1. /\ txTime \in Nat /\ evicting \in BOOLEAN /\ evictMax \in Nat /\ warnBytes \in Nat
      /\ txIds \in Seq(Tx)
      /\ EvictMax \subseteq Nat /\ WarnBytes \subseteq Nat
    BY TrackerConstants DEF TrackerConstants, TrackerInv, TrkTypeOK
<1>2. ToSet(txIds) \in SUBSET Tx
    BY <1>1 DEF ToSet
<1>3. CASE TxTick \/ (\E n \in EvictMax, enabled \in BOOLEAN : SetEvictionPolicy(enabled, n))
           \/ (\E n \in WarnBytes : SetStorageBudgetThresholds(n)) \/ UNCHANGED txVars
    BY <1>1, <1>3 DEF TxTick, SetEvictionPolicy, SetStorageBudgetThresholds, txVars,
                      txStore, txConfig
<1>4. ASSUME NEW p \in Policy, NEW keep \in BOOLEAN, SweepRecoveryMetadata(p, keep)
      PROVE  DropMetadata(ToSet(txIds), p, keep)
    BY <1>4 DEF SweepRecoveryMetadata
<1>5. ASSUME NEW id \in Tx, NEW p \in Policy,
             PruneRecoveryMetadata(id, p) \/ ArchiveRecoveryMetadata(id, p)
      PROVE  \E ids \in SUBSET Tx, keep \in BOOLEAN : DropMetadata(ids, p, keep)
  <2>1. {id} \in SUBSET Tx
    OBVIOUS
  <2> QED
    BY <1>5, <2>1 DEF PruneRecoveryMetadata, ArchiveRecoveryMetadata
<1>6. ASSUME NEW id \in Tx,
             \/ StartTransaction(id) \/ CompleteTransaction(id) \/ FailTransaction(id)
             \/ \E to \in TransactionState : AdvanceTransactionState(id, to)
             \/ \E to \in TransactionState : AdvanceTransactionStateInternal(id, to)
      PROVE  \E to \in TransactionState : UpdateState(id, to)
    BY <1>6 DEF StartTransaction, CompleteTransaction, FailTransaction,
                AdvanceTransactionState, AdvanceTransactionStateInternal,
                TransactionState, InFlight, Terminal
<1>7. CASE TxNext
    BY <1>2, <1>3, <1>4, <1>5, <1>6, <1>7 DEF TxNext, Creates
<1> QED
    BY <1>3, <1>7

\* Every call keeps records explained by their history and resumable from it.
LEMMA TrackerInvStep == TrackerInv /\ [TxNext]_txVars => TrackerInv'
<1> SUFFICES ASSUME TrackerInv, [TxNext]_txVars PROVE TrackerInv'
    OBVIOUS
<1>1. ASSUME NEW id \in Tx, NEW from, NEW n \in 0..MaxAttempts, ImportRecoveryState(id, from, n)
      PROVE  TrackerInv'
  <2>1. n \in Nat
    OBVIOUS
  <2> QED
    BY <1>1, <2>1, ImportStep
<1>2. ASSUME NEW id \in Tx, Creates(id)
      PROVE  TrackerInv'
    BY <1>2, CreateStep DEF Creates
<1> QED
    BY <1>1, <1>2, TrackerSteps, RecordsKept, ExpiryStep, DropStep, UpdateStep,
       AttemptStep, ResumeStep

\* TrackerInv holds throughout.
LEMMA TrackerInvariant == TxSpec => []TrackerInv
    BY TrackerInvInit, TrackerInvStep, PTL DEF TxSpec

\* The records of src/transaction_state_tracker.rs, and the contract calls that share
\* their keys, are consistent whatever ids, policies and bounds: TXIDS resolves, every
\* history explains its state, so that Completed is final, and recovery only ever returns
\* a failed transaction to a state in flight.
THEOREM TrackerSoundHolds == TxSpec => []TrackerSound
<1>1. TrackerInv => TrackerSound
  <2> SUFFICES ASSUME TrackerInv PROVE TrackerSound
      OBVIOUS
  <2>1. TrkTypeOK /\ IndexResolves
    BY DEF TrackerInv
  <2>2. HistoryExplainsState
    BY RecordFacts DEF HistoryExplainsState, Explained, Follows
  <2>3. ResumePointLive
    <3>1. ASSUME NEW id \in Tx, Exports(id)
          PROVE  /\ records[id].meta.from \in InFlight
                 /\ "Failed" \in ToSet(records[id].history)
                 /\ IsRecoverable(id) => IsPartiallyRecoverable(id)
                 /\ ~IsRecoverable(id) => GetRecoveryMetadata(id).retries > 0
      <4>1. records[id].meta # NoMeta
        BY <3>1 DEF Exports, GetRecoveryMetadata
      <4>2. records[id] \in Record /\ Resumable(records[id])
        BY <4>1, RecordFacts
      <4>3. records[id].meta.from \notin Terminal
        BY <4>1, <4>2 DEF Resumable, InFlight, Terminal
      <4>4. "Failed" \in ToSet(records[id].history)
        BY <4>1, <4>2 DEF Resumable, Record, ToSet
      <4> QED
        BY <4>1, <4>2, <4>3, <4>4
        DEF Resumable, IsRecoverable, IsPartiallyRecoverable, GetRecoveryMetadata
    <3> QED
      BY <3>1 DEF ResumePointLive
  <2> QED
    BY <2>1, <2>2, <2>3 DEF TrackerSound
<1> QED
    BY <1>1, TrackerInvariant, PTL

-----------------------------------------------------------------------------
(* Evictions *)

\* What EvictionIsSafe says of one step.
SafeEviction ==
    /\ Cardinality(Evicted) <= evictMax
    /\ \A id \in Evicted :
         /\ IsTerminal(id)
         /\ \A y \in Tx \ Evicted :
              IsTerminal(y) /\ records'[y] = records[y]
                  => records[id].created <= records[y].created

\* A step that evicts nothing is a safe one.
LEMMA NothingEvicted ==
    ASSUME TrackerInv, Evicted = {}
    PROVE  SafeEviction
<1>1. evictMax \in Nat /\ Cardinality({}) = 0
    BY FS_EmptySet DEF TrackerInv, TrkTypeOK
<1> QED
    BY <1>1 DEF SafeEviction

\* Positions of a list are finitely many.
LEMMA FinitelyManyPositions ==
    ASSUME NEW n \in Nat, NEW K \in SUBSET (1..n)
    PROVE  IsFiniteSet(K) /\ Cardinality(K) \in Nat
<1>1. 1 \in Int /\ n \in Int
    OBVIOUS
<1>2. IsFiniteSet(1..n)
    BY <1>1, FS_Interval
<1>3. IsFiniteSet(K)
    BY <1>2, FS_Subset
<1> QED
    BY <1>3, FS_CardinalityType

\* The ids at some positions of a list are no more than the positions.
LEMMA IdsOfPositions ==
    ASSUME NEW n \in Nat, NEW K \in SUBSET (1..n), NEW seq, NEW S \in SUBSET {seq[i] : i \in K}
    PROVE  Cardinality(S) <= Cardinality(K) /\ Cardinality(S) \in Nat /\ Cardinality(K) \in Nat
<1> DEFINE f == [i \in K |-> seq[i]]
           V == {seq[i] : i \in K}
<1>1. IsFiniteSet(K)
    BY FinitelyManyPositions
<1>2. f \in Surjection(K, V)
    BY DEF Surjection
<1> HIDE DEF f
<1>3. IsFiniteSet(V) /\ Cardinality(V) <= Cardinality(K)
  <2> HIDE DEF V
  <2> QED
    BY <1>1, <1>2, FS_Surjection
<1>4. S \in SUBSET V
    OBVIOUS
<1> HIDE DEF V
<1>5. IsFiniteSet(S) /\ Cardinality(S) <= Cardinality(V)
    BY <1>3, <1>4, FS_Subset
<1>6. Cardinality(S) \in Nat /\ Cardinality(V) \in Nat /\ Cardinality(K) \in Nat
    BY <1>1, <1>3, <1>5, FS_CardinalityType
<1> QED
    BY <1>3, <1>5, <1>6

\* A creation under pressure takes the oldest terminal records.
LEMMA CreationIsSafe ==
    ASSUME TrackerInv, NEW id \in Tx, Creates(id)
    PROVE  SafeEviction
<1> DEFINE r == NewRecord("Pending", <<"Pending">>, NoMeta)
<1>1. r.state = "Pending"
    BY DEF NewRecord
<1>2. \E gone \in Evictions \cup {{}} : Insert(id, gone, r)
    BY DEF Creates, CreateTransactionRecord, CreateTransaction
<1>3. PICK gone \in Evictions \cup {{}} : Insert(id, gone, r)
    BY <1>2
<1> HIDE DEF r
<1>4. /\ txIds \in Seq(Tx) /\ evictMax \in Nat
      /\ Len(txIds) \in Nat /\ \A i \in 1..Len(txIds) : txIds[i] \in Tx
      /\ ToSet(txIds) = {txIds[i] : i \in 1..Len(txIds)}
    BY DEF TrackerInv, TrkTypeOK, ToSet
<1>5. /\ \A x \in Tx : records'[x] = IF x = id THEN r
                                     ELSE IF x \in gone THEN NoRecord ELSE records[x]
      /\ txIds' = Append(LiveIds(gone), id)
    BY <1>3 DEF Insert
<1>6. ToSet(txIds') = (ToSet(txIds) \cap (Tx \ gone)) \cup {id}
  <2>1. LiveIds(gone) \in Seq(Tx) /\ ToSet(LiveIds(gone)) = ToSet(txIds) \cap (Tx \ gone)
    BY <1>4, KeptIds DEF LiveIds
  <2> QED
    BY <1>5, <2>1, AppendedSet
<1>7. \A x \in Evicted : x \in gone /\ x # id /\ Stored(x)
    BY <1>4, <1>6 DEF Evicted
<1>8. \A y \in Tx : Stored(y) => y \in ToSet(txIds)
    BY DEF TrackerInv, IndexResolves
<1>9. CASE gone = {}
  <2>1. Evicted = {}
    BY <1>7, <1>9
  <2> QED
    BY <2>1, NothingEvicted
<1>10. CASE gone # {}
  <2> DEFINE terminal == {i \in 1..Len(txIds) : IsTerminal(txIds[i])}
  <2>1. PICK K \in OldestPositions : gone = {txIds[i] : i \in K}
    BY <1>10 DEF Evictions
  <2>2. /\ K \in SUBSET terminal
        /\ Cardinality(K) = Smaller(evictMax, Cardinality(terminal))
        /\ \A i \in K, j \in terminal \ K :
             records[txIds[i]].created <= records[txIds[j]].created
    BY DEF OldestPositions
  <2>3. \A i \in terminal : i \in 1..Len(txIds) /\ IsTerminal(txIds[i])
    OBVIOUS
  <2>4. terminal \in SUBSET (1..Len(txIds)) /\ K \in SUBSET (1..Len(txIds))
    BY <2>2
  <2>5. \A j \in 1..Len(txIds) : IsTerminal(txIds[j]) => j \in terminal
    OBVIOUS
  <2> HIDE DEF terminal
  <2>6. Evicted \in SUBSET {txIds[i] : i \in K}
    BY <1>7, <2>1
  <2>7. Cardinality(Evicted) <= evictMax
    <3>1. /\ Cardinality(Evicted) <= Cardinality(K)
          /\ Cardinality(Evicted) \in Nat /\ Cardinality(K) \in Nat
      BY <1>4, <2>4, <2>6, IdsOfPositions
    <3>2. Cardinality(terminal) \in Nat
      BY <1>4, <2>4, FinitelyManyPositions
    <3>3. Cardinality(K) <= evictMax
      BY <1>4, <2>2, <3>2 DEF Smaller
    <3> QED
      BY <1>4, <3>1, <3>3
  <2>8. ASSUME NEW x \in Evicted
        PROVE  /\ IsTerminal(x)
               /\ \A y \in Tx \ Evicted :
                    IsTerminal(y) /\ records'[y] = records[y]
                        => records[x].created <= records[y].created
    <3>1. PICK i \in K : x = txIds[i]
      BY <2>6
    <3>2. IsTerminal(x)
      BY <2>2, <2>3, <3>1
    <3>3. ASSUME NEW y \in Tx \ Evicted, IsTerminal(y), records'[y] = records[y]
          PROVE  records[x].created <= records[y].created
      <4>1. Stored(y)
        BY <3>3 DEF IsTerminal, Stored, Terminal
      <4>2. PICK j \in 1..Len(txIds) : y = txIds[j]
        BY <1>4, <1>8, <4>1
      <4>3. j \in terminal
        BY <2>5, <3>3, <4>2
      <4>4. y \in ToSet(txIds) /\ y \in ToSet(txIds')
        BY <1>8, <4>1 DEF Evicted
      <4>5. y # id
        BY <1>1, <1>5, <3>3 DEF IsTerminal, Terminal
      <4>6. y \notin gone
        BY <1>6, <4>4, <4>5
      <4>7. j \notin K
        BY <2>1, <4>2, <4>6
      <4> QED
        BY <2>2, <3>1, <4>2, <4>3, <4>7
    <3> QED
      BY <3>2, <3>3
  <2> QED
    BY <2>7, <2>8 DEF SafeEviction
<1> QED
    BY <1>9, <1>10

\* Only a creation under pressure evicts, and it evicts what may go.
LEMMA StepIsSafe == TrackerInv /\ [TxNext]_txVars => SafeEviction
<1> SUFFICES ASSUME TrackerInv, [TxNext]_txVars PROVE SafeEviction
    OBVIOUS
<1>1. ASSUME UNCHANGED txIds
      PROVE  SafeEviction
  <2>1. Evicted = {}
    BY <1>1 DEF Evicted
  <2> QED
    BY <2>1, NothingEvicted
<1>2. ASSUME CleanupExpired
      PROVE  SafeEviction
  <2> DEFINE S == {id \in Tx : Stored(id)}
  <2>1. txIds' = Kept(txIds, S) /\ txIds \in Seq(Tx)
    BY <1>2 DEF CleanupExpired, TrackerInv, TrkTypeOK
  <2>2. ToSet(txIds') = ToSet(txIds) \cap S
    <3> HIDE DEF S
    <3> QED
      BY <2>1, KeptIds
  <2>3. ToSet(txIds) \subseteq Tx
    BY <2>1 DEF ToSet
  <2>4. Evicted = {}
    BY <2>2, <2>3 DEF Evicted
  <2> QED
    BY <2>4, NothingEvicted
<1>3. ASSUME NEW id \in Tx, NEW from, NEW n, ImportRecoveryState(id, from, n)
      PROVE  SafeEviction
  <2>1. CASE UNCHANGED txIds
    BY <1>1, <2>1
  <2>2. CASE \E r : Insert(id, {}, r)
    <3>1. txIds' = Append(LiveIds({}), id) /\ txIds \in Seq(Tx)
      BY <2>2 DEF Insert, TrackerInv, TrkTypeOK
    <3>2. LiveIds({}) \in Seq(Tx) /\ ToSet(LiveIds({})) = ToSet(txIds) \cap (Tx \ {})
      BY <3>1, KeptIds DEF LiveIds
    <3>3. ToSet(txIds') = ToSet(LiveIds({})) \cup {id}
      BY <3>1, <3>2, AppendedSet
    <3>4. ToSet(txIds) \subseteq Tx
      BY <3>1 DEF ToSet
    <3>5. Evicted = {}
      BY <3>2, <3>3, <3>4 DEF Evicted
    <3> QED
      BY <3>5, NothingEvicted
  <2> QED
    BY <1>3, <2>1, <2>2 DEF ImportRecoveryState
<1>4. \A id \in Tx :
        \/ ExpireRecord(id) \/ RecordRecoveryAttempt(id) \/ ResumePartialRecovery(id)
        \/ \E to \in TransactionState : UpdateState(id, to)
        => UNCHANGED txIds
    BY DEF ExpireRecord, RecordRecoveryAttempt, ResumePartialRecovery, UpdateState
<1>5. \A ids \in SUBSET Tx, p \in Policy, keep \in BOOLEAN :
        DropMetadata(ids, p, keep) => UNCHANGED txIds
    BY DEF DropMetadata
<1> QED
    BY <1>1, <1>2, <1>3, <1>4, <1>5, TrackerSteps, CreationIsSafe

\* run_auto_eviction of src/contract.rs never takes a transaction in flight, takes no more
\* than max_per_call and leaves no older finished one behind, whatever ids were created
\* twice or expired by the host in between.
THEOREM EvictionIsSafeHolds == TxSpec => EvictionIsSafe
<1>1. TrackerInv /\ [TxNext]_txVars => [SafeEviction]_txVars
    BY StepIsSafe
<1>2. TxSpec => [][SafeEviction]_txVars
    BY <1>1, TrackerInvariant, PTL DEF TxSpec
<1> QED
    BY <1>2 DEF EvictionIsSafe, SafeEviction

-----------------------------------------------------------------------------
(* Request stores *)

Results == [at : Nat, result : {"none", "ok", "err"}]
ResultMaps == UNION {[D -> [result : {"ok", "err"}, expires : Nat]] : D \in SUBSET Requests}

\* A result that was recorded is kept until it expires.
DedupInv ==
    /\ hostTime \in Nat
    /\ dedup \in [size : Nat, entries : ResultMaps]
    /\ IsFiniteSet(DOMAIN dedup.entries)
    /\ dedup.size > 0 => Cardinality(DOMAIN dedup.entries) <= dedup.size
    /\ lastRun \in [Requests -> Results]
    /\ \A k \in Requests :
          \/ lastRun[k] = NoRun
          \/ hostTime >= lastRun[k].at + DedupTtl
          \/ /\ k \in DOMAIN dedup.entries
             /\ dedup.entries[k].result = lastRun[k].result
             /\ dedup.entries[k].expires = lastRun[k].at + DedupTtl

\* What is stored for a key is what was last recorded for it, and a duplicate was told so
\* while it was stored.
ServedInv ==
    /\ served \in [Requests -> Results]
    /\ \A k \in Requests : lastRun[k].at <= hostTime
    /\ \A k \in DOMAIN dedup.entries :
          lastRun[k] # NoRun /\ dedup.entries[k].expires = lastRun[k].at + DedupTtl
    /\ \A k \in Requests : served[k] # NoRun =>
          /\ lastRun[k] # NoRun /\ lastRun[k].at <= served[k].at
          /\ served[k].at < lastRun[k].at + DedupTtl

Sightings == [id : Requests, at : Nat]

\* Each acceptance of an id is still known to the guard, at its time or at a later one, or is
\* out of the window; and acceptances of an id are further apart than the window.
GuardInv ==
    /\ hostTime \in Nat
    /\ guard \in [window : Nat, seen : Seq(Sightings)]
    /\ accepts \in [Requests -> Seq(Nat)]
    /\ \A k \in Requests : \A i \in 1..Len(accepts[k]) :
          /\ accepts[k][i] <= hostTime
          /\ \/ \E e \in ToSet(guard.seen) : e.id = k /\ e.at >= accepts[k][i]
             \/ guard.window > 0 /\ hostTime - accepts[k][i] > guard.window
    /\ \A k \in Requests : \A i, j \in 1..Len(accepts[k]) :
          i < j => guard.window > 0 /\ accepts[k][j] - accepts[k][i] > guard.window

Records == [id : Nat, at : Nat]

\* The number of records pushed that the active history no longer has.
Gone == Len(pushed) - Len(store.records)

\* The active history is what was pushed last.
HistoryInv ==
    /\ hostTime \in Nat
    /\ pushed \in Seq(Records)
    /\ \A i \in 1..Len(pushed) : pushed[i].id = i - 1 /\ pushed[i].at <= hostTime
    /\ \A i, j \in 1..Len(pushed) : i < j => pushed[i].at <= pushed[j].at
    /\ store \in [policy : RecordPolicies, records : Seq(Records), archive : Seq(Records)]
    /\ Gone \in Nat
    /\ \A i \in 1..Len(store.records) : store.records[i] = pushed[Gone + i]
    /\ \A i \in 1..Len(store.archive) : store.archive[i].id < Gone

\* What an export began with was the active history then; as long as nothing has left the
\* history since, its pages are the first records of it.
ExportInv ==
    /\ export \in [cursor : Nat, got : Seq(Records), from : Seq(Records),
                   state : {"idle", "paging", "done"}]
    /\ export.state = "idle" => export.cursor = 0 /\ export.got = <<>> /\ export.from = <<>>
    /\ export.from = <<>> => export.got = <<>> 
    /\ export.from = <<>> => export.state # "paging" 
    /\ export.from # <<>> => \E low \in 0..Gone :
          /\ low + Len(export.from) <= Len(pushed)
          /\ \A i \in 1..Len(export.from) : export.from[i] = pushed[low + i]
          /\ low = Gone =>
                /\ export.cursor = Len(export.got)
                /\ Len(export.got) <= Len(store.records)
                /\ \A i \in 1..Len(export.got) : export.got[i] = store.records[i]
                /\ export.state = "done" => Len(export.got) >= Len(export.from)

\* What the history no longer has is archived, in order and as it was pushed, or discarded.
AccountInv ==
    /\ \A i \in 1..Len(store.archive) : store.archive[i] = pushed[store.archive[i].id + 1]
    /\ \A i, j \in 1..Len(store.archive) : i < j => store.archive[i].id < store.archive[j].id
    /\ \A r \in discarded : \E i \in 1..Gone : r = pushed[i]
    /\ \A i \in 1..Gone : pushed[i] \in discarded <=> pushed[i] \notin ToSet(store.archive)

StoreInv == DedupInv /\ ServedInv /\ GuardInv /\ HistoryInv /\ ExportInv /\ AccountInv

-----------------------------------------------------------------------------

\* Adding a key to a finite set of keys adds one at most.
LEMMA OneMoreKey ==
    ASSUME NEW K, IsFiniteSet(K), NEW k
    PROVE  /\ IsFiniteSet(K \cup {k}) /\ Cardinality(K) \in Nat
           /\ Cardinality(K \cup {k}) \in Nat /\ Cardinality(K \cup {k}) <= Cardinality(K) + 1
    BY FS_AddElement, FS_CardinalityType

\* A recorded execution keeps every result that has not expired.
LEMMA RecordedResult ==
    ASSUME DedupInv, HostStoreConstants, NEW k \in Requests, NEW result \in {"ok", "err"},
           RecordResult(k, result), hostTime' = hostTime
    PROVE  DedupInv'
<1> DEFINE old == DOMAIN dedup.entries
           full == dedup.size > 0 /\ Cardinality(old) >= dedup.size
           keep == IF full THEN LiveResults ELSE old
           room == dedup.size = 0 \/ Cardinality(keep) < dedup.size
           new == [q \in keep \cup (IF room THEN {k} ELSE {}) |->
                     IF q = k /\ room THEN [result |-> result, expires |-> hostTime + DedupTtl]
                     ELSE dedup.entries[q]]
<1>1. /\ hostTime \in Nat /\ DedupTtl \in Nat /\ DedupTtl > 0
      /\ dedup \in [size : Nat, entries : ResultMaps] /\ IsFiniteSet(old)
      /\ dedup.size > 0 => Cardinality(old) <= dedup.size
      /\ lastRun \in [Requests -> Results]
    BY DEF DedupInv, HostStoreConstants
<1>2. old \subseteq Requests /\ \A q \in old : dedup.entries[q] \in [result : {"ok", "err"}, expires : Nat]
    BY <1>1 DEF ResultMaps
<1>3. LiveResults \subseteq old /\ LiveResults = {q \in old : dedup.entries[q].expires > hostTime}
    BY DEF LiveResults
<1>4. dedup' = [dedup EXCEPT !.entries = new]
    BY DEF RecordResult
<1>5. lastRun' = IF room THEN [lastRun EXCEPT ![k] = [at |-> hostTime, result |-> result]]
                 ELSE lastRun
    BY DEF RecordResult
<1>6. keep \subseteq old /\ LiveResults \subseteq keep
    BY <1>3
<1>7. IsFiniteSet(keep) /\ Cardinality(keep) <= Cardinality(old) /\ Cardinality(keep) \in Nat
      /\ Cardinality(old) \in Nat
    BY <1>1, <1>6, FS_Subset, FS_CardinalityType
<1>8. DOMAIN new = keep \cup (IF room THEN {k} ELSE {})
    OBVIOUS
<1>9. IsFiniteSet(DOMAIN new) /\ (dedup.size > 0 => Cardinality(DOMAIN new) <= dedup.size)
  <2>1. CASE room
    <3>1. DOMAIN new = keep \cup {k}
      BY <2>1
    <3>2. IsFiniteSet(keep \cup {k}) /\ Cardinality(keep \cup {k}) <= Cardinality(keep) + 1
          /\ Cardinality(keep \cup {k}) \in Nat
      BY <1>7, OneMoreKey
    <3>3. dedup.size > 0 => Cardinality(keep) < dedup.size
      BY <2>1
    <3>4. dedup.size \in Nat
      BY <1>1
    <3> HIDE DEF new, keep, room
    <3>5. dedup.size > 0 => Cardinality(DOMAIN new) <= dedup.size
      BY <1>7, <3>1, <3>2, <3>3, <3>4
    <3> QED
      BY <3>1, <3>2, <3>5
  <2>2. CASE ~room
    <3>1. DOMAIN new = keep
      BY <2>2
    <3> HIDE DEF new, keep, room
    <3>2. dedup.size \in Nat
      BY <1>1
    <3> QED
      BY <1>1, <1>7, <3>1, <3>2
  <2> QED
    BY <2>1, <2>2
<1>10. new \in ResultMaps
  <2>1. DOMAIN new \subseteq Requests
    BY <1>2, <1>6
  <2>2. hostTime + DedupTtl \in Nat
    BY <1>1
  <2>3. \A q \in DOMAIN new : new[q] \in [result : {"ok", "err"}, expires : Nat]
    BY <1>2, <1>6, <2>2
  <2>4. new \in [DOMAIN new -> [result : {"ok", "err"}, expires : Nat]]
    <3>1. new = [q \in DOMAIN new |-> new[q]]
      OBVIOUS
    <3> HIDE DEF new
    <3> QED
      BY <2>3, <3>1
  <2> HIDE DEF new
  <2> QED
    BY <2>1, <2>4 DEF ResultMaps
<1>11. /\ dedup' \in [size : Nat, entries : ResultMaps]
       /\ dedup'.size = dedup.size /\ dedup'.entries = new
  <2> HIDE DEF new
  <2> QED
    BY <1>1, <1>4, <1>10
<1>12. lastRun' \in [Requests -> Results]
    BY <1>1, <1>5 DEF Results, NoRun
<1>13. ASSUME NEW q \in Requests
       PROVE  \/ lastRun'[q] = NoRun
              \/ hostTime >= lastRun'[q].at + DedupTtl
              \/ /\ q \in DOMAIN new
                 /\ new[q].result = lastRun'[q].result
                 /\ new[q].expires = lastRun'[q].at + DedupTtl
  <2>1. CASE q = k /\ room
    <3>1. lastRun'[q] = [at |-> hostTime, result |-> result]
      BY <1>1, <1>5, <2>1
    <3>2. q \in DOMAIN new /\ new[q] = [result |-> result, expires |-> hostTime + DedupTtl]
      BY <2>1
    <3> QED
      BY <3>1, <3>2
  <2>2. CASE ~(q = k /\ room)
    <3>1. lastRun'[q] = lastRun[q] /\ lastRun[q] \in Results
      BY <1>1, <1>5, <2>2
    <3>2. \/ lastRun[q] = NoRun
          \/ hostTime >= lastRun[q].at + DedupTtl
          \/ /\ q \in old
             /\ dedup.entries[q].result = lastRun[q].result
             /\ dedup.entries[q].expires = lastRun[q].at + DedupTtl
      BY DEF DedupInv
    <3>3. ASSUME q \in old, ~(hostTime >= lastRun[q].at + DedupTtl),
                 dedup.entries[q].result = lastRun[q].result,
                 dedup.entries[q].expires = lastRun[q].at + DedupTtl
          PROVE  q \in DOMAIN new /\ new[q] = dedup.entries[q]
      <4>1. dedup.entries[q].expires > hostTime
        BY <1>1, <3>1, <3>3 DEF Results
      <4>2. q \in keep
        BY <1>3, <1>6, <3>3, <4>1
      <4> QED
        BY <2>2, <4>2
    <3> HIDE DEF new, old
    <3> QED
      BY <3>1, <3>2, <3>3
  <2> QED
    BY <2>1, <2>2
<1> HIDE DEF new
<1> QED
    BY <1>1, <1>9, <1>11, <1>12, <1>13 DEF DedupInv

\* So does a purge.
LEMMA ResultsPurged == DedupInv /\ HostStoreConstants /\ PurgeExpired => DedupInv'
<1> SUFFICES ASSUME DedupInv, HostStoreConstants, PurgeExpired PROVE DedupInv'
    OBVIOUS
<1> DEFINE old == DOMAIN dedup.entries
           new == [q \in LiveResults |-> dedup.entries[q]]
<1>1. /\ hostTime \in Nat /\ DedupTtl \in Nat
      /\ dedup \in [size : Nat, entries : ResultMaps] /\ IsFiniteSet(old)
      /\ dedup.size > 0 => Cardinality(old) <= dedup.size
      /\ lastRun \in [Requests -> Results]
    BY DEF DedupInv, HostStoreConstants
<1>2. old \subseteq Requests /\ \A q \in old : dedup.entries[q] \in [result : {"ok", "err"}, expires : Nat]
    BY <1>1 DEF ResultMaps
<1>3. LiveResults \subseteq old /\ LiveResults = {q \in old : dedup.entries[q].expires > hostTime}
    BY DEF LiveResults
<1>4. dedup' = [dedup EXCEPT !.entries = new] /\ lastRun' = lastRun /\ hostTime' = hostTime
    BY DEF PurgeExpired
<1>5. DOMAIN new = LiveResults /\ new \in ResultMaps
  <2>1. new \in [LiveResults -> [result : {"ok", "err"}, expires : Nat]]
    BY <1>2, <1>3
  <2>2. LiveResults \in SUBSET Requests
    BY <1>2, <1>3
  <2> HIDE DEF new
  <2> QED
    BY <2>1, <2>2 DEF ResultMaps
<1>6. /\ IsFiniteSet(LiveResults) /\ Cardinality(LiveResults) <= Cardinality(old)
      /\ Cardinality(LiveResults) \in Nat /\ Cardinality(old) \in Nat
    BY <1>1, <1>3, FS_Subset, FS_CardinalityType
<1>7. ASSUME NEW q \in Requests
      PROVE  \/ lastRun[q] = NoRun
             \/ hostTime >= lastRun[q].at + DedupTtl
             \/ /\ q \in LiveResults
                /\ new[q].result = lastRun[q].result
                /\ new[q].expires = lastRun[q].at + DedupTtl
  <2>1. lastRun[q] \in Results
    BY <1>1
  <2>2. \/ lastRun[q] = NoRun
        \/ hostTime >= lastRun[q].at + DedupTtl
        \/ /\ q \in old
           /\ dedup.entries[q].result = lastRun[q].result
           /\ dedup.entries[q].expires = lastRun[q].at + DedupTtl
    BY DEF DedupInv
  <2>3. q \in old /\ dedup.entries[q].expires = lastRun[q].at + DedupTtl
          /\ ~(hostTime >= lastRun[q].at + DedupTtl) => q \in LiveResults
    BY <1>1, <1>3, <2>1 DEF Results
  <2> QED
    BY <2>2, <2>3
<1> HIDE DEF new
<1>8. /\ dedup' \in [size : Nat, entries : ResultMaps]
      /\ dedup'.size = dedup.size /\ dedup'.entries = new /\ dedup.size \in Nat
    BY <1>1, <1>4, <1>5
<1>9. dedup.size > 0 => Cardinality(LiveResults) <= dedup.size
  <2> HIDE DEF old
  <2> QED
    BY <1>1, <1>6, <1>8
<1> QED
    BY <1>1, <1>4, <1>5, <1>6, <1>7, <1>8, <1>9 DEF DedupInv

\* What is recorded for a key is stored with the expiry of its time, and nothing was
\* served since.
LEMMA ServedRecorded ==
    ASSUME DedupInv, ServedInv, HostStoreConstants, NEW k \in Requests,
           NEW result \in {"ok", "err"}, RecordResult(k, result), hostTime' = hostTime
    PROVE  ServedInv'
<1> DEFINE old == DOMAIN dedup.entries
           full == dedup.size > 0 /\ Cardinality(old) >= dedup.size
           keep == IF full THEN LiveResults ELSE old
           room == dedup.size = 0 \/ Cardinality(keep) < dedup.size
           new == [q \in keep \cup (IF room THEN {k} ELSE {}) |->
                     IF q = k /\ room THEN [result |-> result, expires |-> hostTime + DedupTtl]
                     ELSE dedup.entries[q]]
           run == [at |-> hostTime, result |-> result]
<1>1. /\ hostTime \in Nat /\ DedupTtl \in Nat
      /\ dedup \in [size : Nat, entries : ResultMaps]
      /\ lastRun \in [Requests -> Results] /\ served \in [Requests -> Results]
    BY DEF DedupInv, ServedInv, HostStoreConstants
<1>2. keep \subseteq old /\ old \subseteq Requests
    BY <1>1 DEF LiveResults, ResultMaps
<1>3. dedup'.entries = new
  <2>1. dedup' = [dedup EXCEPT !.entries = new]
    BY DEF RecordResult
  <2> HIDE DEF new
  <2> QED
    BY <1>1, <2>1
<1>4. /\ lastRun' = IF room THEN [lastRun EXCEPT ![k] = run] ELSE lastRun
      /\ served' = IF room THEN [served EXCEPT ![k] = NoRun] ELSE served
    BY DEF RecordResult
<1>5. run \in Results /\ NoRun \in Results /\ run # NoRun /\ run.at = hostTime
    BY <1>1 DEF Results, NoRun
<1>6. \A q \in DOMAIN new :
         \/ q = k /\ room /\ new[q].expires = hostTime + DedupTtl
         \/ ~(q = k /\ room) /\ q \in old /\ new[q] = dedup.entries[q]
    BY <1>2
<1> HIDE DEF new, keep, room, run
<1>7. \A q \in Requests : /\ q = k /\ room => lastRun'[q] = run /\ served'[q] = NoRun
                          /\ ~(q = k /\ room) => lastRun'[q] = lastRun[q] /\ served'[q] = served[q]
    BY <1>1, <1>4
<1>8. served' \in [Requests -> Results]
    BY <1>1, <1>4, <1>5
<1>9. \A q \in Requests : lastRun'[q].at <= hostTime
    BY <1>1, <1>5, <1>7 DEF ServedInv
<1>10. \A q \in DOMAIN new : lastRun'[q] # NoRun /\ new[q].expires = lastRun'[q].at + DedupTtl
  <2> SUFFICES ASSUME NEW q \in DOMAIN new
               PROVE  lastRun'[q] # NoRun /\ new[q].expires = lastRun'[q].at + DedupTtl
    OBVIOUS
  <2>1. CASE q = k /\ room
    BY <1>5, <1>6, <1>7, <2>1
  <2>2. CASE ~(q = k /\ room)
    <3>1. q \in old /\ new[q] = dedup.entries[q]
      BY <1>6, <2>2
    <3>2. q \in Requests /\ lastRun'[q] = lastRun[q]
      BY <1>2, <1>7, <2>2, <3>1
    <3> QED
      BY <3>1, <3>2 DEF ServedInv
  <2> QED
    BY <2>1, <2>2
<1>11. \A q \in Requests : served'[q] # NoRun =>
          /\ lastRun'[q] # NoRun /\ lastRun'[q].at <= served'[q].at
          /\ served'[q].at < lastRun'[q].at + DedupTtl
    BY <1>7 DEF ServedInv
<1> QED
    BY <1>3, <1>8, <1>9, <1>10, <1>11 DEF ServedInv

\* A duplicate is told so while the result recorded for its key is live.
LEMMA ServedDuplicate ==
    ASSUME DedupInv, ServedInv, HostStoreConstants, NEW k \in Requests,
           NEW result \in {"ok", "err"}, IsDuplicate(k), dedup' = dedup, lastRun' = lastRun,
           served' = [served EXCEPT ![k] = [at |-> hostTime, result |-> result]],
           hostTime' = hostTime
    PROVE  DedupInv' /\ ServedInv'
<1>1. /\ hostTime \in Nat /\ served \in [Requests -> Results]
      /\ lastRun[k].at <= hostTime
    BY DEF DedupInv, ServedInv
<1>2. lastRun[k] # NoRun /\ hostTime < lastRun[k].at + DedupTtl
  <2>1. k \in DOMAIN dedup.entries /\ dedup.entries[k].expires > hostTime
    BY DEF IsDuplicate, LiveResults
  <2>2. lastRun[k] \in Results /\ DedupTtl \in Nat
    BY DEF DedupInv, HostStoreConstants
  <2> QED
    BY <1>1, <2>1, <2>2 DEF ServedInv, Results
<1>3. served' \in [Requests -> Results]
    BY <1>1 DEF Results
<1>4. \A q \in Requests : IF q = k THEN served'[q].at = hostTime ELSE served'[q] = served[q]
    BY <1>1
<1>5. DedupInv'
    BY DEF DedupInv
<1>6. \A q \in Requests : served'[q] # NoRun =>
          /\ lastRun[q] # NoRun /\ lastRun[q].at <= served'[q].at
          /\ served'[q].at < lastRun[q].at + DedupTtl
    BY <1>1, <1>2, <1>4 DEF ServedInv
<1> QED
    BY <1>3, <1>5, <1>6 DEF ServedInv

\* A purge leaves what was last recorded.
LEMMA ServedPurged == DedupInv /\ ServedInv /\ PurgeExpired => ServedInv'
<1> SUFFICES ASSUME DedupInv, ServedInv, PurgeExpired PROVE ServedInv'
    OBVIOUS
<1> DEFINE new == [q \in LiveResults |-> dedup.entries[q]]
<1>1. dedup' = [dedup EXCEPT !.entries = new] /\ dedup \in [size : Nat, entries : ResultMaps]
      /\ lastRun' = lastRun /\ served' = served /\ hostTime' = hostTime
    BY DEF PurgeExpired, DedupInv
<1>2. \A q \in DOMAIN new : q \in DOMAIN dedup.entries /\ new[q] = dedup.entries[q]
    BY DEF LiveResults
<1> HIDE DEF new
<1>3. dedup'.entries = new
    BY <1>1
<1> QED
    BY <1>1, <1>2, <1>3 DEF ServedInv

\* What pruning takes out of the guard's list is out of the window.
LEMMA PrunedIsOld ==
    ASSUME GuardInv
    PROVE  /\ PrunedSeen \in Seq(Sightings) /\ ToSet(PrunedSeen) \subseteq ToSet(guard.seen)
           /\ \A e \in ToSet(guard.seen) : e \in Sightings
           /\ \A e \in ToSet(guard.seen) \ ToSet(PrunedSeen) :
                  guard.window > 0 /\ e.at < hostTime - guard.window
<1> DEFINE seen == guard.seen
           horizon == Max({hostTime - guard.window, 0})
           recent == {e \in ToSet(seen) : e.at >= horizon}
<1>1. hostTime \in Nat /\ guard.window \in Nat /\ seen \in Seq(Sightings)
    BY DEF GuardInv
<1>2. \A e \in ToSet(seen) : e \in Sightings
  <2> HIDE DEF seen
  <2>1. DOMAIN seen = 1..Len(seen) /\ \A i \in 1..Len(seen) : seen[i] \in Sightings
    BY <1>1
  <2> QED
    BY <2>1 DEF ToSet
<1>3. CASE guard.window = 0
    BY <1>1, <1>2, <1>3 DEF PrunedSeen
<1>4. CASE guard.window # 0
  <2>1. PrunedSeen = Kept(seen, recent)
    BY <1>4 DEF PrunedSeen
  <2>2. Kept(seen, recent) \in Seq(Sightings) /\ ToSet(Kept(seen, recent)) = ToSet(seen) \cap recent
    <3> HIDE DEF seen, recent
    <3> QED
      BY <1>1, KeptIds
  <2>3. hostTime - guard.window \in Int
    BY <1>1
  <2>4. horizon = IF hostTime - guard.window >= 0 THEN hostTime - guard.window ELSE 0
    <3> DEFINE x == hostTime - guard.window
    <3> HIDE DEF x
    <3>1. x \in Int /\ 0 \in Int
      BY <2>3 DEF x
    <3> QED
      BY <3>1, MinMaxOfTwo DEF x
  <2>5. ASSUME NEW e \in ToSet(seen), ~(e.at >= horizon)
        PROVE  e.at < hostTime - guard.window
    <3>1. e.at \in Nat
      BY <1>2, <2>5 DEF Sightings
    <3> HIDE DEF horizon
    <3> QED
      BY <1>1, <2>3, <2>4, <2>5, <3>1
  <2>6. guard.window > 0
    BY <1>1, <1>4
  <2> HIDE DEF horizon
  <2> QED
    BY <1>2, <2>1, <2>2, <2>5, <2>6
<1> QED
    BY <1>3, <1>4

\* An id is accepted only when what it was accepted for before is out of the window.
LEMMA ReplayChecked ==
    ASSUME GuardInv, NEW k \in Requests, CheckReplay(k)
    PROVE  GuardInv'
<1> DEFINE Out(q, i) == guard.window > 0 /\ hostTime - accepts[q][i] > guard.window
<1>1. /\ hostTime \in Nat /\ hostTime' = hostTime
      /\ guard \in [window : Nat, seen : Seq(Sightings)]
      /\ accepts \in [Requests -> Seq(Nat)]
    BY DEF GuardInv, CheckReplay
<1>2. /\ PrunedSeen \in Seq(Sightings) /\ ToSet(PrunedSeen) \subseteq ToSet(guard.seen)
      /\ \A e \in ToSet(guard.seen) : e \in Sightings
      /\ \A e \in ToSet(guard.seen) \ ToSet(PrunedSeen) :
             guard.window > 0 /\ e.at < hostTime - guard.window
    BY PrunedIsOld
<1>3. \A q \in Requests : \A i \in 1..Len(accepts[q]) : accepts[q][i] \in Nat /\ accepts[q][i] <= hostTime
  <2>1. \A q \in Requests : accepts[q] \in Seq(Nat)
    BY <1>1
  <2> QED
    BY <2>1, ElementOfSeq DEF GuardInv
<1>4. ASSUME NEW q \in Requests, NEW i \in 1..Len(accepts[q])
      PROVE  (\E e \in ToSet(PrunedSeen) : e.id = q /\ e.at >= accepts[q][i]) \/ Out(q, i)
  <2>1. \/ \E e \in ToSet(guard.seen) : e.id = q /\ e.at >= accepts[q][i]
        \/ Out(q, i)
    BY DEF GuardInv
  <2>2. ASSUME NEW e \in ToSet(guard.seen), e.at >= accepts[q][i], e \notin ToSet(PrunedSeen)
        PROVE  Out(q, i)
    <3>1. guard.window > 0 /\ e.at < hostTime - guard.window /\ e.at \in Nat
      BY <1>2, <2>2 DEF Sightings
    <3>2. guard.window \in Nat /\ accepts[q][i] \in Nat
      BY <1>1, <1>3
    <3> QED
      BY <1>1, <2>2, <3>1, <3>2
  <2> QED
    BY <2>1, <2>2
<1>5. CASE IsKnown(PrunedSeen, k)
  <2>1. guard' = [guard EXCEPT !.seen = PrunedSeen] /\ accepts' = accepts
    BY <1>5 DEF CheckReplay
  <2>2. /\ guard' \in [window : Nat, seen : Seq(Sightings)]
        /\ guard'.window = guard.window /\ guard'.seen = PrunedSeen
    BY <1>1, <1>2, <2>1
  <2> QED
    BY <1>1, <1>4, <2>1, <2>2 DEF GuardInv
<1>6. CASE ~IsKnown(PrunedSeen, k)
  <2> DEFINE sight == [id |-> k, at |-> hostTime]
             seen == Append(PrunedSeen, sight)
             a == accepts[k]
             b == Append(a, hostTime)
  <2>1. guard' = [guard EXCEPT !.seen = seen] /\ accepts' = [accepts EXCEPT ![k] = b]
    BY <1>6 DEF CheckReplay
  <2>2. sight \in Sightings
    BY <1>1 DEF Sightings
  <2>3. seen \in Seq(Sightings) /\ ToSet(seen) = ToSet(PrunedSeen) \cup {sight}
    <3> HIDE DEF sight
    <3> QED
      BY <1>2, <2>2, AppendedSet, AppendProperties
  <2>4. /\ guard' \in [window : Nat, seen : Seq(Sightings)]
        /\ guard'.window = guard.window /\ guard'.seen = seen
    <3> HIDE DEF seen
    <3> QED
      BY <1>1, <2>1, <2>3
  <2>5. a \in Seq(Nat)
    BY <1>1
  <2>6. /\ b \in Seq(Nat) /\ Len(a) \in Nat /\ Len(b) = Len(a) + 1
        /\ b[Len(a) + 1] = hostTime /\ \A i \in 1..Len(a) : b[i] = a[i]
    <3> HIDE DEF a
    <3> QED
      BY <1>1, <2>5, AppendProperties
  <2>7. accepts' \in [Requests -> Seq(Nat)] /\ accepts'[k] = b
        /\ \A q \in Requests \ {k} : accepts'[q] = accepts[q]
    <3> HIDE DEF b
    <3> QED
      BY <1>1, <2>1, <2>6
  <2>8. \A e \in ToSet(PrunedSeen) : e.id # k
    <3> DEFINE p == PrunedSeen
    <3>1. DOMAIN p = 1..Len(p)
      BY <1>2
    <3>2. \A i \in DOMAIN p : p[i].id # k
      BY <1>6 DEF IsKnown
    <3> HIDE DEF p
    <3>3. \A e \in ToSet(p) : e.id # k
      BY <3>2 DEF ToSet
    <3> QED
      BY <3>3 DEF p
  <2>9. \A i \in 1..Len(a) : Out(k, i)
    BY <1>4, <2>8
  <2> HIDE DEF Out
  <2>10. ASSUME NEW q \in Requests, NEW i \in 1..Len(accepts'[q])
         PROVE  /\ accepts'[q][i] <= hostTime
                /\ \/ \E e \in ToSet(seen) : e.id = q /\ e.at >= accepts'[q][i]
                   \/ guard.window > 0 /\ hostTime - accepts'[q][i] > guard.window
    <3>1. CASE q = k /\ i = Len(a) + 1
      <4>1. accepts'[q][i] = hostTime
        BY <2>6, <2>7, <3>1
      <4>2. sight.id = q /\ sight.at >= hostTime /\ sight \in ToSet(seen)
        BY <1>1, <2>3, <3>1
      <4> HIDE DEF sight, seen
      <4> QED
        BY <1>1, <4>1, <4>2
    <3>2. CASE ~(q = k /\ i = Len(a) + 1)
      <4>1. i \in 1..Len(accepts[q]) /\ accepts'[q][i] = accepts[q][i]
        <5>1. CASE q = k
          <6>1. i \in 1..Len(b) /\ i # Len(a) + 1
            BY <2>7, <3>2, <5>1
          <6> HIDE DEF a, b
          <6>2. i \in 1..Len(a) /\ b[i] = a[i]
            BY <2>6, <6>1
          <6> QED
            BY <2>7, <5>1, <6>2 DEF a
        <5>2. CASE q # k
          BY <2>7, <5>2
        <5> QED
          BY <5>1, <5>2
      <4>2. (\E e \in ToSet(PrunedSeen) : e.id = q /\ e.at >= accepts[q][i]) \/ Out(q, i)
        BY <1>4, <4>1
      <4>3. ToSet(PrunedSeen) \subseteq ToSet(seen)
        BY <2>3
      <4> HIDE DEF seen
      <4> QED
        BY <1>3, <4>1, <4>2, <4>3 DEF Out
    <3> QED
      BY <3>1, <3>2
  <2>11. ASSUME NEW q \in Requests, NEW i \in 1..Len(accepts'[q]), NEW j \in 1..Len(accepts'[q]), i < j
         PROVE  guard.window > 0 /\ accepts'[q][j] - accepts'[q][i] > guard.window
    <3>0. \A m, n \in 1..Len(accepts[q]) :
             m < n => guard.window > 0 /\ accepts[q][n] - accepts[q][m] > guard.window
      BY DEF GuardInv
    <3>1. CASE q # k
      BY <2>7, <2>11, <3>0, <3>1
    <3>2. CASE q = k
      <4>1. i \in 1..Len(b) /\ j \in 1..Len(b) /\ accepts'[q] = b
        BY <2>7, <3>2
      <4>2. \A m, n \in 1..Len(a) : m < n => guard.window > 0 /\ a[n] - a[m] > guard.window
        BY <3>0, <3>2
      <4>3. \A m \in 1..Len(a) : guard.window > 0 /\ hostTime - a[m] > guard.window
        BY <2>9 DEF Out
      <4> HIDE DEF a, b
      <4>4. i \in 1..Len(a) /\ b[i] = a[i]
        BY <2>6, <2>11, <4>1
      <4>5. CASE j = Len(a) + 1
        BY <2>6, <4>1, <4>3, <4>4, <4>5
      <4>6. CASE j # Len(a) + 1
        <5>1. j \in 1..Len(a) /\ b[j] = a[j]
          BY <2>6, <4>1, <4>6
        <5> QED
          BY <2>11, <4>1, <4>2, <4>4, <5>1
      <4> QED
        BY <4>5, <4>6
    <3> QED
      BY <3>1, <3>2
  <2> HIDE DEF seen
  <2> QED
    BY <1>1, <2>4, <2>7, <2>10, <2>11 DEF GuardInv
<1> QED
    BY <1>5, <1>6

\* Forgetting an id forgets its acceptances.
LEMMA GuardForgets ==
    GuardInv /\ (ResetGuard \/ \E k \in Requests : Forget(k)) => GuardInv'
<1> SUFFICES ASSUME GuardInv PROVE (ResetGuard \/ \E k \in Requests : Forget(k)) => GuardInv'
    OBVIOUS
<1>1. /\ hostTime \in Nat /\ guard \in [window : Nat, seen : Seq(Sightings)]
      /\ accepts \in [Requests -> Seq(Nat)]
    BY DEF GuardInv
<1>2. <<>> \in Seq(Sightings) /\ <<>> \in Seq(Nat) /\ 1..Len(<<>>) = {}
    BY EmptySeq
<1>3. ASSUME ResetGuard PROVE GuardInv'
  <2>1. /\ guard' = [guard EXCEPT !.seen = <<>>] /\ accepts' = [q \in Requests |-> <<>>]
        /\ hostTime' = hostTime
    BY <1>3 DEF ResetGuard
  <2>2. guard' \in [window : Nat, seen : Seq(Sightings)] /\ accepts' \in [Requests -> Seq(Nat)]
    BY <1>1, <1>2, <2>1
  <2>3. \A q \in Requests : 1..Len(accepts'[q]) = {}
    BY <1>2, <2>1
  <2> QED
    BY <1>1, <2>1, <2>2, <2>3 DEF GuardInv
<1>4. ASSUME NEW k \in Requests, Forget(k) PROVE GuardInv'
  <2> DEFINE S == {e \in ToSet(guard.seen) : e.id # k}
             rest == Kept(guard.seen, S)
  <2>1. /\ guard' = [guard EXCEPT !.seen = rest] /\ accepts' = [accepts EXCEPT ![k] = <<>>]
        /\ hostTime' = hostTime
    BY <1>1, <1>4 DEF Forget
  <2>2. guard.seen \in Seq(Sightings)
    BY <1>1
  <2>3. rest \in Seq(Sightings) /\ ToSet(rest) = ToSet(guard.seen) \cap S
    <3> HIDE DEF S
    <3> QED
      BY <2>2, KeptIds
  <2>4. \A e \in ToSet(guard.seen) : e.id # k => e \in ToSet(rest)
    BY <2>3
  <2> HIDE DEF rest
  <2>5. /\ guard' \in [window : Nat, seen : Seq(Sightings)]
        /\ guard'.window = guard.window /\ guard'.seen = rest
    BY <1>1, <2>1, <2>3
  <2>6. accepts' \in [Requests -> Seq(Nat)] /\ accepts'[k] = <<>>
        /\ \A q \in Requests \ {k} : accepts'[q] = accepts[q]
    BY <1>1, <1>2, <2>1
  <2>7. ASSUME NEW q \in Requests, NEW i \in 1..Len(accepts'[q])
        PROVE  /\ accepts'[q][i] <= hostTime
               /\ \/ \E e \in ToSet(rest) : e.id = q /\ e.at >= accepts'[q][i]
                  \/ guard.window > 0 /\ hostTime - accepts'[q][i] > guard.window
    <3>1. q # k /\ accepts'[q] = accepts[q]
      BY <1>2, <2>6
    <3> QED
      BY <2>4, <3>1 DEF GuardInv
  <2>8. ASSUME NEW q \in Requests, NEW i \in 1..Len(accepts'[q]), NEW j \in 1..Len(accepts'[q]), i < j
        PROVE  guard.window > 0 /\ accepts'[q][j] - accepts'[q][i] > guard.window
    <3>1. q # k /\ accepts'[q] = accepts[q]
      BY <1>2, <2>6
    <3> QED
      BY <2>8, <3>1 DEF GuardInv
  <2> QED
    BY <1>1, <2>1, <2>5, <2>6, <2>7, <2>8, SMTT(20) DEF GuardInv
<1> QED
    BY <1>3, <1>4

\* Retention takes records from the front of a history in the order of its times.
LEMMA EnforcedIsTail ==
    ASSUME HostStoreConstants, hostTime \in Nat, NEW policy \in RecordPolicies, NEW s \in Seq(Records),
           \A i, j \in 1..Len(s) : i < j => s[i].at <= s[j].at
    PROVE  \E d \in 0..Len(s) :
               /\ Enforced(policy, s) \in Seq(Records) /\ Len(Enforced(policy, s)) = Len(s) - d
               /\ \A k \in 1..(Len(s) - d) : Enforced(policy, s)[k] = s[d + k]
               /\ \A i \in 1..Len(s) : Leaves(policy, s, i) <=> i <= d
<1> DEFINE n == Len(s)
           horizon == Max({hostTime - policy.age, 0})
           S == {r \in ToSet(s) : r.at >= horizon}
           young == IF policy.age = 0 \/ hostTime = 0 THEN s ELSE Kept(s, S)
           m == Len(young)
           Old(i) == policy.age > 0 /\ s[i].at + policy.age < hostTime
<1>1. n \in Nat /\ (\A i \in 1..n : s[i] \in Records) /\ policy.age \in Nat /\ policy.records \in Nat
    BY LenProperties, ElementOfSeq DEF HostStoreConstants
<1>2. horizon \in Int /\ horizon = IF hostTime - policy.age >= 0 THEN hostTime - policy.age ELSE 0
  <2> DEFINE x == hostTime - policy.age
  <2>1. x \in Int /\ 0 \in Int
    BY <1>1
  <2> HIDE DEF x
  <2>2. Max({x, 0}) = IF x >= 0 THEN x ELSE 0
    BY <2>1, MinMaxOfTwo, ZenonT(30)
  <2> QED
    BY <2>1, <2>2 DEF x
<1>a. \A i \in 1..n : s[i].at \in Nat
    BY <1>1 DEF Records
<1>3. \E d \in 0..n :
         /\ young \in Seq(Records) /\ m = n - d
         /\ \A k \in 1..(n - d) : young[k] = s[d + k]
         /\ \A i \in 1..n : Old(i) <=> i <= d
  <2>1. CASE policy.age = 0 \/ hostTime = 0
    <3>1. young = s /\ m = n - 0 /\ 0 \in 0..n /\ \A k \in 1..(n - 0) : young[k] = s[0 + k]
      BY <1>1, <2>1
    <3>2. \A i \in 1..n : ~Old(i) /\ ~(i <= 0)
      <4> HIDE DEF n
      <4> QED
        BY <1>1, <1>a, <2>1
    <3> HIDE DEF young, m, n, Old
    <3> QED
      BY <3>1, <3>2
  <2>2. CASE ~(policy.age = 0 \/ hostTime = 0)
    <3>1. young = Kept(s, S)
      BY <2>2
    <3>2. \A i \in 1..n : s[i] \in S <=> s[i].at >= horizon
      <4> HIDE DEF horizon
      <4> QED
        BY <1>1 DEF ToSet
    <3>3. \A i, j \in 1..n : i < j /\ s[i] \in S => s[j] \in S
      <4> HIDE DEF S, horizon
      <4>1. \A i \in 1..n : s[i].at \in Nat
        BY <1>1 DEF Records
      <4> QED
        BY <1>2, <3>2, <4>1, SMTT(20)
    <3> HIDE DEF S
    <3>4. PICK d \in 0..n : \A i \in 1..n : s[i] \in S <=> i > d
      <4> HIDE DEF n
      <4> QED
        BY <1>1, <3>3, CutPoint
    <3>5. d \in 0..Len(s) /\ \A i \in 1..Len(s) : s[i] \in S <=> i > d
      BY <3>4
    <3>6. /\ Kept(s, S) \in Seq(Records) /\ Len(Kept(s, S)) = Len(s) - d
          /\ \A k \in 1..(Len(s) - d) : Kept(s, S)[k] = s[d + k]
      BY ONLY s \in Seq(Records), <3>5, KeptTail
    <3>7. \A i \in 1..n : Old(i) <=> i <= d
      <4> SUFFICES ASSUME NEW i \in 1..n PROVE Old(i) <=> i <= d
        BY Zenon
      <4> HIDE DEF horizon, n
      <4>1. s[i].at \in Nat /\ policy.age \in Nat /\ policy.age > 0
        BY <1>1, <1>a, <2>2
      <4>2. Old(i) <=> ~(s[i].at >= horizon)
        BY <1>2, <4>1
      <4>3. ~(s[i].at >= horizon) <=> ~(i > d)
        BY <3>2, <3>4
      <4>4. i \in Nat /\ d \in Nat
        BY <1>1
      <4> HIDE DEF Old
      <4> QED
        BY <4>2, <4>3, <4>4
    <3> HIDE DEF Old
    <3> QED
      BY <3>1, <3>4, <3>6, <3>7
  <2> QED
    BY <2>1, <2>2
<1>4. PICK d \in 0..n :
         /\ young \in Seq(Records) /\ m = n - d
         /\ \A k \in 1..(n - d) : young[k] = s[d + k]
         /\ \A i \in 1..n : Old(i) <=> i <= d
  <2> HIDE DEF Old, young, m, n
  <2> QED
    BY <1>3
<1>b. \A i \in 1..n : Leaves(policy, s, i) <=> Old(i) \/ (policy.records > 0 /\ n - i >= policy.records)
    BY DEF Leaves
<1>5. Enforced(policy, s) = IF policy.records > 0 /\ m > policy.records
                            THEN SubSeq(young, m - policy.records + 1, m) ELSE young
    BY DEF Enforced
<1> HIDE DEF young, m, n, Old
<1>6. m \in Nat /\ m = n - d /\ n \in Nat /\ d \in 0..n
    BY <1>1, <1>4
<1>7. CASE policy.records > 0 /\ m > policy.records
  <2> DEFINE low == m - policy.records
             t == SubSeq(young, low + 1, m)
  <2>0. policy.records \in Nat /\ m \in Nat /\ m > policy.records
    BY <1>1, <1>6, <1>7
  <2>1. low \in Nat /\ low <= m /\ m <= m /\ m - low = policy.records
    BY <2>0
  <2>2. Enforced(policy, s) = t
    BY <1>5, <1>7
  <2>3. m = Len(young)
    BY DEF m
  <2> HIDE DEF low
  <2>4. /\ t \in Seq(Records) /\ Len(t) = m - low
        /\ \A k \in 1..(m - low) : t[k] = young[low + k]
    <3>1. young \in Seq(Records) /\ low \in Nat /\ m \in Nat /\ low <= m /\ m <= Len(young)
      BY <1>4, <1>6, <2>1, <2>3
    <3> QED
      BY ONLY <3>1, PartOf
  <2> HIDE DEF t
  <2>5. d + low \in 0..n /\ m - low = n - (d + low)
    BY <1>1, <1>4, <1>6, <2>1
  <2>6. ASSUME NEW k \in 1..(n - (d + low)) PROVE t[k] = s[(d + low) + k]
    <3>1. k \in 1..(m - low) /\ low + k \in 1..(n - d) /\ d + (low + k) = (d + low) + k
      BY <1>6, <2>1, <2>5
    <3> QED
      BY <1>4, <2>4, <3>1
  <2>7. ASSUME NEW i \in 1..n PROVE Leaves(policy, s, i) <=> i <= d + low
    <3>1. Old(i) <=> i <= d
      BY <1>4, Zenon
    <3>2. policy.records > 0 /\ (n - i >= policy.records <=> i <= d + low) /\ (i <= d => i <= d + low)
      BY <1>6, <1>7, <2>0, <2>1 DEF low
    <3> QED
      BY <1>b, <3>1, <3>2
  <2> QED
    BY <2>2, <2>4, <2>5, <2>6, <2>7 DEF n
<1>8. CASE ~(policy.records > 0 /\ m > policy.records)
  <2>1. Enforced(policy, s) = young
    BY <1>5, <1>8
  <2>2. ASSUME NEW i \in 1..n PROVE Leaves(policy, s, i) <=> i <= d
    <3>1. Old(i) <=> i <= d
      BY <1>4, Zenon
    <3>2. policy.records > 0 /\ n - i >= policy.records => i <= d
      BY <1>1, <1>6, <1>8
    <3> QED
      BY <1>b, <3>1, <3>2
  <2> QED
    BY <1>4, <2>1, <2>2 DEF m, n
<1> QED
    BY <1>7, <1>8

\* Records are added at the end of the history and leave it from the front; the export in
\* progress sees that some have left.
LEMMA HistoryStep ==
    ASSUME HistoryInv, ExportInv, hostTime' = hostTime, export' = export,
           pushed' \in Seq(Records), Len(pushed) <= Len(pushed'),
           \A i \in 1..Len(pushed) : pushed'[i] = pushed[i],
           \A i \in 1..Len(pushed') : pushed'[i].id = i - 1 /\ pushed'[i].at <= hostTime,
           \A i, j \in 1..Len(pushed') : i < j => pushed'[i].at <= pushed'[j].at,
           store' \in [policy : RecordPolicies, records : Seq(Records), archive : Seq(Records)],
           NEW d \in 0..(Len(pushed') - Gone),
           Len(store'.records) = Len(pushed') - Gone - d,
           \A i \in 1..Len(store'.records) : store'.records[i] = pushed'[Gone + d + i],
           \A i \in 1..Len(store'.archive) : store'.archive[i].id < Gone + d
    PROVE  HistoryInv' /\ ExportInv'
<1> DEFINE n == Len(pushed)
           q == Len(pushed')
           m == Len(store.records)
           r == Len(store'.records)
<1>1. n \in Nat /\ q \in Nat /\ m \in Nat /\ r \in Nat /\ Gone = n - m /\ Gone \in Nat /\ Gone' = q - r
    BY LenProperties DEF HistoryInv, Gone
<1>2. n <= q /\ d \in 0..(q - Gone) /\ r = q - Gone - d
    OBVIOUS
<1> HIDE DEF n, q, m, r
<1>3. Gone' = Gone + d /\ Gone' \in Nat /\ r = q - Gone'
    BY <1>1, <1>2
<1>4. HistoryInv'
    BY <1>3 DEF HistoryInv
<1>5. ExportInv'
  <2>1. /\ export' \in [cursor : Nat, got : Seq(Records), from : Seq(Records),
                        state : {"idle", "paging", "done"}]
        /\ export'.state = "idle" => export'.cursor = 0 /\ export'.got = <<>> /\ export'.from = <<>>
        /\ export'.from = <<>> => export'.got = <<>> /\ export'.state # "paging"
    BY DEF ExportInv
  <2>2. ASSUME export.from # <<>>
        PROVE  \E low \in 0..Gone' :
                  /\ low + Len(export.from) <= q
                  /\ \A i \in 1..Len(export.from) : export.from[i] = pushed'[low + i]
                  /\ low = Gone' =>
                        /\ export.cursor = Len(export.got)
                        /\ Len(export.got) <= r
                        /\ \A i \in 1..Len(export.got) : export.got[i] = store'.records[i]
                        /\ export.state = "done" => Len(export.got) >= Len(export.from)
    <3>1. PICK low \in 0..Gone :
             /\ low + Len(export.from) <= n
             /\ \A i \in 1..Len(export.from) : export.from[i] = pushed[low + i]
             /\ low = Gone =>
                   /\ export.cursor = Len(export.got)
                   /\ Len(export.got) <= m
                   /\ \A i \in 1..Len(export.got) : export.got[i] = store.records[i]
                   /\ export.state = "done" => Len(export.got) >= Len(export.from)
      BY <2>2 DEF ExportInv, n, m
    <3> DEFINE k == Len(export.from)
               g == Len(export.got)
    <3>2. k \in Nat /\ g \in Nat
      BY <2>1, LenProperties DEF ExportInv
    <3> HIDE DEF k, g
    <3>7. low \in 0..Gone /\ low + k <= n
      BY <3>1 DEF k
    <3>3. low \in 0..Gone' /\ low + k <= q
      BY <1>1, <1>2, <1>3, <3>7, <3>2
    <3>4. ASSUME NEW i \in 1..k PROVE export.from[i] = pushed'[low + i]
      <4>0. low \in Nat /\ n \in Nat
        BY <1>1, <3>7
      <4>1. low + i \in 1..n
        BY <3>2, <3>7, <4>0
      <4>2. \A j \in 1..n : pushed'[j] = pushed[j]
        BY DEF n
      <4> QED
        BY <3>1, <4>1, <4>2 DEF k
    <3>5. ASSUME low = Gone'
          PROVE  /\ export.cursor = g /\ g <= r
                 /\ \A i \in 1..g : export.got[i] = store'.records[i]
                 /\ export.state = "done" => g >= k
      <4>1. d = 0 /\ low = Gone
        BY <1>1, <1>3, <3>1, <3>5
      <4>6. g <= m
        BY <3>1, <4>1 DEF g
      <4>2. g <= m /\ m <= r
        BY <1>1, <1>2, <4>1, <4>6
      <4>3. ASSUME NEW i \in 1..g PROVE store.records[i] = store'.records[i]
        <5>1. i \in 1..m /\ i \in 1..r /\ Gone + i \in 1..n
          BY <1>1, <3>2, <4>2
        <5>2. store.records[i] = pushed[Gone + i]
          BY <5>1 DEF HistoryInv, m
        <5>3. store'.records[i] = pushed'[Gone + d + i]
          BY <5>1 DEF r
        <5>4. Gone + d + i = Gone + i
          BY <1>1, <4>1
        <5>5. pushed'[Gone + i] = pushed[Gone + i]
          BY <5>1 DEF n
        <5> QED
          BY <5>2, <5>3, <5>4, <5>5
      <4>4. /\ export.cursor = g
            /\ \A i \in 1..g : export.got[i] = store.records[i]
            /\ export.state = "done" => g >= k
        BY <3>1, <4>1 DEF g, k
      <4>5. g <= r
        BY <1>1, <3>2, <4>2
      <4> QED
        BY <4>3, <4>4, <4>5
    <3> QED
      BY <3>3, <3>4, <3>5 DEF k, g
  <2> QED
    BY <2>1, <2>2 DEF ExportInv, q, r
<1> QED
    BY <1>4, <1>5

\* The active history, as the invariant places it in what was pushed.
LEMMA HistoryPlaces ==
    ASSUME HistoryInv
    PROVE  /\ Gone \in Nat /\ Len(pushed) \in Nat /\ Len(store.records) \in Nat
           /\ Len(pushed) = Gone + Len(store.records)
           /\ store.records \in Seq(Records)
           /\ \A i \in 1..Len(store.records) :
                 /\ Gone + i \in 1..Len(pushed)
                 /\ store.records[i] = pushed[Gone + i] /\ store.records[i] \in Records
                 /\ store.records[i].id = Gone + i - 1 /\ store.records[i].at <= hostTime
           /\ \A i, j \in 1..Len(store.records) :
                 i < j => store.records[i].at <= store.records[j].at
<1> DEFINE n == Len(pushed)
           m == Len(store.records)
<1>1. store.records \in Seq(Records) /\ pushed \in Seq(Records) /\ Gone \in Nat
    BY DEF HistoryInv
<1>2. n \in Nat /\ m \in Nat /\ Gone = n - m
    BY <1>1, LenProperties DEF Gone
<1>3. \A i \in 1..m : store.records[i] = pushed[Gone + i]
    BY DEF HistoryInv
<1>4. \A i \in 1..n : pushed[i].id = i - 1 /\ pushed[i].at <= hostTime
    BY DEF HistoryInv
<1>5. \A i, j \in 1..n : i < j => pushed[i].at <= pushed[j].at
    BY DEF HistoryInv
<1>6. \A i \in 1..m : store.records[i] \in Records
    BY <1>1, ElementOfSeq
<1> HIDE DEF n, m
<1>7. \A i \in 1..m : Gone + i \in 1..n
    BY <1>1, <1>2
<1>8. n = Gone + m
    BY <1>1, <1>2
<1>9. \A i, j \in 1..m : i < j => Gone + i < Gone + j
    BY <1>1, <1>2
<1>10. ASSUME NEW i \in 1..m, NEW j \in 1..m, i < j
       PROVE  store.records[i].at <= store.records[j].at
  <2>1. Gone + i \in 1..n /\ Gone + j \in 1..n /\ Gone + i < Gone + j
    BY <1>7, <1>9, <1>10
  <2> QED
    BY <1>3, <1>5, <2>1
<1>11. ASSUME NEW i \in 1..m
       PROVE  /\ Gone + i \in 1..n
              /\ store.records[i] = pushed[Gone + i] /\ store.records[i] \in Records
              /\ store.records[i].id = Gone + i - 1 /\ store.records[i].at <= hostTime
  <2>1. Gone + i \in 1..n /\ store.records[i] = pushed[Gone + i]
    BY <1>3, <1>7
  <2>2. pushed[Gone + i].id = (Gone + i) - 1 /\ pushed[Gone + i].at <= hostTime
    BY <1>4, <2>1
  <2>3. (Gone + i) - 1 = Gone + i - 1
    BY <1>1, <1>2
  <2> QED
    BY <1>6, <2>1, <2>2, <2>3
<1> QED
    BY <1>1, <1>2, <1>8, <1>10, <1>11 DEF n, m

\* What is archived names its place in what was pushed.
LEMMA ArchivePlaces ==
    ASSUME HistoryInv, AccountInv
    PROVE  /\ Gone \in 0..Len(pushed) /\ Len(pushed) \in Nat
           /\ \A i \in 1..Gone : pushed[i].id = i - 1
           /\ \A r : r \in ToSet(store.archive) <=> \E i \in 1..Len(store.archive) : store.archive[i] = r
           /\ \A r \in ToSet(store.archive) : r.id + 1 \in 1..Gone /\ r = pushed[r.id + 1]
<1> DEFINE a == store.archive
           n == Len(pushed)
<1>1. Gone \in Nat /\ n \in Nat /\ Gone <= n
  <2> DEFINE m == Len(store.records)
  <2>1. Gone \in Nat /\ n \in Nat /\ m \in Nat /\ n = Gone + m
    BY HistoryPlaces
  <2> HIDE DEF n, m
  <2> QED
    BY <2>1
<1>2. a \in Seq(Records)
    BY DEF HistoryInv
<1>3. \A r : r \in ToSet(a) <=> \E i \in 1..Len(a) : a[i] = r
  <2> HIDE DEF a
  <2> QED
    BY <1>2, NamedIn
<1>4. ASSUME NEW i \in 1..Len(a) PROVE a[i].id + 1 \in 1..Gone /\ a[i] = pushed[a[i].id + 1]
  <2>1. a[i] \in Records /\ a[i].id < Gone
    BY <1>2, ElementOfSeq DEF HistoryInv
  <2>2. a[i].id \in Nat
    BY <2>1 DEF Records
  <2> QED
    BY <1>1, <2>1, <2>2 DEF AccountInv
<1>5. \A i \in 1..n : pushed[i].id = i - 1
    BY DEF HistoryInv
<1> HIDE DEF n, a
<1>6. \A i \in 1..Gone : i \in 1..n
    BY <1>1
<1>7. Gone \in 0..n
    BY <1>1
<1>8. \A r \in ToSet(a) : r.id + 1 \in 1..Gone /\ r = pushed[r.id + 1]
    BY <1>3, <1>4
<1> QED
    BY <1>1, <1>3, <1>5, <1>6, <1>7, <1>8 DEF n, a

\* Records that retention takes from the front are among the discarded ones.
LEMMA RemovalAccounted ==
    ASSUME HistoryInv, HistoryInv', AccountInv, NEW d \in Nat, Gone' = Gone + d,
           \A i \in 1..Len(pushed) : pushed'[i] = pushed[i], Len(pushed) <= Len(pushed'),
           store'.archive = store.archive,
           \A r : r \in discarded' <=> r \in discarded \/ \E k \in 1..d : r = pushed'[Gone + k]
    PROVE  AccountInv'
<1> DEFINE a == store.archive
           n == Len(pushed)
           q == Len(pushed')
<1>1. /\ Gone \in 0..n /\ n \in Nat /\ n <= q
      /\ \A i \in 1..Gone : pushed[i].id = i - 1
      /\ \A r : r \in ToSet(a) <=> \E i \in 1..Len(a) : a[i] = r
      /\ \A r \in ToSet(a) : r.id + 1 \in 1..Gone /\ r = pushed[r.id + 1]
    BY ArchivePlaces
<1>2. q \in Nat /\ Gone + d <= q /\ \A i \in 1..q : pushed'[i].id = i - 1
  <2> DEFINE m == Len(store'.records)
  <2>1. /\ pushed' \in Seq(Records) /\ store'.records \in Seq(Records) /\ Gone' = q - m
        /\ \A i \in 1..q : pushed'[i].id = i - 1
    BY DEF HistoryInv, Gone
  <2>2. q \in Nat /\ m \in Nat
    BY <2>1, LenProperties
  <2> HIDE DEF q, m
  <2> QED
    BY <1>1, <2>1, <2>2
<1>3. \A i \in 1..n : pushed'[i] = pushed[i]
    OBVIOUS
<1> HIDE DEF n, q
<1>4. ASSUME NEW i \in 1..Len(a) PROVE a[i].id + 1 \in 1..Gone /\ a[i] = pushed'[a[i].id + 1]
  <2>1. a[i].id + 1 \in 1..Gone /\ a[i] = pushed[a[i].id + 1]
    BY <1>1
  <2> QED
    BY <1>1, <1>3, <2>1
<1>5. ASSUME NEW i \in 1..Gone PROVE pushed'[i] \in discarded' <=> pushed'[i] \notin ToSet(a)
  <2>1. pushed'[i] = pushed[i] /\ i \in 1..q /\ pushed'[i].id = i - 1
    BY <1>1, <1>2, <1>3
  <2>2. ASSUME NEW k \in 1..d PROVE pushed'[i] # pushed'[Gone + k]
    <3>1. Gone + k \in 1..q
      BY <1>1, <1>2
    <3>2. pushed'[Gone + k].id = (Gone + k) - 1 /\ (Gone + k) - 1 # i - 1
      BY <1>1, <1>2, <3>1
    <3> QED
      BY <2>1, <3>2
  <2>3. pushed[i] \in discarded <=> pushed[i] \notin ToSet(a)
    BY DEF AccountInv
  <2> QED
    BY <2>1, <2>2, <2>3
<1>6. ASSUME NEW i \in 1..(Gone + d), i \notin 1..Gone
      PROVE  pushed'[i] \in discarded' /\ pushed'[i] \notin ToSet(a)
  <2>1. i - Gone \in 1..d /\ Gone + (i - Gone) = i /\ i \in 1..q
    BY <1>1, <1>2, <1>6
  <2>2. pushed'[i].id + 1 \notin 1..Gone
    <3>1. pushed'[i].id = i - 1 /\ i \in Nat /\ Gone \in Nat
      BY <1>1, <1>2, <2>1
    <3>2. pushed'[i].id + 1 = i
      BY <3>1
    <3> QED
      BY <1>6, <3>2
  <2>3. pushed'[i] \in discarded'
    BY <2>1
  <2> QED
    BY <1>1, <2>2, <2>3
<1>7. ASSUME NEW r \in discarded' PROVE \E i \in 1..(Gone + d) : r = pushed'[i]
  <2>1. CASE r \in discarded
    <3>1. PICK i \in 1..Gone : r = pushed[i]
      BY <2>1 DEF AccountInv
    <3>2. i \in 1..(Gone + d) /\ i \in 1..n
      BY <1>1
    <3> QED
      BY <1>3, <3>1, <3>2
  <2>2. CASE r \notin discarded
    <3>1. PICK k \in 1..d : r = pushed'[Gone + k]
      BY <2>2
    <3>2. Gone + k \in 1..(Gone + d)
      BY <1>1
    <3> QED
      BY <3>1, <3>2
  <2> QED
    BY <2>1, <2>2
<1>8. \A i, j \in 1..Len(a) : i < j => a[i].id < a[j].id
    BY DEF AccountInv
<1>9. store'.archive = a /\ Gone' = Gone + d
    OBVIOUS
<1> HIDE DEF a
<1>10. \A i \in 1..(Gone + d) : pushed'[i] \in discarded' <=> pushed'[i] \notin ToSet(a)
    BY <1>5, <1>6
<1> QED
    BY <1>4, <1>7, <1>8, <1>9, <1>10 DEF AccountInv

\* Records that are archived join the archive behind what it holds.
LEMMA FilingAccounted ==
    ASSUME HistoryInv, HistoryInv', AccountInv, NEW d \in Nat, Gone' = Gone + d,
           pushed' = pushed, discarded' = discarded, NEW t \in Seq(Records),
           store'.archive = store.archive \o t,
           \A r : r \in ToSet(t) <=> \E k \in 1..d : r = pushed[Gone + k],
           \A i, j \in 1..Len(t) : i < j => t[i].id < t[j].id
    PROVE  AccountInv'
<1> DEFINE a == store.archive
           n == Len(pushed)
           b == a \o t
<1>1. /\ Gone \in 0..n /\ n \in Nat
      /\ \A r : r \in ToSet(a) <=> \E i \in 1..Len(a) : a[i] = r
      /\ \A r \in ToSet(a) : r.id + 1 \in 1..Gone /\ r = pushed[r.id + 1]
    BY ArchivePlaces
<1>2. Gone + d <= n /\ \A i \in 1..n : pushed[i].id = i - 1
  <2> DEFINE m == Len(store'.records)
  <2>1. /\ store'.records \in Seq(Records) /\ Gone' = n - m
        /\ \A i \in 1..n : pushed[i].id = i - 1
    BY DEF HistoryInv, Gone
  <2>2. m \in Nat
    BY <2>1, LenProperties
  <2> HIDE DEF n, m
  <2> QED
    BY <1>1, <2>1, <2>2
<1>3. a \in Seq(Records) /\ Len(a) \in Nat /\ Len(t) \in Nat
    BY LenProperties DEF HistoryInv
<1>4. ToSet(b) = ToSet(a) \cup ToSet(t)
  <2> HIDE DEF a
  <2> QED
    BY <1>3, JoinedSet
<1>5. /\ Len(b) = Len(a) + Len(t)
      /\ \A i \in 1..(Len(a) + Len(t)) : b[i] = IF i <= Len(a) THEN a[i] ELSE t[i - Len(a)]
  <2> HIDE DEF a
  <2> QED
    BY <1>3, ConcatProperties
<1>6. \A i \in 1..Len(t) : t[i] \in ToSet(t)
    BY NamedIn
<1>7. \A i \in 1..Len(a) : a[i] \in ToSet(a)
    BY <1>1
<1> HIDE DEF n, a, b
<1>8. ASSUME NEW r \in ToSet(t) PROVE r.id + 1 \in (Gone + 1)..(Gone + d) /\ r = pushed[r.id + 1]
  <2>1. PICK k \in 1..d : r = pushed[Gone + k]
    OBVIOUS
  <2>2. Gone + k \in 1..n /\ Gone + k \in (Gone + 1)..(Gone + d)
    BY <1>1, <1>2
  <2>3. r.id = (Gone + k) - 1
    BY <1>2, <2>1, <2>2
  <2>4. r.id + 1 = Gone + k
    BY <1>1, <2>3
  <2> QED
    BY <2>1, <2>2, <2>4
<1>9. ASSUME NEW i \in 1..Len(b)
      PROVE  \/ i \in 1..Len(a) /\ b[i] = a[i]
             \/ i - Len(a) \in 1..Len(t) /\ b[i] = t[i - Len(a)] /\ i \notin 1..Len(a)
    BY <1>3, <1>5
<1>10. ASSUME NEW i \in 1..Len(b) PROVE b[i] = pushed[b[i].id + 1]
    BY <1>1, <1>6, <1>7, <1>8, <1>9
<1>11. ASSUME NEW i \in 1..Len(b), NEW j \in 1..Len(b), i < j PROVE b[i].id < b[j].id
  <2>1. CASE j \in 1..Len(a)
    <3>1. i \in 1..Len(a)
      BY <1>3, <1>11, <2>1
    <3>2. a[i].id < a[j].id
      BY <1>11, <2>1, <3>1 DEF AccountInv, a
    <3> QED
      BY <1>9, <2>1, <3>1, <3>2
  <2>2. CASE i \notin 1..Len(a)
    <3>1. j \notin 1..Len(a) /\ i - Len(a) < j - Len(a)
      BY <1>3, <1>5, <1>11, <2>2
    <3>2. t[i - Len(a)].id < t[j - Len(a)].id
      BY <1>9, <2>2, <3>1
    <3> QED
      BY <1>9, <2>2, <3>1, <3>2
  <2>3. CASE i \in 1..Len(a) /\ j \notin 1..Len(a)
    <3>1. b[i].id + 1 \in 1..Gone /\ b[j].id + 1 \in (Gone + 1)..(Gone + d)
      BY <1>1, <1>6, <1>7, <1>8, <1>9, <2>3
    <3>2. b[i] \in Records /\ b[j] \in Records
      <4>1. b[i] = a[i] /\ b[j] = t[j - Len(a)] /\ j - Len(a) \in 1..Len(t)
        BY <1>9, <2>3
      <4> QED
        BY <1>3, <2>3, <4>1, ElementOfSeq
    <3>3. b[i].id \in Nat /\ b[j].id \in Nat
      BY <3>2 DEF Records
    <3> DEFINE x == b[i].id
               y == b[j].id
    <3>4. x + 1 \in 1..Gone /\ y + 1 \in (Gone + 1)..(Gone + d) /\ x \in Nat /\ y \in Nat
      BY <3>1, <3>3
    <3> HIDE DEF x, y
    <3>5. x + 1 <= Gone /\ Gone + 1 <= y + 1 /\ Gone \in Nat
      BY <1>1, <3>4
    <3>6. x < y
      BY <3>4, <3>5
    <3> QED
      BY <3>6 DEF x, y
  <2> QED
    BY <2>1, <2>2, <2>3
<1>12. ASSUME NEW i \in 1..(Gone + d) PROVE pushed[i] \in discarded <=> pushed[i] \notin ToSet(b)
  <2>1. i \in 1..n /\ pushed[i].id + 1 = i
    <3>1. i \in 1..n
      BY <1>1, <1>2
    <3>2. pushed[i].id = i - 1
      BY <1>2, <3>1
    <3>3. i \in Nat
      BY <1>1
    <3> QED
      BY <3>1, <3>2, <3>3
  <2>2. CASE i \in 1..Gone
    <3>1. i \notin (Gone + 1)..(Gone + d)
      BY <1>1, <2>2
    <3>2. pushed[i] \notin ToSet(t)
      BY <1>8, <2>1, <3>1
    <3>3. pushed[i] \in discarded <=> pushed[i] \notin ToSet(a)
      BY <2>2 DEF AccountInv, a
    <3> QED
      BY <1>4, <3>2, <3>3
  <2>3. CASE i \notin 1..Gone
    <3>1. i - Gone \in 1..d /\ Gone + (i - Gone) = i
      BY <1>1, <2>3
    <3>2. pushed[i] \in ToSet(t)
      BY <3>1
    <3>3. pushed[i] \notin discarded
      <4> SUFFICES ASSUME pushed[i] \in discarded PROVE FALSE
        OBVIOUS
      <4>1. PICK k \in 1..Gone : pushed[i] = pushed[k]
        BY DEF AccountInv
      <4>2. k \in 1..n /\ k # i
        BY <1>1, <2>3
      <4>3. pushed[k].id = k - 1 /\ pushed[i].id = i - 1
        BY <1>2, <2>1, <4>2
      <4>4. k \in Nat /\ i \in Nat
        BY <1>1
      <4> QED
        BY <4>1, <4>2, <4>3, <4>4
    <3> QED
      BY <1>4, <3>2, <3>3
  <2> QED
    BY <2>2, <2>3
<1>13. ASSUME NEW r \in discarded PROVE \E i \in 1..(Gone + d) : r = pushed[i]
  <2>1. PICK i \in 1..Gone : r = pushed[i]
    BY DEF AccountInv
  <2>2. i \in 1..(Gone + d)
    BY <1>1
  <2> QED
    BY <2>1, <2>2
<1>14. store'.archive = b /\ Gone' = Gone + d
    BY DEF a, b
<1> QED
    BY <1>10, <1>11, <1>12, <1>13, <1>14 DEF AccountInv

\* A record is added, and retention may follow.
LEMMA RecordPushed ==
    ASSUME HistoryInv, ExportInv, AccountInv, HostStoreConstants, PushRecord
    PROVE  HistoryInv' /\ ExportInv' /\ AccountInv'
<1> DEFINE n == Len(pushed)
           m == Len(store.records)
           record == [id |-> n, at |-> hostTime]
           s == Append(store.records, record)
           rest == IF store.policy.onWrite THEN Enforced(store.policy, s) ELSE s
           p == Append(pushed, record)
           left == IF store.policy.onWrite THEN Expendable(store.policy, s) ELSE {}
<1>1. /\ Gone \in Nat /\ n \in Nat /\ m \in Nat /\ n = Gone + m
      /\ store.records \in Seq(Records)
      /\ \A i \in 1..m : /\ Gone + i \in 1..n
                         /\ store.records[i] = pushed[Gone + i] /\ store.records[i] \in Records
                         /\ store.records[i].id = Gone + i - 1 /\ store.records[i].at <= hostTime
      /\ \A i, j \in 1..m : i < j => store.records[i].at <= store.records[j].at
    BY HistoryPlaces
<1>2. /\ pushed' = p /\ store' = [store EXCEPT !.records = rest]
      /\ hostTime' = hostTime /\ export' = export /\ discarded' = discarded \cup left
    BY DEF PushRecord
<1>3. /\ hostTime \in Nat /\ pushed \in Seq(Records)
      /\ store \in [policy : RecordPolicies, records : Seq(Records), archive : Seq(Records)]
      /\ \A i \in 1..n : pushed[i].id = i - 1 /\ pushed[i].at <= hostTime
      /\ \A i, j \in 1..n : i < j => pushed[i].at <= pushed[j].at
      /\ \A i \in 1..Len(store.archive) : store.archive[i].id < Gone
    BY DEF HistoryInv
<1>4. record \in Records /\ record.id = n /\ record.at = hostTime
    BY <1>1, <1>3 DEF Records
<1> HIDE DEF record
<1>5. p \in Seq(Records) /\ Len(p) = n + 1 /\ p[n + 1] = record /\ \A i \in 1..n : p[i] = pushed[i]
    BY <1>3, <1>4, AppendProperties
<1>6. s \in Seq(Records) /\ Len(s) = m + 1 /\ s[m + 1] = record
      /\ \A i \in 1..m : s[i] = store.records[i]
    BY <1>1, <1>4, AppendProperties
<1> HIDE DEF n, m, s, p
<1>7. \A i \in 1..(n + 1) : p[i].id = i - 1 /\ p[i].at <= hostTime
  <2> SUFFICES ASSUME NEW i \in 1..(n + 1) PROVE p[i].id = i - 1 /\ p[i].at <= hostTime
    OBVIOUS
  <2>1. CASE i = n + 1
    BY <1>1, <1>3, <1>4, <1>5, <2>1
  <2>2. CASE i # n + 1
    <3>1. i \in 1..n
      BY <1>1, <2>2
    <3> QED
      BY <1>3, <1>5, <3>1
  <2> QED
    BY <2>1, <2>2
<1>8. \A i, j \in 1..(n + 1) : i < j => p[i].at <= p[j].at
  <2> SUFFICES ASSUME NEW i \in 1..(n + 1), NEW j \in 1..(n + 1), i < j PROVE p[i].at <= p[j].at
    OBVIOUS
  <2>0. i \in 1..n
    BY <1>1
  <2>1. CASE j = n + 1
    BY <1>3, <1>4, <1>5, <2>0, <2>1
  <2>2. CASE j # n + 1
    <3>1. j \in 1..n
      BY <1>1, <2>2
    <3> QED
      BY <1>3, <1>5, <2>0, <3>1
  <2> QED
    BY <2>1, <2>2
<1>9. \A i \in 1..(m + 1) : s[i] = p[Gone + i]
  <2> SUFFICES ASSUME NEW i \in 1..(m + 1) PROVE s[i] = p[Gone + i]
    OBVIOUS
  <2>1. CASE i = m + 1
    <3>1. Gone + i = n + 1
      BY <1>1, <2>1
    <3> QED
      BY <1>5, <1>6, <2>1, <3>1
  <2>2. CASE i # m + 1
    <3>1. i \in 1..m
      BY <1>1, <2>2
    <3> QED
      BY <1>1, <1>5, <1>6, <3>1
  <2> QED
    BY <2>1, <2>2
<1>10. \A i, j \in 1..(m + 1) : i < j => s[i].at <= s[j].at
  <2> SUFFICES ASSUME NEW i \in 1..(m + 1), NEW j \in 1..(m + 1), i < j PROVE s[i].at <= s[j].at
    OBVIOUS
  <2>1. Gone + i \in 1..(n + 1) /\ Gone + j \in 1..(n + 1) /\ Gone + i < Gone + j
    BY <1>1
  <2> QED
    BY <1>8, <1>9, <2>1
<1>11. \E d \in 0..(m + 1) :
          /\ rest \in Seq(Records) /\ Len(rest) = (m + 1) - d
          /\ \A k \in 1..((m + 1) - d) : rest[k] = s[d + k]
          /\ \A r : r \in left <=> \E k \in 1..d : r = s[k]
  <2>1. CASE store.policy.onWrite
    <3>1. store.policy \in RecordPolicies
      BY <1>3
    <3>2. rest = Enforced(store.policy, s)
      BY <2>1
    <3>3. \A i, j \in 1..Len(s) : i < j => s[i].at <= s[j].at
      BY <1>6, <1>10
    <3>4. PICK d \in 0..Len(s) :
               /\ Enforced(store.policy, s) \in Seq(Records)
               /\ Len(Enforced(store.policy, s)) = Len(s) - d
               /\ \A k \in 1..(Len(s) - d) : Enforced(store.policy, s)[k] = s[d + k]
               /\ \A i \in 1..Len(s) : Leaves(store.policy, s, i) <=> i <= d
      BY <1>3, <1>6, <3>1, <3>3, EnforcedIsTail, ZenonT(30)
    <3>5. DOMAIN s = 1..(m + 1) /\ Len(s) = m + 1
      BY <1>6
    <3>6. \A r : r \in left <=> \E k \in 1..d : r = s[k]
      <4>1. left = {s[i] : i \in {j \in 1..(m + 1) : Leaves(store.policy, s, j)}}
        BY <2>1, <3>5 DEF Expendable
      <4>2. \A j : j \in 1..(m + 1) /\ Leaves(store.policy, s, j) <=> j \in 1..d
        <5>1. d \in 0..(m + 1) /\ \A i \in 1..(m + 1) : Leaves(store.policy, s, i) <=> i <= d
          BY <3>4, <3>5
        <5> QED
          BY <1>1, <5>1
      <4> HIDE DEF left
      <4> QED
        BY <4>1, <4>2
    <3> HIDE DEF rest, left
    <3> QED
      BY <3>2, <3>4, <3>5, <3>6
  <2>2. CASE ~store.policy.onWrite
    <3>1. rest = s
      BY <2>2
    <3> HIDE DEF rest
    <3>2. 0 \in 0..(m + 1) /\ (m + 1) - 0 = m + 1 /\ \A k \in 1..(m + 1) : 0 + k = k
      BY <1>1
    <3>3. \A r : r \in left <=> \E k \in 1..0 : r = s[k]
      BY <2>2
    <3> HIDE DEF left
    <3> QED
      BY <1>6, <3>1, <3>2, <3>3
  <2> QED
    BY <2>1, <2>2
<1>12. PICK d \in 0..(m + 1) :
          /\ rest \in Seq(Records) /\ Len(rest) = (m + 1) - d
          /\ \A k \in 1..((m + 1) - d) : rest[k] = s[d + k]
          /\ \A r : r \in left <=> \E k \in 1..d : r = s[k]
  <2> HIDE DEF rest, left
  <2> QED
    BY <1>11
<1> HIDE DEF rest, left
<1>13. /\ store' \in [policy : RecordPolicies, records : Seq(Records), archive : Seq(Records)]
       /\ store'.records = rest /\ store'.archive = store.archive
    BY <1>2, <1>3, <1>12
<1>14. /\ (n + 1) - Gone = m + 1 /\ n <= n + 1 /\ d \in 0..((n + 1) - Gone)
       /\ (m + 1) - d = (n + 1) - Gone - d
    BY <1>1, <1>12
<1>15. ASSUME NEW k \in 1..Len(rest) PROVE rest[k] = p[Gone + d + k]
  <2>1. k \in 1..((m + 1) - d) /\ d + k \in 1..(m + 1) /\ Gone + (d + k) = Gone + d + k
    BY <1>1, <1>12
  <2> QED
    BY <1>9, <1>12, <2>1
<1>16. \A i \in 1..Len(store.archive) : store.archive[i].id < Gone + d
  <2> SUFFICES ASSUME NEW i \in 1..Len(store.archive) PROVE store.archive[i].id < Gone + d
    OBVIOUS
  <2>1. store.archive[i] \in Records
    BY <1>3, ElementOfSeq
  <2>2. store.archive[i].id < Gone /\ store.archive[i].id \in Nat
    BY <1>3, <2>1 DEF Records
  <2> QED
    BY <1>1, <1>12, <2>2
<1>17. /\ hostTime' = hostTime /\ export' = export
       /\ pushed' \in Seq(Records) /\ Len(pushed') = n + 1 /\ pushed' = p
       /\ \A i \in 1..Len(pushed) : pushed'[i] = pushed[i]
    BY <1>2, <1>5 DEF n
<1>18. /\ Len(pushed) <= Len(pushed') /\ d \in 0..(Len(pushed') - Gone)
       /\ Len(store'.records) = Len(pushed') - Gone - d
    BY <1>12, <1>13, <1>14, <1>17 DEF n
<1>19. HistoryInv' /\ ExportInv'
    BY <1>7, <1>8, <1>13, <1>15, <1>16, <1>17, <1>18, HistoryStep
<1>20. Gone' = Gone + d /\ d \in Nat
  <2>1. Gone' = (n + 1) - ((m + 1) - d)
    BY <1>12, <1>13, <1>17 DEF Gone
  <2> QED
    BY <1>1, <1>12, <2>1
<1>21. \A r : r \in discarded' <=> r \in discarded \/ \E k \in 1..d : r = pushed'[Gone + k]
  <2>1. \A k \in 1..d : s[k] = p[Gone + k]
    <3>1. \A k \in 1..d : k \in 1..(m + 1)
      BY <1>1, <1>12
    <3> QED
      BY <1>9, <3>1
  <2>2. \A r : r \in left <=> \E k \in 1..d : r = p[Gone + k]
    BY <1>12, <2>1
  <2>3. discarded' = discarded \cup left /\ pushed' = p
    BY <1>2
  <2> QED
    BY <2>2, <2>3
<1>22. AccountInv'
    BY <1>13, <1>17, <1>18, <1>19, <1>20, <1>21, RemovalAccounted
<1> QED
    BY <1>19, <1>22

\* A policy applies to the history at once.
LEMMA PolicySet ==
    ASSUME HistoryInv, ExportInv, AccountInv, HostStoreConstants, NEW policy \in RecordPolicies,
           SetRetentionPolicy(policy)
    PROVE  HistoryInv' /\ ExportInv' /\ AccountInv'
<1> DEFINE s == store.records
           m == Len(s)
           rest == Enforced(policy, s)
<1>1. /\ Gone \in Nat /\ Len(pushed) \in Nat /\ m \in Nat /\ Len(pushed) = Gone + m
      /\ s \in Seq(Records)
      /\ \A i \in 1..m : s[i] = pushed[Gone + i]
      /\ \A i, j \in 1..m : i < j => s[i].at <= s[j].at
    BY HistoryPlaces
<1>2. /\ store' = [store EXCEPT !.policy = policy, !.records = rest]
      /\ hostTime' = hostTime /\ export' = export /\ pushed' = pushed
      /\ discarded' = discarded \cup Expendable(policy, s)
    BY DEF SetRetentionPolicy
<1>3. /\ hostTime \in Nat /\ pushed \in Seq(Records)
      /\ store \in [policy : RecordPolicies, records : Seq(Records), archive : Seq(Records)]
      /\ \A i \in 1..Len(pushed) : pushed[i].id = i - 1 /\ pushed[i].at <= hostTime
      /\ \A i, j \in 1..Len(pushed) : i < j => pushed[i].at <= pushed[j].at
      /\ \A i \in 1..Len(store.archive) : store.archive[i].id < Gone
    BY DEF HistoryInv
<1>4. PICK d \in 0..m : /\ rest \in Seq(Records) /\ Len(rest) = m - d
                        /\ \A k \in 1..(m - d) : rest[k] = s[d + k]
                        /\ \A i \in 1..m : Leaves(policy, s, i) <=> i <= d
    BY <1>1, <1>3, EnforcedIsTail
<1>a. \A r : r \in Expendable(policy, s) <=> \E k \in 1..d : r = s[k]
  <2>1. Expendable(policy, s) = {s[i] : i \in {j \in 1..m : Leaves(policy, s, j)}}
    BY <1>1 DEF Expendable
  <2> HIDE DEF s, m
  <2>2. \A j : j \in 1..m /\ Leaves(policy, s, j) <=> j \in 1..d
    BY <1>1, <1>4
  <2> QED
    BY <2>1, <2>2
<1> HIDE DEF rest
<1>5. /\ store' \in [policy : RecordPolicies, records : Seq(Records), archive : Seq(Records)]
      /\ store'.records = rest /\ store'.archive = store.archive
    BY <1>2, <1>3, <1>4
<1> HIDE DEF m, s
<1>6. /\ d \in 0..(Len(pushed) - Gone) /\ m - d = Len(pushed) - Gone - d /\ Len(pushed) <= Len(pushed)
    <2> DEFINE n == Len(pushed)
    <2>1. n \in Nat /\ n = Gone + m
      BY <1>1
    <2> HIDE DEF n
    <2>2. d \in 0..(n - Gone) /\ m - d = n - Gone - d /\ n <= n
      BY <1>1, <1>4, <2>1, SMTT(20)
    <2> QED
      BY <2>2 DEF n
<1>7. ASSUME NEW k \in 1..Len(rest) PROVE rest[k] = pushed[Gone + d + k]
  <2>1. k \in 1..(m - d) /\ d + k \in 1..m /\ Gone + (d + k) = Gone + d + k
    BY <1>1, <1>4, SMTT(20)
  <2> QED
    BY <1>1, <1>4, <2>1
<1>8. \A i \in 1..Len(store.archive) : store.archive[i].id < Gone + d
  <2> SUFFICES ASSUME NEW i \in 1..Len(store.archive) PROVE store.archive[i].id < Gone + d
    OBVIOUS
  <2>1. store.archive[i] \in Records
    BY <1>3, ElementOfSeq
  <2>2. store.archive[i].id < Gone /\ store.archive[i].id \in Nat
    BY <1>3, <2>1 DEF Records
  <2>3. d \in Nat /\ Gone \in Nat
    BY <1>1
  <2> QED
    BY <2>2, <2>3
<1>9. \A i \in 1..Len(pushed) : pushed'[i] = pushed[i]
    BY <1>2
<1>10. HistoryInv' /\ ExportInv'
    BY <1>2, <1>3, <1>4, <1>5, <1>6, <1>7, <1>8, <1>9, HistoryStep
<1>11. Gone' = Gone + d /\ d \in Nat
  <2> DEFINE n == Len(pushed)
  <2>1. Gone' = n - (m - d) /\ n = Gone + m /\ n \in Nat
    BY <1>1, <1>2, <1>4, <1>5 DEF Gone
  <2> HIDE DEF n
  <2> QED
    BY <1>1, <1>4, <2>1
<1>12. \A r : r \in discarded' <=> r \in discarded \/ \E k \in 1..d : r = pushed'[Gone + k]
  <2>1. \A k \in 1..d : s[k] = pushed[Gone + k]
    <3>1. \A k \in 1..d : k \in 1..m
      BY <1>1, <1>4
    <3> QED
      BY <1>1, <3>1
  <2> QED
    BY <1>2, <1>a, <2>1
<1>13. AccountInv'
  <2>1. store'.archive = store.archive /\ Len(pushed) <= Len(pushed')
    BY <1>2, <1>5, <1>6
  <2> QED
    BY <1>9, <1>10, <1>11, <1>12, <2>1, RemovalAccounted
<1> QED
    BY <1>10, <1>13

\* What is older than a time goes to the archive: the front of the history.
LEMMA RecordsArchived ==
    ASSUME HistoryInv, ExportInv, AccountInv, NEW cutoff \in 1..hostTime, ArchiveBefore(cutoff)
    PROVE  HistoryInv' /\ ExportInv' /\ AccountInv'
<1> DEFINE s == store.records
           m == Len(s)
           old == {r \in ToSet(s) : r.at < cutoff}
           young == ToSet(s) \ old
           rest == Kept(s, young)
           archived == Kept(s, old)
           kept == store.archive \o archived
<1>1. /\ Gone \in Nat /\ Len(pushed) \in Nat /\ m \in Nat /\ Len(pushed) = Gone + m
      /\ s \in Seq(Records)
      /\ \A i \in 1..m : /\ s[i] = pushed[Gone + i] /\ s[i] \in Records
                         /\ s[i].id = Gone + i - 1
      /\ \A i, j \in 1..m : i < j => s[i].at <= s[j].at
    BY HistoryPlaces
<1>2. /\ store' = [store EXCEPT !.records = rest, !.archive = kept]
      /\ hostTime' = hostTime /\ export' = export /\ pushed' = pushed
      /\ discarded' = discarded
  <2>1. store \in [policy : RecordPolicies, records : Seq(Records), archive : Seq(Records)]
    BY DEF HistoryInv
  <2> QED
    BY <2>1 DEF ArchiveBefore
<1>3. /\ hostTime \in Nat /\ pushed \in Seq(Records)
      /\ store \in [policy : RecordPolicies, records : Seq(Records), archive : Seq(Records)]
      /\ \A i \in 1..Len(pushed) : pushed[i].id = i - 1 /\ pushed[i].at <= hostTime
      /\ \A i, j \in 1..Len(pushed) : i < j => pushed[i].at <= pushed[j].at
      /\ \A i \in 1..Len(store.archive) : store.archive[i].id < Gone
    BY DEF HistoryInv
<1>4. \A i \in 1..m : s[i] \in ToSet(s)
  <2> HIDE DEF s
  <2>1. DOMAIN s = 1..m
    BY <1>1
  <2> QED
    BY <2>1 DEF ToSet
<1>5. \A i \in 1..m : (s[i] \in young <=> ~(s[i].at < cutoff)) /\ (s[i] \in old <=> s[i].at < cutoff)
    BY <1>4
<1>6. cutoff \in Int
    BY <1>3
<1>7. \A i, j \in 1..m : i < j /\ s[i] \in young => s[j] \in young
  <2>1. \A i \in 1..m : s[i].at \in Nat
    BY <1>1 DEF Records
  <2>2. \A i, j \in 1..m : i < j => s[i].at <= s[j].at
    BY <1>1
  <2>3. \A i \in 1..m : s[i] \in young <=> ~(s[i].at < cutoff)
    BY <1>5
  <2> SUFFICES ASSUME NEW i \in 1..m, NEW j \in 1..m, i < j, s[i] \in young PROVE s[j] \in young
    BY Zenon
  <2> HIDE DEF s, m, young
  <2>4. s[i].at <= s[j].at /\ ~(s[i].at < cutoff) /\ s[i].at \in Nat /\ s[j].at \in Nat
    BY <2>1, <2>2, <2>3
  <2>5. ~(s[j].at < cutoff)
    BY <1>6, <2>4
  <2> QED
    BY <2>3, <2>5
<1>8. PICK d \in 0..m : \A i \in 1..m : s[i] \in young <=> i > d
  <2> HIDE DEF s, m, young
  <2> QED
    BY <1>1, <1>7, CutPoint
<1>9. /\ rest \in Seq(Records) /\ Len(rest) = m - d
      /\ \A k \in 1..(m - d) : rest[k] = s[d + k]
  <2> HIDE DEF young, s
  <2>1. d \in 0..Len(s) /\ \A i \in 1..Len(s) : s[i] \in young <=> i > d
    BY <1>8
  <2> QED
    BY <1>1, <2>1, KeptTail
<1>10. archived \in Seq(Records) /\ ToSet(archived) = ToSet(s) \cap old
  <2> HIDE DEF old, s
  <2> QED
    BY <1>1, KeptIds
<1>11. \A i \in 1..Len(archived) : archived[i].id < Gone + d
  <2> SUFFICES ASSUME NEW i \in 1..Len(archived) PROVE archived[i].id < Gone + d
    OBVIOUS
  <2>1. archived[i] \in ToSet(archived)
    <3> HIDE DEF archived
    <3>1. DOMAIN archived = 1..Len(archived)
      BY <1>10
    <3> QED
      BY <3>1 DEF ToSet
  <2>2. archived[i] \in ToSet(s) /\ archived[i] \in old
    BY <1>10, <2>1
  <2> HIDE DEF archived, old, young
  <2>3. PICK j \in 1..m : archived[i] = s[j]
    <3> HIDE DEF s
    <3>1. DOMAIN s = 1..m
      BY <1>1
    <3> QED
      BY <2>2, <3>1 DEF ToSet
  <2>4. s[j] \notin young
    BY <2>2, <2>3 DEF young
  <2>5. ~(j > d)
    BY <1>8, <2>4
  <2>6. archived[i].id = Gone + j - 1
    BY <1>1, <2>3
  <2> HIDE DEF s, m
  <2>7. j \in Nat /\ d \in Nat
    BY <1>1
  <2> QED
    BY <1>1, <2>5, <2>6, <2>7
<1>a. \A r : r \in ToSet(archived) <=> \E k \in 1..d : r = pushed[Gone + k]
  <2>1. \A r : r \in ToSet(s) <=> \E i \in 1..m : s[i] = r
    <3> HIDE DEF s
    <3> QED
      BY <1>1, NamedIn
  <2>2. \A i \in 1..m : s[i] \in old <=> i <= d
    <3>1. \A i \in 1..m : s[i] \in old <=> ~(s[i] \in young)
      BY <1>5
    <3> HIDE DEF old, young, s, m
    <3>2. \A i \in 1..m : ~(i > d) <=> i <= d
      BY <1>1
    <3> QED
      BY <1>8, <3>1, <3>2
  <2> HIDE DEF archived, old, s, m
  <2>3. \A i : i \in 1..m /\ i <= d <=> i \in 1..d
    BY <1>1
  <2>4. \A i \in 1..m : s[i] = pushed[Gone + i]
    BY <1>1
  <2> QED
    BY <1>10, <2>1, <2>2, <2>3, <2>4
<1>b. \A i, j \in 1..Len(archived) : i < j => archived[i].id < archived[j].id
  <2> DEFINE R == {x \in Records \X Records : x[1].id < x[2].id}
  <2>1. \A i, j \in 1..m : i < j => <<s[i], s[j]>> \in R
    <3> SUFFICES ASSUME NEW i \in 1..m, NEW j \in 1..m, i < j PROVE <<s[i], s[j]>> \in R
      BY Zenon
    <3>1. /\ s[i] \in Records /\ s[j] \in Records
          /\ s[i].id = Gone + i - 1 /\ s[j].id = Gone + j - 1
      BY <1>1
    <3> HIDE DEF s, m
    <3>2. s[i].id < s[j].id
      BY <1>1, <3>1
    <3> QED
      BY <3>1, <3>2
  <2> HIDE DEF R
  <2>2. \A i, j \in 1..Len(archived) : i < j => <<archived[i], archived[j]>> \in R
    <3> HIDE DEF s, old
    <3>1. s \in Seq(Records) /\ \A i, j \in 1..Len(s) : i < j => <<s[i], s[j]>> \in R
      BY <1>1, <2>1
    <3> QED
      BY <3>1, KeptOrdered
  <2>3. \A x, y : <<x, y>> \in R => x.id < y.id
    BY DEF R
  <2> HIDE DEF archived
  <2> QED
    BY <2>2, <2>3
<1> HIDE DEF rest, archived, old, young
<1>12. \A i \in 1..Len(store.archive) : store.archive[i].id < Gone + d
  <2> SUFFICES ASSUME NEW i \in 1..Len(store.archive) PROVE store.archive[i].id < Gone + d
    OBVIOUS
  <2>1. store.archive[i] \in Records
    BY <1>3, ElementOfSeq
  <2>2. store.archive[i].id < Gone /\ store.archive[i].id \in Nat
    BY <1>3, <2>1 DEF Records
  <2> HIDE DEF m
  <2>3. d \in Nat /\ Gone \in Nat
    BY <1>1
  <2> QED
    BY <2>2, <2>3
<1>13. kept \in Seq(Records) /\ \A i \in 1..Len(kept) : kept[i].id < Gone + d
  <2> DEFINE a == store.archive
             x == Len(a)
             y == Len(archived)
  <2>1. a \in Seq(Records) /\ x \in Nat /\ y \in Nat
    BY <1>3, <1>10
  <2>2. kept \in Seq(Records) /\ Len(kept) = x + y
        /\ \A i \in 1..(x + y) : kept[i] = IF i <= x THEN a[i] ELSE archived[i - x]
    <3> HIDE DEF a
    <3>1. kept = a \o archived
      BY DEF a
    <3> HIDE DEF kept
    <3> QED
      BY <1>10, <2>1, <3>1, ConcatProperties
  <2>3. (\A i \in 1..x : a[i].id < Gone + d) /\ (\A i \in 1..y : archived[i].id < Gone + d)
    BY <1>11, <1>12
  <2> HIDE DEF a, x, y, kept
  <2>4. ASSUME NEW i \in 1..(x + y) PROVE kept[i].id < Gone + d
    <3>1. CASE i <= x
      <4>1. i \in 1..x
        BY <2>1, <3>1
      <4> QED
        BY <2>2, <2>3, <3>1, <4>1
    <3>2. CASE ~(i <= x)
      <4>1. i - x \in 1..y
        BY <2>1, <3>2
      <4> QED
        BY <2>2, <2>3, <3>2, <4>1
    <3> QED
      BY <3>1, <3>2
  <2> QED
    BY <2>2, <2>4
<1>c. kept = store.archive \o archived
    OBVIOUS
<1> HIDE DEF kept
<1>14. /\ store' \in [policy : RecordPolicies, records : Seq(Records), archive : Seq(Records)]
       /\ store'.records = rest /\ store'.archive = kept
    BY <1>2, <1>3, <1>9, <1>13
<1> HIDE DEF m, s
<1>15. /\ d \in 0..(Len(pushed) - Gone) /\ m - d = Len(pushed) - Gone - d
       /\ Len(pushed) <= Len(pushed)
    <2> DEFINE n == Len(pushed)
    <2>1. n \in Nat /\ n = Gone + m
      BY <1>1
    <2> HIDE DEF n
    <2>2. d \in 0..(n - Gone) /\ m - d = n - Gone - d /\ n <= n
      BY <1>1, <1>8, <2>1
    <2> QED
      BY <2>2 DEF n
<1>16. ASSUME NEW k \in 1..Len(rest) PROVE rest[k] = pushed[Gone + d + k]
  <2>1. k \in 1..(m - d) /\ d + k \in 1..m /\ Gone + (d + k) = Gone + d + k
    BY <1>1, <1>9
  <2> QED
    BY <1>1, <1>9, <2>1
<1>17. \A i \in 1..Len(pushed) : pushed'[i] = pushed[i]
    BY <1>2
<1>18. HistoryInv' /\ ExportInv'
    BY <1>2, <1>3, <1>9, <1>13, <1>14, <1>15, <1>16, <1>17, HistoryStep
<1>19. Gone' = Gone + d /\ d \in Nat
  <2> DEFINE n == Len(pushed)
  <2>1. Gone' = n - (m - d) /\ n = Gone + m /\ n \in Nat
    BY <1>1, <1>2, <1>9, <1>14 DEF Gone
  <2> HIDE DEF n
  <2> QED
    BY <1>1, <1>8, <2>1
<1>20. AccountInv'
  <2>1. pushed' = pushed /\ discarded' = discarded /\ store'.archive = store.archive \o archived
    BY <1>2, <1>14, <1>c
  <2> QED
    BY <1>10, <1>18, <1>19, <1>a, <1>b, <2>1, FilingAccounted
<1> QED
    BY <1>18, <1>20

\* Clearing the archive does not touch the history.
LEMMA ArchiveCleared ==
    ASSUME HistoryInv, ExportInv, AccountInv, ClearArchive
    PROVE  HistoryInv' /\ ExportInv' /\ AccountInv'
<1>1. /\ store' = [store EXCEPT !.archive = <<>>]
      /\ hostTime' = hostTime /\ export' = export /\ pushed' = pushed
      /\ discarded' = discarded \cup ToSet(store.archive)
    BY DEF ClearArchive
<1>2. store \in [policy : RecordPolicies, records : Seq(Records), archive : Seq(Records)]
    BY DEF HistoryInv
<1>3. <<>> \in Seq(Records) /\ 1..Len(<<>>) = {}
    BY EmptySeq
<1>4. /\ store' \in [policy : RecordPolicies, records : Seq(Records), archive : Seq(Records)]
      /\ store'.records = store.records /\ store'.archive = <<>> /\ Gone' = Gone
    BY <1>1, <1>2, <1>3 DEF Gone
<1>5. HistoryInv'
    BY <1>1, <1>3, <1>4 DEF HistoryInv
<1>6. ExportInv'
    BY <1>1, <1>4 DEF ExportInv
<1>7. AccountInv'
  <2>1. ToSet(<<>>) = {}
    BY DEF ToSet
  <2>2. \A r \in ToSet(store.archive) : \E i \in 1..Gone : r = pushed[i]
    <3> SUFFICES ASSUME NEW r \in ToSet(store.archive) PROVE \E i \in 1..Gone : r = pushed[i]
      OBVIOUS
    <3>1. r.id + 1 \in 1..Gone /\ r = pushed[r.id + 1]
      BY ArchivePlaces
    <3> QED
      BY <3>1
  <2>3. /\ \A r \in discarded' : \E i \in 1..Gone : r = pushed[i]
        /\ \A i \in 1..Gone : pushed[i] \in discarded' /\ pushed[i] \notin ToSet(<<>>)
    BY <1>1, <2>1, <2>2 DEF AccountInv
  <2> QED
    BY <1>1, <1>3, <1>4, <2>3 DEF AccountInv
<1> QED
    BY <1>5, <1>6, <1>7

\* A page goes on where the one before ended.
LEMMA PageTaken ==
    ASSUME HistoryInv, ExportInv, AccountInv, HostStoreConstants, ExportPage
    PROVE  HistoryInv' /\ ExportInv' /\ AccountInv'
<1> DEFINE s == store.records
           m == Len(s)
           c == export.cursor
           end == Min({c + PageSize, m})
           taken == SubSeq(s, c + 1, end)
           page == Page(s, c, PageSize)
           got == export.got \o page.records
           from == IF export.state = "idle" THEN s ELSE export.from
           g == Len(export.got)
<1>1. HistoryInv' /\ store' = store /\ pushed' = pushed /\ Gone' = Gone
    BY DEF ExportPage, HistoryInv, Gone
<1>2. /\ Gone \in Nat /\ Len(pushed) \in Nat /\ m \in Nat /\ Len(pushed) = Gone + m
      /\ s \in Seq(Records)
      /\ \A i \in 1..m : s[i] = pushed[Gone + i]
    BY HistoryPlaces
<1>3. export \in [cursor : Nat, got : Seq(Records), from : Seq(Records),
                  state : {"idle", "paging", "done"}]
    BY DEF ExportInv
<1>4. c \in Nat /\ export.got \in Seq(Records) /\ g \in Nat /\ export.from \in Seq(Records)
    BY <1>3
<1>5. export' = [cursor |-> page.next, got |-> got, from |-> from,
                 state |-> IF page.more THEN "paging" ELSE "done"]
    BY DEF ExportPage
<1>6. from \in Seq(Records)
    BY <1>2, <1>4
<1>7. PageSize \in Nat /\ PageSize > 0
    BY DEF HostStoreConstants
<1>8. end = IF c + PageSize <= m THEN c + PageSize ELSE m
  <2> DEFINE x == c + PageSize
  <2>1. x \in Int /\ m \in Int
    BY <1>2, <1>4, <1>7
  <2> HIDE DEF x, m
  <2> QED
    BY <2>1, MinMaxOfTwo DEF x
<1>9. /\ c >= m => page = [records |-> <<>>, next |-> c, more |-> FALSE]
      /\ ~(c >= m) => page = [records |-> taken, next |-> end, more |-> end < m]
    BY DEF Page
<1> HIDE DEF end, page, c, m, from
<1>10. ~(c >= m) => c < m /\ c < end /\ end <= m /\ end \in Nat /\ c <= end
    BY <1>2, <1>4, <1>7, <1>8
<1>11. ~(c >= m) => /\ taken \in Seq(Records) /\ Len(taken) = end - c
                    /\ \A k \in 1..(end - c) : taken[k] = s[c + k]
  <2> SUFFICES ASSUME ~(c >= m)
               PROVE  /\ taken \in Seq(Records) /\ Len(taken) = end - c
                      /\ \A k \in 1..(end - c) : taken[k] = s[c + k]
    OBVIOUS
  <2>1. s \in Seq(Records) /\ c \in Nat /\ end \in Nat /\ c <= end /\ end <= Len(s)
    BY <1>2, <1>4, <1>10 DEF m
  <2> HIDE DEF s
  <2> QED
    BY ONLY <2>1, PartOf
<1>12. /\ page.records \in Seq(Records) /\ page.next \in Nat
       /\ c >= m => page.next = c /\ page.records = <<>> /\ page.more = FALSE
       /\ ~(c >= m) => page.next = end /\ page.records = taken /\ page.more = (end < m)
  <2> HIDE DEF taken
  <2>1. c >= m => page.next = c /\ page.records = <<>> /\ page.more = FALSE
    BY <1>9
  <2>2. ~(c >= m) => page.next = end /\ page.records = taken /\ page.more = (end < m)
    <3> DEFINE ends == end < m
    <3>1. ~(c >= m) => page = [records |-> taken, next |-> end, more |-> ends]
      BY <1>9
    <3> HIDE DEF ends
    <3>2. ~(c >= m) => page.next = end /\ page.records = taken /\ page.more = ends
      BY <3>1
    <3> QED
      BY <3>2 DEF ends
  <2>3. c \in Nat /\ <<>> \in Seq(Records)
    BY <1>4, EmptySeq
  <2>4. ~(c >= m) => taken \in Seq(Records) /\ end \in Nat
    BY <1>10, <1>11
  <2>5. page.records \in Seq(Records) /\ page.next \in Nat
    BY <2>1, <2>2, <2>3, <2>4
  <2> QED
    BY <2>1, <2>2, <2>5, Zenon
<1>13. /\ got \in Seq(Records) /\ Len(got) = g + Len(page.records)
       /\ \A i \in 1..(g + Len(page.records)) :
             got[i] = IF i <= g THEN export.got[i] ELSE page.records[i - g]
  <2> DEFINE a == export.got
             b == page.records
  <2>1. a \in Seq(Records) /\ b \in Seq(Records)
    BY <1>4, <1>12
  <2> HIDE DEF a, b
  <2>2. /\ a \o b \in Seq(Records) /\ Len(a \o b) = Len(a) + Len(b)
        /\ \A i \in 1..(Len(a) + Len(b)) : (a \o b)[i] = IF i <= Len(a) THEN a[i] ELSE b[i - Len(a)]
    BY ONLY <2>1, ConcatProperties
  <2> QED
    BY <2>2 DEF a, b
<1> HIDE DEF got, g, s
<1>14. /\ export' \in [cursor : Nat, got : Seq(Records), from : Seq(Records),
                       state : {"idle", "paging", "done"}]
       /\ export'.cursor = page.next /\ export'.got = got /\ export'.from = from
       /\ export'.state = "paging" <=> page.more
       /\ export'.state # "idle"
       /\ export'.state = "done" <=> ~page.more
    BY <1>5, <1>6, <1>12, <1>13
<1>15. ASSUME from = <<>> PROVE got = <<>> /\ ~page.more
  <2>1. export.got = <<>> /\ g = 0
    <3>1. export.got = <<>>
      BY <1>15 DEF ExportInv, from
    <3> QED
      BY <3>1 DEF g
  <2>2. CASE export.state = "idle"
    <3>1. s = <<>> /\ m = 0 /\ c = 0
      <4>1. s = <<>> /\ c = 0
        BY <1>15, <2>2 DEF from, ExportInv, c
      <4> QED
        BY <4>1 DEF m
    <3>2. page.records = <<>> /\ ~page.more
      BY <1>12, <3>1
    <3>3. got = <<>> \o <<>>
      BY <2>1, <3>2 DEF got
    <3> QED
      BY <3>2, <3>3
  <2>3. CASE export.state # "idle"
    <3>1. export.from = <<>>
      BY <1>15, <2>3 DEF from
    <3>2. export.state # "paging" /\ export.state # "done"
      BY <3>1, <1>3 DEF ExportInv, ExportPage
    <3> QED
      BY <1>3, <2>3, <3>2
  <2> QED
    BY <2>2, <2>3
<1>16. ASSUME from # <<>>
       PROVE  \E low \in 0..Gone :
                 /\ low + Len(from) <= Len(pushed)
                 /\ \A i \in 1..Len(from) : from[i] = pushed[low + i]
                 /\ low = Gone =>
                       /\ page.next = Len(got)
                       /\ Len(got) <= m
                       /\ \A i \in 1..Len(got) : got[i] = s[i]
                       /\ ~page.more => Len(got) >= Len(from)
  <2>1. PICK low \in 0..Gone :
            /\ low + Len(from) <= Len(pushed)
            /\ \A i \in 1..Len(from) : from[i] = pushed[low + i]
            /\ low = Gone => c = g /\ g <= m /\ \A i \in 1..g : export.got[i] = s[i]
    <3>1. CASE export.state = "idle"
      <4>1. from = s /\ g = 0 /\ c = 0
        <5>1. export.got = <<>> /\ from = s /\ c = 0
          BY <3>1 DEF from, ExportInv, c
        <5> QED
          BY <5>1 DEF g
      <4>2. Gone \in 0..Gone /\ Gone + Len(from) <= Len(pushed)
        <5> DEFINE n == Len(pushed)
        <5>1. n \in Nat /\ n = Gone + m /\ Len(from) = m
          BY <1>2, <4>1 DEF m
        <5> HIDE DEF n
        <5>2. Gone + m <= n
          BY <1>2, <5>1
        <5> QED
          BY <1>2, <5>1, <5>2 DEF n
      <4>3. \A i \in 1..Len(from) : from[i] = pushed[Gone + i]
        BY <1>2, <4>1 DEF m
      <4>4. g <= m /\ 1..g = {}
        BY <1>2, <4>1
      <4> QED
        BY <4>1, <4>2, <4>3, <4>4
    <3>2. CASE export.state # "idle"
      <4>1. from = export.from
        BY <3>2 DEF from
      <4> QED
        BY <1>16, <4>1 DEF ExportInv, c, g, s, m
    <3> QED
      BY <3>1, <3>2
  <2>2. ASSUME low = Gone
        PROVE  /\ page.next = Len(got) /\ Len(got) <= m
               /\ \A i \in 1..Len(got) : got[i] = s[i]
               /\ ~page.more => Len(got) >= Len(from)
    <3>1. c = g /\ g <= m /\ \A i \in 1..g : export.got[i] = s[i]
      BY <2>1, <2>2
    <3>2. Len(from) \in Nat /\ Len(from) <= m
      <4> DEFINE n == Len(pushed)
                 f == Len(from)
      <4>1. n \in Nat /\ f \in Nat /\ n = Gone + m /\ Gone + f <= n
        BY <1>2, <1>6, <2>1, <2>2
      <4> HIDE DEF n, f
      <4>2. f <= m
        BY <1>2, <4>1
      <4> QED
        BY <4>1, <4>2 DEF f
    <3>3. CASE c >= m
      <4>1. page.next = c /\ page.records = <<>> /\ Len(page.records) = 0
        BY <1>12, <3>3
      <4>2. Len(got) = g /\ \A i \in 1..g : got[i] = export.got[i]
        BY <1>4, <1>13, <4>1 DEF g
      <4>3. g = m
        BY <1>2, <1>4, <3>1, <3>3
      <4> QED
        BY <1>2, <3>1, <3>2, <4>1, <4>2, <4>3
    <3>4. CASE ~(c >= m)
      <4>1. page.next = end /\ page.records = taken /\ (page.more <=> end < m)
            /\ Len(page.records) = end - c /\ \A k \in 1..(end - c) : page.records[k] = s[c + k]
        BY <1>11, <1>12, <3>4
      <4> DEFINE t == page.records
      <4>2. Len(got) = end /\ \A i \in 1..end : got[i] = IF i <= g THEN export.got[i] ELSE t[i - g]
        <5>1. Len(got) = g + Len(t)
              /\ \A i \in 1..(g + Len(t)) : got[i] = IF i <= g THEN export.got[i] ELSE t[i - g]
          BY <1>13
        <5>2. g + Len(t) = end
          BY <1>4, <1>10, <3>1, <3>4, <4>1
        <5> HIDE DEF t
        <5> QED
          BY <5>1, <5>2
      <4>3. ASSUME NEW i \in 1..end PROVE got[i] = s[i]
        <5>0. end \in Nat /\ g \in Nat /\ c = g
          BY <1>4, <1>10, <3>1, <3>4
        <5>1. CASE i <= g
          <6>1. i \in 1..g
            BY <5>0, <5>1
          <6> QED
            BY <3>1, <4>2, <5>1, <6>1
        <5>2. CASE ~(i <= g)
          <6>1. i - g \in 1..(end - c) /\ c + (i - g) = i
            BY <5>0, <5>2
          <6>2. t[i - g] = s[c + (i - g)]
            BY <4>1, <6>1
          <6> HIDE DEF t
          <6> QED
            BY <4>2, <5>2, <6>1, <6>2
        <5> QED
          BY <5>1, <5>2
      <4>4. ~page.more => end >= Len(from)
        BY <1>2, <1>10, <3>2, <3>4, <4>1
      <4> QED
        BY <1>10, <3>4, <4>1, <4>2, <4>3, <4>4
    <3> QED
      BY <3>3, <3>4
  <2> QED
    BY <2>1, <2>2
<1>17. ExportInv'
  <2>1. Len(store'.records) = m /\ store'.records = s /\ Gone' = Gone /\ pushed' = pushed
    BY <1>1 DEF m, s
  <2> QED
    BY <1>14, <1>15, <1>16, <2>1 DEF ExportInv
<1>18. AccountInv'
    BY <1>1 DEF AccountInv, ExportPage
<1> QED
    BY <1>1, <1>17, <1>18

\* Time passes.
LEMMA HostTicks == StoreInv /\ HostTick => StoreInv'
<1> SUFFICES ASSUME StoreInv, HostTick PROVE StoreInv'
    OBVIOUS
<1>1. /\ hostTime \in Nat /\ hostTime' = hostTime + 1
      /\ dedup' = dedup /\ lastRun' = lastRun /\ served' = served /\ guard' = guard /\ accepts' = accepts
      /\ store' = store /\ pushed' = pushed /\ discarded' = discarded /\ export' = export
    BY DEF StoreInv, DedupInv, HostTick, dedupVars, guardVars, recordVars
<1>2. DedupInv'
  <2>1. \A k \in Requests : hostTime >= lastRun[k].at + DedupTtl => hostTime' >= lastRun[k].at + DedupTtl
    <3> SUFFICES ASSUME NEW k \in Requests PROVE hostTime >= lastRun[k].at + DedupTtl
                                                 => hostTime' >= lastRun[k].at + DedupTtl
      OBVIOUS
    <3>1. lastRun[k].at \in Nat /\ DedupTtl \in Nat
      BY HostStoreConstants DEF StoreInv, DedupInv, Results, HostStoreConstants
    <3> QED
      BY <1>1, <3>1
  <2>2. hostTime' \in Nat
    BY <1>1
  <2> QED
    BY <1>1, <2>1, <2>2 DEF StoreInv, DedupInv
<1>3. GuardInv'
  <2>1. ASSUME NEW k \in Requests, NEW i \in 1..Len(accepts[k])
        PROVE  /\ accepts[k][i] <= hostTime'
               /\ \/ \E e \in ToSet(guard.seen) : e.id = k /\ e.at >= accepts[k][i]
                  \/ guard.window > 0 /\ hostTime' - accepts[k][i] > guard.window
    <3>1. accepts[k] \in Seq(Nat) /\ guard.window \in Nat
      BY DEF StoreInv, GuardInv
    <3>2. accepts[k][i] \in Nat
      BY <3>1, ElementOfSeq
    <3>3. /\ accepts[k][i] <= hostTime
          /\ \/ \E e \in ToSet(guard.seen) : e.id = k /\ e.at >= accepts[k][i]
             \/ guard.window > 0 /\ hostTime - accepts[k][i] > guard.window
      BY DEF StoreInv, GuardInv
    <3>4. hostTime - accepts[k][i] > guard.window => hostTime' - accepts[k][i] > guard.window
      BY <1>1, <3>1, <3>2, SMTT(20)
    <3>5. accepts[k][i] <= hostTime'
      BY <1>1, <3>2, <3>3
    <3> QED
      BY <3>3, <3>4, <3>5
  <2>2. hostTime' \in Nat
    BY <1>1
  <2> QED
    BY <1>1, <2>1, <2>2 DEF StoreInv, GuardInv
<1>4. HistoryInv' /\ ExportInv'
  <2>1. Gone' = Gone /\ hostTime' \in Nat
    BY <1>1 DEF Gone
  <2>2. ASSUME NEW i \in 1..Len(pushed) PROVE pushed[i].at <= hostTime'
    <3>1. pushed[i] \in Records /\ pushed[i].at <= hostTime
      BY ElementOfSeq DEF StoreInv, HistoryInv
    <3> QED
      BY <1>1, <3>1 DEF Records
  <2>3. HistoryInv'
    BY <1>1, <2>1, <2>2 DEF StoreInv, HistoryInv
  <2>4. ExportInv'
    BY <1>1, <2>1 DEF StoreInv, ExportInv
  <2> QED
    BY <2>3, <2>4
<1>5. ServedInv'
  <2>1. \A k \in Requests : lastRun[k].at <= hostTime'
    <3> SUFFICES ASSUME NEW k \in Requests PROVE lastRun[k].at <= hostTime'
      OBVIOUS
    <3>1. lastRun[k].at \in Nat /\ lastRun[k].at <= hostTime
      BY DEF StoreInv, DedupInv, ServedInv, Results
    <3> QED
      BY <1>1, <3>1
  <2> QED
    BY <1>1, <2>1 DEF StoreInv, ServedInv
<1>6. AccountInv'
    BY <1>1 DEF StoreInv, AccountInv, Gone
<1> QED
    BY <1>2, <1>3, <1>4, <1>5, <1>6 DEF StoreInv

\* Nothing is stored at first.
LEMMA StoreInvInit == HostStoreInit => StoreInv
<1> SUFFICES ASSUME HostStoreInit PROVE StoreInv
    OBVIOUS
<1> USE HostStoreConstants DEF HostStoreConstants
<1>1. DedupInv
  <2> DEFINE none == [k \in {} |-> NoRun]
  <2>1. none \in [{} -> [result : {"ok", "err"}, expires : Nat]] /\ DOMAIN none = {}
    OBVIOUS
  <2>2. none \in ResultMaps
    <3> HIDE DEF none
    <3> QED
      BY <2>1 DEF ResultMaps
  <2>3. dedup.size \in Nat /\ dedup.entries = none /\ dedup \in [size : Nat, entries : ResultMaps]
    <3> HIDE DEF none
    <3>1. dedup \in [size : DedupSizes, entries : {none}]
      BY DEF HostStoreInit, none
    <3> QED
      BY <2>2, <3>1
  <2>4. IsFiniteSet(DOMAIN none) /\ Cardinality(DOMAIN none) = 0
    BY <2>1, FS_EmptySet
  <2>5. lastRun \in [Requests -> Results] /\ (\A k \in Requests : lastRun[k] = NoRun) /\ hostTime \in Nat
    BY DEF HostStoreInit, NoRun, Results
  <2> HIDE DEF none
  <2> QED
    BY <2>3, <2>4, <2>5 DEF DedupInv
<1>a. ServedInv
  <2>1. lastRun = [k \in Requests |-> NoRun] /\ served = lastRun /\ hostTime = 1
        /\ dedup.entries = [k \in {} |-> NoRun]
    BY DEF HostStoreInit
  <2>2. served \in [Requests -> Results] /\ \A k \in Requests : served[k] = NoRun
    BY <2>1 DEF NoRun, Results
  <2>3. DOMAIN dedup.entries = {} /\ \A k \in Requests : lastRun[k].at <= hostTime
    BY <2>1 DEF NoRun
  <2> QED
    BY <2>2, <2>3 DEF ServedInv
<1>2. GuardInv
  <2>1. guard \in [window : GuardWindows, seen : {<<>>}] /\ hostTime = 1
        /\ accepts = [k \in Requests |-> <<>>]
    BY DEF HostStoreInit
  <2>2. <<>> \in Seq(Sightings) /\ <<>> \in Seq(Nat) /\ 1..Len(<<>>) = {}
    BY EmptySeq
  <2>3. guard \in [window : Nat, seen : Seq(Sightings)] /\ accepts \in [Requests -> Seq(Nat)]
    BY <2>1, <2>2
  <2>4. \A k \in Requests : 1..Len(accepts[k]) = {}
    BY <2>1, <2>2
  <2> QED
    BY <2>1, <2>3, <2>4 DEF GuardInv
<1>3. HistoryInv /\ ExportInv /\ AccountInv
  <2>1. /\ store \in [policy : RecordPolicies, records : {<<>>}, archive : {<<>>}]
        /\ pushed = <<>> /\ export = NoExport /\ hostTime = 1 /\ discarded = {}
    BY DEF HostStoreInit
  <2>2. <<>> \in Seq(Records) /\ Len(<<>>) = 0 /\ 1..0 = {}
    BY EmptySeq
  <2>3. store \in [policy : RecordPolicies, records : Seq(Records), archive : Seq(Records)]
        /\ store.records = <<>> /\ store.archive = <<>>
    BY <2>1, <2>2
  <2>4. Gone = 0
    BY <2>1, <2>2, <2>3 DEF Gone
  <2>5. HistoryInv
    BY <2>1, <2>2, <2>3, <2>4 DEF HistoryInv
  <2>6. export \in [cursor : Nat, got : Seq(Records), from : Seq(Records),
                    state : {"idle", "paging", "done"}]
    BY <2>1, <2>2 DEF NoExport
  <2>7. export.cursor = 0 /\ export.got = <<>> /\ export.from = <<>> /\ export.state = "idle"
    BY <2>1 DEF NoExport
  <2>8. ExportInv
    BY <2>6, <2>7 DEF ExportInv
  <2>9. AccountInv
    <3>1. 1..Gone = {} /\ 1..Len(store.archive) = {}
      BY <2>2, <2>3, <2>4
    <3> QED
      BY <2>1, <3>1 DEF AccountInv
  <2> QED
    BY <2>5, <2>8, <2>9
<1> QED
    BY <1>1, <1>a, <1>2, <1>3 DEF StoreInv

\* What a step on one store does not touch keeps its invariant.
LEMMA StoresApart ==
    /\ DedupInv /\ ServedInv /\ UNCHANGED <<hostTime, dedupVars>> => DedupInv' /\ ServedInv'
    /\ GuardInv /\ UNCHANGED <<hostTime, guardVars>> => GuardInv'
    /\ HistoryInv /\ ExportInv /\ AccountInv /\ UNCHANGED <<hostTime, recordVars>>
          => HistoryInv' /\ ExportInv' /\ AccountInv'
<1>1. DedupInv /\ ServedInv /\ UNCHANGED <<hostTime, dedupVars>> => DedupInv' /\ ServedInv'
    BY DEF DedupInv, ServedInv, dedupVars
<1>2. GuardInv /\ UNCHANGED <<hostTime, guardVars>> => GuardInv'
    BY DEF GuardInv, guardVars
<1>3. HistoryInv /\ ExportInv /\ AccountInv /\ UNCHANGED <<hostTime, recordVars>>
          => HistoryInv' /\ ExportInv' /\ AccountInv'
  <2> SUFFICES ASSUME HistoryInv, ExportInv, AccountInv, UNCHANGED <<hostTime, recordVars>>
               PROVE  HistoryInv' /\ ExportInv' /\ AccountInv'
    OBVIOUS
  <2>1. Gone' = Gone /\ hostTime' = hostTime /\ store' = store /\ pushed' = pushed /\ export' = export
        /\ discarded' = discarded
    BY DEF recordVars, Gone
  <2>2. HistoryInv'
    BY <2>1 DEF HistoryInv
  <2>3. ExportInv'
    BY <2>1 DEF ExportInv
  <2>4. AccountInv'
    BY <2>1 DEF AccountInv
  <2> QED
    BY <2>2, <2>3, <2>4
<1> QED
    BY <1>1, <1>2, <1>3

\* Every step keeps the stores' invariant.
LEMMA StoreInvStep == StoreInv /\ [HostStoreNext]_hostStoreVars => StoreInv'
<1> SUFFICES ASSUME StoreInv, [HostStoreNext]_hostStoreVars PROVE StoreInv'
    OBVIOUS
<1>0. /\ DedupInv /\ ServedInv /\ GuardInv /\ HistoryInv /\ ExportInv /\ AccountInv
      /\ HostStoreConstants
    BY HostStoreConstants DEF StoreInv
<1>1. CASE UNCHANGED hostStoreVars
    BY <1>0, <1>1, StoresApart DEF hostStoreVars, StoreInv
<1>2. CASE HostTick
    BY <1>2, HostTicks
<1>3. CASE DedupNext
  <2>1. UNCHANGED <<hostTime, guardVars, recordVars>>
    BY <1>3 DEF DedupNext, ExecuteDeduplicated, RecordDirectly, PurgeExpired
  <2>2. hostTime' = hostTime
    BY <2>1
  <2>3. ASSUME NEW k \in Requests, NEW result \in {"ok", "err"}, RecordResult(k, result)
        PROVE  DedupInv' /\ ServedInv'
    BY <1>0, <2>2, <2>3, RecordedResult, ServedRecorded
  <2>4. ASSUME NEW k \in Requests, NEW result \in {"ok", "err"}, ExecuteDeduplicated(k, result)
        PROVE  DedupInv' /\ ServedInv'
    <3>1. CASE IsDuplicate(k)
      <4>1. /\ dedup' = dedup /\ lastRun' = lastRun
            /\ served' = [served EXCEPT ![k] = [at |-> hostTime, result |-> result]]
        BY <2>4, <3>1 DEF ExecuteDeduplicated
      <4> QED
        BY <1>0, <2>2, <3>1, <4>1, ServedDuplicate
    <3>2. CASE ~IsDuplicate(k)
      BY <2>3, <2>4, <3>2 DEF ExecuteDeduplicated
    <3> QED
      BY <3>1, <3>2
  <2>5. DedupInv' /\ ServedInv'
    BY <1>0, <1>3, <2>3, <2>4, ResultsPurged, ServedPurged DEF DedupNext, RecordDirectly
  <2> QED
    BY <1>0, <2>1, <2>5, StoresApart DEF StoreInv
<1>4. CASE GuardNext
  <2>1. UNCHANGED <<hostTime, dedupVars, recordVars>>
    BY <1>4 DEF GuardNext, ResetGuard, CheckReplay, Forget
  <2>2. GuardInv'
    BY <1>0, <1>4, ReplayChecked, GuardForgets DEF GuardNext
  <2> QED
    BY <1>0, <2>1, <2>2, StoresApart DEF StoreInv
<1>5. CASE RecordNext
  <2>1. UNCHANGED <<hostTime, dedupVars, guardVars>>
    BY <1>5 DEF RecordNext, PushRecord, SetRetentionPolicy, ArchiveBefore, ClearArchive, ExportPage
  <2>2. HistoryInv' /\ ExportInv' /\ AccountInv'
    BY <1>0, <1>5, RecordPushed, PolicySet, RecordsArchived, ArchiveCleared, PageTaken DEF RecordNext
  <2> QED
    BY <1>0, <2>1, <2>2, StoresApart DEF StoreInv
<1> QED
    BY <1>1, <1>2, <1>3, <1>4, <1>5 DEF HostStoreNext

\* The invariant says what the stores promise.
LEMMA InvKeepsStores == StoreInv => StoresSound
<1> SUFFICES ASSUME StoreInv PROVE StoresSound
    OBVIOUS
<1>0. DedupInv /\ ServedInv /\ GuardInv /\ HistoryInv /\ ExportInv /\ AccountInv
    BY DEF StoreInv
<1>1. ReacceptedOnlyAfterExpiry
  <2>1. ASSUME NEW k \in Requests, lastRun[k] # NoRun, hostTime < lastRun[k].at + DedupTtl
        PROVE  CachedResult(k) = lastRun[k].result
    <3>1. lastRun[k].at \in Nat /\ DedupTtl \in Nat /\ hostTime \in Nat
      BY <1>0, HostStoreConstants DEF DedupInv, Results, HostStoreConstants
    <3>2. ~(hostTime >= lastRun[k].at + DedupTtl)
      BY <2>1, <3>1
    <3>3. /\ k \in DOMAIN dedup.entries
          /\ dedup.entries[k].result = lastRun[k].result
          /\ dedup.entries[k].expires = lastRun[k].at + DedupTtl
      BY <1>0, <2>1, <3>2 DEF DedupInv
    <3>4. IsDuplicate(k)
      BY <2>1, <3>1, <3>3 DEF IsDuplicate, LiveResults
    <3> QED
      BY <3>3, <3>4 DEF CachedResult
  <2>2. \A k \in Requests : DOMAIN accepts[k] = 1..Len(accepts[k])
    BY <1>0 DEF GuardInv
  <2> QED
    BY <1>0, <2>1, <2>2 DEF ReacceptedOnlyAfterExpiry, DedupInv, ServedInv, GuardInv
<1>2. HistoryAccounted
  <2> DEFINE s == store.records
             a == store.archive
             m == Len(s)
             from == export.from
             got == export.got
  <2>1. /\ Gone \in Nat /\ m \in Nat /\ s \in Seq(Records) /\ a \in Seq(Records)
        /\ \A i \in 1..m : s[i] = pushed[Gone + i] /\ s[i].id = Gone + i - 1
        /\ \A i \in 1..Len(a) : a[i].id < Gone
        /\ Len(pushed) = Gone + m
    BY <1>0, HistoryPlaces DEF HistoryInv
  <2>2. DOMAIN s = 1..m /\ DOMAIN a = 1..Len(a)
    BY <2>1
  <2>3. from \in Seq(Records) /\ got \in Seq(Records) /\ Len(from) \in Nat /\ Len(got) \in Nat
    BY <1>0 DEF ExportInv
  <2> HIDE DEF s, a, m, from, got
  <2>4. \A i, j \in DOMAIN s : i < j => s[i].id < s[j].id
    <3> SUFFICES ASSUME NEW i \in 1..m, NEW j \in 1..m, i < j PROVE s[i].id < s[j].id
      BY <2>2
    <3>1. s[i].id = Gone + i - 1 /\ s[j].id = Gone + j - 1
      BY <2>1
    <3>2. Gone + i - 1 < Gone + j - 1
      BY <2>1
    <3> QED
      BY <3>1, <3>2
  <2>6. ASSUME IsPrefix(from, s)
        PROVE  /\ export.state = "done" => IsPrefix(from, got)
               /\ IsPrefix(got, s)
    <3>1. Len(from) <= m /\ \A i \in 1..Len(from) : from[i] = s[i]
      BY <2>1, <2>3, <2>6, PrefixByPlace DEF m
    <3>2. CASE from = <<>>
      <4>1. got = <<>>
        BY <1>0, <3>2 DEF ExportInv, from, got
      <4>2. Len(from) = 0 /\ Len(got) = 0 /\ 1..0 = {}
        BY <3>2, <4>1
      <4>3. IsPrefix(got, s)
        <5>1. Len(got) <= Len(s) /\ \A i \in 1..Len(got) : got[i] = s[i]
          BY <2>1, <4>2 DEF m
        <5> QED
          BY <2>1, <2>3, <5>1, PrefixByPlace
      <4>4. IsPrefix(from, got)
        <5>1. Len(from) <= Len(got) /\ \A i \in 1..Len(from) : from[i] = got[i]
          BY <4>2
        <5> QED
          BY <2>3, <5>1, PrefixByPlace
      <4> QED
        BY <4>3, <4>4
    <3>3. CASE from # <<>>
      <4>1. PICK low \in 0..Gone :
               /\ low + Len(from) <= Len(pushed)
               /\ \A i \in 1..Len(from) : from[i] = pushed[low + i]
               /\ low = Gone =>
                     /\ export.cursor = Len(got)
                     /\ Len(got) <= m
                     /\ \A i \in 1..Len(got) : got[i] = s[i]
                     /\ export.state = "done" => Len(got) >= Len(from)
        BY <1>0, <3>3 DEF ExportInv, from, got, s, m
      <4>2. Len(from) >= 1 /\ 1 \in 1..Len(from)
        BY <2>3, <3>3, EmptySeq
      <4>3. 1 \in 1..m
        BY <2>1, <2>3, <3>1, <4>2
      <4>4. from[1] = pushed[low + 1] /\ from[1] = s[1] /\ s[1].id = Gone + 1 - 1
        BY <2>1, <3>1, <4>1, <4>2, <4>3
      <4>5. low + 1 \in 1..Len(pushed)
        <5> DEFINE n == Len(pushed)
        <5>1. n \in Nat /\ low + Len(from) <= n
          BY <2>1, <4>1
        <5> HIDE DEF n
        <5>2. low + 1 \in 1..n
          BY <2>1, <2>3, <4>1, <4>2, <5>1
        <5> QED
          BY <5>2 DEF n
      <4>6. pushed[low + 1].id = (low + 1) - 1
        BY <1>0, <4>5 DEF HistoryInv
      <4>7. low = Gone
        BY <2>1, <4>1, <4>4, <4>6
      <4>8. Len(got) <= m /\ (\A i \in 1..Len(got) : got[i] = s[i])
            /\ (export.state = "done" => Len(got) >= Len(from))
        BY <4>1, <4>7
      <4>9. IsPrefix(got, s)
        BY <2>1, <2>3, <4>8, PrefixByPlace DEF m
      <4>10. ASSUME export.state = "done" PROVE IsPrefix(from, got)
        <5>1. Len(from) <= Len(got)
          BY <2>3, <4>8, <4>10
        <5>2. \A i \in 1..Len(from) : i \in 1..Len(got)
          BY <2>3, <5>1
        <5>3. \A i \in 1..Len(from) : from[i] = got[i]
          BY <3>1, <4>8, <5>2
        <5> QED
          BY <2>3, <5>1, <5>3, PrefixByPlace
      <4> QED
        BY <4>9, <4>10
    <3> QED
      BY <3>2, <3>3
  <2>7. \A i, j \in DOMAIN a : i < j => a[i].id < a[j].id
    BY <1>0, <2>2 DEF AccountInv, a
  <2>8. /\ ToSet(pushed) = ToSet(s) \cup ToSet(a) \cup discarded
        /\ ToSet(s) \cap ToSet(a) = {} /\ (ToSet(s) \cup ToSet(a)) \cap discarded = {}
    <3> DEFINE n == Len(pushed)
    <3>1. /\ \A r : r \in ToSet(pushed) <=> \E i \in 1..n : pushed[i] = r
          /\ \A r : r \in ToSet(s) <=> \E i \in 1..m : s[i] = r
      <4>1. pushed \in Seq(Records)
        BY <1>0 DEF HistoryInv
      <4> QED
        BY <2>1, <4>1, NamedIn DEF m
    <3>2. /\ \A r \in ToSet(a) : \E i \in 1..Gone : r = pushed[i]
          /\ \A r \in discarded : \E i \in 1..Gone : r = pushed[i]
          /\ \A i \in 1..Gone : pushed[i] \in discarded <=> pushed[i] \notin ToSet(a)
      <4>1. \A r \in ToSet(a) : r.id + 1 \in 1..Gone /\ r = pushed[r.id + 1]
        BY <1>0, ArchivePlaces DEF a
      <4> QED
        BY <1>0, <4>1 DEF AccountInv, a
    <3>3. n = Gone + m /\ n \in Nat /\ Gone \in Nat /\ m \in Nat
      <4>1. pushed \in Seq(Records)
        BY <1>0 DEF HistoryInv
      <4> QED
        BY <2>1, <4>1, LenProperties
    <3>4. \A i \in 1..n : pushed[i].id = i - 1
      BY <1>0 DEF HistoryInv
    <3> HIDE DEF n
    <3>5. \A r : r \in ToSet(s) <=> \E i \in 1..n : i > Gone /\ pushed[i] = r
      <4>1. \A i \in 1..m : Gone + i \in 1..n /\ Gone + i > Gone
        BY <3>3
      <4>2. \A i \in 1..n : i > Gone => i - Gone \in 1..m /\ Gone + (i - Gone) = i
        BY <3>3
      <4>3. \A i \in 1..m : s[i] = pushed[Gone + i]
        BY <2>1
      <4> QED
        BY <3>1, <4>1, <4>2, <4>3
    <3>6. \A i \in 1..Gone : i \in 1..n /\ ~(i > Gone)
      BY <3>3
    <3>7. \A i \in 1..n : i > Gone \/ i \in 1..Gone
      BY <3>3
    <3>8. \A i \in 1..n, j \in 1..Gone : i > Gone => pushed[i] # pushed[j]
      BY <3>3, <3>4, <3>6
    <3>9. \A r \in ToSet(s) : ~\E j \in 1..Gone : r = pushed[j]
      BY <3>5, <3>8
    <3>10. \A r \in ToSet(pushed) : r \in ToSet(s) \/ r \in ToSet(a) \/ r \in discarded
      BY <3>1, <3>2, <3>5, <3>7
    <3>11. \A r : r \in ToSet(s) \/ r \in ToSet(a) \/ r \in discarded => r \in ToSet(pushed)
      BY <3>1, <3>2, <3>5, <3>6
    <3>12. \A r \in ToSet(a) : r \notin discarded
      BY <3>2
    <3>13. \A r \in ToSet(s) : r \notin ToSet(a) /\ r \notin discarded
      BY <3>2, <3>9
    <3> QED
      BY <3>10, <3>11, <3>12, <3>13
  <2> QED
    BY <2>4, <2>6, <2>7, <2>8 DEF HistoryAccounted, s, a, from, got
<1> QED
    BY <1>1, <1>2 DEF StoresSound

\* However requests, purges, retention, archival and pages follow each other, a recorded
\* result is served until it expires, an id is accepted again only beyond its window, and
\* the history and its export account for every record (request_deduplication.rs,
\* host_replay_prevention.rs, request_record.rs).
THEOREM StoresSoundHolds == HostStoreSpec => []StoresSound
<1> QED
    BY StoreInvInit, StoreInvStep, InvKeepsStores, PTL DEF HostStoreSpec
=============================================================================
