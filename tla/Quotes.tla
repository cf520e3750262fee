------------------------------- MODULE Quotes -------------------------------
(***************************************************************************)
(* Quotes and the schema migration that rewrites them in batches           *)
(* (src/contract.rs, src/migration.rs), composed with Governance.  Of a    *)
(* quote only what decides its fate is kept: its anchor, its validity, its *)
(* schema version, its routing reason and its lifecycle state.  Quote ids  *)
(* start at 1, so 0 stands for an id that is not stored.                   *)
(***************************************************************************)
EXTENDS Governance, Naturals, Sequences, FiniteSetsExt, SequencesExt

CONSTANTS
    Reason,       \* routing reasons
    NoReason,     \* None
    MaxValidity,  \* MAX_QUOTE_VALIDITY_SECONDS
    MaxQuotes,    \* bound on the quotes submitted
    MaxBatchSize, \* bound on the batch_size of migrate
    MaxTime       \* bound: the ledger timestamp stops here

ASSUME QuoteConstants ==
    /\ NoReason \notin Reason
    /\ MaxValidity \in Nat
    /\ MaxQuotes \in Nat
    /\ MaxBatchSize \in Nat
    /\ MaxTime \in Nat

VARIABLES
    time,        \* env.ledger().timestamp()
    quotes,      \* QUOTE and its lifecycle entry, by id; QCNT is its length
    quoteIndex,  \* QUOTE_INDEX
    purgeIndex,  \* QIDX, the index purge_expired_quotes works on
    latestQuote, \* LATESTQ
    version,     \* SCHEMAVER
    cursor,      \* MIGRATE_QUOTES_V2_CURSOR
    migrations,  \* the migration history
    migratedTo   \* quotes that existed when V2 was committed (ghost)

quoteStore == <<quotes, quoteIndex, purgeIndex, latestQuote>>
schemaStore == <<version, cursor, migrations, migratedTo>>
quoteVars == <<time, quoteStore, schemaStore>>

Quote == [anchor : Addr, validUntil : Nat, schema : {1, 2},
          reason : Reason \cup {NoReason}, lifecycle : {"Active", "Invalidated"}]

QuoteInit ==
    /\ GovInit
    /\ time = 0
    /\ quotes = <<>>
    /\ quoteIndex = <<>>
    /\ purgeIndex = <<>>
    /\ latestQuote = [a \in Addr |-> 0]
    /\ version = 0
    /\ cursor = 0
    /\ migrations = <<>>
    /\ migratedTo = 0

-----------------------------------------------------------------------------
(* Quotes *)

\* A bug QuotesSound must catch: the pointer is taken before the counter is advanced.
LatestPrevious(id) == id - 1

LatestId(id) == id

SubmitQuoteWithReason(anchor, validUntil, reason) ==
    LET id == Len(quotes) + 1
    IN  /\ id <= MaxQuotes
        /\ validUntil > time
        /\ validUntil - time <= MaxValidity
        /\ quotes' = Append(quotes,
             [anchor |-> anchor, validUntil |-> validUntil, schema |-> 1,
              reason |-> reason, lifecycle |-> "Active"])
        /\ quoteIndex' = Append(quoteIndex, id)
        /\ latestQuote' = [latestQuote EXCEPT ![anchor] = LatestId(id)]
        /\ UNCHANGED <<time, purgeIndex, schemaStore>>

InvalidateQuote(signer, id) ==
    /\ RequireAdmin(signer)
    /\ id \in 1..Len(quotes)
    /\ quotes' = [quotes EXCEPT ![id].lifecycle = "Invalidated"]
    /\ UNCHANGED <<time, quoteIndex, purgeIndex, latestQuote, schemaStore>>

Live(id) == quotes[id].validUntil > time /\ quotes[id].lifecycle = "Active"

\* The index it filters is stored under QIDX, which nothing else writes.
PurgeExpiredQuotes(signer) ==
    /\ RequireAdmin(signer)
    /\ purgeIndex' = SelectSeq(purgeIndex, Live)
    /\ UNCHANGED <<time, quotes, quoteIndex, latestQuote, schemaStore>>

QuoteTick ==
    /\ time < MaxTime
    /\ time' = time + 1
    /\ UNCHANGED <<quoteStore, schemaStore>>

-----------------------------------------------------------------------------
(* Schema migration *)

SchemaV1 == 1
SchemaV2 == 2

\* ALL_STEPS: <<required_from, produces>>
AllSteps == {<<SchemaV1, SchemaV2>>}

\* A bug UpgradeProgress must catch: a migration in progress is refused.
RefusesResumption(target) ==
    /\ cursor = 0
    /\ target > version
    /\ <<version, target>> \in AllSteps

\* validate_migration
ValidMigration(target) ==
    /\ target # 0
    /\ target <= SchemaV2
    /\ target > version
    /\ <<version, target>> \in AllSteps

\* Ids the batch still has to look at, and those of them it rewrites.
Ahead == {id \in ToSet(quoteIndex) : id > cursor}
Todo == {id \in Ahead : quotes[id].schema < SchemaV2}

\* A bug QuotesSound and UpgradeProgress must catch: one quote fewer than the cursor accounts for.
BatchTooShort(n) == {id \in Todo : Cardinality({j \in Todo : j <= id}) < n}

\* The ids one call rewrites: the n lowest.
Batch(n) == {id \in Todo : Cardinality({j \in Todo : j <= id}) <= n}

\* The loop stops at the first id it meets once n quotes are rewritten.
StopsEarly(n) ==
    /\ Cardinality(Todo) >= n
    /\ \E id \in Ahead : Cardinality({j \in Todo : j < id}) >= n

\* The last id processed before the loop stops: the n-th one rewritten.
LastProcessed(n) == CHOOSE id \in Todo : Cardinality({j \in Todo : j <= id}) = n

\* commit_version
CommitVersion(target) ==
    /\ version' = target
    /\ migrations' = Append(migrations, <<version, target>>)

\* migrate with migrate_quotes_to_v2: rewrites one batch, drops the reason of
\* every quote it rewrites, and commits the version once no id is left.
Migrate(signer, target, n) ==
    /\ initialized
    /\ RequireAdmin(signer)
    /\ ValidMigration(target)
    /\ n > 0
    /\ quotes' = [id \in DOMAIN quotes |->
                    IF id \in Batch(n)
                    THEN [quotes[id] EXCEPT !.schema = SchemaV2, !.reason = NoReason]
                    ELSE quotes[id]]
    /\ IF StopsEarly(n)
       THEN /\ cursor' = LastProcessed(n)
            /\ UNCHANGED <<version, migrations, migratedTo>>
       ELSE /\ cursor' = 0
            /\ CommitVersion(target)
            /\ migratedTo' = Len(quotes)
    /\ UNCHANGED <<time, quoteIndex, purgeIndex, latestQuote>>

\* initialize stamps SCHEMA_V1 (set_version); no other governance call
\* touches the version.
GovernanceCall ==
    /\ GovNext
    /\ version' = IF initialized' /\ ~initialized THEN SchemaV1 ELSE version
    /\ UNCHANGED <<time, quoteStore, cursor, migrations, migratedTo>>

-----------------------------------------------------------------------------
QuoteCall ==
    \/ QuoteTick
    \/ \E a \in Addr, until \in 0..(MaxTime + MaxValidity), r \in Reason \cup {NoReason} :
         SubmitQuoteWithReason(a, until, r)
    \/ \E signer \in Addr :
         \/ \E id \in 1..MaxQuotes : InvalidateQuote(signer, id)
         \/ PurgeExpiredQuotes(signer)

MigrateCall ==
    \E signer \in Addr, target \in 0..3, n \in 0..MaxBatchSize :
        Migrate(signer, target, n)

QuoteNext ==
    \/ (QuoteCall \/ MigrateCall) /\ UNCHANGED govVars
    \/ GovernanceCall

QuoteSpec == QuoteInit /\ [][QuoteNext]_<<govVars, quoteVars>>

-----------------------------------------------------------------------------
(* Properties *)

\* Types of the quote and migration storage of src/contract.rs.
QuoteTypeOK ==
    /\ time \in Nat
    /\ quotes \in Seq(Quote)
    /\ quoteIndex \in Seq(1..MaxQuotes)
    /\ latestQuote \in [Addr -> 0..MaxQuotes]
    /\ version \in 0..SchemaV2
    /\ cursor \in 0..MaxQuotes

\* LATESTQ, which routing reads, is the newest quote of the anchor, and the
\* index names every quote once, in id order.
LatestIsNewest ==
    /\ \A a \in Addr :
         latestQuote[a] = Max({0} \cup {id \in 1..Len(quotes) : quotes[id].anchor = a})
    /\ quoteIndex = [i \in 1..Len(quotes) |-> i]

\* An interrupted migration skips nothing, whatever quotes are submitted or
\* invalidated between its batches and whichever batch sizes its calls use:
\* everything up to the cursor is rewritten, nothing beyond it is, and the
\* version is committed only over rewritten quotes.
NothingSkipped ==
    /\ cursor # 0 => version = SchemaV1
    /\ \A id \in 1..Len(quotes) :
         quotes[id].schema = SchemaV2 <=> id <= cursor \/ id <= migratedTo

\* "Recorded history": the records form a chain from SCHEMA_V1 to the version
\* in force.
HistoryExplainsVersion ==
    /\ version = (IF migrations = <<>> THEN (IF initialized THEN SchemaV1 ELSE 0)
                                       ELSE migrations[Len(migrations)][2])
    /\ \A i \in 1..Len(migrations) :
         migrations[i][1] = IF i = 1 THEN SchemaV1 ELSE migrations[i - 1][2]

\* Quotes the upgrade still has to rewrite.
Backlog == Cardinality({id \in DOMAIN quotes : quotes[id].schema = SchemaV1})

\* What a step may do to an upgrade under way, however many quotes arrive meanwhile: it
\* commits the version over an empty backlog, or leaves a shorter one that is not empty,
\* or it is no call of migrate and leaves the upgrade alone; a submission lengthens the
\* backlog by its own quote.  So an operator commits in as many calls as there are quotes
\* left once anchors pause; but one quote between every two batches of one puts the
\* commit off for ever.
UpgradeAdvances ==
    version = SchemaV1 =>
        IF Len(quotes') > Len(quotes)
        THEN Backlog' = Backlog + 1 /\ UNCHANGED <<version, cursor>>
        ELSE \/ version' = SchemaV2 /\ Backlog' = 0
             \/ version' = SchemaV1 /\ 0 < Backlog' /\ Backlog' < Backlog
             \/ UNCHANGED <<version, cursor, Backlog>>

\* What the quotes and their migration promise: routing finds the newest quote,
\* an interrupted migration skips none, and its history explains the version.
QuotesSound == QuoteTypeOK /\ LatestIsNewest /\ NothingSkipped /\ HistoryExplainsVersion
=============================================================================
