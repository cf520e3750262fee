----------------------------- MODULE FirmQuotes -----------------------------
(***************************************************************************)
(* SEP-38 firm quotes on the host (src/sep38.rs): validation of what an    *)
(* anchor sends, the quote cache with its reconciliation, the choice and   *)
(* the order of quotes, and the history of fees.  Decimals are naturals,   *)
(* zero for one that is not positive; f64 arithmetic is taken as exact.    *)
(***************************************************************************)
EXTENDS Integers, Sequences, SequencesExt, FiniteSetsExt

CONSTANTS
    RawQuotes,      \* id (zero: blank), expires (zero: absent, zero or no number), price,
                    \* sell, buy, sellAsset, buyAsset
    Blank, Invalid, \* an asset code that is blank; one normalize_asset_code refuses
    MaxFuture,      \* MAX_REASONABLE_FUTURE
    QuoteTtls,      \* ttl_seconds given to the cache
    Reconciliation, \* near, drift (percent) and interval of a ReconciliationConfig
    MarketPrices,   \* zero: unknown
    QuoteKeys,      \* keys of the cache, and the anchors whose fees are observed
    Fees, FeeWindow, FeeThreshold,
    MaxObservations,
    MaxQuoteTime

ASSUME FirmQuoteConstants ==
    /\ {MaxFuture, FeeWindow, FeeThreshold, MaxObservations, MaxQuoteTime} \subseteq Nat
    /\ QuoteTtls \subseteq Nat /\ MarketPrices \subseteq Nat /\ Fees \subseteq Nat
    /\ Reconciliation \in [near : Nat, drift : Nat, interval : Nat]

VARIABLES
    quoteTime,
    quoteCache,    \* CachedQuoteEntry by key: quote, at, ttl
    lastRefresh,   \* last_refresh_timestamps
    current,       \* ghost: the last quote inserted for a key and not invalidated
    fees,          \* AnchorFeeHistory of each anchor
    observedFees   \* ghost: every observation made

quoteCacheVars == <<quoteCache, lastRefresh, current>>
feeVars == <<fees, observedFees>>
firmQuoteVars == <<quoteTime, quoteCacheVars, feeVars>>

NoQuote == [id |-> 0]

FirmQuoteInit ==
    /\ quoteTime = 1
    /\ quoteCache = [k \in {} |-> NoQuote] /\ lastRefresh = [k \in {} |-> 0]
    /\ current = [k \in QuoteKeys |-> NoQuote]
    /\ fees = [a \in QuoteKeys |-> <<>>] /\ observedFees = fees

-----------------------------------------------------------------------------
(* Validation *)

\* validate_quote_fields; stale comes before the numeric checks are reported.
RequestFirmQuote(raw, now) ==
    IF /\ raw.id # 0
       /\ raw.expires \in 1..(now + MaxFuture)
       /\ raw.price > 0 /\ raw.sell > 0 /\ raw.buy > 0
       /\ {raw.sellAsset, raw.buyAsset} \cap {Blank, Invalid} = {}
       /\ raw.sellAsset # raw.buyAsset
       /\ raw.expires > now
    THEN raw ELSE NoQuote

\* parse_partial_quote; two equal assets make every field missing.
MissingFields(raw) ==
    LET bad(f) == CASE f = "id" -> raw.id = 0
                    [] f = "expires" -> raw.expires = 0
                    [] f = "price" -> raw.price = 0
                    [] f = "sell" -> raw.sell = 0
                    [] f = "buy" -> raw.buy = 0
                    [] f \in {"sellAsset", "buyAsset"} ->
                         \/ raw[f] \in {Blank, Invalid}
                         \/ raw.sellAsset = raw.buyAsset
    IN  {f \in DOMAIN raw : bad(f)}

IntoFull(raw) == IF MissingFields(raw) = {} THEN raw ELSE NoQuote

\* A bug QuotesServedLive must catch: a quote still counts at its expiry.
ExpiredAfterEnd(q, now) == q.expires < now

IsQuoteExpired(q, now) == q.expires <= now

IsQuoteNearStale(q, now, threshold) == ~IsQuoteExpired(q, now) /\ q.expires - now < threshold

QuoteFreshness(q, now, threshold) ==
    CASE IsQuoteExpired(q, now) -> "Stale"
      [] IsQuoteNearStale(q, now, threshold) -> "NearStale"
      [] OTHER -> "Fresh"

\* request_firm_quote_with_freshness refuses a threshold the quote cannot outlive,
\* so what it returns is Fresh.
FreshQuote(raw, now, threshold) ==
    IF threshold > 0 /\ threshold >= raw.expires - now THEN NoQuote ELSE RequestFirmQuote(raw, now)

-----------------------------------------------------------------------------
(* ReconcilingQuoteCache *)

\* QuoteCache::get
CachedQuote(k) ==
    IF k \in DOMAIN quoteCache /\ quoteTime < quoteCache[k].at + quoteCache[k].ttl
    THEN quoteCache[k].quote ELSE NoQuote

\* reconcile_quote: the refresh interval changes nothing.
Reconcile(q, now, market) ==
    LET gap == IF market > q.price THEN market - q.price ELSE q.price - market IN
    CASE IsQuoteExpired(q, now) -> "NotSuitable"
      [] IsQuoteNearStale(q, now, Reconciliation.near) -> "ShouldRefresh"
      [] market > 0 /\ gap * 100 > Reconciliation.drift * q.price -> "ShouldRefresh"
      [] OTHER -> "Suitable"

GetWithReconciliation(k, market) ==
    LET q == CachedQuote(k)
    IN  IF q # NoQuote /\ Reconcile(q, quoteTime, market) = "Suitable" THEN q ELSE NoQuote

Put(f, k, v) == [x \in DOMAIN f \cup {k} |-> IF x = k THEN v ELSE f[x]]

InsertWithRefresh(k, raw, ttl) ==
    LET q == RequestFirmQuote(raw, quoteTime) IN
    /\ q # NoQuote
    /\ quoteCache' = Put(quoteCache, k, [quote |-> q, at |-> quoteTime, ttl |-> ttl])
    /\ lastRefresh' = Put(lastRefresh, k, quoteTime)
    /\ current' = [current EXCEPT ![k] = q]
    /\ UNCHANGED <<quoteTime, feeVars>>

MarkRefreshed(k) ==
    /\ CachedQuote(k) # NoQuote
    /\ lastRefresh' = Put(lastRefresh, k, quoteTime)
    /\ UNCHANGED <<quoteTime, quoteCache, current, feeVars>>

\* The refresh time of a key stays.
InvalidateQuoteKey(k) ==
    /\ k \in DOMAIN quoteCache
    /\ quoteCache' = [x \in DOMAIN quoteCache \ {k} |-> quoteCache[x]]
    /\ current' = [current EXCEPT ![k] = NoQuote]
    /\ UNCHANGED <<quoteTime, lastRefresh, feeVars>>

EvictStale ==
    /\ quoteCache' = LET live == {k \in DOMAIN quoteCache : CachedQuote(k) # NoQuote}
                     IN  [k \in live |-> quoteCache[k]]
    /\ quoteCache' # quoteCache
    /\ UNCHANGED <<quoteTime, lastRefresh, current, feeVars>>

-----------------------------------------------------------------------------
(* QuoteComparator and sort_quotes, over a sequence of quotes *)

Active(qs, now) == {i \in DOMAIN qs : ~IsQuoteExpired(qs[i], now)}

\* score, over the common denominator of the active quotes.
QuoteScore(q, qs, now, cost, expiry) ==
    LET price == Max({qs[i].price : i \in Active(qs, now)})
        margin == Max({qs[i].expires - now : i \in Active(qs, now)})
    IN  cost * (price - q.price) * margin + expiry * (q.expires - now) * price

\* select_best_quote, and with the penalty (percent) of near-stale quotes; the
\* first of several best; zero: none.
SelectBestQuote(qs, now, cost, expiry, near, penalty) ==
    LET score(i) == QuoteScore(qs[i], qs, now, cost, expiry)
                    * (IF IsQuoteNearStale(qs[i], now, near) THEN 100 - penalty ELSE 100)
        best == {i \in Active(qs, now) : \A j \in Active(qs, now) : score(i) >= score(j)}
    IN  IF best = {} THEN 0 ELSE Min(best)

\* Ties by id; quotes of one id keep their order (a stable sort).
SortQuotes(qs, order) ==
    LET key(q) == CASE order = "ExpiresAtAsc" -> q.expires
                    [] order = "ExpiresAtDesc" -> -q.expires
                    [] order = "PriceAsc" -> q.price
                    [] order = "PriceDesc" -> -q.price
                    [] order = "IdAsc" -> q.id
        before(i, j) == \/ key(qs[i]) < key(qs[j])
                        \/ key(qs[i]) = key(qs[j]) /\ qs[i].id < qs[j].id
                        \/ key(qs[i]) = key(qs[j]) /\ qs[i].id = qs[j].id /\ i < j
        rank == SetToSortSeq(DOMAIN qs, before)
    IN  [n \in DOMAIN qs |-> qs[rank[n]]]

-----------------------------------------------------------------------------
(* CrossAnchorFeeAggregator *)

Retained(obs, now) == SelectSeq(obs, LAMBDA o : o.at >= Max({now - FeeWindow, 0}))

\* A bug FeeReportsComplete must catch: recording drops the window's oldest second.
RecordFeeInside(obs, fee, at) ==
    Append(SelectSeq(obs, LAMBDA o : o.at > at - FeeWindow), [fee |-> fee, at |-> at])

\* AnchorFeeHistory::record
RecordFee(obs, fee, at) == Append(Retained(obs, at), [fee |-> fee, at |-> at])

\* An observation carries the caller's own timestamp: it may be late, or ahead of the
\* clock of whoever asks for a report.
InsertObservation(a, fee, at) ==
    /\ Len(observedFees[a]) < MaxObservations
    /\ fees' = [fees EXCEPT ![a] = RecordFee(@, fee, at)]
    /\ observedFees' = [observedFees EXCEPT ![a] = Append(@, [fee |-> fee, at |-> at])]
    /\ UNCHANGED <<quoteTime, quoteCacheVars>>

AverageFee(obs) == FoldLeft(LAMBDA s, o : s + o.fee, 0, obs) \div Len(obs)

\* compute_report: the lower median of the averages, and who is far above it.
FeeReport(histories) ==
    LET known == {a \in QuoteKeys : Retained(histories[a], quoteTime) # <<>>}
        avg(a) == AverageFee(Retained(histories[a], quoteTime))
        n == Cardinality(known)
        place == IF n % 2 = 1 THEN n \div 2 + 1 ELSE n \div 2
        median == CHOOSE m \in {avg(a) : a \in known} :
                    /\ Cardinality({a \in known : avg(a) < m}) < place
                    /\ Cardinality({a \in known : avg(a) <= m}) >= place
    IN  IF known = {} THEN [known |-> {}, median |-> 0, anomalous |-> {}]
        ELSE [known |-> known, median |-> median,
              anomalous |-> {a \in known : avg(a) - median > FeeThreshold}]

-----------------------------------------------------------------------------

QuoteTick ==
    /\ quoteTime < MaxQuoteTime
    /\ quoteTime' = quoteTime + 1
    /\ UNCHANGED <<quoteCacheVars, feeVars>>

QuoteCacheNext ==
    \/ EvictStale
    \/ \E k \in QuoteKeys :
          \/ \E raw \in RawQuotes, ttl \in QuoteTtls : InsertWithRefresh(k, raw, ttl)
          \/ MarkRefreshed(k)
          \/ InvalidateQuoteKey(k)

FeeNext ==
    \E a \in QuoteKeys, fee \in Fees, at \in 1..MaxQuoteTime : InsertObservation(a, fee, at)
-----------------------------------------------------------------------------
(* Properties *)

Orders == {"ExpiresAtAsc", "ExpiresAtDesc", "PriceAsc", "PriceDesc", "IdAsc"}

\* The cache serves the quote last inserted for a key, and only while it is valid
\* and near the market price, however long its time to live; the chosen quote is
\* live and no live one is both cheaper and longer valid; the order of quotes
\* with different ids does not depend on the order they came in; and the two validators accept the same quotes
\* but for staleness.
QuotesServedLive ==
    /\ \A k \in QuoteKeys, market \in MarketPrices :
          LET q == GetWithReconciliation(k, market) IN
          q # NoQuote => /\ q = current[k]
                         /\ q.expires > quoteTime
                         /\ market > 0 => /\ 100 * (market - q.price) <= Reconciliation.drift * q.price
                                          /\ 100 * (q.price - market) <= Reconciliation.drift * q.price
                         /\ QuoteFreshness(q, quoteTime, Reconciliation.near) = "Fresh"
    /\ LET keys == SetToSeq({k \in QuoteKeys : current[k] # NoQuote})
           qs == [i \in DOMAIN keys |-> current[keys[i]]]
       IN  /\ \A near \in {0, Reconciliation.near} :
                LET i == SelectBestQuote(qs, quoteTime, 1, 1, near, 50) IN
                IF i = 0 THEN \A j \in DOMAIN qs : qs[j].expires <= quoteTime
                ELSE /\ qs[i].expires > quoteTime
                     /\ \A j \in DOMAIN qs :
                           qs[j].price <= qs[i].price /\ qs[j].expires >= qs[i].expires
                             => qs[j].price = qs[i].price /\ qs[j].expires = qs[i].expires
           /\ Cardinality({q.id : q \in ToSet(qs)}) = Len(qs) =>
                \A order \in Orders : SortQuotes(qs, order) = SortQuotes(Reverse(qs), order)
    /\ \A raw \in RawQuotes :
          /\ RequestFirmQuote(raw, quoteTime) # NoQuote => IntoFull(raw) = raw
          /\ IntoFull(raw) # NoQuote /\ raw.expires \in (quoteTime + 1)..(quoteTime + MaxFuture)
               => RequestFirmQuote(raw, quoteTime) = raw
          /\ FreshQuote(raw, quoteTime, Reconciliation.near) # NoQuote
               => QuoteFreshness(raw, quoteTime, Reconciliation.near) = "Fresh"

\* An observation is lost only to a later one that is stamped more than the window after
\* it, whatever the order of the stamps; so observations that arrive late and out of order
\* change no report.  One stamped ahead of the report's clock does: it takes with it fees
\* that are still inside the window (src/sep38.rs:1128).  At most half of the anchors
\* stand out.
FeeReportsComplete ==
    LET report == FeeReport(fees)
        lost(obs, i) == \E j \in DOMAIN obs : j > i /\ obs[j].at > obs[i].at + FeeWindow
        left(obs) == LET kept == SetToSortSeq({i \in DOMAIN obs : ~lost(obs, i)}, <)
                     IN  [n \in DOMAIN kept |-> obs[kept[n]]]
        ahead == \E a \in QuoteKeys : \E o \in ToSet(observedFees[a]) : o.at > quoteTime
    IN  /\ \A a \in QuoteKeys : fees[a] = left(observedFees[a])
        /\ ~ahead => report = FeeReport(observedFees)
        /\ 2 * Cardinality(report.anomalous) <= Cardinality(report.known)
=============================================================================
