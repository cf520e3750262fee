-------------------------- MODULE AnchorTransfers --------------------------
(***************************************************************************)
(* Transfers through an anchor, as the host sees them: discovery of its    *)
(* stellar.toml (src/stellar_toml.rs), statuses, amounts and polling of    *)
(* SEP-6 (src/sep6.rs), interactive flows of SEP-24 (src/sep24.rs) and     *)
(* payments of SEP-31 (src/sep31.rs).  A stellar.toml is the sequence of   *)
(* its meaningful lines; an amount the sequence of its characters; an      *)
(* empty text is "empty".                                                  *)
(***************************************************************************)
EXTENDS Integers, Sequences, SequencesExt, FiniteSetsExt, Lists

CONSTANTS
    Hosts,          \* the primary domain first, then the fallback hosts
    ValidHosts,     \* those validate_anchor_domain accepts
    FetchAttempts,  \* attempts of the retry configuration per host
    PollConfigs,    \* interval and max of a PollConfig
    PollRetries,    \* attempts of the retry around fetch_fn
    VendorTokens,   \* status words of a vendor
    TomlLines, MaxLines,
    Digits, MaxChars,
    NoValue

ASSUME TransferConstants ==
    /\ FetchAttempts \in Nat \ {0} /\ PollRetries \in Nat \ {0}
    /\ PollConfigs \subseteq [interval : Nat \ {0}, max : Nat]
    /\ {MaxLines, MaxChars} \subseteq Nat
    /\ Len(Hosts) \in Nat \ {0} /\ DOMAIN Hosts = 1..Len(Hosts)
    /\ "0" \in Digits /\ "." \notin Digits
    /\ \A line \in TomlLines : line.value # NoValue
    /\ NoValue \notin Nat /\ NoValue \notin Seq(Digits \cup {".", "-"})

VARIABLES
    discovery,  \* host, attempt, state, found (index of the host); ghost: outcomes
                \* of the contacts with each host
    poll,       \* cfg, elapsed, tries, state, status, and ghost fetches
    vendor,     \* VendorStatusMap: canonical status by word
    toml,       \* the document
    amount      \* the amount

transferVars == <<discovery, poll, vendor, toml, amount>>

-----------------------------------------------------------------------------
(* Statuses *)

ActiveStatus ==
    {"pending", "incomplete", "pending_external", "pending_anchor", "pending_trust",
     "pending_user", "pending_stellar", "waiting_customer_action"}
FailedStatus == {"no_market", "too_small", "too_large", "error"}
TransactionStatus == ActiveStatus \cup FailedStatus \cup {"completed", "refunded", "expired"}

Aliases == {"pending_user_transfer_start", "pending_user_transfer_complete",
            "pending_customer_info_update"}

\* from_str, of a trimmed word in lower case.
FromStr(s) ==
    CASE s \in TransactionStatus -> s
      [] s \in {"pending_user_transfer_start", "pending_user_transfer_complete"} -> "pending_user"
      [] s = "pending_customer_info_update" -> "waiting_customer_action"
      [] OTHER -> "error"

Classify(status) ==
    CASE status \in ActiveStatus -> "Active"
      [] status \in FailedStatus -> "Failed"
      [] OTHER -> status

\* classify_status_str: its own list of words.
ClassifyStatusStr(s) ==
    CASE s \in ActiveStatus \cup Aliases -> "Active"
      [] s \in FailedStatus -> "Failed"
      [] s \in {"completed", "refunded", "expired"} -> s
      [] OTHER -> "Unknown"

\* terminal_states of the default PollConfig.
TerminalStates == {"completed", "refunded", "expired"} \cup FailedStatus

Words == TransactionStatus \cup Aliases \cup VendorTokens

Resolve(s) == IF s \in DOMAIN vendor THEN vendor[s] ELSE FromStr(s)

RegisterVendorStatus(s, canonical) ==
    /\ vendor' = [w \in DOMAIN vendor \cup {s} |-> IF w = s THEN canonical ELSE vendor[w]]
    /\ UNCHANGED <<discovery, poll, toml, amount>>

RemoveVendorStatus(s) ==
    /\ s \in DOMAIN vendor
    /\ vendor' = [w \in DOMAIN vendor \ {s} |-> vendor[w]]
    /\ UNCHANGED <<discovery, poll, toml, amount>>

-----------------------------------------------------------------------------
(* Responses.  A field is NoValue when the anchor left it out. *)

ValidMemo(memo, type) == memo # NoValue => type \in {"text", "id", "hash"}

ValidLimits(min, max) == min # NoValue /\ max # NoValue => min <= max

\* initiate_deposit and initiate_withdrawal; where is how, or account_id.
InitiateTransfer(raw) ==
    IF /\ raw.id # "empty" /\ raw.where # "empty"
       /\ ValidLimits(raw.min, raw.max) /\ ValidMemo(raw.memo, raw.memoType)
       /\ raw.asset # "bad"
    THEN [raw EXCEPT !.status = IF @ \in {NoValue, "empty"} THEN "pending" ELSE FromStr(@)]
    ELSE NoValue

Kind(k) == IF k \in {"withdrawal", "withdraw"} THEN "Withdrawal" ELSE "Deposit"

Transaction(raw, status) == [raw EXCEPT !.kind = Kind(@), !.status = status]

FetchTransactionStatus(raw) ==
    IF raw.id = "empty" THEN NoValue
    ELSE Transaction(raw, IF raw.status = "empty" THEN "error" ELSE FromStr(raw.status))

ListTransactions(raws) ==
    LET named == Kept(raws, {r \in ToSet(raws) : r.id # "empty"})
    IN  [i \in DOMAIN named |-> Transaction(named[i], FromStr(named[i].status))]

\* SEP-24: a URL is its origin (Blank urls have none) and whether a redirect
\* parameter carries another one.
ValidInteractiveUrl(url, origin) ==
    url.origin # "empty" /\ origin \in {NoValue, url.origin} /\ ~url.redirects

InitiateInteractive(raw, origin) ==
    IF ValidInteractiveUrl(raw.url, origin) /\ raw.id # "empty" THEN raw ELSE NoValue

FetchSep24Status(raw) ==
    IF /\ raw.id # "empty" /\ raw.status # "empty" /\ raw.asset # "bad"
       /\ raw.more # NoValue => ValidInteractiveUrl(raw.more, NoValue)
    THEN [raw EXCEPT !.status = FromStr(@)] ELSE NoValue

-----------------------------------------------------------------------------
(* Amounts *)

Dots(s) == {i \in DOMAIN s : s[i] = "."}
AllDigits(s) == ToSet(s) \subseteq Digits

\* SEP-38: is_valid_positive_decimal
QuoteDecimal(s) ==
    /\ ToSet(s) \subseteq Digits \cup {"."} /\ Cardinality(Dots(s)) <= 1
    /\ ToSet(s) \ {"0", "."} # {}

\* SEP-31: validate_positive_decimal
PaymentDecimal(s) ==
    /\ s # <<>> /\ s[1] # "." /\ s[Len(s)] # "."
    /\ ToSet(s) \subseteq Digits \cup {"."} /\ Cardinality(Dots(s)) <= 1
    /\ ToSet(s) \ {"0", "."} # {}

\* SEP-6: parse_sep6_amount of a trimmed text; whole units only.
TransferAmount(s) ==
    /\ s # <<>> /\ s[1] \in Digits
    /\ IF Dots(s) = {} THEN AllDigits(s)
       ELSE LET d == Min(Dots(s)) IN
            /\ AllDigits(SubSeq(s, 1, d - 1))
            /\ d < Len(s) /\ ToSet(SubSeq(s, d + 1, Len(s))) \subseteq {"0"}

Type(c) ==
    /\ Len(amount) < MaxChars
    /\ amount' = Append(amount, c)
    /\ UNCHANGED <<discovery, poll, vendor, toml>>

\* What initiate_sep31_payment accepts and returns as it is: the memo's and the ids'
\* lengths are within bounds when raw.lengths holds.
InitiatePayment(raw) ==
    /\ raw.id # "empty" /\ raw.lengths /\ raw.sender # "empty" /\ raw.account
    /\ ValidMemo(raw.memo, raw.memoType)
    /\ raw.amount # NoValue => PaymentDecimal(raw.amount)
    /\ raw.asset # "bad" /\ raw.key # "empty"

-----------------------------------------------------------------------------
(* poll_transaction_status *)

PollRunning == poll.state = "running"

\* fetch_fn failed; a retryable error is tried again at once.
FetchFails(retryable) ==
    /\ PollRunning
    /\ poll' = IF retryable /\ poll.tries + 1 < PollRetries
               THEN [poll EXCEPT !.tries = @ + 1, !.fetches = @ + 1]
               ELSE [poll EXCEPT !.state = "failed", !.fetches = @ + 1]
    /\ UNCHANGED <<discovery, vendor, toml, amount>>

\* A bug FetchLoopsConclude must catch: the interval still to come is not counted.
TimedOutLate(p) == p.elapsed >= p.cfg.max

PollTimedOut(p) == p.elapsed + p.cfg.interval >= p.cfg.max

FetchReturns(status) ==
    /\ PollRunning
    /\ poll' = LET p == [poll EXCEPT !.tries = 0, !.fetches = @ + 1, !.status = status] IN
               CASE status \in TerminalStates -> [p EXCEPT !.state = "completed"]
                 [] status \notin TerminalStates /\ PollTimedOut(p) ->
                      [p EXCEPT !.state = "timedOut"]
                 [] OTHER -> [p EXCEPT !.elapsed = @ + p.cfg.interval]
    /\ UNCHANGED <<discovery, vendor, toml, amount>>

PollStep ==
    \/ \E retryable \in BOOLEAN : FetchFails(retryable)
    \/ \E status \in {"pending", "completed", "error"} : FetchReturns(status)

-----------------------------------------------------------------------------
(* fetch_stellar_toml_with_retry *)

NextHost(d) ==
    IF d.host < Len(Hosts) THEN [d EXCEPT !.host = @ + 1, !.attempt = 0]
    ELSE [d EXCEPT !.state = "failed"]

SkipInvalidHost ==
    /\ discovery.state = "running" /\ Hosts[discovery.host] \notin ValidHosts
    /\ discovery' = NextHost(discovery)
    /\ UNCHANGED <<poll, vendor, toml, amount>>

\* Every error is retried; a document that is too large goes to the next host.
FetchToml(outcome) ==
    /\ discovery.state = "running" /\ Hosts[discovery.host] \in ValidHosts
    /\ discovery' =
         LET d == [discovery EXCEPT !.contacts[discovery.host] = Append(@, outcome)] IN
         CASE outcome = "ok" -> [d EXCEPT !.state = "found", !.found = d.host]
           [] outcome = "tooLarge" -> NextHost(d)
           [] outcome = "error" /\ d.attempt + 1 < FetchAttempts -> [d EXCEPT !.attempt = @ + 1]
           [] outcome = "error" /\ d.attempt + 1 >= FetchAttempts -> NextHost(d)
    /\ UNCHANGED <<poll, vendor, toml, amount>>

DiscoveryStep == SkipInvalidHost \/ \E outcome \in {"ok", "tooLarge", "error"} : FetchToml(outcome)

-----------------------------------------------------------------------------
(* parse_stellar_toml: a line is a table header, or a key and its value *)

NoBlock == [code |-> NoValue, issuer |-> NoValue]
TomlError == [error |-> TRUE, currencies |-> <<>>, server |-> NoValue]

\* A code that is missing, or given as an empty text.
NoCode == {NoValue, "empty"}

\* flush_currency
FlushCurrency(p) ==
    CASE ~p.open -> p
      [] p.open /\ p.block.code \in NoCode -> [p EXCEPT !.error = TRUE]
      [] OTHER -> [p EXCEPT !.currencies = Append(@, p.block), !.open = FALSE]

\* A bug TransfersConsistent must catch: a header does not close the block before.
HeaderKeepsBlock(p, line) ==
    IF line.key = "[CURRENCIES]" THEN [p EXCEPT !.open = TRUE, !.inBlock = TRUE, !.block = NoBlock]
    ELSE [p EXCEPT !.inBlock = FALSE]

ReadHeader(p, line) ==
    LET q == FlushCurrency(p) IN
    IF line.key = "[CURRENCIES]" THEN [q EXCEPT !.open = TRUE, !.inBlock = TRUE, !.block = NoBlock]
    ELSE [q EXCEPT !.inBlock = FALSE]

\* Keys outside a currency table are read in every other table too.
ReadKey(p, line) ==
    CASE p.inBlock /\ line.key = "code" -> [p EXCEPT !.block.code = line.value]
      [] p.inBlock /\ line.key = "issuer" /\ line.value = "empty" -> [p EXCEPT !.error = TRUE]
      [] p.inBlock /\ line.key = "issuer" /\ line.value # "empty" -> [p EXCEPT !.block.issuer = line.value]
      [] ~p.inBlock /\ line.key = "TRANSFER_SERVER" /\ line.value = "bad" -> [p EXCEPT !.error = TRUE]
      [] ~p.inBlock /\ line.key = "TRANSFER_SERVER" /\ line.value # "bad" ->
           [p EXCEPT !.server = line.value]
      [] OTHER -> p

ReadLine(p, line) ==
    CASE p.error -> p
      [] ~p.error /\ line.key \in {"[CURRENCIES]", "[OTHER]"} -> ReadHeader(p, line)
      [] OTHER -> ReadKey(p, line)

ParseStellarToml(lines) ==
    LET start == [error |-> FALSE, currencies |-> <<>>, server |-> NoValue, open |-> FALSE,
                  inBlock |-> FALSE, block |-> NoBlock]
        read[n \in 0..Len(lines)] == IF n = 0 THEN start ELSE ReadLine(read[n - 1], lines[n])
        end == read[Len(lines)]
        last == IF end.error THEN end ELSE FlushCurrency(end)
    IN  IF last.error THEN TomlError
        ELSE [error |-> FALSE, currencies |-> last.currencies, server |-> last.server]

\* parse_stellar_toml_with_origin: of the endpoints only the transfer server.
ParseWithOrigin(lines, origin) ==
    LET p == ParseStellarToml(lines)
    IN  IF p.server \notin {NoValue, origin} THEN TomlError ELSE p

AddLine(line) ==
    /\ Len(toml) < MaxLines
    /\ toml' = Append(toml, line)
    /\ UNCHANGED <<discovery, poll, vendor, amount>>

-----------------------------------------------------------------------------

TransferInit ==
    /\ discovery = [host |-> 1, attempt |-> 0, state |-> "running", found |-> 0,
                    contacts |-> [h \in DOMAIN Hosts |-> <<>>]]
    /\ poll \in [cfg : PollConfigs, elapsed : {0}, tries : {0}, state : {"running"},
                 status : {NoValue}, fetches : {0}]
    /\ vendor = [s \in {} |-> "pending"]
    /\ toml = <<>>
    /\ amount = <<>>

VendorNext ==
    \E s \in VendorTokens :
        \/ \E canonical \in {"completed", "pending"} : RegisterVendorStatus(s, canonical)
        \/ RemoveVendorStatus(s)

TomlNext == \E line \in TomlLines : AddLine(line)

AmountNext == \E c \in Digits \cup {".", "-"} : Type(c)

TransferNext == PollStep \/ DiscoveryStep \/ VendorNext \/ TomlNext \/ AmountNext

TransferSpec == TransferInit /\ [][TransferNext]_transferVars
-----------------------------------------------------------------------------
(* Properties *)

\* What SEP-6 and SEP-24 read from one status response agrees wherever both accept
\* it, a transfer that was accepted has a status polling understands and limits
\* some amount meets, and an interactive flow stays with the expected origin.
ResponsesAgree ==
    /\ \A raw \in [id : {"empty", "t"}, kind : {NoValue, "withdraw"}, status : {"empty", "refunded", "odd"},
                   asset : {"empty", "usd", "bad"}, more : {NoValue, [origin |-> "empty", redirects |-> FALSE]}] :
          FetchSep24Status(raw) # NoValue => FetchSep24Status(raw).status = FetchTransactionStatus(raw).status
    /\ \A raw \in [id : {"empty", "t"}, where : {"empty", "x"}, status : {NoValue, "empty", "refunded", "odd"},
                   min : {0, 2}, max : {1}, memo : {"m"}, memoType : {"text", "odd"}, asset : {"usd"}] :
          LET r == InitiateTransfer(raw) IN
          r # NoValue => r.status \in TransactionStatus /\ \E a \in r.min..r.max : TRUE
    /\ \A origin \in {"home", "away", "empty"}, redirects \in BOOLEAN, expected \in {NoValue, "home"} :
          LET raw == [url |-> [origin |-> origin, redirects |-> redirects], id |-> "t"]
          IN  InitiateInteractive(raw, expected) # NoValue =>
                ~redirects /\ origin \in IF expected = NoValue THEN {"home", "away"} ELSE {expected}

\* Every list of statuses in the code says the same: the words that are classified
\* are those that are parsed, the poll stops at exactly the states that are not
\* active, and a vendor's word changes no word it did not register.
StatusesAgree ==
    /\ \A s \in Words :
          ClassifyStatusStr(s) \in {Classify(FromStr(s)), "Unknown"}
    /\ \A s \in Words : ClassifyStatusStr(s) = "Unknown" => Classify(FromStr(s)) = "Failed"
    /\ TerminalStates = {s \in TransactionStatus : Classify(s) # "Active"}
    /\ \A s \in Words : Resolve(s) # FromStr(s) => s \in DOMAIN vendor
    /\ \A raw \in [id : {"empty", "t"}, kind : {NoValue, "withdraw"}, status : {"empty", "refunded", "odd"}] :
          ListTransactions(<<raw>>) = IF raw.id = "empty" THEN <<>> ELSE <<FetchTransactionStatus(raw)>>

\* The three readings of an amount are nested: what SEP-6 takes as a positive
\* amount SEP-31 takes too, and what SEP-31 takes SEP-38 takes too; SEP-38 alone
\* also takes a leading or a trailing point.
AmountsAgree ==
    /\ TransferAmount(amount) /\ ToSet(amount) \ {"0", "."} # {} => PaymentDecimal(amount)
    /\ PaymentDecimal(amount) <=>
         InitiatePayment([id |-> "t", lengths |-> TRUE, sender |-> "s", account |-> TRUE, memo |-> NoValue,
                          memoType |-> NoValue, amount |-> amount, asset |-> "usd", key |-> "k"])
    /\ PaymentDecimal(amount) <=>
         QuoteDecimal(amount) /\ amount[1] # "." /\ amount[Len(amount)] # "."

\* A poll ends only for its reason: on a terminal status, on an error that may not
\* or no longer be retried, or when another interval would reach the limit; it
\* fetches no more than the limit and the retries allow.
PollsConclude ==
    LET c == poll.cfg
        rounds == Max({1, (c.max + c.interval - 1) \div c.interval})
    IN  /\ poll.state = "completed" => poll.status \in TerminalStates
        /\ poll.state = "timedOut" => /\ poll.status \notin TerminalStates
                                      /\ poll.elapsed + c.interval >= c.max
        /\ poll.elapsed < Max({c.max, 1})
        /\ poll.fetches <= rounds * PollRetries

\* The document comes from the first host that has one: a host passed over was
\* invalid, sent a document that is too large, or failed as often as configured;
\* later hosts are not asked.
FirstHostWins ==
    LET d == discovery
        givenUp(h) == \/ Hosts[h] \notin ValidHosts /\ d.contacts[h] = <<>>
                      \/ d.contacts[h] # <<>> /\ Last(d.contacts[h]) = "tooLarge"
                      \/ d.contacts[h] = [n \in 1..FetchAttempts |-> "error"]
    IN  /\ \A h \in DOMAIN Hosts : Len(d.contacts[h]) <= FetchAttempts
        /\ \A h \in 1..(d.host - 1) : givenUp(h)
        /\ \A h \in (d.host + 1)..Len(Hosts) : d.contacts[h] = <<>>
        /\ d.state = "found" => d.found = d.host /\ Last(d.contacts[d.host]) = "ok"
        /\ d.state = "failed" => d.host = Len(Hosts) /\ givenUp(d.host)

\* Both loops of this part end where the code says they do.
FetchLoopsConclude == PollsConclude /\ FirstHostWins

\* The lines that open a table, and those that open one of a currency.
Headers(doc) == {i \in DOMAIN doc : doc[i].key \in {"[CURRENCIES]", "[OTHER]"}}
CurrencyTables(doc) == {h \in Headers(doc) : doc[h].key = "[CURRENCIES]"}

\* The table a line belongs to; zero before the first.
TableOf(doc, i) ==
    LET before == {h \in Headers(doc) : h <= i}
    IN  IF before = {} THEN 0 ELSE Max(before)

\* The lines of a table with a key, and the servers given outside the currencies.
Given(doc, h, key) == {i \in DOMAIN doc : TableOf(doc, i) = h /\ doc[i].key = key}
Servers(doc) ==
    {i \in DOMAIN doc : TableOf(doc, i) \notin CurrencyTables(doc) /\ doc[i].key = "TRANSFER_SERVER"}

\* The value of the last of some lines.
LastValue(doc, lines) == IF lines = {} THEN NoValue ELSE doc[Max(lines)].value

\* What a document must not contain.
Wrong(doc) ==
    \/ \E h \in CurrencyTables(doc) : LastValue(doc, Given(doc, h, "code")) \in NoCode
    \/ \E h \in CurrencyTables(doc) : \E i \in Given(doc, h, "issuer") : doc[i].value = "empty"
    \/ \E i \in Servers(doc) : doc[i].value = "bad"

\* A document parses exactly when the last code of each of its currency tables is there
\* and not empty, none of their issuers is blank and no endpoint outside them is
\* invalid; then it has one currency for each table, in order, with the last code given,
\* and the last server given.
TomlMeansWhatItSays ==
    LET p == ParseStellarToml(toml)
        tables == CurrencyTables(toml)
    IN  /\ p.error <=> Wrong(toml)
        /\ ~p.error =>
             /\ Len(p.currencies) = Cardinality(tables)
             /\ \A h \in tables :
                   p.currencies[Cardinality({t \in tables : t <= h})].code
                     = LastValue(toml, Given(toml, h, "code"))
             /\ p.server = LastValue(toml, Servers(toml))
        /\ \A origin \in {"home", "away"} :
             ~ParseWithOrigin(toml, origin).error => p.server \in {NoValue, origin}

\* Statuses, amounts and documents mean the same to every function that reads them.
TransfersConsistent == StatusesAgree /\ ResponsesAgree /\ AmountsAgree /\ TomlMeansWhatItSays

\* Transfers with an anchor: what was read of it is consistent, and the loops that
\* fetch and poll come to an end.
TransfersSound == TransfersConsistent /\ FetchLoopsConclude
=============================================================================
