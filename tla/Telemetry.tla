----------------------------- MODULE Telemetry -----------------------------
(***************************************************************************)
(* What the host library tells about itself: correlation and trace         *)
(* contexts that travel as HTTP headers (src/distributed_correlation.rs,   *)
(* src/trace_context.rs), the bounded structured log                       *)
(* (src/structured_log.rs) and the metrics registry (src/metrics.rs).      *)
(* Hashes are abstracted to the material they are taken of.                *)
(***************************************************************************)
EXTENDS Integers, Sequences, SequencesExt, FiniteSets, FiniteSetsExt

CONSTANTS
    BaggageKeys,     \* sequences of characters
    BaggageValues,
    MaxHops,         \* u32::MAX, where the hop count saturates
    MaxJourney,      \* hops and attempts of a behaviour
    LogConfigs,      \* capacity and least level of a logger
    MaxLogged,
    MaxCount,        \* u64::MAX, where counters saturate
    Latencies,
    MaxCalls

ASSUME TelemetryConstants ==
    /\ {MaxHops, MaxJourney, MaxLogged, MaxCount, MaxCalls} \subseteq Nat \ {0}
    /\ LogConfigs \subseteq [capacity : Nat, level : 0..3]

VARIABLES
    journey,   \* correlation and trace context held, headers on their way; ghosts
    logger,    \* cfg, seq, dropped, buffer; ghosts: drained, cleared
    metrics    \* counters and the latency summary; ghost: what was recorded

telemetryVars == <<journey, logger, metrics>>

-----------------------------------------------------------------------------
(* Correlation contexts as headers *)

Trimmed(s) ==
    LET kept == {i \in DOMAIN s : s[i] # " "}
    IN  IF kept = {} THEN <<>> ELSE SubSeq(s, Min(kept), Max(kept))

\* str::split: the pieces between separators, one more than there are separators.
SplitAt(s, sep) ==
    LET cuts == SetToSortSeq({0, Len(s) + 1} \cup {i \in DOMAIN s : s[i] = sep}, <)
    IN  [i \in 1..(Len(cuts) - 1) |-> SubSeq(s, cuts[i] + 1, cuts[i + 1] - 1)]

Upsert(f, k, v) == [x \in DOMAIN f \cup {k} |-> IF x = k THEN v ELSE f[x]]
NoBaggage == [k \in {} |-> <<>>]

\* The X-Baggage header: pairs joined by commas, in the order of their keys.
BaggageHeader(baggage) ==
    FoldLeft(LAMBDA s, k : (IF s = <<>> THEN s ELSE Append(s, ",")) \o k \o <<"=">> \o baggage[k],
             <<>>, SetToSeq(DOMAIN baggage))

\* A bug TelemetryConsistent must catch: a pair is cut at its last equals sign.
PairCutLast(pair) == Max({i \in DOMAIN pair : pair[i] = "="})

PairCut(pair) == Min({i \in DOMAIN pair : pair[i] = "="})

\* from_headers reads the pairs that have a key.
ParseBaggage(header) ==
    FoldLeft(LAMBDA b, piece :
               LET pair == Trimmed(piece)
                   key == Trimmed(SubSeq(pair, 1, PairCut(pair) - 1))
               IN  IF "=" \notin ToSet(pair) \/ key = <<>> THEN b
                   ELSE Upsert(b, key, Trimmed(SubSeq(pair, PairCut(pair) + 1, Len(pair)))),
             NoBaggage, SplitAt(header, ","))

NextHop(ctx) == [ctx EXCEPT !.hops = Min({ctx.hops + 1, MaxHops})]

-----------------------------------------------------------------------------
(* Trace contexts.  A span is the material its id is the digest of. *)

RootFromSeed == [trace |-> "seed", span |-> <<>>, parent |-> "none", sampled |-> TRUE]

ChildForAttempt(t, attempt) ==
    [t EXCEPT !.span = Append(t.span, attempt), !.parent = t.span]

\* traceparent carries no parent, and what is parsed has none.
ParseTraceparent(t) == [t EXCEPT !.parent = "none"]

\* with_sampled
Sample(sampled) ==
    /\ journey.sent = <<>>
    /\ journey' = [journey EXCEPT !.trace.sampled = sampled]
    /\ UNCHANGED <<logger, metrics>>

SetBaggage(k, v) ==
    /\ journey.sent = <<>>
    /\ journey' = [journey EXCEPT !.ctx.baggage = Upsert(journey.ctx.baggage, k, v),
                                  !.packed = Upsert(journey.packed, k, v)]
    /\ UNCHANGED <<logger, metrics>>

\* A request to the next service, or a retry of one that may have arrived.
Attempt ==
    /\ journey.steps < MaxJourney
    /\ LET attempt == Len(journey.sent) + 1
           next == NextHop(journey.ctx)
       IN  journey' = [journey EXCEPT
             !.steps = @ + 1,
             !.sent = Append(@, [trace |-> ChildForAttempt(journey.trace, attempt),
                                 ctx |-> next, baggage |-> BaggageHeader(next.baggage)])]
    /\ UNCHANGED <<logger, metrics>>

\* The service that receives one of the attempts goes on with what its headers say.
ReceiveAttempt(i) ==
    /\ i \in DOMAIN journey.sent
    /\ LET h == journey.sent[i]
       IN  journey' = [journey EXCEPT
             !.ctx = [id |-> h.ctx.id, origin |-> h.ctx.origin, current |-> h.ctx.origin,
                      hops |-> h.ctx.hops, baggage |-> ParseBaggage(h.baggage)],
             !.trace = ParseTraceparent(h.trace), !.sent = <<>>,
             !.spans = Append(@, h.trace), !.travelled = @ + 1]
    /\ UNCHANGED <<logger, metrics>>

JourneyNext ==
    \/ \E sampled \in BOOLEAN : Sample(sampled)
    \/ \E k \in BaggageKeys, v \in BaggageValues : SetBaggage(k, v)
    \/ Attempt
    \/ \E i \in 1..MaxJourney : ReceiveAttempt(i)

-----------------------------------------------------------------------------
(* StructuredLogger *)

\* A bug TelemetryConsistent must catch: the newest record makes room.
DropNewest(buffer) == Front(buffer)

DropOldest(buffer) == Tail(buffer)

\* log, for an event that is not blank.
Logged(l, level, event) ==
    LET full == l.cfg.capacity > 0 /\ Len(l.buffer) >= l.cfg.capacity
    IN  IF level < l.cfg.level THEN l
        ELSE [l EXCEPT !.seq = @ + 1,
                       !.dropped = IF full THEN @ + 1 ELSE @,
                       !.buffer = Append(IF full THEN DropOldest(@) ELSE @,
                                         [seq |-> l.seq, event |-> event])]

\* log_attestor_registration: the call is bracketed by two records.
StartRegistration ==
    /\ ~logger.open /\ logger.seq < MaxLogged
    /\ logger' = [Logged(logger, 1, "started") EXCEPT !.open = TRUE]
    /\ UNCHANGED <<journey, metrics>>

EndRegistration(ok) ==
    /\ logger.open
    /\ logger' = [IF ok THEN Logged(logger, 1, "succeeded") ELSE Logged(logger, 3, "failed")
                  EXCEPT !.open = FALSE]
    /\ UNCHANGED <<journey, metrics>>

\* drain_json_lines and flush_to_stderr
Drain ==
    /\ logger' = [logger EXCEPT !.buffer = <<>>, !.drained = @ \o logger.buffer]
    /\ UNCHANGED <<journey, metrics>>

ClearLog ==
    /\ logger' = [logger EXCEPT !.buffer = <<>>, !.cleared = @ + Len(logger.buffer)]
    /\ UNCHANGED <<journey, metrics>>

LogNext == StartRegistration \/ (\E ok \in BOOLEAN : EndRegistration(ok)) \/ Drain \/ ClearLog

-----------------------------------------------------------------------------
(* MetricsRegistry *)

SatAdd(a, b) == Min({a + b, MaxCount})

\* record_call around time_operation: the latency counts whatever the result.
RecordCall(ok, ms) ==
    /\ Len(metrics.seen) < MaxCalls
    /\ LET outcome == IF ok THEN "successes" ELSE "failures"
       IN  metrics' = [counters |-> [metrics.counters EXCEPT !["calls"] = SatAdd(@, 1),
                                                             ![outcome] = SatAdd(@, 1)],
                       count |-> SatAdd(metrics.count, 1), total |-> SatAdd(metrics.total, ms),
                       max |-> Max({metrics.max, ms}),
                       seen |-> Append(metrics.seen, ms)]
    /\ UNCHANGED <<journey, logger>>

AvgMs(m) == IF m.count = 0 THEN 0 ELSE m.total \div m.count

MetricsNext == \E ok \in BOOLEAN, ms \in Latencies : RecordCall(ok, ms)

TelemetryInit ==
    /\ journey = [ctx |-> [id |-> "id", origin |-> "first", current |-> "first", hops |-> 0,
                           baggage |-> NoBaggage],
                  trace |-> RootFromSeed, sent |-> <<>>, packed |-> NoBaggage,
                  spans |-> <<RootFromSeed>>, travelled |-> 0, steps |-> 0]
    /\ logger \in [cfg : LogConfigs, seq : {0}, dropped : {0}, buffer : {<<>>}, open : {FALSE},
                   drained : {<<>>}, cleared : {0}]
    /\ metrics = [counters |-> [c \in {"calls", "successes", "failures"} |-> 0],
                  count |-> 0, total |-> 0, max |-> 0, seen |-> <<>>]
-----------------------------------------------------------------------------
(* Properties *)

\* A request keeps its id and origin over all services and retries, counts its hops,
\* brings the baggage that was put in (keys and values free of commas and outer
\* blanks), and its spans form one chain however many attempts it took; concurrent
\* attempts are told apart.
JourneyKept ==
    /\ journey.ctx.id = "id" /\ journey.ctx.origin = "first"
    /\ journey.ctx.hops = Min({journey.travelled, MaxHops})
    /\ journey.ctx.baggage = journey.packed
    /\ \A i \in 2..Len(journey.spans) : journey.spans[i].parent = journey.spans[i - 1].span
    /\ \A i, j \in DOMAIN journey.sent :
          journey.sent[i].trace.span = journey.sent[j].trace.span => i = j

\* Every record logged is in the buffer, drained, dropped or cleared, once and in
\* order; the buffer holds the newest ones, within its capacity.
LogAccounted ==
    LET out == logger.drained \o logger.buffer IN
    /\ \A i, j \in DOMAIN out : i < j => out[i].seq < out[j].seq
    /\ Len(out) + logger.dropped + logger.cleared = logger.seq
    /\ \A i \in DOMAIN logger.buffer : logger.buffer[i].seq = logger.seq - Len(logger.buffer) + i - 1
    /\ logger.cfg.capacity > 0 => Len(logger.buffer) <= logger.cfg.capacity
    /\ logger.cfg.level <= 1 /\ logger.dropped + logger.cleared = 0
         => \A i \in DOMAIN out : (out[i].event = "started") <=> (i % 2 = 1)

\* Below saturation the counters add up and the summary is that of the observations;
\* the average never exceeds the maximum, saturated or not.
MetricsAddUp ==
    /\ AvgMs(metrics) <= metrics.max
    /\ metrics.counters["calls"] < MaxCount =>
         metrics.counters["calls"] = metrics.counters["successes"] + metrics.counters["failures"]
    /\ metrics.total < MaxCount => metrics.total = FoldLeft(+, 0, metrics.seen)
    /\ metrics.seen # <<>> => metrics.max = Max(ToSet(metrics.seen))

\* Telemetry loses and invents nothing it does not account for.
TelemetryConsistent == JourneyKept /\ LogAccounted /\ MetricsAddUp
=============================================================================
