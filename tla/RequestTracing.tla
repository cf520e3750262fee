--------------------------- MODULE RequestTracing ---------------------------
(***************************************************************************)
(* Request ids, tracing spans and request contexts (src/contract.rs): the  *)
(* submission calls that carry a request id, the spans they leave, the     *)
(* chain of operations kept per root request, and child spans.  Spans,     *)
(* contexts and trace counters are temporary entries that live SpanTtl     *)
(* ledgers after their latest write.  An id stands for the hash it is made *)
(* of; the quote a call submits is modelled in Quotes and counted here.    *)
(***************************************************************************)
EXTENDS Attestations, Lists

CONSTANTS
    SpanTtl,      \* SPAN_TTL
    Quoting,      \* anchors whose services include SERVICE_QUOTES
    Labels,       \* operation names callers of append_operation pass
    ChildNonces,  \* nonces callers of generate_child_request_id pass
    MaxRequests,  \* bound on the root ids generated
    MaxDone       \* bound on the operations named

ASSUME TracingConstants ==
    /\ SpanTtl \in Nat
    /\ Quoting \subseteq Addr
    /\ ChildNonces \subseteq Nat
    /\ MaxRequests \in Nat
    /\ MaxDone \in Nat

VARIABLES
    requestCount,  \* REQIDCNT
    issued,        \* the ids generated so far (ghost)
    spans,         \* SPAN: id -> TracingSpan
    contexts,      \* REQCTX: id -> RequestContext
    nextSpan,      \* TRACECTX: id -> next_span_index
    childIds,      \* TRACEIDS: <<id, index>> -> child id
    quotesTaken,   \* QCNT
    done,          \* what was named under which id, in order (ghost)
    propagated     \* how the latest propagate_span ended (ghost)

traceStore == <<requestCount, spans, contexts, nextSpan, childIds, quotesTaken>>
traceVars == <<traceStore, issued, done, propagated>>

\* No call writes TRACECTX for a root: the counters stay absent.
TraceInit ==
    /\ requestCount = 0
    /\ issued = {}
    /\ spans = <<>>
    /\ contexts = <<>>
    /\ nextSpan = <<>>
    /\ childIds = <<>>
    /\ quotesTaken = 0
    /\ done = <<>>
    /\ propagated = "none"

Live(f, id) == id \in DOMAIN f /\ f[id].until >= ledger

\* The store f once v is written under k.
Put(f, k, v) == [x \in DOMAIN f \cup {k} |-> IF x = k THEN v ELSE f[x]]

\* A bug SpansTellWork must catch: only time and ledger make the id.
IdWithoutCounter == <<"root", now, ledger, 0>>

\* sha256(timestamp, sequence, counter)
RequestIdOf == <<"root", now, ledger, requestCount>>

GenerateRequestId ==
    /\ requestCount < MaxRequests
    /\ requestCount' = requestCount + 1
    /\ issued' = issued \cup {RequestIdOf}
    /\ UNCHANGED <<spans, contexts, nextSpan, childIds, quotesTaken, done, propagated>>

\* generate_child_request_id is pure: the same root, nonce and time, the same id.
GenerateChildRequestId(root, nonce) ==
    /\ issued' = issued \cup {<<"child", root, nonce, now>>}
    /\ UNCHANGED <<traceStore, done, propagated>>

-----------------------------------------------------------------------------
(* Spans and contexts *)

Span(op, actor, parent, index) ==
    [op |-> op, actor |-> actor, at |-> now, parent |-> parent, index |-> index,
     until |-> ledger + SpanTtl]

\* store_span: a root span, without parent.
StoreSpan(id, op, actor) == spans' = Put(spans, id, Span(op, actor, <<>>, 0))

\* A context that is created now starts its chain here (`from` is a ghost).
NewContext == [ops |-> <<>>, at |-> now, from |-> Len(done), until |-> ledger + SpanTtl]

\* record_operation_in_context, which append_operation repeats.
RecordOperation(id, op) ==
    LET ctx == IF Live(contexts, id) THEN contexts[id] ELSE NewContext
    IN  /\ Len(done) < MaxDone
        /\ contexts' = Put(contexts, id,
                           [ctx EXCEPT !.ops = Append(@, op), !.until = ledger + SpanTtl])
        /\ done' = Append(done, [id |-> id, op |-> op])

Traced(id, op, actor) ==
    /\ StoreSpan(id, op, actor)
    /\ RecordOperation(id, op)

SubmitWithRequestId(id, issuer, h, sig, isAdmin, role) ==
    /\ SubmitAttestation(issuer, h, sig, isAdmin, role)
    /\ Traced(id, "submit_attestation", issuer)
    /\ UNCHANGED <<requestCount, issued, nextSpan, childIds, quotesTaken, propagated>>

\* quote_with_request_id, and quote_with_request_id_and_reason when it has a reason.
QuoteWithRequestId(id, anchor, reasoned) ==
    /\ anchor \in Quoting
    /\ quotesTaken' = quotesTaken + 1
    /\ Traced(id, IF reasoned THEN "submit_quote_with_reason" ELSE "submit_quote", anchor)
    /\ UNCHANGED <<requestCount, issued, nextSpan, childIds, propagated, allVars>>

\* create_request_context starts the chain again if there is one.
CreateRequestContext(id) ==
    /\ contexts' = Put(contexts, id, NewContext)
    /\ UNCHANGED <<requestCount, issued, spans, nextSpan, childIds, quotesTaken, done,
                   propagated, allVars>>

\* append_operation asks for no authorization.
AppendOperation(id, op) ==
    /\ RecordOperation(id, op)
    /\ UNCHANGED <<requestCount, issued, spans, nextSpan, childIds, quotesTaken, propagated,
                   allVars>>

\* propagate_span: without a live TRACECTX entry of the parent it panics.
PropagateSpan(parent, child, op, actor) ==
    /\ parent # child
    /\ IF ~Live(nextSpan, parent)
       THEN /\ propagated' = "ValidationError"
            /\ UNCHANGED <<spans, nextSpan, childIds>>
       ELSE LET index == nextSpan[parent].next
            IN  /\ propagated' = "Returned"
                /\ nextSpan' = [nextSpan EXCEPT ![parent] =
                                  [next |-> index + 1, until |-> ledger + SpanTtl]]
                /\ childIds' = Put(childIds, <<parent, index>>,
                                   [id |-> child, until |-> ledger + SpanTtl])
                /\ spans' = Put(spans, child, Span(op, actor, parent, index))
    /\ UNCHANGED <<requestCount, issued, contexts, quotesTaken, done, allVars>>

\* get_trace: the root span, then the children by index.
GetTrace(id) ==
    LET kids == IF Live(nextSpan, id)
                THEN SelectSeq([i \in 1..(nextSpan[id].next - 1) |-> <<id, i>>],
                               LAMBDA k : Live(childIds, k) /\ Live(spans, childIds[k].id))
                ELSE <<>>
    IN  (IF Live(spans, id) THEN <<spans[id]>> ELSE <<>>)
        \o [i \in 1..Len(kids) |-> spans[childIds[kids[i]].id]]

TraceNext ==
    \/ GenerateRequestId /\ UNCHANGED allVars
    \/ \E id \in issued :
         \/ \E nonce \in ChildNonces :
              id[1] = "root" /\ GenerateChildRequestId(id, nonce) /\ UNCHANGED allVars
         \/ \E issuer \in Addr, h \in Hash, sig \in Key :
              SubmitWithRequestId(id, issuer, h, sig, FALSE, NoConfig)
         \/ \E anchor \in Addr, reasoned \in BOOLEAN : QuoteWithRequestId(id, anchor, reasoned)
         \/ CreateRequestContext(id)
         \/ \E op \in Labels : AppendOperation(id, op)
         \/ \E child \in issued, op \in Labels, a \in Addr : PropagateSpan(id, child, op, a)
    \/ CloseLedger /\ UNCHANGED <<pubkey, sessVars, attVars, traceVars>>
    \/ KeysNext /\ UNCHANGED <<sessVars, rlVars, attVars, traceVars>>

\* The requests beside all other calls.
TraceSpec ==
    /\ AttInit /\ TraceInit
    /\ [][TraceNext \/ (AttNext /\ UNCHANGED traceVars)]_<<allVars, traceVars>>

-----------------------------------------------------------------------------
(* Properties *)

Operations == Labels \cup {"submit_attestation", "submit_quote", "submit_quote_with_reason"}

Under(id) == [id : {id}, op : Operations]

NamedUnder(id, from) ==
    LET mine == Kept(SubSeq(done, from + 1, Len(done)), Under(id))
    IN  [i \in 1..Len(mine) |-> mine[i].op]

\* Ids generated within one ledger differ (contract.rs:2957).  The chain of a live
\* context is what was named under its id since it was created or created again, in
\* order; a live span therefore has a live context, and an operation of that span that
\* the context no longer names was wiped by create_request_context, never lost.  The
\* trace of a root starts with its own span.
SpansTellWork ==
    /\ Cardinality({id \in issued : id[1] = "root"}) = requestCount
    /\ \A id \in issued :
         /\ Live(contexts, id) => contexts[id].ops = NamedUnder(id, contexts[id].from)
         /\ Live(spans, id) => /\ Live(contexts, id)
                               /\ \E i \in 1..Len(done) :
                                    /\ done[i] = [id |-> id, op |-> spans[id].op]
                                    /\ i > contexts[id].from =>
                                         spans[id].op \in Range(contexts[id].ops)
                               /\ Head(GetTrace(id)) = spans[id]

\* propagate_span's documentation: "The TracingContext for the root must have been
\* initialised by a prior `submit_with_request_id` call (which stores span_index = 0)."
RootsCanPropagate ==
    \A id \in issued : Live(spans, id) => Live(nextSpan, id)
=============================================================================
