-------------------------- MODULE WebhookDelivery --------------------------
(***************************************************************************)
(* Webhook delivery (src/webhook.rs): the sender's retry loop and dead     *)
(* letters, a network that loses and delays requests and answers, and a    *)
(* receiver that verifies payloads with replay protection.  A payload's    *)
(* nonce is the payload itself; its timestamp is when it was first sent.   *)
(***************************************************************************)
EXTENDS Lists

CONSTANTS
    Payloads,
    MaxAttempts,    \* retry_config.max_attempts
    Receivers,      \* max_age_seconds (age) and max_capacity of the nonce tracker (size) the
                    \* receiver may have, its clock minus the sender's (skew) and the
                    \* payloads whose signature it rejects
    DlqCapacity, DlqRetention,  \* of the DeadLetterQueue
    NoJob,
    MaxDeliveryTime

ASSUME DeliveryConstants ==
    /\ MaxAttempts \in Nat \ {0}
    /\ Receivers \subseteq [age : Nat, size : Nat \ {0}, skew : Int, rejects : SUBSET Payloads]
    /\ {DlqCapacity, DlqRetention, MaxDeliveryTime} \subseteq Nat
    /\ NoJob \notin [p : Payloads, attempt : Nat]

VARIABLES
    time,
    receiver,  \* the receiver's configuration
    job,       \* the delivery in progress: p, attempt
    sent,      \* timestamp in each payload
    outcomes,  \* what deliver_webhook returned
    dlq,       \* the BTreeMap of dead letters, one storage key
    wire,      \* requests under way: <<payload, attempt>>
    replies,   \* answers to the current attempt
    nonces,    \* nonces and timestamps in the MemoryNonceTracker
    deadQueue, \* a DeadLetterQueue the letters are moved to
    moved,     \* how many letters were moved to it
    handledAt, \* ghost: receiver times at which a payload was Valid
    evicted,   \* ghost: nonces the tracker dropped at its capacity
    removed    \* ghost: letters removed by hand

senderVars == <<job, sent, outcomes, dlq>>
networkVars == <<wire, replies>>
receiverVars == <<receiver, nonces, handledAt, evicted>>
queueVars == <<deadQueue, moved, removed>>
deliveryVars == <<time, senderVars, networkVars, receiverVars, queueVars>>

DeliveryInit ==
    /\ time = 1
    /\ receiver \in Receivers
    /\ job = NoJob
    /\ sent = [p \in Payloads |-> 0]
    /\ outcomes = [p \in Payloads |-> "new"]
    /\ dlq = <<>>
    /\ wire = {} /\ replies = {}
    /\ nonces = [p \in {} |-> 0]
    /\ deadQueue = <<>> /\ moved = 0 /\ removed = {}
    /\ handledAt = [p \in Payloads |-> <<>>]
    /\ evicted = {}

-----------------------------------------------------------------------------
(* Sender: deliver_webhook_traced.  Every error is retried. *)

Deliver(p) ==
    /\ job = NoJob /\ outcomes[p] = "new"
    /\ job' = [p |-> p, attempt |-> 0]
    /\ sent' = [sent EXCEPT ![p] = time]
    /\ outcomes' = [outcomes EXCEPT ![p] = "sending"]
    /\ wire' = wire \cup {<<p, 0>>}
    /\ UNCHANGED <<time, dlq, replies, receiverVars, queueVars>>

\* deliver_webhook_with_proxy could not build its client: the caller gets an error
\* before the first attempt, and no dead letter is filed.
Refuse(p) ==
    /\ job = NoJob /\ outcomes[p] = "new"
    /\ outcomes' = [outcomes EXCEPT ![p] = "refused"]
    /\ UNCHANGED <<time, job, sent, dlq, networkVars, receiverVars, queueVars>>

DlqEntry(p, status) == [p |-> p, at |-> time, status |-> status, attempts |-> MaxAttempts]

\* A bug DeliveryKeepsPromise must catch: a delivery given up on is not filed.
FailedUnfiled(status) ==
    /\ replies' = {}
    /\ IF job.attempt + 1 < MaxAttempts
       THEN /\ job' = [job EXCEPT !.attempt = @ + 1]
            /\ wire' = wire \cup {<<job.p, job.attempt + 1>>}
            /\ UNCHANGED outcomes
       ELSE /\ job' = NoJob
            /\ outcomes' = [outcomes EXCEPT ![job.p] = "dead"]
            /\ UNCHANGED wire
    /\ UNCHANGED <<time, sent, dlq, receiverVars, queueVars>>

\* The attempt failed: another one, or the dead letter queue.
AttemptFailed(status) ==
    /\ replies' = {}
    /\ IF job.attempt + 1 < MaxAttempts
       THEN /\ job' = [job EXCEPT !.attempt = @ + 1]
            /\ wire' = wire \cup {<<job.p, job.attempt + 1>>}
            /\ UNCHANGED <<outcomes, dlq>>
       ELSE /\ job' = NoJob
            /\ outcomes' = [outcomes EXCEPT ![job.p] = "dead"]
            /\ dlq' = Append(dlq, DlqEntry(job.p, status))
            /\ UNCHANGED wire
    /\ UNCHANGED <<time, sent, receiverVars, queueVars>>

\* http_post returned a status.
TakeReply(status) ==
    /\ job # NoJob /\ status \in replies
    /\ \/ /\ status < 400
          /\ job' = NoJob /\ replies' = {}
          /\ outcomes' = [outcomes EXCEPT ![job.p] = "delivered"]
          /\ UNCHANGED <<time, sent, dlq, wire, receiverVars, queueVars>>
       \/ /\ status >= 400
          /\ AttemptFailed(status)

\* http_post returned an error: the request or its answer was lost or is late.
TimeOut == job # NoJob /\ AttemptFailed(0)

-----------------------------------------------------------------------------
(* Receiver: verify_webhook_signature_with_replay_protection *)

ReceiverTime == time + receiver.skew

\* A bug HandledOnce must catch: no freshness check.
FreshAlways(p) == sent[p] <= ReceiverTime

\* Not from the future; the maximum age is exclusive, zero means none.
Fresh(p) ==
    /\ sent[p] <= ReceiverTime
    /\ receiver.age > 0 => ReceiverTime - sent[p] < receiver.age

Verdict(p) ==
    CASE p \in receiver.rejects -> "InvalidSignature"
      [] p \notin receiver.rejects /\ ~Fresh(p) -> "InvalidTimestamp"
      [] p \notin receiver.rejects /\ Fresh(p) /\ p \in DOMAIN nonces -> "ReplayDetected"
      [] OTHER -> "Valid"

\* check_and_record of an unknown nonce: at capacity the oldest goes.
Recorded(p, drop) ==
    [q \in (DOMAIN nonces \ drop) \cup {p} |-> IF q = p THEN sent[p] ELSE nonces[q]]

Dropped(drop) ==
    IF Cardinality(DOMAIN nonces) < receiver.size THEN drop = {}
    ELSE \E q \in DOMAIN nonces : drop = {q} /\ \A r \in DOMAIN nonces : nonces[q] <= nonces[r]

\* A request arrives; the answer to the current attempt may reach the sender.
Arrive(p, k, answered) ==
    /\ <<p, k>> \in wire
    /\ wire' = wire \ {<<p, k>>}
    /\ replies' = IF answered /\ job = [p |-> p, attempt |-> k]
                  THEN replies \cup {IF Verdict(p) = "Valid" THEN 200 ELSE 401}
                  ELSE replies
    /\ \/ /\ Verdict(p) = "Valid"
          /\ \E drop \in SUBSET DOMAIN nonces :
                /\ Dropped(drop)
                /\ nonces' = Recorded(p, drop)
                /\ evicted' = evicted \cup drop
          /\ handledAt' = [handledAt EXCEPT ![p] = Append(@, ReceiverTime)]
       \/ /\ Verdict(p) # "Valid"
          /\ UNCHANGED <<nonces, handledAt, evicted>>
    /\ UNCHANGED <<time, senderVars, receiver, queueVars>>

\* cleanup_expired of the tracker, with the maximum age of the verification.
CleanupNonces ==
    /\ receiver.age > 0
    /\ nonces' = LET keep == {q \in DOMAIN nonces : nonces[q] >= Max({ReceiverTime - receiver.age, 0})}
                 IN  [q \in keep |-> nonces[q]]
    /\ nonces' # nonces
    /\ UNCHANGED <<time, senderVars, networkVars, receiver, handledAt, evicted, queueVars>>

-----------------------------------------------------------------------------
(* DeadLetterQueue *)

\* A bug DeadLettersKept must catch: room is made one entry too late.
EnqueuePastCapacity(q, e) == Append(IF Len(q) > DlqCapacity /\ q # <<>> THEN Tail(q) ELSE q, e)

\* WebhookQueue::enqueue: a capacity of zero still holds one entry.
Enqueue(q, e) == Append(IF Len(q) >= DlqCapacity /\ q # <<>> THEN Tail(q) ELSE q, e)

AddFailedDelivery ==
    /\ moved < Len(dlq)
    /\ moved' = moved + 1
    /\ deadQueue' = Enqueue(deadQueue, dlq[moved + 1])
    /\ UNCHANGED <<time, senderVars, networkVars, receiverVars, removed>>

CleanupDlq ==
    /\ deadQueue' = Kept(deadQueue, {e \in ToSet(deadQueue) : e.at >= Max({time - DlqRetention, 0})})
    /\ deadQueue' # deadQueue
    /\ UNCHANGED <<time, senderVars, networkVars, receiverVars, moved, removed>>

Enqueued(entries) ==
    LET queue[n \in 0..Len(entries)] ==
            IF n = 0 THEN <<>> ELSE Enqueue(queue[n - 1], entries[n])
    IN  queue[Len(entries)]

\* remove_entry drains the queue and enqueues the others again.
RemoveEntry(i) ==
    /\ i \in DOMAIN deadQueue
    /\ deadQueue' = Enqueued(RemoveAt(deadQueue, i))
    /\ removed' = removed \cup {deadQueue[i]}
    /\ UNCHANGED <<time, senderVars, networkVars, receiverVars, moved>>

-----------------------------------------------------------------------------

DeliveryTick ==
    /\ time < MaxDeliveryTime
    /\ time' = time + 1
    /\ UNCHANGED <<senderVars, networkVars, receiverVars, queueVars>>

SenderNext == TimeOut \/ \E status \in {200, 401} : TakeReply(status)

ReceiverNext ==
    \/ \E p \in Payloads, k \in 0..(MaxAttempts - 1), answered \in BOOLEAN : Arrive(p, k, answered)
    \/ CleanupNonces

LettersNext ==
    \/ AddFailedDelivery
    \/ CleanupDlq
    \/ \E i \in 1..(DlqCapacity + 1) : RemoveEntry(i)

DeliveryNext ==
    \/ DeliveryTick
    \/ SenderNext
    \/ \E p \in Payloads : Deliver(p) \/ Refuse(p)
    \/ ReceiverNext
    \/ LettersNext

\* The retry loop is straight-line code around an http_post that returns.
DeliverySpec == DeliveryInit /\ [][DeliveryNext]_deliveryVars /\ WF_deliveryVars(SenderNext)
-----------------------------------------------------------------------------
(* Properties *)

Promise == INSTANCE DeliveryPromise WITH
    outcome <- outcomes,
    handled <- {p \in Payloads : handledAt[p] # <<>>},
    letters <- {dlq[i].p : i \in DOMAIN dlq}

\* The retry loop, its dead letters and the receiver implement the promise: one
\* ending for each delivery, reported delivered only after it was handled.
DeliveryKeepsPromise == Promise!PromiseSpec

\* However often a request is retried, delayed or cleaned up after, the receiver
\* handles a payload once, unless its tracker was too small to remember it; and
\* it never handles one that is older than allowed.
HandledOnce ==
    \A p \in Payloads :
        /\ Len(handledAt[p]) > 1 => p \in evicted
        /\ receiver.age > 0 =>
             \A i \in DOMAIN handledAt[p] : handledAt[p][i] - sent[p] \in 0..(receiver.age - 1)

\* Each delivery given up on has one dead letter, filed at the time of its last
\* attempt; the queue the letters are moved to keeps their order and loses one
\* only to a removal, to newer letters or to the retention.
DeadLettersKept ==
    /\ \A p \in Payloads : Cardinality({i \in DOMAIN dlq : dlq[i].p = p})
                           = IF outcomes[p] = "dead" THEN 1 ELSE 0
    /\ \A i \in DOMAIN dlq : dlq[i].at >= sent[dlq[i].p]
    /\ Len(deadQueue) <= Max({DlqCapacity, 1})
    /\ \A i, j \in DOMAIN deadQueue : i < j => SelectInSeq(dlq, LAMBDA e : e = deadQueue[i])
                                              < SelectInSeq(dlq, LAMBDA e : e = deadQueue[j])
    /\ \A i \in 1..moved :
          \/ dlq[i] \in removed \cup ToSet(deadQueue)
          \/ dlq[i].at < time - DlqRetention
          \/ i + Max({DlqCapacity, 1}) <= moved

\* Webhook deliveries: a receiver handles one once, whatever is retried or replayed,
\* and the dead letter queue keeps what it has room for.
DeliveriesSound == HandledOnce /\ DeadLettersKept
=============================================================================
