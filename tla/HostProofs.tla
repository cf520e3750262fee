----------------------------- MODULE HostProofs -----------------------------
(***************************************************************************)
(* Proofs about the host side, for every value of the constants: retries   *)
(* stay within their policy and budget (Retry), a webhook is handled once, *)
(* its delivery keeps its promise and no letter is lost from the queue of  *)
(* dead letters (WebhookDelivery), what reloads and commands share in      *)
(* files stays sound (OperatorTools), and the monitor tells what it polled *)
(* while an alert goes out once per window and destination (Monitoring).   *)
(***************************************************************************)
EXTENDS Retry, WebhookDelivery, Monitoring, OperatorTools, FiniteSetTheorems

-----------------------------------------------------------------------------
(* Webhook delivery *)

\* The delivery of a payload has begun.
Known(p) == outcomes[p] \notin {"new", "refused"}

\* What was handled is remembered by the tracker, or was dropped at its capacity, or is
\* too old to be handled again.
Remembered(p) ==
    \/ p \in DOMAIN nonces
    \/ p \in evicted
    \/ receiver.age > 0 /\ ReceiverTime - sent[p] >= receiver.age

\* The delivery in progress is one that was begun, requests are only of such, and an answer
\* that says so comes from a receiver that has handled it.
SenderInv ==
    /\ outcomes \in [Payloads -> {"new", "refused", "sending", "delivered", "dead"}]
    /\ job # NoJob => /\ job \in [p : Payloads, attempt : 0..(MaxAttempts - 1)]
                      /\ outcomes[job.p] = "sending"
    /\ dlq \in Seq([p : Payloads, at : Nat, status : Nat, attempts : Nat])
    /\ wire \subseteq Payloads \X (0..(MaxAttempts - 1))
    /\ \A r \in wire : Known(r[1])
    /\ replies \subseteq {200, 401}
    /\ replies # {} => job # NoJob
    /\ 200 \in replies => handledAt[job.p] # <<>>

\* The tracker holds the timestamps of payloads that were sent, and remembers what was
\* handled.
ReceiverInv ==
    /\ time \in Nat
    /\ receiver \in Receivers
    /\ sent \in [Payloads -> Nat]
    /\ handledAt \in [Payloads -> Seq(Int)]
    /\ DOMAIN nonces \subseteq Payloads
    /\ \A p \in DOMAIN nonces : Known(p) /\ nonces[p] = sent[p]
    /\ \A p \in Payloads : handledAt[p] # <<>> => Known(p) /\ Remembered(p)
    /\ HandledOnce

DeliveryInv == SenderInv /\ ReceiverInv

\* At the start nothing was sent and nothing is remembered.
LEMMA DeliveryInvInit == DeliveryInit => DeliveryInv
<1> SUFFICES ASSUME DeliveryInit PROVE DeliveryInv
    OBVIOUS
<1> USE DeliveryConstants DEF DeliveryConstants, DeliveryInit
<1>1. SenderInv
    BY DEF SenderInv
<1>2. ReceiverInv
  <2>1. DOMAIN nonces = {}
      OBVIOUS
  <2>2. HandledOnce
      BY DEF HandledOnce
  <2> QED
      BY <2>1, <2>2 DEF ReceiverInv
<1> QED
    BY <1>1, <1>2 DEF DeliveryInv

\* A delivery begins, or is refused, only for a payload nobody has sent.
LEMMA BeginStep ==
    ASSUME DeliveryInv, NEW p \in Payloads, Deliver(p) \/ Refuse(p)
    PROVE  DeliveryInv'
<1> USE DeliveryConstants DEF DeliveryConstants, DeliveryInv
<1>1. /\ job = NoJob /\ outcomes[p] = "new"
      /\ UNCHANGED <<time, dlq, replies, receiverVars, queueVars>>
    BY DEF Deliver, Refuse, networkVars
<1>2. /\ handledAt[p] = <<>> /\ p \notin DOMAIN nonces
      /\ replies = {}
    BY <1>1 DEF ReceiverInv, SenderInv, Known
<1>3. CASE Deliver(p)
  <2>1. /\ job' = [p |-> p, attempt |-> 0]
        /\ sent' = [sent EXCEPT ![p] = time]
        /\ outcomes' = [outcomes EXCEPT ![p] = "sending"]
        /\ wire' = wire \cup {<<p, 0>>}
      BY <1>3 DEF Deliver
  <2>2. \A q \in Payloads : Known(q) => Known(q)'
      BY <2>1 DEF Known, SenderInv
  <2>3. \A q \in Payloads : q # p => sent'[q] = sent[q]
      BY <2>1 DEF ReceiverInv
  <2>4. Known(p)'
      BY <2>1 DEF Known, SenderInv
  <2>5. SenderInv'
    <3>1. job'.p = p /\ outcomes'[p] = "sending" /\ 0 \in 0..(MaxAttempts - 1)
        BY <2>1 DEF SenderInv
    <3>2. \A r \in wire' : Known(r[1])'
        BY <2>1, <2>2, <2>4 DEF SenderInv
    <3> QED
        BY <1>1, <1>2, <2>1, <3>1, <3>2 DEF SenderInv
  <2>6. ReceiverInv'
    <3>1. sent' \in [Payloads -> Nat]
        BY <2>1 DEF ReceiverInv
    <3>2. \A q \in DOMAIN nonces : Known(q)' /\ nonces[q] = sent'[q]
        BY <1>2, <2>2, <2>3 DEF ReceiverInv
    <3>3. \A q \in Payloads : handledAt[q] # <<>> => Known(q)' /\ Remembered(q)'
        BY <1>1, <1>2, <2>2, <2>3 DEF ReceiverInv, Remembered, ReceiverTime, receiverVars
    <3>4. HandledOnce'
      <4>1. UNCHANGED <<receiver, handledAt, evicted>> /\ HandledOnce
          BY <1>1 DEF ReceiverInv, receiverVars
      <4>2. Len(handledAt[p]) = 0 /\ DOMAIN handledAt[p] = {}
          BY <1>2
      <4> QED
          BY <2>3, <4>1, <4>2 DEF HandledOnce
    <3> QED
        BY <1>1, <3>1, <3>2, <3>3, <3>4 DEF ReceiverInv, receiverVars
  <2> QED
      BY <2>5, <2>6
<1>4. CASE Refuse(p)
  <2>1. /\ outcomes' = [outcomes EXCEPT ![p] = "refused"]
        /\ UNCHANGED <<job, sent, wire>>
      BY <1>4 DEF Refuse, networkVars
  <2>2. \A q \in Payloads : Known(q) => Known(q)'
      BY <1>1, <2>1 DEF Known, SenderInv
  <2>3. SenderInv'
      BY <1>1, <1>2, <2>1, <2>2 DEF SenderInv
  <2>4. ReceiverInv'
      BY <1>1, <2>1, <2>2 DEF ReceiverInv, Remembered, ReceiverTime, HandledOnce, receiverVars
  <2> QED
      BY <2>3, <2>4
<1> QED
    BY <1>3, <1>4

\* What the sender does to its delivery does not concern the receiver.
LEMMA ReceiverKept ==
    ASSUME DeliveryInv, UNCHANGED <<time, sent, receiverVars>>,
           \A q \in Payloads : Known(q) => Known(q)'
    PROVE  ReceiverInv'
    BY DEF DeliveryInv, ReceiverInv, Remembered, ReceiverTime, HandledOnce, receiverVars

\* A failed attempt is repeated, or its delivery is filed as dead.
LEMMA FailureStep ==
    ASSUME DeliveryInv, job # NoJob, NEW status \in Nat, AttemptFailed(status)
    PROVE  DeliveryInv'
<1> USE DeliveryConstants DEF DeliveryConstants
<1> DEFINE Job == [p : Payloads, attempt : 0..(MaxAttempts - 1)]
<1>1. /\ job \in Job /\ outcomes[job.p] = "sending"
      /\ job.p \in Payloads /\ job.attempt \in 0..(MaxAttempts - 1)
    BY DEF DeliveryInv, SenderInv
<1>2. replies' = {} /\ UNCHANGED <<time, sent, receiverVars, queueVars>>
    BY DEF AttemptFailed
<1>3. \A q \in Payloads : Known(q) => Known(q)'
    BY <1>1 DEF AttemptFailed, Known, DeliveryInv, SenderInv
<1>4. ReceiverInv'
    BY <1>2, <1>3, ReceiverKept
<1>5. CASE job.attempt + 1 < MaxAttempts
  <2>1. /\ job' = [job EXCEPT !.attempt = @ + 1]
        /\ wire' = wire \cup {<<job.p, job.attempt + 1>>}
        /\ UNCHANGED <<outcomes, dlq>>
      BY <1>5 DEF AttemptFailed
  <2>2. job.attempt + 1 \in 0..(MaxAttempts - 1)
      BY <1>1, <1>5
  <2>3. job' \in Job /\ job'.p = job.p
      BY <1>1, <2>1, <2>2
  <2>4. wire' \subseteq Payloads \X (0..(MaxAttempts - 1)) /\ \A r \in wire' : Known(r[1])'
      BY <1>1, <1>3, <2>1, <2>2 DEF DeliveryInv, SenderInv, Known
  <2>5. SenderInv'
      BY <1>1, <1>2, <2>1, <2>3, <2>4 DEF DeliveryInv, SenderInv
  <2> QED
      BY <1>4, <2>5 DEF DeliveryInv
<1>6. CASE ~(job.attempt + 1 < MaxAttempts)
  <2>1. /\ job' = NoJob
        /\ outcomes' = [outcomes EXCEPT ![job.p] = "dead"]
        /\ dlq' = Append(dlq, DlqEntry(job.p, status))
        /\ wire' = wire
      BY <1>6 DEF AttemptFailed
  <2>2. DlqEntry(job.p, status) \in [p : Payloads, at : Nat, status : Nat, attempts : Nat]
      BY <1>1 DEF DlqEntry, DeliveryInv, ReceiverInv
  <2>3. SenderInv'
      BY <1>1, <1>2, <1>3, <2>1, <2>2 DEF DeliveryInv, SenderInv
  <2> QED
      BY <1>4, <2>3 DEF DeliveryInv
<1> QED
    BY <1>5, <1>6

\* An answer ends the delivery well or counts as a failure.
LEMMA ReplyStep ==
    ASSUME DeliveryInv, NEW status \in {200, 401}, TakeReply(status)
    PROVE  DeliveryInv'
<1>1. job # NoJob /\ status \in Nat
    BY DEF TakeReply
<1>2. CASE AttemptFailed(status)
    BY <1>1, <1>2, FailureStep
<1>3. CASE ~AttemptFailed(status)
  <2>1. /\ job' = NoJob /\ replies' = {}
        /\ outcomes' = [outcomes EXCEPT ![job.p] = "delivered"]
        /\ UNCHANGED <<time, sent, dlq, wire, receiverVars, queueVars>>
      BY <1>3 DEF TakeReply
  <2>2. outcomes[job.p] = "sending" /\ job.p \in Payloads
      BY <1>1 DEF DeliveryInv, SenderInv
  <2>3. \A q \in Payloads : Known(q) => Known(q)'
      BY <2>1, <2>2 DEF Known, DeliveryInv, SenderInv
  <2>4. SenderInv'
      BY <2>1, <2>2, <2>3 DEF DeliveryInv, SenderInv
  <2> QED
      BY <2>1, <2>3, <2>4, ReceiverKept DEF DeliveryInv
<1> QED
    BY <1>2, <1>3

\* A payload that is valid on arrival was not handled before, unless the tracker dropped
\* its nonce.
LEMMA ValidIsNew ==
    ASSUME DeliveryInv, NEW p \in Payloads, Verdict(p) = "Valid"
    PROVE  /\ handledAt[p] # <<>> => p \in evicted
           /\ p \notin DOMAIN nonces
           /\ sent[p] \in Nat
           /\ ReceiverTime \in Int
           /\ receiver.age > 0 => ReceiverTime - sent[p] \in 0..(receiver.age - 1)
<1>1. receiver.age \in Nat /\ receiver.skew \in Int /\ time \in Nat /\ sent[p] \in Nat
    BY DeliveryConstants DEF DeliveryConstants, DeliveryInv, ReceiverInv
<1>2. Fresh(p) /\ p \notin DOMAIN nonces
    BY DEF Verdict
<1>3. ReceiverTime \in Int
    BY <1>1 DEF ReceiverTime
<1>4. receiver.age > 0 => ReceiverTime - sent[p] \in 0..(receiver.age - 1)
    BY <1>1, <1>2, <1>3 DEF Fresh
<1>5. handledAt[p] # <<>> => p \in evicted
    BY <1>1, <1>2, <1>3, <1>4 DEF DeliveryInv, ReceiverInv, Remembered
<1> QED
    BY <1>1, <1>2, <1>3, <1>4, <1>5

\* A request that arrives, however late, is handled or refused.
LEMMA ArrivalStep ==
    ASSUME DeliveryInv, NEW p \in Payloads, NEW k \in 0..(MaxAttempts - 1),
           NEW answered \in BOOLEAN, Arrive(p, k, answered)
    PROVE  DeliveryInv'
<1>1. /\ <<p, k>> \in wire
      /\ wire' = wire \ {<<p, k>>}
      /\ UNCHANGED <<time, job, sent, outcomes, dlq, receiver, queueVars>>
    BY DEF Arrive, senderVars
<1>2. Known(p) /\ \A q : Known(q)' <=> Known(q)
    BY <1>1 DEF DeliveryInv, SenderInv, Known
<1>3. /\ replies' \subseteq replies \cup {200, 401}
      /\ replies' # replies => job # NoJob /\ job.p = p
      /\ 200 \in replies' => 200 \in replies \/ (job.p = p /\ Verdict(p) = "Valid")
  <2>1. CASE answered /\ job = [p |-> p, attempt |-> k]
    <3>1. replies' = replies \cup {IF Verdict(p) = "Valid" THEN 200 ELSE 401}
        BY <2>1 DEF Arrive
    <3>2. job.p = p /\ job # NoJob
        BY <2>1, DeliveryConstants DEF DeliveryConstants
    <3> QED
        BY <3>1, <3>2
  <2>2. CASE ~(answered /\ job = [p |-> p, attempt |-> k])
      BY <2>2 DEF Arrive
  <2> QED
      BY <2>1, <2>2
<1>4. /\ \A q \in Payloads : handledAt[q] # <<>> => handledAt'[q] # <<>>
      /\ Verdict(p) = "Valid" => handledAt'[p] # <<>>
      /\ ReceiverInv'
  <2>1. CASE Verdict(p) = "Valid"
    <3>1. PICK drop \in SUBSET DOMAIN nonces :
            /\ nonces' = Recorded(p, drop)
            /\ evicted' = evicted \cup drop
        BY <2>1 DEF Arrive
    <3>2. handledAt' = [handledAt EXCEPT ![p] = Append(@, ReceiverTime)]
        BY <2>1 DEF Arrive
    <3>3. ReceiverTime \in Int /\ handledAt \in [Payloads -> Seq(Int)] /\ ReceiverInv
        BY <2>1, ValidIsNew DEF DeliveryInv, ReceiverInv
    <3>4. /\ handledAt' \in [Payloads -> Seq(Int)]
          /\ handledAt'[p] = Append(handledAt[p], ReceiverTime)
          /\ \A q \in Payloads \ {p} : handledAt'[q] = handledAt[q]
        BY <3>2, <3>3
    <3>5. /\ Len(handledAt'[p]) = Len(handledAt[p]) + 1
          /\ DOMAIN handledAt'[p] = 1..(Len(handledAt[p]) + 1)
          /\ DOMAIN handledAt[p] = 1..Len(handledAt[p])
          /\ \A i \in DOMAIN handledAt[p] : handledAt'[p][i] = handledAt[p][i]
          /\ handledAt'[p][Len(handledAt[p]) + 1] = ReceiverTime
          /\ Len(handledAt[p]) \in Nat
          /\ handledAt[p] = <<>> <=> Len(handledAt[p]) = 0
        BY <3>3, <3>4, EmptySeq, AppendProperties
    <3>6. /\ DOMAIN nonces' = (DOMAIN nonces \ drop) \cup {p}
          /\ \A q \in DOMAIN nonces' : nonces'[q] = IF q = p THEN sent[p] ELSE nonces[q]
        BY <3>1 DEF Recorded
    <3>7. \A q \in DOMAIN nonces' : Known(q)' /\ nonces'[q] = sent'[q]
        BY <1>1, <1>2, <3>3, <3>6 DEF ReceiverInv
    <3>8. \A q \in Payloads : handledAt'[q] # <<>> => Known(q)' /\ Remembered(q)'
        BY <1>1, <1>2, <3>1, <3>3, <3>4, <3>6 DEF ReceiverInv, Remembered, ReceiverTime
    <3>9. HandledOnce'
      <4>1. ASSUME NEW q \in Payloads, q # p
            PROVE  /\ Len(handledAt'[q]) > 1 => q \in evicted'
                   /\ receiver'.age > 0 =>
                        \A i \in DOMAIN handledAt'[q] : handledAt'[q][i] - sent'[q] \in 0..(receiver'.age - 1)
          BY <1>1, <3>1, <3>3, <3>4, <4>1 DEF ReceiverInv, HandledOnce
      <4>2. Len(handledAt'[p]) > 1 => p \in evicted'
          BY <2>1, <3>1, <3>5, ValidIsNew
      <4>3. ASSUME receiver'.age > 0, NEW i \in DOMAIN handledAt'[p]
            PROVE  handledAt'[p][i] - sent'[p] \in 0..(receiver'.age - 1)
        <5>1. CASE i = Len(handledAt[p]) + 1
            BY <1>1, <2>1, <3>5, <4>3, <5>1, ValidIsNew
        <5>2. CASE i \in DOMAIN handledAt[p]
            BY <1>1, <3>3, <3>5, <4>3, <5>2 DEF ReceiverInv, HandledOnce
        <5> QED
            BY <3>5, <5>1, <5>2
      <4> QED
          BY <4>1, <4>2, <4>3 DEF HandledOnce
    <3>10. DOMAIN nonces' \subseteq Payloads
        BY <3>3, <3>6 DEF ReceiverInv
    <3>11. ReceiverInv'
        BY <1>1, <3>3, <3>4, <3>7, <3>8, <3>9, <3>10 DEF ReceiverInv
    <3> QED
        BY <3>4, <3>5, <3>11
  <2>2. CASE Verdict(p) # "Valid"
    <3>1. UNCHANGED <<time, sent, receiverVars>>
        BY <1>1, <2>2 DEF Arrive, receiverVars
    <3> QED
        BY <1>2, <2>2, <3>1, ReceiverKept DEF receiverVars
  <2> QED
      BY <2>1, <2>2
<1>5. SenderInv'
  <2>1. \A r \in wire' : Known(r[1])'
      BY <1>1, <1>2 DEF DeliveryInv, SenderInv
  <2>2. replies' \subseteq {200, 401} /\ (replies' # {} => job' # NoJob)
      BY <1>1, <1>3 DEF DeliveryInv, SenderInv
  <2>3. 200 \in replies' => handledAt'[job'.p] # <<>>
    <3> SUFFICES ASSUME 200 \in replies' PROVE handledAt'[job.p] # <<>>
        BY <1>1
    <3>1. job # NoJob
        BY <1>1, <2>2
    <3>2. job.p \in Payloads
        BY <3>1 DEF DeliveryInv, SenderInv
    <3> QED
        BY <1>3, <1>4, <3>2 DEF DeliveryInv, SenderInv
  <2> QED
      BY <1>1, <1>2, <2>1, <2>2, <2>3 DEF DeliveryInv, SenderInv, Known
<1> QED
    BY <1>4, <1>5 DEF DeliveryInv

\* What the sender keeps does not depend on the receiver's tracker, nor on the clock.
LEMMA SenderKept ==
    ASSUME DeliveryInv, UNCHANGED <<senderVars, networkVars, handledAt>>
    PROVE  SenderInv'
    BY DEF DeliveryInv, SenderInv, senderVars, networkVars, Known

\* A cleanup forgets only nonces of payloads that are too old to be handled again.
LEMMA CleanupStep ==
    ASSUME DeliveryInv, CleanupNonces
    PROVE  DeliveryInv'
<1> DEFINE bound == Max({ReceiverTime - receiver.age, 0})
<1>1. /\ receiver.age > 0
      /\ DOMAIN nonces' = {q \in DOMAIN nonces : nonces[q] >= bound}
      /\ \A q \in DOMAIN nonces' : nonces'[q] = nonces[q]
      /\ UNCHANGED <<time, senderVars, networkVars, receiver, handledAt, evicted>>
    BY DEF CleanupNonces
<1>2. receiver.age \in Nat /\ receiver.skew \in Int /\ time \in Nat /\ ReceiverTime \in Int
    BY DeliveryConstants DEF DeliveryConstants, DeliveryInv, ReceiverInv, ReceiverTime
<1>3. bound = IF ReceiverTime - receiver.age >= 0 THEN ReceiverTime - receiver.age ELSE 0
  <2>1. ReceiverTime - receiver.age \in Int /\ 0 \in Int
      BY <1>2
  <2> QED
      BY <2>1, MinMaxOfTwo
<1> HIDE DEF bound
<1>4. ASSUME NEW q \in Payloads, handledAt[q] # <<>> PROVE Remembered(q)'
  <2>1. Remembered(q) /\ sent[q] \in Nat
      BY <1>4 DEF DeliveryInv, ReceiverInv
  <2>2. ReceiverTime' = ReceiverTime /\ sent' = sent
      BY <1>1 DEF ReceiverTime, senderVars
  <2>3. CASE q \in DOMAIN nonces /\ q \notin DOMAIN nonces'
    <3>1. ~(sent[q] >= bound)
        BY <1>1, <2>3 DEF DeliveryInv, ReceiverInv
    <3>2. ReceiverTime - sent[q] >= receiver.age
        BY <1>2, <1>3, <2>1, <3>1
    <3> QED
        BY <1>1, <2>2, <3>2 DEF Remembered
  <2> QED
      BY <1>1, <2>1, <2>2, <2>3 DEF Remembered
<1>5. ReceiverInv'
    BY <1>1, <1>4 DEF DeliveryInv, ReceiverInv, HandledOnce, Known, senderVars
<1> QED
    BY <1>1, <1>5, SenderKept DEF DeliveryInv

\* Time only ages what was handled.
LEMMA DeliveryTickStep ==
    ASSUME DeliveryInv, DeliveryTick
    PROVE  DeliveryInv'
<1>1. time' = time + 1 /\ UNCHANGED <<senderVars, networkVars, receiverVars>>
    BY DEF DeliveryTick
<1>2. receiver.age \in Nat /\ receiver.skew \in Int /\ time \in Nat
    BY DeliveryConstants DEF DeliveryConstants, DeliveryInv, ReceiverInv
<1>3. ASSUME NEW q \in Payloads, handledAt[q] # <<>> PROVE Remembered(q)'
  <2>1. Remembered(q) /\ sent[q] \in Nat
      BY <1>3 DEF DeliveryInv, ReceiverInv
  <2> QED
      BY <1>1, <1>2, <2>1 DEF Remembered, ReceiverTime, senderVars, receiverVars
<1>4. ReceiverInv'
    BY <1>1, <1>2, <1>3 DEF DeliveryInv, ReceiverInv, HandledOnce, Known, senderVars, receiverVars
<1> QED
    BY <1>1, <1>4, SenderKept DEF DeliveryInv, receiverVars

\* Every step preserves the invariant.
LEMMA DeliveryInvStep == DeliveryInv /\ [DeliveryNext]_deliveryVars => DeliveryInv'
<1> SUFFICES ASSUME DeliveryInv, [DeliveryNext]_deliveryVars PROVE DeliveryInv'
    OBVIOUS
<1>1. CASE DeliveryTick
    BY <1>1, DeliveryTickStep
<1>2. CASE SenderNext
  <2>1. CASE TimeOut
      BY <2>1, FailureStep DEF TimeOut
  <2>2. CASE \E status \in {200, 401} : TakeReply(status)
      BY <2>2, ReplyStep
  <2> QED
      BY <1>2, <2>1, <2>2 DEF SenderNext
<1>3. CASE \E p \in Payloads : Deliver(p) \/ Refuse(p)
    BY <1>3, BeginStep
<1>4. CASE ReceiverNext
    BY <1>4, ArrivalStep, CleanupStep DEF ReceiverNext
<1>5. CASE LettersNext \/ UNCHANGED deliveryVars
  <2>1. UNCHANGED <<time, senderVars, networkVars, receiverVars>>
      BY <1>5 DEF LettersNext, AddFailedDelivery, CleanupDlq, RemoveEntry, deliveryVars
  <2>2. \A q \in Payloads : Known(q) => Known(q)'
      BY <2>1 DEF Known, senderVars
  <2> QED
      BY <2>1, <2>2, SenderKept, ReceiverKept DEF DeliveryInv, senderVars, receiverVars
<1> QED
    BY <1>1, <1>2, <1>3, <1>4, <1>5 DEF DeliveryNext

\* However often a request is retried, delayed or cleaned up after, the receiver handles a
\* payload once, unless its tracker was too small to remember it, and never one older than
\* allowed (verify_webhook_signature_with_replay_protection).
THEOREM HandledOnceHolds == DeliverySpec => []HandledOnce
<1>1. DeliveryInv => HandledOnce
    BY DEF DeliveryInv, ReceiverInv
<1> QED
    BY <1>1, DeliveryInvInit, DeliveryInvStep, PTL DEF DeliverySpec

\* A failed attempt goes unnoticed, or is the end of its delivery.
LEMMA FailureKeepsPromise ==
    ASSUME DeliveryInv, job # NoJob, NEW status \in Nat, AttemptFailed(status)
    PROVE  [Promise!PromiseNext]_(Promise!promiseVars)
<1>1. handledAt' = handledAt
    BY DEF AttemptFailed, receiverVars
<1>2. CASE job.attempt + 1 < MaxAttempts
  <2>1. UNCHANGED <<outcomes, dlq>>
      BY <1>2 DEF AttemptFailed
  <2> QED
      BY <1>1, <2>1 DEF Promise!promiseVars
<1>3. CASE ~(job.attempt + 1 < MaxAttempts)
  <2>1. /\ outcomes' = [outcomes EXCEPT ![job.p] = "dead"]
        /\ dlq' = Append(dlq, DlqEntry(job.p, status))
      BY <1>3 DEF AttemptFailed
  <2>2. job.p \in Payloads /\ outcomes[job.p] = "sending"
      BY DEF DeliveryInv, SenderInv
  <2> DEFINE Letter == [p : Payloads, at : Nat, status : Nat, attempts : Nat]
             e == DlqEntry(job.p, status)
  <2>3. e \in Letter /\ e.p = job.p /\ dlq \in Seq(Letter)
      BY <2>2, DeliveryConstants
      DEF DlqEntry, DeliveryConstants, DeliveryInv, SenderInv, ReceiverInv
  <2>4. /\ DOMAIN dlq = 1..Len(dlq) /\ DOMAIN dlq' = 1..(Len(dlq) + 1)
        /\ \A i \in DOMAIN dlq : dlq'[i] = dlq[i]
        /\ dlq'[Len(dlq) + 1] = e
    <3> HIDE DEF e, Letter
    <3>1. dlq' = Append(dlq, e) /\ e \in Letter /\ dlq \in Seq(Letter)
        BY <2>1, <2>3 DEF e
    <3>2. /\ Len(dlq) \in Nat /\ DOMAIN dlq = 1..Len(dlq)
          /\ Len(dlq') = Len(dlq) + 1 /\ dlq' \in Seq(Letter)
          /\ \A i \in 1..Len(dlq) : dlq'[i] = dlq[i]
          /\ dlq'[Len(dlq) + 1] = e
        BY <3>1, AppendProperties
    <3>3. DOMAIN dlq' = 1..(Len(dlq) + 1)
        BY <3>2
    <3> QED
        BY <3>2, <3>3
  <2>5. {dlq'[i].p : i \in DOMAIN dlq'} = {dlq[i].p : i \in DOMAIN dlq} \cup {job.p}
    <3> DEFINE old == {dlq[i].p : i \in DOMAIN dlq}
    <3>1. Len(dlq) \in Nat
        BY <2>3
    <3>2. DOMAIN dlq' = DOMAIN dlq \cup {Len(dlq) + 1}
        BY <2>4, <3>1
    <3>3. \A i \in DOMAIN dlq' : dlq'[i].p \in old \cup {job.p}
        BY <2>3, <2>4, <3>2
    <3>4. \A q \in old \cup {job.p} : \E i \in DOMAIN dlq' : q = dlq'[i].p
        BY <2>3, <2>4, <3>2
    <3> QED
        BY <3>3, <3>4
  <2>6. PICK q \in Payloads : q = job.p
      BY <2>2
  <2>7. Promise!GiveUp(q)
      BY <1>1, <2>1, <2>2, <2>5, <2>6 DEF Promise!GiveUp
  <2> QED
      BY <2>7 DEF Promise!PromiseNext
<1> QED
    BY <1>2, <1>3

\* Every step of sender, network and receiver is a step of the promise, or none.
LEMMA PromiseStep ==
    ASSUME DeliveryInv, [DeliveryNext]_deliveryVars
    PROVE  [Promise!PromiseNext]_(Promise!promiseVars)
<1>1. ASSUME UNCHANGED <<outcomes, handledAt, dlq>>
      PROVE  [Promise!PromiseNext]_(Promise!promiseVars)
    BY <1>1 DEF Promise!promiseVars
<1>2. CASE SenderNext
  <2>1. CASE TimeOut
      BY <2>1, FailureKeepsPromise DEF TimeOut
  <2>2. ASSUME NEW status \in {200, 401}, TakeReply(status)
        PROVE  [Promise!PromiseNext]_(Promise!promiseVars)
    <3>1. job # NoJob /\ status \in replies /\ status \in Nat
        BY <2>2 DEF TakeReply
    <3>2. CASE AttemptFailed(status)
        BY <3>1, <3>2, FailureKeepsPromise
    <3>3. CASE ~AttemptFailed(status)
      <4>1. /\ status = 200
            /\ outcomes' = [outcomes EXCEPT ![job.p] = "delivered"]
            /\ UNCHANGED <<handledAt, dlq>>
          BY <2>2, <3>3 DEF TakeReply, receiverVars
      <4>2. /\ job.p \in Payloads /\ outcomes[job.p] = "sending"
            /\ handledAt[job.p] # <<>>
          BY <3>1, <4>1 DEF DeliveryInv, SenderInv
      <4>3. Promise!Succeed(job.p)
          BY <4>1, <4>2 DEF Promise!Succeed
      <4> QED
          BY <4>2, <4>3 DEF Promise!PromiseNext
    <3> QED
        BY <3>2, <3>3
  <2> QED
      BY <1>2, <2>1, <2>2 DEF SenderNext
<1>3. ASSUME NEW p \in Payloads, Deliver(p) \/ Refuse(p)
      PROVE  [Promise!PromiseNext]_(Promise!promiseVars)
  <2>1. outcomes[p] = "new" /\ UNCHANGED <<handledAt, dlq>>
      BY <1>3 DEF Deliver, Refuse, receiverVars
  <2>2. Promise!Start(p) \/ Promise!Decline(p)
      BY <1>3, <2>1 DEF Deliver, Refuse, Promise!Start, Promise!Decline
  <2> QED
      BY <2>2 DEF Promise!PromiseNext
<1>4. ASSUME NEW p \in Payloads, NEW k \in 0..(MaxAttempts - 1), NEW answered \in BOOLEAN,
             Arrive(p, k, answered)
      PROVE  [Promise!PromiseNext]_(Promise!promiseVars)
  <2>1. UNCHANGED <<outcomes, dlq>>
      BY <1>4 DEF Arrive, senderVars
  <2>2. CASE Verdict(p) # "Valid"
      BY <1>1, <1>4, <2>1, <2>2 DEF Arrive
  <2>3. CASE Verdict(p) = "Valid"
    <3>1. outcomes[p] \notin {"new", "refused"}
        BY <1>4 DEF Arrive, DeliveryInv, SenderInv, Known
    <3>2. handledAt \in [Payloads -> Seq(Int)] /\ ReceiverTime \in Int
        BY <2>3, ValidIsNew DEF DeliveryInv, ReceiverInv
    <3>3. handledAt' = [handledAt EXCEPT ![p] = Append(@, ReceiverTime)]
        BY <1>4, <2>3 DEF Arrive
    <3>4. handledAt'[p] # <<>>
        BY <3>2, <3>3, AppendProperties, EmptySeq
    <3>5. {q \in Payloads : handledAt'[q] # <<>>} = {q \in Payloads : handledAt[q] # <<>>} \cup {p}
        BY <3>2, <3>3, <3>4
    <3>6. Promise!Handle(p)
        BY <2>1, <3>1, <3>5 DEF Promise!Handle
    <3> QED
        BY <3>6 DEF Promise!PromiseNext
  <2> QED
      BY <2>2, <2>3
<1>5. CASE DeliveryTick \/ CleanupNonces \/ LettersNext \/ UNCHANGED deliveryVars
  <2>1. UNCHANGED <<outcomes, handledAt, dlq>>
      BY <1>5
      DEF DeliveryTick, CleanupNonces, LettersNext, AddFailedDelivery, CleanupDlq, RemoveEntry,
          deliveryVars, senderVars, receiverVars
  <2> QED
      BY <1>1, <2>1
<1> QED
    BY <1>2, <1>3, <1>4, <1>5 DEF DeliveryNext, ReceiverNext

\* deliver_webhook, its dead letters and the receiver keep the safety part of the promise:
\* a payload is refused outright or ends delivered or filed, never both, and is reported
\* delivered only after it was handled.
THEOREM DeliveryIsSafe == DeliverySpec => Promise!PromiseSafety
<1>1. DeliveryInit => Promise!PromiseInit
  <2> SUFFICES ASSUME DeliveryInit PROVE Promise!PromiseInit
      OBVIOUS
  <2>1. {p \in Payloads : handledAt[p] # <<>>} = {} /\ {dlq[i].p : i \in DOMAIN dlq} = {}
      BY DEF DeliveryInit
  <2> QED
      BY <2>1 DEF DeliveryInit, Promise!PromiseInit
<1>2. DeliveryInv /\ [DeliveryNext]_deliveryVars => [Promise!PromiseNext]_(Promise!promiseVars)
    BY PromiseStep
<1> QED
    BY <1>1, <1>2, DeliveryInvInit, DeliveryInvStep, PTL DEF DeliverySpec, Promise!PromiseSafety


-----------------------------------------------------------------------------
(* Dead letters *)

Letter == [p : Payloads, at : Nat, status : Nat, attempts : Nat]

\* What a DeadLetterQueue holds at most: a capacity of zero still holds one entry.
DlqRoom == Max({DlqCapacity, 1})

\* A delivery given up on, and no other, has one letter.
FiledInv ==
    /\ time \in Nat
    /\ dlq \in Seq(Letter)
    /\ \A p \in Payloads : sent[p] \in Nat /\ sent[p] <= time
    /\ \A i \in DOMAIN dlq : outcomes[dlq[i].p] = "dead" /\ sent[dlq[i].p] <= dlq[i].at
    /\ \A i, j \in DOMAIN dlq : dlq[i].p = dlq[j].p => i = j
    /\ \A p \in Payloads : outcomes[p] = "dead" => \E i \in DOMAIN dlq : dlq[i].p = p
    /\ moved \in Nat /\ moved <= Len(dlq)

\* The order in which the letters were filed.
FiledBefore == {xy \in Letter \X Letter : \E i, j \in DOMAIN dlq : i < j /\ xy = <<dlq[i], dlq[j]>>}

\* What became of the letters that were moved.
LettersAccounted ==
    \A i \in 1..moved :
        \/ dlq[i] \in removed \cup ToSet(deadQueue)
        \/ dlq[i].at < time - DlqRetention
        \/ i + DlqRoom <= moved

QueueInv ==
    /\ deadQueue \in Seq(Letter)
    /\ \A k \in 1..Len(deadQueue) : \E i \in 1..moved : deadQueue[k] = dlq[i]
    /\ \A k, l \in 1..Len(deadQueue) : k < l => <<deadQueue[k], deadQueue[l]>> \in FiledBefore
    /\ Len(deadQueue) <= DlqRoom
    /\ LettersAccounted

LettersInv == FiledInv /\ QueueInv

\* The queue has room for one letter at least.
LEMMA DlqRoomIs ==
    DlqRoom = (IF DlqCapacity >= 1 THEN DlqCapacity ELSE 1) /\ DlqRoom \in Nat \ {0}
<1>1. DlqCapacity \in Nat
    BY DeliveryConstants DEF DeliveryConstants
<1>2. DlqRoom = IF DlqCapacity >= 1 THEN DlqCapacity ELSE 1
    BY <1>1, MinMaxOfTwo DEF DlqRoom
<1> QED
    BY <1>1, <1>2

\* At the start nothing is filed and nothing moved.
LEMMA LettersInvInit == DeliveryInit => LettersInv
<1> SUFFICES ASSUME DeliveryInit PROVE LettersInv
    OBVIOUS
<1>1. /\ dlq = <<>> /\ deadQueue = <<>> /\ moved = 0 /\ time = 1
      /\ \A p \in Payloads : sent[p] = 0 /\ outcomes[p] = "new"
    BY DEF DeliveryInit
<1>2. /\ dlq \in Seq(Letter) /\ deadQueue \in Seq(Letter)
      /\ Len(dlq) = 0 /\ Len(deadQueue) = 0 /\ DOMAIN dlq = {}
  <2> HIDE DEF Letter
  <2> QED
    BY <1>1, EmptySeq
<1>3. FiledInv
    BY <1>1, <1>2 DEF FiledInv
<1>4. 1..0 = {} /\ DlqRoom \in Nat
    BY DlqRoomIs
<1>5. QueueInv
    BY <1>1, <1>2, <1>4 DEF QueueInv, LettersAccounted
<1> QED
    BY <1>3, <1>5 DEF LettersInv

\* What is moved, dropped and removed is not touched by the filing of another letter, and
\* letters only get older.
LEMMA QueueOutlives ==
    ASSUME LettersInv, UNCHANGED queueVars, time' \in Nat, time <= time',
           NEW n \in Nat, n = Len(dlq), dlq' \in Seq(Letter), n <= Len(dlq'),
           \A i \in 1..n : dlq'[i] = dlq[i]
    PROVE  QueueInv'
<1>1. deadQueue' = deadQueue /\ moved' = moved /\ removed' = removed
    BY DEF queueVars
<1>2. /\ DOMAIN dlq = 1..n /\ DOMAIN dlq' = 1..Len(dlq') /\ Len(dlq') \in Nat
      /\ moved \in Nat /\ moved <= n /\ time \in Nat /\ DlqRetention \in Nat
      /\ \A i \in 1..n : dlq[i] \in Letter
    BY DeliveryConstants DEF LettersInv, FiledInv, DeliveryConstants
<1>3. DOMAIN dlq \subseteq DOMAIN dlq' /\ 1..moved \subseteq 1..n
    BY <1>2
<1>4. FiledBefore \subseteq FiledBefore'
    BY <1>2, <1>3 DEF FiledBefore
<1>5. LettersAccounted'
  <2> SUFFICES ASSUME NEW i \in 1..moved
               PROVE  \/ dlq'[i] \in removed \cup ToSet(deadQueue)
                      \/ dlq'[i].at < time' - DlqRetention
                      \/ i + DlqRoom <= moved
    BY <1>1 DEF LettersAccounted, DlqRoom
  <2>1. dlq'[i] = dlq[i] /\ dlq[i].at \in Nat
    BY <1>2, <1>3 DEF Letter
  <2> QED
    BY <1>2, <2>1 DEF LettersInv, QueueInv, LettersAccounted
<1>6. \A k \in 1..Len(deadQueue) : \E i \in 1..moved : deadQueue[k] = dlq'[i]
    BY <1>3 DEF LettersInv, QueueInv
<1>7. Letter' = Letter /\ DlqRoom' = DlqRoom
    BY DEF Letter, DlqRoom
<1>8. \A k, l \in 1..Len(deadQueue) : k < l => <<deadQueue[k], deadQueue[l]>> \in FiledBefore'
    BY <1>4 DEF LettersInv, QueueInv
<1> QED
    BY <1>1, <1>5, <1>6, <1>7, <1>8 DEF LettersInv, QueueInv

\* A step that files no letter, and begins or ends no delivery that has one.
LEMMA NothingFiled ==
    ASSUME LettersInv, UNCHANGED <<dlq, queueVars>>, time' \in Nat, time <= time',
           \A p \in Payloads : /\ sent'[p] \in Nat /\ sent'[p] <= time'
                               /\ outcomes'[p] = "dead" <=> outcomes[p] = "dead"
                               /\ outcomes[p] = "dead" => sent'[p] = sent[p]
    PROVE  LettersInv'
<1>1. /\ Len(dlq) \in Nat /\ dlq' \in Seq(Letter) /\ \A i \in 1..Len(dlq) : dlq'[i] = dlq[i]
      /\ Len(dlq') = Len(dlq)
    BY DEF LettersInv, FiledInv
<1>2. QueueInv'
    BY <1>1, QueueOutlives
<1>3. FiledInv'
  <2>1. \A i \in DOMAIN dlq : dlq[i].p \in Payloads
    <3>1. \A i \in DOMAIN dlq : dlq[i] \in Letter
      BY DEF LettersInv, FiledInv
    <3> QED
      BY <3>1 DEF Letter
  <2>2. Letter' = Letter
    BY DEF Letter
  <2> QED
    BY <2>1, <2>2 DEF LettersInv, FiledInv, queueVars
<1> QED
    BY <1>2, <1>3 DEF LettersInv

\* The last attempt of a delivery files its letter.
LEMMA LetterFiled ==
    ASSUME DeliveryInv, LettersInv, job # NoJob, NEW status \in Nat, AttemptFailed(status),
           ~(job.attempt + 1 < MaxAttempts)
    PROVE  LettersInv'
<1> DEFINE e == DlqEntry(job.p, status)
           n == Len(dlq)
<1>1. /\ outcomes' = [outcomes EXCEPT ![job.p] = "dead"]
      /\ dlq' = Append(dlq, e)
      /\ UNCHANGED <<time, sent, queueVars>>
    BY DEF AttemptFailed
<1>2. /\ job.p \in Payloads /\ outcomes[job.p] = "sending"
      /\ outcomes \in [Payloads -> {"new", "refused", "sending", "delivered", "dead"}]
    BY DEF DeliveryInv, SenderInv
<1>3. /\ dlq \in Seq(Letter) /\ n \in Nat /\ DOMAIN dlq = 1..n /\ time \in Nat
      /\ \A i \in 1..n : dlq[i] \in Letter
    BY DEF LettersInv, FiledInv
<1>4. e \in Letter /\ e.p = job.p /\ e.at = time
  <2>1. MaxAttempts \in Nat
    BY DeliveryConstants DEF DeliveryConstants
  <2> QED
    BY <1>2, <1>3, <2>1 DEF DlqEntry, Letter
<1> HIDE DEF e, Letter
<1>5. /\ dlq' \in Seq(Letter) /\ Len(dlq') = n + 1 /\ DOMAIN dlq' = 1..(n + 1)
      /\ dlq'[n + 1] = e /\ \A i \in 1..n : dlq'[i] = dlq[i]
  <2>1. dlq' \in Seq(Letter) /\ Len(dlq') = n + 1
    BY <1>1, <1>3, <1>4, AppendProperties
  <2>2. dlq'[n + 1] = e /\ \A i \in 1..n : dlq'[i] = dlq[i]
    BY <1>1, <1>3, <1>4, AppendProperties
  <2> QED
    BY <1>3, <2>1, <2>2, LenProperties
<1>6. QueueInv'
  <2>1. n <= Len(dlq') /\ time' \in Nat /\ time <= time' /\ UNCHANGED queueVars
    BY <1>1, <1>3, <1>5
  <2> QED
    BY <1>3, <1>5, <2>1, QueueOutlives
<1>7. FiledInv'
  <2>1. \A i \in 1..n : /\ dlq[i].p \in Payloads /\ outcomes[dlq[i].p] = "dead"
                        /\ sent[dlq[i].p] <= dlq[i].at /\ dlq[i].p # job.p
    BY <1>2, <1>3 DEF LettersInv, FiledInv, Letter
  <2>2. \A i \in 1..(n + 1) : outcomes'[dlq'[i].p] = "dead" /\ sent'[dlq'[i].p] <= dlq'[i].at
    <3> SUFFICES ASSUME NEW i \in 1..(n + 1)
                 PROVE  outcomes'[dlq'[i].p] = "dead" /\ sent'[dlq'[i].p] <= dlq'[i].at
      OBVIOUS
    <3>1. CASE i = n + 1
      <4>1. sent[job.p] <= time
        BY <1>2 DEF LettersInv, FiledInv
      <4> QED
        BY <1>1, <1>2, <1>4, <1>5, <3>1, <4>1
    <3>2. CASE i \in 1..n
      BY <1>1, <1>2, <1>5, <2>1, <3>2
    <3> QED
      BY <1>3, <3>1, <3>2
  <2>3. \A i, j \in 1..(n + 1) : dlq'[i].p = dlq'[j].p => i = j
    <3> SUFFICES ASSUME NEW i \in 1..(n + 1), NEW j \in 1..(n + 1), dlq'[i].p = dlq'[j].p
                 PROVE  i = j
      OBVIOUS
    <3>1. \A k \in 1..n : dlq'[k].p = dlq[k].p /\ dlq'[k].p # job.p
      BY <1>5, <2>1
    <3>2. dlq'[n + 1].p = job.p
      BY <1>4, <1>5
    <3>3. (i \in 1..n \/ i = n + 1) /\ (j \in 1..n \/ j = n + 1)
      BY <1>3
    <3>4. CASE i \in 1..n /\ j \in 1..n
      BY <1>3, <3>1, <3>4 DEF LettersInv, FiledInv
    <3> QED
      BY <3>1, <3>2, <3>3, <3>4
  <2>4. ASSUME NEW p \in Payloads, outcomes'[p] = "dead"
        PROVE  \E i \in 1..(n + 1) : dlq'[i].p = p
    <3>1. CASE p = job.p
      <4>1. n + 1 \in 1..(n + 1)
        BY <1>3
      <4> QED
        BY <1>4, <1>5, <3>1, <4>1
    <3>2. CASE p # job.p
      <4>1. outcomes[p] = "dead"
        BY <1>1, <1>2, <2>4, <3>2
      <4>2. PICK i \in 1..n : dlq[i].p = p
        BY <1>3, <4>1 DEF LettersInv, FiledInv
      <4>3. i \in 1..(n + 1) /\ dlq'[i].p = p
        BY <1>3, <1>5, <4>2
      <4> QED
        BY <4>3
    <3> QED
      BY <3>1, <3>2
  <2>5. moved' \in Nat /\ moved' <= n + 1
    BY <1>1, <1>3 DEF LettersInv, FiledInv, queueVars
  <2>6. \A p \in Payloads : sent'[p] \in Nat /\ sent'[p] <= time'
    BY <1>1 DEF LettersInv, FiledInv
  <2>7. Letter' = Letter
    BY DEF Letter
  <2> QED
    BY <1>1, <1>3, <1>5, <2>2, <2>3, <2>4, <2>5, <2>6, <2>7 DEF FiledInv
<1> QED
    BY <1>6, <1>7 DEF LettersInv

\* A letter is in the queue at one place only, and the one at its head has been followed by
\* as many as the queue holds.
LEMMA HeadIsOldest ==
    ASSUME LettersInv, NEW i \in 1..moved, deadQueue # <<>>, deadQueue[1] = dlq[i]
    PROVE  i + Len(deadQueue) <= moved + 1
<1> DEFINE n == Len(deadQueue)
           At(k) == CHOOSE a \in 1..moved : deadQueue[k] = dlq[a]
           s == [k \in 1..n |-> At(k)]
<1>1. /\ moved \in Nat /\ moved <= Len(dlq) /\ Len(dlq) \in Nat /\ DOMAIN dlq = 1..Len(dlq)
      /\ deadQueue \in Seq(Letter) /\ n \in Nat \ {0}
  <2>1. deadQueue \in Seq(Letter)
    BY DEF LettersInv, QueueInv
  <2>2. n \in Nat \ {0}
    <3> HIDE DEF Letter
    <3> QED
      BY <2>1, EmptySeq
  <2> QED
    BY <2>1, <2>2, LenProperties DEF LettersInv, FiledInv
<1>2. \A k \in 1..n : s[k] \in 1..moved /\ deadQueue[k] = dlq[s[k]]
  <2> SUFFICES ASSUME NEW k \in 1..n PROVE At(k) \in 1..moved /\ deadQueue[k] = dlq[At(k)]
    OBVIOUS
  <2>1. \E a \in 1..moved : deadQueue[k] = dlq[a]
    BY DEF LettersInv, QueueInv
  <2> QED
    BY <2>1
<1> HIDE DEF s
<1>3. \A a, b \in DOMAIN dlq : dlq[a] = dlq[b] => a = b
    BY DEF LettersInv, FiledInv
<1>4. 1..moved \subseteq DOMAIN dlq
    BY <1>1
<1>5. ASSUME NEW k \in 1..n, NEW l \in 1..n, k < l
      PROVE  s[k] < s[l]
  <2>1. <<deadQueue[k], deadQueue[l]>> \in FiledBefore
    BY <1>5 DEF LettersInv, QueueInv
  <2>2. PICK a \in DOMAIN dlq, b \in DOMAIN dlq :
          a < b /\ <<deadQueue[k], deadQueue[l]>> = <<dlq[a], dlq[b]>>
    BY <2>1 DEF FiledBefore
  <2>3. a = s[k] /\ b = s[l]
    BY <1>2, <1>3, <1>4, <2>2
  <2> QED
    BY <2>2, <2>3
<1>6. \A k \in 1..n : s[k] \in Nat
    BY <1>1, <1>2
<1>7. s[1] + n - 1 <= s[n]
  <2>1. n \in 1..n /\ n \in Nat
    BY <1>1
  <2> HIDE DEF n
  <2>2. \A k \in 1..n : s[1] + k - 1 <= s[k]
    BY <1>5, <1>6, <2>1, GrowingNumbers
  <2> QED
    BY <2>1, <2>2
<1>8. 1 \in 1..n /\ n \in 1..n
    BY <1>1
<1>9. s[1] = i
    BY <1>2, <1>3, <1>4, <1>8
<1> QED
    BY <1>1, <1>2, <1>6, <1>7, <1>8, <1>9

\* An entry that is enqueued comes last; the oldest makes room for it.
LEMMA EnqueueKeepsNewest ==
    ASSUME NEW q \in Seq(Letter), Len(q) <= DlqRoom, NEW e \in Letter
    PROVE  \E d \in {0, 1} :
              LET r == Enqueue(q, e) IN
              /\ r \in Seq(Letter) /\ Len(r) = Len(q) - d + 1 /\ Len(r) <= DlqRoom
              /\ r[Len(r)] = e
              /\ \A k \in 1..(Len(r) - 1) : k + d \in 1..Len(q) /\ r[k] = q[k + d]
              /\ d = 1 <=> q # <<>> /\ Len(q) = DlqRoom
<1> HIDE DEF Letter
<1>1. /\ DlqCapacity \in Nat /\ DlqRoom = (IF DlqCapacity >= 1 THEN DlqCapacity ELSE 1)
      /\ DlqRoom \in Nat \ {0}
    BY DeliveryConstants, DlqRoomIs DEF DeliveryConstants
<1>2. Len(q) \in Nat /\ (q # <<>> <=> Len(q) > 0)
    BY EmptySeq
<1> DEFINE base == IF Len(q) >= DlqCapacity /\ q # <<>> THEN Tail(q) ELSE q
           r == Append(base, e)
<1>3. Enqueue(q, e) = r
    BY DEF Enqueue
<1>4. ASSUME base \in Seq(Letter), Len(base) \in Nat
      PROVE  /\ r \in Seq(Letter) /\ Len(r) = Len(base) + 1 /\ r[Len(r)] = e
             /\ \A k \in 1..Len(base) : r[k] = base[k]
  <2> HIDE DEF base
  <2> QED
    BY <1>4, AppendProperties
<1>5. CASE Len(q) >= DlqCapacity /\ q # <<>>
  <2>1. /\ base \in Seq(Letter) /\ Len(base) = Len(q) - 1
        /\ \A k \in 1..Len(base) : base[k] = q[k + 1]
    BY <1>5, HeadTailProperties
  <2>2. Len(q) = DlqRoom /\ Len(base) \in Nat
    <3>1. Len(q) = DlqRoom /\ Len(q) >= 1
      BY <1>1, <1>2, <1>5
    <3>2. Len(base) = Len(q) - 1
      BY <2>1
    <3> HIDE DEF base
    <3> QED
      BY <1>2, <3>1, <3>2
  <2> HIDE DEF base, r
  <2>3. /\ r \in Seq(Letter) /\ Len(r) = Len(q) - 1 + 1 /\ Len(r) <= DlqRoom /\ r[Len(r)] = e
        /\ \A k \in 1..(Len(r) - 1) : k + 1 \in 1..Len(q) /\ r[k] = q[k + 1]
    BY <1>1, <1>2, <1>4, <2>1, <2>2
  <2> QED
    BY <1>3, <1>5, <2>2, <2>3
<1>6. CASE ~(Len(q) >= DlqCapacity /\ q # <<>>)
  <2>1. base = q
    BY <1>6
  <2>2. Len(q) < DlqRoom
    BY <1>1, <1>2, <1>6
  <2> HIDE DEF base, r
  <2>3. /\ r \in Seq(Letter) /\ Len(r) = Len(q) - 0 + 1 /\ Len(r) <= DlqRoom /\ r[Len(r)] = e
        /\ \A k \in 1..(Len(r) - 1) : k + 0 \in 1..Len(q) /\ r[k] = q[k + 0]
    BY <1>1, <1>2, <1>4, <2>1, <2>2
  <2> QED
    BY <1>1, <1>2, <1>3, <2>2, <2>3
<1> QED
    BY <1>5, <1>6

\* add_failed_delivery loses a letter only to one that is newer by as many as there is room
\* for.
LEMMA LetterMoved ==
    ASSUME LettersInv, AddFailedDelivery
    PROVE  LettersInv'
<1>1. /\ moved < Len(dlq) /\ moved' = moved + 1
      /\ deadQueue' = Enqueue(deadQueue, dlq[moved + 1])
      /\ UNCHANGED <<time, senderVars, removed>>
    BY DEF AddFailedDelivery
<1>2. /\ moved \in Nat /\ dlq \in Seq(Letter) /\ Len(dlq) \in Nat /\ DOMAIN dlq = 1..Len(dlq)
      /\ moved + 1 \in 1..Len(dlq) /\ dlq[moved + 1] \in Letter
  <2>1. moved \in Nat /\ dlq \in Seq(Letter)
    BY DEF LettersInv, FiledInv
  <2> HIDE DEF Letter
  <2>2. Len(dlq) \in Nat /\ DOMAIN dlq = 1..Len(dlq)
    BY <2>1, LenProperties
  <2>3. moved + 1 \in 1..Len(dlq)
    BY <1>1, <2>1, <2>2
  <2> QED
    BY <2>1, <2>2, <2>3, ElementOfSeq
<1>3. FiledInv'
  <2>1. Letter' = Letter
    BY DEF Letter
  <2> QED
    BY <1>1, <1>2, <2>1 DEF LettersInv, FiledInv, senderVars
<1> DEFINE q == deadQueue
           r == deadQueue'
           e == dlq[moved + 1]
<1>4. q \in Seq(Letter) /\ Len(q) <= DlqRoom /\ Len(q) \in Nat /\ DOMAIN q = 1..Len(q)
    BY DEF LettersInv, QueueInv
<1>5. PICK d \in {0, 1} :
              /\ r \in Seq(Letter) /\ Len(r) = Len(q) - d + 1 /\ Len(r) <= DlqRoom
              /\ r[Len(r)] = e
              /\ \A k \in 1..(Len(r) - 1) : k + d \in 1..Len(q) /\ r[k] = q[k + d]
              /\ d = 1 <=> q # <<>> /\ Len(q) = DlqRoom
    BY <1>1, <1>2, <1>4, EnqueueKeepsNewest
<1> HIDE DEF r, e
<1>6. /\ DlqRoom \in Nat /\ Len(r) \in Nat /\ Len(r) >= 1 /\ DOMAIN r = 1..Len(r)
      /\ d = 1 => Len(q) >= 1
  <2>1. DlqRoom \in Nat /\ DlqRoom >= 1
    BY DlqRoomIs
  <2>2. Len(r) \in Nat /\ DOMAIN r = 1..Len(r)
    <3> HIDE DEF Letter
    <3> QED
      BY <1>5, LenProperties
  <2>3. d = 1 => Len(q) = DlqRoom
    BY <1>5
  <2>4. Len(r) = Len(q) - d + 1
    BY <1>5
  <2> DEFINE x == Len(q)
             y == Len(r)
  <2>5. x \in Nat /\ y \in Nat /\ y = x - d + 1 /\ (d = 1 => x = DlqRoom)
    BY <1>4, <2>2, <2>3, <2>4
  <2> HIDE DEF x, y
  <2>6. y >= 1 /\ (d = 1 => x >= 1)
    BY <2>1, <2>5
  <2> QED
    BY <2>1, <2>2, <2>6 DEF x, y
<1>7. ASSUME NEW k \in 1..Len(r)
      PROVE  \E i \in 1..(moved + 1) : r[k] = dlq[i]
  <2>1. CASE k = Len(r)
    <3>1. moved + 1 \in 1..(moved + 1)
      BY <1>2
    <3> QED
      BY <1>5, <2>1, <3>1 DEF e
  <2>2. CASE k # Len(r)
    <3>1. k \in 1..(Len(r) - 1)
      <4> DEFINE n == Len(r)
      <4>1. n \in Nat /\ k \in 1..n /\ k # n
        BY <1>6, <2>2
      <4> HIDE DEF n
      <4>2. k \in 1..(n - 1)
        BY <4>1
      <4> QED
        BY <4>2 DEF n
    <3>2. k + d \in 1..Len(q) /\ r[k] = q[k + d]
      BY <1>5, <3>1
    <3>3. PICK i \in 1..moved : q[k + d] = dlq[i]
      BY <3>2 DEF LettersInv, QueueInv
    <3>4. i \in 1..(moved + 1)
      BY <1>2, <3>3
    <3> QED
      BY <3>2, <3>3, <3>4
  <2> QED
    BY <2>1, <2>2
<1>8. ASSUME NEW k \in 1..Len(r), NEW l \in 1..Len(r), k < l
      PROVE  <<r[k], r[l]>> \in FiledBefore
  <2> DEFINE n == Len(r)
  <2>0. n \in Nat /\ k \in 1..n /\ l \in 1..n
    BY <1>6
  <2>1. k \in 1..(Len(r) - 1)
    <3> HIDE DEF n
    <3>1. k \in 1..(n - 1)
      BY <1>8, <2>0
    <3> QED
      BY <3>1 DEF n
  <2>2. k + d \in 1..Len(q) /\ r[k] = q[k + d]
    BY <1>5, <2>1
  <2>3. CASE l = Len(r)
    <3>1. PICK i \in 1..moved : q[k + d] = dlq[i]
      BY <2>2 DEF LettersInv, QueueInv
    <3>2. i \in DOMAIN dlq /\ moved + 1 \in DOMAIN dlq /\ i < moved + 1
      BY <1>2, <3>1
    <3>3. r[k] = dlq[i] /\ r[l] = dlq[moved + 1]
      BY <1>5, <2>2, <2>3, <3>1 DEF e
    <3>4. dlq[i] \in Letter /\ dlq[moved + 1] \in Letter
      <4> HIDE DEF Letter
      <4> QED
        BY <1>2, <3>2, ElementOfSeq
    <3> QED
      BY <3>2, <3>3, <3>4 DEF FiledBefore
  <2>4. CASE l # Len(r)
    <3>1. l \in 1..(Len(r) - 1)
      <4>1. l # n
        BY <2>4
      <4> HIDE DEF n
      <4>2. l \in 1..(n - 1)
        BY <2>0, <4>1
      <4> QED
        BY <4>2 DEF n
    <3>2. l + d \in 1..Len(q) /\ r[l] = q[l + d] /\ k + d < l + d
      BY <1>5, <1>8, <3>1
    <3> QED
      BY <2>2, <3>2 DEF LettersInv, QueueInv
  <2> QED
    BY <2>3, <2>4
<1>9. ASSUME NEW i \in 1..(moved + 1)
      PROVE  \/ dlq[i] \in removed \cup ToSet(r)
             \/ dlq[i].at < time - DlqRetention
             \/ i + DlqRoom <= moved + 1
  <2>1. CASE i = moved + 1
    <3>1. Len(r) \in 1..Len(r)
      <4> DEFINE n == Len(r)
      <4>1. n \in Nat /\ n >= 1
        BY <1>6
      <4> HIDE DEF n
      <4>2. n \in 1..n
        BY <4>1
      <4> QED
        BY <4>2 DEF n
    <3>2. e \in ToSet(r)
      BY <1>5, <1>6, <3>1 DEF ToSet
    <3> QED
      BY <2>1, <3>2 DEF e
  <2>2. CASE i # moved + 1
    <3>1. i \in 1..moved
      BY <1>2, <2>2
    <3>2. \/ dlq[i] \in removed \cup ToSet(q)
          \/ dlq[i].at < time - DlqRetention
          \/ i + DlqRoom <= moved
      BY <3>1 DEF LettersInv, QueueInv, LettersAccounted
    <3>3. CASE dlq[i] \in ToSet(q) /\ dlq[i] \notin ToSet(r)
      <4>1. PICK k \in 1..Len(q) : q[k] = dlq[i]
        BY <1>4, <3>3 DEF ToSet
      <4>2. ~(k - d \in 1..(Len(r) - 1))
        <5> SUFFICES ASSUME k - d \in 1..(Len(r) - 1) PROVE FALSE
          OBVIOUS
        <5>1. (k - d) + d = k /\ k - d \in 1..Len(r)
          BY <1>6
        <5>2. r[k - d] = q[k]
          BY <1>5, <5>1
        <5> QED
          BY <1>6, <3>3, <4>1, <5>1, <5>2 DEF ToSet
      <4>3. d = 1 /\ k = 1
        BY <1>4, <1>5, <4>1, <4>2
      <4>4. q # <<>> /\ Len(q) = DlqRoom
        BY <1>5, <4>3
      <4>5. i + Len(q) <= moved + 1
        BY <3>1, <4>1, <4>3, <4>4, HeadIsOldest
      <4> QED
        BY <4>4, <4>5
    <3>4. CASE i + DlqRoom <= moved
      BY <1>2, <1>6, <3>1, <3>4
    <3> QED
      BY <3>2, <3>3, <3>4
  <2> QED
    BY <2>1, <2>2
<1>10. QueueInv'
  <2>1. Letter' = Letter /\ DlqRoom' = DlqRoom /\ FiledBefore' = FiledBefore
    BY <1>1 DEF Letter, DlqRoom, FiledBefore, senderVars
  <2>2. /\ deadQueue' = r /\ dlq' = dlq /\ moved' = moved + 1 /\ time' = time
        /\ removed' = removed
    BY <1>1 DEF r, senderVars
  <2>3. LettersAccounted'
    BY <1>9, <2>1, <2>2 DEF LettersAccounted
  <2> QED
    BY <1>5, <1>7, <1>8, <2>1, <2>2, <2>3 DEF QueueInv
<1> QED
    BY <1>3, <1>10 DEF LettersInv

\* cleanup_expired drops the letters whose retention is over.
LEMMA LettersExpire ==
    ASSUME LettersInv, CleanupDlq
    PROVE  LettersInv'
<1> DEFINE bound == Max({time - DlqRetention, 0})
           fresh == {e \in ToSet(deadQueue) : e.at >= bound}
           q == deadQueue
           r == Kept(q, fresh)
<1>1. deadQueue' = r /\ UNCHANGED <<time, senderVars, moved, removed>>
    BY DEF CleanupDlq
<1>2. /\ q \in Seq(Letter) /\ Len(q) \in Nat /\ DOMAIN q = 1..Len(q) /\ Len(q) <= DlqRoom
      /\ \A k, l \in 1..Len(q) : k < l => <<q[k], q[l]>> \in FiledBefore
      /\ \A k \in 1..Len(q) : \E i \in 1..moved : q[k] = dlq[i]
    BY DEF LettersInv, QueueInv
<1>3. time \in Nat /\ moved \in Nat /\ moved <= Len(dlq) /\ dlq \in Seq(Letter) /\ DlqRetention \in Nat
    BY DeliveryConstants DEF LettersInv, FiledInv, DeliveryConstants
<1>4. bound = IF time - DlqRetention >= 0 THEN time - DlqRetention ELSE 0
  <2>1. time - DlqRetention \in Int /\ 0 \in Int
    BY <1>3
  <2> QED
    BY <2>1, MinMaxOfTwo
<1> HIDE DEF Letter, bound, fresh, r
<1>5. /\ r \in Seq(Letter) /\ ToSet(r) = ToSet(q) \cap fresh
      /\ Len(r) <= Len(q)
      /\ \A k, l \in 1..Len(r) : k < l => <<r[k], r[l]>> \in FiledBefore
  <2> HIDE DEF q
  <2>1. r \in Seq(Letter) /\ ToSet(r) = ToSet(q) \cap fresh
    BY <1>2, KeptIds DEF r
  <2>2. /\ Len(r) <= Len(q)
        /\ \A k, l \in 1..Len(r) : k < l => <<r[k], r[l]>> \in FiledBefore
    BY <1>2, KeptOrdered DEF r
  <2> QED
    BY <2>1, <2>2
<1>6. Len(r) \in Nat /\ DOMAIN r = 1..Len(r)
    BY <1>5, LenProperties
<1>7. FiledInv'
  <2>1. Letter' = Letter
    BY DEF Letter
  <2> QED
    BY <1>1, <2>1 DEF LettersInv, FiledInv, senderVars
<1>8. ASSUME NEW k \in 1..Len(r) PROVE \E i \in 1..moved : r[k] = dlq[i]
  <2>1. r[k] \in ToSet(q)
    <3>1. r[k] \in ToSet(r)
      BY <1>6 DEF ToSet
    <3> QED
      BY <1>5, <3>1
  <2>2. PICK l \in 1..Len(q) : r[k] = q[l]
    BY <1>2, <2>1 DEF ToSet
  <2> QED
    BY <1>2, <2>2
<1>9. ASSUME NEW i \in 1..moved
      PROVE  \/ dlq[i] \in removed \cup ToSet(r)
             \/ dlq[i].at < time - DlqRetention
             \/ i + DlqRoom <= moved
  <2>1. \/ dlq[i] \in removed \cup ToSet(q)
        \/ dlq[i].at < time - DlqRetention
        \/ i + DlqRoom <= moved
    BY DEF LettersInv, QueueInv, LettersAccounted
  <2>2. CASE dlq[i] \in ToSet(q) /\ dlq[i] \notin ToSet(r)
    <3>1. ~(dlq[i].at >= bound)
      BY <1>5, <2>2 DEF fresh
    <3>2. dlq[i].at \in Nat
      <4>1. i \in 1..Len(dlq)
        BY <1>3
      <4>2. dlq[i] \in Letter
        BY <1>3, <4>1, ElementOfSeq
      <4> QED
        BY <4>2 DEF Letter
    <3> QED
      BY <1>3, <1>4, <3>1, <3>2
  <2> QED
    BY <2>1, <2>2
<1>10. QueueInv'
  <2>1. Letter' = Letter /\ DlqRoom' = DlqRoom /\ FiledBefore' = FiledBefore
    BY <1>1 DEF Letter, DlqRoom, FiledBefore, senderVars
  <2>2. dlq' = dlq /\ moved' = moved /\ time' = time /\ removed' = removed
    BY <1>1 DEF senderVars
  <2>3. LettersAccounted'
    BY <1>1, <1>9, <2>1, <2>2 DEF LettersAccounted
  <2>4. Len(r) <= DlqRoom
    <3>1. DlqRoom \in Nat
      BY DlqRoomIs
    <3> DEFINE x == Len(q)
               y == Len(r)
    <3>2. x \in Nat /\ y \in Nat /\ y <= x /\ x <= DlqRoom
      BY <1>2, <1>5, <1>6
    <3> HIDE DEF x, y
    <3>3. y <= DlqRoom
      BY <3>1, <3>2
    <3> QED
      BY <3>3 DEF y
  <2> QED
    BY <1>1, <1>5, <1>8, <2>1, <2>2, <2>3, <2>4 DEF QueueInv
<1> QED
    BY <1>7, <1>10 DEF LettersInv

EnqueuedNext(f, entries, n) == IF n = 0 THEN <<>> ELSE Enqueue(f[n - 1], entries[n])

EnqueuedUpTo(f, entries, m) == f = [n \in 0..m |-> EnqueuedNext(f, entries, n)]

\* The recursion that enqueues a list defines a function.
LEMMA EnqueuedExists ==
    ASSUME NEW entries, NEW m \in Nat
    PROVE  \E f : EnqueuedUpTo(f, entries, m)
<1> DEFINE T == {n \in Nat : \E f : EnqueuedUpTo(f, entries, n)}
<1>1. 0 \in T
  <2> DEFINE f == [n \in 0..0 |-> <<>>]
  <2>1. \A n \in 0..0 : EnqueuedNext(f, entries, n) = <<>>
    BY DEF EnqueuedNext
  <2>2. EnqueuedUpTo(f, entries, 0)
    BY <2>1 DEF EnqueuedUpTo
  <2> QED
    BY <2>2
<1>2. ASSUME NEW n \in Nat, n \in T
      PROVE  n + 1 \in T
  <2>1. PICK f : EnqueuedUpTo(f, entries, n)
    BY <1>2
  <2> DEFINE g == [k \in 0..(n + 1) |-> IF k <= n THEN f[k] ELSE EnqueuedNext(f, entries, n + 1)]
  <2>2. ASSUME NEW k \in 0..(n + 1)
        PROVE  g[k] = EnqueuedNext(g, entries, k)
    <3>1. k # 0 => k - 1 \in 0..n /\ k - 1 \in 0..(n + 1) /\ k - 1 <= n
      OBVIOUS
    <3>2. k # 0 => g[k - 1] = f[k - 1]
      BY <3>1
    <3>3. EnqueuedNext(g, entries, k) = EnqueuedNext(f, entries, k)
      BY <3>2 DEF EnqueuedNext
    <3>4. k <= n => k \in 0..n /\ f[k] = EnqueuedNext(f, entries, k)
      BY <2>1 DEF EnqueuedUpTo
    <3>5. ~(k <= n) => k = n + 1
      OBVIOUS
    <3> QED
      BY <3>3, <3>4, <3>5
  <2>3. g = [k \in 0..(n + 1) |-> g[k]]
    OBVIOUS
  <2> HIDE DEF g
  <2>4. EnqueuedUpTo(g, entries, n + 1)
    BY <2>2, <2>3 DEF EnqueuedUpTo
  <2> QED
    BY <2>4
<1> HIDE DEF T
<1>3. Nat \subseteq T
    BY <1>1, <1>2, NaturalsBySuccessor
<1> QED
    BY <1>3 DEF T

\* Letters for which there is room are enqueued as they were.
LEMMA EnqueuedWhole ==
    ASSUME NEW seq \in Seq(Letter), Len(seq) <= DlqRoom
    PROVE  Enqueued(seq) = seq
<1> DEFINE f == CHOOSE f : f = [n \in 0..Len(seq) |->
                                  IF n = 0 THEN <<>> ELSE Enqueue(f[n - 1], seq[n])]
           N == Len(seq)
<1> HIDE DEF Letter
<1>1. Enqueued(seq) = f[N]
    BY DEF Enqueued
<1>2. N \in Nat /\ DlqRoom \in Nat /\ N <= DlqRoom
    BY LenProperties, DlqRoomIs
<1>3. \E g : EnqueuedUpTo(g, seq, Len(seq))
    BY <1>2, EnqueuedExists
<1>4. f = [n \in 0..N |-> EnqueuedNext(f, seq, n)]
    BY <1>3 DEF EnqueuedUpTo, EnqueuedNext
<1> HIDE DEF f
<1> DEFINE Right(n) == /\ f[n] \in Seq(Letter) /\ Len(f[n]) = n
                       /\ \A k \in 1..n : f[n][k] = seq[k]
           T == {n \in Nat : n <= N => Right(n)}
<1>5. 0 \in T
  <2>1. f[0] = <<>>
    BY <1>2, <1>4 DEF EnqueuedNext
  <2>2. Right(0)
    BY <2>1, EmptySeq
  <2> QED
    BY <2>2
<1>6. ASSUME NEW n \in Nat, n \in T
      PROVE  n + 1 \in T
  <2> SUFFICES ASSUME n + 1 <= N PROVE Right(n + 1)
    OBVIOUS
  <2>1. Right(n) /\ n + 1 \in 0..N /\ n + 1 \in 1..N /\ n + 1 # 0 /\ (n + 1) - 1 = n
        /\ n < DlqRoom
    BY <1>2, <1>6
  <2>2. f[n + 1] = Enqueue(f[n], seq[n + 1])
    BY <1>4, <2>1 DEF EnqueuedNext
  <2>3. seq[n + 1] \in Letter
    BY <2>1, ElementOfSeq
  <2>4. f[n] \in Seq(Letter) /\ Len(f[n]) = n /\ Len(f[n]) <= DlqRoom
    BY <1>2, <2>1
  <2> DEFINE g == f[n]
             h == f[n + 1]
             e == seq[n + 1]
  <2>5. PICK d \in {0, 1} :
              /\ h \in Seq(Letter) /\ Len(h) = Len(g) - d + 1
              /\ h[Len(h)] = e
              /\ \A k \in 1..(Len(h) - 1) : k + d \in 1..Len(g) /\ h[k] = g[k + d]
              /\ d = 1 <=> g # <<>> /\ Len(g) = DlqRoom
    <3> HIDE DEF g, h, e
    <3>1. g \in Seq(Letter) /\ Len(g) <= DlqRoom /\ e \in Letter /\ h = Enqueue(g, e)
      BY <2>2, <2>3, <2>4 DEF g, h, e
    <3> QED
      BY <3>1, EnqueueKeepsNewest
  <2>6. d = 0 /\ Len(h) = n + 1
    <3>1. Len(g) # DlqRoom
      BY <1>2, <2>1, <2>4
    <3>2. d = 0
      BY <2>5, <3>1
    <3> QED
      BY <2>4, <2>5, <3>2
  <2>7. h \in Seq(Letter) /\ h[n + 1] = e
    BY <2>5, <2>6
  <2>8. ASSUME NEW k \in 1..(n + 1) PROVE h[k] = seq[k]
    <3>1. CASE k = n + 1
      BY <2>7, <3>1
    <3>2. CASE k # n + 1
      <4>1. k \in 1..n /\ k \in 1..((n + 1) - 1) /\ k + 0 = k
        BY <3>2
      <4>2. h[k] = g[k]
        BY <2>5, <2>6, <4>1
      <4> QED
        BY <2>1, <4>1, <4>2
    <3> QED
      BY <3>1, <3>2
  <2> QED
    BY <2>6, <2>7, <2>8
<1>7. Nat \subseteq T
  <2> HIDE DEF T
  <2> QED
    BY <1>5, <1>6, NaturalsBySuccessor
<1>8. Right(N)
  <2>1. N \in T
    BY <1>2, <1>7
  <2> HIDE DEF Right
  <2> QED
    BY <1>2, <2>1
<1>9. f[N] = seq
  <2> DEFINE g == f[N]
  <2>1. g \in Seq(Letter) /\ Len(g) = Len(seq) /\ \A k \in 1..Len(g) : g[k] = seq[k]
    BY <1>8
  <2> HIDE DEF g
  <2>2. g = seq
    BY <2>1, SeqEqual
  <2> QED
    BY <2>2 DEF g
<1> QED
    BY <1>1, <1>9

\* remove_entry takes out one letter: there is room for all the others.
LEMMA LetterRemoved ==
    ASSUME LettersInv, NEW i, RemoveEntry(i)
    PROVE  LettersInv'
<1> DEFINE q == deadQueue
           r == RemoveAt(q, i)
           n == Len(q)
<1>1. /\ i \in DOMAIN q /\ deadQueue' = Enqueued(r) /\ removed' = removed \cup {q[i]}
      /\ UNCHANGED <<time, senderVars, moved>>
    BY DEF RemoveEntry
<1>2. /\ q \in Seq(Letter) /\ n \in Nat /\ DOMAIN q = 1..n /\ n <= DlqRoom
      /\ \A k, l \in 1..n : k < l => <<q[k], q[l]>> \in FiledBefore
      /\ \A k \in 1..n : \E a \in 1..moved : q[k] = dlq[a]
      /\ i \in 1..n
    BY <1>1 DEF LettersInv, QueueInv
<1> HIDE DEF Letter
<1>3. /\ r \in Seq(Letter) /\ Len(r) = n - 1
      /\ \A k \in 1..(n - 1) : r[k] = q[IF k < i THEN k ELSE k + 1]
  <2> HIDE DEF q
  <2> QED
    BY <1>2, RemovedOne
<1> HIDE DEF r, n
<1>4. Len(r) <= DlqRoom /\ n >= 1 /\ 1..Len(r) = 1..(n - 1) /\ DOMAIN r = 1..(n - 1)
  <2>1. DlqRoom \in Nat
    BY DlqRoomIs
  <2>2. DOMAIN r = 1..Len(r)
    BY <1>3, LenProperties
  <2>3. n - 1 <= DlqRoom /\ n >= 1
    BY <1>2, <2>1
  <2> QED
    BY <1>3, <2>2, <2>3
<1>5. deadQueue' = r
    BY <1>1, <1>3, <1>4, EnqueuedWhole
<1> DEFINE from(k) == IF k < i THEN k ELSE k + 1
<1>6. /\ \A k \in 1..(n - 1) : from(k) \in 1..n /\ r[k] = q[from(k)]
      /\ \A k, l \in 1..(n - 1) : k < l => from(k) < from(l)
      /\ \A k \in 1..n : k # i => \E l \in 1..(n - 1) : from(l) = k
  <2>1. \A k \in 1..(n - 1) : from(k) \in 1..n
    BY <1>2
  <2>2. \A k, l \in 1..(n - 1) : k < l => from(k) < from(l)
    BY <1>2
  <2>3. ASSUME NEW k \in 1..n, k # i PROVE \E l \in 1..(n - 1) : from(l) = k
    <3>1. CASE k < i
      <4>1. k \in 1..(n - 1) /\ from(k) = k
        BY <1>2, <3>1
      <4> QED
        BY <4>1
    <3>2. CASE ~(k < i)
      <4>1. k - 1 \in 1..(n - 1) /\ from(k - 1) = k
        BY <1>2, <2>3, <3>2
      <4> QED
        BY <4>1
    <3> QED
      BY <3>1, <3>2
  <2> QED
    BY <1>3, <2>1, <2>2, <2>3
<1> HIDE DEF from
<1>7. FiledInv'
  <2>1. Letter' = Letter
    BY DEF Letter
  <2> QED
    BY <1>1, <2>1 DEF LettersInv, FiledInv, senderVars
<1>8. ASSUME NEW a \in 1..moved
      PROVE  \/ dlq[a] \in removed' \cup ToSet(r)
             \/ dlq[a].at < time - DlqRetention
             \/ a + DlqRoom <= moved
  <2>1. \/ dlq[a] \in removed \cup ToSet(q)
        \/ dlq[a].at < time - DlqRetention
        \/ a + DlqRoom <= moved
    BY DEF LettersInv, QueueInv, LettersAccounted
  <2>2. CASE dlq[a] \in ToSet(q)
    <3>1. PICK k \in 1..n : q[k] = dlq[a]
      BY <1>2, <2>2 DEF ToSet
    <3>2. CASE k = i
      BY <1>1, <3>1, <3>2
    <3>3. CASE k # i
      <4>1. PICK l \in 1..(n - 1) : from(l) = k
        BY <1>6, <3>3
      <4>2. r[l] = dlq[a] /\ l \in DOMAIN r
        BY <1>4, <1>6, <3>1, <4>1
      <4> QED
        BY <4>2 DEF ToSet
    <3> QED
      BY <3>2, <3>3
  <2> QED
    BY <1>1, <2>1, <2>2
<1>9. QueueInv'
  <2>1. Letter' = Letter /\ DlqRoom' = DlqRoom /\ FiledBefore' = FiledBefore
    BY <1>1 DEF Letter, DlqRoom, FiledBefore, senderVars
  <2>2. dlq' = dlq /\ moved' = moved /\ time' = time
    BY <1>1 DEF senderVars
  <2>3. LettersAccounted'
    BY <1>5, <1>8, <2>1, <2>2 DEF LettersAccounted
  <2>4. \A k \in 1..Len(r) : \E a \in 1..moved : r[k] = dlq[a]
    BY <1>2, <1>4, <1>6, ZenonT(30)
  <2>5. ASSUME NEW k \in 1..Len(r), NEW l \in 1..Len(r), k < l
        PROVE  <<r[k], r[l]>> \in FiledBefore
    <3>1. k \in 1..(n - 1) /\ l \in 1..(n - 1)
      BY <1>4
    <3>2. /\ from(k) \in 1..n /\ r[k] = q[from(k)]
          /\ from(l) \in 1..n /\ r[l] = q[from(l)]
          /\ from(k) < from(l)
      BY <1>6, <2>5, <3>1
    <3>3. <<q[from(k)], q[from(l)]>> \in FiledBefore
      BY <1>2, <3>2
    <3> QED
      BY <3>2, <3>3
  <2> QED
    BY <1>3, <1>4, <1>5, <2>1, <2>2, <2>3, <2>4, <2>5 DEF QueueInv
<1> QED
    BY <1>7, <1>9 DEF LettersInv

\* Every step keeps the letters in order.
LEMMA LettersInvStep ==
    ASSUME DeliveryInv, LettersInv, [DeliveryNext]_deliveryVars
    PROVE  LettersInv'
<1>1. /\ time \in Nat /\ \A p \in Payloads : sent[p] \in Nat /\ sent[p] <= time
      /\ outcomes \in [Payloads -> {"new", "refused", "sending", "delivered", "dead"}]
      /\ sent \in [Payloads -> Nat]
    BY DEF LettersInv, FiledInv, DeliveryInv, SenderInv, ReceiverInv
<1>2. ASSUME UNCHANGED <<dlq, queueVars, outcomes, sent>>, time' \in {time, time + 1}
      PROVE  LettersInv'
  <2>1. time' \in Nat /\ time <= time' /\ UNCHANGED <<dlq, queueVars>>
    BY <1>1, <1>2
  <2>2. \A p \in Payloads : /\ sent'[p] \in Nat /\ sent'[p] <= time'
                            /\ outcomes'[p] = "dead" <=> outcomes[p] = "dead"
                            /\ outcomes[p] = "dead" => sent'[p] = sent[p]
    BY <1>1, <1>2, <2>1
  <2> QED
    BY <2>1, <2>2, NothingFiled
<1>3. ASSUME NEW q \in Payloads, outcomes[q] # "dead", UNCHANGED <<time, dlq, queueVars>>,
             NEW o \in {"refused", "sending", "delivered"},
             outcomes' = [outcomes EXCEPT ![q] = o],
             sent' = [sent EXCEPT ![q] = time] \/ sent' = sent
      PROVE  LettersInv'
  <2>1. time' \in Nat /\ time <= time' /\ UNCHANGED <<dlq, queueVars>>
    BY <1>1, <1>3
  <2>2. \A p \in Payloads : /\ sent'[p] \in Nat /\ sent'[p] <= time'
                            /\ outcomes'[p] = "dead" <=> outcomes[p] = "dead"
                            /\ outcomes[p] = "dead" => sent'[p] = sent[p]
    BY <1>1, <1>3
  <2> QED
    BY <2>1, <2>2, NothingFiled
<1>4. ASSUME job # NoJob, NEW status \in Nat, AttemptFailed(status)
      PROVE  LettersInv'
  <2>1. CASE job.attempt + 1 < MaxAttempts
    <3>1. UNCHANGED <<dlq, queueVars, outcomes, sent>> /\ time' = time
      BY <1>4, <2>1 DEF AttemptFailed
    <3> QED
      BY <1>2, <3>1
  <2> QED
    BY <1>4, <2>1, LetterFiled
<1>5. CASE SenderNext
  <2>1. CASE TimeOut
    <3>1. job # NoJob /\ AttemptFailed(0) /\ 0 \in Nat
      BY <2>1 DEF TimeOut
    <3> QED
      BY <1>4, <3>1
  <2>2. ASSUME NEW status \in {200, 401}, TakeReply(status), ~AttemptFailed(status)
        PROVE  LettersInv'
    <3>1. /\ job # NoJob
          /\ outcomes' = [outcomes EXCEPT ![job.p] = "delivered"]
          /\ UNCHANGED <<time, sent, dlq, queueVars>>
      BY <2>2 DEF TakeReply
    <3>2. PICK p \in Payloads : p = job.p
      BY <3>1 DEF DeliveryInv, SenderInv
    <3>3. outcomes[p] # "dead" /\ outcomes' = [outcomes EXCEPT ![p] = "delivered"]
      BY <3>1, <3>2 DEF DeliveryInv, SenderInv
    <3>4. "delivered" \in {"refused", "sending", "delivered"} /\ sent' = sent
      BY <3>1
    <3> QED
      BY <1>3, <3>1, <3>3, <3>4
  <2>3. ASSUME NEW status \in {200, 401}, TakeReply(status)
        PROVE  LettersInv'
    <3>1. job # NoJob /\ status \in Nat
      BY <2>3 DEF TakeReply
    <3> QED
      BY <1>4, <2>2, <2>3, <3>1
  <2> QED
    BY <1>5, <2>1, <2>3 DEF SenderNext
<1>6. ASSUME NEW p \in Payloads, Deliver(p) \/ Refuse(p)
      PROVE  LettersInv'
  <2>1. /\ outcomes[p] # "dead" /\ UNCHANGED <<time, dlq, queueVars>>
        /\ sent' = [sent EXCEPT ![p] = time] \/ sent' = sent
    BY <1>6 DEF Deliver, Refuse
  <2>2. PICK o \in {"refused", "sending", "delivered"} : outcomes' = [outcomes EXCEPT ![p] = o]
    BY <1>6 DEF Deliver, Refuse
  <2> QED
    BY <1>3, <2>1, <2>2
<1>7. CASE ReceiverNext \/ DeliveryTick \/ UNCHANGED deliveryVars
  <2>1. UNCHANGED <<dlq, queueVars, outcomes, sent>> /\ time' \in {time, time + 1}
    BY <1>7 DEF ReceiverNext, Arrive, CleanupNonces, DeliveryTick, deliveryVars, senderVars
  <2> QED
    BY <1>2, <2>1
<1>8. CASE LettersNext
    BY <1>8, LetterMoved, LettersExpire, LetterRemoved DEF LettersNext
<1> QED
    BY <1>5, <1>6, <1>7, <1>8 DEF DeliveryNext

\* The place of a letter in the order of filing.
LEMMA LetterPlace ==
    ASSUME LettersInv, NEW i \in DOMAIN dlq
    PROVE  SelectInSeq(dlq, LAMBDA e : e = dlq[i]) = i
<1> DEFINE I == {k \in 1..Len(dlq) : dlq[k] = dlq[i]}
<1>1. Len(dlq) \in Nat /\ DOMAIN dlq = 1..Len(dlq)
    BY DEF LettersInv, FiledInv
<1>2. i \in Int /\ I = {i, i}
    BY <1>1 DEF LettersInv, FiledInv
<1>3. SelectInSeq(dlq, LAMBDA e : e = dlq[i]) = IF I # {} THEN Min(I) ELSE 0
    BY DEF SelectInSeq
<1>4. I # {} /\ Min(I) = i
  <2>1. Min({i, i}) = i
    BY <1>2, MinMaxOfTwo
  <2> HIDE DEF I
  <2> QED
    BY <1>2, <2>1
<1> QED
    BY <1>3, <1>4

\* The invariant gives the accounts of the dead letters.
LEMMA InvKeepsLetters == LettersInv => DeadLettersKept
<1> SUFFICES ASSUME LettersInv PROVE DeadLettersKept
    OBVIOUS
<1>1. /\ Len(dlq) \in Nat /\ DOMAIN dlq = 1..Len(dlq) /\ moved \in Nat /\ moved <= Len(dlq)
      /\ Len(deadQueue) \in Nat /\ DOMAIN deadQueue = 1..Len(deadQueue)
      /\ \A i \in 1..Len(dlq) : dlq[i] \in Letter
    BY DEF LettersInv, FiledInv, QueueInv
<1>2. ASSUME NEW p \in Payloads
      PROVE  Cardinality({i \in DOMAIN dlq : dlq[i].p = p}) = IF outcomes[p] = "dead" THEN 1 ELSE 0
  <2> DEFINE I == {i \in DOMAIN dlq : dlq[i].p = p}
  <2>1. CASE outcomes[p] = "dead"
    <3>1. PICK i \in DOMAIN dlq : dlq[i].p = p
      BY <2>1 DEF LettersInv, FiledInv
    <3>2. I = {i}
      BY <3>1 DEF LettersInv, FiledInv
    <3>3. Cardinality({i}) = 1
      BY FS_Singleton
    <3> QED
      BY <2>1, <3>2, <3>3
  <2>2. CASE outcomes[p] # "dead"
    <3>1. I = {}
      BY <2>2 DEF LettersInv, FiledInv
    <3>2. Cardinality({}) = 0
      BY FS_EmptySet
    <3> QED
      BY <2>2, <3>1, <3>2
  <2> QED
    BY <2>1, <2>2
<1>3. \A i \in DOMAIN dlq : dlq[i].at >= sent[dlq[i].p]
  <2> SUFFICES ASSUME NEW i \in DOMAIN dlq PROVE dlq[i].at >= sent[dlq[i].p]
    OBVIOUS
  <2>1. dlq[i].at \in Nat /\ dlq[i].p \in Payloads
    BY <1>1 DEF Letter
  <2>2. sent[dlq[i].p] \in Nat /\ sent[dlq[i].p] <= dlq[i].at
    BY <2>1 DEF LettersInv, FiledInv
  <2> QED
    BY <2>1, <2>2
<1>4. ASSUME NEW i \in DOMAIN deadQueue, NEW j \in DOMAIN deadQueue, i < j
      PROVE  SelectInSeq(dlq, LAMBDA e : e = deadQueue[i])
               < SelectInSeq(dlq, LAMBDA e : e = deadQueue[j])
  <2>1. <<deadQueue[i], deadQueue[j]>> \in FiledBefore
    BY <1>1, <1>4 DEF LettersInv, QueueInv
  <2>2. PICK a \in DOMAIN dlq, b \in DOMAIN dlq :
          a < b /\ <<deadQueue[i], deadQueue[j]>> = <<dlq[a], dlq[b]>>
    BY <2>1 DEF FiledBefore
  <2>3. deadQueue[i] = dlq[a] /\ deadQueue[j] = dlq[b]
    BY <2>2
  <2>4. /\ SelectInSeq(dlq, LAMBDA e : e = dlq[a]) = a
        /\ SelectInSeq(dlq, LAMBDA e : e = dlq[b]) = b
    BY LetterPlace
  <2> QED
    BY <2>2, <2>3, <2>4
<1> QED
    BY <1>1, <1>2, <1>3, <1>4
    DEF DeadLettersKept, LettersInv, QueueInv, LettersAccounted, DlqRoom

\* A delivery given up on has one dead letter, and the DeadLetterQueue the letters are moved
\* to keeps their order and loses one only to a removal, to the retention or to as many newer
\* ones as it holds.
THEOREM DeliveriesSoundHolds == DeliverySpec => []DeliveriesSound
<1>1. DeliveryInv /\ LettersInv => DeliveriesSound
    BY InvKeepsLetters DEF DeliveryInv, ReceiverInv, DeliveriesSound
<1> QED
    BY <1>1, DeliveryInvInit, DeliveryInvStep, LettersInvInit, LettersInvStep, PTL DEF DeliverySpec

-----------------------------------------------------------------------------
(* Retries *)

\* saturating_mul and saturating_add stay in range.
LEMMA SaturatedBounds ==
    ASSUME NEW x \in Nat
    PROVE  /\ Saturated(x) = IF x <= Saturation THEN x ELSE Saturation
           /\ Saturated(x) \in 0..Saturation
<1>1. x \in Int /\ Saturation \in Int /\ Saturation \in Nat
    BY RetryConstants DEF RetryConstants
<1>2. Min({x, Saturation}) = IF x <= Saturation THEN x ELSE Saturation
    BY <1>1, MinMaxOfTwo
<1> QED
    BY <1>1, <1>2 DEF Saturated

PowNext(f, m, i) == IF i = 0 THEN 1 ELSE Saturated(m * f[i - 1])

PowUpTo(f, m, n) == f = [i \in 0..n |-> PowNext(f, m, i)]

\* The recursion of the power defines a function.
LEMMA PowExists ==
    ASSUME NEW m, NEW n \in Nat
    PROVE  \E f : PowUpTo(f, m, n)
<1> DEFINE T == {k \in Nat : \E f : PowUpTo(f, m, k)}
<1>1. 0 \in T
  <2> DEFINE f == [i \in 0..0 |-> 1]
  <2>1. \A i \in 0..0 : PowNext(f, m, i) = 1
    BY DEF PowNext
  <2>2. PowUpTo(f, m, 0)
    BY <2>1 DEF PowUpTo
  <2> QED
    BY <2>2
<1>2. ASSUME NEW k \in Nat, k \in T
      PROVE  k + 1 \in T
  <2>1. PICK f : PowUpTo(f, m, k)
    BY <1>2
  <2> DEFINE g == [i \in 0..(k + 1) |-> IF i <= k THEN f[i] ELSE PowNext(f, m, k + 1)]
  <2>2. ASSUME NEW i \in 0..(k + 1)
        PROVE  g[i] = PowNext(g, m, i)
    <3>1. i # 0 => i - 1 \in 0..k /\ i - 1 \in 0..(k + 1) /\ i - 1 <= k
      OBVIOUS
    <3>2. i # 0 => g[i - 1] = f[i - 1]
      BY <3>1
    <3>3. PowNext(g, m, i) = PowNext(f, m, i)
      BY <3>2 DEF PowNext
    <3>4. i <= k => i \in 0..k /\ f[i] = PowNext(f, m, i)
      BY <2>1 DEF PowUpTo
    <3>5. ~(i <= k) => i = k + 1
      OBVIOUS
    <3> QED
      BY <3>3, <3>4, <3>5
  <2>3. g = [i \in 0..(k + 1) |-> g[i]]
    OBVIOUS
  <2> HIDE DEF g
  <2>4. PowUpTo(g, m, k + 1)
    BY <2>2, <2>3 DEF PowUpTo
  <2> QED
    BY <2>4
<1> HIDE DEF T
<1>3. Nat \subseteq T
    BY <1>1, <1>2, NaturalsBySuccessor
<1> QED
    BY <1>3 DEF T

\* What the recursion computes of its first arguments does not depend on where it ends.
LEMMA PowAgrees ==
    ASSUME NEW m, NEW n \in Nat, NEW f, NEW g, PowUpTo(f, m, n), PowUpTo(g, m, n + 1)
    PROVE  \A i \in 0..n : f[i] = g[i]
<1> DEFINE T == {i \in Nat : i <= n => f[i] = g[i]}
<1>1. 0 \in T
  <2>1. 0 \in 0..n /\ 0 \in 0..(n + 1)
    OBVIOUS
  <2>2. f[0] = 1 /\ g[0] = 1
    BY <2>1 DEF PowUpTo, PowNext
  <2> QED
    BY <2>2
<1>2. ASSUME NEW i \in Nat, i \in T PROVE i + 1 \in T
  <2> SUFFICES ASSUME i + 1 <= n PROVE f[i + 1] = g[i + 1]
    OBVIOUS
  <2>1. /\ i + 1 \in 0..n /\ i + 1 \in 0..(n + 1) /\ i + 1 # 0 /\ (i + 1) - 1 = i
        /\ f[i] = g[i]
    BY <1>2
  <2>2. f[i + 1] = PowNext(f, m, i + 1) /\ g[i + 1] = PowNext(g, m, i + 1)
    BY <2>1 DEF PowUpTo
  <2> QED
    BY <2>1, <2>2 DEF PowNext
<1> HIDE DEF T
<1>3. Nat \subseteq T
    BY <1>1, <1>2, NaturalsBySuccessor
<1> QED
    BY <1>3 DEF T

\* The multiplier is taken to the power of the attempt one factor at a time, saturating
\* after each.
LEMMA PowByFactors ==
    ASSUME NEW m, NEW n \in Nat
    PROVE  /\ SaturatingPow(m, 0) = 1
           /\ SaturatingPow(m, n + 1) = Saturated(m * SaturatingPow(m, n))
<1> DEFINE F(k) == CHOOSE f : f = [i \in 0..k |-> IF i = 0 THEN 1 ELSE Saturated(m * f[i - 1])]
<1>1. \A k \in Nat : SaturatingPow(m, k) = F(k)[k]
    BY DEF SaturatingPow
<1>2. \A k \in Nat : PowUpTo(F(k), m, k)
  <2> SUFFICES ASSUME NEW k \in Nat PROVE PowUpTo(F(k), m, k)
    OBVIOUS
  <2>1. \E f : PowUpTo(f, m, k)
    BY PowExists
  <2> QED
    BY <2>1 DEF PowUpTo, PowNext
<1> HIDE DEF F
<1>3. SaturatingPow(m, 0) = 1
  <2>1. 0 \in 0..0 /\ PowUpTo(F(0), m, 0)
    BY <1>2
  <2>2. F(0)[0] = 1
    BY <2>1 DEF PowUpTo, PowNext
  <2> QED
    BY <1>1, <2>2
<1>4. SaturatingPow(m, n + 1) = Saturated(m * SaturatingPow(m, n))
  <2>1. n + 1 \in Nat /\ n + 1 \in 0..(n + 1) /\ n + 1 # 0 /\ (n + 1) - 1 = n /\ n \in 0..n
    OBVIOUS
  <2>2. PowUpTo(F(n), m, n) /\ PowUpTo(F(n + 1), m, n + 1)
    BY <1>2, <2>1
  <2>3. F(n)[n] = F(n + 1)[n]
    BY <2>1, <2>2, PowAgrees
  <2>4. F(n + 1)[n + 1] = Saturated(m * F(n + 1)[n])
    BY <2>1, <2>2 DEF PowUpTo, PowNext
  <2> QED
    BY <1>1, <2>1, <2>3, <2>4
<1> QED
    BY <1>3, <1>4

\* The power is in range; with a multiplier above zero it is positive and never shrinks.
LEMMA PowGrows ==
    ASSUME NEW m \in Nat, NEW k \in Nat
    PROVE  /\ SaturatingPow(m, k) \in 0..Saturation
           /\ m > 0 => SaturatingPow(m, k) <= SaturatingPow(m, k + 1)
<1> DEFINE P(n) == SaturatingPow(m, n)
           T == {n \in Nat : P(n) \in 0..Saturation}
<1>1. Saturation \in Nat \ {0}
    BY RetryConstants DEF RetryConstants
<1>2. 0 \in T
  <2>1. P(0) = 1
    BY PowByFactors
  <2> QED
    BY <1>1, <2>1
<1>3. ASSUME NEW n \in Nat, n \in T PROVE n + 1 \in T
  <2>1. P(n + 1) = Saturated(m * P(n))
    BY PowByFactors
  <2>2. m * P(n) \in Nat
    BY <1>1, <1>3
  <2>3. P(n + 1) \in 0..Saturation
    BY <2>1, <2>2, SaturatedBounds
  <2> QED
    BY <2>3
<1> HIDE DEF T
<1>4. Nat \subseteq T
    BY <1>2, <1>3, NaturalsBySuccessor
<1>5. ASSUME NEW n \in Nat
      PROVE  P(n) \in 0..Saturation /\ (m > 0 => P(n) <= P(n + 1))
  <2>1. P(n) \in 0..Saturation
    BY <1>4 DEF T
  <2>2. P(n + 1) = Saturated(m * P(n))
    BY PowByFactors
  <2> HIDE DEF P
  <2> DEFINE x == m * P(n)
  <2>3. x \in Nat /\ (m > 0 => P(n) <= x)
    BY <1>1, <2>1
  <2> HIDE DEF x
  <2>4. Saturated(x) = IF x <= Saturation THEN x ELSE Saturation
    BY <2>3, SaturatedBounds
  <2> QED
    BY <1>1, <2>1, <2>2, <2>3, <2>4 DEF x
<1> QED
    BY <1>5

\* The delay before jitter is within the cap, and grows with the attempts of a
\* configuration that validates.
LEMMA BaseDelays ==
    ASSUME NEW c \in RetryConfigs, NEW n \in Nat
    PROVE  /\ BaseDelayForAttempt(c, n) \in 0..c.max
           /\ ValidRetryConfig(c) => BaseDelayForAttempt(c, n) <= BaseDelayForAttempt(c, n + 1)
<1>1. /\ Saturation \in Nat /\ c.base \in Nat /\ c.max \in Nat /\ c.mult \in Nat
      /\ c.strategy \in {"Exponential", "Linear", "Constant", "NoRetry"}
    BY RetryConstants DEF RetryConstants
<1>2. ASSUME NEW x \in Nat
      PROVE  Min({Saturated(x), c.max}) = IF Saturated(x) <= c.max THEN Saturated(x) ELSE c.max
  <2>1. Saturated(x) \in Int /\ c.max \in Int
    BY <1>1, SaturatedBounds
  <2> QED
    BY <2>1, MinMaxOfTwo
<1> DEFINE Capped(x) == Min({Saturated(x), c.max})
<1>3. ASSUME NEW x \in Nat, NEW y \in Nat, x <= y
      PROVE  /\ Capped(x) \in 0..c.max
             /\ Capped(x) <= Capped(y)
  <2>1. /\ Saturated(x) = IF x <= Saturation THEN x ELSE Saturation
        /\ Saturated(y) = IF y <= Saturation THEN y ELSE Saturation
    BY SaturatedBounds
  <2>2. /\ Capped(x) = IF Saturated(x) <= c.max THEN Saturated(x) ELSE c.max
        /\ Capped(y) = IF Saturated(y) <= c.max THEN Saturated(y) ELSE c.max
    BY <1>2
  <2> HIDE DEF Capped
  <2> QED
    BY <1>1, <1>3, <2>1, <2>2
<1>4. CASE c.strategy = "Exponential"
  <2> DEFINE P(k) == SaturatingPow(c.mult, k)
  <2>1. /\ P(n) \in Nat /\ P(n + 1) \in Nat
        /\ c.mult > 0 => P(n) <= P(n + 1)
    <3>1. n + 1 \in Nat /\ 0..Saturation \subseteq Nat
      OBVIOUS
    <3>2. /\ SaturatingPow(c.mult, n) \in 0..Saturation
          /\ c.mult > 0 => SaturatingPow(c.mult, n) <= SaturatingPow(c.mult, n + 1)
      BY <1>1, PowGrows
    <3>3. SaturatingPow(c.mult, n + 1) \in 0..Saturation
      BY <1>1, <3>1, PowGrows
    <3> QED
      BY <3>1, <3>2, <3>3
  <2>2. /\ BaseDelayForAttempt(c, n) = Capped(c.base * P(n))
        /\ BaseDelayForAttempt(c, n + 1) = Capped(c.base * P(n + 1))
    BY <1>4 DEF BaseDelayForAttempt
  <2> HIDE DEF P, Capped
  <2> DEFINE x == c.base * P(n)
             y == c.base * P(n + 1)
  <2>3. x \in Nat /\ y \in Nat /\ (c.mult > 0 => x <= y)
    BY <1>1, <2>1
  <2> HIDE DEF x, y
  <2>4. Capped(x) \in 0..c.max /\ (c.mult > 0 => Capped(x) <= Capped(y))
    BY <1>3, <2>3
  <2> QED
    BY <1>1, <2>2, <2>4 DEF ValidRetryConfig, x, y
<1>5. CASE c.strategy = "Linear"
  <2>2. /\ BaseDelayForAttempt(c, n) = Capped(c.base * (n + 1))
        /\ BaseDelayForAttempt(c, n + 1) = Capped(c.base * (n + 1 + 1))
    BY <1>5 DEF BaseDelayForAttempt
  <2> HIDE DEF Capped
  <2> DEFINE x == c.base * (n + 1)
             y == c.base * (n + 1 + 1)
  <2>3. x \in Nat /\ y \in Nat /\ x <= y
    BY <1>1
  <2> HIDE DEF x, y
  <2>4. Capped(x) \in 0..c.max /\ Capped(x) <= Capped(y)
    BY <1>3, <2>3
  <2> QED
    BY <2>2, <2>4 DEF x, y
<1>6. CASE c.strategy = "Constant"
  <2>1. /\ BaseDelayForAttempt(c, n) = Min({c.base, c.max})
        /\ BaseDelayForAttempt(c, n + 1) = Min({c.base, c.max})
    BY <1>6 DEF BaseDelayForAttempt
  <2>2. Min({c.base, c.max}) = IF c.base <= c.max THEN c.base ELSE c.max
    BY <1>1, MinMaxOfTwo
  <2> QED
    BY <1>1, <2>1, <2>2
<1>7. CASE c.strategy = "NoRetry"
  <2>1. BaseDelayForAttempt(c, n) = 0 /\ BaseDelayForAttempt(c, n + 1) = 0
    BY <1>7 DEF BaseDelayForAttempt
  <2> QED
    BY <1>1, <2>1
<1> QED
    BY <1>1, <1>4, <1>5, <1>6, <1>7

\* No jitter takes a delay past the cap, and full jitter only adds to it.
LEMMA JitteredDelays ==
    ASSUME NEW c \in RetryConfigs, NEW n \in Nat, NEW s \in Seeds, NEW t \in Seeds
    PROVE  /\ DelayForAttempt(c, n, s, t) \in Int
           /\ DelayForAttempt(c, n, s, t) <= c.max
           /\ c.jitter = "Full" => DelayForAttempt(c, n, s, t) >= BaseDelayForAttempt(c, n)
<1> DEFINE base == BaseDelayForAttempt(c, n)
           half == base \div 2
           offset == s % (IF half = 0 THEN 1 ELSE half)
           extra == s % (c.base \div 2 + 1)
<1>1. /\ Saturation \in Nat /\ c.base \in Nat /\ c.max \in 0..Saturation
      /\ c.jitter \in {"Full", "Equal", "None"} /\ s \in Nat /\ t \in Nat
    BY RetryConstants DEF RetryConstants
<1>2. base \in 0..c.max
    BY BaseDelays
<1>3. /\ DelayForAttempt(c, n, s, t) =
           CASE c.jitter = "Full" -> Min({Saturated(base + extra), c.max})
             [] c.jitter = "Equal" /\ t % 2 = 0 -> Min({Saturated(base + offset), c.max})
             [] c.jitter = "Equal" /\ t % 2 = 1 -> Max({base - offset, Min({c.base, base})})
             [] c.jitter = "None" -> Min({base, c.max})
    BY DEF DelayForAttempt
<1> HIDE DEF base
<1>4. /\ offset \in Nat
      /\ extra \in Nat
      /\ t % 2 \in {0, 1}
  <2>1. half \in Nat
    BY <1>1, <1>2
  <2>2. offset \in Nat
    <3> DEFINE d == IF half = 0 THEN 1 ELSE half
    <3>1. d \in Nat \ {0}
      BY <2>1
    <3> HIDE DEF d
    <3>2. s % d \in Nat
      BY <1>1, <3>1
    <3> QED
      BY <3>2 DEF d
  <2>3. extra \in Nat
    <3> DEFINE d == c.base \div 2 + 1
    <3>1. d \in Nat \ {0}
      BY <1>1
    <3> HIDE DEF d
    <3>2. s % d \in Nat
      BY <1>1, <3>1
    <3> QED
      BY <3>2 DEF d
  <2>4. t % 2 \in {0, 1}
    BY <1>1
  <2> QED
    BY <2>2, <2>3, <2>4
<1> HIDE DEF offset, extra
<1>5. CASE c.jitter = "Full"
  <2>1. DelayForAttempt(c, n, s, t) = Min({Saturated(base + extra), c.max})
    BY <1>3, <1>5
  <2>2. base + extra \in Nat
    BY <1>1, <1>2, <1>4
  <2>3. /\ Saturated(base + extra) \in Int
        /\ Saturated(base + extra) = IF base + extra <= Saturation THEN base + extra ELSE Saturation
    BY <2>2, SaturatedBounds
  <2>4. Min({Saturated(base + extra), c.max})
          = IF Saturated(base + extra) <= c.max THEN Saturated(base + extra) ELSE c.max
    BY <1>1, <2>3, MinMaxOfTwo
  <2>5. DelayForAttempt(c, n, s, t) >= base
    BY <1>1, <1>2, <1>4, <2>1, <2>3, <2>4
  <2> QED
    BY <1>1, <2>1, <2>3, <2>4, <2>5 DEF base
<1>6. CASE c.jitter = "Equal" /\ t % 2 = 0
  <2>1. DelayForAttempt(c, n, s, t) = Min({Saturated(base + offset), c.max})
    BY <1>3, <1>6
  <2>2. base + offset \in Nat
    BY <1>1, <1>2, <1>4
  <2>3. Saturated(base + offset) \in Int
    BY <2>2, SaturatedBounds
  <2>4. Min({Saturated(base + offset), c.max})
          = IF Saturated(base + offset) <= c.max THEN Saturated(base + offset) ELSE c.max
    BY <1>1, <2>3, MinMaxOfTwo
  <2> QED
    BY <1>1, <1>6, <2>1, <2>3, <2>4
<1>7. CASE c.jitter = "Equal" /\ t % 2 = 1
  <2>1. DelayForAttempt(c, n, s, t) = Max({base - offset, Min({c.base, base})})
    BY <1>3, <1>7
  <2> DEFINE low == Min({c.base, base})
  <2>2. low \in Int /\ low <= base
    <3>1. Min({c.base, base}) = IF c.base <= base THEN c.base ELSE base
      BY <1>1, <1>2, MinMaxOfTwo
    <3> QED
      BY <1>1, <1>2, <3>1
  <2> HIDE DEF low
  <2>3. base - offset \in Int
    BY <1>1, <1>2, <1>4
  <2>4. Max({base - offset, low}) = IF base - offset >= low THEN base - offset ELSE low
    BY <2>2, <2>3, MinMaxOfTwo
  <2>5. DelayForAttempt(c, n, s, t) = Max({base - offset, low})
    BY <2>1 DEF low
  <2> QED
    BY <1>1, <1>2, <1>4, <1>7, <2>2, <2>4, <2>5
<1>8. CASE c.jitter = "None"
  <2>1. DelayForAttempt(c, n, s, t) = Min({base, c.max})
    BY <1>3, <1>8
  <2>2. Min({base, c.max}) = IF base <= c.max THEN base ELSE c.max
    BY <1>1, <1>2, MinMaxOfTwo
  <2> QED
    BY <1>1, <1>2, <1>8, <2>1, <2>2
<1> QED
    BY <1>1, <1>4, <1>5, <1>6, <1>7, <1>8

\* The plain loop: every call but the last is followed by one delay, while it runs an
\* attempt is left, and each delay was computed for its attempt.
LoopInv ==
    LET c == retry.cfg
    IN  /\ retry \in [cfg : RetryConfigs, attempt : Nat, state : {"running", "ok", "err"},
                      slept : Seq(Int)]
        /\ Len(retry.slept) = retry.attempt
        /\ retry.attempt < c.attempts \/ retry.attempt = 0
        /\ calls.plain = IF retry.state = "running" THEN retry.attempt ELSE retry.attempt + 1
        /\ \A i \in DOMAIN retry.slept :
              /\ retry.slept[i] <= c.max
              /\ c.jitter = "Full" => retry.slept[i] >= BaseDelayForAttempt(c, i - 1)

\* The calls that share a budget have taken what it says was consumed.
BudgetInv ==
    /\ budget \in [max : Nat, consumed : Nat, state : {"idle", "running", "done", "exhausted"}]
    /\ calls.budget = budget.consumed
    /\ budget.consumed <= budget.max

RetryInv ==
    /\ calls \in [plain : Nat, budget : Nat]
    /\ LoopInv
    /\ BudgetInv

\* At the start nothing was called.
LEMMA RetryInvInit == RetryInit => RetryInv
<1> SUFFICES ASSUME RetryInit PROVE RetryInv
    OBVIOUS
<1>1. LoopInv
  <2>1. retry.slept = <<>> /\ retry.attempt = 0 /\ retry.state = "running" /\ calls.plain = 0
    BY DEF RetryInit
  <2>2. Len(<<>>) = 0 /\ DOMAIN <<>> = {}
    BY EmptySeq
  <2>3. retry \in [cfg : RetryConfigs, attempt : Nat, state : {"running", "ok", "err"},
                   slept : Seq(Int)]
    <3>1. <<>> \in Seq(Int) /\ 0 \in Nat /\ "running" \in {"running", "ok", "err"}
      OBVIOUS
    <3>2. retry \in [cfg : RetryConfigs, attempt : {0}, state : {"running"}, slept : {<<>>}]
      BY DEF RetryInit
    <3> QED
      BY <3>1, <3>2, Zenon
  <2> QED
    BY <2>1, <2>2, <2>3 DEF LoopInv
<1>2. BudgetInv
  <2>1. PICK m \in BudgetSizes : budget.max = Max({m, 1})
    BY DEF RetryInit
  <2>2. budget.max \in Nat
    BY <2>1, MinMaxIsNat, RetryConstants DEF RetryConstants
  <2> QED
    BY <2>2 DEF RetryInit, BudgetInv
<1>3. calls \in [plain : Nat, budget : Nat]
    BY DEF RetryInit
<1> QED
    BY <1>1, <1>2, <1>3 DEF RetryInv

\* One turn of the plain loop.
LEMMA LoopStep ==
    ASSUME RetryInv, RetryNext
    PROVE  RetryInv'
<1> DEFINE c == retry.cfg
           a == retry.attempt
<1>1. /\ c \in RetryConfigs /\ c.attempts \in Nat /\ a \in Nat /\ retry.slept \in Seq(Int)
      /\ Len(retry.slept) = a /\ DOMAIN retry.slept = 1..a
      /\ calls.plain \in Nat /\ calls.budget \in Nat
  <2>1. c \in RetryConfigs /\ a \in Nat /\ retry.slept \in Seq(Int) /\ Len(retry.slept) = a
    BY DEF RetryInv, LoopInv
  <2>2. c.attempts \in Nat
    BY <2>1, RetryConstants DEF RetryConstants
  <2>3. calls.plain \in Nat /\ calls.budget \in Nat
    BY DEF RetryInv
  <2> QED
    BY <2>1, <2>2, <2>3, LenProperties
<1>2. /\ calls' \in [plain : Nat, budget : Nat]
      /\ calls'.plain = calls.plain + 1 /\ calls'.budget = calls.budget
      /\ budget' = budget
  <2>1. calls' = [calls EXCEPT !.plain = @ + 1] /\ budget' = budget
    BY DEF RetryNext, OperationSucceeds, OperationFails
  <2>2. calls \in [plain : Nat, budget : Nat]
    BY DEF RetryInv
  <2> QED
    BY <2>1, <2>2
<1>3. BudgetInv'
    BY <1>2 DEF RetryInv, BudgetInv
<1>4. ASSUME retry.state = "running", retry'.state # "running", retry'.cfg = c,
             retry'.attempt = a, retry'.slept = retry.slept,
             retry' \in [cfg : RetryConfigs, attempt : Nat, state : {"running", "ok", "err"},
                         slept : Seq(Int)]
      PROVE  LoopInv'
    BY <1>1, <1>2, <1>4 DEF RetryInv, LoopInv
<1>5. CASE OperationSucceeds
  <2>1. retry' = [retry EXCEPT !.state = "ok"] /\ retry.state = "running"
    BY <1>5 DEF OperationSucceeds
  <2>2. LoopInv'
    BY <1>4, <2>1 DEF RetryInv, LoopInv
  <2> QED
    BY <1>2, <1>3, <2>2 DEF RetryInv
<1>6. ASSUME NEW retryable \in BOOLEAN, NEW s \in Seeds, NEW t \in Seeds,
             OperationFails(retryable, s, t)
      PROVE  LoopInv'
  <2>1. CASE ~retryable \/ a + 1 >= c.attempts
    <3>1. retry' = [retry EXCEPT !.state = "err"] /\ retry.state = "running"
      BY <1>6, <2>1 DEF OperationFails
    <3> QED
      BY <1>4, <3>1 DEF RetryInv, LoopInv
  <2>2. CASE retryable /\ a + 1 < c.attempts
    <3> DEFINE d == DelayForAttempt(c, a, s, t)
    <3>1. /\ d \in Int /\ d <= c.max
          /\ c.jitter = "Full" => d >= BaseDelayForAttempt(c, a)
      BY <1>1, JitteredDelays
    <3>2. /\ retry' = [retry EXCEPT !.attempt = @ + 1, !.slept = Append(@, d)]
          /\ retry.state = "running"
      BY <1>1, <1>6, <2>2 DEF OperationFails
    <3> HIDE DEF d
    <3>3. /\ retry'.cfg = c /\ retry'.attempt = a + 1 /\ retry'.state = "running"
          /\ retry'.slept = Append(retry.slept, d)
          /\ retry' \in [cfg : RetryConfigs, attempt : Nat, state : {"running", "ok", "err"},
                         slept : Seq(Int)]
      <4>1. retry \in [cfg : RetryConfigs, attempt : Nat, state : {"running", "ok", "err"},
                       slept : Seq(Int)]
        BY DEF RetryInv, LoopInv
      <4>2. Append(retry.slept, d) \in Seq(Int) /\ a + 1 \in Nat
        BY <1>1, <3>1
      <4> QED
        BY <3>2, <4>1, <4>2
    <3>4. /\ Len(retry'.slept) = a + 1 /\ DOMAIN retry'.slept = 1..(a + 1)
          /\ retry'.slept[a + 1] = d
          /\ \A i \in 1..a : retry'.slept[i] = retry.slept[i]
      BY <1>1, <3>1, <3>3, AppendProperties, LenProperties
    <3>5. ASSUME NEW i \in 1..(a + 1)
          PROVE  /\ retry'.slept[i] <= c.max
                 /\ c.jitter = "Full" => retry'.slept[i] >= BaseDelayForAttempt(c, i - 1)
      <4>1. CASE i = a + 1
        BY <1>1, <3>1, <3>4, <4>1
      <4>2. CASE i # a + 1
        <5>1. i \in 1..a
          BY <1>1, <4>2
        <5> QED
          BY <1>1, <3>4, <5>1 DEF RetryInv, LoopInv
      <4> QED
        BY <4>1, <4>2
    <3>6. calls'.plain = a + 1
      BY <1>2, <3>2 DEF RetryInv, LoopInv
    <3> QED
      BY <1>1, <2>2, <3>3, <3>4, <3>5, <3>6 DEF LoopInv
  <2> QED
    BY <1>1, <2>1, <2>2
<1> QED
    BY <1>2, <1>3, <1>5, <1>6 DEF RetryNext, RetryInv

\* One step of the calls that share a budget.
LEMMA BudgetStep ==
    ASSUME RetryInv, BudgetNext
    PROVE  RetryInv'
<1>1. /\ budget \in [max : Nat, consumed : Nat, state : {"idle", "running", "done", "exhausted"}]
      /\ calls.budget = budget.consumed /\ budget.consumed <= budget.max
      /\ calls \in [plain : Nat, budget : Nat]
    BY DEF RetryInv, BudgetInv
<1>2. retry' = retry
    BY DEF BudgetNext, CallWithBudget, BudgetedAttempt, ResetBudget
<1>3. CASE CallWithBudget
  <2>1. budget' = [budget EXCEPT !.state = "running"] /\ calls' = calls
    BY <1>3 DEF CallWithBudget
  <2>2. BudgetInv'
    BY <1>1, <2>1 DEF BudgetInv
  <2>3. LoopInv'
    BY <1>2, <2>1 DEF RetryInv, LoopInv
  <2> QED
    BY <1>1, <2>1, <2>2, <2>3 DEF RetryInv
<1>4. ASSUME NEW ok \in BOOLEAN, NEW retryable \in BOOLEAN, BudgetedAttempt(ok, retryable)
      PROVE  RetryInv'
  <2>1. CASE budget.consumed >= budget.max
    <3>1. budget' = [budget EXCEPT !.state = "exhausted"] /\ calls' = calls
      BY <1>4, <2>1 DEF BudgetedAttempt
    <3>2. BudgetInv'
      BY <1>1, <3>1 DEF BudgetInv
    <3>3. LoopInv'
      BY <1>2, <3>1 DEF RetryInv, LoopInv
    <3> QED
      BY <1>1, <3>1, <3>2, <3>3 DEF RetryInv
  <2>2. CASE budget.consumed < budget.max
    <3>1. PICK after \in {"running", "done"} :
            budget' = [budget EXCEPT !.consumed = budget.consumed + 1, !.state = after]
      <4>1. budget' = [budget EXCEPT !.consumed = budget.consumed + 1,
                         !.state = IF ~ok /\ retryable /\ budget.consumed + 1 < budget.max
                                   THEN "running" ELSE "done"]
        BY <1>1, <1>4, <2>2 DEF BudgetedAttempt
      <4> QED
        BY <4>1
    <3>2. calls' = [calls EXCEPT !.budget = @ + 1]
      BY <1>1, <1>4, <2>2 DEF BudgetedAttempt
    <3>3. BudgetInv'
      <4>1. /\ budget'.max = budget.max /\ budget'.consumed = budget.consumed + 1
            /\ budget' \in [max : Nat, consumed : Nat,
                            state : {"idle", "running", "done", "exhausted"}]
        <5>1. budget'.max = budget.max /\ budget'.consumed = budget.consumed + 1
          BY <1>1, <3>1
        <5>2. budget.consumed + 1 \in Nat /\ after \in {"idle", "running", "done", "exhausted"}
          BY <1>1
        <5> DEFINE taken == budget.consumed + 1
        <5>3. budget' = [budget EXCEPT !.consumed = taken, !.state = after] /\ taken \in Nat
          BY <3>1, <5>2
        <5> HIDE DEF taken
        <5>4. budget' \in [max : Nat, consumed : Nat,
                           state : {"idle", "running", "done", "exhausted"}]
          BY <1>1, <5>2, <5>3
        <5> QED
          BY <5>1, <5>4
      <4>2. calls'.budget = calls.budget + 1
        BY <1>1, <3>2
      <4> QED
        BY <1>1, <2>2, <4>1, <4>2 DEF BudgetInv
    <3>4. calls'.plain = calls.plain /\ calls' \in [plain : Nat, budget : Nat]
      BY <1>1, <3>2
    <3>5. LoopInv'
      BY <1>2, <3>4 DEF RetryInv, LoopInv
    <3> QED
      BY <3>3, <3>4, <3>5 DEF RetryInv
  <2> QED
    BY <1>1, <2>1, <2>2
<1>5. CASE ResetBudget
  <2>1. budget' = [budget EXCEPT !.consumed = 0] /\ calls' = [calls EXCEPT !.budget = 0]
    BY <1>5 DEF ResetBudget
  <2>2. BudgetInv'
    BY <1>1, <2>1 DEF BudgetInv
  <2>3. calls'.plain = calls.plain /\ calls' \in [plain : Nat, budget : Nat]
    BY <1>1, <2>1
  <2>4. LoopInv'
    BY <1>2, <2>3 DEF RetryInv, LoopInv
  <2> QED
    BY <2>2, <2>3, <2>4 DEF RetryInv
<1> QED
    BY <1>3, <1>4, <1>5 DEF BudgetNext

\* The invariant gives the bounds.
LEMMA InvBoundsRetries == RetryInv => RetriesBounded
<1> SUFFICES ASSUME RetryInv PROVE RetriesBounded
    OBVIOUS
<1> DEFINE c == retry.cfg
<1>1. /\ c \in RetryConfigs /\ c.attempts \in Nat /\ retry.attempt \in Nat
      /\ retry.slept \in Seq(Int) /\ calls.plain \in Nat /\ Len(retry.slept) = retry.attempt
      /\ retry.attempt < c.attempts \/ retry.attempt = 0
      /\ calls.plain = IF retry.state = "running" THEN retry.attempt ELSE retry.attempt + 1
    BY RetryConstants DEF RetryInv, LoopInv, RetryConstants
<1>2. calls.plain <= Max({c.attempts, 1})
  <2> DEFINE n == c.attempts
  <2>1. n \in Int /\ 1 \in Int
    BY <1>1
  <2> HIDE DEF n
  <2>2. Max({n, 1}) = IF n >= 1 THEN n ELSE 1
    BY <2>1, MinMaxOfTwo
  <2> QED
    BY <1>1, <2>2 DEF n
<1>3. ASSUME NEW i \in DOMAIN retry.slept
      PROVE  /\ retry.slept[i] <= c.max
             /\ ValidRetryConfig(c) => BaseDelayForAttempt(c, i - 1) <= BaseDelayForAttempt(c, i)
             /\ c.jitter = "Full" => retry.slept[i] >= BaseDelayForAttempt(c, i - 1)
  <2>1. i - 1 \in Nat /\ (i - 1) + 1 = i
    BY <1>1, LenProperties
  <2>2. ValidRetryConfig(c) => BaseDelayForAttempt(c, i - 1) <= BaseDelayForAttempt(c, i)
    BY <1>1, <2>1, BaseDelays
  <2> QED
    BY <2>2 DEF RetryInv, LoopInv
<1>4. calls.budget <= budget.max /\ budget.consumed <= budget.max
    BY DEF RetryInv, BudgetInv
<1> QED
    BY <1>1, <1>2, <1>3, <1>4 DEF RetriesBounded

\* retry_with_backoff and execute_with_budget keep to their limits: calls, delays and
\* the shared ceiling, whatever the strategy, the jitter and the seeds.
THEOREM RetriesBoundedHolds == RetrySpec => []RetriesBounded
<1>1. RetryInv /\ [RetryNext \/ BudgetNext]_retryVars => RetryInv'
  <2>1. ASSUME RetryInv, UNCHANGED retryVars PROVE RetryInv'
    BY <2>1 DEF retryVars, RetryInv, LoopInv, BudgetInv
  <2> QED
    BY <2>1, LoopStep, BudgetStep
<1> QED
    BY <1>1, RetryInvInit, InvBoundsRetries, PTL DEF RetrySpec

-----------------------------------------------------------------------------
(* The operator's files *)

Idle == \A t \in Reloaders : reload[t] = Reloaded

\* Only valid configurations are read, and a reload that met no other reload and no edit has
\* read the file as it is.
ConfigInv ==
    /\ file \in [content : Contents, mtime : Nat]
    /\ manager \in [config : Contents, seen : Nat]
    /\ raced \in BOOLEAN
    /\ reload \in [Reloaders -> [at : {"idle", "loaded", "swapped"}, config : Contents \cup {Nothing},
                                 alone : BOOLEAN]]
    /\ ValidConfig(manager.config)
    /\ \A t \in Reloaders :
          \/ reload[t] = Reloaded
          \/ /\ reload[t].at \in {"loaded", "swapped"}
             /\ reload[t].config \in Contents /\ ValidConfig(reload[t].config)
             /\ reload[t].alone =>
                   /\ \A u \in Reloaders \ {t} : reload[u] = Reloaded
                   /\ file.content = reload[t].config
                   /\ reload[t].at = "swapped" => manager.config = reload[t].config
    /\ Idle /\ ~raced /\ ~HasChanged /\ file.mtime > 0 => manager.config = file.content

Kinds == {"add", "remove", "rotate", "deploy", "network"}
OfStore == {"add", "remove", "rotate"}

\* Until commands overlap, one runs at a time.
CommandInv ==
    /\ overlapped \in BOOLEAN
    /\ command = [p \in Commands |-> command[p]]
    /\ \A p \in Commands : command[p] = NoCommand \/ command[p].kind \in Kinds
    /\ ~overlapped => \A p, q \in Commands :
                         command[p].kind # Nothing /\ command[q].kind # Nothing => p = q

\* The one that runs has read the credentials as they are.
CredInv ==
    ~overlapped => /\ keystore = serial
                   /\ \A p \in Commands : command[p].kind \in OfStore => command[p].copy = keystore

Deployment == [id : Nat, initialized : BOOLEAN]

Deploying(p) == command[p].kind = "deploy"

\* A list of deployments that are on the network, each once, and none still in progress.
ListedIn(list, cs, cmds) ==
    /\ list \in Seq(Deployment)
    /\ \A i \in 1..Len(list) :
          /\ list[i].id \in 1..Len(cs)
          /\ list[i].initialized => cs[list[i].id]
          /\ \A j \in 1..Len(list) : list[i].id = list[j].id => i = j
          /\ \A p \in Commands : cmds[p].kind = "deploy" => cmds[p].id # list[i].id

WrittenDown == {r.id : r \in ToSet(records)}

DeployInv ==
    /\ contracts \in Seq(BOOLEAN)
    /\ ListedIn(records, contracts, command)
    /\ \A p \in Commands : Deploying(p) =>
          /\ ListedIn(command[p].copy, contracts, command) /\ command[p].id \in 1..Len(contracts)
          /\ \A q \in Commands : Deploying(q) /\ command[p].id = command[q].id => p = q
    /\ ~overlapped =>
          /\ \A p \in Commands : Deploying(p) =>
                /\ command[p].copy = records /\ command[p].id = Len(contracts)
                /\ WrittenDown = 1..(Len(contracts) - 1)
          /\ (\A p \in Commands : ~Deploying(p)) => WrittenDown = 1..Len(contracts)

Profile == [name : ProfileNames, valid : BOOLEAN, default : BOOLEAN]

\* Two profiles of different names, one at most the default.
Apart == {e \in Profile \X Profile : e[1].name # e[2].name /\ ~(e[1].default /\ e[2].default)}

ProfileList(list) ==
    /\ list \in Seq(Profile)
    /\ \A i, j \in 1..Len(list) : i < j => <<list[i], list[j]>> \in Apart

\* The profile marked as the default is the one asked for, and it validates.
Marked(list, name) ==
    /\ \A r \in ToSet(list) : r.default => r.name = name
    /\ name # Nothing => \E r \in ToSet(list) : r.valid /\ r.default /\ r.name = name

Networking(p) == command[p].kind = "network"

\* What is asked for once the command has saved its list.
AskedAfter(c, before) ==
    LET latest == IF c.asked = Nothing THEN before ELSE c.asked
    IN  IF latest \in NamesOf(c.save) THEN latest ELSE Nothing

ProfileInv ==
    /\ ProfileList(profiles)
    /\ \A p \in Commands : Networking(p) => ProfileList(command[p].save)
    /\ ~overlapped =>
          /\ Marked(profiles, asked)
          /\ \A p \in Commands : Networking(p) => Marked(command[p].save, AskedAfter(command[p], asked))

FileInv == ConfigInv /\ CommandInv /\ CredInv /\ DeployInv /\ ProfileInv

\* A thread that is marked alone again when idle stays idle.
LEMMA IdleAgain ==
    ASSUME NEW r, r \in [at : {"idle", "loaded", "swapped"}, config : Contents \cup {Nothing}, alone : BOOLEAN],
           NEW b \in BOOLEAN
    PROVE  /\ [r EXCEPT !.alone = b]
                \in [at : {"idle", "loaded", "swapped"}, config : Contents \cup {Nothing}, alone : BOOLEAN]
           /\ [r EXCEPT !.alone = b].at = r.at /\ [r EXCEPT !.alone = b].config = r.config
           /\ [r EXCEPT !.alone = b].alone = b
           /\ r = Reloaded /\ b => [r EXCEPT !.alone = b] = Reloaded
           /\ Reloaded.at = "idle"
<1>1. Reloaded.at = "idle"
    BY DEF Reloaded
<1>2. ASSUME r = Reloaded, b
      PROVE  [r EXCEPT !.alone = b] = Reloaded
  <2>1. r.alone = TRUE /\ b = TRUE
    BY <1>2 DEF Reloaded
  <2> QED
    BY <2>1, <1>2 DEF Reloaded
<1> QED
    BY <1>1, <1>2

ReloadStates == [at : {"idle", "loaded", "swapped"}, config : Contents \cup {Nothing}, alone : BOOLEAN]

\* An edit of the file makes every reload under way one that was not alone.
LEMMA ConfigEdited ==
    ASSUME ConfigInv, OperatorConstants, NEW c \in Contents, NEW mtime \in 0..MaxMtime, EditFile(c, mtime)
    PROVE  ConfigInv'
<1>1. /\ file' = [content |-> c, mtime |-> mtime] /\ manager' = manager
      /\ reload' = [t \in Reloaders |-> [reload[t] EXCEPT !.alone = reload[t] = Reloaded]]
      /\ raced' = (raced \/ mtime \in 1..manager.seen)
    BY DEF EditFile
<1>2. /\ manager \in [config : Contents, seen : Nat] /\ raced \in BOOLEAN
      /\ reload \in [Reloaders -> ReloadStates] /\ ValidConfig(manager.config)
    BY DEF ConfigInv, ReloadStates
<1>3. \A t \in Reloaders : reload[t] \in ReloadStates
    BY <1>2
<1>4. ASSUME NEW t \in Reloaders
      PROVE  /\ reload'[t] \in ReloadStates
             /\ reload'[t].at = reload[t].at /\ reload'[t].config = reload[t].config
             /\ reload'[t].alone = (reload[t] = Reloaded)
             /\ reload[t] = Reloaded => reload'[t] = Reloaded
  <2> DEFINE b == reload[t] = Reloaded
             r == reload[t]
  <2>1. b \in BOOLEAN /\ r \in ReloadStates
    BY <1>3
  <2>2. reload'[t] = [r EXCEPT !.alone = b]
    BY <1>1
  <2> HIDE DEF b, r
  <2>3. /\ reload'[t] \in ReloadStates
        /\ reload'[t].at = r.at /\ reload'[t].config = r.config
        /\ reload'[t].alone = b
        /\ r = Reloaded /\ b => reload'[t] = Reloaded
    BY <2>1, <2>2, IdleAgain DEF ReloadStates
  <2> QED
    BY <2>3 DEF b, r
<1>5. reload' \in [Reloaders -> ReloadStates]
    BY <1>1, <1>4
<1>6. file' \in [content : Contents, mtime : Nat] /\ file'.mtime = mtime /\ file'.content = c
  <2>0. MaxMtime \in Nat
    BY DEF OperatorConstants
  <2>1. mtime \in Nat
    BY <2>0
  <2> QED
    BY <1>1, <2>1
<1>7. raced' \in BOOLEAN
    BY <1>1, <1>2
<1>8. ASSUME NEW t \in Reloaders, reload'[t] # Reloaded
      PROVE  /\ reload'[t].at \in {"loaded", "swapped"}
             /\ reload'[t].config \in Contents /\ ValidConfig(reload'[t].config)
             /\ ~reload'[t].alone
  <2>1. reload[t] # Reloaded
    BY <1>4, <1>8
  <2> QED
    BY <1>4, <2>1 DEF ConfigInv
<1>9. ASSUME ~raced', ~HasChanged', file'.mtime > 0 PROVE FALSE
  <2>1. manager.seen # 0 /\ ~(mtime > manager.seen) /\ mtime > 0
    BY <1>1, <1>6, <1>9 DEF HasChanged
  <2>2. mtime \in Nat /\ manager.seen \in Nat
    BY <1>2, <1>6
  <2>3. mtime \in 1..manager.seen
    BY <2>1, <2>2
  <2> QED
    BY <1>1, <1>9, <2>3
<1> QED
    BY <1>1, <1>2, <1>5, <1>6, <1>7, <1>8, <1>9 DEF ConfigInv, ReloadStates

\* A reload reads a valid configuration, alone if every other thread is idle.
LEMMA ConfigLoaded ==
    ASSUME ConfigInv, NEW t \in Reloaders, NEW always \in BOOLEAN, LoadConfig(t, always)
    PROVE  ConfigInv'
<1> DEFINE single == \A v \in Reloaders : reload[v] = Reloaded
           read == [at |-> "loaded", config |-> file.content, alone |-> single]
<1>1. /\ file' = file /\ manager' = manager /\ raced' = raced
      /\ reload' = [u \in Reloaders |->
                      IF u = t THEN read ELSE [reload[u] EXCEPT !.alone = reload[u] = Reloaded]]
      /\ reload[t] = Reloaded /\ ValidConfig(file.content)
    BY DEF LoadConfig
<1>2. /\ file \in [content : Contents, mtime : Nat]
      /\ manager \in [config : Contents, seen : Nat] /\ raced \in BOOLEAN
      /\ reload \in [Reloaders -> ReloadStates] /\ ValidConfig(manager.config)
    BY DEF ConfigInv, ReloadStates
<1>3. \A u \in Reloaders : reload[u] \in ReloadStates
    BY <1>2
<1>4. ASSUME NEW u \in Reloaders, u # t
      PROVE  /\ reload'[u] \in ReloadStates
             /\ reload'[u].at = reload[u].at /\ reload'[u].config = reload[u].config
             /\ reload'[u].alone = (reload[u] = Reloaded)
             /\ reload[u] = Reloaded => reload'[u] = Reloaded
  <2> DEFINE b == reload[u] = Reloaded
             r == reload[u]
  <2>1. b \in BOOLEAN /\ r \in ReloadStates
    BY <1>3
  <2>2. reload'[u] = [r EXCEPT !.alone = b]
    BY <1>1, <1>4
  <2> HIDE DEF b, r
  <2>3. /\ reload'[u] \in ReloadStates
        /\ reload'[u].at = r.at /\ reload'[u].config = r.config
        /\ reload'[u].alone = b
        /\ r = Reloaded /\ b => reload'[u] = Reloaded
    BY <2>1, <2>2, IdleAgain DEF ReloadStates
  <2> QED
    BY <2>3 DEF b, r
<1>5. /\ reload'[t] \in ReloadStates /\ reload'[t].at = "loaded"
      /\ reload'[t].config = file.content /\ reload'[t].alone = single
      /\ reload'[t] # Reloaded
  <2>1. reload'[t] = read /\ single \in BOOLEAN /\ file.content \in Contents
    BY <1>1, <1>2
  <2> HIDE DEF single
  <2>2. /\ read \in ReloadStates /\ read.at = "loaded" /\ read.config = file.content
        /\ read.alone = single
    BY <2>1 DEF ReloadStates
  <2>3. read # Reloaded
    BY <2>2, IdleAgain DEF Reloaded
  <2> QED
    BY <2>1, <2>2, <2>3
<1>6. reload' \in [Reloaders -> ReloadStates]
  <2> HIDE DEF read
  <2>1. \A u \in Reloaders : reload'[u] \in ReloadStates
    BY <1>4, <1>5
  <2>2. reload' = [u \in Reloaders |-> reload'[u]]
    BY <1>1
  <2> QED
    BY <2>1, <2>2
<1>7. ASSUME NEW u \in Reloaders, reload'[u] # Reloaded
      PROVE  /\ reload'[u].at \in {"loaded", "swapped"}
             /\ reload'[u].config \in Contents /\ ValidConfig(reload'[u].config)
             /\ reload'[u].alone =>
                   /\ \A v \in Reloaders \ {u} : reload'[v] = Reloaded
                   /\ file.content = reload'[u].config
                   /\ reload'[u].at = "swapped" => manager.config = reload'[u].config
  <2>1. CASE u = t
    BY <1>1, <1>2, <1>4, <1>5, <2>1
  <2>2. CASE u # t
    <3>1. reload[u] # Reloaded
      BY <1>4, <1>7, <2>2
    <3> QED
      BY <1>4, <2>2, <3>1 DEF ConfigInv
  <2> QED
    BY <2>1, <2>2
<1>8. ~Idle'
    BY <1>5 DEF Idle
<1> HIDE DEF read
<1> QED
    BY <1>1, <1>2, <1>6, <1>7, <1>8 DEF ConfigInv, ReloadStates

\* The configuration read becomes the active one.
LEMMA ConfigSwapped ==
    ASSUME ConfigInv, NEW t \in Reloaders, SwapConfig(t)
    PROVE  ConfigInv'
<1>1. /\ file' = file /\ raced' = raced /\ reload[t].at = "loaded"
      /\ manager' = [manager EXCEPT !.config = reload[t].config]
      /\ reload' = [reload EXCEPT ![t].at = "swapped"]
    BY DEF SwapConfig
<1>2. /\ file \in [content : Contents, mtime : Nat]
      /\ manager \in [config : Contents, seen : Nat] /\ raced \in BOOLEAN
      /\ reload \in [Reloaders -> ReloadStates]
    BY DEF ConfigInv, ReloadStates
<1>3. reload[t] # Reloaded /\ reload[t] \in ReloadStates
    BY <1>1, <1>2, IdleAgain DEF Reloaded
<1>4. /\ reload[t].config \in Contents /\ ValidConfig(reload[t].config)
      /\ reload[t].alone => /\ \A u \in Reloaders \ {t} : reload[u] = Reloaded
                            /\ file.content = reload[t].config
    BY <1>3 DEF ConfigInv
<1>5. /\ manager' \in [config : Contents, seen : Nat] /\ manager'.config = reload[t].config
    BY <1>1, <1>2, <1>4
<1>6. /\ reload'[t] \in ReloadStates /\ reload'[t].at = "swapped"
      /\ reload'[t].config = reload[t].config /\ reload'[t].alone = reload[t].alone
      /\ \A u \in Reloaders \ {t} : reload'[u] = reload[u]
      /\ reload' \in [Reloaders -> ReloadStates]
  <2> DEFINE r == [reload[t] EXCEPT !.at = "swapped"]
  <2>1. /\ r \in ReloadStates /\ r.at = "swapped"
        /\ r.config = reload[t].config /\ r.alone = reload[t].alone
    BY <1>3 DEF ReloadStates
  <2>2. reload' = [reload EXCEPT ![t] = r]
    BY <1>1
  <2> HIDE DEF r
  <2> QED
    BY <1>2, <2>1, <2>2
<1>7. reload'[t] # Reloaded
    BY <1>6, IdleAgain DEF Reloaded
<1>8. ASSUME NEW u \in Reloaders, reload'[u] # Reloaded
      PROVE  /\ reload'[u].at \in {"loaded", "swapped"}
             /\ reload'[u].config \in Contents /\ ValidConfig(reload'[u].config)
             /\ reload'[u].alone =>
                   /\ \A v \in Reloaders \ {u} : reload'[v] = Reloaded
                   /\ file.content = reload'[u].config
                   /\ reload'[u].at = "swapped" => manager'.config = reload'[u].config
  <2>1. CASE u = t
    BY <1>4, <1>5, <1>6, <2>1
  <2>2. CASE u # t
    <3>1. reload'[u] = reload[u] /\ reload[u] # Reloaded
      BY <1>6, <1>8, <2>2
    <3>2. ~reload[u].alone
      BY <1>3, <2>2, <3>1 DEF ConfigInv
    <3> QED
      BY <3>1, <3>2 DEF ConfigInv
  <2> QED
    BY <2>1, <2>2
<1>9. ~Idle'
    BY <1>7 DEF Idle
<1> QED
    BY <1>1, <1>2, <1>4, <1>5, <1>6, <1>8, <1>9 DEF ConfigInv, ReloadStates

\* A reload that ends alone has stamped the file it read.
LEMMA ConfigStamped ==
    ASSUME ConfigInv, NEW t \in Reloaders, StampConfig(t)
    PROVE  ConfigInv'
<1>1. /\ file' = file /\ raced' = ~reload[t].alone /\ reload[t].at = "swapped"
      /\ manager' = [manager EXCEPT !.seen = file.mtime]
      /\ reload' = [reload EXCEPT ![t] = Reloaded]
    BY DEF StampConfig
<1>2. /\ file \in [content : Contents, mtime : Nat]
      /\ manager \in [config : Contents, seen : Nat]
      /\ reload \in [Reloaders -> ReloadStates] /\ ValidConfig(manager.config)
    BY DEF ConfigInv, ReloadStates
<1>3. reload[t] # Reloaded /\ reload[t].alone \in BOOLEAN
    BY <1>1, <1>2, IdleAgain DEF Reloaded, ReloadStates
<1>4. reload[t].alone => /\ \A u \in Reloaders \ {t} : reload[u] = Reloaded
                         /\ file.content = reload[t].config
                         /\ manager.config = reload[t].config
    BY <1>1, <1>3 DEF ConfigInv
<1>5. manager' \in [config : Contents, seen : Nat] /\ manager'.config = manager.config
    BY <1>1, <1>2
<1>6. Reloaded \in ReloadStates
    BY DEF Reloaded, ReloadStates
<1>7. /\ reload'[t] = Reloaded /\ \A u \in Reloaders \ {t} : reload'[u] = reload[u]
      /\ reload' \in [Reloaders -> ReloadStates]
    BY <1>1, <1>2, <1>6
<1>8. ASSUME NEW u \in Reloaders, reload'[u] # Reloaded
      PROVE  /\ reload'[u].at \in {"loaded", "swapped"}
             /\ reload'[u].config \in Contents /\ ValidConfig(reload'[u].config)
             /\ reload'[u].alone =>
                   /\ \A v \in Reloaders \ {u} : reload'[v] = Reloaded
                   /\ file.content = reload'[u].config
                   /\ reload'[u].at = "swapped" => manager'.config = reload'[u].config
  <2>1. u # t /\ reload'[u] = reload[u] /\ reload[u] # Reloaded
    BY <1>7, <1>8
  <2> QED
    BY <1>3, <2>1 DEF ConfigInv
<1>9. ~raced' => manager'.config = file.content
    BY <1>1, <1>3, <1>4, <1>5
<1>10. raced' \in BOOLEAN
    BY <1>1
<1> QED
    BY <1>1, <1>2, <1>5, <1>7, <1>8, <1>9, <1>10 DEF ConfigInv, ReloadStates

\* Edits and reloads keep the invariant.
LEMMA ConfigNextKeeps == ConfigInv /\ ConfigNext => ConfigInv'
    BY OperatorConstants, ConfigEdited, ConfigLoaded, ConfigSwapped, ConfigStamped DEF ConfigNext

\* No kind of command is the absence of one.
LEMMA KindOfNone ==
    /\ NoCommand.kind = Nothing /\ Nothing \notin Kinds
    /\ CommandInv => \A p \in Commands : /\ command[p] = NoCommand <=> command[p].kind = Nothing
                                         /\ command[p].kind \in Kinds \cup {Nothing}
<1>1. NoCommand.kind = Nothing
    BY DEF NoCommand
<1>2. Nothing \notin Kinds
    BY OperatorConstants DEF OperatorConstants, Kinds
<1> QED
    BY <1>1, <1>2 DEF CommandInv

\* A command that begins is the only one, or overlaps.
LEMMA Begun ==
    ASSUME CommandInv, NEW p \in Commands, NEW c, c.kind \in Kinds, Begin(p, c)
    PROVE  /\ CommandInv' /\ command[p].kind = Nothing /\ command'[p] = c
           /\ \A q \in Commands \ {p} : command'[q] = command[q]
           /\ ~overlapped' => ~overlapped /\ \A q \in Commands : command[q].kind = Nothing
<1>1. /\ command[p] = NoCommand /\ command' = [command EXCEPT ![p] = c]
      /\ overlapped' = (overlapped \/ \E q \in Commands : command[q] # NoCommand)
    BY DEF Begin
<1>2. /\ overlapped \in BOOLEAN /\ command = [q \in Commands |-> command[q]]
      /\ \A q \in Commands : command[q] = NoCommand \/ command[q].kind \in Kinds
    BY DEF CommandInv
<1>3. command'[p] = c /\ \A q \in Commands \ {p} : command'[q] = command[q]
    BY <1>1, <1>2
<1>4. ~overlapped' => ~overlapped /\ \A q \in Commands : command[q].kind = Nothing
    BY <1>1, <1>2, KindOfNone
<1>5. overlapped' \in BOOLEAN
    BY <1>1, <1>2
<1>6. command' = [q \in Commands |-> command'[q]]
    BY <1>1, <1>2
<1>7. \A q \in Commands : command'[q] = NoCommand \/ command'[q].kind \in Kinds
    BY <1>2, <1>3
<1>8. ASSUME ~overlapped', NEW q \in Commands, NEW r \in Commands,
             command'[q].kind # Nothing, command'[r].kind # Nothing
      PROVE  q = r
    BY <1>3, <1>4, <1>8
<1>9. CommandInv'
    BY <1>5, <1>6, <1>7, <1>8 DEF CommandInv
<1> QED
    BY <1>1, <1>3, <1>4, <1>9, KindOfNone

\* A command that ends leaves the others.
LEMMA CommandEnds ==
    ASSUME CommandInv, NEW p \in Commands, End(p), overlapped' \in {overlapped, TRUE}
    PROVE  /\ CommandInv' /\ command'[p].kind = Nothing
           /\ \A q \in Commands \ {p} : command'[q] = command[q]
           /\ ~overlapped' => ~overlapped
<1>1. command' = [command EXCEPT ![p] = NoCommand]
    BY DEF End
<1>2. /\ overlapped \in BOOLEAN /\ command = [q \in Commands |-> command[q]]
      /\ \A q \in Commands : command[q] = NoCommand \/ command[q].kind \in Kinds
    BY DEF CommandInv
<1>3. command'[p] = NoCommand /\ \A q \in Commands \ {p} : command'[q] = command[q]
    BY <1>1, <1>2
<1>4. overlapped' \in BOOLEAN /\ (~overlapped' => ~overlapped)
    BY <1>2
<1>6. command' = [q \in Commands |-> command'[q]]
    BY <1>1, <1>2
<1>7. \A q \in Commands : command'[q] = NoCommand \/ command'[q].kind \in Kinds
    BY <1>2, <1>3
<1>8. ASSUME ~overlapped', NEW q \in Commands, NEW r \in Commands,
             command'[q].kind # Nothing, command'[r].kind # Nothing
      PROVE  q = r
  <2>1. q # p /\ r # p
    BY <1>3, <1>8, KindOfNone
  <2> QED
    BY <1>3, <1>4, <1>8, <2>1 DEF CommandInv
<1>9. CommandInv'
    BY <1>4, <1>6, <1>7, <1>8 DEF CommandInv
<1> QED
    BY <1>3, <1>4, <1>9, KindOfNone

\* What does not touch the credentials and begins no command on them.
LEMMA CredAside ==
    ASSUME CredInv, keystore' = keystore, serial' = serial, ~overlapped' => ~overlapped,
           \A q \in Commands : command'[q].kind \in OfStore => command'[q] = command[q]
    PROVE  CredInv'
    BY DEF CredInv

\* A command on the credentials reads them as they are.
LEMMA CredBegins ==
    ASSUME CommandInv, CredInv, NEW p \in Commands, NEW c, c.kind \in Kinds, c.copy = keystore,
           Begin(p, c), keystore' = keystore, serial' = serial
    PROVE  CredInv'
<1>1. /\ command'[p] = c
      /\ \A q \in Commands \ {p} : command'[q] = command[q]
      /\ ~overlapped' => ~overlapped /\ \A q \in Commands : command[q].kind = Nothing
    BY Begun
<1> QED
    BY <1>1 DEF CredInv

\* Alone, it saves what the commands in turn would leave.
LEMMA CredSaved ==
    ASSUME CommandInv, CredInv, NEW p \in Commands, SaveCredentials(p)
    PROVE  CredInv'
<1>1. overlapped' = overlapped /\ End(p) /\ command[p].kind \in OfStore
    BY DEF SaveCredentials, OfStore
<1>2. /\ command'[p].kind = Nothing
      /\ \A q \in Commands \ {p} : command'[q] = command[q]
    BY <1>1, CommandEnds
<1>3. Nothing \notin OfStore
    BY KindOfNone DEF Kinds, OfStore
<1> SUFFICES ASSUME ~overlapped
             PROVE  /\ keystore' = serial'
                    /\ \A q \in Commands : command'[q].kind \in OfStore => command'[q].copy = keystore'
    BY <1>1 DEF CredInv
<1>4. keystore = serial /\ command[p].copy = keystore
    BY <1>1 DEF CredInv
<1>5. \A q \in Commands : command'[q].kind \notin OfStore
  <2> SUFFICES ASSUME NEW q \in Commands, command'[q].kind \in OfStore PROVE FALSE
    OBVIOUS
  <2>1. q # p /\ command[q].kind \in OfStore
    BY <1>2, <1>3
  <2>2. command[q].kind # Nothing /\ command[p].kind # Nothing
    BY <1>1, <1>3, <2>1
  <2> QED
    BY <2>1, <2>2 DEF CommandInv
<1>6. CASE command[p].kind = "add"
    BY <1>4, <1>5, <1>6 DEF SaveCredentials
<1>7. CASE command[p].kind = "remove"
    BY <1>4, <1>5, <1>7 DEF SaveCredentials
<1>8. CASE command[p].kind = "rotate"
  <2>1. PICK old \in Passwords, new \in Passwords :
          LET copy == command[p].copy
              opens == \A n \in DOMAIN copy : copy[n].password = old
              all == \A n \in DOMAIN serial : serial[n].password = old
          IN  /\ keystore' = IF RotateKeystore(copy, old, new) = copy THEN keystore
                             ELSE RotateKeystore(copy, old, new)
              /\ serial' = IF opens /\ all
                           THEN [n \in DOMAIN serial |-> [serial[n] EXCEPT !.password = new]]
                           ELSE serial
    BY <1>8 DEF SaveCredentials
  <2> DEFINE k == keystore
             all == \A n \in DOMAIN k : k[n].password = old
             rotated == [n \in DOMAIN k |-> [k[n] EXCEPT !.password = new]]
  <2>2. RotateKeystore(k, old, new) = IF all THEN rotated ELSE k
    BY DEF RotateKeystore
  <2>3. keystore' = IF RotateKeystore(k, old, new) = k THEN k ELSE RotateKeystore(k, old, new)
    BY <1>4, <2>1
  <2>4. serial' = IF all THEN rotated ELSE k
    BY <1>4, <2>1
  <2> HIDE DEF k, all, rotated
  <2>5. keystore' = serial'
    BY <2>2, <2>3, <2>4
  <2> QED
    BY <1>5, <2>5
<1> QED
    BY <1>1, <1>6, <1>7, <1>8 DEF OfStore

\* What does not deploy leaves the deployments and the commands that do.
LEMMA DeployAside ==
    ASSUME DeployInv, contracts' = contracts, records' = records, ~overlapped' => ~overlapped,
           \A q \in Commands : command'[q].kind = "deploy" => command'[q] = command[q],
           ~overlapped' => \A q \in Commands : Deploying(q) => command'[q] = command[q]
    PROVE  DeployInv'
<1>1. ASSUME NEW list, ListedIn(list, contracts, command)
      PROVE  ListedIn(list, contracts, command')
    BY <1>1 DEF ListedIn
<1>2. ListedIn(records', contracts', command')
    BY <1>1 DEF DeployInv
<1>3. ASSUME NEW p \in Commands, command'[p].kind = "deploy"
      PROVE  /\ ListedIn(command'[p].copy, contracts', command') /\ command'[p].id \in 1..Len(contracts')
             /\ \A q \in Commands : command'[q].kind = "deploy" /\ command'[p].id = command'[q].id => p = q
    BY <1>1, <1>3 DEF DeployInv, Deploying
<1>4. WrittenDown' = WrittenDown
    BY DEF WrittenDown
<1>5. ASSUME ~overlapped'
      PROVE  /\ \A p \in Commands : command'[p].kind = "deploy" =>
                    /\ command'[p].copy = records' /\ command'[p].id = Len(contracts')
                    /\ WrittenDown' = 1..(Len(contracts') - 1)
             /\ (\A p \in Commands : command'[p].kind # "deploy") => WrittenDown' = 1..Len(contracts')
    BY <1>4, <1>5 DEF DeployInv, Deploying
<1> QED
    BY <1>2, <1>3, <1>5 DEF DeployInv, Deploying

\* A list stays right if its contracts do and no command in progress comes to own one of them.
LEMMA ListStays ==
    ASSUME NEW list, NEW cs, NEW cmds, NEW cs2, NEW cmds2, ListedIn(list, cs, cmds),
           Len(cs) \in Nat, Len(cs2) \in Nat, Len(cs) <= Len(cs2),
           \A i \in 1..Len(list) : cs2[list[i].id] = cs[list[i].id],
           \A p \in Commands : cmds2[p].kind = "deploy" =>
               \/ cmds[p].kind = "deploy" /\ cmds2[p].id = cmds[p].id
               \/ cmds2[p].id \notin 1..Len(cs)
    PROVE  ListedIn(list, cs2, cmds2)
<1>1. ASSUME NEW i \in 1..Len(list)
      PROVE  /\ list[i].id \in 1..Len(cs2)
             /\ list[i].initialized => cs2[list[i].id]
             /\ \A j \in 1..Len(list) : list[i].id = list[j].id => i = j
             /\ \A p \in Commands : cmds2[p].kind = "deploy" => cmds2[p].id # list[i].id
  <2>1. list[i].id \in 1..Len(cs) /\ (list[i].initialized => cs[list[i].id])
        /\ \A j \in 1..Len(list) : list[i].id = list[j].id => i = j
    BY DEF ListedIn
  <2>2. \A p \in Commands : cmds[p].kind = "deploy" => cmds[p].id # list[i].id
    BY DEF ListedIn
  <2>3. list[i].id \in 1..Len(cs2)
    <3> DEFINE x == list[i].id
    <3> HIDE DEF x
    <3>1. x \in 1..Len(cs)
      BY <2>1 DEF x
    <3>2. x \in 1..Len(cs2)
      BY <3>1
    <3> QED
      BY <3>2 DEF x
  <2> QED
    BY <2>1, <2>2, <2>3
<1> QED
    BY <1>1 DEF ListedIn

\* A new contract is in no list yet.
LEMMA DeployBegins ==
    ASSUME CommandInv, DeployInv, NEW p \in Commands, DeployContract(p)
    PROVE  DeployInv'
<1> DEFINE n == Len(contracts)
           c == [kind |-> "deploy", copy |-> records, id |-> n + 1]
<1>1. contracts' = Append(contracts, FALSE) /\ Begin(p, c) /\ records' = records
    BY DEF DeployContract
<1>2. c.kind = "deploy" /\ c.copy = records /\ c.id = n + 1 /\ c.kind \in Kinds
    BY DEF Kinds
<1> HIDE DEF c
<1>3. /\ command[p].kind = Nothing /\ command'[p] = c
      /\ \A q \in Commands \ {p} : command'[q] = command[q]
      /\ ~overlapped' => ~overlapped /\ \A q \in Commands : command[q].kind = Nothing
    BY <1>1, <1>2, Begun
<1>4. contracts \in Seq(BOOLEAN) /\ n \in Nat
    BY DEF DeployInv
<1>5. /\ contracts' \in Seq(BOOLEAN) /\ Len(contracts') = n + 1
      /\ \A i \in 1..n : contracts'[i] = contracts[i]
    BY <1>1, <1>4, AppendProperties
<1>6. Nothing # "deploy"
    BY KindOfNone DEF Kinds
<1>7. ASSUME NEW list, ListedIn(list, contracts, command)
      PROVE  ListedIn(list, contracts', command')
  <2>1. \A i \in 1..Len(list) : contracts'[list[i].id] = contracts[list[i].id]
    BY <1>5, <1>7 DEF ListedIn
  <2>2. \A q \in Commands : command'[q].kind = "deploy" =>
               \/ command[q].kind = "deploy" /\ command'[q].id = command[q].id
               \/ command'[q].id \notin 1..Len(contracts)
    <3>1. n + 1 \notin 1..n
      BY <1>4
    <3> QED
      BY <1>2, <1>3, <3>1
  <2>3. Len(contracts) \in Nat /\ Len(contracts') \in Nat /\ Len(contracts) <= Len(contracts')
    BY <1>4, <1>5
  <2> QED
    BY <1>7, <2>1, <2>2, <2>3, ListStays
<1>8. ListedIn(records', contracts', command')
    BY <1>1, <1>7 DEF DeployInv
<1>9. ASSUME NEW q \in Commands, command'[q].kind = "deploy"
      PROVE  /\ ListedIn(command'[q].copy, contracts', command') /\ command'[q].id \in 1..Len(contracts')
             /\ \A r \in Commands : command'[r].kind = "deploy" /\ command'[q].id = command'[r].id => q = r
  <2>1. \A r \in Commands : r # p /\ command'[r].kind = "deploy" =>
           command'[r] = command[r] /\ command[r].id \in 1..n /\ ListedIn(command[r].copy, contracts, command)
    BY <1>3 DEF DeployInv, Deploying
  <2>2. n + 1 \in 1..Len(contracts') /\ n + 1 \notin 1..n /\ \A x \in 1..n : x \in 1..Len(contracts')
    <3> HIDE DEF n
    <3> QED
      BY <1>4, <1>5
  <2>3. CASE q = p
    <3>1. command'[q].copy = records /\ command'[q].id = n + 1
      BY <1>2, <1>3, <2>3
    <3> QED
      BY <1>1, <1>8, <2>1, <2>2, <2>3, <3>1
  <2>4. CASE q # p
    <3>1. command'[q] = command[q] /\ command[q].id \in 1..n
      BY <1>9, <2>1, <2>4
    <3>2. ListedIn(command'[q].copy, contracts', command')
      BY <1>7, <1>9, <2>1, <2>4
    <3>3. ASSUME NEW r \in Commands, command'[r].kind = "deploy", command'[q].id = command'[r].id
          PROVE  q = r
      <4>1. CASE r = p
        BY <1>2, <1>3, <2>2, <3>1, <3>3, <4>1
      <4>2. CASE r # p
        <5>1. command'[r] = command[r]
          BY <2>1, <3>3, <4>2
        <5> QED
          BY <1>9, <3>1, <3>3, <5>1 DEF DeployInv, Deploying
      <4> QED
        BY <4>1, <4>2
    <3> QED
      BY <2>2, <3>1, <3>2, <3>3
  <2> QED
    BY <2>3, <2>4
<1>10. ASSUME ~overlapped'
       PROVE  /\ \A q \in Commands : command'[q].kind = "deploy" =>
                    /\ command'[q].copy = records' /\ command'[q].id = Len(contracts')
                    /\ WrittenDown' = 1..(Len(contracts') - 1)
              /\ (\A q \in Commands : command'[q].kind # "deploy") => WrittenDown' = 1..Len(contracts')
  <2>1. WrittenDown' = WrittenDown /\ WrittenDown = 1..n
    BY <1>1, <1>3, <1>6, <1>10 DEF DeployInv, Deploying, WrittenDown
  <2>2. Len(contracts') - 1 = n
    BY <1>4, <1>5
  <2>3. \A q \in Commands : command'[q].kind = "deploy" => q = p
    BY <1>3, <1>6, <1>10
  <2> QED
    BY <1>1, <1>2, <1>3, <1>5, <2>1, <2>2, <2>3
<1> QED
    BY <1>5, <1>8, <1>9, <1>10 DEF DeployInv, Deploying

\* What initialization does to the network does not show in the lists of others.
LEMMA ContractWritten ==
    ASSUME DeployInv, NEW p \in Commands, Deploying(p), NEW took \in BOOLEAN,
           contracts' = [contracts EXCEPT ![command[p].id] = took],
           command'[p].kind = Nothing, \A q \in Commands \ {p} : command'[q] = command[q]
    PROVE  /\ contracts' \in Seq(BOOLEAN) /\ Len(contracts') = Len(contracts)
           /\ Len(contracts) \in Nat /\ command[p].id \in 1..Len(contracts)
           /\ contracts'[command[p].id] = took
           /\ \A list : ListedIn(list, contracts, command) => ListedIn(list, contracts', command')
           /\ \A q \in Commands : command'[q].kind = "deploy" =>
                 /\ q # p /\ command'[q].id # command[p].id
                 /\ ListedIn(command'[q].copy, contracts', command')
                 /\ command'[q].id \in 1..Len(contracts')
                 /\ \A r \in Commands : command'[r].kind = "deploy" /\ command'[q].id = command'[r].id => q = r
<1> DEFINE x == command[p].id
           n == Len(contracts)
<1>1. contracts \in Seq(BOOLEAN) /\ n \in Nat /\ x \in 1..n
    BY DEF DeployInv
<1>2. /\ contracts' \in Seq(BOOLEAN) /\ Len(contracts') = n /\ contracts'[x] = took
      /\ \A i \in 1..n : i # x => contracts'[i] = contracts[i]
  <2> HIDE DEF x
  <2>1. contracts' = [contracts EXCEPT ![x] = took]
    BY DEF x
  <2>2. contracts \in [1..n -> BOOLEAN]
    BY <1>1
  <2> HIDE DEF n
  <2>3. /\ contracts' \in [1..n -> BOOLEAN] /\ contracts'[x] = took
        /\ \A i \in 1..n : i # x => contracts'[i] = contracts[i]
    BY <1>1, <2>1, <2>2
  <2>4. contracts' \in Seq(BOOLEAN) /\ Len(contracts') = n
    BY <1>1, <2>3
  <2> QED
    BY <2>3, <2>4
<1>3. Nothing # "deploy"
    BY KindOfNone DEF Kinds
<1>4. ASSUME NEW list, ListedIn(list, contracts, command)
      PROVE  ListedIn(list, contracts', command')
  <2>1. \A i \in 1..Len(list) : list[i].id \in 1..n /\ list[i].id # x
    BY <1>4 DEF ListedIn, Deploying
  <2>2. \A i \in 1..Len(list) : contracts'[list[i].id] = contracts[list[i].id]
    <3> HIDE DEF x, n
    <3> QED
      BY <1>2, <2>1
  <2>3. \A q \in Commands : command'[q].kind = "deploy" =>
               \/ command[q].kind = "deploy" /\ command'[q].id = command[q].id
               \/ command'[q].id \notin 1..Len(contracts)
    BY <1>3
  <2>4. Len(contracts) \in Nat /\ Len(contracts') \in Nat /\ Len(contracts) <= Len(contracts')
    BY <1>1, <1>2
  <2> QED
    BY <1>4, <2>2, <2>3, <2>4, ListStays
<1>5. ASSUME NEW q \in Commands, command'[q].kind = "deploy"
      PROVE  /\ q # p /\ command'[q].id # x
             /\ ListedIn(command'[q].copy, contracts', command')
             /\ command'[q].id \in 1..Len(contracts')
             /\ \A r \in Commands : command'[r].kind = "deploy" /\ command'[q].id = command'[r].id => q = r
  <2>1. q # p /\ command'[q] = command[q]
    BY <1>3, <1>5
  <2>2. ListedIn(command[q].copy, contracts, command) /\ command[q].id \in 1..n /\ command[q].id # x
    BY <1>5, <2>1 DEF DeployInv, Deploying
  <2>3. \A r \in Commands : command'[r].kind = "deploy" => r # p /\ command'[r] = command[r]
    BY <1>3
  <2>4. \A r \in Commands : command[r].kind = "deploy" /\ command[q].id = command[r].id => q = r
    BY <1>5, <2>1 DEF DeployInv, Deploying
  <2> QED
    BY <1>2, <1>4, <2>1, <2>2, <2>3, <2>4
<1> QED
    BY <1>1, <1>2, <1>4, <1>5

\* The deployment is recorded after those read at the start.
LEMMA DeployEnds ==
    ASSUME CommandInv, DeployInv, NEW p \in Commands, NEW took \in BOOLEAN, NEW ok \in BOOLEAN,
           InitializeDeployed(p, took, ok)
    PROVE  DeployInv'
<1> DEFINE x == command[p].id
           n == Len(contracts)
           copy == command[p].copy
           m == Len(copy)
           entry == [id |-> x, initialized |-> ok]
<1>1. /\ Deploying(p) /\ (ok => took) /\ End(p) /\ overlapped' = overlapped
      /\ contracts' = [contracts EXCEPT ![command[p].id] = took]
      /\ records' = Append(copy, entry)
    BY DEF InitializeDeployed, DeploymentRecord, Deploying
<1>2. command'[p].kind = Nothing /\ \A q \in Commands \ {p} : command'[q] = command[q]
    BY <1>1, CommandEnds
<1>3. /\ contracts' \in Seq(BOOLEAN) /\ Len(contracts') = n /\ n \in Nat /\ x \in 1..n
      /\ contracts'[x] = took
      /\ \A list : ListedIn(list, contracts, command) => ListedIn(list, contracts', command')
      /\ \A q \in Commands : command'[q].kind = "deploy" =>
            /\ q # p /\ command'[q].id # x
            /\ ListedIn(command'[q].copy, contracts', command')
            /\ command'[q].id \in 1..Len(contracts')
            /\ \A r \in Commands : command'[r].kind = "deploy" /\ command'[q].id = command'[r].id => q = r
    BY <1>1, <1>2, ContractWritten
<1>4. ListedIn(copy, contracts, command)
    BY <1>1 DEF DeployInv
<1>5. ListedIn(copy, contracts', command') /\ copy \in Seq(Deployment) /\ m \in Nat
  <2> HIDE DEF copy
  <2>1. copy \in Seq(Deployment)
    BY <1>4 DEF ListedIn
  <2>2. Len(copy) \in Nat
    BY <2>1
  <2>3. \A list : ListedIn(list, contracts, command) => ListedIn(list, contracts', command')
    BY <1>3
  <2>4. ListedIn(copy, contracts', command')
    BY ONLY <1>4, <2>3
  <2> QED
    BY <2>1, <2>2, <2>4
<1>6. \A i \in 1..m : copy[i].id # x
    BY <1>1, <1>4 DEF ListedIn, Deploying
<1>7. entry \in Deployment /\ entry.id = x /\ entry.initialized = ok
    BY <1>3 DEF Deployment
<1> HIDE DEF entry, copy, x
<1>8. /\ records' \in Seq(Deployment) /\ Len(records') = m + 1 /\ records'[m + 1] = entry
      /\ \A i \in 1..m : records'[i] = copy[i]
    BY <1>1, <1>5, <1>7, AppendProperties
<1> HIDE DEF m, n
<1>9. ListedIn(records', contracts', command')
  <2>1. ASSUME NEW i \in 1..(m + 1)
        PROVE  /\ records'[i].id \in 1..Len(contracts')
               /\ records'[i].initialized => contracts'[records'[i].id]
               /\ \A j \in 1..(m + 1) : records'[i].id = records'[j].id => i = j
               /\ \A q \in Commands : command'[q].kind = "deploy" => command'[q].id # records'[i].id
    <3>0. \A j \in 1..(m + 1) : j # m + 1 => j \in 1..m
      BY <1>5
    <3>1. CASE i = m + 1
      <4>1. records'[i].id = x /\ records'[i].initialized = ok
        BY <1>7, <1>8, <3>1
      <4>2. ASSUME NEW j \in 1..(m + 1), records'[j].id = x PROVE j = m + 1
        BY <1>6, <1>8, <3>0, <4>2
      <4>3. x \in 1..Len(contracts')
        BY <1>3
      <4>4. ok => contracts'[x]
        BY <1>1, <1>3
      <4>5. \A q \in Commands : command'[q].kind = "deploy" => command'[q].id # x
        BY <1>3
      <4> QED
        BY <3>1, <4>1, <4>2, <4>3, <4>4, <4>5
    <3>2. CASE i # m + 1
      <4>1. i \in 1..m /\ records'[i] = copy[i]
        BY <1>8, <3>0, <3>2
      <4>2. /\ copy[i].id \in 1..Len(contracts')
            /\ copy[i].initialized => contracts'[copy[i].id]
            /\ \A j \in 1..m : copy[i].id = copy[j].id => i = j
            /\ \A q \in Commands : command'[q].kind = "deploy" => command'[q].id # copy[i].id
        BY <1>5, <4>1 DEF ListedIn, m
      <4>3. ASSUME NEW j \in 1..(m + 1), records'[i].id = records'[j].id PROVE i = j
        <5>1. CASE j = m + 1
          BY <1>6, <1>7, <1>8, <4>1, <4>3, <5>1
        <5>2. CASE j # m + 1
          BY <1>8, <3>0, <4>1, <4>2, <4>3, <5>2
        <5> QED
          BY <5>1, <5>2
      <4> QED
        BY <4>1, <4>2, <4>3
    <3> QED
      BY <3>1, <3>2
  <2> QED
    BY <1>8, <2>1 DEF ListedIn
<1>10. ASSUME ~overlapped'
       PROVE  /\ \A q \in Commands : command'[q].kind # "deploy"
              /\ WrittenDown' = 1..Len(contracts')
  <2>1. Nothing # "deploy" /\ command[p].kind # Nothing
    BY <1>1, KindOfNone DEF Kinds, Deploying
  <2>2. ASSUME NEW q \in Commands, command'[q].kind = "deploy" PROVE FALSE
    <3>1. q # p /\ command[q].kind = "deploy"
      BY <1>2, <2>1, <2>2
    <3> QED
      BY <1>1, <1>10, <2>1, <3>1 DEF CommandInv
  <2>3. copy = records /\ x = n /\ WrittenDown = 1..(n - 1)
    BY <1>1, <1>10 DEF DeployInv, copy, x, n
  <2>4. ToSet(records') = ToSet(copy) \cup {entry}
    BY <1>1, <1>5, <1>7, AppendedSet
  <2>5. WrittenDown' = {r.id : r \in ToSet(copy)} \cup {x}
    BY <1>7, <2>4 DEF WrittenDown
  <2>6. {r.id : r \in ToSet(copy)} = 1..(n - 1)
    BY <2>3 DEF WrittenDown
  <2>7. 1..(n - 1) \cup {n} = 1..n
    BY <1>3, <2>3
  <2> QED
    BY <1>3, <2>2, <2>3, <2>5, <2>6, <2>7
<1> QED
    BY <1>3, <1>9, <1>10 DEF DeployInv, Deploying

\* A torn file of deployments is an empty list.
LEMMA DeployTorn ==
    ASSUME CommandInv, DeployInv, NEW p \in Commands, Deploying(p), End(p), overlapped' = TRUE,
           NEW took \in BOOLEAN, contracts' = [contracts EXCEPT ![command[p].id] = took],
           records' = <<>>
    PROVE  DeployInv'
<1>1. command'[p].kind = Nothing /\ \A q \in Commands \ {p} : command'[q] = command[q]
    BY CommandEnds
<1>2. /\ contracts' \in Seq(BOOLEAN)
      /\ \A q \in Commands : command'[q].kind = "deploy" =>
            /\ ListedIn(command'[q].copy, contracts', command')
            /\ command'[q].id \in 1..Len(contracts')
            /\ \A r \in Commands : command'[r].kind = "deploy" /\ command'[q].id = command'[r].id => q = r
    BY <1>1, ContractWritten
<1>3. ListedIn(records', contracts', command')
  <2>1. <<>> \in Seq(Deployment) /\ 1..Len(<<>>) = {}
    BY EmptySeq
  <2> QED
    BY <2>1 DEF ListedIn
<1> QED
    BY <1>2, <1>3 DEF DeployInv, Deploying

\* A part of a list of profiles is one.
LEMMA KeptProfiles ==
    ASSUME NEW list, ProfileList(list), NEW S
    PROVE  ProfileList(Kept(list, S)) /\ ToSet(Kept(list, S)) = ToSet(list) \cap S
<1>1. list \in Seq(Profile) /\ \A i, j \in 1..Len(list) : i < j => <<list[i], list[j]>> \in Apart
    BY DEF ProfileList
<1>2. Kept(list, S) \in Seq(Profile) /\ ToSet(Kept(list, S)) = ToSet(list) \cap S
    BY <1>1, KeptIds
<1>3. \A i, j \in 1..Len(Kept(list, S)) : i < j => <<Kept(list, S)[i], Kept(list, S)[j]>> \in Apart
    BY ONLY <1>1, KeptOrdered
<1> QED
    BY <1>2, <1>3 DEF ProfileList

\* What is loaded is what validates.
LEMMA Loading ==
    ASSUME ProfileList(profiles)
    PROVE  /\ ProfileList(LoadedProfiles) /\ ToSet(LoadedProfiles) \subseteq Profile
           /\ ToSet(LoadedProfiles) = {r \in ToSet(profiles) : r.valid}
<1>1. ProfileList(LoadedProfiles)
    BY KeptProfiles DEF LoadedProfiles
<1>2. ToSet(LoadedProfiles) = ToSet(profiles) \cap {r \in ToSet(profiles) : r.valid}
    BY KeptProfiles DEF LoadedProfiles
<1>3. ToSet(LoadedProfiles) \subseteq Profile
    BY <1>1, ElementOfSeq DEF ProfileList, ToSet
<1> QED
    BY <1>1, <1>2, <1>3

\* The entries of a list of profiles are profiles, and two of one name are one.
LEMMA ProfilesApart ==
    ASSUME NEW list, ProfileList(list)
    PROVE  /\ Len(list) \in Nat /\ DOMAIN list = 1..Len(list)
           /\ \A i \in 1..Len(list) : list[i] \in Profile
           /\ \A i, j \in 1..Len(list) : i # j => /\ list[i].name # list[j].name
                                                  /\ ~(list[i].default /\ list[j].default)
<1>1. list \in Seq(Profile) /\ Len(list) \in Nat /\ DOMAIN list = 1..Len(list)
    BY DEF ProfileList
<1>2. \A i \in 1..Len(list) : list[i] \in Profile
    BY <1>1, ElementOfSeq
<1>3. ASSUME NEW i \in 1..Len(list), NEW j \in 1..Len(list), i < j
      PROVE  list[i].name # list[j].name /\ ~(list[i].default /\ list[j].default)
  <2>1. <<list[i], list[j]>> \in Apart
    BY <1>3 DEF ProfileList
  <2> QED
    BY <2>1 DEF Apart
<1>4. \A i, j \in 1..Len(list) : i # j => i < j \/ j < i
    BY <1>1
<1> QED
    BY <1>1, <1>2, <1>3, <1>4

\* What is not about the profiles leaves them and the commands on them.
LEMMA ProfileAside ==
    ASSUME ProfileInv, profiles' = profiles, asked' = asked, ~overlapped' => ~overlapped,
           \A q \in Commands : command'[q].kind = "network" => command'[q] = command[q]
    PROVE  ProfileInv'
<1>1. ASSUME NEW q \in Commands, command'[q].kind = "network"
      PROVE  /\ ProfileList(command'[q].save)
             /\ ~overlapped' => Marked(command'[q].save, AskedAfter(command'[q], asked'))
  <2>1. command'[q] = command[q] /\ Networking(q)
    BY <1>1 DEF Networking
  <2>2. AskedAfter(command'[q], asked') = AskedAfter(command[q], asked)
    BY <2>1 DEF AskedAfter
  <2> QED
    BY <2>1, <2>2 DEF ProfileInv
<1> QED
    BY <1>1 DEF ProfileInv, Networking

\* A command on the profiles begins with a list that is marked right if the file is.
LEMMA ProfileBegins ==
    ASSUME CommandInv, ProfileInv, NEW p \in Commands, NEW c, c.kind = "network", Begin(p, c),
           profiles' = profiles, asked' = asked, ProfileList(c.save),
           Marked(profiles, asked) => Marked(c.save, AskedAfter(c, asked))
    PROVE  ProfileInv'
<1>1. /\ command'[p] = c
      /\ \A q \in Commands \ {p} : command'[q] = command[q]
      /\ ~overlapped' => ~overlapped /\ \A q \in Commands : command[q].kind = Nothing
    BY Begun DEF Kinds
<1>2. ASSUME NEW q \in Commands, command'[q].kind = "network"
      PROVE  ProfileList(command'[q].save)
  <2>1. CASE q = p
    BY <1>1, <2>1
  <2>2. CASE q # p
    BY <1>1, <1>2, <2>2 DEF ProfileInv, Networking
  <2> QED
    BY <2>1, <2>2
<1>3. ASSUME ~overlapped', NEW q \in Commands, command'[q].kind = "network"
      PROVE  Marked(command'[q].save, AskedAfter(command'[q], asked'))
  <2>1. q = p
    BY <1>1, <1>3, KindOfNone DEF Kinds
  <2>2. AskedAfter(command'[p], asked') = AskedAfter(c, asked)
    BY <1>1 DEF AskedAfter
  <2>3. Marked(profiles, asked)
    BY <1>1, <1>3 DEF ProfileInv
  <2> QED
    BY <1>1, <2>1, <2>2, <2>3
<1> QED
    BY <1>1, <1>2, <1>3 DEF ProfileInv, Networking

\* A profile is added at the end, under a name that is new and without the mark.
LEMMA NetworkAdded ==
    ASSUME CommandInv, ProfileInv, NEW p \in Commands, NEW name \in ProfileNames, NEW valid \in BOOLEAN,
           NetworkAdd(p, name, valid)
    PROVE  ProfileInv'
<1> DEFINE old == LoadedProfiles
           r == [name |-> name, valid |-> valid, default |-> FALSE]
           c == [kind |-> "network", save |-> Append(old, r), asked |-> Nothing]
           n == Len(old)
<1>1. /\ name \notin NamesOf(old) /\ Begin(p, c) /\ profiles' = profiles /\ asked' = asked
    BY DEF NetworkAdd
<1>2. /\ ProfileList(old) /\ ToSet(old) \subseteq Profile
      /\ ToSet(old) = {e \in ToSet(profiles) : e.valid}
    BY Loading DEF ProfileInv
<1>3. r \in Profile /\ r.name = name /\ r.default = FALSE
    BY DEF Profile
<1>4. c.kind = "network" /\ c.save = Append(old, r) /\ c.asked = Nothing
    OBVIOUS
<1> HIDE DEF c, r, old
<1>5. old \in Seq(Profile)
    BY <1>2 DEF ProfileList
<1>6. /\ c.save \in Seq(Profile) /\ Len(c.save) = n + 1 /\ c.save[n + 1] = r /\ n \in Nat
      /\ \A i \in 1..n : c.save[i] = old[i]
    BY <1>3, <1>4, <1>5, AppendProperties
<1>7. ToSet(c.save) = ToSet(old) \cup {r}
    BY <1>3, <1>4, <1>5, AppendedSet
<1>8. \A i \in 1..n : old[i] \in Profile /\ old[i].name # name
    BY <1>1, <1>2, ProfilesApart DEF NamesOf, ToSet
<1> HIDE DEF n
<1>9. ProfileList(c.save)
  <2>1. ASSUME NEW i \in 1..(n + 1), NEW j \in 1..(n + 1), i < j
        PROVE  <<c.save[i], c.save[j]>> \in Apart
    <3>1. i \in 1..n /\ c.save[i] = old[i]
      BY <1>6, <2>1
    <3>2. CASE j = n + 1
      <4>1. c.save[j] = r /\ old[i] \in Profile /\ old[i].name # r.name
        BY <1>3, <1>6, <1>8, <3>1, <3>2
      <4> QED
        BY <1>3, <3>1, <4>1 DEF Apart
    <3>3. CASE j # n + 1
      <4>1. j \in 1..n /\ c.save[j] = old[j]
        BY <1>6, <3>3
      <4>2. Len(old) = n
        BY DEF n
      <4> QED
        BY <1>2, <2>1, <3>1, <4>1, <4>2 DEF ProfileList
    <3> QED
      BY <3>2, <3>3
  <2> QED
    BY <1>6, <2>1 DEF ProfileList
<1>10. ASSUME Marked(profiles, asked)
       PROVE  Marked(c.save, AskedAfter(c, asked))
  <2>1. AskedAfter(c, asked) = IF asked \in NamesOf(c.save) THEN asked ELSE Nothing
    BY <1>4 DEF AskedAfter
  <2>2. \A e \in ToSet(c.save) : e.default => e \in ToSet(profiles) /\ e.name = asked
    BY <1>2, <1>3, <1>7, <1>10 DEF Marked
  <2>3. \A e \in ToSet(c.save) : e.default => e.name = AskedAfter(c, asked)
    BY <2>1, <2>2 DEF NamesOf
  <2>4. ASSUME asked # Nothing
        PROVE  \E e \in ToSet(c.save) : e.valid /\ e.default /\ e.name = asked
    BY <1>2, <1>7, <1>10, <2>4 DEF Marked
  <2> QED
    BY <2>1, <2>3, <2>4 DEF Marked
<1> QED
    BY <1>1, <1>4, <1>9, <1>10, ProfileBegins

\* Removing a profile takes its mark away with it.
LEMMA NetworkRemoved ==
    ASSUME CommandInv, ProfileInv, NEW p \in Commands, NEW name \in ProfileNames, NetworkRemove(p, name)
    PROVE  ProfileInv'
<1> DEFINE old == LoadedProfiles
           rest == {r \in ToSet(old) : r.name # name}
           c == [kind |-> "network", asked |-> Nothing, save |-> Kept(old, rest)]
<1>1. Begin(p, c) /\ profiles' = profiles /\ asked' = asked
    BY DEF NetworkRemove
<1>2. /\ ProfileList(old) /\ ToSet(old) \subseteq Profile
      /\ ToSet(old) = {e \in ToSet(profiles) : e.valid}
    BY Loading DEF ProfileInv
<1>3. c.kind = "network" /\ c.save = Kept(old, rest) /\ c.asked = Nothing
    OBVIOUS
<1>4. ProfileList(Kept(old, rest)) /\ ToSet(Kept(old, rest)) = rest
    BY <1>2, KeptProfiles
<1> HIDE DEF c, old
<1>5. ProfileList(c.save) /\ ToSet(c.save) = {r \in ToSet(old) : r.name # name}
    BY <1>3, <1>4
<1> HIDE DEF rest
<1>6. ASSUME Marked(profiles, asked)
      PROVE  Marked(c.save, AskedAfter(c, asked))
  <2>1. AskedAfter(c, asked) = IF asked \in NamesOf(c.save) THEN asked ELSE Nothing
    BY <1>3 DEF AskedAfter
  <2>2. \A e \in ToSet(c.save) : e.default => e \in ToSet(profiles) /\ e.name = asked
    BY <1>2, <1>5, <1>6 DEF Marked
  <2>3. \A e \in ToSet(c.save) : e.default => e.name = AskedAfter(c, asked)
    BY <2>1, <2>2 DEF NamesOf
  <2>4. ASSUME asked # Nothing, asked \in NamesOf(c.save)
        PROVE  \E e \in ToSet(c.save) : e.valid /\ e.default /\ e.name = asked
    <3>1. asked # name
      BY <1>5, <2>4 DEF NamesOf
    <3> QED
      BY <1>2, <1>5, <1>6, <2>4, <3>1 DEF Marked
  <2> QED
    BY <2>1, <2>3, <2>4 DEF Marked
<1> QED
    BY <1>1, <1>3, <1>5, <1>6, ProfileBegins

\* Choosing a default marks the profile of that name and no other.
LEMMA NetworkChosen ==
    ASSUME CommandInv, ProfileInv, NEW p \in Commands, NEW name \in ProfileNames, NetworkSetDefault(p, name)
    PROVE  ProfileInv'
<1> DEFINE old == LoadedProfiles
           n == Len(old)
           list == [i \in DOMAIN old |-> [old[i] EXCEPT !.default = old[i].name = name]]
           c == [kind |-> "network", asked |-> name, save |-> list]
<1>1. Begin(p, c) /\ profiles' = profiles /\ asked' = asked
    BY DEF NetworkSetDefault
<1>2. /\ ProfileList(old) /\ ToSet(old) \subseteq Profile
      /\ ToSet(old) = {e \in ToSet(profiles) : e.valid}
    BY Loading DEF ProfileInv
<1>3. c.kind = "network" /\ c.save = list /\ c.asked = name
    OBVIOUS
<1>4. /\ n \in Nat /\ DOMAIN old = 1..n /\ \A i \in 1..n : old[i] \in Profile
      /\ \A i, j \in 1..n : i # j => old[i].name # old[j].name
    BY <1>2, ProfilesApart
<1> HIDE DEF c, old, n
<1>5. ASSUME NEW i \in 1..n
      PROVE  /\ list[i] \in Profile /\ list[i].name = old[i].name /\ list[i].valid = old[i].valid
             /\ list[i].default = (old[i].name = name)
    BY <1>4 DEF Profile
<1>6. list \in Seq(Profile) /\ Len(list) = n /\ DOMAIN list = 1..n
  <2>1. list = [i \in 1..n |-> list[i]]
    BY <1>4
  <2> HIDE DEF list
  <2>2. list \in [1..n -> Profile]
    BY <1>5, <2>1
  <2> QED
    BY <1>4, <2>2, LenProperties
<1> HIDE DEF list
<1>7. ProfileList(list)
  <2>1. ASSUME NEW i \in 1..n, NEW j \in 1..n, i < j
        PROVE  <<list[i], list[j]>> \in Apart
    <3>1. list[i].name # list[j].name
      BY <1>4, <1>5, <2>1
    <3>2. ~(list[i].default /\ list[j].default)
      <4>1. old[i].name # old[j].name
        BY <1>4, <2>1
      <4>2. list[i].default = (old[i].name = name) /\ list[j].default = (old[j].name = name)
        BY <1>5
      <4> QED
        BY ONLY <4>1, <4>2
    <3> QED
      BY <1>5, <3>1, <3>2 DEF Apart
  <2> QED
    BY <1>6, <2>1 DEF ProfileList
<1>8. Marked(list, AskedAfter(c, asked))
  <2>0. name # Nothing
    BY OperatorConstants DEF OperatorConstants
  <2>1. AskedAfter(c, asked) = IF name \in NamesOf(list) THEN name ELSE Nothing
    BY <1>3, <2>0 DEF AskedAfter
  <2>2. ASSUME NEW e \in ToSet(list)
        PROVE  \E i \in 1..n : e = list[i]
    BY <1>6, <2>2 DEF ToSet
  <2>3. ASSUME NEW e \in ToSet(list), e.default
        PROVE  e.name = AskedAfter(c, asked)
    <3>1. PICK i \in 1..n : e = list[i]
      BY <2>2
    <3>2. e.name = name
      BY <1>5, <2>3, <3>1
    <3>3. name \in NamesOf(list)
      BY <3>2 DEF NamesOf
    <3> QED
      BY <2>1, <3>2, <3>3
  <2>4. ASSUME name \in NamesOf(list)
        PROVE  \E e \in ToSet(list) : e.valid /\ e.default /\ e.name = name
    <3>1. PICK i \in 1..n : list[i].name = name
      BY <2>2, <2>4 DEF NamesOf
    <3>2. old[i].name = name /\ list[i].default
      BY <1>5, <3>1
    <3>3. old[i].valid /\ list[i] \in ToSet(list)
      BY <1>2, <1>4, <1>6 DEF ToSet
    <3> QED
      BY <1>5, <3>1, <3>2, <3>3
  <2> QED
    BY <2>1, <2>3, <2>4 DEF Marked
<1> QED
    BY <1>1, <1>3, <1>7, <1>8, ProfileBegins

\* Alone, a command saves the list it began with the file as it was.
LEMMA ProfilesSaved ==
    ASSUME CommandInv, ProfileInv, NEW p \in Commands, SaveProfiles(p)
    PROVE  ProfileInv'
<1>1. /\ Networking(p) /\ End(p) /\ overlapped' = overlapped
      /\ profiles' = command[p].save /\ asked' = AskedAfter(command[p], asked)
    BY DEF SaveProfiles, AskedAfter, Networking
<1>2. command'[p].kind = Nothing /\ \A q \in Commands \ {p} : command'[q] = command[q]
    BY <1>1, CommandEnds
<1>3. Nothing # "network"
    BY KindOfNone DEF Kinds
<1>4. ASSUME NEW q \in Commands, command'[q].kind = "network"
      PROVE  q # p /\ command'[q] = command[q] /\ Networking(q)
    BY <1>2, <1>3, <1>4 DEF Networking
<1>5. ~overlapped => \A q \in Commands : command'[q].kind # "network"
  <2> SUFFICES ASSUME ~overlapped, NEW q \in Commands, command'[q].kind = "network" PROVE FALSE
    OBVIOUS
  <2>1. q # p /\ Networking(q)
    BY <1>4
  <2> QED
    BY <1>1, <1>3, <2>1 DEF CommandInv, Networking
<1>6. ProfileList(profiles') /\ (~overlapped => Marked(profiles', asked'))
    BY <1>1 DEF ProfileInv
<1>7. \A q \in Commands : command'[q].kind = "network" => ProfileList(command'[q].save)
    BY <1>4 DEF ProfileInv
<1> QED
    BY <1>1, <1>5, <1>6, <1>7 DEF ProfileInv, Networking

\* A torn file of profiles is an empty list.
LEMMA ProfilesTorn ==
    ASSUME CommandInv, ProfileInv, NEW p \in Commands, End(p), overlapped' = TRUE,
           profiles' = <<>> \/ profiles' = profiles
    PROVE  ProfileInv'
<1>1. command'[p].kind = Nothing /\ \A q \in Commands \ {p} : command'[q] = command[q]
    BY CommandEnds
<1>2. Nothing # "network"
    BY KindOfNone DEF Kinds
<1>3. ProfileList(<<>>)
  <2>1. <<>> \in Seq(Profile) /\ 1..Len(<<>>) = {}
    BY EmptySeq
  <2> QED
    BY <2>1 DEF ProfileList
<1>4. ProfileList(profiles')
    BY <1>3 DEF ProfileInv
<1>5. \A q \in Commands : command'[q].kind = "network" => ProfileList(command'[q].save)
    BY <1>1, <1>2 DEF ProfileInv, Networking
<1> QED
    BY <1>4, <1>5 DEF ProfileInv, Networking

\* The configuration and the command line do not touch each other's state.
LEMMA ConfigStays == ConfigInv /\ UNCHANGED configVars => ConfigInv'
    BY DEF ConfigInv, configVars, HasChanged, Idle

\* The same for the command line.
LEMMA ToolsStay ==
    CommandInv /\ CredInv /\ DeployInv /\ ProfileInv /\ UNCHANGED cliVars
        => CommandInv' /\ CredInv' /\ DeployInv' /\ ProfileInv'
<1> SUFFICES ASSUME CommandInv, CredInv, DeployInv, ProfileInv, UNCHANGED cliVars
             PROVE  CommandInv' /\ CredInv' /\ DeployInv' /\ ProfileInv'
    OBVIOUS
<1>1. /\ keystore' = keystore /\ serial' = serial /\ contracts' = contracts /\ records' = records
      /\ profiles' = profiles /\ asked' = asked /\ command' = command /\ overlapped' = overlapped
    BY DEF cliVars
<1>2. CommandInv'
    BY <1>1 DEF CommandInv
<1>3. CredInv'
    BY <1>1, CredAside
<1>4. DeployInv'
    BY <1>1, DeployAside
<1>5. ProfileInv'
    BY <1>1, ProfileAside
<1> QED
    BY <1>2, <1>3, <1>4, <1>5

\* A command that begins leaves what it is not about.
LEMMA BeginsAside ==
    ASSUME CommandInv, NEW p \in Commands, NEW c, c.kind \in Kinds, Begin(p, c)
    PROVE  /\ CredInv /\ keystore' = keystore /\ serial' = serial /\ c.kind \notin OfStore => CredInv'
           /\ DeployInv /\ contracts' = contracts /\ records' = records /\ c.kind # "deploy" => DeployInv'
           /\ ProfileInv /\ profiles' = profiles /\ asked' = asked /\ c.kind # "network" => ProfileInv'
<1>1. /\ command[p].kind = Nothing /\ command'[p] = c
      /\ \A q \in Commands \ {p} : command'[q] = command[q]
      /\ ~overlapped' => ~overlapped /\ \A q \in Commands : command[q].kind = Nothing
    BY Begun
<1>2. Nothing # "deploy"
    BY KindOfNone DEF Kinds
<1>3. ASSUME CredInv, keystore' = keystore, serial' = serial, c.kind \notin OfStore
      PROVE  CredInv'
  <2>1. \A q \in Commands : command'[q].kind \in OfStore => command'[q] = command[q]
    BY <1>1, <1>3
  <2> QED
    BY <1>1, <1>3, <2>1, CredAside
<1>4. ASSUME DeployInv, contracts' = contracts, records' = records, c.kind # "deploy"
      PROVE  DeployInv'
  <2>1. \A q \in Commands : command'[q].kind = "deploy" => command'[q] = command[q]
    BY <1>1, <1>4
  <2>2. ~overlapped' => \A q \in Commands : Deploying(q) => command'[q] = command[q]
    BY <1>1, <1>2 DEF Deploying
  <2> QED
    BY <1>1, <1>4, <2>1, <2>2, DeployAside
<1>5. ASSUME ProfileInv, profiles' = profiles, asked' = asked, c.kind # "network"
      PROVE  ProfileInv'
  <2>1. \A q \in Commands : command'[q].kind = "network" => command'[q] = command[q]
    BY <1>1, <1>5
  <2> QED
    BY <1>1, <1>5, <2>1, ProfileAside
<1> QED
    BY <1>3, <1>4, <1>5

\* So does a command that ends, or dies.
LEMMA EndsAside ==
    ASSUME CommandInv, NEW p \in Commands, End(p), overlapped' \in {overlapped, TRUE}
    PROVE  /\ CredInv /\ keystore' = keystore /\ serial' = serial => CredInv'
           /\ DeployInv /\ contracts' = contracts /\ records' = records
                /\ (command[p].kind # "deploy" \/ overlapped' = TRUE) => DeployInv'
           /\ ProfileInv /\ profiles' = profiles /\ asked' = asked => ProfileInv'
<1>1. /\ command'[p].kind = Nothing
      /\ \A q \in Commands \ {p} : command'[q] = command[q]
      /\ ~overlapped' => ~overlapped
    BY CommandEnds
<1>2. Nothing \notin Kinds
    BY KindOfNone
<1>3. \A q \in Commands : command'[q].kind \in Kinds => command'[q] = command[q]
    BY <1>1, <1>2
<1>4. ASSUME CredInv, keystore' = keystore, serial' = serial
      PROVE  CredInv'
  <2>1. \A q \in Commands : command'[q].kind \in OfStore => command'[q] = command[q]
    BY <1>3 DEF Kinds, OfStore
  <2> QED
    BY <1>1, <1>4, <2>1, CredAside
<1>5. ASSUME DeployInv, contracts' = contracts, records' = records,
             command[p].kind # "deploy" \/ overlapped' = TRUE
      PROVE  DeployInv'
  <2>1. \A q \in Commands : command'[q].kind = "deploy" => command'[q] = command[q]
    BY <1>3 DEF Kinds
  <2>2. ~overlapped' => \A q \in Commands : Deploying(q) => command'[q] = command[q]
    BY <1>1, <1>5 DEF Deploying
  <2> QED
    BY <1>1, <1>5, <2>1, <2>2, DeployAside
<1>6. ASSUME ProfileInv, profiles' = profiles, asked' = asked
      PROVE  ProfileInv'
  <2>1. \A q \in Commands : command'[q].kind = "network" => command'[q] = command[q]
    BY <1>3 DEF Kinds
  <2> QED
    BY <1>1, <1>6, <2>1, ProfileAside
<1> QED
    BY <1>4, <1>5, <1>6

ToolsInv == CommandInv /\ CredInv /\ DeployInv /\ ProfileInv

\* The commands on credentials keep the invariant.
LEMMA CredentialsKeep == ToolsInv /\ CredentialsNext => ToolsInv'
<1> SUFFICES ASSUME ToolsInv, NEW p \in Commands,
                    \/ \E name \in CredNames :
                          \/ \E value \in Secrets, password \in Passwords :
                                AddCredential(p, name, value, password)
                          \/ RemoveCredential(p, name)
                    \/ RotateCredentials(p) \/ SaveCredentials(p)
             PROVE  ToolsInv'
    BY DEF CredentialsNext
<1>1. CommandInv /\ CredInv /\ DeployInv /\ ProfileInv
    BY DEF ToolsInv
<1>2. ASSUME NEW c, c.kind \in OfStore, c.copy = keystore, Begin(p, c),
             UNCHANGED <<keystore, serial, contracts, records, profiles, asked>>
      PROVE  ToolsInv'
  <2>1. c.kind \in Kinds /\ c.kind # "deploy" /\ c.kind # "network"
    BY <1>2 DEF Kinds, OfStore
  <2>2. CommandInv'
    BY <1>1, <1>2, <2>1, Begun
  <2>3. CredInv'
    BY <1>1, <1>2, <2>1, CredBegins
  <2>4. DeployInv' /\ ProfileInv'
    BY <1>1, <1>2, <2>1, BeginsAside
  <2> QED
    BY <2>2, <2>3, <2>4 DEF ToolsInv
<1>3. ASSUME NEW name \in CredNames, NEW value \in Secrets, NEW password \in Passwords,
             AddCredential(p, name, value, password)
      PROVE  ToolsInv'
  <2> DEFINE c == [kind |-> "add", copy |-> keystore, name |-> name,
                   entry |-> [value |-> value, password |-> password]]
  <2>1. Begin(p, c) /\ UNCHANGED <<keystore, serial, contracts, records, profiles, asked>>
    BY <1>3 DEF AddCredential
  <2>2. c.kind \in OfStore /\ c.copy = keystore
    BY DEF OfStore
  <2> HIDE DEF c
  <2> QED
    BY <1>2, <2>1, <2>2
<1>4. ASSUME NEW name \in CredNames, RemoveCredential(p, name)
      PROVE  ToolsInv'
  <2> DEFINE c == [kind |-> "remove", copy |-> keystore, name |-> name]
  <2>1. Begin(p, c) /\ UNCHANGED <<keystore, serial, contracts, records, profiles, asked>>
    BY <1>4 DEF RemoveCredential
  <2>2. c.kind \in OfStore /\ c.copy = keystore
    BY DEF OfStore
  <2> HIDE DEF c
  <2> QED
    BY <1>2, <2>1, <2>2
<1>5. ASSUME RotateCredentials(p)
      PROVE  ToolsInv'
  <2> DEFINE c == [kind |-> "rotate", copy |-> keystore]
  <2>1. Begin(p, c) /\ UNCHANGED <<keystore, serial, contracts, records, profiles, asked>>
    BY <1>5 DEF RotateCredentials
  <2>2. c.kind \in OfStore /\ c.copy = keystore
    BY DEF OfStore
  <2> HIDE DEF c
  <2> QED
    BY <1>2, <2>1, <2>2
<1>6. ASSUME SaveCredentials(p)
      PROVE  ToolsInv'
  <2>1. /\ command[p].kind \in OfStore /\ End(p) /\ overlapped' = overlapped
        /\ UNCHANGED <<contracts, records, profiles, asked>>
    BY <1>6 DEF SaveCredentials, OfStore
  <2>2. command[p].kind # "deploy"
    BY <2>1 DEF OfStore
  <2>3. CommandInv'
    BY <1>1, <2>1, CommandEnds
  <2>4. CredInv'
    BY <1>1, <1>6, CredSaved
  <2>5. DeployInv' /\ ProfileInv'
    BY <1>1, <2>1, <2>2, EndsAside
  <2> QED
    BY <2>3, <2>4, <2>5 DEF ToolsInv
<1> QED
    BY <1>3, <1>4, <1>5, <1>6

\* So do the commands that deploy.
LEMMA DeploysKeep == ToolsInv /\ DeployNext => ToolsInv'
<1> SUFFICES ASSUME ToolsInv, NEW p \in Commands,
                    DeployContract(p) \/ \E took, ok \in BOOLEAN : InitializeDeployed(p, took, ok)
             PROVE  ToolsInv'
    BY DEF DeployNext
<1>1. CommandInv /\ CredInv /\ DeployInv /\ ProfileInv
    BY DEF ToolsInv
<1>2. ASSUME DeployContract(p)
      PROVE  ToolsInv'
  <2> DEFINE c == [kind |-> "deploy", copy |-> records, id |-> Len(contracts) + 1]
  <2>1. Begin(p, c) /\ UNCHANGED <<keystore, serial, records, profiles, asked>>
    BY <1>2 DEF DeployContract
  <2>2. c.kind = "deploy"
    OBVIOUS
  <2> HIDE DEF c
  <2>3. c.kind \in Kinds /\ c.kind \notin OfStore /\ c.kind # "network"
    BY <2>2 DEF Kinds, OfStore
  <2>4. CommandInv'
    BY <1>1, <2>1, <2>3, Begun
  <2>5. DeployInv'
    BY <1>1, <1>2, DeployBegins
  <2>6. CredInv' /\ ProfileInv'
    BY <1>1, <2>1, <2>3, BeginsAside
  <2> QED
    BY <2>4, <2>5, <2>6 DEF ToolsInv
<1>3. ASSUME NEW took \in BOOLEAN, NEW ok \in BOOLEAN, InitializeDeployed(p, took, ok)
      PROVE  ToolsInv'
  <2>1. End(p) /\ overlapped' = overlapped /\ UNCHANGED <<keystore, serial, profiles, asked>>
    BY <1>3 DEF InitializeDeployed
  <2>2. CommandInv'
    BY <1>1, <2>1, CommandEnds
  <2>3. DeployInv'
    BY <1>1, <1>3, DeployEnds
  <2>4. CredInv' /\ ProfileInv'
    BY <1>1, <2>1, EndsAside
  <2> QED
    BY <2>2, <2>3, <2>4 DEF ToolsInv
<1> QED
    BY <1>2, <1>3

\* And the commands on the network profiles.
LEMMA NetworksKeep == ToolsInv /\ NetworkNext => ToolsInv'
<1> SUFFICES ASSUME ToolsInv, NEW p \in Commands,
                    \/ \E name \in ProfileNames :
                          \/ \E valid \in BOOLEAN : NetworkAdd(p, name, valid)
                          \/ NetworkRemove(p, name) \/ NetworkSetDefault(p, name)
                    \/ SaveProfiles(p)
             PROVE  ToolsInv'
    BY DEF NetworkNext
<1>1. CommandInv /\ CredInv /\ DeployInv /\ ProfileInv
    BY DEF ToolsInv
<1>2. ASSUME NEW c, c.kind = "network", Begin(p, c), UNCHANGED <<keystore, serial, contracts, records>>
      PROVE  CommandInv' /\ CredInv' /\ DeployInv'
  <2>1. c.kind \in Kinds /\ c.kind # "deploy" /\ c.kind \notin OfStore
    BY <1>2 DEF Kinds, OfStore
  <2> QED
    BY <1>1, <1>2, <2>1, Begun, BeginsAside
<1>3. ASSUME NEW name \in ProfileNames, NEW valid \in BOOLEAN, NetworkAdd(p, name, valid)
      PROVE  ToolsInv'
  <2> DEFINE c == [kind |-> "network",
                   save |-> Append(LoadedProfiles, [name |-> name, valid |-> valid, default |-> FALSE]),
                   asked |-> Nothing]
  <2>1. Begin(p, c) /\ UNCHANGED <<keystore, serial, contracts, records>>
    BY <1>3 DEF NetworkAdd
  <2>2. c.kind = "network"
    OBVIOUS
  <2> HIDE DEF c
  <2> QED
    BY <1>1, <1>2, <1>3, <2>1, <2>2, NetworkAdded DEF ToolsInv
<1>4. ASSUME NEW name \in ProfileNames, NetworkRemove(p, name)
      PROVE  ToolsInv'
  <2> DEFINE c == [kind |-> "network", asked |-> Nothing,
                   save |-> Kept(LoadedProfiles, {r \in ToSet(LoadedProfiles) : r.name # name})]
  <2>1. Begin(p, c) /\ UNCHANGED <<keystore, serial, contracts, records>>
    BY <1>4 DEF NetworkRemove
  <2>2. c.kind = "network"
    OBVIOUS
  <2> HIDE DEF c
  <2> QED
    BY <1>1, <1>2, <1>4, <2>1, <2>2, NetworkRemoved DEF ToolsInv
<1>5. ASSUME NEW name \in ProfileNames, NetworkSetDefault(p, name)
      PROVE  ToolsInv'
  <2> DEFINE c == [kind |-> "network", asked |-> name,
                   save |-> [i \in DOMAIN LoadedProfiles |->
                               [LoadedProfiles[i] EXCEPT !.default = LoadedProfiles[i].name = name]]]
  <2>1. Begin(p, c) /\ UNCHANGED <<keystore, serial, contracts, records>>
    BY <1>5 DEF NetworkSetDefault
  <2>2. c.kind = "network"
    OBVIOUS
  <2> HIDE DEF c
  <2> QED
    BY <1>1, <1>2, <1>5, <2>1, <2>2, NetworkChosen DEF ToolsInv
<1>6. ASSUME SaveProfiles(p)
      PROVE  ToolsInv'
  <2>1. /\ command[p].kind = "network" /\ End(p) /\ overlapped' = overlapped
        /\ UNCHANGED <<keystore, serial, contracts, records>>
    BY <1>6 DEF SaveProfiles
  <2>2. CommandInv'
    BY <1>1, <2>1, CommandEnds
  <2>3. CredInv' /\ DeployInv'
    BY <1>1, <2>1, EndsAside
  <2> QED
    BY <1>1, <1>6, <2>2, <2>3, ProfilesSaved DEF ToolsInv
<1> QED
    BY <1>3, <1>4, <1>5, <1>6

\* A command that dies leaves a whole file or an empty one.
LEMMA FaultsKeep == ToolsInv /\ CommandFault => ToolsInv'
<1> SUFFICES ASSUME ToolsInv, NEW p \in Commands, CommandDies(p) \/ WriteTorn(p)
             PROVE  ToolsInv'
    BY DEF CommandFault
<1>1. CommandInv /\ CredInv /\ DeployInv /\ ProfileInv
    BY DEF ToolsInv
<1>2. End(p) /\ overlapped' = TRUE /\ asked' = asked
    BY DEF CommandDies, WriteTorn
<1>3. CommandInv' /\ CredInv'
    BY <1>1, <1>2, CommandEnds DEF CredInv
<1>4. DeployInv'
  <2>1. CASE contracts' = contracts /\ records' = records
    BY <1>1, <1>2, <2>1, EndsAside
  <2>2. CASE ~(contracts' = contracts /\ records' = records)
    <3>1. /\ command[p].kind = "deploy" /\ records' = <<>>
          /\ \E took \in BOOLEAN : contracts' = [contracts EXCEPT ![command[p].id] = took]
      BY <2>2 DEF CommandDies, WriteTorn
    <3> QED
      BY <1>1, <1>2, <3>1, DeployTorn DEF Deploying
  <2> QED
    BY <2>1, <2>2
<1>5. profiles' = <<>> \/ profiles' = profiles
    BY DEF CommandDies, WriteTorn
<1> QED
    BY <1>1, <1>2, <1>3, <1>4, <1>5, ProfilesTorn DEF ToolsInv

\* A command leaves the configuration, a reload the command line.
LEMMA FileInvStep == FileInv /\ [OperatorNext]_operatorVars => FileInv'
<1> SUFFICES ASSUME FileInv, [OperatorNext]_operatorVars
             PROVE  FileInv'
    OBVIOUS
<1>1. ConfigInv /\ ToolsInv
    BY DEF FileInv, ToolsInv
<1>2. CASE UNCHANGED operatorVars
    BY <1>1, <1>2, ConfigStays, ToolsStay DEF operatorVars, FileInv, ToolsInv
<1>3. CASE ConfigNext
  <2>1. UNCHANGED cliVars
    BY <1>3 DEF ConfigNext, EditFile, LoadConfig, SwapConfig, StampConfig
  <2> QED
    BY <1>1, <1>3, <2>1, ConfigNextKeeps, ToolsStay DEF FileInv, ToolsInv
<1>4. CASE CredentialsNext
  <2>1. UNCHANGED configVars
    BY <1>4 DEF CredentialsNext, AddCredential, RemoveCredential, RotateCredentials, SaveCredentials
  <2> QED
    BY <1>1, <1>4, <2>1, ConfigStays, CredentialsKeep DEF FileInv, ToolsInv
<1>5. CASE DeployNext
  <2>1. UNCHANGED configVars
    BY <1>5 DEF DeployNext, DeployContract, InitializeDeployed
  <2> QED
    BY <1>1, <1>5, <2>1, ConfigStays, DeploysKeep DEF FileInv, ToolsInv
<1>6. CASE NetworkNext
  <2>1. UNCHANGED configVars
    BY <1>6 DEF NetworkNext, NetworkAdd, NetworkRemove, NetworkSetDefault, SaveProfiles
  <2> QED
    BY <1>1, <1>6, <2>1, ConfigStays, NetworksKeep DEF FileInv, ToolsInv
<1>7. CASE CommandFault
  <2>1. UNCHANGED configVars
    BY <1>7 DEF CommandFault, CommandDies, WriteTorn
  <2> QED
    BY <1>1, <1>7, <2>1, ConfigStays, FaultsKeep DEF FileInv, ToolsInv
<1> QED
    BY <1>2, <1>3, <1>4, <1>5, <1>6, <1>7 DEF OperatorNext

\* The initial state has the invariant.
LEMMA FileInvInit == OperatorInit => FileInv
<1> SUFFICES ASSUME OperatorInit PROVE FileInv
    OBVIOUS
<1>1. /\ file \in [content : {c \in Contents : ValidConfig(c)}, mtime : {1}]
      /\ manager = [config |-> file.content, seen |-> 1]
      /\ reload = [t \in Reloaders |-> Reloaded] /\ raced = FALSE
      /\ keystore = NoCredentials /\ serial = NoCredentials
      /\ contracts = <<>> /\ records = <<>> /\ profiles = <<>> /\ asked = Nothing
      /\ command = [p \in Commands |-> NoCommand] /\ overlapped = FALSE
    BY DEF OperatorInit
<1>2. \A p \in Commands : command[p] = NoCommand /\ command[p].kind = Nothing
    BY <1>1, KindOfNone
<1>3. Nothing \notin Kinds
    BY KindOfNone
<1>4. ConfigInv
  <2>1. file.content \in Contents /\ ValidConfig(file.content) /\ file \in [content : Contents, mtime : Nat]
    BY <1>1
  <2>2. /\ manager.config = file.content /\ manager.seen = 1
        /\ manager \in [config : Contents, seen : Nat]
    BY <1>1, <2>1
  <2>3. \A t \in Reloaders : reload[t] = Reloaded
    BY <1>1
  <2>4. reload \in [Reloaders -> [at : {"idle", "loaded", "swapped"}, config : Contents \cup {Nothing},
                                  alone : BOOLEAN]]
    BY <1>1 DEF Reloaded
  <2> QED
    BY <1>1, <2>1, <2>2, <2>3, <2>4 DEF ConfigInv
<1>5. CommandInv
    BY <1>1, <1>2 DEF CommandInv
<1>6. CredInv
    BY <1>1, <1>2, <1>3 DEF CredInv, Kinds, OfStore
<1>7. DeployInv
  <2>1. \A p \in Commands : ~Deploying(p)
    BY <1>2, <1>3 DEF Deploying, Kinds
  <2>2. /\ contracts \in Seq(BOOLEAN) /\ records \in Seq(Deployment) /\ Len(contracts) = 0
        /\ 1..Len(records) = {} /\ 1..Len(contracts) = {}
    BY <1>1, EmptySeq
  <2>3. ToSet(records) = {}
    BY <1>1 DEF ToSet
  <2>4. ListedIn(records, contracts, command)
    BY <2>2 DEF ListedIn
  <2> QED
    BY <2>1, <2>2, <2>3, <2>4 DEF DeployInv, WrittenDown
<1>8. ProfileInv
  <2>1. \A p \in Commands : ~Networking(p)
    BY <1>2, <1>3 DEF Networking, Kinds
  <2>2. profiles \in Seq(Profile) /\ 1..Len(profiles) = {}
    BY <1>1, EmptySeq
  <2>3. ToSet(profiles) = {}
    BY <1>1 DEF ToSet
  <2> QED
    BY <1>1, <2>1, <2>2, <2>3 DEF ProfileInv, ProfileList, Marked
<1> QED
    BY <1>4, <1>5, <1>6, <1>7, <1>8 DEF FileInv

\* What the invariant says of the deployments.
LEMMA DeploymentsFollow == CommandInv /\ DeployInv => DeploymentsRecorded
<1> SUFFICES ASSUME CommandInv, DeployInv PROVE DeploymentsRecorded
    OBVIOUS
<1>1. /\ records \in Seq(Deployment) /\ DOMAIN records = 1..Len(records)
      /\ contracts \in Seq(BOOLEAN) /\ DOMAIN contracts = 1..Len(contracts)
    BY DEF DeployInv, ListedIn
<1>2. ListedIn(records, contracts, command)
    BY DEF DeployInv
<1>3. \A i \in DOMAIN records : /\ records[i].id \in DOMAIN contracts
                               /\ records[i].initialized => contracts[records[i].id]
                               /\ \A j \in DOMAIN records : records[i].id = records[j].id => i = j
    BY <1>1, <1>2 DEF ListedIn
<1>4. ASSUME ~overlapped, \A p \in Commands : command[p] = NoCommand
      PROVE  {r.id : r \in ToSet(records)} = DOMAIN contracts
  <2>1. \A p \in Commands : ~Deploying(p)
    BY <1>4, KindOfNone DEF Deploying, Kinds
  <2> QED
    BY <1>1, <1>4, <2>1 DEF DeployInv, WrittenDown
<1> QED
    BY <1>3, <1>4 DEF DeploymentsRecorded

\* What the invariant says of the profiles.
LEMMA ProfilesFollow == ProfileInv => ProfilesResolve
<1> SUFFICES ASSUME ProfileInv PROVE ProfilesResolve
    OBVIOUS
<1>1. ProfileList(profiles)
    BY DEF ProfileInv
<1>2. /\ Len(profiles) \in Nat /\ DOMAIN profiles = 1..Len(profiles)
      /\ \A i, j \in 1..Len(profiles) : i # j => /\ profiles[i].name # profiles[j].name
                                                 /\ ~(profiles[i].default /\ profiles[j].default)
    BY <1>1, ProfilesApart
<1>3. Unique([i \in DOMAIN profiles |-> profiles[i].name])
  <2> DEFINE names == [i \in DOMAIN profiles |-> profiles[i].name]
  <2>1. DOMAIN names = DOMAIN profiles /\ \A i \in DOMAIN profiles : names[i] = profiles[i].name
    OBVIOUS
  <2> HIDE DEF names
  <2> QED
    BY <1>2, <2>1 DEF Unique, names
<1>4. Cardinality({i \in DOMAIN profiles : profiles[i].default}) <= 1
  <2> DEFINE D == {i \in DOMAIN profiles : profiles[i].default}
  <2>1. \A i, j \in D : i = j
    BY <1>2
  <2> HIDE DEF D
  <2>2. CASE D = {}
    BY <2>2, FS_EmptySet DEF D
  <2>3. CASE D # {}
    <3>1. PICK i : D = {i}
      BY <2>1, <2>3
    <3> QED
      BY <3>1, FS_Singleton DEF D
  <2> QED
    BY <2>2, <2>3
<1> DEFINE loaded == LoadedProfiles
           S == {r \in ToSet(loaded) : r.default}
           marked == Kept(loaded, S)
<1>5. /\ ProfileList(loaded) /\ ToSet(loaded) \subseteq Profile
      /\ ToSet(loaded) = {r \in ToSet(profiles) : r.valid}
    BY <1>1, Loading
<1>6. marked \in Seq(Profile) /\ ToSet(marked) = S
    BY <1>5, KeptProfiles DEF ProfileList
<1>7. DefaultNetwork = IF marked = <<>> THEN "testnet" ELSE marked[1].name
    BY DEF DefaultNetwork
<1> HIDE DEF loaded, marked
<1>8. ASSUME marked # <<>>
      PROVE  marked[1] \in S
  <2>1. 1 \in 1..Len(marked) /\ DOMAIN marked = 1..Len(marked)
    BY <1>6, <1>8, EmptySeq
  <2>2. marked[1] \in ToSet(marked)
    BY <2>1 DEF ToSet
  <2> QED
    BY <1>6, <2>2
<1>9. ASSUME marked = <<>> PROVE S = {}
    BY <1>6, <1>9 DEF ToSet
<1>10. ResolvedNetwork(DefaultNetwork)[2] = DefaultNetwork
  <2>1. CASE marked = <<>>
    <3>1. DefaultNetwork = "testnet" /\ "testnet" \in BuiltinNetworks
      BY <1>7, <2>1, OperatorConstants DEF OperatorConstants
    <3> HIDE DEF S
    <3>2. ResolvedNetwork("testnet")[2] = "testnet"
      BY <3>1 DEF ResolvedNetwork
    <3> QED
      BY <3>1, <3>2
  <2>2. CASE marked # <<>>
    <3>1. DefaultNetwork \in NamesOf(LoadedProfiles)
      BY <1>7, <1>8, <2>2 DEF NamesOf, loaded
    <3> QED
      BY <3>1 DEF ResolvedNetwork
  <2> QED
    BY <2>1, <2>2
<1>11. ASSUME ~overlapped, asked \in NamesOf(LoadedProfiles)
       PROVE  DefaultNetwork = asked
  <2>1. asked # Nothing
    <3>1. \A r \in ToSet(loaded) : r.name \in ProfileNames
      BY <1>5 DEF Profile
    <3> QED
      BY <1>11, <3>1, OperatorConstants DEF NamesOf, OperatorConstants, loaded
  <2>2. Marked(profiles, asked)
    BY <1>11 DEF ProfileInv
  <2>3. S # {} /\ \A r \in S : r.name = asked
    BY <1>5, <2>1, <2>2 DEF Marked
  <2> QED
    BY <1>7, <1>8, <1>9, <2>3
<1> QED
    BY <1>3, <1>4, <1>10, <1>11 DEF ProfilesResolve

\* The cascade of signing sources stops at the first that is there.
LEMMA SignersInOrder == SignerFromFirstSource
<1> DEFINE order == <<"token", "key", "env", "keyfile", "keystore">>
           given == {Nothing, "empty", "good", "bad"}
<1> SUFFICES ASSUME NEW a \in [token : given, key : given, env : given, keyfile : given,
                               keystore : {Nothing, "good"}, interactive : BOOLEAN],
                    NEW i \in DOMAIN order, SignerSource(a) = order[i]
             PROVE  a[order[i]] = "good" /\ \A j \in 1..(i - 1) :
                        a[order[j]] \in {Nothing} \cup (IF j = 1 THEN {"empty"} ELSE {})
    BY DEF SignerFromFirstSource
<1>0. Nothing # "good" /\ Nothing # "bad"
    BY OperatorConstants DEF OperatorConstants
<1>1. /\ a.token \in given /\ a.key \in given /\ a.env \in given /\ a.keyfile \in given
      /\ a.keystore \in {Nothing, "good"} /\ a.interactive \in BOOLEAN
      /\ a["token"] = a.token /\ a["key"] = a.key /\ a["env"] = a.env /\ a["keyfile"] = a.keyfile
      /\ a["keystore"] = a.keystore
    OBVIOUS
<1>2. i \in 1..5
    OBVIOUS
<1>3. /\ order[1] = "token" /\ order[2] = "key" /\ order[3] = "env" /\ order[4] = "keyfile"
      /\ order[5] = "keystore"
    OBVIOUS
<1> HIDE DEF order
<1>4. /\ SignerSource(a) = "token" => a.token = "good"
      /\ SignerSource(a) = "key" => a.key = "good" /\ a.token \in {Nothing, "empty"}
      /\ SignerSource(a) = "env" => a.env = "good" /\ a.key = Nothing /\ a.token \in {Nothing, "empty"}
      /\ SignerSource(a) = "keyfile" => /\ a.keyfile = "good" /\ a.env = Nothing /\ a.key = Nothing
                                        /\ a.token \in {Nothing, "empty"}
      /\ SignerSource(a) = "keystore" => /\ a.keystore = "good" /\ a.keyfile = Nothing /\ a.env = Nothing
                                         /\ a.key = Nothing /\ a.token \in {Nothing, "empty"}
  <2>1. CASE a.token \in {"good", "bad"}
    <3>1. SignerSource(a) = IF a.token = "good" THEN "token" ELSE "error"
      BY <2>1 DEF SignerSource
    <3> QED
      BY <3>1
  <2>2. CASE a.token \notin {"good", "bad"} /\ a.key # Nothing
    <3>1. SignerSource(a) = IF a.key = "good" THEN "key" ELSE "error"
      BY <2>2 DEF SignerSource
    <3> QED
      BY <1>1, <2>2, <3>1
  <2>3. CASE a.token \notin {"good", "bad"} /\ a.key = Nothing /\ a.env # Nothing
    <3>1. SignerSource(a) = IF a.env = "good" THEN "env" ELSE "error"
      BY <2>3 DEF SignerSource
    <3> QED
      BY <1>1, <2>3, <3>1
  <2>4. CASE a.token \notin {"good", "bad"} /\ a.key = Nothing /\ a.env = Nothing /\ a.keyfile # Nothing
    <3>1. SignerSource(a) = IF a.keyfile = "good" THEN "keyfile" ELSE "error"
      BY <2>4 DEF SignerSource
    <3> QED
      BY <1>1, <2>4, <3>1
  <2>5. CASE a.token \notin {"good", "bad"} /\ a.key = Nothing /\ a.env = Nothing /\ a.keyfile = Nothing
    <3>1. SignerSource(a) = IF a.keystore # Nothing /\ a.interactive THEN "keystore" ELSE "error"
      BY <2>5 DEF SignerSource
    <3> QED
      BY <1>1, <2>5, <3>1
  <2> QED
    BY <2>1, <2>2, <2>3, <2>4, <2>5
<1>5. CASE i = 1
    BY <1>1, <1>3, <1>4, <1>5
<1>6. CASE i = 2
  <2>1. 1..(2 - 1) = {1}
    OBVIOUS
  <2> QED
    BY <1>1, <1>3, <1>4, <1>6, <2>1
<1>7. CASE i = 3
  <2>1. 1..(3 - 1) = {1, 2}
    OBVIOUS
  <2> QED
    BY <1>1, <1>3, <1>4, <1>7, <2>1
<1>8. CASE i = 4
  <2>1. 1..(4 - 1) = {1, 2, 3}
    OBVIOUS
  <2> QED
    BY <1>1, <1>3, <1>4, <1>8, <2>1
<1>9. CASE i = 5
  <2>1. 1..(5 - 1) = {1, 2, 3, 4}
    OBVIOUS
  <2> QED
    BY <1>1, <1>3, <1>4, <1>9, <2>1
<1> QED
    BY <1>2, <1>5, <1>6, <1>7, <1>8, <1>9 DEF order

\* Whatever reloads, edits and commands of several processes overlap or die, the active
\* configuration is valid and follows the file, the credentials are those the commands in turn
\* should leave, the deployments recorded exist and the default network resolves
\* (RuntimeConfigManager and the CLI's credentials, deploy and network commands).
THEOREM FilesStaySoundHolds == OperatorSpec => []FilesStaySound
<1>1. OperatorInit => FileInv
    BY FileInvInit
<1>2. FileInv /\ [OperatorNext]_operatorVars => FileInv'
    BY FileInvStep
<1>3. FileInv => FilesStaySound
  <2> SUFFICES ASSUME FileInv PROVE FilesStaySound
    OBVIOUS
  <2>1. ConfigInv /\ CommandInv /\ CredInv /\ DeployInv /\ ProfileInv
    BY DEF FileInv
  <2>2. ConfigFollowsFile
    BY <2>1 DEF ConfigInv, ConfigFollowsFile, Idle
  <2>3. CredentialsKept
    BY <2>1 DEF CredInv, CredentialsKept
  <2> QED
    BY <2>1, <2>2, <2>3, DeploymentsFollow, ProfilesFollow, SignersInOrder DEF FilesStaySound
<1> QED
    BY <1>1, <1>2, <1>3, PTL DEF OperatorSpec

-----------------------------------------------------------------------------
(* The monitor and the alerts: the router *)

\* An alert is routed to each destination of the rules that match it, or else of the
\* defaults, and to each once.
LEMMA RouteSound ==
    ASSUME NEW config, NEW severity, NEW scope,
           config.rules \in Seq([severity : Severities, scope : Scopes \cup {NoScope},
                                 routes : Seq(Destinations)]),
           config.defaults \in Seq(Destinations)
    PROVE  LET routes == Route(config, severity, scope)
               hit == {i \in DOMAIN config.rules : RuleMatches(config.rules[i], severity, scope)}
               wanted == UNION {ToSet(config.rules[i].routes) : i \in hit}
           IN  /\ IsInjective(routes)
               /\ ToSet(routes) = IF wanted = {} THEN ToSet(config.defaults) ELSE wanted
<1> DEFINE Rules == [severity : Severities, scope : Scopes \cup {NoScope}, routes : Seq(Destinations)]
           rules == config.rules
           S == {r \in ToSet(rules) : RuleMatches(r, severity, scope)}
           hits == Kept(rules, S)
           lists == [i \in DOMAIN hits |-> hits[i].routes]
           all == FlattenSeq(lists)
           routes == IF all = <<>> THEN config.defaults ELSE all
           hit == {i \in DOMAIN rules : RuleMatches(rules[i], severity, scope)}
           wanted == UNION {ToSet(rules[i].routes) : i \in hit}
<1>1. \A r \in Rules : r.routes \in Seq(Destinations)
    OBVIOUS
<1> HIDE DEF Rules, S
<1>2. hits \in Seq(Rules) /\ ToSet(hits) = ToSet(rules) \cap S
    BY KeptIds DEF Rules
<1>3. ToSet(hits) = S
    BY <1>2 DEF S
<1> HIDE DEF hits
<1>4. Len(hits) \in Nat /\ DOMAIN hits = 1..Len(hits) /\ \A i \in 1..Len(hits) : hits[i] \in Rules
    BY <1>2, LenProperties, ElementOfSeq
<1>5. lists \in Seq(Seq(Destinations)) /\ DOMAIN lists = DOMAIN hits
    BY <1>1, <1>4
<1>6. all \in Seq(Destinations) /\ ToSet(all) = UNION {ToSet(lists[i]) : i \in DOMAIN lists}
  <2> HIDE DEF lists
  <2> QED
    BY <1>5, FlattenedSet
<1>7. \A x : x \in ToSet(all) <=> \E r \in S : x \in ToSet(r.routes)
  <2>1. \A x : x \in ToSet(all) <=> \E i \in DOMAIN hits : x \in ToSet(hits[i].routes)
    <3> HIDE DEF all
    <3> QED
      BY <1>5, <1>6
  <2>2. \A r : r \in S <=> \E i \in DOMAIN hits : r = hits[i]
    BY <1>3 DEF ToSet
  <2> QED
    BY <2>1, <2>2, Zenon
<1>8. \A x : x \in wanted <=> \E r \in S : x \in ToSet(r.routes)
  <2>1. \A x : x \in wanted <=> \E i \in hit : x \in ToSet(rules[i].routes)
    OBVIOUS
  <2>2. \A r : r \in S <=> \E i \in hit : r = rules[i]
    BY DEF ToSet, S
  <2> QED
    BY <2>1, <2>2, Zenon
<1>9. ToSet(all) = wanted
  <2> HIDE DEF wanted, all
  <2> QED
    BY <1>7, <1>8
<1>10. all = <<>> <=> wanted = {}
  <2>1. ToSet(all) = {} <=> all = <<>>
    <3>1. DOMAIN all = 1..Len(all) /\ Len(all) \in Nat /\ (all = <<>> <=> Len(all) = 0)
      <4> HIDE DEF all
      <4> QED
        BY <1>6, LenProperties, EmptySeq
    <3>2. ToSet(all) = {} <=> DOMAIN all = {}
      BY DEF ToSet
    <3>3. 1..0 = {} /\ \A n \in Nat : n # 0 => 1 \in 1..n
      OBVIOUS
    <3> HIDE DEF all
    <3> QED
      BY <3>1, <3>2, <3>3
  <2> HIDE DEF wanted, all
  <2> QED
    BY <1>9, <2>1
<1> HIDE DEF all, wanted
<1>11. /\ routes \in Seq(Destinations)
       /\ ToSet(routes) = IF wanted = {} THEN ToSet(config.defaults) ELSE wanted
    BY <1>6, <1>9, <1>10
<1> HIDE DEF routes
<1> DEFINE places == Kept([i \in DOMAIN routes |-> i], FirstPlaces(routes))
           once == [n \in DOMAIN places |-> routes[places[n]]]
<1>12. IsInjective(once) /\ ToSet(once) = ToSet(routes)
    BY <1>11, NamedOnce
<1>13. once = Route(config, severity, scope)
    BY DEF Route, FirstPlaces, routes, all, lists, hits, S
<1> HIDE DEF once
<1>14. /\ IsInjective(Route(config, severity, scope))
       /\ ToSet(Route(config, severity, scope)) = IF wanted = {} THEN ToSet(config.defaults) ELSE wanted
    BY <1>11, <1>12, <1>13
<1> QED
    BY <1>14, Zenon DEF wanted

-----------------------------------------------------------------------------
(* Alerts *)

Firings == UNION {[S -> Nat] : S \in SUBSET Fingerprints}

\* What is delivered while a fingerprint is tracked ends at its last firing, each a
\* window after the one before.
FiringInv ==
    /\ alertTime \in Nat
    /\ fired \in [window : Nat, at : Firings]
    /\ delivered \in [Fingerprints -> Seq(Nat)]
    /\ IsFiniteSet(Tracked)
    /\ \A f \in Fingerprints :
          IF f \in Tracked THEN delivered[f] # <<>> /\ Last(delivered[f]) = fired.at[f]
                           ELSE delivered[f] = <<>>
    /\ \A f \in Fingerprints : \A i \in 2..Len(delivered[f]) :
          delivered[f][i] - delivered[f][i - 1] >= fired.window
    /\ fired.window = 0 => Tracked = {}
    /\ MaxKeys > 0 => Cardinality(Tracked) <= MaxKeys

\* A silence in force is in the suppressor, as it was set.
SilenceInv ==
    /\ alertTime \in Nat
    /\ quiet \in [Fingerprints -> Nat]
    /\ \A f \in Fingerprints : quiet[f] > alertTime => f \in DOMAIN silenced /\ silenced[f] = quiet[f]

\* What firings record.
LEMMA FiringFacts ==
    ASSUME NEW at
    PROVE  at \in Firings <=> /\ DOMAIN at \subseteq Fingerprints
                              /\ at = [f \in DOMAIN at |-> at[f]]
                              /\ \A f \in DOMAIN at : at[f] \in Nat
<1>1. ASSUME at \in Firings
      PROVE  /\ DOMAIN at \subseteq Fingerprints /\ at = [f \in DOMAIN at |-> at[f]]
             /\ \A f \in DOMAIN at : at[f] \in Nat
  <2>1. PICK S \in SUBSET Fingerprints : at \in [S -> Nat]
    BY <1>1 DEF Firings
  <2> QED
    BY <2>1
<1>2. ASSUME DOMAIN at \subseteq Fingerprints, at = [f \in DOMAIN at |-> at[f]],
             \A f \in DOMAIN at : at[f] \in Nat
      PROVE  at \in Firings
  <2>1. at \in [DOMAIN at -> Nat]
    BY <1>2
  <2> QED
    BY <1>2, <2>1 DEF Firings
<1> QED
    BY <1>1, <1>2

\* A delivery made a window after the last keeps the distance.
LEMMA SpacedAppended ==
    ASSUME NEW d \in Seq(Nat), NEW t \in Nat, NEW w \in Nat,
           \A i \in 2..Len(d) : d[i] - d[i - 1] >= w, d # <<>> => t - Last(d) >= w
    PROVE  /\ Append(d, t) \in Seq(Nat) /\ Append(d, t) # <<>> /\ Last(Append(d, t)) = t
           /\ \A i \in 2..Len(Append(d, t)) : Append(d, t)[i] - Append(d, t)[i - 1] >= w
<1> DEFINE m == Len(d)
           e == Append(d, t)
<1>1. /\ e \in Seq(Nat) /\ e # <<>> /\ m \in Nat /\ Len(e) = m + 1 /\ e[m + 1] = t
      /\ \A i \in 1..m : e[i] = d[i]
  <2>1. ASSUME NEW X, NEW s \in Seq(X), NEW x \in X
        PROVE  /\ Append(s, x) \in Seq(X) /\ Append(s, x) # <<>> /\ Len(Append(s, x)) = Len(s) + 1
               /\ \A i \in 1..Len(s) : Append(s, x)[i] = s[i]
               /\ Append(s, x)[Len(s) + 1] = x /\ Len(s) \in Nat
    BY AppendProperties, LenProperties
  <2>2. /\ Append(d, t) \in Seq(Nat) /\ Append(d, t) # <<>> /\ Len(Append(d, t)) = Len(d) + 1
        /\ \A i \in 1..Len(d) : Append(d, t)[i] = d[i]
        /\ Append(d, t)[Len(d) + 1] = t /\ Len(d) \in Nat
    BY <2>1, ZenonT(60)
  <2> QED
    BY <2>2, Zenon
<1>2. d # <<>> => m # 0 /\ Last(d) = d[m]
    BY EmptySeq DEF Last
<1>3. m # 0 => d # <<>>
    BY EmptySeq
<1>4. Last(e) = t
    BY <1>1 DEF Last
<1> HIDE DEF m, e
<1>5. ASSUME NEW i \in 2..(m + 1) PROVE e[i] - e[i - 1] >= w
  <2>1. CASE i = m + 1
    <3>1. m \in 1..m /\ i - 1 = m /\ m # 0
      BY <1>1, <2>1
    <3>2. e[i] = t /\ e[i - 1] = Last(d)
      BY <1>1, <1>2, <1>3, <2>1, <3>1
    <3> QED
      BY <1>3, <3>1, <3>2
  <2>2. CASE i # m + 1
    <3>1. i \in 1..m /\ i - 1 \in 1..m /\ i \in 2..m
      BY <1>1, <2>2
    <3>2. e[i] = d[i] /\ e[i - 1] = d[i - 1]
      BY <1>1, <3>1
    <3> QED
      BY <3>1, <3>2 DEF m
  <2> QED
    BY <2>1, <2>2
<1> QED
    BY <1>1, <1>4, <1>5 DEF e

\* Deliveries keep both.
LEMMA DeliverySound ==
    ASSUME MonitoringConstants, FiringInv, NEW f \in Fingerprints, ShouldDeliver(f)
    PROVE  FiringInv'
<1> DEFINE at == fired.at
           w == fired.window
           D == DOMAIN at
<1>1. /\ at \in Firings /\ w \in Nat /\ fired = [window |-> w, at |-> at] /\ Tracked = D
      /\ alertTime \in Nat /\ alertTime' = alertTime
    BY DEF FiringInv, ShouldDeliver, Tracked
<1>2. /\ D \subseteq Fingerprints /\ at = [g \in D |-> at[g]] /\ \A g \in D : at[g] \in Nat
    BY <1>1, FiringFacts
<1>3. /\ delivered \in [Fingerprints -> Seq(Nat)] /\ IsFiniteSet(D)
      /\ \A g \in Fingerprints : IF g \in D THEN delivered[g] # <<>> /\ Last(delivered[g]) = at[g]
                                            ELSE delivered[g] = <<>>
      /\ \A g \in Fingerprints : \A i \in 2..Len(delivered[g]) :
            delivered[g][i] - delivered[g][i - 1] >= w
      /\ w = 0 => D = {}
      /\ MaxKeys > 0 => Cardinality(D) <= MaxKeys
    BY <1>1 DEF FiringInv
<1>4. MaxKeys \in Nat
    BY DEF MonitoringConstants
<1>5. CASE UNCHANGED <<fired, delivered>>
    BY <1>1, <1>5 DEF FiringInv, Tracked
<1>6. CASE w = 0 /\ delivered' = [g \in Fingerprints |-> IF g = f THEN <<>> ELSE delivered[g]]
              /\ fired' = fired
  <2>1. delivered[f] = <<>>
    BY <1>3, <1>6
  <2>2. delivered' = delivered
    BY <1>3, <1>6, <2>1
  <2> QED
    BY <1>5, <1>6, <2>2
<1>7. ASSUME w # 0, f \notin D \/ alertTime - at[f] >= w, NEW gone, gone \in Evictions(f),
             fired' = [fired EXCEPT !.at =
                            [g \in (Tracked \ gone) \cup {f} |-> IF g = f THEN alertTime ELSE @[g]]],
             delivered' = [g \in Fingerprints |->
                    IF g = f THEN Append(delivered[f], alertTime)
                    ELSE IF g \in gone THEN <<>> ELSE delivered[g]]
      PROVE  FiringInv'
  <2> DEFINE E == (D \ gone) \cup {f}
             new == [g \in E |-> IF g = f THEN alertTime ELSE at[g]]
  <2>1. /\ gone \subseteq D /\ (gone # {} => f \notin D)
        /\ IsFiniteSet(E) /\ (MaxKeys > 0 => Cardinality(E) <= MaxKeys)
    <3>1. CASE gone = {}
      <4>1. E = D \cup {f}
        BY <3>1
      <4>2. IsFiniteSet(E) /\ Cardinality(E) = IF f \in D THEN Cardinality(D) ELSE Cardinality(D) + 1
        BY <1>3, <4>1, FS_AddElement
      <4>3. MaxKeys > 0 => f \in D \/ Cardinality(D) < MaxKeys
        <5> SUFFICES ASSUME MaxKeys > 0, f \notin D, ~(Cardinality(D) < MaxKeys) PROVE FALSE
          OBVIOUS
        <5>1. {} \in {{g} : g \in {h \in Tracked : \A i \in Tracked : fired.at[h] <= fired.at[i]}}
          BY <1>1, <1>4, <1>7, <3>1 DEF Evictions
        <5> QED
          BY <5>1
      <4>4. Cardinality(D) \in Nat
        BY <1>3, FS_CardinalityType
      <4> HIDE DEF E
      <4> QED
        BY <1>3, <1>4, <3>1, <4>2, <4>3, <4>4
    <3>2. CASE gone # {}
      <4>1. f \notin D /\ \E g \in D : gone = {g}
        BY <1>1, <1>7, <3>2 DEF Evictions
      <4>2. PICK g \in D : gone = {g}
        BY <4>1
      <4>3. IsFiniteSet(D \ {g}) /\ Cardinality(D \ {g}) = Cardinality(D) - 1
        BY <1>3, FS_RemoveElement
      <4>4. IsFiniteSet((D \ {g}) \cup {f}) /\ Cardinality((D \ {g}) \cup {f}) = Cardinality(D \ {g}) + 1
        BY <4>1, <4>3, FS_AddElement
      <4>5. Cardinality(D) \in Nat
        BY <1>3, FS_CardinalityType
      <4>6. E = (D \ {g}) \cup {f} /\ gone \subseteq D
        BY <4>2
      <4> HIDE DEF D, E
      <4>7. Cardinality(E) = Cardinality(D) /\ IsFiniteSet(E)
        BY <4>3, <4>4, <4>5, <4>6
      <4> QED
        BY <1>3, <4>1, <4>6, <4>7
    <3> QED
      BY <3>1, <3>2
  <2>2. DOMAIN new = E /\ new \in Firings
    <3>1. E \subseteq Fingerprints /\ \A g \in E : new[g] \in Nat
      BY <1>1, <1>2
    <3>2. DOMAIN new = E /\ new = [g \in DOMAIN new |-> new[g]]
      OBVIOUS
    <3> HIDE DEF new, E
    <3> QED
      BY <3>1, <3>2, FiringFacts
  <2>3. fired' \in [window : Nat, at : Firings] /\ fired'.at = new /\ fired'.window = w
    <3>1. fired' = [fired EXCEPT !.at = new]
      BY <1>1, <1>7
    <3> HIDE DEF new, at, w
    <3> QED
      BY <1>1, <2>2, <3>1
  <2>4. /\ Append(delivered[f], alertTime) \in Seq(Nat)
        /\ Append(delivered[f], alertTime) # <<>> /\ Last(Append(delivered[f], alertTime)) = alertTime
        /\ \A i \in 2..Len(Append(delivered[f], alertTime)) :
             Append(delivered[f], alertTime)[i] - Append(delivered[f], alertTime)[i - 1] >= w
    <3>1. delivered[f] # <<>> => alertTime - Last(delivered[f]) >= w
      BY <1>3, <1>7
    <3>2. /\ delivered[f] \in Seq(Nat) /\ alertTime \in Nat /\ w \in Nat
          /\ \A i \in 2..Len(delivered[f]) : delivered[f][i] - delivered[f][i - 1] >= w
      BY <1>1, <1>3
    <3> HIDE DEF w
    <3> QED
      BY <3>1, <3>2, SpacedAppended
  <2> DEFINE longer == Append(delivered[f], alertTime)
  <2>5. /\ delivered'[f] = longer
        /\ \A g \in Fingerprints : g # f => delivered'[g] = IF g \in gone THEN <<>> ELSE delivered[g]
    BY <1>7
  <2> HIDE DEF longer
  <2>6. delivered' \in [Fingerprints -> Seq(Nat)]
    <3>1. <<>> \in Seq(Nat)
      OBVIOUS
    <3>2. longer \in Seq(Nat)
      BY <2>4 DEF longer
    <3> QED
      BY <1>3, <1>7, <3>1, <3>2 DEF longer
  <2>7. ASSUME NEW g \in Fingerprints
        PROVE  /\ IF g \in E THEN delivered'[g] # <<>> /\ Last(delivered'[g]) = new[g]
                             ELSE delivered'[g] = <<>>
               /\ \A i \in 2..Len(delivered'[g]) : delivered'[g][i] - delivered'[g][i - 1] >= w
    <3>1. CASE g = f
      <4>1. delivered'[g] = longer /\ g \in E /\ new[g] = alertTime
        BY <2>5, <3>1
      <4>2. /\ longer # <<>> /\ Last(longer) = alertTime
            /\ \A i \in 2..Len(longer) : longer[i] - longer[i - 1] >= w
        BY <2>4 DEF longer
      <4> HIDE DEF E, new, w
      <4> QED
        BY <4>1, <4>2
    <3>2. CASE g # f /\ g \in gone
      <4>1. delivered'[g] = <<>> /\ g \notin E
        BY <2>5, <3>2
      <4>2. 2..Len(<<>>) = {}
        OBVIOUS
      <4> HIDE DEF E, new, w
      <4> QED
        BY <4>1, <4>2
    <3>3. CASE g # f /\ g \notin gone
      <4>1. delivered'[g] = delivered[g] /\ (g \in E <=> g \in D) /\ (g \in E => new[g] = at[g])
        BY <2>5, <3>3
      <4> HIDE DEF E, new, w, D, at
      <4> QED
        BY <1>3, <4>1
    <3> QED
      BY <3>1, <3>2, <3>3
  <2>8. Tracked' = E
    BY <2>2, <2>3 DEF Tracked
  <2> HIDE DEF E, new, at, w, D
  <2> QED
    BY <1>1, <1>7, <2>1, <2>3, <2>6, <2>7, <2>8 DEF FiringInv
<1>8. \/ UNCHANGED <<fired, delivered>>
      \/ w = 0 /\ delivered' = [g \in Fingerprints |-> IF g = f THEN <<>> ELSE delivered[g]] /\ fired' = fired
      \/ /\ w # 0 /\ (f \notin D \/ alertTime - at[f] >= w)
         /\ \E gone \in Evictions(f) :
              /\ fired' = [fired EXCEPT !.at =
                            [g \in (Tracked \ gone) \cup {f} |-> IF g = f THEN alertTime ELSE @[g]]]
              /\ delivered' = [g \in Fingerprints |->
                    IF g = f THEN Append(delivered[f], alertTime)
                    ELSE IF g \in gone THEN <<>> ELSE delivered[g]]
    <2>1. IF IsSuppressed(f) \/ ~ShouldFire(f) THEN UNCHANGED <<fired, delivered>>
       ELSE \E gone \in (IF fired.window = 0 THEN {{}} ELSE Evictions(f)) :
              /\ fired' = IF fired.window = 0 THEN fired
                          ELSE [fired EXCEPT !.at =
                            [g \in (Tracked \ gone) \cup {f} |-> IF g = f THEN alertTime ELSE @[g]]]
              /\ delivered' = [g \in Fingerprints |->
                    IF g = f THEN IF fired.window = 0 THEN <<>> ELSE Append(delivered[f], alertTime)
                    ELSE IF g \in gone THEN <<>> ELSE delivered[g]]
      BY DEF ShouldDeliver
    <2>2. CASE w = 0
      BY <2>1, <2>2
    <2>3. CASE w # 0
      <3>1. ShouldFire(f) => f \notin D \/ alertTime - at[f] >= w
        BY <1>1, <2>3 DEF ShouldFire
      <3>2. CASE IsSuppressed(f) \/ ~ShouldFire(f)
        BY <2>1, <3>2
      <3>3. CASE ~IsSuppressed(f) /\ ShouldFire(f)
        BY <2>1, <2>3, <3>1, <3>3
      <3> QED
        BY <3>2, <3>3
    <2> QED
      BY <2>2, <2>3
<1> QED
  <2> HIDE DEF w, at, D
  <2> QED
    BY <1>5, <1>6, <1>7, <1>8

\* A reset forgets its fingerprints.
LEMMA ResetSound ==
    ASSUME MonitoringConstants, FiringInv, NEW fs, ResetAlerts(fs)
    PROVE  FiringInv'
<1> DEFINE at == fired.at
           w == fired.window
           D == DOMAIN at
           E == D \ fs
           new == [g \in E |-> at[g]]
<1>1. /\ at \in Firings /\ w \in Nat /\ fired = [window |-> w, at |-> at] /\ Tracked = D
      /\ alertTime \in Nat /\ alertTime' = alertTime /\ fired' = [fired EXCEPT !.at = new]
      /\ delivered' = [g \in Fingerprints |-> IF g \in fs THEN <<>> ELSE delivered[g]]
    BY DEF FiringInv, ResetAlerts, Tracked
<1>2. /\ D \subseteq Fingerprints /\ at = [g \in D |-> at[g]] /\ \A g \in D : at[g] \in Nat
    BY <1>1, FiringFacts
<1>3. /\ delivered \in [Fingerprints -> Seq(Nat)] /\ IsFiniteSet(D)
      /\ \A g \in Fingerprints : IF g \in D THEN delivered[g] # <<>> /\ Last(delivered[g]) = at[g]
                                            ELSE delivered[g] = <<>>
      /\ \A g \in Fingerprints : \A i \in 2..Len(delivered[g]) :
            delivered[g][i] - delivered[g][i - 1] >= w
      /\ w = 0 => D = {}
      /\ MaxKeys > 0 => Cardinality(D) <= MaxKeys
    BY <1>1 DEF FiringInv
<1>4. DOMAIN new = E /\ new \in Firings
  <2>1. E \subseteq Fingerprints /\ \A g \in E : new[g] \in Nat
    BY <1>1, <1>2
  <2>2. DOMAIN new = E /\ new = [g \in DOMAIN new |-> new[g]]
    OBVIOUS
  <2> HIDE DEF new, E
  <2> QED
    BY <2>1, <2>2, FiringFacts
<1>5. fired' \in [window : Nat, at : Firings] /\ fired'.at = new /\ fired'.window = w
  <2> HIDE DEF new, at, w
  <2> QED
    BY <1>1, <1>4
<1>6. IsFiniteSet(E) /\ (MaxKeys > 0 => Cardinality(E) <= MaxKeys) /\ (w = 0 => E = {})
  <2>1. E \in SUBSET D
    OBVIOUS
  <2>2. IsFiniteSet(E) /\ Cardinality(E) <= Cardinality(D)
    <3> HIDE DEF E, D
    <3> QED
      BY <1>3, <2>1, FS_Subset
  <2>3. Cardinality(D) \in Nat /\ Cardinality(E) \in Nat /\ MaxKeys \in Nat
    <3> HIDE DEF E, D
    <3> QED
      BY <1>3, <2>2, FS_CardinalityType DEF MonitoringConstants
  <2>4. w = 0 => E = {}
    BY <1>3
  <2> HIDE DEF E, D
  <2> QED
    BY <1>3, <2>2, <2>3, <2>4
<1>7. delivered' \in [Fingerprints -> Seq(Nat)]
  <2>1. <<>> \in Seq(Nat)
    OBVIOUS
  <2> QED
    BY <1>1, <1>3, <2>1
<1>8. ASSUME NEW g \in Fingerprints
      PROVE  /\ IF g \in E THEN delivered'[g] # <<>> /\ Last(delivered'[g]) = new[g]
                           ELSE delivered'[g] = <<>>
             /\ \A i \in 2..Len(delivered'[g]) : delivered'[g][i] - delivered'[g][i - 1] >= w
  <2>1. CASE g \in fs
    <3>1. delivered'[g] = <<>> /\ g \notin E
      BY <1>1, <2>1
    <3>2. 2..Len(<<>>) = {}
      OBVIOUS
    <3> HIDE DEF E, new, w
    <3> QED
      BY <3>1, <3>2
  <2>2. CASE g \notin fs
    <3>1. delivered'[g] = delivered[g] /\ (g \in E <=> g \in D) /\ (g \in E => new[g] = at[g])
      BY <1>1, <2>2
    <3> HIDE DEF E, new, w, D, at
    <3> QED
      BY <1>3, <3>1
  <2> QED
    BY <2>1, <2>2
<1>9. Tracked' = E
    BY <1>4, <1>5 DEF Tracked
<1> HIDE DEF E, new, at, w, D
<1> QED
    BY <1>1, <1>5, <1>6, <1>7, <1>8, <1>9 DEF FiringInv

-----------------------------------------------------------------------------
(* The monitor *)

Moves == [from : TxStates, to : TxStates]

Chained(s) == \A i \in 2..Len(s) : s[i].from = s[i - 1].to

\* The changes told lead from the first state seen to the last.
Told(ev, seen) ==
    LET changes == Kept(ev, ChangeEvents)
    IN  /\ Chained(changes)
        /\ changes # <<>> => changes[1].from = seen[1] /\ Last(changes).to = Last(seen)

\* What the monitor keeps is an unbroken end of what it saw, and while it runs it
\* knows the state it saw last.
MonitorInv ==
    /\ monitor \in [cfg : Backpressure, last : TxStates \cup {"none"}, failures : Nat, cycle : Nat,
                    done : BOOLEAN]
    /\ transitions \in Seq(Moves) /\ emitted \in Seq(Events) /\ observed \in Seq(TxStates)
    /\ Chained(transitions)
    /\ transitions # <<>> => Last(transitions).to = Last(observed)
    /\ monitor.cfg.max > 0 => Len(transitions) <= monitor.cfg.max
    /\ Told(emitted, observed)
    /\ Len(Kept(emitted, FinalEvents)) = IF monitor.done THEN 1 ELSE 0
    /\ monitor.done => Last(emitted) = Kept(emitted, FinalEvents)[1]
    /\ ~monitor.done =>
          IF monitor.last = "none"
          THEN observed = <<>> /\ transitions = <<>> /\ Kept(emitted, ChangeEvents) = <<>>
          ELSE /\ observed # <<>> /\ Last(observed) = monitor.last
               /\ Kept(emitted, ChangeEvents) = <<>> => observed[1] = monitor.last

\* A chain grows by what starts where it ends.
LEMMA ChainAppended ==
    ASSUME NEW X, NEW s \in Seq(X), NEW e \in X, Chained(s), s # <<>> => e.from = Last(s).to
    PROVE  Chained(Append(s, e))
<1> DEFINE t == Append(s, e)
           m == Len(s)
<1>1. /\ t \in Seq(X) /\ m \in Nat /\ Len(t) = m + 1 /\ t[m + 1] = e
      /\ \A i \in 1..m : t[i] = s[i]
      /\ m # 0 => Last(s) = s[m] /\ s # <<>>
    BY AppendedFacts
<1>2. \A i \in 2..m : s[i].from = s[i - 1].to
    BY DEF Chained
<1> HIDE DEF t, m
<1>3. ASSUME NEW i \in 2..(m + 1) PROVE t[i].from = t[i - 1].to
  <2>1. CASE i = m + 1
    <3>1. m \in 1..m /\ i - 1 = m /\ m # 0
      BY <1>1, <2>1
    <3>2. t[i] = e /\ t[i - 1] = Last(s) /\ s # <<>>
      BY <1>1, <2>1, <3>1
    <3> QED
      BY <3>2
  <2>2. CASE i # m + 1
    <3>1. i \in 1..m /\ i - 1 \in 1..m /\ i \in 2..m
      BY <1>1, <2>2
    <3> QED
      BY <1>1, <1>2, <3>1
  <2> QED
    BY <2>1, <2>2
<1> QED
    BY <1>1, <1>3 DEF Chained, t

\* An end of a chain is one.
LEMMA ChainTail ==
    ASSUME NEW X, NEW s \in Seq(X), NEW low \in Nat, low < Len(s), Chained(s)
    PROVE  /\ SubSeq(s, low + 1, Len(s)) \in Seq(X) /\ Len(SubSeq(s, low + 1, Len(s))) = Len(s) - low
           /\ SubSeq(s, low + 1, Len(s)) # <<>> /\ Last(SubSeq(s, low + 1, Len(s))) = Last(s)
           /\ Chained(SubSeq(s, low + 1, Len(s)))
<1> DEFINE m == Len(s)
           t == SubSeq(s, low + 1, m)
<1>1. m \in Nat /\ low <= m /\ low < m
    BY LenProperties
<1>2. /\ t \in Seq(X) /\ Len(t) = m - low
      /\ \A k \in 1..(m - low) : t[k] = s[low + k]
    BY <1>1, PartOf
<1>3. \A i \in 2..m : s[i].from = s[i - 1].to
    BY DEF Chained
<1>4. t # <<>>
  <2>1. Len(t) # 0
    BY <1>1, <1>2
  <2> QED
    BY <2>1, EmptySeq
<1>5. Last(s) = s[m] /\ Last(t) = t[Len(t)]
    BY DEF Last
<1> HIDE DEF t, m
<1>6. Last(t) = Last(s)
  <2>1. m - low \in 1..(m - low) /\ low + (m - low) = m
    BY <1>1
  <2> QED
    BY <1>2, <1>5, <2>1
<1>7. Chained(t)
  <2> SUFFICES ASSUME NEW k \in 2..(m - low) PROVE t[k].from = t[k - 1].to
    BY <1>2 DEF Chained
  <2>1. /\ k \in 1..(m - low) /\ k - 1 \in 1..(m - low) /\ low + k \in 2..m
        /\ low + (k - 1) = (low + k) - 1
    BY <1>1
  <2> QED
    BY <1>2, <1>3, <2>1
<1> QED
    BY <1>2, <1>4, <1>6, <1>7 DEF t, m

\* What a list of moves becomes when one is recorded.
LEMMA RecordedMove ==
    ASSUME MonitoringConstants, MonitorInv, NEW from \in TxStates, NEW to \in TxStates,
           transitions # <<>> => Last(transitions).to = from
    PROVE  /\ WithTransition(from, to) \in Seq(Moves) /\ Chained(WithTransition(from, to))
           /\ WithTransition(from, to) # <<>> /\ Last(WithTransition(from, to)).to = to
           /\ monitor.cfg.max > 0 => Len(WithTransition(from, to)) <= monitor.cfg.max
<1> DEFINE move == [from |-> from, to |-> to]
           q == Append(transitions, move)
           max == monitor.cfg.max
<1>1. /\ move \in Moves /\ move.from = from /\ move.to = to
    BY DEF Moves
<1>2. /\ transitions \in Seq(Moves) /\ Chained(transitions) /\ (max > 0 => Len(transitions) <= max)
    BY DEF MonitorInv
<1>3. max \in Nat
  <2>1. monitor.cfg \in [max : Nat, updates : BOOLEAN, polls : BOOLEAN]
    BY DEF MonitorInv, MonitoringConstants
  <2> QED
    BY <2>1
<1> HIDE DEF move, max
<1>4. /\ q \in Seq(Moves) /\ q # <<>> /\ Last(q) = move /\ Len(q) \in Nat /\ Len(q) # 0
  <2> HIDE DEF Moves
  <2> QED
    BY <1>1, <1>2, AppendedFacts
<1>5. Chained(q)
  <2> HIDE DEF Moves
  <2> QED
    BY <1>1, <1>2, ChainAppended
<1>6. WithTransition(from, to) = IF monitor.cfg.polls /\ transitions # <<>> /\ Last(transitions) = move
                                 THEN transitions
                                 ELSE IF max > 0 /\ Len(q) > max
                                 THEN SubSeq(q, Len(q) - max + 1, Len(q)) ELSE q
    BY DEF WithTransition, move, max
<1> HIDE DEF q
<1>7. CASE monitor.cfg.polls /\ transitions # <<>> /\ Last(transitions) = move
  <2>1. WithTransition(from, to) = transitions
    BY <1>6, <1>7
  <2> QED
    BY <1>1, <1>2, <1>7, <2>1 DEF max
<1>8. CASE ~(monitor.cfg.polls /\ transitions # <<>> /\ Last(transitions) = move) /\ max > 0 /\ Len(q) > max
  <2> DEFINE low == Len(q) - max
             n == Len(q)
  <2>1. low \in Nat /\ low < n /\ n - low = max
    BY <1>3, <1>4, <1>8
  <2>2. WithTransition(from, to) = SubSeq(q, low + 1, n)
    BY <1>6, <1>8
  <2> HIDE DEF low
  <2>3. /\ SubSeq(q, low + 1, Len(q)) \in Seq(Moves) /\ Len(SubSeq(q, low + 1, Len(q))) = Len(q) - low
        /\ SubSeq(q, low + 1, Len(q)) # <<>> /\ Last(SubSeq(q, low + 1, Len(q))) = Last(q)
        /\ Chained(SubSeq(q, low + 1, Len(q)))
    <3> HIDE DEF Moves
    <3> QED
      BY <1>4, <1>5, <2>1, ChainTail
  <2> QED
    BY <1>1, <1>3, <1>4, <2>1, <2>2, <2>3 DEF max
<1>9. CASE ~(monitor.cfg.polls /\ transitions # <<>> /\ Last(transitions) = move) /\ ~(max > 0 /\ Len(q) > max)
  <2>1. WithTransition(from, to) = q
    BY <1>6, <1>9
  <2> QED
    BY <1>1, <1>3, <1>4, <1>5, <1>9, <2>1 DEF max
<1> QED
    BY <1>7, <1>8, <1>9

\* An event told adds to the changes or to the ends, and is the last one told.
LEMMA EventTold ==
    ASSUME NEW ev \in Seq(Events), NEW e \in Events
    PROVE  /\ ev \o <<e>> \in Seq(Events) /\ Last(ev \o <<e>>) = e
           /\ Kept(ev, ChangeEvents) \in Seq(Events) /\ Kept(ev, FinalEvents) \in Seq(Events)
           /\ Kept(ev \o <<e>>, ChangeEvents) = IF e.kind = "StateChanged"
                                                THEN Append(Kept(ev, ChangeEvents), e)
                                                ELSE Kept(ev, ChangeEvents)
           /\ Kept(ev \o <<e>>, FinalEvents) = IF e.kind = "StateChanged"
                                               THEN Kept(ev, FinalEvents)
                                               ELSE Append(Kept(ev, FinalEvents), e)
<1>1. (e \in ChangeEvents <=> e.kind = "StateChanged") /\ (e \in FinalEvents <=> e.kind # "StateChanged")
  <2> HIDE DEF Events
  <2> QED
    BY DEF ChangeEvents, FinalEvents
<1>2. ev \o <<e>> = Append(ev, e)
  <2> HIDE DEF Events
  <2> QED
    BY AppendIsConcat
<1>3. Append(ev, e) \in Seq(Events) /\ Last(Append(ev, e)) = e
  <2> HIDE DEF Events
  <2> QED
    BY AppendedFacts
<1>4. Kept(ev, ChangeEvents) \in Seq(Events) /\ Kept(ev, FinalEvents) \in Seq(Events)
  <2> HIDE DEF Events, ChangeEvents, FinalEvents
  <2> QED
    BY KeptIds
<1>5. Kept(Append(ev, e), ChangeEvents) = IF e \in ChangeEvents THEN Append(Kept(ev, ChangeEvents), e)
                                                                ELSE Kept(ev, ChangeEvents)
  <2> HIDE DEF Events, ChangeEvents
  <2> QED
    BY KeptAppended
<1>6. Kept(Append(ev, e), FinalEvents) = IF e \in FinalEvents THEN Append(Kept(ev, FinalEvents), e)
                                                              ELSE Kept(ev, FinalEvents)
  <2> HIDE DEF Events, FinalEvents
  <2> QED
    BY KeptAppended
<1> QED
  <2> HIDE DEF Events, ChangeEvents, FinalEvents
  <2> QED
    BY <1>1, <1>2, <1>3, <1>4, <1>5, <1>6

\* A change told carries the story to the new state.
LEMMA ChangeTold ==
    ASSUME MonitoringConstants, NEW ev \in Seq(Events), NEW seen \in Seq(TxStates), seen # <<>>,
           Told(ev, seen), NEW state \in TxStates,
           Kept(ev, ChangeEvents) = <<>> => seen[1] = Last(seen)
    PROVE  LET more == ev \o Changed(Last(seen), state)
           IN  /\ more \in Seq(Events) /\ Told(more, Append(seen, state))
               /\ Kept(more, ChangeEvents) # <<>> /\ Kept(more, FinalEvents) = Kept(ev, FinalEvents)
<1> DEFINE e == [kind |-> "StateChanged", from |-> Last(seen), to |-> state]
           more == ev \o <<e>>
           changes == Kept(ev, ChangeEvents)
           after == Append(seen, state)
<1>1. /\ after \in Seq(TxStates) /\ Last(after) = state /\ after[1] = seen[1] /\ Last(seen) \in TxStates
  <2>1. Len(seen) \in 1..Len(seen) /\ Last(seen) = seen[Len(seen)]
    BY AppendedFacts
  <2> QED
    BY <2>1, AppendedFacts, ElementOfSeq
<1>2. e \in Events /\ e.kind = "StateChanged" /\ e.from = Last(seen) /\ e.to = state
    BY <1>1 DEF Events
<1> HIDE DEF e
<1>3. /\ more \in Seq(Events) /\ changes \in Seq(Events)
      /\ Kept(more, ChangeEvents) = Append(changes, e)
      /\ Kept(more, FinalEvents) = Kept(ev, FinalEvents)
  <2> HIDE DEF Events
  <2> QED
    BY <1>2, EventTold
<1>4. Chained(changes) /\ (changes # <<>> => changes[1].from = seen[1] /\ Last(changes).to = Last(seen))
    BY DEF Told
<1> HIDE DEF changes, more, after
<1>5. /\ Append(changes, e) # <<>> /\ Last(Append(changes, e)) = e
      /\ Append(changes, e)[1] = IF changes = <<>> THEN e ELSE changes[1]
  <2> HIDE DEF Events
  <2> QED
    BY <1>2, <1>3, AppendedFacts
<1>6. Chained(Append(changes, e))
  <2> HIDE DEF Events
  <2> QED
    BY <1>2, <1>3, <1>4, ChainAppended
<1>7. Append(changes, e)[1].from = seen[1]
    BY <1>2, <1>4, <1>5 DEF changes
<1>8. Told(more, after)
    BY <1>1, <1>2, <1>3, <1>5, <1>6, <1>7 DEF Told
<1>9. more = ev \o Changed(Last(seen), state)
    BY DEF more, e, Changed
<1> QED
    BY <1>3, <1>5, <1>8, <1>9 DEF after

\* Seeing the same state again leaves the story as it is.
LEMMA SameTold ==
    ASSUME NEW ev, NEW seen \in Seq(TxStates), seen # <<>>, Told(ev, seen)
    PROVE  Told(ev, Append(seen, Last(seen)))
<1>1. Last(seen) \in TxStates
  <2>1. Len(seen) \in 1..Len(seen) /\ Last(seen) = seen[Len(seen)]
    <3>1. \E x : x \in TxStates
      BY EmptySeq, ElementOfSeq, LenProperties
    <3> QED
      BY <3>1, AppendedFacts
  <2> QED
    BY <2>1, ElementOfSeq
<1>2. Last(Append(seen, Last(seen))) = Last(seen) /\ Append(seen, Last(seen))[1] = seen[1]
    BY <1>1, AppendedFacts
<1> QED
    BY <1>2 DEF Told

\* The end of the run is told once, after the changes.
LEMMA EndTold ==
    ASSUME NEW ev \in Seq(Events), NEW kind \in {"Failed", "Completed"}
    PROVE  LET more == ev \o Ended(kind)
           IN  /\ more \in Seq(Events)
               /\ Kept(more, ChangeEvents) = Kept(ev, ChangeEvents)
               /\ Kept(ev, FinalEvents) = <<>> =>
                     Len(Kept(more, FinalEvents)) = 1 /\ Last(more) = Kept(more, FinalEvents)[1]
<1> DEFINE e == [kind |-> kind, from |-> "none", to |-> "none"]
           more == ev \o <<e>>
           finals == Kept(ev, FinalEvents)
<1>1. e \in Events /\ e.kind # "StateChanged"
    BY DEF Events
<1> HIDE DEF e
<1>2. /\ more \in Seq(Events) /\ Last(more) = e /\ finals \in Seq(Events)
      /\ Kept(more, ChangeEvents) = Kept(ev, ChangeEvents)
      /\ Kept(more, FinalEvents) = Append(finals, e)
  <2> HIDE DEF Events
  <2> QED
    BY <1>1, EventTold
<1> HIDE DEF more, finals
<1>3. finals = <<>> => Len(Append(finals, e)) = 1 /\ Append(finals, e)[1] = e
  <2> HIDE DEF Events
  <2>1. finals = <<>> => Len(finals) = 0
    BY <1>1, <1>2, AppendedFacts
  <2>2. Len(Append(finals, e)) = Len(finals) + 1 /\ Append(finals, e)[Len(finals) + 1] = e
    BY <1>1, <1>2, AppendedFacts
  <2> QED
    BY <2>1, <2>2
<1>4. more = ev \o Ended(kind)
    BY DEF more, e, Ended
<1> QED
    BY <1>2, <1>3, <1>4 DEF finals

\* What the monitor has told when it has looked at a state, but for the end.
LEMMA StorySoFar ==
    ASSUME MonitoringConstants, MonitorInv, ~monitor.done, NEW state \in TxStates, NEW silent \in BOOLEAN,
           silent => monitor.last \in {"none", state}, ~silent => monitor.last # "none"
    PROVE  LET mid == emitted \o (IF silent THEN <<>> ELSE Changed(monitor.last, state))
               seen == Append(observed, state)
           IN  /\ mid \in Seq(Events) /\ Told(mid, seen) /\ Kept(mid, FinalEvents) = <<>>
               /\ Kept(mid, ChangeEvents) = <<>> => seen[1] = state
               /\ monitor.last = "none" => Kept(mid, ChangeEvents) = <<>>
               /\ seen \in Seq(TxStates) /\ Last(seen) = state /\ seen # <<>>
<1> DEFINE mid == emitted \o (IF silent THEN <<>> ELSE Changed(monitor.last, state))
           seen == Append(observed, state)
<1>1. /\ emitted \in Seq(Events) /\ observed \in Seq(TxStates) /\ Told(emitted, observed)
      /\ IF monitor.last = "none"
         THEN observed = <<>> /\ Kept(emitted, ChangeEvents) = <<>>
         ELSE /\ observed # <<>> /\ Last(observed) = monitor.last
              /\ Kept(emitted, ChangeEvents) = <<>> => observed[1] = monitor.last
    BY DEF MonitorInv
<1>2. Kept(emitted, FinalEvents) = <<>>
  <2>1. Kept(emitted, FinalEvents) \in Seq(Events)
    <3> HIDE DEF Events, FinalEvents
    <3> QED
      BY <1>1, KeptIds
  <2>2. Len(Kept(emitted, FinalEvents)) = 0
    BY DEF MonitorInv
  <2> HIDE DEF Events, FinalEvents
  <2> QED
    BY <2>1, <2>2, EmptySeq
<1>3. /\ seen \in Seq(TxStates) /\ Last(seen) = state /\ seen # <<>>
      /\ seen[1] = IF observed = <<>> THEN state ELSE observed[1]
    BY <1>1, AppendedFacts
<1>4. ASSUME silent
      PROVE  /\ mid = emitted /\ Told(mid, seen)
             /\ Kept(mid, ChangeEvents) = <<>> => seen[1] = state
             /\ monitor.last = "none" => Kept(mid, ChangeEvents) = <<>>
  <2>1. mid = emitted
    <3> HIDE DEF Events
    <3> QED
      BY <1>1, <1>4, ConcatEmptySeq
  <2>2. CASE monitor.last = "none"
    <3>1. Told(emitted, seen)
      BY <1>1, <2>2 DEF Told
    <3> HIDE DEF mid, seen, Events, ChangeEvents, FinalEvents
    <3> QED
      BY <1>1, <1>3, <2>1, <2>2, <3>1
  <2>3. CASE monitor.last # "none"
    <3>1. monitor.last = state /\ observed # <<>> /\ Last(observed) = state
      BY <1>1, <1>4, <2>3
    <3>2. Told(emitted, Append(observed, Last(observed)))
      BY <1>1, <3>1, SameTold
    <3>3. Told(emitted, seen)
      BY <3>1, <3>2
    <3> HIDE DEF mid, seen, Events, ChangeEvents, FinalEvents
    <3> QED
      BY <1>1, <1>3, <2>1, <2>3, <3>1, <3>3
  <2> QED
    BY <2>2, <2>3
<1>5. ASSUME ~silent
      PROVE  /\ mid \in Seq(Events) /\ Told(mid, seen)
             /\ Kept(mid, ChangeEvents) # <<>> /\ Kept(mid, FinalEvents) = Kept(emitted, FinalEvents)
             /\ monitor.last # "none"
  <2>1. monitor.last # "none" /\ observed # <<>> /\ Last(observed) = monitor.last
    BY <1>1, <1>5
  <2>2. Kept(emitted, ChangeEvents) = <<>> => observed[1] = Last(observed)
    BY <1>1, <2>1
  <2> DEFINE more == emitted \o Changed(Last(observed), state)
  <2>3. /\ more \in Seq(Events) /\ Told(more, seen)
        /\ Kept(more, ChangeEvents) # <<>> /\ Kept(more, FinalEvents) = Kept(emitted, FinalEvents)
    <3> HIDE DEF Events, ChangeEvents, FinalEvents
    <3> QED
      BY <1>1, <2>1, <2>2, ChangeTold
  <2>4. mid = more
    BY <1>5, <2>1
  <2> HIDE DEF more, mid
  <2> QED
    BY <2>1, <2>3, <2>4
<1>6. /\ mid \in Seq(Events) /\ Told(mid, seen) /\ Kept(mid, FinalEvents) = <<>>
      /\ Kept(mid, ChangeEvents) = <<>> => seen[1] = state
      /\ monitor.last = "none" => Kept(mid, ChangeEvents) = <<>>
  <2> HIDE DEF mid, seen, Events, ChangeEvents, FinalEvents
  <2>1. CASE silent
    BY <1>1, <1>2, <1>4, <2>1
  <2>2. CASE ~silent
    BY <1>2, <1>5, <2>2
  <2> QED
    BY <2>1, <2>2
<1> QED
    BY <1>3, <1>6, Zenon

\* The types of what a step of the monitor writes.
MonitorRecords == [cfg : Backpressure, last : TxStates \cup {"none"}, failures : Nat, cycle : Nat,
                   done : BOOLEAN]

\* The end of a run keeps the invariant.
LEMMA FinishSound ==
    ASSUME MonitoringConstants, MonitorInv, ~monitor.done, NEW state \in {"Failed", "Completed"},
           Finish(state)
    PROVE  MonitorInv'
<1> DEFINE silent == monitor.last = "none"
           mid == emitted \o (IF silent THEN <<>> ELSE Changed(monitor.last, state))
           seen == Append(observed, state)
<1>1. state \in TxStates /\ silent \in BOOLEAN
    BY DEF MonitoringConstants
<1>2. /\ mid \in Seq(Events) /\ Told(mid, seen) /\ Kept(mid, FinalEvents) = <<>>
      /\ Kept(mid, ChangeEvents) = <<>> => seen[1] = state
      /\ seen \in Seq(TxStates) /\ Last(seen) = state /\ seen # <<>>
    BY <1>1, StorySoFar
<1>3. emitted' = mid \o Ended(state) /\ observed' = seen
    BY DEF Finish
<1> HIDE DEF mid, seen
<1>4. /\ emitted' \in Seq(Events)
      /\ Kept(emitted', ChangeEvents) = Kept(mid, ChangeEvents)
      /\ Len(Kept(emitted', FinalEvents)) = 1 /\ Last(emitted') = Kept(emitted', FinalEvents)[1]
  <2> HIDE DEF Events, ChangeEvents, FinalEvents
  <2> QED
    BY <1>2, <1>3, EndTold
<1>5. Told(emitted', observed')
    BY <1>2, <1>3, <1>4 DEF Told
<1>6. monitor' \in MonitorRecords /\ monitor'.cfg = monitor.cfg /\ monitor'.done
  <2>1. monitor \in MonitorRecords
    BY DEF MonitorInv, MonitorRecords
  <2> QED
    BY <2>1 DEF Finish, MonitorRecords
<1>7. /\ transitions' \in Seq(Moves) /\ Chained(transitions')
      /\ transitions' # <<>> => Last(transitions').to = state
      /\ monitor.cfg.max > 0 => Len(transitions') <= monitor.cfg.max
  <2>1. CASE silent
    <3>1. transitions' = transitions /\ transitions = <<>>
      BY <2>1 DEF Finish, MonitorInv
    <3> QED
      BY <3>1 DEF MonitorInv
  <2>2. CASE ~silent
    <3>1. transitions' = WithTransition(monitor.last, state)
      BY <2>2 DEF Finish
    <3>2. monitor.last \in TxStates /\ (transitions # <<>> => Last(transitions).to = monitor.last)
      BY <2>2 DEF MonitorInv
    <3> QED
      BY <1>1, <3>1, <3>2, RecordedMove
  <2> QED
    BY <2>1, <2>2
<1> HIDE DEF silent, Moves, Events, FinalEvents, ChangeEvents
<1> QED
    BY <1>2, <1>3, <1>4, <1>5, <1>6, <1>7 DEF MonitorInv, MonitorRecords

\* So does a poll that finds the transaction in progress.
LEMMA PendingSound ==
    ASSUME MonitoringConstants, MonitorInv, NEW state \in TxStates, PollPending(state)
    PROVE  MonitorInv'
<1> DEFINE silent == monitor.last \in {"none", state}
           mid == emitted \o (IF silent THEN <<>> ELSE Changed(monitor.last, state))
           seen == Append(observed, state)
<1>1. ~monitor.done /\ silent \in BOOLEAN
    BY DEF PollPending
<1>2. /\ mid \in Seq(Events) /\ Told(mid, seen) /\ Kept(mid, FinalEvents) = <<>>
      /\ Kept(mid, ChangeEvents) = <<>> => seen[1] = state
      /\ seen \in Seq(TxStates) /\ Last(seen) = state /\ seen # <<>>
    BY <1>1, StorySoFar
<1>3. emitted' = mid \o (IF state = "Failed" THEN Ended("Failed") ELSE <<>>) /\ observed' = seen
    BY DEF PollPending
<1> HIDE DEF mid, seen
<1>4. /\ emitted' \in Seq(Events)
      /\ Kept(emitted', ChangeEvents) = Kept(mid, ChangeEvents)
      /\ Len(Kept(emitted', FinalEvents)) = IF state = "Failed" THEN 1 ELSE 0
      /\ state = "Failed" => Last(emitted') = Kept(emitted', FinalEvents)[1]
  <2>1. CASE state = "Failed"
    <3>1. emitted' = mid \o Ended("Failed")
      BY <1>3, <2>1
    <3> HIDE DEF Events, ChangeEvents, FinalEvents
    <3> QED
      BY <1>2, <2>1, <3>1, EndTold
  <2>2. CASE state # "Failed"
    <3>1. emitted' = mid
      <4> HIDE DEF Events
      <4> QED
        BY <1>2, <1>3, <2>2, ConcatEmptySeq
    <3>2. Len(<<>>) = 0
      OBVIOUS
    <3> HIDE DEF Events, ChangeEvents, FinalEvents
    <3> QED
      BY <1>2, <2>2, <3>1, <3>2
  <2> QED
    BY <2>1, <2>2
<1>5. Told(emitted', observed')
    BY <1>2, <1>3, <1>4 DEF Told
<1>6. /\ monitor' \in MonitorRecords /\ monitor'.cfg = monitor.cfg /\ monitor'.last = state
      /\ monitor'.done <=> state = "Failed"
  <2>1. monitor \in MonitorRecords
    BY DEF MonitorInv, MonitorRecords
  <2>2. CASE state = "Failed"
    <3>1. monitor' = [monitor EXCEPT !.failures = 0, !.cycle = @ + 1, !.done = TRUE, !.last = state]
      BY <2>2 DEF PollPending
    <3>3. monitor.cycle + 1 \in Nat /\ state \in TxStates \cup {"none"}
      BY <2>1 DEF MonitorRecords
    <3>4. monitor'.cfg = monitor.cfg /\ monitor'.last = state
      BY <2>1, <3>1 DEF MonitorRecords
    <3>5. monitor' \in MonitorRecords
      BY <2>1, <3>1, <3>3 DEF MonitorRecords
    <3>2. monitor'.done
      BY <2>1, <3>1 DEF MonitorRecords
    <3> QED
      BY <2>2, <3>2, <3>4, <3>5
  <2>3. CASE state # "Failed"
    <3>1. monitor' = [monitor EXCEPT !.failures = 0, !.cycle = @ + 1, !.done = FALSE, !.last = state]
      BY <2>3 DEF PollPending
    <3>3. monitor.cycle + 1 \in Nat /\ state \in TxStates \cup {"none"}
      BY <2>1 DEF MonitorRecords
    <3>4. monitor'.cfg = monitor.cfg /\ monitor'.last = state
      BY <2>1, <3>1 DEF MonitorRecords
    <3>5. monitor' \in MonitorRecords
      BY <2>1, <3>1, <3>3 DEF MonitorRecords
    <3>2. ~monitor'.done
      BY <2>1, <3>1 DEF MonitorRecords
    <3> QED
      BY <2>3, <3>2, <3>4, <3>5
  <2> QED
    BY <2>2, <2>3
<1>7. /\ transitions' \in Seq(Moves) /\ Chained(transitions')
      /\ transitions' # <<>> => Last(transitions').to = state
      /\ monitor.cfg.max > 0 => Len(transitions') <= monitor.cfg.max
  <2>1. monitor.last # "none" /\ transitions # <<>> => Last(transitions).to = monitor.last
    BY <1>1 DEF MonitorInv
  <2>2. monitor.last = "none" => transitions = <<>>
    BY <1>1 DEF MonitorInv
  <2>3. CASE monitor.last = state /\ monitor.last # "none"
    <3>1. transitions' = transitions
      BY <2>3 DEF PollPending
    <3> QED
      BY <2>1, <2>3, <3>1 DEF MonitorInv
  <2>4. CASE monitor.last = "none"
    <3>1. "none" # state /\ "Pending" \in TxStates
      BY DEF MonitoringConstants
    <3>2. transitions' = WithTransition("Pending", state)
      BY <2>4, <3>1 DEF PollPending
    <3> QED
      BY <2>2, <2>4, <3>1, <3>2, RecordedMove
  <2>5. CASE monitor.last # state /\ monitor.last # "none"
    <3>1. transitions' = WithTransition(monitor.last, state)
      BY <2>5 DEF PollPending
    <3>2. monitor.last \in TxStates
      BY <2>5 DEF MonitorInv
    <3> QED
      BY <2>1, <2>5, <3>1, <3>2, RecordedMove
  <2> QED
    BY <2>3, <2>4, <2>5
<1>8. state # "none"
    BY DEF MonitoringConstants
<1> HIDE DEF silent, Moves, Events, FinalEvents, ChangeEvents
<1> QED
    BY <1>2, <1>3, <1>4, <1>5, <1>6, <1>7, <1>8 DEF MonitorInv, MonitorRecords

\* What a failed poll or a cleared history leaves.
LEMMA MonitorSteps ==
    ASSUME MonitoringConstants, MonitorInv, MonitorNext
    PROVE  MonitorInv'
<1>1. ASSUME NEW state \in {"Failed", "Completed"}, PollEnds(state) PROVE MonitorInv'
    BY <1>1, FinishSound DEF PollEnds
<1>2. ASSUME PollFails PROVE MonitorInv'
  <2>1. CASE Finish("Failed")
    BY <1>2, <2>1, FinishSound DEF PollFails
  <2>2. CASE /\ monitor' = [monitor EXCEPT !.failures = @ + 1]
             /\ UNCHANGED <<transitions, emitted, observed>>
    <3>2. monitor \in MonitorRecords
      BY DEF MonitorInv, MonitorRecords
    <3>1. /\ monitor' \in MonitorRecords /\ monitor'.cfg = monitor.cfg /\ monitor'.last = monitor.last
          /\ monitor'.done = monitor.done
      BY <2>2, <3>2 DEF MonitorRecords
    <3> HIDE DEF Moves, Events, FinalEvents, ChangeEvents
    <3> QED
      BY <2>2, <3>1 DEF MonitorInv, MonitorRecords
  <2> QED
    BY <1>2, <2>1, <2>2 DEF PollFails
<1>3. ASSUME NEW state \in TxStates, PollPending(state) PROVE MonitorInv'
    BY <1>3, PendingSound
<1>4. ASSUME ClearTransitions PROVE MonitorInv'
  <2>1. transitions' = <<>> /\ UNCHANGED <<monitor, emitted, observed>>
    BY <1>4 DEF ClearTransitions
  <2>2. <<>> \in Seq(Moves) /\ Chained(<<>>) /\ Len(<<>>) = 0
    BY DEF Chained
  <2>3. monitor.cfg.max > 0 => 0 <= monitor.cfg.max
    BY DEF MonitorInv, MonitoringConstants
  <2> HIDE DEF Moves, Events, FinalEvents, ChangeEvents
  <2> QED
    BY <2>1, <2>2, <2>3 DEF MonitorInv
<1> QED
    BY <1>1, <1>2, <1>3, <1>4 DEF MonitorNext

\* What the monitor writes is the story it was told.
LEMMA MonitorTells ==
    ASSUME MonitorInv
    PROVE  MonitorTellsTheStory
<1> HIDE DEF Moves, Events, FinalEvents, ChangeEvents
<1> QED
    BY DEF MonitorInv, MonitorTellsTheStory, Told, Chained

\* Silences and the router, in every step.
LEMMA SilenceSteps ==
    ASSUME MonitoringConstants, SilenceInv, router \in RouterConfigs, AlertNext
    PROVE  SilenceInv' /\ router' \in RouterConfigs
<1>1. alertTime \in Nat /\ quiet \in [Fingerprints -> Nat]
      /\ \A f \in Fingerprints : quiet[f] > alertTime => f \in DOMAIN silenced /\ silenced[f] = quiet[f]
    BY DEF SilenceInv
<1>2. router' = router
    BY DEF AlertNext, AlertTick, PurgeSilences, ShouldDeliver, Unsuppress, Suppress, ResetAlerts
<1>3. ASSUME AlertTick PROVE SilenceInv'
  <2>1. alertTime' = alertTime + 1 /\ UNCHANGED <<silenced, quiet>>
    BY <1>3 DEF AlertTick
  <2>2. \A f \in Fingerprints : quiet[f] \in Nat
    BY <1>1
  <2>3. \A f \in Fingerprints : quiet[f] > alertTime + 1 => quiet[f] > alertTime
    BY <1>1, <2>2
  <2> QED
    BY <1>1, <2>1, <2>3 DEF SilenceInv
<1>4. ASSUME PurgeSilences PROVE SilenceInv'
  <2>1. silenced' = [f \in {g \in DOMAIN silenced : silenced[g] > alertTime} |-> silenced[f]]
        /\ UNCHANGED <<alertTime, quiet>>
    BY <1>4 DEF PurgeSilences, Unexpired
  <2> QED
    BY <1>1, <2>1 DEF SilenceInv
<1>5. ASSUME NEW f \in Fingerprints, ShouldDeliver(f) PROVE SilenceInv'
  <2>1. /\ silenced' = IF f \in DOMAIN silenced /\ ~IsSuppressed(f)
                       THEN [g \in DOMAIN silenced \ {f} |-> silenced[g]] ELSE silenced
        /\ UNCHANGED <<alertTime, quiet>>
    BY <1>5 DEF ShouldDeliver
  <2>2. CASE f \in DOMAIN silenced /\ ~IsSuppressed(f)
    <3>1. ~(quiet[f] > alertTime)
      BY <1>1, <2>2 DEF IsSuppressed
    <3> QED
      BY <1>1, <2>1, <2>2, <3>1 DEF SilenceInv
  <2>3. CASE ~(f \in DOMAIN silenced /\ ~IsSuppressed(f))
    BY <1>1, <2>1, <2>3 DEF SilenceInv
  <2> QED
    BY <2>2, <2>3
<1>6. ASSUME NEW f \in Fingerprints, Unsuppress(f) PROVE SilenceInv'
  <2>1. /\ silenced' = [g \in DOMAIN silenced \ {f} |-> silenced[g]]
        /\ quiet' = [quiet EXCEPT ![f] = 0] /\ alertTime' = alertTime
    BY <1>6 DEF Unsuppress
  <2>2. quiet' \in [Fingerprints -> Nat] /\ quiet'[f] = 0
        /\ \A g \in Fingerprints : g # f => quiet'[g] = quiet[g]
    BY <1>1, <2>1
  <2> QED
    BY <1>1, <2>1, <2>2 DEF SilenceInv
<1>7. ASSUME NEW f \in Fingerprints, NEW until \in 1..MaxAlertTime, Suppress(f, until) PROVE SilenceInv'
  <2>1. /\ silenced' = [g \in DOMAIN silenced \cup {f} |-> IF g = f THEN until ELSE silenced[g]]
        /\ quiet' = [quiet EXCEPT ![f] = until] /\ alertTime' = alertTime
    BY <1>7 DEF Suppress
  <2>2. until \in Nat
    BY DEF MonitoringConstants
  <2>3. quiet' \in [Fingerprints -> Nat] /\ quiet'[f] = until
        /\ \A g \in Fingerprints : g # f => quiet'[g] = quiet[g]
    BY <1>1, <2>1, <2>2
  <2> QED
    BY <1>1, <2>1, <2>3 DEF SilenceInv
<1>8. ASSUME NEW fs, ResetAlerts(fs) PROVE SilenceInv'
    BY <1>1, <1>8 DEF ResetAlerts, SilenceInv
<1> QED
    BY <1>1, <1>2, <1>3, <1>4, <1>5, <1>6, <1>7, <1>8 DEF AlertNext

\* Firings, in every step.
LEMMA FiringSteps ==
    ASSUME MonitoringConstants, FiringInv, AlertNext
    PROVE  FiringInv'
<1>1. ASSUME AlertTick PROVE FiringInv'
  <2>1. alertTime' \in Nat /\ UNCHANGED <<fired, delivered>>
    BY <1>1 DEF AlertTick, FiringInv
  <2> QED
    BY <2>1 DEF FiringInv, Tracked
<1>2. ASSUME UNCHANGED <<alertTime, fired, delivered>> PROVE FiringInv'
    BY <1>2 DEF FiringInv, Tracked
<1>3. ASSUME NEW f \in Fingerprints, ShouldDeliver(f) PROVE FiringInv'
    BY <1>3, DeliverySound
<1>4. ASSUME NEW fs, ResetAlerts(fs) PROVE FiringInv'
    BY <1>4, ResetSound
<1>5. ASSUME PurgeSilences \/ \E f \in Fingerprints :
                Unsuppress(f) \/ \E until \in 1..MaxAlertTime : Suppress(f, until)
      PROVE FiringInv'
    BY <1>2, <1>5 DEF PurgeSilences, Unsuppress, Suppress
<1> QED
    BY <1>1, <1>3, <1>4, <1>5 DEF AlertNext

\* An alert goes out once per window, under no silence, to each destination once.
LEMMA AlertsSound ==
    ASSUME MonitoringConstants, FiringInv, SilenceInv, router \in RouterConfigs
    PROVE  AlertsOnce
<1>1. \A f \in Fingerprints : quiet[f] > alertTime => IsSuppressed(f)
    BY DEF SilenceInv, IsSuppressed
<1>2. /\ router.rules \in Seq([severity : Severities, scope : Scopes \cup {NoScope},
                               routes : Seq(Destinations)])
      /\ router.defaults \in Seq(Destinations)
    BY DEF MonitoringConstants
<1>3. \A severity \in Severities, scope \in Scopes \cup {NoScope} :
          LET routes == Route(router, severity, scope)
              hit == {i \in DOMAIN router.rules : RuleMatches(router.rules[i], severity, scope)}
              wanted == UNION {ToSet(router.rules[i].routes) : i \in hit}
          IN  /\ IsInjective(routes)
              /\ ToSet(routes) = IF wanted = {} THEN ToSet(router.defaults) ELSE wanted
    BY <1>2, RouteSound, Zenon
<1>4. /\ \A f \in Fingerprints : \A i \in 2..Len(delivered[f]) :
            delivered[f][i] - delivered[f][i - 1] >= fired.window
      /\ MaxKeys > 0 => Cardinality(Tracked) <= MaxKeys
    BY DEF FiringInv
<1> QED
    BY <1>1, <1>3, <1>4, Zenon DEF AlertsOnce

\* The monitor tells what it polled, and an alert goes out once per window to each of
\* its destinations: MonitoringSound, for every configuration.
THEOREM MonitoringSoundHolds == MonitoringSpec => []MonitoringSound
<1> DEFINE Inv == MonitorInv /\ FiringInv /\ SilenceInv /\ router \in RouterConfigs
           Next == MonitorNext \/ AlertNext
           vars == <<monitorVars, alertVars>>
<1>1. MonitorInit /\ AlertInit => Inv
  <2> SUFFICES ASSUME MonitorInit, AlertInit PROVE Inv
    OBVIOUS
  <2>1. Chained(<<>>) /\ <<>> \in Seq(Moves) /\ <<>> \in Seq(Events) /\ <<>> \in Seq(TxStates)
    BY DEF Chained
  <2>2. Kept(<<>>, ChangeEvents) = <<>> /\ Kept(<<>>, FinalEvents) = <<>> /\ Len(<<>>) = 0
    <3>1. \A S : Kept(<<>>, S) = <<>>
      <4> SUFFICES ASSUME NEW S PROVE Kept(<<>>, S) = <<>>
        OBVIOUS
      <4>1. Len(<<>>) = 0
        OBVIOUS
      <4>2. PICK f : f[0] = <<>> /\ Kept(<<>>, S) = f[Len(<<>>)]
        BY <4>1, KeptRounds
      <4> QED
        BY <4>1, <4>2
    <3> QED
      BY <3>1
  <2>3. Told(emitted, observed)
    BY <2>1, <2>2 DEF Told, MonitorInit
  <2>4. MonitorInv
    <3>3. monitor \in [cfg : Backpressure, last : {"none"}, failures : {0}, cycle : {0}, done : {FALSE}]
      BY DEF MonitorInit
    <3>1. monitor \in MonitorRecords /\ monitor.last = "none" /\ monitor.done = FALSE
      <4>1. monitor.last = "none"
        BY <3>3
      <4>2. monitor.done = FALSE
        BY <3>3, Zenon
      <4>3. monitor \in MonitorRecords
        <5>1. PICK c \in Backpressure :
                monitor = [cfg |-> c, last |-> "none", failures |-> 0, cycle |-> 0, done |-> FALSE]
          BY <3>3
        <5> QED
          BY <5>1 DEF MonitorRecords
      <4> QED
        BY <4>1, <4>2, <4>3
    <3>2. monitor.cfg.max > 0 => 0 <= monitor.cfg.max
      <4>1. monitor.cfg \in [max : Nat, updates : BOOLEAN, polls : BOOLEAN]
        BY <3>3, MonitoringConstants DEF MonitoringConstants
      <4> QED
        BY <4>1
    <3> HIDE DEF Moves, Events, FinalEvents, ChangeEvents
    <3> QED
      BY <2>1, <2>2, <2>3, <3>1, <3>2 DEF MonitorInit, MonitorInv, MonitorRecords
  <2>5. fired \in [window : Nat, at : Firings] /\ Tracked = {}
    <3>1. PICK w \in AlertWindows : fired = [window |-> w, at |-> [f \in {} |-> 0]]
      BY DEF AlertInit
    <3>2. [f \in {} |-> 0] \in Firings
      BY DEF Firings
    <3> QED
      BY <3>1, <3>2, MonitoringConstants DEF MonitoringConstants, Tracked
  <2>6. FiringInv
    <3>1. IsFiniteSet({}) /\ Cardinality({}) = 0 /\ 2..Len(<<>>) = {}
      BY FS_EmptySet
    <3>2. delivered \in [Fingerprints -> Seq(Nat)] /\ \A f \in Fingerprints : delivered[f] = <<>>
      BY DEF AlertInit
    <3>3. MaxKeys > 0 => 0 <= MaxKeys
      BY MonitoringConstants DEF MonitoringConstants
    <3> QED
      BY <2>5, <3>1, <3>2, <3>3 DEF AlertInit, FiringInv
  <2>7. SilenceInv
    BY DEF AlertInit, SilenceInv
  <2> QED
    BY <2>4, <2>6, <2>7 DEF AlertInit
<1>2. Inv /\ [Next]_vars => Inv'
  <2> SUFFICES ASSUME Inv, [Next]_vars PROVE Inv'
    OBVIOUS
  <2>1. CASE MonitorNext
    <3>1. MonitorInv'
      BY <2>1, MonitorSteps, MonitoringConstants
    <3>2. UNCHANGED alertVars
      BY <2>1 DEF MonitorNext, PollEnds, PollFails, PollPending, ClearTransitions
    <3> QED
      BY <3>1, <3>2 DEF alertVars, FiringInv, Tracked, SilenceInv
  <2>2. CASE AlertNext
    <3>1. FiringInv' /\ SilenceInv' /\ router' \in RouterConfigs
      BY <2>2, FiringSteps, SilenceSteps, MonitoringConstants
    <3>2. UNCHANGED monitorVars
      BY <2>2 DEF AlertNext, AlertTick, PurgeSilences, ShouldDeliver, Unsuppress, Suppress, ResetAlerts
    <3> QED
      BY <3>1, <3>2 DEF monitorVars, MonitorInv
  <2>3. CASE UNCHANGED vars
    BY <2>3 DEF monitorVars, alertVars, MonitorInv, FiringInv, Tracked, SilenceInv
  <2> QED
    BY <2>1, <2>2, <2>3
<1>3. Inv => MonitoringSound
    BY MonitorTells, AlertsSound, MonitoringConstants DEF MonitoringSound
<1> HIDE DEF Inv
<1> QED
    BY <1>1, <1>2, <1>3, PTL DEF MonitoringSpec
=============================================================================
