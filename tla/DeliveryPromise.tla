-------------------------- MODULE DeliveryPromise --------------------------
(***************************************************************************)
(* What webhook delivery promises (src/webhook.rs): a payload handed to    *)
(* deliver_webhook is refused outright, or ends delivered or in the dead   *)
(* letter queue, never neither and never both; it is reported delivered    *)
(* only when the receiver has handled it.  A dead letter may have been     *)
(* handled too.                                                            *)
(***************************************************************************)
CONSTANT Payloads

VARIABLES
    outcome,  \* "new", "refused", "sending", "delivered" or "dead"
    handled,  \* payloads the receiver has handled
    letters   \* payloads in the dead letter queue

promiseVars == <<outcome, handled, letters>>

PromiseInit ==
    /\ outcome = [p \in Payloads |-> "new"]
    /\ handled = {}
    /\ letters = {}

Start(p) ==
    /\ outcome[p] = "new"
    /\ outcome' = [outcome EXCEPT ![p] = "sending"]
    /\ UNCHANGED <<handled, letters>>

\* The delivery is turned down before anything is sent.
Decline(p) ==
    /\ outcome[p] = "new"
    /\ outcome' = [outcome EXCEPT ![p] = "refused"]
    /\ UNCHANGED <<handled, letters>>

\* Also after the sender has given up: the request was only late.
Handle(p) ==
    /\ outcome[p] \notin {"new", "refused"}
    /\ handled' = handled \cup {p}
    /\ UNCHANGED <<outcome, letters>>

Succeed(p) ==
    /\ outcome[p] = "sending" /\ p \in handled
    /\ outcome' = [outcome EXCEPT ![p] = "delivered"]
    /\ UNCHANGED <<handled, letters>>

GiveUp(p) ==
    /\ outcome[p] = "sending"
    /\ outcome' = [outcome EXCEPT ![p] = "dead"]
    /\ letters' = letters \cup {p}
    /\ UNCHANGED handled

PromiseNext == \E p \in Payloads : Start(p) \/ Decline(p) \/ Handle(p) \/ Succeed(p) \/ GiveUp(p)

\* What no delivery may ever do.
PromiseSafety == PromiseInit /\ [][PromiseNext]_promiseVars

\* Every delivery that starts ends.
PromiseSpec ==
    /\ PromiseSafety
    /\ \A p \in Payloads : WF_promiseVars(Succeed(p) \/ GiveUp(p))
=============================================================================
