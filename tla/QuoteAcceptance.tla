-------------------------- MODULE QuoteAcceptance --------------------------
(***************************************************************************)
(* Taking a quote: receive_quote and accept_quote_with_compliance of       *)
(* src/contract.rs, which read the quotes and the latest compliance check  *)
(* of the receiver.  Neither writes anything but an event.                 *)
(***************************************************************************)
EXTENDS Kyc, Quotes

CONSTANT NotTaken

ASSUME KycIsACheck == "kyc" \in CheckType

VARIABLE taken    \* ghost: the last quote that was taken, as it was then

\* The compliance checks of type "kyc" recorded so far.
KycChecks(receiver) == history[receiver]["kyc"]

Take(receiver, id, way) ==
    /\ id \in 1..Len(quotes)
    /\ taken' = [receiver |-> receiver, id |-> id, way |-> way, at |-> time,
                 lifecycle |-> quotes[id].lifecycle, checks |-> Len(KycChecks(receiver))]
    /\ UNCHANGED <<govVars, kycVars, quoteVars>>

\* receive_quote
ReceiveQuote(receiver, id) == Take(receiver, id, "received")

\* A bug TakenSoundly must catch: a quote is good at the end of its validity.
AcceptAtTheEnd(receiver, id, gated) ==
    /\ id \in 1..Len(quotes) /\ quotes[id].validUntil >= time
    /\ gated => latest[receiver]["kyc"] = "passed"
    /\ Take(receiver, id, IF gated THEN "checked" ELSE "accepted")

AcceptQuoteWithCompliance(receiver, id, gated) ==
    /\ id \in 1..Len(quotes) /\ quotes[id].validUntil > time
    /\ gated => latest[receiver]["kyc"] = "passed"
    /\ Take(receiver, id, IF gated THEN "checked" ELSE "accepted")

TakeNext ==
    \E receiver \in Subject, id \in 1..MaxQuotes :
        \/ ReceiveQuote(receiver, id)
        \/ \E gated \in BOOLEAN : AcceptQuoteWithCompliance(receiver, id, gated)

-----------------------------------------------------------------------------
(* The contract with its records, its quotes and the calls that take them *)

takingVars == <<govVars, kycVars, quoteVars, taken>>

TakingInit == KycInit /\ QuoteInit /\ taken = NotTaken

TakingNext ==
    \/ KycCall /\ UNCHANGED <<govVars, quoteVars, taken>>
    \/ (QuoteCall \/ MigrateCall) /\ UNCHANGED <<govVars, kycVars, taken>>
    \/ GovernanceCall /\ UNCHANGED <<kycVars, taken>>
    \/ TakeNext

TakingSpec == TakingInit /\ [][TakingNext]_takingVars

-----------------------------------------------------------------------------
(* Properties *)

\* A quote that was accepted was within its validity, whatever was migrated since; and
\* if that was asked for, the last check of its receiver up to then had been passed.
TakenSoundly ==
    taken # NotTaken =>
        /\ taken.way # "received" => taken.at < quotes[taken.id].validUntil
        /\ taken.way = "checked" =>
             taken.checks > 0 /\ KycChecks(taken.receiver)[taken.checks] = "passed"

\* "Invalidated quotes are excluded from routing candidate selection and cannot be
\* received."  No call that takes a quote looks at its lifecycle state.
InvalidatedNotTaken == taken # NotTaken => taken.lifecycle = "Active"
=============================================================================
