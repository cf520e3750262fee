------------------------------- MODULE MCKyc --------------------------------
(***************************************************************************)
(* Compliance and quotes under one administration.  Three parts: the       *)
(* records of one subject, with two versions of its data, a reviewer that  *)
(* may hold the role, the capability or neither, and a clock that runs     *)
(* past a cooldown of two units and an approval of one; three quotes of    *)
(* two anchors, migrated in batches of one or two; and one quote that is   *)
(* taken while the receiver's checks change.                               *)
(***************************************************************************)
EXTENDS QuoteAcceptance, TLC

CONSTANTS alice, bob, d1, d2

VARIABLE part

mcVars == <<part, govVars, kycVars, quoteVars, taken>>

MCAddr == {alice, bob}
MCData == {d1, d2}

MCInit == part \in {"kyc", "quotes", "taking"} /\ KycInit /\ QuoteInit /\ taken = NotTaken

\* Bound: outside the first part nothing is delegated, and while quotes are taken
\* there is one admin and one quote, and the KYC record is not used.
Undelegated == roles' = {} /\ caps' = {}
OneQuote == pendingAdmin' = NoAddr /\ Len(quotes') <= 1

KycPart ==
    /\ part = "kyc"
    /\ \/ KycCall /\ UNCHANGED <<govVars, quoteVars>>
       \/ GovernanceCall /\ UNCHANGED kycVars
    /\ UNCHANGED <<part, taken>>

QuotePart ==
    /\ part \in {"quotes", "taking"}
    /\ \/ QuoteCall /\ UNCHANGED <<govVars, kycVars>>
       \/ GovernanceCall /\ UNCHANGED kycVars
    /\ Undelegated
    /\ part = "taking" => OneQuote
    /\ UNCHANGED <<part, taken>>

MigratePart ==
    /\ part # "kyc"
    /\ MigrateCall
    /\ UNCHANGED <<part, govVars, kycVars, taken>>

TakingPart ==
    /\ part = "taking"
    /\ \/ TakeNext
       \/ /\ \E signer \in Addr, s \in Subject, result \in CheckResult :
                RecordComplianceCheck(signer, s, "kyc", result)
          /\ UNCHANGED <<govVars, quoteVars, taken>>
    /\ UNCHANGED part

MCNext == KycPart \/ QuotePart \/ MigratePart \/ TakingPart

\* The operator of a started upgrade keeps calling migrate, as its comment
\* asks ("The caller must invoke migrate() again to continue"), with whatever
\* batch sizes; of the anchors nothing is assumed here.
MCSpec == MCInit /\ [][MCNext]_mcVars /\ WF_mcVars(MigratePart)

-----------------------------------------------------------------------------
\* What submit_quote allows anchors to do; the bound on quotes keeps them from it in
\* this instance.
SubmissionsGoOn == []<><<Len(quotes') > Len(quotes)>>_mcVars

\* Every call of migrate brings the upgrade nearer to its commit than it was, and an
\* operator that keeps calling it reaches V2 once the contract is initialized, even
\* with batches of one, unless anchors never stop submitting: migrate returns without
\* the version as long as it leaves a quote behind (src/contract.rs:2473).
UpgradeProgress ==
    /\ [][UpgradeAdvances]_quoteVars
    /\ SubmissionsGoOn \/ (part # "kyc" /\ initialized ~> version = SchemaV2)
=============================================================================
