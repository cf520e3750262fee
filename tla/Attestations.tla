---------------------------- MODULE Attestations ----------------------------
(***************************************************************************)
(* Attestation submission (src/contract.rs): the five submission paths,    *)
(* the replay keys USED and SESSREQ, the attestation counter and its index,*)
(* and the replay metrics of src/replay_detection.rs.  The module composes *)
(* Sessions, RateLimiter and AttestorKeys, the abstract registry.  Whether *)
(* the issuer is the admin, which role it holds and the KYC status of the  *)
(* subject are read, never written, by these calls and are inputs.  A      *)
(* signature is represented by the key that made it.                       *)
(***************************************************************************)
EXTENDS AttestorKeys, Sessions, RateLimiter, FiniteSets, FiniteSetsExt, Sequences

CONSTANTS
    Hash,       \* payload hashes
    NoId,       \* a USED entry that has not been written
    MaxId       \* u64::MAX of the attestation counter

ASSUME AttestationConstants ==
    /\ NoId \notin Nat
    /\ MaxId \in Nat
    /\ "attest" \in Kinds

VARIABLES
    counter,       \* COUNTER
    attestations,  \* ATTEST: id -> attestation, ids from 0
    idIndex,       \* ATIDX
    used,          \* USED: issuer, hash -> id
    sessReq,       \* SESSREQ: pairs <<session, hash>>
    accepted,      \* accepted_events of REPLAYM
    calls          \* submission calls so far (ghost)

attStore == <<counter, attestations, idIndex, used, sessReq, accepted>>
attVars == <<attStore, calls>>
allVars == <<pubkey, sessVars, rlVars, attVars>>

AttInit ==
    /\ KeysInit
    /\ SessInit
    /\ RlInit
    /\ counter = 0
    /\ attestations = <<>>
    /\ idIndex = <<>>
    /\ used = [a \in Addr |-> [h \in Hash |-> NoId]]
    /\ sessReq = {}
    /\ accepted = 0
    /\ calls = 0

-----------------------------------------------------------------------------
\* verify_attestation_signature; an address without a key never passes, so
\* this subsumes check_attestor.
SignedBy(issuer, sig) == sig # NoKey /\ pubkey[issuer] = sig

\* A bug NothingReplayed must catch: only the latest submission is compared.
FreshByLatest(issuer, h) == used[issuer][h] # counter - 1

Fresh(issuer, h) == used[issuer][h] = NoId

\* A bug StoresInStep must catch: one id for a whole batch.
OneIdPerCall(n) == counter + n <= MaxId /\ counter' = counter + 1

\* next_attestation_id, n times: checked_add, so the call fails at the limit.
NextAttestationIds(n) == counter + n <= MaxId /\ counter' = counter + n

\* The ids of the entries for the pair, counted from 1 within the call.
Positions(entries, a, h) ==
    {i \in 1..Len(entries) : entries[i].issuer = a /\ entries[i].hash = h}

\* A bug StoresInStep must catch: the key holds the id after this one.
MarkUsedNext(entries) ==
    used' = [a \in Addr |-> [h \in Hash |->
               IF Positions(entries, a, h) = {} THEN used[a][h]
               ELSE counter + Max(Positions(entries, a, h))]]

\* The USED key of each entry, in order: the last write to a key wins.
MarkUsed(entries) ==
    used' = [a \in Addr |-> [h \in Hash |->
               IF Positions(entries, a, h) = {} THEN used[a][h]
               ELSE counter + Max(Positions(entries, a, h)) - 1]]

\* store_attestation for a sequence of entries.
StoreAll(entries) ==
    LET n == Len(entries)
    IN  /\ NextAttestationIds(n)
        /\ MarkUsed(entries)
        /\ attestations' = attestations \o
             [i \in 1..n |-> [issuer |-> entries[i].issuer,
                              hash |-> entries[i].hash,
                              key |-> entries[i].sig,
                              call |-> calls]]
        /\ idIndex' = idIndex \o [i \in 1..n |-> counter + i - 1]
        /\ calls' = calls + 1

Entry(issuer, h, sig) == [issuer |-> issuer, hash |-> h, sig |-> sig]

\* record_accepted_event.  Its counterpart record_replay_detection is called
\* only by calls that panic next, so the host discards what it writes.
CountAccepted == accepted' = accepted + 1

-----------------------------------------------------------------------------
(* The submission paths *)

\* submit_attestation, submit_with_request_id and, once its KYC gate is
\* passed, submit_attestation_kyc_check.
SubmitAttestation(issuer, h, sig, isAdmin, role) ==
    /\ SignedBy(issuer, sig)
    /\ Fresh(issuer, h)
    /\ CheckAndIncrement(issuer, isAdmin, role)
    /\ StoreAll(<<Entry(issuer, h, sig)>>)
    /\ CountAccepted
    /\ UNCHANGED <<pubkey, sessVars, sessReq>>

SubmitAttestationKycCheck(issuer, h, sig, isAdmin, role, requireKyc, status) ==
    /\ requireKyc => status = "Approved"
    /\ SubmitAttestation(issuer, h, sig, isAdmin, role)

\* Every entry is checked before any is written; the caller pays for all of
\* them, and no entry is counted as accepted.
SubmitAttestationBatch(caller, entries) ==
    /\ pubkey[caller] # NoKey
    /\ ConsumeBatch(caller, Len(entries))
    /\ \A i \in 1..Len(entries) :
         /\ SignedBy(entries[i].issuer, entries[i].sig)
         /\ Fresh(entries[i].issuer, entries[i].hash)
    /\ StoreAll(entries)
    /\ UNCHANGED <<pubkey, sessVars, sessReq, accepted>>

\* A bug NothingReplayed must catch: the SESSREQ key is not looked up.
RequestUnchecked(s, h) == sessReq' = sessReq \cup {<<s, h>>}

\* The SESSREQ key: a payload is attested once per session.
FirstRequest(s, h) ==
    /\ <<s, h>> \notin sessReq
    /\ sessReq' = sessReq \cup {<<s, h>>}

SubmitAttestationWithSession(s, issuer, h, sig, isAdmin, role) ==
    /\ SessionOp(s, issuer, "attest")
    /\ SignedBy(issuer, sig)
    /\ CheckAndIncrement(issuer, isAdmin, role)
    /\ FirstRequest(s, h)
    /\ Fresh(issuer, h)
    /\ StoreAll(<<Entry(issuer, h, sig)>>)
    /\ CountAccepted
    /\ UNCHANGED pubkey

-----------------------------------------------------------------------------
BatchEntries ==
    UNION {[1..n -> [issuer : Addr, hash : Hash, sig : Key]] : n \in 1..MaxBatch}

SubmitCall ==
    \/ \E issuer \in Addr, h \in Hash, sig \in Key :
         \/ \E isAdmin \in BOOLEAN, role \in LimitRole \cup {NoConfig} :
              \/ SubmitAttestation(issuer, h, sig, isAdmin, role)
              \/ \E requireKyc \in BOOLEAN, status \in {"Approved", "Pending"} :
                   SubmitAttestationKycCheck(issuer, h, sig, isAdmin, role,
                                             requireKyc, status)
              \/ \E s \in SessionId :
                   SubmitAttestationWithSession(s, issuer, h, sig, isAdmin, role)
    \/ \E caller \in Addr, entries \in BatchEntries :
         SubmitAttestationBatch(caller, entries)

\* The registry's side: a step of AttestorKeys, on its own or as an
\* operation of a session.
RegistryStep ==
    /\ KeysNext
    /\ \/ UNCHANGED sessVars
       \/ \E s \in SessionId, a \in Addr, kind \in Kinds \ {"attest"} :
            SessionOp(s, a, kind)
    /\ UNCHANGED <<rlVars, attVars>>

AttNext ==
    \/ SubmitCall
    \/ RegistryStep
    \/ (SessionUserCall \/ SessionAdminCall) /\ UNCHANGED <<pubkey, rlVars, attVars>>
    \/ (CloseLedger \/ ConfigureLimits) /\ UNCHANGED <<pubkey, sessVars, attVars>>

AttSpec == AttInit /\ [][AttNext]_allVars

-----------------------------------------------------------------------------
(* Properties *)

\* Types of the attestation storage of src/contract.rs.
AttTypeOK ==
    /\ counter \in 0..MaxId
    /\ attestations \in Seq([issuer : Addr, hash : Hash, key : Key, call : Nat])
    /\ idIndex \in Seq(Nat)
    /\ used \in [Addr -> [Hash -> Nat \cup {NoId}]]
    /\ sessReq \subseteq SessionId \X Hash
    /\ accepted \in Nat

\* The counter, the stored attestations and the ATIDX index stay in step, so
\* a paginated read sees every attestation exactly once, in id order, and
\* accepted_events never runs ahead of what is stored.
IndexMatchesStore ==
    /\ Len(attestations) = counter
    /\ idIndex = [i \in 1..counter |-> i - 1]
    /\ accepted <= counter

\* The replay key of an accepted pair leads to an attestation of that pair,
\* and no accepted pair lacks its key, whichever path accepted it.
UsedMatchesStore ==
    /\ \A a \in Addr, h \in Hash : used[a][h] # NoId =>
         /\ used[a][h] < counter
         /\ attestations[used[a][h] + 1].issuer = a
         /\ attestations[used[a][h] + 1].hash = h
    /\ \A i \in 1..Len(attestations) :
         used[attestations[i].issuer][attestations[i].hash] # NoId

\* The same pair is never accepted by two calls: not after the issuer's key
\* was revoked and restored, not through another path, not in a session.
NoReplayAcrossCalls ==
    \A i, j \in 1..Len(attestations) :
        /\ attestations[i].issuer = attestations[j].issuer
        /\ attestations[i].hash = attestations[j].hash
        => attestations[i].call = attestations[j].call

\* A session's nonce counts the payloads attested in it, and each of them has
\* its replay key in that session.
NonceCountsRequests ==
    \A s \in SessionId :
        Cardinality({h \in Hash : <<s, h>> \in sessReq}) = sessions[s].nonce

\* The stores of attestations stay in step, whichever path wrote them.
StoresInStep == AttTypeOK /\ IndexMatchesStore /\ UsedMatchesStore

\* Nothing is attested twice by two calls, in a session or outside.
NothingReplayed == NoReplayAcrossCalls /\ NonceCountsRequests

\* The error table reserves ReplayAttack for a "Duplicate (issuer,
\* payload_hash) pair": no pair is stored twice.
NoDuplicatePair ==
    \A i, j \in 1..Len(attestations) :
        /\ attestations[i].issuer = attestations[j].issuer
        /\ attestations[i].hash = attestations[j].hash
        => i = j
=============================================================================
