------------------------------ MODULE Sessions ------------------------------
(***************************************************************************)
(* Sessions and the session audit log of the AnchorKit contract            *)
(* (src/contract.rs, src/session_state_machine.rs).                        *)
(*                                                                         *)
(* A contract call is atomic: it either commits every write or panics, and *)
(* the Soroban host then discards every write and event of the call.  The  *)
(* calls that panic after having written something are actions of their    *)
(* own (Abort); the other rejected calls change nothing and are not        *)
(* distinguished from a call that was never made.                          *)
(***************************************************************************)
EXTENDS Accounts, Naturals

CONSTANTS
    NoLog,        \* an SLOG slot that has not been written
    Kinds,        \* kinds of session-scoped operations
    MaxSessions,  \* session ids are 0..MaxSessions-1 (a u64 in the code)
    MaxOps,       \* MAX_OPS_PER_SESSION
    Ttl,          \* DEFAULT_SESSION_TTL, in ledger-time units
    MaxLogId,     \* u64::MAX of the audit-log counter ACNT
    ScanLimit,    \* how many log ids one prune scans (100)
    Day,          \* time units of a retention day (86400)
    MaxRetention, \* MAX_AUDIT_LOG_RETENTION_DAYS
    MaxThreshold, \* bound: largest auto-prune threshold an admin sets
    MaxNow        \* bound: the ledger timestamp stops here

ASSUME SessionConstants ==
    /\ NoLog \notin Nat
    /\ Kinds \subseteq {"attest", "register", "revoke"}
    /\ MaxSessions \in Nat
    /\ MaxOps \in Nat \ {0}
    /\ Ttl \in Nat
    /\ MaxLogId \in Nat
    /\ ScanLimit \in Nat
    /\ Day \in Nat
    /\ MaxRetention \in Nat
    /\ MaxThreshold \in Nat
    /\ MaxNow \in Nat

VARIABLES
    now,          \* env.ledger().timestamp()
    nextSession,  \* SCNT
    sessions,     \* SESS: session id -> Session
    opCount,      \* SOPCNT: session id -> operations performed
    slog,         \* SLOG: session id, operation index -> log id
    audit,        \* AUDIT: the audit records still stored
    logCount,     \* ACNT: the next log id
    retention,    \* AUDITRET, in days; 0 is documented as unlimited
    threshold,    \* AUTOPRUNE; 0 disables the automatic prune
    outcome       \* how the latest call ended (ghost)

sessStore == <<nextSession, sessions, opCount, slog, audit, logCount,
               retention, threshold>>
sessVars == <<now, sessStore, outcome>>

SessionId == 0..(MaxSessions - 1)
OpIndex   == 0..(MaxOps - 1)

-----------------------------------------------------------------------------
(* session_state_machine.rs *)

\* "Absent" stands for a storage key that has never been written.
SessionState == {"Absent", "Created", "Active", "Exhausted", "Closed", "Expired"}

IsTerminal(state) == state \in {"Closed", "Expired", "Exhausted"}

LegalTransitions ==
    {<<"Created", "Active">>, <<"Created", "Exhausted">>,
     <<"Created", "Closed">>, <<"Active", "Closed">>, <<"Exhausted", "Closed">>,
     <<"Active", "Exhausted">>,
     <<"Created", "Expired">>, <<"Active", "Expired">>, <<"Exhausted", "Expired">>}

\* validate_transition refuses terminal sources before it reads the table.
ValidTransition(from, to) ==
    /\ from # to
    /\ ~IsTerminal(from)
    /\ <<from, to>> \in LegalTransitions

-----------------------------------------------------------------------------
Session == [state     : SessionState,
            initiator : Addr \cup {NoAddr},
            createdAt : Nat,
            nonce     : Nat]

AuditLog == [log_id    : Nat,
             session   : SessionId,
             index     : OpIndex,
             actor     : Addr,
             kind      : Kinds,
             timestamp : Nat]

\* A call that ended without an interesting panic.
Returned == [session |-> 0, wrote |-> "nothing"]

SessInit ==
    /\ now = 0
    /\ nextSession = 0
    /\ sessions = [s \in SessionId |->
                     [state |-> "Absent", initiator |-> NoAddr,
                      createdAt |-> 0, nonce |-> 0]]
    /\ opCount = [s \in SessionId |-> 0]
    /\ slog = [s \in SessionId |-> [i \in OpIndex |-> NoLog]]
    /\ audit = {}
    /\ logCount = 0
    /\ retention = 0
    /\ threshold = 0
    /\ outcome = Returned

\* The call panics after writing state `wrote` of session s: the host rolls
\* the write back, so only the ghost remembers it.
Abort(s, wrote) ==
    /\ outcome' = [session |-> s, wrote |-> wrote]
    /\ UNCHANGED <<now, sessStore>>

Exists(s)  == sessions[s].state # "Absent"
Expired(s) == now > sessions[s].createdAt + Ttl

\* Ledger time passes between calls.
Tick ==
    /\ now < MaxNow
    /\ now' = now + 1
    /\ outcome' = Returned
    /\ UNCHANGED sessStore

-----------------------------------------------------------------------------
(* Session lifecycle *)

\* A bug StateMatchesOps must catch: SCNT is read but not advanced.
CreateReusesId(initiator) ==
    /\ nextSession < MaxSessions
    /\ sessions' = [sessions EXCEPT ![nextSession] =
                      [state |-> "Created", initiator |-> initiator,
                       createdAt |-> now, nonce |-> 0]]
    /\ outcome' = Returned
    /\ UNCHANGED <<now, nextSession, opCount, slog, audit, logCount, retention,
                   threshold>>

CreateSession(initiator) ==
    /\ nextSession < MaxSessions
    /\ nextSession' = nextSession + 1
    /\ sessions' = [sessions EXCEPT ![nextSession] =
                      [state |-> "Created", initiator |-> initiator,
                       createdAt |-> now, nonce |-> 0]]
    /\ outcome' = Returned
    /\ UNCHANGED <<now, opCount, slog, audit, logCount, retention, threshold>>

CloseSession(s, initiator) ==
    /\ Exists(s)
    /\ initiator = sessions[s].initiator
    /\ ~Expired(s)
    /\ ValidTransition(sessions[s].state, "Closed")
    /\ sessions' = [sessions EXCEPT ![s].state = "Closed"]
    /\ outcome' = Returned
    /\ UNCHANGED <<now, nextSession, opCount, slog, audit, logCount,
                   retention, threshold>>

\* close_session on an expired session writes Expired, then panics.
CloseExpiredSession(s, initiator) ==
    /\ Exists(s)
    /\ initiator = sessions[s].initiator
    /\ Expired(s)
    /\ Abort(s, "Expired")

\* Bugs SessTypeOK, AuditWithinLifetime and ClosedIsFinal must catch: one of
\* the conditions of require_session_open is missing.
OpenWithoutBudget(s) ==
    /\ Exists(s)
    /\ ~Expired(s)
    /\ sessions[s].state \in {"Created", "Active"}

OpenAfterExpiry(s) ==
    /\ Exists(s)
    /\ sessions[s].state \in {"Created", "Active"}
    /\ opCount[s] < MaxOps

OpenAfterClose(s) ==
    /\ Exists(s)
    /\ ~Expired(s)
    /\ opCount[s] < MaxOps

\* require_session_open and validate_session: when an operation may proceed.
SessionOpen(s) ==
    /\ Exists(s)
    /\ ~Expired(s)
    /\ sessions[s].state \in {"Created", "Active"}
    /\ opCount[s] < MaxOps

\* require_session_open detects the expiry or the exhausted budget of a live
\* session, writes the new state, then panics.
RejectOperation(s) ==
    /\ Exists(s)
    /\ ~IsTerminal(sessions[s].state)
    /\ \/ Expired(s) /\ Abort(s, "Expired")
       \/ ~Expired(s) /\ opCount[s] >= MaxOps /\ Abort(s, "Exhausted")

\* A bug AuditTrail must catch: wrapping_add where the code has checked_add.
LogIdWraps == logCount' = (logCount + 1) % MaxLogId

\* next_audit_log_id: checked_add, so the call fails at the limit.
NextAuditLogId ==
    /\ logCount < MaxLogId
    /\ logCount' = logCount + 1

\* What every session-scoped handler does once its own checks pass: activate
\* the session, count the operation and write its audit record.  Only
\* attestations advance the nonce.
SessionOp(s, actor, kind) ==
    /\ SessionOpen(s)
    /\ NextAuditLogId
    /\ sessions' = [sessions EXCEPT
                      ![s].state = "Active",
                      ![s].nonce = IF kind = "attest" THEN @ + 1 ELSE @]
    /\ opCount' = [opCount EXCEPT ![s] = @ + 1]
    /\ slog' = [slog EXCEPT ![s][opCount[s]] = logCount]
    /\ audit' = audit \cup
                  {[log_id |-> logCount, session |-> s, index |-> opCount[s],
                    actor |-> actor, kind |-> kind, timestamp |-> now]}
    /\ outcome' = Returned
    /\ UNCHANGED <<now, nextSession, retention, threshold>>

-----------------------------------------------------------------------------
(* Retention of the audit log *)

\* prune_audit_logs_internal: one scan over the lowest log ids.
KeptBy(before) ==
    {e \in audit : ~(/\ e.log_id < logCount
                     /\ e.log_id < ScanLimit
                     /\ e.timestamp < before)}

PruneAuditLogs(before) ==
    /\ audit' = KeptBy(before)
    /\ outcome' = Returned
    /\ UNCHANGED <<now, nextSession, sessions, opCount, slog, logCount,
                   retention, threshold>>

SetAuditLogRetention(days) ==
    /\ days <= MaxRetention
    /\ retention' = days
    /\ outcome' = Returned
    /\ UNCHANGED <<now, nextSession, sessions, opCount, slog, audit, logCount,
                   threshold>>

SetAutoPruneThreshold(n) ==
    /\ threshold' = n
    /\ outcome' = Returned
    /\ UNCHANGED <<now, nextSession, sessions, opCount, slog, audit, logCount,
                   retention>>

\* timestamp.saturating_sub(retention_days * 86400)
RetentionCutoff ==
    IF now >= retention * Day THEN now - retention * Day ELSE 0

\* get_audit_log_count: a getter anyone may call, which prunes as well once
\* the log has grown past the threshold.
AutoPrune == threshold > 0 /\ logCount > threshold

GetAuditLogCount ==
    /\ AutoPrune
    /\ audit' = KeptBy(RetentionCutoff)
    /\ outcome' = Returned
    /\ UNCHANGED <<now, nextSession, sessions, opCount, slog, logCount,
                   retention, threshold>>

-----------------------------------------------------------------------------
\* Calls any account may make, and the passing of time.
SessionUserCall ==
    \/ Tick
    \/ \E a \in Addr : CreateSession(a)
    \/ \E s \in SessionId, a \in Addr :
         CloseSession(s, a) \/ CloseExpiredSession(s, a)
    \/ \E s \in SessionId : RejectOperation(s)
    \/ GetAuditLogCount

\* Calls that need the admin's signature (require_admin).
SessionAdminCall ==
    \/ \E before \in 0..MaxNow : PruneAuditLogs(before)
    \/ \E days \in 0..MaxRetention : SetAuditLogRetention(days)
    \/ \E n \in 0..MaxThreshold : SetAutoPruneThreshold(n)

\* Session-scoped operations: the handlers of AttestorRegistry and
\* Attestations each take one of these steps.
SessNext ==
    \/ SessionUserCall
    \/ SessionAdminCall
    \/ \E s \in SessionId, a \in Addr, kind \in Kinds : SessionOp(s, a, kind)

SessSpec == SessInit /\ [][SessNext]_sessVars

-----------------------------------------------------------------------------
(* Properties *)

\* Types of the session storage of src/contract.rs.
SessTypeOK ==
    /\ now \in Nat
    /\ nextSession \in 0..MaxSessions
    /\ sessions \in [SessionId -> Session]
    /\ opCount \in [SessionId -> 0..MaxOps]
    /\ slog \in [SessionId -> [OpIndex -> Nat \cup {NoLog}]]
    /\ audit \in SUBSET AuditLog
    /\ logCount \in 0..MaxLogId
    /\ retention \in 0..MaxRetention
    /\ threshold \in Nat
    /\ outcome.session \in SessionId \cup {0}
    /\ outcome.wrote \in SessionState \cup {"nothing"}

\* The two indexes of the audit trail agree: the SLOG pointers of a session
\* are exactly its first opCount operations, in increasing log-id order and
\* never shared with another session; and whatever record pruning has left
\* under a log id is the operation that pointer stands for.
SlogDense ==
    \A s \in SessionId, i \in OpIndex :
        /\ i < opCount[s] => slog[s][i] \in 0..(logCount - 1)
        /\ i >= opCount[s] => slog[s][i] = NoLog

SlogIncreasing ==
    \A s \in SessionId, i, j \in OpIndex :
        i < j /\ j < opCount[s] => slog[s][i] < slog[s][j]

SlogInjective ==
    \A s, t \in SessionId, i, j \in OpIndex :
        /\ i < opCount[s]
        /\ j < opCount[t]
        /\ slog[s][i] = slog[t][j]
        => s = t /\ i = j

AuditResolves ==
    \A e \in audit :
        /\ e.index < opCount[e.session]
        /\ slog[e.session][e.index] = e.log_id

AuditTrail == SlogDense /\ SlogIncreasing /\ SlogInjective /\ AuditResolves

\* No operation is recorded outside the lifetime of its session: its record
\* is stamped between the session's creation and its expiry.
AuditWithinLifetime ==
    \A e \in audit :
        /\ e.timestamp >= sessions[e.session].createdAt
        /\ e.timestamp <= sessions[e.session].createdAt + Ttl
        /\ e.timestamp <= now

\* The stored state tells whether the session has been used, and its nonce
\* never runs ahead of its operations: an aborted operation leaves no trace.
\* In particular the expiry or exhaustion that close_session and
\* require_session_open write "before panicking" is never what is stored.
StateMatchesOps ==
    \A s \in SessionId :
        /\ sessions[s].state \in {"Absent", "Created"} => opCount[s] = 0
        /\ sessions[s].state = "Active" => opCount[s] > 0
        /\ sessions[s].nonce <= opCount[s]
        /\ s >= nextSession <=> sessions[s].state = "Absent"
        /\ sessions[s].state \notin {"Exhausted", "Expired"}

\* A closed session is final: no later call reopens it, operates in it or
\* moves its nonce.
ClosedIsFinal ==
    [][\A s \in SessionId : sessions[s].state = "Closed" =>
          /\ sessions'[s] = sessions[s]
          /\ opCount'[s] = opCount[s]]_sessVars
=============================================================================
