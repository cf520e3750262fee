--------------------------- MODULE SessionsProofs ---------------------------
(***************************************************************************)
(* Proofs about Sessions, for any number of sessions, any budgets, limits  *)
(* and time-to-live.  The invariants that the runs check are not inductive *)
(* one by one: a record stays within the lifetime of its session only      *)
(* because a created session has no records (StateMatchesOps, AuditTrail), *)
(* and the pointers stay apart only because all of them lie below the      *)
(* counter.  Their conjunction SessInv is inductive.                       *)
(***************************************************************************)
EXTENDS Sessions, TLAPS

\* No session is created in the future: ledger time never goes back.
CreatedInPast == \A s \in SessionId : sessions[s].createdAt <= now

SessInv ==
    /\ SessTypeOK
    /\ CreatedInPast
    /\ AuditTrail
    /\ AuditWithinLifetime
    /\ StateMatchesOps

-----------------------------------------------------------------------------
\* The initial storage satisfies the invariant.
LEMMA SessInvInit == SessInit => SessInv
<1> SUFFICES ASSUME SessInit PROVE SessInv
    OBVIOUS
<1> USE SessionConstants DEF SessionConstants, SessInit
<1>1. SessTypeOK
    BY DEF SessTypeOK, Session, SessionState, Returned
<1>2. AuditTrail
    BY DEF AuditTrail, SlogDense, SlogIncreasing, SlogInjective, AuditResolves,
           SessionId, OpIndex
<1>3. AuditWithinLifetime
    BY DEF AuditWithinLifetime
<1>4. StateMatchesOps
    BY DEF StateMatchesOps, SessionId
<1>5. CreatedInPast
    BY DEF CreatedInPast
<1> QED
    BY <1>1, <1>2, <1>3, <1>4, <1>5 DEF SessInv

-----------------------------------------------------------------------------
\* An operation of an open session keeps the storage well typed.
LEMMA SessionOpTyped ==
    ASSUME SessTypeOK, NEW s \in SessionId, NEW a \in Addr, NEW kind \in Kinds,
           SessionOp(s, a, kind)
    PROVE  SessTypeOK'
<1> USE SessionConstants DEF SessionConstants
<1>1. opCount[s] \in OpIndex /\ opCount[s] + 1 \in 0..MaxOps
  <2>1. opCount[s] \in 0..MaxOps /\ opCount[s] < MaxOps /\ MaxOps \in Nat
      BY DEF SessTypeOK, SessionOp, SessionOpen
  <2> QED
      BY <2>1 DEF OpIndex
<1>2. sessions' \in [SessionId -> Session]
  <2> DEFINE n == IF kind = "attest" THEN sessions[s].nonce + 1 ELSE sessions[s].nonce
             r == [sessions[s] EXCEPT !.state = "Active", !.nonce = n]
  <2>1. sessions[s] \in Session
      BY DEF SessTypeOK
  <2>n. n \in Nat
      BY <2>1 DEF Session
  <2>2. r \in Session
    <3> HIDE DEF n
    <3> QED
        BY <2>1, <2>n DEF Session, SessionState
  <2>3. sessions' = [sessions EXCEPT ![s] = r]
      BY <2>1 DEF SessionOp, SessTypeOK, Session
  <2> QED
      BY <2>2, <2>3 DEF SessTypeOK
<1>3. opCount' \in [SessionId -> 0..MaxOps]
    BY <1>1 DEF SessTypeOK, SessionOp
<1>4. slog' \in [SessionId -> [OpIndex -> Nat \cup {NoLog}]]
    BY <1>1 DEF SessTypeOK, SessionOp
<1>5. audit' \in SUBSET AuditLog
    BY <1>1 DEF SessTypeOK, SessionOp, AuditLog
<1>6. logCount' \in 0..MaxLogId
    BY DEF SessTypeOK, SessionOp, NextAuditLogId
<1> QED
    BY <1>2, <1>3, <1>4, <1>5, <1>6 DEF SessTypeOK, SessionOp, Returned

\* The other session calls keep the storage well typed.
LEMMA UserCallTyped == SessTypeOK /\ SessionUserCall => SessTypeOK'
<1> SUFFICES ASSUME SessTypeOK, SessionUserCall PROVE SessTypeOK'
    OBVIOUS
<1> USE SessionConstants DEF SessionConstants, SessTypeOK, Returned
<1>1. CASE Tick
    BY <1>1 DEF Tick, sessStore
<1>2. ASSUME NEW a \in Addr, CreateSession(a) PROVE SessTypeOK'
  <2>1. nextSession \in SessionId /\ nextSession + 1 \in 0..MaxSessions
      BY <1>2 DEF CreateSession, SessionId
  <2>2. [state |-> "Created", initiator |-> a, createdAt |-> now, nonce |-> 0] \in Session
      BY DEF Session, SessionState
  <2> QED
      BY <1>2, <2>1, <2>2 DEF CreateSession
<1>3. ASSUME NEW s \in SessionId, NEW a \in Addr, CloseSession(s, a) PROVE SessTypeOK'
    BY <1>3 DEF CloseSession, Session, SessionState
<1>4. ASSUME NEW s \in SessionId, NEW a \in Addr, CloseExpiredSession(s, a)
      PROVE  SessTypeOK'
    BY <1>4 DEF CloseExpiredSession, Abort, sessStore, SessionState
<1>5. ASSUME NEW s \in SessionId, RejectOperation(s) PROVE SessTypeOK'
    BY <1>5 DEF RejectOperation, Abort, sessStore, SessionState
<1>6. CASE GetAuditLogCount
    BY <1>6 DEF GetAuditLogCount, KeptBy
<1> QED
    BY <1>1, <1>2, <1>3, <1>4, <1>5, <1>6 DEF SessionUserCall

\* Pruning and the settings of the log keep the types.
LEMMA AdminCallTyped == SessTypeOK /\ SessionAdminCall => SessTypeOK'
    BY SessionConstants
    DEF SessionConstants, SessTypeOK, SessionAdminCall, PruneAuditLogs, KeptBy,
        SetAuditLogRetention, SetAutoPruneThreshold, Returned

\* Every call keeps the types.
LEMMA SessTypeStep == SessTypeOK /\ [SessNext]_sessVars => SessTypeOK'
<1>1. ASSUME SessTypeOK, UNCHANGED sessVars PROVE SessTypeOK'
    BY <1>1 DEF SessTypeOK, sessVars, sessStore
<1> QED
    BY <1>1, SessionOpTyped, UserCallTyped, AdminCallTyped DEF SessNext

\* Type correctness of the session storage, for every instance.
THEOREM SessTypeCorrect == SessSpec => []SessTypeOK
<1>1. SessInit => SessTypeOK
    BY SessInvInit DEF SessInv
<1> QED
    BY <1>1, SessTypeStep, PTL DEF SessSpec

-----------------------------------------------------------------------------
(* The audit trail *)

\* A step that leaves the pointers and the counters alone and adds no record
\* preserves the audit trail: this covers every action but SessionOp.
LEMMA TrailKept ==
    ASSUME AuditTrail, UNCHANGED <<opCount, slog, logCount>>, audit' \subseteq audit
    PROVE  AuditTrail'
    BY DEF AuditTrail, SlogDense, SlogIncreasing, SlogInjective, AuditResolves

\* The pointer SessionOp writes is the counter itself, above every other one.
LEMMA SessionOpTrail ==
    ASSUME SessTypeOK, SessTypeOK', AuditTrail,
           NEW s \in SessionId, NEW a \in Addr, NEW kind \in Kinds,
           SessionOp(s, a, kind)
    PROVE  AuditTrail'
<1> USE SessionConstants DEF SessionConstants
<1> DEFINE k == opCount[s]
<1>1. k \in OpIndex /\ k \in Nat /\ k < MaxOps
    BY DEF SessTypeOK, SessionOp, SessionOpen, OpIndex
<1>2. /\ logCount \in Nat
      /\ logCount' = logCount + 1
    BY DEF SessTypeOK, SessionOp, NextAuditLogId
<1>3. \A t \in SessionId : /\ opCount[t] \in Nat
                            /\ opCount'[t] = IF t = s THEN k + 1 ELSE opCount[t]
    BY DEF SessTypeOK, SessionOp
<1>4. \A t \in SessionId, i \in OpIndex :
         slog'[t][i] = IF t = s /\ i = k THEN logCount ELSE slog[t][i]
    BY <1>1 DEF SessTypeOK, SessionOp
<1>5. \A i \in OpIndex : i \in Nat
    BY DEF OpIndex
<1>6. \A t \in SessionId, i \in OpIndex :
         i < opCount[t] => slog[t][i] \in Nat /\ slog[t][i] < logCount
    BY <1>2, <1>3, <1>5 DEF AuditTrail, SlogDense
<1>7. SlogDense'
    BY <1>1, <1>2, <1>3, <1>4, <1>5, <1>6 DEF AuditTrail, SlogDense
<1>8. SlogIncreasing'
    BY <1>1, <1>2, <1>3, <1>4, <1>5, <1>6 DEF AuditTrail, SlogIncreasing
<1>9. SlogInjective'
    BY <1>1, <1>2, <1>3, <1>4, <1>5, <1>6 DEF AuditTrail, SlogInjective
<1>10. AuditResolves'
  <2> SUFFICES ASSUME NEW e \in audit'
               PROVE  e.index < opCount'[e.session] /\ slog'[e.session][e.index] = e.log_id
      BY DEF AuditResolves
  <2>1. CASE e \in audit
    <3>1. e.session \in SessionId /\ e.index \in OpIndex
        BY <2>1 DEF SessTypeOK, AuditLog
    <3>2. e.index < opCount[e.session] /\ slog[e.session][e.index] = e.log_id
        BY <2>1 DEF AuditTrail, AuditResolves
    <3> QED
        BY <1>1, <1>3, <1>4, <1>5, <3>1, <3>2
  <2>2. CASE e = [log_id |-> logCount, session |-> s, index |-> k,
                  actor |-> a, kind |-> kind, timestamp |-> now]
      BY <1>1, <1>3, <1>4, <2>2
  <2> QED
      BY <2>1, <2>2 DEF SessionOp
<1> QED
    BY <1>7, <1>8, <1>9, <1>10 DEF AuditTrail

\* Every call, a prune included, keeps the audit trail resolvable.
LEMMA TrailStep ==
    ASSUME SessTypeOK, SessTypeOK', AuditTrail, [SessNext]_sessVars
    PROVE  AuditTrail'
<1>1. ASSUME NEW s \in SessionId, NEW a \in Addr, NEW kind \in Kinds,
             SessionOp(s, a, kind)
      PROVE  AuditTrail'
    BY <1>1, SessionOpTrail
<1>2. CASE SessionUserCall
    BY <1>2, TrailKept
    DEF SessionUserCall, Tick, CreateSession, CloseSession, CloseExpiredSession,
        RejectOperation, Abort, GetAuditLogCount, KeptBy, sessStore
<1>3. CASE SessionAdminCall
    BY <1>3, TrailKept
    DEF SessionAdminCall, PruneAuditLogs, KeptBy, SetAuditLogRetention,
        SetAutoPruneThreshold
<1>4. CASE UNCHANGED sessVars
    BY <1>4, TrailKept DEF sessVars, sessStore
<1> QED
    BY <1>1, <1>2, <1>3, <1>4 DEF SessNext

-----------------------------------------------------------------------------
(* Records and the lifetime of their session *)

\* The stored state of a session against its operations and its id.
LEMMA StateStep ==
    ASSUME SessTypeOK, StateMatchesOps, [SessNext]_sessVars
    PROVE  StateMatchesOps'
<1> USE SessionConstants DEF SessionConstants
<1>0. /\ nextSession \in Nat
      /\ \A t \in SessionId : /\ t \in Nat
                              /\ opCount[t] \in Nat
                              /\ sessions[t] \in Session
                              /\ sessions[t].nonce \in Nat
    BY DEF SessTypeOK, SessionId, Session
<1>1. ASSUME NEW s \in SessionId, NEW a \in Addr, NEW kind \in Kinds,
             SessionOp(s, a, kind)
      PROVE  StateMatchesOps'
  <2> SUFFICES ASSUME NEW t \in SessionId
               PROVE  /\ sessions'[t].state \in {"Absent", "Created"} => opCount'[t] = 0
                      /\ sessions'[t].state = "Active" => opCount'[t] > 0
                      /\ sessions'[t].nonce <= opCount'[t]
                      /\ t >= nextSession' <=> sessions'[t].state = "Absent"
                      /\ sessions'[t].state \notin {"Exhausted", "Expired"}
      BY DEF StateMatchesOps
  <2>1. /\ nextSession' = nextSession
        /\ opCount'[s] = opCount[s] + 1
        /\ sessions'[s].state = "Active"
        /\ sessions'[s].nonce \in {sessions[s].nonce, sessions[s].nonce + 1}
        /\ t # s => opCount'[t] = opCount[t] /\ sessions'[t] = sessions[t]
      BY <1>0, <1>1 DEF SessionOp, SessTypeOK, Session
  <2>2. sessions[s].state # "Absent"
      BY <1>1 DEF SessionOp, SessionOpen, Exists
  <2> QED
      BY <1>0, <2>1, <2>2 DEF StateMatchesOps
<1>2. ASSUME NEW a \in Addr, CreateSession(a) PROVE StateMatchesOps'
  <2>1. /\ nextSession' = nextSession + 1
        /\ opCount' = opCount
        /\ \A t \in SessionId : t # nextSession => sessions'[t] = sessions[t]
        /\ nextSession \in SessionId
        /\ sessions'[nextSession].state = "Created"
        /\ sessions'[nextSession].nonce = 0
      BY <1>2 DEF CreateSession, SessTypeOK, SessionId
  <2> QED
      BY <1>0, <2>1 DEF StateMatchesOps
<1>3. ASSUME NEW s \in SessionId, NEW a \in Addr, CloseSession(s, a)
      PROVE  StateMatchesOps'
  <2>1. /\ UNCHANGED <<nextSession, opCount>>
        /\ \A t \in SessionId : t # s => sessions'[t] = sessions[t]
        /\ sessions'[s].state = "Closed"
        /\ sessions'[s].nonce = sessions[s].nonce
        /\ sessions[s].state # "Absent"
      BY <1>0, <1>3 DEF CloseSession, Exists, SessTypeOK, Session
  <2> QED
      BY <1>0, <2>1 DEF StateMatchesOps
<1>4. CASE UNCHANGED <<nextSession, sessions, opCount>>
    BY <1>4 DEF StateMatchesOps
<1>5. CASE SessionUserCall
    BY <1>2, <1>3, <1>4, <1>5
    DEF SessionUserCall, Tick, CloseExpiredSession, RejectOperation, Abort,
        GetAuditLogCount, sessStore
<1>6. CASE SessionAdminCall
    BY <1>4, <1>6
    DEF SessionAdminCall, PruneAuditLogs, SetAuditLogRetention, SetAutoPruneThreshold
<1>7. CASE UNCHANGED sessVars
    BY <1>4, <1>7 DEF sessVars, sessStore
<1> QED
    BY <1>1, <1>5, <1>6, <1>7 DEF SessNext

\* A record keeps its place in the lifetime of its session: time only grows,
\* creation times are only written for sessions without records.
LEMMA LifetimeStep ==
    ASSUME SessInv, [SessNext]_sessVars
    PROVE  AuditWithinLifetime'
<1> USE SessionConstants DEF SessionConstants
<1>0. /\ now \in Nat
      /\ \A e \in audit : /\ e.session \in SessionId
                          /\ e.timestamp \in Nat
                          /\ opCount[e.session] > 0
      /\ \A t \in SessionId : sessions[t] \in Session /\ sessions[t].createdAt \in Nat
  <2>1. /\ now \in Nat
        /\ \A e \in audit : e.session \in SessionId /\ e.index \in Nat /\ e.timestamp \in Nat
        /\ \A t \in SessionId : /\ sessions[t] \in Session
                                /\ sessions[t].createdAt \in Nat
                                /\ opCount[t] \in Nat
      BY DEF SessInv, SessTypeOK, AuditLog, Session, OpIndex
  <2> QED
      BY <2>1 DEF SessInv, AuditTrail, AuditResolves
<1>1. ASSUME NEW s \in SessionId, NEW a \in Addr, NEW kind \in Kinds,
             SessionOp(s, a, kind)
      PROVE  AuditWithinLifetime'
  <2>1. \A t \in SessionId : sessions'[t].createdAt = sessions[t].createdAt
      BY <1>0, <1>1 DEF SessInv, SessTypeOK, SessionOp, Session
  <2>2. now <= sessions[s].createdAt + Ttl
      BY <1>0, <1>1 DEF SessionOp, SessionOpen, Expired
  <2>3. now >= sessions[s].createdAt
      BY <1>0 DEF SessInv, CreatedInPast
  <2> SUFFICES ASSUME NEW e \in audit'
               PROVE  /\ e.timestamp >= sessions'[e.session].createdAt
                      /\ e.timestamp <= sessions'[e.session].createdAt + Ttl
                      /\ e.timestamp <= now'
      BY DEF AuditWithinLifetime
  <2>4. now' = now
      BY <1>1 DEF SessionOp
  <2>5. CASE e \in audit
      BY <1>0, <2>1, <2>4, <2>5 DEF SessInv, AuditWithinLifetime
  <2>6. CASE e.session = s /\ e.timestamp = now
      BY <1>0, <2>1, <2>2, <2>3, <2>4, <2>6
  <2> QED
      BY <1>1, <2>5, <2>6 DEF SessionOp
<1>2. ASSUME NEW a \in Addr, CreateSession(a) PROVE AuditWithinLifetime'
  <2>1. /\ audit' = audit
        /\ now' = now
        /\ \A t \in SessionId : t # nextSession => sessions'[t] = sessions[t]
        /\ nextSession \in SessionId
      BY <1>2 DEF SessInv, SessTypeOK, CreateSession, SessionId
  <2>2. opCount[nextSession] = 0
      BY <2>1 DEF SessInv, SessTypeOK, StateMatchesOps
  <2>3. \A e \in audit : sessions'[e.session] = sessions[e.session]
      BY <1>0, <2>1, <2>2
  <2> QED
      BY <2>1, <2>3 DEF SessInv, AuditWithinLifetime
<1>3. ASSUME NEW s \in SessionId, NEW a \in Addr, CloseSession(s, a)
      PROVE  AuditWithinLifetime'
  <2>1. \A t \in SessionId : sessions'[t].createdAt = sessions[t].createdAt
      BY <1>0, <1>3 DEF SessInv, SessTypeOK, CloseSession, Session
  <2> QED
      BY <1>0, <1>3, <2>1 DEF SessInv, AuditWithinLifetime, CloseSession
<1>4. ASSUME now' \in Nat, now' >= now, sessions' = sessions, audit' \subseteq audit
      PROVE  AuditWithinLifetime'
    BY <1>0, <1>4 DEF SessInv, AuditWithinLifetime
<1>5. CASE SessionUserCall
  <2>1. CASE Tick
      BY <1>0, <1>4, <2>1 DEF Tick, sessStore
  <2>2. CASE \/ GetAuditLogCount
             \/ \E s \in SessionId, a \in Addr : CloseExpiredSession(s, a)
             \/ \E s \in SessionId : RejectOperation(s)
      BY <1>0, <1>4, <2>2 DEF CloseExpiredSession, RejectOperation, Abort,
         GetAuditLogCount, KeptBy, sessStore
  <2> QED
      BY <1>2, <1>3, <1>5, <2>1, <2>2 DEF SessionUserCall
<1>6. CASE SessionAdminCall
    BY <1>0, <1>4, <1>6
    DEF SessionAdminCall, PruneAuditLogs, KeptBy, SetAuditLogRetention,
        SetAutoPruneThreshold
<1>7. CASE UNCHANGED sessVars
    BY <1>0, <1>4, <1>7 DEF sessVars, sessStore
<1> QED
    BY <1>1, <1>5, <1>6, <1>7 DEF SessNext

\* No call dates a session into the future.
LEMMA CreatedStep ==
    ASSUME SessTypeOK, CreatedInPast, [SessNext]_sessVars
    PROVE  CreatedInPast'
<1> USE SessionConstants DEF SessionConstants
<1>0. /\ now \in Nat
      /\ \A t \in SessionId : sessions[t] \in Session /\ sessions[t].createdAt \in Nat
    BY DEF SessTypeOK, Session
<1>1. ASSUME now' \in Nat, now' >= now,
             \A t \in SessionId : sessions'[t].createdAt \in {sessions[t].createdAt, now}
      PROVE  CreatedInPast'
    BY <1>0, <1>1 DEF CreatedInPast
<1>2. now' \in Nat /\ now' >= now
  <2>1. CASE Tick
      BY <1>0, <2>1 DEF Tick
  <2>2. CASE now' = now
      BY <1>0, <2>2
  <2>3. CASE SessionUserCall
      BY <2>1, <2>2, <2>3
      DEF SessionUserCall, CreateSession, CloseSession, CloseExpiredSession,
          RejectOperation, Abort, GetAuditLogCount
  <2>4. CASE SessionAdminCall
      BY <2>2, <2>4
      DEF SessionAdminCall, PruneAuditLogs, SetAuditLogRetention, SetAutoPruneThreshold
  <2> QED
      BY <2>2, <2>3, <2>4 DEF SessNext, SessionOp, sessVars
<1>3. ASSUME NEW t \in SessionId
      PROVE  sessions'[t].createdAt \in {sessions[t].createdAt, now}
  <2>1. ASSUME NEW s \in SessionId, NEW a \in Addr, NEW kind \in Kinds,
               SessionOp(s, a, kind)
        PROVE  sessions'[t].createdAt = sessions[t].createdAt
      BY <1>0, <2>1 DEF SessTypeOK, SessionOp, Session
  <2>2. ASSUME NEW a \in Addr, CreateSession(a)
        PROVE  sessions'[t].createdAt \in {sessions[t].createdAt, now}
      BY <1>0, <2>2 DEF SessTypeOK, CreateSession
  <2>3. ASSUME NEW s \in SessionId, NEW a \in Addr, CloseSession(s, a)
        PROVE  sessions'[t].createdAt = sessions[t].createdAt
      BY <1>0, <2>3 DEF SessTypeOK, CloseSession, Session
  <2>4. CASE sessions' = sessions
      BY <2>4
  <2>5. CASE SessionUserCall
      BY <2>2, <2>3, <2>4, <2>5
      DEF SessionUserCall, Tick, CloseExpiredSession, RejectOperation, Abort,
          GetAuditLogCount, sessStore
  <2>6. CASE SessionAdminCall
      BY <2>4, <2>6
      DEF SessionAdminCall, PruneAuditLogs, SetAuditLogRetention, SetAutoPruneThreshold
  <2> QED
      BY <2>1, <2>4, <2>5, <2>6 DEF SessNext, sessVars, sessStore
<1> QED
    BY <1>1, <1>2, <1>3

-----------------------------------------------------------------------------
(* The theorems *)

\* Every call keeps SessInv.
LEMMA SessInvStep == SessInv /\ [SessNext]_sessVars => SessInv'
    BY SessTypeStep, TrailStep, StateStep, LifetimeStep, CreatedStep DEF SessInv

\* SessInv holds throughout.
LEMMA SessInvariant == SessSpec => []SessInv
    BY SessInvInit, SessInvStep, PTL DEF SessSpec

\* The SLOG pointers and the audit records agree after any interleaving of
\* operations, prunes, expiries and closings of any number of sessions.
THEOREM AuditTrailHolds == SessSpec => []AuditTrail
    BY SessInvariant, PTL DEF SessInv

\* No operation of any session is ever recorded outside its lifetime.
THEOREM LifetimeHolds == SessSpec => []AuditWithinLifetime
    BY SessInvariant, PTL DEF SessInv

\* The stored state of every session reflects its operations.
THEOREM StateMatchesOpsHolds == SessSpec => []StateMatchesOps
    BY SessInvariant, PTL DEF SessInv

\* One step never touches a closed session.
LEMMA ClosedStep ==
    ASSUME SessInv, [SessNext]_sessVars,
           NEW s \in SessionId, sessions[s].state = "Closed"
    PROVE  sessions'[s] = sessions[s] /\ opCount'[s] = opCount[s]
<1> USE SessionConstants DEF SessionConstants
<1>1. ASSUME NEW t \in SessionId, NEW a \in Addr, NEW kind \in Kinds,
             SessionOp(t, a, kind)
      PROVE  sessions'[s] = sessions[s] /\ opCount'[s] = opCount[s]
    BY <1>1 DEF SessInv, SessTypeOK, SessionOp, SessionOpen
<1>2. ASSUME NEW a \in Addr, CreateSession(a)
      PROVE  sessions'[s] = sessions[s] /\ opCount'[s] = opCount[s]
  <2>1. s # nextSession
      BY DEF SessInv, SessTypeOK, StateMatchesOps
  <2> QED
      BY <1>2, <2>1 DEF SessInv, SessTypeOK, CreateSession
<1>3. ASSUME NEW t \in SessionId, NEW a \in Addr, CloseSession(t, a)
      PROVE  sessions'[s] = sessions[s] /\ opCount'[s] = opCount[s]
    BY <1>3 DEF SessInv, SessTypeOK, CloseSession, ValidTransition, IsTerminal
<1>4. CASE UNCHANGED <<sessions, opCount>>
    BY <1>4
<1>5. CASE SessionUserCall
    BY <1>2, <1>3, <1>4, <1>5
    DEF SessionUserCall, Tick, CloseExpiredSession, RejectOperation, Abort,
        GetAuditLogCount, sessStore
<1>6. CASE SessionAdminCall
    BY <1>4, <1>6
    DEF SessionAdminCall, PruneAuditLogs, SetAuditLogRetention, SetAutoPruneThreshold
<1> QED
    BY <1>1, <1>4, <1>5, <1>6 DEF SessNext, sessVars, sessStore

\* A closed session is final, whatever is called afterwards.
THEOREM ClosedIsFinalHolds == SessSpec => ClosedIsFinal
<1>1. SessInv /\ [SessNext]_sessVars =>
        [\A s \in SessionId : sessions[s].state = "Closed" =>
           /\ sessions'[s] = sessions[s]
           /\ opCount'[s] = opCount[s]]_sessVars
    BY ClosedStep
<1> QED
    BY <1>1, SessInvariant, PTL DEF SessSpec, ClosedIsFinal
=============================================================================
