---------------------------- MODULE AnchorHealth ----------------------------
(***************************************************************************)
(* Health counters and windows of an anchor, the score the contract        *)
(* computes from them in basis points, the score the host computes from    *)
(* the same windows (src/anchor_health.rs), and the proof of possession of *)
(* the anchor's endpoint (src/contract.rs).  The host's floats are exact   *)
(* here, in millionths of the full score.                                  *)
(***************************************************************************)
EXTENDS AdminAuditLog, Sequences

CONSTANTS
    Monitored,         \* anchors
    Endpoints,         \* valid endpoint URLs
    Hashes,            \* proof hashes
    NoProof,           \* no proof record, or no endpoint configured
    HealthWindows,     \* windows the monitor records; no u64 product of them saturates
    MaxHealthWindows,  \* MAX_HEALTH_WINDOWS
    MaxCount           \* bound on the flat counters

ASSUME HealthConstants ==
    /\ MaxHealthWindows \in Nat \ {0}
    /\ MaxCount \in Nat
    /\ NoProof \notin Endpoints
    /\ HealthWindows \subseteq [ok : Nat, bad : Nat, ms10 : Nat, attempts : Nat, failures : Nat,
                                secs : Nat]

VARIABLES
    metrics,        \* HLTHCNT: ok, bad and the uptime in basis points
    healthWindows,  \* HLTHWIN, oldest first
    endpoint,       \* the endpoint of the AttestorProfile
    proof,          \* ANCHPOP
    since           \* ghost: what happened since the proof was registered

healthVars == <<metrics, healthWindows, endpoint, proof, since>>

HealthInit ==
    /\ metrics = [a \in Monitored |-> [ok |-> 0, bad |-> 0, bps |-> 0]]
    /\ healthWindows = [a \in Monitored |-> <<>>]
    /\ endpoint = [a \in Monitored |-> NoProof]
    /\ proof = [a \in Monitored |-> NoProof]
    /\ since = [a \in Monitored |-> {}]

-----------------------------------------------------------------------------
(* Counters and windows *)

UptimeBps(ok, bad) == IF ok + bad = 0 THEN 0 ELSE (ok * 10000) \div (ok + bad)

Counted(a, ok, bad) ==
    LET o == metrics[a].ok + ok
        b == metrics[a].bad + bad
    IN  /\ o <= MaxCount /\ b <= MaxCount
        /\ metrics' = [metrics EXCEPT ![a] = [ok |-> o, bad |-> b, bps |-> UptimeBps(o, b)]]

RecordHealthEvent(a, success) ==
    /\ Counted(a, IF success THEN 1 ELSE 0, IF success THEN 0 ELSE 1)
    /\ UNCHANGED <<healthWindows, endpoint, proof, since>>

\* reset_anchor_health leaves the windows.
ResetAnchorHealth(a) ==
    /\ metrics' = [metrics EXCEPT ![a] = [ok |-> 0, bad |-> 0, bps |-> 0]]
    /\ UNCHANGED <<healthWindows, endpoint, proof, since>>

RecordHealthWindow(a, w) ==
    /\ healthWindows' = [healthWindows EXCEPT ![a] =
         Append(IF Len(@) >= MaxHealthWindows THEN Tail(@) ELSE @, w)]
    /\ Counted(a, w.ok, w.bad)
    /\ UNCHANGED <<endpoint, proof, since>>

-----------------------------------------------------------------------------
(* The contract's score, in basis points *)

LatencyBps(ms10) ==
    CASE ms10 = 0 -> 5000
      [] 0 < ms10 /\ ms10 <= 5000 -> 10000
      [] ms10 >= 100000 -> 0
      [] OTHER -> 10000 - ((ms10 - 5000) * 10000) \div 95000

\* A bug ScoresAgree must catch: failures beyond the attempts count.
RoutingBpsUncapped(attempts, failures) ==
    IF attempts = 0 THEN 10000 ELSE ((attempts - failures) * 10000) \div attempts

RoutingBps(attempts, failures) ==
    IF attempts = 0 THEN 10000
    ELSE ((attempts - Min({failures, attempts})) * 10000) \div attempts

RecoveryBps(secs) ==
    CASE secs <= 60 -> 10000
      [] secs >= 3600 -> 0
      [] OTHER -> 10000 - ((secs - 60) * 10000) \div 3540

CompositeBps(w) ==
    (UptimeBps(w.ok, w.bad) * 40 + LatencyBps(w.ms10) * 25
       + RoutingBps(w.attempts, w.failures) * 20 + RecoveryBps(w.secs) * 15) \div 100

TrendFrom(latest, previous, threshold) ==
    CASE latest - previous > threshold -> "Improving"
      [] previous - latest > threshold -> "Degrading"
      [] OTHER -> "Stable"

\* get_anchor_health_score: composite and trend; zero without a window.
ContractScore(a) ==
    LET n == Len(healthWindows[a])
        bps(i) == CompositeBps(healthWindows[a][i])
    IN  IF n = 0 THEN <<0, "Stable">>
        ELSE <<bps(n), IF n >= 2 THEN TrendFrom(bps(n), bps(n - 1), 150) ELSE "Stable">>

-----------------------------------------------------------------------------
(* The host's score, in millionths *)

\* latency_sub_score, with the latency in milliseconds.
LatencyScore(ms10) ==
    CASE ms10 <= 0 -> 500000
      [] 0 < ms10 /\ ms10 <= 5000 -> 1000000
      [] ms10 >= 100000 -> 0
      [] OTHER -> 1000000 - ((ms10 - 5000) * 1000) \div 95

RecoveryScore(secs) ==
    CASE secs <= 60 -> 1000000
      [] secs >= 3600 -> 0
      [] OTHER -> 1000000 - ((secs - 60) * 50000) \div 177

\* score_window, its composite.
ScoreWindow(w) ==
    LET calls == w.ok + w.bad
        success == IF calls = 0 THEN 0 ELSE (w.ok * 1000000) \div calls
        routing == IF w.attempts = 0 THEN 1000000
                   ELSE 1000000 - (Min({w.failures, w.attempts}) * 1000000) \div w.attempts
    IN  (success * 40 + LatencyScore(w.ms10) * 25 + routing * 20 + RecoveryScore(w.secs) * 15)
            \div 100

\* compute_trend: three points of a hundred.
ComputeTrend(ws) ==
    IF Len(ws) < 2 THEN "Stable"
    ELSE TrendFrom(ScoreWindow(ws[Len(ws)]), ScoreWindow(ws[Len(ws) - 1]), 30000)

HealthLabel(score) ==
    CASE score >= 800000 -> "healthy"
      [] 500000 <= score /\ score < 800000 -> "degraded"
      [] OTHER -> "critical"

\* detect_health_transition
HealthTransition(previous, current) ==
    CASE previous < 800000 /\ current >= 800000 -> "Recovery"
      [] previous >= 800000 /\ current < 800000 -> "Failure"
      [] OTHER -> "NoChange"

EmptyWindow == [ok |-> 0, bad |-> 0, ms10 |-> 0, attempts |-> 0, failures |-> 0, secs |-> 0]

\* build_health_snapshot and build_health_report: score, label and trend.
HealthReport(ws) ==
    LET score == ScoreWindow(IF ws = <<>> THEN EmptyWindow ELSE ws[Len(ws)])
    IN  <<score, HealthLabel(score), ComputeTrend(ws)>>

\* The sum of a field over windows.
Total(ws, field) ==
    LET sum[i \in 0..Len(ws)] == IF i = 0 THEN 0 ELSE sum[i - 1] + ws[i][field]
    IN  sum[Len(ws)]

\* aggregate_windows: the mean latency of the windows that have one.
AggregateWindows(ws) ==
    LET timed == Cardinality({i \in DOMAIN ws : ws[i].ms10 > 0})
    IN  [ok |-> Total(ws, "ok"), bad |-> Total(ws, "bad"),
         ms10 |-> IF timed = 0 THEN 0 ELSE Total(ws, "ms10") \div timed,
         attempts |-> Total(ws, "attempts"), failures |-> Total(ws, "failures"),
         secs |-> Total(ws, "secs")]

-----------------------------------------------------------------------------
(* Proof of possession *)

SetEndpoint(a, e) ==
    /\ endpoint' = [endpoint EXCEPT ![a] = e]
    /\ since' = [since EXCEPT ![a] = @ \cup {"moved"}]
    /\ UNCHANGED <<metrics, healthWindows, proof>>

\* A bug EndpointProofsEarned must catch: a new proof inherits the mark of the old.
RegisterKeepsVerified(a, e, h) ==
    /\ endpoint[a] \in {NoProof, e}
    /\ proof' = [proof EXCEPT ![a] = [endpoint |-> e, hash |-> h,
                                    verified |-> proof[a] # NoProof /\ proof[a].verified]]
    /\ since' = [since EXCEPT ![a] = {}]
    /\ UNCHANGED <<metrics, healthWindows, endpoint>>

RegisterEndpointProof(a, e, h) ==
    /\ endpoint[a] \in {NoProof, e}
    /\ proof' = [proof EXCEPT ![a] = [endpoint |-> e, hash |-> h, verified |-> FALSE]]
    /\ since' = [since EXCEPT ![a] = {}]
    /\ UNCHANGED <<metrics, healthWindows, endpoint>>

\* Anyone may call it; a wrong hash changes nothing.
VerifyEndpointProof(a, h) ==
    /\ proof[a] # NoProof
    /\ proof[a].hash = h
    /\ proof' = [proof EXCEPT ![a].verified = TRUE]
    /\ since' = [since EXCEPT ![a] = @ \cup {"presented"}]
    /\ UNCHANGED <<metrics, healthWindows, endpoint>>
-----------------------------------------------------------------------------

HealthNext ==
    \E a \in Monitored :
        \/ \E success \in BOOLEAN : RecordHealthEvent(a, success)
        \/ \E w \in HealthWindows : RecordHealthWindow(a, w)
        \/ ResetAnchorHealth(a)

ProofNext ==
    \E a \in Monitored :
        \/ \E e \in Endpoints : SetEndpoint(a, e)
        \/ \E e \in Endpoints, h \in Hashes : RegisterEndpointProof(a, e, h)
        \/ \E h \in Hashes : VerifyEndpointProof(a, h)

\* What the operators are shown: the admin log and the health of the anchors.
OversightSpec ==
    /\ AdminLogInit /\ HealthInit
    /\ [][\/ AdminLogNext /\ UNCHANGED healthVars
          \/ (HealthNext \/ ProofNext) /\ UNCHANGED adminLogVars]_<<adminLogVars, healthVars>>

-----------------------------------------------------------------------------
(* Properties *)

\* What the contract's score and trend c and the host's report h of the windows ws owe
\* each other.
ScoresMatch(ws, c, h) ==
    LET n == Len(ws)
    IN  /\ c[1] * 100 - h[1] \in -200..200
        /\ h[2] = "healthy" => c[1] >= 7998
        /\ h[2] = "critical" => c[1] <= 5000
        /\ h[3] # "Stable" => c[2] = h[3]
        /\ {c[2], h[3]} # {"Improving", "Degrading"}
        /\ ScoreWindow(AggregateWindows(<<ws[n]>>)) = h[1]
        /\ n > 1 => (HealthTransition(ScoreWindow(ws[n - 1]), h[1]) = "NoChange"
                     <=> (HealthLabel(ScoreWindow(ws[n - 1])) = "healthy" <=> h[2] = "healthy"))

\* The contract and the host score the same windows alike: within two basis
\* points, never in opposite directions, with the host's label following the
\* contract's composite except in the last two points below a threshold; the
\* contract sees every trend the host reports (its threshold is half the host's).
\* The aggregate of one window scores as the window, and a crossing is reported
\* exactly when the label "healthy" is gained or lost.
ScoresAgree ==
    \A a \in Monitored :
        healthWindows[a] # <<>>
          => ScoresMatch(healthWindows[a], ContractScore(a), HealthReport(healthWindows[a]))

\* A proof of possession counts as verified only after its own hash was presented,
\* whatever an earlier proof of the anchor had earned, and it names the configured
\* endpoint unless the endpoint was set after the proof was registered.
EndpointProofsEarned ==
    \A a \in Monitored :
        proof[a] # NoProof =>
            /\ proof[a].verified => "presented" \in since[a]
            /\ proof[a].endpoint = endpoint[a] \/ endpoint[a] = NoProof \/ "moved" \in since[a]

\* What the operators are shown: the admin log keeps its newest entries, the two
\* computations of an anchor's health agree where they are meant to, and a proof of
\* possession counts as verified only once its own hash was presented.
OversightSound == NewestEntriesKept /\ ScoresAgree /\ EndpointProofsEarned
=============================================================================
