----------------------------- MODULE Monitoring -----------------------------
(***************************************************************************)
(* The streaming monitor of one transaction (src/streaming_monitor.rs) and *)
(* the alerts a host raises: deduplication and suppression                 *)
(* (src/alert_dedup.rs) and routing (src/alert_routing.rs).                *)
(***************************************************************************)
EXTENDS Lists

CONSTANTS
    TxStates,        \* "Pending", "Failed", "Completed" and others
    Backpressure,    \* max (zero: unlimited), updates, polls
    PollAttempts,    \* retry_config.max_attempts
    MaxPolls,        \* bound on poll cycles
    Fingerprints,
    AlertWindows,    \* window_seconds
    MaxKeys,         \* max_keys; zero: no cap
    RouterConfigs,   \* rules and defaults of an AlertRouter
    Severities, Scopes, NoScope,
    Destinations,    \* channels, each with a destination
    MaxAlertTime

ASSUME MonitoringConstants ==
    /\ {"Pending", "Failed", "Completed"} \subseteq TxStates /\ "none" \notin TxStates
    /\ Backpressure \subseteq [max : Nat, updates : BOOLEAN, polls : BOOLEAN]
    /\ PollAttempts \in Nat \ {0}
    /\ AlertWindows \subseteq Nat
    /\ {MaxPolls, MaxKeys, MaxAlertTime} \subseteq Nat
    /\ \A c \in RouterConfigs :
         /\ c.rules \in Seq([severity : Severities, scope : Scopes \cup {NoScope},
                             routes : Seq(Destinations)])
         /\ c.defaults \in Seq(Destinations)
    /\ NoScope \notin Scopes

VARIABLES
    monitor,      \* cfg, last (last_state or "none"), failures, cycle, done
    transitions,  \* the queue of transitions, oldest first
    emitted,      \* ghost: events given to on_event
    observed,     \* ghost: states polled, and the terminal one
    alertTime,
    fired,        \* last_fired: window, and by fingerprint the time
    silenced,     \* AlertSuppressor: expiry by fingerprint
    delivered,    \* ghost: deliveries of each fingerprint since it was last tracked (none without a window)
    quiet,        \* ghost: the silences in force, as the operator set them
    router

monitorVars == <<monitor, transitions, emitted, observed>>
alertVars == <<alertTime, fired, silenced, delivered, quiet, router>>

MonitorInit ==
    /\ monitor \in [cfg : Backpressure, last : {"none"}, failures : {0}, cycle : {0}, done : {FALSE}]
    /\ transitions = <<>>
    /\ emitted = <<>>
    /\ observed = <<>>

AlertInit ==
    /\ alertTime = 1
    /\ fired \in [window : AlertWindows, at : {[f \in {} |-> 0]}]
    /\ silenced = [f \in {} |-> 0]
    /\ delivered = [f \in Fingerprints |-> <<>>]
    /\ quiet = [f \in Fingerprints |-> 0]
    /\ router \in RouterConfigs

-----------------------------------------------------------------------------
(* run_traced *)

\* record_transition
WithTransition(from, to) ==
    LET move == [from |-> from, to |-> to]
        q == Append(transitions, move)
        max == monitor.cfg.max
    IN  IF monitor.cfg.polls /\ transitions # <<>> /\ Last(transitions) = move THEN transitions
        ELSE IF max > 0 /\ Len(q) > max THEN SubSeq(q, Len(q) - max + 1, Len(q)) ELSE q

Changed(from, to) == <<[kind |-> "StateChanged", from |-> from, to |-> to]>>
Ended(kind) == <<[kind |-> kind, from |-> "none", to |-> "none"]>>

\* The poll said the transaction ended, or no poll of the cycle succeeded.
Finish(state) ==
    /\ transitions' = IF monitor.last = "none" THEN transitions ELSE WithTransition(monitor.last, state)
    /\ emitted' = emitted \o (IF monitor.last = "none" THEN <<>> ELSE Changed(monitor.last, state))
                          \o Ended(state)
    /\ monitor' = [monitor EXCEPT !.done = TRUE]
    /\ observed' = Append(observed, state)

\* Completed, or the end of the stream, which counts as completion.
PollEnds(state) ==
    /\ ~monitor.done
    /\ Finish(state)
    /\ UNCHANGED alertVars

\* A poll that fails is retried within the cycle; the last failure ends the run.
PollFails ==
    /\ ~monitor.done
    /\ IF monitor.failures + 1 < PollAttempts
       THEN /\ monitor' = [monitor EXCEPT !.failures = @ + 1]
            /\ UNCHANGED <<transitions, emitted, observed>>
       ELSE Finish("Failed")
    /\ UNCHANGED alertVars

\* A bug MonitorTellsTheStory must catch: the last state is kept unless updates
\* are coalesced, instead of the other way round.
PendingNotCoalesced(state) ==
    /\ ~monitor.done /\ monitor.cycle < MaxPolls
    /\ transitions' = IF monitor.last = state THEN transitions
                      ELSE WithTransition(IF monitor.last = "none" THEN "Pending" ELSE monitor.last, state)
    /\ emitted' = emitted
         \o (IF monitor.last \in {"none", state} THEN <<>> ELSE Changed(monitor.last, state))
         \o (IF state = "Failed" THEN Ended("Failed") ELSE <<>>)
    /\ monitor' = [monitor EXCEPT !.failures = 0, !.cycle = @ + 1, !.done = state = "Failed",
                     !.last = IF monitor.cfg.updates /\ monitor.last # "none" THEN @ ELSE state]
    /\ observed' = Append(observed, state)
    /\ UNCHANGED alertVars

\* Still in progress, in this state.  The first state is recorded as coming from
\* Pending, without an event.
PollPending(state) ==
    /\ ~monitor.done /\ monitor.cycle < MaxPolls
    /\ transitions' = IF monitor.last = state THEN transitions
                      ELSE WithTransition(IF monitor.last = "none" THEN "Pending" ELSE monitor.last, state)
    /\ emitted' = emitted
         \o (IF monitor.last \in {"none", state} THEN <<>> ELSE Changed(monitor.last, state))
         \o (IF state = "Failed" THEN Ended("Failed") ELSE <<>>)
    /\ monitor' = [monitor EXCEPT !.failures = 0, !.cycle = @ + 1, !.done = state = "Failed",
                     !.last = IF monitor.cfg.updates /\ monitor.last = state THEN @ ELSE state]
    /\ observed' = Append(observed, state)
    /\ UNCHANGED alertVars

ClearTransitions ==
    /\ transitions # <<>> /\ ~monitor.done
    /\ transitions' = <<>>
    /\ UNCHANGED <<monitor, emitted, observed, alertVars>>

MonitorNext ==
    \/ \E state \in {"Failed", "Completed"} : PollEnds(state)
    \/ PollFails
    \/ \E state \in TxStates : PollPending(state)
    \/ ClearTransitions

-----------------------------------------------------------------------------
(* AlertFilter: suppression first, then deduplication *)

Tracked == DOMAIN fired.at

\* is_suppressed drops an expired silence as it looks.
Unexpired == [f \in {g \in DOMAIN silenced : silenced[g] > alertTime} |-> silenced[f]]

IsSuppressed(f) == f \in DOMAIN silenced /\ silenced[f] > alertTime

\* At capacity the entry that fired longest ago goes.
Evictions(f) ==
    IF f \in Tracked \/ MaxKeys = 0 \/ Cardinality(Tracked) < MaxKeys THEN {{}}
    ELSE {{g} : g \in {h \in Tracked : \A i \in Tracked : fired.at[h] <= fired.at[i]}}

\* A bug AlertsOnce must catch: the window ends a second early.
FiresEarly(f) ==
    fired.window = 0 \/ f \notin Tracked \/ alertTime - fired.at[f] + 1 >= fired.window

ShouldFire(f) ==
    fired.window = 0 \/ f \notin Tracked \/ alertTime - fired.at[f] >= fired.window

ShouldDeliver(f) ==
    /\ silenced' = IF f \in DOMAIN silenced /\ ~IsSuppressed(f)
                   THEN [g \in DOMAIN silenced \ {f} |-> silenced[g]] ELSE silenced
    /\ IF IsSuppressed(f) \/ ~ShouldFire(f) THEN UNCHANGED <<fired, delivered>>
       ELSE \E gone \in (IF fired.window = 0 THEN {{}} ELSE Evictions(f)) :
              /\ fired' = IF fired.window = 0 THEN fired
                          ELSE [fired EXCEPT !.at =
                            [g \in (Tracked \ gone) \cup {f} |-> IF g = f THEN alertTime ELSE @[g]]]
              /\ delivered' = [g \in Fingerprints |->
                    IF g = f THEN IF fired.window = 0 THEN <<>> ELSE Append(delivered[f], alertTime)
                    ELSE IF g \in gone THEN <<>> ELSE delivered[g]]
    /\ UNCHANGED <<alertTime, quiet, router, monitorVars>>

Suppress(f, until) ==
    /\ until > alertTime
    /\ silenced' = [g \in DOMAIN silenced \cup {f} |-> IF g = f THEN until ELSE silenced[g]]
    /\ quiet' = [quiet EXCEPT ![f] = until]
    /\ UNCHANGED <<alertTime, fired, delivered, router, monitorVars>>

Unsuppress(f) ==
    /\ f \in DOMAIN silenced
    /\ silenced' = [g \in DOMAIN silenced \ {f} |-> silenced[g]]
    /\ quiet' = [quiet EXCEPT ![f] = 0]
    /\ UNCHANGED <<alertTime, fired, delivered, router, monitorVars>>

PurgeSilences ==
    /\ silenced' = Unexpired
    /\ silenced' # silenced
    /\ UNCHANGED <<alertTime, fired, delivered, quiet, router, monitorVars>>

\* reset of one fingerprint, reset_all of every one.
ResetAlerts(fs) ==
    /\ fs \cap Tracked # {}
    /\ fired' = [fired EXCEPT !.at = [g \in Tracked \ fs |-> @[g]]]
    /\ delivered' = [g \in Fingerprints |-> IF g \in fs THEN <<>> ELSE delivered[g]]
    /\ UNCHANGED <<alertTime, silenced, quiet, router, monitorVars>>

AlertTick ==
    /\ alertTime < MaxAlertTime
    /\ alertTime' = alertTime + 1
    /\ UNCHANGED <<fired, silenced, delivered, quiet, router, monitorVars>>

AlertNext ==
    \/ AlertTick
    \/ PurgeSilences
    \/ \E f \in Fingerprints :
          \/ ShouldDeliver(f)
          \/ Unsuppress(f)
          \/ \E until \in 1..MaxAlertTime : Suppress(f, until)
    \/ \E fs \in {Fingerprints} \cup {{f} : f \in Fingerprints} : ResetAlerts(fs)

-----------------------------------------------------------------------------
(* AlertRouter *)

RuleMatches(rule, severity, scope) ==
    rule.severity = severity /\ rule.scope \in {NoScope, scope}

\* route: the routes of every matching rule, else the defaults, each once.
Route(config, severity, scope) ==
    LET hits == Kept(config.rules, {r \in ToSet(config.rules) : RuleMatches(r, severity, scope)})
        all == FlattenSeq([i \in DOMAIN hits |-> hits[i].routes])
        routes == IF all = <<>> THEN config.defaults ELSE all
        places == Kept([i \in DOMAIN routes |-> i], FirstPlaces(routes))
    IN  [n \in DOMAIN places |-> routes[places[n]]]

\* The monitor and the alerts.
MonitoringSpec ==
    /\ MonitorInit /\ AlertInit
    /\ [][MonitorNext \/ AlertNext]_<<monitorVars, alertVars>>

-----------------------------------------------------------------------------
(* Properties *)

Events == [kind : {"StateChanged", "Failed", "Completed"},
           from : TxStates \cup {"none"}, to : TxStates \cup {"none"}]
ChangeEvents == {e \in Events : e.kind = "StateChanged"}
FinalEvents == {e \in Events : e.kind # "StateChanged"}

\* The transitions the monitor keeps are an unbroken suffix of what it saw, ending
\* in the state it saw last (unless the caller cleared them), within the limit;
\* its events tell the same changes in the same order, and one final event ends
\* the run and nothing else does.
MonitorTellsTheStory ==
    LET changes == Kept(emitted, ChangeEvents)
        finals == Kept(emitted, FinalEvents)
    IN  /\ \A i \in 2..Len(transitions) : transitions[i].from = transitions[i - 1].to
        /\ \A i \in 2..Len(changes) : changes[i].from = changes[i - 1].to
        /\ changes # <<>> => changes[1].from = observed[1] /\ Last(changes).to = Last(observed)
        /\ transitions # <<>> => Last(transitions).to = Last(observed)
        /\ monitor.cfg.max > 0 => Len(transitions) <= monitor.cfg.max
        /\ Len(finals) = IF monitor.done THEN 1 ELSE 0
        /\ monitor.done => Last(emitted) = finals[1]

\* While the filter tracks a fingerprint it delivers it once per window; nothing
\* is delivered under a silence the operator has not lifted; a silence still in
\* force is never lost to purging; and a router sends an alert to each destination
\* once, to the defaults exactly when no rule has a destination for it.
AlertsOnce ==
    /\ \A f \in Fingerprints : \A i \in 2..Len(delivered[f]) :
          delivered[f][i] - delivered[f][i - 1] >= fired.window
    /\ \A f \in Fingerprints : quiet[f] > alertTime => IsSuppressed(f)
    /\ MaxKeys > 0 => Cardinality(Tracked) <= MaxKeys
    /\ \A severity \in Severities, scope \in Scopes \cup {NoScope} :
          LET routes == Route(router, severity, scope)
              hit == {i \in DOMAIN router.rules : RuleMatches(router.rules[i], severity, scope)}
              wanted == UNION {ToSet(router.rules[i].routes) : i \in hit}
          IN  /\ IsInjective(routes)
              /\ ToSet(routes) = IF wanted = {} THEN ToSet(router.defaults) ELSE wanted

\* The monitor tells what it polled, and an alert goes out once per window to each of
\* its destinations.
MonitoringSound == MonitorTellsTheStory /\ AlertsOnce
=============================================================================
