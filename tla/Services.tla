------------------------------ MODULE Services ------------------------------
(***************************************************************************)
(* An anchor's declared services, its profile, its runtime toggles with    *)
(* their snapshots, its maintenance windows and its dependency graph       *)
(* (src/service_management.rs and its entry points in src/contract.rs).    *)
(* Toggles, snapshots and rollbacks are the admin's or a delegate's; the   *)
(* window and dependency managers are library calls that no contract entry *)
(* point exposes.  Lists of service codes are only searched and filtered,  *)
(* so they are sets here.                                                  *)
(***************************************************************************)
EXTENDS Caches, Sequences

CONSTANTS
    Codes,         \* service codes callers pass, known or not
    KnownCodes,    \* SERVICE_DEPOSITS .. MAX_KNOWN_SERVICE_CODE
    Times,         \* window bounds and retirement times callers pass
    MaxSnapshots,  \* bound on the snapshots taken
    MaxWindows     \* bound on the windows scheduled

\* is_reachable gives up after 256 nodes, which the codes stay below.
ASSUME ServiceConstants ==
    /\ KnownCodes \subseteq Codes
    /\ IsFiniteSet(Codes) /\ Cardinality(Codes) < 256
    /\ Times \subseteq Nat
    /\ MaxSnapshots \in Nat /\ MaxWindows \in Nat

VARIABLES
    services,   \* SERVICES: declared codes and retirement records, by anchor
    profile,    \* the services of the AttestorProfile, by anchor
    toggles,    \* SVC_STATE, by anchor
    snapshots,  \* SVC_SNAP by id (from 1 here); SVC_SNAP_CNT is its length
    windows,    \* MW by id; a cancelled window leaves its id
    edges       \* DEP_GRAPH: pairs <<service, prerequisite>>, by anchor

serviceVars == <<services, profile, toggles, snapshots, windows, edges>>

ServiceInit ==
    /\ services = [a \in Anchors |-> NoEntry]
    /\ profile = [a \in Anchors |-> {}]
    /\ toggles = [a \in Anchors |-> [enabled |-> {}, disabled |-> {}]]
    /\ snapshots = <<>>
    /\ windows = <<>>
    /\ edges = [a \in Anchors |-> {}]

-----------------------------------------------------------------------------
(* Declared services *)

\* ServiceRetirementInfo; at is the optional retirement timestamp.
Retirement == [retired : BOOLEAN, at : Times \cup {NoEntry}]

\* AnchorServices
ServiceRecord ==
    [codes : SUBSET Codes, retirements : UNION {[known -> Retirement] : known \in SUBSET Codes}]

\* configure_services_versioned by a registered attestor: repeated or unknown
\* codes are refused, so the lists are a set and a function of known codes.
ConfigureServices(a, codes, retirements) ==
    /\ codes # {} /\ codes \subseteq KnownCodes
    /\ DOMAIN retirements \subseteq KnownCodes
    /\ services' = [services EXCEPT ![a] = [codes |-> codes, retirements |-> retirements]]
    /\ profile' = [profile EXCEPT ![a] = codes]
    /\ UNCHANGED <<toggles, snapshots, windows, edges, cacheVars>>

IsServiceRetired(record, s) ==
    s \in DOMAIN record.retirements /\ record.retirements[s].retired

SupportsService(a, s) ==
    s \in services[a].codes /\ ~IsServiceRetired(services[a], s)

\* advertises_quote_service looks at the declared codes only.
Advertises(a, s) == services[a] # NoEntry /\ s \in services[a].codes

\* A new record, or the old one with its timestamp unless a new one is given.
Retired(record, s, at) ==
    [c \in DOMAIN record.retirements \cup {s} |->
        IF c # s THEN record.retirements[c]
        ELSE [retired |-> TRUE,
              at |-> IF at # NoEntry \/ s \notin DOMAIN record.retirements
                     THEN at ELSE record.retirements[s].at]]

RetireService(a, s, at) ==
    /\ services[a] # NoEntry
    /\ services' = [services EXCEPT ![a].retirements = Retired(services[a], s, at)]
    /\ UNCHANGED <<profile, toggles, snapshots, windows, edges, cacheVars>>

UnretireService(a, s) ==
    /\ services[a] # NoEntry
    /\ s \in DOMAIN services[a].retirements
    /\ services' = [services EXCEPT ![a].retirements[s] = [retired |-> FALSE, at |-> NoEntry]]
    /\ UNCHANGED <<profile, toggles, snapshots, windows, edges, cacheVars>>

-----------------------------------------------------------------------------
(* Maintenance windows *)

WindowActive(w) == w.start <= clock /\ clock <= w.end
AffectsService(w, s) == w.affected = {} \/ s \in w.affected

IsInMaintenance(a, s) ==
    \E i \in 1..Len(windows) :
        /\ windows[i] # NoEntry
        /\ windows[i].anchor = a /\ WindowActive(windows[i]) /\ AffectsService(windows[i], s)

\* A bug ServicesConsistent must catch: windows that share an end are let in.
ScheduleTouchingWindow(a, start, end, affected) ==
    /\ Len(windows) < MaxWindows
    /\ \A i \in 1..Len(windows) : windows[i] # NoEntry =>
         ~(windows[i].anchor = a /\ start < windows[i].end /\ end > windows[i].start)
    /\ windows' = Append(windows, [anchor |-> a, start |-> start, end |-> end,
                                   affected |-> affected])
    /\ UNCHANGED <<services, profile, toggles, snapshots, edges, cacheVars>>

ScheduleWindow(a, start, end, affected) ==
    /\ Len(windows) < MaxWindows
    /\ \A i \in 1..Len(windows) : windows[i] # NoEntry =>
         ~(windows[i].anchor = a /\ start <= windows[i].end /\ end >= windows[i].start)
    /\ windows' = Append(windows, [anchor |-> a, start |-> start, end |-> end,
                                   affected |-> affected])
    /\ UNCHANGED <<services, profile, toggles, snapshots, edges, cacheVars>>

CancelWindow(i) ==
    /\ windows[i] # NoEntry
    /\ windows' = [windows EXCEPT ![i] = NoEntry]
    /\ UNCHANGED <<services, profile, toggles, snapshots, edges, cacheVars>>

-----------------------------------------------------------------------------
(* Toggles and snapshots *)

Toggled(a, on, off) ==
    /\ toggles' = [toggles EXCEPT ![a] = [enabled |-> on, disabled |-> off]]
    /\ InvalidateCacheInternal(a)
    /\ Changes(a)
    /\ UNCHANGED <<services, profile, snapshots, windows, edges, clock, policy, cacheConfig>>

\* In maintenance, or when the service is enabled already, nothing changes and
\* the caller gets false.
EnableService(a, s) ==
    /\ ~IsInMaintenance(a, s)
    /\ s \notin toggles[a].enabled
    /\ Toggled(a, toggles[a].enabled \cup {s}, toggles[a].disabled \ {s})

DisableService(a, s) ==
    /\ ~IsInMaintenance(a, s)
    /\ s \notin toggles[a].disabled
    /\ Toggled(a, toggles[a].enabled \ {s}, toggles[a].disabled \cup {s})

\* The services of a snapshot are the caller's, not the current ones.
SnapshotServices(a, codes) ==
    /\ Len(snapshots) < MaxSnapshots
    /\ snapshots' = Append(snapshots, [anchor |-> a, services |-> codes])
    /\ UNCHANGED <<services, profile, toggles, windows, edges, cacheVars>>

\* rollback_services: a snapshot that does not exist is no step.
RollbackServices(i) == Toggled(snapshots[i].anchor, snapshots[i].services, {})

\* enable_all_services and disable_all_services, library calls without the hook.
ToggleAllServices(a, on, off) ==
    /\ on = {} \/ off = {}
    /\ toggles' = [toggles EXCEPT ![a] = [enabled |-> on, disabled |-> off]]
    /\ UNCHANGED <<services, profile, snapshots, windows, edges, cacheVars>>

-----------------------------------------------------------------------------
(* Dependencies *)

Prerequisites(a, ss) == {e[2] : e \in {e \in edges[a] : e[1] \in ss}}

\* The frontier of is_reachable after n rounds.
Frontier(a, start) ==
    LET f[n \in 0..Cardinality(Codes)] ==
            IF n = 0 THEN {start} ELSE f[n - 1] \cup Prerequisites(a, f[n - 1])
    IN  f[Cardinality(Codes)]

\* A bug ServicesConsistent must catch: only the direct prerequisites are seen.
DirectlyReachable(a, start, target) ==
    start = target \/ <<start, target>> \in edges[a]

IsReachable(a, start, target) == target \in Frontier(a, start)

AddDependency(a, s, d) ==
    /\ ~IsReachable(a, d, s)
    /\ <<s, d>> \notin edges[a]
    /\ edges' = [edges EXCEPT ![a] = @ \cup {<<s, d>>}]
    /\ UNCHANGED <<services, profile, toggles, snapshots, windows, cacheVars>>

RemoveDependency(a, s, d) ==
    /\ <<s, d>> \in edges[a]
    /\ edges' = [edges EXCEPT ![a] = @ \ {<<s, d>>}]
    /\ UNCHANGED <<services, profile, toggles, snapshots, windows, cacheVars>>

\* assert_dependencies_met and assert_no_active_dependents, which no toggle calls.
DependenciesMet(a, s) == Prerequisites(a, {s}) \subseteq toggles[a].enabled
NoActiveDependents(a, s) ==
    \A e \in edges[a] : e[2] = s => e[1] \notin toggles[a].enabled
-----------------------------------------------------------------------------

DeclarationNext(as) ==
    \E a \in as, s \in Codes :
        \/ \E codes \in SUBSET Codes, b \in BOOLEAN :
             ConfigureServices(a, codes, [c \in {s} |-> [retired |-> b, at |-> NoEntry]])
        \/ \E at \in Times \cup {NoEntry} : RetireService(a, s, at)
        \/ UnretireService(a, s)

ToggleNext(as, codes) ==
    \/ \E a \in as :
         \/ \E s \in codes : EnableService(a, s) \/ DisableService(a, s)
         \/ \E some \in SUBSET codes : SnapshotServices(a, some)
         \/ \E on, off \in {{}, codes} : ToggleAllServices(a, on, off)
         \/ \E start, end \in Times, affected \in {{}} \cup {{s} : s \in codes} :
              ScheduleWindow(a, start, end, affected)
    \/ \E i \in 1..Len(snapshots) : RollbackServices(i)
    \/ \E i \in 1..Len(windows) : CancelWindow(i)

DependencyNext(as) ==
    \E a \in as, s, d \in Codes : AddDependency(a, s, d) \/ RemoveDependency(a, s, d)

\* All of it, while the clock and the caches move on.
ServiceNext ==
    \/ DeclarationNext(Anchors)
    \/ \E a \in Anchors, codes \in SUBSET Codes : ConfigureServices(a, codes, <<>>)
    \/ \E codes \in SUBSET Codes : ToggleNext(Anchors, codes)
    \/ DependencyNext(Anchors)
    \/ CacheNext /\ UNCHANGED serviceVars

ServiceSpec == CacheInit /\ ServiceInit /\ [][ServiceNext]_<<cacheVars, serviceVars>>

-----------------------------------------------------------------------------
(* Properties *)

\* Types of the service storage of src/service_management.rs.
ServiceTypeOK ==
    /\ services \in [Anchors -> ServiceRecord \cup {NoEntry}]
    /\ profile \in [Anchors -> SUBSET Codes]
    /\ toggles \in [Anchors -> [enabled : SUBSET Codes, disabled : SUBSET Codes]]
    /\ snapshots \in Seq([anchor : Anchors, services : SUBSET Codes])
    /\ windows \in Seq([anchor : Anchors, start : Times, end : Times,
                        affected : SUBSET Codes] \cup {NoEntry})
    /\ edges \in [Anchors -> SUBSET (Codes \X Codes)]

\* A service is never both enabled and disabled, whatever toggles, rollbacks and
\* library calls follow one another; the profile and the declaration agree; two
\* windows of an anchor that may both come into force never overlap; and the
\* dependency graph can be ordered, although edges are added one by one.
ServicesConsistent ==
    /\ ServiceTypeOK
    /\ \A a \in Anchors :
        /\ toggles[a].enabled \cap toggles[a].disabled = {}
        /\ services[a] # NoEntry => profile[a] = services[a].codes
        /\ \A i, j \in 1..Len(windows) :
             LET v == windows[i]
                 w == windows[j]
             IN  i < j /\ NoEntry \notin {v, w} /\ v.anchor = w.anchor
                 /\ v.start <= v.end /\ w.start <= w.end
                 => v.end < w.start \/ w.end < v.start
        /\ \E rank \in [Codes -> 1..Cardinality(Codes)] :
             \A e \in edges[a] : rank[e[2]] < rank[e[1]]
=============================================================================
