------------------------------ MODULE Routing ------------------------------
(***************************************************************************)
(* Routing metadata, blacklist and clusters of anchors, the selection of   *)
(* a quote among them, reputation records, time-based policies and network *)
(* profiles (src/contract.rs), with the host-side selection over several   *)
(* asset pairs (src/multi_asset_routing.rs).  All writes are the admin's.  *)
(* Of the quote store only what routing reads is kept: the latest quote of *)
(* each anchor.  Ratios of f32 are exact fractions here, those of          *)
(* reputation scaled to basis points.                                      *)
(***************************************************************************)
EXTENDS Services, Lists

CONSTANTS
    QuoteService,   \* SERVICE_QUOTES
    MetaValues,     \* RoutingAnchorMeta without its flag: rep and time
    QuoteOffers,    \* quotes anchors submit: fee, pair, until, min, max
    RoutingOptions, \* RoutingOptions with the subject's standing
    ClusterIds,     \* cluster ids
    MaxVersions,    \* bound on the metadata versions of an anchor
    Rated,          \* anchors with a reputation record
    Networks,       \* network names
    None,           \* an absent key
    Weights,        \* weight triples callers pass
    Records,        \* reputation records callers pass
    DaySeconds,     \* 86_400
    MaxPolicies,    \* bound on the timed policies registered
    Strategies,     \* strategy names
    Priorities      \* priorities callers pass

\* RoutingAnchorMeta, the quote LATESTQ points to, CandidateQuote of the host, and
\* AnchorReputationRecord.
AnchorMeta == [rep : Nat, time : Nat, active : BOOLEAN]
RoutedQuote == [fee : Nat, pair : {q.pair : q \in QuoteOffers}, until : Nat, min : Nat, max : Nat,
                invalid : BOOLEAN]
CandidateQuote ==
    [anchor : Anchors, pair : {q.pair : q \in QuoteOffers}, rate : Nat, until : Nat, min : Nat,
     max : Nat, fee : Nat, rep : Nat, time : Nat]
ReputationRecord == [ok : Nat, routed : Nat, up : Nat, ticks : Nat, quality : Nat]

ASSUME RoutingConstants ==
    /\ QuoteService \in KnownCodes
    /\ \A m \in MetaValues : m.rep \in Nat /\ m.time \in Nat
    /\ \A q \in QuoteOffers : q.fee \in Nat /\ q.until \in Nat /\ q.min \in Nat /\ q.max \in Nat
    /\ \A o \in RoutingOptions :
         o.weights.fee \in Nat /\ o.weights.speed \in Nat /\ o.weights.rep \in Nat
    /\ NoEntry \notin Anchors \cup AnchorMeta \cup RoutedQuote \cup CandidateQuote
    /\ \A as \in SUBSET Anchors : as # NoEntry
    /\ MaxVersions \in Nat

ASSUME RoutingPolicyConstants ==
    /\ Weights \subseteq Nat \X Nat \X Nat
    /\ Records \subseteq ReputationRecord
    /\ DaySeconds \in Nat \ {0} /\ MaxPolicies \in Nat /\ Priorities \subseteq Nat
    /\ None \notin Nat \cup Networks \cup ReputationRecord \cup [default : BOOLEAN]

VARIABLES
    meta,           \* ANCHMETA, by anchor
    history,        \* METAHIST by version; METAVCNT is its length
    anchorList,     \* ANCHLIST
    latest,         \* the quote LATESTQ points to, by anchor
    blacklist,      \* anchors with an AnchorBlacklistEntry
    blacklistIndex, \* the blacklist index
    clusters,       \* AnchorCluster.anchors, by id
    clusterList,    \* the cluster list
    reputation,     \* REPREC, by anchor
    repWeights,     \* REPWTS
    timed,          \* TPOL by id; TPOLCNT is its length
    netProfile,     \* NETPROF, by network: whether it is marked default
    defaultNet,     \* DEFNET
    activeNet       \* ACTNET

routingVars == <<meta, history, anchorList, latest, blacklist, blacklistIndex, clusters,
                 clusterList>>

RoutingInit ==
    /\ meta = [a \in Anchors |-> NoEntry]
    /\ history = [a \in Anchors |-> <<>>]
    /\ anchorList = <<>>
    /\ latest = [a \in Anchors |-> NoEntry]
    /\ blacklist = {}
    /\ blacklistIndex = <<>>
    /\ clusters = [c \in ClusterIds |-> NoEntry]
    /\ clusterList = <<>>

-----------------------------------------------------------------------------
(* Metadata *)

Pushed(seq, x) == IF Contains(seq, x) THEN seq ELSE Append(seq, x)

\* set_anchor_metadata: also activates the anchor again.
SetAnchorMetadata(a, m) ==
    /\ Len(history[a]) < MaxVersions
    /\ meta' = [meta EXCEPT ![a] = [rep |-> m.rep, time |-> m.time, active |-> TRUE]]
    /\ history' = [history EXCEPT ![a] = Append(@, m)]
    /\ anchorList' = Pushed(anchorList, a)
    /\ InvalidateCacheInternal(a)
    /\ Changes(a)
    /\ UNCHANGED <<latest, blacklist, blacklistIndex, clusters, clusterList, serviceVars,
                   clock, policy, cacheConfig>>

\* deactivate_anchor and reactivate_anchor
SetActive(a, active) ==
    /\ meta[a] # NoEntry
    /\ meta' = [meta EXCEPT ![a].active = active]
    /\ UNCHANGED <<history, anchorList, latest, blacklist, blacklistIndex, clusters,
                   clusterList, serviceVars, cacheVars>>

ListActiveAnchors == Kept(anchorList, {a \in Anchors : meta[a] # NoEntry /\ meta[a].active})

\* get_anchor_metadata_history: the newest versions, oldest first.
MetadataHistory(a, limit) ==
    SubSeq(history[a], Max({1, Len(history[a]) - limit + 1}), Len(history[a]))

BlacklistAnchor(a) ==
    /\ blacklist' = blacklist \cup {a}
    /\ blacklistIndex' = Pushed(blacklistIndex, a)
    /\ UNCHANGED <<meta, history, anchorList, latest, clusters, clusterList, serviceVars,
                   cacheVars>>

RemoveFromBlacklist(a) ==
    /\ blacklist' = blacklist \ {a}
    /\ blacklistIndex' = Kept(blacklistIndex, Anchors \ {a})
    /\ UNCHANGED <<meta, history, anchorList, latest, clusters, clusterList, serviceVars,
                   cacheVars>>

CreateAnchorCluster(c, as) ==
    /\ clusters[c] = NoEntry
    /\ clusters' = [clusters EXCEPT ![c] = as]
    /\ clusterList' = Pushed(clusterList, c)
    /\ UNCHANGED <<meta, history, anchorList, latest, blacklist, blacklistIndex, serviceVars,
                   cacheVars>>

DeleteAnchorCluster(c) ==
    /\ clusters[c] # NoEntry
    /\ clusters' = [clusters EXCEPT ![c] = NoEntry]
    /\ clusterList' = Kept(clusterList, ClusterIds \ {c})
    /\ UNCHANGED <<meta, history, anchorList, latest, blacklist, blacklistIndex, serviceVars,
                   cacheVars>>

UpdateAnchorClusterAnchors(c, as) ==
    /\ clusters[c] # NoEntry
    /\ clusters' = [clusters EXCEPT ![c] = as]
    /\ UNCHANGED <<meta, history, anchorList, latest, blacklist, blacklistIndex, clusterList,
                   serviceVars, cacheVars>>

\* The quote store: an anchor submits a quote, or one is invalidated.
LatestQuoteChanges(a, q, invalid) ==
    /\ latest' = [latest EXCEPT ![a] = [fee |-> q.fee, pair |-> q.pair, until |-> q.until,
                                        min |-> q.min, max |-> q.max, invalid |-> invalid]]
    /\ UNCHANGED <<meta, history, anchorList, blacklist, blacklistIndex, clusters,
                   clusterList, serviceVars, cacheVars>>

-----------------------------------------------------------------------------
(* Selection *)

QuoteFits(a, o) ==
    /\ latest[a] # NoEntry
    /\ latest[a].pair = o.pair
    /\ latest[a].until > clock
    /\ ~latest[a].invalid
    /\ o.amount >= latest[a].min
    /\ latest[a].max = 0 \/ o.amount <= latest[a].max

Live(a) == a \notin blacklist /\ meta[a] # NoEntry /\ meta[a].active

\* A bug RoutesToLiveQuotes must catch: the expiry second still counts.
EligibleAtExpiry(a, o) ==
    /\ Live(a)
    /\ meta[a].rep >= o.minRep
    /\ Advertises(a, QuoteService)
    /\ latest[a] # NoEntry /\ latest[a].pair = o.pair /\ latest[a].until >= clock
    /\ ~latest[a].invalid
    /\ o.amount >= latest[a].min /\ (latest[a].max = 0 \/ o.amount <= latest[a].max)

\* The filters of route_transaction.
Eligible(a, o) ==
    /\ Live(a)
    /\ meta[a].rep >= o.minRep
    /\ Advertises(a, QuoteService)
    /\ QuoteFits(a, o)

Candidates(o) == Kept(anchorList, {a \in Anchors : Eligible(a, o)})

\* A score over normalised fee, time and reputation, times the denominators.
WeightedScore(a, cs, w) ==
    LET mf == Max({latest[c].fee : c \in Range(cs)})
        mt == Max({meta[c].time : c \in Range(cs)})
        mr == Max({meta[c].rep : c \in Range(cs)})
        d  == Max({1, mf}) * Max({1, mt}) * Max({1, mr})
    IN  w.fee * (IF mf = 0 THEN d ELSE ((mf - latest[a].fee) * d) \div mf)
      + w.speed * (IF mt = 0 THEN d ELSE ((mt - meta[a].time) * d) \div mt)
      + w.rep * (IF mr = 0 THEN 0 ELSE (meta[a].rep * d) \div mr)

\* a displaces the best so far; an unknown strategy keeps the first candidate.
Better(o, cs, a, best) ==
    CASE o.strategy = "LowestFee"         -> latest[a].fee < latest[best].fee
      [] o.strategy = "FastestSettlement" -> meta[a].time < meta[best].time
      [] o.strategy = "HighestReputation" -> meta[a].rep > meta[best].rep
      [] o.strategy = "WeightedScore"     ->
           WeightedScore(a, cs, o.weights) > WeightedScore(best, cs, o.weights)
      [] OTHER -> FALSE

Pick(o, cs) == BestOf(cs, {p \in ToSet(cs) \X ToSet(cs) : Better(o, cs, p[1], p[2])})

\* The compliance and KYC gates, of which o says whether the subject passes.
Cleared(o) == o.gated => o.passes

\* route_transaction: NoEntry where the call panics.
RouteTransaction(o) ==
    IF Candidates(o) = <<>> \/ ~Cleared(o) THEN NoEntry ELSE Pick(o, Candidates(o))

\* route_with_fallback: of the filters, the preferred anchor passes these only.
RouteWithFallback(o, preferred) ==
    IF Live(preferred) /\ QuoteFits(preferred, o) THEN preferred ELSE RouteTransaction(o)

\* get_anchor_readiness and is_quote_ready
IsQuoteReady(a) ==
    Advertises(a, QuoteService) /\ latest[a] # NoEntry /\ latest[a].until > clock

\* The filter of route_anchors, which consults neither the blacklist nor the
\* lifecycle of the quote.
Ranked(a, minRep) ==
    /\ meta[a] # NoEntry /\ meta[a].active /\ meta[a].rep >= minRep
    /\ latest[a] # NoEntry /\ latest[a].until > clock

RouteAnchors(w, max, minRep) ==
    LET cs == Kept(anchorList, {a \in Anchors : Ranked(a, minRep)})
        scored == SortSeq(cs, LAMBDA a, b : WeightedScore(a, cs, w) > WeightedScore(b, cs, w))
    IN  IF w.fee + w.speed + w.rep # 1000 THEN NoEntry
        ELSE SubSeq(scored, 1, IF max = 0 THEN Len(scored) ELSE Min({max, Len(scored)}))

-----------------------------------------------------------------------------
(* Selection on the host *)

\* validate_asset_pair_request; a pair is <<base, quote>> in normal form.
ValidPairRequest(r) ==
    /\ r.pair[1] # r.pair[2]
    /\ r.amount # 0
    /\ r.strategy \in {"LowestFee", "FastestSettlement", "HighestReputation", "WeightedScore"}

\* A bug HostSelectionAgrees must catch: minima go to the last of equals too.
DisplacesOnTie(q, best, strategy) ==
    \/ strategy = "LowestFee" /\ q.fee <= best.fee
    \/ strategy = "FastestSettlement" /\ q.time <= best.time
    \/ strategy = "HighestReputation" /\ q.rep >= best.rep

\* The comparisons of select_best: the last of equals for the maxima, the first for
\* the minima.  The time is divided by f32::MAX, so it weighs nothing in WeightedScore.
Displaces(q, best, strategy) ==
    \/ strategy = "LowestFee" /\ q.fee < best.fee
    \/ strategy = "FastestSettlement" /\ q.time < best.time
    \/ strategy = "HighestReputation" /\ q.rep >= best.rep
    \/ strategy = "WeightedScore" /\ 334 * q.rep - 333 * q.fee >= 334 * best.rep - 333 * best.fee

SelectBest(cs, strategy) ==
    BestOf(cs, {p \in ToSet(cs) \X ToSet(cs) : Displaces(p[1], p[2], strategy)})

\* The filters of route_single_asset.
HostEligible(q, r) ==
    /\ q.pair = r.pair /\ q.rate > 0 /\ q.until > clock
    /\ r.amount >= q.min /\ (q.max = 0 \/ r.amount <= q.max)
    /\ q.rep >= r.minRep

\* route_multi_asset: the choice for each request, NoEntry where it is unfilled;
\* one invalid request fails the call.
RouteMultiAsset(requests, quotes) ==
    IF \E i \in DOMAIN requests : ~ValidPairRequest(requests[i]) THEN NoEntry ELSE
    [i \in DOMAIN requests |->
        LET r == requests[i]
            cs == Kept(quotes, {q \in ToSet(quotes) : HostEligible(q, r)})
        IN  IF cs = <<>> THEN NoEntry ELSE SelectBest(cs, r.strategy)]
-----------------------------------------------------------------------------

RoutingNext ==
    \/ \E a \in Anchors :
         \/ \E m \in MetaValues : SetAnchorMetadata(a, m)
         \/ \E active \in BOOLEAN : SetActive(a, active)
         \/ BlacklistAnchor(a) \/ RemoveFromBlacklist(a)
         \/ \E q \in QuoteOffers, invalid \in BOOLEAN : LatestQuoteChanges(a, q, invalid)

ClusterNext ==
    \E c \in ClusterIds :
        \/ \E as \in SUBSET Anchors : CreateAnchorCluster(c, as) \/ UpdateAnchorClusterAnchors(c, as)
        \/ DeleteAnchorCluster(c)
-----------------------------------------------------------------------------
(* Policies: reputation, time windows, networks *)

policyVars == <<reputation, repWeights, timed, netProfile, defaultNet, activeNet>>

\* ReputationWeights::is_valid, and the check of a network profile's weights.
ValidWeights(w) == w[1] + w[2] + w[3] = 1000

PoliciesInit ==
    /\ reputation = [a \in Rated |-> None]
    /\ repWeights = <<400, 350, 250>>
    /\ timed = <<>>
    /\ netProfile = [n \in Networks |-> None]
    /\ defaultNet = None
    /\ activeNet = None

-----------------------------------------------------------------------------
(* Reputation *)

\* set_anchor_reputation checks the routed counts, not the ticks.
SetAnchorReputation(a, r) ==
    /\ r.ok <= r.routed
    /\ r.quality <= 10000
    /\ reputation' = [reputation EXCEPT ![a] = r]
    /\ UNCHANGED <<repWeights, timed, netProfile, defaultNet, activeNet>>

SetReputationWeights(w) ==
    /\ ValidWeights(w)
    /\ repWeights' = w
    /\ UNCHANGED <<reputation, timed, netProfile, defaultNet, activeNet>>

\* part of whole in basis points, all of them when there is nothing to rate.
Rate(part, whole) == IF whole = 0 THEN 10000 ELSE (Min({part, whole}) * 10000) \div whole

\* compute_composite
Composite(w, r) ==
    (w[1] * Rate(r.ok, r.routed) + w[2] * Rate(r.up, r.ticks) + w[3] * Min({r.quality, 10000}))
        \div 1000

CompositeReputation(a) ==
    IF reputation[a] = None THEN 0 ELSE Composite(repWeights, reputation[a])

-----------------------------------------------------------------------------
(* Timed policies *)

RegisterTimedRoutingPolicy(start, end, priority, strategy) ==
    /\ Len(timed) < MaxPolicies
    /\ start < DaySeconds /\ end < DaySeconds
    /\ timed' = Append(timed, [start |-> start, end |-> end, priority |-> priority,
                               strategy |-> strategy, enabled |-> TRUE])
    /\ UNCHANGED <<reputation, repWeights, netProfile, defaultNet, activeNet>>

SetTimedPolicyEnabled(i, enabled) ==
    /\ timed' = [timed EXCEPT ![i].enabled = enabled]
    /\ UNCHANGED <<reputation, repWeights, netProfile, defaultNet, activeNet>>

\* A bug PoliciesPartitionTheDay must catch: both ends belong to the window.
WindowCoversBothEnds(p, time) ==
    \/ p.start = p.end
    \/ p.start < p.end /\ p.start <= time /\ time <= p.end
    \/ p.start > p.end /\ (p.start <= time \/ time <= p.end)

\* RoutingTimeWindow::is_active
WindowCovers(p, time) ==
    \/ p.start = p.end
    \/ p.start < p.end /\ p.start <= time /\ time < p.end
    \/ p.start > p.end /\ (p.start <= time \/ time < p.end)

\* get_active_routing_policy: the scan keeps the first of the lowest priority.
ActivePolicy(unixTime) ==
    LET covering == {i \in DOMAIN timed :
                       timed[i].enabled /\ WindowCovers(timed[i], unixTime % DaySeconds)}
        lowest == {i \in covering : \A j \in covering : timed[i].priority <= timed[j].priority}
    IN  IF covering = {} THEN None ELSE Min(lowest)

-----------------------------------------------------------------------------
(* Network profiles *)

RegisterNetworkRoutingProfile(n, w, isDefault) ==
    /\ ValidWeights(w)
    /\ netProfile' = [netProfile EXCEPT ![n] = [default |-> isDefault]]
    /\ defaultNet' = IF isDefault THEN n ELSE defaultNet
    /\ UNCHANGED <<reputation, repWeights, timed, activeNet>>

\* The name need not have a profile.
SetActiveNetwork(n) ==
    /\ activeNet' = n
    /\ UNCHANGED <<reputation, repWeights, timed, netProfile, defaultNet>>

\* get_routing_profile: the network whose profile is used.
RoutingProfile ==
    CASE activeNet # None /\ netProfile[activeNet] # None -> activeNet
      [] (activeNet = None \/ netProfile[activeNet] = None)
         /\ defaultNet # None /\ netProfile[defaultNet].default -> defaultNet
      [] OTHER -> None
-----------------------------------------------------------------------------

ReputationNext ==
    \/ \E a \in Rated, r \in Records : SetAnchorReputation(a, r)
    \/ \E w \in Weights : SetReputationWeights(w)

TimedNext ==
    \/ \E start, end \in 0..DaySeconds, p \in Priorities, s \in Strategies :
         RegisterTimedRoutingPolicy(start, end, p, s)
    \/ \E i \in DOMAIN timed, enabled \in BOOLEAN : SetTimedPolicyEnabled(i, enabled)

NetworkNext ==
    \/ \E n \in Networks, w \in Weights, d \in BOOLEAN : RegisterNetworkRoutingProfile(n, w, d)
    \/ \E n \in Networks : SetActiveNetwork(n)

\* All of it, while services and caches change.
RoutingSpec ==
    /\ CacheInit /\ ServiceInit /\ RoutingInit /\ PoliciesInit
    /\ [][\/ (RoutingNext \/ ClusterNext) /\ UNCHANGED policyVars
          \/ (ReputationNext \/ TimedNext \/ NetworkNext)
             /\ UNCHANGED <<cacheVars, serviceVars, routingVars>>
          \/ ServiceNext /\ UNCHANGED <<routingVars, policyVars>>
         ]_<<cacheVars, serviceVars, routingVars, policyVars>>

-----------------------------------------------------------------------------
(* Properties *)

\* The index of the blacklist, the list of clusters, the list of anchors and the
\* version history name exactly the entries stored, each once, whatever calls
\* add, repeat and remove them; the newest version is the metadata in force.
ListsMatchEntries ==
    /\ IsInjective(blacklistIndex) /\ Range(blacklistIndex) = blacklist
    /\ IsInjective(clusterList)
    /\ Range(clusterList) = {c \in ClusterIds : clusters[c] # NoEntry}
    /\ IsInjective(anchorList)
    /\ \A a \in Anchors :
         /\ meta[a] # NoEntry <=> Contains(anchorList, a)
         /\ meta[a] # NoEntry => /\ Last(history[a]).rep = meta[a].rep
                                 /\ Last(history[a]).time = meta[a].time

\* route_transaction and route_with_fallback give only quotes that can still be
\* used, of anchors that are active and not blacklisted; whenever an anchor
\* qualifies there is a route, to the best of them and to the one listed first
\* among equals, and naming a preferred anchor never loses it; the anchor routed
\* to is one the readiness report calls ready.
RoutesToLiveQuotes ==
    \A o \in RoutingOptions :
        LET r == RouteTransaction(o)
            ok == {a \in Anchors : Eligible(a, o)}
            place(a) == CHOOSE i \in DOMAIN anchorList : anchorList[i] = a
        IN  /\ r # NoEntry =>
                 /\ Live(r) /\ latest[r].until > clock /\ IsQuoteReady(r)
                 /\ \A a \in ok : /\ ~Better(o, Candidates(o), a, r)
                                  /\ place(a) < place(r) => Better(o, Candidates(o), r, a)
            /\ ok # {} /\ Cleared(o) => r # NoEntry
            /\ \A p \in Anchors :
                 LET f == RouteWithFallback(o, p)
                 IN  /\ f = NoEntry => r = NoEntry
                     /\ f # NoEntry => Live(f) /\ latest[f].until > clock

\* The quote of an anchor as the host is given it, and the quotes of all live anchors
\* in the order of the list.
HostQuote(a) ==
    [anchor |-> a, pair |-> latest[a].pair, rate |-> 1, until |-> latest[a].until,
     min |-> latest[a].min, max |-> latest[a].max, fee |-> latest[a].fee, rep |-> meta[a].rep,
     time |-> meta[a].time]

Offering == {a \in Anchors : /\ Live(a) /\ Advertises(a, QuoteService)
                             /\ latest[a] # NoEntry /\ ~latest[a].invalid}

HostQuotes ==
    LET live == Kept(anchorList, Offering)
    IN  [i \in DOMAIN live |-> HostQuote(live[i])]

\* Given the quotes of the live anchors in the order of the list, the host's
\* route_multi_asset fills exactly the requests the contract has candidates for,
\* with the same anchor for the lowest fee and the fastest settlement and with
\* the same reputation (the last of equals, not the first) for the highest.
HostSelectionAgrees ==
    \A o \in RoutingOptions :
        ValidPairRequest(o) /\ o.strategy # "WeightedScore" =>
            LET host == RouteMultiAsset(<<o>>, HostQuotes)[1]
                cs == Candidates(o)
            IN  /\ host = NoEntry <=> cs = <<>>
                /\ cs # <<>> =>
                     IF o.strategy = "HighestReputation" THEN meta[Pick(o, cs)].rep = host.rep
                     ELSE Pick(o, cs) = host.anchor

\* Every composite score stays within its basis points, and a better record never
\* scores lower, although the ticks are stored unchecked and the weights change
\* between writes.
ReputationInRange ==
    \A a \in Rated : reputation[a] # None =>
        /\ CompositeReputation(a) \in Nat /\ CompositeReputation(a) <= 10000
        /\ \A r \in Records : (r.ok >= reputation[a].ok /\ r.routed = reputation[a].routed
                               /\ r.up >= reputation[a].up /\ r.ticks = reputation[a].ticks
                               /\ r.quality >= reputation[a].quality)
                              => Composite(repWeights, r) >= CompositeReputation(a)

\* Two enabled windows that meet end to end, also across midnight, never both
\* cover a second, and together cover the seconds of both: at every time the
\* policy in force is an enabled one that covers it, none of lower priority
\* number does, and there is one as soon as any covers the time.
PoliciesPartitionTheDay ==
    \A time \in 0..(2 * DaySeconds - 1) :
        LET i == ActivePolicy(time)
            sec == time % DaySeconds
            covers(j) == timed[j].enabled /\ WindowCovers(timed[j], sec)
        IN  /\ i # None => covers(i) /\ \A j \in DOMAIN timed :
                 covers(j) => \/ timed[i].priority < timed[j].priority
                              \/ timed[i].priority = timed[j].priority /\ i <= j
            /\ i = None => \A j \in DOMAIN timed : ~covers(j)
            /\ \A j, k \in DOMAIN timed :
                 timed[j].end = timed[k].start /\ timed[k].end = timed[j].start
                 /\ timed[j].start # timed[j].end
                 => (WindowCovers(timed[j], sec) <=> ~WindowCovers(timed[k], sec))

\* Whatever order profiles are registered, replaced and activated in, the profile
\* used is the active network's if it has one, and otherwise the one most
\* recently marked default unless it has been replaced since.
ProfileResolves ==
    /\ defaultNet # None => netProfile[defaultNet] # None
    /\ RoutingProfile # None =>
         /\ netProfile[RoutingProfile] # None
         /\ RoutingProfile = activeNet \/ netProfile[RoutingProfile].default

\* How an anchor is chosen: the lists agree with their entries, routes lead to live
\* quotes, the contract and the host choose alike, reputations stay in range, and
\* every moment of the day has the policy its windows say.
RoutingSound ==
    /\ ListsMatchEntries
    /\ RoutesToLiveQuotes
    /\ HostSelectionAgrees
    /\ ReputationInRange
    /\ PoliciesPartitionTheDay
    /\ ProfileResolves
=============================================================================
