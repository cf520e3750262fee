----------------------------- MODULE MCAnchors -----------------------------
(***************************************************************************)
(* The administration of anchors, one part of it at a time: what a part    *)
(* does not touch keeps its initial value.                                 *)
(***************************************************************************)
EXTENDS Routing, AdminAuditLog, AnchorHealth, Sep10Tokens

CONSTANTS a1, a2, d1

VARIABLE part

mcVars == <<part, cacheVars, proposalVars, serviceVars, routingVars, policyVars, adminLogVars,
            healthVars, tokenVars>>

CachePolicyOf(min, max, forced) == [min |-> min, max |-> max, pct |-> 50, forced |-> forced]
MCFirstPolicies == [meta |-> CachePolicyOf(1, 2, TRUE), caps |-> CachePolicyOf(1, 2, TRUE)]
MCPolicySets ==
    {MCFirstPolicies,
     [meta |-> CachePolicyOf(1, 2, FALSE), caps |-> CachePolicyOf(1, 1, TRUE)],
     [meta |-> CachePolicyOf(1, 3, FALSE), caps |-> CachePolicyOf(1, 2, FALSE)]}
MCFirstConfig == [meta |-> 1, caps |-> 2, swr |-> 1]
MCCacheConfigs == {MCFirstConfig, [meta |-> 1, caps |-> 0, swr |-> 1]}

MCMetaValues == {[rep |-> 1, time |-> 2], [rep |-> 2, time |-> 4]}
MCOffer(fee, until) == [fee |-> fee, pair |-> <<"X", "Y">>, until |-> until, min |-> 2, max |-> 0]
MCQuoteOffers == {MCOffer(1, 2), MCOffer(3, 1)}
MCOptions(s, amount, min, w, passes) ==
    [pair |-> <<"X", "Y">>, amount |-> amount, strategy |-> s, minRep |-> min,
     gated |-> ~passes, passes |-> passes, weights |-> w]
MCWeights == [fee |-> 333, speed |-> 333, rep |-> 334]
MCRoutingOptions ==
    {MCOptions(s, 2, min, MCWeights, TRUE) :
        s \in {"LowestFee", "FastestSettlement", "HighestReputation", "WeightedScore", "Unknown"},
        min \in {1, 2}}
    \cup {MCOptions("LowestFee", 1, 1, MCWeights, TRUE),
          MCOptions("LowestFee", 2, 1, [MCWeights EXCEPT !.fee = 1], FALSE)}

MCTriples == {<<400, 350, 250>>, <<0, 1000, 0>>, <<500, 500, 1>>}
MCRecords ==
    [ok : {1, 3}, routed : {0, 2}, up : {1, 3}, ticks : {0, 2}, quality : {5000, 10001}]

MCWindow(ok, ms10, attempts, failures, secs) ==
    [ok |-> ok, bad |-> 3 - ok, ms10 |-> ms10, attempts |-> attempts, failures |-> failures,
     secs |-> secs]
MCHealthWindows ==
    {MCWindow(ok, ms10, 2, failures, secs) :
        ok \in {0, 2, 3}, ms10 \in {0, 5001, 34567}, failures \in {1, 3}, secs \in {60}}
    \cup {MCWindow(3, 5000, 0, 0, 3600), MCWindow(2, 100000, 1, 0, 1234), MCWindow(3, 1, 2, 0, 61)}

MCToken(key, exp, jti, nbf) ==
    [len |-> 2, key |-> key, form |-> TRUE, exp |-> exp, iat |-> 2, nbf |-> nbf, jti |-> jti,
     iss |-> "anchor", sub |-> "alice"]
MCTokens ==
    {MCToken("k1", 5, "j1", 0), MCToken("k1", 8, "j1", 6), MCToken("k2", 7, "j2", 0),
     MCToken("k2", 5, NoJti, 0), [MCToken("k1", 6, "j2", 0) EXCEPT !.iss = NoIssuer],
     [MCToken("k1", 6, "j2", 0) EXCEPT !.len = 3, !.sub = "bob", !.iss = "other"]}

MCInit ==
    /\ part \in {"metadata", "capabilities", "governance", "declarations", "toggles",
                 "dependencies", "routing", "clusters", "reputation", "timed", "networks", "log",
                 "health", "proof", "tokens"}
    /\ CacheInit /\ CgInit /\ ServiceInit /\ RoutingInit /\ PoliciesInit /\ AdminLogInit
    /\ HealthInit /\ TokenInit

CachePart ==
    /\ \/ part \in {"metadata", "capabilities", "governance", "toggles"} /\ CacheTick
       \/ part = "routing" /\ clock < 2 /\ CacheTick
       \/ part = "metadata" /\ (MetadataNext({a1}) \/ RemovalNext({a1}))
       \/ part = "capabilities" /\ (CapabilityNext({a1}) \/ RemovalNext({a1}))
       \/ part \in {"governance", "toggles", "clusters"} /\ CacheCapabilities(a1, d1, 1)
    /\ UNCHANGED <<part, proposalVars, serviceVars, routingVars, policyVars, adminLogVars, healthVars,
                   tokenVars>>

GovernancePart ==
    /\ part = "governance"
    /\ CgNext({a1})
    /\ UNCHANGED <<part, serviceVars, routingVars, policyVars, adminLogVars, healthVars,
                   tokenVars>>

ServicePart ==
    /\ \/ part = "declarations" /\ DeclarationNext({a1})
       \/ part = "toggles" /\ ToggleNext({a1}, KnownCodes)
       \/ part = "dependencies" /\ DependencyNext({a1})
       \/ part = "routing" /\ \E a \in Anchors : services[a] = NoEntry
                           /\ ConfigureServices(a, {QuoteService}, <<>>)
    /\ UNCHANGED <<part, proposalVars, routingVars, policyVars, adminLogVars, healthVars,
                   tokenVars>>

RoutingPart ==
    /\ \/ part = "routing" /\ RoutingNext /\ Len(history'[a2]) < 2
       \/ part = "clusters" /\ (ClusterNext \/ \E m \in MetaValues : SetAnchorMetadata(a1, m))
    /\ UNCHANGED <<part, proposalVars, policyVars, adminLogVars, healthVars,
                   tokenVars>>

PolicyPart ==
    /\ \/ part = "reputation" /\ ReputationNext
       \/ part = "timed" /\ TimedNext
       \/ part = "networks" /\ NetworkNext
    /\ UNCHANGED <<part, cacheVars, proposalVars, serviceVars, routingVars, adminLogVars, healthVars,
                   tokenVars>>

LogPart ==
    /\ part = "log"
    /\ AdminLogNext
    /\ UNCHANGED <<part, cacheVars, proposalVars, serviceVars, routingVars, policyVars,
                   healthVars, tokenVars>>

HealthPart ==
    /\ \/ part = "health" /\ HealthNext
       \/ part = "proof" /\ ProofNext
    /\ UNCHANGED <<part, cacheVars, proposalVars, serviceVars, routingVars, policyVars,
                   adminLogVars, tokenVars>>

TokenPart ==
    /\ part = "tokens"
    /\ TokenNext
    /\ UNCHANGED <<part, cacheVars, proposalVars, serviceVars, routingVars, policyVars,
                   adminLogVars, healthVars>>

MCNext == CachePart \/ GovernancePart \/ ServicePart \/ RoutingPart \/ PolicyPart \/ LogPart
          \/ HealthPart \/ TokenPart

MCSpec == MCInit /\ [][MCNext]_mcVars
=============================================================================
