------------------------------- MODULE Caches -------------------------------
(***************************************************************************)
(* The metadata, capability and stellar.toml caches of src/contract.rs     *)
(* with the entry policies of src/cache_governance.rs, and the collective  *)
(* invalidation of an anchor's entries by a quorum of attestors.  An entry *)
(* lives in temporary storage: the host may drop it once the ledgers it    *)
(* was extended for have passed, and no code of the contract runs then.    *)
(* Every write but fetch_anchor_info and the collective invalidation is    *)
(* the admin's (require_admin); a call without that signature changes      *)
(* nothing and is no step.  What is cached is opaque.  The registry is     *)
(* represented by the set of attestors that are registered, which changes  *)
(* at any time; quorum and expiry are changed while proposals are open.    *)
(***************************************************************************)
EXTENDS Integers, FiniteSetsExt, SequencesExt

CONSTANTS
    Anchors,       \* anchors with cache entries
    Data,          \* cached values
    NoEntry,       \* no entry under the key
    Ttls,          \* TTLs and stale TTLs callers pass; 0 asks for the default
    PolicySets,    \* the CachePolicySet values an admin tries to set
    FirstPolicies, \* the policies in force at first
    CacheConfigs,  \* the CacheConfig values an admin tries to set
    FirstConfig,   \* CacheConfig::default_config
    MaxEntries,    \* max_cache_entries
    MinTempTtl,    \* MIN_TEMP_TTL
    MaxCacheTime,  \* bound: the ledger timestamp stops here
    Attestors,     \* addresses that may be registered as attestors
    FirstQuorum,   \* DEFAULT_QUORUM
    MaxQuorum,     \* bound on the quorum an admin sets
    FirstExpiry,   \* DEFAULT_EXPIRY_LEDGERS
    MaxExpiry,     \* bound on the expiry an admin sets
    MaxProposals   \* bound on the proposals made

ASSUME CacheConstants ==
    /\ Ttls \subseteq Nat
    /\ FirstPolicies \in PolicySets
    /\ FirstConfig \in CacheConfigs
    /\ MaxEntries \in Nat
    /\ MinTempTtl \in Nat
    /\ MaxCacheTime \in Nat

ASSUME CacheGovernanceConstants ==
    /\ FirstQuorum \in 1..MaxQuorum
    /\ FirstExpiry \in 1..MaxExpiry
    /\ MaxProposals \in Nat

VARIABLES
    clock,       \* env.ledger().timestamp(), and the ledger it belongs to
    cache,       \* METACACHE, CAPCACHE and TOMLCACHE, by kind and anchor
    cacheCount,  \* CACNT
    policy,      \* CGOV_POL, by entry type (nothing is of type Other)
    cacheConfig, \* CACHCFG
    current,     \* entries written since their anchor last changed (ghost)
    members,     \* registered attestors
    quorum,      \* CGOV_CFG.quorum_threshold
    expiry,      \* CGOV_CFG.proposal_expiry_ledgers
    proposals,   \* CGOV_PROP by id (from 1 here); CGOV_CNT is its length
    executions   \* how each execution happened (ghost)

cacheVars == <<clock, cache, cacheCount, policy, cacheConfig, current>>

CacheKinds == {"meta", "caps", "toml"}
EntryTypes == {"meta", "caps"}

\* CachePolicy: forced is allow_forced_invalidation.
CachePolicy == [min : Nat, max : Nat, pct : Nat, forced : BOOLEAN]

\* CachePolicy::validate
ValidPolicy(p) == 0 < p.min /\ p.min < p.max /\ 0 < p.pct /\ p.pct < 100

CacheConfig == [meta : Nat, caps : Nat, swr : Nat]

\* MetadataCache, CapabilitiesCache and CachedToml.  Only a metadata entry has
\* a stale TTL and a needs_refresh flag; until is the end of its storage.
CacheEntry == [data : Data, at : Nat, ttl : Nat, stale : Nat, flag : BOOLEAN,
               until : Nat]

\* The policies of default_set and the defaults of CacheConfig are valid.
ASSUME CacheDefaults ==
    /\ IsFiniteSet(Anchors)
    /\ NoEntry \notin CacheEntry
    /\ \A p \in PolicySets : p \in [EntryTypes -> CachePolicy]
    /\ \A t \in EntryTypes : ValidPolicy(FirstPolicies[t])
    /\ \A c \in CacheConfigs : c \in CacheConfig

CacheInit ==
    /\ clock = 0
    /\ cache = [k \in CacheKinds |-> [a \in Anchors |-> NoEntry]]
    /\ cacheCount = 0
    /\ policy = FirstPolicies
    /\ cacheConfig = FirstConfig
    /\ current = {}

-----------------------------------------------------------------------------
(* TTL policy *)

EffectiveTtl(override, configured) ==
    IF override # 0 THEN override ELSE configured

ClampTtl(p, requested) ==
    IF requested = 0 THEN p.min + (p.max - p.min) \div 2
                     ELSE Min({Max({requested, p.min}), p.max})

NeedsRefresh(p, age, ttl) == age >= (ttl * p.pct) \div 100

\* enforce_write_policy: the effective TTL, and whether a refresh is due.
EnforceWritePolicy(type, requested, age) ==
    LET ttl == ClampTtl(policy[type], requested)
    IN  <<ttl, NeedsRefresh(policy[type], age, ttl)>>

-----------------------------------------------------------------------------
(* Freshness, as each reader computes it *)

Stored(k, a) == cache[k][a] # NoEntry
Age(e) == clock - e.at

\* get_cached_metadata, get_cached_capabilities and get_anchor_toml
StrictServes(e) == e.at + e.ttl > clock

\* A bug ReadersAgree must catch: the stale window does not reach its end.
StateWithoutLastSecond(e) ==
    CASE Age(e) <= e.ttl -> "Fresh"
      [] e.ttl < Age(e) /\ Age(e) < e.ttl + e.stale -> "Stale"
      [] OTHER -> "Expired"

\* get_metadata_cache_state, and the branches of get_cached_metadata_swr
MetadataCacheState(e) ==
    CASE Age(e) <= e.ttl -> "Fresh"
      [] e.ttl < Age(e) /\ Age(e) <= e.ttl + e.stale -> "Stale"
      [] OTHER -> "Expired"

\* compute_freshness_score
FreshnessScore(e) ==
    LET ageScore == CASE e.ttl = 0 -> 100
                      [] e.ttl # 0 /\ Age(e) >= e.ttl -> 0
                      [] OTHER -> ((e.ttl - Age(e)) * 100) \div e.ttl
        penalty == IF e.flag THEN 10 ELSE 0
        scored == IF MetadataCacheState(e) = "Stale" THEN ageScore \div 2 ELSE ageScore
    IN  IF MetadataCacheState(e) = "Expired" THEN 0 ELSE Max({0, scored - penalty})

-----------------------------------------------------------------------------
(* Writes *)

\* Storing an entry never shortens the storage of the one it replaces.
Put(k, a, e, keep) ==
    cache' = [cache EXCEPT ![k][a] =
        [data |-> e.data, at |-> clock, ttl |-> e.ttl, stale |-> e.stale, flag |-> FALSE,
         until |-> Max({clock + Max({keep, MinTempTtl}),
                        IF Stored(k, a) THEN cache[k][a].until ELSE 0})]]

Written(k, a) == current' = current \cup {<<k, a>>}

\* The capacity check of a new entry, and its count.
CountNew(k, a) ==
    /\ ~Stored(k, a) => cacheCount < MaxEntries
    /\ cacheCount' = IF Stored(k, a) THEN cacheCount ELSE cacheCount + 1


\* cache_metadata keeps the entry for its TTL only, not for the stale window.
CacheMetadata(a, d, ttl) ==
    LET e == EnforceWritePolicy("meta", EffectiveTtl(ttl, cacheConfig.meta), 0)[1]
    IN  /\ CountNew("meta", a)
        /\ Put("meta", a, [data |-> d, ttl |-> e, stale |-> cacheConfig.swr], e)
        /\ Written("meta", a)
        /\ UNCHANGED <<clock, policy, cacheConfig>>

CacheMetadataSwr(a, d, ttl, stale) ==
    LET e == EnforceWritePolicy("meta", EffectiveTtl(ttl, cacheConfig.meta), 0)[1]
        s == EffectiveTtl(stale, cacheConfig.swr)
    IN  /\ CountNew("meta", a)
        /\ Put("meta", a, [data |-> d, ttl |-> e, stale |-> s], e + s)
        /\ Written("meta", a)
        /\ UNCHANGED <<clock, policy, cacheConfig>>

\* Neither counts the entry nor looks at the capacity.
ForceRefreshMetadata(a, d, ttl, stale) ==
    LET e == EnforceWritePolicy("meta", EffectiveTtl(ttl, cacheConfig.meta), 0)[1]
        s == EffectiveTtl(stale, cacheConfig.swr)
    IN  /\ policy["meta"].forced
        /\ Put("meta", a, [data |-> d, ttl |-> e, stale |-> s], e + s)
        /\ Written("meta", a)
        /\ UNCHANGED <<clock, cacheCount, policy, cacheConfig>>

\* refresh_metadata_cache_swr: no step while the same data is still fresh;
\* otherwise stores the TTLs as given, uncounted.
RefreshMetadataCacheSwr(a, d, ttl, stale) ==
    /\ ~(Stored("meta", a) /\ MetadataCacheState(cache["meta"][a]) = "Fresh"
                           /\ cache["meta"][a].data = d)
    /\ Put("meta", a, [data |-> d, ttl |-> ttl, stale |-> stale], ttl + stale)
    /\ Written("meta", a)
    /\ UNCHANGED <<clock, cacheCount, policy, cacheConfig>>

CacheCapabilities(a, d, ttl) ==
    LET e == EnforceWritePolicy("caps", EffectiveTtl(ttl, cacheConfig.caps), 0)[1]
    IN  /\ CountNew("caps", a)
        /\ Put("caps", a, [data |-> d, ttl |-> e, stale |-> 0], e)
        /\ Written("caps", a)
        /\ UNCHANGED <<clock, policy, cacheConfig>>

\* The anchor's own call; toml entries are outside the count.
FetchAnchorInfo(a, d, ttl) ==
    LET e == EnforceWritePolicy("caps", EffectiveTtl(ttl, cacheConfig.caps), 0)[1]
    IN  /\ Put("toml", a, [data |-> d, ttl |-> e, stale |-> 0], e)
        /\ UNCHANGED <<clock, cacheCount, policy, cacheConfig, current>>

\* get_cached_metadata_swr in the stale window flags the entry.
GetCachedMetadataSwr(a) ==
    /\ Stored("meta", a)
    /\ MetadataCacheState(cache["meta"][a]) = "Stale"
    /\ cache' = [cache EXCEPT !["meta"][a].flag = TRUE]
    /\ UNCHANGED <<clock, cacheCount, policy, cacheConfig, current>>

-----------------------------------------------------------------------------
(* Removal *)

Uncounted(n) == IF cacheCount >= n THEN cacheCount - n ELSE 0

Without(keys) ==
    [k \in CacheKinds |-> [a \in Anchors |-> IF <<k, a>> \in keys THEN NoEntry
                                                                  ELSE cache[k][a]]]

\* What compact_cache takes for expired.
Compactable(k, a) ==
    /\ Stored(k, a)
    /\ cache[k][a].at + cache[k][a].ttl + cache[k][a].stale <= clock

CompactCache(as) ==
    LET freed == {ka \in EntryTypes \X as : Compactable(ka[1], ka[2])}
    IN  /\ freed # {}
        /\ cache' = Without(freed)
        /\ cacheCount' = Uncounted(Cardinality(freed))
        /\ UNCHANGED <<clock, policy, cacheConfig, current>>

\* A bug NothingOutlivesAChange must catch: the capabilities are forgotten.
InvalidateMetadataOnly(a) ==
    LET freed == {ka \in {"meta"} \X {a} : Stored(ka[1], ka[2])}
    IN  /\ cache' = Without(freed)
        /\ cacheCount' = Uncounted(Cardinality(freed))

\* invalidate_cache_internal: both counted entries of the anchor go.
InvalidateCacheInternal(a) ==
    LET freed == {ka \in EntryTypes \X {a} : Stored(ka[1], ka[2])}
    IN  /\ cache' = Without(freed)
        /\ cacheCount' = Uncounted(Cardinality(freed))

\* Ghost part of every call that changes the anchor: what was written is old.
Changes(a) == current' = current \ (EntryTypes \X {a})

InvalidateCacheForAnchor(a) ==
    /\ \E k \in EntryTypes : Stored(k, a)
    /\ InvalidateCacheInternal(a)
    /\ UNCHANGED <<clock, policy, cacheConfig, current>>

\* The host drops a temporary entry whose ledgers have passed.
Lapse(k, a) ==
    /\ Stored(k, a)
    /\ clock >= cache[k][a].until
    /\ cache' = Without({<<k, a>>})
    /\ UNCHANGED <<clock, cacheCount, policy, cacheConfig, current>>

-----------------------------------------------------------------------------
(* Configuration *)

SetCachePolicySet(p) ==
    /\ \A t \in EntryTypes : ValidPolicy(p[t])
    /\ policy' = p
    /\ UNCHANGED <<clock, cache, cacheCount, cacheConfig, current>>

SetCacheConfig(c) ==
    /\ c.meta # 0 /\ c.caps # 0 /\ c.swr # 0
    /\ cacheConfig' = c
    /\ UNCHANGED <<clock, cache, cacheCount, policy, current>>

CacheTick ==
    /\ clock < MaxCacheTime
    /\ clock' = clock + 1
    /\ UNCHANGED <<cache, cacheCount, policy, cacheConfig, current>>

MetadataWrite(a, d) ==
    \E ttl \in Ttls :
        \/ CacheMetadata(a, d, ttl)
        \/ \E stale \in Ttls :
             \/ CacheMetadataSwr(a, d, ttl, stale)
             \/ ForceRefreshMetadata(a, d, ttl, stale)
             \/ RefreshMetadataCacheSwr(a, d, ttl, stale)

MetadataNext(as) ==
    \/ \E a \in as :
         \/ \E d \in Data : MetadataWrite(a, d)
         \/ GetCachedMetadataSwr(a)
    \/ \E p \in PolicySets : SetCachePolicySet(p)
    \/ \E c \in CacheConfigs : SetCacheConfig(c)

CapabilityNext(as) ==
    \E a \in as, d \in Data, ttl \in Ttls :
        CacheCapabilities(a, d, ttl) \/ FetchAnchorInfo(a, d, ttl)

RemovalNext(as) ==
    \/ \E a \in as : InvalidateCacheForAnchor(a) \/ \E k \in CacheKinds : Lapse(k, a)
    \/ \E some \in SUBSET as : CompactCache(some)

CacheNext ==
    CacheTick \/ MetadataNext(Anchors) \/ CapabilityNext(Anchors) \/ RemovalNext(Anchors)

-----------------------------------------------------------------------------
(* Invalidation by a quorum of attestors *)

proposalVars == <<members, quorum, expiry, proposals, executions>>

CgInit ==
    /\ members = Attestors
    /\ quorum = FirstQuorum
    /\ expiry = FirstExpiry
    /\ proposals = <<>>
    /\ executions = {}

\* is_expired
ProposalExpired(p) == clock >= p.created + p.expiry

ProposeCacheInvalidation(caller, a) ==
    /\ caller \in members
    /\ Len(proposals) < MaxProposals
    /\ proposals' = Append(proposals,
         [anchor |-> a, endorsements |-> <<caller>>, created |-> clock,
          expiry |-> expiry, executed |-> FALSE])
    /\ UNCHANGED <<members, quorum, expiry, executions, cacheVars>>

\* A bug QuorumOfAttestors must catch: an attestor endorses twice.
EndorseUnchecked(caller, i) ==
    /\ caller \in members
    /\ ~ProposalExpired(proposals[i])
    /\ ~proposals[i].executed
    /\ Len(proposals[i].endorsements) < quorum
    /\ proposals' = [proposals EXCEPT ![i].endorsements = Append(@, caller)]
    /\ UNCHANGED <<members, quorum, expiry, executions, cacheVars>>

\* endorse: a second endorsement by the same address succeeds without effect.
EndorseCacheInvalidation(caller, i) ==
    /\ caller \in members
    /\ ~ProposalExpired(proposals[i])
    /\ ~proposals[i].executed
    /\ ~Contains(proposals[i].endorsements, caller)
    /\ Len(proposals[i].endorsements) < quorum
    /\ proposals' = [proposals EXCEPT ![i].endorsements = Append(@, caller)]
    /\ UNCHANGED <<members, quorum, expiry, executions, cacheVars>>

\* Anyone may call it.
ExecuteCacheInvalidation(i) ==
    /\ ~ProposalExpired(proposals[i])
    /\ ~proposals[i].executed
    /\ Len(proposals[i].endorsements) >= quorum
    /\ proposals' = [proposals EXCEPT ![i].executed = TRUE]
    /\ InvalidateCacheInternal(proposals[i].anchor)
    /\ Changes(proposals[i].anchor)
    /\ executions' = executions \cup {[proposal |-> i, quorum |-> quorum, at |-> clock]}
    /\ UNCHANGED <<members, quorum, expiry, clock, policy, cacheConfig>>

SetCacheQuorumThreshold(n) ==
    /\ n # 0
    /\ quorum' = n
    /\ UNCHANGED <<members, expiry, proposals, executions, cacheVars>>

SetCacheProposalExpiry(n) ==
    /\ n # 0
    /\ expiry' = n
    /\ UNCHANGED <<members, quorum, proposals, executions, cacheVars>>

\* An attestor is registered or revoked.
ChangeMembers ==
    /\ members' \in {members \cup {a} : a \in Attestors} \cup {members \ {a} : a \in Attestors}
    /\ UNCHANGED <<quorum, expiry, proposals, executions, cacheVars>>

CgNext(as) ==
    \/ \E caller \in Attestors :
         \/ \E a \in as : ProposeCacheInvalidation(caller, a)
         \/ \E i \in 1..Len(proposals) : EndorseCacheInvalidation(caller, i)
    \/ \E i \in 1..Len(proposals) : ExecuteCacheInvalidation(i)
    \/ \E n \in 0..MaxQuorum : SetCacheQuorumThreshold(n)
    \/ \E n \in 0..MaxExpiry : SetCacheProposalExpiry(n)
    \/ ChangeMembers

\* What a change of an anchor elsewhere (its metadata, a toggle, a rollback) does here.
AnchorChanged(a) ==
    /\ InvalidateCacheInternal(a)
    /\ Changes(a)
    /\ UNCHANGED <<clock, policy, cacheConfig>>

\* The caches under their administration, the quorum and the changes of the anchors.
GovernedCacheNext ==
    \/ CacheNext /\ UNCHANGED proposalVars
    \/ (\E a \in Anchors : AnchorChanged(a)) /\ UNCHANGED proposalVars
    \/ CgNext(Anchors)

governedCacheVars == <<cacheVars, proposalVars>>

GovernedCacheSpec == CacheInit /\ CgInit /\ [][GovernedCacheNext]_governedCacheVars

-----------------------------------------------------------------------------
(* Properties *)

\* Types of the cache storage of src/contract.rs and of its policies.
CacheTypeOK ==
    /\ clock \in Nat
    /\ \A k \in CacheKinds, a \in Anchors : Stored(k, a) => cache[k][a] \in CacheEntry
    /\ cacheCount \in 0..MaxEntries
    /\ policy \in [EntryTypes -> CachePolicy]
    /\ cacheConfig \in CacheConfig

\* get_cached_metadata, get_cached_metadata_swr, get_metadata_cache_state and
\* compact_cache each decide for themselves whether an entry still holds.  They
\* differ only in the second their windows end: what the strict read serves is
\* fresh, what the stale-while-revalidate read refuses may be compacted, and
\* nothing the strict read serves may be.
ReadersAgree ==
    \A a \in Anchors : Stored("meta", a) =>
        LET e == cache["meta"][a]
            state == MetadataCacheState(e)
        IN  /\ StrictServes(e) => state = "Fresh" /\ ~Compactable("meta", a)
            /\ state = "Fresh" /\ ~StrictServes(e) => Age(e) = e.ttl
            /\ state = "Expired" => Compactable("meta", a) /\ FreshnessScore(e) = 0
            /\ Compactable("meta", a) /\ state # "Expired" => Age(e) = e.ttl + e.stale
            /\ e.flag => state # "Fresh"

\* No metadata or capability entry written before a change of its anchor (a
\* metadata write, a toggle, a rollback, an executed proposal) is left after it.
NothingOutlivesAChange ==
    \A k \in EntryTypes, a \in Anchors : Stored(k, a) => <<k, a>> \in current

\* Whatever happens to the quorum, the expiry and the registry while a proposal
\* is open, it invalidates at most once, within the lifetime fixed when it was
\* made, with endorsements of as many different attestors as the quorum then in
\* force asked for.
QuorumOfAttestors ==
    /\ \A i \in 1..Len(proposals) :
         /\ IsInjective(proposals[i].endorsements)
         /\ proposals[i].executed <=> \E x \in executions : x.proposal = i
    /\ \A x \in executions :
         /\ \A y \in executions : x.proposal = y.proposal => x = y
         /\ Len(proposals[x.proposal].endorsements) >= x.quorum
         /\ x.at < proposals[x.proposal].created + proposals[x.proposal].expiry

\* What is cached about an anchor: every reader sees the same freshness of an entry,
\* nothing cached outlives the change that makes it wrong, and a collective
\* invalidation had the quorum of attestors behind it.
CachesSound == CacheTypeOK /\ ReadersAgree /\ NothingOutlivesAChange /\ QuorumOfAttestors
=============================================================================
