---------------------------- MODULE AnchorProofs ----------------------------
(***************************************************************************)
(* Proofs about the administration of anchors, for every value of the      *)
(* constants: a token is accepted once (Sep10Tokens), the admin log keeps  *)
(* its newest entries (AdminAuditLog), the caches with their collective    *)
(* invalidation are sound (Caches), an anchor's services stay consistent   *)
(* (Services), its health is scored alike on chain and off (AnchorHealth), *)
(* and requests are routed to it soundly (Routing).                        *)
(***************************************************************************)
EXTENDS Routing, AnchorHealth, Sep10Tokens, FiniteSetTheorems

-----------------------------------------------------------------------------
(* SEP-10 tokens *)

\* While a token may still be accepted, under any skew, the entry of its jti is stored
\* and lives until no skew lets the token through.
SpentIsStored ==
    \A j \in Jtis : \A t \in spentBy[j] :
        t.exp + MaxSkew > Now =>
            j \in DOMAIN jtis /\ t.exp + MaxSkew <= (jtis[j] + 1) * LedgerSecs

\* What was accepted has spent its jti.
AcceptedHasSpent ==
    \A t \in Tokens : t.jti # NoJti =>
        /\ acceptances[t] <= 1
        /\ acceptances[t] > 0 => t.jti \in Jtis /\ t \in spentBy[t.jti]

TokenInv ==
    /\ tokenLedger \in Nat
    /\ jwtSkew \in Nat /\ jwtSkew <= MaxSkew
    /\ acceptances \in [Tokens -> Nat]
    /\ spentBy \in [Jtis -> SUBSET Tokens]
    /\ DOMAIN jtis \subseteq Jtis
    /\ \A j \in DOMAIN jtis : jtis[j] \in Nat /\ spentBy[j] # {}
    /\ SpentIsStored
    /\ AcceptedHasSpent

\* An entry stored now for the time to live of its token lasts as long as any skew lets
\* the token through: the buffer covers the largest skew, and the ledger that is cut off
\* by the division is the one in which the entry ends.
LEMMA TtlCoversSkew ==
    ASSUME TokenInv, NEW t \in Tokens
    PROVE  /\ JtiTtl(t) \in Nat
           /\ t.exp + MaxSkew <= (tokenLedger + JtiTtl(t) + 1) * LedgerSecs
<1>1. /\ tokenLedger \in Nat /\ t.exp \in Nat /\ MaxSkew \in Nat /\ TtlBuffer \in Nat
      /\ LedgerSecs \in Nat \ {0} /\ MaxSkew <= TtlBuffer * LedgerSecs
    BY TokenConstants DEF TokenConstants, TokenInv
<1> DEFINE now == tokenLedger * LedgerSecs
           rest == IF t.exp >= now THEN t.exp - now ELSE 0
           q == rest \div LedgerSecs
<1>2. now \in Nat /\ Now = now
    BY <1>1 DEF Now
<1>3. rest \in Nat /\ t.exp <= now + rest
    BY <1>1, <1>2
<1>4. Max({t.exp - Now, 0}) = rest
  <2>1. t.exp - now \in Int /\ 0 \in Int
      BY <1>1, <1>2
  <2> HIDE DEF now
  <2>2. Max({t.exp - now, 0}) = IF t.exp - now >= 0 THEN t.exp - now ELSE 0
      BY <2>1, MinMaxOfTwo
  <2> QED
      BY <1>1, <1>2, <2>2 DEF rest
<1> HIDE DEF now, rest
<1>5. q \in Nat /\ rest < (q + 1) * LedgerSecs
    BY <1>1, <1>3
<1> HIDE DEF q
<1>6. JtiTtl(t) \in Nat /\ JtiTtl(t) >= q + TtlBuffer
  <2>1. JtiTtl(t) = Max({q + TtlBuffer, 1})
      BY <1>4 DEF JtiTtl, q
  <2>2. q + TtlBuffer \in Int /\ 1 \in Int
      BY <1>1, <1>5
  <2>3. Max({q + TtlBuffer, 1}) = IF q + TtlBuffer >= 1 THEN q + TtlBuffer ELSE 1
      BY <2>2, MinMaxOfTwo
  <2> QED
      BY <1>1, <1>5, <2>1, <2>3
<1> DEFINE ttl == JtiTtl(t)
<1> HIDE DEF ttl
<1>7. ttl \in Nat /\ ttl >= q + TtlBuffer
    BY <1>6 DEF ttl
<1>8. (tokenLedger + ttl + 1) * LedgerSecs >= (tokenLedger + (q + 1) + TtlBuffer) * LedgerSecs
    BY <1>1, <1>5, <1>7
<1>9. (tokenLedger + (q + 1) + TtlBuffer) * LedgerSecs
        = now + (q + 1) * LedgerSecs + TtlBuffer * LedgerSecs
    BY <1>1, <1>5 DEF now
<1>10. t.exp + MaxSkew <= (tokenLedger + ttl + 1) * LedgerSecs
  <2> DEFINE x == (tokenLedger + ttl + 1) * LedgerSecs
             y == (q + 1) * LedgerSecs
             b == TtlBuffer * LedgerSecs
  <2>1. x \in Nat /\ y \in Nat /\ b \in Nat
      BY <1>1, <1>5, <1>7
  <2>2. x >= now + y + b /\ rest < y /\ MaxSkew <= b
      BY <1>1, <1>5, <1>8, <1>9
  <2> HIDE DEF x, y, b
  <2>3. t.exp + MaxSkew <= x
      BY <1>1, <1>2, <1>3, <2>1, <2>2
  <2> QED
      BY <2>3 DEF x
<1> QED
    BY <1>6, <1>10 DEF ttl

\* The clock does not go back, so what no longer binds an entry never does again.
LEMMA LedgerCloses ==
    ASSUME TokenInv, CloseTokenLedger
    PROVE  TokenInv'
<1>1. /\ tokenLedger' = tokenLedger + 1
      /\ UNCHANGED <<jwtSkew, acceptances, spentBy>>
      /\ DOMAIN jtis' = {j \in DOMAIN jtis : jtis[j] >= tokenLedger'}
      /\ \A j \in DOMAIN jtis' : jtis'[j] = jtis[j]
    BY DEF CloseTokenLedger
<1>2. tokenLedger \in Nat /\ LedgerSecs \in Nat \ {0} /\ MaxSkew \in Nat
    BY TokenConstants DEF TokenConstants, TokenInv
<1>3. Now \in Nat /\ Now' = (tokenLedger + 1) * LedgerSecs /\ Now' >= Now
    BY <1>1, <1>2 DEF Now
<1>4. SpentIsStored'
  <2>1. ASSUME NEW j \in Jtis, NEW t \in spentBy[j], t.exp + MaxSkew > Now'
        PROVE  j \in DOMAIN jtis' /\ t.exp + MaxSkew <= (jtis'[j] + 1) * LedgerSecs
    <3>1. t \in Tokens /\ t.exp \in Nat
        BY TokenConstants DEF TokenConstants, TokenInv
    <3>2. j \in DOMAIN jtis /\ t.exp + MaxSkew <= (jtis[j] + 1) * LedgerSecs /\ jtis[j] \in Nat
        BY <1>2, <1>3, <2>1, <3>1 DEF TokenInv, SpentIsStored
    <3>3. (tokenLedger + 1) * LedgerSecs < (jtis[j] + 1) * LedgerSecs
      <4> DEFINE x == (tokenLedger + 1) * LedgerSecs
                 y == (jtis[j] + 1) * LedgerSecs
      <4>1. x \in Nat /\ y \in Nat
          BY <1>2, <3>2
      <4>2. Now' = x /\ t.exp + MaxSkew <= y
          BY <1>3, <3>2
      <4> HIDE DEF x, y
      <4>3. x < y
          BY <1>2, <2>1, <3>1, <4>1, <4>2
      <4> QED
          BY <4>3 DEF x, y
    <3>4. jtis[j] >= tokenLedger + 1
        BY <1>2, <3>2, <3>3
    <3> QED
        BY <1>1, <3>2, <3>4
  <2> QED
      BY <1>1, <2>1 DEF SpentIsStored
<1> QED
    BY <1>1, <1>2, <1>4 DEF TokenInv, AcceptedHasSpent

\* A token that verifies has a jti nobody has spent, or one whose tokens no skew lets
\* through any more: it has not been accepted before.
LEMMA VerifiedIsNew ==
    ASSUME TokenInv, NEW t \in Tokens, NEW key, NEW expected, Verifies(t, key, expected),
           t.jti # NoJti
    PROVE  t.jti \in Jtis \ DOMAIN jtis /\ t \notin spentBy[t.jti] /\ acceptances[t] = 0
<1>1. t.jti \in Jtis /\ t.jti \notin DOMAIN jtis
    BY DEF Verifies, Unspent, Jtis
<1>2. tokenLedger \in Nat /\ LedgerSecs \in Nat /\ MaxSkew \in Nat /\ t.exp \in Nat
      /\ jwtSkew \in Nat /\ jwtSkew <= MaxSkew
    BY TokenConstants DEF TokenConstants, TokenInv
<1>3. Now \in Nat /\ t.exp + jwtSkew > Now
    BY <1>2 DEF Now, Verifies, WithinTimes
<1>4. t \notin spentBy[t.jti]
    BY <1>1, <1>2, <1>3 DEF TokenInv, SpentIsStored
<1> QED
    BY <1>1, <1>4 DEF TokenInv, AcceptedHasSpent

\* A verification that stores the jti, whether or not its caller accepts the token.
LEMMA VerificationStep ==
    ASSUME TokenInv, NEW t \in Tokens, NEW key, NEW expected, Verifies(t, key, expected),
           SpendJti(t), acceptances' \in {acceptances, Accepted(t)},
           UNCHANGED <<tokenLedger, jwtSkew>>
    PROVE  TokenInv'
<1>1. CASE t.jti = NoJti
  <2>1. UNCHANGED <<tokenLedger, jwtSkew, jtis, spentBy, acceptances>>
      BY <1>1 DEF SpendJti, Accepted
  <2> QED
      BY <2>1 DEF TokenInv, SpentIsStored, AcceptedHasSpent, Now
<1>2. CASE t.jti # NoJti
  <2> DEFINE id == t.jti
  <2>1. id \in Jtis /\ id \notin DOMAIN jtis /\ t \notin spentBy[id] /\ acceptances[t] = 0
      BY <1>2, VerifiedIsNew
  <2>2. /\ DOMAIN jtis' = DOMAIN jtis \cup {id}
        /\ jtis'[id] = tokenLedger + JtiTtl(t)
        /\ \A j \in DOMAIN jtis : jtis'[j] = jtis[j]
      BY <1>2, <2>1 DEF SpendJti
  <2>3. /\ spentBy' \in [Jtis -> SUBSET Tokens]
        /\ spentBy'[id] = spentBy[id] \cup {t}
        /\ \A j \in Jtis \ {id} : spentBy'[j] = spentBy[j]
      BY <1>2, <2>1 DEF SpendJti, TokenInv
  <2>4. /\ acceptances' \in [Tokens -> Nat]
        /\ acceptances'[t] \in 0..1
        /\ \A u \in Tokens \ {t} : acceptances'[u] = acceptances[u]
      BY <1>2, <2>1 DEF Accepted, TokenInv
  <2>5. /\ JtiTtl(t) \in Nat /\ tokenLedger \in Nat
        /\ t.exp + MaxSkew <= (jtis'[id] + 1) * LedgerSecs
      BY <2>2, TtlCoversSkew DEF TokenInv
  <2>6. Now' = Now
      BY DEF Now
  <2>7. SpentIsStored'
    <3>1. ASSUME NEW j \in Jtis, NEW u \in spentBy'[j], u.exp + MaxSkew > Now
          PROVE  j \in DOMAIN jtis' /\ u.exp + MaxSkew <= (jtis'[j] + 1) * LedgerSecs
      <4>1. CASE u \in spentBy[j]
        <5>1. j \in DOMAIN jtis /\ u.exp + MaxSkew <= (jtis[j] + 1) * LedgerSecs
            BY <3>1, <4>1 DEF TokenInv, SpentIsStored
        <5> QED
            BY <2>2, <5>1
      <4>2. CASE u \notin spentBy[j]
        <5>1. j = id /\ u = t
            BY <2>3, <3>1, <4>2
        <5> QED
            BY <2>2, <2>5, <5>1
      <4> QED
          BY <4>1, <4>2
    <3> QED
        BY <2>6, <3>1 DEF SpentIsStored
  <2>8. AcceptedHasSpent'
    <3>1. ASSUME NEW u \in Tokens, u.jti # NoJti
          PROVE  /\ acceptances'[u] <= 1
                 /\ acceptances'[u] > 0 => u.jti \in Jtis /\ u \in spentBy'[u.jti]
      <4>1. CASE u = t
          BY <2>1, <2>3, <2>4, <4>1
      <4>2. CASE u # t
        <5>1. acceptances'[u] = acceptances[u]
            BY <2>4, <4>2
        <5>2. acceptances[u] <= 1
              /\ (acceptances[u] > 0 => u.jti \in Jtis /\ u \in spentBy[u.jti])
            BY <3>1 DEF TokenInv, AcceptedHasSpent
        <5>3. u.jti \in Jtis => spentBy[u.jti] \subseteq spentBy'[u.jti]
            BY <2>3
        <5> QED
            BY <5>1, <5>2, <5>3
      <4> QED
          BY <4>1, <4>2
    <3> QED
        BY <3>1 DEF AcceptedHasSpent
  <2>9. DOMAIN jtis' \subseteq Jtis
      BY <2>1, <2>2 DEF TokenInv
  <2>10. \A j \in DOMAIN jtis' : jtis'[j] \in Nat /\ spentBy'[j] # {}
    <3>1. jtis'[id] \in Nat /\ spentBy'[id] # {}
        BY <2>2, <2>3, <2>5
    <3>2. ASSUME NEW j \in DOMAIN jtis PROVE jtis'[j] \in Nat /\ spentBy'[j] # {}
        BY <2>1, <2>2, <2>3 DEF TokenInv
    <3> QED
        BY <2>2, <3>1, <3>2
  <2> HIDE DEF id
  <2> QED
      BY <2>3, <2>4, <2>7, <2>8, <2>9, <2>10 DEF TokenInv
<1> QED
    BY <1>1, <1>2

\* A token with a jti is accepted at most once, for any tokens, keys and settings: the
\* buffer of the time to live covers every skew an admin may set afterwards.
THEOREM AcceptedOnceHolds == TokenSpec => []AcceptedOnce
<1>1. TokenInit => TokenInv
    BY TokenConstants
    DEF TokenConstants, TokenInit, TokenInv, SpentIsStored, AcceptedHasSpent
<1>2. TokenInv /\ [TokenNext]_tokenVars => TokenInv'
  <2> SUFFICES ASSUME TokenInv, [TokenNext]_tokenVars PROVE TokenInv'
      OBVIOUS
  <2>1. CASE UNCHANGED <<tokenLedger, jtis, acceptances, spentBy>>
             /\ jwtSkew' \in Nat /\ jwtSkew' <= MaxSkew
      BY <2>1 DEF TokenInv, SpentIsStored, AcceptedHasSpent, Now
  <2>2. jwtSkew \in Nat /\ jwtSkew <= MaxSkew
      BY DEF TokenInv
  <2>3. ASSUME NEW t \in Tokens, NEW i \in Issuers, NEW expected,
               VerifySep10Token(t, i, expected)
        PROVE  TokenInv'
      BY <2>3, VerificationStep DEF VerifySep10Token
  <2>4. ASSUME NEW t \in Tokens, NEW i \in Issuers, NEW issuer, VerifyWithIssuer(t, i, issuer)
        PROVE  TokenInv'
      BY <2>4, VerificationStep DEF VerifyWithIssuer
  <2>5. ASSUME NEW s \in Skews, SetJwtSkew(s)
        PROVE  TokenInv'
      BY <2>1, <2>5, TokenConstants DEF TokenConstants, SetJwtSkew
  <2>6. ASSUME NEW i \in Issuers, NEW k, SetSep10JwtVerifyingKey(i, k) \/ RotateSep10Key(i, k)
        PROVE  TokenInv'
      BY <2>1, <2>2, <2>6 DEF SetSep10JwtVerifyingKey, RotateSep10Key
  <2>7. ASSUME NEW n, SetJwtMaxLen(n)
        PROVE  TokenInv'
      BY <2>1, <2>2, <2>7 DEF SetJwtMaxLen
  <2>8. CASE UNCHANGED tokenVars
      BY <2>1, <2>2, <2>8 DEF tokenVars
  <2> QED
      BY <2>3, <2>4, <2>5, <2>6, <2>7, <2>8, LedgerCloses DEF TokenNext
<1>3. TokenInv => AcceptedOnce
    BY DEF TokenInv, SpentIsStored, AcceptedHasSpent, AcceptedOnce
<1> QED
    BY <1>1, <1>2, <1>3, PTL DEF TokenSpec

-----------------------------------------------------------------------------
(* The admin audit log *)

\* The ring that keeps fewest since the last clear is no larger than the ring in force,
\* and no entry is stored that the next write will number.
AdminLogInv ==
    /\ nextEntry \in Nat
    /\ smallest \in Nat
    /\ ring \in [enabled : BOOLEAN, max : Nat]
    /\ NewestEntriesKept

\* Whatever happens to the size of the ring, it keeps the newest entries: as many as its
\* smallest size since the last clear.
THEOREM NewestEntriesKeptHolds == AdminLogSpec => []NewestEntriesKept
<1> USE AdminAuditLogConstants DEF AdminAuditLogConstants
<1>1. AdminLogInit => AdminLogInv
    BY DEF AdminLogInit, AdminLogInv, NewestEntriesKept
<1>2. AdminLogInv /\ [AdminLogNext]_adminLogVars => AdminLogInv'
  <2> SUFFICES ASSUME AdminLogInv, [AdminLogNext]_adminLogVars PROVE AdminLogInv'
      OBVIOUS
  <2>1. CASE WriteEvent
    <3>1. /\ nextEntry' = nextEntry + 1 /\ UNCHANGED ring
          /\ entries' = (entries \ Evicted) \cup {nextEntry}
          /\ smallest' = IF ring.max = 0 THEN smallest ELSE Min({smallest, ring.max})
        BY <2>1 DEF WriteEvent
    <3>2. nextEntry \in Nat /\ smallest \in Nat /\ ring.max \in Nat
        BY DEF AdminLogInv
    <3>3. smallest' \in Nat /\ smallest' <= smallest
          /\ (ring.max > 0 => smallest' <= ring.max)
        BY <3>1, <3>2, MinMaxOfTwo
    <3>4. NewestEntriesKept'
      <4>1. \A id \in Evicted : ring.max > 0 /\ id = nextEntry - ring.max
          BY DEF Evicted
      <4>2. entries \subseteq 0..(nextEntry - 1)
            /\ \A id \in 0..(nextEntry - 1) : id >= nextEntry - smallest => id \in entries
          BY DEF AdminLogInv, NewestEntriesKept
      <4>3. \A id \in entries' : id \in 0..(nextEntry' - 1)
          BY <3>1, <3>2, <4>2
      <4>4. ASSUME NEW id \in 0..(nextEntry' - 1), id >= nextEntry' - smallest'
            PROVE  id \in entries'
        <5>1. id \notin Evicted
            BY <3>1, <3>2, <3>3, <4>1, <4>4
        <5>2. CASE id = nextEntry
            BY <3>1, <5>2
        <5>3. CASE id # nextEntry
          <6>1. id \in 0..(nextEntry - 1) /\ id >= nextEntry - smallest
              BY <3>1, <3>2, <3>3, <4>4, <5>3
          <6> QED
              BY <3>1, <4>2, <5>1, <6>1
        <5> QED
            BY <5>2, <5>3
      <4> QED
          BY <4>3, <4>4 DEF NewestEntriesKept
    <3> QED
        BY <3>1, <3>2, <3>3, <3>4 DEF AdminLogInv
  <2>2. CASE ClearEntries
      BY <2>2 DEF ClearEntries, AdminLogInv, NewestEntriesKept
  <2>3. ASSUME NEW enabled \in BOOLEAN, NEW max \in RingSizes, SetLogConfig(enabled, max)
        PROVE  AdminLogInv'
      BY <2>3 DEF SetLogConfig, AdminLogInv, NewestEntriesKept
  <2>4. CASE UNCHANGED adminLogVars
      BY <2>4 DEF adminLogVars, AdminLogInv, NewestEntriesKept
  <2> QED
      BY <2>1, <2>2, <2>3, <2>4 DEF AdminLogNext
<1>3. AdminLogInv => NewestEntriesKept
    BY DEF AdminLogInv
<1> QED
    BY <1>1, <1>2, <1>3, PTL DEF AdminLogSpec

-----------------------------------------------------------------------------
(* The caches *)

\* An entry that is not in the future, and whose refresh was only asked for once it
\* was no longer fresh.
Holds(e, t) == e.at <= t /\ (e.flag => t - e.at > e.ttl)

CacheInv ==
    /\ clock \in Nat
    /\ cache \in [CacheKinds -> [Anchors -> CacheEntry \cup {NoEntry}]]
    /\ cacheCount \in 0..MaxEntries
    /\ policy \in [EntryTypes -> CachePolicy]
    /\ \A t \in EntryTypes : ValidPolicy(policy[t])
    /\ cacheConfig \in CacheConfig
    /\ \A k \in CacheKinds, a \in Anchors : Stored(k, a) => Holds(cache[k][a], clock)
    /\ NothingOutlivesAChange

\* An entry that is there is well formed.
LEMMA StoredIsEntry ==
    ASSUME CacheInv, NEW k \in CacheKinds, NEW a \in Anchors, Stored(k, a)
    PROVE  /\ cache[k][a] \in CacheEntry
           /\ cache[k][a].at \in Nat /\ cache[k][a].ttl \in Nat /\ cache[k][a].stale \in Nat
           /\ cache[k][a].until \in Nat /\ cache[k][a].flag \in BOOLEAN
<1>1. cache[k][a] \in CacheEntry
    BY DEF CacheInv, Stored
<1> QED
    BY <1>1 DEF CacheEntry

\* A lifetime within the policy is one.
LEMMA ClampedIsNat ==
    ASSUME CacheInv, NEW type \in EntryTypes, NEW requested \in Nat, NEW age
    PROVE  EnforceWritePolicy(type, requested, age)[1] \in Nat
<1> DEFINE p == policy[type]
<1>1. p \in CachePolicy /\ ValidPolicy(p)
    BY DEF CacheInv
<1>2. p.min \in Nat /\ p.max \in Nat /\ p.min < p.max
    BY <1>1 DEF CachePolicy, ValidPolicy
<1> HIDE DEF p
<1>3. ClampTtl(p, requested) \in Nat
  <2>1. Max({requested, p.min}) \in Nat
      BY <1>2, MinMaxIsNat
  <2>2. Min({Max({requested, p.min}), p.max}) \in Nat
      BY <1>2, <2>1, MinMaxIsNat
  <2>3. (p.max - p.min) \div 2 \in Nat
      BY <1>2
  <2> QED
      BY <1>2, <2>2, <2>3 DEF ClampTtl
<1> QED
    BY <1>3 DEF EnforceWritePolicy, p

\* What a step does to the entries: some go, some are written now, the others stay.
EntriesStep ==
    /\ cache' \in [CacheKinds -> [Anchors -> CacheEntry \cup {NoEntry}]]
    /\ \A k \in CacheKinds, a \in Anchors : cache'[k][a] # NoEntry =>
         \/ cache'[k][a] = cache[k][a]
         \/ cache'[k][a].at = clock /\ ~cache'[k][a].flag
              /\ (k \in EntryTypes => <<k, a>> \in current')
         \/ /\ cache[k][a] # NoEntry
            /\ cache'[k][a].at = cache[k][a].at
            /\ cache'[k][a].ttl = cache[k][a].ttl
            /\ clock - cache[k][a].at > cache[k][a].ttl
    /\ \A k \in EntryTypes, a \in Anchors :
         <<k, a>> \in current /\ cache'[k][a] # NoEntry => <<k, a>> \in current'

\* Such a step keeps the invariant of the entries.
LEMMA EntriesKept ==
    ASSUME CacheInv, EntriesStep, UNCHANGED clock
    PROVE  /\ \A k \in CacheKinds, a \in Anchors : Stored(k, a)' => Holds(cache'[k][a], clock)
           /\ NothingOutlivesAChange'
<1>1. ASSUME NEW k \in CacheKinds, NEW a \in Anchors, cache'[k][a] # NoEntry
      PROVE  Holds(cache'[k][a], clock)
  <2>1. clock \in Nat
      BY DEF CacheInv
  <2>2. cache[k][a] # NoEntry => Holds(cache[k][a], clock)
      BY DEF CacheInv, Stored
  <2>3. CASE cache'[k][a] = cache[k][a]
      BY <1>1, <2>2, <2>3
  <2>4. CASE cache'[k][a].at = clock /\ ~cache'[k][a].flag
      BY <2>1, <2>4 DEF Holds
  <2>5. CASE /\ cache[k][a] # NoEntry
             /\ cache'[k][a].at = cache[k][a].at
             /\ cache'[k][a].ttl = cache[k][a].ttl
             /\ clock - cache[k][a].at > cache[k][a].ttl
      BY <2>2, <2>5 DEF Holds
  <2> QED
      BY <1>1, <2>3, <2>4, <2>5 DEF EntriesStep
<1>2. ASSUME NEW k \in EntryTypes, NEW a \in Anchors, cache'[k][a] # NoEntry
      PROVE  <<k, a>> \in current'
  <2>1. k \in CacheKinds
      BY DEF EntryTypes, CacheKinds
  <2>2. cache[k][a] # NoEntry => <<k, a>> \in current
      BY DEF CacheInv, NothingOutlivesAChange, Stored
  <2> QED
      BY <1>2, <2>1, <2>2 DEF EntriesStep
<1> QED
    BY <1>1, <1>2 DEF NothingOutlivesAChange, Stored

\* Storing an entry writes that entry, now.
LEMMA PutStep ==
    ASSUME CacheInv, NEW k \in CacheKinds, NEW a \in Anchors, NEW e, NEW keep \in Nat,
           e.data \in Data, e.ttl \in Nat, e.stale \in Nat, Put(k, a, e, keep),
           k \in EntryTypes => <<k, a>> \in current',
           current \subseteq current'
    PROVE  EntriesStep
<1> DEFINE until == Max({clock + Max({keep, MinTempTtl}),
                         IF Stored(k, a) THEN cache[k][a].until ELSE 0})
           n == [data |-> e.data, at |-> clock, ttl |-> e.ttl, stale |-> e.stale,
                 flag |-> FALSE, until |-> until]
<1>1. clock \in Nat /\ MinTempTtl \in Nat
    BY CacheConstants DEF CacheConstants, CacheInv
<1>2. until \in Nat
  <2> DEFINE m == Max({keep, MinTempTtl})
             old == IF Stored(k, a) THEN cache[k][a].until ELSE 0
  <2>1. m \in Nat
      BY <1>1, MinMaxIsNat
  <2>2. old \in Nat
      BY StoredIsEntry
  <2> HIDE DEF m, old
  <2>3. Max({clock + m, old}) \in Nat
    <3>1. clock + m \in Nat
        BY <1>1, <2>1
    <3> QED
        BY <2>2, <3>1, MinMaxIsNat
  <2> QED
      BY <2>3 DEF m, old
<1> HIDE DEF until
<1>3. n \in CacheEntry /\ n.at = clock /\ ~n.flag
    BY <1>1, <1>2 DEF CacheEntry
<1>4. cache' = [cache EXCEPT ![k][a] = n]
    BY DEF Put, until
<1> HIDE DEF n
<1>5. cache \in [CacheKinds -> [Anchors -> CacheEntry \cup {NoEntry}]]
    BY DEF CacheInv
<1>6. /\ cache' \in [CacheKinds -> [Anchors -> CacheEntry \cup {NoEntry}]]
      /\ cache'[k][a] = n
      /\ \A j \in CacheKinds, b \in Anchors : <<j, b>> # <<k, a>> => cache'[j][b] = cache[j][b]
    BY <1>3, <1>4, <1>5
<1>7. ASSUME NEW j \in CacheKinds, NEW b \in Anchors
      PROVE  \/ cache'[j][b] = cache[j][b]
             \/ cache'[j][b].at = clock /\ ~cache'[j][b].flag
                  /\ (j \in EntryTypes => <<j, b>> \in current')
  <2>1. CASE j = k /\ b = a
      BY <1>3, <1>6, <2>1
  <2>2. CASE ~(j = k /\ b = a)
      BY <1>6, <2>2
  <2> QED
      BY <2>1, <2>2
<1> QED
    BY <1>6, <1>7 DEF EntriesStep

\* Removal takes entries away and touches no other.
LEMMA RemovalStep ==
    ASSUME CacheInv, NEW keys, cache' = Without(keys),
           \A k \in EntryTypes, a \in Anchors :
               <<k, a>> \in current /\ <<k, a>> \notin keys /\ Stored(k, a) => <<k, a>> \in current'
    PROVE  EntriesStep
<1>1. cache \in [CacheKinds -> [Anchors -> CacheEntry \cup {NoEntry}]]
    BY DEF CacheInv
<1>2. \A k \in CacheKinds, a \in Anchors :
        cache'[k][a] = IF <<k, a>> \in keys THEN NoEntry ELSE cache[k][a]
    BY DEF Without
<1>3. cache' \in [CacheKinds -> [Anchors -> CacheEntry \cup {NoEntry}]]
    BY <1>1 DEF Without
<1>4. EntryTypes \subseteq CacheKinds
    BY DEF EntryTypes, CacheKinds
<1> QED
    BY <1>2, <1>3, <1>4 DEF EntriesStep, Stored

\* The count never leaves its range.
LEMMA UncountedInRange ==
    ASSUME cacheCount \in 0..MaxEntries, NEW n \in Nat
    PROVE  Uncounted(n) \in 0..MaxEntries
BY CacheConstants DEF CacheConstants, Uncounted

\* The entries that are removed at once are finitely many.
LEMMA FreedIsFinite ==
    ASSUME NEW S \in SUBSET (EntryTypes \X Anchors)
    PROVE  Cardinality(S) \in Nat
<1>1. IsFiniteSet(EntryTypes)
  <2>1. IsFiniteSet({} \cup {"meta"})
      BY FS_EmptySet, FS_AddElement
  <2>2. IsFiniteSet(({} \cup {"meta"}) \cup {"caps"})
      BY <2>1, FS_AddElement
  <2>3. EntryTypes = ({} \cup {"meta"}) \cup {"caps"}
      BY DEF EntryTypes
  <2> QED
      BY <2>2, <2>3
<1>2. IsFiniteSet(EntryTypes \X Anchors)
    BY <1>1, FS_Product, CacheDefaults DEF CacheDefaults
<1>3. IsFiniteSet(S)
    BY <1>2, FS_Subset
<1> QED
    BY <1>3, FS_CardinalityType

\* A step of the entries under the policies in force.
LEMMA CacheKept ==
    ASSUME CacheInv, EntriesStep, cacheCount' \in 0..MaxEntries,
           UNCHANGED <<clock, policy, cacheConfig>>
    PROVE  CacheInv'
<1>1. /\ \A k \in CacheKinds, a \in Anchors : Stored(k, a)' => Holds(cache'[k][a], clock)
      /\ NothingOutlivesAChange'
    BY EntriesKept
<1>2. cache' \in [CacheKinds -> [Anchors -> CacheEntry \cup {NoEntry}]]
    BY DEF EntriesStep
<1>3. /\ clock' \in Nat /\ clock' = clock
      /\ policy' \in [EntryTypes -> CachePolicy]
      /\ \A t \in EntryTypes : ValidPolicy(policy'[t])
      /\ cacheConfig' \in CacheConfig
    BY DEF CacheInv
<1> QED
    BY <1>1, <1>2, <1>3 DEF CacheInv

\* A metadata entry, whichever call stores it.
LEMMA MetadataWriteStep ==
    ASSUME CacheInv, NEW a \in Anchors, NEW d \in Data, MetadataWrite(a, d)
    PROVE  CacheInv'
<1>1. "meta" \in CacheKinds /\ "meta" \in EntryTypes
    BY DEF CacheKinds, EntryTypes
<1>2. cacheConfig.meta \in Nat /\ cacheConfig.swr \in Nat /\ cacheCount \in 0..MaxEntries
    BY DEF CacheInv, CacheConfig
<1>3. ASSUME NEW e, NEW keep \in Nat, e.data = d, e.ttl \in Nat, e.stale \in Nat,
             Put("meta", a, e, keep), Written("meta", a), cacheCount' \in 0..MaxEntries,
             UNCHANGED <<clock, policy, cacheConfig>>
      PROVE  CacheInv'
  <2>1. <<"meta", a>> \in current' /\ current \subseteq current'
      BY <1>3 DEF Written
  <2>2. EntriesStep
      BY <1>1, <1>3, <2>1, PutStep
  <2> QED
      BY <1>3, <2>2, CacheKept
<1>4. CountNew("meta", a) => cacheCount' \in 0..MaxEntries
    BY <1>2, CacheConstants DEF CacheConstants, CountNew
<1>5. ASSUME NEW ttl \in Ttls
      PROVE  EnforceWritePolicy("meta", EffectiveTtl(ttl, cacheConfig.meta), 0)[1] \in Nat
  <2>1. EffectiveTtl(ttl, cacheConfig.meta) \in Nat
      BY <1>2, CacheConstants DEF CacheConstants, EffectiveTtl
  <2> QED
      BY <1>1, <2>1, ClampedIsNat
<1>6. ASSUME NEW stale \in Ttls
      PROVE  EffectiveTtl(stale, cacheConfig.swr) \in Nat
    BY <1>2, CacheConstants DEF CacheConstants, EffectiveTtl
<1>7. ASSUME NEW ttl \in Ttls, CacheMetadata(a, d, ttl)
      PROVE  CacheInv'
  <2> DEFINE n == EnforceWritePolicy("meta", EffectiveTtl(ttl, cacheConfig.meta), 0)[1]
             e == [data |-> d, ttl |-> n, stale |-> cacheConfig.swr]
  <2>1. n \in Nat
      BY <1>5
  <2>2. /\ CountNew("meta", a) /\ Put("meta", a, e, n) /\ Written("meta", a)
        /\ UNCHANGED <<clock, policy, cacheConfig>>
      BY <1>7 DEF CacheMetadata
  <2> HIDE DEF n
  <2>3. e.data = d /\ e.ttl \in Nat /\ e.stale \in Nat
      BY <1>2, <2>1
  <2> HIDE DEF e
  <2> QED
      BY <1>3, <1>4, <2>1, <2>2, <2>3
<1>8. ASSUME NEW ttl \in Ttls, NEW stale \in Ttls,
             CacheMetadataSwr(a, d, ttl, stale) \/ ForceRefreshMetadata(a, d, ttl, stale)
      PROVE  CacheInv'
  <2> DEFINE n == EnforceWritePolicy("meta", EffectiveTtl(ttl, cacheConfig.meta), 0)[1]
             m == EffectiveTtl(stale, cacheConfig.swr)
             e == [data |-> d, ttl |-> n, stale |-> m]
  <2>1. n \in Nat /\ m \in Nat
      BY <1>5, <1>6
  <2>2. /\ Put("meta", a, e, n + m) /\ Written("meta", a)
        /\ UNCHANGED <<clock, policy, cacheConfig>>
      BY <1>8 DEF CacheMetadataSwr, ForceRefreshMetadata
  <2>3. cacheCount' \in 0..MaxEntries
      BY <1>2, <1>4, <1>8 DEF CacheMetadataSwr, ForceRefreshMetadata
  <2> HIDE DEF n, m
  <2>4. e.data = d /\ e.ttl \in Nat /\ e.stale \in Nat /\ n + m \in Nat
      BY <2>1
  <2> HIDE DEF e
  <2> QED
      BY <1>3, <2>2, <2>3, <2>4
<1>9. ASSUME NEW ttl \in Ttls, NEW stale \in Ttls, RefreshMetadataCacheSwr(a, d, ttl, stale)
      PROVE  CacheInv'
  <2> DEFINE e == [data |-> d, ttl |-> ttl, stale |-> stale]
  <2>1. /\ Put("meta", a, e, ttl + stale) /\ Written("meta", a)
        /\ UNCHANGED <<clock, cacheCount, policy, cacheConfig>>
      BY <1>9 DEF RefreshMetadataCacheSwr
  <2>2. e.data = d /\ e.ttl \in Nat /\ e.stale \in Nat /\ ttl + stale \in Nat
      BY CacheConstants DEF CacheConstants
  <2> HIDE DEF e
  <2> QED
      BY <1>2, <1>3, <2>1, <2>2
<1> QED
    BY <1>7, <1>8, <1>9 DEF MetadataWrite

\* A capability or toml entry.
LEMMA CapabilityStep ==
    ASSUME CacheInv, NEW a \in Anchors, NEW d \in Data, NEW ttl \in Ttls,
           CacheCapabilities(a, d, ttl) \/ FetchAnchorInfo(a, d, ttl)
    PROVE  CacheInv'
<1> DEFINE n == EnforceWritePolicy("caps", EffectiveTtl(ttl, cacheConfig.caps), 0)[1]
           e == [data |-> d, ttl |-> n, stale |-> 0]
<1>1. {"caps", "toml"} \subseteq CacheKinds /\ "caps" \in EntryTypes /\ "toml" \notin EntryTypes
    BY DEF CacheKinds, EntryTypes
<1>2. cacheConfig.caps \in Nat /\ cacheCount \in 0..MaxEntries
    BY DEF CacheInv, CacheConfig
<1>3. n \in Nat
  <2>1. EffectiveTtl(ttl, cacheConfig.caps) \in Nat
      BY <1>2, CacheConstants DEF CacheConstants, EffectiveTtl
  <2> QED
      BY <1>1, <2>1, ClampedIsNat
<1>4. CacheCapabilities(a, d, ttl) =>
          /\ CountNew("caps", a) /\ Put("caps", a, e, n) /\ Written("caps", a)
          /\ UNCHANGED <<clock, policy, cacheConfig>>
    BY DEF CacheCapabilities
<1>5. FetchAnchorInfo(a, d, ttl) =>
          Put("toml", a, e, n) /\ UNCHANGED <<clock, cacheCount, policy, cacheConfig, current>>
    BY DEF FetchAnchorInfo
<1> HIDE DEF n
<1>6. e.data \in Data /\ e.ttl \in Nat /\ e.stale \in Nat
    BY <1>3
<1> HIDE DEF e
<1>7. CASE CacheCapabilities(a, d, ttl)
  <2>1. cacheCount' \in 0..MaxEntries
      BY <1>2, <1>4, <1>7, CacheConstants DEF CacheConstants, CountNew
  <2>2. <<"caps", a>> \in current' /\ current \subseteq current'
      BY <1>4, <1>7 DEF Written
  <2>3. EntriesStep
      BY <1>1, <1>3, <1>4, <1>6, <1>7, <2>2, PutStep
  <2> QED
      BY <1>4, <1>7, <2>1, <2>3, CacheKept
<1>8. CASE FetchAnchorInfo(a, d, ttl)
  <2>1. EntriesStep
      BY <1>1, <1>3, <1>5, <1>6, <1>8, PutStep
  <2> QED
      BY <1>2, <1>5, <1>8, <2>1, CacheKept
<1> QED
    BY <1>7, <1>8

\* A read in the stale window only flags the entry.
LEMMA FlaggingStep ==
    ASSUME CacheInv, NEW a \in Anchors, GetCachedMetadataSwr(a)
    PROVE  CacheInv'
<1> DEFINE n == [cache["meta"][a] EXCEPT !.flag = TRUE]
<1>1. "meta" \in CacheKinds /\ Stored("meta", a)
      /\ UNCHANGED <<clock, cacheCount, policy, cacheConfig, current>>
    BY DEF CacheKinds, GetCachedMetadataSwr
<1>2. cache["meta"][a] \in CacheEntry
    BY <1>1, StoredIsEntry
<1>3. n \in CacheEntry /\ n.at = cache["meta"][a].at /\ n.ttl = cache["meta"][a].ttl
    BY <1>2 DEF CacheEntry
<1>4. cache' = [cache EXCEPT !["meta"][a] = n]
    BY DEF GetCachedMetadataSwr
<1> HIDE DEF n
<1>5. clock - cache["meta"][a].at > cache["meta"][a].ttl
  <2>1. clock \in Nat /\ cache["meta"][a].at \in Nat /\ cache["meta"][a].ttl \in Nat
      BY <1>1, StoredIsEntry DEF CacheInv
  <2>2. MetadataCacheState(cache["meta"][a]) = "Stale"
      BY DEF GetCachedMetadataSwr
  <2>3. ~(Age(cache["meta"][a]) <= cache["meta"][a].ttl)
    <3> SUFFICES ASSUME Age(cache["meta"][a]) <= cache["meta"][a].ttl PROVE FALSE
        OBVIOUS
    <3>1. MetadataCacheState(cache["meta"][a]) = "Fresh"
        BY <2>1 DEF MetadataCacheState, Age
    <3> QED
        BY <2>2, <3>1
  <2> QED
      BY <2>1, <2>3 DEF Age
<1>6. cache \in [CacheKinds -> [Anchors -> CacheEntry \cup {NoEntry}]]
    BY DEF CacheInv
<1>7. /\ cache' \in [CacheKinds -> [Anchors -> CacheEntry \cup {NoEntry}]]
      /\ cache'["meta"][a] = n
      /\ \A j \in CacheKinds, b \in Anchors : <<j, b>> # <<"meta", a>> => cache'[j][b] = cache[j][b]
    BY <1>1, <1>3, <1>4, <1>6
<1>8. ASSUME NEW j \in CacheKinds, NEW b \in Anchors, cache'[j][b] # NoEntry
      PROVE  \/ cache'[j][b] = cache[j][b]
             \/ /\ cache[j][b] # NoEntry
                /\ cache'[j][b].at = cache[j][b].at
                /\ cache'[j][b].ttl = cache[j][b].ttl
                /\ clock - cache[j][b].at > cache[j][b].ttl
  <2>1. CASE j = "meta" /\ b = a
      BY <1>1, <1>3, <1>5, <1>7, <2>1 DEF Stored
  <2>2. CASE ~(j = "meta" /\ b = a)
      BY <1>7, <2>2
  <2> QED
      BY <2>1, <2>2
<1>9. EntriesStep
    BY <1>1, <1>7, <1>8 DEF EntriesStep
<1> QED
    BY <1>1, <1>9, CacheKept DEF CacheInv

\* An invalidation of both counted entries of an anchor, with or without a change of it.
LEMMA InvalidationStep ==
    ASSUME CacheInv, NEW a \in Anchors, InvalidateCacheInternal(a),
           Changes(a) \/ UNCHANGED current, UNCHANGED <<clock, policy, cacheConfig>>
    PROVE  CacheInv'
<1> DEFINE freed == {ka \in EntryTypes \X {a} : Stored(ka[1], ka[2])}
<1>1. freed \in SUBSET (EntryTypes \X Anchors)
    OBVIOUS
<1>2. cache' = Without(freed) /\ cacheCount' = Uncounted(Cardinality(freed))
    BY DEF InvalidateCacheInternal
<1>3. ASSUME NEW k \in EntryTypes, NEW b \in Anchors,
             <<k, b>> \in current, <<k, b>> \notin freed, Stored(k, b)
      PROVE  <<k, b>> \in current'
  <2>1. b # a
    <3> SUFFICES ASSUME b = a PROVE FALSE
        OBVIOUS
    <3>1. <<k, a>> \in EntryTypes \X {a} /\ <<k, a>>[1] = k /\ <<k, a>>[2] = a
        OBVIOUS
    <3> QED
        BY <1>3, <3>1
  <2> QED
      BY <1>3, <2>1 DEF Changes
<1> HIDE DEF freed
<1>4. cacheCount' \in 0..MaxEntries
    BY <1>1, <1>2, FreedIsFinite, UncountedInRange DEF CacheInv
<1>5. EntriesStep
    BY <1>2, <1>3, RemovalStep
<1> QED
    BY <1>4, <1>5, CacheKept

\* Entries that are compacted, and entries the host drops.
LEMMA LapseStep ==
    ASSUME CacheInv,
           \/ \E as \in SUBSET Anchors : CompactCache(as)
           \/ \E k \in CacheKinds, a \in Anchors : Lapse(k, a)
    PROVE  CacheInv'
<1>1. ASSUME NEW as \in SUBSET Anchors, CompactCache(as)
      PROVE  CacheInv'
  <2> DEFINE freed == {ka \in EntryTypes \X as : Compactable(ka[1], ka[2])}
  <2>1. freed \in SUBSET (EntryTypes \X Anchors)
      OBVIOUS
  <2>2. /\ cache' = Without(freed) /\ cacheCount' = Uncounted(Cardinality(freed))
        /\ UNCHANGED <<clock, policy, cacheConfig, current>>
      BY <1>1 DEF CompactCache
  <2> HIDE DEF freed
  <2>3. cacheCount' \in 0..MaxEntries
      BY <2>1, <2>2, FreedIsFinite, UncountedInRange DEF CacheInv
  <2>4. EntriesStep
      BY <2>2, RemovalStep
  <2> QED
      BY <2>2, <2>3, <2>4, CacheKept
<1>2. ASSUME NEW k \in CacheKinds, NEW a \in Anchors, Lapse(k, a)
      PROVE  CacheInv'
  <2>1. /\ cache' = Without({<<k, a>>})
        /\ UNCHANGED <<clock, cacheCount, policy, cacheConfig, current>>
      BY <1>2 DEF Lapse
  <2>2. EntriesStep
      BY <2>1, RemovalStep
  <2> QED
      BY <2>1, <2>2, CacheKept DEF CacheInv
<1> QED
    BY <1>1, <1>2

\* Every call, every change of an anchor and every tick keeps the caches.
LEMMA CacheInvStep ==
    ASSUME CacheInv, \A i \in 1..Len(proposals) : proposals[i].anchor \in Anchors,
           [GovernedCacheNext]_governedCacheVars
    PROVE  CacheInv'
<1>1. CASE UNCHANGED cacheVars
    BY <1>1 DEF cacheVars, CacheInv, NothingOutlivesAChange, Stored
<1>2. CASE CacheTick
  <2>1. /\ clock \in Nat /\ clock' = clock + 1
        /\ UNCHANGED <<cache, cacheCount, policy, cacheConfig, current>>
      BY <1>2 DEF CacheTick, CacheInv
  <2>2. ASSUME NEW k \in CacheKinds, NEW a \in Anchors, Stored(k, a)
        PROVE  Holds(cache[k][a], clock + 1)
    <3>1. cache[k][a].at \in Nat /\ cache[k][a].ttl \in Nat
        BY <2>2, StoredIsEntry
    <3>2. Holds(cache[k][a], clock)
        BY <2>2 DEF CacheInv
    <3> QED
        BY <2>1, <3>1, <3>2 DEF Holds
  <2>3. \A k \in CacheKinds, a \in Anchors : Stored(k, a)' => Holds(cache'[k][a], clock')
      BY <2>1, <2>2 DEF Stored
  <2>4. NothingOutlivesAChange'
      BY <2>1 DEF CacheInv, NothingOutlivesAChange, Stored
  <2> QED
      BY <2>1, <2>3, <2>4 DEF CacheInv
<1>3. ASSUME NEW p \in PolicySets, SetCachePolicySet(p)
      PROVE  CacheInv'
  <2>1. /\ policy' = p /\ p \in [EntryTypes -> CachePolicy]
        /\ \A t \in EntryTypes : ValidPolicy(p[t])
        /\ UNCHANGED <<clock, cache, cacheCount, cacheConfig, current>>
      BY <1>3, CacheDefaults DEF CacheDefaults, SetCachePolicySet
  <2> QED
      BY <2>1 DEF CacheInv, NothingOutlivesAChange, Stored
<1>4. ASSUME NEW c \in CacheConfigs, SetCacheConfig(c)
      PROVE  CacheInv'
  <2>1. /\ cacheConfig' = c /\ c \in CacheConfig
        /\ UNCHANGED <<clock, cache, cacheCount, policy, current>>
      BY <1>4, CacheDefaults DEF CacheDefaults, SetCacheConfig
  <2> QED
      BY <2>1 DEF CacheInv, NothingOutlivesAChange, Stored
<1>5. CASE MetadataNext(Anchors)
    BY <1>3, <1>4, <1>5, MetadataWriteStep, FlaggingStep DEF MetadataNext
<1>6. CASE CapabilityNext(Anchors)
    BY <1>6, CapabilityStep DEF CapabilityNext
<1>7. CASE RemovalNext(Anchors)
  <2>1. ASSUME NEW a \in Anchors, InvalidateCacheForAnchor(a)
        PROVE  CacheInv'
      BY <2>1, InvalidationStep DEF InvalidateCacheForAnchor
  <2> QED
      BY <1>7, <2>1, LapseStep DEF RemovalNext
<1>8. CASE \E a \in Anchors : AnchorChanged(a)
    BY <1>8, InvalidationStep DEF AnchorChanged
<1>9. CASE CgNext(Anchors)
  <2>1. ASSUME NEW i \in 1..Len(proposals), ExecuteCacheInvalidation(i)
        PROVE  CacheInv'
    <3>1. proposals[i].anchor \in Anchors
        OBVIOUS
    <3> QED
        BY <2>1, <3>1, InvalidationStep DEF ExecuteCacheInvalidation
  <2>2. (\E i \in 1..Len(proposals) : ExecuteCacheInvalidation(i)) \/ UNCHANGED cacheVars
      BY <1>9 DEF CgNext, ProposeCacheInvalidation, EndorseCacheInvalidation,
                  SetCacheQuorumThreshold, SetCacheProposalExpiry, ChangeMembers
  <2> QED
      BY <1>1, <2>1, <2>2
<1> QED
    BY <1>1, <1>2, <1>5, <1>6, <1>7, <1>8, <1>9
    DEF GovernedCacheNext, CacheNext, governedCacheVars

\* Which window an entry is in, as MetadataCacheState computes it.
LEMMA StateOfEntry ==
    ASSUME clock \in Nat, NEW e, e.at \in Nat, e.ttl \in Nat, e.stale \in Nat
    PROVE  /\ MetadataCacheState(e) = "Fresh" <=> Age(e) <= e.ttl
           /\ MetadataCacheState(e) = "Stale" <=> e.ttl < Age(e) /\ Age(e) <= e.ttl + e.stale
           /\ MetadataCacheState(e) = "Expired" <=> Age(e) > e.ttl + e.stale
<1> DEFINE age == Age(e)
<1>1. age \in Int
    BY DEF Age
<1> HIDE DEF age
<1>2. CASE age <= e.ttl
    BY <1>1, <1>2 DEF MetadataCacheState, age
<1>3. CASE e.ttl < age /\ age <= e.ttl + e.stale
    BY <1>1, <1>3 DEF MetadataCacheState, age
<1>4. CASE age > e.ttl + e.stale
    BY <1>1, <1>4 DEF MetadataCacheState, age
<1> QED
    BY <1>1, <1>2, <1>3, <1>4

\* The readers agree on every entry that CacheInv allows.
LEMMA ReadersOfCacheInv == CacheInv => ReadersAgree
<1> SUFFICES ASSUME CacheInv, NEW a \in Anchors, Stored("meta", a)
             PROVE  LET e == cache["meta"][a]
                        state == MetadataCacheState(e)
                    IN  /\ StrictServes(e) => state = "Fresh" /\ ~Compactable("meta", a)
                        /\ state = "Fresh" /\ ~StrictServes(e) => Age(e) = e.ttl
                        /\ state = "Expired" => Compactable("meta", a) /\ FreshnessScore(e) = 0
                        /\ Compactable("meta", a) /\ state # "Expired"
                             => Age(e) = e.ttl + e.stale
                        /\ e.flag => state # "Fresh"
    BY DEF ReadersAgree
<1> DEFINE e == cache["meta"][a]
<1>1. "meta" \in CacheKinds
    BY DEF CacheKinds
<1>2. clock \in Nat /\ e.at \in Nat /\ e.ttl \in Nat /\ e.stale \in Nat
    BY <1>1, StoredIsEntry DEF CacheInv
<1>3. Holds(e, clock)
    BY <1>1 DEF CacheInv
<1>4. Compactable("meta", a) <=> e.at + e.ttl + e.stale <= clock
    BY DEF Compactable
<1> HIDE DEF e
<1>5. /\ MetadataCacheState(e) = "Fresh" <=> Age(e) <= e.ttl
      /\ MetadataCacheState(e) = "Expired" <=> Age(e) > e.ttl + e.stale
    BY <1>2, StateOfEntry
<1>6. Age(e) = clock - e.at /\ (StrictServes(e) <=> e.at + e.ttl > clock)
    BY DEF Age, StrictServes
<1>7. StrictServes(e) => MetadataCacheState(e) = "Fresh" /\ ~Compactable("meta", a)
    BY <1>2, <1>4, <1>5, <1>6
<1>8. MetadataCacheState(e) = "Fresh" /\ ~StrictServes(e) => Age(e) = e.ttl
    BY <1>2, <1>5, <1>6
<1>9. MetadataCacheState(e) = "Expired" => Compactable("meta", a) /\ FreshnessScore(e) = 0
  <2>1. MetadataCacheState(e) = "Expired" => FreshnessScore(e) = 0
      BY DEF FreshnessScore
  <2> QED
      BY <1>2, <1>4, <1>5, <1>6, <2>1
<1>10. Compactable("meta", a) /\ MetadataCacheState(e) # "Expired" => Age(e) = e.ttl + e.stale
    BY <1>2, <1>4, <1>5, <1>6
<1>11. e.flag => MetadataCacheState(e) # "Fresh"
    BY <1>2, <1>3, <1>5, <1>6 DEF Holds
<1> QED
    BY <1>7, <1>8, <1>9, <1>10, <1>11 DEF e

-----------------------------------------------------------------------------
(* Invalidation by a quorum *)

Proposal == [anchor : Anchors, endorsements : Seq(Attestors), created : Nat, expiry : Nat,
             executed : BOOLEAN]

ProposalInv ==
    /\ members \subseteq Attestors
    /\ quorum \in Nat
    /\ expiry \in Nat
    /\ proposals \in Seq(Proposal)
    /\ executions \subseteq [proposal : 1..Len(proposals), quorum : Nat, at : Nat]
    /\ QuorumOfAttestors

\* Of a proposal, only its endorsements grow and its flag is set; what was executed was
\* executed with the endorsements it then had, which it keeps.
LEMMA QuorumKept ==
    ASSUME ProposalInv, Len(proposals') >= Len(proposals), proposals' \in Seq(Proposal),
           UNCHANGED executions,
           \A i \in 1..Len(proposals') : IsInjective(proposals'[i].endorsements),
           \A i \in 1..Len(proposals) :
               /\ proposals'[i].created = proposals[i].created
               /\ proposals'[i].expiry = proposals[i].expiry
               /\ proposals'[i].executed = proposals[i].executed
               /\ Len(proposals'[i].endorsements) >= Len(proposals[i].endorsements),
           \A i \in 1..Len(proposals') : i > Len(proposals) => ~proposals'[i].executed
    PROVE  QuorumOfAttestors'
<1>1. /\ Len(proposals) \in Nat /\ Len(proposals') \in Nat
      /\ executions \subseteq [proposal : 1..Len(proposals), quorum : Nat, at : Nat]
      /\ \A i \in 1..Len(proposals) : proposals[i] \in Proposal
      /\ \A i \in 1..Len(proposals') : proposals'[i] \in Proposal
    BY DEF ProposalInv
<1>2. ASSUME NEW i \in 1..Len(proposals')
      PROVE  proposals'[i].executed <=> \E x \in executions : x.proposal = i
  <2>1. CASE i \in 1..Len(proposals)
      BY <2>1 DEF ProposalInv, QuorumOfAttestors
  <2>2. CASE i > Len(proposals)
      BY <1>1, <2>2
  <2> QED
      BY <1>1, <2>1, <2>2
<1>3. ASSUME NEW x \in executions
      PROVE  /\ \A y \in executions : x.proposal = y.proposal => x = y
             /\ Len(proposals'[x.proposal].endorsements) >= x.quorum
             /\ x.at < proposals'[x.proposal].created + proposals'[x.proposal].expiry
  <2> DEFINE i == x.proposal
  <2>1. i \in 1..Len(proposals) /\ i \in 1..Len(proposals') /\ x.quorum \in Nat
      BY <1>1
  <2>2. /\ \A y \in executions : i = y.proposal => x = y
        /\ Len(proposals[i].endorsements) >= x.quorum
        /\ x.at < proposals[i].created + proposals[i].expiry
      BY DEF ProposalInv, QuorumOfAttestors
  <2>3. /\ proposals[i].endorsements \in Seq(Attestors)
        /\ proposals'[i].endorsements \in Seq(Attestors)
      BY <1>1, <2>1 DEF Proposal
  <2>4. /\ Len(proposals[i].endorsements) \in Nat
        /\ Len(proposals'[i].endorsements) \in Nat
      BY <2>3
  <2>5. /\ proposals'[i].created = proposals[i].created
        /\ proposals'[i].expiry = proposals[i].expiry
        /\ Len(proposals'[i].endorsements) >= Len(proposals[i].endorsements)
      BY <2>1
  <2>6. Len(proposals'[i].endorsements) >= x.quorum
      BY <2>1, <2>2, <2>4, <2>5
  <2> QED
      BY <2>2, <2>5, <2>6
<1> QED
    BY <1>2, <1>3 DEF QuorumOfAttestors

\* A new proposal has the endorsement of whoever made it.
LEMMA ProposeStep ==
    ASSUME CacheInv, ProposalInv, NEW caller \in Attestors, NEW a \in Anchors,
           ProposeCacheInvalidation(caller, a)
    PROVE  ProposalInv'
<1> DEFINE p == [anchor |-> a, endorsements |-> <<caller>>, created |-> clock,
                 expiry |-> expiry, executed |-> FALSE]
<1>1. proposals' = Append(proposals, p) /\ UNCHANGED <<members, quorum, expiry, executions>>
    BY DEF ProposeCacheInvalidation
<1>2. p \in Proposal
    BY DEF Proposal, CacheInv, ProposalInv
<1>3. IsInjective(p.endorsements) /\ ~p.executed
    BY DEF IsInjective
<1> HIDE DEF p
<1>4. proposals \in Seq(Proposal)
    BY DEF ProposalInv
<1>5. /\ proposals' \in Seq(Proposal)
      /\ Len(proposals') = Len(proposals) + 1
      /\ \A i \in 1..Len(proposals) : proposals'[i] = proposals[i]
      /\ proposals'[Len(proposals) + 1] = p
    BY <1>1, <1>2, <1>4
<1>6. \A i \in 1..Len(proposals) :
        /\ IsInjective(proposals[i].endorsements)
        /\ proposals[i].endorsements \in Seq(Attestors)
        /\ Len(proposals[i].endorsements) \in Nat
  <2> SUFFICES ASSUME NEW i \in 1..Len(proposals)
               PROVE  /\ IsInjective(proposals[i].endorsements)
                      /\ proposals[i].endorsements \in Seq(Attestors)
                      /\ Len(proposals[i].endorsements) \in Nat
      OBVIOUS
  <2>1. proposals[i] \in Proposal
      BY <1>4, ElementOfSeq
  <2>2. proposals[i].endorsements \in Seq(Attestors)
      BY <2>1 DEF Proposal
  <2> QED
      BY <2>2 DEF ProposalInv, QuorumOfAttestors
<1>7. \A i \in 1..Len(proposals') : i \in 1..Len(proposals) \/ i = Len(proposals) + 1
    BY <1>4, <1>5
<1>8. QuorumOfAttestors'
  <2>1. \A i \in 1..Len(proposals') : IsInjective(proposals'[i].endorsements)
      BY <1>3, <1>5, <1>6, <1>7
  <2>2. \A i \in 1..Len(proposals') : i > Len(proposals) => ~proposals'[i].executed
      BY <1>3, <1>4, <1>5, <1>7
  <2>3. \A i \in 1..Len(proposals) :
          /\ proposals'[i].created = proposals[i].created
          /\ proposals'[i].expiry = proposals[i].expiry
          /\ proposals'[i].executed = proposals[i].executed
          /\ Len(proposals'[i].endorsements) >= Len(proposals[i].endorsements)
      BY <1>5, <1>6
  <2>4. Len(proposals') >= Len(proposals)
      BY <1>4, <1>5
  <2> QED
      BY <1>1, <1>5, <2>1, <2>2, <2>3, <2>4, QuorumKept
<1>9. executions' \subseteq [proposal : 1..Len(proposals'), quorum : Nat, at : Nat]
  <2>1. 1..Len(proposals) \subseteq 1..Len(proposals')
      BY <1>4, <1>5
  <2> QED
      BY <1>1, <2>1 DEF ProposalInv
<1> QED
    BY <1>1, <1>5, <1>8, <1>9 DEF ProposalInv

\* An endorsement is another attestor's.
LEMMA EndorseStep ==
    ASSUME ProposalInv, NEW caller \in Attestors, NEW i \in 1..Len(proposals),
           EndorseCacheInvalidation(caller, i)
    PROVE  ProposalInv'
<1> DEFINE ends == proposals[i].endorsements
           p == [proposals[i] EXCEPT !.endorsements = Append(ends, caller)]
<1>1. /\ proposals' = [proposals EXCEPT ![i] = p]
      /\ UNCHANGED <<members, quorum, expiry, executions>>
      /\ ~Contains(ends, caller)
    BY DEF EndorseCacheInvalidation
<1>2. proposals \in Seq(Proposal) /\ proposals[i] \in Proposal
    BY DEF ProposalInv
<1>3. ends \in Seq(Attestors) /\ IsInjective(ends)
    BY <1>2 DEF Proposal, ProposalInv, QuorumOfAttestors
<1>4. \A j \in 1..Len(ends) : ends[j] # caller
    BY <1>1, <1>3 DEF Contains
<1> DEFINE more == Append(ends, caller)
<1> HIDE DEF ends
<1>5. /\ more \in Seq(Attestors)
      /\ Len(more) = Len(ends) + 1
      /\ \A j \in 1..Len(ends) : more[j] = ends[j]
      /\ more[Len(ends) + 1] = caller
    BY <1>3
<1> HIDE DEF more
<1>6. IsInjective(more)
  <2>1. DOMAIN more = 1..(Len(ends) + 1) /\ DOMAIN ends = 1..Len(ends) /\ Len(ends) \in Nat
      BY <1>3, <1>5
  <2>2. ASSUME NEW j \in DOMAIN more, NEW k \in DOMAIN more, more[j] = more[k]
        PROVE  j = k
    <3>1. CASE j \in 1..Len(ends) /\ k \in 1..Len(ends)
        BY <1>3, <1>5, <2>1, <2>2, <3>1 DEF IsInjective
    <3>2. CASE j = Len(ends) + 1 /\ k \in 1..Len(ends)
        BY <1>4, <1>5, <2>2, <3>2
    <3>3. CASE j \in 1..Len(ends) /\ k = Len(ends) + 1
        BY <1>4, <1>5, <2>2, <3>3
    <3>4. CASE j = Len(ends) + 1 /\ k = Len(ends) + 1
        BY <3>4
    <3> QED
        BY <2>1, <3>1, <3>2, <3>3, <3>4
  <2> QED
      BY <2>2 DEF IsInjective
<1>7. /\ p \in Proposal
      /\ p.endorsements = more
      /\ p.created = proposals[i].created /\ p.expiry = proposals[i].expiry
      /\ p.executed = proposals[i].executed
    BY <1>2, <1>5 DEF Proposal, more
<1> HIDE DEF p
<1>8. /\ proposals' \in Seq(Proposal)
      /\ Len(proposals') = Len(proposals)
      /\ proposals'[i] = p
      /\ \A j \in 1..Len(proposals) : j # i => proposals'[j] = proposals[j]
    BY <1>1, <1>2, <1>7
<1>9. ASSUME NEW j \in 1..Len(proposals)
      PROVE  /\ IsInjective(proposals'[j].endorsements)
             /\ proposals'[j].created = proposals[j].created
             /\ proposals'[j].expiry = proposals[j].expiry
             /\ proposals'[j].executed = proposals[j].executed
             /\ Len(proposals'[j].endorsements) >= Len(proposals[j].endorsements)
  <2>1. CASE j = i
    <3>1. Len(more) >= Len(ends)
        BY <1>3, <1>5
    <3> QED
        BY <1>6, <1>7, <1>8, <2>1, <3>1 DEF ends
  <2>2. CASE j # i
    <3>0. proposals[j] \in Proposal
        BY <1>2, ElementOfSeq
    <3>1. proposals[j].endorsements \in Seq(Attestors)
        BY <3>0 DEF Proposal
    <3>2. Len(proposals[j].endorsements) \in Nat
        BY <3>1
    <3> QED
        BY <1>8, <2>2, <3>2 DEF ProposalInv, QuorumOfAttestors
  <2> QED
      BY <2>1, <2>2
<1>10. QuorumOfAttestors'
  <2>1. Len(proposals) \in Nat /\ Len(proposals') >= Len(proposals)
      BY <1>2, <1>8
  <2>2. \A j \in 1..Len(proposals') : ~(j > Len(proposals))
      BY <1>8, <2>1
  <2> QED
      BY <1>1, <1>8, <1>9, <2>1, <2>2, QuorumKept
<1> QED
    BY <1>1, <1>8, <1>10 DEF ProposalInv

\* An execution is the first of its proposal, within its lifetime and with the quorum
\* then in force.
LEMMA ExecuteStep ==
    ASSUME CacheInv, ProposalInv, NEW i \in 1..Len(proposals), ExecuteCacheInvalidation(i)
    PROVE  ProposalInv'
<1> DEFINE p == [proposals[i] EXCEPT !.executed = TRUE]
           new == [proposal |-> i, quorum |-> quorum, at |-> clock]
<1>1. /\ proposals' = [proposals EXCEPT ![i] = p]
      /\ executions' = executions \cup {new}
      /\ UNCHANGED <<members, quorum, expiry>>
      /\ ~proposals[i].executed
      /\ Len(proposals[i].endorsements) >= quorum
      /\ ~(clock >= proposals[i].created + proposals[i].expiry)
    BY DEF ExecuteCacheInvalidation, ProposalExpired
<1>2. proposals \in Seq(Proposal) /\ quorum \in Nat /\ clock \in Nat
    BY DEF ProposalInv, CacheInv
<1>3. proposals[i] \in Proposal
    BY <1>2, ElementOfSeq
<1>4. /\ p \in Proposal /\ p.executed
      /\ p.endorsements = proposals[i].endorsements
      /\ p.created = proposals[i].created /\ p.expiry = proposals[i].expiry
    BY <1>3 DEF Proposal
<1>5. new.proposal = i /\ new.quorum = quorum /\ new.at = clock
      /\ new \in [proposal : 1..Len(proposals), quorum : Nat, at : Nat]
    BY <1>2
<1> HIDE DEF p, new
<1>6. /\ proposals' \in Seq(Proposal)
      /\ Len(proposals') = Len(proposals)
      /\ proposals'[i] = p
      /\ \A j \in 1..Len(proposals) : j # i => proposals'[j] = proposals[j]
    BY <1>1, <1>2, <1>4
<1>7. \A j \in 1..Len(proposals) :
        /\ IsInjective(proposals[j].endorsements)
        /\ proposals[j].executed <=> \E x \in executions : x.proposal = j
    BY DEF ProposalInv, QuorumOfAttestors
<1>8. \A x \in executions :
        /\ x.proposal \in 1..Len(proposals) /\ x.proposal # i
        /\ \A y \in executions : x.proposal = y.proposal => x = y
        /\ Len(proposals[x.proposal].endorsements) >= x.quorum
        /\ x.at < proposals[x.proposal].created + proposals[x.proposal].expiry
    BY <1>1, <1>7 DEF ProposalInv, QuorumOfAttestors
<1>9. ASSUME NEW j \in 1..Len(proposals)
      PROVE  /\ IsInjective(proposals'[j].endorsements)
             /\ proposals'[j].executed <=> \E x \in executions' : x.proposal = j
  <2>1. CASE j = i
      BY <1>1, <1>4, <1>5, <1>6, <1>7, <2>1
  <2>2. CASE j # i
      BY <1>1, <1>5, <1>6, <1>7, <2>2
  <2> QED
      BY <2>1, <2>2
<1>10. ASSUME NEW x \in executions'
       PROVE  /\ \A y \in executions' : x.proposal = y.proposal => x = y
              /\ Len(proposals'[x.proposal].endorsements) >= x.quorum
              /\ x.at < proposals'[x.proposal].created + proposals'[x.proposal].expiry
  <2>1. CASE x = new
    <3>1. clock < proposals[i].created + proposals[i].expiry
      <4>1. proposals[i].created \in Nat /\ proposals[i].expiry \in Nat
          BY <1>3 DEF Proposal
      <4> QED
          BY <1>1, <1>2, <4>1
    <3>2. \A y \in executions' : x.proposal = y.proposal => x = y
        BY <1>1, <1>5, <1>8, <2>1
    <3> QED
        BY <1>1, <1>4, <1>5, <1>6, <2>1, <3>1, <3>2
  <2>2. CASE x \in executions
      BY <1>1, <1>5, <1>6, <1>8, <2>2
  <2> QED
      BY <1>1, <2>1, <2>2
<1>11. QuorumOfAttestors'
    BY <1>6, <1>9, <1>10 DEF QuorumOfAttestors
<1>12. executions' \subseteq [proposal : 1..Len(proposals'), quorum : Nat, at : Nat]
    BY <1>1, <1>5, <1>6 DEF ProposalInv
<1> QED
    BY <1>1, <1>6, <1>11, <1>12 DEF ProposalInv

\* Every call keeps the proposals and what was executed.
LEMMA ProposalInvStep ==
    ASSUME CacheInv, ProposalInv, [GovernedCacheNext]_governedCacheVars
    PROVE  ProposalInv'
<1>1. CASE UNCHANGED <<proposals, executions>> /\ members' \subseteq Attestors
           /\ quorum' \in Nat /\ expiry' \in Nat
    BY <1>1 DEF ProposalInv, QuorumOfAttestors
<1>2. members \subseteq Attestors /\ quorum \in Nat /\ expiry \in Nat
    BY DEF ProposalInv
<1>3. CASE UNCHANGED proposalVars
    BY <1>1, <1>2, <1>3 DEF proposalVars
<1>4. ASSUME NEW n \in Nat, SetCacheQuorumThreshold(n) \/ SetCacheProposalExpiry(n)
      PROVE  ProposalInv'
    BY <1>1, <1>2, <1>4 DEF SetCacheQuorumThreshold, SetCacheProposalExpiry
<1>5. CASE ChangeMembers
    BY <1>1, <1>2, <1>5 DEF ChangeMembers
<1>6. 0..MaxQuorum \subseteq Nat /\ 0..MaxExpiry \subseteq Nat
    OBVIOUS
<1>7. CASE CgNext(Anchors)
    BY <1>4, <1>5, <1>6, <1>7, ProposeStep, EndorseStep, ExecuteStep DEF CgNext
<1> QED
    BY <1>3, <1>7 DEF GovernedCacheNext, governedCacheVars

\* Whatever is cached, administered, changed and proposed, in whatever order: every
\* reader sees the same freshness of an entry, no entry outlives a change of its anchor,
\* and a collective invalidation happened once, in time, and with endorsements of as
\* many different attestors as the quorum then asked for.
THEOREM CachesSoundHolds == GovernedCacheSpec => []CachesSound
<1> DEFINE Inv == CacheInv /\ ProposalInv
<1>1. CacheInit /\ CgInit => Inv
  <2> SUFFICES ASSUME CacheInit, CgInit PROVE Inv
      OBVIOUS
  <2>1. CacheInv
    <3>1. cache = [k \in CacheKinds |-> [a \in Anchors |-> NoEntry]]
        BY DEF CacheInit
    <3>2. \A k \in CacheKinds, a \in Anchors : ~Stored(k, a)
        BY <3>1 DEF Stored
    <3>3. cache \in [CacheKinds -> [Anchors -> CacheEntry \cup {NoEntry}]]
        BY <3>1
    <3>4. NothingOutlivesAChange
        BY <3>2 DEF NothingOutlivesAChange, EntryTypes, CacheKinds
    <3> QED
        BY <3>2, <3>3, <3>4, CacheConstants, CacheDefaults
        DEF CacheConstants, CacheDefaults, CacheInit, CacheInv
  <2>2. ProposalInv
      BY CacheGovernanceConstants
      DEF CacheGovernanceConstants, CgInit, ProposalInv, QuorumOfAttestors
  <2> QED
      BY <2>1, <2>2
<1>2. Inv /\ [GovernedCacheNext]_governedCacheVars => Inv'
  <2> SUFFICES ASSUME Inv, [GovernedCacheNext]_governedCacheVars PROVE Inv'
      OBVIOUS
  <2>1. \A i \in 1..Len(proposals) : proposals[i].anchor \in Anchors
    <3> SUFFICES ASSUME NEW i \in 1..Len(proposals) PROVE proposals[i].anchor \in Anchors
        OBVIOUS
    <3>1. proposals[i] \in Proposal
        BY ElementOfSeq DEF ProposalInv
    <3> QED
        BY <3>1 DEF Proposal
  <2> QED
      BY <2>1, CacheInvStep, ProposalInvStep
<1>3. Inv => CachesSound
  <2> SUFFICES ASSUME Inv PROVE CachesSound
      OBVIOUS
  <2>1. CacheTypeOK
      BY StoredIsEntry DEF CacheInv, CacheTypeOK
  <2> QED
      BY <2>1, ReadersOfCacheInv DEF CacheInv, ProposalInv, CachesSound
<1> HIDE DEF Inv
<1> QED
    BY <1>1, <1>2, <1>3, PTL DEF GovernedCacheSpec

-----------------------------------------------------------------------------
(* The search of is_reachable *)

\* The rounds of is_reachable exist: each round's set is the last one's with its
\* prerequisites, and the search returns the last of them.
LEMMA FrontierRounds ==
    ASSUME NEW a \in Anchors, NEW start \in Codes
    PROVE  \E f : /\ f[0] = {start}
                  /\ \A n \in Nat : n < Cardinality(Codes) =>
                         f[n + 1] = f[n] \cup Prerequisites(a, f[n])
                  /\ Frontier(a, start) = f[Cardinality(Codes)]
<1> DEFINE N == Cardinality(Codes)
           Next(ss) == ss \cup Prerequisites(a, ss)
           Rounds(f, m) == f = [n \in 0..m |-> IF n = 0 THEN {start} ELSE Next(f[n - 1])]
           T == {m \in Nat : \E f : Rounds(f, m)}
<1>0. N \in Nat
    BY ServiceConstants, FS_CardinalityType
<1>1. 0 \in T
  <2>1. Rounds([n \in 0..0 |-> {start}], 0)
      BY Zenon, SMT
  <2> QED
      BY <2>1
<1>2. \A m \in Nat : m \in T => m + 1 \in T
  <2> SUFFICES ASSUME NEW m \in Nat, m \in T PROVE m + 1 \in T
      OBVIOUS
  <2> HIDE DEF Next
  <2>1. PICK f : Rounds(f, m)
      OBVIOUS
  <2> DEFINE g == [n \in 0..(m + 1) |-> IF n = m + 1 THEN Next(f[m]) ELSE f[n]]
  <2>2. \A n \in 0..(m + 1) : g[n] = IF n = 0 THEN {start} ELSE Next(g[n - 1])
    <3> SUFFICES ASSUME NEW n \in 0..(m + 1)
                 PROVE  g[n] = IF n = 0 THEN {start} ELSE Next(g[n - 1])
        OBVIOUS
    <3>1. CASE n = 0
        BY <2>1, <3>1
    <3>2. CASE n # 0 /\ n # m + 1
      <4>1. n \in 0..m /\ n - 1 \in 0..m
          BY <3>2
      <4>2. g[n] = f[n] /\ g[n - 1] = f[n - 1]
          BY <4>1
      <4>3. f[n] = Next(f[n - 1])
          BY <2>1, <3>2, <4>1
      <4> QED
          BY <3>2, <4>2, <4>3
    <3>3. CASE n = m + 1
        BY <3>3
    <3> QED
        BY <3>1, <3>2, <3>3
  <2>3. Rounds(g, m + 1)
    <3> DEFINE h == [n \in 0..(m + 1) |-> IF n = 0 THEN {start} ELSE Next(g[n - 1])]
    <3>1. \A n \in 0..(m + 1) : g[n] = h[n]
      <4> HIDE DEF g
      <4> QED
        BY <2>2
    <3>2. g = h
      BY <3>1
    <3> QED
      BY <3>2
  <2> HIDE DEF g
  <2>4. \E h : Rounds(h, m + 1)
    BY <2>3
  <2> QED
    BY <2>4
<1>3. N \in T
  <2> HIDE DEF T, N
  <2> QED
    BY <1>0, <1>1, <1>2, NaturalsBySuccessor
<1> DEFINE F == CHOOSE f : Rounds(f, N)
<1>4. Rounds(F, N)
  <2>1. \E f : Rounds(f, N)
      BY <1>3
  <2> HIDE DEF Rounds
  <2> QED
      BY <2>1
<1>5. Frontier(a, start) = F[N]
    BY DEF Frontier
<1> HIDE DEF F
<1>6. F[0] = {start} /\ \A n \in Nat : n < N => F[n + 1] = Next(F[n])
  <2> HIDE DEF Next, N
  <2>1. \A n \in 0..N : F[n] = IF n = 0 THEN {start} ELSE Next(F[n - 1])
    BY <1>4
  <2>2. 0 \in 0..N
    BY <1>0
  <2>3. F[0] = {start}
    BY <2>1, <2>2
  <2>4. ASSUME NEW n \in Nat, n < N PROVE F[n + 1] = Next(F[n])
    <3>1. n + 1 \in 0..N /\ n + 1 # 0 /\ (n + 1) - 1 = n
      BY <1>0, <2>4
    <3> QED
      BY <2>1, <3>1
  <2> QED
    BY <2>3, <2>4
<1> QED
    BY <1>5, <1>6

\* The search is complete: what is_reachable returns holds the start, stays among
\* the codes, and holds the prerequisites of all it holds.  A round that adds
\* nothing is the last to add anything, and no more rounds than codes can add.
LEMMA FrontierIsClosed ==
    ASSUME NEW a \in Anchors, NEW start \in Codes, edges[a] \subseteq Codes \X Codes
    PROVE  /\ start \in Frontier(a, start)
           /\ Frontier(a, start) \subseteq Codes
           /\ \A e \in edges[a] : e[1] \in Frontier(a, start) => e[2] \in Frontier(a, start)
<1> DEFINE N == Cardinality(Codes)
<1>1. N \in Nat /\ IsFiniteSet(Codes)
    BY ServiceConstants, FS_CardinalityType
<1>2. PICK f : /\ f[0] = {start}
               /\ \A n \in Nat : n < N => f[n + 1] = f[n] \cup Prerequisites(a, f[n])
               /\ Frontier(a, start) = f[N]
    BY FrontierRounds
<1>3. \A ss : Prerequisites(a, ss) \subseteq Codes
    BY DEF Prerequisites
<1> DEFINE Closed(ss) == Prerequisites(a, ss) \subseteq ss
           Sound(n) == /\ start \in f[n] /\ f[n] \subseteq Codes
                       /\ Closed(f[n]) \/ Cardinality(f[n]) >= n + 1
           T == {n \in Nat : n <= N => Sound(n)}
<1>4. 0 \in T
  <2>1. f[0] = {start} /\ Cardinality(f[0]) = 1
    BY <1>2, FS_Singleton
  <2>2. Cardinality(f[0]) >= 0 + 1 /\ start \in f[0] /\ f[0] \subseteq Codes
    BY <2>1
  <2>3. Sound(0)
    BY <2>2
  <2> QED
    BY <2>3
<1>5. ASSUME NEW n \in Nat, n \in T PROVE n + 1 \in T
  <2> SUFFICES ASSUME n + 1 <= N PROVE Sound(n + 1)
    OBVIOUS
  <2>1. Sound(n) /\ n < N
    BY <1>1, <1>5
  <2>2. f[n + 1] = f[n] \cup Prerequisites(a, f[n])
    BY <1>2, <2>1
  <2>3. start \in f[n + 1] /\ f[n + 1] \subseteq Codes
    BY <1>3, <2>1, <2>2
  <2>4. CASE Closed(f[n])
    <3>1. f[n + 1] = f[n]
      BY <2>2, <2>4
    <3> QED
      BY <2>3, <2>4, <3>1
  <2>5. CASE ~Closed(f[n])
    <3>1. f[n] \subseteq f[n + 1] /\ f[n] # f[n + 1]
      BY <2>2, <2>5
    <3>2. IsFiniteSet(f[n + 1]) /\ Cardinality(f[n + 1]) \in Nat
      BY <1>1, <2>3, FS_Subset, FS_CardinalityType
    <3>3. IsFiniteSet(f[n]) /\ Cardinality(f[n]) \in Nat
      BY <1>1, <2>1, FS_Subset, FS_CardinalityType
    <3>4. Cardinality(f[n]) <= Cardinality(f[n + 1]) /\ Cardinality(f[n]) # Cardinality(f[n + 1])
      BY <3>1, <3>2, FS_Subset
    <3>5. Cardinality(f[n]) >= n + 1
      BY <2>1, <2>5
    <3>6. Cardinality(f[n + 1]) >= (n + 1) + 1
      BY <3>2, <3>3, <3>4, <3>5
    <3> QED
      BY <2>3, <3>6
  <2> QED
    BY <2>4, <2>5
<1>6. N \in T
  <2> HIDE DEF T, N
  <2> QED
    BY <1>1, <1>4, <1>5, NaturalsBySuccessor
<1>7. Sound(N)
    BY <1>1, <1>6
<1>8. Closed(f[N])
  <2>1. Cardinality(f[N]) <= N /\ Cardinality(f[N]) \in Nat
    BY <1>1, <1>7, FS_Subset, FS_CardinalityType
  <2> QED
    BY <1>1, <1>7, <2>1
<1>9. \A e \in edges[a] : e[1] \in f[N] => e[2] \in f[N]
    BY <1>8 DEF Prerequisites
<1> QED
    BY <1>2, <1>7, <1>9

-----------------------------------------------------------------------------
(* The order of the services *)

\* The dependency graph of an anchor can be ordered.
Ordered(es, rank) ==
    /\ rank \in [Codes -> 1..Cardinality(Codes)]
    /\ \A e \in es : rank[e[2]] < rank[e[1]]

\* How many of a set of services rank at most as high as a service.
Below(rank, ss, c) == {x \in ss : rank[x] <= rank[c]}

\* Positions within a set of services start at 1, do not exceed its size, and follow the ranks.
LEMMA PositionsFollowRanks ==
    ASSUME NEW rank \in [Codes -> Nat], NEW ss \in SUBSET Codes
    PROVE  /\ Cardinality(ss) \in Nat
           /\ \A c \in Codes : Cardinality(Below(rank, ss, c)) \in 0..Cardinality(ss)
           /\ \A c \in ss : Cardinality(Below(rank, ss, c)) >= 1
           /\ \A c \in Codes, d \in ss : rank[c] < rank[d] =>
                 Cardinality(Below(rank, ss, c)) < Cardinality(Below(rank, ss, d))
<1>1. IsFiniteSet(ss) /\ Cardinality(ss) \in Nat
    BY ServiceConstants, FS_Subset, FS_CardinalityType
<1>2. ASSUME NEW c \in Codes
      PROVE  /\ IsFiniteSet(Below(rank, ss, c))
             /\ Cardinality(Below(rank, ss, c)) \in 0..Cardinality(ss)
  <2>1. Below(rank, ss, c) \in SUBSET ss
    BY DEF Below
  <2>2. IsFiniteSet(Below(rank, ss, c)) /\ Cardinality(Below(rank, ss, c)) <= Cardinality(ss)
    BY <1>1, <2>1, FS_Subset
  <2>3. Cardinality(Below(rank, ss, c)) \in Nat
    BY <2>2, FS_CardinalityType
  <2> QED
    BY <1>1, <2>2, <2>3
<1>3. ASSUME NEW c \in ss PROVE Cardinality(Below(rank, ss, c)) >= 1
  <2>1. c \in Below(rank, ss, c)
    BY DEF Below
  <2>2. Cardinality(Below(rank, ss, c)) # 0
    BY <1>2, <2>1, FS_EmptySet
  <2> QED
    BY <1>2, <2>2
<1>4. ASSUME NEW c \in Codes, NEW d \in ss, rank[c] < rank[d]
      PROVE  Cardinality(Below(rank, ss, c)) < Cardinality(Below(rank, ss, d))
  <2>1. Below(rank, ss, c) \subseteq Below(rank, ss, d)
    <3>1. \A x \in ss : rank[x] <= rank[c] => rank[x] <= rank[d]
      BY <1>4
    <3> QED
      BY <3>1 DEF Below
  <2>2. d \in Below(rank, ss, d) /\ d \notin Below(rank, ss, c)
    BY <1>4 DEF Below
  <2>3. Cardinality(Below(rank, ss, c)) <= Cardinality(Below(rank, ss, d))
        /\ Cardinality(Below(rank, ss, c)) # Cardinality(Below(rank, ss, d))
    BY <1>2, <2>1, <2>2, FS_Subset
  <2> QED
    BY <1>2, <2>3
<1> QED
    BY <1>1, <1>2, <1>3, <1>4

\* A graph that can be ordered still can be after an edge from outside a closed set of
\* services into it: all of the set is put before all that is outside.
LEMMA EdgeIntoClosedSet ==
    ASSUME NEW es \in SUBSET (Codes \X Codes), NEW rank, Ordered(es, rank),
           NEW set \in SUBSET Codes, \A e \in es : e[1] \in set => e[2] \in set,
           NEW d \in set, NEW s \in Codes \ set
    PROVE  \E better : Ordered(es \cup {<<s, d>>}, better)
<1> DEFINE N == Cardinality(Codes)
           rest == Codes \ set
           In(c) == Cardinality(Below(rank, set, c))
           Out(c) == Cardinality(Below(rank, rest, c))
           better == [c \in Codes |-> IF c \in set THEN In(c) ELSE Cardinality(set) + Out(c)]
<1>1. rank \in [Codes -> Nat]
    BY DEF Ordered
<1>2. /\ Cardinality(set) \in Nat
      /\ \A c \in Codes : In(c) \in 0..Cardinality(set)
      /\ \A c \in set : In(c) >= 1
      /\ \A c \in Codes, e \in set : rank[c] < rank[e] => In(c) < In(e)
    BY <1>1, PositionsFollowRanks
<1>3. /\ Cardinality(rest) \in Nat
      /\ \A c \in Codes : Out(c) \in 0..Cardinality(rest)
      /\ \A c \in rest : Out(c) >= 1
      /\ \A c \in Codes, e \in rest : rank[c] < rank[e] => Out(c) < Out(e)
    BY <1>1, PositionsFollowRanks
<1>4. Cardinality(set) + Cardinality(rest) = N /\ N \in Nat
  <2>1. set \cap Codes = set /\ Codes \cap set = set
    OBVIOUS
  <2>2. Cardinality(Codes \ set) = Cardinality(Codes) - Cardinality(Codes \cap set)
    BY ServiceConstants, FS_Difference
  <2>3. N \in Nat
    BY ServiceConstants, FS_CardinalityType
  <2>4. Cardinality(rest) = N - Cardinality(set)
    BY <2>1, <2>2
  <2> HIDE DEF rest, N
  <2> QED
    BY <1>2, <1>3, <2>3, <2>4
<1> HIDE DEF In, Out, N
<1>5. \A c \in Codes : better[c] = IF c \in set THEN In(c) ELSE Cardinality(set) + Out(c)
    OBVIOUS
<1>6. better \in [Codes -> 1..N]
  <2>1. \A c \in set : In(c) \in 1..N
    BY <1>2, <1>3, <1>4
  <2>2. \A c \in rest : Cardinality(set) + Out(c) \in 1..N
    <3> SUFFICES ASSUME NEW c \in rest PROVE Cardinality(set) + Out(c) \in 1..N
      OBVIOUS
    <3>1. Out(c) \in 0..Cardinality(rest) /\ Out(c) >= 1
      BY <1>3
    <3> HIDE DEF rest
    <3> QED
      BY <1>2, <1>3, <1>4, <3>1
  <2> QED
    BY <2>1, <2>2
<1> HIDE DEF better
<1>7. ASSUME NEW e \in es PROVE better[e[2]] < better[e[1]]
  <2>1. e[1] \in Codes /\ e[2] \in Codes /\ rank[e[2]] < rank[e[1]]
    BY DEF Ordered
  <2>2. CASE e[1] \in set
    BY <1>2, <1>5, <2>1, <2>2
  <2>3. CASE e[1] \notin set /\ e[2] \in set
    BY <1>2, <1>3, <1>5, <2>1, <2>3
  <2>4. CASE e[1] \notin set /\ e[2] \notin set
    BY <1>2, <1>3, <1>5, <2>1, <2>4
  <2> QED
    BY <2>2, <2>3, <2>4
<1>8. better[d] < better[s]
    BY <1>2, <1>3, <1>5
<1>9. \A e \in es \cup {<<s, d>>} : better[e[2]] < better[e[1]]
    BY <1>7, <1>8
<1> QED
    BY <1>6, <1>9 DEF Ordered, N

-----------------------------------------------------------------------------
(* The inductive invariant *)

Retirements == UNION {[known -> Retirement] : known \in SUBSET Codes}
Window == [anchor : Anchors, start : Times, end : Times, affected : SUBSET Codes]

TogglesDisjoint == \A a \in Anchors : toggles[a].enabled \cap toggles[a].disabled = {}
ProfileAgrees == \A a \in Anchors : services[a] # NoEntry => profile[a] = services[a].codes

\* Two windows of an anchor that may both come into force.
Rivals(v, w) ==
    NoEntry \notin {v, w} /\ v.anchor = w.anchor /\ v.start <= v.end /\ w.start <= w.end

WindowsApart ==
    \A i, j \in 1..Len(windows) :
        i < j /\ Rivals(windows[i], windows[j]) =>
            windows[i].end < windows[j].start \/ windows[j].end < windows[i].start

DependenciesOrdered == \A a \in Anchors : \E rank : Ordered(edges[a], rank)

ServiceInv ==
    /\ ServiceTypeOK
    /\ TogglesDisjoint
    /\ ProfileAgrees
    /\ WindowsApart
    /\ DependenciesOrdered

LEMMA ServiceInvInit == ServiceInit => ServiceInv
<1> SUFFICES ASSUME ServiceInit PROVE ServiceInv
    OBVIOUS
<1>1. ServiceTypeOK
  <2>1. <<>> \in Seq([anchor : Anchors, services : SUBSET Codes])
    BY EmptySeq
  <2>2. <<>> \in Seq(Window \cup {NoEntry})
    BY EmptySeq
  <2> QED
    BY <2>1, <2>2 DEF ServiceInit, ServiceTypeOK, Window
<1>2. TogglesDisjoint /\ ProfileAgrees
    BY DEF ServiceInit, TogglesDisjoint, ProfileAgrees
<1>3. WindowsApart
  <2>1. Len(windows) = 0
    BY EmptySeq DEF ServiceInit
  <2> QED
    BY <2>1 DEF WindowsApart
<1>4. DependenciesOrdered
  <2> SUFFICES ASSUME NEW a \in Anchors PROVE \E rank : Ordered(edges[a], rank)
    BY DEF DependenciesOrdered
  <2>1. \A c \in Codes : 1 \in 1..Cardinality(Codes)
    BY ServiceConstants, FS_CardinalityType, FS_EmptySet
  <2>2. Ordered(edges[a], [c \in Codes |-> 1])
    BY <2>1 DEF Ordered, ServiceInit
  <2> QED
    BY <2>2
<1> QED
    BY <1>1, <1>2, <1>3, <1>4 DEF ServiceInv

\* What a step leaves alone stays as sound as it was.
LEMMA ServicesUnchanged ==
    ASSUME ServiceInv
    PROVE  /\ UNCHANGED <<services, profile>> => ProfileAgrees'
           /\ UNCHANGED toggles => TogglesDisjoint'
           /\ UNCHANGED windows => WindowsApart'
           /\ UNCHANGED edges => DependenciesOrdered'
<1>1. ASSUME UNCHANGED <<services, profile>> PROVE ProfileAgrees'
    BY <1>1 DEF ServiceInv, ProfileAgrees
<1>2. ASSUME UNCHANGED toggles PROVE TogglesDisjoint'
    BY <1>2 DEF ServiceInv, TogglesDisjoint
<1>3. ASSUME UNCHANGED windows PROVE WindowsApart'
    BY <1>3 DEF ServiceInv, WindowsApart, Rivals
<1>4. ASSUME UNCHANGED edges PROVE DependenciesOrdered'
  <2> SUFFICES ASSUME NEW a \in Anchors PROVE \E rank : Ordered(edges'[a], rank)
    BY DEF DependenciesOrdered
  <2>1. PICK rank : Ordered(edges[a], rank)
    BY DEF ServiceInv, DependenciesOrdered
  <2> QED
    BY <1>4, <2>1
<1> QED
    BY <1>1, <1>2, <1>3, <1>4

\* A declaration writes the record of an anchor, and its profile unless the codes stay.
Declares(a, record) ==
    /\ services' = [services EXCEPT ![a] = record]
    /\ \/ profile' = [profile EXCEPT ![a] = record.codes]
       \/ services[a] # NoEntry /\ record.codes = services[a].codes /\ profile' = profile

LEMMA RetirementWritten ==
    ASSUME ServiceTypeOK, NEW a \in Anchors, services[a] # NoEntry, NEW r \in Retirements,
           services' = [services EXCEPT ![a].retirements = r], profile' = profile
    PROVE  \E record \in ServiceRecord : Declares(a, record)
<1> DEFINE record == [services[a] EXCEPT !.retirements = r]
<1>1. services[a] \in ServiceRecord /\ services \in [Anchors -> ServiceRecord \cup {NoEntry}]
    BY DEF ServiceTypeOK
<1>2. record \in ServiceRecord /\ record.codes = services[a].codes
    BY <1>1 DEF ServiceRecord, Retirements
<1>3. services' = [services EXCEPT ![a] = record]
    BY <1>1
<1> QED
    BY <1>2, <1>3 DEF Declares

\* Declarations: profile and record are written together, a retirement keeps the codes.
LEMMA DeclarationSteps ==
    ASSUME ServiceInv, NEW a \in Anchors,
           \/ \E codes \in SUBSET Codes, r \in Retirements : ConfigureServices(a, codes, r)
           \/ \E s \in Codes, at \in Times \cup {NoEntry} : RetireService(a, s, at)
           \/ \E s \in Codes : UnretireService(a, s)
    PROVE  ServiceInv'
<1>1. ServiceTypeOK /\ ProfileAgrees
    BY DEF ServiceInv
<1>2. UNCHANGED <<toggles, snapshots, windows, edges>>
    BY DEF ConfigureServices, RetireService, UnretireService
<1>3. \E record \in ServiceRecord : Declares(a, record)
  <2>1. CASE \E codes \in SUBSET Codes, r \in Retirements : ConfigureServices(a, codes, r)
    <3>1. PICK codes \in SUBSET Codes, r \in Retirements : ConfigureServices(a, codes, r)
      BY <2>1
    <3> DEFINE record == [codes |-> codes, retirements |-> r]
    <3>2. record \in ServiceRecord /\ record.codes = codes
      BY DEF ServiceRecord, Retirements
    <3>3. /\ services' = [services EXCEPT ![a] = record]
          /\ profile' = [profile EXCEPT ![a] = codes]
      BY <3>1 DEF ConfigureServices
    <3> QED
      BY <3>2, <3>3 DEF Declares
  <2>2. CASE \E s \in Codes, at \in Times \cup {NoEntry} : RetireService(a, s, at)
    <3>1. PICK s \in Codes, at \in Times \cup {NoEntry} : RetireService(a, s, at)
      BY <2>2
    <3>2. services[a] # NoEntry /\ services[a] \in ServiceRecord
      BY <1>1, <3>1 DEF RetireService, ServiceTypeOK
    <3>3. PICK known \in SUBSET Codes : services[a].retirements \in [known -> Retirement]
      BY <3>2 DEF ServiceRecord
    <3>4. Retired(services[a], s, at) \in [known \cup {s} -> Retirement]
      BY <3>3 DEF Retired, Retirement
    <3>5. Retired(services[a], s, at) \in Retirements
      BY <3>4 DEF Retirements
    <3> HIDE DEF Retirements
    <3> QED
      BY <1>1, <3>1, <3>2, <3>5, RetirementWritten DEF RetireService
  <2>3. CASE \E s \in Codes : UnretireService(a, s)
    <3>1. PICK s \in Codes : UnretireService(a, s)
      BY <2>3
    <3>2. services[a] # NoEntry /\ services[a] \in ServiceRecord
      BY <1>1, <3>1 DEF UnretireService, ServiceTypeOK
    <3>3. PICK known \in SUBSET Codes : services[a].retirements \in [known -> Retirement]
      BY <3>2 DEF ServiceRecord
    <3> DEFINE r == [services[a].retirements EXCEPT ![s] = [retired |-> FALSE, at |-> NoEntry]]
    <3>4. r \in [known -> Retirement]
      BY <3>3 DEF Retirement
    <3>5. r \in Retirements
      BY <3>4 DEF Retirements
    <3>6. /\ services' = [services EXCEPT ![a].retirements = r]
          /\ profile' = profile
      BY <1>1, <3>1 DEF UnretireService
    <3> QED
      BY <1>1, <3>2, <3>5, <3>6, RetirementWritten
  <2> QED
    BY <2>1, <2>2, <2>3
<1>4. PICK record \in ServiceRecord : Declares(a, record)
    BY <1>3
<1>5. ServiceTypeOK'
  <2>1. record.codes \in SUBSET Codes
    BY DEF ServiceRecord
  <2>2. services' \in [Anchors -> ServiceRecord \cup {NoEntry}]
    BY <1>1, <1>4 DEF Declares, ServiceTypeOK
  <2>3. profile' \in [Anchors -> SUBSET Codes]
    BY <1>1, <1>4, <2>1 DEF Declares, ServiceTypeOK
  <2> QED
    BY <1>1, <1>2, <2>2, <2>3 DEF ServiceTypeOK
<1>6. ProfileAgrees'
  <2> SUFFICES ASSUME NEW b \in Anchors, services'[b] # NoEntry
               PROVE  profile'[b] = services'[b].codes
    BY DEF ProfileAgrees
  <2>1. CASE b = a
    <3>1. services'[a] = record
      BY <1>1, <1>4 DEF Declares, ServiceTypeOK
    <3>2. profile'[a] = record.codes
      BY <1>1, <1>4 DEF Declares, ServiceTypeOK, ProfileAgrees
    <3> QED
      BY <2>1, <3>1, <3>2
  <2>2. CASE b # a
    <3>1. services'[b] = services[b] /\ profile'[b] = profile[b]
      BY <1>1, <1>4, <2>2 DEF Declares, ServiceTypeOK
    <3> QED
      BY <1>1, <3>1 DEF ProfileAgrees
  <2> QED
    BY <2>1, <2>2
<1> QED
    BY <1>2, <1>5, <1>6, ServicesUnchanged DEF ServiceInv

\* Toggles: what is switched on is no longer off, and the other way round.
LEMMA ToggleSteps ==
    ASSUME ServiceInv, NEW a \in Anchors, NEW on \in SUBSET Codes, NEW off \in SUBSET Codes,
           on \cap off = {}, toggles' = [toggles EXCEPT ![a] = [enabled |-> on, disabled |-> off]],
           UNCHANGED <<services, profile, snapshots, windows, edges>>
    PROVE  ServiceInv'
<1>1. ServiceTypeOK /\ TogglesDisjoint
    BY DEF ServiceInv
<1>2. ServiceTypeOK'
    BY <1>1 DEF ServiceTypeOK
<1>3. TogglesDisjoint'
    BY <1>1 DEF TogglesDisjoint, ServiceTypeOK
<1> QED
    BY <1>2, <1>3, ServicesUnchanged DEF ServiceInv

\* Windows: one is added that overlaps no other of its anchor, or one is withdrawn.
LEMMA WindowAdded ==
    ASSUME ServiceInv, NEW a \in Anchors, NEW start \in Times, NEW end \in Times,
           NEW affected \in SUBSET Codes, ScheduleWindow(a, start, end, affected)
    PROVE  ServiceInv'
<1> DEFINE w == [anchor |-> a, start |-> start, end |-> end, affected |-> affected]
           n == Len(windows)
<1>1. ServiceTypeOK /\ WindowsApart
    BY DEF ServiceInv
<1>2. UNCHANGED <<services, profile, toggles, snapshots, edges>>
    BY DEF ScheduleWindow
<1>3. windows \in Seq(Window \cup {NoEntry}) /\ w \in Window /\ n \in Nat
    BY <1>1, LenProperties DEF ServiceTypeOK, Window
<1>4. windows' = Append(windows, w)
    BY DEF ScheduleWindow
<1>5. /\ windows' \in Seq(Window \cup {NoEntry})
      /\ Len(windows') = n + 1 /\ windows'[n + 1] = w
      /\ \A i \in 1..n : windows'[i] = windows[i]
  <2> HIDE DEF w
  <2> QED
    BY <1>3, <1>4, AppendProperties
<1>6. \A i \in 1..n : windows[i] # NoEntry =>
         ~(windows[i].anchor = a /\ start <= windows[i].end /\ end >= windows[i].start)
    BY DEF ScheduleWindow
<1>7. ServiceTypeOK'
    BY <1>1, <1>2, <1>5 DEF ServiceTypeOK, Window
<1>8. WindowsApart'
  <2> SUFFICES ASSUME NEW i \in 1..(n + 1), NEW j \in 1..(n + 1), i < j,
                      Rivals(windows'[i], windows'[j])
               PROVE  \/ windows'[i].end < windows'[j].start
                      \/ windows'[j].end < windows'[i].start
    BY <1>5 DEF WindowsApart
  <2>1. CASE j <= n
    <3>1. windows'[i] = windows[i] /\ windows'[j] = windows[j]
      BY <1>3, <1>5, <2>1
    <3>2. i \in 1..n /\ j \in 1..n
      BY <1>3, <2>1
    <3> QED
      BY <1>1, <3>1, <3>2 DEF WindowsApart
  <2>2. CASE j = n + 1
    <3>1. i \in 1..n
      BY <1>3, <2>2
    <3>2. windows'[i] = windows[i] /\ windows'[j] = w
      BY <1>5, <2>2, <3>1
    <3>3. windows[i] # NoEntry /\ windows[i].anchor = a
      BY <3>2 DEF Rivals
    <3>4. ~(start <= windows[i].end /\ end >= windows[i].start)
      BY <1>6, <3>1, <3>3
    <3>5. windows[i] \in Window
      BY <1>3, <3>1, <3>3, ElementOfSeq
    <3>6. windows[i].start \in Nat /\ windows[i].end \in Nat /\ start \in Nat /\ end \in Nat
      BY <3>5, ServiceConstants DEF Window
    <3>7. windows[i].end < start \/ end < windows[i].start
      BY <3>4, <3>6
    <3> QED
      BY <3>2, <3>7
  <2> QED
    BY <1>3, <2>1, <2>2
<1> QED
    BY <1>2, <1>7, <1>8, ServicesUnchanged DEF ServiceInv

LEMMA WindowWithdrawn ==
    ASSUME ServiceInv, NEW k \in 1..Len(windows), CancelWindow(k)
    PROVE  ServiceInv'
<1> DEFINE n == Len(windows)
<1>1. ServiceTypeOK /\ WindowsApart
    BY DEF ServiceInv
<1>2. UNCHANGED <<services, profile, toggles, snapshots, edges>>
    BY DEF CancelWindow
<1>3. windows \in Seq(Window \cup {NoEntry}) /\ n \in Nat
    BY <1>1, LenProperties DEF ServiceTypeOK, Window
<1>4. windows' = [windows EXCEPT ![k] = NoEntry]
    BY DEF CancelWindow
<1>5. /\ windows' \in Seq(Window \cup {NoEntry}) /\ Len(windows') = n
      /\ \A i \in 1..n : windows'[i] = IF i = k THEN NoEntry ELSE windows[i]
  <2> HIDE DEF Window
  <2> QED
    BY <1>3, <1>4, ExceptSeq
<1>6. ServiceTypeOK'
    BY <1>1, <1>2, <1>5 DEF ServiceTypeOK, Window
<1>7. WindowsApart'
    BY <1>1, <1>5 DEF WindowsApart, Rivals
<1> QED
    BY <1>2, <1>6, <1>7, ServicesUnchanged DEF ServiceInv

LEMMA SnapshotTaken ==
    ASSUME ServiceInv, NEW a \in Anchors, NEW codes \in SUBSET Codes, SnapshotServices(a, codes)
    PROVE  ServiceInv'
<1>1. ServiceTypeOK
    BY DEF ServiceInv
<1>2. UNCHANGED <<services, profile, toggles, windows, edges>>
    BY DEF SnapshotServices
<1> DEFINE Snapshot == [anchor : Anchors, services : SUBSET Codes]
           new == [anchor |-> a, services |-> codes]
<1>3. snapshots \in Seq(Snapshot) /\ new \in Snapshot /\ snapshots' = Append(snapshots, new)
    BY <1>1 DEF ServiceTypeOK, SnapshotServices
<1>4. snapshots' \in Seq(Snapshot)
  <2> HIDE DEF Snapshot, new
  <2> QED
    BY <1>3, AppendProperties
<1>5. ServiceTypeOK'
    BY <1>1, <1>2, <1>4 DEF ServiceTypeOK
<1> QED
    BY <1>2, <1>5, ServicesUnchanged DEF ServiceInv

\* Dependencies: an edge is added only from outside what its target already needs.
LEMMA DependencySteps ==
    ASSUME ServiceInv, NEW a \in Anchors, NEW s \in Codes, NEW d \in Codes,
           AddDependency(a, s, d) \/ RemoveDependency(a, s, d)
    PROVE  ServiceInv'
<1>1. ServiceTypeOK /\ DependenciesOrdered
    BY DEF ServiceInv
<1>2. UNCHANGED <<services, profile, toggles, snapshots, windows>>
    BY DEF AddDependency, RemoveDependency
<1>3. edges \in [Anchors -> SUBSET (Codes \X Codes)] /\ edges[a] \in SUBSET (Codes \X Codes)
    BY <1>1 DEF ServiceTypeOK
<1>4. PICK rank : Ordered(edges[a], rank)
    BY <1>1 DEF DependenciesOrdered
<1>5. \E es \in SUBSET (Codes \X Codes) : \E better :
        edges' = [edges EXCEPT ![a] = es] /\ Ordered(es, better)
  <2>1. CASE AddDependency(a, s, d)
    <3> DEFINE set == Frontier(a, d)
    <3>1. /\ d \in set /\ set \subseteq Codes
          /\ \A e \in edges[a] : e[1] \in set => e[2] \in set
      BY <1>3, FrontierIsClosed
    <3>2. s \notin set
      BY <2>1 DEF AddDependency, IsReachable
    <3> HIDE DEF set
    <3>3. \E better : Ordered(edges[a] \cup {<<s, d>>}, better)
      BY <1>3, <1>4, <3>1, <3>2, EdgeIntoClosedSet
    <3>4. edges[a] \cup {<<s, d>>} \in SUBSET (Codes \X Codes)
      BY <1>3
    <3>5. edges' = [edges EXCEPT ![a] = edges[a] \cup {<<s, d>>}]
      BY <1>3, <2>1 DEF AddDependency
    <3> QED
      BY <3>3, <3>4, <3>5
  <2>2. CASE RemoveDependency(a, s, d)
    <3>1. edges' = [edges EXCEPT ![a] = edges[a] \ {<<s, d>>}]
      BY <1>3, <2>2 DEF RemoveDependency
    <3>2. Ordered(edges[a] \ {<<s, d>>}, rank)
      BY <1>4 DEF Ordered
    <3> QED
      BY <1>3, <3>1, <3>2
  <2> QED
    BY <2>1, <2>2
<1>6. PICK es \in SUBSET (Codes \X Codes) :
        edges' = [edges EXCEPT ![a] = es] /\ \E better : Ordered(es, better)
    BY <1>5
<1>7. ServiceTypeOK'
    BY <1>1, <1>2, <1>3, <1>6 DEF ServiceTypeOK
<1>8. DependenciesOrdered'
  <2> SUFFICES ASSUME NEW b \in Anchors PROVE \E r : Ordered(edges'[b], r)
    BY DEF DependenciesOrdered
  <2>1. CASE b = a
    BY <1>3, <1>6, <2>1
  <2>2. CASE b # a
    BY <1>1, <1>3, <1>6, <2>2 DEF DependenciesOrdered
  <2> QED
    BY <2>1, <2>2
<1> QED
    BY <1>2, <1>7, <1>8, ServicesUnchanged DEF ServiceInv

LEMMA DeclarationNextKeeps == ServiceInv /\ DeclarationNext(Anchors) => ServiceInv'
<1> SUFFICES ASSUME ServiceInv, DeclarationNext(Anchors) PROVE ServiceInv'
    OBVIOUS
<1>1. PICK a \in Anchors, s \in Codes :
        \/ \E codes \in SUBSET Codes, b \in BOOLEAN :
             ConfigureServices(a, codes, [c \in {s} |-> [retired |-> b, at |-> NoEntry]])
        \/ \E at \in Times \cup {NoEntry} : RetireService(a, s, at)
        \/ UnretireService(a, s)
    BY DEF DeclarationNext
<1>2. CASE \E codes \in SUBSET Codes, b \in BOOLEAN :
             ConfigureServices(a, codes, [c \in {s} |-> [retired |-> b, at |-> NoEntry]])
  <2>1. PICK codes \in SUBSET Codes, b \in BOOLEAN :
          ConfigureServices(a, codes, [c \in {s} |-> [retired |-> b, at |-> NoEntry]])
    BY <1>2
  <2> DEFINE r == [c \in {s} |-> [retired |-> b, at |-> NoEntry]]
  <2>2. r \in [{s} -> Retirement] /\ {s} \in SUBSET Codes
    BY DEF Retirement
  <2>3. r \in Retirements
    BY <2>2 DEF Retirements
  <2> HIDE DEF r, Retirements
  <2> QED
    BY <2>1, <2>3, DeclarationSteps DEF r
<1>3. CASE \E at \in Times \cup {NoEntry} : RetireService(a, s, at)
    BY <1>3, DeclarationSteps
<1>4. CASE UnretireService(a, s)
    BY <1>4, DeclarationSteps
<1> QED
    BY <1>1, <1>2, <1>3, <1>4

LEMMA ToggleNextKeeps ==
    ASSUME ServiceInv, NEW known \in SUBSET Codes, ToggleNext(Anchors, known)
    PROVE  ServiceInv'
<1>1. /\ ServiceTypeOK /\ TogglesDisjoint
      /\ toggles \in [Anchors -> [enabled : SUBSET Codes, disabled : SUBSET Codes]]
    BY DEF ServiceInv, ServiceTypeOK
<1>2. \/ \E a \in Anchors, s \in known : EnableService(a, s) \/ DisableService(a, s)
      \/ \E a \in Anchors, some \in SUBSET known : SnapshotServices(a, some)
      \/ \E a \in Anchors, on, off \in {{}, known} : ToggleAllServices(a, on, off)
      \/ \E a \in Anchors, start, end \in Times, affected \in {{}} \cup {{s} : s \in known} :
           ScheduleWindow(a, start, end, affected)
      \/ \E i \in 1..Len(snapshots) : RollbackServices(i)
      \/ \E i \in 1..Len(windows) : CancelWindow(i)
    BY DEF ToggleNext
<1>3. CASE \E a \in Anchors, s \in known : EnableService(a, s) \/ DisableService(a, s)
  <2>1. PICK a \in Anchors, s \in known : EnableService(a, s) \/ DisableService(a, s)
    BY <1>3
  <2>2. /\ toggles[a].enabled \in SUBSET Codes /\ toggles[a].disabled \in SUBSET Codes
        /\ toggles[a].enabled \cap toggles[a].disabled = {}
    BY <1>1 DEF TogglesDisjoint
  <2>3. CASE EnableService(a, s)
    <3> DEFINE on == toggles[a].enabled \cup {s}
               off == toggles[a].disabled \ {s}
    <3>1. on \in SUBSET Codes /\ off \in SUBSET Codes /\ on \cap off = {}
      BY <2>2
    <3>2. /\ toggles' = [toggles EXCEPT ![a] = [enabled |-> on, disabled |-> off]]
          /\ UNCHANGED <<services, profile, snapshots, windows, edges>>
      BY <2>3 DEF EnableService, Toggled
    <3> HIDE DEF on, off
    <3> QED
      BY <3>1, <3>2, ToggleSteps
  <2>4. CASE DisableService(a, s)
    <3> DEFINE on == toggles[a].enabled \ {s}
               off == toggles[a].disabled \cup {s}
    <3>1. on \in SUBSET Codes /\ off \in SUBSET Codes /\ on \cap off = {}
      BY <2>2
    <3>2. /\ toggles' = [toggles EXCEPT ![a] = [enabled |-> on, disabled |-> off]]
          /\ UNCHANGED <<services, profile, snapshots, windows, edges>>
      BY <2>4 DEF DisableService, Toggled
    <3> HIDE DEF on, off
    <3> QED
      BY <3>1, <3>2, ToggleSteps
  <2> QED
    BY <2>1, <2>3, <2>4
<1>4. CASE \E a \in Anchors, some \in SUBSET known : SnapshotServices(a, some)
    BY <1>4, SnapshotTaken
<1>5. CASE \E a \in Anchors, on, off \in {{}, known} : ToggleAllServices(a, on, off)
  <2>1. PICK a \in Anchors, on \in {{}, known}, off \in {{}, known} : ToggleAllServices(a, on, off)
    BY <1>5
  <2>2. on \in SUBSET Codes /\ off \in SUBSET Codes /\ on \cap off = {}
    BY <2>1 DEF ToggleAllServices
  <2> QED
    BY <2>1, <2>2, ToggleSteps DEF ToggleAllServices
<1>6. CASE \E a \in Anchors, start, end \in Times, affected \in {{}} \cup {{s} : s \in known} :
             ScheduleWindow(a, start, end, affected)
    BY <1>6, WindowAdded
<1>7. CASE \E i \in 1..Len(snapshots) : RollbackServices(i)
  <2>1. PICK i \in 1..Len(snapshots) : RollbackServices(i)
    BY <1>7
  <2> DEFINE Snapshot == [anchor : Anchors, services : SUBSET Codes]
             b == snapshots[i].anchor
             on == snapshots[i].services
  <2>2. snapshots \in Seq(Snapshot)
    BY <1>1 DEF ServiceTypeOK
  <2>3. snapshots[i] \in Snapshot
    <3> HIDE DEF Snapshot
    <3> QED
      BY <2>2, ElementOfSeq
  <2>4. b \in Anchors /\ on \in SUBSET Codes /\ {} \in SUBSET Codes /\ on \cap {} = {}
    BY <2>3
  <2>5. /\ toggles' = [toggles EXCEPT ![b] = [enabled |-> on, disabled |-> {}]]
        /\ UNCHANGED <<services, profile, snapshots, windows, edges>>
    BY <2>1 DEF RollbackServices, Toggled
  <2> HIDE DEF b, on
  <2> QED
    BY <2>4, <2>5, ToggleSteps
<1>8. CASE \E i \in 1..Len(windows) : CancelWindow(i)
    BY <1>8, WindowWithdrawn
<1> QED
    BY <1>2, <1>3, <1>4, <1>5, <1>6, <1>7, <1>8

LEMMA ServiceNextKeeps == ServiceInv /\ [ServiceNext]_<<cacheVars, serviceVars>> => ServiceInv'
<1> SUFFICES ASSUME ServiceInv, [ServiceNext]_<<cacheVars, serviceVars>> PROVE ServiceInv'
    OBVIOUS
<1>1. CASE DeclarationNext(Anchors)
    BY <1>1, DeclarationNextKeeps
<1>2. CASE \E a \in Anchors, codes \in SUBSET Codes : ConfigureServices(a, codes, <<>>)
  <2>1. <<>> \in [{} -> Retirement] /\ {} \in SUBSET Codes
    BY EmptySeq
  <2>2. <<>> \in Retirements
    BY <2>1 DEF Retirements
  <2> HIDE DEF Retirements
  <2> QED
    BY <1>2, <2>2, DeclarationSteps
<1>3. CASE \E codes \in SUBSET Codes : ToggleNext(Anchors, codes)
    BY <1>3, ToggleNextKeeps
<1>4. CASE DependencyNext(Anchors)
    BY <1>4, DependencySteps DEF DependencyNext
<1>5. CASE UNCHANGED serviceVars
  <2>1. ServiceTypeOK'
    BY <1>5 DEF ServiceInv, ServiceTypeOK, serviceVars
  <2> QED
    BY <1>5, <2>1, ServicesUnchanged DEF ServiceInv, serviceVars
<1> QED
    BY <1>1, <1>2, <1>3, <1>4, <1>5 DEF ServiceNext

LEMMA ServiceInvSuffices == ServiceInv => ServicesConsistent
<1> SUFFICES ASSUME ServiceInv PROVE ServicesConsistent
    OBVIOUS
<1>1. ServiceTypeOK
    BY DEF ServiceInv
<1> SUFFICES ASSUME NEW a \in Anchors
             PROVE  /\ toggles[a].enabled \cap toggles[a].disabled = {}
                    /\ services[a] # NoEntry => profile[a] = services[a].codes
                    /\ \A i, j \in 1..Len(windows) :
                         LET v == windows[i]
                             w == windows[j]
                         IN  i < j /\ NoEntry \notin {v, w} /\ v.anchor = w.anchor
                             /\ v.start <= v.end /\ w.start <= w.end
                             => v.end < w.start \/ w.end < v.start
                    /\ \E rank \in [Codes -> 1..Cardinality(Codes)] :
                         \A e \in edges[a] : rank[e[2]] < rank[e[1]]
    BY <1>1, Zenon DEF ServicesConsistent
<1>2. toggles[a].enabled \cap toggles[a].disabled = {}
    BY DEF ServiceInv, TogglesDisjoint
<1>3. services[a] # NoEntry => profile[a] = services[a].codes
    BY DEF ServiceInv, ProfileAgrees
<1>4. \E rank \in [Codes -> 1..Cardinality(Codes)] : \A e \in edges[a] : rank[e[2]] < rank[e[1]]
    BY DEF ServiceInv, DependenciesOrdered, Ordered
<1> QED
    BY <1>2, <1>3, <1>4 DEF ServiceInv, WindowsApart, Rivals

\* Toggles, profiles, windows and dependencies stay consistent, whatever declarations,
\* toggles, rollbacks, windows and edges follow one another: in particular, the search
\* before each edge keeps every dependency graph free of cycles.
THEOREM ServicesConsistentHolds == ServiceSpec => []ServicesConsistent
<1>1. ServiceInit => ServiceInv
    BY ServiceInvInit
<1>2. ServiceInv /\ [ServiceNext]_<<cacheVars, serviceVars>> => ServiceInv'
    BY ServiceNextKeeps
<1>3. ServiceInv => ServicesConsistent
    BY ServiceInvSuffices
<1> QED
    BY <1>1, <1>2, <1>3, PTL DEF ServiceSpec

-----------------------------------------------------------------------------
(* The health of an anchor *)

\* A factor of a larger product is larger.
LEMMA Factors ==
    ASSUME NEW n \in Nat, n > 0, NEW x \in Int, NEW y \in Int, n * x < n * y
    PROVE  x < y
OBVIOUS

\* A share in ten thousandths and in millionths, both rounded down.
LEMMA SharesAgree ==
    ASSUME NEW a \in Nat, NEW n \in Nat, n > 0
    PROVE  /\ (a * 10000) \div n \in Nat /\ (a * 1000000) \div n \in Nat
           /\ 100 * ((a * 10000) \div n) <= (a * 1000000) \div n
           /\ (a * 1000000) \div n <= 100 * ((a * 10000) \div n) + 99
<1> DEFINE p == (a * 10000) \div n
           q == (a * 1000000) \div n
<1>1. p \in Nat /\ n * p <= a * 10000 /\ a * 10000 < n * p + n
    BY Quotient
<1>2. q \in Nat /\ n * q <= a * 1000000 /\ a * 1000000 < n * q + n
    BY Quotient
<1> HIDE DEF p, q
<1>3. 100 * p < q + 1
  <2>1. n * (100 * p) = 100 * (n * p) /\ n * (q + 1) = n * q + n
    BY <1>1, <1>2
  <2>2. n * p \in Nat /\ n * q \in Nat
    BY <1>1, <1>2
  <2>3. n * (100 * p) < n * (q + 1)
    BY <1>1, <1>2, <2>1, <2>2
  <2> QED
    BY <1>1, <1>2, <2>3, Factors
<1>4. q < 100 * p + 100
  <2>1. n * (100 * p + 100) = 100 * (n * p + n)
    BY <1>1, <1>2
  <2>2. n * p \in Nat /\ n * q \in Nat
    BY <1>1, <1>2
  <2>3. n * q < n * (100 * p + 100)
    BY <1>1, <1>2, <2>1, <2>2
  <2>4. 100 * p + 100 \in Int /\ q \in Int
    BY <1>1, <1>2
  <2> QED
    BY <2>3, <2>4, Factors
<1> QED
    BY <1>1, <1>2, <1>3, <1>4 DEF p, q

\* What is left of the full score when a share is taken off, before or after rounding.
LEMMA RemaindersAgree ==
    ASSUME NEW n \in Nat, n > 0, NEW m \in Nat, m <= n
    PROVE  /\ ((n - m) * 10000) \div n \in Nat /\ (m * 1000000) \div n \in Nat
           /\ 100 * (((n - m) * 10000) \div n) <= 1000000 - (m * 1000000) \div n
           /\ 1000000 - (m * 1000000) \div n <= 100 * (((n - m) * 10000) \div n) + 100
<1> DEFINE p == ((n - m) * 10000) \div n
           q == (m * 1000000) \div n
<1>0. n - m \in Nat /\ (n - m) * 10000 = n * 10000 - m * 10000 /\ (n - m) * 10000 \in Nat
    OBVIOUS
<1>1. p \in Nat /\ n * p <= n * 10000 - m * 10000 /\ n * 10000 - m * 10000 < n * p + n
    BY <1>0, Quotient
<1>2. q \in Nat /\ n * q <= m * 1000000 /\ m * 1000000 < n * q + n
    BY Quotient
<1> HIDE DEF p, q
<1>3. n * p \in Nat /\ n * q \in Nat
    BY <1>1, <1>2
<1>4. 100 * p + q < 1000001
  <2>1. n * (100 * p + q) = 100 * (n * p) + n * q /\ n * 1000001 = 1000000 * n + n
    BY <1>1, <1>2
  <2>2. n * (100 * p + q) < n * 1000001
    BY <1>1, <1>2, <1>3, <2>1
  <2>3. 100 * p + q \in Int
    BY <1>1, <1>2
  <2> QED
    BY <2>2, <2>3, Factors
<1>5. 1000000 < 100 * p + q + 101
  <2>1. n * (100 * p + q + 101) = 100 * (n * p) + n * q + 101 * n /\ n * 1000000 = 1000000 * n
    BY <1>1, <1>2
  <2>2. n * 1000000 < n * (100 * p + q + 101)
    BY <1>1, <1>2, <1>3, <2>1
  <2>3. 100 * p + q + 101 \in Int
    BY <1>1, <1>2
  <2> QED
    BY <2>2, <2>3, Factors
<1> QED
    BY <1>1, <1>2, <1>4, <1>5 DEF p, q

\* Any window.
Windows == [ok : Nat, bad : Nat, ms10 : Nat, attempts : Nat, failures : Nat, secs : Nat]

\* The host's sub-scores, as ScoreWindow computes them.
SuccessScore(w) == IF w.ok + w.bad = 0 THEN 0 ELSE (w.ok * 1000000) \div (w.ok + w.bad)
RoutingScore(w) == IF w.attempts = 0 THEN 1000000
                   ELSE 1000000 - (Min({w.failures, w.attempts}) * 1000000) \div w.attempts

\* Each sub-score of the contract is that of the host, rounded.
LEMMA SubScores ==
    ASSUME NEW w \in Windows
    PROVE  /\ UptimeBps(w.ok, w.bad) \in Int /\ SuccessScore(w) \in Int
           /\ 100 * UptimeBps(w.ok, w.bad) <= SuccessScore(w)
           /\ SuccessScore(w) <= 100 * UptimeBps(w.ok, w.bad) + 99
           /\ LatencyBps(w.ms10) \in Int /\ LatencyScore(w.ms10) \in Int
           /\ LatencyScore(w.ms10) <= 100 * LatencyBps(w.ms10)
           /\ 100 * LatencyBps(w.ms10) <= LatencyScore(w.ms10) + 99
           /\ RoutingBps(w.attempts, w.failures) \in Int /\ RoutingScore(w) \in Int
           /\ 100 * RoutingBps(w.attempts, w.failures) <= RoutingScore(w)
           /\ RoutingScore(w) <= 100 * RoutingBps(w.attempts, w.failures) + 100
           /\ RecoveryBps(w.secs) \in Int /\ RecoveryScore(w.secs) \in Int
           /\ RecoveryScore(w.secs) <= 100 * RecoveryBps(w.secs)
           /\ 100 * RecoveryBps(w.secs) <= RecoveryScore(w.secs) + 99
<1>1. /\ UptimeBps(w.ok, w.bad) \in Int /\ SuccessScore(w) \in Int
      /\ 100 * UptimeBps(w.ok, w.bad) <= SuccessScore(w)
      /\ SuccessScore(w) <= 100 * UptimeBps(w.ok, w.bad) + 99
  <2> DEFINE n == w.ok + w.bad
  <2>1. w.ok \in Nat /\ n \in Nat
    BY DEF Windows
  <2>2. CASE n = 0
    BY <2>2 DEF UptimeBps, SuccessScore
  <2>3. CASE n # 0
    <3>1. UptimeBps(w.ok, w.bad) = (w.ok * 10000) \div n /\ SuccessScore(w) = (w.ok * 1000000) \div n
      BY <2>3 DEF UptimeBps, SuccessScore
    <3> HIDE DEF n
    <3>2. n > 0
      BY <2>1, <2>3
    <3> QED
      BY <2>1, <3>1, <3>2, SharesAgree
  <2> QED
    BY <2>2, <2>3
<1>2. /\ LatencyBps(w.ms10) \in Int /\ LatencyScore(w.ms10) \in Int
      /\ LatencyScore(w.ms10) <= 100 * LatencyBps(w.ms10)
      /\ 100 * LatencyBps(w.ms10) <= LatencyScore(w.ms10) + 99
  <2> DEFINE t == w.ms10
  <2>1. t \in Nat
    BY DEF Windows
  <2> HIDE DEF t
  <2>2. /\ LatencyBps(t) = IF t = 0 THEN 5000 ELSE IF t <= 5000 THEN 10000 ELSE IF t >= 100000 THEN 0
                           ELSE 10000 - ((t - 5000) * 10000) \div 95000
        /\ LatencyScore(t) = IF t = 0 THEN 500000 ELSE IF t <= 5000 THEN 1000000
                             ELSE IF t >= 100000 THEN 0
                             ELSE 1000000 - ((t - 5000) * 1000) \div 95
    BY <2>1 DEF LatencyBps, LatencyScore
  <2>3. /\ LatencyBps(t) \in Int /\ LatencyScore(t) \in Int
        /\ LatencyScore(t) <= 100 * LatencyBps(t) /\ 100 * LatencyBps(t) <= LatencyScore(t) + 99
    BY <2>1, <2>2
  <2> QED
    BY <2>3 DEF t
<1>3. /\ RoutingBps(w.attempts, w.failures) \in Int /\ RoutingScore(w) \in Int
      /\ 100 * RoutingBps(w.attempts, w.failures) <= RoutingScore(w)
      /\ RoutingScore(w) <= 100 * RoutingBps(w.attempts, w.failures) + 100
  <2> DEFINE n == w.attempts
             m == Min({w.failures, w.attempts})
  <2>1. n \in Nat /\ w.failures \in Nat
    BY DEF Windows
  <2>2. m = IF w.failures <= n THEN w.failures ELSE n
    BY <2>1, MinMaxOfTwo
  <2>3. RoutingBps(n, w.failures) = IF n = 0 THEN 10000 ELSE ((n - m) * 10000) \div n
    BY DEF RoutingBps
  <2>4. RoutingScore(w) = IF n = 0 THEN 1000000 ELSE 1000000 - (m * 1000000) \div n
    BY DEF RoutingScore
  <2> HIDE DEF m, n
  <2>5. m \in Nat /\ m <= n
    BY <2>1, <2>2
  <2>6. CASE n = 0
    BY <2>3, <2>4, <2>6 DEF n
  <2>7. CASE n # 0
    <3>1. n > 0
      BY <2>1, <2>7
    <3>2. /\ ((n - m) * 10000) \div n \in Nat /\ (m * 1000000) \div n \in Nat
          /\ 100 * (((n - m) * 10000) \div n) <= 1000000 - (m * 1000000) \div n
          /\ 1000000 - (m * 1000000) \div n <= 100 * (((n - m) * 10000) \div n) + 100
      BY <2>1, <2>5, <3>1, RemaindersAgree
    <3> DEFINE p == ((n - m) * 10000) \div n
               q == (m * 1000000) \div n
    <3>3. RoutingBps(w.attempts, w.failures) = p /\ RoutingScore(w) = 1000000 - q
      BY <2>3, <2>4, <2>7 DEF n
    <3>4. p \in Nat /\ q \in Nat /\ 100 * p <= 1000000 - q /\ 1000000 - q <= 100 * p + 100
      BY <3>2
    <3> HIDE DEF p, q
    <3> QED
      BY <3>3, <3>4
  <2> QED
    BY <2>6, <2>7
<1>4. /\ RecoveryBps(w.secs) \in Int /\ RecoveryScore(w.secs) \in Int
      /\ RecoveryScore(w.secs) <= 100 * RecoveryBps(w.secs)
      /\ 100 * RecoveryBps(w.secs) <= RecoveryScore(w.secs) + 99
  <2> DEFINE t == w.secs
  <2>1. t \in Nat
    BY DEF Windows
  <2> HIDE DEF t
  <2>2. /\ RecoveryBps(t) = IF t <= 60 THEN 10000 ELSE IF t >= 3600 THEN 0
                            ELSE 10000 - ((t - 60) * 10000) \div 3540
        /\ RecoveryScore(t) = IF t <= 60 THEN 1000000 ELSE IF t >= 3600 THEN 0
                              ELSE 1000000 - ((t - 60) * 50000) \div 177
    BY <2>1 DEF RecoveryBps, RecoveryScore
  <2>3. /\ RecoveryBps(t) \in Int /\ RecoveryScore(t) \in Int
        /\ RecoveryScore(t) <= 100 * RecoveryBps(t) /\ 100 * RecoveryBps(t) <= RecoveryScore(t) + 99
    BY <2>1, <2>2
  <2> QED
    BY <2>3 DEF t
<1> QED
    BY <1>1, <1>2, <1>3, <1>4

\* The contract's composite is at most 159 millionths below the host's, and at most 40
\* above.
LEMMA CompositesAgree ==
    ASSUME NEW w \in Windows
    PROVE  /\ CompositeBps(w) \in Int /\ ScoreWindow(w) \in Int
           /\ 100 * CompositeBps(w) - ScoreWindow(w) \in -159..40
<1> DEFINE s == UptimeBps(w.ok, w.bad)
           l == LatencyBps(w.ms10)
           r == RoutingBps(w.attempts, w.failures)
           c == RecoveryBps(w.secs)
           hs == SuccessScore(w)
           hl == LatencyScore(w.ms10)
           hr == RoutingScore(w)
           hc == RecoveryScore(w.secs)
<1>1. /\ s \in Int /\ hs \in Int /\ 100 * s <= hs /\ hs <= 100 * s + 99
      /\ l \in Int /\ hl \in Int /\ hl <= 100 * l /\ 100 * l <= hl + 99
      /\ r \in Int /\ hr \in Int /\ 100 * r <= hr /\ hr <= 100 * r + 100
      /\ c \in Int /\ hc \in Int /\ hc <= 100 * c /\ 100 * c <= hc + 99
    BY SubScores
<1>2. CompositeBps(w) = (s * 40 + l * 25 + r * 20 + c * 15) \div 100
    BY DEF CompositeBps
<1>3. ScoreWindow(w) = (hs * 40 + hl * 25 + hr * 20 + hc * 15) \div 100
    BY DEF ScoreWindow, SuccessScore, RoutingScore
<1> HIDE DEF s, l, r, c, hs, hl, hr, hc
<1> DEFINE A == s * 40 + l * 25 + r * 20 + c * 15
           B == hs * 40 + hl * 25 + hr * 20 + hc * 15
<1>4. A \in Int /\ B \in Int /\ 100 * A - B <= 3960 /\ -5960 <= 100 * A - B
    BY <1>1
<1> HIDE DEF A, B
<1>5. /\ A \div 100 \in Int /\ B \div 100 \in Int
      /\ 100 * (A \div 100) - (B \div 100) \in -159..40
    BY <1>4
<1> QED
    BY <1>2, <1>3, <1>5 DEF A, B

\* Over one window a sum is the window's own field.
LEMMA TotalOfOne ==
    ASSUME NEW w \in Windows, NEW field, w[field] \in Nat
    PROVE  Total(<<w>>, field) = w[field]
<1> DEFINE ws == <<w>>
           Sums(f) == f = [i \in 0..Len(ws) |-> IF i = 0 THEN 0 ELSE f[i - 1] + ws[i][field]]
           g == [i \in 0..1 |-> IF i = 0 THEN 0 ELSE w[field]]
           s == CHOOSE f : Sums(f)
<1>1. Len(ws) = 1 /\ ws[1] = w
    OBVIOUS
<1>2. Sums(g)
  <2>1. \A i \in 0..1 : (IF i = 0 THEN 0 ELSE g[i - 1] + ws[i][field])
                          = (IF i = 0 THEN 0 ELSE w[field])
    <3>1. \A i \in 0..1 : i = 0 \/ i = 1
      OBVIOUS
    <3>2. g[1 - 1] + ws[1][field] = w[field]
      BY <1>1
    <3> QED
      BY <3>1, <3>2
  <2> QED
    BY <1>1, <2>1
<1>3. Sums(s)
    BY <1>2
<1>4. Total(ws, field) = s[Len(ws)]
    BY DEF Total
<1> HIDE DEF s, g
<1>5. s[0] = 0 /\ s[1] = s[0] + w[field]
    BY <1>1, <1>3
<1> QED
    BY <1>1, <1>4, <1>5

\* The aggregate of one window scores as the window.
LEMMA AggregateOfOne ==
    ASSUME NEW w \in Windows
    PROVE  ScoreWindow(AggregateWindows(<<w>>)) = ScoreWindow(w)
<1> DEFINE ws == <<w>>
           measured == Cardinality({i \in DOMAIN ws : ws[i].ms10 > 0})
           agg == AggregateWindows(ws)
<1>1. /\ w.ok \in Nat /\ w.bad \in Nat /\ w.ms10 \in Nat
      /\ w.attempts \in Nat /\ w.failures \in Nat /\ w.secs \in Nat
    BY DEF Windows
<1>2. /\ Total(ws, "ok") = w.ok /\ Total(ws, "bad") = w.bad /\ Total(ws, "ms10") = w.ms10
      /\ Total(ws, "attempts") = w.attempts /\ Total(ws, "failures") = w.failures
      /\ Total(ws, "secs") = w.secs
    BY <1>1, TotalOfOne
<1>3. measured = IF w.ms10 > 0 THEN 1 ELSE 0
  <2>1. DOMAIN ws = {1} /\ ws[1] = w
    OBVIOUS
  <2>2. {i \in DOMAIN ws : ws[i].ms10 > 0} = IF w.ms10 > 0 THEN {1} ELSE {}
    BY <2>1
  <2> QED
    BY <2>2, FS_EmptySet, FS_Singleton
<1>4. agg = [ok |-> w.ok, bad |-> w.bad,
             ms10 |-> IF measured = 0 THEN 0 ELSE w.ms10 \div measured,
             attempts |-> w.attempts, failures |-> w.failures, secs |-> w.secs]
    BY <1>2 DEF AggregateWindows
<1> HIDE DEF measured, agg
<1>5. /\ agg.ok = w.ok /\ agg.bad = w.bad /\ agg.ms10 = w.ms10
      /\ agg.attempts = w.attempts /\ agg.failures = w.failures /\ agg.secs = w.secs
  <2>1. (IF measured = 0 THEN 0 ELSE w.ms10 \div measured) = w.ms10
    BY <1>1, <1>3
  <2> QED
    BY <1>4, <2>1
<1>6. ScoreWindow(agg) = ScoreWindow(w)
    BY <1>5 DEF ScoreWindow
<1> QED
    BY <1>6 DEF agg

\* Two windows that the host calls a trend, the contract calls the same trend.
LEMMA TrendsAgree ==
    ASSUME NEW w \in Windows, NEW v \in Windows,
           NEW h, h = TrendFrom(ScoreWindow(w), ScoreWindow(v), 30000),
           NEW c, c = TrendFrom(CompositeBps(w), CompositeBps(v), 150)
    PROVE  (h # "Stable" => c = h) /\ h \in {"Stable", "Improving", "Degrading"}
<1>1. /\ CompositeBps(w) \in Int /\ ScoreWindow(w) \in Int
      /\ 100 * CompositeBps(w) - ScoreWindow(w) \in -159..40
      /\ CompositeBps(v) \in Int /\ ScoreWindow(v) \in Int
      /\ 100 * CompositeBps(v) - ScoreWindow(v) \in -159..40
    BY CompositesAgree
<1>2. /\ h = IF ScoreWindow(w) - ScoreWindow(v) > 30000 THEN "Improving"
             ELSE IF ScoreWindow(v) - ScoreWindow(w) > 30000 THEN "Degrading" ELSE "Stable"
      /\ c = IF CompositeBps(w) - CompositeBps(v) > 150 THEN "Improving"
             ELSE IF CompositeBps(v) - CompositeBps(w) > 150 THEN "Degrading" ELSE "Stable"
    BY <1>1 DEF TrendFrom
<1>3. ScoreWindow(w) - ScoreWindow(v) > 30000 => CompositeBps(w) - CompositeBps(v) > 150
    BY <1>1
<1>4. ScoreWindow(v) - ScoreWindow(w) > 30000
        => CompositeBps(v) - CompositeBps(w) > 150 /\ ~(CompositeBps(w) - CompositeBps(v) > 150)
    BY <1>1
<1> QED
    BY <1>2, <1>3, <1>4

\* The two scores of an anchor's windows agree.
LEMMA ScoredAlike ==
    ASSUME NEW a \in Monitored, NEW ws \in Seq(Windows), ws = healthWindows[a],
           NEW n, n = Len(ws), n > 0,
           NEW c, c = ContractScore(a), NEW h, h = HealthReport(ws)
    PROVE  ScoresMatch(ws, c, h)
<1>1. n \in Nat /\ n > 0
    OBVIOUS
<1>2. ws[n] \in Windows /\ (n > 1 => ws[n - 1] \in Windows) /\ ws # <<>>
  <2>1. n \in 1..Len(ws) /\ (n > 1 => n - 1 \in 1..Len(ws))
    BY <1>1
  <2>2. \A i \in 1..Len(ws) : ws[i] \in Windows
    BY <1>1, ElementOfSeq
  <2>3. ws # <<>>
    BY <1>1
  <2> QED
    BY <2>1, <2>2, <2>3
<1>3. /\ c[1] = CompositeBps(ws[n])
      /\ c[2] = IF n >= 2 THEN TrendFrom(CompositeBps(ws[n]), CompositeBps(ws[n - 1]), 150)
                ELSE "Stable"
    BY <1>1 DEF ContractScore
<1>4. /\ h[1] = ScoreWindow(ws[n]) /\ h[2] = HealthLabel(ScoreWindow(ws[n]))
      /\ h[3] = IF n < 2 THEN "Stable"
                ELSE TrendFrom(ScoreWindow(ws[n]), ScoreWindow(ws[n - 1]), 30000)
    BY <1>2 DEF HealthReport, ComputeTrend
<1> DEFINE x == CompositeBps(ws[n])
           y == ScoreWindow(ws[n])
<1>5. x \in Int /\ y \in Int /\ 100 * x - y \in -159..40
    BY <1>2, CompositesAgree
<1>6. HealthLabel(y) = IF y >= 800000 THEN "healthy" ELSE IF y >= 500000 THEN "degraded"
                       ELSE "critical"
  <2> HIDE DEF y
  <2> QED
    BY <1>5 DEF HealthLabel
<1>7. /\ c[1] * 100 - h[1] \in -200..200
      /\ h[2] = "healthy" => c[1] >= 7998
      /\ h[2] = "critical" => c[1] <= 5000
  <2>1. c[1] = x /\ h[1] = y /\ h[2] = HealthLabel(y)
    BY <1>3, <1>4
  <2> HIDE DEF x, y
  <2>2. (h[2] = "healthy" => y >= 800000) /\ (h[2] = "critical" => y < 500000)
    BY <1>5, <1>6, <2>1
  <2> QED
    BY <1>5, <2>1, <2>2
<1>8. (h[3] # "Stable" => c[2] = h[3]) /\ h[3] \in {"Stable", "Improving", "Degrading"}
  <2>1. CASE n < 2
    BY <1>4, <2>1
  <2>2. CASE ~(n < 2)
    <3>1. n > 1 /\ n >= 2
      BY <1>1, <2>2
    <3>2. ws[n] \in Windows /\ ws[n - 1] \in Windows
      BY <1>2, <3>1
    <3>3. /\ h[3] = TrendFrom(ScoreWindow(ws[n]), ScoreWindow(ws[n - 1]), 30000)
          /\ c[2] = TrendFrom(CompositeBps(ws[n]), CompositeBps(ws[n - 1]), 150)
      BY <1>3, <1>4, <2>2, <3>1
    <3> QED
      BY <3>2, <3>3, TrendsAgree
  <2> QED
    BY <2>1, <2>2
<1>9. {c[2], h[3]} # {"Improving", "Degrading"}
  <2>1. CASE h[3] = "Stable"
    BY <2>1
  <2>2. CASE h[3] # "Stable"
    <3>1. c[2] = h[3]
      BY <1>8, <2>2
    <3>2. \A e \in {c[2], h[3]} : e = h[3]
      BY <3>1
    <3>3. \E e, f \in {"Improving", "Degrading"} : e # f
      OBVIOUS
    <3> QED
      BY <3>2, <3>3
  <2> QED
    BY <2>1, <2>2
<1>10. ScoreWindow(AggregateWindows(<<ws[n]>>)) = h[1]
    BY <1>2, <1>4, AggregateOfOne
<1>11. ASSUME n > 1
       PROVE  HealthTransition(ScoreWindow(ws[n - 1]), h[1]) = "NoChange"
                <=> (HealthLabel(ScoreWindow(ws[n - 1])) = "healthy" <=> h[2] = "healthy")
  <2> DEFINE z == ScoreWindow(ws[n - 1])
  <2>1. z \in Int
    BY <1>2, <1>11, CompositesAgree
  <2>2. h[1] = y /\ h[2] = HealthLabel(y)
    BY <1>4
  <2> HIDE DEF y, z
  <2>3. HealthLabel(z) = IF z >= 800000 THEN "healthy" ELSE IF z >= 500000 THEN "degraded"
                         ELSE "critical"
    BY <2>1 DEF HealthLabel
  <2>4. HealthTransition(z, y) = IF z < 800000 /\ y >= 800000 THEN "Recovery"
                                 ELSE IF z >= 800000 /\ y < 800000 THEN "Failure" ELSE "NoChange"
    BY <1>5, <2>1 DEF HealthTransition
  <2>5. (HealthLabel(z) = "healthy" <=> z >= 800000) /\ (HealthLabel(y) = "healthy" <=> y >= 800000)
    BY <1>6, <2>3
  <2>6. z >= 800000 <=> ~(z < 800000)
    BY <2>1
  <2>7. y >= 800000 <=> ~(y < 800000)
    BY <1>5
  <2>8. HealthTransition(z, y) = "NoChange" <=> (z >= 800000 <=> y >= 800000)
    BY <2>4, <2>6, <2>7
  <2>9. HealthTransition(z, y) = "NoChange"
          <=> (HealthLabel(z) = "healthy" <=> HealthLabel(y) = "healthy")
    BY <2>5, <2>8
  <2> QED
    BY <2>2, <2>9 DEF z
<1> HIDE DEF x, y
<1>12. ScoreWindow(AggregateWindows(<<ws[Len(ws)]>>)) = h[1]
    BY <1>10
<1>13. Len(ws) > 1 => (HealthTransition(ScoreWindow(ws[Len(ws) - 1]), h[1]) = "NoChange"
                       <=> (HealthLabel(ScoreWindow(ws[Len(ws) - 1])) = "healthy" <=> h[2] = "healthy"))
    BY <1>11
<1> QED
    BY <1>7, <1>8, <1>9, <1>12, <1>13, SMTT(40) DEF ScoresMatch

\* The two scores agree on any windows.
LEMMA WindowsScoredAlike ==
    ASSUME healthWindows \in [Monitored -> Seq(Windows)]
    PROVE  ScoresAgree
<1>1. ASSUME NEW a \in Monitored, healthWindows[a] # <<>>
      PROVE  ScoresMatch(healthWindows[a], ContractScore(a), HealthReport(healthWindows[a]))
  <2>1. healthWindows[a] \in Seq(Windows)
    OBVIOUS
  <2>2. Len(healthWindows[a]) > 0
    BY <1>1, <2>1
  <2> QED
    BY <2>1, <2>2, ScoredAlike
<1> QED
    BY <1>1 DEF ScoresAgree

\* What register_endpoint_proof stores.
ProofRecords == [endpoint : Endpoints, hash : Hashes, verified : BOOLEAN]

\* The inductive invariant of the health and the proofs of possession.
HealthInv ==
    /\ healthWindows \in [Monitored -> Seq(Windows)]
    /\ endpoint \in [Monitored -> Endpoints \cup {NoProof}]
    /\ proof \in [Monitored -> ProofRecords \cup {NoProof}]
    /\ since \in [Monitored -> SUBSET {"moved", "presented"}]
    /\ EndpointProofsEarned

\* What EndpointProofsEarned says of one anchor.
Earned(p, e, s) ==
    p # NoProof => /\ p.verified => "presented" \in s
                   /\ p.endpoint = e \/ e = NoProof \/ "moved" \in s

\* The property is that of each anchor.
LEMMA EarnedIs == EndpointProofsEarned <=> \A a \in Monitored : Earned(proof[a], endpoint[a], since[a])
BY DEF EndpointProofsEarned, Earned

\* A window is recorded at the end, the oldest going when there is no room.
LEMMA WindowsRecorded ==
    ASSUME HealthInv, NEW a \in Monitored, NEW w \in HealthWindows, RecordHealthWindow(a, w)
    PROVE  HealthInv'
<1>1. healthWindows' \in [Monitored -> Seq(Windows)]
  <2> DEFINE ws == healthWindows[a]
             kept == IF Len(ws) >= MaxHealthWindows THEN Tail(ws) ELSE ws
  <2>1. w \in Windows
    BY HealthConstants DEF HealthConstants, Windows
  <2>2. healthWindows' = [healthWindows EXCEPT ![a] = Append(kept, w)]
    BY DEF RecordHealthWindow
  <2>3. ws \in Seq(Windows)
    BY DEF HealthInv
  <2>4. kept \in Seq(Windows)
    <3>1. CASE Len(ws) >= MaxHealthWindows
      <4>1. Len(ws) > 0
        BY <2>3, <3>1, HealthConstants DEF HealthConstants
      <4>2. ws # <<>>
        BY <4>1
      <4> HIDE DEF Windows, ws
      <4>3. Tail(ws) \in Seq(Windows)
        BY <2>3, <4>2
      <4> QED
        BY <3>1, <4>3
    <3>2. CASE ~(Len(ws) >= MaxHealthWindows)
      BY <2>3, <3>2
    <3> QED
      BY <3>1, <3>2
  <2> HIDE DEF kept, ws
  <2>5. Append(kept, w) \in Seq(Windows)
    BY <2>1, <2>4, AppendProperties
  <2> QED
    BY <2>2, <2>5 DEF HealthInv
<1>2. UNCHANGED <<endpoint, proof, since>>
    BY DEF RecordHealthWindow
<1> QED
    BY <1>1, <1>2 DEF HealthInv, EndpointProofsEarned

\* A proof stays earned by whatever is done to it or to the endpoint.
LEMMA ProofsStayEarned ==
    ASSUME HealthInv, ProofNext
    PROVE  HealthInv'
<1>1. PICK a \in Monitored :
        \/ \E e \in Endpoints : SetEndpoint(a, e)
        \/ \E e \in Endpoints, h \in Hashes : RegisterEndpointProof(a, e, h)
        \/ \E h \in Hashes : VerifyEndpointProof(a, h)
    BY DEF ProofNext
<1>2. \A b \in Monitored : Earned(proof[b], endpoint[b], since[b])
    BY EarnedIs DEF HealthInv
<1>3. ASSUME NEW e \in Endpoints, SetEndpoint(a, e) PROVE HealthInv'
  <2>1. /\ endpoint' = [endpoint EXCEPT ![a] = e]
        /\ since' = [since EXCEPT ![a] = @ \cup {"moved"}]
        /\ UNCHANGED <<healthWindows, proof>>
    BY <1>3 DEF SetEndpoint
  <2>2. \A b \in Monitored : Earned(proof'[b], endpoint'[b], since'[b])
    BY <1>2, <2>1 DEF Earned, HealthInv
  <2> QED
    BY <2>1, <2>2 DEF HealthInv, EndpointProofsEarned, Earned
<1>4. ASSUME NEW e \in Endpoints, NEW h \in Hashes, RegisterEndpointProof(a, e, h)
      PROVE  HealthInv'
  <2> DEFINE p == [endpoint |-> e, hash |-> h, verified |-> FALSE]
  <2>1. /\ endpoint[a] \in {NoProof, e}
        /\ proof' = [proof EXCEPT ![a] = p]
        /\ since' = [since EXCEPT ![a] = {}]
        /\ UNCHANGED <<healthWindows, endpoint>>
    BY <1>4 DEF RegisterEndpointProof
  <2>2. p \in ProofRecords /\ p.endpoint = e /\ ~p.verified
    BY DEF ProofRecords
  <2> HIDE DEF p
  <2>3. \A b \in Monitored : Earned(proof'[b], endpoint'[b], since'[b])
    BY <1>2, <2>1, <2>2 DEF Earned, HealthInv
  <2>4. proof' \in [Monitored -> ProofRecords \cup {NoProof}]
    BY <2>1, <2>2 DEF HealthInv
  <2> QED
    BY <2>1, <2>3, <2>4 DEF HealthInv, EndpointProofsEarned, Earned
<1>5. ASSUME NEW h \in Hashes, VerifyEndpointProof(a, h) PROVE HealthInv'
  <2> DEFINE p == [proof[a] EXCEPT !.verified = TRUE]
  <2>1. /\ proof[a] # NoProof
        /\ proof' = [proof EXCEPT ![a] = p]
        /\ since' = [since EXCEPT ![a] = @ \cup {"presented"}]
        /\ UNCHANGED <<healthWindows, endpoint>>
    BY <1>5 DEF VerifyEndpointProof
  <2>2. proof[a] \in ProofRecords
    BY <2>1 DEF HealthInv
  <2>3. p \in ProofRecords /\ p.endpoint = proof[a].endpoint
    BY <2>2 DEF ProofRecords
  <2> HIDE DEF p
  <2>4. \A b \in Monitored : Earned(proof'[b], endpoint'[b], since'[b])
    BY <1>2, <2>1, <2>3 DEF Earned, HealthInv
  <2>5. proof' \in [Monitored -> ProofRecords \cup {NoProof}]
    BY <2>1, <2>3 DEF HealthInv
  <2> QED
    BY <2>1, <2>4, <2>5 DEF HealthInv, EndpointProofsEarned, Earned
<1> QED
    BY <1>1, <1>3, <1>4, <1>5

\* Whatever is recorded, configured and presented, in any order: the admin log keeps
\* its newest entries, the contract's and the host's scores of an anchor agree where
\* they are meant to, and a verified proof of possession was earned.
THEOREM OversightSoundHolds == OversightSpec => []OversightSound
<1>1. AdminLogInit /\ HealthInit => HealthInv
  <2> SUFFICES ASSUME HealthInit PROVE HealthInv
    OBVIOUS
  <2>1. <<>> \in Seq(Windows)
    OBVIOUS
  <2> HIDE DEF Windows
  <2> QED
    BY <2>1 DEF HealthInit, HealthInv, EndpointProofsEarned
<1>2. HealthInv /\ [\/ AdminLogNext /\ UNCHANGED healthVars
                    \/ (HealthNext \/ ProofNext) /\ UNCHANGED adminLogVars]_<<adminLogVars, healthVars>>
        => HealthInv'
  <2> SUFFICES ASSUME HealthInv, HealthNext \/ ProofNext \/ UNCHANGED healthVars
               PROVE  HealthInv'
    BY DEF healthVars
  <2>1. CASE UNCHANGED healthVars
    BY <2>1 DEF healthVars, HealthInv, EndpointProofsEarned
  <2>2. CASE HealthNext
    <3>1. PICK a \in Monitored : \/ \E success \in BOOLEAN : RecordHealthEvent(a, success)
                                 \/ \E w \in HealthWindows : RecordHealthWindow(a, w)
                                 \/ ResetAnchorHealth(a)
      BY <2>2 DEF HealthNext
    <3>2. CASE \E w \in HealthWindows : RecordHealthWindow(a, w)
      BY <3>2, WindowsRecorded
    <3>3. CASE UNCHANGED <<healthWindows, endpoint, proof, since>>
      BY <3>3 DEF HealthInv, EndpointProofsEarned
    <3> QED
      BY <3>1, <3>2, <3>3 DEF RecordHealthEvent, ResetAnchorHealth
  <2>3. CASE ProofNext
    BY <2>3, ProofsStayEarned
  <2> QED
    BY <2>1, <2>2, <2>3
<1>3. HealthInv => ScoresAgree /\ EndpointProofsEarned
    BY WindowsScoredAlike DEF HealthInv
<1>4. [\/ AdminLogNext /\ UNCHANGED healthVars
       \/ (HealthNext \/ ProofNext) /\ UNCHANGED adminLogVars]_<<adminLogVars, healthVars>>
        => [AdminLogNext]_adminLogVars
    OBVIOUS
<1>5. OversightSpec => AdminLogSpec
    BY <1>4, PTL DEF OversightSpec, AdminLogSpec
<1>6. OversightSpec => []HealthInv
    BY <1>1, <1>2, PTL DEF OversightSpec
<1>7. NewestEntriesKept /\ ScoresAgree /\ EndpointProofsEarned => OversightSound
    BY DEF OversightSound
<1> QED
    BY <1>3, <1>5, <1>6, <1>7, NewestEntriesKeptHolds, PTL

-----------------------------------------------------------------------------
(* The choice of an anchor *)

\* Adding a name that is not there keeps a list without repetitions.
LEMMA PushedOnce ==
    ASSUME NEW X, NEW s \in Seq(X), IsInjective(s), NEW e \in X
    PROVE  /\ Pushed(s, e) \in Seq(X) /\ IsInjective(Pushed(s, e))
           /\ ToSet(Pushed(s, e)) = ToSet(s) \cup {e}
<1>1. CASE Contains(s, e)
  <2>1. e \in ToSet(s)
    BY <1>1, NamedIn
  <2> QED
    BY <1>1, <2>1 DEF Pushed
<1>2. CASE ~Contains(s, e)
  <2> DEFINE t == Append(s, e)
             n == Len(s)
  <2>1. Pushed(s, e) = t
    BY <1>2 DEF Pushed
  <2>2. /\ t \in Seq(X) /\ n \in Nat /\ Len(t) = n + 1
        /\ \A i \in 1..n : t[i] = s[i]
        /\ t[n + 1] = e
    BY AppendedFacts
  <2>3. ToSet(t) = ToSet(s) \cup {e}
    BY AppendedSet
  <2>4. \A i \in 1..n : s[i] # e
    BY <1>2, NamedIn
  <2>5. DOMAIN t = 1..(n + 1) /\ DOMAIN s = 1..n
    BY <2>2, LenProperties
  <2> HIDE DEF t, n
  <2>6. \A i, j \in 1..(n + 1) : t[i] = t[j] => i = j
    <3>1. \A i \in 1..(n + 1) : i \in 1..n \/ i = n + 1
      BY <2>2
    <3>2. \A i, j \in 1..n : s[i] = s[j] => i = j
      BY <2>5 DEF IsInjective
    <3> QED
      BY <2>2, <2>4, <3>1, <3>2
  <2> QED
    BY <2>1, <2>2, <2>3, <2>5, <2>6 DEF IsInjective
<1> QED
    BY <1>1, <1>2

RoutingInv ==
    /\ meta \in [Anchors -> AnchorMeta \cup {NoEntry}]
    /\ latest \in [Anchors -> RoutedQuote \cup {NoEntry}]
    /\ history \in [Anchors -> Seq(MetaValues)]
    /\ anchorList \in Seq(Anchors)
    /\ blacklist \subseteq Anchors /\ blacklistIndex \in Seq(Anchors)
    /\ clusters \in [ClusterIds -> (SUBSET Anchors) \cup {NoEntry}]
    /\ clusterList \in Seq(ClusterIds)
    /\ ListsMatchEntries

\* Metadata is added with its version, at the end of the list the first time.
LEMMA MetadataListed ==
    ASSUME RoutingInv, NEW a \in Anchors, NEW m \in MetaValues, SetAnchorMetadata(a, m)
    PROVE  RoutingInv'
<1> DEFINE e == [rep |-> m.rep, time |-> m.time, active |-> TRUE]
<1>1. /\ meta' = [meta EXCEPT ![a] = e]
      /\ history' = [history EXCEPT ![a] = Append(@, m)]
      /\ anchorList' = Pushed(anchorList, a)
      /\ UNCHANGED <<latest, blacklist, blacklistIndex, clusters, clusterList>>
    BY DEF SetAnchorMetadata
<1>2. /\ e \in AnchorMeta /\ e.rep = m.rep /\ e.time = m.time /\ e # NoEntry
  <2>1. e \in AnchorMeta /\ e.rep = m.rep /\ e.time = m.time
    BY RoutingConstants DEF RoutingConstants, AnchorMeta
  <2> HIDE DEF e
  <2> QED
    BY <2>1, RoutingConstants DEF RoutingConstants
<1>3. /\ anchorList \in Seq(Anchors) /\ IsInjective(anchorList)
      /\ \A b \in Anchors : meta[b] # NoEntry <=> b \in ToSet(anchorList)
    BY NamedIn DEF RoutingInv, ListsMatchEntries
<1>4. /\ anchorList' \in Seq(Anchors) /\ IsInjective(anchorList')
      /\ ToSet(anchorList') = ToSet(anchorList) \cup {a}
    BY <1>1, <1>3, PushedOnce
<1> DEFINE h == Append(history[a], m)
<1>5. h \in Seq(MetaValues) /\ Last(h) = m
    BY AppendedFacts DEF RoutingInv
<1> HIDE DEF e, h
<1>6. /\ meta' \in [Anchors -> AnchorMeta \cup {NoEntry}]
      /\ \A b \in Anchors : meta'[b] = IF b = a THEN e ELSE meta[b]
    BY <1>1, <1>2 DEF RoutingInv
<1>7. /\ history' \in [Anchors -> Seq(MetaValues)]
      /\ \A b \in Anchors : history'[b] = IF b = a THEN h ELSE history[b]
    BY <1>1, <1>5 DEF RoutingInv, h
<1>8. \A b \in Anchors : meta'[b] # NoEntry <=> b \in ToSet(anchorList')
    BY <1>2, <1>3, <1>4, <1>6
<1>9. \A b \in Anchors : meta'[b] # NoEntry => /\ Last(history'[b]).rep = meta'[b].rep
                                               /\ Last(history'[b]).time = meta'[b].time
  <2> TAKE b \in Anchors
  <2>1. CASE b = a
    BY <1>2, <1>5, <1>6, <1>7, <2>1
  <2>2. CASE b # a
    BY <1>6, <1>7, <2>2 DEF RoutingInv, ListsMatchEntries
  <2> QED
    BY <2>1, <2>2
<1>10. \A b \in Anchors : meta'[b] # NoEntry <=> Contains(anchorList', b)
    BY <1>4, <1>8, NamedIn
<1> QED
    BY <1>1, <1>4, <1>6, <1>7, <1>9, <1>10 DEF RoutingInv, ListsMatchEntries

\* The flag of an anchor changes nothing else.
LEMMA ActivityListed ==
    ASSUME RoutingInv, NEW a \in Anchors, NEW active \in BOOLEAN, SetActive(a, active)
    PROVE  RoutingInv'
<1> DEFINE e == [meta[a] EXCEPT !.active = active]
<1>1. /\ meta[a] # NoEntry
      /\ meta' = [meta EXCEPT ![a] = e]
      /\ UNCHANGED <<history, anchorList, latest, blacklist, blacklistIndex, clusters, clusterList>>
    BY DEF SetActive
<1>2. meta[a] \in AnchorMeta
    BY <1>1 DEF RoutingInv
<1>3. e \in AnchorMeta /\ e.rep = meta[a].rep /\ e.time = meta[a].time
    BY <1>2 DEF AnchorMeta
<1>4. e # NoEntry
    BY <1>3, RoutingConstants DEF RoutingConstants
<1> HIDE DEF e
<1>5. /\ meta' \in [Anchors -> AnchorMeta \cup {NoEntry}]
      /\ \A b \in Anchors : meta'[b] = IF b = a THEN e ELSE meta[b]
    BY <1>1, <1>3 DEF RoutingInv
<1>6. \A b \in Anchors :
        /\ meta'[b] # NoEntry <=> Contains(anchorList', b)
        /\ meta'[b] # NoEntry => /\ Last(history'[b]).rep = meta'[b].rep
                                 /\ Last(history'[b]).time = meta'[b].time
    BY <1>1, <1>3, <1>4, <1>5 DEF RoutingInv, ListsMatchEntries
<1> QED
    BY <1>1, <1>5, <1>6 DEF RoutingInv, ListsMatchEntries

\* The blacklist and its index change together.
LEMMA BlacklistListed ==
    ASSUME RoutingInv, NEW a \in Anchors, BlacklistAnchor(a) \/ RemoveFromBlacklist(a)
    PROVE  RoutingInv'
<1>1. /\ blacklistIndex \in Seq(Anchors) /\ IsInjective(blacklistIndex)
      /\ ToSet(blacklistIndex) = blacklist /\ blacklist \subseteq Anchors
    BY NamedIn DEF RoutingInv, ListsMatchEntries
<1>2. UNCHANGED <<meta, history, anchorList, latest, clusters, clusterList>>
    BY DEF BlacklistAnchor, RemoveFromBlacklist
<1>3. /\ blacklistIndex' \in Seq(Anchors) /\ IsInjective(blacklistIndex')
      /\ ToSet(blacklistIndex') = blacklist' /\ blacklist' \subseteq Anchors
  <2>1. CASE BlacklistAnchor(a)
    BY <1>1, <2>1, PushedOnce DEF BlacklistAnchor
  <2>2. CASE RemoveFromBlacklist(a)
    <3>1. /\ blacklistIndex' = Kept(blacklistIndex, Anchors \ {a})
          /\ blacklist' = blacklist \ {a}
      BY <2>2 DEF RemoveFromBlacklist
    <3>2. /\ Kept(blacklistIndex, Anchors \ {a}) \in Seq(Anchors)
          /\ IsInjective(Kept(blacklistIndex, Anchors \ {a}))
          /\ ToSet(Kept(blacklistIndex, Anchors \ {a}))
               = ToSet(blacklistIndex) \cap (Anchors \ {a})
      BY <1>1, KeptOnce
    <3>3. ToSet(blacklistIndex) \cap (Anchors \ {a}) = blacklist \ {a}
      BY <1>1
    <3> QED
      BY <1>1, <3>1, <3>2, <3>3
  <2> QED
    BY <2>1, <2>2
<1>4. Range(blacklistIndex') = blacklist'
    BY <1>3, NamedIn
<1> QED
    BY <1>2, <1>3, <1>4 DEF RoutingInv, ListsMatchEntries

\* The clusters and their list change together.
LEMMA ClustersListed ==
    ASSUME RoutingInv, ClusterNext
    PROVE  RoutingInv'
<1>1. PICK c \in ClusterIds :
        \/ \E as \in SUBSET Anchors : CreateAnchorCluster(c, as) \/ UpdateAnchorClusterAnchors(c, as)
        \/ DeleteAnchorCluster(c)
    BY DEF ClusterNext
<1>2. /\ clusterList \in Seq(ClusterIds) /\ IsInjective(clusterList)
      /\ ToSet(clusterList) = {d \in ClusterIds : clusters[d] # NoEntry}
      /\ clusters \in [ClusterIds -> (SUBSET Anchors) \cup {NoEntry}]
    BY NamedIn DEF RoutingInv, ListsMatchEntries
<1>3. UNCHANGED <<meta, history, anchorList, latest, blacklist, blacklistIndex>>
    BY <1>1 DEF CreateAnchorCluster, UpdateAnchorClusterAnchors, DeleteAnchorCluster
<1> DEFINE Listed == /\ clusterList' \in Seq(ClusterIds) /\ IsInjective(clusterList')
                     /\ ToSet(clusterList') = {d \in ClusterIds : clusters'[d] # NoEntry}
                     /\ clusters' \in [ClusterIds -> (SUBSET Anchors) \cup {NoEntry}]
<1>4. Listed
  <2>1. ASSUME NEW as \in SUBSET Anchors, CreateAnchorCluster(c, as)
        PROVE  Listed
    <3>1. clusters' = [clusters EXCEPT ![c] = as] /\ clusterList' = Pushed(clusterList, c)
      BY <2>1 DEF CreateAnchorCluster
    <3>2. as # NoEntry
      BY RoutingConstants DEF RoutingConstants
    <3>3. /\ clusterList' \in Seq(ClusterIds) /\ IsInjective(clusterList')
          /\ ToSet(clusterList') = ToSet(clusterList) \cup {c}
      BY <1>2, <3>1, PushedOnce
    <3>4. /\ clusters' \in [ClusterIds -> (SUBSET Anchors) \cup {NoEntry}]
          /\ \A d \in ClusterIds : clusters'[d] = IF d = c THEN as ELSE clusters[d]
      BY <1>2, <3>1
    <3> QED
      BY <1>2, <3>2, <3>3, <3>4
  <2>2. ASSUME NEW as \in SUBSET Anchors, UpdateAnchorClusterAnchors(c, as)
        PROVE  Listed
    <3>1. /\ clusters' = [clusters EXCEPT ![c] = as] /\ clusterList' = clusterList
          /\ clusters[c] # NoEntry
      BY <2>2 DEF UpdateAnchorClusterAnchors
    <3>2. as # NoEntry
      BY RoutingConstants DEF RoutingConstants
    <3>3. /\ clusters' \in [ClusterIds -> (SUBSET Anchors) \cup {NoEntry}]
          /\ \A d \in ClusterIds : clusters'[d] = IF d = c THEN as ELSE clusters[d]
      BY <1>2, <3>1
    <3> QED
      BY <1>2, <3>1, <3>2, <3>3
  <2>3. ASSUME DeleteAnchorCluster(c)
        PROVE  Listed
    <3>1. /\ clusters' = [clusters EXCEPT ![c] = NoEntry]
          /\ clusterList' = Kept(clusterList, ClusterIds \ {c})
      BY <2>3 DEF DeleteAnchorCluster
    <3>2. /\ clusterList' \in Seq(ClusterIds) /\ IsInjective(clusterList')
          /\ ToSet(clusterList') = ToSet(clusterList) \cap (ClusterIds \ {c})
      BY <1>2, <3>1, KeptOnce
    <3>3. /\ clusters' \in [ClusterIds -> (SUBSET Anchors) \cup {NoEntry}]
          /\ \A d \in ClusterIds : clusters'[d] = IF d = c THEN NoEntry ELSE clusters[d]
      BY <1>2, <3>1
    <3> QED
      BY <1>2, <3>2, <3>3
  <2> QED
    BY <1>1, <2>1, <2>2, <2>3
<1>5. Range(clusterList') = {d \in ClusterIds : clusters'[d] # NoEntry}
    BY <1>4, NamedIn
<1> QED
    BY <1>3, <1>4, <1>5 DEF RoutingInv, ListsMatchEntries

\* Every step of the routing keeps its lists.
LEMMA RoutingListed ==
    ASSUME RoutingInv, RoutingNext
    PROVE  RoutingInv'
<1>1. PICK a \in Anchors :
         \/ \E m \in MetaValues : SetAnchorMetadata(a, m)
         \/ \E active \in BOOLEAN : SetActive(a, active)
         \/ BlacklistAnchor(a) \/ RemoveFromBlacklist(a)
         \/ \E q \in QuoteOffers, invalid \in BOOLEAN : LatestQuoteChanges(a, q, invalid)
    BY DEF RoutingNext
<1>2. ASSUME NEW q \in QuoteOffers, NEW invalid \in BOOLEAN, LatestQuoteChanges(a, q, invalid)
      PROVE  RoutingInv'
  <2> DEFINE e == [fee |-> q.fee, pair |-> q.pair, until |-> q.until, min |-> q.min,
                   max |-> q.max, invalid |-> invalid]
  <2>1. /\ latest' = [latest EXCEPT ![a] = e]
        /\ UNCHANGED <<meta, history, anchorList, blacklist, blacklistIndex, clusters, clusterList>>
    BY <1>2 DEF LatestQuoteChanges
  <2>2. e \in RoutedQuote
    BY RoutingConstants DEF RoutingConstants, RoutedQuote
  <2> HIDE DEF e
  <2> QED
    BY <2>1, <2>2 DEF RoutingInv, ListsMatchEntries
<1> QED
    BY <1>1, <1>2, MetadataListed, ActivityListed, BlacklistListed

\* A list of naturals has a greatest.
LEMMA GreatestIsNat ==
    ASSUME NEW X, NEW seq \in Seq(X), Len(seq) > 0, NEW g \in [X -> Nat]
    PROVE  Max({g[x] : x \in ToSet(seq)}) \in Nat
<1> DEFINE key == [x \in X |-> 0 - g[x]]
           T == {p \in X \X X : g[p[1]] > g[p[2]]}
<1>1. key \in [X -> Int] /\ \A x \in X : key[x] = 0 - g[x] /\ g[x] \in Nat
    OBVIOUS
<1>2. \A x, y \in X : <<x, y>> \in T <=> g[x] > g[y]
    OBVIOUS
<1> HIDE DEF key, T
<1>3. /\ \A x, y \in X : <<x, y>> \in T => key[x] <= key[y]
      /\ \A x, y \in X : key[x] < key[y] => <<x, y>> \in T
  <2>1. ASSUME NEW x \in X, NEW y \in X
        PROVE  /\ <<x, y>> \in T => key[x] <= key[y]
               /\ key[x] < key[y] => <<x, y>> \in T
    <3>1. key[x] = 0 - g[x] /\ key[y] = 0 - g[y] /\ g[x] \in Nat /\ g[y] \in Nat
      BY <1>1
    <3> QED
      BY <1>2, <3>1
  <2> QED
    BY <2>1
<1>4. PICK p \in 1..Len(seq) : \A i \in 1..Len(seq) : key[seq[p]] <= key[seq[i]]
    BY <1>1, <1>3, BestPlace
<1>5. /\ \A i \in 1..Len(seq) : seq[i] \in X
      /\ \A x : x \in ToSet(seq) <=> \E i \in 1..Len(seq) : seq[i] = x
    BY ElementOfSeq, NamedIn
<1>6. \A x \in ToSet(seq) : g[seq[p]] >= g[x]
  <2> TAKE x \in ToSet(seq)
  <2>1. PICK i \in 1..Len(seq) : seq[i] = x
    BY <1>5
  <2>2. key[seq[p]] <= key[x] /\ seq[p] \in X /\ x \in X
    BY <1>4, <1>5, <2>1
  <2>3. /\ key[x] = 0 - g[x] /\ key[seq[p]] = 0 - g[seq[p]]
        /\ g[x] \in Nat /\ g[seq[p]] \in Nat
    BY <1>1, <2>2
  <2> QED
    BY <2>2, <2>3
<1> DEFINE S == {g[x] : x \in ToSet(seq)}
<1>7. g[seq[p]] \in S /\ g[seq[p]] \in Nat
    BY <1>5
<1>8. \A z \in S : g[seq[p]] >= z /\ z \in Nat
  <2> TAKE z \in S
  <2>1. PICK x \in ToSet(seq) : z = g[x]
    OBVIOUS
  <2>2. x \in X
    BY <1>5, <2>1
  <2> QED
    BY <1>1, <1>6, <2>1, <2>2
<1> HIDE DEF S
<1>9. \E z \in S : \A y \in S : z >= y
    BY <1>7, <1>8
<1>10. Max(S) \in S
    BY <1>9 DEF Max
<1> QED
    BY <1>8, <1>10 DEF S

\* The anchors a request may be routed to.
Fit(o) == {a \in Anchors : Eligible(a, o)}

\* a is listed before b.
Before == {p \in Anchors \X Anchors :
             \E i, j \in 1..Len(anchorList) :
                 i < j /\ anchorList[i] = p[1] /\ anchorList[j] = p[2]}

\* What is known of an anchor that fits.
LEMMA FitFacts ==
    ASSUME RoutingInv, NEW o \in RoutingOptions, NEW a \in Fit(o)
    PROVE  /\ a \in Anchors /\ a # NoEntry /\ Eligible(a, o) /\ a \in ToSet(anchorList)
           /\ meta[a] \in AnchorMeta /\ meta[a].rep \in Nat /\ meta[a].time \in Nat
           /\ latest[a] \in RoutedQuote /\ latest[a].fee \in Nat
<1>1. a \in Anchors /\ Eligible(a, o) /\ meta[a] # NoEntry /\ latest[a] # NoEntry
    BY DEF Fit, Eligible, Live, QuoteFits
<1>2. a # NoEntry
    BY <1>1, RoutingConstants DEF RoutingConstants
<1>3. a \in ToSet(anchorList)
    BY <1>1, NamedIn DEF RoutingInv, ListsMatchEntries
<1>4. meta[a] \in AnchorMeta /\ latest[a] \in RoutedQuote
    BY <1>1 DEF RoutingInv
<1> QED
    BY <1>1, <1>2, <1>3, <1>4 DEF AnchorMeta, RoutedQuote

\* The candidates are the anchors that fit, in the order of the list.
LEMMA CandidatesAre ==
    ASSUME RoutingInv, NEW o \in RoutingOptions
    PROVE  /\ Candidates(o) \in Seq(Fit(o)) /\ ToSet(Candidates(o)) = Fit(o)
           /\ Range(Candidates(o)) = Fit(o)
           /\ (Candidates(o) = <<>> <=> Fit(o) = {})
           /\ \A i, j \in 1..Len(Candidates(o)) :
                  i < j => <<Candidates(o)[i], Candidates(o)[j]>> \in Before
<1> DEFINE cs == Candidates(o)
<1>1. cs = Kept(anchorList, Fit(o)) /\ anchorList \in Seq(Anchors)
    BY DEF Candidates, Fit, RoutingInv
<1> HIDE DEF cs
<1>2. cs \in Seq(Anchors) /\ ToSet(cs) = ToSet(anchorList) \cap Fit(o)
    BY <1>1, KeptIds
<1>3. ToSet(cs) = Fit(o)
    BY <1>2, FitFacts
<1>4. cs \in Seq(ToSet(cs)) /\ Range(cs) = ToSet(cs)
    BY <1>2, NamedIn
<1>5. cs = <<>> <=> ToSet(cs) = {}
  <2>1. \A x : x \in ToSet(cs) <=> \E i \in 1..Len(cs) : cs[i] = x
    BY <1>2, NamedIn
  <2>2. Len(cs) \in Nat /\ (cs = <<>> <=> Len(cs) = 0)
    BY <1>2, EmptySeq, LenProperties
  <2>3. Len(cs) # 0 => 1 \in 1..Len(cs)
    BY <2>2
  <2>4. Len(cs) = 0 => 1..Len(cs) = {}
    OBVIOUS
  <2> QED
    BY <2>1, <2>2, <2>3, <2>4
<1>6. \A i, j \in 1..Len(anchorList) : i < j => <<anchorList[i], anchorList[j]>> \in Before
  <2>1. \A i \in 1..Len(anchorList) : anchorList[i] \in Anchors
    BY <1>1, ElementOfSeq
  <2> QED
    BY <2>1 DEF Before
<1>7. \A i, j \in 1..Len(cs) : i < j => <<cs[i], cs[j]>> \in Before
    BY <1>1, <1>6, KeptOrdered
<1> QED
    BY <1>3, <1>4, <1>5, <1>7 DEF cs

\* One anchor has one place in the list, so none is before itself.
LEMMA BeforeIsOrder ==
    ASSUME RoutingInv, NEW a, NEW b, <<a, b>> \in Before
    PROVE  /\ <<b, a>> \notin Before
           /\ \A i, j \in DOMAIN anchorList :
                  anchorList[i] = a /\ anchorList[j] = b => i < j
<1>1. PICK i, j \in 1..Len(anchorList) : i < j /\ anchorList[i] = a /\ anchorList[j] = b
    BY DEF Before
<1>2. /\ DOMAIN anchorList = 1..Len(anchorList) /\ Len(anchorList) \in Nat
      /\ \A m, n \in 1..Len(anchorList) : anchorList[m] = anchorList[n] => m = n
    BY LenProperties, SMTT(20) DEF RoutingInv, ListsMatchEntries, IsInjective
<1>3. \A m, n \in 1..Len(anchorList) :
        (anchorList[m] = a => m = i) /\ (anchorList[n] = b => n = j)
    BY <1>1, <1>2
<1>4. <<b, a>> \notin Before
  <2> SUFFICES ASSUME <<b, a>> \in Before PROVE FALSE
    OBVIOUS
  <2>1. PICK m, n \in 1..Len(anchorList) : m < n /\ anchorList[m] = b /\ anchorList[n] = a
    BY DEF Before
  <2> QED
    BY <1>1, <1>2, <1>3, <2>1
<1> QED
    BY <1>1, <1>2, <1>3, <1>4

\* The score of a candidate is a number.
LEMMA ScoreIsInt ==
    ASSUME RoutingInv, NEW o \in RoutingOptions, NEW a \in Fit(o)
    PROVE  WeightedScore(a, Candidates(o), o.weights) \in Int
<1> DEFINE cs == Candidates(o)
           w == o.weights
           mf == Max({latest[c].fee : c \in Range(cs)})
           mt == Max({meta[c].time : c \in Range(cs)})
           mr == Max({meta[c].rep : c \in Range(cs)})
           d == Max({1, mf}) * Max({1, mt}) * Max({1, mr})
<1>1. w.fee \in Nat /\ w.speed \in Nat /\ w.rep \in Nat
    BY RoutingConstants DEF RoutingConstants
<1>2. latest[a].fee \in Nat /\ meta[a].time \in Nat /\ meta[a].rep \in Nat
    BY FitFacts
<1>3. cs \in Seq(Fit(o)) /\ Range(cs) = Fit(o) /\ ToSet(cs) = Fit(o) /\ Len(cs) > 0
  <2>1. cs \in Seq(Fit(o)) /\ Range(cs) = Fit(o) /\ ToSet(cs) = Fit(o) /\ cs # <<>>
    BY CandidatesAre
  <2> HIDE DEF cs
  <2> QED
    BY <2>1, EmptySeq, LenProperties
<1> HIDE DEF cs
<1>4. mf \in Nat
  <2> DEFINE g == [c \in Fit(o) |-> latest[c].fee]
  <2>1. g \in [Fit(o) -> Nat]
    BY FitFacts
  <2>2. {latest[c].fee : c \in Range(cs)} = {g[c] : c \in ToSet(cs)}
    BY <1>3
  <2> HIDE DEF g
  <2>3. Max({g[c] : c \in ToSet(cs)}) \in Nat
    BY <1>3, <2>1, GreatestIsNat
  <2> QED
    BY <2>2, <2>3
<1>5. mt \in Nat
  <2> DEFINE g == [c \in Fit(o) |-> meta[c].time]
  <2>1. g \in [Fit(o) -> Nat]
    BY FitFacts
  <2>2. {meta[c].time : c \in Range(cs)} = {g[c] : c \in ToSet(cs)}
    BY <1>3
  <2> HIDE DEF g
  <2>3. Max({g[c] : c \in ToSet(cs)}) \in Nat
    BY <1>3, <2>1, GreatestIsNat
  <2> QED
    BY <2>2, <2>3
<1>6. mr \in Nat
  <2> DEFINE g == [c \in Fit(o) |-> meta[c].rep]
  <2>1. g \in [Fit(o) -> Nat]
    BY FitFacts
  <2>2. {meta[c].rep : c \in Range(cs)} = {g[c] : c \in ToSet(cs)}
    BY <1>3
  <2> HIDE DEF g
  <2>3. Max({g[c] : c \in ToSet(cs)}) \in Nat
    BY <1>3, <2>1, GreatestIsNat
  <2> QED
    BY <2>2, <2>3
<1>7. d \in Int
  <2> HIDE DEF mf, mt, mr
  <2>1. Max({1, mf}) \in Nat /\ Max({1, mt}) \in Nat /\ Max({1, mr}) \in Nat
    BY <1>4, <1>5, <1>6, MinMaxIsNat
  <2>2. \A x, y, z \in Nat : x * y * z \in Int
    OBVIOUS
  <2> QED
    BY <2>1, <2>2
<1> DEFINE part(m, v, n) == n * (IF m = 0 THEN d ELSE ((m - v) * d) \div m)
           share == IF mr = 0 THEN 0 ELSE (meta[a].rep * d) \div mr
<1>8. WeightedScore(a, cs, w)
        = part(mf, latest[a].fee, w.fee) + part(mt, meta[a].time, w.speed) + w.rep * share
    BY DEF WeightedScore
<1> HIDE DEF d, mf, mt, mr, w
<1>9. \A x \in Int : \A n \in Nat \ {0} : x \div n \in Int
    OBVIOUS
<1>10. \A x, y \in Int : x * y \in Int
    OBVIOUS
<1>11. ASSUME NEW m \in Nat, NEW v \in Nat, NEW n \in Nat
       PROVE  part(m, v, n) \in Int
  <2>1. m - v \in Int
    OBVIOUS
  <2>2. (m - v) * d \in Int
    BY <1>7, <1>10, <2>1
  <2>3. m # 0 => ((m - v) * d) \div m \in Int
    BY <1>9, <2>2
  <2>4. (IF m = 0 THEN d ELSE ((m - v) * d) \div m) \in Int
    BY <1>7, <2>3
  <2> QED
    BY <1>10, <2>4
<1>12. w.rep * share \in Int
  <2>1. meta[a].rep * d \in Int
    BY <1>2, <1>7, <1>10
  <2>2. mr # 0 => (meta[a].rep * d) \div mr \in Int
    BY <1>6, <1>9, <2>1
  <2>3. share \in Int
    BY <2>2
  <2> QED
    BY <1>1, <1>10, <2>3
<1>13. /\ part(mf, latest[a].fee, w.fee) \in Int
       /\ part(mt, meta[a].time, w.speed) \in Int
    BY <1>1, <1>2, <1>4, <1>5, <1>11
<1> HIDE DEF part, share
<1> QED
    BY <1>8, <1>12, <1>13 DEF cs, w

\* What a strategy minimises.
StrategyKey(o, a) ==
    IF o.strategy = "LowestFee" THEN latest[a].fee
    ELSE IF o.strategy = "FastestSettlement" THEN meta[a].time
    ELSE IF o.strategy = "HighestReputation" THEN 0 - meta[a].rep
    ELSE IF o.strategy = "WeightedScore" THEN 0 - WeightedScore(a, Candidates(o), o.weights)
    ELSE 0

\* One candidate is better than another when its key is less.
LEMMA BetterByKey ==
    ASSUME RoutingInv, NEW o \in RoutingOptions, NEW a \in Fit(o), NEW b \in Fit(o)
    PROVE  /\ StrategyKey(o, a) \in Int
           /\ Better(o, Candidates(o), a, b) <=> StrategyKey(o, a) < StrategyKey(o, b)
<1>1. /\ latest[a].fee \in Nat /\ meta[a].time \in Nat /\ meta[a].rep \in Nat
      /\ latest[b].fee \in Nat /\ meta[b].time \in Nat /\ meta[b].rep \in Nat
    BY FitFacts
<1> DEFINE x == WeightedScore(a, Candidates(o), o.weights)
           y == WeightedScore(b, Candidates(o), o.weights)
<1>2. x \in Int /\ y \in Int
    BY ScoreIsInt
<1>3. Better(o, Candidates(o), a, b) <=>
        IF o.strategy = "LowestFee" THEN latest[a].fee < latest[b].fee
        ELSE IF o.strategy = "FastestSettlement" THEN meta[a].time < meta[b].time
        ELSE IF o.strategy = "HighestReputation" THEN meta[a].rep > meta[b].rep
        ELSE IF o.strategy = "WeightedScore" THEN x > y
        ELSE FALSE
    BY DEF Better
<1>4. /\ StrategyKey(o, a) = IF o.strategy = "LowestFee" THEN latest[a].fee
                             ELSE IF o.strategy = "FastestSettlement" THEN meta[a].time
                             ELSE IF o.strategy = "HighestReputation" THEN 0 - meta[a].rep
                             ELSE IF o.strategy = "WeightedScore" THEN 0 - x ELSE 0
      /\ StrategyKey(o, b) = IF o.strategy = "LowestFee" THEN latest[b].fee
                             ELSE IF o.strategy = "FastestSettlement" THEN meta[b].time
                             ELSE IF o.strategy = "HighestReputation" THEN 0 - meta[b].rep
                             ELSE IF o.strategy = "WeightedScore" THEN 0 - y ELSE 0
    BY DEF StrategyKey
<1> HIDE DEF x, y
<1> QED
    BY <1>1, <1>2, <1>3, <1>4

\* The pick fits, no candidate is better, and it is better than those listed before it.
LEMMA PickIsBest ==
    ASSUME RoutingInv, NEW o \in RoutingOptions, Fit(o) # {},
           NEW r, r = Pick(o, Candidates(o))
    PROVE  /\ r \in Fit(o)
           /\ \A a \in Fit(o) : ~Better(o, Candidates(o), a, r)
           /\ \A a \in Fit(o) : Better(o, Candidates(o), r, a) \/ a = r \/ <<r, a>> \in Before
<1> DEFINE cs == Candidates(o)
           X == Fit(o)
           T == {p \in ToSet(cs) \X ToSet(cs) : Better(o, cs, p[1], p[2])}
           key == [a \in X |-> StrategyKey(o, a)]
<1>1. /\ cs \in Seq(X) /\ ToSet(cs) = X /\ cs # <<>>
      /\ \A i, j \in 1..Len(cs) : i < j => <<cs[i], cs[j]>> \in Before
    BY CandidatesAre
<1>2. r = BestOf(cs, T)
    BY DEF Pick
<1>3. key \in [X -> Int] /\ \A a \in X : key[a] = StrategyKey(o, a)
    BY BetterByKey
<1>4. \A a, b \in X : <<a, b>> \in T <=> Better(o, cs, a, b)
    BY <1>1
<1>5. \A a, b \in X : key[a] \in Int /\ (Better(o, cs, a, b) <=> key[a] < key[b])
    BY <1>3, BetterByKey
<1> HIDE DEF cs, X, T, key
<1>6. Len(cs) > 0
    BY <1>1, EmptySeq, LenProperties
<1>7. /\ \A x, y \in X : <<x, y>> \in T => key[x] < key[y]
      /\ \A x, y \in X : key[x] < key[y] => <<x, y>> \in T
    BY <1>4, <1>5
<1>8. \A x, y \in X : <<x, y>> \in T => key[x] <= key[y]
  <2> TAKE x, y \in X
  <2>1. key[x] \in Int /\ key[y] \in Int
    BY <1>5
  <2> QED
    BY <1>7, <2>1
<1>9. PICK p \in 1..Len(cs) :
        /\ BestOf(cs, T) = cs[p]
        /\ \A i \in 1..Len(cs) : key[cs[p]] <= key[cs[i]]
        /\ \A i \in 1..(p - 1) : key[cs[p]] < key[cs[i]]
  <2>1. cs \in Seq(X) /\ Len(cs) > 0
    BY <1>1, <1>6
  <2>2. key \in [X -> Int]
    BY <1>3
  <2>3. \A x, y \in X : <<x, y>> \in T <=> key[x] < key[y]
    BY <1>7
  <2> QED
    BY <2>1, <2>2, <2>3, FirstBest, Zenon
<1>10. /\ \A i \in 1..Len(cs) : cs[i] \in X
       /\ \A a : a \in X <=> \E i \in 1..Len(cs) : cs[i] = a
    BY <1>1, ElementOfSeq, NamedIn
<1>11. r = cs[p] /\ r \in X
    BY <1>2, <1>9, <1>10
<1>12. ASSUME NEW a \in X PROVE ~Better(o, cs, a, r)
  <2>1. PICK i \in 1..Len(cs) : cs[i] = a
    BY <1>10
  <2>2. key[r] <= key[a] /\ key[r] \in Int /\ key[a] \in Int
    BY <1>5, <1>9, <1>11, <2>1
  <2> QED
    BY <1>5, <1>11, <2>2
<1>13. ASSUME NEW a \in X PROVE Better(o, cs, r, a) \/ a = r \/ <<r, a>> \in Before
  <2>1. PICK i \in 1..Len(cs) : cs[i] = a
    BY <1>10
  <2>2. i \in 1..(p - 1) \/ i = p \/ p < i
    BY <1>6
  <2> QED
    BY <1>1, <1>5, <1>9, <1>11, <2>1, <2>2
<1> QED
    BY <1>11, <1>12, <1>13 DEF cs, X

\* A request that can be routed is routed to the pick, and only to it.
LEMMA RouteIsPick ==
    ASSUME RoutingInv, NEW o \in RoutingOptions, NEW r, r = RouteTransaction(o)
    PROVE  /\ r # NoEntry <=> Fit(o) # {} /\ Cleared(o)
           /\ r # NoEntry => r = Pick(o, Candidates(o)) /\ r \in Fit(o)
<1>1. Candidates(o) = <<>> <=> Fit(o) = {}
    BY CandidatesAre
<1>2. Fit(o) # {} => Pick(o, Candidates(o)) \in Fit(o) /\ Pick(o, Candidates(o)) # NoEntry
    BY PickIsBest, FitFacts
<1> QED
    BY <1>1, <1>2 DEF RouteTransaction

\* Routes lead to live quotes.
LEMMA RoutesAreLive ==
    ASSUME RoutingInv
    PROVE  RoutesToLiveQuotes
<1> SUFFICES ASSUME NEW o \in RoutingOptions
             PROVE  LET r == RouteTransaction(o)
                        ok == {a \in Anchors : Eligible(a, o)}
                        place(a) == CHOOSE i \in DOMAIN anchorList : anchorList[i] = a
                    IN  /\ r # NoEntry =>
                             /\ Live(r) /\ latest[r].until > clock /\ IsQuoteReady(r)
                             /\ \A a \in ok : /\ ~Better(o, Candidates(o), a, r)
                                              /\ place(a) < place(r) => Better(o, Candidates(o), r, a)
                        /\ ok # {} /\ Cleared(o) => r # NoEntry
                        /\ \A p \in Anchors :
                             LET f == RouteWithFallback(o, p)
                             IN  /\ f = NoEntry => r = NoEntry
                                 /\ f # NoEntry => Live(f) /\ latest[f].until > clock
    BY DEF RoutesToLiveQuotes
<1> DEFINE r == RouteTransaction(o)
           place(a) == CHOOSE i \in DOMAIN anchorList : anchorList[i] = a
<1>1. /\ r # NoEntry <=> Fit(o) # {} /\ Cleared(o)
      /\ r # NoEntry => r = Pick(o, Candidates(o)) /\ r \in Fit(o)
    BY RouteIsPick
<1> HIDE DEF r
<1>2. r # NoEntry => Live(r) /\ latest[r].until > clock /\ IsQuoteReady(r)
    BY <1>1 DEF Fit, Eligible, QuoteFits, IsQuoteReady
<1>3. ASSUME r # NoEntry, NEW a \in Fit(o)
      PROVE  /\ ~Better(o, Candidates(o), a, r)
             /\ place(a) < place(r) => Better(o, Candidates(o), r, a)
  <2>1. /\ ~Better(o, Candidates(o), a, r)
        /\ Better(o, Candidates(o), r, a) \/ a = r \/ <<r, a>> \in Before
    BY <1>1, <1>3, PickIsBest
  <2>2. place(a) \in DOMAIN anchorList /\ anchorList[place(a)] = a
    <3>1. a \in ToSet(anchorList)
      BY FitFacts
    <3>2. \E i \in DOMAIN anchorList : anchorList[i] = a
      BY <3>1 DEF ToSet
    <3> QED
      BY <3>2
  <2>3. place(r) \in DOMAIN anchorList /\ anchorList[place(r)] = r
    <3>1. r \in ToSet(anchorList)
      BY <1>1, <1>3, FitFacts
    <3>2. \E i \in DOMAIN anchorList : anchorList[i] = r
      BY <3>1 DEF ToSet
    <3> QED
      BY <3>2
  <2>4. DOMAIN anchorList = 1..Len(anchorList) /\ Len(anchorList) \in Nat
    BY LenProperties DEF RoutingInv
  <2> HIDE DEF place
  <2>5. a = r => ~(place(a) < place(r))
    BY <2>2, <2>3, <2>4
  <2>6. <<r, a>> \in Before => ~(place(a) < place(r))
    <3> SUFFICES ASSUME <<r, a>> \in Before PROVE ~(place(a) < place(r))
      OBVIOUS
    <3>1. place(r) < place(a)
      BY <2>2, <2>3, BeforeIsOrder
    <3> QED
      BY <2>2, <2>3, <2>4, <3>1
  <2> QED
    BY <2>1, <2>5, <2>6
<1>4. ASSUME NEW p \in Anchors, NEW f, f = RouteWithFallback(o, p)
      PROVE  /\ f = NoEntry => r = NoEntry
             /\ f # NoEntry => Live(f) /\ latest[f].until > clock
  <2>1. p # NoEntry
    BY RoutingConstants DEF RoutingConstants
  <2>2. f = IF Live(p) /\ QuoteFits(p, o) THEN p ELSE r
    BY <1>4 DEF RouteWithFallback, r
  <2>3. QuoteFits(p, o) => latest[p].until > clock
    BY DEF QuoteFits
  <2> QED
    BY <1>2, <2>1, <2>2, <2>3
<1> QED
    BY <1>1, <1>2, <1>3, <1>4 DEF Fit, r

-----------------------------------------------------------------------------
(* The host's choice *)

\* The host is given the quotes of the anchors that offer one, in the order of the list.
LEMMA HostQuotesAre ==
    ASSUME RoutingInv
    PROVE  /\ HostQuotes \in Seq({HostQuote(a) : a \in Offering})
           /\ ToSet(HostQuotes) = {HostQuote(a) : a \in Offering}
           /\ \A i, j \in 1..Len(HostQuotes) : i < j =>
                \E a, b \in Offering : /\ HostQuotes[i] = HostQuote(a) /\ HostQuotes[j] = HostQuote(b)
                                       /\ <<a, b>> \in Before
<1> DEFINE live == Kept(anchorList, Offering)
           n == Len(live)
           quotes == [i \in DOMAIN live |-> HostQuote(live[i])]
<1>1. HostQuotes = quotes
    BY DEF HostQuotes
<1>2. anchorList \in Seq(Anchors) /\ Offering \subseteq ToSet(anchorList)
  <2>1. \A a \in Offering : a \in Anchors /\ meta[a] # NoEntry
    BY DEF Offering, Live
  <2> QED
    BY <2>1, NamedIn DEF RoutingInv, ListsMatchEntries
<1>3. live \in Seq(Anchors) /\ ToSet(live) = Offering
  <2>1. live \in Seq(Anchors) /\ ToSet(live) = ToSet(anchorList) \cap Offering
    BY <1>2, KeptIds
  <2> HIDE DEF live
  <2> QED
    BY <1>2, <2>1
<1>4. \A i, j \in 1..Len(anchorList) : i < j => <<anchorList[i], anchorList[j]>> \in Before
  <2>1. \A i \in 1..Len(anchorList) : anchorList[i] \in Anchors
    BY <1>2, ElementOfSeq
  <2> QED
    BY <2>1 DEF Before
<1>5. \A i, j \in 1..n : i < j => <<live[i], live[j]>> \in Before
    BY <1>2, <1>4, KeptOrdered
<1> HIDE DEF live
<1>6. /\ DOMAIN live = 1..n /\ n \in Nat
      /\ \A x : x \in Offering <=> \E i \in 1..n : live[i] = x
    BY <1>3, NamedIn, LenProperties
<1> DEFINE X == {HostQuote(a) : a \in Offering}
<1>7. \A i \in 1..n : quotes[i] = HostQuote(live[i]) /\ live[i] \in Offering
    BY <1>6
<1>8. quotes \in Seq(X) /\ Len(quotes) = n
  <2>1. quotes = [i \in 1..n |-> quotes[i]] /\ \A i \in 1..n : quotes[i] \in X
    BY <1>6, <1>7
  <2> HIDE DEF quotes, n, X
  <2> QED
    BY <1>6, <2>1
<1> HIDE DEF n
<1>9. ToSet(quotes) = X
  <2>1. \A x : x \in ToSet(quotes) <=> \E i \in 1..n : quotes[i] = x
    BY <1>8, NamedIn
  <2> HIDE DEF quotes
  <2>2. \A x : x \in ToSet(quotes) <=> \E a \in Offering : x = HostQuote(a)
    BY <1>6, <1>7, <2>1
  <2> QED
    BY <2>2
<1>10. \A i, j \in 1..n : i < j =>
         \E a, b \in Offering : /\ quotes[i] = HostQuote(a) /\ quotes[j] = HostQuote(b)
                                /\ <<a, b>> \in Before
    BY <1>5, <1>7
<1> HIDE DEF quotes
<1> QED
    BY <1>1, <1>8, <1>9, <1>10, ZenonT(30)

\* The host's quotes of an anchor, and what makes one eligible.
LEMMA HostFits ==
    ASSUME RoutingInv, NEW o \in RoutingOptions, NEW a \in Offering
    PROVE  /\ HostQuote(a) \in CandidateQuote /\ HostQuote(a) # NoEntry
           /\ HostQuote(a).anchor = a
           /\ HostQuote(a).fee = latest[a].fee /\ HostQuote(a).rep = meta[a].rep
           /\ HostQuote(a).time = meta[a].time
           /\ HostEligible(HostQuote(a), o) <=> a \in Fit(o)
<1>1. /\ a \in Anchors /\ Live(a) /\ Advertises(a, QuoteService) /\ meta[a] # NoEntry
      /\ latest[a] # NoEntry /\ ~latest[a].invalid
    BY DEF Offering, Live
<1>2. meta[a] \in AnchorMeta /\ latest[a] \in RoutedQuote
    BY <1>1 DEF RoutingInv
<1>3. HostQuote(a) \in CandidateQuote
    BY <1>1, <1>2 DEF HostQuote, CandidateQuote, AnchorMeta, RoutedQuote
<1>4. HostQuote(a) # NoEntry
    BY <1>3, RoutingConstants DEF RoutingConstants
<1>5. HostEligible(HostQuote(a), o) <=> a \in Fit(o)
    BY <1>1 DEF HostEligible, HostQuote, Fit, Eligible, QuoteFits
<1> QED
    BY <1>3, <1>4, <1>5 DEF HostQuote

\* What the host minimises.
HostKey(strategy, q) ==
    IF strategy = "LowestFee" THEN q.fee
    ELSE IF strategy = "FastestSettlement" THEN q.time
    ELSE 0 - q.rep

\* What the host chooses among its candidates.
LEMMA HostChooses ==
    ASSUME RoutingInv, NEW o \in RoutingOptions, ValidPairRequest(o), o.strategy # "WeightedScore",
           NEW host, host = RouteMultiAsset(<<o>>, HostQuotes)[1]
    PROVE  /\ Fit(o) = {} => host = NoEntry
           /\ Fit(o) # {} => \E b \in Fit(o) :
                /\ host = HostQuote(b)
                /\ \A a \in Fit(o) : HostKey(o.strategy, HostQuote(b)) <= HostKey(o.strategy, HostQuote(a))
                /\ o.strategy # "HighestReputation" =>
                     \A a \in Fit(o) :
                        \/ HostKey(o.strategy, HostQuote(b)) < HostKey(o.strategy, HostQuote(a))
                        \/ a = b \/ <<b, a>> \in Before
<1> DEFINE quotes == HostQuotes
           S == {q \in ToSet(quotes) : HostEligible(q, o)}
           cs == Kept(quotes, S)
           T == {p \in ToSet(cs) \X ToSet(cs) : Displaces(p[1], p[2], o.strategy)}
           X == {HostQuote(a) : a \in Fit(o)}
           key == [q \in X |-> HostKey(o.strategy, q)]
           After == {p \in CandidateQuote \X CandidateQuote : <<p[1].anchor, p[2].anchor>> \in Before}
<1>1. host = IF cs = <<>> THEN NoEntry ELSE BestOf(cs, T)
  <2>1. DOMAIN <<o>> = {1} /\ <<o>>[1] = o
    OBVIOUS
  <2>2. RouteMultiAsset(<<o>>, quotes)[1] = IF cs = <<>> THEN NoEntry ELSE SelectBest(cs, o.strategy)
    BY <2>1 DEF RouteMultiAsset
  <2> QED
    BY <2>2 DEF SelectBest
<1>2. /\ quotes \in Seq({HostQuote(a) : a \in Offering})
      /\ ToSet(quotes) = {HostQuote(a) : a \in Offering}
      /\ \A i, j \in 1..Len(quotes) : i < j =>
           \E a, b \in Offering : /\ quotes[i] = HostQuote(a) /\ quotes[j] = HostQuote(b)
                                  /\ <<a, b>> \in Before
    BY HostQuotesAre
<1> HIDE DEF quotes
<1>3. Fit(o) \subseteq Offering
    BY DEF Fit, Eligible, QuoteFits, Offering
<1>4. S = X
  <2>1. \A q : q \in S <=> \E a \in Offering : q = HostQuote(a) /\ HostEligible(q, o)
    BY <1>2
  <2>2. \A q : q \in X <=> \E a \in Fit(o) : q = HostQuote(a)
    OBVIOUS
  <2> HIDE DEF S, X
  <2>3. \A q : q \in S <=> q \in X
    BY <1>3, <2>1, <2>2, HostFits
  <2> QED
    BY <2>3
<1>5. cs \in Seq({HostQuote(a) : a \in Offering}) /\ ToSet(cs) = ToSet(quotes) \cap S
    BY <1>2, KeptIds
<1>6. \A i, j \in 1..Len(quotes) : i < j => <<quotes[i], quotes[j]>> \in After
  <2> TAKE i, j \in 1..Len(quotes)
  <2> HAVE i < j
  <2>1. PICK a, b \in Offering : /\ quotes[i] = HostQuote(a) /\ quotes[j] = HostQuote(b)
                                 /\ <<a, b>> \in Before
    BY <1>2
  <2>2. /\ HostQuote(a) \in CandidateQuote /\ HostQuote(a).anchor = a
        /\ HostQuote(b) \in CandidateQuote /\ HostQuote(b).anchor = b
    BY HostFits
  <2> QED
    BY <2>1, <2>2
<1> HIDE DEF S, After
<1>7. \A i, j \in 1..Len(cs) : i < j => <<cs[i], cs[j]>> \in After
    BY <1>2, <1>6, KeptOrdered
<1> HIDE DEF cs
<1>8. ToSet(cs) = X
  <2>1. X \subseteq ToSet(quotes)
    BY <1>2, <1>3
  <2> HIDE DEF X
  <2> QED
    BY <1>4, <1>5, <2>1
<1>9. cs \in Seq(X) /\ Len(cs) \in Nat /\ (cs = <<>> <=> Len(cs) = 0)
      /\ \A q : q \in X <=> \E i \in 1..Len(cs) : cs[i] = q
  <2> HIDE DEF X
  <2>1. /\ \A q : q \in ToSet(cs) <=> \E i \in 1..Len(cs) : cs[i] = q
        /\ cs \in Seq(ToSet(cs))
    BY <1>5, NamedIn
  <2> QED
    BY <1>8, <2>1, EmptySeq, LenProperties
<1>10. cs = <<>> <=> Fit(o) = {}
  <2>1. X = {} <=> Fit(o) = {}
    OBVIOUS
  <2> HIDE DEF X
  <2>2. Len(cs) = 0 => 1..Len(cs) = {}
    OBVIOUS
  <2>3. Len(cs) # 0 => 1 \in 1..Len(cs)
    BY <1>9
  <2> QED
    BY <1>9, <2>1, <2>2, <2>3
<1>11. ASSUME Fit(o) # {}
       PROVE  \E b \in Fit(o) :
                /\ host = HostQuote(b)
                /\ \A a \in Fit(o) : HostKey(o.strategy, HostQuote(b)) <= HostKey(o.strategy, HostQuote(a))
                /\ o.strategy # "HighestReputation" =>
                     \A a \in Fit(o) :
                        \/ HostKey(o.strategy, HostQuote(b)) < HostKey(o.strategy, HostQuote(a))
                        \/ a = b \/ <<b, a>> \in Before
  <2>1. Len(cs) > 0 /\ host = BestOf(cs, T)
    BY <1>1, <1>9, <1>10, <1>11
  <2>2. \A q \in X : q \in CandidateQuote /\ q.fee \in Nat /\ q.time \in Nat /\ q.rep \in Nat
    BY <1>3, HostFits DEF CandidateQuote
  <2>3. key \in [X -> Int] /\ \A q \in X : key[q] = HostKey(o.strategy, q) /\ key[q] \in Int
    BY <2>2 DEF HostKey
  <2>4. \A x, y \in X : <<x, y>> \in T <=> Displaces(x, y, o.strategy)
    BY <1>8
  <2> HIDE DEF key, T, X
  <2>5. o.strategy \in {"LowestFee", "FastestSettlement", "HighestReputation"}
    BY DEF ValidPairRequest
  <2>6. ASSUME NEW x \in X, NEW y \in X
        PROVE  /\ <<x, y>> \in T => key[x] <= key[y]
               /\ key[x] < key[y] => <<x, y>> \in T
               /\ o.strategy # "HighestReputation" /\ <<x, y>> \in T => key[x] < key[y]
    <3>1. /\ key[x] = HostKey(o.strategy, x) /\ key[y] = HostKey(o.strategy, y)
          /\ x.fee \in Nat /\ x.time \in Nat /\ x.rep \in Nat
          /\ y.fee \in Nat /\ y.time \in Nat /\ y.rep \in Nat
      BY <2>2, <2>3
    <3>2. <<x, y>> \in T <=> Displaces(x, y, o.strategy)
      BY <2>4
    <3> QED
      BY <2>5, <3>1, <3>2 DEF HostKey, Displaces
  <2> DEFINE Strict == \A x, y \in X : <<x, y>> \in T => key[x] < key[y]
  <2>7. \E p \in 1..Len(cs) :
             /\ BestOf(cs, T) = cs[p]
             /\ \A i \in 1..Len(cs) : key[cs[p]] <= key[cs[i]]
             /\ Strict => \A i \in 1..(p - 1) : key[cs[p]] < key[cs[i]]
    <3>1. cs \in Seq(X) /\ Len(cs) > 0
      BY <1>9, <2>1
    <3>2. key \in [X -> Int]
      BY <2>3
    <3>3. \A x, y \in X : <<x, y>> \in T => key[x] <= key[y]
      BY <2>6
    <3>4. \A x, y \in X : key[x] < key[y] => <<x, y>> \in T
      BY <2>6
    <3> QED
      BY <3>1, <3>2, <3>3, <3>4, BestPlace, Zenon
  <2>8. o.strategy # "HighestReputation" => Strict
    BY <2>6
  <2> HIDE DEF Strict
  <2>9. PICK p \in 1..Len(cs) :
             /\ BestOf(cs, T) = cs[p]
             /\ \A i \in 1..Len(cs) : key[cs[p]] <= key[cs[i]]
             /\ Strict => \A i \in 1..(p - 1) : key[cs[p]] < key[cs[i]]
    BY <2>7
  <2>10. PICK b \in Fit(o) : cs[p] = HostQuote(b)
    <3>1. cs[p] \in X
      BY <1>9
    <3> QED
      BY <3>1 DEF X
  <2>11. ASSUME NEW a \in Fit(o)
         PROVE  \E i \in 1..Len(cs) : cs[i] = HostQuote(a) /\ key[cs[i]] = HostKey(o.strategy, HostQuote(a))
    <3>1. HostQuote(a) \in X
      BY DEF X
    <3>2. PICK i \in 1..Len(cs) : cs[i] = HostQuote(a)
      BY <1>9, <3>1
    <3> QED
      BY <2>3, <3>1, <3>2
  <2>12. key[cs[p]] = HostKey(o.strategy, HostQuote(b))
    <3>1. cs[p] \in X
      BY <1>9
    <3> QED
      BY <2>3, <2>10, <3>1
  <2>13. \A a \in Fit(o) : HostKey(o.strategy, HostQuote(b)) <= HostKey(o.strategy, HostQuote(a))
    BY <2>9, <2>11, <2>12
  <2>14. ASSUME o.strategy # "HighestReputation", NEW a \in Fit(o)
         PROVE  \/ HostKey(o.strategy, HostQuote(b)) < HostKey(o.strategy, HostQuote(a))
                \/ a = b \/ <<b, a>> \in Before
    <3>1. PICK i \in 1..Len(cs) :
            cs[i] = HostQuote(a) /\ key[cs[i]] = HostKey(o.strategy, HostQuote(a))
      BY <2>11
    <3>2. HostQuote(a).anchor = a /\ HostQuote(b).anchor = b
      BY <1>3, HostFits
    <3>3. i \in 1..(p - 1) \/ i = p \/ p < i
      BY <1>9
    <3>4. CASE i \in 1..(p - 1)
      BY <2>8, <2>9, <2>12, <2>14, <3>1, <3>4
    <3>5. CASE i = p
      BY <2>10, <3>1, <3>2, <3>5
    <3>6. CASE p < i
      <4>1. <<HostQuote(b), HostQuote(a)>> \in After
        BY <1>7, <2>10, <3>1, <3>6
      <4> QED
        BY <3>2, <4>1 DEF After
    <3> QED
      BY <3>3, <3>4, <3>5, <3>6
  <2> QED
    BY <2>1, <2>9, <2>10, <2>13, <2>14
<1> QED
    BY <1>1, <1>10, <1>11

\* The host and the contract choose alike.
LEMMA ChoicesAgree ==
    ASSUME RoutingInv
    PROVE  HostSelectionAgrees
<1>1. ASSUME NEW o \in RoutingOptions, ValidPairRequest(o), o.strategy # "WeightedScore",
             NEW host, host = RouteMultiAsset(<<o>>, HostQuotes)[1]
      PROVE  /\ host = NoEntry <=> Candidates(o) = <<>>
             /\ Candidates(o) # <<>> =>
                  IF o.strategy = "HighestReputation"
                  THEN meta[Pick(o, Candidates(o))].rep = host.rep
                  ELSE Pick(o, Candidates(o)) = host.anchor
  <2>1. Candidates(o) = <<>> <=> Fit(o) = {}
    BY CandidatesAre
  <2>2. CASE Fit(o) = {}
    BY <1>1, <2>1, <2>2, HostChooses
  <2>3. CASE Fit(o) # {}
    <3> DEFINE r == Pick(o, Candidates(o))
    <3>1. /\ r \in Fit(o)
          /\ \A a \in Fit(o) : ~Better(o, Candidates(o), a, r)
          /\ \A a \in Fit(o) : Better(o, Candidates(o), r, a) \/ a = r \/ <<r, a>> \in Before
      BY <2>3, PickIsBest
    <3> HIDE DEF r
    <3>2. PICK b \in Fit(o) :
            /\ host = HostQuote(b)
            /\ \A a \in Fit(o) : HostKey(o.strategy, HostQuote(b)) <= HostKey(o.strategy, HostQuote(a))
            /\ o.strategy # "HighestReputation" =>
                 \A a \in Fit(o) :
                    \/ HostKey(o.strategy, HostQuote(b)) < HostKey(o.strategy, HostQuote(a))
                    \/ a = b \/ <<b, a>> \in Before
      BY <1>1, <2>3, HostChooses
    <3>3. Fit(o) \subseteq Offering
      BY DEF Fit, Eligible, QuoteFits, Offering
    <3>4. ASSUME NEW a \in Fit(o)
          PROVE  HostKey(o.strategy, HostQuote(a)) = StrategyKey(o, a) /\ StrategyKey(o, a) \in Int
      <4>1. o.strategy \in {"LowestFee", "FastestSettlement", "HighestReputation"}
        BY <1>1 DEF ValidPairRequest
      <4>2. /\ HostQuote(a).fee = latest[a].fee /\ HostQuote(a).rep = meta[a].rep
            /\ HostQuote(a).time = meta[a].time
        BY <3>3, HostFits
      <4>3. StrategyKey(o, a) \in Int
        BY BetterByKey
      <4> QED
        BY <4>1, <4>2, <4>3 DEF HostKey, StrategyKey
    <3>5. StrategyKey(o, b) = StrategyKey(o, r)
      <4>1. StrategyKey(o, b) <= StrategyKey(o, r)
        BY <3>1, <3>2, <3>4
      <4>2. ~(StrategyKey(o, b) < StrategyKey(o, r))
        BY <3>1, BetterByKey
      <4> QED
        BY <3>1, <3>4, <4>1, <4>2
    <3>6. host # NoEntry /\ host.anchor = b /\ host.rep = meta[b].rep
      BY <3>2, <3>3, HostFits
    <3>7. CASE o.strategy = "HighestReputation"
      <4>1. StrategyKey(o, b) = 0 - meta[b].rep /\ StrategyKey(o, r) = 0 - meta[r].rep
        BY <3>7 DEF StrategyKey
      <4>2. meta[b].rep \in Nat /\ meta[r].rep \in Nat
        BY <3>1, FitFacts
      <4>3. meta[b].rep = meta[r].rep
        <5>1. \A x, y \in Nat : 0 - x = 0 - y => x = y
          OBVIOUS
        <5>2. 0 - meta[b].rep = 0 - meta[r].rep
          BY <3>5, <4>1
        <5> QED
          BY <4>2, <5>1, <5>2
      <4> QED
        BY <2>1, <2>3, <3>6, <3>7, <4>3 DEF r
    <3>8. CASE o.strategy # "HighestReputation"
      <4>1. ~Better(o, Candidates(o), r, b)
        BY <3>1, <3>4, <3>5, BetterByKey
      <4>2. b = r \/ <<r, b>> \in Before
        BY <3>1, <4>1
      <4>3. r = b \/ <<b, r>> \in Before
        <5>1. ~(HostKey(o.strategy, HostQuote(b)) < HostKey(o.strategy, HostQuote(r)))
          BY <3>1, <3>4, <3>5
        <5> QED
          BY <3>1, <3>2, <3>8, <5>1
      <4>4. b = r
        BY <4>2, <4>3, BeforeIsOrder
      <4> QED
        BY <2>1, <2>3, <3>6, <3>8, <4>4 DEF r
    <3> QED
      BY <3>7, <3>8
  <2> QED
    BY <2>2, <2>3
<1> QED
    BY <1>1 DEF HostSelectionAgrees

-----------------------------------------------------------------------------
(* Reputations, timed policies and network profiles *)

TimedPolicy == [start : Nat, end : Nat, priority : Nat, strategy : Strategies, enabled : BOOLEAN]

\* What the policies are stored as; a default network has a profile.
PoliciesInv ==
    /\ reputation \in [Rated -> Records \cup {None}]
    /\ repWeights \in Nat \X Nat \X Nat /\ ValidWeights(repWeights)
    /\ timed \in Seq(TimedPolicy)
    /\ netProfile \in [Networks -> [default : BOOLEAN] \cup {None}]
    /\ defaultNet \in Networks \cup {None} /\ activeNet \in Networks \cup {None}
    /\ defaultNet # None => netProfile[defaultNet] # None

\* The basis points.
Basis == {x \in Nat : x <= 10000}

\* A rate is in basis points, and grows with the part.
LEMMA RateInRange ==
    ASSUME NEW part \in Nat, NEW more \in Nat, NEW whole \in Nat, part <= more
    PROVE  /\ Rate(part, whole) \in Basis /\ Rate(more, whole) \in Basis
           /\ Rate(part, whole) <= Rate(more, whole)
<1> DEFINE low == IF part <= whole THEN part ELSE whole
           high == IF more <= whole THEN more ELSE whole
<1>1. Min({part, whole}) = low /\ Min({more, whole}) = high
    BY MinMaxOfTwo
<1>2. low \in Nat /\ high \in Nat /\ low <= high /\ high <= whole
    OBVIOUS
<1>3. CASE whole = 0
    BY <1>3 DEF Rate, Basis
<1>4. CASE whole > 0
  <2> DEFINE p == (low * 10000) \div whole
             q == (high * 10000) \div whole
  <2>1. Rate(part, whole) = p /\ Rate(more, whole) = q
    BY <1>1, <1>4 DEF Rate
  <2> HIDE DEF low, high
  <2>2. /\ p \in Nat /\ whole * p <= low * 10000
        /\ q \in Nat /\ whole * q <= high * 10000 /\ high * 10000 < whole * q + whole
    <3>1. low * 10000 \in Nat /\ high * 10000 \in Nat
      BY <1>2
    <3> QED
      BY <1>4, <3>1, Quotient
  <2> HIDE DEF p, q
  <2>3. whole * p < whole * (q + 1) /\ whole * q < whole * 10001
    <3>1. whole * (q + 1) = whole * q + whole
      BY <2>2
    <3>2. whole * 10001 = whole * 10000 + whole
      OBVIOUS
    <3>3. low * 10000 <= high * 10000 /\ high * 10000 <= whole * 10000
      BY <1>2
    <3> HIDE DEF low, high
    <3> DEFINE wp == whole * p
               wq == whole * q
    <3>4. wp \in Nat /\ wq \in Nat /\ low * 10000 \in Nat /\ high * 10000 \in Nat
      BY <1>2, <2>2
    <3>5. wp <= low * 10000 /\ wq <= high * 10000 /\ high * 10000 < wq + whole
      BY <2>2
    <3> HIDE DEF wp, wq
    <3>6. wp < wq + whole /\ wq < whole * 10000 + whole
      BY <1>4, <3>3, <3>4, <3>5
    <3> QED
      BY <3>1, <3>2, <3>6 DEF wp, wq
  <2>4. \A x, y \in Int : whole * x < whole * y => x < y
    BY <1>4
  <2>5. p < q + 1 /\ q < 10001
    BY <2>2, <2>3, <2>4
  <2>6. p \in Basis /\ q \in Basis /\ p <= q
    <3>1. p \in Nat /\ q \in Nat
      BY <2>2
    <3> QED
      BY <2>5, <3>1 DEF Basis
  <2> QED
    BY <2>1, <2>6
<1> QED
    BY <1>3, <1>4

\* A multiple grows with what it is a multiple of.
LEMMA Multiples ==
    ASSUME NEW w \in Nat, NEW x \in Nat, NEW y \in Nat, x <= y
    PROVE  w * x \in Nat /\ w * y \in Nat /\ w * x <= w * y
OBVIOUS

\* Parts in basis points, weighed, are in basis points, and grow with each.
Weighed(w, x, y, z) == (w[1] * x + w[2] * y + w[3] * z) \div 1000

LEMMA WeighedParts ==
    ASSUME NEW weights \in Nat \X Nat \X Nat, ValidWeights(weights),
           NEW x \in Basis, NEW y \in Basis, NEW z \in Basis,
           NEW x2 \in Basis, NEW y2 \in Basis, NEW z2 \in Basis, x <= x2, y <= y2, z <= z2
    PROVE  /\ Weighed(weights, x, y, z) \in Basis
           /\ Weighed(weights, x, y, z) <= Weighed(weights, x2, y2, z2)
<1> DEFINE u == weights[1]
           v == weights[2]
           w == weights[3]
           top == 10000
<1>1. /\ u \in Nat /\ v \in Nat /\ w \in Nat /\ u + v + w = 1000
      /\ x \in Nat /\ x2 \in Nat /\ y \in Nat /\ y2 \in Nat /\ z \in Nat /\ z2 \in Nat
      /\ top \in Nat /\ x2 <= top /\ y2 <= top /\ z2 <= top
    BY DEF Basis, ValidWeights
<1> HIDE DEF u, v, w, top
<1>2. /\ u * x \in Nat /\ u * x2 \in Nat /\ u * x <= u * x2
      /\ v * y \in Nat /\ v * y2 \in Nat /\ v * y <= v * y2
      /\ w * z \in Nat /\ w * z2 \in Nat /\ w * z <= w * z2
    BY <1>1, Multiples
<1>3. u * x2 <= u * top /\ v * y2 <= v * top /\ w * z2 <= w * top
    BY <1>1, Multiples
<1> DEFINE a1 == u * x
           a2 == u * x2
           b1 == v * y
           b2 == v * y2
           c1 == w * z
           c2 == w * z2
<1>4. /\ a1 \in Nat /\ a2 \in Nat /\ a1 <= a2 /\ a2 <= u * 10000
      /\ b1 \in Nat /\ b2 \in Nat /\ b1 <= b2 /\ b2 <= v * 10000
      /\ c1 \in Nat /\ c2 \in Nat /\ c1 <= c2 /\ c2 <= w * 10000
    BY <1>2, <1>3 DEF top
<1>5. /\ Weighed(weights, x, y, z) = (a1 + b1 + c1) \div 1000
      /\ Weighed(weights, x2, y2, z2) = (a2 + b2 + c2) \div 1000
    BY DEF Weighed, u, v, w
<1> HIDE DEF a1, a2, b1, b2, c1, c2
<1>6. /\ (a1 + b1 + c1) \in Nat /\ (a2 + b2 + c2) \in Nat
      /\ a1 + b1 + c1 <= a2 + b2 + c2 /\ a2 + b2 + c2 <= 1000 * 10000
    BY <1>1, <1>4
<1>7. \A m, n \in Nat : m <= n /\ n <= 1000 * 10000 =>
         m \div 1000 \in Basis /\ m \div 1000 <= n \div 1000
    BY DEF Basis
<1>8. /\ (a1 + b1 + c1) \div 1000 \in Basis
      /\ (a1 + b1 + c1) \div 1000 <= (a2 + b2 + c2) \div 1000
    BY <1>6, <1>7
<1> QED
    BY <1>5, <1>8

\* The composite of a better record is no lower, and both are in range.
LEMMA CompositeGrows ==
    ASSUME NEW w \in Nat \X Nat \X Nat, ValidWeights(w),
           NEW o \in ReputationRecord, NEW r \in ReputationRecord,
           o.ok <= r.ok, o.routed = r.routed, o.up <= r.up, o.ticks = r.ticks,
           o.quality <= r.quality
    PROVE  Composite(w, o) \in Basis /\ Composite(w, o) <= Composite(w, r)
<1> DEFINE capped(q) == IF q <= 10000 THEN q ELSE 10000
           z == capped(o.quality)
           z2 == capped(r.quality)
<1>1. /\ o.ok \in Nat /\ o.routed \in Nat /\ o.up \in Nat /\ o.ticks \in Nat /\ o.quality \in Nat
      /\ r.ok \in Nat /\ r.routed \in Nat /\ r.up \in Nat /\ r.ticks \in Nat /\ r.quality \in Nat
    BY DEF ReputationRecord
<1>2. z \in Basis /\ z2 \in Basis /\ z <= z2
    BY <1>1 DEF Basis
<1>3. /\ Min({o.quality, 10000}) = z /\ Min({r.quality, 10000}) = z2
    BY <1>1, MinMaxOfTwo
<1> HIDE DEF z, z2
<1> DEFINE x == Rate(o.ok, o.routed)
           y == Rate(o.up, o.ticks)
           x2 == Rate(r.ok, r.routed)
           y2 == Rate(r.up, r.ticks)
<1>4. /\ Composite(w, o) = Weighed(w, x, y, z)
      /\ Composite(w, r) = Weighed(w, x2, y2, z2)
    BY <1>3 DEF Composite, Weighed
<1>5. x \in Basis /\ x2 \in Basis /\ x <= x2
  <2>1. /\ Rate(o.ok, o.routed) \in Basis /\ Rate(r.ok, o.routed) \in Basis
        /\ Rate(o.ok, o.routed) <= Rate(r.ok, o.routed)
    BY <1>1, RateInRange, Zenon
  <2> QED
    BY <2>1, Zenon
<1>6. y \in Basis /\ y2 \in Basis /\ y <= y2
  <2>1. /\ Rate(o.up, o.ticks) \in Basis /\ Rate(r.up, o.ticks) \in Basis
        /\ Rate(o.up, o.ticks) <= Rate(r.up, o.ticks)
    BY <1>1, RateInRange, Zenon
  <2> QED
    BY <2>1, Zenon
<1> HIDE DEF x, y, x2, y2
<1>7. /\ Weighed(w, x, y, z) \in Basis
      /\ Weighed(w, x, y, z) <= Weighed(w, x2, y2, z2)
    BY <1>2, <1>5, <1>6, WeighedParts, Zenon
<1> QED
    BY <1>4, <1>7, Zenon

\* The reputations stay in their basis points.
LEMMA ReputationsRated ==
    ASSUME PoliciesInv
    PROVE  ReputationInRange
<1>2. ASSUME NEW a \in Rated, reputation[a] # None, NEW r \in Records,
             r.ok >= reputation[a].ok, r.routed = reputation[a].routed,
             r.up >= reputation[a].up, r.ticks = reputation[a].ticks,
             r.quality >= reputation[a].quality
      PROVE  Composite(repWeights, r) >= CompositeReputation(a)
  <2> DEFINE o == reputation[a]
  <2>1. /\ o \in ReputationRecord /\ r \in ReputationRecord
        /\ repWeights \in Nat \X Nat \X Nat /\ ValidWeights(repWeights)
    BY <1>2, RoutingPolicyConstants DEF RoutingPolicyConstants, PoliciesInv
  <2>2. /\ o.ok <= r.ok /\ o.routed = r.routed /\ o.up <= r.up /\ o.ticks = r.ticks
        /\ o.quality <= r.quality
    BY <1>2, <2>1 DEF ReputationRecord
  <2>3. CompositeReputation(a) = Composite(repWeights, o)
    BY <1>2 DEF CompositeReputation
  <2> HIDE DEF o
  <2>4. Composite(repWeights, o) \in Basis /\ Composite(repWeights, o) <= Composite(repWeights, r)
    BY <2>1, <2>2, CompositeGrows, Zenon
  <2> QED
    BY <2>3, <2>4
<1>3. ASSUME NEW a \in Rated, reputation[a] # None
      PROVE  CompositeReputation(a) \in Basis
  <2> DEFINE o == reputation[a]
  <2>1. /\ o \in ReputationRecord
        /\ repWeights \in Nat \X Nat \X Nat /\ ValidWeights(repWeights)
    BY <1>3, RoutingPolicyConstants DEF RoutingPolicyConstants, PoliciesInv
  <2>2. o.ok <= o.ok /\ o.routed = o.routed /\ o.up <= o.up /\ o.ticks = o.ticks /\ o.quality <= o.quality
    BY <2>1 DEF ReputationRecord
  <2>3. CompositeReputation(a) = Composite(repWeights, o)
    BY <1>3 DEF CompositeReputation
  <2> HIDE DEF o
  <2> QED
    BY <2>1, <2>2, <2>3, CompositeGrows, Zenon
<1> QED
    BY <1>2, <1>3 DEF ReputationInRange, Basis

\* The policy in force covers the time, and is the first of the lowest priority.
LEMMA PolicyInForce ==
    ASSUME PoliciesInv
    PROVE  PoliciesPartitionTheDay
<1>1. ASSUME NEW time \in 0..(2 * DaySeconds - 1), NEW i, i = ActivePolicy(time),
             NEW sec, sec = time % DaySeconds
      PROVE  /\ i # None => /\ timed[i].enabled /\ WindowCovers(timed[i], sec)
                            /\ \A j \in DOMAIN timed :
                                 timed[j].enabled /\ WindowCovers(timed[j], sec) =>
                                   \/ timed[i].priority < timed[j].priority
                                   \/ timed[i].priority = timed[j].priority /\ i <= j
             /\ i = None => \A j \in DOMAIN timed : ~(timed[j].enabled /\ WindowCovers(timed[j], sec))
             /\ \A j, k \in DOMAIN timed :
                 timed[j].end = timed[k].start /\ timed[k].end = timed[j].start
                 /\ timed[j].start # timed[j].end
                 => (WindowCovers(timed[j], sec) <=> ~WindowCovers(timed[k], sec))
  <2> DEFINE covering == {j \in DOMAIN timed : timed[j].enabled /\ WindowCovers(timed[j], sec)}
             lowest == {j \in covering : \A k \in covering : timed[j].priority <= timed[k].priority}
  <2>1. /\ DOMAIN timed = 1..Len(timed) /\ Len(timed) \in Nat
        /\ \A j \in DOMAIN timed :
             timed[j].start \in Nat /\ timed[j].end \in Nat /\ timed[j].priority \in Nat
    <3>1. \A j \in DOMAIN timed : timed[j] \in TimedPolicy
      BY DEF PoliciesInv
    <3>2. DOMAIN timed = 1..Len(timed) /\ Len(timed) \in Nat
      BY DEF PoliciesInv
    <3> QED
      BY <3>1, <3>2 DEF TimedPolicy
  <2>2. sec \in Nat
    BY <1>1, RoutingPolicyConstants DEF RoutingPolicyConstants
  <2>3. i = IF covering = {} THEN None ELSE Min(lowest)
    BY <1>1 DEF ActivePolicy
  <2>4. ASSUME NEW j \in DOMAIN timed, NEW k \in DOMAIN timed, timed[j].end = timed[k].start,
               timed[k].end = timed[j].start, timed[j].start # timed[j].end
        PROVE  WindowCovers(timed[j], sec) <=> ~WindowCovers(timed[k], sec)
    <3>1. \A s, e, t \in Nat : s # e =>
            ((s = e \/ (s < e /\ s <= t /\ t < e) \/ (s > e /\ (s <= t \/ t < e)))
             <=> ~(e = s \/ (e < s /\ e <= t /\ t < s) \/ (e > s /\ (e <= t \/ t < s))))
      BY Z3
    <3> QED
      BY <2>1, <2>2, <2>4, <3>1 DEF WindowCovers
  <2>5. covering \in SUBSET Nat /\ lowest \in SUBSET Nat /\ None \notin Nat
    BY <2>1, RoutingPolicyConstants DEF RoutingPolicyConstants
  <2>6. covering # {} => lowest # {}
    <3> SUFFICES ASSUME covering # {} PROVE lowest # {}
      OBVIOUS
    <3> DEFINE P == {timed[j].priority : j \in covering}
    <3>1. P \in SUBSET Nat /\ P # {}
      BY <2>1
    <3>2. PICK x \in P : \A y \in P : x <= y
      <4> HIDE DEF P
      <4> QED
        BY <3>1, LeastNatural
    <3>3. PICK j \in covering : x = timed[j].priority
      BY <3>2
    <3> QED
      BY <3>2, <3>3
  <2>7. covering # {} => Min(lowest) \in lowest /\ \A j \in lowest : Min(lowest) <= j
    <3> HIDE DEF covering, lowest
    <3> SUFFICES ASSUME covering # {} PROVE Min(lowest) \in lowest /\ \A j \in lowest : Min(lowest) <= j
      OBVIOUS
    <3>1. \E x \in lowest : \A y \in lowest : x <= y
      BY <2>5, <2>6, LeastNatural
    <3> QED
      BY <3>1 DEF Min
  <2>8. covering = {} => i = None /\ \A j \in DOMAIN timed : ~(timed[j].enabled /\ WindowCovers(timed[j], sec))
    BY <2>3
  <2>9. ASSUME covering # {}
        PROVE  /\ i # None /\ i \in lowest
               /\ \A j \in covering : \/ timed[i].priority < timed[j].priority
                                      \/ timed[i].priority = timed[j].priority /\ i <= j
    <3>1. i \in lowest /\ \A j \in lowest : i <= j
      BY <2>3, <2>7, <2>9
    <3>2. i # None
      BY <2>5, <3>1
    <3>3. ASSUME NEW j \in covering
          PROVE  \/ timed[i].priority < timed[j].priority
                 \/ timed[i].priority = timed[j].priority /\ i <= j
      <4>1. /\ timed[i].priority <= timed[j].priority
            /\ timed[i].priority \in Nat /\ timed[j].priority \in Nat
        BY <2>1, <3>1
      <4>2. timed[i].priority = timed[j].priority => j \in lowest
        BY <3>1
      <4> QED
        BY <3>1, <4>1, <4>2
    <3> QED
      BY <3>1, <3>2, <3>3
  <2>10. CASE covering = {}
    BY <2>4, <2>8, <2>10
  <2>11. CASE covering # {}
    BY <2>4, <2>9, <2>11
  <2> QED
    BY <2>10, <2>11
<1> QED
    BY <1>1 DEF PoliciesPartitionTheDay

\* The profile used exists, and is the active one or a default.
LEMMA ProfileExists ==
    ASSUME PoliciesInv
    PROVE  ProfileResolves
BY DEF PoliciesInv, ProfileResolves, RoutingProfile

LEMMA PoliciesInvInit == PoliciesInit => PoliciesInv
<1> SUFFICES ASSUME PoliciesInit PROVE PoliciesInv
    OBVIOUS
<1>1. timed \in Seq(TimedPolicy)
    BY DEF PoliciesInit
<1>2. repWeights \in Nat \X Nat \X Nat /\ ValidWeights(repWeights)
    BY DEF PoliciesInit, ValidWeights
<1> QED
    BY <1>1, <1>2 DEF PoliciesInit, PoliciesInv

\* Every write of a policy keeps them so.
LEMMA PoliciesKept ==
    ASSUME PoliciesInv, ReputationNext \/ TimedNext \/ NetworkNext
    PROVE  PoliciesInv'
<1>1. ASSUME NEW a \in Rated, NEW r \in Records, SetAnchorReputation(a, r)
      PROVE  PoliciesInv'
    BY <1>1 DEF SetAnchorReputation, PoliciesInv, ValidWeights
<1>2. ASSUME NEW w \in Weights, SetReputationWeights(w)
      PROVE  PoliciesInv'
  <2>1. w \in Nat \X Nat \X Nat
    BY RoutingPolicyConstants DEF RoutingPolicyConstants
  <2> QED
    BY <1>2, <2>1 DEF SetReputationWeights, PoliciesInv, ValidWeights
<1>3. ASSUME NEW start \in 0..DaySeconds, NEW end \in 0..DaySeconds, NEW p \in Priorities,
             NEW s \in Strategies, RegisterTimedRoutingPolicy(start, end, p, s)
      PROVE  PoliciesInv'
  <2> DEFINE e == [start |-> start, end |-> end, priority |-> p, strategy |-> s, enabled |-> TRUE]
  <2>1. e \in TimedPolicy
    BY RoutingPolicyConstants DEF RoutingPolicyConstants, TimedPolicy
  <2>2. timed' = Append(timed, e) /\ UNCHANGED <<reputation, repWeights, netProfile, defaultNet, activeNet>>
    BY <1>3 DEF RegisterTimedRoutingPolicy
  <2> HIDE DEF e
  <2> QED
    BY <2>1, <2>2 DEF PoliciesInv, ValidWeights
<1>4. ASSUME NEW i \in DOMAIN timed, NEW enabled \in BOOLEAN, SetTimedPolicyEnabled(i, enabled)
      PROVE  PoliciesInv'
  <2>1. timed \in Seq(TimedPolicy)
    BY DEF PoliciesInv
  <2>2. timed[i] \in TimedPolicy
    BY <2>1, ElementOfSeq
  <2> DEFINE e == [timed[i] EXCEPT !.enabled = enabled]
  <2>3. e \in TimedPolicy
    BY <2>2 DEF TimedPolicy
  <2>4. /\ timed' = [timed EXCEPT ![i] = e]
        /\ UNCHANGED <<reputation, repWeights, netProfile, defaultNet, activeNet>>
    BY <1>4 DEF SetTimedPolicyEnabled
  <2> HIDE DEF e
  <2>5. timed' \in Seq(TimedPolicy)
    BY <2>1, <2>3, <2>4
  <2> QED
    BY <2>4, <2>5 DEF PoliciesInv, ValidWeights
<1>5. ASSUME NEW n \in Networks, NEW w \in Weights, NEW d \in BOOLEAN,
             RegisterNetworkRoutingProfile(n, w, d)
      PROVE  PoliciesInv'
  <2>1. [default |-> d] # None
    BY RoutingPolicyConstants DEF RoutingPolicyConstants
  <2> QED
    BY <1>5, <2>1 DEF RegisterNetworkRoutingProfile, PoliciesInv, ValidWeights
<1>6. ASSUME NEW n \in Networks, SetActiveNetwork(n)
      PROVE  PoliciesInv'
    BY <1>6 DEF SetActiveNetwork, PoliciesInv, ValidWeights
<1> QED
    BY <1>1, <1>2, <1>3, <1>4, <1>5, <1>6 DEF ReputationNext, TimedNext, NetworkNext

LEMMA RoutingInvInit == RoutingInit => RoutingInv
<1> SUFFICES ASSUME RoutingInit PROVE RoutingInv
    OBVIOUS
<1>1. /\ <<>> \in Seq(Anchors) /\ <<>> \in Seq(ClusterIds) /\ <<>> \in Seq(MetaValues)
    OBVIOUS
<1>2. /\ meta = [a \in Anchors |-> NoEntry] /\ latest = [a \in Anchors |-> NoEntry]
      /\ history = [a \in Anchors |-> <<>>] /\ clusters = [c \in ClusterIds |-> NoEntry]
      /\ anchorList = <<>> /\ blacklistIndex = <<>> /\ clusterList = <<>> /\ blacklist = {}
    BY DEF RoutingInit
<1>3. IsInjective(<<>>) /\ Range(<<>>) = {} /\ \A a : ~Contains(<<>>, a)
  <2>1. DOMAIN <<>> = {} /\ 1..0 = {} /\ Len(<<>>) = 0
    OBVIOUS
  <2> QED
    BY <2>1 DEF IsInjective, Range, Contains
<1>4. ListsMatchEntries
    BY <1>2, <1>3 DEF ListsMatchEntries
<1> QED
    BY <1>1, <1>2, <1>4 DEF RoutingInv

\* However anchors, their services and the policies are administered, routes lead to live
\* quotes, contract and host choose alike, and the lists, reputations, windows and
\* profiles agree.
THEOREM RoutingSoundHolds == RoutingSpec => []RoutingSound
<1> DEFINE Inv == RoutingInv /\ PoliciesInv
           Step == \/ (RoutingNext \/ ClusterNext) /\ UNCHANGED policyVars
                   \/ (ReputationNext \/ TimedNext \/ NetworkNext)
                      /\ UNCHANGED <<cacheVars, serviceVars, routingVars>>
                   \/ ServiceNext /\ UNCHANGED <<routingVars, policyVars>>
<1>1. RoutingInit /\ PoliciesInit => Inv
    BY RoutingInvInit, PoliciesInvInit
<1>2. ASSUME Inv, [Step]_<<cacheVars, serviceVars, routingVars, policyVars>>
      PROVE  Inv'
  <2>1. UNCHANGED routingVars => RoutingInv'
    BY <1>2 DEF RoutingInv, ListsMatchEntries, routingVars
  <2>2. UNCHANGED policyVars => PoliciesInv'
    BY <1>2 DEF PoliciesInv, ValidWeights, policyVars
  <2>3. RoutingNext \/ ClusterNext => RoutingInv'
    BY <1>2, RoutingListed, ClustersListed
  <2>4. ReputationNext \/ TimedNext \/ NetworkNext => PoliciesInv'
    BY <1>2, PoliciesKept
  <2> QED
    BY <1>2, <2>1, <2>2, <2>3, <2>4
<1>3. Inv => RoutingSound
    BY RoutesAreLive, ChoicesAgree, ReputationsRated, PolicyInForce, ProfileExists
       DEF RoutingSound, RoutingInv
<1> QED
    BY <1>1, <1>2, <1>3, PTL DEF RoutingSpec
=============================================================================
