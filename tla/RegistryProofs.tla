--------------------------- MODULE RegistryProofs ---------------------------
(***************************************************************************)
(* Proofs about AttestorRegistry, for any sets of addresses and keys and   *)
(* any capacities: the registry behaves as the abstract AttestorKeys, and  *)
(* as Sessions as far as sessions are concerned, so that every theorem of  *)
(* SessionsProofs holds of the composed system; and the list of attestors  *)
(* and its counter are exact as long as only the paths that keep them ran. *)
(***************************************************************************)
EXTENDS AttestorRegistry, SessionsProofs, FiniteSetTheorems, SequenceTheorems

\* A revocation record always preserves a key: without this a reactivation
\* would register an attestor that cannot sign.
RevocationHasKey ==
    \A a \in Addr : revocation[a] # NoRecord => revocation[a].key \in Key

RegInv ==
    /\ RegTypeOK
    /\ RegistryConsistent
    /\ RevocationHasKey

-----------------------------------------------------------------------------
\* At the start nobody is registered and nothing was revoked.
LEMMA RegInvInit == RegInit => RegInv
<1> SUFFICES ASSUME RegInit PROVE RegInv
    OBVIOUS
<1> USE RegistryConstants DEF RegistryConstants, RegInit, NoRecord
<1>1. RegTypeOK
    BY DEF RegTypeOK
<1>2. RegistryConsistent
    BY DEF RegistryConsistent
<1>3. RevocationHasKey
    BY DEF RevocationHasKey
<1> QED
    BY <1>1, <1>2, <1>3 DEF RegInv

\* Every registration path adds one key, for an address that has none.
LEMMA EnterPreserves ==
    ASSUME RegInv, NEW a \in Addr, NEW key \in Key, Enter(a, key)
    PROVE  /\ registered' \subseteq Addr
           /\ announced' \subseteq Addr
           /\ pubkey' \in [Addr -> Key \cup {NoKey}]
           /\ \A b \in Addr : b \in registered' <=> pubkey'[b] # NoKey
           /\ registered' \subseteq announced'
           /\ Keys!EnterKey(a, key)
    BY RegistryConstants
    DEF RegistryConstants, RegInv, RegTypeOK, RegistryConsistent, Enter, Keys!EnterKey

\* Every revocation path removes one key, of an address that has one.
LEMMA LeavePreserves ==
    ASSUME RegInv, NEW a \in Addr, Leave(a)
    PROVE  /\ registered' \subseteq registered
           /\ pubkey' \in [Addr -> Key \cup {NoKey}]
           /\ \A b \in Addr : b \in registered' <=> pubkey'[b] # NoKey
           /\ a \notin registered'
           /\ pubkey[a] \in Key
           /\ Keys!LeaveKey(a)
    BY RegistryConstants
    DEF RegistryConstants, RegInv, RegTypeOK, RegistryConsistent, Leave, Keys!LeaveKey

\* The part of the invariant that only the revocation records decide.
RecordsOK ==
    /\ revocation \in [Addr -> [key : Key \cup {NoKey}, reactivated : BOOLEAN]]
    /\ \A a \in Addr : revocation[a].reactivated => revocation[a].key # NoKey
    /\ RevocationHasKey

\* A change of the capacity leaves keys and records alone.
LEMMA SetCapacityStep ==
    ASSUME RegInv, NEW n \in 0..MaxCapacity, NEW signer \in Addr, SetCapacityConfig(signer, n)
    PROVE  RegInv' /\ UNCHANGED pubkey
    BY RegistryConstants
    DEF RegistryConstants, RegInv, RegTypeOK, RegistryConsistent, RevocationHasKey,
        SetCapacityConfig

\* A registration enters a key where there was none.
LEMMA RegisterStep ==
    ASSUME RegInv, NEW a \in Addr, NEW key \in Key, Enter(a, key),
           count' \in Nat,
           UNCHANGED <<revocation, maxAttestors>>
    PROVE  RegInv' /\ Keys!KeysNext
    BY EnterPreserves
    DEF RegInv, RegTypeOK, RegistryConsistent, RevocationHasKey, Keys!KeysNext

\* A revocation takes the key out of force and keeps it in its record.
LEMMA RevokeStep ==
    ASSUME RegInv, NEW signer \in Addr, NEW a \in Addr, RevokeAttestor(signer, a)
    PROVE  RegInv' /\ Keys!KeysNext
<1>1. Leave(a)
    BY DEF RevokeAttestor
<1>2. count' \in Nat
    BY DEF RevokeAttestor, Uncount, RegInv, RegTypeOK
<1>3. announced \ {a} \subseteq announced' /\ announced' \subseteq announced
    BY DEF RevokeAttestor
<1>4. RecordsOK'
  <2> DEFINE r == [key |-> pubkey[a], reactivated |-> FALSE]
  <2>1. r.key \in Key /\ r \in [key : Key \cup {NoKey}, reactivated : BOOLEAN]
      BY <1>1, LeavePreserves
  <2>2. revocation' = [revocation EXCEPT ![a] = r]
      BY DEF RevokeAttestor
  <2> QED
      BY <2>1, <2>2 DEF RecordsOK, RevocationHasKey, RegInv, RegTypeOK, RegistryConsistent
<1>5. UNCHANGED maxAttestors
    BY DEF RevokeAttestor
<1> QED
    BY <1>1, <1>2, <1>3, <1>4, <1>5, LeavePreserves
    DEF RegInv, RegTypeOK, RegistryConsistent, RecordsOK, Keys!KeysNext

\* A reactivation restores the key that the revocation record holds.
LEMMA ReactivateStep ==
    ASSUME RegInv, NEW signer \in Addr, NEW a \in Addr, ReactivateAttestor(signer, a)
    PROVE  RegInv' /\ Keys!KeysNext
<1>1. revocation[a].key \in Key /\ Enter(a, revocation[a].key)
    BY DEF ReactivateAttestor, RegInv, RevocationHasKey
<1>2. RecordsOK'
    BY <1>1, RegistryConstants
    DEF RegistryConstants, ReactivateAttestor, RecordsOK, RegInv, RegTypeOK,
        RegistryConsistent, RevocationHasKey
<1>3. count' \in Nat /\ UNCHANGED maxAttestors
    BY DEF ReactivateAttestor, RegInv, RegTypeOK
<1> QED
    BY <1>1, <1>2, <1>3, EnterPreserves
    DEF RegInv, RegTypeOK, RegistryConsistent, RecordsOK, Keys!KeysNext

\* A revocation in a session takes the key out of force and writes no record.
LEMMA RevokeWithSessionStep ==
    ASSUME RegInv, NEW operator \in Addr, NEW s \in SessionId, NEW a \in Addr,
           RevokeAttestorWithSession(operator, s, a)
    PROVE  RegInv' /\ Keys!KeysNext
<1>1. /\ Leave(a)
      /\ announced' = announced \ {a}
      /\ UNCHANGED <<revocation, count, maxAttestors>>
    BY DEF RevokeAttestorWithSession
<1> QED
    BY <1>1, LeavePreserves
    DEF RegInv, RegTypeOK, RegistryConsistent, RevocationHasKey, Keys!KeysNext

\* Each step of the composition, for the invariant and for AttestorKeys.
LEMMA RegStep ==
    ASSUME RegInv, [RegNext]_registryVars
    PROVE  RegInv' /\ [Keys!KeysNext]_pubkey
<1>1. CASE UNCHANGED regVars
    BY <1>1 DEF regVars, RegInv, RegTypeOK, RegistryConsistent, RevocationHasKey
<1>2. CASE RegistryCall
  <2>1. ASSUME NEW signer \in Addr, NEW a \in Addr, NEW key \in Key,
               RegisterAttestor(signer, a, key)
        PROVE  RegInv' /\ Keys!KeysNext
    <3>1. count' \in Nat
        BY <2>1 DEF RegisterAttestor, RegInv, RegTypeOK
    <3> QED
        BY <2>1, <3>1, RegisterStep DEF RegisterAttestor
  <2> QED
      BY <1>2, <2>1, SetCapacityStep, RevokeStep, ReactivateStep DEF RegistryCall
<1>3. CASE RegistrySessionCall
  <2>1. ASSUME NEW operator \in Addr, NEW s \in SessionId, NEW a \in Addr, NEW key \in Key,
               RegisterAttestorWithSession(operator, s, a, key)
        PROVE  RegInv' /\ Keys!KeysNext
    <3>1. count' \in Nat
        BY <2>1 DEF RegisterAttestorWithSession, RegInv, RegTypeOK
    <3> QED
        BY <2>1, <3>1, RegisterStep DEF RegisterAttestorWithSession
  <2> QED
      BY <1>3, <2>1, RevokeWithSessionStep DEF RegistrySessionCall
<1> QED
    BY <1>1, <1>2, <1>3 DEF RegNext, registryVars

\* The registration flag, the signing key, the revocation record and the
\* events agree in the composed system, for every instance.
THEOREM RegistryConsistentHolds == RegSpec => []RegistryConsistent
<1>1. RegInv /\ [RegNext]_registryVars => RegInv'
    BY RegStep
<1>2. RegInv => RegistryConsistent
    BY DEF RegInv
<1> QED
    BY <1>1, <1>2, RegInvInit, PTL DEF RegSpec

\* The registry implements AttestorKeys, the abstract registry the submission
\* paths rely on: no path ever replaces a key that is in force.
THEOREM RegistryImplementsKeys == RegSpec => ImplementsAttestorKeys
<1>1. RegInit => Keys!KeysInit
    BY DEF RegInit, Keys!KeysInit
<1>2. RegInv /\ [RegNext]_registryVars => RegInv' /\ [Keys!KeysNext]_pubkey
    BY RegStep
<1> QED
    BY <1>1, <1>2, RegInvInit, PTL DEF RegSpec, ImplementsAttestorKeys, Keys!KeysSpec

-----------------------------------------------------------------------------
\* Each step of the composition is a step of Sessions or leaves it alone.
LEMMA SessionsStep ==
    ASSUME [RegNext]_registryVars
    PROVE  [SessNext]_sessVars
<1>1. ASSUME NEW operator \in Addr, NEW s \in SessionId, NEW a \in Addr,
             \/ RevokeAttestorWithSession(operator, s, a)
             \/ \E key \in Key : RegisterAttestorWithSession(operator, s, a, key)
      PROVE  SessNext
    BY <1>1, RegistryConstants
    DEF RegistryConstants, RevokeAttestorWithSession, RegisterAttestorWithSession, SessNext
<1>2. CASE RegistrySessionCall
    BY <1>1, <1>2 DEF RegistrySessionCall
<1>3. CASE SessionUserCall \/ SessionAdminCall
    BY <1>3 DEF SessNext
<1> QED
    BY <1>2, <1>3 DEF RegNext, registryVars

\* The composed system implements Sessions: the session-scoped registry calls
\* do everything a session operation must do, and nothing else.
THEOREM RegistryImplementsSessions == RegSpec => SessSpec
<1>1. RegInit => SessInit
    BY DEF RegInit
<1> QED
    BY <1>1, SessionsStep, PTL DEF RegSpec, SessSpec

-----------------------------------------------------------------------------
(* The list of attestors *)

\* No address is listed twice.
Distinct(seq) == \A i, j \in 1..Len(seq) : seq[i] = seq[j] => i = j

\* As long as no session has been used, list, counter and flags agree.  Afterwards
\* the list still misses nobody; it may keep an address that left while the
\* counter was 0, which is why it is not the list of the registered.
ListInv ==
    /\ list \in Seq(Addr)
    /\ Distinct(list)
    /\ registered \subseteq ToSet(list)
    /\ (\A s \in SessionId : opCount[s] = 0) =>
         /\ count = Len(list)
         /\ ToSet(list) = registered

\* A sequence without repetitions has as many members as elements.
LEMMA DistinctCardinality ==
    ASSUME NEW S, NEW seq \in Seq(S), Distinct(seq)
    PROVE  IsFiniteSet(ToSet(seq)) /\ Cardinality(ToSet(seq)) = Len(seq)
<1>1. Len(seq) \in Nat /\ DOMAIN seq = 1..Len(seq)
    OBVIOUS
<1>2. seq \in [1..Len(seq) -> ToSet(seq)]
    BY <1>1 DEF ToSet
<1>3. seq \in Bijection(1..Len(seq), ToSet(seq))
    BY <1>1, <1>2 DEF ToSet, Bijection, Injection, Surjection, IsInjective, Distinct
<1>4. ExistsBijection(1..Len(seq), ToSet(seq))
    BY <1>3 DEF ExistsBijection
<1>5. IsFiniteSet(1..Len(seq)) /\ Cardinality(1..Len(seq)) = Len(seq)
    BY <1>1, FS_Interval, SMTT(20)
<1> QED
    BY <1>4, <1>5, FS_Bijection

\* An address that is listed is not appended again.
LEMMA ListedOnce ==
    ASSUME list \in Seq(Addr), Distinct(list), NEW a \in Addr
    PROVE  /\ Listed(a) \in Seq(Addr)
           /\ Distinct(Listed(a))
           /\ ToSet(Listed(a)) = ToSet(list) \cup {a}
           /\ Len(Listed(a)) = IF a \in ToSet(list) THEN Len(list) ELSE Len(list) + 1
<1>1. Contains(list, a) <=> a \in ToSet(list)
    BY DEF Contains, ToSet
<1>2. CASE a \in ToSet(list)
    BY <1>1, <1>2 DEF Listed
<1>3. CASE a \notin ToSet(list)
  <2> DEFINE t == Append(list, a)
  <2>1. /\ Listed(a) = t
        /\ t \in Seq(Addr)
        /\ Len(t) = Len(list) + 1
        /\ \A i \in 1..Len(list) : t[i] = list[i]
        /\ t[Len(list) + 1] = a
      BY <1>1, <1>3 DEF Listed
  <2>2. \A i \in 1..Len(list) : list[i] # a
      BY <1>3 DEF ToSet
  <2> HIDE DEF t
  <2>3. Distinct(t)
      BY <2>1, <2>2 DEF Distinct
  <2>4. ToSet(t) = ToSet(list) \cup {a}
      BY <2>1 DEF ToSet
  <2> QED
      BY <1>3, <2>1, <2>3, <2>4
<1> QED
    BY <1>2, <1>3

\* Removing an address that is listed once leaves the others.
LEMMA RemovedOnce ==
    ASSUME list \in Seq(Addr), Distinct(list), NEW a \in ToSet(list)
    PROVE  /\ RemoveFirst(list, a) \in Seq(Addr)
           /\ Distinct(RemoveFirst(list, a))
           /\ ToSet(RemoveFirst(list, a)) = ToSet(list) \ {a}
           /\ Len(RemoveFirst(list, a)) = Len(list) - 1
<1>1. PICK k \in 1..Len(list) : list[k] = a
    BY DEF ToSet
<1>2. {i \in 1..Len(list) : list[i] = a} = {k}
    BY <1>1 DEF Distinct
<1>3. Min({k}) = k
    BY <1>1 DEF Min
<1>4. SelectInSeq(list, LAMBDA v : v = a) = k
    BY <1>2, <1>3 DEF SelectInSeq
<1>5. RemoveFirst(list, a) = RemoveAt(list, k)
    BY <1>1, <1>4 DEF RemoveFirst
<1> DEFINE t == RemoveAt(list, k)
<1>6. /\ t \in Seq(Addr)
      /\ Len(t) = Len(list) - 1
      /\ \A i \in 1..Len(t) : t[i] = IF i < k THEN list[i] ELSE list[i + 1]
  <2> DEFINE before == SubSeq(list, 1, k - 1)
             after  == SubSeq(list, k + 1, Len(list))
  <2>1. k \in Int /\ Len(list) \in Nat /\ 1 <= k /\ k <= Len(list)
      BY <1>1
  <2>2. \A i \in 1..Len(list) : list[i] \in Addr
      OBVIOUS
  <2>3. /\ before \in Seq(Addr)
        /\ Len(before) = k - 1
        /\ \A i \in 1..(k - 1) : before[i] = list[i]
      BY <2>1, <2>2, SubSeqProperties
  <2>4. /\ after \in Seq(Addr)
        /\ Len(after) = Len(list) - k
        /\ \A i \in 1..(Len(list) - k) : after[i] = list[k + i]
      BY <2>1, <2>2, SubSeqProperties
  <2>5. t = before \o after
      BY DEF RemoveAt
  <2> HIDE DEF t, before, after
  <2>6. /\ t \in Seq(Addr)
        /\ Len(t) = Len(list) - 1
        /\ \A i \in 1..Len(t) :
             t[i] = IF i <= k - 1 THEN before[i] ELSE after[i - (k - 1)]
    <3>1. /\ before \o after \in Seq(Addr)
          /\ Len(before \o after) = Len(before) + Len(after)
          /\ \A i \in 1..(Len(before) + Len(after)) :
               (before \o after)[i] = IF i <= Len(before) THEN before[i]
                                                         ELSE after[i - Len(before)]
        BY <2>3, <2>4, ConcatProperties
    <3> QED
        BY <2>1, <2>3, <2>4, <2>5, <3>1
  <2>7. ASSUME NEW i \in 1..Len(t)
        PROVE  t[i] = IF i < k THEN list[i] ELSE list[i + 1]
    <3>1. CASE i < k
        BY <2>1, <2>3, <2>6, <3>1
    <3>2. CASE i >= k
      <4>1. i - (k - 1) \in 1..(Len(list) - k)
          BY <2>1, <2>6, <3>2
      <4>2. t[i] = after[i - (k - 1)]
          BY <2>1, <2>6, <3>2
      <4>3. after[i - (k - 1)] = list[k + (i - (k - 1))]
          BY <2>4, <4>1
      <4>4. k + (i - (k - 1)) = i + 1
          BY <2>1
      <4> QED
          BY <3>2, <4>2, <4>3, <4>4
    <3> QED
        BY <2>1, <3>1, <3>2
  <2> QED
      BY <2>6, <2>7
<1> HIDE DEF t
<1>7. Distinct(t)
    BY <1>1, <1>6 DEF Distinct
<1>8. ToSet(t) = ToSet(list) \ {a}
  <2>1. ASSUME NEW x \in ToSet(t) PROVE x \in ToSet(list) \ {a}
      BY <1>1, <1>6, <2>1 DEF ToSet, Distinct
  <2>2. ASSUME NEW x \in ToSet(list) \ {a} PROVE x \in ToSet(t)
    <3>1. PICK i \in 1..Len(list) : list[i] = x
        BY <2>2 DEF ToSet
    <3>2. i # k
        BY <1>1, <2>2, <3>1
    <3>3. CASE i < k
        BY <1>1, <1>6, <3>1, <3>3 DEF ToSet
    <3>4. CASE i > k
      <4>1. i - 1 \in 1..Len(t) /\ t[i - 1] = x
          BY <1>1, <1>6, <3>1, <3>4
      <4> QED
          BY <1>6, <4>1 DEF ToSet
    <3> QED
        BY <1>1, <3>1, <3>2, <3>3, <3>4
  <2> QED
      BY <2>1, <2>2
<1> QED
    BY <1>5, <1>6, <1>7, <1>8 DEF t

\* An operation count never goes down, so a session once used stays used.
LEMMA UsedStaysUsed ==
    ASSUME SessTypeOK, [SessNext]_sessVars, NEW s \in SessionId, opCount'[s] = 0
    PROVE  opCount[s] = 0
<1>1. opCount \in [SessionId -> Nat]
    BY SessionConstants DEF SessionConstants, SessTypeOK
<1>2. ASSUME NEW t \in SessionId, NEW a \in Addr, NEW kind \in Kinds, SessionOp(t, a, kind)
      PROVE  opCount[s] = 0
    BY <1>1, <1>2 DEF SessionOp
<1>3. CASE UNCHANGED opCount
    BY <1>3
<1> QED
    BY <1>2, <1>3
    DEF SessNext, SessionUserCall, SessionAdminCall, CreateSession, CloseSession,
        CloseExpiredSession, RejectOperation, Abort, GetAuditLogCount, KeptBy, PruneAuditLogs,
        SetAuditLogRetention, SetAutoPruneThreshold, Tick, sessVars, sessStore

\* What holds of the list whatever the counter says.
Listing ==
    /\ list \in Seq(Addr)
    /\ Distinct(list)
    /\ registered \subseteq ToSet(list)

\* Every registration path lists the address, once.
LEMMA EnterLists ==
    ASSUME Listing, NEW a \in Addr, NEW key, Enter(a, key)
    PROVE  /\ Listing'
           /\ ToSet(list) = registered =>
                /\ ToSet(list') = registered'
                /\ Len(list') = Len(list) + 1
<1>1. list' = Listed(a) /\ registered' = registered \cup {a} /\ a \notin registered
    BY DEF Enter
<1>2. list \in Seq(Addr) /\ Distinct(list)
    BY DEF Listing
<1>3. Listed(a) \in Seq(Addr) /\ Distinct(Listed(a)) /\ ToSet(Listed(a)) = ToSet(list) \cup {a}
    BY <1>2, ListedOnce
<1>4. a \notin ToSet(list) => Len(Listed(a)) = Len(list) + 1
    BY <1>2, ListedOnce
<1>5. list' \in Seq(Addr) /\ Distinct(list') /\ ToSet(list') = ToSet(list) \cup {a}
    BY <1>1, <1>3
<1> QED
    BY <1>1, <1>4, <1>5 DEF Listing

\* A revocation path that takes the address off the list leaves the others.
LEMMA LeaveUnlists ==
    ASSUME Listing, NEW a \in Addr, Leave(a), list' = RemoveFirst(list, a)
    PROVE  /\ Listing'
           /\ ToSet(list) = registered =>
                /\ ToSet(list') = registered'
                /\ Len(list') = Len(list) - 1
<1>1. registered' = registered \ {a} /\ a \in registered
    BY DEF Leave
<1>2. list \in Seq(Addr) /\ Distinct(list) /\ a \in ToSet(list)
    BY <1>1 DEF Listing
<1>3. /\ list' \in Seq(Addr)
      /\ Distinct(list')
      /\ ToSet(list') = ToSet(list) \ {a}
      /\ Len(list') = Len(list) - 1
    BY <1>2, RemovedOnce
<1> QED
    BY <1>1, <1>3 DEF Listing

\* A revocation takes the address off the list unless the counter is 0, and it is
\* not 0 before a session was used, because the list is then not empty.
LEMMA RevokeUnlists ==
    ASSUME ListInv, count \in Nat, NEW signer, NEW a \in Addr, RevokeAttestor(signer, a),
           UNCHANGED sessVars
    PROVE  ListInv'
<1>1. Listing /\ Leave(a) /\ opCount' = opCount
    BY DEF ListInv, Listing, RevokeAttestor, sessVars, sessStore
<1>2. CASE count > 0
  <2>1. count' = count - 1 /\ list' = RemoveFirst(list, a)
      BY <1>2 DEF RevokeAttestor, Uncount
  <2> QED
      BY <1>1, <2>1, LeaveUnlists DEF ListInv, Listing
<1>3. CASE count = 0
  <2>1. UNCHANGED <<count, list>> /\ registered' = registered \ {a} /\ a \in registered
      BY <1>1, <1>3 DEF RevokeAttestor, Uncount, Leave
  <2>2. list \in Seq(Addr) /\ a \in ToSet(list)
      BY <1>1, <2>1 DEF Listing
  <2>3. Len(list) # 0
      BY <2>2 DEF ToSet
  <2>4. ~ \A s \in SessionId : opCount[s] = 0
      BY <1>3, <2>3 DEF ListInv
  <2> QED
      BY <1>1, <2>1, <2>4 DEF ListInv
<1> QED
    BY <1>2, <1>3

\* Every call of the composition keeps the list as ListInv describes it.
LEMMA ListStep ==
    ASSUME RegInv, SessTypeOK, ListInv, [RegNext]_registryVars
    PROVE  ListInv'
<1>1. \A s \in SessionId : opCount'[s] = 0 => opCount[s] = 0
    BY SessionsStep, UsedStaysUsed
<1>2. Listing /\ count \in Nat
    BY DEF ListInv, Listing, RegInv, RegTypeOK
<1>3. CASE UNCHANGED <<list, registered, count>>
    BY <1>1, <1>3 DEF ListInv
<1>4. ASSUME NEW a \in Addr, NEW key, Enter(a, key), count' = count + 1
      PROVE  ListInv'
    BY <1>1, <1>2, <1>4, EnterLists DEF ListInv, Listing
<1>5. ASSUME NEW s \in SessionId, opCount'[s] # 0, Listing'
      PROVE  ListInv'
    BY <1>5 DEF ListInv, Listing
<1>6. ASSUME NEW s \in SessionId, NEW operator, NEW kind, SessionOp(s, operator, kind)
      PROVE  opCount'[s] # 0
  <2>1. opCount \in [SessionId -> Nat] /\ opCount' = [opCount EXCEPT ![s] = @ + 1]
      BY <1>6, SessionConstants DEF SessionConstants, SessTypeOK, SessionOp
  <2> QED
      BY <2>1
<1>7. CASE RegistryCall /\ UNCHANGED sessVars
    BY <1>2, <1>3, <1>4, <1>7, RevokeUnlists
    DEF RegistryCall, SetCapacityConfig, RegisterAttestor, ReactivateAttestor
<1>8. CASE RegistrySessionCall
  <2>1. ASSUME NEW s \in SessionId, NEW operator \in Addr, NEW a \in Addr,
               RevokeAttestorWithSession(operator, s, a)
        PROVE  ListInv'
    <3>1. /\ Leave(a)
          /\ list' = RemoveFirst(list, a)
          /\ SessionOp(s, operator, "revoke")
        BY <2>1 DEF RevokeAttestorWithSession
    <3>2. Listing'
        BY <1>2, <3>1, LeaveUnlists
    <3> QED
        BY <1>5, <1>6, <3>1, <3>2
  <2>2. ASSUME NEW s \in SessionId, NEW operator \in Addr, NEW a \in Addr, NEW key \in Key,
               RegisterAttestorWithSession(operator, s, a, key)
        PROVE  ListInv'
    <3>1. Enter(a, key) /\ SessionOp(s, operator, "register")
        BY <2>2 DEF RegisterAttestorWithSession
    <3>2. Listing'
        BY <1>2, <3>1, EnterLists
    <3> QED
        BY <1>5, <1>6, <3>1, <3>2
  <2> QED
      BY <1>8, <2>1, <2>2 DEF RegistrySessionCall
<1>9. UNCHANGED regVars => UNCHANGED <<list, registered, count>>
    BY DEF regVars
<1> QED
    BY <1>3, <1>7, <1>8, <1>9 DEF RegNext, registryVars

\* list_registered_attestors misses nobody and repeats nobody, for any number of
\* addresses and whichever of the five paths ran; and until a session is used, the
\* counter, the list and the flags agree.
THEOREM ListCompleteHolds == RegSpec => []ListComplete
<1> DEFINE Inv == RegInv /\ SessTypeOK /\ ListInv
<1>1. RegInit => Inv
  <2> SUFFICES ASSUME RegInit PROVE Inv
      OBVIOUS
  <2>1. list = <<>> /\ registered = {} /\ count = 0
      BY DEF RegInit
  <2>2. ListInv
      BY <2>1 DEF ListInv, Distinct, ToSet
  <2>3. SessTypeOK
      BY SessInvInit DEF RegInit, SessInv
  <2> QED
      BY <2>2, <2>3, RegInvInit
<1>2. Inv /\ [RegNext]_registryVars => Inv'
    BY RegStep, SessionsStep, SessTypeStep, ListStep
<1>3. Inv => ListComplete
  <2> SUFFICES ASSUME Inv PROVE ListComplete
      OBVIOUS
  <2>1. list \in Seq(Addr) /\ Distinct(list)
      BY DEF ListInv
  <2>2. Cardinality(ToSet(list)) = Len(list)
      BY <2>1, DistinctCardinality
  <2> QED
      BY <2>2 DEF ListInv, RegInv, ListComplete
<1> HIDE DEF Inv
<1> QED
    BY <1>1, <1>2, <1>3, PTL DEF RegSpec
=============================================================================
