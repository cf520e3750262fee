------------------------- MODULE AttestationProofs -------------------------
(***************************************************************************)
(* Proofs about Attestations, for any number of issuers, hashes, sessions  *)
(* and entries of a batch.  That no pair is accepted by two calls is not   *)
(* inductive: a submission is refused because the USED key of its pair is  *)
(* written, so the invariant must say that every stored attestation has    *)
(* its key, whatever has happened to the issuer's registration since; and  *)
(* that an id is an index needs the counter to be the number of them.      *)
(* The rate limiter they pass comes first: its bounds hold for every set   *)
(* of limits, bucket and fair-share configs, and for any number of         *)
(* attestors and ledgers.  Requests with their spans and contexts, and the *)
(* paged reads of all these stores, follow.                                *)
(***************************************************************************)
EXTENDS ContractReads, SessionsProofs, FiniteSetTheorems

-----------------------------------------------------------------------------
(* The rate limiter *)

\* Running totals never fall, and stand still after the current ledger.
Running(f) ==
    /\ \A l, m \in Ledgers : l <= m => f[l] <= f[m]
    /\ \A l \in Ledgers : ledger <= l => f[l] = f[MaxLedger]

\* A stored window began in the past and counted a slot of its first ledger.
Began(w, f) ==
    w.present => /\ w.at <= ledger
                 /\ 1 <= w.n
                 /\ w.n <= f[MaxLedger]
                 /\ f[MaxLedger] - w.n < f[w.at]

\* An attestor's window under limits of at most max slots and at least span ledgers:
\* what earlier windows granted (f[MaxLedger] - w.n) in a span of ledgers that reaches
\* the first ledger of this one is less than max, since the window before it began,
\* with a slot, before that span.
Bounded(w, f, max, span) ==
    /\ w.present =>
         /\ w.n <= max
         /\ \A l \in Ledgers : l <= w.at /\ w.at <= l + span - 1 =>
                f[MaxLedger] - w.n - UpTo(f, l) <= max - 1
    /\ \A l \in Ledgers : Total(f, l, l + span - 1) <= 2 * max - 1

\* A stored bucket was last used in the past, and nothing was metered since.
Metered(b, f) ==
    IF b.present THEN b.at <= ledger /\ f[b.at] = f[MaxLedger] ELSE f[MaxLedger] = 0

\* A bucket of at most capacity tokens, refilled with at most refill a ledger: what
\* was metered since ledger l and what is left is no more than was ever in it.
Drained(b, f, capacity, refill) ==
    /\ b.present =>
         /\ b.n <= capacity
         /\ \A l \in Ledgers : l <= b.at =>
                f[MaxLedger] - UpTo(f, l) + b.n <= capacity + (b.at - l) * refill
    /\ \A l, m \in Ledgers : l <= m => f[m] - UpTo(f, l) <= capacity + (m - l) * refill

LargestLimit(c, d) == \A e \in Limits : e.max <= c.max /\ d.window <= e.window
LargestBucket(c, d) == \A e \in BurstLimit : e.capacity <= c.capacity /\ e.refill <= d.refill

OwnWindow(a) ==
    /\ Running(admitted[a])
    /\ Counts(rlState[a], admitted[a])
    /\ Began(rlState[a], admitted[a])
    /\ \A c, d \in Limits :
         LargestLimit(c, d) => Bounded(rlState[a], admitted[a], c.max, d.window)

OwnBucket(a) ==
    /\ Running(metered[a])
    /\ Metered(burst[a], metered[a])
    /\ \A c, d \in BurstLimit :
         LargestBucket(c, d) => Drained(burst[a], metered[a], c.capacity, d.refill)

SharedWindow ==
    /\ Running(gated)
    /\ Counts(global, gated)
    /\ Began(global, gated)

LimiterInv ==
    /\ RlTypeOK
    /\ \A a \in Addr : OwnWindow(a) /\ OwnBucket(a)
    /\ SharedWindow

-----------------------------------------------------------------------------
LimitType == [max : Nat \ {0}, window : Nat \ {0}]
BurstType == [capacity : Nat \ {0}, refill : Nat \ {0}]

\* What an admin can configure is a positive limit over a positive window.
LEMMA ConfigTypes ==
    /\ Limits \subseteq LimitType
    /\ BurstLimit \subseteq BurstType
    /\ MaxLedger \in Nat
    /\ Multiplier \in Nat \ {0}
    /\ MaxBatch \in Nat
BY LimiterConstants DEF LimiterConstants, Limits, LimitType, BurstType

\* Whatever judges a submission is one of the limits.
LEMMA Judged ==
    ASSUME RlTypeOK
    PROVE  /\ GlobalConfig \in Limits
           /\ \A a \in Addr, role \in LimitRole \cup {NoConfig} :
                ResolveConfig(a, role) \in Limits
BY DEF RlTypeOK, GlobalConfig, ResolveConfig, Limits

\* Windows that granted k slots in the current ledger, from the totals before.
LEMMA GrantedTotals ==
    ASSUME NEW f \in [Ledgers -> Nat], NEW k \in Nat, ledger \in Ledgers, Running(f)
    PROVE  /\ Granted(f, k) \in [Ledgers -> Nat]
           /\ Running(Granted(f, k))
           /\ Granted(f, k)[MaxLedger] = f[MaxLedger] + k
           /\ \A l \in Ledgers : /\ l < ledger => Granted(f, k)[l] = f[l]
                                 /\ ledger <= l => Granted(f, k)[l] = f[MaxLedger] + k
           /\ \A l \in Ledgers : /\ f[l] <= Granted(f, k)[l]
                                 /\ f[l] <= f[MaxLedger]
                                 /\ l <= ledger => UpTo(Granted(f, k), l) = UpTo(f, l)
<1> DEFINE g == Granted(f, k)
<1>1. MaxLedger \in Ledgers /\ Ledgers \subseteq Nat /\ \A l \in Ledgers : l <= MaxLedger
    BY ConfigTypes DEF Ledgers
<1>2. \A l \in Ledgers : g[l] = IF l < ledger THEN f[l] ELSE f[l] + k
    BY DEF Granted
<1>3. g \in [Ledgers -> Nat]
    BY DEF Granted
<1>4. \A l \in Ledgers : ledger <= l => g[l] = f[MaxLedger] + k
    BY <1>1, <1>2 DEF Running
<1>5. \A l \in Ledgers : l < ledger => g[l] = f[l]
    BY <1>2
<1>6. \A l \in Ledgers : f[l] <= g[l] /\ f[l] <= f[MaxLedger]
    BY <1>1, <1>2 DEF Running
<1>7. Running(g)
  <2>1. ASSUME NEW l \in Ledgers, NEW m \in Ledgers, l <= m
        PROVE  g[l] <= g[m]
    <3>1. f[l] <= f[m]
      BY <2>1 DEF Running
    <3> QED
      BY <1>1, <1>2, <2>1, <3>1
  <2>2. ASSUME NEW l \in Ledgers, ledger <= l
        PROVE  g[l] = g[MaxLedger]
    BY <1>1, <1>4, <2>2
  <2> QED
    BY <2>1, <2>2 DEF Running
<1>8. ASSUME NEW l \in Ledgers, l <= ledger
      PROVE  UpTo(g, l) = UpTo(f, l)
  <2>1. l # 0 => l - 1 \in Ledgers /\ l - 1 < ledger
    BY <1>1, <1>8 DEF Ledgers
  <2> QED
    BY <1>5, <2>1 DEF UpTo
<1> QED
    BY <1>1, <1>3, <1>4, <1>5, <1>6, <1>7, <1>8

\* Totals over the ledgers up to the last one, from ledger l and after it.
LEMMA Tails ==
    ASSUME NEW f \in [Ledgers -> Nat], NEW l \in Ledgers
    PROVE  /\ Total(f, l, MaxLedger) = f[MaxLedger] - UpTo(f, l)
           /\ Total(f, l + 1, MaxLedger) = f[MaxLedger] - f[l]
           /\ UpTo(f, l) \in Nat /\ f[l] \in Nat /\ f[MaxLedger] \in Nat
<1>1. l \in Nat /\ l <= MaxLedger /\ MaxLedger \in Nat /\ MaxLedger \in Ledgers
    BY ConfigTypes DEF Ledgers
<1>2. l # 0 => l - 1 \in Ledgers
    BY <1>1 DEF Ledgers
<1>3. Least(MaxLedger, MaxLedger) = MaxLedger
    BY <1>1 DEF Least
<1>4. UpTo(f, l + 1) = f[l]
    BY <1>1 DEF UpTo
<1>5. UpTo(f, l) \in Nat /\ f[l] \in Nat /\ f[MaxLedger] \in Nat
    BY <1>1, <1>2 DEF UpTo
<1> QED
    BY <1>3, <1>4, <1>5 DEF Total

\* The window left by a submission of k slots.
Filled(w, span, k) == Stored(WindowOf(w, span).n + k, WindowOf(w, span).at)

\* The fields of a stored window.
LEMMA StoredIsWindow ==
    ASSUME NEW n \in Nat, NEW at \in Nat
    PROVE  /\ Stored(n, at) \in Window
           /\ Stored(n, at).present
           /\ Stored(n, at).n = n
           /\ Stored(n, at).at = at
BY DEF Stored, Window

\* The window a submission of k slots falls in goes on, or starts in this ledger.
LEMMA WindowCases ==
    ASSUME NEW w \in Window, NEW span \in Nat \ {0}, NEW k \in Nat \ {0}, ledger \in Ledgers
    PROVE  /\ Filled(w, span, k) \in Window
           /\ Filled(w, span, k).present
           /\ \/ /\ w.present
                 /\ Filled(w, span, k).at = w.at
                 /\ Filled(w, span, k).n = w.n + k
              \/ /\ Filled(w, span, k).at = ledger
                 /\ Filled(w, span, k).n = k
                 /\ w.present => ledger - w.at >= span
<1>1. ledger \in Nat
    BY ConfigTypes DEF Ledgers
<1>2. w.n \in Nat /\ w.at \in Nat /\ w.n + k \in Nat
    BY DEF Window
<1>3. CASE w.present /\ ~IsWindowExpired(w.at, span)
  <2>1. Filled(w, span, k) = Stored(w.n + k, w.at)
    BY <1>3 DEF Filled, WindowOf
  <2> QED
    BY <1>2, <1>3, <2>1, StoredIsWindow
<1>4. CASE ~w.present \/ IsWindowExpired(w.at, span)
  <2>1. WindowOf(w, span) = Stored(0, ledger)
    BY <1>4 DEF WindowOf
  <2>2. WindowOf(w, span).n = 0 /\ WindowOf(w, span).at = ledger
    BY <1>1, <2>1, StoredIsWindow
  <2>3. Filled(w, span, k) = Stored(k, ledger)
    BY <2>2 DEF Filled
  <2>4. w.present => ledger - w.at >= span
    BY <1>4 DEF IsWindowExpired
  <2> QED
    BY <1>1, <2>3, <2>4, StoredIsWindow
<1> QED
    BY <1>3, <1>4

\* A window that grants k slots still counts the totals that grew by k.
LEMMA WindowGrows ==
    ASSUME NEW w \in Window, NEW f \in [Ledgers -> Nat], NEW span \in Nat \ {0},
           NEW k \in Nat \ {0}, ledger \in Ledgers,
           Running(f), Counts(w, f), Began(w, f)
    PROVE  /\ Counts(Filled(w, span, k), Granted(f, k))
           /\ Began(Filled(w, span, k), Granted(f, k))
<1> DEFINE g == Granted(f, k)
           v == Filled(w, span, k)
<1>1. /\ v \in Window /\ v.present
      /\ \/ w.present /\ v.at = w.at /\ v.n = w.n + k
         \/ v.at = ledger /\ v.n = k /\ (w.present => ledger - w.at >= span)
    BY WindowCases
<1> HIDE DEF v
<1>2. /\ ledger \in Nat /\ v.at \in Nat /\ v.n \in Nat /\ w.at \in Nat /\ w.n \in Nat
      /\ v.at <= ledger /\ v.at \in Ledgers
    BY <1>1, ConfigTypes DEF Window, Ledgers, Began
<1>3. /\ g \in [Ledgers -> Nat]
      /\ g[MaxLedger] = f[MaxLedger] + k
      /\ v.at < ledger => g[v.at] = f[v.at]
      /\ ledger <= v.at => g[v.at] = f[MaxLedger] + k
      /\ f[v.at] <= f[MaxLedger]
      /\ UpTo(g, v.at) = UpTo(f, v.at)
    BY <1>2, GrantedTotals
<1>4. /\ Total(f, v.at, MaxLedger) = f[MaxLedger] - UpTo(f, v.at)
      /\ Total(f, v.at + 1, MaxLedger) = f[MaxLedger] - f[v.at]
      /\ UpTo(f, v.at) \in Nat /\ f[v.at] \in Nat /\ f[MaxLedger] \in Nat
    BY <1>2, Tails
<1>5. /\ Total(g, v.at, MaxLedger) = f[MaxLedger] + k - UpTo(f, v.at)
      /\ Total(g, v.at + 1, MaxLedger) = f[MaxLedger] + k - g[v.at]
      /\ g[v.at] \in Nat
    BY <1>2, <1>3, Tails
<1>6. UpTo(f, v.at) <= f[MaxLedger]
  <2>1. v.at # 0 => v.at - 1 \in Ledgers
    <3>1. ASSUME NEW l \in Ledgers, l # 0
          PROVE  l - 1 \in Ledgers
      BY <3>1, ConfigTypes DEF Ledgers
    <3> QED
      BY <1>2, <3>1
  <2>2. v.at # 0 => f[v.at - 1] <= f[MaxLedger]
    BY <2>1, GrantedTotals
  <2> QED
    BY <1>4, <2>2 DEF UpTo
<1> HIDE DEF g
<1>7. CASE w.present /\ v.at = w.at /\ v.n = w.n + k
  <2>1. /\ f[MaxLedger] - f[v.at] <= w.n
        /\ w.n <= f[MaxLedger] - UpTo(f, v.at)
        /\ 1 <= w.n /\ w.n <= f[MaxLedger] /\ f[MaxLedger] - w.n < f[v.at]
    BY <1>4, <1>7 DEF Counts, Began
  <2>2. Counts(v, g)
    BY <1>1, <1>2, <1>3, <1>4, <1>5, <1>7, <2>1 DEF Counts
  <2>3. Began(v, g)
    BY <1>1, <1>2, <1>3, <1>4, <1>5, <1>7, <2>1 DEF Began
  <2> QED
    BY <2>2, <2>3 DEF g, v
<1>8. CASE v.at = ledger /\ v.n = k
  <2>1. Counts(v, g)
    BY <1>1, <1>2, <1>3, <1>4, <1>5, <1>6, <1>8, SMTT(20) DEF Counts
  <2>2. Began(v, g)
    BY <1>1, <1>2, <1>3, <1>4, <1>5, <1>8, SMTT(20) DEF Began
  <2> QED
    BY <2>1, <2>2 DEF g, v
<1> QED
    BY <1>1, <1>7, <1>8

\* What the totals had reached before ledger l, when a window began before it.
LEMMA BeganBefore ==
    ASSUME NEW w \in Window, NEW f \in [Ledgers -> Nat], NEW l \in Ledgers, ledger \in Ledgers,
           Running(f), Began(w, f), w.present, w.at < l
    PROVE  f[MaxLedger] - UpTo(f, l) < w.n
<1>1. l \in Nat /\ l <= MaxLedger /\ MaxLedger \in Nat /\ w.at \in Nat /\ w.n \in Nat
    BY ConfigTypes DEF Ledgers, Window
<1>2. w.at \in Ledgers /\ l - 1 \in Ledgers /\ w.at <= l - 1 /\ l # 0
    BY <1>1 DEF Ledgers
<1>3. f[w.at] <= f[l - 1]
    BY <1>2 DEF Running
<1>4. UpTo(f, l) = f[l - 1]
    BY <1>2 DEF UpTo
<1>5. f[w.at] \in Nat /\ f[l - 1] \in Nat /\ f[MaxLedger] \in Nat
    BY <1>1, <1>2, Tails
<1>6. f[MaxLedger] - w.n < f[w.at]
    BY DEF Began
<1> QED
    BY <1>1, <1>3, <1>4, <1>5, <1>6

\* A window of at most most slots, started after at least width ledgers, keeps every
\* span of width ledgers below twice that.
LEMMA StaysBounded ==
    ASSUME NEW w \in Window, NEW f \in [Ledgers -> Nat], NEW span \in Nat \ {0},
           NEW k \in Nat \ {0}, ledger \in Ledgers,
           Running(f), Counts(w, f), Began(w, f),
           NEW most \in Nat \ {0}, NEW width \in Nat \ {0}, width <= span,
           Filled(w, span, k).n <= most, Bounded(w, f, most, width)
    PROVE  Bounded(Filled(w, span, k), Granted(f, k), most, width)
<1> DEFINE g == Granted(f, k)
           v == Filled(w, span, k)
<1>1. /\ v \in Window /\ v.present /\ v.n <= most
      /\ \/ w.present /\ v.at = w.at /\ v.n = w.n + k
         \/ v.at = ledger /\ v.n = k /\ (w.present => ledger - w.at >= span)
    BY WindowCases
<1> HIDE DEF v
<1>2. /\ ledger \in Nat /\ v.at \in Nat /\ v.n \in Nat /\ w.at \in Nat /\ w.n \in Nat
      /\ v.at <= ledger /\ ledger <= MaxLedger /\ MaxLedger \in Nat
      /\ MaxLedger \in Ledgers
    BY <1>1, ConfigTypes DEF Window, Ledgers, Began
<1>3. /\ g \in [Ledgers -> Nat]
      /\ g[MaxLedger] = f[MaxLedger] + k
      /\ \A l \in Ledgers : /\ l < ledger => g[l] = f[l]
                            /\ ledger <= l => g[l] = f[MaxLedger] + k
                            /\ l <= ledger => UpTo(g, l) = UpTo(f, l)
    BY GrantedTotals
<1> HIDE DEF g
<1>4. \A l \in Ledgers : /\ l \in Nat /\ l <= MaxLedger
                         /\ UpTo(f, l) \in Nat /\ f[l] \in Nat /\ f[MaxLedger] \in Nat
  <2>1. \A l \in Ledgers : l \in Nat /\ l <= MaxLedger
    BY <1>2 DEF Ledgers
  <2> QED
    BY <2>1, Tails
<1>5. w.present => w.n <= most
    BY DEF Bounded
<1>6. ASSUME NEW l \in Ledgers, l <= v.at, v.at <= l + width - 1
      PROVE  g[MaxLedger] - v.n - UpTo(g, l) <= most - 1
  <2>1. /\ UpTo(g, l) = UpTo(f, l) /\ UpTo(f, l) \in Nat
        /\ f[MaxLedger] \in Nat /\ g[MaxLedger] = f[MaxLedger] + k /\ l \in Nat
    BY <1>2, <1>3, <1>4, <1>6
  <2>2. CASE w.present /\ v.at = w.at /\ v.n = w.n + k
    <3>1. f[MaxLedger] - w.n - UpTo(f, l) <= most - 1
      BY <1>6, <2>2 DEF Bounded
    <3> QED
      BY <1>2, <2>1, <2>2, <3>1
  <2>3. CASE v.at = ledger /\ v.n = k /\ w.present /\ ledger - w.at >= span
    <3>1. w.at < l
      BY <1>2, <1>6, <2>1, <2>3
    <3>2. f[MaxLedger] - UpTo(f, l) < w.n
      BY <2>3, <3>1, BeganBefore
    <3> QED
      BY <1>2, <1>5, <2>1, <2>3, <3>2
  <2>4. CASE v.n = k /\ ~w.present
    <3>1. 0 \in Ledgers /\ UpTo(f, 0) = 0
      BY <1>2 DEF Ledgers, UpTo
    <3>2. f[MaxLedger] = 0
      BY <2>1, <2>4, <3>1, Tails DEF Counts
    <3> QED
      BY <2>1, <2>4, <3>2
  <2> QED
    BY <1>1, <2>2, <2>3, <2>4
<1>7. ASSUME NEW l \in Ledgers
      PROVE  Total(g, l, l + width - 1) <= 2 * most - 1
  <2> DEFINE t == Least(l + width - 1, MaxLedger)
  <2>1. /\ t \in Ledgers /\ l <= t /\ t <= l + width - 1 /\ l \in Nat /\ t \in Nat
    BY <1>2, <1>4 DEF Least, Ledgers
  <2>2. /\ Total(g, l, l + width - 1) = g[t] - UpTo(g, l)
        /\ Total(f, l, l + width - 1) = f[t] - UpTo(f, l)
    BY DEF Total
  <2> HIDE DEF t
  <2>3. CASE t < ledger
    <3>1. g[t] = f[t] /\ UpTo(g, l) = UpTo(f, l)
      BY <1>2, <1>3, <2>1, <2>3
    <3>2. Total(f, l, l + width - 1) <= 2 * most - 1
      BY DEF Bounded
    <3> QED
      BY <2>2, <3>1, <3>2
  <2>4. CASE ledger < l
    <3>1. l - 1 \in Ledgers /\ ledger <= l - 1 /\ l # 0
      BY <1>2, <1>4, <2>4 DEF Ledgers
    <3>2. UpTo(g, l) = f[MaxLedger] + k
      BY <1>3, <3>1 DEF UpTo
    <3>3. g[t] = f[MaxLedger] + k
      BY <1>2, <1>3, <2>1, <2>4
    <3>4. f[MaxLedger] \in Nat
      BY <1>4
    <3> QED
      BY <2>2, <3>2, <3>3, <3>4
  <2>5. CASE l <= ledger /\ ledger <= t
    <3>1. /\ g[t] = f[MaxLedger] + k /\ g[MaxLedger] = f[MaxLedger] + k
          /\ UpTo(g, l) = UpTo(f, l) /\ UpTo(f, l) \in Nat /\ f[MaxLedger] \in Nat
      BY <1>3, <1>4, <2>1, <2>5
    <3>2. CASE l <= v.at
      <4>1. v.at <= l + width - 1
        BY <1>2, <2>1, <2>5
      <4>2. g[MaxLedger] - v.n - UpTo(g, l) <= most - 1
        BY <1>6, <3>2, <4>1
      <4> QED
        BY <1>1, <1>2, <2>2, <3>1, <4>2
    <3>3. CASE v.at < l
      <4>1. w.present /\ v.at = w.at /\ v.n = w.n + k
        BY <1>1, <1>2, <2>1, <2>5, <3>3
      <4>2. f[MaxLedger] - UpTo(f, l) < w.n
        BY <3>3, <4>1, BeganBefore
      <4> QED
        BY <1>1, <1>2, <2>2, <3>1, <4>1, <4>2
    <3> QED
      BY <1>2, <2>1, <3>2, <3>3
  <2> QED
    BY <1>2, <2>1, <2>3, <2>4, <2>5
<1>8. Bounded(v, g, most, width)
    BY <1>1, <1>6, <1>7 DEF Bounded
<1> QED
    BY <1>8 DEF g, v

\* The bucket a gated submission finds in this ledger, and leaves.
LEMMA RefilledBucket ==
    ASSUME NEW a \in Addr, burst[a] \in Window, burstConfig \in BurstType, ledger \in Ledgers,
           burst[a].present => burst[a].at <= ledger
    PROVE  /\ Refilled(a) \in Window
           /\ Refilled(a).present /\ Refilled(a).at = ledger
           /\ \/ /\ ~burst[a].present
                 /\ Refilled(a).n = burstConfig.capacity
              \/ /\ burst[a].present /\ burst[a].at = ledger
                 /\ Refilled(a).n = burst[a].n
              \/ /\ burst[a].present
                 /\ Refilled(a).n <= burstConfig.capacity
                 /\ Refilled(a).n <= burst[a].n + (ledger - burst[a].at) * burstConfig.refill
<1> DEFINE e == ledger - burst[a].at
           more == burst[a].n + e * burstConfig.refill
<1>1. /\ ledger \in Nat /\ burst[a].n \in Nat /\ burst[a].at \in Nat
      /\ burstConfig.capacity \in Nat /\ burstConfig.refill \in Nat
    BY ConfigTypes DEF Ledgers, Window, BurstType
<1>2. CASE ~burst[a].present
  <2>1. Refilled(a) = Stored(burstConfig.capacity, ledger)
    BY <1>2 DEF Refilled
  <2> QED
    BY <1>1, <1>2, <2>1, StoredIsWindow
<1>3. CASE burst[a].present /\ e = 0
  <2>1. Refilled(a) = burst[a]
    BY <1>3 DEF Refilled
  <2>2. burst[a].at = ledger
    BY <1>1, <1>3
  <2> QED
    BY <1>3, <2>1, <2>2
<1>4. CASE burst[a].present /\ e # 0
  <2>1. Refilled(a) = Stored(Least(more, burstConfig.capacity), ledger)
    BY <1>4 DEF Refilled
  <2>2. e \in Nat
    BY <1>1, <1>4
  <2>3. e * burstConfig.refill \in Nat
    BY <1>1, <2>2
  <2>4. more \in Nat
    BY <1>1, <2>3
  <2> HIDE DEF more
  <2>5. /\ Least(more, burstConfig.capacity) \in Nat
        /\ Least(more, burstConfig.capacity) <= more
        /\ Least(more, burstConfig.capacity) <= burstConfig.capacity
    BY <1>1, <2>4 DEF Least
  <2>6. /\ Refilled(a) \in Window
        /\ Refilled(a).present
        /\ Refilled(a).n = Least(more, burstConfig.capacity)
        /\ Refilled(a).at = ledger
    BY <1>1, <2>1, <2>5, StoredIsWindow
  <2> QED
    BY <1>4, <2>5, <2>6 DEF more
<1> QED
    BY <1>2, <1>3, <1>4

\* The bucket left by a submission that took a token.
Spent(a) == Stored(Refilled(a).n - 1, Refilled(a).at)

\* Tokens refilled over two spans in a row.
LEMMA RefillAdds ==
    ASSUME NEW x \in Nat, NEW y \in Nat, NEW r \in Nat, NEW s \in Nat, s <= r
    PROVE  /\ x * r \in Nat
           /\ y * s <= y * r
           /\ (x + y) * r = x * r + y * r
<1>1. PICK t \in Nat : r = s + t
  <2>1. r - s \in Nat /\ r = s + (r - s)
    OBVIOUS
  <2> QED
    BY <2>1
<1>2. y * r = y * s + y * t
    BY <1>1
<1>3. y * t \in Nat /\ y * s \in Nat /\ x * r \in Nat
    OBVIOUS
<1>4. (x + y) * r = x * r + y * r
    OBVIOUS
<1> QED
    BY <1>2, <1>3, <1>4

\* A submission that takes a token keeps the bucket's account.
LEMMA StaysDrained ==
    ASSUME NEW a \in Addr, burst[a] \in Window, burstConfig \in BurstType, ledger \in Ledgers,
           NEW f \in [Ledgers -> Nat], Running(f), Metered(burst[a], f),
           NEW capacity \in Nat \ {0}, NEW refill \in Nat \ {0},
           burstConfig.capacity <= capacity, burstConfig.refill <= refill,
           Drained(burst[a], f, capacity, refill), Refilled(a).n > 0
    PROVE  Drained(Spent(a), Granted(f, 1), capacity, refill)
<1> DEFINE g == Granted(f, 1)
           b == burst[a]
           v == Spent(a)
           held == Refilled(a).n
<1>1. b.present => b.at <= ledger
    BY DEF Metered
<1>2. /\ Refilled(a) \in Window /\ Refilled(a).at = ledger
      /\ \/ ~b.present /\ held = burstConfig.capacity
         \/ b.present /\ b.at = ledger /\ held = b.n
         \/ /\ b.present
            /\ held <= burstConfig.capacity
            /\ held <= b.n + (ledger - b.at) * burstConfig.refill
    BY <1>1, RefilledBucket
<1>3. /\ ledger \in Nat /\ b.n \in Nat /\ b.at \in Nat /\ held \in Nat
      /\ burstConfig.capacity \in Nat /\ burstConfig.refill \in Nat
      /\ MaxLedger \in Ledgers /\ MaxLedger \in Nat /\ ledger <= MaxLedger
    BY <1>2, ConfigTypes DEF Ledgers, Window, BurstType
<1>4. v \in Window /\ v.present /\ v.n = held - 1 /\ v.at = ledger
  <2>1. held - 1 \in Nat
    BY <1>3
  <2>2. v = Stored(held - 1, ledger)
    BY <1>2 DEF Spent
  <2> QED
    BY <1>3, <2>1, <2>2, StoredIsWindow
<1> HIDE DEF v, held
<1>5. /\ g \in [Ledgers -> Nat]
      /\ g[MaxLedger] = f[MaxLedger] + 1
      /\ \A l \in Ledgers : /\ l < ledger => g[l] = f[l]
                            /\ ledger <= l => g[l] = f[MaxLedger] + 1
                            /\ l <= ledger => UpTo(g, l) = UpTo(f, l)
    BY GrantedTotals
<1> HIDE DEF g
<1>6. \A l \in Ledgers : /\ l \in Nat /\ l <= MaxLedger
                         /\ UpTo(f, l) \in Nat /\ f[l] \in Nat /\ f[MaxLedger] \in Nat
  <2>1. \A l \in Ledgers : l \in Nat /\ l <= MaxLedger
    BY <1>3 DEF Ledgers
  <2> QED
    BY <2>1, Tails
<1>7. ASSUME NEW l \in Ledgers, l <= ledger
      PROVE  f[MaxLedger] - UpTo(f, l) + held <= capacity + (ledger - l) * refill
  <2>1. /\ UpTo(f, l) \in Nat /\ f[MaxLedger] \in Nat /\ l \in Nat
        /\ ledger - l \in Nat
    BY <1>3, <1>6, <1>7
  <2>2. (ledger - l) * refill \in Nat
    BY <2>1
  <2>3. CASE ~b.present /\ held = burstConfig.capacity
    <3>1. f[MaxLedger] = 0
      BY <2>3 DEF Metered
    <3> QED
      BY <1>3, <2>1, <2>2, <2>3, <3>1
  <2>4. CASE b.present /\ b.at = ledger /\ held = b.n
    BY <1>7, <2>4 DEF Drained
  <2>5. CASE /\ b.present /\ l <= b.at
             /\ held <= b.n + (ledger - b.at) * burstConfig.refill
    <3>1. f[MaxLedger] - UpTo(f, l) + b.n <= capacity + (b.at - l) * refill
      BY <2>5 DEF Drained
    <3>2. b.at - l \in Nat /\ ledger - b.at \in Nat
      BY <1>1, <1>3, <2>1, <2>5
    <3>3. (b.at - l) + (ledger - b.at) = ledger - l
      BY <1>3, <2>1
    <3>4. /\ (b.at - l) * refill \in Nat
          /\ (ledger - b.at) * burstConfig.refill <= (ledger - b.at) * refill
          /\ (ledger - l) * refill = (b.at - l) * refill + (ledger - b.at) * refill
      BY <1>3, <3>2, <3>3, RefillAdds
    <3>5. (ledger - b.at) * burstConfig.refill \in Nat /\ (ledger - b.at) * refill \in Nat
      BY <1>3, <3>2
    <3> DEFINE p == (b.at - l) * refill
               q == (ledger - b.at) * refill
               h == (ledger - b.at) * burstConfig.refill
    <3> HIDE DEF p, q, h
    <3>6. /\ p \in Nat /\ q \in Nat /\ h \in Nat /\ h <= q
          /\ (ledger - l) * refill = p + q
          /\ f[MaxLedger] - UpTo(f, l) + b.n <= capacity + p
          /\ held <= b.n + h
      BY <2>5, <3>1, <3>4, <3>5 DEF p, q, h
    <3> QED
      BY <1>3, <2>1, <3>6
  <2>6. CASE b.present /\ b.at < l /\ held <= burstConfig.capacity
    <3>1. b.at \in Ledgers /\ l - 1 \in Ledgers /\ b.at <= l - 1 /\ l # 0
      <4>1. l <= MaxLedger /\ b.at < l
        BY <1>6, <2>6
      <4>2. b.at \in Ledgers
        BY <1>3, <2>1, <4>1, SMTT(20) DEF Ledgers
      <4>3. l # 0 /\ b.at <= l - 1
        BY <1>3, <2>1, <4>1
      <4>4. l - 1 \in Ledgers
        BY <1>3, <2>1, <4>1, <4>3, SMTT(20) DEF Ledgers
      <4> QED
        BY <4>2, <4>3, <4>4
    <3>2. f[b.at] <= f[l - 1] /\ UpTo(f, l) = f[l - 1]
      BY <3>1 DEF Running, UpTo
    <3>3. f[b.at] = f[MaxLedger]
      BY <2>6 DEF Metered
    <3> QED
      BY <1>3, <2>1, <2>2, <2>6, <3>2, <3>3
  <2> QED
    BY <1>2, <1>3, <2>1, <2>3, <2>4, <2>5, <2>6
<1>8. ASSUME NEW l \in Ledgers, NEW m \in Ledgers, l <= m
      PROVE  g[m] - UpTo(g, l) <= capacity + (m - l) * refill
  <2>1. l \in Nat /\ m \in Nat /\ m - l \in Nat /\ f[MaxLedger] \in Nat /\ UpTo(f, l) \in Nat
    BY <1>6, <1>8
  <2>2. (m - l) * refill \in Nat
    BY <2>1
  <2>3. CASE m < ledger
    <3>1. g[m] = f[m] /\ UpTo(g, l) = UpTo(f, l)
      BY <1>3, <1>5, <1>8, <2>1, <2>3
    <3>2. f[m] - UpTo(f, l) <= capacity + (m - l) * refill
      BY <1>8 DEF Drained
    <3> QED
      BY <3>1, <3>2
  <2>4. CASE ledger < l
    <3>1. l - 1 \in Ledgers /\ ledger <= l - 1 /\ l # 0
      BY <1>3, <1>6, <2>4 DEF Ledgers
    <3>2. UpTo(g, l) = f[MaxLedger] + 1
      BY <1>5, <3>1 DEF UpTo
    <3>3. g[m] = f[MaxLedger] + 1
      BY <1>3, <1>5, <1>8, <2>1, <2>4
    <3> QED
      BY <2>1, <2>2, <3>2, <3>3
  <2>5. CASE l <= ledger /\ ledger <= m
    <3>1. g[m] = f[MaxLedger] + 1 /\ UpTo(g, l) = UpTo(f, l)
      BY <1>5, <2>5
    <3>2. f[MaxLedger] - UpTo(f, l) + held <= capacity + (ledger - l) * refill
      BY <1>7, <2>5
    <3>3. ledger - l \in Nat /\ m - ledger \in Nat /\ (ledger - l) + (m - ledger) = m - l
      BY <1>3, <2>1, <2>5
    <3>4. /\ (m - l) * refill = (ledger - l) * refill + (m - ledger) * refill
          /\ (ledger - l) * refill \in Nat
          /\ (m - ledger) * refill \in Nat
      BY <3>3, RefillAdds
    <3>5. held >= 1
      BY <1>3 DEF held
    <3> DEFINE p == (ledger - l) * refill
               q == (m - ledger) * refill
    <3> HIDE DEF p, q
    <3>6. /\ p \in Nat /\ q \in Nat /\ (m - l) * refill = p + q
          /\ f[MaxLedger] - UpTo(f, l) + held <= capacity + p
      BY <3>2, <3>4 DEF p, q
    <3> QED
      BY <1>3, <2>1, <3>1, <3>5, <3>6
  <2> QED
    BY <1>3, <2>1, <2>3, <2>4, <2>5
<1>9. v.n <= capacity
  <2>1. CASE b.present /\ b.at = ledger /\ held = b.n
    BY <1>3, <1>4, <2>1 DEF Drained
  <2>2. CASE held <= burstConfig.capacity
    BY <1>3, <1>4, <2>2
  <2> QED
    BY <1>2, <1>3, <2>1, <2>2
<1>10. ASSUME NEW l \in Ledgers, l <= v.at
       PROVE  g[MaxLedger] - UpTo(g, l) + v.n <= capacity + (v.at - l) * refill
  <2>1. f[MaxLedger] - UpTo(f, l) + held <= capacity + (ledger - l) * refill
    BY <1>4, <1>7, <1>10
  <2>2. UpTo(g, l) = UpTo(f, l) /\ g[MaxLedger] = f[MaxLedger] + 1
    BY <1>4, <1>5, <1>10
  <2>3. f[MaxLedger] \in Nat /\ UpTo(f, l) \in Nat
    BY <1>6
  <2> QED
    BY <1>3, <1>4, <2>1, <2>2, <2>3
<1>11. Drained(v, g, capacity, refill)
    BY <1>8, <1>9, <1>10 DEF Drained
<1> QED
    BY <1>11 DEF g, v

-----------------------------------------------------------------------------
\* Nothing stored and nothing granted satisfies the invariant.
LEMMA LimiterInvInit == RlInit => LimiterInv
<1> SUFFICES ASSUME RlInit PROVE LimiterInv
    OBVIOUS
<1> DEFINE zero == [l \in Ledgers |-> 0]
<1>1. /\ MaxLedger \in Ledgers /\ 0 \in Ledgers /\ MaxLedger \in Nat
      /\ \A l \in Ledgers : l \in Nat
    BY ConfigTypes DEF Ledgers
<1>2. /\ zero \in [Ledgers -> Nat] /\ zero[MaxLedger] = 0
      /\ \A l \in Ledgers : zero[l] = 0
    BY <1>1
<1> HIDE DEF zero
<1>3. ~Absent.present /\ Absent \in Window
    BY DEF Absent, Window
<1>4. /\ ledger = 0 /\ global = Absent /\ gated = zero
      /\ \A a \in Addr : /\ rlState[a] = Absent /\ burst[a] = Absent
                         /\ admitted[a] = zero /\ metered[a] = zero
    BY DEF RlInit, zero
<1>5. RlTypeOK
  <2>1. admitted \in [Addr -> [Ledgers -> Nat]] /\ metered \in [Addr -> [Ledgers -> Nat]]
    BY <1>2 DEF RlInit, zero
  <2> QED
    BY <1>1, <1>2, <1>3, <1>4, <2>1 DEF RlInit, RlTypeOK
<1>6. Running(zero)
    BY <1>1, <1>2 DEF Running
<1>7. Total(zero, 0, MaxLedger) = 0
    BY <1>1, <1>2, Tails DEF UpTo
<1>8. Counts(Absent, zero) /\ Began(Absent, zero) /\ Metered(Absent, zero)
    BY <1>2, <1>3, <1>7 DEF Counts, Began, Metered
<1>9. \A l \in Ledgers : UpTo(zero, l) = 0
  <2>1. ASSUME NEW l \in Ledgers, l # 0
        PROVE  l - 1 \in Ledgers
    BY <2>1, ConfigTypes DEF Ledgers
  <2> QED
    BY <1>2, <2>1 DEF UpTo
<1>10. ASSUME NEW c \in Limits, NEW d \in Limits
       PROVE  Bounded(Absent, zero, c.max, d.window)
  <2>1. c.max \in Nat /\ 1 <= c.max /\ d.window \in Nat /\ 1 <= d.window
    BY ConfigTypes DEF LimitType
  <2>2. ASSUME NEW l \in Ledgers
        PROVE  Total(zero, l, l + d.window - 1) <= 2 * c.max - 1
    <3>1. Least(l + d.window - 1, MaxLedger) \in Ledgers
      BY <1>1, <2>1, ConfigTypes DEF Least, Ledgers
    <3>2. Total(zero, l, l + d.window - 1) = 0
      BY <1>2, <1>9, <3>1 DEF Total
    <3> QED
      BY <2>1, <3>2
  <2> QED
    BY <1>3, <2>2 DEF Bounded
<1>11. ASSUME NEW c \in BurstLimit, NEW d \in BurstLimit
       PROVE  Drained(Absent, zero, c.capacity, d.refill)
  <2>1. c.capacity \in Nat /\ d.refill \in Nat
    BY ConfigTypes DEF BurstType
  <2>2. ASSUME NEW l \in Ledgers, NEW m \in Ledgers, l <= m
        PROVE  zero[m] - UpTo(zero, l) <= c.capacity + (m - l) * d.refill
    <3>1. m - l \in Nat
      BY <1>1, <2>2
    <3>2. (m - l) * d.refill \in Nat
      BY <2>1, <3>1
    <3> QED
      BY <1>2, <1>9, <2>1, <3>2
  <2> QED
    BY <1>3, <2>2 DEF Drained
<1>12. \A a \in Addr : OwnWindow(a) /\ OwnBucket(a)
    BY <1>4, <1>6, <1>8, <1>10, <1>11 DEF OwnWindow, OwnBucket
<1>13. SharedWindow
    BY <1>4, <1>6, <1>8 DEF SharedWindow
<1> QED
    BY <1>5, <1>12, <1>13 DEF LimiterInv

\* Slots granted to an attestor by a limit that allows them.
LEMMA AdmitStep ==
    ASSUME LimiterInv, NEW a \in Addr, NEW e \in Limits, NEW k \in Nat \ {0},
           WindowOf(rlState[a], e.window).n + k <= e.max,
           rlState' = [rlState EXCEPT ![a] = Filled(rlState[a], e.window, k)],
           admitted' = [admitted EXCEPT ![a] = Granted(admitted[a], k)],
           ledger' = ledger
    PROVE  /\ rlState' \in [Addr -> Window]
           /\ admitted' \in [Addr -> [Ledgers -> Nat]]
           /\ \A x \in Addr : OwnWindow(x)'
<1> DEFINE w == rlState[a]
           f == admitted[a]
           v == Filled(w, e.window, k)
           g == Granted(f, k)
<1>1. /\ rlState \in [Addr -> Window] /\ admitted \in [Addr -> [Ledgers -> Nat]]
      /\ ledger \in Ledgers
    BY DEF LimiterInv, RlTypeOK
<1>2. w \in Window /\ f \in [Ledgers -> Nat]
    BY <1>1
<1>3. e.window \in Nat \ {0} /\ e.max \in Nat \ {0}
    BY ConfigTypes DEF LimitType
<1>4. Running(f) /\ Counts(w, f) /\ Began(w, f)
    BY DEF LimiterInv, OwnWindow
<1>5. v \in Window /\ v.n <= e.max
  <2>1. v \in Window
    BY <1>1, <1>2, <1>3, WindowCases
  <2>2. v.n = WindowOf(w, e.window).n + k
    BY DEF Filled, Stored
  <2> QED
    BY <2>1, <2>2
<1>6. g \in [Ledgers -> Nat] /\ Running(g)
    BY <1>1, <1>2, <1>4, GrantedTotals
<1>7. Counts(v, g) /\ Began(v, g)
    BY <1>1, <1>2, <1>3, <1>4, WindowGrows
<1>8. ASSUME NEW c \in Limits, NEW d \in Limits, LargestLimit(c, d)
      PROVE  Bounded(v, g, c.max, d.window)
  <2>1. c.max \in Nat \ {0} /\ d.window \in Nat \ {0}
    BY ConfigTypes DEF LimitType
  <2>2. e.max <= c.max /\ d.window <= e.window
    BY <1>8 DEF LargestLimit
  <2>3. Bounded(w, f, c.max, d.window)
    BY <1>8 DEF LimiterInv, OwnWindow
  <2>4. v.n <= c.max
    BY <1>3, <1>5, <2>1, <2>2 DEF Window
  <2> QED
    BY <1>1, <1>2, <1>3, <1>4, <2>1, <2>2, <2>3, <2>4, StaysBounded
<1> HIDE DEF v, g
<1>9. rlState'[a] = v /\ admitted'[a] = g
    BY <1>1 DEF v, g
<1>10. \A x \in Addr \ {a} : rlState'[x] = rlState[x] /\ admitted'[x] = admitted[x]
    BY <1>1
<1>11. OwnWindow(a)'
  <2>1. Running(admitted[a])'
    BY <1>6, <1>9 DEF Running
  <2>2. Counts(rlState[a], admitted[a])'
    BY <1>7, <1>9 DEF Counts, Total, UpTo, Least
  <2>3. Began(rlState[a], admitted[a])'
    BY <1>7, <1>9 DEF Began
  <2>4. \A c, d \in Limits :
          LargestLimit(c, d) => Bounded(rlState[a], admitted[a], c.max, d.window)'
    BY <1>8, <1>9 DEF Bounded, Total, UpTo, Least
  <2> QED
    BY <2>1, <2>2, <2>3, <2>4 DEF OwnWindow, LargestLimit
<1>12. ASSUME NEW x \in Addr \ {a}
       PROVE  OwnWindow(x)'
  <2>1. OwnWindow(x)
    BY DEF LimiterInv
  <2>2. Running(admitted[x])'
    BY <1>10, <2>1 DEF OwnWindow, Running
  <2>3. Counts(rlState[x], admitted[x])'
    BY <1>10, <2>1 DEF OwnWindow, Counts, Total, UpTo, Least
  <2>4. Began(rlState[x], admitted[x])'
    BY <1>10, <2>1 DEF OwnWindow, Began
  <2>5. \A c, d \in Limits :
          LargestLimit(c, d) => Bounded(rlState[x], admitted[x], c.max, d.window)'
    BY <1>10, <2>1 DEF OwnWindow, Bounded, Total, UpTo, Least
  <2> QED
    BY <2>2, <2>3, <2>4, <2>5 DEF OwnWindow, LargestLimit
<1> QED
    BY <1>1, <1>5, <1>6, <1>11, <1>12 DEF v, g

\* The buckets after the burst gate, configured or not.
LEMMA GateStep ==
    ASSUME LimiterInv, NEW a \in Addr, BurstGate(a), ledger' = ledger
    PROVE  /\ burst' \in [Addr -> Window]
           /\ metered' \in [Addr -> [Ledgers -> Nat]]
           /\ \A x \in Addr : OwnBucket(x)'
<1> DEFINE b == burst[a]
           f == metered[a]
           v == Spent(a)
           g == Granted(f, 1)
<1>1. /\ burst \in [Addr -> Window] /\ metered \in [Addr -> [Ledgers -> Nat]]
      /\ ledger \in Ledgers /\ burstConfig \in BurstLimit \cup {NoConfig}
    BY DEF LimiterInv, RlTypeOK
<1>2. ASSUME NEW x \in Addr, burst'[x] = burst[x], metered'[x] = metered[x]
      PROVE  OwnBucket(x)'
  <2>1. OwnBucket(x)
    BY DEF LimiterInv
  <2>2. Running(metered[x])'
    BY <1>2, <2>1 DEF OwnBucket, Running
  <2>3. Metered(burst[x], metered[x])'
    BY <1>2, <2>1 DEF OwnBucket, Metered
  <2>4. \A c, d \in BurstLimit :
          LargestBucket(c, d) => Drained(burst[x], metered[x], c.capacity, d.refill)'
    BY <1>2, <2>1 DEF OwnBucket, Drained, UpTo
  <2> QED
    BY <2>2, <2>3, <2>4 DEF OwnBucket, LargestBucket
<1>3. CASE burstConfig = NoConfig
  <2>1. burst' = burst /\ metered' = metered
    BY <1>3 DEF BurstGate
  <2> QED
    BY <1>1, <1>2, <2>1
<1>4. CASE burstConfig # NoConfig
  <2>1. /\ Refilled(a).n > 0
        /\ burst' = [burst EXCEPT ![a] = v]
        /\ metered' = [metered EXCEPT ![a] = g]
    BY <1>4 DEF BurstGate, Spent
  <2>2. /\ burstConfig \in BurstLimit /\ burstConfig \in BurstType
        /\ b \in Window /\ f \in [Ledgers -> Nat]
    BY <1>1, <1>4, ConfigTypes
  <2>3. Running(f) /\ Metered(b, f)
    BY DEF LimiterInv, OwnBucket
  <2>4. Refilled(a) \in Window /\ Refilled(a).at = ledger
    BY <1>1, <2>2, <2>3, RefilledBucket DEF Metered
  <2>5. v \in Window /\ v.present /\ v.at = ledger
    <3>1. Refilled(a).n - 1 \in Nat /\ ledger \in Nat
      BY <1>1, <2>1, <2>4, ConfigTypes DEF Window, Ledgers
    <3> QED
      BY <2>4, <3>1, StoredIsWindow DEF Spent
  <2>6. g \in [Ledgers -> Nat] /\ Running(g) /\ g[ledger] = g[MaxLedger]
    <3>1. ledger \in Nat /\ ledger <= ledger
      BY <1>1, ConfigTypes DEF Ledgers
    <3> QED
      BY <1>1, <2>2, <2>3, <3>1, GrantedTotals
  <2>7. Metered(v, g)
    BY <1>1, <2>5, <2>6, ConfigTypes DEF Metered, Ledgers
  <2>8. ASSUME NEW c \in BurstLimit, NEW d \in BurstLimit, LargestBucket(c, d)
        PROVE  Drained(v, g, c.capacity, d.refill)
    <3>1. /\ c.capacity \in Nat \ {0} /\ d.refill \in Nat \ {0}
          /\ burstConfig.capacity <= c.capacity /\ burstConfig.refill <= d.refill
          /\ Drained(b, f, c.capacity, d.refill)
      BY <2>2, <2>8, ConfigTypes DEF BurstType, LargestBucket, LimiterInv, OwnBucket
    <3> QED
      BY <1>1, <2>1, <2>2, <2>3, <3>1, StaysDrained
  <2> HIDE DEF v, g
  <2>9. burst'[a] = v /\ metered'[a] = g
    BY <1>1, <2>1
  <2>10. OwnBucket(a)'
    <3>1. Running(metered[a])'
      BY <2>6, <2>9 DEF Running
    <3>2. Metered(burst[a], metered[a])'
      BY <2>7, <2>9 DEF Metered
    <3>3. \A c, d \in BurstLimit :
            LargestBucket(c, d) => Drained(burst[a], metered[a], c.capacity, d.refill)'
      BY <2>8, <2>9 DEF Drained, UpTo
    <3> QED
      BY <3>1, <3>2, <3>3 DEF OwnBucket, LargestBucket
  <2>11. \A x \in Addr \ {a} : burst'[x] = burst[x] /\ metered'[x] = metered[x]
    BY <1>1, <2>1
  <2>12. \A x \in Addr : OwnBucket(x)'
    BY <1>2, <2>10, <2>11
  <2> QED
    BY <1>1, <2>1, <2>5, <2>6, <2>12
<1> QED
    BY <1>3, <1>4

\* The shared window after the fairness gate, configured or not.
LEMMA ShareStep ==
    ASSUME LimiterInv, NEW a, NEW n, NEW span \in Nat \ {0},
           FairnessGate(a, n, span), ledger' = ledger
    PROVE  /\ global' \in Window
           /\ gated' \in [Ledgers -> Nat]
           /\ SharedWindow'
<1>1. /\ global \in Window /\ gated \in [Ledgers -> Nat] /\ ledger \in Ledgers
      /\ Running(gated) /\ Counts(global, gated) /\ Began(global, gated)
    BY DEF LimiterInv, RlTypeOK, SharedWindow
<1>2. ASSUME NEW w, NEW f, global' = w, gated' = f, Running(f), Counts(w, f), Began(w, f)
      PROVE  SharedWindow'
  <2>1. Running(gated)'
    BY <1>2 DEF Running
  <2>2. Counts(global, gated)'
    BY <1>2 DEF Counts, Total, UpTo, Least
  <2>3. Began(global, gated)'
    BY <1>2 DEF Began
  <2> QED
    BY <2>1, <2>2, <2>3 DEF SharedWindow
<1>3. CASE fairConfig = NoConfig
  <2>1. global' = global /\ gated' = gated
    BY <1>3 DEF FairnessGate
  <2> QED
    BY <1>1, <1>2, <2>1
<1>4. CASE fairConfig # NoConfig
  <2>1. global' = Filled(global, span, 1) /\ gated' = Granted(gated, 1)
    BY <1>4 DEF FairnessGate, Filled
  <2>2. Filled(global, span, 1) \in Window
    BY <1>1, WindowCases
  <2>3. Granted(gated, 1) \in [Ledgers -> Nat] /\ Running(Granted(gated, 1))
    BY <1>1, GrantedTotals
  <2>4. /\ Counts(Filled(global, span, 1), Granted(gated, 1))
        /\ Began(Filled(global, span, 1), Granted(gated, 1))
    BY <1>1, WindowGrows
  <2> QED
    BY <1>2, <2>1, <2>2, <2>3, <2>4
<1> QED
    BY <1>3, <1>4

\* What a step that leaves windows, buckets and totals alone preserves.
LEMMA AccountsKept ==
    ASSUME LimiterInv, UNCHANGED <<rlState, burst, global, rlGhosts>>,
           ledger' \in Ledgers, ledger <= ledger'
    PROVE  /\ \A a \in Addr : OwnWindow(a)' /\ OwnBucket(a)'
           /\ SharedWindow'
<1>1. /\ rlState' = rlState /\ burst' = burst /\ global' = global
      /\ admitted' = admitted /\ metered' = metered /\ gated' = gated
    BY DEF rlGhosts
<1>2. \A l \in Ledgers : l \in Nat
    BY ConfigTypes DEF Ledgers
<1>3. /\ ledger \in Ledgers /\ rlState \in [Addr -> Window]
      /\ burst \in [Addr -> Window] /\ global \in Window
    BY DEF LimiterInv, RlTypeOK
<1>4. ASSUME NEW f, Running(f)
      PROVE  /\ \A l, m \in Ledgers : l <= m => f[l] <= f[m]
             /\ \A l \in Ledgers : ledger' <= l => f[l] = f[MaxLedger]
    BY <1>2, <1>3, <1>4 DEF Running
<1>5. ASSUME NEW a \in Addr
      PROVE  OwnWindow(a)'
  <2>1. OwnWindow(a) /\ rlState[a] \in Window
    BY <1>3 DEF LimiterInv
  <2>2. Running(admitted[a])'
    BY <1>1, <1>4, <2>1 DEF OwnWindow, Running
  <2>3. Counts(rlState[a], admitted[a])'
    BY <1>1, <2>1 DEF OwnWindow, Counts, Total, UpTo, Least
  <2>4. Began(rlState[a], admitted[a])'
    BY <1>1, <1>2, <1>3, <2>1 DEF OwnWindow, Began, Window
  <2>5. \A c, d \in Limits :
          LargestLimit(c, d) => Bounded(rlState[a], admitted[a], c.max, d.window)'
    BY <1>1, <2>1 DEF OwnWindow, Bounded, Total, UpTo, Least
  <2> QED
    BY <2>2, <2>3, <2>4, <2>5 DEF OwnWindow, LargestLimit
<1>6. ASSUME NEW a \in Addr
      PROVE  OwnBucket(a)'
  <2>1. OwnBucket(a) /\ burst[a] \in Window
    BY <1>3 DEF LimiterInv
  <2>2. Running(metered[a])'
    BY <1>1, <1>4, <2>1 DEF OwnBucket, Running
  <2>3. Metered(burst[a], metered[a])'
    BY <1>1, <1>2, <1>3, <2>1 DEF OwnBucket, Metered, Window
  <2>4. \A c, d \in BurstLimit :
          LargestBucket(c, d) => Drained(burst[a], metered[a], c.capacity, d.refill)'
    BY <1>1, <2>1 DEF OwnBucket, Drained, UpTo
  <2> QED
    BY <2>2, <2>3, <2>4 DEF OwnBucket, LargestBucket
<1>7. SharedWindow'
  <2>1. SharedWindow
    BY DEF LimiterInv
  <2>2. Running(gated)'
    BY <1>1, <1>4, <2>1 DEF SharedWindow, Running
  <2>3. Counts(global, gated)'
    BY <1>1, <2>1 DEF SharedWindow, Counts, Total, UpTo, Least
  <2>4. Began(global, gated)'
    BY <1>1, <1>2, <1>3, <2>1 DEF SharedWindow, Began, Window
  <2> QED
    BY <2>2, <2>3, <2>4 DEF SharedWindow
<1> QED
    BY <1>5, <1>6, <1>7

\* A single submission: its own window, the burst gate and the fair share.
LEMMA CheckStep ==
    ASSUME LimiterInv, NEW a \in Addr, NEW isAdmin, NEW role \in LimitRole \cup {NoConfig},
           CheckAndIncrement(a, isAdmin, role)
    PROVE  LimiterInv'
<1> DEFINE e == ResolveConfig(a, role)
           w == WindowOf(rlState[a], e.window)
<1>1. RlTypeOK /\ e \in Limits
    BY Judged DEF LimiterInv
<1> HIDE DEF e
<1>2. e.window \in Nat \ {0} /\ e.max \in Nat \ {0}
    BY <1>1, ConfigTypes DEF LimitType
<1>3. CASE isAdmin
  <2>1. UNCHANGED rlVars
    BY <1>3 DEF CheckAndIncrement
  <2>2. UNCHANGED <<rlState, burst, global, rlGhosts>> /\ ledger' = ledger
    BY <2>1 DEF rlVars, rlStore
  <2>3. RlTypeOK'
    BY <1>1, <2>1 DEF RlTypeOK, rlVars, rlStore, rlGhosts
  <2>4. ledger' \in Ledgers /\ ledger <= ledger'
    BY <1>1, <2>2, ConfigTypes DEF RlTypeOK, Ledgers
  <2> QED
    BY <2>2, <2>3, <2>4, AccountsKept DEF LimiterInv
<1>4. CASE ~isAdmin
  <2>1. /\ w.n < e.max
        /\ BurstGate(a)
        /\ FairnessGate(a, w.n, e.window)
        /\ rlState' = [rlState EXCEPT ![a] = Stored(w.n + 1, w.at)]
        /\ admitted' = [admitted EXCEPT ![a] = Granted(admitted[a], 1)]
        /\ UNCHANGED <<ledger, rlConfig, roleLimit, addrLimit, burstConfig, fairConfig>>
    BY <1>4 DEF CheckAndIncrement, e
  <2>2. rlState[a] \in Window /\ ledger \in Nat
    BY <1>1, ConfigTypes DEF RlTypeOK, Ledgers
  <2>3. w.n \in Nat
    BY <2>2, StoredIsWindow DEF WindowOf, Window
  <2>4. w.n + 1 <= e.max
    BY <1>2, <2>1, <2>3
  <2>5. rlState' = [rlState EXCEPT ![a] = Filled(rlState[a], e.window, 1)]
    BY <2>1 DEF Filled
  <2>6. /\ rlState' \in [Addr -> Window]
        /\ admitted' \in [Addr -> [Ledgers -> Nat]]
        /\ \A x \in Addr : OwnWindow(x)'
    <3> DEFINE k == 1
    <3>1. k \in Nat \ {0} /\ ledger' = ledger
      BY <2>1
    <3>2. WindowOf(rlState[a], e.window).n + k <= e.max
      BY <2>4
    <3>3. rlState' = [rlState EXCEPT ![a] = Filled(rlState[a], e.window, k)]
      BY <2>5
    <3>4. admitted' = [admitted EXCEPT ![a] = Granted(admitted[a], k)]
      BY <2>1
    <3> HIDE DEF k
    <3> QED
      BY <1>1, <3>1, <3>2, <3>3, <3>4, AdmitStep
  <2>7. /\ burst' \in [Addr -> Window]
        /\ metered' \in [Addr -> [Ledgers -> Nat]]
        /\ \A x \in Addr : OwnBucket(x)'
    BY <2>1, GateStep
  <2>8. global' \in Window /\ gated' \in [Ledgers -> Nat] /\ SharedWindow'
    BY <1>2, <2>1, ShareStep
  <2>9. RlTypeOK'
    BY <1>1, <2>1, <2>6, <2>7, <2>8 DEF RlTypeOK
  <2> QED
    BY <2>6, <2>7, <2>8, <2>9 DEF LimiterInv
<1> QED
    BY <1>3, <1>4

\* A batch: the global config only, no burst and no fairness gate.
LEMMA BatchStep ==
    ASSUME LimiterInv, NEW a \in Addr, NEW n \in 1..MaxBatch, ConsumeBatch(a, n)
    PROVE  LimiterInv'
<1> DEFINE e == GlobalConfig
           k == n * Multiplier
<1>1. RlTypeOK /\ e \in Limits
    BY Judged DEF LimiterInv
<1>2. k \in Nat \ {0}
  <2>1. n \in Nat /\ n >= 1 /\ Multiplier \in Nat /\ Multiplier >= 1
    BY ConfigTypes
  <2>2. k \in Nat
    BY <2>1
  <2>3. 1 * Multiplier <= n * Multiplier
    <3>1. PICK t \in Nat : n = 1 + t
      <4>1. n - 1 \in Nat /\ n = 1 + (n - 1)
        BY <2>1
      <4> QED
        BY <4>1
    <3>2. n * Multiplier = 1 * Multiplier + t * Multiplier
      BY <2>1, <3>1
    <3>3. t * Multiplier \in Nat
      BY <2>1
    <3> QED
      BY <2>1, <3>2, <3>3
  <2> QED
    BY <2>1, <2>2, <2>3
<1>3. /\ WindowOf(rlState[a], e.window).n + k <= e.max
      /\ rlState' = [rlState EXCEPT ![a] = Filled(rlState[a], e.window, k)]
      /\ admitted' = [admitted EXCEPT ![a] = Granted(admitted[a], k)]
      /\ UNCHANGED <<ledger, rlConfig, roleLimit, addrLimit, burstConfig,
                     burst, fairConfig, global, metered, gated>>
    BY DEF ConsumeBatch, Filled
<1> HIDE DEF e, k
<1>4. ledger' = ledger
    BY <1>3
<1>5. /\ rlState' \in [Addr -> Window]
      /\ admitted' \in [Addr -> [Ledgers -> Nat]]
      /\ \A x \in Addr : OwnWindow(x)'
    BY <1>1, <1>2, <1>3, <1>4, AdmitStep
<1>6. RlTypeOK'
    BY <1>1, <1>3, <1>5 DEF RlTypeOK
<1>7. ASSUME NEW x \in Addr
      PROVE  OwnBucket(x)'
  <2>1. OwnBucket(x) /\ burst' = burst /\ metered' = metered
    BY <1>3 DEF LimiterInv
  <2>2. Running(metered[x])'
    BY <1>4, <2>1 DEF OwnBucket, Running
  <2>3. Metered(burst[x], metered[x])'
    BY <1>4, <2>1 DEF OwnBucket, Metered
  <2>4. \A c, d \in BurstLimit :
          LargestBucket(c, d) => Drained(burst[x], metered[x], c.capacity, d.refill)'
    BY <2>1 DEF OwnBucket, Drained, UpTo
  <2> QED
    BY <2>2, <2>3, <2>4 DEF OwnBucket, LargestBucket
<1>8. SharedWindow'
  <2>1. SharedWindow /\ global' = global /\ gated' = gated
    BY <1>3 DEF LimiterInv
  <2>2. Running(gated)'
    BY <1>4, <2>1 DEF SharedWindow, Running
  <2>3. Counts(global, gated)'
    BY <2>1 DEF SharedWindow, Counts, Total, UpTo, Least
  <2>4. Began(global, gated)'
    BY <1>4, <2>1 DEF SharedWindow, Began
  <2> QED
    BY <2>2, <2>3, <2>4 DEF SharedWindow
<1> QED
    BY <1>5, <1>6, <1>7, <1>8 DEF LimiterInv

\* Every operation of the limiter, and the passing of ledgers, preserves the invariant.
LEMMA LimiterInvStep == LimiterInv /\ [RlNext]_rlVars => LimiterInv'
<1> SUFFICES ASSUME LimiterInv, [RlNext]_rlVars PROVE LimiterInv'
    OBVIOUS
<1>1. RlTypeOK /\ ledger \in Ledgers /\ ledger \in Nat /\ ledger <= ledger
    BY ConfigTypes DEF LimiterInv, RlTypeOK, Ledgers
<1>2. CASE CloseLedger
  <2>1. ledger' \in Ledgers /\ ledger <= ledger'
    BY <1>1, <1>2, ConfigTypes DEF CloseLedger, Ledgers
  <2>2. UNCHANGED <<rlStore, rlGhosts>>
    BY <1>2 DEF CloseLedger
  <2>3. RlTypeOK'
    BY <1>1, <2>1, <2>2 DEF RlTypeOK, rlStore, rlGhosts
  <2>4. UNCHANGED <<rlState, burst, global, rlGhosts>>
    BY <2>2 DEF rlStore
  <2> QED
    BY <2>1, <2>3, <2>4, AccountsKept DEF LimiterInv
<1>3. CASE ConfigureLimits
  <2>1. UNCHANGED <<ledger, rlState, burst, global, rlGhosts>>
    BY <1>3 DEF ConfigureLimits, SetRateLimitConfig, SetRoleRateLimit,
                SetAddressRateLimit, UpdateBurstConfig, UpdateFairnessConfig
  <2>2. /\ rlConfig' \in Limit \cup {NoConfig}
        /\ roleLimit' \in [LimitRole -> Limit \cup {NoConfig}]
        /\ addrLimit' \in [Addr -> Limit \cup {NoConfig}]
        /\ burstConfig' \in BurstLimit \cup {NoConfig}
        /\ fairConfig' \in FairLimit \cup {NoConfig}
    BY <1>1, <1>3 DEF ConfigureLimits, SetRateLimitConfig, SetRoleRateLimit,
                      SetAddressRateLimit, UpdateBurstConfig, UpdateFairnessConfig, RlTypeOK
  <2>3. RlTypeOK'
    BY <1>1, <2>1, <2>2 DEF RlTypeOK, rlGhosts
  <2>4. ledger' \in Ledgers /\ ledger <= ledger'
    BY <1>1, <2>1
  <2> QED
    BY <2>1, <2>3, <2>4, AccountsKept DEF LimiterInv
<1>4. CASE \E a \in Addr : \/ \E role \in LimitRole \cup {NoConfig} :
                                CheckAndIncrement(a, FALSE, role)
                           \/ \E n \in 1..MaxBatch : ConsumeBatch(a, n)
    BY <1>4, CheckStep, BatchStep
<1>5. CASE UNCHANGED rlVars
  <2>1. UNCHANGED <<rlState, burst, global, rlGhosts>> /\ ledger' = ledger
    BY <1>5 DEF rlVars, rlStore
  <2>2. RlTypeOK'
    BY <1>1, <1>5 DEF RlTypeOK, rlVars, rlStore, rlGhosts
  <2> QED
    BY <1>1, <2>1, <2>2, AccountsKept DEF LimiterInv
<1> QED
    BY <1>2, <1>3, <1>4, <1>5 DEF RlNext

\* LimiterInv holds throughout.
LEMMA LimiterInvariant == RlSpec => []LimiterInv
BY LimiterInvInit, LimiterInvStep, PTL DEF RlSpec

\* Whatever limits, role and address overrides, bucket and fair-share configs an
\* admin stores, in whatever order, and however single and batch submissions mix:
\* an attestor's window and the shared window count what was let pass since they
\* began, no span of ledgers as long as the shortest window admits twice the largest
\* limit, and no span lets more through a burst gate than a full bucket and its
\* refill (src/rate_limiter.rs; the batch accounting of src/contract.rs).
THEOREM LimiterBoundsHold == RlSpec => []LimiterBounds
<1>1. LimiterInv => LimiterBounds
  <2> SUFFICES ASSUME LimiterInv PROVE LimiterBounds
      OBVIOUS
  <2>1. RlTypeOK
    BY DEF LimiterInv
  <2>2. WindowCountsAdmissions /\ SharedWindowCounts
    BY DEF LimiterInv, OwnWindow, SharedWindow, WindowCountsAdmissions, SharedWindowCounts
  <2>3. WindowBound
    BY DEF LimiterInv, OwnWindow, Bounded, LargestLimit, WindowBound
  <2>4. BurstBound
    <3>1. ASSUME NEW m \in Ledgers
          PROVE  Least(m, MaxLedger) = m
      BY ConfigTypes DEF Least, Ledgers
    <3> QED
      BY <3>1 DEF LimiterInv, OwnBucket, Drained, LargestBucket, BurstBound, Total
  <2> QED
    BY <2>1, <2>2, <2>3, <2>4 DEF LimiterBounds
<1> QED
    BY <1>1, LimiterInvariant, PTL

-----------------------------------------------------------------------------
(* The attestation store *)

\* The payloads attested in a session are finitely many, and its nonce counts them.
RequestsCounted ==
    \A s \in SessionId :
        /\ IsFiniteSet({h \in Hash : <<s, h>> \in sessReq})
        /\ Cardinality({h \in Hash : <<s, h>> \in sessReq}) = sessions[s].nonce

AttInv ==
    /\ AttTypeOK
    /\ calls \in Nat
    /\ IndexMatchesStore
    /\ UsedMatchesStore
    /\ NoReplayAcrossCalls
    /\ RequestsCounted

Attestation == [issuer : Addr, hash : Hash, key : Key, call : Nat]
BatchEntry == [issuer : Addr, hash : Hash, sig : Key]

-----------------------------------------------------------------------------
(* Extrema of sets of naturals *)

-----------------------------------------------------------------------------
(* The parts that other specifications describe *)

\* The gate on the KYC status only restricts the plain path: a submission takes one of
\* three paths.
LEMMA SubmitCases ==
    ASSUME SubmitCall
    PROVE  \/ \E issuer \in Addr, h \in Hash, sig \in Key, isAdmin \in BOOLEAN,
                role \in LimitRole \cup {NoConfig} :
                SubmitAttestation(issuer, h, sig, isAdmin, role)
           \/ \E s \in SessionId, issuer \in Addr, h \in Hash, sig \in Key,
                isAdmin \in BOOLEAN, role \in LimitRole \cup {NoConfig} :
                SubmitAttestationWithSession(s, issuer, h, sig, isAdmin, role)
           \/ \E caller \in Addr, entries \in BatchEntries :
                SubmitAttestationBatch(caller, entries)
    BY DEF SubmitCall, SubmitAttestationKycCheck

\* Every step is a step of Sessions or leaves the sessions alone.
LEMMA AttSessionsStep == [AttNext]_allVars => [SessNext]_sessVars
<1> SUFFICES ASSUME [AttNext]_allVars PROVE [SessNext]_sessVars
    OBVIOUS
<1>1. CASE SubmitCall
  <2>1. ASSUME NEW issuer \in Addr, NEW s \in SessionId, SessionOp(s, issuer, "attest")
        PROVE  SessNext
      BY <2>1, AttestationConstants DEF AttestationConstants, SessNext
  <2>2. ASSUME NEW issuer \in Addr, NEW h \in Hash, NEW sig \in Key,
               NEW isAdmin \in BOOLEAN, NEW role \in LimitRole \cup {NoConfig},
               SubmitAttestation(issuer, h, sig, isAdmin, role)
        PROVE  UNCHANGED sessVars
      BY <2>2 DEF SubmitAttestation
  <2>3. ASSUME NEW caller \in Addr, NEW entries \in BatchEntries,
               SubmitAttestationBatch(caller, entries)
        PROVE  UNCHANGED sessVars
      BY <2>3 DEF SubmitAttestationBatch
  <2>4. ASSUME NEW s \in SessionId, NEW issuer \in Addr, NEW h \in Hash, NEW sig \in Key,
               NEW isAdmin \in BOOLEAN, NEW role \in LimitRole \cup {NoConfig},
               SubmitAttestationWithSession(s, issuer, h, sig, isAdmin, role)
        PROVE  SessNext
      BY <2>1, <2>4 DEF SubmitAttestationWithSession
  <2> QED
      BY <1>1, <2>2, <2>3, <2>4 DEF SubmitCall, SubmitAttestationKycCheck
<1>2. CASE RegistryStep
    BY <1>2 DEF RegistryStep, SessNext
<1>3. CASE SessionUserCall \/ SessionAdminCall
    BY <1>3 DEF SessNext
<1>4. CASE (CloseLedger \/ ConfigureLimits) /\ UNCHANGED <<pubkey, sessVars, attVars>>
    BY <1>4
<1>5. CASE UNCHANGED allVars
    BY <1>5 DEF allVars
<1> QED
    BY <1>1, <1>2, <1>3, <1>4, <1>5 DEF AttNext

\* The composed system implements Sessions: what the theorems of SessionsProofs say
\* holds with submissions, the limiter and the registry around the sessions.
THEOREM AttestationsImplementSessions == AttSpec => SessSpec
<1>1. AttInit => SessInit
    BY DEF AttInit
<1> QED
    BY <1>1, AttSessionsStep, PTL DEF AttSpec, SessSpec

\* Every step is a step of the abstract registry or leaves the keys alone.
LEMMA AttKeysStep == [AttNext]_allVars => [KeysNext]_pubkey
<1> SUFFICES ASSUME [AttNext]_allVars PROVE KeysNext \/ UNCHANGED pubkey
    OBVIOUS
<1>1. ASSUME SubmitCall PROVE UNCHANGED pubkey
    BY <1>1, SubmitCases
    DEF SubmitAttestation, SubmitAttestationWithSession, SubmitAttestationBatch
<1>2. ASSUME RegistryStep PROVE KeysNext
    BY <1>2 DEF RegistryStep
<1> QED
    BY <1>1, <1>2 DEF AttNext, allVars

\* No submission path touches a signing key: the composed system implements the abstract
\* registry it relies on.
THEOREM AttestationsImplementKeys == AttSpec => KeysSpec
<1>1. AttInit => KeysInit
    BY DEF AttInit
<1> QED
    BY <1>1, AttKeysStep, PTL DEF AttSpec, KeysSpec

\* A batch is a sequence of entries, within its limit and not empty.
LEMMA BatchIsSequence ==
    ASSUME NEW entries \in BatchEntries
    PROVE  entries \in Seq(BatchEntry) /\ Len(entries) > 0 /\ Len(entries) \in 1..MaxBatch
<1>1. PICK n \in 1..MaxBatch : entries \in [1..n -> BatchEntry]
    BY DEF BatchEntries, BatchEntry
<1>2. n \in Nat /\ n > 0
    BY LimiterConstants DEF LimiterConstants
<1>3. entries \in Seq(BatchEntry)
    BY <1>1, <1>2, SeqDef
<1>4. DOMAIN entries = 1..n /\ DOMAIN entries = 1..Len(entries) /\ Len(entries) \in Nat
    BY <1>1, <1>3, LenProperties
<1> QED
    BY <1>2, <1>3, <1>4

\* Every step is a step of the rate limiter or leaves it alone.
LEMMA AttLimiterStep == [AttNext]_allVars => [RlNext]_rlVars
<1> SUFFICES ASSUME [AttNext]_allVars PROVE [RlNext]_rlVars
    OBVIOUS
<1>1. ASSUME NEW a \in Addr, NEW isAdmin \in BOOLEAN, NEW role \in LimitRole \cup {NoConfig},
             CheckAndIncrement(a, isAdmin, role)
      PROVE  [RlNext]_rlVars
  <2>1. CASE isAdmin
      BY <1>1, <2>1 DEF CheckAndIncrement
  <2>2. CASE ~isAdmin
    <3>1. isAdmin = FALSE
        BY <2>2
    <3>2. CheckAndIncrement(a, FALSE, role)
        BY <1>1, <3>1
    <3> QED
        BY <3>2 DEF RlNext
  <2> QED
      BY <2>1, <2>2
<1>2. ASSUME NEW caller \in Addr, NEW entries \in BatchEntries,
             SubmitAttestationBatch(caller, entries)
      PROVE  RlNext
  <2>1. ConsumeBatch(caller, Len(entries))
      BY <1>2 DEF SubmitAttestationBatch
  <2>2. Len(entries) \in 1..MaxBatch
      BY BatchIsSequence
  <2> QED
      BY <2>1, <2>2 DEF RlNext
<1>3. CASE SubmitCall
    BY <1>1, <1>2, <1>3, SubmitCases DEF SubmitAttestation, SubmitAttestationWithSession
<1>4. CASE RegistryStep
    BY <1>4 DEF RegistryStep
<1>5. CASE (SessionUserCall \/ SessionAdminCall) /\ UNCHANGED <<pubkey, rlVars, attVars>>
    BY <1>5
<1>6. CASE CloseLedger \/ ConfigureLimits
    BY <1>6 DEF RlNext
<1>7. CASE UNCHANGED allVars
    BY <1>7 DEF allVars
<1> QED
    BY <1>3, <1>4, <1>5, <1>6, <1>7 DEF AttNext

\* Every submission path consults the limiter as src/rate_limiter.rs means it to be
\* used: the composed system implements it, the admin's unlimited submissions included.
THEOREM AttestationsImplementLimiter == AttSpec => RlSpec
<1>1. AttInit => RlInit
    BY DEF AttInit
<1> QED
    BY <1>1, AttLimiterStep, PTL DEF AttSpec, RlSpec

\* So the windows, the shared window and the buckets bound and count what the
\* submission paths of src/contract.rs let through, sessions and batches included.
THEOREM SubmissionsAreLimited == AttSpec => []LimiterBounds
BY AttestationsImplementLimiter, LimiterBoundsHold, PTL

-----------------------------------------------------------------------------
(* The stores *)

\* What store_attestation does to the counter and to the list of attestations.
LEMMA AppendedRecords ==
    ASSUME AttInv, NEW entries \in Seq(BatchEntry), StoreAll(entries)
    PROVE  /\ counter' = counter + Len(entries)
           /\ counter' \in 0..MaxId
           /\ calls' \in Nat
           /\ attestations' \in Seq(Attestation)
           /\ Len(attestations') = counter'
           /\ \A i \in 1..counter : attestations'[i] = attestations[i]
           /\ \A i \in 1..Len(entries) :
                attestations'[counter + i] = [issuer |-> entries[i].issuer,
                                              hash |-> entries[i].hash,
                                              key |-> entries[i].sig,
                                              call |-> calls]
<1> DEFINE n == Len(entries)
           rec == [i \in 1..n |-> [issuer |-> entries[i].issuer, hash |-> entries[i].hash,
                                   key |-> entries[i].sig, call |-> calls]]
<1>1. n \in Nat /\ \A i \in 1..n : entries[i] \in BatchEntry
    BY LenProperties, ElementOfSeq
<1>2. counter \in Nat /\ Len(attestations) = counter /\ calls \in Nat /\ MaxId \in Nat
    BY AttestationConstants DEF AttestationConstants, AttInv, AttTypeOK, IndexMatchesStore
<1>3. attestations \in Seq(Attestation)
    BY DEF AttInv, AttTypeOK, Attestation
<1>4. rec \in [1..n -> Attestation]
    BY <1>1, <1>2 DEF BatchEntry, Attestation
<1>5. rec \in Seq(Attestation)
  <2> HIDE DEF rec, n
  <2> QED
      BY <1>1, <1>4, SeqDef
<1>6. Len(rec) = n
  <2>1. DOMAIN rec = 1..n /\ DOMAIN rec = 1..Len(rec) /\ Len(rec) \in Nat
    <3>1. DOMAIN rec = 1..n
        OBVIOUS
    <3> HIDE DEF rec, n
    <3> QED
        BY <1>5, <3>1, LenProperties
  <2> HIDE DEF rec, n
  <2> QED
      BY <1>1, <2>1
<1>7. counter' = counter + n /\ counter + n <= MaxId /\ calls' = calls + 1
    BY DEF StoreAll, NextAttestationIds
<1>8. attestations' = attestations \o rec
    BY DEF StoreAll
<1>9. \A i \in 1..n : rec[i] = [issuer |-> entries[i].issuer, hash |-> entries[i].hash,
                                key |-> entries[i].sig, call |-> calls]
    OBVIOUS
<1> HIDE DEF rec, n
<1>10. /\ attestations' \in Seq(Attestation)
       /\ Len(attestations') = counter + n
       /\ \A i \in 1..counter + n :
            attestations'[i] = IF i <= counter THEN attestations[i] ELSE rec[i - counter]
    BY <1>2, <1>3, <1>5, <1>6, <1>8, ConcatProperties
<1>11. \A i \in 1..counter : attestations'[i] = attestations[i]
    BY <1>1, <1>2, <1>10
<1>12. \A i \in 1..n : attestations'[counter + i] = rec[i]
    BY <1>1, <1>2, <1>10
<1> QED
    BY <1>1, <1>2, <1>7, <1>9, <1>10, <1>11, <1>12 DEF n

\* The ATIDX index grows by the ids of the call.
LEMMA AppendedIds ==
    ASSUME AttInv, NEW entries \in Seq(BatchEntry), StoreAll(entries)
    PROVE  idIndex' \in Seq(Nat) /\ idIndex' = [i \in 1..counter' |-> i - 1]
<1> DEFINE n == Len(entries)
           ids == [i \in 1..n |-> counter + i - 1]
<1>1. n \in Nat /\ counter \in Nat /\ counter' = counter + n
    BY LenProperties DEF AttInv, AttTypeOK, StoreAll, NextAttestationIds
<1>2. ids \in [1..n -> Nat]
    BY <1>1
<1>3. DOMAIN ids = 1..n
    OBVIOUS
<1>4. idIndex' = idIndex \o ids
    BY DEF StoreAll
<1>5. \A i \in 1..n : ids[i] = counter + i - 1
    OBVIOUS
<1> HIDE DEF ids, n
<1>6. ids \in Seq(Nat)
    BY <1>1, <1>2, SeqDef
<1>7. Len(ids) = n
  <2>1. Len(ids) \in Nat /\ DOMAIN ids = 1..Len(ids)
      BY <1>6, LenProperties
  <2> QED
      BY <1>1, <1>3, <2>1
<1>8. idIndex \in Seq(Nat) /\ idIndex = [i \in 1..counter |-> i - 1]
    BY DEF AttInv, AttTypeOK, IndexMatchesStore
<1>9. Len(idIndex) = counter
  <2>1. Len(idIndex) \in Nat /\ DOMAIN idIndex = 1..Len(idIndex)
      BY <1>8, LenProperties
  <2> QED
      BY <1>1, <1>8, <2>1
<1>10. /\ idIndex' \in Seq(Nat)
       /\ Len(idIndex') = counter + n
       /\ \A i \in 1..counter + n :
            idIndex'[i] = IF i <= counter THEN idIndex[i] ELSE ids[i - counter]
  <2>1. idIndex \in Seq(Nat) /\ idIndex' = idIndex \o ids
      BY <1>4, <1>8
  <2> QED
      BY ONLY <1>6, <1>7, <1>9, <2>1, ConcatProperties
<1>11. ASSUME NEW i \in 1..counter' PROVE idIndex'[i] = i - 1
  <2>1. CASE i <= counter
      BY <1>1, <1>8, <1>10, <2>1
  <2>2. CASE i > counter
    <3>1. i - counter \in 1..n
        BY <1>1, <2>2
    <3>2. ids[i - counter] = i - 1
        BY <1>1, <1>5, <3>1
    <3> QED
        BY <1>1, <1>10, <2>2, <3>2
  <2> QED
      BY <1>1, <2>1, <2>2
<1>12. idIndex' \in [1..counter' -> Nat]
    BY <1>1, <1>10, LenProperties
<1>13. idIndex' \in Seq(Nat)
    BY <1>10
<1>14. idIndex' = [i \in 1..counter' |-> i - 1]
    BY ONLY <1>11, <1>12
<1> QED
    BY ONLY <1>13, <1>14

\* The USED key of a pair the call names holds the id of its last entry for that pair,
\* the keys of other pairs keep what they hold.
LEMMA MarkedKeys ==
    ASSUME AttInv, NEW entries \in Seq(BatchEntry), StoreAll(entries)
    PROVE  /\ used' \in [Addr -> [Hash -> Nat \cup {NoId}]]
           /\ \A a \in Addr, h \in Hash :
                \/ Positions(entries, a, h) = {} /\ used'[a][h] = used[a][h]
                \/ \E m \in Positions(entries, a, h) : used'[a][h] = counter + m - 1
<1> DEFINE P(a, h) == Positions(entries, a, h)
           id(a, h) == IF P(a, h) = {} THEN used[a][h] ELSE counter + Max(P(a, h)) - 1
<1>1. /\ Len(entries) \in Nat
      /\ counter \in Nat
      /\ used \in [Addr -> [Hash -> Nat \cup {NoId}]]
    BY LenProperties DEF AttInv, AttTypeOK
<1>2. used' = [a \in Addr |-> [h \in Hash |-> id(a, h)]]
    BY DEF StoreAll, MarkUsed
<1>3. ASSUME NEW a \in Addr, NEW h \in Hash, P(a, h) # {}
      PROVE  Max(P(a, h)) \in P(a, h) /\ counter + Max(P(a, h)) - 1 \in Nat
  <2>1. P(a, h) \in SUBSET (1..Len(entries))
      BY DEF Positions
  <2>2. Max(P(a, h)) \in P(a, h)
    <3> HIDE DEF P
    <3> QED
        BY <1>1, <1>3, <2>1, MaxIsMember
  <2>3. Max(P(a, h)) \in 1..Len(entries)
      BY <2>1, <2>2
  <2> QED
      BY <1>1, <2>2, <2>3
<1>4. \A a \in Addr, h \in Hash : id(a, h) \in Nat \cup {NoId}
  <2> SUFFICES ASSUME NEW a \in Addr, NEW h \in Hash PROVE id(a, h) \in Nat \cup {NoId}
      OBVIOUS
  <2>1. used[a][h] \in Nat \cup {NoId}
      BY <1>1
  <2> HIDE DEF P
  <2> QED
      BY <1>3, <2>1
<1>5. \A a \in Addr, h \in Hash : used'[a][h] = id(a, h)
  <2> HIDE DEF id
  <2> QED
      BY <1>2
<1>6. used' \in [Addr -> [Hash -> Nat \cup {NoId}]]
  <2> HIDE DEF id
  <2> QED
      BY <1>2, <1>4
<1>7. ASSUME NEW a \in Addr, NEW h \in Hash
      PROVE  \/ P(a, h) = {} /\ used'[a][h] = used[a][h]
             \/ \E m \in P(a, h) : used'[a][h] = counter + m - 1
  <2> HIDE DEF P
  <2> QED
      BY <1>3, <1>5
<1> QED
    BY <1>6, <1>7

\* A call that stores entries whose pairs are all fresh keeps ids, keys and records in
\* step, and gives no earlier pair a second call.
LEMMA StoreAllStep ==
    ASSUME AttInv, NEW entries \in Seq(BatchEntry), Len(entries) > 0, StoreAll(entries),
           \A i \in 1..Len(entries) : Fresh(entries[i].issuer, entries[i].hash)
    PROVE  UsedMatchesStore' /\ NoReplayAcrossCalls'
<1> DEFINE n == Len(entries)
<1>1. /\ n \in Nat
      /\ \A i \in 1..n : /\ entries[i] \in BatchEntry
                         /\ entries[i].issuer \in Addr
                         /\ entries[i].hash \in Hash
  <2>1. n \in Nat /\ \A i \in 1..n : entries[i] \in BatchEntry
      BY LenProperties, ElementOfSeq
  <2> QED
      BY <2>1 DEF BatchEntry
<1>2. /\ counter \in Nat
      /\ Len(attestations) = counter
      /\ \A i \in 1..counter : /\ attestations[i].issuer \in Addr
                               /\ attestations[i].hash \in Hash
  <2>1. attestations \in Seq(Attestation) /\ counter \in Nat /\ Len(attestations) = counter
      BY DEF AttInv, AttTypeOK, IndexMatchesStore, Attestation
  <2>2. \A i \in 1..counter : attestations[i] \in Attestation
      BY <2>1, ElementOfSeq
  <2> QED
      BY <2>1, <2>2 DEF Attestation
<1>3. /\ counter' = counter + n
      /\ Len(attestations') = counter'
      /\ \A i \in 1..counter : attestations'[i] = attestations[i]
      /\ \A i \in 1..n : /\ attestations'[counter + i].issuer = entries[i].issuer
                         /\ attestations'[counter + i].hash = entries[i].hash
                         /\ attestations'[counter + i].call = calls
  <2>1. /\ counter' = counter + n
        /\ Len(attestations') = counter'
        /\ \A i \in 1..counter : attestations'[i] = attestations[i]
        /\ \A i \in 1..n :
             attestations'[counter + i] = [issuer |-> entries[i].issuer,
                                           hash |-> entries[i].hash,
                                           key |-> entries[i].sig, call |-> calls]
      BY AppendedRecords
  <2>2. ASSUME NEW i \in 1..n
        PROVE  /\ attestations'[counter + i].issuer = entries[i].issuer
               /\ attestations'[counter + i].hash = entries[i].hash
               /\ attestations'[counter + i].call = calls
    <3>1. attestations'[counter + i] = [issuer |-> entries[i].issuer, hash |-> entries[i].hash,
                                        key |-> entries[i].sig, call |-> calls]
        BY <2>1
    <3> QED
        BY ONLY <3>1
  <2> HIDE DEF n
  <2> QED
      BY <2>1, <2>2
<1>4. /\ used \in [Addr -> [Hash -> Nat \cup {NoId}]]
      /\ used' \in [Addr -> [Hash -> Nat \cup {NoId}]]
      /\ \A a \in Addr, h \in Hash :
           \/ Positions(entries, a, h) = {} /\ used'[a][h] = used[a][h]
           \/ \E m \in Positions(entries, a, h) : used'[a][h] = counter + m - 1
    BY MarkedKeys DEF AttInv, AttTypeOK
<1>5. NoId \notin Nat
    BY AttestationConstants DEF AttestationConstants
<1>6. ASSUME NEW k \in 1..counter
      PROVE  used[attestations[k].issuer][attestations[k].hash] # NoId
    BY <1>2, <1>6 DEF AttInv, UsedMatchesStore
<1>7. \A k \in 1..n : used[entries[k].issuer][entries[k].hash] = NoId
    BY DEF Fresh
<1>8. ASSUME NEW i \in 1..counter'
      PROVE  \/ i \in 1..counter
             \/ i - counter \in 1..n /\ i = counter + (i - counter)
    BY <1>1, <1>2, <1>3
<1> HIDE DEF n
<1>9. ASSUME NEW a \in Addr, NEW h \in Hash, used'[a][h] # NoId
      PROVE  /\ used'[a][h] < counter'
             /\ attestations'[used'[a][h] + 1].issuer = a
             /\ attestations'[used'[a][h] + 1].hash = h
  <2>1. CASE used'[a][h] = used[a][h]
    <3>1. /\ used[a][h] \in Nat
          /\ used[a][h] < counter
          /\ attestations[used[a][h] + 1].issuer = a
          /\ attestations[used[a][h] + 1].hash = h
        BY <1>4, <1>9, <2>1 DEF AttInv, UsedMatchesStore
    <3>2. used[a][h] + 1 \in 1..counter
        BY <1>2, <3>1
    <3> QED
        BY <1>1, <1>2, <1>3, <2>1, <3>1, <3>2
  <2>2. ASSUME NEW m \in Positions(entries, a, h), used'[a][h] = counter + m - 1
        PROVE  /\ used'[a][h] < counter'
               /\ attestations'[used'[a][h] + 1].issuer = a
               /\ attestations'[used'[a][h] + 1].hash = h
    <3>1. m \in 1..n /\ entries[m].issuer = a /\ entries[m].hash = h
        BY DEF Positions, n
    <3>2. used'[a][h] + 1 = counter + m /\ used'[a][h] < counter'
        BY <1>1, <1>2, <1>3, <2>2, <3>1
    <3> QED
        BY <1>3, <3>1, <3>2
  <2> QED
      BY <1>4, <2>1, <2>2
<1>10. ASSUME NEW i \in 1..counter'
       PROVE  used'[attestations'[i].issuer][attestations'[i].hash] # NoId
  <2>1. CASE i \in 1..counter
    <3> DEFINE a == attestations[i].issuer
               h == attestations[i].hash
    <3>1. a \in Addr /\ h \in Hash /\ used[a][h] # NoId
        BY <1>2, <1>6, <2>1
    <3>2. attestations'[i] = attestations[i]
        BY <1>3, <2>1
    <3>3. used'[a][h] = used[a][h] \/ used'[a][h] \in Nat
      <4> HIDE DEF a, h
      <4>1. ASSUME NEW m \in Positions(entries, a, h) PROVE counter + m - 1 \in Nat
          BY <1>1, <1>2 DEF Positions, n
      <4> QED
          BY <1>4, <3>1, <4>1
    <3> QED
        BY <1>5, <3>1, <3>2, <3>3
  <2>2. CASE i - counter \in 1..n /\ i = counter + (i - counter)
    <3> DEFINE k == i - counter
    <3>1. /\ k \in 1..n
          /\ attestations'[i].issuer = entries[k].issuer
          /\ attestations'[i].hash = entries[k].hash
        BY <1>3, <2>2
    <3> HIDE DEF k
    <3>2. entries[k].issuer \in Addr /\ entries[k].hash \in Hash
        BY <1>1, <3>1
    <3>3. k \in Positions(entries, entries[k].issuer, entries[k].hash)
        BY <3>1 DEF Positions, n
    <3>4. PICK m \in Positions(entries, entries[k].issuer, entries[k].hash) :
            used'[entries[k].issuer][entries[k].hash] = counter + m - 1
        BY <1>4, <3>2, <3>3
    <3>5. counter + m - 1 \in Nat
        BY <1>1, <1>2 DEF Positions, n
    <3> QED
        BY <1>5, <3>1, <3>4, <3>5
  <2> QED
      BY <1>8, <2>1, <2>2
<1>11. UsedMatchesStore'
    BY <1>3, <1>9, <1>10 DEF UsedMatchesStore
<1>12. ASSUME NEW i \in 1..counter', NEW j \in 1..counter',
              attestations'[i].issuer = attestations'[j].issuer,
              attestations'[i].hash = attestations'[j].hash
       PROVE  attestations'[i].call = attestations'[j].call
  <2>1. CASE i \in 1..counter /\ j \in 1..counter
    <3>1. attestations[i].call = attestations[j].call
        BY <1>2, <1>3, <1>12, <2>1 DEF AttInv, NoReplayAcrossCalls
    <3> QED
        BY <1>3, <2>1, <3>1
  <2>2. CASE i - counter \in 1..n /\ j - counter \in 1..n
    <3>1. i = counter + (i - counter) /\ j = counter + (j - counter)
        BY <1>2, <1>3, <1>1
    <3>2. attestations'[i].call = calls /\ attestations'[j].call = calls
        BY <1>3, <2>2, <3>1
    <3> QED
        BY <3>2
  <2>3. ASSUME NEW k \in 1..counter, NEW l \in 1..n,
               attestations'[k].issuer = attestations'[counter + l].issuer,
               attestations'[k].hash = attestations'[counter + l].hash
        PROVE  FALSE
    <3>1. /\ attestations[k].issuer = entries[l].issuer
          /\ attestations[k].hash = entries[l].hash
        BY <1>3, <2>3
    <3> QED
        BY <1>6, <1>7, <3>1 DEF n
  <2> QED
      BY <1>8, <1>12, <2>1, <2>2, <2>3
<1> QED
    BY <1>3, <1>11, <1>12 DEF NoReplayAcrossCalls

-----------------------------------------------------------------------------
(* Requests of a session *)

\* A step that writes no SESSREQ key and moves no nonce keeps the two in step.
LEMMA RequestsKept ==
    ASSUME RequestsCounted, sessReq' = sessReq,
           \A s \in SessionId : sessions'[s].nonce = sessions[s].nonce
    PROVE  RequestsCounted'
    BY DEF RequestsCounted

\* Only an attestation moves a nonce; the one CreateSession writes was 0 before, since
\* the session had not been used.
LEMMA NonceKept ==
    ASSUME SessInv,
           \/ SessionUserCall
           \/ SessionAdminCall
           \/ UNCHANGED sessVars
           \/ \E s \in SessionId, a \in Addr, kind \in Kinds \ {"attest"} : SessionOp(s, a, kind)
    PROVE  \A s \in SessionId : sessions'[s].nonce = sessions[s].nonce
<1> USE SessionConstants DEF SessionConstants
<1>0. /\ sessions \in [SessionId -> Session]
      /\ \A t \in SessionId : sessions[t].nonce \in Nat /\ opCount[t] \in Nat
    BY DEF SessInv, SessTypeOK, Session
<1>1. ASSUME NEW s \in SessionId, NEW a \in Addr, NEW kind \in Kinds \ {"attest"},
             SessionOp(s, a, kind), NEW t \in SessionId
      PROVE  sessions'[t].nonce = sessions[t].nonce
    BY <1>0, <1>1 DEF SessionOp, Session
<1>2. ASSUME NEW a \in Addr, CreateSession(a), NEW t \in SessionId
      PROVE  sessions'[t].nonce = sessions[t].nonce
  <2>1. nextSession \in SessionId /\ nextSession \in Nat
      BY <1>2 DEF CreateSession, SessInv, SessTypeOK, SessionId
  <2>2. sessions[nextSession].state = "Absent"
      BY <2>1 DEF SessInv, StateMatchesOps
  <2>3. sessions[nextSession].nonce = 0
      BY <1>0, <2>1, <2>2 DEF SessInv, StateMatchesOps
  <2> QED
      BY <1>0, <1>2, <2>1, <2>3 DEF CreateSession
<1>3. ASSUME NEW s \in SessionId, NEW a \in Addr, CloseSession(s, a), NEW t \in SessionId
      PROVE  sessions'[t].nonce = sessions[t].nonce
    BY <1>0, <1>3 DEF CloseSession, Session
<1>4. ASSUME UNCHANGED sessions PROVE \A t \in SessionId : sessions'[t].nonce = sessions[t].nonce
    BY <1>4
<1>5. CASE SessionUserCall
    BY <1>2, <1>3, <1>4, <1>5
    DEF SessionUserCall, Tick, CloseExpiredSession, RejectOperation, Abort, GetAuditLogCount,
        sessStore
<1>6. CASE SessionAdminCall
    BY <1>4, <1>6
    DEF SessionAdminCall, PruneAuditLogs, SetAuditLogRetention, SetAutoPruneThreshold
<1>7. CASE UNCHANGED sessVars
    BY <1>4, <1>7 DEF sessVars, sessStore
<1> QED
    BY <1>1, <1>5, <1>6, <1>7

\* An attestation in a session adds one request to it and moves its nonce by one.
LEMMA RequestStep ==
    ASSUME SessInv, RequestsCounted,
           NEW s \in SessionId, NEW a \in Addr, NEW h \in Hash,
           SessionOp(s, a, "attest"), FirstRequest(s, h)
    PROVE  RequestsCounted'
<1> DEFINE R(t) == {g \in Hash : <<t, g>> \in sessReq}
<1>1. /\ sessions \in [SessionId -> Session]
      /\ \A t \in SessionId : sessions[t].nonce \in Nat
    BY DEF SessInv, SessTypeOK, Session
<1>2. \A t \in SessionId :
         sessions'[t].nonce = IF t = s THEN sessions[t].nonce + 1 ELSE sessions[t].nonce
    BY <1>1 DEF SessionOp, Session
<1>3. \A t \in SessionId : IsFiniteSet(R(t)) /\ Cardinality(R(t)) = sessions[t].nonce
    BY DEF RequestsCounted
<1>4. h \notin R(s) /\ R(s)' = R(s) \cup {h}
    BY DEF FirstRequest
<1>5. \A t \in SessionId : t # s => R(t)' = R(t)
    BY DEF FirstRequest
<1>6. IsFiniteSet(R(s)') /\ Cardinality(R(s)') = Cardinality(R(s)) + 1
  <2> HIDE DEF R
  <2> QED
      BY <1>3, <1>4, FS_AddElement
<1>7. \A t \in SessionId :
         IsFiniteSet(R(t)') /\ Cardinality(R(t)') = sessions'[t].nonce
  <2> SUFFICES ASSUME NEW t \in SessionId
               PROVE  IsFiniteSet(R(t)') /\ Cardinality(R(t)') = sessions'[t].nonce
      OBVIOUS
  <2>1. CASE t = s
    <3> HIDE DEF R
    <3> QED
        BY <1>2, <1>3, <1>6, <2>1
  <2>2. CASE t # s
    <3> HIDE DEF R
    <3> QED
        BY <1>2, <1>3, <1>5, <2>2
  <2> QED
      BY <2>1, <2>2
<1> QED
    BY <1>7 DEF RequestsCounted

-----------------------------------------------------------------------------
(* The inductive invariant *)

\* The initial storage satisfies the invariant.
LEMMA AttInvInit == AttInit => AttInv
<1> SUFFICES ASSUME AttInit PROVE AttInv
    OBVIOUS
<1> USE AttestationConstants DEF AttestationConstants, AttInit
<1>1. AttTypeOK /\ calls \in Nat
    BY DEF AttTypeOK
<1>2. IndexMatchesStore
    BY DEF IndexMatchesStore
<1>3. UsedMatchesStore /\ NoReplayAcrossCalls
    BY DEF UsedMatchesStore, NoReplayAcrossCalls
<1>4. RequestsCounted
  <2>1. \A s \in SessionId : {h \in Hash : <<s, h>> \in sessReq} = {}
      OBVIOUS
  <2>2. \A s \in SessionId : sessions[s].nonce = 0
      BY DEF SessInit
  <2> QED
      BY <2>1, <2>2, FS_EmptySet DEF RequestsCounted
<1> QED
    BY <1>1, <1>2, <1>3, <1>4 DEF AttInv

\* What every submission path does once its checks have passed.
LEMMA SubmissionStep ==
    ASSUME AttInv, NEW entries \in Seq(BatchEntry), Len(entries) > 0, StoreAll(entries),
           \A i \in 1..Len(entries) : Fresh(entries[i].issuer, entries[i].hash),
           accepted' = accepted \/ CountAccepted,
           sessReq' \subseteq SessionId \X Hash,
           RequestsCounted'
    PROVE  AttInv'
<1>1. Len(entries) \in Nat /\ accepted \in Nat /\ counter \in Nat /\ accepted <= counter
    BY LenProperties DEF AttInv, AttTypeOK, IndexMatchesStore
<1>2. /\ counter' = counter + Len(entries)
      /\ counter' \in 0..MaxId
      /\ calls' \in Nat
      /\ attestations' \in Seq(Attestation)
      /\ Len(attestations') = counter'
    BY AppendedRecords
<1>3. accepted' \in Nat /\ accepted' <= counter'
    BY <1>1, <1>2 DEF CountAccepted
<1>4. idIndex' \in Seq(Nat) /\ idIndex' = [i \in 1..counter' |-> i - 1]
    BY AppendedIds
<1>5. used' \in [Addr -> [Hash -> Nat \cup {NoId}]]
    BY MarkedKeys
<1>6. AttTypeOK'
    BY <1>2, <1>3, <1>4, <1>5 DEF AttTypeOK, Attestation
<1>7. IndexMatchesStore'
    BY <1>2, <1>3, <1>4 DEF IndexMatchesStore
<1>8. UsedMatchesStore' /\ NoReplayAcrossCalls'
    BY StoreAllStep
<1> QED
    BY <1>2, <1>6, <1>7, <1>8 DEF AttInv

\* A call with a single entry.
LEMMA SingleEntry ==
    ASSUME NEW issuer \in Addr, NEW h \in Hash, NEW sig \in Key
    PROVE  LET entries == <<Entry(issuer, h, sig)>>
           IN  /\ entries \in Seq(BatchEntry)
               /\ Len(entries) = 1
               /\ entries[1].issuer = issuer
               /\ entries[1].hash = h
    BY DEF Entry, BatchEntry

\* A step of the other components leaves the stores alone.
LEMMA StoresKept ==
    ASSUME AttInv, UNCHANGED attVars,
           \A s \in SessionId : sessions'[s].nonce = sessions[s].nonce
    PROVE  AttInv'
<1>1. UNCHANGED <<counter, attestations, idIndex, used, sessReq, accepted, calls>>
    BY DEF attVars, attStore
<1>2. RequestsCounted'
    BY <1>1, RequestsKept DEF AttInv
<1> QED
    BY <1>1, <1>2
    DEF AttInv, AttTypeOK, IndexMatchesStore, UsedMatchesStore, NoReplayAcrossCalls

\* Every step preserves the invariant.
LEMMA AttInvStep == SessInv /\ AttInv /\ [AttNext]_allVars => AttInv'
<1> SUFFICES ASSUME SessInv, AttInv, [AttNext]_allVars PROVE AttInv'
    OBVIOUS
<1>1. ASSUME NEW issuer \in Addr, NEW h \in Hash, NEW sig \in Key, NEW isAdmin \in BOOLEAN,
             NEW role \in LimitRole \cup {NoConfig},
             SubmitAttestation(issuer, h, sig, isAdmin, role)
      PROVE  AttInv'
  <2> DEFINE entries == <<Entry(issuer, h, sig)>>
  <2>1. /\ StoreAll(entries)
        /\ Fresh(issuer, h)
        /\ CountAccepted
        /\ sessReq' = sessReq
        /\ UNCHANGED sessVars
      BY <1>1 DEF SubmitAttestation
  <2>2. /\ entries \in Seq(BatchEntry)
        /\ Len(entries) = 1
        /\ entries[1].issuer = issuer
        /\ entries[1].hash = h
      BY SingleEntry
  <2> HIDE DEF entries
  <2>3. RequestsCounted'
      BY <2>1, NonceKept, RequestsKept DEF AttInv
  <2>4. \A i \in 1..Len(entries) : Fresh(entries[i].issuer, entries[i].hash)
      BY <2>1, <2>2
  <2>5. sessReq' \subseteq SessionId \X Hash /\ Len(entries) > 0
      BY <2>1, <2>2 DEF AttInv, AttTypeOK
  <2> QED
      BY <2>1, <2>2, <2>3, <2>4, <2>5, SubmissionStep
<1>2. ASSUME NEW s \in SessionId, NEW issuer \in Addr, NEW h \in Hash, NEW sig \in Key,
             NEW isAdmin \in BOOLEAN, NEW role \in LimitRole \cup {NoConfig},
             SubmitAttestationWithSession(s, issuer, h, sig, isAdmin, role)
      PROVE  AttInv'
  <2> DEFINE entries == <<Entry(issuer, h, sig)>>
  <2>1. /\ StoreAll(entries)
        /\ Fresh(issuer, h)
        /\ CountAccepted
        /\ SessionOp(s, issuer, "attest")
        /\ FirstRequest(s, h)
      BY <1>2 DEF SubmitAttestationWithSession
  <2>2. /\ entries \in Seq(BatchEntry)
        /\ Len(entries) = 1
        /\ entries[1].issuer = issuer
        /\ entries[1].hash = h
      BY SingleEntry
  <2> HIDE DEF entries
  <2>3. RequestsCounted'
      BY <2>1, RequestStep DEF AttInv
  <2>4. \A i \in 1..Len(entries) : Fresh(entries[i].issuer, entries[i].hash)
      BY <2>1, <2>2
  <2>5. sessReq' \subseteq SessionId \X Hash /\ Len(entries) > 0
      BY <2>1, <2>2 DEF AttInv, AttTypeOK, FirstRequest
  <2> QED
      BY <2>1, <2>2, <2>3, <2>4, <2>5, SubmissionStep
<1>3. ASSUME NEW caller \in Addr, NEW entries \in BatchEntries,
             SubmitAttestationBatch(caller, entries)
      PROVE  AttInv'
  <2>1. /\ StoreAll(entries)
        /\ \A i \in 1..Len(entries) : Fresh(entries[i].issuer, entries[i].hash)
        /\ accepted' = accepted
        /\ sessReq' = sessReq
        /\ UNCHANGED sessVars
      BY <1>3 DEF SubmitAttestationBatch
  <2>2. entries \in Seq(BatchEntry) /\ Len(entries) > 0
      BY BatchIsSequence
  <2>3. RequestsCounted'
      BY <2>1, NonceKept, RequestsKept DEF AttInv
  <2>4. sessReq' \subseteq SessionId \X Hash
      BY <2>1 DEF AttInv, AttTypeOK
  <2> QED
      BY <2>1, <2>2, <2>3, <2>4, SubmissionStep
<1>4. CASE RegistryStep
  <2>1. \A s \in SessionId : sessions'[s].nonce = sessions[s].nonce
      BY <1>4, NonceKept DEF RegistryStep
  <2> QED
      BY <1>4, <2>1, StoresKept DEF RegistryStep
<1>5. CASE (SessionUserCall \/ SessionAdminCall) /\ UNCHANGED <<pubkey, rlVars, attVars>>
    BY <1>5, NonceKept, StoresKept
<1>6. CASE \/ (CloseLedger \/ ConfigureLimits) /\ UNCHANGED <<pubkey, sessVars, attVars>>
           \/ UNCHANGED allVars
  <2>1. UNCHANGED sessVars /\ UNCHANGED attVars
      BY <1>6 DEF allVars
  <2> QED
      BY <2>1, NonceKept, StoresKept
<1>7. CASE SubmitCall
    BY <1>1, <1>2, <1>3, <1>7, SubmitCases
<1> QED
    BY <1>4, <1>5, <1>6, <1>7 DEF AttNext

\* The invariant holds throughout, on top of that of the sessions.
LEMMA AttInvariant == AttSpec => []AttInv
<1>1. AttSpec => []SessInv
    BY AttestationsImplementSessions, SessInvariant, PTL
<1> QED
    BY <1>1, AttInvInit, AttInvStep, PTL DEF AttSpec

\* The counter, the attestations, the index and the replay keys of src/contract.rs stay in
\* step whichever path stored an attestation, for every instance.
THEOREM StoresInStepHolds == AttSpec => []StoresInStep
<1>1. AttInv => StoresInStep
    BY DEF AttInv, StoresInStep
<1> QED
    BY <1>1, AttInvariant, PTL

\* No pair of issuer and payload is accepted by two calls, and a session's nonce counts
\* what was attested in it, for every instance: check_and_mark_used and the SESSREQ key do
\* what they are for, whatever the registry does in between.
THEOREM NothingReplayedHolds == AttSpec => []NothingReplayed
<1>1. AttInv => NothingReplayed
    BY DEF AttInv, NothingReplayed, NonceCountsRequests, RequestsCounted
<1> QED
    BY <1>1, AttInvariant, PTL
-----------------------------------------------------------------------------
(* Requests *)

\* What is named under ids of X.
Named(X) == [id : X, op : Operations]

\* The operations that the list d names under an id after its first entries.
NamesIn(d, id, from) ==
    LET mine == Kept(SubSeq(d, from + 1, Len(d)), Under(id))
    IN  [i \in 1..Len(mine) |-> mine[i].op]

Context == [ops : Seq(Operations), at : Nat, from : Nat, until : Nat]

\* A context holds what d names under its id since it was created.
ContextOf(c, id, d, l) ==
    /\ c \in Context
    /\ c.from <= Len(d)
    /\ c.until <= l + SpanTtl
    /\ c.ops = NamesIn(d, id, c.from)

\* A span stands for something d names under its id, and its context outlives it.
SpanOf(s, id, d, cs) ==
    /\ s.op \in Operations
    /\ s.until \in Nat
    /\ id \in DOMAIN cs
    /\ s.until <= cs[id].until
    /\ \E i \in 1..Len(d) : d[i] = [id |-> id, op |-> s.op]

\* The roots are numbered by the counter, no call gave a root a counter of children, and
\* spans and contexts, the dead ones included, tell what was named.
TraceInv ==
    /\ requestCount \in Nat
    /\ IsFiniteSet({id \in issued : id[1] = "root"})
    /\ Cardinality({id \in issued : id[1] = "root"}) = requestCount
    /\ \A id \in issued : id[1] = "root" => id[4] \in 0..(requestCount - 1)
    /\ nextSpan = <<>>
    /\ done \in Seq(Named(issued))
    /\ \A id \in DOMAIN contexts : ContextOf(contexts[id], id, done, ledger)
    /\ \A id \in DOMAIN spans : SpanOf(spans[id], id, done, contexts)

\* Every step of the requests is a step of the submissions, or leaves them alone.
LEMMA TraceAttStep ==
    ASSUME TraceNext \/ (AttNext /\ UNCHANGED traceVars)
    PROVE  AttNext \/ UNCHANGED allVars
<1>1. CASE GenerateRequestId /\ UNCHANGED allVars
    BY <1>1
<1>2. CASE \E id \in issued :
         \/ \E nonce \in ChildNonces :
              id[1] = "root" /\ GenerateChildRequestId(id, nonce) /\ UNCHANGED allVars
         \/ \E issuer \in Addr, h \in Hash, sig \in Key :
              SubmitWithRequestId(id, issuer, h, sig, FALSE, NoConfig)
         \/ \E anchor \in Addr, reasoned \in BOOLEAN : QuoteWithRequestId(id, anchor, reasoned)
         \/ CreateRequestContext(id)
         \/ \E op \in Labels : AppendOperation(id, op)
         \/ \E child \in issued, op \in Labels, a \in Addr : PropagateSpan(id, child, op, a)
  <2>1. PICK id \in issued :
         \/ \E nonce \in ChildNonces :
              id[1] = "root" /\ GenerateChildRequestId(id, nonce) /\ UNCHANGED allVars
         \/ \E issuer \in Addr, h \in Hash, sig \in Key :
              SubmitWithRequestId(id, issuer, h, sig, FALSE, NoConfig)
         \/ \E anchor \in Addr, reasoned \in BOOLEAN : QuoteWithRequestId(id, anchor, reasoned)
         \/ CreateRequestContext(id)
         \/ \E op \in Labels : AppendOperation(id, op)
         \/ \E child \in issued, op \in Labels, a \in Addr : PropagateSpan(id, child, op, a)
      BY <1>2
  <2>2. CASE \E issuer \in Addr, h \in Hash, sig \in Key :
              SubmitWithRequestId(id, issuer, h, sig, FALSE, NoConfig)
    <3>1. PICK issuer \in Addr, h \in Hash, sig \in Key :
              SubmitAttestation(issuer, h, sig, FALSE, NoConfig)
        BY <2>2 DEF SubmitWithRequestId
    <3>2. FALSE \in BOOLEAN /\ NoConfig \in LimitRole \cup {NoConfig}
        OBVIOUS
    <3> QED
        BY <3>1, <3>2 DEF AttNext, SubmitCall
  <2>3. ASSUME NEW anchor \in Addr, NEW reasoned \in BOOLEAN,
               QuoteWithRequestId(id, anchor, reasoned)
        PROVE  UNCHANGED allVars
      BY <2>3 DEF QuoteWithRequestId
  <2>4. ASSUME NEW child \in issued, NEW op \in Labels, NEW a \in Addr,
               PropagateSpan(id, child, op, a)
        PROVE  UNCHANGED allVars
      BY <2>4 DEF PropagateSpan
  <2>5. CASE CreateRequestContext(id) \/ \E op \in Labels : AppendOperation(id, op)
      BY <2>5 DEF CreateRequestContext, AppendOperation
  <2> QED
      BY <2>1, <2>2, <2>3, <2>4, <2>5
<1>3. CASE CloseLedger /\ UNCHANGED <<pubkey, sessVars, attVars, traceVars>>
    BY <1>3 DEF AttNext
<1>4. CASE KeysNext /\ UNCHANGED <<sessVars, rlVars, attVars, traceVars>>
    BY <1>4 DEF AttNext, RegistryStep
<1> QED
    BY <1>1, <1>2, <1>3, <1>4 DEF TraceNext

\* The calls that carry a request id are submissions like the others: the requests beside
\* the other calls implement the submissions, and what is proved of these holds with them.
THEOREM RequestsImplementSubmissions == TraceSpec => AttSpec
<1>1. ASSUME [TraceNext \/ (AttNext /\ UNCHANGED traceVars)]_<<allVars, traceVars>>
      PROVE  [AttNext]_allVars
    BY <1>1, TraceAttStep
<1> QED
    BY <1>1, PTL DEF TraceSpec, AttSpec

\* Lists over a set are lists over a larger one.
LEMMA SeqWidened ==
    ASSUME NEW X, NEW Y, X \subseteq Y, NEW s \in Seq(X)
    PROVE  s \in Seq(Y)
<1>1. Len(s) \in Nat /\ s \in [1..Len(s) -> X]
    BY LenProperties
<1>2. s \in [1..Len(s) -> Y]
    BY <1>1
<1> QED
    BY <1>1, <1>2, SeqDef

\* What is named under an id grows with what is named, by what is named under that id.
LEMMA NamesAppended ==
    ASSUME NEW X, NEW d \in Seq(Named(X)), NEW e \in Named(X), NEW id, NEW from \in 0..Len(d)
    PROVE  /\ NamesIn(d, id, from) \in Seq(Operations)
           /\ NamesIn(Append(d, e), id, from) =
                IF e.id = id THEN Append(NamesIn(d, id, from), e.op) ELSE NamesIn(d, id, from)
<1>a. /\ SubSeq(d, from + 1, Len(d)) \in Seq(Named(X))
      /\ SubSeq(Append(d, e), from + 1, Len(Append(d, e)))
           = Append(SubSeq(d, from + 1, Len(d)), e)
    BY TailAppended, ZenonT(60)
<1> DEFINE t == SubSeq(d, from + 1, Len(d))
           mine == Kept(t, Under(id))
           names == [i \in 1..Len(mine) |-> mine[i].op]
           more == Kept(Append(t, e), Under(id))
<1>0. e.id \in X /\ e.op \in Operations /\ e = [id |-> e.id, op |-> e.op]
    BY DEF Named
<1>1. e \in Under(id) <=> e.id = id
    BY <1>0 DEF Under
<1>2. ASSUME NEW x \in Named(X) PROVE x.op \in Operations
    BY <1>2 DEF Named
<1>3. /\ t \in Seq(Named(X))
      /\ SubSeq(Append(d, e), from + 1, Len(Append(d, e))) = Append(t, e)
    BY <1>a
<1> HIDE DEF t
<1>5. mine \in Seq(Named(X))
    BY <1>3, KeptIds
<1>6. more = IF e.id = id THEN Append(mine, e) ELSE mine
    BY <1>1, <1>3, KeptAppended
<1> HIDE DEF mine, more
<1>7. Len(mine) \in Nat /\ \A i \in 1..Len(mine) : mine[i] \in Named(X)
    BY <1>5
<1>8. names \in Seq(Operations) /\ Len(names) = Len(mine)
  <2>1. names \in [1..Len(mine) -> Operations]
    BY <1>2, <1>7
  <2> HIDE DEF names
  <2>2. names \in Seq(Operations)
    BY <1>7, <2>1, SeqDef
  <2>3. DOMAIN names = 1..Len(mine)
    BY <2>1
  <2> QED
    BY <1>7, <2>2, <2>3, LenProperties
<1>9. NamesIn(d, id, from) = names
    BY DEF NamesIn, mine, t
<1>10. NamesIn(Append(d, e), id, from) = [i \in 1..Len(more) |-> more[i].op]
    BY <1>3 DEF NamesIn, more
<1>11. ASSUME e.id = id
       PROVE  [i \in 1..Len(more) |-> more[i].op] = Append(names, e.op)
  <2> DEFINE left == [i \in 1..Len(more) |-> more[i].op]
             right == Append(names, e.op)
             m == Len(mine)
  <2>1. /\ more \in Seq(Named(X)) /\ Len(more) = m + 1 /\ more[m + 1] = e
        /\ \A i \in 1..m : more[i] = mine[i]
    BY <1>5, <1>6, <1>11, AppendProperties
  <2>2. \A i \in 1..m : names[i] = mine[i].op
    OBVIOUS
  <2> HIDE DEF names
  <2>3. /\ right \in Seq(Operations) /\ Len(right) = m + 1 /\ right[m + 1] = e.op
        /\ \A i \in 1..m : right[i] = names[i]
    BY <1>0, <1>8, AppendProperties
  <2> HIDE DEF right, m
  <2>4. m + 1 \in Nat /\ m \in Nat
    BY <1>7 DEF m
  <2>5. \A i \in 1..(m + 1) : more[i].op = right[i]
    <3>1. ASSUME NEW i \in 1..(m + 1) PROVE more[i].op = right[i]
      <4>1. CASE i = m + 1
        BY <2>1, <2>3, <4>1
      <4>2. CASE i # m + 1
        <5>1. i \in 1..m
          BY <2>4, <4>2
        <5> QED
          BY <2>1, <2>2, <2>3, <5>1
      <4> QED
        BY <4>1, <4>2
    <3> QED
      BY <3>1
  <2>6. right = [i \in 1..(m + 1) |-> right[i]]
    <3>1. right \in [1..Len(right) -> Operations]
      BY <2>3, LenProperties
    <3> QED
      BY <2>3, <3>1
  <2> QED
    BY <2>1, <2>5, <2>6 DEF right
<1>12. ASSUME e.id # id
       PROVE  [i \in 1..Len(more) |-> more[i].op] = names
    BY <1>6, <1>12
<1> QED
    BY <1>8, <1>9, <1>10, <1>11, <1>12

\* Nothing is named after the last entry.
LEMMA NothingNamed ==
    ASSUME NEW X, NEW d \in Seq(X), NEW id
    PROVE  NamesIn(d, id, Len(d)) = <<>>
<1> DEFINE m == Len(d)
           t == SubSeq(d, m + 1, m)
           mine == Kept(t, Under(id))
<1>1. m \in Nat /\ m <= m
    OBVIOUS
<1>2. t \in Seq(X) /\ Len(t) = 0
  <2>1. t \in Seq(X) /\ Len(t) = m - m
    BY <1>1, PartOf
  <2> HIDE DEF t, m
  <2> QED
    BY <1>1, <2>1
<1> HIDE DEF t
<1>3. t = <<>>
    BY <1>2, EmptySeq
<1>4. mine \in Seq(X) /\ ToSet(mine) = ToSet(t) \cap Under(id)
    BY <1>2, KeptIds
<1>5. ToSet(t) = {}
    BY <1>3 DEF ToSet
<1> HIDE DEF mine
<1>6. Len(mine) = 0
  <2>1. Len(mine) \in Nat /\ DOMAIN mine = 1..Len(mine)
    BY <1>4, LenProperties
  <2>2. 1 \notin DOMAIN mine
    BY <1>4, <1>5 DEF ToSet
  <2> QED
    BY <2>1, <2>2
<1>7. 1..0 = {}
    OBVIOUS
<1>8. [i \in 1..Len(mine) |-> mine[i].op] = <<>>
    BY <1>6, <1>7
<1> QED
    BY <1>8 DEF NamesIn, mine, t, m

\* A context whose operation is recorded holds what is then named, and so do the others.
LEMMA ContextGrows ==
    ASSUME NEW X, NEW d \in Seq(Named(X)), NEW e \in Named(X), NEW o, NEW c, NEW l \in Nat,
           ContextOf(c, o, d, l), NEW l2 \in Nat, l <= l2
    PROVE  /\ o = e.id => ContextOf([c EXCEPT !.ops = Append(@, e.op), !.until = l + SpanTtl],
                                    o, Append(d, e), l2)
           /\ o # e.id => ContextOf(c, o, Append(d, e), l2)
<1>1. /\ Append(d, e) \in Seq(Named(X)) /\ Len(Append(d, e)) = Len(d) + 1 /\ Len(d) \in Nat
    BY AppendProperties
<1>2. c \in Context /\ c.from \in Nat /\ c.from <= Len(d) /\ c.ops = NamesIn(d, o, c.from)
      /\ c.until \in Nat /\ c.until <= l + SpanTtl /\ c.ops \in Seq(Operations)
    BY DEF ContextOf, Context
<1> DEFINE m == Len(d)
           w == Len(Append(d, e))
<1>3. c.from \in 0..m /\ c.from <= w
    BY <1>1, <1>2
<1>4. NamesIn(Append(d, e), o, c.from) =
        IF e.id = o THEN Append(c.ops, e.op) ELSE c.ops
  <2>1. ASSUME NEW from \in 0..Len(d)
        PROVE  NamesIn(Append(d, e), o, from) =
                 IF e.id = o THEN Append(NamesIn(d, o, from), e.op) ELSE NamesIn(d, o, from)
    BY NamesAppended
  <2> QED
    BY <1>2, <1>3, <2>1
<1>5. e.op \in Operations /\ SpanTtl \in Nat
    BY TracingConstants DEF Named
<1>6. ASSUME o = e.id
      PROVE  ContextOf([c EXCEPT !.ops = Append(@, e.op), !.until = l + SpanTtl],
                       o, Append(d, e), l2)
  <2> DEFINE k == [c EXCEPT !.ops = Append(@, e.op), !.until = l + SpanTtl]
             more == Append(c.ops, e.op)
  <2>1. more \in Seq(Operations) /\ l + SpanTtl \in Nat /\ l + SpanTtl <= l2 + SpanTtl
    BY <1>2, <1>5, AppendProperties
  <2>2. k = [c EXCEPT !.ops = more, !.until = l + SpanTtl]
    BY <1>2 DEF Context
  <2> HIDE DEF more
  <2>3. k \in Context /\ k.ops = more /\ k.from = c.from /\ k.until = l + SpanTtl
    BY <1>2, <2>1, <2>2 DEF Context
  <2> HIDE DEF k
  <2> QED
    BY <1>3, <1>4, <1>6, <2>1, <2>3 DEF ContextOf, more, k, w
<1>7. ASSUME o # e.id
      PROVE  ContextOf(c, o, Append(d, e), l2)
  <2>1. c.until <= l2 + SpanTtl
    BY <1>2, <1>5
  <2> QED
    BY <1>2, <1>3, <1>4, <1>7, <2>1 DEF ContextOf
<1> QED
    BY <1>6, <1>7

\* A context that is created now holds what is named from now on.
LEMMA ContextStarts ==
    ASSUME NEW X, done \in Seq(Named(X)), NEW o, ledger \in Nat, now \in Nat
    PROVE  ContextOf(NewContext, o, done, ledger)
<1>1. Len(done) \in Nat /\ SpanTtl \in Nat
    BY TracingConstants
<1>2. NamesIn(done, o, Len(done)) = <<>>
    BY NothingNamed
<1>3. <<>> \in Seq(Operations)
    BY EmptySeq
<1> QED
    BY <1>1, <1>2, <1>3 DEF ContextOf, Context, NewContext

\* record_operation_in_context names the operation and writes the context that holds it.
LEMMA RecordStep ==
    ASSUME TraceInv, ledger \in Nat, now \in Nat, ledger' \in Nat, ledger <= ledger',
           NEW id \in issued, NEW op \in Operations, RecordOperation(id, op)
    PROVE  /\ done' = Append(done, [id |-> id, op |-> op])
           /\ done' \in Seq(Named(issued))
           /\ DOMAIN contexts' = DOMAIN contexts \cup {id}
           /\ contexts'[id].until = ledger + SpanTtl
           /\ \A o \in DOMAIN contexts : contexts[o].until <= contexts'[o].until
           /\ \A o \in DOMAIN contexts' : ContextOf(contexts'[o], o, done', ledger')
<1> DEFINE e == [id |-> id, op |-> op]
           ctx == IF Live(contexts, id) THEN contexts[id] ELSE NewContext
           new == [ctx EXCEPT !.ops = Append(@, op), !.until = ledger + SpanTtl]
<1>1. done \in Seq(Named(issued)) /\ e \in Named(issued) /\ e.id = id /\ e.op = op
    BY DEF TraceInv, Named
<1>2. contexts' = Put(contexts, id, new) /\ done' = Append(done, e)
    BY DEF RecordOperation
<1>3. done' \in Seq(Named(issued))
    BY <1>1, <1>2, AppendProperties
<1>4. \A o \in DOMAIN contexts : ContextOf(contexts[o], o, done, ledger)
    BY DEF TraceInv
<1>5. ContextOf(ctx, id, done, ledger)
    BY <1>1, <1>4, ContextStarts DEF Live
<1> HIDE DEF e, ctx
<1>6. ContextOf(new, id, done', ledger')
  <2>1. new = [ctx EXCEPT !.ops = Append(@, e.op), !.until = ledger + SpanTtl]
    BY <1>1
  <2> HIDE DEF new
  <2> QED
    BY <1>1, <1>2, <1>5, <2>1, ContextGrows
<1>7. new.until = ledger + SpanTtl
  <2>1. ctx \in Context
    BY <1>5 DEF ContextOf
  <2> QED
    BY <2>1 DEF Context
<1> HIDE DEF new
<1>8. /\ DOMAIN contexts' = DOMAIN contexts \cup {id}
      /\ contexts'[id] = new
      /\ \A o \in DOMAIN contexts : o # id => contexts'[o] = contexts[o]
  <2>1. /\ DOMAIN Put(contexts, id, new) = DOMAIN contexts \cup {id}
        /\ Put(contexts, id, new)[id] = new
        /\ \A o \in DOMAIN contexts : o # id => Put(contexts, id, new)[o] = contexts[o]
    BY DEF Put
  <2> QED
    BY <1>2, <2>1
<1>9. ASSUME NEW o \in DOMAIN contexts
      PROVE  contexts[o].until <= contexts'[o].until
  <2>1. contexts[o].until \in Nat /\ contexts[o].until <= ledger + SpanTtl
    BY <1>4 DEF ContextOf, Context
  <2> QED
    BY <1>7, <1>8, <2>1
<1>10. ASSUME NEW o \in DOMAIN contexts'
       PROVE  ContextOf(contexts'[o], o, done', ledger')
  <2>1. CASE o = id
    BY <1>6, <1>8, <2>1
  <2>2. CASE o # id
    <3>1. o \in DOMAIN contexts /\ contexts'[o] = contexts[o]
      BY <1>8, <2>2
    <3> QED
      BY <1>1, <1>2, <1>4, <2>2, <3>1, ContextGrows
  <2> QED
    BY <2>1, <2>2
<1> QED
    BY <1>2, <1>3, <1>7, <1>8, <1>9, <1>10 DEF e

\* A span goes on to stand for something that was named while its context is renewed.
LEMMA SpansKept ==
    ASSUME TraceInv, NEW X, NEW e \in X, done \in Seq(X),
           done' = done \/ done' = Append(done, e),
           DOMAIN contexts \subseteq DOMAIN contexts',
           \A o \in DOMAIN contexts' : contexts'[o].until \in Nat,
           \A o \in DOMAIN contexts : /\ contexts[o].until \in Nat
                                      /\ contexts[o].until <= contexts'[o].until
    PROVE  \A o \in DOMAIN spans : SpanOf(spans[o], o, done', contexts')
<1>1. /\ Len(done) \in Nat /\ Len(done') \in Nat /\ Len(done) <= Len(done')
      /\ \A i \in 1..Len(done) : i \in 1..Len(done') /\ done'[i] = done[i]
  <2>1. CASE done' = done
    BY <2>1
  <2>2. CASE done' = Append(done, e)
    <3>1. /\ Len(done) \in Nat /\ Len(Append(done, e)) = Len(done) + 1
          /\ \A i \in 1..Len(done) : Append(done, e)[i] = done[i]
      BY AppendProperties
    <3> DEFINE m == Len(done)
               w == Len(Append(done, e))
    <3>2. \A i \in 1..m : i \in 1..w
      <4>1. m \in Nat /\ w = m + 1
        BY <3>1
      <4> HIDE DEF m, w
      <4> QED
        BY <4>1
    <3> QED
      BY <2>2, <3>1, <3>2
  <2> QED
    BY <2>1, <2>2
<1>2. ASSUME NEW o \in DOMAIN spans
      PROVE  SpanOf(spans[o], o, done', contexts')
  <2>1. SpanOf(spans[o], o, done, contexts)
    BY DEF TraceInv
  <2>2. /\ spans[o].op \in Operations /\ spans[o].until \in Nat /\ o \in DOMAIN contexts
        /\ spans[o].until <= contexts[o].until
        /\ \E i \in 1..Len(done) : done[i] = [id |-> o, op |-> spans[o].op]
    BY <2>1 DEF SpanOf
  <2>3. o \in DOMAIN contexts' /\ contexts[o].until \in Nat /\ contexts'[o].until \in Nat
        /\ contexts[o].until <= contexts'[o].until
    BY <2>2
  <2>4. spans[o].until <= contexts'[o].until
    BY <2>2, <2>3
  <2>5. \E i \in 1..Len(done') : done'[i] = [id |-> o, op |-> spans[o].op]
    BY <1>1, <2>2
  <2> QED
    BY <2>2, <2>3, <2>4, <2>5 DEF SpanOf
<1> QED
    BY <1>2

\* What the counter says of the roots while no root is generated.
LEMMA RootsKept ==
    ASSUME TraceInv, UNCHANGED requestCount,
           {o \in issued' : o[1] = "root"} = {o \in issued : o[1] = "root"}
    PROVE  /\ requestCount' \in Nat
           /\ IsFiniteSet({o \in issued' : o[1] = "root"})
           /\ Cardinality({o \in issued' : o[1] = "root"}) = requestCount'
           /\ \A o \in issued' : o[1] = "root" => o[4] \in 0..(requestCount' - 1)
BY DEF TraceInv

\* Contexts and spans stay as they are while time passes.
LEMMA RequestsAtRest ==
    ASSUME TraceInv, ledger \in Nat, ledger' \in Nat, ledger <= ledger',
           UNCHANGED <<spans, contexts, nextSpan, done>>, issued \subseteq issued'
    PROVE  /\ nextSpan' = <<>>
           /\ done' \in Seq(Named(issued'))
           /\ \A o \in DOMAIN contexts' : ContextOf(contexts'[o], o, done', ledger')
           /\ \A o \in DOMAIN spans' : SpanOf(spans'[o], o, done', contexts')
<1>1. done' \in Seq(Named(issued'))
  <2>1. Named(issued) \subseteq Named(issued')
    BY DEF Named
  <2>2. done \in Seq(Named(issued))
    BY DEF TraceInv
  <2> QED
    BY <2>1, <2>2, SeqWidened
<1>2. ASSUME NEW o \in DOMAIN contexts
      PROVE  ContextOf(contexts[o], o, done, ledger')
  <2>1. ContextOf(contexts[o], o, done, ledger)
    BY DEF TraceInv
  <2>2. contexts[o].until \in Nat /\ contexts[o].until <= ledger + SpanTtl /\ SpanTtl \in Nat
    BY <2>1, TracingConstants DEF ContextOf, Context
  <2>3. contexts[o].until <= ledger' + SpanTtl
    BY <2>2
  <2> QED
    BY <2>1, <2>3 DEF ContextOf
<1> QED
    BY <1>1, <1>2 DEF TraceInv

\* A call that is traced leaves a span and a context that names its operation.
LEMMA TracedStep ==
    ASSUME TraceInv, ledger \in Nat, now \in Nat, ledger' \in Nat, ledger <= ledger',
           NEW id \in issued, NEW op \in Operations, NEW actor, Traced(id, op, actor),
           UNCHANGED <<requestCount, issued, nextSpan>>
    PROVE  TraceInv'
<1> DEFINE e == [id |-> id, op |-> op]
           s == Span(op, actor, <<>>, 0)
<1>1. /\ done' = Append(done, e) /\ done' \in Seq(Named(issued))
      /\ DOMAIN contexts' = DOMAIN contexts \cup {id}
      /\ contexts'[id].until = ledger + SpanTtl
      /\ \A o \in DOMAIN contexts : contexts[o].until <= contexts'[o].until
      /\ \A o \in DOMAIN contexts' : ContextOf(contexts'[o], o, done', ledger')
    BY RecordStep DEF Traced
<1>2. /\ done \in Seq(Named(issued)) /\ e \in Named(issued)
      /\ \A o \in DOMAIN contexts : contexts[o].until \in Nat
      /\ \A o \in DOMAIN contexts' : contexts'[o].until \in Nat
    BY <1>1 DEF TraceInv, Named, ContextOf, Context
<1>3. \A o \in DOMAIN spans : SpanOf(spans[o], o, done', contexts')
  <2> HIDE DEF e
  <2> QED
    BY <1>1, <1>2, SpansKept
<1>4. SpanOf(s, id, done', contexts')
  <2>1. s.op = op /\ s.until = ledger + SpanTtl /\ SpanTtl \in Nat
    BY TracingConstants DEF Span
  <2>2. Len(done') = Len(done) + 1 /\ Len(done) \in Nat /\ done'[Len(done) + 1] = e
    <3> HIDE DEF e
    <3> QED
      BY <1>1, <1>2, AppendProperties
  <2>3. \E i \in 1..Len(done') : done'[i] = [id |-> id, op |-> s.op]
    <3>1. Len(done) + 1 \in 1..Len(done')
      BY <2>2
    <3> QED
      BY <2>1, <2>2, <3>1
  <2> HIDE DEF s
  <2>4. s.until <= contexts'[id].until /\ s.until \in Nat
    BY <1>1, <2>1
  <2> QED
    BY <1>1, <2>1, <2>3, <2>4 DEF SpanOf
<1> HIDE DEF s
<1>5. \A o \in DOMAIN spans' : SpanOf(spans'[o], o, done', contexts')
  <2>1. spans' = Put(spans, id, s)
    BY DEF Traced, StoreSpan, s
  <2>2. /\ DOMAIN spans' = DOMAIN spans \cup {id} /\ spans'[id] = s
        /\ \A o \in DOMAIN spans : o # id => spans'[o] = spans[o]
    <3>1. /\ DOMAIN Put(spans, id, s) = DOMAIN spans \cup {id}
          /\ Put(spans, id, s)[id] = s
          /\ \A o \in DOMAIN spans : o # id => Put(spans, id, s)[o] = spans[o]
      BY DEF Put
    <3> QED
      BY <2>1, <3>1
  <2> QED
    BY <1>3, <1>4, <2>2
<1>6. nextSpan' = <<>>
    BY DEF TraceInv
<1> QED
    BY <1>1, <1>5, <1>6, RootsKept DEF TraceInv

\* The counter gives every root a number of its own.
LEMMA GenerateStep ==
    ASSUME TraceInv, GenerateRequestId, ledger \in Nat, UNCHANGED ledger
    PROVE  TraceInv'
<1> DEFINE roots == {o \in issued : o[1] = "root"}
           r == RequestIdOf
<1>1. /\ requestCount \in Nat /\ IsFiniteSet(roots) /\ Cardinality(roots) = requestCount
      /\ \A o \in roots : o[4] \in 0..(requestCount - 1)
    BY DEF TraceInv
<1>2. r[1] = "root" /\ r[4] = requestCount
    BY DEF RequestIdOf
<1>3. r \notin roots
    BY <1>1, <1>2
<1>4. issued' = issued \cup {r} /\ requestCount' = requestCount + 1
    BY DEF GenerateRequestId
<1> HIDE DEF r
<1>5. {o \in issued' : o[1] = "root"} = roots \cup {r}
    BY <1>2, <1>4
<1>6. IsFiniteSet(roots \cup {r}) /\ Cardinality(roots \cup {r}) = requestCount + 1
  <2> HIDE DEF roots
  <2> QED
    BY <1>1, <1>3, FS_AddElement
<1>7. ASSUME NEW o \in issued', o[1] = "root"
      PROVE  o[4] \in 0..(requestCount' - 1)
  <2>1. o \in roots \/ o = r
    BY <1>5, <1>7
  <2>2. requestCount' - 1 = requestCount
    BY <1>1, <1>4
  <2>3. o[4] \in 0..requestCount
    BY <1>1, <1>2, <2>1
  <2> QED
    BY <2>2, <2>3
<1>8. UNCHANGED <<spans, contexts, nextSpan, done>> /\ ledger' \in Nat /\ ledger <= ledger'
    BY DEF GenerateRequestId
<1>9. /\ nextSpan' = <<>>
      /\ done' \in Seq(Named(issued'))
      /\ \A o \in DOMAIN contexts' : ContextOf(contexts'[o], o, done', ledger')
      /\ \A o \in DOMAIN spans' : SpanOf(spans'[o], o, done', contexts')
    BY <1>4, <1>8, RequestsAtRest
<1>10. requestCount' \in Nat
    BY <1>1, <1>4
<1> QED
    BY <1>4, <1>5, <1>6, <1>7, <1>9, <1>10 DEF TraceInv

\* The ledger sequence does not go back.
LEMMA LedgerStep == LimiterInv /\ [AttNext]_allVars => ledger' \in Nat /\ ledger <= ledger'
<1> SUFFICES ASSUME LimiterInv, [AttNext]_allVars PROVE ledger' \in Nat /\ ledger <= ledger'
    OBVIOUS
<1>1. [RlNext]_rlVars
    BY AttLimiterStep
<1>2. ledger \in Nat
    BY ConfigTypes DEF LimiterInv, RlTypeOK, Ledgers
<1>3. CASE CloseLedger
    BY <1>2, <1>3 DEF CloseLedger
<1>4. CASE ConfigureLimits
    BY <1>2, <1>4 DEF ConfigureLimits, SetRateLimitConfig, SetRoleRateLimit,
                      SetAddressRateLimit, UpdateBurstConfig, UpdateFairnessConfig
<1>5. CASE \E a \in Addr : \/ \E role \in LimitRole \cup {NoConfig} :
                                CheckAndIncrement(a, FALSE, role)
                           \/ \E n \in 1..MaxBatch : ConsumeBatch(a, n)
    BY <1>2, <1>5 DEF CheckAndIncrement, ConsumeBatch
<1>6. CASE UNCHANGED rlVars
    BY <1>2, <1>6 DEF rlVars
<1> QED
    BY <1>1, <1>3, <1>4, <1>5, <1>6 DEF RlNext

\* Before the first request nothing is stored.
LEMMA TraceInvInit == TraceInit => TraceInv
<1> SUFFICES ASSUME TraceInit PROVE TraceInv
    OBVIOUS
<1>1. /\ requestCount = 0 /\ issued = {} /\ spans = <<>> /\ contexts = <<>>
      /\ nextSpan = <<>> /\ done = <<>>
    BY DEF TraceInit
<1>2. {o \in issued : o[1] = "root"} = {}
    BY <1>1
<1>3. IsFiniteSet({}) /\ Cardinality({}) = 0
    BY FS_EmptySet
<1>4. done \in Seq(Named(issued))
    BY <1>1, EmptySeq
<1>5. DOMAIN contexts = {} /\ DOMAIN spans = {}
    BY <1>1
<1> QED
    BY <1>1, <1>2, <1>3, <1>4, <1>5 DEF TraceInv

\* Every step of the requests and of the other calls keeps the invariant.
LEMMA TraceInvStep ==
    ASSUME SessInv, LimiterInv, TraceInv,
           [TraceNext \/ (AttNext /\ UNCHANGED traceVars)]_<<allVars, traceVars>>
    PROVE  TraceInv'
<1>1. ledger \in Nat /\ now \in Nat
    BY ConfigTypes DEF LimiterInv, RlTypeOK, Ledgers, SessInv, SessTypeOK
<1>2. ledger' \in Nat /\ ledger <= ledger'
    BY TraceAttStep, LedgerStep
<1>3. ASSUME UNCHANGED requestCount, issued \subseteq issued',
             {o \in issued' : o[1] = "root"} = {o \in issued : o[1] = "root"},
             UNCHANGED <<spans, contexts, nextSpan, done>>
      PROVE  TraceInv'
    BY <1>1, <1>2, <1>3, RootsKept, RequestsAtRest DEF TraceInv
<1>4. ASSUME GenerateRequestId /\ UNCHANGED allVars
      PROVE  TraceInv'
  <2>1. UNCHANGED ledger
    BY <1>4 DEF allVars, rlVars
  <2> QED
    BY <1>1, <1>4, <2>1, GenerateStep
<1>5. ASSUME NEW id \in issued, NEW nonce, GenerateChildRequestId(id, nonce)
      PROVE  TraceInv'
  <2> DEFINE child == <<"child", id, nonce, now>>
  <2>1. issued' = issued \cup {child} /\ UNCHANGED <<requestCount, spans, contexts, nextSpan, done>>
    BY <1>5 DEF GenerateChildRequestId, traceStore
  <2>2. child[1] # "root"
    OBVIOUS
  <2> HIDE DEF child
  <2>3. {o \in issued' : o[1] = "root"} = {o \in issued : o[1] = "root"}
    BY <2>1, <2>2
  <2> QED
    BY <1>3, <2>1, <2>3
<1>6. ASSUME NEW id \in issued, NEW issuer, NEW h, NEW sig,
             SubmitWithRequestId(id, issuer, h, sig, FALSE, NoConfig)
      PROVE  TraceInv'
  <2>1. /\ Traced(id, "submit_attestation", issuer)
        /\ UNCHANGED <<requestCount, issued, nextSpan>>
    BY <1>6 DEF SubmitWithRequestId
  <2>2. "submit_attestation" \in Operations
    BY DEF Operations
  <2> QED
    BY <1>1, <1>2, <2>1, <2>2, TracedStep
<1>7. ASSUME NEW id \in issued, NEW anchor, NEW reasoned \in BOOLEAN,
             QuoteWithRequestId(id, anchor, reasoned)
      PROVE  TraceInv'
  <2> DEFINE op == IF reasoned THEN "submit_quote_with_reason" ELSE "submit_quote"
  <2>1. Traced(id, op, anchor) /\ UNCHANGED <<requestCount, issued, nextSpan>>
    BY <1>7 DEF QuoteWithRequestId
  <2>2. op \in Operations
    BY DEF Operations
  <2> HIDE DEF op
  <2> QED
    BY <1>1, <1>2, <2>1, <2>2, TracedStep
<1>8. ASSUME NEW id \in issued, CreateRequestContext(id)
      PROVE  TraceInv'
  <2>1. /\ contexts' = Put(contexts, id, NewContext)
        /\ UNCHANGED <<requestCount, issued, spans, nextSpan, done>>
    BY <1>8 DEF CreateRequestContext
  <2>2. /\ DOMAIN contexts' = DOMAIN contexts \cup {id} /\ contexts'[id] = NewContext
        /\ \A o \in DOMAIN contexts : o # id => contexts'[o] = contexts[o]
    <3>1. /\ DOMAIN Put(contexts, id, NewContext) = DOMAIN contexts \cup {id}
          /\ Put(contexts, id, NewContext)[id] = NewContext
          /\ \A o \in DOMAIN contexts : o # id => Put(contexts, id, NewContext)[o] = contexts[o]
      BY DEF Put
    <3> QED
      BY <2>1, <3>1
  <2>3. done \in Seq(Named(issued))
    BY DEF TraceInv
  <2>4. ASSUME NEW o \in DOMAIN contexts'
        PROVE  ContextOf(contexts'[o], o, done, ledger)
    <3>1. CASE o = id
      BY <1>1, <2>2, <2>3, <3>1, ContextStarts
    <3>2. CASE o # id
      BY <2>2, <3>2 DEF TraceInv
    <3> QED
      BY <3>1, <3>2
  <2>5. NewContext.until = ledger + SpanTtl /\ SpanTtl \in Nat
    BY TracingConstants DEF NewContext
  <2>6. ASSUME NEW o \in DOMAIN contexts
        PROVE  contexts[o].until \in Nat /\ contexts[o].until <= contexts'[o].until
    <3>1. contexts[o].until \in Nat /\ contexts[o].until <= ledger + SpanTtl
      BY DEF TraceInv, ContextOf, Context
    <3> QED
      BY <1>1, <2>2, <2>5, <3>1
  <2>7. \A o \in DOMAIN contexts' : contexts'[o].until \in Nat
    BY <2>4 DEF ContextOf, Context
  <2>8. \A o \in DOMAIN spans : SpanOf(spans[o], o, done', contexts')
    <3>1. ASSUME NEW o \in DOMAIN spans
          PROVE  SpanOf(spans[o], o, done, contexts')
      <4>1. SpanOf(spans[o], o, done, contexts)
        BY DEF TraceInv
      <4>2. o \in DOMAIN contexts /\ spans[o].until \in Nat /\ spans[o].until <= contexts[o].until
        BY <4>1 DEF SpanOf
      <4>3. o \in DOMAIN contexts' /\ contexts'[o].until \in Nat
            /\ contexts[o].until \in Nat /\ contexts[o].until <= contexts'[o].until
        BY <2>2, <2>6, <2>7, <4>2
      <4>4. spans[o].until <= contexts'[o].until
        BY <4>2, <4>3
      <4> QED
        BY <4>1, <4>3, <4>4 DEF SpanOf
    <3> QED
      BY <2>1, <3>1
  <2>9. ledger' = ledger
    BY <1>8 DEF CreateRequestContext, allVars, rlVars
  <2>10. {o \in issued' : o[1] = "root"} = {o \in issued : o[1] = "root"}
    BY <2>1
  <2>11. \A o \in DOMAIN contexts' : ContextOf(contexts'[o], o, done', ledger')
    BY <2>1, <2>4, <2>9
  <2> QED
    BY <2>1, <2>3, <2>8, <2>10, <2>11, RootsKept DEF TraceInv
<1>9. ASSUME NEW id \in issued, NEW op \in Labels, AppendOperation(id, op)
      PROVE  TraceInv'
  <2>1. RecordOperation(id, op) /\ UNCHANGED <<requestCount, issued, spans, nextSpan>>
    BY <1>9 DEF AppendOperation
  <2>2. op \in Operations
    BY DEF Operations
  <2> DEFINE e == [id |-> id, op |-> op]
  <2>3. /\ done' = Append(done, e) /\ done' \in Seq(Named(issued))
        /\ DOMAIN contexts' = DOMAIN contexts \cup {id}
        /\ \A o \in DOMAIN contexts : contexts[o].until <= contexts'[o].until
        /\ \A o \in DOMAIN contexts' : ContextOf(contexts'[o], o, done', ledger')
    BY <1>1, <1>2, <2>1, <2>2, RecordStep
  <2>4. /\ done \in Seq(Named(issued)) /\ e \in Named(issued)
        /\ \A o \in DOMAIN contexts : contexts[o].until \in Nat
        /\ \A o \in DOMAIN contexts' : contexts'[o].until \in Nat
    BY <2>2, <2>3 DEF TraceInv, Named, ContextOf, Context
  <2> HIDE DEF e
  <2>5. \A o \in DOMAIN spans : SpanOf(spans[o], o, done', contexts')
    BY <2>3, <2>4, SpansKept
  <2>6. {o \in issued' : o[1] = "root"} = {o \in issued : o[1] = "root"}
    BY <2>1
  <2> QED
    BY <2>1, <2>3, <2>5, <2>6, RootsKept DEF TraceInv
<1>10. ASSUME NEW id \in issued, NEW child, NEW op, NEW a, PropagateSpan(id, child, op, a)
       PROVE  TraceInv'
  <2>1. ~Live(nextSpan, id)
    <3>1. nextSpan = <<>>
      BY DEF TraceInv
    <3>2. DOMAIN nextSpan = {}
      BY <3>1
    <3> QED
      BY <3>2 DEF Live
  <2>2. UNCHANGED <<requestCount, issued, spans, contexts, nextSpan, done>>
    BY <1>10, <2>1 DEF PropagateSpan
  <2> QED
    BY <1>3, <2>2
<1>11. ASSUME UNCHANGED traceVars
       PROVE  TraceInv'
  <2>1. UNCHANGED <<requestCount, issued, spans, contexts, nextSpan, done>>
    BY <1>11 DEF traceVars, traceStore
  <2> QED
    BY <1>3, <2>1
<1>12. CASE TraceNext
    BY <1>4, <1>5, <1>6, <1>7, <1>8, <1>9, <1>10, <1>11, <1>12 DEF TraceNext
<1> QED
    BY <1>11, <1>12

\* TraceInv holds throughout.
LEMMA TraceInvariant == TraceSpec => []TraceInv
<1>1. TraceSpec => [](SessInv /\ LimiterInv)
    BY RequestsImplementSubmissions, AttestationsImplementSessions, SessInvariant,
       AttestationsImplementLimiter, LimiterInvariant, PTL
<1> QED
    BY <1>1, TraceInvInit, TraceInvStep, PTL DEF TraceSpec

\* Root ids never repeat, however many are generated in one ledger; the chain of a context
\* is what was named under its id since it began, whoever named it and whatever expired in
\* between; and a live span has a live context and begins the trace of its root
\* (generate_request_id, store_span, record_operation_in_context, get_trace).
THEOREM SpansTellWorkHolds == TraceSpec => []SpansTellWork
<1>1. ASSUME TraceInv, LimiterInv PROVE SpansTellWork
  <2>1. ledger \in Nat /\ done \in Seq(Named(issued)) /\ Len(done) \in Nat
    BY <1>1, ConfigTypes DEF TraceInv, LimiterInv, RlTypeOK, Ledgers
  <2>2. Cardinality({id \in issued : id[1] = "root"}) = requestCount
    BY <1>1 DEF TraceInv
  <2>3. ASSUME NEW id \in issued, Live(contexts, id)
        PROVE  contexts[id].ops = NamedUnder(id, contexts[id].from)
    BY <1>1, <2>3 DEF TraceInv, ContextOf, NamesIn, NamedUnder, Live
  <2>4. ASSUME NEW id \in issued, Live(spans, id)
        PROVE  /\ Live(contexts, id)
               /\ \E i \in 1..Len(done) :
                    /\ done[i] = [id |-> id, op |-> spans[id].op]
                    /\ i > contexts[id].from => spans[id].op \in Range(contexts[id].ops)
               /\ Head(GetTrace(id)) = spans[id]
    <3>1. SpanOf(spans[id], id, done, contexts)
      BY <1>1, <2>4 DEF TraceInv, Live
    <3>2. id \in DOMAIN contexts /\ ContextOf(contexts[id], id, done, ledger)
      BY <1>1, <3>1 DEF TraceInv, SpanOf
    <3>3. Live(contexts, id)
      <4>1. spans[id].until >= ledger /\ spans[id].until <= contexts[id].until
            /\ spans[id].until \in Nat /\ contexts[id].until \in Nat
        BY <2>4, <3>1, <3>2 DEF Live, SpanOf, ContextOf, Context
      <4> QED
        BY <2>1, <3>2, <4>1 DEF Live
    <3>4. PICK i \in 1..Len(done) : done[i] = [id |-> id, op |-> spans[id].op]
      BY <3>1 DEF SpanOf
    <3>5. ASSUME i > contexts[id].from
          PROVE  spans[id].op \in Range(contexts[id].ops)
      <4> DEFINE from == contexts[id].from
                 n == Len(done)
                 t == SubSeq(done, from + 1, n)
                 mine == Kept(t, Under(id))
                 e == [id |-> id, op |-> spans[id].op]
      <4>1. from \in Nat /\ from <= n /\ n \in Nat
        BY <2>1, <3>2 DEF ContextOf, Context
      <4>2. contexts[id].ops = [k \in 1..Len(mine) |-> mine[k].op]
        BY <3>2 DEF ContextOf, NamesIn
      <4>3. e \in Under(id)
        BY <3>1 DEF SpanOf, Under
      <4>4. /\ t \in Seq(Named(issued)) /\ Len(t) = n - from
            /\ \A k \in 1..(n - from) : t[k] = done[from + k]
        <5>1. n <= Len(done)
          BY <4>1
        <5> HIDE DEF n, from
        <5> QED
          BY <2>1, <4>1, <5>1, PartOf
      <4> HIDE DEF t
      <4>5. e \in ToSet(t)
        <5>1. i - from \in 1..(n - from) /\ from + (i - from) = i
          BY <3>4, <3>5, <4>1
        <5>2. t[i - from] = e
          BY <3>4, <4>4, <5>1
        <5>3. i - from \in DOMAIN t
          BY <4>4, <5>1, LenProperties
        <5> QED
          BY <5>2, <5>3 DEF ToSet
      <4>6. mine \in Seq(Named(issued)) /\ ToSet(mine) = ToSet(t) \cap Under(id)
        BY <4>4, KeptIds
      <4> HIDE DEF mine
      <4>7. PICK k \in DOMAIN mine : mine[k] = e
        BY <4>3, <4>5, <4>6 DEF ToSet
      <4>8. DOMAIN mine = 1..Len(mine)
        BY <4>6, LenProperties
      <4>9. mine[k].op = spans[id].op
        BY <4>7
      <4> QED
        BY <4>2, <4>7, <4>8, <4>9 DEF Range
    <3>6. Head(GetTrace(id)) = spans[id]
      <4> DEFINE kids == IF Live(nextSpan, id)
                         THEN SelectSeq([j \in 1..(nextSpan[id].next - 1) |-> <<id, j>>],
                                LAMBDA k : Live(childIds, k) /\ Live(spans, childIds[k].id))
                         ELSE <<>>
                 rest == [j \in 1..Len(kids) |-> spans[childIds[kids[j]].id]]
      <4>1. ~Live(nextSpan, id)
        <5>1. nextSpan = <<>>
          BY <1>1 DEF TraceInv
        <5>2. DOMAIN nextSpan = {}
          BY <5>1
        <5> QED
          BY <5>2 DEF Live
      <4>2. kids = <<>>
        BY <4>1
      <4>3. GetTrace(id) = <<spans[id]>> \o rest
        BY <2>4 DEF GetTrace
      <4> HIDE DEF kids
      <4>4. Len(kids) = 0 /\ 1..0 = {}
        BY <4>2
      <4>5. rest = <<>>
        BY <4>4
      <4> HIDE DEF rest
      <4> QED
        BY <4>3, <4>5
    <3> QED
      BY <3>3, <3>4, <3>5, <3>6
  <2> QED
    BY <2>2, <2>3, <2>4 DEF SpansTellWork
<1>2. TraceSpec => []LimiterInv
    BY RequestsImplementSubmissions, AttestationsImplementLimiter, LimiterInvariant, PTL
<1> QED
    BY <1>1, <1>2, TraceInvariant, PTL

-----------------------------------------------------------------------------
(* Paged reads *)

\* No two records of the audit log have one log id, so that what a reader finds under an
\* id is the one record there is.
RecordsUnique == \A d, e \in audit : d.log_id = e.log_id => d = e

\* A new record has an id above all that are stored.
LEMMA RecordsUniqueStep ==
    ASSUME SessInv, RecordsUnique, [SessNext]_sessVars
    PROVE  RecordsUnique'
<1>1. ASSUME NEW s \in SessionId, NEW a \in Addr, NEW kind \in Kinds, SessionOp(s, a, kind)
      PROVE  RecordsUnique'
  <2> DEFINE new == [log_id |-> logCount, session |-> s, index |-> opCount[s], actor |-> a,
                     kind |-> kind, timestamp |-> now]
  <2>1. audit' = audit \cup {new} /\ new.log_id = logCount
      BY <1>1 DEF SessionOp
  <2>2. ASSUME NEW e \in audit
        PROVE  e.log_id # logCount
    <3>1. /\ e.session \in SessionId /\ e.index \in OpIndex
          /\ e.index < opCount[e.session] /\ slog[e.session][e.index] = e.log_id
        BY DEF SessInv, SessTypeOK, AuditLog, AuditTrail, AuditResolves
    <3>2. e.log_id \in 0..(logCount - 1) /\ logCount \in Nat
        BY <3>1 DEF SessInv, SessTypeOK, AuditTrail, SlogDense
    <3> QED
        BY <3>2
  <2> HIDE DEF new
  <2> QED
      BY <2>1, <2>2 DEF RecordsUnique
<1>2. ASSUME audit' \subseteq audit
      PROVE  RecordsUnique'
    BY <1>2 DEF RecordsUnique
<1>3. CASE SessionUserCall \/ SessionAdminCall \/ UNCHANGED sessVars
    BY <1>2, <1>3
    DEF SessionUserCall, Tick, CreateSession, CloseSession, CloseExpiredSession,
        RejectOperation, Abort, GetAuditLogCount, KeptBy, sessStore, SessionAdminCall,
        PruneAuditLogs, SetAuditLogRetention, SetAutoPruneThreshold, sessVars
<1> QED
    BY <1>1, <1>3 DEF SessNext

\* It is so throughout.
LEMMA RecordsUniqueInvariant == SessSpec => []RecordsUnique
<1>1. SessInit => RecordsUnique
    BY DEF SessInit, RecordsUnique
<1> QED
    BY <1>1, RecordsUniqueStep, SessInvariant, PTL DEF SessSpec

\* The records found under growing ids come in order, and are those with the ids.
LEMMA AuditRecordsFound ==
    ASSUME SessTypeOK, RecordsUnique, NEW ids \in Seq(Nat),
           \A i, j \in 1..Len(ids) : i < j => ids[i] < ids[j]
    PROVE  /\ InOrder(AuditRecords(ids))
           /\ Range(AuditRecords(ids)) = {e \in audit : e.log_id \in ToSet(ids)}
<1> DEFINE S == {e.log_id : e \in audit}
           present == Kept(ids, S)
           page == AuditRecords(ids)
           R == {p \in Nat \X Nat : p[1] < p[2]}
<1>1. /\ present \in Seq(Nat) /\ ToSet(present) = ToSet(ids) \cap S
    BY KeptIds
<1>2. \A i, j \in 1..Len(present) : i < j => present[i] < present[j]
  <2>1. \A i \in 1..Len(ids) : ids[i] \in Nat
      OBVIOUS
  <2>2. \A i, j \in 1..Len(ids) : i < j => <<ids[i], ids[j]>> \in R
      BY <2>1
  <2> HIDE DEF R
  <2>3. \A i, j \in 1..Len(present) : i < j => <<present[i], present[j]>> \in R
      BY <2>2, KeptOrdered
  <2> QED
      BY <2>3 DEF R
<1>3. /\ Len(present) \in Nat
      /\ \A x : x \in ToSet(present) <=> \E i \in 1..Len(present) : present[i] = x
    BY <1>1, NamedIn, LenProperties
<1>4. page = [i \in 1..Len(present) |-> CHOOSE e \in audit : e.log_id = present[i]]
    BY DEF AuditRecords
<1> HIDE DEF present, page
<1>5. DOMAIN page = 1..Len(present) /\ Len(page) = Len(present)
    BY <1>3, <1>4
<1>6. ASSUME NEW i \in 1..Len(present)
      PROVE  page[i] \in audit /\ page[i].log_id = present[i]
  <2>1. \E e \in audit : e.log_id = present[i]
      BY <1>1, <1>3
  <2> QED
      BY <1>4, <2>1
<1>7. InOrder(page)
  <2> SUFFICES ASSUME NEW i \in 2..Len(page) PROVE page[i - 1].log_id < page[i].log_id
      BY DEF InOrder
  <2>1. i \in 1..Len(present) /\ i - 1 \in 1..Len(present) /\ i - 1 < i
      BY <1>3, <1>5
  <2> QED
      BY <1>2, <1>6, <2>1
<1>8. Range(page) = {page[i] : i \in 1..Len(present)}
    BY <1>5 DEF Range
<1>9. ASSUME NEW e \in audit, e.log_id \in ToSet(ids)
      PROVE  e \in Range(page)
  <2>1. PICK i \in 1..Len(present) : present[i] = e.log_id
      BY <1>1, <1>3, <1>9
  <2> QED
      BY <1>6, <1>8, <2>1 DEF RecordsUnique
<1>10. \A i \in 1..Len(present) : page[i].log_id \in ToSet(ids)
    BY <1>1, <1>3, <1>6
<1>11. Range(page) = {e \in audit : e.log_id \in ToSet(ids)}
    BY <1>6, <1>8, <1>9, <1>10
<1> QED
    BY <1>7, <1>11 DEF page

\* The list of the numbers from..to-1.
ListsRange(ids, from, to) ==
    /\ ids \in Seq(Nat) /\ Len(ids) \in Nat
    /\ \A i \in 1..Len(ids) : ids[i] = from + i - 1 /\ from + i - 1 \in from..(to - 1)
    /\ \A x \in from..(to - 1) : \E i \in 1..Len(ids) : x = from + i - 1

\* The ids of a range.
LEMMA IdsOfRange ==
    ASSUME NEW from \in Nat, NEW to \in Nat
    PROVE  ListsRange(IdsFrom(from, to), from, to)
<1> DEFINE n == IF to > from THEN to - from ELSE 0
           ids == IdsFrom(from, to)
<1>1. ids = [i \in 1..n |-> from + i - 1] /\ n \in Nat
    BY DEF IdsFrom
<1>2. \A i \in 1..n : from + i - 1 \in from..(to - 1) /\ from + i - 1 \in Nat
    OBVIOUS
<1>3. \A x \in from..(to - 1) : x - from + 1 \in 1..n /\ x = from + (x - from + 1) - 1
    OBVIOUS
<1> HIDE DEF n, ids
<1>4. ids \in Seq(Nat) /\ Len(ids) = n
    BY <1>1, <1>2
<1>5. ListsRange(ids, from, to)
    BY <1>1, <1>2, <1>3, <1>4 DEF ListsRange
<1> QED
    BY <1>5 DEF ids

\* A page of n ids holds those whose quotient by n is its number.
LEMMA PageOfId ==
    ASSUME NEW x \in Nat, NEW i \in Nat, NEW n \in Nat, n > 0
    PROVE  /\ i * n \in Nat
           /\ x \div n = i <=> i * n <= x /\ x < i * n + n
<1> DEFINE q == x \div n
           a == n * q
           b == i * n
<1>1. q \in Nat /\ a <= x /\ x < a + n
    BY Quotient
<1>2. b \in Nat /\ a \in Nat
    BY <1>1
<1>3. q < i => a + n <= b
  <2>1. ASSUME q < i PROVE a + n <= b
    <3>1. q + 1 <= i /\ n * (q + 1) = a + n /\ n * i = b
        BY <1>1, <2>1
    <3>2. n * (q + 1) <= n * i
        BY <1>1, <3>1
    <3> QED
        BY <3>1, <3>2
  <2> QED
    BY <2>1
<1>4. i < q => b + n <= a
  <2>1. ASSUME i < q PROVE b + n <= a
    <3>1. i + 1 <= q /\ n * (i + 1) = b + n
        BY <1>1, <2>1
    <3>2. n * (i + 1) <= n * q
        BY <1>1, <3>1
    <3> QED
        BY <3>1, <3>2
  <2> QED
    BY <2>1
<1>5. q = i => a = b
    OBVIOUS
<1> HIDE DEF q, a, b
<1>6. q = i <=> b <= x /\ x < b + n
    BY <1>1, <1>2, <1>3, <1>4, <1>5
<1> QED
    BY <1>2, <1>6 DEF q, b

\* A page of the audit log.
LEMMA AuditPage ==
    ASSUME SessInv, RecordsUnique, NEW n \in 1..PageCap, NEW i \in 0..logCount
    PROVE  LET page == GetAuditLogsPaginated(i * n, n)
           IN  InOrder(page) /\ Range(page) = {e \in audit : e.log_id \div n = i}
<1> USE SessionConstants DEF SessionConstants
<1>1. n \in Nat /\ n > 0 /\ i \in Nat /\ logCount \in Nat /\ AtMost(n, PageCap) = n
    BY PageCapIsPositive DEF PageCapIsPositive, AtMost, SessInv, SessTypeOK
<1> DEFINE o == i * n
           to == AtMost(o + n, logCount)
           ids == IdsFrom(o, to)
<1>2. o \in Nat
    BY <1>1, PageOfId
<1>3. GetAuditLogsPaginated(i * n, n) = AuditRecords(ids)
    BY <1>1 DEF GetAuditLogsPaginated
<1>4. \A x \in Nat : x \div n = i <=> o <= x /\ x < o + n
    BY <1>1, PageOfId
<1> HIDE DEF o
<1>5. to \in Nat /\ \A x \in Nat : x < logCount => (x < to <=> x < o + n)
    BY <1>1, <1>2 DEF AtMost
<1> HIDE DEF to
<1>6. ListsRange(ids, o, to)
    BY <1>2, <1>5, IdsOfRange
<1> HIDE DEF ids
<1>7. \A j, k \in 1..Len(ids) : j < k => ids[j] < ids[k]
    BY <1>2, <1>6 DEF ListsRange
<1>8. \A x : x \in ToSet(ids) <=> x \in o..(to - 1)
  <2>1. \A x : x \in ToSet(ids) <=> \E j \in 1..Len(ids) : ids[j] = x
      BY <1>6, NamedIn DEF ListsRange
  <2>2. ASSUME NEW x, x \in ToSet(ids) PROVE x \in o..(to - 1)
    <3>1. PICK j \in 1..Len(ids) : ids[j] = x
        BY <2>1, <2>2
    <3> QED
        BY <1>6, <3>1 DEF ListsRange
  <2>3. ASSUME NEW x \in o..(to - 1) PROVE x \in ToSet(ids)
    <3>1. PICK j \in 1..Len(ids) : x = o + j - 1
        BY <1>6 DEF ListsRange
    <3> QED
        BY <1>6, <2>1, <3>1 DEF ListsRange
  <2> QED
      BY <2>2, <2>3
<1>9. ASSUME NEW e \in audit
      PROVE  e.log_id \in Nat /\ e.log_id < logCount
  <2>1. /\ e.session \in SessionId /\ e.index \in OpIndex
        /\ e.index < opCount[e.session] /\ slog[e.session][e.index] = e.log_id
      BY DEF SessInv, SessTypeOK, AuditLog, AuditTrail, AuditResolves
  <2> QED
      BY <1>1, <2>1 DEF SessInv, SessTypeOK, AuditTrail, SlogDense
<1>10. \A e \in audit : e.log_id \in ToSet(ids) <=> e.log_id \div n = i
    BY <1>2, <1>4, <1>5, <1>8, <1>9
<1>11. /\ InOrder(AuditRecords(ids))
       /\ Range(AuditRecords(ids)) = {e \in audit : e.log_id \in ToSet(ids)}
    BY <1>6, <1>7, AuditRecordsFound DEF SessInv, ListsRange
<1> QED
    BY <1>3, <1>10, <1>11

\* The records of a range of the operations of a session.
LEMMA LoggedOpsFound ==
    ASSUME SessInv, RecordsUnique, NEW s \in SessionId, NEW from \in Nat,
           NEW to \in 0..opCount[s]
    PROVE  /\ InOrder(AuditRecords(LoggedOps(s, from, to)))
           /\ Range(AuditRecords(LoggedOps(s, from, to)))
                = {e \in audit : e.session = s /\ e.index \in from..(to - 1)}
<1> USE SessionConstants DEF SessionConstants
<1> DEFINE ids == IdsFrom(from, to)
           m == Len(ids)
           seq == [i \in 1..m |-> slog[s][from + i - 1]]
           S == {slog[s][i] : i \in OpIndex} \ {NoLog}
           logged == Kept(seq, S)
<1>1. opCount[s] \in 0..MaxOps /\ opCount[s] \in Nat /\ to \in Nat
    BY DEF SessInv, SessTypeOK
<1>2. /\ m \in Nat
      /\ \A i \in 1..m : from + i - 1 \in from..(to - 1)
      /\ \A x \in from..(to - 1) : \E i \in 1..m : x = from + i - 1
  <2>1. ListsRange(ids, from, to)
      BY <1>1, IdsOfRange
  <2> HIDE DEF ids
  <2> QED
      BY <2>1 DEF ListsRange
<1>3. LoggedOps(s, from, to) = logged
    BY DEF LoggedOps
<1> HIDE DEF ids, m
<1>4. \A x \in from..(to - 1) : x \in OpIndex /\ x \in Nat /\ x < opCount[s]
    BY <1>1 DEF OpIndex
<1>5. \A x \in from..(to - 1) : slog[s][x] \in Nat /\ slog[s][x] \in S
    BY <1>4 DEF SessInv, SessTypeOK, AuditTrail, SlogDense
<1> HIDE DEF S
<1>6. seq \in Seq(Nat) /\ Len(seq) = m /\ \A i \in 1..m : seq[i] = slog[s][from + i - 1]
  <2>1. \A i \in 1..m : slog[s][from + i - 1] \in Nat
      BY <1>2, <1>5
  <2> QED
      BY <1>2, <2>1
<1> HIDE DEF seq
<1>7. \A i, j \in 1..m : i < j => seq[i] < seq[j]
  <2> SUFFICES ASSUME NEW i \in 1..m, NEW j \in 1..m, i < j PROVE seq[i] < seq[j]
      OBVIOUS
  <2> DEFINE x == from + i - 1
             y == from + j - 1
  <2>1. x < y /\ x \in from..(to - 1) /\ y \in from..(to - 1)
      BY <1>2
  <2>2. seq[i] = slog[s][x] /\ seq[j] = slog[s][y]
      BY <1>6
  <2> HIDE DEF x, y
  <2> QED
      BY <1>4, <2>1, <2>2 DEF SessInv, AuditTrail, SlogIncreasing
<1>8. logged \in Seq(Nat) /\ ToSet(logged) = ToSet(seq) \cap S
    BY <1>6, KeptIds
<1> DEFINE R == {p \in Nat \X Nat : p[1] < p[2]}
<1>9. \A i, j \in 1..Len(logged) : i < j => logged[i] < logged[j]
  <2>1. \A i \in 1..m : seq[i] \in Nat
      BY <1>6
  <2>2. \A i, j \in 1..Len(seq) : i < j => <<seq[i], seq[j]>> \in R
      BY <1>6, <1>7, <2>1
  <2> HIDE DEF R
  <2>3. \A i, j \in 1..Len(logged) : i < j => <<logged[i], logged[j]>> \in R
      BY <1>6, <2>2, KeptOrdered
  <2> QED
      BY <2>3 DEF R
<1>10. \A l : l \in ToSet(seq) <=> \E x \in from..(to - 1) : l = slog[s][x]
  <2>1. \A l : l \in ToSet(seq) <=> \E i \in 1..m : seq[i] = l
      BY <1>6, NamedIn
  <2>2. ASSUME NEW x \in from..(to - 1) PROVE slog[s][x] \in ToSet(seq)
    <3>1. PICK i \in 1..m : x = from + i - 1
        BY <1>2
    <3> QED
        BY <1>6, <2>1, <3>1
  <2>3. ASSUME NEW i \in 1..m PROVE \E x \in from..(to - 1) : seq[i] = slog[s][x]
      BY <1>2, <1>6
  <2> QED
      BY <2>1, <2>2, <2>3
<1> HIDE DEF logged
<1>11. /\ InOrder(AuditRecords(logged))
       /\ Range(AuditRecords(logged)) = {e \in audit : e.log_id \in ToSet(logged)}
    BY <1>8, <1>9, AuditRecordsFound DEF SessInv
<1>12. ASSUME NEW e \in audit
       PROVE  e.log_id \in ToSet(logged) <=> e.session = s /\ e.index \in from..(to - 1)
  <2>1. /\ e.session \in SessionId /\ e.index \in OpIndex
        /\ e.index < opCount[e.session] /\ slog[e.session][e.index] = e.log_id
      BY DEF SessInv, SessTypeOK, AuditLog, AuditTrail, AuditResolves
  <2>2. e.log_id \in ToSet(logged) <=> \E x \in from..(to - 1) : e.log_id = slog[s][x]
      BY <1>5, <1>8, <1>10
  <2>3. ASSUME NEW x \in from..(to - 1), e.log_id = slog[s][x]
        PROVE  e.session = s /\ e.index = x
      BY <1>4, <2>1, <2>3 DEF SessInv, AuditTrail, SlogInjective
  <2> QED
      BY <2>1, <2>2, <2>3
<1> QED
    BY <1>3, <1>11, <1>12

\* A page of the log of a session, and the latest of it.
LEMMA SessionPages ==
    ASSUME SessInv, RecordsUnique, NEW s \in SessionId, NEW n \in 1..PageCap
    PROVE  /\ \A i \in 0..opCount[s] :
                LET page == GetSessionLogsPaginated(s, i * n, n)
                IN  InOrder(page)
                    /\ Range(page) = {e \in audit : e.session = s /\ e.index \div n = i}
           /\ Range(GetSessionAuditLogs(s, n))
                = {e \in audit : e.session = s /\ e.index + n >= opCount[s]}
<1> USE SessionConstants DEF SessionConstants
<1> DEFINE c == opCount[s]
<1>1. n \in Nat /\ n > 0 /\ c \in Nat /\ AtMost(n, PageCap) = n
    BY PageCapIsPositive DEF PageCapIsPositive, AtMost, SessInv, SessTypeOK
<1>2. \A e \in audit : e.session = s => e.index \in Nat /\ e.index < c
    BY DEF SessInv, SessTypeOK, AuditLog, OpIndex, AuditTrail, AuditResolves
<1>3. ASSUME NEW i \in 0..c
      PROVE  LET page == GetSessionLogsPaginated(s, i * n, n)
             IN  InOrder(page)
                 /\ Range(page) = {e \in audit : e.session = s /\ e.index \div n = i}
  <2> DEFINE o == i * n
             to == AtMost(o + n, c)
             page == AuditRecords(LoggedOps(s, o, to))
  <2>1. i \in Nat
      BY <1>1
  <2>2. o \in Nat /\ \A x \in Nat : x \div n = i <=> o <= x /\ x < o + n
      BY <1>1, <2>1, PageOfId
  <2>3. GetSessionLogsPaginated(s, i * n, n) = page
      BY <1>1 DEF GetSessionLogsPaginated
  <2> HIDE DEF o, c
  <2>4. to \in 0..c /\ \A x \in Nat : x < c => (x < to <=> x < o + n)
      BY <1>1, <2>2 DEF AtMost
  <2> HIDE DEF to
  <2>5. InOrder(page) /\ Range(page) = {e \in audit : e.session = s /\ e.index \in o..(to - 1)}
      BY <2>2, <2>4, LoggedOpsFound DEF c
  <2>6. \A e \in audit : e.session = s => (e.index \in o..(to - 1) <=> e.index \div n = i)
    <3> SUFFICES ASSUME NEW e \in audit, e.session = s
                 PROVE  e.index \in o..(to - 1) <=> e.index \div n = i
        OBVIOUS
    <3> DEFINE x == e.index
    <3>1. x \in Nat /\ x < c
        BY <1>2
    <3> HIDE DEF x
    <3>2. /\ x \div n = i <=> o <= x /\ x < o + n
          /\ x < to <=> x < o + n
        BY <2>2, <2>4, <3>1
    <3>3. x \in o..(to - 1) <=> o <= x /\ x < to
        BY <2>2, <2>4, <3>1
    <3> QED
        BY <3>2, <3>3 DEF x
  <2> HIDE DEF page
  <2>7. {e \in audit : e.session = s /\ e.index \in o..(to - 1)}
           = {e \in audit : e.session = s /\ e.index \div n = i}
      BY <2>6
  <2> QED
      BY <2>3, <2>5, <2>7
<1>4. Range(GetSessionAuditLogs(s, n))
        = {e \in audit : e.session = s /\ e.index + n >= opCount[s]}
  <2> DEFINE o == FirstOfLatest(s, n)
  <2>1. GetSessionAuditLogs(s, n) = AuditRecords(LoggedOps(s, o, c))
      BY DEF GetSessionAuditLogs
  <2>2. o \in Nat /\ c \in 0..c /\ \A x \in Nat : x < c => (x \in o..(c - 1) <=> x + n >= c)
      BY <1>1 DEF FirstOfLatest
  <2> HIDE DEF o
  <2>3. Range(AuditRecords(LoggedOps(s, o, c)))
          = {e \in audit : e.session = s /\ e.index \in o..(c - 1)}
      BY <2>2, LoggedOpsFound
  <2> QED
      BY <1>2, <2>1, <2>2, <2>3
<1> QED
    BY <1>3, <1>4

\* Two parts of a list that meet.
LEMMA PartsJoined ==
    ASSUME NEW X, NEW s \in Seq(X), NEW a \in 0..Len(s), NEW b \in a..Len(s)
    PROVE  /\ SubSeq(s, 1, a) \o SubSeq(s, a + 1, b) = SubSeq(s, 1, b)
           /\ b = Len(s) => SubSeq(s, 1, b) = s
<1> DEFINE n == Len(s)
           u == SubSeq(s, 1, a)
           v == SubSeq(s, a + 1, b)
           w == SubSeq(s, 1, b)
<1>1. n \in Nat /\ a \in Nat /\ b \in Nat /\ a <= b /\ b <= n
    OBVIOUS
<1>2. \A i \in 1..n : s[i] \in X
    OBVIOUS
<1> HIDE DEF n
<1>3. /\ u \in Seq(X) /\ Len(u) = IF 1 <= a THEN a - 1 + 1 ELSE 0
      /\ \A i \in 1..(a - 1 + 1) : u[i] = s[1 + i - 1]
    BY <1>1, <1>2, SubSeqProperties
<1>4. /\ v \in Seq(X) /\ Len(v) = IF a + 1 <= b THEN b - (a + 1) + 1 ELSE 0
      /\ \A i \in 1..(b - (a + 1) + 1) : v[i] = s[(a + 1) + i - 1]
  <2>1. a + 1 \in Int /\ b \in Int /\ \A i \in (a + 1)..b : s[i] \in X
      BY <1>1, <1>2
  <2> QED
      BY <2>1, SubSeqProperties
<1>5. /\ w \in Seq(X) /\ Len(w) = IF 1 <= b THEN b - 1 + 1 ELSE 0
      /\ \A i \in 1..(b - 1 + 1) : w[i] = s[1 + i - 1]
    BY <1>1, <1>2, SubSeqProperties
<1> HIDE DEF u, v, w
<1>6. /\ Len(u) = a /\ \A i \in 1..a : u[i] = s[i]
      /\ Len(v) = b - a /\ \A i \in 1..(b - a) : v[i] = s[a + i]
      /\ Len(w) = b /\ \A i \in 1..b : w[i] = s[i]
    BY <1>1, <1>3, <1>4, <1>5
<1>7. /\ u \o v \in Seq(X) /\ Len(u \o v) = Len(u) + Len(v)
      /\ \A i \in 1..(Len(u) + Len(v)) :
             (u \o v)[i] = IF i <= Len(u) THEN u[i] ELSE v[i - Len(u)]
    BY <1>3, <1>4, ConcatProperties
<1> DEFINE j == u \o v
<1>8. Len(j) = b
    BY <1>1, <1>6, <1>7
<1>9. \A i \in 1..b : j[i] = s[i]
    BY <1>1, <1>6, <1>7
<1> HIDE DEF j
<1>10. j = w
    BY <1>5, <1>6, <1>7, <1>8, <1>9, SeqEqual, ZenonT(30) DEF j
<1>11. b = n => w = s
    BY <1>5, <1>6, SeqEqual DEF n
<1> QED
    BY <1>10, <1>11 DEF j, u, v, w, n

\* The reader's progress after k pages of the list found.
Reached(w, k, found) ==
    \/ w = [ids |-> found, next |-> Len(idIndex)]
    \/ \E m \in Nat : /\ k <= m /\ m < Len(idIndex) /\ m <= Len(found)
                      /\ w = [ids |-> SubSeq(found, 1, m), next |-> m]

\* A page leads on.
LEMMA NextReached ==
    ASSUME NEW f, Matching(f) \in Seq(Nat), idIndex \in Seq(Nat),
           Len(Matching(f)) <= Len(idIndex), NEW limit \in 1..(PageCap + 1), NEW k \in Nat,
           NEW w, Reached(w, k, Matching(f))
    PROVE  Reached(NextPage(w, limit, f), k + 1, Matching(f))
<1> DEFINE found == Matching(f)
           total == Len(idIndex)
           n == AtMost(limit, PageCap)
           z == Len(found)
<1>1. n \in Nat /\ n > 0 /\ total \in Nat /\ z \in Nat /\ z <= total
    BY PageCapIsPositive DEF PageCapIsPositive, AtMost
<1>2. CASE w = [ids |-> found, next |-> total]
    BY <1>2 DEF NextPage, Reached
<1>3. ASSUME NEW m \in Nat, k <= m, m < total, m <= z,
             w = [ids |-> SubSeq(found, 1, m), next |-> m]
      PROVE  Reached(NextPage(w, limit, f), k + 1, found)
  <2> DEFINE to == AtMost(m + n, z)
             p == GetAttestationsPaginated(m, limit, f)
             on == IF z > m + n THEN m + n ELSE total
  <2>1. p = [ids |-> SubSeq(found, m + 1, to), next |-> on]
      BY <1>1, <1>3 DEF GetAttestationsPaginated, ResumeAt
  <2>2. NextPage(w, limit, f) = [ids |-> w.ids \o p.ids, next |-> p.next]
      BY <1>1, <1>3 DEF NextPage
  <2> HIDE DEF p, n
  <2>3. /\ to \in m..z /\ m \in 0..z
        /\ z > m + n => to = m + n /\ on = m + n /\ to < total
        /\ ~(z > m + n) => to = z /\ on = total
      BY <1>1, <1>3 DEF AtMost
  <2> HIDE DEF to, on
  <2>4. SubSeq(found, 1, m) \o SubSeq(found, m + 1, to) = SubSeq(found, 1, to)
        /\ (to = z => SubSeq(found, 1, to) = found)
      BY <2>3, PartsJoined
  <2>5. NextPage(w, limit, f) = [ids |-> SubSeq(found, 1, to), next |-> on]
      BY <1>3, <2>1, <2>2, <2>4
  <2> HIDE DEF found, total, z
  <2>6. CASE z > m + n
    <3>1. to \in Nat /\ k + 1 <= to /\ to < total /\ to <= z /\ on = to
        BY <1>1, <1>3, <2>3, <2>6
    <3> QED
        BY <2>5, <3>1 DEF Reached, total, z
  <2>7. CASE ~(z > m + n)
      BY <2>3, <2>4, <2>5, <2>7 DEF Reached, total
  <2> QED
      BY <2>6, <2>7 DEF found
<1> QED
    BY <1>2, <1>3 DEF Reached

\* What the recursion of Walk computes after k pages, given what it computed of those before.
WalkNext(g, limit, f, k) ==
    IF k = 0 THEN [ids |-> <<>>, next |-> 0] ELSE NextPage(g[k - 1], limit, f)

WalkUpTo(g, limit, f, m) == g = [k \in 0..m |-> WalkNext(g, limit, f, k)]

\* The recursion defines a function.
LEMMA WalkExists ==
    ASSUME NEW limit, NEW f, NEW m \in Nat
    PROVE  \E g : WalkUpTo(g, limit, f, m)
<1> DEFINE T == {n \in Nat : \E g : WalkUpTo(g, limit, f, n)}
<1>1. 0 \in T
  <2> DEFINE g == [k \in 0..0 |-> [ids |-> <<>>, next |-> 0]]
  <2>1. \A k \in 0..0 : WalkNext(g, limit, f, k) = [ids |-> <<>>, next |-> 0]
      BY DEF WalkNext
  <2>2. WalkUpTo(g, limit, f, 0)
      BY <2>1 DEF WalkUpTo
  <2> QED
      BY <2>2
<1>2. ASSUME NEW n \in Nat, n \in T
      PROVE  n + 1 \in T
  <2>1. PICK g : WalkUpTo(g, limit, f, n)
      BY <1>2
  <2> DEFINE h == [k \in 0..(n + 1) |-> IF k <= n THEN g[k] ELSE WalkNext(g, limit, f, n + 1)]
  <2>2. ASSUME NEW k \in 0..(n + 1)
        PROVE  h[k] = WalkNext(h, limit, f, k)
    <3>1. k # 0 => k - 1 \in 0..n /\ k - 1 \in 0..(n + 1) /\ k - 1 <= n
        OBVIOUS
    <3>2. k # 0 => h[k - 1] = g[k - 1]
        BY <3>1
    <3>3. WalkNext(h, limit, f, k) = WalkNext(g, limit, f, k)
        BY <3>2 DEF WalkNext
    <3>4. k <= n => k \in 0..n /\ g[k] = WalkNext(g, limit, f, k)
        BY <2>1 DEF WalkUpTo
    <3>5. ~(k <= n) => k = n + 1
        OBVIOUS
    <3> QED
        BY <3>3, <3>4, <3>5
  <2>3. h = [k \in 0..(n + 1) |-> h[k]]
      OBVIOUS
  <2> HIDE DEF h
  <2>4. WalkUpTo(h, limit, f, n + 1)
      BY <2>2, <2>3 DEF WalkUpTo
  <2> QED
      BY <2>4
<1> HIDE DEF T
<1>3. Nat \subseteq T
    BY <1>1, <1>2, NaturalsBySuccessor
<1> QED
    BY <1>3 DEF T

\* A reader that follows the pages gets what was found, and reaches the total.
LEMMA WalkFinds ==
    ASSUME AttInv, NEW f, NEW limit \in 1..(PageCap + 1)
    PROVE  Walk(limit, f) = [ids |-> Matching(f), next |-> Len(idIndex)]
<1> DEFINE S == {id \in ToSet(idIndex) : Matches(f, id)}
           found == Matching(f)
           total == Len(idIndex)
           m == total + 1
           walk == CHOOSE walk : walk = [k \in 0..m |->
                       IF k = 0 THEN [ids |-> <<>>, next |-> 0]
                       ELSE NextPage(walk[k - 1], limit, f)]
<1>1. idIndex \in Seq(Nat) /\ total \in Nat
    BY DEF AttInv, AttTypeOK
<1>2. found \in Seq(Nat) /\ Len(found) <= total /\ Len(found) \in Nat
  <2> DEFINE R == Nat \X Nat
  <2>1. \A i, j \in 1..Len(idIndex) : i < j => <<idIndex[i], idIndex[j]>> \in R
      BY <1>1
  <2> HIDE DEF S, R
  <2>2. Kept(idIndex, S) \in Seq(Nat) /\ Len(Kept(idIndex, S)) <= Len(idIndex)
      BY <1>1, <2>1, KeptIds, KeptOrdered
  <2>3. found = Kept(idIndex, S)
      BY DEF Matching, S
  <2> HIDE DEF found
  <2> QED
      BY <2>2, <2>3, LenProperties
<1>3. Walk(limit, f) = walk[m]
    BY DEF Walk
<1>4. walk = [k \in 0..m |-> WalkNext(walk, limit, f, k)]
  <2>1. \E g : WalkUpTo(g, limit, f, m)
    <3>1. m \in Nat
        BY <1>1
    <3> HIDE DEF m
    <3> QED
        BY <3>1, WalkExists
  <2> QED
      BY <2>1 DEF WalkUpTo, WalkNext
<1> HIDE DEF walk
<1> DEFINE T == {k \in Nat : k <= m => Reached(walk[k], k, found)}
<1>5. 0 \in T
  <2>1. walk[0] = [ids |-> <<>>, next |-> 0]
      BY <1>1, <1>4 DEF WalkNext
  <2>2. CASE total = 0
    <3> HIDE DEF found
    <3>1. found = <<>>
        BY <1>2, <2>2, EmptySeq
    <3> QED
        BY <2>1, <2>2, <3>1 DEF Reached
  <2>3. CASE total # 0
    <3>1. SubSeq(found, 1, 0) = <<>>
        BY SubSeqEmpty
    <3> HIDE DEF found
    <3>2. 0 \in Nat /\ 0 <= 0 /\ 0 < Len(idIndex) /\ 0 <= Len(found)
          /\ walk[0] = [ids |-> SubSeq(found, 1, 0), next |-> 0]
        BY <1>1, <1>2, <2>1, <2>3, <3>1
    <3> QED
        BY <3>2 DEF Reached
  <2> QED
      BY <2>2, <2>3
<1>6. ASSUME NEW k \in Nat, k \in T
      PROVE  k + 1 \in T
  <2> SUFFICES ASSUME k + 1 <= m PROVE Reached(walk[k + 1], k + 1, found)
      OBVIOUS
  <2>1. Reached(walk[k], k, found)
      BY <1>1, <1>6
  <2>2. k + 1 \in 0..m /\ k + 1 # 0 /\ (k + 1) - 1 = k
      BY <1>1
  <2>3. walk[k + 1] = NextPage(walk[k], limit, f)
      BY <1>4, <2>2 DEF WalkNext
  <2>4. Reached(NextPage(walk[k], limit, f), k + 1, found)
      BY <1>1, <1>2, <2>1, NextReached
  <2> QED
      BY <2>3, <2>4
<1>7. Reached(walk[m], m, found)
  <2> HIDE DEF T
  <2>1. Nat \subseteq T
      BY <1>5, <1>6, NaturalsBySuccessor
  <2> QED
      BY <1>1, <2>1 DEF T
<1> HIDE DEF found
<1>8. walk[m] = [ids |-> found, next |-> total]
  <2>1. \A i \in Nat : ~(m <= i /\ i < total)
      BY <1>1
  <2> HIDE DEF m
  <2> QED
      BY <1>7, <2>1 DEF Reached
<1> QED
    BY <1>3, <1>8 DEF found

\* A key leads to an attestation of its issuer, the state reported agrees with the guard of
\* the operations, and the diagnostics with the stores.
LEMMA ReadsAgree ==
    ASSUME SessInv, AttInv
    PROVE  /\ \A a \in Addr, h \in Hash : GetAttestationByHash(a, h) # NoId =>
                attestations[GetAttestationByHash(a, h) + 1].issuer = a
           /\ \A s \in SessionId : Exists(s) =>
                (GetSessionState(s) \in {"Created", "Active"} /\ opCount[s] < MaxOps
                   <=> SessionOpen(s))
           /\ Diagnostics.attestations = Len(attestations)
           /\ Diagnostics.sessions = Cardinality({s \in SessionId : Exists(s)})
<1>1. \A a \in Addr, h \in Hash : GetAttestationByHash(a, h) # NoId =>
         attestations[GetAttestationByHash(a, h) + 1].issuer = a
    BY DEF AttInv, UsedMatchesStore, GetAttestationByHash
<1>2. \A s \in SessionId : Exists(s) =>
         (GetSessionState(s) \in {"Created", "Active"} /\ opCount[s] < MaxOps
            <=> SessionOpen(s))
    BY DEF GetSessionState, SessionOpen
<1>3. Diagnostics.attestations = Len(attestations)
    BY DEF Diagnostics, AttInv, IndexMatchesStore
<1>4. {s \in SessionId : Exists(s)} = 0..(nextSession - 1) /\ nextSession \in Nat
    BY SessionConstants
    DEF SessionConstants, SessInv, SessTypeOK, StateMatchesOps, Exists, SessionId
<1>5. Cardinality(0..(nextSession - 1)) = nextSession
    BY <1>4, FS_Interval
<1> QED
    BY <1>1, <1>2, <1>3, <1>4, <1>5 DEF Diagnostics

\* Whatever is submitted, operated, pruned and expires: following the pages of the
\* attestations reads every match once and in order, for every filter and page size, pages
\* of the audit log and of the log of a session hold each stored record of theirs, and the
\* other reads of src/contract.rs agree with what is stored.
THEOREM PagesCompleteHolds == AttSpec => []PagesComplete
<1>1. SessInv /\ RecordsUnique /\ AttInv => PagesComplete
  <2> SUFFICES ASSUME SessInv, RecordsUnique, AttInv PROVE PagesComplete
      OBVIOUS
  <2>1. \A f \in [minId : 0..1, issuer : Addr \cup {NoAddr}], limit \in 1..(PageCap + 1) :
           Walk(limit, f) = [ids |-> Matching(f), next |-> Len(idIndex)]
      BY WalkFinds
  <2>2. \A n \in 1..PageCap, i \in 0..logCount :
           LET page == GetAuditLogsPaginated(i * n, n)
           IN  InOrder(page) /\ Range(page) = {e \in audit : e.log_id \div n = i}
      BY AuditPage
  <2>3. \A s \in SessionId, n \in 1..PageCap :
          /\ \A i \in 0..opCount[s] :
               LET page == GetSessionLogsPaginated(s, i * n, n)
               IN  InOrder(page)
                   /\ Range(page) = {e \in audit : e.session = s /\ e.index \div n = i}
          /\ Range(GetSessionAuditLogs(s, n))
               = {e \in audit : e.session = s /\ e.index + n >= opCount[s]}
      BY SessionPages
  <2> QED
      BY <2>1, <2>2, <2>3, ReadsAgree DEF PagesComplete
<1>2. AttSpec => []SessInv /\ []RecordsUnique
    BY AttestationsImplementSessions, SessInvariant, RecordsUniqueInvariant, PTL
<1> QED
    BY <1>1, <1>2, AttInvariant, PTL
=============================================================================
