---------------------------- MODULE RateLimiter -----------------------------
(***************************************************************************)
(* The rate limiter of attestation submissions (src/rate_limiter.rs) and   *)
(* the batch accounting of src/contract.rs.  The limiter is called with    *)
(* the attestor, whether it is the admin, and the role the contract found  *)
(* for it; those three are inputs here.                                    *)
(***************************************************************************)
EXTENDS Accounts, Integers

CONSTANTS
    Limit,          \* RateLimitConfig values an admin may store
    DefaultLimit,   \* what get_config returns when none is stored
    BurstLimit,     \* BurstControlConfig values
    FairLimit,      \* FairnessConfig values
    LimitRole,      \* roles that may carry an override
    NoConfig,       \* no config, override or state stored
    Multiplier,     \* BATCH_ATTESTATION_RATE_MULTIPLIER
    MaxBatch,       \* MAX_BATCH_SIZE
    MaxLedger       \* bound: the ledger sequence stops here

\* validate_config, validate_burst_config, validate_fairness_config
ASSUME LimiterConstants ==
    /\ Limit \subseteq [max : Nat \ {0}, window : Nat \ {0}]
    /\ DefaultLimit \in [max : Nat \ {0}, window : Nat \ {0}]
    /\ BurstLimit \subseteq [capacity : Nat \ {0}, refill : Nat \ {0}]
    /\ FairLimit \subseteq [share : 1..100, minTotal : Nat]
    /\ NoConfig \notin Limit
    /\ NoConfig \notin BurstLimit
    /\ NoConfig \notin FairLimit
    /\ NoConfig \notin LimitRole
    /\ Multiplier \in Nat \ {0}
    /\ MaxBatch \in Nat
    /\ MaxLedger \in Nat

VARIABLES
    ledger,       \* env.ledger().sequence()
    rlConfig,     \* RL_CONFIG
    roleLimit,    \* RL_ROLE: role -> override
    addrLimit,    \* RL_ADDR: address -> override
    rlState,      \* RL_STATE: address -> window
    burstConfig,  \* RL_BST_CFG
    burst,        \* RL_BST_ST: address -> bucket
    fairConfig,   \* RL_FAIR_CFG
    global,       \* RL_GLOBAL
    admitted,     \* slots granted to an address up to the end of a ledger (ghost)
    metered,      \* submissions that passed a burst gate, likewise (ghost)
    gated         \* submissions of anyone the fair share let pass, likewise (ghost)

rlStore == <<rlConfig, roleLimit, addrLimit, rlState, burstConfig, burst,
             fairConfig, global>>
rlGhosts == <<admitted, metered, gated>>
rlVars == <<ledger, rlStore, rlGhosts>>

Ledgers == 0..MaxLedger

\* A stored window and a stored bucket both start out absent.
Absent == [present |-> FALSE, n |-> 0, at |-> 0]
Stored(n, at) == [present |-> TRUE, n |-> n, at |-> at]

RlInit ==
    /\ ledger = 0
    /\ rlConfig = NoConfig
    /\ roleLimit = [r \in LimitRole |-> NoConfig]
    /\ addrLimit = [a \in Addr |-> NoConfig]
    /\ rlState = [a \in Addr |-> Absent]
    /\ burstConfig = NoConfig
    /\ burst = [a \in Addr |-> Absent]
    /\ fairConfig = NoConfig
    /\ global = Absent
    /\ admitted = [a \in Addr |-> [l \in Ledgers |-> 0]]
    /\ metered = [a \in Addr |-> [l \in Ledgers |-> 0]]
    /\ gated = [l \in Ledgers |-> 0]

-----------------------------------------------------------------------------
\* The running totals f once n more are granted in this ledger.
Granted(f, n) == [l \in Ledgers |-> IF l < ledger THEN f[l] ELSE f[l] + n]

GlobalConfig == IF rlConfig = NoConfig THEN DefaultLimit ELSE rlConfig

\* address override, then role override, then the global config
ResolveConfig(a, role) ==
    IF addrLimit[a] # NoConfig THEN addrLimit[a]
    ELSE IF role \in LimitRole /\ roleLimit[role] # NoConfig
         THEN roleLimit[role]
         ELSE GlobalConfig

\* Bugs LimiterBounds and RetryAfterWindow must catch: off by one either way.
WindowExpiresEarly(start, window) == ledger - start >= window - 1
WindowExpiresLate(start, window) == ledger - start > window

IsWindowExpired(start, window) == ledger - start >= window

\* A bug RetryAfterWindow must catch: the count is reset, the start is not.
WindowKeepsStart(stored, window) ==
    IF stored.present /\ IsWindowExpired(stored.at, window)
    THEN Stored(0, stored.at)
    ELSE IF stored.present THEN stored ELSE Stored(0, ledger)

\* The window an attestor's submission falls in: the stored one, or a new one
\* that starts with this submission.
WindowOf(stored, window) ==
    IF ~stored.present \/ IsWindowExpired(stored.at, window)
    THEN Stored(0, ledger)
    ELSE stored

Least(x, y) == IF x <= y THEN x ELSE y

\* A bug LimiterBounds must catch: the refill is not capped.
RefilledUncapped(a) ==
    IF ~burst[a].present THEN Stored(burstConfig.capacity, ledger)
    ELSE LET elapsed == ledger - burst[a].at
         IN  IF elapsed = 0 THEN burst[a]
             ELSE Stored(burst[a].n + elapsed * burstConfig.refill, ledger)

\* A bug RetryAfterWindow must catch: the ledger of the refill moves, the tokens are lost.
RefillLost(a) == Stored(IF burst[a].present THEN burst[a].n ELSE burstConfig.capacity, ledger)

\* The bucket after the refill for the ledgers that have passed.
Refilled(a) ==
    IF ~burst[a].present THEN Stored(burstConfig.capacity, ledger)
    ELSE LET elapsed == ledger - burst[a].at
         IN  IF elapsed = 0 THEN burst[a]
             ELSE Stored(Least(burst[a].n + elapsed * burstConfig.refill,
                               burstConfig.capacity), ledger)

\* A bug LimiterBounds must catch: the bucket is not checked before it is debited.
BurstUnchecked(a) ==
    IF burstConfig = NoConfig
    THEN UNCHANGED <<burst, metered>>
    ELSE /\ burst' = [burst EXCEPT ![a] = Stored(Refilled(a).n - 1, Refilled(a).at)]
         /\ metered' = [metered EXCEPT ![a] = Granted(@, 1)]

\* check_and_consume_burst: a no-op unless burst control is configured.
BurstGate(a) ==
    IF burstConfig = NoConfig
    THEN UNCHANGED <<burst, metered>>
    ELSE /\ Refilled(a).n > 0
         /\ burst' = [burst EXCEPT ![a] = Stored(Refilled(a).n - 1, Refilled(a).at)]
         /\ metered' = [metered EXCEPT ![a] = Granted(@, 1)]

\* check_fairness: the attestor's own window against the shared one.
FairnessGate(a, used, window) ==
    IF fairConfig = NoConfig
    THEN UNCHANGED <<global, gated>>
    ELSE LET g     == WindowOf(global, window)
             total == g.n + 1
         IN  /\ total >= fairConfig.minTotal =>
                    (used + 1) * 100 <= fairConfig.share * total
             /\ global' = Stored(total, g.at)
             /\ gated' = Granted(gated, 1)

\* check_and_increment when it returns Ok; the admin is not limited at all.
CheckAndIncrement(a, isAdmin, role) ==
    IF isAdmin
    THEN UNCHANGED rlVars
    ELSE LET config == ResolveConfig(a, role)
             w      == WindowOf(rlState[a], config.window)
         IN  /\ w.n < config.max
             /\ BurstGate(a)
             /\ FairnessGate(a, w.n, config.window)
             /\ rlState' = [rlState EXCEPT ![a] = Stored(w.n + 1, w.at)]
             /\ admitted' = [admitted EXCEPT ![a] = Granted(@, 1)]
             /\ UNCHANGED <<ledger, rlConfig, roleLimit, addrLimit,
                            burstConfig, fairConfig>>

\* The accounting of submit_attestation_batch for n > 0 entries: the global
\* config only, no admin bypass, no burst and no fairness gate.
ConsumeBatch(a, n) ==
    LET slots == n * Multiplier
        w     == WindowOf(rlState[a], GlobalConfig.window)
    IN  /\ w.n + slots <= GlobalConfig.max
        /\ rlState' = [rlState EXCEPT ![a] = Stored(w.n + slots, w.at)]
        /\ admitted' = [admitted EXCEPT ![a] = Granted(@, slots)]
        /\ UNCHANGED <<ledger, rlConfig, roleLimit, addrLimit, burstConfig,
                       burst, fairConfig, global, metered, gated>>

-----------------------------------------------------------------------------
(* Configuration; the caller's authority is checked by the contract *)

SetRateLimitConfig(config) ==
    /\ rlConfig' = config
    /\ UNCHANGED <<ledger, roleLimit, addrLimit, rlState, burstConfig, burst,
                   fairConfig, global, rlGhosts>>

SetRoleRateLimit(role, config) ==
    /\ roleLimit' = [roleLimit EXCEPT ![role] = config]
    /\ UNCHANGED <<ledger, rlConfig, addrLimit, rlState, burstConfig, burst,
                   fairConfig, global, rlGhosts>>

SetAddressRateLimit(a, config) ==
    /\ addrLimit' = [addrLimit EXCEPT ![a] = config]
    /\ UNCHANGED <<ledger, rlConfig, roleLimit, rlState, burstConfig, burst,
                   fairConfig, global, rlGhosts>>

UpdateBurstConfig(config) ==
    /\ burstConfig' = config
    /\ UNCHANGED <<ledger, rlConfig, roleLimit, addrLimit, rlState, burst,
                   fairConfig, global, rlGhosts>>

UpdateFairnessConfig(config) ==
    /\ fairConfig' = config
    /\ UNCHANGED <<ledger, rlConfig, roleLimit, addrLimit, rlState,
                   burstConfig, burst, global, rlGhosts>>

CloseLedger ==
    /\ ledger < MaxLedger
    /\ ledger' = ledger + 1
    /\ UNCHANGED <<rlStore, rlGhosts>>

ConfigureLimits ==
    \/ \E c \in Limit :
         \/ SetRateLimitConfig(c)
         \/ \E r \in LimitRole : SetRoleRateLimit(r, c)
         \/ \E a \in Addr : SetAddressRateLimit(a, c)
    \/ \E c \in BurstLimit : UpdateBurstConfig(c)
    \/ \E c \in FairLimit : UpdateFairnessConfig(c)

RlNext ==
    \/ CloseLedger
    \/ ConfigureLimits
    \/ \E a \in Addr :
         \/ \E role \in LimitRole \cup {NoConfig} : CheckAndIncrement(a, FALSE, role)
         \/ \E n \in 1..MaxBatch : ConsumeBatch(a, n)

RlSpec == RlInit /\ [][RlNext]_rlVars

-----------------------------------------------------------------------------
(* Properties *)

Window == [present : BOOLEAN, n : Nat, at : Nat]

\* Types of the limiter's storage (src/rate_limiter.rs).
RlTypeOK ==
    /\ ledger \in Ledgers
    /\ rlConfig \in Limit \cup {NoConfig}
    /\ roleLimit \in [LimitRole -> Limit \cup {NoConfig}]
    /\ addrLimit \in [Addr -> Limit \cup {NoConfig}]
    /\ rlState \in [Addr -> Window]
    /\ burstConfig \in BurstLimit \cup {NoConfig}
    /\ burst \in [Addr -> Window]
    /\ fairConfig \in FairLimit \cup {NoConfig}
    /\ global \in Window
    /\ admitted \in [Addr -> [Ledgers -> Nat]]
    /\ metered \in [Addr -> [Ledgers -> Nat]]
    /\ gated \in [Ledgers -> Nat]

UpTo(f, l) == IF l = 0 THEN 0 ELSE f[l - 1]

\* What the running totals f grew by over the ledgers from..to.
Total(f, from, to) == f[Least(to, MaxLedger)] - UpTo(f, from)

Limits == Limit \cup {DefaultLimit}

\* What fixed windows guarantee over ANY span of ledgers as long as the shortest
\* window, however limits and overrides change meanwhile: less than twice the
\* largest limit.
WindowBound ==
    \A c, d \in Limits :
        (\A e \in Limits : e.max <= c.max /\ d.window <= e.window) =>
            \A a \in Addr, l \in Ledgers :
                Total(admitted[a], l, l + d.window - 1) <= 2 * c.max - 1

\* The token bucket bounds every span of ledgers by the largest bucket and the
\* tokens the fastest refill added since, whatever the base limit allows.
BurstBound ==
    \A c, d \in BurstLimit :
        (\A e \in BurstLimit : e.capacity <= c.capacity /\ e.refill <= d.refill) =>
            \A a \in Addr, l, m \in Ledgers :
                l <= m => Total(metered[a], l, m) <= c.capacity + (m - l) * d.refill

\* A window counts what the running totals f grew by since it began: nothing
\* granted in a later ledger is left out, nothing of an earlier one is counted.
\* Of its first ledger it may miss slots: a call judged by a shorter window
\* starts a new one in a ledger in which the old one, under a longer window
\* length, has just counted others.
Counts(w, f) ==
    IF w.present
    THEN /\ Total(f, w.at + 1, MaxLedger) <= w.n
         /\ w.n <= Total(f, w.at, MaxLedger)
    ELSE Total(f, 0, MaxLedger) = 0

\* The stored window of an attestor accounts for the slots it was granted since
\* that window began: single and batch submissions, judged by limits that change
\* in between, forget or double-count none.
WindowCountsAdmissions == \A a \in Addr : Counts(rlState[a], admitted[a])

\* The shared window, which is restarted by whoever finds it expired under a window
\* length of its own, counts what the fair share let pass since it began: the share
\* of an attestor is never computed against submissions of an earlier window.
SharedWindowCounts == Counts(global, gated)

\* What the limiter promises of its storage and of the submissions it let pass.
LimiterBounds ==
    /\ RlTypeOK
    /\ WindowCountsAdmissions
    /\ SharedWindowCounts
    /\ WindowBound
    /\ BurstBound

\* "Retry after the window expires": whatever limits and overrides are by then, and
\* however often they changed, an attestor whose window has run out is admitted again
\* once its bucket holds a token.  A bucket never refills within the ledger of a
\* submission that went through it (check_and_consume_burst rejects an empty one), so
\* the attestor is promised the call in the next ledger: in a ledger in which it went
\* through no bucket yet.  (The fairness gate depends on the other attestors, so it is
\* left out.)
RetryAfterWindow ==
    \A a \in Addr, role \in LimitRole \cup {NoConfig} :
        /\ rlState[a].present
        /\ ledger >= rlState[a].at + ResolveConfig(a, role).window
        /\ Total(metered[a], ledger, ledger) = 0
        /\ fairConfig = NoConfig
        => ENABLED CheckAndIncrement(a, FALSE, role)
=============================================================================
