------------------------------- MODULE Retry -------------------------------
(***************************************************************************)
(* Retries on the host: the delay before each retry, the loop of           *)
(* retry_with_backoff (src/retry.rs) and the loop under a request's retry  *)
(* budget (src/retry_budget.rs).  The operation that is retried, its       *)
(* errors and the jitter seeds are the environment's.                      *)
(***************************************************************************)
EXTENDS Integers, Sequences, FiniteSetsExt

CONSTANTS
    RetryConfigs,  \* attempts, base, max, mult, strategy, jitter
    Seeds,         \* what a JitterSource may return
    BudgetSizes,   \* max_attempts a RetryBudget is made with
    Saturation     \* u64::MAX, scaled down

ASSUME RetryConstants ==
    /\ Saturation \in Nat \ {0}
    /\ RetryConfigs \subseteq
          [attempts : Nat, base : 0..Saturation, max : 0..Saturation, mult : Nat,
           strategy : {"Exponential", "Linear", "Constant", "NoRetry"},
           jitter : {"Full", "Equal", "None"}]
    /\ Seeds \subseteq Nat /\ Seeds # {}
    /\ BudgetSizes \subseteq Nat

VARIABLES
    retry,   \* cfg, attempt, state and the delays slept, of the plain loop
    budget,  \* max, consumed: the request's RetryBudget
    calls    \* ghost: calls of the operation (plain), and under the budget

retryVars == <<retry, budget, calls>>

-----------------------------------------------------------------------------
(* Delays *)

\* RetryConfig::validate; a struct literal bypasses it.
ValidRetryConfig(c) == c.attempts > 0 /\ c.mult > 0 /\ c.max > 0

Saturated(x) == Min({x, Saturation})

SaturatingPow(m, n) ==
    LET pow[i \in 0..n] == IF i = 0 THEN 1 ELSE Saturated(m * pow[i - 1]) IN pow[n]

BaseDelayForAttempt(c, attempt) ==
    CASE c.strategy = "Exponential" -> Min({Saturated(c.base * SaturatingPow(c.mult, attempt)), c.max})
      [] c.strategy = "Linear" -> Min({Saturated(c.base * (attempt + 1)), c.max})
      [] c.strategy = "Constant" -> Min({c.base, c.max})
      [] c.strategy = "NoRetry" -> 0

\* s and t: the seeds a call draws, in this order.
DelayForAttempt(c, attempt, s, t) ==
    LET base == BaseDelayForAttempt(c, attempt)
        half == base \div 2
        offset == s % (IF half = 0 THEN 1 ELSE half)
    IN  CASE c.jitter = "Full" -> Min({Saturated(base + (s % (c.base \div 2 + 1))), c.max})
          [] c.jitter = "Equal" /\ t % 2 = 0 -> Min({Saturated(base + offset), c.max})
          [] c.jitter = "Equal" /\ t % 2 = 1 -> Max({base - offset, Min({c.base, base})})
          [] c.jitter = "None" -> Min({base, c.max})

-----------------------------------------------------------------------------
(* retry_with_backoff *)

RetryInit ==
    /\ retry \in [cfg : RetryConfigs, attempt : {0}, state : {"running"}, slept : {<<>>}]
    /\ budget \in [max : {Max({m, 1}) : m \in BudgetSizes}, consumed : {0}, state : {"idle"}]
    /\ calls = [plain |-> 0, budget |-> 0]

\* One turn of the loop, in which the operation succeeds.
OperationSucceeds ==
    /\ retry.state = "running"
    /\ retry' = [retry EXCEPT !.state = "ok"]
    /\ calls' = [calls EXCEPT !.plain = @ + 1]
    /\ UNCHANGED budget

\* A bug RetriesBounded must catch: the comparison misses the last attempt.
RetryOnceMore(retryable, s, t) ==
    /\ retry.state = "running"
    /\ retry' = IF ~retryable \/ retry.attempt >= retry.cfg.attempts
                THEN [retry EXCEPT !.state = "err"]
                ELSE [retry EXCEPT !.attempt = @ + 1,
                        !.slept = Append(@, DelayForAttempt(retry.cfg, retry.attempt, s, t))]
    /\ calls' = [calls EXCEPT !.plain = @ + 1]
    /\ UNCHANGED budget

\* One in which it fails; no delay follows the last attempt.  A configuration
\* with zero attempts runs the operation once.
OperationFails(retryable, s, t) ==
    /\ retry.state = "running"
    /\ retry' = IF ~retryable \/ retry.attempt + 1 >= retry.cfg.attempts
                THEN [retry EXCEPT !.state = "err"]
                ELSE [retry EXCEPT !.attempt = @ + 1,
                        !.slept = Append(@, DelayForAttempt(retry.cfg, retry.attempt, s, t))]
    /\ calls' = [calls EXCEPT !.plain = @ + 1]
    /\ UNCHANGED budget

-----------------------------------------------------------------------------
(* execute_with_budget: calls that share one budget *)

CallWithBudget ==
    /\ budget.state # "running"
    /\ budget' = [budget EXCEPT !.state = "running"]
    /\ UNCHANGED <<retry, calls>>

BudgetedAttempt(ok, retryable) ==
    /\ budget.state = "running"
    /\ UNCHANGED retry
    /\ IF budget.consumed >= budget.max
       THEN /\ budget' = [budget EXCEPT !.state = "exhausted"]
            /\ UNCHANGED calls
       ELSE LET consumed == budget.consumed + 1
                again == ~ok /\ retryable /\ consumed < budget.max
            IN  /\ budget' = [budget EXCEPT !.consumed = consumed,
                                            !.state = IF again THEN "running" ELSE "done"]
                /\ calls' = [calls EXCEPT !.budget = @ + 1]

ResetBudget ==
    /\ budget.state # "running"
    /\ budget' = [budget EXCEPT !.consumed = 0]
    /\ calls' = [calls EXCEPT !.budget = 0]
    /\ UNCHANGED retry

RetryNext ==
    \/ OperationSucceeds
    \/ \E retryable \in BOOLEAN, s, t \in Seeds : OperationFails(retryable, s, t)

BudgetNext ==
    \/ CallWithBudget
    \/ \E ok, retryable \in BOOLEAN : BudgetedAttempt(ok, retryable)
    \/ ResetBudget

RetrySpec == RetryInit /\ [][RetryNext \/ BudgetNext]_retryVars
-----------------------------------------------------------------------------
(* Properties *)

\* A loop calls the operation at most as often as configured (once for zero),
\* sleeps between two calls only and never longer than the cap, its unjittered
\* delays never shrink, and calls that share a budget share its ceiling.
RetriesBounded ==
    LET c == retry.cfg IN
    /\ calls.plain <= Max({c.attempts, 1})
    /\ retry.state = "running" => Len(retry.slept) = calls.plain
    /\ retry.state # "running" => Len(retry.slept) = calls.plain - 1
    /\ \A i \in DOMAIN retry.slept :
          /\ retry.slept[i] <= c.max
          /\ ValidRetryConfig(c) =>
               BaseDelayForAttempt(c, i - 1) <= BaseDelayForAttempt(c, i)
          /\ c.jitter = "Full" => retry.slept[i] >= BaseDelayForAttempt(c, i - 1)
    /\ calls.budget <= budget.max /\ budget.consumed <= budget.max
=============================================================================
