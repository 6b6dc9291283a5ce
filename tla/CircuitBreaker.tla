--------------------------- MODULE CircuitBreaker ---------------------------
(***************************************************************************)
(* The circuit breaker of internal/llm/circuit.go as a data type: a record  *)
(* and what each method makes of it.  Methods run under the breaker's       *)
(* mutex, so each is one step for its callers.  The clock is kept as the    *)
(* age of lastFailure in ticks, saturating at openDuration, which is all    *)
(* that time.Since is compared with.                                        *)
(***************************************************************************)
EXTENDS Naturals

CONSTANTS
    failureThreshold,   \* consecutive failures before opening
    successThreshold,   \* successes in half-open before closing
    openDuration        \* ticks an open breaker rejects requests

ASSUME BreakerAssumption ==
    /\ failureThreshold \in Nat \ {0}
    /\ successThreshold \in Nat \ {0}
    /\ openDuration \in Nat \ {0}

CircuitStates == {"closed", "open", "halfopen"}

Breaker == [state : CircuitStates, failures : Nat, successes : Nat,
            age : 0..openDuration]

\* The zero lastFailure lies further back than any openDuration.
NewCircuitBreaker ==
    [state |-> "closed", failures |-> 0, successes |-> 0, age |-> openDuration]

Elapsed(b) == b.age >= openDuration

\* Result of Allow.
Allow(b) == b.state # "open" \/ Elapsed(b)

\* Mutant of AfterAllow: the probe is let through, the state stays open.
AllowStaysOpen(b) == b

\* What Allow leaves behind.
AfterAllow(b) ==
    IF b.state = "open" /\ Elapsed(b)
    THEN [b EXCEPT !.state = "halfopen", !.successes = 0]
    ELSE b

\* Mutants of RecordSuccess: successes counted in every state; one success closes.
SuccessAlwaysCounts(b) ==
    [state     |-> IF b.state = "halfopen" /\ b.successes + 1 >= successThreshold
                   THEN "closed" ELSE b.state,
     failures  |-> 0,
     successes |-> b.successes + 1,
     age       |-> b.age]

SuccessCloses(b) == [b EXCEPT !.state = "closed", !.failures = 0]

RecordSuccess(b) ==
    IF b.state = "halfopen"
    THEN [state     |-> IF b.successes + 1 >= successThreshold THEN "closed" ELSE "halfopen",
          failures  |-> 0,
          successes |-> b.successes + 1,
          age       |-> b.age]
    ELSE [b EXCEPT !.failures = 0]

\* Mutant of RecordFailure: successes are not reset.
FailureKeepsSuccesses(b) ==
    [state     |-> IF b.failures + 1 >= failureThreshold THEN "open" ELSE b.state,
     failures  |-> b.failures + 1,
     successes |-> b.successes,
     age       |-> 0]

RecordFailure(b) ==
    [state     |-> IF b.failures + 1 >= failureThreshold THEN "open" ELSE b.state,
     failures  |-> b.failures + 1,
     successes |-> 0,
     age       |-> 0]

\* What State leaves behind: the transition of Allow without its reset.
AfterState(b) ==
    IF b.state = "open" /\ Elapsed(b) THEN [b EXCEPT !.state = "halfopen"] ELSE b

AfterTick(b) == [b EXCEPT !.age = IF @ < openDuration THEN @ + 1 ELSE @]

\* A closed breaker is short of failureThreshold, a half-open one short of
\* successThreshold, and an open one has no successes on its books: that is why
\* State, which enters half-open without resetting them, does no harm.
CountersInOrder(b) ==
    /\ b.state = "closed" => b.failures < failureThreshold
    /\ b.state = "halfopen" => b.successes < successThreshold
    /\ b.state = "open" => b.successes = 0
=============================================================================
