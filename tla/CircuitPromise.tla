--------------------------- MODULE CircuitPromise ---------------------------
(***************************************************************************)
(* What the circuit breakers promise the LLM router, without clocks or      *)
(* failure counts: a breaker trips only on a failure, is probed only after  *)
(* it was open, and closes again only after "need" successes in a row were  *)
(* recorded while it was half-open.                                         *)
(***************************************************************************)
EXTENDS Naturals

CONSTANTS Providers, need

VARIABLES
    phase,      \* phase[p]: "closed", "open" or "halfopen"
    good        \* good[p]: successes in a row while half-open

Init ==
    /\ phase = [p \in Providers |-> "closed"]
    /\ good = [p \in Providers |-> 0]

\* A failure ends the row of successes, and may trip the breaker.
Failure(p) ==
    /\ phase' \in {phase, [phase EXCEPT ![p] = "open"]}
    /\ good' = [good EXCEPT ![p] = 0]

\* An open breaker is probed again.
Probe(p) ==
    /\ phase[p] = "open"
    /\ phase' = [phase EXCEPT ![p] = "halfopen"]
    /\ good' = [good EXCEPT ![p] = 0]

\* Successes count while the breaker is half-open; the last one closes it.
Success(p) ==
    /\ phase[p] = "halfopen"
    /\ good' = [good EXCEPT ![p] = @ + 1]
    /\ phase' = [phase EXCEPT ![p] = IF good[p] + 1 >= need THEN "closed" ELSE @]

Next == \E p \in Providers : Failure(p) \/ Probe(p) \/ Success(p)

Spec == Init /\ [][Next]_<<phase, good>>
=============================================================================
