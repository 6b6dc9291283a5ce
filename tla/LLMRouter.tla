----------------------------- MODULE LLMRouter ------------------------------
(***************************************************************************)
(* Requests that walk a fallback chain of LLM providers, each guarded by a  *)
(* circuit breaker (internal/llm/router.go).  Chat, StreamChat and Embed    *)
(* run the same loop and are one kind of request here; Respond and          *)
(* StreamRespond go straight to a provider that answers natively.  Requests *)
(* run concurrently: a provider's answer is recorded with the breaker long  *)
(* after Allow admitted the request, in whatever state the breaker is then. *)
(***************************************************************************)
EXTENDS CircuitBreaker, Sequences

CONSTANTS
    Providers,        \* registered providers
    Responders,       \* those that implement ResponderProvider
    fallbackChains,   \* fallbackChains[p]: names tried after p
    Requests,         \* slots for concurrent requests
    MaxFailures       \* bound: consecutive failures recorded by one breaker

ASSUME RouterAssumption ==
    /\ Responders \subseteq Providers
    /\ DOMAIN fallbackChains = Providers

VARIABLES
    cb,         \* cb[p]: breaker of provider p
    req,        \* req[r]: the request in slot r
    health,     \* health[p]: "flaky" until the provider's outage is over (external)
    good        \* good[p]: successes in a row while half-open (history)

vars == <<cb, req, health, good>>

\* getWithFallbacks: the provider, then its fallbacks that are registered.
Known(p) == p \in Providers

getWithFallbacks(p) == <<p>> \o SelectSeq(fallbackChains[p], Known)

\* A chain holds registered providers only.  (A consequence of Known that the proofs
\* take from here, because the provers have no theory of SelectSeq.)
ASSUME ChainAssumption == \A p \in Providers : getWithFallbacks(p) \in Seq(Providers)

Idle == [pc |-> "idle", chain |-> << >>]

\* req[r].chain: what is left of the chain.
TypeOK ==
    /\ cb \in [Providers -> Breaker]
    /\ req \in [Requests -> [pc : {"idle", "try", "sent", "native"},
                             chain : Seq(Providers)]]
    /\ \A r \in Requests : req[r].pc \in {"sent", "native"} => req[r].chain # << >>
    /\ health \in [Providers -> {"flaky", "up"}]
    /\ good \in [Providers -> Nat]

Init ==
    /\ cb = [p \in Providers |-> NewCircuitBreaker]
    /\ req = [r \in Requests |-> Idle]
    /\ health = [p \in Providers |-> "flaky"]
    /\ good = [p \in Providers |-> 0]

\* The provider request r is at.
At(r) == Head(req[r].chain)

\* Provider p's breaker becomes b; a breaker that leaves "open" starts a new row.
Breaks(p, b) ==
    /\ cb' = [cb EXCEPT ![p] = b]
    /\ good' = [good EXCEPT ![p] =
                    IF cb[p].state = "open" /\ b.state # "open" THEN 0 ELSE @]

\* Chat, StreamChat, Embed: resolve the chain.
Chat(r, p) ==
    /\ req[r].pc = "idle"
    /\ req' = [req EXCEPT ![r] = [pc |-> "try", chain |-> getWithFallbacks(p)]]
    /\ UNCHANGED <<cb, health, good>>

\* Allow refuses: go on with the next provider.
SkipOpen(r) ==
    /\ req[r].pc = "try"
    /\ req[r].chain # << >>
    /\ ~Allow(cb[At(r)])
    /\ req' = [req EXCEPT ![r].chain = Tail(@)]
    /\ UNCHANGED <<cb, health, good>>

\* Allow admits: the provider is called.
Admit(r) ==
    /\ req[r].pc = "try"
    /\ req[r].chain # << >>
    /\ Allow(cb[At(r)])
    /\ Breaks(At(r), AfterAllow(cb[At(r)]))
    /\ req' = [req EXCEPT ![r].pc = "sent"]
    /\ UNCHANGED health

\* Mutant of ProviderFails: the next provider is called without asking its breaker.
FailsOver(r) ==
    /\ req[r].pc = "sent"
    /\ health[At(r)] = "flaky"
    /\ cb[At(r)].failures < MaxFailures
    /\ cb' = [cb EXCEPT ![At(r)] = RecordFailure(@)]
    /\ good' = [good EXCEPT ![At(r)] = 0]
    /\ req' = [req EXCEPT ![r].chain = Tail(@)]
    /\ UNCHANGED health

\* The provider fails: record it, go on with the next.
ProviderFails(r) ==
    /\ req[r].pc = "sent"
    /\ health[At(r)] = "flaky"
    /\ cb[At(r)].failures < MaxFailures
    /\ cb' = [cb EXCEPT ![At(r)] = RecordFailure(@)]
    /\ good' = [good EXCEPT ![At(r)] = 0]
    /\ req' = [req EXCEPT ![r].pc = "try", ![r].chain = Tail(@)]
    /\ UNCHANGED health

\* The provider answers (or its stream opens): record it and return.
ProviderAnswers(r) ==
    /\ req[r].pc = "sent"
    /\ cb' = [cb EXCEPT ![At(r)] = RecordSuccess(@)]
    /\ good' = [good EXCEPT ![At(r)] = IF cb[At(r)].state = "halfopen" THEN @ + 1 ELSE @]
    /\ req' = [req EXCEPT ![r] = Idle]
    /\ UNCHANGED health

\* Mutant of AllFailed: start over instead of giving up.
RetriesForever(r) ==
    /\ req[r].pc = "try"
    /\ req[r].chain = << >>
    /\ \E p \in Providers : req' = [req EXCEPT ![r].chain = getWithFallbacks(p)]
    /\ UNCHANGED <<cb, health, good>>

\* The chain is used up: "all providers failed".
AllFailed(r) ==
    /\ req[r].pc = "try"
    /\ req[r].chain = << >>
    /\ req' = [req EXCEPT ![r] = Idle]
    /\ UNCHANGED <<cb, health, good>>

\* Respond, StreamRespond on a ResponderProvider: no breaker, no fallback.  (Any
\* other provider gets the request through Chat or StreamChat.)
Respond(r, p) ==
    /\ p \in Responders
    /\ req[r].pc = "idle"
    /\ req' = [req EXCEPT ![r] = [pc |-> "native", chain |-> <<p>>]]
    /\ UNCHANGED <<cb, health, good>>

\* Its outcome, good or bad, is returned and not recorded.
RespondReturns(r) ==
    /\ req[r].pc = "native"
    /\ req' = [req EXCEPT ![r] = Idle]
    /\ UNCHANGED <<cb, health, good>>

\* ProviderHealth asks each breaker in turn for its State.
ProviderHealth(p) ==
    /\ Breaks(p, AfterState(cb[p]))
    /\ UNCHANGED <<req, health>>

\* Time passes.
Tick ==
    /\ cb' = [p \in Providers |-> AfterTick(cb[p])]
    /\ UNCHANGED <<req, health, good>>

\* The provider's outage is over for good (external).
Recover(p) ==
    /\ health[p] = "flaky"
    /\ health' = [health EXCEPT ![p] = "up"]
    /\ UNCHANGED <<cb, req, good>>

Step(r) == SkipOpen(r) \/ Admit(r) \/ ProviderFails(r) \/ ProviderAnswers(r)
              \/ AllFailed(r) \/ RespondReturns(r)

Next ==
    \/ \E r \in Requests, p \in Providers : Chat(r, p)
    \/ \E r \in Requests, p \in Providers : Respond(r, p)
    \/ \E r \in Requests : Step(r)
    \/ \E p \in Providers : ProviderHealth(p)
    \/ \E p \in Providers : Recover(p)
    \/ Tick

Spec == Init /\ [][Next]_vars

(* Fairness: the clock advances, started requests are carried on and providers *)
(* answer, and traffic for every provider keeps arriving (an assumption about  *)
(* the users: nobody probes a provider that nobody asks for).                  *)
Fairness ==
    /\ WF_vars(Tick)
    /\ \A r \in Requests : WF_vars(Step(r))
    /\ \A p \in Providers : SF_vars(\E r \in Requests : Chat(r, p))

FairSpec == Spec /\ Fairness

-----------------------------------------------------------------------------
(* Properties *)

\* In every interleaving of requests, health checks and time, the counters of each
\* breaker agree with its state (circuit.go resets them in some transitions only).
BreakersInOrder == \A p \in Providers : CountersInOrder(cb[p])

\* While a breaker is half-open its counter is the true number of successes in a
\* row since it was last open, whether Allow or State made it half-open.
HonestCount == \A p \in Providers : cb[p].state = "halfopen" => cb[p].successes = good[p]

\* The breakers keep the promise of CircuitPromise.
Promise == INSTANCE CircuitPromise WITH
    need <- successThreshold,
    phase <- [p \in Providers |-> cb[p].state],
    good <- good

KeepsPromise == Promise!Spec

\* A breaker whose provider is up again closes, as long as requests arrive: late
\* failures and skipped fallbacks cannot keep it open or half-open for ever.
BreakerRecloses == \A p \in Providers : health[p] = "up" ~> cb[p].state = "closed"

\* Every request that enters a chain leaves it again.
RequestEnds == \A r \in Requests : req[r].pc # "idle" ~> req[r].pc = "idle"

=============================================================================
