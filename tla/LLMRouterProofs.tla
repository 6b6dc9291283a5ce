--------------------------- MODULE LLMRouterProofs --------------------------
(***************************************************************************)
(* Proofs about the circuit breakers for every set of providers and         *)
(* requests, all thresholds and every openDuration.                         *)
(***************************************************************************)
EXTENDS LLMRouter, TLAPS

\* A breaker that is typed and whose counters agree with its state.
Sound(b) == b \in Breaker /\ CountersInOrder(b)

-----------------------------------------------------------------------------
(* The methods of circuit.go keep a breaker sound. *)

\* NewCircuitBreaker returns a sound, closed breaker without successes.
LEMMA NewSound == Sound(NewCircuitBreaker)
  BY BreakerAssumption DEF Sound, NewCircuitBreaker, Breaker, CircuitStates, CountersInOrder

\* Allow keeps a breaker sound; it changes one only when it ends the open state.
LEMMA AllowSound ==
  ASSUME NEW b \in Breaker, CountersInOrder(b)
  PROVE  /\ Sound(AfterAllow(b))
         /\ \/ AfterAllow(b) = b
            \/ b.state = "open" /\ AfterAllow(b).state = "halfopen" /\ AfterAllow(b).successes = 0
<1> DEFINE c == [b EXCEPT !.state = "halfopen", !.successes = 0]
<1>1. c \in Breaker /\ c.state = "halfopen" /\ c.successes = 0
  BY DEF Breaker, CircuitStates
<1>2. CountersInOrder(c)
  BY <1>1, BreakerAssumption DEF CountersInOrder
<1>3. AfterAllow(b) = b \/ (b.state = "open" /\ AfterAllow(b) = c)
  BY DEF AfterAllow
<1> HIDE DEF c
<1>4. QED
  BY <1>1, <1>2, <1>3 DEF Sound

\* State, too, although it leaves the successes alone.
LEMMA StateSound ==
  ASSUME NEW b \in Breaker, CountersInOrder(b)
  PROVE  /\ Sound(AfterState(b))
         /\ \/ AfterState(b) = b
            \/ b.state = "open" /\ AfterState(b).state = "halfopen" /\ AfterState(b).successes = 0
  BY BreakerAssumption
  DEF Sound, AfterState, Elapsed, Breaker, CircuitStates, CountersInOrder

\* RecordSuccess closes a half-open breaker with the last success it needs, counts
\* an earlier one, and leaves the state of any other breaker alone.
LEMMA SuccessSound ==
  ASSUME NEW b \in Breaker, CountersInOrder(b)
  PROVE  /\ Sound(RecordSuccess(b))
         /\ b.state # "halfopen" => RecordSuccess(b).state = b.state
         /\ b.state = "halfopen" =>
              /\ RecordSuccess(b).successes = b.successes + 1
              /\ RecordSuccess(b).state = IF b.successes + 1 >= successThreshold
                                          THEN "closed" ELSE "halfopen"
  BY BreakerAssumption
  DEF Sound, RecordSuccess, Breaker, CircuitStates, CountersInOrder

\* RecordFailure clears the successes, and opens the breaker or leaves its state.
LEMMA FailureSound ==
  ASSUME NEW b \in Breaker, CountersInOrder(b)
  PROVE  /\ Sound(RecordFailure(b))
         /\ RecordFailure(b).successes = 0
         /\ RecordFailure(b).state \in {b.state, "open"}
  BY BreakerAssumption
  DEF Sound, RecordFailure, Breaker, CircuitStates, CountersInOrder

\* Time alone changes neither state nor counters.
LEMMA TickSound ==
  ASSUME NEW b \in Breaker, CountersInOrder(b)
  PROVE  /\ Sound(AfterTick(b))
         /\ AfterTick(b).state = b.state
         /\ AfterTick(b).successes = b.successes
  BY BreakerAssumption
  DEF Sound, AfterTick, Breaker, CircuitStates, CountersInOrder

-----------------------------------------------------------------------------
(* The inductive invariant *)

\* HonestCount is not inductive alone: State enters half-open without a reset, so
\* the step needs that an open breaker has no successes.
IInv == TypeOK /\ BreakersInOrder /\ HonestCount

\* The part of the invariant that is about breakers and their history.
Breakers ==
    /\ cb \in [Providers -> Breaker]
    /\ good \in [Providers -> Nat]
    /\ BreakersInOrder
    /\ HonestCount

\* The part that is about requests.
RequestsOK ==
    /\ req \in [Requests -> [pc : {"idle", "try", "sent", "native"},
                             chain : Seq(Providers)]]
    /\ \A r \in Requests : req[r].pc \in {"sent", "native"} => req[r].chain # << >>

\* Replacing one breaker by a sound one keeps the breakers' part, if the history of
\* that provider agrees with a half-open count.
LEMMA OneBreaker ==
  ASSUME Breakers, NEW p, NEW b, NEW g,
         p \in Providers => Sound(b) /\ g \in Nat /\ (b.state = "halfopen" => b.successes = g),
         cb' = [cb EXCEPT ![p] = b],
         good' = [good EXCEPT ![p] = g]
  PROVE  Breakers'
  BY DEF Breakers, BreakersInOrder, HonestCount, Sound

\* An Allow or a State on one breaker keeps the breakers' part.
LEMMA BreaksKeeps ==
  ASSUME Breakers, NEW p \in Providers, NEW b, Sound(b), Breaks(p, b),
         \/ b = cb[p]
         \/ cb[p].state = "open" /\ b.state = "halfopen" /\ b.successes = 0
  PROVE  Breakers'
<1> DEFINE g == IF cb[p].state = "open" /\ b.state # "open" THEN 0 ELSE good[p]
<1>1. g \in Nat
  BY DEF Breakers
<1>2. b.state = "halfopen" => b.successes = g
  BY DEF Breakers, HonestCount
<1>3. cb' = [cb EXCEPT ![p] = b] /\ good' = [good EXCEPT ![p] = g]
  BY DEF Breaks
<1> HIDE DEF g
<1>4. QED
  BY <1>1, <1>2, <1>3, OneBreaker

\* The request's own provider is registered, and its breaker is sound.
LEMMA AtProvider ==
  ASSUME Breakers, RequestsOK, NEW r \in Requests, req[r].chain # << >>
  PROVE  /\ At(r) \in Providers
         /\ cb[At(r)] \in Breaker
         /\ CountersInOrder(cb[At(r)])
         /\ Tail(req[r].chain) \in Seq(Providers)
<1>1. req[r].chain \in Seq(Providers)
  BY DEF RequestsOK
<1>2. At(r) \in Providers /\ Tail(req[r].chain) \in Seq(Providers)
  BY <1>1 DEF At
<1>3. QED
  BY <1>2 DEF Breakers, BreakersInOrder

\* IInv holds initially.
LEMMA InitIInv == Init => IInv
  BY NewSound DEF Init, IInv, TypeOK, BreakersInOrder, HonestCount, Idle, CircuitStates,
                  Sound, NewCircuitBreaker

\* Every step keeps IInv: one case per action of the router.
LEMMA StepIInv == IInv /\ [Next]_vars => IInv'
<1> SUFFICES ASSUME IInv, [Next]_vars PROVE IInv'
  OBVIOUS
<1>1. Breakers /\ RequestsOK /\ health \in [Providers -> {"flaky", "up"}]
  BY DEF IInv, TypeOK, Breakers, RequestsOK
<1> DEFINE HealthOK == health \in [Providers -> {"flaky", "up"}]
<1>2. SUFFICES Breakers' /\ RequestsOK' /\ HealthOK'
  BY DEF IInv, TypeOK, Breakers, RequestsOK
<1>3. ASSUME UNCHANGED <<cb, good>> PROVE Breakers'
  BY <1>1, <1>3 DEF Breakers, BreakersInOrder, HonestCount
<1>4. ASSUME NEW r \in Requests, NEW p \in Providers, Chat(r, p)
      PROVE  Breakers' /\ RequestsOK' /\ HealthOK'
  <2>1. getWithFallbacks(p) \in Seq(Providers)
    BY ChainAssumption
  <2>2. RequestsOK'
    BY <1>1, <1>4, <2>1 DEF Chat, RequestsOK, CircuitStates
  <2>3. QED
    BY <1>1, <1>3, <1>4, <2>2 DEF Chat
<1>5. ASSUME NEW r \in Requests, NEW p \in Providers, Respond(r, p)
      PROVE  Breakers' /\ RequestsOK' /\ HealthOK'
  <2>1. AfterAllow(cb[p]).state \in CircuitStates
    BY <1>1, AllowSound DEF Breakers, BreakersInOrder, Sound, Breaker
  <2>2. <<p>> \in Seq(Providers) /\ <<p>> # << >>
    OBVIOUS
  <2>3. RequestsOK'
    BY <1>1, <1>5, <2>1, <2>2 DEF Respond, RequestsOK
  <2>4. QED
    BY <1>1, <1>3, <1>5, <2>3 DEF Respond
<1>6. ASSUME NEW r \in Requests, SkipOpen(r)
      PROVE  Breakers' /\ RequestsOK' /\ HealthOK'
  <2>1. Tail(req[r].chain) \in Seq(Providers)
    BY <1>1, <1>6, AtProvider DEF SkipOpen
  <2>2. RequestsOK'
    BY <1>1, <1>6, <2>1 DEF SkipOpen, RequestsOK
  <2>3. QED
    BY <1>1, <1>3, <1>6, <2>2 DEF SkipOpen
<1>7. ASSUME NEW r \in Requests, Admit(r)
      PROVE  Breakers' /\ RequestsOK' /\ HealthOK'
  <2>1. At(r) \in Providers /\ cb[At(r)] \in Breaker /\ CountersInOrder(cb[At(r)])
    BY <1>1, <1>7, AtProvider DEF Admit
  <2> DEFINE b == AfterAllow(cb[At(r)])
  <2>2. Breakers'
    <3>1. /\ Sound(b)
          /\ \/ b = cb[At(r)]
             \/ cb[At(r)].state = "open" /\ b.state = "halfopen" /\ b.successes = 0
      BY <2>1, AllowSound
    <3>2. Breaks(At(r), b)
      BY <1>7 DEF Admit
    <3> HIDE DEF b
    <3>3. QED
      BY <1>1, <2>1, <3>1, <3>2, BreaksKeeps
  <2>3. AfterAllow(cb[At(r)]).state \in CircuitStates
    BY <2>1, AllowSound DEF Sound, Breaker
  <2>4. RequestsOK'
    BY <1>1, <1>7, <2>3 DEF Admit, RequestsOK
  <2>5. QED
    BY <1>1, <1>7, <2>2, <2>4 DEF Admit
<1>8. ASSUME NEW r \in Requests, ProviderFails(r)
      PROVE  Breakers' /\ RequestsOK' /\ HealthOK'
  <2>1. /\ At(r) \in Providers /\ cb[At(r)] \in Breaker /\ CountersInOrder(cb[At(r)])
        /\ Tail(req[r].chain) \in Seq(Providers)
    BY <1>1, <1>8, AtProvider DEF ProviderFails, RequestsOK
  <2> DEFINE b == RecordFailure(cb[At(r)])
  <2>2. Sound(b) /\ b.successes = 0
    BY <2>1, FailureSound
  <2>3. Breakers'
    <3>1. cb' = [cb EXCEPT ![At(r)] = b] /\ good' = [good EXCEPT ![At(r)] = 0]
      BY <1>8 DEF ProviderFails
    <3>2. 0 \in Nat
      OBVIOUS
    <3> HIDE DEF b
    <3>3. QED
      BY <1>1, <2>2, <3>1, <3>2, OneBreaker, Zenon
  <2>4. RequestsOK'
    BY <1>1, <1>8, <2>1 DEF ProviderFails, RequestsOK
  <2>5. QED
    BY <1>1, <1>8, <2>3, <2>4 DEF ProviderFails
<1>9. ASSUME NEW r \in Requests, ProviderAnswers(r)
      PROVE  Breakers' /\ RequestsOK' /\ HealthOK'
  <2> DEFINE b == RecordSuccess(cb[At(r)])
             g == IF cb[At(r)].state = "halfopen" THEN good[At(r)] + 1 ELSE good[At(r)]
  <2>1. At(r) \in Providers /\ cb[At(r)] \in Breaker /\ CountersInOrder(cb[At(r)])
    BY <1>1, <1>9, AtProvider DEF ProviderAnswers, RequestsOK
  <2>2. Sound(b) /\ g \in Nat
    BY <1>1, <2>1, SuccessSound DEF Breakers
  <2>3. b.state = "halfopen" => b.successes = g
    BY <1>1, <2>1, SuccessSound DEF Breakers, HonestCount
  <2>4. cb' = [cb EXCEPT ![At(r)] = b] /\ good' = [good EXCEPT ![At(r)] = g]
    BY <1>9 DEF ProviderAnswers
  <2> HIDE DEF b, g
  <2>5. Breakers'
    BY <1>1, <2>2, <2>3, <2>4, OneBreaker
  <2>6. RequestsOK'
    <3>1. req' = [req EXCEPT ![r] = Idle]
      BY <1>9 DEF ProviderAnswers
    <3>2. QED
      BY <1>1, <3>1 DEF RequestsOK, Idle, CircuitStates
  <2>7. QED
    BY <1>1, <1>9, <2>5, <2>6 DEF ProviderAnswers
<1>10. ASSUME NEW r \in Requests, AllFailed(r) \/ RespondReturns(r)
       PROVE  Breakers' /\ RequestsOK' /\ HealthOK'
  <2>1. RequestsOK'
    <3>1. req' = [req EXCEPT ![r] = Idle]
      BY <1>10 DEF AllFailed, RespondReturns
    <3>2. QED
      BY <1>1, <3>1 DEF RequestsOK, Idle, CircuitStates
  <2>2. QED
    BY <1>1, <1>3, <1>10, <2>1 DEF AllFailed, RespondReturns
<1>11. ASSUME NEW p \in Providers, ProviderHealth(p)
       PROVE  Breakers' /\ RequestsOK' /\ HealthOK'
  <2>1. cb[p] \in Breaker /\ CountersInOrder(cb[p])
    BY <1>1 DEF Breakers, BreakersInOrder
  <2>2. Breakers'
    BY <1>1, <1>11, <2>1, StateSound, BreaksKeeps DEF ProviderHealth
  <2>3. QED
    BY <1>1, <1>11, <2>2 DEF ProviderHealth, RequestsOK
<1>12. ASSUME NEW p \in Providers, Recover(p)
       PROVE  Breakers' /\ RequestsOK' /\ HealthOK'
  BY <1>1, <1>3, <1>12 DEF Recover, RequestsOK
<1>13. ASSUME Tick
       PROVE  Breakers' /\ RequestsOK' /\ HealthOK'
  <2>1. \A p \in Providers : /\ Sound(AfterTick(cb[p]))
                             /\ AfterTick(cb[p]).state = cb[p].state
                             /\ AfterTick(cb[p]).successes = cb[p].successes
    BY <1>1, TickSound DEF Breakers, BreakersInOrder
  <2>2. Breakers'
    BY <1>1, <1>13, <2>1 DEF Tick, Breakers, BreakersInOrder, HonestCount, Sound
  <2>3. QED
    BY <1>1, <1>13, <2>2 DEF Tick, RequestsOK
<1>14. CASE UNCHANGED vars
  BY <1>1, <1>3, <1>14 DEF vars, RequestsOK
<1>15. QED
  BY <1>4, <1>5, <1>6, <1>7, <1>8, <1>9, <1>10, <1>11, <1>12, <1>13, <1>14 DEF Next, Step

-----------------------------------------------------------------------------
(* The breakers refine CircuitPromise. *)

Phase == [p \in Providers |-> cb[p].state]

\* Replacing one breaker changes the phase of its provider only.
LEMMA PhaseUpdate ==
  ASSUME cb \in [Providers -> Breaker], NEW p \in Providers, NEW b,
         cb' = [cb EXCEPT ![p] = b]
  PROVE  Phase' = [Phase EXCEPT ![p] = b.state] /\ Phase[p] = cb[p].state
  BY DEF Phase

\* An Allow or a State is a probe of an open breaker, or changes nothing.
LEMMA BreaksPromise ==
  ASSUME Breakers, NEW p \in Providers, NEW b, Breaks(p, b),
         \/ b = cb[p]
         \/ cb[p].state = "open" /\ b.state = "halfopen" /\ b.successes = 0
  PROVE  Promise!Probe(p) \/ UNCHANGED <<Phase, good>>
<1>1. cb \in [Providers -> Breaker] /\ good \in [Providers -> Nat]
  BY DEF Breakers
<1>2. Phase' = [Phase EXCEPT ![p] = b.state] /\ Phase[p] = cb[p].state
  BY <1>1, PhaseUpdate DEF Breaks
<1>3. CASE b = cb[p]
  <2>1. cb' = cb /\ good' = good
    BY <1>1, <1>3 DEF Breaks
  <2>2. QED
    BY <2>1 DEF Phase
<1>4. CASE cb[p].state = "open" /\ b.state = "halfopen"
  <2>1. good' = [good EXCEPT ![p] = 0]
    BY <1>1, <1>4 DEF Breaks
  <2>2. QED
    BY <1>2, <1>4, <2>1 DEF Promise!Probe, Phase
<1>5. QED
  BY <1>3, <1>4

\* A router step is a step of the abstract breakers or leaves them as they are.
LEMMA StepPromise == IInv /\ [Next]_vars => [Promise!Next]_<<Phase, good>>
<1> SUFFICES ASSUME IInv, [Next]_vars
             PROVE  Promise!Next \/ UNCHANGED <<Phase, good>>
  OBVIOUS
<1>1. Breakers /\ RequestsOK /\ cb \in [Providers -> Breaker] /\ good \in [Providers -> Nat]
  BY DEF IInv, TypeOK, Breakers, RequestsOK
<1>2. ASSUME UNCHANGED <<cb, good>> PROVE UNCHANGED <<Phase, good>>
  BY <1>2 DEF Phase
<1>3. ASSUME NEW r \in Requests, Admit(r)
      PROVE  Promise!Next \/ UNCHANGED <<Phase, good>>
  <2>1. PICK p \in Providers : p = At(r) /\ cb[p] \in Breaker /\ CountersInOrder(cb[p])
    BY <1>1, <1>3, AtProvider DEF Admit
  <2> DEFINE b == AfterAllow(cb[p])
  <2>2. \/ b = cb[p]
        \/ cb[p].state = "open" /\ b.state = "halfopen" /\ b.successes = 0
    BY <2>1, AllowSound
  <2>3. Breaks(p, b)
    BY <1>3, <2>1 DEF Admit
  <2> HIDE DEF b
  <2>4. Promise!Probe(p) \/ UNCHANGED <<Phase, good>>
    BY <1>1, <2>1, <2>2, <2>3, BreaksPromise
  <2>5. QED
    BY <2>1, <2>4 DEF Promise!Next
<1>4. ASSUME NEW p \in Providers, ProviderHealth(p)
      PROVE  Promise!Next \/ UNCHANGED <<Phase, good>>
  <2> DEFINE b == AfterState(cb[p])
  <2>1. cb[p] \in Breaker /\ CountersInOrder(cb[p])
    BY <1>1 DEF Breakers, BreakersInOrder
  <2>2. \/ b = cb[p]
        \/ cb[p].state = "open" /\ b.state = "halfopen" /\ b.successes = 0
    BY <2>1, StateSound
  <2>3. Breaks(p, b)
    BY <1>4 DEF ProviderHealth
  <2> HIDE DEF b
  <2>4. Promise!Probe(p) \/ UNCHANGED <<Phase, good>>
    BY <1>1, <2>2, <2>3, BreaksPromise
  <2>5. QED
    BY <2>4 DEF Promise!Next
<1>5. ASSUME NEW r \in Requests, ProviderFails(r)
      PROVE  Promise!Next
  <2>1. PICK p \in Providers : p = At(r) /\ cb[p] \in Breaker /\ CountersInOrder(cb[p])
    BY <1>1, <1>5, AtProvider DEF ProviderFails, RequestsOK
  <2> DEFINE b == RecordFailure(cb[p])
  <2>2. b.state \in {cb[p].state, "open"}
    BY <2>1, FailureSound
  <2>3. cb' = [cb EXCEPT ![p] = b] /\ good' = [good EXCEPT ![p] = 0]
    BY <1>5, <2>1 DEF ProviderFails
  <2> HIDE DEF b
  <2>4. Phase' = [Phase EXCEPT ![p] = b.state] /\ Phase[p] = cb[p].state
    BY <1>1, <2>1, <2>3, PhaseUpdate
  <2>5. Phase' \in {Phase, [Phase EXCEPT ![p] = "open"]}
    BY <2>1, <2>2, <2>4 DEF Phase
  <2>6. Promise!Failure(p)
    BY <2>3, <2>5 DEF Promise!Failure, Phase
  <2>7. QED
    BY <2>1, <2>6 DEF Promise!Next
<1>6. ASSUME NEW r \in Requests, ProviderAnswers(r)
      PROVE  Promise!Next \/ UNCHANGED <<Phase, good>>
  <2>1. PICK p \in Providers : p = At(r) /\ cb[p] \in Breaker /\ CountersInOrder(cb[p])
    BY <1>1, <1>6, AtProvider DEF ProviderAnswers, RequestsOK
  <2> DEFINE b == RecordSuccess(cb[p])
  <2>2. /\ cb[p].state # "halfopen" => b.state = cb[p].state
        /\ cb[p].state = "halfopen" =>
             b.state = IF cb[p].successes + 1 >= successThreshold
                       THEN "closed" ELSE "halfopen"
    BY <2>1, SuccessSound
  <2>3. /\ cb' = [cb EXCEPT ![p] = b]
        /\ good' = [good EXCEPT ![p] =
                       IF cb[p].state = "halfopen" THEN @ + 1 ELSE @]
    BY <1>6, <2>1 DEF ProviderAnswers
  <2> HIDE DEF b
  <2>4. Phase' = [Phase EXCEPT ![p] = b.state] /\ Phase[p] = cb[p].state
    BY <1>1, <2>1, <2>3, PhaseUpdate
  <2>5. CASE cb[p].state = "halfopen"
    <3>1. cb[p].successes = good[p]
      BY <1>1, <2>1, <2>5 DEF Breakers, HonestCount
    <3>2. good' = [good EXCEPT ![p] = @ + 1]
      BY <2>3, <2>5
    <3>3. Phase' = [Phase EXCEPT ![p] =
                      IF good[p] + 1 >= successThreshold THEN "closed" ELSE @]
      BY <2>2, <2>4, <2>5, <3>1
    <3>4. Promise!Success(p)
      BY <2>4, <2>5, <3>2, <3>3 DEF Promise!Success, Phase
    <3>5. QED
      BY <2>1, <3>4 DEF Promise!Next
  <2>6. CASE cb[p].state # "halfopen"
    <3>1. Phase' = Phase
      BY <2>1, <2>2, <2>4, <2>6 DEF Phase
    <3>2. good' = good
      BY <1>1, <2>3, <2>6
    <3>3. QED
      BY <3>1, <3>2
  <2>7. QED
    BY <2>5, <2>6
<1>7. ASSUME Tick PROVE UNCHANGED <<Phase, good>>
  <2>1. \A p \in Providers : AfterTick(cb[p]).state = cb[p].state
    BY <1>1, TickSound DEF Breakers, BreakersInOrder
  <2>2. QED
    BY <1>7, <2>1 DEF Tick, Phase
<1>8. QED
  BY <1>2, <1>3, <1>4, <1>5, <1>6, <1>7
  DEF Next, Step, vars, Chat, Respond, SkipOpen, AllFailed, RespondReturns, Recover

-----------------------------------------------------------------------------
(* Theorems *)

\* In every behaviour the variables keep their types, the breakers' counters agree
\* with their states and the half-open count is honest.
THEOREM Invariance == Spec => []IInv
  BY InitIInv, StepIInv, PTL DEF Spec

\* Every variable keeps its type, and a request that was sent is at a provider.
THEOREM TypeCorrect == Spec => []TypeOK
  BY Invariance, PTL DEF IInv

\* For all thresholds: the counters of each breaker agree with its state.
THEOREM BreakersStayInOrder == Spec => []BreakersInOrder
  BY Invariance, PTL DEF IInv

\* For all thresholds: a half-open breaker counts the successes since it was open.
THEOREM CountStaysHonest == Spec => []HonestCount
  BY Invariance, PTL DEF IInv

\* The breakers keep CircuitPromise for all thresholds: they trip only on a failure,
\* are probed only when open, and close only after enough successes in a row.
THEOREM PromiseKept == Spec => KeepsPromise
<1>1. Init => Promise!Init
  BY DEF Init, Promise!Init, NewCircuitBreaker
<1>2. QED
  BY <1>1, StepPromise, Invariance, PTL DEF Spec, KeepsPromise, Promise!Spec, Phase
=============================================================================
