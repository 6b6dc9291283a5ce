------------------------- MODULE ConnectionsProofs --------------------------
(***************************************************************************)
(* Proofs about Connections for any users, providers, scopes and any       *)
(* number of overlapping flows and callbacks.                              *)
(***************************************************************************)
EXTENDS Connections, TLAPS

-----------------------------------------------------------------------------
(* Types *)

\* A state that Pop can return names a user and a provider.
Named(st) == st.owner \in Owners /\ st.provider \in Providers

NamedStates ==
    {st \in AuthState : st.status \in {"pending", "old"} => Named(st)}

\* A callback past its read of the map holds such a state, and a token once it
\* has redeemed the code.
NamedCallbacks ==
    {x \in Callback : x.pc # "idle" =>
        /\ x.key \in StateKeys /\ Named(x.st)
        /\ x.pc = "store" => x.token \in Codes \cup {Empty}}

TypeInv ==
    /\ TypeOK
    /\ states \in [StateKeys -> NamedStates]
    /\ cb \in [Callbacks -> NamedCallbacks]

LEMMA EmptyTypes ==
  /\ NoProvider \in ProviderConfig /\ NoState \in NamedStates
  /\ GoneState \in NamedStates /\ GoneState.status = "gone"
  /\ NoCredential \in UserCredential /\ NoState \in AuthState
  /\ IdleCallback \in NamedCallbacks /\ IdleCallback.pc = "idle"
<1>1. NoState \in AuthState /\ GoneState \in AuthState /\ GoneState.status = "gone"
      /\ NoState.status = "unborn"
  BY DEF NoState, GoneState, AuthState
<1>2. NoState \in NamedStates /\ GoneState \in NamedStates
  BY <1>1 DEF NamedStates
<1>3. IdleCallback \in NamedCallbacks /\ IdleCallback.pc = "idle"
  BY <1>1 DEF IdleCallback, Callback, NamedCallbacks, Stored
<1>4. QED
  BY <1>1, <1>2, <1>3 DEF NoProvider, ProviderConfig, NoCredential, UserCredential,
     Stored

LEMMA Subtypes ==
  /\ states \in [StateKeys -> NamedStates] => states \in [StateKeys -> AuthState]
  /\ cb \in [Callbacks -> NamedCallbacks] => cb \in [Callbacks -> Callback]
  BY DEF NamedStates, NamedCallbacks

LEMMA InitType == Init => TypeInv
  BY EmptyTypes, Subtypes DEF Init, TypeInv, TypeOK

\* Rows that the actions write.
LEMMA StoreType ==
  ASSUME TypeOK, NEW o \in Owners, NEW p \in Providers,
         NEW k \in Codes \cup {Empty, Pasted}, NEW S \in Stored, StoreCredential(o, p, k, S)
  PROVE  creds' \in [Owners -> [Providers -> UserCredential]]
<1>1. [token |-> k, scopes |-> S, expired |-> FALSE] \in UserCredential
  BY DEF UserCredential
<1>2. QED
  BY <1>1 DEF StoreCredential, TypeOK

\* Scopes that HandleCallback returns.
LEMMA GrantedType ==
  ASSUME NEW S \in SUBSET Scopes, NEW s \in ScopeString
  PROVE  grantedScopes(S, s) \in Stored
  BY DEF grantedScopes, Split, Stored, ScopeString

LEMMA SilentType == Silent \in ScopeString /\ Silent.names = {}
  BY DEF Silent, ScopeString

\* What the record of a callback says.
LEMMA CallbackFacts ==
  ASSUME TypeInv, NEW c \in Callbacks, cb[c].pc # "idle"
  PROVE  /\ cb[c] \in Callback /\ cb[c] \in NamedCallbacks
         /\ cb[c].key \in StateKeys /\ cb[c].st \in AuthState
         /\ cb[c].st.owner \in Owners /\ cb[c].st.provider \in Providers
         /\ cb[c].st.scopes \in SUBSET Scopes /\ cb[c].scopes \in Stored
         /\ cb[c].pc = "store" => cb[c].token \in Codes \cup {Empty}
<1>1. cb[c] \in NamedCallbacks
  BY DEF TypeInv
<1>2. cb[c] \in Callback /\ Named(cb[c].st) /\ cb[c].key \in StateKeys
      /\ (cb[c].pc = "store" => cb[c].token \in Codes \cup {Empty})
  BY <1>1 DEF NamedCallbacks
<1>3. cb[c].st \in AuthState /\ cb[c].scopes \in Stored
  BY <1>2 DEF Callback
<1>4. QED
  BY <1>1, <1>2, <1>3 DEF Named, AuthState

LEMMA StepType == TypeInv /\ [Next]_vars => TypeInv'
<1> SUFFICES ASSUME TypeInv, [Next]_vars PROVE TypeInv'
  OBVIOUS
<1>0. TypeOK
  BY DEF TypeInv
<1>1. ASSUME NEW p \in Providers, NEW S \in Manifests, registerSkillProviders(p, S)
      PROVE  TypeInv'
  <2>1. S \in SUBSET Scopes /\ provs[p] \in ProviderConfig
    BY <1>0, ManifestsAssumption DEF TypeOK
  <2>2. [provs[p] EXCEPT !.made = TRUE, !.scopes = S] \in ProviderConfig
    BY <2>1 DEF ProviderConfig
  <2>3. provs' = [provs EXCEPT ![p] = [provs[p] EXCEPT !.made = TRUE, !.scopes = S]]
    BY <1>0, <1>1 DEF registerSkillProviders, RegisterFromSkill, TypeOK
  <2>4. provs' \in [Providers -> ProviderConfig]
    BY <1>0, <2>2, <2>3 DEF TypeOK
  <2>5. QED
    BY <1>1, <2>4 DEF registerSkillProviders, TypeInv, TypeOK
<1>2. ASSUME NEW p \in Providers, SetCredentials(p) \/ DeleteProvider(p) PROVE TypeInv'
  <2>1. [provs[p] EXCEPT !.configured = TRUE] \in ProviderConfig
    BY <1>0 DEF TypeOK, ProviderConfig
  <2>2. provs' \in [Providers -> ProviderConfig]
    BY <1>0, <1>2, <2>1, EmptyTypes DEF SetCredentials, DeleteProvider, TypeOK
  <2>3. QED
    BY <1>2, <2>2 DEF SetCredentials, DeleteProvider, TypeInv, TypeOK
<1>3. ASSUME NEW o \in Owners, NEW p \in Providers, NEW k \in StateKeys, StartAuth(o, p, k)
      PROVE  TypeInv'
  <2>1. provs[p].scopes \in SUBSET Scopes
    BY <1>0 DEF TypeOK, ProviderConfig
  <2> DEFINE st == [status |-> "pending", owner |-> o, provider |-> p,
                    scopes |-> provs[p].scopes]
  <2>2. st \in NamedStates
    BY <2>1 DEF NamedStates, AuthState, Named
  <2> HIDE DEF st
  <2>3. flow' = [flow EXCEPT ![k] = st] /\ states' = [states EXCEPT ![k] = flow'[k]]
    BY <1>3 DEF StartAuth, st
  <2>a. st \in AuthState
    BY <2>2 DEF NamedStates
  <2>b. flow' \in [StateKeys -> AuthState] /\ flow'[k] = st
    BY <1>0, <2>a, <2>3 DEF TypeOK
  <2>4. states' \in [StateKeys -> NamedStates]
    BY <2>2, <2>3, <2>b DEF TypeInv
  <2>5. QED
    BY <1>3, <2>4, <2>b, Subtypes DEF StartAuth, TypeInv, TypeOK, NamedStates
<1>4. ASSUME NEW k \in StateKeys, StateAges(k) PROVE TypeInv'
  <2>1. states[k] \in NamedStates /\ states[k].status = "pending"
    BY <1>4 DEF StateAges, TypeInv
  <2>2. [states[k] EXCEPT !.status = "old"] \in NamedStates
    BY <2>1 DEF NamedStates, AuthState, Named
  <2>3. states' \in [StateKeys -> NamedStates]
    BY <1>4, <2>2 DEF StateAges, TypeInv
  <2>4. QED
    BY <1>4, <2>3 DEF StateAges, TypeInv, TypeOK, NamedStates
<1>5. ASSUME NEW c \in Callbacks, CallbackStep(c) PROVE TypeInv'
  <2>1. CASE PopRead(c)
    <3>1. PICK k \in StateKeys :
            /\ states[k].status \in {"pending", "old"}
            /\ cb' = [cb EXCEPT ![c] = [IdleCallback EXCEPT !.pc = "delete", !.key = k,
                                                            !.st = states[k]]]
      BY <2>1 DEF PopRead
    <3>2. Named(states[k]) /\ states[k] \in AuthState
      BY <3>1 DEF TypeInv, NamedStates
    <3>3. [IdleCallback EXCEPT !.pc = "delete", !.key = k, !.st = states[k]]
            \in NamedCallbacks
      BY <3>2 DEF IdleCallback, NamedCallbacks, Callback, Stored
    <3>4. cb' \in [Callbacks -> NamedCallbacks]
      BY <3>1, <3>3 DEF TypeInv
    <3>5. QED
      BY <2>1, <3>4 DEF PopRead, TypeInv, TypeOK, NamedCallbacks
  <2>2. CASE PopDelete(c)
    <3>1. cb[c] \in NamedCallbacks /\ cb[c].key \in StateKeys
      BY <2>2, CallbackFacts DEF PopDelete
    <3>2. [cb[c] EXCEPT !.pc = "get"] \in NamedCallbacks
      BY <2>2, <3>1 DEF PopDelete, NamedCallbacks, Callback
    <3>3. cb' \in [Callbacks -> NamedCallbacks]
      BY <2>2, <3>2, EmptyTypes DEF PopDelete, TypeInv
    <3>4. states' \in [StateKeys -> NamedStates]
      BY <2>2, EmptyTypes DEF PopDelete, TypeInv
    <3>5. QED
      BY <2>2, <3>3, <3>4 DEF PopDelete, TypeInv, TypeOK, NamedCallbacks, NamedStates
  <2>3. CASE CallbackGet(c)
    <3>1. cb[c] \in NamedCallbacks
      BY DEF TypeInv
    <3> DEFINE v == provs[cb[c].st.provider].configured
    <3>a. v \in BOOLEAN
      BY <1>0, <2>3, CallbackFacts DEF CallbackGet, TypeOK, ProviderConfig
    <3>b. cb' = [cb EXCEPT ![c] = [cb[c] EXCEPT !.pc = "exchange", !.client = v]]
      BY <1>0, <2>3 DEF CallbackGet, TypeOK
    <3> HIDE DEF v
    <3>2. [cb[c] EXCEPT !.pc = "exchange", !.client = v] \in NamedCallbacks
      BY <2>3, <3>1, <3>a DEF CallbackGet, NamedCallbacks, Callback
    <3>3. cb' \in [Callbacks -> NamedCallbacks]
      BY <3>2, <3>b DEF TypeInv
    <3>4. QED
      BY <2>3, <3>3 DEF CallbackGet, TypeInv, TypeOK, NamedCallbacks
  <2>4. ASSUME NEW t \in Codes \cup {Empty}, NEW s \in ScopeString, Exchanged(c, t, s),
               answer' \in [Codes -> ScopeString \cup {Unused}]
        PROVE  TypeInv'
    <3> DEFINE S == grantedScopes(cb[c].st.scopes, s)
    <3>1. /\ cb[c].pc = "exchange" /\ spent' = spent \cup {cb[c].key}
          /\ cb' = [cb EXCEPT ![c] = [cb[c] EXCEPT !.pc = "store", !.token = t,
                                                 !.scopes = S]]
          /\ UNCHANGED <<provs, states, creds, flow>>
      BY <2>4 DEF Exchanged
    <3>2. S \in Stored /\ cb[c].key \in StateKeys /\ cb[c] \in NamedCallbacks
      BY <3>1, CallbackFacts, GrantedType
    <3> HIDE DEF S
    <3>3. [cb[c] EXCEPT !.pc = "store", !.token = t, !.scopes = S] \in NamedCallbacks
      BY <3>1, <3>2 DEF NamedCallbacks, Callback
    <3>4. cb' \in [Callbacks -> NamedCallbacks]
      BY <3>1, <3>3 DEF TypeInv
    <3>5. QED
      BY <1>0, <2>4, <3>1, <3>2, <3>4 DEF TypeInv, TypeOK, NamedCallbacks
  <2>4a. CASE ExchangeCode(c)
    <3>1. PICK x \in Codes, s \in Responses :
            answer' = [answer EXCEPT ![x] = s] /\ Exchanged(c, x, s)
      BY <2>4a DEF ExchangeCode
    <3>2. s \in ScopeString
      BY ResponsesAssumption
    <3>3. answer' \in [Codes -> ScopeString \cup {Unused}]
      BY <1>0, <3>1, <3>2 DEF TypeOK
    <3>4. QED
      BY <2>4, <3>1, <3>2, <3>3
  <2>4b. CASE ExchangeEmpty(c)
    BY <1>0, <2>4, <2>4b, SilentType DEF ExchangeEmpty, TypeOK
  <2>5. CASE CallbackStore(c)
    <3>1. creds' \in [Owners -> [Providers -> UserCredential]]
      BY <1>0, <2>5, CallbackFacts, StoreType DEF CallbackStore
    <3>2. cb' \in [Callbacks -> NamedCallbacks]
      BY <2>5, EmptyTypes DEF CallbackStore, TypeInv
    <3>3. QED
      BY <2>5, <3>1, <3>2 DEF CallbackStore, TypeInv, TypeOK, NamedCallbacks
  <2>6. CASE CallbackFails(c)
    <3>1. cb' \in [Callbacks -> NamedCallbacks]
      BY <2>6, EmptyTypes DEF CallbackFails, TypeInv
    <3>2. QED
      BY <2>6, <3>1 DEF CallbackFails, TypeInv, TypeOK, NamedCallbacks
  <2>7. QED
    BY <1>5, <2>1, <2>2, <2>3, <2>4a, <2>4b, <2>5, <2>6 DEF CallbackStep
<1>6. ASSUME NEW o \in Owners, NEW p \in Providers, NEW S \in Claims,
             handleStoreCredential(o, p, S)
      PROVE  TypeInv'
  <2>0. S \in Stored
    BY ManifestsAssumption DEF Stored
  <2>1. creds' \in [Owners -> [Providers -> UserCredential]]
    BY <1>0, <1>6, <2>0, StoreType DEF handleStoreCredential
  <2>2. QED
    BY <1>6, <2>1 DEF handleStoreCredential, TypeInv, TypeOK
<1>7. ASSUME NEW o \in Owners, NEW p \in Providers,
             TokenExpires(o, p) \/ DeleteCredential(o, p)
      PROVE  TypeInv'
  <2>1. \A x \in UserCredential : [x EXCEPT !.expired = TRUE] \in UserCredential
    BY DEF UserCredential
  <2>2. creds[o] \in [Providers -> UserCredential] /\ creds[o][p] \in UserCredential
    BY <1>0 DEF TypeOK
  <2>3. PICK x \in UserCredential : creds' = [creds EXCEPT ![o][p] = x]
    <3>1. CASE TokenExpires(o, p)
      <4> DEFINE x == [creds[o][p] EXCEPT !.expired = TRUE]
      <4>1. creds' = [creds EXCEPT ![o][p] = x]
        BY <1>0, <3>1 DEF TokenExpires, TypeOK
      <4>2. x \in UserCredential
        BY <2>1, <2>2
      <4> HIDE DEF x
      <4>3. QED
        BY <4>1, <4>2
    <3>2. CASE DeleteCredential(o, p)
      BY <3>2, EmptyTypes DEF DeleteCredential
    <3>3. QED
      BY <1>7, <3>1, <3>2
  <2>4. creds' \in [Owners -> [Providers -> UserCredential]]
    BY <1>0, <2>2, <2>3 DEF TypeOK
  <2>5. QED
    BY <1>7, <2>4 DEF TokenExpires, DeleteCredential, TypeInv, TypeOK
<1>8. CASE GatewayCrash
  <2>1. states' \in [StateKeys -> NamedStates] /\ cb' \in [Callbacks -> NamedCallbacks]
    BY <1>8, EmptyTypes DEF GatewayCrash, TypeInv
  <2>2. QED
    BY <1>8, <2>1 DEF GatewayCrash, TypeInv, TypeOK, NamedStates, NamedCallbacks
<1>9. CASE UNCHANGED vars
  BY <1>9 DEF vars, TypeInv, TypeOK
<1>10. QED
  BY <1>1, <1>2, <1>3, <1>4, <1>5, <1>6, <1>7, <1>8, <1>9 DEF Next

\* Type correctness: whatever overlaps, crashes or fails, a callback past its Pop
\* knows its user and provider, and stored rows are well formed.
THEOREM TypeCorrect == Spec => []TypeOK
<1>1. Spec => []TypeInv
  BY InitType, StepType, PTL DEF Spec
<1>2. TypeInv => TypeOK
  BY DEF TypeInv
<1>3. QED
  BY <1>1, <1>2, PTL

-----------------------------------------------------------------------------
(* Scopes *)

\* st is what flow k asked for.
Of(st, k) ==
    flow[k].owner = st.owner /\ flow[k].provider = st.provider /\ flow[k].scopes = st.scopes

NamedFor(t) == IF t \in Codes THEN answer[t] ELSE Silent

\* The provider has answered for the token, so its answer stays.
Answered(t) == t \in Codes => answer[t] # Unused

RowAsked(o, p, t, S) ==
    \E k \in StateKeys : /\ flow[k].owner = o /\ flow[k].provider = p
                         /\ S = grantedScopes(flow[k].scopes, NamedFor(t))

\* A pending state is its flow; a flow that was not started has no owner.
FlowsKept ==
    \A k \in StateKeys : /\ states[k].status = "unborn" => flow[k] = NoState
                         /\ states[k].status \in {"pending", "old"} => Of(states[k], k)

\* What a callback took from the map is still its flow, although provider rows
\* change, and what it carries to the table follows from it.
CarriedAsked ==
    \A c \in Callbacks : cb[c].pc # "idle" =>
        /\ Of(cb[c].st, cb[c].key)
        /\ cb[c].pc = "store" =>
             /\ Answered(cb[c].token)
             /\ cb[c].scopes = grantedScopes(cb[c].st.scopes, NamedFor(cb[c].token))

RowsAsked ==
    \A o \in Owners, p \in Providers :
        creds[o][p].token \notin {None, Pasted} =>
            /\ Answered(creds[o][p].token)
            /\ RowAsked(o, p, creds[o][p].token, creds[o][p].scopes)

\* The inductive invariant.
AskInv == TypeInv /\ FlowsKept /\ CarriedAsked /\ RowsAsked

\* Flows and answers that exist stay as they are.
Grows ==
    /\ \A k \in StateKeys : flow'[k] = flow[k] \/ flow[k] = NoState
    /\ \A x \in Codes : answer'[x] = answer[x] \/ answer[x] = Unused

LEMMA StepGrows ==
  ASSUME TypeInv, FlowsKept, [Next]_vars PROVE Grows
<1>0. flow \in [StateKeys -> AuthState] /\ answer \in [Codes -> ScopeString \cup {Unused}]
  BY DEF TypeInv, TypeOK
<1>1. CASE UNCHANGED <<flow, answer>>
  BY <1>1 DEF Grows
<1>2. ASSUME NEW o \in Owners, NEW p \in Providers, NEW k \in StateKeys, StartAuth(o, p, k)
      PROVE  Grows
  <2>1. flow[k] = NoState /\ answer' = answer
    BY <1>2 DEF StartAuth, FlowsKept
  <2>2. \A x \in StateKeys : x # k => flow'[x] = flow[x]
    BY <1>0, <1>2 DEF StartAuth
  <2>3. QED
    BY <2>1, <2>2 DEF Grows
<1>3. ASSUME NEW c \in Callbacks, ExchangeCode(c) PROVE Grows
  <2>1. PICK x \in Codes, s \in Responses :
          answer[x] = Unused /\ answer' = [answer EXCEPT ![x] = s] /\ UNCHANGED flow
    BY <1>3 DEF ExchangeCode, Exchanged
  <2>2. QED
    BY <1>0, <2>1 DEF Grows
<1>4. QED
  BY <1>1, <1>2, <1>3 DEF Next, vars, registerSkillProviders, SetCredentials,
     DeleteProvider, StateAges, CallbackStep, PopRead, PopDelete, CallbackGet,
     ExchangeEmpty, Exchanged, CallbackStore, CallbackFails, handleStoreCredential,
     TokenExpires, DeleteCredential, GatewayCrash

\* What grows keeps: a flow with an owner, an answer that was given, a row.
LEMMA FlowStays ==
  ASSUME Grows, NEW k \in StateKeys, flow[k].owner \in Owners
  PROVE  flow'[k] = flow[k]
<1>1. NoState.owner \notin Owners
  BY NoneAssumption DEF NoState
<1>2. QED
  BY <1>1 DEF Grows

LEMMA AnswerStays ==
  ASSUME Grows, NEW t, Answered(t)
  PROVE  /\ t \in Codes => answer'[t] = answer[t] /\ answer'[t] # Unused
         /\ (IF t \in Codes THEN answer'[t] ELSE Silent) = NamedFor(t)
  BY DEF Grows, Answered, NamedFor

\* RowAsked and Answered in the next state, of values.
AnsweredNext(t) == t \in Codes => answer'[t] # Unused
NamedNext(t) == IF t \in Codes THEN answer'[t] ELSE Silent
RowNext(o, p, t, S) ==
    \E k \in StateKeys : /\ flow'[k].owner = o /\ flow'[k].provider = p
                         /\ S = grantedScopes(flow'[k].scopes, NamedNext(t))

LEMMA RowStays ==
  ASSUME Grows, NEW o \in Owners, NEW p, NEW t, NEW S, Answered(t), RowAsked(o, p, t, S)
  PROVE  AnsweredNext(t) /\ RowNext(o, p, t, S)
<1>1. PICK k \in StateKeys : /\ flow[k].owner = o /\ flow[k].provider = p
                             /\ S = grantedScopes(flow[k].scopes, NamedFor(t))
  BY DEF RowAsked
<1>2. flow'[k] = flow[k]
  BY <1>1, FlowStays
<1>3. NamedNext(t) = NamedFor(t) /\ AnsweredNext(t)
  BY AnswerStays DEF NamedNext, AnsweredNext
<1>4. QED
  BY <1>1, <1>2, <1>3 DEF RowNext

\* Callbacks that were under way keep what they hold.
CarryNext(v) ==
    v.pc # "idle" =>
        /\ flow'[v.key].owner = v.st.owner /\ flow'[v.key].provider = v.st.provider
        /\ flow'[v.key].scopes = v.st.scopes
        /\ v.pc = "store" =>
             /\ AnsweredNext(v.token)
             /\ v.scopes = grantedScopes(v.st.scopes, NamedNext(v.token))

LEMMA CarryStays ==
  ASSUME AskInv, Grows, NEW c \in Callbacks
  PROVE  CarryNext(cb[c])
<1> SUFFICES ASSUME cb[c].pc # "idle" PROVE CarryNext(cb[c])
  BY DEF CarryNext
<1>1. /\ Of(cb[c].st, cb[c].key) /\ cb[c].key \in StateKeys /\ cb[c].st.owner \in Owners
      /\ cb[c].pc = "store" => Answered(cb[c].token)
      /\ cb[c].pc = "store" =>
           cb[c].scopes = grantedScopes(cb[c].st.scopes, NamedFor(cb[c].token))
  BY CallbackFacts DEF AskInv, CarriedAsked
<1>2. flow'[cb[c].key] = flow[cb[c].key]
  BY <1>1, FlowStays DEF Of
<1>3. cb[c].pc = "store" =>
        AnsweredNext(cb[c].token) /\ NamedNext(cb[c].token) = NamedFor(cb[c].token)
  BY <1>1, AnswerStays DEF NamedNext, AnsweredNext
<1>4. QED
  BY <1>1, <1>2, <1>3 DEF CarryNext, Of

LEMMA StepFlows == AskInv /\ [Next]_vars => FlowsKept'
<1> SUFFICES ASSUME AskInv, [Next]_vars, NEW k \in StateKeys
             PROVE  /\ states'[k].status = "unborn" => flow'[k] = NoState
                    /\ states'[k].status \in {"pending", "old"} => Of(states[k], k)'
  BY DEF FlowsKept
<1>0. /\ TypeInv /\ flow \in [StateKeys -> AuthState] /\ states \in [StateKeys -> AuthState]
      /\ states[k] \in AuthState
      /\ states[k].status = "unborn" => flow[k] = NoState
      /\ states[k].status \in {"pending", "old"} => Of(states[k], k)
  BY DEF AskInv, TypeInv, TypeOK, FlowsKept
<1>1. CASE UNCHANGED <<flow, states>>
  BY <1>0, <1>1 DEF Of
<1>2. ASSUME NEW o \in Owners, NEW p \in Providers, NEW x \in StateKeys, StartAuth(o, p, x)
      PROVE  /\ states'[k].status = "unborn" => flow'[k] = NoState
             /\ states'[k].status \in {"pending", "old"} => Of(states[k], k)'
  <2>1. CASE x = k
    <3>1. states'[k] = flow'[k] /\ flow'[k].status = "pending"
      BY <1>0, <1>2, <2>1 DEF StartAuth
    <3>2. QED
      BY <3>1 DEF Of
  <2>2. CASE x # k
    <3>1. states'[k] = states[k] /\ flow'[k] = flow[k]
      BY <1>0, <1>2, <2>2 DEF StartAuth
    <3>2. QED
      BY <1>0, <3>1 DEF Of
  <2>3. QED
    BY <2>1, <2>2
<1>3. ASSUME NEW x \in StateKeys, StateAges(x)
      PROVE  /\ states'[k].status = "unborn" => flow'[k] = NoState
             /\ states'[k].status \in {"pending", "old"} => Of(states[k], k)'
  <2>1. flow' = flow
    BY <1>3 DEF StateAges
  <2>2. \/ states'[k] = states[k]
        \/ states[k].status = "pending" /\ states'[k] = [states[k] EXCEPT !.status = "old"]
    BY <1>0, <1>3 DEF StateAges
  <2>3. CASE states[k].status = "pending" /\ states'[k] = [states[k] EXCEPT !.status = "old"]
    BY <1>0, <2>1, <2>3 DEF Of, AuthState
  <2>4. CASE states'[k] = states[k]
    BY <1>0, <2>1, <2>4 DEF Of
  <2>5. QED
    BY <2>2, <2>3, <2>4
<1>4. ASSUME flow' = flow, states'[k] = states[k] \/ states'[k] = GoneState
      PROVE  /\ states'[k].status = "unborn" => flow'[k] = NoState
             /\ states'[k].status \in {"pending", "old"} => Of(states[k], k)'
  <2>1. CASE states'[k] = GoneState
    BY <2>1, EmptyTypes
  <2>2. CASE states'[k] = states[k]
    BY <1>0, <1>4, <2>2 DEF Of
  <2>3. QED
    BY <1>4, <2>1, <2>2
<1>5. ASSUME NEW c \in Callbacks, PopDelete(c)
      PROVE  flow' = flow /\ (states'[k] = states[k] \/ states'[k] = GoneState)
  BY <1>0, <1>5 DEF PopDelete
<1>6. ASSUME GatewayCrash
      PROVE  flow' = flow /\ (states'[k] = states[k] \/ states'[k] = GoneState)
  BY <1>0, <1>6 DEF GatewayCrash
<1>7. QED
  BY <1>1, <1>2, <1>3, <1>4, <1>5, <1>6 DEF Next, vars, registerSkillProviders,
     SetCredentials, DeleteProvider, CallbackStep, PopRead, CallbackGet, ExchangeCode,
     ExchangeEmpty, Exchanged, CallbackStore, CallbackFails, handleStoreCredential,
     TokenExpires, DeleteCredential

\* A callback's step leaves it with what its flow asked for.
LEMMA StepCarry ==
  ASSUME AskInv, [Next]_vars, NEW c \in Callbacks, CallbackStep(c)
  PROVE  CarryNext(cb'[c]) /\ \A x \in Callbacks : x # c => cb'[x] = cb[x]
<1>0. /\ TypeInv /\ cb \in [Callbacks -> Callback] /\ cb[c] \in Callback /\ CarryNext(cb[c])
      /\ CarryNext(IdleCallback) /\ Grows
  BY EmptyTypes, StepGrows, CarryStays DEF AskInv, TypeInv, TypeOK, CarryNext
<1>1. \A x \in Callbacks : x # c => cb'[x] = cb[x]
  BY <1>0 DEF CallbackStep, PopRead, PopDelete, CallbackGet, ExchangeCode, ExchangeEmpty,
     Exchanged, CallbackStore, CallbackFails
<1>2. CASE PopRead(c)
  <2>1. PICK k \in StateKeys :
          /\ states[k].status \in {"pending", "old"}
          /\ cb' = [cb EXCEPT ![c] = [IdleCallback EXCEPT !.pc = "delete", !.key = k,
                                                          !.st = states[k]]]
    BY <1>2 DEF PopRead
  <2>2. Of(states[k], k) /\ flow' = flow
    BY <1>2, <2>1 DEF AskInv, FlowsKept, PopRead
  <2>3. cb'[c].pc = "delete" /\ cb'[c].key = k /\ cb'[c].st = states[k]
    BY <1>0, <2>1 DEF IdleCallback
  <2>4. QED
    BY <1>1, <2>2, <2>3 DEF CarryNext, Of
<1>3. CASE PopDelete(c)
  <2>1. CASE cb'[c] = IdleCallback
    BY <1>0, <1>1, <2>1
  <2>2. CASE cb'[c] = [cb[c] EXCEPT !.pc = "get"]
    BY <1>0, <1>1, <1>3, <2>2 DEF CarryNext, Callback, PopDelete
  <2>3. QED
    BY <1>0, <1>3, <2>1, <2>2 DEF PopDelete
<1>4. CASE CallbackGet(c)
  <2>1. /\ cb'[c].pc = "exchange" /\ cb'[c].key = cb[c].key /\ cb'[c].st = cb[c].st
        /\ cb[c].pc = "get"
    BY <1>0, <1>4 DEF CallbackGet, Callback
  <2>2. QED
    BY <1>0, <1>1, <2>1 DEF CarryNext
<1>5. ASSUME NEW t \in Codes \cup {Empty}, NEW s, Exchanged(c, t, s), AnsweredNext(t),
             NamedNext(t) = s
      PROVE  CarryNext(cb'[c])
  <2>1. /\ cb[c].pc = "exchange" /\ cb'[c].pc = "store" /\ cb'[c].key = cb[c].key
        /\ cb'[c].st = cb[c].st /\ cb'[c].token = t
        /\ cb'[c].scopes = grantedScopes(cb[c].st.scopes, s)
    BY <1>0, <1>5 DEF Exchanged, Callback
  <2>2. QED
    BY <1>0, <1>5, <2>1 DEF CarryNext
<1>6. CASE ExchangeCode(c)
  <2>1. PICK x \in Codes, s \in Responses :
          answer' = [answer EXCEPT ![x] = s] /\ Exchanged(c, x, s)
    BY <1>6 DEF ExchangeCode
  <2>a. s \in ScopeString
    BY ResponsesAssumption
  <2>b. \A y \in ScopeString : y.sep \in {" ", ","}
    BY DEF ScopeString
  <2>c. Unused.sep = "unused"
    BY DEF Unused
  <2>2. s # Unused
    BY <2>a, <2>b, <2>c
  <2>3. answer'[x] = s
    BY <1>0, <2>1 DEF TypeInv, TypeOK
  <2>4. QED
    BY <1>1, <1>5, <2>1, <2>2, <2>3 DEF AnsweredNext, NamedNext
<1>7. CASE ExchangeEmpty(c)
  BY <1>1, <1>5, <1>7, NoneAssumption DEF ExchangeEmpty, AnsweredNext, NamedNext
<1>8. CASE CallbackStore(c) \/ CallbackFails(c)
  <2>1. cb'[c] = IdleCallback
    BY <1>0, <1>8 DEF CallbackStore, CallbackFails
  <2>2. QED
    BY <1>0, <1>1, <2>1
<1>9. QED
  BY <1>2, <1>3, <1>4, <1>6, <1>7, <1>8 DEF CallbackStep

LEMMA StepCarried == AskInv /\ [Next]_vars => CarriedAsked'
<1> SUFFICES ASSUME AskInv, [Next]_vars PROVE CarriedAsked'
  OBVIOUS
<1>1. ASSUME NEW x \in Callbacks PROVE CarryNext(cb'[x])
  <2>1. CarryNext(cb[x]) /\ CarryNext(IdleCallback)
    BY StepGrows, CarryStays, EmptyTypes DEF AskInv, CarryNext
  <2>2. ASSUME NEW c \in Callbacks, CallbackStep(c) PROVE CarryNext(cb'[x])
    BY <2>1, <2>2, StepCarry
  <2>3. CASE cb' = cb
    BY <2>1, <2>3
  <2>4. CASE GatewayCrash
    BY <2>1, <2>4 DEF GatewayCrash
  <2>5. QED
    BY <2>2, <2>3, <2>4 DEF Next, vars, registerSkillProviders, SetCredentials,
       DeleteProvider, StartAuth, StateAges, handleStoreCredential, TokenExpires,
       DeleteCredential
<1>2. QED
  BY <1>1 DEF CarriedAsked, CarryNext, Of, Answered, AnsweredNext, NamedFor, NamedNext

LEMMA StepRows == AskInv /\ [Next]_vars => RowsAsked'
<1> SUFFICES ASSUME AskInv, [Next]_vars, NEW o \in Owners, NEW p \in Providers,
                    creds'[o][p].token \notin {None, Pasted}
             PROVE  AnsweredNext(creds'[o][p].token)
                    /\ RowNext(o, p, creds'[o][p].token, creds'[o][p].scopes)
  BY DEF RowsAsked, RowAsked, RowNext, Answered, AnsweredNext, NamedFor, NamedNext
<1>0. /\ TypeInv /\ Grows /\ creds[o][p] \in UserCredential
      /\ creds \in [Owners -> [Providers -> UserCredential]]
  BY StepGrows DEF AskInv, TypeInv, TypeOK
<1>1. CASE creds'[o][p].token = creds[o][p].token /\ creds'[o][p].scopes = creds[o][p].scopes
  <2>1. Answered(creds[o][p].token) /\ RowAsked(o, p, creds[o][p].token, creds[o][p].scopes)
    BY <1>1 DEF AskInv, RowsAsked
  <2>2. QED
    BY <1>0, <1>1, <2>1, RowStays
<1>2. ASSUME NEW c \in Callbacks, CallbackStore(c)
      PROVE  AnsweredNext(creds'[o][p].token)
             /\ RowNext(o, p, creds'[o][p].token, creds'[o][p].scopes)
  <2>0. cb[c].st.owner \in Owners /\ cb[c].st.provider \in Providers /\ cb[c].key \in StateKeys
    BY <1>0, <1>2, CallbackFacts DEF CallbackStore
  <2>1. CASE o = cb[c].st.owner /\ p = cb[c].st.provider
    <3>1. creds'[o][p] = [token |-> cb[c].token, scopes |-> cb[c].scopes, expired |-> FALSE]
      BY <1>0, <1>2, <2>1 DEF CallbackStore, StoreCredential
    <3>2. CarryNext(cb[c]) /\ cb[c].pc = "store"
      BY <1>0, <1>2, CarryStays DEF CallbackStore
    <3>3. QED
      BY <2>0, <2>1, <3>1, <3>2 DEF CarryNext, RowNext
  <2>2. CASE ~(o = cb[c].st.owner /\ p = cb[c].st.provider)
    <3>1. creds'[o][p] = creds[o][p]
      BY <1>0, <1>2, <2>0, <2>2 DEF CallbackStore, StoreCredential
    <3>2. QED
      BY <1>1, <3>1
  <2>3. QED
    BY <2>1, <2>2
<1>3. ASSUME NEW y \in Owners, NEW q \in Providers,
             \/ \E S \in Claims : handleStoreCredential(y, q, S)
             \/ TokenExpires(y, q) \/ DeleteCredential(y, q)
      PROVE  creds'[o][p].token = creds[o][p].token /\ creds'[o][p].scopes = creds[o][p].scopes
  <2>1. ASSUME NEW S \in Claims, handleStoreCredential(y, q, S)
        PROVE  creds'[o][p] = creds[o][p]
    <3>1. \/ creds'[o][p] = creds[o][p]
          \/ creds'[o][p] = [token |-> Pasted, scopes |-> S, expired |-> FALSE]
      BY <1>0, <2>1 DEF handleStoreCredential, StoreCredential
    <3>2. QED
      BY <3>1
  <2>2. CASE TokenExpires(y, q)
    <3>1. \/ creds'[o][p] = creds[o][p]
          \/ creds'[o][p] = [creds[o][p] EXCEPT !.expired = TRUE]
      BY <1>0, <2>2 DEF TokenExpires
    <3>2. QED
      BY <1>0, <3>1 DEF UserCredential
  <2>3. CASE DeleteCredential(y, q)
    <3>1. creds'[o][p] = creds[o][p] \/ creds'[o][p] = NoCredential
      BY <1>0, <2>3 DEF DeleteCredential
    <3>2. NoCredential.token = None
      BY DEF NoCredential
    <3>3. QED
      BY <3>1, <3>2
  <2>4. QED
    BY <1>3, <2>1, <2>2, <2>3
<1>4. CASE creds' = creds
  BY <1>1, <1>4
<1>5. QED
  BY <1>1, <1>2, <1>3, <1>4 DEF Next, vars, registerSkillProviders, SetCredentials,
     DeleteProvider, StartAuth, StateAges, CallbackStep, PopRead, PopDelete, CallbackGet,
     ExchangeCode, ExchangeEmpty, Exchanged, CallbackFails, GatewayCrash

\* Whatever interleaves, the scopes an agent is told are those the provider named for
\* the token or those that a flow of the user for the provider asked for.
THEOREM IssuedRight == Spec => []IssuedAsAsked
<1>1. Init => AskInv
  <2> SUFFICES ASSUME Init PROVE AskInv
    OBVIOUS
  <2>1. NoState.status = "unborn" /\ NoCredential.token = None
    BY DEF NoState, NoCredential
  <2>2. FlowsKept /\ CarriedAsked /\ RowsAsked
    BY <2>1, EmptyTypes DEF Init, FlowsKept, CarriedAsked, RowsAsked
  <2>3. QED
    BY <2>2, InitType DEF AskInv
<1>2. AskInv /\ [Next]_vars => AskInv'
  BY StepType, StepFlows, StepCarried, StepRows DEF AskInv
<1>3. ASSUME AskInv, NEW o \in Owners, NEW p \in Providers, NEW requested \in SUBSET Scopes,
             IssueToken(o, p, requested) # Denied,
             IssueToken(o, p, requested).token # Pasted
      PROVE  \E k \in StateKeys :
               /\ flow[k].owner = o /\ flow[k].provider = p
               /\ IssueToken(o, p, requested).scopes =
                    intersectScopes(requested, grantedScopes(flow[k].scopes,
                        NamedFor(IssueToken(o, p, requested).token)))
  <2>1. /\ creds[o][p].token # None
        /\ IssueToken(o, p, requested) =
             [token |-> creds[o][p].token,
              scopes |-> intersectScopes(requested, creds[o][p].scopes)]
    BY <1>3 DEF IssueToken
  <2>2. RowAsked(o, p, creds[o][p].token, creds[o][p].scopes)
    BY <1>3, <2>1 DEF AskInv, RowsAsked
  <2>3. QED
    BY <2>1, <2>2 DEF RowAsked
<1>4. AskInv => IssuedAsAsked
  BY <1>3 DEF IssuedAsAsked, NamedFor
<1>5. QED
  BY <1>1, <1>2, <1>4, PTL DEF Spec

-----------------------------------------------------------------------------
(* Used states *)

\* A callback past Pop has deleted its state, although another may have read it.
PoppedGone ==
    \A c \in Callbacks : cb[c].pc \in {"get", "exchange", "store"} =>
        states[cb[c].key].status = "gone"

SpentInv == TypeInv /\ SpentStateGone /\ PoppedGone

\* A state that is gone never comes back.
LEMMA GoneStays ==
  ASSUME TypeInv, [Next]_vars, NEW k \in StateKeys, states[k].status = "gone"
  PROVE  states'[k].status = "gone"
<1>1. CASE UNCHANGED states
  BY <1>1
<1>2. ASSUME NEW o \in Owners, NEW p \in Providers, NEW x \in StateKeys, StartAuth(o, p, x)
      PROVE  states'[k] = states[k]
  BY <1>2 DEF StartAuth, TypeInv
<1>3. ASSUME NEW x \in StateKeys, StateAges(x) PROVE states'[k] = states[k]
  BY <1>3 DEF StateAges, TypeInv
<1>4. ASSUME NEW c \in Callbacks, CallbackStep(c) PROVE states'[k].status = "gone"
  <2>1. CASE PopDelete(c)
    BY <2>1, EmptyTypes DEF PopDelete, TypeInv
  <2>2. CASE ~PopDelete(c)
    BY <1>1, <1>4, <2>2 DEF CallbackStep, PopRead, CallbackGet, ExchangeCode,
       ExchangeEmpty, Exchanged, CallbackStore, CallbackFails
  <2>3. QED
    BY <2>1, <2>2
<1>5. CASE GatewayCrash
  BY <1>5, EmptyTypes DEF GatewayCrash
<1>6. QED
  BY <1>1, <1>2, <1>3, <1>4, <1>5 DEF Next, vars, registerSkillProviders, SetCredentials,
     DeleteProvider, handleStoreCredential, TokenExpires, DeleteCredential

\* A callback is past Pop only if it was before or has just deleted its state.
LEMMA PastPop ==
  ASSUME TypeInv, [Next]_vars, NEW c \in Callbacks,
         cb'[c].pc \in {"get", "exchange", "store"}
  PROVE  /\ cb[c].pc # "idle" /\ cb'[c].key = cb[c].key
         /\ \/ cb[c].pc \in {"get", "exchange", "store"}
            \/ states'[cb[c].key].status = "gone"
<1>0. cb \in [Callbacks -> Callback] /\ cb[c] \in Callback
  BY DEF TypeInv, TypeOK
<1>1. CASE cb'[c] = cb[c]
  BY <1>1
<1>2. ASSUME CallbackStep(c)
      PROVE  /\ cb[c].pc # "idle" /\ cb'[c].key = cb[c].key
             /\ \/ cb[c].pc \in {"get", "exchange", "store"}
                \/ states'[cb[c].key].status = "gone"
  <2>1. CASE PopRead(c)
    <3>1. cb'[c].pc = "delete"
      BY <1>0, <2>1 DEF PopRead, IdleCallback
    <3>2. QED
      BY <3>1
  <2>2. CASE PopDelete(c)
    <3>1. cb[c].pc = "delete" /\ cb[c].key \in StateKeys
      BY <2>2, CallbackFacts DEF PopDelete
    <3>2. states'[cb[c].key].status = "gone"
      BY <2>2, <3>1, EmptyTypes DEF PopDelete, TypeInv
    <3>3. cb'[c] = [cb[c] EXCEPT !.pc = "get"]
      BY <1>0, <2>2, EmptyTypes DEF PopDelete
    <3>4. QED
      BY <1>0, <3>1, <3>2, <3>3 DEF Callback
  <2>3. CASE CallbackGet(c)
    BY <1>0, <2>3 DEF CallbackGet, Callback
  <2>4. CASE ExchangeCode(c) \/ ExchangeEmpty(c)
    <3>1. PICK t, s : Exchanged(c, t, s)
      BY <2>4 DEF ExchangeCode, ExchangeEmpty
    <3>2. QED
      BY <1>0, <3>1 DEF Exchanged, Callback
  <2>5. CASE CallbackStore(c) \/ CallbackFails(c)
    <3>1. cb'[c] = IdleCallback
      BY <1>0, <2>5 DEF CallbackStore, CallbackFails
    <3>2. QED
      BY <3>1, EmptyTypes
  <2>6. QED
    BY <1>2, <2>1, <2>2, <2>3, <2>4, <2>5 DEF CallbackStep
<1>3. ASSUME NEW x \in Callbacks, x # c, CallbackStep(x) PROVE cb'[c] = cb[c]
  BY <1>0, <1>3 DEF CallbackStep, PopRead, PopDelete, CallbackGet, ExchangeCode,
     ExchangeEmpty, Exchanged, CallbackStore, CallbackFails
<1>4. CASE GatewayCrash
  BY <1>4, EmptyTypes DEF GatewayCrash
<1>5. QED
  BY <1>1, <1>2, <1>3, <1>4 DEF Next, vars, registerSkillProviders, SetCredentials,
     DeleteProvider, StartAuth, StateAges, handleStoreCredential, TokenExpires,
     DeleteCredential

LEMMA StepSpent == SpentInv /\ [Next]_vars => SpentInv'
<1> SUFFICES ASSUME SpentInv, [Next]_vars PROVE SpentInv'
  OBVIOUS
<1>0. TypeInv /\ TypeInv' /\ spent \subseteq StateKeys
  BY StepType DEF SpentInv, TypeInv, TypeOK
<1>1. \A k \in spent' : k \in spent \/ \E c \in Callbacks :
          cb[c].pc = "exchange" /\ k = cb[c].key
  BY DEF Next, vars, registerSkillProviders, SetCredentials, DeleteProvider, StartAuth,
     StateAges, handleStoreCredential, TokenExpires, DeleteCredential, CallbackStep, PopRead,
     PopDelete, CallbackGet, ExchangeCode, ExchangeEmpty, Exchanged, CallbackStore,
     CallbackFails, GatewayCrash
<1>2. ASSUME NEW k \in spent' PROVE states[k].status = "gone" /\ k \in StateKeys
  BY <1>0, <1>1, <1>2, CallbackFacts DEF SpentInv, SpentStateGone, PoppedGone
<1>3. SpentStateGone'
  BY <1>0, <1>2, GoneStays DEF SpentStateGone
<1>4. ASSUME NEW c \in Callbacks, cb'[c].pc \in {"get", "exchange", "store"}
      PROVE  states'[cb'[c].key].status = "gone"
  <2>1. cb[c].key \in StateKeys /\ cb'[c].key = cb[c].key
    BY <1>0, <1>4, PastPop, CallbackFacts
  <2>2. CASE cb[c].pc \in {"get", "exchange", "store"}
    BY <1>0, <2>1, <2>2, GoneStays DEF SpentInv, PoppedGone
  <2>3. QED
    BY <1>0, <1>4, <2>1, <2>2, PastPop
<1>5. QED
  BY <1>0, <1>3, <1>4 DEF SpentInv, PoppedGone

\* No callback finds a state that another has used in an exchange, although Pop's
\* read and delete of the unlocked map are two steps.
THEOREM SpentStatesGone == Spec => []SpentStateGone
<1>1. Init => SpentInv
  BY InitType, EmptyTypes DEF Init, SpentInv, SpentStateGone, PoppedGone
<1>2. SpentInv => SpentStateGone
  BY DEF SpentInv
<1>3. QED
  BY <1>1, <1>2, StepSpent, PTL DEF Spec

=============================================================================
