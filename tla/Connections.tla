---------------------------- MODULE Connections -----------------------------
(***************************************************************************)
(* OAuth connections and the credential broker.                            *)
(*                                                                         *)
(* A skill's manifest registers a provider, an administrator gives it its  *)
(* client credentials, a user starts a flow (StartAuth keeps a state in     *)
(* memory and sends the browser away), the provider's callback pops the    *)
(* state, redeems the code and stores the token, and agents and dispatch   *)
(* obtain it from the broker.  Callbacks are processes of Callbacks, with  *)
(* one action per access of the shared state: StateStore is a plain map    *)
(* that HTTP handlers read and delete from without a lock.                 *)
(*                                                                         *)
(* An owner is a (tenant, user) pair, the key the broker stores by.         *)
(* Encryption is not modelled (a token is opaque), nor the audit log (the   *)
(* broker only writes it and drops its errors).  Provider rows keep their   *)
(* existence, "configured" and the scopes they ask for.                     *)
(*                                                                         *)
(* The state and the code of a callback are two parameters of its URL, and *)
(* nothing in the code ties one to the other: any callback may bring any   *)
(* code.  A code stands for the token it is redeemed for.                  *)
(***************************************************************************)
EXTENDS Integers, FiniteSets

CONSTANTS
    Owners, Providers, Scopes,
    Manifests,  \* the sets of scopes that skill manifests declare
    Claims,     \* the sets of scopes that users claim for the tokens they paste
    Responses,  \* the scopes that token responses name, see ScopeString
    StateKeys,  \* bound: flows ever started
    Codes,      \* bound: codes that providers hand out
    Callbacks,  \* bound: callbacks in flight at once
    Empty,      \* the empty access token
    Pasted,     \* a token that a user pastes
    Lump,       \* a list of scopes that strings.Split does not take apart
    None

ASSUME NoneAssumption ==
    /\ None \notin Owners \cup Providers \cup StateKeys \cup Codes \cup {Empty, Pasted}
    /\ Empty \notin Codes \cup {Pasted} /\ Pasted \notin Codes

ASSUME LumpAssumption == Lump \notin Scopes

\* The member "scope" of a token response: no names when it is left out.  Slack's
\* lists, for one, are separated by commas.
ScopeString ==
    {s \in [names : SUBSET Scopes, sep : {" ", ","}] :
        s.sep = "," => \E x, y \in s.names : x # y}

ASSUME ResponsesAssumption == Responses \subseteq ScopeString

ASSUME ManifestsAssumption == Manifests \cup Claims \subseteq SUBSET Scopes

VARIABLES
    provs,   \* the table oauth_providers
    states,  \* StateStore.states: the pending flows
    creds,   \* the table user_credentials
    cb,      \* the callbacks in flight
    answer,  \* history: the scopes the provider named when it redeemed a code
    flow,    \* history: what each flow asked for when it was started
    spent    \* history: the states that a callback has used in an exchange

vars == <<provs, states, creds, cb, answer, flow, spent>>

-----------------------------------------------------------------------------
ProviderConfig == [made : BOOLEAN, configured : BOOLEAN, scopes : SUBSET Scopes]

\* "unborn", "pending", "old" (saved more than 10 minutes ago), "gone".
AuthState == [status : {"unborn", "pending", "old", "gone"},
              owner : Owners \cup {None}, provider : Providers \cup {None},
              scopes : SUBSET Scopes]

Stored == SUBSET (Scopes \cup {Lump})

UserCredential == [token : Codes \cup {Empty, Pasted, None}, scopes : Stored,
                   expired : BOOLEAN]

Callback == [pc : {"idle", "delete", "get", "exchange", "store"},
             key : StateKeys \cup {None}, st : AuthState, client : BOOLEAN,
             token : Codes \cup {Empty, None}, scopes : Stored]

NoProvider == [made |-> FALSE, configured |-> FALSE, scopes |-> {}]
NoState == [status |-> "unborn", owner |-> None, provider |-> None, scopes |-> {}]
GoneState == [NoState EXCEPT !.status = "gone"]
NoCredential == [token |-> None, scopes |-> {}, expired |-> FALSE]
Unused == [names |-> {}, sep |-> "unused"]
Silent == [names |-> {}, sep |-> " "]
Denied == [token |-> None, scopes |-> {}]
IdleCallback == [pc |-> "idle", key |-> None, st |-> NoState,
                 client |-> FALSE, token |-> None, scopes |-> {}]

TypeOK ==
    /\ provs \in [Providers -> ProviderConfig]
    /\ states \in [StateKeys -> AuthState]
    /\ creds \in [Owners -> [Providers -> UserCredential]]
    /\ cb \in [Callbacks -> Callback]
    /\ answer \in [Codes -> ScopeString \cup {Unused}]
    /\ flow \in [StateKeys -> AuthState]
    /\ spent \subseteq StateKeys

Init ==
    /\ provs = [p \in Providers |-> NoProvider]
    /\ states = [k \in StateKeys |-> NoState]
    /\ creds = [o \in Owners |-> [p \in Providers |-> NoCredential]]
    /\ cb = [c \in Callbacks |-> IdleCallback]
    /\ answer = [x \in Codes |-> Unused]
    /\ flow = [k \in StateKeys |-> NoState]
    /\ spent = {}

-----------------------------------------------------------------------------
\* The provider registry.

\* The upsert rewrites everything a manifest declares, also of a configured row,
\* and leaves its client credentials and "configured" alone.
RegisterFromSkill(p, S) ==
    provs' = [provs EXCEPT ![p].made = TRUE, ![p].scopes = S]

\* After a publish, for every provider the manifest declares; an error is logged
\* and dropped.
registerSkillProviders(p, S) ==
    /\ RegisterFromSkill(p, S)
    /\ UNCHANGED <<states, creds, cb, answer, flow, spent>>

SetCredentials(p) ==
    /\ provs[p].made
    /\ provs' = [provs EXCEPT ![p].configured = TRUE]
    /\ UNCHANGED <<states, creds, cb, answer, flow, spent>>

\* handleDeleteProvider: states and credentials of the provider stay.
DeleteProvider(p) ==
    /\ provs[p].made
    /\ provs' = [provs EXCEPT ![p] = NoProvider]
    /\ UNCHANGED <<states, creds, cb, answer, flow, spent>>

-----------------------------------------------------------------------------
\* The authorization flow.

\* handleConnectStart and StartAuth: the provider must be registered, not
\* configured; handleConnectStart asks for no extra scopes.
StartAuth(o, p, k) ==
    /\ provs[p].made
    /\ states[k].status = "unborn"
    /\ flow' = [flow EXCEPT ![k] = [status |-> "pending", owner |-> o,
                    provider |-> p, scopes |-> provs[p].scopes]]
    /\ states' = [states EXCEPT ![k] = flow'[k]]
    /\ UNCHANGED <<provs, creds, cb, answer, spent>>

\* Ten minutes pass; nothing sweeps the map.
StateAges(k) ==
    /\ states[k].status = "pending"
    /\ states' = [states EXCEPT ![k].status = "old"]
    /\ UNCHANGED <<provs, creds, cb, answer, flow, spent>>

\* Mutant of PopRead: the state is deleted only when it is found too old.
PopPeek(c) ==
    /\ cb[c].pc = "idle"
    /\ \E k \in StateKeys :
         /\ states[k].status \in {"pending", "old"}
         /\ cb' = [cb EXCEPT ![c] = [IdleCallback EXCEPT
                     !.pc = IF states[k].status = "old" THEN "delete" ELSE "get",
                     !.key = k, !.st = states[k]]]
    /\ UNCHANGED <<provs, states, creds, answer, flow, spent>>

\* handleConnectCallback, HandleCallback and the map read of Pop.  A reply
\* that carries an error, or no code, never gets here.
PopRead(c) ==
    /\ cb[c].pc = "idle"
    /\ \E k \in StateKeys :
         /\ states[k].status \in {"pending", "old"}
         /\ cb' = [cb EXCEPT ![c] = [IdleCallback EXCEPT
                     !.pc = "delete", !.key = k, !.st = states[k]]]
    /\ UNCHANGED <<provs, states, creds, answer, flow, spent>>

\* The delete of Pop, and its test of CreatedAt.
PopDelete(c) ==
    /\ cb[c].pc = "delete"
    /\ states' = [states EXCEPT ![cb[c].key] = GoneState]
    /\ cb' = [cb EXCEPT ![c] = IF cb[c].st.status = "old" THEN IdleCallback
                               ELSE [cb[c] EXCEPT !.pc = "get"]]
    /\ UNCHANGED <<provs, creds, answer, flow, spent>>

\* Mutant of CallbackGet: the scopes are taken from the provider's row, read anew.
GetRereadsScopes(c) ==
    /\ cb[c].pc = "get" /\ provs[cb[c].st.provider].made
    /\ cb' = [cb EXCEPT ![c].pc = "exchange",
                        ![c].client = provs[cb[c].st.provider].configured,
                        ![c].st.scopes = provs[cb[c].st.provider].scopes]
    /\ UNCHANGED <<provs, states, creds, answer, flow, spent>>

\* Registry.Get of the provider the state names, with its client credentials.
CallbackGet(c) ==
    /\ cb[c].pc = "get" /\ provs[cb[c].st.provider].made
    /\ cb' = [cb EXCEPT ![c].pc = "exchange",
                        ![c].client = provs[cb[c].st.provider].configured]
    /\ UNCHANGED <<provs, states, creds, answer, flow, spent>>

\* strings.Split at blanks: a list with another separator stays one string, which
\* is none of the scopes.
Split(s) == IF s.sep = "," THEN {Lump} ELSE s.names

\* HandleCallback keeps the scopes asked for when the response names none.
grantedScopes(asked, s) == IF s.names = {} THEN asked ELSE Split(s)

\* exchangeCode returns token t and scope s; no field of the response is checked.
Exchanged(c, t, s) ==
    /\ cb[c].pc = "exchange"
    /\ cb' = [cb EXCEPT ![c] = [cb[c] EXCEPT !.pc = "store", !.token = t,
                                   !.scopes = grantedScopes(cb[c].st.scopes, s)]]
    /\ spent' = spent \cup {cb[c].key}
    /\ UNCHANGED <<provs, states, creds, flow>>

\* The provider redeems the code of the URL, once and for a client it knows
\* (external), for some scopes.
ExchangeCode(c) ==
    /\ cb[c].client
    /\ \E x \in Codes, s \in Responses :
         /\ answer[x] = Unused
         /\ answer' = [answer EXCEPT ![x] = s]
         /\ Exchanged(c, x, s)

\* The provider answers 200 with a body that describes an error.
ExchangeEmpty(c) == Exchanged(c, Empty, Silent) /\ UNCHANGED answer

\* StoreCredential of the broker: an upsert of the whole row.
StoreCredential(o, p, k, S) ==
    creds' = [creds EXCEPT ![o][p] = [token |-> k, scopes |-> S, expired |-> FALSE]]

\* handleConnectCallback stores by the state's owner and provider, not by those
\* of the browser that delivered the callback.
CallbackStore(c) ==
    /\ cb[c].pc = "store"
    /\ StoreCredential(cb[c].st.owner, cb[c].st.provider, cb[c].token, cb[c].scopes)
    /\ cb' = [cb EXCEPT ![c] = IdleCallback]
    /\ UNCHANGED <<provs, states, answer, flow, spent>>

\* The state is nil, the provider is not found, the exchange or the store fails.
CallbackFails(c) ==
    /\ cb[c].pc \in {"get", "exchange", "store"}
    /\ cb' = [cb EXCEPT ![c] = IdleCallback]
    /\ UNCHANGED <<provs, states, creds, answer, flow, spent>>

-----------------------------------------------------------------------------
\* The broker.

\* Any token, for any provider name, with the scopes the user claims it has.
handleStoreCredential(o, p, S) ==
    /\ StoreCredential(o, p, Pasted, S)
    /\ UNCHANGED <<provs, states, cb, answer, flow, spent>>

\* expires_at passes.
TokenExpires(o, p) ==
    /\ creds[o][p].token # None
    /\ creds' = [creds EXCEPT ![o][p].expired = TRUE]
    /\ UNCHANGED <<provs, states, cb, answer, flow, spent>>

DeleteCredential(o, p) ==
    /\ creds[o][p].token # None
    /\ creds' = [creds EXCEPT ![o][p] = NoCredential]
    /\ UNCHANGED <<provs, states, cb, answer, flow, spent>>

\* intersectScopes: an empty request is a request for everything.
intersectScopes(requested, available) ==
    IF requested = {} THEN available ELSE requested \cap available

\* IssueToken, for an agent (handleIssueToken) or, with no scopes, for the
\* task of a message (dispatchToAgent, one provider of ListProviders after the
\* other).  It reads one row and writes the audit log only: its answer is a
\* function of the state.
IssueToken(o, p, requested) ==
    LET cred == creds[o][p]
        granted == intersectScopes(requested, cred.scopes)
    IN  IF \/ cred.token = None
           \/ requested # {} /\ granted = {}
           \/ cred.expired
        THEN Denied
        ELSE [token |-> cred.token, scopes |-> granted]

\* The gateway restarts (the Go runtime may also stop it when it notices the
\* unlocked map accesses): pending states and callbacks are lost.
GatewayCrash ==
    /\ states' = [k \in StateKeys |-> IF states[k].status = "unborn"
                                      THEN states[k] ELSE GoneState]
    /\ cb' = [c \in Callbacks |-> IdleCallback]
    /\ UNCHANGED <<provs, creds, answer, flow, spent>>

-----------------------------------------------------------------------------
CallbackStep(c) ==
    \/ PopRead(c) \/ PopDelete(c) \/ CallbackGet(c) \/ ExchangeCode(c)
    \/ ExchangeEmpty(c) \/ CallbackStore(c) \/ CallbackFails(c)

Next ==
    \/ \E p \in Providers, S \in Manifests : registerSkillProviders(p, S)
    \/ \E p \in Providers : SetCredentials(p) \/ DeleteProvider(p)
    \/ \E o \in Owners, p \in Providers, k \in StateKeys : StartAuth(o, p, k)
    \/ \E k \in StateKeys : StateAges(k)
    \/ \E c \in Callbacks : CallbackStep(c)
    \/ \E o \in Owners, p \in Providers :
         \/ \E S \in Claims : handleStoreCredential(o, p, S)
         \/ TokenExpires(o, p) \/ DeleteCredential(o, p)
    \/ GatewayCrash

Spec == Init /\ [][Next]_vars

-----------------------------------------------------------------------------
\* Whatever flows, callbacks, publications, pasted tokens and crashes interleave,
\* the scopes IssueToken tells an agent are, unless the user pasted the token,
\* those the provider named for this very token or, when it named none, those
\* that a flow of this user for this provider asked for when it was started,
\* whatever has become of the provider's row since (HandleCallback).
IssuedAsAsked ==
    \A o \in Owners, p \in Providers, requested \in SUBSET Scopes :
        LET issued == IssueToken(o, p, requested)
            named == IF issued.token \in Codes THEN answer[issued.token] ELSE Silent
        IN  issued # Denied /\ issued.token # Pasted =>
              \E k \in StateKeys :
                /\ flow[k].owner = o /\ flow[k].provider = p
                /\ issued.scopes =
                     intersectScopes(requested, grantedScopes(flow[k].scopes, named))

\* Once a callback has used a state in an exchange no later one finds that state,
\* although two that overlap may both read it before either deletes it (Pop).
SpentStateGone == \A k \in spent : states[k].status = "gone"

=============================================================================
