# Volund: a TLA+ verification project

This directory models the gateway of Volund (`src/`, Go): the service that takes
user messages, hands them to agent pods, streams and stores the answers, routes LLM
requests to providers, and keeps accounts, skills and OAuth connections. The modules are checked with TLC on small
instances and, where noted, proved with TLAPS for every value of their constants.
`PROJECT.json` holds the machine-readable side: components, runs, mutants, the
map from definitions to source lines, findings, hazards and theorems.

## The system

| Component | Code | State | Operations |
|---|---|---|---|
| Message dispatch | `gateway/api/conversations.go`, `gateway/server.go` | one goroutine per message, `tasks` and `messages` rows | `handlePostMessage`, `dispatchToAgent`, `dispatchTask` |
| Stream watcher | `gateway/ws.go` | one goroutine per dispatched task, its channel, the text put together so far | `watchConvStream`, `persistAssistantMessage` |
| WebSocket stream | `gateway/ws.go` | one connection per client, its channel | `handleConvStream`, `handleClientFrame` |
| Pod claiming | `gateway/claim.go`, `db/agent_repo.go` | `agent_instances` rows: warm or active | `EnsureInstance`, `Release`, `ClaimInstance`, `ReleaseInstance` |
| Routing table | `gateway/routing.go` | conversation -> instance, in Redis (TTL 35 min) or in memory | `Get`, `Set`, `Delete` |
| Instance syncer | `gateway/instance_syncer.go` | the same rows | `handleHeartbeat` |
| Task rows | `db/task_repo.go`, `gateway/api/tasks.go` | `tasks.status` | `Create`, `SetRunning`, `Complete`, `Fail`, `Cancel`, `handleCancelTask` |
| Dispatcher, bridge | `dispatch/` | NATS subjects, a 512-event channel per subscription | `Dispatch`, `DispatchToInstance`, `Steer`, `Subscribe` |
| LLM router | `llm/router.go`, `llm/circuit.go` | fallback chains, a circuit breaker per provider | `Chat`, `StreamChat`, `Embed`, `Respond`, `StreamRespond`, `ProviderHealth` |
| Connection pool | `db/db.go`, all of `db/` | pgx connections | `AddMessage` and every other statement |
| Accounts | `auth/`, `gateway/api/auth.go` | users, tenants, members, refresh tokens, OIDC states | `Register`, `Login`, `LoginOIDC`, `RefreshToken`, `Logout` |
| Tenants, invites | `gateway/api/tenants.go` | tenants, members, invites | create, invite, accept |
| Skills | `db/skill_repo.go`, `gateway/api/forge.go`, `skills_activation.go` | registry, tenant installs, user enablements | publish, install, enable, uninstall |
| OAuth, credentials | `providers/`, `credentials/`, `gateway/api/connect.go` | pending OAuth states, encrypted credentials | connect, callback, issue, revoke |
| LLM providers, gRPC service | `llm/openai`, `llm/anthropic`, `llm/ollama`, `llm/service.go` | a decoder per stream | `Chat`, `StreamChat` with its conversions, `Embed`, `ListModels` |
| Usage, quotas | `usage/` | usage events, quota rows and alert flags | record, check, alert |
| Profiles, memory, attachments | `gateway/api/` | single rows | CRUD |

**How they interact.** `handlePostMessage` stores the user's message and starts
`dispatchToAgent`, which loads the history, creates a task row, asks the claim
manager for a pod (routing table first, then a claim in the database) and calls
`dispatchTask`. That publishes the task on NATS, to the claimed pod or to the pool
queue group, and starts `watchConvStream`. The agent publishes `agent_start`,
`delta`, `turn_end`, `error` and `agent_end` on the conversation's one stream
subject; every watcher and every WebSocket client of the conversation receives all
of it. On `agent_start` a watcher records the pod in the routing table, on
`agent_end` it stores the rest of the answer, completes its task row, releases the
pod named by the routing table and clears the entry. Heartbeats insert and refresh
the instance rows all the while. Agents call back into the LLM service, which converts
their messages and asks the router, whose breakers are shared by all requests.
Publishing a skill registers the OAuth providers its manifest declares; dispatch hands
an agent the skills its user has active and tokens the broker issues.

**What is hard.** The steps of one message are statements on three stores (Postgres,
Redis, NATS) without a common transaction; goroutines of several messages and
replicas interleave between any two of them. Events carry no task id. Subscribing
races publishing. Timeouts, dropped events and crashes leave rows behind. Breakers
are updated by answers that arrive long after the request was admitted. One function
needs two pool connections at once. Handlers of accounts, invites, skills and
connections are sequences of statements without a transaction, interleaved with those of
other requests and cut off anywhere; one state store is a map without a lock. Three
decoders put tool calls together from fragments, each in its own way. `PROJECT.json` lists these as hazards, each at
the line where it bites.

**What makes each component correct.** A claimed pod serves one message at a time
and returns to the pool; a completed task row stands for an answer of its conversation;
a watcher saves the answer it saw, and the agent gets the question it is to answer;
goroutines and connections end; breakers trip, probe and close only for the reasons
they may; a pool of connections is never exhausted by its own waiters; a session
belongs to a member, a refresh token that was exchanged is dead, an accepted invite has
a member; an agent gets the skills its user asked for and is told the scopes that were
granted or asked for; tool calls reach an agent whole, and what was complete of a
streamed reply has been sent, in order.

## Modules

| Module | Models |
|---|---|
| `Fleet` | constants shared by the gateway's modules: pods, conversations |
| `AgentInstances` | `agent_instances` statements, each atomic |
| `RoutingTable` | the routing table's commands |
| `ConvDispatch` | composes the two with dispatch goroutines, watchers, task rows, cancellation, heartbeats, crashes and (external) agents and NATS |
| `PodLease` | abstract specification of claiming: pods are leased, let go and given back |
| `ConvStream` | the transcript of one conversation: saving, loading, streaming, watchers' text, WebSocket clients |
| `Transcript` | abstract specification of the message table: a log that is asked and told |
| `ConnPool` | `AddMessage` on the connection pool |
| `CircuitBreaker` | a breaker as a record, its methods as functions on it |
| `LLMRouter` | concurrent requests walking fallback chains of breakers |
| `CircuitPromise` | abstract specification of a breaker: no clock, no failure count |
| `Accounts` | registration, login, OIDC, sessions, tenants and invites, one action per statement |
| `Skills` | the skill registry, installations by tenants, enablements by users |
| `Connections` | provider registry, OAuth flows and callbacks, the credential broker |
| `LLMService` | one streamed chat: message conversion, three decoders, the chunks sent |
| `MC...` | instances for TLC |
| `...Proofs` | theorems |

### ConvDispatch

Per message `m`: `dpc[m]` is where `dispatchToAgent` is (`create` before
`Tasks.Create`, `lookup` before `EnsureInstance`'s `Get`, `claim` before
`ClaimInstance`, `set` before `route.Set`, `publish` before `dispatchTask`), `wpc[m]`
where the watcher is (`relget`, `reldel`, `reldb`, `clear` are the four commands of a
release), `buf[m]` the events in its channel, `task[m]` the status column. `inst[p]`
and `route[c]` are the two tables. Each action is one statement or command together
with the code up to the next one; its alternative branches are the error paths, and
`Fault` takes one unit of `FaultBudget` for each failure. `ClaimFails` allows for a
claim that commits although its caller gets an error. A task message is addressed to a
pod name (fresh claim), to an instance UUID (routing-table hit, which carries no pod
name) or to the pool; only the first and the last have subscribers. `Heartbeating` and
`PoolSubscribers` are the pods that have rows and the pods that serve the pool; the code
describes them as the same warm pods (`dispatcher.go:48`, `types.go:138`,
`instance_syncer.go:13-15`), and except in `dispatch_serial` they overlap in the runs. Deltas are left
out here; an event lost to a full channel is `BridgeDrop`.

Four switches describe the environment. `Serial`: users post to a conversation only
when its goroutines have returned and no agent works on it. `Prompt`: the 30 minute
watcher timeout and the route's TTL only strike when nothing is going on.
`RedisFaults` and `Crashes` allow failed routing commands and a crash of the gateway
process (rows stay; the in-memory table is lost, Redis is not). Theorems hold for all
settings that they do not name.

`PodLease` says what claiming promises to someone who knows nothing of goroutines,
routes and streams. A warm pod nobody uses is leased to a message that uses none; a
lease may be recorded without its caller learning of it; messages may let go of their
pods (timeouts, crashes, failed commands); a pod is given back only when nobody else
uses it. `KeepsLeases` maps its `row` to the instance table and its `users` to the
messages that hold each pod (`Holders`).

Two properties are about the task rows, for any overlap. No event carries a task id, so
with overlapping messages one `agent_end` completes every row whose watcher sees it;
`CompletedAnswered` is what remains true: a completed row has an agent of the same
conversation that ran to its `agent_end`. `CompletedUnlessCancelled` says that of all
the unconditional `UPDATE`s only a cancellation that read the row before it was
completed takes it back.

### ConvStream

One conversation. `rows` is its part of `messages` in `created_at` order; a piece of
text is a message's question (piece 0) or a delta of its answer. Each watcher has a
channel of `ChanCap` events, from which the callback of `Subscribe` drops what does
not fit, and the text it has put together. Messages of a conversation overlap in any
way: a user may post before the last answer is saved, or while an agent still talks, and
every watcher hears every agent. The role of a posted message is the client's choice out
of `Roles` (`conversations.go:136`). `intact[m]` is a history variable: `m`'s watcher
subscribed before `agent_start`, no event was dropped from its channel, no `INSERT` of
its failed, it did not time out, and no `agent_start` or `agent_end` of another agent
cut it off in the middle of its own answer.

`Transcript` is what a reader of the table may rely on: it only grows; a question enters
once, before anything of its answer; several scribes (the watchers) may write down the
same answer, but none of them writes a piece twice or goes back in an answer.
`KeepsTranscript` maps its `log` to `rows`. That an answer is saved by one watcher only,
right after its question, is not promised: the code does not see to it.

### ConnPool

`AddMessage` calls `pool.QueryRow`, which keeps its connection until the row is
scanned, then `pool.Exec`, which takes another, then scans. `pc[g]` follows a caller
through these calls; `gone` holds the callers whose request context was cancelled;
`Others` are all statements that take one connection.

### CircuitBreaker, LLMRouter, CircuitPromise

A breaker is a record; time is the age of `lastFailure`, saturating at `openDuration`.
`Chat`, `StreamChat` and `Embed` run the same loop and are one kind of request: for
each provider of the chain, `Allow`, the call, `RecordSuccess` or `RecordFailure`.
Between the call and the record any number of other steps happen. `Respond` goes
straight to a native provider. `ProviderHealth` calls `State`, which moves an open
breaker to half-open without the reset that `Allow` does. `CircuitPromise` says what
callers may rely on: a breaker opens only on a failure, is half-open only after open,
and closes only after `need` successes in a row while half-open. `good`, the history
variable of the refinement, counts those.

### Accounts

Every HTTP request with more than one statement is a process of `Requests` whose
`pc` names its next statement; `Fail` ends it anywhere, leaving what it wrote. Register,
Login, LoginOIDC and RefreshToken share `CreateOrg`, `AddOwner`, `PrimaryTenant` and
`IssuePair`, as the code shares them. `joined` is `joined_at` as a rank, because
`GetPrimaryMembership` orders by it. A pair is a refresh token together with the access
token issued with it: the access token stays usable (`Authenticated`) whatever becomes
of rows. Deleting a tenant cascades to members, tokens and invites. `parent` and
`usedBy` are history variables: which token a pair was issued for, who used an invite.
`handleOIDCCallback` and `AuthURL` keep the manager's states map, which has a mutex.

### Skills

Each handler looks its skill up by id, then by name, and acts on the id it found;
`UninstallForTenant` and `EnableForUser` are two statements each. Rows keep their name,
one column updates overwrite, `published` and the download counter. `asked[t][u]` is a
history variable: skills the user asked for since the last time a delete took them away
without an enable in flight.

### Connections

`provs` is the provider table, `states` the in-memory `StateStore`, `creds` the
credential table keyed by owner (tenant and user) and provider, `cb` the callbacks in
flight. `Pop` is two actions, because the map has no lock; reading twice at once is a
data race whose outcomes include both callbacks taking the state. State and code are
separate parameters of the URL, and nothing ties one to the other: a callback brings any
code. The provider redeems a code once (external) and names some scopes, or none; what
it names is a string (`ScopeString`) that `HandleCallback` splits at blanks, so that a
list with commas becomes the one scope `Lump`. A response of status 200 without a token
is `ExchangeEmpty`: the empty token is stored like any other. `answer`, `flow` and
`spent` are history variables: what the provider named for a code, what a flow asked for
when it started, which states were used. `IssueToken` writes nothing but the audit log,
so it is an operator, and `IssuedAsAsked` quantifies over every request for a token in
every state.

### LLMService

Init chooses a provider and any request of up to `MaxMessages` messages. `Convert` is
the conversion of the service and of the provider; after it the provider (external)
generates text deltas, tool calls and fragments in any order its protocol allows, and
each event is one action with what `Recv` makes of it and the `Send` of the chunk. A
text delta is its number, a call its number and the count of fragments put together:
that is enough to see a lost, doubled, moved or truncated part. A stream may fail at any
point and, for Anthropic and Ollama, whose decoders take every end without an error for
the end of the reply, be closed at any point, also in the middle of a call
(`StreamEnds`). A tool block of Anthropic's may have no `input_json_delta`, and the chunk
with Ollama's finish reason may bring a new call.

## Runs

| Run | Question | Bounds |
|---|---|---|
| `dispatch_serial` | Are claims exclusive and held pods active, with one failure anywhere? Do claims and releases implement `PodLease`? | 3 messages, 2 conversations, 2 warm pods and a pool pod without heartbeats, users wait, Redis works, timeouts and a crash at any time, symmetry |
| `dispatch_faults` | With overlap, slow agents, Redis failures, crashes and cancellation: which rows are completed, and who takes a completed row back? Who can take a pod out of the active state, and is a leaked pod ever recovered? | 2 messages, 2 conversations, 1 pod that is claimed and serves the pool, 1 failure |
| `dispatch_live` | Do all goroutines return, and watched pods, too? | 2 messages, 2 conversations, 2 pods of which one is claimed and serves the pool, 1 failure, fairness |
| `stream_overlap` | Has a watcher that lost nothing saved the whole answer? Is a message in its own history? Does the table implement `Transcript`? Are clients closed? | 2 messages that overlap in any way, 2 deltas in all, channels of 1, history of 4, 1 client, 1 failure, timeouts at any time, fairness |
| `pool_room` | Are connections accounted for and does `AddMessage` return when there is a connection to spare? | 3 callers, 4 connections |
| `accounts` | Do sessions belong to members, is an exchanged refresh token dead, has an accepted invite a member, whatever overlaps and fails? | 2 spellings of an address, 2 tenants, 2 token pairs, 1 invite, 1 OIDC identity, 2 overlapping requests |
| `skills` | Do users' agents get what they asked for; are downloads counted? | 1 tenant, 2 users, 2 rows of one name, 2 overlapping requests |
| `connections` | Are agents told the scopes that were named or asked for, and is a used state gone? | 2 users, 1 provider, 2 scopes, 2 flows, 2 codes, 3 kinds of responses and the empty one, 2 overlapping callbacks |
| `llm_service` | Are tool turns kept by the conversions; do calls arrive whole, and is what was complete sent in order, wherever the stream ends? | 2 messages of 2 blocks; 3 deltas, 3 calls of 3 fragments |
| `llm_router` | Are the breakers' counters right, do they keep `CircuitPromise`, do they close again, do requests end? | 2 providers, 2 requests, thresholds 2 |

Two messages of one conversation are enough for every race between watchers, a third
message on a second conversation for a pod that is handed on; two warm pods let claims
differ; one failure at a time, because each failure alone already reaches every error
path and pairs only repeat them; two requests overlap a late answer with a probe;
thresholds of 2 tell "one" from "enough". A channel of one event overflows whenever its
reader is slow, and is otherwise read in time; two deltas in all are a pair of one
answer or one of each of two answers; tables of up to 6 rows lie on both sides of a
history limit of 4. Two overlapping requests reach every race of two handlers, and the statements of a
third only add to what one of the two may already do between two of its steps; two rows
of one name are a skill that is deleted and published again; two tokens, or codes, are
one to be replaced by the other. The proofs remove these
bounds wherever a theorem states the property. Deadlock checking is off where the system may really stop: all messages posted and
answered.

Runs that end in a counterexample, each against a sentence of the code:

| Run | Sentence | What happens |
|---|---|---|
| `pool_release` | `ws.go:269` "Release the claimed pod back to the warm pool." | a warm pod also serves the pool: `m1` finds no warm row and goes to the pool, `m2` of another conversation claims `p1`, the pool hands `m1`'s task to `p1`; `agent_start` routes `m1`'s conversation to `p1` without a claim, and on `agent_end` its watcher returns `p1` to the warm pool while `m2` holds it |
| `pool_full` | `conversations.go:122` "Returns the saved message immediately" | as many `AddMessage` calls as connections wait for each other |

In `pool_release` users wait and nothing fails. `HeldIsActive` is also violated when
messages of one conversation overlap, with pool pods that send no heartbeats (in
`MCConvDispatch_serial.cfg` set `Serial = FALSE`): on an
`agent_end` a watcher releases the pod that another message of its conversation has
claimed since.

Met while modelling and not given a run of their own:

* Dispatch: on a routing-table hit there is no pod name (`api.go:22` "K8s pod name —
  used as NATS dispatch subject"), so the follow-up task and `Steer` go to the UUID's
  subject, which nobody subscribes to (`claim.go:56`). An agent that ends before the
  watcher subscribes (`server.go:356`) is never released. A task can complete between
  the check and the write of a cancellation (`tasks.go:62`). With overlapping messages
  one `agent_end` completes both task rows. A warm pod at work on a pool task stays
  `warm` and can be claimed meanwhile. An empty warm pool is reported as an error,
  because `isNoRows` compares text that `scanInstance` has prefixed (`agent_repo.go:142`).
* Transcript: a user who has seen `agent_end` can post before the watcher has saved the
  answer, and the history lacks it (`conversations.go:179` "Load full conversation
  history."). Two watchers of overlapping messages each save the same answer, and an
  answer may be stored behind a later question. Past 500 messages the query returns the
  oldest ones. The role of a posted message is stored as the client sent it.
* Router: a half-open breaker admits every request (`circuit.go:14` says limited);
  `Respond` ignores the breakers (`router.go:12`).
* Accounts: `LoginOIDC` "Creates the user and org if they don't exist yet"
  (`service.go:160`), but a failure after the user row leaves an account whose next login
  finds the user and no organisation, and is refused for good; a failed `Register`
  leaves an address that can neither register nor log in. `Logout` "revokes all refresh
  tokens for the user" (`service.go:199`) and revokes one. A refreshed pair always has
  the role `member`. The owner who creates a tenant is not made its member.
  Two overlapping requests with one refresh token both get a pair, and two can use one
  invite: `RotationRetires` and `AcceptedJoined` do not exclude that.
* Skills: `UninstallForTenant` drops the error of its first delete; an enable that
  overlaps it leaves a row that a later install brings back (both are exempt from
  `ActiveWasAsked`, through `asked`). Two overlapping
  `handleUpdateSkill` requests lose one update.
* Connections: two overlapping callbacks may both take one state from the unlocked map;
  `SpentStateGone` is about later ones. A token response of status 200 with an error
  body is stored as an empty token over a valid one (`oauth2.go:219-229`). Scopes that a
  provider separates by commas stay one string, so that a request for any of them is
  refused. `RegisterFromSkill` rewrites the authorization and token URLs of a configured
  provider, too (`registry.go:26` "only metadata fields are updated").
  `IssueToken` returns the stored token itself with an `ExpiresIn` of 300, whatever
  scopes were asked for, against the header of `broker.go` ("Agents never see raw user
  tokens").
* LLM providers: OpenAI's stream drops the text delta that arrives when a call finishes
  (only the Final chunk has it). Ollama sends no Final chunk, only one of several tool
  calls, empty text chunks, and no call at all when the reason is `length`. Anthropic
  refuses the role `tool`, which the router counts as a failure of the provider, and
  loses a tool call without any `input_json_delta`. A connection that is closed early
  without an error looks to Anthropic's and Ollama's callers like the end of the reply. `streamProtoToProviderRequest`
  ignores the conversion's error and sends a request without messages.
  `providerResponseToProto` always names `openai`.
* Read, not modelled: an attachment's storage key is never written to its row
  (`attachments.go:69` "will be set after upload"), so downloads ask for the empty key; a
  memory without an embedding is inserted with an empty vector literal, which the column
  refuses (`memory.go:58` "Non-fatal"); two overlapping stores of near-duplicates both
  insert; every gateway replica records every usage event (`tracker.go:40` subscribes
  without a queue group); nothing calls the quota enforcer.

**Fairness.** `ConvDispatch`: weak fairness for each goroutine's steps (the Go scheduler
runs them, `time.After` fires) and for agents (they finish; an agent that dies is the
failure `AgentCrash`). `ConvStream`: weak fairness for agents and for the event pump of
a connected client only; its one liveness property needs nothing of dispatch goroutines
and watchers. Users, failures, heartbeats and route expiry are not fair. `ConnPool`: strong fairness
for acquiring, because pgxpool serves waiters in order; statements end. `LLMRouter`:
the clock and started requests go on; requests for every provider keep arriving, which
is an assumption about traffic: nobody probes a provider nobody asks for. The runs of
`Accounts`, `Skills`, `Connections` and `LLMService` check safety only: their requests
end by themselves after a fixed number of statements.

**Mutants.** Every property of every passing run has a mutant, an operator defined in
front of the definition it replaces: a dropped guard, reset or state, a wrong order.
TLC finds the property violated with it.

## Theorems

Proved for all constants that meet the named assumptions (`NoneAssumption`,
`DispatchAssumption`, `BreakerAssumption`, `RouterAssumption`, `ChainAssumption`,
`PoolAssumption`, `StreamAssumption`, `ManifestsAssumption`, `ResponsesAssumption`,
`LumpAssumption`, `MaxDownloadsAssumption`,
`KeysAssumption`, `LowerAssumption`, `SlugAssumption`, `BoundsAssumption` and the
`NoneAssumption` of each module). Where a theorem has a hypothesis of its own, it is a
regime the code needs, and a run or a case below shows why.

* `ConvDispatchProofs`: `TypeCorrect`, `ActiveUntilReleased`, `LeaksAreForever`. Types
  are inductive only with two facts about control: a watcher exists only after its
  message was dispatched and has a conversation (`Posted`), and a pod beyond `idle` has
  a job (`AtWork`). The action properties follow from who writes `inst`
  (`InstWriters`), and for leaks from the fact that no step creates a route, a holder
  or an `agent_start` for a leaked pod (`StepLeak`), whatever fails or overlaps, unless
  the pool hands it a task.
* `ConvDispatchProofs`, the task rows, in every regime: `CompletedHasAnswer` and
  `CompletedIsFinal`. For the first, a task on NATS or with a pod belongs to a message
  that was dispatched (`Booked`), so that an `agent_end` in a channel comes from an agent of
  the channel's conversation, and what was answered stays answered (`Heard`). For the
  second, the watcher of a completed row has left its loop (`PastLoop`), so no
  `SetRunning`, `Fail` or `Complete` can follow; a cancellation that was checked before
  still can (`tasks.go:62`).
* `ConvDispatchProofs`, the claims: `ClaimsAreExclusive` and `HeldStaysActive`, for users
  who wait (`Serial`), a Redis that works (`~RedisFaults`) and pool pods that send no
  heartbeats (`PoolSubscribers \cap Heartbeating = {}`). Neither property is
  inductive, since a watcher releases what the route names and not what it claimed.
  `SerialInv` says who works for whom: a job, a task on NATS and a claim agree
  (`Booked`), a conversation has one message in work (`OneAtATime`), so a watcher sees
  the events of its own agent only (`OwnEvents`). `HoldInv` adds that a routed pod is
  active, routed once and held by its own conversation (`Routed`) and that a watcher
  between `Get` and `ReleaseInstance` is the only one to care about its pod
  (`Releasing`). Timeouts, crashes, expiry, lost events and failures of the database and
  of NATS are all allowed. The hypotheses are needed, and the last one is not what the
  code describes: the run `pool_release` breaks the claim without it, overlapping
  messages break it without `Serial` (above), and a failed Redis `Delete` leaves a route
  to a pod that was released.
* `ConvDispatchProofs`, in the regime of `HoldInv`: `LeasesKept`. The refinement has few
  kinds of steps, because few write the instance table (`RowChanges`): a claim is
  `Lease` or `LeaseLost`, a first heartbeat `Join`, a `ReleaseInstance` `GiveBack`, for
  which `Releasing` shows that nobody else holds the pod; every other step takes holders
  away or changes nothing (`LetsGo`).
* `LLMRouterProofs`: `Invariance`, `TypeCorrect`, `BreakersStayInOrder`,
  `CountStaysHonest`, `PromiseKept`. The key is that an open breaker has no successes
  on its books (`CountersInOrder`), so that `State` and `Allow` may both enter
  half-open. The refinement maps every step of the router to a step of one breaker or
  to a stutter.
* `ConnPoolProofs`: `ConnsStayAccounted` (holders and idle connections always add up to
  the pool's size) and, from it by counting, `RoomyPoolNeverStuck`.
* `ConvStreamProofs`: `TypeCorrect` (channels stay within their capacity, whoever reads
  how slowly), `AnswersAreSaved`, `QuestionsAreSent` and `TranscriptKept`, for any overlap
  of messages. The deltas of an answer are, for each watcher, in three places: the rows it
  has saved, its text and its channel. Whichever agents talk at the same time, their
  numbers ascend in this order (`InOrder`), so a watcher can repeat nothing, and of a
  message's own watcher that missed nothing the three together are the answer (`Whole`).
  `Framed` ties this to the control: nothing is left outside the watcher's loop, and an
  agent's `agent_end` is behind its deltas. The table has the questions of the posted
  messages and text of no others (`PostedSaved`, `SavedPosted`). These are `SavingInv`.
  Only posting a question and the watcher's insert write rows (`RowWriters`); the first is
  an `Ask`, the second a `Tell`. A history below the limit is the whole table at some time
  after the question was stored.
* `AccountsProofs`: `TypeCorrect`, `SessionsBelong`, `RotatedStaysRetired`,
  `AcceptedHasMember`. Types need what a request at each statement has already found
  (`RequestOK`). The properties are about rows; the invariants add the requests that are
  about to write them. `SessionInv`: a pair, revoked ones included because `RefreshToken`
  reads them before it issues, and a request about to issue one, name a member, or a
  tenant that is gone for good (`Settled`). `RetireInv`: a request about to issue a pair
  for another has ended that one. `JoinInv`: who is about to mark an invite has joined.
* `LLMServiceProofs`: `CallsReachWhole`, `StreamsInOrder`, for replies of any length that
  end or break anywhere. `ChatInv` ties decoder, reply and chunks together: the decoder has
  put together what was generated (`Decoded`), only complete calls are sent, so that no
  fragment can follow (`Whole`), each once (`Once`), and OpenAI and Anthropic have sent all
  complete calls with input (`AllSent`) in ascending order (`Ascending`), Ollama none
  before the finish reason.
  `ToolTurnsAreKept`, for requests of any length: the conversions are flattenings of
  sequences, so their results need an induction over data. The provers cannot apply the
  library's induction rules, whose parameter is an operator; instead a claim about
  sequences is a set of sequences that has no shortest counterexample (`LeastNat`,
  `SequencesAll`). From the recursive definition of `FlattenSeq` come the laws of
  collecting what a function makes of a sequence's elements (`GatherConcat`,
  `GatherTwice`: collecting from what was collected is collecting once); the rest is one
  case per provider and role (`MessageGot`).
* `SkillsProofs`: `TypeCorrect` (with `Addressed`: a request past its lookup names a
  skill, and a tenant and user where it needs them), `ActiveAsked` and
  `DownloadsStayCounted`. What is active is what is both installed and enabled, which is
  not inductive: a later install may revive any enablement. `AskedInv` therefore covers
  every enabled row, installed or not, and every enable that is past its check and has
  yet to insert (`EnablingAsked`). The counters need that a row never created has none.
* `ConnectionsProofs`: `TypeCorrect`, `IssuedRight`, `SpentStatesGone`. `AskInv` follows
  the scopes on their way: a pending state is what its flow asked for (`FlowsKept`), so
  is the copy a callback took of it, and a token between exchange and table carries the
  scopes its code's answer and its flow give it (`CarriedAsked`), as does every stored row
  that was not pasted (`RowsAsked`); flows and answers are never rewritten (`Grows`). For
  states, a callback past `Pop` has deleted its state (`PoppedGone`), and a state that is gone stays gone
  (`GoneStays`), crashes included.

`ChainAssumption` (a chain holds registered providers only) follows from `SelectSeq`,
of which the provers have no theory; TLC evaluates it.

Only model-checked: liveness (`MessageDrains`, `WatchedPodReturns`, `ClientCloses`,
`AddMessageReturns`, `BreakerRecloses`, `RequestEnds`), since fairness
and `ENABLED` are out of the provers' reach. Every invariant, action property and
refinement that a passing run checks is also a theorem, for the regime the theorem names. The
type invariants of `ConvDispatch`, `Accounts` and `Connections` are theorems only.

## Not modelled

Usage tracking (one insert per event) and quotas (nothing calls the enforcer); agent
profiles, memories and attachments (single rows without a protocol); Respond streams,
embeddings, model lists, tool schemas and token counts of the providers; middleware and
JWT checks (stateless); start-up, configuration, telemetry, migrations, service stubs.
Abstracted in what is modelled: profiles of pods (one), the reconnect loop of the Redis
client (a command succeeds or fails), contents of messages, password hashing, token
signing and encryption (opaque values), the audit log.

## Plan

Done, in this order: dispatch and claims; LLM router; connection pool; transcript;
accounts and invites; skills; connections; LLM providers and service; abstract
specifications of claiming and of the transcript; a theorem for every safety property.
Next:

1. `Steer` and the deletion of conversations, composed with `ConvDispatch`.
2. Quotas, once something calls the enforcer.
