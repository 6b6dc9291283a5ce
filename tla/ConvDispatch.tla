---------------------------- MODULE ConvDispatch ----------------------------
(***************************************************************************)
(* From a posted user message to the release of the agent pod that answered *)
(* it.  Every message has a dispatchToAgent goroutine, a row of the tasks   *)
(* table and, once its task is published, a watchConvStream goroutine.      *)
(* They share the agent_instances table and the routing table, and each     *)
(* statement on one of them is a step of its own, so goroutines interleave  *)
(* wherever the code lets them.                                             *)
(*                                                                          *)
(* Agent pods and NATS are external: a pod receives what is published on    *)
(* volund.agent.{pod name}.task and, if it is a pool subscriber, on the     *)
(* pool subject, and publishes agent_start, error and agent_end on the      *)
(* conversation's stream.                                                   *)
(***************************************************************************)
EXTENDS AgentInstances, RoutingTable, Naturals, FiniteSets

CONSTANTS
    Msgs,             \* user messages that are posted
    Heartbeating,     \* pods whose heartbeats reach the gateway
    PoolSubscribers,  \* pods in the queue group of the pool subject
    Serial,           \* users wait for the conversation to be quiet
    Prompt,           \* agents finish before the watcher's and the route's timeouts
    RedisFaults,      \* routing-table commands may fail
    Crashes,          \* the gateway process may crash
    FaultBudget,      \* bound: failures injected in one behaviour
    Cancellable       \* messages whose task a user tries to cancel (once)

ASSUME DispatchAssumption ==
    /\ None \notin Msgs
    /\ Heartbeating \subseteq Pods
    /\ PoolSubscribers \subseteq Pods
    /\ Cancellable \subseteq Msgs
    /\ FaultBudget \in Nat
    /\ {Serial, Prompt, RedisFaults, Crashes} \subseteq BOOLEAN

VARIABLES
    \* the dispatchToAgent goroutine of each message
    dpc,        \* where it is
    conv,       \* the message's conversation, None before it is posted
    claim,      \* what EnsureInstance returned
    cpod,       \* the pod it returned
    \* the watchConvStream goroutine of each message
    wpc,        \* where it is
    wpod,       \* the pod Release read from the routing table
    buf,        \* stream events in its channel
    \* tables and messages
    task,       \* status column of the message's row, "none" when it has none
    cancel,     \* handleCancelTask request for the message
    bus,        \* NATS task messages not yet received
    \* agent pods (external)
    job,        \* the message the pod works on
    phase,      \* how far it got
    ended,      \* messages whose agent published agent_end (history)
    budget      \* failures left to inject

dispVars == <<dpc, conv, claim, cpod>>
watchVars == <<wpc, wpod, buf>>
agentVars == <<job, phase, ended>>
vars == <<inst, route, dispVars, watchVars, task, cancel, bus, agentVars, budget>>

-----------------------------------------------------------------------------
(* State *)

DispPcs == {"idle", "create", "lookup", "claim", "set", "publish", "done"}
WatchPcs == {"off", "spawned", "loop", "running", "relget", "reldel", "reldb",
             "clear", "done"}
TaskStates == {"none", "pending", "running", "completed", "failed", "cancelled"}
ClaimResults == {"skipped", "hit", "claimed", "nil", "err"}
Events == [type : {"start", "error", "end"}, pod : Pods]

\* Task messages on the bus: sent to a pod's name, to an instance's UUID (which no
\* pod listens to), or to the pool.
TaskMsgs == [kind : {"pod", "uuid", "pool"}, pod : Pods \cup {None}, msg : Msgs]

TypeOK ==
    /\ inst \in [Pods -> InstStates]
    /\ route \in [Convs -> Pods \cup {None}]
    /\ dpc \in [Msgs -> DispPcs]
    /\ conv \in [Msgs -> Convs \cup {None}]
    /\ claim \in [Msgs -> ClaimResults]
    /\ cpod \in [Msgs -> Pods \cup {None}]
    /\ wpc \in [Msgs -> WatchPcs]
    /\ wpod \in [Msgs -> Pods \cup {None}]
    /\ buf \in [Msgs -> Seq(Events)]
    /\ task \in [Msgs -> TaskStates]
    /\ cancel \in [Msgs -> {"idle", "checked", "done"}]
    /\ bus \subseteq TaskMsgs
    /\ job \in [Pods -> Msgs \cup {None}]
    /\ phase \in [Pods -> {"idle", "got", "started", "failed"}]
    /\ ended \subseteq Msgs
    /\ budget \in 0..FaultBudget

Init ==
    /\ InstInit
    /\ RouteInit
    /\ dpc = [m \in Msgs |-> "idle"]
    /\ conv = [m \in Msgs |-> None]
    /\ claim = [m \in Msgs |-> "skipped"]
    /\ cpod = [m \in Msgs |-> None]
    /\ wpc = [m \in Msgs |-> "off"]
    /\ wpod = [m \in Msgs |-> None]
    /\ buf = [m \in Msgs |-> << >>]
    /\ task = [m \in Msgs |-> "none"]
    /\ cancel = [m \in Msgs |-> "idle"]
    /\ bus = {}
    /\ job = [p \in Pods |-> None]
    /\ phase = [p \in Pods |-> "idle"]
    /\ ended = {}
    /\ budget = FaultBudget

\* Both goroutines of m have returned.
Finished(m) == dpc[m] = "done" /\ wpc[m] \in {"off", "done"}

\* Pod p can receive the task message t.  A pod of the queue group may also be one that
\* heartbeats and is claimed (dispatcher.go:48: "exactly one warm pod receives it"):
\* the two sets may overlap.
CanReceive(p, t) ==
    \/ t.kind = "pod" /\ t.pod = p
    \/ t.kind = "pool" /\ p \in PoolSubscribers

\* No agent works, or will work, on conversation c.
Quiet(c) ==
    /\ \A p \in Pods : job[p] # None => conv[job[p]] # c
    /\ \A t \in bus, p \in Pods : conv[t.msg] = c => ~CanReceive(p, t)

\* One injected failure of the database, NATS or an agent.
Fault == budget > 0 /\ budget' = budget - 1

\* One injected failure of a routing-table command.
RedisFault == RedisFaults /\ Fault

-----------------------------------------------------------------------------
(* handlePostMessage and dispatchToAgent *)

\* handlePostMessage: persist the message, then start the dispatch goroutine.
PostMessage(m, c) ==
    /\ dpc[m] = "idle"
    /\ Serial => (\A n \in Msgs : conv[n] = c => Finished(n)) /\ Quiet(c)
    /\ dpc' = [dpc EXCEPT ![m] = "create"]
    /\ conv' = [conv EXCEPT ![m] = c]
    /\ UNCHANGED <<inst, route, claim, cpod, watchVars, task, cancel, bus, agentVars, budget>>

\* ListMessages fails: dispatchToAgent returns, nothing was dispatched.
LoadFails(m) ==
    /\ dpc[m] = "create"
    /\ Fault
    /\ dpc' = [dpc EXCEPT ![m] = "done"]
    /\ UNCHANGED <<inst, route, conv, claim, cpod, watchVars, task, cancel, bus, agentVars>>

\* Tasks.Create: a pending row, or a failure that leaves DBTaskID empty.
CreateTask(m) ==
    /\ dpc[m] = "create"
    /\ dpc' = [dpc EXCEPT ![m] = "lookup"]
    /\ \/ task' = [task EXCEPT ![m] = "pending"] /\ UNCHANGED budget
       \/ Fault /\ UNCHANGED task
    /\ UNCHANGED <<inst, route, conv, claim, cpod, watchVars, cancel, bus, agentVars>>

\* GetProfileByName fails: the claim is skipped, the pool will be used.
ProfileLookupFails(m) ==
    /\ dpc[m] = "lookup"
    /\ Fault
    /\ dpc' = [dpc EXCEPT ![m] = "publish"]
    /\ UNCHANGED <<inst, route, conv, claim, cpod, watchVars, task, cancel, bus, agentVars>>

\* EnsureInstance, fast path: the cached instance, without its pod name.
EnsureHit(m) ==
    /\ dpc[m] = "lookup"
    /\ RouteGet(conv[m]) # None
    /\ dpc' = [dpc EXCEPT ![m] = "publish"]
    /\ claim' = [claim EXCEPT ![m] = "hit"]
    /\ cpod' = [cpod EXCEPT ![m] = RouteGet(conv[m])]
    /\ UNCHANGED <<inst, route, conv, watchVars, task, cancel, bus, agentVars, budget>>

EnsureMiss(m) ==
    /\ dpc[m] = "lookup"
    /\ \/ RouteGet(conv[m]) = None /\ UNCHANGED budget
       \/ RedisFault
    /\ dpc' = [dpc EXCEPT ![m] = "claim"]
    /\ UNCHANGED <<inst, route, conv, claim, cpod, watchVars, task, cancel, bus, agentVars>>

\* EnsureInstance, slow path: ClaimInstance returns a row that was warm.
Claim(m, p) ==
    /\ dpc[m] = "claim"
    /\ ClaimRow(p)
    /\ dpc' = [dpc EXCEPT ![m] = "set"]
    /\ claim' = [claim EXCEPT ![m] = "claimed"]
    /\ cpod' = [cpod EXCEPT ![m] = p]
    /\ UNCHANGED <<route, conv, watchVars, task, cancel, bus, agentVars, budget>>

ClaimMiss(m) ==
    /\ dpc[m] = "claim"
    /\ NoWarmRow
    /\ dpc' = [dpc EXCEPT ![m] = "publish"]
    /\ claim' = [claim EXCEPT ![m] = ClaimMissResult]
    /\ UNCHANGED <<inst, route, conv, cpod, watchVars, task, cancel, bus, agentVars, budget>>

\* ClaimInstance returns an error; the statement may have committed before it.
ClaimFails(m) ==
    /\ dpc[m] = "claim"
    /\ Fault
    /\ \/ UNCHANGED inst
       \/ \E p \in Pods : ClaimRow(p)
    /\ dpc' = [dpc EXCEPT ![m] = "publish"]
    /\ claim' = [claim EXCEPT ![m] = "err"]
    /\ UNCHANGED <<route, conv, cpod, watchVars, task, cancel, bus, agentVars>>

\* EnsureInstance records the claimed instance in the routing table.
EnsureSet(m) ==
    /\ dpc[m] = "set"
    /\ \/ RouteSet(conv[m], cpod[m]) /\ UNCHANGED budget
       \/ RedisFault /\ UNCHANGED route
    /\ dpc' = [dpc EXCEPT ![m] = "publish"]
    /\ UNCHANGED <<inst, conv, claim, cpod, watchVars, task, cancel, bus, agentVars>>

\* The task message dispatchTask publishes: to the pod name of a fresh claim, to the
\* instance UUID of a cached one, else to the pool.
TaskMsg(m) ==
    CASE claim[m] = "claimed" -> [kind |-> "pod", pod |-> cpod[m], msg |-> m]
      [] claim[m] = "hit"     -> [kind |-> "uuid", pod |-> cpod[m], msg |-> m]
      [] OTHER                -> [kind |-> "pool", pod |-> None, msg |-> m]

\* dispatchTask: publish, then start the watcher goroutine.
DispatchTask(m) ==
    /\ dpc[m] = "publish"
    /\ bus' = bus \cup {TaskMsg(m)}
    /\ dpc' = [dpc EXCEPT ![m] = "done"]
    /\ wpc' = [wpc EXCEPT ![m] = "spawned"]
    /\ UNCHANGED <<inst, route, conv, claim, cpod, wpod, buf, task, cancel, agentVars, budget>>

\* Publishing fails: the error is logged and no watcher is started.
DispatchFails(m) ==
    /\ dpc[m] = "publish"
    /\ Fault
    /\ dpc' = [dpc EXCEPT ![m] = "done"]
    /\ UNCHANGED <<inst, route, conv, claim, cpod, watchVars, task, cancel, bus, agentVars>>

-----------------------------------------------------------------------------
(* watchConvStream *)

\* Subscribe: only events published from now on reach the watcher.
WatchSubscribe(m) ==
    /\ wpc[m] = "spawned"
    /\ \/ wpc' = [wpc EXCEPT ![m] = "loop"] /\ UNCHANGED budget
       \/ Fault /\ wpc' = [wpc EXCEPT ![m] = "done"]
    /\ UNCHANGED <<inst, route, dispVars, wpod, buf, task, cancel, bus, agentVars>>

\* The select loop of m takes an event of this type from its channel.
Receives(m, type) ==
    /\ wpc[m] = "loop"
    /\ buf[m] # << >>
    /\ Head(buf[m]).type = type
    /\ buf' = [buf EXCEPT ![m] = Tail(@)]

HasTask(m) == task[m] # "none"

\* agent_start: resolve the pod's row and, if there is one, route the conversation
\* to it; SetRunning follows if the message has a task row.
WatchAgentStart(m) ==
    /\ Receives(m, "start")
    /\ HasRow(Head(buf[m]).pod)
    /\ \/ RouteSet(conv[m], Head(buf[m]).pod) /\ UNCHANGED budget
       \/ RedisFault /\ UNCHANGED route
    /\ wpc' = [wpc EXCEPT ![m] = IF HasTask(m) THEN "running" ELSE "loop"]
    /\ UNCHANGED <<inst, dispVars, wpod, task, cancel, bus, agentVars>>

\* agent_start, but GetInstanceByPodName finds no row or fails: nothing is done.
WatchUnknownPod(m) ==
    /\ Receives(m, "start")
    /\ \/ ~HasRow(Head(buf[m]).pod) /\ UNCHANGED budget
       \/ Fault
    /\ UNCHANGED <<inst, route, dispVars, wpc, wpod, task, cancel, bus, agentVars>>

WatchSetRunning(m) ==
    /\ wpc[m] = "running"
    /\ wpc' = [wpc EXCEPT ![m] = "loop"]
    /\ \/ task' = [task EXCEPT ![m] = "running"] /\ UNCHANGED budget
       \/ Fault /\ UNCHANGED task
    /\ UNCHANGED <<inst, route, dispVars, wpod, buf, cancel, bus, agentVars>>

\* A fatal error event fails the task; the watcher keeps watching.
WatchError(m) ==
    /\ Receives(m, "error")
    /\ \/ HasTask(m) /\ task' = [task EXCEPT ![m] = "failed"] /\ UNCHANGED budget
       \/ ~HasTask(m) /\ UNCHANGED <<task, budget>>
       \/ Fault /\ UNCHANGED task
    /\ UNCHANGED <<inst, route, dispVars, wpc, wpod, cancel, bus, agentVars>>

\* Mutant of WatchAgentEnd: the active instance is cleared before Release looks it up.
EndClearsFirst(m) ==
    /\ Receives(m, "end")
    /\ wpc' = [wpc EXCEPT ![m] = "relget"]
    /\ RouteDelete(conv[m])
    /\ task' = [task EXCEPT ![m] = IF HasTask(m) THEN "completed" ELSE @]
    /\ UNCHANGED <<inst, dispVars, wpod, cancel, bus, agentVars, budget>>

\* Mutant of WatchAgentEnd: the case breaks out of the select and the watcher goes on.
EndLoopsOn(m) ==
    /\ Receives(m, "end")
    /\ task' = [task EXCEPT ![m] = IF HasTask(m) THEN "completed" ELSE @]
    /\ UNCHANGED <<inst, route, dispVars, wpc, wpod, cancel, bus, agentVars, budget>>

\* agent_end: Complete the task, then release and clear in four more steps.
WatchAgentEnd(m) ==
    /\ Receives(m, "end")
    /\ wpc' = [wpc EXCEPT ![m] = "relget"]
    /\ \/ HasTask(m) /\ task' = [task EXCEPT ![m] = "completed"] /\ UNCHANGED budget
       \/ ~HasTask(m) /\ UNCHANGED <<task, budget>>
       \/ Fault /\ UNCHANGED task
    /\ UNCHANGED <<inst, route, dispVars, wpod, cancel, bus, agentVars>>

\* ClaimManager.Release: route.Get finds the instance to release ...
ReleaseGet(m) ==
    /\ wpc[m] = "relget"
    /\ RouteGet(conv[m]) # None
    /\ wpc' = [wpc EXCEPT ![m] = "reldel"]
    /\ wpod' = [wpod EXCEPT ![m] = RouteGet(conv[m])]
    /\ UNCHANGED <<inst, route, dispVars, buf, task, cancel, bus, agentVars, budget>>

\* ... or none: Release returns nil.
ReleaseNothing(m) ==
    /\ wpc[m] = "relget"
    /\ \/ RouteGet(conv[m]) = None /\ UNCHANGED budget
       \/ RedisFault
    /\ wpc' = [wpc EXCEPT ![m] = "clear"]
    /\ UNCHANGED <<inst, route, dispVars, wpod, buf, task, cancel, bus, agentVars>>

\* Mutant of ReleaseDelete: the row is released while the route still leads to it.
ReleaseRowFirst(m) ==
    /\ wpc[m] = "reldel"
    /\ ReleaseInstance(wpod[m])
    /\ wpc' = [wpc EXCEPT ![m] = "reldb"]
    /\ UNCHANGED <<route, dispVars, wpod, buf, task, cancel, bus, agentVars, budget>>

\* ... route.Delete ...
ReleaseDelete(m) ==
    /\ wpc[m] = "reldel"
    /\ \/ RouteDelete(conv[m]) /\ UNCHANGED budget
       \/ RedisFault /\ UNCHANGED route
    /\ wpc' = [wpc EXCEPT ![m] = "reldb"]
    /\ UNCHANGED <<inst, dispVars, wpod, buf, task, cancel, bus, agentVars>>

\* ... ReleaseInstance, whose error is only logged.
ReleaseRow(m) ==
    /\ wpc[m] = "reldb"
    /\ \/ ReleaseInstance(wpod[m]) /\ UNCHANGED budget
       \/ Fault /\ UNCHANGED inst
    /\ wpc' = [wpc EXCEPT ![m] = "clear"]
    /\ UNCHANGED <<route, dispVars, wpod, buf, task, cancel, bus, agentVars>>

\* The watcher removes the route and returns; its bridge is closed.
ClearAndReturn(m) ==
    /\ \/ RouteDelete(conv[m]) /\ UNCHANGED budget
       \/ RedisFault /\ UNCHANGED route
    /\ wpc' = [wpc EXCEPT ![m] = "done"]
    /\ buf' = [buf EXCEPT ![m] = << >>]
    /\ UNCHANGED <<inst, dispVars, wpod, task, cancel, bus, agentVars>>

\* clearActiveInstance after the release.
WatchClear(m) ==
    /\ wpc[m] = "clear"
    /\ ClearAndReturn(m)

\* Mutant of WatchTimeout: the case breaks out of the select, not out of the loop.
TimeoutLoopsOn(m) ==
    /\ wpc[m] = "loop"
    /\ Prompt => buf[m] = << >> /\ Quiet(conv[m])
    /\ RouteDelete(conv[m])
    /\ UNCHANGED <<inst, dispVars, watchVars, task, cancel, bus, agentVars, budget>>

\* The 30 minute safety valve: clear the route, release nothing.
WatchTimeout(m) ==
    /\ wpc[m] = "loop"
    /\ Prompt => buf[m] = << >> /\ Quiet(conv[m])
    /\ ClearAndReturn(m)

\* An event finds the watcher's channel full (of deltas, which are not modelled)
\* and Subscribe's callback drops it.
BridgeDrop(m) ==
    /\ buf[m] # << >>
    /\ Fault
    /\ buf' = [buf EXCEPT ![m] = SubSeq(@, 1, Len(@) - 1)]
    /\ UNCHANGED <<inst, route, dispVars, wpc, wpod, task, cancel, bus, agentVars>>

-----------------------------------------------------------------------------
(* handleCancelTask: read the row, check its status, write "cancelled" *)

\* The row may be cancelled (with any other status the request ends in a conflict).
CancelCheck(m) ==
    /\ m \in Cancellable
    /\ cancel[m] = "idle"
    /\ task[m] \in {"pending", "running"}
    /\ cancel' = [cancel EXCEPT ![m] = "checked"]
    /\ UNCHANGED <<inst, route, dispVars, watchVars, task, bus, agentVars, budget>>

CancelWrite(m) ==
    /\ cancel[m] = "checked"
    /\ cancel' = [cancel EXCEPT ![m] = "done"]
    /\ task' = [task EXCEPT ![m] = "cancelled"]
    /\ UNCHANGED <<inst, route, dispVars, watchVars, bus, agentVars, budget>>

-----------------------------------------------------------------------------
(* Heartbeats, route expiry, crashes *)

\* handleHeartbeat.
Heartbeat(p) ==
    /\ p \in Heartbeating
    /\ UpsertInstanceByPodName(p)
    /\ UNCHANGED <<route, dispVars, watchVars, task, cancel, bus, agentVars, budget>>

\* The entry's TTL (35 minutes, longer than the watcher's 30) runs out.
RouteExpire(c) ==
    /\ route[c] # None
    /\ Prompt => Quiet(c) /\ \A m \in Msgs : conv[m] = c => Finished(m)
    /\ RouteDelete(c)
    /\ UNCHANGED <<inst, dispVars, watchVars, task, cancel, bus, agentVars, budget>>

\* The gateway process dies with all its goroutines; rows stay, and so does the
\* routing table unless it was the in-memory one.
GatewayCrash ==
    /\ Crashes /\ Fault
    /\ \E m \in Msgs : ~Finished(m) /\ dpc[m] # "idle"
    /\ dpc' = [m \in Msgs |-> IF dpc[m] = "idle" THEN "idle" ELSE "done"]
    /\ wpc' = [m \in Msgs |-> IF wpc[m] = "off" THEN "off" ELSE "done"]
    /\ buf' = [m \in Msgs |-> << >>]
    /\ route' \in {route, [c \in Convs |-> None]}
    /\ UNCHANGED <<inst, conv, claim, cpod, wpod, task, cancel, bus, agentVars>>

-----------------------------------------------------------------------------
(* Agent pods (external) *)

\* Mutant of Publish: one stream subject for all conversations.
PublishToAll(p, type) ==
    buf' = [m \in Msgs |->
        IF wpc[m] \notin {"off", "spawned", "done"}
        THEN Append(buf[m], [type |-> type, pod |-> p])
        ELSE buf[m]]

\* Pod p publishes an event on the stream of its job's conversation: it reaches the
\* watchers that are subscribed.
Publish(p, type) ==
    buf' = [m \in Msgs |->
        IF conv[m] = conv[job[p]] /\ wpc[m] \notin {"off", "spawned", "done"}
        THEN Append(buf[m], [type |-> type, pod |-> p])
        ELSE buf[m]]

AgentReceive(p) ==
    /\ phase[p] = "idle"
    /\ \E t \in bus :
        /\ CanReceive(p, t)
        /\ bus' = bus \ {t}
        /\ job' = [job EXCEPT ![p] = t.msg]
    /\ phase' = [phase EXCEPT ![p] = "got"]
    /\ UNCHANGED <<inst, route, dispVars, watchVars, task, cancel, ended, budget>>

AgentStart(p) ==
    /\ phase[p] = "got"
    /\ phase' = [phase EXCEPT ![p] = "started"]
    /\ Publish(p, "start")
    /\ UNCHANGED <<inst, route, dispVars, wpc, wpod, task, cancel, bus, job, ended, budget>>

AgentError(p) ==
    /\ phase[p] = "started"
    /\ phase' = [phase EXCEPT ![p] = "failed"]
    /\ Publish(p, "error")
    /\ UNCHANGED <<inst, route, dispVars, wpc, wpod, task, cancel, bus, job, ended, budget>>

AgentEnd(p) ==
    /\ phase[p] \in {"started", "failed"}
    /\ phase' = [phase EXCEPT ![p] = "idle"]
    /\ job' = [job EXCEPT ![p] = None]
    /\ ended' = ended \cup {job[p]}
    /\ Publish(p, "end")
    /\ UNCHANGED <<inst, route, dispVars, wpc, wpod, task, cancel, bus, budget>>

\* The pod drops its task without publishing agent_end.
AgentCrash(p) ==
    /\ phase[p] # "idle"
    /\ Fault
    /\ phase' = [phase EXCEPT ![p] = "idle"]
    /\ job' = [job EXCEPT ![p] = None]
    /\ UNCHANGED <<inst, route, dispVars, watchVars, task, cancel, bus, ended>>

-----------------------------------------------------------------------------
Dispatch(m) ==
    \/ LoadFails(m)
    \/ CreateTask(m)
    \/ ProfileLookupFails(m)
    \/ EnsureHit(m)
    \/ EnsureMiss(m)
    \/ \E p \in Pods : Claim(m, p)
    \/ ClaimMiss(m)
    \/ ClaimFails(m)
    \/ EnsureSet(m)
    \/ DispatchTask(m)
    \/ DispatchFails(m)

Watch(m) ==
    \/ WatchSubscribe(m)
    \/ WatchAgentStart(m)
    \/ WatchUnknownPod(m)
    \/ WatchSetRunning(m)
    \/ WatchError(m)
    \/ WatchAgentEnd(m)
    \/ ReleaseGet(m)
    \/ ReleaseNothing(m)
    \/ ReleaseDelete(m)
    \/ ReleaseRow(m)
    \/ WatchClear(m)
    \/ WatchTimeout(m)

Agent(p) ==
    \/ AgentReceive(p)
    \/ AgentStart(p)
    \/ AgentError(p)
    \/ AgentEnd(p)
    \/ AgentCrash(p)

Next ==
    \/ \E m \in Msgs, c \in Convs : PostMessage(m, c)
    \/ \E m \in Msgs : Dispatch(m)
    \/ \E m \in Msgs : Watch(m)
    \/ \E m \in Msgs : BridgeDrop(m)
    \/ \E m \in Msgs : CancelCheck(m)
    \/ \E m \in Msgs : CancelWrite(m)
    \/ \E p \in Pods : Heartbeat(p)
    \/ \E c \in Convs : RouteExpire(c)
    \/ GatewayCrash
    \/ \E p \in Pods : Agent(p)

Spec == Init /\ [][Next]_vars

-----------------------------------------------------------------------------
(* Fairness: the Go scheduler runs every runnable goroutine, timers fire, and  *)
(* an agent pod that has a task works on it until agent_end.  Users, faults,   *)
(* heartbeats and route expiry are not fair.                                   *)

Fairness ==
    /\ \A m \in Msgs : WF_vars(Dispatch(m)) /\ WF_vars(Watch(m))
    /\ \A p \in Pods : WF_vars(Agent(p))

FairSpec == Spec /\ Fairness

-----------------------------------------------------------------------------
(* Properties *)

\* Message m holds pod p: it claimed p and its goroutines have not given p up.
Holds(m, p) ==
    /\ claim[m] = "claimed" /\ cpod[m] = p
    /\ ~Finished(m) /\ wpc[m] # "clear"

\* A pod claimed through ClaimInstance (agent_repo.go) serves one message at a
\* time, across all conversations, from the claim to the release.
ClaimExclusive ==
    \A m, n \in Msgs, p \in Pods : Holds(m, p) /\ Holds(n, p) => m = n

\* Nobody releases a pod behind its holder's back: while a message holds a pod the
\* row stays 'active', so ClaimInstance cannot hand the pod to someone else.
HeldIsActive ==
    \A m \in Msgs, p \in Pods : Holds(m, p) => inst[p] = "active"

\* A task row says 'completed' only if an agent of the same conversation ran to its
\* agent_end.  Stream events carry no task id, so every watcher of a conversation
\* completes its own row on whichever agent_end it sees first; timeouts, fatal errors,
\* lost events and other conversations' agents never complete one.
CompletedAnswered ==
    \A m \in Msgs : task[m] = "completed" => \E n \in ended : conv[n] = conv[m]

\* SetRunning, Fail and Cancel are unconditional UPDATEs, and overlapping agents go on
\* publishing agent_start and errors on the conversation's stream; yet a 'completed' row
\* is taken back only by a cancellation that had read the row before it was completed.
CompletedUnlessCancelled ==
    [][\A m \in Msgs : task[m] = "completed" /\ task'[m] # "completed" =>
          cancel[m] = "checked" /\ task'[m] = "cancelled"]_vars

\* An active row goes back to 'warm' only through a watcher that saw an agent_end
\* and found the pod in its conversation's route: no heartbeat, timeout, expiry,
\* crash or second claim takes it out of the active state.
ActiveUntilRelease ==
    [][\A p \in Pods : inst[p] = "active" /\ inst'[p] # "active" =>
          \E m \in Msgs : wpc[m] = "reldb" /\ wpod[m] = p]_vars

\* The messages that hold each pod.
Holders == [p \in Pods |-> {m \in Msgs : Holds(m, p)}]

Leases == INSTANCE PodLease WITH row <- inst, users <- Holders

\* Claiming, heartbeats, releasing, timeouts and crashes together keep the promise of
\* PodLease: a pod leaves the warm pool for one message, comes back when nobody else
\* works with it, and in between no other step of any goroutine touches its row.
KeepsLeases == Leases!Spec

\* A pod whose row is active although no message holds it, no conversation routes
\* to it, no watcher is about to, and it has no task and no claim sends it one.
Leaked(p) ==
    /\ inst[p] = "active"
    /\ \A c \in Convs : route[c] # p
    /\ \A m \in Msgs :
          /\ ~Holds(m, p)
          /\ wpod[m] = p => wpc[m] \notin {"reldel", "reldb"}
          /\ \A i \in DOMAIN buf[m] : buf[m][i] # [type |-> "start", pod |-> p]
    /\ job[p] = None
    /\ \A t \in bus : t.kind = "pod" => t.pod # p

\* A leaked pod is lost for claims for good: only a route leads to ReleaseInstance,
\* heartbeats keep an active row active, and nothing else looks for such rows.  Its one
\* way back is by accident: the pool subject hands it a task it was never claimed for.
LeakIsForever ==
    [][\A p \in Pods : Leaked(p) =>
          Leaked(p)' \/ (p \in PoolSubscribers /\ job'[p] # None)]_vars

\* Every goroutine started for a message returns, even when the watcher missed
\* agent_end because it subscribed after the task was published.
MessageDrains == \A m \in Msgs : dpc[m] # "idle" ~> Finished(m)

\* The pod of a claimed message goes back to the warm pool, provided its watcher
\* subscribed before the agent published agent_start and nothing fails.
WatchedPodReturns ==
    \A m \in Msgs, p \in Pods :
        (wpc[m] = "loop" /\ job[p] = m /\ phase[p] = "got" /\ claim[m] = "claimed")
        ~> (inst[p] = "warm" \/ budget < FaultBudget)

=============================================================================
