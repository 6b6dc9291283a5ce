------------------------- MODULE ConvDispatchProofs -------------------------
(***************************************************************************)
(* Proofs about ConvDispatch for every set of pods, conversations and       *)
(* messages, with any mix of failures, crashes, timeouts and overlapping    *)
(* messages.                                                                *)
(***************************************************************************)
EXTENDS ConvDispatch, TLAPS

-----------------------------------------------------------------------------
(* The inductive invariant behind the types *)

\* A posted message has a conversation; its watcher starts when its dispatch is done;
\* EnsureInstance is about to record what it claimed.
Posted ==
    \A m \in Msgs : /\ dpc[m] # "idle" => conv[m] \in Convs
                    /\ wpc[m] # "off" => dpc[m] = "done"
                    /\ dpc[m] = "set" => claim[m] = "claimed"

\* A pod is at work exactly when it has a job.
AtWork == \A p \in Pods : phase[p] # "idle" => job[p] \in Msgs

TypeInv == TypeOK /\ Posted /\ AtWork

\* A failure uses up one unit of the budget.
LEMMA FaultType ==
  ASSUME budget \in 0..FaultBudget, Fault
  PROVE  budget' \in 0..FaultBudget
  BY DispatchAssumption DEF Fault

\* A routing-table command may use up a unit of the budget, too.
LEMMA RedisFaultType ==
  ASSUME budget \in 0..FaultBudget, RedisFault
  PROVE  budget' \in 0..FaultBudget
  BY FaultType DEF RedisFault

\* The message that dispatchTask publishes is a task message.
LEMMA TaskMsgType ==
  ASSUME TypeOK, NEW m \in Msgs
  PROVE  TaskMsg(m) \in TaskMsgs
  BY DEF TypeOK, TaskMsg, TaskMsgs

\* Taking an event off a channel leaves a channel.
LEMMA ReceiveType ==
  ASSUME TypeOK, NEW m \in Msgs, NEW type, Receives(m, type)
  PROVE  /\ buf' \in [Msgs -> Seq(Events)]
         /\ Head(buf[m]).pod \in Pods
<1>1. buf[m] \in Seq(Events) /\ buf[m] # << >>
  BY DEF TypeOK, Receives
<1>2. Head(buf[m]) \in Events /\ Tail(buf[m]) \in Seq(Events)
  BY <1>1
<1>3. QED
  BY <1>2 DEF TypeOK, Receives, Events

\* Publishing an event leaves channels.
LEMMA PublishType ==
  ASSUME TypeOK, NEW p \in Pods, NEW type \in {"start", "error", "end"}, Publish(p, type)
  PROVE  buf' \in [Msgs -> Seq(Events)]
<1>1. [type |-> type, pod |-> p] \in Events
  BY DEF Events
<1>2. \A m \in Msgs : Append(buf[m], [type |-> type, pod |-> p]) \in Seq(Events)
  BY <1>1 DEF TypeOK
<1>3. QED
  BY <1>2 DEF TypeOK, Publish

\* A watcher that clears its route and returns keeps the invariant.
LEMMA ClearType ==
  ASSUME TypeInv, NEW m \in Msgs, wpc[m] \in {"loop", "clear"}, ClearAndReturn(m)
  PROVE  TypeInv'
<1>1. << >> \in Seq(Events)
  OBVIOUS
<1>2. buf' \in [Msgs -> Seq(Events)]
  BY <1>1 DEF TypeInv, TypeOK, ClearAndReturn
<1>3. budget' \in 0..FaultBudget
  BY RedisFaultType DEF TypeInv, TypeOK, ClearAndReturn
<1>4. route' \in [Convs -> Pods \cup {None}]
  BY DEF TypeInv, TypeOK, ClearAndReturn, RouteDelete
<1>5. wpc' \in [Msgs -> WatchPcs] /\ \A n \in Msgs : wpc'[n] # "off" => wpc[n] # "off"
  BY DEF TypeInv, TypeOK, ClearAndReturn, WatchPcs
<1>6. QED
  BY <1>2, <1>3, <1>4, <1>5
  DEF TypeInv, TypeOK, Posted, AtWork, ClearAndReturn, dispVars, agentVars

\* The invariant holds initially.
LEMMA InitTypeInv == Init => TypeInv
  BY DispatchAssumption
  DEF Init, TypeInv, Posted, AtWork, TypeOK, InstInit, RouteInit, InstStates, DispPcs,
      WatchPcs, TaskStates, ClaimResults, Events

\* Every step keeps it: one case per action.
LEMMA StepTypeInv == TypeInv /\ [Next]_vars => TypeInv'
<1> SUFFICES ASSUME TypeInv, [Next]_vars PROVE TypeInv'
  OBVIOUS
<1> USE DEF TypeInv
<1>1. TypeOK /\ Posted /\ AtWork
  OBVIOUS
<1>2. ASSUME NEW m \in Msgs, NEW c \in Convs, PostMessage(m, c) PROVE TypeInv'
  BY <1>1, <1>2
  DEF TypeOK, Posted, AtWork, PostMessage, DispPcs, watchVars, agentVars
<1>3. ASSUME NEW m \in Msgs, LoadFails(m) PROVE TypeInv'
  BY <1>1, <1>3, FaultType
  DEF TypeOK, Posted, AtWork, LoadFails, DispPcs, watchVars, agentVars
<1>4. ASSUME NEW m \in Msgs, CreateTask(m) PROVE TypeInv'
  BY <1>1, <1>4, FaultType
  DEF TypeOK, Posted, AtWork, CreateTask, DispPcs, TaskStates, watchVars, agentVars
<1>5. ASSUME NEW m \in Msgs, ProfileLookupFails(m) PROVE TypeInv'
  BY <1>1, <1>5, FaultType
  DEF TypeOK, Posted, AtWork, ProfileLookupFails, DispPcs, watchVars, agentVars
<1>6. ASSUME NEW m \in Msgs, EnsureHit(m) PROVE TypeInv'
  BY <1>1, <1>6
  DEF TypeOK, Posted, AtWork, EnsureHit, DispPcs, ClaimResults, RouteGet, watchVars,
      agentVars
<1>7. ASSUME NEW m \in Msgs, EnsureMiss(m) PROVE TypeInv'
  BY <1>1, <1>7, RedisFaultType
  DEF TypeOK, Posted, AtWork, EnsureMiss, DispPcs, watchVars, agentVars
<1>8. ASSUME NEW m \in Msgs, ClaimMiss(m) PROVE TypeInv'
  BY <1>1, <1>8
  DEF TypeOK, Posted, AtWork, ClaimMiss, ClaimMissResult, DispPcs, ClaimResults,
      watchVars, agentVars
<1>9. ASSUME NEW m \in Msgs, ClaimFails(m) PROVE TypeInv'
  BY <1>1, <1>9, FaultType
  DEF TypeOK, Posted, AtWork, ClaimFails, ClaimRow, InstStates, DispPcs, ClaimResults,
      watchVars, agentVars
<1>10. ASSUME NEW m \in Msgs, EnsureSet(m) PROVE TypeInv'
  BY <1>1, <1>10, RedisFaultType
  DEF TypeOK, Posted, AtWork, EnsureSet, RouteSet, DispPcs, watchVars, agentVars
<1>11. ASSUME NEW m \in Msgs, DispatchTask(m) PROVE TypeInv'
  BY <1>1, <1>11, TaskMsgType
  DEF TypeOK, Posted, AtWork, DispatchTask, DispPcs, WatchPcs, agentVars
<1>12. ASSUME NEW m \in Msgs, DispatchFails(m) PROVE TypeInv'
  BY <1>1, <1>12, FaultType
  DEF TypeOK, Posted, AtWork, DispatchFails, DispPcs, watchVars, agentVars
<1>13. ASSUME NEW m \in Msgs, NEW p \in Pods, Claim(m, p) PROVE TypeInv'
  BY <1>1, <1>13
  DEF TypeOK, Posted, AtWork, Claim, ClaimRow, InstStates, DispPcs, ClaimResults,
      watchVars, agentVars
<1>14. ASSUME NEW m \in Msgs, WatchSubscribe(m) PROVE TypeInv'
  BY <1>1, <1>14, FaultType
  DEF TypeOK, Posted, AtWork, WatchSubscribe, WatchPcs, dispVars, agentVars
<1>15. ASSUME NEW m \in Msgs, WatchAgentStart(m) PROVE TypeInv'
  <2>1. buf' \in [Msgs -> Seq(Events)] /\ Head(buf[m]).pod \in Pods /\ wpc[m] = "loop"
    BY <1>1, <1>15, ReceiveType DEF WatchAgentStart, Receives
  <2>2. budget' \in 0..FaultBudget
    BY <1>1, <1>15, RedisFaultType DEF TypeOK, WatchAgentStart
  <2>3. route' \in [Convs -> Pods \cup {None}]
    BY <1>1, <1>15, <2>1 DEF TypeOK, WatchAgentStart, RouteSet
  <2>4. wpc' \in [Msgs -> WatchPcs] /\ \A n \in Msgs : wpc'[n] # "off" => wpc[n] # "off"
    BY <1>1, <1>15, <2>1 DEF TypeOK, WatchAgentStart, WatchPcs
  <2>5. QED
    BY <1>1, <1>15, <2>1, <2>2, <2>3, <2>4
    DEF TypeOK, Posted, AtWork, WatchAgentStart, dispVars, agentVars
<1>16. ASSUME NEW m \in Msgs, WatchUnknownPod(m) PROVE TypeInv'
  BY <1>1, <1>16, ReceiveType, FaultType
  DEF TypeOK, Posted, AtWork, WatchUnknownPod, dispVars, agentVars
<1>17. ASSUME NEW m \in Msgs, WatchSetRunning(m) PROVE TypeInv'
  BY <1>1, <1>17, FaultType
  DEF TypeOK, Posted, AtWork, WatchSetRunning, WatchPcs, TaskStates, dispVars, agentVars
<1>18. ASSUME NEW m \in Msgs, WatchError(m) PROVE TypeInv'
  BY <1>1, <1>18, ReceiveType, FaultType
  DEF TypeOK, Posted, AtWork, WatchError, TaskStates, dispVars, agentVars
<1>19. ASSUME NEW m \in Msgs, WatchAgentEnd(m) PROVE TypeInv'
  <2>1. buf' \in [Msgs -> Seq(Events)] /\ wpc[m] = "loop"
    BY <1>1, <1>19, ReceiveType DEF WatchAgentEnd, Receives
  <2>2. budget' \in 0..FaultBudget
    BY <1>1, <1>19, FaultType DEF TypeOK, WatchAgentEnd
  <2>3. task' \in [Msgs -> TaskStates]
    BY <1>1, <1>19 DEF TypeOK, WatchAgentEnd, TaskStates
  <2>4. wpc' \in [Msgs -> WatchPcs] /\ \A n \in Msgs : wpc'[n] # "off" => wpc[n] # "off"
    BY <1>1, <1>19, <2>1 DEF TypeOK, WatchAgentEnd, WatchPcs
  <2>5. QED
    BY <1>1, <1>19, <2>1, <2>2, <2>3, <2>4
    DEF TypeOK, Posted, AtWork, WatchAgentEnd, dispVars, agentVars
<1>20. ASSUME NEW m \in Msgs, ReleaseGet(m) PROVE TypeInv'
  BY <1>1, <1>20
  DEF TypeOK, Posted, AtWork, ReleaseGet, RouteGet, WatchPcs, dispVars, agentVars
<1>21. ASSUME NEW m \in Msgs, ReleaseNothing(m) PROVE TypeInv'
  BY <1>1, <1>21, RedisFaultType
  DEF TypeOK, Posted, AtWork, ReleaseNothing, WatchPcs, dispVars, agentVars
<1>22. ASSUME NEW m \in Msgs, ReleaseDelete(m) PROVE TypeInv'
  BY <1>1, <1>22, RedisFaultType
  DEF TypeOK, Posted, AtWork, ReleaseDelete, RouteDelete, WatchPcs, dispVars, agentVars
<1>23. ASSUME NEW m \in Msgs, ReleaseRow(m) PROVE TypeInv'
  BY <1>1, <1>23, FaultType
  DEF TypeOK, Posted, AtWork, ReleaseRow, ReleaseInstance, InstStates, WatchPcs,
      dispVars, agentVars
<1>24. ASSUME NEW m \in Msgs, WatchClear(m) PROVE TypeInv'
  BY <1>1, <1>24, ClearType DEF WatchClear
<1>25. ASSUME NEW m \in Msgs, WatchTimeout(m) PROVE TypeInv'
  BY <1>1, <1>25, ClearType DEF WatchTimeout
<1>26. ASSUME NEW m \in Msgs, BridgeDrop(m) PROVE TypeInv'
  BY <1>1, <1>26, FaultType
  DEF TypeOK, Posted, AtWork, BridgeDrop, dispVars, agentVars
<1>27. ASSUME NEW m \in Msgs, CancelCheck(m) PROVE TypeInv'
  BY <1>1, <1>27
  DEF TypeOK, Posted, AtWork, CancelCheck, dispVars, watchVars, agentVars
<1>28. ASSUME NEW m \in Msgs, CancelWrite(m) PROVE TypeInv'
  BY <1>1, <1>28
  DEF TypeOK, Posted, AtWork, CancelWrite, TaskStates, dispVars, watchVars, agentVars
<1>29. ASSUME NEW p \in Pods, Heartbeat(p) PROVE TypeInv'
  BY <1>1, <1>29
  DEF TypeOK, Posted, AtWork, Heartbeat, UpsertInstanceByPodName, InstStates,
      dispVars, watchVars, agentVars
<1>30. ASSUME NEW p \in Pods, AgentReceive(p) PROVE TypeInv'
  BY <1>1, <1>30
  DEF TypeOK, Posted, AtWork, AgentReceive, TaskMsgs, dispVars, watchVars
<1>31. ASSUME NEW p \in Pods, AgentStart(p) PROVE TypeInv'
  BY <1>1, <1>31, PublishType
  DEF TypeOK, Posted, AtWork, AgentStart, dispVars
<1>32. ASSUME NEW p \in Pods, AgentError(p) PROVE TypeInv'
  BY <1>1, <1>32, PublishType
  DEF TypeOK, Posted, AtWork, AgentError, dispVars
<1>33. ASSUME NEW p \in Pods, AgentEnd(p) PROVE TypeInv'
  BY <1>1, <1>33, PublishType
  DEF TypeOK, Posted, AtWork, AgentEnd, dispVars
<1>34. ASSUME NEW p \in Pods, AgentCrash(p) PROVE TypeInv'
  BY <1>1, <1>34, FaultType
  DEF TypeOK, Posted, AtWork, AgentCrash, dispVars, watchVars
<1>35. ASSUME NEW c \in Convs, RouteExpire(c) PROVE TypeInv'
  BY <1>1, <1>35
  DEF TypeOK, Posted, AtWork, RouteExpire, RouteDelete, dispVars, watchVars, agentVars
<1>36. ASSUME GatewayCrash PROVE TypeInv'
  BY <1>1, <1>36, FaultType
  DEF TypeOK, Posted, AtWork, GatewayCrash, DispPcs, WatchPcs, agentVars
<1>37. CASE UNCHANGED vars
  BY <1>1, <1>37 DEF TypeOK, Posted, AtWork, vars, dispVars, watchVars, agentVars
<1>38. QED
  BY <1>2, <1>3, <1>4, <1>5, <1>6, <1>7, <1>8, <1>9, <1>10, <1>11, <1>12, <1>13,
     <1>14, <1>15, <1>16, <1>17, <1>18, <1>19, <1>20, <1>21, <1>22, <1>23,
     <1>24, <1>25, <1>26, <1>27, <1>28, <1>29, <1>30, <1>31, <1>32, <1>33,
     <1>34, <1>35, <1>36, <1>37
  DEF Next, Dispatch, Watch, Agent

\* In every behaviour all variables keep their types.
THEOREM TypeCorrect == Spec => []TypeOK
<1>1. Spec => []TypeInv
  BY InitTypeInv, StepTypeInv, PTL DEF Spec
<1>2. QED
  BY <1>1, PTL DEF TypeInv

-----------------------------------------------------------------------------
(* Who takes a row out of the active state *)

\* Only ClaimInstance, ReleaseInstance and the heartbeat's upsert write a row's state.
LEMMA InstWriters ==
  ASSUME [Next]_vars
  PROVE  \/ UNCHANGED inst
         \/ \E p \in Pods : ClaimRow(p)
         \/ \E p \in Heartbeating : UpsertInstanceByPodName(p)
         \/ \E m \in Msgs : /\ wpc[m] = "reldb" /\ ReleaseInstance(wpod[m])
                            /\ wpc' = [wpc EXCEPT ![m] = "clear"]
  BY SMTT(60) DEF Next, Dispatch, Watch, Agent, vars, PostMessage, LoadFails, CreateTask,
      ProfileLookupFails, EnsureHit, EnsureMiss, ClaimMiss, ClaimFails, EnsureSet,
      DispatchTask, DispatchFails, Claim, WatchSubscribe, WatchAgentStart,
      WatchUnknownPod, WatchSetRunning, WatchError, WatchAgentEnd, ReleaseGet,
      ReleaseNothing, ReleaseDelete, ReleaseRow, WatchClear, WatchTimeout, BridgeDrop,
      CancelCheck, CancelWrite, Heartbeat, AgentReceive, AgentStart, AgentError,
      AgentEnd, AgentCrash, RouteExpire, GatewayCrash, ClearAndReturn

\* An active row leaves that state in a watcher's ReleaseInstance only.
LEMMA ReleaseOnly ==
  ASSUME TypeOK, [Next]_vars, NEW p \in Pods, inst[p] = "active", inst'[p] # "active"
  PROVE  \E m \in Msgs : wpc[m] = "reldb" /\ wpod[m] = p /\ wpc'[m] = "clear"
  BY InstWriters, DispatchAssumption
  DEF TypeOK, ClaimRow, UpsertInstanceByPodName, ReleaseInstance

\* A row leaves the active state only at the hands of a watcher that saw an agent_end
\* and found the pod in its conversation's route, whatever fails or overlaps.
THEOREM ActiveUntilReleased == Spec => ActiveUntilRelease
<1>1. ASSUME TypeOK, [Next]_vars, NEW p \in Pods, inst[p] = "active", inst'[p] # "active"
      PROVE  \E m \in Msgs : wpc[m] = "reldb" /\ wpod[m] = p
  BY <1>1, ReleaseOnly
<1>2. TypeOK /\ [Next]_vars =>
        [\A p \in Pods : inst[p] = "active" /\ inst'[p] # "active" =>
            \E m \in Msgs : wpc[m] = "reldb" /\ wpod[m] = p]_vars
  BY <1>1
<1>3. QED
  BY <1>2, TypeCorrect, PTL DEF Spec, ActiveUntilRelease

-----------------------------------------------------------------------------
(* Leaked pods *)

\* Channel s holds no agent_start of pod p.
NoStart(s, p) == \A i \in DOMAIN s : s[i] # [type |-> "start", pod |-> p]

\* Taking an event off such a channel leaves one, and the event is no agent_start of p.
LEMMA NoStartTail ==
  ASSUME NEW s \in Seq(Events), NEW p, s # << >>, NoStart(s, p)
  PROVE  NoStart(Tail(s), p) /\ Head(s) # [type |-> "start", pod |-> p]
  BY DEF NoStart

\* Adding another event to such a channel leaves one.
LEMMA NoStartAppend ==
  ASSUME NEW s \in Seq(Events), NEW p, NEW e \in Events, NoStart(s, p),
         e # [type |-> "start", pod |-> p]
  PROVE  NoStart(Append(s, e), p)
  BY DEF NoStart

\* Publishing anything but an agent_start of p keeps the channels free of it.
LEMMA NoStartPublish ==
  ASSUME TypeOK, NEW p \in Pods, \A m \in Msgs : NoStart(buf[m], p),
         NEW q \in Pods, NEW type \in {"start", "error", "end"}, Publish(q, type),
         q # p \/ type # "start"
  PROVE  \A m \in Msgs : NoStart(buf'[m], p)
<1>1. /\ [type |-> type, pod |-> q] \in Events
      /\ [type |-> type, pod |-> q] # [type |-> "start", pod |-> p]
  BY DEF Events
<1>2. SUFFICES ASSUME NEW m \in Msgs PROVE NoStart(buf'[m], p)
  OBVIOUS
<1>3. buf'[m] \in {buf[m], Append(buf[m], [type |-> type, pod |-> q])}
  BY DEF Publish
<1>4. buf[m] \in Seq(Events)
  BY DEF TypeOK
<1>5. NoStart(Append(buf[m], [type |-> type, pod |-> q]), p)
  BY <1>1, <1>4, NoStartAppend
<1>6. QED
  BY <1>3, <1>5

\* Nothing but a task of the pool brings a leaked pod back: one case per action.
LEMMA StepLeak ==
  ASSUME TypeInv, [Next]_vars, NEW p \in Pods, Leaked(p)
  PROVE  Leaked(p)' \/ (p \in PoolSubscribers /\ job'[p] # None)
<1> USE DEF Leaked, Holds, Finished
<1>1. TypeOK /\ Posted /\ AtWork
  BY DEF TypeInv
<1>2. ASSUME NEW m \in Msgs, NEW c \in Convs, PostMessage(m, c) PROVE Leaked(p)'
  BY <1>1, <1>2 DEF TypeOK, Posted, PostMessage, dispVars, watchVars, agentVars
<1>3. ASSUME NEW m \in Msgs, LoadFails(m) PROVE Leaked(p)'
  BY <1>1, <1>3 DEF TypeOK, Posted, LoadFails, dispVars, watchVars, agentVars
<1>4. ASSUME NEW m \in Msgs, CreateTask(m) PROVE Leaked(p)'
  BY <1>1, <1>4 DEF TypeOK, Posted, CreateTask, dispVars, watchVars, agentVars
<1>5. ASSUME NEW m \in Msgs, ProfileLookupFails(m) PROVE Leaked(p)'
  BY <1>1, <1>5 DEF TypeOK, Posted, ProfileLookupFails, dispVars, watchVars, agentVars
<1>6. ASSUME NEW m \in Msgs, EnsureHit(m) PROVE Leaked(p)'
  BY <1>1, <1>6 DEF TypeOK, Posted, EnsureHit, dispVars, watchVars, agentVars
<1>7. ASSUME NEW m \in Msgs, EnsureMiss(m) PROVE Leaked(p)'
  BY <1>1, <1>7 DEF TypeOK, Posted, EnsureMiss, dispVars, watchVars, agentVars
<1>8. ASSUME NEW m \in Msgs, ClaimMiss(m) PROVE Leaked(p)'
  BY <1>1, <1>8
  DEF TypeOK, Posted, ClaimMiss, ClaimMissResult, dispVars, watchVars, agentVars
<1>9. ASSUME NEW m \in Msgs, ClaimFails(m) PROVE Leaked(p)'
  BY <1>1, <1>9 DEF TypeOK, Posted, ClaimFails, ClaimRow, dispVars, watchVars, agentVars
<1>10. ASSUME NEW m \in Msgs, EnsureSet(m) PROVE Leaked(p)'
  BY <1>1, <1>10 DEF TypeOK, Posted, EnsureSet, RouteSet, dispVars, watchVars, agentVars
<1>11. ASSUME NEW m \in Msgs, DispatchTask(m) PROVE Leaked(p)'
  <2>1. ~(claim[m] = "claimed" /\ cpod[m] = p)
    BY <1>1, <1>11 DEF TypeOK, Posted, DispatchTask
  <2>2. TaskMsg(m).kind = "pod" => TaskMsg(m).pod # p
    BY <2>1 DEF TaskMsg
  <2>3. \A t \in bus' : t.kind = "pod" => t.pod # p
    BY <1>11, <2>2 DEF DispatchTask
  <2>4. \A n \in Msgs : ~Holds(n, p)'
    BY <1>1, <1>11, <2>1 DEF TypeOK, Posted, DispatchTask
  <2>5. QED
    BY <1>1, <1>11, <2>3, <2>4 DEF TypeOK, DispatchTask, agentVars
<1>12. ASSUME NEW m \in Msgs, DispatchFails(m) PROVE Leaked(p)'
  BY <1>1, <1>12 DEF TypeOK, Posted, DispatchFails, dispVars, watchVars, agentVars
<1>13. ASSUME NEW m \in Msgs, NEW q \in Pods, Claim(m, q) PROVE Leaked(p)'
  BY <1>1, <1>13 DEF TypeOK, Posted, Claim, ClaimRow, dispVars, watchVars, agentVars
<1>14. ASSUME NEW m \in Msgs, WatchSubscribe(m) PROVE Leaked(p)'
  BY <1>1, <1>14 DEF TypeOK, Posted, WatchSubscribe, dispVars, watchVars, agentVars
<1>15. ASSUME NEW m \in Msgs, WatchAgentStart(m) PROVE Leaked(p)'
  <2>1. /\ buf[m] \in Seq(Events) /\ buf[m] # << >> /\ NoStart(buf[m], p)
        /\ Head(buf[m]).type = "start" /\ wpc[m] = "loop"
    BY <1>1, <1>15 DEF TypeOK, WatchAgentStart, Receives, NoStart
  <2>2. NoStart(Tail(buf[m]), p) /\ Head(buf[m]) # [type |-> "start", pod |-> p]
    BY <2>1, NoStartTail
  <2>3. Head(buf[m]) \in Events
    BY <2>1
  <2>4. Head(buf[m]).pod # p
    BY <2>1, <2>2, <2>3 DEF Events
  <2>5. \A c \in Convs : route'[c] # p
    BY <1>1, <1>15, <2>4 DEF TypeOK, WatchAgentStart, RouteSet
  <2>6. \A n \in Msgs : NoStart(buf'[n], p)
    BY <1>1, <1>15, <2>2 DEF TypeOK, WatchAgentStart, Receives, NoStart
  <2>7. \A n \in Msgs : wpc'[n] = wpc[n] \/ (n = m /\ wpc'[n] \in {"loop", "running"})
    BY <1>1, <1>15 DEF TypeOK, WatchAgentStart, HasTask
  <2>8. \A n \in Msgs : ~Holds(n, p)'
    BY <1>1, <1>15, <2>1, <2>7 DEF Posted, WatchAgentStart, dispVars
  <2>9. \A n \in Msgs : wpod'[n] = p => wpc'[n] \notin {"reldel", "reldb"}
    BY <1>15, <2>7 DEF WatchAgentStart
  <2>10. inst' = inst /\ job' = job /\ bus' = bus
    BY <1>15 DEF WatchAgentStart, agentVars
  <2>11. QED
    BY <2>5, <2>6, <2>8, <2>9, <2>10 DEF NoStart
<1>16. ASSUME NEW m \in Msgs, WatchUnknownPod(m) PROVE Leaked(p)'
  BY <1>1, <1>16
  DEF TypeOK, Posted, WatchUnknownPod, Receives, dispVars, watchVars, agentVars
<1>17. ASSUME NEW m \in Msgs, WatchSetRunning(m) PROVE Leaked(p)'
  BY <1>1, <1>17 DEF TypeOK, Posted, WatchSetRunning, dispVars, watchVars, agentVars
<1>18. ASSUME NEW m \in Msgs, WatchError(m) PROVE Leaked(p)'
  BY <1>1, <1>18 DEF TypeOK, Posted, WatchError, Receives, dispVars, watchVars, agentVars
<1>19. ASSUME NEW m \in Msgs, WatchAgentEnd(m) PROVE Leaked(p)'
  BY <1>1, <1>19
  DEF TypeOK, Posted, WatchAgentEnd, Receives, dispVars, watchVars, agentVars
<1>20. ASSUME NEW m \in Msgs, ReleaseGet(m) PROVE Leaked(p)'
  BY <1>1, <1>20 DEF TypeOK, Posted, ReleaseGet, RouteGet, dispVars, watchVars, agentVars
<1>21. ASSUME NEW m \in Msgs, ReleaseNothing(m) PROVE Leaked(p)'
  BY <1>1, <1>21 DEF TypeOK, Posted, ReleaseNothing, dispVars, watchVars, agentVars
<1>22. ASSUME NEW m \in Msgs, ReleaseDelete(m) PROVE Leaked(p)'
  BY <1>1, <1>22, NoneAssumption
  DEF TypeOK, Posted, ReleaseDelete, RouteDelete, dispVars, watchVars, agentVars
<1>23. ASSUME NEW m \in Msgs, ReleaseRow(m) PROVE Leaked(p)'
  BY <1>1, <1>23
  DEF TypeOK, Posted, ReleaseRow, ReleaseInstance, dispVars, watchVars, agentVars
<1>24. ASSUME NEW m \in Msgs, WatchClear(m) PROVE Leaked(p)'
  BY <1>1, <1>24, NoneAssumption
  DEF TypeOK, Posted, WatchClear, ClearAndReturn, RouteDelete, dispVars, watchVars,
      agentVars
<1>25. ASSUME NEW m \in Msgs, WatchTimeout(m) PROVE Leaked(p)'
  BY <1>1, <1>25, NoneAssumption
  DEF TypeOK, Posted, WatchTimeout, ClearAndReturn, RouteDelete, dispVars, watchVars,
      agentVars
<1>26. ASSUME NEW m \in Msgs, BridgeDrop(m) PROVE Leaked(p)'
  BY <1>1, <1>26 DEF TypeOK, Posted, BridgeDrop, dispVars, watchVars, agentVars
<1>27. ASSUME NEW m \in Msgs, CancelCheck(m) PROVE Leaked(p)'
  BY <1>1, <1>27 DEF TypeOK, Posted, CancelCheck, dispVars, watchVars, agentVars
<1>28. ASSUME NEW m \in Msgs, CancelWrite(m) PROVE Leaked(p)'
  BY <1>1, <1>28 DEF TypeOK, Posted, CancelWrite, dispVars, watchVars, agentVars
<1>29. ASSUME NEW q \in Pods, Heartbeat(q) PROVE Leaked(p)'
  BY <1>1, <1>29
  DEF TypeOK, Posted, Heartbeat, UpsertInstanceByPodName, dispVars, watchVars, agentVars
<1>30. ASSUME NEW q \in Pods, AgentReceive(q)
       PROVE  Leaked(p)' \/ (p \in PoolSubscribers /\ job'[p] # None)
  <2>1. PICK t \in bus : /\ CanReceive(q, t) /\ bus' = bus \ {t}
                         /\ job' = [job EXCEPT ![q] = t.msg]
    BY <1>30 DEF AgentReceive
  <2>2. CASE q = p
    <3>1. t.msg \in Msgs /\ p \in PoolSubscribers
      BY <1>1, <2>1, <2>2 DEF TypeOK, TaskMsgs, CanReceive
    <3>2. QED
      BY <1>1, <2>1, <2>2, <3>1, DispatchAssumption DEF TypeOK
  <2>3. CASE q # p
    BY <1>1, <1>30, <2>1, <2>3
    DEF TypeOK, Posted, AgentReceive, dispVars, watchVars
  <2>4. QED
    BY <2>2, <2>3
<1>31. ASSUME NEW q \in Pods, AgentStart(q) PROVE Leaked(p)'
  <2>1. q # p
    BY <1>1, <1>31, DispatchAssumption DEF AtWork, AgentStart
  <2>2. \A m \in Msgs : NoStart(buf'[m], p)
    BY <1>1, <1>31, <2>1, NoStartPublish DEF AgentStart, NoStart
  <2>3. QED
    BY <1>1, <1>31, <2>2 DEF AgentStart, NoStart, dispVars
<1>32. ASSUME NEW q \in Pods, AgentError(q) PROVE Leaked(p)'
  <2>1. \A m \in Msgs : NoStart(buf'[m], p)
    BY <1>1, <1>32, NoStartPublish DEF AgentError, NoStart
  <2>2. QED
    BY <1>1, <1>32, <2>1 DEF AgentError, NoStart, dispVars
<1>33. ASSUME NEW q \in Pods, AgentEnd(q) PROVE Leaked(p)'
  BY <1>1, <1>33 DEF TypeOK, Posted, AgentEnd, Publish, dispVars, watchVars, agentVars
<1>34. ASSUME NEW q \in Pods, AgentCrash(q) PROVE Leaked(p)'
  BY <1>1, <1>34 DEF TypeOK, Posted, AgentCrash, dispVars, watchVars, agentVars
<1>35. ASSUME NEW c \in Convs, RouteExpire(c) PROVE Leaked(p)'
  BY <1>1, <1>35, NoneAssumption
  DEF TypeOK, Posted, RouteExpire, RouteDelete, dispVars, watchVars, agentVars
<1>36. ASSUME GatewayCrash PROVE Leaked(p)'
  BY <1>1, <1>36, NoneAssumption
  DEF TypeOK, Posted, GatewayCrash, dispVars, watchVars, agentVars
<1>37. CASE UNCHANGED vars
  BY <1>37 DEF vars, dispVars, watchVars, agentVars
<1>38. QED
  BY <1>2, <1>3, <1>4, <1>5, <1>6, <1>7, <1>8, <1>9, <1>10, <1>11, <1>12, <1>13,
     <1>14, <1>15, <1>16, <1>17, <1>18, <1>19, <1>20, <1>21, <1>22, <1>23, <1>24, <1>25,
     <1>26, <1>27, <1>28, <1>29, <1>30, <1>31, <1>32, <1>33, <1>34, <1>35, <1>36, <1>37
  DEF Next, Dispatch, Watch, Agent

\* A leaked pod is lost for claims for good, in every regime and for any number of pods;
\* only a task of the pool subject can reach it again.
THEOREM LeaksAreForever == Spec => LeakIsForever
<1>1. TypeInv /\ [Next]_vars =>
        [\A p \in Pods : Leaked(p) =>
            Leaked(p)' \/ (p \in PoolSubscribers /\ job'[p] # None)]_vars
  BY StepLeak
<1>2. Spec => []TypeInv
  BY InitTypeInv, StepTypeInv, PTL DEF Spec
<1>3. QED
  BY <1>1, <1>2, PTL DEF Spec, LeakIsForever

-----------------------------------------------------------------------------
(* What a step may do to each variable *)

\* m was posted and one of its goroutines has not returned.
Active(m) == dpc[m] # "idle" /\ ~Finished(m)

\* The goroutines of m read and write tables on behalf of one conversation; once its
\* dispatch is done, what it claimed is settled.
LEMMA DispatchSettles ==
  ASSUME TypeInv, [Next]_vars, NEW m \in Msgs
  PROVE  /\ dpc[m] = "done" => /\ dpc'[m] = "done"
                               /\ claim'[m] = claim[m] /\ cpod'[m] = cpod[m]
         /\ dpc[m] # "idle" => dpc'[m] # "idle" /\ conv'[m] = conv[m]
<1>1. TypeOK
  BY DEF TypeInv
<1>2. QED
  BY <1>1, SMTT(60)
  DEF TypeOK, Next, Dispatch, Watch, Agent, vars, dispVars, PostMessage, LoadFails,
      CreateTask, ProfileLookupFails, EnsureHit, EnsureMiss, ClaimMiss, ClaimFails,
      EnsureSet, DispatchTask, DispatchFails, Claim, WatchSubscribe, WatchAgentStart,
      WatchUnknownPod, WatchSetRunning, WatchError, WatchAgentEnd, ReleaseGet,
      ReleaseNothing, ReleaseDelete, ReleaseRow, WatchClear, WatchTimeout, BridgeDrop,
      CancelCheck, CancelWrite, Heartbeat, AgentReceive, AgentStart, AgentError,
      AgentEnd, AgentCrash, RouteExpire, GatewayCrash, ClearAndReturn

\* Goroutines return for good; only PostMessage starts new ones.
LEMMA ActiveShrinks ==
  ASSUME TypeInv, [Next]_vars, NEW m \in Msgs, Active(m)'
  PROVE  Active(m) \/ \E c \in Convs : PostMessage(m, c)
<1>1. TypeOK /\ Posted
  BY DEF TypeInv
<1>2. QED
  BY <1>1, SMTT(60)
  DEF Active, Finished,
      TypeOK, Posted, Next, Dispatch, Watch, Agent, vars, dispVars, watchVars,
      PostMessage, LoadFails,
      CreateTask, ProfileLookupFails, EnsureHit, EnsureMiss, ClaimMiss, ClaimFails,
      EnsureSet, DispatchTask, DispatchFails, Claim, WatchSubscribe, WatchAgentStart,
      WatchUnknownPod, WatchSetRunning, WatchError, WatchAgentEnd, ReleaseGet,
      ReleaseNothing, ReleaseDelete, ReleaseRow, WatchClear, WatchTimeout, BridgeDrop,
      CancelCheck, CancelWrite, Heartbeat, AgentReceive, AgentStart, AgentError,
      AgentEnd, AgentCrash, RouteExpire, GatewayCrash, ClearAndReturn, Receives

\* A message holds a pod only from its claim on.
LEMMA HoldsShrinks ==
  ASSUME TypeInv, [Next]_vars, NEW m \in Msgs, NEW p \in Pods, Holds(m, p)'
  PROVE  Holds(m, p) \/ Claim(m, p)
<1>1. TypeOK /\ Posted
  BY DEF TypeInv
<1>2. QED
  BY <1>1, SMTT(60)
  DEF Holds, Finished, ClaimMissResult,
      TypeOK, Posted, Next, Dispatch, Watch, Agent, vars, dispVars, watchVars,
      PostMessage, LoadFails,
      CreateTask, ProfileLookupFails, EnsureHit, EnsureMiss, ClaimMiss, ClaimFails,
      EnsureSet, DispatchTask, DispatchFails, Claim, WatchSubscribe, WatchAgentStart,
      WatchUnknownPod, WatchSetRunning, WatchError, WatchAgentEnd, ReleaseGet,
      ReleaseNothing, ReleaseDelete, ReleaseRow, WatchClear, WatchTimeout, BridgeDrop,
      CancelCheck, CancelWrite, Heartbeat, AgentReceive, AgentStart, AgentError,
      AgentEnd, AgentCrash, RouteExpire, GatewayCrash, ClearAndReturn, Receives

\* Task messages come from dispatchTask only.
LEMMA BusWriters ==
  ASSUME [Next]_vars, NEW t \in bus'
  PROVE  t \in bus \/ \E m \in Msgs : DispatchTask(m) /\ t = TaskMsg(m)
  BY SMTT(60) DEF Next, Dispatch, Watch, Agent, vars, PostMessage, LoadFails,
      CreateTask, ProfileLookupFails, EnsureHit, EnsureMiss, ClaimMiss, ClaimFails,
      EnsureSet, DispatchTask, DispatchFails, Claim, WatchSubscribe, WatchAgentStart,
      WatchUnknownPod, WatchSetRunning, WatchError, WatchAgentEnd, ReleaseGet,
      ReleaseNothing, ReleaseDelete, ReleaseRow, WatchClear, WatchTimeout, BridgeDrop,
      CancelCheck, CancelWrite, Heartbeat, AgentReceive, AgentStart, AgentError,
      AgentEnd, AgentCrash, RouteExpire, GatewayCrash, ClearAndReturn

\* A pod gets its work from a task message it can receive.
LEMMA JobWriters ==
  ASSUME TypeInv, [Next]_vars, NEW p \in Pods
  PROVE  \/ job'[p] \in {job[p], None}
         \/ \E t \in bus : CanReceive(p, t) /\ job'[p] = t.msg
<1>1. TypeOK
  BY DEF TypeInv
<1>2. QED
  BY <1>1, SMTT(60)
  DEF TypeOK, Next, Dispatch, Watch, Agent, vars, agentVars, PostMessage, LoadFails,
      CreateTask, ProfileLookupFails, EnsureHit, EnsureMiss, ClaimMiss, ClaimFails,
      EnsureSet, DispatchTask, DispatchFails, Claim, WatchSubscribe, WatchAgentStart,
      WatchUnknownPod, WatchSetRunning, WatchError, WatchAgentEnd, ReleaseGet,
      ReleaseNothing, ReleaseDelete, ReleaseRow, WatchClear, WatchTimeout, BridgeDrop,
      CancelCheck, CancelWrite, Heartbeat, AgentReceive, AgentStart, AgentError,
      AgentEnd, AgentCrash, RouteExpire, GatewayCrash, ClearAndReturn

\* A route comes from EnsureInstance, for the pod it has claimed, or from a watcher
\* that took an agent_start off its channel.
LEMMA RouteWriters ==
  ASSUME TypeInv, [Next]_vars, NEW c \in Convs
  PROVE  \/ route'[c] \in {route[c], None}
         \/ \E m \in Msgs : /\ EnsureSet(m) /\ conv[m] = c /\ route'[c] = cpod[m]
         \/ \E m \in Msgs : /\ WatchAgentStart(m) /\ conv[m] = c
                            /\ route'[c] = Head(buf[m]).pod
<1>1. TypeOK
  BY DEF TypeInv
<1>2. ASSUME NEW m \in Msgs, EnsureSet(m)
      PROVE  route'[c] = route[c] \/ (conv[m] = c /\ route'[c] = cpod[m])
  BY <1>1, <1>2 DEF TypeOK, EnsureSet, RouteSet
<1>3. ASSUME NEW m \in Msgs, WatchAgentStart(m)
      PROVE  route'[c] = route[c] \/ (conv[m] = c /\ route'[c] = Head(buf[m]).pod)
  BY <1>1, <1>3 DEF TypeOK, WatchAgentStart, RouteSet
<1>4. ASSUME NEW m \in Msgs, ReleaseDelete(m) \/ WatchClear(m) \/ WatchTimeout(m)
      PROVE  route'[c] \in {route[c], None}
  BY <1>1, <1>4
  DEF TypeOK, ReleaseDelete, WatchClear, WatchTimeout, ClearAndReturn, RouteDelete
<1>5. ASSUME GatewayCrash \/ \E d \in Convs : RouteExpire(d)
      PROVE  route'[c] \in {route[c], None}
  BY <1>1, <1>5 DEF TypeOK, GatewayCrash, RouteExpire, RouteDelete
<1>6. \/ UNCHANGED route
      \/ \E m \in Msgs : \/ EnsureSet(m) \/ WatchAgentStart(m) \/ ReleaseDelete(m)
                         \/ WatchClear(m) \/ WatchTimeout(m)
      \/ GatewayCrash
      \/ \E d \in Convs : RouteExpire(d)
  BY SMTT(60) DEF Next, Dispatch, Watch, Agent, vars, PostMessage, LoadFails,
      CreateTask, ProfileLookupFails, EnsureHit, EnsureMiss, ClaimMiss, ClaimFails,
      DispatchTask, DispatchFails, Claim, WatchSubscribe, WatchUnknownPod,
      WatchSetRunning, WatchError, WatchAgentEnd, ReleaseGet, ReleaseNothing, ReleaseRow,
      BridgeDrop, CancelCheck, CancelWrite, Heartbeat, AgentReceive, AgentStart,
      AgentError, AgentEnd, AgentCrash
<1>7. QED
  BY <1>2, <1>3, <1>4, <1>5, <1>6

\* A watcher gets to its release through ReleaseGet and ReleaseDelete.
LEMMA ReleaseSteps ==
  ASSUME TypeInv, [Next]_vars, NEW m \in Msgs, wpc'[m] \in {"reldel", "reldb"}
  PROVE  \/ wpc'[m] = wpc[m] /\ wpod'[m] = wpod[m]
         \/ ReleaseGet(m) /\ wpc'[m] = "reldel"
         \/ ReleaseDelete(m) /\ wpc'[m] = "reldb" /\ wpod'[m] = wpod[m]
<1>1. TypeOK
  BY DEF TypeInv
<1>2. ASSUME NEW n \in Msgs, NEW to, to \notin {"reldel", "reldb"},
             wpc' = [wpc EXCEPT ![n] = to], UNCHANGED wpod
      PROVE  wpc'[m] = wpc[m] /\ wpod'[m] = wpod[m]
  BY <1>1, <1>2 DEF TypeOK
<1>3. ASSUME NEW n \in Msgs,
             \/ DispatchTask(n) \/ WatchSubscribe(n) \/ WatchAgentStart(n)
             \/ WatchSetRunning(n) \/ WatchAgentEnd(n) \/ ReleaseNothing(n)
             \/ ReleaseRow(n) \/ WatchClear(n) \/ WatchTimeout(n)
      PROVE  wpc'[m] = wpc[m] /\ wpod'[m] = wpod[m]
  BY <1>2, <1>3
  DEF DispatchTask, WatchSubscribe, WatchAgentStart, WatchSetRunning, WatchAgentEnd,
      ReleaseNothing, ReleaseRow, WatchClear, WatchTimeout, ClearAndReturn
<1>4. ASSUME NEW n \in Msgs, ReleaseGet(n)
      PROVE  \/ wpc'[m] = wpc[m] /\ wpod'[m] = wpod[m]
             \/ n = m /\ wpc'[m] = "reldel"
  BY <1>1, <1>4 DEF TypeOK, ReleaseGet
<1>5. ASSUME NEW n \in Msgs, ReleaseDelete(n)
      PROVE  \/ wpc'[m] = wpc[m] /\ wpod'[m] = wpod[m]
             \/ n = m /\ wpc'[m] = "reldb" /\ wpod'[m] = wpod[m]
  BY <1>1, <1>5 DEF TypeOK, ReleaseDelete
<1>6. ~GatewayCrash
  BY <1>1 DEF TypeOK, GatewayCrash
<1>7. \/ UNCHANGED <<wpc, wpod>>
      \/ \E n \in Msgs : \/ DispatchTask(n) \/ WatchSubscribe(n) \/ WatchAgentStart(n)
                         \/ WatchSetRunning(n) \/ WatchAgentEnd(n) \/ ReleaseNothing(n)
                         \/ ReleaseRow(n) \/ WatchClear(n) \/ WatchTimeout(n)
                         \/ ReleaseGet(n) \/ ReleaseDelete(n)
      \/ GatewayCrash
  BY SMTT(60) DEF Next, Dispatch, Watch, Agent, vars, watchVars, PostMessage, LoadFails,
      CreateTask, ProfileLookupFails, EnsureHit, EnsureMiss, ClaimMiss, ClaimFails,
      EnsureSet, DispatchFails, Claim, WatchUnknownPod, WatchError, BridgeDrop,
      CancelCheck, CancelWrite, Heartbeat, AgentReceive, AgentStart, AgentError,
      AgentEnd, AgentCrash, RouteExpire
<1>8. QED
  BY <1>3, <1>4, <1>5, <1>6, <1>7

\* A channel changes in one of four ways.
LEMMA BufWriters ==
  ASSUME TypeInv, [Next]_vars, NEW m \in Msgs
  PROVE  \/ buf'[m] \in {buf[m], << >>}
         \/ buf[m] # << >> /\ buf'[m] = Tail(buf[m])
         \/ buf[m] # << >> /\ buf'[m] = SubSeq(buf[m], 1, Len(buf[m]) - 1)
         \/ \E p \in Pods, type \in {"start", "error", "end"} :
              /\ job[p] \in Msgs /\ conv[m] = conv[job[p]]
              /\ wpc[m] \notin {"off", "spawned", "done"}
              /\ type = "end" => job[p] \in ended'
              /\ buf'[m] = Append(buf[m], [type |-> type, pod |-> p])
<1>1. TypeOK /\ AtWork
  BY DEF TypeInv
<1>2. CASE UNCHANGED buf
  BY <1>2
<1>3. CASE \E n \in Msgs : \/ WatchAgentStart(n) \/ WatchUnknownPod(n)
                           \/ WatchError(n) \/ WatchAgentEnd(n)
  BY <1>1, <1>3
  DEF TypeOK, WatchAgentStart, WatchUnknownPod, WatchError, WatchAgentEnd, Receives
<1>4. CASE \E n \in Msgs : BridgeDrop(n)
  BY <1>1, <1>4 DEF TypeOK, BridgeDrop
<1>5. CASE GatewayCrash \/ \E n \in Msgs : WatchClear(n) \/ WatchTimeout(n)
  BY <1>1, <1>5 DEF TypeOK, GatewayCrash, WatchClear, WatchTimeout, ClearAndReturn
<1>6. ASSUME NEW p \in Pods, AgentStart(p) \/ AgentError(p)
      PROVE  \/ buf'[m] = buf[m]
             \/ \E type \in {"start", "error"} :
                  /\ job[p] \in Msgs /\ conv[m] = conv[job[p]]
                  /\ wpc[m] \notin {"off", "spawned", "done"}
                  /\ buf'[m] = Append(buf[m], [type |-> type, pod |-> p])
  BY <1>1, <1>6 DEF AtWork, AgentStart, AgentError, Publish
<1>7. ASSUME NEW p \in Pods, AgentEnd(p)
      PROVE  \/ buf'[m] = buf[m]
             \/ /\ job[p] \in Msgs /\ conv[m] = conv[job[p]] /\ job[p] \in ended'
                /\ wpc[m] \notin {"off", "spawned", "done"}
                /\ buf'[m] = Append(buf[m], [type |-> "end", pod |-> p])
  BY <1>1, <1>7 DEF AtWork, AgentEnd, Publish
<1>8. \/ UNCHANGED buf
      \/ \E n \in Msgs : \/ WatchAgentStart(n) \/ WatchUnknownPod(n)
                         \/ WatchError(n) \/ WatchAgentEnd(n) \/ BridgeDrop(n)
                         \/ WatchClear(n) \/ WatchTimeout(n)
      \/ GatewayCrash
      \/ \E p \in Pods : AgentStart(p) \/ AgentError(p) \/ AgentEnd(p)
  BY SMTT(60) DEF Next, Dispatch, Watch, Agent, vars, watchVars, PostMessage, LoadFails,
      CreateTask, ProfileLookupFails, EnsureHit, EnsureMiss, ClaimMiss, ClaimFails,
      EnsureSet, DispatchTask, DispatchFails, Claim, WatchSubscribe, WatchSetRunning,
      ReleaseGet, ReleaseNothing, ReleaseDelete, ReleaseRow, CancelCheck, CancelWrite,
      Heartbeat, AgentReceive, AgentCrash, RouteExpire
<1>9. QED
  BY <1>2, <1>3, <1>4, <1>5, <1>6, <1>7, <1>8

\* The events of a channel: those it had and those that are published while its watcher
\* is subscribed.
LEMMA EventsOf ==
  ASSUME TypeInv, [Next]_vars, NEW m \in Msgs, NEW i \in DOMAIN buf'[m]
  PROVE  \/ \E j \in DOMAIN buf[m] : buf[m][j] = buf'[m][i]
         \/ \E p \in Pods : /\ job[p] \in Msgs /\ conv[m] = conv[job[p]]
                            /\ wpc[m] \notin {"off", "spawned", "done"}
                            /\ buf'[m][i].pod = p
                            /\ buf'[m][i].type = "end" => job[p] \in ended'
<1>1. buf[m] \in Seq(Events)
  BY DEF TypeInv, TypeOK
<1>2. CASE buf'[m] \in {buf[m], << >>}
  BY <1>2
<1>3. CASE buf[m] # << >> /\ buf'[m] = Tail(buf[m])
  <2>1. i \in 1..(Len(buf[m]) - 1) /\ Tail(buf[m])[i] = buf[m][i + 1]
    BY <1>1, <1>3
  <2>2. i + 1 \in DOMAIN buf[m]
    BY <1>1, <2>1
  <2>3. QED
    BY <1>3, <2>1, <2>2
<1>4. CASE buf[m] # << >> /\ buf'[m] = SubSeq(buf[m], 1, Len(buf[m]) - 1)
  <2>1. i \in 1..(Len(buf[m]) - 1) /\ buf'[m][i] = buf[m][i]
    BY <1>1, <1>4
  <2>2. i \in DOMAIN buf[m]
    BY <1>1, <2>1
  <2>3. QED
    BY <2>1, <2>2
<1>5. CASE \E p \in Pods, type \in {"start", "error", "end"} :
             /\ job[p] \in Msgs /\ conv[m] = conv[job[p]]
             /\ wpc[m] \notin {"off", "spawned", "done"}
             /\ type = "end" => job[p] \in ended'
             /\ buf'[m] = Append(buf[m], [type |-> type, pod |-> p])
  <2>1. PICK p \in Pods, type \in {"start", "error", "end"} :
             /\ job[p] \in Msgs /\ conv[m] = conv[job[p]]
             /\ wpc[m] \notin {"off", "spawned", "done"}
             /\ type = "end" => job[p] \in ended'
             /\ buf'[m] = Append(buf[m], [type |-> type, pod |-> p])
    BY <1>5
  <2>2. i \in 1..(Len(buf[m]) + 1)
    BY <1>1, <2>1
  <2>3. CASE i = Len(buf[m]) + 1
    <3>1. buf'[m][i] = [type |-> type, pod |-> p]
      BY <1>1, <2>1, <2>3
    <3>2. QED
      BY <2>1, <3>1
  <2>4. CASE i # Len(buf[m]) + 1
    <3>1. i \in DOMAIN buf[m] /\ buf'[m][i] = buf[m][i]
      BY <1>1, <2>1, <2>2, <2>4
    <3>2. QED
      BY <3>1
  <2>5. QED
    BY <2>3, <2>4
<1>6. QED
  BY <1>2, <1>3, <1>4, <1>5, BufWriters

-----------------------------------------------------------------------------
(* Who works for whom, in every regime *)

\* A message has no pod before its claim, a channel is filled only for a watcher that
\* was started, and a pod works for the message that claimed it or serves the pool.
Booked ==
    /\ \A m \in Msgs :
         /\ dpc[m] \in {"idle", "create", "lookup", "claim"} => claim[m] = "skipped"
         /\ claim[m] = "claimed" => cpod[m] \in Pods
         /\ buf[m] # << >> => wpc[m] # "off"
    /\ \A p \in Pods : job[p] \in Msgs =>
         /\ dpc[job[p]] = "done"
         /\ p \in PoolSubscribers \/ (claim[job[p]] = "claimed" /\ cpod[job[p]] = p)
    /\ \A t \in bus :
         /\ dpc[t.msg] = "done"
         /\ t.kind = "pod" => claim[t.msg] = "claimed" /\ cpod[t.msg] = t.pod

\* With users who wait, one message of a conversation is being worked on, by goroutines
\* and by pods.
OneAtATime ==
    /\ \A m, n \in Msgs : Active(m) /\ Active(n) /\ conv[m] = conv[n] => m = n
    /\ \A p \in Pods, n \in Msgs :
         job[p] \in Msgs /\ Active(n) /\ conv[n] = conv[job[p]] => n = job[p]
    /\ \A t \in bus, p \in Pods, n \in Msgs :
         CanReceive(p, t) /\ Active(n) /\ conv[n] = conv[t.msg] => n = t.msg

\* A watcher therefore sees events of its own message's agent only.
OwnEvents ==
    \A m \in Msgs : \A i \in DOMAIN buf[m] :
        /\ buf[m][i].pod \in PoolSubscribers
           \/ (claim[m] = "claimed" /\ cpod[m] = buf[m][i].pod)
        /\ buf[m][i].type = "end" => m \in ended

SerialInv == Booked /\ OneAtATime /\ OwnEvents

\* Pods that serve the pool have no row: they send no heartbeats.
PoolAbsent == \A p \in PoolSubscribers : inst[p] = "absent"

\* A routed pod is active, routed once, and held by its conversation's message if at all.
Routed ==
    \A c \in Convs, p \in Pods : route[c] = p =>
        /\ inst[p] = "active"
        /\ \A m \in Msgs : Holds(m, p) => conv[m] = c
        /\ \A d \in Convs : route[d] = p => d = c

InRelease(n) == wpc[n] \in {"reldel", "reldb"}

\* A watcher on its way to ReleaseInstance is the only one to care about its pod.
Releasing ==
    \A n \in Msgs : InRelease(n) =>
        /\ wpod[n] \in Pods /\ inst[wpod[n]] = "active"
        /\ \A m \in Msgs : Holds(m, wpod[n]) => m = n
        /\ \A c \in Convs : route[c] = wpod[n] => c = conv[n] /\ wpc[n] = "reldel"
        /\ \A m \in Msgs : InRelease(m) /\ wpod[m] = wpod[n] => m = n

HoldInv == PoolAbsent /\ HeldIsActive /\ ClaimExclusive /\ Routed /\ Releasing

\* Claims: only EnsureInstance's slow path makes one.
LEMMA ClaimWriters ==
  ASSUME TypeInv, Booked, [Next]_vars, NEW m \in Msgs
  PROVE  /\ dpc'[m] \in {"idle", "create", "lookup", "claim"} => claim'[m] = "skipped"
         /\ claim'[m] = "claimed" => cpod'[m] \in Pods
<1>1. TypeOK
  BY DEF TypeInv
<1>2. QED
  BY <1>1, SMTT(60)
  DEF Booked, ClaimMissResult,
      TypeOK, Next, Dispatch, Watch, Agent, vars, dispVars, PostMessage, LoadFails,
      CreateTask, ProfileLookupFails, EnsureHit, EnsureMiss, ClaimMiss, ClaimFails,
      EnsureSet, DispatchTask, DispatchFails, Claim, WatchSubscribe, WatchAgentStart,
      WatchUnknownPod, WatchSetRunning, WatchError, WatchAgentEnd, ReleaseGet,
      ReleaseNothing, ReleaseDelete, ReleaseRow, WatchClear, WatchTimeout, BridgeDrop,
      CancelCheck, CancelWrite, Heartbeat, AgentReceive, AgentStart, AgentError,
      AgentEnd, AgentCrash, RouteExpire, GatewayCrash, ClearAndReturn

\* A watcher that was started stays so, and pods' agent_ends are not forgotten.
LEMMA WatchersStay ==
  ASSUME TypeInv, [Next]_vars, NEW m \in Msgs
  PROVE  /\ wpc[m] # "off" => wpc'[m] # "off"
         /\ ended \subseteq ended'
<1>1. TypeOK
  BY DEF TypeInv
<1>2. QED
  BY <1>1, SMTT(60)
  DEF TypeOK, Next, Dispatch, Watch, Agent, vars, watchVars, agentVars, PostMessage,
      LoadFails, CreateTask, ProfileLookupFails, EnsureHit, EnsureMiss, ClaimMiss,
      ClaimFails, EnsureSet, DispatchTask, DispatchFails, Claim, WatchSubscribe,
      WatchAgentStart, WatchUnknownPod, WatchSetRunning, WatchError, WatchAgentEnd,
      ReleaseGet, ReleaseNothing, ReleaseDelete, ReleaseRow, WatchClear, WatchTimeout,
      BridgeDrop, CancelCheck, CancelWrite, Heartbeat, AgentReceive, AgentStart,
      AgentError, AgentEnd, AgentCrash, RouteExpire, GatewayCrash, ClearAndReturn

\* agent_end comes from a pod that was at work.
LEMMA EndedWriters ==
  ASSUME TypeInv, [Next]_vars, NEW n \in ended'
  PROVE  n \in ended \/ \E p \in Pods : job[p] \in Msgs /\ n = job[p]
<1>1. AtWork
  BY DEF TypeInv
<1>2. ended' = ended \/ \E p \in Pods : AgentEnd(p)
  BY SMTT(60)
  DEF Next, Dispatch, Watch, Agent, vars, agentVars, PostMessage,
      LoadFails, CreateTask, ProfileLookupFails, EnsureHit, EnsureMiss, ClaimMiss,
      ClaimFails, EnsureSet, DispatchTask, DispatchFails, Claim, WatchSubscribe,
      WatchAgentStart, WatchUnknownPod, WatchSetRunning, WatchError, WatchAgentEnd,
      ReleaseGet, ReleaseNothing, ReleaseDelete, ReleaseRow, WatchClear, WatchTimeout,
      BridgeDrop, CancelCheck, CancelWrite, Heartbeat, AgentReceive, AgentStart,
      AgentError, AgentCrash, RouteExpire, GatewayCrash, ClearAndReturn
<1>3. QED
  BY <1>1, <1>2 DEF AtWork, AgentEnd

LEMMA StepBooked == TypeInv /\ Booked /\ [Next]_vars => Booked'
<1> SUFFICES ASSUME TypeInv, Booked, [Next]_vars PROVE Booked'
  OBVIOUS
<1>0. TypeOK /\ TypeOK'
  BY StepTypeInv DEF TypeInv
<1>1. ASSUME NEW m \in Msgs PROVE buf'[m] # << >> => wpc'[m] # "off"
  <2>1. buf'[m] # << >> => wpc[m] # "off"
    <3>1. buf[m] # << >> => wpc[m] # "off"
      BY DEF Booked
    <3>2. QED
      BY <3>1, BufWriters
  <2>2. QED
    BY <2>1, WatchersStay
<1>2. ASSUME NEW t \in bus'
      PROVE  /\ dpc'[t.msg] = "done"
             /\ t.kind = "pod" => claim'[t.msg] = "claimed" /\ cpod'[t.msg] = t.pod
  <2>1. CASE t \in bus
    <3>1. t.msg \in Msgs
      BY <1>0, <2>1 DEF TypeOK, TaskMsgs
    <3>2. QED
      BY <2>1, <3>1, DispatchSettles DEF Booked
  <2>2. ASSUME NEW m \in Msgs, DispatchTask(m), t = TaskMsg(m)
        PROVE  /\ dpc'[t.msg] = "done"
               /\ t.kind = "pod" => claim'[t.msg] = "claimed" /\ cpod'[t.msg] = t.pod
    <3>1. t.msg = m /\ (t.kind = "pod" => claim[m] = "claimed" /\ t.pod = cpod[m])
      BY <2>2 DEF TaskMsg
    <3>2. QED
      BY <1>0, <2>2, <3>1 DEF TypeOK, DispatchTask
  <2>3. QED
    BY <2>1, <2>2, BusWriters
<1>3. ASSUME NEW p \in Pods, job'[p] \in Msgs
      PROVE  /\ dpc'[job'[p]] = "done"
             /\ p \in PoolSubscribers
                \/ (claim'[job'[p]] = "claimed" /\ cpod'[job'[p]] = p)
  <2>1. CASE job'[p] = job[p]
    BY <1>3, <2>1, DispatchSettles DEF Booked
  <2>2. ASSUME NEW t \in bus, CanReceive(p, t), job'[p] = t.msg
        PROVE  /\ dpc'[job'[p]] = "done"
               /\ p \in PoolSubscribers
                  \/ (claim'[job'[p]] = "claimed" /\ cpod'[job'[p]] = p)
    BY <1>3, <2>2, DispatchSettles DEF Booked, CanReceive
  <2>3. QED
    BY <1>3, <2>1, <2>2, JobWriters, DispatchAssumption
<1>4. QED
  BY <1>1, <1>2, <1>3, ClaimWriters DEF Booked

\* PostMessage with users who wait: nothing of the conversation is left over.
LEMMA PostAlone ==
  ASSUME TypeInv, Booked, Serial, NEW m \in Msgs, NEW c \in Convs, PostMessage(m, c)
  PROVE  /\ \A n \in Msgs : n # m /\ conv'[n] = c => ~Active(n)'
         /\ \A p \in Pods : job'[p] \in Msgs => job'[p] # m /\ conv'[job'[p]] # c
         /\ \A t \in bus', p \in Pods :
              CanReceive(p, t) => t.msg # m /\ conv'[t.msg] # c
<1>1. TypeOK
  BY DEF TypeInv
<1>2. \A n \in Msgs : n # m /\ conv'[n] = c => ~Active(n)'
  BY <1>1 DEF TypeOK, PostMessage, Active, Finished, watchVars
<1>3. \A p \in Pods : job'[p] \in Msgs => job'[p] # m /\ conv'[job'[p]] # c
  BY <1>1, DispatchAssumption DEF TypeOK, PostMessage, Quiet, Booked, agentVars
<1>4. \A t \in bus', p \in Pods : CanReceive(p, t) => t.msg # m /\ conv'[t.msg] # c
  BY <1>1 DEF TypeOK, TaskMsgs, PostMessage, Quiet, Booked
<1>5. QED
  BY <1>2, <1>3, <1>4

LEMMA StepOneAtATime ==
  ASSUME TypeInv, Booked, OneAtATime, [Next]_vars, Serial
  PROVE  OneAtATime'
<1>0. TypeOK /\ TypeOK' /\ Booked'
  BY StepTypeInv, StepBooked DEF TypeInv
<1>1. CASE \E m \in Msgs, c \in Convs : PostMessage(m, c)
  <2>1. PICK m \in Msgs, c \in Convs : PostMessage(m, c)
    BY <1>1
  <2>2. \A n \in Msgs : n # m => conv'[n] = conv[n] /\ (Active(n)' <=> Active(n))
    BY <1>0, <2>1 DEF TypeOK, PostMessage, Active, Finished, watchVars
  <2>3. conv'[m] = c /\ bus' = bus /\ job' = job
    BY <1>0, <2>1 DEF TypeOK, PostMessage, agentVars
  <2>4. \A n \in Msgs : n # m /\ conv'[n] = c => ~Active(n)'
    BY <2>1, PostAlone
  <2>5. \A p \in Pods : job'[p] \in Msgs => job'[p] # m /\ conv'[job'[p]] # c
    BY <2>1, PostAlone
  <2>6. \A t \in bus', p \in Pods : CanReceive(p, t) => t.msg # m /\ conv'[t.msg] # c
    BY <2>1, PostAlone
  <2>7. \A t \in bus : t.msg \in Msgs
    BY <1>0 DEF TypeOK, TaskMsgs
  <2>8. \A a, b \in Msgs : Active(a)' /\ Active(b)' /\ conv'[a] = conv'[b] => a = b
    BY <2>2, <2>3, <2>4 DEF OneAtATime
  <2>9. \A p \in Pods, n \in Msgs :
          job'[p] \in Msgs /\ Active(n)' /\ conv'[n] = conv'[job'[p]] => n = job'[p]
    BY <2>2, <2>3, <2>5 DEF OneAtATime
  <2>10. \A t \in bus', p \in Pods, n \in Msgs :
           CanReceive(p, t) /\ Active(n)' /\ conv'[n] = conv'[t.msg] => n = t.msg
    BY <2>2, <2>3, <2>6, <2>7 DEF OneAtATime
  <2>11. QED
    BY <2>8, <2>9, <2>10 DEF OneAtATime, CanReceive
<1>2. CASE ~\E m \in Msgs, c \in Convs : PostMessage(m, c)
  <2>1. \A n \in Msgs : Active(n)' => Active(n) /\ conv'[n] = conv[n]
    BY <1>2, ActiveShrinks, DispatchSettles DEF Active
  <2>2. \A n \in Msgs : dpc[n] = "done" => conv'[n] = conv[n]
    BY DispatchSettles
  <2>3. \A a, b \in Msgs : Active(a)' /\ Active(b)' /\ conv'[a] = conv'[b] => a = b
    BY <2>1 DEF OneAtATime
  <2>4. ASSUME NEW p \in Pods, NEW n \in Msgs, job'[p] \in Msgs, Active(n)',
               conv'[n] = conv'[job'[p]]
        PROVE  n = job'[p]
    <3>1. CASE job'[p] = job[p]
      BY <2>1, <2>2, <2>4, <3>1 DEF OneAtATime, Booked
    <3>2. ASSUME NEW t \in bus, CanReceive(p, t), job'[p] = t.msg PROVE n = job'[p]
      BY <2>1, <2>2, <2>4, <3>2 DEF OneAtATime, Booked
    <3>3. QED
      BY <2>4, <3>1, <3>2, JobWriters, DispatchAssumption
  <2>5. ASSUME NEW t \in bus', NEW p \in Pods, NEW n \in Msgs, CanReceive(p, t),
               Active(n)', conv'[n] = conv'[t.msg]
        PROVE  n = t.msg
    <3>1. CASE t \in bus
      <4>1. t.msg \in Msgs /\ dpc[t.msg] = "done"
        BY <1>0, <3>1 DEF TypeOK, TaskMsgs, Booked
      <4>2. QED
        BY <2>1, <2>2, <2>5, <3>1, <4>1 DEF OneAtATime
    <3>2. ASSUME NEW m \in Msgs, DispatchTask(m), t = TaskMsg(m) PROVE n = t.msg
      <4>1. t.msg = m
        BY <3>2 DEF TaskMsg
      <4>2. Active(m)'
        BY <1>0, <3>2 DEF TypeOK, DispatchTask, Active, Finished
      <4>3. QED
        BY <2>3, <2>5, <4>1, <4>2
    <3>3. QED
      BY <3>1, <3>2, BusWriters
  <2>6. QED
    BY <2>3, <2>4, <2>5 DEF OneAtATime, CanReceive
<1>3. QED
  BY <1>1, <1>2

LEMMA StepOwnEvents ==
  ASSUME TypeInv, SerialInv, [Next]_vars
  PROVE  OwnEvents'
<1>0. TypeOK /\ TypeOK' /\ Posted
  BY StepTypeInv DEF TypeInv
<1>1. SUFFICES ASSUME NEW m \in Msgs, NEW i \in DOMAIN buf'[m]
               PROVE  /\ buf'[m][i].pod \in PoolSubscribers
                         \/ (claim'[m] = "claimed" /\ cpod'[m] = buf'[m][i].pod)
                      /\ buf'[m][i].type = "end" => m \in ended'
  BY DEF OwnEvents
<1>2. CASE \E j \in DOMAIN buf[m] : buf[m][j] = buf'[m][i]
  <2>1. PICK j \in DOMAIN buf[m] : buf[m][j] = buf'[m][i]
    BY <1>2
  <2>2. buf[m] # << >>
    BY <1>0, <2>1 DEF TypeOK
  <2>3. dpc[m] = "done"
    BY <1>0, <2>2 DEF SerialInv, Booked, Posted
  <2>4. claim'[m] = claim[m] /\ cpod'[m] = cpod[m] /\ ended \subseteq ended'
    BY <2>3, DispatchSettles, WatchersStay
  <2>5. QED
    BY <2>1, <2>4 DEF SerialInv, OwnEvents
<1>3. CASE \E p \in Pods : /\ job[p] \in Msgs /\ conv[m] = conv[job[p]]
                           /\ wpc[m] \notin {"off", "spawned", "done"}
                           /\ buf'[m][i].pod = p
                           /\ buf'[m][i].type = "end" => job[p] \in ended'
  <2>1. PICK p \in Pods : /\ job[p] \in Msgs /\ conv[m] = conv[job[p]]
                          /\ wpc[m] \notin {"off", "spawned", "done"}
                          /\ buf'[m][i].pod = p
                          /\ buf'[m][i].type = "end" => job[p] \in ended'
    BY <1>3
  <2>2. dpc[m] = "done" /\ Active(m)
    BY <1>0, <2>1 DEF Posted, Active, Finished
  <2>3. job[p] = m
    BY <2>1, <2>2 DEF SerialInv, OneAtATime
  <2>4. p \in PoolSubscribers \/ (claim[m] = "claimed" /\ cpod[m] = p)
    BY <2>1, <2>3 DEF SerialInv, Booked
  <2>5. claim'[m] = claim[m] /\ cpod'[m] = cpod[m]
    BY <2>2, DispatchSettles
  <2>6. QED
    BY <2>1, <2>3, <2>4, <2>5
<1>4. QED
  BY <1>2, <1>3, EventsOf

\* With users who wait, the three facts hold initially and every step keeps them.
LEMMA SerialInvariant ==
  ASSUME Serial
  PROVE  Spec => [](TypeInv /\ SerialInv)
<1>1. Init => TypeInv /\ SerialInv
  <2>1. Init => Booked /\ OneAtATime
    BY DispatchAssumption DEF Init, Booked, OneAtATime, Active
  <2>2. DOMAIN << >> = {}
    OBVIOUS
  <2>3. Init => OwnEvents
    BY <2>2 DEF Init, OwnEvents
  <2>4. QED
    BY <2>1, <2>3, InitTypeInv DEF SerialInv
<1>2. TypeInv /\ SerialInv /\ [Next]_vars => TypeInv' /\ SerialInv'
  BY StepTypeInv, StepBooked, StepOneAtATime, StepOwnEvents DEF SerialInv
<1>3. QED
  BY <1>1, <1>2, PTL DEF Spec

-----------------------------------------------------------------------------
(* Who holds a pod, with users who wait and a routing table that answers *)

\* A holder has been posted and has not returned; its pod is a pod.
LEMMA HolderActive ==
  ASSUME TypeInv, Booked, NEW m \in Msgs, NEW p, Holds(m, p)
  PROVE  Active(m) /\ p \in Pods
  BY DEF Booked, Holds, Active

\* A pod that is held or active cannot be claimed: a holder's claim is the old one.
LEMMA HoldsOld ==
  ASSUME TypeInv, [Next]_vars, NEW m \in Msgs, NEW p \in Pods, Holds(m, p)',
         inst[p] = "active"
  PROVE  Holds(m, p)
  BY HoldsShrinks DEF Claim, ClaimRow

\* A pool subscriber never gets a row: it is not upserted, nor claimed, nor released.
LEMMA StepPoolAbsent ==
  ASSUME TypeInv, HoldInv, [Next]_vars, PoolSubscribers \cap Heartbeating = {}
  PROVE  PoolAbsent'
<1>1. TypeOK
  BY DEF TypeInv
<1>2. \A m \in Msgs : wpc[m] = "reldb" => wpod[m] \in Pods /\ inst[wpod[m]] = "active"
  BY DEF HoldInv, Releasing, InRelease
<1>3. ASSUME NEW p \in PoolSubscribers PROVE inst'[p] = "absent"
  BY <1>1, <1>2, InstWriters, DispatchAssumption
  DEF HoldInv, PoolAbsent, TypeOK, ClaimRow, UpsertInstanceByPodName, ReleaseInstance
<1>4. QED
  BY <1>3 DEF PoolAbsent

\* A route that was not there is set by the message that holds the pod.
LEMMA RoutedByHolder ==
  ASSUME TypeInv, SerialInv, HoldInv, [Next]_vars, NEW c \in Convs, NEW p \in Pods,
         route'[c] = p, route[c] # p
  PROVE  \E m \in Msgs : Holds(m, p) /\ conv[m] = c /\ wpc[m] \in {"off", "loop"}
<1>0. TypeOK /\ Posted
  BY DEF TypeInv
<1>1. ASSUME NEW m \in Msgs, EnsureSet(m), conv[m] = c, p = cpod[m]
      PROVE  Holds(m, p) /\ wpc[m] = "off"
  BY <1>0, <1>1 DEF EnsureSet, Holds, Finished, Posted, TypeOK, WatchPcs
<1>2. ASSUME NEW m \in Msgs, WatchAgentStart(m), conv[m] = c, p = Head(buf[m]).pod
      PROVE  Holds(m, p) /\ wpc[m] = "loop"
  <2>1. buf[m] \in Seq(Events) /\ buf[m] # << >> /\ wpc[m] = "loop" /\ inst[p] # "absent"
    BY <1>0, <1>2 DEF TypeOK, WatchAgentStart, Receives, HasRow
  <2>2. 1 \in DOMAIN buf[m] /\ Head(buf[m]) = buf[m][1]
    BY <2>1
  <2>3. p \notin PoolSubscribers
    BY <2>1 DEF HoldInv, PoolAbsent
  <2>4. claim[m] = "claimed" /\ cpod[m] = p
    BY <1>2, <2>2, <2>3 DEF SerialInv, OwnEvents
  <2>5. QED
    BY <2>1, <2>4 DEF Holds, Finished
<1>3. QED
  BY <1>1, <1>2, RouteWriters, NoneAssumption

LEMMA StepRouted ==
  ASSUME TypeInv, SerialInv, HoldInv, [Next]_vars
  PROVE  Routed'
<1>0. TypeOK /\ Booked
  BY DEF TypeInv, SerialInv
<1>1. SUFFICES ASSUME NEW c \in Convs, NEW p \in Pods, route'[c] = p
               PROVE  /\ inst'[p] = "active"
                      /\ \A m \in Msgs : Holds(m, p)' => conv'[m] = c
                      /\ \A d \in Convs : route'[d] = p => d = c
  BY DEF Routed, Holds, Finished
<1>2. /\ inst[p] = "active"
      /\ ~\E n \in Msgs : wpc[n] = "reldb" /\ wpod[n] = p
      /\ \A m \in Msgs : Holds(m, p) => conv[m] = c
      /\ \A d \in Convs : route[d] = p => d = c
  <2>1. CASE route[c] = p
    BY <2>1 DEF HoldInv, Routed, Releasing, InRelease
  <2>2. CASE route[c] # p
    <3>1. PICK m \in Msgs : Holds(m, p) /\ conv[m] = c /\ wpc[m] \in {"off", "loop"}
      BY <1>1, <2>2, RoutedByHolder
    <3>2. QED
      BY <3>1 DEF HoldInv, HeldIsActive, ClaimExclusive, Routed, Releasing, InRelease
  <2>3. QED
    BY <2>1, <2>2
<1>3. inst'[p] = "active"
  BY <1>0, <1>2, ReleaseOnly
<1>4. ASSUME NEW m \in Msgs, Holds(m, p)' PROVE conv'[m] = c
  <2>1. Holds(m, p)
    BY <1>2, <1>4, HoldsOld
  <2>2. conv'[m] = conv[m]
    BY <1>0, <2>1, HolderActive, DispatchSettles DEF Active
  <2>3. QED
    BY <1>2, <2>1, <2>2
<1>5. ASSUME NEW d \in Convs, route'[d] = p PROVE d = c
  <2>1. CASE route[d] = p
    BY <1>2, <2>1
  <2>2. CASE route[d] # p
    BY <1>2, <1>5, <2>2, RoutedByHolder
  <2>3. QED
    BY <2>1, <2>2
<1>6. QED
  BY <1>3, <1>4, <1>5

LEMMA StepHeld ==
  ASSUME TypeInv, SerialInv, HoldInv, [Next]_vars
  PROVE  HeldIsActive' /\ ClaimExclusive'
<1>0. TypeOK
  BY DEF TypeInv
<1>1. ASSUME NEW m \in Msgs, NEW p \in Pods, Holds(m, p)' PROVE inst'[p] = "active"
  <2>1. CASE Holds(m, p)
    <3>1. inst[p] = "active"
      BY <2>1 DEF HoldInv, HeldIsActive
    <3>2. ASSUME NEW n \in Msgs, wpc[n] = "reldb", wpod[n] = p, wpc'[n] = "clear"
          PROVE  FALSE
      <4>1. n = m
        BY <2>1, <3>2 DEF HoldInv, Releasing, InRelease
      <4>2. QED
        BY <1>1, <3>2, <4>1 DEF Holds
    <3>3. QED
      BY <1>0, <3>1, <3>2, ReleaseOnly
  <2>2. CASE Claim(m, p)
    BY <1>0, <2>2 DEF TypeOK, Claim, ClaimRow
  <2>3. QED
    BY <1>1, <2>1, <2>2, HoldsShrinks
<1>2. ASSUME NEW m \in Msgs, NEW n \in Msgs, NEW p \in Pods, Holds(m, p)', Holds(n, p)'
      PROVE  m = n
  <2>1. CASE inst[p] = "active"
    BY <1>2, <2>1, HoldsOld DEF HoldInv, ClaimExclusive
  <2>2. CASE inst[p] # "active"
    <3>1. ~Holds(m, p) /\ ~Holds(n, p)
      BY <2>2 DEF HoldInv, HeldIsActive
    <3>2. Claim(m, p) /\ Claim(n, p)
      BY <1>2, <3>1, HoldsShrinks
    <3>3. dpc' = [dpc EXCEPT ![m] = "set"] /\ dpc' = [dpc EXCEPT ![n] = "set"]
          /\ dpc[m] = "claim" /\ dpc[n] = "claim"
      BY <3>2 DEF Claim
    <3>4. QED
      BY <1>0, <3>3 DEF TypeOK
  <2>3. QED
    BY <2>1, <2>2
<1>3. QED
  BY <1>1, <1>2 DEF HeldIsActive, ClaimExclusive, Holds, Finished

\* How a watcher comes to be in its release: it was, or it just read its route.
LEMMA ReleaseEntry ==
  ASSUME TypeInv, [Next]_vars, NEW m \in Msgs, InRelease(m)'
  PROVE  \/ InRelease(m) /\ wpod'[m] = wpod[m]
         \/ /\ wpc[m] = "relget" /\ wpod'[m] = route[conv[m]] /\ wpod'[m] \in Pods
            /\ wpc'[m] = "reldel" /\ UNCHANGED <<inst, route>>
<1>1. TypeOK
  BY DEF TypeInv
<1>2. wpc'[m] \in {"reldel", "reldb"}
  BY DEF InRelease
<1>3. CASE ReleaseGet(m)
  <2>1. wpc[m] = "relget" /\ conv[m] \in Convs
    BY <1>3 DEF TypeInv, Posted, ReleaseGet
  <2>2. QED
    BY <1>1, <1>3, <2>1 DEF TypeOK, ReleaseGet, RouteGet
<1>4. CASE ReleaseDelete(m) /\ wpod'[m] = wpod[m]
  BY <1>4 DEF InRelease, ReleaseDelete
<1>5. QED
  BY <1>2, <1>3, <1>4, ReleaseSteps DEF InRelease

LEMMA StepReleasing ==
  ASSUME TypeInv, SerialInv, HoldInv, [Next]_vars, ~RedisFaults
  PROVE  Releasing'
<1>0. TypeOK /\ Posted /\ Booked /\ OneAtATime
  BY DEF TypeInv, SerialInv
<1>1. \A k \in Msgs : wpc[k] \in {"relget", "reldel", "reldb"} =>
                        Active(k) /\ conv[k] \in Convs /\ conv'[k] = conv[k]
  BY <1>0, DispatchSettles DEF Posted, Active, Finished
<1>2. ASSUME NEW n \in Msgs, InRelease(n)', NEW p, wpod'[n] = p
      PROVE  /\ p \in Pods /\ inst'[p] = "active"
             /\ \A m \in Msgs : Holds(m, p)' => m = n
             /\ \A c \in Convs : route'[c] = p => c = conv'[n] /\ wpc'[n] = "reldel"
             /\ \A m \in Msgs : InRelease(m)' /\ wpod'[m] = p => m = n
  <2>1. CASE InRelease(n) /\ wpod[n] = p
    <3>1. /\ p \in Pods /\ inst[p] = "active"
          /\ \A m \in Msgs : Holds(m, p) => m = n
          /\ \A c \in Convs : route[c] = p => c = conv[n] /\ wpc[n] = "reldel"
          /\ \A m \in Msgs : InRelease(m) /\ wpod[m] = p => m = n
      BY <2>1 DEF HoldInv, Releasing
    <3>2. conv'[n] = conv[n] /\ wpc[n] \in {"reldel", "reldb"}
      BY <1>1, <2>1 DEF InRelease
    <3>3. inst'[p] = "active"
      BY <1>0, <1>2, <3>1, ReleaseOnly DEF InRelease
    <3>4. ASSUME NEW m \in Msgs, Holds(m, p)' PROVE m = n
      BY <3>1, <3>4, HoldsOld
    <3>5. ASSUME NEW c \in Convs, route'[c] = p PROVE c = conv'[n] /\ wpc'[n] = "reldel"
      <4>1. route[c] = p
        <5>1. ASSUME NEW m \in Msgs, Holds(m, p), wpc[m] \in {"off", "loop"} PROVE FALSE
          BY <3>1, <3>2, <5>1
        <5>2. QED
          BY <3>1, <3>5, <5>1, RoutedByHolder
      <4>2. c = conv[n] /\ wpc[n] = "reldel"
        BY <3>1, <4>1
      <4>3. CASE wpc'[n] = wpc[n]
        BY <3>2, <4>2, <4>3
      <4>4. CASE ReleaseDelete(n)
        <5>1. route' = [route EXCEPT ![conv[n]] = None]
          BY <4>4 DEF ReleaseDelete, RouteDelete, RedisFault
        <5>2. route'[c] = None
          BY <1>0, <4>2, <5>1 DEF TypeOK
        <5>3. QED
          BY <3>1, <3>5, <5>2, NoneAssumption
      <4>5. QED
        BY <1>2, <4>2, <4>3, <4>4, ReleaseSteps DEF InRelease, ReleaseGet
    <3>6. ASSUME NEW m \in Msgs, InRelease(m)', wpod'[m] = p PROVE m = n
      <4>1. CASE InRelease(m) /\ wpod'[m] = wpod[m]
        BY <3>1, <3>6, <4>1
      <4>2. CASE wpc[m] = "relget" /\ p = route[conv[m]]
        BY <1>0, <1>1, <3>1, <3>2, <4>2 DEF OneAtATime
      <4>3. QED
        BY <3>6, <4>1, <4>2, ReleaseEntry
    <3>7. QED
      BY <3>1, <3>3, <3>4, <3>5, <3>6
  <2>2. CASE /\ wpc[n] = "relget" /\ p = route[conv[n]] /\ p \in Pods
             /\ wpc'[n] = "reldel" /\ UNCHANGED <<inst, route>>
    <3>1. conv[n] \in Convs /\ conv'[n] = conv[n] /\ Active(n)
      BY <1>1, <2>2
    <3>2. /\ inst[p] = "active"
          /\ \A m \in Msgs : Holds(m, p) => conv[m] = conv[n]
          /\ \A d \in Convs : route[d] = p => d = conv[n]
      BY <2>2, <3>1 DEF HoldInv, Routed
    <3>3. ASSUME NEW m \in Msgs, Holds(m, p)' PROVE m = n
      <4>1. Holds(m, p)
        BY <2>2, <3>2, <3>3, HoldsOld
      <4>2. QED
        BY <1>0, <3>1, <3>2, <4>1, HolderActive DEF OneAtATime
    <3>4. ASSUME NEW m \in Msgs, InRelease(m)', wpod'[m] = p PROVE m = n
      <4>1. CASE InRelease(m) /\ wpod'[m] = wpod[m]
        <5>1. conv[n] = conv[m]
          <6>1. wpod[m] = p /\ route[conv[n]] = wpod[m]
            BY <2>2, <3>4, <4>1
          <6>2. \A c \in Convs : route[c] = wpod[m] => c = conv[m]
            BY <4>1 DEF HoldInv, Releasing
          <6>3. QED
            BY <3>1, <6>1, <6>2
        <5>2. Active(m)
          BY <1>1, <4>1 DEF InRelease
        <5>3. QED
          BY <1>0, <3>1, <5>1, <5>2 DEF OneAtATime
      <4>2. CASE wpc[m] = "relget" /\ p = route[conv[m]]
        BY <1>0, <1>1, <3>1, <3>2, <4>2 DEF OneAtATime
      <4>3. QED
        BY <3>4, <4>1, <4>2, ReleaseEntry
    <3>5. QED
      BY <2>2, <3>1, <3>2, <3>3, <3>4
  <2>3. QED
    BY <1>2, <2>1, <2>2, ReleaseEntry
<1>3. QED
  BY <1>2 DEF Releasing, InRelease, Holds, Finished

\* A pod is not handed to a second message while the first still works with it, and it
\* keeps its active row that long: for any number of messages, conversations and pods,
\* late timeouts, route expiry, failures and crashes of the gateway included.  Users
\* wait for the conversation to be quiet, routing-table commands succeed, and the pool
\* is served by pods without a row.
LEMMA HoldInvariant ==
  ASSUME Serial, ~RedisFaults, PoolSubscribers \cap Heartbeating = {}
  PROVE  Spec => []HoldInv
<1>1. Init => HoldInv
  BY DispatchAssumption, NoneAssumption
  DEF Init, InstInit, RouteInit, HoldInv, PoolAbsent, HeldIsActive, ClaimExclusive, Holds,
      Routed, Releasing, InRelease
<1>2. TypeInv /\ SerialInv /\ HoldInv /\ [Next]_vars => HoldInv'
  <2> SUFFICES ASSUME TypeInv, SerialInv, HoldInv, [Next]_vars PROVE HoldInv'
    OBVIOUS
  <2>1. PoolAbsent'
    BY StepPoolAbsent
  <2>2. HeldIsActive' /\ ClaimExclusive'
    BY StepHeld
  <2>3. Routed'
    BY StepRouted
  <2>4. Releasing'
    BY StepReleasing
  <2>5. QED
    BY <2>1, <2>2, <2>3, <2>4 DEF HoldInv
<1>3. Spec => [](TypeInv /\ SerialInv)
  BY SerialInvariant
<1>4. QED
  BY <1>1, <1>2, <1>3, PTL DEF Spec

\* A claimed pod serves one message at a time, from ClaimInstance to ReleaseInstance.
THEOREM ClaimsAreExclusive ==
  ASSUME Serial, ~RedisFaults, PoolSubscribers \cap Heartbeating = {}
  PROVE  Spec => []ClaimExclusive
<1>1. Spec => []HoldInv
  BY HoldInvariant
<1>2. QED
  BY <1>1, PTL DEF HoldInv

\* Nobody releases a pod while a message holds it.
THEOREM HeldStaysActive ==
  ASSUME Serial, ~RedisFaults, PoolSubscribers \cap Heartbeating = {}
  PROVE  Spec => []HeldIsActive
<1>1. Spec => []HoldInv
  BY HoldInvariant
<1>2. QED
  BY <1>1, PTL DEF HoldInv

-----------------------------------------------------------------------------
(* Completed tasks *)

\* Only a watcher that takes an agent_end off its channel completes a task.
LEMMA Completes ==
  ASSUME TypeInv, [Next]_vars, NEW m \in Msgs, task'[m] = "completed"
  PROVE  task[m] = "completed" \/ WatchAgentEnd(m)
<1>1. TypeOK
  BY DEF TypeInv
<1>2. QED
  BY <1>1, SMTT(60)
  DEF TypeOK, Next, Dispatch, Watch, Agent, vars, PostMessage, LoadFails,
      CreateTask, ProfileLookupFails, EnsureHit, EnsureMiss, ClaimMiss, ClaimFails,
      EnsureSet, DispatchTask, DispatchFails, Claim, WatchSubscribe, WatchAgentStart,
      WatchUnknownPod, WatchSetRunning, WatchError, WatchAgentEnd, ReleaseGet,
      ReleaseNothing, ReleaseDelete, ReleaseRow, WatchClear, WatchTimeout, BridgeDrop,
      CancelCheck, CancelWrite, Heartbeat, AgentReceive, AgentStart, AgentError,
      AgentEnd, AgentCrash, RouteExpire, GatewayCrash, ClearAndReturn

\* A completed task's watcher is past its loop.
PastLoop ==
    \A m \in Msgs : task[m] = "completed" =>
        wpc[m] \in {"relget", "reldel", "reldb", "clear", "done"}

LEMMA StepPastLoop ==
  ASSUME TypeInv, PastLoop, [Next]_vars
  PROVE  PastLoop'
<1>0. TypeOK /\ Posted
  BY DEF TypeInv
<1>1. ASSUME NEW m \in Msgs, task[m] = "completed"
      PROVE  wpc'[m] \in {"relget", "reldel", "reldb", "clear", "done"}
  <2>1. dpc[m] = "done" /\ wpc[m] \in {"relget", "reldel", "reldb", "clear", "done"}
    BY <1>0, <1>1 DEF PastLoop, Posted
  <2>2. CASE UNCHANGED wpc
    BY <2>1, <2>2
  <2>3. CASE \E n \in Msgs : DispatchTask(n)
    BY <1>0, <2>1, <2>3 DEF TypeOK, DispatchTask
  <2>4. CASE \E n \in Msgs : Watch(n)
    BY <1>0, <2>1, <2>4
    DEF TypeOK, Watch, watchVars, WatchSubscribe, WatchAgentStart, WatchUnknownPod,
        WatchSetRunning, WatchError, WatchAgentEnd, ReleaseGet, ReleaseNothing,
        ReleaseDelete, ReleaseRow, WatchClear, WatchTimeout, ClearAndReturn, Receives
  <2>5. CASE GatewayCrash
    BY <1>0, <2>1, <2>5 DEF TypeOK, GatewayCrash
  <2>6. \/ UNCHANGED wpc
        \/ \E n \in Msgs : DispatchTask(n) \/ Watch(n)
        \/ GatewayCrash
    BY SMTT(60)
    DEF Next, Dispatch, Agent, vars, watchVars, PostMessage, LoadFails, CreateTask,
        ProfileLookupFails, EnsureHit, EnsureMiss, ClaimMiss, ClaimFails, EnsureSet,
        DispatchFails, Claim, BridgeDrop, CancelCheck, CancelWrite, Heartbeat,
        AgentReceive, AgentStart, AgentError, AgentEnd, AgentCrash, RouteExpire
  <2>7. QED
    BY <2>2, <2>3, <2>4, <2>5, <2>6
<1>2. ASSUME NEW m \in Msgs, task'[m] = "completed", task[m] # "completed"
      PROVE  wpc'[m] = "relget"
  BY <1>0, <1>2, Completes DEF TypeOK, WatchAgentEnd
<1>3. QED
  BY <1>1, <1>2 DEF PastLoop

\* The UPDATEs of the tasks table are unconditional, yet none of them finds a completed
\* row, except a cancellation that was checked before.
LEMMA StepCompleted ==
  ASSUME TypeInv, PastLoop, [Next]_vars, NEW m \in Msgs,
         task[m] = "completed", task'[m] # "completed"
  PROVE  cancel[m] = "checked" /\ task'[m] = "cancelled"
<1>1. TypeOK
  BY DEF TypeInv
<1>2. dpc[m] = "done" /\ wpc[m] \notin {"off", "spawned", "loop", "running"}
  BY DEF TypeInv, Posted, PastLoop
<1>3. QED
  BY <1>1, <1>2, SMTT(60)
  DEF TypeOK, Next, Dispatch, Watch, Agent, vars, PostMessage, LoadFails,
      CreateTask, ProfileLookupFails, EnsureHit, EnsureMiss, ClaimMiss, ClaimFails,
      EnsureSet, DispatchTask, DispatchFails, Claim, WatchSubscribe, WatchAgentStart,
      WatchUnknownPod, WatchSetRunning, WatchError, WatchAgentEnd, ReleaseGet,
      ReleaseNothing, ReleaseDelete, ReleaseRow, WatchClear, WatchTimeout, BridgeDrop,
      CancelCheck, CancelWrite, Heartbeat, AgentReceive, AgentStart, AgentError,
      AgentEnd, AgentCrash, RouteExpire, GatewayCrash, ClearAndReturn, Receives

\* Every completed row has a watcher past its loop.
LEMMA PastLoopInvariant == Spec => [](TypeInv /\ PastLoop)
<1>1. Init => TypeInv /\ PastLoop
  BY InitTypeInv DEF Init, PastLoop
<1>2. TypeInv /\ PastLoop /\ [Next]_vars => TypeInv' /\ PastLoop'
  BY StepTypeInv, StepPastLoop
<1>3. QED
  BY <1>1, <1>2, PTL DEF Spec

\* A completed row changes only when a cancellation is written whose check came before
\* the completion, with overlapping messages, any failure and any cancellations.
THEOREM CompletedIsFinal == Spec => CompletedUnlessCancelled
<1>1. TypeInv /\ PastLoop /\ [Next]_vars =>
        [\A m \in Msgs : task[m] = "completed" /\ task'[m] # "completed" =>
            cancel[m] = "checked" /\ task'[m] = "cancelled"]_vars
  BY StepCompleted
<1>2. QED
  BY <1>1, PastLoopInvariant, PTL DEF Spec, CompletedUnlessCancelled

\* An agent of m's conversation has published agent_end.
Answered(m) == \E n \in ended : conv[n] = conv[m]

\* Agents that ended were posted, and an agent_end in a channel or in a task row comes
\* from an agent of the same conversation.
Heard ==
    /\ \A n \in ended : dpc[n] # "idle"
    /\ \A m \in Msgs : \A i \in DOMAIN buf[m] : buf[m][i].type = "end" => Answered(m)
    /\ CompletedAnswered

\* What was answered stays answered.
LEMMA AnsweredStays ==
  ASSUME TypeInv, Heard, [Next]_vars, NEW m \in Msgs, dpc[m] # "idle", Answered(m)
  PROVE  Answered(m)'
<1>1. PICK n \in ended : conv[n] = conv[m]
  BY DEF Answered
<1>2. n \in Msgs /\ dpc[n] # "idle"
  BY DEF TypeInv, TypeOK, Heard
<1>3. conv'[n] = conv[n] /\ conv'[m] = conv[m] /\ n \in ended'
  BY <1>2, DispatchSettles, WatchersStay
<1>4. QED
  BY <1>1, <1>3 DEF Answered

LEMMA StepHeard ==
  ASSUME TypeInv, Booked, PastLoop, Heard, [Next]_vars
  PROVE  Heard'
<1>1. ASSUME NEW n \in ended' PROVE dpc'[n] # "idle"
  <2>1. n \in ended \/ \E p \in Pods : job[p] \in Msgs /\ n = job[p]
    BY EndedWriters
  <2>2. n \in Msgs /\ dpc[n] # "idle"
    BY <2>1 DEF TypeInv, TypeOK, Heard, Booked
  <2>3. QED
    BY <2>2, DispatchSettles
<1>2. ASSUME NEW m \in Msgs, NEW i \in DOMAIN buf'[m], buf'[m][i].type = "end"
      PROVE  Answered(m)'
  <2>1. CASE \E j \in DOMAIN buf[m] : buf[m][j] = buf'[m][i]
    <3>1. Answered(m) /\ buf[m] # << >>
      BY <1>2, <2>1 DEF Heard
    <3>2. dpc[m] # "idle"
      BY <3>1 DEF Booked, TypeInv, Posted
    <3>3. QED
      BY <3>1, <3>2, AnsweredStays
  <2>2. ASSUME NEW p \in Pods, job[p] \in Msgs, conv[m] = conv[job[p]],
               wpc[m] \notin {"off", "spawned", "done"}, job[p] \in ended'
        PROVE  Answered(m)'
    <3>1. dpc[m] # "idle" /\ dpc[job[p]] # "idle"
      BY <2>2 DEF TypeInv, Posted, Booked
    <3>2. conv'[m] = conv[m] /\ conv'[job[p]] = conv[job[p]]
      BY <2>2, <3>1, DispatchSettles
    <3>3. QED
      BY <2>2, <3>2 DEF Answered
  <2>3. QED
    BY <1>2, <2>1, <2>2, EventsOf
<1>3. ASSUME NEW m \in Msgs, task'[m] = "completed" PROVE Answered(m)'
  <2>1. CASE task[m] = "completed"
    <3>1. Answered(m) /\ dpc[m] # "idle"
      BY <2>1 DEF Heard, CompletedAnswered, Answered, PastLoop, TypeInv, Posted
    <3>2. QED
      BY <3>1, AnsweredStays
  <2>2. CASE WatchAgentEnd(m)
    <3>1. /\ buf[m] \in Seq(Events) /\ buf[m] # << >> /\ Head(buf[m]).type = "end"
          /\ wpc[m] = "loop"
      BY <2>2 DEF TypeInv, TypeOK, WatchAgentEnd, Receives
    <3>2. 1 \in DOMAIN buf[m] /\ buf[m][1].type = "end"
      BY <3>1
    <3>3. Answered(m) /\ dpc[m] # "idle"
      BY <3>1, <3>2 DEF Heard, TypeInv, Posted
    <3>4. QED
      BY <3>3, AnsweredStays
  <2>3. QED
    BY <1>3, <2>1, <2>2, Completes
<1>4. QED
  BY <1>1, <1>2, <1>3 DEF Heard, CompletedAnswered, Answered

\* A row is completed only after an agent of its conversation published agent_end,
\* although no watcher can tell whose agent_end it sees, in every regime.
THEOREM CompletedHasAnswer == Spec => []CompletedAnswered
<1>1. Init => Booked /\ Heard
  <2>1. Init => Booked
    BY DispatchAssumption DEF Init, Booked
  <2>2. DOMAIN << >> = {}
    OBVIOUS
  <2>3. Init => Heard
    BY <2>2 DEF Init, Heard, CompletedAnswered
  <2>4. QED
    BY <2>1, <2>3
<1>2. TypeInv /\ PastLoop /\ Booked /\ Heard /\ [Next]_vars => Booked' /\ Heard'
  BY StepBooked, StepHeard
<1>3. Spec => [](Booked /\ Heard)
  BY <1>1, <1>2, PastLoopInvariant, PTL DEF Spec
<1>4. QED
  BY <1>3, PTL DEF Heard

-----------------------------------------------------------------------------
(* Claiming and releasing implement PodLease. *)

\* Only a claim, an upsert and a release change a row.
LEMMA RowChanges ==
  ASSUME [Next]_vars, inst' # inst
  PROVE  \/ \E m \in Msgs, p \in Pods : Claim(m, p)
         \/ \E m \in Msgs, p \in Pods : ClaimFails(m) /\ ClaimRow(p)
         \/ \E p \in Pods : Heartbeat(p)
         \/ \E m \in Msgs : ReleaseRow(m) /\ ReleaseInstance(wpod[m])
  BY SMTT(60) DEF Next, Dispatch, Watch, Agent, vars, PostMessage, LoadFails, CreateTask,
      ProfileLookupFails, EnsureHit, EnsureMiss, ClaimMiss, ClaimFails, EnsureSet,
      DispatchTask, DispatchFails, WatchSubscribe, WatchAgentStart,
      WatchUnknownPod, WatchSetRunning, WatchError, WatchAgentEnd, ReleaseGet,
      ReleaseNothing, ReleaseDelete, ReleaseRow, WatchClear, WatchTimeout, BridgeDrop,
      CancelCheck, CancelWrite, AgentReceive, AgentStart, AgentError,
      AgentEnd, AgentCrash, RouteExpire, GatewayCrash, ClearAndReturn

\* A step that leaves the rows alone makes no new holder: it lets go, or nothing happens.
LEMMA LetsGo ==
  ASSUME TypeInv, [Next]_vars, UNCHANGED inst
  PROVE  Leases!LetGo
<1>1. ASSUME NEW m \in Msgs, NEW p \in Pods PROVE ~Claim(m, p)
  BY DEF TypeInv, TypeOK, Claim, ClaimRow
<1>2. \A m \in Msgs, p \in Pods : Holds(m, p)' => Holds(m, p)
  BY <1>1, HoldsShrinks
<1>3. Holders' \in [Pods -> SUBSET Msgs]
  BY DEF Holders
<1>4. \A p \in Pods : Holders'[p] \subseteq Holders[p]
  BY <1>2 DEF Holders
<1>5. QED
  BY <1>3, <1>4 DEF Leases!LetGo

\* ClaimInstance leases a warm pod: nobody holds it, and its message holds no other.
LEMMA ClaimLeases ==
  ASSUME TypeInv, Booked, HeldIsActive, NEW m \in Msgs, NEW p \in Pods, Claim(m, p)
  PROVE  Leases!Lease(m, p)
<1>1. TypeOK /\ Posted
  BY DEF TypeInv
<1>2. inst[p] = "warm" /\ inst' = [inst EXCEPT ![p] = "active"]
  BY DEF Claim, ClaimRow
<1>3. claim[m] = "skipped" /\ wpc[m] = "off"
  BY <1>1 DEF Booked, Claim, Posted, TypeOK
<1>4. \A n \in Msgs : ~Holds(n, p)
  BY <1>2 DEF HeldIsActive
<1>5. \A q \in Pods : ~Holds(m, q)
  BY <1>3 DEF Holds
<1>6. ASSUME NEW n \in Msgs, NEW q \in Pods
      PROVE  Holds(n, q)' <=> Holds(n, q) \/ (n = m /\ q = p)
  BY <1>1, <1>3, <1>5 DEF TypeOK, Claim, Holds, Finished, watchVars
<1>7. ASSUME NEW q \in Pods
      PROVE  {n \in Msgs : Holds(n, q)'} =
               IF q = p THEN {m} ELSE {n \in Msgs : Holds(n, q)}
  BY <1>4, <1>6
<1>8. Holders' = [Holders EXCEPT ![p] = {m}]
  BY <1>7 DEF Holders
<1>9. Holders[p] = {} /\ \A q \in Pods : m \notin Holders[q]
  BY <1>4, <1>5 DEF Holders
<1>10. QED
  BY <1>2, <1>8, <1>9 DEF Leases!Lease

\* A claim that commits although its caller gets an error leases a pod to nobody.
LEMMA LostClaimLeases ==
  ASSUME TypeInv, Booked, NEW m \in Msgs, NEW p \in Pods, ClaimFails(m), ClaimRow(p)
  PROVE  Leases!LeaseLost(p)
<1>1. TypeOK
  BY DEF TypeInv
<1>2. claim[m] = "skipped"
  BY DEF Booked, ClaimFails
<1>3. ASSUME NEW n \in Msgs, NEW q \in Pods PROVE Holds(n, q)' <=> Holds(n, q)
  BY <1>1, <1>2 DEF TypeOK, ClaimFails, Holds, Finished, watchVars
<1>4. Holders' = Holders
  BY <1>3 DEF Holders
<1>5. QED
  BY <1>4 DEF Leases!LeaseLost, ClaimRow

\* A heartbeat inserts a row or leaves it as it is.
LEMMA HeartbeatJoins ==
  ASSUME TypeInv, NEW p \in Pods, Heartbeat(p), inst' # inst
  PROVE  Leases!Join(p)
<1>1. TypeOK
  BY DEF TypeInv
<1>2. inst[p] = "absent" /\ inst' = [inst EXCEPT ![p] = "warm"]
  BY <1>1 DEF TypeOK, Heartbeat, UpsertInstanceByPodName, InstStates
<1>3. Holders' = Holders
  BY DEF Holders, Holds, Finished, Heartbeat, dispVars, watchVars
<1>4. QED
  BY <1>2, <1>3 DEF Leases!Join

\* ReleaseInstance gives an active pod back that at most the releasing message holds.
LEMMA ReleaseGivesBack ==
  ASSUME TypeInv, Releasing, NEW m \in Msgs, ReleaseRow(m), ReleaseInstance(wpod[m])
  PROVE  wpod[m] \in Pods /\ Leases!GiveBack(m, wpod[m])
<1>1. TypeOK
  BY DEF TypeInv
<1>2. wpc[m] = "reldb" /\ wpc' = [wpc EXCEPT ![m] = "clear"]
  BY DEF ReleaseRow
<1>3. /\ wpod[m] \in Pods /\ inst[wpod[m]] = "active"
      /\ \A n \in Msgs : Holds(n, wpod[m]) => n = m
  BY <1>2 DEF Releasing, InRelease
<1>4. ASSUME NEW n \in Msgs, NEW q \in Pods
      PROVE  Holds(n, q)' <=> Holds(n, q) /\ n # m
  BY <1>1, <1>2 DEF TypeOK, ReleaseRow, Holds, Finished, dispVars
<1>5. Holders' = [q \in Pods |-> Holders[q] \ {m}]
  BY <1>4 DEF Holders
<1>6. Holders[wpod[m]] \subseteq {m}
  BY <1>3 DEF Holders
<1>7. QED
  BY <1>3, <1>5, <1>6 DEF Leases!GiveBack, ReleaseInstance

\* Every step is a step of PodLease, or none.
LEMMA StepLeases ==
  TypeInv /\ SerialInv /\ HoldInv /\ [Next]_vars => [Leases!Next]_<<inst, Holders>>
<1> SUFFICES ASSUME TypeInv, SerialInv, HoldInv, [Next]_vars
             PROVE  Leases!Next
  OBVIOUS
<1>1. Booked /\ HeldIsActive /\ Releasing
  BY DEF SerialInv, HoldInv
<1>2. CASE UNCHANGED inst
  BY <1>2, LetsGo DEF Leases!Next
<1>3. ASSUME NEW m \in Msgs, NEW p \in Pods, Claim(m, p) PROVE Leases!Next
  BY <1>1, <1>3, ClaimLeases DEF Leases!Next
<1>4. ASSUME NEW m \in Msgs, NEW p \in Pods, ClaimFails(m) /\ ClaimRow(p)
      PROVE  Leases!Next
  BY <1>1, <1>4, LostClaimLeases DEF Leases!Next
<1>5. ASSUME NEW p \in Pods, Heartbeat(p), inst' # inst PROVE Leases!Next
  BY <1>5, HeartbeatJoins DEF Leases!Next
<1>6. ASSUME NEW m \in Msgs, ReleaseRow(m) /\ ReleaseInstance(wpod[m]) PROVE Leases!Next
  BY <1>1, <1>6, ReleaseGivesBack DEF Leases!Next
<1>7. QED
  BY <1>2, <1>3, <1>4, <1>5, <1>6, RowChanges

\* Dispatch, watchers, heartbeats, timeouts, crashes and failures together implement
\* PodLease, for any number of pods, conversations and messages: with users who wait, a
\* routing table that answers, and a pool served by pods without a row.
THEOREM LeasesKept ==
  ASSUME Serial, ~RedisFaults, PoolSubscribers \cap Heartbeating = {}
  PROVE  Spec => KeepsLeases
<1>1. Init => Leases!Init
  BY DEF Init, InstInit, Leases!Init, Holders, Holds
<1>2. Spec => [](TypeInv /\ SerialInv)
  BY SerialInvariant
<1>3. Spec => []HoldInv
  BY HoldInvariant
<1>4. QED
  BY <1>1, <1>2, <1>3, StepLeases, PTL DEF Spec, KeepsLeases, Leases!Spec
=============================================================================
