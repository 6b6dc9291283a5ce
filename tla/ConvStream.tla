----------------------------- MODULE ConvStream -----------------------------
(***************************************************************************)
(* The transcript of one conversation.  A posted message is saved, the      *)
(* history is loaded and sent to an agent, and the agent streams its answer *)
(* in deltas.  Every message's watchConvStream goroutine and every          *)
(* WebSocket client has a channel of its own on that one stream; the        *)
(* watchers put the deltas together and save the answer.  Nothing makes a   *)
(* user wait: messages, agents and watchers of the conversation overlap.    *)
(*                                                                          *)
(* Claims, routes and task rows are in ConvDispatch; here every task that   *)
(* is published reaches an agent.  Agents and users are external.           *)
(***************************************************************************)
EXTENDS Naturals, Sequences, FiniteSets

CONSTANTS
    Msgs,           \* messages that users post, numbered in the order of posting
    Clients,        \* WebSocket connections
    Roles,          \* roles that clients give to the messages they post
    ChanCap,        \* capacity of a bridge's channel (512)
    HistoryLimit,   \* LIMIT of the history query (500)
    MaxDeltas,      \* bound: deltas of one answer
    TotalDeltas,    \* bound: deltas of all answers
    FaultBudget     \* bound: statements that fail in one behaviour

ASSUME StreamAssumption ==
    /\ Msgs \subseteq Nat
    /\ {ChanCap, HistoryLimit, MaxDeltas} \subseteq Nat \ {0}
    /\ {TotalDeltas, FaultBudget} \subseteq Nat

VARIABLES
    rows,       \* the conversation's rows of the messages table, by created_at
    dpc,        \* dpc[m]: where m's handlePostMessage / dispatchToAgent is
    hist,       \* hist[m]: the history sent to m's agent
    wpc,        \* wpc[m]: where m's watcher is
    buf,        \* buf[m]: events in its channel
    content,    \* content[m]: deltas it has put together
    intact,     \* m's watcher lost nothing of its message's answer (history)
    agent,      \* agent[m]: the agent that answers m (external)
    sent,       \* sent[m]: deltas it has published
    cpc,        \* cpc[c]: where client c's handleConvStream is
    cbuf,       \* cbuf[c]: events in its channel, of which only agent_end matters
    missed,     \* clients whose full channel dropped an agent_end (history)
    budget      \* failures left to inject

dispVars == <<dpc, hist>>
watchVars == <<wpc, buf, content, intact>>
agentVars == <<agent, sent>>
clientVars == <<cpc, cbuf, missed>>
vars == <<rows, dispVars, watchVars, agentVars, clientVars, budget>>

\* A piece of text: a message's question is its piece 0, its answer's deltas follow.
Pieces == [msg : Msgs, n : 0..MaxDeltas]

\* A row, with the message whose handler or watcher inserted it (history).
Rows == [role : Roles \cup {"assistant"}, author : {"user", "agent"}, by : Msgs,
         text : Seq(Pieces)]
Event(type, m, n) == [type |-> type, piece |-> [msg |-> m, n |-> n]]
Events == [type : {"agent_start", "delta", "turn_end", "agent_end"}, piece : Pieces]
ClientEvents == {"agent_end", "other"}

TypeOK ==
    /\ rows \in Seq(Rows)
    /\ dpc \in [Msgs -> {"idle", "load", "publish", "done"}]
    /\ hist \in [Msgs -> Seq(Rows)]
    /\ wpc \in [Msgs -> {"off", "spawned", "loop", "done"}]
    /\ buf \in [Msgs -> Seq(Events)]
    /\ \A m \in Msgs : Len(buf[m]) <= ChanCap
    /\ content \in [Msgs -> Seq(Pieces)]
    /\ intact \in [Msgs -> BOOLEAN]
    /\ agent \in [Msgs -> {"none", "ready", "running", "talking", "ended"}]
    /\ sent \in [Msgs -> 0..MaxDeltas]
    /\ cpc \in [Clients -> {"off", "open", "closed"}]
    /\ cbuf \in [Clients -> Seq(ClientEvents)]
    /\ \A c \in Clients : Len(cbuf[c]) <= ChanCap
    /\ missed \subseteq Clients
    /\ budget \in 0..FaultBudget

Init ==
    /\ rows = << >>
    /\ dpc = [m \in Msgs |-> "idle"]
    /\ hist = [m \in Msgs |-> << >>]
    /\ wpc = [m \in Msgs |-> "off"]
    /\ buf = [m \in Msgs |-> << >>]
    /\ content = [m \in Msgs |-> << >>]
    /\ intact = [m \in Msgs |-> FALSE]
    /\ agent = [m \in Msgs |-> "none"]
    /\ sent = [m \in Msgs |-> 0]
    /\ cpc = [c \in Clients |-> "off"]
    /\ cbuf = [c \in Clients |-> << >>]
    /\ missed = {}
    /\ budget = FaultBudget

Fault == budget > 0 /\ budget' = budget - 1

-----------------------------------------------------------------------------
(* The messages table *)

AddMessage(role, author, m, text) ==
    rows' = Append(rows, [role |-> role, author |-> author, by |-> m, text |-> text])

\* ORDER BY created_at ASC LIMIT $2: the oldest rows.
ListMessages(limit) ==
    SubSeq(rows, 1, IF Len(rows) <= limit THEN Len(rows) ELSE limit)

-----------------------------------------------------------------------------
(* handlePostMessage and dispatchToAgent *)

Posted(m) == dpc[m] # "idle"

\* Mutant of PostMessage: the message is dispatched and never saved.
PostForgetsRow(m) ==
    /\ ~Posted(m) /\ \A k \in Msgs : k < m => Posted(k)
    /\ dpc' = [dpc EXCEPT ![m] = "load"]
    /\ UNCHANGED <<rows, hist, watchVars, agentVars, clientVars, budget>>

\* handlePostMessage: save the message in the role the client names, start the dispatch
\* goroutine.
PostMessage(m) ==
    /\ ~Posted(m) /\ \A k \in Msgs : k < m => Posted(k)
    /\ \E role \in Roles : AddMessage(role, "user", m, <<[msg |-> m, n |-> 0]>>)
    /\ dpc' = [dpc EXCEPT ![m] = "load"]
    /\ UNCHANGED <<hist, watchVars, agentVars, clientVars, budget>>

\* dispatchToAgent loads the history; what it loads goes into the task.
LoadHistory(m) ==
    /\ dpc[m] = "load"
    /\ hist' = [hist EXCEPT ![m] = ListMessages(HistoryLimit)]
    /\ dpc' = [dpc EXCEPT ![m] = "publish"]
    /\ UNCHANGED <<rows, watchVars, agentVars, clientVars, budget>>

\* ListMessages fails: nothing is dispatched.
LoadFails(m) ==
    /\ dpc[m] = "load"
    /\ Fault
    /\ dpc' = [dpc EXCEPT ![m] = "done"]
    /\ UNCHANGED <<rows, hist, watchVars, agentVars, clientVars>>

\* dispatchTask: publish the task, then start the watcher.
DispatchTask(m) ==
    /\ dpc[m] = "publish"
    /\ dpc' = [dpc EXCEPT ![m] = "done"]
    /\ agent' = [agent EXCEPT ![m] = "ready"]
    /\ wpc' = [wpc EXCEPT ![m] = "spawned"]
    /\ hist' = [hist EXCEPT ![m] = << >>]
    /\ UNCHANGED <<rows, buf, content, intact, sent, clientVars, budget>>

-----------------------------------------------------------------------------
(* The agent (external) and the bridges of its conversation's stream *)

\* The answer m's agent has streamed so far.
Answer(m) == {[msg |-> m, n |-> n] : n \in 1..sent[m]}

\* Subscribe's callback: put the event into the channel, or drop it.
Offer(ch, e) == IF Len(ch) < ChanCap THEN Append(ch, e) ELSE ch

\* What a client's handler tells apart.
Seen(e) == IF e.type = "agent_end" THEN "agent_end" ELSE "other"

Publish(e) ==
    /\ buf' = [m \in Msgs |-> IF wpc[m] = "loop" THEN Offer(buf[m], e) ELSE buf[m]]
    /\ intact' = [m \in Msgs |-> intact[m] /\ (wpc[m] = "loop" => Len(buf[m]) < ChanCap)]
    /\ cbuf' = [c \in Clients |-> IF cpc[c] = "open" THEN Offer(cbuf[c], Seen(e)) ELSE cbuf[c]]
    /\ missed' = missed \cup {c \in Clients : /\ cpc[c] = "open" /\ Seen(e) = "agent_end"
                                             /\ Len(cbuf[c]) >= ChanCap}
    /\ UNCHANGED <<rows, dispVars, wpc, content, cpc, budget>>

AgentStart(m) ==
    /\ agent[m] = "ready"
    /\ agent' = [agent EXCEPT ![m] = "running"]
    /\ Publish(Event("agent_start", m, 0))
    /\ UNCHANGED sent

AgentDelta(m) ==
    /\ agent[m] \in {"running", "talking"}
    /\ sent[m] < MaxDeltas /\ Cardinality(UNION {Answer(k) : k \in Msgs}) < TotalDeltas
    /\ agent' = [agent EXCEPT ![m] = "talking"]
    /\ sent' = [sent EXCEPT ![m] = @ + 1]
    /\ Publish(Event("delta", m, sent[m] + 1))

AgentTurnEnd(m) ==
    /\ agent[m] = "talking"
    /\ agent' = [agent EXCEPT ![m] = "running"]
    /\ Publish(Event("turn_end", m, 0))
    /\ UNCHANGED sent

\* agent_end, possibly in the middle of a turn (after a fatal error).
AgentEnd(m) ==
    /\ agent[m] \in {"running", "talking"}
    /\ agent' = [agent EXCEPT ![m] = "ended"]
    /\ Publish(Event("agent_end", m, 0))
    /\ UNCHANGED sent

-----------------------------------------------------------------------------
(* watchConvStream *)

\* Subscribe: events published before are gone.
WatchSubscribe(m) ==
    /\ wpc[m] = "spawned"
    /\ \/ /\ wpc' = [wpc EXCEPT ![m] = "loop"]
          /\ intact' = [intact EXCEPT ![m] = agent[m] = "ready"]
          /\ UNCHANGED budget
       \/ /\ Fault
          /\ wpc' = [wpc EXCEPT ![m] = "done"]
          /\ UNCHANGED intact
    /\ UNCHANGED <<rows, dispVars, buf, content, agentVars, clientVars>>

\* The select loop of m takes an event of this type from its channel.
Receives(m, type) ==
    /\ wpc[m] = "loop"
    /\ buf[m] # << >>
    /\ Head(buf[m]).type = type

\* Mutant of persistAssistantMessage: the author type is stored as the role.
PersistAuthorType(m, keeps) ==
    /\ IF content[m] = << >>
       THEN UNCHANGED rows
       ELSE AddMessage("agent", "agent", m, content[m])
    /\ UNCHANGED <<intact, budget>>

\* Save what was put together, if anything; an error is only logged.  With keeps, m's
\* watcher loses nothing else in this step.
persistAssistantMessage(m, keeps) ==
    IF content[m] = << >>
    THEN intact' = [intact EXCEPT ![m] = @ /\ keeps] /\ UNCHANGED <<rows, budget>>
    ELSE \/ /\ AddMessage("assistant", "agent", m, content[m])
            /\ intact' = [intact EXCEPT ![m] = @ /\ keeps]
            /\ UNCHANGED budget
         \/ Fault /\ intact' = [intact EXCEPT ![m] = FALSE] /\ UNCHANGED rows

\* The text put together holds a piece of the answer to m itself.
HasOwnText(m) == \E j \in DOMAIN content[m] : content[m][j].msg = m

\* agent_start, of whichever agent: forget what was put together so far.
WatchAgentStart(m) ==
    /\ Receives(m, "agent_start")
    /\ buf' = [buf EXCEPT ![m] = Tail(@)]
    /\ content' = [content EXCEPT ![m] = << >>]
    /\ intact' = [intact EXCEPT ![m] = @ /\ ~HasOwnText(m)]
    /\ UNCHANGED <<rows, dispVars, wpc, agentVars, clientVars, budget>>

\* delta: one more piece of the text.
WatchDelta(m) ==
    /\ Receives(m, "delta")
    /\ buf' = [buf EXCEPT ![m] = Tail(@)]
    /\ content' = [content EXCEPT ![m] = Append(@, Head(buf[m]).piece)]
    /\ UNCHANGED <<rows, dispVars, wpc, intact, agentVars, clientVars, budget>>

\* Mutant of WatchTurnEnd: the builder is not reset.
TurnEndKeeps(m) ==
    /\ Receives(m, "turn_end")
    /\ buf' = [buf EXCEPT ![m] = Tail(@)]
    /\ persistAssistantMessage(m, TRUE)
    /\ UNCHANGED <<dispVars, wpc, content, agentVars, clientVars>>

WatchTurnEnd(m) ==
    /\ Receives(m, "turn_end")
    /\ buf' = [buf EXCEPT ![m] = Tail(@)]
    /\ persistAssistantMessage(m, TRUE)
    /\ content' = [content EXCEPT ![m] = << >>]
    /\ UNCHANGED <<dispVars, wpc, agentVars, clientVars>>

\* Mutant of WatchAgentEnd: returns without saving the rest.
EndDiscardsRest(m) ==
    /\ Receives(m, "agent_end")
    /\ wpc' = [wpc EXCEPT ![m] = "done"]
    /\ buf' = [buf EXCEPT ![m] = << >>]
    /\ content' = [content EXCEPT ![m] = << >>]
    /\ intact' = [intact EXCEPT ![m] = @ /\ Head(buf[m]).piece.msg = m]
    /\ UNCHANGED <<rows, dispVars, agentVars, clientVars, budget>>

\* agent_end, of whichever agent: save the rest and return; the bridge is closed.
WatchAgentEnd(m) ==
    /\ Receives(m, "agent_end")
    /\ persistAssistantMessage(m, Head(buf[m]).piece.msg = m)
    /\ wpc' = [wpc EXCEPT ![m] = "done"]
    /\ buf' = [buf EXCEPT ![m] = << >>]
    /\ content' = [content EXCEPT ![m] = << >>]
    /\ UNCHANGED <<dispVars, agentVars, clientVars>>

\* The 30 minute safety valve: return, and lose what was put together.
WatchTimeout(m) ==
    /\ wpc[m] = "loop"
    /\ wpc' = [wpc EXCEPT ![m] = "done"]
    /\ buf' = [buf EXCEPT ![m] = << >>]
    /\ content' = [content EXCEPT ![m] = << >>]
    /\ intact' = [intact EXCEPT ![m] = FALSE]
    /\ UNCHANGED <<rows, dispVars, agentVars, clientVars, budget>>

-----------------------------------------------------------------------------
(* handleConvStream *)

\* The client connects; its bridge sees what is published from now on.  If Subscribe
\* fails the client gets an error and the handler returns.
Connect(c) ==
    /\ cpc[c] = "off"
    /\ \/ cpc' = [cpc EXCEPT ![c] = "open"] /\ UNCHANGED budget
       \/ cpc' = [cpc EXCEPT ![c] = "closed"] /\ Fault
    /\ UNCHANGED <<rows, dispVars, watchVars, agentVars, cbuf, missed>>

\* Mutant of Forward: agent_end is passed on like any other event.
ForwardAll(c) ==
    /\ cpc[c] = "open"
    /\ cbuf[c] # << >>
    /\ cbuf' = [cbuf EXCEPT ![c] = Tail(@)]
    /\ UNCHANGED <<rows, dispVars, watchVars, agentVars, cpc, missed, budget>>

\* Pass an event on to the client; after agent_end the connection is closed.
Forward(c) ==
    /\ cpc[c] = "open"
    /\ cbuf[c] # << >>
    /\ IF Head(cbuf[c]) = "agent_end"
       THEN /\ cpc' = [cpc EXCEPT ![c] = "closed"]
            /\ cbuf' = [cbuf EXCEPT ![c] = << >>]
       ELSE /\ cbuf' = [cbuf EXCEPT ![c] = Tail(@)]
            /\ UNCHANGED cpc
    /\ UNCHANGED <<rows, dispVars, watchVars, agentVars, missed, budget>>

\* The client hangs up: a read or a write fails, or the request's context ends.
Disconnect(c) ==
    /\ cpc[c] = "open"
    /\ cpc' = [cpc EXCEPT ![c] = "closed"]
    /\ cbuf' = [cbuf EXCEPT ![c] = << >>]
    /\ UNCHANGED <<rows, dispVars, watchVars, agentVars, missed, budget>>

-----------------------------------------------------------------------------
Dispatch(m) == LoadHistory(m) \/ LoadFails(m) \/ DispatchTask(m)

Agent(m) == AgentStart(m) \/ AgentDelta(m) \/ AgentTurnEnd(m) \/ AgentEnd(m)

Watch(m) ==
    \/ WatchSubscribe(m)
    \/ WatchAgentStart(m)
    \/ WatchDelta(m)
    \/ WatchTurnEnd(m)
    \/ WatchAgentEnd(m)
    \/ WatchTimeout(m)

Next ==
    \/ \E m \in Msgs : PostMessage(m)
    \/ \E m \in Msgs : Dispatch(m)
    \/ \E m \in Msgs : Agent(m)
    \/ \E m \in Msgs : Watch(m)
    \/ \E c \in Clients : Connect(c)
    \/ \E c \in Clients : Forward(c)
    \/ \E c \in Clients : Disconnect(c)

Spec == Init /\ [][Next]_vars

(* Fairness: agents work until agent_end, and a connected client reads.  Users need not *)
(* post or connect; dispatches and watchers may hang.                                   *)
Fairness ==
    /\ \A m \in Msgs : WF_vars(Agent(m))
    /\ \A c \in Clients : WF_vars(Forward(c))

FairSpec == Spec /\ Fairness

-----------------------------------------------------------------------------
(* Properties *)

\* The pieces of text in a sequence of rows.
TextOf(rs) == UNION {{rs[i].text[j] : j \in DOMAIN rs[i].text} : i \in DOMAIN rs}

Log == INSTANCE Transcript WITH log <- rows

\* The messages table keeps the promise of Transcript, however messages, agents and
\* watchers of the conversation overlap: timeouts, dropped events, failed INSERTs, a
\* late subscription or another agent's agent_start never change a row, ask twice, or
\* make a watcher save a delta twice or after a later one of the same answer (turn_end
\* and agent_end both save; ws.go, watchConvStream).
KeepsTranscript == Log!Spec

\* When a watcher returns that subscribed in time, met no full channel, no failed INSERT,
\* no timeout and no agent_start or agent_end of another agent in the middle of its
\* message's answer, that whole answer is in the table.
AnswerSaved ==
    \A m \in Msgs : wpc[m] = "done" /\ intact[m] => Answer(m) \subseteq TextOf(rows)

\* The history that is sent to a message's agent holds the message itself, whatever other
\* handlers and watchers insert between its INSERT and the query, unless the query's
\* limit was reached (conversations.go:180 takes the oldest rows).
QuestionSent ==
    \A m \in Msgs : hist[m] # << >> /\ Len(hist[m]) < HistoryLimit =>
        [msg |-> m, n |-> 0] \in TextOf(hist[m])

\* An agent is, or will be, at work.
Working == \E m \in Msgs : agent[m] \in {"ready", "running", "talking"}

\* ws.go: "Close cleanly once the agent signals it's done."  A client that is
\* connected while an agent works is eventually closed, unless an agent_end found its
\* channel full and was dropped.
ClientCloses ==
    \A c \in Clients : cpc[c] = "open" /\ Working ~> cpc[c] = "closed" \/ c \in missed
=============================================================================
