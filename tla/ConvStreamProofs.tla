-------------------------- MODULE ConvStreamProofs --------------------------
(***************************************************************************)
(* Proofs about ConvStream for any number of messages and clients, any      *)
(* channel capacity and any failures.                                       *)
(***************************************************************************)
EXTENDS ConvStream, SequenceTheorems, TLAPS

-----------------------------------------------------------------------------
(* Types *)

\* A failure uses up one unit of the budget.
LEMMA FaultType ==
  ASSUME budget \in 0..FaultBudget, Fault
  PROVE  budget' \in 0..FaultBudget
  BY StreamAssumption DEF Fault

\* Subscribe's callback keeps a channel within its capacity.
LEMMA OfferType ==
  ASSUME NEW ch \in Seq(Events), NEW e \in Events, Len(ch) <= ChanCap
  PROVE  Offer(ch, e) \in Seq(Events) /\ Len(Offer(ch, e)) <= ChanCap
<1>1. ChanCap \in Nat
  BY StreamAssumption
<1>2. CASE Len(ch) < ChanCap
  <2>1. Append(ch, e) \in Seq(Events) /\ Len(Append(ch, e)) = Len(ch) + 1
    OBVIOUS
  <2>2. QED
    BY <1>1, <1>2, <2>1 DEF Offer
<1>3. CASE ~(Len(ch) < ChanCap)
  BY <1>3 DEF Offer
<1>4. QED
  BY <1>2, <1>3

\* The events that agents publish are events.
LEMMA EventType ==
  ASSUME NEW m \in Msgs, NEW n \in 0..MaxDeltas,
         NEW type \in {"agent_start", "delta", "turn_end", "agent_end"}
  PROVE  Event(type, m, n) \in Events
  BY DEF Event, Events, Pieces

\* So does the callback of a client's bridge.
LEMMA ClientOfferType ==
  ASSUME NEW ch \in Seq(ClientEvents), NEW e \in ClientEvents, Len(ch) <= ChanCap
  PROVE  Offer(ch, e) \in Seq(ClientEvents) /\ Len(Offer(ch, e)) <= ChanCap
<1>1. ChanCap \in Nat
  BY StreamAssumption
<1>2. Append(ch, e) \in Seq(ClientEvents) /\ Len(Append(ch, e)) = Len(ch) + 1
  OBVIOUS
<1>3. QED
  BY <1>1, <1>2 DEF Offer

\* Publishing keeps the types of all it touches.
LEMMA PublishType ==
  ASSUME TypeOK, NEW e \in Events, Publish(e)
  PROVE  /\ buf' \in [Msgs -> Seq(Events)]
         /\ \A m \in Msgs : Len(buf'[m]) <= ChanCap
         /\ intact' \in [Msgs -> BOOLEAN]
         /\ cbuf' \in [Clients -> Seq(ClientEvents)]
         /\ \A c \in Clients : Len(cbuf'[c]) <= ChanCap
         /\ missed' \subseteq Clients
<1>1. \A m \in Msgs : /\ Offer(buf[m], e) \in Seq(Events)
                      /\ Len(Offer(buf[m], e)) <= ChanCap
  BY OfferType DEF TypeOK
<1>2. \A c \in Clients : /\ Offer(cbuf[c], Seen(e)) \in Seq(ClientEvents)
                         /\ Len(Offer(cbuf[c], Seen(e))) <= ChanCap
  <2>1. Seen(e) \in ClientEvents
    BY DEF Seen, ClientEvents
  <2>2. QED
    BY <2>1, ClientOfferType DEF TypeOK
<1>3. /\ buf' \in [Msgs -> Seq(Events)]
      /\ \A m \in Msgs : Len(buf'[m]) <= ChanCap
  BY <1>1 DEF TypeOK, Publish
<1>4. /\ cbuf' \in [Clients -> Seq(ClientEvents)]
      /\ \A c \in Clients : Len(cbuf'[c]) <= ChanCap
      /\ missed' \subseteq Clients
  BY <1>2 DEF TypeOK, Publish
<1>5. intact' \in [Msgs -> BOOLEAN]
  BY Zenon DEF TypeOK, Publish
<1>6. QED
  BY <1>3, <1>4, <1>5

\* What a receiving watcher finds at the head of its channel, and what it leaves.
LEMMA ReceiveType ==
  ASSUME TypeOK, NEW m \in Msgs, NEW type, Receives(m, type)
  PROVE  /\ Head(buf[m]) \in Events
         /\ Head(buf[m]).piece \in Pieces
         /\ Tail(buf[m]) \in Seq(Events)
         /\ Len(Tail(buf[m])) <= ChanCap
<1>1. buf[m] \in Seq(Events) /\ buf[m] # << >> /\ Len(buf[m]) <= ChanCap /\ ChanCap \in Nat
  BY StreamAssumption DEF TypeOK, Receives
<1>2. /\ Head(buf[m]) \in Events /\ Tail(buf[m]) \in Seq(Events)
      /\ Len(Tail(buf[m])) = Len(buf[m]) - 1
  BY <1>1
<1>3. QED
  BY <1>1, <1>2 DEF Events

\* Saving a row keeps the table's type.
LEMMA AddMessageType ==
  ASSUME TypeOK, NEW role \in Roles \cup {"assistant"}, NEW author \in {"user", "agent"},
         NEW w \in Msgs, NEW text \in Seq(Pieces), AddMessage(role, author, w, text)
  PROVE  rows' \in Seq(Rows)
<1>1. [role |-> role, author |-> author, by |-> w, text |-> text] \in Rows
  BY DEF Rows
<1>2. QED
  BY <1>1 DEF TypeOK, AddMessage

\* persistAssistantMessage keeps the types of what it writes.
LEMMA PersistType ==
  ASSUME TypeOK, NEW m \in Msgs, NEW keeps \in BOOLEAN, persistAssistantMessage(m, keeps)
  PROVE  rows' \in Seq(Rows) /\ intact' \in [Msgs -> BOOLEAN] /\ budget' \in 0..FaultBudget
<1>1. content[m] \in Seq(Pieces) /\ budget \in 0..FaultBudget
  BY DEF TypeOK
<1>2. intact' \in [Msgs -> BOOLEAN]
  BY Zenon DEF TypeOK, persistAssistantMessage
<1>3. CASE UNCHANGED <<rows, budget>>
  BY <1>2, <1>3 DEF TypeOK
<1>4. CASE AddMessage("assistant", "agent", m, content[m]) /\ UNCHANGED budget
  <2>1. rows' \in Seq(Rows)
    BY <1>1, <1>4, AddMessageType
  <2>2. QED
    BY <1>2, <1>4, <2>1 DEF TypeOK
<1>5. CASE Fault /\ UNCHANGED rows
  <2>1. budget' \in 0..FaultBudget
    BY <1>1, <1>5, FaultType
  <2>2. QED
    BY <1>2, <1>5, <2>1 DEF TypeOK
<1>6. QED
  BY <1>3, <1>4, <1>5 DEF persistAssistantMessage

\* The history query returns rows of the table.
LEMMA ListMessagesType ==
  ASSUME TypeOK, NEW limit \in Nat
  PROVE  ListMessages(limit) \in Seq(Rows)
<1>1. rows \in Seq(Rows) /\ Len(rows) \in Nat
  BY DEF TypeOK
<1>2. \A k \in 0..Len(rows) : SubSeq(rows, 1, k) \in Seq(Rows)
  BY <1>1
<1>3. QED
  BY <1>1, <1>2 DEF ListMessages

\* The initial state is well typed.
LEMMA InitType == Init => TypeOK
  BY StreamAssumption DEF Init, TypeOK

\* Every step keeps the types: one case per action.
LEMMA StepType == TypeOK /\ [Next]_vars => TypeOK'
<1> SUFFICES ASSUME TypeOK, [Next]_vars PROVE TypeOK'
  OBVIOUS
<1>1. ASSUME NEW m \in Msgs, PostMessage(m) PROVE TypeOK'
  <2>1. <<[msg |-> m, n |-> 0]>> \in Seq(Pieces)
    BY StreamAssumption DEF Pieces
  <2>2. rows' \in Seq(Rows)
    <3>1. PICK role \in Roles : AddMessage(role, "user", m, <<[msg |-> m, n |-> 0]>>)
      BY <1>1 DEF PostMessage
    <3>2. QED
      BY <2>1, <3>1, AddMessageType
  <2>3. QED
    BY <1>1, <2>2 DEF TypeOK, PostMessage, watchVars, agentVars, clientVars
<1>2. ASSUME NEW m \in Msgs, LoadHistory(m) PROVE TypeOK'
  <2>1. ListMessages(HistoryLimit) \in Seq(Rows)
    BY StreamAssumption, ListMessagesType
  <2>2. QED
    BY <1>2, <2>1 DEF TypeOK, LoadHistory, watchVars, agentVars, clientVars
<1>3. ASSUME NEW m \in Msgs, LoadFails(m) PROVE TypeOK'
  BY <1>3, FaultType DEF TypeOK, LoadFails, watchVars, agentVars, clientVars
<1>4. ASSUME NEW m \in Msgs, DispatchTask(m) PROVE TypeOK'
  BY <1>4 DEF TypeOK, DispatchTask, clientVars
<1>5. ASSUME NEW m \in Msgs, NEW n \in 0..MaxDeltas,
             NEW type \in {"agent_start", "delta", "turn_end", "agent_end"},
             Publish(Event(type, m, n)),
             agent' \in [Msgs -> {"none", "ready", "running", "talking", "ended"}],
             sent' \in [Msgs -> 0..MaxDeltas]
      PROVE  TypeOK'
  <2>1. /\ buf' \in [Msgs -> Seq(Events)]
        /\ \A k \in Msgs : Len(buf'[k]) <= ChanCap
        /\ intact' \in [Msgs -> BOOLEAN]
        /\ cbuf' \in [Clients -> Seq(ClientEvents)]
        /\ \A c \in Clients : Len(cbuf'[c]) <= ChanCap
        /\ missed' \subseteq Clients
    BY <1>5, EventType, PublishType
  <2>2. UNCHANGED <<rows, dpc, hist, wpc, content, cpc, budget>>
    BY <1>5 DEF Publish, dispVars
  <2>3. QED
    BY <1>5, <2>1, <2>2 DEF TypeOK
<1>6. ASSUME NEW m \in Msgs, Agent(m) PROVE TypeOK'
  <2>1. MaxDeltas \in Nat /\ 0 \in 0..MaxDeltas
    BY StreamAssumption
  <2>2. CASE AgentStart(m)
    BY <1>5, <2>1, <2>2 DEF TypeOK, AgentStart
  <2>3. CASE AgentDelta(m)
    <3>1. sent[m] + 1 \in 0..MaxDeltas
      BY <2>1, <2>3 DEF TypeOK, AgentDelta
    <3>2. /\ agent' \in [Msgs -> {"none", "ready", "running", "talking", "ended"}]
          /\ sent' \in [Msgs -> 0..MaxDeltas]
      BY <2>3, <3>1 DEF TypeOK, AgentDelta
    <3>3. QED
      BY <1>5, <2>3, <3>1, <3>2 DEF AgentDelta
  <2>4. CASE AgentTurnEnd(m)
    BY <1>5, <2>1, <2>4 DEF TypeOK, AgentTurnEnd
  <2>5. CASE AgentEnd(m)
    BY <1>5, <2>1, <2>5 DEF TypeOK, AgentEnd
  <2>6. QED
    BY <1>6, <2>2, <2>3, <2>4, <2>5 DEF Agent
<1>7. ASSUME NEW m \in Msgs, WatchSubscribe(m) PROVE TypeOK'
  <2>1. intact' \in [Msgs -> BOOLEAN]
    BY <1>7, Zenon DEF TypeOK, WatchSubscribe
  <2>2. wpc' \in [Msgs -> {"off", "spawned", "loop", "done"}] /\ budget' \in 0..FaultBudget
    BY <1>7, FaultType DEF TypeOK, WatchSubscribe
  <2>3. QED
    BY <1>7, <2>1, <2>2 DEF TypeOK, WatchSubscribe, dispVars, agentVars, clientVars
<1>8. ASSUME NEW m \in Msgs, WatchAgentStart(m) PROVE TypeOK'
  <2>1. Tail(buf[m]) \in Seq(Events) /\ Len(Tail(buf[m])) <= ChanCap
    BY <1>8, ReceiveType DEF WatchAgentStart
  <2>2. intact' \in [Msgs -> BOOLEAN]
    BY <1>8, Zenon DEF TypeOK, WatchAgentStart
  <2>3. QED
    BY <1>8, <2>1, <2>2 DEF TypeOK, WatchAgentStart, dispVars, agentVars, clientVars
<1>9. ASSUME NEW m \in Msgs, WatchDelta(m) PROVE TypeOK'
  <2>1. /\ Tail(buf[m]) \in Seq(Events) /\ Len(Tail(buf[m])) <= ChanCap
        /\ Head(buf[m]).piece \in Pieces
    BY <1>9, ReceiveType DEF WatchDelta
  <2>2. Append(content[m], Head(buf[m]).piece) \in Seq(Pieces)
    BY <2>1 DEF TypeOK
  <2>3. QED
    BY <1>9, <2>1, <2>2 DEF TypeOK, WatchDelta, dispVars, agentVars, clientVars
<1>10. ASSUME NEW m \in Msgs, WatchTurnEnd(m) PROVE TypeOK'
  <2>1. Tail(buf[m]) \in Seq(Events) /\ Len(Tail(buf[m])) <= ChanCap
    BY <1>10, ReceiveType DEF WatchTurnEnd
  <2>2. rows' \in Seq(Rows) /\ intact' \in [Msgs -> BOOLEAN] /\ budget' \in 0..FaultBudget
    BY <1>10, PersistType DEF WatchTurnEnd
  <2>3. buf' \in [Msgs -> Seq(Events)] /\ \A n \in Msgs : Len(buf'[n]) <= ChanCap
    BY <1>10, <2>1 DEF TypeOK, WatchTurnEnd
  <2>4. content' \in [Msgs -> Seq(Pieces)]
    BY <1>10 DEF TypeOK, WatchTurnEnd
  <2>5. UNCHANGED <<dpc, hist, wpc, agent, sent, cpc, cbuf, missed>>
    BY <1>10 DEF WatchTurnEnd, dispVars, agentVars, clientVars
  <2>6. QED
    BY <2>2, <2>3, <2>4, <2>5 DEF TypeOK
<1>11. ASSUME NEW m \in Msgs, WatchAgentEnd(m) PROVE TypeOK'
  <2>1. rows' \in Seq(Rows) /\ intact' \in [Msgs -> BOOLEAN] /\ budget' \in 0..FaultBudget
    BY <1>11, PersistType DEF WatchAgentEnd
  <2>2. Len(<< >>) <= ChanCap
    BY StreamAssumption
  <2>3. buf' \in [Msgs -> Seq(Events)] /\ \A n \in Msgs : Len(buf'[n]) <= ChanCap
    BY <1>11, <2>2 DEF TypeOK, WatchAgentEnd
  <2>4. /\ content' \in [Msgs -> Seq(Pieces)]
        /\ wpc' \in [Msgs -> {"off", "spawned", "loop", "done"}]
    BY <1>11 DEF TypeOK, WatchAgentEnd
  <2>5. UNCHANGED <<dpc, hist, agent, sent, cpc, cbuf, missed>>
    BY <1>11 DEF WatchAgentEnd, dispVars, agentVars, clientVars
  <2>6. QED
    BY <2>1, <2>3, <2>4, <2>5 DEF TypeOK
<1>12. ASSUME NEW m \in Msgs, WatchTimeout(m) PROVE TypeOK'
  <2>1. intact' \in [Msgs -> BOOLEAN]
    BY <1>12, Zenon DEF TypeOK, WatchTimeout
  <2>2. Len(<< >>) <= ChanCap
    BY StreamAssumption
  <2>3. QED
    BY <1>12, <2>1, <2>2 DEF TypeOK, WatchTimeout, dispVars, agentVars, clientVars
<1>13. ASSUME NEW c \in Clients, Connect(c) PROVE TypeOK'
  BY <1>13, FaultType DEF TypeOK, Connect, dispVars, watchVars, agentVars
<1>14. ASSUME NEW c \in Clients, Forward(c) PROVE TypeOK'
  <2>1. Tail(cbuf[c]) \in Seq(ClientEvents) /\ Len(Tail(cbuf[c])) = Len(cbuf[c]) - 1
    BY <1>14 DEF TypeOK, Forward
  <2>2. ChanCap \in Nat /\ Len(<< >>) <= ChanCap /\ Len(Tail(cbuf[c])) <= ChanCap
    BY <2>1, StreamAssumption DEF TypeOK
  <2>3. \/ cpc' = [cpc EXCEPT ![c] = "closed"] /\ cbuf' = [cbuf EXCEPT ![c] = << >>]
        \/ cpc' = cpc /\ cbuf' = [cbuf EXCEPT ![c] = Tail(cbuf[c])]
    BY <1>14, Zenon DEF Forward
  <2>4. /\ cbuf' \in [Clients -> Seq(ClientEvents)]
        /\ \A d \in Clients : Len(cbuf'[d]) <= ChanCap
        /\ cpc' \in [Clients -> {"off", "open", "closed"}]
    <3>1. /\ cbuf \in [Clients -> Seq(ClientEvents)] /\ \A d \in Clients : Len(cbuf[d]) <= ChanCap
          /\ cpc \in [Clients -> {"off", "open", "closed"}]
      BY DEF TypeOK
    <3>2. CASE cpc' = [cpc EXCEPT ![c] = "closed"] /\ cbuf' = [cbuf EXCEPT ![c] = << >>]
      BY <2>2, <3>1, <3>2
    <3>3. CASE cpc' = cpc /\ cbuf' = [cbuf EXCEPT ![c] = Tail(cbuf[c])]
      BY <2>1, <2>2, <3>1, <3>3
    <3>4. QED
      BY <2>3, <3>2, <3>3
  <2>5. UNCHANGED <<rows, dpc, hist, wpc, buf, content, intact, agent, sent, missed, budget>>
    BY <1>14 DEF Forward, dispVars, watchVars, agentVars
  <2>6. QED
    BY <2>4, <2>5 DEF TypeOK
<1>15. ASSUME NEW c \in Clients, Disconnect(c) PROVE TypeOK'
  <2>1. Len(<< >>) <= ChanCap
    BY StreamAssumption
  <2>2. QED
    BY <1>15, <2>1 DEF TypeOK, Disconnect, dispVars, watchVars, agentVars
<1>16. CASE UNCHANGED vars
  BY <1>16 DEF TypeOK, vars, dispVars, watchVars, agentVars, clientVars
<1>17. QED
  BY <1>1, <1>2, <1>3, <1>4, <1>6, <1>7, <1>8, <1>9, <1>10, <1>11, <1>12, <1>13, <1>14,
     <1>15, <1>16
  DEF Next, Dispatch, Watch

\* The variables of every behaviour stay in their types; channels stay within the
\* capacity that Subscribe's make(chan) gives them, whoever reads how slowly.
THEOREM TypeCorrect == Spec => []TypeOK
<1>1. QED
  BY InitType, StepType, PTL DEF Spec

-----------------------------------------------------------------------------
(* What a watcher saves.                                                       *)
(*                                                                             *)
(* The deltas of an answer are numbered.  Among the deltas of one answer, those *)
(* a watcher has saved, those it has put together and those still in its        *)
(* channel follow each other in that order, whichever agents talk at the same   *)
(* time; so it never saves one twice or goes back.  As long as a watcher missed *)
(* nothing of its own message's answer, the three together are all of it.       *)

\* The pieces that message w's handler and watcher have saved.
TextBy(w, rs) ==
    UNION {{rs[i].text[j] : j \in DOMAIN rs[i].text} : i \in {k \in DOMAIN rs : rs[k].by = w}}

IsDelta(a, e) == e.type = "delta" /\ e.piece.msg = a

\* S are saved pieces, s is the text put together, b the channel of one watcher, u the
\* number of deltas sent in answer to a: the numbers of those deltas ascend.
InOrder(a, S, s, b, u) ==
    /\ \A p \in S : p.msg = a =>
         /\ p.n <= u
         /\ \A j \in DOMAIN s : s[j].msg = a => p.n < s[j].n
         /\ \A k \in DOMAIN b : IsDelta(a, b[k]) => p.n < b[k].piece.n
    /\ \A j \in DOMAIN s : s[j].msg = a =>
         /\ s[j].n \in 1..u
         /\ \A i \in DOMAIN s : i < j /\ s[i].msg = a => s[i].n < s[j].n
         /\ \A k \in DOMAIN b : IsDelta(a, b[k]) => s[j].n < b[k].piece.n
    /\ \A k \in DOMAIN b : IsDelta(a, b[k]) =>
         /\ b[k].piece.n \in 1..u
         /\ \A i \in DOMAIN b : i < k /\ IsDelta(a, b[i]) => b[i].piece.n < b[k].piece.n

\* Every delta that was sent in answer to a is in one of the three places.
Whole(a, S, s, b, u) ==
    \A n \in 1..u :
        \/ [msg |-> a, n |-> n] \in S
        \/ \E j \in DOMAIN s : s[j] = [msg |-> a, n |-> n]
        \/ \E k \in DOMAIN b : IsDelta(a, b[k]) /\ b[k].piece = [msg |-> a, n |-> n]

\* The deltas of answer a are in order at watcher w and, if it is a's own watcher and
\* missed nothing, whole.
Placed(w, a) ==
    /\ InOrder(a, TextBy(w, rows), content[w], buf[w], sent[a])
    /\ w = a /\ intact[w] => Whole(a, TextBy(w, rows), content[w], buf[w], sent[a])

AllPlaced == \A w, a \in Msgs : Placed(w, a)

\* In channel b the agent_end of a's agent comes after that agent's deltas, and once it is
\* there the agent has ended.
EndLast(a, b, ended) ==
    \A k \in DOMAIN b : b[k].type = "agent_end" /\ b[k].piece.msg = a =>
        ended /\ \A l \in DOMAIN b : k < l => ~IsDelta(a, b[l])

\* A watcher that missed nothing is subscribed, or has seen its agent end; outside its
\* loop it holds nothing; before it starts, an agent has sent nothing.
Framed(m) ==
    /\ dpc[m] # "done" => wpc[m] = "off" /\ agent[m] = "none"
    /\ agent[m] \in {"none", "ready"} => sent[m] = 0
    /\ EndLast(m, buf[m], agent[m] = "ended")
    /\ wpc[m] # "loop" => buf[m] = << >> /\ content[m] = << >>
    /\ wpc[m] \in {"off", "spawned"} => ~intact[m]
    /\ wpc[m] = "done" /\ intact[m] => agent[m] = "ended"

AllFramed == \A m \in Msgs : Framed(m)

\* The table has the question of every message that was posted, and text of no other.
SavedPosted == \A p \in TextOf(rows) : Posted(p.msg)
PostedSaved == \A m \in Msgs : Posted(m) => [msg |-> m, n |-> 0] \in TextOf(rows)

SavingInv == TypeOK /\ AllPlaced /\ AllFramed /\ SavedPosted /\ PostedSaved

\* Membership in the text of a table, in terms of its rows.
LEMMA InText ==
  ASSUME NEW rs, NEW p
  PROVE  p \in TextOf(rs) <=>
           \E i \in DOMAIN rs : \E j \in DOMAIN rs[i].text : p = rs[i].text[j]
<1> DEFINE T(i) == {rs[i].text[j] : j \in DOMAIN rs[i].text}
<1>1. p \in TextOf(rs) <=> \E X \in {T(i) : i \in DOMAIN rs} : p \in X
  BY DEF TextOf
<1>2. (\E X \in {T(i) : i \in DOMAIN rs} : p \in X) <=> \E i \in DOMAIN rs : p \in T(i)
  BY Zenon
<1>3. \A i \in DOMAIN rs : p \in T(i) <=> \E j \in DOMAIN rs[i].text : p = rs[i].text[j]
  BY Zenon
<1>4. QED
  BY <1>1, <1>2, <1>3, Zenon

\* The same of the rows that one message's handler and watcher inserted.
LEMMA InTextBy ==
  ASSUME NEW rs, NEW w, NEW p
  PROVE  p \in TextBy(w, rs) <=>
           \E i \in DOMAIN rs : rs[i].by = w /\ \E j \in DOMAIN rs[i].text : p = rs[i].text[j]
<1> DEFINE T(i) == {rs[i].text[j] : j \in DOMAIN rs[i].text}
           D == {k \in DOMAIN rs : rs[k].by = w}
<1>1. p \in TextBy(w, rs) <=> \E X \in {T(i) : i \in D} : p \in X
  BY DEF TextBy
<1>2. (\E X \in {T(i) : i \in D} : p \in X) <=> \E i \in D : p \in T(i)
  BY Zenon
<1>3. \A i \in D : p \in T(i) <=> \E j \in DOMAIN rs[i].text : p = rs[i].text[j]
  BY Zenon
<1>4. QED
  BY <1>1, <1>2, <1>3, Zenon

\* A saved row adds its own text to the table's, and to that of the message that saved it.
LEMMA TextGrows ==
  ASSUME TypeOK, NEW role \in Roles \cup {"assistant"}, NEW author \in {"user", "agent"},
         NEW w \in Msgs, NEW text \in Seq(Pieces), AddMessage(role, author, w, text)
  PROVE  /\ \A p : p \in TextOf(rows') <=> p \in TextOf(rows) \/ \E j \in DOMAIN text : p = text[j]
         /\ \A p : p \in TextBy(w, rows')
                     <=> p \in TextBy(w, rows) \/ \E j \in DOMAIN text : p = text[j]
         /\ \A v \in Msgs \ {w} : TextBy(v, rows') = TextBy(v, rows)
<1> DEFINE r == [role |-> role, author |-> author, by |-> w, text |-> text]
<1>1. rows \in Seq(Rows) /\ r \in Rows /\ rows' = Append(rows, r)
  BY DEF TypeOK, AddMessage, Rows
<1>2. r.text = text /\ r.by = w
  OBVIOUS
<1> HIDE DEF r
<1>3. /\ Len(rows) \in Nat /\ rows'[Len(rows) + 1] = r
      /\ \A i \in 1..Len(rows) : rows'[i] = rows[i]
      /\ DOMAIN rows = 1..Len(rows) /\ DOMAIN rows' = 1..(Len(rows) + 1)
  BY <1>1
<1>4. /\ \A i \in DOMAIN rows : i \in DOMAIN rows' /\ rows'[i] = rows[i]
      /\ Len(rows) + 1 \in DOMAIN rows'
      /\ rows'[Len(rows) + 1].text = text /\ rows'[Len(rows) + 1].by = w
      /\ \A i \in DOMAIN rows' : i \in DOMAIN rows \/ i = Len(rows) + 1
  BY <1>2, <1>3
<1>5. \A p : (\E i \in DOMAIN rows' : \E j \in DOMAIN rows'[i].text : p = rows'[i].text[j])
      <=> \/ \E i \in DOMAIN rows : \E j \in DOMAIN rows[i].text : p = rows[i].text[j]
          \/ \E j \in DOMAIN text : p = text[j]
  BY <1>4
<1>6. \A p : (\E i \in DOMAIN rows' :
                rows'[i].by = w /\ \E j \in DOMAIN rows'[i].text : p = rows'[i].text[j])
      <=> \/ \E i \in DOMAIN rows :
                rows[i].by = w /\ \E j \in DOMAIN rows[i].text : p = rows[i].text[j]
          \/ \E j \in DOMAIN text : p = text[j]
  BY <1>4
<1>7. ASSUME NEW v \in Msgs \ {w} PROVE TextBy(v, rows') = TextBy(v, rows)
  <2>1. {k \in DOMAIN rows' : rows'[k].by = v} = {k \in DOMAIN rows : rows[k].by = v}
    BY <1>4
  <2>2. \A k \in {i \in DOMAIN rows : rows[i].by = v} : rows'[k] = rows[k]
    BY <1>4
  <2>3. QED
    BY <2>1, <2>2 DEF TextBy
<1>8. /\ \A p : p \in TextOf(rows') <=> p \in TextOf(rows) \/ \E j \in DOMAIN text : p = text[j]
      /\ \A p : p \in TextBy(w, rows')
                  <=> p \in TextBy(w, rows) \/ \E j \in DOMAIN text : p = text[j]
  <2>1. ASSUME NEW p
        PROVE  p \in TextOf(rows') <=> p \in TextOf(rows) \/ \E j \in DOMAIN text : p = text[j]
    <3>1. p \in TextOf(rows') <=>
            \E i \in DOMAIN rows' : \E j \in DOMAIN rows'[i].text : p = rows'[i].text[j]
      BY InText
    <3>2. p \in TextOf(rows) <=>
            \E i \in DOMAIN rows : \E j \in DOMAIN rows[i].text : p = rows[i].text[j]
      BY InText
    <3>3. QED
      BY <1>5, <3>1, <3>2
  <2>2. ASSUME NEW p
        PROVE  p \in TextBy(w, rows')
                 <=> p \in TextBy(w, rows) \/ \E j \in DOMAIN text : p = text[j]
    <3>1. p \in TextBy(w, rows') <=>
            \E i \in DOMAIN rows' :
                rows'[i].by = w /\ \E j \in DOMAIN rows'[i].text : p = rows'[i].text[j]
      BY InTextBy
    <3>2. p \in TextBy(w, rows) <=>
            \E i \in DOMAIN rows :
                rows[i].by = w /\ \E j \in DOMAIN rows[i].text : p = rows[i].text[j]
      BY InTextBy
    <3>3. QED
      BY <1>6, <3>1, <3>2
  <2>3. QED
    BY <2>1, <2>2, Zenon
<1>9. QED
  BY <1>7, <1>8, Zenon

\* What a message saved is in the table.
LEMMA TextByIn ==
  ASSUME NEW w, NEW rs
  PROVE  TextBy(w, rs) \subseteq TextOf(rs)
  BY InText, InTextBy

\* The text of the table consists of pieces.
LEMMA TextType ==
  ASSUME TypeOK
  PROVE  TextOf(rows) \in SUBSET Pieces /\ \A w : TextBy(w, rows) \in SUBSET Pieces
<1>1. ASSUME NEW p \in TextOf(rows) PROVE p \in Pieces
  <2>1. PICK i \in DOMAIN rows : \E j \in DOMAIN rows[i].text : p = rows[i].text[j]
    BY InText
  <2>2. rows[i] \in Rows
    BY DEF TypeOK
  <2>3. rows[i].text \in Seq(Pieces)
    BY <2>2 DEF Rows
  <2>4. QED
    BY <2>1, <2>3
<1>2. QED
  BY <1>1, TextByIn

-----------------------------------------------------------------------------
(* How the three places change *)

\* A watcher takes a delta from its channel and puts it at the end of its text.
LEMMA TakeDelta ==
  ASSUME NEW m, NEW S \in SUBSET Pieces, NEW s \in Seq(Pieces), NEW b \in Seq(Events),
         NEW u \in Nat, InOrder(m, S, s, b, u), b # << >>, IsDelta(m, Head(b))
  PROVE  /\ InOrder(m, S, Append(s, Head(b).piece), Tail(b), u)
         /\ Whole(m, S, s, b, u) => Whole(m, S, Append(s, Head(b).piece), Tail(b), u)
<1> DEFINE t == Append(s, Head(b).piece)
           c == Tail(b)
           last == Len(s) + 1
<1>1. /\ \A j \in DOMAIN s : j \in DOMAIN t /\ j < last /\ j \in Nat /\ t[j] = s[j]
      /\ \A j \in DOMAIN t : j \in DOMAIN s \/ j = last
      /\ last \in DOMAIN t /\ t[last] = Head(b).piece /\ last \in Nat
  <2>1. Head(b) \in Events
    OBVIOUS
  <2>2. Head(b).piece \in Pieces
    BY <2>1 DEF Events
  <2>3. QED
    BY <2>2
<1>2. /\ 1 \in DOMAIN b /\ Head(b) = b[1]
      /\ \A k \in DOMAIN c : k \in Nat /\ k + 1 \in DOMAIN b /\ 1 < k + 1 /\ c[k] = b[k + 1]
      /\ \A k \in DOMAIN b : k # 1 => k - 1 \in DOMAIN c /\ c[k - 1] = b[k]
  OBVIOUS
<1> HIDE DEF t, c, last
<1>3. InOrder(m, S, t, c, u)
  <2>1. ASSUME NEW p \in S, p.msg = m
        PROVE  /\ p.n <= u
               /\ \A j \in DOMAIN t : t[j].msg = m => p.n < t[j].n
               /\ \A k \in DOMAIN c : IsDelta(m, c[k]) => p.n < c[k].piece.n
    BY <1>1, <1>2, <2>1 DEF InOrder
  <2>2. ASSUME NEW j \in DOMAIN t, t[j].msg = m
        PROVE  /\ t[j].n \in 1..u
               /\ \A i \in DOMAIN t : i < j /\ t[i].msg = m => t[i].n < t[j].n
               /\ \A k \in DOMAIN c : IsDelta(m, c[k]) => t[j].n < c[k].piece.n
    <3>1. CASE j = last
      <4>1. t[j] = b[1].piece /\ IsDelta(m, b[1])
        BY <1>1, <1>2, <3>1
      <4>2. t[j].n \in 1..u
        BY <1>2, <4>1 DEF InOrder
      <4>3. ASSUME NEW i \in DOMAIN t, i < j, t[i].msg = m PROVE t[i].n < t[j].n
        <5>1. i \in DOMAIN s /\ t[i] = s[i]
          BY <1>1, <3>1, <4>3
        <5>2. QED
          BY <1>2, <4>1, <4>3, <5>1 DEF InOrder
      <4>4. ASSUME NEW k \in DOMAIN c, IsDelta(m, c[k]) PROVE t[j].n < c[k].piece.n
        BY <1>2, <4>1, <4>4 DEF InOrder
      <4>5. QED
        BY <4>2, <4>3, <4>4
    <3>2. CASE j \in DOMAIN s
      <4>1. t[j] = s[j] /\ s[j].n \in 1..u
        BY <1>1, <2>2, <3>2 DEF InOrder
      <4>2. ASSUME NEW i \in DOMAIN t, i < j, t[i].msg = m PROVE t[i].n < t[j].n
        <5>1. i \in DOMAIN s /\ t[i] = s[i]
          BY <1>1, <3>2, <4>2
        <5>2. QED
          BY <2>2, <3>2, <4>1, <4>2, <5>1 DEF InOrder
      <4>3. ASSUME NEW k \in DOMAIN c, IsDelta(m, c[k]) PROVE t[j].n < c[k].piece.n
        BY <1>2, <2>2, <3>2, <4>1, <4>3 DEF InOrder
      <4>4. QED
        BY <4>1, <4>2, <4>3
    <3>3. QED
      BY <1>1, <3>1, <3>2
  <2>3. ASSUME NEW k \in DOMAIN c, IsDelta(m, c[k])
        PROVE  /\ c[k].piece.n \in 1..u
               /\ \A i \in DOMAIN c : i < k /\ IsDelta(m, c[i]) => c[i].piece.n < c[k].piece.n
    BY <1>2, <2>3 DEF InOrder
  <2>4. QED
    BY <2>1, <2>2, <2>3 DEF InOrder
<1>4. ASSUME Whole(m, S, s, b, u) PROVE Whole(m, S, t, c, u)
  <2> SUFFICES ASSUME NEW n \in 1..u
               PROVE  \/ [msg |-> m, n |-> n] \in S
                      \/ \E j \in DOMAIN t : t[j] = [msg |-> m, n |-> n]
                      \/ \E k \in DOMAIN c : IsDelta(m, c[k]) /\ c[k].piece = [msg |-> m, n |-> n]
    BY DEF Whole
  <2> DEFINE p == [msg |-> m, n |-> n]
  <2>1. p \in S \/ (\E j \in DOMAIN s : s[j] = p)
        \/ (\E k \in DOMAIN b : IsDelta(m, b[k]) /\ b[k].piece = p)
    BY <1>4 DEF Whole
  <2> HIDE DEF p
  <2>2. (\E j \in DOMAIN s : s[j] = p) => \E j \in DOMAIN t : t[j] = p
    BY <1>1
  <2>3. ASSUME NEW k \in DOMAIN b, IsDelta(m, b[k]), b[k].piece = p
        PROVE  (\E j \in DOMAIN t : t[j] = p) \/ \E i \in DOMAIN c : IsDelta(m, c[i]) /\ c[i].piece = p
    <3>1. CASE k = 1
      BY <1>1, <2>3, <3>1
    <3>2. CASE k # 1
      <4>1. k - 1 \in DOMAIN c /\ c[k - 1] = b[k]
        BY <1>2, <2>3, <3>2
      <4>2. QED
        BY <2>3, <4>1
    <3>3. QED
      BY <3>1, <3>2
  <2>4. QED
    BY <2>1, <2>2, <2>3 DEF p
<1>5. QED
  BY <1>3, <1>4 DEF t, c

\* A watcher takes another event from its channel.
LEMMA TakeOther ==
  ASSUME NEW m, NEW S \in SUBSET Pieces, NEW s \in Seq(Pieces), NEW b \in Seq(Events),
         NEW u \in Nat, InOrder(m, S, s, b, u), b # << >>, ~IsDelta(m, Head(b))
  PROVE  /\ InOrder(m, S, s, Tail(b), u)
         /\ Whole(m, S, s, b, u) => Whole(m, S, s, Tail(b), u)
<1> DEFINE c == Tail(b)
<1>1. /\ Head(b) = b[1]
      /\ \A k \in DOMAIN c : k \in Nat /\ k + 1 \in DOMAIN b /\ c[k] = b[k + 1]
      /\ \A k \in DOMAIN b : k # 1 => k - 1 \in DOMAIN c /\ c[k - 1] = b[k]
  OBVIOUS
<1> HIDE DEF c
<1>2. InOrder(m, S, s, c, u)
  <2>1. ASSUME NEW k \in DOMAIN c, IsDelta(m, c[k])
        PROVE  /\ c[k].piece.n \in 1..u
               /\ \A p \in S : p.msg = m => p.n < c[k].piece.n
               /\ \A j \in DOMAIN s : s[j].msg = m => s[j].n < c[k].piece.n
               /\ \A i \in DOMAIN c : i < k /\ IsDelta(m, c[i]) => c[i].piece.n < c[k].piece.n
    <3>1. k + 1 \in DOMAIN b /\ b[k + 1] = c[k] /\ IsDelta(m, b[k + 1]) /\ k \in Nat
      BY <1>1, <2>1
    <3>2. /\ c[k].piece.n \in 1..u
          /\ \A p \in S : p.msg = m => p.n < c[k].piece.n
          /\ \A j \in DOMAIN s : s[j].msg = m => s[j].n < c[k].piece.n
          /\ \A i \in DOMAIN b : i < k + 1 /\ IsDelta(m, b[i]) => b[i].piece.n < c[k].piece.n
      BY <3>1 DEF InOrder
    <3>3. ASSUME NEW i \in DOMAIN c, i < k, IsDelta(m, c[i])
          PROVE  c[i].piece.n < c[k].piece.n
      <4>1. i + 1 \in DOMAIN b /\ b[i + 1] = c[i] /\ i + 1 < k + 1
        BY <1>1, <3>1, <3>3
      <4>2. QED
        BY <3>2, <3>3, <4>1
    <3>4. QED
      BY <3>2, <3>3
  <2>2. QED
    BY <2>1 DEF InOrder
<1>3. ASSUME Whole(m, S, s, b, u) PROVE Whole(m, S, s, c, u)
  <2>1. ASSUME NEW k \in DOMAIN b, IsDelta(m, b[k]) PROVE \E i \in DOMAIN c : c[i] = b[k]
    <3>1. k # 1
      BY <1>1, <2>1
    <3>2. k - 1 \in DOMAIN c /\ c[k - 1] = b[k]
      BY <1>1, <3>1
    <3>3. QED
      BY <3>2
  <2>2. QED
    BY <1>3, <2>1 DEF Whole
<1>4. QED
  BY <1>2, <1>3 DEF c

\* A watcher puts a delta of another answer at the end of its text.
LEMMA AddOther ==
  ASSUME NEW m, NEW S, NEW s \in Seq(Pieces), NEW b, NEW u, NEW q \in Pieces, q.msg # m,
         InOrder(m, S, s, b, u)
  PROVE  /\ InOrder(m, S, Append(s, q), b, u)
         /\ Whole(m, S, s, b, u) => Whole(m, S, Append(s, q), b, u)
<1> DEFINE t == Append(s, q)
<1>1. /\ \A j \in DOMAIN t : t[j].msg = m => j \in DOMAIN s /\ t[j] = s[j]
      /\ \A j \in DOMAIN s : j \in DOMAIN t /\ t[j] = s[j]
  OBVIOUS
<1> HIDE DEF t
<1>2. InOrder(m, S, t, b, u)
  BY <1>1 DEF InOrder
<1>3. Whole(m, S, s, b, u) => Whole(m, S, t, b, u)
  BY <1>1 DEF Whole
<1>4. QED
  BY <1>2, <1>3 DEF t

\* A watcher saves its text.
LEMMA SaveText ==
  ASSUME NEW m, NEW S \in SUBSET Pieces, NEW s \in Seq(Pieces), NEW b \in Seq(Events),
         NEW u \in Nat, InOrder(m, S, s, b, u),
         NEW T, \A p : p \in T <=> p \in S \/ \E j \in DOMAIN s : p = s[j]
  PROVE  /\ InOrder(m, T, << >>, b, u)
         /\ Whole(m, S, s, b, u) => Whole(m, T, << >>, b, u)
<1>1. DOMAIN << >> = {}
  OBVIOUS
<1>2. ASSUME NEW p \in T, p.msg = m
      PROVE  /\ p.n <= u
             /\ \A k \in DOMAIN b : IsDelta(m, b[k]) => p.n < b[k].piece.n
  <2>1. CASE p \in S
    BY <1>2, <2>1 DEF InOrder
  <2>2. CASE \E j \in DOMAIN s : p = s[j]
    BY <1>2, <2>2 DEF InOrder
  <2>3. QED
    BY <1>2, <2>1, <2>2
<1>3. InOrder(m, T, << >>, b, u)
  BY <1>1, <1>2 DEF InOrder
<1>4. ASSUME Whole(m, S, s, b, u) PROVE Whole(m, T, << >>, b, u)
  <2> SUFFICES ASSUME NEW n \in 1..u
               PROVE  \/ [msg |-> m, n |-> n] \in T
                      \/ \E k \in DOMAIN b : IsDelta(m, b[k]) /\ b[k].piece = [msg |-> m, n |-> n]
    BY <1>1 DEF Whole
  <2> DEFINE p == [msg |-> m, n |-> n]
  <2>1. \/ p \in S
        \/ \E j \in DOMAIN s : s[j] = p
        \/ \E k \in DOMAIN b : IsDelta(m, b[k]) /\ b[k].piece = p
    BY <1>4 DEF Whole
  <2> HIDE DEF p
  <2>2. p \in T \/ \E k \in DOMAIN b : IsDelta(m, b[k]) /\ b[k].piece = p
    BY <2>1
  <2>3. QED
    BY <2>2 DEF p
<1>5. QED
  BY <1>3, <1>4

\* A watcher forgets its text, its channel or both.
LEMMA Forget ==
  ASSUME NEW m, NEW S, NEW s, NEW b, NEW u, InOrder(m, S, s, b, u)
  PROVE  InOrder(m, S, << >>, b, u) /\ InOrder(m, S, << >>, << >>, u)
<1>1. DOMAIN << >> = {}
  OBVIOUS
<1>2. QED
  BY <1>1 DEF InOrder

\* A delta is sent and put into the channel, or dropped.
LEMMA SendDelta ==
  ASSUME NEW m \in Msgs, NEW S \in SUBSET Pieces, NEW s \in Seq(Pieces),
         NEW b \in Seq(Events), NEW u \in Nat, InOrder(m, S, s, b, u),
         NEW e \in Events, IsDelta(m, e), e.piece = [msg |-> m, n |-> u + 1]
  PROVE  /\ InOrder(m, S, s, b, u + 1)
         /\ InOrder(m, S, s, Append(b, e), u + 1)
         /\ Whole(m, S, s, b, u) => Whole(m, S, s, Append(b, e), u + 1)
<1> DEFINE c == Append(b, e)
           last == Len(b) + 1
<1>1. /\ \A k \in DOMAIN b : k \in DOMAIN c /\ c[k] = b[k] /\ k \in Nat /\ k < last
      /\ \A k \in DOMAIN c : k \in DOMAIN b \/ k = last
      /\ last \in DOMAIN c /\ c[last] = e /\ last \in Nat
  OBVIOUS
<1>2. \A p \in S : p.n \in Nat
  BY StreamAssumption DEF Pieces
<1>3. e.piece.n = u + 1 /\ IsDelta(m, e)
  OBVIOUS
<1> HIDE DEF c, last
<1>4. InOrder(m, S, s, b, u + 1)
  BY <1>2 DEF InOrder
<1>5. InOrder(m, S, s, c, u + 1)
  <2>1. ASSUME NEW k \in DOMAIN c, IsDelta(m, c[k])
        PROVE  /\ c[k].piece.n \in 1..(u + 1)
               /\ \A p \in S : p.msg = m => p.n < c[k].piece.n
               /\ \A j \in DOMAIN s : s[j].msg = m => s[j].n < c[k].piece.n
               /\ \A i \in DOMAIN c : i < k /\ IsDelta(m, c[i]) => c[i].piece.n < c[k].piece.n
    <3>1. CASE k \in DOMAIN b
      <4>1. c[k] = b[k] /\ \A i \in DOMAIN c : i < k => i \in DOMAIN b /\ c[i] = b[i]
        BY <1>1, <3>1
      <4>2. QED
        BY <1>4, <2>1, <3>1, <4>1 DEF InOrder
    <3>2. CASE k = last
      <4>1. c[k].piece.n = u + 1 /\ \A i \in DOMAIN c : i < k => i \in DOMAIN b /\ c[i] = b[i]
        BY <1>1, <1>3, <3>2
      <4>2. \A p \in S : p.msg = m => p.n < u + 1
        BY <1>2 DEF InOrder
      <4>3. \A j \in DOMAIN s : s[j].msg = m => s[j].n < u + 1
        BY DEF InOrder
      <4>4. \A i \in DOMAIN b : IsDelta(m, b[i]) => b[i].piece.n < u + 1
        BY DEF InOrder
      <4>5. QED
        BY <4>1, <4>2, <4>3, <4>4
    <3>3. QED
      BY <1>1, <3>1, <3>2
  <2>2. QED
    BY <1>4, <2>1 DEF InOrder
<1>6. ASSUME Whole(m, S, s, b, u) PROVE Whole(m, S, s, c, u + 1)
  <2> SUFFICES ASSUME NEW n \in 1..(u + 1)
               PROVE  \/ [msg |-> m, n |-> n] \in S
                      \/ \E j \in DOMAIN s : s[j] = [msg |-> m, n |-> n]
                      \/ \E k \in DOMAIN c : IsDelta(m, c[k]) /\ c[k].piece = [msg |-> m, n |-> n]
    BY DEF Whole
  <2>1. CASE n = u + 1
    BY <1>1, <1>3, <2>1
  <2>2. CASE n \in 1..u
    <3> DEFINE p == [msg |-> m, n |-> n]
    <3>1. \/ p \in S
          \/ \E j \in DOMAIN s : s[j] = p
          \/ \E k \in DOMAIN b : IsDelta(m, b[k]) /\ b[k].piece = p
      BY <1>6, <2>2 DEF Whole
    <3> HIDE DEF p
    <3>2. \/ p \in S
          \/ \E j \in DOMAIN s : s[j] = p
          \/ \E k \in DOMAIN c : IsDelta(m, c[k]) /\ c[k].piece = p
      BY <1>1, <3>1
    <3>3. QED
      BY <3>2 DEF p
  <2>3. QED
    BY <2>1, <2>2
<1>7. QED
  BY <1>4, <1>5, <1>6 DEF c

\* Another event is put into the channel.
LEMMA SendOther ==
  ASSUME NEW m, NEW S, NEW s, NEW b \in Seq(Events), NEW u, InOrder(m, S, s, b, u),
         NEW e \in Events, ~IsDelta(m, e)
  PROVE  /\ InOrder(m, S, s, Append(b, e), u)
         /\ Whole(m, S, s, b, u) => Whole(m, S, s, Append(b, e), u)
<1> DEFINE c == Append(b, e)
<1>1. /\ \A k \in DOMAIN b : k \in DOMAIN c /\ c[k] = b[k]
      /\ \A k \in DOMAIN c : IsDelta(m, c[k]) => k \in DOMAIN b /\ c[k] = b[k]
  OBVIOUS
<1> HIDE DEF c
<1>2. InOrder(m, S, s, c, u)
  BY <1>1 DEF InOrder
<1>3. Whole(m, S, s, b, u) => Whole(m, S, s, c, u)
  BY <1>1 DEF Whole
<1>4. QED
  BY <1>2, <1>3 DEF c

\* A row with text of other answers only, or with a question, is saved.
LEMMA SaveOther ==
  ASSUME NEW m, NEW S, NEW s \in Seq(Pieces), NEW b \in Seq(Events), NEW u \in Nat,
         InOrder(m, S, s, b, u),
         NEW T, S \subseteq T, \A p \in T : p \in S \/ p.msg # m \/ p.n = 0
  PROVE  /\ InOrder(m, T, s, b, u)
         /\ Whole(m, S, s, b, u) => Whole(m, T, s, b, u)
<1>1. InOrder(m, T, s, b, u)
  BY DEF InOrder
<1>2. Whole(m, S, s, b, u) => Whole(m, T, s, b, u)
  BY DEF Whole
<1>3. QED
  BY <1>1, <1>2

-----------------------------------------------------------------------------
(* Every step keeps the three places in order and whole *)

\* A watcher that calls persistAssistantMessage saves its text, or has none, or is no
\* longer intact; it does not touch what others have saved.
LEMMA Persisted ==
  ASSUME TypeOK, NEW m \in Msgs, NEW keeps \in BOOLEAN, persistAssistantMessage(m, keeps)
  PROVE  /\ \A k \in Msgs : intact'[k] => intact[k]
         /\ intact'[m] => keeps
         /\ \A v \in Msgs \ {m} : TextBy(v, rows') = TextBy(v, rows)
         /\ \/ /\ \A p : p \in TextBy(m, rows') <=>
                    p \in TextBy(m, rows) \/ \E j \in DOMAIN content[m] : p = content[m][j]
               /\ \A p : p \in TextOf(rows') <=>
                    p \in TextOf(rows) \/ \E j \in DOMAIN content[m] : p = content[m][j]
            \/ rows' = rows /\ ~intact'[m]
<1>1. content[m] \in Seq(Pieces) /\ intact \in [Msgs -> BOOLEAN]
  BY DEF TypeOK
<1>2. (\A k \in Msgs : intact'[k] => intact[k]) /\ (intact'[m] => keeps)
  <2>1. \/ intact' = [intact EXCEPT ![m] = @ /\ keeps]
        \/ intact' = [intact EXCEPT ![m] = FALSE]
    BY Zenon DEF persistAssistantMessage
  <2>2. QED
    BY <1>1, <2>1, Zenon
<1>3. CASE content[m] = << >> /\ UNCHANGED rows
  <2>1. DOMAIN content[m] = {}
    BY <1>3
  <2>2. QED
    BY <1>2, <1>3, <2>1
<1>4. CASE AddMessage("assistant", "agent", m, content[m])
  <2>1. /\ \A p : p \in TextOf(rows') <=>
                p \in TextOf(rows) \/ \E j \in DOMAIN content[m] : p = content[m][j]
        /\ \A p : p \in TextBy(m, rows') <=>
                p \in TextBy(m, rows) \/ \E j \in DOMAIN content[m] : p = content[m][j]
        /\ \A v \in Msgs \ {m} : TextBy(v, rows') = TextBy(v, rows)
    BY <1>1, <1>4, TextGrows
  <2>2. QED
    BY <1>2, <2>1
<1>5. CASE intact' = [intact EXCEPT ![m] = FALSE] /\ UNCHANGED rows
  BY <1>1, <1>2, <1>5
<1>6. QED
  BY <1>3, <1>4, <1>5 DEF persistAssistantMessage

\* A step that does not touch w's deltas.
LEMMA PlacedStays ==
  ASSUME NEW w \in Msgs, NEW a \in Msgs, Placed(w, a),
         UNCHANGED <<TextBy(w, rows), content[w], buf[w], sent[a]>>, intact'[w] => intact[w]
  PROVE  Placed(w, a)'
  BY DEF Placed

\* An event of m's agent; sent grows with a delta.
LEMMA PlacedPublish ==
  ASSUME TypeOK, AllFramed, NEW w \in Msgs, NEW a \in Msgs, Placed(w, a), NEW m \in Msgs,
         agent[m] \in {"ready", "running", "talking"},
         NEW e \in Events, Publish(e),
         \/ ~IsDelta(a, e) /\ sent'[a] = sent[a]
         \/ /\ a = m /\ IsDelta(a, e) /\ sent'[a] = sent[a] + 1
            /\ e.piece = [msg |-> a, n |-> sent[a] + 1]
  PROVE  Placed(w, a)'
<1> DEFINE S == TextBy(w, rows)
           s == content[w]
           b == buf[w]
           c == buf'[w]
           u == sent[a]
           v == sent'[a]
<1>1. /\ s \in Seq(Pieces) /\ b \in Seq(Events) /\ u \in Nat /\ S \in SUBSET Pieces
      /\ intact \in [Msgs -> BOOLEAN]
  BY TextType DEF TypeOK
<1>2. InOrder(a, S, s, b, u) /\ (w = a /\ intact[w] => Whole(a, S, s, b, u))
  BY DEF Placed
<1>3. /\ rows' = rows /\ content' = content
      /\ c = IF wpc[w] = "loop" THEN Offer(b, e) ELSE b
      /\ intact'[w] = (intact[w] /\ (wpc[w] = "loop" => Len(b) < ChanCap))
  BY DEF Publish
<1>4. c \in {b, Append(b, e)} /\ (intact'[w] => intact[w])
  BY <1>1, <1>3 DEF Offer
<1>5. intact'[w] /\ w = m => c = Append(b, e)
  <2>1. intact[w] /\ w = m => wpc[w] = "loop"
    BY DEF AllFramed, Framed, TypeOK
  <2>2. QED
    BY <1>1, <1>3, <2>1 DEF Offer
<1>6. InOrder(a, S, s, c, v) /\ (w = a /\ intact'[w] => Whole(a, S, s, c, v))
  <2> HIDE DEF S, s, b, c, u, v
  <2>1. CASE ~IsDelta(a, e) /\ v = u
    <3>1. /\ InOrder(a, S, s, Append(b, e), u)
          /\ Whole(a, S, s, b, u) => Whole(a, S, s, Append(b, e), u)
      BY <1>1, <1>2, <2>1, SendOther
    <3>2. QED
      BY <1>2, <1>4, <2>1, <3>1
  <2>2. CASE a = m /\ IsDelta(a, e) /\ v = u + 1 /\ e.piece = [msg |-> a, n |-> u + 1]
    <3>1. /\ InOrder(a, S, s, b, u + 1) /\ InOrder(a, S, s, Append(b, e), u + 1)
          /\ Whole(a, S, s, b, u) => Whole(a, S, s, Append(b, e), u + 1)
      BY <1>1, <1>2, <2>2, SendDelta
    <3>2. QED
      BY <1>2, <1>4, <1>5, <2>2, <3>1
  <2>3. QED
    BY <2>1, <2>2 DEF u, v
<1>7. QED
  BY <1>3, <1>6 DEF Placed

\* A watcher that takes an agent_start forgets its text.
LEMMA PlacedStart ==
  ASSUME TypeOK, NEW w \in Msgs, NEW a \in Msgs, Placed(w, a), WatchAgentStart(w)
  PROVE  Placed(w, a)'
<1> DEFINE S == TextBy(w, rows)
           s == content[w]
           b == buf[w]
           u == sent[a]
<1>1. /\ s \in Seq(Pieces) /\ b \in Seq(Events) /\ u \in Nat /\ S \in SUBSET Pieces
      /\ b # << >> /\ ~IsDelta(a, Head(b)) /\ intact \in [Msgs -> BOOLEAN]
  BY TextType DEF TypeOK, WatchAgentStart, Receives, IsDelta
<1>2. InOrder(a, S, s, b, u) /\ (w = a /\ intact[w] => Whole(a, S, s, b, u))
  BY DEF Placed
<1>3. /\ rows' = rows /\ sent' = sent /\ buf'[w] = Tail(b) /\ content'[w] = << >>
      /\ intact'[w] => intact[w] /\ ~HasOwnText(w)
  <2>1. intact'[w] => intact[w] /\ ~HasOwnText(w)
    BY <1>1, Zenon DEF WatchAgentStart
  <2>2. QED
    BY <2>1 DEF TypeOK, WatchAgentStart, agentVars
<1>4. HasOwnText(w) <=> \E j \in DOMAIN s : s[j].msg = w
  BY DEF HasOwnText
<1> HIDE DEF S, s, b, u
<1>5. /\ InOrder(a, S, s, Tail(b), u)
      /\ Whole(a, S, s, b, u) => Whole(a, S, s, Tail(b), u)
  BY <1>1, <1>2, TakeOther
<1>6. InOrder(a, S, << >>, Tail(b), u)
  BY <1>5, Forget
<1>7. ASSUME w = a, intact'[w] PROVE Whole(a, S, << >>, Tail(b), u)
  <2>1. Whole(a, S, s, Tail(b), u) /\ \A j \in DOMAIN s : s[j].msg # a
    BY <1>2, <1>3, <1>4, <1>5, <1>7
  <2>2. \A j \in DOMAIN s : \A n \in 1..u : s[j] # [msg |-> a, n |-> n]
    BY <2>1
  <2>3. QED
    BY <2>1, <2>2 DEF Whole
<1>8. QED
  BY <1>3, <1>6, <1>7 DEF Placed, S, s, b, u

\* A watcher that takes a delta puts it at the end of its text.
LEMMA PlacedDelta ==
  ASSUME TypeOK, NEW w \in Msgs, NEW a \in Msgs, Placed(w, a), WatchDelta(w)
  PROVE  Placed(w, a)'
<1> DEFINE S == TextBy(w, rows)
           s == content[w]
           b == buf[w]
           u == sent[a]
           q == Head(buf[w]).piece
<1>1. /\ s \in Seq(Pieces) /\ b \in Seq(Events) /\ u \in Nat /\ S \in SUBSET Pieces
      /\ b # << >> /\ Head(b).type = "delta" /\ q \in Pieces /\ intact \in [Msgs -> BOOLEAN]
  BY TextType, ReceiveType DEF TypeOK, WatchDelta, Receives
<1>2. InOrder(a, S, s, b, u) /\ (w = a /\ intact[w] => Whole(a, S, s, b, u))
  BY DEF Placed
<1>3. /\ rows' = rows /\ sent' = sent /\ intact' = intact
      /\ buf'[w] = Tail(b) /\ content'[w] = Append(s, q)
  BY DEF TypeOK, WatchDelta, agentVars
<1>4. Tail(b) \in Seq(Events) /\ (IsDelta(a, Head(b)) <=> q.msg = a) /\ q = Head(b).piece
  BY <1>1 DEF IsDelta
<1> HIDE DEF S, s, b, u, q
<1>5. /\ InOrder(a, S, Append(s, q), Tail(b), u)
      /\ Whole(a, S, s, b, u) => Whole(a, S, Append(s, q), Tail(b), u)
  <2>1. CASE q.msg = a
    BY <1>1, <1>2, <1>4, <2>1, TakeDelta
  <2>2. CASE q.msg # a
    <3>1. /\ InOrder(a, S, s, Tail(b), u)
          /\ Whole(a, S, s, b, u) => Whole(a, S, s, Tail(b), u)
      BY <1>1, <1>2, <1>4, <2>2, TakeOther
    <3>2. QED
      BY <1>1, <2>2, <3>1, AddOther
  <2>3. QED
    BY <2>1, <2>2
<1>6. QED
  BY <1>2, <1>3, <1>5 DEF Placed, S, s, b, u, q

\* A watcher that takes a turn_end, or an agent_end and returns, saves its text.
LEMMA PlacedPersist ==
  ASSUME TypeOK, AllFramed, NEW w \in Msgs, NEW a \in Msgs, Placed(w, a),
         WatchTurnEnd(w) \/ WatchAgentEnd(w)
  PROVE  Placed(w, a)'
<1> DEFINE S == TextBy(w, rows)
           T == TextBy(w, rows')
           s == content[w]
           b == buf[w]
           c == buf'[w]
           u == sent[a]
<1>1. /\ s \in Seq(Pieces) /\ b \in Seq(Events) /\ u \in Nat /\ S \in SUBSET Pieces
      /\ b # << >> /\ ~IsDelta(a, Head(b)) /\ content'[w] = << >> /\ sent' = sent
  <2>1. s \in Seq(Pieces) /\ b \in Seq(Events) /\ u \in Nat /\ S \in SUBSET Pieces
    BY TextType DEF TypeOK
  <2>2. b # << >> /\ ~IsDelta(a, Head(b))
    BY DEF WatchTurnEnd, WatchAgentEnd, Receives, IsDelta
  <2>3. content'[w] = << >> /\ sent' = sent
    <3>1. content' = [content EXCEPT ![w] = << >>] /\ sent' = sent
      BY Zenon DEF WatchTurnEnd, WatchAgentEnd, agentVars
    <3>2. QED
      BY <3>1 DEF TypeOK
  <2>4. QED
    BY <2>1, <2>2, <2>3
<1>2. InOrder(a, S, s, b, u) /\ (w = a /\ intact[w] => Whole(a, S, s, b, u))
  BY DEF Placed
<1>3. PICK keeps \in BOOLEAN :
        /\ persistAssistantMessage(w, keeps)
        /\ \/ c = Tail(b)
           \/ c = << >> /\ Head(b).type = "agent_end" /\ (keeps => Head(b).piece.msg = w)
  <2>1. CASE WatchTurnEnd(w)
    BY <2>1 DEF TypeOK, WatchTurnEnd
  <2>2. CASE WatchAgentEnd(w)
    <3>1. /\ persistAssistantMessage(w, Head(b).piece.msg = w)
          /\ c = << >> /\ Head(b).type = "agent_end" /\ (Head(b).piece.msg = w) \in BOOLEAN
      BY <2>2 DEF TypeOK, WatchAgentEnd, Receives
    <3>2. QED
      BY <3>1, Zenon
  <2>3. QED
    BY <2>1, <2>2
<1>4. /\ \A k \in Msgs : intact'[k] => intact[k]
      /\ intact'[w] => keeps
      /\ \/ \A p : p \in T <=> p \in S \/ \E j \in DOMAIN s : p = s[j]
         \/ T = S /\ ~intact'[w]
  BY <1>3, Persisted
<1>5. /\ Tail(b) \in Seq(Events) /\ InOrder(a, S, s, Tail(b), u)
      /\ Whole(a, S, s, b, u) => Whole(a, S, s, Tail(b), u)
  BY <1>1, <1>2, TakeOther
<1>6. c \in Seq(Events) /\ InOrder(a, S, s, c, u)
  <2>1. DOMAIN << >> = {} /\ << >> \in Seq(Events)
    OBVIOUS
  <2>2. InOrder(a, S, s, << >>, u)
    BY <1>2, <2>1 DEF InOrder
  <2>3. QED
    BY <1>3, <1>5, <2>1, <2>2
<1>7. w = a /\ intact'[w] => Whole(a, S, s, c, u)
  <2> SUFFICES ASSUME w = a, intact'[w] PROVE Whole(a, S, s, c, u)
    OBVIOUS
  <2>1. Whole(a, S, s, Tail(b), u) /\ keeps
    BY <1>2, <1>4, <1>5
  <2>2. CASE c = << >> /\ Head(b).type = "agent_end" /\ (keeps => Head(b).piece.msg = w)
    <3>1. 1 \in DOMAIN b /\ b[1].type = "agent_end" /\ b[1].piece.msg = a
      BY <1>1, <2>1, <2>2
    <3>2. \A l \in DOMAIN b : 1 < l => ~IsDelta(a, b[l])
      BY <3>1 DEF AllFramed, Framed, EndLast
    <3>3. \A k \in DOMAIN Tail(b) : k + 1 \in DOMAIN b /\ 1 < k + 1 /\ Tail(b)[k] = b[k + 1]
      BY <1>1
    <3>4. \A k \in DOMAIN Tail(b) : ~IsDelta(a, Tail(b)[k])
      BY <3>2, <3>3
    <3>5. QED
      BY <2>1, <3>4 DEF Whole
  <2>3. QED
    BY <1>3, <2>1, <2>2
<1>8. CASE \A p : p \in T <=> p \in S \/ \E j \in DOMAIN s : p = s[j]
  <2> HIDE DEF S, T, s, b, c, u
  <2>1. InOrder(a, T, << >>, c, u) /\ (Whole(a, S, s, c, u) => Whole(a, T, << >>, c, u))
    BY <1>1, <1>6, <1>8, SaveText
  <2>2. QED
    BY <1>1, <1>7, <2>1 DEF Placed, S, T, s, b, c, u
<1>9. CASE T = S /\ ~intact'[w]
  <2>1. InOrder(a, S, << >>, c, u)
    BY <1>6, Forget
  <2>2. QED
    BY <1>1, <1>9, <2>1 DEF Placed
<1>10. QED
  BY <1>4, <1>8, <1>9

\* Every step keeps each answer's deltas in order and whole at every watcher: one case per
\* action.
LEMMA StepPlaced ==
  ASSUME TypeOK, AllFramed, [Next]_vars, NEW w \in Msgs, NEW a \in Msgs, Placed(w, a)
  PROVE  Placed(w, a)'
<1>0. intact \in [Msgs -> BOOLEAN]
  BY DEF TypeOK
<1>1. ASSUME NEW m \in Msgs, PostMessage(m) PROVE Placed(w, a)'
  <2>1. <<[msg |-> m, n |-> 0]>> \in Seq(Pieces)
    BY StreamAssumption DEF Pieces
  <2>2. PICK role \in Roles : AddMessage(role, "user", m, <<[msg |-> m, n |-> 0]>>)
    BY <1>1 DEF PostMessage
  <2>3. UNCHANGED <<content, buf, sent, intact>>
    BY <1>1 DEF PostMessage, watchVars, agentVars
  <2>4. CASE w # m
    <3>1. TextBy(w, rows') = TextBy(w, rows)
      BY <2>1, <2>2, <2>4, TextGrows
    <3>2. QED
      BY <2>3, <3>1, PlacedStays
  <2>5. CASE w = m
    <3> DEFINE S == TextBy(w, rows)
               T == TextBy(w, rows')
               text == <<[msg |-> m, n |-> 0]>>
    <3>1. \A p : p \in T <=> p \in S \/ \E j \in DOMAIN text : p = text[j]
      <4>1. text \in Seq(Pieces) /\ AddMessage(role, "user", m, text)
        BY <2>1, <2>2
      <4> HIDE DEF text
      <4>2. \A p : p \in TextBy(m, rows') <=>
                    p \in TextBy(m, rows) \/ \E j \in DOMAIN text : p = text[j]
        BY <4>1, TextGrows
      <4>3. QED
        BY <2>5, <4>2
    <3>2. S \subseteq T /\ \A p \in T : p \in S \/ p.msg # a \/ p.n = 0
      <4>1. \A p : p \in T <=> p \in S \/ p = [msg |-> m, n |-> 0]
        BY <3>1
      <4> HIDE DEF S, T
      <4>2. QED
        BY <4>1
    <3>3. /\ content[w] \in Seq(Pieces) /\ buf[w] \in Seq(Events) /\ sent[a] \in Nat
          /\ InOrder(a, S, content[w], buf[w], sent[a])
      BY DEF TypeOK, Placed
    <3> HIDE DEF S, T
    <3>4. /\ InOrder(a, T, content[w], buf[w], sent[a])
          /\ Whole(a, S, content[w], buf[w], sent[a])
               => Whole(a, T, content[w], buf[w], sent[a])
      BY <3>2, <3>3, SaveOther
    <3>5. QED
      BY <2>3, <3>4 DEF Placed, S, T
  <2>6. QED
    BY <2>4, <2>5
<1>2. ASSUME NEW m \in Msgs, agent[m] \in {"ready", "running", "talking"},
             NEW e \in Events, Publish(e), e.piece.msg = m,
             \/ e.type # "delta" /\ sent' = sent
             \/ /\ e.type = "delta" /\ sent' = [sent EXCEPT ![m] = sent[m] + 1]
                /\ e.piece = [msg |-> m, n |-> sent[m] + 1]
      PROVE  Placed(w, a)'
  <2>1. CASE a = m
    <3>1. \/ ~IsDelta(a, e) /\ sent'[a] = sent[a]
          \/ /\ a = m /\ IsDelta(a, e) /\ sent'[a] = sent[a] + 1
             /\ e.piece = [msg |-> a, n |-> sent[a] + 1]
      BY <1>2, <2>1 DEF TypeOK, IsDelta
    <3>2. QED
      BY <1>2, <3>1, PlacedPublish
  <2>2. CASE a # m
    <3>1. ~IsDelta(a, e) /\ sent'[a] = sent[a]
      BY <1>2, <2>2 DEF TypeOK, IsDelta
    <3>2. QED
      BY <1>2, <3>1, PlacedPublish
  <2>3. QED
    BY <2>1, <2>2
<1>3. ASSUME NEW m \in Msgs, Agent(m) PROVE Placed(w, a)'
  <2>1. MaxDeltas \in Nat /\ 0 \in 0..MaxDeltas
    BY StreamAssumption
  <2>2. ASSUME NEW type \in {"agent_start", "turn_end", "agent_end"},
               agent[m] \in {"ready", "running", "talking"},
               Publish(Event(type, m, 0)), UNCHANGED sent
        PROVE  Placed(w, a)'
    <3>1. /\ Event(type, m, 0) \in Events /\ Event(type, m, 0).type # "delta"
          /\ Event(type, m, 0).piece.msg = m
      BY <2>1, EventType DEF Event
    <3>2. QED
      BY <1>2, <2>2, <3>1
  <2>3. CASE AgentDelta(m)
    <3>1. sent[m] + 1 \in 0..MaxDeltas
      BY <2>1, <2>3 DEF TypeOK, AgentDelta
    <3>2. /\ Event("delta", m, sent[m] + 1) \in Events
          /\ Event("delta", m, sent[m] + 1).type = "delta"
          /\ Event("delta", m, sent[m] + 1).piece = [msg |-> m, n |-> sent[m] + 1]
          /\ Event("delta", m, sent[m] + 1).piece.msg = m
      BY <3>1, EventType DEF Event
    <3>3. /\ agent[m] \in {"ready", "running", "talking"}
          /\ sent' = [sent EXCEPT ![m] = sent[m] + 1]
          /\ Publish(Event("delta", m, sent[m] + 1))
      BY <2>3 DEF AgentDelta
    <3>4. QED
      BY <1>2, <3>2, <3>3
  <2>4. QED
    BY <1>3, <2>2, <2>3 DEF Agent, AgentStart, AgentTurnEnd, AgentEnd
<1>4. ASSUME NEW m \in Msgs, WatchSubscribe(m) PROVE Placed(w, a)'
  <2>1. UNCHANGED <<rows, content, buf, sent>>
    BY <1>4 DEF WatchSubscribe, agentVars
  <2>2. CASE intact'[w] => intact[w]
    BY <2>1, <2>2, PlacedStays
  <2>3. CASE intact'[w] /\ ~intact[w]
    <3>1. w = m /\ agent[m] = "ready"
      <4>1. intact' = [intact EXCEPT ![m] = agent[m] = "ready"]
        BY <1>4, <2>3, Zenon DEF WatchSubscribe
      <4>2. QED
        BY <1>0, <2>3, <4>1, Zenon
    <3>2. w = a => sent[a] = 0
      BY <3>1 DEF AllFramed, Framed
    <3>3. w = a => Whole(a, TextBy(w, rows), content[w], buf[w], sent[a])
      BY <3>2 DEF Whole
    <3>4. QED
      BY <2>1, <3>3 DEF Placed
  <2>4. QED
    BY <2>2, <2>3
<1>5. ASSUME NEW m \in Msgs, w # m,
             \/ WatchAgentStart(m) \/ WatchDelta(m) \/ WatchTurnEnd(m)
             \/ WatchAgentEnd(m) \/ WatchTimeout(m)
      PROVE  Placed(w, a)'
  <2>1. UNCHANGED <<content[w], buf[w], sent[a]>>
    BY <1>5
    DEF TypeOK, WatchAgentStart, WatchDelta, WatchTurnEnd, WatchAgentEnd, WatchTimeout,
        agentVars
  <2>2. CASE rows' = rows /\ (intact'[w] => intact[w])
    BY <2>1, <2>2, PlacedStays
  <2>3. ASSUME NEW keeps \in BOOLEAN, persistAssistantMessage(m, keeps) PROVE Placed(w, a)'
    <3>1. (intact'[w] => intact[w]) /\ TextBy(w, rows') = TextBy(w, rows)
      BY <1>5, <2>3, Persisted
    <3>2. QED
      BY <2>1, <3>1, PlacedStays
  <2>4. CASE WatchAgentStart(m) \/ WatchDelta(m) \/ WatchTimeout(m)
    <3>1. rows' = rows
      BY <2>4 DEF WatchAgentStart, WatchDelta, WatchTimeout
    <3>2. intact'[w] => intact[w]
      BY <1>0, <1>5, <2>4, Zenon DEF WatchAgentStart, WatchDelta, WatchTimeout
    <3>3. QED
      BY <2>2, <3>1, <3>2
  <2>5. CASE WatchTurnEnd(m)
    BY <2>3, <2>5 DEF WatchTurnEnd
  <2>6. CASE WatchAgentEnd(m)
    <3>1. (Head(buf[m]).piece.msg = m) \in BOOLEAN
      BY Zenon
    <3>2. QED
      BY <2>3, <2>6, <3>1 DEF WatchAgentEnd
  <2>7. QED
    BY <1>5, <2>4, <2>5, <2>6
<1>6. ASSUME WatchTimeout(w) PROVE Placed(w, a)'
  <2>1. /\ rows' = rows /\ sent' = sent /\ ~intact'[w]
        /\ buf'[w] = << >> /\ content'[w] = << >>
    BY <1>6 DEF TypeOK, WatchTimeout, agentVars
  <2>2. InOrder(a, TextBy(w, rows), << >>, << >>, sent[a])
    BY Forget DEF Placed
  <2>3. QED
    BY <2>1, <2>2 DEF Placed
<1>7. ASSUME NEW m \in Msgs, Watch(m) PROVE Placed(w, a)'
  <2>1. CASE w = m
    BY <1>4, <1>6, <1>7, <2>1, PlacedStart, PlacedDelta, PlacedPersist DEF Watch
  <2>2. CASE w # m
    BY <1>4, <1>5, <1>7, <2>2 DEF Watch
  <2>3. QED
    BY <2>1, <2>2
<1>8. CASE UNCHANGED <<rows, content, buf, sent, intact>>
  BY <1>8, PlacedStays
<1>9. ASSUME NEW m \in Msgs, Dispatch(m) PROVE UNCHANGED <<rows, content, buf, sent, intact>>
  BY <1>9 DEF Dispatch, LoadHistory, LoadFails, DispatchTask, watchVars, agentVars
<1>10. ASSUME NEW c \in Clients, Connect(c) \/ Forward(c) \/ Disconnect(c)
       PROVE  UNCHANGED <<rows, content, buf, sent, intact>>
  BY <1>10 DEF Connect, Forward, Disconnect, watchVars, agentVars
<1>11. UNCHANGED vars => UNCHANGED <<rows, content, buf, sent, intact>>
  BY DEF vars, watchVars, agentVars
<1>12. QED
  BY <1>1, <1>3, <1>7, <1>8, <1>9, <1>10, <1>11 DEF Next

-----------------------------------------------------------------------------
(* Every step keeps watchers and agents framed *)

\* An event is put into a channel.
LEMMA EndLastSend ==
  ASSUME NEW a, NEW b \in Seq(Events), NEW e \in Events, NEW was, NEW is, EndLast(a, b, was),
         was => is, was => ~IsDelta(a, e), e.type = "agent_end" /\ e.piece.msg = a => is
  PROVE  EndLast(a, Append(b, e), is)
<1> DEFINE c == Append(b, e)
           last == Len(b) + 1
<1>1. /\ \A k \in DOMAIN c : (k \in DOMAIN b /\ c[k] = b[k]) \/ (k = last /\ c[k] = e)
      /\ \A k \in DOMAIN c : ~(last < k)
  OBVIOUS
<1> HIDE DEF c, last
<1>2. ASSUME NEW k \in DOMAIN c, c[k].type = "agent_end", c[k].piece.msg = a
      PROVE  is /\ \A l \in DOMAIN c : k < l => ~IsDelta(a, c[l])
  <2>1. CASE k \in DOMAIN b /\ c[k] = b[k]
    <3>1. was /\ \A l \in DOMAIN b : k < l => ~IsDelta(a, b[l])
      BY <1>2, <2>1 DEF EndLast
    <3>2. QED
      BY <1>1, <3>1
  <2>2. CASE k = last /\ c[k] = e
    BY <1>1, <1>2, <2>2
  <2>3. QED
    BY <1>1, <2>1, <2>2
<1>3. QED
  BY <1>2 DEF EndLast, c

\* An event is taken out of a channel.
LEMMA EndLastTail ==
  ASSUME NEW a, NEW b \in Seq(Events), b # << >>, NEW ended, EndLast(a, b, ended)
  PROVE  EndLast(a, Tail(b), ended)
<1> DEFINE c == Tail(b)
<1>1. \A k \in DOMAIN c : k \in Nat /\ k + 1 \in DOMAIN b /\ c[k] = b[k + 1]
  OBVIOUS
<1> HIDE DEF c
<1>2. ASSUME NEW k \in DOMAIN c, c[k].type = "agent_end", c[k].piece.msg = a
      PROVE  ended /\ \A l \in DOMAIN c : k < l => ~IsDelta(a, c[l])
  <2>1. ended /\ \A l \in DOMAIN b : k + 1 < l => ~IsDelta(a, b[l])
    BY <1>1, <1>2 DEF EndLast
  <2>2. ASSUME NEW l \in DOMAIN c, k < l PROVE ~IsDelta(a, c[l])
    <3>1. l + 1 \in DOMAIN b /\ k + 1 < l + 1 /\ c[l] = b[l + 1]
      BY <1>1, <2>2
    <3>2. QED
      BY <2>1, <3>1
  <2>3. QED
    BY <2>1, <2>2
<1>3. QED
  BY <1>2 DEF EndLast, c

\* Nothing is in an empty channel.
LEMMA EndLastEmpty ==
  ASSUME NEW a, NEW ended
  PROVE  EndLast(a, << >>, ended)
<1>1. DOMAIN << >> = {}
  OBVIOUS
<1>2. QED
  BY <1>1 DEF EndLast

\* An event of n's agent keeps m framed.
LEMMA FramedPublish ==
  ASSUME TypeOK, NEW m \in Msgs, Framed(m), NEW n \in Msgs, NEW e \in Events, Publish(e),
         e.piece.msg = n, agent[n] \in {"ready", "running", "talking"},
         NEW to, to \notin {"none", "ready"}, agent' = [agent EXCEPT ![n] = to],
         e.type = "agent_end" => to = "ended",
         sent' = sent \/ sent' = [sent EXCEPT ![n] = sent[n] + 1]
  PROVE  Framed(m)'
<1>1. /\ buf[m] \in Seq(Events) /\ intact \in [Msgs -> BOOLEAN]
      /\ agent'[m] = (IF m = n THEN to ELSE agent[m])
      /\ m # n => sent'[m] = sent[m]
  BY DEF TypeOK
<1>2. /\ UNCHANGED <<dpc, wpc, content>>
      /\ buf'[m] = IF wpc[m] = "loop" THEN Offer(buf[m], e) ELSE buf[m]
  BY DEF Publish, dispVars
<1>3. intact'[m] => intact[m]
  BY <1>1, Zenon DEF Publish
<1>4. EndLast(m, buf'[m], agent'[m] = "ended")
  <2> DEFINE was == agent[m] = "ended"
             is == agent'[m] = "ended"
  <2>1. EndLast(m, buf[m], was)
    BY DEF Framed
  <2>2. /\ was => is
        /\ was => ~IsDelta(m, e)
        /\ e.type = "agent_end" /\ e.piece.msg = m => is
    BY <1>1 DEF IsDelta
  <2>3. buf'[m] \in {buf[m], Append(buf[m], e)}
    BY <1>2 DEF Offer
  <2> HIDE DEF was, is
  <2>4. EndLast(m, Append(buf[m], e), is)
    BY <1>1, <2>1, <2>2, EndLastSend
  <2>5. EndLast(m, buf[m], is)
    BY <2>1, <2>2 DEF EndLast
  <2>6. QED
    BY <2>3, <2>4, <2>5 DEF is
<1>5. dpc[m] # "done" => m # n
  BY DEF Framed
<1>6. /\ wpc[m] \in {"off", "spawned"} => ~intact'[m]
      /\ wpc[m] = "done" /\ intact'[m] => agent[m] = "ended"
  BY <1>3 DEF Framed
<1>7. QED
  BY <1>1, <1>2, <1>4, <1>5, <1>6 DEF Framed

\* Every step keeps m's watcher and agent framed: one case per action.
LEMMA StepFramed ==
  ASSUME TypeOK, [Next]_vars, NEW m \in Msgs, Framed(m)
  PROVE  Framed(m)'
<1>0. buf[m] \in Seq(Events) /\ intact \in [Msgs -> BOOLEAN]
  BY DEF TypeOK
<1>1. ASSUME NEW n \in Msgs, PostMessage(n) PROVE Framed(m)'
  BY <1>1 DEF TypeOK, Framed, PostMessage, Posted, watchVars, agentVars
<1>2. ASSUME NEW n \in Msgs, Dispatch(n) PROVE Framed(m)'
  <2>1. CASE LoadHistory(n)
    BY <2>1 DEF TypeOK, Framed, LoadHistory, watchVars, agentVars
  <2>2. CASE LoadFails(n)
    BY <2>2 DEF TypeOK, Framed, LoadFails, watchVars, agentVars
  <2>3. CASE DispatchTask(n)
    <3>1. CASE n = m
      <4>1. /\ dpc'[m] = "done" /\ wpc'[m] = "spawned" /\ agent'[m] = "ready"
            /\ UNCHANGED <<buf, content, intact, sent>>
        BY <2>3, <3>1 DEF TypeOK, DispatchTask
      <4>2. /\ dpc[m] # "done" /\ wpc[m] = "off" /\ agent[m] = "none"
        BY <2>3, <3>1 DEF DispatchTask, Framed
      <4>3. QED
        BY <4>1, <4>2 DEF Framed
    <3>2. CASE n # m
      BY <2>3, <3>2 DEF TypeOK, Framed, DispatchTask
    <3>3. QED
      BY <3>1, <3>2
  <2>4. QED
    BY <1>2, <2>1, <2>2, <2>3 DEF Dispatch
<1>3. ASSUME NEW n \in Msgs, Agent(n) PROVE Framed(m)'
  <2>1. MaxDeltas \in Nat /\ 0 \in 0..MaxDeltas
    BY StreamAssumption
  <2>2. CASE AgentStart(n)
    <3>1. /\ Event("agent_start", n, 0) \in Events
          /\ Event("agent_start", n, 0).type # "agent_end"
          /\ Event("agent_start", n, 0).piece.msg = n
      BY <2>1, EventType DEF Event
    <3>2. QED
      BY <2>2, <3>1, FramedPublish DEF AgentStart
  <2>3. CASE AgentDelta(n)
    <3>1. sent[n] + 1 \in 0..MaxDeltas
      BY <2>1, <2>3 DEF TypeOK, AgentDelta
    <3>2. /\ Event("delta", n, sent[n] + 1) \in Events
          /\ Event("delta", n, sent[n] + 1).type # "agent_end"
          /\ Event("delta", n, sent[n] + 1).piece.msg = n
      BY <3>1, EventType DEF Event
    <3>3. QED
      BY <2>3, <3>2, FramedPublish DEF AgentDelta
  <2>4. CASE AgentTurnEnd(n)
    <3>1. /\ Event("turn_end", n, 0) \in Events
          /\ Event("turn_end", n, 0).type # "agent_end"
          /\ Event("turn_end", n, 0).piece.msg = n
      BY <2>1, EventType DEF Event
    <3>2. QED
      BY <2>4, <3>1, FramedPublish DEF AgentTurnEnd
  <2>5. CASE AgentEnd(n)
    <3>1. /\ Event("agent_end", n, 0) \in Events
          /\ Event("agent_end", n, 0).piece.msg = n
      BY <2>1, EventType DEF Event
    <3>2. QED
      BY <2>5, <3>1, FramedPublish DEF AgentEnd
  <2>6. QED
    BY <1>3, <2>2, <2>3, <2>4, <2>5 DEF Agent
<1>4. ASSUME NEW n \in Msgs, WatchSubscribe(n) PROVE Framed(m)'
  <2>1. UNCHANGED <<dpc, buf, content, agent, sent>>
    BY <1>4 DEF WatchSubscribe, dispVars, agentVars
  <2>2. CASE n # m
    <3>1. wpc'[m] = wpc[m] /\ intact'[m] = intact[m]
      BY <1>0, <1>4, <2>2 DEF TypeOK, WatchSubscribe
    <3>2. QED
      BY <2>1, <3>1 DEF Framed
  <2>3. CASE n = m
    <3>1. /\ wpc[m] = "spawned"
          /\ \/ wpc'[m] = "loop"
             \/ wpc'[m] = "done" /\ intact' = intact
      BY <1>4, <2>3 DEF TypeOK, WatchSubscribe
    <3>2. QED
      BY <2>1, <3>1 DEF Framed
  <2>4. QED
    BY <2>2, <2>3
<1>5. ASSUME NEW n \in Msgs, NEW type, Receives(n, type), buf' = [buf EXCEPT ![n] = Tail(@)],
             UNCHANGED <<dpc, wpc, agent, sent>>, intact'[m] => intact[m],
             n # m => content'[m] = content[m]
      PROVE  Framed(m)'
  <2>1. CASE n # m
    <3>1. buf'[m] = buf[m]
      BY <1>5, <2>1 DEF TypeOK
    <3>2. QED
      BY <1>5, <2>1, <3>1 DEF Framed
  <2>2. CASE n = m
    <3>1. buf'[m] = Tail(buf[m]) /\ buf[m] # << >> /\ wpc[m] = "loop"
      BY <1>5, <2>2 DEF TypeOK, Receives
    <3>2. EndLast(m, buf'[m], agent[m] = "ended")
      <4> DEFINE ended == agent[m] = "ended"
      <4>1. EndLast(m, buf[m], ended)
        BY DEF Framed
      <4> HIDE DEF ended
      <4>2. EndLast(m, Tail(buf[m]), ended)
        BY <1>0, <3>1, <4>1, EndLastTail
      <4>3. QED
        BY <3>1, <4>2 DEF ended
    <3>3. QED
      BY <1>5, <3>1, <3>2 DEF Framed
  <2>3. QED
    BY <2>1, <2>2
<1>6. ASSUME NEW n \in Msgs, WatchAgentStart(n) \/ WatchDelta(n) PROVE Framed(m)'
  <2>1. intact'[m] => intact[m]
    BY <1>0, <1>6, Zenon DEF WatchAgentStart, WatchDelta
  <2>2. n # m => content'[m] = content[m]
    BY <1>6 DEF TypeOK, WatchAgentStart, WatchDelta
  <2>3. QED
    BY <1>5, <1>6, <2>1, <2>2 DEF WatchAgentStart, WatchDelta, dispVars, agentVars
<1>7. ASSUME NEW n \in Msgs, WatchTurnEnd(n) PROVE Framed(m)'
  <2>1. intact'[m] => intact[m]
    BY <1>7, Persisted DEF WatchTurnEnd
  <2>2. n # m => content'[m] = content[m]
    BY <1>7 DEF TypeOK, WatchTurnEnd
  <2>3. QED
    BY <1>5, <1>7, <2>1, <2>2 DEF WatchTurnEnd, dispVars, agentVars
<1>8. ASSUME NEW n \in Msgs, wpc[n] = "loop", wpc' = [wpc EXCEPT ![n] = "done"],
             buf' = [buf EXCEPT ![n] = << >>], content' = [content EXCEPT ![n] = << >>],
             UNCHANGED <<dpc, agent, sent>>, intact'[m] => intact[m],
             n = m /\ intact'[m] => agent[m] = "ended"
      PROVE  Framed(m)'
  <2>1. CASE n # m
    <3>1. wpc'[m] = wpc[m] /\ buf'[m] = buf[m] /\ content'[m] = content[m]
      BY <1>8, <2>1 DEF TypeOK
    <3>2. QED
      BY <1>8, <3>1 DEF Framed
  <2>2. CASE n = m
    <3>1. wpc'[m] = "done" /\ buf'[m] = << >> /\ content'[m] = << >>
      BY <1>8, <2>2 DEF TypeOK
    <3>2. EndLast(m, buf'[m], agent'[m] = "ended")
      BY <3>1, EndLastEmpty
    <3>3. QED
      BY <1>8, <2>2, <3>1, <3>2 DEF Framed
  <2>3. QED
    BY <2>1, <2>2
<1>9. ASSUME NEW n \in Msgs, WatchAgentEnd(n) PROVE Framed(m)'
  <2> DEFINE own == Head(buf[n]).piece.msg = n
  <2>1. own \in BOOLEAN /\ persistAssistantMessage(n, own)
    BY <1>9, Zenon DEF WatchAgentEnd
  <2>2. (intact'[m] => intact[m]) /\ (n = m /\ intact'[m] => own)
    BY <2>1, Persisted
  <2>3. n = m /\ own => agent[m] = "ended"
    <3> SUFFICES ASSUME n = m, own PROVE agent[m] = "ended"
      OBVIOUS
    <3>1. 1 \in DOMAIN buf[m] /\ buf[m][1].type = "agent_end" /\ buf[m][1].piece.msg = m
      BY <1>0, <1>9 DEF WatchAgentEnd, Receives
    <3>2. QED
      BY <3>1 DEF Framed, EndLast
  <2>4. QED
    BY <1>8, <1>9, <2>2, <2>3 DEF WatchAgentEnd, Receives, dispVars, agentVars
<1>10. ASSUME NEW n \in Msgs, WatchTimeout(n) PROVE Framed(m)'
  <2>1. (intact'[m] => intact[m]) /\ (n = m => ~intact'[m])
    BY <1>0, <1>10, Zenon DEF WatchTimeout
  <2>2. QED
    BY <1>8, <1>10, <2>1 DEF WatchTimeout, dispVars, agentVars
<1>11. ASSUME NEW c \in Clients, Connect(c) \/ Forward(c) \/ Disconnect(c) PROVE Framed(m)'
  BY <1>11 DEF Framed, Connect, Forward, Disconnect, dispVars, watchVars, agentVars
<1>12. CASE UNCHANGED vars
  BY <1>12 DEF Framed, vars, dispVars, watchVars, agentVars
<1>13. QED
  BY <1>1, <1>2, <1>3, <1>4, <1>6, <1>7, <1>9, <1>10, <1>11, <1>12 DEF Next, Watch

-----------------------------------------------------------------------------
(* The table knows the messages that were posted, and no others *)

\* Rows are inserted by a handler that posts, or by a watcher in its loop.
LEMMA RowWriters ==
  ASSUME [Next]_vars
  PROVE  \/ rows' = rows
         \/ \E m \in Msgs : PostMessage(m)
         \/ \E m \in Msgs : wpc[m] = "loop" /\ \E keeps \in BOOLEAN : persistAssistantMessage(m, keeps)
<1>1. ASSUME NEW m \in Msgs, WatchTurnEnd(m)
      PROVE  wpc[m] = "loop" /\ \E keeps \in BOOLEAN : persistAssistantMessage(m, keeps)
  BY <1>1 DEF WatchTurnEnd, Receives
<1>2. ASSUME NEW m \in Msgs, WatchAgentEnd(m)
      PROVE  wpc[m] = "loop" /\ \E keeps \in BOOLEAN : persistAssistantMessage(m, keeps)
  <2>1. (Head(buf[m]).piece.msg = m) \in BOOLEAN
    BY Zenon
  <2>2. QED
    BY <1>2, <2>1, Zenon DEF WatchAgentEnd, Receives
<1>3. ASSUME NEW m \in Msgs, Dispatch(m) PROVE rows' = rows
  BY <1>3 DEF Dispatch, LoadHistory, LoadFails, DispatchTask
<1>4. ASSUME NEW m \in Msgs, Agent(m) PROVE rows' = rows
  BY <1>4 DEF Agent, AgentStart, AgentDelta, AgentTurnEnd, AgentEnd, Publish
<1>5. ASSUME NEW m \in Msgs,
             WatchSubscribe(m) \/ WatchAgentStart(m) \/ WatchDelta(m) \/ WatchTimeout(m)
      PROVE  rows' = rows
  BY <1>5 DEF WatchSubscribe, WatchAgentStart, WatchDelta, WatchTimeout
<1>6. ASSUME NEW c \in Clients, Connect(c) \/ Forward(c) \/ Disconnect(c) PROVE rows' = rows
  BY <1>6 DEF Connect, Forward, Disconnect
<1>7. UNCHANGED vars => rows' = rows
  BY DEF vars
<1>8. QED
  BY <1>1, <1>2, <1>3, <1>4, <1>5, <1>6, <1>7 DEF Next, Watch

\* A message is posted once, by its handler.
LEMMA PostedStays ==
  ASSUME TypeOK, [Next]_vars, NEW k \in Msgs
  PROVE  /\ Posted(k) => Posted(k)'
         /\ Posted(k)' => Posted(k) \/ PostMessage(k)
<1>1. ASSUME NEW m \in Msgs, PostMessage(m)
      PROVE  (Posted(k) => Posted(k)') /\ (Posted(k)' => Posted(k) \/ PostMessage(k))
  BY <1>1 DEF TypeOK, Posted, PostMessage
<1>2. ASSUME NEW m \in Msgs, Dispatch(m)
      PROVE  (Posted(k) => Posted(k)') /\ (Posted(k)' => Posted(k))
  BY <1>2 DEF TypeOK, Posted, Dispatch, LoadHistory, LoadFails, DispatchTask
<1>3. CASE dpc' = dpc
  BY <1>3 DEF Posted
<1>4. ASSUME NEW m \in Msgs, Agent(m) PROVE dpc' = dpc
  BY <1>4 DEF Agent, AgentStart, AgentDelta, AgentTurnEnd, AgentEnd, Publish, dispVars
<1>5. ASSUME NEW m \in Msgs, Watch(m) PROVE dpc' = dpc
  BY <1>5 DEF Watch, WatchSubscribe, WatchAgentStart, WatchDelta, WatchTurnEnd, WatchAgentEnd,
              WatchTimeout, dispVars
<1>6. ASSUME NEW c \in Clients, Connect(c) \/ Forward(c) \/ Disconnect(c) PROVE dpc' = dpc
  BY <1>6 DEF Connect, Forward, Disconnect, dispVars
<1>7. UNCHANGED vars => dpc' = dpc
  BY DEF vars, dispVars
<1>8. QED
  BY <1>1, <1>2, <1>3, <1>4, <1>5, <1>6, <1>7 DEF Next

\* What a watcher has put together are deltas of answers to posted messages.
LEMMA ContentPosted ==
  ASSUME SavingInv, NEW w \in Msgs, NEW j \in DOMAIN content[w]
  PROVE  /\ content[w][j] \in Pieces
         /\ content[w][j].msg \in Msgs /\ Posted(content[w][j].msg)
         /\ content[w][j].n \in Nat /\ content[w][j].n > 0
<1> DEFINE q == content[w][j]
           a == q.msg
<1>1. q \in Pieces /\ a \in Msgs
  <2>1. content[w] \in Seq(Pieces)
    BY DEF SavingInv, TypeOK
  <2>2. q \in Pieces
    BY <2>1
  <2>3. QED
    BY <2>2 DEF Pieces
<1>2. InOrder(a, TextBy(w, rows), content[w], buf[w], sent[a])
  BY <1>1 DEF SavingInv, AllPlaced, Placed
<1>3. q.n \in 1..sent[a] /\ sent[a] \in Nat
  <2>1. sent[a] \in Nat
    BY <1>1 DEF SavingInv, TypeOK
  <2>2. QED
    BY <1>2, <2>1 DEF InOrder
<1>4. agent[a] \notin {"none", "ready"}
  BY <1>1, <1>3 DEF SavingInv, AllFramed, Framed
<1>5. Posted(a)
  BY <1>1, <1>4 DEF SavingInv, AllFramed, Framed, Posted
<1>6. QED
  BY <1>1, <1>3, <1>5

\* Posting adds the question, and nothing else.
LEMMA PostAdds ==
  ASSUME TypeOK, NEW m \in Msgs, PostMessage(m)
  PROVE  \A p : p \in TextOf(rows') <=> p \in TextOf(rows) \/ p = [msg |-> m, n |-> 0]
<1> DEFINE text == <<[msg |-> m, n |-> 0]>>
<1>1. PICK role \in Roles : AddMessage(role, "user", m, text)
  BY DEF PostMessage
<1>2. /\ text \in Seq(Pieces)
      /\ \A p : p = [msg |-> m, n |-> 0] <=> \E j \in DOMAIN text : p = text[j]
  BY StreamAssumption DEF Pieces
<1> HIDE DEF text
<1>3. \A p : p \in TextOf(rows') <=> p \in TextOf(rows) \/ \E j \in DOMAIN text : p = text[j]
  BY <1>1, <1>2, TextGrows
<1>4. QED
  BY <1>2, <1>3

\* Every step keeps it so.
LEMMA StepPosted ==
  ASSUME SavingInv, [Next]_vars
  PROVE  SavedPosted' /\ PostedSaved'
<1>0. TypeOK /\ SavedPosted /\ PostedSaved /\ TextOf(rows) \in SUBSET Pieces
  BY TextType DEF SavingInv
<1>1. \A k \in Msgs : (Posted(k) => Posted(k)') /\ (Posted(k)' => Posted(k) \/ PostMessage(k))
  BY <1>0, PostedStays
<1>2. \A p \in TextOf(rows) : p.msg \in Msgs /\ Posted(p.msg)'
  BY <1>0, <1>1 DEF SavedPosted, Pieces
<1>3. CASE rows' = rows /\ \A k \in Msgs : ~PostMessage(k)
  BY <1>0, <1>1, <1>2, <1>3 DEF SavedPosted, PostedSaved
<1>4. ASSUME NEW m \in Msgs, PostMessage(m) PROVE SavedPosted' /\ PostedSaved'
  <2>1. \A p : p \in TextOf(rows') <=> p \in TextOf(rows) \/ p = [msg |-> m, n |-> 0]
    BY <1>0, <1>4, PostAdds
  <2>2. Posted(m)' /\ \A k \in Msgs : Posted(k)' => Posted(k) \/ k = m
    BY <1>0, <1>4 DEF TypeOK, Posted, PostMessage
  <2>3. SavedPosted'
    <3> SUFFICES ASSUME NEW p \in TextOf(rows') PROVE Posted(p.msg)'
      BY DEF SavedPosted
    <3>1. CASE p \in TextOf(rows)
      BY <1>2, <3>1
    <3>2. CASE p = [msg |-> m, n |-> 0]
      BY <2>2, <3>2
    <3>3. QED
      BY <2>1, <3>1, <3>2
  <2>4. PostedSaved'
    BY <1>0, <2>1, <2>2 DEF PostedSaved
  <2>5. QED
    BY <2>3, <2>4
<1>5. ASSUME NEW m \in Msgs, NEW keeps \in BOOLEAN, persistAssistantMessage(m, keeps),
             rows' # rows, \A k \in Msgs : ~PostMessage(k)
      PROVE  SavedPosted' /\ PostedSaved'
  <2>1. \A p : p \in TextOf(rows') <=>
                p \in TextOf(rows) \/ \E j \in DOMAIN content[m] : p = content[m][j]
    BY <1>0, <1>5, Persisted
  <2>2. ASSUME NEW j \in DOMAIN content[m], NEW p, p = content[m][j] PROVE Posted(p.msg)'
    <3>1. p.msg \in Msgs /\ Posted(p.msg)
      BY <2>2, ContentPosted
    <3>2. QED
      BY <1>1, <3>1
  <2>3. SavedPosted'
    <3> SUFFICES ASSUME NEW p \in TextOf(rows') PROVE Posted(p.msg)'
      BY DEF SavedPosted
    <3>1. CASE p \in TextOf(rows)
      BY <1>2, <3>1
    <3>2. CASE \E j \in DOMAIN content[m] : p = content[m][j]
      BY <2>2, <3>2
    <3>3. QED
      BY <2>1, <3>1, <3>2
  <2>4. \A k \in Msgs : Posted(k)' => Posted(k)
    BY <1>1, <1>5
  <2>5. PostedSaved'
    BY <1>0, <2>1, <2>4 DEF PostedSaved
  <2>6. QED
    BY <2>3, <2>5
<1>6. QED
  BY <1>3, <1>4, <1>5, RowWriters

-----------------------------------------------------------------------------
(* The theorems *)

\* The invariant holds initially.
LEMMA InitSaving == Init => SavingInv
<1> SUFFICES ASSUME Init PROVE SavingInv
  OBVIOUS
<1>1. TypeOK
  BY InitType
<1>2. DOMAIN << >> = {} /\ rows = << >>
  BY DEF Init
<1>3. (\A p : p \notin TextOf(rows)) /\ \A p, w : p \notin TextBy(w, rows)
  <2>1. ASSUME NEW p PROVE p \notin TextOf(rows)
    BY <1>2, InText
  <2>2. ASSUME NEW p, NEW w PROVE p \notin TextBy(w, rows)
    BY <1>2, InTextBy
  <2>3. QED
    BY <2>1, <2>2
<1>4. AllPlaced
  <2> SUFFICES ASSUME NEW w \in Msgs, NEW a \in Msgs PROVE Placed(w, a)
    BY DEF AllPlaced
  <2>1. content[w] = << >> /\ buf[w] = << >> /\ ~intact[w]
    BY DEF Init
  <2>2. InOrder(a, TextBy(w, rows), << >>, << >>, sent[a])
    BY <1>2, <1>3 DEF InOrder
  <2>3. QED
    BY <2>1, <2>2 DEF Placed
<1>5. AllFramed
  BY EndLastEmpty DEF Init, AllFramed, Framed
<1>6. SavedPosted /\ PostedSaved
  BY <1>3 DEF Init, SavedPosted, PostedSaved, Posted
<1>7. QED
  BY <1>1, <1>4, <1>5, <1>6 DEF SavingInv

\* Every step keeps it.
LEMMA StepSaving == SavingInv /\ [Next]_vars => SavingInv'
<1> SUFFICES ASSUME SavingInv, [Next]_vars PROVE SavingInv'
  OBVIOUS
<1>1. TypeOK /\ AllFramed /\ AllPlaced
  BY DEF SavingInv
<1>2. TypeOK'
  BY <1>1, StepType
<1>3. AllFramed'
  BY <1>1, StepFramed DEF AllFramed
<1>4. AllPlaced'
  BY <1>1, StepPlaced DEF AllPlaced
<1>5. QED
  BY <1>2, <1>3, <1>4, StepPosted DEF SavingInv

\* The invariant of every behaviour.
LEMMA SavingInvariant == Spec => []SavingInv
<1>1. QED
  BY InitSaving, StepSaving, PTL DEF Spec

\* Whatever overlaps with it: when a watcher returns that lost nothing of its message's
\* answer on the way, the whole answer is in the messages table.  For any number of
\* messages, agents and watchers on the one stream, with full channels, failed INSERTs,
\* timeouts, and agent_starts and agent_ends of other agents.
THEOREM AnswersAreSaved == Spec => []AnswerSaved
<1>1. SavingInv => AnswerSaved
  <2> SUFFICES ASSUME SavingInv, NEW m \in Msgs, wpc[m] = "done", intact[m],
                      NEW n \in 1..sent[m]
               PROVE  [msg |-> m, n |-> n] \in TextOf(rows)
    BY DEF AnswerSaved, Answer
  <2>1. buf[m] = << >> /\ content[m] = << >>
    BY DEF SavingInv, AllFramed, Framed
  <2>2. Whole(m, TextBy(m, rows), << >>, << >>, sent[m])
    BY <2>1 DEF SavingInv, AllPlaced, Placed
  <2>3. DOMAIN << >> = {}
    OBVIOUS
  <2>4. [msg |-> m, n |-> n] \in TextBy(m, rows)
    BY <2>2, <2>3 DEF Whole
  <2>5. QED
    BY <2>4, TextByIn
<1>2. QED
  BY <1>1, SavingInvariant, PTL

\* A step either loads a history for m or leaves m's as it is, or empties it.
LEMMA HistWriters ==
  ASSUME TypeOK, [Next]_vars, NEW m \in Msgs
  PROVE  \/ hist'[m] = hist[m]
         \/ hist'[m] = << >>
         \/ Posted(m) /\ hist'[m] = ListMessages(HistoryLimit)
<1>1. ASSUME NEW k \in Msgs, LoadHistory(k)
      PROVE  hist'[m] = hist[m] \/ (Posted(m) /\ hist'[m] = ListMessages(HistoryLimit))
  <2> DEFINE H == ListMessages(HistoryLimit)
  <2>1. hist \in [Msgs -> Seq(Rows)] /\ hist' = [hist EXCEPT ![k] = H] /\ Posted(k)
    BY <1>1 DEF TypeOK, LoadHistory, Posted
  <2> HIDE DEF H
  <2>2. hist'[m] = IF k = m THEN H ELSE hist[m]
    BY <2>1
  <2>3. k = m => Posted(m)
    BY <2>1
  <2>4. QED
    BY <2>2, <2>3 DEF H
<1>2. ASSUME NEW k \in Msgs, DispatchTask(k) PROVE hist'[m] = hist[m] \/ hist'[m] = << >>
  BY <1>2 DEF TypeOK, DispatchTask
<1>3. ASSUME NEW k \in Msgs, PostMessage(k) \/ LoadFails(k) PROVE hist' = hist
  BY <1>3 DEF PostMessage, LoadFails
<1>4. ASSUME NEW k \in Msgs, Agent(k) PROVE hist' = hist
  BY <1>4 DEF Agent, AgentStart, AgentDelta, AgentTurnEnd, AgentEnd, Publish, dispVars
<1>5. ASSUME NEW k \in Msgs, Watch(k) PROVE hist' = hist
  BY <1>5 DEF Watch, WatchSubscribe, WatchAgentStart, WatchDelta, WatchTurnEnd, WatchAgentEnd,
              WatchTimeout, dispVars
<1>6. ASSUME NEW c \in Clients, Connect(c) \/ Forward(c) \/ Disconnect(c) PROVE hist' = hist
  BY <1>6 DEF Connect, Forward, Disconnect, dispVars
<1>7. UNCHANGED vars => hist' = hist
  BY DEF vars, dispVars
<1>8. QED
  BY <1>1, <1>2, <1>3, <1>4, <1>5, <1>6, <1>7 DEF Next, Dispatch

\* The history that is sent with a message holds the message itself, whatever was inserted
\* between its INSERT and the query, unless the query's limit was reached.
THEOREM QuestionsAreSent == Spec => []QuestionSent
<1>1. Init => QuestionSent
  BY DEF Init, QuestionSent
<1>2. QuestionSent /\ SavingInv /\ [Next]_vars => QuestionSent'
  <2> SUFFICES ASSUME QuestionSent, SavingInv, [Next]_vars, NEW m \in Msgs,
                      hist'[m] # << >>, Len(hist'[m]) < HistoryLimit
               PROVE  [msg |-> m, n |-> 0] \in TextOf(hist'[m])
    BY DEF QuestionSent
  <2>1. CASE hist'[m] = hist[m]
    BY <2>1 DEF QuestionSent
  <2>2. CASE Posted(m) /\ hist'[m] = ListMessages(HistoryLimit)
    <3>1. rows \in Seq(Rows) /\ Len(rows) \in Nat /\ HistoryLimit \in Nat
      BY StreamAssumption DEF SavingInv, TypeOK
    <3>2. CASE Len(rows) <= HistoryLimit
      <4>1. hist'[m] = SubSeq(rows, 1, Len(rows))
        BY <2>2, <3>2 DEF ListMessages
      <4>2. SubSeq(rows, 1, Len(rows)) = rows
        BY <3>1
      <4>3. QED
        BY <2>2, <4>1, <4>2 DEF SavingInv, PostedSaved
    <3>3. CASE ~(Len(rows) <= HistoryLimit)
      <4>1. hist'[m] = SubSeq(rows, 1, HistoryLimit)
        BY <2>2, <3>3 DEF ListMessages
      <4>2. Len(SubSeq(rows, 1, HistoryLimit)) = HistoryLimit
        BY <3>1, <3>3
      <4>3. QED
        BY <3>1, <4>1, <4>2
    <3>4. QED
      BY <3>2, <3>3
  <2>3. QED
    BY <2>1, <2>2, HistWriters DEF SavingInv
<1>3. QED
  BY <1>1, <1>2, SavingInvariant, PTL DEF Spec

-----------------------------------------------------------------------------
(* The messages table implements Transcript *)

\* The log's own notion of a piece that is in it.
LEMMA LoggedText ==
  ASSUME NEW p
  PROVE  Log!Logged(p) <=> p \in TextOf(rows)
<1>1. p \in TextOf(rows) <=>
        \E i \in DOMAIN rows : \E j \in DOMAIN rows[i].text : p = rows[i].text[j]
  BY InText
<1>2. QED
  BY <1>1 DEF Log!Logged

\* Posting a message asks its question.
LEMMA PostAsks ==
  ASSUME SavingInv, NEW m \in Msgs, PostMessage(m)
  PROVE  Log!Ask(m) /\ Len(rows') = Len(rows) + 1
<1>1. PICK role \in Roles : AddMessage(role, "user", m, <<[msg |-> m, n |-> 0]>>)
  BY DEF PostMessage
<1>2. \A i \in DOMAIN rows : \A j \in DOMAIN rows[i].text : rows[i].text[j].msg # m
  <2> SUFFICES ASSUME NEW i \in DOMAIN rows, NEW j \in DOMAIN rows[i].text,
                      rows[i].text[j].msg = m
               PROVE  FALSE
    OBVIOUS
  <2>1. rows[i].text[j] \in TextOf(rows)
    BY InText
  <2>2. QED
    BY <2>1 DEF SavingInv, SavedPosted, PostMessage
<1>3. Len(rows') = Len(rows) + 1
  BY <1>1 DEF SavingInv, TypeOK, AddMessage
<1>4. QED
  BY <1>1, <1>2, <1>3 DEF Log!Ask, AddMessage

\* A watcher that saves a row tells a part of what it heard.
LEMMA PersistTells ==
  ASSUME SavingInv, NEW w \in Msgs, wpc[w] = "loop", NEW keeps \in BOOLEAN,
         persistAssistantMessage(w, keeps), rows' # rows
  PROVE  Log!Tell(w, rows'[Len(rows')].text) /\ Len(rows') = Len(rows) + 1
<1> DEFINE text == content[w]
           r == [role |-> "assistant", author |-> "agent", by |-> w, text |-> text]
<1>1. content[w] # << >> /\ rows' = Append(rows, r)
  BY DEF persistAssistantMessage, AddMessage
<1>2. rows \in Seq(Rows) /\ text \in Seq(Pieces) /\ sent \in [Msgs -> 0..MaxDeltas]
  BY DEF SavingInv, TypeOK
<1>3. r \in Rows
  BY <1>2 DEF Rows
<1>4. Len(rows') = Len(rows) + 1 /\ rows'[Len(rows')] = r /\ r.text = text
  BY <1>1, <1>2, <1>3
<1>5. Log!Logged([msg |-> w, n |-> 0])
  <2>1. Posted(w)
    BY DEF SavingInv, AllFramed, Framed, Posted
  <2>2. QED
    BY <2>1, LoggedText DEF SavingInv, PostedSaved
<1>6. ASSUME NEW j \in DOMAIN text
      PROVE  /\ text[j].msg \in Msgs
             /\ text[j].n > 0 /\ Log!Logged([msg |-> text[j].msg, n |-> 0])
  <2>1. text[j].msg \in Msgs /\ Posted(text[j].msg) /\ text[j].n > 0
    BY ContentPosted
  <2>2. QED
    BY <2>1, LoggedText DEF SavingInv, PostedSaved
<1>7. ASSUME NEW a \in Msgs
      PROVE  InOrder(a, TextBy(w, rows), text, buf[w], sent[a])
  BY DEF SavingInv, AllPlaced, Placed
<1> HIDE DEF text
<1>8. Log!Orderly(text)
  <2> SUFFICES ASSUME NEW j \in DOMAIN text, NEW i \in DOMAIN text, i < j,
                      text[i].msg = text[j].msg
               PROVE  text[i].n < text[j].n
    BY <1>6 DEF Log!Orderly
  <2>1. text[j].msg \in Msgs
    BY <1>6
  <2>2. InOrder(text[j].msg, TextBy(w, rows), text, buf[w], sent[text[j].msg])
    BY <1>7, <2>1
  <2>3. QED
    BY <2>2 DEF InOrder
<1>9. Log!GoesOn(w, text)
  <2> SUFFICES ASSUME NEW i \in DOMAIN rows, rows[i].by = w, NEW l \in DOMAIN rows[i].text,
                      NEW j \in DOMAIN text, rows[i].text[l].msg = text[j].msg
               PROVE  rows[i].text[l].n < text[j].n
    BY DEF Log!GoesOn
  <2>1. text[j].msg \in Msgs
    BY <1>6
  <2>2. rows[i].text[l] \in TextBy(w, rows)
    BY InTextBy
  <2>3. InOrder(text[j].msg, TextBy(w, rows), text, buf[w], sent[text[j].msg])
    BY <1>7, <2>1
  <2>4. QED
    BY <2>2, <2>3 DEF InOrder
<1>10. Log!Tell(w, text)
  BY <1>1, <1>5, <1>8, <1>9 DEF Log!Tell, text
<1>11. QED
  BY <1>4, <1>10

\* The messages table of one conversation implements Transcript: however messages, agents
\* and watchers overlap, rows are only added, every question is asked once and before any
\* part of its answer, and no watcher saves a delta twice or after a later one.
THEOREM TranscriptKept == Spec => KeepsTranscript
<1>1. Init => Log!Init
  BY DEF Init, Log!Init
<1>2. SavingInv /\ [Next]_vars => [Log!Next]_rows
  <2> SUFFICES ASSUME SavingInv, [Next]_vars, rows' # rows PROVE Log!Next
    OBVIOUS
  <2>1. CASE \E m \in Msgs : PostMessage(m)
    BY <2>1, PostAsks DEF Log!Next
  <2>2. CASE \E m \in Msgs : /\ wpc[m] = "loop"
                             /\ \E keeps \in BOOLEAN : persistAssistantMessage(m, keeps)
    BY <2>2, PersistTells DEF Log!Next
  <2>3. QED
    BY <2>1, <2>2, RowWriters
<1>3. QED
  BY <1>1, <1>2, SavingInvariant, PTL DEF Spec, KeepsTranscript, Log!Spec
=============================================================================
