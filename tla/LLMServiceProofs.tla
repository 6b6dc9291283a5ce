-------------------------- MODULE LLMServiceProofs --------------------------
(***************************************************************************)
(* Proofs about the streamed chat for every request, replies of any length  *)
(* and any number of tool calls and fragments.                              *)
(***************************************************************************)
EXTENDS LLMService, SequenceTheorems, WellFoundedInduction, TLAPS

Parts == {"none", "text", "call", "finished"}
Replies == [text : Nat, calls : Seq(Nat), part : Parts]
Decoders == [text : Seq(Nat), calls : Seq(Nat), pending : SUBSET Nat]
Contents == [text : Seq(Nat), calls : Seq(Nat)]
Chunks == [text : Nat, call : Nat, fragments : Nat, final : BOOLEAN, content : Contents]

\* The stream's state is typed; a call is in progress only if there is one.
Typed ==
    /\ kind \in Kinds
    /\ reply \in Replies /\ dec \in Decoders /\ out \in Seq(Chunks)
    /\ reply.part = "call" => Len(reply.calls) > 0

-----------------------------------------------------------------------------
(* Counting chunks *)

\* A chunk that carries no number changes no count.
LEMMA CountsSkip ==
  ASSUME NEW s \in Seq(Nat), NEW n \in Nat, CountsTo(s, n)
  PROVE  CountsTo(Append(s, 0), n)
<1> DEFINE t == Append(s, 0)
<1>1. /\ DOMAIN t = 1..(Len(s) + 1) /\ DOMAIN s = 1..Len(s) /\ Len(s) \in Nat
      /\ t[Len(s) + 1] = 0 /\ \A i \in 1..Len(s) : t[i] = s[i]
  OBVIOUS
<1> HIDE DEF t
<1>2. \A i \in DOMAIN t : t[i] \in 0..n
  BY <1>1 DEF CountsTo
<1>3. \A k \in 1..n : \E i \in DOMAIN t : t[i] = k
  BY <1>1 DEF CountsTo
<1>4. \A i, j \in DOMAIN t : i < j /\ t[i] # 0 /\ t[j] # 0 => t[i] < t[j]
  <2> SUFFICES ASSUME NEW i \in DOMAIN t, NEW j \in DOMAIN t, i < j, t[i] # 0, t[j] # 0
               PROVE  t[i] < t[j]
    OBVIOUS
  <2>1. i \in DOMAIN s /\ j \in DOMAIN s /\ t[i] = s[i] /\ t[j] = s[j]
    BY <1>1
  <2>2. QED
    BY <2>1 DEF CountsTo
<1>5. CountsTo(t, n)
  BY <1>2, <1>3, <1>4 DEF CountsTo
<1>6. QED
  BY <1>5 DEF t

\* The next number, appended, carries the count on.
LEMMA CountsNext ==
  ASSUME NEW s \in Seq(Nat), NEW n \in Nat, CountsTo(s, n)
  PROVE  CountsTo(Append(s, n + 1), n + 1)
<1> DEFINE t == Append(s, n + 1)
<1>1. /\ DOMAIN t = 1..(Len(s) + 1) /\ DOMAIN s = 1..Len(s) /\ Len(s) \in Nat
      /\ t[Len(s) + 1] = n + 1 /\ \A i \in 1..Len(s) : t[i] = s[i]
  OBVIOUS
<1> HIDE DEF t
<1>2. \A i \in DOMAIN t : t[i] \in 0..(n + 1)
  BY <1>1 DEF CountsTo
<1>3. \A k \in 1..(n + 1) : \E i \in DOMAIN t : t[i] = k
  <2> SUFFICES ASSUME NEW k \in 1..(n + 1) PROVE \E i \in DOMAIN t : t[i] = k
    OBVIOUS
  <2>1. CASE k = n + 1
    BY <1>1, <2>1
  <2>2. CASE k \in 1..n
    <3>1. PICK i \in DOMAIN s : s[i] = k
      BY <2>2 DEF CountsTo
    <3>2. QED
      BY <1>1, <3>1
  <2>3. QED
    BY <2>1, <2>2
<1>4. \A i, j \in DOMAIN t : i < j /\ t[i] # 0 /\ t[j] # 0 => t[i] < t[j]
  <2> SUFFICES ASSUME NEW i \in DOMAIN t, NEW j \in DOMAIN t, i < j, t[i] # 0, t[j] # 0
               PROVE  t[i] < t[j]
    OBVIOUS
  <2>1. i \in DOMAIN s /\ t[i] = s[i]
    BY <1>1
  <2>2. s[i] \in 0..n
    BY <2>1 DEF CountsTo
  <2>3. CASE j = Len(s) + 1
    BY <1>1, <2>1, <2>2, <2>3
  <2>4. CASE j \in DOMAIN s
    <3>1. t[j] = s[j]
      BY <1>1, <2>4
    <3>2. QED
      BY <2>1, <2>4, <3>1 DEF CountsTo
  <2>5. QED
    BY <1>1, <2>3, <2>4
<1>5. CountsTo(t, n + 1)
  BY <1>2, <1>3, <1>4 DEF CountsTo
<1>6. QED
  BY <1>5 DEF t

\* The numbers of the chunks when one more is sent.
LEMMA NumbersAppend ==
  ASSUME NEW o \in Seq(Chunks), NEW c \in Chunks
  PROVE  /\ TextNumbers(o) \in Seq(Nat)
         /\ TextNumbers(Append(o, c)) = Append(TextNumbers(o), c.text)
<1> DEFINE t == Append(o, c)
<1>1. /\ DOMAIN t = 1..(Len(o) + 1) /\ DOMAIN o = 1..Len(o) /\ Len(o) \in Nat
      /\ t[Len(o) + 1] = c /\ \A i \in 1..Len(o) : t[i] = o[i] /\ o[i] \in Chunks
  OBVIOUS
<1> HIDE DEF t
<1>2. TextNumbers(o) \in Seq(Nat) /\ Len(TextNumbers(o)) = Len(o)
  BY <1>1 DEF TextNumbers, Chunks
<1>3. TextNumbers(t) = Append(TextNumbers(o), c.text)
  BY <1>1, <1>2 DEF TextNumbers
<1>4. QED
  BY <1>2, <1>3 DEF t

-----------------------------------------------------------------------------
(* Chunks and replies *)

\* The zero chunk.
LEMMA EmptyShape ==
  EmptyChunk \in Chunks /\ ~EmptyChunk.final /\ EmptyChunk.call = 0 /\ EmptyChunk.text = 0
  BY DEF EmptyChunk, Chunks, NoContent, Contents

\* The three chunks that the streams make, as chunkToProto sends them: a text delta,
LEMMA TextShape ==
  ASSUME NEW n \in Nat, NEW c, c = chunkToProto(TextChunk(n))
  PROVE  c \in Chunks /\ c.text = n /\ c.call = 0
<1> DEFINE d == TextChunk(n)
<1>1. d \in Chunks /\ d.text = n /\ d.call = 0 /\ ~d.final
  BY EmptyShape DEF TextChunk, Chunks
<1> HIDE DEF d
<1>2. chunkToProto(d) = [EmptyChunk EXCEPT !.text = n]
  BY <1>1 DEF chunkToProto
<1>3. QED
  BY <1>2, EmptyShape DEF Chunks, d

\* a tool call, whatever text stands beside it,
LEMMA CallShape ==
  ASSUME NEW d \in Chunks, d.call # 0, ~d.final, NEW c, c = chunkToProto(d)
  PROVE  c \in Chunks /\ c.call = d.call /\ c.text = 0 /\ c.fragments = d.fragments
<1>1. c = [EmptyChunk EXCEPT !.call = d.call, !.fragments = d.fragments]
  BY DEF chunkToProto
<1>2. d.call \in Nat /\ d.fragments \in Nat
  BY DEF Chunks
<1>3. QED
  BY <1>1, <1>2, EmptyShape DEF Chunks

LEMMA CallChunkShape ==
  ASSUME NEW n \in Nat, NEW k \in Nat, k # 0, NEW c, c = chunkToProto(CallChunk(k, n))
  PROVE  c \in Chunks /\ c.call = k /\ c.text = 0 /\ c.fragments = n
<1> DEFINE d == CallChunk(k, n)
<1>1. d \in Chunks /\ d.call = k /\ d.fragments = n /\ ~d.final
  BY EmptyShape DEF CallChunk, Chunks
<1>2. c = chunkToProto(d)
  OBVIOUS
<1> HIDE DEF d
<1>3. QED
  BY <1>1, <1>2, CallShape

\* and the Final chunk.
LEMMA FinalShape ==
  ASSUME NEW content \in Contents, NEW c, c = chunkToProto(FinalChunk(content))
  PROVE  c \in Chunks /\ c.text = 0 /\ c.call = 0 /\ c.final /\ c.content = content
<1> DEFINE d == FinalChunk(content)
<1>1. d \in Chunks /\ d.final /\ d.content = content
  BY EmptyShape DEF FinalChunk, Chunks
<1> HIDE DEF d
<1>2. chunkToProto(d) = [EmptyChunk EXCEPT !.final = TRUE, !.content = content]
  BY <1>1 DEF chunkToProto
<1>3. QED
  BY <1>2, EmptyShape DEF Chunks, d

\* One more text delta.
LEMMA TextReply ==
  ASSUME reply \in Replies
  PROVE  /\ WithText \in Replies /\ WithText.text = reply.text + 1
         /\ WithText.calls = reply.calls /\ WithText.part = "text"
<1>1. WithText = [reply EXCEPT !.text = reply.text + 1, !.part = "text"]
  BY DEF WithText, Replies
<1>2. reply.text + 1 \in Nat
  BY DEF Replies
<1>3. QED
  BY <1>1, <1>2 DEF Replies, Parts

\* One more fragment of the call in progress: the calls before it stay as they are.
LEMMA FragmentReply ==
  ASSUME reply \in Replies, Len(reply.calls) > 0
  PROVE  /\ WithFragment \in Replies /\ WithFragment.text = reply.text
         /\ WithFragment.part = reply.part
         /\ WithFragment.calls
              = [reply.calls EXCEPT ![Len(reply.calls)] = reply.calls[Len(reply.calls)] + 1]
         /\ Len(WithFragment.calls) = Len(reply.calls)
         /\ \A k \in 1..(Len(reply.calls) - 1) : WithFragment.calls[k] = reply.calls[k]
         /\ WithFragment.calls # reply.calls
<1> DEFINE s == reply.calls  n == Len(reply.calls)  t == [s EXCEPT ![n] = s[n] + 1]
<1>1. s \in Seq(Nat) /\ n \in Nat /\ n > 0 /\ n \in DOMAIN s
  BY DEF Replies
<1>2. /\ t \in Seq(Nat) /\ Len(t) = n /\ t[n] = s[n] + 1 /\ s[n] \in Nat
      /\ \A k \in 1..(n - 1) : t[k] = s[k]
  BY <1>1
<1>3. t # s
  BY <1>2
<1>4. WithFragment = [reply EXCEPT !.calls = t]
  BY <1>1 DEF WithFragment, Replies
<1> HIDE DEF t
<1>5. /\ WithFragment \in Replies /\ WithFragment.text = reply.text
      /\ WithFragment.part = reply.part /\ WithFragment.calls = t
  BY <1>2, <1>4 DEF Replies
<1>6. QED
  BY <1>2, <1>3, <1>5 DEF t

\* The next call, with its first fragment or without one.
LEMMA CallReply ==
  ASSUME reply \in Replies, NEW n \in Nat
  PROVE  /\ WithCall(n) \in Replies /\ WithCall(n).text = reply.text
         /\ WithCall(n).part = "call"
         /\ WithCall(n).calls = Append(reply.calls, n)
         /\ Len(WithCall(n).calls) = Len(reply.calls) + 1
         /\ WithCall(n).calls[Len(reply.calls) + 1] = n
         /\ \A k \in 1..Len(reply.calls) : WithCall(n).calls[k] = reply.calls[k]
<1>1. WithCall(n) = [reply EXCEPT !.calls = Append(reply.calls, n), !.part = "call"]
  BY DEF WithCall, Replies
<1>2. reply.calls \in Seq(Nat) /\ Append(reply.calls, n) \in Seq(Nat)
  BY DEF Replies
<1>3. /\ WithCall(n) \in Replies /\ WithCall(n).text = reply.text /\ WithCall(n).part = "call"
      /\ WithCall(n).calls = Append(reply.calls, n)
  BY <1>1, <1>2 DEF Replies, Parts
<1>4. QED
  BY <1>2, <1>3

-----------------------------------------------------------------------------
(* The inductive invariant *)

\* The decoder has put together the calls that were generated; Anthropic's open block
\* has an entry as soon as it has a fragment.
Decoded ==
    /\ dec.calls = reply.calls
    /\ kind = "anthropic" =>
         dec.pending = IF reply.part = "call" /\ reply.calls[Len(reply.calls)] > 0
                       THEN {Len(reply.calls)} ELSE {}

\* A call is sent when it is complete, so that no fragment comes after it.
Whole ==
    \A i \in DOMAIN out :
        out[i].call # 0 => /\ out[i].call \in 1..Complete
                           /\ out[i].fragments = reply.calls[out[i].call]

Once ==
    \A i, j \in DOMAIN out : out[i].call # 0 /\ out[i].call = out[j].call => i = j

\* Every complete call with input was sent, after the calls before it.
AllSent ==
    \A k \in 1..Complete : reply.calls[k] > 0 => \E i \in DOMAIN out : out[i].call = k

Ascending ==
    \A i, j \in DOMAIN out :
        i < j /\ out[i].call # 0 /\ out[j].call # 0 => out[i].call < out[j].call

\* OpenAI and Anthropic send every complete call in order, Ollama one at the end;
\* Anthropic sends every text delta.
Counted ==
    /\ kind # "ollama" => AllSent /\ Ascending
    /\ kind = "anthropic" => CountsTo(TextNumbers(out), reply.text)
    /\ kind = "ollama" /\ reply.part # "finished" => \A i \in DOMAIN out : out[i].call = 0

OutInv == Whole /\ Once /\ Counted

ChatInv == Typed /\ Decoded /\ OutInv

\* The complete calls are calls of the reply.
LEMMA CompleteType ==
  ASSUME Typed
  PROVE  /\ Complete \in Nat /\ Complete <= Len(reply.calls) /\ Len(reply.calls) \in Nat
         /\ DOMAIN reply.calls = 1..Len(reply.calls)
  BY DEF Typed, Complete, Replies

-----------------------------------------------------------------------------
(* What a step does to the chunks *)

\* Nothing is sent, and no further call with input is complete.
LEMMA SendNothing ==
  ASSUME Typed, OutInv, out' = out, kind' = kind,
         \/ Complete' = Complete
         \/ Complete' = Complete + 1 /\ reply'.calls[Complete + 1] = 0,
         \A k \in 1..Complete : reply'.calls[k] = reply.calls[k],
         reply'.text = reply.text, kind = "ollama" => reply'.part = reply.part
  PROVE  OutInv'
<1>0. Complete \in Nat
  BY CompleteType
<1>1. Whole'
  BY <1>0 DEF OutInv, Whole
<1>2. Once'
  BY DEF OutInv, Once
<1>3. Counted'
  <2>1. kind' # "ollama" => AllSent' /\ Ascending'
    BY <1>0 DEF OutInv, Counted, AllSent, Ascending
  <2>2. kind' = "anthropic" => CountsTo(TextNumbers(out'), reply'.text)
    BY DEF OutInv, Counted
  <2>3. kind' = "ollama" /\ reply'.part # "finished" => \A i \in DOMAIN out' : out'[i].call = 0
    BY DEF OutInv, Counted
  <2>4. QED
    BY <2>1, <2>2, <2>3 DEF Counted
<1>4. QED
  BY <1>1, <1>2, <1>3 DEF OutInv

\* The chunks after one more.
LEMMA OutAppend ==
  ASSUME Typed, NEW c \in Chunks, out' = Append(out, c)
  PROVE  /\ DOMAIN out' = 1..(Len(out) + 1) /\ DOMAIN out = 1..Len(out) /\ Len(out) \in Nat
         /\ out'[Len(out) + 1] = c /\ \A i \in 1..Len(out) : out'[i] = out[i]
         /\ \A i \in DOMAIN out : out[i] \in Chunks
         /\ out' \in Seq(Chunks)
  BY DEF Typed

\* A chunk without a call is sent, the next text delta or none.
LEMMA SendNoCall ==
  ASSUME Typed, OutInv, NEW c \in Chunks, out' = Append(out, c), c.call = 0,
         kind' = kind, Complete' = Complete,
         \A k \in 1..Complete : reply'.calls[k] = reply.calls[k],
         kind = "anthropic" => \/ c.text = 0 /\ reply'.text = reply.text
                               \/ c.text = reply.text + 1 /\ reply'.text = reply.text + 1,
         kind = "ollama" /\ reply.part = "finished" => reply'.part = "finished"
  PROVE  OutInv'
<1>1. Complete \in Nat /\ reply.text \in Nat
  BY CompleteType DEF Typed, Replies
<1>2. Whole'
  BY OutAppend DEF OutInv, Whole
<1>3. Once'
  BY OutAppend DEF OutInv, Once
<1>4. Counted'
  <2>0. out \in Seq(Chunks)
    BY DEF Typed
  <2>1. kind' # "ollama" => AllSent'
    BY OutAppend DEF OutInv, Counted, AllSent
  <2>2. kind' # "ollama" => Ascending'
    BY OutAppend DEF OutInv, Counted, Ascending
  <2>3. kind' = "anthropic" => CountsTo(TextNumbers(out'), reply'.text)
    BY <1>1, <2>0, NumbersAppend, CountsSkip, CountsNext DEF OutInv, Counted
  <2>4. kind' = "ollama" /\ reply'.part # "finished" => \A i \in DOMAIN out' : out'[i].call = 0
    BY OutAppend DEF OutInv, Counted
  <2>5. QED
    BY <2>1, <2>2, <2>3, <2>4 DEF Counted
<1>5. QED
  BY <1>2, <1>3, <1>4 DEF OutInv

\* OpenAI or Anthropic send the call that has just become complete.
LEMMA SendCall ==
  ASSUME Typed, OutInv, NEW c \in Chunks, out' = Append(out, c), kind # "ollama",
         kind' = kind, c.text = 0, c.call = Complete + 1, Complete' = Complete + 1,
         c.fragments = reply'.calls[Complete + 1],
         \A k \in 1..Complete : reply'.calls[k] = reply.calls[k],
         kind = "anthropic" => reply'.text = reply.text
  PROVE  OutInv'
<1>1. Complete \in Nat /\ reply.text \in Nat
  BY CompleteType DEF Typed, Replies
<1>2. Whole'
  BY <1>1, OutAppend DEF OutInv, Whole
<1>3. Once'
  <2> SUFFICES ASSUME NEW i \in DOMAIN out', NEW j \in DOMAIN out', out'[i].call # 0,
                      out'[i].call = out'[j].call
               PROVE  i = j
    BY DEF Once
  <2>1. \A k \in DOMAIN out : out[k].call # Complete + 1
    BY <1>1 DEF OutInv, Whole
  <2>2. QED
    BY <2>1, OutAppend DEF OutInv, Once
<1>4. Counted'
  <2>0. out \in Seq(Chunks)
    BY DEF Typed
  <2>1. AllSent'
    <3> SUFFICES ASSUME NEW k \in 1..(Complete + 1), reply'.calls[k] > 0
                 PROVE  \E i \in DOMAIN out' : out'[i].call = k
      BY DEF AllSent
    <3>1. CASE k = Complete + 1
      BY <3>1, OutAppend
    <3>2. CASE k \in 1..Complete
      <4>1. PICK i \in DOMAIN out : out[i].call = k
        BY <3>2 DEF OutInv, Counted, AllSent
      <4>2. QED
        BY <4>1, OutAppend
    <3>3. QED
      BY <1>1, <3>1, <3>2
  <2>2. Ascending'
    <3> SUFFICES ASSUME NEW i \in DOMAIN out', NEW j \in DOMAIN out', i < j,
                        out'[i].call # 0, out'[j].call # 0
                 PROVE  out'[i].call < out'[j].call
      BY DEF Ascending
    <3>1. i \in DOMAIN out /\ out'[i] = out[i]
      BY OutAppend
    <3>2. out[i].call \in 1..Complete
      BY <3>1 DEF OutInv, Whole
    <3>3. CASE j = Len(out) + 1
      BY <1>1, <3>1, <3>2, <3>3, OutAppend
    <3>4. CASE j \in DOMAIN out
      BY <3>1, <3>4, OutAppend DEF OutInv, Counted, Ascending
    <3>5. QED
      BY <3>3, <3>4, OutAppend
  <2>3. kind' = "anthropic" => CountsTo(TextNumbers(out'), reply'.text)
    BY <1>1, <2>0, NumbersAppend, CountsSkip DEF OutInv, Counted
  <2>4. QED
    BY <2>1, <2>2, <2>3 DEF Counted
<1>5. QED
  BY <1>2, <1>3, <1>4 DEF OutInv

\* Ollama sends one of the calls with the finish reason.
LEMMA SendLast ==
  ASSUME Typed, OutInv, NEW c \in Chunks, out' = Append(out, c), kind = "ollama",
         kind' = kind, reply.part # "finished", reply'.part = "finished",
         c.call \in 1..Len(reply'.calls), c.fragments = reply'.calls[c.call]
  PROVE  OutInv'
<1>1. \A i \in DOMAIN out : out[i].call = 0
  BY DEF OutInv, Counted
<1>2. Complete' = Len(reply'.calls)
  BY DEF Complete
<1>3. Whole'
  BY <1>1, <1>2, OutAppend DEF Whole
<1>4. Once'
  BY <1>1, OutAppend DEF Once
<1>5. Counted'
  BY DEF Counted
<1>6. QED
  BY <1>3, <1>4, <1>5 DEF OutInv

-----------------------------------------------------------------------------
(* One lemma per event *)

\* What Recv reports as just finished is the next call to send.
LEMMA CallDone ==
  ASSUME Typed, Decoded, reply.part = "call"
  PROVE  /\ Len(reply.calls) = Complete + 1 /\ Complete \in Nat
         /\ Last(dec.calls) = reply.calls[Complete + 1]
         /\ reply.calls[Complete + 1] \in Nat
<1>1. Len(reply.calls) \in Nat /\ Len(reply.calls) > 0 /\ reply.calls \in Seq(Nat)
  BY DEF Typed, Replies
<1>2. Complete = Len(reply.calls) - 1
  BY DEF Complete
<1>3. Last(dec.calls) = reply.calls[Len(reply.calls)]
  BY DEF Decoded, Last
<1>4. QED
  BY <1>1, <1>2, <1>3

\* A decoder that took another text delta.
LEMMA AddTextDecoder ==
  ASSUME Typed
  PROVE  AddText \in Decoders /\ AddText.calls = dec.calls
<1>1. reply.text \in Nat /\ dec \in Decoders
  BY DEF Typed, Replies
<1> DEFINE t == Append(dec.text, reply.text + 1)
<1>2. t \in Seq(Nat)
  BY <1>1 DEF Decoders
<1>3. AddText = [dec EXCEPT !.text = t]
  BY <1>1 DEF AddText, Decoders
<1> HIDE DEF t
<1>4. QED
  BY <1>1, <1>2, <1>3 DEF Decoders

\* Before the first event, and after the last.
LEMMA QuietStep ==
  ASSUME ChatInv, UNCHANGED <<kind, reply, dec, out>>
  PROVE  ChatInv'
<1>1. Typed' /\ Decoded'
  BY DEF ChatInv, Typed, Decoded
<1>2. Complete' = Complete
  BY DEF Complete
<1>3. OutInv'
  BY <1>2, SendNothing DEF ChatInv
<1>4. QED
  BY <1>1, <1>3 DEF ChatInv

\* OpenAI sends the call that JustFinishedToolCall reports.
LEMMA SendFinished ==
  ASSUME Typed, Decoded, OutInv, kind = "openai", kind' = kind, JustFinished # 0,
         Send(CallChunk(JustFinished, Last(dec.calls))),
         Complete' = Len(reply.calls),
         \A k \in 1..Len(reply.calls) : reply'.calls[k] = reply.calls[k]
  PROVE  out' \in Seq(Chunks) /\ OutInv'
<1>1. reply.part = "call" /\ JustFinished = Len(reply.calls)
  BY DEF JustFinished
<1>2. /\ Len(reply.calls) = Complete + 1 /\ Complete \in Nat
      /\ Last(dec.calls) = reply.calls[Complete + 1] /\ reply.calls[Complete + 1] \in Nat
  BY <1>1, CallDone
<1> DEFINE c == chunkToProto(CallChunk(Complete + 1, reply.calls[Complete + 1]))
<1>3. out' = Append(out, c)
  BY <1>1, <1>2 DEF Send
<1>4. Complete + 1 \in Nat /\ Complete + 1 # 0 /\ Complete' = Complete + 1
  BY <1>2
<1>5. /\ c \in Chunks /\ c.text = 0 /\ c.call = Complete + 1
      /\ c.fragments = reply.calls[Complete + 1]
  BY <1>2, <1>4, CallChunkShape
<1> HIDE DEF c
<1>6. /\ \A k \in 1..Complete : reply'.calls[k] = reply.calls[k]
      /\ reply'.calls[Complete + 1] = reply.calls[Complete + 1]
  BY <1>2
<1>7. OutInv'
  BY <1>3, <1>4, <1>5, <1>6, SendCall
<1>8. QED
  BY <1>3, <1>5, <1>7, OutAppend

\* A text delta of OpenAI.
LEMMA OpenAITextStep ==
  ASSUME ChatInv, OpenAIText
  PROVE  ChatInv'
<1>1. /\ Typed /\ Decoded /\ OutInv /\ kind = "openai" /\ kind' = kind
      /\ reply' = WithText /\ dec' = AddText /\ reply \in Replies /\ reply.text \in Nat
  BY DEF ChatInv, OpenAIText, Receiving, Typed, Replies
<1>2. /\ reply' \in Replies /\ reply'.text = reply.text + 1 /\ reply'.part = "text"
      /\ reply'.calls = reply.calls
  BY <1>1, TextReply
<1>3. Complete' = Len(reply.calls)
  BY <1>2 DEF Complete
<1>4. Decoded' /\ dec' \in Decoders
  BY <1>1, <1>2, AddTextDecoder DEF Decoded
<1>5. out' \in Seq(Chunks) /\ OutInv'
  <2>1. CASE JustFinished # 0
    BY <1>1, <1>2, <1>3, <2>1, SendFinished DEF OpenAIText
  <2>2. CASE JustFinished = 0
    <3> DEFINE c == chunkToProto(TextChunk(reply.text + 1))
    <3>1. out' = Append(out, c)
      BY <2>2 DEF OpenAIText, Send
    <3>2. c \in Chunks /\ c.call = 0
      BY <1>1, TextShape
    <3> HIDE DEF c
    <3>3. Complete' = Complete
      BY <1>1, <1>3, <2>2 DEF Complete, JustFinished, Typed
    <3>4. QED
      BY <1>1, <1>2, <3>1, <3>2, <3>3, SendNoCall, OutAppend
  <2>3. QED
    BY <2>1, <2>2
<1>6. Typed'
  BY <1>1, <1>2, <1>4, <1>5 DEF Typed
<1>7. QED
  BY <1>4, <1>5, <1>6 DEF ChatInv

\* The decoder follows a fragment of the call in progress, or the next call.
LEMMA FragmentDecoder ==
  ASSUME Typed, Decoded, NEW n \in Nat
  PROVE  /\ SameCall /\ dec' = [dec EXCEPT !.calls[Len(reply.calls)] = @ + 1] =>
              dec' \in Decoders /\ dec'.calls = WithFragment.calls
         /\ dec' = [dec EXCEPT !.calls = Append(@, n)] =>
              /\ dec' \in Decoders /\ dec'.calls = WithCall(n).calls
              /\ dec'.pending = dec.pending
         /\ SameCall /\ dec' = [dec EXCEPT !.calls[Len(reply.calls)] = @ + 1,
                                           !.pending = @ \cup {Len(reply.calls)}] =>
              /\ dec' \in Decoders /\ dec'.calls = WithFragment.calls
              /\ dec'.pending = dec.pending \cup {Len(reply.calls)}
<1> DEFINE s == reply.calls  m == Len(reply.calls)  t == [s EXCEPT ![m] = s[m] + 1]
           u == Append(s, n)
<1>0. /\ dec \in Decoders /\ reply \in Replies /\ dec.calls = s /\ s \in Seq(Nat) /\ m \in Nat
      /\ u \in Seq(Nat)
  BY DEF Typed, Decoded, Replies
<1>1. /\ dec \in Decoders /\ reply \in Replies /\ dec.calls = s /\ s \in Seq(Nat) /\ m \in Nat
      /\ WithCall(n).calls = u /\ u \in Seq(Nat)
  BY <1>0, CallReply
<1>2. ASSUME SameCall
      PROVE  /\ m > 0 /\ m \in DOMAIN s /\ WithFragment.calls = t /\ t \in Seq(Nat)
  <2>1. m > 0 /\ m \in DOMAIN s
    BY <1>1, <1>2 DEF SameCall, Typed
  <2>2. WithFragment \in Replies /\ WithFragment.calls = t
    BY <1>1, <2>1, FragmentReply
  <2>3. QED
    BY <2>1, <2>2 DEF Replies
<1>3. ASSUME SameCall, dec' = [dec EXCEPT !.calls[Len(reply.calls)] = @ + 1]
      PROVE  dec' \in Decoders /\ dec'.calls = WithFragment.calls
  <2>1. dec' = [dec EXCEPT !.calls = t]
    BY <1>1, <1>2, <1>3 DEF Decoders
  <2> HIDE DEF t
  <2>2. QED
    BY <1>1, <1>2, <1>3, <2>1 DEF Decoders
<1>4. ASSUME dec' = [dec EXCEPT !.calls = Append(@, n)]
      PROVE  /\ dec' \in Decoders /\ dec'.calls = WithCall(n).calls
             /\ dec'.pending = dec.pending
  <2>1. dec' = [dec EXCEPT !.calls = u]
    BY <1>1, <1>4 DEF Decoders
  <2> HIDE DEF u
  <2>2. QED
    BY <1>1, <2>1 DEF Decoders
<1>5. ASSUME SameCall, dec' = [dec EXCEPT !.calls[Len(reply.calls)] = @ + 1,
                                          !.pending = @ \cup {Len(reply.calls)}]
      PROVE  /\ dec' \in Decoders /\ dec'.calls = WithFragment.calls
             /\ dec'.pending = dec.pending \cup {Len(reply.calls)}
  <2> DEFINE q == dec.pending \cup {m}
  <2>1. dec' = [dec EXCEPT !.calls = t, !.pending = q]
    BY <1>1, <1>2, <1>5 DEF Decoders
  <2>2. q \in SUBSET Nat
    BY <1>1 DEF Decoders
  <2> HIDE DEF t, q
  <2>3. dec' \in Decoders /\ dec'.calls = WithFragment.calls /\ dec'.pending = q
    BY <1>1, <1>2, <1>5, <2>1, <2>2 DEF Decoders
  <2>4. QED
    BY <2>3 DEF q
<1>6. QED
  BY <1>3, <1>4, <1>5

\* A fragment of the call in progress completes no call and changes no complete one.
LEMMA SameCallEffect ==
  ASSUME Typed, SameCall, reply' = WithFragment
  PROVE  /\ reply' \in Replies /\ reply'.text = reply.text /\ reply'.part = "call"
         /\ Len(reply'.calls) = Len(reply.calls) /\ Len(reply.calls) > 0
         /\ Complete' = Complete /\ reply.part = "call"
         /\ \A k \in 1..Complete : reply'.calls[k] = reply.calls[k]
<1>1. reply \in Replies /\ Len(reply.calls) > 0 /\ reply.part = "call"
  BY DEF Typed, SameCall
<1>2. /\ reply' \in Replies /\ reply'.text = reply.text /\ reply'.part = "call"
      /\ Len(reply'.calls) = Len(reply.calls)
      /\ \A k \in 1..(Len(reply.calls) - 1) : reply'.calls[k] = reply.calls[k]
  BY <1>1, FragmentReply
<1>3. Complete = Len(reply.calls) - 1 /\ Complete' = Complete
  BY <1>1, <1>2 DEF Complete
<1>4. QED
  BY <1>1, <1>2, <1>3

\* The start of a call completes the one in progress, if there is one.
LEMMA NextCallEffect ==
  ASSUME Typed, NEW n \in Nat, reply' = WithCall(n)
  PROVE  /\ reply' \in Replies /\ reply'.text = reply.text /\ reply'.part = "call"
         /\ Len(reply'.calls) = Len(reply.calls) + 1 /\ Len(reply'.calls) > 0
         /\ reply'.calls[Len(reply'.calls)] = n
         /\ Complete' = Len(reply.calls)
         /\ reply.part # "call" => Complete' = Complete
         /\ \A k \in 1..Len(reply.calls) : reply'.calls[k] = reply.calls[k]
<1>1. reply \in Replies /\ Len(reply.calls) \in Nat
  BY DEF Typed, Replies
<1>2. /\ reply' \in Replies /\ reply'.text = reply.text /\ reply'.part = "call"
      /\ Len(reply'.calls) = Len(reply.calls) + 1
      /\ reply'.calls[Len(reply.calls) + 1] = n
      /\ \A k \in 1..Len(reply.calls) : reply'.calls[k] = reply.calls[k]
  BY <1>1, CallReply
<1>3. Complete' = Len(reply.calls)
  BY <1>1, <1>2 DEF Complete
<1>4. reply.part # "call" => Complete' = Complete
  BY <1>3 DEF Complete
<1>5. QED
  BY <1>1, <1>2, <1>3, <1>4

\* A fragment of a tool call of OpenAI.
LEMMA OpenAIFragmentStep ==
  ASSUME ChatInv, OpenAIFragment
  PROVE  ChatInv'
<1>1. /\ Typed /\ Decoded /\ OutInv /\ kind = "openai" /\ kind' = kind
  BY DEF ChatInv, OpenAIFragment, Receiving
<1>2. ASSUME SameCall, reply' = WithFragment, out' = out,
             dec' = [dec EXCEPT !.calls[Len(reply.calls)] = @ + 1]
      PROVE  Typed' /\ Decoded' /\ OutInv'
  <2>1. /\ reply' \in Replies /\ reply'.text = reply.text /\ reply'.part = "call"
        /\ Len(reply'.calls) > 0 /\ Complete' = Complete
        /\ \A k \in 1..Complete : reply'.calls[k] = reply.calls[k]
    BY <1>1, <1>2, SameCallEffect
  <2>2. dec' \in Decoders /\ dec'.calls = reply'.calls
    BY <1>1, <1>2, FragmentDecoder
  <2>3. OutInv'
    BY <1>1, <1>2, <2>1, SendNothing
  <2>4. QED
    BY <1>1, <1>2, <2>1, <2>2, <2>3 DEF Typed, Decoded
<1>3. ASSUME reply' = WithCall(1), dec' = [dec EXCEPT !.calls = Append(@, 1)],
             IF JustFinished # 0 THEN Send(CallChunk(JustFinished, Last(dec.calls)))
             ELSE UNCHANGED out
      PROVE  Typed' /\ Decoded' /\ OutInv'
  <2>1. /\ reply' \in Replies /\ reply'.text = reply.text /\ reply'.part = "call"
        /\ Len(reply'.calls) > 0 /\ Complete' = Len(reply.calls)
        /\ reply.part # "call" => Complete' = Complete
        /\ \A k \in 1..Len(reply.calls) : reply'.calls[k] = reply.calls[k]
    BY <1>1, <1>3, NextCallEffect
  <2>2. dec' \in Decoders /\ dec'.calls = reply'.calls
    BY <1>1, <1>3, FragmentDecoder
  <2>3. out' \in Seq(Chunks) /\ OutInv'
    <3>1. CASE JustFinished # 0
      BY <1>1, <1>3, <2>1, <3>1, SendFinished
    <3>2. CASE JustFinished = 0
      <4>1. reply.part # "call" /\ out' = out
        BY <1>1, <1>3, <3>2 DEF JustFinished, Typed
      <4>2. QED
        BY <1>1, <2>1, <4>1, SendNothing DEF Typed
    <3>3. QED
      BY <3>1, <3>2
  <2>4. QED
    BY <1>1, <1>3, <2>1, <2>2, <2>3 DEF Typed, Decoded
<1>4. Typed' /\ Decoded' /\ OutInv'
  BY <1>2, <1>3 DEF OpenAIFragment
<1>5. QED
  BY <1>4 DEF ChatInv

\* The reply with the finish reason: every call is complete.
LEMMA FinishEffect ==
  ASSUME Typed, NEW r \in Replies, reply' = [r EXCEPT !.part = "finished"]
  PROVE  /\ reply' \in Replies /\ reply'.text = r.text /\ reply'.part = "finished"
         /\ reply'.calls = r.calls /\ Complete' = Len(r.calls)
<1>1. /\ reply' \in Replies /\ reply'.text = r.text /\ reply'.part = "finished"
      /\ reply'.calls = r.calls
  BY DEF Replies, Parts
<1>2. QED
  BY <1>1 DEF Complete

\* The finish reason of OpenAI.
LEMMA OpenAIFinishStep ==
  ASSUME ChatInv, OpenAIFinish
  PROVE  ChatInv'
<1>1. /\ Typed /\ Decoded /\ OutInv /\ kind = "openai" /\ kind' = kind
      /\ dec' = dec /\ reply \in Replies
  BY DEF ChatInv, OpenAIFinish, Receiving, Typed
<1>2. /\ reply' \in Replies /\ reply'.text = reply.text /\ reply'.part = "finished"
      /\ reply'.calls = reply.calls /\ Complete' = Len(reply.calls)
  BY <1>1, FinishEffect DEF OpenAIFinish
<1>3. out' \in Seq(Chunks) /\ OutInv'
  <2>1. CASE JustFinished # 0
    BY <1>1, <1>2, <2>1, SendFinished DEF OpenAIFinish
  <2>2. CASE JustFinished = 0
    <3>1. reply.part # "call" /\ out' = out
      BY <1>1, <2>2 DEF JustFinished, Typed, OpenAIFinish
    <3>2. Complete' = Complete
      BY <1>2, <3>1 DEF Complete
    <3>3. QED
      BY <1>1, <1>2, <3>1, <3>2, SendNothing DEF Typed
  <2>3. QED
    BY <2>1, <2>2
<1>4. Typed' /\ Decoded'
  BY <1>1, <1>2, <1>3 DEF Typed, Decoded
<1>5. QED
  BY <1>3, <1>4 DEF ChatInv

\* The end of OpenAI's stream.
LEMMA OpenAIEndStep ==
  ASSUME ChatInv, OpenAIEnd
  PROVE  ChatInv'
<1> DEFINE content == fromChatCompletion(dec)
           c == chunkToProto(FinalChunk(content))
<1>1. /\ Typed /\ Decoded /\ OutInv /\ kind = "openai" /\ kind' = kind
      /\ dec' = dec /\ reply' = reply /\ out' = Append(out, c)
  BY DEF ChatInv, OpenAIEnd, Receiving, Send
<1>2. content \in Contents
  BY <1>1 DEF Typed, Decoders, Contents, fromChatCompletion
<1> HIDE DEF content
<1>3. c \in Chunks /\ c.call = 0
  BY <1>2, FinalShape
<1> HIDE DEF c
<1>4. Complete' = Complete
  BY <1>1 DEF Complete
<1>5. OutInv' /\ out' \in Seq(Chunks)
  BY <1>1, <1>3, <1>4, SendNoCall, OutAppend
<1>6. Typed' /\ Decoded'
  BY <1>1, <1>5 DEF Typed, Decoded
<1>7. QED
  BY <1>5, <1>6 DEF ChatInv

\* A text delta of Anthropic.
LEMMA AnthropicTextStep ==
  ASSUME ChatInv, AnthropicText
  PROVE  ChatInv'
<1> DEFINE c == chunkToProto(TextChunk(reply.text + 1))
<1>1. /\ Typed /\ Decoded /\ OutInv /\ kind = "anthropic" /\ kind' = kind
      /\ dec' = dec /\ reply.part # "call" /\ reply' = WithText /\ out' = Append(out, c)
      /\ reply \in Replies /\ reply.text \in Nat
  BY DEF ChatInv, AnthropicText, Receiving, Send, Typed, Replies
<1>2. c \in Chunks /\ c.call = 0 /\ c.text = reply.text + 1
  BY <1>1, TextShape
<1> HIDE DEF c
<1>3. /\ reply' \in Replies /\ reply'.text = reply.text + 1 /\ reply'.part = "text"
      /\ reply'.calls = reply.calls
  BY <1>1, TextReply
<1>4. Complete' = Complete
  BY <1>1, <1>3 DEF Complete
<1>5. OutInv' /\ out' \in Seq(Chunks)
  BY <1>1, <1>2, <1>3, <1>4, SendNoCall, OutAppend
<1>6. Typed' /\ Decoded'
  BY <1>1, <1>3, <1>5 DEF Typed, Decoded
<1>7. QED
  BY <1>5, <1>6 DEF ChatInv

\* The start of a tool block of Anthropic: it has no input yet.
LEMMA AnthropicStartStep ==
  ASSUME ChatInv, AnthropicStart
  PROVE  ChatInv'
<1>1. /\ Typed /\ Decoded /\ OutInv /\ kind = "anthropic" /\ kind' = kind
      /\ out' = out /\ reply.part # "call" /\ dec.pending = {}
      /\ reply' = WithCall(0) /\ dec' = [dec EXCEPT !.calls = Append(@, 0)]
  BY DEF ChatInv, AnthropicStart, Receiving, Decoded
<1>2. /\ reply' \in Replies /\ reply'.text = reply.text /\ reply'.part = "call"
      /\ Len(reply'.calls) > 0 /\ reply'.calls[Len(reply'.calls)] = 0
      /\ Complete' = Len(reply.calls) /\ Complete' = Complete
      /\ \A k \in 1..Len(reply.calls) : reply'.calls[k] = reply.calls[k]
  BY <1>1, NextCallEffect
<1>3. dec' \in Decoders /\ dec'.calls = reply'.calls /\ dec'.pending = {}
  BY <1>1, FragmentDecoder
<1>4. OutInv'
  BY <1>1, <1>2, SendNothing
<1>5. Typed'
  BY <1>1, <1>2, <1>3 DEF Typed
<1>6. ~(reply'.calls[Len(reply'.calls)] > 0)
  BY <1>2
<1>7. Decoded'
  BY <1>1, <1>3, <1>6 DEF Decoded
<1>8. QED
  BY <1>4, <1>5, <1>7 DEF ChatInv

\* A fragment of the input of Anthropic's open block.
LEMMA AnthropicFragmentStep ==
  ASSUME ChatInv, AnthropicFragment
  PROVE  ChatInv'
<1>1. /\ Typed /\ Decoded /\ OutInv /\ kind = "anthropic" /\ kind' = kind
      /\ out' = out /\ SameCall /\ reply' = WithFragment
      /\ dec' = [dec EXCEPT !.calls[Len(reply.calls)] = @ + 1,
                            !.pending = @ \cup {Len(reply.calls)}]
  BY DEF ChatInv, AnthropicFragment, Receiving
<1>2. /\ reply' \in Replies /\ reply'.text = reply.text /\ reply'.part = "call"
      /\ Len(reply'.calls) = Len(reply.calls) /\ Len(reply'.calls) > 0
      /\ reply.part = "call" /\ Complete' = Complete
      /\ \A k \in 1..Complete : reply'.calls[k] = reply.calls[k]
  BY <1>1, SameCallEffect
<1>3. reply'.calls[Len(reply.calls)] > 0
  <2>1. reply \in Replies /\ reply.calls \in Seq(Nat) /\ Len(reply.calls) > 0
    BY <1>1, <1>2 DEF Typed, Replies
  <2>2. reply'.calls
          = [reply.calls EXCEPT ![Len(reply.calls)] = reply.calls[Len(reply.calls)] + 1]
    BY <1>1, <2>1, FragmentReply
  <2>3. QED
    BY <2>1, <2>2
<1>4. /\ dec' \in Decoders /\ dec'.calls = reply'.calls
      /\ dec'.pending = dec.pending \cup {Len(reply.calls)}
  BY <1>1, FragmentDecoder
<1>5. dec.pending \subseteq {Len(reply.calls)}
  BY <1>1 DEF Decoded
<1>6. OutInv'
  BY <1>1, <1>2, SendNothing
<1>7. Typed'
  BY <1>1, <1>2, <1>4 DEF Typed
<1>8. Decoded'
  BY <1>1, <1>2, <1>3, <1>4, <1>5 DEF Decoded
<1>9. QED
  BY <1>6, <1>7, <1>8 DEF ChatInv

\* The end of a tool block of Anthropic: it is sent, or skipped if it has no input.
LEMMA AnthropicStopStep ==
  ASSUME ChatInv, AnthropicStop
  PROVE  ChatInv'
<1> DEFINE i == Len(reply.calls)
<1>1. /\ Typed /\ Decoded /\ OutInv /\ kind = "anthropic" /\ kind' = kind
      /\ reply \in Replies /\ dec \in Decoders /\ reply.part = "call"
      /\ reply' = [reply EXCEPT !.part = "none"]
      /\ dec.calls = reply.calls
      /\ dec.pending = IF reply.calls[i] > 0 THEN {i} ELSE {}
  BY DEF ChatInv, AnthropicStop, Receiving, Decoded, Typed
<1>2. IF i \in dec.pending
      THEN /\ Send(CallChunk(i, dec.calls[i])) /\ dec' = [dec EXCEPT !.pending = @ \ {i}]
      ELSE dec' = dec /\ out' = out
  BY DEF AnthropicStop
<1>3. i = Complete + 1 /\ Complete \in Nat /\ reply.calls[i] \in Nat
  BY <1>1, CallDone
<1>4. /\ reply' \in Replies /\ reply'.text = reply.text /\ reply'.calls = reply.calls
      /\ reply'.part = "none"
  BY <1>1 DEF Replies, Parts
<1>5. Complete' = Complete + 1
  BY <1>3, <1>4 DEF Complete
<1> HIDE DEF i
<1>6. CASE i \in dec.pending
  <2> DEFINE c == chunkToProto(CallChunk(i, reply.calls[i]))
  <2>1. out' = Append(out, c)
    BY <1>1, <1>2, <1>6 DEF Send
  <2>2. i \in Nat /\ i # 0
    BY <1>3
  <2>3. c \in Chunks /\ c.text = 0 /\ c.call = i /\ c.fragments = reply.calls[i]
    BY <1>3, <2>2, CallChunkShape
  <2> HIDE DEF c
  <2>4. OutInv' /\ out' \in Seq(Chunks)
    BY <1>1, <1>3, <1>4, <1>5, <2>1, <2>3, SendCall, OutAppend
  <2>5. dec' = [dec EXCEPT !.pending = {}]
    BY <1>1, <1>2, <1>6 DEF Decoders
  <2>6. dec' \in Decoders /\ dec'.calls = dec.calls /\ dec'.pending = {}
    BY <1>1, <2>5 DEF Decoders
  <2>7. Typed'
    BY <1>1, <1>4, <2>4, <2>6 DEF Typed
  <2>8. Decoded'
    BY <1>1, <1>4, <2>6 DEF Decoded
  <2>9. QED
    BY <2>4, <2>7, <2>8 DEF ChatInv
<1>7. CASE i \notin dec.pending
  <2>1. dec' = dec /\ out' = out /\ dec.pending = {}
    BY <1>1, <1>2, <1>7
  <2>2. reply.calls[Complete + 1] = 0
    BY <1>1, <1>3, <1>7
  <2>3. OutInv'
    BY <1>1, <1>4, <1>5, <2>1, <2>2, SendNothing
  <2>4. Typed'
    BY <1>1, <1>4, <2>1 DEF Typed
  <2>5. Decoded'
    BY <1>1, <1>4, <2>1 DEF Decoded
  <2>6. QED
    BY <2>3, <2>4, <2>5 DEF ChatInv
<1>8. QED
  BY <1>6, <1>7

\* The stop reason of Anthropic.
LEMMA AnthropicFinishStep ==
  ASSUME ChatInv, AnthropicFinish
  PROVE  ChatInv'
<1> DEFINE c == chunkToProto(FinalChunk(NoContent))
<1>1. /\ Typed /\ Decoded /\ OutInv /\ kind = "anthropic" /\ kind' = kind
      /\ dec' = dec /\ reply.part # "call" /\ reply \in Replies /\ out' = Append(out, c)
      /\ reply' = [reply EXCEPT !.part = "finished"]
  BY DEF ChatInv, AnthropicFinish, Receiving, Typed, Send
<1>2. NoContent \in Contents
  BY DEF NoContent, Contents
<1>3. c \in Chunks /\ c.call = 0 /\ c.text = 0
  BY <1>2, FinalShape
<1> HIDE DEF c
<1>4. /\ reply' \in Replies /\ reply'.text = reply.text /\ reply'.part = "finished"
      /\ reply'.calls = reply.calls /\ Complete' = Len(reply.calls)
  BY <1>1, FinishEffect
<1>5. Complete' = Complete
  BY <1>1, <1>4 DEF Complete
<1>6. OutInv' /\ out' \in Seq(Chunks)
  BY <1>1, <1>3, <1>4, <1>5, SendNoCall, OutAppend
<1>7. Typed' /\ Decoded'
  BY <1>1, <1>4, <1>6 DEF Typed, Decoded
<1>8. QED
  BY <1>6, <1>7 DEF ChatInv

\* Ollama sends a chunk without a call before or with the finish reason.
LEMMA OllamaNoCall ==
  ASSUME Typed, OutInv, kind = "ollama", kind' = kind, reply.part # "finished",
         NEW c \in Chunks, c.call = 0, out' = Append(out, c)
  PROVE  OutInv' /\ out' \in Seq(Chunks)
<1>1. \A i \in DOMAIN out : out[i].call = 0
  BY DEF OutInv, Counted
<1>2. \A i \in DOMAIN out' : out'[i].call = 0
  BY <1>1, OutAppend
<1>3. QED
  BY <1>2, OutAppend DEF OutInv, Whole, Once, Counted

\* A text delta of Ollama.
LEMMA OllamaTextStep ==
  ASSUME ChatInv, OllamaText
  PROVE  ChatInv'
<1> DEFINE c == chunkToProto(TextChunk(reply.text + 1))
<1>1. /\ Typed /\ Decoded /\ OutInv /\ kind = "ollama" /\ kind' = kind
      /\ dec' = dec /\ reply' = WithText /\ out' = Append(out, c)
      /\ reply \in Replies /\ reply.text \in Nat /\ reply.part # "finished"
  BY DEF ChatInv, OllamaText, Receiving, Send, Typed, Replies, MoreText
<1>2. c \in Chunks /\ c.call = 0
  BY <1>1, TextShape
<1> HIDE DEF c
<1>3. reply' \in Replies /\ reply'.part = "text" /\ reply'.calls = reply.calls
  BY <1>1, TextReply
<1>4. OutInv' /\ out' \in Seq(Chunks)
  BY <1>1, <1>2, OllamaNoCall
<1>5. Typed' /\ Decoded'
  BY <1>1, <1>3, <1>4 DEF Typed, Decoded
<1>6. QED
  BY <1>4, <1>5 DEF ChatInv

\* A fragment of a tool call of Ollama.
LEMMA OllamaFragmentStep ==
  ASSUME ChatInv, OllamaFragment
  PROVE  ChatInv'
<1> DEFINE c == chunkToProto(EmptyChunk)
<1>1. /\ Typed /\ Decoded /\ OutInv /\ kind = "ollama" /\ kind' = kind
      /\ out' = Append(out, c)
  BY DEF ChatInv, OllamaFragment, Receiving, Send
<1>2. c = [EmptyChunk EXCEPT !.text = EmptyChunk.text]
  BY EmptyShape DEF chunkToProto
<1>3. c \in Chunks /\ c.call = 0
  BY <1>2, EmptyShape DEF Chunks
<1> HIDE DEF c
<1>4. /\ reply' \in Replies /\ Len(reply'.calls) > 0 /\ reply.part # "finished"
      /\ dec' \in Decoders /\ dec'.calls = reply'.calls
  <2>1. CASE SameCall /\ reply' = WithFragment
             /\ dec' = [dec EXCEPT !.calls[Len(reply.calls)] = @ + 1]
    BY <1>1, <2>1, SameCallEffect, FragmentDecoder
  <2>2. CASE NextCall /\ reply' = WithCall(1) /\ dec' = [dec EXCEPT !.calls = Append(@, 1)]
    <3>1. 1 \in Nat /\ reply.part # "finished" /\ reply' = WithCall(1)
      BY <2>2 DEF NextCall
    <3>2. reply' \in Replies /\ Len(reply'.calls) > 0
      BY <1>1, <3>1, NextCallEffect
    <3>3. dec' \in Decoders /\ dec'.calls = reply'.calls
      BY <1>1, <2>2, <3>1, FragmentDecoder
    <3>4. QED
      BY <3>1, <3>2, <3>3
  <2>3. QED
    BY <2>1, <2>2 DEF OllamaFragment
<1>5. OutInv' /\ out' \in Seq(Chunks)
  BY <1>1, <1>3, <1>4, OllamaNoCall
<1>6. Typed' /\ Decoded'
  BY <1>1, <1>4, <1>5 DEF Typed, Decoded
<1>7. QED
  BY <1>5, <1>6 DEF ChatInv

\* The chunk with the finish reason of Ollama, for one content of the last delta.
LEMMA OllamaLastStep ==
  ASSUME ChatInv, NEW last \in Replies, NEW n \in Nat, NEW s, s = last.calls,
         OllamaLast(last, s, n)
  PROVE  ChatInv'
<1>1. /\ Typed /\ Decoded /\ OutInv /\ kind = "ollama" /\ kind' = kind
      /\ reply \in Replies /\ dec \in Decoders /\ reply.part # "finished"
  BY DEF ChatInv, OllamaLast, Receiving, Typed
<1>2. /\ reply' = [last EXCEPT !.part = "finished"] /\ dec' = [dec EXCEPT !.calls = s]
      /\ \/ \E i \in DOMAIN s : Send([CallChunk(i, s[i]) EXCEPT !.text = n])
         \/ Send(TextChunk(n))
  BY DEF OllamaLast
<1>3. s \in Seq(Nat) /\ DOMAIN s = 1..Len(s)
  BY DEF Replies
<1>4. /\ reply' \in Replies /\ reply'.part = "finished" /\ reply'.calls = s
  BY <1>1, <1>2, FinishEffect
<1>5. dec' \in Decoders /\ dec'.calls = s
  BY <1>1, <1>2, <1>3 DEF Decoders
<1>6. OutInv' /\ out' \in Seq(Chunks)
  <2>1. ASSUME NEW i \in DOMAIN s, Send([CallChunk(i, s[i]) EXCEPT !.text = n])
        PROVE  OutInv' /\ out' \in Seq(Chunks)
    <3> DEFINE b == CallChunk(i, s[i])  d == [b EXCEPT !.text = n]  c == chunkToProto(d)
    <3>0. s[i] \in Nat
      BY <1>3, ElementOfSeq
    <3>1. i \in 1..Len(s) /\ i \in Nat /\ i # 0 /\ s[i] \in Nat
      BY <1>3, <3>0
    <3>2. b \in Chunks /\ b.call = i /\ b.fragments = s[i] /\ ~b.final
      BY <3>1, EmptyShape DEF CallChunk, Chunks
    <3>3. out' = Append(out, c)
      BY <2>1 DEF Send
    <3> HIDE DEF b
    <3>4. d \in Chunks /\ d.call = i /\ d.fragments = s[i] /\ ~d.final
      BY <3>2 DEF Chunks
    <3> HIDE DEF d
    <3>5. c \in Chunks /\ c.call = i /\ c.fragments = s[i]
      BY <3>1, <3>4, CallShape
    <3> HIDE DEF c
    <3>6. QED
      BY <1>1, <1>4, <3>1, <3>3, <3>5, SendLast, OutAppend
  <2>2. ASSUME Send(TextChunk(n))
        PROVE  OutInv' /\ out' \in Seq(Chunks)
    <3> DEFINE c == chunkToProto(TextChunk(n))
    <3>1. out' = Append(out, c)
      BY <2>2 DEF Send
    <3>2. c \in Chunks /\ c.call = 0
      BY TextShape
    <3> HIDE DEF c
    <3>3. QED
      BY <1>1, <3>1, <3>2, OllamaNoCall
  <2>3. QED
    BY <1>2, <2>1, <2>2
<1>7. Typed' /\ Decoded'
  BY <1>1, <1>4, <1>5, <1>6 DEF Typed, Decoded
<1>8. QED
  BY <1>6, <1>7 DEF ChatInv

\* It holds nothing more, a text delta, a fragment of the call in progress or a new call.
LEMMA OllamaFinishStep ==
  ASSUME ChatInv, OllamaFinish
  PROVE  ChatInv'
<1>1. Typed /\ reply \in Replies /\ dec.calls = reply.calls /\ reply.text \in Nat /\ 0 \in Nat
  BY DEF ChatInv, Typed, Decoded, Replies
<1>2. CASE OllamaLast(reply, dec.calls, 0)
  BY <1>1, <1>2, OllamaLastStep
<1>3. CASE OllamaLast(WithText, dec.calls, reply.text + 1)
  <2>1. WithText \in Replies /\ dec.calls = WithText.calls /\ reply.text + 1 \in Nat
    BY <1>1, TextReply
  <2>2. QED
    BY <1>3, <2>1, OllamaLastStep
<1>4. CASE SameCall /\ OllamaLast(WithFragment,
                                  [dec.calls EXCEPT ![Len(reply.calls)] = @ + 1], 0)
  <2>1. Len(reply.calls) > 0 /\ reply.calls \in Seq(Nat)
    BY <1>1, <1>4 DEF SameCall, Typed, Replies
  <2>2. /\ WithFragment \in Replies
        /\ [dec.calls EXCEPT ![Len(reply.calls)] = @ + 1] = WithFragment.calls
    BY <1>1, <2>1, FragmentReply
  <2>3. QED
    BY <1>1, <1>4, <2>2, OllamaLastStep
<1>5. CASE OllamaLast(WithCall(1), Append(dec.calls, 1), 0)
  <2>1. WithCall(1) \in Replies /\ Append(dec.calls, 1) = WithCall(1).calls
    BY <1>1, CallReply
  <2>2. QED
    BY <1>1, <1>5, <2>1, OllamaLastStep
<1>6. QED
  BY <1>2, <1>3, <1>4, <1>5 DEF OllamaFinish

-----------------------------------------------------------------------------
(* The theorems *)

LEMMA ChatInitially == Init => ChatInv
<1> SUFFICES ASSUME Init PROVE ChatInv
  OBVIOUS
<1>1. /\ kind \in Kinds /\ pc = "convert" /\ out = << >>
      /\ reply = [text |-> 0, calls |-> << >>, part |-> "none"]
      /\ dec = [text |-> << >>, calls |-> << >>, pending |-> {}]
  BY DEF Init, NoReply, NoDecoder
<1>2. << >> \in Seq(Nat) /\ Len(<< >>) = 0 /\ DOMAIN << >> = {} /\ << >> \in Seq(Chunks)
  OBVIOUS
<1>3. /\ reply \in Replies /\ reply.text = 0 /\ reply.calls = << >> /\ reply.part = "none"
      /\ dec \in Decoders /\ dec.text = << >> /\ dec.calls = << >> /\ dec.pending = {}
  BY <1>1, <1>2 DEF Replies, Decoders, Parts
<1>4. Typed
  BY <1>1, <1>2, <1>3 DEF Typed
<1>5. Decoded
  BY <1>3 DEF Decoded
<1>6. Complete = 0
  BY <1>2, <1>3 DEF Complete
<1>7. OutInv
  <2>1. TextNumbers(out) = << >>
    BY <1>1, <1>2 DEF TextNumbers
  <2>2. CountsTo(<< >>, 0)
    BY <1>2 DEF CountsTo
  <2>3. QED
    BY <1>1, <1>2, <1>3, <1>6, <2>1, <2>2
    DEF OutInv, Whole, Once, Counted, AllSent, Ascending
<1>8. QED
  BY <1>4, <1>5, <1>7 DEF ChatInv

LEMMA ChatStep ==
  ASSUME ChatInv, [Next]_vars
  PROVE  ChatInv'
<1>1. CASE Convert
  BY <1>1, QuietStep DEF Convert
<1>2. CASE Open
  BY <1>2, QuietStep DEF Open
<1>3. CASE OpenAIText
  BY <1>3, OpenAITextStep
<1>4. CASE OpenAIFragment
  BY <1>4, OpenAIFragmentStep
<1>5. CASE OpenAIFinish
  BY <1>5, OpenAIFinishStep
<1>6. CASE OpenAIEnd
  BY <1>6, OpenAIEndStep
<1>7. CASE AnthropicText
  BY <1>7, AnthropicTextStep
<1>8. CASE AnthropicStart
  BY <1>8, AnthropicStartStep
<1>9. CASE AnthropicFragment
  BY <1>9, AnthropicFragmentStep
<1>10. CASE AnthropicStop
  BY <1>10, AnthropicStopStep
<1>11. CASE AnthropicFinish
  BY <1>11, AnthropicFinishStep
<1>12. CASE OllamaText
  BY <1>12, OllamaTextStep
<1>13. CASE OllamaFragment
  BY <1>13, OllamaFragmentStep
<1>14. CASE OllamaFinish
  BY <1>14, OllamaFinishStep
<1>15. CASE StreamEnds
  BY <1>15, QuietStep DEF StreamEnds
<1>16. CASE StreamFails
  BY <1>16, QuietStep DEF StreamFails
<1>17. CASE UNCHANGED vars
  BY <1>17, QuietStep DEF vars
<1>18. QED
  BY <1>1, <1>2, <1>3, <1>4, <1>5, <1>6, <1>7, <1>8, <1>9, <1>10, <1>11, <1>12, <1>13,
     <1>14, <1>15, <1>16, <1>17 DEF Next

\* The inductive invariant of the streamed chat.
LEMMA ChatInvariant == Spec => []ChatInv
<1>1. ChatInv /\ [Next]_vars => ChatInv'
  BY ChatStep
<1>2. QED
  BY ChatInitially, <1>1, PTL DEF Spec

\* With any provider and any reply, a tool call that reaches the agent has all of its
\* fragments and reaches it once, also when the stream breaks right after
\* (JustFinishedToolCall, content_block_stop and finish_reason).
THEOREM CallsReachWhole == Spec => []CallsWhole
<1>1. ChatInv => CallsWhole
  <2> SUFFICES ASSUME ChatInv PROVE CallsWhole
    OBVIOUS
  <2>1. \A i \in DOMAIN out :
          out[i].call # 0 => /\ out[i].call \in DOMAIN reply.calls
                             /\ out[i].fragments = reply.calls[out[i].call]
    BY CompleteType DEF ChatInv, OutInv, Whole
  <2>2. QED
    BY <2>1 DEF CallsWhole, ChatInv, OutInv, Once
<1>2. QED
  BY ChatInvariant, <1>1, PTL

\* OpenAI and Anthropic lose no complete tool call with input, send the calls in their
\* order, and Anthropic every text delta as well, whatever the length of the reply and
\* wherever the stream ends or breaks (Recv of the two chatStreams, chunkToProto).
THEOREM StreamsInOrder == Spec => []SentInOrder
<1>1. ChatInv => SentInOrder
  BY DEF ChatInv, OutInv, Counted, AllSent, Ascending, SentInOrder
<1>2. QED
  BY ChatInvariant, <1>1, PTL

-----------------------------------------------------------------------------
(* Induction over data.  A set of numbers that is not empty has a least element, so a   *)
(* claim about all numbers, or all lengths, holds if it has no least counterexample.     *)

\* A set of numbers that is not empty has a least one.
LEMMA LeastNat ==
  ASSUME NEW T \in SUBSET Nat, T # {}
  PROVE  \E x \in T : \A y \in T : x <= y
<1> DEFINE R == OpToRel(<, Nat)
<1>1. IsWellFoundedOn(R, Nat)
  BY NatLessThanWellFounded
<1>2. \A a, b \in Nat : a < b => <<a, b>> \in R
  BY DEF OpToRel
<1> HIDE DEF R
<1>3. PICK x \in T : \A y \in T : ~(<<y, x>> \in R)
  BY <1>1, WFMin
<1>4. x \in Nat /\ \A y \in T : y \in Nat /\ ~(y < x)
  BY <1>2, <1>3
<1>5. \A y \in T : x <= y
  BY <1>4
<1>6. QED
  BY <1>5

\* Induction over sequences: a set of sequences over S with the empty one and every
\* extension of its members by an element has them all.
LEMMA SequencesAll ==
  ASSUME NEW S, NEW P \in SUBSET Seq(S), << >> \in P,
         \A s \in P : \A e \in S : Append(s, e) \in P
  PROVE  P = Seq(S)
<1> DEFINE T == {n \in Nat : \E c \in Seq(S) : Len(c) = n /\ c \notin P}
<1> SUFFICES ASSUME NEW b \in Seq(S), b \notin P PROVE FALSE
  OBVIOUS
<1>1. Len(b) \in T
  OBVIOUS
<1>2. PICK x \in T : \A y \in T : x <= y
  BY <1>1, LeastNat
<1>3. PICK c \in Seq(S) : Len(c) = x /\ c \notin P
  BY <1>2
<1>4. c # << >>
  BY <1>3
<1>5. PICK d \in Seq(S), t \in S : c = Append(d, t)
  BY <1>4, SequenceEmptyOrAppend
<1>6. Len(d) \in Nat /\ x = Len(d) + 1
  BY <1>3, <1>5
<1>7. ~(x <= Len(d))
  BY <1>6
<1>8. d \in P
  BY <1>2, <1>6, <1>7
<1>9. QED
  BY <1>3, <1>5, <1>8

-----------------------------------------------------------------------------
(* FlattenSeq, by its recursive definition *)

\* f holds the flattenings of the first 1, 2, ... n sequences of ss.
IsFlat(f, ss, n) == f = [i \in 1..n |-> IF i = 1 THEN ss[i] ELSE f[i - 1] \o ss[i]]

\* There is such a function, whatever ss is.
LEMMA FlatExists ==
  ASSUME NEW ss
  PROVE  \A n \in Nat : \E f : IsFlat(f, ss, n)
<1> DEFINE T == {n \in Nat : ~ \E f : IsFlat(f, ss, n)}
<1> SUFFICES ASSUME T # {} PROVE FALSE
  OBVIOUS
<1>1. PICK x \in T : \A y \in T : x <= y
  BY LeastNat
<1>2. x \in Nat
  BY <1>1
<1>3. CASE x = 0
  <2> DEFINE f == [i \in 1..0 |-> 0]
  <2>1. IsFlat(f, ss, 0)
    BY DEF IsFlat
  <2>2. QED
    BY <1>1, <1>3, <2>1
<1>4. CASE x # 0
  <2>1. x - 1 \in Nat /\ x - 1 \notin T
    BY <1>1, <1>2, <1>4
  <2>2. PICK f : IsFlat(f, ss, x - 1)
    BY <2>1
  <2> DEFINE g == [i \in 1..x |-> IF i < x THEN f[i]
                                  ELSE IF x = 1 THEN ss[x] ELSE f[x - 1] \o ss[x]]
  <2>3. ASSUME NEW i \in 1..x PROVE g[i] = IF i = 1 THEN ss[i] ELSE g[i - 1] \o ss[i]
    <3>1. CASE i < x
      <4>1. i \in 1..(x - 1) /\ g[i] = f[i]
        BY <1>2, <3>1
      <4>2. f[i] = IF i = 1 THEN ss[i] ELSE f[i - 1] \o ss[i]
        BY <2>2, <4>1 DEF IsFlat
      <4>3. i # 1 => g[i - 1] = f[i - 1]
        BY <1>2, <3>1, <4>1
      <4>4. QED
        BY <4>1, <4>2, <4>3
    <3>2. CASE i = x
      <4>1. x # 1 => g[x - 1] = f[x - 1]
        BY <1>2, <1>4
      <4>2. QED
        BY <1>2, <1>4, <3>2, <4>1
    <3>3. QED
      BY <1>2, <3>1, <3>2
  <2>4. g = [i \in 1..x |-> IF i = 1 THEN ss[i] ELSE g[i - 1] \o ss[i]]
    BY <2>3
  <2>5. IsFlat(g, ss, x)
    BY <2>4 DEF IsFlat
  <2>6. QED
    BY <1>1, <2>5
<1>5. QED
  BY <1>3, <1>4

\* FlattenSeq is the last value of such a function.
LEMMA FlattenIs ==
  ASSUME NEW ss, Len(ss) \in Nat, Len(ss) # 0
  PROVE  \E f : IsFlat(f, ss, Len(ss)) /\ FlattenSeq(ss) = f[Len(ss)]
<1> DEFINE f == CHOOSE f : f = [i \in 1..Len(ss) |->
                                  IF i = 1 THEN ss[i] ELSE f[i - 1] \o ss[i]]
<1>1. IsFlat(f, ss, Len(ss))
  <2>1. \E h : h = [i \in 1..Len(ss) |-> IF i = 1 THEN ss[i] ELSE h[i - 1] \o ss[i]]
    BY FlatExists DEF IsFlat
  <2>2. QED
    BY <2>1, Zenon DEF IsFlat
<1>2. FlattenSeq(ss) = f[Len(ss)]
  BY Zenon DEF FlattenSeq
<1>3. QED
  BY <1>1, <1>2

\* Each value extends the one before it.
LEMMA FlatStep ==
  ASSUME NEW f, NEW ss, NEW n, IsFlat(f, ss, n), NEW i \in 1..n
  PROVE  f[i] = IF i = 1 THEN ss[i] ELSE f[i - 1] \o ss[i]
  BY Zenon DEF IsFlat

\* Two functions have the same first n values.
SameTo(f, g, n) == \A i \in 1..n : f[i] = g[i]

\* Two such functions agree as far as the sequences do.
LEMMA FlatAgree ==
  ASSUME NEW ss, NEW tt, NEW n \in Nat, NEW k \in Nat, n <= k, NEW f, NEW g,
         IsFlat(f, ss, n), IsFlat(g, tt, k), SameTo(ss, tt, n)
  PROVE  SameTo(f, g, n)
<1> DEFINE T == {i \in 1..n : f[i] # g[i]}
<1> SUFFICES ASSUME T # {} PROVE FALSE
  BY DEF SameTo
<1>1. T \in SUBSET Nat
  OBVIOUS
<1>2. PICK x \in T : \A y \in T : x <= y
  BY <1>1, LeastNat
<1>3. x \in 1..n /\ x \in 1..k /\ f[x] # g[x]
  BY <1>2
<1>4. /\ f[x] = IF x = 1 THEN ss[x] ELSE f[x - 1] \o ss[x]
      /\ g[x] = IF x = 1 THEN tt[x] ELSE g[x - 1] \o tt[x]
  BY <1>3, FlatStep
<1>5. x # 1 => x - 1 \in 1..n /\ x - 1 \notin T
  BY <1>2, <1>3
<1>6. x # 1 => f[x - 1] = g[x - 1]
  BY <1>5
<1>7. QED
  BY <1>3, <1>4, <1>6 DEF SameTo

\* All its values are sequences over the same set.
LEMMA FlatType ==
  ASSUME NEW S, NEW ss \in Seq(Seq(S)), NEW f, IsFlat(f, ss, Len(ss))
  PROVE  \A i \in 1..Len(ss) : f[i] \in Seq(S)
<1> DEFINE T == {i \in 1..Len(ss) : f[i] \notin Seq(S)}
<1> SUFFICES ASSUME T # {} PROVE FALSE
  OBVIOUS
<1>1. T \in SUBSET Nat
  OBVIOUS
<1>2. PICK x \in T : \A y \in T : x <= y
  BY <1>1, LeastNat
<1>3. x \in 1..Len(ss) /\ ss[x] \in Seq(S) /\ f[x] \notin Seq(S)
  BY <1>2
<1>4. f[x] = IF x = 1 THEN ss[x] ELSE f[x - 1] \o ss[x]
  BY <1>3, FlatStep
<1>5. x # 1 => x - 1 \in 1..Len(ss) /\ x - 1 \notin T
  BY <1>2, <1>3
<1>6. x # 1 => f[x - 1] \in Seq(S)
  BY <1>5
<1>7. QED
  BY <1>3, <1>4, <1>6, ConcatProperties

\* Of no sequences there is nothing to flatten.
LEMMA FlattenEmpty == FlattenSeq(<< >>) = << >>
  BY DEF FlattenSeq

\* Flattened sequences over S are a sequence over S.
LEMMA FlattenType ==
  ASSUME NEW S, NEW ss \in Seq(Seq(S))
  PROVE  FlattenSeq(ss) \in Seq(S)
<1>1. CASE ss = << >>
  BY <1>1, FlattenEmpty, EmptySeq
<1>2. CASE ss # << >>
  <2>1. Len(ss) \in Nat /\ Len(ss) # 0 /\ Len(ss) \in 1..Len(ss)
    BY <1>2
  <2>2. PICK f : IsFlat(f, ss, Len(ss)) /\ FlattenSeq(ss) = f[Len(ss)]
    BY <2>1, FlattenIs
  <2>3. QED
    BY <2>1, <2>2, FlatType
<1>3. QED
  BY <1>1, <1>2

\* One more sequence adds its elements at the end.
LEMMA FlattenAppend ==
  ASSUME NEW S, NEW ss \in Seq(Seq(S)), NEW t \in Seq(S)
  PROVE  FlattenSeq(Append(ss, t)) = FlattenSeq(ss) \o t
<1> DEFINE n == Len(ss)
           tt == Append(ss, t)
<1>1. /\ n \in Nat /\ tt \in Seq(Seq(S)) /\ Len(tt) = n + 1 /\ tt[n + 1] = t
      /\ \A i \in 1..n : ss[i] = tt[i]
  OBVIOUS
<1> HIDE DEF n, tt
<1>2. PICK g : IsFlat(g, tt, n + 1) /\ FlattenSeq(tt) = g[n + 1]
  BY <1>1, FlattenIs
<1>3. g[n + 1] = IF n + 1 = 1 THEN t ELSE g[(n + 1) - 1] \o t
  <2>1. n + 1 \in 1..(n + 1)
    BY <1>1
  <2>2. QED
    BY <1>1, <1>2, <2>1, FlatStep
<1>4. CASE n = 0
  <2>1. ss = << >>
    BY <1>4 DEF n
  <2>2. FlattenSeq(ss) \o t = t
    BY <2>1, FlattenEmpty, ConcatEmptySeq
  <2>3. QED
    BY <1>2, <1>3, <1>4, <2>2 DEF tt
<1>5. CASE n # 0
  <2>1. PICK f : IsFlat(f, ss, n) /\ FlattenSeq(ss) = f[n]
    BY <1>1, <1>5, FlattenIs DEF n
  <2>2. n + 1 \in Nat /\ n <= n + 1 /\ n \in 1..n /\ (n + 1) - 1 = n /\ n + 1 # 1
    BY <1>1, <1>5
  <2>3. SameTo(ss, tt, n)
    BY <1>1 DEF SameTo
  <2>4. SameTo(f, g, n)
    BY <1>1, <1>2, <2>1, <2>2, <2>3, FlatAgree
  <2>5. g[n + 1] = f[n] \o t
    BY <1>3, <2>2, <2>4 DEF SameTo
  <2>6. QED
    BY <1>2, <2>1, <2>5 DEF tt
<1>6. QED
  BY <1>4, <1>5

-----------------------------------------------------------------------------
(* Gathering: what F makes of the elements of a sequence, one after the other *)

\* F makes a sequence over E of every element of D.
Gatherer(F, D, E) == F \in [D -> Seq(E)]

Gather(F, s) == FlattenSeq([i \in DOMAIN s |-> F[s[i]]])

\* From nothing, nothing is gathered.
LEMMA GatherEmpty ==
  ASSUME NEW F
  PROVE  Gather(F, << >>) = << >>
<1>1. [i \in DOMAIN << >> |-> F[<< >>[i]]] = << >>
  OBVIOUS
<1>2. QED
  BY <1>1, FlattenEmpty DEF Gather

\* What is gathered is a sequence over the values of F.
LEMMA GatherType ==
  ASSUME NEW D, NEW E, NEW F \in [D -> Seq(E)], NEW s \in Seq(D)
  PROVE  Gather(F, s) \in Seq(E)
<1>1. DOMAIN s = 1..Len(s) /\ Len(s) \in Nat /\ \A i \in 1..Len(s) : F[s[i]] \in Seq(E)
  OBVIOUS
<1>2. [i \in 1..Len(s) |-> F[s[i]]] \in Seq(Seq(E))
  BY <1>1
<1>3. QED
  BY <1>1, <1>2, FlattenType DEF Gather

\* One more element adds what F makes of it.
LEMMA GatherAppend ==
  ASSUME NEW D, NEW E, NEW F \in [D -> Seq(E)], NEW s \in Seq(D), NEW e \in D
  PROVE  Gather(F, Append(s, e)) = Gather(F, s) \o F[e]
<1> DEFINE a == [i \in DOMAIN s |-> F[s[i]]]
           b == [i \in DOMAIN Append(s, e) |-> F[Append(s, e)[i]]]
<1>1. a \in Seq(Seq(E)) /\ F[e] \in Seq(E)
  OBVIOUS
<1>2. b = Append(a, F[e])
  OBVIOUS
<1> HIDE DEF a, b
<1>3. FlattenSeq(b) = FlattenSeq(a) \o F[e]
  BY <1>1, <1>2, FlattenAppend
<1>4. QED
  BY <1>3 DEF Gather, a, b

\* From one element, what F makes of it.
LEMMA GatherOne ==
  ASSUME NEW D, NEW E, NEW F \in [D -> Seq(E)], NEW e \in D
  PROVE  Gather(F, <<e>>) = F[e]
<1>1. << >> \in Seq(D) /\ <<e>> = Append(<< >>, e) /\ F[e] \in Seq(E)
  OBVIOUS
<1>2. Gather(F, <<e>>) = << >> \o F[e]
  BY <1>1, GatherAppend, GatherEmpty
<1>3. QED
  BY <1>1, <1>2, ConcatEmptySeq

\* Gathering from a concatenation concatenates what is gathered.
LEMMA GatherConcat ==
  ASSUME NEW D, NEW E, NEW F \in [D -> Seq(E)], NEW a \in Seq(D), NEW b \in Seq(D)
  PROVE  Gather(F, a \o b) = Gather(F, a) \o Gather(F, b)
<1> DEFINE P == {c \in Seq(D) : Gather(F, a \o c) = Gather(F, a) \o Gather(F, c)}
<1>1. << >> \in P
  <2>1. a \o << >> = a /\ Gather(F, a) \o << >> = Gather(F, a)
    BY GatherType, ConcatEmptySeq
  <2>2. << >> \in Seq(D) /\ Gather(F, << >>) = << >>
    BY GatherEmpty
  <2>3. QED
    BY <2>1, <2>2
<1>2. ASSUME NEW c \in P, NEW e \in D PROVE Append(c, e) \in P
  <2>1. c \in Seq(D) /\ Gather(F, a \o c) = Gather(F, a) \o Gather(F, c)
    OBVIOUS
  <2>2. a \o c \in Seq(D) /\ a \o Append(c, e) = Append(a \o c, e)
    BY <2>1
  <2>3. Gather(F, a \o Append(c, e)) = Gather(F, a \o c) \o F[e]
    BY <2>2, GatherAppend
  <2>4. Gather(F, Append(c, e)) = Gather(F, c) \o F[e]
    BY <2>1, GatherAppend
  <2>5. Gather(F, a) \in Seq(E) /\ Gather(F, c) \in Seq(E) /\ F[e] \in Seq(E)
    BY <2>1, GatherType
  <2>6. (Gather(F, a) \o Gather(F, c)) \o F[e] = Gather(F, a) \o (Gather(F, c) \o F[e])
    BY <2>5, ConcatAssociative
  <2>7. Append(c, e) \in Seq(D)
    BY <2>1
  <2>8. QED
    BY <2>1, <2>3, <2>4, <2>6, <2>7
<1> HIDE DEF P
<1>3. P \in SUBSET Seq(D)
  BY DEF P
<1>4. P = Seq(D)
  BY <1>1, <1>2, <1>3, SequencesAll
<1>5. QED
  BY <1>4 DEF P

\* The same, for all sequences of a gatherer.
LEMMA GatherConcats ==
  ASSUME NEW D, NEW E, NEW F, Gatherer(F, D, E)
  PROVE  \A a, b \in Seq(D) : Gather(F, a \o b) = Gather(F, a) \o Gather(F, b)
  BY GatherConcat DEF Gatherer

\* H gives what G gathers from what F gives.
Combines(F, G, H, D) == \A d \in D : Gather(G, F[d]) = H[d]

\* Gathering from what was gathered is gathering once, with the combined function.
LEMMA GatherTwice ==
  ASSUME NEW D, NEW E, NEW X, NEW F, NEW G, NEW H, Gatherer(F, D, E),
         Gatherer(G, E, X), Gatherer(H, D, X), Combines(F, G, H, D), NEW s \in Seq(D)
  PROVE  Gather(G, Gather(F, s)) = Gather(H, s)
<1>0. /\ F \in [D -> Seq(E)] /\ G \in [E -> Seq(X)] /\ H \in [D -> Seq(X)]
      /\ \A d \in D : Gather(G, F[d]) = H[d]
  BY DEF Gatherer, Combines
<1> DEFINE P == {c \in Seq(D) : Gather(G, Gather(F, c)) = Gather(H, c)}
<1>1. << >> \in P
  <2>1. << >> \in Seq(D)
    OBVIOUS
  <2>2. QED
    BY <2>1, GatherEmpty
<1>2. ASSUME NEW c \in P, NEW e \in D PROVE Append(c, e) \in P
  <2>1. c \in Seq(D) /\ Append(c, e) \in Seq(D) /\ F[e] \in Seq(E)
        /\ Gather(G, Gather(F, c)) = Gather(H, c)
    BY <1>0
  <2>2. Gather(F, c) \in Seq(E)
    BY <1>0, <2>1, GatherType
  <2>3. Gather(G, Gather(F, Append(c, e))) = Gather(G, Gather(F, c) \o F[e])
    BY <1>0, <2>1, GatherAppend
  <2>4. Gather(G, Gather(F, c) \o F[e]) = Gather(G, Gather(F, c)) \o Gather(G, F[e])
    <3> DEFINE g == Gather(F, c)
               h == F[e]
    <3>1. g \in Seq(E) /\ h \in Seq(E)
      BY <2>1, <2>2
    <3> HIDE DEF g, h
    <3>2. Gather(G, g \o h) = Gather(G, g) \o Gather(G, h)
      BY <3>1, GatherConcats
    <3>3. QED
      BY <3>2 DEF g, h
  <2>5. Gather(H, Append(c, e)) = Gather(H, c) \o H[e]
    BY <1>0, <2>1, GatherAppend
  <2>6. QED
    BY <1>0, <2>1, <2>3, <2>4, <2>5
<1> HIDE DEF P
<1>3. P \in SUBSET Seq(D)
  BY DEF P
<1>4. P = Seq(D)
  BY <1>1, <1>2, <1>3, SequencesAll
<1>5. QED
  BY <1>4 DEF P

\* M takes D to E; the map of a sequence; F gives the singletons of what M gives.
Maps(M, D, E) == M \in [D -> E]
MapOf(M, s) == [i \in DOMAIN s |-> M[s[i]]]
Singles(F, M, D) == \A d \in D : F[d] = <<M[d]>>

\* With a function that gives singletons, gathering is the map of a sequence.
LEMMA GatherMap ==
  ASSUME NEW D, NEW E, NEW M, NEW F, Maps(M, D, E), Gatherer(F, D, E),
         Singles(F, M, D), NEW s \in Seq(D)
  PROVE  Gather(F, s) = MapOf(M, s)
<1>1. F \in [D -> Seq(E)] /\ M \in [D -> E] /\ \A d \in D : F[d] = <<M[d]>>
  BY DEF Gatherer, Maps, Singles
<1>2. ASSUME NEW c \in Seq(D), NEW e \in D
      PROVE  Gather(F, Append(c, e)) = Gather(F, c) \o F[e]
  <2>1. F \in [D -> Seq(E)]
    BY <1>1
  <2>2. QED
    BY <2>1, GatherAppend
<1> DEFINE P == {c \in Seq(D) : Gather(F, c) = MapOf(M, c)}
<1>3. << >> \in P
  <2>1. << >> \in Seq(D) /\ MapOf(M, << >>) = << >>
    BY DEF MapOf
  <2>2. QED
    BY <2>1, GatherEmpty
<1>4. ASSUME NEW c \in P, NEW e \in D PROVE Append(c, e) \in P
  <2>1. c \in Seq(D) /\ Append(c, e) \in Seq(D) /\ Gather(F, c) = MapOf(M, c)
    OBVIOUS
  <2>2. Gather(F, Append(c, e)) = Gather(F, c) \o F[e]
    BY <1>2, <2>1
  <2>3. MapOf(M, Append(c, e)) = MapOf(M, c) \o <<M[e]>>
    BY <1>1, <2>1 DEF MapOf
  <2>4. QED
    BY <1>1, <2>1, <2>2, <2>3
<1> HIDE DEF P
<1>5. P \in SUBSET Seq(D)
  BY DEF P
<1>6. P = Seq(D)
  BY <1>3, <1>4, <1>5, SequencesAll
<1>7. QED
  BY <1>6 DEF P

\* A function that gives nothing gathers nothing.
LEMMA GatherNothing ==
  ASSUME NEW D, NEW F \in [D -> {<< >>}], NEW s \in Seq(D)
  PROVE  Gather(F, s) = << >>
<1> DEFINE P == {c \in Seq(D) : Gather(F, c) = << >>}
<1>1. << >> \in P
  BY GatherEmpty
<1>2. ASSUME NEW c \in P, NEW e \in D PROVE Append(c, e) \in P
  <2>0. << >> \in Seq({})
    BY EmptySeq
  <2>1. F \in [D -> Seq({})] /\ F[e] = << >> /\ c \in Seq(D) /\ Gather(F, c) = << >>
    BY <2>0
  <2>2. Gather(F, Append(c, e)) = << >> \o << >>
    BY <2>1, GatherAppend
  <2>3. QED
    BY <2>1, <2>2
<1> HIDE DEF P
<1>3. P \in SUBSET Seq(D)
  BY DEF P
<1>4. P = Seq(D)
  BY <1>1, <1>2, <1>3, SequencesAll
<1>5. QED
  BY <1>4 DEF P

-----------------------------------------------------------------------------
(* The request, converted *)

OwnIds == Calls \cup {None}
Wires == [role : Roles, uses : Seq(Calls), results : Seq(OwnIds)]

UsesOf == [w \in Wires |-> w.uses]
ResultsOf == [w \in Wires |-> w.results]
NameOf == [x \in OwnIds |-> IF x = None THEN << >> ELSE <<x>>]
ToolMessageOf == [x \in OwnIds |-> <<Wire("tool", << >>, <<x>>)>>]
IdOf(type) == [b \in Blocks |-> IF b.type = type THEN <<b.id>> ELSE << >>]

Wired(k, m) ==
    CASE k = "openai" -> openaiMessage(m)
      [] k = "anthropic" -> anthropicMessage(m)
      [] k = "ollama" -> ollamaMessage(m)
ResultsDue(k, m) == IF CarriesResults(k, m) THEN Ids(m.content, "tool_result") ELSE << >>
CallsDue(k, m) == IF CarriesCalls(k, m) THEN Ids(m.content, "tool_use") ELSE << >>

\* A message as the provider gets it, and what it carries.
LEMMA WireType ==
  ASSUME NEW r \in Roles, NEW u \in Seq(Calls), NEW x \in Seq(OwnIds)
  PROVE  /\ Wire(r, u, x) \in Wires /\ Wire(r, u, x).uses = u
         /\ Wire(r, u, x).results = x
  BY DEF Wire, Wires

\* A tool message carries one result and no calls.
LEMMA ToolWireType ==
  ASSUME NEW x \in OwnIds
  PROVE  /\ Wire("tool", << >>, <<x>>) \in Wires
         /\ Wire("tool", << >>, <<x>>).uses = << >>
         /\ Wire("tool", << >>, <<x>>).results = <<x>>
<1>1. "tool" \in Roles /\ << >> \in Seq(Calls) /\ <<x>> \in Seq(OwnIds)
  BY DEF Roles
<1>2. QED
  BY <1>1 DEF Wire, Wires

\* Sequences of bounded length are sequences.
LEMMA ShortSeqs ==
  ASSUME NEW S, NEW n \in Nat
  PROVE  SeqUpTo(S, n) \subseteq Seq(S)
<1> SUFFICES ASSUME NEW s \in SeqUpTo(S, n) PROVE s \in Seq(S)
  OBVIOUS
<1>1. PICK k \in 0..n : s \in [1..k -> S]
  BY DEF SeqUpTo
<1>2. k \in Nat /\ s = [i \in 1..k |-> s[i]] /\ \A i \in 1..k : s[i] \in S
  BY <1>1
<1>3. [i \in 1..k |-> s[i]] \in Seq(S)
  BY <1>2
<1>4. QED
  BY <1>2, <1>3, Zenon

\* A message has a role and blocks.
LEMMA MessageType ==
  ASSUME NEW m \in Messages
  PROVE  m.role \in Roles /\ m.content \in Seq(Blocks)
<1>1. m.role \in Roles /\ m.content \in SeqUpTo(Blocks, MaxBlocks)
  BY DEF Messages
<1>2. MaxBlocks \in Nat
  BY BoundsAssumption
<1>3. SeqUpTo(Blocks, MaxBlocks) \subseteq Seq(Blocks)
  BY <1>2, ShortSeqs
<1>4. QED
  BY <1>1, <1>3

\* The ids of tool calls, and those of results, are ids of calls.
LEMMA IdsType ==
  ASSUME NEW c \in Seq(Blocks), NEW t \in {"tool_use", "tool_result"}
  PROVE  Ids(c, t) \in Seq(Calls)
<1>1. \A b \in Blocks : b.type = t => b.id \in Calls
  BY DEF Blocks
<1>2. IdOf(t) \in [Blocks -> Seq(Calls)]
  BY <1>1 DEF IdOf
<1>3. [i \in DOMAIN c |-> IdOf(t)[c[i]]]
        = [i \in DOMAIN c |-> IF c[i].type = t THEN <<c[i].id>> ELSE << >>]
  BY DEF IdOf
<1>4. Ids(c, t) = Gather(IdOf(t), c)
  BY <1>3 DEF Ids, Gather
<1>5. QED
  BY <1>2, <1>4, GatherType

\* The functions that are gathered with.
LEMMA Gatherers ==
  /\ UsesOf \in [Wires -> Seq(Calls)] /\ ResultsOf \in [Wires -> Seq(OwnIds)]
  /\ NameOf \in [OwnIds -> Seq(Calls)] /\ ToolMessageOf \in [OwnIds -> Seq(Wires)]
<1>1. UsesOf \in [Wires -> Seq(Calls)] /\ ResultsOf \in [Wires -> Seq(OwnIds)]
  BY DEF UsesOf, ResultsOf, Wires
<1>2. NameOf \in [OwnIds -> Seq(Calls)]
  BY NoneAssumption DEF NameOf, OwnIds
<1>3. ASSUME NEW x \in OwnIds PROVE <<Wire("tool", << >>, <<x>>)>> \in Seq(Wires)
  BY ToolWireType
<1>4. ToolMessageOf \in [OwnIds -> Seq(Wires)]
  BY <1>3 DEF ToolMessageOf
<1>5. QED
  BY <1>1, <1>2, <1>4

\* The same facts, named.
LEMMA AreGatherers ==
  /\ Gatherer(UsesOf, Wires, Calls) /\ Gatherer(ResultsOf, Wires, OwnIds)
  /\ Gatherer(NameOf, OwnIds, Calls) /\ Gatherer(ToolMessageOf, OwnIds, Wires)
  BY Gatherers DEF Gatherer

\* What the model gathers, in these terms.
LEMMA Gathered ==
  /\ \A ws \in Seq(Wires) : GotCalls(ws) = Gather(UsesOf, ws)
  /\ \A ids \in Seq(OwnIds) : Named(ids) = Gather(NameOf, ids)
  /\ \A ws \in Seq(Wires) : GotResults(ws) = Named(Gather(ResultsOf, ws))
<1>1. ASSUME NEW ws \in Seq(Wires) PROVE GotCalls(ws) = Gather(UsesOf, ws)
  <2>1. [i \in DOMAIN ws |-> ws[i].uses] = [i \in DOMAIN ws |-> UsesOf[ws[i]]]
    BY DEF UsesOf
  <2>2. QED
    BY <2>1 DEF GotCalls, Gather
<1>2. ASSUME NEW ids \in Seq(OwnIds) PROVE Named(ids) = Gather(NameOf, ids)
  <2>1. [i \in DOMAIN ids |-> IF ids[i] = None THEN << >> ELSE <<ids[i]>>]
          = [i \in DOMAIN ids |-> NameOf[ids[i]]]
    BY DEF NameOf
  <2>2. QED
    BY <2>1 DEF Named, Gather
<1>3. ASSUME NEW ws \in Seq(Wires) PROVE GotResults(ws) = Named(Gather(ResultsOf, ws))
  <2>1. [i \in DOMAIN ws |-> ws[i].results] = [i \in DOMAIN ws |-> ResultsOf[ws[i]]]
    BY DEF ResultsOf
  <2>2. QED
    BY <2>1 DEF GotResults, Gather
<1>4. QED
  BY <1>1, <1>2, <1>3

\* The ids of calls are all named; the message's own id is not.
LEMMA NamesKept ==
  ASSUME NEW ids \in Seq(Calls)
  PROVE  Named(ids) = ids /\ Named(<<None>>) = << >> /\ Named(ids \o <<None>>) = ids
<1> DEFINE M == [x \in Calls |-> x]
           F == [x \in Calls |-> <<x>>]
<1>1. Maps(M, Calls, Calls) /\ Gatherer(F, Calls, Calls) /\ Singles(F, M, Calls)
  BY DEF Singles, Maps, Gatherer
<1>2. Gather(F, ids) = MapOf(M, ids)
  <2> HIDE DEF M, F
  <2> QED
    BY <1>1, GatherMap
<1>3. MapOf(M, ids) = ids
  BY DEF MapOf
<1>4. [i \in DOMAIN ids |-> IF ids[i] = None THEN << >> ELSE <<ids[i]>>]
        = [i \in DOMAIN ids |-> F[ids[i]]]
  BY NoneAssumption
<1>5. Named(ids) = ids
  BY <1>2, <1>3, <1>4 DEF Named, Gather
<1>6. ids \in Seq(OwnIds) /\ <<None>> \in Seq(OwnIds) /\ None \in OwnIds
      /\ ids \o <<None>> \in Seq(OwnIds)
  BY DEF OwnIds
<1>7. Gather(NameOf, <<None>>) = << >>
  <2>1. Gather(NameOf, <<None>>) = NameOf[None]
    BY <1>6, Gatherers, GatherOne
  <2>2. QED
    BY <1>6, <2>1 DEF NameOf
<1>8. Gather(NameOf, ids \o <<None>>) = Gather(NameOf, ids) \o Gather(NameOf, <<None>>)
  <2>1. \A a, b \in Seq(OwnIds) :
            Gather(NameOf, a \o b) = Gather(NameOf, a) \o Gather(NameOf, b)
    BY AreGatherers, GatherConcats
  <2>2. QED
    BY <1>6, <2>1
<1>9. ids \o << >> = ids
  OBVIOUS
<1>10. QED
  BY <1>5, <1>6, <1>7, <1>8, <1>9, Gathered

\* Tool messages carry the results they were made of, and no calls.
LEMMA ToolMessagesKeep ==
  ASSUME NEW ids \in Seq(OwnIds)
  PROVE  /\ ToolMessages(ids) \in Seq(Wires)
         /\ Gather(ResultsOf, ToolMessages(ids)) = ids
         /\ Gather(UsesOf, ToolMessages(ids)) = << >>
<1> DEFINE W == [x \in OwnIds |-> Wire("tool", << >>, <<x>>)]
           M == [x \in OwnIds |-> x]
           F == [x \in OwnIds |-> <<x>>]
           Z == [x \in OwnIds |-> << >>]
<1>1. ASSUME NEW x \in OwnIds
      PROVE  /\ W[x] \in Wires /\ UsesOf[W[x]] = << >> /\ ResultsOf[W[x]] = <<x>>
             /\ ToolMessageOf[x] = <<W[x]>>
  <2>1. W[x] = Wire("tool", << >>, <<x>>) /\ ToolMessageOf[x] = <<W[x]>>
    BY DEF ToolMessageOf
  <2> HIDE DEF W
  <2>2. QED
    BY <2>1, ToolWireType DEF UsesOf, ResultsOf
<1>2. /\ Maps(M, OwnIds, OwnIds) /\ Gatherer(F, OwnIds, OwnIds)
      /\ Z \in [OwnIds -> {<< >>}] /\ Gatherer(Z, OwnIds, Calls)
      /\ Singles(F, M, OwnIds)
  BY DEF Singles, Maps, Gatherer
<1>3. Maps(W, OwnIds, Wires) /\ Singles(ToolMessageOf, W, OwnIds)
  BY <1>1 DEF Singles, Maps
<1>4. ToolMessages(ids) = MapOf(W, ids)
  BY DEF ToolMessages, MapOf
<1>5. MapOf(M, ids) = ids
  BY DEF MapOf
<1>6. \A x \in OwnIds : F[x] = <<x>> /\ Z[x] = << >>
  OBVIOUS
<1> HIDE DEF W, M, F, Z
<1>7. ToolMessages(ids) = Gather(ToolMessageOf, ids)
  BY <1>3, <1>4, AreGatherers, GatherMap
<1>8. Gather(F, ids) = ids
  BY <1>2, <1>5, GatherMap
<1>9. Gather(Z, ids) = << >>
  BY <1>2, GatherNothing
<1>10. ASSUME NEW x \in OwnIds
       PROVE  /\ Gather(ResultsOf, ToolMessageOf[x]) = F[x]
              /\ Gather(UsesOf, ToolMessageOf[x]) = Z[x]
  <2> DEFINE w == W[x]
  <2>1. w \in Wires /\ UsesOf[w] = << >> /\ ResultsOf[w] = <<x>> /\ ToolMessageOf[x] = <<w>>
    BY <1>1
  <2> HIDE DEF w
  <2>2. Gather(ResultsOf, <<w>>) = ResultsOf[w] /\ Gather(UsesOf, <<w>>) = UsesOf[w]
    BY <2>1, Gatherers, GatherOne
  <2>3. QED
    BY <1>6, <2>1, <2>2
<1>11. Combines(ToolMessageOf, ResultsOf, F, OwnIds) /\ Combines(ToolMessageOf, UsesOf, Z, OwnIds)
  BY <1>10 DEF Combines
<1>12. Gather(ResultsOf, Gather(ToolMessageOf, ids)) = Gather(F, ids)
  BY <1>2, <1>11, AreGatherers, GatherTwice
<1>13. Gather(UsesOf, Gather(ToolMessageOf, ids)) = Gather(Z, ids)
  BY <1>2, <1>11, AreGatherers, GatherTwice
<1>14. Gather(ToolMessageOf, ids) \in Seq(Wires)
  BY Gatherers, GatherType
<1>15. QED
  BY <1>7, <1>8, <1>9, <1>12, <1>13, <1>14

\* One message carries what it was made of.
LEMMA OneKeeps ==
  ASSUME NEW r \in Roles, NEW u \in Seq(Calls), NEW x \in Seq(OwnIds)
  PROVE  /\ <<Wire(r, u, x)>> \in Seq(Wires)
         /\ Gather(ResultsOf, <<Wire(r, u, x)>>) = x
         /\ Gather(UsesOf, <<Wire(r, u, x)>>) = u
<1> DEFINE w == Wire(r, u, x)
<1>1. w \in Wires /\ UsesOf[w] = u /\ ResultsOf[w] = x
  BY WireType DEF UsesOf, ResultsOf
<1> HIDE DEF w
<1>2. <<w>> \in Seq(Wires)
  BY <1>1
<1>3. Gather(ResultsOf, <<w>>) = x /\ Gather(UsesOf, <<w>>) = u
  BY <1>1, Gatherers, GatherOne
<1>4. QED
  BY <1>2, <1>3 DEF w

\* The results and the calls that the provider gets of these messages.
GotOf(ws, results, calls) ==
    /\ ws \in Seq(Wires)
    /\ Named(Gather(ResultsOf, ws)) = results /\ Gather(UsesOf, ws) = calls

\* A message that is skipped gives nothing.
LEMMA NothingGot == GotOf(<< >>, << >>, << >>)
<1>1. << >> \in Seq(Wires) /\ << >> \in Seq(OwnIds) /\ << >> \in Seq(Calls)
  OBVIOUS
<1>2. QED
  BY <1>1, GatherEmpty, NamesKept DEF GotOf

\* A message sent as one gives its results and its calls.
LEMMA OneGot ==
  ASSUME NEW r \in Roles, NEW u \in Seq(Calls), NEW ids \in Seq(Calls)
  PROVE  GotOf(<<Wire(r, u, ids)>>, ids, u)
<1>1. ids \in Seq(OwnIds)
  BY DEF OwnIds
<1>2. QED
  BY <1>1, OneKeeps, NamesKept DEF GotOf

\* Tool messages give their results, with or without the message's own id.
LEMMA ToolsGot ==
  ASSUME NEW ids \in Seq(Calls)
  PROVE  /\ GotOf(ToolMessages(ids), ids, << >>)
         /\ GotOf(ToolMessages(<<None>>), << >>, << >>)
         /\ GotOf(ToolMessages(ids \o <<None>>), ids, << >>)
<1>1. ids \in Seq(OwnIds) /\ <<None>> \in Seq(OwnIds) /\ ids \o <<None>> \in Seq(OwnIds)
  BY DEF OwnIds
<1>2. QED
  BY <1>1, ToolMessagesKeep, NamesKept DEF GotOf

\* Whatever its role and provider, one message gives what is due of it.
LEMMA MessageGot ==
  ASSUME NEW k \in Kinds, NEW m \in Messages
  PROVE  GotOf(Wired(k, m), ResultsDue(k, m), CallsDue(k, m))
<1> DEFINE r == m.role
           uses == Ids(m.content, "tool_use")
           ids == Ids(m.content, "tool_result")
<1>1. r \in Roles /\ uses \in Seq(Calls) /\ ids \in Seq(Calls) /\ << >> \in Seq(Calls)
  BY MessageType, IdsType
<1> HIDE DEF uses, ids
<1>2. "assistant" \in Roles /\ ids \o << >> = ids
  BY <1>1 DEF Roles
<1>3. /\ GotOf(<<Wire(r, << >>, << >>)>>, << >>, << >>)
      /\ GotOf(<<Wire("assistant", uses, << >>)>>, << >>, uses)
      /\ GotOf(<<Wire(r, uses, ids)>>, ids, uses)
  <2> HIDE DEF r
  <2> QED
    BY <1>1, <1>2, OneGot
<1>4. CASE k = "openai"
  <2>1. Wired(k, m) = openaiMessage(m)
    BY <1>4 DEF Wired
  <2>2. CASE r = "tool"
    <3>1. ResultsDue(k, m) = ids /\ CallsDue(k, m) = << >>
      BY <1>4, <2>2 DEF ResultsDue, CallsDue, CarriesResults, CarriesCalls, ids
    <3>2. openaiMessage(m) = ToolMessages(IF ids = << >> THEN <<None>> ELSE ids)
      BY <2>2 DEF openaiMessage, ids
    <3>3. QED
      BY <1>1, <2>1, <3>1, <3>2, ToolsGot
  <2>3. CASE r = "assistant"
    <3>1. ResultsDue(k, m) = << >> /\ CallsDue(k, m) = uses
      BY <1>4, <2>3 DEF ResultsDue, CallsDue, CarriesResults, CarriesCalls, uses
    <3>2. openaiMessage(m) = <<Wire("assistant", uses, << >>)>>
      BY <2>3 DEF openaiMessage, uses
    <3>3. QED
      BY <1>3, <2>1, <3>1, <3>2
  <2>4. CASE r \notin {"tool", "assistant"}
    <3>1. ResultsDue(k, m) = << >> /\ CallsDue(k, m) = << >>
      BY <1>4, <2>4 DEF ResultsDue, CallsDue, CarriesResults, CarriesCalls
    <3>2. openaiMessage(m) = <<Wire(r, << >>, << >>)>>
      BY <2>4 DEF openaiMessage
    <3>3. QED
      BY <1>3, <2>1, <3>1, <3>2
  <2>5. QED
    BY <2>2, <2>3, <2>4
<1>5. CASE k = "anthropic"
  <2>1. Wired(k, m) = anthropicMessage(m)
    BY <1>5 DEF Wired
  <2>2. CASE r = "system"
    <3>1. ResultsDue(k, m) = << >> /\ CallsDue(k, m) = << >> /\ anthropicMessage(m) = << >>
      BY <1>5, <2>2 DEF ResultsDue, CallsDue, CarriesResults, CarriesCalls, anthropicMessage
    <3>2. QED
      BY <2>1, <3>1, NothingGot
  <2>3. CASE r # "system"
    <3>1. ResultsDue(k, m) = ids /\ CallsDue(k, m) = uses
      BY <1>5, <2>3 DEF ResultsDue, CallsDue, CarriesResults, CarriesCalls, ids, uses
    <3>2. anthropicMessage(m) = <<Wire(r, uses, ids)>>
      BY <2>3 DEF anthropicMessage, ids, uses
    <3>3. QED
      BY <1>3, <2>1, <3>1, <3>2
  <2>4. QED
    BY <2>2, <2>3
<1>6. CASE k = "ollama"
  <2>1. Wired(k, m) = ollamaMessage(m)
    BY <1>6 DEF Wired
  <2>2. CASE r = "tool"
    <3>1. ResultsDue(k, m) = ids /\ CallsDue(k, m) = << >>
      BY <1>6, <2>2 DEF ResultsDue, CallsDue, CarriesResults, CarriesCalls, ids
    <3>2. \/ ollamaMessage(m) = ToolMessages(ids \o << >>)
          \/ ollamaMessage(m) = ToolMessages(ids \o <<None>>)
      BY <2>2 DEF ollamaMessage, ids
    <3>3. QED
      BY <1>1, <1>2, <2>1, <3>1, <3>2, ToolsGot
  <2>3. CASE r = "assistant"
    <3>1. ResultsDue(k, m) = << >> /\ CallsDue(k, m) = uses
      BY <1>6, <2>3 DEF ResultsDue, CallsDue, CarriesResults, CarriesCalls, uses
    <3>2. ollamaMessage(m) = <<Wire("assistant", uses, << >>)>>
      BY <2>3 DEF ollamaMessage, uses
    <3>3. QED
      BY <1>3, <2>1, <3>1, <3>2
  <2>4. CASE r \notin {"tool", "assistant"}
    <3>1. ResultsDue(k, m) = << >> /\ CallsDue(k, m) = << >>
      BY <1>6, <2>4 DEF ResultsDue, CallsDue, CarriesResults, CarriesCalls
    <3>2. ollamaMessage(m) = << >> \/ ollamaMessage(m) = <<Wire(r, << >>, << >>)>>
      BY <2>4 DEF ollamaMessage
    <3>3. QED
      BY <1>3, <2>1, <3>1, <3>2, NothingGot
  <2>5. QED
    BY <2>2, <2>3, <2>4
<1>7. QED
  BY <1>4, <1>5, <1>6 DEF Kinds

\* The same of a whole request, of any length.
LEMMA RequestGot ==
  ASSUME NEW k \in Kinds, NEW ms \in Seq(Messages)
  PROVE  /\ GotResults(WireMessages(k, ms)) = DueResults(k, ms)
         /\ GotCalls(WireMessages(k, ms)) = DueCalls(k, ms)
<1> DEFINE C == [m \in Messages |-> Wired(k, m)]
           N == [m \in Messages |-> Gather(ResultsOf, Wired(k, m))]
           R == [m \in Messages |-> ResultsDue(k, m)]
           U == [m \in Messages |-> CallsDue(k, m)]
<1>1. ASSUME NEW m \in Messages
      PROVE  /\ Wired(k, m) \in Seq(Wires)
             /\ Gather(ResultsOf, Wired(k, m)) \in Seq(OwnIds)
             /\ ResultsDue(k, m) \in Seq(Calls) /\ CallsDue(k, m) \in Seq(Calls)
             /\ Gather(NameOf, Gather(ResultsOf, Wired(k, m))) = ResultsDue(k, m)
             /\ Gather(UsesOf, Wired(k, m)) = CallsDue(k, m)
  <2> DEFINE w == Wired(k, m)
  <2>1. w \in Seq(Wires) /\ Named(Gather(ResultsOf, w)) = ResultsDue(k, m)
        /\ Gather(UsesOf, w) = CallsDue(k, m)
    BY MessageGot DEF GotOf
  <2> HIDE DEF w
  <2>2. Gather(ResultsOf, w) \in Seq(OwnIds) /\ Gather(UsesOf, w) \in Seq(Calls)
    BY <2>1, Gatherers, GatherType
  <2>3. Gather(NameOf, Gather(ResultsOf, w)) = ResultsDue(k, m)
    BY <2>1, <2>2, Gathered
  <2>4. Gather(NameOf, Gather(ResultsOf, w)) \in Seq(Calls)
    <3> DEFINE v == Gather(ResultsOf, w)
    <3>1. v \in Seq(OwnIds)
      BY <2>2
    <3> HIDE DEF v
    <3>2. Gather(NameOf, v) \in Seq(Calls)
      BY <3>1, Gatherers, GatherType
    <3>3. QED
      BY <3>2 DEF v
  <2>5. QED
    BY <2>1, <2>2, <2>3, <2>4 DEF w
<1>2. /\ Gatherer(C, Messages, Wires) /\ Gatherer(N, Messages, OwnIds)
      /\ Gatherer(R, Messages, Calls) /\ Gatherer(U, Messages, Calls)
  BY <1>1 DEF Gatherer
<1>3. Combines(C, ResultsOf, N, Messages) /\ Combines(N, NameOf, R, Messages)
      /\ Combines(C, UsesOf, U, Messages)
  BY <1>1 DEF Combines
<1>4. Gather(C, ms) = WireMessages(k, ms)
  <2>1. [i \in DOMAIN ms |-> C[ms[i]]] = [i \in DOMAIN ms |-> Wired(k, ms[i])]
    OBVIOUS
  <2>2. QED
    BY <2>1 DEF Gather, WireMessages, Wired
<1>5. Gather(R, ms) = DueResults(k, ms)
  <2>1. [i \in DOMAIN ms |-> R[ms[i]]] = [i \in DOMAIN ms |-> ResultsDue(k, ms[i])]
    OBVIOUS
  <2>2. QED
    BY <2>1 DEF Gather, DueResults, ResultsDue
<1>6. Gather(U, ms) = DueCalls(k, ms)
  <2>1. [i \in DOMAIN ms |-> U[ms[i]]] = [i \in DOMAIN ms |-> CallsDue(k, ms[i])]
    OBVIOUS
  <2>2. QED
    BY <2>1 DEF Gather, DueCalls, CallsDue
<1>7. C \in [Messages -> Seq(Wires)] /\ N \in [Messages -> Seq(OwnIds)]
  BY <1>2 DEF Gatherer
<1> HIDE DEF C, N, R, U
<1>8. Gather(ResultsOf, Gather(C, ms)) = Gather(N, ms)
  BY <1>2, <1>3, AreGatherers, GatherTwice
<1>9. Gather(NameOf, Gather(N, ms)) = Gather(R, ms)
  BY <1>2, <1>3, AreGatherers, GatherTwice
<1>10. Gather(UsesOf, Gather(C, ms)) = Gather(U, ms)
  BY <1>2, <1>3, AreGatherers, GatherTwice
<1>11. Gather(C, ms) \in Seq(Wires) /\ Gather(N, ms) \in Seq(OwnIds)
  BY <1>7, GatherType
<1>12. /\ GotResults(Gather(C, ms)) = Named(Gather(N, ms))
       /\ Named(Gather(N, ms)) = Gather(NameOf, Gather(N, ms))
       /\ GotCalls(Gather(C, ms)) = Gather(UsesOf, Gather(C, ms))
  BY <1>8, <1>11, Gathered
<1>13. QED
  BY <1>4, <1>5, <1>6, <1>9, <1>10, <1>12

\* The request stays as it was until the stream is open, and what was sent is what
\* toMessages made of it.
RequestInv ==
    /\ kind \in Kinds
    /\ pc \in {"convert", "open"} => msgs \in SeqUpTo(Messages, MaxMessages)
    /\ pc = "open" => sent = WireMessages(kind, protoMessages(msgs))

\* Tool turns survive the conversion, for requests of any length and with any
\* number of blocks and tool calls, whichever provider's toMessages handles them.
THEOREM ToolTurnsAreKept == Spec => []ToolTurnsKept
<1>1. Init => RequestInv
  BY DEF Init, RequestInv
<1>2. RequestInv /\ [Next]_vars => RequestInv'
  <2> SUFFICES ASSUME RequestInv, [Next]_vars PROVE RequestInv'
    OBVIOUS
  <2>1. CASE Convert
    BY <2>1 DEF RequestInv, Convert
  <2>2. CASE Open
    BY <2>2 DEF RequestInv, Open
  <2>3. CASE StreamFails
    BY <2>3 DEF RequestInv, StreamFails
  <2>4. CASE UNCHANGED vars
    BY <2>4 DEF RequestInv, vars
  <2>5. CASE /\ pc = "recv" /\ UNCHANGED kind /\ pc' \in {"recv", "done"}
    BY <2>5 DEF RequestInv
  <2>6. CASE OpenAIText \/ OpenAIFragment \/ OpenAIFinish \/ OpenAIEnd \/ StreamEnds
    BY <2>5, <2>6
       DEF Receiving, OpenAIText, OpenAIFragment, OpenAIFinish, OpenAIEnd, StreamEnds
  <2>7. CASE \/ AnthropicText \/ AnthropicStart \/ AnthropicFragment
             \/ AnthropicStop \/ AnthropicFinish
    BY <2>5, <2>7 DEF Receiving, AnthropicText, AnthropicStart, AnthropicFragment,
                      AnthropicStop, AnthropicFinish
  <2>8. CASE OllamaText \/ OllamaFragment \/ OllamaFinish
    BY <2>5, <2>8 DEF Receiving, OllamaText, OllamaFragment, OllamaFinish, OllamaLast
  <2>9. QED
    BY <2>1, <2>2, <2>3, <2>4, <2>6, <2>7, <2>8 DEF Next
<1>3. RequestInv => ToolTurnsKept
  <2> SUFFICES ASSUME RequestInv, pc = "open", ~HasUnknown(msgs)
               PROVE  /\ GotResults(sent) = DueResults(kind, msgs)
                      /\ GotCalls(sent) = DueCalls(kind, msgs)
    BY DEF ToolTurnsKept
  <2>1. MaxMessages \in Nat
    BY BoundsAssumption
  <2>2. SeqUpTo(Messages, MaxMessages) \subseteq Seq(Messages)
    BY <2>1, ShortSeqs
  <2>3. msgs \in Seq(Messages) /\ sent = WireMessages(kind, msgs) /\ kind \in Kinds
    BY <2>2 DEF RequestInv, protoMessages
  <2>4. QED
    BY <2>3, RequestGot
<1>4. QED
  BY <1>1, <1>2, <1>3, PTL DEF Spec

=============================================================================
