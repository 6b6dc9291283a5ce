----------------------------- MODULE LLMService -----------------------------
(***************************************************************************)
(* One streamed chat: from the gRPC request of an agent, through the       *)
(* message conversion of the provider that the router chose, to the chunks *)
(* Service.StreamChat sends back.                                          *)
(*                                                                         *)
(* The three providers decode their event streams differently: OpenAI      *)
(* relies on the SDK's accumulator and ends with a Final chunk that holds   *)
(* everything, Anthropic assembles tool calls block by block, Ollama reads  *)
(* the OpenAI format by hand.  One action is one event taken from the       *)
(* provider (inner.Next) with what Recv makes of it, and the Send of the    *)
(* chunk it returns, if any.  What the provider emits is chosen             *)
(* nondeterministically within its protocol (external).                     *)
(*                                                                         *)
(* A text delta is its number in the reply, a tool call is its number and  *)
(* how many fragments of its arguments were put together.                  *)
(***************************************************************************)
EXTENDS Integers, Sequences, SequencesExt

CONSTANTS
    Calls,         \* ids of earlier tool calls that a request mentions
    MaxMessages, MaxBlocks,   \* bounds: the request
    MaxText, MaxCalls, MaxFragments,  \* bounds: the reply
    None

ASSUME BoundsAssumption ==
    {MaxMessages, MaxBlocks, MaxText, MaxCalls, MaxFragments} \subseteq Nat
ASSUME NoneAssumption == None \notin Calls

VARIABLES
    kind,   \* the provider that serves the request
    pc,     \* where Service.StreamChat is
    msgs,   \* the messages of the request
    sent,   \* the messages the provider was sent
    reply,  \* what the provider has generated so far (external)
    dec,    \* the decoder: chatStream or ollamaStream
    out     \* the chunks sent to the agent

vars == <<kind, pc, msgs, sent, reply, dec, out>>

-----------------------------------------------------------------------------
Kinds == {"openai", "anthropic", "ollama"}

\* Message.Role is a string of the agent; "other" is one that no provider knows.
Roles == {"system", "user", "assistant", "tool", "other"}

\* llm.Block; "unknown" is a block of the proto that the service does not know.
Blocks == [type : {"text", "image", "unknown"}, id : {None}]
          \cup [type : {"tool_use", "tool_result"}, id : Calls]
SeqUpTo(S, n) == UNION {[1..k -> S] : k \in 0..n}
Messages == [role : Roles, content : SeqUpTo(Blocks, MaxBlocks)]

\* The reply: how many text deltas, the number of fragments of each tool call,
\* and the part that is being generated: none, text, call or finished.
NoReply == [text |-> 0, calls |-> << >>, part |-> "none"]

\* text, calls: what was put together; pending: the calls not yet emitted.
NoDecoder == [text |-> << >>, calls |-> << >>, pending |-> {}]

\* llm.Chunk: the number of a text delta, or a tool call and its fragments, or
\* Final with the content of the response; 0 stands for nil.
NoContent == [text |-> << >>, calls |-> << >>]
EmptyChunk == [text |-> 0, call |-> 0, fragments |-> 0, final |-> FALSE,
               content |-> NoContent]

Init ==
    /\ kind \in Kinds
    /\ pc = "convert"
    /\ msgs \in SeqUpTo(Messages, MaxMessages)
    /\ sent = << >> /\ reply = NoReply /\ dec = NoDecoder /\ out = << >>

-----------------------------------------------------------------------------
\* The request.

\* The ids of the blocks of this type, in their order.
Ids(content, type) ==
    FlattenSeq([i \in DOMAIN content |->
        IF content[i].type = type THEN <<content[i].id>> ELSE << >>])

HasUnknown(ms) ==
    \E i \in DOMAIN ms : \E j \in DOMAIN ms[i].content :
        ms[i].content[j].type = "unknown"

\* streamProtoToProviderRequest: protoMessages fails on an unknown block, the
\* error is dropped, and the request goes on without any message.
protoMessages(ms) == IF HasUnknown(ms) THEN << >> ELSE ms

\* A message as the provider gets it: the tool calls and results it carries.  A
\* result without a call id of its own is sent under the message's id, None.
Wire(role, uses, results) == [role |-> role, uses |-> uses, results |-> results]
ToolMessages(ids) == [i \in DOMAIN ids |-> Wire("tool", << >>, <<ids[i]>>)]

\* Mutant of openaiMessage: every tool message takes the legacy path.
openaiLegacy(m) ==
    CASE m.role = "tool" -> ToolMessages(<<None>>)
      [] m.role = "assistant" -> <<Wire("assistant", Ids(m.content, "tool_use"), << >>)>>
      [] OTHER -> <<Wire(m.role, << >>, << >>)>>

\* openai toMessages: one message per tool result; without any, the message's
\* own ToolCallID.  Results in a message of another role are dropped.
openaiMessage(m) ==
    CASE m.role = "tool" ->
            LET ids == Ids(m.content, "tool_result")
            IN  ToolMessages(IF ids = << >> THEN <<None>> ELSE ids)
      [] m.role = "assistant" -> <<Wire("assistant", Ids(m.content, "tool_use"), << >>)>>
      [] OTHER -> <<Wire(m.role, << >>, << >>)>>

\* ollama toMessages: the message's own id is added whenever the first block
\* is not a tool result, also when results follow.  An unknown role is skipped.
ollamaMessage(m) ==
    CASE m.role = "tool" ->
            ToolMessages(Ids(m.content, "tool_result")
              \o IF m.content # << >> /\ m.content[1].type = "tool_result"
                 THEN << >> ELSE <<None>>)
      [] m.role = "assistant" -> <<Wire("assistant", Ids(m.content, "tool_use"), << >>)>>
      [] m.role = "other" -> << >>
      [] OTHER -> <<Wire(m.role, << >>, << >>)>>

\* anthropic toMessageParams: system messages go to a field of their own.
anthropicMessage(m) ==
    IF m.role = "system" THEN << >>
    ELSE <<Wire(m.role, Ids(m.content, "tool_use"), Ids(m.content, "tool_result"))>>

WireMessages(k, ms) ==
    FlattenSeq([i \in DOMAIN ms |->
        CASE k = "openai" -> openaiMessage(ms[i])
          [] k = "anthropic" -> anthropicMessage(ms[i])
          [] k = "ollama" -> ollamaMessage(ms[i])])

\* toMessages of openai refuses an unknown role, toMessageParam of anthropic "tool"
\* as well; the router counts the error as the provider's failure and StreamChat
\* returns Internal.
Refused(k, ms) ==
    \E i \in DOMAIN ms :
        \/ k = "openai" /\ ms[i].role = "other"
        \/ k = "anthropic" /\ ms[i].role \in {"tool", "other"}

Convert ==
    /\ pc = "convert"
    /\ LET ms == protoMessages(msgs) IN
         IF Refused(kind, ms) THEN pc' = "failed" /\ UNCHANGED sent
         ELSE pc' = "open" /\ sent' = WireMessages(kind, ms)
    /\ UNCHANGED <<kind, msgs, reply, dec, out>>

\* Router.StreamChat returns a stream; the request plays no part any more.
Open ==
    /\ pc = "open"
    /\ pc' = "recv" /\ msgs' = << >> /\ sent' = << >>
    /\ UNCHANGED <<kind, reply, dec, out>>

-----------------------------------------------------------------------------
\* The provider's side of the stream.

MoreText == reply.text < MaxText /\ reply.part # "finished"
\* A fragment of the call in progress, or the next call.
SameCall == reply.part = "call" /\ Last(reply.calls) < MaxFragments
NextCall == Len(reply.calls) < MaxCalls /\ reply.part # "finished"

WithText == [reply EXCEPT !.text = @ + 1, !.part = "text"]
WithFragment == [reply EXCEPT !.calls[Len(reply.calls)] = @ + 1]
WithCall(n) == [reply EXCEPT !.calls = Append(@, n), !.part = "call"]

-----------------------------------------------------------------------------
\* Service.StreamChat: chunkToProto and Send.  A chunk is sent as one of three
\* messages: Final before ToolUse before TextDelta.
chunkToProto(c) ==
    IF c.final THEN [EmptyChunk EXCEPT !.final = TRUE, !.content = c.content]
    ELSE IF c.call # 0 THEN [EmptyChunk EXCEPT !.call = c.call, !.fragments = c.fragments]
    ELSE [EmptyChunk EXCEPT !.text = c.text]

Send(c) == out' = Append(out, chunkToProto(c))

TextChunk(n) == [EmptyChunk EXCEPT !.text = n]
CallChunk(i, n) == [EmptyChunk EXCEPT !.call = i, !.fragments = n]
FinalChunk(content) == [EmptyChunk EXCEPT !.final = TRUE, !.content = content]

Receiving(k) == pc = "recv" /\ kind = k

-----------------------------------------------------------------------------
\* openai chatStream.Recv.  The SDK's accumulator (external) reports the call
\* that was in progress when the next chunk is of another part.

\* The call, if any, that JustFinishedToolCall reports when the part changes.
JustFinished == IF reply.part = "call" THEN Len(reply.calls) ELSE 0

AddText == [dec EXCEPT !.text = Append(@, reply.text + 1)]

\* Mutant of OpenAIText: the content of the chunk is looked at first.
OpenAITextFirst ==
    /\ Receiving("openai") /\ MoreText
    /\ reply' = WithText /\ dec' = AddText
    /\ Send(TextChunk(reply.text + 1))
    /\ UNCHANGED <<kind, pc, msgs, sent>>

\* A chunk with content: the content is lost to the chunks when a call has
\* just finished, and only Final has it.
OpenAIText ==
    /\ Receiving("openai") /\ MoreText
    /\ reply' = WithText /\ dec' = AddText
    /\ IF JustFinished # 0 THEN Send(CallChunk(JustFinished, Last(dec.calls)))
       ELSE Send(TextChunk(reply.text + 1))
    /\ UNCHANGED <<kind, pc, msgs, sent>>

OpenAIFragment ==
    /\ Receiving("openai")
    /\ \/ /\ SameCall
          /\ reply' = WithFragment
          /\ dec' = [dec EXCEPT !.calls[Len(reply.calls)] = @ + 1]
          /\ UNCHANGED out
       \/ /\ NextCall
          /\ reply' = WithCall(1)
          /\ dec' = [dec EXCEPT !.calls = Append(@, 1)]
          /\ IF JustFinished # 0 THEN Send(CallChunk(JustFinished, Last(dec.calls)))
             ELSE UNCHANGED out
    /\ UNCHANGED <<kind, pc, msgs, sent>>

\* The chunk with the finish reason and an empty delta.
OpenAIFinish ==
    /\ Receiving("openai") /\ reply.part # "finished"
    /\ reply' = [reply EXCEPT !.part = "finished"]
    /\ IF JustFinished # 0 THEN Send(CallChunk(JustFinished, Last(dec.calls)))
       ELSE UNCHANGED out
    /\ UNCHANGED <<kind, pc, msgs, sent, dec>>

\* The response that the accumulator has put together.
fromChatCompletion(acc) == [text |-> acc.text, calls |-> acc.calls]

\* Next is false without an error: the Final chunk, and EOF on the next Recv.
\* A backend may put the finish reason on its last delta, or just stop.
OpenAIEnd ==
    /\ Receiving("openai")
    /\ Send(FinalChunk(fromChatCompletion(dec)))
    /\ pc' = "done"
    /\ UNCHANGED <<kind, msgs, sent, reply, dec>>

-----------------------------------------------------------------------------
\* anthropic chatStream.Recv.  Content blocks come one after the other (external);
\* a tool block may have no input_json_delta, and then no entry in toolInputs:
\* dec.pending is the set of the blocks that have one.

AnthropicText ==
    /\ Receiving("anthropic") /\ MoreText /\ reply.part # "call"
    /\ reply' = WithText
    /\ Send(TextChunk(reply.text + 1))
    /\ UNCHANGED <<kind, pc, msgs, sent, dec>>

\* content_block_start of a tool block.
AnthropicStart ==
    /\ Receiving("anthropic") /\ NextCall /\ reply.part # "call"
    /\ reply' = WithCall(0)
    /\ dec' = [dec EXCEPT !.calls = Append(@, 0)]
    /\ UNCHANGED <<kind, pc, msgs, sent, out>>

\* Mutant of AnthropicFragment: a fragment replaces what came before it.
AnthropicLastFragment ==
    /\ Receiving("anthropic") /\ SameCall
    /\ reply' = WithFragment
    /\ dec' = [dec EXCEPT !.calls[Len(reply.calls)] = 1,
                          !.pending = @ \cup {Len(reply.calls)}]
    /\ UNCHANGED <<kind, pc, msgs, sent, out>>

\* input_json_delta: toolInputs[index] += fragment.
AnthropicFragment ==
    /\ Receiving("anthropic") /\ SameCall
    /\ reply' = WithFragment
    /\ dec' = [dec EXCEPT !.calls[Len(reply.calls)] = @ + 1,
                          !.pending = @ \cup {Len(reply.calls)}]
    /\ UNCHANGED <<kind, pc, msgs, sent, out>>

\* content_block_stop: a block with input is emitted and forgotten, one without
\* is skipped.
AnthropicStop ==
    /\ Receiving("anthropic") /\ reply.part = "call"
    /\ LET i == Len(reply.calls) IN
         IF i \in dec.pending
         THEN /\ Send(CallChunk(i, dec.calls[i]))
              /\ dec' = [dec EXCEPT !.pending = @ \ {i}]
         ELSE UNCHANGED <<dec, out>>
    /\ reply' = [reply EXCEPT !.part = "none"]
    /\ UNCHANGED <<kind, pc, msgs, sent>>

\* message_delta: a Final chunk with the stop reason and no content.
AnthropicFinish ==
    /\ Receiving("anthropic") /\ reply.part \notin {"call", "finished"}
    /\ reply' = [reply EXCEPT !.part = "finished"]
    /\ Send(FinalChunk(NoContent))
    /\ UNCHANGED <<kind, pc, msgs, sent, dec>>

-----------------------------------------------------------------------------
\* ollamaStream.Recv: every event is answered by a chunk, an empty text delta
\* if there is nothing to say.

OllamaText ==
    /\ Receiving("ollama") /\ MoreText
    /\ reply' = WithText
    /\ Send(TextChunk(reply.text + 1))
    /\ UNCHANGED <<kind, pc, msgs, sent, dec>>

OllamaFragment ==
    /\ Receiving("ollama")
    /\ \/ /\ SameCall
          /\ reply' = WithFragment
          /\ dec' = [dec EXCEPT !.calls[Len(reply.calls)] = @ + 1]
       \/ /\ NextCall
          /\ reply' = WithCall(1)
          /\ dec' = [dec EXCEPT !.calls = Append(@, 1)]
    /\ Send(EmptyChunk)
    /\ UNCHANGED <<kind, pc, msgs, sent>>

\* The chunk with the finish reason, which may hold the last delta, also of a
\* new call: for "tool_calls" and "stop" one of the calls, whichever the map
\* yields first; for another reason none.  chunkToProto then drops the text
\* beside a call.
OllamaLast(last, calls, text) ==
    /\ Receiving("ollama") /\ reply.part # "finished"
    /\ reply' = [last EXCEPT !.part = "finished"]
    /\ dec' = [dec EXCEPT !.calls = calls]
    /\ \/ \E i \in DOMAIN calls : Send([CallChunk(i, calls[i]) EXCEPT !.text = text])
       \/ Send(TextChunk(text))
    /\ UNCHANGED <<kind, pc, msgs, sent>>

OllamaFinish ==
    \/ OllamaLast(reply, dec.calls, 0)
    \/ MoreText /\ OllamaLast(WithText, dec.calls, reply.text + 1)
    \/ SameCall /\ OllamaLast(WithFragment,
                              [dec.calls EXCEPT ![Len(reply.calls)] = @ + 1], 0)
    \/ NextCall /\ OllamaLast(WithCall(1), Append(dec.calls, 1), 0)

-----------------------------------------------------------------------------
\* EOF of the two providers without a Final of their own: StreamChat returns nil.
\* Next is false without an error wherever the connection is closed, also in the
\* middle of a block.
StreamEnds ==
    /\ pc = "recv" /\ kind # "openai"
    /\ pc' = "done"
    /\ UNCHANGED <<kind, msgs, sent, reply, dec, out>>

\* A tool's schema is no JSON, the router has no provider, Recv fails, or Send
\* does because the agent is gone: StreamChat returns the error, and the deferred
\* Close ends the provider's stream.
StreamFails ==
    /\ pc \in {"convert", "open", "recv"}
    /\ pc' = "failed"
    /\ UNCHANGED <<kind, msgs, sent, reply, dec, out>>

Next ==
    \/ Convert \/ Open
    \/ OpenAIText \/ OpenAIFragment \/ OpenAIFinish \/ OpenAIEnd
    \/ AnthropicText \/ AnthropicStart \/ AnthropicFragment \/ AnthropicStop \/ AnthropicFinish
    \/ OllamaText \/ OllamaFragment \/ OllamaFinish
    \/ StreamEnds \/ StreamFails

Spec == Init /\ [][Next]_vars

-----------------------------------------------------------------------------
\* The messages of a request whose results, and those whose calls, the provider is due.
CarriesResults(k, m) == IF k = "anthropic" THEN m.role # "system" ELSE m.role = "tool"
CarriesCalls(k, m) == IF k = "anthropic" THEN m.role # "system" ELSE m.role = "assistant"

DueResults(k, ms) ==
    FlattenSeq([i \in DOMAIN ms |->
        IF CarriesResults(k, ms[i]) THEN Ids(ms[i].content, "tool_result") ELSE << >>])
DueCalls(k, ms) ==
    FlattenSeq([i \in DOMAIN ms |->
        IF CarriesCalls(k, ms[i]) THEN Ids(ms[i].content, "tool_use") ELSE << >>])

\* The results and the calls in what the provider is sent; a message's own id is no
\* result of the request.
GotCalls(ws) == FlattenSeq([i \in DOMAIN ws |-> ws[i].uses])
Named(ids) == FlattenSeq([i \in DOMAIN ids |-> IF ids[i] = None THEN << >> ELSE <<ids[i]>>])
GotResults(ws) == Named(FlattenSeq([i \in DOMAIN ws |-> ws[i].results]))

\* The order of tool turns survives the conversion: the provider gets every
\* tool call of the assistant's messages and every result of the messages that
\* carry results for it (role "tool"; for Anthropic any), once and in the order
\* of the request.
ToolTurnsKept ==
    pc = "open" /\ ~HasUnknown(msgs) =>
        /\ GotResults(sent) = DueResults(kind, msgs)
        /\ GotCalls(sent) = DueCalls(kind, msgs)

\* A tool call that reaches the agent is complete and reaches it once, with any
\* provider and even if the stream breaks right after (Chunk: "complete tool
\* call (when accumulation finishes)").
CallsWhole ==
    /\ \A i \in DOMAIN out :
         out[i].call # 0 => /\ out[i].call \in DOMAIN reply.calls
                            /\ out[i].fragments = reply.calls[out[i].call]
    /\ \A i, j \in DOMAIN out : out[i].call # 0 /\ out[i].call = out[j].call => i = j

\* Without its zeros, s is 1, 2, ... n.
CountsTo(s, n) ==
    /\ \A i \in DOMAIN s : s[i] \in 0..n
    /\ \A k \in 1..n : \E i \in DOMAIN s : s[i] = k
    /\ \A i, j \in DOMAIN s : i < j /\ s[i] # 0 /\ s[j] # 0 => s[i] < s[j]

TextNumbers(chunks) == [i \in DOMAIN chunks |-> chunks[i].text]

\* The calls of the reply that are complete: the one in progress is not.
Complete == IF reply.part = "call" THEN Len(reply.calls) - 1 ELSE Len(reply.calls)

\* OpenAI and Anthropic hand on what they have read, in order and without a gap,
\* so that an agent misses nothing that was complete when a stream ended or broke:
\* every complete tool call with input, after the calls before it, and for
\* Anthropic every text delta (OpenAI leaves one out beside a call).  A call
\* without input is never sent by Anthropic.
SentInOrder ==
    kind # "ollama" =>
        /\ \A k \in 1..Complete :
             reply.calls[k] > 0 => \E i \in DOMAIN out : out[i].call = k
        /\ \A i, j \in DOMAIN out :
             i < j /\ out[i].call # 0 /\ out[j].call # 0 => out[i].call < out[j].call
        /\ kind = "anthropic" => CountsTo(TextNumbers(out), reply.text)

=============================================================================
