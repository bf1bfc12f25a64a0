------------------------------ MODULE ModelStream ------------------------------
(***************************************************************************)
(* What a model answers, through the adapters of the model gateway: the    *)
(* lines of a server-sent stream out of the chunks the network delivers,   *)
(* the provider's events into the gateway's, and the history with the      *)
(* answer in it back into a request to the same provider or to another.    *)
(*                                                                         *)
(* An answer is a piece of text, or none, and tool calls, whose arguments  *)
(* come in fragments.  The streams the providers send are external.        *)
(***************************************************************************)
EXTENDS Integers, Sequences, SequencesExt, FiniteSets, FiniteSetsExt

CONSTANTS None

Adapters == {"chat", "anthropic", "responses", "gemini"}

-----------------------------------------------------------------------------
(* parseSse. *)

Newline == [half |-> 0, event |-> None]
Half(n, event) == [half |-> n, event |-> event]

\* The event of a line; a malformed line is skipped.
EventOf(line) ==
    IF Len(line) = 2 /\ line[1].half = 1 /\ line[2].half = 2 /\ line[1].event = line[2].event
    THEN <<line[1].event>> ELSE <<>>

\* Mutant of Carried: what is left of a chunk is dropped.
CarriedNot(buffer, chunk) == chunk

\* The end of a chunk waits for the next one.
Carried(buffer, chunk) == buffer \o chunk

ReadToken(s, token) ==
    IF token = Newline THEN [events |-> s.events \o EventOf(s.buffer), buffer |-> <<>>]
    ELSE [events |-> s.events, buffer |-> Append(s.buffer, token)]

\* What was left is read again, with the chunk behind it.
ReadChunk(s, chunk) ==
    LET tokens == Carried(s.buffer, chunk)
        after[n \in 0..Len(tokens)] ==
            IF n = 0 THEN [events |-> s.events, buffer |-> <<>>]
            ELSE ReadToken(after[n - 1], tokens[n])
    IN  after[Len(tokens)]

\* What the stream ends with, without a newline, is a line too.
ParseSse(chunks) ==
    LET after[n \in 0..Len(chunks)] ==
            IF n = 0 THEN [events |-> <<>>, buffer |-> <<>>]
            ELSE ReadChunk(after[n - 1], chunks[n])
        end == after[Len(chunks)]
    IN  end.events \o EventOf(end.buffer)

-----------------------------------------------------------------------------
(* The gateway's events, and the decoder between two of the provider's. *)

ToolCall(id, name, args) == [id |-> id, name |-> name, args |-> args]

\* texts, calls: the text_delta and tool_call events; open: the calls, blocks or
\* items so far, in the order they were begun.
Decoder == [texts |-> <<>>, calls |-> <<>>, open |-> <<>>, flushed |-> FALSE, finish |-> "stop",
            called |-> FALSE]

NormalizeFinishReason(reason) ==
    CASE reason \in {"tool_calls", "tool_use", "function_call"} -> "tool_calls"
      [] reason \in {"length", "max_tokens"} -> "length"
      [] reason \in {"content_filter", "safety"} -> "content_filter"
      [] reason = "error" -> "error"
      [] OTHER -> "stop"

Saying(d, text) == IF text = None THEN d ELSE [d EXCEPT !.texts = Append(@, text)]
Ending(d, reason) == IF reason = None THEN d ELSE [d EXCEPT !.finish = reason]

PlaceOf(open, key) == {i \in DOMAIN open : open[i].key = key}

\* Replaces the entry of a key, or begins it.
Put(open, entry) ==
    IF PlaceOf(open, entry.key) = {} THEN Append(open, entry)
    ELSE [i \in DOMAIN open |-> IF open[i].key = entry.key THEN entry ELSE open[i]]
Get(open, key) ==
    IF PlaceOf(open, key) = {} THEN [key |-> key, id |-> None, name |-> None, args |-> <<>>]
    ELSE open[CHOOSE i \in PlaceOf(open, key) : TRUE]

\* A fragment of the arguments behind those of a key.
Extended(open, key, args) ==
    LET old == Get(open, key) IN Put(open, [old EXCEPT !.args = @ \o args])

(* Chat completions: a call's id, name and arguments come in deltas that    *)
(* name the call's index; the calls are flushed when the turn says so, and  *)
(* at the end.                                                              *)
MergeCall(open, delta) ==
    LET old == Get(open, delta.index) IN
    Put(open, [key |-> delta.index,
               id |-> IF delta.id = None THEN old.id ELSE delta.id,
               name |-> IF delta.name = None THEN old.name ELSE delta.name,
               args |-> old.args \o delta.args])

MergeCalls(open, deltas) ==
    LET after[n \in 0..Len(deltas)] ==
            IF n = 0 THEN open ELSE MergeCall(after[n - 1], deltas[n])
    IN  after[Len(deltas)]

Complete(c) == c.id # None /\ c.name # None

FlushTools(d) ==
    IF d.flushed THEN d
    ELSE [d EXCEPT !.flushed = TRUE,
                   !.calls = @ \o FlattenSeq([i \in DOMAIN d.open |->
                        LET c == d.open[i] IN
                        IF Complete(c) THEN <<ToolCall(c.id, c.name, c.args)>> ELSE <<>>])]

ChatStep(d, event) ==
    LET seen == [Ending(Saying(d, event.text), event.finish) EXCEPT
                    !.open = MergeCalls(@, event.calls)]
    IN  IF event.finish # None /\ NormalizeFinishReason(event.finish) = "tool_calls"
        THEN FlushTools(seen) ELSE seen

(* Anthropic: blocks are started, added to and stopped; a stopped tool_use  *)
(* block is a call.                                                         *)
AnthropicStep(d, event) ==
    CASE event.type = "start" -> [d EXCEPT !.open = Put(@, event.block)]
      [] event.type = "text" -> Saying(d, event.text)
      [] event.type = "json" ->
           [d EXCEPT !.open = Extended(@, event.key, event.args)]
      [] event.type = "stop" ->
           LET block == Get(d.open, event.key) IN
           IF block.name = None THEN d
           ELSE [d EXCEPT !.calls = Append(@, ToolCall(block.id, block.name, block.args))]
      [] event.type = "end" -> Ending(d, event.finish)

(* Responses: an item that is done is whole, whatever came of it before; a  *)
(* call turns the stop of the stream into that of a turn with tools.        *)
ResponsesStep(d, event) ==
    CASE event.type = "text" -> Saying(d, event.text)
      [] event.type = "added" -> [d EXCEPT !.open = Put(@, event.item)]
      [] event.type = "json" ->
           [d EXCEPT !.open = Extended(@, event.key, event.args)]
      [] event.type = "done" ->
           IF event.item.name = None THEN [d EXCEPT !.open = Put(@, event.item)]
           ELSE [d EXCEPT !.open = Put(@, event.item), !.called = TRUE,
                          !.calls = Append(@, ToolCall(event.item.id, event.item.name, event.item.args))]
      [] event.type = "end" -> Ending(d, event.finish)

(* Gemini: whole calls, that may have no id; an id is made of the name and  *)
(* the number of calls before.                                              *)
GeminiCall(d, call) ==
    LET id == IF call.id = None THEN <<call.name, Len(d.calls)>> ELSE call.id
        known == \E i \in DOMAIN d.calls : d.calls[i].id = id
    IN  IF known THEN d ELSE [d EXCEPT !.calls = Append(@, ToolCall(id, call.name, call.args))]

CallGemini(d, calls) ==
    LET after[n \in 0..Len(calls)] ==
            IF n = 0 THEN d ELSE GeminiCall(after[n - 1], calls[n])
    IN  after[Len(calls)]

GeminiStep(d, event) ==
    LET said == Saying(d, event.text)
        put == [said EXCEPT !.open = @ \o event.calls]
    IN  Ending(CallGemini(put, event.calls), event.finish)

Step(adapter, d, event) ==
    CASE adapter = "chat" -> ChatStep(d, event)
      [] adapter = "anthropic" -> AnthropicStep(d, event)
      [] adapter = "responses" -> ResponsesStep(d, event)
      [] OTHER -> GeminiStep(d, event)

\* Gemini says STOP of a turn with calls as well; the loop goes by the calls.
FinishOf(adapter, d) ==
    IF adapter = "responses" /\ d.called /\ d.finish = "stop" THEN "tool_calls"
    ELSE NormalizeFinishReason(d.finish)

\* streamModel, for a stream that is not interrupted.
Decode(adapter, chunks) ==
    LET events == ParseSse(chunks)
        after[n \in 0..Len(events)] ==
            IF n = 0 THEN Decoder ELSE Step(adapter, after[n - 1], events[n])
        d == after[Len(events)]
        end == IF adapter = "chat" THEN FlushTools(d) ELSE d
    IN  [texts |-> end.texts, calls |-> end.calls, finish |-> FinishOf(adapter, end),
         saved |-> [adapter |-> adapter, open |-> end.open]]

-----------------------------------------------------------------------------
(* External: the streams the providers send for an answer. *)

CallDelta(i, id, name, args) == [index |-> i, id |-> id, name |-> name, args |-> args]
ChatEvent(text, calls, finish) == [text |-> text, calls |-> calls, finish |-> finish]

\* Names first, then the fragments of the arguments, call by call or in turn.
ChatStream(answer, inTurn) ==
    LET n == Len(answer.calls)
        name == [i \in 1..n |-> CallDelta(i, answer.calls[i].id, answer.calls[i].name, <<>>)]
        fragment(k) == [i \in 1..n |-> CallDelta(i, None, None, <<answer.calls[i].args[k]>>)]
        single(c) == ChatEvent(None, <<c>>, None)
        order == IF inTurn THEN name \o fragment(1) \o fragment(2)
                 ELSE FlattenSeq([i \in 1..n |-> <<name[i], fragment(1)[i], fragment(2)[i]>>])
    IN  <<ChatEvent(answer.text, <<>>, None)>> \o [i \in DOMAIN order |-> single(order[i])]
        \o <<ChatEvent(None, <<>>, IF n > 0 THEN "tool_calls" ELSE "stop")>>

Item(key, call, args) == [key |-> key, id |-> call.id, name |-> call.name, args |-> args]
TextItem(key) == [key |-> key, id |-> None, name |-> None, args |-> <<>>]

AnthropicStream(answer) ==
    <<[type |-> "start", block |-> TextItem(0)], [type |-> "text", text |-> answer.text],
      [type |-> "stop", key |-> 0]>>
    \o FlattenSeq([i \in DOMAIN answer.calls |->
          <<[type |-> "start", block |-> Item(i, answer.calls[i], <<>>)],
            [type |-> "json", key |-> i, args |-> <<answer.calls[i].args[1]>>],
            [type |-> "json", key |-> i, args |-> <<answer.calls[i].args[2]>>],
            [type |-> "stop", key |-> i]>>])
    \o <<[type |-> "end", finish |-> IF answer.calls # <<>> THEN "tool_use" ELSE "end_turn"]>>

ResponsesStream(answer) ==
    <<[type |-> "text", text |-> answer.text]>>
    \o FlattenSeq([i \in DOMAIN answer.calls |->
          <<[type |-> "added", item |-> Item(i, answer.calls[i], <<>>)],
            [type |-> "json", key |-> i, args |-> answer.calls[i].args],
            [type |-> "done", item |-> Item(i, answer.calls[i], answer.calls[i].args)]>>])
    \o <<[type |-> "end", finish |-> "stop"]>>

GeminiStream(answer, withIds) ==
    LET call(c) == [id |-> IF withIds THEN c.id ELSE None, name |-> c.name, args |-> c.args]
    IN  <<[text |-> answer.text, calls |-> <<>>, finish |-> None]>>
        \o [i \in DOMAIN answer.calls |->
              [text |-> None, calls |-> <<call(answer.calls[i])>>, finish |-> None]]
        \o <<[text |-> None, calls |-> <<>>, finish |-> "STOP"]>>

\* style: the freedom of the provider's protocol.
Stream(adapter, answer, style) ==
    CASE adapter = "chat" -> ChatStream(answer, style)
      [] adapter = "anthropic" -> AnthropicStream(answer)
      [] adapter = "responses" -> ResponsesStream(answer)
      [] OTHER -> GeminiStream(answer, style)

\* The tokens on the wire, a line for an event, the last one without newline.
Wire(events) ==
    FlattenSeq([i \in DOMAIN events |->
        <<Half(1, events[i]), Half(2, events[i])>> \o IF i < Len(events) THEN <<Newline>> ELSE <<>>])

\* The chunks of the wire, cut every size tokens after the first offset.
Chunked(wire, offset, size) ==
    LET n == 1 + (Len(wire) - offset + size - 1) \div size
    IN  [c \in 1..n |-> IF c = 1 THEN SubSeq(wire, 1, offset)
                        ELSE SubSeq(wire, offset + (c - 2) * size + 1,
                                    Min({offset + (c - 1) * size, Len(wire)}))]

-----------------------------------------------------------------------------
(* The next request: an assistant message and the results of its calls. *)

\* The message the loop keeps of a decoded answer.
AssistantMessage(decoded) == [calls |-> decoded.calls, saved |-> decoded.saved]

\* The message has the provider's own items; the chat form saves no calls.
SavedFor(adapter, message) == message.saved.adapter = adapter

SavedCalls(message) ==
    FlattenSeq([i \in DOMAIN message.saved.open |->
        IF message.saved.open[i].name # None THEN <<message.saved.open[i]>> ELSE <<>>])

\* A provider gets its own items back, another one the calls rebuilt.
ChatCalls(message) == message.calls
AnthropicCalls(message) ==
    IF SavedFor("anthropic", message) THEN SavedCalls(message) ELSE message.calls
ResponsesCalls(message) ==
    IF SavedFor("responses", message) THEN SavedCalls(message) ELSE message.calls
GeminiCalls(message) ==
    IF SavedFor("gemini", message) THEN SavedCalls(message) ELSE message.calls

Replayed(adapter, message) ==
    CASE adapter = "chat" -> ChatCalls(message)
      [] adapter = "anthropic" -> AnthropicCalls(message)
      [] adapter = "responses" -> ResponsesCalls(message)
      [] OTHER -> GeminiCalls(message)

\* findToolName.
FindToolName(message, id) ==
    LET named == {i \in DOMAIN message.calls : message.calls[i].id = id}
    IN  IF named = {} THEN "unknown_tool" ELSE message.calls[Min(named)].name

\* Gemini answers a call by its name, the others by its id.
FormatResult(adapter, message, id) == IF adapter = "gemini" THEN FindToolName(message, id) ELSE id
CallHandle(adapter, call) == IF adapter = "gemini" THEN call.name ELSE call.id

-----------------------------------------------------------------------------
(* What is checked, for one answer. *)

\* However the stream is cut and whatever freedom the provider takes, the loop
\* gets the text, every call once, in order and whole, and a reason to go on.
StreamDecodes(adapter, answer, style, offset, size) ==
    LET decoded == Decode(adapter, Chunked(Wire(Stream(adapter, answer, style)), offset, size))
        calls == AssistantMessage(decoded).calls
    IN  /\ decoded.texts = IF answer.text = None THEN <<>> ELSE <<answer.text>>
        /\ Len(calls) = Len(answer.calls)
        /\ \A i \in DOMAIN calls : calls[i].name = answer.calls[i].name
                                   /\ calls[i].args = answer.calls[i].args
        /\ IsInjective([i \in DOMAIN calls |-> calls[i].id])
        /\ adapter # "gemini" => (decoded.finish = "tool_calls" <=> answer.calls # <<>>)

\* The next request, to the same provider or to another the user switched to,
\* has every call of the answer and answers each of them where it stands.
ResultsFindTheirCalls(from, to, answer, style) ==
    LET message == AssistantMessage(Decode(from, <<Wire(Stream(from, answer, style))>>))
        sent == Replayed(to, message)
    IN  /\ Len(sent) = Len(answer.calls)
        /\ \A i \in DOMAIN sent :
              FormatResult(to, message, message.calls[i].id) = CallHandle(to, sent[i])
================================================================================
