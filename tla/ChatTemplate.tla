---------------------------- MODULE ChatTemplate ----------------------------
(***************************************************************************)
(* The chat format of bridge-tokenizer: format_chat writes a conversation  *)
(* as a prompt, parse_assistant_output reads what the model answers, and   *)
(* complete_in_session uses both, turn after turn, to continue from the    *)
(* tokens the session already holds.                                       *)
(*                                                                         *)
(* A text is a sequence of pieces: markers, line ends "\n" and words.  A   *)
(* piece stands for the tokens it is encoded as.  Requests come without    *)
(* stop sequences, which StopFilter is about.                              *)
(***************************************************************************)
EXTENDS Integers, SequencesExt

CONSTANTS Openings,      \* conversations a client starts with, with their options
          Replies,       \* messages of users and tools that follow
          RawOutputs,    \* what the model may generate
          Parsings,      \* texts that are only parsed
          Json,          \* texts that are valid JSON, and what each reads as
          PieceOrder,    \* the pieces there are, in the order of strings
          MaxMessages    \* bound on a conversation

VARIABLE convo  \* messages, options, the session's history, the last answer

ControlMarkers ==
    {"BOS", "EOS", "USER", "ASSISTANT", "<think>", "</think>", "<tool_calls>", "</tool_calls>",
     "<tool_call>", "</tool_call>", "<sep>", "<key>", "</key>", "<value>", "</value>",
     "<responses>", "</responses>", "<response>", "</response>", "MODE"}

Absent == <<"absent">>  \* an Option that is None

AssistantMessage(content, reasoning, calls) ==
    [role |-> "assistant", content |-> content, reasoning |-> reasoning, calls |-> calls]
PlainMessage(role, content) ==
    [role |-> role, content |-> content, reasoning |-> Absent, calls |-> <<>>]

-----------------------------------------------------------------------------
(* format_chat. *)

\* append_tool_instructions.
ToolInstructions(system, options) ==
    (IF system = <<>> THEN <<"# Tools">> ELSE <<"\n", "# Tools">>)
        \o options.tools \o <<"MODE", options.effort>>

SystemPart(messages, options) ==
    LET system == FlattenSeq([i \in DOMAIN messages |->
                      IF messages[i].role = "system" THEN messages[i].content ELSE <<>>])
    IN  <<"BOS">> \o system \o IF options.tools = <<>> THEN <<"MODE", options.effort>>
                               ELSE ToolInstructions(system, options)

\* append_tool_calls: arguments in the order of their keys.  The text of a value
\* is the string itself, written bare, or the encoding of any other value.
CallText(call) ==
    <<"<tool_call>">> \o call.name \o <<"<sep>", "\n">>
        \o FlattenSeq([i \in DOMAIN call.args |->
               <<"<key>">> \o call.args[i].key \o <<"</key>", "\n", "<value>">>
                   \o call.args[i].text \o <<"</value>", "\n">>])
        \o <<"</tool_call>", "\n">>
CallsText(calls) ==
    <<"<tool_calls>", "\n">> \o FlattenSeq([i \in DOMAIN calls |-> CallText(calls[i])])
        \o <<"</tool_calls>">>

LastUser(messages) == SelectLastInSeq(messages, LAMBDA m : m.role = "user")

KeepsUntilUser(messages, options, i) ==  \* mutant: the last user's own turn decides
    options.training \/ options.preserve \/ i < LastUser(messages)
\* preserved_thinking stands in the options with its default applied.
IncludesReasoning(messages, options, i) ==
    \/ options.training
    \/ options.preserve
    \/ LastUser(messages) # 0 /\ i > LastUser(messages)

Body(m, reasoning) ==
    <<"<think>">> \o (IF reasoning /\ m.reasoning # Absent THEN m.reasoning ELSE <<>>)
        \o <<"</think>">> \o m.content

AssistantText(messages, options, i) ==
    LET m == messages[i]
        last == i = Len(messages)
        body == Body(m, IncludesReasoning(messages, options, i))
    IN  CASE m.calls # <<>> -> body \o CallsText(m.calls) \o <<"EOS">>
          [] last /\ options.rawLast /\ m.calls = <<>> -> m.content
          [] OTHER -> body \o IF ~last \/ options.training THEN <<"EOS">> ELSE <<>>

CloseResponses(acc) ==
    IF acc.afterTool THEN [acc EXCEPT !.out = Append(@, "</responses>"), !.afterTool = FALSE]
    ELSE acc

\* A turn of the loop over the messages.
WithMessage(acc, messages, options, i) ==
    LET m == messages[i]
        closed == CloseResponses(acc)
    IN  CASE m.role = "system" -> acc
          [] m.role = "user" ->
                 [closed EXCEPT !.out = @ \o <<"USER">> \o m.content, !.lastAssistant = FALSE]
          [] m.role = "assistant" ->
                 [closed EXCEPT !.out = @ \o <<"ASSISTANT">> \o AssistantText(messages, options, i),
                                !.lastAssistant = i = Len(messages)]
          [] m.role = "tool" ->
                 [acc EXCEPT
                    !.out = @ \o (IF acc.firstResponse THEN <<"<responses>", "\n">> ELSE <<>>)
                              \o <<"<response>", "\n">> \o m.content
                              \o <<"\n", "</response>", "\n">>,
                    !.afterTool = TRUE, !.firstResponse = FALSE, !.lastAssistant = FALSE]

GenerationPrompt(effort) ==
    <<"ASSISTANT", "<think>">> \o IF effort = "no_think" THEN <<"</think>">> ELSE <<>>

\* The errors: a tool definition that is no object, a call without a name.
Formats(messages, options) ==
    /\ \A i \in DOMAIN options.tools : options.tools[i] # "scalar"
    /\ \A i \in DOMAIN messages : \A c \in DOMAIN messages[i].calls :
          messages[i].calls[c].name # <<>>

FormatChat(messages, options) ==
    LET turn[i \in 0..Len(messages)] ==
            IF i = 0 THEN [out |-> SystemPart(messages, options), afterTool |-> FALSE,
                           firstResponse |-> TRUE, lastAssistant |-> FALSE]
            ELSE WithMessage(turn[i - 1], messages, options, i)
        acc == CloseResponses(turn[Len(messages)])
    IN  acc.out \o IF options.generationPrompt /\ ~acc.lastAssistant
                   THEN GenerationPrompt(options.effort) ELSE <<>>

-----------------------------------------------------------------------------
(* parse_assistant_output. *)

Holds(text, marker) == Contains(text, marker)
\* split_once at the first occurrence of a marker the text contains.
BeforeMark(text, marker) == SubSeq(text, 1, SelectInSeq(text, LAMBDA p : p = marker) - 1)
AfterMark(text, marker) == SubSeq(text, SelectInSeq(text, LAMBDA p : p = marker) + 1, Len(text))
StartsWith(text, marker) == text # <<>> /\ text[1] = marker

From(text, first) == IF first = 0 THEN <<>> ELSE SubSeq(text, first, Len(text))
TrimNewlines(text) == From(text, SelectInSeq(text, LAMBDA p : p # "\n"))

SplitReasoning(raw, effort) ==
    LET opened == StartsWith(raw, "<think>")
        inner == IF opened THEN Tail(raw) ELSE raw
    IN  IF (effort # "no_think" \/ opened) /\ Holds(inner, "</think>")
        THEN [reasoning |-> BeforeMark(inner, "</think>"), body |-> AfterMark(inner, "</think>")]
        ELSE IF effort # "no_think" THEN [reasoning |-> inner, body |-> <<>>]
        ELSE [reasoning |-> Absent, body |-> raw]

BadParse == [ok |-> FALSE]
ParsedAs(value) == [ok |-> TRUE, value |-> value]

\* serde_json::from_str, or else the text as a string: JSON of a string reads as
\* the string it quotes, other JSON as a value with an encoding of its own.
ArgumentOf(key, text) ==
    IF text \in DOMAIN Json
    THEN [key |-> key, text |-> Json[text].text, json |-> ~Json[text].quoted]
    ELSE [key |-> key, text |-> text, json |-> FALSE]

\* The order of keys: that of strings for single words, and total for all texts.
Pieces == Range(PieceOrder)
Text == Seq(Pieces)
Place(piece) == CHOOSE i \in DOMAIN PieceOrder : PieceOrder[i] = piece
KeyBefore(a, b) ==
    \/ IsStrictPrefix(a, b)
    \/ \E i \in DOMAIN a \cap DOMAIN b :
          (\A j \in 1..(i - 1) : a[j] = b[j]) /\ Place(a[i]) < Place(b[i])

\* BTreeMap::insert of a new key: arguments stay in the order of their keys.
Inserted(args, arg) ==
    LET at == Cardinality({i \in DOMAIN args : KeyBefore(args[i].key, arg.key)}) + 1
    IN  InsertAt(args, at, arg)

NewKey(args, key) == \A i \in DOMAIN args : args[i].key # key

\* What a parser's loop has still to read, and has read.
Reading(input) == [rest |-> input, value |-> <<>>, ok |-> TRUE]

ArgumentAt(s, text, key, value) ==
    IF ~s.ok \/ text = <<>> THEN [s EXCEPT !.rest = <<>>]
    ELSE IF ~StartsWith(text, "<key>") \/ ~Holds(text, "</key>") THEN [s EXCEPT !.ok = FALSE]
    ELSE IF \/ key = <<>> \/ ~StartsWith(value, "<value>") \/ ~Holds(value, "</value>")
            \/ ~NewKey(s.value, key) THEN [s EXCEPT !.ok = FALSE]
    ELSE [s EXCEPT !.rest = AfterMark(value, "</value>"),
                   !.value = Inserted(@, ArgumentOf(key, BeforeMark(Tail(value), "</value>")))]
ArgumentTurn(s) ==
    LET text == TrimNewlines(s.rest)
    IN  ArgumentAt(s, text, BeforeMark(Tail(text), "</key>"),
                   TrimNewlines(AfterMark(text, "</key>")))

\* parse_arguments: a turn reads a piece or more, so these are enough.
ParseArguments(input) ==
    LET turn[k \in 0..Len(input)] == IF k = 0 THEN Reading(input) ELSE ArgumentTurn(turn[k - 1])
    IN  turn[Len(input)]

CallAt(s, text, name, rest, args) ==
    IF ~s.ok \/ text = <<>> THEN [s EXCEPT !.rest = <<>>]
    ELSE IF ~StartsWith(text, "<tool_call>") \/ ~Holds(text, "<sep>") THEN [s EXCEPT !.ok = FALSE]
    ELSE IF name = <<>> \/ ~Holds(rest, "</tool_call>") \/ ~args.ok THEN [s EXCEPT !.ok = FALSE]
    ELSE [s EXCEPT !.rest = AfterMark(rest, "</tool_call>"),
                   !.value = Append(@, [name |-> name, args |-> args.value])]
CallTurn(s) ==
    LET text == TrimNewlines(s.rest)
        rest == AfterMark(text, "<sep>")
    IN  CallAt(s, text, BeforeMark(Tail(text), "<sep>"), rest,
               ParseArguments(BeforeMark(rest, "</tool_call>")))

\* parse_tool_calls.
ParseCalls(input) ==
    LET turn[k \in 0..Len(input)] == IF k = 0 THEN Reading(input) ELSE CallTurn(turn[k - 1])
    IN  turn[Len(input)]

KeepsTail(split, tail, calls) ==  \* mutant: what follows the envelope is not looked at
    IF ~Holds(split.body, "<tool_calls>")
    THEN ParsedAs(AssistantMessage(split.body, split.reasoning, <<>>))
    ELSE IF ~calls.ok THEN BadParse
    ELSE ParsedAs(AssistantMessage(split.body, split.reasoning, calls.value))
\* The body after the reasoning: content, and an envelope of calls if there is one.
Envelope(split, tail, calls) ==
    IF ~Holds(split.body, "<tool_calls>")
    THEN ParsedAs(AssistantMessage(split.body, split.reasoning, <<>>))
    ELSE IF ~Holds(tail, "</tool_calls>") THEN BadParse
    ELSE IF TrimNewlines(AfterMark(tail, "</tool_calls>")) # <<>> \/ ~calls.ok THEN BadParse
    ELSE ParsedAs(AssistantMessage(BeforeMark(split.body, "<tool_calls>"), split.reasoning,
                                   calls.value))
ParseBody(split) ==
    LET tail == AfterMark(split.body, "<tool_calls>")
    IN  Envelope(split, tail, ParseCalls(BeforeMark(tail, "</tool_calls>")))
ParseAssistant(raw, effort) == ParseBody(SplitReasoning(raw, effort))

\* complete_with_stops_in_session: what does not parse is an answer of its
\* visible text.
AnswerOf(parsed, raw) ==
    IF parsed.ok THEN parsed.value
    ELSE PlainMessage("assistant", SelectSeq(raw, LAMBDA p : p \notin ControlMarkers))
AnswerTo(raw, effort) == AnswerOf(ParseAssistant(raw, effort), raw)

\* Pieces are told apart, the markers are among them, and texts are made of them.
ASSUME ChatAssumption ==
    /\ PieceOrder \in Seq(STRING) /\ IsInjective(PieceOrder)
    /\ ControlMarkers \cup {"\n"} \subseteq Pieces /\ "absent" \notin Pieces
    /\ RawOutputs \cup Parsings \cup DOMAIN Json \subseteq Text
    /\ Json \in [DOMAIN Json -> [quoted : BOOLEAN, text : Text]]

-----------------------------------------------------------------------------
(* Turns of a conversation. *)

\* The answer with its reasoning, as format_chat would write it.
Rewritten(answer) ==
    Body(answer, TRUE) \o IF answer.calls = <<>> THEN <<>> ELSE CallsText(answer.calls)

\* What was generated is what the answer is written as.
IsVerbatim(generated, answer, effort) ==
    IsPrefix(Tail(GenerationPrompt(effort)) \o generated, Append(Rewritten(answer), "EOS"))

NewConvo(messages, options, raw) ==
    [messages |-> messages, options |-> options, history |-> <<>>, cached |-> 0, held |-> 0,
     raw |-> raw, verbatim |-> TRUE, faithful |-> TRUE]

\* A conversation begins, or a text is only parsed.
ConvoInit ==
    \/ \E o \in Openings : convo = NewConvo(o.messages, o.options, Absent)
    \/ \E o \in Openings, raw \in Parsings : convo = NewConvo(<<>>, o.options, raw)

Reply(m) ==
    /\ Len(convo.messages) \in 1..(MaxMessages - 1)
    /\ convo' = [convo EXCEPT !.messages = Append(@, m), !.raw = Absent]

\* A completion evaluates the prompt and what is generated, the end marker
\* included where it ends the turn; the client appends the answer.
Complete(raw, ended) ==
    /\ Len(convo.messages) \in 1..(MaxMessages - 1)
    /\ convo.messages[Len(convo.messages)].role \in {"user", "tool"}
    /\ Formats(convo.messages, convo.options)
    /\ LET prompt == FormatChat(convo.messages, convo.options)
           extends == IsPrefix(convo.history, prompt)
           answer == AnswerTo(raw, convo.options.effort)
           generated == IF ended THEN Append(raw, "EOS") ELSE raw
       IN  convo' = [convo EXCEPT
               !.messages = Append(@, answer),
               !.history = prompt \o generated,
               !.held = Len(convo.history),
               !.cached = IF extends THEN Len(convo.history) ELSE 0,
               !.raw = raw,
               !.verbatim = IsVerbatim(generated, answer, convo.options.effort),
               !.faithful = convo.verbatim]

ConvoNext ==
    \/ \E m \in Replies : Reply(m)
    \/ \E raw \in RawOutputs, ended \in BOOLEAN : Complete(raw, ended)

ConvoSpec == ConvoInit /\ [][ConvoNext]_convo

-----------------------------------------------------------------------------
(* Properties. *)

LastOf(n, role) == SelectLastInSeq(SubSeq(convo.messages, 1, n), LAMBDA m : m.role = role)
IsAssistant(i) == convo.messages[i].role = "assistant"

\* A turn continues from all tokens the session holds, as long as its last
\* answer was generated in the form format_chat gives it: exactly if no
\* reasoning the model saw disappears from the prompt, which it does when a
\* user speaks again and thinking is not preserved.
ContinuationReuses ==
    convo.raw # Absent /\ convo.held > 0 /\ convo.faithful =>
        LET n == Len(convo.messages)
            previous == LastOf(n - 1, "assistant")
            turn == LastOf(previous, "user")
            spokenAgain == \E i \in (previous + 1)..(n - 1) : convo.messages[i].role = "user"
            reasoned == \E i \in (turn + 1)..previous :
                           IsAssistant(i) /\ convo.messages[i].reasoning \notin {Absent, <<>>}
            kept == convo.options.training \/ convo.options.preserve
        IN  (convo.cached = convo.held) = (kept \/ ~(spokenAgain /\ reasoned))

Thought(m) == IF m.reasoning = Absent THEN <<>> ELSE m.reasoning

\* A value whose text ends neither itself nor the call or envelope it stands in.
Encloses(text) == \A mark \in {"</value>", "</tool_call>", "</tool_calls>"} : ~Holds(text, mark)
WellEnclosed(calls) ==
    \A c \in DOMAIN calls : \A i \in DOMAIN calls[c].args : Encloses(calls[c].args[i].text)

\* Calls whose values are read where they were written.
RereadArgs(args) == [i \in DOMAIN args |-> ArgumentOf(args[i].key, args[i].text)]
Reread(calls) ==
    [c \in DOMAIN calls |-> [name |-> calls[c].name, args |-> RereadArgs(calls[c].args)]]

SameAnswer(again, parsed) ==
    /\ again.ok
    /\ again.value.content = parsed.value.content
    /\ again.value.calls = Reread(parsed.value.calls)
    /\ Thought(again.value) = Thought(parsed.value)

\* What was parsed from a generated text is parsed again from the text it is
\* written as: no envelope, call, argument or reasoning is lost or moved between
\* fields by a conversation that sends its answers back, and of an argument
\* nothing changes but what reading its text once more makes of its value: the
\* string 1, generated in quotes and written without, comes back as the number.
\* That takes values whose texts hold no mark that ends them; a string that was
\* generated with such a mark escaped is written with it bare.
ParseStable ==
    convo.raw # Absent =>
        LET parsed == ParseAssistant(convo.raw, convo.options.effort)
        IN  parsed.ok /\ WellEnclosed(parsed.value.calls) =>
                SameAnswer(ParseAssistant(Rewritten(parsed.value), convo.options.effort), parsed)
=============================================================================
