------------------------------- MODULE MCText -------------------------------
(* Small instances of the components between logits and chat messages.     *)
EXTENDS StopFilter, Sampler, ChatTemplate

(* StopFilter *)

\* Every set of at most two stop sequences of one to three characters: equal
\* beginnings, one inside another, self-overlapping ones.
ShortStops == UNION { [1..n -> Chars] : n \in 1..3 }
AllStopSets == { {s, t} : s, t \in ShortStops } \cup {{}}

(* Sampler *)

Setting(temperature, topK, topP, penalty, n) ==
    [temperature |-> temperature, topK |-> topK, topP |-> topP, penalty |-> penalty,
     repeatLastN |-> n, stopTokens |-> {}]
Twice == {Setting(0, 0, 10, <<2, 1>>, 1), Setting(1, 2, 9, <<1, 2>>, 1)}
Settings ==
    {Setting(t, k, p, penalty, n) : t \in {0, 1}, k \in {0, 2}, p \in {5, 9, 10},
                                    penalty \in {<<1, 1>>, <<2, 1>>, <<1, 2>>}, n \in {0, 1}}
    \cup {Setting(-1, 0, 5, <<1, 1>>, 0), Setting(1, 0, 0, <<1, 1>>, 0),
          Setting(1, 0, 11, <<1, 1>>, 0), Setting(1, 0, 5, <<0, 1>>, 0)}
    \cup {[Setting(1, 0, 5, <<1, 1>>, 0) EXCEPT !.stopTokens = {Vocabulary}]}
Vectors == [Tokens -> {NegInf, -2, 2, PosInf}]
           \cup {[t \in Tokens |-> IF t = n THEN v ELSE t] : n \in Tokens, v \in {Nan, 9}}
\* One history has a token of no vocabulary.
TokenHistories == {<<>>, <<0>>, <<1, Vocabulary + 2>>, <<0, 1>>}

(* ChatTemplate *)

Say(role, text) == PlainMessage(role, <<text>>)
CallOf(name, args) == [name |-> <<name>>, args |-> args]
Arg(key, text) == [key |-> <<key>>, text |-> <<text>>, json |-> FALSE]
Alphabetic ==
    <<"\n", "\"1\"", "\"\\u003c/value>\"", "# Tools", "1", "1.0", "10e-1", "</key>", "</response>", "</responses>", "</think>", "</tool_call>",
      "</tool_calls>", "</value>", "<key>", "<response>", "<responses>", "<sep>", "<think>",
      "<tool_call>", "<tool_calls>", "<value>", "ASSISTANT", "BOS", "EOS", "MODE", "USER",
      "a", "b", "f", "g", "hi", "high", "low", "more", "no_think", "ok", "r", "scalar", "sys",
      "tool", "why", "x">>
\* A number, one that is encoded otherwise than it was generated, its quoted
\* form, and a string with an escaped mark.
JsonValue(quoted, text) == [quoted |-> quoted, text |-> <<text>>]
JsonReadings ==
    <<"1">> :> JsonValue(FALSE, "1") @@ <<"1.0">> :> JsonValue(FALSE, "1.0")
    @@ <<"10e-1">> :> JsonValue(FALSE, "1.0") @@ <<"\"1\"">> :> JsonValue(TRUE, "1")
    @@ <<"\"\\u003c/value>\"">> :> JsonValue(TRUE, "</value>")
ChatOptions(effort, tools, preserve) ==
    [effort |-> effort, tools |-> tools, preserve |-> preserve, training |-> FALSE,
     rawLast |-> FALSE, generationPrompt |-> TRUE]
ConvoOptions ==
    {ChatOptions("no_think", <<>>, FALSE), ChatOptions("high", <<>>, FALSE),
     ChatOptions("low", <<"tool">>, TRUE), ChatOptions("high", <<"scalar">>, TRUE),
     [ChatOptions("high", <<>>, FALSE) EXCEPT !.training = TRUE]}
ConvoStarts ==
    {<<Say("user", "hi")>>, <<Say("system", "sys"), Say("user", "hi")>>,
     <<Say("user", "hi"), AssistantMessage(<<"ok">>, <<"why">>, <<CallOf("f", <<>>)>>),
       Say("tool", "r")>>}
ConvoOpenings == {[messages |-> m, options |-> o] : m \in ConvoStarts, o \in ConvoOptions}
ConvoReplies == {Say("user", "more"), Say("tool", "r")}

\* Well-formed answers, alone and after reasoning.
Bodies ==
    {<<>>, <<"hi">>, CallsText(<<CallOf("f", <<>>)>>), CallsText(<<>>),
     <<"hi">> \o CallsText(<<CallOf("f", <<Arg("a", "1"), Arg("b", "x")>>)>>),
     CallsText(<<CallOf("f", <<Arg("b", "x")>>), CallOf("g", <<>>)>>)}
\* Values that are read otherwise than they are generated.
JsonBodies ==
    {CallsText(<<CallOf("f", <<Arg("a", v)>>)>>) : v \in {"\"1\"", "10e-1", "\"\\u003c/value>\""}}
Answers == Bodies \cup {<<"why", "</think>">> \o body : body \in Bodies}
\* The same with a piece cut off, and with one moved, inserted or exchanged.
Generated ==
    Answers \cup UNION {{SubSeq(t, 1, Len(t) - 1), Append(t, "\n")} : t \in Answers \ {<<>>}}
    \cup {<<"<think>", "why">>} \cup JsonBodies
Edits(t) ==
    {RemoveAt(t, i) : i \in DOMAIN t} \cup {SubSeq(t, 1, i) : i \in DOMAIN t}
    \cup {InsertAt(t, i, p) : i \in DOMAIN t,
             p \in {"\n", "hi", "</think>", "<think>", "<key>", "</value>", "</tool_calls>", "<tool_call>"}}
    \cup {Append(t, "hi")}
    \cup {[t EXCEPT ![i] = t[j], ![j] = t[i]] : i, j \in DOMAIN t}
    \cup {[t EXCEPT ![i] = p] : i \in DOMAIN t, p \in {"a", "\n"}}
EditedAnswers == UNION {Edits(t) : t \in Answers \cup JsonBodies} \cup Answers \cup JsonBodies
=============================================================================
