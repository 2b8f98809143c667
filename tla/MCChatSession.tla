--------------------------- MODULE MCChatSession ---------------------------
(* Small instances of ChatSession. *)
EXTENDS ChatSession

\* An empty prompt, a prompt and its continuations, a different conversation
\* and one that does not fit the context.
SmallPrompts == {<<>>, <<"a">>, <<"a", "b">>, <<"b">>, <<"a", "b", "a", "b">>}
=============================================================================
