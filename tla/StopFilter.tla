----------------------------- MODULE StopFilter -----------------------------
(***************************************************************************)
(* TextStopFilter of chat_engine.rs: generated text comes in chunks that   *)
(* may cut a stop sequence anywhere; the filter passes on what can no      *)
(* longer belong to a stop sequence and holds back the rest.               *)
(*                                                                         *)
(* Text is a sequence of characters.                                       *)
(***************************************************************************)
EXTENDS Naturals, SequencesExt

CONSTANTS Chars,      \* alphabet
          StopSets,   \* sets of nonempty stop sequences requests come with
          MaxText,    \* bound: characters generated
          MaxChunk    \* bound: characters in a chunk

ASSUME FilterAssumption ==
    /\ \A set \in StopSets : \A s \in set : s \in Seq(Chars) /\ s # <<>>
    /\ MaxText \in Nat /\ MaxChunk \in Nat

VARIABLES stops,    \* stop_sequences
          pending,  \* TextStopFilter.pending
          fed,      \* everything pushed so far
          shown,    \* visible_text
          state     \* "open", "stopped" or "finished"

vars == <<stops, pending, fed, shown, state>>

Init ==
    /\ stops \in StopSets
    /\ pending = <<>> /\ fed = <<>> /\ shown = <<>>
    /\ state = "open"

\* Where str::find may answer, over all stop sequences.
Matches(text) ==
    UNION { { i \in 0..Len(text) : i + Len(s) <= Len(text)
                                   /\ SubSeq(text, i + 1, i + Len(s)) = s } : s \in stops }

\* truncate_at_first_stop: the text before the first match.
Truncated(text) ==
    IF Matches(text) = {} THEN text ELSE SubSeq(text, 1, Min(Matches(text)))

IsStopPrefix(text) == \E s \in stops : Len(text) <= Len(s) /\ text = SubSeq(s, 1, Len(text))

Last_(text, n) == SubSeq(text, Len(text) - n + 1, Len(text))

\* Mutant: only whole-but-one stop sequences are held.
HeldNearlyWhole(text) ==
    Max({0} \cup { n \in 1..Len(text) : \E s \in stops :
                      n + 1 = Len(s) /\ Last_(text, n) = SubSeq(s, 1, n) })
\* The longest end of the text that begins a stop sequence.
Held(text) == Max({0} \cup { n \in 1..Len(text) : IsStopPrefix(Last_(text, n)) })

Push(chunk) ==
    LET text == pending \o chunk
        sent == Len(text) - Held(text)
    IN
    /\ state = "open"
    /\ fed' = fed \o chunk
    /\ IF Matches(text) # {}
       THEN /\ shown' = shown \o Truncated(text)
            /\ pending' = <<>>
            /\ state' = "stopped"
       ELSE /\ shown' = shown \o SubSeq(text, 1, sent)
            /\ pending' = SubSeq(text, sent + 1, Len(text))
            /\ UNCHANGED state
    /\ UNCHANGED stops

\* The end of the generation: what is held back belongs to no stop sequence.
Finish ==
    /\ state = "open"
    /\ shown' = shown \o pending
    /\ pending' = <<>>
    /\ state' = "finished"
    /\ UNCHANGED <<stops, fed>>

\* Chunks the tokenizer's incremental decoder yields.
Chunks == UNION { [1..n -> Chars] : n \in 1..MaxChunk }

Next ==
    \/ \E chunk \in Chunks : Len(fed) + Len(chunk) <= MaxText /\ Push(chunk)
    \/ Finish

Spec == Init /\ [][Next]_vars

-----------------------------------------------------------------------------
(* Properties. *)

\* The reference: however the text was cut into chunks, what is shown is always
\* a beginning of the text before the first stop sequence, never a character of
\* a stop sequence or of what follows it, and all of it once the filter is done.
ShowsTruncation ==
    /\ IsPrefix(shown, Truncated(fed))
    /\ state # "open" => shown = Truncated(fed)
    /\ (state = "stopped") = (Matches(fed) # {})

\* Streaming is prompt and loses nothing: an open filter holds back exactly the
\* longest end of the text that may still become a stop sequence.
HoldsOnlyStopPrefix ==
    state = "open" =>
        /\ shown \o pending = fed
        /\ pending # <<>> => IsStopPrefix(pending)
        /\ \A n \in (Len(pending) + 1)..Len(fed) : ~IsStopPrefix(Last_(fed, n))

\* Chunks never show: TextStopFilter is truncate_at_first_stop, as early as can be.
FilterExact == ShowsTruncation /\ HoldsOnlyStopPrefix
=============================================================================
