---------------------------- MODULE ChatSession ----------------------------
(***************************************************************************)
(* One chat session of bridge-runtime: the cached-prefix logic of          *)
(* chat_engine.rs, the prefill and decode loops of generation.rs, and the  *)
(* layer-by-layer evaluation of a token, with rollback, of hy3_scalar.rs.  *)
(*                                                                         *)
(* The key/value row a layer stores for a token is that token, the logits  *)
(* are the token sequence they were computed from, so what is stale or     *)
(* out of step shows as a different sequence.  The text side (incremental  *)
(* decoding, stop sequences, the caller's callback) is a verdict on each   *)
(* emitted token.  The cancellation flag is set by another thread.         *)
(***************************************************************************)
EXTENDS Naturals, Sequences

CONSTANTS Tokens,         \* vocabulary
          Eos,            \* the end-of-sequence token, always a stop token
          Layers,         \* number of transformer layers
          ContextLength,  \* context_capacity
          Prompts,        \* token sequences that requests format to
          MaxNew          \* bound: largest max_new_tokens requested

ASSUME SessionAssumption ==
    /\ Eos \in Tokens
    /\ Layers \in Nat \ {0}
    /\ ContextLength \in Nat \ {0}
    /\ MaxNew \in Nat
    /\ \A p \in Prompts : p \in Seq(Tokens)

VARIABLES history,    \* GenerationSession.history
          position,   \* Hy3ScalarSession.position
          kv,         \* kv[l]: committed rows of layer l
          logits,     \* the sequence the logits were computed from
          hasLogits, healthy,
          phase,      \* where the current call is
          pending,    \* prompt tokens not yet evaluated; in decode, the sampled one
          budget,     \* tokens the decode loop may still produce
          clipped,    \* generation_limit < max_new_tokens
          layer,      \* layers done for the token in flight
          prompt,     \* the whole prompt of the current or last call
          cancelled,  \* CancellationToken of the current call
          result,     \* how the last call ended
          snapshot    \* the persisted session: a set of at most one record

sessionVars == <<history, position, kv, logits, hasLogits, healthy>>
callVars    == <<phase, pending, budget, clipped, layer, prompt, cancelled, result>>
vars        == <<sessionVars, callVars, snapshot>>

LayerIds  == 1..Layers
Garbage   == <<"garbage">>  \* logits an interrupted evaluation left behind
Results   == {"none", "MaxTokens", "ContextLength", "StopToken", "Cancelled", "Callback",
              "StopSequence", "Sampling", "Model", "Decode",
              "SessionPoisoned", "PromptExceedsContext", "EmptyPrompt"}

Init ==
    /\ history = <<>> /\ position = 0
    /\ kv = [l \in LayerIds |-> <<>>]
    /\ logits = <<>> /\ hasLogits = FALSE /\ healthy = TRUE
    /\ phase = "idle" /\ pending = <<>> /\ budget = 0 /\ clipped = FALSE
    /\ layer = 0 /\ prompt = <<>> /\ cancelled = FALSE /\ result = "none"
    /\ snapshot = {}

-----------------------------------------------------------------------------
(* Starting a call. *)

\* Mutant: a shorter history is taken for a match.
SameStart(p, h) == h = <<>> \/ (p # <<>> /\ Head(p) = Head(h) /\ Len(h) <= Len(p))
StartsWith(p, h) == Len(h) <= Len(p) /\ SubSeq(p, 1, Len(h)) = h

\* generate_stream's checks, in their order: the sampling configuration, the
\* session's health, the suffix against the context, something to sample from.
Admission(valid, suffix, at, ok, ready) ==
    CASE ~valid -> "Sampling"
      [] valid /\ ~ok -> "SessionPoisoned"
      [] valid /\ ok /\ Len(suffix) > ContextLength - at -> "PromptExceedsContext"
      [] valid /\ ok /\ Len(suffix) <= ContextLength - at /\ suffix = <<>> /\ ~ready -> "EmptyPrompt"
      [] OTHER -> "start"

\* Generator::reset.
ResetSession ==
    /\ history' = <<>> /\ position' = 0
    /\ kv' = [l \in LayerIds |-> <<>>]
    /\ logits' = <<>> /\ hasLogits' = FALSE /\ healthy' = TRUE

\* complete_with_stops_in_session: a prompt the cached history does not start
\* resets the session, whatever becomes of the call after that.
Complete(p, maxNew, valid) ==
    LET keep    == StartsWith(p, history)
        cached  == IF keep THEN Len(history) ELSE 0
        suffix  == SubSeq(p, cached + 1, Len(p))
        verdict == Admission(valid, suffix, IF keep THEN position ELSE 0,
                             keep => healthy, keep /\ hasLogits)
        room    == ContextLength - Len(p)
    IN
    /\ phase = "idle"
    /\ IF keep THEN UNCHANGED sessionVars ELSE ResetSession
    /\ prompt' = p /\ cancelled' = FALSE /\ layer' = 0
    /\ IF verdict = "start"
       THEN /\ phase' = "start" /\ result' = "none" /\ pending' = suffix
            /\ budget' = IF maxNew < room THEN maxNew ELSE room
            /\ clipped' = (room < maxNew)
       ELSE /\ phase' = "idle" /\ result' = verdict
            /\ UNCHANGED <<pending, budget, clipped>>
    /\ UNCHANGED snapshot

Cancel ==
    /\ phase # "idle"
    /\ ~cancelled
    /\ cancelled' = TRUE
    /\ UNCHANGED <<sessionVars, phase, pending, budget, clipped, layer, prompt, result, snapshot>>

Return(r) ==
    /\ phase' = "idle" /\ pending' = <<>> /\ budget' = 0 /\ clipped' = FALSE
    /\ layer' = 0 /\ result' = r
    /\ UNCHANGED <<prompt, cancelled, snapshot>>

\* After the loop the text of the emitted tokens that the decoder and the stop
\* filter still hold back is flushed: it may complete a stop sequence, meet a
\* callback that breaks, or turn out not to extend what was streamed.
Flushed(r) ==
    {r} \cup IF Len(history) > Len(prompt) THEN {"Callback", "StopSequence", "Decode"} ELSE {}

Finish(r) == \E f \in Flushed(r) : Return(f)

\* Mutant: `continue` in place of the early return.
SkipRound == UNCHANGED <<callVars, snapshot>>
StopCancelled == Finish("Cancelled")

-----------------------------------------------------------------------------
(* The prefill and decode loops; cancellation is looked at between tokens. *)

GoTo(ph) ==
    /\ phase' = ph
    /\ UNCHANGED <<pending, budget, clipped, layer, prompt, cancelled, result, snapshot>>

StartStep ==
    /\ phase = "start"
    /\ IF cancelled THEN StopCancelled ELSE GoTo("prefill")
    /\ UNCHANGED sessionVars

\* Mutant: the flag is looked at once, before the loop.
PrefillUnchecked ==
    /\ phase = "prefill"
    /\ GoTo(IF pending = <<>> THEN "decode" ELSE "evalPrompt")
    /\ UNCHANGED sessionVars
PrefillStep ==
    /\ phase = "prefill"
    /\ CASE pending = <<>> -> GoTo("decode")
         [] pending # <<>> /\ cancelled -> StopCancelled
         [] OTHER -> GoTo("evalPrompt")
    /\ UNCHANGED sessionVars

\* The sampler may refuse the logits (NaN, no candidate): the session stays
\* healthy and keeps them.
DecodeStep ==
    /\ phase = "decode"
    /\ CASE budget = 0 -> Finish(IF clipped THEN "ContextLength" ELSE "MaxTokens")
         [] budget > 0 /\ cancelled -> StopCancelled
         [] OTHER ->
              \/ Return("Sampling")
              \/ \E t \in Tokens :
                    /\ phase' = "evalNew" /\ pending' = <<t>>
                    /\ UNCHANGED <<budget, clipped, layer, prompt, cancelled, result, snapshot>>
    /\ UNCHANGED sessionVars

-----------------------------------------------------------------------------
(* Hy3ScalarModel::evaluate for the token Head(pending). *)

Evaluating == phase \in {"evalPrompt", "evalNew"}

\* One layer: attention appends its row; leases on the routed experts are
\* taken and released within the layer.
LayerStep ==
    /\ Evaluating
    /\ layer < Layers
    /\ kv' = [kv EXCEPT ![layer + 1] = Append(@, Head(pending))]
    /\ layer' = layer + 1
    /\ UNCHANGED <<history, position, logits, hasLogits, healthy, phase, pending, budget,
                   clipped, prompt, cancelled, result, snapshot>>

\* Mutant: only the layer that failed is rewound.
RewindLast(n) == [l \in LayerIds |-> IF l = layer THEN SubSeq(kv[l], 1, n) ELSE kv[l]]
\* rollback_to: rewind_all of the key/value cache.
Rewound(n) == [l \in LayerIds |-> SubSeq(kv[l], 1, n)]

Poison == healthy' = FALSE /\ hasLogits' = FALSE

\* A layer, an expert load or the output projection fails, the last with part
\* of the logits already overwritten.
EvaluateFails ==
    /\ Evaluating
    /\ kv' = Rewound(position)
    /\ logits' \in IF layer = Layers THEN {logits, Garbage} ELSE {logits}
    /\ Poison
    /\ Return("Model")
    /\ UNCHANGED <<history, position>>

\* The output projection wrote the logits; the generator records the token.
Commit ==
    /\ history' = Append(history, Head(pending))
    /\ position' = position + 1
    /\ logits' = history'
    /\ hasLogits' = TRUE
    /\ layer' = 0
    /\ UNCHANGED <<kv, healthy>>

PromptTokenDone ==
    /\ phase = "evalPrompt"
    /\ layer = Layers
    /\ Commit
    /\ phase' = "prefill"
    /\ pending' = Tail(pending)
    /\ UNCHANGED <<budget, clipped, prompt, cancelled, result, snapshot>>

\* A sampled token is evaluated before it is emitted.  A stop token is not
\* emitted; an emitted one may break the loop: a decoding error, a completed
\* stop sequence or the caller's callback.
StopTokenDone ==
    /\ phase = "evalNew" /\ layer = Layers /\ Head(pending) = Eos
    /\ Commit
    /\ \E f \in Flushed("StopToken") :
          /\ phase' = "idle" /\ pending' = <<>> /\ budget' = 0 /\ clipped' = FALSE
          /\ result' = f
    /\ UNCHANGED <<prompt, cancelled, snapshot>>

NewTokenDone ==
    /\ phase = "evalNew" /\ layer = Layers /\ Head(pending) # Eos
    /\ Commit
    /\ pending' = <<>>
    /\ \/ /\ phase' = "decode" /\ budget' = budget - 1
          /\ UNCHANGED <<clipped, result>>
       \/ /\ phase' = "idle" /\ budget' = 0 /\ clipped' = FALSE
          /\ result' \in {"Callback", "StopSequence", "Decode"}
    /\ UNCHANGED <<prompt, cancelled, snapshot>>

-----------------------------------------------------------------------------
(* export_session and restore_session, between calls. *)

Uniform(rows, n) == \A l \in LayerIds : Len(rows[l]) = n

ExportAnyway == TRUE  \* mutant: a poisoned session is exported too
Exportable == healthy /\ Len(history) = position /\ Uniform(kv, position)

ExportSession ==
    /\ phase = "idle"
    /\ Exportable
    /\ snapshot' = {[history |-> history, logits |-> logits, hasLogits |-> hasLogits, kv |-> kv]}
    /\ UNCHANGED <<sessionVars, callVars>>

\* The checks past digest, version and model binding.
Restorable(s) ==
    /\ Len(s.history) <= ContextLength
    /\ s.hasLogits = (Len(s.history) > 0)
    /\ Uniform(s.kv, Len(s.history))

\* A new session takes the place of the old one.
RestoreSession ==
    /\ phase = "idle"
    /\ \E s \in snapshot :
          /\ Restorable(s)
          /\ history' = s.history /\ position' = Len(s.history) /\ kv' = s.kv
          /\ logits' = s.logits /\ hasLogits' = s.hasLogits
    /\ healthy' = TRUE /\ prompt' = <<>> /\ result' = "none"
    /\ UNCHANGED <<phase, pending, budget, clipped, layer, cancelled, snapshot>>

Engine ==
    \/ StartStep
    \/ PrefillStep
    \/ DecodeStep
    \/ LayerStep
    \/ EvaluateFails
    \/ PromptTokenDone
    \/ StopTokenDone
    \/ NewTokenDone

Next ==
    \/ \E p \in Prompts, maxNew \in 0..MaxNew, valid \in BOOLEAN :
          Complete(p, maxNew, valid)
    \/ Cancel
    \/ Engine
    \/ ExportSession
    \/ RestoreSession

Spec == Init /\ [][Next]_vars

\* A call that has started keeps running: the worker thread owns the session
\* and nothing in the loops waits for anyone.
FairSpec == Spec /\ WF_vars(Engine)

-----------------------------------------------------------------------------
(* Properties. *)

\* The session and the call have the shapes the code gives them; the position
\* never passes the context length.
TypeOK ==
    /\ history \in Seq(Tokens) /\ position \in 0..ContextLength
    /\ \A l \in LayerIds : kv[l] \in Seq(Tokens)
    /\ hasLogits \in BOOLEAN /\ healthy \in BOOLEAN /\ cancelled \in BOOLEAN
    /\ phase \in {"idle", "start", "prefill", "decode", "evalPrompt", "evalNew"}
    /\ pending \in Seq(Tokens) /\ budget \in 0..MaxNew /\ layer \in 0..Layers
    /\ result \in Results

\* The three records of what the model has seen agree whenever no token is in
\* flight, after failures, cancellations and restores too: history, position
\* and the rows of every layer; a token in flight adds at most its own row.
StateInStep ==
    /\ position = Len(history)
    /\ \A l \in LayerIds :
          kv[l] = IF Evaluating /\ l <= layer THEN Append(history, Head(pending)) ELSE history

\* Logits the session vouches for were computed from its whole history, so the
\* next token is never sampled from a failed, rewound or foreign evaluation;
\* and a healthy session with a history can always be continued.
LogitsCurrent ==
    /\ hasLogits => logits = history /\ history # <<>>
    /\ healthy /\ history # <<>> => hasLogits
    /\ phase \in {"decode", "evalNew"} => hasLogits

\* What export_session writes, restore_session accepts: history, logits flag
\* and rows of a snapshot satisfy every restore check, and its rows and logits
\* are those of its history.
SnapshotsRestorable ==
    \A s \in snapshot :
        /\ Restorable(s)
        /\ \A l \in LayerIds : s.kv[l] = s.history
        /\ s.hasLogits => s.logits = s.history

\* Reusing the cached prefix never mixes two conversations: until the prompt is
\* consumed, what the session holds and what is left to evaluate make up exactly
\* the prompt of this call; afterwards, and when the call has ended by itself,
\* the session holds the prompt and then only what this call sampled.
PromptIsPrefix ==
    /\ phase \in {"start", "prefill", "evalPrompt"} => prompt = history \o pending
    /\ \/ phase \in {"decode", "evalNew"}
       \/ phase = "idle" /\ result \in {"MaxTokens", "ContextLength", "StopToken", "StopSequence"}
       => StartsWith(history, prompt)

\* Cancellation takes effect: once the flag is set the call returns, and no
\* call runs on for ever without it either.
CallsReturn == (phase # "idle") ~> (phase = "idle")

\* Once cancelled, a call evaluates no token beyond the one in flight.
CancelStopsEvaluation ==
    [][cancelled /\ ~Evaluating => ~Evaluating']_vars

\* docs/STATUS.md: a failed evaluation rewinds every layer and "retry starts
\* from a clean committed position".
RetriesRun == result # "SessionPoisoned"

\* The session, between calls and within one, is in one state, not four.
SessionConsistent == TypeOK /\ StateInStep /\ LogitsCurrent
=============================================================================
