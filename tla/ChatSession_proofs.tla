------------------------- MODULE ChatSession_proofs -------------------------
(***************************************************************************)
(* Proofs about ChatSession: whatever is cancelled, fails, is exported and *)
(* restored, and for every vocabulary, number of layers, context length    *)
(* and set of prompts, the records of a session stay in step.              *)
(***************************************************************************)
EXTENDS ChatSession, SequenceTheorems, TLAPS

-----------------------------------------------------------------------------
(* Token sequences. *)

LEMMA AppendedToken ==
    ASSUME NEW h \in Seq(Tokens), NEW t \in Tokens
    PROVE  /\ Append(h, t) \in Seq(Tokens) /\ Len(Append(h, t)) = Len(h) + 1
           /\ Append(h, t)[Len(h) + 1] = t
           /\ \A i \in 1..Len(h) : Append(h, t)[i] = h[i]
           /\ Append(h, t) # <<>>
BY AppendProperties

\* What rewind_all leaves of a layer with or without the row of the token in
\* flight.
LEMMA RewindsTo ==
    ASSUME NEW h \in Seq(Tokens)
    PROVE  /\ SubSeq(h, 1, Len(h)) = h
           /\ \A t \in Tokens : SubSeq(Append(h, t), 1, Len(h)) = h
<1>1. Len(h) \in Nat /\ \A i \in 1..Len(h) : h[i] \in Tokens
    BY LenProperties, ElementOfSeq
<1>2. ASSUME NEW s, \A i \in 1..Len(h) : s[i] = h[i]
      PROVE  SubSeq(s, 1, Len(h)) = h
  <2> DEFINE prefix == SubSeq(s, 1, Len(h))
  <2>1. \A i \in 1..Len(h) : s[i] \in Tokens
      BY <1>1, <1>2
  <2>2. /\ prefix \in Seq(Tokens) /\ Len(prefix) = (IF 1 <= Len(h) THEN Len(h) - 1 + 1 ELSE 0)
        /\ \A i \in 1..(Len(h) - 1 + 1) : prefix[i] = s[1 + i - 1]
      BY <1>1, <2>1, SubSeqProperties
  <2> HIDE DEF prefix
  <2>3. Len(prefix) = Len(h) /\ \A i \in 1..Len(h) : prefix[i] = h[i]
      BY <1>1, <1>2, <2>2
  <2>4. prefix = h
      BY <2>2, <2>3, SeqEqual
  <2> QED
      BY <2>4 DEF prefix
<1>3. SubSeq(h, 1, Len(h)) = h
    BY <1>2
<1>4. ASSUME NEW t \in Tokens PROVE SubSeq(Append(h, t), 1, Len(h)) = h
    BY <1>2, AppendedToken
<1> QED
    BY <1>3, <1>4

\* The prompt is the cached history and the suffix still to be evaluated.
LEMMA SuffixCompletes ==
    ASSUME NEW p \in Seq(Tokens), NEW h \in Seq(Tokens), StartsWith(p, h)
    PROVE  /\ SubSeq(p, Len(h) + 1, Len(p)) \in Seq(Tokens)
           /\ Len(h) + Len(SubSeq(p, Len(h) + 1, Len(p))) = Len(p)
           /\ p = h \o SubSeq(p, Len(h) + 1, Len(p))
<1> DEFINE suffix == SubSeq(p, Len(h) + 1, Len(p))
           both == h \o suffix
<1>1. Len(h) \in Nat /\ Len(p) \in Nat /\ Len(h) <= Len(p) /\ \A i \in 1..Len(p) : p[i] \in Tokens
    BY LenProperties, ElementOfSeq DEF StartsWith
<1>2. \A i \in 1..Len(h) : p[i] = h[i]
  <2>1. \A i \in 1..Len(h) : p[i] \in Tokens
      BY <1>1
  <2>2. \A i \in 1..(Len(h) - 1 + 1) : SubSeq(p, 1, Len(h))[i] = p[1 + i - 1]
      BY <1>1, <2>1, SubSeqProperties
  <2>3. SubSeq(p, 1, Len(h)) = h
      BY DEF StartsWith
  <2> QED
      BY <1>1, <2>2, <2>3
<1>3. \A i \in (Len(h) + 1)..Len(p) : p[i] \in Tokens
    BY <1>1
<1>4. /\ suffix \in Seq(Tokens)
      /\ Len(suffix) = (IF Len(h) + 1 <= Len(p) THEN Len(p) - (Len(h) + 1) + 1 ELSE 0)
      /\ \A i \in 1..(Len(p) - (Len(h) + 1) + 1) : suffix[i] = p[Len(h) + 1 + i - 1]
    BY <1>1, <1>3, SubSeqProperties
<1> HIDE DEF suffix
<1>5. Len(h) + Len(suffix) = Len(p)
    BY <1>1, <1>4
<1>6. /\ both \in Seq(Tokens) /\ Len(both) = Len(h) + Len(suffix)
      /\ \A i \in 1..(Len(h) + Len(suffix)) : both[i] = IF i <= Len(h) THEN h[i] ELSE suffix[i - Len(h)]
    BY <1>4, ConcatProperties
<1> HIDE DEF both
<1>7. ASSUME NEW i \in 1..Len(p) PROVE p[i] = both[i]
  <2>1. CASE i <= Len(h)
      BY <1>1, <1>2, <1>5, <1>6, <2>1
  <2>2. CASE i > Len(h)
    <3>1. i - Len(h) \in 1..(Len(p) - (Len(h) + 1) + 1) /\ Len(h) + 1 + (i - Len(h)) - 1 = i
        BY <1>1, <2>2
    <3> QED
        BY <1>1, <1>4, <1>5, <1>6, <2>2, <3>1
  <2> QED
      BY <1>1, <2>1, <2>2
<1>8. p = both
    BY <1>5, <1>6, <1>7, SeqEqual
<1> QED
    BY <1>4, <1>5, <1>8 DEF suffix, both

\* The token in flight moves from what is pending to the history.
LEMMA TokenMoves ==
    ASSUME NEW h \in Seq(Tokens), NEW s \in Seq(Tokens), s # <<>>
    PROVE  /\ Head(s) \in Tokens /\ Tail(s) \in Seq(Tokens) /\ Len(Tail(s)) = Len(s) - 1
           /\ h \o s = Append(h, Head(s)) \o Tail(s)
<1>1. /\ Head(s) \in Tokens /\ Tail(s) \in Seq(Tokens) /\ Len(Tail(s)) = Len(s) - 1
      /\ \A i \in 1..Len(Tail(s)) : Tail(s)[i] = s[i + 1]
      /\ Head(s) = s[1]
    BY HeadTailProperties
<1> DEFINE next == Append(h, Head(s))
           left == h \o s
           right == next \o Tail(s)
<1>2. /\ next \in Seq(Tokens) /\ Len(next) = Len(h) + 1 /\ next[Len(h) + 1] = Head(s)
      /\ \A i \in 1..Len(h) : next[i] = h[i]
    BY <1>1, AppendedToken
<1> HIDE DEF next
<1>3. /\ left \in Seq(Tokens) /\ Len(left) = Len(h) + Len(s)
      /\ \A i \in 1..(Len(h) + Len(s)) : left[i] = IF i <= Len(h) THEN h[i] ELSE s[i - Len(h)]
    BY ConcatProperties
<1>4. /\ right \in Seq(Tokens) /\ Len(right) = Len(next) + Len(Tail(s))
      /\ \A i \in 1..(Len(next) + Len(Tail(s))) :
            right[i] = IF i <= Len(next) THEN next[i] ELSE Tail(s)[i - Len(next)]
    BY <1>1, <1>2, ConcatProperties
<1> HIDE DEF left, right
<1>5. Len(h) \in Nat /\ Len(s) \in Nat \ {0}
    BY LenProperties, EmptySeq
<1>6. ASSUME NEW i \in 1..Len(left) PROVE left[i] = right[i]
  <2>1. i \in 1..(Len(h) + Len(s)) /\ i \in 1..(Len(next) + Len(Tail(s)))
      BY <1>1, <1>2, <1>3, <1>5
  <2>a. left[i] = IF i <= Len(h) THEN h[i] ELSE s[i - Len(h)]
      BY <1>3, <2>1
  <2>b. right[i] = IF i <= Len(next) THEN next[i] ELSE Tail(s)[i - Len(next)]
      BY <1>4, <2>1
  <2>2. CASE i <= Len(h)
    <3>1. i <= Len(next) /\ next[i] = h[i]
        BY <1>2, <1>5, <2>1, <2>2
    <3> QED
        BY <2>2, <2>a, <2>b, <3>1
  <2>3. CASE i = Len(h) + 1
    <3>1. i <= Len(next) /\ ~(i <= Len(h)) /\ i - Len(h) = 1
        BY <1>2, <1>5, <2>3
    <3>2. left[i] = s[1] /\ right[i] = next[i]
        BY <2>a, <2>b, <3>1
    <3> QED
        BY <1>1, <1>2, <2>3, <3>2
  <2>4. CASE i > Len(h) + 1
    <3>1. /\ i - Len(next) \in 1..Len(Tail(s)) /\ (i - Len(next)) + 1 = i - Len(h)
          /\ ~(i <= Len(next)) /\ ~(i <= Len(h))
        BY <1>1, <1>2, <1>5, <2>1, <2>4
    <3>2. Tail(s)[i - Len(next)] = s[i - Len(h)]
        BY <1>1, <3>1
    <3> QED
        BY <2>a, <2>b, <3>1, <3>2
  <2> QED
      BY <1>5, <2>1, <2>2, <2>3, <2>4
<1>7. left = right
    BY <1>1, <1>2, <1>3, <1>4, <1>5, <1>6, SeqEqual
<1> QED
    BY <1>1, <1>7 DEF left, right, next

\* A history that starts with the prompt still does when a token is added.
LEMMA StillStarts ==
    ASSUME NEW h \in Seq(Tokens), NEW p \in Seq(Tokens), NEW t \in Tokens, StartsWith(h, p)
    PROVE  StartsWith(Append(h, t), p)
<1>1. Len(h) \in Nat /\ Len(p) \in Nat /\ Len(p) <= Len(h) /\ SubSeq(h, 1, Len(p)) = p
      /\ (\A i \in 1..Len(h) : h[i] \in Tokens)
    BY LenProperties, ElementOfSeq DEF StartsWith
<1> DEFINE next == Append(h, t)
           prefix == SubSeq(next, 1, Len(p))
<1>2. Len(next) = Len(h) + 1 /\ \A i \in 1..Len(h) : next[i] = h[i]
    BY AppendedToken
<1> HIDE DEF next
<1>3. \A i \in 1..Len(p) : next[i] = h[i] /\ next[i] \in Tokens /\ h[i] \in Tokens
    BY <1>1, <1>2
<1>4. /\ prefix \in Seq(Tokens) /\ Len(prefix) = (IF 1 <= Len(p) THEN Len(p) - 1 + 1 ELSE 0)
      /\ \A i \in 1..(Len(p) - 1 + 1) : prefix[i] = next[1 + i - 1]
    BY <1>1, <1>3, SubSeqProperties
<1>5. \A i \in 1..(Len(p) - 1 + 1) : SubSeq(h, 1, Len(p))[i] = h[1 + i - 1]
    BY <1>1, <1>3, SubSeqProperties
<1> HIDE DEF prefix
<1>6. \A i \in 1..Len(p) : prefix[i] = p[i]
    BY <1>1, <1>3, <1>4, <1>5
<1>7. Len(prefix) = Len(p)
    BY <1>1, <1>4
<1>8. prefix = p
    BY <1>4, <1>6, <1>7, SeqEqual
<1> QED
    BY <1>1, <1>2, <1>8 DEF StartsWith, prefix, next

-----------------------------------------------------------------------------
(* The inductive invariant. *)

Types ==
    /\ history \in Seq(Tokens) /\ position \in 0..ContextLength
    /\ kv \in [LayerIds -> Seq(Tokens)]
    /\ hasLogits \in BOOLEAN /\ healthy \in BOOLEAN /\ cancelled \in BOOLEAN
    /\ phase \in {"idle", "start", "prefill", "decode", "evalPrompt", "evalNew"}
    /\ pending \in Seq(Tokens) /\ prompt \in Seq(Tokens)
    /\ budget \in 0..MaxNew /\ layer \in 0..Layers
    /\ result \in Results

\* What a call knows in each of its phases: it runs on a healthy session, the
\* token in flight exists, there are logits to sample from, and the context has
\* room for what is left of the prompt and of the budget.
CallSound ==
    /\ phase # "idle" => healthy
    /\ ~Evaluating => layer = 0
    /\ Evaluating => pending # <<>>
    /\ phase \in {"start", "prefill", "evalPrompt"} =>
          Len(history) + Len(pending) + budget <= ContextLength
    /\ phase \in {"start", "prefill"} /\ pending = <<>> => hasLogits
    /\ phase \in {"decode", "evalNew"} => Len(history) + budget <= ContextLength
    /\ phase = "evalNew" => budget > 0

\* A persisted session is a session that can be continued.
SnapshotSound(s) ==
    /\ s.history \in Seq(Tokens) /\ Len(s.history) <= ContextLength
    /\ s.kv \in [LayerIds -> Seq(Tokens)] /\ \A l \in LayerIds : s.kv[l] = s.history
    /\ s.hasLogits \in BOOLEAN /\ s.hasLogits = (Len(s.history) > 0)
    /\ s.hasLogits => s.logits = s.history

IInv ==
    /\ Types /\ StateInStep /\ LogitsCurrent /\ CallSound /\ PromptIsPrefix
    /\ \A s \in snapshot : SnapshotSound(s)

LEMMA InitIInv == Init => IInv
<1> SUFFICES ASSUME Init PROVE IInv
    OBVIOUS
<1>1. <<>> \in Seq(Tokens) /\ Len(<<>>) = 0
    BY EmptySeq
<1>2. Types
  <2>1. kv \in [LayerIds -> Seq(Tokens)]
      BY <1>1 DEF Init
  <2>2. position \in 0..ContextLength /\ budget \in 0..MaxNew /\ layer \in 0..Layers
      BY SessionAssumption DEF Init
  <2>3. result \in Results
      BY DEF Init, Results
  <2> QED
      BY <1>1, <2>1, <2>2, <2>3 DEF Init, Types
<1>3. ~Evaluating
    BY DEF Init, Evaluating
<1>4. StateInStep
    BY <1>1, <1>3 DEF Init, StateInStep
<1>5. LogitsCurrent
    BY DEF Init, LogitsCurrent
<1>6. CallSound
    BY <1>3 DEF Init, CallSound
<1>7. PromptIsPrefix
    BY DEF Init, PromptIsPrefix
<1>8. \A s \in snapshot : SnapshotSound(s)
    BY DEF Init
<1> QED
    BY <1>2, <1>4, <1>5, <1>6, <1>7, <1>8 DEF IInv

\* The invariant is disturbed in three ways: by a call that returns, by a token
\* that is recorded, and by a phase that follows another.  A call returns with
\* the session it has.
LEMMA Returns ==
    ASSUME IInv, NEW r \in Results, Return(r), UNCHANGED <<history, position, kv, hasLogits, healthy>>,
           logits' = logits, ~Evaluating,
           r \in {"MaxTokens", "ContextLength", "StopToken", "StopSequence"} => StartsWith(history, prompt)
    PROVE  IInv'
<1> USE DEF Return
<1>1. <<>> \in Seq(Tokens)
    BY EmptySeq
<1>2. Types'
    BY <1>1, SessionAssumption DEF IInv, Types
<1>3. ~Evaluating'
    BY DEF Evaluating
<1>4. StateInStep'
    BY <1>3 DEF IInv, StateInStep
<1>5. LogitsCurrent'
    BY DEF IInv, LogitsCurrent
<1>6. CallSound'
    BY <1>3 DEF CallSound
<1>7. PromptIsPrefix'
    BY DEF PromptIsPrefix, StartsWith
<1>8. (\A s \in snapshot : SnapshotSound(s))'
    BY DEF IInv, SnapshotSound, LayerIds
<1> QED
    BY <1>2, <1>4, <1>5, <1>6, <1>7, <1>8 DEF IInv

\* A token the generator records is in every layer already, the context has room
\* for it, and the logits are those of the history it completes.
LEMMA Records ==
    ASSUME IInv, Evaluating, layer = Layers, Commit, ~Evaluating'
    PROVE  /\ history' \in Seq(Tokens) /\ Len(history') = Len(history) + 1
           /\ position' \in 0..ContextLength
           /\ StateInStep' /\ LogitsCurrent'
<1>1. /\ history \in Seq(Tokens) /\ pending \in Seq(Tokens) /\ pending # <<>>
      /\ position = Len(history) /\ budget \in 0..MaxNew
    BY DEF IInv, Types, StateInStep, CallSound
<1>2. Head(pending) \in Tokens /\ Len(pending) \in Nat \ {0}
    BY <1>1, HeadTailProperties, EmptySeq, LenProperties
<1>3. /\ history' \in Seq(Tokens) /\ Len(history') = Len(history) + 1
      /\ history' # <<>>
    BY <1>1, <1>2, AppendedToken DEF Commit
<1>4. position' \in 0..ContextLength
  <2>1. Len(history) \in Nat /\ budget \in Nat
      BY <1>1, LenProperties, SessionAssumption
  <2>2. Len(history) + 1 <= ContextLength
    <3>1. CASE phase = "evalPrompt"
        BY <1>2, <2>1, <3>1, SessionAssumption DEF IInv, CallSound
    <3>2. CASE phase = "evalNew"
        BY <2>1, <3>2, SessionAssumption DEF IInv, CallSound
    <3> QED
        BY <3>1, <3>2 DEF Evaluating
  <2> QED
      BY <1>1, <2>1, <2>2, SessionAssumption DEF Commit
<1>5. StateInStep'
  <2>1. \A l \in LayerIds : kv[l] = Append(history, Head(pending))
      BY DEF IInv, StateInStep, LayerIds
  <2> QED
      BY <1>1, <1>3, <2>1 DEF StateInStep, Commit, LayerIds
<1>6. LogitsCurrent'
    BY <1>3 DEF LogitsCurrent, Commit
<1> QED
    BY <1>3, <1>4, <1>5, <1>6

\* Snapshots survive every step that leaves them alone.
LEMMA SnapshotsKept ==
    ASSUME IInv, UNCHANGED snapshot
    PROVE  (\A s \in snapshot : SnapshotSound(s))'
BY DEF IInv, SnapshotSound, LayerIds

\* A step that changes phase but not the session.
LEMMA PhaseMoves ==
    ASSUME IInv, NEW ph \in {"prefill", "decode", "evalPrompt"}, GoTo(ph), UNCHANGED sessionVars,
           phase \in {"start", "prefill"},
           ph = "decode" => pending = <<>>, ph = "evalPrompt" => pending # <<>>
    PROVE  IInv'
<1> USE DEF GoTo, sessionVars
<1>1. /\ history \in Seq(Tokens) /\ pending \in Seq(Tokens) /\ budget \in Nat
      /\ Len(history) \in Nat /\ Len(pending) \in Nat /\ ~Evaluating /\ healthy /\ layer = 0
      /\ prompt = history \o pending
    BY LenProperties, SessionAssumption DEF IInv, Types, CallSound, Evaluating, PromptIsPrefix
<1>2. Types'
    BY DEF IInv, Types
<1>3. StateInStep'
  <2>1. \A l \in LayerIds : kv[l] = history
      BY <1>1 DEF IInv, StateInStep
  <2> QED
      BY <1>1, <2>1 DEF IInv, StateInStep, LayerIds
<1>4. ph = "decode" => hasLogits
    BY DEF IInv, CallSound
<1>5. LogitsCurrent'
    BY <1>4 DEF IInv, LogitsCurrent
<1>6. CallSound'
  <2>1. Len(history) + Len(pending) + budget <= ContextLength
      BY DEF IInv, CallSound
  <2>2. Len(history) + budget <= ContextLength
      BY <1>1, <2>1, SessionAssumption
  <2> QED
      BY <1>1, <1>4, <2>1, <2>2 DEF CallSound, Evaluating, IInv
<1>7. PromptIsPrefix'
  <2>1. CASE ph = "decode"
    <3>1. prompt = history
        BY <1>1, <2>1, ConcatEmptySeq
    <3>2. StartsWith(history, prompt)
        BY <1>1, <3>1, RewindsTo DEF StartsWith
    <3> QED
        BY <2>1, <3>2 DEF PromptIsPrefix, StartsWith
  <2>2. CASE ph # "decode"
      BY <1>1, <2>2 DEF PromptIsPrefix
  <2> QED
      BY <2>1, <2>2
<1> QED
    BY <1>2, <1>3, <1>5, <1>6, <1>7, SnapshotsKept DEF IInv

-----------------------------------------------------------------------------
(* One lemma per action. *)

\* A request: the cached history is continued, or dropped when the prompt does
\* not start with it.
LEMMA CompleteStep ==
    ASSUME IInv, NEW p \in Prompts, NEW maxNew \in 0..MaxNew, NEW valid \in BOOLEAN,
           Complete(p, maxNew, valid)
    PROVE  IInv'
<1> DEFINE keep    == StartsWith(p, history)
           cached  == IF keep THEN Len(history) ELSE 0
           suffix  == SubSeq(p, cached + 1, Len(p))
           at      == IF keep THEN position ELSE 0
           fit     == keep => healthy
           ready   == keep /\ hasLogits
           verdict == Admission(valid, suffix, at, fit, ready)
           room    == ContextLength - Len(p)
<1>1. /\ p \in Seq(Tokens) /\ <<>> \in Seq(Tokens) /\ Len(<<>>) = 0 /\ Len(p) \in Nat
      /\ history \in Seq(Tokens) /\ Len(history) \in Nat /\ position = Len(history)
      /\ ~Evaluating /\ \A l \in LayerIds : kv[l] = history
    BY SessionAssumption, EmptySeq, LenProperties
    DEF IInv, Types, StateInStep, Complete, Evaluating
<1>2. StartsWith(p, <<>>)
    BY <1>1, SubSeqProperties, EmptySeq DEF StartsWith
<1>3. \* what the call finds: the kept session or a fresh one
      /\ history' \in Seq(Tokens) /\ kv' \in [LayerIds -> Seq(Tokens)] /\ Len(history') = cached
      /\ position' = cached /\ position' \in 0..ContextLength
      /\ StartsWith(p, history') /\ \A l \in LayerIds : kv'[l] = history'
      /\ hasLogits' \in BOOLEAN /\ healthy' \in BOOLEAN
      /\ fit => healthy'
      /\ ready => hasLogits'
  <2>1. CASE keep
      BY <1>1, <2>1 DEF Complete, sessionVars, IInv, Types
  <2>2. CASE ~keep
    <3>1. /\ history' = <<>> /\ position' = 0 /\ hasLogits' = FALSE /\ healthy' = TRUE
          /\ kv' = [l \in LayerIds |-> <<>>]
        BY <2>2 DEF Complete, ResetSession
    <3>2. cached = 0 /\ ~ready
        BY <2>2
    <3> HIDE DEF cached, ready, fit, keep
    <3>3. kv' \in [LayerIds -> Seq(Tokens)] /\ \A l \in LayerIds : kv'[l] = history'
        BY <1>1, <3>1
    <3>4. position' = cached /\ position' \in 0..ContextLength /\ Len(history') = cached
        BY <1>1, <3>1, <3>2, SessionAssumption
    <3> QED
        BY <1>1, <1>2, <3>1, <3>2, <3>3, <3>4
  <2> QED
      BY <2>1, <2>2
<1>4. LogitsCurrent'
  <2>1. phase' \in {"idle", "start"}
      BY DEF Complete
  <2>2. CASE keep
      BY <2>1, <2>2 DEF Complete, sessionVars, IInv, LogitsCurrent
  <2>3. CASE ~keep
      BY <2>1, <2>3 DEF Complete, ResetSession, LogitsCurrent
  <2> QED
      BY <2>2, <2>3
<1>5. suffix \in Seq(Tokens) /\ cached + Len(suffix) = Len(p) /\ p = history' \o suffix
  <2> HIDE DEF cached
  <2>1. suffix = SubSeq(p, Len(history') + 1, Len(p))
      BY <1>3
  <2>2. /\ SubSeq(p, Len(history') + 1, Len(p)) \in Seq(Tokens)
        /\ Len(history') + Len(SubSeq(p, Len(history') + 1, Len(p))) = Len(p)
        /\ p = history' \o SubSeq(p, Len(history') + 1, Len(p))
      BY <1>1, <1>3, SuffixCompletes
  <2> QED
      BY <1>3, <2>1, <2>2
<1>6. /\ prompt' = p /\ layer' = 0 /\ cancelled' = FALSE /\ UNCHANGED snapshot
      /\ phase' \in {"idle", "start"}
      /\ verdict = "start" => /\ phase' = "start" /\ result' = "none" /\ pending' = suffix
                             /\ budget' = IF maxNew < room THEN maxNew ELSE room
      /\ verdict # "start" => phase' = "idle" /\ result' = verdict /\ UNCHANGED <<pending, budget>>
    BY DEF Complete
<1>7. at = cached /\ cached \in Nat /\ Len(suffix) \in Nat
    BY <1>1, <1>5, LenProperties
<1>8. /\ verdict = "start" => Len(suffix) <= ContextLength - cached
      /\ verdict = "start" => healthy'
      /\ verdict = "start" /\ suffix = <<>> => hasLogits'
      /\ verdict \in {"start", "Sampling", "SessionPoisoned", "PromptExceedsContext", "EmptyPrompt"}
  <2>1. /\ verdict = "start" => Len(suffix) <= ContextLength - at
        /\ verdict \in {"start", "Sampling", "SessionPoisoned", "PromptExceedsContext", "EmptyPrompt"}
    <3> HIDE DEF suffix, at, fit, ready, cached
    <3> QED
        BY <1>7, SessionAssumption DEF Admission
  <2>2. verdict = "start" => fit
      BY DEF Admission
  <2>3. verdict = "start" /\ suffix = <<>> => ready
    <3>1. ASSUME suffix = <<>>, ~ready PROVE verdict # "start"
      <4> HIDE DEF suffix, at, ready, cached
      <4>1. Len(suffix) = 0
          BY <1>1, <3>1
      <4>2. at \in 0..ContextLength
          BY <1>3, <1>7
      <4>3. ~(Len(suffix) > ContextLength - at) /\ Len(suffix) <= ContextLength - at
          BY <4>1, <4>2, SessionAssumption
      <4> QED
          BY <3>1, <4>3 DEF Admission
    <3> QED
        BY <3>1
  <2> HIDE DEF suffix, at, fit, ready, verdict, cached
  <2> QED
      BY <1>3, <1>7, <2>1, <2>2, <2>3
<1> HIDE DEF keep, cached, suffix, at, fit, ready, verdict
<1>9. verdict = "start" => budget' \in 0..MaxNew /\ cached + Len(suffix) + budget' <= ContextLength
  <2> HAVE verdict = "start"
  <2>1. Len(suffix) <= ContextLength - cached
      BY <1>8
  <2>2. room \in Nat /\ cached + Len(suffix) + room = ContextLength
    <3>1. ContextLength \in Nat /\ cached \in Nat /\ Len(suffix) \in Nat
        BY <1>7, SessionAssumption
    <3>2. room = ContextLength - (cached + Len(suffix))
        BY <1>5
    <3> HIDE DEF room
    <3> QED
        BY <2>1, <3>1, <3>2
  <2>3. budget' = IF maxNew < room THEN maxNew ELSE room
      BY <1>6
  <2>4. MaxNew \in Nat /\ ContextLength \in Nat
      BY SessionAssumption
  <2> HIDE DEF room
  <2> QED
      BY <1>7, <2>2, <2>3, <2>4
<1>10. ~Evaluating'
    BY <1>6 DEF Evaluating
<1>11. Types'
  <2>1. pending' \in Seq(Tokens) /\ budget' \in 0..MaxNew
      BY <1>5, <1>6, <1>9 DEF IInv, Types
  <2>2. result' \in Results
      BY <1>6, <1>8 DEF Results
  <2>3. layer' \in 0..Layers /\ prompt' \in Seq(Tokens)
      BY <1>1, <1>6, SessionAssumption
  <2>4. /\ cancelled' \in BOOLEAN
        /\ phase' \in {"idle", "start", "prefill", "decode", "evalPrompt", "evalNew"}
      BY <1>6
  <2> QED
      BY <1>3, <2>1, <2>2, <2>3, <2>4 DEF Types
<1>12. StateInStep'
    BY <1>3, <1>10 DEF StateInStep, LayerIds
<1>13. CallSound'
  <2>1. CASE verdict = "start"
    <3>1. healthy' /\ (pending' = <<>> => hasLogits')
        BY <1>6, <1>8, <2>1
    <3>2. Len(history') + Len(pending') + budget' <= ContextLength
        BY <1>3, <1>6, <1>9, <2>1
    <3> QED
        BY <1>6, <1>10, <2>1, <3>1, <3>2 DEF CallSound
  <2>2. CASE verdict # "start"
      BY <1>6, <1>10, <2>2 DEF CallSound
  <2> QED
      BY <2>1, <2>2
<1>14. PromptIsPrefix'
    BY <1>5, <1>6, <1>8 DEF PromptIsPrefix
<1> QED
    BY <1>4, <1>6, <1>11, <1>12, <1>13, <1>14, SnapshotsKept DEF IInv

LEMMA CancelStep ==
    ASSUME IInv, Cancel
    PROVE  IInv'
<1> USE DEF Cancel, sessionVars
<1>1. Types'
    BY DEF IInv, Types
<1>2. Evaluating' = Evaluating
    BY DEF Evaluating
<1>3. StateInStep'
    BY <1>2 DEF IInv, StateInStep, LayerIds
<1>4. LogitsCurrent'
    BY DEF IInv, LogitsCurrent
<1>5. CallSound'
    BY <1>2 DEF IInv, CallSound
<1>6. PromptIsPrefix'
    BY DEF IInv, PromptIsPrefix, StartsWith
<1> QED
    BY <1>1, <1>3, <1>4, <1>5, <1>6, SnapshotsKept DEF IInv

\* What a flush may change is how the call ended; before the prompt is consumed
\* nothing was emitted and there is nothing to flush.
LEMMA Finishes ==
    ASSUME IInv, NEW r \in {"Cancelled", "MaxTokens", "ContextLength"}, Finish(r),
           UNCHANGED sessionVars, phase \in {"start", "prefill", "decode"},
           phase # "decode" => r = "Cancelled"
    PROVE  IInv'
<1>1. PICK f \in Flushed(r) : Return(f)
    BY DEF Finish
<1>2. f \in Results
    BY DEF Flushed, Results
<1>3. f \in {"MaxTokens", "ContextLength", "StopToken", "StopSequence"} => StartsWith(history, prompt)
  <2>1. CASE phase = "decode"
      BY <2>1 DEF IInv, PromptIsPrefix
  <2>2. CASE phase # "decode"
    <3>1. prompt = history \o pending /\ history \in Seq(Tokens) /\ pending \in Seq(Tokens)
        BY <2>2 DEF IInv, Types, PromptIsPrefix
    <3>2. Len(prompt) = Len(history) + Len(pending) /\ Len(pending) \in Nat /\ Len(history) \in Nat
        BY <3>1, ConcatProperties, LenProperties
    <3>3. ~(Len(history) > Len(prompt))
        BY <3>2
    <3> QED
        BY <2>2, <3>3 DEF Flushed
  <2> QED
      BY <2>1, <2>2
<1>4. ~Evaluating
    BY DEF Evaluating
<1> QED
    BY <1>1, <1>2, <1>3, <1>4, Returns DEF sessionVars

LEMMA StartStepStep ==
    ASSUME IInv, StartStep
    PROVE  IInv'
<1>1. CASE cancelled
    BY <1>1, Finishes DEF StartStep, StopCancelled
<1>2. CASE ~cancelled
    BY <1>2, PhaseMoves DEF StartStep
<1> QED
    BY <1>1, <1>2

LEMMA PrefillStepStep ==
    ASSUME IInv, PrefillStep
    PROVE  IInv'
<1>1. CASE pending = <<>>
    BY <1>1, PhaseMoves DEF PrefillStep
<1>2. CASE pending # <<>> /\ cancelled
    BY <1>2, Finishes DEF PrefillStep, StopCancelled
<1>3. CASE pending # <<>> /\ ~cancelled
  <2>1. GoTo("evalPrompt") /\ UNCHANGED sessionVars /\ phase = "prefill"
      BY <1>3 DEF PrefillStep
  <2> QED
      BY <1>3, <2>1, PhaseMoves
<1> QED
    BY <1>1, <1>2, <1>3

LEMMA DecodeStepStep ==
    ASSUME IInv, DecodeStep
    PROVE  IInv'
<1>1. /\ phase = "decode" /\ UNCHANGED sessionVars /\ budget \in Nat /\ ~Evaluating
      /\ cancelled \in BOOLEAN
    BY SessionAssumption DEF DecodeStep, IInv, Types, Evaluating
<1>2. CASE budget = 0
    BY <1>1, <1>2, Finishes DEF DecodeStep
<1>3. CASE budget > 0 /\ cancelled
    BY <1>1, <1>3, Finishes DEF DecodeStep, StopCancelled
<1>4. CASE budget > 0 /\ ~cancelled
  <2>1. \/ Return("Sampling")
        \/ \E t \in Tokens :
              /\ phase' = "evalNew" /\ pending' = <<t>>
              /\ UNCHANGED <<budget, clipped, layer, prompt, cancelled, result, snapshot>>
      BY <1>1, <1>4 DEF DecodeStep
  <2>2. CASE Return("Sampling")
      BY <1>1, <2>2, Returns DEF sessionVars, Results
  <2>3. CASE \E t \in Tokens :
              /\ phase' = "evalNew" /\ pending' = <<t>>
              /\ UNCHANGED <<budget, clipped, layer, prompt, cancelled, result, snapshot>>
    <3>1. PICK t \in Tokens :
              /\ phase' = "evalNew" /\ pending' = <<t>>
              /\ UNCHANGED <<budget, clipped, layer, prompt, cancelled, result, snapshot>>
        BY <2>3
    <3>2. <<t>> \in Seq(Tokens) /\ <<t>> # <<>>
        OBVIOUS
    <3>3. Types'
        BY <1>1, <3>1, <3>2 DEF IInv, Types, sessionVars
    <3>4. layer = 0 /\ healthy /\ hasLogits /\ Len(history) + budget <= ContextLength
          /\ StartsWith(history, prompt)
        BY <1>1 DEF IInv, CallSound, LogitsCurrent, PromptIsPrefix
    <3>5. StateInStep'
      <4>1. position = Len(history) /\ \A l \in LayerIds : kv[l] = history /\ ~(l <= 0)
          BY <1>1 DEF IInv, StateInStep, LayerIds
      <4> QED
          BY <1>1, <3>1, <3>4, <4>1 DEF StateInStep, sessionVars, LayerIds
    <3>6. LogitsCurrent'
        BY <1>1, <3>1, <3>4 DEF IInv, LogitsCurrent, sessionVars
    <3>7. CallSound'
        BY <1>1, <1>4, <3>1, <3>2, <3>4 DEF CallSound, sessionVars, Evaluating
    <3>8. PromptIsPrefix'
        BY <1>1, <3>1, <3>4 DEF PromptIsPrefix, StartsWith, sessionVars
    <3> QED
        BY <3>1, <3>3, <3>5, <3>6, <3>7, <3>8, SnapshotsKept DEF IInv
  <2> QED
      BY <2>1, <2>2, <2>3
<1> QED
    BY <1>1, <1>2, <1>3, <1>4

\* A layer appends its row.
LEMMA LayerStepStep ==
    ASSUME IInv, LayerStep
    PROVE  IInv'
<1> USE DEF LayerStep
<1>1. /\ history \in Seq(Tokens) /\ pending \in Seq(Tokens) /\ pending # <<>>
      /\ kv \in [LayerIds -> Seq(Tokens)] /\ layer \in Nat /\ Layers \in Nat /\ Evaluating
      /\ layer + 1 \in LayerIds /\ position = Len(history)
    BY SessionAssumption DEF IInv, Types, StateInStep, CallSound, LayerIds
<1>2. Head(pending) \in Tokens
    BY <1>1, HeadTailProperties
<1>3. /\ kv' \in [LayerIds -> Seq(Tokens)]
      /\ kv'[layer + 1] = Append(kv[layer + 1], Head(pending))
      /\ \A l \in LayerIds : l # layer + 1 => kv'[l] = kv[l]
  <2>1. Append(kv[layer + 1], Head(pending)) \in Seq(Tokens)
      BY <1>1, <1>2, AppendProperties
  <2> QED
      BY <1>1, <2>1
<1>4. Types'
  <2>1. layer' \in 0..Layers
      BY <1>1
  <2> QED
      BY <1>3, <2>1 DEF IInv, Types
<1>5. Evaluating'
    BY <1>1 DEF Evaluating
<1>6. StateInStep'
  <2>1. ASSUME NEW l \in LayerIds
        PROVE  kv'[l] = IF l <= layer + 1 THEN Append(history, Head(pending)) ELSE history
    <3>1. kv[l] = IF l <= layer THEN Append(history, Head(pending)) ELSE history
        BY <1>1 DEF IInv, StateInStep
    <3>2. l \in Nat
        BY DEF LayerIds
    <3>3. CASE l = layer + 1
        BY <1>1, <1>3, <3>1, <3>2, <3>3
    <3>4. CASE l # layer + 1
        BY <1>1, <1>3, <3>1, <3>2, <3>4
    <3> QED
        BY <3>3, <3>4
  <2> QED
      BY <1>1, <1>5, <2>1 DEF StateInStep, LayerIds
<1>7. LogitsCurrent'
    BY DEF IInv, LogitsCurrent
<1>8. CallSound'
    BY <1>1, <1>5 DEF IInv, CallSound
<1>9. PromptIsPrefix'
    BY DEF IInv, PromptIsPrefix, StartsWith
<1> QED
    BY <1>4, <1>6, <1>7, <1>8, <1>9, SnapshotsKept DEF IInv

\* A failed evaluation takes back the rows of the token in flight and leaves a
\* poisoned session at its last committed position.
LEMMA EvaluateFailsStep ==
    ASSUME IInv, EvaluateFails
    PROVE  IInv'
<1>1. /\ history \in Seq(Tokens) /\ pending \in Seq(Tokens) /\ pending # <<>>
      /\ position = Len(history) /\ Evaluating /\ <<>> \in Seq(Tokens)
    BY EmptySeq DEF IInv, Types, StateInStep, CallSound, EvaluateFails
<1>2. Head(pending) \in Tokens
    BY <1>1, HeadTailProperties
<1>3. \A l \in LayerIds : SubSeq(kv[l], 1, position) = history
  <2> TAKE l \in LayerIds
  <2>1. kv[l] = history \/ kv[l] = Append(history, Head(pending))
      BY <1>1 DEF IInv, StateInStep
  <2> QED
      BY <1>1, <1>2, <2>1, RewindsTo
<1>4. kv' \in [LayerIds -> Seq(Tokens)] /\ \A l \in LayerIds : kv'[l] = history
    BY <1>1, <1>3 DEF EvaluateFails, Rewound
<1>5. /\ phase' = "idle" /\ pending' = <<>> /\ budget' = 0 /\ layer' = 0 /\ result' = "Model"
      /\ UNCHANGED <<prompt, cancelled, snapshot, history, position>>
      /\ healthy' = FALSE /\ hasLogits' = FALSE /\ ~Evaluating'
    BY DEF EvaluateFails, Return, Poison, Evaluating
<1>6. Types'
  <2>1. 0 \in 0..MaxNew /\ 0 \in 0..Layers /\ "Model" \in Results
      BY SessionAssumption DEF Results
  <2> QED
      BY <1>1, <1>4, <1>5, <2>1 DEF IInv, Types
<1>7. StateInStep'
    BY <1>1, <1>4, <1>5 DEF StateInStep, LayerIds
<1>8. LogitsCurrent' /\ CallSound' /\ PromptIsPrefix'
    BY <1>5 DEF LogitsCurrent, CallSound, PromptIsPrefix
<1> QED
    BY <1>5, <1>6, <1>7, <1>8, SnapshotsKept DEF IInv

LEMMA PromptTokenDoneStep ==
    ASSUME IInv, PromptTokenDone
    PROVE  IInv'
<1> USE DEF PromptTokenDone
<1>1. /\ history \in Seq(Tokens) /\ pending \in Seq(Tokens) /\ pending # <<>>
      /\ budget \in Nat /\ healthy /\ prompt = history \o pending
      /\ Len(history) + Len(pending) + budget <= ContextLength
    BY SessionAssumption DEF IInv, Types, CallSound, PromptIsPrefix, Evaluating
<1>2. Evaluating /\ ~Evaluating' /\ layer' = 0
    BY DEF Evaluating, Commit
<1>3. /\ history' \in Seq(Tokens) /\ Len(history') = Len(history) + 1
      /\ position' \in 0..ContextLength /\ StateInStep' /\ LogitsCurrent'
    BY <1>2, Records
<1>4. /\ Tail(pending) \in Seq(Tokens) /\ Len(Tail(pending)) = Len(pending) - 1
      /\ history \o pending = Append(history, Head(pending)) \o Tail(pending)
    BY <1>1, TokenMoves
<1>5. Types'
  <2>1. 0 \in 0..Layers
      BY SessionAssumption
  <2> QED
      BY <1>2, <1>3, <1>4, <2>1 DEF IInv, Types, Commit
<1>6. CallSound'
  <2>1. Len(history') + Len(pending') + budget' <= ContextLength
    <3>1. Len(history) \in Nat /\ Len(pending) \in Nat
        BY <1>1, LenProperties
    <3> QED
        BY <1>1, <1>3, <1>4, <3>1, SessionAssumption
  <2> QED
      BY <1>1, <1>2, <2>1 DEF CallSound, Commit
<1>7. PromptIsPrefix'
    BY <1>1, <1>4 DEF PromptIsPrefix, Commit
<1> QED
    BY <1>3, <1>5, <1>6, <1>7, SnapshotsKept DEF IInv

\* A sampled token extends a history that starts with the prompt.
LEMMA SampledTokenRecorded ==
    ASSUME IInv, phase = "evalNew", layer = Layers, Commit, phase' \in {"decode", "idle"}
    PROVE  /\ history' \in Seq(Tokens) /\ Len(history') = Len(history) + 1
           /\ position' \in 0..ContextLength /\ StateInStep' /\ LogitsCurrent' /\ ~Evaluating'
           /\ StartsWith(history', prompt)
<1>1. /\ history \in Seq(Tokens) /\ pending \in Seq(Tokens) /\ pending # <<>>
      /\ prompt \in Seq(Tokens) /\ StartsWith(history, prompt)
    BY DEF IInv, Types, CallSound, PromptIsPrefix, Evaluating
<1>2. Evaluating /\ ~Evaluating'
    BY DEF Evaluating
<1>3. StartsWith(history', prompt)
    BY <1>1, HeadTailProperties, StillStarts DEF Commit
<1> QED
    BY <1>2, <1>3, Records

LEMMA StopTokenDoneStep ==
    ASSUME IInv, StopTokenDone
    PROVE  IInv'
<1> USE DEF StopTokenDone
<1>1. /\ history' \in Seq(Tokens) /\ position' \in 0..ContextLength
      /\ StateInStep' /\ LogitsCurrent' /\ ~Evaluating' /\ StartsWith(history', prompt)
      /\ prompt' = prompt /\ phase' = "idle" /\ layer' = 0
    BY SampledTokenRecorded DEF Commit
<1>2. result' \in Results
    BY DEF Flushed, Results
<1>3. Types'
  <2>1. <<>> \in Seq(Tokens) /\ 0 \in 0..MaxNew /\ 0 \in 0..Layers
      BY EmptySeq, SessionAssumption
  <2> QED
      BY <1>1, <1>2, <2>1 DEF IInv, Types, Commit
<1>4. CallSound' /\ PromptIsPrefix'
    BY <1>1 DEF CallSound, PromptIsPrefix, StartsWith
<1> QED
    BY <1>1, <1>3, <1>4, SnapshotsKept DEF IInv

LEMMA NewTokenDoneStep ==
    ASSUME IInv, NewTokenDone
    PROVE  IInv'
<1> USE DEF NewTokenDone
<1>1. /\ history' \in Seq(Tokens) /\ Len(history') = Len(history) + 1
      /\ position' \in 0..ContextLength
      /\ StateInStep' /\ LogitsCurrent' /\ ~Evaluating' /\ StartsWith(history', prompt)
      /\ prompt' = prompt /\ phase' \in {"idle", "decode"} /\ layer' = 0
    BY SampledTokenRecorded DEF Commit
<1>2. /\ budget \in Nat /\ budget > 0 /\ Len(history) + budget <= ContextLength
      /\ Len(history) \in Nat /\ healthy
    BY LenProperties, SessionAssumption DEF IInv, Types, CallSound
<1>3. result' \in Results
    BY DEF IInv, Types, Results
<1>4. budget' \in 0..MaxNew
    BY <1>2, SessionAssumption DEF IInv, Types
<1>5. Types'
  <2>1. <<>> \in Seq(Tokens) /\ 0 \in 0..Layers
      BY EmptySeq, SessionAssumption
  <2> QED
      BY <1>1, <1>3, <1>4, <2>1 DEF IInv, Types, Commit
<1>6. CallSound'
  <2>1. CASE phase' = "idle"
      BY <1>1, <2>1 DEF CallSound
  <2>2. CASE phase' = "decode"
    <3>1. budget' = budget - 1
        BY <2>2
    <3>2. Len(history') + budget' <= ContextLength
        BY <1>1, <1>2, <3>1, SessionAssumption
    <3> QED
        BY <1>1, <1>2, <2>2, <3>2 DEF CallSound, Commit
  <2> QED
      BY <1>1, <2>1, <2>2
<1>7. PromptIsPrefix'
    BY <1>1 DEF PromptIsPrefix, StartsWith
<1> QED
    BY <1>1, <1>5, <1>6, <1>7, SnapshotsKept DEF IInv

\* Only a session that can be continued is exported.
LEMMA ExportStep ==
    ASSUME IInv, ExportSession
    PROVE  IInv'
<1> USE DEF ExportSession, sessionVars, callVars
<1> DEFINE s == [history |-> history, logits |-> logits, hasLogits |-> hasLogits, kv |-> kv]
<1>1. Types'
    BY DEF IInv, Types
<1>2. Evaluating' = Evaluating /\ ~Evaluating
    BY DEF Evaluating
<1>3. StateInStep' /\ LogitsCurrent'
    BY <1>2 DEF IInv, StateInStep, LogitsCurrent, LayerIds
<1>4. CallSound'
    BY <1>2 DEF IInv, CallSound
<1>5. PromptIsPrefix'
    BY DEF IInv, PromptIsPrefix, StartsWith
<1>6. SnapshotSound(s)
  <2>1. /\ history \in Seq(Tokens) /\ Len(history) \in Nat /\ Len(history) <= ContextLength
        /\ kv \in [LayerIds -> Seq(Tokens)] /\ hasLogits \in BOOLEAN
      BY LenProperties, SessionAssumption DEF IInv, Types, StateInStep
  <2>2. \A l \in LayerIds : kv[l] = history
      BY <1>2 DEF IInv, StateInStep
  <2>3. hasLogits = (Len(history) > 0)
    <3>1. Len(history) > 0 <=> history # <<>>
        BY <2>1, EmptySeq
    <3>2. hasLogits => history # <<>>
        BY DEF IInv, LogitsCurrent
    <3>3. history # <<>> => hasLogits
        BY DEF IInv, LogitsCurrent, Exportable
    <3> QED
        BY <2>1, <3>1, <3>2, <3>3
  <2>4. hasLogits => logits = history
      BY DEF IInv, LogitsCurrent
  <2> QED
      BY <2>1, <2>2, <2>3, <2>4 DEF SnapshotSound
<1>7. snapshot' = {s}
    OBVIOUS
<1> HIDE DEF s
<1>8. \A x \in snapshot' : SnapshotSound(x)
    BY <1>6, <1>7
<1>9. (\A x \in snapshot : SnapshotSound(x))'
    BY <1>8 DEF SnapshotSound, LayerIds
<1> QED
    BY <1>1, <1>3, <1>4, <1>5, <1>9 DEF IInv

LEMMA RestoreStep ==
    ASSUME IInv, RestoreSession
    PROVE  IInv'
<1> USE DEF RestoreSession
<1>1. PICK s \in snapshot :
          /\ history' = s.history /\ position' = Len(s.history) /\ kv' = s.kv
          /\ logits' = s.logits /\ hasLogits' = s.hasLogits
    OBVIOUS
<1>2. SnapshotSound(s)
    BY DEF IInv
<1>3. /\ history' \in Seq(Tokens) /\ position' = Len(history') /\ position' \in 0..ContextLength
      /\ kv' \in [LayerIds -> Seq(Tokens)] /\ \A l \in LayerIds : kv'[l] = history'
      /\ hasLogits' \in BOOLEAN /\ hasLogits' = (Len(history') > 0)
      /\ hasLogits' => logits' = history'
  <2>1. Len(s.history) \in Nat
      BY <1>2, LenProperties DEF SnapshotSound
  <2> QED
      BY <1>1, <1>2, <2>1, SessionAssumption DEF SnapshotSound
<1>4. /\ phase = "idle" /\ healthy' = TRUE /\ prompt' = <<>> /\ result' = "none"
      /\ UNCHANGED <<phase, pending, budget, layer, cancelled, snapshot>> /\ ~Evaluating /\ ~Evaluating'
    BY DEF Evaluating
<1>5. Types'
  <2>1. <<>> \in Seq(Tokens) /\ "none" \in Results
      BY EmptySeq DEF Results
  <2> QED
      BY <1>3, <1>4, <2>1 DEF IInv, Types
<1>6. StateInStep'
    BY <1>3, <1>4 DEF StateInStep, LayerIds
<1>7. LogitsCurrent'
  <2>1. hasLogits' <=> history' # <<>>
    <3>1. Len(history') > 0 <=> history' # <<>>
        BY <1>3, EmptySeq
    <3> QED
        BY <1>3, <3>1
  <2> QED
      BY <1>3, <1>4, <2>1 DEF LogitsCurrent
<1>8. CallSound' /\ PromptIsPrefix'
    BY <1>4 DEF IInv, CallSound, PromptIsPrefix
<1> QED
    BY <1>4, <1>5, <1>6, <1>7, <1>8, SnapshotsKept DEF IInv

LEMMA StutterStep ==
    ASSUME IInv, UNCHANGED vars
    PROVE  IInv'
<1> USE DEF vars, sessionVars, callVars
<1>1. Evaluating' = Evaluating
    BY DEF Evaluating
<1>2. Types' /\ LogitsCurrent' /\ CallSound'
    BY <1>1 DEF IInv, Types, LogitsCurrent, CallSound
<1>3. StateInStep' /\ PromptIsPrefix'
    BY <1>1 DEF IInv, StateInStep, PromptIsPrefix, StartsWith, LayerIds
<1> QED
    BY <1>2, <1>3, SnapshotsKept DEF IInv

LEMMA NextIInv == IInv /\ [Next]_vars => IInv'
<1> SUFFICES ASSUME IInv, [Next]_vars PROVE IInv'
    OBVIOUS
<1>1. CASE Engine
    BY <1>1, StartStepStep, PrefillStepStep, DecodeStepStep, LayerStepStep, EvaluateFailsStep,
       PromptTokenDoneStep, StopTokenDoneStep, NewTokenDoneStep
    DEF Engine
<1>2. CASE \E p \in Prompts, maxNew \in 0..MaxNew, valid \in BOOLEAN : Complete(p, maxNew, valid)
    BY <1>2, CompleteStep
<1> QED
    BY <1>1, <1>2, CancelStep, ExportStep, RestoreStep, StutterStep DEF Next

LEMMA Invariance == Spec => []IInv
    BY InitIInv, NextIInv, PTL DEF Spec

-----------------------------------------------------------------------------
(* The results. *)

\* The session is in one state, not four: after failures, cancellations, resets
\* and restores, history, position and the rows of every layer agree, and the
\* logits a token is sampled from are those of the whole history.
THEOREM SessionStaysConsistent == Spec => []SessionConsistent
<1>1. IInv => SessionConsistent
    BY DEF IInv, Types, SessionConsistent, TypeOK
<1> QED
    BY <1>1, Invariance, PTL

\* Every session that export_session writes passes every check of
\* restore_session, and its rows and logits are those of its history.
THEOREM ExportsRestore == Spec => []SnapshotsRestorable
<1>1. IInv => SnapshotsRestorable
    BY DEF IInv, SnapshotSound, SnapshotsRestorable, Restorable, Uniform
<1> QED
    BY <1>1, Invariance, PTL

\* The reuse of a cached prefix never mixes two conversations: what is cached and
\* what is left to evaluate is exactly the prompt, whatever the last call left.
THEOREM PrefixReuseSound == Spec => []PromptIsPrefix
<1>1. IInv => PromptIsPrefix
    BY DEF IInv
<1> QED
    BY <1>1, Invariance, PTL

\* A cancelled call finishes the token in flight and evaluates no other.
THEOREM CancelIsPrompt == Spec => CancelStopsEvaluation
<1>1. ASSUME IInv, [Next]_vars
      PROVE  [cancelled /\ ~Evaluating => ~Evaluating']_vars
  <2> SUFFICES ASSUME Next, cancelled, ~Evaluating PROVE ~Evaluating'
      BY <1>1
  <2> USE DEF Evaluating
  <2>1. budget = 0 \/ budget > 0
      BY <1>1, SessionAssumption DEF IInv, Types
  <2>2. CASE Engine
    <3>1. CASE DecodeStep
        BY <2>1, <3>1 DEF DecodeStep, StopCancelled, Finish, Return
    <3>2. CASE StartStep \/ PrefillStep
        BY <3>2 DEF StartStep, PrefillStep, StopCancelled, Finish, Return, GoTo
    <3> QED
        BY <2>2, <3>1, <3>2 DEF Engine, LayerStep, EvaluateFails, PromptTokenDone, StopTokenDone, NewTokenDone
  <2>3. CASE \E p \in Prompts, maxNew \in 0..MaxNew, valid \in BOOLEAN : Complete(p, maxNew, valid)
      BY <2>3 DEF Complete
  <2>4. CASE Cancel \/ ExportSession \/ RestoreSession
      BY <2>4 DEF Cancel, ExportSession, RestoreSession, callVars
  <2> QED
      BY <2>2, <2>3, <2>4 DEF Next
<1> QED
    BY <1>1, Invariance, PTL DEF Spec, CancelStopsEvaluation
=============================================================================
