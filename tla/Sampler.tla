------------------------------ MODULE Sampler ------------------------------
(***************************************************************************)
(* Sampler of bridge-runtime: repetition penalty, greedy choice, top-k,    *)
(* infinite logits, top-p and the draw, over calls that reuse the          *)
(* sampler's buffers.                                                      *)
(*                                                                         *)
(* Logits are integers between NegInf and PosInf, or Nan; penalties are    *)
(* fractions, top_p is in tenths.  exp is a power of two that falls to     *)
(* zero, so that weights are integers and the random number, scaled by     *)
(* their sum, is one too.                                                  *)
(***************************************************************************)
EXTENDS Integers, FiniteSetsExt, SequencesExt

CONSTANTS Vocabulary,       \* vocabulary_size
          SamplingConfigs,  \* requests' settings
          LogitVectors,     \* logits a model may produce
          Histories,        \* token sequences before the call
          CalledTwice       \* bound: settings under which a sampler is called again

VARIABLES sampler,  \* its config and buffers, or unused
          call      \* the last call: logits, history and result

samplerVars == <<sampler, call>>

Tokens == 0..(Vocabulary - 1)
NegInf == -1000
PosInf == 1000
Nan == 9999

NoToken == -1  \* an error instead of a token

NoCall == [logits |-> [t \in Tokens |-> 0], history |-> <<>>, result |-> NoToken, count |-> 0]
SamplerIdle == sampler = [made |-> FALSE] /\ call = NoCall

-----------------------------------------------------------------------------

\* SamplingConfig::validate.
ConfigValid(c) ==
    /\ Vocabulary > 0
    /\ c.temperature >= 0
    /\ c.topP \in 1..10
    /\ c.penalty[1] > 0
    /\ \A t \in c.stopTokens : t < Vocabulary

NewSampler(c) ==
    /\ ~sampler.made
    /\ ConfigValid(c)
    /\ sampler' = [made |-> TRUE, config |-> c, repeated |-> {}]
    /\ UNCHANGED call

\* The tokens of the window; none outside the vocabulary.
Window(c, history) ==
    IF c.penalty[1] = c.penalty[2] \/ c.repeatLastN = 0 THEN {}
    ELSE LET start == Max({0, Len(history) - c.repeatLastN})
         IN  {history[i] : i \in (start + 1)..Len(history)} \cap Tokens

\* Mutant: marks of earlier calls stay.
StaleMarks(marks, c, history) == marks \cup Window(c, history)
\* fill(false), then the window.
Marks(marks, c, history) == Window(c, history)

\* apply_repetition_penalty.
Penalised(logit, penalty) ==
    IF logit \in {NegInf, PosInf} THEN logit
    ELSE IF logit < 0 THEN (logit * penalty[1]) \div penalty[2]
    ELSE (logit * penalty[2]) \div penalty[1]

Effective(c, logits, marks) ==
    [t \in Tokens |-> IF t \in marks THEN Penalised(logits[t], c.penalty) ELSE logits[t]]

\* The candidates, best first, ties by token.
Beats(logit, a, b) == logit[a] > logit[b] \/ (logit[a] = logit[b] /\ a < b)
Sorted(logit) ==
    CHOOSE order \in [1..Vocabulary -> Tokens] :
        \A i, j \in 1..Vocabulary : i < j => Beats(logit, order[i], order[j])

TopK(c, n) == IF c.topK = 0 THEN n ELSE Min({c.topK, n})

Exp(difference) == IF difference > 4 THEN 0 ELSE 2^(4 - difference)

\* Infinite logits share the draw; otherwise exp((logit - maximum) / temperature).
WeightOf(logit, maximum, c) ==
    IF maximum = PosInf THEN (IF logit = PosInf THEN 1 ELSE 0)
    ELSE Exp((maximum - logit) \div c.temperature)

Mass(order, logit, c) ==
    LET maximum == logit[order[1]]
        mass[i \in 0..Len(order)] ==
            IF i = 0 THEN 0 ELSE mass[i - 1] + WeightOf(logit[order[i]], maximum, c)
    IN  mass

\* apply_top_p: how many candidates stay.
Nucleus(mass, n, c) ==
    IF c.topP = 10 \/ n <= 1 THEN n
    ELSE Min({i \in 1..n : mass[i] * 10 >= mass[n] * c.topP})

\* The candidates that weights are given to: top_k of them, or the infinite ones.
Candidates(c, logit) ==
    LET all == Sorted(logit)
        kept == SubSeq(all, 1, TopK(c, Len(all)))
        infinite == Cardinality({i \in DOMAIN kept : logit[kept[i]] = PosInf})
    IN  IF infinite > 0 THEN SubSeq(kept, 1, infinite) ELSE kept

HasNan(logits) == \E t \in Tokens : logits[t] = Nan

\* What a call may return, over all random numbers.
Draws(c, logits, marks) ==
    LET logit == Effective(c, logits, marks)
        best == Sorted(logit)[1]
        order == Candidates(c, logit)
        mass == Mass(order, logit, c)
        n == Nucleus(mass, Len(order), c)
    IN  IF HasNan(logits) \/ logit[best] = NegInf THEN {NoToken}
        ELSE IF c.temperature = 0 THEN {best}
        ELSE { order[Min({i \in 1..n : target < mass[i]})] : target \in 0..(mass[n] - 1) }

Sample(logits, history) ==
    /\ sampler.made
    /\ call.count < IF sampler.config \in CalledTwice THEN 2 ELSE 1
    /\ LET marks == IF HasNan(logits) THEN sampler.repeated
                    ELSE Marks(sampler.repeated, sampler.config, history) IN
       /\ sampler' = [sampler EXCEPT !.repeated = marks]
       /\ \E token \in Draws(sampler.config, logits, marks) :
             call' = [logits |-> logits, history |-> history, result |-> token,
                      count |-> call.count + 1]

SamplerNext ==
    \/ \E c \in SamplingConfigs : NewSampler(c)
    \/ \E logits \in LogitVectors, history \in Histories : Sample(logits, history)

SamplerSpec == SamplerIdle /\ [][SamplerNext]_samplerVars

Logits == NegInf..PosInf

\* Settings are numbers, and penalties leave finite logits finite.
ASSUME SamplerAssumption ==
    /\ Vocabulary \in Nat
    /\ \A c \in SamplingConfigs :
          /\ c.temperature \in Int /\ c.topP \in Int /\ {c.topK, c.repeatLastN} \subseteq Nat
          /\ c.penalty[1] \in Nat /\ c.penalty[2] \in Nat \ {0}
    /\ LogitVectors \subseteq [Tokens -> Logits \cup {Nan}] /\ Histories \subseteq Seq(Nat)
    /\ \A c \in SamplingConfigs, logits \in LogitVectors : \A t \in Tokens :
          c.penalty[1] > 0 /\ logits[t] \in Logits \ {NegInf, PosInf} =>
             Penalised(logits[t], c.penalty) \in Logits \ {NegInf, PosInf}

-----------------------------------------------------------------------------
(* Properties. *)

\* The logits of a call, with those of the last tokens penalised.
Penalties(c, logits, history) ==
    LET recent == IF history = <<>> \/ c.repeatLastN = 0 THEN {}
                  ELSE {history[i] : i \in Max({1, Len(history) - c.repeatLastN + 1})..Len(history)}
    IN  [t \in Tokens |-> IF t \in recent THEN Penalised(logits[t], c.penalty) ELSE logits[t]]

\* Which tokens beat one, which are beaten by fewer than top_k, and what the
\* likely ones of a set weigh.
Better(logit, t) == {a \in Tokens : Beats(logit, a, t)}
Likely(c, logit) == {t \in Tokens : c.topK = 0 \/ Cardinality(Better(logit, t)) < c.topK}
Highest(logit) == Max({logit[t] : t \in Tokens})
MassOf(c, logit, S) ==
    MapThenSumSet(LAMBDA t : WeightOf(logit[t], Highest(logit), c), S \cap Likely(c, logit))

\* The reference, without sorting, buffers or random numbers: a token may come
\* out if fewer than top_k tokens beat it, its weight is not zero, and the mass
\* of those that beat it is below top_p of the whole.
MayDraw(c, logits, history, token) ==
    LET logit == Penalties(c, logits, history)
    IN  IF c.temperature = 0 THEN Better(logit, token) = {} /\ logit[token] # NegInf
        ELSE /\ token \in Likely(c, logit)
             /\ Highest(logit) # NegInf
             /\ WeightOf(logit[token], Highest(logit), c) > 0
             /\ MassOf(c, logit, Better(logit, token)) * 10 < MassOf(c, logit, Tokens) * c.topP

\* A call returns what its own logits, history and settings allow, and exactly
\* that: nothing of earlier calls of the same sampler shows, no impossible token
\* comes out of an infinite, tied or underflowing distribution, and it fails
\* only where the logits leave no choice.
DrawsExactlyAllowed ==
    call.count > 0 =>
        LET c == sampler.config
            allowed == {t \in Tokens : MayDraw(c, call.logits, call.history, t)}
        IN  IF HasNan(call.logits) THEN call.result = NoToken
            ELSE /\ call.result \in allowed \cup {NoToken}
                 /\ (call.result = NoToken) = (\A t \in Tokens : call.logits[t] = NegInf)
                 /\ Draws(c, call.logits, sampler.repeated) \ {NoToken} = allowed
=============================================================================
