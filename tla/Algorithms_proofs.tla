-------------------------- MODULE Algorithms_proofs --------------------------
(***************************************************************************)
(* Proofs about the components that only transform their input.            *)
(*                                                                         *)
(* StopFilter: for every alphabet, every set of stop sequences and every   *)
(* way of cutting the text into chunks, the filter shows what truncation   *)
(* at the first stop sequence shows, as early as it can.                   *)
(* GgufReader: for every file and all limits, the reader accepts exactly   *)
(* the valid files, and strings held are paid for by bytes read.           *)
(* ModelOpening: what was opened is what was hashed, and what plan, loader *)
(* and first token take is what the preflight counts.                      *)
(* ShardSet: sets found agree with their files.                            *)
(* Hy3Model: for every profile and every set of shards, validation accepts *)
(* exactly what conforms, and a generated schema is a valid one.           *)
(* Sampler: a call returns what its logits, history and settings allow.    *)
(***************************************************************************)
EXTENDS StopFilter, ModelOpening, ShardSet, Sampler, SequenceTheorems, FiniteSetTheorems,
        WellFoundedInduction, TLAPS

-----------------------------------------------------------------------------
(* Numbers. *)

\* Every nonempty set of naturals has a least element.
LEMMA LeastNatural ==
   ASSUME NEW S \in SUBSET Nat, S # {}
   PROVE  Min(S) \in S /\ \A n \in S : Min(S) <= n
<1> DEFINE R == {p \in Nat \X Nat : p[1] < p[2]}
<1>1. IsWellFoundedOn(R, Nat)
  <2>1. OpToRel(<, Nat) = R
    BY DEF OpToRel
  <2> QED
    BY NatLessThanWellFounded, <2>1
<1>2. PICK m \in S : \A n \in S : ~(<<n, m>> \in R)
    BY <1>1, WFMin
<1>3. ASSUME NEW n \in S PROVE m <= n
  <2>1. m \in Nat /\ n \in Nat /\ ~(n < m)
    BY <1>2
  <2> QED
    BY <2>1
<1> QED
    BY <1>3 DEF Min

\* Every nonempty set of naturals with a bound has a greatest.
LEMMA GreatestNatural ==
   ASSUME NEW S \in SUBSET Nat, S # {}, NEW b \in Nat, \A n \in S : n <= b
   PROVE  Max(S) \in S /\ \A n \in S : n <= Max(S)
<1> DEFINE D == {b - n : n \in S}
<1>1. D \in SUBSET Nat /\ D # {}
  <2>1. ASSUME NEW n \in S PROVE b - n \in Nat
    <3>1. n \in Nat /\ n <= b
      OBVIOUS
    <3> QED
      BY <3>1
  <2>2. PICK n \in S : TRUE
    OBVIOUS
  <2> QED
    BY <2>1, <2>2
<1>2. Min(D) \in D /\ \A d \in D : Min(D) <= d
  BY <1>1, LeastNatural
<1> HIDE DEF D
<1>3. PICK m \in S : Min(D) = b - m
  BY <1>2 DEF D
<1>4. ASSUME NEW n \in S PROVE m >= n
  <2>1. m \in Nat /\ n \in Nat /\ b - m <= b - n
    BY <1>2, <1>3 DEF D
  <2> QED
    BY <2>1
<1> QED
  BY <1>4 DEF Max

-----------------------------------------------------------------------------
(* StopFilter, character by character. *)

\* The stop sequence s stands in the text from i on.
StandsAt(text, s, i) ==
    i + Len(s) <= Len(text) /\ \A j \in 1..Len(s) : text[i + j] = s[j]

\* The text is a beginning of s.
Begins(text, s) == Len(text) <= Len(s) /\ \A j \in 1..Len(text) : text[j] = s[j]

\* What SubSeq of a sequence is, element by element.
LEMMA SubSeqIs ==
    ASSUME NEW text \in Seq(Chars), NEW i \in Nat, NEW n \in Nat, i + n <= Len(text)
    PROVE  /\ SubSeq(text, i + 1, i + n) \in Seq(Chars)
           /\ Len(SubSeq(text, i + 1, i + n)) = n
           /\ \A j \in 1..n : SubSeq(text, i + 1, i + n)[j] = text[i + j]
<1> DEFINE c == SubSeq(text, i + 1, i + n)
           first == i + 1
           last == i + n
<1>1. \A p \in first..last : text[p] \in Chars
  OBVIOUS
<1>2. c = SubSeq(text, first, last) /\ first \in Int /\ last \in Int
  OBVIOUS
<1> HIDE DEF c, first, last
<1>a. /\ c \in Seq(Chars)
      /\ Len(c) = IF first <= last THEN last - first + 1 ELSE 0
      /\ \A j \in 1..(last - first + 1) : c[j] = text[first + j - 1]
  BY <1>1, <1>2, SubSeqProperties
<1>3. /\ c \in Seq(Chars)
      /\ Len(c) = IF i + 1 <= i + n THEN i + n - (i + 1) + 1 ELSE 0
      /\ \A j \in 1..(i + n - (i + 1) + 1) : c[j] = text[(i + 1) + j - 1]
  BY <1>a DEF first, last
<1>4. \A j \in 1..n : (i + 1) + j - 1 = i + j
  OBVIOUS
<1>5. i + n - (i + 1) + 1 = n /\ (n = 0 <=> ~(i + 1 <= i + n))
  OBVIOUS
<1> QED
  BY <1>3, <1>4, <1>5 DEF c

\* The beginning of a text.
LEMMA FrontIs ==
    ASSUME NEW text \in Seq(Chars), NEW n \in 0..Len(text)
    PROVE  /\ SubSeq(text, 1, n) \in Seq(Chars)
           /\ Len(SubSeq(text, 1, n)) = n
           /\ \A j \in 1..n : SubSeq(text, 1, n)[j] = text[j]
<1>1. 0 \in Nat /\ n \in Nat /\ 0 + n <= Len(text) /\ 0 + 1 = 1 /\ 0 + n = n
  OBVIOUS
<1>2. \A j \in 1..n : 0 + j = j
  OBVIOUS
<1>3. /\ SubSeq(text, 0 + 1, 0 + n) \in Seq(Chars)
      /\ Len(SubSeq(text, 0 + 1, 0 + n)) = n
      /\ \A j \in 1..n : SubSeq(text, 0 + 1, 0 + n)[j] = text[0 + j]
  BY <1>1, SubSeqIs
<1> QED
  BY <1>1, <1>2, <1>3

\* The end of a text.
LEMMA LastIs ==
    ASSUME NEW text \in Seq(Chars), NEW n \in 0..Len(text)
    PROVE  /\ Last_(text, n) \in Seq(Chars)
           /\ Len(Last_(text, n)) = n
           /\ \A j \in 1..n : Last_(text, n)[j] = text[Len(text) - n + j]
<1> DEFINE i == Len(text) - n
<1>1. i \in Nat /\ n \in Nat /\ i + n <= Len(text) /\ i + n = Len(text)
  OBVIOUS
<1>2. Last_(text, n) = SubSeq(text, i + 1, Len(text))
  BY DEF Last_
<1> HIDE DEF i
<1>3. /\ SubSeq(text, i + 1, i + n) \in Seq(Chars)
      /\ Len(SubSeq(text, i + 1, i + n)) = n
      /\ \A j \in 1..n : SubSeq(text, i + 1, i + n)[j] = text[i + j]
  BY <1>1, SubSeqIs
<1> QED
  BY <1>1, <1>2, <1>3 DEF i

\* Matches finds where stop sequences stand.
LEMMA MatchesAre ==
    ASSUME stops \in StopSets, NEW text \in Seq(Chars)
    PROVE  /\ Matches(text) \in SUBSET Nat
           /\ \A i \in Nat : i \in Matches(text) <=> \E s \in stops : StandsAt(text, s, i)
<1>1. ASSUME NEW s \in stops, NEW i \in Nat
      PROVE  i \in 0..Len(text) /\ i + Len(s) <= Len(text) /\ SubSeq(text, i + 1, i + Len(s)) = s
             <=> StandsAt(text, s, i)
  <2>1. s \in Seq(Chars) /\ Len(s) \in Nat
    BY FilterAssumption
  <2>2. CASE i + Len(s) <= Len(text)
    <3> DEFINE c == SubSeq(text, i + 1, i + Len(s))
    <3>1. c \in Seq(Chars) /\ Len(c) = Len(s) /\ \A j \in 1..Len(s) : c[j] = text[i + j]
      BY <2>1, <2>2, SubSeqIs
    <3> HIDE DEF c
    <3>2. c = s <=> \A j \in 1..Len(s) : text[i + j] = s[j]
      <4>1. (\A j \in 1..Len(c) : c[j] = s[j]) => c = s
        BY <2>1, <3>1, SeqEqual
      <4> QED
        BY <3>1, <4>1
    <3>3. i \in 0..Len(text)
      BY <2>1, <2>2
    <3> QED
      BY <2>2, <3>2, <3>3 DEF StandsAt, c
  <2>3. CASE ~(i + Len(s) <= Len(text))
    BY <2>3 DEF StandsAt
  <2> QED
    BY <2>2, <2>3
<1>2. Matches(text) \in SUBSET Nat
  BY DEF Matches
<1>3. ASSUME NEW i \in Nat PROVE i \in Matches(text) <=> \E s \in stops : StandsAt(text, s, i)
  <2>1. i \in Matches(text) <=> \E s \in stops :
           i \in 0..Len(text) /\ i + Len(s) <= Len(text) /\ SubSeq(text, i + 1, i + Len(s)) = s
    BY DEF Matches
  <2> QED
    BY <1>1, <2>1
<1> QED
  BY <1>2, <1>3

\* IsStopPrefix asks for a beginning of a stop sequence.
LEMMA PrefixIs ==
    ASSUME stops \in StopSets, NEW text \in Seq(Chars)
    PROVE  IsStopPrefix(text) <=> \E s \in stops : Begins(text, s)
<1>1. ASSUME NEW s \in stops
      PROVE  Len(text) <= Len(s) /\ text = SubSeq(s, 1, Len(text)) <=> Begins(text, s)
  <2>1. s \in Seq(Chars)
    BY FilterAssumption
  <2>2. CASE Len(text) <= Len(s)
    <3> DEFINE c == SubSeq(s, 1, Len(text))
    <3>1. c \in Seq(Chars) /\ Len(c) = Len(text) /\ \A j \in 1..Len(text) : c[j] = s[j]
      <4>1. Len(text) \in 0..Len(s)
        BY <2>1, <2>2
      <4> QED
        BY <2>1, <4>1, FrontIs
    <3> HIDE DEF c
    <3>2. (\A j \in 1..Len(text) : text[j] = c[j]) => text = c
      BY <3>1, SeqEqual
    <3> QED
      BY <2>2, <3>1, <3>2 DEF Begins, c
  <2>3. CASE ~(Len(text) <= Len(s))
    BY <2>3 DEF Begins
  <2> QED
    BY <2>2, <2>3
<1> QED
  BY <1>1 DEF IsStopPrefix

\* Held finds the longest end that begins a stop sequence.
LEMMA HeldIs ==
    ASSUME NEW text \in Seq(Chars)
    PROVE  /\ Held(text) \in 0..Len(text)
           /\ Held(text) > 0 => IsStopPrefix(Last_(text, Held(text)))
           /\ \A n \in (Held(text) + 1)..Len(text) : ~IsStopPrefix(Last_(text, n))
<1> DEFINE S == {0} \cup {n \in 1..Len(text) : IsStopPrefix(Last_(text, n))}
<1>1. S \in SUBSET Nat /\ S # {} /\ Len(text) \in Nat /\ \A n \in S : n <= Len(text)
  OBVIOUS
<1>2. Max(S) \in S /\ \A n \in S : n <= Max(S)
  BY <1>1, GreatestNatural
<1>3. Held(text) = Max(S)
  BY DEF Held
<1> DEFINE h == Max(S)
<1>4. h \in S /\ (\A n \in S : n <= h) /\ h \in Nat
  BY <1>1, <1>2
<1> HIDE DEF h
<1>5. ASSUME NEW n \in (h + 1)..Len(text) PROVE ~IsStopPrefix(Last_(text, n))
  BY <1>4
<1> QED
  BY <1>3, <1>4, <1>5 DEF h

\* The text before the first match.
LEMMA TruncatedIs ==
    ASSUME stops \in StopSets, NEW text \in Seq(Chars), Matches(text) # {}
    PROVE  /\ Min(Matches(text)) \in Matches(text)
           /\ \A i \in Matches(text) : Min(Matches(text)) <= i
           /\ Min(Matches(text)) \in 0..Len(text)
           /\ Truncated(text) = SubSeq(text, 1, Min(Matches(text)))
<1>1. Min(Matches(text)) \in Matches(text) /\ \A i \in Matches(text) : Min(Matches(text)) <= i
  BY MatchesAre, LeastNatural
<1>2. Matches(text) \subseteq 0..Len(text)
  BY DEF Matches
<1> QED
  BY <1>1, <1>2 DEF Truncated

\* What an open filter has shown and what it holds back make up what it was
\* fed; it holds back the longest end that begins a stop sequence, so a stop
\* sequence that ends in a later chunk begins in what is held back.
FilterInv ==
    /\ stops \in StopSets
    /\ fed \in Seq(Chars) /\ shown \in Seq(Chars) /\ pending \in Seq(Chars)
    /\ state \in {"open", "stopped", "finished"}
    /\ state = "open" =>
          /\ shown \o pending = fed
          /\ pending # <<>> => IsStopPrefix(pending)
          /\ \A n \in (Len(pending) + 1)..Len(fed) : ~IsStopPrefix(Last_(fed, n))
    /\ state = "stopped" => Matches(fed) # {}
    /\ state # "stopped" => Matches(fed) = {}
    /\ state # "open" => shown = Truncated(fed)

\* Nothing was pushed: no stop sequence is empty.
LEMMA FilterInitInv == Init => FilterInv
<1> SUFFICES ASSUME Init PROVE FilterInv
  OBVIOUS
<1>1. <<>> \in Seq(Chars) /\ Len(<<>>) = 0 /\ <<>> \o <<>> = <<>>
  OBVIOUS
<1>2. Matches(fed) = {}
  <2>1. fed = <<>> /\ stops \in StopSets
    BY DEF Init
  <2>2. ASSUME NEW s \in stops, NEW i \in Nat PROVE ~StandsAt(fed, s, i)
    <3>1. s \in Seq(Chars) /\ s # <<>>
      BY <2>1, FilterAssumption
    <3>2. Len(s) \in Nat /\ Len(s) > 0
      BY <3>1, EmptySeq
    <3> QED
      BY <1>1, <2>1, <3>2 DEF StandsAt
  <2> QED
    BY <1>1, <2>1, <2>2, MatchesAre
<1> QED
  BY <1>1, <1>2 DEF Init, FilterInv

\* A chunk: a stop sequence in the whole text stands in what was held back and
\* the chunk, at the same place.
LEMMA PushMatches ==
    ASSUME FilterInv, state = "open", NEW chunk \in Seq(Chars)
    PROVE  LET text == pending \o chunk
               all  == fed \o chunk
               b    == Len(shown) IN
           /\ text \in Seq(Chars) /\ all \in Seq(Chars) /\ b \in Nat
           /\ all = shown \o text /\ Len(all) = b + Len(text)
           /\ \A p \in 1..Len(text) : all[b + p] = text[p]
           /\ \A p \in 1..b : all[p] = shown[p]
           /\ \A i \in Matches(all) : i >= b /\ i - b \in Matches(text)
           /\ \A i \in Matches(text) : b + i \in Matches(all)
<1> DEFINE text == pending \o chunk
           all  == fed \o chunk
           b    == Len(shown)
<1>1. /\ fed \in Seq(Chars) /\ shown \in Seq(Chars) /\ pending \in Seq(Chars)
      /\ stops \in StopSets /\ shown \o pending = fed /\ Matches(fed) = {}
      /\ \A n \in (Len(pending) + 1)..Len(fed) : ~IsStopPrefix(Last_(fed, n))
  BY DEF FilterInv
<1>2. /\ text \in Seq(Chars) /\ Len(text) = Len(pending) + Len(chunk)
      /\ all \in Seq(Chars) /\ Len(all) = Len(fed) + Len(chunk)
      /\ Len(fed) = b + Len(pending)
      /\ b \in Nat /\ Len(pending) \in Nat /\ Len(chunk) \in Nat
      /\ \A p \in 1..Len(fed) : all[p] = fed[p]
  BY <1>1, ConcatProperties
<1>3. all = shown \o text
  <2>1. (shown \o pending) \o chunk = shown \o (pending \o chunk)
    <3>1. shown \in Seq(Chars) /\ pending \in Seq(Chars)
      BY <1>1
    <3> QED
      BY <3>1, ConcatAssociative
  <2> QED
    BY <1>1, <2>1
<1> HIDE DEF text, all, b
<1>4. /\ \A p \in 1..b : all[p] = shown[p]
      /\ \A p \in 1..Len(text) : all[b + p] = text[p]
  <2>1. /\ \A p \in 1..Len(shown) : (shown \o text)[p] = shown[p]
        /\ \A p \in (Len(shown) + 1)..(Len(shown) + Len(text)) :
              (shown \o text)[p] = text[p - Len(shown)]
    BY <1>1, <1>2, ConcatProperties
  <2>2. ASSUME NEW p \in 1..Len(text) PROVE all[b + p] = text[p]
    <3>1. b + p \in (b + 1)..(b + Len(text)) /\ (b + p) - b = p
      BY <1>2
    <3> QED
      BY <1>3, <2>1, <3>1 DEF b
  <2> QED
    BY <1>3, <2>1, <2>2 DEF b
<1>5. Len(all) = b + Len(text)
  BY <1>2
<1>6. ASSUME NEW i \in Matches(all) PROVE i >= b /\ i - b \in Matches(text)
  <2>1. PICK s \in stops : StandsAt(all, s, i) /\ i \in Nat
    BY <1>1, <1>2, MatchesAre
  <2>2. s \in Seq(Chars) /\ Len(s) \in Nat
    BY <1>1, FilterAssumption
  <2>3. i >= b
    <3> SUFFICES ASSUME i < b PROVE FALSE
      BY <1>2, <2>1
    <3>1. CASE i + Len(s) <= Len(fed)
      <4>1. StandsAt(fed, s, i)
        BY <1>2, <2>1, <2>2, <3>1 DEF StandsAt
      <4> QED
        BY <1>1, <2>1, <4>1, MatchesAre
    <3>2. CASE ~(i + Len(s) <= Len(fed))
      <4> DEFINE n == Len(fed) - i
                 last == Last_(fed, n)
      <4>1. n \in (Len(pending) + 1)..Len(fed) /\ n \in 0..Len(fed) /\ n <= Len(s)
            /\ Len(fed) - n = i
        BY <1>2, <2>1, <2>2, <3>2
      <4> HIDE DEF n
      <4>2. last \in Seq(Chars) /\ Len(last) = n /\ \A j \in 1..n : last[j] = fed[i + j]
        BY <1>1, <4>1, LastIs
      <4> HIDE DEF last
      <4>3. \A j \in 1..n : fed[i + j] = s[j]
        <5> SUFFICES ASSUME NEW j \in 1..n PROVE fed[i + j] = s[j]
          OBVIOUS
        <5>1. j \in 1..Len(s) /\ i + j \in 1..Len(fed)
          BY <1>2, <2>1, <2>2, <4>1
        <5> QED
          BY <1>2, <2>1, <5>1 DEF StandsAt
      <4>4. Begins(last, s)
        BY <4>1, <4>2, <4>3 DEF Begins
      <4>5. IsStopPrefix(last)
        BY <1>1, <4>2, <4>4, PrefixIs
      <4> QED
        BY <1>1, <4>1, <4>5 DEF last
    <3> QED
      BY <3>1, <3>2
  <2>4. StandsAt(text, s, i - b)
    <3>1. (i - b) + Len(s) <= Len(text) /\ i - b \in Nat
      BY <1>2, <1>5, <2>1, <2>2, <2>3 DEF StandsAt
    <3>2. ASSUME NEW j \in 1..Len(s) PROVE text[(i - b) + j] = s[j]
      <4>1. (i - b) + j \in 1..Len(text) /\ b + ((i - b) + j) = i + j
        BY <1>2, <2>1, <2>2, <3>1
      <4>2. all[b + ((i - b) + j)] = text[(i - b) + j]
        BY <1>4, <4>1
      <4> QED
        BY <2>1, <4>1, <4>2 DEF StandsAt
    <3> QED
      BY <3>1, <3>2 DEF StandsAt
  <2>5. i - b \in Nat
    BY <1>2, <2>1, <2>3
  <2> QED
    BY <1>1, <1>2, <2>3, <2>4, <2>5, MatchesAre
<1>7. ASSUME NEW i \in Matches(text) PROVE b + i \in Matches(all)
  <2>1. PICK s \in stops : StandsAt(text, s, i) /\ i \in Nat
    BY <1>1, <1>2, MatchesAre
  <2>2. s \in Seq(Chars) /\ Len(s) \in Nat
    BY <1>1, FilterAssumption
  <2>3. StandsAt(all, s, b + i)
    <3>1. (b + i) + Len(s) <= Len(all)
      BY <1>2, <1>5, <2>1, <2>2 DEF StandsAt
    <3>2. ASSUME NEW j \in 1..Len(s) PROVE all[(b + i) + j] = s[j]
      <4>1. i + j \in 1..Len(text) /\ (b + i) + j = b + (i + j)
        BY <1>2, <2>1, <2>2 DEF StandsAt
      <4>2. all[b + (i + j)] = text[i + j]
        BY <1>4, <4>1
      <4> QED
        BY <2>1, <4>1, <4>2 DEF StandsAt
    <3> QED
      BY <3>1, <3>2 DEF StandsAt
  <2>4. b + i \in Nat
    BY <1>2, <2>1
  <2> QED
    BY <1>1, <1>2, <2>3, <2>4, MatchesAre
<1> QED
  BY <1>2, <1>3, <1>4, <1>5, <1>6, <1>7 DEF text, all, b

\* Cut at the same place, shown and the beginning of what follows it are the
\* beginning of the whole.
LEMMA ShownFront ==
    ASSUME NEW all \in Seq(Chars), NEW front \in Seq(Chars), NEW text \in Seq(Chars),
           all = front \o text, NEW n \in 0..Len(text)
    PROVE  front \o SubSeq(text, 1, n) = SubSeq(all, 1, Len(front) + n)
<1> DEFINE c == SubSeq(text, 1, n)
           d == SubSeq(all, 1, Len(front) + n)
           e == front \o c
<1>1. c \in Seq(Chars) /\ Len(c) = n /\ \A j \in 1..n : c[j] = text[j]
  BY FrontIs
<1>2. /\ Len(all) = Len(front) + Len(text) /\ Len(front) \in Nat /\ Len(text) \in Nat
      /\ \A p \in 1..Len(front) + Len(text) :
            all[p] = IF p <= Len(front) THEN front[p] ELSE text[p - Len(front)]
  BY ConcatProperties
<1>3. /\ d \in Seq(Chars) /\ Len(d) = Len(front) + n
      /\ \A j \in 1..Len(front) + n : d[j] = all[j]
  <2>1. Len(front) + n \in 0..Len(all)
    BY <1>2
  <2> QED
    BY <2>1, FrontIs
<1> HIDE DEF c, d
<1>4. /\ e \in Seq(Chars) /\ Len(e) = Len(front) + n
      /\ \A p \in 1..Len(front) + n :
            e[p] = IF p <= Len(front) THEN front[p] ELSE c[p - Len(front)]
  BY <1>1, ConcatProperties
<1> HIDE DEF e
<1>5. ASSUME NEW p \in 1..Len(front) + n PROVE e[p] = d[p]
  <2>1. CASE p <= Len(front)
    BY <1>2, <1>3, <1>4, <2>1
  <2>2. CASE ~(p <= Len(front))
    <3>1. p - Len(front) \in 1..n /\ p \in 1..Len(front) + Len(text)
      BY <1>2, <2>2
    <3>2. e[p] = c[p - Len(front)] /\ d[p] = all[p]
      BY <1>3, <1>4, <2>2
    <3>3. all[p] = text[p - Len(front)]
      BY <1>2, <2>2, <3>1
    <3>4. c[p - Len(front)] = text[p - Len(front)]
      BY <1>1, <3>1
    <3> QED
      BY <3>2, <3>3, <3>4
  <2> QED
    BY <2>1, <2>2
<1> QED
  BY <1>3, <1>4, <1>5, SeqEqual DEF c, d, e

\* A chunk keeps the invariant.
LEMMA PushInv ==
    ASSUME FilterInv, NEW chunk \in Seq(Chars), Push(chunk)
    PROVE  FilterInv'
<1> DEFINE text == pending \o chunk
           all  == fed \o chunk
           b    == Len(shown)
           h    == Held(text)
           sent == Len(text) - h
<1>1. /\ state = "open" /\ fed' = all /\ stops' = stops
      /\ Matches(text) # {} => /\ shown' = shown \o Truncated(text)
                               /\ pending' = <<>> /\ state' = "stopped"
      /\ Matches(text) = {} => /\ shown' = shown \o SubSeq(text, 1, sent)
                               /\ pending' = SubSeq(text, sent + 1, Len(text))
                               /\ state' = state
  BY DEF Push
<1>2. /\ fed \in Seq(Chars) /\ shown \in Seq(Chars) /\ pending \in Seq(Chars)
      /\ stops \in StopSets /\ shown \o pending = fed
      /\ \A n \in (Len(pending) + 1)..Len(fed) : ~IsStopPrefix(Last_(fed, n))
  BY <1>1 DEF FilterInv
<1>3. /\ text \in Seq(Chars) /\ all \in Seq(Chars) /\ b \in Nat
      /\ all = shown \o text /\ Len(all) = b + Len(text)
      /\ \A p \in 1..Len(text) : all[b + p] = text[p]
      /\ \A i \in Matches(all) : i >= b /\ i - b \in Matches(text)
      /\ \A i \in Matches(text) : b + i \in Matches(all)
  BY <1>1, PushMatches
<1>4. /\ Len(text) = Len(pending) + Len(chunk) /\ Len(all) = Len(fed) + Len(chunk)
      /\ Len(fed) \in Nat /\ Len(pending) \in Nat /\ Len(chunk) \in Nat /\ Len(text) \in Nat
      /\ \A p \in 1..Len(fed) : all[p] = fed[p]
      /\ Len(fed) = b + Len(pending)
  BY <1>2, ConcatProperties
<1>5. /\ h \in 0..Len(text)
      /\ h > 0 => IsStopPrefix(Last_(text, h))
      /\ \A n \in (h + 1)..Len(text) : ~IsStopPrefix(Last_(text, n))
  BY <1>3, HeldIs
<1> HIDE DEF h, text, all, b
<1>6. /\ Matches(fed)' = Matches(all) /\ Truncated(fed)' = Truncated(all)
      /\ \A t : IsStopPrefix(t)' <=> IsStopPrefix(t)
  BY <1>1 DEF Matches, Truncated, IsStopPrefix
<1>7. CASE Matches(text) # {}
  <2> DEFINE m == Min(Matches(text))
             k == Min(Matches(all))
  <2>1. m \in Matches(text) /\ (\A i \in Matches(text) : m <= i) /\ m \in 0..Len(text)
        /\ Truncated(text) = SubSeq(text, 1, m)
    BY <1>2, <1>3, <1>7, TruncatedIs
  <2>2. Matches(all) # {}
    BY <1>3, <2>1
  <2>3. k \in Matches(all) /\ (\A i \in Matches(all) : k <= i) /\ k \in 0..Len(all)
        /\ Truncated(all) = SubSeq(all, 1, k)
    BY <1>2, <1>3, <2>2, TruncatedIs
  <2> HIDE DEF m, k
  <2>4. k = b + m
    <3>1. k <= b + m
      BY <1>3, <2>1, <2>3
    <3>2. k >= b /\ m <= k - b
      BY <1>3, <2>1, <2>3
    <3> QED
      BY <1>3, <2>1, <2>3, <3>1, <3>2
  <2>5. shown \o Truncated(text) = Truncated(all)
    BY <1>2, <1>3, <2>1, <2>3, <2>4, ShownFront DEF b
  <2>6. Truncated(text) \in Seq(Chars)
    BY <1>3, <2>1, FrontIs
  <2>7. shown' \in Seq(Chars)
    BY <1>1, <1>2, <1>7, <2>6, ConcatProperties
  <2>8. pending' \in Seq(Chars) /\ state' = "stopped" /\ shown' = Truncated(all)
    <3>1. <<>> \in Seq(Chars)
      OBVIOUS
    <3>2. pending' = <<>> /\ state' = "stopped" /\ shown' = shown \o Truncated(text)
      BY <1>1, <1>7
    <3> QED
      BY <2>5, <3>1, <3>2
  <2>9. fed' \in Seq(Chars) /\ stops' \in StopSets
    BY <1>1, <1>2, <1>3
  <2> QED
    BY <1>6, <2>2, <2>7, <2>8, <2>9 DEF FilterInv
<1>8. CASE Matches(text) = {}
  <2>1. Matches(all) = {} /\ Truncated(all) = all
    BY <1>3, <1>8 DEF Truncated
  <2>2. /\ sent \in 0..Len(text) /\ Len(text) - h = sent /\ sent + h = Len(text)
        /\ sent \in Nat /\ h \in Nat
    BY <1>4, <1>5
  <2> DEFINE front == SubSeq(text, 1, sent)
             rest  == SubSeq(text, sent + 1, Len(text))
  <2>3. rest = Last_(text, h)
    BY DEF Last_
  <2>4. front \in Seq(Chars) /\ Len(front) = sent /\ \A j \in 1..sent : front[j] = text[j]
    BY <1>3, <2>2, FrontIs
  <2>5. /\ rest \in Seq(Chars) /\ Len(rest) = h
        /\ \A j \in 1..h : rest[j] = text[sent + j]
    <3>1. /\ Last_(text, h) \in Seq(Chars) /\ Len(Last_(text, h)) = h
          /\ \A j \in 1..h : Last_(text, h)[j] = text[Len(text) - h + j]
      BY <1>3, <1>5, LastIs
    <3> HIDE DEF rest
    <3> QED
      BY <2>3, <3>1
  <2>6. front \o rest = text
    <3> HIDE DEF front, rest, sent
    <3>1. /\ front \o rest \in Seq(Chars) /\ Len(front \o rest) = sent + h
          /\ \A p \in 1..sent + h :
                (front \o rest)[p] = IF p <= sent THEN front[p] ELSE rest[p - sent]
      <4>1. /\ front \o rest \in Seq(Chars) /\ Len(front \o rest) = Len(front) + Len(rest)
            /\ \A p \in 1..Len(front) + Len(rest) :
                  (front \o rest)[p] = IF p <= Len(front) THEN front[p] ELSE rest[p - Len(front)]
        BY <2>4, <2>5, ConcatProperties
      <4> QED
        BY <2>4, <2>5, <4>1
    <3>2. ASSUME NEW p \in 1..Len(text) PROVE (front \o rest)[p] = text[p]
      <4>1. CASE p <= sent
        BY <2>2, <2>4, <3>1, <4>1
      <4>2. CASE ~(p <= sent)
        <5>1. p - sent \in 1..h /\ sent + (p - sent) = p
          BY <2>2, <4>2
        <5> QED
          BY <2>2, <2>5, <3>1, <4>2, <5>1
      <4> QED
        BY <4>1, <4>2
    <3> QED
      BY <1>3, <2>2, <3>1, <3>2, SeqEqual
  <2> HIDE DEF front, rest
  <2>7. shown' = shown \o front /\ pending' = rest /\ state' = "open"
    BY <1>1, <1>8 DEF front, rest
  <2>8. shown' \in Seq(Chars) /\ shown' \o pending' = all
    <3>1. (shown \o front) \o rest = shown \o (front \o rest)
      <4>1. shown \in Seq(Chars) /\ front \in Seq(Chars) /\ rest \in Seq(Chars)
        BY <1>2, <2>4, <2>5
      <4> QED
        BY <4>1, ConcatAssociative
    <3>2. shown \o front \in Seq(Chars)
      BY <1>2, <2>4, ConcatProperties
    <3> QED
      BY <1>3, <2>6, <2>7, <3>1, <3>2
  <2>9. pending' # <<>> => IsStopPrefix(pending)'
    <3> SUFFICES ASSUME pending' # <<>> PROVE IsStopPrefix(rest)
      BY <1>6, <2>7
    <3>1. h # 0
      <4> SUFFICES ASSUME h = 0 PROVE FALSE
        OBVIOUS
      <4>1. rest = <<>>
        BY <2>5, EmptySeq
      <4> QED
        BY <2>7, <4>1
    <3> QED
      BY <1>5, <2>2, <2>3, <3>1
  <2>10. ASSUME NEW n \in (h + 1)..Len(all) PROVE ~IsStopPrefix(Last_(all, n))
    <3>1. n \in 0..Len(all) /\ n \in Nat
      BY <1>4, <2>2
    <3>2. /\ Last_(all, n) \in Seq(Chars) /\ Len(Last_(all, n)) = n
          /\ \A j \in 1..n : Last_(all, n)[j] = all[Len(all) - n + j]
      BY <1>3, <3>1, LastIs
    <3>3. CASE n <= Len(text)
      <4>1. n \in 0..Len(text) /\ n \in (h + 1)..Len(text)
        BY <2>2, <3>1, <3>3
      <4>2. /\ Last_(text, n) \in Seq(Chars) /\ Len(Last_(text, n)) = n
            /\ \A j \in 1..n : Last_(text, n)[j] = text[Len(text) - n + j]
        BY <1>3, <4>1, LastIs
      <4>3. ASSUME NEW j \in 1..n PROVE Last_(all, n)[j] = Last_(text, n)[j]
        <5>1. Len(text) - n + j \in 1..Len(text)
              /\ Len(all) - n + j = b + (Len(text) - n + j)
          BY <1>3, <1>4, <4>1
        <5>2. all[b + (Len(text) - n + j)] = text[Len(text) - n + j]
          BY <1>3, <5>1
        <5> QED
          BY <3>2, <4>2, <5>1, <5>2
      <4>4. Last_(all, n) = Last_(text, n)
        BY <3>2, <4>2, <4>3, SeqEqual
      <4> QED
        BY <1>5, <4>1, <4>4
    <3>4. CASE ~(n <= Len(text))
      <4> SUFFICES ASSUME IsStopPrefix(Last_(all, n)) PROVE FALSE
        OBVIOUS
      <4>1. PICK s \in stops : Begins(Last_(all, n), s)
        BY <1>2, <3>2, PrefixIs
      <4>2. s \in Seq(Chars)
        BY <1>2, FilterAssumption
      <4> DEFINE k == n - Len(chunk)
      <4>3. k \in (Len(pending) + 1)..Len(fed) /\ k \in 0..Len(fed) /\ k \in Nat /\ k <= n
            /\ Len(fed) - k = Len(all) - n
        BY <1>4, <3>1, <3>4
      <4> HIDE DEF k
      <4>4. /\ Last_(fed, k) \in Seq(Chars) /\ Len(Last_(fed, k)) = k
            /\ \A j \in 1..k : Last_(fed, k)[j] = fed[Len(fed) - k + j]
        BY <1>2, <4>3, LastIs
      <4>5. ASSUME NEW j \in 1..k PROVE Last_(fed, k)[j] = s[j]
        <5>1. j \in 1..n /\ Len(fed) - k + j \in 1..Len(fed)
              /\ Len(fed) - k + j = Len(all) - n + j
          BY <1>4, <3>1, <4>3
        <5>2. all[Len(fed) - k + j] = fed[Len(fed) - k + j]
          BY <1>4, <5>1
        <5>3. Last_(all, n)[j] = s[j]
          BY <3>2, <4>1, <5>1 DEF Begins
        <5> QED
          BY <3>2, <4>4, <5>1, <5>2, <5>3
      <4>6. Begins(Last_(fed, k), s)
        BY <3>2, <4>1, <4>2, <4>3, <4>4, <4>5, <3>1 DEF Begins
      <4>7. IsStopPrefix(Last_(fed, k))
        BY <1>2, <4>4, <4>6, PrefixIs
      <4> QED
        BY <1>2, <4>3, <4>7
    <3> QED
      BY <3>3, <3>4
  <2>11. \A n \in (Len(pending') + 1)..Len(fed') : ~IsStopPrefix(Last_(fed, n))'
    <3>1. \A n : Last_(fed, n)' = Last_(all, n)
      BY <1>1 DEF Last_
    <3>2. Len(pending') = h /\ fed' = all
      BY <1>1, <2>5, <2>7 DEF all
    <3> QED
      BY <1>6, <2>10, <3>1, <3>2
  <2> QED
    BY <1>1, <1>2, <1>3, <1>6, <2>1, <2>5, <2>7, <2>8, <2>9, <2>11 DEF FilterInv
<1> QED
  BY <1>7, <1>8

\* At the end nothing that is held back belongs to a stop sequence.
LEMMA FinishInv ==
    ASSUME FilterInv, Finish
    PROVE  FilterInv'
<1>1. /\ state = "open" /\ shown' = shown \o pending /\ pending' = <<>>
      /\ state' = "finished" /\ stops' = stops /\ fed' = fed
  BY DEF Finish
<1>2. Matches(fed)' = {} /\ Truncated(fed)' = fed /\ shown' = fed
  BY <1>1 DEF FilterInv, Matches, Truncated
<1> QED
  BY <1>1, <1>2 DEF FilterInv

\* Every step keeps the invariant.
LEMMA FilterNextInv == FilterInv /\ [Next]_vars => FilterInv'
<1> SUFFICES ASSUME FilterInv, [Next]_vars PROVE FilterInv'
  OBVIOUS
<1>1. ASSUME NEW chunk \in Chunks, Push(chunk) PROVE FilterInv'
  <2>1. PICK n \in 1..MaxChunk : chunk \in [1..n -> Chars]
    BY DEF Chunks
  <2>2. chunk \in Seq(Chars)
    BY <2>1, FilterAssumption
  <2> QED
    BY <1>1, <2>2, PushInv
<1>2. CASE Finish
  BY <1>2, FinishInv
<1>3. CASE UNCHANGED vars
  <2>1. UNCHANGED <<stops, pending, fed, shown, state>>
    BY <1>3 DEF vars
  <2>2. /\ Matches(fed)' = Matches(fed) /\ Truncated(fed)' = Truncated(fed)
        /\ \A t : IsStopPrefix(t)' <=> IsStopPrefix(t)
        /\ \A n : Last_(fed, n)' = Last_(fed, n)
    BY <2>1 DEF Matches, Truncated, IsStopPrefix, Last_
  <2>3. (\A n \in (Len(pending) + 1)..Len(fed) : ~IsStopPrefix(Last_(fed, n)))'
        <=> \A n \in (Len(pending) + 1)..Len(fed) : ~IsStopPrefix(Last_(fed, n))
    BY <2>1 DEF IsStopPrefix, Last_
  <2> QED
    BY <2>1, <2>2, <2>3 DEF FilterInv
<1> QED
  BY <1>1, <1>2, <1>3 DEF Next

\* What the invariant says of what is shown.
LEMMA FilterShows ==
    ASSUME FilterInv
    PROVE  FilterExact
<1>1. /\ fed \in Seq(Chars) /\ shown \in Seq(Chars) /\ pending \in Seq(Chars)
  BY DEF FilterInv
<1>2. IsPrefix(shown, Truncated(fed))
  <2>1. CASE state = "open"
    <3>1. Truncated(fed) = fed /\ fed = shown \o pending
      BY <2>1 DEF FilterInv, Truncated
    <3>2. Len(fed) = Len(shown) + Len(pending) /\ Len(shown) \in Nat /\ Len(pending) \in Nat
      BY <1>1, <3>1, ConcatProperties
    <3>3. /\ 0 \in 0..Len(pending) /\ SubSeq(pending, 1, 0) = <<>> /\ Len(shown) + 0 = Len(shown)
      BY <1>1, <3>2, SubSeqEmpty
    <3>4. shown \o SubSeq(pending, 1, 0) = SubSeq(fed, 1, Len(shown) + 0)
      BY <1>1, <3>1, <3>3, ShownFront
    <3>5. shown \o <<>> = shown
      BY <1>1, ConcatEmptySeq
    <3>6. SubSeq(shown, 1, Len(shown)) = shown
      BY <1>1, SubSeqFull
    <3> QED
      BY <3>1, <3>2, <3>3, <3>4, <3>5, <3>6 DEF IsPrefix
  <2>2. CASE state # "open"
    BY <1>1, <2>2 DEF FilterInv, IsPrefix
  <2> QED
    BY <2>1, <2>2
<1>3. ShowsTruncation
  BY <1>2 DEF FilterInv, ShowsTruncation
<1> QED
  BY <1>3 DEF FilterInv, FilterExact, HoldsOnlyStopPrefix

\* Chunks never show: for every set of stop sequences and every way of cutting
\* the text, TextStopFilter shows what truncate_at_first_stop leaves of the
\* whole text, and shows every character as soon as it can belong to no stop
\* sequence.
THEOREM FilterTruncates == Spec => []FilterExact
<1>1. FilterInv => FilterExact
  BY FilterShows
<1> QED
  BY <1>1, FilterInitInv, FilterNextInv, PTL DEF Spec

-----------------------------------------------------------------------------
(* ModelOpening: what an opened model was read from. *)

\* How many checks come before the payload has been hashed.
HashedAfter(kind) == IF kind = "open" THEN 3 ELSE 4

\* Until the file is replaced, the path names what was parsed, and only that is
\* opened again; past its hash it is the payload.
OpeningInv ==
    /\ {"kind", "next", "end", "parsed", "seen", "stale", "used", "resident", "plan"} \subseteq DOMAIN opening
    /\ opening.kind \in {"none", "open", "payload"} /\ opening.next \in Nat
    /\ opening.kind = "none" => opening.seen = {} /\ opening.end = "none"
    /\ opening.end = "done" => opening.next = Len(Checks(opening.kind)) + 1
    /\ opening.kind # "none" /\ ~opening.stale =>
          /\ opening.parsed = path
          /\ opening.seen \subseteq {path}
          /\ opening.next > HashedAfter(opening.kind) => path.authentic /\ opening.seen = {path}

\* A check that passes: only the hash opens the file, and only it is needed to go
\* past the hash.
LEMMA ChecksPass ==
    ASSUME OpeningInv, NEW check, Checking(check), NEW o,
           o = opening \/ (o = Sees(opening) /\ check # "length"),
           check = "hash" => path.authentic /\ o = Sees(opening),
           UNCHANGED path,
           opening' = Advance(o) \/ \E b : opening' = [Advance(o) EXCEPT !.resident = b]
    PROVE  OpeningInv'
<1> DEFINE c == Checks(opening.kind)
<1>1. /\ opening.kind \in {"open", "payload"} /\ opening.end = "none"
      /\ opening.next <= Len(c) /\ c[opening.next] = check
  BY DEF Checking, OpeningInv
<1>2. /\ opening'.kind = opening.kind /\ opening'.parsed = opening.parsed
      /\ opening'.stale = opening.stale /\ opening'.next = opening.next + 1
      /\ opening'.end = IF opening.next = Len(c) THEN "done" ELSE "none"
      /\ opening'.seen = o.seen
      /\ DOMAIN opening' = DOMAIN opening
      /\ opening.seen \subseteq o.seen /\ o.seen \subseteq opening.seen \cup {path}
  <2>1. /\ o.kind = opening.kind /\ o.parsed = opening.parsed /\ o.stale = opening.stale
        /\ o.next = opening.next /\ o.end = opening.end /\ DOMAIN o = DOMAIN opening
        /\ opening.seen \subseteq o.seen /\ o.seen \subseteq opening.seen \cup {path}
    BY DEF Sees, OpeningInv
  <2> DEFINE a == Advance(o)
  <2>2. /\ a.kind = opening.kind /\ a.parsed = opening.parsed /\ a.stale = opening.stale
        /\ a.next = opening.next + 1 /\ a.end = IF opening.next = Len(c) THEN "done" ELSE "none"
        /\ a.seen = o.seen /\ DOMAIN a = DOMAIN opening
    BY <1>1, <2>1 DEF Advance, OpeningInv
  <2> HIDE DEF a
  <2>3. CASE opening' = a
    BY <2>1, <2>2, <2>3
  <2>4. ASSUME NEW b, opening' = [a EXCEPT !.resident = b]
        PROVE  /\ opening'.kind = a.kind /\ opening'.parsed = a.parsed /\ opening'.stale = a.stale
               /\ opening'.next = a.next /\ opening'.end = a.end /\ opening'.seen = a.seen
               /\ DOMAIN opening' = DOMAIN a
    BY <2>2, <2>4 DEF OpeningInv
  <2> QED
    BY <2>1, <2>2, <2>3, <2>4 DEF a
<1>3. ASSUME opening.next = HashedAfter(opening.kind) PROVE check = "hash"
  BY <1>1, <1>3 DEF Checks, HashedAfter
<1>4. ASSUME ~opening.stale
      PROVE  /\ opening'.parsed = path /\ opening'.seen \subseteq {path}
             /\ opening'.next > HashedAfter(opening.kind) => path.authentic /\ opening'.seen = {path}
  <2>1. CASE opening.next > HashedAfter(opening.kind)
    BY <1>1, <1>2, <1>4, <2>1 DEF OpeningInv
  <2>2. CASE opening.next = HashedAfter(opening.kind)
    <3>1. opening'.seen = opening.seen \cup {path}
      BY <1>2, <1>3, <2>2 DEF Sees, OpeningInv
    <3> QED
      BY <1>1, <1>2, <1>3, <1>4, <2>2, <3>1 DEF OpeningInv
  <2>3. CASE opening.next < HashedAfter(opening.kind)
    BY <1>1, <1>2, <1>4, <2>3 DEF OpeningInv, HashedAfter
  <2> QED
    BY <2>1, <2>2, <2>3 DEF OpeningInv, HashedAfter
<1> QED
  BY <1>1, <1>2, <1>4 DEF OpeningInv, HashedAfter, Checks

\* Every step of an opening, and replacements of the file.
LEMMA OpeningNextInv ==
    ASSUME OpeningInv, [OpeningNext]_openingVars
    PROVE  OpeningInv'
<1>1. CASE UNCHANGED openingVars
  BY <1>1 DEF OpeningInv, openingVars
<1>2. CASE Plan
  BY <1>2 DEF Plan, OpeningInv
<1>3. ASSUME NEW kind \in {"open", "payload"}, Parse(kind) PROVE OpeningInv'
  BY <1>3 DEF Parse, OpeningInv, Idle_, HashedAfter, Checks
<1>4. ASSUME NEW check, Checking(check), NEW why, why # "done", Refuse(why), UNCHANGED path
      PROVE  OpeningInv'
  BY <1>4 DEF Refuse, OpeningInv, Checking
<1>5. CASE CheckModel
  <2>1. PICK check \in {"length", "storage", "hash", "schema", "options", "memory", "endian"} :
           /\ Checking(check)
           /\ IF CheckPasses(check)
              THEN opening' = Advance(IF check = "hash" THEN Sees(opening) ELSE opening)
              ELSE Refuse(check)
    BY <1>5 DEF CheckModel
  <2>2. UNCHANGED path
    BY <1>5 DEF CheckModel
  <2>3. CASE CheckPasses(check)
    <3>1. check = "hash" => path.authentic
      BY <2>3 DEF CheckPasses
    <3> QED
      BY <2>1, <2>2, <2>3, <3>1, ChecksPass
  <2> QED
    BY <2>1, <2>2, <2>3, <1>4
<1>6. CASE OpenFiles
  <2>1. PICK check \in {"readers", "experts"} : Checking(check)
    BY <1>6 DEF OpenFiles
  <2> QED
    BY <1>6, <2>1, ChecksPass DEF OpenFiles
<1>7. CASE LoadTensors
  BY <1>4, <1>7, ChecksPass DEF LoadTensors
<1>8. CASE EvaluateFirst
  BY <1>8 DEF EvaluateFirst, OpeningInv
<1>9. ASSUME NEW f \in ModelFiles, ReplaceModel(f) PROVE OpeningInv'
  BY <1>9 DEF ReplaceModel, OpeningInv, Idle_
<1> QED
  BY <1>1, <1>2, <1>3, <1>5, <1>6, <1>7, <1>8, <1>9 DEF OpeningNext

\* open_selected and validate_selected_payload open the path several times; as
\* long as nobody replaces the file, each time it is the payload they hashed.
THEOREM OpenedIsAuthentic == OpeningSpec => []LoadsAuthentic
<1>1. OpeningInit => OpeningInv
  BY DEF OpeningInit, OpeningInv
<1>2. OpeningInv => LoadsAuthentic
  BY DEF OpeningInv, LoadsAuthentic, Done, HashedAfter, Checks
<1> QED
  BY <1>1, <1>2, OpeningNextInv, PTL DEF OpeningSpec

-----------------------------------------------------------------------------
(* ShardSet: the set that is opened. *)

\* The shards that a name counts stand side by side with it.
LEMMA SiblingsAre ==
    ASSUME NEW a, NEW b, a[1] = b[1], a[3] = b[3]
    PROVE  Siblings(a) = Siblings(b)
BY DEF Siblings

\* Without links, the entry only says which prefix and how many.
LEMMA EntriesAgree ==
    ASSUME ShardInit, NEW a \in DOMAIN dir, NEW b \in DOMAIN dir,
           IsNumbered(a), NumbersValid(a), IsNumbered(b), NumbersValid(b),
           a[1] = b[1], a[3] = b[3], ~LinkedShards(a)
    PROVE  OpenSet(a) = OpenSet(b)
<1>1. ASSUME NEW n \in DOMAIN dir, IsNumbered(n), NumbersValid(n), n[1] = a[1], n[3] = a[3]
      PROVE  /\ n = Siblings(a)[n[2]] /\ n[2] \in DOMAIN Siblings(a)
             /\ dir[n].kind \notin {"link", "outside"}
  <2>1. n = <<n[1], n[2], n[3]>>
    BY <1>1, ShardAssumption DEF ShardInit, IsNumbered
  <2>2. n[2] \in 1..a[3] /\ n = <<a[1], n[2], a[3]>>
    BY <1>1, <2>1 DEF NumbersValid
  <2> QED
    BY <2>2 DEF Siblings, LinkedShards
<1> DEFINE names == Siblings(a)
           set == IF \A o \in DOMAIN names : ShardAllowed(names[o], o - 1, a[3])
                  THEN [o \in DOMAIN names |-> Canonical(names[o])] ELSE <<>>
<1>2. ASSUME NEW n \in DOMAIN dir, IsNumbered(n), NumbersValid(n), n[1] = a[1], n[3] = a[3]
      PROVE  Discover(n) = set
  <2>1. Siblings(n) = names
    BY <1>2, SiblingsAre
  <2>2. CASE IsFile(n)
    <3>1. ~Escapes(n) /\ Canonical(n) = n
      BY <1>1, <1>2 DEF Escapes, Canonical
    <3> QED
      BY <1>2, <2>1, <2>2, <3>1 DEF Discover
  <2>3. CASE ~IsFile(n)
    <3>1. Discover(n) = <<>>
      BY <2>3 DEF Discover
    <3>2. n[2] \in DOMAIN names /\ ~ShardAllowed(names[n[2]], n[2] - 1, a[3])
      BY <1>1, <1>2, <2>3 DEF ShardAllowed
    <3> QED
      BY <3>1, <3>2
  <2> QED
    BY <2>2, <2>3
<1>3. Discover(a) = Discover(b)
  BY <1>2
<1> QED
  BY <1>3 DEF OpenSet

\* Each file of a set says which shard it is, so no two of them are one.
LEMMA ShardsAre ==
    ASSUME ShardInit, NEW entry \in DOMAIN dir, NEW files, files = Discover(entry)
    PROVE  /\ IsInjective(files)
           /\ \A i \in DOMAIN files : OptionalSplit(dir[files[i]], i - 1, Len(files))
<1>1. CASE files = <<>>
  BY <1>1 DEF IsInjective
<1>2. CASE files # <<>>
  <2> DEFINE name == Canonical(entry)
  <2>1. IsFile(entry) /\ ~Escapes(entry)
    BY <1>2 DEF Discover
  <2>2. name \in DOMAIN dir
    BY <2>1, ShardAssumption DEF ShardInit, Canonical, IsFile
  <2> HIDE DEF name
  <2>3. CASE ~IsNumbered(name)
    <3>1. files = <<name>> /\ OptionalSplit(dir[name], 0, 1)
      BY <1>2, <2>1, <2>3 DEF Discover, name
    <3>2. DOMAIN files = {1} /\ Len(files) = 1 /\ files[1] = name
      BY <3>1
    <3> QED
      BY <3>1, <3>2 DEF IsInjective
  <2>4. CASE IsNumbered(name)
    <3> DEFINE total == name[3]
               names == Siblings(name)
    <3>1. /\ \A o \in DOMAIN names : ShardAllowed(names[o], o - 1, total)
          /\ files = [o \in DOMAIN names |-> Canonical(names[o])]
      BY <1>2, <2>1, <2>4 DEF Discover, name
    <3>2. total \in Nat
      BY <2>2, <2>4, ShardAssumption DEF ShardInit, IsNumbered
    <3>3. DOMAIN names = 1..total
      BY DEF Siblings
    <3>4. Len(files) = total /\ DOMAIN files = 1..total
      BY <3>1, <3>2, <3>3
    <3>5. ASSUME NEW o \in 1..total
          PROVE  RequiredSplit(dir[files[o]], o - 1, total)
      BY <3>1, <3>3, <3>5 DEF ShardAllowed, Parsed
    <3>6. IsInjective(files)
      BY <3>4, <3>5 DEF IsInjective, RequiredSplit
    <3> QED
      BY <3>4, <3>5, <3>6 DEF RequiredSplit, OptionalSplit
  <2> QED
    BY <2>3, <2>4
<1> QED
  BY <1>1, <1>2

\* open_set, whichever file of a model the command line names and whichever
\* links lie beside it: one set of distinct files, each the shard it says.
THEOREM ShardsFound == ShardSpec => []SetsConsistent
<1>1. ShardInit => EntryIndependent
  BY EntriesAgree DEF EntryIndependent
<1>2. ShardInit => ShardsDistinct
  <2> SUFFICES ASSUME ShardInit, NEW entry \in DOMAIN dir, NEW files, files = OpenSet(entry).files
               PROVE  /\ IsInjective(files)
                      /\ \A i \in DOMAIN files : OptionalSplit(dir[files[i]], i - 1, Len(files))
    BY DEF ShardsDistinct
  <2>1. files = Discover(entry) \/ files = <<>>
    BY DEF OpenSet, Refused
  <2> QED
    BY <2>1, ShardsAre DEF IsInjective
<1>3. ShardInit /\ [FALSE]_dir => ShardInit'
  BY DEF ShardInit
<1> QED
  BY <1>1, <1>2, <1>3, PTL DEF ShardSpec, SetsConsistent

-----------------------------------------------------------------------------
(* Hy3Model: the generated schema. *)

\* The parts every layer has.
AttentionParts == {"attn_k", "attn_k_norm", "attn_norm", "attn_output", "attn_q", "attn_q_norm",
                   "attn_v", "ffn_norm"}

\* What a dimension, a block and a count of experts are.
Positive == Nat \ {0}

\* What the schema says of a tensor of layer l: its name reads back as its role,
\* and its shape has room for what it holds.
Fits(c, s, l) ==
    /\ s = [name |-> s.name, role |-> s.role, shape |-> s.shape, ty |-> s.ty]
    /\ s.name.part \in DOMAIN RoleKinds
    /\ s.name = PartName(s.name.part, l) /\ s.role = <<RoleKinds[s.name.part], l>>
    /\ s.shape \in Seq(Positive) /\ Len(s.shape) \in 1..3
    /\ IsRoutedExpert(s.role) => Len(s.shape) = 3 /\ s.shape[3] = c["expert_count"]

\* The specs are one for each of the parts.
Covers(c, specs, parts, l) ==
    /\ \A s \in specs : Fits(c, s, l) /\ s.name.part \in parts
    /\ \A p \in parts : \E s \in specs : s.name.part = p
    /\ \A s, t \in specs : s.name.part = t.name.part => s = t

\* The dimensions the schema is made of are positive.
Dimensioned(c) ==
    \A field \in {"block_count", "embedding_length", "dense_ffn_length", "expert_ffn_length",
                  "shared_expert_ffn_length", "attention_head_count", "attention_kv_head_count",
                  "key_length", "value_length", "expert_count", "vocabulary_size"} :
        c[field] \in Positive

\* A configuration in range has no empty dimension.
LEMMA ConfigsDimensioned ==
    ASSUME NEW c, SchemaConfigValid(c)
    PROVE  Dimensioned(c)
BY DEF SchemaConfigValid, Limits, Dimensioned, Positive

\* The tensors that hold the slabs of the experts.
RoutedKinds == {"RoutedGate", "RoutedUp", "RoutedDown"}

\* A spec fits when its shape does.
LEMMA SpecFits ==
    ASSUME NEW c, NEW part \in DOMAIN RoleKinds, NEW l, NEW shape \in Seq(Positive), NEW ty,
           Len(shape) \in 1..3,
           \/ RoleKinds[part] \notin RoutedKinds
           \/ Len(shape) = 3 /\ shape[3] = c["expert_count"]
    PROVE  Fits(c, SpecOf(part, l, RoleKinds[part], shape, ty), l)
<1> DEFINE s == SpecOf(part, l, RoleKinds[part], shape, ty)
<1>1. /\ s = [name |-> PartName(part, l), role |-> <<RoleKinds[part], l>>, shape |-> shape, ty |-> ty]
      /\ s.name = PartName(part, l) /\ s.name.part = part /\ s.role = <<RoleKinds[part], l>>
      /\ s.role[1] = RoleKinds[part] /\ s.shape = shape /\ s.ty = ty
  BY DEF SpecOf, PartName
<1> HIDE DEF s
<1> QED
  BY <1>1 DEF Fits, IsRoutedExpert, RoutedKinds, s

\* A vector.
LEMMA OneDimension ==
    ASSUME NEW c, NEW part \in DOMAIN RoleKinds, NEW l, NEW d \in Positive, NEW ty,
           RoleKinds[part] \notin RoutedKinds
    PROVE  Fits(c, SpecOf(part, l, RoleKinds[part], <<d>>, ty), l)
<1> DEFINE shape == <<d>>
<1>1. shape \in Seq(Positive) /\ Len(shape) \in 1..3
  OBVIOUS
<1> HIDE DEF shape
<1>2. Fits(c, SpecOf(part, l, RoleKinds[part], shape, ty), l)
  BY <1>1, SpecFits
<1> QED
  BY <1>2 DEF shape

\* A matrix.
LEMMA TwoDimensions ==
    ASSUME NEW c, NEW part \in DOMAIN RoleKinds, NEW l, NEW d \in Positive, NEW e \in Positive, NEW ty,
           RoleKinds[part] \notin RoutedKinds
    PROVE  Fits(c, SpecOf(part, l, RoleKinds[part], <<d, e>>, ty), l)
<1> DEFINE shape == <<d, e>>
<1>1. shape \in Seq(Positive) /\ Len(shape) \in 1..3
  OBVIOUS
<1> HIDE DEF shape
<1>2. Fits(c, SpecOf(part, l, RoleKinds[part], shape, ty), l)
  BY <1>1, SpecFits
<1> QED
  BY <1>2 DEF shape

\* A matrix for each expert.
LEMMA ThreeDimensions ==
    ASSUME NEW c, NEW part \in DOMAIN RoleKinds, NEW l, NEW d \in Positive, NEW e \in Positive, NEW ty,
           c["expert_count"] \in Positive
    PROVE  Fits(c, SpecOf(part, l, RoleKinds[part], <<d, e, c["expert_count"]>>, ty), l)
<1> DEFINE shape == <<d, e, c["expert_count"]>>
<1>1. shape \in Seq(Positive) /\ Len(shape) = 3 /\ shape[3] = c["expert_count"]
  OBVIOUS
<1> HIDE DEF shape
<1>2. Fits(c, SpecOf(part, l, RoleKinds[part], shape, ty), l)
  BY <1>1, SpecFits
<1> QED
  BY <1>2 DEF shape

\* The table of roles, row by row.
LEMMA Kinds ==
    /\ RoleKinds["token_embd"] = "TokenEmbedding" /\ RoleKinds["output_norm"] = "OutputNorm"
    /\ RoleKinds["output"] = "Output"
    /\ RoleKinds["attn_k"] = "AttentionK" /\ RoleKinds["attn_k_norm"] = "AttentionKNorm"
    /\ RoleKinds["attn_norm"] = "AttentionNorm" /\ RoleKinds["attn_output"] = "AttentionOutput"
    /\ RoleKinds["attn_q"] = "AttentionQ" /\ RoleKinds["attn_q_norm"] = "AttentionQNorm"
    /\ RoleKinds["attn_v"] = "AttentionV" /\ RoleKinds["ffn_norm"] = "FfnNorm"
    /\ RoleKinds["ffn_gate"] = "DenseGate" /\ RoleKinds["ffn_up"] = "DenseUp"
    /\ RoleKinds["ffn_down"] = "DenseDown"
    /\ RoleKinds["ffn_gate_inp"] = "RouterInput" /\ RoleKinds["exp_probs_b"] = "RouterSelectionBias"
    /\ RoleKinds["ffn_gate_exps"] = "RoutedGate" /\ RoleKinds["ffn_up_exps"] = "RoutedUp"
    /\ RoleKinds["ffn_down_exps"] = "RoutedDown" /\ RoleKinds["ffn_gate_shexp"] = "SharedGate"
    /\ RoleKinds["ffn_up_shexp"] = "SharedUp" /\ RoleKinds["ffn_down_shexp"] = "SharedDown"
    /\ GlobalParts \cup AttentionParts \cup DenseParts \cup MoeParts = DOMAIN RoleKinds
BY DEF RoleKinds, GlobalParts, AttentionParts, DenseParts, MoeParts

\* The global tensors, the attention of a layer, its dense and its routed network.
LEMMA GlobalCovers ==
    ASSUME NEW c, Dimensioned(c)
    PROVE  Covers(c, GlobalSpecs(c), GlobalParts, NoLayer)
<1>1. c["embedding_length"] \in Positive /\ c["vocabulary_size"] \in Positive
  BY DEF Dimensioned
<1>2. {"token_embd", "output_norm", "output"} \subseteq DOMAIN RoleKinds
  BY Kinds DEF GlobalParts
<1>3. \A s \in GlobalSpecs(c) : Fits(c, s, NoLayer)
  BY <1>1, <1>2, Kinds, OneDimension, TwoDimensions DEF RoutedKinds, GlobalSpecs
<1> QED
  BY <1>3 DEF Covers, GlobalSpecs, GlobalParts, SpecOf, PartName

\* The products of dimensions.
LEMMA Products ==
    ASSUME NEW a \in Positive, NEW b \in Positive
    PROVE  a * b \in Positive
BY DEF Positive

\* Attention: the four projections, their norms and those of the layer.
LEMMA AttentionCovers ==
    ASSUME NEW c, Dimensioned(c), NEW l
    PROVE  Covers(c, AttentionSpecs(c, l), AttentionParts, l)
<1> DEFINE hidden == c["embedding_length"]
           qWidth == c["attention_head_count"] * c["key_length"]
           kWidth == c["attention_kv_head_count"] * c["key_length"]
           vWidth == c["attention_kv_head_count"] * c["value_length"]
           outputWidth == c["attention_head_count"] * c["value_length"]
<1>1. /\ hidden \in Positive /\ c["key_length"] \in Positive
      /\ qWidth \in Positive /\ kWidth \in Positive /\ vWidth \in Positive /\ outputWidth \in Positive
  BY Products DEF Dimensioned
<1>2. AttentionParts \subseteq DOMAIN RoleKinds
  BY Kinds
<1> HIDE DEF hidden, qWidth, kWidth, vWidth, outputWidth
<1>3. AttentionSpecs(c, l) =
        {SpecOf("attn_k", l, "AttentionK", <<hidden, kWidth>>, "IQ2_S"),
         SpecOf("attn_k_norm", l, "AttentionKNorm", <<c["key_length"]>>, "F32"),
         SpecOf("attn_norm", l, "AttentionNorm", <<hidden>>, "F32"),
         SpecOf("attn_output", l, "AttentionOutput", <<outputWidth, hidden>>, "IQ3_S"),
         SpecOf("attn_q", l, "AttentionQ", <<hidden, qWidth>>, "IQ2_S"),
         SpecOf("attn_q_norm", l, "AttentionQNorm", <<c["key_length"]>>, "F32"),
         SpecOf("attn_v", l, "AttentionV", <<hidden, vWidth>>, "Q4_K"),
         SpecOf("ffn_norm", l, "FfnNorm", <<hidden>>, "F32")}
  BY DEF AttentionSpecs, hidden, qWidth, kWidth, vWidth, outputWidth
<1>4. \A s \in AttentionSpecs(c, l) : Fits(c, s, l)
  BY <1>1, <1>2, <1>3, Kinds, OneDimension, TwoDimensions DEF RoutedKinds, AttentionParts
<1> QED
  BY <1>3, <1>4 DEF Covers, AttentionParts, SpecOf, PartName

\* The network of the first layer.
LEMMA DenseCovers ==
    ASSUME NEW c, Dimensioned(c), NEW l
    PROVE  Covers(c, DenseSpecs(c, l), DenseParts, l)
<1>1. c["embedding_length"] \in Positive /\ c["dense_ffn_length"] \in Positive
  BY DEF Dimensioned
<1>2. DenseParts \subseteq DOMAIN RoleKinds
  BY Kinds
<1>3. \A s \in DenseSpecs(c, l) : Fits(c, s, l)
  BY <1>1, <1>2, Kinds, TwoDimensions DEF RoutedKinds, DenseSpecs, DenseParts
<1> QED
  BY <1>3 DEF Covers, DenseSpecs, DenseParts, SpecOf, PartName

\* The router, the routed and the shared experts of a later layer.
LEMMA MoeCovers ==
    ASSUME NEW c, Dimensioned(c), NEW l
    PROVE  Covers(c, MoeSpecs(c, l), MoeParts, l)
<1> DEFINE hidden == c["embedding_length"]
           experts == c["expert_count"]
           ffn == c["expert_ffn_length"]
           shared == c["shared_expert_ffn_length"]
           down == IF l <= 5 THEN "IQ3_S" ELSE "IQ2_S"
           sharedDown == IF l <= 4 THEN "IQ3_S" ELSE "IQ2_S"
<1>1. hidden \in Positive /\ experts \in Positive /\ ffn \in Positive /\ shared \in Positive
  BY DEF Dimensioned
<1>2. MoeParts \subseteq DOMAIN RoleKinds
  BY Kinds
<1>3. MoeSpecs(c, l) =
        {SpecOf("exp_probs_b", l, "RouterSelectionBias", <<experts>>, "F32"),
         SpecOf("ffn_gate_inp", l, "RouterInput", <<hidden, experts>>, "F32"),
         SpecOf("ffn_gate_exps", l, "RoutedGate", <<hidden, ffn, experts>>, "IQ2_S"),
         SpecOf("ffn_up_exps", l, "RoutedUp", <<hidden, ffn, experts>>, "IQ2_S"),
         SpecOf("ffn_down_exps", l, "RoutedDown", <<ffn, hidden, experts>>, down),
         SpecOf("ffn_gate_shexp", l, "SharedGate", <<hidden, shared>>, "IQ2_S"),
         SpecOf("ffn_up_shexp", l, "SharedUp", <<hidden, shared>>, "IQ2_S"),
         SpecOf("ffn_down_shexp", l, "SharedDown", <<shared, hidden>>, sharedDown)}
  BY DEF MoeSpecs
<1> HIDE DEF hidden, ffn, shared, down, sharedDown
<1>4. \A s \in MoeSpecs(c, l) : Fits(c, s, l)
  BY <1>1, <1>2, <1>3, Kinds, OneDimension, TwoDimensions, ThreeDimensions DEF RoutedKinds, MoeParts
<1> HIDE DEF experts
<1> QED
  BY <1>3, <1>4 DEF Covers, MoeParts, SpecOf, PartName

\* The parts of layer l.
LayerParts(l) == AttentionParts \cup IF l = 0 THEN DenseParts ELSE MoeParts

\* A layer has each of its parts once.
LEMMA LayerCovers ==
    ASSUME NEW c, Dimensioned(c), NEW l
    PROVE  Covers(c, LayerSpecs(c, l), LayerParts(l), l)
<1>1. Covers(c, AttentionSpecs(c, l), AttentionParts, l)
  BY AttentionCovers
<1>2. ASSUME NEW specs, NEW parts, Covers(c, specs, parts, l), parts \cap AttentionParts = {}
      PROVE  Covers(c, AttentionSpecs(c, l) \cup specs, AttentionParts \cup parts, l)
  BY <1>1, <1>2 DEF Covers
<1>3. DenseParts \cap AttentionParts = {} /\ MoeParts \cap AttentionParts = {}
  BY DEF DenseParts, MoeParts, AttentionParts
<1>4. CASE l = 0
  BY <1>2, <1>3, <1>4, DenseCovers DEF LayerSpecs, LayerParts
<1>5. CASE l # 0
  BY <1>2, <1>3, <1>5, MoeCovers DEF LayerSpecs, LayerParts
<1> QED
  BY <1>4, <1>5

\* Where the schema has a tensor.
Places(n) ==
    (GlobalParts \X {NoLayer}) \cup (AttentionParts \X (0..(n - 1)))
        \cup (DenseParts \X {0}) \cup (MoeParts \X (1..(n - 1)))

\* The schema has one tensor for each place.
LEMMA SchemaCovers ==
    ASSUME NEW c, Dimensioned(c), NEW n, n = c["block_count"]
    PROVE  /\ \A s \in Schema(c) :
                 /\ Fits(c, s, s.name.layer)
                 /\ <<s.name.part, s.name.layer>> \in Places(n)
           /\ \A place \in Places(n) : \E s \in Schema(c) : s.name = PartName(place[1], place[2])
           /\ \A s, t \in Schema(c) : s.name = t.name => s = t
<1>1. n \in Positive /\ NoLayer \notin 0..(n - 1)
  BY DEF Dimensioned, Positive, NoLayer
<1>2. Covers(c, GlobalSpecs(c), GlobalParts, NoLayer)
  BY GlobalCovers
<1>3. \A l \in 0..(n - 1) : Covers(c, LayerSpecs(c, l), LayerParts(l), l)
  BY LayerCovers
<1>4. \A s \in Schema(c) : s \in GlobalSpecs(c) \/ \E l \in 0..(n - 1) : s \in LayerSpecs(c, l)
  BY DEF Schema
<1>5. ASSUME NEW s, NEW l, Fits(c, s, l)
      PROVE  s.name = PartName(s.name.part, s.name.layer) /\ s.name.layer = l
  <2>1. s.name = PartName(s.name.part, l) /\ PartName(s.name.part, l).layer = l
    BY <1>5 DEF Fits, PartName
  <2> QED
    BY <2>1
<1>6. ASSUME NEW s \in Schema(c)
      PROVE  /\ Fits(c, s, s.name.layer)
             /\ <<s.name.part, s.name.layer>> \in Places(n)
             /\ s.name.layer = NoLayer => s \in GlobalSpecs(c)
             /\ s.name.layer # NoLayer => s.name.layer \in 0..(n - 1) /\ s \in LayerSpecs(c, s.name.layer)
  <2>1. CASE s \in GlobalSpecs(c)
    <3>1. Fits(c, s, NoLayer) /\ s.name.part \in GlobalParts
      BY <1>2, <2>1 DEF Covers
    <3> QED
      BY <1>5, <2>1, <3>1 DEF Places
  <2>2. ASSUME NEW l \in 0..(n - 1), s \in LayerSpecs(c, l)
        PROVE  /\ Fits(c, s, l) /\ s.name.layer = l
               /\ <<s.name.part, l>> \in Places(n)
    <3>1. Fits(c, s, l) /\ s.name.part \in LayerParts(l)
      BY <1>3, <2>2 DEF Covers
    <3>2. l = 0 \/ l \in 1..(n - 1)
      OBVIOUS
    <3> QED
      BY <1>5, <3>1, <3>2 DEF LayerParts, Places
  <2>3. CASE s \notin GlobalSpecs(c)
    <3>1. PICK l \in 0..(n - 1) : s \in LayerSpecs(c, l)
      BY <1>4, <2>3
    <3> QED
      BY <1>1, <2>2, <3>1
  <2> QED
    BY <2>1, <2>3
<1>7. ASSUME NEW place \in Places(n)
      PROVE  \E s \in Schema(c) : s.name = PartName(place[1], place[2])
  <2>1. PICK p, l :
           /\ place = <<p, l>>
           /\ (p \in GlobalParts /\ l = NoLayer) \/ (l \in 0..(n - 1) /\ p \in LayerParts(l))
    <3>1. 0 \in 0..(n - 1) /\ \A l \in 1..(n - 1) : l \in 0..(n - 1) /\ l # 0
      BY <1>1 DEF Positive
    <3>2. CASE place \in GlobalParts \X {NoLayer}
      <4>1. PICK p \in GlobalParts, l \in {NoLayer} : place = <<p, l>>
        BY <3>2
      <4> QED
        BY <4>1
    <3>3. CASE place \in AttentionParts \X (0..(n - 1))
      BY <3>3 DEF LayerParts
    <3>4. CASE place \in DenseParts \X {0}
      BY <3>1, <3>4 DEF LayerParts
    <3>5. CASE place \in MoeParts \X (1..(n - 1))
      BY <3>1, <3>5 DEF LayerParts
    <3> QED
      BY <3>2, <3>3, <3>4, <3>5 DEF Places
  <2>2. CASE p \in GlobalParts /\ l = NoLayer
    <3>1. PICK s \in GlobalSpecs(c) : s.name.part = p
      BY <1>2, <2>2 DEF Covers
    <3>2. Fits(c, s, NoLayer)
      BY <1>2 DEF Covers
    <3>3. s.name = PartName(p, l) /\ s \in Schema(c)
      BY <2>2, <3>1, <3>2 DEF Fits, Schema
    <3> QED
      BY <2>1, <3>3
  <2>3. CASE l \in 0..(n - 1) /\ p \in LayerParts(l)
    <3>1. PICK s \in LayerSpecs(c, l) : s.name.part = p
      BY <1>3, <2>3 DEF Covers
    <3>2. Fits(c, s, l)
      BY <1>3, <2>3 DEF Covers
    <3>3. s.name = PartName(p, l)
      BY <3>1, <3>2 DEF Fits
    <3>4. s \in Schema(c)
      BY <2>3 DEF Schema
    <3> QED
      BY <2>1, <3>3, <3>4
  <2> QED
    BY <2>1, <2>2, <2>3
<1>8. ASSUME NEW s \in Schema(c), NEW t \in Schema(c), s.name = t.name PROVE s = t
  <2>1. CASE s.name.layer = NoLayer
    BY <1>2, <1>6, <1>8, <2>1 DEF Covers
  <2>2. CASE s.name.layer # NoLayer
    <3>1. PICK l \in 0..(n - 1) : l = s.name.layer /\ s \in LayerSpecs(c, l) /\ t \in LayerSpecs(c, l)
      BY <1>6, <1>8, <2>2
    <3> QED
      BY <1>3, <1>8, <3>1 DEF Covers
  <2> QED
    BY <2>1, <2>2
<1> QED
  BY <1>6, <1>7, <1>8

\* Disjoint sets add up.
LEMMA DisjointUnion ==
    ASSUME NEW S, NEW T, IsFiniteSet(S), IsFiniteSet(T), S \cap T = {},
           NEW k \in Nat, NEW m \in Nat, Cardinality(S) = k, Cardinality(T) = m
    PROVE  IsFiniteSet(S \cup T) /\ Cardinality(S \cup T) = k + m
<1>1. /\ IsFiniteSet(S \cup T)
      /\ Cardinality(S \cup T) = Cardinality(S) + Cardinality(T) - Cardinality(S \cap T)
  BY FS_Union
<1>2. Cardinality(S \cap T) = 0
  BY FS_EmptySet
<1> QED
  BY <1>1, <1>2

\* How many parts there are of each regime.
LEMMA PartsCount ==
    /\ IsFiniteSet(GlobalParts) /\ Cardinality(GlobalParts) = 3
    /\ IsFiniteSet(AttentionParts) /\ Cardinality(AttentionParts) = 8
    /\ IsFiniteSet(DenseParts) /\ Cardinality(DenseParts) = 3
    /\ IsFiniteSet(MoeParts) /\ Cardinality(MoeParts) = 8
<1> DEFINE G1 == {"token_embd"} \cup {"output_norm"}
<1>1. ASSUME NEW S, IsFiniteSet(S), NEW n \in Nat, Cardinality(S) = n, NEW x, x \notin S
      PROVE  IsFiniteSet(S \cup {x}) /\ Cardinality(S \cup {x}) = n + 1
  BY <1>1, FS_AddElement
<1>0. ASSUME NEW x PROVE IsFiniteSet({x}) /\ Cardinality({x}) = 1
  BY FS_Singleton
<1>2. ASSUME NEW x, NEW y, x # y
      PROVE  IsFiniteSet({x, y}) /\ Cardinality({x, y}) = 2
  <2>1. IsFiniteSet({x} \cup {y}) /\ Cardinality({x} \cup {y}) = 1 + 1
    BY <1>0, <1>1, <1>2
  <2>2. {x} \cup {y} = {x, y}
    OBVIOUS
  <2> QED
    BY <2>1, <2>2
<1>3. ASSUME NEW x, NEW y, NEW z, x # y, z \notin {x, y}
      PROVE  IsFiniteSet({x, y, z}) /\ Cardinality({x, y, z}) = 3
  <2>1. IsFiniteSet({x, y} \cup {z}) /\ Cardinality({x, y} \cup {z}) = 2 + 1
    BY <1>2, <1>1, <1>3
  <2>2. {x, y} \cup {z} = {x, y, z}
    OBVIOUS
  <2> QED
    BY <2>1, <2>2
<1>5. ASSUME NEW A, NEW B, NEW C, IsFiniteSet(A), IsFiniteSet(B), IsFiniteSet(C),
             Cardinality(A) = 3, Cardinality(B) = 3, Cardinality(C) = 2,
             A \cap B = {}, (A \cup B) \cap C = {}
      PROVE  IsFiniteSet(A \cup B \cup C) /\ Cardinality(A \cup B \cup C) = 8
  <2>1. IsFiniteSet(A \cup B) /\ Cardinality(A \cup B) = 3 + 3
    BY <1>5, DisjointUnion
  <2>2. IsFiniteSet((A \cup B) \cup C) /\ Cardinality((A \cup B) \cup C) = (3 + 3) + 2
    BY <1>5, <2>1, DisjointUnion
  <2> QED
    BY <2>2
<1>6. IsFiniteSet(GlobalParts) /\ Cardinality(GlobalParts) = 3
  BY <1>3 DEF GlobalParts
<1>7. IsFiniteSet(DenseParts) /\ Cardinality(DenseParts) = 3
  BY <1>3 DEF DenseParts
<1>8. IsFiniteSet(AttentionParts) /\ Cardinality(AttentionParts) = 8
  <2> DEFINE A == {"attn_k", "attn_k_norm", "attn_norm"}
             B == {"attn_output", "attn_q", "attn_q_norm"}
             C == {"attn_v", "ffn_norm"}
  <2>1. AttentionParts = A \cup B \cup C /\ A \cap B = {} /\ (A \cup B) \cap C = {}
    BY DEF AttentionParts
  <2>2. IsFiniteSet(A) /\ Cardinality(A) = 3 /\ IsFiniteSet(B) /\ Cardinality(B) = 3
    BY <1>3
  <2>3. IsFiniteSet(C) /\ Cardinality(C) = 2
    BY <1>2
  <2> HIDE DEF A, B, C
  <2> QED
    BY <1>5, <2>1, <2>2, <2>3
<1>9. IsFiniteSet(MoeParts) /\ Cardinality(MoeParts) = 8
  <2> DEFINE A == {"ffn_gate_inp", "exp_probs_b", "ffn_gate_exps"}
             B == {"ffn_up_exps", "ffn_down_exps", "ffn_gate_shexp"}
             C == {"ffn_up_shexp", "ffn_down_shexp"}
  <2>1. MoeParts = A \cup B \cup C /\ A \cap B = {} /\ (A \cup B) \cap C = {}
    BY DEF MoeParts
  <2>2. IsFiniteSet(A) /\ Cardinality(A) = 3 /\ IsFiniteSet(B) /\ Cardinality(B) = 3
    BY <1>3
  <2>3. IsFiniteSet(C) /\ Cardinality(C) = 2
    BY <1>2
  <2> HIDE DEF A, B, C
  <2> QED
    BY <1>5, <2>1, <2>2, <2>3
<1> QED
  BY <1>6, <1>7, <1>8, <1>9

\* Disjoint sets of places add up.
LEMMA PlacesCount ==
    ASSUME NEW n \in Positive
    PROVE  IsFiniteSet(Places(n)) /\ Cardinality(Places(n)) = (n - 1) * 16 + 14
<1> DEFINE A == GlobalParts \X {NoLayer}
           B == AttentionParts \X (0..(n - 1))
           C == DenseParts \X {0}
           D == MoeParts \X (1..(n - 1))
<1>1. n \in Nat /\ n >= 1
  BY DEF Positive
<1>2. IsFiniteSet(0..(n - 1)) /\ Cardinality(0..(n - 1)) = n
  BY <1>1, FS_Interval
<1>3. IsFiniteSet(1..(n - 1)) /\ Cardinality(1..(n - 1)) = n - 1
  BY <1>1, FS_Interval
<1>4. IsFiniteSet({0}) /\ Cardinality({0}) = 1 /\ IsFiniteSet({NoLayer}) /\ Cardinality({NoLayer}) = 1
  BY FS_Singleton
<1>5. /\ IsFiniteSet(A) /\ Cardinality(A) = 3
      /\ IsFiniteSet(B) /\ Cardinality(B) = 8 * n
      /\ IsFiniteSet(C) /\ Cardinality(C) = 3
      /\ IsFiniteSet(D) /\ Cardinality(D) = 8 * (n - 1)
  <2>1. /\ IsFiniteSet(A) /\ Cardinality(A) = Cardinality(GlobalParts) * Cardinality({NoLayer})
        /\ IsFiniteSet(C) /\ Cardinality(C) = Cardinality(DenseParts) * Cardinality({0})
    BY <1>4, PartsCount, FS_Product
  <2>2. IsFiniteSet(B) /\ Cardinality(B) = Cardinality(AttentionParts) * Cardinality(0..(n - 1))
    BY <1>2, PartsCount, FS_Product
  <2>3. IsFiniteSet(D) /\ Cardinality(D) = Cardinality(MoeParts) * Cardinality(1..(n - 1))
    BY <1>3, PartsCount, FS_Product
  <2> HIDE DEF A, B, C, D
  <2> QED
    BY <1>2, <1>3, <1>4, <2>1, <2>2, <2>3, PartsCount
<1>6. A \cap B = {} /\ (A \cup B) \cap C = {} /\ (A \cup B \cup C) \cap D = {}
  <2>1. NoLayer \notin 0..(n - 1)
    BY DEF NoLayer
  <2>2. AttentionParts \cap (DenseParts \cup MoeParts) = {} /\ DenseParts \cap MoeParts = {}
        /\ GlobalParts \cap (DenseParts \cup MoeParts) = {}
    BY DEF AttentionParts, DenseParts, MoeParts, GlobalParts
  <2> QED
    BY <2>1, <2>2
<1> HIDE DEF A, B, C, D
<1> DEFINE b == 8 * n
           d == 8 * (n - 1)
<1>7. b \in Nat /\ d \in Nat /\ Cardinality(B) = b /\ Cardinality(D) = d
      /\ 3 + b + 3 + d = (n - 1) * 16 + 14
  BY <1>1, <1>5
<1> HIDE DEF b, d
<1>8. IsFiniteSet(A \cup B) /\ Cardinality(A \cup B) = 3 + b
  BY <1>5, <1>6, <1>7, DisjointUnion
<1>9. IsFiniteSet(A \cup B \cup C) /\ Cardinality(A \cup B \cup C) = 3 + b + 3
  <2>1. 3 + b \in Nat
    BY <1>7
  <2> QED
    BY <1>5, <1>6, <1>8, <2>1, DisjointUnion
<1>10. IsFiniteSet(A \cup B \cup C \cup D) /\ Cardinality(A \cup B \cup C \cup D) = 3 + b + 3 + d
  <2> DEFINE E == A \cup B \cup C
             e == 3 + b + 3
  <2>1. e \in Nat /\ IsFiniteSet(E) /\ Cardinality(E) = e /\ E \cap D = {}
    BY <1>6, <1>7, <1>9
  <2>3. IsFiniteSet(D) /\ d \in Nat /\ Cardinality(D) = d
    BY <1>5, <1>7
  <2> HIDE DEF E, e
  <2>2. IsFiniteSet(E \cup D) /\ Cardinality(E \cup D) = e + d
    BY <2>1, <2>3, DisjointUnion
  <2> QED
    BY <2>2 DEF E, e
<1> QED
  BY <1>7, <1>10 DEF Places, A, B, C, D

\* The schema has as many tensors as there are places.
LEMMA SchemaCount ==
    ASSUME NEW c, Dimensioned(c)
    PROVE  IsFiniteSet(Schema(c)) /\ Cardinality(Schema(c)) = SchemaCapacity(c)
<1> DEFINE n == c["block_count"]
           f == [s \in Schema(c) |-> <<s.name.part, s.name.layer>>]
<1>1. n \in Positive
  BY DEF Dimensioned
<1>2. \A s \in Schema(c) : s.name = PartName(s.name.part, s.name.layer)
  BY SchemaCovers DEF Fits
<1>3. f \in Injection(Schema(c), Places(n))
  <2>1. f \in [Schema(c) -> Places(n)]
    BY SchemaCovers
  <2>2. ASSUME NEW s \in Schema(c), NEW t \in Schema(c), f[s] = f[t] PROVE s = t
    <3>1. s.name = t.name
      BY <1>2, <2>2
    <3> QED
      BY <3>1, SchemaCovers
  <2> QED
    BY <2>1, <2>2 DEF Injection, IsInjective
<1>4. f \in Surjection(Schema(c), Places(n))
  <2>1. ASSUME NEW place \in Places(n) PROVE \E s \in Schema(c) : f[s] = place
    <3>1. PICK s \in Schema(c) : s.name = PartName(place[1], place[2])
      BY SchemaCovers
    <3>2. f[s] = <<place[1], place[2]>>
      BY <3>1 DEF PartName
    <3>3. place = <<place[1], place[2]>>
      BY DEF Places
    <3> QED
      BY <3>2, <3>3
  <2> QED
    BY <1>3, <2>1 DEF Surjection, Injection
<1> HIDE DEF f
<1>5. IsFiniteSet(Places(n)) /\ Cardinality(Places(n)) = (n - 1) * 16 + 14
  BY <1>1, PlacesCount
<1>6. IsFiniteSet(Schema(c)) /\ Cardinality(Schema(c)) = Cardinality(Places(n))
  BY <1>3, <1>4, <1>5, FS_Injection
<1> QED
  BY <1>5, <1>6 DEF SchemaCapacity

\* No schema is longer than a directory may be.
LEMMA CapacityInRange ==
    ASSUME NEW c, SchemaConfigValid(c)
    PROVE  SchemaCapacity(c) \in 1..MaxSchemaTensors
<1> DEFINE n == c["block_count"]
           m == SchemaCapacity(c)
           max == MaxSchemaTensors
<1>1. n \in Nat /\ n >= 1 /\ n <= 1024
  <2>1. "block_count" \in DOMAIN Limits /\ Limits["block_count"] = 1024
    BY SMT DEF Limits
  <2>2. n \in 1..Limits["block_count"]
    BY <2>1 DEF SchemaConfigValid
  <2> HIDE DEF n
  <2> QED
    BY <2>1, <2>2, SMT
<1> HIDE DEF n
<1>2. m = 16 * n - 2
  <2>1. m = (n - 1) * 16 + 14
    BY DEF SchemaCapacity, n
  <2> HIDE DEF m
  <2> QED
    BY <1>1, <2>1
<1>3. max \in Int /\ max = 16382
  BY DEF MaxSchemaTensors
<1> HIDE DEF m, max
<1>4. m \in Int /\ m >= 1 /\ m <= max /\ max \in Int
  BY <1>1, <1>2, <1>3
<1>5. m \in 1..max
  BY <1>4
<1> QED
  BY <1>5 DEF m, max

\* generate_schema passes validate_explicit_schema.
LEMMA SchemaValid ==
    ASSUME NEW c, SchemaConfigValid(c)
    PROVE  ExplicitSchemaValid(c, Schema(c))
<1> DEFINE schema == Schema(c)
           n == c["block_count"]
           names == {s.name : s \in schema}
<1>1. Dimensioned(c) /\ n \in Int /\ n >= 1
  <2>1. Dimensioned(c)
    BY ConfigsDimensioned
  <2> QED
    BY <2>1 DEF Dimensioned, Positive
<1>2. IsFiniteSet(schema) /\ Cardinality(schema) \in 1..MaxSchemaTensors
  <2>1. IsFiniteSet(schema) /\ Cardinality(schema) = SchemaCapacity(c)
    BY <1>1, SchemaCount
  <2>2. SchemaCapacity(c) \in 1..MaxSchemaTensors
    BY CapacityInRange
  <2> QED
    BY <2>1, <2>2, Zenon
<1>3. Cardinality(names) = Cardinality(schema)
  <2> DEFINE f == [s \in schema |-> s.name]
  <2>1. f \in Injection(schema, names)
    BY <1>1, SchemaCovers DEF Injection, IsInjective
  <2>2. f \in Surjection(schema, names)
    BY DEF Surjection
  <2> HIDE DEF f, names, schema
  <2> QED
    BY <1>2, <2>1, <2>2, FS_Surjection
<1>4. ASSUME NEW s \in schema
      PROVE  /\ Classify(s.name, n) = s.role
             /\ Len(s.shape) \in 1..3 /\ \A d \in DOMAIN s.shape : s.shape[d] # 0
             /\ IsRoutedExpert(s.role) => Len(s.shape) = 3 /\ s.shape[3] = c["expert_count"]
  <2> DEFINE p == s.name.part
             l == s.name.layer
  <2>1. Fits(c, s, l) /\ <<p, l>> \in Places(n)
    BY <1>1, SchemaCovers
  <2>2. s.name = PartName(p, l) /\ p \in DOMAIN RoleKinds /\ s.role = <<RoleKinds[p], l>>
    BY <2>1 DEF Fits
  <2>3. InRegime(p, l) /\ l < n /\ ~s.name.padded
    <3>1. /\ GlobalParts \cap (DenseParts \cup MoeParts \cup AttentionParts) = {}
          /\ AttentionParts \cap (DenseParts \cup MoeParts) = {} /\ DenseParts \cap MoeParts = {}
      BY DEF AttentionParts, DenseParts, MoeParts, GlobalParts
    <3>2. \/ p \in GlobalParts /\ l = NoLayer
          \/ p \in AttentionParts /\ l \in 0..(n - 1)
          \/ p \in DenseParts /\ l = 0
          \/ p \in MoeParts /\ l \in 1..(n - 1)
      BY <2>1 DEF Places
    <3>3. ~s.name.padded
      BY <2>2 DEF PartName
    <3>4. n \in Int /\ n >= 1
      BY <1>1, SMT
    <3>5. p \in DOMAIN RoleKinds
      BY <2>2
    <3> HIDE DEF p, l, n
    <3>6. l < n /\ (l = NoLayer => p \in GlobalParts) /\ (l # NoLayer => p \notin GlobalParts)
      BY <3>1, <3>2, <3>4, SMT DEF NoLayer
    <3>7. (p \in DenseParts => l = 0) /\ (p \in MoeParts => l > 0)
      BY <3>1, <3>2, <3>4, SMT DEF NoLayer
    <3> QED
      BY <3>3, <3>5, <3>6, <3>7 DEF InRegime, l
  <2>4. Classify(s.name, n) = s.role
    BY <2>2, <2>3 DEF Classify
  <2>5. s.shape \in Seq(Positive)
    BY <2>1 DEF Fits
  <2> QED
    BY <2>1, <2>4, <2>5 DEF Fits, Positive
<1> QED
  BY <1>2, <1>3, <1>4 DEF ExplicitSchemaValid

-----------------------------------------------------------------------------
(* Hy3Model: the slabs of a routed tensor. *)

\* TensorBytes of three dimensions.
LEMMA ThreeDimensionBytes ==
    ASSUME NEW shape \in Seq(Nat \ {0}), Len(shape) = 3, NEW ty
    PROVE  TensorBytes([dims |-> shape, ty |-> ty])
             = ((shape[1] * shape[2] * shape[3]) \div BlockSize(ty)) * TypeSizes[ty]
<1> DEFINE t == [dims |-> shape, ty |-> ty]
           d == shape[1]
           e == shape[2]
           f == shape[3]
           P(p) == p = [i \in 0..Len(t.dims) |-> IF i = 0 THEN 1 ELSE p[i - 1] * t.dims[i]]
           product == CHOOSE p : P(p)
           g == [i \in 0..3 |-> IF i = 0 THEN 1 ELSE IF i = 1 THEN 1 * d
                                ELSE IF i = 2 THEN 1 * d * e ELSE 1 * d * e * f]
<1>1. d \in Nat /\ e \in Nat /\ f \in Nat /\ t.dims = shape /\ t.ty = ty /\ Len(t.dims) = 3
  <2>1. t.dims = shape /\ t.ty = ty
    OBVIOUS
  <2>2. \A i \in 1..3 : shape[i] \in Nat
    <3>1. ASSUME NEW i \in 1..3 PROVE shape[i] \in Nat \ {0}
      <4>1. i \in 1..Len(shape)
        OBVIOUS
      <4> QED
        BY <4>1, ElementOfSeq
    <3> QED
      BY <3>1
  <2>3. d \in Nat /\ e \in Nat /\ f \in Nat
    BY <2>2
  <2> HIDE DEF t, d, e, f
  <2> QED
    BY <2>1, <2>3
<1>2. P(g)
  <2>1. 0..Len(t.dims) = 0..3 /\ t.dims[1] = d /\ t.dims[2] = e /\ t.dims[3] = f
    BY <1>1
  <2> HIDE DEF t, d, e, f
  <2>2. ASSUME NEW i \in 0..3
        PROVE  g[i] = IF i = 0 THEN 1 ELSE g[i - 1] * t.dims[i]
    <3>1. i = 0 \/ i = 1 \/ i = 2 \/ i = 3
      OBVIOUS
    <3>2. g[0] = 1 /\ g[1] = 1 * d /\ g[2] = 1 * d * e /\ g[3] = 1 * d * e * f
      OBVIOUS
    <3> HIDE DEF g
    <3> QED
      BY <2>1, <3>1, <3>2
  <2>3. g = [i \in 0..3 |-> IF i = 0 THEN 1 ELSE g[i - 1] * t.dims[i]]
    <3>1. g = [i \in 0..3 |-> g[i]]
      OBVIOUS
    <3> HIDE DEF g
    <3> QED
      BY <2>2, <3>1
  <2> HIDE DEF g
  <2> QED
    BY <2>1, <2>3
<1>3. P(product)
  BY <1>2
<1>4. product[3] = 1 * d * e * f
  <2> HIDE DEF product, t
  <2>1. product = [i \in 0..3 |-> IF i = 0 THEN 1 ELSE product[i - 1] * t.dims[i]]
    BY <1>1, <1>3
  <2>2. product[0] = 1 /\ product[1] = product[0] * d /\ product[2] = product[1] * e /\ product[3] = product[2] * f
    BY <1>1, <2>1
  <2> QED
    BY <2>2
<1>5. TensorBytes(t) = (product[Len(t.dims)] \div BlockSize(t.ty)) * TypeSizes[t.ty]
  BY DEF TensorBytes
<1>6. product[Len(t.dims)] = 1 * d * e * f
  BY <1>1, <1>4
<1>7. 1 * d * e * f = d * e * f
  BY <1>1
<1> HIDE DEF product
<1>8. TensorBytes(t) = ((d * e * f) \div BlockSize(t.ty)) * TypeSizes[t.ty]
  BY <1>5, <1>6, <1>7
<1> QED
  BY <1>1, <1>8

\* What a divisor goes into exactly.
LEMMA ExactDivision ==
    ASSUME NEW k \in Nat, NEW b \in Positive
    PROVE  (k * b) \div b = k /\ (k * b) % b = 0
<1>1. b \in Nat /\ b > 0 /\ k * b \in Nat
  BY DEF Positive
<1>2. k * b = b * ((k * b) \div b) + ((k * b) % b) /\ (k * b) % b \in 0..(b - 1) /\ (k * b) \div b \in Int
  BY <1>1
<1> DEFINE q == (k * b) \div b
           r == (k * b) % b
<1>3. q \in Int /\ r \in 0..(b - 1) /\ k * b = b * q + r
  BY <1>2
<1> HIDE DEF q, r
<1>4. (k - q) * b = r
  BY <1>1, <1>3
<1>5. k - q = 0
  <2> DEFINE z == k - q
  <2>1. z \in Int /\ z * b = r
    BY <1>3, <1>4
  <2> HIDE DEF z
  <2>2. z >= 1 => z * b >= b
    BY <1>1, <2>1
  <2>3. z <= -1 => z * b <= -b
    BY <1>1, <2>1
  <2>4. z = 0
    BY <1>1, <1>3, <2>1, <2>2, <2>3
  <2> QED
    BY <2>4 DEF z
<1>6. k = q /\ r = 0
  BY <1>1, <1>3, <1>4, <1>5
<1> QED
  BY <1>6 DEF q, r

\* A tensor of whole blocks divides among the experts in whole rows.
LEMMA SlabArithmetic ==
    ASSUME NEW d \in Positive, NEW e \in Positive, NEW f \in Positive,
           NEW b \in Positive, NEW size \in Nat, d % b = 0
    PROVE  LET payload == ((d * e * f) \div b) * size
               row == (d \div b) * size
           IN  /\ e * row \in Nat /\ payload = (e * row) * f
               /\ payload % f = 0 /\ payload \div f = e * row
<1> DEFINE q == d \div b
           row == q * size
           payload == ((d * e * f) \div b) * size
<1>1. q \in Nat /\ d = q * b
  <2>1. d \in Nat /\ b \in Nat /\ b > 0 /\ d = b * (d \div b) + (d % b) /\ d \div b \in Nat
    BY DEF Positive
  <2> QED
    BY <2>1
<1>2. e \in Nat /\ f \in Nat /\ b \in Nat /\ d \in Nat
  BY DEF Positive
<1> HIDE DEF q
<1>3. q * e * f \in Nat /\ d * e * f = (q * e * f) * b
  BY <1>1, <1>2
<1>4. (d * e * f) \div b = q * e * f
  <2> DEFINE k == q * e * f
  <2>1. k \in Nat /\ d * e * f = k * b
    BY <1>3
  <2> HIDE DEF k
  <2>2. (k * b) \div b = k
    BY <2>1, ExactDivision
  <2> QED
    BY <2>1, <2>2 DEF k
<1>5. payload = (q * e * f) * size
  BY <1>4
<1>6. row \in Nat /\ e * row \in Nat
  BY <1>1, <1>2
<1>7. (q * e * f) * size = (e * (q * size)) * f
  BY <1>1, <1>2
<1> DEFINE slab == e * row
<1>8. payload = slab * f /\ slab \in Nat
  BY <1>5, <1>6, <1>7
<1> HIDE DEF payload, slab
<1>9. (slab * f) % f = 0 /\ (slab * f) \div f = slab
  BY <1>8, ExactDivision
<1>10. payload % f = 0 /\ payload \div f = slab
  BY <1>8, <1>9
<1> QED
  BY <1>8, <1>10 DEF payload, slab, q, row

\* No type has empty blocks.
LEMMA TypeSizesPositive ==
    ASSUME NEW ty \in GgmlTypes
    PROVE  BlockSize(ty) \in Positive /\ TypeSizes[ty] \in Nat
<1>1. BlockSize(ty) \in {1, 32, 64, 128, 256}
  BY SMT DEF BlockSize
<1>2. TypeSizes[ty] \in Nat
  BY SMT DEF TypeSizes, GgmlTypes
<1> QED
  BY <1>1, <1>2 DEF Positive

\* A routed tensor has its slabs.
LEMMA SlabsDivide ==
    ASSUME NEW shape \in Seq(Nat \ {0}), Len(shape) = 3, NEW ty \in GgmlTypes,
           shape[1] % BlockSize(ty) = 0, NEW experts, shape[3] = experts
    PROVE  LET payload == TensorBytes([dims |-> shape, ty |-> ty])
               row == (shape[1] \div BlockSize(ty)) * TypeSizes[ty]
               slab(e) == ExpertSlab(payload, experts, e)
           IN  /\ slab(0)[1] = 0 /\ slab(experts - 1)[2] = payload
               /\ \A e \in 0..(experts - 1) :
                     /\ SlabDefined(shape, payload, experts, e)
                     /\ slab(e)[2] - slab(e)[1] = shape[2] * row
                     /\ e > 0 => slab(e)[1] = slab(e - 1)[2]
<1> DEFINE payload == TensorBytes([dims |-> shape, ty |-> ty])
           row == (shape[1] \div BlockSize(ty)) * TypeSizes[ty]
           bytes == shape[2] * row
<1>1. shape[1] \in Positive /\ shape[2] \in Positive /\ shape[3] \in Positive
  <2>1. ASSUME NEW i \in 1..3 PROVE shape[i] \in Nat \ {0}
    <3>1. i \in 1..Len(shape)
      OBVIOUS
    <3> QED
      BY <3>1, ElementOfSeq
  <2> QED
    BY <2>1 DEF Positive
<1>2. payload = ((shape[1] * shape[2] * shape[3]) \div BlockSize(ty)) * TypeSizes[ty]
  BY ThreeDimensionBytes
<1>3. BlockSize(ty) \in Positive /\ TypeSizes[ty] \in Nat
  BY TypeSizesPositive
<1>4. bytes \in Nat /\ payload = bytes * experts /\ payload % experts = 0 /\ payload \div experts = bytes
  <2> DEFINE b == BlockSize(ty)
             size == TypeSizes[ty]
             d == shape[1]
             e == shape[2]
  <2>1. d \in Positive /\ e \in Positive /\ experts \in Positive /\ b \in Positive /\ size \in Nat
        /\ d % b = 0
    BY <1>1, <1>3
  <2>2. payload = ((d * e * experts) \div b) * size /\ bytes = e * ((d \div b) * size)
    BY <1>2
  <2> HIDE DEF b, size, d, e, payload, bytes
  <2> QED
    BY <2>1, <2>2, SlabArithmetic
<1>5. experts \in Nat /\ experts >= 1
  BY <1>1 DEF Positive
<1> HIDE DEF bytes, payload
<1>6. ASSUME NEW e PROVE ExpertSlab(payload, experts, e) = <<e * bytes, (e + 1) * bytes>>
  BY <1>4 DEF ExpertSlab
<1>7. 0 * bytes = 0 /\ ((experts - 1) + 1) * bytes = payload
  BY <1>4, <1>5
<1>8. ASSUME NEW e \in 0..(experts - 1)
      PROVE  /\ SlabDefined(shape, payload, experts, e)
             /\ (e + 1) * bytes - e * bytes = bytes
             /\ ((e - 1) + 1) * bytes = e * bytes
  <2>1. SlabDefined(shape, payload, experts, e)
    BY <1>4, <1>5 DEF SlabDefined
  <2> QED
    BY <1>4, <1>5, <2>1
<1>9. ExpertSlab(payload, experts, 0)[1] = 0 /\ ExpertSlab(payload, experts, experts - 1)[2] = payload
  BY <1>6, <1>7
<1>10. ASSUME NEW e \in 0..(experts - 1)
       PROVE  /\ SlabDefined(shape, payload, experts, e)
              /\ ExpertSlab(payload, experts, e)[2] - ExpertSlab(payload, experts, e)[1] = bytes
              /\ e > 0 => ExpertSlab(payload, experts, e)[1] = ExpertSlab(payload, experts, e - 1)[2]
  <2>1. ExpertSlab(payload, experts, e)[1] = e * bytes /\ ExpertSlab(payload, experts, e)[2] = (e + 1) * bytes
    BY <1>6
  <2>2. ExpertSlab(payload, experts, e - 1)[2] = ((e - 1) + 1) * bytes
    BY <1>6
  <2> QED
    BY <1>8, <2>1, <2>2
<1> QED
  BY <1>9, <1>10 DEF bytes, payload

-----------------------------------------------------------------------------
(* Hy3Model: the schema of a profile. *)

\* classify tells parts of a layer apart.
LEMMA ClassifyInjective ==
    ASSUME NEW x, NEW y, NEW blocks, Classify(x, blocks) = Classify(y, blocks),
           Classify(x, blocks) # NoRole
    PROVE  x.part = y.part /\ x.layer = y.layer /\ ~x.padded /\ ~y.padded
<1>1. \A z : Classify(z, blocks) # NoRole =>
                 /\ z.part \in DOMAIN RoleKinds /\ ~z.padded
                 /\ Classify(z, blocks) = <<RoleKinds[z.part], z.layer>>
  BY DEF Classify, InRegime
<1>2. \A p, q \in DOMAIN RoleKinds : RoleKinds[p] = RoleKinds[q] => p = q
  BY SMT DEF RoleKinds
<1>3. RoleKinds[x.part] = RoleKinds[y.part] /\ x.layer = y.layer
  BY <1>1
<1> QED
  BY <1>1, <1>2, <1>3

\* A name and a role each stand for one spec.
LEMMA SpecsUnique ==
    ASSUME NEW c, NEW schema, IsFiniteSet(schema), \A s \in schema : IsSpec(s),
           ExplicitSchemaValid(c, schema)
    PROVE  \A s, t \in schema : s.name = t.name \/ s.role = t.role => s = t
<1> DEFINE names == {s.name : s \in schema}
           f == [s \in schema |-> s.name]
<1>1. Cardinality(names) = Cardinality(schema)
  BY DEF ExplicitSchemaValid
<1>2. f \in Surjection(schema, names)
  BY DEF Surjection
<1>3. f \in Injection(schema, names)
  <2> HIDE DEF names, f
  <2> QED
    BY <1>1, <1>2, FS_Surjection
<1>4. \A s, t \in schema : s.name = t.name => s = t
  BY <1>3 DEF Injection, IsInjective
<1>5. ASSUME NEW s \in schema, NEW t \in schema, s.role = t.role PROVE s.name = t.name
  <2>1. Classify(s.name, c["block_count"]) = s.role /\ Classify(t.name, c["block_count"]) = t.role
    BY DEF ExplicitSchemaValid
  <2>2. s.role # NoRole /\ IsSpec(s) /\ IsSpec(t)
    BY DEF IsSpec
  <2>3. s.name.part = t.name.part /\ s.name.layer = t.name.layer /\ ~s.name.padded /\ ~t.name.padded
    BY <1>5, <2>1, <2>2, ClassifyInjective
  <2> DEFINE x == s.name
             y == t.name
  <2>4. /\ x = [part |-> x.part, layer |-> x.layer, padded |-> x.padded] /\ x.padded \in BOOLEAN
        /\ y = [part |-> y.part, layer |-> y.layer, padded |-> y.padded] /\ y.padded \in BOOLEAN
    BY <2>2 DEF IsSpec
  <2>5. x.part = y.part /\ x.layer = y.layer /\ ~x.padded /\ ~y.padded
    BY <2>3
  <2> HIDE DEF x, y
  <2>6. x.padded = y.padded
    BY <2>4, <2>5
  <2>7. x = y
    BY <2>4, <2>5, <2>6
  <2> QED
    BY <2>7 DEF x, y
<1> QED
  BY <1>4, <1>5

\* The schema of a profile is a valid one.
LEMMA ProfileSchema ==
    ASSUME NEW p, ProfileMade(p),
           IF p.selected THEN p = SelectedProfile
           ELSE IsFiniteSet(p.schema) /\ \A s \in p.schema : IsSpec(s)
    PROVE  /\ IsFiniteSet(TensorSchema(p)) /\ \A s \in TensorSchema(p) : IsSpec(s)
           /\ ExplicitSchemaValid(p.expected, TensorSchema(p))
           /\ SchemaAvailable(p)
<1>1. CASE ~p.selected
  BY <1>1 DEF ProfileMade, TensorSchema, SchemaAvailable
<1>2. CASE p.selected
  <2> DEFINE c == SelectedConfig
  <2>1. TensorSchema(p) = Schema(c) /\ p.expected = c
    BY <1>2 DEF TensorSchema, SelectedProfile
  <2>2. SchemaConfigValid(SelectedConfig)
    BY SMT DEF SchemaConfigValid, SelectedConfig, Limits
  <2> HIDE DEF c
  <2>3. Dimensioned(c)
    BY <2>2, ConfigsDimensioned DEF c
  <2>4. IsFiniteSet(Schema(c)) /\ ExplicitSchemaValid(c, Schema(c))
    BY <2>2, <2>3, SchemaCount, SchemaValid DEF c
  <2>5. ASSUME NEW s \in Schema(c) PROVE IsSpec(s)
    <3>1. Fits(c, s, s.name.layer)
      BY <2>3, SchemaCovers
    <3>2. \A part \in DOMAIN RoleKinds : RoleKinds[part] # "none"
      BY SMT DEF RoleKinds
    <3>3. s.role # NoRole
      BY <3>1, <3>2 DEF Fits, NoRole
    <3>4. /\ s.name = [part |-> s.name.part, layer |-> s.name.layer, padded |-> s.name.padded]
          /\ s.name.padded \in BOOLEAN
      <4>1. s.name = PartName(s.name.part, s.name.layer)
        BY <3>1 DEF Fits
      <4> DEFINE x == s.name
      <4> HIDE DEF x
      <4>2. x = [part |-> x.part, layer |-> x.layer, padded |-> FALSE]
        BY <4>1 DEF PartName, x
      <4>3. x.padded = FALSE
        BY <4>2
      <4> QED
        BY <4>2, <4>3 DEF x
    <3> QED
      BY <3>1, <3>3, <3>4 DEF Fits, IsSpec
  <2> QED
    BY <2>1, <2>2, <2>4, <2>5 DEF SchemaAvailable, c
<1> QED
  BY <1>1, <1>2

-----------------------------------------------------------------------------
(* Hy3Model: the directory. *)

\* The tensor a spec asks for.
TensorOf(s) == [name |-> s.name, shape |-> s.shape, ty |-> s.ty]
\* The directory a schema asks for.
AskedBy(schema) == {TensorOf(s) : s \in schema}

\* A schema asks for a tensor a spec, told apart by name.
LEMMA AskedByCount ==
    ASSUME NEW schema, IsFiniteSet(schema), \A s, t \in schema : s.name = t.name => s = t
    PROVE  /\ IsFiniteSet(AskedBy(schema)) /\ Cardinality(AskedBy(schema)) = Cardinality(schema)
           /\ \A t, u \in AskedBy(schema) : t.name = u.name => t = u
<1> DEFINE f == [s \in schema |-> TensorOf(s)]
<1>1. \A s \in schema : TensorOf(s).name = s.name
  BY DEF TensorOf
<1>2. f \in Surjection(schema, AskedBy(schema))
  BY DEF Surjection, AskedBy
<1>3. f \in Injection(schema, AskedBy(schema))
  <2>1. f \in [schema -> AskedBy(schema)]
    BY DEF AskedBy
  <2>2. ASSUME NEW s \in schema, NEW t \in schema, f[s] = f[t] PROVE s = t
    <3>1. TensorOf(s) = TensorOf(t)
      BY <2>2
    <3>2. s.name = t.name
      BY <1>1, <3>1
    <3> QED
      BY <3>2
  <2> QED
    BY <2>1, <2>2 DEF Injection, IsInjective
<1> HIDE DEF f
<1>4. IsFiniteSet(AskedBy(schema)) /\ Cardinality(AskedBy(schema)) = Cardinality(schema)
  BY <1>2, <1>3, FS_Surjection
<1>5. ASSUME NEW t \in AskedBy(schema), NEW u \in AskedBy(schema), t.name = u.name PROVE t = u
  <2>1. PICK s \in schema : t = TensorOf(s)
    BY DEF AskedBy
  <2>2. PICK r \in schema : u = TensorOf(r)
    BY DEF AskedBy
  <2> QED
    BY <1>1, <1>5, <2>1, <2>2
<1> QED
  BY <1>4, <1>5

\* Comparing the counts and looking each spec up compares the sets.
LEMMA DirectoryExact ==
    ASSUME NEW schema, IsFiniteSet(schema), \A s, t \in schema : s.name = t.name => s = t,
           Cardinality(schema) <= MaxSchemaTensors, NEW tensors, IsFiniteSet(tensors)
    PROVE  MatchesSchema(schema, tensors) <=> tensors = AskedBy(schema)
<1>1. /\ IsFiniteSet(AskedBy(schema)) /\ Cardinality(AskedBy(schema)) = Cardinality(schema)
      /\ \A t, u \in AskedBy(schema) : t.name = u.name => t = u
  BY AskedByCount
<1>2. ASSUME MatchesSchema(schema, tensors) PROVE tensors = AskedBy(schema)
  <2>1. Cardinality(tensors) = Cardinality(schema) /\ AskedBy(schema) \in SUBSET tensors
    BY <1>2 DEF MatchesSchema, AskedBy, TensorOf
  <2> QED
    BY <1>1, <2>1, FS_Subset
<1>3. ASSUME tensors = AskedBy(schema) PROVE MatchesSchema(schema, tensors)
  <2> DEFINE names == {t.name : t \in tensors}
             f == [t \in tensors |-> t.name]
  <2>1. f \in Surjection(tensors, names)
    BY DEF Surjection
  <2>2. f \in Injection(tensors, names)
    BY <1>1, <1>3 DEF Injection, IsInjective
  <2>3. Cardinality(names) = Cardinality(tensors)
    <3> HIDE DEF f, names
    <3> QED
      BY <2>1, <2>2, FS_Surjection
  <2>4. \A s \in schema : [name |-> s.name, shape |-> s.shape, ty |-> s.ty] \in tensors
    BY <1>3 DEF AskedBy, TensorOf
  <2> HIDE DEF f
  <2> QED
    BY <1>1, <1>3, <2>3, <2>4 DEF MatchesSchema
<1> QED
  BY <1>2, <1>3

\* Each tensor has its role, once.
LEMMA RolesFound ==
    ASSUME NEW schema, IsFiniteSet(schema),
           \A s, t \in schema : s.name = t.name \/ s.role = t.role => s = t
    PROVE  LET found == Semantic(schema, AskedBy(schema)) IN
           /\ \A x, y \in found : x.role = y.role => x = y
           /\ {x.tensor : x \in found} = AskedBy(schema)
           /\ Cardinality(found) = Cardinality(AskedBy(schema))
<1> DEFINE Found(s) == [role |-> s.role, tensor |-> TensorOf(s)]
           found == {Found(s) : s \in schema}
           f == [s \in schema |-> Found(s)]
<1>1. found = Semantic(schema, AskedBy(schema))
  BY DEF Semantic, TensorOf
<1>2. \A s \in schema : Found(s).role = s.role /\ Found(s).tensor = TensorOf(s)
  OBVIOUS
<1>3. f \in Surjection(schema, found)
  BY DEF Surjection
<1>4. \A x \in found : \E s \in schema : x = Found(s)
  OBVIOUS
<1>5. \A s \in schema : Found(s) \in found /\ f[s] = Found(s)
  OBVIOUS
<1> HIDE DEF Found
<1>6. f \in Injection(schema, found)
  <2>1. f \in [schema -> found]
    BY <1>5
  <2>2. ASSUME NEW s \in schema, NEW t \in schema, f[s] = f[t] PROVE s = t
    <3>1. Found(s) = Found(t)
      BY <1>5, <2>2
    <3>2. s.role = t.role
      BY <1>2, <3>1
    <3> QED
      BY <3>2
  <2> QED
    BY <2>1, <2>2 DEF Injection, IsInjective
<1> HIDE DEF f, found
<1>7. Cardinality(found) = Cardinality(schema)
  BY <1>3, <1>6, FS_Surjection
<1>8. Cardinality(AskedBy(schema)) = Cardinality(schema)
  BY AskedByCount
<1>9. ASSUME NEW x \in found, NEW y \in found, x.role = y.role PROVE x = y
  <2>1. PICK s \in schema : x = Found(s)
    BY <1>4
  <2>2. PICK t \in schema : y = Found(t)
    BY <1>4
  <2> QED
    BY <1>2, <1>9, <2>1, <2>2
<1>10. {x.tensor : x \in found} = AskedBy(schema)
  <2>1. ASSUME NEW x \in found PROVE x.tensor \in AskedBy(schema)
    BY <1>2, <1>4 DEF AskedBy
  <2>2. ASSUME NEW t \in AskedBy(schema) PROVE \E x \in found : t = x.tensor
    <3>1. PICK s \in schema : t = TensorOf(s)
      BY DEF AskedBy
    <3> QED
      BY <1>2, <1>5, <3>1
  <2> QED
    BY <2>1, <2>2
<1> QED
  BY <1>1, <1>7, <1>8, <1>9, <1>10

-----------------------------------------------------------------------------
(* Hy3Model: a validation. *)

\* What each step of a validation has established.
ConfigAgrees(c) ==
    Resolves(c.files[1]) /\ ProfileAccepts(c.profile.expected, ConfigOf(c.files[1]))
LaterAgree(c) == \A i \in 2..Len(c.files) : ShardAgrees(c.files[i], ConfigOf(c.files[1]))
DirectoryAgrees(c) == c.tensors = AskedBy(TensorSchema(c.profile))

\* Two resolved configurations are equal when all keys are: the name of the
\* architecture and the types are the same in all of them.
LEMMA ReplicaAgrees ==
    ASSUME NEW m, NEW n, IsMetadata(m), IsMetadata(n), Resolves(m)
    PROVE  Resolves(n) /\ ConfigOf(n) = ConfigOf(m)
             <=> Resolves(n) /\ \A key \in SelectedKeys : n[key] = m[key]
<1>1. ASSUME Resolves(n), ConfigOf(n) = ConfigOf(m), NEW key \in SelectedKeys PROVE n[key] = m[key]
  <2>1. n[key].ty = KeyType(key) /\ m[key].ty = KeyType(key) /\ key \in DOMAIN n /\ key \in DOMAIN m
    BY <1>1 DEF Resolves
  <2>2. n[key].val = m[key].val
    <3>1. CASE key = "architecture"
      BY <1>1, <3>1 DEF Resolves
    <3>2. CASE key # "architecture"
      <4>1. key \in ConfigKeys
        BY <3>2 DEF SelectedKeys
      <4>2. ConfigOf(n)[key] = n[key].val /\ ConfigOf(m)[key] = m[key].val
        BY <4>1 DEF ConfigOf
      <4> QED
        BY <1>1, <4>2
    <3> QED
      BY <3>1, <3>2
  <2>3. n[key].elem = m[key].elem
    <3>1. CASE key = "vocabulary_size"
      BY <1>1, <3>1 DEF Resolves
    <3>2. CASE key # "vocabulary_size"
      <4>1. KeyType(key) # "Array"
        BY <3>2 DEF KeyType
      <4> QED
        BY <2>1, <4>1 DEF IsMetadata
    <3> QED
      BY <3>1, <3>2
  <2>4. /\ n[key] = [ty |-> n[key].ty, elem |-> n[key].elem, val |-> n[key].val]
        /\ m[key] = [ty |-> m[key].ty, elem |-> m[key].elem, val |-> m[key].val]
    BY <2>1 DEF IsMetadata
  <2> QED
    BY <2>1, <2>2, <2>3, <2>4
<1>2. ASSUME \A key \in SelectedKeys : n[key] = m[key] PROVE ConfigOf(n) = ConfigOf(m)
  <2>1. \A key \in ConfigKeys : n[key].val = m[key].val
    BY <1>2 DEF SelectedKeys
  <2> QED
    BY <2>1 DEF ConfigOf
<1> QED
  BY <1>1, <1>2

\* The steps ask, one after the other, what conforming asks.
LEMMA ConformsByParts ==
    ASSUME NEW c, Len(c.files) \in Nat \ {0}, DOMAIN c.files = 1..Len(c.files),
           \A i \in DOMAIN c.files : IsMetadata(c.files[i])
    PROVE  Conforms(c) <=> ConfigAgrees(c) /\ LaterAgree(c) /\ DirectoryAgrees(c)
<1> DEFINE n == Len(c.files)
           carries(i) == DOMAIN c.files[i] \cap SelectedKeys # {}
           carriers == {i \in DOMAIN c.files : i = 1 \/ carries(i)}
           expected == c.profile.expected
           Exact(m) == /\ \A key \in FloatKeys : m[key].val \in {-1, 0, 1}
                       /\ \A key \in ConfigKeys \ FloatKeys : m[key].val = expected[key]
<1>1. DirectoryAgrees(c) <=>
        LET schema == IF c.profile.selected THEN Schema(c.profile.expected) ELSE c.profile.schema
        IN  c.tensors = {[name |-> s.name, shape |-> s.shape, ty |-> s.ty] : s \in schema}
  BY DEF DirectoryAgrees, AskedBy, TensorOf, TensorSchema
<1>2. Conforms(c) <=>
        /\ DirectoryAgrees(c)
        /\ \A i \in carriers :
              /\ Resolves(c.files[i])
              /\ \A key \in SelectedKeys :
                    /\ c.files[i][key] = c.files[1][key]
                    /\ key \in FloatKeys => c.files[i][key].val \in {-1, 0, 1}
                    /\ key \in ConfigKeys \ FloatKeys =>
                          c.files[i][key].val = c.profile.expected[key]
  BY <1>1 DEF Conforms
<1>3. ASSUME NEW m
      PROVE  (\A key \in SelectedKeys :
                 /\ key \in FloatKeys => m[key].val \in {-1, 0, 1}
                 /\ key \in ConfigKeys \ FloatKeys => m[key].val = expected[key])
               <=> ProfileAccepts(expected, ConfigOf(m))
  <2>1. \A key \in ConfigKeys : ConfigOf(m)[key] = m[key].val
    BY DEF ConfigOf
  <2>2. FloatKeys \subseteq ConfigKeys /\ ConfigKeys \subseteq SelectedKeys
    BY DEF ConfigKeys, SelectedKeys
  <2>3. {-1, 0, 1} = -1..1
    OBVIOUS
  <2> HIDE DEF expected
  <2>4. ProfileAccepts(expected, ConfigOf(m)) <=>
          \A key \in ConfigKeys :
              IF key \in FloatKeys THEN m[key].val \in {-1, 0, 1} ELSE m[key].val = expected[key]
    BY <2>1, <2>3 DEF ProfileAccepts
  <2> QED
    BY <2>2, <2>4
<1>4. 1 \in DOMAIN c.files /\ 1 \in carriers /\ IsMetadata(c.files[1])
  OBVIOUS
<1>5. Conforms(c) <=>
        /\ DirectoryAgrees(c)
        /\ \A i \in carriers :
              /\ Resolves(c.files[i])
              /\ \A key \in SelectedKeys : c.files[i][key] = c.files[1][key]
              /\ ProfileAccepts(expected, ConfigOf(c.files[i]))
  <2> HIDE DEF carriers
  <2> QED
    BY <1>2, <1>3
<1>6. ASSUME Conforms(c) PROVE ConfigAgrees(c) /\ LaterAgree(c) /\ DirectoryAgrees(c)
  <2>1. ConfigAgrees(c)
    BY <1>4, <1>5, <1>6 DEF ConfigAgrees
  <2>2. ASSUME NEW i \in 2..n PROVE ShardAgrees(c.files[i], ConfigOf(c.files[1]))
    <3>1. i \in DOMAIN c.files /\ IsMetadata(c.files[i])
      OBVIOUS
    <3>2. CASE ~carries(i)
      BY <3>2 DEF ShardAgrees
    <3>3. CASE carries(i)
      <4>1. i \in carriers
        BY <3>1, <3>3
      <4>2. Resolves(c.files[i]) /\ \A key \in SelectedKeys : c.files[i][key] = c.files[1][key]
        BY <1>5, <1>6, <4>1
      <4>3. Resolves(c.files[1])
        BY <2>1 DEF ConfigAgrees
      <4>4. ConfigOf(c.files[i]) = ConfigOf(c.files[1])
        BY <1>4, <3>1, <4>2, <4>3, ReplicaAgrees
      <4> QED
        BY <4>2, <4>4 DEF ShardAgrees
    <3> QED
      BY <3>2, <3>3
  <2> QED
    BY <1>5, <1>6, <2>1, <2>2 DEF LaterAgree
<1>7. ASSUME ConfigAgrees(c), LaterAgree(c), DirectoryAgrees(c) PROVE Conforms(c)
  <2>1. Resolves(c.files[1]) /\ ProfileAccepts(expected, ConfigOf(c.files[1]))
    BY <1>7 DEF ConfigAgrees
  <2>2. ASSUME NEW i \in carriers
        PROVE  /\ Resolves(c.files[i])
               /\ \A key \in SelectedKeys : c.files[i][key] = c.files[1][key]
               /\ ProfileAccepts(expected, ConfigOf(c.files[i]))
    <3>1. CASE i = 1
      BY <2>1, <3>1
    <3>2. CASE i # 1
      <4>1. i \in 2..n /\ carries(i) /\ IsMetadata(c.files[i])
        BY <3>2
      <4>2. Resolves(c.files[i]) /\ ConfigOf(c.files[i]) = ConfigOf(c.files[1])
        BY <1>7, <4>1 DEF LaterAgree, ShardAgrees
      <4>3. \A key \in SelectedKeys : c.files[i][key] = c.files[1][key]
        BY <1>4, <2>1, <4>1, <4>2, ReplicaAgrees
      <4> QED
        BY <2>1, <4>2, <4>3
    <3> QED
      BY <3>1, <3>2
  <2> QED
    BY <1>5, <1>7, <2>2
<1> QED
  BY <1>6, <1>7

\* A validation of c at a phase.
Validation(c, phase, accepted) ==
    [phase |-> phase, profile |-> c.profile, files |-> c.files, tensors |-> c.tensors,
     accepted |-> accepted]

\* The inductive invariant: a validation has established what the steps behind
\* it ask, and one that stopped failed the next.
Hy3Inv ==
    \/ \E config \in Hy3Configs : hy3 = [phase |-> "schema", config |-> config, accepted |-> {}]
    \/ \E c \in Hy3Cases :
          /\ ProfileMade(c.profile)
          /\ \/ hy3 = Validation(c, "config", {})
             \/ hy3 = Validation(c, "shards", {}) /\ ConfigAgrees(c)
             \/ hy3 = Validation(c, "directory", {}) /\ ConfigAgrees(c) /\ LaterAgree(c)
             \/ /\ hy3 = Validation(c, "accepted", Semantic(TensorSchema(c.profile), c.tensors))
                /\ ConfigAgrees(c) /\ LaterAgree(c) /\ DirectoryAgrees(c)
             \/ /\ hy3 = Validation(c, "refused", {})
                /\ ~(ConfigAgrees(c) /\ LaterAgree(c) /\ DirectoryAgrees(c))

\* What the validated sets and their profiles are.
LEMMA CaseFacts ==
    ASSUME NEW c \in Hy3Cases, ProfileMade(c.profile)
    PROVE  /\ Len(c.files) \in Nat \ {0} /\ DOMAIN c.files = 1..Len(c.files)
           /\ \A i \in DOMAIN c.files : IsMetadata(c.files[i])
           /\ IsFiniteSet(c.tensors) /\ \A t \in c.tensors : IsTensor(t)
           /\ IsFiniteSet(TensorSchema(c.profile))
           /\ \A s, t \in TensorSchema(c.profile) : s.name = t.name \/ s.role = t.role => s = t
           /\ ExplicitSchemaValid(c.profile.expected, TensorSchema(c.profile))
           /\ SchemaAvailable(c.profile)
<1> DEFINE p == c.profile
<1>1. /\ Len(c.files) \in Nat \ {0} /\ DOMAIN c.files = 1..Len(c.files)
      /\ \A i \in DOMAIN c.files : IsMetadata(c.files[i])
      /\ IsFiniteSet(c.tensors) /\ \A t \in c.tensors : IsTensor(t)
      /\ IF p.selected THEN p = SelectedProfile
         ELSE IsFiniteSet(p.schema) /\ \A s \in p.schema : IsSpec(s)
  BY Hy3Assumption
<1>2. ProfileMade(p)
  OBVIOUS
<1> HIDE DEF p
<1>3. /\ IsFiniteSet(TensorSchema(p)) /\ \A s \in TensorSchema(p) : IsSpec(s)
      /\ ExplicitSchemaValid(p.expected, TensorSchema(p)) /\ SchemaAvailable(p)
  BY <1>1, <1>2, ProfileSchema
<1>4. \A s, t \in TensorSchema(p) : s.name = t.name \/ s.role = t.role => s = t
  BY <1>3, SpecsUnique
<1> QED
  BY <1>1, <1>3, <1>4 DEF p

\* The third step compares the directory with the schema of the profile.
LEMMA DirectoryStep ==
    ASSUME NEW c \in Hy3Cases, ProfileMade(c.profile)
    PROVE  SchemaAvailable(c.profile) /\ MatchesSchema(TensorSchema(c.profile), c.tensors)
             <=> DirectoryAgrees(c)
<1> DEFINE schema == TensorSchema(c.profile)
<1>1. /\ IsFiniteSet(schema) /\ \A s, t \in schema : s.name = t.name => s = t
      /\ IsFiniteSet(c.tensors) /\ SchemaAvailable(c.profile)
      /\ ExplicitSchemaValid(c.profile.expected, schema)
  BY CaseFacts
<1> HIDE DEF schema
<1>2. Cardinality(schema) <= MaxSchemaTensors
  <2>1. Cardinality(schema) \in 1..MaxSchemaTensors
    BY <1>1 DEF ExplicitSchemaValid
  <2>2. MaxSchemaTensors \in Nat
    BY SMT DEF MaxSchemaTensors
  <2> QED
    BY <2>1, <2>2
<1>3. MatchesSchema(schema, c.tensors) <=> c.tensors = AskedBy(schema)
  BY <1>1, <1>2, DirectoryExact
<1> QED
  BY <1>1, <1>3 DEF DirectoryAgrees, schema

\* Each step establishes its part or refuses.
LEMMA Hy3StepInv ==
    ASSUME Hy3Inv, Hy3Next
    PROVE  Hy3Inv'
<1>1. PICK c \in Hy3Cases :
         /\ ProfileMade(c.profile)
         /\ \/ hy3 = Validation(c, "config", {})
            \/ hy3 = Validation(c, "shards", {}) /\ ConfigAgrees(c)
            \/ hy3 = Validation(c, "directory", {}) /\ ConfigAgrees(c) /\ LaterAgree(c)
  <2>1. hy3.phase \in {"config", "shards", "directory"}
    BY DEF Hy3Next, ValidateConfig, ValidateShards, ValidateDirectory
  <2> QED
    BY <2>1 DEF Hy3Inv, Validation
<1>2. hy3.profile = c.profile /\ hy3.files = c.files /\ hy3.tensors = c.tensors /\ hy3.accepted = {}
  BY <1>1 DEF Validation
<1>3. ASSUME NEW phase, NEW next, NEW accepted, hy3 = Validation(c, phase, {})
      PROVE  /\ [hy3 EXCEPT !.phase = next] = Validation(c, next, {})
             /\ [hy3 EXCEPT !.phase = next, !.accepted = accepted] = Validation(c, next, accepted)
             /\ hy3.phase = phase
  <2>1. hy3 = [phase |-> phase, profile |-> c.profile, files |-> c.files, tensors |-> c.tensors,
               accepted |-> {}]
    BY <1>3 DEF Validation
  <2>2. [hy3 EXCEPT !.phase = next] = Validation(c, next, {})
    BY <2>1 DEF Validation
  <2>3. [hy3 EXCEPT !.phase = next, !.accepted = accepted] = Validation(c, next, accepted)
    <3>1. [hy3 EXCEPT !.phase = next, !.accepted = accepted]
            = [[hy3 EXCEPT !.phase = next] EXCEPT !.accepted = accepted]
      OBVIOUS
    <3>2. [Validation(c, next, {}) EXCEPT !.accepted = accepted] = Validation(c, next, accepted)
      BY DEF Validation
    <3> QED
      BY <2>2, <3>1, <3>2
  <2>4. hy3.phase = phase
    BY <2>1
  <2> QED
    BY <2>2, <2>3, <2>4
<1>4. CASE ValidateConfig
  <2>1. hy3 = Validation(c, "config", {})
    BY <1>1, <1>4 DEF ValidateConfig, Validation
  <2>2. hy3' = IF ConfigAgrees(c) THEN [hy3 EXCEPT !.phase = "shards"]
               ELSE [hy3 EXCEPT !.phase = "refused"]
    BY <1>2, <1>4 DEF ValidateConfig, ConfigAgrees
  <2>3. \/ hy3' = Validation(c, "shards", {}) /\ ConfigAgrees(c)
        \/ hy3' = Validation(c, "refused", {}) /\ ~ConfigAgrees(c)
    BY <1>3, <2>1, <2>2
  <2> QED
    BY <1>1, <2>3 DEF Hy3Inv
<1>5. CASE ValidateShards
  <2>1. hy3 = Validation(c, "shards", {}) /\ ConfigAgrees(c)
    BY <1>1, <1>5 DEF ValidateShards, Validation
  <2>2. hy3' = IF LaterAgree(c) THEN [hy3 EXCEPT !.phase = "directory"]
               ELSE [hy3 EXCEPT !.phase = "refused"]
    BY <1>2, <1>5 DEF ValidateShards, LaterAgree
  <2>3. \/ hy3' = Validation(c, "directory", {}) /\ LaterAgree(c)
        \/ hy3' = Validation(c, "refused", {}) /\ ~LaterAgree(c)
    BY <1>3, <2>1, <2>2
  <2> QED
    BY <1>1, <2>1, <2>3 DEF Hy3Inv
<1>6. CASE ValidateDirectory
  <2> DEFINE found == Semantic(TensorSchema(c.profile), c.tensors)
  <2>1. hy3 = Validation(c, "directory", {}) /\ ConfigAgrees(c) /\ LaterAgree(c)
    BY <1>1, <1>6 DEF ValidateDirectory, Validation
  <2>2. hy3' = IF DirectoryAgrees(c) THEN [hy3 EXCEPT !.phase = "accepted", !.accepted = found]
               ELSE [hy3 EXCEPT !.phase = "refused"]
    BY <1>1, <1>2, <1>6, DirectoryStep DEF ValidateDirectory
  <2>3. \/ hy3' = Validation(c, "accepted", found) /\ DirectoryAgrees(c)
        \/ hy3' = Validation(c, "refused", {}) /\ ~DirectoryAgrees(c)
    BY <1>3, <2>1, <2>2
  <2> QED
    BY <1>1, <2>1, <2>3 DEF Hy3Inv
<1> QED
  BY <1>4, <1>5, <1>6 DEF Hy3Next

\* The invariant holds of every validation.
LEMMA Hy3Invariant == Hy3Spec => []Hy3Inv
<1>1. Hy3Init => Hy3Inv
  BY DEF Hy3Init, Hy3Inv, Validation
<1>2. Hy3Inv /\ [Hy3Next]_hy3 => Hy3Inv'
  <2>1. ASSUME Hy3Inv, UNCHANGED hy3 PROVE Hy3Inv'
    BY <2>1 DEF Hy3Inv
  <2> QED
    BY <2>1, Hy3StepInv
<1> QED
  BY <1>1, <1>2, PTL DEF Hy3Spec

\* Conforming is what the three steps ask, at any phase.
LEMMA ConformsOfCase ==
    ASSUME NEW c \in Hy3Cases, ProfileMade(c.profile), NEW phase, NEW accepted,
           hy3 = Validation(c, phase, accepted)
    PROVE  Conforms(hy3) <=> ConfigAgrees(c) /\ LaterAgree(c) /\ DirectoryAgrees(c)
<1>1. hy3.profile = c.profile /\ hy3.files = c.files /\ hy3.tensors = c.tensors
  BY DEF Validation
<1>2. Conforms(hy3) <=> Conforms(c)
  BY <1>1 DEF Conforms
<1>3. Conforms(c) <=> ConfigAgrees(c) /\ LaterAgree(c) /\ DirectoryAgrees(c)
  BY CaseFacts, ConformsByParts
<1> QED
  BY <1>2, <1>3

\* For every set of shards and profile, validation accepts exactly what conforms,
\* with each role found once: neither the order of the checks nor the count
\* compared before the names lets a set through or refuses one.
THEOREM ValidatesAll == Hy3Spec => []ValidatesExactly
<1>1. Hy3Inv => ValidatesExactly
  <2> SUFFICES ASSUME Hy3Inv PROVE ValidatesExactly
    OBVIOUS
  <2>1. CASE hy3.phase \notin {"accepted", "refused"}
    BY <2>1 DEF ValidatesExactly, RolesUnique
  <2>2. CASE hy3.phase = "refused"
    <3>1. PICK c \in Hy3Cases :
             /\ ProfileMade(c.profile) /\ hy3 = Validation(c, "refused", {})
             /\ ~(ConfigAgrees(c) /\ LaterAgree(c) /\ DirectoryAgrees(c))
      BY <2>2 DEF Hy3Inv, Validation
    <3>2. ~Conforms(hy3)
      BY <3>1, ConformsOfCase
    <3> QED
      BY <2>2, <3>2 DEF ValidatesExactly, RolesUnique
  <2>3. CASE hy3.phase = "accepted"
    <3>1. PICK c \in Hy3Cases :
             /\ ProfileMade(c.profile)
             /\ hy3 = Validation(c, "accepted", Semantic(TensorSchema(c.profile), c.tensors))
             /\ ConfigAgrees(c) /\ LaterAgree(c) /\ DirectoryAgrees(c)
      BY <2>3 DEF Hy3Inv, Validation
    <3>2. Conforms(hy3)
      BY <3>1, ConformsOfCase
    <3> DEFINE schema == TensorSchema(c.profile)
               found == Semantic(schema, AskedBy(schema))
    <3>3. hy3.accepted = found /\ hy3.tensors = AskedBy(schema)
      BY <3>1 DEF DirectoryAgrees, Validation
    <3>4. /\ IsFiniteSet(schema)
          /\ \A s, t \in schema : s.name = t.name \/ s.role = t.role => s = t
      BY <3>1, CaseFacts
    <3> HIDE DEF schema
    <3>5. /\ \A x, y \in found : x.role = y.role => x = y
          /\ {x.tensor : x \in found} = AskedBy(schema)
          /\ Cardinality(found) = Cardinality(AskedBy(schema))
      BY <3>4, RolesFound
    <3> HIDE DEF found
    <3>6. RolesUnique
      BY <3>3, <3>5 DEF RolesUnique
    <3> QED
      BY <2>3, <3>2, <3>6 DEF ValidatesExactly
  <2> QED
    BY <2>1, <2>2, <2>3
<1> QED
  BY <1>1, Hy3Invariant, PTL

\* For every configuration in range the generated schema is as long as its
\* reservation and names each tensor once, and the slabs of a routed tensor of a
\* validated model divide it exactly.
THEOREM SchemaIsSound == Hy3Spec => []SchemaSound
<1>1. ASSUME Hy3Inv PROVE SchemaConsistent
  <2> SUFFICES ASSUME hy3.phase = "schema", SchemaConfigValid(hy3.config)
               PROVE  LET schema == Schema(hy3.config) IN
                      /\ Cardinality(schema) = SchemaCapacity(hy3.config)
                      /\ ExplicitSchemaValid(hy3.config, schema)
    BY DEF SchemaConsistent
  <2> QED
    BY SchemaValid, SchemaCount, ConfigsDimensioned
<1>2. ASSUME Hy3Inv PROVE SlabsPartition
  <2> SUFFICES ASSUME NEW x \in hy3.accepted, IsRoutedExpert(x.role)
               PROVE  LET t == x.tensor
                          experts == hy3.profile.expected["expert_count"]
                          payload == TensorBytes([dims |-> t.shape, ty |-> t.ty])
                          row == (t.shape[1] \div BlockSize(t.ty)) * TypeSizes[t.ty]
                          slab(e) == ExpertSlab(payload, experts, e)
                      IN  /\ slab(0)[1] = 0 /\ slab(experts - 1)[2] = payload
                          /\ \A e \in 0..(experts - 1) :
                                /\ SlabDefined(t.shape, payload, experts, e)
                                /\ slab(e)[2] - slab(e)[1] = t.shape[2] * row
                                /\ e > 0 => slab(e)[1] = slab(e - 1)[2]
    BY DEF SlabsPartition
  <2>1. PICK c \in Hy3Cases :
           /\ ProfileMade(c.profile) /\ DirectoryAgrees(c)
           /\ hy3 = Validation(c, "accepted", Semantic(TensorSchema(c.profile), c.tensors))
    BY <1>2 DEF Hy3Inv, Validation
  <2>2. /\ hy3.accepted = Semantic(TensorSchema(c.profile), c.tensors)
        /\ hy3.tensors = c.tensors /\ hy3.profile = c.profile
    BY <2>1 DEF Validation
  <2>3. PICK s \in TensorSchema(c.profile) : x = [role |-> s.role, tensor |-> TensorOf(s)]
    BY <2>2 DEF Semantic, TensorOf
  <2> DEFINE shape == s.shape
             ty == s.ty
             experts == c.profile.expected["expert_count"]
  <2>4. x.role = s.role /\ x.tensor.shape = shape /\ x.tensor.ty = ty
    BY <2>3 DEF TensorOf
  <2>5. Len(shape) = 3 /\ shape[3] = experts
    BY <2>1, <2>4, CaseFacts DEF ExplicitSchemaValid
  <2>6. shape \in Seq(Nat \ {0}) /\ ty \in GgmlTypes /\ shape[1] % BlockSize(ty) = 0
    <3>1. TensorOf(s) \in c.tensors
      BY <2>1 DEF DirectoryAgrees, AskedBy
    <3>2. IsTensor(TensorOf(s))
      BY <2>1, <3>1, CaseFacts
    <3>3. TensorOf(s).shape = shape /\ TensorOf(s).ty = ty
      BY DEF TensorOf
    <3> HIDE DEF shape, ty
    <3> QED
      BY <3>2, <3>3 DEF IsTensor
  <2> HIDE DEF shape, ty, experts
  <2>7. LET payload == TensorBytes([dims |-> shape, ty |-> ty])
            row == (shape[1] \div BlockSize(ty)) * TypeSizes[ty]
            slab(e) == ExpertSlab(payload, experts, e)
        IN  /\ slab(0)[1] = 0 /\ slab(experts - 1)[2] = payload
            /\ \A e \in 0..(experts - 1) :
                  /\ SlabDefined(shape, payload, experts, e)
                  /\ slab(e)[2] - slab(e)[1] = shape[2] * row
                  /\ e > 0 => slab(e)[1] = slab(e - 1)[2]
    BY <2>5, <2>6, SlabsDivide
  <2>8. hy3.profile.expected["expert_count"] = experts
    BY <2>2 DEF experts
  <2> QED
    BY <2>4, <2>7, <2>8
<1> QED
  BY <1>1, <1>2, Hy3Invariant, PTL DEF SchemaSound

-----------------------------------------------------------------------------
(* Running totals. *)

\* What holds of zero and of the successor of each number holds of all.
LEMMA EveryNatural ==
    ASSUME NEW S \in SUBSET Nat, 0 \in S, \A n \in S : n + 1 \in S
    PROVE  \A n \in Nat : n \in S
<1> SUFFICES ASSUME Nat \ S # {} PROVE FALSE
  OBVIOUS
<1> DEFINE m == Min(Nat \ S)
<1>1. m \in Nat /\ m \notin S /\ \A n \in Nat \ S : m <= n
  BY LeastNatural
<1> HIDE DEF m
<1>2. m - 1 \in Nat
  BY <1>1
<1>3. m - 1 \in S
  BY <1>1, <1>2
<1> QED
  BY <1>1, <1>3

\* The function SumOf chooses.
IsSum(s, f, n) == s = [i \in 0..n |-> IF i = 0 THEN 0 ELSE s[i - 1] + f[i]]

\* There is such a function up to every number.
LEMMA SumExists ==
    ASSUME NEW f, NEW n \in Nat
    PROVE  \E s : IsSum(s, f, n)
<1> DEFINE S == {k \in Nat : \E s : IsSum(s, f, k)}
<1>1. 0 \in S
  <2> DEFINE s == [i \in 0..0 |-> 0]
  <2>1. s = [i \in 0..0 |-> IF i = 0 THEN 0 ELSE s[i - 1] + f[i]]
    <3>1. \A i \in 0..0 : i = 0
      OBVIOUS
    <3> HIDE DEF s
    <3>2. [i \in 0..0 |-> IF i = 0 THEN 0 ELSE s[i - 1] + f[i]] = [i \in 0..0 |-> 0]
      BY <3>1
    <3> QED
      BY <3>2 DEF s
  <2>2. IsSum(s, f, 0)
    BY <2>1 DEF IsSum
  <2> QED
    BY <2>2
<1>2. ASSUME NEW k \in S PROVE k + 1 \in S
  <2>1. PICK s : IsSum(s, f, k)
    OBVIOUS
  <2>2. k \in Nat /\ k + 1 \in Nat
    OBVIOUS
  <2> DEFINE u == [i \in 0..(k + 1) |-> IF i <= k THEN s[i] ELSE s[k] + f[k + 1]]
             v == [i \in 0..(k + 1) |-> IF i = 0 THEN 0 ELSE u[i - 1] + f[i]]
  <2>3. s = [i \in 0..k |-> IF i = 0 THEN 0 ELSE s[i - 1] + f[i]]
    BY <2>1 DEF IsSum
  <2>4. ASSUME NEW i \in 0..(k + 1) PROVE u[i] = v[i]
    <3>1. v[i] = IF i = 0 THEN 0 ELSE u[i - 1] + f[i]
      OBVIOUS
    <3>2. CASE i = 0
      <4>1. u[i] = s[0] /\ 0 \in 0..k
        BY <2>2, <3>2
      <4>2. s[0] = 0
        BY <2>3, <4>1
      <4> QED
        BY <3>1, <3>2, <4>1, <4>2
    <3>3. CASE i # 0
      <4>1. i \in Int /\ i - 1 \in 0..k /\ i - 1 \in 0..(k + 1)
        BY <2>2, <3>3
      <4>2. u[i - 1] = s[i - 1]
        BY <4>1
      <4>3. CASE i <= k
        <5>1. s[i] = s[i - 1] + f[i]
          <6>1. i \in 0..k
            BY <4>3
          <6> QED
            BY <2>3, <3>3, <6>1
        <5> QED
          BY <3>1, <3>3, <4>2, <4>3, <5>1
      <4>4. CASE ~(i <= k)
        <5>1. i = k + 1 /\ i - 1 = k
          BY <2>2, <4>4
        <5>2. u[i] = s[k] + f[k + 1]
          BY <4>4
        <5> QED
          BY <3>1, <3>3, <4>2, <5>1, <5>2
      <4> QED
        BY <4>3, <4>4
    <3> QED
      BY <3>2, <3>3
  <2>5. u = v
    <3>1. u = [i \in 0..(k + 1) |-> u[i]] /\ v = [i \in 0..(k + 1) |-> v[i]]
      OBVIOUS
    <3> HIDE DEF u, v
    <3> QED
      BY <2>4, <3>1
  <2>6. IsSum(u, f, k + 1)
    BY <2>5 DEF IsSum
  <2> HIDE DEF u, v
  <2> QED
    BY <2>2, <2>6
<1>3. S \in SUBSET Nat
  OBVIOUS
<1> HIDE DEF S
<1>4. n \in S
  BY <1>1, <1>2, <1>3, EveryNatural
<1> QED
  BY <1>4 DEF S

\* Two such functions agree where both are defined.
LEMMA SumsAgree ==
    ASSUME NEW f, NEW n \in Nat, NEW m \in Nat, NEW s, NEW u, IsSum(s, f, n), IsSum(u, f, m),
           NEW k \in Nat, k <= n, k <= m
    PROVE  s[k] = u[k]
<1> DEFINE S == {i \in Nat : i <= n /\ i <= m => s[i] = u[i]}
<1>1. 0 \in S
  <2>1. s[0] = 0 /\ u[0] = 0
    BY DEF IsSum
  <2> QED
    BY <2>1
<1>2. ASSUME NEW i \in S PROVE i + 1 \in S
  <2>1. SUFFICES ASSUME i + 1 <= n, i + 1 <= m PROVE s[i + 1] = u[i + 1]
    OBVIOUS
  <2>2. i \in Nat /\ s[i] = u[i]
    BY <2>1
  <2> HIDE DEF S
  <2>3. i + 1 \in 0..n /\ i + 1 \in 0..m /\ i + 1 # 0 /\ (i + 1) - 1 = i
    BY <2>1, <2>2
  <2>4. s[i + 1] = s[(i + 1) - 1] + f[i + 1]
    BY <2>3 DEF IsSum
  <2>5. u[i + 1] = u[(i + 1) - 1] + f[i + 1]
    BY <2>3 DEF IsSum
  <2> QED
    BY <2>2, <2>3, <2>4, <2>5
<1>3. S \in SUBSET Nat
  OBVIOUS
<1> HIDE DEF S
<1>4. k \in S
  BY <1>1, <1>2, <1>3, EveryNatural
<1> QED
  BY <1>4 DEF S

\* A total of nothing, and a total with one more.
LEMMA SumSteps ==
    ASSUME NEW f
    PROVE  SumOf(f, 0) = 0 /\ \A k \in Nat : SumOf(f, k + 1) = SumOf(f, k) + f[k + 1]
<1> DEFINE sum(n) == CHOOSE s : IsSum(s, f, n)
<1>1. ASSUME NEW n \in Nat PROVE IsSum(sum(n), f, n) /\ SumOf(f, n) = sum(n)[n]
  <2>1. IsSum(sum(n), f, n)
    BY SumExists
  <2>2. SumOf(f, n) = sum(n)[n]
    BY DEF SumOf, IsSum
  <2> QED
    BY <2>1, <2>2
<1> HIDE DEF sum
<1>2. SumOf(f, 0) = 0
  <2>1. IsSum(sum(0), f, 0) /\ SumOf(f, 0) = sum(0)[0]
    BY <1>1
  <2> QED
    BY <2>1 DEF IsSum
<1>3. ASSUME NEW k \in Nat PROVE SumOf(f, k + 1) = SumOf(f, k) + f[k + 1]
  <2> DEFINE n == k + 1
  <2>1. n \in Nat /\ n # 0 /\ n - 1 = k /\ k <= n
    OBVIOUS
  <2> HIDE DEF n
  <2>2. sum(n)[n] = sum(n)[n - 1] + f[n]
    <3>1. IsSum(sum(n), f, n)
      BY <1>1, <2>1
    <3> QED
      BY <2>1, <3>1 DEF IsSum
  <2>3. sum(n)[k] = sum(k)[k]
    BY <1>1, <2>1, SumsAgree
  <2>4. SumOf(f, n) = SumOf(f, k) + f[n]
    BY <1>1, <2>1, <2>2, <2>3
  <2> QED
    BY <2>4 DEF n
<1> QED
  BY <1>2, <1>3

\* Totals of natural numbers grow.
LEMMA SumGrows ==
    ASSUME NEW f, NEW n \in Nat, \A i \in 1..n : f[i] \in Nat
    PROVE  \A k \in 0..n : SumOf(f, k) \in Nat /\ SumOf(f, k) <= SumOf(f, n)
<1> DEFINE S == {j \in Nat : j <= n => \A k \in 0..j : SumOf(f, k) \in Nat /\ SumOf(f, k) <= SumOf(f, j)}
<1>1. 0 \in S
  <2>1. \A k \in 0..0 : k = 0
    OBVIOUS
  <2> QED
    BY <2>1, SumSteps
<1>2. ASSUME NEW j \in S PROVE j + 1 \in S
  <2>1. SUFFICES ASSUME j + 1 <= n, NEW k \in 0..(j + 1)
                 PROVE SumOf(f, k) \in Nat /\ SumOf(f, k) <= SumOf(f, j + 1)
    OBVIOUS
  <2>2. j \in Nat /\ j <= n /\ \A i \in 0..j : SumOf(f, i) \in Nat /\ SumOf(f, i) <= SumOf(f, j)
    BY <2>1
  <2> HIDE DEF S
  <2>3. SumOf(f, j + 1) = SumOf(f, j) + f[j + 1]
    BY <2>2, SumSteps
  <2>4. f[j + 1] \in Nat
    <3>1. j + 1 \in 1..n
      BY <2>1, <2>2
    <3> QED
      BY <3>1
  <2>5. SumOf(f, j) \in Nat
    BY <2>2
  <2>6. k \in 0..j \/ k = j + 1
    BY <2>2
  <2>7. CASE k \in 0..j
    <3>1. SumOf(f, k) \in Nat /\ SumOf(f, k) <= SumOf(f, j)
      BY <2>2, <2>7
    <3> QED
      BY <2>3, <2>4, <2>5, <3>1
  <2>8. CASE k = j + 1
    BY <2>3, <2>4, <2>5, <2>8
  <2> QED
    BY <2>6, <2>7, <2>8
<1>3. S \in SUBSET Nat
  OBVIOUS
<1> HIDE DEF S
<1>4. n \in S
  BY <1>1, <1>2, <1>3, EveryNatural
<1> QED
  BY <1>4 DEF S

-----------------------------------------------------------------------------
(* GgufReader: arithmetic that is cut off at 64 bits. *)

\* A number, or the overflow it is.
Cut(x) == IF x > MaxU64 THEN Overflow ELSE x

\* Adding natural numbers, with the cut before or after.
LEMMA CutAdd ==
    ASSUME NEW x \in Nat, NEW y \in Nat
    PROVE  CheckedAdd(Cut(x), y) = Cut(x + y) /\ CheckedAdd(Cut(x), Cut(y)) = Cut(x + y)
BY ReaderAssumption DEF CheckedAdd, Cut, Overflow

\* Multiplying, where a cut number is not multiplied away.
LEMMA CutMul ==
    ASSUME NEW x \in Nat, NEW y \in Positive
    PROVE  CheckedMul(Cut(x), y) = Cut(x * y)
<1>1. y \in Nat /\ y >= 1 /\ MaxU64 \in Nat
  BY ReaderAssumption DEF Positive
<1> DEFINE p == x * y
<1>2. p \in Nat /\ x <= p
  <2>1. p = x + x * (y - 1) /\ x * (y - 1) \in Nat
    <3>1. y - 1 \in Nat
      BY <1>1
    <3> QED
      BY <1>1, <3>1
  <2>2. p \in Nat
    BY <1>1
  <2> HIDE DEF p
  <2> DEFINE q == x * (y - 1)
  <2>3. p = x + q /\ q \in Nat
    BY <2>1
  <2> HIDE DEF q
  <2> QED
    BY <2>2, <2>3
<1>3. CheckedMul(Cut(x), y) = IF Cut(x) = Overflow \/ y = Overflow \/ Cut(x) * y > MaxU64
                              THEN Overflow ELSE Cut(x) * y
  BY DEF CheckedMul
<1>4. CASE x > MaxU64
  <2>1. Cut(x) = Overflow
    BY <1>4 DEF Cut
  <2> HIDE DEF p
  <2>2. Cut(p) = Overflow
    BY <1>1, <1>2, <1>4 DEF Cut
  <2> QED
    BY <1>3, <2>1, <2>2 DEF p
<1>5. CASE ~(x > MaxU64)
  <2>1. Cut(x) = x /\ x # Overflow /\ y # Overflow
    BY <1>1, <1>5 DEF Cut, Overflow
  <2>2. CheckedMul(Cut(x), y) = IF p > MaxU64 THEN Overflow ELSE p
    BY <1>3, <2>1
  <2> QED
    BY <2>2 DEF Cut
<1> QED
  BY <1>4, <1>5

\* The first product is of numbers that were not computed.
LEMMA CutProduct ==
    ASSUME NEW x \in Nat, NEW y \in Nat
    PROVE  CheckedMul(x, y) = Cut(x * y)
<1>1. x # Overflow /\ y # Overflow
  BY DEF Overflow
<1> QED
  BY <1>1 DEF CheckedMul, Cut

\* Padding up to a multiple moves a number up, by less than the multiple.
LEMMA PaddedUpIs ==
    ASSUME NEW x \in Nat, NEW a \in Positive
    PROVE  PaddedUp(x, a) \in Nat /\ x <= PaddedUp(x, a) /\ PaddedUp(x, a) <= x + a - 1
<1> DEFINE w == x + a - 1
           q == w \div a
           r == w % a
<1>1. a \in Nat /\ a >= 1 /\ w \in Nat
  BY DEF Positive
<1>2. q \in Nat /\ r \in 0..(a - 1) /\ w = a * q + r
  <2> HIDE DEF w
  <2> QED
    BY <1>1
<1>3. PaddedUp(x, a) = q * a
  BY DEF PaddedUp
<1> HIDE DEF q, r
<1> DEFINE p == q * a
<1>4. p \in Nat /\ p = a * q
  BY <1>1, <1>2
<1> HIDE DEF p
<1>5. w = p + r
  BY <1>2, <1>4
<1> QED
  BY <1>1, <1>2, <1>3, <1>4, <1>5 DEF p

\* align_up, by masking, is padding up.
LEMMA CutPaddedUp ==
    ASSUME NEW x \in Nat, NEW a \in PowersOfTwo
    PROVE  AlignedUp(Cut(x), a) = Cut(PaddedUp(x, a))
<1>1. a \in Nat /\ a >= 1
  <2>1. a \in Nat \ {0}
    BY ReaderAssumption
  <2> QED
    BY <2>1
<1>2. MaxU64 \in Nat /\ (MaxU64 + 1) % a = 0
  BY ReaderAssumption
<1> DEFINE w == x + a - 1
           q == w \div a
           r == w % a
           k == (MaxU64 + 1) \div a
<1>3. w \in Nat /\ x <= w
  BY <1>1
<1>4. q \in Nat /\ r \in 0..(a - 1) /\ w = a * q + r
  <2> HIDE DEF w
  <2> QED
    BY <1>1, <1>3
<1>5. k \in Nat /\ MaxU64 + 1 = a * k
  <2> DEFINE z == MaxU64 + 1
  <2>1. z \in Nat /\ z % a = 0
    BY <1>2
  <2> HIDE DEF z
  <2>2. z = a * (z \div a) + (z % a) /\ z \div a \in Nat
    BY <1>1, <2>1
  <2>3. z = a * (z \div a)
    <3> DEFINE y == a * (z \div a)
    <3>1. y \in Nat /\ z = y + (z % a)
      BY <1>1, <2>2
    <3> HIDE DEF y
    <3>2. z = y
      BY <2>1, <3>1
    <3> QED
      BY <3>2 DEF y
  <2> QED
    BY <2>2, <2>3 DEF z
<1>6. PaddedUp(x, a) = q * a
  BY DEF PaddedUp
<1>7. AlignedUp(Cut(x), a) = IF Cut(w) = Overflow THEN Overflow ELSE Cut(w) - (Cut(w) % a)
  <2>1. a - 1 \in Nat /\ x + (a - 1) = w
    BY <1>1
  <2>2. CheckedAdd(Cut(x), a - 1) = Cut(w)
    BY <2>1, CutAdd
  <2> QED
    BY <2>2, Zenon DEF AlignedUp
<1> DEFINE p == q * a
<1>8. p \in Nat /\ p = a * q
  BY <1>1, <1>4
<1>9. CASE w <= MaxU64
  <2>1. Cut(w) = w /\ w # Overflow
    BY <1>2, <1>3, <1>9 DEF Cut, Overflow
  <2>2. AlignedUp(Cut(x), a) = w - r
    BY <1>7, <2>1
  <2> HIDE DEF w, q, r, p
  <2>3. p <= MaxU64 /\ p = w - r
    BY <1>2, <1>3, <1>4, <1>8, <1>9
  <2>4. Cut(p) = p
    BY <1>2, <1>8, <2>3 DEF Cut
  <2> QED
    BY <1>6, <2>2, <2>3, <2>4 DEF p
<1>10. CASE ~(w <= MaxU64)
  <2>1. Cut(w) = Overflow
    BY <1>2, <1>3, <1>10 DEF Cut
  <2>2. AlignedUp(Cut(x), a) = Overflow
    BY <1>7, <2>1
  <2> HIDE DEF w, q, r, k
  <2>3. q >= k
    <3>1. SUFFICES ASSUME q + 1 <= k PROVE FALSE
      BY <1>4, <1>5
    <3>2. a * (q + 1) <= a * k
      <4> DEFINE d == k - (q + 1)
      <4>1. d \in Nat /\ k = (q + 1) + d
        BY <1>4, <1>5, <3>1
      <4>2. a * k = a * (q + 1) + a * d
        <5> HIDE DEF d
        <5>1. a * ((q + 1) + d) = a * (q + 1) + a * d
          BY <1>1, <1>4, <4>1
        <5> QED
          BY <4>1, <5>1
      <4>3. a * d \in Nat
        BY <1>1, <4>1
      <4>4. a * (q + 1) \in Nat
        BY <1>1, <1>4
      <4> DEFINE u == a * d
                 v == a * (q + 1)
                 y == a * k
      <4>5. y = v + u /\ u \in Nat /\ v \in Nat
        BY <4>2, <4>3, <4>4
      <4> HIDE DEF u, v, y
      <4>6. v <= y
        BY <4>5
      <4> QED
        BY <4>6 DEF u, v, y
    <3>3. a * (q + 1) = a * q + a
      BY <1>1, <1>4
    <3> DEFINE y == a * q
    <3>4. y \in Nat
      BY <1>1, <1>4
    <3>5. y + a <= MaxU64 + 1 /\ w = y + r
      BY <1>4, <1>5, <3>2, <3>3
    <3> HIDE DEF y
    <3> QED
      BY <1>1, <1>2, <1>3, <1>4, <1>10, <3>4, <3>5
  <2>4. p >= MaxU64 + 1
    <3> DEFINE d == q - k
    <3>1. d \in Nat /\ q = k + d
      BY <1>4, <1>5, <2>3
    <3>2. a * q = a * k + a * d /\ a * d \in Nat
      <4> HIDE DEF d
      <4>1. a * (k + d) = a * k + a * d /\ a * d \in Nat
        BY <1>1, <1>5, <3>1
      <4> QED
        BY <3>1, <4>1
    <3> DEFINE u == a * d
    <3>3. u \in Nat /\ p = (MaxU64 + 1) + u
      BY <1>5, <1>8, <3>2
    <3> HIDE DEF u, p
    <3> QED
      BY <1>2, <3>3
  <2> HIDE DEF p
  <2>5. Cut(p) = Overflow
    BY <1>2, <1>8, <2>4 DEF Cut
  <2> QED
    BY <1>6, <2>2, <2>5 DEF p
<1> QED
  BY <1>9, <1>10

-----------------------------------------------------------------------------
(* GgufReader: sizes of tensors. *)

\* The strides of up to four dimensions, one at a time.
LEMMA StridesAre ==
    ASSUME NEW dims, NEW ty
    PROVE  /\ Stride(dims, ty)[2] = RowSize(ty, dims[1])
           /\ Stride(dims, ty)[3] = CheckedMul(RowSize(ty, dims[1]), dims[2])
           /\ Stride(dims, ty)[4] = CheckedMul(CheckedMul(RowSize(ty, dims[1]), dims[2]), dims[3])
<1> DEFINE R == RowSize(ty, dims[1])
           P(p) == p = [i \in 2..4 |-> IF i = 2 THEN R ELSE CheckedMul(p[i - 1], dims[i - 1])]
           stride == CHOOSE p : P(p)
           g == [i \in 2..4 |-> IF i = 2 THEN R ELSE IF i = 3 THEN CheckedMul(R, dims[2])
                                ELSE CheckedMul(CheckedMul(R, dims[2]), dims[3])]
<1>1. Stride(dims, ty) = stride
  BY DEF Stride
<1> HIDE DEF R
<1>2. P(g)
  <2>1. g[2] = R /\ g[3] = CheckedMul(R, dims[2]) /\ g[4] = CheckedMul(CheckedMul(R, dims[2]), dims[3])
    OBVIOUS
  <2>2. g = [i \in 2..4 |-> g[i]]
    OBVIOUS
  <2> HIDE DEF g
  <2>3. ASSUME NEW i \in 2..4
        PROVE  g[i] = IF i = 2 THEN R ELSE CheckedMul(g[i - 1], dims[i - 1])
    <3>1. i = 2 \/ i = 3 \/ i = 4
      OBVIOUS
    <3>2. 3 - 1 = 2 /\ 4 - 1 = 3
      OBVIOUS
    <3>3. CASE i = 3
      BY <2>1, <3>2, <3>3
    <3>4. CASE i = 4
      BY <2>1, <3>2, <3>4
    <3> QED
      BY <2>1, <3>1, <3>3, <3>4
  <2>4. g = [i \in 2..4 |-> IF i = 2 THEN R ELSE CheckedMul(g[i - 1], dims[i - 1])]
    BY <2>2, <2>3
  <2> QED
    BY <2>4
<1>3. P(stride)
  BY <1>2
<1> HIDE DEF stride
<1>4. /\ stride[2] = R
      /\ stride[3] = CheckedMul(stride[2], dims[2])
      /\ stride[4] = CheckedMul(stride[3], dims[3])
  <2>1. stride = [i \in 2..4 |-> IF i = 2 THEN R ELSE CheckedMul(stride[i - 1], dims[i - 1])]
    BY <1>3
  <2>2. 3 - 1 = 2 /\ 4 - 1 = 3
    OBVIOUS
  <2>3. stride[3] = CheckedMul(stride[3 - 1], dims[3 - 1]) /\ stride[4] = CheckedMul(stride[4 - 1], dims[4 - 1])
    BY <2>1
  <2>4. stride[2] = R
    BY <2>1
  <2> QED
    BY <2>2, <2>3, <2>4
<1> QED
  BY <1>1, <1>4 DEF R

\* How many elements a tensor of one to four dimensions has.
LEMMA ProductsAre ==
    ASSUME NEW t, NEW n \in 1..4, Len(t.dims) = n, \A i \in 1..n : t.dims[i] \in Nat
    PROVE  TensorBytes(t)
             = ((IF n = 1 THEN t.dims[1]
                 ELSE IF n = 2 THEN t.dims[1] * t.dims[2]
                 ELSE IF n = 3 THEN t.dims[1] * t.dims[2] * t.dims[3]
                 ELSE t.dims[1] * t.dims[2] * t.dims[3] * t.dims[4])
                \div BlockSize(t.ty)) * TypeSizes[t.ty]
<1> DEFINE d == t.dims[1]
           e == t.dims[2]
           f == t.dims[3]
           h == t.dims[4]
           P(p) == p = [i \in 0..Len(t.dims) |-> IF i = 0 THEN 1 ELSE p[i - 1] * t.dims[i]]
           product == CHOOSE p : P(p)
           g == [i \in 0..n |-> IF i = 0 THEN 1 ELSE IF i = 1 THEN 1 * d
                                ELSE IF i = 2 THEN 1 * d * e
                                ELSE IF i = 3 THEN 1 * d * e * f ELSE 1 * d * e * f * h]
<1>1. P(g)
  <2>1. g = [i \in 0..n |-> g[i]]
    OBVIOUS
  <2>2. ASSUME NEW i \in 0..n
        PROVE  g[i] = IF i = 0 THEN 1 ELSE g[i - 1] * t.dims[i]
    <3>1. i = 0 \/ (i # 0 /\ i - 1 \in 0..n)
      OBVIOUS
    <3>2. CASE i = 0
      BY <3>2
    <3>3. CASE i = 1
      <4>1. g[i] = 1 * d /\ g[0] = 1 /\ i - 1 = 0
        BY <3>3
      <4> QED
        BY <3>3, <4>1
    <3>4. CASE i = 2
      <4>1. g[i] = 1 * d * e /\ i - 1 = 1 /\ 1 \in 0..n
        BY <3>4
      <4>2. g[1] = 1 * d
        BY <4>1
      <4> QED
        BY <3>4, <4>1, <4>2
    <3>5. CASE i = 3
      <4>1. g[i] = 1 * d * e * f /\ i - 1 = 2 /\ 2 \in 0..n
        BY <3>5
      <4>2. g[2] = 1 * d * e
        BY <4>1
      <4> QED
        BY <3>5, <4>1, <4>2
    <3>6. CASE i = 4
      <4>1. g[i] = 1 * d * e * f * h /\ i - 1 = 3 /\ 3 \in 0..n
        BY <3>6
      <4>2. g[3] = 1 * d * e * f
        BY <4>1
      <4> QED
        BY <3>6, <4>1, <4>2
    <3>7. i = 0 \/ i = 1 \/ i = 2 \/ i = 3 \/ i = 4
      OBVIOUS
    <3> QED
      BY <3>2, <3>3, <3>4, <3>5, <3>6, <3>7
  <2> HIDE DEF g
  <2>3. g = [i \in 0..n |-> IF i = 0 THEN 1 ELSE g[i - 1] * t.dims[i]]
    BY <2>1, <2>2
  <2> QED
    BY <2>3
<1>2. P(product)
  BY <1>1
<1>3. TensorBytes(t) = (product[Len(t.dims)] \div BlockSize(t.ty)) * TypeSizes[t.ty]
  BY DEF TensorBytes
<1> HIDE DEF product
<1>4. \A i \in 1..n : product[i] = product[i - 1] * t.dims[i]
  <2>1. product = [i \in 0..n |-> IF i = 0 THEN 1 ELSE product[i - 1] * t.dims[i]]
    BY <1>2
  <2>2. \A i \in 1..n : i \in 0..n /\ i # 0
    OBVIOUS
  <2> QED
    BY <2>1, <2>2
<1>5. product[0] = 1
  <2>1. product = [i \in 0..n |-> IF i = 0 THEN 1 ELSE product[i - 1] * t.dims[i]]
    BY <1>2
  <2>2. 0 \in 0..n
    OBVIOUS
  <2> QED
    BY <2>1, <2>2
<1>6. product[1] = d /\ d \in Nat
  <2>1. 1 \in 1..n
    OBVIOUS
  <2>2. product[1] = product[1 - 1] * t.dims[1] /\ d \in Nat
    BY <1>4, <2>1
  <2> QED
    BY <1>5, <2>2
<1>7. n > 1 => product[2] = d * e
  <2>1. n > 1 => 2 \in 1..n
    OBVIOUS
  <2>2. n > 1 => product[2] = product[2 - 1] * t.dims[2]
    BY <1>4, <2>1
  <2> QED
    BY <1>6, <2>2
<1>8. n > 2 => product[3] = d * e * f
  <2>1. n > 2 => 3 \in 1..n /\ n > 1
    OBVIOUS
  <2>2. n > 2 => product[3] = product[3 - 1] * t.dims[3]
    BY <1>4, <2>1
  <2> QED
    BY <1>7, <2>1, <2>2
<1>9. n > 3 => product[4] = d * e * f * h
  <2>1. n > 3 => 4 \in 1..n /\ n > 2
    OBVIOUS
  <2>2. n > 3 => product[4] = product[4 - 1] * t.dims[4]
    BY <1>4, <2>1
  <2> QED
    BY <1>8, <2>1, <2>2
<1>10. product[n] = IF n = 1 THEN d ELSE IF n = 2 THEN d * e ELSE IF n = 3 THEN d * e * f ELSE d * e * f * h
  <2>1. n = 1 \/ n = 2 \/ n = 3 \/ n = 4
    OBVIOUS
  <2>2. CASE n = 1
    BY <1>6, <2>2
  <2>3. CASE n = 2
    BY <1>7, <2>3
  <2>4. CASE n = 3
    BY <1>8, <2>4
  <2>5. CASE n = 4
    BY <1>9, <2>5
  <2> QED
    BY <2>1, <2>2, <2>3, <2>4, <2>5
<1> QED
  BY <1>3, <1>10

\* The descriptor of a tensor in a file, as far as its size goes.
LEMMA ShapeNumbers ==
    ASSUME NEW t \in Descriptor, ShapeFine(t), MaxDimensions <= 4
    PROVE  /\ Len(t.dims) \in 1..4 /\ \A i \in 1..Len(t.dims) : t.dims[i] \in Positive
           /\ TypeSizes[t.ty] \in Nat /\ BlockSize(t.ty) \in Positive
           /\ t.dims[1] = (t.dims[1] \div BlockSize(t.ty)) * BlockSize(t.ty)
           /\ t.dims[1] \div BlockSize(t.ty) \in Nat
<1>1. t.dims \in Seq(Nat)
  BY DEF Descriptor
<1>2. MaxDimensions \in Nat
  BY ReaderAssumption
<1>3. Len(t.dims) \in 1..4
  <2> DEFINE n == Len(t.dims)
  <2>1. n \in 1..MaxDimensions
    BY DEF ShapeFine
  <2> HIDE DEF n
  <2>2. n \in 1..4
    BY <1>2, <2>1
  <2> QED
    BY <2>2 DEF n
<1>4. ASSUME NEW i \in 1..Len(t.dims) PROVE t.dims[i] \in Positive
  <2>1. t.dims[i] \in Nat /\ t.dims[i] > 0
    BY <1>1, <1>4, ElementOfSeq DEF ShapeFine
  <2> QED
    BY <2>1 DEF Positive
<1>5. TypeSizes[t.ty] \in Nat /\ BlockSize(t.ty) \in Positive
  BY TypeSizesPositive DEF ShapeFine
<1> DEFINE d == t.dims[1]
           b == BlockSize(t.ty)
<1>6. d \in Nat /\ b \in Nat /\ b > 0 /\ d % b = 0
  <2>1. 1 \in 1..Len(t.dims)
    <3> DEFINE n == Len(t.dims)
    <3>1. n \in 1..4
      BY <1>3
    <3> HIDE DEF n
    <3>2. 1 \in 1..n
      BY <3>1
    <3> QED
      BY <3>2 DEF n
  <2>2. d \in Positive /\ b \in Positive
    BY <1>4, <1>5, <2>1
  <2>3. d % b = 0
    BY DEF ShapeFine
  <2> HIDE DEF d, b
  <2> QED
    BY <2>2, <2>3 DEF Positive
<1> HIDE DEF d, b
<1>7. d \div b \in Nat /\ d = b * (d \div b) + (d % b)
  BY <1>6
<1> DEFINE q == d \div b
<1>8. q \in Nat /\ d = b * q + 0
  BY <1>6, <1>7
<1> HIDE DEF q
<1>9. d = q * b
  BY <1>6, <1>8
<1> QED
  BY <1>3, <1>4, <1>5, <1>8, <1>9 DEF q, d, b

-----------------------------------------------------------------------------

\* Whole blocks among more dimensions are whole blocks.
LEMMA WholeBlocks ==
    ASSUME NEW q \in Nat, NEW b \in Positive, NEW s \in Nat, NEW x \in Nat
    PROVE  (((q * b) * x) \div b) * s = (q * s) * x
<1>1. b \in Nat
  BY DEF Positive
<1> DEFINE k == q * x
<1>2. k \in Nat /\ (q * b) * x = k * b
  BY <1>1
<1>3. k * s = (q * s) * x
  OBVIOUS
<1> HIDE DEF k
<1>4. (k * b) \div b = k
  BY <1>2, ExactDivision
<1> QED
  BY <1>2, <1>3, <1>4

\* TensorDesc::encoded_bytes computes through strides what the shape says, cut
\* off at 64 bits.
LEMMA BytesExact ==
    ASSUME NEW t \in Descriptor, ShapeFine(t), MaxDimensions <= 4
    PROVE  TensorBytes(t) \in Nat /\ EncodedBytes(t) = Cut(TensorBytes(t))
<1> DEFINE n == Len(t.dims)
           d == t.dims[1]
           e == t.dims[2]
           f == t.dims[3]
           h == t.dims[4]
           b == BlockSize(t.ty)
           s == TypeSizes[t.ty]
           q == d \div b
           R == RowSize(t.ty, d)
           B == TensorBytes(t)
           S == Stride(t.dims, t.ty)
<1>1. n \in 1..4 /\ \A i \in 1..n : t.dims[i] \in Positive
  BY ShapeNumbers
<1>2. s \in Nat /\ b \in Positive /\ d = q * b /\ q \in Nat
  BY ShapeNumbers
<1>3. B = ((IF n = 1 THEN d ELSE IF n = 2 THEN d * e ELSE IF n = 3 THEN d * e * f ELSE d * e * f * h)
           \div b) * s
  <2>1. \A i \in 1..n : t.dims[i] \in Nat
    BY <1>1 DEF Positive
  <2>2. Len(t.dims) = n
    OBVIOUS
  <2> HIDE DEF n
  <2> QED
    BY <1>1, <2>1, <2>2, ProductsAre
<1>4. EncodedBytes(t) = IF n = 1 THEN R ELSE CheckedMul(S[n], t.dims[n])
  BY DEF EncodedBytes
<1>5. S[2] = R /\ S[3] = CheckedMul(R, e) /\ S[4] = CheckedMul(CheckedMul(R, e), f)
  BY StridesAre
<1>6. R = Cut(q * s)
  BY <1>2, CutProduct DEF RowSize
<1>7. n = 1 \/ n = 2 \/ n = 3 \/ n = 4
  <2> HIDE DEF n
  <2> QED
    BY <1>1
<1>8. /\ n > 1 => e \in Positive
      /\ n > 2 => f \in Positive
      /\ n > 3 => h \in Positive
  <2> HIDE DEF n, e, f, h
  <2>1. /\ n > 1 => 2 \in 1..n
        /\ n > 2 => 3 \in 1..n
        /\ n > 3 => 4 \in 1..n
    BY <1>1
  <2> QED
    BY <1>1, <2>1 DEF e, f, h
<1>9. EncodedBytes(t) = IF n = 1 THEN R ELSE IF n = 2 THEN CheckedMul(R, e)
                        ELSE IF n = 3 THEN CheckedMul(CheckedMul(R, e), f)
                        ELSE CheckedMul(CheckedMul(CheckedMul(R, e), f), h)
  <2> HIDE DEF n, R, S
  <2>1. CASE n = 1
    BY <1>4, <2>1
  <2>2. CASE n = 2
    BY <1>4, <1>5, <2>2
  <2>3. CASE n = 3
    BY <1>4, <1>5, <2>3
  <2>4. CASE n = 4
    BY <1>4, <1>5, <2>4
  <2> QED
    BY <1>7, <2>1, <2>2, <2>3, <2>4
<1> DEFINE c == q * s
<1>10. c \in Nat
  BY <1>2
<1> HIDE DEF n, d, e, f, h, b, s, q, R, B, S, c
<1>11. R = Cut(c)
  BY <1>6 DEF c
\* Where the blocks come first.
<1>12. ASSUME NEW x \in Nat PROVE ((d * x) \div b) * s = c * x
  BY <1>2, WholeBlocks DEF c
<1>13. CASE n = 1
  <2>1. B = (d \div b) * s
    BY <1>3, <1>13
  <2>2. B = c
    BY <2>1 DEF c, q
  <2> QED
    BY <1>9, <1>10, <1>11, <1>13, <2>2 DEF B
<1>14. CASE n = 2
  <2>1. e \in Positive /\ e \in Nat
    BY <1>8, <1>14 DEF Positive
  <2>2. B = c * e
    BY <1>3, <1>12, <1>14, <2>1
  <2>3. EncodedBytes(t) = Cut(c * e)
    BY <1>9, <1>10, <1>11, <1>14, <2>1, CutMul
  <2>4. c * e \in Nat
    BY <1>10, <2>1
  <2> QED
    BY <2>2, <2>3, <2>4 DEF B
<1>15. CASE n = 3
  <2>1. e \in Positive /\ e \in Nat /\ f \in Positive /\ f \in Nat
    BY <1>8, <1>15 DEF Positive
  <2>2. e * f \in Nat /\ c * e \in Nat /\ d \in Nat
    BY <1>1, <1>10, <2>1 DEF Positive, d
  <2>3. d * e * f = d * (e * f) /\ c * (e * f) = (c * e) * f
    BY <1>10, <2>1, <2>2
  <2>4. B = ((d * (e * f)) \div b) * s
    BY <1>3, <1>15, <2>3
  <2>5. B = (c * e) * f
    BY <1>12, <2>2, <2>3, <2>4
  <2>6. CheckedMul(R, e) = Cut(c * e)
    BY <1>10, <1>11, <2>1, CutMul
  <2>7. EncodedBytes(t) = Cut((c * e) * f)
    BY <1>9, <1>15, <2>1, <2>2, <2>6, CutMul
  <2>8. (c * e) * f \in Nat
    BY <2>1, <2>2
  <2> QED
    BY <2>5, <2>7, <2>8 DEF B
<1>16. CASE n = 4
  <2>1. e \in Positive /\ e \in Nat /\ f \in Positive /\ f \in Nat /\ h \in Positive /\ h \in Nat
    BY <1>8, <1>16 DEF Positive
  <2>2. e * f * h \in Nat /\ c * e \in Nat /\ (c * e) * f \in Nat /\ d \in Nat
    BY <1>1, <1>10, <2>1 DEF Positive, d
  <2>3. d * e * f * h = d * (e * f * h) /\ c * (e * f * h) = ((c * e) * f) * h
    BY <1>10, <2>1, <2>2
  <2>4. B = ((d * (e * f * h)) \div b) * s
    BY <1>3, <1>16, <2>3
  <2>5. B = ((c * e) * f) * h
    BY <1>12, <2>2, <2>3, <2>4
  <2>6. CheckedMul(R, e) = Cut(c * e)
    BY <1>10, <1>11, <2>1, CutMul
  <2>7. CheckedMul(CheckedMul(R, e), f) = Cut((c * e) * f)
    BY <2>1, <2>2, <2>6, CutMul
  <2>8. EncodedBytes(t) = Cut(((c * e) * f) * h)
    BY <1>9, <1>16, <2>1, <2>2, <2>7, CutMul
  <2>9. ((c * e) * f) * h \in Nat
    BY <2>1, <2>2
  <2> QED
    BY <2>5, <2>8, <2>9 DEF B
<1> QED
  BY <1>7, <1>13, <1>14, <1>15, <1>16

\* TensorDesc::new takes the shapes of the reference whose size is no overflow,
\* and no other shape.
LEMMA DescriptorsFine ==
    ASSUME NEW t \in Descriptor, MaxDimensions <= 4
    PROVE  /\ DescriptorValid(t) => ShapeFine(t)
           /\ ShapeFine(t) /\ TensorBytes(t) <= MaxU64 => DescriptorValid(t)
<1> DEFINE n == Len(t.dims)
           S == Stride(t.dims, t.ty)[n]
           R == RowSize(t.ty, t.dims[1])
<1>1. MaxDimensions \in Nat /\ MaxU64 \in Nat
  BY ReaderAssumption
<1>2. ASSUME DescriptorValid(t) PROVE ShapeFine(t)
  <2>1. n \in 1..4 /\ n <= MaxDimensions
    BY <1>2 DEF DescriptorValid
  <2>2. n \in 1..MaxDimensions
    <3> HIDE DEF n
    <3> QED
      BY <1>1, <2>1
  <2> QED
    BY <1>2, <2>2, Zenon DEF DescriptorValid, ShapeFine
<1>3. ASSUME ShapeFine(t), TensorBytes(t) <= MaxU64 PROVE DescriptorValid(t)
  <2>1. n \in 1..4 /\ n \in 1..MaxDimensions
    <3>1. n \in 1..4
      BY <1>3, ShapeNumbers
    <3>2. n \in 1..MaxDimensions
      BY <1>3 DEF ShapeFine
    <3> QED
      BY <3>1, <3>2
  <2>2. n <= MaxDimensions
    <3> HIDE DEF n
    <3> QED
      BY <1>1, <2>1
  <2>3. EncodedBytes(t) # Overflow
    <3>1. TensorBytes(t) \in Nat /\ EncodedBytes(t) = Cut(TensorBytes(t))
      BY <1>3, BytesExact
    <3> QED
      BY <1>1, <1>3, <3>1 DEF Cut, Overflow
  <2>4. EncodedBytes(t) = IF n = 1 THEN R ELSE CheckedMul(S, t.dims[n])
    BY DEF EncodedBytes
  <2>5. IF n = 1 THEN R # Overflow ELSE S # Overflow
    <3> HIDE DEF n, R, S
    <3> QED
      BY <2>3, <2>4 DEF CheckedMul
  <2> QED
    BY <1>3, <2>1, <2>2, <2>5, Zenon DEF DescriptorValid, ShapeFine
<1> QED
  BY <1>2, <1>3

-----------------------------------------------------------------------------
(* GgufReader: the elements of an array, one after the other. *)

\* The function TakeElements chooses.
IsTaken(s, r, elem, items, n) ==
    s = [k \in 0..n |-> IF k = 0 THEN r ELSE TakePlaces(TakeScalar(s[k - 1], elem, items[k]), 1)]

\* There is such a function up to every number.
LEMMA TakenExists ==
    ASSUME NEW r, NEW elem, NEW items, NEW n \in Nat
    PROVE  \E s : IsTaken(s, r, elem, items, n)
<1> DEFINE F(q, k) == TakePlaces(TakeScalar(q, elem, items[k]), 1)
           S == {k \in Nat : \E s : IsTaken(s, r, elem, items, k)}
<1>1. \A s, k : IsTaken(s, r, elem, items, k)
                  <=> s = [i \in 0..k |-> IF i = 0 THEN r ELSE F(s[i - 1], i)]
  BY DEF IsTaken
<1> HIDE DEF F
<1>2. 0 \in S
  <2> DEFINE s == [i \in 0..0 |-> r]
  <2>1. \A i \in 0..0 : i = 0
    OBVIOUS
  <2>2. s = [i \in 0..0 |-> IF i = 0 THEN r ELSE F(s[i - 1], i)]
    <3> HIDE DEF s
    <3>1. [i \in 0..0 |-> IF i = 0 THEN r ELSE F(s[i - 1], i)] = [i \in 0..0 |-> r]
      BY <2>1
    <3> QED
      BY <3>1 DEF s
  <2>3. IsTaken(s, r, elem, items, 0)
    BY <1>1, <2>2
  <2> QED
    BY <2>3
<1>3. ASSUME NEW k \in S PROVE k + 1 \in S
  <2>1. PICK s : IsTaken(s, r, elem, items, k)
    OBVIOUS
  <2>2. k \in Nat /\ k + 1 \in Nat
    OBVIOUS
  <2> DEFINE u == [i \in 0..(k + 1) |-> IF i <= k THEN s[i] ELSE F(s[k], k + 1)]
             v == [i \in 0..(k + 1) |-> IF i = 0 THEN r ELSE F(u[i - 1], i)]
  <2>3. s = [i \in 0..k |-> IF i = 0 THEN r ELSE F(s[i - 1], i)]
    BY <1>1, <2>1
  <2>4. ASSUME NEW i \in 0..(k + 1) PROVE u[i] = v[i]
    <3>1. v[i] = IF i = 0 THEN r ELSE F(u[i - 1], i)
      OBVIOUS
    <3>2. CASE i = 0
      <4>1. u[i] = s[0] /\ 0 \in 0..k
        BY <2>2, <3>2
      <4>2. s[0] = r
        BY <2>3, <4>1
      <4> QED
        BY <3>1, <3>2, <4>1, <4>2
    <3>3. CASE i # 0
      <4>1. i \in Int /\ i - 1 \in 0..k /\ i - 1 \in 0..(k + 1)
        BY <2>2, <3>3
      <4>2. u[i - 1] = s[i - 1]
        BY <4>1
      <4>3. CASE i <= k
        <5>1. i \in 0..k
          BY <4>3
        <5>2. s[i] = F(s[i - 1], i)
          BY <2>3, <3>3, <5>1
        <5> QED
          BY <3>1, <3>3, <4>2, <4>3, <5>2
      <4>4. CASE ~(i <= k)
        <5>1. i = k + 1 /\ i - 1 = k
          BY <2>2, <4>4
        <5>2. u[i] = F(s[k], k + 1)
          BY <4>4
        <5> QED
          BY <3>1, <3>3, <4>2, <5>1, <5>2
      <4> QED
        BY <4>3, <4>4
    <3> QED
      BY <3>2, <3>3
  <2>5. u = v
    <3>1. u = [i \in 0..(k + 1) |-> u[i]] /\ v = [i \in 0..(k + 1) |-> v[i]]
      OBVIOUS
    <3> HIDE DEF u, v
    <3> QED
      BY <2>4, <3>1
  <2>6. IsTaken(u, r, elem, items, k + 1)
    BY <1>1, <2>5
  <2> HIDE DEF u, v
  <2> QED
    BY <2>2, <2>6
<1>4. S \in SUBSET Nat
  OBVIOUS
<1> HIDE DEF S
<1>5. n \in S
  BY <1>2, <1>3, <1>4, EveryNatural
<1> QED
  BY <1>5 DEF S

\* TakeElements, turn by turn.
Successive(s, r, elem, items) ==
    /\ TakeElements(r, elem, items) = s[Len(items)] /\ s[0] = r
    /\ \A k \in 0..(Len(items) - 1) :
          s[k + 1] = TakePlaces(TakeScalar(s[k], elem, items[k + 1]), 1)

LEMMA ElementsTaken ==
    ASSUME NEW r, NEW elem, NEW items \in Seq(Item)
    PROVE  \E s : Successive(s, r, elem, items)
<1> DEFINE n == Len(items)
           s == CHOOSE s : IsTaken(s, r, elem, items, n)
<1>1. n \in Nat
  OBVIOUS
<1>2. TakeElements(r, elem, items) = s[n]
  BY DEF TakeElements, IsTaken
<1>3. IsTaken(s, r, elem, items, n)
  <2> HIDE DEF n
  <2> QED
    BY <1>1, TakenExists
<1> HIDE DEF s, n
<1>4. s[0] = r
  <2>1. 0 \in 0..n
    BY <1>1
  <2> QED
    BY <1>3, <2>1 DEF IsTaken
<1>5. ASSUME NEW k \in 0..(n - 1) PROVE s[k + 1] = TakePlaces(TakeScalar(s[k], elem, items[k + 1]), 1)
  <2>1. k + 1 \in 0..n /\ k + 1 # 0 /\ (k + 1) - 1 = k
    BY <1>1
  <2>2. s[k + 1] = TakePlaces(TakeScalar(s[(k + 1) - 1], elem, items[k + 1]), 1)
    BY <1>3, <2>1 DEF IsTaken
  <2> QED
    BY <2>1, <2>2
<1> QED
  BY <1>2, <1>4, <1>5 DEF n, Successive

-----------------------------------------------------------------------------
(* GgufReader: what the strings and vectors of a file cost. *)

\* What the costs are counted in.
Measured(r) ==
    /\ {"phase", "pos", "metadataBytes", "next", "held", "slots"} \subseteq DOMAIN r
    /\ r.pos \in Nat /\ r.metadataBytes \in Nat /\ r.next \in Nat /\ r.held \in Nat /\ r.slots \in Nat

\* What was read pays for what is held, but for the last string where the
\* reader has given up.
Paid(r) ==
    /\ Measured(r) /\ r.next # 0
    /\ r.metadataBytes <= MaxMetadataBytes /\ r.metadataBytes <= r.pos
    /\ r.held <= 2 * r.metadataBytes + MaxStringBytes
    /\ r.slots <= r.pos
    /\ ~Failed(r) => r.held <= 2 * r.metadataBytes

\* A reader that goes on has as many bytes and places over.
Credit(r, bytes, places) ==
    Paid(r) /\ (~Failed(r) => r.held + bytes <= 2 * r.metadataBytes /\ r.slots + places <= r.pos)

\* What the limits are.
LEMMA LimitsNatural == {MaxStringBytes, MaxMetadataBytes, MaxArrayElements} \subseteq Nat
<1>1. MaxU64 \in Nat /\ {MaxStringBytes, MaxMetadataBytes, MaxArrayElements} \subseteq 0..MaxU64
  BY ReaderAssumption
<1> QED
  BY <1>1

\* Less is over where more is.
LEMMA CreditLess ==
    ASSUME NEW r, NEW b \in Nat, NEW p \in Nat, NEW c \in 0..b, NEW q \in 0..p, Credit(r, b, p)
    PROVE  Credit(r, c, q)
BY DEF Credit, Paid, Measured

\* Giving up keeps what is held.
LEMMA FailPaid ==
    ASSUME NEW r, Paid(r), NEW b, NEW p
    PROVE  Credit(Fail(r), b, p) /\ Failed(Fail(r))
<1> DEFINE q == [r EXCEPT !.phase = "refused"]
<1>1. /\ Measured(q) /\ q.phase = "refused" /\ q.next = r.next /\ q.pos = r.pos
      /\ q.metadataBytes = r.metadataBytes /\ q.held = r.held /\ q.slots = r.slots
  BY DEF Paid, Measured
<1> HIDE DEF q
<1>2. Failed(q) /\ Fail(r) = q
  BY <1>1 DEF Failed, Fail, q
<1>3. Paid(q)
  BY <1>1, <1>2 DEF Paid
<1> QED
  BY <1>2, <1>3 DEF Credit

\* Reading n bytes of metadata pays for twice as many bytes of strings.
LEMMA TakePays ==
    ASSUME NEW r, NEW b \in Nat, NEW p \in Nat, NEW n \in Nat, NEW counted \in BOOLEAN,
           Measured(r), r.next # 0,
           r.metadataBytes <= MaxMetadataBytes, r.metadataBytes <= r.pos,
           r.held <= 2 * r.metadataBytes + MaxStringBytes, r.slots <= r.pos,
           ~Failed(r) => /\ r.held + b <= 2 * r.metadataBytes + IF counted THEN 2 * n ELSE 0
                         /\ r.slots + p <= r.pos + n
    PROVE  Credit(Take(r, n, counted), b, p)
<1> DEFINE t == Take(r, n, counted)
           d == IF counted THEN n ELSE 0
<1>1. /\ r.pos \in Nat /\ r.metadataBytes \in Nat /\ r.held \in Nat /\ r.slots \in Nat
      /\ MaxStringBytes \in Nat /\ MaxMetadataBytes \in Nat /\ MaxU64 \in Nat /\ d \in Nat /\ d <= n
  BY LimitsNatural, ReaderAssumption DEF Measured
<1>2. CASE t = Fail(r)
  <2> DEFINE q == [r EXCEPT !.phase = "refused"]
  <2>1. /\ Measured(q) /\ q.phase = "refused" /\ q.next = r.next /\ q.pos = r.pos
        /\ q.metadataBytes = r.metadataBytes /\ q.held = r.held /\ q.slots = r.slots
    BY DEF Measured
  <2> HIDE DEF q
  <2>2. Failed(q) /\ t = q
    BY <1>2, <2>1 DEF Failed, Fail, q
  <2>3. Paid(q)
    BY <2>1, <2>2 DEF Paid
  <2> HIDE DEF t
  <2> QED
    BY <2>2, <2>3 DEF Credit, t
<1>3. CASE t # Fail(r)
  <2> DEFINE g == [r EXCEPT !.pos = @ + n]
             q == [g EXCEPT !.metadataBytes = @ + d]
  <2>1. ~Failed(r) /\ (counted => CheckedAdd(r.metadataBytes, n) \in 0..MaxMetadataBytes)
        /\ t = [r EXCEPT !.pos = @ + n, !.metadataBytes = IF counted THEN @ + n ELSE @]
    BY <1>3 DEF Take
  <2>2. t = q
    <3>1. [r EXCEPT !.pos = @ + n, !.metadataBytes = IF counted THEN @ + n ELSE @]
            = [g EXCEPT !.metadataBytes = IF counted THEN @ + n ELSE @]
      OBVIOUS
    <3>2. Measured(g)
      BY <1>1 DEF Measured
    <3> HIDE DEF g
    <3>3. g.metadataBytes \in Nat
      BY <3>2 DEF Measured
    <3>4. g.metadataBytes + d = IF counted THEN g.metadataBytes + n ELSE g.metadataBytes
      BY <1>1, <3>3
    <3>5. [g EXCEPT !.metadataBytes = IF counted THEN @ + n ELSE @] = q
      BY <3>4
    <3> QED
      BY <2>1, <3>1, <3>5
  <2>3. Measured(g) /\ g.phase = r.phase /\ g.next = r.next /\ g.pos = r.pos + n
        /\ g.metadataBytes = r.metadataBytes /\ g.held = r.held /\ g.slots = r.slots
    BY <1>1 DEF Measured
  <2> HIDE DEF g
  <2>4. Measured(q) /\ q.phase = r.phase /\ q.next = r.next /\ q.pos = r.pos + n
        /\ q.metadataBytes = r.metadataBytes + d /\ q.held = r.held /\ q.slots = r.slots
    BY <1>1, <2>3 DEF Measured
  <2> HIDE DEF q
  <2>5. q.metadataBytes <= MaxMetadataBytes
    <3>1. CASE counted
      BY <1>1, <2>1, <2>4, <3>1 DEF CheckedAdd, Overflow
    <3>2. CASE ~counted
      BY <1>1, <2>4, <3>2
    <3> QED
      BY <3>1, <3>2
  <2>6. IF counted THEN 2 * n = 2 * d ELSE 0 = 2 * d
    OBVIOUS
  <2> HIDE DEF d
  <2>7. q.held + b <= 2 * q.metadataBytes /\ q.slots + p <= q.pos
    BY <1>1, <2>1, <2>4, <2>6
  <2>8. Paid(q)
    BY <1>1, <2>4, <2>5, <2>7 DEF Paid
  <2> QED
    BY <2>2, <2>7, <2>8 DEF Credit
<1> QED
  BY <1>2, <1>3

\* Reading n bytes where so much is over.
LEMMA TakePaid ==
    ASSUME NEW r, NEW b \in Nat, NEW p \in Nat, NEW n \in Nat, Credit(r, b, p)
    PROVE  Credit(Take(r, n, TRUE), b + 2 * n, p + n) /\ Credit(Take(r, n, FALSE), b, p + n)
<1>1. /\ Measured(r) /\ r.next # 0
      /\ r.metadataBytes <= MaxMetadataBytes /\ r.metadataBytes <= r.pos
      /\ r.held <= 2 * r.metadataBytes + MaxStringBytes /\ r.slots <= r.pos
      /\ ~Failed(r) => r.held + b <= 2 * r.metadataBytes /\ r.slots + p <= r.pos
      /\ r.held \in Nat /\ r.metadataBytes \in Nat /\ r.slots \in Nat /\ r.pos \in Nat
  BY DEF Credit, Paid, Measured
<1> DEFINE c == b + 2 * n
           q == p + n
<1>2. c \in Nat /\ q \in Nat /\ TRUE \in BOOLEAN /\ FALSE \in BOOLEAN
  OBVIOUS
<1>3. ~Failed(r) => /\ r.held + c <= 2 * r.metadataBytes + IF TRUE THEN 2 * n ELSE 0
                    /\ r.slots + q <= r.pos + n
  BY <1>1
<1>4. ~Failed(r) => /\ r.held + b <= 2 * r.metadataBytes + IF FALSE THEN 2 * n ELSE 0
                    /\ r.slots + q <= r.pos + n
  BY <1>1
<1> HIDE DEF c, q
<1>5. Credit(Take(r, n, TRUE), c, q)
  BY <1>1, <1>2, <1>3, TakePays, Zenon
<1>6. Credit(Take(r, n, FALSE), b, q)
  BY <1>1, <1>2, <1>4, TakePays, Zenon
<1> QED
  BY <1>5, <1>6 DEF c, q

\* A string is allocated before it is read, and paid for by reading it.
LEMMA StringPaid ==
    ASSUME NEW r, NEW b \in Nat, NEW p \in Nat, NEW len \in Nat, NEW utf8, Credit(r, b, p)
    PROVE  Credit(TakeString(r, len, utf8), b + 16 + len, p + 8 + len)
<1> DEFINE h == Take(r, 8, TRUE)
           g == [h EXCEPT !.held = @ + len]
           s == Take(g, len, TRUE)
<1>1. Credit(h, b + 16, p + 8) /\ Paid(h)
  <2>1. 8 \in Nat /\ b + 2 * 8 = b + 16
    OBVIOUS
  <2>2. Credit(h, b + 2 * 8, p + 8)
    BY <2>1, TakePaid, Zenon
  <2> HIDE DEF h
  <2>3. Credit(h, b + 16, p + 8)
    BY <2>1, <2>2
  <2> QED
    BY <2>3 DEF Credit
<1>2. TakeString(r, len, utf8)
        = IF Failed(h) \/ len > MaxStringBytes THEN Fail(h) ELSE IF utf8 THEN s ELSE Fail(s)
  BY DEF TakeString
<1> HIDE DEF h
<1>3. CASE Failed(h) \/ len > MaxStringBytes
  BY <1>1, <1>2, <1>3, FailPaid
<1>4. CASE ~(Failed(h) \/ len > MaxStringBytes)
  <2>1. /\ Measured(h) /\ h.pos \in Nat /\ h.metadataBytes \in Nat /\ h.held \in Nat
        /\ h.slots \in Nat /\ MaxStringBytes \in Nat /\ len <= MaxStringBytes
    BY <1>1, <1>4, LimitsNatural DEF Paid, Measured
  <2>2. /\ Measured(g) /\ g.phase = h.phase /\ g.next = h.next /\ g.pos = h.pos
        /\ g.metadataBytes = h.metadataBytes /\ g.held = h.held + len /\ g.slots = h.slots
    BY <2>1 DEF Measured
  <2> HIDE DEF g
  <2> DEFINE c == b + 16 + len
             d == p + 8 + len
  <2>3. /\ ~Failed(g) => /\ g.held + c <= 2 * g.metadataBytes + IF TRUE THEN 2 * len ELSE 0
                         /\ g.slots + d <= g.pos + len
        /\ g.held <= 2 * g.metadataBytes + MaxStringBytes
        /\ g.metadataBytes <= MaxMetadataBytes /\ g.metadataBytes <= g.pos /\ g.slots <= g.pos
        /\ g.next # 0
    BY <1>1, <1>4, <2>1, <2>2 DEF Credit, Paid
  <2>4. c \in Nat /\ d \in Nat /\ TRUE \in BOOLEAN
    OBVIOUS
  <2> HIDE DEF c, d
  <2>5. Credit(s, c, d)
    BY <2>2, <2>3, <2>4, TakePays, Zenon
  <2> HIDE DEF s
  <2>6. Credit(Fail(s), c, d)
    BY <2>5, FailPaid DEF Credit
  <2> QED
    BY <1>2, <1>4, <2>5, <2>6 DEF c, d
<1> QED
  BY <1>3, <1>4

\* A place in a vector, and a copy of a key.
LEMMA PushPaid ==
    ASSUME NEW r, NEW b \in Nat, NEW p \in Nat, NEW n \in Nat
    PROVE  /\ Credit(r, b, p + n) => Credit(TakePlaces(r, n), b, p)
           /\ Credit(r, b + n, p) => Credit(CloneKey(r, n), b, p)
<1>1. ASSUME Credit(r, b, p + n) PROVE Credit(TakePlaces(r, n), b, p)
  <2>1. CASE Failed(r)
    BY <1>1, <2>1 DEF TakePlaces, Credit
  <2>2. CASE ~Failed(r)
    <3> DEFINE q == [r EXCEPT !.slots = @ + n]
    <3>1. Measured(r) /\ r.slots \in Nat /\ r.pos \in Nat /\ r.metadataBytes \in Nat /\ r.held \in Nat
      BY <1>1 DEF Credit, Paid, Measured
    <3>2. /\ Measured(q) /\ q.phase = r.phase /\ q.next = r.next /\ q.pos = r.pos
          /\ q.metadataBytes = r.metadataBytes /\ q.held = r.held /\ q.slots = r.slots + n
      BY <3>1 DEF Measured
    <3>3. TakePlaces(r, n) = q
      BY <2>2 DEF TakePlaces
    <3> HIDE DEF q
    <3> QED
      BY <1>1, <2>2, <3>1, <3>2, <3>3 DEF Credit, Paid, Failed
  <2> QED
    BY <2>1, <2>2
<1>2. ASSUME Credit(r, b + n, p) PROVE Credit(CloneKey(r, n), b, p)
  <2>1. CASE Failed(r)
    BY <1>2, <2>1 DEF CloneKey, Credit
  <2>2. CASE ~Failed(r)
    <3> DEFINE q == [r EXCEPT !.held = @ + n]
    <3>1. Measured(r) /\ r.slots \in Nat /\ r.pos \in Nat /\ r.metadataBytes \in Nat /\ r.held \in Nat
          /\ MaxStringBytes \in Nat
      BY <1>2, LimitsNatural DEF Credit, Paid, Measured
    <3>2. /\ Measured(q) /\ q.phase = r.phase /\ q.next = r.next /\ q.pos = r.pos
          /\ q.metadataBytes = r.metadataBytes /\ q.held = r.held + n /\ q.slots = r.slots
      BY <3>1 DEF Measured
    <3>3. CloneKey(r, n) = q
      BY <2>2 DEF CloneKey
    <3> HIDE DEF q
    <3> QED
      BY <1>2, <2>2, <3>1, <3>2, <3>3 DEF Credit, Paid, Failed
  <2> QED
    BY <2>1, <2>2
<1> QED
  BY <1>1, <1>2

\* The sizes of values.
LEMMA Widths ==
    ASSUME NEW ty \in ValueTypes \ {"Array"}
    PROVE  Width(ty) \in Nat /\ Width(ty) >= 1 /\ (ty = "String" => Width(ty) = 8)
BY DEF Width, ValueTypes

\* A value that is no array is read from a byte at least.
LEMMA ScalarPaid ==
    ASSUME NEW r, NEW ty \in ValueTypes \ {"Array"}, NEW x \in Item, NEW b \in Nat, NEW p \in Nat,
           Credit(r, b, p)
    PROVE  Credit(TakeScalar(r, ty, x), b, p + 1)
<1>1. CASE ty = "String"
  <2>1. x.len \in Nat /\ TakeScalar(r, ty, x) = TakeString(r, x.len, x.utf8)
    BY <1>1 DEF TakeScalar, Item
  <2> DEFINE n == x.len
  <2>2. Credit(TakeScalar(r, ty, x), b + 16 + n, p + 8 + n)
    BY <2>1, StringPaid
  <2>3. n \in Nat
    BY <2>1
  <2> HIDE DEF n
  <2>4. b + 16 + n \in Nat /\ p + 8 + n \in Nat /\ b \in 0..(b + 16 + n) /\ p + 1 \in 0..(p + 8 + n)
    BY <2>3
  <2> QED
    BY <2>2, <2>4, CreditLess
<1>2. CASE ty = "Bool" /\ x.val > 1
  <2>1. Credit(Take(r, 1, TRUE), b + 2 * 1, p + 1)
    BY TakePaid
  <2>2. TakeScalar(r, ty, x) = Fail(Take(r, 1, TRUE))
    BY <1>2 DEF TakeScalar
  <2> QED
    BY <2>1, <2>2, FailPaid DEF Credit
<1>3. CASE ty # "String" /\ ~(ty = "Bool" /\ x.val > 1)
  <2> DEFINE n == Width(ty)
  <2>1. TakeScalar(r, ty, x) = Take(r, n, TRUE)
    BY <1>3 DEF TakeScalar
  <2>2. n \in Nat /\ n >= 1
    BY Widths
  <2> HIDE DEF n
  <2> DEFINE c == b + 2 * n
             d == p + n
  <2>3. Credit(Take(r, n, TRUE), c, d)
    BY <2>2, TakePaid
  <2>4. c \in Nat /\ d \in Nat /\ b \in 0..c /\ p + 1 \in 0..d
    BY <2>2
  <2> HIDE DEF c, d
  <2>5. Credit(Take(r, n, TRUE), b, p + 1)
    BY <2>3, <2>4, CreditLess, Zenon
  <2> QED
    BY <2>1, <2>5
<1> QED
  BY <1>1, <1>2, <1>3

\* The elements of an array pay for their places.
LEMMA ElementsPaid ==
    ASSUME NEW r, NEW elem \in ValueTypes \ {"Array"}, NEW items \in Seq(Item),
           NEW b \in Nat, NEW p \in Nat, Credit(r, b, p)
    PROVE  Credit(TakeElements(r, elem, items), b, p)
<1> DEFINE n == Len(items)
<1>1. PICK s : /\ TakeElements(r, elem, items) = s[n] /\ s[0] = r
               /\ \A k \in 0..(n - 1) : s[k + 1] = TakePlaces(TakeScalar(s[k], elem, items[k + 1]), 1)
  BY ElementsTaken DEF Successive
<1> DEFINE K == {k \in Nat : k <= n => Credit(s[k], b, p)}
<1>2. n \in Nat /\ \A k \in 1..n : items[k] \in Item
  OBVIOUS
<1> HIDE DEF n
<1>3. 0 \in K
  BY <1>1
<1>4. ASSUME NEW k \in K PROVE k + 1 \in K
  <2>1. SUFFICES ASSUME k + 1 <= n PROVE Credit(s[k + 1], b, p)
    OBVIOUS
  <2>2. k \in Nat /\ k \in 0..(n - 1) /\ k + 1 \in 1..n /\ k <= n
    BY <1>2, <2>1
  <2>3. Credit(s[k], b, p)
    BY <2>2
  <2>4. Credit(TakeScalar(s[k], elem, items[k + 1]), b, p + 1)
    BY <1>2, <2>2, <2>3, ScalarPaid
  <2>5. Credit(TakePlaces(TakeScalar(s[k], elem, items[k + 1]), 1), b, p)
    BY <2>4, PushPaid
  <2> QED
    BY <1>1, <2>2, <2>5
<1>5. K \in SUBSET Nat
  OBVIOUS
<1> HIDE DEF K
<1>6. n \in K
  BY <1>2, <1>3, <1>4, <1>5, EveryNatural
<1>7. Credit(s[n], b, p)
  BY <1>2, <1>6 DEF K
<1> QED
  BY <1>1, <1>7

\* read_value, for each type.
LEMMA ValuePaid ==
    ASSUME NEW r, NEW e \in Entry, e.ty \in ValueTypes, NEW b \in Nat, NEW p \in Nat, Credit(r, b, p)
    PROVE  Credit(TakeValue(r, e), b, p)
<1>1. e.value \in Item /\ e.items \in Seq(Item)
  BY DEF Entry
<1>2. CASE e.ty # "Array"
  <2>1. TakeValue(r, e) = TakeScalar(r, e.ty, e.value)
    BY <1>2 DEF TakeValue
  <2>2. Credit(TakeScalar(r, e.ty, e.value), b, p + 1)
    BY <1>1, <1>2, ScalarPaid
  <2>3. b \in 0..b /\ p \in 0..(p + 1) /\ p + 1 \in Nat
    OBVIOUS
  <2> QED
    BY <2>1, <2>2, <2>3, CreditLess
<1>3. CASE e.ty = "Array"
  <2> DEFINE h == Take(r, 12, TRUE)
             n == Len(e.items)
             g == [h EXCEPT !.arrayElements = @ + n]
  <2>1. Credit(h, b, p) /\ Paid(h)
    <3>1. Credit(h, b + 2 * 12, p + 12)
      BY TakePaid
    <3>2. b \in 0..(b + 2 * 12) /\ p \in 0..(p + 12) /\ b + 2 * 12 \in Nat /\ p + 12 \in Nat
      OBVIOUS
    <3> HIDE DEF h
    <3>3. Credit(h, b, p)
      BY <3>1, <3>2, CreditLess
    <3> QED
      BY <3>3 DEF Credit
  <2>2. TakeValue(r, e)
          = IF \/ Failed(h) \/ e.elem \notin ValueTypes \ {"Array"} \/ ~ArrayBudget(h, e.elem, n)
            THEN Fail(h) ELSE TakeElements(g, e.elem, e.items)
    BY <1>3 DEF TakeValue, TakeArray
  <2>3. n \in Nat
    BY <1>1
  <2> HIDE DEF h, n
  <2>4. Credit(g, b, p)
    <3>1. /\ Measured(g) /\ g.phase = h.phase /\ g.next = h.next /\ g.pos = h.pos
          /\ g.metadataBytes = h.metadataBytes /\ g.held = h.held /\ g.slots = h.slots
      BY <2>1, <2>3 DEF Paid, Measured
    <3> HIDE DEF g
    <3> QED
      BY <2>1, <3>1 DEF Credit, Paid, Failed
  <2> HIDE DEF g
  <2>5. Credit(Fail(h), b, p)
    BY <2>1, FailPaid
  <2> QED
    BY <1>1, <2>2, <2>4, <2>5, ElementsPaid
<1> QED
  BY <1>2, <1>3

\* The file is one of those there are, and what it has cost is paid for.
ReaderInv == gguf \in GgufFiles /\ Paid(reader)

\* The next turn of a loop.
LEMMA NextPaid ==
    ASSUME NEW r, Paid(r)
    PROVE  Paid([r EXCEPT !.next = @ + 1])
<1> DEFINE q == [r EXCEPT !.next = @ + 1]
<1>1. /\ Measured(q) /\ q.phase = r.phase /\ q.next = r.next + 1 /\ q.pos = r.pos
      /\ q.metadataBytes = r.metadataBytes /\ q.held = r.held /\ q.slots = r.slots
      /\ r.next \in Nat
  BY DEF Paid, Measured
<1> HIDE DEF q
<1>2. Paid(q)
  BY <1>1 DEF Paid, Failed
<1> QED
  BY <1>2 DEF q

\* What is over is not needed.
LEMMA CreditPaid ==
    ASSUME NEW r
    PROVE  (Paid(r) <=> Credit(r, 0, 0)) /\ \A b, p : Credit(r, b, p) => Paid(r)
<1>1. ASSUME Paid(r) PROVE Credit(r, 0, 0)
  <2>1. r.held \in Nat /\ r.slots \in Nat
    BY <1>1 DEF Paid, Measured
  <2> QED
    BY <1>1, <2>1 DEF Credit, Paid
<1> QED
  BY <1>1 DEF Credit

\* Every turn of the reader's loops.
LEMMA ReaderNextInv ==
    ASSUME ReaderInv, [ReaderNext]_readerVars
    PROVE  ReaderInv'
<1> USE DEF ReaderInv
<1>1. CASE UNCHANGED readerVars
  BY <1>1 DEF readerVars, Paid, Failed
<1>2. ASSUME ReaderNext PROVE gguf' = gguf
  BY <1>2 DEF ReaderNext, ReadHeader, ReadMetadata, ReadAlignment, ReadTensor, LocateData,
              CheckExtent, FinishExtents, ReaderAt
<1>3. Credit(reader, 0, 0) /\ Measured(reader) /\ reader.next \in Nat \ {0}
  BY CreditPaid DEF Paid, Measured
<1>4. ASSUME ReadHeader PROVE Paid(reader')
  <2> DEFINE h == Take(reader, 24, FALSE)
             q == [h EXCEPT !.phase = "metadata"]
  <2>1. Credit(h, 0, 0 + 24) /\ Paid(h)
    BY <1>3, TakePaid, CreditPaid
  <2>2. reader' = Fail(h) \/ (~Failed(h) /\ reader' = q)
    BY <1>4 DEF ReadHeader
  <2> HIDE DEF h
  <2>3. /\ Measured(q) /\ q.phase = "metadata" /\ q.next = h.next /\ q.pos = h.pos
        /\ q.metadataBytes = h.metadataBytes /\ q.held = h.held /\ q.slots = h.slots
    BY <2>1 DEF Paid, Measured
  <2> HIDE DEF q
  <2>4. ~Failed(h) => Paid(q)
    BY <2>1, <2>3 DEF Paid
  <2>5. Paid(Fail(h))
    BY <2>1, FailPaid, CreditPaid
  <2> QED
    BY <2>2, <2>4, <2>5
<1>5. ASSUME ReadMetadata PROVE Paid(reader')
  <2>1. CASE reader' = Fail(reader)
    BY <2>1, FailPaid, CreditPaid
  <2>2. CASE reader' # Fail(reader)
    <3> DEFINE e == gguf.metadata[reader.next]
               n == e.keyLen
               s == TakeString(reader, n, e.keyUtf8)
               h == Take(s, 4, TRUE)
               v == IF Failed(h) \/ e.ty \notin ValueTypes THEN Fail(h) ELSE CloneKey(TakeValue(h, e), n)
    <3>1. /\ e \in Entry
          /\ reader' = Fail(v) \/ reader' = [TakePlaces(v, 2) EXCEPT !.next = @ + 1]
      <4>1. gguf.metadata \in Seq(Entry)
        BY ReaderAssumption
      <4>2. ~(reader.next > Len(gguf.metadata))
        BY <1>5, <2>2, Zenon DEF ReadMetadata
      <4>3. reader.next \in DOMAIN gguf.metadata
        BY <1>3, <4>1, <4>2
      <4>4. e \in Entry
        BY <4>1, <4>3
      <4>5. reader' = IF Failed(v) \/ \E i \in 1..(reader.next - 1) : gguf.metadata[i].key = e.key
                      THEN Fail(v) ELSE [TakePlaces(v, 2) EXCEPT !.next = @ + 1]
        BY <1>5, <4>2, Zenon DEF ReadMetadata
      <4> QED
        BY <4>4, <4>5, Zenon
    <3>2. n \in Nat
      BY <3>1 DEF Entry
    <3> HIDE DEF n, e
    <3>3. Credit(s, 16 + n, 8 + n)
      <4>1. 0 + 16 + n = 16 + n /\ 0 + 8 + n = 8 + n
        BY <3>2
      <4>2. Credit(s, 0 + 16 + n, 0 + 8 + n)
        BY <1>3, <3>2, StringPaid
      <4> QED
        BY <4>1, <4>2
    <3> HIDE DEF s
    <3>4. Credit(h, 0 + n, 0 + 2)
      <4>1. Credit(h, 16 + n + 2 * 4, 8 + n + 4)
        <5>1. 16 + n \in Nat /\ 8 + n \in Nat /\ 4 \in Nat
          BY <3>2
        <5> QED
          BY <3>3, <5>1, TakePaid, Zenon
      <4>2. 0 + n \in 0..(16 + n + 2 * 4) /\ 0 + 2 \in 0..(8 + n + 4)
            /\ 16 + n + 2 * 4 \in Nat /\ 8 + n + 4 \in Nat
        BY <3>2
      <4> HIDE DEF h
      <4> QED
        BY <4>1, <4>2, CreditLess
    <3> HIDE DEF h
    <3>5. Credit(v, 0, 0 + 2)
      <4>1. Credit(Fail(h), 0, 0 + 2)
        BY <3>4, FailPaid, CreditPaid
      <4>2. ASSUME e.ty \in ValueTypes PROVE Credit(CloneKey(TakeValue(h, e), n), 0, 0 + 2)
        <5>1. 0 + n \in Nat /\ 0 + 2 \in Nat
          BY <3>2
        <5>2. Credit(TakeValue(h, e), 0 + n, 0 + 2)
          BY <3>1, <3>4, <4>2, <5>1, ValuePaid
        <5> QED
          BY <3>2, <5>1, <5>2, PushPaid
      <4> QED
        BY <4>1, <4>2
    <3> HIDE DEF v
    <3>6. Paid(v) /\ Paid(TakePlaces(v, 2))
      BY <3>5, PushPaid, CreditPaid
    <3>7. Paid(Fail(v))
      BY <3>6, FailPaid, CreditPaid
    <3> QED
      BY <3>1, <3>6, <3>7, NextPaid
  <2> QED
    BY <2>1, <2>2
<1>6. ASSUME ReadTensor PROVE Paid(reader')
  <2>1. CASE reader' = Fail(reader)
    BY <2>1, FailPaid, CreditPaid
  <2>2. CASE reader' # Fail(reader)
    <3> DEFINE t == gguf.tensors[reader.next]
               n == 4 + 8 * Len(t.dims) + 4 + 8
               s == TakeString(reader, t.nameLen, t.nameUtf8)
               h == Take(s, n, FALSE)
    <3>1. /\ t \in Descriptor
          /\ reader' = Fail(h) \/ reader' = [TakePlaces(h, 1) EXCEPT !.next = @ + 1]
      <4>1. gguf.tensors \in Seq(Descriptor)
        BY ReaderAssumption
      <4>2. ~(reader.next > Len(gguf.tensors))
        BY <1>6, <2>2, Zenon DEF ReadTensor
      <4>3. reader.next \in DOMAIN gguf.tensors
        BY <1>3, <4>1, <4>2
      <4>4. t \in Descriptor
        BY <4>1, <4>3
      <4>5. reader' = IF Failed(h) \/ ~DescriptorValid(t)
                      THEN Fail(h) ELSE [TakePlaces(h, 1) EXCEPT !.next = @ + 1]
        BY <1>6, <4>2, Zenon DEF ReadTensor
      <4> QED
        BY <4>4, <4>5, Zenon
    <3>2. t.nameLen \in Nat /\ n \in Nat
      BY <3>1 DEF Descriptor
    <3> DEFINE l == t.nameLen
    <3>3. l \in Nat
      BY <3>2
    <3>4. Credit(s, 0 + 16 + l, 0 + 8 + l)
      BY <1>3, <3>2, StringPaid
    <3> HIDE DEF n, l, s
    <3>5. 0 + 16 + l \in Nat /\ 0 + 8 + l \in Nat
      BY <3>3
    <3>6. Credit(h, 0 + 16 + l, 0 + 8 + l + n)
      BY <3>2, <3>4, <3>5, TakePaid
    <3> HIDE DEF h
    <3>7. Credit(h, 0, 0 + 1)
      <4>1. 0 \in 0..(0 + 16 + l) /\ 0 + 1 \in 0..(0 + 8 + l + n) /\ 0 + 8 + l + n \in Nat
        BY <3>2, <3>3
      <4> QED
        BY <3>5, <3>6, <4>1, CreditLess
    <3>8. Paid(TakePlaces(h, 1)) /\ Paid(Fail(h))
      BY <3>7, PushPaid, FailPaid, CreditPaid
    <3> QED
      BY <3>1, <3>8, NextPaid
  <2> QED
    BY <2>1, <2>2
<1>7. ASSUME ReadAlignment \/ LocateData \/ CheckExtent \/ FinishExtents PROVE Paid(reader')
  <2>1. reader.phase # "refused"
    BY <1>7 DEF ReadAlignment, LocateData, CheckExtent, FinishExtents, ReaderAt
  <2>2. \A a : /\ Paid([reader EXCEPT !.phase = "tensors", !.next = 1, !.alignment = a])
              /\ Paid([reader EXCEPT !.phase = "extents", !.next = 1, !.dataOffset = a])
              /\ Paid([reader EXCEPT !.next = @ + 1, !.extent = a])
              /\ Paid([reader EXCEPT !.phase = "accepted"])
    BY <2>1 DEF Paid, Measured, Failed
  <2>3. Paid(Fail(reader))
    BY FailPaid, CreditPaid
  <2>4. CASE ReadAlignment
    BY <2>2, <2>3, <2>4 DEF ReadAlignment
  <2>5. CASE LocateData
    BY <2>2, <2>3, <2>5 DEF LocateData
  <2>6. CASE CheckExtent
    BY <2>2, <2>3, <2>6 DEF CheckExtent
  <2>7. CASE FinishExtents
    BY <2>2, <2>3, <2>7 DEF FinishExtents
  <2> QED
    BY <1>7, <2>4, <2>5, <2>6, <2>7
<1> QED
  BY <1>1, <1>2, <1>4, <1>5, <1>6, <1>7 DEF ReaderNext

\* GgufReader::read allocates for a declared length or count only what it is
\* about to read: whatever a file declares, its strings, with both copies of the
\* keys, and its vectors follow the bytes of the file.
THEOREM StringsPaidFor == ReaderSpec => []MemoryPaidFor
<1>1. ReaderInit => ReaderInv
  BY ReaderAssumption, LimitsNatural DEF ReaderInit, FreshReader, ReaderInv, Paid, Measured, Failed
<1>2. ReaderInv => MemoryPaidFor
  BY DEF ReaderInv, Paid, MemoryPaidFor
<1> QED
  BY <1>1, <1>2, ReaderNextInv, PTL DEF ReaderSpec

-----------------------------------------------------------------------------
(* GgufReader: what one read does, and when it is refused. *)

\* The type of the reader's variables.
ReaderRecord ==
    [phase : {"header", "metadata", "tensors", "extents", "accepted", "refused"},
     pos : Nat, metadataBytes : Nat, arrayElements : Nat, next : Nat,
     alignment : Nat, dataOffset : Nat, extent : Nat, held : Nat, slots : Nat]

\* A reader that has not refused: what it counted it has read.
Live(r) == r \in ReaderRecord /\ ~Failed(r) /\ r.metadataBytes <= r.pos

\* A reader that has.
Dead(r) == r \in ReaderRecord /\ Failed(r)

\* n more bytes are in the file, and in the budget.
Room(r, n) == r.pos + n <= gguf.length /\ r.metadataBytes + n <= MaxMetadataBytes

\* q is r behind n more counted bytes.
Advanced(r, q, n) ==
    /\ Live(q) /\ q.phase = r.phase /\ q.next = r.next /\ q.alignment = r.alignment /\ q.extent = r.extent
    /\ q.pos = r.pos + n /\ q.metadataBytes = r.metadataBytes + n
    /\ q.arrayElements = r.arrayElements

\* What a file is and what the limits are.
LEMMA FileFacts ==
    ASSUME gguf \in GgufFiles
    PROVE  /\ gguf.length \in Nat /\ gguf.length <= MaxU64 /\ MaxU64 \in Nat
           /\ gguf.magic \in STRING /\ gguf.version \in Nat
           /\ gguf.metadataCount \in Nat /\ gguf.tensorCount \in Nat
           /\ gguf.metadata \in Seq(Entry) /\ gguf.tensors \in Seq(Descriptor)
           /\ Len(gguf.metadata) <= gguf.metadataCount /\ Len(gguf.tensors) <= gguf.tensorCount
           /\ MaxStringBytes \in Nat /\ MaxArrayElements \in Nat /\ MaxTensors \in Nat
           /\ MaxMetadataEntries \in Nat /\ MaxMetadataBytes \in Nat /\ MaxDimensions \in Nat
           /\ MaxMetadataBytes <= MaxU64 /\ MaxArrayElements <= MaxU64
<1>1. gguf \in [magic : STRING, version : Nat, metadataCount : Nat, tensorCount : Nat,
                metadata : Seq(Entry), tensors : Seq(Descriptor), length : 0..MaxU64]
  BY ReaderAssumption
<1>2. MaxU64 \in Nat
  BY ReaderAssumption
<1>3. gguf.length \in 0..MaxU64
  BY <1>1
<1>4. gguf.length \in Nat /\ gguf.length <= MaxU64
  BY <1>2, <1>3
<1>5. /\ gguf.magic \in STRING /\ gguf.version \in Nat
      /\ gguf.metadataCount \in Nat /\ gguf.tensorCount \in Nat
      /\ gguf.metadata \in Seq(Entry) /\ gguf.tensors \in Seq(Descriptor)
  BY <1>1
<1>6. Len(gguf.metadata) <= gguf.metadataCount /\ Len(gguf.tensors) <= gguf.tensorCount
  BY ReaderAssumption
<1>7. /\ MaxStringBytes \in 0..MaxU64 /\ MaxArrayElements \in 0..MaxU64 /\ MaxTensors \in 0..MaxU64
      /\ MaxMetadataEntries \in 0..MaxU64 /\ MaxMetadataBytes \in 0..MaxU64
      /\ MaxDimensions \in 0..MaxU64
  BY ReaderAssumption
<1>8. \A x \in 0..MaxU64 : x \in Nat /\ x <= MaxU64
  BY <1>2
<1> QED
  BY <1>2, <1>4, <1>5, <1>6, <1>7, <1>8

\* Giving up.
LEMMA FailDead ==
    ASSUME NEW r \in ReaderRecord
    PROVE  Dead(Fail(r))
<1> DEFINE q == [r EXCEPT !.phase = "refused"]
<1>1. q \in ReaderRecord
  BY DEF ReaderRecord
<1>2. q.phase = "refused"
  BY DEF ReaderRecord
<1> HIDE DEF q
<1>3. Fail(r) = q
  BY DEF Fail, q
<1> QED
  BY <1>1, <1>2, <1>3 DEF Dead, Failed

\* A reader that gave up reads no more.
LEMMA DeadReads ==
    ASSUME NEW r, Dead(r), NEW n, NEW counted, NEW utf8, NEW ty, NEW x
    PROVE  /\ Dead(Take(r, n, counted)) /\ Dead(TakeString(r, n, utf8))
           /\ Dead(TakeScalar(r, ty, x)) /\ Dead(TakePlaces(r, n)) /\ Dead(CloneKey(r, n))
<1>1. \A m, c : Take(r, m, c) = Fail(r)
  BY DEF Take, Dead
<1>2. Dead(Fail(r)) /\ Dead(Fail(Fail(r)))
  BY FailDead DEF Dead
<1>3. \A m, u : Dead(TakeString(r, m, u))
  <2>1. Failed(Take(r, 8, TRUE))
    BY <1>1, <1>2 DEF Dead
  <2>2. \A m, u : TakeString(r, m, u) = Fail(Take(r, 8, TRUE))
    BY <2>1 DEF TakeString
  <2> QED
    BY <1>1, <1>2, <2>2
<1>4. Dead(TakeScalar(r, ty, x))
  <2>1. \/ TakeScalar(r, ty, x) = TakeString(r, x.len, x.utf8)
        \/ TakeScalar(r, ty, x) = Fail(Take(r, 1, TRUE))
        \/ TakeScalar(r, ty, x) = Take(r, Width(ty), TRUE)
    BY DEF TakeScalar
  <2> QED
    BY <1>1, <1>2, <1>3, <2>1
<1>5. TakePlaces(r, n) = r /\ CloneKey(r, n) = r
  BY DEF TakePlaces, CloneKey, Dead
<1> QED
  BY <1>1, <1>2, <1>3, <1>4, <1>5

\* Reading succeeds where there is room, overflow or not.
LEMMA TakeReads ==
    ASSUME NEW r, Live(r), NEW n \in Nat, gguf \in GgufFiles
    PROVE  IF Room(r, n) THEN Advanced(r, Take(r, n, TRUE), n) ELSE Dead(Take(r, n, TRUE))
<1>1. /\ r.pos \in Nat /\ r.metadataBytes \in Nat /\ r.metadataBytes <= r.pos
      /\ gguf.length \in Nat /\ MaxU64 \in Nat /\ MaxMetadataBytes \in Nat
      /\ gguf.length <= MaxU64 /\ MaxMetadataBytes <= MaxU64
  BY FileFacts DEF Live, ReaderRecord
<1>2. CASE Room(r, n)
  <2>1. CheckedAdd(r.metadataBytes, n) \in 0..MaxMetadataBytes
    BY <1>1, <1>2 DEF Room, CheckedAdd, Overflow
  <2>2. ~Failed(r) /\ ~(r.pos + n > gguf.length)
    BY <1>1, <1>2 DEF Room, Live
  <2> DEFINE g == [r EXCEPT !.pos = @ + n]
             h == [g EXCEPT !.metadataBytes = @ + n]
  <2>3. Take(r, n, TRUE) = h
    <3>1. [r EXCEPT !.pos = @ + n, !.metadataBytes = @ + n] = h
      OBVIOUS
    <3> HIDE DEF h
    <3> QED
      BY <2>1, <2>2, <3>1 DEF Take
  <2>4. g \in ReaderRecord /\ g.phase = r.phase /\ g.next = r.next /\ g.alignment = r.alignment /\ g.extent = r.extent
        /\ g.pos = r.pos + n /\ g.metadataBytes = r.metadataBytes /\ g.arrayElements = r.arrayElements
    BY <1>1 DEF Live, ReaderRecord
  <2> HIDE DEF g
  <2>5. h \in ReaderRecord /\ h.phase = r.phase /\ h.next = r.next /\ h.alignment = r.alignment /\ h.extent = r.extent
        /\ h.pos = r.pos + n /\ h.metadataBytes = r.metadataBytes + n /\ h.arrayElements = r.arrayElements
    BY <1>1, <2>4 DEF ReaderRecord
  <2> HIDE DEF h
  <2>6. Live(h)
    BY <1>1, <2>2, <2>5 DEF Live, Failed
  <2> QED
    BY <1>2, <2>3, <2>5, <2>6 DEF Advanced
<1>3. CASE ~Room(r, n)
  <2>1. r.pos + n > gguf.length \/ CheckedAdd(r.metadataBytes, n) \notin 0..MaxMetadataBytes
    BY <1>1, <1>3 DEF Room, CheckedAdd, Overflow
  <2>2. Take(r, n, TRUE) = Fail(r)
    BY <2>1 DEF Take
  <2> QED
    BY <1>3, <2>2, FailDead DEF Live
<1> QED
  BY <1>2, <1>3

\* One read after the other.
LEMMA AdvancedTwice ==
    ASSUME NEW r, Live(r), NEW h, NEW n \in Nat, NEW m \in Nat, Advanced(r, h, n)
    PROVE  /\ \A q : Advanced(h, q, m) => Advanced(r, q, n + m)
           /\ Room(h, m) <=> Room(r, n + m)
<1>1. /\ r.pos \in Nat /\ r.metadataBytes \in Nat
      /\ h.pos = r.pos + n /\ h.metadataBytes = r.metadataBytes + n
  BY DEF Live, ReaderRecord, Advanced
<1>2. h.pos + m = r.pos + (n + m) /\ h.metadataBytes + m = r.metadataBytes + (n + m)
  BY <1>1
<1>3. Room(h, m) <=> Room(r, n + m)
  BY <1>2 DEF Room
<1>4. ASSUME NEW q, Advanced(h, q, m) PROVE Advanced(r, q, n + m)
  BY <1>2, <1>4 DEF Advanced
<1> QED
  BY <1>3, <1>4

\* Where a part finds no room the whole finds none.
LEMMA RoomParts ==
    ASSUME NEW r, Live(r), NEW n \in Nat, NEW m \in Nat, Room(r, n + m), gguf \in GgufFiles
    PROVE  Room(r, n)
<1>1. /\ r.pos \in Nat /\ r.metadataBytes \in Nat /\ gguf.length \in Nat /\ MaxMetadataBytes \in Nat
  BY FileFacts DEF Live, ReaderRecord
<1> QED
  BY <1>1 DEF Room

\* What is held is no part of what a read is measured by.
LEMMA HeldAside ==
    ASSUME NEW r, Live(r), NEW x \in Nat
    PROVE  /\ Advanced(r, [r EXCEPT !.held = @ + x], 0)
           /\ Advanced(r, CloneKey(r, x), 0) /\ Advanced(r, TakePlaces(r, x), 0)
<1> DEFINE h == [r EXCEPT !.held = @ + x]
           g == [r EXCEPT !.slots = @ + x]
<1>1. r.pos \in Nat /\ r.metadataBytes \in Nat /\ r.held \in Nat /\ r.slots \in Nat
  BY DEF Live, ReaderRecord
<1>2. h \in ReaderRecord /\ h.phase = r.phase /\ h.next = r.next /\ h.alignment = r.alignment /\ h.extent = r.extent
      /\ h.pos = r.pos /\ h.metadataBytes = r.metadataBytes /\ h.arrayElements = r.arrayElements
  BY <1>1 DEF Live, ReaderRecord
<1>3. g \in ReaderRecord /\ g.phase = r.phase /\ g.next = r.next /\ g.alignment = r.alignment /\ g.extent = r.extent
      /\ g.pos = r.pos /\ g.metadataBytes = r.metadataBytes /\ g.arrayElements = r.arrayElements
  BY <1>1 DEF Live, ReaderRecord
<1>4. CloneKey(r, x) = h /\ TakePlaces(r, x) = g
  BY DEF CloneKey, TakePlaces, Live
<1> HIDE DEF h, g
<1>5. Live(h) /\ Live(g)
  BY <1>2, <1>3 DEF Live, Failed
<1>6. Advanced(r, h, 0) /\ Advanced(r, g, 0)
  BY <1>1, <1>2, <1>3, <1>5 DEF Advanced
<1> QED
  BY <1>4, <1>6 DEF h

\* read_string.
LEMMA StringReads ==
    ASSUME NEW r, Live(r), NEW len \in Nat, NEW utf8, gguf \in GgufFiles
    PROVE  IF StringFine(len, utf8) /\ Room(r, 8 + len)
           THEN Advanced(r, TakeString(r, len, utf8), 8 + len) ELSE Dead(TakeString(r, len, utf8))
<1> DEFINE h == Take(r, 8, TRUE)
           g == [h EXCEPT !.held = @ + len]
           s == Take(g, len, TRUE)
           q == TakeString(r, len, utf8)
<1>1. IF Room(r, 8) THEN Advanced(r, h, 8) ELSE Dead(h)
  BY TakeReads
<1>2. q = IF Failed(h) \/ len > MaxStringBytes THEN Fail(h) ELSE IF utf8 THEN s ELSE Fail(s)
  BY DEF TakeString
<1>3. h \in ReaderRecord
  BY <1>1 DEF Advanced, Live, Dead
<1>4. MaxStringBytes \in Nat
  BY FileFacts
<1> HIDE DEF h, q
<1>5. CASE Room(r, 8) /\ len <= MaxStringBytes
  <2>1. Advanced(r, h, 8) /\ Live(h)
    BY <1>1, <1>5 DEF Advanced
  <2>2. q = IF utf8 THEN s ELSE Fail(s)
    <3>1. ~Failed(h) /\ ~(len > MaxStringBytes)
      BY <1>4, <1>5, <2>1 DEF Live
    <3> HIDE DEF s
    <3> QED
      BY <1>2, <3>1
  <2>3. Advanced(h, g, 0)
    BY <2>1, HeldAside
  <2> HIDE DEF g
  <2>4. Live(g)
    BY <2>3 DEF Advanced
  <2>5. IF Room(g, len) THEN Advanced(g, s, len) ELSE Dead(s)
    BY <2>4, TakeReads
  <2>6. /\ Room(g, len) <=> Room(h, len)
        /\ Room(h, len) <=> Room(r, 8 + len)
    <3>1. 0 + len = len
      OBVIOUS
    <3>2. Room(g, len) <=> Room(h, 0 + len)
      BY <2>1, <2>3, AdvancedTwice
    <3>3. Room(h, len) <=> Room(r, 8 + len)
      BY <2>1, AdvancedTwice
    <3> QED
      BY <3>1, <3>2, <3>3
  <2>7. \A p : Advanced(g, p, len) => Advanced(r, p, 8 + len)
    <3>1. 0 + len = len
      OBVIOUS
    <3>2. \A p : Advanced(g, p, len) => Advanced(h, p, 0 + len)
      BY <2>1, <2>3, AdvancedTwice
    <3>3. \A p : Advanced(h, p, len) => Advanced(r, p, 8 + len)
      BY <2>1, AdvancedTwice
    <3> QED
      BY <3>1, <3>2, <3>3
  <2>8. s \in ReaderRecord /\ Dead(Fail(s))
    BY <2>5, FailDead DEF Advanced, Live, Dead
  <2> HIDE DEF s
  <2> QED
    BY <1>5, <2>2, <2>5, <2>6, <2>7, <2>8 DEF q, StringFine
<1>6. CASE ~(Room(r, 8) /\ len <= MaxStringBytes)
  <2>1. Failed(h) \/ len > MaxStringBytes
    BY <1>1, <1>4, <1>6 DEF Dead
  <2>2. Dead(q)
    BY <1>2, <1>3, <2>1, FailDead
  <2>3. ~(StringFine(len, utf8) /\ Room(r, 8 + len))
    BY <1>6, RoomParts DEF StringFine
  <2> QED
    BY <2>2, <2>3 DEF q
<1> QED
  BY <1>5, <1>6

\* read_value of what is no array.
LEMMA ScalarRead ==
    ASSUME NEW r, Live(r), NEW ty \in ValueTypes \ {"Array"}, NEW x \in Item, gguf \in GgufFiles
    PROVE  /\ ScalarBytes(ty, x) \in Nat /\ Width(ty) \in Nat /\ Width(ty) <= ScalarBytes(ty, x)
           /\ IF ScalarFine(ty, x) /\ Room(r, ScalarBytes(ty, x))
              THEN Advanced(r, TakeScalar(r, ty, x), ScalarBytes(ty, x)) ELSE Dead(TakeScalar(r, ty, x))
<1>1. x.len \in Nat /\ x.val \in Nat /\ Width(ty) \in Nat /\ (ty = "String" => Width(ty) = 8)
  BY Widths DEF Item
<1>2. CASE ty = "String"
  <2>1. ScalarBytes(ty, x) = 8 + x.len
    BY <1>1, <1>2 DEF ScalarBytes
  <2>2. TakeScalar(r, ty, x) = TakeString(r, x.len, x.utf8)
    BY <1>2 DEF TakeScalar
  <2>3. ScalarFine(ty, x) <=> StringFine(x.len, x.utf8)
    BY <1>2 DEF ScalarFine
  <2> QED
    BY <1>1, <1>2, <2>1, <2>2, <2>3, StringReads
<1>3. CASE ty # "String"
  <2> DEFINE n == Width(ty)
             t == Take(r, n, TRUE)
  <2>1. ScalarBytes(ty, x) = n /\ n \in Nat
    BY <1>1, <1>3 DEF ScalarBytes
  <2>2. IF Room(r, n) THEN Advanced(r, t, n) ELSE Dead(t)
    BY <2>1, TakeReads
  <2>3. CASE ty = "Bool" /\ x.val > 1
    <3>1. n = 1
      BY <2>3 DEF Width
    <3>2. TakeScalar(r, ty, x) = Fail(Take(r, 1, TRUE))
      BY <2>3 DEF TakeScalar
    <3>3. TakeScalar(r, ty, x) = Fail(t)
      BY <3>1, <3>2
    <3>4. ~ScalarFine(ty, x)
      BY <1>1, <2>3 DEF ScalarFine
    <3>5. t \in ReaderRecord
      BY <2>2 DEF Advanced, Live, Dead
    <3> HIDE DEF t, n
    <3>6. Dead(Fail(t))
      BY <3>5, FailDead
    <3> QED
      BY <2>1, <3>3, <3>4, <3>6 DEF n
  <2>4. CASE ~(ty = "Bool" /\ x.val > 1)
    <3>1. TakeScalar(r, ty, x) = t
      BY <1>3, <2>4 DEF TakeScalar
    <3>2. ScalarFine(ty, x)
      BY <1>1, <1>3, <2>4 DEF ScalarFine
    <3> HIDE DEF t
    <3> QED
      BY <2>1, <2>2, <3>1, <3>2
  <2> QED
    BY <2>3, <2>4
<1> QED
  BY <1>2, <1>3

-----------------------------------------------------------------------------

\* The bytes of an array's elements, element by element.
LEMMA ItemSteps ==
    ASSUME NEW elem \in ValueTypes \ {"Array"}, NEW items \in Seq(Item), NEW k \in 0..Len(items)
    PROVE  /\ ItemsTo(elem, items, 0) = 0 /\ ItemsTo(elem, items, k) \in Nat
           /\ k * Width(elem) \in Nat /\ k * Width(elem) <= ItemsTo(elem, items, k)
           /\ k < Len(items) => ItemsTo(elem, items, k + 1)
                                  = ItemsTo(elem, items, k) + ScalarBytes(elem, items[k + 1])
<1> DEFINE n == Len(items)
           f == [i \in DOMAIN items |-> ScalarBytes(elem, items[i])]
           w == Width(elem)
           S(i) == ItemsTo(elem, items, i)
<1>1. n \in Nat /\ \A i \in 1..n : items[i] \in Item /\ i \in DOMAIN items
  OBVIOUS
<1>2. \A i \in Nat : S(i) = SumOf(f, i)
  BY DEF ItemsTo
<1>3. w \in Nat
  BY Widths
<1>4. \A i \in 1..n : f[i] = ScalarBytes(elem, items[i]) /\ f[i] \in Nat /\ w <= f[i]
  <2>1. ASSUME NEW i \in 1..n PROVE f[i] = ScalarBytes(elem, items[i])
    BY <1>1
  <2>2. ASSUME NEW i \in 1..n PROVE ScalarBytes(elem, items[i]) \in Nat /\ w <= ScalarBytes(elem, items[i])
    <3>1. items[i].len \in Nat
      BY <1>1 DEF Item
    <3> HIDE DEF w
    <3> QED
      BY <1>3, <3>1 DEF ScalarBytes, w
  <2> HIDE DEF f, w, n
  <2> QED
    BY <2>1, <2>2
<1> HIDE DEF f, w, S, n
<1>5. S(0) = 0 /\ \A i \in Nat : S(i + 1) = S(i) + f[i + 1]
  <2>1. SumOf(f, 0) = 0 /\ \A i \in Nat : SumOf(f, i + 1) = SumOf(f, i) + f[i + 1]
    BY SumSteps
  <2>2. \A i \in Nat : i + 1 \in Nat
    OBVIOUS
  <2> QED
    BY <1>2, <2>1, <2>2
<1> DEFINE K == {i \in Nat : i <= n => S(i) \in Nat /\ i * w \in Nat /\ i * w <= S(i)}
<1>6. 0 \in K
  <2>1. 0 * w = 0
    BY <1>3
  <2>2. S(0) = 0
    BY <1>5
  <2> QED
    BY <2>1, <2>2
<1>7. ASSUME NEW i \in K PROVE i + 1 \in K
  <2>1. SUFFICES ASSUME i + 1 <= n
                 PROVE S(i + 1) \in Nat /\ (i + 1) * w \in Nat /\ (i + 1) * w <= S(i + 1)
    OBVIOUS
  <2>2. i \in Nat /\ i <= n /\ i + 1 \in 1..n
    BY <1>1, <2>1
  <2>3. S(i) \in Nat /\ i * w \in Nat /\ i * w <= S(i)
    BY <2>2
  <2>4. S(i + 1) = S(i) + f[i + 1] /\ f[i + 1] \in Nat /\ w <= f[i + 1]
    BY <1>4, <1>5, <2>2
  <2>5. (i + 1) * w = i * w + w
    BY <1>3, <2>2
  <2> DEFINE a == i * w
             b == (i + 1) * w
  <2>6. a \in Nat /\ a <= S(i) /\ b = a + w
    BY <2>3, <2>5
  <2> HIDE DEF a, b
  <2>7. b \in Nat /\ b <= S(i + 1) /\ S(i + 1) \in Nat
    BY <1>3, <2>3, <2>4, <2>6
  <2> QED
    BY <2>7 DEF b
<1>8. K \in SUBSET Nat
  OBVIOUS
<1> HIDE DEF K
<1>9. k \in K /\ k <= n /\ k \in Nat
  BY <1>1, <1>6, <1>7, <1>8, EveryNatural DEF n
<1>10. S(k) \in Nat /\ k * w \in Nat /\ k * w <= S(k)
  BY <1>9 DEF K
<1>11. k < n => S(k + 1) = S(k) + ScalarBytes(elem, items[k + 1])
  <2>1. SUFFICES ASSUME k < n PROVE S(k + 1) = S(k) + ScalarBytes(elem, items[k + 1])
    OBVIOUS
  <2>2. k + 1 \in 1..n
    BY <1>1, <1>9, <2>1
  <2> QED
    BY <1>4, <1>5, <1>9, <2>2
<1> QED
  BY <1>5, <1>10, <1>11 DEF S, w, n

\* The elements of an array: refused exactly where one of them is invalid or
\* there is no room for them.
LEMMA ElementsRead ==
    ASSUME NEW r, Live(r), NEW elem \in ValueTypes \ {"Array"}, NEW items \in Seq(Item),
           gguf \in GgufFiles, Room(r, 0),
           NEW n, n = ItemsTo(elem, items, Len(items))
    PROVE  IF (\A k \in DOMAIN items : ScalarFine(elem, items[k])) /\ Room(r, n)
           THEN Advanced(r, TakeElements(r, elem, items), n) ELSE Dead(TakeElements(r, elem, items))
<1> DEFINE l == Len(items)
           S(k) == ItemsTo(elem, items, k)
           Fine(k) == \A i \in 1..k : ScalarFine(elem, items[i])
<1>1. l \in Nat /\ DOMAIN items = 1..l /\ \A k \in 1..l : items[k] \in Item
  OBVIOUS
<1>2. \A k \in 0..l : S(k) \in Nat
  BY ItemSteps
<1>3. S(0) = 0 /\ \A k \in 0..(l - 1) : S(k + 1) = S(k) + ScalarBytes(elem, items[k + 1])
  <2>1. 0 \in 0..l
    BY <1>1
  <2>2. S(0) = 0
    BY <2>1, ItemSteps
  <2>3. ASSUME NEW k \in 0..(l - 1) PROVE S(k + 1) = S(k) + ScalarBytes(elem, items[k + 1])
    <3>1. k \in 0..l /\ k < l
      BY <1>1
    <3> QED
      BY <3>1, ItemSteps
  <2> QED
    BY <2>2, <2>3
<1>11. PICK s : Successive(s, r, elem, items)
  BY ElementsTaken
<1>4. /\ TakeElements(r, elem, items) = s[l] /\ s[0] = r
      /\ \A k \in 0..(l - 1) : s[k + 1] = TakePlaces(TakeScalar(s[k], elem, items[k + 1]), 1)
  BY <1>11, Zenon DEF Successive
<1> DEFINE Read(k) == IF Fine(k) /\ Room(r, S(k)) THEN Advanced(r, s[k], S(k)) ELSE Dead(s[k])
           K == {k \in Nat : k <= l => Read(k)}
<1> HIDE DEF l, S
<1>5. 0 \in K
  <2>1. Fine(0) /\ Room(r, S(0))
    BY <1>3
  <2>2. Advanced(r, r, 0)
    BY DEF Advanced, Live, ReaderRecord
  <2>3. Read(0)
    BY <1>3, <1>4, <2>1, <2>2
  <2> QED
    BY <2>3
<1>6. ASSUME NEW k \in K PROVE k + 1 \in K
  <2>1. SUFFICES ASSUME k + 1 <= l PROVE Read(k + 1)
    OBVIOUS
  <2>2. k \in Nat /\ k \in 0..(l - 1) /\ k \in 0..l /\ k + 1 \in 1..l /\ k <= l
    BY <1>1, <2>1
  <2>3. Read(k)
    BY <2>2
  <2> DEFINE x == items[k + 1]
             b == ScalarBytes(elem, x)
             t == TakeScalar(s[k], elem, x)
             q == TakePlaces(t, 1)
  <2>4. s[k + 1] = q /\ S(k + 1) = S(k) + b /\ S(k) \in Nat /\ x \in Item
    BY <1>1, <1>2, <1>3, <1>4, <2>2
  <2>5. Fine(k + 1) <=> Fine(k) /\ ScalarFine(elem, x)
    <3>1. \A i \in 1..(k + 1) : i \in 1..k \/ i = k + 1
      BY <2>2
    <3>2. k + 1 \in 1..(k + 1) /\ \A i \in 1..k : i \in 1..(k + 1)
      BY <2>2
    <3> QED
      BY <3>1, <3>2
  <2> HIDE DEF Fine, K, x
  <2>6. b \in Nat
    <3>1. x.len \in Nat /\ Width(elem) \in Nat
      BY <2>4, Widths DEF Item
    <3> QED
      BY <3>1 DEF ScalarBytes
  <2>7. CASE Fine(k) /\ Room(r, S(k))
    <3>1. Advanced(r, s[k], S(k)) /\ Live(s[k])
      BY <2>3, <2>7 DEF Advanced
    <3>2. IF ScalarFine(elem, x) /\ Room(s[k], b) THEN Advanced(s[k], t, b) ELSE Dead(t)
      BY <2>4, <3>1, ScalarRead
    <3>3. Room(s[k], b) <=> Room(r, S(k) + b)
      BY <2>4, <2>6, <3>1, AdvancedTwice
    <3> HIDE DEF b, t
    <3>4. CASE ScalarFine(elem, x) /\ Room(s[k], b)
      <4>1. Advanced(s[k], t, b) /\ Live(t)
        BY <3>2, <3>4 DEF Advanced
      <4>2. Advanced(r, t, S(k) + b)
        BY <2>4, <2>6, <3>1, <4>1, AdvancedTwice
      <4>3. Advanced(t, q, 0)
        BY <4>1, HeldAside
      <4> DEFINE m == S(k) + b
      <4>4. m \in Nat /\ m + 0 = m
        BY <2>4, <2>6
      <4> HIDE DEF m, q
      <4>5. Advanced(r, q, m + 0)
        BY <4>2, <4>3, <4>4, AdvancedTwice DEF m
      <4> QED
        BY <2>4, <2>5, <2>7, <3>3, <3>4, <4>4, <4>5 DEF m
    <3>5. CASE ~(ScalarFine(elem, x) /\ Room(s[k], b))
      <4>1. Dead(q)
        BY <3>2, <3>5, DeadReads
      <4> QED
        BY <2>4, <2>5, <3>3, <3>5, <4>1
    <3> QED
      BY <3>4, <3>5
  <2>8. CASE ~(Fine(k) /\ Room(r, S(k)))
    <3>1. Dead(s[k])
      BY <2>3, <2>8
    <3>2. Dead(t)
      BY <3>1, DeadReads
    <3> HIDE DEF t
    <3>3. Dead(q)
      BY <3>2, DeadReads
    <3>4. Room(r, S(k) + b) => Room(r, S(k))
      BY <2>4, <2>6, RoomParts
    <3> QED
      BY <2>4, <2>5, <2>8, <3>3, <3>4
  <2> QED
    BY <2>7, <2>8
<1>7. K \in SUBSET Nat
  OBVIOUS
<1> HIDE DEF K
<1>8. l \in K
  BY <1>1, <1>5, <1>6, <1>7, EveryNatural
<1> HIDE DEF Fine
<1>9. Read(l)
  BY <1>1, <1>8 DEF K
<1>10. S(l) = n /\ (Fine(l) <=> \A k \in DOMAIN items : ScalarFine(elem, items[k]))
  BY <1>1 DEF S, l, Fine
<1> QED
  BY <1>4, <1>9, <1>10

\* The elements an entry adds.
Elements(e) == IF e.ty = "Array" THEN Len(e.items) ELSE 0

\* q is r behind a value of n bytes with x elements.
Valued(r, q, n, x) ==
    /\ Live(q) /\ q.phase = r.phase /\ q.next = r.next /\ q.alignment = r.alignment /\ q.extent = r.extent
    /\ q.pos = r.pos + n /\ q.metadataBytes = r.metadataBytes + n
    /\ q.arrayElements = r.arrayElements + x

\* There is room for a value.
ValueRoom(r, n, x) == Room(r, n) /\ r.arrayElements + x <= MaxArrayElements

\* A value that is no array.
LEMMA ScalarValued ==
    ASSUME NEW r, Live(r), NEW q, NEW n, Advanced(r, q, n)
    PROVE  Valued(r, q, n, 0)
<1>1. r.arrayElements \in Nat
  BY DEF Live, ReaderRecord
<1> QED
  BY <1>1 DEF Advanced, Valued

\* What an entry of a file is.
LEMMA EntryFacts ==
    ASSUME NEW e \in Entry
    PROVE  e.keyLen \in Nat /\ e.value \in Item /\ e.items \in Seq(Item) /\ Len(e.items) \in Nat
<1>1. e.items \in Seq(Item)
  BY DEF Entry
<1> QED
  BY <1>1 DEF Entry

\* check_array_budget refuses no more than reading the elements would.
LEMMA BudgetReads ==
    ASSUME NEW r, Live(r), NEW elem, NEW count \in Nat, gguf \in GgufFiles,
           r.arrayElements <= MaxArrayElements, Width(elem) \in Nat, count * Width(elem) \in Nat
    PROVE  /\ ValueRoom(r, count * Width(elem), count) => ArrayBudget(r, elem, count)
           /\ ArrayBudget(r, elem, count) => r.arrayElements + count <= MaxArrayElements
<1> DEFINE n == count * Width(elem)
<1>1. /\ r.arrayElements \in Nat /\ r.metadataBytes \in Nat /\ n \in Nat /\ MaxU64 \in Nat
      /\ MaxMetadataBytes \in Nat /\ MaxArrayElements \in Nat
      /\ MaxMetadataBytes <= MaxU64 /\ MaxArrayElements <= MaxU64
  BY FileFacts DEF Live, ReaderRecord
<1>2. CheckedMul(count, Width(elem)) = Cut(n)
  BY CutProduct
<1>3. ArrayBudget(r, elem, count)
        <=> /\ CheckedAdd(r.arrayElements, count) \in 0..MaxArrayElements
            /\ CheckedAdd(r.metadataBytes, Cut(n)) \in 0..MaxMetadataBytes
  BY <1>2 DEF ArrayBudget
<1> HIDE DEF n
<1>4. CheckedAdd(r.arrayElements, count) \in 0..MaxArrayElements
        <=> r.arrayElements + count <= MaxArrayElements
  BY <1>1 DEF CheckedAdd, Overflow
<1>5. r.metadataBytes + n <= MaxMetadataBytes => CheckedAdd(r.metadataBytes, Cut(n)) \in 0..MaxMetadataBytes
  BY <1>1 DEF CheckedAdd, Overflow, Cut
<1> QED
  BY <1>3, <1>4, <1>5 DEF ValueRoom, Room, n

\* read_value of an array.
LEMMA ArrayRead ==
    ASSUME NEW r, Live(r), NEW e \in Entry, e.ty = "Array", gguf \in GgufFiles,
           r.arrayElements <= MaxArrayElements
    PROVE  IF ValueFine(e) /\ ValueRoom(r, ValueBytes(e), Elements(e))
           THEN Valued(r, TakeValue(r, e), ValueBytes(e), Elements(e))
           ELSE Dead(TakeValue(r, e))
<1> DEFINE h == Take(r, 12, TRUE)
           x == Len(e.items)
           g == [h EXCEPT !.arrayElements = @ + x]
           n == ItemsTo(e.elem, e.items, x)
           w == x * Width(e.elem)
           q == TakeValue(r, e)
<1>1. q = IF Failed(h) \/ e.elem \notin ValueTypes \ {"Array"} THEN Fail(h)
          ELSE IF ~ArrayBudget(h, e.elem, x) THEN Fail(h)
          ELSE TakeElements(g, e.elem, e.items)
  BY DEF TakeValue, TakeArray
<1>2. IF Room(r, 12) THEN Advanced(r, h, 12) ELSE Dead(h)
  BY TakeReads
<1>3. h \in ReaderRecord
  BY <1>2 DEF Advanced, Live, Dead
<1>4. x \in Nat /\ r.arrayElements \in Nat /\ MaxArrayElements \in Nat
  BY EntryFacts, FileFacts DEF Live, ReaderRecord
<1>5. ValueBytes(e) = 12 + n /\ Elements(e) = x
  BY DEF ValueBytes, Elements
<1> DEFINE ok == \A k \in DOMAIN e.items : ScalarFine(e.elem, e.items[k])
<1>6. ValueFine(e) <=> e.elem \in ValueTypes \ {"Array"} /\ ok
  BY DEF ValueFine, ValueTypes
<1>10. e.items \in Seq(Item)
  BY EntryFacts
<1> HIDE DEF ok
<1> HIDE DEF h, q
<1>7. CASE e.elem \notin ValueTypes \ {"Array"}
  <2>1. Dead(q) /\ ~ValueFine(e)
    BY <1>1, <1>3, <1>6, <1>7, FailDead
  <2> QED
    BY <2>1 DEF q
<1>8. CASE e.elem \in ValueTypes \ {"Array"}
  <2>1. n \in Nat /\ w \in Nat /\ w <= n /\ Width(e.elem) \in Nat
    <3>1. x \in 0..x
      BY <1>4
    <3>2. Width(e.elem) \in Nat
      BY <1>8, Widths
    <3> QED
      BY <1>8, <1>10, <3>1, <3>2, ItemSteps
  <2>2. CASE ~Room(r, 12)
    <3>1. Dead(q)
      BY <1>1, <1>2, <1>3, <2>2, FailDead DEF Dead
    <3>2. ~Room(r, 12 + n)
      BY <2>1, <2>2, RoomParts
    <3> QED
      BY <1>5, <3>1, <3>2 DEF q, ValueRoom
  <2>3. CASE Room(r, 12)
    <3>1. Advanced(r, h, 12) /\ Live(h) /\ h.arrayElements = r.arrayElements
      BY <1>2, <2>3 DEF Advanced
    <3>2. Room(h, n) <=> Room(r, 12 + n)
      BY <2>1, <3>1, AdvancedTwice
    <3>3. /\ ValueRoom(h, w, x) => ArrayBudget(h, e.elem, x)
          /\ ArrayBudget(h, e.elem, x) => h.arrayElements + x <= MaxArrayElements
      BY <1>4, <2>1, <3>1, BudgetReads
    <3>4. CASE ~ArrayBudget(h, e.elem, x)
      <4>1. Dead(q)
        BY <1>1, <1>3, <3>4, FailDead
      <4>2. ~(Room(h, w) /\ r.arrayElements + x <= MaxArrayElements)
        BY <3>1, <3>3, <3>4 DEF ValueRoom
      <4>3. Room(h, n) => Room(h, w)
        <5> DEFINE d == n - w
        <5>1. d \in Nat /\ n = w + d
          BY <2>1
        <5> HIDE DEF n, w, d
        <5> QED
          BY <2>1, <3>1, <5>1, RoomParts
      <4>4. ~ValueRoom(r, 12 + n, x)
        BY <3>2, <4>2, <4>3 DEF ValueRoom
      <4> QED
        BY <1>5, <4>1, <4>4 DEF q
    <3>5. CASE ArrayBudget(h, e.elem, x)
      <4>1. q = TakeElements(g, e.elem, e.items)
        BY <1>1, <1>8, <3>1, <3>5 DEF Live
      <4>2. r.arrayElements + x <= MaxArrayElements
        BY <3>1, <3>3, <3>5
      <4>3. /\ g \in ReaderRecord /\ g.phase = h.phase /\ g.next = h.next /\ g.alignment = h.alignment /\ g.extent = h.extent
            /\ g.pos = h.pos /\ g.metadataBytes = h.metadataBytes
            /\ g.arrayElements = h.arrayElements + x
        <5> HIDE DEF x
        <5> QED
          BY <1>3, <1>4 DEF ReaderRecord
      <4> HIDE DEF g
      <4>4. Live(g)
        BY <3>1, <4>3 DEF Live, Failed
      <4>9. Room(g, 0)
        <5>1. Room(h, 0)
          <6>1. 12 + 0 = 12
            OBVIOUS
          <6> QED
            BY <2>3, <3>1, <6>1, AdvancedTwice
        <5> QED
          BY <4>3, <5>1 DEF Room
      <4>5. IF ok /\ Room(g, n) THEN Advanced(g, q, n) ELSE Dead(q)
        BY <1>8, <1>10, <4>1, <4>4, <4>9, ElementsRead DEF ok
      <4>6. Room(g, n) <=> Room(r, 12 + n)
        BY <3>2, <4>3 DEF Room
      <4>7. ValueFine(e) <=> ok
        BY <1>6, <1>8
      <4>8. ASSUME Advanced(g, q, n) PROVE Valued(r, q, 12 + n, x)
        <5>1. h.pos = r.pos + 12 /\ h.metadataBytes = r.metadataBytes + 12 /\ r.pos \in Nat /\ r.metadataBytes \in Nat
          BY <3>1 DEF Advanced, Live, ReaderRecord
        <5>2. h.phase = r.phase /\ h.next = r.next /\ h.alignment = r.alignment /\ h.extent = r.extent
          BY <3>1 DEF Advanced
        <5> HIDE DEF n
        <5>3. (r.pos + 12) + n = r.pos + (12 + n) /\ (r.metadataBytes + 12) + n = r.metadataBytes + (12 + n)
          BY <2>1, <5>1
        <5> QED
          BY <3>1, <4>3, <4>8, <5>1, <5>2, <5>3 DEF Advanced, Valued
      <4> HIDE DEF n
      <4> QED
        BY <1>5, <4>2, <4>5, <4>6, <4>7, <4>8 DEF q, ValueRoom
    <3> QED
      BY <3>4, <3>5
  <2> QED
    BY <2>2, <2>3
<1> QED
  BY <1>7, <1>8

-----------------------------------------------------------------------------

\* read_value: refused exactly where the value is invalid or there is no room.
LEMMA ValueRead ==
    ASSUME NEW r, Live(r), NEW e \in Entry, e.ty \in ValueTypes, gguf \in GgufFiles,
           r.arrayElements <= MaxArrayElements
    PROVE  IF ValueFine(e) /\ ValueRoom(r, ValueBytes(e), Elements(e))
           THEN Valued(r, TakeValue(r, e), ValueBytes(e), Elements(e))
           ELSE Dead(TakeValue(r, e))
<1>1. CASE e.ty = "Array"
  BY <1>1, ArrayRead
<1>2. CASE e.ty # "Array"
  <2> DEFINE q == TakeScalar(r, e.ty, e.value)
             n == ScalarBytes(e.ty, e.value)
  <2>1. TakeValue(r, e) = q /\ ValueBytes(e) = n /\ Elements(e) = 0
    BY <1>2 DEF TakeValue, ValueBytes, Elements
  <2>2. ValueFine(e) <=> ScalarFine(e.ty, e.value)
    BY <1>2 DEF ValueFine
  <2>3. IF ScalarFine(e.ty, e.value) /\ Room(r, n) THEN Advanced(r, q, n) ELSE Dead(q)
    <3>1. e.ty \in ValueTypes \ {"Array"} /\ e.value \in Item
      BY <1>2, EntryFacts
    <3> QED
      BY <3>1, ScalarRead
  <2>4. ValueRoom(r, n, 0) <=> Room(r, n)
    <3>1. r.arrayElements \in Nat
      BY DEF Live, ReaderRecord
    <3>2. r.arrayElements + 0 = r.arrayElements
      BY <3>1
    <3> QED
      BY <3>2 DEF ValueRoom
  <2>5. Advanced(r, q, n) => Valued(r, q, n, 0)
    BY ScalarValued
  <2> HIDE DEF n, q
  <2> QED
    BY <2>1, <2>2, <2>3, <2>4, <2>5, Zenon
<1> QED
  BY <1>1, <1>2

\* An entry is what the reference takes.
EntryFine(e) == StringFine(e.keyLen, e.keyUtf8) /\ ValueFine(e)

\* What the loop of the metadata reads of an entry.
EntryTaken(r, e) ==
    LET h == Take(TakeString(r, e.keyLen, e.keyUtf8), 4, TRUE)
    IN  IF Failed(h) \/ e.ty \notin ValueTypes THEN Fail(h)
        ELSE CloneKey(TakeValue(h, e), e.keyLen)

\* The bytes of a valid entry are so many.
LEMMA EntrySize ==
    ASSUME NEW e \in Entry, EntryFine(e)
    PROVE  ValueBytes(e) \in Nat /\ EntryBytes(e) \in Nat /\ Elements(e) \in Nat
<1>1. /\ e.keyLen \in Nat /\ e.value \in Item /\ e.items \in Seq(Item) /\ Len(e.items) \in Nat
      /\ e.value.len \in Nat
  <2>1. e.value \in Item
    BY EntryFacts
  <2>2. e.value.len \in Nat
    BY <2>1 DEF Item
  <2> QED
    BY <2>2, EntryFacts
<1>2. ValueBytes(e) \in Nat
  <2>1. CASE e.ty = "Array"
    <3> DEFINE l == Len(e.items)
    <3>1. e.elem \in ValueTypes \ {"Array"} /\ l \in 0..l
      BY <1>1, <2>1 DEF EntryFine, ValueFine
    <3>2. ItemsTo(e.elem, e.items, l) \in Nat
      BY <1>1, <3>1, ItemSteps
    <3>3. ValueBytes(e) = 12 + ItemsTo(e.elem, e.items, l)
      BY <2>1 DEF ValueBytes
    <3> HIDE DEF l
    <3> QED
      BY <3>2, <3>3
  <2>2. CASE e.ty # "Array"
    <3>1. Width(e.ty) \in Nat
      BY <2>2, Widths DEF EntryFine, ValueFine
    <3> QED
      BY <1>1, <2>2, <3>1 DEF ValueBytes, ScalarBytes
  <2> QED
    BY <2>1, <2>2
<1>3. Elements(e) \in Nat
  BY <1>1 DEF Elements
<1> QED
  BY <1>1, <1>2, <1>3 DEF EntryBytes

\* Copies kept aside are no part of a value.
LEMMA ValuedAside ==
    ASSUME NEW r, NEW q, NEW n, NEW x, Valued(r, q, n, x), NEW l \in Nat
    PROVE  Valued(r, CloneKey(q, l), n, x)
<1> DEFINE p == CloneKey(q, l)
<1>1. Live(q) /\ q.pos \in Nat /\ q.metadataBytes \in Nat
  BY DEF Valued, Live, ReaderRecord
<1>2. Advanced(q, p, 0)
  BY <1>1, HeldAside
<1> HIDE DEF p
<1>3. p.pos = q.pos /\ p.metadataBytes = q.metadataBytes
  BY <1>1, <1>2 DEF Advanced
<1> QED
  BY <1>2, <1>3 DEF Advanced, Valued, p

\* An entry is refused exactly where it is invalid or there is no room.
LEMMA EntryRead ==
    ASSUME NEW r, Live(r), NEW e \in Entry, gguf \in GgufFiles,
           r.arrayElements <= MaxArrayElements
    PROVE  IF EntryFine(e) /\ ValueRoom(r, EntryBytes(e), Elements(e))
           THEN Valued(r, EntryTaken(r, e), EntryBytes(e), Elements(e))
           ELSE Dead(EntryTaken(r, e))
<1> DEFINE k == TakeString(r, e.keyLen, e.keyUtf8)
           h == Take(k, 4, TRUE)
           q == EntryTaken(r, e)
           n == ValueBytes(e)
           x == Elements(e)
           v == TakeValue(h, e)
           fine == StringFine(e.keyLen, e.keyUtf8)
<1>1. e.keyLen \in Nat /\ r.arrayElements \in Nat /\ r.pos \in Nat /\ r.metadataBytes \in Nat
  BY EntryFacts DEF Live, ReaderRecord
<1>2. IF fine /\ Room(r, 8 + e.keyLen) THEN Advanced(r, k, 8 + e.keyLen) ELSE Dead(k)
  BY <1>1, StringReads
<1>3. q = IF Failed(h) \/ e.ty \notin ValueTypes THEN Fail(h) ELSE CloneKey(v, e.keyLen)
  BY DEF EntryTaken
<1> DEFINE s == 8 + e.keyLen
<1>4. s \in Nat /\ EntryBytes(e) = s + 4 + n
  BY <1>1 DEF EntryBytes
<1> HIDE DEF k, q, s, fine, v
<1>5. IF fine /\ Room(r, s + 4) THEN Advanced(r, h, s + 4) ELSE Dead(h)
  <2>1. CASE fine /\ Room(r, s)
    <3>1. Advanced(r, k, s) /\ Live(k)
      BY <1>2, <2>1 DEF Advanced, s
    <3>2. IF Room(k, 4) THEN Advanced(k, h, 4) ELSE Dead(h)
      BY <3>1, TakeReads
    <3>3. (Room(k, 4) <=> Room(r, s + 4)) /\ \A p : Advanced(k, p, 4) => Advanced(r, p, s + 4)
      BY <1>4, <3>1, AdvancedTwice
    <3> HIDE DEF h
    <3> QED
      BY <2>1, <3>2, <3>3
  <2>2. CASE ~(fine /\ Room(r, s))
    <3>1. Dead(k)
      BY <1>2, <2>2 DEF s
    <3>2. Dead(h)
      BY <3>1, DeadReads
    <3>3. ~(fine /\ Room(r, s + 4))
      BY <1>4, <2>2, RoomParts
    <3> QED
      BY <3>2, <3>3
  <2> QED
    BY <2>1, <2>2
<1>6. h \in ReaderRecord
  BY <1>5 DEF Advanced, Live, Dead
<1> HIDE DEF h
<1>7. s + 4 \in Nat
  BY <1>4
<1>8. CASE fine /\ Room(r, s + 4) /\ e.ty \in ValueTypes
  <2>1. Advanced(r, h, s + 4) /\ Live(h) /\ h.arrayElements = r.arrayElements
    BY <1>5, <1>8 DEF Advanced
  <2>2. q = CloneKey(v, e.keyLen)
    BY <1>3, <1>8, <2>1 DEF Live
  <2>6. IF ValueFine(e) /\ ValueRoom(h, n, x) THEN Valued(h, v, n, x) ELSE Dead(v)
    BY <1>8, <2>1, ValueRead DEF v
  <2>3. IF ValueFine(e) /\ ValueRoom(h, n, x) THEN Valued(h, q, n, x) ELSE Dead(q)
    <3>1. Valued(h, v, n, x) => Valued(h, q, n, x)
      BY <1>1, <2>2, ValuedAside
    <3>2. Dead(v) => Dead(q)
      BY <2>2, DeadReads
    <3> QED
      BY <2>6, <3>1, <3>2, Zenon
  <2>4. CASE ValueFine(e)
    <3>1. EntryFine(e)
      BY <1>8, <2>4 DEF EntryFine, fine
    <3>2. n \in Nat /\ x \in Nat
      BY <3>1, EntrySize
    <3> HIDE DEF n, x
    <3>3. Room(h, n) <=> Room(r, s + 4 + n)
      BY <1>7, <2>1, <3>2, AdvancedTwice
    <3>4. Valued(h, q, n, x) => Valued(r, q, s + 4 + n, x)
      <4>1. h.pos = r.pos + (s + 4) /\ h.metadataBytes = r.metadataBytes + (s + 4)
            /\ h.phase = r.phase /\ h.next = r.next /\ h.alignment = r.alignment /\ h.extent = r.extent
        BY <2>1 DEF Advanced
      <4>2. /\ r.pos + (s + 4) + n = r.pos + (s + 4 + n)
            /\ r.metadataBytes + (s + 4) + n = r.metadataBytes + (s + 4 + n)
        BY <1>1, <1>7, <3>2
      <4> QED
        BY <2>1, <4>1, <4>2 DEF Valued
    <3> QED
      BY <1>4, <2>1, <2>3, <2>4, <3>1, <3>3, <3>4 DEF ValueRoom, q, x
  <2>5. CASE ~ValueFine(e)
    BY <2>3, <2>5 DEF EntryFine, q
  <2> QED
    BY <2>4, <2>5
<1>9. CASE ~(fine /\ Room(r, s + 4) /\ e.ty \in ValueTypes)
  <2>1. Dead(q)
    BY <1>3, <1>5, <1>6, <1>9, FailDead DEF Dead
  <2>2. ~(EntryFine(e) /\ Room(r, EntryBytes(e)))
    <3>1. SUFFICES ASSUME EntryFine(e), Room(r, EntryBytes(e)) PROVE FALSE
      OBVIOUS
    <3>2. n \in Nat
      BY <3>1, EntrySize
    <3>3. Room(r, s + 4)
      BY <1>4, <1>7, <3>1, <3>2, RoomParts
    <3> QED
      BY <1>9, <3>1, <3>3 DEF EntryFine, ValueFine, fine
  <2> QED
    BY <2>1, <2>2 DEF q, ValueRoom
<1> QED
  BY <1>8, <1>9

\* What the loop of the tensor directory reads.
TensorTaken(r, t) == Take(TakeString(r, t.nameLen, t.nameUtf8), 4 + 8 * Len(t.dims) + 4 + 8, FALSE)

\* The bytes of a tensor's name, and of its other fields.
NameBytes(t) == 8 + t.nameLen
FieldBytes(t) == 16 + 8 * Len(t.dims)

\* q is r behind a name that counts and fields that do not.
Listed(r, q, n, m) ==
    /\ Live(q) /\ q.phase = r.phase /\ q.next = r.next /\ q.alignment = r.alignment /\ q.extent = r.extent
    /\ q.pos = r.pos + n + m /\ q.metadataBytes = r.metadataBytes + n

\* A descriptor is refused where its name is, or where the file ends in it.
LEMMA TensorRead ==
    ASSUME NEW r, Live(r), NEW t \in Descriptor, gguf \in GgufFiles
    PROVE  /\ NameBytes(t) \in Nat /\ FieldBytes(t) \in Nat
           /\ IF /\ StringFine(t.nameLen, t.nameUtf8) /\ Room(r, NameBytes(t))
                 /\ r.pos + NameBytes(t) + FieldBytes(t) <= gguf.length
              THEN Listed(r, TensorTaken(r, t), NameBytes(t), FieldBytes(t))
              ELSE Dead(TensorTaken(r, t))
<1> DEFINE n == NameBytes(t)
           l == Len(t.dims)
           m == FieldBytes(t)
           k == TakeString(r, t.nameLen, t.nameUtf8)
           q == TensorTaken(r, t)
<1>1. t.nameLen \in Nat /\ l \in Nat /\ n = 8 + t.nameLen /\ m = 16 + 8 * l
  BY DEF Descriptor, NameBytes, FieldBytes
<1>2. q = Take(k, 4 + 8 * l + 4 + 8, FALSE)
  BY DEF TensorTaken
<1> HIDE DEF l, k, q, n, m
<1>3. n \in Nat /\ m \in Nat /\ 4 + 8 * l + 4 + 8 = m
  BY <1>1
<1>4. q = Take(k, m, FALSE)
  BY <1>2, <1>3
<1>5. IF StringFine(t.nameLen, t.nameUtf8) /\ Room(r, n) THEN Advanced(r, k, n) ELSE Dead(k)
  BY <1>1, StringReads DEF k
<1>6. CASE StringFine(t.nameLen, t.nameUtf8) /\ Room(r, n)
  <2>1. Advanced(r, k, n) /\ Live(k) /\ k.pos = r.pos + n /\ k.metadataBytes = r.metadataBytes + n
        /\ k.phase = r.phase /\ k.next = r.next /\ k.alignment = r.alignment /\ k.extent = r.extent
    BY <1>5, <1>6 DEF Advanced
  <2>2. k.pos \in Nat /\ gguf.length \in Nat /\ k \in ReaderRecord /\ k.metadataBytes \in Nat
        /\ k.metadataBytes <= k.pos /\ ~Failed(k)
    BY <2>1, FileFacts DEF Live, ReaderRecord
  <2>3. CASE r.pos + n + m <= gguf.length
    <3> DEFINE g == [k EXCEPT !.pos = @ + m]
               p == [g EXCEPT !.metadataBytes = @]
    <3>1. q = p
      <4>1. ~(k.pos + m > gguf.length)
        BY <1>3, <2>1, <2>2, <2>3
      <4>2. q = [k EXCEPT !.pos = @ + m, !.metadataBytes = IF FALSE THEN @ + m ELSE @]
        BY <1>4, <2>2, <4>1 DEF Take
      <4>3. [k EXCEPT !.pos = @ + m, !.metadataBytes = IF FALSE THEN @ + m ELSE @] = p
        OBVIOUS
      <4> QED
        BY <4>2, <4>3
    <3>2. /\ g \in ReaderRecord /\ g.pos = k.pos + m /\ g.metadataBytes = k.metadataBytes
          /\ g.phase = k.phase /\ g.next = k.next /\ g.alignment = k.alignment /\ g.extent = k.extent
      BY <1>3, <2>2 DEF ReaderRecord
    <3> HIDE DEF g
    <3>3. /\ p \in ReaderRecord /\ p.pos = k.pos + m /\ p.metadataBytes = k.metadataBytes
          /\ p.phase = k.phase /\ p.next = k.next /\ p.alignment = k.alignment /\ p.extent = k.extent
      BY <3>2 DEF ReaderRecord
    <3> HIDE DEF p
    <3>4. Live(p)
      BY <1>3, <2>2, <3>3 DEF Live, Failed
    <3>5. Listed(r, q, n, m)
      BY <2>1, <3>1, <3>3, <3>4 DEF Listed
    <3> QED
      BY <1>3, <1>6, <2>3, <3>5 DEF n, m, q
  <2>4. CASE ~(r.pos + n + m <= gguf.length)
    <3>1. k.pos + m > gguf.length
      BY <1>3, <2>1, <2>2, <2>4
    <3>2. q = Fail(k)
      BY <1>4, <3>1 DEF Take
    <3>3. Dead(q)
      BY <2>2, <3>2, FailDead
    <3> QED
      BY <1>3, <2>4, <3>3 DEF n, m, q
  <2> QED
    BY <2>3, <2>4
<1>7. CASE ~(StringFine(t.nameLen, t.nameUtf8) /\ Room(r, n))
  <2>1. Dead(q)
    BY <1>4, <1>5, <1>7, DeadReads
  <2> QED
    BY <1>3, <1>7, <2>1 DEF n, m, q
<1> QED
  BY <1>6, <1>7

-----------------------------------------------------------------------------
(* GgufReader: the totals of a file, and what a valid file has room for. *)

\* The totals of the metadata, entry by entry.
LEMMA MetadataSteps ==
    ASSUME gguf \in GgufFiles
    PROVE  /\ MetadataTo(gguf, 0) = 0 /\ ElementsTo(gguf, 0) = 0
           /\ \A k \in Nat : k + 1 <= Len(gguf.metadata) =>
                 /\ gguf.metadata[k + 1] \in Entry
                 /\ MetadataTo(gguf, k + 1) = MetadataTo(gguf, k) + EntryBytes(gguf.metadata[k + 1])
                 /\ ElementsTo(gguf, k + 1) = ElementsTo(gguf, k) + Elements(gguf.metadata[k + 1])
<1> DEFINE D == DOMAIN gguf.metadata
           m == [i \in D |-> EntryBytes(gguf.metadata[i])]
           x == [i \in D |-> IF gguf.metadata[i].ty = "Array" THEN Len(gguf.metadata[i].items) ELSE 0]
<1>1. \A k \in Nat : MetadataTo(gguf, k) = SumOf(m, k) /\ ElementsTo(gguf, k) = SumOf(x, k)
  BY DEF MetadataTo, ElementsTo
<1>2. gguf.metadata \in Seq(Entry)
  BY FileFacts
<1>3. \A k \in Nat : k + 1 <= Len(gguf.metadata) => k + 1 \in D /\ gguf.metadata[k + 1] \in Entry
  BY <1>2
<1>4. \A i \in D : m[i] = EntryBytes(gguf.metadata[i]) /\ x[i] = Elements(gguf.metadata[i])
  BY DEF Elements
<1> HIDE DEF m, x, D
<1>5. SumOf(m, 0) = 0 /\ \A k \in Nat : SumOf(m, k + 1) = SumOf(m, k) + m[k + 1]
  BY SumSteps
<1>6. SumOf(x, 0) = 0 /\ \A k \in Nat : SumOf(x, k + 1) = SumOf(x, k) + x[k + 1]
  BY SumSteps
<1>7. MetadataTo(gguf, 0) = 0 /\ ElementsTo(gguf, 0) = 0
  BY <1>1, <1>5, <1>6
<1>8. ASSUME NEW k \in Nat, k + 1 <= Len(gguf.metadata)
      PROVE  /\ gguf.metadata[k + 1] \in Entry
             /\ MetadataTo(gguf, k + 1) = MetadataTo(gguf, k) + EntryBytes(gguf.metadata[k + 1])
             /\ ElementsTo(gguf, k + 1) = ElementsTo(gguf, k) + Elements(gguf.metadata[k + 1])
  <2>1. k + 1 \in Nat /\ k + 1 \in D /\ gguf.metadata[k + 1] \in Entry
    BY <1>3, <1>8
  <2>2. m[k + 1] = EntryBytes(gguf.metadata[k + 1]) /\ x[k + 1] = Elements(gguf.metadata[k + 1])
    BY <1>4, <2>1
  <2>3. SumOf(m, k + 1) = SumOf(m, k) + m[k + 1] /\ SumOf(x, k + 1) = SumOf(x, k) + x[k + 1]
    BY <1>5, <1>6
  <2>4. MetadataTo(gguf, k + 1) = SumOf(m, k + 1) /\ ElementsTo(gguf, k + 1) = SumOf(x, k + 1)
    BY <1>1, <2>1
  <2>5. MetadataTo(gguf, k) = SumOf(m, k) /\ ElementsTo(gguf, k) = SumOf(x, k)
    BY <1>1
  <2> QED
    BY <2>1, <2>2, <2>3, <2>4, <2>5
<1> QED
  BY <1>7, <1>8

\* The totals of the tensor directory, tensor by tensor.
LEMMA TensorSteps ==
    ASSUME gguf \in GgufFiles
    PROVE  /\ NamesTo(gguf, 0) = 0 /\ FieldsTo(gguf, 0) = 0 /\ ExtentTo(gguf, 0) = 0
           /\ \A k \in Nat : k + 1 <= Len(gguf.tensors) =>
                 LET t == gguf.tensors[k + 1] IN
                 /\ t \in Descriptor
                 /\ NamesTo(gguf, k + 1) = NamesTo(gguf, k) + NameBytes(t)
                 /\ FieldsTo(gguf, k + 1) = FieldsTo(gguf, k) + FieldBytes(t)
                 /\ ExtentTo(gguf, k + 1)
                      = ExtentTo(gguf, k) + PaddedUp(TensorBytes(t), AlignmentOf(gguf.metadata))
<1> DEFINE D == DOMAIN gguf.tensors
           a == AlignmentOf(gguf.metadata)
           n == [i \in D |-> 8 + gguf.tensors[i].nameLen]
           d == [i \in D |-> 16 + 8 * Len(gguf.tensors[i].dims)]
           s == [i \in D |-> PaddedUp(TensorBytes(gguf.tensors[i]), a)]
<1>1. \A k \in Nat : NamesTo(gguf, k) = SumOf(n, k) /\ FieldsTo(gguf, k) = SumOf(d, k)
  BY DEF NamesTo, FieldsTo
<1>2. \A k \in Nat : ExtentTo(gguf, k) = SumOf(s, k)
  BY DEF ExtentTo
<1>3. gguf.tensors \in Seq(Descriptor)
  BY FileFacts
<1>4. \A k \in Nat : k + 1 <= Len(gguf.tensors) => k + 1 \in D /\ gguf.tensors[k + 1] \in Descriptor
  BY <1>3
<1>5. \A i \in D : n[i] = NameBytes(gguf.tensors[i]) /\ d[i] = FieldBytes(gguf.tensors[i])
  BY DEF NameBytes, FieldBytes
<1>6. \A i \in D : s[i] = PaddedUp(TensorBytes(gguf.tensors[i]), a)
  OBVIOUS
<1> HIDE DEF n, d, s, D, a
<1>7. ASSUME NEW f PROVE SumOf(f, 0) = 0 /\ \A k \in Nat : SumOf(f, k + 1) = SumOf(f, k) + f[k + 1]
  BY SumSteps
<1>8. NamesTo(gguf, 0) = 0 /\ FieldsTo(gguf, 0) = 0 /\ ExtentTo(gguf, 0) = 0
  BY <1>1, <1>2, <1>7
<1>9. ASSUME NEW k \in Nat, k + 1 <= Len(gguf.tensors)
      PROVE  /\ gguf.tensors[k + 1] \in Descriptor
             /\ NamesTo(gguf, k + 1) = NamesTo(gguf, k) + NameBytes(gguf.tensors[k + 1])
             /\ FieldsTo(gguf, k + 1) = FieldsTo(gguf, k) + FieldBytes(gguf.tensors[k + 1])
             /\ ExtentTo(gguf, k + 1) = ExtentTo(gguf, k) + PaddedUp(TensorBytes(gguf.tensors[k + 1]), a)
  <2>1. k + 1 \in Nat /\ k + 1 \in D /\ gguf.tensors[k + 1] \in Descriptor
    BY <1>4, <1>9
  <2>2. /\ n[k + 1] = NameBytes(gguf.tensors[k + 1]) /\ d[k + 1] = FieldBytes(gguf.tensors[k + 1])
        /\ s[k + 1] = PaddedUp(TensorBytes(gguf.tensors[k + 1]), a)
    BY <1>5, <1>6, <2>1
  <2>3. SumOf(n, k + 1) = SumOf(n, k) + n[k + 1]
    BY <1>7
  <2>4. SumOf(d, k + 1) = SumOf(d, k) + d[k + 1]
    BY <1>7
  <2>5. SumOf(s, k + 1) = SumOf(s, k) + s[k + 1]
    BY <1>7
  <2>6. NamesTo(gguf, k + 1) = SumOf(n, k + 1) /\ FieldsTo(gguf, k + 1) = SumOf(d, k + 1)
        /\ ExtentTo(gguf, k + 1) = SumOf(s, k + 1)
    BY <1>1, <1>2, <2>1
  <2>7. NamesTo(gguf, k) = SumOf(n, k) /\ FieldsTo(gguf, k) = SumOf(d, k) /\ ExtentTo(gguf, k) = SumOf(s, k)
    BY <1>1, <1>2
  <2> QED
    BY <2>1, <2>2, <2>3, <2>4, <2>5, <2>6, <2>7
<1> QED
  BY <1>8, <1>9 DEF a

\* The first k entries, and the first k tensors, are what the reference takes.
EntriesFine(f, k) == \A i \in 1..k : EntryFine(f.metadata[i])
KeysDistinct(f, k) == \A i, j \in 1..k : i # j => f.metadata[i].key # f.metadata[j].key
TensorsFine(f, k) ==
    \A i \in 1..k : StringFine(f.tensors[i].nameLen, f.tensors[i].nameUtf8) /\ ShapeFine(f.tensors[i])
OffsetsRight(f, k) == \A i \in 1..k : f.tensors[i].offset = ExtentTo(f, i - 1)

\* The metadata that is valid takes more the more of it there is.
LEMMA MetadataGrows ==
    ASSUME gguf \in GgufFiles, NEW n \in Nat, n <= Len(gguf.metadata), EntriesFine(gguf, n)
    PROVE  \A k \in 0..n : /\ MetadataTo(gguf, k) \in Nat /\ MetadataTo(gguf, k) <= MetadataTo(gguf, n)
                           /\ ElementsTo(gguf, k) \in Nat /\ ElementsTo(gguf, k) <= ElementsTo(gguf, n)
<1> DEFINE D == DOMAIN gguf.metadata
           m == [i \in D |-> EntryBytes(gguf.metadata[i])]
           x == [i \in D |-> IF gguf.metadata[i].ty = "Array" THEN Len(gguf.metadata[i].items) ELSE 0]
<1>1. \A k \in 0..n : MetadataTo(gguf, k) = SumOf(m, k) /\ ElementsTo(gguf, k) = SumOf(x, k)
  BY DEF MetadataTo, ElementsTo
<1>2. \A i \in 1..n : i \in D /\ gguf.metadata[i] \in Entry
  <2>1. gguf.metadata \in Seq(Entry)
    BY FileFacts
  <2> QED
    BY <2>1
<1>3. \A i \in D : m[i] = EntryBytes(gguf.metadata[i]) /\ x[i] = Elements(gguf.metadata[i])
  BY DEF Elements
<1> HIDE DEF m, x, D
<1>4. \A i \in 1..n : m[i] \in Nat /\ x[i] \in Nat
  <2>1. ASSUME NEW i \in 1..n PROVE m[i] \in Nat /\ x[i] \in Nat
    <3>1. EntryFine(gguf.metadata[i])
      BY DEF EntriesFine
    <3>2. EntryBytes(gguf.metadata[i]) \in Nat /\ Elements(gguf.metadata[i]) \in Nat
      BY <1>2, <3>1, EntrySize
    <3> QED
      BY <1>2, <1>3, <3>2
  <2> QED
    BY <2>1
<1>5. \A k \in 0..n : SumOf(m, k) \in Nat /\ SumOf(m, k) <= SumOf(m, n)
  BY <1>4, SumGrows
<1>6. \A k \in 0..n : SumOf(x, k) \in Nat /\ SumOf(x, k) <= SumOf(x, n)
  BY <1>4, SumGrows
<1>7. n \in 0..n
  OBVIOUS
<1> QED
  BY <1>1, <1>5, <1>6, <1>7

\* The alignment of a file is a power of two, where there is one.
LEMMA AlignmentFacts ==
    ASSUME AlignmentOf(gguf.metadata) # Overflow
    PROVE  AlignmentOf(gguf.metadata) \in PowersOfTwo
<1> DEFINE found == {i \in DOMAIN gguf.metadata : gguf.metadata[i].key = "general.alignment"}
           e == gguf.metadata[CHOOSE i \in found : TRUE]
<1>1. AlignmentOf(gguf.metadata)
        = IF found = {} THEN 32 ELSE IF e.ty = "U32" /\ e.value.val \in PowersOfTwo THEN e.value.val ELSE Overflow
  BY DEF AlignmentOf
<1>2. 32 \in PowersOfTwo
  BY ReaderAssumption
<1> HIDE DEF found, e
<1> QED
  BY <1>1, <1>2

\* Powers of two are what sizes are padded to.
LEMMA PowersPositive == PowersOfTwo \subseteq Positive
<1>1. ASSUME NEW a \in PowersOfTwo PROVE a \in Nat \ {0}
  BY ReaderAssumption
<1> QED
  BY <1>1 DEF Positive

\* The tensor directory takes more the more tensors it lists, and so do they.
LEMMA TensorsGrow ==
    ASSUME gguf \in GgufFiles, NEW n \in Nat, n <= Len(gguf.tensors), TensorsFine(gguf, n),
           MaxDimensions <= 4, AlignmentOf(gguf.metadata) # Overflow
    PROVE  \A k \in 0..n : /\ NamesTo(gguf, k) \in Nat /\ NamesTo(gguf, k) <= NamesTo(gguf, n)
                           /\ FieldsTo(gguf, k) \in Nat /\ FieldsTo(gguf, k) <= FieldsTo(gguf, n)
                           /\ ExtentTo(gguf, k) \in Nat /\ ExtentTo(gguf, k) <= ExtentTo(gguf, n)
<1> DEFINE D == DOMAIN gguf.tensors
           a == AlignmentOf(gguf.metadata)
           s == [i \in D |-> 8 + gguf.tensors[i].nameLen]
           d == [i \in D |-> 16 + 8 * Len(gguf.tensors[i].dims)]
           p == [i \in D |-> PaddedUp(TensorBytes(gguf.tensors[i]), a)]
<1>1. \A k \in 0..n : NamesTo(gguf, k) = SumOf(s, k) /\ FieldsTo(gguf, k) = SumOf(d, k)
  BY DEF NamesTo, FieldsTo
<1>2. \A k \in 0..n : ExtentTo(gguf, k) = SumOf(p, k)
  BY DEF ExtentTo
<1>3. \A i \in 1..n : i \in D /\ gguf.tensors[i] \in Descriptor
  <2>1. gguf.tensors \in Seq(Descriptor)
    BY FileFacts
  <2> QED
    BY <2>1
<1>4. \A i \in D : s[i] = NameBytes(gguf.tensors[i]) /\ d[i] = FieldBytes(gguf.tensors[i])
  BY DEF NameBytes, FieldBytes
<1>5. \A i \in D : p[i] = PaddedUp(TensorBytes(gguf.tensors[i]), a)
  OBVIOUS
<1>6. a \in Positive
  BY AlignmentFacts, PowersPositive
<1> HIDE DEF s, d, p, D, a
<1>7. ASSUME NEW i \in 1..n PROVE s[i] \in Nat /\ d[i] \in Nat /\ p[i] \in Nat
  <2> DEFINE t == gguf.tensors[i]
  <2>1. t \in Descriptor /\ i \in D /\ ShapeFine(t)
    BY <1>3 DEF TensorsFine
  <2>2. s[i] = NameBytes(t) /\ d[i] = FieldBytes(t) /\ p[i] = PaddedUp(TensorBytes(t), a)
    BY <1>4, <1>5, <2>1
  <2> HIDE DEF t
  <2>3. t.nameLen \in Nat /\ Len(t.dims) \in Nat
    BY <2>1 DEF Descriptor
  <2>4. NameBytes(t) \in Nat /\ FieldBytes(t) \in Nat
    BY <2>3 DEF NameBytes, FieldBytes
  <2>5. TensorBytes(t) \in Nat
    BY <2>1, BytesExact
  <2>6. PaddedUp(TensorBytes(t), a) \in Nat
    BY <1>6, <2>5, PaddedUpIs
  <2> QED
    BY <2>2, <2>4, <2>6
<1>8. \A k \in 0..n : SumOf(s, k) \in Nat /\ SumOf(s, k) <= SumOf(s, n)
  BY <1>7, SumGrows
<1>9. \A k \in 0..n : SumOf(d, k) \in Nat /\ SumOf(d, k) <= SumOf(d, n)
  BY <1>7, SumGrows
<1>10. \A k \in 0..n : SumOf(p, k) \in Nat /\ SumOf(p, k) <= SumOf(p, n)
  BY <1>7, SumGrows
<1>11. n \in 0..n
  OBVIOUS
<1> QED
  BY <1>1, <1>2, <1>8, <1>9, <1>10, <1>11

-----------------------------------------------------------------------------
(* GgufReader: the reader against the reference, phase by phase. *)

\* The parts of the reference: the header, the metadata, the tensor directory.
HeaderFine(f) ==
    /\ f.magic \in {"GGUF", "FUGG"} /\ f.version \in {2, 3} /\ MaxDimensions <= 4
    /\ f.metadataCount <= MaxMetadataEntries /\ f.tensorCount <= MaxTensors
MetadataFine(f) ==
    /\ f.metadataCount = Len(f.metadata)
    /\ EntriesFine(f, Len(f.metadata)) /\ KeysDistinct(f, Len(f.metadata))
    /\ ElementsTo(f, Len(f.metadata)) <= MaxArrayElements
    /\ AlignmentOf(f.metadata) # Overflow
DirectoryFine(f) ==
    /\ f.tensorCount = Len(f.tensors) /\ TensorsFine(f, Len(f.tensors))
    /\ MetadataTo(f, Len(f.metadata)) + NamesTo(f, Len(f.tensors)) <= MaxMetadataBytes
DirectoryEnd(f) ==
    24 + MetadataTo(f, Len(f.metadata)) + NamesTo(f, Len(f.tensors)) + FieldsTo(f, Len(f.tensors))
DataStart(f) == PaddedUp(DirectoryEnd(f), AlignmentOf(f.metadata))
ExtentsFine(f) ==
    /\ OffsetsRight(f, Len(f.tensors))
    /\ DataStart(f) + ExtentTo(f, Len(f.tensors)) <= f.length

\* What has been read of the metadata is valid, and so much of the file.
AtMetadata(f, r) ==
    /\ Live(r) /\ r.phase = "metadata" /\ HeaderFine(f) /\ r.extent = 0
    /\ r.next >= 1 /\ r.next <= Len(f.metadata) + 1
    /\ EntriesFine(f, r.next - 1) /\ KeysDistinct(f, r.next - 1)
    /\ r.metadataBytes = MetadataTo(f, r.next - 1) /\ r.pos = 24 + r.metadataBytes
    /\ r.arrayElements = ElementsTo(f, r.next - 1)
    /\ r.pos <= f.length /\ r.metadataBytes <= MaxMetadataBytes /\ r.arrayElements <= MaxArrayElements

\* The metadata is valid, and so are the tensors listed so far.
AtTensors(f, r) ==
    /\ Live(r) /\ r.phase = "tensors" /\ HeaderFine(f) /\ MetadataFine(f)
    /\ r.alignment = AlignmentOf(f.metadata) /\ r.extent = 0
    /\ r.next >= 1 /\ r.next <= Len(f.tensors) + 1
    /\ TensorsFine(f, r.next - 1)
    /\ r.metadataBytes = MetadataTo(f, Len(f.metadata)) + NamesTo(f, r.next - 1)
    /\ r.pos = 24 + r.metadataBytes + FieldsTo(f, r.next - 1)
    /\ r.pos <= f.length /\ r.metadataBytes <= MaxMetadataBytes

\* All of it is valid but, perhaps, the extents of the next tensors.
AtExtents(f, r) ==
    /\ Live(r) /\ r.phase = "extents" /\ HeaderFine(f) /\ MetadataFine(f) /\ DirectoryFine(f)
    /\ r.alignment = AlignmentOf(f.metadata) /\ r.dataOffset = DataStart(f)
    /\ r.next >= 1 /\ r.next <= Len(f.tensors) + 1
    /\ OffsetsRight(f, r.next - 1)
    /\ r.extent = ExtentTo(f, r.next - 1)
    /\ r.dataOffset <= f.length /\ r.extent <= MaxU64

\* Where the reader is is where the reference has it.
AcceptInv ==
    /\ gguf \in GgufFiles
    /\ \/ reader = FreshReader
       \/ AtMetadata(gguf, reader)
       \/ AtTensors(gguf, reader)
       \/ AtExtents(gguf, reader)
       \/ reader.phase = "accepted" /\ Acceptable(gguf)
       \/ reader.phase = "refused" /\ ~Acceptable(gguf)

-----------------------------------------------------------------------------

\* The reference is its parts.
LEMMA AcceptableParts ==
    ASSUME gguf \in GgufFiles
    PROVE  Acceptable(gguf) <=> /\ HeaderFine(gguf) /\ MetadataFine(gguf)
                                /\ DirectoryFine(gguf) /\ ExtentsFine(gguf)
<1> DEFINE m == Len(gguf.metadata)
           n == Len(gguf.tensors)
           a == AlignmentOf(gguf.metadata)
           E(i) == /\ StringFine(gguf.metadata[i].keyLen, gguf.metadata[i].keyUtf8)
                   /\ ValueFine(gguf.metadata[i])
                   /\ \A j \in DOMAIN gguf.metadata : j # i => gguf.metadata[j].key # gguf.metadata[i].key
           T(i) == /\ StringFine(gguf.tensors[i].nameLen, gguf.tensors[i].nameUtf8)
                   /\ ShapeFine(gguf.tensors[i])
                   /\ gguf.tensors[i].offset = ExtentTo(gguf, i - 1)
<1>1. Acceptable(gguf)
        <=> /\ gguf.magic \in {"GGUF", "FUGG"} /\ gguf.version \in {2, 3} /\ MaxDimensions <= 4
            /\ gguf.metadataCount = m /\ gguf.metadataCount <= MaxMetadataEntries
            /\ gguf.tensorCount = n /\ gguf.tensorCount <= MaxTensors
            /\ \A i \in DOMAIN gguf.metadata : E(i)
            /\ ElementsTo(gguf, m) <= MaxArrayElements
            /\ a # Overflow
            /\ MetadataTo(gguf, m) + NamesTo(gguf, n) <= MaxMetadataBytes
            /\ \A i \in DOMAIN gguf.tensors : T(i)
            /\ PaddedUp(DirectoryEnd(gguf), a) + ExtentTo(gguf, n) <= gguf.length
  BY Zenon DEF Acceptable, DirectoryEnd
<1>2. DOMAIN gguf.metadata = 1..m /\ DOMAIN gguf.tensors = 1..n
  <2>1. gguf.metadata \in Seq(Entry) /\ gguf.tensors \in Seq(Descriptor)
    BY FileFacts
  <2> QED
    BY <2>1
<1>3. (\A i \in DOMAIN gguf.metadata : E(i)) <=> EntriesFine(gguf, m) /\ KeysDistinct(gguf, m)
  <2> HIDE DEF m
  <2> QED
    BY <1>2, Zenon DEF EntriesFine, EntryFine, KeysDistinct
<1>4. (\A i \in DOMAIN gguf.tensors : T(i)) <=> TensorsFine(gguf, n) /\ OffsetsRight(gguf, n)
  <2> HIDE DEF n
  <2> QED
    BY <1>2, Zenon DEF TensorsFine, OffsetsRight
<1> HIDE DEF E, T
<1> QED
  BY <1>1, <1>3, <1>4, Zenon DEF HeaderFine, MetadataFine, DirectoryFine, ExtentsFine, DataStart

\* The totals of a directory that is valid are numbers, and it is no shorter
\* than a part of it.
LEMMA DirectoryTotals ==
    ASSUME gguf \in GgufFiles, MetadataFine(gguf), MaxDimensions <= 4,
           NEW n \in Nat, n <= Len(gguf.tensors), TensorsFine(gguf, n), NEW k \in 0..n
    PROVE  /\ MetadataTo(gguf, Len(gguf.metadata)) \in Nat
           /\ NamesTo(gguf, k) \in Nat /\ NamesTo(gguf, k) <= NamesTo(gguf, n)
           /\ FieldsTo(gguf, k) \in Nat /\ FieldsTo(gguf, k) <= FieldsTo(gguf, n)
           /\ ExtentTo(gguf, k) \in Nat /\ ExtentTo(gguf, k) <= ExtentTo(gguf, n)
<1>1. \A i \in 0..n : /\ NamesTo(gguf, i) \in Nat /\ NamesTo(gguf, i) <= NamesTo(gguf, n)
                      /\ FieldsTo(gguf, i) \in Nat /\ FieldsTo(gguf, i) <= FieldsTo(gguf, n)
                      /\ ExtentTo(gguf, i) \in Nat /\ ExtentTo(gguf, i) <= ExtentTo(gguf, n)
  BY TensorsGrow DEF MetadataFine
<1> DEFINE m == Len(gguf.metadata)
<1>2. m \in Nat /\ m <= Len(gguf.metadata) /\ EntriesFine(gguf, m)
  <2>1. gguf.metadata \in Seq(Entry)
    BY FileFacts
  <2>2. m \in Nat
    BY <2>1
  <2>3. m <= m
    <3> HIDE DEF m
    <3> QED
      BY <2>2
  <2> QED
    BY <2>2, <2>3 DEF MetadataFine
<1>3. MetadataTo(gguf, m) \in Nat
  <2> HIDE DEF m
  <2>1. m \in 0..m
    BY <1>2
  <2> QED
    BY <1>2, <2>1, MetadataGrows
<1> QED
  BY <1>1, <1>3

\* What a valid file has room for on the way.
LEMMA AcceptableRoom ==
    ASSUME gguf \in GgufFiles, Acceptable(gguf)
    PROVE  /\ \A k \in 0..Len(gguf.metadata) :
                 /\ MetadataTo(gguf, k) \in Nat /\ 24 + MetadataTo(gguf, k) <= gguf.length
                 /\ MetadataTo(gguf, k) <= MaxMetadataBytes
                 /\ ElementsTo(gguf, k) \in Nat /\ ElementsTo(gguf, k) <= MaxArrayElements
           /\ \A k \in 0..Len(gguf.tensors) :
                 LET names == MetadataTo(gguf, Len(gguf.metadata)) + NamesTo(gguf, k) IN
                 /\ names <= MaxMetadataBytes
                 /\ 24 + names + FieldsTo(gguf, k) <= gguf.length
                 /\ ExtentTo(gguf, k) \in Nat /\ DataStart(gguf) \in Nat
                 /\ DataStart(gguf) + ExtentTo(gguf, k) <= gguf.length
<1> DEFINE m == Len(gguf.metadata)
           n == Len(gguf.tensors)
           M == MetadataTo(gguf, m)
           N == NamesTo(gguf, n)
           F == FieldsTo(gguf, n)
           X == ExtentTo(gguf, n)
           S == DataStart(gguf)
<1>1. /\ HeaderFine(gguf) /\ MetadataFine(gguf) /\ DirectoryFine(gguf) /\ ExtentsFine(gguf)
  BY AcceptableParts
<1>2. m \in Nat /\ n \in Nat /\ gguf.length \in Nat /\ MaxMetadataBytes \in Nat /\ MaxArrayElements \in Nat
  <2>1. gguf.metadata \in Seq(Entry) /\ gguf.tensors \in Seq(Descriptor)
    BY FileFacts
  <2> QED
    BY <2>1, FileFacts
<1>3. MaxDimensions <= 4 /\ EntriesFine(gguf, m) /\ TensorsFine(gguf, n) /\ M + N <= MaxMetadataBytes
      /\ ElementsTo(gguf, m) <= MaxArrayElements /\ S + X <= gguf.length
  BY <1>1 DEF HeaderFine, MetadataFine, DirectoryFine, ExtentsFine
<1>4. m <= m /\ n <= n /\ n \in 0..n /\ m \in 0..m
  <2> HIDE DEF m, n
  <2> QED
    BY <1>2
<1>5. \A k \in 0..m : /\ MetadataTo(gguf, k) \in Nat /\ MetadataTo(gguf, k) <= M
                      /\ ElementsTo(gguf, k) \in Nat /\ ElementsTo(gguf, k) <= ElementsTo(gguf, m)
  BY <1>2, <1>3, <1>4, MetadataGrows
<1>6. \A k \in 0..n : /\ NamesTo(gguf, k) \in Nat /\ NamesTo(gguf, k) <= N
                      /\ FieldsTo(gguf, k) \in Nat /\ FieldsTo(gguf, k) <= F
                      /\ ExtentTo(gguf, k) \in Nat /\ ExtentTo(gguf, k) <= X
  BY <1>1, <1>2, <1>3, <1>4, DirectoryTotals
<1>7. M \in Nat /\ N \in Nat /\ F \in Nat /\ X \in Nat /\ ElementsTo(gguf, m) \in Nat
  BY <1>4, <1>5, <1>6
<1>8. DirectoryEnd(gguf) = 24 + M + N + F
  BY DEF DirectoryEnd
<1>9. S \in Nat /\ 24 + M + N + F <= S
  <2>1. AlignmentOf(gguf.metadata) \in Positive
    BY <1>1, AlignmentFacts, PowersPositive DEF MetadataFine
  <2>2. 24 + M + N + F \in Nat
    <3> HIDE DEF M, N, F
    <3> QED
      BY <1>7
  <2> HIDE DEF M, N, F
  <2> QED
    BY <1>8, <2>1, <2>2, PaddedUpIs DEF DataStart
<1> DEFINE L == ElementsTo(gguf, m)
<1> HIDE DEF m, n, M, N, F, X, S, L
<1>10. ASSUME NEW k \in 0..m
       PROVE  /\ MetadataTo(gguf, k) \in Nat /\ 24 + MetadataTo(gguf, k) <= gguf.length
              /\ MetadataTo(gguf, k) <= MaxMetadataBytes
              /\ ElementsTo(gguf, k) \in Nat /\ ElementsTo(gguf, k) <= MaxArrayElements
  <2>1. MetadataTo(gguf, k) \in Nat /\ MetadataTo(gguf, k) <= M
    BY <1>5
  <2>2. ElementsTo(gguf, k) \in Nat /\ ElementsTo(gguf, k) <= L
    BY <1>5 DEF L
  <2>3. L <= MaxArrayElements /\ L \in Nat
    BY <1>3, <1>7 DEF L
  <2> QED
    BY <1>2, <1>3, <1>7, <1>9, <2>1, <2>2, <2>3
<1>11. ASSUME NEW k \in 0..n
       PROVE  LET names == M + NamesTo(gguf, k) IN
              /\ names <= MaxMetadataBytes
              /\ 24 + names + FieldsTo(gguf, k) <= gguf.length
              /\ ExtentTo(gguf, k) \in Nat /\ S \in Nat
              /\ S + ExtentTo(gguf, k) <= gguf.length
  <2>1. /\ NamesTo(gguf, k) \in Nat /\ NamesTo(gguf, k) <= N
        /\ FieldsTo(gguf, k) \in Nat /\ FieldsTo(gguf, k) <= F
        /\ ExtentTo(gguf, k) \in Nat /\ ExtentTo(gguf, k) <= X
    BY <1>6
  <2> QED
    BY <1>2, <1>3, <1>7, <1>9, <2>1
<1> QED
  BY <1>10, <1>11 DEF m, n, M, S

\* Where a file is refused: it is not valid, whatever it fails by.
Refuses(r) == r.phase = "refused" /\ ~Acceptable(gguf)

\* The header.
LEMMA HeaderRead ==
    ASSUME gguf \in GgufFiles, reader = FreshReader, ReadHeader
    PROVE  AtMetadata(gguf, reader') \/ Refuses(reader')
<1> DEFINE h == Take(reader, 24, FALSE)
           ok == /\ gguf.magic \in {"GGUF", "FUGG"} /\ gguf.version \in 2..3 /\ ~(MaxDimensions > 4)
                 /\ ~(gguf.tensorCount > MaxTensors) /\ ~(gguf.metadataCount > MaxMetadataEntries)
<1>1. reader' = IF Failed(h) \/ ~ok THEN Fail(h) ELSE [h EXCEPT !.phase = "metadata"]
  BY DEF ReadHeader
<1>2. /\ reader \in ReaderRecord /\ ~Failed(reader) /\ reader.pos = 0 /\ reader.metadataBytes = 0
      /\ reader.arrayElements = 0 /\ reader.next = 1 /\ reader.extent = 0
  BY DEF FreshReader, ReaderRecord, Failed
<1>3. /\ gguf.length \in Nat /\ gguf.version \in Nat /\ MaxDimensions \in Nat
      /\ gguf.tensorCount \in Nat /\ gguf.metadataCount \in Nat /\ MaxTensors \in Nat
      /\ MaxMetadataEntries \in Nat /\ MaxMetadataBytes \in Nat /\ MaxArrayElements \in Nat
      /\ Len(gguf.metadata) \in Nat
  <2>1. gguf.metadata \in Seq(Entry)
    BY FileFacts
  <2> QED
    BY <2>1, FileFacts
<1>4. ok <=> HeaderFine(gguf)
  <2>1. gguf.version \in 2..3 <=> gguf.version \in {2, 3}
    BY <1>3
  <2> QED
    BY <1>3, <2>1 DEF HeaderFine
<1>5. MetadataTo(gguf, 0) = 0 /\ ElementsTo(gguf, 0) = 0
  BY MetadataSteps
<1> HIDE DEF ok
<1>6. CASE 24 <= gguf.length /\ ok
  <2> DEFINE g == [reader EXCEPT !.pos = @ + 24]
             p == [g EXCEPT !.metadataBytes = @]
             q == [p EXCEPT !.phase = "metadata"]
  <2>1. h = p
    <3>1. ~(reader.pos + 24 > gguf.length)
      BY <1>2, <1>3, <1>6
    <3>2. h = [reader EXCEPT !.pos = @ + 24, !.metadataBytes = IF FALSE THEN @ + 24 ELSE @]
      BY <1>2, <3>1 DEF Take
    <3>3. [reader EXCEPT !.pos = @ + 24, !.metadataBytes = IF FALSE THEN @ + 24 ELSE @] = p
      OBVIOUS
    <3> QED
      BY <3>2, <3>3
  <2> HIDE DEF h
  <2>2. g \in ReaderRecord /\ g.phase = reader.phase /\ g.pos = 24 /\ g.metadataBytes = 0
        /\ g.arrayElements = 0 /\ g.next = 1 /\ g.extent = 0
    BY <1>2 DEF ReaderRecord
  <2> HIDE DEF g
  <2>3. p \in ReaderRecord /\ p.phase = reader.phase /\ p.pos = 24 /\ p.metadataBytes = 0
        /\ p.arrayElements = 0 /\ p.next = 1 /\ p.extent = 0
    BY <2>2 DEF ReaderRecord
  <2> HIDE DEF p
  <2>4. q \in ReaderRecord /\ q.phase = "metadata" /\ q.pos = 24 /\ q.metadataBytes = 0
        /\ q.arrayElements = 0 /\ q.next = 1 /\ q.extent = 0
    BY <2>3 DEF ReaderRecord
  <2>5. reader' = q
    <3>1. ~Failed(h)
      BY <1>2, <2>1, <2>3 DEF Failed
    <3> HIDE DEF q
    <3>2. reader' = [h EXCEPT !.phase = "metadata"]
      BY <1>1, <1>6, <3>1
    <3> QED
      BY <2>1, <3>2 DEF q
  <2> HIDE DEF q
  <2>6. Live(q)
    BY <2>4 DEF Live, Failed
  <2>7. EntriesFine(gguf, 0) /\ KeysDistinct(gguf, 0)
    BY DEF EntriesFine, KeysDistinct
  <2>8. q.next - 1 = 0 /\ q.next >= 1 /\ q.next <= Len(gguf.metadata) + 1 /\ q.pos = 24 + q.metadataBytes
        /\ q.metadataBytes <= MaxMetadataBytes /\ q.arrayElements <= MaxArrayElements
        /\ q.pos <= gguf.length
    BY <1>3, <1>6, <2>4
  <2>9. EntriesFine(gguf, q.next - 1) /\ KeysDistinct(gguf, q.next - 1)
        /\ q.metadataBytes = MetadataTo(gguf, q.next - 1) /\ q.arrayElements = ElementsTo(gguf, q.next - 1)
    BY <1>5, <2>4, <2>7, <2>8
  <2>10. AtMetadata(gguf, q)
    BY <1>4, <1>6, <2>4, <2>6, <2>8, <2>9, Zenon DEF AtMetadata
  <2> QED
    BY <2>5, <2>10
<1>7. CASE ~(24 <= gguf.length /\ ok)
  <2>1. reader'.phase = "refused"
    <3>1. h \in ReaderRecord
      <4>1. CASE 24 <= gguf.length
        <5> DEFINE g == [reader EXCEPT !.pos = @ + 24]
        <5>1. g \in ReaderRecord
          BY <1>2 DEF ReaderRecord
        <5>2. [g EXCEPT !.metadataBytes = @] \in ReaderRecord
          BY <5>1 DEF ReaderRecord
        <5>3. ~(reader.pos + 24 > gguf.length)
          BY <1>2, <1>3, <4>1
        <5>4. h = [reader EXCEPT !.pos = @ + 24, !.metadataBytes = IF FALSE THEN @ + 24 ELSE @]
          BY <1>2, <5>3 DEF Take
        <5>5. [reader EXCEPT !.pos = @ + 24, !.metadataBytes = IF FALSE THEN @ + 24 ELSE @]
                = [g EXCEPT !.metadataBytes = @]
          OBVIOUS
        <5> QED
          BY <5>2, <5>4, <5>5
      <4>2. CASE ~(24 <= gguf.length)
        <5>1. h = Fail(reader)
          BY <1>2, <1>3, <4>2 DEF Take
        <5> QED
          BY <1>2, <5>1, FailDead DEF Dead
      <4> QED
        BY <4>1, <4>2
    <3>2. Failed(h) \/ ~ok
      <4>1. CASE ~(24 <= gguf.length)
        <5>1. h = Fail(reader)
          BY <1>2, <1>3, <4>1 DEF Take
        <5> QED
          BY <1>2, <5>1, FailDead DEF Dead
      <4> QED
        BY <1>7, <4>1
    <3> HIDE DEF h
    <3>3. reader' = Fail(h)
      BY <1>1, <3>2
    <3> QED
      BY <3>1, <3>3, FailDead DEF Dead, Failed
  <2>2. ~Acceptable(gguf)
    <3>1. SUFFICES ASSUME Acceptable(gguf) PROVE FALSE
      OBVIOUS
    <3>2. HeaderFine(gguf)
      BY <3>1, AcceptableParts
    <3>3. 0 \in 0..Len(gguf.metadata)
      <4> DEFINE m == Len(gguf.metadata)
      <4>1. m \in Nat
        BY <1>3
      <4> HIDE DEF m
      <4>2. 0 \in 0..m
        BY <4>1
      <4> QED
        BY <4>2 DEF m
    <3>4. 24 + MetadataTo(gguf, 0) <= gguf.length
      BY <3>1, <3>3, AcceptableRoom
    <3> QED
      BY <1>3, <1>4, <1>5, <1>7, <3>2, <3>4
  <2> QED
    BY <2>1, <2>2 DEF Refuses
<1> QED
  BY <1>6, <1>7

-----------------------------------------------------------------------------

\* What fails leaves the file refused, where it is not valid.
LEMMA FailRefuses ==
    ASSUME NEW q \in ReaderRecord, reader' = Fail(q), ~Acceptable(gguf)
    PROVE  Refuses(reader')
<1>1. Dead(Fail(q))
  BY FailDead
<1> QED
  BY <1>1 DEF Dead, Failed, Refuses

\* The next turn of a loop, of a reader that is alive.
LEMMA NextLive ==
    ASSUME NEW q, Live(q), NEW places \in Nat
    PROVE  LET p == [TakePlaces(q, places) EXCEPT !.next = @ + 1] IN
           /\ Live(p) /\ p.next = q.next + 1 /\ p.phase = q.phase /\ p.alignment = q.alignment /\ p.extent = q.extent
           /\ p.pos = q.pos /\ p.metadataBytes = q.metadataBytes /\ p.arrayElements = q.arrayElements
<1> DEFINE g == TakePlaces(q, places)
           p == [g EXCEPT !.next = @ + 1]
<1>1. Advanced(q, g, 0) /\ q.pos \in Nat /\ q.metadataBytes \in Nat
  BY HeldAside DEF Live, ReaderRecord
<1> HIDE DEF g
<1>2. /\ Live(g) /\ g.next = q.next /\ g.phase = q.phase /\ g.alignment = q.alignment /\ g.extent = q.extent
      /\ g.pos = q.pos /\ g.metadataBytes = q.metadataBytes /\ g.arrayElements = q.arrayElements
  BY <1>1 DEF Advanced
<1>3. /\ p \in ReaderRecord /\ p.next = g.next + 1 /\ p.phase = g.phase /\ p.alignment = g.alignment /\ p.extent = g.extent
      /\ p.pos = g.pos /\ p.metadataBytes = g.metadataBytes /\ p.arrayElements = g.arrayElements
  BY <1>2 DEF Live, ReaderRecord
<1> HIDE DEF p
<1>4. Live(p)
  BY <1>2, <1>3 DEF Live, Failed
<1> QED
  BY <1>2, <1>3, <1>4 DEF p, g

\* One more of what is fine so far.
LEMMA OneMore ==
    ASSUME NEW k \in Nat
    PROVE  /\ \A i \in 1..(k + 1) : i \in 1..k \/ i = k + 1
           /\ \A n \in Nat : k + 1 <= n => k + 1 \in 1..n /\ k + 1 \in 0..n /\ k \in 0..n /\ \A i \in 1..k : i \in 1..n
OBVIOUS

\* A turn of the metadata loop.
LEMMA MetadataRead ==
    ASSUME gguf \in GgufFiles, AtMetadata(gguf, reader), ReadMetadata
    PROVE  AtMetadata(gguf, reader') \/ Refuses(reader')
<1> DEFINE m == Len(gguf.metadata)
           k == reader.next - 1
           e == gguf.metadata[k + 1]
           q == EntryTaken(reader, e)
           dup == \E i \in 1..k : gguf.metadata[i].key = e.key
<1>1. m \in Nat /\ gguf.metadata \in Seq(Entry) /\ gguf.metadataCount \in Nat /\ MaxArrayElements \in Nat
      /\ gguf.length \in Nat
  <2>1. gguf.metadata \in Seq(Entry)
    BY FileFacts
  <2> QED
    BY <2>1, FileFacts
<1>2. /\ Live(reader) /\ reader \in ReaderRecord /\ reader.next \in Nat /\ HeaderFine(gguf)
      /\ reader.phase = "metadata" /\ reader.extent = 0
  BY DEF AtMetadata, Live, ReaderRecord
<1>3. k \in Nat /\ k + 1 = reader.next /\ k + 1 <= m + 1
  BY <1>1, <1>2 DEF AtMetadata
<1>4. /\ EntriesFine(gguf, k) /\ KeysDistinct(gguf, k)
      /\ reader.metadataBytes = MetadataTo(gguf, k) /\ reader.pos = 24 + reader.metadataBytes
      /\ reader.arrayElements = ElementsTo(gguf, k) /\ reader.arrayElements <= MaxArrayElements
  BY DEF AtMetadata
<1>5. reader' = IF k + 1 > m THEN Fail(reader)
                ELSE IF Failed(q) \/ dup THEN Fail(q) ELSE [TakePlaces(q, 2) EXCEPT !.next = @ + 1]
  BY <1>3, Zenon DEF ReadMetadata, EntryTaken
<1>6. reader.next <= gguf.metadataCount
  BY DEF ReadMetadata
<1> HIDE DEF k, m, q, dup, e
<1>7. CASE k + 1 > m
  <2>1. ~Acceptable(gguf)
    <3>1. SUFFICES ASSUME Acceptable(gguf) PROVE FALSE
      OBVIOUS
    <3>2. gguf.metadataCount = m
      BY <3>1, AcceptableParts DEF MetadataFine, m
    <3> QED
      BY <1>1, <1>3, <1>6, <1>7, <3>2
  <2> QED
    BY <1>2, <1>5, <1>7, <2>1, FailRefuses
<1>8. CASE ~(k + 1 > m)
  <2>1. k + 1 <= m /\ k + 1 \in 1..m /\ k + 1 \in 0..m
    BY <1>1, <1>3, <1>8
  <2>2. /\ e \in Entry
        /\ MetadataTo(gguf, k + 1) = MetadataTo(gguf, k) + EntryBytes(e)
        /\ ElementsTo(gguf, k + 1) = ElementsTo(gguf, k) + Elements(e)
    BY <1>3, <2>1, MetadataSteps DEF m, e
  <2>3. IF EntryFine(e) /\ ValueRoom(reader, EntryBytes(e), Elements(e))
        THEN Valued(reader, q, EntryBytes(e), Elements(e)) ELSE Dead(q)
    BY <1>2, <1>4, <2>2, EntryRead DEF q
  <2>4. q \in ReaderRecord
    BY <2>3 DEF Valued, Live, Dead
  <2>5. CASE EntryFine(e) /\ ValueRoom(reader, EntryBytes(e), Elements(e)) /\ ~dup
    <3> DEFINE p == [TakePlaces(q, 2) EXCEPT !.next = @ + 1]
    <3>1. Valued(reader, q, EntryBytes(e), Elements(e)) /\ Live(q)
      BY <2>3, <2>5 DEF Valued
    <3>2. reader' = p
      BY <1>5, <1>8, <2>5, <3>1 DEF Live
    <3>3. /\ Live(p) /\ p.next = q.next + 1 /\ p.phase = q.phase /\ p.extent = q.extent
          /\ p.pos = q.pos /\ p.metadataBytes = q.metadataBytes /\ p.arrayElements = q.arrayElements
      BY <3>1, NextLive
    <3> HIDE DEF p
    <3>4. p.next - 1 = k + 1 /\ p.next >= 1 /\ p.next <= m + 1 /\ p.phase = "metadata" /\ p.extent = 0
      BY <1>1, <1>2, <1>3, <2>1, <3>1, <3>3 DEF Valued
    <3>5. EntriesFine(gguf, k + 1)
      BY <1>3, <1>4, <2>5, OneMore DEF EntriesFine, e
    <3>6. KeysDistinct(gguf, k + 1)
      <4>1. \A i \in 1..k : gguf.metadata[i].key # gguf.metadata[k + 1].key
        BY <2>5 DEF dup, e
      <4>2. \A i \in 1..(k + 1) : i \in 1..k \/ i = k + 1
        BY <1>3, OneMore
      <4> QED
        BY <1>4, <4>1, <4>2, Zenon DEF KeysDistinct
    <3>7. /\ p.metadataBytes = MetadataTo(gguf, k + 1) /\ p.arrayElements = ElementsTo(gguf, k + 1)
          /\ p.pos = reader.pos + EntryBytes(e) /\ p.metadataBytes = reader.metadataBytes + EntryBytes(e)
          /\ p.arrayElements = reader.arrayElements + Elements(e)
      BY <1>4, <2>2, <3>1, <3>3 DEF Valued
    <3>8. EntryBytes(e) \in Nat /\ reader.metadataBytes \in Nat
      BY <1>2, <2>2, <2>5, EntrySize DEF ReaderRecord
    <3>9. p.pos = 24 + p.metadataBytes
      BY <1>4, <3>7, <3>8
    <3>10. p.pos <= gguf.length /\ p.metadataBytes <= MaxMetadataBytes /\ p.arrayElements <= MaxArrayElements
      BY <2>5, <3>7 DEF ValueRoom, Room
    <3>11. AtMetadata(gguf, p)
      <4>1. EntriesFine(gguf, p.next - 1) /\ KeysDistinct(gguf, p.next - 1)
            /\ p.metadataBytes = MetadataTo(gguf, p.next - 1) /\ p.arrayElements = ElementsTo(gguf, p.next - 1)
        BY <3>4, <3>5, <3>6, <3>7
      <4> QED
        BY <1>2, <3>3, <3>4, <3>9, <3>10, <4>1, Zenon DEF AtMetadata, m
    <3> QED
      BY <3>2, <3>11
  <2>6. CASE ~(EntryFine(e) /\ ValueRoom(reader, EntryBytes(e), Elements(e)) /\ ~dup)
    <3>1. reader' = Fail(q)
      BY <1>5, <1>8, <2>3, <2>6 DEF Dead
    <3>2. ~Acceptable(gguf)
      <4>1. SUFFICES ASSUME Acceptable(gguf) PROVE FALSE
        OBVIOUS
      <4>2. EntriesFine(gguf, m) /\ KeysDistinct(gguf, m)
        BY <4>1, AcceptableParts DEF MetadataFine, m
      <4>3. EntryFine(e)
        BY <2>1, <4>2 DEF EntriesFine, e
      <4>4. ~dup
        <5>1. ASSUME NEW i \in 1..k PROVE gguf.metadata[i].key # e.key
          <6>1. i \in 1..m /\ i # k + 1
            BY <1>1, <1>3, <2>1
          <6> QED
            BY <2>1, <4>2, <6>1 DEF KeysDistinct, e
        <5> QED
          BY <5>1 DEF dup
      <4>5. /\ 24 + MetadataTo(gguf, k + 1) <= gguf.length
            /\ MetadataTo(gguf, k + 1) <= MaxMetadataBytes /\ ElementsTo(gguf, k + 1) <= MaxArrayElements
        BY <2>1, <4>1, AcceptableRoom DEF m
      <4>6. EntryBytes(e) \in Nat /\ reader.metadataBytes \in Nat
        BY <1>2, <2>2, <4>3, EntrySize DEF ReaderRecord
      <4>7. /\ reader.pos + EntryBytes(e) <= gguf.length
            /\ reader.metadataBytes + EntryBytes(e) <= MaxMetadataBytes
        BY <1>1, <1>4, <2>2, <4>5, <4>6
      <4>8. reader.arrayElements + Elements(e) <= MaxArrayElements
        BY <1>4, <2>2, <4>5
      <4> QED
        BY <2>6, <4>3, <4>4, <4>7, <4>8 DEF ValueRoom, Room
    <3> QED
      BY <2>4, <3>1, <3>2, FailRefuses
  <2> QED
    BY <2>5, <2>6
<1> QED
  BY <1>7, <1>8

\* The end of the metadata.
LEMMA AlignmentRead ==
    ASSUME gguf \in GgufFiles, AtMetadata(gguf, reader), ReadAlignment
    PROVE  AtTensors(gguf, reader') \/ Refuses(reader')
<1> DEFINE m == Len(gguf.metadata)
           n == Len(gguf.tensors)
           k == reader.next - 1
           a == AlignmentOf(gguf.metadata)
<1>1. m \in Nat /\ n \in Nat /\ gguf.metadataCount \in Nat /\ m <= gguf.metadataCount
  <2>1. gguf.metadata \in Seq(Entry) /\ gguf.tensors \in Seq(Descriptor)
    BY FileFacts
  <2> QED
    BY <2>1, FileFacts
<1>2. Live(reader) /\ reader \in ReaderRecord /\ reader.next \in Nat /\ reader.extent = 0
  BY DEF AtMetadata, Live, ReaderRecord
<1>3. k = m /\ gguf.metadataCount = m
  <2>1. reader.next > gguf.metadataCount
    BY DEF ReadAlignment
  <2>2. reader.next <= m + 1
    BY DEF AtMetadata
  <2> HIDE DEF m
  <2> QED
    BY <1>1, <1>2, <2>1, <2>2
<1>4. reader' = IF a = Overflow THEN Fail(reader)
                ELSE [reader EXCEPT !.phase = "tensors", !.next = 1, !.alignment = a]
  BY DEF ReadAlignment
<1>5. CASE a = Overflow
  <2>1. ~Acceptable(gguf)
    BY <1>5, AcceptableParts DEF MetadataFine
  <2> QED
    BY <1>2, <1>4, <1>5, <2>1, FailRefuses
<1>6. CASE a # Overflow
  <2> DEFINE f == [reader EXCEPT !.phase = "tensors"]
             g == [f EXCEPT !.next = 1]
             p == [g EXCEPT !.alignment = a]
  <2>1. reader' = p
    <3>1. [reader EXCEPT !.phase = "tensors", !.next = 1, !.alignment = a] = p
      OBVIOUS
    <3> QED
      BY <1>4, <1>6, <3>1
  <2>2. a \in Nat
    <3>1. a \in Positive
      BY <1>6, AlignmentFacts, PowersPositive
    <3> HIDE DEF a
    <3> QED
      BY <3>1 DEF Positive
  <2> HIDE DEF a
  <2>3. f \in ReaderRecord /\ f.phase = "tensors" /\ f.pos = reader.pos
        /\ f.metadataBytes = reader.metadataBytes /\ f.extent = 0
    BY <1>2 DEF ReaderRecord
  <2> HIDE DEF f
  <2>4. g \in ReaderRecord /\ g.phase = "tensors" /\ g.pos = reader.pos
        /\ g.metadataBytes = reader.metadataBytes /\ g.extent = 0 /\ g.next = 1
    BY <2>3 DEF ReaderRecord
  <2> HIDE DEF g
  <2>5. p \in ReaderRecord /\ p.phase = "tensors" /\ p.pos = reader.pos
        /\ p.metadataBytes = reader.metadataBytes /\ p.extent = 0 /\ p.next = 1 /\ p.alignment = a
    BY <2>2, <2>4 DEF ReaderRecord
  <2> HIDE DEF p
  <2>6. Live(p)
    BY <1>2, <2>5 DEF Live, Failed
  <2>7. /\ EntriesFine(gguf, m) /\ KeysDistinct(gguf, m) /\ HeaderFine(gguf)
        /\ reader.metadataBytes = MetadataTo(gguf, m) /\ reader.pos = 24 + reader.metadataBytes
        /\ reader.arrayElements = ElementsTo(gguf, m)
        /\ reader.pos <= gguf.length /\ reader.metadataBytes <= MaxMetadataBytes
        /\ reader.arrayElements <= MaxArrayElements
    BY <1>3, Zenon DEF AtMetadata
  <2>8. MetadataFine(gguf)
    <3>1. ElementsTo(gguf, m) <= MaxArrayElements
      BY <2>7
    <3> QED
      BY <1>3, <1>6, <2>7, <3>1, Zenon DEF MetadataFine, a
  <2>9. TensorsFine(gguf, 0)
    BY DEF TensorsFine
  <2>10. NamesTo(gguf, 0) = 0 /\ FieldsTo(gguf, 0) = 0
    BY TensorSteps
  <2>11. reader.metadataBytes \in Nat
    BY <1>2 DEF ReaderRecord
  <2> DEFINE M == MetadataTo(gguf, m)
  <2>12. p.metadataBytes = M + 0 /\ p.pos = 24 + p.metadataBytes + 0 /\ p.next - 1 = 0
         /\ p.next >= 1 /\ p.next <= n + 1
    <3>1. M = reader.metadataBytes
      BY <2>7
    <3> HIDE DEF M, n
    <3> QED
      BY <1>1, <2>5, <2>7, <2>11, <3>1
  <2>13. /\ TensorsFine(gguf, p.next - 1)
         /\ p.metadataBytes = MetadataTo(gguf, Len(gguf.metadata)) + NamesTo(gguf, p.next - 1)
         /\ p.pos = 24 + p.metadataBytes + FieldsTo(gguf, p.next - 1)
    BY <2>9, <2>10, <2>12
  <2>14. p.pos <= gguf.length /\ p.metadataBytes <= MaxMetadataBytes
    BY <2>5, <2>7
  <2>15. AtTensors(gguf, p)
    BY <2>5, <2>6, <2>7, <2>8, <2>12, <2>13, <2>14, Zenon DEF AtTensors, a
  <2> QED
    BY <2>1, <2>15
<1> QED
  BY <1>5, <1>6

-----------------------------------------------------------------------------

\* A turn of the tensor loop.
LEMMA DirectoryRead ==
    ASSUME gguf \in GgufFiles, AtTensors(gguf, reader), ReadTensor
    PROVE  AtTensors(gguf, reader') \/ Refuses(reader')
<1> DEFINE n == Len(gguf.tensors)
           M == MetadataTo(gguf, Len(gguf.metadata))
           k == reader.next - 1
           t == gguf.tensors[k + 1]
           h == TensorTaken(reader, t)
           l == NameBytes(t)
           d == FieldBytes(t)
           A == NamesTo(gguf, k)
           B == FieldsTo(gguf, k)
<1>1. n \in Nat /\ gguf.tensorCount \in Nat /\ gguf.length \in Nat
  <2>1. gguf.tensors \in Seq(Descriptor)
    BY FileFacts
  <2> QED
    BY <2>1, FileFacts
<1>2. /\ Live(reader) /\ reader \in ReaderRecord /\ reader.next \in Nat
      /\ HeaderFine(gguf) /\ MetadataFine(gguf) /\ reader.phase = "tensors" /\ reader.extent = 0
      /\ reader.alignment = AlignmentOf(gguf.metadata)
  BY DEF AtTensors, Live, ReaderRecord
<1>3. k \in Nat /\ k + 1 = reader.next /\ k + 1 <= n + 1
  BY <1>1, <1>2 DEF AtTensors
<1>4. TensorsFine(gguf, k) /\ reader.metadataBytes = M + A /\ reader.pos = 24 + reader.metadataBytes + B
  BY DEF AtTensors
<1>5. reader' = IF k + 1 > n THEN Fail(reader)
                ELSE IF Failed(h) \/ ~DescriptorValid(t) THEN Fail(h) ELSE [TakePlaces(h, 1) EXCEPT !.next = @ + 1]
  BY <1>3, Zenon DEF ReadTensor, TensorTaken
<1>6. reader.next <= gguf.tensorCount
  BY DEF ReadTensor
<1>7. MaxDimensions <= 4
  BY <1>2 DEF HeaderFine
<1> HIDE DEF k, n, h, t, M, l, d, A, B
<1>8. CASE k + 1 > n
  <2>1. ~Acceptable(gguf)
    <3>1. SUFFICES ASSUME Acceptable(gguf) PROVE FALSE
      OBVIOUS
    <3>2. gguf.tensorCount = n
      BY <3>1, AcceptableParts DEF DirectoryFine, n
    <3> QED
      BY <1>1, <1>3, <1>6, <1>8, <3>2
  <2> QED
    BY <1>2, <1>5, <1>8, <2>1, FailRefuses
<1>9. CASE ~(k + 1 > n)
  <2>1. k + 1 <= n /\ k + 1 \in 1..n /\ k + 1 \in 0..n /\ k <= n /\ k \in 0..k
    BY <1>1, <1>3, <1>9
  <2>2. t \in Descriptor /\ NamesTo(gguf, k + 1) = A + l /\ FieldsTo(gguf, k + 1) = B + d
    BY <1>3, <2>1, TensorSteps DEF n, t, A, B, l, d
  <2>3. /\ l \in Nat /\ d \in Nat
        /\ IF StringFine(t.nameLen, t.nameUtf8) /\ Room(reader, l) /\ reader.pos + l + d <= gguf.length
           THEN Listed(reader, h, l, d) ELSE Dead(h)
    BY <1>2, <2>2, TensorRead DEF h, l, d
  <2>4. h \in ReaderRecord
    BY <2>3 DEF Listed, Live, Dead
  <2>5. M \in Nat /\ A \in Nat /\ B \in Nat
    BY <1>2, <1>3, <1>4, <1>7, <2>1, DirectoryTotals DEF n, M, A, B
  <2>6. CASE ~Failed(h) /\ DescriptorValid(t)
    <3> DEFINE p == [TakePlaces(h, 1) EXCEPT !.next = @ + 1]
    <3>1. Listed(reader, h, l, d) /\ Live(h) /\ StringFine(t.nameLen, t.nameUtf8) /\ Room(reader, l)
          /\ reader.pos + l + d <= gguf.length
      BY <2>3, <2>6 DEF Listed, Dead
    <3>2. reader' = p
      BY <1>5, <1>9, <2>6
    <3>3. /\ Live(p) /\ p.next = h.next + 1 /\ p.phase = h.phase /\ p.alignment = h.alignment /\ p.extent = h.extent
          /\ p.pos = h.pos /\ p.metadataBytes = h.metadataBytes
      BY <3>1, NextLive
    <3> HIDE DEF p
    <3>4. p.next - 1 = k + 1 /\ p.next >= 1 /\ p.next <= n + 1 /\ p.phase = "tensors"
          /\ p.alignment = AlignmentOf(gguf.metadata) /\ p.extent = 0
      BY <1>1, <1>2, <1>3, <2>1, <3>1, <3>3 DEF Listed
    <3>5. TensorsFine(gguf, k + 1)
      <4>1. ShapeFine(t)
        BY <1>7, <2>2, <2>6, DescriptorsFine
      <4>2. \A i \in 1..(k + 1) : i \in 1..k \/ i = k + 1
        BY <1>3, OneMore
      <4> QED
        BY <1>4, <3>1, <4>1, <4>2, Zenon DEF TensorsFine, t
    <3>6. p.metadataBytes = M + (A + l) /\ p.pos = 24 + p.metadataBytes + (B + d)
      <4>1. p.metadataBytes = reader.metadataBytes + l /\ p.pos = reader.pos + l + d
        BY <3>1, <3>3 DEF Listed
      <4> QED
        BY <1>4, <2>3, <2>5, <4>1
    <3>7. p.pos <= gguf.length /\ p.metadataBytes <= MaxMetadataBytes
      BY <3>1, <3>3 DEF Listed, Room
    <3>8. AtTensors(gguf, p)
      <4>1. TensorsFine(gguf, p.next - 1)
            /\ p.metadataBytes = MetadataTo(gguf, Len(gguf.metadata)) + NamesTo(gguf, p.next - 1)
            /\ p.pos = 24 + p.metadataBytes + FieldsTo(gguf, p.next - 1)
        BY <2>2, <3>4, <3>5, <3>6 DEF M
      <4> QED
        BY <1>2, <3>3, <3>4, <3>7, <4>1, Zenon DEF AtTensors, n
    <3> QED
      BY <3>2, <3>8
  <2>7. CASE ~(~Failed(h) /\ DescriptorValid(t))
    <3>1. reader' = Fail(h)
      BY <1>5, <1>9, <2>7
    <3>2. ~Acceptable(gguf)
      <4>1. SUFFICES ASSUME Acceptable(gguf) PROVE FALSE
        OBVIOUS
      <4>2. /\ TensorsFine(gguf, n) /\ MetadataFine(gguf) /\ DirectoryFine(gguf)
        BY <4>1, AcceptableParts DEF DirectoryFine, n
      <4>3. StringFine(t.nameLen, t.nameUtf8) /\ ShapeFine(t)
        BY <2>1, <4>2 DEF TensorsFine, t
      <4>4. M + NamesTo(gguf, k + 1) <= MaxMetadataBytes
            /\ 24 + (M + NamesTo(gguf, k + 1)) + FieldsTo(gguf, k + 1) <= gguf.length
        BY <2>1, <4>1, AcceptableRoom DEF n, M
      <4>5. M + (A + l) <= MaxMetadataBytes /\ 24 + (M + (A + l)) + (B + d) <= gguf.length
        BY <2>2, <4>4
      <4>6. reader.metadataBytes + l <= MaxMetadataBytes /\ reader.pos + l <= gguf.length
            /\ reader.pos + l + d <= gguf.length
        <5>1. MaxMetadataBytes \in Nat
          BY FileFacts
        <5> QED
          BY <1>1, <1>4, <2>3, <2>5, <4>5, <5>1
      <4>7. ~Failed(h)
        BY <2>3, <4>3, <4>6 DEF Room, Listed, Live
      <4>8. TensorBytes(t) <= MaxU64
        <5> DEFINE X == ExtentTo(gguf, k)
                   Y == ExtentTo(gguf, k + 1)
                   z == TensorBytes(t)
                   a == AlignmentOf(gguf.metadata)
        <5>1. Y = X + PaddedUp(z, a)
          BY <1>3, <2>1, TensorSteps DEF n, t
        <5>2. k \in 0..n
          BY <1>3, <2>1, <1>1
        <5>3. X \in Nat /\ Y \in Nat /\ DataStart(gguf) \in Nat /\ DataStart(gguf) + Y <= gguf.length
          BY <2>1, <4>1, <5>2, AcceptableRoom DEF n
        <5>4. z \in Nat
          BY <1>7, <2>2, <4>3, BytesExact
        <5>5. a \in Positive
          BY <4>2, AlignmentFacts, PowersPositive DEF MetadataFine
        <5> HIDE DEF a, z
        <5>6. PaddedUp(z, a) \in Nat /\ z <= PaddedUp(z, a)
          BY <5>4, <5>5, PaddedUpIs
        <5>7. gguf.length <= MaxU64 /\ MaxU64 \in Nat
          BY FileFacts
        <5> HIDE DEF X, Y
        <5>8. z <= MaxU64
          BY <1>1, <5>1, <5>3, <5>4, <5>6, <5>7
        <5> QED
          BY <5>8 DEF z
      <4>9. DescriptorValid(t)
        BY <1>7, <2>2, <4>3, <4>8, DescriptorsFine
      <4> QED
        BY <2>7, <4>7, <4>9
    <3> QED
      BY <2>4, <3>1, <3>2, FailRefuses
  <2> QED
    BY <2>6, <2>7
<1> QED
  BY <1>8, <1>9

\* The start of the tensor data.
LEMMA DataLocated ==
    ASSUME gguf \in GgufFiles, AtTensors(gguf, reader), LocateData
    PROVE  AtExtents(gguf, reader') \/ Refuses(reader')
<1> DEFINE n == Len(gguf.tensors)
           M == MetadataTo(gguf, Len(gguf.metadata))
           N == NamesTo(gguf, n)
           F == FieldsTo(gguf, n)
           k == reader.next - 1
           a == AlignmentOf(gguf.metadata)
           S == DataStart(gguf)
           o == AlignedUp(reader.pos, reader.alignment)
<1>1. n \in Nat /\ gguf.tensorCount \in Nat /\ n <= gguf.tensorCount /\ gguf.length \in Nat
      /\ gguf.length <= MaxU64 /\ MaxU64 \in Nat
  <2>1. gguf.tensors \in Seq(Descriptor)
    BY FileFacts
  <2> QED
    BY <2>1, FileFacts
<1>2. /\ Live(reader) /\ reader \in ReaderRecord /\ reader.next \in Nat /\ reader.pos \in Nat
      /\ HeaderFine(gguf) /\ MetadataFine(gguf) /\ reader.phase = "tensors" /\ reader.extent = 0
      /\ reader.alignment = a /\ reader.pos <= gguf.length
  BY DEF AtTensors, Live, ReaderRecord
<1>3. k = n /\ gguf.tensorCount = n
  <2>1. reader.next > gguf.tensorCount
    BY DEF LocateData
  <2>2. reader.next <= n + 1
    BY DEF AtTensors
  <2> HIDE DEF n
  <2> QED
    BY <1>1, <1>2, <2>1, <2>2
<1>4. TensorsFine(gguf, n) /\ reader.metadataBytes = M + N /\ reader.pos = 24 + reader.metadataBytes + F
      /\ reader.metadataBytes <= MaxMetadataBytes
  <2>1. TensorsFine(gguf, k) /\ reader.metadataBytes = M + NamesTo(gguf, k)
        /\ reader.pos = 24 + reader.metadataBytes + FieldsTo(gguf, k)
        /\ reader.metadataBytes <= MaxMetadataBytes
    BY DEF AtTensors
  <2> QED
    BY <1>3, <2>1
<1>5. MaxDimensions <= 4 /\ a # Overflow /\ a \in PowersOfTwo
  BY <1>2, AlignmentFacts DEF HeaderFine, MetadataFine
<1>6. DirectoryFine(gguf)
  <2>1. M + N <= MaxMetadataBytes
    BY <1>4
  <2> QED
    BY <1>3, <1>4, <2>1, Zenon DEF DirectoryFine
<1>7. reader.pos = DirectoryEnd(gguf)
  <2>1. M \in Nat /\ N \in Nat /\ F \in Nat
    <3>1. n \in 0..n /\ n <= n
      <4> HIDE DEF n
      <4> QED
        BY <1>1
    <3>2. MetadataFine(gguf) /\ MaxDimensions <= 4 /\ TensorsFine(gguf, n)
      BY <1>2, <1>4, <1>5
    <3> QED
      BY <1>1, <3>1, <3>2, DirectoryTotals
  <2>2. DirectoryEnd(gguf) = 24 + M + N + F
    BY DEF DirectoryEnd
  <2> HIDE DEF M, N, F
  <2> QED
    BY <1>4, <2>1, <2>2
<1>8. reader.pos = Cut(reader.pos)
  BY <1>1, <1>2 DEF Cut
<1>9. o = Cut(S) /\ S \in Nat
  <2>1. S = PaddedUp(reader.pos, a)
    BY <1>7 DEF DataStart
  <2>2. o = Cut(PaddedUp(reader.pos, a))
    BY <1>2, <1>5, <1>8, CutPaddedUp
  <2>3. a \in Positive
    BY <1>5, PowersPositive
  <2>4. PaddedUp(reader.pos, a) \in Nat
    BY <1>2, <2>3, PaddedUpIs
  <2> QED
    BY <2>1, <2>2, <2>4
<1>10. reader' = IF o = Overflow \/ o > gguf.length THEN Fail(reader)
                 ELSE [reader EXCEPT !.phase = "extents", !.next = 1, !.dataOffset = o]
  BY DEF LocateData
<1> HIDE DEF n, M, N, F, k, a, S, o
<1>11. CASE S <= gguf.length
  <2>1. o = S /\ o # Overflow /\ ~(o > gguf.length)
    BY <1>1, <1>9, <1>11 DEF Cut, Overflow
  <2> DEFINE f == [reader EXCEPT !.phase = "extents"]
             g == [f EXCEPT !.next = 1]
             p == [g EXCEPT !.dataOffset = o]
  <2>2. reader' = p
    <3>1. [reader EXCEPT !.phase = "extents", !.next = 1, !.dataOffset = o] = p
      OBVIOUS
    <3> QED
      BY <1>10, <2>1, <3>1
  <2>3. f \in ReaderRecord /\ f.phase = "extents" /\ f.extent = 0 /\ f.alignment = a
        /\ f.pos = reader.pos /\ f.metadataBytes = reader.metadataBytes
    BY <1>2 DEF ReaderRecord
  <2> HIDE DEF f
  <2>4. g \in ReaderRecord /\ g.phase = "extents" /\ g.extent = 0 /\ g.alignment = a /\ g.next = 1
        /\ g.pos = reader.pos /\ g.metadataBytes = reader.metadataBytes
    BY <2>3 DEF ReaderRecord
  <2> HIDE DEF g
  <2>5. p \in ReaderRecord /\ p.phase = "extents" /\ p.extent = 0 /\ p.alignment = a /\ p.next = 1
        /\ p.dataOffset = o /\ p.pos = reader.pos /\ p.metadataBytes = reader.metadataBytes
    BY <1>9, <2>1, <2>4 DEF ReaderRecord
  <2> HIDE DEF p
  <2>6. Live(p)
    BY <1>2, <2>5 DEF Live, Failed
  <2>7. p.next - 1 = 0 /\ p.next >= 1 /\ p.next <= n + 1 /\ p.extent <= MaxU64
    BY <1>1, <2>5
  <2>8. OffsetsRight(gguf, 0) /\ ExtentTo(gguf, 0) = 0
    BY TensorSteps DEF OffsetsRight
  <2>9. OffsetsRight(gguf, p.next - 1) /\ p.extent = ExtentTo(gguf, p.next - 1)
    BY <2>5, <2>7, <2>8
  <2>10. p.dataOffset = S /\ p.dataOffset <= gguf.length
    BY <1>11, <2>1, <2>5
  <2>11. AtExtents(gguf, p)
    BY <1>2, <1>6, <2>5, <2>6, <2>7, <2>9, <2>10, Zenon DEF AtExtents, a, n, S
  <2> QED
    BY <2>2, <2>11
<1>12. CASE ~(S <= gguf.length)
  <2>1. o = Overflow \/ o > gguf.length
    BY <1>1, <1>9, <1>12 DEF Cut
  <2>2. reader' = Fail(reader)
    BY <1>10, <2>1
  <2>3. ~Acceptable(gguf)
    <3>1. SUFFICES ASSUME Acceptable(gguf) PROVE FALSE
      OBVIOUS
    <3>2. n \in 0..n
      BY <1>1
    <3>3. ExtentTo(gguf, n) \in Nat /\ S + ExtentTo(gguf, n) <= gguf.length
      BY <3>1, <3>2, AcceptableRoom DEF n, S
    <3> DEFINE X == ExtentTo(gguf, n)
    <3>4. X \in Nat /\ S + X <= gguf.length
      BY <3>3
    <3> HIDE DEF X
    <3> QED
      BY <1>1, <1>9, <1>12, <3>4
  <2> QED
    BY <1>2, <2>2, <2>3, FailRefuses
<1> QED
  BY <1>11, <1>12

-----------------------------------------------------------------------------

\* A number that is no overflow is its own cut.
LEMMA CutSmall ==
    ASSUME NEW x \in Nat
    PROVE  /\ x <= MaxU64 => Cut(x) = x
           /\ Cut(x) # Overflow <=> x <= MaxU64
BY ReaderAssumption DEF Cut, Overflow

\* A turn of the loop over the extents.
LEMMA ExtentChecked ==
    ASSUME gguf \in GgufFiles, AtExtents(gguf, reader), CheckExtent
    PROVE  AtExtents(gguf, reader') \/ Refuses(reader')
<1> DEFINE n == Len(gguf.tensors)
           k == reader.next - 1
           t == gguf.tensors[k + 1]
           a == AlignmentOf(gguf.metadata)
           S == DataStart(gguf)
           E == ExtentTo(gguf, k)
           B == TensorBytes(t)
           P == PaddedUp(B, a)
           padded == AlignedUp(EncodedBytes(t), reader.alignment)
           extent == CheckedAdd(reader.extent, padded)
           end == CheckedAdd(CheckedAdd(reader.dataOffset, t.offset), EncodedBytes(t))
<1>1. n \in Nat /\ gguf.length \in Nat /\ gguf.length <= MaxU64 /\ MaxU64 \in Nat
  <2>1. gguf.tensors \in Seq(Descriptor)
    BY FileFacts
  <2> QED
    BY <2>1, FileFacts
<1>2. /\ Live(reader) /\ reader \in ReaderRecord /\ reader.next \in Nat
      /\ reader.extent \in Nat /\ reader.dataOffset \in Nat
      /\ HeaderFine(gguf) /\ MetadataFine(gguf) /\ DirectoryFine(gguf) /\ reader.phase = "extents"
      /\ reader.alignment = a /\ reader.dataOffset = S /\ S <= gguf.length
      /\ reader.extent = E /\ E <= MaxU64
  BY DEF AtExtents, Live, ReaderRecord
<1>3. k \in Nat /\ k + 1 = reader.next
  BY <1>2 DEF AtExtents
<1>4. k + 1 <= n /\ k + 1 \in 1..n /\ k + 1 \in 0..n /\ k \in 0..n
  <2>1. reader.next <= gguf.tensorCount /\ gguf.tensorCount = n
    BY <1>2 DEF CheckExtent, DirectoryFine
  <2> HIDE DEF n
  <2>2. k + 1 <= n
    BY <1>3, <2>1
  <2> HIDE DEF k
  <2> QED
    BY <1>1, <1>3, <2>2
<1>5. OffsetsRight(gguf, k)
  BY DEF AtExtents
<1>6. /\ t \in Descriptor /\ ShapeFine(t) /\ MaxDimensions <= 4 /\ a \in PowersOfTwo
      /\ ExtentTo(gguf, k + 1) = E + P
  <2>1. t \in Descriptor /\ ExtentTo(gguf, k + 1) = E + P
    <3> HIDE DEF k
    <3> QED
      BY <1>3, <1>4, TensorSteps
  <2>2. ShapeFine(t)
    <3> HIDE DEF k, n
    <3> QED
      BY <1>2, <1>4 DEF DirectoryFine, TensorsFine, n
  <2> QED
    BY <1>2, <2>1, <2>2, AlignmentFacts DEF HeaderFine, MetadataFine
<1>7. B \in Nat /\ EncodedBytes(t) = Cut(B)
  <2> HIDE DEF t
  <2> QED
    BY <1>6, BytesExact
<1>8. padded = Cut(P) /\ P \in Nat /\ B <= P
  <2>1. a \in Positive
    BY <1>6, PowersPositive
  <2> HIDE DEF a, B
  <2> QED
    BY <1>2, <1>6, <1>7, <2>1, CutPaddedUp, PaddedUpIs
<1>9. t.offset \in Nat
  BY <1>6 DEF Descriptor
<1> DEFINE bad == ~OffsetExpected(t) \/ padded = Overflow \/ extent = Overflow
                  \/ ~InFile(t, reader.dataOffset, gguf.length)
<1>10. reader' = IF bad THEN Fail(reader) ELSE [reader EXCEPT !.next = @ + 1, !.extent = extent]
  BY <1>3, Zenon DEF CheckExtent
<1>11. OffsetExpected(t) <=> t.offset = E
  BY <1>2 DEF OffsetExpected
<1>12. InFile(t, reader.dataOffset, gguf.length) <=> end # Overflow /\ end <= gguf.length
  BY Zenon DEF InFile
<1> DEFINE o == t.offset
<1>13. o \in Nat /\ E \in Nat /\ S \in Nat
  BY <1>2, <1>9
<1> HIDE DEF o, n, k, a, S, E, P, B
<1>14. extent = Cut(E + P)
  BY <1>2, <1>8, <1>13, CutAdd, CutSmall
<1>15. end = Cut(S + o + B)
  <2>1. S = Cut(S)
    BY <1>1, <1>2, <1>13, CutSmall
  <2>2. CheckedAdd(reader.dataOffset, t.offset) = Cut(S + o)
    BY <1>2, <1>13, <2>1, CutAdd DEF o
  <2>3. S + o \in Nat
    BY <1>13
  <2> QED
    BY <1>7, <2>2, <2>3, CutAdd
<1> HIDE DEF padded, extent, end, t
<1>16. ~bad <=> /\ o = E /\ P <= MaxU64 /\ E + P <= MaxU64 /\ S + o + B <= gguf.length
  <2>1. padded # Overflow <=> P <= MaxU64
    BY <1>8, CutSmall
  <2>2. E + P \in Nat /\ S + o + B \in Nat
    BY <1>7, <1>8, <1>13
  <2>3. extent # Overflow <=> E + P <= MaxU64
    BY <1>14, <2>2, CutSmall
  <2>4. end # Overflow /\ end <= gguf.length <=> S + o + B <= gguf.length
    BY <1>1, <1>15, <2>2, CutSmall
  <2> QED
    BY <1>11, <1>12, <2>1, <2>3, <2>4 DEF o
<1> HIDE DEF bad
<1>17. CASE ~bad
  <2>1. o = E /\ P <= MaxU64 /\ E + P <= MaxU64 /\ extent = E + P /\ E + P \in Nat
    BY <1>8, <1>13, <1>14, <1>16, <1>17, CutSmall
  <2> DEFINE g == [reader EXCEPT !.next = @ + 1]
             p == [g EXCEPT !.extent = extent]
  <2>2. reader' = p
    <3>1. [reader EXCEPT !.next = @ + 1, !.extent = extent] = p
      OBVIOUS
    <3> QED
      BY <1>10, <1>17, <3>1
  <2>3. g \in ReaderRecord /\ g.phase = "extents" /\ g.alignment = a /\ g.next = reader.next + 1
        /\ g.dataOffset = S /\ g.pos = reader.pos /\ g.metadataBytes = reader.metadataBytes
    BY <1>2 DEF ReaderRecord
  <2> HIDE DEF g
  <2>4. p \in ReaderRecord /\ p.phase = "extents" /\ p.alignment = a /\ p.next = reader.next + 1
        /\ p.dataOffset = S /\ p.pos = reader.pos /\ p.metadataBytes = reader.metadataBytes
        /\ p.extent = extent
    BY <2>1, <2>3 DEF ReaderRecord
  <2> HIDE DEF p
  <2>5. Live(p)
    BY <1>2, <2>4 DEF Live, Failed
  <2>6. p.next - 1 = k + 1 /\ p.next >= 1 /\ p.next <= n + 1
    BY <1>1, <1>2, <1>3, <1>4, <2>4
  <2>7. OffsetsRight(gguf, k + 1)
    <3>1. \A i \in 1..(k + 1) : i \in 1..k \/ i = k + 1
      BY <1>3, OneMore
    <3>2. gguf.tensors[k + 1].offset = ExtentTo(gguf, (k + 1) - 1)
      <4>1. (k + 1) - 1 = k
        BY <1>3
      <4> QED
        BY <2>1, <4>1 DEF o, t, E
    <3> QED
      BY <1>5, <3>1, <3>2 DEF OffsetsRight
  <2>8. OffsetsRight(gguf, p.next - 1) /\ p.extent = ExtentTo(gguf, p.next - 1) /\ p.extent <= MaxU64
    BY <1>6, <2>1, <2>4, <2>6, <2>7
  <2>9. p.dataOffset <= gguf.length
    BY <1>2, <2>4
  <2>10. AtExtents(gguf, p)
    BY <1>2, <2>4, <2>5, <2>6, <2>8, <2>9, Zenon DEF AtExtents, a, n, S
  <2> QED
    BY <2>2, <2>10
<1>18. CASE bad
  <2>1. ~Acceptable(gguf)
    <3>1. SUFFICES ASSUME Acceptable(gguf) PROVE FALSE
      OBVIOUS
    <3>2. OffsetsRight(gguf, n)
      BY <3>1, AcceptableParts DEF ExtentsFine, n
    <3>3. o = E
      <4>1. (k + 1) - 1 = k
        BY <1>3
      <4>2. gguf.tensors[k + 1].offset = ExtentTo(gguf, (k + 1) - 1)
        BY <1>4, <3>2 DEF OffsetsRight
      <4> QED
        BY <4>1, <4>2 DEF o, t, E
    <3>4. S + ExtentTo(gguf, k + 1) <= gguf.length
      BY <1>4, <3>1, AcceptableRoom DEF n, S
    <3>5. S + (E + P) <= gguf.length
      BY <1>6, <3>4
    <3>6. P <= MaxU64 /\ E + P <= MaxU64 /\ S + o + B <= gguf.length
      BY <1>1, <1>7, <1>8, <1>13, <3>3, <3>5
    <3> QED
      BY <1>16, <1>18, <3>3, <3>6
  <2> QED
    BY <1>2, <1>10, <1>18, <2>1, FailRefuses
<1> QED
  BY <1>17, <1>18

\* The end of the loop over the extents.
LEMMA ExtentsFinished ==
    ASSUME gguf \in GgufFiles, AtExtents(gguf, reader), FinishExtents
    PROVE  (reader'.phase = "accepted" /\ Acceptable(gguf)) \/ Refuses(reader')
<1> DEFINE n == Len(gguf.tensors)
           k == reader.next - 1
           S == DataStart(gguf)
           X == ExtentTo(gguf, n)
           end == CheckedAdd(reader.dataOffset, reader.extent)
<1>1. n \in Nat /\ gguf.length \in Nat /\ gguf.length <= MaxU64 /\ MaxU64 \in Nat
  <2>1. gguf.tensors \in Seq(Descriptor)
    BY FileFacts
  <2> QED
    BY <2>1, FileFacts
<1>2. /\ reader \in ReaderRecord /\ reader.next \in Nat /\ reader.next <= n + 1
      /\ reader.extent \in Nat /\ reader.dataOffset \in Nat
      /\ HeaderFine(gguf) /\ MetadataFine(gguf) /\ DirectoryFine(gguf)
      /\ reader.dataOffset = S /\ S <= gguf.length
      /\ reader.extent = ExtentTo(gguf, k) /\ reader.extent <= MaxU64 /\ OffsetsRight(gguf, k)
  BY DEF AtExtents, Live, ReaderRecord
<1>3. k = n
  <2>1. reader.next > gguf.tensorCount /\ gguf.tensorCount = n
    BY <1>2 DEF FinishExtents, DirectoryFine
  <2> HIDE DEF n
  <2> QED
    BY <1>1, <1>2, <2>1
<1>4. reader.extent = X /\ OffsetsRight(gguf, n)
  BY <1>2, <1>3
<1>5. reader' = IF end = Overflow \/ end > gguf.length THEN Fail(reader)
                ELSE [reader EXCEPT !.phase = "accepted"]
  BY DEF FinishExtents
<1> HIDE DEF n, k, S, X
<1>6. end = Cut(S + X) /\ S \in Nat /\ X \in Nat
  <2>1. S \in Nat /\ X \in Nat /\ S <= MaxU64 /\ X <= MaxU64
    BY <1>1, <1>2, <1>4
  <2>2. S = Cut(S)
    BY <2>1, CutSmall
  <2> QED
    BY <1>2, <1>4, <2>1, <2>2, CutAdd
<1> HIDE DEF end
<1>7. end = Overflow \/ end > gguf.length <=> ~(S + X <= gguf.length)
  <2>1. S + X \in Nat
    BY <1>6
  <2> QED
    BY <1>1, <1>6, <2>1, CutSmall
<1>8. Acceptable(gguf) <=> S + X <= gguf.length
  <2>1. Acceptable(gguf) <=> ExtentsFine(gguf)
    BY <1>2, AcceptableParts
  <2>2. ExtentsFine(gguf) <=> S + X <= gguf.length
    BY <1>4 DEF ExtentsFine, S, X, n
  <2> QED
    BY <2>1, <2>2
<1>9. CASE S + X <= gguf.length
  <2>1. reader' = [reader EXCEPT !.phase = "accepted"]
    BY <1>5, <1>7, <1>9
  <2>2. reader'.phase = "accepted"
    BY <1>2, <2>1 DEF ReaderRecord
  <2> QED
    BY <1>8, <1>9, <2>2
<1>10. CASE ~(S + X <= gguf.length)
  BY <1>2, <1>5, <1>7, <1>8, <1>10, FailRefuses
<1> QED
  BY <1>9, <1>10

\* Every turn of the reader's loops keeps it where the reference has it.
LEMMA AcceptNextInv ==
    ASSUME AcceptInv, [ReaderNext]_readerVars
    PROVE  AcceptInv'
<1>1. gguf \in GgufFiles
  BY DEF AcceptInv
<1>2. CASE UNCHANGED readerVars
  BY <1>2, Zenon DEF AcceptInv, readerVars
<1>3. CASE ReaderNext
  <2>1. gguf' = gguf
    BY <1>3 DEF ReaderNext, ReadHeader, ReadMetadata, ReadAlignment, ReadTensor, LocateData,
                CheckExtent, FinishExtents, ReaderAt
  <2>2. SUFFICES \/ AtMetadata(gguf, reader') \/ AtTensors(gguf, reader') \/ AtExtents(gguf, reader')
                 \/ (reader'.phase = "accepted" /\ Acceptable(gguf))
                 \/ Refuses(reader')
    BY <1>1, <2>1, Zenon DEF AcceptInv, Refuses
  <2>3. /\ ReadHeader => reader = FreshReader
        /\ ReadMetadata \/ ReadAlignment => AtMetadata(gguf, reader)
        /\ ReadTensor \/ LocateData => AtTensors(gguf, reader)
        /\ CheckExtent \/ FinishExtents => AtExtents(gguf, reader)
    <3>1. /\ ReadHeader => reader.phase = "header"
          /\ ReadMetadata \/ ReadAlignment => reader.phase = "metadata"
          /\ ReadTensor \/ LocateData => reader.phase = "tensors"
          /\ CheckExtent \/ FinishExtents => reader.phase = "extents"
      BY DEF ReadHeader, ReadMetadata, ReadAlignment, ReadTensor, LocateData, CheckExtent,
             FinishExtents, ReaderAt
    <3>2. /\ reader = FreshReader => reader.phase = "header"
          /\ AtMetadata(gguf, reader) => reader.phase = "metadata"
          /\ AtTensors(gguf, reader) => reader.phase = "tensors"
          /\ AtExtents(gguf, reader) => reader.phase = "extents"
      BY DEF FreshReader, AtMetadata, AtTensors, AtExtents
    <3>3. \/ reader = FreshReader \/ AtMetadata(gguf, reader) \/ AtTensors(gguf, reader)
          \/ AtExtents(gguf, reader) \/ reader.phase \in {"accepted", "refused"}
      BY DEF AcceptInv
    <3> QED
      BY <3>1, <3>2, <3>3
  <2>4. CASE ReadHeader
    BY <1>1, <2>3, <2>4, HeaderRead
  <2>5. CASE ReadMetadata
    BY <1>1, <2>3, <2>5, MetadataRead
  <2>6. CASE ReadAlignment
    BY <1>1, <2>3, <2>6, AlignmentRead
  <2>7. CASE ReadTensor
    BY <1>1, <2>3, <2>7, DirectoryRead
  <2>8. CASE LocateData
    BY <1>1, <2>3, <2>8, DataLocated
  <2>9. CASE CheckExtent
    BY <1>1, <2>3, <2>9, ExtentChecked
  <2>10. CASE FinishExtents
    BY <1>1, <2>3, <2>10, ExtentsFinished
  <2> QED
    BY <1>3, <2>4, <2>5, <2>6, <2>7, <2>8, <2>9, <2>10 DEF ReaderNext
<1> QED
  BY <1>2, <1>3

\* GgufReader::read takes a file exactly where the reference does: for every
\* file and all limits, the order of its checks, its budgets and the arithmetic
\* it cuts off at 64 bits refuse nothing valid and let nothing else pass.
THEOREM ReaderExact == ReaderSpec => []AcceptsExactly
<1>1. ReaderInit => AcceptInv
  BY DEF ReaderInit, AcceptInv
<1>2. AcceptInv => AcceptsExactly
  <2>1. /\ reader = FreshReader => reader.phase = "header"
        /\ AtMetadata(gguf, reader) => reader.phase = "metadata"
        /\ AtTensors(gguf, reader) => reader.phase = "tensors"
        /\ AtExtents(gguf, reader) => reader.phase = "extents"
    BY DEF FreshReader, AtMetadata, AtTensors, AtExtents
  <2> QED
    BY <2>1 DEF AcceptInv, AcceptsExactly
<1> QED
  BY <1>1, <1>2, AcceptNextInv, PTL DEF ReaderSpec

-----------------------------------------------------------------------------
(* Totals over finite sets. *)

\* The element that a set is counted down by.
Pick(s) == CHOOSE x \in s : TRUE

\* What MapThenSumSet computes for one set from what it has for smaller ones.
TotalStep(t, f, s) == IF s = {} THEN 0 ELSE f[Pick(s)] + t[s \ {Pick(s)}]

\* The function that MapThenSumSet chooses.
IsTotal(t, f, S) == t = [s \in SUBSET S |-> TotalStep(t, f, s)]

\* The total of f over S.
Total(f, S) == (CHOOSE t : IsTotal(t, f, S))[S]

\* Counting down.
LEMMA PickIs ==
    ASSUME NEW s, IsFiniteSet(s), s # {}
    PROVE  /\ Pick(s) \in s /\ IsFiniteSet(s \ {Pick(s)})
           /\ Cardinality(s) \in Nat /\ Cardinality(s) >= 1
           /\ Cardinality(s \ {Pick(s)}) = Cardinality(s) - 1
<1>1. Pick(s) \in s
  BY DEF Pick
<1>2. IsFiniteSet(s \ {Pick(s)}) /\ Cardinality(s \ {Pick(s)}) = Cardinality(s) - 1
  BY <1>1, FS_RemoveElement
<1>3. Cardinality(s) \in Nat /\ Cardinality(s) # 0
  BY FS_CardinalityType, FS_EmptySet
<1> QED
  BY <1>1, <1>2, <1>3

\* There is such a function for every finite set.
LEMMA TotalExists ==
    ASSUME NEW f, NEW S, IsFiniteSet(S)
    PROVE  \E t : IsTotal(t, f, S)
<1> DEFINE Up(t, n) == /\ t = [s \in SUBSET S |-> t[s]]
                       /\ \A s \in SUBSET S : Cardinality(s) <= n => t[s] = TotalStep(t, f, s)
           N == {n \in Nat : \E t : Up(t, n)}
<1>1. \A s \in SUBSET S : IsFiniteSet(s) /\ Cardinality(s) \in Nat /\ Cardinality(s) <= Cardinality(S)
  BY FS_Subset, FS_CardinalityType
<1>2. 0 \in N
  <2> DEFINE t == [s \in SUBSET S |-> 0]
  <2>1. ASSUME NEW s \in SUBSET S, Cardinality(s) <= 0 PROVE t[s] = TotalStep(t, f, s)
    <3>1. Cardinality(s) = 0
      BY <1>1, <2>1
    <3>2. s = {}
      BY <1>1, <3>1, FS_EmptySet
    <3> QED
      BY <3>2 DEF TotalStep
  <2>2. Up(t, 0)
    BY <2>1
  <2> HIDE DEF Up, t
  <2> QED
    BY <2>2
<1>3. ASSUME NEW n \in N PROVE n + 1 \in N
  <2>1. PICK t : Up(t, n)
    OBVIOUS
  <2> DEFINE u == [s \in SUBSET S |-> TotalStep(t, f, s)]
  <2>2. ASSUME NEW s \in SUBSET S, Cardinality(s) <= n + 1 PROVE u[s] = TotalStep(u, f, s)
    <3>1. u[s] = TotalStep(t, f, s)
      OBVIOUS
    <3>2. CASE s = {}
      BY <3>1, <3>2 DEF TotalStep
    <3>3. CASE s # {}
      <4> DEFINE r == s \ {Pick(s)}
      <4>1. n \in Nat /\ Cardinality(s) \in Nat
        BY <1>1
      <4>2. r \in SUBSET S /\ Cardinality(r) <= n
        <5>1. Cardinality(r) = Cardinality(s) - 1
          BY <1>1, <3>3, PickIs
        <5> HIDE DEF u, Up
        <5> QED
          BY <2>2, <4>1, <5>1
      <4>3. t[r] = TotalStep(t, f, r)
        BY <2>1, <4>2
      <4>4. u[r] = TotalStep(t, f, r)
        BY <4>2
      <4> HIDE DEF u, Up, r
      <4> QED
        BY <3>1, <3>3, <4>3, <4>4 DEF TotalStep, r
    <3> QED
      BY <3>2, <3>3
  <2>3. u = [s \in SUBSET S |-> u[s]]
    OBVIOUS
  <2> HIDE DEF u
  <2>4. Up(u, n + 1)
    BY <2>2, <2>3
  <2>5. n + 1 \in Nat
    OBVIOUS
  <2> HIDE DEF Up
  <2> QED
    BY <2>4, <2>5
<1>4. N \in SUBSET Nat
  OBVIOUS
<1> HIDE DEF N
<1>5. Cardinality(S) \in N
  BY <1>1, <1>2, <1>3, <1>4, EveryNatural, FS_CardinalityType
<1>6. PICK t : Up(t, Cardinality(S))
  BY <1>5 DEF N
<1>7. \A s \in SUBSET S : t[s] = TotalStep(t, f, s)
  BY <1>1, <1>6
<1>8. t = [s \in SUBSET S |-> t[s]]
  BY <1>6
<1> HIDE DEF Up
<1>9. t = [s \in SUBSET S |-> TotalStep(t, f, s)]
  BY <1>7, <1>8
<1> QED
  BY <1>9 DEF IsTotal

\* Such functions for values that are the same agree where both are defined.
LEMMA TotalsAgree ==
    ASSUME NEW f, NEW g, NEW S, NEW R, NEW t, NEW u, IsTotal(t, f, S), IsTotal(u, g, R),
           NEW s, s \subseteq S, s \subseteq R, IsFiniteSet(s), \A x \in s : f[x] = g[x]
    PROVE  t[s] = u[s]
<1> DEFINE Same(n) == \A r \in SUBSET s : Cardinality(r) = n => t[r] = u[r]
           N == {n \in Nat : Same(n)}
<1>1. \A r \in SUBSET s : /\ IsFiniteSet(r) /\ Cardinality(r) \in Nat
                          /\ r \in SUBSET S /\ r \in SUBSET R
  BY FS_Subset, FS_CardinalityType
<1>2. \A r \in SUBSET s : t[r] = TotalStep(t, f, r) /\ u[r] = TotalStep(u, g, r)
  BY <1>1 DEF IsTotal
<1>3. 0 \in N
  <2>1. ASSUME NEW r \in SUBSET s, Cardinality(r) = 0 PROVE t[r] = u[r]
    <3>1. r = {}
      BY <1>1, <2>1, FS_EmptySet
    <3> QED
      BY <1>2, <3>1 DEF TotalStep
  <2> QED
    BY <2>1
<1>4. ASSUME NEW n \in N PROVE n + 1 \in N
  <2>1. n \in Nat /\ n + 1 \in Nat /\ n + 1 # 0 /\ (n + 1) - 1 = n
    OBVIOUS
  <2>2. Same(n)
    OBVIOUS
  <2>3. ASSUME NEW r \in SUBSET s, Cardinality(r) = n + 1 PROVE t[r] = u[r]
    <3>1. r # {}
      BY <2>1, <2>3, FS_EmptySet
    <3> DEFINE q == r \ {Pick(r)}
    <3>2. Pick(r) \in s /\ q \in SUBSET s /\ Cardinality(q) = n
      <4>1. Pick(r) \in r /\ Cardinality(q) = Cardinality(r) - 1
        BY <1>1, <3>1, PickIs
      <4> QED
        BY <2>1, <2>3, <4>1
    <3>3. t[q] = u[q] /\ f[Pick(r)] = g[Pick(r)]
      BY <2>2, <3>2
    <3> HIDE DEF q
    <3> QED
      BY <1>2, <3>1, <3>3 DEF TotalStep, q
  <2> QED
    BY <2>1, <2>3
<1>5. N \in SUBSET Nat
  OBVIOUS
<1> HIDE DEF N
<1>6. Cardinality(s) \in N
  BY <1>1, <1>3, <1>4, <1>5, EveryNatural
<1> QED
  BY <1>6 DEF N

\* Any function of that form gives the total.
LEMMA TotalIs ==
    ASSUME NEW f, NEW S, IsFiniteSet(S), NEW g, NEW R, NEW t, IsTotal(t, g, R), S \subseteq R,
           \A x \in S : f[x] = g[x]
    PROVE  Total(f, S) = t[S]
<1> DEFINE u == CHOOSE u : IsTotal(u, f, S)
<1>1. IsTotal(u, f, S)
  BY TotalExists
<1> HIDE DEF u
<1>2. u[S] = t[S]
  BY <1>1, TotalsAgree
<1> QED
  BY <1>2 DEF Total, u

\* A total over nothing, and one counted down.
LEMMA TotalSteps ==
    ASSUME NEW f
    PROVE  /\ Total(f, {}) = 0
           /\ \A S : IsFiniteSet(S) /\ S # {} =>
                 Total(f, S) = f[Pick(S)] + Total(f, S \ {Pick(S)})
<1>1. ASSUME NEW S, IsFiniteSet(S)
      PROVE  Total(f, S) = IF S = {} THEN 0 ELSE f[Pick(S)] + Total(f, S \ {Pick(S)})
  <2>1. PICK t : IsTotal(t, f, S)
    BY <1>1, TotalExists
  <2>2. \A s \in SUBSET S : Total(f, s) = t[s]
    BY <1>1, <2>1, TotalIs, FS_Subset
  <2>3. S \in SUBSET S /\ S \ {Pick(S)} \in SUBSET S
    OBVIOUS
  <2>4. t[S] = TotalStep(t, f, S)
    BY <2>1, <2>3 DEF IsTotal
  <2> QED
    BY <2>2, <2>3, <2>4 DEF TotalStep
<1> QED
  BY <1>1, FS_EmptySet

-----------------------------------------------------------------------------
(* Totals: taking an element out, and counting the same things otherwise. *)

\* A total of naturals is one.
LEMMA TotalNatural ==
    ASSUME NEW S, IsFiniteSet(S), NEW f, \A x \in S : f[x] \in Nat
    PROVE  Total(f, S) \in Nat
<1> DEFINE Nice(n) == \A s \in SUBSET S : Cardinality(s) = n => Total(f, s) \in Nat
           N == {n \in Nat : Nice(n)}
<1>1. \A s \in SUBSET S : IsFiniteSet(s) /\ Cardinality(s) \in Nat
  BY FS_Subset, FS_CardinalityType
<1>2. 0 \in N
  <2>1. ASSUME NEW s \in SUBSET S, Cardinality(s) = 0 PROVE Total(f, s) \in Nat
    <3>1. s = {}
      BY <1>1, <2>1, FS_EmptySet
    <3> QED
      BY <3>1, TotalSteps
  <2> QED
    BY <2>1
<1>3. ASSUME NEW n \in N PROVE n + 1 \in N
  <2>1. n \in Nat /\ n + 1 \in Nat /\ n + 1 # 0 /\ (n + 1) - 1 = n
    OBVIOUS
  <2>2. Nice(n)
    OBVIOUS
  <2>3. ASSUME NEW s \in SUBSET S, Cardinality(s) = n + 1 PROVE Total(f, s) \in Nat
    <3>1. s # {}
      BY <2>1, <2>3, FS_EmptySet
    <3> DEFINE r == s \ {Pick(s)}
    <3>2. Pick(s) \in S /\ r \in SUBSET S /\ Cardinality(r) = n
      <4>1. Pick(s) \in s /\ Cardinality(r) = Cardinality(s) - 1
        BY <1>1, <3>1, PickIs
      <4> QED
        BY <2>1, <2>3, <4>1
    <3>3. Total(f, s) = f[Pick(s)] + Total(f, r)
      BY <1>1, <3>1, TotalSteps
    <3>4. Total(f, r) \in Nat /\ f[Pick(s)] \in Nat
      BY <2>2, <3>2
    <3> HIDE DEF r
    <3> QED
      BY <3>3, <3>4
  <2> QED
    BY <2>1, <2>3
<1>4. N \in SUBSET Nat
  OBVIOUS
<1> HIDE DEF N
<1>5. Cardinality(S) \in N
  BY <1>1, <1>2, <1>3, <1>4, EveryNatural
<1> QED
  BY <1>5 DEF N

\* Whichever element is taken out, the total is what remains and its value.
LEMMA TotalRemove ==
    ASSUME NEW S, IsFiniteSet(S), NEW f, \A x \in S : f[x] \in Nat, NEW y \in S
    PROVE  Total(f, S) = f[y] + Total(f, S \ {y})
<1> DEFINE Out(n) == \A s \in SUBSET S : Cardinality(s) = n =>
                         \A x \in s : Total(f, s) = f[x] + Total(f, s \ {x})
           N == {n \in Nat : Out(n)}
<1>1. \A s \in SUBSET S : IsFiniteSet(s) /\ Cardinality(s) \in Nat /\ Total(f, s) \in Nat
  <2>1. ASSUME NEW s \in SUBSET S PROVE IsFiniteSet(s) /\ Cardinality(s) \in Nat /\ Total(f, s) \in Nat
    <3>1. IsFiniteSet(s) /\ \A x \in s : f[x] \in Nat
      BY FS_Subset
    <3> QED
      BY <3>1, FS_CardinalityType, TotalNatural
  <2> QED
    BY <2>1
<1>2. 0 \in N
  <2>1. ASSUME NEW s \in SUBSET S, Cardinality(s) = 0 PROVE s = {}
    BY <1>1, <2>1, FS_EmptySet
  <2> QED
    BY <2>1
<1>3. ASSUME NEW n \in N PROVE n + 1 \in N
  <2>1. n \in Nat /\ n + 1 \in Nat /\ n + 1 # 0 /\ (n + 1) - 1 = n
    OBVIOUS
  <2>2. Out(n)
    OBVIOUS
  <2>3. ASSUME NEW s \in SUBSET S, Cardinality(s) = n + 1, NEW x \in s
        PROVE  Total(f, s) = f[x] + Total(f, s \ {x})
    <3> DEFINE p == Pick(s)
               r == s \ {p}
               q == s \ {x}
               b == q \ {p}
    <3>1. IsFiniteSet(s) /\ s # {} /\ Total(f, s) = f[p] + Total(f, r) /\ p \in s
      BY <1>1, TotalSteps, PickIs
    <3>2. Cardinality(r) = n /\ Cardinality(q) = n
      BY <2>1, <2>3, <3>1, FS_RemoveElement
    <3>3. CASE x = p
      BY <3>1, <3>3
    <3>4. CASE x # p
      <4>1. x \in r /\ p \in q /\ r \ {x} = b /\ r \in SUBSET S /\ q \in SUBSET S /\ b \in SUBSET S
        BY <3>1, <3>4
      <4>2. Total(f, r) = f[x] + Total(f, b)
        BY <2>2, <3>2, <4>1
      <4>3. Total(f, q) = f[p] + Total(f, b)
        BY <2>2, <3>2, <4>1
      <4>4. f[x] \in Nat /\ f[p] \in Nat /\ Total(f, b) \in Nat
        BY <1>1, <3>1, <4>1
      <4> HIDE DEF p, q, r, b
      <4> QED
        BY <3>1, <4>2, <4>3, <4>4 DEF q
    <3> QED
      BY <3>3, <3>4
  <2> QED
    BY <2>1, <2>3
<1>4. N \in SUBSET Nat
  OBVIOUS
<1> HIDE DEF N
<1>5. Cardinality(S) \in N
  BY <1>1, <1>2, <1>3, <1>4, EveryNatural
<1> QED
  BY <1>5 DEF N

\* Two sets whose elements correspond, with the same values, have the same total.
LEMMA TotalsCorrespond ==
    ASSUME NEW S, IsFiniteSet(S), NEW f, \A x \in S : f[x] \in Nat, NEW R, NEW g,
           NEW b \in Bijection(S, R), \A x \in S : g[b[x]] = f[x]
    PROVE  Total(f, S) = Total(g, R)
<1> DEFINE Image(s) == {b[x] : x \in s}
           Equal(n) == \A s \in SUBSET S : Cardinality(s) = n => Total(f, s) = Total(g, Image(s))
           N == {n \in Nat : Equal(n)}
<1>1. \A s \in SUBSET S : /\ IsFiniteSet(s) /\ Cardinality(s) \in Nat
                          /\ IsFiniteSet(Image(s)) /\ \A y \in Image(s) : g[y] \in Nat
  <2>1. ASSUME NEW s \in SUBSET S
        PROVE  /\ IsFiniteSet(s) /\ Cardinality(s) \in Nat
               /\ IsFiniteSet(Image(s)) /\ \A y \in Image(s) : g[y] \in Nat
    <3>1. IsFiniteSet(s)
      BY FS_Subset
    <3>2. IsFiniteSet(Image(s))
      <4> DEFINE h == [x \in s |-> b[x]]
      <4>1. h \in Surjection(s, Image(s))
        BY DEF Surjection
      <4> HIDE DEF h, Image
      <4> QED
        BY <3>1, <4>1, FS_Surjection
    <3> QED
      BY <3>1, <3>2, FS_CardinalityType
  <2> QED
    BY <2>1
<1>2. 0 \in N
  <2>1. ASSUME NEW s \in SUBSET S, Cardinality(s) = 0 PROVE Total(f, s) = Total(g, Image(s))
    <3>1. s = {}
      BY <1>1, <2>1, FS_EmptySet
    <3>2. Image(s) = {}
      BY <3>1
    <3> QED
      BY <3>1, <3>2, TotalSteps
  <2> QED
    BY <2>1
<1>3. ASSUME NEW n \in N PROVE n + 1 \in N
  <2>1. n \in Nat /\ n + 1 \in Nat /\ n + 1 # 0 /\ (n + 1) - 1 = n
    OBVIOUS
  <2>2. Equal(n)
    OBVIOUS
  <2>3. ASSUME NEW s \in SUBSET S, Cardinality(s) = n + 1
        PROVE  Total(f, s) = Total(g, Image(s))
    <3>1. PICK x \in s : TRUE
      BY <2>1, <2>3, FS_EmptySet
    <3> DEFINE r == s \ {x}
    <3>2. r \in SUBSET S /\ Cardinality(r) = n
      BY <1>1, <2>1, <2>3, FS_RemoveElement
    <3>3. Image(r) = Image(s) \ {b[x]} /\ b[x] \in Image(s)
      BY DEF Bijection, Injection, IsInjective
    <3>4. Total(f, s) = f[x] + Total(f, r)
      BY <1>1, TotalRemove
    <3>5. Total(g, Image(s)) = g[b[x]] + Total(g, Image(s) \ {b[x]})
      <4> DEFINE i == Image(s)
                 y == b[x]
      <4>1. IsFiniteSet(i) /\ (\A z \in i : g[z] \in Nat) /\ y \in i
        BY <1>1, <3>3
      <4> HIDE DEF i, y
      <4>2. Total(g, i) = g[y] + Total(g, i \ {y})
        BY <4>1, TotalRemove
      <4> QED
        BY <4>2 DEF i, y
    <3>6. Total(f, r) = Total(g, Image(r)) /\ g[b[x]] = f[x]
      BY <2>2, <3>2
    <3> QED
      BY <3>3, <3>4, <3>5, <3>6
  <2> QED
    BY <2>1, <2>3
<1>4. N \in SUBSET Nat
  OBVIOUS
<1> HIDE DEF N
<1>5. Cardinality(S) \in N
  BY <1>1, <1>2, <1>3, <1>4, EveryNatural
<1>6. Total(f, S) = Total(g, Image(S))
  BY <1>5 DEF N
<1>7. Image(S) = R
  BY DEF Bijection, Surjection
<1> QED
  BY <1>6, <1>7

\* No value exceeds the total.
LEMMA TotalCovers ==
    ASSUME NEW S, IsFiniteSet(S), NEW f, \A x \in S : f[x] \in Nat, NEW y \in S
    PROVE  f[y] <= Total(f, S)
<1>1. Total(f, S) = f[y] + Total(f, S \ {y})
  BY TotalRemove
<1>2. Total(f, S \ {y}) \in Nat
  BY FS_RemoveElement, TotalNatural
<1> QED
  BY <1>1, <1>2

-----------------------------------------------------------------------------
(* ModelOpening: what is loaded is what the schema keeps resident. *)

\* How load_validated asks for the tensor of a spec.
LoadOf(s) == <<IF Len(s.shape) = 1 THEN "vector" ELSE "matrix", s.role[1], s.role[2]>>

\* What the group of specs takes is known, and it is loaded as said.
Loaded(specs, loads) ==
    /\ \A s \in specs : s.ty \in GgmlTypes
    /\ \A s \in specs : ~IsRoutedExpert(s.role) =>
          /\ Len(s.shape) \in {1, 2}
          /\ Len(s.shape) = 1 => s.ty = "F32"
          /\ LoadOf(s) \in loads
    /\ \A x \in loads : \E s \in specs : ~IsRoutedExpert(s.role) /\ LoadOf(s) = x

\* A spec of a vector of floats, of a matrix and of the tensor of all experts.
VectorSpec(s, kind, l) ==
    LoadOf(s) = <<"vector", kind, l>> /\ Len(s.shape) = 1 /\ s.ty = "F32" /\ s.role[1] = kind
MatrixSpec(s, kind, l, ty) ==
    LoadOf(s) = <<"matrix", kind, l>> /\ Len(s.shape) = 2 /\ s.ty = ty /\ s.role[1] = kind
ExpertSpec(s, kind, ty) == s.ty = ty /\ s.role[1] = kind

\* A vector.
LEMMA VectorForm ==
    ASSUME NEW part, NEW l, NEW kind, NEW d
    PROVE  VectorSpec(SpecOf(part, l, kind, <<d>>, "F32"), kind, l)
BY DEF SpecOf, LoadOf, VectorSpec

\* A matrix.
LEMMA MatrixForm ==
    ASSUME NEW part, NEW l, NEW kind, NEW d, NEW e, NEW ty
    PROVE  MatrixSpec(SpecOf(part, l, kind, <<d, e>>, ty), kind, l, ty)
BY DEF SpecOf, LoadOf, MatrixSpec

\* The tensor of all experts.
LEMMA ExpertForm ==
    ASSUME NEW part, NEW l, NEW kind, NEW shape, NEW ty
    PROVE  ExpertSpec(SpecOf(part, l, kind, shape, ty), kind, ty)
BY DEF SpecOf, ExpertSpec

\* The quantizations of the schema.
LEMMA SchemaTypes == {"F32", "IQ2_S", "IQ3_S", "Q4_K", "Q5_K"} \subseteq GgmlTypes
BY SMT DEF GgmlTypes, TypeSizes

\* A group of specs that are vectors of floats and matrices.
LEMMA GlobalLoaded ==
    ASSUME NEW c
    PROVE  Loaded(GlobalSpecs(c), GlobalLoads)
<1> DEFINE h == c["embedding_length"]
           v == c["vocabulary_size"]
           a == SpecOf("token_embd", NoLayer, "TokenEmbedding", <<h, v>>, "IQ3_S")
           b == SpecOf("output_norm", NoLayer, "OutputNorm", <<h>>, "F32")
           o == SpecOf("output", NoLayer, "Output", <<h, v>>, "Q5_K")
<1>1. GlobalSpecs(c) = {a, b, o}
  BY DEF GlobalSpecs
<1>2. /\ MatrixSpec(a, "TokenEmbedding", NoLayer, "IQ3_S")
      /\ VectorSpec(b, "OutputNorm", NoLayer)
      /\ MatrixSpec(o, "Output", NoLayer, "Q5_K")
  BY VectorForm, MatrixForm, Zenon
<1> HIDE DEF a, b, o
<1> QED
  BY <1>1, <1>2, SchemaTypes DEF Loaded, GlobalLoads, IsRoutedExpert, VectorSpec, MatrixSpec

\* The attention of a layer.
AttentionLoads(l) ==
    {<<"vector", kind, l>> : kind \in {"AttentionNorm", "AttentionQNorm", "AttentionKNorm", "FfnNorm"}}
    \cup {<<"matrix", kind, l>> : kind \in {"AttentionQ", "AttentionK", "AttentionV", "AttentionOutput"}}

\* Its four norms and its four projections.
LEMMA AttentionLoaded ==
    ASSUME NEW c, NEW l
    PROVE  Loaded(AttentionSpecs(c, l), AttentionLoads(l))
<1> DEFINE h == c["embedding_length"]
           q == c["attention_head_count"] * c["key_length"]
           k == c["attention_kv_head_count"] * c["key_length"]
           v == c["attention_kv_head_count"] * c["value_length"]
           o == c["attention_head_count"] * c["value_length"]
           s1 == SpecOf("attn_k", l, "AttentionK", <<h, k>>, "IQ2_S")
           s2 == SpecOf("attn_k_norm", l, "AttentionKNorm", <<c["key_length"]>>, "F32")
           s3 == SpecOf("attn_norm", l, "AttentionNorm", <<h>>, "F32")
           s4 == SpecOf("attn_output", l, "AttentionOutput", <<o, h>>, "IQ3_S")
           s5 == SpecOf("attn_q", l, "AttentionQ", <<h, q>>, "IQ2_S")
           s6 == SpecOf("attn_q_norm", l, "AttentionQNorm", <<c["key_length"]>>, "F32")
           s7 == SpecOf("attn_v", l, "AttentionV", <<h, v>>, "Q4_K")
           s8 == SpecOf("ffn_norm", l, "FfnNorm", <<h>>, "F32")
<1>1. AttentionSpecs(c, l) = {s1, s2, s3, s4, s5, s6, s7, s8}
  BY DEF AttentionSpecs
<1> HIDE DEF h, q, k, v, o
<1>2. /\ MatrixSpec(s1, "AttentionK", l, "IQ2_S")
      /\ VectorSpec(s2, "AttentionKNorm", l)
      /\ VectorSpec(s3, "AttentionNorm", l)
      /\ MatrixSpec(s4, "AttentionOutput", l, "IQ3_S")
      /\ MatrixSpec(s5, "AttentionQ", l, "IQ2_S")
      /\ VectorSpec(s6, "AttentionQNorm", l)
      /\ MatrixSpec(s7, "AttentionV", l, "Q4_K")
      /\ VectorSpec(s8, "FfnNorm", l)
  BY VectorForm, MatrixForm, Zenon
<1> HIDE DEF s1, s2, s3, s4, s5, s6, s7, s8
<1>4. \A s \in AttentionSpecs(c, l) :
          /\ s.ty \in GgmlTypes /\ ~IsRoutedExpert(s.role)
          /\ Len(s.shape) \in {1, 2}
          /\ Len(s.shape) = 1 => s.ty = "F32"
          /\ LoadOf(s) \in AttentionLoads(l)
  BY <1>1, <1>2, SchemaTypes DEF AttentionLoads, IsRoutedExpert, VectorSpec, MatrixSpec
<1>5. \A x \in AttentionLoads(l) : \E s \in AttentionSpecs(c, l) : LoadOf(s) = x
  BY <1>1, <1>2 DEF AttentionLoads, VectorSpec, MatrixSpec
<1> QED
  BY <1>4, <1>5 DEF Loaded

\* The network of the first layer.
DenseLoads(l) == {<<"matrix", kind, l>> : kind \in {"DenseGate", "DenseUp", "DenseDown"}}

\* Its three matrices.
LEMMA DenseLoaded ==
    ASSUME NEW c, NEW l
    PROVE  Loaded(DenseSpecs(c, l), DenseLoads(l))
<1> DEFINE h == c["embedding_length"]
           d == c["dense_ffn_length"]
           s1 == SpecOf("ffn_down", l, "DenseDown", <<d, h>>, "IQ3_S")
           s2 == SpecOf("ffn_gate", l, "DenseGate", <<h, d>>, "IQ2_S")
           s3 == SpecOf("ffn_up", l, "DenseUp", <<h, d>>, "IQ2_S")
<1>1. DenseSpecs(c, l) = {s1, s2, s3}
  BY DEF DenseSpecs
<1>2. /\ MatrixSpec(s1, "DenseDown", l, "IQ3_S")
      /\ MatrixSpec(s2, "DenseGate", l, "IQ2_S")
      /\ MatrixSpec(s3, "DenseUp", l, "IQ2_S")
  BY MatrixForm, Zenon
<1> HIDE DEF s1, s2, s3
<1> QED
  BY <1>1, <1>2, SchemaTypes DEF Loaded, DenseLoads, IsRoutedExpert, MatrixSpec

\* The router and the shared experts of a later layer; the routed ones stay in
\* the file.
MoeLoads(l) ==
    {<<"vector", "RouterSelectionBias", l>>}
    \cup {<<"matrix", kind, l>> : kind \in {"RouterInput", "SharedGate", "SharedUp", "SharedDown"}}

\* Its router and its shared expert.
LEMMA MoeLoaded ==
    ASSUME NEW c, NEW l
    PROVE  Loaded(MoeSpecs(c, l), MoeLoads(l))
<1> DEFINE h == c["embedding_length"]
           x == c["expert_count"]
           f == c["expert_ffn_length"]
           g == c["shared_expert_ffn_length"]
           down == IF l <= 5 THEN "IQ3_S" ELSE "IQ2_S"
           sharedDown == IF l <= 4 THEN "IQ3_S" ELSE "IQ2_S"
           s1 == SpecOf("exp_probs_b", l, "RouterSelectionBias", <<x>>, "F32")
           s2 == SpecOf("ffn_gate_inp", l, "RouterInput", <<h, x>>, "F32")
           s3 == SpecOf("ffn_gate_exps", l, "RoutedGate", <<h, f, x>>, "IQ2_S")
           s4 == SpecOf("ffn_up_exps", l, "RoutedUp", <<h, f, x>>, "IQ2_S")
           s5 == SpecOf("ffn_down_exps", l, "RoutedDown", <<f, h, x>>, down)
           s6 == SpecOf("ffn_gate_shexp", l, "SharedGate", <<h, g>>, "IQ2_S")
           s7 == SpecOf("ffn_up_shexp", l, "SharedUp", <<h, g>>, "IQ2_S")
           s8 == SpecOf("ffn_down_shexp", l, "SharedDown", <<g, h>>, sharedDown)
<1>1. MoeSpecs(c, l) = {s1, s2, s3, s4, s5, s6, s7, s8}
  BY DEF MoeSpecs
<1>2. down \in {"IQ2_S", "IQ3_S"} /\ sharedDown \in {"IQ2_S", "IQ3_S"}
  OBVIOUS
<1> HIDE DEF h, x, f, g, down, sharedDown
<1>3. /\ VectorSpec(s1, "RouterSelectionBias", l)
      /\ MatrixSpec(s2, "RouterInput", l, "F32")
      /\ MatrixSpec(s6, "SharedGate", l, "IQ2_S")
      /\ MatrixSpec(s7, "SharedUp", l, "IQ2_S")
      /\ MatrixSpec(s8, "SharedDown", l, sharedDown)
  BY VectorForm, MatrixForm, Zenon
<1>4. /\ ExpertSpec(s3, "RoutedGate", "IQ2_S")
      /\ ExpertSpec(s4, "RoutedUp", "IQ2_S")
      /\ ExpertSpec(s5, "RoutedDown", down)
  BY ExpertForm, Zenon
<1> HIDE DEF s1, s2, s3, s4, s5, s6, s7, s8
<1>5. ASSUME NEW s \in MoeSpecs(c, l)
      PROVE  /\ s.ty \in GgmlTypes
             /\ ~IsRoutedExpert(s.role) =>
                   /\ Len(s.shape) \in {1, 2}
                   /\ Len(s.shape) = 1 => s.ty = "F32"
                   /\ LoadOf(s) \in MoeLoads(l)
  <2>1. s \in {s1, s2, s6, s7, s8} \/ s \in {s3, s4, s5}
    BY <1>1
  <2>2. CASE s \in {s1, s2, s6, s7, s8}
    BY <1>2, <1>3, <2>2, SchemaTypes DEF MoeLoads, VectorSpec, MatrixSpec
  <2>3. CASE s \in {s3, s4, s5}
    BY <1>2, <1>4, <2>3, SchemaTypes DEF IsRoutedExpert, ExpertSpec
  <2> QED
    BY <2>1, <2>2, <2>3
<1>6. ASSUME NEW y \in MoeLoads(l)
      PROVE  \E s \in MoeSpecs(c, l) : ~IsRoutedExpert(s.role) /\ LoadOf(s) = y
  BY <1>1, <1>3 DEF MoeLoads, IsRoutedExpert, VectorSpec, MatrixSpec
<1> QED
  BY <1>5, <1>6 DEF Loaded

\* Groups of specs, loaded together.
LEMMA LoadedTogether ==
    ASSUME NEW specs, NEW loads, Loaded(specs, loads), NEW specs2, NEW loads2, Loaded(specs2, loads2)
    PROVE  Loaded(specs \cup specs2, loads \cup loads2)
BY DEF Loaded

\* load_validated asks for each tensor that is no routed expert, and nothing else.
LEMMA SchemaLoaded ==
    ASSUME NEW c
    PROVE  Loaded(Schema(c), Loads(c))
<1>1. ASSUME NEW l PROVE Loaded(LayerSpecs(c, l), LayerLoads(l))
  <2>1. LayerLoads(l) = AttentionLoads(l) \cup IF l = 0 THEN DenseLoads(l) ELSE MoeLoads(l)
    BY DEF LayerLoads, AttentionLoads, DenseLoads, MoeLoads
  <2>2. CASE l = 0
    BY <2>1, <2>2, AttentionLoaded, DenseLoaded, LoadedTogether DEF LayerSpecs
  <2>3. CASE l # 0
    BY <2>1, <2>3, AttentionLoaded, MoeLoaded, LoadedTogether DEF LayerSpecs
  <2> QED
    BY <2>2, <2>3
<1> DEFINE specs == UNION {LayerSpecs(c, l) : l \in 0..(c["block_count"] - 1)}
           loads == UNION {LayerLoads(l) : l \in 0..(c["block_count"] - 1)}
<1>2. Loaded(specs, loads)
  <2>1. ASSUME NEW s \in specs
        PROVE  \E l \in 0..(c["block_count"] - 1) : s \in LayerSpecs(c, l)
    OBVIOUS
  <2>2. ASSUME NEW l \in 0..(c["block_count"] - 1)
        PROVE  LayerSpecs(c, l) \subseteq specs /\ LayerLoads(l) \subseteq loads
    OBVIOUS
  <2>3. ASSUME NEW x \in loads
        PROVE  \E l \in 0..(c["block_count"] - 1) : x \in LayerLoads(l)
    OBVIOUS
  <2> HIDE DEF specs, loads
  <2> QED
    BY <1>1, <2>1, <2>2, <2>3 DEF Loaded
<1> HIDE DEF specs, loads
<1>3. Loaded(GlobalSpecs(c) \cup specs, GlobalLoads \cup loads)
  BY <1>2, GlobalLoaded, LoadedTogether
<1> QED
  BY <1>3 DEF Schema, Loads, specs, loads

-----------------------------------------------------------------------------
(* ModelOpening: the bytes of the schema. *)

\* What a tensor of up to three dimensions takes is a number, and a vector of
\* floats four bytes for each.
LEMMA SpecBytesAre ==
    ASSUME NEW s, s.shape \in Seq(Positive), Len(s.shape) \in 1..3, s.ty \in GgmlTypes
    PROVE  /\ SpecBytes(s) \in Nat
           /\ Len(s.shape) = 1 /\ s.ty = "F32" => SpecBytes(s) = 4 * s.shape[1]
<1> DEFINE t == [dims |-> s.shape, ty |-> s.ty]
           n == Len(s.shape)
           b == BlockSize(s.ty)
           z == TypeSizes[s.ty]
<1>1. t.dims = s.shape /\ t.ty = s.ty /\ SpecBytes(s) = TensorBytes(t)
  BY DEF SpecBytes
<1>2. b \in Nat /\ b > 0 /\ z \in Nat
  BY TypeSizesPositive DEF Positive
<1>3. n \in 1..4 /\ Len(t.dims) = n
  BY <1>1
<1>4. \A i \in 1..n : s.shape[i] \in Nat
  <2>1. ASSUME NEW i \in 1..n PROVE s.shape[i] \in Positive
    BY ElementOfSeq
  <2> QED
    BY <2>1 DEF Positive
<1> HIDE DEF n, t
<1> DEFINE d == IF n = 1 THEN t.dims[1]
                ELSE IF n = 2 THEN t.dims[1] * t.dims[2]
                ELSE IF n = 3 THEN t.dims[1] * t.dims[2] * t.dims[3]
                ELSE t.dims[1] * t.dims[2] * t.dims[3] * t.dims[4]
<1>5. TensorBytes(t) = (d \div b) * z
  BY <1>1, <1>3, <1>4, ProductsAre
<1>6. d \in Nat
  <2> DEFINE w == t.dims[1]
             x == t.dims[2]
             y == t.dims[3]
             v == t.dims[4]
  <2>1. /\ w \in Nat
        /\ n \in {2, 3, 4} => x \in Nat
        /\ n \in {3, 4} => y \in Nat
        /\ n = 4 => v \in Nat
    BY <1>1, <1>3, <1>4
  <2>2. d = IF n = 1 THEN w ELSE IF n = 2 THEN w * x ELSE IF n = 3 THEN w * x * y ELSE w * x * y * v
    OBVIOUS
  <2> HIDE DEF d, w, x, y, v
  <2>3. CASE n = 1
    BY <2>1, <2>2, <2>3
  <2>4. CASE n = 2
    BY <2>1, <2>2, <2>4
  <2>5. CASE n = 3
    <3>1. w * x \in Nat
      BY <2>1, <2>5
    <3>2. d = w * x * y
      BY <2>2, <2>5
    <3> QED
      BY <2>1, <2>5, <3>1, <3>2
  <2>6. CASE n = 4
    <3>1. w * x \in Nat /\ y \in Nat /\ v \in Nat
      BY <2>1, <2>6
    <3>2. w * x * y \in Nat
      BY <3>1
    <3>3. d = w * x * y * v
      BY <2>2, <2>6
    <3> QED
      BY <3>1, <3>2, <3>3
  <2> QED
    BY <1>3, <2>3, <2>4, <2>5, <2>6
<1>7. ASSUME n = 1, s.ty = "F32" PROVE SpecBytes(s) = 4 * s.shape[1]
  <2>1. d = s.shape[1]
    BY <1>1, <1>7
  <2>2. b = 1
    BY <1>7 DEF BlockSize
  <2>3. z = 4
    BY <1>7 DEF TypeSizes
  <2> HIDE DEF d, b, z
  <2>4. d \div 1 = d
    BY <1>6
  <2>5. (d \div b) * z = 4 * d
    BY <1>6, <2>2, <2>3, <2>4
  <2> QED
    BY <1>1, <1>5, <2>1, <2>5
<1> HIDE DEF d, b, z
<1>8. d \div b \in Nat
  BY <1>2, <1>6
<1>9. SpecBytes(s) \in Nat
  BY <1>1, <1>2, <1>5, <1>8
<1> QED
  BY <1>7, <1>9 DEF n

\* Each spec of a configuration in range: its role is its own, and what it takes.
LEMMA SchemaSpecs ==
    ASSUME NEW c, SchemaConfigValid(c)
    PROVE  /\ IsFiniteSet(Schema(c))
           /\ \A s \in Schema(c) :
                 /\ s.shape \in Seq(Positive) /\ Len(s.shape) \in 1..3 /\ s.ty \in GgmlTypes
                 /\ s.role = <<s.role[1], s.role[2]>>
                 /\ IsRoutedExpert(s.role) => Len(s.shape) = 3 /\ s.shape[3] = c["expert_count"]
                 /\ SpecBytes(s) \in Nat
                 /\ Len(s.shape) = 1 /\ s.ty = "F32" => SpecBytes(s) = 4 * s.shape[1]
           /\ \A s, t \in Schema(c) : s.role = t.role => s = t
<1>1. Dimensioned(c) /\ IsFiniteSet(Schema(c))
  BY ConfigsDimensioned, SchemaCount
<1>2. \A s \in Schema(c) : Fits(c, s, s.name.layer)
  BY <1>1, SchemaCovers
<1>3. \A s \in Schema(c) : s.ty \in GgmlTypes
  BY SchemaLoaded DEF Loaded
<1>4. \A s \in Schema(c) : s.role = <<s.role[1], s.role[2]>>
  <2>1. ASSUME NEW s \in Schema(c) PROVE s.role = <<s.role[1], s.role[2]>>
    <3>1. PICK x, y : s.role = <<x, y>>
      BY <1>2 DEF Fits
    <3> QED
      BY <3>1
  <2> QED
    BY <2>1
<1>5. ASSUME NEW s \in Schema(c), NEW t \in Schema(c), s.role = t.role PROVE s = t
  <2>1. \A p, q \in DOMAIN RoleKinds : RoleKinds[p] = RoleKinds[q] => p = q
    BY SMT DEF RoleKinds
  <2>2. /\ s.name.part \in DOMAIN RoleKinds /\ t.name.part \in DOMAIN RoleKinds
        /\ s.role = <<RoleKinds[s.name.part], s.name.layer>> /\ s.name = PartName(s.name.part, s.name.layer)
        /\ t.role = <<RoleKinds[t.name.part], t.name.layer>> /\ t.name = PartName(t.name.part, t.name.layer)
    BY <1>2 DEF Fits
  <2>3. RoleKinds[s.name.part] = RoleKinds[t.name.part] /\ s.name.layer = t.name.layer
    <3> DEFINE x == RoleKinds[s.name.part]
               y == RoleKinds[t.name.part]
               m == s.name.layer
               n == t.name.layer
    <3>1. <<x, m>> = <<y, n>>
      BY <1>5, <2>2, Zenon
    <3> HIDE DEF x, y, m, n
    <3>2. x = y /\ m = n
      BY <3>1
    <3> QED
      BY <3>2 DEF x, y, m, n
  <2>4. s.name.part = t.name.part
    BY <2>1, <2>2, <2>3
  <2>5. s.name = t.name
    BY <2>2, <2>3, <2>4
  <2> QED
    BY <1>1, <2>5, SchemaCovers
<1>6. \A s \in Schema(c) :
         /\ s.shape \in Seq(Positive) /\ Len(s.shape) \in 1..3
         /\ IsRoutedExpert(s.role) => Len(s.shape) = 3 /\ s.shape[3] = c["expert_count"]
  BY <1>2 DEF Fits
<1> QED
  BY <1>1, <1>3, <1>4, <1>5, <1>6, SpecBytesAre

-----------------------------------------------------------------------------
(* ModelOpening: the loader keeps as many bytes as the preflight counts. *)

\* What stays in memory.
Kept(c) == {s \in Schema(c) : ~IsRoutedExpert(s.role)}

\* The sum that the preflight takes.
LEMMA BytesTotal ==
    ASSUME NEW S, IsFiniteSet(S)
    PROVE  MapThenSumSet(SpecBytes, S) = Total([s \in S |-> SpecBytes(s)], S)
<1> DEFINE f == [s \in S |-> SpecBytes(s)]
           P(t) == t = [s \in SUBSET S |-> IF s = {} THEN 0
                                           ELSE SpecBytes(CHOOSE x \in s : TRUE)
                                                    + t[s \ {CHOOSE x \in s : TRUE}]]
           it == CHOOSE t : P(t)
<1>1. MapThenSumSet(SpecBytes, S) = it[S]
  BY DEF MapThenSumSet, MapThenFoldSet
<1>2. ASSUME NEW t PROVE P(t) <=> IsTotal(t, f, S)
  <2>1. ASSUME NEW s \in SUBSET S
        PROVE  TotalStep(t, f, s) = IF s = {} THEN 0
                                    ELSE SpecBytes(CHOOSE x \in s : TRUE)
                                             + t[s \ {CHOOSE x \in s : TRUE}]
    <3>1. CASE s = {}
      BY <3>1 DEF TotalStep
    <3>2. CASE s # {}
      <4>1. Pick(s) \in S
        BY <3>2 DEF Pick
      <4>2. f[Pick(s)] = SpecBytes(Pick(s))
        BY <4>1
      <4> HIDE DEF f
      <4> QED
        BY <3>2, <4>2 DEF TotalStep, Pick
    <3> QED
      BY <3>1, <3>2
  <2>2. [s \in SUBSET S |-> TotalStep(t, f, s)]
          = [s \in SUBSET S |-> IF s = {} THEN 0
                                ELSE SpecBytes(CHOOSE x \in s : TRUE)
                                         + t[s \ {CHOOSE x \in s : TRUE}]]
    BY <2>1
  <2> QED
    BY <2>2 DEF IsTotal
<1>3. \E t : P(t)
  <2>1. PICK t : IsTotal(t, f, S)
    BY TotalExists
  <2>2. P(t)
    BY <1>2, <2>1
  <2> HIDE DEF P
  <2> QED
    BY <2>2
<1> HIDE DEF P
<1>4. P(it)
  BY <1>3
<1>5. IsTotal(it, f, S)
  BY <1>2, <1>4
<1> HIDE DEF it, f
<1>6. Total(f, S) = it[S]
  BY <1>5, TotalIs
<1> QED
  BY <1>1, <1>6 DEF f

-----------------------------------------------------------------------------

\* The tensor of a load.
SpecFor(c, load) == CHOOSE x \in SpecsOfRole(c, <<load[2], load[3]>>) : TRUE

\* What the loader counts for it.
LoadBytes(c, load) ==
    IF load[1] = "matrix" THEN SpecBytes(SpecFor(c, load)) ELSE 4 * SpecFor(c, load).shape[1]

\* The sum that the loader takes.
LEMMA LoadsTotal ==
    ASSUME NEW c, IsFiniteSet(Loads(c))
    PROVE  ResidentBytes(c) = Total([x \in Loads(c) |-> LoadBytes(c, x)], Loads(c))
<1> DEFINE S == Loads(c)
           f == [x \in S |-> LoadBytes(c, x)]
           P(t) == t = [s \in SUBSET S |-> IF s = {} THEN 0
                                           ELSE LoadBytes(c, CHOOSE x \in s : TRUE)
                                                    + t[s \ {CHOOSE x \in s : TRUE}]]
           it == CHOOSE t : P(t)
<1>1. ResidentBytes(c) = it[S]
  BY DEF ResidentBytes, MapThenSumSet, MapThenFoldSet, LoadBytes, SpecFor
<1> HIDE DEF S
<1>2. ASSUME NEW t PROVE P(t) <=> IsTotal(t, f, S)
  <2>1. ASSUME NEW s \in SUBSET S
        PROVE  TotalStep(t, f, s) = IF s = {} THEN 0
                                    ELSE LoadBytes(c, CHOOSE x \in s : TRUE)
                                             + t[s \ {CHOOSE x \in s : TRUE}]
    <3>1. CASE s = {}
      BY <3>1 DEF TotalStep
    <3>2. CASE s # {}
      <4>1. Pick(s) \in S
        BY <3>2 DEF Pick
      <4>2. f[Pick(s)] = LoadBytes(c, Pick(s))
        BY <4>1
      <4> HIDE DEF f
      <4> QED
        BY <3>2, <4>2 DEF TotalStep, Pick
    <3> QED
      BY <3>1, <3>2
  <2>2. [s \in SUBSET S |-> TotalStep(t, f, s)]
          = [s \in SUBSET S |-> IF s = {} THEN 0
                                ELSE LoadBytes(c, CHOOSE x \in s : TRUE)
                                         + t[s \ {CHOOSE x \in s : TRUE}]]
    BY <2>1
  <2> QED
    BY <2>2 DEF IsTotal
<1>3. \E t : P(t)
  <2>1. PICK t : IsTotal(t, f, S)
    BY TotalExists DEF S
  <2>2. P(t)
    BY <1>2, <2>1
  <2> HIDE DEF P
  <2> QED
    BY <2>2
<1> HIDE DEF P
<1>4. P(it)
  BY <1>3
<1>5. IsTotal(it, f, S)
  BY <1>2, <1>4
<1> HIDE DEF it, f
<1>6. Total(f, S) = it[S]
  BY <1>5, TotalIs DEF S
<1> QED
  BY <1>1, <1>6 DEF f, S

\* Everything is found in the form it is asked for, and the sums agree: specs and
\* loads correspond, with the same bytes.
LEMMA LoadsMatchBudget ==
    ASSUME NEW c, SchemaConfigValid(c)
    PROVE  /\ \A load \in Loads(c) : Loadable(c, load)
           /\ ResidentBytes(c) = ResidentBudget(c) /\ ResidentBudget(c) \in Nat
<1> DEFINE S == Kept(c)
           R == Loads(c)
           f == [s \in S |-> SpecBytes(s)]
           g == [x \in R |-> LoadBytes(c, x)]
           b == [s \in S |-> LoadOf(s)]
<1>1. IsFiniteSet(S) /\ S \subseteq Schema(c)
  BY SchemaSpecs, FS_Subset DEF Kept
<1>2. Loaded(Schema(c), Loads(c))
  BY SchemaLoaded
<1>3. ASSUME NEW s \in S
      PROVE  /\ LoadOf(s) \in R /\ Len(s.shape) \in {1, 2} /\ SpecBytes(s) \in Nat
             /\ Len(s.shape) = 1 => s.ty = "F32" /\ SpecBytes(s) = 4 * s.shape[1]
             /\ LoadOf(s)[1] = IF Len(s.shape) = 1 THEN "vector" ELSE "matrix"
             /\ s.role = <<LoadOf(s)[2], LoadOf(s)[3]>>
  <2>1. s \in Schema(c) /\ ~IsRoutedExpert(s.role)
    BY DEF Kept
  <2>2. LoadOf(s) \in R /\ Len(s.shape) \in {1, 2} /\ (Len(s.shape) = 1 => s.ty = "F32")
    BY <1>2, <2>1 DEF Loaded
  <2>3. SpecBytes(s) \in Nat /\ (Len(s.shape) = 1 /\ s.ty = "F32" => SpecBytes(s) = 4 * s.shape[1])
        /\ s.role = <<s.role[1], s.role[2]>>
    BY <2>1, SchemaSpecs
  <2>4. /\ LoadOf(s)[1] = IF Len(s.shape) = 1 THEN "vector" ELSE "matrix"
        /\ LoadOf(s)[2] = s.role[1] /\ LoadOf(s)[3] = s.role[2]
    BY DEF LoadOf
  <2> QED
    BY <2>2, <2>3, <2>4
<1>4. ASSUME NEW x \in R PROVE \E s \in S : LoadOf(s) = x
  BY <1>2 DEF Loaded, Kept
<1>5. ASSUME NEW s \in S, NEW t \in S, LoadOf(s) = LoadOf(t) PROVE s = t
  <2>1. s.role = t.role
    BY <1>3, <1>5
  <2> QED
    BY <1>1, <2>1, SchemaSpecs
<1>6. ASSUME NEW s \in S PROVE SpecsOfRole(c, <<LoadOf(s)[2], LoadOf(s)[3]>>) = {s}
  <2>1. s \in Schema(c) /\ s.role = <<LoadOf(s)[2], LoadOf(s)[3]>>
    BY <1>1, <1>3
  <2>2. \A t \in Schema(c) : t.role = s.role => t = s
    BY <2>1, SchemaSpecs
  <2> QED
    BY <2>1, <2>2 DEF SpecsOfRole
<1>7. ASSUME NEW x \in R PROVE Loadable(c, x)
  <2>1. PICK s \in S : LoadOf(s) = x
    BY <1>4
  <2>2. s \in SpecsOfRole(c, <<x[2], x[3]>>)
    BY <1>6, <2>1
  <2>3. IF x[1] = "matrix" THEN Len(s.shape) = 2 ELSE Len(s.shape) = 1 /\ s.ty = "F32"
    BY <1>3, <2>1
  <2> QED
    BY <2>2, <2>3 DEF Loadable
<1>8. ASSUME NEW s \in S PROVE LoadBytes(c, LoadOf(s)) = SpecBytes(s)
  <2>1. SpecFor(c, LoadOf(s)) = s
    BY <1>6 DEF SpecFor
  <2> QED
    BY <1>3, <2>1 DEF LoadBytes
<1> HIDE DEF S, R
<1>9. b \in Bijection(S, R)
  BY <1>3, <1>4, <1>5 DEF Bijection, Injection, Surjection, IsInjective
<1>10. IsFiniteSet(R)
  <2>1. b \in Surjection(S, R)
    BY <1>9 DEF Bijection
  <2> HIDE DEF b
  <2> QED
    BY <1>1, <2>1, FS_Surjection
<1>11. (\A s \in S : f[s] \in Nat) /\ \A s \in S : g[b[s]] = f[s]
  BY <1>3, <1>8
<1> HIDE DEF f, g, b
<1>12. Total(f, S) = Total(g, R) /\ Total(f, S) \in Nat
  BY <1>1, <1>9, <1>11, TotalsCorrespond, TotalNatural
<1>13. ResidentBytes(c) = Total(g, R)
  BY <1>10, LoadsTotal DEF g, R
<1>14. ResidentBudget(c) = Total(f, S)
  <2>1. ResidentBudget(c) = MapThenSumSet(SpecBytes, Kept(c))
    BY DEF ResidentBudget, Kept
  <2> QED
    BY <1>1, <2>1, BytesTotal DEF f, S
<1> QED
  BY <1>7, <1>12, <1>13, <1>14 DEF R

-----------------------------------------------------------------------------
(* ModelOpening: an expert takes memory. *)

\* The tensors of the routed experts of a layer, and what one expert has of each.
Routed(c, l) == {s \in Schema(c) : s.role[2] = l /\ IsRoutedExpert(s.role)}
SlabBytes(c, s) == SpecBytes(s) \div c["expert_count"]

\* The sum that is an expert's payload.
LEMMA SlabsTotal ==
    ASSUME NEW c, NEW l, IsFiniteSet(Routed(c, l))
    PROVE  ExpertBytes(c, l) = Total([s \in Routed(c, l) |-> SlabBytes(c, s)], Routed(c, l))
<1> DEFINE S == Routed(c, l)
           f == [x \in S |-> SlabBytes(c, x)]
           P(t) == t = [s \in SUBSET S |-> IF s = {} THEN 0
                                           ELSE SlabBytes(c, CHOOSE x \in s : TRUE)
                                                    + t[s \ {CHOOSE x \in s : TRUE}]]
           it == CHOOSE t : P(t)
<1>1. ExpertBytes(c, l) = it[S]
  BY DEF ExpertBytes, MapThenSumSet, MapThenFoldSet, SlabBytes, Routed
<1> HIDE DEF S
<1>2. ASSUME NEW t PROVE P(t) <=> IsTotal(t, f, S)
  <2>1. ASSUME NEW s \in SUBSET S
        PROVE  TotalStep(t, f, s) = IF s = {} THEN 0
                                    ELSE SlabBytes(c, CHOOSE x \in s : TRUE)
                                             + t[s \ {CHOOSE x \in s : TRUE}]
    <3>1. CASE s = {}
      BY <3>1 DEF TotalStep
    <3>2. CASE s # {}
      <4>1. Pick(s) \in S
        BY <3>2 DEF Pick
      <4>2. f[Pick(s)] = SlabBytes(c, Pick(s))
        BY <4>1
      <4> HIDE DEF f
      <4> QED
        BY <3>2, <4>2 DEF TotalStep, Pick
    <3> QED
      BY <3>1, <3>2
  <2>2. [s \in SUBSET S |-> TotalStep(t, f, s)]
          = [s \in SUBSET S |-> IF s = {} THEN 0
                                ELSE SlabBytes(c, CHOOSE x \in s : TRUE)
                                         + t[s \ {CHOOSE x \in s : TRUE}]]
    BY <2>1
  <2> QED
    BY <2>2 DEF IsTotal
<1>3. \E t : P(t)
  <2>1. PICK t : IsTotal(t, f, S)
    BY TotalExists DEF S
  <2>2. P(t)
    BY <1>2, <2>1
  <2> HIDE DEF P
  <2> QED
    BY <2>2
<1> HIDE DEF P
<1>4. P(it)
  BY <1>3
<1>5. IsTotal(it, f, S)
  BY <1>2, <1>4
<1> HIDE DEF it, f
<1>6. Total(f, S) = it[S]
  BY <1>5, TotalIs DEF S
<1> QED
  BY <1>1, <1>6 DEF f, S

\* A slab of whole blocks is not empty.
LEMMA SlabTakes ==
    ASSUME NEW c, SchemaConfigValid(c), NEW s \in Schema(c), IsRoutedExpert(s.role),
           s.shape[1] % BlockSize(s.ty) = 0, s.ty \in {"IQ2_S", "IQ3_S"}
    PROVE  SlabBytes(c, s) \in Nat /\ SlabBytes(c, s) > 0
<1> DEFINE d == s.shape[1]
           e == s.shape[2]
           x == c["expert_count"]
           b == BlockSize(s.ty)
           z == TypeSizes[s.ty]
           shape == s.shape
<1>1. shape \in Seq(Positive) /\ Len(shape) = 3 /\ s.shape[3] = x
  BY SchemaSpecs
<1>2. d \in Positive /\ e \in Positive /\ x \in Positive
  <2>1. ASSUME NEW i \in 1..3 PROVE shape[i] \in Positive
    <3>1. i \in 1..Len(shape)
      BY <1>1
    <3> HIDE DEF shape
    <3> QED
      BY <1>1, <3>1, ElementOfSeq
  <2> QED
    BY <1>1, <2>1
<1>3. SpecBytes(s) = ((d * e * x) \div b) * z
  <2>1. shape \in Seq(Nat \ {0})
    BY <1>1 DEF Positive
  <2>2. SpecBytes(s) = TensorBytes([dims |-> shape, ty |-> s.ty])
    BY DEF SpecBytes
  <2> HIDE DEF shape
  <2>3. TensorBytes([dims |-> shape, ty |-> s.ty])
          = ((shape[1] * shape[2] * shape[3]) \div BlockSize(s.ty)) * TypeSizes[s.ty]
    BY <1>1, <2>1, ThreeDimensionBytes
  <2> QED
    BY <1>1, <2>2, <2>3 DEF shape
<1>4. b = 256 /\ z \in Nat /\ z > 0
  BY DEF BlockSize, TypeSizes
<1>5. b \in Positive /\ d % b = 0
  BY <1>4 DEF Positive
<1> HIDE DEF d, e, x, b, z
<1>6. SpecBytes(s) \div x = e * ((d \div b) * z)
  <2>1. z \in Nat
    BY <1>4
  <2> DEFINE payload == ((d * e * x) \div b) * z
  <2>2. payload \div x = e * ((d \div b) * z)
    BY <1>2, <1>5, <2>1, SlabArithmetic
  <2> HIDE DEF payload
  <2> QED
    BY <1>3, <2>2 DEF payload
<1>7. d \div b \in Nat /\ d \div b > 0
  <2>1. d \in Nat /\ d > 0 /\ b \in Nat /\ b > 0
    BY <1>2, <1>5 DEF Positive
  <2>2. d \div b \in Nat /\ d = b * (d \div b) + (d % b)
    BY <2>1
  <2> DEFINE q == d \div b
  <2>3. q \in Nat /\ d = b * q + 0
    BY <1>5, <2>2
  <2> HIDE DEF q
  <2>4. q # 0
    BY <2>1, <2>3
  <2> QED
    BY <2>3, <2>4 DEF q
<1>8. e \in Nat /\ e > 0
  BY <1>2 DEF Positive
<1> DEFINE q == d \div b
<1>9. q \in Nat /\ q > 0
  BY <1>7
<1> HIDE DEF q
<1>10. q * z \in Nat /\ q * z > 0
  BY <1>4, <1>9
<1> DEFINE r == q * z
<1>11. r \in Nat /\ r > 0
  BY <1>10
<1> HIDE DEF r
<1>12. e * r \in Nat /\ e * r > 0
  BY <1>8, <1>11
<1> QED
  BY <1>6, <1>12 DEF SlabBytes, r, q, x

\* The routed tensors have the quantizations that the schema gives them.
LEMMA RoutedTypes ==
    ASSUME NEW c, NEW s \in Schema(c), IsRoutedExpert(s.role)
    PROVE  s.ty \in {"IQ2_S", "IQ3_S"}
<1>1. \A l : \A u \in MoeSpecs(c, l) : IsRoutedExpert(u.role) => u.ty \in {"IQ2_S", "IQ3_S"}
  BY DEF MoeSpecs, SpecOf, IsRoutedExpert
<1>2. \A u \in GlobalSpecs(c) : ~IsRoutedExpert(u.role)
  BY DEF GlobalSpecs, SpecOf, IsRoutedExpert
<1>3. \A l : \A u \in AttentionSpecs(c, l) : ~IsRoutedExpert(u.role)
  BY DEF AttentionSpecs, SpecOf, IsRoutedExpert
<1>4. \A l : \A u \in DenseSpecs(c, l) : ~IsRoutedExpert(u.role)
  BY DEF DenseSpecs, SpecOf, IsRoutedExpert
<1>5. PICK l : s \in LayerSpecs(c, l)
  BY <1>2 DEF Schema
<1> QED
  BY <1>1, <1>3, <1>4, <1>5 DEF LayerSpecs

\* So the largest expert is one of them and takes memory.
LEMMA LargestTakes ==
    ASSUME NEW c, SchemaConfigValid(c), c["block_count"] > 1,
           \A s \in Schema(c) : s.shape[1] % BlockSize(s.ty) = 0
    PROVE  LargestExpert(c) \in Nat /\ LargestExpert(c) > 0
<1> DEFINE n == c["block_count"] - 1
           E == {ExpertBytes(c, l) : l \in 1..n}
<1>1. n \in Nat /\ 1 \in 1..n
  <2>1. c["block_count"] \in Positive
    BY ConfigsDimensioned DEF Dimensioned
  <2> QED
    BY <2>1 DEF Positive
<1>2. ASSUME NEW l
      PROVE  /\ IsFiniteSet(Routed(c, l)) /\ Routed(c, l) \subseteq Schema(c)
             /\ \A s \in Routed(c, l) : SlabBytes(c, s) \in Nat /\ SlabBytes(c, s) > 0
  <2>1. Routed(c, l) \subseteq Schema(c) /\ \A s \in Routed(c, l) : IsRoutedExpert(s.role)
    BY DEF Routed
  <2>2. IsFiniteSet(Routed(c, l))
    BY <2>1, SchemaSpecs, FS_Subset
  <2>3. ASSUME NEW s \in Routed(c, l) PROVE SlabBytes(c, s) \in Nat /\ SlabBytes(c, s) > 0
    BY <2>1, RoutedTypes, SlabTakes
  <2> QED
    BY <2>1, <2>2, <2>3
<1>3. ASSUME NEW l
      PROVE  /\ ExpertBytes(c, l) \in Nat
             /\ Routed(c, l) # {} => ExpertBytes(c, l) > 0
  <2> DEFINE S == Routed(c, l)
             f == [s \in S |-> SlabBytes(c, s)]
  <2>1. IsFiniteSet(S) /\ \A s \in S : f[s] \in Nat /\ f[s] > 0
    BY <1>2
  <2>2. ExpertBytes(c, l) = Total(f, S)
    BY <1>2, SlabsTotal
  <2> HIDE DEF S, f
  <2>3. Total(f, S) \in Nat
    BY <2>1, TotalNatural
  <2>4. ASSUME NEW s \in S PROVE Total(f, S) > 0
    <3>1. f[s] <= Total(f, S) /\ f[s] \in Nat /\ f[s] > 0
      BY <2>1, TotalCovers
    <3> QED
      BY <2>3, <3>1
  <2>5. S # {} => Total(f, S) > 0
    BY <2>4
  <2> QED
    BY <2>2, <2>3, <2>5 DEF S
<1>4. Routed(c, 1) # {}
  <2> DEFINE s == SpecOf("ffn_gate_exps", 1, "RoutedGate",
                         <<c["embedding_length"], c["expert_ffn_length"], c["expert_count"]>>, "IQ2_S")
  <2>1. s \in MoeSpecs(c, 1)
    BY DEF MoeSpecs
  <2>2. s \in Schema(c)
    <3>1. s \in LayerSpecs(c, 1)
      BY <2>1 DEF LayerSpecs
    <3>2. 1 \in 0..(c["block_count"] - 1)
      BY <1>1
    <3> HIDE DEF s
    <3> QED
      BY <3>1, <3>2 DEF Schema
  <2>3. s.role[2] = 1 /\ IsRoutedExpert(s.role)
    BY DEF SpecOf, IsRoutedExpert
  <2> HIDE DEF s
  <2> QED
    BY <2>2, <2>3 DEF Routed
<1>5. E \in SUBSET Nat /\ E # {} /\ ExpertBytes(c, 1) \in E
  BY <1>1, <1>3
<1>6. \E b \in Nat : \A e \in E : e <= b
  <2> DEFINE D == 1..n
             g == [l \in D |-> ExpertBytes(c, l)]
  <2>1. IsFiniteSet(D)
    BY <1>1, FS_Interval
  <2>2. \A l \in D : g[l] \in Nat
    BY <1>3
  <2>3. Total(g, D) \in Nat
    <3> HIDE DEF D, g
    <3> QED
      BY <2>1, <2>2, TotalNatural
  <2>4. ASSUME NEW l \in D PROVE g[l] <= Total(g, D)
    <3> HIDE DEF D, g
    <3> QED
      BY <2>1, <2>2, TotalCovers
  <2>5. \A e \in E : e <= Total(g, D)
    <3>1. ASSUME NEW l \in D PROVE ExpertBytes(c, l) <= Total(g, D)
      <4>1. g[l] = ExpertBytes(c, l)
        OBVIOUS
      <4> HIDE DEF g, D
      <4> QED
        BY <2>4, <4>1
    <3> QED
      BY <3>1
  <2> HIDE DEF g, D, E
  <2> QED
    BY <2>3, <2>5
<1> HIDE DEF E
<1>7. Max(E) \in E /\ \A e \in E : e <= Max(E)
  BY <1>5, <1>6, GreatestNatural
<1>8. Max(E) \in Nat /\ Max(E) > 0
  <2>1. ExpertBytes(c, 1) \in Nat /\ ExpertBytes(c, 1) > 0 /\ ExpertBytes(c, 1) <= Max(E) /\ Max(E) \in Nat
    BY <1>3, <1>4, <1>5, <1>7
  <2> QED
    BY <2>1
<1> QED
  BY <1>8 DEF LargestExpert, E, n

-----------------------------------------------------------------------------
(* ModelOpening: plan, preflight and first token. *)

\* What an opening needs is a number.
LEMMA NeedsAre ==
    ASSUME NEW i \in OpeningCases
    PROVE  /\ i.context \in Nat /\ i.page \in Nat /\ i.cache \in Nat /\ i.headroom \in Nat /\ i.memory \in Nat
           /\ ResidentBudget(i.config) \in Nat /\ KvTokenBytes(i.config) \in Nat
           /\ LargestExpert(i.config) \in Nat /\ LargestExpert(i.config) > 0
           /\ SchemaConfigValid(i.config)
<1> DEFINE c == i.config
<1>1. /\ SchemaConfigValid(c) /\ c["block_count"] > 1
      /\ \A s \in Schema(c) : s.shape[1] % BlockSize(s.ty) = 0
      /\ {i.context, i.page, i.cache, i.headroom, i.memory} \subseteq Nat
  BY OpeningAssumption
<1> HIDE DEF c
<1>2. ResidentBudget(c) \in Nat
  BY <1>1, LoadsMatchBudget
<1>3. LargestExpert(c) \in Nat /\ LargestExpert(c) > 0
  BY <1>1, LargestTakes
<1>4. KvTokenBytes(c) \in Nat
  <2>1. /\ c["block_count"] \in Nat /\ c["attention_kv_head_count"] \in Nat
        /\ c["key_length"] \in Nat /\ c["value_length"] \in Nat
    BY <1>1, ConfigsDimensioned DEF Dimensioned, Positive
  <2> DEFINE x == c["block_count"]
             y == c["attention_kv_head_count"]
             z == c["key_length"] + c["value_length"]
  <2>2. x \in Nat /\ y \in Nat /\ z \in Nat
    BY <2>1
  <2>3. KvTokenBytes(c) = x * y * z * 4
    BY DEF KvTokenBytes
  <2> HIDE DEF x, y, z
  <2>4. x * y \in Nat
    BY <2>2
  <2>5. x * y * z \in Nat
    BY <2>2, <2>4
  <2> QED
    BY <2>3, <2>5
<1> QED
  BY <1>1, <1>2, <1>3, <1>4 DEF c

\* A bound grows with what it multiplies.
LEMMA TimesGrows ==
    ASSUME NEW k \in Nat, NEW a \in Nat, NEW b \in Nat, a <= b
    PROVE  k * a \in Nat /\ k * b \in Nat /\ k * a <= k * b
<1>1. k * b = k * a + k * (b - a) /\ b - a \in Nat
  OBVIOUS
<1>2. k * (b - a) \in Nat /\ k * a \in Nat
  BY <1>1
<1> QED
  BY <1>1, <1>2

\* plan asks for no less than open_selected does, for its options and its memory.
LEMMA PlanCovers ==
    ASSUME NEW i \in OpeningCases, PlanPasses(i)
    PROVE  OptionsValid(i) /\ MemorySuffices(i, Required(i))
<1> DEFINE b == ResidentBudget(i.config)
           k == KvTokenBytes(i.config)
           m == IF i.page < i.context THEN i.page ELSE i.context
           x == LargestExpert(i.config)
           p == i.page
           n == i.context
           h == i.headroom
           c == i.cache
           y == i.memory
<1>1. /\ n \in Nat /\ p \in Nat /\ h \in Nat /\ c \in Nat /\ y \in Nat /\ b \in Nat /\ k \in Nat
      /\ x \in Nat /\ x > 0
  BY NeedsAre
<1>2. n \in 1..i.config["context_length"] /\ p > 0 /\ c >= x /\ (y = 0 \/ y >= b + c + k * p + h)
  BY DEF PlanPasses, MemorySuffices, PlanTokens
<1>3. m \in Nat /\ m <= p
  BY <1>1
<1>4. OptionsValid(i)
  <2>1. c > 0
    <3> HIDE DEF c, x
    <3> QED
      BY <1>1, <1>2
  <2> QED
    BY <1>2, <2>1 DEF OptionsValid
<1>5. Required(i) = b + c + h + k * m
  BY DEF Required
<1> HIDE DEF b, k, m, x, p, n, h, c, y
<1>6. k * m \in Nat /\ k * p \in Nat /\ k * m <= k * p
  BY <1>1, <1>3, TimesGrows
<1> DEFINE km == k * m
           kp == k * p
<1>7. km \in Nat /\ kp \in Nat /\ km <= kp /\ (y = 0 \/ y >= b + c + kp + h) /\ Required(i) = b + c + h + km
  BY <1>2, <1>5, <1>6
<1> HIDE DEF km, kp
<1>8. y = 0 \/ y >= b + c + h + km
  BY <1>1, <1>7
<1> QED
  BY <1>4, <1>7, <1>8 DEF MemorySuffices, y

\* What the preflight counts covers a first page within the context.
LEMMA PreflightCounts ==
    ASSUME NEW i \in OpeningCases, MemorySuffices(i, Required(i)), i.memory > 0, i.page <= i.context
    PROVE  ResidentBudget(i.config) + i.cache + KvTokenBytes(i.config) * i.page + i.headroom <= i.memory
<1> DEFINE b == ResidentBudget(i.config)
           k == KvTokenBytes(i.config)
           p == i.page
           h == i.headroom
           c == i.cache
           y == i.memory
<1>1. /\ i.context \in Nat /\ p \in Nat /\ h \in Nat /\ c \in Nat /\ y \in Nat /\ b \in Nat /\ k \in Nat
  BY NeedsAre
<1>2. (IF i.page < i.context THEN i.page ELSE i.context) = p
  BY <1>1
<1>3. Required(i) = b + c + h + k * p
  BY <1>2 DEF Required
<1>4. y >= b + c + h + k * p
  BY <1>1, <1>3 DEF MemorySuffices
<1> HIDE DEF b, k, p, h, c, y
<1> DEFINE kp == k * p
<1>5. kp \in Nat
  BY <1>1
<1>6. y >= b + c + h + kp
  BY <1>4
<1> HIDE DEF kp
<1>7. b + c + kp + h <= y
  BY <1>1, <1>5, <1>6
<1> QED
  BY <1>7 DEF b, k, p, h, c, y, kp

\* What each stage has established: a plan that passed did so for these inputs,
\* a refusal has its reason, and past its check the memory suffices and past the
\* tensors what was loaded is what was counted.
BudgetInv ==
    /\ {"inputs", "kind", "next", "end", "plan", "parsed", "seen", "resident", "used", "stale"} \subseteq DOMAIN opening
    /\ opening.inputs \in OpeningCases
    /\ opening.kind \in {"none", "open", "payload"} /\ opening.next \in Nat
    /\ IF opening.kind = "none" THEN opening.end = "none" ELSE opening.next > 0
    /\ opening.end = "done" => opening.next = Len(Checks(opening.kind)) + 1
    /\ opening.end # "roles"
    /\ opening.plan = "passes" => PlanPasses(opening.inputs)
    /\ opening.end = "options" => ~OptionsValid(opening.inputs)
    /\ opening.end = "memory" => ~MemorySuffices(opening.inputs, Required(opening.inputs))
    /\ opening.kind = "open" /\ opening.next > 6 =>
          MemorySuffices(opening.inputs, Required(opening.inputs))
    /\ opening.kind = "open" /\ opening.next > 9 =>
          opening.resident = ResidentBudget(opening.inputs.config)
    /\ opening.used # 0 =>
          /\ opening.kind = "open" /\ opening.end = "done"
          /\ opening.used = opening.resident + opening.inputs.cache
                                + KvTokenBytes(opening.inputs.config) * opening.inputs.page

\* Going past a check, whatever else it notes.
LEMMA BudgetPass ==
    ASSUME BudgetInv, NEW check, Checking(check),
           check = "memory" => MemorySuffices(opening.inputs, Required(opening.inputs)),
           DOMAIN opening' = DOMAIN opening,
           opening'.inputs = opening.inputs, opening'.kind = opening.kind,
           opening'.plan = opening.plan, opening'.used = opening.used,
           opening'.next = opening.next + 1,
           opening'.end = IF opening.next = Len(Checks(opening.kind)) THEN "done" ELSE "none",
           IF check = "tensors" THEN opening'.resident = ResidentBudget(opening.inputs.config)
           ELSE opening'.resident = opening.resident
    PROVE  BudgetInv'
<1> DEFINE n == opening.next
           length == Len(Checks(opening.kind))
<1>1. /\ opening.kind \in {"open", "payload"} /\ opening.end = "none"
      /\ n \in Nat /\ n > 0 /\ n <= length /\ Checks(opening.kind)[n] = check /\ opening.used = 0
  BY DEF Checking, BudgetInv
<1>2. opening.kind = "open" => /\ n = 6 => check = "memory"
                               /\ n = 9 => check = "tensors"
                               /\ check = "tensors" => n = 9
                               /\ n <= 10
  <2>1. SUFFICES ASSUME opening.kind = "open"
                 PROVE  /\ n = 6 => check = "memory"
                        /\ n = 9 => check = "tensors"
                        /\ check = "tensors" => n = 9
                        /\ n <= 10
    OBVIOUS
  <2> DEFINE k == Checks("open")
  <2>2. /\ Len(k) = 10 /\ k[1] = "length" /\ k[2] = "storage" /\ k[3] = "hash" /\ k[4] = "schema"
        /\ k[5] = "options" /\ k[6] = "memory" /\ k[7] = "endian" /\ k[8] = "readers"
        /\ k[9] = "tensors" /\ k[10] = "experts"
    BY DEF Checks
  <2>3. k[n] = check /\ n <= 10 /\ n \in Nat
    BY <1>1, <2>1, <2>2
  <2>4. n \in 1..10 \/ n = 0
    BY <2>3
  <2> HIDE DEF k
  <2>5. n # 0
    BY <1>1
  <2> QED
    BY <2>2, <2>3, <2>4, <2>5
<1>3. ASSUME opening.kind = "open", n + 1 > 6
      PROVE  MemorySuffices(opening.inputs, Required(opening.inputs))
  <2>1. n = 6 \/ n > 6
    BY <1>1, <1>3
  <2> QED
    BY <1>2, <1>3, <2>1 DEF BudgetInv
<1>4. ASSUME opening.kind = "open", n + 1 > 9
      PROVE  opening'.resident = ResidentBudget(opening.inputs.config)
  <2>1. n = 9 \/ n > 9
    BY <1>1, <1>4
  <2>2. CASE n = 9
    BY <1>2, <1>4, <2>2
  <2>3. CASE n > 9
    <3>1. check # "tensors"
      BY <1>1, <1>2, <1>4, <2>3
    <3> QED
      BY <1>4, <2>3, <3>1 DEF BudgetInv
  <2> QED
    BY <2>1, <2>2, <2>3
<1>5. opening'.end \in {"none", "done"} /\ (opening'.end = "done" => opening'.next = length + 1)
  BY <1>1
<1>6. opening'.next \in Nat /\ opening'.next > 0
  BY <1>1
<1> QED
  BY <1>1, <1>3, <1>4, <1>5, <1>6 DEF BudgetInv

\* What a passing check leaves.
LEMMA AdvanceLeaves ==
    ASSUME BudgetInv, NEW o, o = opening \/ o = Sees(opening)
    PROVE  LET a == Advance(o) IN
           /\ DOMAIN a = DOMAIN opening
           /\ a.inputs = opening.inputs /\ a.kind = opening.kind /\ a.plan = opening.plan
           /\ a.used = opening.used /\ a.next = opening.next + 1 /\ a.resident = opening.resident
           /\ a.end = IF opening.next = Len(Checks(opening.kind)) THEN "done" ELSE "none"
<1>1. /\ DOMAIN o = DOMAIN opening
      /\ o.inputs = opening.inputs /\ o.kind = opening.kind /\ o.plan = opening.plan
      /\ o.used = opening.used /\ o.next = opening.next /\ o.resident = opening.resident
  BY DEF Sees, BudgetInv
<1>2. {"next", "end"} \subseteq DOMAIN o
  BY <1>1 DEF BudgetInv
<1> DEFINE r == [o EXCEPT !.next = @ + 1]
           e == IF o.next = Len(Checks(o.kind)) THEN "done" ELSE "none"
           a == [r EXCEPT !.end = e]
<1>3. Advance(o) = a
  BY DEF Advance
<1>4. /\ DOMAIN r = DOMAIN o /\ r.next = o.next + 1
      /\ r.inputs = o.inputs /\ r.kind = o.kind /\ r.plan = o.plan /\ r.used = o.used
      /\ r.resident = o.resident
  BY <1>1, <1>2 DEF BudgetInv
<1> HIDE DEF r, e
<1>5. /\ DOMAIN a = DOMAIN r /\ a.end = e /\ a.next = r.next
      /\ a.inputs = r.inputs /\ a.kind = r.kind /\ a.plan = r.plan /\ a.used = r.used
      /\ a.resident = r.resident
  BY <1>1, <1>2, <1>4 DEF BudgetInv
<1> HIDE DEF a
<1> QED
  BY <1>1, <1>3, <1>4, <1>5 DEF e

\* Stopping with a reason.
LEMMA RefusePass ==
    ASSUME BudgetInv, NEW check, Checking(check), NEW why, Refuse(why),
           why \notin {"done", "roles"},
           why = "options" => ~OptionsValid(opening.inputs),
           why = "memory" => ~MemorySuffices(opening.inputs, Required(opening.inputs))
    PROVE  BudgetInv'
<1>1. opening.kind # "none" /\ opening.end = "none" /\ opening.used = 0
  BY DEF Checking, BudgetInv
<1>2. /\ DOMAIN opening' = DOMAIN opening /\ opening'.end = why
      /\ opening'.inputs = opening.inputs /\ opening'.kind = opening.kind /\ opening'.plan = opening.plan
      /\ opening'.used = opening.used /\ opening'.next = opening.next /\ opening'.resident = opening.resident
  BY DEF Refuse, BudgetInv
<1> QED
  BY <1>1, <1>2 DEF BudgetInv

\* A check of open or of validate.
LEMMA BudgetCheck == ASSUME BudgetInv, CheckModel PROVE BudgetInv'
<1>1. PICK check \in {"length", "storage", "hash", "schema", "options", "memory", "endian"} :
         /\ Checking(check)
         /\ IF CheckPasses(check)
            THEN opening' = Advance(IF check = "hash" THEN Sees(opening) ELSE opening)
            ELSE Refuse(check)
  BY DEF CheckModel
<1>2. check = "options" => (CheckPasses(check) <=> OptionsValid(opening.inputs))
  BY DEF CheckPasses
<1>3. check = "memory" =>
          (CheckPasses(check) <=> MemorySuffices(opening.inputs, Required(opening.inputs)))
  BY DEF CheckPasses
<1>4. CASE CheckPasses(check)
  <2> DEFINE o == IF check = "hash" THEN Sees(opening) ELSE opening
  <2>1. opening' = Advance(o) /\ (o = opening \/ o = Sees(opening)) /\ check # "tensors"
    BY <1>1, <1>4
  <2> HIDE DEF o
  <2> QED
    BY <1>1, <1>3, <1>4, <2>1, AdvanceLeaves, BudgetPass
<1>5. CASE ~CheckPasses(check)
  BY <1>1, <1>2, <1>3, <1>5, RefusePass
<1> QED
  BY <1>4, <1>5

\* Opening the tensor reader and the expert store.
LEMMA BudgetFiles == ASSUME BudgetInv, OpenFiles PROVE BudgetInv'
<1>1. PICK check \in {"readers", "experts"} : Checking(check)
  BY DEF OpenFiles
<1>2. opening' = Advance(Sees(opening))
  BY DEF OpenFiles
<1> QED
  BY <1>1, <1>2, AdvanceLeaves, BudgetPass

\* Loading what stays.
LEMMA BudgetTensors == ASSUME BudgetInv, LoadTensors PROVE BudgetInv'
<1>1. Checking("tensors")
  BY DEF LoadTensors
<1> DEFINE c == opening.inputs.config
<1>2. SchemaConfigValid(c)
  BY NeedsAre DEF BudgetInv
<1>3. (\A load \in Loads(c) : Loadable(c, load)) /\ ResidentBytes(c) = ResidentBudget(c)
  BY <1>2, LoadsMatchBudget
<1>4. \/ opening' = [Advance(opening) EXCEPT !.resident = ResidentBudget(c)]
      \/ Refuse("tensors")
  BY <1>3 DEF LoadTensors
<1>5. CASE Refuse("tensors")
  BY <1>1, <1>5, RefusePass
<1>6. CASE opening' = [Advance(opening) EXCEPT !.resident = ResidentBudget(c)]
  <2> DEFINE a == Advance(opening)
             b == ResidentBudget(c)
  <2>1. /\ DOMAIN a = DOMAIN opening
        /\ a.inputs = opening.inputs /\ a.kind = opening.kind /\ a.plan = opening.plan
        /\ a.used = opening.used /\ a.next = opening.next + 1
        /\ a.end = IF opening.next = Len(Checks(opening.kind)) THEN "done" ELSE "none"
    BY AdvanceLeaves
  <2>2. {"resident", "inputs", "kind", "plan", "used", "next", "end"} \subseteq DOMAIN a
    BY <2>1 DEF BudgetInv
  <2> HIDE DEF a, b
  <2>3. opening' = [a EXCEPT !.resident = b]
    BY <1>6 DEF a, b
  <2>4. /\ DOMAIN opening' = DOMAIN a /\ opening'.resident = b
        /\ opening'.inputs = a.inputs /\ opening'.kind = a.kind /\ opening'.plan = a.plan
        /\ opening'.used = a.used /\ opening'.next = a.next /\ opening'.end = a.end
    BY <2>2, <2>3
  <2>5. opening'.resident = ResidentBudget(opening.inputs.config)
    BY <2>4 DEF b
  <2> QED
    BY <1>1, <2>1, <2>4, <2>5, BudgetPass
<1> QED
  BY <1>4, <1>5, <1>6

\* The first token takes its pages.
LEMMA BudgetFirst == ASSUME BudgetInv, EvaluateFirst PROVE BudgetInv'
<1> DEFINE b == opening.resident + opening.inputs.cache
                    + KvTokenBytes(opening.inputs.config) * opening.inputs.page
<1>1. opening.kind = "open" /\ opening.end = "done" /\ opening' = [opening EXCEPT !.used = b]
  BY DEF EvaluateFirst
<1> HIDE DEF b
<1>2. /\ DOMAIN opening' = DOMAIN opening /\ opening'.used = b
      /\ opening'.inputs = opening.inputs /\ opening'.kind = opening.kind /\ opening'.plan = opening.plan
      /\ opening'.next = opening.next /\ opening'.end = opening.end /\ opening'.resident = opening.resident
  BY <1>1 DEF BudgetInv
<1>3. b = opening'.resident + opening'.inputs.cache
              + KvTokenBytes(opening'.inputs.config) * opening'.inputs.page
  BY <1>2 DEF b
<1> QED
  BY <1>1, <1>2, <1>3 DEF BudgetInv

\* Every step of an opening.
LEMMA BudgetNextInv == BudgetInv /\ [OpeningNext]_openingVars => BudgetInv'
<1> SUFFICES ASSUME BudgetInv, [OpeningNext]_openingVars PROVE BudgetInv'
  OBVIOUS
<1>1. CASE UNCHANGED openingVars
  BY <1>1 DEF BudgetInv, openingVars
<1>2. CASE Plan
  <2> DEFINE p == IF path.conforms /\ PlanPasses(opening.inputs) THEN "passes" ELSE "fails"
  <2>1. opening.kind = "none" /\ opening' = [opening EXCEPT !.plan = p]
    BY <1>2 DEF Plan, Idle_
  <2>2. p = "passes" => PlanPasses(opening.inputs)
    OBVIOUS
  <2> HIDE DEF p
  <2>3. /\ DOMAIN opening' = DOMAIN opening /\ opening'.plan = p
        /\ opening'.inputs = opening.inputs /\ opening'.kind = opening.kind /\ opening'.used = opening.used
        /\ opening'.next = opening.next /\ opening'.end = opening.end /\ opening'.resident = opening.resident
    BY <2>1 DEF BudgetInv
  <2> QED
    BY <2>1, <2>2, <2>3 DEF BudgetInv
<1>3. ASSUME NEW kind \in {"open", "payload"}, Parse(kind) PROVE BudgetInv'
  <2>1. opening.kind = "none" /\ opening.end = "none" /\ opening.used = 0
    BY <1>3 DEF Parse, Idle_, BudgetInv
  <2> DEFINE r == [opening EXCEPT !.kind = kind]
             q == [r EXCEPT !.next = 1]
  <2>2. opening' = [q EXCEPT !.parsed = path]
    BY <1>3 DEF Parse
  <2>3. /\ DOMAIN r = DOMAIN opening /\ r.kind = kind
        /\ r.inputs = opening.inputs /\ r.plan = opening.plan /\ r.used = opening.used
        /\ r.end = opening.end /\ r.resident = opening.resident
    BY DEF BudgetInv
  <2> HIDE DEF r
  <2>4. /\ DOMAIN q = DOMAIN opening /\ q.kind = kind /\ q.next = 1
        /\ q.inputs = opening.inputs /\ q.plan = opening.plan /\ q.used = opening.used
        /\ q.end = opening.end /\ q.resident = opening.resident
    BY <2>3 DEF BudgetInv
  <2> HIDE DEF q
  <2>5. /\ DOMAIN opening' = DOMAIN opening /\ opening'.kind = kind /\ opening'.next = 1
        /\ opening'.inputs = opening.inputs /\ opening'.plan = opening.plan /\ opening'.used = opening.used
        /\ opening'.end = opening.end /\ opening'.resident = opening.resident
    BY <2>2, <2>4 DEF BudgetInv
  <2> QED
    BY <2>1, <2>5 DEF BudgetInv
<1>4. ASSUME NEW f \in ModelFiles, ReplaceModel(f) PROVE BudgetInv'
  <2>1. /\ DOMAIN opening' = DOMAIN opening
        /\ opening'.inputs = opening.inputs /\ opening'.kind = opening.kind /\ opening'.plan = opening.plan
        /\ opening'.used = opening.used /\ opening'.next = opening.next /\ opening'.end = opening.end
        /\ opening'.resident = opening.resident
    BY <1>4 DEF ReplaceModel, BudgetInv
  <2> QED
    BY <2>1 DEF BudgetInv
<1> QED
  BY <1>1, <1>2, <1>3, <1>4, BudgetCheck, BudgetFiles, BudgetTensors, BudgetFirst DEF OpeningNext

\* What the invariant says of the budget.
LEMMA BudgetSays == BudgetInv => BudgetsAgree
<1> SUFFICES ASSUME BudgetInv PROVE BudgetsAgree
  OBVIOUS
<1>1. LoadsWhatIsBudgeted
  <2>1. SUFFICES ASSUME opening.kind = "open", opening.end = "done"
                 PROVE  opening.resident = ResidentBudget(opening.inputs.config)
    BY DEF LoadsWhatIsBudgeted, Done, BudgetInv
  <2>2. opening.next = 11
    BY <2>1 DEF BudgetInv, Checks
  <2> QED
    BY <2>1, <2>2 DEF BudgetInv
<1>2. PlanConservative
  BY PlanCovers DEF BudgetInv, PlanConservative
<1>3. PreflightCovers
  <2> SUFFICES ASSUME opening.inputs.page <= opening.inputs.context, opening.used > 0,
                      opening.inputs.memory > 0
               PROVE  opening.used + opening.inputs.headroom <= opening.inputs.memory
    BY DEF PreflightCovers, FitsMemory
  <2> DEFINE i == opening.inputs
  <2>1. i \in OpeningCases
    BY DEF BudgetInv
  <2>2. opening.used # 0
    OBVIOUS
  <2>3. opening.kind = "open" /\ opening.end = "done"
        /\ opening.used = opening.resident + i.cache + KvTokenBytes(i.config) * i.page
    BY <2>2 DEF BudgetInv
  <2>4. opening.next = 11
    BY <2>3 DEF BudgetInv, Checks
  <2>5. MemorySuffices(i, Required(i)) /\ opening.resident = ResidentBudget(i.config)
    BY <2>3, <2>4 DEF BudgetInv
  <2> HIDE DEF i
  <2>6. ResidentBudget(i.config) + i.cache + KvTokenBytes(i.config) * i.page + i.headroom <= i.memory
    BY <2>1, <2>5, PreflightCounts DEF i
  <2> QED
    BY <2>3, <2>5, <2>6 DEF i
<1> QED
  BY <1>1, <1>2, <1>3 DEF BudgetsAgree

\* plan, the preflight of open_selected, load_validated and the first token agree
\* about the memory of a model: what is loaded is what was counted, a plan that
\* passes is not refused, and with pages within the context all of it fits.
THEOREM BudgetsSound == OpeningSpec => []BudgetsAgree
<1>1. OpeningInit => BudgetInv
  BY DEF OpeningInit, BudgetInv
<1> QED
  BY <1>1, BudgetNextInv, BudgetSays, PTL DEF OpeningSpec

-----------------------------------------------------------------------------
(* Sampler: the candidates in order. *)

\* There are tokens, each with a number for a logit.
HasLogits(logit) == Vocabulary \in Nat /\ Vocabulary > 0 /\ logit \in [Tokens -> Logits]

\* An order of all tokens, each before those it beats.
Ranked(order, logit) ==
    /\ order \in [1..Vocabulary -> Tokens]
    /\ \A i, j \in 1..Vocabulary : i < j => Beats(logit, order[i], order[j])

\* The first k of a list, as a set.
FirstOf(s, k) == {s[j] : j \in 1..k}

\* Beating is a total order.
LEMMA BeatsOrders ==
    ASSUME NEW logit, HasLogits(logit)
    PROVE  /\ \A a \in Tokens : a \in Int /\ logit[a] \in Int /\ ~Beats(logit, a, a)
           /\ \A a, b \in Tokens : a = b \/ Beats(logit, a, b) \/ Beats(logit, b, a)
           /\ \A a, b \in Tokens : ~(Beats(logit, a, b) /\ Beats(logit, b, a))
           /\ \A a, b, d \in Tokens : Beats(logit, a, b) /\ Beats(logit, b, d) => Beats(logit, a, d)
<1>1. \A a \in Tokens : a \in Int /\ logit[a] \in Int
  <2>1. \A x \in Logits : x \in Int
    BY DEF Logits, NegInf, PosInf
  <2>2. \A a \in Tokens : logit[a] \in Logits
    BY DEF HasLogits
  <2>3. \A a \in Tokens : a \in Int
    BY DEF HasLogits, Tokens
  <2> QED
    BY <2>1, <2>2, <2>3
<1>2. \A a \in Tokens : ~Beats(logit, a, a)
  BY <1>1 DEF Beats
<1>3. ASSUME NEW a \in Tokens, NEW b \in Tokens
      PROVE  /\ a = b \/ Beats(logit, a, b) \/ Beats(logit, b, a)
             /\ ~(Beats(logit, a, b) /\ Beats(logit, b, a))
  BY <1>1 DEF Beats
<1>4. ASSUME NEW a \in Tokens, NEW b \in Tokens, NEW d \in Tokens,
             Beats(logit, a, b), Beats(logit, b, d)
      PROVE  Beats(logit, a, d)
  <2>1. logit[a] \in Int /\ logit[b] \in Int /\ logit[d] \in Int /\ a \in Int /\ b \in Int /\ d \in Int
    BY <1>1
  <2> QED
    BY <1>4, <2>1 DEF Beats
<1> QED
  BY <1>1, <1>2, <1>3, <1>4

\* There are as many tokens as the vocabulary has.
LEMMA TokensCount ==
    ASSUME Vocabulary \in Nat
    PROVE  IsFiniteSet(Tokens) /\ Cardinality(Tokens) = Vocabulary
<1>1. 0 \in Int /\ Vocabulary - 1 \in Int
  OBVIOUS
<1>2. /\ IsFiniteSet(0..(Vocabulary - 1))
      /\ Cardinality(0..(Vocabulary - 1)) = IF 0 > Vocabulary - 1 THEN 0 ELSE (Vocabulary - 1) - 0 + 1
  BY <1>1, FS_Interval
<1> QED
  BY <1>2 DEF Tokens

\* How many beat a token says where it stands.
LEMMA BetterCounts ==
    ASSUME NEW logit, HasLogits(logit)
    PROVE  /\ \A t \in Tokens : /\ IsFiniteSet(Better(logit, t)) /\ Cardinality(Better(logit, t)) \in Nat
                                /\ Cardinality(Better(logit, t)) < Vocabulary
           /\ \A a, b \in Tokens : Beats(logit, a, b) =>
                 Cardinality(Better(logit, a)) < Cardinality(Better(logit, b))
<1>1. IsFiniteSet(Tokens) /\ Cardinality(Tokens) = Vocabulary /\ Vocabulary \in Nat
  BY TokensCount DEF HasLogits
<1>2. ASSUME NEW t \in Tokens
      PROVE  /\ IsFiniteSet(Better(logit, t)) /\ Cardinality(Better(logit, t)) \in Nat
             /\ Cardinality(Better(logit, t)) < Vocabulary
  <2>1. Better(logit, t) \in SUBSET Tokens /\ t \notin Better(logit, t)
    BY BeatsOrders DEF Better
  <2>2. IsFiniteSet(Better(logit, t)) /\ Cardinality(Better(logit, t)) \in Nat
    BY <1>1, <2>1, FS_Subset, FS_CardinalityType
  <2>3. Cardinality(Better(logit, t)) <= Vocabulary /\ Cardinality(Better(logit, t)) # Vocabulary
    <3>1. Better(logit, t) # Tokens
      BY <2>1
    <3> QED
      BY <1>1, <2>1, <3>1, FS_Subset
  <2> QED
    BY <1>1, <2>2, <2>3
<1>3. ASSUME NEW a \in Tokens, NEW b \in Tokens, Beats(logit, a, b)
      PROVE  Cardinality(Better(logit, a)) < Cardinality(Better(logit, b))
  <2> DEFINE A == Better(logit, a)
             B == Better(logit, b)
  <2>1. A \in SUBSET B /\ a \in B /\ a \notin A
    BY <1>3, BeatsOrders DEF Better
  <2>2. IsFiniteSet(A) /\ IsFiniteSet(B) /\ Cardinality(A) \in Nat /\ Cardinality(B) \in Nat
    BY <1>2
  <2> HIDE DEF A, B
  <2>3. Cardinality(A) <= Cardinality(B) /\ (Cardinality(B) = Cardinality(A) => B = A)
    BY <2>1, <2>2, FS_Subset
  <2>4. Cardinality(A) < Cardinality(B)
    BY <2>1, <2>2, <2>3
  <2> QED
    BY <2>4 DEF A, B
<1> QED
  BY <1>2, <1>3

\* The candidates can be sorted, whatever their logits.
LEMMA SortedRanks ==
    ASSUME NEW logit, HasLogits(logit)
    PROVE  Ranked(Sorted(logit), logit)
<1> DEFINE rank == [t \in Tokens |-> Cardinality(Better(logit, t))]
<1>1. Vocabulary \in Nat /\ Vocabulary > 0 /\ IsFiniteSet(Tokens) /\ Cardinality(Tokens) = Vocabulary
  BY TokensCount DEF HasLogits
<1>2. rank \in Injection(Tokens, Tokens)
  <2>1. \A t \in Tokens : rank[t] \in Tokens
    BY <1>1, BetterCounts DEF Tokens
  <2>2. \A a, b \in Tokens : Beats(logit, a, b) => rank[a] < rank[b]
    BY BetterCounts
  <2>3. rank \in [Tokens -> Tokens]
    BY <2>1
  <2> HIDE DEF rank
  <2>4. \A a, b \in Tokens : rank[a] = rank[b] => a = b
    <3>1. \A a \in Tokens : rank[a] \in Int
      BY <1>1, <2>1 DEF Tokens
    <3> QED
      BY <2>2, <3>1, BeatsOrders
  <2> QED
    BY <2>3, <2>4 DEF Injection, IsInjective
<1>3. rank \in Surjection(Tokens, Tokens)
  BY <1>1, <1>2, FS_Injection
<1>4. \A a, b \in Tokens : rank[a] < rank[b] => Beats(logit, a, b)
  <2>1. \A a, b \in Tokens : Beats(logit, a, b) => rank[a] < rank[b]
    BY BetterCounts
  <2>2. \A a \in Tokens : rank[a] \in Int
    BY BetterCounts
  <2> HIDE DEF rank
  <2> QED
    BY <2>1, <2>2, BeatsOrders
<1> HIDE DEF rank
<1> DEFINE order == [i \in 1..Vocabulary |-> CHOOSE t \in Tokens : rank[t] = i - 1]
<1>5. ASSUME NEW i \in 1..Vocabulary PROVE order[i] \in Tokens /\ rank[order[i]] = i - 1
  <2>1. i - 1 \in Tokens
    BY <1>1 DEF Tokens
  <2>2. \E t \in Tokens : rank[t] = i - 1
    BY <1>3, <2>1 DEF Surjection
  <2> QED
    BY <2>2
<1>6. order \in [1..Vocabulary -> Tokens]
  BY <1>5
<1> HIDE DEF order
<1>7. Ranked(order, logit)
  <2>1. ASSUME NEW i \in 1..Vocabulary, NEW j \in 1..Vocabulary, i < j
        PROVE  Beats(logit, order[i], order[j])
    <3>1. rank[order[i]] < rank[order[j]]
      BY <1>5, <2>1
    <3> QED
      BY <1>4, <1>5, <3>1
  <2> QED
    BY <1>6, <2>1 DEF Ranked
<1>8. \E o \in [1..Vocabulary -> Tokens] :
          \A i, j \in 1..Vocabulary : i < j => Beats(logit, o[i], o[j])
  BY <1>6, <1>7 DEF Ranked
<1> QED
  BY <1>8, Zenon DEF Sorted, Ranked

\* In such an order every token has one place, behind those that beat it.
LEMMA RankedPlaces ==
    ASSUME NEW logit, HasLogits(logit), NEW s, Ranked(s, logit)
    PROVE  /\ \A i, j \in 1..Vocabulary : s[i] = s[j] => i = j
           /\ \A t \in Tokens : \E i \in 1..Vocabulary : t = s[i]
           /\ \A i \in 1..Vocabulary :
                 /\ s[i] \in Tokens
                 /\ Better(logit, s[i]) = FirstOf(s, i - 1)
                 /\ Cardinality(Better(logit, s[i])) = i - 1
           /\ \A i, j \in 1..Vocabulary : i <= j => logit[s[j]] <= logit[s[i]]
<1>1. s \in [1..Vocabulary -> Tokens] /\ Vocabulary \in Nat
  BY DEF Ranked, HasLogits
<1>2. \A i, j \in 1..Vocabulary : i < j => Beats(logit, s[i], s[j])
  BY DEF Ranked
<1>3. ASSUME NEW i \in 1..Vocabulary, NEW j \in 1..Vocabulary, s[i] = s[j] PROVE i = j
  <2>1. ~(i < j) /\ ~(j < i)
    BY <1>1, <1>2, <1>3, BeatsOrders
  <2> QED
    BY <2>1
<1>4. ASSUME NEW t \in Tokens PROVE \E i \in 1..Vocabulary : t = s[i]
  <2>1. s \in Injection(1..Vocabulary, Tokens)
    BY <1>1, <1>3 DEF Injection, IsInjective
  <2>2. Cardinality(1..Vocabulary) = Vocabulary
    <3>1. Cardinality(1..Vocabulary) = IF 1 > Vocabulary THEN 0 ELSE Vocabulary - 1 + 1
      BY <1>1, FS_Interval
    <3> QED
      BY <1>1, <3>1
  <2>3. s \in Surjection(1..Vocabulary, Tokens)
    BY <1>1, <2>1, <2>2, TokensCount, FS_Injection
  <2> QED
    BY <2>3 DEF Surjection
<1>5. ASSUME NEW i \in 1..Vocabulary
      PROVE  /\ Better(logit, s[i]) = FirstOf(s, i - 1)
             /\ Cardinality(Better(logit, s[i])) = i - 1
  <2>1. \A j \in 1..(i - 1) : j \in 1..Vocabulary /\ j < i
    BY <1>1
  <2>2. ASSUME NEW a \in Better(logit, s[i]) PROVE a \in {s[j] : j \in 1..(i - 1)}
    <3>1. a \in Tokens /\ Beats(logit, a, s[i])
      BY DEF Better
    <3>2. PICK j \in 1..Vocabulary : a = s[j]
      BY <1>4, <3>1
    <3>3. j < i
      <4>1. ~(i < j) /\ i # j
        BY <1>1, <1>2, <3>1, <3>2, BeatsOrders
      <4> QED
        BY <4>1
    <3>4. j \in 1..(i - 1)
      BY <3>3
    <3> QED
      BY <3>2, <3>4
  <2>3. ASSUME NEW j \in 1..(i - 1) PROVE s[j] \in Better(logit, s[i])
    BY <1>1, <1>2, <2>1 DEF Better
  <2>4. Better(logit, s[i]) = {s[j] : j \in 1..(i - 1)}
    BY <2>2, <2>3
  <2> DEFINE f == [j \in 1..(i - 1) |-> s[j]]
  <2>5. f \in Bijection(1..(i - 1), Better(logit, s[i]))
    <3>1. f \in [1..(i - 1) -> Better(logit, s[i])]
      BY <2>3
    <3>2. \A j, k \in 1..(i - 1) : f[j] = f[k] => j = k
      BY <1>3, <2>1
    <3>3. \A a \in Better(logit, s[i]) : \E j \in 1..(i - 1) : f[j] = a
      BY <2>2
    <3> HIDE DEF f
    <3> QED
      BY <3>1, <3>2, <3>3 DEF Bijection, Injection, Surjection, IsInjective
  <2>6. IsFiniteSet(1..(i - 1)) /\ Cardinality(1..(i - 1)) = i - 1
    <3>1. 1 \in Int /\ i - 1 \in Int /\ i >= 1
      BY <1>1
    <3>2. /\ IsFiniteSet(1..(i - 1))
          /\ Cardinality(1..(i - 1)) = IF 1 > i - 1 THEN 0 ELSE (i - 1) - 1 + 1
      BY <3>1, FS_Interval
    <3> QED
      BY <3>1, <3>2
  <2>7. ExistsBijection(1..(i - 1), Better(logit, s[i]))
    BY <2>5 DEF ExistsBijection
  <2>8. Cardinality(Better(logit, s[i])) = i - 1
    BY <2>6, <2>7, FS_Bijection
  <2> QED
    BY <2>4, <2>8 DEF FirstOf
<1>6. ASSUME NEW i \in 1..Vocabulary, NEW j \in 1..Vocabulary, i <= j PROVE logit[s[j]] <= logit[s[i]]
  <2>1. logit[s[i]] \in Int /\ logit[s[j]] \in Int
    BY <1>1, BeatsOrders
  <2>2. CASE i = j
    BY <2>1, <2>2
  <2>3. CASE i < j
    BY <1>2, <2>1, <2>3 DEF Beats
  <2> QED
    BY <1>6, <2>2, <2>3
<1> QED
  BY <1>1, <1>3, <1>4, <1>5, <1>6

\* The best logit is the first one's.
LEMMA HighestFirst ==
    ASSUME NEW logit, HasLogits(logit), NEW s, Ranked(s, logit)
    PROVE  1 \in 1..Vocabulary /\ Highest(logit) = logit[s[1]]
<1> DEFINE S == {logit[t] : t \in Tokens}
<1>1. 1 \in 1..Vocabulary /\ \A i \in 1..Vocabulary : 1 <= i /\ i \in Int
  BY DEF HasLogits
<1>2. logit[s[1]] \in S
  BY <1>1, RankedPlaces
<1>3. \A x \in S : x \in Int /\ logit[s[1]] >= x
  <2>1. ASSUME NEW t \in Tokens PROVE logit[t] \in Int /\ logit[s[1]] >= logit[t]
    <3>1. PICK i \in 1..Vocabulary : t = s[i]
      BY RankedPlaces
    <3>2. logit[t] \in Int /\ logit[s[1]] \in Int
      BY <1>1, RankedPlaces, BeatsOrders
    <3>3. logit[s[i]] <= logit[s[1]]
      BY <1>1, RankedPlaces
    <3> QED
      BY <3>1, <3>2, <3>3
  <2> QED
    BY <2>1
<1> HIDE DEF S
<1>4. \A x \in S : (\A y \in S : x >= y) => x = logit[s[1]]
  BY <1>2, <1>3
<1>5. Max(S) = logit[s[1]]
  BY <1>2, <1>3, <1>4 DEF Max
<1> QED
  BY <1>1, <1>5 DEF Highest, S

-----------------------------------------------------------------------------
(* Sampler: the candidates that are left. *)

\* The beginning of a list, as a function.
LEMMA FirstOnes ==
    ASSUME NEW S, NEW n \in Nat, NEW s \in [1..n -> S], NEW m \in 0..n
    PROVE  Len(s) = n /\ SubSeq(s, 1, m) = [i \in 1..m |-> s[i]] /\ Len(SubSeq(s, 1, m)) = m
<1>1. s \in Seq(S) /\ Len(s) = n
  OBVIOUS
<1> DEFINE u == SubSeq(s, 1, m)
<1>2. \A p \in 1..m : s[p] \in S
  OBVIOUS
<1>3. /\ u \in Seq(S)
      /\ Len(u) = IF 1 <= m THEN m - 1 + 1 ELSE 0
      /\ \A j \in 1..(m - 1 + 1) : u[j] = s[1 + j - 1]
  BY <1>2, SubSeqProperties
<1>4. Len(u) = m /\ \A j \in 1..m : u[j] = s[j]
  <2>1. m - 1 + 1 = m /\ (m = 0 <=> ~(1 <= m)) /\ \A j \in 1..m : 1 + j - 1 = j
    OBVIOUS
  <2> HIDE DEF u
  <2> QED
    BY <1>3, <2>1
<1>5. u = [i \in 1..Len(u) |-> u[i]]
  <2> HIDE DEF u
  <2> QED
    BY <1>3
<1> HIDE DEF u
<1>6. u = [i \in 1..m |-> s[i]]
  BY <1>4, <1>5
<1> QED
  BY <1>1, <1>4, <1>6 DEF u

\* A set of naturals that has whatever is below its members is an interval.
LEMMA Downward ==
    ASSUME NEW b \in Nat, NEW S \in SUBSET (1..b), \A j \in S : \A i \in 1..j : i \in S
    PROVE  Cardinality(S) \in 0..b /\ S = 1..Cardinality(S)
<1>1. \E m \in 0..b : S = 1..m
  <2>1. CASE S = {}
    <3>1. S = 1..0
      BY <2>1
    <3> QED
      BY <3>1
  <2>2. CASE S # {}
    <3>1. S \in SUBSET Nat /\ \A n \in S : n <= b
      OBVIOUS
    <3>2. Max(S) \in S /\ \A n \in S : n <= Max(S)
      BY <2>2, <3>1, GreatestNatural
    <3> DEFINE m == Max(S)
    <3> HIDE DEF m
    <3>3. m \in S /\ \A n \in S : n <= m
      BY <3>2 DEF m
    <3>4. m \in 1..b
      BY <3>3
    <3>5. \A i \in 1..m : i \in S
      BY <3>3
    <3>6. \A n \in S : n \in 1..m
      BY <3>3, <3>4
    <3>7. S = 1..m
      BY <3>5, <3>6, Zenon
    <3>8. m \in 0..b
      BY <3>4
    <3> QED
      BY <3>7, <3>8
  <2> QED
    BY <2>1, <2>2
<1>2. PICK m \in 0..b : S = 1..m
  BY <1>1
<1>3. Cardinality(1..m) = IF 1 > m THEN 0 ELSE m - 1 + 1
  BY FS_Interval
<1>4. Cardinality(S) = m
  BY <1>2, <1>3
<1> QED
  BY <1>2, <1>4

\* How many candidates top_k leaves.
LEMMA TopKIs ==
    ASSUME NEW c, c.topK \in Nat, NEW n \in Nat, n > 0
    PROVE  TopK(c, n) \in 1..n /\ \A i \in 1..n : i <= TopK(c, n) <=> c.topK = 0 \/ i - 1 < c.topK
<1>1. CASE c.topK = 0
  BY <1>1 DEF TopK
<1>2. CASE c.topK # 0
  <2> DEFINE S == {c.topK, n}
             m == Min(S)
  <2>1. S \in SUBSET Nat /\ S # {}
    OBVIOUS
  <2>2. m \in S /\ \A x \in S : m <= x
    BY <2>1, LeastNatural
  <2>3. (m = c.topK \/ m = n) /\ m <= c.topK /\ m <= n
    BY <2>2
  <2>4. TopK(c, n) = m
    BY <1>2 DEF TopK
  <2> HIDE DEF m
  <2>5. m \in 1..n /\ \A i \in 1..n : i <= m <=> i - 1 < c.topK
    BY <1>2, <2>3
  <2> QED
    BY <1>2, <2>4, <2>5
<1> QED
  BY <1>1, <1>2

\* Weights are given to the likely tokens, or to the infinite ones among them.
Weighed(c, logit, s, m) ==
    \A i \in 1..Vocabulary :
        i <= m <=> s[i] \in Likely(c, logit) /\ (logit[s[1]] = PosInf => logit[s[i]] = PosInf)

\* The list that is left is a beginning of the sorted one.
LEMMA CandidatesAre ==
    ASSUME NEW c, c.topK \in Nat, NEW logit, HasLogits(logit), NEW s, s = Sorted(logit)
    PROVE  \E m \in 1..Vocabulary :
               Candidates(c, logit) = [i \in 1..m |-> s[i]] /\ Len(Candidates(c, logit)) = m
                  /\ Weighed(c, logit, s, m)
<1>1. Ranked(s, logit)
  BY SortedRanks
<1>2. s \in [1..Vocabulary -> Tokens] /\ Vocabulary \in Nat /\ Vocabulary > 0
  BY <1>1 DEF Ranked, HasLogits
<1>3. Len(s) = Vocabulary
  <2>1. 0 \in 0..Vocabulary
    BY <1>2
  <2> QED
    BY <1>2, <2>1, FirstOnes
<1> DEFINE k == TopK(c, Vocabulary)
           kept == SubSeq(s, 1, k)
           I == {i \in DOMAIN kept : logit[kept[i]] = PosInf}
           m == Cardinality(I)
<1>4. Candidates(c, logit) = IF m > 0 THEN SubSeq(kept, 1, m) ELSE kept
  BY <1>3 DEF Candidates
<1>5. k \in 1..Vocabulary /\ \A i \in 1..Vocabulary : i <= k <=> s[i] \in Likely(c, logit)
  <2>1. k \in 1..Vocabulary /\ \A i \in 1..Vocabulary : i <= k <=> c.topK = 0 \/ i - 1 < c.topK
    BY <1>2, TopKIs
  <2>2. \A i \in 1..Vocabulary : s[i] \in Tokens /\ Cardinality(Better(logit, s[i])) = i - 1
    BY <1>1, RankedPlaces
  <2> HIDE DEF k
  <2> QED
    BY <2>1, <2>2 DEF Likely
<1> HIDE DEF k
<1>6. kept = [i \in 1..k |-> s[i]] /\ Len(kept) = k /\ DOMAIN kept = 1..k
  <2>1. k \in 0..Vocabulary
    BY <1>2, <1>5
  <2>2. kept = [i \in 1..k |-> s[i]] /\ Len(kept) = k
    BY <1>2, <2>1, FirstOnes
  <2> HIDE DEF kept
  <2> QED
    BY <2>2
<1> HIDE DEF kept
<1>7. I = {i \in 1..k : logit[s[i]] = PosInf}
  BY <1>6
<1>8. m \in 0..k /\ I = 1..m
  <2>1. k \in Nat /\ I \in SUBSET (1..k)
    BY <1>5, <1>7
  <2>2. ASSUME NEW j \in I, NEW i \in 1..j PROVE i \in I
    <3>1. j \in 1..k /\ logit[s[j]] = PosInf
      BY <1>7
    <3>2. i \in 1..k /\ i \in 1..Vocabulary /\ j \in 1..Vocabulary /\ i <= j
      BY <1>2, <1>5, <3>1
    <3>3. logit[s[j]] <= logit[s[i]]
      BY <1>1, <3>2, RankedPlaces
    <3>4. logit[s[i]] \in Logits
      BY <1>2, <3>2 DEF HasLogits
    <3>5. logit[s[i]] = PosInf
      <4> DEFINE x == logit[s[i]]
                 y == logit[s[j]]
      <4>1. x \in Logits /\ y <= x /\ y = PosInf
        BY <3>1, <3>3, <3>4
      <4> HIDE DEF x, y
      <4>2. x = PosInf
        BY <4>1 DEF Logits, NegInf, PosInf
      <4> QED
        BY <4>2 DEF x
    <3> QED
      BY <1>7, <3>2, <3>5
  <2> HIDE DEF I
  <2>3. \A j \in I : \A i \in 1..j : i \in I
    BY <2>2
  <2> QED
    BY <2>1, <2>3, Downward
<1> HIDE DEF I, m
<1>9. 1 \in 1..Vocabulary /\ 1 \in 1..k
  BY <1>2, <1>5
<1>10. logit[s[1]] = PosInf <=> m > 0
  BY <1>5, <1>7, <1>8, <1>9
<1>11. CASE m > 0
  <2>1. Candidates(c, logit) = SubSeq(kept, 1, m)
    BY <1>4, <1>11
  <2>2. kept \in [1..k -> Tokens] /\ k \in Nat
    <3>1. \A i \in 1..k : s[i] \in Tokens
      BY <1>2, <1>5
    <3> QED
      BY <1>5, <1>6, <3>1
  <2>3. SubSeq(kept, 1, m) = [i \in 1..m |-> kept[i]] /\ Len(SubSeq(kept, 1, m)) = m
    BY <1>8, <2>2, FirstOnes
  <2>4. \A i \in 1..m : kept[i] = s[i]
    BY <1>5, <1>6, <1>8
  <2>5. Candidates(c, logit) = [i \in 1..m |-> s[i]] /\ Len(Candidates(c, logit)) = m
    BY <2>1, <2>3, <2>4
  <2>6. m \in 1..Vocabulary
    BY <1>2, <1>5, <1>8, <1>11
  <2>7. Weighed(c, logit, s, m)
    <3>1. ASSUME NEW i \in 1..Vocabulary
          PROVE  i <= m <=> s[i] \in Likely(c, logit) /\ logit[s[i]] = PosInf
      <4>1. i <= m <=> i \in I
        BY <1>8
      <4>2. i \in I <=> i <= k /\ logit[s[i]] = PosInf
        BY <1>5, <1>7
      <4> QED
        BY <1>5, <4>1, <4>2
    <3> QED
      BY <1>10, <1>11, <3>1 DEF Weighed
  <2> QED
    BY <2>5, <2>6, <2>7
<1>12. CASE ~(m > 0)
  <2>1. Candidates(c, logit) = kept
    BY <1>4, <1>12
  <2>2. Weighed(c, logit, s, k)
    BY <1>5, <1>10, <1>12 DEF Weighed
  <2>3. Candidates(c, logit) = [i \in 1..k |-> s[i]] /\ Len(Candidates(c, logit)) = k
    BY <1>6, <2>1
  <2> QED
    BY <1>5, <2>2, <2>3
<1> QED
  BY <1>11, <1>12

-----------------------------------------------------------------------------
(* Sampler: weights. *)

\* Weights are natural numbers, and none but the best is sure to have one.
LEMMA ExpNatural ==
    ASSUME NEW d \in Nat
    PROVE  Exp(d) \in Nat /\ (d = 0 => Exp(d) > 0)
<1>1. CASE d > 4
  BY <1>1 DEF Exp
<1>2. CASE d <= 4
  <2>1. Exp(d) = 2^(4 - d)
    BY <1>2 DEF Exp
  <2>2. d = 0 \/ d = 1 \/ d = 2 \/ d = 3 \/ d = 4
    BY <1>2
  <2>3. d = 0 => Exp(d) = 2^4
    BY <2>1
  <2>4. d = 1 => Exp(d) = 2^3
    BY <2>1
  <2>5. d = 2 => Exp(d) = 2^2
    BY <2>1
  <2>6. d = 3 => Exp(d) = 2^1
    BY <2>1
  <2>7. d = 4 => Exp(d) = 2^0
    BY <2>1
  <2>8. 2^4 = 16 /\ 2^3 = 8 /\ 2^2 = 4 /\ 2^1 = 2 /\ 2^0 = 1
    OBVIOUS
  <2> QED
    BY <2>2, <2>3, <2>4, <2>5, <2>6, <2>7, <2>8
<1> QED
  BY <1>1, <1>2

\* A quotient of natural numbers is one.
LEMMA QuotientNatural ==
    ASSUME NEW a \in Nat, NEW b \in Nat, b > 0
    PROVE  a \div b \in Nat /\ (a = 0 => a \div b = 0)
<1> DEFINE q == a \div b
           r == a % b
<1>1. q \in Int /\ r \in 0..(b - 1) /\ a = b * q + r
  OBVIOUS
<1> HIDE DEF q, r
<1>2. q <= -1 => b * q <= -b
  BY <1>1
<1>3. q >= 1 => b * q >= b
  BY <1>1
<1>4. q \in Nat /\ (a = 0 => q = 0)
  BY <1>1, <1>2, <1>3
<1> QED
  BY <1>4 DEF q

\* What a token weighs beside the best.
LEMMA WeightsNatural ==
    ASSUME NEW c, c.temperature \in Nat, c.temperature > 0,
           NEW top \in Logits, NEW logit \in Logits, logit <= top
    PROVE  /\ WeightOf(logit, top, c) \in Nat
           /\ logit = top => WeightOf(logit, top, c) > 0
           /\ top = PosInf /\ logit # PosInf => WeightOf(logit, top, c) = 0
<1>1. CASE top = PosInf
  BY <1>1 DEF WeightOf
<1>2. CASE top # PosInf
  <2> DEFINE d == (top - logit) \div c.temperature
  <2>1. top - logit \in Nat
    BY DEF Logits, NegInf, PosInf
  <2>2. d \in Nat /\ (top = logit => d = 0)
    <3> DEFINE a == top - logit
    <3>1. a \in Nat /\ (top = logit => a = 0)
      BY <2>1 DEF Logits, NegInf, PosInf
    <3> HIDE DEF a
    <3>2. a \div c.temperature \in Nat /\ (a = 0 => a \div c.temperature = 0)
      BY <3>1, QuotientNatural
    <3> QED
      BY <3>1, <3>2 DEF a
  <2>3. WeightOf(logit, top, c) = Exp(d)
    BY <1>2 DEF WeightOf
  <2> HIDE DEF d
  <2>4. Exp(d) \in Nat /\ (d = 0 => Exp(d) > 0)
    BY <2>2, ExpNatural
  <2> QED
    BY <1>2, <2>2, <2>3, <2>4
<1> QED
  BY <1>1, <1>2

-----------------------------------------------------------------------------
(* Sampler: running masses. *)

\* What the candidates weigh, in their order; nothing beyond the first m.
Weights(c, logit, s, m) ==
    [i \in 1..Vocabulary |-> IF i <= m THEN WeightOf(logit[s[i]], logit[s[1]], c) ELSE 0]

\* Any function of the form gives the totals.
LEMMA SumIs ==
    ASSUME NEW f, NEW n \in Nat, NEW s, IsSum(s, f, n), NEW k \in 0..n
    PROVE  s[k] = SumOf(f, k)
<1> DEFINE u == CHOOSE t : IsSum(t, f, k)
<1>1. k \in Nat /\ k <= n
  OBVIOUS
<1>2. SumOf(f, k) = u[k]
  BY DEF SumOf, IsSum
<1>3. IsSum(u, f, k)
  BY <1>1, SumExists
<1> HIDE DEF u
<1>4. s[k] = u[k]
  BY <1>1, <1>3, SumsAgree
<1> QED
  BY <1>2, <1>4

\* Totals of naturals never fall, and rise where the next one counts.
LEMMA SumRises ==
    ASSUME NEW f, NEW n \in Nat, \A i \in 1..n : f[i] \in Nat
    PROVE  /\ \A k \in 0..n : SumOf(f, k) \in Nat
           /\ \A i, k \in 0..n : i <= k => SumOf(f, i) <= SumOf(f, k)
           /\ \A i \in 1..n : SumOf(f, i) = SumOf(f, i - 1) + f[i]
<1>1. \A k \in 0..n : SumOf(f, k) \in Nat
  BY SumGrows
<1>2. ASSUME NEW k \in 0..n, NEW i \in 0..n, i <= k PROVE SumOf(f, i) <= SumOf(f, k)
  <2>1. k \in Nat /\ i \in 0..k /\ \A j \in 1..k : j \in 1..n
    BY <1>2
  <2>2. \A j \in 1..k : f[j] \in Nat
    BY <2>1
  <2> QED
    BY <2>1, <2>2, SumGrows
<1>3. ASSUME NEW i \in 1..n PROVE SumOf(f, i) = SumOf(f, i - 1) + f[i]
  <2> DEFINE k == i - 1
  <2>1. k \in Nat /\ k + 1 = i
    OBVIOUS
  <2> HIDE DEF k
  <2>2. SumOf(f, k + 1) = SumOf(f, k) + f[k + 1]
    BY <2>1, SumSteps
  <2>3. SumOf(f, i) = SumOf(f, k) + f[i]
    BY <2>1, <2>2
  <2> QED
    BY <2>3 DEF k
<1> QED
  BY <1>1, <1>2, <1>3

\* Nothing is added by what weighs nothing.
LEMMA SumRests ==
    ASSUME NEW f, NEW n \in Nat, NEW m \in 0..n, \A i \in 1..n : f[i] \in Nat,
           \A i \in 1..n : i > m => f[i] = 0
    PROVE  SumOf(f, n) = SumOf(f, m)
<1> DEFINE S == {k \in Nat : k + m <= n => SumOf(f, k + m) = SumOf(f, m)}
<1>1. 0 \in S
  <2>1. 0 + m = m
    OBVIOUS
  <2> QED
    BY <2>1
<1>2. ASSUME NEW k \in S PROVE k + 1 \in S
  <2>1. SUFFICES ASSUME (k + 1) + m <= n PROVE SumOf(f, (k + 1) + m) = SumOf(f, m)
    OBVIOUS
  <2> DEFINE i == (k + 1) + m
  <2>2. k \in Nat /\ m \in Nat /\ i \in 1..n /\ i > m /\ i - 1 = k + m /\ k + m <= n
    BY <2>1
  <2>3. SumOf(f, k + m) = SumOf(f, m)
    BY <2>2
  <2> HIDE DEF i, S
  <2>4. SumOf(f, i) = SumOf(f, i - 1) + f[i] /\ f[i] = 0 /\ i - 1 \in 0..n
    BY <2>2, SumRises
  <2>5. SumOf(f, i) = SumOf(f, i - 1)
    <3>1. SumOf(f, i - 1) \in Nat
      BY <2>4, SumRises
    <3> QED
      BY <2>4, <3>1
  <2>6. SumOf(f, i) = SumOf(f, m)
    BY <2>2, <2>3, <2>5
  <2> QED
    BY <2>6 DEF i
<1>3. S \in SUBSET Nat
  OBVIOUS
<1> HIDE DEF S
<1> DEFINE d == n - m
<1>4. d \in Nat /\ d + m = n
  OBVIOUS
<1> HIDE DEF d
<1>5. d \in S
  BY <1>1, <1>2, <1>3, <1>4, EveryNatural
<1>6. d + m <= n => SumOf(f, d + m) = SumOf(f, m)
  BY <1>5 DEF S
<1> QED
  BY <1>4, <1>6

\* The code's running masses are those totals.
LEMMA MassIs ==
    ASSUME NEW c, NEW logit, NEW s, NEW m \in 1..Vocabulary, Vocabulary \in Nat,
           NEW order, order = [i \in 1..m |-> s[i]], Len(order) = m
    PROVE  \A k \in 0..m : Mass(order, logit, c)[k] = SumOf(Weights(c, logit, s, m), k)
<1> DEFINE f == Weights(c, logit, s, m)
           P(t) == t = [i \in 0..m |-> IF i = 0 THEN 0
                                       ELSE t[i - 1] + WeightOf(logit[order[i]], logit[order[1]], c)]
           it == CHOOSE t : P(t)
<1>1. Mass(order, logit, c) = it
  BY DEF Mass
<1>2. m \in Nat /\ 1 \in 1..m
  OBVIOUS
<1>3. ASSUME NEW i \in 1..m PROVE f[i] = WeightOf(logit[order[i]], logit[order[1]], c)
  <2>1. i \in 1..Vocabulary /\ i <= m /\ order[i] = s[i] /\ order[1] = s[1]
    BY <1>2
  <2> QED
    BY <2>1 DEF Weights
<1>4. ASSUME NEW t PROVE P(t) <=> IsSum(t, f, m)
  <2>1. ASSUME NEW i \in 0..m
        PROVE  (IF i = 0 THEN 0 ELSE t[i - 1] + f[i])
                 = IF i = 0 THEN 0 ELSE t[i - 1] + WeightOf(logit[order[i]], logit[order[1]], c)
    <3>1. CASE i = 0
      BY <3>1
    <3>2. CASE i # 0
      <4>1. i \in 1..m
        BY <3>2
      <4> QED
        BY <1>3, <4>1
    <3> QED
      BY <3>1, <3>2
  <2> HIDE DEF f
  <2>2. [i \in 0..m |-> IF i = 0 THEN 0 ELSE t[i - 1] + f[i]]
          = [i \in 0..m |-> IF i = 0 THEN 0
                            ELSE t[i - 1] + WeightOf(logit[order[i]], logit[order[1]], c)]
    BY <2>1
  <2> QED
    BY <2>2 DEF IsSum
<1>5. \E t : P(t)
  <2>1. PICK t : IsSum(t, f, m)
    BY <1>2, SumExists
  <2>2. P(t)
    BY <1>4, <2>1
  <2> HIDE DEF P
  <2> QED
    BY <2>2
<1> HIDE DEF P
<1>6. P(it)
  BY <1>5
<1>7. IsSum(it, f, m)
  BY <1>4, <1>6
<1> HIDE DEF it, f
<1>8. \A k \in 0..m : it[k] = SumOf(f, k)
  BY <1>2, <1>7, SumIs
<1> QED
  BY <1>1, <1>8 DEF f

\* apply_top_p keeps those before whom less than top_p of the mass lies.
LEMMA NucleusIs ==
    ASSUME NEW c, c.topP \in 1..10, NEW m \in Nat, m > 0, NEW f, \A i \in 1..m : f[i] \in Nat,
           NEW mass, \A k \in 0..m : mass[k] = SumOf(f, k)
    PROVE  /\ Nucleus(mass, m, c) \in 1..m
           /\ \A i \in 1..m : f[i] > 0 =>
                 (i <= Nucleus(mass, m, c) <=> SumOf(f, i - 1) * 10 < SumOf(f, m) * c.topP)
<1> DEFINE p == SumOf(f, m) * c.topP
           n == Nucleus(mass, m, c)
<1>1. /\ \A k \in 0..m : SumOf(f, k) \in Nat
      /\ \A i, k \in 0..m : i <= k => SumOf(f, i) <= SumOf(f, k)
      /\ \A i \in 1..m : SumOf(f, i) = SumOf(f, i - 1) + f[i]
  BY SumRises
<1>2. m \in 0..m /\ SumOf(f, m) \in Nat
  BY <1>1
<1>3. p \in Nat /\ p <= SumOf(f, m) * 10 /\ p >= SumOf(f, m) /\ (c.topP = 10 => p = SumOf(f, m) * 10)
  <2> DEFINE x == SumOf(f, m)
             y == c.topP
  <2>1. x \in Nat /\ y \in 1..10
    BY <1>2
  <2> HIDE DEF x, y
  <2>2. x * y \in Nat /\ x * y <= x * 10 /\ x * y >= x
    <3>1. y \in {1, 2, 3, 4, 5, 6, 7, 8, 9, 10}
      BY <2>1
    <3> QED
      BY <2>1, <3>1
  <2>3. y = 10 => x * y = x * 10
    OBVIOUS
  <2> QED
    BY <2>2, <2>3 DEF x, y
<1> HIDE DEF p
<1>4. ASSUME NEW i \in 1..m, f[i] > 0
      PROVE  /\ i \in 0..m /\ i - 1 \in 0..m /\ SumOf(f, i - 1) \in Nat /\ SumOf(f, i) \in Nat
             /\ SumOf(f, i - 1) < SumOf(f, i) /\ SumOf(f, i) <= SumOf(f, m)
  <2>1. i \in 0..m /\ i - 1 \in 0..m /\ i <= m /\ f[i] \in Nat
    OBVIOUS
  <2>2. SumOf(f, i - 1) \in Nat /\ SumOf(f, i) \in Nat /\ SumOf(f, i) <= SumOf(f, m)
    BY <1>1, <1>2, <2>1
  <2>3. SumOf(f, i) = SumOf(f, i - 1) + f[i]
    BY <1>1
  <2> QED
    BY <1>4, <2>1, <2>2, <2>3
<1>5. CASE c.topP = 10
  <2>1. n = m
    BY <1>5 DEF Nucleus
  <2>2. ASSUME NEW i \in 1..m, f[i] > 0 PROVE i <= m /\ SumOf(f, i - 1) * 10 < p
    <3>1. SumOf(f, i - 1) < SumOf(f, m)
      BY <1>2, <1>4, <2>2
    <3> QED
      BY <1>2, <1>3, <1>4, <1>5, <2>2, <3>1
  <2> HIDE DEF n
  <2>3. n \in 1..m /\ \A i \in 1..m : f[i] > 0 => (i <= n <=> SumOf(f, i - 1) * 10 < p)
    BY <2>1, <2>2
  <2> QED
    BY <2>3 DEF n, p
<1>6. CASE c.topP # 10 /\ m <= 1
  <2>1. n = m /\ m = 1
    BY <1>6 DEF Nucleus
  <2>2. ASSUME NEW i \in 1..m, f[i] > 0 PROVE i <= m /\ SumOf(f, i - 1) * 10 < p
    <3>1. i - 1 = 0 /\ SumOf(f, 0) = 0
      BY <2>1, SumSteps
    <3>2. p > 0
      BY <1>2, <1>3, <1>4, <2>2
    <3> QED
      BY <3>1, <3>2
  <2> HIDE DEF n
  <2>3. n \in 1..m /\ \A i \in 1..m : f[i] > 0 => (i <= n <=> SumOf(f, i - 1) * 10 < p)
    BY <2>1, <2>2
  <2> QED
    BY <2>3 DEF n, p
<1>7. CASE c.topP # 10 /\ ~(m <= 1)
  <2> DEFINE S == {i \in 1..m : mass[i] * 10 >= mass[m] * c.topP}
             T == {i \in 1..m : SumOf(f, i) * 10 >= p}
  <2>1. n = Min(S)
    BY <1>7 DEF Nucleus
  <2>2. S = T
    <3>1. \A i \in 1..m : mass[i] = SumOf(f, i) /\ mass[m] = SumOf(f, m)
      OBVIOUS
    <3> QED
      BY <3>1 DEF p
  <2>3. m \in T
    BY <1>2, <1>3
  <2>4. T \in SUBSET Nat /\ T # {}
    BY <2>3
  <2>5. n \in T /\ \A i \in T : n <= i
    BY <2>1, <2>2, <2>4, LeastNatural
  <2> HIDE DEF n, S
  <2>6. n \in 1..m /\ SumOf(f, n) * 10 >= p
    BY <2>5
  <2>7. ASSUME NEW i \in 1..m, f[i] > 0 PROVE i <= n <=> SumOf(f, i - 1) * 10 < p
    <3>1. CASE i = 1
      <4>1. i - 1 = 0 /\ SumOf(f, 0) = 0 /\ i <= n
        BY <2>6, <3>1, SumSteps
      <4>2. p > 0
        BY <1>2, <1>3, <1>4, <2>7
      <4> QED
        BY <4>1, <4>2
    <3>2. CASE i # 1 /\ i <= n
      <4>1. i - 1 \in 1..m /\ ~(n <= i - 1)
        BY <2>6, <3>2
      <4>2. i - 1 \notin T
        BY <2>5, <4>1
      <4>3. ~(SumOf(f, i - 1) * 10 >= p)
        BY <4>1, <4>2
      <4>4. SumOf(f, i - 1) \in Nat
        BY <1>4, <2>7
      <4> QED
        BY <1>3, <3>2, <4>3, <4>4
    <3>3. CASE ~(i <= n)
      <4>1. n \in 0..m /\ i - 1 \in 0..m /\ n <= i - 1
        BY <2>6, <3>3
      <4>2. SumOf(f, n) <= SumOf(f, i - 1) /\ SumOf(f, n) \in Nat /\ SumOf(f, i - 1) \in Nat
        BY <1>1, <4>1
      <4> QED
        BY <1>3, <2>6, <3>3, <4>2
    <3> QED
      BY <3>1, <3>2, <3>3
  <2>8. n \in 1..m /\ \A i \in 1..m : f[i] > 0 => (i <= n <=> SumOf(f, i - 1) * 10 < p)
    BY <2>6, <2>7
  <2> QED
    BY <2>8 DEF n, p
<1> QED
  BY <1>5, <1>6, <1>7

\* What a draw reaches over all random numbers, and the candidates that weigh
\* something.
Reached(order, mass, n) ==
    { order[Min({i \in 1..n : target < mass[i]})] : target \in 0..(mass[n] - 1) }
Counting(order, f, n) == { order[i] : i \in {j \in 1..n : f[j] > 0} }

\* A draw reaches each candidate that weighs something, and no other.
LEMMA DrawReaches ==
    ASSUME NEW n \in Nat, n > 0, NEW f, \A i \in 1..n : f[i] \in Nat, NEW order,
           NEW mass, \A k \in 0..n : mass[k] = SumOf(f, k)
    PROVE  Reached(order, mass, n) = Counting(order, f, n)
<1> DEFINE Where(target) == {i \in 1..n : target < mass[i]}
           L == { order[Min(Where(target))] : target \in 0..(mass[n] - 1) }
           R == { order[i] : i \in {j \in 1..n : f[j] > 0} }
<1>1. /\ \A k \in 0..n : SumOf(f, k) \in Nat
      /\ \A i, k \in 0..n : i <= k => SumOf(f, i) <= SumOf(f, k)
      /\ \A i \in 1..n : SumOf(f, i) = SumOf(f, i - 1) + f[i]
  BY SumRises
<1>2. \A k \in 0..n : mass[k] \in Nat
  BY <1>1
<1>3. ASSUME NEW target \in 0..(mass[n] - 1) PROVE order[Min(Where(target))] \in R
  <2>1. n \in 1..n /\ n \in 0..n /\ mass[n] \in Nat
    BY <1>2
  <2>2. n \in Where(target)
    BY <2>1
  <2> DEFINE W == Where(target)
             i == Min(W)
  <2>3. W \in SUBSET Nat /\ W # {}
    BY <2>2
  <2>4. i \in W /\ \A j \in W : i <= j
    BY <2>3, LeastNatural
  <2> HIDE DEF i
  <2>5. i \in 1..n /\ target < mass[i] /\ i \in 0..n /\ i - 1 \in 0..n
    BY <2>4
  <2>6. mass[i - 1] <= target
    <3>1. CASE i = 1
      <4>1. mass[0] = 0
        BY <2>5, <3>1, SumSteps
      <4> QED
        BY <2>1, <3>1, <4>1
    <3>2. CASE i # 1
      <4>1. i - 1 \in 1..n /\ ~(i <= i - 1)
        BY <2>5, <3>2
      <4>2. i - 1 \notin W
        BY <2>4, <4>1
      <4> QED
        BY <1>2, <2>1, <4>1, <4>2
    <3> QED
      BY <3>1, <3>2
  <2>7. mass[i] = mass[i - 1] + f[i] /\ mass[i - 1] \in Nat /\ f[i] \in Nat
    BY <1>1, <2>5
  <2>8. f[i] > 0
    BY <2>1, <2>5, <2>6, <2>7
  <2> HIDE DEF W
  <2>9. order[i] \in R
    BY <2>5, <2>8
  <2> HIDE DEF R
  <2> QED
    BY <2>9 DEF i, W
<1>4. ASSUME NEW i \in 1..n, f[i] > 0 PROVE order[i] \in L
  <2> DEFINE target == mass[i - 1]
             W == Where(target)
  <2>1. i \in 0..n /\ i - 1 \in 0..n /\ n \in 0..n /\ i <= n
    OBVIOUS
  <2>2. mass[i] = mass[i - 1] + f[i] /\ f[i] \in Nat /\ mass[i - 1] \in Nat /\ mass[i] \in Nat /\ mass[n] \in Nat
    BY <1>1, <2>1
  <2>3. mass[i] <= mass[n]
    BY <1>1, <2>1
  <2>4. target \in 0..(mass[n] - 1) /\ target < mass[i]
    BY <1>4, <2>2, <2>3
  <2>5. ASSUME NEW j \in 1..n, target < mass[j] PROVE i <= j
    <3>1. j \in 0..n /\ mass[j] \in Nat
      BY <1>2
    <3>2. j <= i - 1 => mass[j] <= mass[i - 1]
      BY <1>1, <2>1, <3>1
    <3> QED
      BY <2>1, <2>2, <2>5, <3>1, <3>2
  <2> HIDE DEF target
  <2>6. i \in W /\ \A j \in W : i <= j
    BY <2>4, <2>5
  <2>7. W \in SUBSET Nat /\ W # {}
    BY <2>6
  <2>8. Min(W) \in W /\ \A j \in W : Min(W) <= j
    BY <2>7, LeastNatural
  <2>9. Min(W) \in Nat /\ Min(W) <= i /\ i <= Min(W)
    <3> DEFINE k == Min(W)
    <3>1. k \in W /\ k <= i
      BY <2>6, <2>8
    <3> HIDE DEF k
    <3>2. k \in Nat /\ i <= k
      BY <2>6, <2>7, <3>1
    <3> QED
      BY <3>1, <3>2 DEF k
  <2>10. Min(W) = i
    <3> DEFINE k == Min(W)
    <3> HIDE DEF k
    <3>1. k \in Nat /\ k <= i /\ i <= k
      BY <2>9 DEF k
    <3>2. k = i
      BY <3>1
    <3> QED
      BY <3>2 DEF k
  <2> QED
    BY <2>4, <2>10
<1>5. L = R
  <2>1. \A x \in L : x \in R
    BY <1>3
  <2>2. \A x \in R : x \in L
    BY <1>4
  <2> HIDE DEF L, R
  <2> QED
    BY <2>1, <2>2
<1> QED
  BY <1>5 DEF Reached, Counting

-----------------------------------------------------------------------------
(* Sampler: what tokens weigh, with and without an order. *)

\* What every token would weigh.
TokenWeights(c, logit) == [t \in Tokens |-> WeightOf(logit[t], Highest(logit), c)]

\* The mass of a set of tokens is the total of their weights.
LEMMA MassTotal ==
    ASSUME NEW c, NEW logit, Vocabulary \in Nat, NEW S, S \subseteq Tokens
    PROVE  MassOf(c, logit, S) = Total(TokenWeights(c, logit), S \cap Likely(c, logit))
<1> DEFINE R == S \cap Likely(c, logit)
           f == TokenWeights(c, logit)
           P(t) == t = [s \in SUBSET R |-> IF s = {} THEN 0
                                           ELSE WeightOf(logit[CHOOSE x \in s : TRUE], Highest(logit), c)
                                                    + t[s \ {CHOOSE x \in s : TRUE}]]
           it == CHOOSE t : P(t)
<1>1. MassOf(c, logit, S) = it[R]
  BY DEF MassOf, MapThenSumSet, MapThenFoldSet
<1>2. IsFiniteSet(R) /\ R \subseteq Tokens
  BY TokensCount, FS_Subset
<1> HIDE DEF R
<1>3. ASSUME NEW t PROVE P(t) <=> IsTotal(t, f, R)
  <2>1. ASSUME NEW s \in SUBSET R
        PROVE  TotalStep(t, f, s) = IF s = {} THEN 0
                                    ELSE WeightOf(logit[CHOOSE x \in s : TRUE], Highest(logit), c)
                                             + t[s \ {CHOOSE x \in s : TRUE}]
    <3>1. CASE s = {}
      BY <3>1 DEF TotalStep
    <3>2. CASE s # {}
      <4>1. Pick(s) \in Tokens
        BY <1>2, <3>2 DEF Pick
      <4>2. f[Pick(s)] = WeightOf(logit[Pick(s)], Highest(logit), c)
        BY <4>1 DEF TokenWeights
      <4> HIDE DEF f
      <4> QED
        BY <3>2, <4>2 DEF TotalStep, Pick
    <3> QED
      BY <3>1, <3>2
  <2>2. [s \in SUBSET R |-> TotalStep(t, f, s)]
          = [s \in SUBSET R |-> IF s = {} THEN 0
                                ELSE WeightOf(logit[CHOOSE x \in s : TRUE], Highest(logit), c)
                                         + t[s \ {CHOOSE x \in s : TRUE}]]
    BY <2>1
  <2> QED
    BY <2>2 DEF IsTotal
<1>4. \E t : P(t)
  <2>1. PICK t : IsTotal(t, f, R)
    BY <1>2, TotalExists
  <2>2. P(t)
    BY <1>3, <2>1
  <2> HIDE DEF P
  <2> QED
    BY <2>2
<1> HIDE DEF P
<1>5. P(it)
  BY <1>4
<1>6. IsTotal(it, f, R)
  BY <1>3, <1>5
<1> HIDE DEF it, f
<1>7. Total(f, R) = it[R]
  BY <1>2, <1>6, TotalIs
<1> QED
  BY <1>1, <1>7 DEF f, R

\* Settings under which there are weights.
Weighing(c) == c.temperature \in Nat /\ c.temperature > 0 /\ c.topK \in Nat /\ c.topP \in 1..10

\* What each place weighs.
LEMMA PlacesWeigh ==
    ASSUME NEW c, Weighing(c), NEW logit, HasLogits(logit), NEW s, Ranked(s, logit),
           NEW m \in 1..Vocabulary, Weighed(c, logit, s, m)
    PROVE  LET f == Weights(c, logit, s, m)
               g == TokenWeights(c, logit)
           IN  /\ \A t \in Tokens : g[t] \in Nat
               /\ \A i \in 1..Vocabulary : f[i] \in Nat /\ (i > m => f[i] = 0)
               /\ \A i \in 1..Vocabulary : s[i] \in Likely(c, logit) => f[i] = g[s[i]]
               /\ \A i \in 1..Vocabulary : s[i] \notin Likely(c, logit) => i > m
               /\ f[1] > 0
<1> DEFINE f == Weights(c, logit, s, m)
           g == TokenWeights(c, logit)
<1>1. 1 \in 1..Vocabulary /\ Highest(logit) = logit[s[1]]
  BY HighestFirst
<1>2. \A i \in 1..Vocabulary : s[i] \in Tokens
  BY RankedPlaces
<1>3. ASSUME NEW i \in 1..Vocabulary
      PROVE  LET w == WeightOf(logit[s[i]], logit[s[1]], c)
             IN  /\ g[s[i]] = w /\ w \in Nat
                 /\ i = 1 => w > 0
                 /\ logit[s[1]] = PosInf /\ logit[s[i]] # PosInf => w = 0
  <2> DEFINE w == WeightOf(logit[s[i]], logit[s[1]], c)
  <2>1. g[s[i]] = w
    BY <1>1, <1>2 DEF TokenWeights
  <2>2. logit[s[i]] \in Logits /\ logit[s[1]] \in Logits
    BY <1>1, <1>2 DEF HasLogits
  <2>3. logit[s[i]] <= logit[s[1]]
    <3>1. 1 <= i
      OBVIOUS
    <3> QED
      BY <1>1, <3>1, RankedPlaces
  <2>4. /\ w \in Nat
        /\ logit[s[i]] = logit[s[1]] => w > 0
        /\ logit[s[1]] = PosInf /\ logit[s[i]] # PosInf => w = 0
    BY <2>2, <2>3, WeightsNatural DEF Weighing
  <2> HIDE DEF w
  <2>5. g[s[i]] = w /\ w \in Nat /\ (i = 1 => w > 0)
        /\ (logit[s[1]] = PosInf /\ logit[s[i]] # PosInf => w = 0)
    BY <2>1, <2>4
  <2> QED
    BY <2>5 DEF w
<1>4. ASSUME NEW i \in 1..Vocabulary
      PROVE  f[i] = IF i <= m THEN WeightOf(logit[s[i]], logit[s[1]], c) ELSE 0
  BY DEF Weights
<1>5. \A t \in Tokens : g[t] \in Nat
  <2>1. \A t \in Tokens : \E i \in 1..Vocabulary : t = s[i]
    BY RankedPlaces
  <2> HIDE DEF g
  <2> QED
    BY <1>3, <2>1
<1>6. \A i \in 1..Vocabulary : f[i] \in Nat /\ (i > m => f[i] = 0)
  BY <1>3, <1>4
<1>7. ASSUME NEW i \in 1..Vocabulary, s[i] \in Likely(c, logit) PROVE f[i] = g[s[i]]
  <2>1. CASE i <= m
    BY <1>3, <1>4, <2>1
  <2>2. CASE ~(i <= m)
    <3>1. logit[s[1]] = PosInf /\ logit[s[i]] # PosInf
      BY <1>7, <2>2 DEF Weighed
    <3> QED
      BY <1>3, <1>4, <2>2, <3>1
  <2> QED
    BY <2>1, <2>2
<1>8. ASSUME NEW i \in 1..Vocabulary, s[i] \notin Likely(c, logit) PROVE i > m
  <2>1. ~(i <= m)
    BY <1>8 DEF Weighed
  <2> QED
    BY <2>1
<1>9. f[1] > 0
  <2>1. 1 <= m
    OBVIOUS
  <2> QED
    BY <1>1, <1>3, <1>4, <2>1
<1> HIDE DEF f, g
<1>10. /\ \A t \in Tokens : g[t] \in Nat
       /\ \A i \in 1..Vocabulary : f[i] \in Nat /\ (i > m => f[i] = 0)
       /\ \A i \in 1..Vocabulary : s[i] \in Likely(c, logit) => f[i] = g[s[i]]
       /\ \A i \in 1..Vocabulary : s[i] \notin Likely(c, logit) => i > m
       /\ f[1] > 0
  BY <1>5, <1>6, <1>7, <1>8, <1>9
<1> QED
  BY <1>10 DEF f, g

\* The mass of the first tokens is the running total.
LEMMA MassSums ==
    ASSUME NEW c, Weighing(c), NEW logit, HasLogits(logit), NEW s, Ranked(s, logit),
           NEW m \in 1..Vocabulary, Weighed(c, logit, s, m)
    PROVE  \A k \in 0..Vocabulary :
               MassOf(c, logit, FirstOf(s, k)) = SumOf(Weights(c, logit, s, m), k)
<1> DEFINE f == Weights(c, logit, s, m)
           g == TokenWeights(c, logit)
           First(k) == {s[j] : j \in 1..k}
           Mass_(k) == Total(g, First(k) \cap Likely(c, logit))
           S == {k \in Nat : k <= Vocabulary => Mass_(k) = SumOf(f, k)}
<1>1. Vocabulary \in Nat /\ IsFiniteSet(Tokens)
  BY TokensCount DEF HasLogits
<1>2. /\ \A t \in Tokens : g[t] \in Nat
      /\ \A i \in 1..Vocabulary : f[i] \in Nat /\ (i > m => f[i] = 0)
      /\ \A i \in 1..Vocabulary : s[i] \in Likely(c, logit) => f[i] = g[s[i]]
      /\ \A i \in 1..Vocabulary : s[i] \notin Likely(c, logit) => i > m
  BY PlacesWeigh
<1>3. \A i \in 1..Vocabulary : s[i] \in Tokens
  BY RankedPlaces
<1> HIDE DEF f, g
<1>4. 0 \in S
  <2>1. First(0) \cap Likely(c, logit) = {}
    OBVIOUS
  <2>2. Mass_(0) = 0 /\ SumOf(f, 0) = 0
    BY <2>1, TotalSteps, SumSteps
  <2> QED
    BY <2>2
<1>5. ASSUME NEW k \in S PROVE k + 1 \in S
  <2>1. SUFFICES ASSUME k + 1 <= Vocabulary PROVE Mass_(k + 1) = SumOf(f, k + 1)
    OBVIOUS
  <2> DEFINE i == k + 1
             A == First(k) \cap Likely(c, logit)
             B == First(i) \cap Likely(c, logit)
  <2>2. k \in Nat /\ Total(g, A) = SumOf(f, k) /\ i \in 1..Vocabulary /\ i - 1 = k
    BY <1>1, <2>1
  <2>3. SumOf(f, i) = SumOf(f, k) + f[i] /\ SumOf(f, k) \in Nat
    <3>1. \A j \in 1..Vocabulary : f[j] \in Nat
      BY <1>2
    <3>2. \A j \in 0..Vocabulary : SumOf(f, j) \in Nat
      BY <1>1, <3>1, SumRises
    <3>3. k \in 0..Vocabulary
      BY <1>1, <2>1, <2>2
    <3> QED
      BY <2>2, <3>2, <3>3, SumSteps
  <2>4. First(i) = First(k) \cup {s[i]}
    <3>1. 1..i = (1..k) \cup {i}
      BY <2>2
    <3> HIDE DEF i
    <3> QED
      BY <3>1
  <2>5. s[i] \notin First(k)
    <3>1. \A j \in 1..k : j \in 1..Vocabulary /\ j # i
      BY <1>1, <2>1, <2>2
    <3> HIDE DEF i
    <3> QED
      BY <2>2, <3>1, RankedPlaces
  <2>6. B \subseteq Tokens
    <3> HIDE DEF i
    <3>1. \A j \in 1..i : j \in 1..Vocabulary
      BY <1>1, <2>2
    <3> QED
      BY <1>3, <3>1
  <2> HIDE DEF i, S, First
  <2>7. CASE s[i] \in Likely(c, logit)
    <3>1. s[i] \in B /\ B \ {s[i]} = A
      BY <2>4, <2>5, <2>7
    <3>2. IsFiniteSet(B) /\ \A x \in B : g[x] \in Nat
      BY <1>1, <1>2, <2>6, FS_Subset
    <3> HIDE DEF A, B
    <3>3. Total(g, B) = g[s[i]] + Total(g, A)
      BY <3>1, <3>2, TotalRemove
    <3>4. f[i] = g[s[i]] /\ f[i] \in Nat
      BY <1>2, <2>2, <2>7
    <3>5. Total(g, B) = SumOf(f, i)
      BY <2>2, <2>3, <3>3, <3>4
    <3> QED
      BY <3>5 DEF B, i
  <2>8. CASE s[i] \notin Likely(c, logit)
    <3>1. B = A
      BY <2>4, <2>8
    <3>2. f[i] = 0
      BY <1>2, <2>2, <2>8
    <3> HIDE DEF A, B
    <3>3. Total(g, B) = SumOf(f, i)
      BY <2>2, <2>3, <3>1, <3>2
    <3> QED
      BY <3>3 DEF B, i
  <2> QED
    BY <2>7, <2>8
<1>6. S \in SUBSET Nat
  OBVIOUS
<1>7. ASSUME NEW k \in 0..Vocabulary PROVE MassOf(c, logit, First(k)) = SumOf(f, k)
  <2>1. k \in Nat /\ k <= Vocabulary
    BY <1>1
  <2>2. k \in S
    <3> HIDE DEF S
    <3> QED
      BY <1>4, <1>5, <1>6, <2>1, EveryNatural
  <2>3. Mass_(k) = SumOf(f, k)
    BY <2>1, <2>2
  <2>4. First(k) \subseteq Tokens
    <3>1. \A j \in 1..k : j \in 1..Vocabulary
      BY <1>1
    <3> QED
      BY <1>3, <3>1
  <2> HIDE DEF First
  <2>5. MassOf(c, logit, First(k)) = Mass_(k)
    BY <1>1, <2>4, MassTotal DEF g
  <2> QED
    BY <2>3, <2>5
<1> QED
  BY <1>7 DEF f, FirstOf

-----------------------------------------------------------------------------
(* Sampler: what a call may return. *)

\* Settings a sampler has.
Settings(c) == c.temperature \in Nat /\ c.topK \in Nat /\ c.topP \in 1..10

\* No error is a token.
LEMMA NoTokenIsNone == NoToken \notin Tokens
  BY DEF NoToken, Tokens

\* A call without temperature returns the best token, which none beats.
LEMMA GreedyDraws ==
    ASSUME NEW logit, HasLogits(logit), NEW s, Ranked(s, logit)
    PROVE  {t \in Tokens : Better(logit, t) = {} /\ logit[t] # NegInf}
             = IF logit[s[1]] = NegInf THEN {} ELSE {s[1]}
<1>1. 1 \in 1..Vocabulary
  BY HighestFirst
<1>2. s[1] \in Tokens /\ Better(logit, s[1]) = {}
  <2>1. s[1] \in Tokens /\ Better(logit, s[1]) = FirstOf(s, 1 - 1)
    BY <1>1, RankedPlaces
  <2>2. 1..(1 - 1) = {}
    OBVIOUS
  <2> QED
    BY <2>1, <2>2 DEF FirstOf
<1>3. ASSUME NEW t \in Tokens, Better(logit, t) = {} PROVE t = s[1]
  <2>1. ~Beats(logit, s[1], t) /\ ~Beats(logit, t, s[1])
    BY <1>2, <1>3 DEF Better
  <2> QED
    BY <1>2, <2>1, BeatsOrders
<1> QED
  BY <1>2, <1>3

\* The tokens that the reference allows a call with temperature.
Drawable(c, logit) ==
    {t \in Tokens :
        /\ t \in Likely(c, logit)
        /\ WeightOf(logit[t], Highest(logit), c) > 0
        /\ MassOf(c, logit, Better(logit, t)) * 10 < MassOf(c, logit, Tokens) * c.topP}

\* A call with temperature reaches exactly the tokens of the reference.
LEMMA RandomDraws ==
    ASSUME NEW c, Weighing(c), NEW logit, HasLogits(logit), NEW s, s = Sorted(logit),
           NEW order, order = Candidates(c, logit),
           NEW mass, mass = Mass(order, logit, c), NEW n, n = Nucleus(mass, Len(order), c)
    PROVE  Reached(order, mass, n) = Drawable(c, logit)
<1>1. Ranked(s, logit) /\ Vocabulary \in Nat /\ Vocabulary > 0
  BY SortedRanks DEF HasLogits
<1>2. PICK m \in 1..Vocabulary : order = [i \in 1..m |-> s[i]] /\ Len(order) = m /\ Weighed(c, logit, s, m)
  <2>1. c.topK \in Nat
    BY DEF Weighing
  <2> QED
    BY <2>1, CandidatesAre
<1> DEFINE f == Weights(c, logit, s, m)
           g == TokenWeights(c, logit)
<1>3. /\ \A t \in Tokens : g[t] \in Nat
      /\ \A i \in 1..Vocabulary : f[i] \in Nat /\ (i > m => f[i] = 0)
      /\ \A i \in 1..Vocabulary : s[i] \in Likely(c, logit) => f[i] = g[s[i]]
      /\ \A i \in 1..Vocabulary : s[i] \notin Likely(c, logit) => i > m
  BY <1>1, <1>2, PlacesWeigh
<1>4. \A k \in 0..m : mass[k] = SumOf(f, k)
  BY <1>1, <1>2, MassIs
<1>5. \A k \in 0..Vocabulary : MassOf(c, logit, FirstOf(s, k)) = SumOf(f, k)
  BY <1>1, <1>2, MassSums
<1>6. \A t \in Tokens : g[t] = WeightOf(logit[t], Highest(logit), c)
  BY DEF TokenWeights
<1> HIDE DEF f, g
<1>7. /\ \A t \in Tokens : \E i \in 1..Vocabulary : t = s[i]
      /\ \A i \in 1..Vocabulary : s[i] \in Tokens
      /\ \A i \in 1..Vocabulary : Better(logit, s[i]) = FirstOf(s, i - 1)
  BY <1>1, RankedPlaces
<1>8. MassOf(c, logit, Tokens) = SumOf(f, m)
  <2>1. Tokens = FirstOf(s, Vocabulary)
    BY <1>7 DEF FirstOf
  <2>2. Vocabulary \in 0..Vocabulary /\ m \in 0..Vocabulary
    BY <1>1
  <2>3. SumOf(f, Vocabulary) = SumOf(f, m)
    BY <1>1, <1>3, <2>2, SumRests
  <2> QED
    BY <1>5, <2>1, <2>2, <2>3
<1>9. \A i \in 1..m : i \in 1..Vocabulary /\ f[i] \in Nat /\ order[i] = s[i]
  <2>1. \A i \in 1..m : i \in 1..Vocabulary
    BY <1>1
  <2> QED
    BY <1>2, <1>3, <2>1
<1>10. m \in Nat /\ m > 0 /\ c.topP \in 1..10
  BY DEF Weighing
<1>11. /\ n \in 1..m
       /\ \A i \in 1..m : f[i] > 0 => (i <= n <=> SumOf(f, i - 1) * 10 < SumOf(f, m) * c.topP)
  BY <1>2, <1>4, <1>9, <1>10, NucleusIs
<1> DEFINE L == Reached(order, mass, n)
           R == Drawable(c, logit)
<1>12. L = Counting(order, f, n)
  <2>1. n \in Nat /\ n > 0 /\ (\A i \in 1..n : i \in 1..m) /\ (\A k \in 0..n : k \in 0..m)
    BY <1>10, <1>11
  <2>2. (\A i \in 1..n : f[i] \in Nat) /\ (\A k \in 0..n : mass[k] = SumOf(f, k))
    BY <1>4, <1>9, <2>1
  <2> QED
    BY <2>1, <2>2, DrawReaches
<1>13. ASSUME NEW i \in 1..Vocabulary
       PROVE  s[i] \in R <=> i <= n /\ f[i] > 0
  <2>1. s[i] \in Tokens
    BY <1>7
  <2>2. MassOf(c, logit, Better(logit, s[i])) = SumOf(f, i - 1)
    <3> DEFINE k == i - 1
    <3>1. k \in 0..Vocabulary
      BY <1>1
    <3>2. Better(logit, s[i]) = FirstOf(s, k)
      BY <1>7
    <3> HIDE DEF k
    <3>3. MassOf(c, logit, Better(logit, s[i])) = SumOf(f, k)
      BY <1>5, <3>1, <3>2
    <3> QED
      BY <3>3 DEF k
  <2>3. s[i] \in R <=> /\ s[i] \in Likely(c, logit)
                       /\ g[s[i]] > 0
                       /\ SumOf(f, i - 1) * 10 < SumOf(f, m) * c.topP
    BY <1>6, <1>8, <2>1, <2>2 DEF Drawable
  <2> HIDE DEF R
  <2>4. ASSUME s[i] \in R PROVE i <= n /\ f[i] > 0
    <3>1. f[i] > 0
      BY <1>3, <2>3, <2>4
    <3>2. i <= m
      BY <1>3, <1>10, <3>1
    <3>3. i \in 1..m
      BY <1>10, <3>2
    <3> QED
      BY <1>11, <2>3, <2>4, <3>1, <3>3
  <2>5. ASSUME i <= n, f[i] > 0 PROVE s[i] \in R
    <3>1. i \in 1..m /\ i <= m
      BY <1>10, <1>11, <2>5
    <3>2. s[i] \in Likely(c, logit)
      BY <1>3, <1>10, <3>1
    <3>3. SumOf(f, i - 1) * 10 < SumOf(f, m) * c.topP
      BY <1>11, <2>5, <3>1
    <3> QED
      BY <1>3, <2>3, <2>5, <3>2, <3>3
  <2> QED
    BY <2>4, <2>5
<1>14. \A x \in L : x \in R
  <2>1. ASSUME NEW i \in 1..n, f[i] > 0 PROVE order[i] \in R
    <3>1. i \in 1..m /\ i <= n
      BY <1>11
    <3>2. order[i] = s[i] /\ i \in 1..Vocabulary
      BY <1>9, <3>1
    <3> HIDE DEF R
    <3> QED
      BY <1>13, <2>1, <3>1, <3>2
  <2> HIDE DEF L, R
  <2> QED
    BY <1>12, <2>1 DEF Counting
<1>15. \A x \in R : x \in L
  <2>1. ASSUME NEW x \in R PROVE x \in L
    <3>1. PICK i \in 1..Vocabulary : x = s[i]
      <4>1. x \in Tokens
        BY <2>1 DEF Drawable
      <4> QED
        BY <1>7, <4>1
    <3> HIDE DEF R, L
    <3>2. i <= n /\ f[i] > 0
      BY <1>13, <2>1, <3>1
    <3>3. i \in 1..n /\ i \in 1..m
      BY <1>10, <1>11, <3>2
    <3>4. order[i] = x
      BY <1>9, <3>1, <3>3
    <3> QED
      BY <1>12, <3>2, <3>3, <3>4 DEF Counting
  <2> QED
    BY <2>1
<1>16. L = R
  <2> HIDE DEF L, R
  <2>1. L \subseteq R /\ R \subseteq L
    BY <1>14, <1>15
  <2> QED
    BY <2>1
<1> QED
  BY <1>16

\* A call returns one of the tokens that the reference allows, or fails where
\* all logits are minus infinity.
LEMMA DrawsAre ==
    ASSUME NEW c, Settings(c), NEW logits, ~HasNan(logits), NEW history, NEW marks,
           NEW logit, logit = Effective(c, logits, marks), HasLogits(logit),
           logit = Penalties(c, logits, history)
    PROVE  LET allowed == {t \in Tokens : MayDraw(c, logits, history, t)}
           IN  /\ Draws(c, logits, marks) = IF Highest(logit) = NegInf THEN {NoToken} ELSE allowed
               /\ Highest(logit) = NegInf => allowed = {}
<1> DEFINE s == Sorted(logit)
           allowed == {t \in Tokens : MayDraw(c, logits, history, t)}
           order == Candidates(c, logit)
           mass == Mass(order, logit, c)
           n == Nucleus(mass, Len(order), c)
           L == Reached(order, mass, n)
           R == Drawable(c, logit)
           G == {t \in Tokens : Better(logit, t) = {} /\ logit[t] # NegInf}
<1>1. Ranked(s, logit)
  BY SortedRanks
<1>2. Highest(logit) = logit[s[1]]
  BY <1>1, HighestFirst
<1>3. Draws(c, logits, marks) = IF logit[s[1]] = NegInf THEN {NoToken}
                                ELSE IF c.temperature = 0 THEN {s[1]} ELSE L
  BY DEF Draws, Reached
<1>4. c.temperature # 0 => L = R
  <2>1. SUFFICES ASSUME c.temperature # 0 PROVE L = R
    OBVIOUS
  <2>2. Weighing(c)
    BY <2>1 DEF Settings, Weighing
  <2>3. s = Sorted(logit) /\ order = Candidates(c, logit) /\ mass = Mass(order, logit, c)
           /\ n = Nucleus(mass, Len(order), c)
    OBVIOUS
  <2> HIDE DEF s, order, mass, n
  <2> QED
    BY <2>2, <2>3, RandomDraws
<1>5. \A t \in Tokens : MayDraw(c, logits, history, t)
        <=> IF c.temperature = 0 THEN t \in G ELSE Highest(logit) # NegInf /\ t \in R
  BY DEF MayDraw, Drawable
<1>6. G = IF logit[s[1]] = NegInf THEN {} ELSE {s[1]}
  BY <1>1, GreedyDraws
<1>7. G \subseteq Tokens /\ R \subseteq Tokens
  BY DEF Drawable
<1> HIDE DEF s, L, R, G
<1>8. allowed = IF c.temperature = 0 THEN G ELSE IF Highest(logit) # NegInf THEN R ELSE {}
  BY <1>5, <1>7
<1> HIDE DEF allowed
<1>9. /\ Draws(c, logits, marks) = IF Highest(logit) = NegInf THEN {NoToken} ELSE allowed
      /\ Highest(logit) = NegInf => allowed = {}
  <2>1. CASE Highest(logit) = NegInf
    BY <1>2, <1>3, <1>6, <1>8, <2>1
  <2>2. CASE Highest(logit) # NegInf /\ c.temperature = 0
    BY <1>2, <1>3, <1>6, <1>8, <2>2
  <2>3. CASE Highest(logit) # NegInf /\ c.temperature # 0
    BY <1>2, <1>3, <1>4, <1>8, <2>3
  <2> QED
    BY <2>1, <2>2, <2>3
<1> QED
  BY <1>9 DEF allowed

-----------------------------------------------------------------------------
(* Sampler: penalties. *)

\* Dividing out what was multiplied.
LEMMA ExactQuotient ==
    ASSUME NEW k \in Int, NEW b \in Nat, b > 0
    PROVE  (k * b) \div b = k
<1> DEFINE q == (k * b) \div b
           r == (k * b) % b
<1>1. k * b \in Int
  OBVIOUS
<1>2. q \in Int /\ r \in 0..(b - 1) /\ k * b = b * q + r
  BY <1>1
<1> HIDE DEF q, r
<1>3. (k - q) * b = r
  BY <1>2
<1>4. k - q = 0
  <2> DEFINE z == k - q
  <2>1. z \in Int /\ z * b = r
    BY <1>2, <1>3
  <2> HIDE DEF z
  <2>2. z >= 1 => z * b >= b
    BY <2>1
  <2>3. z <= -1 => z * b <= -b
    BY <2>1
  <2>4. z = 0
    BY <1>2, <2>1, <2>2, <2>3
  <2> QED
    BY <2>4 DEF z
<1>5. q = k
  BY <1>2, <1>4
<1> QED
  BY <1>5 DEF q

\* A penalty of one changes nothing.
LEMMA NoPenalty ==
    ASSUME NEW logit \in Int, NEW penalty, penalty[1] \in Nat, penalty[1] > 0, penalty[1] = penalty[2]
    PROVE  Penalised(logit, penalty) = logit
<1> DEFINE b == penalty[1]
<1>1. b \in Nat /\ b > 0 /\ penalty[2] = b
  OBVIOUS
<1> HIDE DEF b
<1>2. (logit * b) \div b = logit
  BY <1>1, ExactQuotient
<1>3. Penalised(logit, penalty) = IF logit \in {NegInf, PosInf} THEN logit
                                  ELSE IF logit < 0 THEN (logit * b) \div b
                                  ELSE (logit * b) \div b
  BY <1>1 DEF Penalised, b
<1> QED
  BY <1>2, <1>3

\* The constants of a call, as SamplerAssumption has them.
LEMMA CallFacts ==
    ASSUME NEW c \in SamplingConfigs, ConfigValid(c), NEW logits \in LogitVectors, ~HasNan(logits),
           NEW history \in Histories
    PROVE  /\ Settings(c) /\ c.repeatLastN \in Nat /\ Vocabulary \in Nat /\ Vocabulary > 0
           /\ c.penalty[1] \in Nat /\ c.penalty[1] > 0
           /\ history \in Seq(Nat)
           /\ \A t \in Tokens : logits[t] \in Logits /\ logits[t] \in Int
           /\ \A t \in Tokens : Penalised(logits[t], c.penalty) \in Logits
           /\ \A t \in Tokens : Penalised(logits[t], c.penalty) = NegInf <=> logits[t] = NegInf
<1>1. c.temperature \in Int /\ c.topP \in Int /\ c.topK \in Nat /\ c.repeatLastN \in Nat /\ c.penalty[1] \in Nat
  BY SamplerAssumption
<1>2. c.temperature >= 0 /\ c.topP \in 1..10 /\ c.penalty[1] > 0 /\ Vocabulary > 0
  BY DEF ConfigValid
<1>3. Settings(c)
  BY <1>1, <1>2 DEF Settings
<1>4. Vocabulary \in Nat /\ history \in Seq(Nat) /\ logits \in [Tokens -> Logits \cup {Nan}]
  BY SamplerAssumption
<1>5. ASSUME NEW t \in Tokens PROVE logits[t] \in Logits /\ logits[t] \in Int
  <2>1. logits[t] \in Logits \cup {Nan} /\ logits[t] # Nan
    BY <1>4 DEF HasNan
  <2>2. logits[t] \in Logits
    BY <2>1
  <2>3. \A x \in Logits : x \in Int
    BY DEF Logits, NegInf, PosInf
  <2> QED
    BY <2>2, <2>3
<1>6. ASSUME NEW t \in Tokens
      PROVE  /\ Penalised(logits[t], c.penalty) \in Logits
             /\ Penalised(logits[t], c.penalty) = NegInf <=> logits[t] = NegInf
  <2>1. CASE logits[t] \in {NegInf, PosInf}
    <3>1. Penalised(logits[t], c.penalty) = logits[t]
      BY <2>1 DEF Penalised
    <3> QED
      BY <1>5, <3>1
  <2>2. CASE logits[t] \notin {NegInf, PosInf}
    <3>1. logits[t] \in Logits \ {NegInf, PosInf}
      BY <1>5, <2>2
    <3>2. Penalised(logits[t], c.penalty) \in Logits \ {NegInf, PosInf}
      BY <1>2, <3>1, SamplerAssumption
    <3> QED
      BY <2>2, <3>2
  <2> QED
    BY <2>1, <2>2
<1> QED
  BY <1>1, <1>2, <1>3, <1>4, <1>5, <1>6

\* The tokens that the reference penalises.
Recent(c, history) ==
    IF history = <<>> \/ c.repeatLastN = 0 THEN {}
    ELSE {history[i] : i \in Max({1, Len(history) - c.repeatLastN + 1})..Len(history)}

\* The marks are those tokens, where a penalty changes anything.
LEMMA WindowIs ==
    ASSUME NEW c, c.repeatLastN \in Nat, NEW history \in Seq(Nat), c.penalty[1] # c.penalty[2]
    PROVE  Window(c, history) = Recent(c, history) \cap Tokens
<1> DEFINE start == Max({0, Len(history) - c.repeatLastN})
           first == Max({1, Len(history) - c.repeatLastN + 1})
           l == Len(history)
<1>1. l \in Nat /\ (l = 0 <=> history = <<>>)
  BY EmptySeq
<1> HIDE DEF l
<1>2. start + 1 = first
  <2>1. ASSUME NEW a \in Int, NEW b \in Int PROVE Max({a, b}) = IF a >= b THEN a ELSE b
    <3>1. CASE a >= b
      <4>1. a \in {a, b} /\ \A y \in {a, b} : a >= y
        BY <3>1
      <4>2. \A x \in {a, b} : (\A y \in {a, b} : x >= y) => x = a
        BY <3>1
      <4>3. Max({a, b}) = a
        BY <4>1, <4>2 DEF Max
      <4> QED
        BY <3>1, <4>3
    <3>2. CASE ~(a >= b)
      <4>1. b \in {a, b} /\ \A y \in {a, b} : b >= y
        BY <3>2
      <4>2. \A x \in {a, b} : (\A y \in {a, b} : x >= y) => x = b
        BY <3>2
      <4>3. Max({a, b}) = b
        BY <4>1, <4>2 DEF Max
      <4> QED
        BY <3>2, <4>3
    <3> QED
      BY <3>1, <3>2
  <2> DEFINE d == l - c.repeatLastN
             e == l - c.repeatLastN + 1
  <2>2. d \in Int /\ e \in Int /\ e = d + 1 /\ 0 \in Int /\ 1 \in Int
    BY <1>1
  <2>3. start = Max({0, d}) /\ first = Max({1, e})
    BY DEF l
  <2> HIDE DEF d, e, start, first
  <2>4. Max({0, d}) = (IF 0 >= d THEN 0 ELSE d) /\ Max({1, e}) = (IF 1 >= e THEN 1 ELSE e)
    BY <2>1, <2>2
  <2> QED
    BY <2>2, <2>3, <2>4
<1>3. CASE c.repeatLastN = 0
  BY <1>3 DEF Window, Recent
<1>4. CASE c.repeatLastN # 0
  <2>1. Window(c, history) = {history[i] : i \in (start + 1)..l} \cap Tokens
    BY <1>4 DEF Window, l
  <2>2. Recent(c, history) = IF history = <<>> THEN {} ELSE {history[i] : i \in first..l}
    BY <1>4 DEF Recent, l
  <2>3. ASSUME history = <<>> PROVE {history[i] : i \in first..l} = {}
    <3>1. l = 0 /\ first >= 1 /\ first \in Int
      <4>1. l = 0
        BY <1>1, <2>3
      <4>2. {1, l - c.repeatLastN + 1} \in SUBSET Int /\ l - c.repeatLastN + 1 < 1
        BY <1>4, <4>1
      <4> DEFINE e == l - c.repeatLastN + 1
      <4>3. e \in Int /\ e < 1 /\ first = Max({1, e})
        BY <4>2 DEF l
      <4> HIDE DEF e, first
      <4>4. 1 \in {1, e} /\ \A y \in {1, e} : 1 >= y
        BY <4>3
      <4>5. \A x \in {1, e} : (\A y \in {1, e} : x >= y) => x = 1
        BY <4>3
      <4>6. Max({1, e}) = 1
        BY <4>4, <4>5 DEF Max
      <4> QED
        BY <4>1, <4>3, <4>6
    <3> HIDE DEF first
    <3>2. first..l = {}
      BY <3>1
    <3> QED
      BY <3>2
  <2> HIDE DEF start, first
  <2> QED
    BY <1>2, <2>1, <2>2, <2>3
<1> QED
  BY <1>3, <1>4

\* The logits the candidates have are those of the reference.
LEMMA EffectiveIs ==
    ASSUME NEW c \in SamplingConfigs, ConfigValid(c), NEW logits \in LogitVectors, ~HasNan(logits),
           NEW history \in Histories
    PROVE  LET logit == Effective(c, logits, Window(c, history))
           IN  /\ HasLogits(logit)
               /\ logit = Penalties(c, logits, history)
               /\ \A t \in Tokens : logit[t] = NegInf <=> logits[t] = NegInf
<1> DEFINE marks == Window(c, history)
           logit == Effective(c, logits, marks)
<1>1. /\ Settings(c) /\ c.repeatLastN \in Nat /\ Vocabulary \in Nat /\ Vocabulary > 0
      /\ c.penalty[1] \in Nat /\ c.penalty[1] > 0
      /\ history \in Seq(Nat)
      /\ \A t \in Tokens : logits[t] \in Logits /\ logits[t] \in Int
      /\ \A t \in Tokens : Penalised(logits[t], c.penalty) \in Logits
      /\ \A t \in Tokens : Penalised(logits[t], c.penalty) = NegInf <=> logits[t] = NegInf
  BY CallFacts
<1>2. logit = [t \in Tokens |-> IF t \in marks THEN Penalised(logits[t], c.penalty) ELSE logits[t]]
  BY DEF Effective
<1>3. Penalties(c, logits, history)
        = [t \in Tokens |-> IF t \in Recent(c, history) THEN Penalised(logits[t], c.penalty)
                                                         ELSE logits[t]]
  BY DEF Penalties, Recent
<1>4. ASSUME NEW t \in Tokens
      PROVE  (IF t \in marks THEN Penalised(logits[t], c.penalty) ELSE logits[t])
               = IF t \in Recent(c, history) THEN Penalised(logits[t], c.penalty) ELSE logits[t]
  <2>1. CASE c.penalty[1] = c.penalty[2]
    <3>1. logits[t] \in Int /\ c.penalty[1] \in Nat /\ c.penalty[1] > 0
      BY <1>1
    <3>2. Penalised(logits[t], c.penalty) = logits[t]
      BY <2>1, <3>1, NoPenalty
    <3> HIDE DEF marks
    <3> QED
      BY <3>2
  <2>2. CASE c.penalty[1] # c.penalty[2]
    <3>1. marks = Recent(c, history) \cap Tokens
      BY <1>1, <2>2, WindowIs
    <3> HIDE DEF marks
    <3> QED
      BY <3>1
  <2> QED
    BY <2>1, <2>2
<1> HIDE DEF marks, logit
<1>5. logit = Penalties(c, logits, history)
  BY <1>2, <1>3, <1>4
<1>6. \A t \in Tokens : logit[t] \in Logits /\ (logit[t] = NegInf <=> logits[t] = NegInf)
  BY <1>1, <1>2
<1>7. HasLogits(logit)
  <2>1. logit \in [Tokens -> Logits]
    BY <1>2, <1>6
  <2> QED
    BY <1>1, <2>1 DEF HasLogits
<1> QED
  BY <1>5, <1>6, <1>7 DEF logit, marks

-----------------------------------------------------------------------------
(* Sampler: calls. *)

\* A sampler's settings are valid ones, and what it returned last is what its
\* draw allows under the marks of that call's own history.
SamplerInv ==
    /\ sampler.made =>
          /\ sampler = [made |-> TRUE, config |-> sampler.config, repeated |-> sampler.repeated]
          /\ sampler.config \in SamplingConfigs /\ ConfigValid(sampler.config)
    /\ call.count > 0 =>
          /\ sampler.made
          /\ call.logits \in LogitVectors /\ call.history \in Histories
          /\ call.result \in Draws(sampler.config, call.logits, sampler.repeated)
          /\ ~HasNan(call.logits) => sampler.repeated = Window(sampler.config, call.history)

\* Every call keeps it.
LEMMA SamplerNextInv == SamplerInv /\ [SamplerNext]_samplerVars => SamplerInv'
<1> SUFFICES ASSUME SamplerInv, [SamplerNext]_samplerVars PROVE SamplerInv'
  OBVIOUS
<1>1. CASE UNCHANGED samplerVars
  BY <1>1 DEF SamplerInv, samplerVars
<1>2. ASSUME NEW c \in SamplingConfigs, NewSampler(c) PROVE SamplerInv'
  <2>1. ~sampler.made /\ ConfigValid(c) /\ call' = call
        /\ sampler' = [made |-> TRUE, config |-> c, repeated |-> {}]
    BY <1>2 DEF NewSampler
  <2>2. ~(call.count > 0)
    BY <2>1 DEF SamplerInv
  <2> QED
    BY <2>1, <2>2 DEF SamplerInv
<1>3. ASSUME NEW logits \in LogitVectors, NEW history \in Histories, Sample(logits, history)
      PROVE  SamplerInv'
  <2> DEFINE marks == IF HasNan(logits) THEN sampler.repeated
                      ELSE Marks(sampler.repeated, sampler.config, history)
  <2>1. sampler.made /\ sampler' = [sampler EXCEPT !.repeated = marks]
    BY <1>3 DEF Sample
  <2>2. PICK token \in Draws(sampler.config, logits, marks) :
            call' = [logits |-> logits, history |-> history, result |-> token,
                     count |-> call.count + 1]
    BY <1>3 DEF Sample
  <2>3. ~HasNan(logits) => marks = Window(sampler.config, history)
    BY DEF Marks
  <2> HIDE DEF marks
  <2>4. sampler = [made |-> TRUE, config |-> sampler.config, repeated |-> sampler.repeated]
        /\ sampler.config \in SamplingConfigs /\ ConfigValid(sampler.config)
    BY <2>1 DEF SamplerInv
  <2>5. sampler' = [made |-> TRUE, config |-> sampler.config, repeated |-> marks]
    BY <2>1, <2>4
  <2>6. sampler'.made /\ sampler'.config = sampler.config /\ sampler'.repeated = marks
    BY <2>5
  <2>7. call'.logits = logits /\ call'.history = history
        /\ call'.result \in Draws(sampler.config, logits, marks)
    BY <2>2
  <2>8. sampler' = [made |-> TRUE, config |-> sampler'.config, repeated |-> sampler'.repeated]
    BY <2>5, <2>6
  <2> QED
    BY <2>3, <2>4, <2>6, <2>7, <2>8 DEF SamplerInv
<1> QED
  BY <1>1, <1>2, <1>3 DEF SamplerNext

\* Sampler::sample returns what its own logits, history and settings allow, and
\* may return all of that: for every vocabulary, settings, logits and history,
\* sorting, truncation, penalties, infinite logits and reused buffers agree with
\* a reference that has none of them.
THEOREM DrawsSound == SamplerSpec => []DrawsExactlyAllowed
<1>1. SamplerIdle => SamplerInv
  <2>1. SamplerIdle => ~sampler.made /\ call.count = 0
    BY DEF SamplerIdle, NoCall
  <2> QED
    BY <2>1 DEF SamplerInv
<1>2. SamplerInv => DrawsExactlyAllowed
  <2> SUFFICES ASSUME SamplerInv, call.count > 0 PROVE DrawsExactlyAllowed
    BY DEF DrawsExactlyAllowed
  <2> DEFINE c == sampler.config
             logits == call.logits
             history == call.history
             marks == sampler.repeated
             allowed == {t \in Tokens : MayDraw(c, logits, history, t)}
  <2>1. /\ c \in SamplingConfigs /\ ConfigValid(c) /\ logits \in LogitVectors /\ history \in Histories
        /\ call.result \in Draws(c, logits, marks)
        /\ ~HasNan(logits) => marks = Window(c, history)
    BY DEF SamplerInv
  <2>2. CASE HasNan(logits)
    <3>1. Draws(c, logits, marks) = {NoToken}
      BY <2>2 DEF Draws
    <3> QED
      BY <2>1, <2>2, <3>1 DEF DrawsExactlyAllowed
  <2>3. CASE ~HasNan(logits)
    <3> DEFINE logit == Effective(c, logits, marks)
    <3> HIDE DEF c, logits, history, marks
    <3>1. /\ HasLogits(logit)
          /\ logit = Penalties(c, logits, history)
          /\ \A t \in Tokens : logit[t] = NegInf <=> logits[t] = NegInf
      BY <2>1, <2>3, EffectiveIs
    <3>2. Settings(c)
      BY <2>1, <2>3, CallFacts
    <3> HIDE DEF logit
    <3>3. /\ Draws(c, logits, marks) = IF Highest(logit) = NegInf THEN {NoToken} ELSE allowed
          /\ Highest(logit) = NegInf => allowed = {}
      BY <2>3, <3>1, <3>2, DrawsAre DEF logit
    <3>4. Highest(logit) = NegInf <=> \A t \in Tokens : logits[t] = NegInf
      <4> DEFINE s == Sorted(logit)
      <4>1. Ranked(s, logit)
        BY <3>1, SortedRanks
      <4> HIDE DEF s
      <4>2. 1 \in 1..Vocabulary /\ Highest(logit) = logit[s[1]] /\ s[1] \in Tokens
        BY <3>1, <4>1, HighestFirst, RankedPlaces
      <4>3. ASSUME logit[s[1]] = NegInf, NEW t \in Tokens PROVE logit[t] = NegInf
        <5>1. PICK i \in 1..Vocabulary : t = s[i]
          BY <3>1, <4>1, RankedPlaces
        <5>2. 1 <= i
          OBVIOUS
        <5>3. logit[s[i]] <= logit[s[1]]
          BY <3>1, <4>1, <4>2, <5>2, RankedPlaces
        <5> DEFINE x == logit[t]
        <5>4. x \in Logits /\ x <= NegInf
          BY <3>1, <4>3, <5>1, <5>3 DEF HasLogits
        <5> HIDE DEF x
        <5>5. x = NegInf
          BY <5>4 DEF Logits, NegInf, PosInf
        <5> QED
          BY <5>5 DEF x
      <4> QED
        BY <3>1, <4>2, <4>3
    <3>5. NoToken \notin allowed /\ allowed \subseteq Tokens
      BY NoTokenIsNone
    <3> HIDE DEF allowed
    <3>6. /\ call.result \in allowed \cup {NoToken}
          /\ (call.result = NoToken) = (\A t \in Tokens : logits[t] = NegInf)
          /\ Draws(c, logits, marks) \ {NoToken} = allowed
      <4>1. CASE Highest(logit) = NegInf
        BY <2>1, <3>3, <3>4, <3>5, <4>1
      <4>2. CASE Highest(logit) # NegInf
        BY <2>1, <3>3, <3>4, <3>5, <4>2
      <4> QED
        BY <4>1, <4>2
    <3> QED
      BY <2>3, <3>6 DEF DrawsExactlyAllowed, allowed, c, logits, history, marks
  <2> QED
    BY <2>2, <2>3
<1> QED
  BY <1>1, <1>2, SamplerNextInv, PTL DEF SamplerSpec
=============================================================================
