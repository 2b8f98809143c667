------------------------- MODULE ChatTemplate_proofs -------------------------
(***************************************************************************)
(* Proofs about ChatTemplate: an answer parsed from any text is parsed     *)
(* again, field by field, from the text it is written as.                  *)
(***************************************************************************)
EXTENDS ChatTemplate, SequenceTheorems, FiniteSetTheorems, WellFoundedInduction, TLAPS

-----------------------------------------------------------------------------
(* Numbers. *)

\* Every nonempty set of naturals has a least element.
LEMMA LeastNatural ==
   ASSUME NEW S \in SUBSET Nat, S # {}
   PROVE  Min(S) \in S /\ \A n \in S : Min(S) <= n
<1> DEFINE R == {p \in Nat \X Nat : p[1] < p[2]}
<1>1. IsWellFoundedOn(R, Nat)
  <2>1. OpToRel(<, Nat) = R
    BY DEF OpToRel
  <2> QED
    BY NatLessThanWellFounded, <2>1
<1>2. PICK m \in S : \A n \in S : ~(<<n, m>> \in R)
    BY <1>1, WFMin
<1>3. ASSUME NEW n \in S PROVE m <= n
  <2>1. m \in Nat /\ n \in Nat /\ ~(n < m)
    BY <1>2
  <2> QED
    BY <2>1
<1> QED
    BY <1>3 DEF Min

\* What holds of zero and of the successor of each number holds of all.
LEMMA EveryNatural ==
    ASSUME NEW S \in SUBSET Nat, 0 \in S, \A n \in S : n + 1 \in S
    PROVE  \A n \in Nat : n \in S
<1> SUFFICES ASSUME Nat \ S # {} PROVE FALSE
  OBVIOUS
<1> DEFINE m == Min(Nat \ S)
<1>1. m \in Nat /\ m \notin S /\ \A n \in Nat \ S : m <= n
  BY LeastNatural
<1> HIDE DEF m
<1>2. m - 1 \in Nat
  BY <1>1
<1>3. m - 1 \in S
  BY <1>1, <1>2
<1> QED
  BY <1>1, <1>3

\* A set of naturals that has whatever is below its members is an interval.
LEMMA Downward ==
    ASSUME NEW b \in Nat, NEW S \in SUBSET (1..b), \A j \in S : \A i \in 1..j : i \in S
    PROVE  Cardinality(S) \in 0..b /\ S = 1..Cardinality(S)
<1> DEFINE D == {n \in Nat : n > 0 /\ n \notin S}
           m == Min(D)
<1>1. b + 1 \in D
  OBVIOUS
<1>2. m \in D /\ \A n \in D : m <= n
  <2>1. D \in SUBSET Nat /\ D # {}
    BY <1>1
  <2> HIDE DEF D
  <2> QED
    BY <2>1, LeastNatural
<1> HIDE DEF m
<1>3. m \in Nat /\ m > 0 /\ m \notin S /\ m <= b + 1
  BY <1>1, <1>2
<1>4. ASSUME NEW i \in 1..(m - 1) PROVE i \in S
  <2>1. i \in Nat /\ i > 0 /\ ~(m <= i)
    BY <1>3
  <2> QED
    BY <1>2, <2>1
<1>5. ASSUME NEW j \in S PROVE j \in 1..(m - 1)
  <2>1. j \in 1..b /\ ~(m \in 1..j)
    BY <1>3
  <2> QED
    BY <1>3, <2>1
<1>6. S = 1..(m - 1)
  BY <1>4, <1>5, Zenon
<1>7. m - 1 \in 0..b
  BY <1>3
<1>8. Cardinality(1..(m - 1)) = m - 1
  <2> DEFINE k == m - 1
  <2>1. k \in Nat
    BY <1>3
  <2> HIDE DEF k
  <2>2. Cardinality(1..k) = IF 1 > k THEN 0 ELSE k - 1 + 1
    BY <2>1, FS_Interval
  <2>3. Cardinality(1..k) = k
    BY <2>1, <2>2
  <2> QED
    BY <2>3 DEF k
<1> QED
  BY <1>6, <1>7, <1>8

-----------------------------------------------------------------------------
(* Texts and marks. *)

\* Texts are closed under concatenation.
LEMMA TextConcat ==
    ASSUME NEW a \in Text, NEW b \in Text
    PROVE  /\ a \o b \in Text
           /\ Len(a \o b) = Len(a) + Len(b)
           /\ \A i \in 1..Len(a) : (a \o b)[i] = a[i]
           /\ \A i \in 1..Len(b) : (a \o b)[Len(a) + i] = b[i]
           /\ <<>> \in Text /\ <<>> \o a = a /\ a \o <<>> = a
           /\ Len(a) \in Nat /\ Len(b) \in Nat
<1>1. a \in Seq(Pieces) /\ b \in Seq(Pieces)
  BY DEF Text
<1>2. /\ a \o b \in Seq(Pieces) /\ Len(a \o b) = Len(a) + Len(b)
      /\ \A i \in 1..(Len(a) + Len(b)) : (a \o b)[i] = IF i <= Len(a) THEN a[i] ELSE b[i - Len(a)]
  BY <1>1, ConcatProperties
<1>3. Len(a) \in Nat /\ Len(b) \in Nat
  BY <1>1, LenProperties
<1> DEFINE la == Len(a)
           lb == Len(b)
           ab == a \o b
<1>4. la \in Nat /\ lb \in Nat /\ \A i \in 1..(la + lb) : ab[i] = IF i <= la THEN a[i] ELSE b[i - la]
  BY <1>2, <1>3
<1> HIDE DEF la, lb, ab
<1>5. \A i \in 1..la : ab[i] = a[i]
  BY <1>4
<1>6. ASSUME NEW i \in 1..lb PROVE ab[la + i] = b[i]
  <2>1. la + i \in 1..(la + lb) /\ ~(la + i <= la) /\ (la + i) - la = i
    BY <1>4
  <2> QED
    BY <1>4, <2>1
<1>8. <<>> \in Text /\ <<>> \o a = a /\ a \o <<>> = a
  BY <1>1, ConcatEmptySeq DEF Text
<1> QED
  BY <1>1, <1>2, <1>3, <1>5, <1>6, <1>8 DEF la, lb, ab, Text

\* Three texts.
LEMMA TextAssociative ==
    ASSUME NEW a \in Text, NEW b \in Text, NEW c \in Text
    PROVE  (a \o b) \o c = a \o (b \o c)
  BY ConcatAssociative DEF Text

\* A text and the piece before it.
LEMMA PieceFirst ==
    ASSUME NEW p \in Pieces, NEW t \in Text
    PROVE  /\ <<p>> \in Text /\ Len(<<p>>) = 1 /\ <<p>>[1] = p
           /\ <<p>> \o t \in Text
           /\ <<p>> \o t # <<>>
           /\ (<<p>> \o t)[1] = p
           /\ Len(<<p>> \o t) = Len(t) + 1
           /\ \A i \in 1..Len(t) : (<<p>> \o t)[i + 1] = t[i]
           /\ Tail(<<p>> \o t) = t
<1>1. <<p>> \in Text /\ Len(<<p>>) = 1 /\ <<p>>[1] = p
  BY DEF Text
<1> DEFINE u == <<p>>
<1>2. u \in Text /\ Len(u) = 1 /\ u[1] = p
  BY <1>1
<1> HIDE DEF u
<1> DEFINE c == u \o t
<1>3. /\ c \in Text /\ Len(c) = Len(u) + Len(t)
      /\ (\A i \in 1..Len(u) : c[i] = u[i]) /\ (\A i \in 1..Len(t) : c[Len(u) + i] = t[i])
      /\ Len(t) \in Nat
  BY <1>2, TextConcat
<1> HIDE DEF c
<1>4. Len(c) = Len(t) + 1 /\ c[1] = p /\ \A i \in 1..Len(t) : c[i + 1] = t[i]
  <2>1. 1 \in 1..Len(u)
    BY <1>2
  <2>2. \A i \in 1..Len(t) : i + 1 = Len(u) + i
    BY <1>2
  <2> QED
    BY <1>2, <1>3, <2>1, <2>2
<1>5. c # <<>>
  BY <1>3, <1>4
<1>6. Tail(c) = t
  <2>1. c \in Seq(Pieces) /\ t \in Seq(Pieces)
    BY <1>3 DEF Text
  <2>2. /\ Tail(c) \in Seq(Pieces) /\ Len(Tail(c)) = Len(c) - 1
        /\ \A i \in 1..Len(Tail(c)) : Tail(c)[i] = c[i + 1]
    BY <1>5, <2>1, HeadTailProperties
  <2> DEFINE r == Tail(c)
  <2>3. r \in Seq(Pieces) /\ Len(r) = Len(t) /\ \A i \in 1..Len(r) : r[i] = t[i]
    <3>1. Len(c) - 1 = Len(t)
      BY <1>3, <1>4
    <3> QED
      BY <1>4, <2>2, <3>1
  <2> HIDE DEF r
  <2>4. r = t
    BY <2>1, <2>3, SeqEqual
  <2> QED
    BY <2>4 DEF r
<1> QED
  BY <1>1, <1>3, <1>4, <1>5, <1>6 DEF c, u

\* A text that is not empty has a first piece and a rest.
LEMMA TextTail ==
    ASSUME NEW t \in Text, t # <<>>
    PROVE  /\ t[1] \in Pieces /\ Tail(t) \in Text /\ Len(t) \in Nat \ {0}
           /\ \A x : Holds(Tail(t), x) => Holds(t, x)
<1>1. t \in Seq(Pieces)
  BY DEF Text
<1>2. /\ Tail(t) \in Seq(Pieces) /\ Len(Tail(t)) = Len(t) - 1
      /\ \A i \in 1..Len(Tail(t)) : Tail(t)[i] = t[i + 1]
  BY <1>1, HeadTailProperties
<1>3. Len(t) \in Nat \ {0}
  BY <1>1, EmptySeq
<1>4. t[1] \in Pieces
  <2>1. 1 \in 1..Len(t)
    BY <1>3
  <2> QED
    BY <1>1, <2>1, ElementOfSeq
<1>5. ASSUME NEW x, Holds(Tail(t), x) PROVE Holds(t, x)
  <2>1. PICK i \in 1..Len(Tail(t)) : Tail(t)[i] = x
    BY <1>5 DEF Holds, Contains
  <2>2. i + 1 \in 1..Len(t) /\ t[i + 1] = x
    BY <1>2, <1>3, <2>1
  <2> QED
    BY <2>2 DEF Holds, Contains
<1> QED
  BY <1>2, <1>3, <1>4, <1>5 DEF Text

\* A concatenation holds what its parts hold.
LEMMA HoldsConcat ==
    ASSUME NEW a \in Text, NEW b \in Text, NEW x
    PROVE  Holds(a \o b, x) <=> Holds(a, x) \/ Holds(b, x)
<1> DEFINE c == a \o b
<1>1. /\ Len(c) = Len(a) + Len(b) /\ Len(a) \in Nat /\ Len(b) \in Nat
      /\ \A i \in 1..Len(a) : c[i] = a[i]
      /\ \A i \in 1..Len(b) : c[Len(a) + i] = b[i]
  BY TextConcat
<1> HIDE DEF c
<1>2. ASSUME Holds(a, x) PROVE Holds(c, x)
  <2>1. PICK i \in 1..Len(a) : a[i] = x
    BY <1>2 DEF Holds, Contains
  <2>2. i \in 1..Len(c) /\ c[i] = x
    BY <1>1, <2>1
  <2> QED
    BY <2>2 DEF Holds, Contains
<1>3. ASSUME Holds(b, x) PROVE Holds(c, x)
  <2>1. PICK i \in 1..Len(b) : b[i] = x
    BY <1>3 DEF Holds, Contains
  <2>2. Len(a) + i \in 1..Len(c) /\ c[Len(a) + i] = x
    BY <1>1, <2>1
  <2> QED
    BY <2>2 DEF Holds, Contains
<1>4. ASSUME Holds(c, x) PROVE Holds(a, x) \/ Holds(b, x)
  <2>1. PICK i \in 1..Len(c) : c[i] = x
    BY <1>4 DEF Holds, Contains
  <2>2. CASE i <= Len(a)
    <3>1. i \in 1..Len(a) /\ a[i] = x
      BY <1>1, <2>1, <2>2
    <3> QED
      BY <3>1 DEF Holds, Contains
  <2>3. CASE ~(i <= Len(a))
    <3>1. i - Len(a) \in 1..Len(b) /\ Len(a) + (i - Len(a)) = i
      BY <1>1, <2>1, <2>3
    <3>2. b[i - Len(a)] = x
      BY <1>1, <2>1, <3>1
    <3> QED
      BY <3>1, <3>2 DEF Holds, Contains
  <2> QED
    BY <2>2, <2>3
<1> QED
  BY <1>2, <1>3, <1>4 DEF c

\* What the empty text and a piece hold.
LEMMA HoldsPiece ==
    ASSUME NEW x
    PROVE  ~Holds(<<>>, x) /\ \A p : Holds(<<p>>, x) <=> p = x
<1>1. ~Holds(<<>>, x)
  BY DEF Holds, Contains
<1>2. ASSUME NEW p PROVE Holds(<<p>>, x) <=> p = x
  <2>1. Len(<<p>>) = 1 /\ <<p>>[1] = p
    OBVIOUS
  <2>2. 1..1 = {1}
    OBVIOUS
  <2> QED
    BY <2>1, <2>2 DEF Holds, Contains
<1> QED
  BY <1>1, <1>2

\* Where a mark stands first.
FirstMark(t, m) == SelectInSeq(t, LAMBDA p : p = m)

\* It stands there, and nowhere before.
LEMMA FirstMarkIs ==
    ASSUME NEW t \in Text, NEW m, Holds(t, m)
    PROVE  /\ FirstMark(t, m) \in 1..Len(t) /\ t[FirstMark(t, m)] = m
           /\ \A i \in 1..Len(t) : t[i] = m => FirstMark(t, m) <= i
<1> DEFINE I == {i \in 1..Len(t) : t[i] = m}
<1>1. I # {} /\ I \in SUBSET Nat
  BY DEF Holds, Contains
<1>2. FirstMark(t, m) = Min(I)
  BY <1>1 DEF FirstMark, SelectInSeq
<1>3. Min(I) \in I /\ \A i \in I : Min(I) <= i
  BY <1>1, LeastNatural
<1> QED
  BY <1>2, <1>3

\* What stands before and after the first mark: parts of the text, the first
\* without the mark.
LEMMA MarkCuts ==
    ASSUME NEW t \in Text, NEW m, Holds(t, m)
    PROVE  /\ BeforeMark(t, m) \in Text /\ AfterMark(t, m) \in Text
           /\ ~Holds(BeforeMark(t, m), m)
           /\ \A x : Holds(BeforeMark(t, m), x) => Holds(t, x)
           /\ \A x : Holds(AfterMark(t, m), x) => Holds(t, x)
<1> DEFINE f == FirstMark(t, m)
           n == Len(t)
           a == SubSeq(t, 1, f - 1)
           b == SubSeq(t, f + 1, n)
<1>1. BeforeMark(t, m) = a /\ AfterMark(t, m) = b
  BY DEF BeforeMark, AfterMark, FirstMark
<1>2. f \in 1..n /\ n \in Nat /\ \A i \in 1..n : t[i] = m => f <= i
  BY FirstMarkIs DEF Text
<1>3. \A i \in 1..n : t[i] \in Pieces
  BY ElementOfSeq DEF Text
<1> HIDE DEF f, n
<1>4. a \in Seq(Pieces) /\ Len(a) = f - 1 /\ \A i \in 1..(f - 1) : a[i] = t[i]
  <2> DEFINE l == f - 1
  <2>1. l \in Nat /\ l <= n /\ 1 \in Int /\ \A i \in 1..l : t[i] \in Pieces
    BY <1>2, <1>3
  <2> HIDE DEF l
  <2>2. /\ SubSeq(t, 1, l) \in Seq(Pieces)
        /\ Len(SubSeq(t, 1, l)) = IF 1 <= l THEN l - 1 + 1 ELSE 0
        /\ \A i \in 1..(l - 1 + 1) : SubSeq(t, 1, l)[i] = t[1 + i - 1]
    BY <2>1, SubSeqProperties
  <2>3. (IF 1 <= l THEN l - 1 + 1 ELSE 0) = l /\ l - 1 + 1 = l /\ \A i \in 1..l : 1 + i - 1 = i
    BY <2>1
  <2>4. SubSeq(t, 1, l) \in Seq(Pieces) /\ Len(SubSeq(t, 1, l)) = l /\ \A i \in 1..l : SubSeq(t, 1, l)[i] = t[i]
    BY <2>2, <2>3
  <2> QED
    BY <2>4 DEF l
<1>5. b \in Seq(Pieces) /\ Len(b) = n - f /\ \A i \in 1..(n - f) : b[i] = t[f + i]
  <2> DEFINE l == f + 1
  <2>1. l \in Int /\ n \in Int /\ \A i \in l..n : t[i] \in Pieces
    BY <1>2, <1>3
  <2>2. l \in Int /\ l <= n + 1
    BY <1>2
  <2> HIDE DEF l
  <2>3. /\ SubSeq(t, l, n) \in Seq(Pieces)
        /\ Len(SubSeq(t, l, n)) = IF l <= n THEN n - l + 1 ELSE 0
        /\ \A i \in 1..(n - l + 1) : SubSeq(t, l, n)[i] = t[l + i - 1]
    BY <2>1, SubSeqProperties
  <2>4. (IF l <= n THEN n - l + 1 ELSE 0) = n - f /\ n - l + 1 = n - f /\ \A i \in 1..(n - f) : l + i - 1 = f + i
    BY <1>2, <2>2 DEF l
  <2>5. SubSeq(t, l, n) \in Seq(Pieces) /\ Len(SubSeq(t, l, n)) = n - f /\ \A i \in 1..(n - f) : SubSeq(t, l, n)[i] = t[f + i]
    BY <2>3, <2>4
  <2> QED
    BY <2>5 DEF l
<1> HIDE DEF a, b
<1>6. ~Holds(a, m)
  <2>1. ASSUME NEW i \in 1..Len(a) PROVE a[i] # m
    <3>1. i \in 1..n /\ a[i] = t[i] /\ ~(f <= i)
      BY <1>2, <1>4
    <3> QED
      BY <1>2, <3>1
  <2> QED
    BY <2>1 DEF Holds, Contains
<1>7. ASSUME NEW x, Holds(a, x) PROVE Holds(t, x)
  <2>1. PICK i \in 1..Len(a) : a[i] = x
    BY <1>7 DEF Holds, Contains
  <2>2. i \in 1..n /\ t[i] = x
    BY <1>2, <1>4, <2>1
  <2> QED
    BY <2>2 DEF Holds, Contains, n
<1>8. ASSUME NEW x, Holds(b, x) PROVE Holds(t, x)
  <2>1. PICK i \in 1..Len(b) : b[i] = x
    BY <1>8 DEF Holds, Contains
  <2>2. f + i \in 1..n /\ t[f + i] = x
    BY <1>2, <1>5, <2>1
  <2> QED
    BY <2>2 DEF Holds, Contains, n
<1> QED
  BY <1>1, <1>4, <1>5, <1>6, <1>7, <1>8 DEF Text

\* A mark put between two texts, the first without it, cuts there.
LEMMA MarkFound ==
    ASSUME NEW a \in Text, NEW m \in Pieces, NEW b \in Text, ~Holds(a, m)
    PROVE  /\ Holds(a \o (<<m>> \o b), m)
           /\ BeforeMark(a \o (<<m>> \o b), m) = a
           /\ AfterMark(a \o (<<m>> \o b), m) = b
<1> DEFINE mb == <<m>> \o b
           t == a \o mb
           f == FirstMark(t, m)
<1>1. mb \in Text /\ mb[1] = m /\ Len(mb) = Len(b) + 1 /\ \A i \in 1..Len(b) : mb[i + 1] = b[i]
  BY PieceFirst
<1> HIDE DEF mb
<1>2. /\ t \in Text /\ Len(t) = Len(a) + Len(mb) /\ Len(a) \in Nat /\ Len(b) \in Nat
      /\ \A i \in 1..Len(a) : t[i] = a[i]
      /\ \A i \in 1..Len(mb) : t[Len(a) + i] = mb[i]
  BY <1>1, TextConcat
<1> HIDE DEF t
<1>3. Len(t) = Len(a) + Len(b) + 1 /\ t[Len(a) + 1] = m
  BY <1>1, <1>2
<1>4. ASSUME NEW i \in 1..Len(b) PROVE t[Len(a) + 1 + i] = b[i]
  <2>1. i + 1 \in 1..Len(mb) /\ Len(a) + (i + 1) = Len(a) + 1 + i
    BY <1>1, <1>2
  <2> QED
    BY <1>1, <1>2, <2>1
<1>5. Holds(t, m)
  <2>1. Len(a) + 1 \in 1..Len(t)
    BY <1>2, <1>3
  <2> QED
    BY <1>3, <2>1 DEF Holds, Contains
<1>6. f = Len(a) + 1
  <2>1. f \in 1..Len(t) /\ t[f] = m /\ \A i \in 1..Len(t) : t[i] = m => f <= i
    BY <1>2, <1>5, FirstMarkIs
  <2> HIDE DEF f
  <2>2. f <= Len(a) + 1
    <3>1. Len(a) + 1 \in 1..Len(t)
      BY <1>2, <1>3
    <3> QED
      BY <1>3, <2>1, <3>1
  <2>3. ~(f <= Len(a))
    <3>1. ASSUME f <= Len(a) PROVE FALSE
      <4>1. f \in 1..Len(a) /\ a[f] = m
        BY <1>2, <2>1, <3>1
      <4> QED
        BY <4>1 DEF Holds, Contains
    <3> QED
      BY <3>1
  <2> QED
    BY <1>2, <2>1, <2>2, <2>3
<1>7. BeforeMark(t, m) \in Text /\ AfterMark(t, m) \in Text
  BY <1>2, <1>5, MarkCuts
<1> DEFINE u == SubSeq(t, 1, f - 1)
           v == SubSeq(t, f + 1, Len(t))
<1>8. BeforeMark(t, m) = u /\ AfterMark(t, m) = v
  BY DEF BeforeMark, AfterMark, FirstMark
<1> HIDE DEF f
<1>9. u = a
  <2> DEFINE l == Len(a)
  <2>1. u = SubSeq(t, 1, l) /\ l \in Nat
    BY <1>2, <1>6
  <2> HIDE DEF l, u
  <2>2. \A i \in 1..l : t[i] \in Pieces
    BY <1>2, ElementOfSeq DEF l, Text
  <2>3. /\ Len(SubSeq(t, 1, l)) = IF 1 <= l THEN l - 1 + 1 ELSE 0
        /\ \A i \in 1..(l - 1 + 1) : SubSeq(t, 1, l)[i] = t[1 + i - 1]
    <3>1. 1 \in Int /\ l \in Int
      BY <2>1
    <3> QED
      BY <2>2, <3>1, SubSeqProperties
  <2>4. (IF 1 <= l THEN l - 1 + 1 ELSE 0) = l /\ l - 1 + 1 = l /\ \A i \in 1..l : 1 + i - 1 = i
    BY <2>1
  <2>5. Len(u) = l /\ \A i \in 1..l : u[i] = t[i]
    BY <2>1, <2>3, <2>4
  <2>6. u \in Seq(Pieces) /\ a \in Seq(Pieces) /\ Len(u) = Len(a) /\ \A i \in 1..Len(u) : u[i] = a[i]
    BY <1>2, <1>7, <1>8, <2>5 DEF l, Text
  <2> QED
    BY <2>6, SeqEqual
<1>10. v = b
  <2> DEFINE l == Len(a) + 2
             n == Len(t)
  <2>1. v = SubSeq(t, l, n) /\ l \in Int /\ n \in Int /\ l > 0
    <3>1. f + 1 = l
      BY <1>2, <1>6
    <3> QED
      BY <1>2, <1>3, <3>1
  <2>2. n - l + 1 = Len(b) /\ (IF l <= n THEN n - l + 1 ELSE 0) = Len(b)
    BY <1>2, <1>3
  <2>3. ASSUME NEW i \in 1..Len(b) PROVE l + i - 1 = Len(a) + 1 + i
    BY <1>2
  <2> HIDE DEF l, n, v
  <2>4. \A i \in l..n : t[i] \in Pieces
    <3>1. \A i \in l..n : i \in 1..Len(t)
      BY <2>1 DEF n
    <3> QED
      BY <1>2, <3>1, ElementOfSeq DEF Text
  <2>5. /\ Len(SubSeq(t, l, n)) = IF l <= n THEN n - l + 1 ELSE 0
        /\ \A i \in 1..(n - l + 1) : SubSeq(t, l, n)[i] = t[l + i - 1]
    BY <2>1, <2>4, SubSeqProperties
  <2>6. Len(v) = Len(b) /\ \A i \in 1..Len(b) : v[i] = b[i]
    BY <1>4, <2>1, <2>2, <2>3, <2>5
  <2>7. v \in Seq(Pieces) /\ b \in Seq(Pieces) /\ Len(v) = Len(b) /\ \A i \in 1..Len(v) : v[i] = b[i]
    BY <1>7, <1>8, <2>6 DEF Text
  <2> QED
    BY <2>7, SeqEqual
<1> QED
  BY <1>5, <1>8, <1>9, <1>10 DEF t, mb

-----------------------------------------------------------------------------
(* Line ends before a text. *)

\* Where a text's first piece stands that is no line end.
FirstWord(t) == SelectInSeq(t, LAMBDA p : p # "\n")

\* It stands there, and nowhere before; there is none if all are line ends.
LEMMA FirstWordIs ==
    ASSUME NEW t \in Text
    PROVE  /\ FirstWord(t) \in 0..Len(t)
           /\ FirstWord(t) # 0 => t[FirstWord(t)] # "\n"
           /\ \A i \in 1..Len(t) : t[i] # "\n" => FirstWord(t) # 0 /\ FirstWord(t) <= i
<1> DEFINE I == {i \in 1..Len(t) : t[i] # "\n"}
<1>1. Len(t) \in Nat
  BY DEF Text
<1>2. FirstWord(t) = IF I # {} THEN Min(I) ELSE 0
  BY DEF FirstWord, SelectInSeq
<1>3. CASE I = {}
  <2>1. FirstWord(t) = 0
    BY <1>2, <1>3
  <2>2. \A i \in 1..Len(t) : ~(t[i] # "\n")
    BY <1>3
  <2> QED
    BY <1>1, <2>1, <2>2
<1>4. CASE I # {}
  <2>1. I \in SUBSET Nat
    BY <1>1
  <2>2. Min(I) \in I /\ \A i \in I : Min(I) <= i
    BY <1>4, <2>1, LeastNatural
  <2>3. FirstWord(t) = Min(I)
    BY <1>2, <1>4
  <2> DEFINE f == FirstWord(t)
  <2>4. f \in I /\ \A i \in I : f <= i
    BY <2>2, <2>3
  <2> HIDE DEF f
  <2>5. f \in 0..Len(t) /\ t[f] # "\n" /\ \A i \in 1..Len(t) : t[i] # "\n" => f # 0 /\ f <= i
    BY <1>1, <2>4
  <2> QED
    BY <2>5 DEF f
<1> QED
  BY <1>3, <1>4

\* The end of a text from a place on.
LEMMA TextFrom ==
    ASSUME NEW t \in Text, NEW f \in 1..Len(t)
    PROVE  /\ SubSeq(t, f, Len(t)) \in Text
           /\ Len(SubSeq(t, f, Len(t))) = Len(t) - f + 1
           /\ \A i \in 1..(Len(t) - f + 1) : SubSeq(t, f, Len(t))[i] = t[f + i - 1]
<1> DEFINE n == Len(t)
<1>1. n \in Nat /\ n \in Int /\ f \in Int /\ f <= n /\ f \in Nat /\ f > 0
  BY DEF Text
<1>2. \A i \in f..n : t[i] \in Pieces
  <2>1. \A i \in f..n : i \in 1..n
    BY <1>1
  <2> QED
    BY <2>1, ElementOfSeq DEF Text
<1> HIDE DEF n
<1>3. /\ SubSeq(t, f, n) \in Seq(Pieces)
      /\ Len(SubSeq(t, f, n)) = IF f <= n THEN n - f + 1 ELSE 0
      /\ \A i \in 1..(n - f + 1) : SubSeq(t, f, n)[i] = t[f + i - 1]
  BY <1>1, <1>2, SubSeqProperties
<1> QED
  BY <1>1, <1>3 DEF n, Text

\* Trimming leaves an end of the text.
LEMMA TrimIs ==
    ASSUME NEW t \in Text
    PROVE  /\ TrimNewlines(t) \in Text
           /\ \A x : Holds(TrimNewlines(t), x) => Holds(t, x)
           /\ t # <<>> /\ t[1] # "\n" => TrimNewlines(t) = t
<1> DEFINE f == FirstWord(t)
<1>1. f \in 0..Len(t) /\ (f # 0 => t[f] # "\n")
      /\ \A i \in 1..Len(t) : t[i] # "\n" => f # 0 /\ f <= i
  BY FirstWordIs
<1>2. TrimNewlines(t) = IF f = 0 THEN <<>> ELSE SubSeq(t, f, Len(t))
  BY DEF TrimNewlines, From, FirstWord
<1>3. Len(t) \in Nat
  BY DEF Text
<1> HIDE DEF f
<1>4. CASE f = 0
  <2>1. TrimNewlines(t) = <<>>
    BY <1>2, <1>4
  <2>2. <<>> \in Text /\ \A x : ~Holds(<<>>, x)
    BY HoldsPiece DEF Text
  <2>3. t # <<>> => t[1] = "\n"
    <3>1. ASSUME t # <<>> PROVE 1 \in 1..Len(t)
      <4>1. Len(t) \in Nat \ {0}
        BY <3>1, TextTail
      <4> QED
        BY <4>1
    <3> QED
      BY <1>1, <1>4, <3>1
  <2> QED
    BY <2>1, <2>2, <2>3
<1>5. CASE f # 0
  <2> DEFINE b == SubSeq(t, f, Len(t))
  <2>1. TrimNewlines(t) = b /\ f \in 1..Len(t)
    BY <1>1, <1>2, <1>3, <1>5
  <2>2. b \in Text /\ Len(b) = Len(t) - f + 1 /\ \A i \in 1..(Len(t) - f + 1) : b[i] = t[f + i - 1]
    BY <2>1, TextFrom
  <2>3. t # <<>> /\ t[1] # "\n" => b = t
    <3>1. ASSUME t # <<>>, t[1] # "\n" PROVE b = SubSeq(t, 1, Len(t))
      <4>1. f = 1
        <5>1. 1 \in 1..Len(t)
          BY <1>3, <2>1
        <5> QED
          BY <1>1, <3>1, <5>1, <2>1
      <4> QED
        BY <4>1
    <3> QED
      BY <3>1, SubSeqFull DEF Text
  <2> HIDE DEF b
  <2>4. ASSUME NEW x, Holds(b, x) PROVE Holds(t, x)
    <3>1. PICK i \in 1..Len(b) : b[i] = x
      BY <2>4 DEF Holds, Contains
    <3>2. f + i - 1 \in 1..Len(t) /\ t[f + i - 1] = x
      BY <1>3, <2>1, <2>2, <3>1
    <3> QED
      BY <3>2 DEF Holds, Contains
  <2> QED
    BY <2>1, <2>2, <2>3, <2>4
<1> QED
  BY <1>4, <1>5

\* A line end before a text is trimmed with those that follow.
LEMMA TrimLine ==
    ASSUME NEW t \in Text, "\n" \in Pieces
    PROVE  <<"\n">> \o t \in Text /\ TrimNewlines(<<"\n">> \o t) = TrimNewlines(t)
<1> DEFINE c == <<"\n">> \o t
           f == FirstWord(t)
           g == FirstWord(c)
<1>1. c \in Text /\ c[1] = "\n" /\ Len(c) = Len(t) + 1 /\ \A i \in 1..Len(t) : c[i + 1] = t[i]
  BY PieceFirst
<1> HIDE DEF c
<1>2. Len(t) \in Nat
  BY DEF Text
<1>3. f \in 0..Len(t) /\ (f # 0 => t[f] # "\n")
      /\ \A i \in 1..Len(t) : t[i] # "\n" => f # 0 /\ f <= i
  BY FirstWordIs
<1>4. g \in 0..Len(c) /\ (g # 0 => c[g] # "\n")
      /\ \A i \in 1..Len(c) : c[i] # "\n" => g # 0 /\ g <= i
  BY <1>1, FirstWordIs
<1>5. TrimNewlines(t) = (IF f = 0 THEN <<>> ELSE SubSeq(t, f, Len(t)))
      /\ TrimNewlines(c) = (IF g = 0 THEN <<>> ELSE SubSeq(c, g, Len(c)))
  BY DEF TrimNewlines, From, FirstWord
<1> HIDE DEF f, g
<1>6. g # 0 => g - 1 \in 1..Len(t) /\ t[g - 1] # "\n"
  <2>1. SUFFICES ASSUME g # 0 PROVE g - 1 \in 1..Len(t) /\ t[g - 1] # "\n"
    OBVIOUS
  <2>2. g # 1
    BY <1>1, <1>4, <2>1
  <2>3. g - 1 \in 1..Len(t) /\ (g - 1) + 1 = g
    BY <1>1, <1>2, <1>4, <2>1, <2>2
  <2>4. c[g] = t[g - 1]
    BY <1>1, <2>3
  <2> QED
    BY <1>4, <2>1, <2>3, <2>4
<1>7. f # 0 => f + 1 \in 1..Len(c) /\ c[f + 1] # "\n"
  BY <1>1, <1>2, <1>3
<1>8. CASE f = 0
  <2>1. g = 0
    BY <1>3, <1>6, <1>8
  <2> QED
    BY <1>1, <1>5, <1>8, <2>1 DEF c
<1>9. CASE f # 0
  <2>1. g = f + 1
    <3>1. g # 0 /\ g <= f + 1
      BY <1>4, <1>7, <1>9
    <3>2. f <= g - 1
      BY <1>3, <1>6, <3>1
    <3> QED
      BY <1>2, <1>3, <1>4, <3>1, <3>2
  <2> DEFINE u == SubSeq(t, f, Len(t))
             v == SubSeq(c, g, Len(c))
  <2>2. f \in 1..Len(t) /\ g \in 1..Len(c)
    BY <1>1, <1>2, <1>3, <1>9, <2>1
  <2>3. u \in Text /\ Len(u) = Len(t) - f + 1 /\ \A i \in 1..(Len(t) - f + 1) : u[i] = t[f + i - 1]
    BY <2>2, TextFrom
  <2>4. v \in Text /\ Len(v) = Len(c) - g + 1 /\ \A i \in 1..(Len(c) - g + 1) : v[i] = c[g + i - 1]
    BY <1>1, <2>2, TextFrom
  <2>5. TrimNewlines(t) = u /\ TrimNewlines(c) = v
    BY <1>5, <1>9, <2>2
  <2> HIDE DEF u, v
  <2>6. Len(c) - g + 1 = Len(t) - f + 1
    BY <1>1, <1>2, <2>1, <2>2
  <2>7. ASSUME NEW i \in 1..(Len(t) - f + 1) PROVE v[i] = u[i]
    <3>1. g + i - 1 = (f + i - 1) + 1 /\ f + i - 1 \in 1..Len(t)
      BY <1>2, <2>1, <2>2
    <3> QED
      BY <1>1, <2>3, <2>4, <2>6, <3>1
  <2>8. v = u
    BY <2>3, <2>4, <2>6, <2>7, SeqEqual DEF Text
  <2> QED
    BY <1>1, <2>5, <2>8 DEF c
<1> QED
  BY <1>8, <1>9

\* Nothing is left of line ends.
LEMMA TrimNothing ==
    ASSUME "\n" \in Pieces
    PROVE  TrimNewlines(<<>>) = <<>> /\ TrimNewlines(<<"\n">>) = <<>>
<1> DEFINE e == <<>>
<1>1. e \in Text /\ Len(e) = 0
  BY DEF Text
<1>2. TrimNewlines(e) = <<>>
  <2>1. FirstWord(e) \in 0..0
    BY <1>1, FirstWordIs
  <2>2. TrimNewlines(e) = IF FirstWord(e) = 0 THEN <<>> ELSE SubSeq(e, FirstWord(e), Len(e))
    BY DEF TrimNewlines, From, FirstWord
  <2> HIDE DEF e
  <2> QED
    BY <2>1, <2>2
<1>3. TrimNewlines(<<"\n">> \o e) = TrimNewlines(e)
  BY <1>1, TrimLine
<1>4. <<"\n">> \o e = <<"\n">>
  <2>1. <<"\n">> \in Text
    BY PieceFirst, <1>1
  <2> QED
    BY <2>1, TextConcat
<1> QED
  BY <1>2, <1>3, <1>4

-----------------------------------------------------------------------------
(* Texts one after the other. *)

\* The function FlattenSeq chooses.
IsFlat(f, s, n) == f = [i \in 1..n |-> IF i = 1 THEN s[i] ELSE f[i - 1] \o s[i]]

\* There is such a function up to every number.
LEMMA FlatExists ==
    ASSUME NEW s, NEW n \in Nat
    PROVE  \E f : IsFlat(f, s, n)
<1> DEFINE S == {k \in Nat : \E f : IsFlat(f, s, k)}
<1>1. 0 \in S
  <2> DEFINE f == [i \in 1..0 |-> s[i]]
             v == [i \in 1..0 |-> IF i = 1 THEN s[i] ELSE f[i - 1] \o s[i]]
  <2>1. \A i \in 1..0 : f[i] = v[i]
    OBVIOUS
  <2>2. f = [i \in 1..0 |-> f[i]] /\ v = [i \in 1..0 |-> v[i]]
    OBVIOUS
  <2>3. f = v
    <3> HIDE DEF f, v
    <3> QED
      BY <2>1, <2>2
  <2>4. IsFlat(f, s, 0)
    BY <2>3 DEF IsFlat
  <2> QED
    BY <2>4
<1>2. ASSUME NEW k \in S PROVE k + 1 \in S
  <2>1. PICK f : IsFlat(f, s, k)
    OBVIOUS
  <2>2. k \in Nat /\ k + 1 \in Nat
    OBVIOUS
  <2> DEFINE u == [i \in 1..(k + 1) |-> IF i <= k THEN f[i] ELSE IF i = 1 THEN s[i] ELSE f[k] \o s[i]]
             v == [i \in 1..(k + 1) |-> IF i = 1 THEN s[i] ELSE u[i - 1] \o s[i]]
  <2>3. f = [i \in 1..k |-> IF i = 1 THEN s[i] ELSE f[i - 1] \o s[i]]
    BY <2>1 DEF IsFlat
  <2>4. ASSUME NEW i \in 1..(k + 1) PROVE u[i] = v[i]
    <3>1. v[i] = IF i = 1 THEN s[i] ELSE u[i - 1] \o s[i]
      OBVIOUS
    <3>2. u[i] = IF i <= k THEN f[i] ELSE IF i = 1 THEN s[i] ELSE f[k] \o s[i]
      OBVIOUS
    <3>3. i # 1 => u[i - 1] = f[i - 1]
      <4>1. SUFFICES ASSUME i # 1 PROVE u[i - 1] = f[i - 1]
        OBVIOUS
      <4>2. i - 1 \in 1..(k + 1) /\ i - 1 <= k
        BY <2>2, <4>1
      <4> QED
        BY <4>2
    <3> HIDE DEF u, v
    <3>4. CASE i <= k
      <4>1. i \in 1..k
        BY <3>4
      <4>2. f[i] = IF i = 1 THEN s[i] ELSE f[i - 1] \o s[i]
        BY <2>3, <4>1
      <4> QED
        BY <3>1, <3>2, <3>3, <3>4, <4>2
    <3>5. CASE ~(i <= k)
      <4>1. i - 1 = k
        BY <2>2, <3>5
      <4> QED
        BY <3>1, <3>2, <3>3, <3>5, <4>1
    <3> QED
      BY <3>4, <3>5
  <2>5. u = v
    <3>1. u = [i \in 1..(k + 1) |-> u[i]] /\ v = [i \in 1..(k + 1) |-> v[i]]
      OBVIOUS
    <3> HIDE DEF u, v
    <3> QED
      BY <2>4, <3>1
  <2>6. IsFlat(u, s, k + 1)
    BY <2>5 DEF IsFlat
  <2> HIDE DEF u, v
  <2> QED
    BY <2>2, <2>6
<1>3. S \in SUBSET Nat
  OBVIOUS
<1> HIDE DEF S
<1>4. n \in S
  BY <1>1, <1>2, <1>3, EveryNatural
<1> QED
  BY <1>4 DEF S

\* The first n of the texts, one after the other.
Flat(s, n) == IF n = 0 THEN <<>> ELSE (CHOOSE f : IsFlat(f, s, n))[n]

\* Two such functions agree where both are defined.
LEMMA FlatsAgree ==
    ASSUME NEW s, NEW n \in Nat, NEW m \in Nat, NEW f, NEW g, IsFlat(f, s, n), IsFlat(g, s, m),
           NEW k \in Nat, k > 0, k <= n, k <= m
    PROVE  f[k] = g[k]
<1> DEFINE S == {i \in Nat : i + 1 <= n /\ i + 1 <= m => f[i + 1] = g[i + 1]}
<1>1. 0 \in S
  <2>1. 1 \in 1..n /\ 1 \in 1..m
    OBVIOUS
  <2>2. f[1] = s[1] /\ g[1] = s[1]
    BY <2>1 DEF IsFlat
  <2>3. 0 + 1 = 1
    OBVIOUS
  <2> QED
    BY <2>2, <2>3
<1>2. ASSUME NEW i \in S PROVE i + 1 \in S
  <2>1. SUFFICES ASSUME (i + 1) + 1 <= n, (i + 1) + 1 <= m PROVE f[(i + 1) + 1] = g[(i + 1) + 1]
    OBVIOUS
  <2>2. i \in Nat /\ f[i + 1] = g[i + 1]
    BY <2>1
  <2> HIDE DEF S
  <2> DEFINE j == (i + 1) + 1
  <2>3. j \in 1..n /\ j \in 1..m /\ j # 1 /\ j - 1 = i + 1
    BY <2>1, <2>2
  <2> HIDE DEF j
  <2>4. f[j] = f[j - 1] \o s[j] /\ g[j] = g[j - 1] \o s[j]
    BY <2>3 DEF IsFlat
  <2>5. f[j] = g[j]
    BY <2>2, <2>3, <2>4
  <2> QED
    BY <2>5 DEF j
<1>3. S \in SUBSET Nat
  OBVIOUS
<1> DEFINE h == k - 1
<1>5. h \in Nat /\ h + 1 = k
  OBVIOUS
<1> HIDE DEF h
<1>4. h \in S
  <2> HIDE DEF S
  <2> QED
    BY <1>1, <1>2, <1>3, <1>5, EveryNatural
<1> QED
  BY <1>4, <1>5

\* One text more.
LEMMA FlatSteps ==
    ASSUME NEW s, NEW n \in Nat
    PROVE  Flat(s, n + 1) = IF n = 0 THEN s[1] ELSE Flat(s, n) \o s[n + 1]
<1> DEFINE f == CHOOSE h : IsFlat(h, s, n)
           g == CHOOSE h : IsFlat(h, s, n + 1)
<1>1. IsFlat(f, s, n)
  BY FlatExists
<1>2. IsFlat(g, s, n + 1)
  <2>1. n + 1 \in Nat
    OBVIOUS
  <2> QED
    BY <2>1, FlatExists
<1>3. Flat(s, n + 1) = g[n + 1] /\ (n # 0 => Flat(s, n) = f[n])
  <2>1. n + 1 # 0
    OBVIOUS
  <2> QED
    BY <2>1 DEF Flat
<1> HIDE DEF f, g
<1>4. n + 1 \in 1..(n + 1) /\ (n + 1) - 1 = n
  OBVIOUS
<1>5. g[n + 1] = IF n + 1 = 1 THEN s[n + 1] ELSE g[(n + 1) - 1] \o s[n + 1]
  BY <1>2, <1>4 DEF IsFlat
<1>6. CASE n = 0
  <2>1. n + 1 = 1
    BY <1>6
  <2> QED
    BY <1>3, <1>5, <1>6, <2>1
<1>7. CASE n # 0
  <2>1. n + 1 # 1 /\ n > 0 /\ n <= n /\ n <= n + 1 /\ n + 1 \in Nat
    BY <1>7
  <2>2. f[n] = g[n]
    BY <1>1, <1>2, <2>1, FlatsAgree
  <2> QED
    BY <1>3, <1>4, <1>5, <1>7, <2>1, <2>2
<1> QED
  BY <1>6, <1>7

\* FlattenSeq is all of them.
LEMMA FlattenIs ==
    ASSUME NEW s, Len(s) \in Nat, Len(s) = 0 => s = <<>>
    PROVE  FlattenSeq(s) = Flat(s, Len(s))
<1>1. CASE Len(s) = 0
  BY <1>1 DEF FlattenSeq, Flat
<1>2. CASE Len(s) # 0
  <2> DEFINE it == CHOOSE f : f = [i \in 1..Len(s) |-> IF i = 1 THEN s[i] ELSE f[i - 1] \o s[i]]
  <2>1. FlattenSeq(s) = it[Len(s)]
    BY <1>2 DEF FlattenSeq
  <2>2. it = CHOOSE f : IsFlat(f, s, Len(s))
    BY DEF IsFlat
  <2> HIDE DEF it
  <2> QED
    BY <1>2, <2>1, <2>2 DEF Flat
<1> QED
  BY <1>1, <1>2

-----------------------------------------------------------------------------
(* What follows the first texts. *)

\* Texts one after the other are a text, which holds what one of them holds
\* and is as long as they are many, unless one is empty.
LEMMA FlatIs ==
    ASSUME NEW s, NEW n \in Nat, \A i \in 1..n : s[i] \in Text
    PROVE  /\ Flat(s, n) \in Text
           /\ \A x : Holds(Flat(s, n), x) => \E i \in 1..n : Holds(s[i], x)
           /\ (\A i \in 1..n : s[i] # <<>>) => Len(Flat(s, n)) >= n
<1> DEFINE S == {k \in Nat : k <= n =>
                   /\ Flat(s, k) \in Text
                   /\ \A x : Holds(Flat(s, k), x) => \E i \in 1..k : Holds(s[i], x)
                   /\ (\A i \in 1..n : s[i] # <<>>) => Len(Flat(s, k)) >= k}
<1>1. 0 \in S
  <2>1. Flat(s, 0) = <<>>
    BY DEF Flat
  <2>2. <<>> \in Text /\ Len(<<>>) = 0 /\ \A x : ~Holds(<<>>, x)
    BY HoldsPiece DEF Text
  <2> QED
    BY <2>1, <2>2
<1>2. ASSUME NEW k \in S PROVE k + 1 \in S
  <2>1. SUFFICES ASSUME k + 1 <= n
                 PROVE  /\ Flat(s, k + 1) \in Text
                        /\ \A x : Holds(Flat(s, k + 1), x) => \E i \in 1..(k + 1) : Holds(s[i], x)
                        /\ (\A i \in 1..n : s[i] # <<>>) => Len(Flat(s, k + 1)) >= k + 1
    OBVIOUS
  <2>2. /\ k \in Nat /\ Flat(s, k) \in Text
        /\ \A x : Holds(Flat(s, k), x) => \E i \in 1..k : Holds(s[i], x)
        /\ (\A i \in 1..n : s[i] # <<>>) => Len(Flat(s, k)) >= k
    BY <2>1
  <2> HIDE DEF S
  <2>3. k + 1 \in 1..n /\ k + 1 \in 1..(k + 1) /\ s[k + 1] \in Text
    BY <2>1, <2>2
  <2>4. Flat(s, k + 1) = IF k = 0 THEN s[1] ELSE Flat(s, k) \o s[k + 1]
    BY <2>2, FlatSteps
  <2> DEFINE a == Flat(s, k)
             b == s[k + 1]
  <2>5. Flat(s, k + 1) = a \o b
    <3>1. CASE k = 0
      <4>1. a = <<>> /\ k + 1 = 1
        BY <3>1 DEF Flat
      <4>2. <<>> \o b = b
        BY <2>3, TextConcat
      <4> QED
        BY <2>4, <3>1, <4>1, <4>2
    <3>2. CASE k # 0
      BY <2>4, <3>2
    <3> QED
      BY <3>1, <3>2
  <2>6. a \in Text /\ b \in Text
    BY <2>2, <2>3
  <2>7. /\ \A x : Holds(a, x) => \E i \in 1..k : Holds(s[i], x)
        /\ (\A i \in 1..n : s[i] # <<>>) => Len(a) >= k /\ b # <<>>
    BY <2>2, <2>3
  <2>8. b = s[k + 1]
    OBVIOUS
  <2> HIDE DEF a, b
  <2>9. a \o b \in Text /\ Len(a \o b) = Len(a) + Len(b) /\ Len(a) \in Nat
    BY <2>6, TextConcat
  <2>10. ASSUME NEW x, Holds(a \o b, x) PROVE \E i \in 1..(k + 1) : Holds(s[i], x)
    <3>1. Holds(a, x) \/ Holds(b, x)
      BY <2>6, <2>10, HoldsConcat
    <3>2. CASE Holds(a, x)
      <4>1. PICK i \in 1..k : Holds(s[i], x)
        BY <2>7, <3>2
      <4>2. i \in 1..(k + 1)
        BY <2>2
      <4> QED
        BY <4>1, <4>2
    <3>3. CASE Holds(b, x)
      BY <2>3, <2>8, <3>3
    <3> QED
      BY <3>1, <3>2, <3>3
  <2>11. ASSUME \A i \in 1..n : s[i] # <<>> PROVE Len(a \o b) >= k + 1
    <3>1. Len(b) \in Nat \ {0} /\ Len(a) >= k
      BY <2>6, <2>7, <2>11, TextTail
    <3> QED
      BY <2>2, <2>9, <3>1
  <2> QED
    BY <2>5, <2>9, <2>10, <2>11
<1>3. S \in SUBSET Nat
  OBVIOUS
<1>4. n \in S
  <2> HIDE DEF S
  <2> QED
    BY <1>1, <1>2, <1>3, EveryNatural
<1> QED
  BY <1>4

\* The first text may be taken off.
LEMMA FlatFirst ==
    ASSUME NEW s, NEW u, NEW n \in Nat, \A i \in 1..(n + 1) : s[i] \in Text,
           \A i \in 1..n : u[i] = s[i + 1]
    PROVE  Flat(s, n + 1) = s[1] \o Flat(u, n)
<1> DEFINE S == {k \in Nat : k <= n => Flat(s, k + 1) = s[1] \o Flat(u, k)}
<1>0. 1 \in 1..(n + 1) /\ s[1] \in Text
  OBVIOUS
<1>1. 0 \in S
  <2>1. Flat(s, 0 + 1) = s[1]
    BY FlatSteps
  <2>2. Flat(u, 0) = <<>>
    BY DEF Flat
  <2>3. s[1] \o <<>> = s[1]
    BY <1>0, TextConcat
  <2> QED
    BY <2>1, <2>2, <2>3
<1>2. ASSUME NEW k \in S PROVE k + 1 \in S
  <2>0. k \in Nat /\ (k <= n => Flat(s, k + 1) = s[1] \o Flat(u, k)) /\ k + 1 \in Nat
    OBVIOUS
  <2>1. SUFFICES ASSUME k + 1 <= n PROVE Flat(s, (k + 1) + 1) = s[1] \o Flat(u, k + 1)
    BY <2>0, Zenon
  <2>2. k \in Nat /\ Flat(s, k + 1) = s[1] \o Flat(u, k)
    BY <2>0, <2>1
  <2> HIDE DEF S
  <2> DEFINE a == s[1]
             b == Flat(u, k)
             c == u[k + 1]
             d == s[(k + 1) + 1]
             m == k + 1
  <2>3. k + 1 \in 1..n /\ (k + 1) + 1 \in 1..(n + 1) /\ k + 1 \in Nat /\ k + 1 # 0
    BY <2>1, <2>2
  <2>4. c = d /\ d \in Text
    BY <2>3
  <2>5. b \in Text
    <3>1. \A i \in 1..k : i \in 1..n /\ i + 1 \in 1..(n + 1)
      BY <2>1, <2>2
    <3>2. \A i \in 1..k : u[i] \in Text
      BY <3>1
    <3> QED
      BY <2>2, <3>2, FlatIs
  <2>6. Flat(s, m + 1) = IF m = 0 THEN a ELSE Flat(s, m) \o s[m + 1]
    <3> HIDE DEF m
    <3>1. m \in Nat
      BY <2>3 DEF m
    <3> QED
      BY <3>1, FlatSteps
  <2>7. Flat(s, m + 1) = (a \o b) \o c
    BY <2>2, <2>3, <2>4, <2>6
  <2>8. Flat(u, k + 1) = IF k = 0 THEN u[1] ELSE b \o c
    BY <2>2, FlatSteps
  <2>9. Flat(u, k + 1) = b \o c
    <3>1. CASE k = 0
      <4>1. b = <<>> /\ c = u[1]
        BY <3>1 DEF Flat
      <4>2. <<>> \o c = c
        BY <2>4, TextConcat
      <4> QED
        BY <2>8, <3>1, <4>1, <4>2
    <3>2. CASE k # 0
      BY <2>8, <3>2
    <3> QED
      BY <3>1, <3>2
  <2>10. (a \o b) \o c = a \o (b \o c)
    <3>1. a \in Text /\ b \in Text /\ c \in Text
      BY <1>0, <2>4, <2>5
    <3> HIDE DEF a, b, c
    <3> QED
      BY <3>1, TextAssociative
  <2> QED
    BY <2>7, <2>9, <2>10, Zenon
<1>3. S \in SUBSET Nat
  OBVIOUS
<1>4. n \in S /\ n <= n
  <2> HIDE DEF S
  <2> QED
    BY <1>1, <1>2, <1>3, EveryNatural
<1> QED
  BY <1>4

\* The texts after the first k, one after the other.
RestOf(s, k) == Flat([i \in 1..(Len(s) - k) |-> s[k + i]], Len(s) - k)

\* They are all of them at first, none at last, and each comes off in turn.
LEMMA RestSteps ==
    ASSUME NEW s \in Seq(Text)
    PROVE  /\ FlattenSeq(s) = RestOf(s, 0)
           /\ RestOf(s, Len(s)) = <<>>
           /\ \A k \in 0..Len(s) : RestOf(s, k) \in Text
           /\ \A k \in 0..(Len(s) - 1) : RestOf(s, k) = s[k + 1] \o RestOf(s, k + 1)
           /\ \A x : Holds(FlattenSeq(s), x) => \E i \in 1..Len(s) : Holds(s[i], x)
           /\ (\A i \in 1..Len(s) : s[i] # <<>>) => Len(FlattenSeq(s)) >= Len(s)
<1> DEFINE n == Len(s)
           u(k) == [i \in 1..(n - k) |-> s[k + i]]
<1>1. n \in Nat /\ \A i \in 1..n : s[i] \in Text
  BY ElementOfSeq
<1>2. FlattenSeq(s) = Flat(s, n)
  <2>1. Len(s) = 0 => s = <<>>
    BY EmptySeq
  <2> QED
    BY <1>1, <2>1, FlattenIs
<1>3. \A k : RestOf(s, k) = Flat(u(k), n - k)
  BY DEF RestOf
<1>4. u(0) = s /\ n - 0 = n
  <2>1. n - 0 = n /\ \A i \in 1..n : 0 + i = i
    BY <1>1
  <2>2. u(0) = [i \in 1..n |-> s[i]]
    BY <2>1
  <2>3. s = [i \in 1..n |-> s[i]]
    BY LenProperties
  <2> QED
    BY <2>1, <2>2, <2>3
<1>5. RestOf(s, n) = <<>>
  <2>1. n - n = 0
    BY <1>1
  <2> QED
    BY <1>3, <2>1 DEF Flat
<1>6. ASSUME NEW k \in 0..n PROVE n - k \in Nat /\ \A i \in 1..(n - k) : u(k)[i] \in Text
  <2>1. \A i \in 1..(n - k) : k + i \in 1..n
    BY <1>1
  <2> QED
    BY <1>1, <2>1
<1>7. \A k \in 0..n : RestOf(s, k) \in Text
  <2>1. ASSUME NEW k \in 0..n PROVE Flat(u(k), n - k) \in Text
    <3> HIDE DEF u, n
    <3> QED
      BY <1>6, FlatIs
  <2> QED
    BY <1>3, <2>1
<1>8. ASSUME NEW k \in 0..(n - 1) PROVE RestOf(s, k) = s[k + 1] \o RestOf(s, k + 1)
  <2> DEFINE m == n - (k + 1)
             v == u(k)
             w == u(k + 1)
  <2>1. m \in Nat /\ m + 1 = n - k /\ k \in 0..n
    BY <1>1
  <2>2. \A i \in 1..(m + 1) : v[i] \in Text
    BY <1>6, <2>1
  <2>3. \A i \in 1..m : w[i] = v[i + 1]
    <3>1. ASSUME NEW i \in 1..m
          PROVE  i + 1 \in 1..(n - k) /\ i \in 1..(n - (k + 1)) /\ (k + 1) + i = k + (i + 1)
      BY <2>1
    <3> QED
      BY <3>1
  <2>4. v[1] = s[k + 1]
    BY <1>1
  <2>5. RestOf(s, k) = Flat(v, m + 1) /\ RestOf(s, k + 1) = Flat(w, m)
    BY <1>3, <2>1
  <2> HIDE DEF m, v, w
  <2>6. Flat(v, m + 1) = v[1] \o Flat(w, m)
    BY <2>1, <2>2, <2>3, FlatFirst
  <2> QED
    BY <2>4, <2>5, <2>6
<1>9. /\ \A x : Holds(Flat(s, n), x) => \E i \in 1..n : Holds(s[i], x)
      /\ (\A i \in 1..n : s[i] # <<>>) => Len(Flat(s, n)) >= n
  <2> HIDE DEF n
  <2> QED
    BY <1>1, FlatIs
<1> QED
  BY <1>2, <1>3, <1>4, <1>5, <1>7, <1>8, <1>9

-----------------------------------------------------------------------------
(* The order of keys. *)

\* Pieces have a place each.
LEMMA PlacesDiffer ==
    ASSUME NEW p \in Pieces, NEW q \in Pieces
    PROVE  Place(p) \in Nat /\ Place(q) \in Nat /\ (Place(p) = Place(q) => p = q)
<1>1. ASSUME NEW x \in Pieces PROVE Place(x) \in DOMAIN PieceOrder /\ PieceOrder[Place(x)] = x
  <2>1. \E i \in DOMAIN PieceOrder : PieceOrder[i] = x
    BY DEF Pieces, Range
  <2> QED
    BY <2>1 DEF Place
<1>2. DOMAIN PieceOrder \subseteq Nat
  <2>1. PieceOrder \in Seq(STRING)
    BY ChatAssumption DEF ChatAssumption
  <2>2. DOMAIN PieceOrder = 1..Len(PieceOrder) /\ Len(PieceOrder) \in Nat
    BY <2>1, LenProperties
  <2> QED
    BY <2>2
<1> QED
  BY <1>1, <1>2

\* Where a text first falls behind another: it ends there, or its piece is
\* the lesser one.
Behind(a, b, i) ==
    /\ i \in 1..Len(b) /\ i <= Len(a) + 1
    /\ \A j \in 1..(i - 1) : a[j] = b[j]
    /\ i <= Len(a) => Place(a[i]) < Place(b[i])

\* A key is before another that it falls behind.
LEMMA BeforeIs ==
    ASSUME NEW a \in Text, NEW b \in Text
    PROVE  KeyBefore(a, b) <=> \E i : Behind(a, b, i)
<1>0. Len(a) \in Nat /\ Len(b) \in Nat
  BY LenProperties DEF Text
<1>1. a \in Seq(Pieces) /\ b \in Seq(Pieces) /\ Len(a) \in Nat /\ Len(b) \in Nat
      /\ DOMAIN a = 1..Len(a) /\ DOMAIN b = 1..Len(b)
  BY LenProperties DEF Text
<1>2. ASSUME Len(a) <= Len(b)
      PROVE  SubSeq(a, 1, Len(a)) = SubSeq(b, 1, Len(a)) <=> \A j \in 1..Len(a) : a[j] = b[j]
  <2> DEFINE l == Len(a)
             u == SubSeq(b, 1, l)
  <2>1. SubSeq(a, 1, l) = a
    BY <1>1, SubSeqFull
  <2>2. l \in Int /\ 1 \in Int /\ l \in Nat /\ \A j \in 1..l : b[j] \in Pieces
    <3>1. \A j \in 1..l : j \in 1..Len(b)
      BY <1>1, <1>2
    <3> QED
      BY <1>1, <3>1, ElementOfSeq
  <2>3. u \in Seq(Pieces) /\ Len(u) = l /\ \A j \in 1..l : u[j] = b[j]
    <3> HIDE DEF l
    <3>1. /\ SubSeq(b, 1, l) \in Seq(Pieces)
          /\ Len(SubSeq(b, 1, l)) = IF 1 <= l THEN l - 1 + 1 ELSE 0
          /\ \A i \in 1..(l - 1 + 1) : SubSeq(b, 1, l)[i] = b[1 + i - 1]
      BY <2>2, SubSeqProperties
    <3>2. (IF 1 <= l THEN l - 1 + 1 ELSE 0) = l /\ l - 1 + 1 = l /\ \A i \in 1..l : 1 + i - 1 = i
      BY <2>2
    <3> QED
      BY <3>1, <3>2
  <2> HIDE DEF u
  <2>4. (\A j \in 1..Len(a) : a[j] = u[j]) => a = u
    BY <1>1, <2>3, SeqEqual
  <2> QED
    BY <2>1, <2>3, <2>4 DEF u
<1>3. ASSUME IsStrictPrefix(a, b) PROVE Behind(a, b, Len(a) + 1)
  <2>1. Len(a) <= Len(b) /\ SubSeq(a, 1, Len(a)) = SubSeq(b, 1, Len(a)) /\ a # b
    BY <1>3 DEF IsStrictPrefix, IsPrefix
  <2>2. \A j \in 1..Len(a) : a[j] = b[j]
    BY <1>2, <2>1
  <2>3. Len(a) # Len(b)
    <3>1. Len(a) = Len(b) => a = b
      BY <1>1, <2>2, SeqEqual
    <3> QED
      BY <2>1, <3>1
  <2> DEFINE i == Len(a) + 1
  <2>4. i \in 1..Len(b) /\ i - 1 = Len(a) /\ ~(i <= Len(a)) /\ i <= Len(a) + 1
    <3>1. Len(a) <= Len(b) /\ Len(a) # Len(b)
      BY <2>1, <2>3
    <3> QED
      BY <1>0, <3>1
  <2> HIDE DEF i
  <2>5. \A j \in 1..(i - 1) : a[j] = b[j]
    BY <2>2, <2>4
  <2>6. Behind(a, b, i)
    BY <2>4, <2>5 DEF Behind
  <2> QED
    BY <2>6 DEF i
<1>4. ASSUME NEW i \in DOMAIN a \cap DOMAIN b, \A j \in 1..(i - 1) : a[j] = b[j], Place(a[i]) < Place(b[i])
      PROVE  Behind(a, b, i)
  BY <1>1, <1>4 DEF Behind
<1>5. ASSUME NEW i, Behind(a, b, i) PROVE KeyBefore(a, b)
  <2>1. i \in 1..Len(b) /\ i <= Len(a) + 1 /\ (\A j \in 1..(i - 1) : a[j] = b[j])
        /\ (i <= Len(a) => Place(a[i]) < Place(b[i]))
    BY <1>5 DEF Behind
  <2>2. CASE i <= Len(a)
    <3>1. i \in DOMAIN a \cap DOMAIN b
      BY <1>1, <2>1, <2>2
    <3> QED
      BY <2>1, <2>2, <3>1 DEF KeyBefore
  <2>3. CASE ~(i <= Len(a))
    <3>0. i \in 1..Len(b) /\ i <= Len(a) + 1
      BY <2>1
    <3>1. i - 1 = Len(a) /\ Len(a) <= Len(b) /\ Len(a) # Len(b)
      BY <1>0, <2>3, <3>0
    <3>2. \A j \in 1..Len(a) : a[j] = b[j]
      BY <2>1, <3>1
    <3>4. SubSeq(a, 1, Len(a)) = SubSeq(b, 1, Len(a))
      BY <1>2, <3>1, <3>2
    <3>3. a # b
      BY <3>1
    <3> QED
      BY <3>1, <3>3, <3>4 DEF KeyBefore, IsStrictPrefix, IsPrefix
  <2> QED
    BY <2>2, <2>3
<1>6. ASSUME KeyBefore(a, b) PROVE \E i : Behind(a, b, i)
  <2>1. CASE IsStrictPrefix(a, b)
    BY <1>3, <2>1
  <2>2. CASE \E i \in DOMAIN a \cap DOMAIN b :
                (\A j \in 1..(i - 1) : a[j] = b[j]) /\ Place(a[i]) < Place(b[i])
    BY <1>4, <2>2
  <2> QED
    BY <1>6, <2>1, <2>2 DEF KeyBefore
<1> QED
  BY <1>5, <1>6

\* The pieces of a text.
LEMMA TextPieces ==
    ASSUME NEW a \in Text
    PROVE  Len(a) \in Nat /\ \A i \in 1..Len(a) : a[i] \in Pieces
  BY ElementOfSeq, LenProperties DEF Text

\* No key is before itself.
LEMMA BeforeIrreflexive ==
    ASSUME NEW a \in Text
    PROVE  ~KeyBefore(a, a)
<1>1. ASSUME NEW i, Behind(a, a, i) PROVE FALSE
  <2>1. i \in 1..Len(a) /\ Len(a) \in Nat /\ (i <= Len(a) => Place(a[i]) < Place(a[i]))
    BY <1>1, TextPieces DEF Behind
  <2>2. Place(a[i]) \in Nat
    BY <2>1, TextPieces, PlacesDiffer
  <2> QED
    BY <2>1, <2>2
<1> QED
  BY <1>1, BeforeIs

\* A key before a key before a third is before the third.
LEMMA BeforeTransitive ==
    ASSUME NEW a \in Text, NEW b \in Text, NEW c \in Text, KeyBefore(a, b), KeyBefore(b, c)
    PROVE  KeyBefore(a, c)
<1>1. PICK i : Behind(a, b, i)
  BY BeforeIs
<1>2. PICK k : Behind(b, c, k)
  BY BeforeIs
<1>3. /\ i \in 1..Len(b) /\ i <= Len(a) + 1 /\ (\A j \in 1..(i - 1) : a[j] = b[j])
      /\ i <= Len(a) => Place(a[i]) < Place(b[i])
  BY <1>1 DEF Behind
<1>4. /\ k \in 1..Len(c) /\ k <= Len(b) + 1 /\ (\A j \in 1..(k - 1) : b[j] = c[j])
      /\ k <= Len(b) => Place(b[k]) < Place(c[k])
  BY <1>2 DEF Behind
<1>5. Len(a) \in Nat /\ Len(b) \in Nat /\ Len(c) \in Nat
  BY TextPieces
<1>6. CASE i < k
  <2>1. i \in 1..(k - 1) /\ i \in 1..Len(c) /\ b[i] = c[i]
    BY <1>3, <1>4, <1>5, <1>6
  <2>2. ASSUME NEW j \in 1..(i - 1) PROVE a[j] = c[j]
    <3>1. j \in 1..(k - 1)
      BY <1>3, <1>4, <1>5, <1>6
    <3> QED
      BY <1>3, <1>4, <3>1
  <2>3. Behind(a, c, i)
    BY <1>3, <2>1, <2>2 DEF Behind
  <2> QED
    BY <2>3, BeforeIs
<1>7. CASE i = k
  <2>1. ASSUME NEW j \in 1..(i - 1) PROVE a[j] = c[j]
    BY <1>3, <1>4, <1>7
  <2>2. i <= Len(a) => Place(a[i]) < Place(c[i])
    <3>1. SUFFICES ASSUME i <= Len(a) PROVE Place(a[i]) < Place(c[i])
      OBVIOUS
    <3>2. Place(a[i]) < Place(b[i]) /\ Place(b[i]) < Place(c[i])
      <4>1. k <= Len(b)
        BY <1>3, <1>5, <1>7
      <4> QED
        BY <1>3, <1>4, <1>7, <3>1, <4>1
    <3>3. i \in 1..Len(a) /\ i \in 1..Len(b) /\ i \in 1..Len(c)
      BY <1>3, <1>4, <1>5, <1>7, <3>1
    <3>4. Place(a[i]) \in Nat /\ Place(b[i]) \in Nat /\ Place(c[i]) \in Nat
      BY <3>3, TextPieces, PlacesDiffer
    <3> QED
      BY <3>2, <3>4
  <2>3. Behind(a, c, i)
    BY <1>3, <1>4, <1>7, <2>1, <2>2 DEF Behind
  <2> QED
    BY <2>3, BeforeIs
<1>8. CASE k < i
  <2>1. k \in 1..(i - 1) /\ k <= Len(b) /\ k <= Len(a) + 1 /\ a[k] = b[k]
    BY <1>3, <1>4, <1>5, <1>8
  <2>2. ASSUME NEW j \in 1..(k - 1) PROVE a[j] = c[j]
    <3>1. j \in 1..(i - 1)
      BY <1>3, <1>4, <1>5, <1>8
    <3> QED
      BY <1>3, <1>4, <3>1
  <2>3. Behind(a, c, k)
    BY <1>4, <2>1, <2>2 DEF Behind
  <2> QED
    BY <2>3, BeforeIs
<1> QED
  BY <1>3, <1>4, <1>6, <1>7, <1>8

\* Of two keys one is before the other.
LEMMA BeforeTotal ==
    ASSUME NEW a \in Text, NEW b \in Text, a # b
    PROVE  KeyBefore(a, b) \/ KeyBefore(b, a)
<1> DEFINE S == {i \in Nat : i > 0 /\ ~(i <= Len(a) /\ i <= Len(b) /\ a[i] = b[i])}
           i == Min(S)
<1>1. Len(a) \in Nat /\ Len(b) \in Nat
  BY TextPieces
<1>2. S # {} /\ S \in SUBSET Nat
  <2>1. Len(a) + 1 \in S
    BY <1>1
  <2> QED
    BY <2>1
<1>3. i \in S /\ \A j \in S : i <= j
  BY <1>2, LeastNatural
<1>4. i \in Nat /\ i > 0 /\ ~(i <= Len(a) /\ i <= Len(b) /\ a[i] = b[i])
      /\ \A j \in 1..(i - 1) : j <= Len(a) /\ j <= Len(b) /\ a[j] = b[j]
  <2>1. \A j \in Nat : j > 0 /\ j \notin S => j <= Len(a) /\ j <= Len(b) /\ a[j] = b[j]
    OBVIOUS
  <2>2. i \in Nat /\ i > 0 /\ ~(i <= Len(a) /\ i <= Len(b) /\ a[i] = b[i])
    BY <1>3
  <2> HIDE DEF S, i
  <2>3. ASSUME NEW j \in 1..(i - 1) PROVE j \in Nat /\ j > 0 /\ j \notin S
    <3>1. j \in Nat /\ j > 0 /\ ~(i <= j)
      BY <2>2
    <3> QED
      BY <1>3, <3>1
  <2> QED
    BY <2>1, <2>2, <2>3
<1> HIDE DEF S, i
<1>5. i <= Len(a) + 1 /\ i <= Len(b) + 1
  <2>1. i > 1 => i - 1 \in 1..(i - 1)
    BY <1>4
  <2> QED
    BY <1>1, <1>4, <2>1
<1>6. CASE i <= Len(a) /\ i <= Len(b)
  <2>1. i \in 1..Len(a) /\ i \in 1..Len(b) /\ a[i] # b[i]
    BY <1>4, <1>6
  <2>2. Place(a[i]) \in Nat /\ Place(b[i]) \in Nat /\ Place(a[i]) # Place(b[i])
    BY <2>1, TextPieces, PlacesDiffer
  <2>3. CASE Place(a[i]) < Place(b[i])
    <3>1. Behind(a, b, i)
      BY <1>4, <1>5, <2>1, <2>3 DEF Behind
    <3> QED
      BY <3>1, BeforeIs
  <2>4. CASE Place(b[i]) < Place(a[i])
    <3>1. Behind(b, a, i)
      BY <1>4, <1>5, <2>1, <2>4 DEF Behind
    <3> QED
      BY <3>1, BeforeIs
  <2> QED
    BY <2>2, <2>3, <2>4
<1>7. CASE ~(i <= Len(a)) /\ i <= Len(b)
  <2>1. Behind(a, b, i)
    BY <1>4, <1>5, <1>7 DEF Behind
  <2> QED
    BY <2>1, BeforeIs
<1>8. CASE i <= Len(a) /\ ~(i <= Len(b))
  <2>1. Behind(b, a, i)
    BY <1>4, <1>5, <1>8 DEF Behind
  <2> QED
    BY <2>1, BeforeIs
<1>9. CASE ~(i <= Len(a)) /\ ~(i <= Len(b))
  <2>1. Len(a) = i - 1 /\ Len(b) = i - 1
    BY <1>1, <1>4, <1>5, <1>9
  <2>2. \A j \in 1..Len(a) : a[j] = b[j]
    BY <1>4, <2>1
  <2>3. a = b
    BY <2>1, <2>2, SeqEqual DEF Text
  <2> QED
    BY <2>3
<1> QED
  BY <1>6, <1>7, <1>8, <1>9

-----------------------------------------------------------------------------
(* Arguments in the order of their keys. *)

\* A sequence with an element put in after the first c.
LEMMA InsertIs ==
    ASSUME NEW S, NEW s \in Seq(S), NEW e \in S, NEW c \in 0..Len(s)
    PROVE  /\ InsertAt(s, c + 1, e) \in Seq(S)
           /\ Len(InsertAt(s, c + 1, e)) = Len(s) + 1
           /\ \A i \in 1..(Len(s) + 1) : InsertAt(s, c + 1, e)[i] =
                  IF i <= c THEN s[i] ELSE IF i = c + 1 THEN e ELSE s[i - 1]
<1> DEFINE n == Len(s)
           a == SubSeq(s, 1, c)
           b == SubSeq(s, c + 1, n)
           u == <<e>>
           au == a \o u
           r == au \o b
<1>1. n \in Nat /\ c \in Nat /\ c <= n
  BY LenProperties
<1>2. \A i \in 1..n : s[i] \in S
  BY ElementOfSeq
<1>3. InsertAt(s, c + 1, e) = r
  <2>1. (c + 1) - 1 = c
    BY <1>1
  <2> QED
    BY <2>1 DEF InsertAt
<1>4. u \in Seq(S) /\ Len(u) = 1 /\ u[1] = e
  OBVIOUS
<1> HIDE DEF n, u
<1>5. a \in Seq(S) /\ Len(a) = c /\ \A i \in 1..c : a[i] = s[i]
  <2>1. 1 \in Int /\ c \in Int /\ \A i \in 1..c : s[i] \in S
    BY <1>1, <1>2
  <2>2. /\ a \in Seq(S)
        /\ Len(a) = IF 1 <= c THEN c - 1 + 1 ELSE 0
        /\ \A i \in 1..(c - 1 + 1) : a[i] = s[1 + i - 1]
    BY <2>1, SubSeqProperties
  <2>3. (IF 1 <= c THEN c - 1 + 1 ELSE 0) = c /\ c - 1 + 1 = c /\ \A i \in 1..c : 1 + i - 1 = i
    BY <1>1
  <2> HIDE DEF a
  <2> QED
    BY <2>2, <2>3
<1>6. b \in Seq(S) /\ Len(b) = n - c /\ \A i \in 1..(n - c) : b[i] = s[c + i]
  <2> DEFINE l == c + 1
  <2>1. l \in Int /\ n \in Int /\ \A i \in l..n : s[i] \in S
    <3>1. \A i \in l..n : i \in 1..n
      BY <1>1
    <3> QED
      BY <1>1, <1>2, <3>1
  <2>3. (IF l <= n THEN n - l + 1 ELSE 0) = n - c /\ n - l + 1 = n - c /\ \A i \in 1..(n - c) : l + i - 1 = c + i
    BY <1>1
  <2>4. b = SubSeq(s, l, n)
    OBVIOUS
  <2> HIDE DEF l, b
  <2>2. /\ SubSeq(s, l, n) \in Seq(S)
        /\ Len(SubSeq(s, l, n)) = IF l <= n THEN n - l + 1 ELSE 0
        /\ \A i \in 1..(n - l + 1) : SubSeq(s, l, n)[i] = s[l + i - 1]
    BY <2>1, SubSeqProperties
  <2> QED
    BY <2>2, <2>3, <2>4
<1> HIDE DEF a, b
<1>7. /\ au \in Seq(S) /\ Len(au) = Len(a) + Len(u)
      /\ \A i \in 1..(Len(a) + Len(u)) : au[i] = IF i <= Len(a) THEN a[i] ELSE u[i - Len(a)]
  BY <1>4, <1>5, ConcatProperties
<1> HIDE DEF au
<1>8. /\ r \in Seq(S) /\ Len(r) = Len(au) + Len(b)
      /\ \A i \in 1..(Len(au) + Len(b)) : r[i] = IF i <= Len(au) THEN au[i] ELSE b[i - Len(au)]
  BY <1>6, <1>7, ConcatProperties
<1> HIDE DEF r
<1>9. Len(au) = c + 1 /\ Len(r) = n + 1
  BY <1>1, <1>4, <1>5, <1>6, <1>7, <1>8
<1>10. ASSUME NEW i \in 1..(n + 1)
       PROVE  r[i] = IF i <= c THEN s[i] ELSE IF i = c + 1 THEN e ELSE s[i - 1]
  <2>1. r[i] = IF i <= c + 1 THEN au[i] ELSE b[i - (c + 1)]
    BY <1>8, <1>9
  <2>2. CASE i <= c
    <3>1. i \in 1..(Len(a) + Len(u)) /\ i <= Len(a) /\ i \in 1..c
      BY <1>1, <1>4, <1>5, <2>2
    <3>2. au[i] = a[i]
      BY <1>7, <3>1
    <3>3. i <= c + 1
      BY <1>1, <2>2
    <3> QED
      BY <1>5, <2>1, <2>2, <3>1, <3>2, <3>3
  <2>3. CASE i = c + 1
    <3>1. i \in 1..(Len(a) + Len(u)) /\ ~(i <= Len(a)) /\ i - Len(a) = 1
      BY <1>1, <1>4, <1>5, <2>3
    <3>2. au[i] = u[1]
      BY <1>7, <3>1
    <3>3. i <= c + 1 /\ ~(i <= c)
      BY <1>1, <2>3
    <3> QED
      BY <1>4, <2>1, <2>3, <3>2, <3>3
  <2>4. CASE i > c + 1
    <3>1. i - (c + 1) \in 1..(n - c) /\ c + (i - (c + 1)) = i - 1
      BY <1>1, <2>4
    <3>2. b[i - (c + 1)] = s[i - 1]
      BY <1>6, <3>1
    <3>3. ~(i <= c + 1) /\ ~(i <= c) /\ i # c + 1
      BY <1>1, <2>4
    <3> QED
      BY <2>1, <3>2, <3>3
  <2> QED
    BY <1>1, <2>2, <2>3, <2>4
<1> QED
  BY <1>3, <1>8, <1>9, <1>10 DEF n

\* A text without the marks that end calls.
IsInner(t) == t \in Text /\ ~Holds(t, "</tool_call>") /\ ~Holds(t, "</tool_calls>")

\* An argument as it is read: its key holds no mark that would end it.  Its value
\* may hold any, for JSON escapes what it quotes.
FineArgument(arg) ==
    /\ IsInner(arg.key) /\ arg.key # <<>> /\ ~Holds(arg.key, "</key>")
    /\ arg.text \in Text
FineArguments == {arg \in [key : Text, text : Text, json : BOOLEAN] : FineArgument(arg)}

\* The values of a list of arguments are read where they are written.
AllEnclose(args) == \A i \in DOMAIN args : Encloses(args[i].text)

\* An argument that is read has the key before its value, and a text.
LEMMA ArgumentIs ==
    ASSUME NEW key \in Text, NEW text \in Text
    PROVE  /\ ArgumentOf(key, text) \in [key : Text, text : Text, json : BOOLEAN]
           /\ ArgumentOf(key, text).key = key /\ ArgumentOf(key, text).text \in Text
<1>1. CASE text \in DOMAIN Json
  <2>1. Json[text] \in [quoted : BOOLEAN, text : Text]
    BY <1>1, ChatAssumption DEF ChatAssumption
  <2> DEFINE x == Json[text].text
             j == ~Json[text].quoted
  <2>2. x \in Text
    BY <2>1
  <2>3. j \in BOOLEAN
    OBVIOUS
  <2>4. ArgumentOf(key, text) = [key |-> key, text |-> x, json |-> j]
    BY <1>1 DEF ArgumentOf
  <2> HIDE DEF x, j
  <2> QED
    BY <2>2, <2>3, <2>4
<1>2. CASE text \notin DOMAIN Json
  <2>1. ArgumentOf(key, text) = [key |-> key, text |-> text, json |-> FALSE]
    BY <1>2 DEF ArgumentOf
  <2> QED
    BY <2>1
<1> QED
  BY <1>1, <1>2

\* With a key that is fine it is fine itself.
LEMMA ArgumentFine ==
    ASSUME NEW key, IsInner(key), key # <<>>, ~Holds(key, "</key>"), NEW text \in Text
    PROVE  ArgumentOf(key, text) \in FineArguments /\ ArgumentOf(key, text).key = key
<1>1. key \in Text
  BY DEF IsInner
<1>2. /\ ArgumentOf(key, text) \in [key : Text, text : Text, json : BOOLEAN]
      /\ ArgumentOf(key, text).key = key /\ ArgumentOf(key, text).text \in Text
  BY <1>1, ArgumentIs
<1>3. FineArgument(ArgumentOf(key, text))
  BY <1>2 DEF FineArgument
<1> QED
  BY <1>2, <1>3 DEF FineArguments

\* Arguments as they are read: in the order of their keys.
AreFine(args) ==
    /\ args \in Seq(FineArguments)
    /\ \A i, j \in 1..Len(args) : i < j => KeyBefore(args[i].key, args[j].key)

\* Members of a list of fine arguments.
LEMMA FineMembers ==
    ASSUME NEW args, AreFine(args)
    PROVE  /\ args \in Seq(FineArguments) /\ Len(args) \in Nat /\ DOMAIN args = 1..Len(args)
           /\ \A i \in 1..Len(args) : args[i] \in FineArguments /\ FineArgument(args[i]) /\ args[i].key \in Text
<1>1. args \in Seq(FineArguments)
  BY DEF AreFine
<1>2. Len(args) \in Nat /\ DOMAIN args = 1..Len(args)
  BY <1>1, LenProperties
<1>3. ASSUME NEW i \in 1..Len(args)
      PROVE  args[i] \in FineArguments /\ FineArgument(args[i]) /\ args[i].key \in Text
  <2>1. args[i] \in FineArguments
    BY <1>1, ElementOfSeq
  <2>2. FineArgument(args[i])
    BY <2>1 DEF FineArguments
  <2> QED
    BY <2>1, <2>2 DEF FineArgument, IsInner
<1> QED
  BY <1>1, <1>2, <1>3

\* Values that are read once more leave the arguments in their order.
LEMMA AgainFine ==
    ASSUME NEW args, AreFine(args)
    PROVE  /\ AreFine(RereadArgs(args)) /\ Len(RereadArgs(args)) = Len(args)
           /\ \A i \in 1..Len(args) : /\ RereadArgs(args)[i] = ArgumentOf(args[i].key, args[i].text)
                                     /\ RereadArgs(args)[i].key = args[i].key
<1> DEFINE n == Len(args)
           r == RereadArgs(args)
           of(i) == ArgumentOf(args[i].key, args[i].text)
<1>1. n \in Nat /\ DOMAIN args = 1..n /\ \A i \in 1..n : FineArgument(args[i])
  BY FineMembers
<1>2. r = [i \in 1..n |-> of(i)]
  BY <1>1 DEF RereadArgs
<1>3. ASSUME NEW i \in 1..n PROVE of(i) \in FineArguments /\ of(i).key = args[i].key
  <2>1. FineArgument(args[i])
    BY <1>1
  <2> QED
    BY <2>1, ArgumentFine DEF FineArgument
<1> HIDE DEF of, r
<1>4. r \in Seq(FineArguments) /\ Len(r) = n /\ \A i \in 1..n : r[i] = of(i)
  BY <1>1, <1>2, <1>3
<1>5. \A i, j \in 1..n : i < j => KeyBefore(args[i].key, args[j].key)
  BY DEF AreFine
<1> HIDE DEF n
<1>6. \A i \in 1..n : r[i].key = args[i].key
  BY <1>3, <1>4
<1>7. \A i, j \in 1..n : i < j => KeyBefore(r[i].key, r[j].key)
  BY <1>5, <1>6
<1>8. AreFine(r)
  BY <1>4, <1>7 DEF AreFine
<1> QED
  BY <1>4, <1>6, <1>8 DEF n, r, of

\* An argument put in after the first c.
LEMMA ArgumentPut ==
    ASSUME NEW args \in Seq(FineArguments), NEW arg \in FineArguments, NEW c \in 0..Len(args)
    PROVE  /\ InsertAt(args, c + 1, arg) \in Seq(FineArguments)
           /\ Len(InsertAt(args, c + 1, arg)) = Len(args) + 1
           /\ \A i \in 1..(Len(args) + 1) : InsertAt(args, c + 1, arg)[i] =
                  IF i <= c THEN args[i] ELSE IF i = c + 1 THEN arg ELSE args[i - 1]
  BY InsertIs

\* How many keys are before a key.
KeysBefore(args, key) == {i \in DOMAIN args : KeyBefore(args[i].key, key)}

\* In ordered arguments these are the first.
LEMMA BeforeFirst ==
    ASSUME NEW args, AreFine(args), NEW key \in Text
    PROVE  /\ Cardinality(KeysBefore(args, key)) \in 0..Len(args)
           /\ KeysBefore(args, key) = 1..Cardinality(KeysBefore(args, key))
<1> DEFINE S == KeysBefore(args, key)
<1>1. Len(args) \in Nat /\ DOMAIN args = 1..Len(args) /\ \A i \in 1..Len(args) : args[i].key \in Text
  BY FineMembers
<1>2. S \in SUBSET (1..Len(args))
  BY <1>1 DEF KeysBefore
<1>3. ASSUME NEW j \in S, NEW i \in 1..j PROVE i \in S
  <2>1. j \in 1..Len(args) /\ KeyBefore(args[j].key, key)
    BY <1>1 DEF KeysBefore
  <2>2. i \in 1..Len(args) /\ (i = j \/ i < j)
    BY <1>1, <2>1
  <2>3. KeyBefore(args[i].key, key)
    <3>1. CASE i = j
      BY <2>1, <3>1
    <3>2. CASE i < j
      <4>1. KeyBefore(args[i].key, args[j].key)
        BY <2>1, <2>2, <3>2 DEF AreFine
      <4> QED
        BY <1>1, <2>1, <2>2, <4>1, BeforeTransitive
    <3> QED
      BY <2>2, <3>1, <3>2
  <2> QED
    BY <1>1, <2>2, <2>3 DEF KeysBefore
<1> HIDE DEF S
<1>4. Cardinality(S) \in 0..Len(args) /\ S = 1..Cardinality(S)
  BY <1>1, <1>2, <1>3, Downward
<1> QED
  BY <1>4 DEF S

\* A new key finds its place.
LEMMA InsertedFine ==
    ASSUME NEW args, AreFine(args), NEW arg \in FineArguments, NewKey(args, arg.key)
    PROVE  AreFine(Inserted(args, arg))
<1> DEFINE n == Len(args)
           key == arg.key
           c == Cardinality(KeysBefore(args, key))
           r == Inserted(args, arg)
<1>1. args \in Seq(FineArguments) /\ n \in Nat /\ DOMAIN args = 1..n /\ \A i \in 1..n : args[i].key \in Text
  BY FineMembers
<1>2. key \in Text
  BY DEF FineArguments, FineArgument, IsInner
<1>3. c \in 0..n /\ KeysBefore(args, key) = 1..c
  BY <1>2, BeforeFirst
<1>4. r = InsertAt(args, c + 1, arg)
  BY DEF Inserted, KeysBefore
<1> HIDE DEF c
<1>5. /\ r \in Seq(FineArguments) /\ Len(r) = n + 1
      /\ \A i \in 1..(n + 1) : r[i] = IF i <= c THEN args[i] ELSE IF i = c + 1 THEN arg ELSE args[i - 1]
  <2> HIDE DEF r
  <2>1. c \in 0..Len(args)
    BY <1>3
  <2>2. /\ InsertAt(args, c + 1, arg) \in Seq(FineArguments)
        /\ Len(InsertAt(args, c + 1, arg)) = Len(args) + 1
        /\ \A i \in 1..(Len(args) + 1) : InsertAt(args, c + 1, arg)[i] =
               IF i <= c THEN args[i] ELSE IF i = c + 1 THEN arg ELSE args[i - 1]
    BY <1>1, <2>1, ArgumentPut, Zenon
  <2> QED
    BY <1>4, <2>2
<1>6. \A i \in 1..n : i <= c => KeyBefore(args[i].key, key)
  <2>1. \A i \in 1..n : i <= c => i \in 1..c
    BY <1>1
  <2>2. \A i \in 1..c : i \in KeysBefore(args, key)
    BY <1>3
  <2> QED
    BY <2>1, <2>2 DEF KeysBefore
<1>7. ASSUME NEW i \in 1..n, ~(i <= c) PROVE KeyBefore(key, args[i].key)
  <2>1. ~KeyBefore(args[i].key, key)
    <3>1. i \notin 1..c
      BY <1>3, <1>7
    <3> QED
      BY <1>1, <1>3, <3>1 DEF KeysBefore
  <2>2. args[i].key # key
    BY <1>1 DEF NewKey
  <2> QED
    BY <1>1, <1>2, <2>1, <2>2, BeforeTotal
<1>8. \A i, j \in 1..n : i < j => KeyBefore(args[i].key, args[j].key)
  BY DEF AreFine
<1> HIDE DEF r, key, n
<1>9. ASSUME NEW i \in 1..(n + 1), NEW j \in 1..(n + 1), i < j PROVE KeyBefore(r[i].key, r[j].key)
  <2>1. c \in Nat
    BY <1>1, <1>3
  <2>2. i <= c => i \in 1..n
    BY <1>1, <1>3
  <2>3. j <= c => j \in 1..n
    BY <1>1, <1>3
  <2>4. i > c + 1 => i - 1 \in 1..n /\ ~(i - 1 <= c)
    BY <1>1, <2>1
  <2>5. j > c + 1 => j - 1 \in 1..n /\ ~(j - 1 <= c)
    BY <1>1, <2>1
  <2>6. /\ i <= c => r[i] = args[i]
        /\ i = c + 1 => r[i] = arg
        /\ i > c + 1 => r[i] = args[i - 1]
    <3>1. (i = c + 1 => ~(i <= c)) /\ (i > c + 1 => ~(i <= c) /\ i # c + 1)
      BY <2>1
    <3> QED
      BY <1>5, <3>1
  <2>7. /\ j <= c => r[j] = args[j]
        /\ j = c + 1 => r[j] = arg
        /\ j > c + 1 => r[j] = args[j - 1]
    <3>1. (j = c + 1 => ~(j <= c)) /\ (j > c + 1 => ~(j <= c) /\ j # c + 1)
      BY <2>1
    <3> QED
      BY <1>5, <3>1
  <2>8. CASE j <= c
    <3>1. i <= c
      BY <1>9, <2>1, <2>8
    <3> QED
      BY <1>8, <1>9, <2>2, <2>3, <2>6, <2>7, <2>8, <3>1
  <2>9. CASE j = c + 1
    <3>1. i <= c
      BY <1>9, <2>1, <2>9
    <3> QED
      BY <1>6, <2>2, <2>6, <2>7, <2>9, <3>1 DEF key
  <2>10. CASE j > c + 1
    <3>1. CASE i <= c
      <4>1. i < j - 1
        BY <2>1, <2>10, <3>1
      <4> QED
        BY <1>8, <2>2, <2>5, <2>6, <2>7, <2>10, <3>1, <4>1
    <3>2. CASE i = c + 1
      BY <1>7, <2>5, <2>6, <2>7, <2>10, <3>2 DEF key
    <3>3. CASE i > c + 1
      <4>1. i - 1 < j - 1
        BY <1>9, <2>1
      <4> QED
        BY <1>8, <2>4, <2>5, <2>6, <2>7, <2>10, <3>3, <4>1
    <3> QED
      BY <2>1, <3>1, <3>2, <3>3
  <2> QED
    BY <2>1, <2>8, <2>9, <2>10
<1>10. AreFine(r)
  BY <1>5, <1>9 DEF AreFine
<1> QED
  BY <1>10 DEF r

\* A key that all others are before comes last.
LEMMA InsertedLast ==
    ASSUME NEW args, AreFine(args), NEW arg \in FineArguments,
           \A i \in 1..Len(args) : KeyBefore(args[i].key, arg.key)
    PROVE  Inserted(args, arg) = Append(args, arg) /\ NewKey(args, arg.key)
<1> DEFINE n == Len(args)
           r == Inserted(args, arg)
           u == Append(args, arg)
<1>1. args \in Seq(FineArguments) /\ n \in Nat /\ DOMAIN args = 1..n /\ \A i \in 1..n : args[i].key \in Text
  BY FineMembers
<1>2. {i \in DOMAIN args : KeyBefore(args[i].key, arg.key)} = 1..n
  BY <1>1
<1>3. Cardinality(1..n) = n
  <2>1. Cardinality(1..n) = IF 1 > n THEN 0 ELSE n - 1 + 1
    BY <1>1, FS_Interval
  <2> QED
    BY <1>1, <2>1
<1>4. r = InsertAt(args, n + 1, arg)
  BY <1>2, <1>3 DEF Inserted
<1>5. n \in 0..n
  BY <1>1
<1>6. /\ r \in Seq(FineArguments) /\ Len(r) = n + 1
      /\ \A i \in 1..(n + 1) : r[i] = IF i <= n THEN args[i] ELSE IF i = n + 1 THEN arg ELSE args[i - 1]
  <2> HIDE DEF r
  <2>2. /\ InsertAt(args, n + 1, arg) \in Seq(FineArguments)
        /\ Len(InsertAt(args, n + 1, arg)) = Len(args) + 1
        /\ \A i \in 1..(Len(args) + 1) : InsertAt(args, n + 1, arg)[i] =
               IF i <= n THEN args[i] ELSE IF i = n + 1 THEN arg ELSE args[i - 1]
    BY <1>1, <1>5, ArgumentPut, Zenon
  <2> QED
    BY <1>4, <2>2
<1>7. /\ u \in Seq(FineArguments) /\ Len(u) = n + 1
      /\ \A i \in 1..n : u[i] = args[i]
      /\ u[n + 1] = arg
  BY <1>1, AppendProperties
<1> HIDE DEF r, u, n
<1>8. ASSUME NEW i \in 1..(n + 1) PROVE r[i] = u[i]
  <2>1. CASE i <= n
    <3>1. i \in 1..n
      BY <1>1, <2>1
    <3> QED
      BY <1>6, <1>7, <2>1, <3>1
  <2>2. CASE i = n + 1
    <3>1. ~(i <= n)
      BY <1>1, <2>2
    <3> QED
      BY <1>6, <1>7, <2>2, <3>1
  <2> QED
    BY <1>1, <2>1, <2>2
<1>9. r = u
  BY <1>6, <1>7, <1>8, SeqEqual
<1>10. NewKey(args, arg.key)
  <2>1. \A i \in 1..n : args[i].key # arg.key
    BY <1>1, BeforeIrreflexive DEF n
  <2> QED
    BY <1>1, <2>1 DEF NewKey
<1> QED
  BY <1>9, <1>10 DEF r, u

-----------------------------------------------------------------------------
(* An argument as it is written. *)

\* The marks are pieces.
LEMMA MarksArePieces ==
    /\ "\n" \in Pieces
    /\ {"<think>", "</think>", "<tool_calls>", "</tool_calls>", "<tool_call>", "</tool_call>",
        "<sep>", "<key>", "</key>", "<value>", "</value>"} \subseteq Pieces
  BY ChatAssumption DEF ChatAssumption, ControlMarkers

\* Two and three pieces.
LEMMA FewPieces ==
    ASSUME NEW p \in Pieces, NEW q \in Pieces, NEW r \in Pieces
    PROVE  /\ <<p, q>> = <<p>> \o <<q>> /\ <<p, q>> \in Text
           /\ <<p, q, r>> = <<p>> \o (<<q>> \o <<r>>) /\ <<p, q, r>> \in Text
<1>1. ASSUME NEW x \in Pieces, NEW y \in Pieces PROVE <<x, y>> = <<x>> \o <<y>> /\ <<x, y>> \in Text
  <2> DEFINE u == <<x>>
             v == <<y>>
             w == <<x, y>>
             c == u \o v
  <2>1. u \in Text /\ v \in Text /\ w \in Text /\ Len(u) = 1 /\ Len(v) = 1 /\ Len(w) = 2
        /\ u[1] = x /\ v[1] = y /\ w[1] = x /\ w[2] = y
    BY DEF Text
  <2> HIDE DEF u, v, w
  <2>2. /\ c \in Text /\ Len(c) = Len(u) + Len(v)
        /\ (\A i \in 1..Len(u) : c[i] = u[i]) /\ (\A i \in 1..Len(v) : c[Len(u) + i] = v[i])
    BY <2>1, TextConcat
  <2> HIDE DEF c
  <2>3. Len(c) = 2 /\ c[1] = x /\ c[2] = y
    <3>1. 1 \in 1..1 /\ 1 + 1 = 2
      OBVIOUS
    <3> QED
      BY <2>1, <2>2, <3>1
  <2>4. \A i \in 1..2 : i = 1 \/ i = 2
    OBVIOUS
  <2>5. w = c
    BY <2>1, <2>2, <2>3, <2>4, SeqEqual DEF Text
  <2> QED
    BY <2>1, <2>5 DEF u, v, w, c
<1>2. <<p, q, r>> = <<p>> \o <<q, r>> /\ <<p, q, r>> \in Text
  <2> DEFINE v == <<q, r>>
             w == <<p, q, r>>
             c == <<p>> \o v
  <2>1. v \in Text /\ w \in Text /\ Len(v) = 2 /\ Len(w) = 3
        /\ v[1] = q /\ v[2] = r /\ w[1] = p /\ w[2] = q /\ w[3] = r
    BY DEF Text
  <2> HIDE DEF v, w
  <2>2. c \in Text /\ Len(c) = Len(v) + 1 /\ c[1] = p /\ \A i \in 1..Len(v) : c[i + 1] = v[i]
    BY <2>1, PieceFirst
  <2> HIDE DEF c
  <2>3. Len(c) = 3 /\ c[2] = q /\ c[3] = r
    <3>1. 1 \in 1..2 /\ 2 \in 1..2 /\ 1 + 1 = 2 /\ 2 + 1 = 3
      OBVIOUS
    <3> QED
      BY <2>1, <2>2, <3>1
  <2>4. \A i \in 1..3 : i = 1 \/ i = 2 \/ i = 3
    OBVIOUS
  <2>5. w = c
    BY <2>1, <2>2, <2>3, <2>4, SeqEqual DEF Text
  <2> QED
    BY <2>1, <2>5 DEF v, w, c
<1>3. <<q, r>> = <<q>> \o <<r>>
  BY <1>1
<1> QED
  BY <1>1, <1>2, <1>3

\* Two texts put together.
Join(a, b) == a \o b

\* They are a text; a third may be put to either.
LEMMA Joined ==
    ASSUME NEW a \in Text, NEW b \in Text
    PROVE  Join(a, b) \in Text /\ Join(<<>>, b) = b /\ Join(a, <<>>) = a
  BY TextConcat DEF Join

\* Three texts.
LEMMA JoinAssociative ==
    ASSUME NEW a \in Text, NEW b \in Text, NEW c \in Text
    PROVE  Join(Join(a, b), c) = Join(a, Join(b, c))
  BY TextAssociative DEF Join

\* A text between two marks, and what follows: the parser cuts it out, with or
\* without a line end before it.
LEMMA BetweenMarks ==
    ASSUME NEW o \in Pieces, NEW c \in Pieces, o # c, o # "\n",
           NEW a \in Text, ~Holds(a, c), NEW v \in Text
    PROVE  LET w == Join(<<o>>, Join(a, Join(<<c>>, v)))
           IN  /\ w \in Text /\ w # <<>> /\ StartsWith(w, o) /\ Holds(w, c)
               /\ TrimNewlines(w) = w /\ TrimNewlines(Join(<<"\n">>, w)) = w
               /\ BeforeMark(Tail(w), c) = a /\ AfterMark(w, c) = v
<1> DEFINE cv == <<c>> \o v
           i == a \o cv
           w == <<o>> \o i
           oa == <<o>> \o a
<1>1. cv \in Text /\ <<o>> \in Text
  BY PieceFirst
<1>2. i \in Text
  BY <1>1, TextConcat
<1>3. w \in Text /\ w # <<>> /\ w[1] = o /\ Tail(w) = i
  <2> HIDE DEF i
  <2> QED
    BY <1>2, PieceFirst
<1>4. TrimNewlines(w) = w /\ TrimNewlines(<<"\n">> \o w) = TrimNewlines(w)
  <2> HIDE DEF w
  <2> QED
    BY <1>3, TrimIs, TrimLine, MarksArePieces
<1>5. BeforeMark(i, c) = a
  BY MarkFound
<1>6. oa \in Text /\ ~Holds(oa, c)
  <2>1. oa \in Text
    BY PieceFirst
  <2>2. Holds(oa, c) <=> Holds(<<o>>, c) \/ Holds(a, c)
    BY <1>1, HoldsConcat
  <2>3. ~Holds(<<o>>, c)
    BY HoldsPiece
  <2> QED
    BY <2>1, <2>2, <2>3
<1>7. w = oa \o cv
  <2> DEFINE p == <<o>>
  <2>1. p \in Text
    BY <1>1
  <2> HIDE DEF cv, p
  <2>2. (p \o a) \o cv = p \o (a \o cv)
    BY <1>1, <2>1, TextAssociative
  <2> QED
    BY <2>2 DEF p
<1>8. Holds(oa \o cv, c) /\ AfterMark(oa \o cv, c) = v
  <2> HIDE DEF oa
  <2> QED
    BY <1>6, MarkFound
<1>9. Holds(w, c) /\ AfterMark(w, c) = v
  BY <1>7, <1>8
<1>10. StartsWith(w, o)
  BY <1>3 DEF StartsWith
<1> HIDE DEF w, i
<1>11. BeforeMark(Tail(w), c) = a
  BY <1>3, <1>5
<1>12. /\ w \in Text /\ w # <<>> /\ StartsWith(w, o) /\ Holds(w, c)
       /\ TrimNewlines(w) = w /\ TrimNewlines(<<"\n">> \o w) = w
       /\ BeforeMark(Tail(w), c) = a /\ AfterMark(w, c) = v
  BY <1>3, <1>4, <1>9, <1>10, <1>11
<1> QED
  BY <1>12 DEF w, i, cv, Join

\* Texts, all six.
AreTexts(a, b, c, d, e, f) ==
    a \in Text /\ b \in Text /\ c \in Text /\ d \in Text /\ e \in Text /\ f \in Text

\* Six texts may be put together from either side.
LEMMA SixTexts ==
    ASSUME NEW a, NEW b, NEW c, NEW d, NEW e, NEW f, AreTexts(a, b, c, d, e, f)
    PROVE  /\ Join(Join(Join(Join(a, b), c), d), e) \in Text
           /\ Join(Join(Join(Join(Join(a, b), c), d), e), f) = Join(a, Join(b, Join(c, Join(d, Join(e, f)))))
<1>1. a \in Text /\ b \in Text /\ c \in Text /\ d \in Text /\ e \in Text /\ f \in Text
  BY DEF AreTexts
<1>2. Join(a, b) \in Text
  BY <1>1, Joined
<1>3. Join(Join(a, b), c) \in Text
  BY <1>1, <1>2, Joined
<1>4. Join(Join(Join(a, b), c), d) \in Text
  BY <1>1, <1>3, Joined
<1>5. Join(Join(Join(Join(a, b), c), d), e) \in Text
  BY <1>1, <1>4, Joined
<1>6. Join(e, f) \in Text
  BY <1>1, Joined
<1>7. Join(d, Join(e, f)) \in Text
  BY <1>1, <1>6, Joined
<1>8. Join(c, Join(d, Join(e, f))) \in Text
  BY <1>1, <1>7, Joined
<1>9. Join(Join(Join(Join(Join(a, b), c), d), e), f) = Join(Join(Join(Join(a, b), c), d), Join(e, f))
  BY <1>1, <1>4, JoinAssociative
<1>10. Join(Join(Join(Join(a, b), c), d), Join(e, f)) = Join(Join(Join(a, b), c), Join(d, Join(e, f)))
  BY <1>1, <1>3, <1>6, JoinAssociative
<1>11. Join(Join(Join(a, b), c), Join(d, Join(e, f))) = Join(Join(a, b), Join(c, Join(d, Join(e, f))))
  BY <1>1, <1>2, <1>7, JoinAssociative
<1>12. Join(Join(a, b), Join(c, Join(d, Join(e, f)))) = Join(a, Join(b, Join(c, Join(d, Join(e, f)))))
  BY <1>1, <1>8, JoinAssociative
<1> QED
  BY <1>5, <1>9, <1>10, <1>11, <1>12

\* A line end, and what follows.
Line(t) == Join(<<"\n">>, t)
\* A text between two marks, and what follows.
Between(o, a, c, t) == Join(<<o>>, Join(a, Join(<<c>>, t)))

\* These are texts.
LEMMA LinesAre ==
    ASSUME NEW o \in Pieces, NEW c \in Pieces, NEW a \in Text, NEW t \in Text
    PROVE  Line(t) \in Text /\ Between(o, a, c, t) \in Text
<1>1. <<o>> \in Text /\ <<c>> \in Text /\ <<"\n">> \in Text
  BY MarksArePieces DEF Text
<1>2. Line(t) \in Text
  BY <1>1, Joined DEF Line
<1>3. Join(<<c>>, t) \in Text
  BY <1>1, Joined
<1>4. Join(a, Join(<<c>>, t)) \in Text
  BY <1>3, Joined
<1>5. Between(o, a, c, t) \in Text
  BY <1>1, <1>4, Joined DEF Between
<1> QED
  BY <1>2, <1>5

\* An argument as it is written.
ArgText(arg) ==
    <<"<key>">> \o arg.key \o <<"</key>", "\n", "<value>">> \o arg.text \o <<"</value>", "\n">>
ArgTexts(args) == [i \in DOMAIN args |-> ArgText(args[i])]
ArgsText(args) == FlattenSeq(ArgTexts(args))

\* The same with what follows, mark by mark.
LEMMA ArgumentWritten ==
    ASSUME NEW arg, FineArgument(arg), NEW t \in Text
    PROVE  /\ ArgText(arg) \in Text
           /\ Join(ArgText(arg), t) =
                 Between("<key>", arg.key, "</key>", Line(Between("<value>", arg.text, "</value>", Line(t))))
<1> DEFINE k == <<"<key>">>
           key == arg.key
           m == <<"</key>", "\n", "<value>">>
           text == arg.text
           e == <<"</value>", "\n">>
           e1 == <<"</value>">>
           e2 == <<"\n">>
           m1 == <<"</key>">>
           m3 == <<"<value>">>
<1>1. k \in Text /\ e1 \in Text /\ e2 \in Text /\ m1 \in Text /\ m3 \in Text
  BY MarksArePieces DEF Text
<1>2. key \in Text /\ text \in Text
  BY DEF FineArgument, IsInner
<1>7. m \in Text /\ m = Join(m1, Join(e2, m3))
  <2>1. "</key>" \in Pieces /\ "\n" \in Pieces /\ "<value>" \in Pieces
    BY MarksArePieces
  <2> QED
    BY <2>1, FewPieces DEF Join
<1>8. e \in Text /\ e = Join(e1, e2)
  <2>1. "</value>" \in Pieces /\ "\n" \in Pieces
    BY MarksArePieces
  <2> QED
    BY <2>1, FewPieces DEF Join
<1>9. ArgText(arg) = Join(Join(Join(Join(k, key), m), text), e)
  BY Zenon DEF ArgText, Join
<1> HIDE DEF k, key, m, text, e, e1, e2, m1, m3
<1>10. AreTexts(k, key, m, text, e, t)
  BY <1>1, <1>2, <1>7, <1>8 DEF AreTexts
<1>11. /\ ArgText(arg) \in Text
       /\ Join(ArgText(arg), t) = Join(k, Join(key, Join(m, Join(text, Join(e, t)))))
  BY <1>9, <1>10, SixTexts
<1>12. Join(e, t) = Join(e1, Line(t))
  BY <1>1, <1>8, JoinAssociative DEF Line, e2
<1> DEFINE z == Join(text, Join(e1, Line(t)))
<1>13. z \in Text
  <2>1. Line(t) \in Text
    BY LinesAre, MarksArePieces
  <2>2. Join(e1, Line(t)) \in Text
    BY <1>1, <2>1, Joined
  <2> QED
    BY <1>2, <2>2, Joined
<1> HIDE DEF z
<1>14. Join(Join(m1, Join(e2, m3)), z) = Join(m1, Join(Join(e2, m3), z))
  <2>1. Join(e2, m3) \in Text
    BY <1>1, Joined
  <2> QED
    BY <1>1, <1>13, <2>1, JoinAssociative
<1>15. Join(Join(e2, m3), z) = Line(Join(m3, z))
  BY <1>1, <1>13, JoinAssociative DEF Line, e2
<1>16. Join(ArgText(arg), t) = Join(k, Join(key, Join(m1, Line(Join(m3, z)))))
  BY <1>7, <1>11, <1>12, <1>14, <1>15 DEF z
<1> QED
  BY <1>11, <1>16 DEF z, k, key, text, e1, m1, m3, Between

-----------------------------------------------------------------------------
(* The loop over arguments. *)

\* The function ParseArguments chooses.
IsArgumentLoop(f, input, n) ==
    f = [k \in 0..n |-> IF k = 0 THEN Reading(input) ELSE ArgumentTurn(f[k - 1])]

\* There is such a function for every number of turns.
LEMMA ArgumentLoopExists ==
    ASSUME NEW input, NEW n \in Nat
    PROVE  \E f : IsArgumentLoop(f, input, n)
<1> DEFINE S == {k \in Nat : \E f : IsArgumentLoop(f, input, k)}
<1>1. 0 \in S
  <2> DEFINE f == [k \in 0..0 |-> Reading(input)]
             v == [k \in 0..0 |-> IF k = 0 THEN Reading(input) ELSE ArgumentTurn(f[k - 1])]
  <2>1. \A k \in 0..0 : f[k] = v[k]
    <3>1. \A k \in 0..0 : k = 0
      OBVIOUS
    <3> QED
      BY <3>1
  <2>2. f = [k \in 0..0 |-> f[k]] /\ v = [k \in 0..0 |-> v[k]]
    OBVIOUS
  <2>3. f = v
    <3> HIDE DEF f, v
    <3> QED
      BY <2>1, <2>2
  <2>4. IsArgumentLoop(f, input, 0)
    BY <2>3 DEF IsArgumentLoop
  <2> QED
    BY <2>4
<1>2. ASSUME NEW q \in S PROVE q + 1 \in S
  <2>1. PICK f : IsArgumentLoop(f, input, q)
    OBVIOUS
  <2>2. q \in Nat /\ q + 1 \in Nat
    OBVIOUS
  <2> DEFINE u == [k \in 0..(q + 1) |-> IF k <= q THEN f[k] ELSE ArgumentTurn(f[q])]
             v == [k \in 0..(q + 1) |-> IF k = 0 THEN Reading(input) ELSE ArgumentTurn(u[k - 1])]
  <2>3. f = [k \in 0..q |-> IF k = 0 THEN Reading(input) ELSE ArgumentTurn(f[k - 1])]
    BY <2>1 DEF IsArgumentLoop
  <2>4. ASSUME NEW k \in 0..(q + 1) PROVE u[k] = v[k]
    <3>1. v[k] = IF k = 0 THEN Reading(input) ELSE ArgumentTurn(u[k - 1])
      OBVIOUS
    <3>2. u[k] = IF k <= q THEN f[k] ELSE ArgumentTurn(f[q])
      OBVIOUS
    <3>3. k # 0 => u[k - 1] = f[k - 1]
      <4>1. SUFFICES ASSUME k # 0 PROVE u[k - 1] = f[k - 1]
        OBVIOUS
      <4>2. k - 1 \in 0..(q + 1) /\ k - 1 <= q
        BY <2>2, <4>1
      <4> QED
        BY <4>2
    <3> HIDE DEF u, v
    <3>4. CASE k <= q
      <4>1. k \in 0..q
        BY <3>4
      <4>2. f[k] = IF k = 0 THEN Reading(input) ELSE ArgumentTurn(f[k - 1])
        BY <2>3, <4>1
      <4> QED
        BY <3>1, <3>2, <3>3, <3>4, <4>2
    <3>5. CASE ~(k <= q)
      <4>1. k - 1 = q /\ k # 0
        BY <2>2, <3>5
      <4> QED
        BY <3>1, <3>2, <3>3, <3>5, <4>1
    <3> QED
      BY <3>4, <3>5
  <2>5. u = v
    <3>1. u = [k \in 0..(q + 1) |-> u[k]] /\ v = [k \in 0..(q + 1) |-> v[k]]
      OBVIOUS
    <3> HIDE DEF u, v
    <3> QED
      BY <2>4, <3>1
  <2>6. IsArgumentLoop(u, input, q + 1)
    BY <2>5 DEF IsArgumentLoop
  <2> HIDE DEF u, v
  <2> QED
    BY <2>2, <2>6
<1>3. S \in SUBSET Nat
  OBVIOUS
<1> HIDE DEF S
<1>4. n \in S
  BY <1>1, <1>2, <1>3, EveryNatural
<1> QED
  BY <1>4 DEF S

\* ParseArguments is where its loop ends.
LEMMA ArgumentLoop ==
    ASSUME NEW input \in Text
    PROVE  \E f : /\ f[0] = Reading(input) /\ ParseArguments(input) = f[Len(input)]
                  /\ \A k \in Nat : k < Len(input) => f[k + 1] = ArgumentTurn(f[k])
<1> DEFINE n == Len(input)
           it == CHOOSE f : f = [k \in 0..n |-> IF k = 0 THEN Reading(input) ELSE ArgumentTurn(f[k - 1])]
<1>1. n \in Nat
  BY TextPieces
<1>2. ParseArguments(input) = it[n]
  BY DEF ParseArguments
<1>3. it = CHOOSE f : IsArgumentLoop(f, input, n)
  BY DEF IsArgumentLoop
<1> HIDE DEF it, n
<1>4. IsArgumentLoop(it, input, n)
  BY <1>1, <1>3, ArgumentLoopExists
<1>5. it = [k \in 0..n |-> IF k = 0 THEN Reading(input) ELSE ArgumentTurn(it[k - 1])]
  BY <1>4 DEF IsArgumentLoop
<1>6. it[0] = Reading(input)
  <2>1. 0 \in 0..n
    BY <1>1
  <2> QED
    BY <1>5, <2>1
<1>7. ASSUME NEW k \in Nat, k < n PROVE it[k + 1] = ArgumentTurn(it[k])
  <2> DEFINE j == k + 1
  <2>1. j \in 0..n /\ j # 0 /\ j - 1 = k
    BY <1>1, <1>7
  <2> HIDE DEF j
  <2>2. it[j] = ArgumentTurn(it[j - 1])
    BY <1>5, <2>1
  <2>3. it[j] = ArgumentTurn(it[k])
    BY <2>1, <2>2
  <2> QED
    BY <2>3 DEF j
<1>8. /\ it[0] = Reading(input) /\ ParseArguments(input) = it[Len(input)]
      /\ \A k \in Nat : k < Len(input) => it[k + 1] = ArgumentTurn(it[k])
  BY <1>2, <1>6, <1>7 DEF n
<1> QED
  BY <1>8

-----------------------------------------------------------------------------
(* What is read. *)

\* A parser's state, with what is left of the text and what was read.
IsReading(s) == s = [rest |-> s.rest, value |-> s.value, ok |-> s.ok] /\ s.ok \in BOOLEAN

\* A state of the parser of arguments: what is left holds no mark that ends a
\* call, and what was read is in order.
ArgumentsSoFar(s) == IsReading(s) /\ IsInner(s.rest) /\ AreFine(s.value)

\* Parts of a text without these marks are without them.
LEMMA InnerParts ==
    ASSUME NEW t, IsInner(t)
    PROVE  /\ IsInner(TrimNewlines(t))
           /\ t # <<>> => IsInner(Tail(t))
           /\ \A m : Holds(t, m) => IsInner(BeforeMark(t, m)) /\ IsInner(AfterMark(t, m))
<1>1. t \in Text
  BY DEF IsInner
<1>2. IsInner(TrimNewlines(t))
  BY <1>1, TrimIs DEF IsInner
<1>3. t # <<>> => IsInner(Tail(t))
  BY <1>1, TextTail DEF IsInner
<1>4. ASSUME NEW m, Holds(t, m) PROVE IsInner(BeforeMark(t, m)) /\ IsInner(AfterMark(t, m))
  BY <1>1, <1>4, MarkCuts DEF IsInner
<1> QED
  BY <1>2, <1>3, <1>4

\* A text that holds a mark it does not begin with holds it further on.
LEMMA HoldsFurther ==
    ASSUME NEW t \in Text, NEW o, NEW m, StartsWith(t, o), o # m, Holds(t, m)
    PROVE  t # <<>> /\ Holds(Tail(t), m)
<1>1. t # <<>> /\ t[1] = o
  BY DEF StartsWith
<1>2. /\ Len(t) \in Nat \ {0} /\ Len(Tail(t)) = Len(t) - 1
      /\ \A i \in 1..Len(Tail(t)) : Tail(t)[i] = t[i + 1]
  BY <1>1, HeadTailProperties, EmptySeq DEF Text
<1>3. PICK i \in 1..Len(t) : t[i] = m
  BY DEF Holds, Contains
<1>4. i # 1
  BY <1>1, <1>3
<1>5. i - 1 \in 1..Len(Tail(t)) /\ (i - 1) + 1 = i
  BY <1>2, <1>3, <1>4
<1>6. Tail(t)[i - 1] = m
  BY <1>2, <1>3, <1>5
<1> QED
  BY <1>1, <1>5, <1>6 DEF Holds, Contains

\* A turn of that parser.
LEMMA ArgumentTurnReads ==
    ASSUME NEW s, ArgumentsSoFar(s)
    PROVE  ArgumentsSoFar(ArgumentTurn(s))
<1> DEFINE text == TrimNewlines(s.rest)
           key == BeforeMark(Tail(text), "</key>")
           after == AfterMark(text, "</key>")
           value == TrimNewlines(after)
           inner == BeforeMark(Tail(value), "</value>")
           arg == ArgumentOf(key, inner)
           good == /\ s.ok /\ text # <<>> /\ StartsWith(text, "<key>") /\ Holds(text, "</key>")
                   /\ key # <<>> /\ StartsWith(value, "<value>") /\ Holds(value, "</value>")
                   /\ NewKey(s.value, key)
<1>1. s = [rest |-> s.rest, value |-> s.value, ok |-> s.ok] /\ s.ok \in BOOLEAN
      /\ IsInner(s.rest) /\ AreFine(s.value)
  BY DEF ArgumentsSoFar, IsReading
<1>2. ArgumentTurn(s) = IF good THEN [s EXCEPT !.rest = AfterMark(value, "</value>"), !.value = Inserted(@, arg)]
                        ELSE IF ~s.ok \/ text = <<>> THEN [s EXCEPT !.rest = <<>>]
                        ELSE [s EXCEPT !.ok = FALSE]
  <2> DEFINE b1 == s.ok
             b2 == text = <<>>
             b3 == StartsWith(text, "<key>")
             b4 == Holds(text, "</key>")
             b5 == key = <<>>
             b6 == StartsWith(value, "<value>")
             b7 == Holds(value, "</value>")
             b8 == NewKey(s.value, key)
             t1 == [s EXCEPT !.rest = AfterMark(value, "</value>"), !.value = Inserted(@, arg)]
             t2 == [s EXCEPT !.rest = <<>>]
             t3 == [s EXCEPT !.ok = FALSE]
  <2>1. ArgumentTurn(s) = IF ~b1 \/ b2 THEN t2
                          ELSE IF ~b3 \/ ~b4 THEN t3
                          ELSE IF b5 \/ ~b6 \/ ~b7 \/ ~b8 THEN t3 ELSE t1
    BY DEF ArgumentTurn, ArgumentAt
  <2>2. good <=> b1 /\ ~b2 /\ b3 /\ b4 /\ ~b5 /\ b6 /\ b7 /\ b8
    OBVIOUS
  <2> HIDE DEF good, b1, b2, b3, b4, b5, b6, b7, b8, t1, t2, t3
  <2>3. ArgumentTurn(s) = IF good THEN t1 ELSE IF ~b1 \/ b2 THEN t2 ELSE t3
    BY <2>1, <2>2
  <2> QED
    BY <2>3 DEF b1, b2, t1, t2, t3
<1>3. CASE good
  <2>1. IsInner(text)
    BY <1>1, InnerParts
  <2>2. text \in Text /\ "<key>" # "</key>"
    BY <2>1 DEF IsInner
  <2>3. text # <<>> /\ Holds(Tail(text), "</key>")
    <3> HIDE DEF text
    <3> QED
      BY <1>3, <2>2, HoldsFurther
  <2>4. IsInner(Tail(text))
    <3> HIDE DEF text
    <3> QED
      BY <2>1, <2>3, InnerParts
  <2>5. IsInner(key) /\ ~Holds(key, "</key>")
    <3> DEFINE r == Tail(text)
    <3>1. IsInner(r) /\ Holds(r, "</key>") /\ r \in Text
      BY <2>3, <2>4 DEF IsInner
    <3> HIDE DEF r
    <3>2. IsInner(BeforeMark(r, "</key>")) /\ ~Holds(BeforeMark(r, "</key>"), "</key>")
      BY <3>1, InnerParts, MarkCuts
    <3> QED
      BY <3>2 DEF r
  <2>6. IsInner(after)
    <3> HIDE DEF text
    <3> QED
      BY <1>3, <2>1, InnerParts
  <2>7. IsInner(value)
    <3> HIDE DEF after
    <3> QED
      BY <2>6, InnerParts
  <2>8. value \in Text /\ "<value>" # "</value>"
    BY <2>7 DEF IsInner
  <2>9. value # <<>> /\ Holds(Tail(value), "</value>")
    <3> HIDE DEF value
    <3> QED
      BY <1>3, <2>8, HoldsFurther
  <2>10. IsInner(Tail(value))
    <3> HIDE DEF value
    <3> QED
      BY <2>7, <2>9, InnerParts
  <2>11. IsInner(inner)
    <3> DEFINE r == Tail(value)
    <3>1. IsInner(r) /\ Holds(r, "</value>")
      BY <2>9, <2>10
    <3> HIDE DEF r
    <3>2. IsInner(BeforeMark(r, "</value>"))
      BY <3>1, InnerParts
    <3> QED
      BY <3>2 DEF r
  <2>12. IsInner(AfterMark(value, "</value>"))
    <3> HIDE DEF value
    <3> QED
      BY <1>3, <2>7, InnerParts
  <2>13. key # <<>> /\ NewKey(s.value, key)
    BY <1>3
  <2> HIDE DEF key, inner
  <2>14. inner \in Text
    BY <2>11 DEF IsInner
  <2>15. arg \in FineArguments /\ arg.key = key
    BY <2>5, <2>13, <2>14, ArgumentFine
  <2>16. AreFine(Inserted(s.value, arg))
    <3> HIDE DEF arg
    <3> QED
      BY <1>1, <2>13, <2>15, InsertedFine
  <2> HIDE DEF arg, value
  <2>17. ArgumentTurn(s) = [s EXCEPT !.rest = AfterMark(value, "</value>"), !.value = Inserted(@, arg)]
    BY <1>2, <1>3
  <2>18. ArgumentTurn(s) = [rest |-> AfterMark(value, "</value>"), value |-> Inserted(s.value, arg), ok |-> s.ok]
    BY <1>1, <2>17
  <2> QED
    BY <1>1, <2>12, <2>16, <2>18 DEF ArgumentsSoFar, IsReading
<1>4. CASE ~good
  <2> HIDE DEF good, text
  <2>1. CASE ~s.ok \/ text = <<>>
    <3>1. ArgumentTurn(s) = [s EXCEPT !.rest = <<>>]
      BY <1>2, <1>4, <2>1
    <3>2. ArgumentTurn(s) = [rest |-> <<>>, value |-> s.value, ok |-> s.ok]
      BY <1>1, <3>1
    <3>3. IsInner(<<>>)
      BY HoldsPiece DEF IsInner, Text
    <3> QED
      BY <1>1, <3>2, <3>3 DEF ArgumentsSoFar, IsReading
  <2>2. CASE ~(~s.ok \/ text = <<>>)
    <3>1. ArgumentTurn(s) = [s EXCEPT !.ok = FALSE]
      BY <1>2, <1>4, <2>2
    <3>2. ArgumentTurn(s) = [rest |-> s.rest, value |-> s.value, ok |-> FALSE]
      BY <1>1, <3>1
    <3> QED
      BY <1>1, <3>2 DEF ArgumentsSoFar, IsReading
  <2> QED
    BY <2>1, <2>2
<1> QED
  BY <1>3, <1>4

\* ParseArguments reads arguments in order, whatever the text.
LEMMA ArgumentsRead ==
    ASSUME NEW input, IsInner(input)
    PROVE  ArgumentsSoFar(ParseArguments(input))
<1>1. input \in Text /\ Len(input) \in Nat
  BY TextPieces DEF IsInner
<1>2. PICK f : /\ f[0] = Reading(input) /\ ParseArguments(input) = f[Len(input)]
               /\ \A k \in Nat : k < Len(input) => f[k + 1] = ArgumentTurn(f[k])
  BY <1>1, ArgumentLoop
<1> DEFINE S == {k \in Nat : k <= Len(input) => ArgumentsSoFar(f[k])}
<1>3. 0 \in S
  <2>1. AreFine(<<>>)
    <3>1. <<>> \in Seq(FineArguments) /\ Len(<<>>) = 0
      BY EmptySeq
    <3>2. 1..0 = {}
      OBVIOUS
    <3> QED
      BY <3>1, <3>2 DEF AreFine
  <2>2. ArgumentsSoFar(Reading(input))
    BY <2>1 DEF ArgumentsSoFar, IsReading, Reading
  <2> QED
    BY <1>2, <2>2
<1>4. ASSUME NEW k \in S PROVE k + 1 \in S
  <2>1. SUFFICES ASSUME k + 1 <= Len(input) PROVE ArgumentsSoFar(f[k + 1])
    OBVIOUS
  <2>2. k \in Nat /\ k < Len(input) /\ ArgumentsSoFar(f[k])
    BY <1>1, <2>1
  <2> QED
    BY <1>2, <2>2, ArgumentTurnReads
<1>5. Len(input) \in S
  <2> HIDE DEF S
  <2>1. S \in SUBSET Nat
    BY DEF S
  <2> QED
    BY <1>1, <1>3, <1>4, <2>1, EveryNatural
<1> QED
  BY <1>1, <1>2, <1>5

-----------------------------------------------------------------------------
(* An argument that was written is read again. *)

\* The turn that reads an argument where one is written.
LEMMA ArgumentTurnRereads ==
    ASSUME NEW args, AreFine(args), NEW arg, FineArgument(arg), Encloses(arg.text), NEW t \in Text,
           \A i \in 1..Len(args) : KeyBefore(args[i].key, arg.key)
    PROVE  ArgumentTurn([rest |-> Line(Join(ArgText(arg), t)), value |-> args, ok |-> TRUE])
              = [rest |-> Line(t), value |-> Append(args, ArgumentOf(arg.key, arg.text)), ok |-> TRUE]
<1> DEFINE s == [rest |-> Line(Join(ArgText(arg), t)), value |-> args, ok |-> TRUE]
           key == arg.key
           inner == arg.text
           r == Line(t)
           y == Between("<value>", inner, "</value>", r)
           v == Line(y)
           w == Between("<key>", key, "</key>", v)
           again == ArgumentOf(key, inner)
<1>1. FineArgument(arg)
  OBVIOUS
<1>2. Join(ArgText(arg), t) = w
  BY <1>1, ArgumentWritten
<1>3. /\ key \in Text /\ key # <<>> /\ ~Holds(key, "</key>")
      /\ inner \in Text /\ ~Holds(inner, "</value>")
      /\ again \in FineArguments /\ again.key = key
  <2>1. /\ IsInner(key) /\ key # <<>> /\ ~Holds(key, "</key>")
        /\ inner \in Text /\ ~Holds(inner, "</value>")
    BY <1>1 DEF FineArgument, Encloses
  <2> HIDE DEF key, inner
  <2>2. again \in FineArguments /\ again.key = key
    BY <2>1, ArgumentFine
  <2> QED
    BY <2>1, <2>2 DEF IsInner
<1>3a. \A i \in 1..Len(args) : KeyBefore(args[i].key, again.key)
  BY <1>3
<1> HIDE DEF key, inner, again
<1>4. /\ "<key>" \in Pieces /\ "</key>" \in Pieces /\ "<value>" \in Pieces /\ "</value>" \in Pieces
      /\ "<key>" # "</key>" /\ "<value>" # "</value>" /\ "<key>" # "\n" /\ "<value>" # "\n"
  BY MarksArePieces
<1>5. r \in Text
  BY <1>4, LinesAre
<1> HIDE DEF r
<1>6. y \in Text
  BY <1>3, <1>4, <1>5, LinesAre
<1>7. /\ StartsWith(y, "<value>") /\ Holds(y, "</value>")
      /\ TrimNewlines(v) = y
      /\ BeforeMark(Tail(y), "</value>") = inner /\ AfterMark(y, "</value>") = r
  BY <1>3, <1>4, <1>5, BetweenMarks DEF Between, Line
<1> HIDE DEF y
<1>8. v \in Text
  BY <1>4, <1>6, LinesAre
<1> HIDE DEF v
<1>9. /\ w # <<>> /\ StartsWith(w, "<key>") /\ Holds(w, "</key>")
      /\ TrimNewlines(Line(w)) = w
      /\ BeforeMark(Tail(w), "</key>") = key /\ AfterMark(w, "</key>") = v
  BY <1>3, <1>4, <1>8, BetweenMarks DEF Between, Line
<1> HIDE DEF w
<1>10. s.rest = Line(w) /\ s.value = args /\ s.ok = TRUE
  BY <1>2
<1>11. Inserted(args, again) = Append(args, again) /\ NewKey(args, again.key)
  BY <1>3, <1>3a, InsertedLast
<1>12. s = [rest |-> s.rest, value |-> s.value, ok |-> s.ok]
  OBVIOUS
<1>13. NewKey(args, key)
  BY <1>3, <1>11
<1> HIDE DEF s
<1>14. ArgumentTurn(s) = [s EXCEPT !.rest = r, !.value = Inserted(@, again)]
  BY <1>3, <1>7, <1>9, <1>10, <1>13 DEF ArgumentTurn, ArgumentAt, again
<1>15. ArgumentTurn(s) = [rest |-> r, value |-> Append(args, again), ok |-> TRUE]
  <2>1. ArgumentTurn(s) = [rest |-> r, value |-> Inserted(s.value, again), ok |-> s.ok]
    BY <1>12, <1>14
  <2> QED
    BY <1>10, <1>11, <2>1
<1> QED
  BY <1>15 DEF s, r, again, key, inner

\* The beginning of a sequence grows by its next element.
LEMMA PrefixGrows ==
    ASSUME NEW S, NEW s \in Seq(S), NEW k \in Nat, k < Len(s)
    PROVE  /\ SubSeq(s, 1, k) \in Seq(S) /\ Len(SubSeq(s, 1, k)) = k
           /\ \A i \in 1..k : SubSeq(s, 1, k)[i] = s[i]
           /\ SubSeq(s, 1, k + 1) = Append(SubSeq(s, 1, k), s[k + 1])
           /\ s[k + 1] \in S
<1>1. Len(s) \in Nat /\ k + 1 \in 1..Len(s)
  BY LenProperties
<1>2. s[k + 1] \in S /\ \A i \in 1..Len(s) : s[i] \in S
  BY <1>1, ElementOfSeq
<1>3. ASSUME NEW m \in Nat, m <= Len(s)
      PROVE  /\ SubSeq(s, 1, m) \in Seq(S) /\ Len(SubSeq(s, 1, m)) = m
             /\ \A i \in 1..m : SubSeq(s, 1, m)[i] = s[i]
  <2>1. 1 \in Int /\ m \in Int /\ \A i \in 1..m : s[i] \in S
    BY <1>1, <1>2, <1>3
  <2>2. /\ SubSeq(s, 1, m) \in Seq(S)
        /\ Len(SubSeq(s, 1, m)) = IF 1 <= m THEN m - 1 + 1 ELSE 0
        /\ \A i \in 1..(m - 1 + 1) : SubSeq(s, 1, m)[i] = s[1 + i - 1]
    BY <2>1, SubSeqProperties
  <2>3. (IF 1 <= m THEN m - 1 + 1 ELSE 0) = m /\ m - 1 + 1 = m /\ \A i \in 1..m : 1 + i - 1 = i
    BY <1>3
  <2> QED
    BY <2>2, <2>3
<1> DEFINE a == SubSeq(s, 1, k)
           b == SubSeq(s, 1, k + 1)
           c == Append(a, s[k + 1])
<1>4. a \in Seq(S) /\ Len(a) = k /\ \A i \in 1..k : a[i] = s[i]
  <2>1. k <= Len(s)
    BY <1>1
  <2> QED
    BY <1>3, <2>1
<1>5. b \in Seq(S) /\ Len(b) = k + 1 /\ \A i \in 1..(k + 1) : b[i] = s[i]
  <2> DEFINE j == k + 1
  <2>1. j \in Nat /\ j <= Len(s)
    BY <1>1
  <2> HIDE DEF j
  <2>2. SubSeq(s, 1, j) \in Seq(S) /\ Len(SubSeq(s, 1, j)) = j /\ \A i \in 1..j : SubSeq(s, 1, j)[i] = s[i]
    BY <1>3, <2>1
  <2> QED
    BY <2>2 DEF j
<1> HIDE DEF a, b
<1>6. /\ c \in Seq(S) /\ Len(c) = Len(a) + 1
      /\ (\A i \in 1..Len(a) : c[i] = a[i]) /\ c[Len(a) + 1] = s[k + 1]
  BY <1>2, <1>4, AppendProperties
<1> HIDE DEF c
<1>7. ASSUME NEW i \in 1..(k + 1) PROVE b[i] = c[i]
  <2>1. i \in 1..k \/ i = k + 1
    OBVIOUS
  <2> QED
    BY <1>4, <1>5, <1>6, <2>1
<1>8. b = c
  BY <1>4, <1>5, <1>6, <1>7, SeqEqual
<1> QED
  BY <1>2, <1>4, <1>8 DEF a, b, c

\* So does the beginning of ordered arguments.
LEMMA PrefixFine ==
    ASSUME NEW args, AreFine(args), NEW k \in Nat, k < Len(args)
    PROVE  /\ AreFine(SubSeq(args, 1, k)) /\ args[k + 1] \in FineArguments
           /\ SubSeq(args, 1, k + 1) = Append(SubSeq(args, 1, k), args[k + 1])
           /\ \A i \in 1..Len(SubSeq(args, 1, k)) : KeyBefore(SubSeq(args, 1, k)[i].key, args[k + 1].key)
<1> DEFINE a == SubSeq(args, 1, k)
<1>1. args \in Seq(FineArguments) /\ Len(args) \in Nat
      /\ \A i, j \in 1..Len(args) : i < j => KeyBefore(args[i].key, args[j].key)
  BY FineMembers DEF AreFine
<1>2. /\ a \in Seq(FineArguments) /\ Len(a) = k /\ \A i \in 1..k : a[i] = args[i]
      /\ SubSeq(args, 1, k + 1) = Append(a, args[k + 1]) /\ args[k + 1] \in FineArguments
  BY <1>1, PrefixGrows
<1> HIDE DEF a
<1>3. \A i \in 1..k : i \in 1..Len(args) /\ i < k + 1
  BY <1>1
<1>4. k + 1 \in 1..Len(args)
  BY <1>1
<1>5. AreFine(a)
  BY <1>1, <1>2, <1>3 DEF AreFine
<1>6. \A i \in 1..Len(a) : KeyBefore(a[i].key, args[k + 1].key)
  BY <1>1, <1>2, <1>3, <1>4
<1> QED
  BY <1>2, <1>5, <1>6 DEF a

\* Arguments as they are written.
LEMMA ArgumentsWritten ==
    ASSUME NEW args, AreFine(args), AllEnclose(args)
    PROVE  /\ ArgTexts(args) \in Seq(Text) /\ Len(ArgTexts(args)) = Len(args)
           /\ \A i \in 1..Len(args) : ArgTexts(args)[i] = ArgText(args[i]) /\ ArgText(args[i]) # <<>>
           /\ ArgsText(args) \in Text /\ IsInner(ArgsText(args))
           /\ Len(ArgsText(args)) >= Len(args)
<1> DEFINE n == Len(args)
           T == ArgTexts(args)
<1>1. n \in Nat /\ DOMAIN args = 1..n /\ \A i \in 1..n : FineArgument(args[i]) /\ Encloses(args[i].text)
  <2>1. n \in Nat /\ DOMAIN args = 1..n /\ \A i \in 1..n : FineArgument(args[i])
    BY FineMembers
  <2> QED
    BY <2>1 DEF AllEnclose
<1>2. <<>> \in Text
  BY DEF Text
<1>3. ASSUME NEW arg, FineArgument(arg), Encloses(arg.text)
      PROVE  ArgText(arg) \in Text /\ ArgText(arg) # <<>> /\ IsInner(ArgText(arg))
  <2> DEFINE r == Line(<<>>)
             y == Between("<value>", arg.text, "</value>", r)
             v == Line(y)
             w == Between("<key>", arg.key, "</key>", v)
  <2>1. Join(ArgText(arg), <<>>) = w /\ ArgText(arg) \in Text
    BY <1>2, <1>3, ArgumentWritten
  <2>2. ArgText(arg) = w
    BY <1>2, <2>1, Joined
  <2>3. IsInner(arg.key) /\ IsInner(arg.text)
    BY <1>3 DEF FineArgument, Encloses, IsInner
  <2>4. ASSUME NEW p \in Pieces, p # "</tool_call>", p # "</tool_calls>", NEW t, IsInner(t)
        PROVE  IsInner(Join(<<p>>, t)) /\ Join(<<p>>, t) # <<>>
    <3>1. <<p>> \in Text /\ t \in Text
      BY <2>4 DEF IsInner, Text
    <3>2. Join(<<p>>, t) \in Text /\ Join(<<p>>, t) # <<>>
      BY <3>1, PieceFirst DEF Join
    <3>3. \A x : Holds(Join(<<p>>, t), x) <=> Holds(<<p>>, x) \/ Holds(t, x)
      BY <3>1, HoldsConcat DEF Join
    <3>4. \A x : Holds(<<p>>, x) <=> p = x
      BY HoldsPiece
    <3> QED
      BY <2>4, <3>2, <3>3, <3>4 DEF IsInner
  <2>5. ASSUME NEW a, IsInner(a), NEW t, IsInner(t) PROVE IsInner(Join(a, t))
    <3>1. a \in Text /\ t \in Text
      BY <2>5 DEF IsInner
    <3>2. Join(a, t) \in Text
      BY <3>1, Joined
    <3>3. \A x : Holds(Join(a, t), x) <=> Holds(a, x) \/ Holds(t, x)
      BY <3>1, HoldsConcat DEF Join
    <3> QED
      BY <2>5, <3>2, <3>3 DEF IsInner
  <2>6. IsInner(<<>>)
    BY <1>2, HoldsPiece DEF IsInner
  <2>7. /\ "<key>" \in Pieces /\ "</key>" \in Pieces /\ "<value>" \in Pieces /\ "</value>" \in Pieces /\ "\n" \in Pieces
    BY MarksArePieces
  <2>8. IsInner(r)
    BY <2>4, <2>6, <2>7 DEF Line
  <2>9. IsInner(y)
    <3>1. IsInner(Join(<<"</value>">>, r))
      BY <2>4, <2>7, <2>8
    <3>2. IsInner(Join(arg.text, Join(<<"</value>">>, r)))
      BY <2>3, <2>5, <3>1
    <3> QED
      BY <2>4, <2>7, <3>2 DEF Between
  <2>10. IsInner(v)
    BY <2>4, <2>7, <2>9 DEF Line
  <2>11. IsInner(w) /\ w # <<>>
    <3>1. IsInner(Join(<<"</key>">>, v))
      BY <2>4, <2>7, <2>10
    <3>2. IsInner(Join(arg.key, Join(<<"</key>">>, v)))
      BY <2>3, <2>5, <3>1
    <3> QED
      BY <2>4, <2>7, <3>2 DEF Between
  <2> QED
    BY <2>1, <2>2, <2>11
<1>4. T = [i \in 1..n |-> ArgText(args[i])]
  BY <1>1 DEF ArgTexts
<1> HIDE DEF T
<1>5. T \in Seq(Text) /\ Len(T) = n /\ \A i \in 1..n : T[i] = ArgText(args[i])
  BY <1>1, <1>3, <1>4
<1>6. \A i \in 1..n : ArgText(args[i]) # <<>> /\ IsInner(ArgText(args[i]))
  BY <1>1, <1>3
<1> HIDE DEF n
<1>7. /\ FlattenSeq(T) = RestOf(T, 0) /\ \A k \in 0..Len(T) : RestOf(T, k) \in Text
      /\ \A x : Holds(FlattenSeq(T), x) => \E i \in 1..Len(T) : Holds(T[i], x)
      /\ (\A i \in 1..Len(T) : T[i] # <<>>) => Len(FlattenSeq(T)) >= Len(T)
  BY <1>5, RestSteps
<1>8. ArgsText(args) = FlattenSeq(T)
  BY DEF ArgsText, T
<1>9. FlattenSeq(T) \in Text
  <2>1. 0 \in 0..Len(T)
    BY <1>1, <1>5
  <2> QED
    BY <1>7, <2>1
<1>10. IsInner(FlattenSeq(T))
  BY <1>5, <1>6, <1>7, <1>9 DEF IsInner
<1>11. Len(FlattenSeq(T)) >= n
  BY <1>5, <1>6, <1>7
<1> QED
  BY <1>5, <1>6, <1>8, <1>9, <1>10, <1>11 DEF n, T

-----------------------------------------------------------------------------
(* Arguments that were written are read again. *)

\* A turn that finds nothing left ends where it is.
LEMMA ArgumentTurnEnds ==
    ASSUME NEW t, NEW v, TrimNewlines(t) = <<>>
    PROVE  ArgumentTurn([rest |-> t, value |-> v, ok |-> TRUE]) = [rest |-> <<>>, value |-> v, ok |-> TRUE]
<1> DEFINE s == [rest |-> t, value |-> v, ok |-> TRUE]
           e == [rest |-> <<>>, value |-> v, ok |-> TRUE]
<1>1. TrimNewlines(s.rest) = <<>>
  OBVIOUS
<1>2. [s EXCEPT !.rest = <<>>] = e
  <2>1. s = [rest |-> s.rest, value |-> s.value, ok |-> s.ok] /\ s.value = v /\ s.ok = TRUE
    OBVIOUS
  <2> HIDE DEF s
  <2>2. [s EXCEPT !.rest = <<>>] = [rest |-> <<>>, value |-> s.value, ok |-> s.ok]
    BY <2>1
  <2> QED
    BY <2>1, <2>2
<1> HIDE DEF s, e
<1>3. ArgumentTurn(s) = [s EXCEPT !.rest = <<>>]
  BY <1>1, Zenon DEF ArgumentTurn, ArgumentAt
<1>4. ArgumentTurn(s) = e
  BY <1>2, <1>3, Zenon
<1> QED
  BY <1>4 DEF s, e

\* The whole loop.
LEMMA ArgumentsReread ==
    ASSUME NEW args, AreFine(args), AllEnclose(args)
    PROVE  ParseArguments(Line(ArgsText(args))) = [rest |-> <<>>, value |-> RereadArgs(args), ok |-> TRUE]
<1> DEFINE n == Len(args)
           T == ArgTexts(args)
           all == ArgsText(args)
           input == Line(all)
           m == Len(input)
           again == RereadArgs(args)
           at(k) == [rest |-> Line(RestOf(T, k)), value |-> SubSeq(again, 1, k), ok |-> TRUE]
           end == [rest |-> <<>>, value |-> again, ok |-> TRUE]
<1>1. n \in Nat /\ \A i \in 1..n : FineArgument(args[i]) /\ Encloses(args[i].text)
  <2>1. n \in Nat /\ DOMAIN args = 1..n /\ \A i \in 1..n : FineArgument(args[i])
    BY FineMembers
  <2> QED
    BY <2>1 DEF AllEnclose
<1>1a. /\ AreFine(again) /\ Len(again) = n /\ again \in Seq(FineArguments)
       /\ \A i \in 1..n : /\ again[i] = ArgumentOf(args[i].key, args[i].text)
                         /\ again[i].key = args[i].key
  <2> HIDE DEF again
  <2>1. /\ AreFine(again) /\ Len(again) = n
        /\ \A i \in 1..n : /\ again[i] = ArgumentOf(args[i].key, args[i].text)
                          /\ again[i].key = args[i].key
    BY AgainFine DEF again
  <2> QED
    BY <2>1 DEF AreFine
<1> HIDE DEF again
<1>2. /\ T \in Seq(Text) /\ Len(T) = n /\ \A i \in 1..n : T[i] = ArgText(args[i])
      /\ all \in Text /\ Len(all) >= n
  BY ArgumentsWritten
<1>3. all = FlattenSeq(T)
  BY DEF ArgsText
<1> HIDE DEF T, all
<1>4. /\ all = RestOf(T, 0) /\ RestOf(T, n) = <<>> /\ (\A k \in 0..n : RestOf(T, k) \in Text)
      /\ \A k \in 0..(n - 1) : RestOf(T, k) = T[k + 1] \o RestOf(T, k + 1)
  BY <1>2, <1>3, RestSteps
<1>5. input \in Text /\ m \in Nat /\ m > n
  <2>1. input \in Text /\ Len(input) = Len(all) + 1
    BY <1>2, PieceFirst, MarksArePieces DEF Line, Join
  <2>2. Len(all) \in Nat
    BY <1>2, TextPieces
  <2> QED
    BY <1>1, <1>2, <2>1, <2>2
<1> HIDE DEF input
<1>6. PICK f : /\ f[0] = Reading(input) /\ ParseArguments(input) = f[m]
               /\ \A k \in Nat : k < m => f[k + 1] = ArgumentTurn(f[k])
  BY <1>5, ArgumentLoop
<1> HIDE DEF n, m
<1> DEFINE S == {k \in Nat : k <= n => f[k] = at(k)}
<1>7. 0 \in S
  <2>1. SubSeq(again, 1, 0) = <<>>
    BY SubSeqEmpty
  <2>2. at(0) = [rest |-> input, value |-> <<>>, ok |-> TRUE]
    BY <1>4, <2>1 DEF input
  <2>3. f[0] = at(0)
    BY <1>6, <2>2 DEF Reading
  <2> HIDE DEF at
  <2> QED
    BY <2>3
<1>8. ASSUME NEW k \in S PROVE k + 1 \in S
  <2>1. SUFFICES ASSUME k + 1 <= n PROVE f[k + 1] = at(k + 1)
    <3> HIDE DEF at
    <3> QED
      OBVIOUS
  <2>2. k \in Nat /\ f[k] = at(k)
    <3> HIDE DEF at
    <3> QED
      BY <1>1, <2>1
  <2>3. k < n /\ k < m /\ k \in 0..(n - 1) /\ k + 1 \in 0..n /\ k + 1 \in 1..n
    BY <1>1, <1>5, <2>1, <2>2
  <2> HIDE DEF S
  <2> DEFINE a == SubSeq(again, 1, k)
             arg == args[k + 1]
             t == RestOf(T, k + 1)
  <2>4. /\ AreFine(a) /\ FineArgument(arg) /\ Encloses(arg.text)
        /\ SubSeq(again, 1, k + 1) = Append(a, ArgumentOf(arg.key, arg.text))
        /\ \A i \in 1..Len(a) : KeyBefore(a[i].key, arg.key)
    <3>1. again[k + 1] = ArgumentOf(arg.key, arg.text) /\ again[k + 1].key = arg.key
      BY <1>1a, <2>3
    <3>2. /\ AreFine(a) /\ SubSeq(again, 1, k + 1) = Append(a, again[k + 1])
          /\ \A i \in 1..Len(a) : KeyBefore(a[i].key, again[k + 1].key)
      BY <1>1a, <2>2, <2>3, PrefixFine
    <3>3. FineArgument(arg) /\ Encloses(arg.text)
      BY <1>1, <2>3
    <3> HIDE DEF a, arg
    <3> QED
      BY <3>1, <3>2, <3>3
  <2>5. t \in Text /\ RestOf(T, k) = Join(ArgText(arg), t)
    BY <1>2, <1>4, <2>3 DEF Join
  <2>6. at(k) = [rest |-> Line(Join(ArgText(arg), t)), value |-> a, ok |-> TRUE]
    BY <2>5
  <2>7. at(k + 1) = [rest |-> Line(t), value |-> Append(a, ArgumentOf(arg.key, arg.text)), ok |-> TRUE]
    BY <2>4
  <2> HIDE DEF a, arg, t, at
  <2>8. f[k + 1] = ArgumentTurn(f[k])
    BY <1>6, <2>2, <2>3
  <2> QED
    BY <2>2, <2>4, <2>5, <2>6, <2>7, <2>8, ArgumentTurnRereads
<1>9. f[n] = at(n)
  <2> HIDE DEF S
  <2>1. S \in SUBSET Nat
    BY DEF S
  <2>2. n \in S
    BY <1>1, <1>7, <1>8, <2>1, EveryNatural
  <2> QED
    BY <1>1, <2>2 DEF S
<1>10. at(n) = [rest |-> Line(<<>>), value |-> again, ok |-> TRUE]
  BY <1>1, <1>1a, <1>4, SubSeqFull
<1> HIDE DEF at
<1>11. TrimNewlines(Line(<<>>)) = <<>> /\ TrimNewlines(<<>>) = <<>>
  <2>1. Line(<<>>) = <<"\n">>
    <3>1. <<"\n">> \in Text
      BY MarksArePieces DEF Text
    <3> QED
      BY <3>1, Joined DEF Line
  <2> QED
    BY <2>1, TrimNothing, MarksArePieces
<1> DEFINE E == {k \in Nat : n + 1 + k <= m => f[n + 1 + k] = end}
<1>12. 0 \in E
  <2>1. f[n + 1] = ArgumentTurn(f[n])
    BY <1>1, <1>5, <1>6
  <2>2. f[n + 1] = end
    BY <1>9, <1>10, <1>11, <2>1, ArgumentTurnEnds
  <2>3. n + 1 + 0 = n + 1
    BY <1>1
  <2> HIDE DEF end
  <2> QED
    BY <2>2, <2>3
<1>13. ASSUME NEW k \in E PROVE k + 1 \in E
  <2> DEFINE j == n + 1 + k
  <2>1. SUFFICES ASSUME n + 1 + (k + 1) <= m PROVE f[n + 1 + (k + 1)] = end
    <3> HIDE DEF end
    <3> QED
      OBVIOUS
  <2>2. k \in Nat /\ f[j] = end
    <3> HIDE DEF end
    <3> QED
      BY <1>1, <1>5, <2>1
  <2>3. j \in Nat /\ j < m /\ n + 1 + (k + 1) = j + 1
    BY <1>1, <1>5, <2>1, <2>2
  <2> HIDE DEF j
  <2>4. f[j + 1] = ArgumentTurn(f[j])
    BY <1>6, <2>3
  <2>5. ArgumentTurn(end) = end
    BY <1>11, ArgumentTurnEnds
  <2> HIDE DEF end
  <2> QED
    BY <2>2, <2>3, <2>4, <2>5
<1>14. f[m] = end
  <2> DEFINE k == m - (n + 1)
  <2>1. k \in Nat /\ n + 1 + k = m
    BY <1>1, <1>5
  <2> HIDE DEF k
  <2>2. k \in E
    <3> HIDE DEF E
    <3>1. E \in SUBSET Nat
      BY DEF E
    <3> QED
      BY <1>12, <1>13, <2>1, <3>1, EveryNatural
  <2> HIDE DEF end
  <2>3. n + 1 + k <= m => f[n + 1 + k] = end
    BY <2>2
  <2>4. m <= m
    BY <1>5
  <2> QED
    BY <2>1, <2>3, <2>4
<1> QED
  BY <1>6, <1>14 DEF end, input, all, again

-----------------------------------------------------------------------------
(* The loop over calls. *)

\* The function ParseCalls chooses.
IsCallLoop(f, input, n) ==
    f = [k \in 0..n |-> IF k = 0 THEN Reading(input) ELSE CallTurn(f[k - 1])]

\* There is such a function for every number of turns.
LEMMA CallLoopExists ==
    ASSUME NEW input, NEW n \in Nat
    PROVE  \E f : IsCallLoop(f, input, n)
<1> DEFINE S == {k \in Nat : \E f : IsCallLoop(f, input, k)}
<1>1. 0 \in S
  <2> DEFINE f == [k \in 0..0 |-> Reading(input)]
             v == [k \in 0..0 |-> IF k = 0 THEN Reading(input) ELSE CallTurn(f[k - 1])]
  <2>1. \A k \in 0..0 : f[k] = v[k]
    <3>1. \A k \in 0..0 : k = 0
      OBVIOUS
    <3> QED
      BY <3>1
  <2>2. f = [k \in 0..0 |-> f[k]] /\ v = [k \in 0..0 |-> v[k]]
    OBVIOUS
  <2>3. f = v
    <3> HIDE DEF f, v
    <3> QED
      BY <2>1, <2>2
  <2>4. IsCallLoop(f, input, 0)
    BY <2>3 DEF IsCallLoop
  <2> QED
    BY <2>4
<1>2. ASSUME NEW q \in S PROVE q + 1 \in S
  <2>1. PICK f : IsCallLoop(f, input, q)
    OBVIOUS
  <2>2. q \in Nat /\ q + 1 \in Nat
    OBVIOUS
  <2> DEFINE u == [k \in 0..(q + 1) |-> IF k <= q THEN f[k] ELSE CallTurn(f[q])]
             v == [k \in 0..(q + 1) |-> IF k = 0 THEN Reading(input) ELSE CallTurn(u[k - 1])]
  <2>3. f = [k \in 0..q |-> IF k = 0 THEN Reading(input) ELSE CallTurn(f[k - 1])]
    BY <2>1 DEF IsCallLoop
  <2>4. ASSUME NEW k \in 0..(q + 1) PROVE u[k] = v[k]
    <3>1. v[k] = IF k = 0 THEN Reading(input) ELSE CallTurn(u[k - 1])
      OBVIOUS
    <3>2. u[k] = IF k <= q THEN f[k] ELSE CallTurn(f[q])
      OBVIOUS
    <3>3. k # 0 => u[k - 1] = f[k - 1]
      <4>1. SUFFICES ASSUME k # 0 PROVE u[k - 1] = f[k - 1]
        OBVIOUS
      <4>2. k - 1 \in 0..(q + 1) /\ k - 1 <= q
        BY <2>2, <4>1
      <4> QED
        BY <4>2
    <3> HIDE DEF u, v
    <3>4. CASE k <= q
      <4>1. k \in 0..q
        BY <3>4
      <4>2. f[k] = IF k = 0 THEN Reading(input) ELSE CallTurn(f[k - 1])
        BY <2>3, <4>1
      <4> QED
        BY <3>1, <3>2, <3>3, <3>4, <4>2
    <3>5. CASE ~(k <= q)
      <4>1. k - 1 = q /\ k # 0
        BY <2>2, <3>5
      <4> QED
        BY <3>1, <3>2, <3>3, <3>5, <4>1
    <3> QED
      BY <3>4, <3>5
  <2>5. u = v
    <3>1. u = [k \in 0..(q + 1) |-> u[k]] /\ v = [k \in 0..(q + 1) |-> v[k]]
      OBVIOUS
    <3> HIDE DEF u, v
    <3> QED
      BY <2>4, <3>1
  <2>6. IsCallLoop(u, input, q + 1)
    BY <2>5 DEF IsCallLoop
  <2> HIDE DEF u, v
  <2> QED
    BY <2>2, <2>6
<1>3. S \in SUBSET Nat
  OBVIOUS
<1> HIDE DEF S
<1>4. n \in S
  BY <1>1, <1>2, <1>3, EveryNatural
<1> QED
  BY <1>4 DEF S

\* ParseCalls is where its loop ends.
LEMMA CallLoop ==
    ASSUME NEW input \in Text
    PROVE  \E f : /\ f[0] = Reading(input) /\ ParseCalls(input) = f[Len(input)]
                  /\ \A k \in Nat : k < Len(input) => f[k + 1] = CallTurn(f[k])
<1> DEFINE n == Len(input)
           it == CHOOSE f : f = [k \in 0..n |-> IF k = 0 THEN Reading(input) ELSE CallTurn(f[k - 1])]
<1>1. n \in Nat
  BY TextPieces
<1>2. ParseCalls(input) = it[n]
  BY DEF ParseCalls
<1>3. it = CHOOSE f : IsCallLoop(f, input, n)
  BY DEF IsCallLoop
<1> HIDE DEF it, n
<1>4. IsCallLoop(it, input, n)
  BY <1>1, <1>3, CallLoopExists
<1>5. it = [k \in 0..n |-> IF k = 0 THEN Reading(input) ELSE CallTurn(it[k - 1])]
  BY <1>4 DEF IsCallLoop
<1>6. it[0] = Reading(input)
  <2>1. 0 \in 0..n
    BY <1>1
  <2> QED
    BY <1>5, <2>1
<1>7. ASSUME NEW k \in Nat, k < n PROVE it[k + 1] = CallTurn(it[k])
  <2> DEFINE j == k + 1
  <2>1. j \in 0..n /\ j # 0 /\ j - 1 = k
    BY <1>1, <1>7
  <2> HIDE DEF j
  <2>2. it[j] = CallTurn(it[j - 1])
    BY <1>5, <2>1
  <2>3. it[j] = CallTurn(it[k])
    BY <2>1, <2>2
  <2> QED
    BY <2>3 DEF j
<1>8. /\ it[0] = Reading(input) /\ ParseCalls(input) = it[Len(input)]
      /\ \A k \in Nat : k < Len(input) => it[k + 1] = CallTurn(it[k])
  BY <1>2, <1>6, <1>7 DEF n
<1> QED
  BY <1>8

-----------------------------------------------------------------------------
(* What is read of calls. *)

\* A text without the mark that ends an envelope.
IsBare(t) == t \in Text /\ ~Holds(t, "</tool_calls>")

\* A call as it is read, in an envelope that ends after it.
FineCall(one) ==
    /\ IsBare(one.name) /\ one.name # <<>> /\ ~Holds(one.name, "<sep>")
    /\ AreFine(one.args)
    /\ one = [name |-> one.name, args |-> one.args]
FineCalls == {one \in {[name |-> p[1], args |-> p[2]] : p \in Text \X Seq(FineArguments)} : FineCall(one)}

\* A state of the parser of calls.
CallsSoFar(s) == IsReading(s) /\ IsBare(s.rest) /\ s.value \in Seq(FineCalls)

\* Parts of a text without the mark are without it.
LEMMA BareParts ==
    ASSUME NEW t, IsBare(t)
    PROVE  /\ IsBare(TrimNewlines(t))
           /\ t # <<>> => IsBare(Tail(t))
           /\ \A m : Holds(t, m) => IsBare(BeforeMark(t, m)) /\ IsBare(AfterMark(t, m))
<1>1. t \in Text
  BY DEF IsBare
<1>2. IsBare(TrimNewlines(t))
  BY <1>1, TrimIs DEF IsBare
<1>3. t # <<>> => IsBare(Tail(t))
  BY <1>1, TextTail DEF IsBare
<1>4. ASSUME NEW m, Holds(t, m) PROVE IsBare(BeforeMark(t, m)) /\ IsBare(AfterMark(t, m))
  BY <1>1, <1>4, MarkCuts DEF IsBare
<1> QED
  BY <1>2, <1>3, <1>4

\* A name and arguments make a call.
LEMMA CallMade ==
    ASSUME NEW name, IsBare(name), name # <<>>, ~Holds(name, "<sep>"), NEW args, AreFine(args)
    PROVE  [name |-> name, args |-> args] \in FineCalls
<1> DEFINE one == [name |-> name, args |-> args]
           p == <<name, args>>
<1>1. one.name = name /\ one.args = args /\ one = [name |-> one.name, args |-> one.args]
  OBVIOUS
<1>2. FineCall(one)
  <2> HIDE DEF one
  <2> QED
    BY <1>1 DEF FineCall
<1>3. p \in Text \X Seq(FineArguments) /\ p[1] = name /\ p[2] = args
  BY DEF IsBare, AreFine
<1> HIDE DEF p
<1>4. one = [name |-> p[1], args |-> p[2]]
  BY <1>3
<1> HIDE DEF one
<1> QED
  BY <1>2, <1>3, <1>4 DEF FineCalls, one

\* A turn of that parser.
LEMMA CallTurnReads ==
    ASSUME NEW s, CallsSoFar(s)
    PROVE  CallsSoFar(CallTurn(s))
<1> DEFINE text == TrimNewlines(s.rest)
           name == BeforeMark(Tail(text), "<sep>")
           rest == AfterMark(text, "<sep>")
           inner == BeforeMark(rest, "</tool_call>")
           args == ParseArguments(inner)
           one == [name |-> name, args |-> args.value]
           good == /\ s.ok /\ text # <<>> /\ StartsWith(text, "<tool_call>") /\ Holds(text, "<sep>")
                   /\ name # <<>> /\ Holds(rest, "</tool_call>") /\ args.ok
<1>1. s = [rest |-> s.rest, value |-> s.value, ok |-> s.ok] /\ s.ok \in BOOLEAN
      /\ IsBare(s.rest) /\ s.value \in Seq(FineCalls)
  BY DEF CallsSoFar, IsReading
<1>2. CallTurn(s) = IF good THEN [s EXCEPT !.rest = AfterMark(rest, "</tool_call>"), !.value = Append(@, one)]
                    ELSE IF ~s.ok \/ text = <<>> THEN [s EXCEPT !.rest = <<>>]
                    ELSE [s EXCEPT !.ok = FALSE]
  <2> DEFINE b1 == s.ok
             b2 == text = <<>>
             b3 == StartsWith(text, "<tool_call>")
             b4 == Holds(text, "<sep>")
             b5 == name = <<>>
             b6 == Holds(rest, "</tool_call>")
             b7 == args.ok
             t1 == [s EXCEPT !.rest = AfterMark(rest, "</tool_call>"), !.value = Append(@, one)]
             t2 == [s EXCEPT !.rest = <<>>]
             t3 == [s EXCEPT !.ok = FALSE]
  <2>1. CallTurn(s) = IF ~b1 \/ b2 THEN t2
                      ELSE IF ~b3 \/ ~b4 THEN t3
                      ELSE IF b5 \/ ~b6 \/ ~b7 THEN t3 ELSE t1
    BY DEF CallTurn, CallAt
  <2>2. good <=> b1 /\ ~b2 /\ b3 /\ b4 /\ ~b5 /\ b6 /\ b7
    OBVIOUS
  <2> HIDE DEF good, b1, b2, b3, b4, b5, b6, b7, t1, t2, t3
  <2>3. CallTurn(s) = IF good THEN t1 ELSE IF ~b1 \/ b2 THEN t2 ELSE t3
    BY <2>1, <2>2
  <2> QED
    BY <2>3 DEF b1, b2, t1, t2, t3
<1>3. CASE good
  <2>1. IsBare(text)
    BY <1>1, BareParts
  <2>2. text \in Text /\ "<tool_call>" # "<sep>"
    BY <2>1 DEF IsBare
  <2>3. text # <<>> /\ Holds(Tail(text), "<sep>")
    <3> HIDE DEF text
    <3> QED
      BY <1>3, <2>2, HoldsFurther
  <2>4. IsBare(Tail(text))
    <3> HIDE DEF text
    <3> QED
      BY <2>1, <2>3, BareParts
  <2>5. IsBare(name) /\ ~Holds(name, "<sep>")
    <3> DEFINE r == Tail(text)
    <3>1. IsBare(r) /\ Holds(r, "<sep>") /\ r \in Text
      BY <2>3, <2>4 DEF IsBare
    <3> HIDE DEF r
    <3>2. IsBare(BeforeMark(r, "<sep>")) /\ ~Holds(BeforeMark(r, "<sep>"), "<sep>")
      BY <3>1, BareParts, MarkCuts
    <3> QED
      BY <3>2 DEF r
  <2>6. IsBare(rest)
    <3> HIDE DEF text
    <3> QED
      BY <1>3, <2>1, BareParts
  <2>7. IsBare(AfterMark(rest, "</tool_call>")) /\ IsInner(inner)
    <3> HIDE DEF rest
    <3>1. IsBare(AfterMark(rest, "</tool_call>")) /\ IsBare(inner)
      BY <1>3, <2>6, BareParts
    <3>2. ~Holds(inner, "</tool_call>")
      BY <1>3, <2>6, MarkCuts DEF IsBare
    <3> QED
      BY <3>1, <3>2 DEF IsBare, IsInner
  <2>8. AreFine(args.value)
    <3> HIDE DEF inner
    <3> QED
      BY <2>7, ArgumentsRead DEF ArgumentsSoFar
  <2>9. name # <<>>
    BY <1>3
  <2>10. one \in FineCalls
    <3> HIDE DEF name, args
    <3> QED
      BY <2>5, <2>8, <2>9, CallMade
  <2> HIDE DEF one, rest
  <2>11. CallTurn(s) = [s EXCEPT !.rest = AfterMark(rest, "</tool_call>"), !.value = Append(@, one)]
    BY <1>2, <1>3
  <2>12. CallTurn(s) = [rest |-> AfterMark(rest, "</tool_call>"), value |-> Append(s.value, one), ok |-> s.ok]
    BY <1>1, <2>11
  <2>13. Append(s.value, one) \in Seq(FineCalls)
    BY <1>1, <2>10, AppendProperties
  <2> QED
    BY <1>1, <2>7, <2>12, <2>13 DEF CallsSoFar, IsReading
<1>4. CASE ~good
  <2> HIDE DEF good, text
  <2>1. CASE ~s.ok \/ text = <<>>
    <3>1. CallTurn(s) = [s EXCEPT !.rest = <<>>]
      BY <1>2, <1>4, <2>1
    <3>2. CallTurn(s) = [rest |-> <<>>, value |-> s.value, ok |-> s.ok]
      BY <1>1, <3>1
    <3>3. IsBare(<<>>)
      BY HoldsPiece DEF IsBare, Text
    <3> QED
      BY <1>1, <3>2, <3>3 DEF CallsSoFar, IsReading
  <2>2. CASE ~(~s.ok \/ text = <<>>)
    <3>1. CallTurn(s) = [s EXCEPT !.ok = FALSE]
      BY <1>2, <1>4, <2>2
    <3>2. CallTurn(s) = [rest |-> s.rest, value |-> s.value, ok |-> FALSE]
      BY <1>1, <3>1
    <3> QED
      BY <1>1, <3>2 DEF CallsSoFar, IsReading
  <2> QED
    BY <2>1, <2>2
<1> QED
  BY <1>3, <1>4

\* ParseCalls reads calls with their arguments in order, whatever the text.
LEMMA CallsRead ==
    ASSUME NEW input, IsBare(input)
    PROVE  CallsSoFar(ParseCalls(input))
<1>1. input \in Text /\ Len(input) \in Nat
  BY TextPieces DEF IsBare
<1>2. PICK f : /\ f[0] = Reading(input) /\ ParseCalls(input) = f[Len(input)]
               /\ \A k \in Nat : k < Len(input) => f[k + 1] = CallTurn(f[k])
  BY <1>1, CallLoop
<1> DEFINE S == {k \in Nat : k <= Len(input) => CallsSoFar(f[k])}
<1>3. 0 \in S
  <2>1. <<>> \in Seq(FineCalls)
    BY EmptySeq
  <2>2. CallsSoFar(Reading(input))
    BY <2>1 DEF CallsSoFar, IsReading, Reading
  <2> QED
    BY <1>2, <2>2
<1>4. ASSUME NEW k \in S PROVE k + 1 \in S
  <2>1. SUFFICES ASSUME k + 1 <= Len(input) PROVE CallsSoFar(f[k + 1])
    OBVIOUS
  <2>2. k \in Nat /\ k < Len(input) /\ CallsSoFar(f[k])
    BY <1>1, <2>1
  <2> QED
    BY <1>2, <2>2, CallTurnReads
<1>5. Len(input) \in S
  <2> HIDE DEF S
  <2>1. S \in SUBSET Nat
    BY DEF S
  <2> QED
    BY <1>1, <1>3, <1>4, <2>1, EveryNatural
<1> QED
  BY <1>1, <1>2, <1>5

-----------------------------------------------------------------------------
(* Calls that were written are read again. *)

\* A call with what follows it, mark by mark.
LEMMA CallWritten ==
    ASSUME NEW one, FineCall(one), AllEnclose(one.args), NEW t \in Text
    PROVE  /\ CallText(one) \in Text
           /\ Join(CallText(one), t) =
                 Between("<tool_call>", one.name, "<sep>",
                         Line(Join(ArgsText(one.args), Join(<<"</tool_call>">>, Line(t)))))
<1> DEFINE k == <<"<tool_call>">>
           name == one.name
           m == <<"<sep>", "\n">>
           text == ArgsText(one.args)
           e == <<"</tool_call>", "\n">>
           e1 == <<"</tool_call>">>
           e2 == <<"\n">>
           m1 == <<"<sep>">>
<1>1. k \in Text /\ e1 \in Text /\ e2 \in Text /\ m1 \in Text
  BY MarksArePieces DEF Text
<1>2. name \in Text /\ text \in Text
  BY ArgumentsWritten DEF FineCall, IsBare
<1>3. m \in Text /\ m = Join(m1, e2)
  <2>1. "<sep>" \in Pieces /\ "\n" \in Pieces
    BY MarksArePieces
  <2> QED
    BY <2>1, FewPieces DEF Join
<1>4. e \in Text /\ e = Join(e1, e2)
  <2>1. "</tool_call>" \in Pieces /\ "\n" \in Pieces
    BY MarksArePieces
  <2> QED
    BY <2>1, FewPieces DEF Join
<1>5. CallText(one) = Join(Join(Join(Join(k, name), m), text), e)
  BY Zenon DEF CallText, Join, ArgsText, ArgTexts, ArgText
<1> HIDE DEF k, name, m, text, e, e1, e2, m1
<1>6. AreTexts(k, name, m, text, e, t)
  BY <1>1, <1>2, <1>3, <1>4 DEF AreTexts
<1>7. /\ CallText(one) \in Text
      /\ Join(CallText(one), t) = Join(k, Join(name, Join(m, Join(text, Join(e, t)))))
  BY <1>5, <1>6, SixTexts
<1>8. Join(e, t) = Join(e1, Line(t))
  BY <1>1, <1>4, JoinAssociative DEF Line, e2
<1> DEFINE z == Join(text, Join(e1, Line(t)))
<1>9. z \in Text
  <2>1. Line(t) \in Text
    BY LinesAre, MarksArePieces
  <2>2. Join(e1, Line(t)) \in Text
    BY <1>1, <2>1, Joined
  <2> QED
    BY <1>2, <2>2, Joined
<1> HIDE DEF z
<1>10. Join(m, z) = Join(m1, Line(z))
  BY <1>1, <1>3, <1>9, JoinAssociative DEF Line, e2
<1>11. Join(CallText(one), t) = Join(k, Join(name, Join(m1, Line(z))))
  BY <1>7, <1>8, <1>10 DEF z
<1> QED
  BY <1>7, <1>11 DEF z, k, name, text, e1, m1, Between

\* A call whose values are read once more.
CallAgain(one) == [name |-> one.name, args |-> RereadArgs(one.args)]

\* The turn that reads a call where one is written.
LEMMA CallTurnRereads ==
    ASSUME NEW calls, NEW one, FineCall(one), AllEnclose(one.args), NEW t \in Text
    PROVE  CallTurn([rest |-> Line(Join(CallText(one), t)), value |-> calls, ok |-> TRUE])
              = [rest |-> Line(t), value |-> Append(calls, CallAgain(one)), ok |-> TRUE]
<1> DEFINE s == [rest |-> Line(Join(CallText(one), t)), value |-> calls, ok |-> TRUE]
           name == one.name
           all == Line(ArgsText(one.args))
           r == Line(t)
           v == Line(Join(ArgsText(one.args), Join(<<"</tool_call>">>, r)))
           w == Between("<tool_call>", name, "<sep>", v)
<1>1. FineCall(one)
  OBVIOUS
<1>2. Join(CallText(one), t) = w
  BY <1>1, CallWritten
<1>3. /\ name \in Text /\ name # <<>> /\ ~Holds(name, "<sep>")
      /\ AreFine(one.args)
  BY <1>1 DEF FineCall, IsBare
<1>4. /\ "<tool_call>" \in Pieces /\ "</tool_call>" \in Pieces /\ "<sep>" \in Pieces
      /\ "<tool_call>" # "<sep>" /\ "<tool_call>" # "\n"
  BY MarksArePieces
<1>5. r \in Text
  BY <1>4, LinesAre
<1>6. ArgsText(one.args) \in Text /\ IsInner(ArgsText(one.args))
  BY <1>3, ArgumentsWritten
<1>7. all \in Text /\ ~Holds(all, "</tool_call>")
  <2>1. all \in Text
    BY <1>4, <1>6, LinesAre
  <2>2. <<"\n">> \in Text
    BY MarksArePieces DEF Text
  <2>3. Holds(all, "</tool_call>") <=> Holds(<<"\n">>, "</tool_call>") \/ Holds(ArgsText(one.args), "</tool_call>")
    BY <1>6, <2>2, HoldsConcat DEF Line, Join
  <2>4. ~Holds(<<"\n">>, "</tool_call>")
    BY HoldsPiece
  <2> QED
    BY <1>6, <2>1, <2>3, <2>4 DEF IsInner
<1>8. v = Join(all, Join(<<"</tool_call>">>, r))
  <2>1. <<"\n">> \in Text /\ <<"</tool_call>">> \in Text
    BY <1>4, MarksArePieces DEF Text
  <2>2. Join(<<"</tool_call>">>, r) \in Text
    BY <1>5, <2>1, Joined
  <2> QED
    BY <1>6, <2>1, <2>2, JoinAssociative DEF Line
<1>9. ParseArguments(all).ok /\ ParseArguments(all).value = RereadArgs(one.args)
  <2>1. ParseArguments(all) = [rest |-> <<>>, value |-> RereadArgs(one.args), ok |-> TRUE]
    BY <1>3, ArgumentsReread
  <2> QED
    BY <2>1
<1> HIDE DEF r, all, name
<1>10. /\ v \in Text /\ Holds(v, "</tool_call>")
       /\ BeforeMark(v, "</tool_call>") = all /\ AfterMark(v, "</tool_call>") = r
  <2>1. Join(all, Join(<<"</tool_call>">>, r)) \in Text
    <3>1. <<"</tool_call>">> \in Text
      BY <1>4 DEF Text
    <3>2. Join(<<"</tool_call>">>, r) \in Text
      BY <1>5, <3>1, Joined
    <3> QED
      BY <1>7, <3>2, Joined
  <2>2. \A x : x = Join(all, Join(<<"</tool_call>">>, r)) =>
            /\ Holds(x, "</tool_call>") /\ BeforeMark(x, "</tool_call>") = all
            /\ AfterMark(x, "</tool_call>") = r
    BY <1>4, <1>5, <1>7, MarkFound DEF Join
  <2> HIDE DEF v
  <2> QED
    BY <1>8, <2>1, <2>2
<1> HIDE DEF v
<1>11. /\ w # <<>> /\ StartsWith(w, "<tool_call>") /\ Holds(w, "<sep>")
       /\ TrimNewlines(Line(w)) = w
       /\ BeforeMark(Tail(w), "<sep>") = name /\ AfterMark(w, "<sep>") = v
  BY <1>3, <1>4, <1>10, BetweenMarks DEF Between, Line
<1> HIDE DEF w
<1>12. s.rest = Line(w) /\ s.value = calls /\ s.ok = TRUE
  BY <1>2
<1>13. s = [rest |-> s.rest, value |-> s.value, ok |-> s.ok]
  OBVIOUS
<1> HIDE DEF s
<1> DEFINE args == ParseArguments(BeforeMark(AfterMark(TrimNewlines(s.rest), "<sep>"), "</tool_call>"))
           it == [name |-> name, args |-> args.value]
<1>14. args.ok /\ args.value = RereadArgs(one.args)
  BY <1>9, <1>10, <1>11, <1>12
<1>15. CallTurn(s) = [s EXCEPT !.rest = r, !.value = Append(@, it)]
  <2>1. TrimNewlines(s.rest) = w /\ s.ok
    BY <1>11, <1>12
  <2> QED
    BY <1>3, <1>10, <1>11, <1>14, <2>1 DEF CallTurn, CallAt
<1>16. it = CallAgain(one)
  BY <1>14 DEF CallAgain, name
<1> HIDE DEF it
<1>17. CallTurn(s) = [rest |-> r, value |-> Append(calls, CallAgain(one)), ok |-> TRUE]
  <2>1. CallTurn(s) = [rest |-> r, value |-> Append(s.value, it), ok |-> s.ok]
    BY <1>13, <1>15
  <2> QED
    BY <1>12, <1>16, <2>1
<1> QED
  BY <1>17 DEF s, r

-----------------------------------------------------------------------------
(* An envelope of calls that was written is read again. *)

\* The calls of an envelope as they are written.
CallTexts(calls) == [i \in DOMAIN calls |-> CallText(calls[i])]
CallsFlat(calls) == FlattenSeq(CallTexts(calls))

\* Pieces and texts put together do not end an envelope if none of them does.
LEMMA BareJoins ==
    /\ \A p \in Pieces : \A t : p # "</tool_calls>" /\ IsBare(t) => IsBare(Join(<<p>>, t)) /\ Join(<<p>>, t) # <<>>
    /\ \A a, t : IsBare(a) /\ IsBare(t) => IsBare(Join(a, t))
    /\ IsBare(<<>>)
<1>1. ASSUME NEW p \in Pieces, p # "</tool_calls>", NEW t, IsBare(t)
      PROVE  IsBare(Join(<<p>>, t)) /\ Join(<<p>>, t) # <<>>
  <2>1. <<p>> \in Text /\ t \in Text
    BY <1>1 DEF IsBare, Text
  <2>2. Join(<<p>>, t) \in Text /\ Join(<<p>>, t) # <<>>
    BY <2>1, PieceFirst DEF Join
  <2>3. \A x : Holds(Join(<<p>>, t), x) <=> Holds(<<p>>, x) \/ Holds(t, x)
    BY <2>1, HoldsConcat DEF Join
  <2>4. \A x : Holds(<<p>>, x) <=> p = x
    BY HoldsPiece
  <2> QED
    BY <1>1, <2>2, <2>3, <2>4 DEF IsBare
<1>2. ASSUME NEW a, IsBare(a), NEW t, IsBare(t) PROVE IsBare(Join(a, t))
  <2>1. a \in Text /\ t \in Text
    BY <1>2 DEF IsBare
  <2>2. Join(a, t) \in Text
    BY <2>1, Joined
  <2>3. \A x : Holds(Join(a, t), x) <=> Holds(a, x) \/ Holds(t, x)
    BY <2>1, HoldsConcat DEF Join
  <2> QED
    BY <1>2, <2>2, <2>3 DEF IsBare
<1>3. IsBare(<<>>)
  BY HoldsPiece DEF IsBare, Text
<1> QED
  BY <1>1, <1>2, <1>3

\* Calls that were read, and the same with their values read once more.
LEMMA CallsAre ==
    ASSUME NEW calls \in Seq(FineCalls), WellEnclosed(calls)
    PROVE  /\ Len(calls) \in Nat /\ DOMAIN calls = 1..Len(calls)
           /\ \A i \in 1..Len(calls) : FineCall(calls[i]) /\ AllEnclose(calls[i].args)
           /\ Reread(calls) \in Seq(FineCalls) /\ Len(Reread(calls)) = Len(calls)
           /\ \A i \in 1..Len(calls) : Reread(calls)[i] = CallAgain(calls[i])
<1> DEFINE n == Len(calls)
           r == Reread(calls)
<1>1. n \in Nat /\ DOMAIN calls = 1..n
  BY LenProperties
<1>2. \A i \in 1..n : FineCall(calls[i])
  <2>1. \A i \in 1..n : calls[i] \in FineCalls
    BY ElementOfSeq
  <2> QED
    BY <2>1 DEF FineCalls
<1>3. \A i \in 1..n : AllEnclose(calls[i].args)
  BY <1>1 DEF WellEnclosed, AllEnclose
<1>4. r = [i \in 1..n |-> CallAgain(calls[i])]
  BY <1>1 DEF Reread, CallAgain
<1>5. ASSUME NEW one, FineCall(one) PROVE CallAgain(one) \in FineCalls
  <2>1. AreFine(RereadArgs(one.args))
    BY <1>5, AgainFine DEF FineCall
  <2> QED
    BY <1>5, <2>1, CallMade DEF FineCall, CallAgain
<1> HIDE DEF r
<1>6. r \in Seq(FineCalls) /\ Len(r) = n /\ \A i \in 1..n : r[i] = CallAgain(calls[i])
  BY <1>1, <1>2, <1>4, <1>5
<1> QED
  BY <1>1, <1>2, <1>3, <1>6 DEF r

\* What is known of them.
LEMMA CallsWritten ==
    ASSUME NEW calls \in Seq(FineCalls), WellEnclosed(calls)
    PROVE  /\ CallTexts(calls) \in Seq(Text) /\ Len(CallTexts(calls)) = Len(calls)
           /\ \A i \in 1..Len(calls) : CallTexts(calls)[i] = CallText(calls[i]) /\ CallText(calls[i]) # <<>>
           /\ CallsFlat(calls) \in Text /\ IsBare(CallsFlat(calls))
           /\ Len(CallsFlat(calls)) >= Len(calls)
<1> DEFINE n == Len(calls)
           T == CallTexts(calls)
<1>1. n \in Nat /\ DOMAIN calls = 1..n /\ \A i \in 1..n : FineCall(calls[i]) /\ AllEnclose(calls[i].args)
  BY CallsAre
<1>2. <<>> \in Text
  BY DEF Text
<1>3. ASSUME NEW one, FineCall(one), AllEnclose(one.args)
      PROVE  CallText(one) \in Text /\ CallText(one) # <<>> /\ IsBare(CallText(one))
  <2> DEFINE r == Line(<<>>)
             y == Join(ArgsText(one.args), Join(<<"</tool_call>">>, r))
             v == Line(y)
             w == Between("<tool_call>", one.name, "<sep>", v)
  <2>1. Join(CallText(one), <<>>) = w /\ CallText(one) \in Text
    BY <1>2, <1>3, CallWritten
  <2>2. CallText(one) = w
    BY <1>2, <2>1, Joined
  <2>3. IsBare(one.name) /\ IsBare(ArgsText(one.args))
    BY <1>3, ArgumentsWritten DEF FineCall, IsBare, IsInner
  <2>4. "<tool_call>" \in Pieces /\ "</tool_call>" \in Pieces /\ "<sep>" \in Pieces /\ "\n" \in Pieces
    BY MarksArePieces
  <2>5. IsBare(r)
    BY <2>4, BareJoins DEF Line
  <2>6. IsBare(y)
    <3>1. IsBare(Join(<<"</tool_call>">>, r))
      BY <2>4, <2>5, BareJoins
    <3> QED
      BY <2>3, <3>1, BareJoins
  <2>7. IsBare(v)
    BY <2>4, <2>6, BareJoins DEF Line
  <2>8. IsBare(w) /\ w # <<>>
    <3>1. IsBare(Join(<<"<sep>">>, v))
      BY <2>4, <2>7, BareJoins
    <3>2. IsBare(Join(one.name, Join(<<"<sep>">>, v)))
      BY <2>3, <3>1, BareJoins
    <3> QED
      BY <2>4, <3>2, BareJoins DEF Between
  <2> QED
    BY <2>1, <2>2, <2>8
<1>4. T = [i \in 1..n |-> CallText(calls[i])]
  BY <1>1 DEF CallTexts
<1> HIDE DEF T
<1>5. T \in Seq(Text) /\ Len(T) = n /\ \A i \in 1..n : T[i] = CallText(calls[i])
  BY <1>1, <1>3, <1>4
<1>6. \A i \in 1..n : CallText(calls[i]) # <<>> /\ IsBare(CallText(calls[i]))
  BY <1>1, <1>3
<1> HIDE DEF n
<1>7. /\ FlattenSeq(T) = RestOf(T, 0) /\ \A k \in 0..Len(T) : RestOf(T, k) \in Text
      /\ \A x : Holds(FlattenSeq(T), x) => \E i \in 1..Len(T) : Holds(T[i], x)
      /\ (\A i \in 1..Len(T) : T[i] # <<>>) => Len(FlattenSeq(T)) >= Len(T)
  BY <1>5, RestSteps
<1>8. CallsFlat(calls) = FlattenSeq(T)
  BY DEF CallsFlat, T
<1>9. FlattenSeq(T) \in Text
  <2>1. 0 \in 0..Len(T)
    BY <1>1, <1>5
  <2> QED
    BY <1>7, <2>1
<1>10. IsBare(FlattenSeq(T))
  BY <1>5, <1>6, <1>7, <1>9 DEF IsBare
<1>11. Len(FlattenSeq(T)) >= n
  BY <1>5, <1>6, <1>7
<1> QED
  BY <1>5, <1>6, <1>8, <1>9, <1>10, <1>11 DEF n, T

\* A turn that finds nothing left ends where it is.
LEMMA CallTurnEnds ==
    ASSUME NEW t, NEW v, TrimNewlines(t) = <<>>
    PROVE  CallTurn([rest |-> t, value |-> v, ok |-> TRUE]) = [rest |-> <<>>, value |-> v, ok |-> TRUE]
<1> DEFINE s == [rest |-> t, value |-> v, ok |-> TRUE]
           e == [rest |-> <<>>, value |-> v, ok |-> TRUE]
<1>1. TrimNewlines(s.rest) = <<>>
  OBVIOUS
<1>2. [s EXCEPT !.rest = <<>>] = e
  <2>1. s = [rest |-> s.rest, value |-> s.value, ok |-> s.ok] /\ s.value = v /\ s.ok = TRUE
    OBVIOUS
  <2> HIDE DEF s
  <2>2. [s EXCEPT !.rest = <<>>] = [rest |-> <<>>, value |-> s.value, ok |-> s.ok]
    BY <2>1
  <2> QED
    BY <2>1, <2>2
<1> HIDE DEF s, e
<1>3. CallTurn(s) = [s EXCEPT !.rest = <<>>]
  BY <1>1, Zenon DEF CallTurn, CallAt
<1>4. CallTurn(s) = e
  BY <1>2, <1>3, Zenon
<1> QED
  BY <1>4 DEF s, e

\* The calls of an envelope that was written are read again.
LEMMA CallsReread ==
    ASSUME NEW calls \in Seq(FineCalls), WellEnclosed(calls)
    PROVE  ParseCalls(Line(CallsFlat(calls))) = [rest |-> <<>>, value |-> Reread(calls), ok |-> TRUE]
<1> DEFINE n == Len(calls)
           T == CallTexts(calls)
           all == CallsFlat(calls)
           input == Line(all)
           m == Len(input)
           again == Reread(calls)
           at(k) == [rest |-> Line(RestOf(T, k)), value |-> SubSeq(again, 1, k), ok |-> TRUE]
           end == [rest |-> <<>>, value |-> again, ok |-> TRUE]
<1>1. /\ n \in Nat /\ again \in Seq(FineCalls) /\ Len(again) = n
      /\ \A i \in 1..n : /\ FineCall(calls[i]) /\ AllEnclose(calls[i].args)
                        /\ again[i] = CallAgain(calls[i])
  BY CallsAre
<1> HIDE DEF again
<1>2. /\ T \in Seq(Text) /\ Len(T) = n /\ \A i \in 1..n : T[i] = CallText(calls[i])
      /\ all \in Text /\ Len(all) >= n
  BY CallsWritten
<1>3. all = FlattenSeq(T)
  BY DEF CallsFlat
<1> HIDE DEF T, all
<1>4. /\ all = RestOf(T, 0) /\ RestOf(T, n) = <<>> /\ (\A k \in 0..n : RestOf(T, k) \in Text)
      /\ \A k \in 0..(n - 1) : RestOf(T, k) = T[k + 1] \o RestOf(T, k + 1)
  BY <1>2, <1>3, RestSteps
<1>5. input \in Text /\ m \in Nat /\ m > n
  <2>1. input \in Text /\ Len(input) = Len(all) + 1
    BY <1>2, PieceFirst, MarksArePieces DEF Line, Join
  <2>2. Len(all) \in Nat
    BY <1>2, TextPieces
  <2> QED
    BY <1>1, <1>2, <2>1, <2>2
<1> HIDE DEF input
<1>6. PICK f : /\ f[0] = Reading(input) /\ ParseCalls(input) = f[m]
               /\ \A k \in Nat : k < m => f[k + 1] = CallTurn(f[k])
  BY <1>5, CallLoop
<1> HIDE DEF n, m
<1> DEFINE S == {k \in Nat : k <= n => f[k] = at(k)}
<1>7. 0 \in S
  <2>1. SubSeq(again, 1, 0) = <<>>
    BY SubSeqEmpty
  <2>2. at(0) = [rest |-> input, value |-> <<>>, ok |-> TRUE]
    BY <1>4, <2>1 DEF input
  <2>3. f[0] = at(0)
    BY <1>6, <2>2 DEF Reading
  <2> HIDE DEF at
  <2> QED
    BY <2>3
<1>8. ASSUME NEW k \in S PROVE k + 1 \in S
  <2>1. SUFFICES ASSUME k + 1 <= n PROVE f[k + 1] = at(k + 1)
    <3> HIDE DEF at
    <3> QED
      OBVIOUS
  <2>2. k \in Nat /\ f[k] = at(k)
    <3> HIDE DEF at
    <3> QED
      BY <1>1, <2>1
  <2>3. k < n /\ k < m /\ k \in 0..(n - 1) /\ k + 1 \in 0..n /\ k + 1 \in 1..n
    BY <1>1, <1>5, <2>1, <2>2
  <2> HIDE DEF S
  <2> DEFINE a == SubSeq(again, 1, k)
             one == calls[k + 1]
             t == RestOf(T, k + 1)
  <2>4. FineCall(one) /\ AllEnclose(one.args) /\ SubSeq(again, 1, k + 1) = Append(a, CallAgain(one))
    <3>1. SubSeq(again, 1, k + 1) = Append(a, again[k + 1])
      BY <1>1, <2>2, <2>3, PrefixGrows
    <3>2. FineCall(one) /\ AllEnclose(one.args) /\ again[k + 1] = CallAgain(one)
      BY <1>1, <2>3
    <3> HIDE DEF a, one
    <3> QED
      BY <3>1, <3>2
  <2>5. t \in Text /\ RestOf(T, k) = Join(CallText(one), t)
    BY <1>2, <1>4, <2>3 DEF Join
  <2>6. at(k) = [rest |-> Line(Join(CallText(one), t)), value |-> a, ok |-> TRUE]
    BY <2>5
  <2>7. at(k + 1) = [rest |-> Line(t), value |-> Append(a, CallAgain(one)), ok |-> TRUE]
    BY <2>4
  <2> HIDE DEF a, one, t, at
  <2>8. f[k + 1] = CallTurn(f[k])
    BY <1>6, <2>2, <2>3
  <2> QED
    BY <2>2, <2>4, <2>5, <2>6, <2>7, <2>8, CallTurnRereads
<1>9. f[n] = at(n)
  <2> HIDE DEF S
  <2>1. S \in SUBSET Nat
    BY DEF S
  <2>2. n \in S
    BY <1>1, <1>7, <1>8, <2>1, EveryNatural
  <2> QED
    BY <1>1, <2>2 DEF S
<1>10. at(n) = [rest |-> Line(<<>>), value |-> again, ok |-> TRUE]
  BY <1>1, <1>4, SubSeqFull
<1> HIDE DEF at
<1>11. TrimNewlines(Line(<<>>)) = <<>> /\ TrimNewlines(<<>>) = <<>>
  <2>1. Line(<<>>) = <<"\n">>
    <3>1. <<"\n">> \in Text
      BY MarksArePieces DEF Text
    <3> QED
      BY <3>1, Joined DEF Line
  <2> QED
    BY <2>1, TrimNothing, MarksArePieces
<1> DEFINE E == {k \in Nat : n + 1 + k <= m => f[n + 1 + k] = end}
<1>12. 0 \in E
  <2>1. f[n + 1] = CallTurn(f[n])
    BY <1>1, <1>5, <1>6
  <2>2. f[n + 1] = end
    BY <1>9, <1>10, <1>11, <2>1, CallTurnEnds
  <2>3. n + 1 + 0 = n + 1
    BY <1>1
  <2> HIDE DEF end
  <2> QED
    BY <2>2, <2>3
<1>13. ASSUME NEW k \in E PROVE k + 1 \in E
  <2> DEFINE j == n + 1 + k
  <2>1. SUFFICES ASSUME n + 1 + (k + 1) <= m PROVE f[n + 1 + (k + 1)] = end
    <3> HIDE DEF end
    <3> QED
      OBVIOUS
  <2>2. k \in Nat /\ f[j] = end
    <3> HIDE DEF end
    <3> QED
      BY <1>1, <1>5, <2>1
  <2>3. j \in Nat /\ j < m /\ n + 1 + (k + 1) = j + 1
    BY <1>1, <1>5, <2>1, <2>2
  <2> HIDE DEF j
  <2>4. f[j + 1] = CallTurn(f[j])
    BY <1>6, <2>3
  <2>5. CallTurn(end) = end
    BY <1>11, CallTurnEnds
  <2> HIDE DEF end
  <2> QED
    BY <2>2, <2>3, <2>4, <2>5
<1>14. f[m] = end
  <2> DEFINE k == m - (n + 1)
  <2>1. k \in Nat /\ n + 1 + k = m
    BY <1>1, <1>5
  <2> HIDE DEF k
  <2>2. k \in E
    <3> HIDE DEF E
    <3>1. E \in SUBSET Nat
      BY DEF E
    <3> QED
      BY <1>12, <1>13, <2>1, <3>1, EveryNatural
  <2> HIDE DEF end
  <2>3. n + 1 + k <= m => f[n + 1 + k] = end
    BY <2>2
  <2>4. m <= m
    BY <1>5
  <2> QED
    BY <2>1, <2>3, <2>4
<1> QED
  BY <1>6, <1>14 DEF end, input, all, again

-----------------------------------------------------------------------------
(* An answer that was written is parsed again. *)

\* A parsed answer: no field holds the mark that ends it.
FineAnswer(m) ==
    /\ m.content \in Text /\ ~Holds(m.content, "<tool_calls>")
    /\ Thought(m) \in Text /\ ~Holds(Thought(m), "</think>")
    /\ m.calls \in Seq(FineCalls)

\* How reasoning is split off a text, whatever the text.
LEMMA SplitFine ==
    ASSUME NEW raw \in Text, NEW effort
    PROVE  /\ SplitReasoning(raw, effort).body \in Text
           /\ Thought(SplitReasoning(raw, effort)) \in Text
           /\ ~Holds(Thought(SplitReasoning(raw, effort)), "</think>")
<1> DEFINE inner == IF StartsWith(raw, "<think>") THEN Tail(raw) ELSE raw
           split == SplitReasoning(raw, effort)
           b1 == (effort # "no_think" \/ StartsWith(raw, "<think>")) /\ Holds(inner, "</think>")
           b2 == effort # "no_think"
           r1 == [reasoning |-> BeforeMark(inner, "</think>"), body |-> AfterMark(inner, "</think>")]
           r2 == [reasoning |-> inner, body |-> <<>>]
           r3 == [reasoning |-> Absent, body |-> raw]
<1>1. inner \in Text
  BY TextTail DEF StartsWith
<1>2. <<>> \in Text /\ ~Holds(<<>>, "</think>")
  BY HoldsPiece DEF Text
<1>3. split = IF b1 THEN r1 ELSE IF b2 THEN r2 ELSE r3
  BY DEF SplitReasoning
<1>4. b2 /\ ~b1 => ~Holds(inner, "</think>")
  OBVIOUS
<1>5. b1 => Holds(inner, "</think>")
  OBVIOUS
<1> HIDE DEF inner, b1, b2, split
<1>6. CASE b1
  <2>1. split.body = AfterMark(inner, "</think>") /\ split.reasoning = BeforeMark(inner, "</think>")
    BY <1>3, <1>6
  <2>2. split.body \in Text /\ split.reasoning \in Text /\ ~Holds(split.reasoning, "</think>")
    BY <1>1, <1>5, <1>6, <2>1, MarkCuts
  <2> QED
    BY <1>2, <2>2 DEF Thought, split
<1>7. CASE ~b1 /\ b2
  <2>1. split.body = <<>> /\ split.reasoning = inner
    BY <1>3, <1>7
  <2> QED
    BY <1>1, <1>2, <1>4, <1>7, <2>1 DEF Thought, split
<1>8. CASE ~b1 /\ ~b2
  <2>1. split.body = raw /\ split.reasoning = Absent
    BY <1>3, <1>8
  <2> QED
    BY <1>2, <2>1 DEF Thought, split
<1> QED
  BY <1>6, <1>7, <1>8

\* What is parsed, whatever the text.
LEMMA ParsedFine ==
    ASSUME NEW raw \in Text, NEW effort, ParseAssistant(raw, effort).ok
    PROVE  FineAnswer(ParseAssistant(raw, effort).value)
<1> DEFINE split == SplitReasoning(raw, effort)
           body == split.body
           content == BeforeMark(body, "<tool_calls>")
           tail == AfterMark(body, "<tool_calls>")
           inner == BeforeMark(tail, "</tool_calls>")
           calls == ParseCalls(inner)
           b1 == Holds(body, "<tool_calls>")
           b2 == Holds(tail, "</tool_calls>")
           b3 == TrimNewlines(AfterMark(tail, "</tool_calls>")) # <<>>
           b4 == calls.ok
           m1 == AssistantMessage(body, split.reasoning, <<>>)
           m2 == AssistantMessage(content, split.reasoning, calls.value)
           it == ParseAssistant(raw, effort)
<1>1. it = IF ~b1 THEN ParsedAs(m1) ELSE IF ~b2 THEN BadParse ELSE IF b3 \/ ~b4 THEN BadParse ELSE ParsedAs(m2)
  BY DEF ParseAssistant, ParseBody, Envelope
<1>2. body \in Text /\ Thought(split) \in Text /\ ~Holds(Thought(split), "</think>")
  BY SplitFine
<1> HIDE DEF split
<1>3. CASE ~b1
  <2>1. it.value = m1
    BY <1>1, <1>3 DEF ParsedAs
  <2>2. m1.content = body /\ m1.reasoning = split.reasoning /\ m1.calls = <<>>
    BY DEF AssistantMessage
  <2>3. <<>> \in Seq(FineCalls)
    BY EmptySeq
  <2> HIDE DEF m1, body
  <2>4. Thought(m1) = Thought(split)
    BY <2>2 DEF Thought
  <2> HIDE DEF it
  <2>5. FineAnswer(m1)
    BY <1>2, <1>3, <2>2, <2>3, <2>4 DEF FineAnswer
  <2> QED
    BY <2>1, <2>5 DEF it
<1>4. CASE b1
  <2>1. it.ok /\ ~BadParse.ok
    BY DEF BadParse
  <2>2. b2 /\ b4 /\ it = ParsedAs(m2)
    <3> HIDE DEF it, b1, b2, b3, b4, m1, m2
    <3> QED
      BY <1>1, <1>4, <2>1
  <2>3. it.value = m2
    BY <2>2 DEF ParsedAs
  <2>4. m2.content = content /\ m2.reasoning = split.reasoning /\ m2.calls = calls.value
    BY DEF AssistantMessage
  <2>5. content \in Text /\ ~Holds(content, "<tool_calls>") /\ tail \in Text
    <3> HIDE DEF body
    <3> QED
      BY <1>2, <1>4, MarkCuts
  <2>6. IsBare(inner)
    <3> HIDE DEF tail
    <3> QED
      BY <2>2, <2>5, MarkCuts DEF IsBare
  <2>7. calls.value \in Seq(FineCalls)
    <3> HIDE DEF inner
    <3> QED
      BY <2>6, CallsRead DEF CallsSoFar
  <2> HIDE DEF m2, content, calls, it
  <2>8. Thought(m2) = Thought(split)
    BY <2>4 DEF Thought
  <2>9. FineAnswer(m2)
    BY <1>2, <2>4, <2>5, <2>7, <2>8 DEF FineAnswer
  <2> QED
    BY <2>3, <2>9 DEF it
<1> QED
  BY <1>3, <1>4

\* Reasoning that was written is split off again.
LEMMA SplitAgain ==
    ASSUME NEW thought \in Text, ~Holds(thought, "</think>"), NEW v \in Text, NEW effort
    PROVE  SplitReasoning(Between("<think>", thought, "</think>", v), effort)
              = [reasoning |-> thought, body |-> v]
<1> DEFINE i == Join(thought, Join(<<"</think>">>, v))
           w == Join(<<"<think>">>, i)
<1>1. "<think>" \in Pieces /\ "</think>" \in Pieces
  BY MarksArePieces
<1>2. Holds(i, "</think>") /\ BeforeMark(i, "</think>") = thought /\ AfterMark(i, "</think>") = v
  BY <1>1, MarkFound DEF Join
<1>3. i \in Text
  <2>1. <<"</think>">> \in Text
    BY <1>1 DEF Text
  <2>2. Join(<<"</think>">>, v) \in Text
    BY <2>1, Joined
  <2> QED
    BY <2>2, Joined
<1> HIDE DEF i
<1>4. StartsWith(w, "<think>") /\ Tail(w) = i
  BY <1>1, <1>3, PieceFirst DEF Join, StartsWith
<1>5. w = Between("<think>", thought, "</think>", v)
  BY DEF Between, i
<1> HIDE DEF w
<1>6. SplitReasoning(w, effort) = [reasoning |-> thought, body |-> v]
  BY <1>2, <1>4 DEF SplitReasoning
<1> QED
  BY <1>5, <1>6

\* An envelope that was written is found again.
LEMMA EnvelopeAgain ==
    ASSUME NEW calls \in Seq(FineCalls), WellEnclosed(calls),
           NEW content \in Text, ~Holds(content, "<tool_calls>")
    PROVE  \E tail \in Text :
              /\ CallsText(calls) \in Text
              /\ Holds(Join(content, CallsText(calls)), "<tool_calls>")
              /\ BeforeMark(Join(content, CallsText(calls)), "<tool_calls>") = content
              /\ AfterMark(Join(content, CallsText(calls)), "<tool_calls>") = tail
              /\ Holds(tail, "</tool_calls>")
              /\ BeforeMark(tail, "</tool_calls>") = Line(CallsFlat(calls))
              /\ AfterMark(tail, "</tool_calls>") = <<>>
<1> DEFINE k == <<"<tool_calls>">>
           e == <<"</tool_calls>">>
           nl == <<"\n">>
           flat == CallsFlat(calls)
           all == Line(flat)
           tail == Join(all, e)
           text == CallsText(calls)
<1>1. /\ "<tool_calls>" \in Pieces /\ "</tool_calls>" \in Pieces /\ "\n" \in Pieces
      /\ "\n" # "</tool_calls>"
  BY MarksArePieces
<1>2. k \in Text /\ e \in Text /\ nl \in Text /\ <<>> \in Text
  BY <1>1 DEF Text
<1>3. flat \in Text /\ IsBare(flat)
  BY CallsWritten
<1>4. IsBare(all)
  BY <1>1, <1>3, BareJoins DEF Line
<1>5. text = Join(Join(Join(k, nl), flat), e)
  <2>1. <<"<tool_calls>", "\n">> = Join(k, nl)
    BY <1>1, FewPieces DEF Join
  <2>2. text = Join(Join(<<"<tool_calls>", "\n">>, flat), e)
    BY Zenon DEF CallsText, CallsFlat, CallTexts, Join
  <2> QED
    BY <2>1, <2>2
<1>6. all = Join(nl, flat) /\ all \in Text
  BY <1>4 DEF Line, IsBare
<1> HIDE DEF k, e, nl, flat, all, text
<1>7. tail \in Text
  BY <1>2, <1>6, Joined
<1>8. text = Join(k, tail)
  <2>1. Join(Join(k, nl), flat) = Join(k, all)
    BY <1>2, <1>3, <1>6, JoinAssociative
  <2>2. Join(Join(k, all), e) = Join(k, tail)
    BY <1>2, <1>6, JoinAssociative
  <2> QED
    BY <1>5, <2>1, <2>2
<1>9. /\ Holds(tail, "</tool_calls>") /\ BeforeMark(tail, "</tool_calls>") = all
      /\ AfterMark(tail, "</tool_calls>") = <<>>
  <2>1. e = Join(e, <<>>)
    BY <1>2, Joined
  <2>2. tail = Join(all, Join(e, <<>>))
    BY <2>1
  <2>3. ~Holds(all, "</tool_calls>")
    BY <1>4 DEF IsBare
  <2> HIDE DEF tail
  <2> QED
    BY <1>1, <1>2, <1>6, <2>2, <2>3, MarkFound DEF Join, e
<1> HIDE DEF tail
<1>10. text \in Text
  BY <1>2, <1>7, <1>8, Joined
<1>11. /\ Holds(Join(content, text), "<tool_calls>") /\ BeforeMark(Join(content, text), "<tool_calls>") = content
       /\ AfterMark(Join(content, text), "<tool_calls>") = tail
  BY <1>1, <1>7, <1>8, MarkFound DEF Join, k
<1> QED
  BY <1>7, <1>9, <1>10, <1>11 DEF text, all, flat

-----------------------------------------------------------------------------
(* The whole answer. *)

\* An answer, written with its reasoning.
LEMMA RewrittenIs ==
    ASSUME NEW m, FineAnswer(m), WellEnclosed(m.calls)
    PROVE  LET rest == Join(m.content, IF m.calls = <<>> THEN <<>> ELSE CallsText(m.calls))
           IN  Rewritten(m) = Between("<think>", Thought(m), "</think>", rest) /\ rest \in Text
<1> DEFINE k == <<"<think>">>
           e == <<"</think>">>
           t == IF m.reasoning # Absent THEN m.reasoning ELSE <<>>
           c == m.content
           x == IF m.calls = <<>> THEN <<>> ELSE CallsText(m.calls)
           nil == <<>>
<1>1. k \in Text /\ e \in Text /\ nil \in Text
  BY MarksArePieces DEF Text
<1>2. t \in Text /\ c \in Text /\ t = Thought(m)
  BY DEF FineAnswer, Thought
<1>3. x \in Text
  <2>1. CallsText(m.calls) \in Text
    BY EnvelopeAgain DEF FineAnswer
  <2> QED
    BY <1>1, <2>1
<1>4. Rewritten(m) = Join(Join(Join(Join(k, t), e), c), x)
  BY DEF Rewritten, Body, Join
<1> HIDE DEF k, e, t, c, x, nil
<1>5. AreTexts(k, t, e, c, x, nil)
  BY <1>1, <1>2, <1>3 DEF AreTexts
<1>6. /\ Join(Join(Join(Join(k, t), e), c), x) \in Text
      /\ Join(Join(Join(Join(Join(k, t), e), c), x), nil) = Join(k, Join(t, Join(e, Join(c, Join(x, nil)))))
  BY <1>5, SixTexts
<1>7. Rewritten(m) = Join(k, Join(t, Join(e, Join(c, x))))
  BY <1>3, <1>4, <1>6, Joined DEF nil
<1>8. Join(c, x) \in Text
  BY <1>2, <1>3, Joined
<1> QED
  BY <1>2, <1>7, <1>8 DEF Between, k, e, c, x

\* Parsed again it is the same answer, its values read once more.
LEMMA Reparsed ==
    ASSUME NEW m, FineAnswer(m), WellEnclosed(m.calls), NEW effort
    PROVE  ParseAssistant(Rewritten(m), effort)
              = ParsedAs(AssistantMessage(m.content, Thought(m), Reread(m.calls)))
<1> DEFINE v == Join(m.content, IF m.calls = <<>> THEN <<>> ELSE CallsText(m.calls))
           raw == Rewritten(m)
           split == [reasoning |-> Thought(m), body |-> v]
<1>1. raw = Between("<think>", Thought(m), "</think>", v) /\ v \in Text
  BY RewrittenIs
<1>2. /\ m.content \in Text /\ ~Holds(m.content, "<tool_calls>")
      /\ Thought(m) \in Text /\ ~Holds(Thought(m), "</think>") /\ m.calls \in Seq(FineCalls)
  BY DEF FineAnswer
<1> HIDE DEF v, raw
<1>3. SplitReasoning(raw, effort) = split
  BY <1>1, <1>2, SplitAgain
<1>4. split.body = v /\ split.reasoning = Thought(m)
  OBVIOUS
<1> HIDE DEF split
<1>5. CASE m.calls = <<>>
  <2>1. v = m.content
    BY <1>2, <1>5, Joined DEF v
  <2>2. ParseAssistant(raw, effort) = ParsedAs(AssistantMessage(m.content, Thought(m), <<>>))
    BY <1>2, <1>3, <1>4, <2>1 DEF ParseAssistant, ParseBody, Envelope
  <2>3. Reread(m.calls) = <<>>
    <3>1. Reread(m.calls) \in Seq(FineCalls) /\ Len(Reread(m.calls)) = Len(m.calls)
      BY <1>2, CallsAre
    <3> QED
      BY <1>5, <3>1, EmptySeq
  <2> QED
    BY <2>2, <2>3 DEF raw
<1>6. CASE m.calls # <<>>
  <2>1. v = Join(m.content, CallsText(m.calls))
    BY <1>6 DEF v
  <2>2. PICK tail \in Text :
           /\ Holds(v, "<tool_calls>") /\ BeforeMark(v, "<tool_calls>") = m.content
           /\ AfterMark(v, "<tool_calls>") = tail
           /\ Holds(tail, "</tool_calls>")
           /\ BeforeMark(tail, "</tool_calls>") = Line(CallsFlat(m.calls))
           /\ AfterMark(tail, "</tool_calls>") = <<>>
    BY <1>2, <2>1, EnvelopeAgain
  <2>3. ParseCalls(Line(CallsFlat(m.calls))).ok /\ ParseCalls(Line(CallsFlat(m.calls))).value = Reread(m.calls)
    <3>1. ParseCalls(Line(CallsFlat(m.calls))) = [rest |-> <<>>, value |-> Reread(m.calls), ok |-> TRUE]
      BY <1>2, CallsReread
    <3> QED
      BY <3>1
  <2>4. TrimNewlines(<<>>) = <<>>
    BY TrimNothing, MarksArePieces
  <2>5. ParseAssistant(raw, effort) = ParsedAs(AssistantMessage(m.content, Thought(m), Reread(m.calls)))
    BY <1>3, <1>4, <2>2, <2>3, <2>4 DEF ParseAssistant, ParseBody, Envelope
  <2> QED
    BY <2>5 DEF raw
<1> QED
  BY <1>5, <1>6

\* What is in the model's hands is a text.
ConvoTexts == convo.raw # Absent => convo.raw \in Text

\* The states a conversation goes through.
LEMMA ConvoNextTexts ==
    ASSUME ConvoTexts, [ConvoNext]_convo
    PROVE  ConvoTexts'
<1>1. ASSUME NEW m \in Replies, Reply(m) PROVE ConvoTexts'
  <2> DEFINE c == [convo EXCEPT !.messages = Append(@, m), !.raw = Absent]
  <2>1. convo' = c
    BY <1>1 DEF Reply
  <2>2. convo'.raw = Absent \/ convo'.raw = convo.raw
    BY <2>1
  <2> QED
    BY <2>2 DEF ConvoTexts
<1>2. ASSUME NEW raw \in RawOutputs, NEW ended \in BOOLEAN, Complete(raw, ended) PROVE ConvoTexts'
  <2>1. raw \in Text
    BY ChatAssumption DEF ChatAssumption
  <2>2. convo'.raw = raw \/ convo'.raw = convo.raw
    BY <1>2 DEF Complete
  <2> QED
    BY <2>1, <2>2 DEF ConvoTexts
<1>3. CASE UNCHANGED convo
  BY <1>3 DEF ConvoTexts
<1> QED
  BY <1>1, <1>2, <1>3 DEF ConvoNext

\* ParseStable: what parse_assistant_output reads out of any text, format_chat
\* writes so that content, reasoning, calls and arguments are found again where
\* they were, each value being what its text reads as once more, whatever texts
\* are valid JSON and however their values are encoded.
THEOREM ParsesStable == ConvoSpec => []ParseStable
<1>1. ConvoInit => ConvoTexts
  <2>1. ASSUME NEW o, convo = NewConvo(o.messages, o.options, Absent) PROVE ConvoTexts
    BY <2>1 DEF ConvoTexts, NewConvo
  <2>2. ASSUME NEW o, NEW raw \in Parsings, convo = NewConvo(<<>>, o.options, raw) PROVE ConvoTexts
    <3>1. convo.raw = raw
      BY <2>2 DEF NewConvo
    <3>2. raw \in Text
      BY ChatAssumption DEF ChatAssumption
    <3> QED
      BY <3>1, <3>2 DEF ConvoTexts
  <2> QED
    BY <2>1, <2>2 DEF ConvoInit
<1>2. ConvoTexts => ParseStable
  <2> DEFINE effort == convo.options.effort
             m == ParseAssistant(convo.raw, effort).value
             again == ParseAssistant(Rewritten(m), effort)
  <2>1. SUFFICES ASSUME ConvoTexts, convo.raw # Absent, ParseAssistant(convo.raw, effort).ok,
                        WellEnclosed(m.calls)
                 PROVE  again.ok /\ again.value.content = m.content /\ again.value.calls = Reread(m.calls)
                        /\ Thought(again.value) = Thought(m)
    BY DEF ParseStable, SameAnswer
  <2>2. FineAnswer(m)
    <3>1. convo.raw \in Text
      BY <2>1 DEF ConvoTexts
    <3> HIDE DEF effort
    <3> QED
      BY <2>1, <3>1, ParsedFine
  <2> HIDE DEF m, effort
  <2>3. again = ParsedAs(AssistantMessage(m.content, Thought(m), Reread(m.calls)))
    BY <2>1, <2>2, Reparsed
  <2> HIDE DEF again
  <2>4. /\ again.ok /\ again.value.content = m.content /\ again.value.calls = Reread(m.calls)
        /\ again.value.reasoning = Thought(m)
    BY <2>3 DEF ParsedAs, AssistantMessage
  <2>5. Thought(again.value) = Thought(m)
    <3>1. Thought(m) # Absent
      <4>1. Absent \notin Text
        <5>1. ASSUME Absent \in Text PROVE FALSE
          <6>1. Absent[1] \in Pieces
            <7>1. Len(Absent) = 1
              BY DEF Absent
            <7> QED
              BY <5>1, <7>1, ElementOfSeq DEF Text
          <6>2. Absent[1] = "absent"
            BY DEF Absent
          <6> QED
            BY <6>1, <6>2, ChatAssumption DEF ChatAssumption
        <5> QED
          BY <5>1
      <4> QED
        BY <2>2, <4>1 DEF FineAnswer
    <3> QED
      BY <2>4, <3>1 DEF Thought
  <2> QED
    BY <2>4, <2>5
<1> QED
  BY <1>1, <1>2, ConvoNextTexts, PTL DEF ConvoSpec
=============================================================================
