--------------------------- MODULE Storage_proofs ---------------------------
(***************************************************************************)
(* Proofs about the components that keep files.  PrepareCommit: however    *)
(* many runs follow one another, whatever fails and wherever they die, a   *)
(* sidecar pair is never mixed and never lost.  SessionFiles: whatever the *)
(* number of processes, the sizes and limits, and wherever processes and   *)
(* the machine stop, session and heat files are whole and only whole files *)
(* are imported.  KvCache: for every capacity, page size, set of layers    *)
(* and batch bound the paged cache implements the log of KvLog.  Then the  *)
(* three side by side.                                                     *)
(***************************************************************************)
EXTENDS MCStorage, SequenceTheorems, FiniteSetTheorems, TLAPS

(***************************************************************************)
(* KvCache                                                                 *)
(***************************************************************************)

-----------------------------------------------------------------------------
(* Tokens, pages and slots. *)

LEMMA TimesCommutes == \A a, b \in Int : a * b = b * a
OBVIOUS

LEMMA TimesMonotone ==
    ASSUME NEW a \in Nat, NEW b \in Nat, NEW n \in Nat, a <= b
    PROVE  a * n <= b * n
OBVIOUS

\* A token is the slot of its page.
LEMMA TokenPlace ==
    ASSUME NEW token \in Nat
    PROVE  /\ PageOf(token) \in Nat /\ SlotOf(token) \in SlotIds
           /\ PageOf(token) * PageTokens + SlotOf(token) = token
           /\ TokenAt(PageOf(token), SlotOf(token)) = token
<1>1. PageTokens \in Nat /\ PageTokens > 0
    BY KvAssumption
<1>2. token \div PageTokens \in Nat /\ token % PageTokens \in 0..(PageTokens - 1)
    BY <1>1
<1>3. token % PageTokens = token - PageTokens * (token \div PageTokens)
    BY <1>1
<1> DEFINE page == token \div PageTokens
           slot == token % PageTokens
<1>4. page * PageTokens + slot = token
  <2>1. page \in Nat /\ slot \in Nat /\ slot = token - PageTokens * page
      BY <1>1, <1>2, <1>3
  <2> HIDE DEF page, slot
  <2>2. PageTokens * page = page * PageTokens
      BY <1>1, <2>1, TimesCommutes
  <2>3. page * PageTokens \in Nat
      BY <1>1, <2>1
  <2> QED
      BY <2>1, <2>2, <2>3
<1> QED
    BY <1>2, <1>4 DEF PageOf, SlotOf, SlotIds, TokenAt

\* Tokens after another are on its page or a later one.
LEMMA PagesInOrder ==
    ASSUME NEW a \in Nat, NEW b \in Nat, a <= b
    PROVE  PageOf(a) <= PageOf(b)
<1>1. PageTokens \in Nat /\ PageTokens > 0
    BY KvAssumption
<1>2. /\ PageOf(a) \in Nat /\ SlotOf(a) \in SlotIds /\ PageOf(a) * PageTokens + SlotOf(a) = a
      /\ PageOf(b) \in Nat /\ SlotOf(b) \in SlotIds /\ PageOf(b) * PageTokens + SlotOf(b) = b
    BY TokenPlace
<1>3. SUFFICES ASSUME PageOf(b) + 1 <= PageOf(a) PROVE FALSE
    BY <1>2
<1>4. (PageOf(b) + 1) * PageTokens <= PageOf(a) * PageTokens
    BY <1>1, <1>2, <1>3, TimesMonotone
<1>5. (PageOf(b) + 1) * PageTokens = PageOf(b) * PageTokens + PageTokens
    BY <1>1, <1>2
<1> QED
    BY <1>1, <1>2, <1>4, <1>5 DEF SlotIds

\* The page table covers the capacity.
LEMMA PagesSuffice ==
    ASSUME NEW token \in Nat, token < TokenCapacity
    PROVE  PageOf(token) \in PageIds
<1>1. PageTokens \in Nat /\ PageTokens > 0 /\ TokenCapacity \in Nat
    BY KvAssumption
<1>2. PageOf(token + PageTokens) <= PageCount
  <2>1. PageOf(token + PageTokens) <= PageOf(TokenCapacity + PageTokens - 1)
      BY <1>1, PagesInOrder
  <2> QED
      BY <2>1 DEF PageOf, PageCount
<1>3. PageOf(token) + 1 <= PageOf(token + PageTokens)
  <2> DEFINE next == PageOf(token + PageTokens)
             here == PageOf(token)
  <2>1. /\ here \in Nat /\ SlotOf(token) \in SlotIds /\ here * PageTokens + SlotOf(token) = token
        /\ next \in Nat /\ SlotOf(token + PageTokens) \in SlotIds
        /\ next * PageTokens + SlotOf(token + PageTokens) = token + PageTokens
      BY <1>1, TokenPlace
  <2> HIDE DEF next, here
  <2>2. here + 1 <= next
    <3>1. SUFFICES ASSUME next <= here PROVE FALSE
        BY <2>1
    <3>2. next * PageTokens <= here * PageTokens
        BY <1>1, <2>1, <3>1, TimesMonotone
    <3> QED
        BY <1>1, <2>1, <3>2 DEF SlotIds
  <2> QED
      BY <2>2 DEF here, next
<1>4. PageOf(token) \in Nat /\ PageCount \in Int
    BY <1>1, TokenPlace DEF PageCount
<1>5. PageOf(token + PageTokens) \in Nat
    BY <1>1, TokenPlace
<1> QED
    BY <1>2, <1>3, <1>4, <1>5 DEF PageIds

-----------------------------------------------------------------------------
(* The invariant. *)

Slots == [SlotIds -> Rows \cup {Zero}]
Tables == [PageIds -> {NoPage} \cup Slots]

\* The first n tokens of a layer are on pages, with finite rows.
Holds(table, n) ==
    \A token \in 0..(n - 1) :
        table[PageOf(token)] # NoPage /\ table[PageOf(token)][SlotOf(token)] \in Rows

\* A snapshot nobody damaged holds logs that fit.
Fits(s) == s.rows \in [Layers -> Seq(Rows)] /\ \A l \in Layers : Len(s.rows[l]) <= TokenCapacity

\* Committed rows are backed: without it a reader of a committed token could find
\* no page, or the zero of a slot never written.
KvInv ==
    /\ lengths \in [Layers -> 0..TokenCapacity]
    /\ pages \in [Layers -> Tables]
    /\ \A l \in Layers : Holds(pages[l], lengths[l])
    /\ snapshot = {} \/ \E s : snapshot = {s}
    /\ \A s \in snapshot : s.intact => Fits(s)

LEMMA EmptyPageOK == EmptyPage \in Slots /\ NoPage \notin Slots
BY KvAssumption DEF EmptyPage, Slots, SlotIds

\* What ensure_pages and the copy of append_tokens make of a page table.
LEMMA WrittenTable ==
    ASSUME NEW table \in Tables, NEW stored \in Nat, NEW rows \in Seq(Rows), rows # <<>>,
           stored + Len(rows) <= TokenCapacity, Holds(table, stored)
    PROVE  /\ Written(table, stored, rows) \in Tables
           /\ \A token \in 0..(stored + Len(rows) - 1) :
                 /\ Written(table, stored, rows)[PageOf(token)] # NoPage
                 /\ Written(table, stored, rows)[PageOf(token)][SlotOf(token)] =
                       IF token < stored THEN table[PageOf(token)][SlotOf(token)]
                       ELSE rows[token - stored + 1]
<1> DEFINE end == stored + Len(rows)
           page(p) == PageEnsured(table, p, stored, end)
           slot(p, i) == SlotWritten(page(p), p, i, stored, rows)
           after == Written(table, stored, rows)
<1>1. Len(rows) \in Nat \ {0} /\ end \in Nat /\ PageTokens \in Nat \ {0} /\ TokenCapacity \in Nat
    BY EmptySeq, KvAssumption
<1>2. \A k \in 1..Len(rows) : rows[k] \in Rows
    BY ElementOfSeq
<1>3. after = [p \in PageIds |-> IF page(p) = NoPage THEN NoPage ELSE [i \in SlotIds |-> slot(p, i)]]
    BY DEF Written
<1>4. PageIds \subseteq Nat
    BY DEF PageIds
<1>5. \A p \in PageIds : page(p) = NoPage \/ page(p) \in Slots
    BY EmptyPageOK DEF Tables, PageEnsured
<1>6. ASSUME NEW p \in PageIds, page(p) # NoPage, NEW i \in SlotIds
      PROVE  slot(p, i) \in Rows \cup {Zero}
  <2>1. page(p)[i] \in Rows \cup {Zero}
      BY <1>5, <1>6 DEF Slots
  <2>2. CASE TokenAt(p, i) \in stored..(end - 1)
    <3>1. TokenAt(p, i) - stored + 1 \in 1..Len(rows)
        BY <1>1, <2>2
    <3>2. rows[TokenAt(p, i) - stored + 1] \in Rows
        BY <1>2, <3>1
    <3> QED
        BY <2>2, <3>2 DEF SlotWritten
  <2> QED
      BY <2>1, <2>2 DEF SlotWritten
<1>7. after \in Tables
    BY <1>3, <1>6 DEF Tables, Slots
<1>8. ASSUME NEW token \in 0..(end - 1)
      PROVE  /\ after[PageOf(token)] # NoPage
             /\ after[PageOf(token)][SlotOf(token)] =
                   IF token < stored THEN table[PageOf(token)][SlotOf(token)]
                   ELSE rows[token - stored + 1]
  <2> DEFINE p == PageOf(token)
             i == SlotOf(token)
  <2>1. token \in Nat /\ token < TokenCapacity
      BY <1>1
  <2>2. p \in PageIds /\ i \in SlotIds /\ TokenAt(p, i) = token
      BY <2>1, TokenPlace, PagesSuffice
  <2>3. page(p) # NoPage
    <3>1. CASE token < stored
        BY <2>1, <3>1 DEF Holds, PageEnsured
    <3>2. CASE token >= stored
      <4>1. end - 1 \in Nat /\ stored <= token /\ token <= end - 1
          BY <1>1, <3>2
      <4>2. PageOf(stored) <= p /\ p <= PageOf(end - 1)
          BY <2>1, <4>1, PagesInOrder
      <4>3. PageOf(stored) \in Nat /\ PageOf(end - 1) \in Nat /\ p \in Nat
          BY <2>1, <4>1, TokenPlace
      <4>4. p \in EnsuredPages(stored, end)
          BY <4>2, <4>3 DEF EnsuredPages
      <4> QED
          BY <4>4, EmptyPageOK DEF PageEnsured
    <3> QED
        BY <2>1, <3>1, <3>2
  <2>4. after[p] = [j \in SlotIds |-> slot(p, j)]
      BY <1>3, <2>2, <2>3
  <2>5. after[p][i] = slot(p, i) /\ after[p] # NoPage
    <3>1. after[p] \in Slots
        BY <1>6, <2>2, <2>3, <2>4 DEF Slots
    <3> QED
        BY <2>2, <2>4, <3>1, EmptyPageOK
  <2>6. CASE token < stored
    <3>1. table[p] # NoPage /\ page(p) = table[p]
        BY <2>1, <2>6 DEF Holds, PageEnsured
    <3> QED
        BY <1>1, <2>2, <2>5, <2>6, <3>1 DEF SlotWritten
  <2>7. CASE token >= stored
    <3>1. token \in stored..(end - 1) /\ ~(token < stored)
        BY <1>1, <2>1, <2>7
    <3>2. slot(p, i) = rows[token - stored + 1]
        BY <2>2, <3>1 DEF SlotWritten
    <3> QED
        BY <2>5, <3>1, <3>2
  <2> QED
      BY <2>1, <2>5, <2>6, <2>7
<1> QED
    BY <1>7, <1>8

-----------------------------------------------------------------------------
(* The rows a reader sees in a page table of which n tokens are committed. *)

Visible(table, n) ==
    [i \in 1..n |-> IF table[PageOf(i - 1)] = NoPage THEN NoPage
                    ELSE table[PageOf(i - 1)][SlotOf(i - 1)]]

LEMMA CommittedVisible ==
    ASSUME NEW l \in Layers
    PROVE  /\ Committed(l) = Visible(pages[l], lengths[l])
           /\ Committed(l)' = Visible(pages'[l], lengths'[l])
BY DEF Committed, Row, Visible

LEMMA VisibleRows ==
    ASSUME NEW table, NEW n \in Nat, Holds(table, n)
    PROVE  /\ Visible(table, n) \in Seq(Rows)
           /\ Len(Visible(table, n)) = n
           /\ \A i \in 1..n : Visible(table, n)[i] = table[PageOf(i - 1)][SlotOf(i - 1)]
<1>1. \A i \in 1..n : i - 1 \in 0..(n - 1)
    OBVIOUS
<1>2. \A i \in 1..n : /\ table[PageOf(i - 1)] # NoPage
                      /\ table[PageOf(i - 1)][SlotOf(i - 1)] \in Rows
    BY <1>1 DEF Holds
<1>3. Visible(table, n) \in [1..n -> Rows]
    BY <1>2 DEF Visible
<1>4. \A i \in 1..n : Visible(table, n)[i] = table[PageOf(i - 1)][SlotOf(i - 1)]
    BY <1>2 DEF Visible
<1> HIDE DEF Visible
<1>5. Visible(table, n) \in Seq(Rows)
    BY <1>3, SeqDef
<1>6. Len(Visible(table, n)) = n
    BY <1>3, <1>5, LenProperties
<1> QED
    BY <1>4, <1>5, <1>6

\* Writing rows after the stored tokens appends them to what is visible, on old
\* and on new pages.
LEMMA WrittenAppends ==
    ASSUME NEW table \in Tables, NEW stored \in Nat, NEW rows \in Seq(Rows), rows # <<>>,
           stored + Len(rows) <= TokenCapacity, Holds(table, stored)
    PROVE  /\ Written(table, stored, rows) \in Tables
           /\ Holds(Written(table, stored, rows), stored + Len(rows))
           /\ Visible(Written(table, stored, rows), stored + Len(rows)) = Visible(table, stored) \o rows
<1> DEFINE end == stored + Len(rows)
           after == Written(table, stored, rows)
<1>1. Len(rows) \in Nat /\ end \in Nat
    BY EmptySeq
<1>2. \A k \in 1..Len(rows) : rows[k] \in Rows
    BY ElementOfSeq
<1>3. /\ after \in Tables
      /\ \A token \in 0..(end - 1) :
            /\ after[PageOf(token)] # NoPage
            /\ after[PageOf(token)][SlotOf(token)] =
                  IF token < stored THEN table[PageOf(token)][SlotOf(token)]
                  ELSE rows[token - stored + 1]
    BY WrittenTable
<1> HIDE DEF after
<1>4. Holds(after, end)
  <2>1. ASSUME NEW token \in 0..(end - 1) PROVE after[PageOf(token)][SlotOf(token)] \in Rows
    <3>1. CASE token < stored
        BY <1>3, <3>1 DEF Holds
    <3>2. CASE ~(token < stored)
      <4>1. token - stored + 1 \in 1..Len(rows)
          BY <1>1, <3>2
      <4> QED
          BY <1>2, <1>3, <3>2, <4>1
    <3> QED
        BY <3>1, <3>2
  <2> QED
      BY <1>3, <2>1 DEF Holds
<1>5. /\ Visible(after, end) \in Seq(Rows) /\ Len(Visible(after, end)) = end
      /\ \A i \in 1..end : Visible(after, end)[i] = after[PageOf(i - 1)][SlotOf(i - 1)]
    BY <1>1, <1>4, VisibleRows
<1>6. /\ Visible(table, stored) \in Seq(Rows) /\ Len(Visible(table, stored)) = stored
      /\ \A i \in 1..stored : Visible(table, stored)[i] = table[PageOf(i - 1)][SlotOf(i - 1)]
    BY VisibleRows
<1> DEFINE both == Visible(table, stored) \o rows
<1>7. /\ both \in Seq(Rows) /\ Len(both) = end
      /\ \A i \in 1..end : both[i] = IF i <= stored THEN Visible(table, stored)[i] ELSE rows[i - stored]
  <2> DEFINE seen == Visible(table, stored)
  <2>1. seen \in Seq(Rows) /\ Len(seen) = stored
      BY <1>6
  <2> HIDE DEF seen
  <2>2. /\ seen \o rows \in Seq(Rows) /\ Len(seen \o rows) = Len(seen) + Len(rows)
        /\ \A i \in 1..(Len(seen) + Len(rows)) :
              (seen \o rows)[i] = IF i <= Len(seen) THEN seen[i] ELSE rows[i - Len(seen)]
      BY <2>1, ConcatProperties
  <2> QED
      BY <2>1, <2>2 DEF seen
<1> HIDE DEF both
<1>8. ASSUME NEW i \in 1..end PROVE Visible(after, end)[i] = both[i]
  <2>1. i - 1 \in 0..(end - 1)
      BY <1>1
  <2>2. CASE i <= stored
    <3>1. i - 1 < stored /\ i \in 1..stored
        BY <1>1, <2>2
    <3> QED
        BY <1>3, <1>5, <1>6, <1>7, <2>1, <2>2, <3>1
  <2>3. CASE ~(i <= stored)
    <3>1. ~(i - 1 < stored) /\ (i - 1) - stored + 1 = i - stored
        BY <1>1, <2>3
    <3> QED
        BY <1>3, <1>5, <1>7, <2>1, <2>3, <3>1
  <2> QED
      BY <2>2, <2>3
<1>9. Visible(after, end) = both
    BY <1>5, <1>7, <1>8, SeqEqual
<1> QED
    BY <1>3, <1>4, <1>9 DEF after, both

\* Fewer committed tokens show a prefix, whatever the pages still hold.
LEMMA VisiblePrefix ==
    ASSUME NEW table, NEW m \in Nat, NEW n \in 0..m, Holds(table, m)
    PROVE  Holds(table, n) /\ Visible(table, n) = SubSeq(Visible(table, m), 1, n)
<1>1. Holds(table, n)
    BY DEF Holds
<1>2. /\ Visible(table, m) \in Seq(Rows) /\ Len(Visible(table, m)) = m
      /\ \A i \in 1..m : Visible(table, m)[i] = table[PageOf(i - 1)][SlotOf(i - 1)]
    BY VisibleRows
<1>3. /\ Visible(table, n) \in Seq(Rows) /\ Len(Visible(table, n)) = n
      /\ \A i \in 1..n : Visible(table, n)[i] = table[PageOf(i - 1)][SlotOf(i - 1)]
    BY <1>1, VisibleRows
<1> DEFINE prefix == SubSeq(Visible(table, m), 1, n)
<1>4. \A i \in 1..n : Visible(table, m)[i] \in Rows
    BY <1>2, ElementOfSeq
<1>5. /\ prefix \in Seq(Rows) /\ Len(prefix) = n
      /\ \A i \in 1..n : prefix[i] = Visible(table, m)[i]
  <2>1. prefix \in Seq(Rows) /\ Len(prefix) = IF 1 <= n THEN n - 1 + 1 ELSE 0
      BY <1>4, SubSeqProperties
  <2>2. Len(prefix) = n
      BY <2>1
  <2>3. \A i \in 1..n : prefix[i] = Visible(table, m)[1 + i - 1]
      BY <1>4, <2>1, SubSeqProperties
  <2> QED
      BY <2>1, <2>2, <2>3
<1> HIDE DEF prefix
<1>6. Visible(table, n) = prefix
  <2>1. ASSUME NEW i \in 1..n PROVE Visible(table, n)[i] = prefix[i]
    <3>1. i \in 1..m
        OBVIOUS
    <3> QED
        BY <1>2, <1>3, <1>5, <3>1
  <2>2. Visible(table, n) \in Seq(Rows) /\ prefix \in Seq(Rows) /\ Len(Visible(table, n)) = Len(prefix)
      BY <1>3, <1>5
  <2>3. \A i \in 1..Len(Visible(table, n)) : Visible(table, n)[i] = prefix[i]
      BY <1>3, <2>1
  <2> QED
      BY <2>2, <2>3, SeqEqual
<1> QED
    BY <1>1, <1>6 DEF prefix

-----------------------------------------------------------------------------
(* The log the cache implements. *)

LogNow == [l \in Layers |-> Committed(l)]
SavedNow == {s.rows : s \in {x \in snapshot : x.intact}}

LEMMA LogLayer ==
    ASSUME KvInv, NEW l \in Layers
    PROVE  /\ LogNow[l] = Visible(pages[l], lengths[l])
           /\ LogNow[l] \in Seq(Rows) /\ Len(LogNow[l]) = lengths[l]
           /\ lengths[l] \in Nat /\ lengths[l] <= TokenCapacity
           /\ pages[l] \in Tables /\ Holds(pages[l], lengths[l])
<1>1. lengths[l] \in Nat /\ lengths[l] <= TokenCapacity /\ pages[l] \in Tables
      /\ Holds(pages[l], lengths[l])
    BY KvAssumption DEF KvInv
<1>2. LogNow[l] = Visible(pages[l], lengths[l])
    BY CommittedVisible DEF LogNow
<1> QED
    BY <1>1, <1>2, VisibleRows

LEMMA LogLayerNext ==
    ASSUME NEW l \in Layers
    PROVE  LogNow'[l] = Visible(pages'[l], lengths'[l])
BY CommittedVisible DEF LogNow

LEMMA InputsBatches ==
    ASSUME NEW rows \in Inputs, \A i \in DOMAIN rows : rows[i] # NonFinite
    PROVE  rows \in Log!Batches /\ rows \in Seq(Rows) /\ rows # <<>>
<1>1. PICK n \in 1..MaxBatch : rows \in [1..n -> Rows \cup {NonFinite}]
    BY DEF Inputs
<1>2. rows \in [1..n -> Rows]
    BY <1>1
<1>3. n \in Nat /\ n # 0
    BY KvAssumption
<1>4. rows \in Seq(Rows) /\ Len(rows) = n
    BY <1>2, <1>3, SeqDef, LenProperties
<1>5. rows # <<>>
    BY <1>3, <1>4, EmptySeq
<1> QED
    BY <1>2, <1>4, <1>5 DEF Log!Batches

\* append_tokens extends one layer's log.
LEMMA AppendStep ==
    ASSUME KvInv, NEW l \in Layers, NEW rows \in Inputs, Append_(l, rows)
    PROVE  KvInv' /\ Log!Extend(l)
<1>1. rows \in Log!Batches /\ rows \in Seq(Rows) /\ rows # <<>>
    BY InputsBatches DEF Append_
<1>2. /\ LogNow[l] = Visible(pages[l], lengths[l]) /\ lengths[l] \in Nat
      /\ pages[l] \in Tables /\ Holds(pages[l], lengths[l])
    BY LogLayer
<1>3. Len(rows) \in Nat /\ lengths[l] + Len(rows) \in 0..TokenCapacity
    BY <1>1, <1>2, EmptySeq, KvAssumption DEF Append_, HasRoom
<1>4. /\ pages' = [pages EXCEPT ![l] = Written(pages[l], lengths[l], rows)]
      /\ lengths' = [lengths EXCEPT ![l] = lengths[l] + Len(rows)]
      /\ snapshot' = snapshot
    BY DEF Append_
<1>5. /\ Written(pages[l], lengths[l], rows) \in Tables
      /\ Holds(Written(pages[l], lengths[l], rows), lengths[l] + Len(rows))
      /\ Visible(Written(pages[l], lengths[l], rows), lengths[l] + Len(rows)) = LogNow[l] \o rows
  <2>1. lengths[l] + Len(rows) <= TokenCapacity
      BY <1>3, KvAssumption
  <2> QED
      BY <1>1, <1>2, <2>1, WrittenAppends
<1>6. /\ pages' \in [Layers -> Tables] /\ lengths' \in [Layers -> 0..TokenCapacity]
      /\ pages'[l] = Written(pages[l], lengths[l], rows) /\ lengths'[l] = lengths[l] + Len(rows)
      /\ \A m \in Layers \ {l} : pages'[m] = pages[m] /\ lengths'[m] = lengths[m]
    BY <1>3, <1>4, <1>5 DEF KvInv
<1>7. KvInv'
    BY <1>4, <1>5, <1>6 DEF KvInv, Holds, Fits
<1>8. LogNow'[l] = LogNow[l] \o rows /\ \A m \in Layers \ {l} : LogNow'[m] = LogNow[m]
  <2>1. LogNow'[l] = LogNow[l] \o rows
      BY <1>5, <1>6, LogLayerNext
  <2>2. ASSUME NEW m \in Layers \ {l} PROVE LogNow'[m] = LogNow[m]
      BY <1>6, LogLayer, LogLayerNext
  <2> QED
      BY <2>1, <2>2
<1>9. Len(LogNow'[l]) <= TokenCapacity
    BY <1>1, <1>2, <1>3, <1>8, LogLayer, ConcatProperties
<1>10. SavedNow' = SavedNow
    BY <1>4 DEF SavedNow
<1> QED
    BY <1>1, <1>7, <1>8, <1>9, <1>10 DEF Log!Extend, LogNow, SavedNow

\* reset and rewind_all cut every layer to one length.
LEMMA TruncateStep ==
    ASSUME KvInv, NEW n \in 0..TokenCapacity, CanRewind(n),
           lengths' = [l \in Layers |-> n], UNCHANGED <<pages, snapshot>>
    PROVE  KvInv' /\ Log!Truncate(n)
<1>1. ASSUME NEW l \in Layers
      PROVE  /\ n <= Len(LogNow[l]) /\ lengths'[l] = n
             /\ LogNow'[l] = SubSeq(LogNow[l], 1, n)
             /\ Holds(pages'[l], n)
  <2>1. n \in 0..lengths[l] /\ lengths[l] \in Nat /\ Len(LogNow[l]) = lengths[l]
        /\ Holds(pages[l], lengths[l]) /\ LogNow[l] = Visible(pages[l], lengths[l])
      BY LogLayer DEF CanRewind
  <2>2. Holds(pages[l], n) /\ Visible(pages[l], n) = SubSeq(LogNow[l], 1, n)
      BY <2>1, VisiblePrefix
  <2> QED
      BY <2>1, <2>2, LogLayerNext
<1>2. KvInv'
  <2>1. lengths' \in [Layers -> 0..TokenCapacity]
        /\ \A l \in Layers : (Holds(pages[l], lengths[l]))'
      BY <1>1 DEF Holds
  <2> QED
      BY <2>1 DEF KvInv, Fits
<1>3. LogNow' = [l \in Layers |-> SubSeq(LogNow[l], 1, n)]
    BY <1>1 DEF LogNow
<1>4. SavedNow' = SavedNow
    BY DEF SavedNow
<1> QED
    BY <1>1, <1>2, <1>3, <1>4 DEF Log!Truncate, LogNow, SavedNow

LEMMA ResetStep ==
    ASSUME KvInv, Reset
    PROVE  KvInv' /\ Log!Truncate(0)
<1>1. CanRewind(0)
    BY LogLayer DEF CanRewind
<1>2. 0 \in 0..TokenCapacity
    BY KvAssumption
<1> QED
    BY <1>1, <1>2, TruncateStep DEF Reset

\* export_snapshot saves the logs as they are.
LEMMA ExportStep ==
    ASSUME KvInv, NEW b \in Bindings, ExportSnapshot(b)
    PROVE  KvInv' /\ Log!Save
<1> DEFINE s == [binding |-> b, rows |-> [l \in Layers |-> Committed(l)], intact |-> TRUE]
<1>1. snapshot' = {s} /\ UNCHANGED <<lengths, pages>>
    BY DEF ExportSnapshot
<1>2. s.rows = LogNow /\ s.intact
    BY DEF LogNow
<1> HIDE DEF s
<1>3. LogNow \in [Layers -> Seq(Rows)]
  <2>1. \A l \in Layers : LogNow[l] \in Seq(Rows)
      BY LogLayer
  <2> QED
      BY <2>1 DEF LogNow
<1>4. Fits(s)
    BY <1>2, <1>3, LogLayer DEF Fits
<1>5. KvInv'
    BY <1>1, <1>4 DEF KvInv, Holds, Fits
<1>6. SavedNow' = {LogNow}
    BY <1>1, <1>2 DEF SavedNow
<1>7. LogNow' = LogNow
    BY <1>1 DEF LogNow, Committed, Row
<1> QED
    BY <1>5, <1>6, <1>7 DEF Log!Save, LogNow, SavedNow

\* A damaged snapshot saves nothing.
LEMMA DamageStep ==
    ASSUME KvInv, NEW l \in Layers, Damage(l)
    PROVE  KvInv' /\ Log!Lose
<1> DEFINE Damaged(s) == [s EXCEPT !.rows = LosesNewest(s.rows, l), !.intact = FALSE]
<1>1. snapshot' = {Damaged(s) : s \in snapshot} /\ UNCHANGED <<lengths, pages>>
    BY DEF Damage
<1>2. PICK s : snapshot = {s}
    BY DEF KvInv, Damage
<1>3. snapshot' = {Damaged(s)}
    BY <1>1, <1>2
<1>4. ~Damaged(s).intact
    OBVIOUS
<1> HIDE DEF Damaged
<1>5. KvInv'
    BY <1>1, <1>3, <1>4 DEF KvInv, Holds, Fits
<1>6. SavedNow' = {} /\ LogNow' = LogNow
    BY <1>1, <1>3, <1>4 DEF SavedNow, LogNow, Committed, Row
<1> QED
    BY <1>5, <1>6 DEF Log!Lose, LogNow, SavedNow

\* restore_snapshot rebuilds the pages from the rows of an intact snapshot.
LEMMA RestoreStep ==
    ASSUME KvInv, NEW b \in Bindings, NEW uniform \in BOOLEAN, RestoreSnapshot(b, uniform)
    PROVE  KvInv' /\ Log!Restore
<1>1. PICK s \in snapshot :
          /\ s.intact
          /\ lengths' = [l \in Layers |-> Len(s.rows[l])]
          /\ pages' = [l \in Layers |-> IF s.rows[l] = <<>> THEN NoPages[l]
                                        ELSE Written(NoPages[l], 0, s.rows[l])]
          /\ snapshot' = snapshot
    BY DEF RestoreSnapshot, Restorable
<1>2. s.rows \in [Layers -> Seq(Rows)] /\ \A l \in Layers : Len(s.rows[l]) <= TokenCapacity
    BY <1>1 DEF KvInv, Fits
<1>3. ASSUME NEW l \in Layers
      PROVE  /\ pages'[l] \in Tables /\ lengths'[l] \in 0..TokenCapacity
             /\ Holds(pages'[l], lengths'[l]) /\ LogNow'[l] = s.rows[l]
  <2> DEFINE rows == s.rows[l]
             none == NoPages[l]
  <2>1. rows \in Seq(Rows) /\ Len(rows) \in 0..TokenCapacity /\ 0 + Len(rows) = Len(rows)
      BY <1>2, LenProperties, KvAssumption
  <2>2. none \in Tables /\ Holds(none, 0)
      BY DEF NoPages, Tables, Holds
  <2>3. lengths'[l] = Len(rows) /\ LogNow'[l] = Visible(pages'[l], lengths'[l])
        /\ pages'[l] = IF rows = <<>> THEN none ELSE Written(none, 0, rows)
      BY <1>1, LogLayerNext
  <2>4. Visible(none, 0) = <<>>
    <3>1. Visible(none, 0) \in Seq(Rows) /\ Len(Visible(none, 0)) = 0
        BY <2>2, VisibleRows
    <3> QED
        BY <3>1, EmptySeq
  <2> HIDE DEF rows, none
  <2>5. CASE rows = <<>>
      BY <2>1, <2>2, <2>3, <2>4, <2>5, EmptySeq DEF rows
  <2>6. CASE rows # <<>>
    <3>1. /\ Written(none, 0, rows) \in Tables /\ Holds(Written(none, 0, rows), Len(rows))
          /\ Visible(Written(none, 0, rows), Len(rows)) = <<>> \o rows
      <4>1. 0 \in Nat /\ 0 + Len(rows) <= TokenCapacity
          BY <2>1, KvAssumption
      <4> QED
          BY <2>1, <2>2, <2>4, <2>6, <4>1, WrittenAppends
    <3>2. <<>> \o rows = rows
        BY <2>1, ConcatEmptySeq
    <3> QED
        BY <2>1, <2>3, <2>6, <3>1, <3>2 DEF rows
  <2> QED
      BY <2>5, <2>6 DEF rows
<1>4. KvInv'
  <2>1. pages' \in [Layers -> Tables] /\ lengths' \in [Layers -> 0..TokenCapacity]
      BY <1>1, <1>3
  <2>2. \A l \in Layers : (Holds(pages[l], lengths[l]))'
      BY <1>3 DEF Holds
  <2> QED
      BY <1>1, <2>1, <2>2 DEF KvInv, Fits
<1>5. LogNow' = s.rows
    BY <1>2, <1>3 DEF LogNow
<1>6. s.rows \in SavedNow /\ SavedNow' = SavedNow
    BY <1>1 DEF SavedNow
<1> QED
    BY <1>4, <1>5, <1>6 DEF Log!Restore, LogNow, SavedNow

-----------------------------------------------------------------------------
LEMMA KvInitInv == KvInit => KvInv /\ Log!LogInit
<1> SUFFICES ASSUME KvInit PROVE KvInv /\ Log!LogInit
    OBVIOUS
<1>1. [p \in PageIds |-> EmptyPage] \in Tables
    BY EmptyPageOK DEF Tables
<1>2. \A l \in Layers : NoPages[l] \in Tables
    BY DEF NoPages, Tables
<1>3. pages \in [Layers -> Tables]
    BY <1>1, <1>2 DEF KvInit, NoPages
<1>4. KvInv
    BY <1>3, KvAssumption DEF KvInit, KvInv, Holds
<1>5. LogNow = [l \in Layers |-> <<>>]
  <2>1. ASSUME NEW l \in Layers PROVE LogNow[l] = <<>>
    <3>1. LogNow[l] \in Seq(Rows) /\ Len(LogNow[l]) = 0
        BY <1>4, LogLayer DEF KvInit
    <3> QED
        BY <3>1, EmptySeq
  <2> QED
      BY <2>1 DEF LogNow
<1>6. SavedNow = {}
    BY DEF SavedNow, KvInit
<1> QED
    BY <1>4, <1>5, <1>6 DEF Log!LogInit, LogNow, SavedNow

LEMMA KvStep ==
    KvInv /\ [KvNext]_kvVars => KvInv' /\ [Log!LogNext]_<<LogNow, SavedNow>>
<1> SUFFICES ASSUME KvInv, [KvNext]_kvVars
             PROVE  KvInv' /\ (Log!LogNext \/ UNCHANGED <<LogNow, SavedNow>>)
    OBVIOUS
<1>1. CASE \E l \in Layers, rows \in Inputs : Append_(l, rows)
    BY <1>1, AppendStep DEF Log!LogNext
<1>2. CASE Reset
  <2>1. 0 \in 0..TokenCapacity
      BY KvAssumption
  <2> QED
      BY <1>2, <2>1, ResetStep DEF Log!LogNext
<1>3. CASE \E n \in 0..TokenCapacity : RewindAll(n)
    BY <1>3, TruncateStep DEF RewindAll, Log!LogNext
<1>4. CASE \E b \in Bindings : ExportSnapshot(b)
    BY <1>4, ExportStep DEF Log!LogNext
<1>5. CASE \E l \in Layers : Damage(l)
    BY <1>5, DamageStep DEF Log!LogNext
<1>6. CASE \E b \in Bindings, uniform \in BOOLEAN : RestoreSnapshot(b, uniform)
    BY <1>6, RestoreStep DEF Log!LogNext
<1>7. CASE UNCHANGED kvVars
    BY <1>7 DEF kvVars, KvInv, Holds, Fits, LogNow, SavedNow, Committed, Row
<1> QED
    BY <1>1, <1>2, <1>3, <1>4, <1>5, <1>6, <1>7 DEF KvNext

LEMMA KvInvariant == KvSpec => []KvInv
BY KvInitInv, KvStep, PTL DEF KvSpec

\* The invariant bounds lengths and holds the rows of every page.
LEMMA KvTyped == KvInv => KvTypeOK
<1>1. SUFFICES ASSUME KvInv PROVE KvTypeOK
    OBVIOUS
<1>2. Cardinality(snapshot) \in {0, 1}
  <2>1. CASE snapshot = {}
      BY <2>1, FS_EmptySet
  <2>2. CASE \E s : snapshot = {s}
      BY <2>2, FS_Singleton, Zenon
  <2> QED
      BY <1>1, <2>1, <2>2 DEF KvInv
<1>3. Cardinality(snapshot) <= 1
    BY <1>2
<1>4. \A l \in Layers : \A p \in PageIds :
          pages[l][p] = NoPage \/ pages[l][p] \in [SlotIds -> Rows \cup {Zero}]
  <2>1. \A l \in Layers : pages[l] \in Tables
      BY <1>1 DEF KvInv
  <2> QED
      BY <2>1 DEF Tables, Slots
<1>5. lengths \in [Layers -> 0..TokenCapacity]
    BY <1>1 DEF KvInv
<1> QED
    BY <1>3, <1>4, <1>5 DEF KvTypeOK

\* Lengths never pass the capacity, pages hold finite rows or zeros, and there is
\* at most one snapshot: what the checks of append_tokens and restore_snapshot
\* are for.
THEOREM KvTypes == KvSpec => []KvTypeOK
BY KvTyped, KvInvariant, PTL

\* PagedKvCache implements the log: appends extend one layer, rewinds cut all
\* layers to one length, a restore brings back exactly what was exported, and
\* the rows that rewinds leave in the pages never resurface.
THEOREM CacheImplementsLog == KvSpec => ImplementsLog
<1>1. KvInv /\ [KvNext]_kvVars => [Log!LogNext]_<<[l \in Layers |-> Committed(l)],
                                                 {s.rows : s \in {x \in snapshot : x.intact}}>>
    BY KvStep DEF LogNow, SavedNow
<1>2. KvInit => Log!LogInit
    BY KvInitInv
<1> QED
    BY <1>1, <1>2, KvInvariant, PTL DEF KvSpec, ImplementsLog, Log!LogSpec

(***************************************************************************)
(* PrepareCommit                                                           *)
(***************************************************************************)

Same(f, g) == f["data"] = g["data"] /\ f["manifest"] = g["manifest"]
Empty(f) == f["data"] = None /\ f["manifest"] = None
Unmixed(f) == f["data"] # None /\ f["manifest"] # None => f["data"] = f["manifest"]
AllUndone == \A q \in Runs : undone[q]

\* One run at a time: the runs before one that started have ended.
Ordered == \A r \in Runs : pc[r] # "idle" => \A q \in 1..(r - 1) : pc[q] \in Final \ {"idle"}

Early == {"write", "writeManifest", "verify", "backupData"}

\* Where the old pair is at each stage of a run that has not ended.
OldPair(r) ==
    /\ pc[r] \in {"idle"} \cup Early => Empty(backup[r])
    /\ pc[r] \in Early => Same(live, before[r])
    /\ pc[r] \in Early \cup {"backupManifest"} /\ ~overwrite[r] => Empty(before[r])
    /\ pc[r] \in {"backupManifest", "restoreDataOnly"} =>
          /\ live["data"] = None /\ live["manifest"] = before[r]["manifest"]
          /\ backup[r]["data"] = before[r]["data"] /\ backup[r]["manifest"] = None
    /\ pc[r] \in {"commitData", "commitManifest", "removeData", "restoreData"} =>
          Same(backup[r], before[r])
    /\ pc[r] \in {"commitData", "commitManifest", "removeData", "restoreData", "restoreManifest"} =>
          live["manifest"] = None
    /\ pc[r] = "commitData" => live["data"] = None
    /\ pc[r] \in {"commitManifest", "removeData"} => live["data"] = r
    /\ pc[r] = "restoreData" => live["data"] \in {None, r} /\ (undone[r] => live["data"] = None)
    /\ pc[r] = "restoreManifest" =>
          /\ backup[r]["manifest"] = before[r]["manifest"]
          /\ undone[r] => live["data"] = before[r]["data"]
    /\ pc[r] = "dropTemps" /\ undone[r] => Same(live, before[r])

\* Where the new pair is.
NewPair(r) ==
    /\ pc[r] = "writeManifest" => temp[r]["data"] = r
    /\ pc[r] \in {"verify", "backupData", "backupManifest", "commitData"} =>
          temp[r]["data"] = r /\ temp[r]["manifest"] = r
    /\ pc[r] = "commitManifest" => temp[r]["manifest"] = r
    /\ pc[r] \in {"cleanData", "cleanManifest"} =>
          live["data"] = r /\ live["manifest"] = r /\ current = r
    /\ pc[r] \notin {"cleanData", "cleanManifest", "ok", "crashed"} => current # r

RunOK(r) ==
    /\ OldPair(r) /\ NewPair(r)
    /\ pc[r] = "idle" => undone[r]
    /\ pc[r] \notin Final /\ AllUndone => Unmixed(before[r])

\* NothingLost is not inductive alone: a rename onto a target or a backup loses
\* nothing only because at that stage nothing, or nothing of the last complete
\* pair, is there.
CommitInv ==
    /\ CommitTypeOK /\ Ordered
    /\ \A r \in Runs : RunOK(r)
    /\ PairNeverMixed /\ NothingLost

LEMMA PairUnmixed == PairNeverMixed <=> (AllUndone => Unmixed(live))
BY DEF PairNeverMixed, AllUndone, Unmixed, Exists, Names

LEMMA OthersEnded ==
    ASSUME CommitInv, NEW r \in Runs,
           pc[r] \notin Final \/ (pc[r] = "idle" /\ \A q \in 1..(r - 1) : pc[q] \in Final \ {"idle"})
    PROVE  \A q \in Runs \ {r} : pc[q] \in Final
<1> SUFFICES ASSUME NEW q \in Runs \ {r} PROVE pc[q] \in Final
    OBVIOUS
<1>1. r \in Int /\ q \in Int /\ 1 <= q /\ 1 <= r
    BY DEF Runs
<1>2. CASE q < r
  <2>1. q \in 1..(r - 1)
      BY <1>1, <1>2
  <2> QED
      BY <2>1 DEF CommitInv, Ordered, Final
<1>3. CASE r < q
  <2>1. r \in 1..(q - 1)
      BY <1>1, <1>3
  <2>2. pc[q] = "idle"
      BY <2>1 DEF CommitInv, Ordered
  <2> QED
      BY <2>2 DEF Final
<1> QED
    BY <1>1, <1>2, <1>3

\* A run's step leaves the records of the others alone.
Alone(r) ==
    \A q \in Runs \ {r} :
        /\ pc'[q] = pc[q] /\ backup'[q] = backup[q] /\ temp'[q] = temp[q]
        /\ undone'[q] = undone[q] /\ before'[q] = before[q] /\ overwrite'[q] = overwrite[q]

LEMMA RunStep ==
    ASSUME CommitInv, NEW r \in Runs, Alone(r),
           pc[r] \notin Final \/ (pc[r] = "idle" /\ \A q \in 1..(r - 1) : pc[q] \in Final \ {"idle"}),
           pc'[r] # "idle", current' \in {current, r},
           CommitTypeOK', RunOK(r)', PairNeverMixed', NothingLost'
    PROVE  CommitInv'
<1>1. \A q \in Runs \ {r} : pc[q] \in Final /\ pc'[q] = pc[q]
    BY OthersEnded DEF Alone
<1>2. ASSUME NEW q \in Runs \ {r} PROVE RunOK(q)'
  <2>1. RunOK(q)
      BY DEF CommitInv
  <2>2. /\ pc'[q] = pc[q] /\ backup'[q] = backup[q] /\ undone'[q] = undone[q] /\ pc[q] \in Final
      BY <1>1 DEF Alone
  <2> QED
      BY <2>1, <2>2 DEF RunOK, OldPair, NewPair, Final, Early, Empty
<1>3. Ordered'
  <2>1. ASSUME NEW s \in Runs, pc'[s] # "idle", NEW q \in 1..(s - 1) PROVE pc'[q] \in Final \ {"idle"}
    <3>1. q \in Runs /\ q \in Int /\ s \in Int /\ r \in Int /\ q < s
        BY CommitAssumption DEF Runs
    <3>2. CASE s = r
      <4>1. q \in Runs \ {r} /\ q \in 1..(r - 1)
          BY <3>1, <3>2
      <4>2. pc[q] \in Final \ {"idle"}
          BY <4>1 DEF CommitInv, Ordered, Final
      <4> QED
          BY <1>1, <4>1, <4>2
    <3>3. CASE s # r
      <4>1. pc[s] # "idle"
          BY <1>1, <2>1, <3>3
      <4>2. pc[q] \in Final \ {"idle"}
          BY <4>1 DEF CommitInv, Ordered
      <4>3. q # r
        <5>1. SUFFICES ASSUME q = r PROVE FALSE
            OBVIOUS
        <5> QED
            BY <4>2, <5>1
      <4> QED
          BY <1>1, <3>1, <4>2, <4>3
    <3> QED
        BY <3>2, <3>3
  <2> QED
      BY <2>1 DEF Ordered
<1> QED
    BY <1>2, <1>3 DEF CommitInv

\* A step that keeps the last complete pair where it is, or moves a file of it
\* between its target and the run's backup, loses nothing.
LEMMA Kept ==
    ASSUME CommitInv, NEW r \in Runs, Alone(r), current' = current,
           \A n \in Names : live[n] = current \/ backup[r][n] = current =>
                            current = None \/ live'[n] = current \/ backup'[r][n] = current
    PROVE  NothingLost'
<1> SUFFICES ASSUME current # None, NEW n \in Names
             PROVE  live'[n] = current \/ \E q \in Runs : backup'[q][n] = current
    BY DEF NothingLost
<1>1. live[n] = current \/ \E q \in Runs : backup[q][n] = current
    BY DEF CommitInv, NothingLost
<1>2. CASE live[n] = current \/ backup[r][n] = current
    BY <1>2
<1>3. CASE \E q \in Runs \ {r} : backup[q][n] = current
    BY <1>3 DEF Alone
<1> QED
    BY <1>1, <1>2, <1>3

-----------------------------------------------------------------------------
(* Up to the commit. *)

\* Only the stage changes.
LEMMA GotoFacts ==
    ASSUME CommitInv, NEW r \in Runs, NEW label, Goto(r, label)
    PROVE  pc'[r] = label /\ \A q \in Runs \ {r} : pc'[q] = pc[q]
BY DEF CommitInv, CommitTypeOK, Goto

LEMMA StartInv ==
    ASSUME CommitInv, NEW r \in Runs, NEW o \in BOOLEAN, Start(r, o)
    PROVE  CommitInv' /\ pc'[r] # "ok" /\ (pc'[r] = "failed" => live' = before'[r])
<1>1. pc[r] = "idle" /\ \A q \in 1..(r - 1) : pc[q] \in Final \ {"idle"}
    BY DEF Start, At
<1>2. /\ pc'[r] = (IF TargetsAllowed(r, o) THEN "write" ELSE "failed")
      /\ \A q \in Runs \ {r} : pc'[q] = pc[q]
    BY GotoFacts DEF Start
<1>3. /\ overwrite' = [overwrite EXCEPT ![r] = o] /\ before' = [before EXCEPT ![r] = live]
      /\ UNCHANGED <<live, temp, backup, current, undone>>
    BY DEF Start
<1>4. CommitTypeOK'
    BY <1>2, <1>3 DEF CommitInv, CommitTypeOK, Start, Goto, Final, Labels
<1>5. overwrite'[r] = o /\ before'[r] = live /\ Alone(r)
    BY <1>2, <1>3 DEF CommitInv, CommitTypeOK, Alone
<1>6. NothingLost' /\ PairNeverMixed'
    BY <1>3 DEF CommitInv, NothingLost, PairNeverMixed, Exists
<1>7. RunOK(r)'
  <2>1. RunOK(r) /\ (AllUndone => Unmixed(live))
      BY PairUnmixed DEF CommitInv
  <2>2. o \/ Empty(live) \/ pc'[r] = "failed"
      BY <1>2 DEF TargetsAllowed, Exists, Names, Empty
  <2>3. pc'[r] \in {"write", "failed"}
      BY <1>2
  <2> QED
      BY <1>1, <1>3, <1>5, <2>1, <2>2, <2>3
      DEF RunOK, OldPair, NewPair, Early, Empty, Same, Unmixed, AllUndone, Final
<1>8. pc'[r] # "idle" /\ pc'[r] # "ok"
    BY <1>2
<1>9. CommitInv'
    BY <1>1, <1>3, <1>4, <1>5, <1>6, <1>7, <1>8, RunStep
<1> QED
    BY <1>3, <1>5, <1>8, <1>9

\* The writes, and what follows them before anything is moved.
LEMMA WriteStep ==
    ASSUME CommitInv, NEW r \in Runs, NEW n \in Names, NEW next, Write(r, n, next),
           \/ pc[r] = "write" /\ n = "data" /\ next = "writeManifest"
           \/ pc[r] = "writeManifest" /\ n = "manifest" /\ next = "verify"
    PROVE  CommitInv' /\ pc'[r] \notin {"ok", "failed"}
<1>1. pc[r] \in {"write", "writeManifest"} /\ next \in {"writeManifest", "verify"}
    OBVIOUS
<1>2. pc'[r] = next /\ \A q \in Runs \ {r} : pc'[q] = pc[q]
    BY <1>1, GotoFacts DEF Write
<1>3. temp' = [temp EXCEPT ![r][n] = r] /\ UNCHANGED <<live, backup, overwrite, before, current, undone>>
    BY <1>1 DEF Write
<1>4. CommitTypeOK'
  <2>1. temp \in [Runs -> [Names -> Contents]] /\ r \in Contents
      BY DEF CommitInv, CommitTypeOK, Contents
  <2>2. temp' \in [Runs -> [Names -> Contents]]
      BY <1>1, <1>3, <2>1
  <2>3. \A q \in Runs, m \in Names : temp'[q][m] \in {q, None}
      BY <1>1, <1>3, <2>1 DEF CommitInv, CommitTypeOK
  <2>4. pc' \in [Runs -> Labels]
      BY <1>1 DEF Write, Goto, CommitInv, CommitTypeOK, Labels
  <2> QED
      BY <1>3, <2>2, <2>3, <2>4 DEF CommitInv, CommitTypeOK
<1>5. temp'[r][n] = r /\ (\A m \in Names \ {n} : temp'[r][m] = temp[r][m]) /\ Alone(r)
    BY <1>1, <1>2, <1>3 DEF CommitInv, CommitTypeOK, Alone, Names
<1>6. NothingLost' /\ PairNeverMixed'
    BY <1>3 DEF CommitInv, NothingLost, PairNeverMixed, Exists
<1>7. RunOK(r)'
  <2>1. RunOK(r)
      BY DEF CommitInv
  <2> QED
      BY <1>1, <1>2, <1>3, <1>5, <2>1
      DEF RunOK, OldPair, NewPair, Early, Empty, Same, AllUndone, Final, Names
<1> QED
    BY <1>1, <1>2, <1>3, <1>4, <1>5, <1>6, <1>7, RunStep DEF Final

LEMMA WriteInv ==
    ASSUME CommitInv, NEW r \in Runs, WriteData(r) \/ WriteManifest(r)
    PROVE  CommitInv' /\ pc'[r] \notin {"ok", "failed"}
BY WriteStep DEF WriteData, WriteManifest, At, Names

\* Verified, an error before the commit, or the end of the process.
LEMMA CommitStageStep ==
    ASSUME CommitInv, NEW r \in Runs, NEW label,
           \/ pc[r] = "verify" /\ label = "backupData"
           \/ pc[r] \in {"write", "writeManifest", "verify"} /\ label = "dropTemps"
           \/ pc[r] \notin Final /\ label = "crashed",
           Goto(r, label), UNCHANGED <<live, temp, backup, overwrite, before, current, undone>>
    PROVE  CommitInv' /\ pc'[r] \notin {"ok", "failed"}
<1>1. pc'[r] = label /\ (\A q \in Runs \ {r} : pc'[q] = pc[q]) /\ pc[r] \notin Final
    BY GotoFacts DEF Final
<1>2. CommitTypeOK'
    BY DEF CommitInv, CommitTypeOK, Goto, Final, Labels
<1>3. NothingLost' /\ PairNeverMixed' /\ Alone(r)
    BY <1>1 DEF CommitInv, NothingLost, PairNeverMixed, Exists, Alone
<1>4. RunOK(r)'
  <2>1. RunOK(r)
      BY DEF CommitInv
  <2> QED
      BY <1>1, <2>1 DEF RunOK, OldPair, NewPair, Early, Empty, Same, AllUndone, Final
<1> QED
    BY <1>1, <1>2, <1>3, <1>4, RunStep

LEMMA StageInv ==
    ASSUME CommitInv, NEW r \in Runs, Verified(r) \/ GiveUp(r) \/ Crash(r)
    PROVE  CommitInv' /\ pc'[r] \notin {"ok", "failed"}
<1>1. CASE Verified(r)
    BY <1>1, CommitStageStep DEF Verified, At
<1>2. CASE GiveUp(r)
    BY <1>2, CommitStageStep DEF GiveUp
<1>3. CASE Crash(r)
    BY <1>3, CommitStageStep DEF Crash
<1> QED
    BY <1>1, <1>2, <1>3

\* TemporaryOutputs::drop touches temporary files only.
LEMMA DropTempsInv ==
    ASSUME CommitInv, NEW r \in Runs, DropTemps(r)
    PROVE  CommitInv' /\ pc'[r] = "failed" /\ (undone[r] => live' = before'[r])
<1>1. PICK gone \in SUBSET Names :
          temp' = [temp EXCEPT ![r] = [n \in Names |-> IF n \in gone THEN None ELSE @[n]]]
    BY DEF DropTemps
<1>2. pc[r] = "dropTemps" /\ pc'[r] = "failed" /\ \A q \in Runs \ {r} : pc'[q] = pc[q]
    BY GotoFacts DEF DropTemps, At
<1>3. UNCHANGED <<live, backup, overwrite, before, current, undone>>
    BY DEF DropTemps
<1>4. /\ temp' \in [Runs -> [Names -> Contents]]
      /\ \A q \in Runs, n \in Names : temp'[q][n] \in {temp[q][n], None}
      /\ \A q \in Runs \ {r} : temp'[q] = temp[q]
    BY <1>1 DEF CommitInv, CommitTypeOK, Contents
<1>5. CommitTypeOK'
  <2>1. \A q \in Runs, n \in Names : temp'[q][n] \in {q, None}
      BY <1>4 DEF CommitInv, CommitTypeOK
  <2>2. pc' \in [Runs -> Labels]
      BY DEF DropTemps, Goto, CommitInv, CommitTypeOK, Labels, Final
  <2> QED
      BY <1>3, <1>4, <2>1, <2>2 DEF CommitInv, CommitTypeOK
<1>6. NothingLost' /\ PairNeverMixed' /\ Alone(r)
    BY <1>2, <1>3, <1>4 DEF CommitInv, NothingLost, PairNeverMixed, Exists, Alone
<1>7. RunOK(r)
    BY DEF CommitInv
<1>8. RunOK(r)'
    BY <1>2, <1>3, <1>7 DEF RunOK, OldPair, NewPair, Early, Final
<1>9. undone[r] => live' = before'[r]
  <2>1. undone[r] => Same(live, before[r])
      BY <1>2, <1>7 DEF RunOK, OldPair
  <2>2. live \in [Names -> Contents] /\ before[r] \in [Names -> Contents]
      BY DEF CommitInv, CommitTypeOK
  <2>3. Same(live, before[r]) => live = before[r]
      BY <2>2 DEF Same, Names
  <2> QED
      BY <1>3, <2>1, <2>3
<1> QED
    BY <1>2, <1>3, <1>5, <1>6, <1>8, <1>9, RunStep DEF Final

-----------------------------------------------------------------------------
(* commit_outputs. *)

LEMMA LiveFacts ==
    ASSUME CommitInv, NEW n \in Names, NEW c \in Contents, live' = [live EXCEPT ![n] = c]
    PROVE  /\ live' \in [Names -> Contents] /\ live'[n] = c
           /\ \A m \in Names \ {n} : live'[m] = live[m]
BY DEF CommitInv, CommitTypeOK

LEMMA BackupFacts ==
    ASSUME CommitInv, NEW r \in Runs, NEW n \in Names, NEW c \in Contents,
           backup' = [backup EXCEPT ![r][n] = c]
    PROVE  /\ backup' \in [Runs -> [Names -> Contents]] /\ backup'[r][n] = c
           /\ \A m \in Names \ {n} : backup'[r][m] = backup[r][m]
           /\ \A q \in Runs \ {r} : backup'[q] = backup[q]
BY DEF CommitInv, CommitTypeOK

LEMMA UndoneFacts ==
    ASSUME CommitInv, NEW r \in Runs, undone' = [undone EXCEPT ![r] = FALSE]
    PROVE  /\ undone' \in [Runs -> BOOLEAN] /\ ~undone'[r]
           /\ \A q \in Runs \ {r} : undone'[q] = undone[q]
BY DEF CommitInv, CommitTypeOK

LEMMA GotoTypeOK ==
    ASSUME CommitInv, NEW r \in Runs, NEW label \in Labels, Goto(r, label)
    PROVE  pc' \in [Runs -> Labels]
BY DEF CommitInv, CommitTypeOK, Goto

LEMMA ContentFacts ==
    ASSUME CommitInv, NEW r \in Runs, NEW n \in Names
    PROVE  /\ live[n] \in Contents /\ backup[r][n] \in Contents /\ None \in Contents /\ r \in Contents
           /\ r # None
BY CommitAssumption DEF CommitInv, CommitTypeOK, Contents

\* A backup that works, is not needed, or fails.
LEMMA BackUpStep ==
    ASSUME CommitInv, NEW r \in Runs, NEW n \in Names, NEW here, NEW next, NEW onError,
           \/ n = "data" /\ here = "backupData" /\ next = "backupManifest" /\ onError = "dropTemps"
           \/ n = "manifest" /\ here = "backupManifest" /\ next = "commitData" /\ onError = "restoreDataOnly",
           BackUp(r, n, here, next, onError)
    PROVE  CommitInv' /\ pc'[r] \notin {"ok", "failed"}
<1>1. pc[r] = here /\ pc[r] \notin Final /\ next \in Labels /\ onError \in Labels
      /\ UNCHANGED <<temp, overwrite, before, current, undone>>
    BY DEF BackUp, At, Final, Labels
<1>2. RunOK(r)
    BY DEF CommitInv
<1>3. live[n] \in Contents /\ backup[r][n] = None /\ None \in Contents
  <2>1. backup[r][n] = None
      BY <1>1, <1>2 DEF RunOK, OldPair, Early, Empty
  <2> QED
      BY <2>1, ContentFacts
<1>4. CASE /\ MustBackUp(r, n) /\ Goto(r, next)
           /\ backup' = [backup EXCEPT ![r][n] = live[n]] /\ live' = [live EXCEPT ![n] = None]
  <2>1. pc'[r] = next /\ (\A q \in Runs \ {r} : pc'[q] = pc[q]) /\ pc' \in [Runs -> Labels]
      BY <1>1, <1>4, GotoFacts, GotoTypeOK
  <2>2. /\ live' \in [Names -> Contents] /\ live'[n] = None /\ \A m \in Names \ {n} : live'[m] = live[m]
        /\ backup' \in [Runs -> [Names -> Contents]] /\ backup'[r][n] = live[n]
        /\ \A m \in Names \ {n} : backup'[r][m] = backup[r][m]
        /\ \A q \in Runs \ {r} : backup'[q] = backup[q]
    <3>1. live' \in [Names -> Contents] /\ live'[n] = None /\ \A m \in Names \ {n} : live'[m] = live[m]
        BY <1>3, <1>4, LiveFacts
    <3>2. /\ backup' \in [Runs -> [Names -> Contents]] /\ backup'[r][n] = live[n]
          /\ \A m \in Names \ {n} : backup'[r][m] = backup[r][m]
          /\ \A q \in Runs \ {r} : backup'[q] = backup[q]
        BY <1>3, <1>4, BackupFacts
    <3> QED
        BY <3>1, <3>2
  <2>3. CommitTypeOK' /\ Alone(r)
      BY <1>1, <2>1, <2>2 DEF CommitInv, CommitTypeOK, Alone
  <2>4. NothingLost'
      BY <1>1, <1>3, <2>2, <2>3, Kept
  <2>5. RunOK(r)'
      BY <1>1, <1>2, <1>4, <2>1, <2>2
      DEF RunOK, OldPair, NewPair, Early, Empty, Same, AllUndone, Final, Names, MustBackUp
  <2>6. PairNeverMixed'
      BY <2>2 DEF PairNeverMixed, Exists
  <2> QED
      BY <1>1, <2>1, <2>3, <2>4, <2>5, <2>6, RunStep DEF Final
<1>5. CASE /\ UNCHANGED <<live, backup>>
           /\ \/ ~MustBackUp(r, n) /\ Goto(r, next)
              \/ Goto(r, onError)
  <2>1. /\ pc'[r] \in {next, onError} /\ (\A q \in Runs \ {r} : pc'[q] = pc[q]) /\ pc' \in [Runs -> Labels]
        /\ pc'[r] = next => ~MustBackUp(r, n)
      BY <1>1, <1>5, GotoFacts, GotoTypeOK
  <2>2. CommitTypeOK' /\ Alone(r) /\ NothingLost' /\ PairNeverMixed'
      BY <1>1, <1>5, <2>1 DEF CommitInv, CommitTypeOK, Alone, NothingLost, PairNeverMixed, Exists
  <2>3. RunOK(r)'
    <3>1. pc'[r] = next => overwrite[r] = FALSE \/ live[n] = None
        BY <2>1 DEF MustBackUp, Exists, CommitInv, CommitTypeOK
    <3> QED
        BY <1>1, <1>2, <1>3, <1>5, <2>1, <3>1
        DEF RunOK, OldPair, NewPair, Early, Empty, Same, AllUndone, Final
  <2> QED
      BY <1>1, <2>1, <2>2, <2>3, RunStep DEF Final
<1> QED
    BY <1>4, <1>5 DEF BackUp

LEMMA BackUpInv ==
    ASSUME CommitInv, NEW r \in Runs, BackUpData(r) \/ BackUpManifest(r)
    PROVE  CommitInv' /\ pc'[r] \notin {"ok", "failed"}
BY BackUpStep DEF BackUpData, BackUpManifest, Names

\* A rename to a target where nothing is.
LEMMA CommitStep ==
    ASSUME CommitInv, NEW r \in Runs, NEW n \in Names, NEW here, NEW next, NEW onError,
           \/ n = "data" /\ here = "commitData" /\ next = "commitManifest" /\ onError = "restoreData"
           \/ n = "manifest" /\ here = "commitManifest" /\ next = "cleanData" /\ onError = "removeData",
           Commit(r, n, here, next, onError)
    PROVE  CommitInv' /\ pc'[r] \notin {"ok", "failed"}
<1>1. pc[r] = here /\ pc[r] \notin Final /\ next \in Labels /\ onError \in Labels
      /\ UNCHANGED <<backup, overwrite, before, undone>>
    BY DEF Commit, At, Final, Labels
<1>2. RunOK(r)
    BY DEF CommitInv
<1>3. temp[r][n] = r /\ live[n] = None /\ r \in Contents /\ None \in Contents /\ r # None
  <2>1. temp[r][n] = r /\ live[n] = None
      BY <1>1, <1>2 DEF RunOK, OldPair, NewPair
  <2> QED
      BY <2>1, ContentFacts
<1>4. CASE /\ live' = [live EXCEPT ![n] = temp[r][n]] /\ temp' = [temp EXCEPT ![r][n] = None]
           /\ current' = (IF n = "manifest" THEN r ELSE current) /\ Goto(r, next)
  <2>1. pc'[r] = next /\ (\A q \in Runs \ {r} : pc'[q] = pc[q]) /\ pc' \in [Runs -> Labels]
      BY <1>1, <1>4, GotoFacts, GotoTypeOK
  <2>2. live' \in [Names -> Contents] /\ live'[n] = r /\ \A m \in Names \ {n} : live'[m] = live[m]
    <3>1. live' = [live EXCEPT ![n] = r]
        BY <1>3, <1>4
    <3> QED
        BY <1>3, <3>1, LiveFacts
  <2>3. /\ temp' \in [Runs -> [Names -> Contents]]
        /\ \A q \in Runs, m \in Names : temp'[q][m] \in {temp[q][m], None}
        /\ \A m \in Names \ {n} : temp'[r][m] = temp[r][m]
        /\ \A q \in Runs \ {r} : temp'[q] = temp[q]
      BY <1>3, <1>4 DEF CommitInv, CommitTypeOK
  <2>4. current' \in {current, r} /\ current' \in Contents
      BY <1>3, <1>4 DEF CommitInv, CommitTypeOK
  <2>5. CommitTypeOK' /\ Alone(r)
    <3>1. \A q \in Runs, m \in Names : temp'[q][m] \in {q, None}
        BY <2>3 DEF CommitInv, CommitTypeOK
    <3> QED
        BY <1>1, <2>1, <2>2, <2>3, <2>4, <3>1 DEF CommitInv, CommitTypeOK, Alone
  <2>6. RunOK(r)'
      BY <1>1, <1>2, <1>3, <1>4, <2>1, <2>2, <2>3
      DEF RunOK, OldPair, NewPair, Early, Empty, Same, AllUndone, Final, Names
  <2>7. NothingLost'
    <3>1. CASE n = "data"
        BY <1>1, <1>3, <1>4, <2>2, <2>5, <3>1, Kept
    <3>2. CASE n = "manifest"
        BY <1>1, <1>2, <1>4, <2>2, <3>2 DEF NothingLost, RunOK, OldPair, Names
    <3> QED
        BY <3>1, <3>2
  <2>8. PairNeverMixed'
      BY <1>1, <1>2, <2>2 DEF PairNeverMixed, Exists, RunOK, OldPair, Names
  <2> QED
      BY <1>1, <2>1, <2>4, <2>5, <2>6, <2>7, <2>8, RunStep DEF Final
<1>5. CASE Goto(r, onError) /\ UNCHANGED <<live, temp, current>>
  <2>1. pc'[r] = onError /\ (\A q \in Runs \ {r} : pc'[q] = pc[q]) /\ pc' \in [Runs -> Labels]
      BY <1>1, <1>5, GotoFacts, GotoTypeOK
  <2>2. CommitTypeOK' /\ Alone(r) /\ NothingLost' /\ PairNeverMixed'
      BY <1>1, <1>5, <2>1 DEF CommitInv, CommitTypeOK, Alone, NothingLost, PairNeverMixed, Exists
  <2>3. RunOK(r)'
      BY <1>1, <1>2, <1>3, <1>5, <2>1
      DEF RunOK, OldPair, NewPair, Early, Empty, Same, AllUndone, Final
  <2> QED
      BY <1>1, <1>5, <2>1, <2>2, <2>3, RunStep DEF Final
<1> QED
    BY <1>4, <1>5 DEF Commit

LEMMA CommitStepInv ==
    ASSUME CommitInv, NEW r \in Runs, CommitData(r) \/ CommitManifest(r)
    PROVE  CommitInv' /\ pc'[r] \notin {"ok", "failed"}
BY CommitStep DEF CommitData, CommitManifest, Names

\* The run's data is withdrawn; the last complete pair is not the run's.
LEMMA RemoveDataInv ==
    ASSUME CommitInv, NEW r \in Runs, RemoveData(r)
    PROVE  CommitInv' /\ pc'[r] \notin {"ok", "failed"}
<1>1. /\ pc[r] = "removeData" /\ pc[r] \notin Final /\ pc'[r] = "restoreData"
      /\ \A q \in Runs \ {r} : pc'[q] = pc[q]
      /\ pc' \in [Runs -> Labels]
      /\ UNCHANGED <<temp, backup, overwrite, before, current>>
    BY GotoFacts, GotoTypeOK DEF RemoveData, At, Final, Labels
<1>2. RunOK(r) /\ live["data"] = r /\ live["manifest"] = None /\ current # r /\ r # None
    BY <1>1, ContentFacts DEF CommitInv, RunOK, OldPair, NewPair, Names
<1>3. CASE live' = [live EXCEPT !["data"] = None] /\ UNCHANGED undone
  <2>1. live' \in [Names -> Contents] /\ live'["data"] = None /\ live'["manifest"] = live["manifest"]
      BY <1>3, LiveFacts, ContentFacts DEF Names
  <2>2. CommitTypeOK' /\ Alone(r)
      BY <1>1, <1>3, <2>1 DEF CommitInv, CommitTypeOK, Alone
  <2>3. NothingLost'
      BY <1>1, <1>2, <2>1, <2>2, Kept DEF Names
  <2>4. PairNeverMixed'
      BY <2>1 DEF PairNeverMixed, Exists, Names
  <2>5. RunOK(r)'
      BY <1>1, <1>2, <1>3, <2>1 DEF RunOK, OldPair, NewPair, Early, Same, AllUndone, Final
  <2> QED
      BY <1>1, <2>2, <2>3, <2>4, <2>5, RunStep DEF Final
<1>4. CASE undone' = [undone EXCEPT ![r] = FALSE] /\ UNCHANGED live
  <2>1. undone' \in [Runs -> BOOLEAN] /\ ~undone'[r] /\ \A q \in Runs \ {r} : undone'[q] = undone[q]
      BY <1>4, UndoneFacts
  <2>2. CommitTypeOK' /\ Alone(r) /\ NothingLost'
      BY <1>1, <1>4, <2>1 DEF CommitInv, CommitTypeOK, Alone, NothingLost
  <2>3. PairNeverMixed'
      BY <2>1 DEF PairNeverMixed
  <2>4. RunOK(r)'
      BY <1>1, <1>2, <1>4, <2>1 DEF RunOK, OldPair, NewPair, Early, Same, AllUndone, Final
  <2> QED
      BY <1>1, <2>2, <2>3, <2>4, RunStep DEF Final
<1> QED
    BY <1>3, <1>4 DEF RemoveData

\* A restore that works, fails, or has nothing to do.
LEMMA CommitRestoreStep ==
    ASSUME CommitInv, NEW r \in Runs, NEW n \in Names, NEW here, NEW next,
           \/ n = "data" /\ here = "restoreDataOnly" /\ next = "dropTemps"
           \/ n = "data" /\ here = "restoreData" /\ next = "restoreManifest"
           \/ n = "manifest" /\ here = "restoreManifest" /\ next = "dropTemps",
           Restore(r, n, here, next)
    PROVE  CommitInv' /\ pc'[r] \notin {"ok", "failed"}
<1>1. /\ pc[r] = here /\ pc[r] \notin Final /\ next \in Labels
      /\ pc'[r] = next /\ \A q \in Runs \ {r} : pc'[q] = pc[q]
      /\ UNCHANGED <<temp, overwrite, before, current>>
    BY GotoFacts DEF Restore, At, Final, Labels
<1>2. pc' \in [Runs -> Labels]
    BY <1>1, GotoTypeOK DEF Restore
<1>3. RunOK(r) /\ live[n] \in {None, r} /\ current # r /\ backup[r][n] = before[r][n]
    BY <1>1 DEF CommitInv, RunOK, OldPair, NewPair, Same, Names
<1>4. backup[r][n] \in Contents /\ None \in Contents
    BY ContentFacts
<1>5. CASE /\ BackedUp(r, n) /\ live' = [live EXCEPT ![n] = backup[r][n]]
           /\ backup' = [backup EXCEPT ![r][n] = None] /\ UNCHANGED undone
  <2>1. /\ live' \in [Names -> Contents] /\ live'[n] = backup[r][n]
        /\ \A m \in Names \ {n} : live'[m] = live[m]
      BY <1>4, <1>5, LiveFacts
  <2>2. /\ backup' \in [Runs -> [Names -> Contents]] /\ backup'[r][n] = None
        /\ \A m \in Names \ {n} : backup'[r][m] = backup[r][m]
        /\ \A q \in Runs \ {r} : backup'[q] = backup[q]
      BY <1>4, <1>5, BackupFacts
  <2>3. CommitTypeOK' /\ Alone(r)
      BY <1>1, <1>2, <1>5, <2>1, <2>2 DEF CommitInv, CommitTypeOK, Alone
  <2>4. NothingLost'
      BY <1>1, <1>3, <2>1, <2>2, <2>3, Kept
  <2>5. RunOK(r)'
      BY <1>1, <1>3, <1>5, <2>1, <2>2
      DEF RunOK, OldPair, NewPair, Early, Same, AllUndone, Final, Names
  <2>6. PairNeverMixed'
    <3>1. AllUndone' => Unmixed(live)'
      <4>1. AllUndone' => undone[r] /\ Unmixed(before[r])
          BY <1>1, <1>3, <1>5 DEF RunOK, AllUndone
      <4>2. undone[r] => \/ Same(live', before[r])
                         \/ live'["manifest"] = None
          BY <1>1, <1>3, <2>1 DEF RunOK, OldPair, Same, Names
      <4> QED
          BY <4>1, <4>2 DEF Unmixed, Same
    <3> QED
        BY <3>1 DEF PairNeverMixed, Exists, Names, AllUndone, Unmixed
  <2> QED
      BY <1>1, <2>3, <2>4, <2>5, <2>6, RunStep DEF Final
<1>6. CASE undone' = [undone EXCEPT ![r] = FALSE] /\ UNCHANGED <<live, backup>>
  <2>1. undone' \in [Runs -> BOOLEAN] /\ ~undone'[r] /\ \A q \in Runs \ {r} : undone'[q] = undone[q]
      BY <1>6, UndoneFacts
  <2>2. CommitTypeOK' /\ Alone(r) /\ NothingLost'
      BY <1>1, <1>2, <1>6, <2>1 DEF CommitInv, CommitTypeOK, Alone, NothingLost
  <2>3. PairNeverMixed'
      BY <2>1 DEF PairNeverMixed
  <2>4. RunOK(r)'
      BY <1>1, <1>3, <1>6, <2>1 DEF RunOK, OldPair, NewPair, Early, Same, AllUndone, Final
  <2> QED
      BY <1>1, <2>2, <2>3, <2>4, RunStep DEF Final
<1>7. CASE ~BackedUp(r, n) /\ UNCHANGED <<live, backup, undone>>
  <2>1. before[r][n] = None
      BY <1>3, <1>7 DEF BackedUp
  <2>2. CommitTypeOK' /\ Alone(r) /\ NothingLost' /\ PairNeverMixed'
      BY <1>1, <1>2, <1>7 DEF CommitInv, CommitTypeOK, Alone, NothingLost, PairNeverMixed, Exists
  <2>3. RunOK(r)'
      BY <1>1, <1>3, <1>7, <2>1 DEF RunOK, OldPair, NewPair, Early, Same, AllUndone, Final, Names
  <2> QED
      BY <1>1, <2>2, <2>3, RunStep DEF Final
<1> QED
    BY <1>5, <1>6, <1>7 DEF Restore

LEMMA RestoreInv ==
    ASSUME CommitInv, NEW r \in Runs, RestoreDataOnly(r) \/ RestoreData(r) \/ RestoreManifest(r)
    PROVE  CommitInv' /\ pc'[r] \notin {"ok", "failed"}
BY CommitRestoreStep DEF RestoreDataOnly, RestoreData, RestoreManifest, Names

\* Only when both new files are in place do the backups go.
LEMMA CleanStep ==
    ASSUME CommitInv, NEW r \in Runs, NEW n \in Names, NEW here, NEW next,
           \/ here = "cleanData" /\ next = "cleanManifest"
           \/ here = "cleanManifest" /\ next = "ok",
           Clean(r, n, here, next)
    PROVE  CommitInv' /\ pc'[r] # "failed" /\ (pc'[r] = "ok" => live' = [m \in Names |-> r])
<1>1. /\ pc[r] = here /\ pc[r] \notin Final /\ next \in Labels
      /\ pc'[r] = next /\ \A q \in Runs \ {r} : pc'[q] = pc[q]
      /\ UNCHANGED <<live, temp, overwrite, before, current, undone>>
    BY GotoFacts DEF Clean, At, Final, Labels
<1>2. pc' \in [Runs -> Labels]
    BY <1>1, GotoTypeOK DEF Clean
<1>3. RunOK(r) /\ live["data"] = r /\ live["manifest"] = r /\ current = r
    BY <1>1 DEF CommitInv, RunOK, NewPair
<1>4. /\ backup' \in [Runs -> [Names -> Contents]]
      /\ \A q \in Runs \ {r} : backup'[q] = backup[q]
  <2>1. CASE backup' = [backup EXCEPT ![r][n] = None]
      BY <2>1, BackupFacts, ContentFacts
  <2>2. CASE UNCHANGED backup
      BY <2>2 DEF CommitInv, CommitTypeOK
  <2> QED
      BY <2>1, <2>2 DEF Clean
<1>5. CommitTypeOK' /\ Alone(r) /\ PairNeverMixed'
    BY <1>1, <1>2, <1>4 DEF CommitInv, CommitTypeOK, Alone, PairNeverMixed, Exists
<1>6. NothingLost'
    BY <1>1, <1>3 DEF NothingLost, Names
<1>7. RunOK(r)'
    BY <1>1, <1>3 DEF RunOK, OldPair, NewPair, Early, Same, AllUndone, Final
<1>8. live' = [m \in Names |-> r]
  <2>1. live \in [Names -> Contents]
      BY DEF CommitInv, CommitTypeOK
  <2> QED
      BY <1>1, <1>3, <2>1 DEF Names
<1> QED
    BY <1>1, <1>5, <1>6, <1>7, <1>8, RunStep DEF Final

LEMMA CleanInv ==
    ASSUME CommitInv, NEW r \in Runs, CleanData(r) \/ CleanManifest(r)
    PROVE  CommitInv' /\ pc'[r] # "failed" /\ (pc'[r] = "ok" => live' = [n \in Names |-> r])
BY CleanStep DEF CleanData, CleanManifest, Names

-----------------------------------------------------------------------------
LEMMA CommitInitInv == CommitInit => CommitInv
<1> SUFFICES ASSUME CommitInit PROVE CommitInv
    OBVIOUS
<1>1. /\ live \in [Names -> {Old, None}] /\ current = IF live = [n \in Names |-> Old] THEN Old ELSE None
      /\ \A r \in Runs : pc[r] = "idle" /\ undone[r] /\ Empty(backup[r])
    BY DEF CommitInit, NoFiles, Empty, Names
<1>2. CommitTypeOK
    BY <1>1 DEF CommitInit, CommitTypeOK, Contents, NoFiles, Labels, Final
<1>3. PairNeverMixed /\ NothingLost
    BY <1>1 DEF PairNeverMixed, Exists, NothingLost, Names
<1>4. \A r \in Runs : RunOK(r)
    BY <1>1, CommitAssumption DEF RunOK, OldPair, NewPair, Early, Final
<1> QED
    BY <1>1, <1>2, <1>3, <1>4 DEF CommitInv, Ordered

\* What a run that returns has done to the targets.
Outcome(r) ==
    /\ pc'[r] = "ok" /\ pc[r] # "ok" => live' = [n \in Names |-> r]
    /\ pc'[r] = "failed" /\ pc[r] # "failed" /\ undone[r] => live' = before'[r]

LEMMA CommitRunInv ==
    ASSUME CommitInv, NEW r \in Runs, Step(r) \/ Crash(r)
    PROVE  CommitInv' /\ Outcome(r)
<1>1. CASE \E o \in BOOLEAN : Start(r, o)
    BY <1>1, StartInv DEF Outcome
<1>2. CASE WriteData(r) \/ WriteManifest(r)
    BY <1>2, WriteInv DEF Outcome
<1>3. CASE Verified(r) \/ GiveUp(r) \/ Crash(r)
    BY <1>3, StageInv DEF Outcome
<1>4. CASE BackUpData(r) \/ BackUpManifest(r)
    BY <1>4, BackUpInv DEF Outcome
<1>5. CASE CommitData(r) \/ CommitManifest(r)
    BY <1>5, CommitStepInv DEF Outcome
<1>6. CASE RemoveData(r)
    BY <1>6, RemoveDataInv DEF Outcome
<1>7. CASE RestoreDataOnly(r) \/ RestoreData(r) \/ RestoreManifest(r)
    BY <1>7, RestoreInv DEF Outcome
<1>8. CASE CleanData(r) \/ CleanManifest(r)
    BY <1>8, CleanInv DEF Outcome
<1>9. CASE DropTemps(r)
    BY <1>9, DropTempsInv DEF Outcome
<1> QED
    BY <1>1, <1>2, <1>3, <1>4, <1>5, <1>6, <1>7, <1>8, <1>9 DEF Step

\* Another run's records do not change.
LEMMA StepAlone ==
    ASSUME CommitInv, NEW r \in Runs, Step(r) \/ Crash(r), NEW q \in Runs \ {r}
    PROVE  pc'[q] = pc[q]
BY DEF Step, Crash, Start, WriteData, WriteManifest, Write, Verified, GiveUp, BackUpData, BackUpManifest,
       BackUp, CommitData, CommitManifest, Commit, RemoveData, RestoreDataOnly, RestoreData,
       RestoreManifest, Restore, CleanData, CleanManifest, Clean, DropTemps, Goto, CommitInv, CommitTypeOK

LEMMA CommitNextInv == CommitInv /\ [CommitNext]_commitVars => CommitInv'
<1> SUFFICES ASSUME CommitInv, [CommitNext]_commitVars PROVE CommitInv'
    OBVIOUS
<1>1. CASE CommitNext
    BY <1>1, CommitRunInv DEF CommitNext
<1>2. CASE UNCHANGED commitVars
    BY <1>2 DEF commitVars, CommitInv, CommitTypeOK, Ordered, RunOK, OldPair, NewPair, AllUndone,
                PairNeverMixed, NothingLost, Exists
<1> QED
    BY <1>1, <1>2

LEMMA CommitInvariant == CommitSpec => []CommitInv
BY CommitInitInv, CommitNextInv, PTL DEF CommitSpec

\* The files and the records of a run have the values the code can give them.
THEOREM CommitTypes == CommitSpec => []CommitTypeOK
<1>1. CommitInv => CommitTypeOK
    BY DEF CommitInv
<1> QED
    BY <1>1, CommitInvariant, PTL

\* At no moment of commit_outputs, after no failure and after no crash is a
\* manifest beside another run's data, unless an undo step failed as well.
THEOREM PairsMatch == CommitSpec => []PairNeverMixed
<1>1. CommitInv => PairNeverMixed
    BY DEF CommitInv
<1> QED
    BY <1>1, CommitInvariant, PTL

\* Both files of the last complete pair exist, in place or in a backup, until
\* commit_outputs has put a newer pair in place.
THEOREM PairsSurvive == CommitSpec => []NothingLost
<1>1. CommitInv => NothingLost
    BY DEF CommitInv
<1> QED
    BY <1>1, CommitInvariant, PTL

\* prepare_sidecar returns with both files replaced, or, where its undo steps
\* worked, with both as it found them.
THEOREM RunsAtomic == CommitSpec => AllOrNothing
<1>1. ASSUME CommitInv, [CommitNext]_commitVars
      PROVE  [\A r \in Runs : Outcome(r)]_commitVars
  <2>1. CASE CommitNext
    <3>1. PICK r \in Runs : Step(r) \/ Crash(r)
        BY <2>1 DEF CommitNext
    <3>2. Outcome(r) /\ \A q \in Runs \ {r} : pc'[q] = pc[q]
        BY <1>1, <3>1, CommitRunInv, StepAlone
    <3> QED
        BY <3>2 DEF Outcome
  <2>2. CASE UNCHANGED commitVars
      BY <2>2
  <2> QED
      BY <1>1, <2>1, <2>2
<1>2. CommitInv /\ [CommitNext]_commitVars =>
          [\A r \in Runs :
              /\ pc'[r] = "ok" /\ pc[r] # "ok" => live' = [n \in Names |-> r]
              /\ pc'[r] = "failed" /\ pc[r] # "failed" /\ undone[r] => live' = before'[r]]_commitVars
    BY <1>1 DEF Outcome
<1> QED
    BY <1>2, CommitInvariant, PTL DEF CommitSpec, AllOrNothing

(***************************************************************************)
(* SessionFiles                                                            *)
(***************************************************************************)

Lasting(s) == s.now.whole /\ s.durable.whole /\ s.now.synced /\ s.durable.synced
Bounded(r) == \A content \in r.imported : content.whole /\ content.size <= MaxBytes

\* The files, and each process with its own.
TargetsInv ==
    /\ targets \in [Targets -> [now : FileStates, durable : FileStates]]
    /\ \A t \in Targets : Lasting(targets[t])
TempsInv ==
    /\ temps \subseteq [name : TempNames, content : FileStates]
    /\ \A f, g \in temps : f.name = g.name => f = g
ProcOK(p, r, files) == r \in Processes /\ Bounded(r) /\ Looks(r) /\ Owned(p, r, files)
ProcsInv == proc \in [Pids -> Processes] /\ \A p \in Pids : ProcOK(p, proc[p], temps)

\* Inductive: a rename needs to know that the file it renames is the one its
\* process wrote and synced, and a power loss that what it keeps was synced.
FilesInv == TargetsInv /\ TempsInv /\ ProcsInv /\ started \in Nat /\ losses \in Nat

\* An ended process has nothing to keep.
LEMMA EndedOK == \A p, files : ProcOK(p, Ended, files)
BY DEF ProcOK, Bounded, Looks, Owned, Ended, Processes, NoFile, NoTemp, Stages, Targets, FileStates,
       TempNames

LEMMA FilesInitInv == FilesInit => FilesInv
<1> SUFFICES ASSUME FilesInit PROVE FilesInv
    OBVIOUS
<1>1. PICK old \in [Targets -> {NoFile, Earlier}] :
          targets = [t \in Targets |-> [now |-> old[t], durable |-> old[t]]]
    BY DEF FilesInit
<1>2. \A c \in {NoFile, Earlier} : c \in FileStates /\ c.whole /\ c.synced
  <2>1. NoFile \in FileStates /\ NoFile.whole /\ NoFile.synced
    <3>1. NoFile \in FileStates
        BY DEF NoFile, FileStates
    <3>2. NoFile.whole = TRUE /\ NoFile.synced = TRUE
        BY DEF NoFile
    <3> QED
        BY <3>1, <3>2
  <2>2. Earlier \in FileStates /\ Earlier.whole = NoFile.whole /\ Earlier.synced = NoFile.synced
      BY <2>1 DEF Earlier, FileStates
  <2> QED
      BY <2>1, <2>2
<1>3. TargetsInv
    BY <1>1, <1>2 DEF TargetsInv, Lasting
<1>4. TempsInv
    BY DEF FilesInit, TempsInv
<1>5. proc = [p \in Pids |-> Ended]
    BY DEF FilesInit
<1>6. Ended \in Processes /\ \A p \in Pids : ProcOK(p, Ended, temps)
    BY EndedOK DEF ProcOK
<1>7. proc \in [Pids -> Processes] /\ \A p \in Pids : proc[p] = Ended
    BY <1>5, <1>6
<1>8. ProcsInv
    BY <1>6, <1>7 DEF ProcsInv
<1> QED
    BY <1>3, <1>4, <1>8 DEF FilesInv, FilesInit

-----------------------------------------------------------------------------
(* One process steps. *)

\* What a step of one process leaves in order, when it touches no temporary
\* file of another.
LEMMA ProcStep ==
    ASSUME FilesInv, NEW p \in Pids, NEW r, ProcIs(p, r), ProcOK(p, r, temps'),
           TargetsInv', TempsInv', started' \in Nat, losses' \in Nat,
           \A f \in temps : f.name.pid # p => f \in temps'
    PROVE  FilesInv'
<1>1. proc \in [Pids -> Processes] /\ r \in Processes
    BY DEF FilesInv, ProcsInv, ProcOK
<1>2. proc' \in [Pids -> Processes] /\ proc'[p] = r /\ \A q \in Pids \ {p} : proc'[q] = proc[q]
    BY <1>1 DEF ProcIs
<1>3. ASSUME NEW q \in Pids \ {p} PROVE ProcOK(q, proc[q], temps')
  <2>1. ProcOK(q, proc[q], temps)
      BY DEF FilesInv, ProcsInv
  <2> QED
      BY <2>1 DEF ProcOK, Owned
<1>4. ASSUME NEW q \in Pids PROVE ProcOK(q, proc'[q], temps')
    BY <1>2, <1>3
<1>5. ProcsInv'
    BY <1>2, <1>4 DEF ProcsInv, ProcOK, Owned
<1> QED
    BY <1>5 DEF FilesInv

\* The step leaves all files alone.
LEMMA QuietStep ==
    ASSUME FilesInv, NEW p \in Pids, NEW r, ProcIs(p, r), ProcOK(p, r, temps),
           UNCHANGED <<targets, temps, losses>>, started' \in Nat
    PROVE  FilesInv'
<1>1. TargetsInv' /\ TempsInv'
    BY DEF FilesInv, TargetsInv, TempsInv
<1>2. losses' \in Nat /\ ProcOK(p, r, temps')
    BY DEF FilesInv
<1> QED
    BY <1>1, <1>2, ProcStep

LEMMA EndStep ==
    ASSUME FilesInv, NEW p \in Pids, ProcEnds(p), UNCHANGED <<targets, temps, losses, started>>
    PROVE  FilesInv'
<1>1. started' \in Nat
    BY DEF FilesInv
<1> QED
    BY <1>1, EndedOK, QuietStep DEF ProcEnds

\* Before the first export there is nothing to own.
Free(at) == at \in Stages \ {"create", "write", "sync", "rename"}

\* The process goes on at a stage where it has no file.
LEMMA StageStep ==
    ASSUME FilesInv, NEW p \in Pids, NEW at, NEW looked \in Targets \cup {"none"}, Free(at),
           at \in {"look", "read"} => looked \in Targets,
           ProcIs(p, [proc[p] EXCEPT !.at = at, !.looked = looked]),
           UNCHANGED <<targets, temps, losses, started>>
    PROVE  FilesInv'
<1> DEFINE r == [proc[p] EXCEPT !.at = at, !.looked = looked]
<1>1. ProcOK(p, proc[p], temps)
    BY DEF FilesInv, ProcsInv
<1>2. r \in Processes /\ r.imported = proc[p].imported /\ r.at = at /\ r.looked = looked
    BY <1>1 DEF ProcOK, Processes, Free
<1>3. ProcIs(p, r)
    OBVIOUS
<1> HIDE DEF r
<1>4. ProcOK(p, r, temps)
    BY <1>1, <1>2 DEF ProcOK, Bounded, Looks, Owned, Free
<1>5. started' \in Nat
    BY DEF FilesInv
<1> QED
    BY <1>3, <1>4, <1>5, QuietStep

LEMMA StartCommandInv ==
    ASSUME FilesInv, NEW p \in Pids, NEW kind \in {"resume", "new", "serve", "clear"},
           StartCommand(p, kind)
    PROVE  FilesInv'
<1> DEFINE at == IF kind = "clear" THEN "clear" ELSE "heat"
           r == [Ended EXCEPT !.at = at, !.kind = kind, !.command = started + 1]
<1>1. at \in {"clear", "heat"} /\ started + 1 \in Nat
    BY DEF FilesInv
<1>2. ProcIs(p, r) /\ started' = started + 1 /\ UNCHANGED <<targets, temps, losses>>
    BY DEF StartCommand
<1> HIDE DEF at
<1>3. Ended \in Processes /\ Ended.imported = {}
    BY EndedOK DEF ProcOK, Ended
<1>4. r \in Processes /\ r.imported = {} /\ r.at = at
    BY <1>1, <1>3 DEF Processes, Stages
<1> HIDE DEF r
<1>5. ProcOK(p, r, temps)
    BY <1>1, <1>4 DEF ProcOK, Bounded, Looks, Owned
<1> QED
    BY <1>1, <1>2, <1>5, QuietStep

LEMMA InspectHeatInv ==
    ASSUME FilesInv, NEW p \in Pids, InspectHeat(p)
    PROVE  FilesInv'
<1>1. proc[p] \in Processes /\ proc[p].looked \in Targets \cup {"none"}
    BY DEF FilesInv, ProcsInv, Processes
<1>2. UNCHANGED <<targets, temps, losses, started>> /\ Free("look") /\ Free("run")
    BY DEF InspectHeat, Free, Stages
<1>3. CASE \E t \in Targets : ProcLooks(p, t)
    BY <1>2, <1>3, StageStep DEF ProcLooks
<1>4. CASE ProcTo(p, "run")
  <2>1. [proc[p] EXCEPT !.at = "run"] = [proc[p] EXCEPT !.at = "run", !.looked = proc[p].looked]
      BY <1>1 DEF Processes
  <2> QED
      BY <1>1, <1>2, <1>4, <2>1, StageStep DEF ProcTo
<1> QED
    BY <1>3, <1>4 DEF InspectHeat, Targets

LEMMA LookAtFileInv ==
    ASSUME FilesInv, NEW p \in Pids, LookAtFile(p)
    PROVE  FilesInv'
<1>1. proc[p] \in Processes /\ proc[p].looked \in Targets
    BY DEF FilesInv, ProcsInv, ProcOK, Looks, LookAtFile, ProcAt
<1>2. UNCHANGED <<targets, temps, losses, started>> /\ Free("read")
    BY DEF LookAtFile, Free, Stages
<1>3. CASE ProcTo(p, "read")
  <2>1. [proc[p] EXCEPT !.at = "read"] = [proc[p] EXCEPT !.at = "read", !.looked = proc[p].looked]
      BY <1>1 DEF Processes
  <2> QED
      BY <1>1, <1>2, <1>3, <2>1, StageStep DEF ProcTo
<1>4. CASE ProcEnds(p)
    BY <1>2, <1>4, EndStep
<1> QED
    BY <1>3, <1>4 DEF LookAtFile

\* What is read is checked again before it is imported.
LEMMA ReadFileInv ==
    ASSUME FilesInv, NEW p \in Pids, ReadFile(p)
    PROVE  FilesInv'
<1> DEFINE t == proc[p].looked
           content == targets[t].now
           goOn == t = "heat" /\ proc[p].kind = "resume"
           at == IF goOn THEN "look" ELSE "run"
           looked == IF goOn THEN "session" ELSE "none"
           r == [proc[p] EXCEPT !.imported = @ \cup {content}, !.at = at, !.looked = looked]
<1>1. proc[p].at = "read" /\ ProcOK(p, proc[p], temps) /\ t \in Targets /\ proc[p] \in Processes
    BY DEF FilesInv, ProcsInv, ProcOK, Looks, ReadFile, ProcAt
<1>2. UNCHANGED <<targets, temps, losses, started>>
    BY DEF ReadFile
<1>3. CASE ProcEnds(p)
    BY <1>2, <1>3, EndStep
<1>4. CASE ProcIs(p, r) /\ Imports(content)
  <2>1. at \in {"look", "run"} /\ looked \in Targets \cup {"none"} /\ (at = "look" => looked \in Targets)
      BY DEF Targets
  <2>2. content \in FileStates /\ content.whole /\ content.size <= MaxBytes
      BY <1>1, <1>4 DEF FilesInv, TargetsInv, Imports
  <2> HIDE DEF at, looked, content
  <2>3. r \in Processes /\ r.at = at /\ r.looked = looked /\ r.imported = proc[p].imported \cup {content}
      BY <1>1, <2>1, <2>2 DEF Processes, Stages
  <2>4. ProcIs(p, r)
      BY <1>4
  <2> HIDE DEF r
  <2>5. ProcOK(p, r, temps)
      BY <1>1, <2>1, <2>2, <2>3 DEF ProcOK, Bounded, Looks, Owned
  <2>6. started' \in Nat
      BY <1>2 DEF FilesInv
  <2> QED
      BY <1>2, <2>4, <2>5, <2>6, QuietStep
<1> QED
    BY <1>3, <1>4 DEF ReadFile

-----------------------------------------------------------------------------
(* atomic_write. *)

\* A process that is about to write has a whole export and no file yet.
LEMMA WritesOK ==
    ASSUME FilesInv, NEW p \in Pids, NEW t \in Targets, NEW size \in Sizes, NEW files
    PROVE  ProcOK(p, [proc[p] EXCEPT !.at = "create", !.target = t, !.attempt = 0, !.temp = NoTemp,
                                     !.content = Export(proc[p].command, size)], files)
<1> DEFINE content == Export(proc[p].command, size)
           r == [proc[p] EXCEPT !.at = "create", !.target = t, !.attempt = 0, !.temp = NoTemp,
                                !.content = content]
<1>1. ProcOK(p, proc[p], temps) /\ proc[p] \in Processes
    BY DEF FilesInv, ProcsInv, ProcOK
<1>2. content \in FileStates
    BY <1>1 DEF Export, FileStates, Processes
<1>3. content.whole = TRUE
    BY DEF Export
<1>4. NoTemp \in TempNames
    BY DEF NoTemp, TempNames
<1> HIDE DEF content
<1>5. r \in Processes /\ r.at = "create" /\ r.target = t /\ r.content = content
      /\ r.imported = proc[p].imported
    BY <1>1, <1>2, <1>4 DEF Processes, Stages
<1> HIDE DEF r
<1>6. ProcOK(p, r, files)
    BY <1>1, <1>3, <1>5 DEF ProcOK, Bounded, Looks, Owned
<1> QED
    BY <1>6 DEF r, content

LEMMA RunInv ==
    ASSUME FilesInv, NEW p \in Pids, Run(p)
    PROVE  FilesInv'
<1>1. UNCHANGED <<targets, temps, losses, started>> /\ started' \in Nat
    BY DEF Run, FilesInv
<1>2. CASE ProcEnds(p)
    BY <1>1, <1>2, EndStep
<1>3. CASE \E size \in Sizes, t \in Targets : ProcWrites(p, t, size)
    BY <1>1, <1>3, WritesOK, QuietStep DEF ProcWrites
<1> QED
    BY <1>2, <1>3 DEF Run, Targets

LEMMA NextAttemptInv ==
    ASSUME FilesInv, NEW p \in Pids, NextAttempt(p)
    PROVE  FilesInv'
<1>1. UNCHANGED <<targets, temps, losses, started>> /\ started' \in Nat
    BY DEF NextAttempt, FilesInv
<1>2. CASE ProcEnds(p)
    BY <1>1, <1>2, EndStep
<1>3. CASE ProcIs(p, [proc[p] EXCEPT !.attempt = @ + 1])
  <2> DEFINE r == [proc[p] EXCEPT !.attempt = @ + 1]
  <2>1. ProcOK(p, proc[p], temps) /\ proc[p] \in Processes /\ proc[p].attempt \in Nat
      BY DEF FilesInv, ProcsInv, ProcOK, Processes
  <2>2. r \in Processes /\ r.at = proc[p].at /\ r.imported = proc[p].imported /\ r.temp = proc[p].temp
        /\ r.looked = proc[p].looked /\ r.target = proc[p].target /\ r.content = proc[p].content
      BY <2>1 DEF Processes
  <2>3. ProcIs(p, r)
      BY <1>3
  <2> HIDE DEF r
  <2>4. ProcOK(p, r, temps)
      BY <2>1, <2>2 DEF ProcOK, Bounded, Looks, Owned
  <2> QED
      BY <1>1, <2>3, <2>4, QuietStep
<1> QED
    BY <1>2, <1>3 DEF NextAttempt

\* create_new: the name is nobody else's.
LEMMA CreateTempInv ==
    ASSUME FilesInv, NEW p \in Pids, CreateTemp(p)
    PROVE  FilesInv'
<1> DEFINE name == TempName(p)
           file == [name |-> name, content |-> EmptyFile]
           r == [proc[p] EXCEPT !.at = "write", !.temp = name]
<1>1. ProcOK(p, proc[p], temps) /\ proc[p] \in Processes /\ proc[p].at = "create"
    BY DEF FilesInv, ProcsInv, ProcOK, CreateTemp, ProcAt
<1>2. name \in TempNames /\ name.pid = p
    BY <1>1 DEF TempName, TempNames, Processes
<1>3. EmptyFile \in FileStates
  <2>1. NoFile \in FileStates
      BY DEF NoFile, FileStates
  <2> QED
      BY <2>1 DEF EmptyFile, FileStates
<1>4. /\ temps' = temps \cup {file} /\ ProcIs(p, r) /\ UNCHANGED <<targets, started, losses>>
      /\ \A f \in temps : f.name # name
    BY DEF CreateTemp, NameTaken
<1> HIDE DEF name
<1>5. TempsInv'
    BY <1>2, <1>3, <1>4 DEF FilesInv, TempsInv
<1>6. TargetsInv' /\ started' \in Nat /\ losses' \in Nat
    BY <1>4 DEF FilesInv, TargetsInv
<1>7. r \in Processes /\ r.at = "write" /\ r.imported = proc[p].imported /\ r.temp = name
      /\ r.target = proc[p].target /\ r.content = proc[p].content
    BY <1>1, <1>2 DEF Processes, Stages
<1>8. file \in temps' /\ file.name = name
    BY <1>4
<1> HIDE DEF r, file
<1>9. ProcOK(p, r, temps')
    BY <1>1, <1>2, <1>7, <1>8 DEF ProcOK, Bounded, Looks, Owned
<1> QED
    BY <1>4, <1>5, <1>6, <1>9, ProcStep

\* The process's own file is the one with its name, and no other process's.
LEMMA OwnTemp ==
    ASSUME FilesInv, NEW p \in Pids, proc[p].at \in {"write", "sync", "rename"}
    PROVE  /\ Own(p) \in temps /\ Own(p).name = proc[p].temp /\ Own(p).name.pid = p
           /\ proc[p].at # "write" => Own(p).content.whole
           /\ proc[p].at = "rename" => Own(p).content.synced
           /\ \A f \in OthersOf(p) : f.name # proc[p].temp
           /\ \A f \in temps : f.name.pid # p => f \in OthersOf(p)
<1>1. ProcOK(p, proc[p], temps)
    BY DEF FilesInv, ProcsInv
<1>2. PICK f \in temps : /\ f.name = proc[p].temp /\ f.name.pid = p
                         /\ proc[p].at # "write" => f.content.whole
                         /\ proc[p].at = "rename" => f.content.synced
    BY <1>1 DEF ProcOK, Owned
<1>3. \A g \in temps : g.name = proc[p].temp => g = f
    BY <1>2 DEF FilesInv, TempsInv
<1>4. Own(p) = f
    BY <1>2, <1>3 DEF Own
<1> QED
    BY <1>2, <1>3, <1>4 DEF OthersOf

\* The process's file gets another content, and the process its next stage.
LEMMA OwnStep ==
    ASSUME FilesInv, NEW p \in Pids, NEW at, NEW file \in [name : TempNames, content : FileStates],
           proc[p].at \in {"write", "sync"}, at \in {"sync", "rename"},
           file.name = proc[p].temp, file.content.whole, at = "rename" => file.content.synced,
           temps' = OthersOf(p) \cup {file}, ProcTo(p, at),
           UNCHANGED <<targets, started, losses>>
    PROVE  FilesInv'
<1> DEFINE r == [proc[p] EXCEPT !.at = at]
<1>1. ProcOK(p, proc[p], temps) /\ proc[p] \in Processes
    BY DEF FilesInv, ProcsInv, ProcOK
<1>2. TempsInv'
  <2>1. OthersOf(p) \subseteq temps /\ \A f \in OthersOf(p) : f.name # file.name
      BY OwnTemp DEF OthersOf
  <2> QED
      BY <2>1 DEF FilesInv, TempsInv
<1>3. TargetsInv' /\ started' \in Nat /\ losses' \in Nat
    BY DEF FilesInv, TargetsInv
<1>4. r \in Processes /\ r.at = at /\ r.imported = proc[p].imported /\ r.temp = proc[p].temp
      /\ r.target = proc[p].target /\ r.content = proc[p].content
    BY <1>1 DEF Processes, Stages
<1>5. file \in temps' /\ \A f \in temps : f.name.pid # p => f \in temps'
    BY OwnTemp
<1>6. ProcIs(p, r)
    BY DEF ProcTo
<1> HIDE DEF r
<1>7. ProcOK(p, r, temps')
    BY <1>1, <1>4, <1>5 DEF ProcOK, Bounded, Looks, Owned
<1> QED
    BY <1>2, <1>3, <1>5, <1>6, <1>7, ProcStep

LEMMA WriteTempInv ==
    ASSUME FilesInv, NEW p \in Pids, WriteTemp(p)
    PROVE  FilesInv'
<1> DEFINE file == [Own(p) EXCEPT !.content = proc[p].content]
<1>1. proc[p].at = "write" /\ ProcTo(p, "sync") /\ temps' = OthersOf(p) \cup {file}
      /\ UNCHANGED <<targets, started, losses>>
    BY DEF WriteTemp, ProcAt
<1>2. Own(p) \in [name : TempNames, content : FileStates] /\ Own(p).name = proc[p].temp
    BY <1>1, OwnTemp DEF FilesInv, TempsInv
<1>3. proc[p].content \in FileStates /\ proc[p].content.whole
    BY <1>1 DEF FilesInv, ProcsInv, ProcOK, Owned, Processes
<1>4. file \in [name : TempNames, content : FileStates] /\ file.name = proc[p].temp
      /\ file.content = proc[p].content
    BY <1>2, <1>3
<1> HIDE DEF file
<1> QED
    BY <1>1, <1>3, <1>4, OwnStep

LEMMA SyncTempInv ==
    ASSUME FilesInv, NEW p \in Pids, SyncTemp(p)
    PROVE  FilesInv'
<1> DEFINE synced == [Own(p).content EXCEPT !.synced = TRUE]
           file == [Own(p) EXCEPT !.content = synced]
<1>1. proc[p].at = "sync" /\ ProcTo(p, "rename") /\ UNCHANGED <<targets, started, losses>>
      /\ temps' = OthersOf(p) \cup {[Own(p) EXCEPT !.content.synced = TRUE]}
    BY DEF SyncTemp, ProcAt
<1>2. Own(p) \in [name : TempNames, content : FileStates] /\ Own(p).name = proc[p].temp
      /\ Own(p).content.whole
    BY <1>1, OwnTemp DEF FilesInv, TempsInv
<1>3. [Own(p) EXCEPT !.content.synced = TRUE] = file
    BY <1>2
<1>4. synced \in FileStates /\ synced.whole = Own(p).content.whole /\ synced.synced = TRUE
    BY <1>2 DEF FileStates
<1> HIDE DEF synced
<1>5. file \in [name : TempNames, content : FileStates] /\ file.name = proc[p].temp
      /\ file.content = synced
    BY <1>2, <1>4
<1> HIDE DEF file
<1> QED
    BY <1>1, <1>2, <1>3, <1>4, <1>5, OwnStep

LEMMA WriteFailsInv ==
    ASSUME FilesInv, NEW p \in Pids, WriteFails(p)
    PROVE  FilesInv'
<1>1. proc[p].at \in {"write", "sync", "rename"} /\ ProcIs(p, Ended)
      /\ temps' \in {OthersOf(p), temps} /\ UNCHANGED <<targets, started, losses>>
    BY DEF WriteFails, DropTemp, ProcEnds
<1>2. TempsInv' /\ \A f \in temps : f.name.pid # p => f \in temps'
    BY <1>1, OwnTemp DEF FilesInv, TempsInv, OthersOf
<1>3. TargetsInv' /\ started' \in Nat /\ losses' \in Nat
    BY <1>1 DEF FilesInv, TargetsInv
<1> QED
    BY <1>1, <1>2, <1>3, EndedOK, ProcStep

\* Only a whole and synced file becomes a target.
LEMMA RenameInv ==
    ASSUME FilesInv, NEW p \in Pids, Rename(p)
    PROVE  FilesInv'
<1> DEFINE t == proc[p].target
           content == Own(p).content
<1>1. proc[p].at = "rename" /\ temps' = OthersOf(p) /\ UNCHANGED <<started, losses>>
      /\ targets' = [targets EXCEPT ![t].now = content]
    BY DEF Rename, RenameReady, ProcAt
<1>2. content \in FileStates /\ content.whole /\ content.synced
    BY <1>1, OwnTemp DEF FilesInv, TempsInv
<1>3. t \in Targets
    BY <1>1 DEF FilesInv, ProcsInv, ProcOK, Owned
<1>4. TargetsInv'
  <2> HIDE DEF t, content
  <2>1. targets \in [Targets -> [now : FileStates, durable : FileStates]]
        /\ \A u \in Targets : Lasting(targets[u])
      BY DEF FilesInv, TargetsInv
  <2>2. targets' \in [Targets -> [now : FileStates, durable : FileStates]]
      BY <1>1, <1>2, <1>3, <2>1
  <2>3. targets'[t].now = content /\ targets'[t].durable = targets[t].durable
        /\ \A u \in Targets \ {t} : targets'[u] = targets[u]
      BY <1>1, <1>3, <2>1
  <2>4. \A u \in Targets : Lasting(targets'[u])
      BY <1>2, <1>3, <2>1, <2>3 DEF Lasting
  <2> QED
      BY <2>2, <2>4 DEF TargetsInv, Lasting
<1>5. TempsInv' /\ \A f \in temps : f.name.pid # p => f \in temps'
    BY <1>1, OwnTemp DEF FilesInv, TempsInv, OthersOf
<1>6. started' \in Nat /\ losses' \in Nat
    BY <1>1 DEF FilesInv
<1>7. CASE \E size \in Sizes : ProcWrites(p, "heat", size)
  <2>1. PICK size \in Sizes : ProcWrites(p, "heat", size)
      BY <1>7
  <2>2. ProcOK(p, [proc[p] EXCEPT !.at = "create", !.target = "heat", !.attempt = 0, !.temp = NoTemp,
                                  !.content = Export(proc[p].command, size)], temps')
      BY WritesOK DEF Targets
  <2> QED
      BY <1>4, <1>5, <1>6, <2>1, <2>2, ProcStep DEF ProcWrites
<1>8. CASE ProcEnds(p)
    BY <1>4, <1>5, <1>6, <1>8, EndedOK, ProcStep DEF ProcEnds
<1> QED
    BY <1>7, <1>8 DEF Rename

-----------------------------------------------------------------------------
(* Removals, the disk, and what stops processes. *)

LEMMA ClearHeatInv ==
    ASSUME FilesInv, NEW p \in Pids, ClearHeat(p)
    PROVE  FilesInv'
<1>1. UNCHANGED <<temps, started, losses>> /\ started' \in Nat /\ losses' \in Nat
    BY DEF ClearHeat, FilesInv
<1>2. CASE UNCHANGED targets /\ ProcEnds(p)
    BY <1>1, <1>2, EndStep
<1>3. CASE UNCHANGED targets /\ ProcTo(p, "remove")
  <2>1. proc[p] \in Processes /\ proc[p].looked \in Targets \cup {"none"}
      BY DEF FilesInv, ProcsInv, Processes
  <2>2. [proc[p] EXCEPT !.at = "remove"] = [proc[p] EXCEPT !.at = "remove", !.looked = proc[p].looked]
      BY <2>1 DEF Processes
  <2>3. Free("remove")
      BY DEF Free, Stages
  <2> QED
      BY <1>1, <1>3, <2>1, <2>2, <2>3, StageStep DEF ProcTo
<1>4. CASE ProcEnds(p) /\ targets' = [targets EXCEPT !["heat"].now = NoFile]
  <2>1. NoFile \in FileStates
      BY DEF NoFile, FileStates
  <2>2. NoFile.whole = TRUE /\ NoFile.synced = TRUE
      BY DEF NoFile
  <2>3. targets \in [Targets -> [now : FileStates, durable : FileStates]]
        /\ \A u \in Targets : Lasting(targets[u])
      BY DEF FilesInv, TargetsInv
  <2>4. targets' \in [Targets -> [now : FileStates, durable : FileStates]]
      BY <1>4, <2>1, <2>3
  <2>5. targets'["heat"].now = NoFile /\ targets'["heat"].durable = targets["heat"].durable
        /\ \A u \in Targets \ {"heat"} : targets'[u] = targets[u]
      BY <1>4, <2>3 DEF Targets
  <2>6. \A u \in Targets : Lasting(targets'[u])
      BY <2>2, <2>3, <2>5 DEF Lasting, Targets
  <2>7. TargetsInv'
      BY <2>4, <2>6 DEF TargetsInv, Lasting
  <2>8. TempsInv'
      BY <1>1 DEF FilesInv, TempsInv
  <2> QED
      BY <1>1, <1>4, <2>7, <2>8, EndedOK, ProcStep DEF ProcEnds
<1> QED
    BY <1>2, <1>3, <1>4 DEF ClearHeat

LEMMA BecomeDurableInv ==
    ASSUME FilesInv, NEW t \in Targets, BecomeDurable(t)
    PROVE  FilesInv'
<1>1. targets' = [targets EXCEPT ![t].durable = targets[t].now]
      /\ UNCHANGED <<temps, proc, started, losses>>
    BY DEF BecomeDurable
<1>2. targets \in [Targets -> [now : FileStates, durable : FileStates]]
      /\ \A u \in Targets : Lasting(targets[u])
    BY DEF FilesInv, TargetsInv
<1>3. targets' \in [Targets -> [now : FileStates, durable : FileStates]]
    BY <1>1, <1>2
<1>4. targets'[t].durable = targets[t].now /\ targets'[t].now = targets[t].now
      /\ \A u \in Targets \ {t} : targets'[u] = targets[u]
    BY <1>1, <1>2
<1>5. \A u \in Targets : Lasting(targets'[u])
    BY <1>2, <1>4 DEF Lasting
<1>6. TargetsInv'
    BY <1>3, <1>5 DEF TargetsInv, Lasting
<1>7. TempsInv' /\ ProcsInv' /\ started' \in Nat /\ losses' \in Nat
    BY <1>1 DEF FilesInv, TempsInv, ProcsInv, ProcOK, Owned
<1> QED
    BY <1>6, <1>7 DEF FilesInv

\* What has been synced survives as it is, whichever of a target's contents the
\* directory names afterwards.
LEMMA PowerLossInv ==
    ASSUME FilesInv, PowerLoss
    PROVE  FilesInv'
<1> DEFINE Left(kept, t) == AfterLoss(IF t \in kept THEN targets[t].now ELSE targets[t].durable)
<1>1. PICK kept \in SUBSET Targets :
          targets' = [t \in Targets |-> [now |-> Left(kept, t), durable |-> Left(kept, t)]]
    BY DEF PowerLoss
<1>2. ASSUME NEW t \in Targets
      PROVE  Left(kept, t) \in FileStates /\ Left(kept, t).whole /\ Left(kept, t).synced
    BY DEF FilesInv, TargetsInv, Lasting, AfterLoss
<1> HIDE DEF Left
<1>3. TargetsInv'
    BY <1>1, <1>2 DEF TargetsInv, Lasting
<1>4. TempsInv'
  <2> DEFINE Lost(f) == [f EXCEPT !.content = AfterLoss(@)]
  <2>1. temps' = {Lost(f) : f \in temps}
      BY DEF PowerLoss
  <2>2. ASSUME NEW c \in FileStates PROVE AfterLoss(c) \in FileStates
      BY DEF AfterLoss, FileStates
  <2>3. \A f \in temps : Lost(f) \in [name : TempNames, content : FileStates] /\ Lost(f).name = f.name
      BY <2>2 DEF FilesInv, TempsInv
  <2> HIDE DEF Lost
  <2> QED
      BY <2>1, <2>3 DEF FilesInv, TempsInv
<1>5. ProcsInv'
  <2>1. proc' = [p \in Pids |-> Ended] /\ Ended \in Processes
      BY EndedOK DEF PowerLoss, ProcOK
  <2>2. proc' \in [Pids -> Processes] /\ \A p \in Pids : proc'[p] = Ended
      BY <2>1
  <2>3. \A p \in Pids : ProcOK(p, proc'[p], temps')
      BY <2>2, EndedOK
  <2> QED
      BY <2>2, <2>3 DEF ProcsInv, ProcOK, Owned
<1>6. started' \in Nat /\ losses' \in Nat
    BY DEF FilesInv, PowerLoss
<1> QED
    BY <1>3, <1>4, <1>5, <1>6 DEF FilesInv

-----------------------------------------------------------------------------
LEMMA FilesStepInv ==
    ASSUME FilesInv, NEW p \in Pids, FilesStep(p)
    PROVE  FilesInv'
<1>1. CASE \E kind \in {"resume", "new", "serve", "clear"} : StartCommand(p, kind)
    BY <1>1, StartCommandInv
<1>2. CASE InspectHeat(p) \/ LookAtFile(p) \/ ReadFile(p) \/ Run(p)
    BY <1>2, InspectHeatInv, LookAtFileInv, ReadFileInv, RunInv
<1>3. CASE AtomicWriteGivesUp(p) \/ Kill(p)
    BY <1>3, EndStep DEF AtomicWriteGivesUp, Kill
<1>4. CASE NextAttempt(p) \/ CreateTemp(p) \/ WriteTemp(p) \/ SyncTemp(p)
    BY <1>4, NextAttemptInv, CreateTempInv, WriteTempInv, SyncTempInv
<1>5. CASE WriteFails(p) \/ Rename(p) \/ ClearHeat(p)
    BY <1>5, WriteFailsInv, RenameInv, ClearHeatInv
<1> QED
    BY <1>1, <1>2, <1>3, <1>4, <1>5 DEF FilesStep

LEMMA FilesNextInv == FilesInv /\ [FilesNext]_filesVars => FilesInv'
<1> SUFFICES ASSUME FilesInv, [FilesNext]_filesVars PROVE FilesInv'
    OBVIOUS
<1>1. CASE FilesNext
    BY <1>1, FilesStepInv, BecomeDurableInv, PowerLossInv DEF FilesNext
<1>2. CASE UNCHANGED filesVars
    BY <1>2 DEF filesVars, FilesInv, TargetsInv, TempsInv, ProcsInv, ProcOK, Owned
<1> QED
    BY <1>1, <1>2

LEMMA FilesInvariant == FilesSpec => []FilesInv
BY FilesInitInv, FilesNextInv, PTL DEF FilesSpec

\* Targets, temporary files and processes keep the shapes atomic_write and the
\* commands give them, and create_new keeps temporary names apart.
THEOREM FilesTypes == FilesSpec => []FilesTypeOK
<1>1. FilesInv => FilesTypeOK
    BY DEF FilesInv, TargetsInv, TempsInv, ProcsInv, FilesTypeOK
<1> QED
    BY <1>1, FilesInvariant, PTL

\* Session and heat files are whole exports at every moment and after every
\* power loss, and what read_bounded_with_limit hands to an import is whole and
\* within the limit, for every number of processes and every size.
THEOREM FilesStayWhole == FilesSpec => []FilesWhole
<1>1. FilesInv => FilesWhole
    BY DEF FilesInv, TargetsInv, ProcsInv, ProcOK, Bounded, Lasting, FilesWhole, NeverTorn,
           ImportsBounded, TempsOwned
<1> QED
    BY <1>1, FilesInvariant, PTL

(***************************************************************************)
(* The components side by side                                             *)
(***************************************************************************)

\* Each component starts in its invariant.
LEMMA StorageInitInv == StorageInit => KvInv /\ CommitInv /\ FilesInv
BY KvInitInv, CommitInitInv, FilesInitInv DEF StorageInit

\* Each keeps its own, its step or another's.
LEMMA StorageNextInv ==
    KvInv /\ CommitInv /\ FilesInv /\ [StorageNext]_storageVars
        => (KvInv /\ CommitInv /\ FilesInv)'
<1> SUFFICES ASSUME KvInv, CommitInv, FilesInv, [StorageNext]_storageVars
             PROVE  (KvInv /\ CommitInv /\ FilesInv)'
  OBVIOUS
<1>1. [KvNext]_kvVars /\ [CommitNext]_commitVars /\ [FilesNext]_filesVars
  BY DEF StorageNext, RowsStep, SidecarStep, SessionsStep, storageVars
<1> QED
  BY <1>1, KvStep, CommitNextInv, FilesNextInv

\* Whichever component a behaviour is about: cached lengths within the
\* capacity and pages of finite rows, files that hold what a run can have
\* written, processes with at most their own temporary file.
THEOREM StorageTypes == StorageSpec => []StorageTypeOK
<1>1. KvInv /\ CommitInv /\ FilesInv => StorageTypeOK
  BY KvTyped DEF StorageTypeOK, CommitInv, FilesInv, TargetsInv, TempsInv, ProcsInv, FilesTypeOK
<1> QED
  BY <1>1, StorageInitInv, StorageNextInv, PTL DEF StorageSpec
=============================================================================
