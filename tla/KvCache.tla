------------------------------ MODULE KvCache ------------------------------
(***************************************************************************)
(* PagedKvCache of bridge-kv-gqa: per-layer lengths over lazily or eagerly *)
(* allocated pages, atomic appends, rewinds that leave the old rows in the *)
(* pages, and checksummed snapshots that are restored into a fresh cache.  *)
(*                                                                         *)
(* A row stands for the keys and values of all heads of one token.  Every  *)
(* check and allocation of an operation precedes its first write, so one   *)
(* that returns an error changes nothing: the guards below are the checks. *)
(***************************************************************************)
EXTENDS Naturals, Sequences, FiniteSets

CONSTANTS Layers,         \* layer indices
          Rows,           \* finite rows
          Zero,           \* the content of a page slot never written
          NonFinite,      \* a row with a NaN or an infinity
          NoPage,         \* a page table entry without a page
          PageTokens, TokenCapacity,
          Eager,          \* TRUE: new, FALSE: new_lazy
          Bindings,       \* model fingerprints
          MaxBatch        \* bound: tokens per append

ASSUME KvAssumption ==
    /\ PageTokens \in Nat \ {0}
    /\ TokenCapacity \in Nat \ {0}
    /\ MaxBatch \in Nat \ {0}
    /\ Eager \in BOOLEAN
    /\ Zero \notin Rows /\ NonFinite \notin Rows /\ NoPage \notin Rows
    /\ Zero # NonFinite
    /\ NoPage \notin [0..(PageTokens - 1) -> Rows \cup {Zero}]

VARIABLES lengths,   \* lengths[l]: committed tokens of layer l
          pages,     \* pages[l][p]: NoPage or the slots of page p
          snapshot   \* the snapshot file: a set of at most one record

kvVars == <<lengths, pages, snapshot>>

PageCount == (TokenCapacity + PageTokens - 1) \div PageTokens
PageIds   == 0..(PageCount - 1)
SlotIds   == 0..(PageTokens - 1)
EmptyPage == [i \in SlotIds |-> Zero]

PageOf(token) == token \div PageTokens
SlotOf(token) == token % PageTokens
TokenAt(p, i) == p * PageTokens + i

\* The page table of new_lazy.
NoPages == [l \in Layers |-> [p \in PageIds |-> NoPage]]

KvInit ==
    /\ lengths = [l \in Layers |-> 0]
    /\ pages = IF Eager THEN [l \in Layers |-> [p \in PageIds |-> EmptyPage]] ELSE NoPages
    /\ snapshot = {}

-----------------------------------------------------------------------------
(* append_tokens *)

\* The pages ensure_pages backs for the tokens start .. end - 1.
EnsuredPages(start, end) == PageOf(start)..PageOf(end - 1)

PageEnsured(table, p, start, end) ==
    IF table[p] = NoPage /\ p \in EnsuredPages(start, end) THEN EmptyPage ELSE table[p]

\* A slot of page p once rows are written from token stored on.
SlotWritten(page, p, i, stored, rows) ==
    IF TokenAt(p, i) \in stored..(stored + Len(rows) - 1)
    THEN rows[TokenAt(p, i) - stored + 1] ELSE page[i]

\* The page table of a layer then.
Written(table, stored, rows) ==
    [p \in PageIds |->
        LET page == PageEnsured(table, p, stored, stored + Len(rows))
        IN IF page = NoPage THEN NoPage
           ELSE [i \in SlotIds |-> SlotWritten(page, p, i, stored, rows)]]

HasRoom(l, count) == lengths[l] + count <= TokenCapacity

Append_(l, rows) ==
    /\ \A i \in DOMAIN rows : rows[i] # NonFinite
    /\ HasRoom(l, Len(rows))
    /\ pages' = [pages EXCEPT ![l] = Written(@, lengths[l], rows)]
    /\ lengths' = [lengths EXCEPT ![l] = @ + Len(rows)]
    /\ UNCHANGED snapshot

-----------------------------------------------------------------------------
(* reset and rewind_all: lengths only, the pages keep their rows. *)

Reset ==
    /\ lengths' = [l \in Layers |-> 0]
    /\ UNCHANGED <<pages, snapshot>>

CanRewind(n) == \A l \in Layers : n <= lengths[l]

RewindAll(n) ==
    /\ CanRewind(n)
    /\ lengths' = [l \in Layers |-> n]
    /\ UNCHANGED <<pages, snapshot>>

-----------------------------------------------------------------------------
(* Snapshots. *)

\* key and value: the row attention reads for a committed token.
Row(l, token) ==
    IF pages[l][PageOf(token)] = NoPage THEN NoPage
    ELSE pages[l][PageOf(token)][SlotOf(token)]

Committed(l) == [i \in 1..lengths[l] |-> Row(l, i - 1)]

\* export_snapshot: binding, configuration (constant here), lengths, committed
\* rows and a digest over all of it.
ExportSnapshot(b) ==
    /\ snapshot' = {[binding |-> b, rows |-> [l \in Layers |-> Committed(l)], intact |-> TRUE]}
    /\ UNCHANGED <<lengths, pages>>

\* The stored file is truncated or altered outside the program: here one layer
\* loses its newest row, which is all a reader without the digest would see.
LosesNewest(rows, l) ==
    [rows EXCEPT ![l] = SubSeq(@, 1, IF @ = <<>> THEN 0 ELSE Len(@) - 1)]

Damage(l) ==
    /\ snapshot # {}
    /\ snapshot' = {[s EXCEPT !.rows = LosesNewest(s.rows, l), !.intact = FALSE] : s \in snapshot}
    /\ UNCHANGED <<lengths, pages>>

\* The checks of restore_snapshot_internal.
DigestIgnored(s, b, uniform) ==  \* mutant
    /\ s.binding = b
    /\ uniform => \A l, m \in Layers : Len(s.rows[l]) = Len(s.rows[m])
Restorable(s, b, uniform) ==
    /\ s.intact
    /\ s.binding = b
    /\ uniform => \A l, m \in Layers : Len(s.rows[l]) = Len(s.rows[m])

\* A lazy cache, filled row by row, replaces the cache only when complete.
RestoreSnapshot(b, uniform) ==
    \E s \in snapshot :
        /\ Restorable(s, b, uniform)
        /\ lengths' = [l \in Layers |-> Len(s.rows[l])]
        /\ pages' = [l \in Layers |-> IF s.rows[l] = <<>> THEN NoPages[l]
                                      ELSE Written(NoPages[l], 0, s.rows[l])]
        /\ UNCHANGED snapshot

Inputs == UNION {[1..n -> Rows \cup {NonFinite}] : n \in 1..MaxBatch}

KvNext ==
    \/ \E l \in Layers, rows \in Inputs : Append_(l, rows)
    \/ Reset
    \/ \E n \in 0..TokenCapacity : RewindAll(n)
    \/ \E b \in Bindings : ExportSnapshot(b)
    \/ \E l \in Layers : Damage(l)
    \/ \E b \in Bindings, uniform \in BOOLEAN : RestoreSnapshot(b, uniform)

KvSpec == KvInit /\ [][KvNext]_kvVars

-----------------------------------------------------------------------------
(* Properties. *)

\* Lengths stay within the capacity and pages hold finite rows or zeros.
KvTypeOK ==
    /\ lengths \in [Layers -> 0..TokenCapacity]
    /\ \A l \in Layers : \A p \in PageIds :
          pages[l][p] = NoPage \/ pages[l][p] \in [SlotIds -> Rows \cup {Zero}]
    /\ Cardinality(snapshot) <= 1

\* The refinement mapping: the rows a reader can see.
Log == INSTANCE KvLog WITH
          log <- [l \in Layers |-> Committed(l)],
          saved <- {s.rows : s \in {x \in snapshot : x.intact}}

\* Seen through its committed rows the paged cache is an append-only log per
\* layer that only whole-cache truncation and restores shorten: whatever pages
\* hold beyond the lengths never resurfaces.
ImplementsLog == Log!LogSpec
=============================================================================
