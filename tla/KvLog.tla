------------------------------- MODULE KvLog -------------------------------
(***************************************************************************)
(* What a key/value cache promises to attention: for each layer, the list  *)
(* of the rows appended since the last rewind, reset or restore, in order. *)
(***************************************************************************)
EXTENDS Naturals, Sequences

CONSTANTS Layers, Rows, TokenCapacity,
          MaxBatch  \* bound: rows appended at once

VARIABLES log,    \* log[l]: the committed rows of layer l, oldest first
          saved   \* the logs the last snapshot holds, or {} before there is one

LogInit ==
    /\ log = [l \in Layers |-> <<>>]
    /\ saved = {}

Batches == UNION {[1..n -> Rows] : n \in 1..MaxBatch}

Extend(l) ==
    /\ UNCHANGED saved
    /\ \A m \in Layers \ {l} : log'[m] = log[m]
    /\ LET before == log[l]
           after == log'[l]
       IN  /\ Len(after) <= TokenCapacity
           /\ \E rows \in Batches : after = before \o rows

\* Every layer is cut to the same length, or none is.
Truncate(n) ==
    /\ \A l \in Layers : n <= Len(log[l])
    /\ log' = [l \in Layers |-> SubSeq(log[l], 1, n)]
    /\ UNCHANGED saved

Save ==
    /\ saved' = {log}
    /\ UNCHANGED log

Restore ==
    /\ saved # {}
    /\ log' \in saved
    /\ UNCHANGED saved

\* A damaged snapshot can no longer be restored.
Lose ==
    /\ saved' = {}
    /\ UNCHANGED log

LogNext ==
    \/ \E l \in Layers : Extend(l)
    \/ \E n \in 0..TokenCapacity : Truncate(n)
    \/ Save
    \/ Restore
    \/ Lose

LogSpec == LogInit /\ [][LogNext]_<<log, saved>>
=============================================================================
