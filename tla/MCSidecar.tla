------------------------------ MODULE MCSidecar ------------------------------
(* Small instances of Sidecar. *)
EXTENDS Sidecar

\* Two fine-tunes of one architecture, and a model of another.
MCDirectory == [m \in Models |-> IF m = "other" THEN "dirB" ELSE "dirA"]
MCDeltas == {-4, -2, -1, 1, 2, 4}
=============================================================================
