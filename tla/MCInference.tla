---------------------------- MODULE MCInference ----------------------------
(* Small instances of Inference. *)
EXTENDS Inference, TLC

MCExpertBytes == [l \in RoutedLayers |-> l]
MCOneToken == [s \in Sessions |-> 1]
\* One session evaluates again after its first token succeeded or failed.
MCTokens == [s \in Sessions |-> IF s = "a" THEN 2 ELSE 1]
Symmetry == Permutations(Experts)
=============================================================================
