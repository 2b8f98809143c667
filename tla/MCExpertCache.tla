--------------------------- MODULE MCExpertCache ---------------------------
(* Small instances of ExpertCache. *)
EXTENDS ExpertCache

CONSTANTS a, b, c, empty, huge, t1, t2

\* Two experts that fit together, a third that displaces them, one of size
\* zero and one larger than the cache.
SizeOf == [k \in Keys |-> CASE k = a -> 1 [] k = b -> 2 [] k = c -> 2
                            [] k = empty -> 0 [] k = huge -> 4]

\* A snapshot that admits a at once, and one that warms every expert.
HeatFiles == {[k \in Keys |-> IF k = a THEN HeatCap ELSE 0],
              [k \in Keys |-> 1]}
=============================================================================
