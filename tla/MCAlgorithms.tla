---------------------------- MODULE MCAlgorithms ----------------------------
(* The components that only transform their input, in one instance.  They  *)
(* share nothing: a behaviour is about one of them, the others rest.       *)
EXTENDS MCText, MCModelFiles

CONSTANT Subjects  \* the components that have a turn

VARIABLE subject

algorithmVars == <<subject, vars, readerVars, dir, samplerVars, hy3, convo, openingVars>>

FilterRests  == stops = {} /\ pending = <<>> /\ fed = <<>> /\ shown = <<>> /\ state = "finished"
ReaderRests  == gguf = "none" /\ reader = [FreshReader EXCEPT !.phase = "idle"]
ConvoRests   == convo = NewConvo(<<>>, ChatOptions("no_think", <<>>, FALSE), Absent)
OpeningRests == path = "none" /\ replaced = 0
                /\ opening = [kind |-> "none", end |-> "none", plan |-> "none", used |-> 0,
                              inputs |-> [page |-> 0, context |-> 0]]

AlgorithmsInit ==
    /\ subject \in Subjects
    /\ IF subject = "filter" THEN Init ELSE FilterRests
    /\ IF subject = "reader" THEN ReaderInit ELSE ReaderRests
    /\ IF subject = "shards" THEN ShardInit ELSE dir = <<>>
    /\ SamplerIdle
    /\ IF subject = "model" THEN Hy3Init ELSE hy3 = Hy3Idle
    /\ IF subject = "chat" THEN ConvoInit ELSE ConvoRests
    /\ IF subject = "opening" THEN OpeningInit ELSE OpeningRests

FilterStep ==
    /\ subject = "filter" /\ Next
    /\ UNCHANGED <<subject, readerVars, dir, samplerVars, hy3, convo, openingVars>>
ReaderStep ==
    /\ subject = "reader" /\ ReaderNext
    /\ UNCHANGED <<subject, vars, dir, samplerVars, hy3, convo, openingVars>>
SamplerStep ==
    /\ subject = "sampler" /\ SamplerNext
    /\ UNCHANGED <<subject, vars, readerVars, dir, hy3, convo, openingVars>>
ModelStep ==
    /\ subject = "model" /\ Hy3Next
    /\ UNCHANGED <<subject, vars, readerVars, dir, samplerVars, convo, openingVars>>
ChatStep ==
    /\ subject = "chat" /\ ConvoNext
    /\ UNCHANGED <<subject, vars, readerVars, dir, samplerVars, hy3, openingVars>>
OpeningStep ==
    /\ subject = "opening" /\ OpeningNext
    /\ UNCHANGED <<subject, vars, readerVars, dir, samplerVars, hy3, convo>>

AlgorithmsNext ==
    FilterStep \/ ReaderStep \/ SamplerStep \/ ModelStep \/ ChatStep \/ OpeningStep

AlgorithmsSpec == AlgorithmsInit /\ [][AlgorithmsNext]_algorithmVars
=============================================================================
