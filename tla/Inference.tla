----------------------------- MODULE Inference -----------------------------
(***************************************************************************)
(* Token evaluation by concurrent sessions that share one expert cache.    *)
(*                                                                         *)
(* A token goes through a dense layer and then through the routed layers.  *)
(* A routed layer appends its key/value row and selects TopK experts,      *)
(* leases all of them from the cache (in parallel under the CPU backend,   *)
(* else one after the other), computes, and drops the leases.  An error    *)
(* anywhere rolls the session back to the last committed position.         *)
(*                                                                         *)
(* The cache is ExpertCache; its callers are the pairs of a session and a  *)
(* route of the layer the session is in.  Activations are left out.        *)
(***************************************************************************)
EXTENDS Integers, FiniteSets

CONSTANTS Sessions,
          MoeLayers,     \* number of routed layers; layer 0 is dense
          Experts, TopK, \* experts of a layer, and how many a token uses
          ExpertBytes,   \* ExpertBytes[l]: payload of an expert of layer l
          Capacity,      \* expert_cache_bytes
          AdmitAfter, HeatCap,
          Parallel,      \* the CPU backend is in use
          Context,       \* context_capacity
          MaxTokens      \* bound: MaxTokens[s] evaluations of session s

RoutedLayers == 1..MoeLayers
Layers == 0..MoeLayers
Routes == 1..TopK

\* A model has finitely many experts and a process finitely many sessions.
\* validate_options: the cache holds the largest expert.
ASSUME OptionsAssumption ==
    /\ IsFiniteSet(Sessions) /\ IsFiniteSet(Experts)
    /\ MoeLayers \in Nat \ {0}
    /\ TopK \in 1..Cardinality(Experts)
    /\ Capacity \in Nat \ {0}
    /\ AdmitAfter \in Nat \ {0} /\ HeatCap \in Nat /\ AdmitAfter <= HeatCap
    /\ ExpertBytes \in [RoutedLayers -> Nat \ {0}]
    /\ \A l \in RoutedLayers : ExpertBytes[l] <= Capacity
    /\ Parallel \in BOOLEAN
    /\ Context \in Nat \ {0}
    /\ MaxTokens \in [Sessions -> Nat]

VARIABLES entry, resident, pins, older, heat, used, reserved, pc, req, held,
          phase,     \* where the evaluation of each session is
          layer,     \* the layer it is in
          routes,    \* routes[s]: the experts of the layer in hand, by route
          started,   \* the routes whose load has been asked for
          pending,   \* scratch.streaming_moe_pending
          stored,    \* stored[s][l]: rows of layer l in the key/value cache
          position,  \* the committed position
          begun      \* evaluations begun

cacheVars == <<entry, resident, pins, older, heat, used, reserved, pc, req, held>>
vars == <<cacheVars, phase, layer, routes, started, pending, stored, position, begun>>

Cache == INSTANCE ExpertCache WITH
             Keys <- RoutedLayers \X Experts,
             Threads <- Sessions \X Routes,
             Size <- [k \in RoutedLayers \X Experts |-> ExpertBytes[k[1]]],
             Snapshots <- {}

KeyOf(s, r) == <<layer[s], routes[s][r]>>
Leases(s) == UNION {held[<<s, r>>] : r \in Routes}
Injections == {f \in [Routes -> Experts] : \A a, b \in Routes : a # b => f[a] # f[b]}

Goto(s, p) == phase' = [phase EXCEPT ![s] = p]

\* The vector of routes is a local of the layer.
LeaveLayer(s) ==
    /\ routes' = [routes EXCEPT ![s] = <<>>]
    /\ started' = [started EXCEPT ![s] = {}]

Init ==
    /\ Cache!Init /\ \E k \in RoutedLayers \X Experts : req = [w \in Sessions \X Routes |-> k]
    /\ phase = [s \in Sessions |-> "idle"]
    /\ layer = [s \in Sessions |-> 0]
    /\ routes = [s \in Sessions |-> <<>>]
    /\ started = [s \in Sessions |-> {}]
    /\ pending = [s \in Sessions |-> FALSE]
    /\ stored = [s \in Sessions |-> [l \in Layers |-> 0]]
    /\ position = [s \in Sessions |-> 0]
    /\ begun = [s \in Sessions |-> 0]

-----------------------------------------------------------------------------
(* evaluate_inner *)

ContextLeft(s) == position[s] < Context

Begin(s) ==
    /\ phase[s] = "idle"
    /\ begun[s] < MaxTokens[s]
    /\ ContextLeft(s)
    /\ Goto(s, "layer")
    /\ layer' = [layer EXCEPT ![s] = 0]
    /\ begun' = [begun EXCEPT ![s] = @ + 1]
    /\ UNCHANGED <<cacheVars, routes, started, pending, stored, position>>

\* What the kernels check of the session on entry to a layer.
LayerChecks(s) ==
    /\ stored[s][layer[s]] = position[s]
    /\ layer[s] > 0 => ~pending[s]

AppendRow(s) == stored' = [stored EXCEPT ![s][layer[s]] = @ + 1]

DenseLayer(s) ==
    /\ phase[s] = "layer" /\ layer[s] = 0
    /\ LayerChecks(s)
    /\ AppendRow(s)
    /\ layer' = [layer EXCEPT ![s] = 1]
    /\ UNCHANGED <<cacheVars, phase, routes, started, pending, position, begun>>

RouteToken(s) ==
    /\ phase[s] = "layer" /\ layer[s] > 0
    /\ LayerChecks(s)
    /\ AppendRow(s)
    /\ \E f \in Injections : routes' = [routes EXCEPT ![s] = f]
    /\ pending' = [pending EXCEPT ![s] = TRUE]
    /\ Goto(s, "load")
    /\ UNCHANGED <<cacheVars, layer, started, position, begun>>

\* A check or the arithmetic fails, before or after the row is appended.
LayerFails(s) ==
    /\ phase[s] = "layer"
    /\ (stored[s][layer[s]] < Context /\ AppendRow(s)) \/ UNCHANGED stored
    /\ Goto(s, "rollback")
    /\ UNCHANGED <<cacheVars, layer, routes, started, pending, position, begun>>

InTurn(s, r) == \A q \in 1..(r - 1) : q \in started[s] /\ pc[<<s, q>>] = "lease"

LoadRoute(s, r) ==
    /\ phase[s] = "load" /\ r \notin started[s]
    /\ Parallel \/ InTurn(s, r)
    /\ Cache!Call(<<s, r>>, KeyOf(s, r))
    /\ started' = [started EXCEPT ![s] = @ \cup {r}]
    /\ UNCHANGED <<phase, layer, routes, pending, stored, position, begun>>

\* The cache works for a caller: a turn of its loop, the end of its load, or
\* a wakeup for no reason.
CacheStep(s, r) ==
    /\ \/ Cache!Turn(<<s, r>>)
       \/ Cache!LoaderEnds(<<s, r>>)
       \/ Cache!SpuriousWake(<<s, r>>)
    /\ UNCHANGED <<phase, layer, routes, started, pending, stored, position, begun>>

AnyLeased(s) == \E r \in started[s] : pc[<<s, r>>] = "lease"  \* mutant

AllReturned(s) == \A r \in started[s] : pc[<<s, r>>] \in Cache!Returned

AllLeased(s) == started[s] = Routes /\ \A r \in Routes : pc[<<s, r>>] = "lease"

\* collect: the first error wins once every load under way has returned, and
\* the leases collected so far are dropped.
Collect(s) ==
    /\ phase[s] = "load" /\ AllReturned(s)
    /\ \/ AllLeased(s) /\ Goto(s, "compute") /\ UNCHANGED <<routes, started>>
       \/ /\ \E r \in started[s] : pc[<<s, r>>] # "lease"
          /\ Goto(s, "drop") /\ LeaveLayer(s)
    /\ UNCHANGED <<cacheVars, layer, pending, stored, position, begun>>

\* hy3_moe_finish_token
FinishToken(s) ==
    /\ phase[s] = "compute" /\ pending[s]
    /\ pending' = [pending EXCEPT ![s] = FALSE]
    /\ Goto(s, "clear") /\ LeaveLayer(s)
    /\ UNCHANGED <<cacheVars, layer, stored, position, begun>>

FinishFails(s) ==
    /\ phase[s] = "compute"
    /\ Goto(s, "rollback") /\ LeaveLayer(s)
    /\ UNCHANGED <<cacheVars, layer, pending, stored, position, begun>>

\* A vector of leases is dropped from its front, each lease by itself.
DropFirst(s, r) ==
    /\ phase[s] \in {"clear", "drop", "unpin"}
    /\ \A q \in 1..(r - 1) : held[<<s, q>>] = {}
    /\ \E k \in held[<<s, r>>] : Cache!DropLease(<<s, r>>, k)
    /\ UNCHANGED <<phase, layer, routes, started, pending, stored, position, begun>>

LeavesEarly(s) == TRUE  \* mutant: leases stay until the token is done
LeasesGone(s) == Leases(s) = {}

NextLayer(s) ==
    /\ phase[s] = "clear" /\ layer[s] < MoeLayers
    /\ LeasesGone(s)
    /\ layer' = [layer EXCEPT ![s] = @ + 1]
    /\ Goto(s, "layer")
    /\ UNCHANGED <<cacheVars, routes, started, pending, stored, position, begun>>

Commit(s) ==
    /\ phase[s] = "clear" /\ layer[s] = MoeLayers /\ Leases(s) = {}
    /\ position' = [position EXCEPT ![s] = @ + 1]
    /\ Goto(s, "idle")
    /\ UNCHANGED <<cacheVars, layer, routes, started, pending, stored, begun>>

OutputFails(s) ==
    /\ phase[s] = "clear" /\ layer[s] = MoeLayers /\ Leases(s) = {}
    /\ Goto(s, "rollback")
    /\ UNCHANGED <<cacheVars, layer, routes, started, pending, stored, position, begun>>

-----------------------------------------------------------------------------
(* Errors, and reset_session. *)

Dropped(s) ==
    /\ phase[s] = "drop" /\ Leases(s) = {}
    /\ Goto(s, "rollback")
    /\ UNCHANGED <<cacheVars, layer, routes, started, pending, stored, position, begun>>

\* Mutant: only the layer that failed is rewound.
RewindCurrent(s) == [stored EXCEPT ![s][layer[s]] = position[s]]

ScratchReset(s) == [pending EXCEPT ![s] = FALSE]
Rewound(s) == [stored EXCEPT ![s] = [l \in Layers |-> position[s]]]

\* rollback_to: rewind_all, the scratch, then the leases.
Rollback(s) ==
    /\ phase[s] = "rollback"
    /\ stored' = Rewound(s)
    /\ pending' = ScratchReset(s)
    /\ Goto(s, "unpin")
    /\ UNCHANGED <<cacheVars, layer, routes, started, position, begun>>

Recovered(s) ==
    /\ phase[s] = "unpin" /\ Leases(s) = {}
    /\ Goto(s, "idle")
    /\ UNCHANGED <<cacheVars, layer, routes, started, pending, stored, position, begun>>

Reset(s) ==
    /\ phase[s] = "idle" /\ position[s] > 0
    /\ stored' = [stored EXCEPT ![s] = [l \in Layers |-> 0]]
    /\ pending' = ScratchReset(s)
    /\ position' = [position EXCEPT ![s] = 0]
    /\ UNCHANGED <<cacheVars, phase, layer, routes, started, begun>>

\* clear_unpinned_experts may be called at any time.
ClearUnpinned ==
    /\ Cache!Unpinned # {} /\ Cache!ClearUnpinned
    /\ UNCHANGED <<phase, layer, routes, started, pending, stored, position, begun>>

EvaluationStep(s) ==
    \/ DenseLayer(s) \/ RouteToken(s) \/ LayerFails(s)
    \/ Collect(s) \/ FinishToken(s) \/ FinishFails(s)
    \/ NextLayer(s) \/ Commit(s) \/ OutputFails(s)
    \/ Dropped(s) \/ Rollback(s) \/ Recovered(s)

RouteStep(s, r) == LoadRoute(s, r) \/ CacheStep(s, r) \/ DropFirst(s, r)

Next ==
    \/ \E s \in Sessions : \/ Begin(s) \/ Reset(s) \/ EvaluationStep(s)
                           \/ \E r \in Routes : RouteStep(s, r)
    \/ ClearUnpinned

Spec == Init /\ [][Next]_vars

\* An evaluation runs on a thread of its own or a worker of the pool, and a
\* load reads a local file.  Nobody has to begin, reset or clear.
FairSpec ==
    /\ Spec
    /\ \A s \in Sessions :
          /\ WF_vars(EvaluationStep(s))
          /\ \A r \in Routes :
                /\ WF_vars(LoadRoute(s, r))
                /\ WF_vars(DropFirst(s, r))
                /\ WF_vars(Cache!Turn(<<s, r>>) /\ CacheStep(s, r))
                /\ WF_vars(Cache!LoaderEnds(<<s, r>>) /\ CacheStep(s, r))

-----------------------------------------------------------------------------
(* Properties. *)

\* No layer ever holds more rows than the context, and a position counts
\* evaluations that were begun.
TypeOK ==
    /\ Cache!TypeOK
    /\ pending \in [Sessions -> BOOLEAN]
    /\ stored \in [Sessions -> [Layers -> 0..Context]]
    /\ \A s \in Sessions : position[s] \in 0..begun[s] /\ begun[s] <= MaxTokens[s]

\* While a layer computes, each of its routes has the lease of exactly its
\* expert and the expert is in the cache, whatever other sessions load, evict,
\* drop or clear meanwhile.
ComputesOnRouted ==
    \A s \in Sessions : phase[s] = "compute" =>
        \A r \in Routes : held[<<s, r>>] = {KeyOf(s, r)} /\ entry[KeyOf(s, r)] = "ready"

\* Between evaluations a session pins nothing and all its layers hold exactly
\* the committed rows, whether its last evaluation succeeded or failed.
SettledBetweenTokens ==
    \A s \in Sessions : phase[s] = "idle" =>
        /\ Leases(s) = {}
        /\ \A l \in Layers : stored[s][l] = position[s]

\* "Clears phase state so a caller can safely reuse this workspace after a
\* cancelled or failed token evaluation": the streaming-phase and position
\* checks of the kernels never refuse a layer.
ChecksNeverRefuse ==
    \A s \in Sessions : phase[s] = "layer" => LayerChecks(s)

NoRefusal == \A w \in Sessions \X Routes : pc[w] # "CapacityPinned"

LargestExpert == CHOOSE b \in {ExpertBytes[l] : l \in RoutedLayers} :
                    \A l \in RoutedLayers : ExpertBytes[l] <= b

\* A cache that holds TopK of the largest experts for every session never
\* refuses a load: nothing a session no longer needs stays pinned.
SizedNeverRefuses ==
    Capacity >= Cardinality(Sessions) * TopK * LargestExpert => NoRefusal

\* What the check of validate_options promises, "at least one complete
\* expert": the cache it accepts serves a single session.
OneExpertSuffices == Cardinality(Sessions) = 1 => NoRefusal

\* With finitely many tokens to evaluate, every evaluation ends: no load is
\* waited for in vain, and refusals and failures end it too.
EvaluationsEnd == \A s \in Sessions : (phase[s] # "idle") ~> (phase[s] = "idle")


\* After any evaluation the session is fit for the next one.
SessionsReusable == TypeOK /\ SettledBetweenTokens /\ ChecksNeverRefuse
=============================================================================
