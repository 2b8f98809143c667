-------------------------- MODULE Inference_proofs --------------------------
(***************************************************************************)
(* Proofs about Inference for every number of sessions, layers and experts *)
(* and every size of the cache: sessions that share the cache compute on   *)
(* the experts they routed to, and leave nothing behind.                   *)
(*                                                                         *)
(* What ExpertCache_proofs establishes of the cache is taken over for the  *)
(* instance the sessions share.                                            *)
(***************************************************************************)
EXTENDS Inference, FiniteSetTheorems, WellFoundedInduction, TLAPS

CP == INSTANCE ExpertCache_proofs WITH
          Keys <- RoutedLayers \X Experts,
          Threads <- Sessions \X Routes,
          Size <- [k \in RoutedLayers \X Experts |-> ExpertBytes[k[1]]],
          Snapshots <- {}

Callers == Sessions \X Routes
ExpertKeys == RoutedLayers \X Experts
Phases == {"idle", "layer", "load", "compute", "clear", "drop", "rollback", "unpin"}

\* The types of the variables a session adds to those of the cache.
SessionTypes ==
    /\ phase \in [Sessions -> Phases]
    /\ layer \in [Sessions -> Layers]
    /\ routes \in [Sessions -> Injections \cup {<<>>}]
    /\ started \in [Sessions -> SUBSET Routes]
    /\ pending \in [Sessions -> BOOLEAN]
    /\ stored \in [Sessions -> [Layers -> 0..Context]]
    /\ position \in [Sessions -> 0..Context]
    /\ begun \in [Sessions -> Nat]

\* Rows, position and phase flag of a session by the phase it is in.
Rows(s) ==
    /\ position[s] <= begun[s] /\ begun[s] <= MaxTokens[s]
    /\ phase[s] # "idle" => position[s] < Context /\ position[s] < begun[s]
    /\ phase[s] \in {"load", "compute", "clear"} => layer[s] > 0
    /\ phase[s] \in {"idle", "unpin"} => \A l \in Layers : stored[s][l] = position[s]
    /\ phase[s] = "layer" =>
          \A l \in Layers : stored[s][l] = IF l < layer[s] THEN position[s] + 1 ELSE position[s]
    /\ phase[s] \in {"load", "compute", "clear"} =>
          \A l \in Layers : stored[s][l] = IF l <= layer[s] THEN position[s] + 1 ELSE position[s]
    /\ phase[s] \in {"idle", "layer", "clear", "unpin"} => pending[s] = FALSE
    /\ phase[s] \in {"load", "compute"} => pending[s] = TRUE

\* The call of a route of the layer in hand: not made yet, in the cache, or
\* back with its lease or an error.
RouteLoads(s, r) ==
    LET w == <<s, r>> IN
    IF r \in started[s]
    THEN /\ req[w] = KeyOf(s, r)
         /\ held[w] = IF pc[w] = "lease" THEN {KeyOf(s, r)} ELSE {}
    ELSE pc[w] \in Cache!Returned /\ held[w] = {}

\* Calls and leases of a session by the phase it is in.
Leased(s) ==
    /\ phase[s] = "load" => routes[s] \in Injections /\ \A r \in Routes : RouteLoads(s, r)
    /\ phase[s] = "compute" =>
          /\ routes[s] \in Injections
          /\ \A r \in Routes : pc[<<s, r>>] = "lease" /\ held[<<s, r>>] = {KeyOf(s, r)}
    /\ phase[s] \notin {"load", "compute"} => routes[s] = <<>> /\ started[s] = {}
    /\ phase[s] # "load" => \A r \in Routes : pc[<<s, r>>] \in Cache!Returned
    /\ phase[s] \in {"idle", "layer"} => \A r \in Routes : held[<<s, r>>] = {}

\* A caller never has more than the lease of one expert.
OneLease == \A w \in Callers : \A a, b \in held[w] : a = b

\* The inductive invariant.
Inv ==
    /\ CP!IndInv
    /\ SessionTypes
    /\ OneLease
    /\ \A s \in Sessions : Rows(s) /\ Leased(s)

-----------------------------------------------------------------------------
(* The shared cache is an instance of ExpertCache. *)

\* A finite set is one in the instance too.
LEMMA SameFinite == \A S : IsFiniteSet(S) <=> CP!IsFiniteSet(S)
BY DEF IsFiniteSet, CP!IsFiniteSet

LEMMA SameCardinality == \A S : Cardinality(S) = CP!Cardinality(S)
BY DEF Cardinality, CP!Cardinality

\* Callers and keys are finitely many.
LEMMA FiniteActors ==
    /\ IsFiniteSet(Callers) /\ IsFiniteSet(ExpertKeys)
    /\ Cardinality(Sessions) \in Nat /\ TopK \in Nat
    /\ Cardinality(Callers) = Cardinality(Sessions) * TopK
<1>1. TopK \in Nat /\ MoeLayers \in Nat
    BY FS_CardinalityType, OptionsAssumption
<1>2. IsFiniteSet(Routes) /\ Cardinality(Routes) = TopK
    BY <1>1, FS_Interval DEF Routes
<1>3. IsFiniteSet(RoutedLayers)
    BY <1>1, FS_Interval DEF RoutedLayers
<1>4. IsFiniteSet(Callers) /\ Cardinality(Callers) = Cardinality(Sessions) * TopK
    BY <1>2, FS_Product, OptionsAssumption DEF Callers
<1>5. IsFiniteSet(ExpertKeys)
    BY <1>3, FS_Product, OptionsAssumption DEF ExpertKeys
<1> QED
    BY <1>1, <1>4, <1>5, FS_CardinalityType, OptionsAssumption

\* The options make a cache configuration that CacheConfig::validate accepts.
LEMMA ConfigHolds == CP!ConfigAssumption
<1>1. CP!IsFiniteSet(RoutedLayers \X Experts) /\ CP!IsFiniteSet(Sessions \X Routes)
    BY FiniteActors, SameFinite DEF Callers, ExpertKeys
<1>2. [k \in RoutedLayers \X Experts |-> ExpertBytes[k[1]]] \in [RoutedLayers \X Experts -> Nat]
    BY OptionsAssumption
<1> QED
    BY <1>1, <1>2, OptionsAssumption DEF CP!ConfigAssumption

\* The types the cache keeps, in the names of Inference.
LEMMA CacheTypes == CP!IndInv => Cache!TypeOK
BY DEF CP!IndInv, CP!TypeOK, Cache!TypeOK, CP!Running, CP!Returned, Cache!Running, Cache!Returned

LEMMA SameReturned == Cache!Returned = CP!Returned /\ Cache!Running = CP!Running
BY DEF Cache!Returned, CP!Returned, Cache!Running, CP!Running

-----------------------------------------------------------------------------
(* What a session asks of the cache is a step of the cache. *)

LEMMA SameTurn ==
    ASSUME NEW w
    PROVE  /\ Cache!Hit(w) <=> CP!Hit(w)
           /\ Cache!Wait(w) <=> CP!Wait(w)
           /\ Cache!Reserve(w) <=> CP!Reserve(w)
           /\ Cache!Refuse(w) <=> CP!Refuse(w)
<1>1. Cache!Hit(w) <=> CP!Hit(w)
    BY DEF Cache!Hit, CP!Hit, Cache!Pin, CP!Pin, Cache!Touched, CP!Touched,
           Cache!Ready, CP!Ready, Cache!Return, CP!Return
<1>2. Cache!Wait(w) <=> CP!Wait(w)
    BY DEF Cache!Wait, CP!Wait
<1>3. Cache!Reserve(w) <=> CP!Reserve(w)
    BY DEF Cache!Reserve, CP!Reserve, Cache!MakesRoom, CP!MakesRoom, Cache!EvictionPrefix, CP!EvictionPrefix,
           Cache!Fits, CP!Fits, Cache!Bytes, CP!Bytes, Cache!Cardinality, CP!Cardinality, Cache!Evict, CP!Evict,
           Cache!Forgotten, CP!Forgotten, Cache!Unpinned, CP!Unpinned, Cache!Ready, CP!Ready,
           Cache!SaturatingInc, CP!SaturatingInc
<1>4. Cache!Refuse(w) <=> CP!Refuse(w)
    BY DEF Cache!Refuse, CP!Refuse, Cache!NoRoom, CP!NoRoom, Cache!EvictionPrefix, CP!EvictionPrefix,
           Cache!Fits, CP!Fits, Cache!Bytes, CP!Bytes, Cache!Cardinality, CP!Cardinality, Cache!Evict, CP!Evict,
           Cache!Forgotten, CP!Forgotten, Cache!Unpinned, CP!Unpinned, Cache!Ready, CP!Ready,
           Cache!SaturatingInc, CP!SaturatingInc, Cache!Return, CP!Return
<1> QED
    BY <1>1, <1>2, <1>3, <1>4

LEMMA SameLoaderEnds ==
    ASSUME NEW w
    PROVE  /\ Cache!Publish(w) <=> CP!Publish(w)
           /\ Cache!Abandon(w) <=> CP!Abandon(w)
           /\ Cache!SpuriousWake(w) <=> CP!SpuriousWake(w)
<1>1. Cache!Publish(w) <=> CP!Publish(w)
    BY DEF Cache!Publish, CP!Publish, Cache!Touched, CP!Touched, Cache!Ready, CP!Ready,
           Cache!NotifyAll, CP!NotifyAll
<1>2. Cache!Abandon(w) <=> CP!Abandon(w)
    BY DEF Cache!Abandon, CP!Abandon, Cache!SaturatingSub, CP!SaturatingSub,
           Cache!NotifyAll, CP!NotifyAll
<1>3. Cache!SpuriousWake(w) <=> CP!SpuriousWake(w)
    BY DEF Cache!SpuriousWake, CP!SpuriousWake
<1> QED
    BY <1>1, <1>2, <1>3

LEMMA SameCall ==
    ASSUME NEW w, NEW k
    PROVE  /\ Cache!Call(w, k) <=> CP!Call(w, k)
           /\ Cache!DropLease(w, k) <=> CP!DropLease(w, k)
<1>1. Cache!Call(w, k) <=> CP!Call(w, k)
    BY DEF Cache!Call, CP!Call, Cache!Idle, CP!Idle, Cache!Return, CP!Return,
           Cache!Returned, CP!Returned
<1>2. Cache!DropLease(w, k) <=> CP!DropLease(w, k)
    BY DEF Cache!DropLease, CP!DropLease, Cache!SaturatingSub, CP!SaturatingSub,
           Cache!RemoveEphemeral, CP!RemoveEphemeral, Cache!Forgotten, CP!Forgotten,
           Cache!NotifyAll, CP!NotifyAll, Cache!Returned, CP!Returned
<1> QED
    BY <1>1, <1>2

LEMMA SameClear == Cache!ClearUnpinned <=> CP!ClearUnpinned
BY DEF Cache!ClearUnpinned, CP!ClearUnpinned, Cache!Evict, CP!Evict, Cache!Bytes, CP!Bytes,
       Cache!Cardinality, CP!Cardinality, Cache!Forgotten, CP!Forgotten,
       Cache!Unpinned, CP!Unpinned, Cache!Ready, CP!Ready

\* A turn, the end of a load and a wakeup are steps of the cache.
LEMMA CacheStepFollows ==
    ASSUME NEW s \in Sessions, NEW r \in Routes, CacheStep(s, r)
    PROVE  Cache!Next /\ CP!Next
<1> DEFINE w == <<s, r>>
<1>1. w \in Sessions \X Routes
    OBVIOUS
<1>2. Cache!Turn(w) \/ Cache!LoaderEnds(w) \/ Cache!SpuriousWake(w)
    BY DEF CacheStep
<1>3. Cache!Next
    BY <1>1, <1>2 DEF Cache!Next
<1>4. CP!Turn(w) \/ CP!LoaderEnds(w) \/ CP!SpuriousWake(w)
    BY <1>2, SameTurn, SameLoaderEnds DEF Cache!Turn, CP!Turn, Cache!LoaderEnds, CP!LoaderEnds
<1>5. CP!Next
    BY <1>1, <1>4 DEF CP!Next
<1> QED
    BY <1>3, <1>5

\* A route in hand is a key of the cache.
LEMMA RouteIsKey ==
    ASSUME NEW s \in Sessions, NEW r \in Routes, SessionTypes, Rows(s), Leased(s),
           phase[s] \in {"load", "compute"}
    PROVE  KeyOf(s, r) \in ExpertKeys
<1>1. layer[s] \in RoutedLayers
    BY OptionsAssumption DEF SessionTypes, Rows, Layers, RoutedLayers
<1>2. routes[s][r] \in Experts
    BY DEF Leased, Injections
<1> QED
    BY <1>1, <1>2 DEF KeyOf, ExpertKeys

\* Every step of a session is a step of the cache or leaves it alone.
LEMMA CacheFollows ==
    ASSUME Inv, [Next]_vars
    PROVE  (Cache!Next \/ UNCHANGED cacheVars) /\ (CP!Next \/ UNCHANGED cacheVars)
<1>1. CASE UNCHANGED vars
    BY <1>1 DEF vars
<1>2. ASSUME NEW s \in Sessions, Begin(s) \/ Reset(s) \/ EvaluationStep(s)
      PROVE  UNCHANGED cacheVars
    BY <1>2 DEF Begin, Reset, EvaluationStep, DenseLayer, RouteToken, LayerFails, Collect,
                FinishToken, FinishFails, NextLayer, Commit, OutputFails, Dropped, Rollback, Recovered
<1>3. ASSUME NEW s \in Sessions, NEW r \in Routes, LoadRoute(s, r)
      PROVE  Cache!Next /\ CP!Next
  <2>1. KeyOf(s, r) \in RoutedLayers \X Experts
    BY <1>3, RouteIsKey DEF LoadRoute, Inv, ExpertKeys
  <2>2. Cache!Call(<<s, r>>, KeyOf(s, r)) /\ CP!Call(<<s, r>>, KeyOf(s, r))
    BY <1>3, SameCall DEF LoadRoute
  <2>3. <<s, r>> \in Sessions \X Routes
    OBVIOUS
  <2> QED
    BY <2>1, <2>2, <2>3 DEF Cache!Next, CP!Next
<1>4. ASSUME NEW s \in Sessions, NEW r \in Routes, CacheStep(s, r)
      PROVE  Cache!Next /\ CP!Next
    BY <1>4, CacheStepFollows
<1>5. ASSUME NEW s \in Sessions, NEW r \in Routes, DropFirst(s, r)
      PROVE  Cache!Next /\ CP!Next
  <2>1. <<s, r>> \in Sessions \X Routes
    OBVIOUS
  <2>2. PICK k \in held[<<s, r>>] : Cache!DropLease(<<s, r>>, k)
    BY <1>5 DEF DropFirst
  <2>3. k \in RoutedLayers \X Experts
    BY <2>1, <2>2, CacheTypes DEF Inv, Cache!TypeOK
  <2>4. CP!DropLease(<<s, r>>, k)
    BY <2>2, SameCall
  <2> QED
    BY <2>1, <2>2, <2>3, <2>4 DEF Cache!Next, CP!Next
<1>6. ASSUME ClearUnpinned PROVE Cache!Next /\ CP!Next
  <2>1. Cache!ClearUnpinned /\ CP!ClearUnpinned
    BY <1>6, SameClear DEF ClearUnpinned
  <2> QED
    BY <2>1 DEF Cache!Next, CP!Next
<1> QED
    BY <1>1, <1>2, <1>3, <1>4, <1>5, <1>6 DEF Next, RouteStep

\* So the cache keeps its own invariant under the sessions.
LEMMA CacheKept ==
    ASSUME Inv, [Next]_vars
    PROVE  CP!IndInv'
<1>1. [CP!Next]_(CP!vars)
    BY CacheFollows DEF cacheVars, CP!vars
<1> QED
    BY <1>1, CP!IndInvStep, ConfigHolds DEF Inv

-----------------------------------------------------------------------------
(* What the steps of the cache do to its callers. *)

\* A notification may put a waiting caller back to its turn; nothing else of
\* a caller that does not move changes.
Still(u) ==
    /\ held'[u] = held[u] /\ req'[u] = req[u]
    /\ pc'[u] = pc[u] \/ (pc[u] = "wait" /\ pc'[u] = "try")

\* A call in the cache goes on, returns its lease, or returns an error.
Moves(w) ==
    /\ pc[w] \in Cache!Running
    /\ req'[w] = req[w]
    /\ \/ pc'[w] \in Cache!Running /\ held'[w] = held[w]
       \/ pc'[w] = "lease" /\ held'[w] = held[w] \cup {req[w]}
       \/ pc'[w] \in Cache!Returned \ {"lease"} /\ held'[w] = held[w]

\* A caller that has returned is not moved by a notification.
LEMMA ReturnedStays ==
    ASSUME NEW w \in Callers, Still(w), pc[w] \in Cache!Returned
    PROVE  pc'[w] = pc[w] /\ held'[w] = held[w]
BY DEF Still, Cache!Returned

LEMMA TurnMoves ==
    ASSUME Cache!TypeOK, NEW w \in Callers, Cache!Turn(w)
    PROVE  Moves(w) /\ \A u \in Callers \ {w} : Still(u)
<1>1. CASE Cache!Hit(w)
    BY <1>1 DEF Cache!Hit, Cache!Pin, Cache!Return, Cache!TypeOK, Callers, Moves, Still, Cache!Running
<1>2. CASE Cache!Wait(w)
    BY <1>2 DEF Cache!Wait, Cache!TypeOK, Callers, Moves, Still, Cache!Running
<1>3. CASE Cache!Reserve(w)
  <2>1. pc[w] = "try" /\ pc' = [pc EXCEPT ![w] = "load"] /\ UNCHANGED <<req, held>>
    BY <1>3 DEF Cache!Reserve
  <2> QED
    BY <2>1 DEF Cache!TypeOK, Callers, Moves, Still, Cache!Running
<1>4. CASE Cache!Refuse(w)
  <2>1. pc[w] = "try" /\ pc' = [pc EXCEPT ![w] = "CapacityPinned"] /\ UNCHANGED <<req, held>>
    BY <1>4 DEF Cache!Refuse, Cache!Return
  <2> QED
    BY <2>1 DEF Cache!TypeOK, Callers, Moves, Still, Cache!Running, Cache!Returned
<1> QED
    BY <1>1, <1>2, <1>3, <1>4 DEF Cache!Turn

LEMMA LoaderMoves ==
    ASSUME Cache!TypeOK, NEW w \in Callers, Cache!LoaderEnds(w) \/ Cache!SpuriousWake(w)
    PROVE  Moves(w) /\ \A u \in Callers \ {w} : Still(u)
<1>1. CASE Cache!Publish(w)
  <2>1. pc[w] = "load" /\ req' = req
    BY <1>1 DEF Cache!Publish
  <2>2. CASE entry[req[w]] = "loading"
    <3>1. /\ held' = [held EXCEPT ![w] = @ \cup {req[w]}]
          /\ pc' = Cache!NotifyAll([pc EXCEPT ![w] = "lease"])
      BY <1>1, <2>2 DEF Cache!Publish
    <3> QED
      BY <2>1, <3>1 DEF Cache!NotifyAll, Cache!TypeOK, Callers, Moves, Still, Cache!Running
  <2>3. CASE entry[req[w]] # "loading"
    <3>1. held' = held /\ pc' = Cache!NotifyAll([pc EXCEPT ![w] = "ReservationLost"])
      BY <1>1, <2>3 DEF Cache!Publish
    <3> QED
      BY <2>1, <3>1 DEF Cache!NotifyAll, Cache!TypeOK, Callers, Moves, Still, Cache!Running, Cache!Returned
  <2> QED
    BY <2>2, <2>3
<1>2. CASE Cache!Abandon(w)
  <2>1. /\ pc[w] = "load" /\ req' = req /\ held' = held
        /\ pc' = Cache!NotifyAll([pc EXCEPT ![w] = "LoadFailed"])
    BY <1>2 DEF Cache!Abandon
  <2> QED
    BY <2>1 DEF Cache!NotifyAll, Cache!TypeOK, Callers, Moves, Still, Cache!Running, Cache!Returned
<1>3. CASE Cache!SpuriousWake(w)
    BY <1>3 DEF Cache!SpuriousWake, Cache!TypeOK, Callers, Moves, Still, Cache!Running
<1> QED
    BY <1>1, <1>2, <1>3 DEF Cache!LoaderEnds

LEMMA CacheStepMoves ==
    ASSUME Inv, NEW s \in Sessions, NEW r \in Routes, CacheStep(s, r)
    PROVE  Moves(<<s, r>>) /\ \A u \in Callers \ {<<s, r>>} : Still(u)
<1>1. Cache!TypeOK /\ <<s, r>> \in Callers
    BY CacheTypes DEF Inv, Callers
<1> QED
    BY <1>1, TurnMoves, LoaderMoves DEF CacheStep

\* A call is made with the size checks of get_or_try_insert behind it: the
\* options allow no empty expert and none larger than the cache.
LEMMA CallMoves ==
    ASSUME Cache!TypeOK, NEW w \in Callers, NEW k \in ExpertKeys, Cache!Call(w, k)
    PROVE  /\ pc'[w] = "try" /\ req'[w] = k /\ held'[w] = held[w]
           /\ \A u \in Callers \ {w} : Still(u)
<1> DEFINE Size == [x \in RoutedLayers \X Experts |-> ExpertBytes[x[1]]]
           Answer == CASE Size[k] = 0 -> "EmptyEntry"
                       [] Size[k] > Capacity -> "EntryTooLarge"
                       [] OTHER -> "try"
<1>1. pc' = [pc EXCEPT ![w] = Answer] /\ req' = [req EXCEPT ![w] = k] /\ held' = held
    BY DEF Cache!Call, Cache!Return
<1>2. Size[k] \in Nat \ {0} /\ ~(Size[k] > Capacity)
    BY OptionsAssumption DEF ExpertKeys
<1>3. Size[k] # 0
    BY <1>2
<1> HIDE DEF Size
<1>4. Answer = "try"
    BY <1>2, <1>3, Zenon
<1> HIDE DEF Answer
<1> QED
    BY <1>1, <1>4 DEF Cache!TypeOK, Callers, Still

\* A dropped lease leaves its caller, and wakes the waiters.
LEMMA DropMoves ==
    ASSUME Cache!TypeOK, NEW w \in Callers, NEW k, Cache!DropLease(w, k)
    PROVE  /\ pc'[w] = pc[w] /\ req'[w] = req[w] /\ held'[w] = held[w] \ {k}
           /\ \A u \in Callers \ {w} : Still(u)
<1>1. /\ pc[w] \in Cache!Returned
      /\ pc' = Cache!NotifyAll(pc) /\ req' = req /\ held' = [held EXCEPT ![w] = @ \ {k}]
    BY DEF Cache!DropLease
<1> QED
    BY <1>1 DEF Cache!NotifyAll, Cache!Returned, Cache!TypeOK, Callers, Still

-----------------------------------------------------------------------------
(* Calls and leases. *)

\* Only a route that has asked for its load is in the cache.
LEMMA RunningLoads ==
    ASSUME Inv, NEW s \in Sessions, NEW r \in Routes, pc[<<s, r>>] \in Cache!Running
    PROVE  /\ phase[s] = "load" /\ r \in started[s]
           /\ req[<<s, r>>] = KeyOf(s, r) /\ held[<<s, r>>] = {}
<1>1. pc[<<s, r>>] \notin Cache!Returned
    BY DEF Cache!Running, Cache!Returned
<1>2. phase[s] = "load" /\ RouteLoads(s, r)
    BY <1>1 DEF Inv, Leased
<1>3. pc[<<s, r>>] # "lease"
    BY DEF Cache!Running
<1> QED
    BY <1>1, <1>2, <1>3 DEF RouteLoads

\* What concerns a session alone leaves the leases of the others as they are.
LEMMA LeasedFrame ==
    ASSUME Inv, NEW x \in Sessions,
           phase'[x] = phase[x], layer'[x] = layer[x],
           routes'[x] = routes[x], started'[x] = started[x],
           \A r \in Routes : Still(<<x, r>>)
    PROVE  Leased(x)'
<1>1. Leased(x)
    BY DEF Inv
<1>2. \A r \in Routes : KeyOf(x, r)' = KeyOf(x, r)
    BY DEF KeyOf
<1>3. \A r \in Routes : <<x, r>> \in Callers
    BY DEF Callers
<1>4. \A r \in Routes : pc[<<x, r>>] \in Cache!Returned => pc'[<<x, r>>] = pc[<<x, r>>]
    BY <1>3, ReturnedStays
<1>5. "lease" \in Cache!Returned
    BY DEF Cache!Returned
<1>6. phase[x] = "load" => \A r \in Routes : RouteLoads(x, r)'
  <2> SUFFICES ASSUME phase[x] = "load", NEW r \in Routes PROVE RouteLoads(x, r)'
    OBVIOUS
  <2>1. RouteLoads(x, r)
    BY <1>1 DEF Leased
  <2>2. held'[<<x, r>>] = held[<<x, r>>] /\ req'[<<x, r>>] = req[<<x, r>>]
    BY DEF Still
  <2>3. (pc'[<<x, r>>] = "lease") <=> (pc[<<x, r>>] = "lease")
    BY <1>4, <1>5 DEF Still
  <2>4. pc[<<x, r>>] \in Cache!Returned => pc'[<<x, r>>] \in Cache!Returned
    BY <1>4
  <2> QED
    BY <2>1, <2>2, <2>3, <2>4, <1>2 DEF RouteLoads, Cache!Returned
<1>7. \A r \in Routes : held'[<<x, r>>] = held[<<x, r>>]
    BY DEF Still
<1>8. \A r \in Routes : pc[<<x, r>>] \in Cache!Returned => pc'[<<x, r>>] \in Cache!Returned
    BY <1>4
<1> QED
    BY <1>1, <1>2, <1>4, <1>5, <1>6, <1>7, <1>8 DEF Leased, Cache!Returned

\* When the cache is left alone every caller is still.
LEMMA StillAlone ==
    ASSUME UNCHANGED cacheVars
    PROVE  \A u \in Callers : Still(u)
BY DEF cacheVars, Still

\* A step of one session: the others keep their leases, and nobody gets a
\* second one.
OnlySession(s) ==
    \A x \in Sessions \ {s} : /\ phase'[x] = phase[x] /\ layer'[x] = layer[x]
                              /\ routes'[x] = routes[x] /\ started'[x] = started[x]

LEMMA LeasedBegin ==
    ASSUME Inv, NEW s \in Sessions, Begin(s) \/ Reset(s)
    PROVE  Leased(s)' /\ OnlySession(s)
BY DEF Begin, Reset, Goto, Inv, SessionTypes, Leased, OnlySession, cacheVars, RouteLoads

LEMMA LeasedLayer ==
    ASSUME Inv, NEW s \in Sessions, DenseLayer(s) \/ RouteToken(s) \/ LayerFails(s)
    PROVE  Leased(s)' /\ OnlySession(s)
<1>1. CASE DenseLayer(s)
    BY <1>1 DEF DenseLayer, Inv, SessionTypes, Leased, OnlySession, cacheVars
<1>2. CASE RouteToken(s)
  <2>1. /\ phase[s] = "layer" /\ phase' = [phase EXCEPT ![s] = "load"]
        /\ UNCHANGED <<layer, started, pc, held>>
    BY <1>2 DEF RouteToken, Goto, cacheVars
  <2>2. PICK f \in Injections : routes' = [routes EXCEPT ![s] = f]
    BY <1>2 DEF RouteToken
  <2>3. started[s] = {} /\ \A r \in Routes : pc[<<s, r>>] \in Cache!Returned /\ held[<<s, r>>] = {}
    BY <2>1 DEF Inv, Leased
  <2>4. phase'[s] = "load" /\ routes'[s] = f /\ OnlySession(s)
    BY <2>1, <2>2 DEF Inv, SessionTypes, OnlySession
  <2>5. \A r \in Routes : RouteLoads(s, r)'
    BY <2>1, <2>3 DEF RouteLoads, Cache!Returned
  <2> QED
    BY <2>4, <2>5 DEF Leased
<1>3. CASE LayerFails(s)
    BY <1>3 DEF LayerFails, Goto, Inv, SessionTypes, Leased, OnlySession, cacheVars
<1> QED
    BY <1>1, <1>2, <1>3

LEMMA LeasedCollect ==
    ASSUME Inv, NEW s \in Sessions, Collect(s)
    PROVE  Leased(s)' /\ OnlySession(s)
<1>1. phase[s] = "load" /\ AllReturned(s) /\ UNCHANGED <<layer, pc, held, req>>
    BY DEF Collect, cacheVars
<1>2. routes[s] \in Injections /\ \A r \in Routes : RouteLoads(s, r)
    BY <1>1 DEF Inv, Leased
<1>3. CASE AllLeased(s) /\ Goto(s, "compute") /\ UNCHANGED <<routes, started>>
  <2>1. \A r \in Routes : pc[<<s, r>>] = "lease" /\ held[<<s, r>>] = {KeyOf(s, r)}
    BY <1>2, <1>3 DEF AllLeased, RouteLoads
  <2>2. \A r \in Routes : KeyOf(s, r)' = KeyOf(s, r)
    BY <1>1, <1>3 DEF KeyOf
  <2>3. phase'[s] = "compute" /\ OnlySession(s)
    BY <1>1, <1>3 DEF Goto, Inv, SessionTypes, OnlySession
  <2> QED
    BY <1>1, <1>2, <1>3, <2>1, <2>2, <2>3 DEF Leased, Cache!Returned
<1>4. CASE Goto(s, "drop") /\ LeaveLayer(s)
  <2>1. phase'[s] = "drop" /\ routes'[s] = <<>> /\ started'[s] = {} /\ OnlySession(s)
    BY <1>1, <1>4 DEF Goto, LeaveLayer, Inv, SessionTypes, OnlySession
  <2>2. \A r \in Routes : pc[<<s, r>>] \in Cache!Returned
    BY <1>1, <1>2 DEF AllReturned, RouteLoads, Cache!Returned
  <2> QED
    BY <1>1, <2>1, <2>2 DEF Leased, Cache!Returned
<1> QED
    BY <1>3, <1>4 DEF Collect

LEMMA LeasedFinish ==
    ASSUME Inv, NEW s \in Sessions, FinishToken(s) \/ FinishFails(s)
    PROVE  Leased(s)' /\ OnlySession(s)
<1>1. /\ phase[s] = "compute" /\ UNCHANGED <<layer, pc, held>> /\ LeaveLayer(s)
      /\ Goto(s, "clear") \/ Goto(s, "rollback")
    BY DEF FinishToken, FinishFails, cacheVars
<1>2. /\ phase'[s] \in {"clear", "rollback"} /\ routes'[s] = <<>> /\ started'[s] = {}
      /\ OnlySession(s)
    BY <1>1 DEF Goto, LeaveLayer, Inv, SessionTypes, OnlySession
<1>3. \A r \in Routes : pc[<<s, r>>] = "lease"
    BY <1>1 DEF Inv, Leased
<1> QED
    BY <1>1, <1>2, <1>3 DEF Leased, Cache!Returned

LEMMA LeasedRest ==
    ASSUME Inv, NEW s \in Sessions,
           NextLayer(s) \/ Commit(s) \/ OutputFails(s) \/ Dropped(s) \/ Rollback(s) \/ Recovered(s)
    PROVE  Leased(s)' /\ OnlySession(s)
<1>1. /\ phase[s] \in {"clear", "drop", "rollback", "unpin"}
      /\ UNCHANGED <<routes, started, pc, held>>
      /\ \A x \in Sessions \ {s} : layer'[x] = layer[x]
    BY DEF NextLayer, Commit, OutputFails, Dropped, Rollback, Recovered, cacheVars, Inv, SessionTypes
<1>2. \/ phase' = [phase EXCEPT ![s] = "layer"] /\ Leases(s) = {}
      \/ phase' = [phase EXCEPT ![s] = "idle"] /\ Leases(s) = {}
      \/ phase' = [phase EXCEPT ![s] = "rollback"]
      \/ phase' = [phase EXCEPT ![s] = "unpin"]
    BY DEF NextLayer, Commit, OutputFails, Dropped, Rollback, Recovered, Goto, LeasesGone
<1>3. Leases(s) = {} => \A r \in Routes : held[<<s, r>>] = {}
    BY DEF Leases
<1>4. /\ routes[s] = <<>> /\ started[s] = {}
      /\ \A r \in Routes : pc[<<s, r>>] \in Cache!Returned
    BY <1>1 DEF Inv, Leased
<1>5. OnlySession(s)
    BY <1>1, <1>2 DEF OnlySession, Inv, SessionTypes
<1>6. /\ phase'[s] \in {"layer", "idle", "rollback", "unpin"}
      /\ phase'[s] \in {"layer", "idle"} => Leases(s) = {}
    BY <1>2 DEF Inv, SessionTypes
<1> QED
    BY <1>1, <1>3, <1>4, <1>5, <1>6 DEF Leased, Cache!Returned

\* A caller of another session is another caller.
LEMMA OtherCallers ==
    ASSUME NEW s, NEW r, NEW x \in Sessions \ {s}, NEW q \in Routes
    PROVE  <<x, q>> \in Callers \ {<<s, r>>}
BY DEF Callers

LEMMA LeasedLoad ==
    ASSUME Inv, NEW s \in Sessions, NEW r \in Routes, LoadRoute(s, r), NEW x \in Sessions
    PROVE  Leased(x)'
<1> DEFINE w == <<s, r>>
<1>1. /\ phase[s] = "load" /\ r \notin started[s]
      /\ started' = [started EXCEPT ![s] = @ \cup {r}] /\ UNCHANGED <<phase, routes, layer>>
    BY DEF LoadRoute
<1>2. w \in Callers /\ KeyOf(s, r) \in ExpertKeys
    BY <1>1, RouteIsKey DEF Inv, Callers
<1>3. /\ pc'[w] = "try" /\ req'[w] = KeyOf(s, r) /\ held'[w] = held[w]
      /\ \A u \in Callers \ {w} : Still(u)
    BY <1>2, CallMoves, CacheTypes DEF LoadRoute, Inv
<1>4. CASE x # s
  <2>1. started'[x] = started[x]
    BY <1>1, <1>4 DEF Inv, SessionTypes
  <2>2. \A q \in Routes : Still(<<x, q>>)
    BY <1>3, <1>4, OtherCallers
  <2> QED
    BY <1>1, <2>1, <2>2, LeasedFrame
<1>5. CASE x = s
  <2>1. routes[s] \in Injections /\ \A q \in Routes : RouteLoads(s, q)
    BY <1>1 DEF Inv, Leased
  <2>2. \A q \in Routes : KeyOf(s, q)' = KeyOf(s, q)
    BY <1>1 DEF KeyOf
  <2>3. started'[s] = started[s] \cup {r}
    BY <1>1 DEF Inv, SessionTypes
  <2>4. RouteLoads(s, r)'
    BY <1>1, <1>3, <2>1, <2>2, <2>3 DEF RouteLoads
  <2>5. ASSUME NEW q \in Routes \ {r} PROVE RouteLoads(s, q)'
    <3>1. <<s, q>> \in Callers \ {w}
      BY DEF Callers
    <3>2. /\ held'[<<s, q>>] = held[<<s, q>>] /\ req'[<<s, q>>] = req[<<s, q>>]
          /\ \/ pc'[<<s, q>>] = pc[<<s, q>>]
             \/ pc[<<s, q>>] = "wait" /\ pc'[<<s, q>>] = "try"
      BY <1>3, <3>1 DEF Still
    <3> QED
      BY <2>1, <2>2, <2>3, <3>2 DEF RouteLoads, Cache!Returned
  <2> QED
    BY <1>1, <1>5, <2>1, <2>4, <2>5 DEF Leased, Inv, SessionTypes
<1> QED
    BY <1>4, <1>5

LEMMA LeasedCacheStep ==
    ASSUME Inv, NEW s \in Sessions, NEW r \in Routes, CacheStep(s, r), NEW x \in Sessions
    PROVE  Leased(x)'
<1> DEFINE w == <<s, r>>
<1>1. UNCHANGED <<phase, layer, routes, started>>
    BY DEF CacheStep
<1>2. Moves(w) /\ \A u \in Callers \ {w} : Still(u)
    BY CacheStepMoves
<1>3. /\ phase[s] = "load" /\ r \in started[s]
      /\ req[w] = KeyOf(s, r) /\ held[w] = {}
    BY <1>2, RunningLoads DEF Moves
<1>4. CASE x # s
  <2>1. \A q \in Routes : Still(<<x, q>>)
    BY <1>2, <1>4, OtherCallers
  <2> QED
    BY <1>1, <2>1, LeasedFrame
<1>5. CASE x = s
  <2>1. routes[s] \in Injections /\ \A q \in Routes : RouteLoads(s, q)
    BY <1>3 DEF Inv, Leased
  <2>2. \A q \in Routes : KeyOf(s, q)' = KeyOf(s, q)
    BY <1>1 DEF KeyOf
  <2>3. req'[w] = KeyOf(s, r) /\ held'[w] = IF pc'[w] = "lease" THEN {KeyOf(s, r)} ELSE {}
    BY <1>2, <1>3 DEF Moves, Cache!Running
  <2>4. RouteLoads(s, r)'
    BY <1>1, <1>3, <2>2, <2>3 DEF RouteLoads
  <2>5. ASSUME NEW q \in Routes \ {r} PROVE RouteLoads(s, q)'
    <3>1. <<s, q>> \in Callers \ {w}
      BY DEF Callers
    <3>2. /\ held'[<<s, q>>] = held[<<s, q>>] /\ req'[<<s, q>>] = req[<<s, q>>]
          /\ \/ pc'[<<s, q>>] = pc[<<s, q>>]
             \/ pc[<<s, q>>] = "wait" /\ pc'[<<s, q>>] = "try"
      BY <1>2, <3>1 DEF Still
    <3> QED
      BY <1>1, <2>1, <2>2, <3>2 DEF RouteLoads, Cache!Returned
  <2> QED
    BY <1>1, <1>3, <1>5, <2>1, <2>4, <2>5 DEF Leased
<1> QED
    BY <1>4, <1>5

LEMMA LeasedDrop ==
    ASSUME Inv, NEW s \in Sessions, NEW r \in Routes, DropFirst(s, r), NEW x \in Sessions
    PROVE  Leased(x)'
<1> DEFINE w == <<s, r>>
<1>1. phase[s] \in {"clear", "drop", "unpin"} /\ UNCHANGED <<phase, layer, routes, started>>
    BY DEF DropFirst
<1>2. PICK k \in held[w] : Cache!DropLease(w, k)
    BY DEF DropFirst
<1>3. /\ pc'[w] = pc[w]
      /\ \A u \in Callers \ {w} : Still(u)
    BY <1>2, DropMoves, CacheTypes DEF Inv, Callers
<1>4. CASE x # s
  <2>1. \A q \in Routes : Still(<<x, q>>)
    BY <1>3, <1>4, OtherCallers
  <2> QED
    BY <1>1, <2>1, LeasedFrame
<1>5. CASE x = s
  <2>1. /\ routes[s] = <<>> /\ started[s] = {}
        /\ \A q \in Routes : pc[<<s, q>>] \in Cache!Returned
    BY <1>1 DEF Inv, Leased
  <2>2. ASSUME NEW q \in Routes PROVE pc'[<<s, q>>] \in Cache!Returned
    <3>1. CASE q = r
      BY <1>3, <2>1, <3>1
    <3>2. CASE q # r
      <4>1. <<s, q>> \in Callers \ {w}
        BY <3>2 DEF Callers
      <4> QED
        BY <1>3, <2>1, <4>1, ReturnedStays
    <3> QED
      BY <3>1, <3>2
  <2> QED
    BY <1>1, <1>5, <2>1, <2>2 DEF Leased, Cache!Returned
<1> QED
    BY <1>4, <1>5

\* Every step keeps the calls and leases of every session in line with the
\* phase the session is in.
LEMMA LeasedStep ==
    ASSUME Inv, [Next]_vars, NEW x \in Sessions
    PROVE  Leased(x)'
<1>1. ASSUME NEW s \in Sessions, Begin(s) \/ Reset(s) \/ EvaluationStep(s)
      PROVE  Leased(x)'
  <2>1. UNCHANGED cacheVars
    BY <1>1 DEF Begin, Reset, EvaluationStep, DenseLayer, RouteToken, LayerFails, Collect,
                FinishToken, FinishFails, NextLayer, Commit, OutputFails, Dropped, Rollback, Recovered
  <2>2. Leased(s)' /\ OnlySession(s)
    BY <1>1, LeasedBegin, LeasedLayer, LeasedCollect, LeasedFinish, LeasedRest DEF EvaluationStep
  <2>3. \A q \in Routes : Still(<<x, q>>)
    BY <2>1, StillAlone DEF Callers
  <2> QED
    BY <2>2, <2>3, LeasedFrame DEF OnlySession
<1>2. CASE ClearUnpinned \/ UNCHANGED vars
  <2>1. UNCHANGED <<phase, layer, routes, started, pc, req, held>>
    BY <1>2 DEF ClearUnpinned, Cache!ClearUnpinned, vars, cacheVars
  <2>2. \A q \in Routes : Still(<<x, q>>)
    BY <2>1 DEF Still
  <2> QED
    BY <2>1, <2>2, LeasedFrame
<1> QED
    BY <1>1, <1>2, LeasedLoad, LeasedCacheStep, LeasedDrop DEF Next, RouteStep

\* Every step leaves every caller with one lease at most.
LEMMA OneLeaseStep ==
    ASSUME Inv, [Next]_vars
    PROVE  OneLease'
<1>1. ASSUME NEW w \in Callers, NEW k, held'[w] \subseteq held[w] \/ held'[w] \subseteq {k}
      PROVE  \A a, b \in held'[w] : a = b
    BY <1>1 DEF Inv, OneLease
<1>2. CASE UNCHANGED held
    BY <1>2 DEF Inv, OneLease
<1>3. ASSUME NEW s \in Sessions, NEW r \in Routes, CacheStep(s, r)
      PROVE  OneLease'
  <2>1. Moves(<<s, r>>) /\ \A u \in Callers \ {<<s, r>>} : Still(u)
    BY <1>3, CacheStepMoves
  <2>2. held'[<<s, r>>] \subseteq {req[<<s, r>>]}
    BY <2>1, RunningLoads DEF Moves
  <2> QED
    BY <1>1, <2>1, <2>2 DEF Still, OneLease
<1>4. ASSUME NEW s \in Sessions, NEW r \in Routes, DropFirst(s, r)
      PROVE  OneLease'
  <2>1. PICK k \in held[<<s, r>>] : Cache!DropLease(<<s, r>>, k)
    BY <1>4 DEF DropFirst
  <2>2. <<s, r>> \in Callers /\ Cache!TypeOK
    BY CacheTypes DEF Inv, Callers
  <2>3. /\ held'[<<s, r>>] \subseteq held[<<s, r>>]
        /\ \A u \in Callers \ {<<s, r>>} : Still(u)
    BY <2>1, <2>2, DropMoves
  <2> QED
    BY <1>1, <2>3 DEF Still, OneLease
<1>5. ASSUME NEW s \in Sessions, Begin(s) \/ Reset(s) \/ EvaluationStep(s)
      PROVE  UNCHANGED held
    BY <1>5 DEF Begin, Reset, EvaluationStep, DenseLayer, RouteToken, LayerFails, Collect, cacheVars,
                FinishToken, FinishFails, NextLayer, Commit, OutputFails, Dropped, Rollback, Recovered
<1>6. ASSUME NEW s \in Sessions, NEW r \in Routes, LoadRoute(s, r)
      PROVE  UNCHANGED held
    BY <1>6 DEF LoadRoute, Cache!Call
<1>7. ASSUME ClearUnpinned \/ UNCHANGED vars
      PROVE  UNCHANGED held
    BY <1>7 DEF ClearUnpinned, Cache!ClearUnpinned, vars, cacheVars
<1> QED
    BY <1>2, <1>3, <1>4, <1>5, <1>6, <1>7 DEF Next, RouteStep

-----------------------------------------------------------------------------
(* Rows and positions. *)

LEMMA Numbers ==
    /\ 0 \in Layers /\ 1 \in Layers
    /\ Context \in Nat
    /\ \A s \in Sessions : MaxTokens[s] \in Nat
<1>1. MoeLayers \in Nat \ {0}
    BY OptionsAssumption
<1>2. MaxTokens \in [Sessions -> Nat] /\ Context \in Nat
    BY OptionsAssumption
<1> QED
    BY <1>1, <1>2 DEF Layers

\* The rows of a session are its own affair: it alone changes them.
OwnRows(s) ==
    \A x \in Sessions \ {s} :
        /\ phase'[x] = phase[x] /\ layer'[x] = layer[x] /\ pending'[x] = pending[x]
        /\ stored'[x] = stored[x] /\ position'[x] = position[x] /\ begun'[x] = begun[x]

LEMMA RowsFrame ==
    ASSUME NEW x, Rows(x),
           phase'[x] = phase[x], layer'[x] = layer[x], pending'[x] = pending[x],
           stored'[x] = stored[x], position'[x] = position[x], begun'[x] = begun[x]
    PROVE  Rows(x)'
BY DEF Rows

LEMMA RowsBegin ==
    ASSUME Inv, NEW s \in Sessions, Begin(s) \/ Reset(s)
    PROVE  SessionTypes' /\ Rows(s)' /\ OwnRows(s)
<1>1. CASE Begin(s)
  <2>1. /\ phase[s] = "idle" /\ begun[s] < MaxTokens[s] /\ position[s] < Context
        /\ phase' = [phase EXCEPT ![s] = "layer"] /\ layer' = [layer EXCEPT ![s] = 0]
        /\ begun' = [begun EXCEPT ![s] = @ + 1]
        /\ UNCHANGED <<routes, started, pending, stored, position>>
    BY <1>1 DEF Begin, Goto, ContextLeft
  <2>2. SessionTypes' /\ OwnRows(s)
    BY <2>1, Numbers DEF Inv, SessionTypes, Phases, OwnRows
  <2>3. /\ phase'[s] = "layer" /\ layer'[s] = 0 /\ begun'[s] = begun[s] + 1
        /\ begun[s] \in Nat /\ position[s] \in Nat /\ MaxTokens[s] \in Nat
    BY <2>1, Numbers DEF Inv, SessionTypes
  <2>4. Rows(s)'
    BY <2>1, <2>3 DEF Inv, Rows, Layers
  <2> QED
    BY <2>2, <2>4
<1>2. CASE Reset(s)
  <2>1. /\ phase[s] = "idle"
        /\ stored' = [stored EXCEPT ![s] = [l \in Layers |-> 0]]
        /\ pending' = [pending EXCEPT ![s] = FALSE]
        /\ position' = [position EXCEPT ![s] = 0]
        /\ UNCHANGED <<phase, layer, routes, started, begun>>
    BY <1>2 DEF Reset, ScratchReset
  <2>2. SessionTypes' /\ OwnRows(s)
    BY <2>1, OptionsAssumption DEF Inv, SessionTypes, OwnRows
  <2>3. /\ stored'[s] = [l \in Layers |-> 0] /\ position'[s] = 0 /\ pending'[s] = FALSE
        /\ begun[s] \in Nat
    BY <2>1 DEF Inv, SessionTypes
  <2>4. Rows(s)'
    BY <2>1, <2>3 DEF Inv, Rows
  <2> QED
    BY <2>2, <2>4
<1> QED
    BY <1>1, <1>2

LEMMA RowsLayer ==
    ASSUME Inv, NEW s \in Sessions, DenseLayer(s) \/ RouteToken(s)
    PROVE  SessionTypes' /\ Rows(s)' /\ OwnRows(s)
<1>1. /\ phase[s] = "layer" /\ LayerChecks(s)
      /\ stored' = [stored EXCEPT ![s][layer[s]] = @ + 1]
      /\ UNCHANGED <<started, position, begun>>
    BY DEF DenseLayer, RouteToken, AppendRow
<1>2. /\ layer[s] \in Layers /\ position[s] \in Nat /\ position[s] < Context /\ Context \in Nat
      /\ stored[s] \in [Layers -> 0..Context] /\ stored[s][layer[s]] = position[s]
    BY <1>1, OptionsAssumption DEF Inv, SessionTypes, Rows, LayerChecks
<1>3. /\ stored'[s] = [stored[s] EXCEPT ![layer[s]] = position[s] + 1]
      /\ \A x \in Sessions \ {s} : stored'[x] = stored[x]
    BY <1>1, <1>2 DEF Inv, SessionTypes
<1>4. stored' \in [Sessions -> [Layers -> 0..Context]]
  <2>1. stored'[s] \in [Layers -> 0..Context]
    BY <1>2, <1>3
  <2>2. stored' \in [Sessions -> [Layers -> 0..Context]]
    BY <1>1, <1>2, <1>3, <2>1 DEF Inv, SessionTypes
  <2> QED
    BY <2>2
<1>5. \A l \in Layers : stored[s][l] = IF l < layer[s] THEN position[s] + 1 ELSE position[s]
    BY <1>1 DEF Inv, Rows
<1>6. \A l \in Layers : stored'[s][l] = IF l <= layer[s] THEN position[s] + 1 ELSE position[s]
  <2> TAKE l \in Layers
  <2>1. l \in Int /\ layer[s] \in Int
    BY <1>2 DEF Layers
  <2>2. stored'[s][l] = IF l = layer[s] THEN position[s] + 1 ELSE stored[s][l]
    BY <1>2, <1>3
  <2> QED
    BY <1>5, <2>1, <2>2
<1>7. CASE DenseLayer(s)
  <2>1. layer[s] = 0 /\ layer' = [layer EXCEPT ![s] = 1] /\ UNCHANGED <<phase, routes, pending>>
    BY <1>7 DEF DenseLayer
  <2>2. SessionTypes' /\ OwnRows(s) /\ layer'[s] = 1
    BY <1>1, <1>3, <1>4, <2>1, Numbers DEF Inv, SessionTypes, OwnRows
  <2>3. \A l \in Layers : stored'[s][l] = IF l < 1 THEN position[s] + 1 ELSE position[s]
    BY <1>6, <2>1 DEF Layers
  <2> QED
    BY <1>1, <2>1, <2>2, <2>3 DEF Inv, Rows
<1>8. CASE RouteToken(s)
  <2>1. /\ layer[s] > 0 /\ UNCHANGED layer
        /\ phase' = [phase EXCEPT ![s] = "load"]
        /\ pending' = [pending EXCEPT ![s] = TRUE]
        /\ \E f \in Injections : routes' = [routes EXCEPT ![s] = f]
    BY <1>8 DEF RouteToken, Goto
  <2>2. SessionTypes' /\ OwnRows(s) /\ phase'[s] = "load" /\ pending'[s] = TRUE
    BY <1>1, <1>3, <1>4, <2>1 DEF Inv, SessionTypes, Phases, OwnRows
  <2> QED
    BY <1>1, <1>6, <2>1, <2>2 DEF Inv, Rows
<1> QED
    BY <1>7, <1>8

LEMMA RowsFail ==
    ASSUME Inv, NEW s \in Sessions, LayerFails(s)
    PROVE  SessionTypes' /\ Rows(s)' /\ OwnRows(s)
<1>1. /\ phase[s] = "layer" /\ phase' = [phase EXCEPT ![s] = "rollback"]
      /\ UNCHANGED <<layer, routes, started, pending, position, begun>>
      /\ \/ stored[s][layer[s]] < Context /\ stored' = [stored EXCEPT ![s][layer[s]] = @ + 1]
         \/ stored' = stored
    BY DEF LayerFails, Goto, AppendRow
<1>2. /\ layer[s] \in Layers /\ Context \in Nat /\ stored[s][layer[s]] \in 0..Context
    BY OptionsAssumption DEF Inv, SessionTypes
<1>3. /\ stored' \in [Sessions -> [Layers -> 0..Context]]
      /\ \A x \in Sessions \ {s} : stored'[x] = stored[x]
  <2>1. CASE stored' = stored
    BY <2>1 DEF Inv, SessionTypes
  <2>2. CASE stored[s][layer[s]] < Context /\ stored' = [stored EXCEPT ![s][layer[s]] = @ + 1]
    <3>1. stored[s][layer[s]] + 1 \in 0..Context
      BY <1>2, <2>2
    <3>2. stored' = [stored EXCEPT ![s] = [stored[s] EXCEPT ![layer[s]] = stored[s][layer[s]] + 1]]
      BY <2>2
    <3>3. [stored[s] EXCEPT ![layer[s]] = stored[s][layer[s]] + 1] \in [Layers -> 0..Context]
      BY <1>2, <3>1 DEF Inv, SessionTypes
    <3> QED
      BY <3>2, <3>3 DEF Inv, SessionTypes
  <2> QED
    BY <1>1, <2>1, <2>2
<1>4. SessionTypes' /\ OwnRows(s) /\ phase'[s] = "rollback"
    BY <1>1, <1>3 DEF Inv, SessionTypes, Phases, OwnRows
<1> QED
    BY <1>1, <1>4 DEF Inv, Rows

LEMMA RowsLoaded ==
    ASSUME Inv, NEW s \in Sessions, Collect(s) \/ FinishToken(s) \/ FinishFails(s)
    PROVE  SessionTypes' /\ Rows(s)' /\ OwnRows(s)
<1>1. /\ phase[s] \in {"load", "compute"} /\ UNCHANGED <<layer, stored, position, begun>>
      /\ LeaveLayer(s) \/ UNCHANGED <<routes, started>>
    BY DEF Collect, FinishToken, FinishFails
<1>2. \/ phase' = [phase EXCEPT ![s] = "compute"] /\ phase[s] = "load" /\ pending' = pending
      \/ phase' = [phase EXCEPT ![s] = "drop"] /\ pending' = pending
      \/ phase' = [phase EXCEPT ![s] = "rollback"] /\ pending' = pending
      \/ phase' = [phase EXCEPT ![s] = "clear"] /\ pending' = [pending EXCEPT ![s] = FALSE]
    BY DEF Collect, FinishToken, FinishFails, Goto
<1>3. routes' \in [Sessions -> Injections \cup {<<>>}] /\ started' \in [Sessions -> SUBSET Routes]
    BY <1>1 DEF LeaveLayer, Inv, SessionTypes
<1>4. SessionTypes' /\ OwnRows(s)
    BY <1>1, <1>2, <1>3 DEF Inv, SessionTypes, Phases, OwnRows
<1>5. \/ phase'[s] = "compute" /\ pending'[s] = pending[s]
      \/ phase'[s] \in {"drop", "rollback"} /\ pending'[s] = pending[s]
      \/ phase'[s] = "clear" /\ pending'[s] = FALSE
    BY <1>2 DEF Inv, SessionTypes
<1> QED
    BY <1>1, <1>4, <1>5 DEF Inv, Rows

LEMMA RowsClear ==
    ASSUME Inv, NEW s \in Sessions, NextLayer(s) \/ Commit(s) \/ OutputFails(s)
    PROVE  SessionTypes' /\ Rows(s)' /\ OwnRows(s)
<1>1. phase[s] = "clear" /\ UNCHANGED <<routes, started, pending, stored, begun>>
    BY DEF NextLayer, Commit, OutputFails
<1>2. /\ layer[s] \in Layers /\ layer[s] > 0 /\ position[s] < Context /\ position[s] < begun[s]
      /\ position[s] \in Nat /\ Context \in Nat /\ begun[s] \in Nat /\ MoeLayers \in Nat
      /\ pending[s] = FALSE
      /\ \A l \in Layers : stored[s][l] = IF l <= layer[s] THEN position[s] + 1 ELSE position[s]
    BY <1>1, OptionsAssumption DEF Inv, SessionTypes, Rows
<1>3. CASE NextLayer(s)
  <2>1. /\ layer[s] < MoeLayers /\ layer' = [layer EXCEPT ![s] = @ + 1]
        /\ phase' = [phase EXCEPT ![s] = "layer"] /\ UNCHANGED position
    BY <1>3 DEF NextLayer, Goto
  <2>2. layer[s] + 1 \in Layers
    BY <1>2, <2>1 DEF Layers
  <2>3. SessionTypes' /\ OwnRows(s) /\ layer'[s] = layer[s] + 1 /\ phase'[s] = "layer"
    BY <1>1, <2>1, <2>2 DEF Inv, SessionTypes, Phases, OwnRows
  <2>4. \A l \in Layers : stored[s][l] = IF l < layer[s] + 1 THEN position[s] + 1 ELSE position[s]
    BY <1>2 DEF Layers
  <2> QED
    BY <1>1, <2>1, <2>3, <2>4 DEF Inv, Rows
<1>4. CASE Commit(s)
  <2>1. /\ layer[s] = MoeLayers /\ position' = [position EXCEPT ![s] = @ + 1]
        /\ phase' = [phase EXCEPT ![s] = "idle"] /\ UNCHANGED layer
    BY <1>4 DEF Commit, Goto
  <2>2. position[s] + 1 \in 0..Context
    BY <1>2
  <2>3. /\ SessionTypes' /\ OwnRows(s)
        /\ position'[s] = position[s] + 1 /\ phase'[s] = "idle"
    BY <1>1, <2>1, <2>2 DEF Inv, SessionTypes, Phases, OwnRows
  <2>4. \A l \in Layers : stored[s][l] = position[s] + 1
    BY <1>2, <2>1 DEF Layers
  <2>5. position[s] + 1 <= begun[s]
    BY <1>2
  <2> QED
    BY <1>1, <2>1, <2>3, <2>4, <2>5 DEF Inv, Rows
<1>5. CASE OutputFails(s)
  <2>1. phase' = [phase EXCEPT ![s] = "rollback"] /\ UNCHANGED <<layer, position>>
    BY <1>5 DEF OutputFails, Goto
  <2>2. SessionTypes' /\ OwnRows(s) /\ phase'[s] = "rollback"
    BY <1>1, <2>1 DEF Inv, SessionTypes, Phases, OwnRows
  <2> QED
    BY <1>1, <2>1, <2>2 DEF Inv, Rows
<1> QED
    BY <1>3, <1>4, <1>5

\* An evaluation that fails, wherever it fails, ends with every layer rewound
\* and the phase flag cleared.
LEMMA RowsRecover ==
    ASSUME Inv, NEW s \in Sessions, Dropped(s) \/ Rollback(s) \/ Recovered(s)
    PROVE  SessionTypes' /\ Rows(s)' /\ OwnRows(s)
<1>1. UNCHANGED <<layer, routes, started, position, begun>>
    BY DEF Dropped, Rollback, Recovered
<1>2. CASE Dropped(s)
  <2>1. phase[s] = "drop" /\ phase' = [phase EXCEPT ![s] = "rollback"] /\ UNCHANGED <<pending, stored>>
    BY <1>2 DEF Dropped, Goto
  <2>2. SessionTypes' /\ OwnRows(s) /\ phase'[s] = "rollback"
    BY <1>1, <2>1 DEF Inv, SessionTypes, Phases, OwnRows
  <2> QED
    BY <1>1, <2>1, <2>2 DEF Inv, Rows
<1>3. CASE Rollback(s)
  <2>1. /\ phase[s] = "rollback" /\ phase' = [phase EXCEPT ![s] = "unpin"]
        /\ stored' = [stored EXCEPT ![s] = [l \in Layers |-> position[s]]]
        /\ pending' = [pending EXCEPT ![s] = FALSE]
    BY <1>3 DEF Rollback, Goto, Rewound, ScratchReset
  <2>2. [l \in Layers |-> position[s]] \in [Layers -> 0..Context]
    BY DEF Inv, SessionTypes
  <2>3. SessionTypes'
    BY <1>1, <2>1, <2>2 DEF Inv, SessionTypes, Phases
  <2>4. /\ OwnRows(s) /\ phase'[s] = "unpin" /\ pending'[s] = FALSE
        /\ stored'[s] = [l \in Layers |-> position[s]]
    BY <1>1, <2>1 DEF Inv, SessionTypes, OwnRows
  <2>5. \A l \in Layers : stored'[s][l] = position[s]
    BY <2>4
  <2> QED
    BY <1>1, <2>1, <2>3, <2>4, <2>5 DEF Inv, Rows
<1>4. CASE Recovered(s)
  <2>1. phase[s] = "unpin" /\ phase' = [phase EXCEPT ![s] = "idle"] /\ UNCHANGED <<pending, stored>>
    BY <1>4 DEF Recovered, Goto
  <2>2. SessionTypes' /\ OwnRows(s) /\ phase'[s] = "idle"
    BY <1>1, <2>1 DEF Inv, SessionTypes, Phases, OwnRows
  <2> QED
    BY <1>1, <2>1, <2>2 DEF Inv, Rows
<1> QED
    BY <1>2, <1>3, <1>4

\* Every step keeps the types, and the rows of every session in line with the
\* phase the session is in.
LEMMA RowsStep ==
    ASSUME Inv, [Next]_vars
    PROVE  SessionTypes' /\ \A x \in Sessions : Rows(x)'
<1>1. ASSUME NEW s \in Sessions, Begin(s) \/ Reset(s) \/ EvaluationStep(s)
      PROVE  SessionTypes' /\ \A x \in Sessions : Rows(x)'
  <2>1. SessionTypes' /\ Rows(s)' /\ OwnRows(s)
    BY <1>1, RowsBegin, RowsLayer, RowsFail, RowsLoaded, RowsClear, RowsRecover DEF EvaluationStep
  <2> QED
    BY <2>1, RowsFrame DEF Inv, OwnRows
<1>2. ASSUME NEW s \in Sessions, NEW r \in Routes, LoadRoute(s, r)
      PROVE  SessionTypes' /\ \A x \in Sessions : Rows(x)'
  <2>1. UNCHANGED <<phase, layer, routes, pending, stored, position, begun>>
    BY <1>2 DEF LoadRoute
  <2>2. SessionTypes'
    BY <1>2, <2>1 DEF LoadRoute, Inv, SessionTypes
  <2> QED
    BY <2>1, <2>2, RowsFrame DEF Inv
<1>3. ASSUME UNCHANGED <<phase, layer, routes, started, pending, stored, position, begun>>
      PROVE  SessionTypes' /\ \A x \in Sessions : Rows(x)'
  <2>1. SessionTypes'
    BY <1>3 DEF Inv, SessionTypes
  <2> QED
    BY <1>3, <2>1, RowsFrame DEF Inv
<1>4. ASSUME NEW s \in Sessions, NEW r \in Routes, CacheStep(s, r) \/ DropFirst(s, r)
      PROVE  UNCHANGED <<phase, layer, routes, started, pending, stored, position, begun>>
    BY <1>4 DEF CacheStep, DropFirst
<1>5. ASSUME ClearUnpinned \/ UNCHANGED vars
      PROVE  UNCHANGED <<phase, layer, routes, started, pending, stored, position, begun>>
    BY <1>5 DEF ClearUnpinned, vars
<1> QED
    BY <1>1, <1>2, <1>3, <1>4, <1>5 DEF Next, RouteStep

-----------------------------------------------------------------------------
(* Theorems. *)

\* Fresh sessions on an empty cache.
LEMMA InitInv == Init => Inv
<1> SUFFICES ASSUME Init PROVE Inv
    OBVIOUS
<1>1. CP!IndInv
  <2>1. PICK k \in RoutedLayers \X Experts : req = [w \in Sessions \X Routes |-> k]
    BY DEF Init
  <2>2. CP!Init
    BY <2>1 DEF Init, Cache!Init, CP!Init
  <2> QED
    BY <2>2, CP!InitIndInv, ConfigHolds
<1>2. SessionTypes
    BY Numbers DEF Init, SessionTypes, Phases
<1>3. held = [w \in Callers |-> {}] /\ pc = [w \in Callers |-> "none"]
    BY DEF Init, Cache!Init, Callers
<1>4. OneLease
    BY <1>3 DEF OneLease
<1>5. ASSUME NEW s \in Sessions PROVE Rows(s) /\ Leased(s)
  <2>1. phase[s] = "idle" /\ layer[s] = 0 /\ routes[s] = <<>> /\ started[s] = {}
    BY DEF Init
  <2>2. pending[s] = FALSE /\ position[s] = 0 /\ begun[s] = 0 /\ \A l \in Layers : stored[s][l] = 0
    BY DEF Init
  <2>3. Rows(s)
    BY <2>1, <2>2, Numbers DEF Rows
  <2>4. \A r \in Routes : pc[<<s, r>>] = "none" /\ held[<<s, r>>] = {}
    BY <1>3 DEF Callers
  <2> QED
    BY <2>1, <2>3, <2>4 DEF Leased, Cache!Returned
<1> QED
    BY <1>1, <1>2, <1>4, <1>5 DEF Inv

\* The inductive invariant of the sessions and the cache they share.
THEOREM Invariance == Spec => []Inv
<1>1. Init => Inv
    BY InitInv
<1>2. Inv /\ [Next]_vars => Inv'
    BY CacheKept, RowsStep, LeasedStep, OneLeaseStep DEF Inv
<1> QED
    BY <1>1, <1>2, PTL DEF Spec

\* What Inference relies on of the cache is what ExpertCache specifies: a
\* behaviour of the sessions is, seen from the cache, one of its behaviours.
THEOREM CacheServesSessions == Spec => Cache!Spec
<1>1. Init => Cache!Init
    BY DEF Init
<1>2. Inv /\ [Next]_vars => [Cache!Next]_(Cache!vars)
    BY CacheFollows DEF cacheVars, Cache!vars
<1> QED
    BY <1>1, <1>2, Invariance, PTL DEF Spec, Cache!Spec

\* hy3_moe_finish_token computes on the experts the router chose: every route
\* has its lease and the entry behind it is in the cache, for every number of
\* sessions and every interleaving with evictions, drops and clears.
THEOREM ComputationSound == Spec => []ComputesOnRouted
<1>1. Inv => ComputesOnRouted
  <2> SUFFICES ASSUME Inv, NEW s \in Sessions, phase[s] = "compute", NEW r \in Routes
               PROVE  held[<<s, r>>] = {KeyOf(s, r)} /\ entry[KeyOf(s, r)] = "ready"
    BY DEF ComputesOnRouted
  <2>1. held[<<s, r>>] = {KeyOf(s, r)}
    BY DEF Inv, Leased
  <2>2. KeyOf(s, r) \in RoutedLayers \X Experts
    BY RouteIsKey DEF Inv, ExpertKeys
  <2>3. <<s, r>> \in CP!Holders(KeyOf(s, r))
    BY <2>1 DEF CP!Holders
  <2>4. entry[KeyOf(s, r)] = "ready"
    BY <2>2, <2>3 DEF Inv, CP!IndInv, CP!LeasesPin
  <2> QED
    BY <2>1, <2>4
<1> QED
    BY <1>1, Invariance, PTL

\* rollback_to and the scratch reset leave a session fit for its next token
\* wherever the last one failed: no lease, no row too many or too few in any
\* layer, and no check of a kernel that refuses.
THEOREM SessionsRecover == Spec => []SessionsReusable
<1>1. Inv => SessionsReusable
  <2> SUFFICES ASSUME Inv PROVE SessionsReusable
    OBVIOUS
  <2>1. TypeOK
    BY CacheTypes DEF Inv, SessionTypes, Rows, TypeOK
  <2>2. SettledBetweenTokens
    <3> SUFFICES ASSUME NEW s \in Sessions, phase[s] = "idle"
                 PROVE  Leases(s) = {} /\ \A l \in Layers : stored[s][l] = position[s]
      BY DEF SettledBetweenTokens
    <3>1. \A r \in Routes : held[<<s, r>>] = {}
      BY DEF Inv, Leased
    <3>2. Leases(s) = {}
      BY <3>1 DEF Leases
    <3> QED
      BY <3>2 DEF Inv, Rows
  <2>3. ChecksNeverRefuse
    <3> SUFFICES ASSUME NEW s \in Sessions, phase[s] = "layer" PROVE LayerChecks(s)
      BY DEF ChecksNeverRefuse
    <3>1. layer[s] \in Layers /\ layer[s] \in Int
      BY OptionsAssumption DEF Inv, SessionTypes, Layers
    <3>2. pending[s] = FALSE
      BY DEF Inv, Rows
    <3>3. stored[s][layer[s]] = IF layer[s] < layer[s] THEN position[s] + 1 ELSE position[s]
      BY <3>1 DEF Inv, Rows
    <3> QED
      BY <3>1, <3>2, <3>3 DEF LayerChecks
  <2> QED
    BY <2>1, <2>2, <2>3 DEF SessionsReusable
<1> QED
    BY <1>1, Invariance, PTL

-----------------------------------------------------------------------------
(* A cache sized for the sessions. *)

\* A set of natural numbers has a least element.
LEMMA LeastNatural ==
   ASSUME NEW S \in SUBSET Nat, S # {}
   PROVE  \E m \in S : \A n \in S : m <= n
<1> DEFINE R == {p \in Nat \X Nat : p[1] < p[2]}
<1>1. IsWellFoundedOn(R, Nat)
  <2>1. OpToRel(<, Nat) = R
    BY DEF OpToRel
  <2> QED
    BY NatLessThanWellFounded, <2>1
<1>2. PICK m \in S : \A n \in S : ~(<<n, m>> \in R)
    BY <1>1, WFMin
<1>3. ASSUME NEW n \in S PROVE m <= n
  <2>1. m \in Nat /\ n \in Nat /\ ~(n < m)
    BY <1>2
  <2> QED
    BY <2>1
<1> QED
    BY <1>3

\* There is a largest expert.
LEMMA LargestExists ==
    LargestExpert \in Nat /\ \A l \in RoutedLayers : ExpertBytes[l] \in Nat /\ ExpertBytes[l] <= LargestExpert
<1>1. ExpertBytes \in [RoutedLayers -> Nat] /\ Capacity \in Nat /\ \A l \in RoutedLayers : ExpertBytes[l] <= Capacity
    BY OptionsAssumption
<1>2. 1 \in RoutedLayers
  <2>1. MoeLayers \in Nat \ {0}
    BY OptionsAssumption
  <2> QED
    BY <2>1 DEF RoutedLayers
<1> DEFINE Spare == {Capacity - ExpertBytes[l] : l \in RoutedLayers}
<1>3. Spare \in SUBSET Nat /\ Spare # {}
    BY <1>1, <1>2
<1>4. PICK m \in Spare : \A n \in Spare : m <= n
    BY <1>3, LeastNatural
<1>5. PICK top \in RoutedLayers : m = Capacity - ExpertBytes[top]
    BY <1>4
<1>6. \A l \in RoutedLayers : ExpertBytes[l] <= ExpertBytes[top]
  <2> TAKE l \in RoutedLayers
  <2>1. Capacity - ExpertBytes[l] \in Spare
    OBVIOUS
  <2>2. Capacity - ExpertBytes[top] <= Capacity - ExpertBytes[l]
    BY <1>4, <1>5, <2>1
  <2>3. ExpertBytes[l] \in Nat /\ ExpertBytes[top] \in Nat
    BY <1>1
  <2> QED
    BY <1>1, <2>2, <2>3
<1> DEFINE Sizes == {ExpertBytes[l] : l \in RoutedLayers}
<1>7. \E b \in Sizes : \A l \in RoutedLayers : ExpertBytes[l] <= b
    BY <1>6
<1>8. LargestExpert \in Sizes /\ \A l \in RoutedLayers : ExpertBytes[l] <= LargestExpert
    BY <1>7 DEF LargestExpert
<1> QED
    BY <1>1, <1>8

\* The entries that cannot be evicted: loads in flight and leased entries.
Fixed == CP!Loading \cup (CP!Ready \ CP!Unpinned)

\* Entries of at most Largest bytes take no more than their number times that.
LEMMA BytesBounded ==
    ASSUME NEW P \in SUBSET ExpertKeys
    PROVE  CP!Bytes(P) \in Nat /\ CP!Bytes(P) <= Cardinality(P) * LargestExpert
<1> DEFINE Size == [k \in RoutedLayers \X Experts |-> ExpertBytes[k[1]]]
           B == {b \in P \X (1..Capacity) : b[2] <= Size[b[1]]}
           Box == P \X (1..LargestExpert)
<1>1. LargestExpert \in Nat /\ IsFiniteSet(P)
    BY LargestExists, FiniteActors, FS_Subset
<1>2. IsFiniteSet(1..LargestExpert) /\ Cardinality(1..LargestExpert) = LargestExpert
    BY <1>1, FS_Interval
<1>3. IsFiniteSet(Box) /\ Cardinality(Box) = Cardinality(P) * LargestExpert
    BY <1>1, <1>2, FS_Product
<1>4. B \in SUBSET Box
  <2> SUFFICES ASSUME NEW k \in P, NEW i \in 1..Capacity, i <= Size[k]
               PROVE  i \in 1..LargestExpert
    OBVIOUS
  <2>1. k[1] \in RoutedLayers /\ Size[k] = ExpertBytes[k[1]]
    BY DEF ExpertKeys
  <2>2. Size[k] <= LargestExpert /\ Size[k] \in Nat
    BY <2>1, LargestExists
  <2>3. i \in Nat /\ 1 <= i
    BY OptionsAssumption
  <2> HIDE DEF Size
  <2> QED
    BY <1>1, <2>2, <2>3
<1>5. Cardinality(B) \in Nat /\ Cardinality(B) <= Cardinality(Box)
    BY <1>3, <1>4, FS_Subset, FS_CardinalityType
<1>6. CP!Bytes(P) = Cardinality(B)
    BY SameCardinality DEF CP!Bytes
<1> QED
    BY <1>3, <1>5, <1>6

\* Every such entry is borne by a caller, and a caller bears one: there are
\* fewer of them than callers while one more caller asks for its load.
LEMMA FewFixed ==
    ASSUME Inv, NEW w \in Callers, pc[w] = "try"
    PROVE  /\ Fixed \in SUBSET ExpertKeys
           /\ Cardinality(Fixed) \in Nat
           /\ Cardinality(Fixed) <= Cardinality(Sessions) * TopK - 1
<1> DEFINE Bears(u, k) == (pc[u] = "load" /\ req[u] = k) \/ k \in held[u]
           Rest == Callers \ {w}
           bearer == [k \in Fixed |-> CHOOSE u \in Rest : Bears(u, k)]
<1>1. Fixed \in SUBSET ExpertKeys
    BY DEF Fixed, CP!Loading, CP!Ready, ExpertKeys
<1>2. ASSUME NEW k \in Fixed PROVE \E u \in Callers : Bears(u, k)
  <2>1. k \in RoutedLayers \X Experts
    BY <1>1, <1>2 DEF ExpertKeys
  <2>2. CASE k \in CP!Loading
    BY <2>2 DEF Inv, CP!IndInv, CP!LoadsDeduplicated, Callers
  <2>3. CASE k \in CP!Ready \ CP!Unpinned
    <3>1. pins[k] # 0
      BY <2>3 DEF CP!Unpinned
    <3>2. CP!Holders(k) # {}
      <4>1. pins[k] = CP!Cardinality(CP!Holders(k))
        BY <2>1 DEF Inv, CP!IndInv, CP!LeasesPin
      <4> QED
        BY <3>1, <4>1, SameCardinality, FS_EmptySet
    <3> QED
      BY <3>2 DEF CP!Holders, Callers
  <2> QED
    BY <1>2, <2>2, <2>3 DEF Fixed
<1>3. \A k : ~Bears(w, k)
  <2>1. PICK s \in Sessions, r \in Routes : w = <<s, r>>
    BY DEF Callers
  <2>2. held[w] = {}
    BY <2>1, RunningLoads DEF Cache!Running
  <2> QED
    BY <2>2
<1>4. ASSUME NEW u \in Callers, NEW a, NEW b, Bears(u, a), Bears(u, b) PROVE a = b
  <2>1. PICK s \in Sessions, r \in Routes : u = <<s, r>>
    BY DEF Callers
  <2>2. pc[u] = "load" => held[u] = {}
    BY <2>1, RunningLoads DEF Cache!Running
  <2> QED
    BY <1>4, <2>2 DEF Inv, OneLease
<1>5. \A k \in Fixed : bearer[k] \in Rest /\ Bears(bearer[k], k)
    BY <1>2, <1>3
<1> HIDE DEF Bears, bearer
<1>6. \A a, b \in Fixed : bearer[a] = bearer[b] => a = b
    BY <1>4, <1>5
<1>7. bearer \in [Fixed -> Rest]
    BY <1>5 DEF bearer
<1>8. bearer \in Injection(Fixed, Rest)
    BY <1>6, <1>7 DEF Injection, IsInjective
<1>9. /\ IsFiniteSet(Rest)
      /\ Cardinality(Rest) = Cardinality(Callers) - 1
    BY FiniteActors, FS_RemoveElement
<1>10. IsFiniteSet(Fixed) /\ Cardinality(Fixed) <= Cardinality(Rest)
    BY <1>8, <1>9, FS_Injection DEF ExistsInjection
<1> QED
    BY <1>1, <1>9, <1>10, FiniteActors, FS_CardinalityType

\* Room for one expert per caller is room for one more.
LEMMA RoomForAll ==
    ASSUME NEW n \in Nat, NEW c \in Nat, NEW big \in Nat, NEW b \in Nat, NEW size \in Nat,
           c <= n - 1, b <= c * big, size <= big
    PROVE  b + size <= n * big
<1>1. PICK d \in Nat : n = c + 1 + d
    BY n - c - 1 \in Nat
<1>2. n * big = c * big + big + d * big
    BY <1>1
<1>3. d * big \in Nat /\ c * big \in Nat
    OBVIOUS
<1> QED
    BY <1>2, <1>3

\* The only step that returns CapacityPinned is a refusal.
LEMMA NoRefuseStep ==
    ASSUME Inv, Capacity >= Cardinality(Sessions) * TopK * LargestExpert,
           NEW w \in Callers
    PROVE  ~Cache!Refuse(w)
<1> SUFFICES ASSUME Cache!Refuse(w) PROVE FALSE
    OBVIOUS
<1> DEFINE Size == [k \in RoutedLayers \X Experts |-> ExpertBytes[k[1]]]
<1>1. pc[w] = "try" /\ req[w] \in RoutedLayers \X Experts
    BY CacheTypes DEF Cache!Refuse, Inv, Cache!TypeOK, Callers
<1>2. CP!Bytes(Fixed) + Size[req[w]] > Capacity
  <2>1. CP!Refuse(w) /\ w \in Sessions \X Routes /\ CP!IndInv
    BY SameTurn DEF Callers, Inv
  <2> QED
    BY <2>1, CP!RefuseStep, ConfigHolds DEF Fixed
<1>3. Size[req[w]] \in Nat /\ Size[req[w]] <= LargestExpert
    BY <1>1, LargestExists
<1> HIDE DEF Size
<1>4. CP!Bytes(Fixed) \in Nat /\ CP!Bytes(Fixed) <= Cardinality(Fixed) * LargestExpert
    BY <1>1, FewFixed, BytesBounded
<1>5. CP!Bytes(Fixed) + Size[req[w]] <= Cardinality(Sessions) * TopK * LargestExpert
  <2>1. Cardinality(Sessions) * TopK \in Nat
    BY FiniteActors
  <2> QED
    BY <1>1, <1>3, <1>4, <2>1, FewFixed, LargestExists, RoomForAll
<1>6. Cardinality(Sessions) * TopK * LargestExpert \in Nat /\ Capacity \in Nat
    BY FiniteActors, LargestExists, OptionsAssumption
<1> QED
    BY <1>2, <1>3, <1>4, <1>5, <1>6

\* A call in the cache is not refused, and other calls answer for themselves.
LEMMA RefusalKept ==
    ASSUME Inv, [Next]_vars, NoRefusal,
           Capacity >= Cardinality(Sessions) * TopK * LargestExpert
    PROVE  NoRefusal'
<1> SUFFICES ASSUME NEW u \in Callers PROVE pc'[u] # "CapacityPinned"
    BY DEF NoRefusal, Callers
<1>1. pc[u] # "CapacityPinned" /\ Cache!TypeOK
    BY CacheTypes DEF NoRefusal, Callers, Inv
<1>2. Still(u) => pc'[u] # "CapacityPinned"
    BY <1>1 DEF Still
<1>3. ASSUME NEW s \in Sessions, NEW r \in Routes, CacheStep(s, r)
      PROVE  pc'[u] # "CapacityPinned"
  <2> DEFINE w == <<s, r>>
  <2>1. w \in Callers /\ \A x \in Callers \ {w} : Still(x)
    BY <1>3, CacheStepMoves DEF Callers
  <2>2. CASE u # w
    BY <1>2, <2>1, <2>2
  <2>3. CASE u = w
    <3>1. ~Cache!Refuse(w)
      BY <2>1, NoRefuseStep
    <3>2. \/ pc' = [pc EXCEPT ![w] = "lease"] \/ pc' = [pc EXCEPT ![w] = "wait"]
          \/ pc' = [pc EXCEPT ![w] = "load"] \/ pc' = [pc EXCEPT ![w] = "try"]
          \/ pc' = Cache!NotifyAll([pc EXCEPT ![w] = "lease"])
          \/ pc' = Cache!NotifyAll([pc EXCEPT ![w] = "ReservationLost"])
          \/ pc' = Cache!NotifyAll([pc EXCEPT ![w] = "LoadFailed"])
      BY <1>3, <3>1 DEF CacheStep, Cache!Turn, Cache!Hit, Cache!Pin, Cache!Return, Cache!Wait,
                        Cache!Reserve, Cache!LoaderEnds, Cache!Publish, Cache!Abandon, Cache!SpuriousWake
    <3> QED
      BY <1>1, <2>1, <2>3, <3>2 DEF Cache!NotifyAll, Cache!TypeOK, Callers
  <2> QED
    BY <2>2, <2>3
<1>4. ASSUME NEW s \in Sessions, NEW r \in Routes, LoadRoute(s, r)
      PROVE  pc'[u] # "CapacityPinned"
  <2>1. <<s, r>> \in Callers /\ KeyOf(s, r) \in ExpertKeys
    BY <1>4, RouteIsKey DEF LoadRoute, Inv, Callers
  <2>2. pc'[<<s, r>>] = "try" /\ \A x \in Callers \ {<<s, r>>} : Still(x)
    BY <1>1, <1>4, <2>1, CallMoves DEF LoadRoute
  <2> QED
    BY <1>2, <2>2
<1>5. ASSUME NEW s \in Sessions, NEW r \in Routes, DropFirst(s, r)
      PROVE  pc'[u] # "CapacityPinned"
  <2>1. PICK k \in held[<<s, r>>] : Cache!DropLease(<<s, r>>, k)
    BY <1>5 DEF DropFirst
  <2>2. <<s, r>> \in Callers
    BY DEF Callers
  <2>3. pc'[<<s, r>>] = pc[<<s, r>>] /\ \A x \in Callers \ {<<s, r>>} : Still(x)
    BY <1>1, <2>1, <2>2, DropMoves
  <2> QED
    BY <1>1, <1>2, <2>3
<1>6. ASSUME NEW s \in Sessions, Begin(s) \/ Reset(s) \/ EvaluationStep(s)
      PROVE  UNCHANGED pc
    BY <1>6 DEF Begin, Reset, EvaluationStep, DenseLayer, RouteToken, LayerFails, Collect, cacheVars,
                FinishToken, FinishFails, NextLayer, Commit, OutputFails, Dropped, Rollback, Recovered
<1>7. ASSUME ClearUnpinned \/ UNCHANGED vars
      PROVE  UNCHANGED pc
    BY <1>7 DEF ClearUnpinned, Cache!ClearUnpinned, vars, cacheVars
<1> QED
    BY <1>1, <1>3, <1>4, <1>5, <1>6, <1>7 DEF Next, RouteStep

\* An expert_cache_bytes of TopK of the largest experts for each session is
\* enough: no interleaving of sessions, failures and rollbacks leaves leases
\* or loads behind that make the cache refuse one.
THEOREM SizedCacheServes == Spec => []SizedNeverRefuses
<1> DEFINE Sized == Capacity >= Cardinality(Sessions) * TopK * LargestExpert
<1>1. Init => NoRefusal
    BY DEF Init, Cache!Init, NoRefusal
<1>2. Init => SizedNeverRefuses
    BY <1>1 DEF SizedNeverRefuses
<1>3. Inv /\ SizedNeverRefuses /\ [Next]_vars => SizedNeverRefuses'
  <2> SUFFICES ASSUME Inv, SizedNeverRefuses, [Next]_vars, Sized PROVE NoRefusal'
    BY DEF SizedNeverRefuses
  <2> QED
    BY RefusalKept DEF SizedNeverRefuses
<1> QED
    BY <1>2, <1>3, Invariance, PTL DEF Spec
=============================================================================
