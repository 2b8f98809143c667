------------------------- MODULE ExpertCache_proofs -------------------------
(***************************************************************************)
(* Proofs about ExpertCache for every set of keys and threads, every       *)
(* assignment of sizes, every capacity and every admission threshold: the  *)
(* byte accounts, leases, loads and admission first, then recency, what is *)
(* evicted and when a request is refused.                                  *)
(***************************************************************************)
EXTENDS ExpertCache, FiniteSetTheorems, TLAPS

\* A call past the size checks asks for an entry the cache can hold and for
\* which its caller has no lease.
CallsSized ==
    \A t \in Threads : pc[t] \in Running =>
        Size[req[t]] \in 1..Capacity /\ req[t] \notin held[t]

\* Only such calls create entries.
EntriesFit == \A k \in Keys : entry[k] # "absent" => Size[k] \in 1..Capacity

\* The inductive invariant.
IndInv ==
    /\ TypeOK
    /\ CallsSized
    /\ EntriesFit
    /\ LoadsDeduplicated
    /\ LeasesPin
    /\ AdmissionHysteresis
    /\ Accounting

-----------------------------------------------------------------------------
(* Facts about Bytes. *)

ByteSet(S) == {b \in S \X (1..Capacity) : b[2] <= Size[b[1]]}

\* The byte pairs of a set of entries are finitely many.
LEMMA ByteSetFinite ==
    ASSUME NEW S \in SUBSET Keys
    PROVE  IsFiniteSet(ByteSet(S)) /\ Bytes(S) \in Nat /\ Bytes(S) = Cardinality(ByteSet(S))
<1>1. IsFiniteSet(S)
    BY FS_Subset, ConfigAssumption
<1>2. IsFiniteSet(1..Capacity)
    BY FS_Interval, ConfigAssumption
<1>3. IsFiniteSet(S \X (1..Capacity))
    BY <1>1, <1>2, FS_Product
<1>4. ByteSet(S) \in SUBSET (S \X (1..Capacity))
    BY DEF ByteSet
<1>5. IsFiniteSet(ByteSet(S))
    BY <1>3, <1>4, FS_Subset
<1> QED
    BY <1>5, FS_CardinalityType DEF Bytes, ByteSet

\* Bytes is additive over disjoint sets of entries.
LEMMA BytesUnion ==
    ASSUME NEW S \in SUBSET Keys, NEW T \in SUBSET Keys, S \cap T = {}
    PROVE  Bytes(S \cup T) = Bytes(S) + Bytes(T)
<1>1. ByteSet(S \cup T) = ByteSet(S) \cup ByteSet(T)
    BY DEF ByteSet
<1>2. ByteSet(S) \cap ByteSet(T) = {}
    BY DEF ByteSet
<1>3. IsFiniteSet(ByteSet(S)) /\ IsFiniteSet(ByteSet(T))
    BY ByteSetFinite
<1>4. Cardinality(ByteSet(S) \cup ByteSet(T)) =
        Cardinality(ByteSet(S)) + Cardinality(ByteSet(T))
            - Cardinality(ByteSet(S) \cap ByteSet(T))
    BY <1>3, FS_Union
<1>5. S \cup T \in SUBSET Keys
    OBVIOUS
<1>6. Cardinality(ByteSet(S \cup T)) = Cardinality(ByteSet(S) \cup ByteSet(T))
    BY <1>1, Zenon
<1>7. Cardinality(ByteSet(S) \cap ByteSet(T)) = 0
    BY <1>2, FS_EmptySet, Zenon
<1>8. /\ Bytes(S \cup T) = Cardinality(ByteSet(S \cup T))
      /\ Bytes(S) = Cardinality(ByteSet(S)) /\ Bytes(S) \in Nat
      /\ Bytes(T) = Cardinality(ByteSet(T)) /\ Bytes(T) \in Nat
    BY <1>5, ByteSetFinite
<1> QED
    BY <1>4, <1>6, <1>7, <1>8

\* No entries take no bytes.
LEMMA BytesEmpty == Bytes({}) = 0
<1>1. ByteSet({}) = {}
    BY DEF ByteSet
<1> QED
    BY <1>1, ByteSetFinite, FS_EmptySet

\* An entry that fits the cache takes its size.
LEMMA BytesSingle ==
    ASSUME NEW k \in Keys, Size[k] \in 1..Capacity
    PROVE  Bytes({k}) = Size[k]
<1> DEFINE f == [i \in 1..Size[k] |-> <<k, i>>]
<1>1. f \in Bijection(1..Size[k], ByteSet({k}))
  <2>1. f \in [1..Size[k] -> ByteSet({k})]
    BY ConfigAssumption DEF ByteSet
  <2>2. \A i, j \in 1..Size[k] : f[i] = f[j] => i = j
    OBVIOUS
  <2>3. \A b \in ByteSet({k}) : \E i \in 1..Size[k] : f[i] = b
    BY ConfigAssumption DEF ByteSet
  <2> QED
    BY <2>1, <2>2, <2>3 DEF Bijection, Injection, Surjection, IsInjective
<1>2. ExistsBijection(1..Size[k], ByteSet({k}))
    BY <1>1 DEF ExistsBijection
<1>3. Cardinality(ByteSet({k})) = Size[k]
    BY <1>2, FS_CountingElements, ConfigAssumption
<1> QED
    BY <1>3, ByteSetFinite

\* Adding an entry adds its size.
LEMMA BytesAdd ==
    ASSUME NEW S \in SUBSET Keys, NEW k \in Keys, k \notin S, Size[k] \in 1..Capacity
    PROVE  Bytes(S \cup {k}) = Bytes(S) + Size[k]
BY BytesUnion, BytesSingle

\* Removing an entry, or a set of entries, subtracts what it takes.
LEMMA BytesRemove ==
    ASSUME NEW S \in SUBSET Keys, NEW V \in SUBSET S
    PROVE  /\ Bytes(S \ V) = Bytes(S) - Bytes(V)
           /\ Bytes(V) <= Bytes(S)
<1>1. Bytes((S \ V) \cup V) = Bytes(S \ V) + Bytes(V)
    BY BytesUnion
<1>2. Bytes((S \ V) \cup V) = Bytes(S)
  <2>1. (S \ V) \cup V = S
    OBVIOUS
  <2> QED
    BY <2>1, Zenon
<1>3. Bytes(S) \in Nat /\ Bytes(V) \in Nat /\ Bytes(S \ V) \in Nat
    BY ByteSetFinite
<1> QED
    BY <1>1, <1>2, <1>3

-----------------------------------------------------------------------------
(* Preservation, one lemma per part of the invariant, one step per action. *)

\* Every step keeps calls sized and entries within the capacity.
LEMMA CallsStep == IndInv /\ [Next]_vars => (CallsSized /\ EntriesFit)'
<1> SUFFICES ASSUME IndInv, [Next]_vars PROVE (CallsSized /\ EntriesFit)'
    OBVIOUS
<1>1. ASSUME NEW t \in Threads, NEW k \in Keys, GetHit(t, k) PROVE (CallsSized /\ EntriesFit)'
    BY <1>1, ConfigAssumption DEF GetHit, Idle, Pin, Return, IndInv, TypeOK, CallsSized, EntriesFit, Running, Returned
<1>2. ASSUME NEW t \in Threads, NEW k \in Keys, GetNone(t, k) PROVE (CallsSized /\ EntriesFit)'
    BY <1>2, ConfigAssumption DEF GetNone, Idle, Return, IndInv, TypeOK, CallsSized, EntriesFit, Running, Returned
<1>3. ASSUME NEW t \in Threads, NEW k \in Keys, Call(t, k) PROVE (CallsSized /\ EntriesFit)'
    BY <1>3, ConfigAssumption DEF Call, Idle, Return, IndInv, TypeOK, CallsSized, EntriesFit, Running, Returned
<1>4. ASSUME NEW t \in Threads, Hit(t) PROVE (CallsSized /\ EntriesFit)'
    BY <1>4, ConfigAssumption DEF Hit, Pin, Return, IndInv, TypeOK, CallsSized, EntriesFit, Running, Returned
<1>5. ASSUME NEW t \in Threads, Wait(t) PROVE (CallsSized /\ EntriesFit)'
    BY <1>5, ConfigAssumption DEF Wait, IndInv, TypeOK, CallsSized, EntriesFit, Running, Returned
<1>6. ASSUME NEW t \in Threads, Reserve(t) PROVE (CallsSized /\ EntriesFit)'
    BY <1>6, ConfigAssumption DEF Reserve, Unpinned, Ready, IndInv, TypeOK, CallsSized, EntriesFit, Running, Returned
<1>7. ASSUME NEW t \in Threads, Refuse(t) PROVE (CallsSized /\ EntriesFit)'
    BY <1>7, ConfigAssumption DEF Refuse, Return, Unpinned, Ready, IndInv, TypeOK, CallsSized, EntriesFit, Running, Returned
<1>8. ASSUME NEW t \in Threads, Publish(t) PROVE (CallsSized /\ EntriesFit)'
    BY <1>8, ConfigAssumption DEF Publish, NotifyAll, LoadsDeduplicated, IndInv, TypeOK, CallsSized, EntriesFit, Running, Returned
<1>9. ASSUME NEW t \in Threads, Abandon(t) PROVE (CallsSized /\ EntriesFit)'
    BY <1>9, ConfigAssumption DEF Abandon, NotifyAll, LoadsDeduplicated, IndInv, TypeOK, CallsSized, EntriesFit, Running, Returned
<1>10. ASSUME NEW t \in Threads, SpuriousWake(t) PROVE (CallsSized /\ EntriesFit)'
    BY <1>10, ConfigAssumption DEF SpuriousWake, IndInv, TypeOK, CallsSized, EntriesFit, Running, Returned
<1>11. ASSUME NEW t \in Threads, NEW k \in Keys, DropLease(t, k) PROVE (CallsSized /\ EntriesFit)'
    BY <1>11, ConfigAssumption DEF RemoveEphemeral, DropLease, NotifyAll, IndInv, TypeOK, CallsSized, EntriesFit, Running, Returned
<1>12. ASSUME ClearUnpinned PROVE (CallsSized /\ EntriesFit)'
    BY <1>12, ConfigAssumption DEF ClearUnpinned, IndInv, TypeOK, CallsSized, EntriesFit, Running, Returned
<1>13. ASSUME NEW counts \in Snapshots, ImportHeat(counts) PROVE (CallsSized /\ EntriesFit)'
    BY <1>13, ConfigAssumption DEF ImportHeat, IndInv, TypeOK, CallsSized, EntriesFit, Running, Returned
<1>14. CASE UNCHANGED vars
    BY <1>14 DEF vars, IndInv, TypeOK, CallsSized, EntriesFit, Running, Returned
<1> QED
    BY <1>1, <1>2, <1>3, <1>4, <1>5, <1>6, <1>7, <1>8, <1>9, <1>10, <1>11, <1>12, <1>13, <1>14 DEF Next, Turn, LoaderEnds

\* Every step keeps one loader per Loading entry.
LEMMA LoadsStep == IndInv /\ [Next]_vars => LoadsDeduplicated'
<1> SUFFICES ASSUME IndInv, [Next]_vars PROVE LoadsDeduplicated'
    OBVIOUS
<1>1. ASSUME NEW t \in Threads, NEW k \in Keys, GetHit(t, k) PROVE LoadsDeduplicated'
    BY <1>1 DEF GetHit, Idle, Pin, Return, Returned, IndInv, TypeOK, LoadsDeduplicated, Loading
<1>2. ASSUME NEW t \in Threads, NEW k \in Keys, GetNone(t, k) PROVE LoadsDeduplicated'
    BY <1>2 DEF GetNone, Idle, Return, Returned, IndInv, TypeOK, LoadsDeduplicated, Loading
<1>3. ASSUME NEW t \in Threads, NEW k \in Keys, Call(t, k) PROVE LoadsDeduplicated'
    BY <1>3 DEF Call, Idle, Return, Returned, IndInv, TypeOK, LoadsDeduplicated, Loading
<1>4. ASSUME NEW t \in Threads, Hit(t) PROVE LoadsDeduplicated'
    BY <1>4 DEF Hit, Pin, Return, IndInv, TypeOK, LoadsDeduplicated, Loading
<1>5. ASSUME NEW t \in Threads, Wait(t) PROVE LoadsDeduplicated'
    BY <1>5 DEF Wait, IndInv, TypeOK, LoadsDeduplicated, Loading
<1>6. ASSUME NEW t \in Threads, Reserve(t) PROVE LoadsDeduplicated'
    BY <1>6 DEF Reserve, Unpinned, Ready, IndInv, TypeOK, LoadsDeduplicated, Loading
<1>7. ASSUME NEW t \in Threads, Refuse(t) PROVE LoadsDeduplicated'
    BY <1>7 DEF Refuse, Return, Unpinned, Ready, IndInv, TypeOK, LoadsDeduplicated, Loading
<1>8. ASSUME NEW t \in Threads, Publish(t) PROVE LoadsDeduplicated'
    BY <1>8 DEF Publish, NotifyAll, IndInv, TypeOK, LoadsDeduplicated, Loading
<1>9. ASSUME NEW t \in Threads, Abandon(t) PROVE LoadsDeduplicated'
    BY <1>9 DEF Abandon, NotifyAll, IndInv, TypeOK, LoadsDeduplicated, Loading
<1>10. ASSUME NEW t \in Threads, SpuriousWake(t) PROVE LoadsDeduplicated'
    BY <1>10 DEF SpuriousWake, IndInv, TypeOK, LoadsDeduplicated, Loading
<1>11. ASSUME NEW t \in Threads, NEW k \in Keys, DropLease(t, k) PROVE LoadsDeduplicated'
    BY <1>11 DEF RemoveEphemeral, DropLease, NotifyAll, Returned, IndInv, TypeOK, LoadsDeduplicated, Loading
<1>12. ASSUME ClearUnpinned PROVE LoadsDeduplicated'
    BY <1>12 DEF ClearUnpinned, Unpinned, Ready, IndInv, TypeOK, LoadsDeduplicated, Loading
<1>13. ASSUME NEW counts \in Snapshots, ImportHeat(counts) PROVE LoadsDeduplicated'
    BY <1>13 DEF ImportHeat, IndInv, TypeOK, LoadsDeduplicated, Loading
<1>14. CASE UNCHANGED vars
    BY <1>14 DEF vars, IndInv, TypeOK, LoadsDeduplicated, Loading
<1> QED
    BY <1>1, <1>2, <1>3, <1>4, <1>5, <1>6, <1>7, <1>8, <1>9, <1>10, <1>11, <1>12, <1>13, <1>14 DEF Next, Turn, LoaderEnds

\* Every step keeps unadmitted entries leased and residents hot.
LEMMA AdmissionStep == IndInv /\ [Next]_vars => AdmissionHysteresis'
<1> SUFFICES ASSUME IndInv, [Next]_vars PROVE AdmissionHysteresis'
    OBVIOUS
<1>1. ASSUME NEW t \in Threads, NEW k \in Keys, GetHit(t, k) PROVE AdmissionHysteresis'
    BY <1>1 DEF GetHit, Pin, IndInv, TypeOK, AdmissionHysteresis, Ready
<1>2. ASSUME NEW t \in Threads, NEW k \in Keys, GetNone(t, k) PROVE AdmissionHysteresis'
    BY <1>2 DEF GetNone, IndInv, TypeOK, AdmissionHysteresis, Ready
<1>3. ASSUME NEW t \in Threads, NEW k \in Keys, Call(t, k) PROVE AdmissionHysteresis'
    BY <1>3 DEF Call, IndInv, TypeOK, AdmissionHysteresis, Ready
<1>4. ASSUME NEW t \in Threads, Hit(t) PROVE AdmissionHysteresis'
    BY <1>4 DEF Hit, Pin, IndInv, TypeOK, AdmissionHysteresis, Ready
<1>5. ASSUME NEW t \in Threads, Wait(t) PROVE AdmissionHysteresis'
    BY <1>5 DEF Wait, IndInv, TypeOK, AdmissionHysteresis, Ready
<1>6. ASSUME NEW t \in Threads, Reserve(t) PROVE AdmissionHysteresis'
    BY <1>6, ConfigAssumption DEF Reserve, Unpinned, SaturatingInc, IndInv, TypeOK, AdmissionHysteresis, Ready
<1>7. ASSUME NEW t \in Threads, Refuse(t) PROVE AdmissionHysteresis'
    BY <1>7, ConfigAssumption DEF Refuse, Unpinned, SaturatingInc, IndInv, TypeOK, AdmissionHysteresis, Ready
<1>8. ASSUME NEW t \in Threads, Publish(t) PROVE AdmissionHysteresis'
    BY <1>8 DEF Publish, IndInv, TypeOK, AdmissionHysteresis, Ready
<1>9. ASSUME NEW t \in Threads, Abandon(t) PROVE AdmissionHysteresis'
    BY <1>9 DEF Abandon, IndInv, TypeOK, AdmissionHysteresis, Ready
<1>10. ASSUME NEW t \in Threads, SpuriousWake(t) PROVE AdmissionHysteresis'
    BY <1>10 DEF SpuriousWake, IndInv, TypeOK, AdmissionHysteresis, Ready
<1>11. ASSUME NEW t \in Threads, NEW k \in Keys, DropLease(t, k) PROVE AdmissionHysteresis'
    BY <1>11 DEF RemoveEphemeral, DropLease, SaturatingSub, IndInv, TypeOK, AdmissionHysteresis, Ready
<1>12. ASSUME ClearUnpinned PROVE AdmissionHysteresis'
    BY <1>12 DEF ClearUnpinned, Unpinned, IndInv, TypeOK, AdmissionHysteresis, Ready
<1>13. ASSUME NEW counts \in Snapshots, ImportHeat(counts) PROVE AdmissionHysteresis'
    BY <1>13, ConfigAssumption DEF ImportHeat, IndInv, TypeOK, AdmissionHysteresis, Ready
<1>14. CASE UNCHANGED vars
    BY <1>14 DEF vars, IndInv, TypeOK, AdmissionHysteresis, Ready
<1> QED
    BY <1>1, <1>2, <1>3, <1>4, <1>5, <1>6, <1>7, <1>8, <1>9, <1>10, <1>11, <1>12, <1>13, <1>14 DEF Next, Turn, LoaderEnds

-----------------------------------------------------------------------------
(* Leases and pins. *)

\* An entry has finitely many lease holders.
LEMMA HoldersFinite ==
    ASSUME NEW k \in Keys
    PROVE  /\ IsFiniteSet(Holders(k))
           /\ Cardinality(Holders(k)) \in Nat
           /\ Cardinality(Holders(k)) = 0 <=> Holders(k) = {}
<1>1. Holders(k) \in SUBSET Threads
    BY DEF Holders
<1>2. IsFiniteSet(Holders(k))
    BY <1>1, FS_Subset, ConfigAssumption
<1> QED
    BY <1>2, FS_CardinalityType, FS_EmptySet

\* Pinning a Ready entry for a caller that holds no lease on it.
LEMMA PinLeases ==
    ASSUME IndInv, NEW t \in Threads, NEW k \in Keys,
           k \notin held[t], entry[k] = "ready", entry' = entry, Pin(t, k)
    PROVE  LeasesPin'
<1>1. Holders(k)' = Holders(k) \cup {t} /\ t \notin Holders(k)
    BY DEF Pin, Holders, IndInv, TypeOK
<1>2. \A x \in Keys \ {k} : Holders(x)' = Holders(x)
    BY DEF Pin, Holders, IndInv, TypeOK
<1>3. Cardinality(Holders(k)') = Cardinality(Holders(k)) + 1
    BY <1>1, HoldersFinite, FS_AddElement
<1> QED
    BY <1>1, <1>2, <1>3 DEF Pin, LeasesPin, IndInv, TypeOK

\* Removing unpinned entries takes nothing a caller holds.
LEMMA EvictLeases ==
    ASSUME IndInv, held' = held, pins' = pins,
           \A k \in Keys : entry'[k] # entry[k] => pins[k] = 0
    PROVE  LeasesPin'
<1>1. \A k \in Keys : Holders(k)' = Holders(k)
    BY DEF Holders
<1>2. \A k \in Keys : pins[k] = 0 => Holders(k) = {}
    BY HoldersFinite DEF IndInv, LeasesPin
<1> QED
    BY <1>1, <1>2 DEF LeasesPin, IndInv

\* Every step keeps pin counts equal to the leases outstanding.
LEMMA LeasesStep == IndInv /\ [Next]_vars => LeasesPin'
<1> SUFFICES ASSUME IndInv, [Next]_vars PROVE LeasesPin'
    OBVIOUS
<1>1. ASSUME NEW t \in Threads, NEW k \in Keys, GetHit(t, k) PROVE LeasesPin'
    BY <1>1, PinLeases DEF GetHit, Idle
<1>2. ASSUME NEW t \in Threads, NEW k \in Keys, GetNone(t, k) PROVE LeasesPin'
    BY <1>2, EvictLeases DEF GetNone
<1>3. ASSUME NEW t \in Threads, NEW k \in Keys, Call(t, k) PROVE LeasesPin'
    BY <1>3, EvictLeases DEF Call
<1>4. ASSUME NEW t \in Threads, Hit(t) PROVE LeasesPin'
    BY <1>4, PinLeases DEF Hit, IndInv, TypeOK, CallsSized, Running
<1>5. ASSUME NEW t \in Threads, Wait(t) PROVE LeasesPin'
    BY <1>5, EvictLeases DEF Wait
<1>6. ASSUME NEW t \in Threads, Reserve(t) PROVE LeasesPin'
  <2>1. \A x \in Keys : entry'[x] # entry[x] => pins[x] = 0
    <3>1. Holders(req[t]) = {}
      BY <1>6 DEF Reserve, IndInv, TypeOK, LeasesPin
    <3>2. pins[req[t]] = 0
      BY <3>1, HoldersFinite DEF IndInv, TypeOK, LeasesPin
    <3> QED
      BY <1>6, <3>2 DEF Reserve, Unpinned, IndInv, TypeOK
  <2> QED
    BY <1>6, <2>1, EvictLeases DEF Reserve
<1>7. ASSUME NEW t \in Threads, Refuse(t) PROVE LeasesPin'
    BY <1>7, EvictLeases DEF Refuse, Unpinned
<1>8. ASSUME NEW t \in Threads, Publish(t) PROVE LeasesPin'
  <2> PICK k \in Keys : k = req[t]
    BY DEF IndInv, TypeOK
  <2>1. entry[k] = "loading"
    BY <1>8 DEF Publish, IndInv, TypeOK, LoadsDeduplicated
  <2>2. Holders(k) = {}
    BY <2>1 DEF IndInv, LeasesPin
  <2>3. Holders(k)' = {t} /\ \A x \in Keys \ {k} : Holders(x)' = Holders(x)
    BY <1>8, <2>1, <2>2 DEF Publish, Holders, IndInv, TypeOK
  <2>4. Cardinality(Holders(k)') = 1
    BY <2>3, FS_Singleton
  <2>5. pins'[k] = 1 /\ entry'[k] = "ready"
    BY <1>8, <2>1 DEF Publish, IndInv, TypeOK
  <2>6. \A x \in Keys \ {k} : pins'[x] = pins[x] /\ entry'[x] = entry[x]
    BY <1>8, <2>1 DEF Publish, IndInv, TypeOK
  <2>7. \A x \in Keys : pins'[x] = Cardinality(Holders(x)')
    BY <2>1, <2>3, <2>4, <2>5, <2>6 DEF LeasesPin, IndInv
  <2>8. \A x \in Keys : Holders(x)' # {} => entry'[x] = "ready"
    BY <2>3, <2>5, <2>6 DEF LeasesPin, IndInv
  <2> QED
    BY <2>7, <2>8 DEF LeasesPin
<1>9. ASSUME NEW t \in Threads, Abandon(t) PROVE LeasesPin'
  <2>1. entry[req[t]] = "loading" /\ req[t] \in Keys
    BY <1>9 DEF Abandon, IndInv, TypeOK, LoadsDeduplicated
  <2>2. pins[req[t]] = 0
    BY <2>1, HoldersFinite DEF IndInv, LeasesPin
  <2> QED
    BY <1>9, <2>1, <2>2, EvictLeases DEF Abandon, IndInv, TypeOK
<1>10. ASSUME NEW t \in Threads, SpuriousWake(t) PROVE LeasesPin'
    BY <1>10, EvictLeases DEF SpuriousWake
<1>11. ASSUME NEW t \in Threads, NEW k \in Keys, DropLease(t, k) PROVE LeasesPin'
  <2>1. entry[k] = "ready" /\ t \in Holders(k)
    BY <1>11 DEF RemoveEphemeral, DropLease, Holders, IndInv, LeasesPin
  <2>2. Holders(k)' = Holders(k) \ {t}
    BY <1>11 DEF RemoveEphemeral, DropLease, Holders, IndInv, TypeOK
  <2>3. \A x \in Keys \ {k} : Holders(x)' = Holders(x)
    BY <1>11 DEF RemoveEphemeral, DropLease, Holders, IndInv, TypeOK
  <2>4. Cardinality(Holders(k)') = Cardinality(Holders(k)) - 1
    BY <2>1, <2>2, HoldersFinite, FS_RemoveElement
  <2>5. IsFiniteSet(Holders(k)')
    BY <2>2, HoldersFinite, FS_RemoveElement
  <2>6. Cardinality(Holders(k)') = 0 => Holders(k)' = {}
    BY <2>5, FS_EmptySet
  <2>7. pins'[k] = Cardinality(Holders(k)')
    BY <1>11, <2>1, <2>4, HoldersFinite DEF RemoveEphemeral, DropLease, SaturatingSub, IndInv, TypeOK, LeasesPin
  <2>8. Holders(k)' # {} => entry'[k] = "ready"
    BY <1>11, <2>1, <2>6, <2>7 DEF RemoveEphemeral, DropLease, IndInv, TypeOK
  <2>9. \A x \in Keys \ {k} : pins'[x] = pins[x] /\ entry'[x] = entry[x]
    BY <1>11 DEF RemoveEphemeral, DropLease, IndInv, TypeOK
  <2> QED
    BY <2>3, <2>7, <2>8, <2>9 DEF LeasesPin, IndInv
<1>12. ASSUME ClearUnpinned PROVE LeasesPin'
    BY <1>12, EvictLeases DEF ClearUnpinned, Unpinned
<1>13. ASSUME NEW counts \in Snapshots, ImportHeat(counts) PROVE LeasesPin'
    BY <1>13, EvictLeases DEF ImportHeat
<1>14. CASE UNCHANGED vars
    BY <1>14, EvictLeases DEF vars
<1> QED
    BY <1>1, <1>2, <1>3, <1>4, <1>5, <1>6, <1>7, <1>8, <1>9, <1>10, <1>11, <1>12, <1>13, <1>14 DEF Next, Turn, LoaderEnds

-----------------------------------------------------------------------------
(* Bytes in use and bytes reserved. *)

\* Ready and Loading are sets of keys.
LEMMA EntrySets == Ready \in SUBSET Keys /\ Loading \in SUBSET Keys
                   /\ Ready \cap Loading = {} /\ Unpinned \in SUBSET Ready
BY DEF Ready, Loading, Unpinned

\* A step that leaves entries and counters alone keeps the accounts.
LEMMA AccountSame ==
    ASSUME IndInv, entry' = entry, used' = used, reserved' = reserved
    PROVE  Accounting'
<1>1. Ready' = Ready /\ Loading' = Loading
    BY DEF Ready, Loading
<1> QED
    BY <1>1 DEF Accounting, IndInv

\* Removing the entries of V: an eviction, a clear, a refused request.
LEMMA AccountEvict ==
    ASSUME IndInv, NEW V \in SUBSET Unpinned,
           entry' = [x \in Keys |-> IF x \in V THEN "absent" ELSE entry[x]],
           used' = used - Bytes(V), reserved' = reserved
    PROVE  Accounting'
<1>1. Ready' = Ready \ V /\ Loading' = Loading
    BY EntrySets DEF Ready, Loading, Unpinned, IndInv, TypeOK
<1>2. Bytes(Ready \ V) = Bytes(Ready) - Bytes(V) /\ Bytes(V) \in Nat
    BY BytesRemove, ByteSetFinite, EntrySets
<1> QED
    BY <1>1, <1>2, ConfigAssumption DEF Accounting, IndInv, TypeOK

\* Reserving the bytes of k after evicting V.
LEMMA AccountReserve ==
    ASSUME IndInv, NEW V \in SUBSET Unpinned, NEW k \in Keys,
           entry[k] = "absent", Size[k] \in 1..Capacity, Fits(V, k),
           entry' = [x \in Keys |-> IF x = k THEN "loading"
                                    ELSE IF x \in V THEN "absent" ELSE entry[x]],
           used' = used - Bytes(V), reserved' = reserved + Size[k]
    PROVE  Accounting'
<1>1. Ready' = Ready \ V /\ Loading' = Loading \cup {k} /\ k \notin Loading
    BY EntrySets DEF Ready, Loading, Unpinned, IndInv, TypeOK
<1>2. Bytes(Ready \ V) = Bytes(Ready) - Bytes(V) /\ Bytes(V) \in Nat
    BY BytesRemove, ByteSetFinite, EntrySets
<1>3. Bytes(Loading \cup {k}) = Bytes(Loading) + Size[k]
    BY <1>1, BytesAdd, EntrySets
<1> QED
    BY <1>1, <1>2, <1>3, ConfigAssumption DEF Accounting, Fits, IndInv, TypeOK

\* Where nothing saturates, saturating_sub is subtraction.
LEMMA SaturatingSubExact ==
    ASSUME NEW m \in Nat, NEW n \in Nat, n <= m
    PROVE  SaturatingSub(m, n) = m - n
BY DEF SaturatingSub

\* The reservation of a load in flight is part of reserved_bytes.
LEMMA LoadingBytes ==
    ASSUME IndInv, NEW k \in Keys, entry[k] = "loading"
    PROVE  /\ Bytes(Loading \ {k}) = Bytes(Loading) - Size[k]
           /\ Size[k] <= reserved
<1>1. k \in Loading /\ Bytes({k}) = Size[k]
    BY BytesSingle DEF Loading, IndInv, EntriesFit
<1> QED
    BY <1>1, BytesRemove, EntrySets DEF IndInv, Accounting

\* The bytes of a Ready entry are part of used_bytes.
LEMMA ReadyBytes ==
    ASSUME IndInv, NEW k \in Keys, entry[k] = "ready"
    PROVE  /\ Bytes(Ready \ {k}) = Bytes(Ready) - Size[k]
           /\ Size[k] <= used
<1>1. k \in Ready /\ Bytes({k}) = Size[k]
    BY BytesSingle DEF Ready, IndInv, EntriesFit
<1> QED
    BY <1>1, BytesRemove, EntrySets DEF IndInv, Accounting

\* Every step keeps the byte counters exact and below the ceiling.
LEMMA AccountingStep == IndInv /\ [Next]_vars => Accounting'
<1> SUFFICES ASSUME IndInv, [Next]_vars PROVE Accounting'
    OBVIOUS
<1>1. ASSUME NEW t \in Threads, NEW k \in Keys, GetHit(t, k) PROVE Accounting'
    BY <1>1, AccountSame DEF GetHit
<1>2. ASSUME NEW t \in Threads, NEW k \in Keys, GetNone(t, k) PROVE Accounting'
    BY <1>2, AccountSame DEF GetNone
<1>3. ASSUME NEW t \in Threads, NEW k \in Keys, Call(t, k) PROVE Accounting'
    BY <1>3, AccountSame DEF Call
<1>4. ASSUME NEW t \in Threads, Hit(t) PROVE Accounting'
    BY <1>4, AccountSame DEF Hit
<1>5. ASSUME NEW t \in Threads, Wait(t) PROVE Accounting'
    BY <1>5, AccountSame DEF Wait
<1>6. ASSUME NEW t \in Threads, Reserve(t) PROVE Accounting'
  <2>1. req[t] \in Keys /\ entry[req[t]] = "absent" /\ Size[req[t]] \in 1..Capacity
    BY <1>6 DEF Reserve, IndInv, TypeOK, CallsSized, Running
  <2> QED
    BY <1>6, <2>1, AccountReserve DEF Reserve, MakesRoom, Evict
<1>7. ASSUME NEW t \in Threads, Refuse(t) PROVE Accounting'
    BY <1>7, AccountEvict DEF Refuse, Evict
<1>8. ASSUME NEW t \in Threads, Publish(t) PROVE Accounting'
  <2> PICK k \in Keys : k = req[t]
    BY DEF IndInv, TypeOK
  <2>1. entry[k] = "loading" /\ k \notin Ready
    BY <1>8 DEF Publish, Ready, IndInv, TypeOK, LoadsDeduplicated
  <2>2. Ready' = Ready \cup {k} /\ Loading' = Loading \ {k}
    BY <1>8, <2>1 DEF Publish, Ready, Loading, IndInv, TypeOK
  <2>3. Bytes(Ready \cup {k}) = Bytes(Ready) + Size[k]
    BY <2>1, BytesAdd, EntrySets DEF IndInv, EntriesFit
  <2>4. used' = used + Size[k] /\ reserved' = reserved - Size[k]
    BY <1>8, <2>1 DEF Publish
  <2> QED
    BY <2>1, <2>2, <2>3, <2>4, LoadingBytes, ConfigAssumption DEF Accounting, IndInv, TypeOK
<1>9. ASSUME NEW t \in Threads, Abandon(t) PROVE Accounting'
  <2> PICK k \in Keys : k = req[t]
    BY DEF IndInv, TypeOK
  <2>1. entry[k] = "loading"
    BY <1>9 DEF Abandon, IndInv, TypeOK, LoadsDeduplicated
  <2>2. Ready' = Ready /\ Loading' = Loading \ {k}
    BY <1>9, <2>1 DEF Abandon, Ready, Loading, IndInv, TypeOK
  <2>3. used' = used /\ reserved' = reserved - Size[k]
    <3>1. used' = used /\ reserved' = SaturatingSub(reserved, Size[k])
      BY <1>9, <2>1 DEF Abandon
    <3>2. reserved \in Nat /\ Size[k] \in Nat /\ Size[k] <= reserved
      BY <2>1, LoadingBytes, ConfigAssumption DEF IndInv, TypeOK
    <3> QED
      BY <3>1, <3>2, SaturatingSubExact
  <2> QED
    BY <2>1, <2>2, <2>3, LoadingBytes, ConfigAssumption DEF Accounting, IndInv, TypeOK
<1>10. ASSUME NEW t \in Threads, SpuriousWake(t) PROVE Accounting'
    BY <1>10, AccountSame DEF SpuriousWake
<1>11. ASSUME NEW t \in Threads, NEW k \in Keys, DropLease(t, k) PROVE Accounting'
  <2>1. entry[k] = "ready" /\ reserved' = reserved
    BY <1>11 DEF RemoveEphemeral, DropLease, Holders, IndInv, LeasesPin
  <2>2. CASE entry' = entry /\ used' = used
    BY <2>1, <2>2, AccountSame
  <2>3. CASE entry' = [entry EXCEPT ![k] = "absent"] /\ used' = SaturatingSub(used, Size[k])
    <3>1. Ready' = Ready \ {k} /\ Loading' = Loading
      BY <2>1, <2>3 DEF Ready, Loading, IndInv, TypeOK
    <3>2. used' = used - Size[k]
      <4>1. used \in Nat /\ Size[k] \in Nat /\ Size[k] <= used
        BY <2>1, ReadyBytes, ConfigAssumption DEF IndInv, TypeOK
      <4> QED
        BY <2>3, <4>1, SaturatingSubExact
    <3> QED
      BY <2>1, <3>1, <3>2, ReadyBytes, ConfigAssumption DEF Accounting, IndInv, TypeOK
  <2> QED
    BY <1>11, <2>1, <2>2, <2>3 DEF RemoveEphemeral, DropLease, IndInv, TypeOK
<1>12. ASSUME ClearUnpinned PROVE Accounting'
    BY <1>12, AccountEvict DEF ClearUnpinned, Evict
<1>13. ASSUME NEW counts \in Snapshots, ImportHeat(counts) PROVE Accounting'
    BY <1>13, AccountSame DEF ImportHeat
<1>14. CASE UNCHANGED vars
    BY <1>14, AccountSame DEF vars
<1> QED
    BY <1>1, <1>2, <1>3, <1>4, <1>5, <1>6, <1>7, <1>8, <1>9, <1>10, <1>11, <1>12, <1>13, <1>14 DEF Next, Turn, LoaderEnds

-----------------------------------------------------------------------------
(* Types. *)

\* Every step keeps the types; the counters because they stay exact.
LEMMA TypeStep == IndInv /\ [Next]_vars => TypeOK'
<1> SUFFICES ASSUME IndInv, [Next]_vars PROVE TypeOK'
    OBVIOUS
<1>0. used' \in Nat /\ reserved' \in Nat
  <2>1. Accounting'
    BY AccountingStep
  <2>2. Ready' \in SUBSET Keys /\ Loading' \in SUBSET Keys
    BY DEF Ready, Loading
  <2> QED
    BY <2>1, <2>2, ByteSetFinite DEF Accounting
<1>1. ASSUME NEW t \in Threads, NEW k \in Keys, GetHit(t, k) PROVE TypeOK'
    BY <1>1, <1>0, ConfigAssumption DEF GetHit, Idle, Pin, Return, Touched, Ready, IndInv, TypeOK, Running, Returned
<1>2. ASSUME NEW t \in Threads, NEW k \in Keys, GetNone(t, k) PROVE TypeOK'
    BY <1>2, <1>0, ConfigAssumption DEF GetNone, Idle, Return, IndInv, TypeOK, Running, Returned
<1>3. ASSUME NEW t \in Threads, NEW k \in Keys, Call(t, k) PROVE TypeOK'
    BY <1>3, <1>0, ConfigAssumption DEF Call, Idle, Return, IndInv, TypeOK, Running, Returned
<1>4. ASSUME NEW t \in Threads, Hit(t) PROVE TypeOK'
    BY <1>4, <1>0, ConfigAssumption DEF Hit, Pin, Return, Touched, Ready, IndInv, TypeOK, Running, Returned
<1>5. ASSUME NEW t \in Threads, Wait(t) PROVE TypeOK'
    BY <1>5, <1>0, ConfigAssumption DEF Wait, IndInv, TypeOK, Running, Returned
<1>6. ASSUME NEW t \in Threads, Reserve(t) PROVE TypeOK'
  <2>1. heat' \in [Keys -> 0..HeatCap]
    BY <1>6, ConfigAssumption DEF Reserve, SaturatingInc, IndInv, TypeOK
  <2>2. older' \in SUBSET (Keys \X Keys) /\ pc' \in [Threads -> Running \cup Returned]
    BY <1>6 DEF Reserve, Evict, Forgotten, IndInv, TypeOK, Running
  <2>3. entry' \in [Keys -> {"absent", "loading", "ready"}]
    BY <1>6 DEF Reserve, IndInv, TypeOK
  <2>4. resident' \in [Keys -> BOOLEAN]
    <3> PICK V : resident' = [x \in Keys |-> IF x = req[t] THEN heat'[req[t]] >= AdmitAfter
                                             ELSE IF x \in V THEN FALSE ELSE resident[x]]
      BY <1>6 DEF Reserve
    <3>1. (heat'[req[t]] >= AdmitAfter) \in BOOLEAN
      OBVIOUS
    <3> QED
      BY <3>1, Zenon DEF IndInv, TypeOK
  <2> QED
    BY <1>6, <1>0, <2>1, <2>2, <2>3, <2>4 DEF Reserve, IndInv, TypeOK
<1>7. ASSUME NEW t \in Threads, Refuse(t) PROVE TypeOK'
  <2>1. heat' \in [Keys -> 0..HeatCap]
    BY <1>7, ConfigAssumption DEF Refuse, SaturatingInc, IndInv, TypeOK
  <2>2. older' \in SUBSET (Keys \X Keys) /\ pc' \in [Threads -> Running \cup Returned]
    BY <1>7 DEF Refuse, Return, Evict, Forgotten, IndInv, TypeOK, Returned
  <2>3. entry' \in [Keys -> {"absent", "loading", "ready"}] /\ resident' \in [Keys -> BOOLEAN]
    BY <1>7 DEF Refuse, IndInv, TypeOK
  <2> QED
    BY <1>7, <1>0, <2>1, <2>2, <2>3 DEF Refuse, IndInv, TypeOK
<1>8. ASSUME NEW t \in Threads, Publish(t) PROVE TypeOK'
    BY <1>8, <1>0, ConfigAssumption DEF Publish, Touched, NotifyAll, Ready, IndInv, TypeOK, Running, Returned
<1>9. ASSUME NEW t \in Threads, Abandon(t) PROVE TypeOK'
    BY <1>9, <1>0, ConfigAssumption DEF Abandon, NotifyAll, IndInv, TypeOK, Running, Returned
<1>10. ASSUME NEW t \in Threads, SpuriousWake(t) PROVE TypeOK'
    BY <1>10, <1>0, ConfigAssumption DEF SpuriousWake, IndInv, TypeOK, Running, Returned
<1>11. ASSUME NEW t \in Threads, NEW k \in Keys, DropLease(t, k) PROVE TypeOK'
    BY <1>11, <1>0, ConfigAssumption DEF RemoveEphemeral, DropLease, Forgotten, NotifyAll, SaturatingSub, IndInv, TypeOK, Running, Returned
<1>12. ASSUME ClearUnpinned PROVE TypeOK'
    BY <1>12, <1>0, ConfigAssumption DEF ClearUnpinned, Evict, Forgotten, IndInv, TypeOK, Running, Returned
<1>13. ASSUME NEW counts \in Snapshots, ImportHeat(counts) PROVE TypeOK'
    BY <1>13, <1>0, ConfigAssumption DEF ImportHeat, IndInv, TypeOK, Running, Returned
<1>14. CASE UNCHANGED vars
    BY <1>14 DEF vars, IndInv, TypeOK, Running, Returned
<1> QED
    BY <1>1, <1>2, <1>3, <1>4, <1>5, <1>6, <1>7, <1>8, <1>9, <1>10, <1>11, <1>12, <1>13, <1>14 DEF Next, Turn, LoaderEnds

-----------------------------------------------------------------------------
(* Theorems. *)

\* The empty cache satisfies the inductive invariant.
LEMMA InitIndInv == Init => IndInv
<1> SUFFICES ASSUME Init PROVE IndInv
    OBVIOUS
<1>1. TypeOK /\ CallsSized /\ EntriesFit
    BY ConfigAssumption DEF Init, TypeOK, CallsSized, EntriesFit, Running, Returned
<1>2. Ready = {} /\ Loading = {} /\ \A k \in Keys : Holders(k) = {}
    BY DEF Init, Ready, Loading, Holders
<1>3. LoadsDeduplicated /\ AdmissionHysteresis
    BY <1>2 DEF Init, LoadsDeduplicated, AdmissionHysteresis
<1>4. LeasesPin
    BY <1>2, FS_EmptySet DEF Init, LeasesPin
<1>5. Accounting
    BY <1>2, BytesEmpty, ConfigAssumption DEF Init, Accounting
<1> QED
    BY <1>1, <1>3, <1>4, <1>5 DEF IndInv

\* Every step of the cache keeps the inductive invariant.
LEMMA IndInvStep == IndInv /\ [Next]_vars => IndInv'
BY TypeStep, CallsStep, LoadsStep, LeasesStep, AdmissionStep, AccountingStep DEF IndInv

\* The inductive invariant: types, exact accounts, pins, loads and admission hold
\* together in every reachable state of CompressedExpertCache.
THEOREM Invariance == Spec => []IndInv
<1>1. Init => IndInv
    BY InitIndInv
<1>2. IndInv /\ [Next]_vars => IndInv'
    BY IndInvStep
<1> QED
    BY <1>1, <1>2, PTL DEF Spec

\* Type correctness of the cache.
THEOREM TypeCorrect == Spec => []TypeOK
<1>1. IndInv => TypeOK
    BY DEF IndInv
<1> QED
    BY <1>1, Invariance, PTL

\* The byte counters are exact and the ceiling holds with any number of loads
\* in flight, for every capacity and every assignment of sizes.
THEOREM CeilingHolds == Spec => []Accounting
<1>1. IndInv => Accounting
    BY DEF IndInv
<1> QED
    BY <1>1, Invariance, PTL

\* A leased entry stays in the cache until its last lease is dropped.
THEOREM LeasesProtect == Spec => []LeasesPin
<1>1. IndInv => LeasesPin
    BY DEF IndInv
<1> QED
    BY <1>1, Invariance, PTL

\* Concurrent requests for one key share one load and ReservationLost is
\* never returned.
THEOREM LoadsShared == Spec => []LoadsDeduplicated
<1>1. IndInv => LoadsDeduplicated
    BY DEF IndInv
<1> QED
    BY <1>1, Invariance, PTL

\* Entries below the admission threshold never outlive their leases.
THEOREM AdmissionHolds == Spec => []AdmissionHysteresis
<1>1. IndInv => AdmissionHysteresis
    BY DEF IndInv
<1> QED
    BY <1>1, Invariance, PTL

-----------------------------------------------------------------------------
(* Recency, which the proof about evictions rests on: every touch takes a    *)
(* tick that no entry has, so that the ticks of Ready entries order them.    *)

RecencyTotal ==
    \A a, b \in Ready :
        a # b => /\ <<a, b>> \in older \/ <<b, a>> \in older
                 /\ ~(<<a, b>> \in older /\ <<b, a>> \in older)

\* A fresh tick orders its key after every other Ready entry and leaves the
\* order of the others alone.
LEMMA TouchTotal ==
    ASSUME RecencyTotal, NEW k \in Keys, older' = Touched(k, Ready), Ready' \subseteq Ready \cup {k}
    PROVE  RecencyTotal'
<1> SUFFICES ASSUME NEW a \in Ready', NEW b \in Ready', a # b
             PROVE  /\ <<a, b>> \in older' \/ <<b, a>> \in older'
                    /\ ~(<<a, b>> \in older' /\ <<b, a>> \in older')
    BY DEF RecencyTotal
<1>1. CASE a = k
    BY <1>1 DEF Touched
<1>2. CASE b = k
    BY <1>2 DEF Touched
<1>3. CASE a # k /\ b # k
  <2>1. a \in Ready /\ b \in Ready
    BY <1>3
  <2> QED
    BY <2>1, <1>3 DEF Touched, RecencyTotal
<1> QED
    BY <1>1, <1>2, <1>3

\* Entries that go take only their own pairs with them.
LEMMA ForgetTotal ==
    ASSUME RecencyTotal, NEW V, older' = Forgotten(V), Ready' \subseteq Ready \ V
    PROVE  RecencyTotal'
BY DEF RecencyTotal, Forgotten

\* A step that changes neither the Ready entries nor their ticks.
LEMMA SameTotal ==
    ASSUME RecencyTotal, older' = older, Ready' \subseteq Ready
    PROVE  RecencyTotal'
BY DEF RecencyTotal

\* Every step keeps the ticks of Ready entries distinct.
LEMMA RecencyStep == IndInv /\ RecencyTotal /\ [Next]_vars => RecencyTotal'
<1> SUFFICES ASSUME IndInv, RecencyTotal, [Next]_vars PROVE RecencyTotal'
    OBVIOUS
<1>1. ASSUME NEW t \in Threads, NEW k \in Keys, GetHit(t, k) PROVE RecencyTotal'
    BY <1>1, TouchTotal DEF GetHit, Pin, Ready
<1>2. ASSUME NEW t \in Threads, NEW k \in Keys, GetNone(t, k) PROVE RecencyTotal'
    BY <1>2, SameTotal DEF GetNone, Ready
<1>3. ASSUME NEW t \in Threads, NEW k \in Keys, Call(t, k) PROVE RecencyTotal'
    BY <1>3, SameTotal DEF Call, Ready
<1>4. ASSUME NEW t \in Threads, Hit(t) PROVE RecencyTotal'
    BY <1>4, TouchTotal DEF Hit, Pin, Ready, IndInv, TypeOK
<1>5. ASSUME NEW t \in Threads, Wait(t) PROVE RecencyTotal'
    BY <1>5, SameTotal DEF Wait, Ready
<1>6. ASSUME NEW t \in Threads, Reserve(t) PROVE RecencyTotal'
  <2>1. PICK V \in SUBSET Unpinned :
            /\ Evict(V)
            /\ entry' = [x \in Keys |-> IF x = req[t] THEN "loading"
                                        ELSE IF x \in V THEN "absent" ELSE entry[x]]
    BY <1>6 DEF Reserve
  <2>2. Ready' \subseteq Ready \ V
    BY <2>1 DEF Ready
  <2> QED
    BY <2>1, <2>2, ForgetTotal DEF Evict
<1>7. ASSUME NEW t \in Threads, Refuse(t) PROVE RecencyTotal'
  <2>1. Ready' \subseteq Ready \ Unpinned
    BY <1>7 DEF Refuse, Ready
  <2> QED
    BY <1>7, <2>1, ForgetTotal DEF Refuse, Evict
<1>8. ASSUME NEW t \in Threads, Publish(t) PROVE RecencyTotal'
  <2>1. CASE entry[req[t]] = "loading"
    BY <1>8, <2>1, TouchTotal DEF Publish, Ready, IndInv, TypeOK
  <2>2. CASE entry[req[t]] # "loading"
    BY <1>8, <2>2, SameTotal DEF Publish, Ready
  <2> QED
    BY <2>1, <2>2
<1>9. ASSUME NEW t \in Threads, Abandon(t) PROVE RecencyTotal'
    BY <1>9, SameTotal DEF Abandon, Ready, IndInv, TypeOK
<1>10. ASSUME NEW t \in Threads, SpuriousWake(t) PROVE RecencyTotal'
    BY <1>10, SameTotal DEF SpuriousWake, Ready
<1>11. ASSUME NEW t \in Threads, NEW k \in Keys, DropLease(t, k) PROVE RecencyTotal'
  <2>1. CASE older' = Forgotten({k}) /\ entry' = [entry EXCEPT ![k] = "absent"]
    <3>1. Ready' \subseteq Ready \ {k}
      BY <2>1 DEF Ready, IndInv, TypeOK
    <3> QED
      BY <2>1, <3>1, ForgetTotal
  <2>2. CASE older' = older /\ entry' = entry
    BY <2>2, SameTotal DEF Ready
  <2>3. \/ older' = Forgotten({k}) /\ entry' = [entry EXCEPT ![k] = "absent"]
        \/ older' = older /\ entry' = entry
    BY <1>11 DEF DropLease, IndInv, TypeOK
  <2> QED
    BY <2>1, <2>2, <2>3
<1>12. ASSUME ClearUnpinned PROVE RecencyTotal'
  <2>1. Ready' \subseteq Ready \ Unpinned
    BY <1>12 DEF ClearUnpinned, Ready
  <2> QED
    BY <1>12, <2>1, ForgetTotal DEF ClearUnpinned, Evict
<1>13. ASSUME NEW counts \in Snapshots, ImportHeat(counts) PROVE RecencyTotal'
    BY <1>13, SameTotal DEF ImportHeat, Ready
<1>14. CASE UNCHANGED vars
    BY <1>14, SameTotal DEF vars, Ready
<1> QED
    BY <1>1, <1>2, <1>3, <1>4, <1>5, <1>6, <1>7, <1>8, <1>9, <1>10, <1>11, <1>12, <1>13, <1>14 DEF Next, Turn, LoaderEnds

\* It holds throughout.
LEMMA RecencyHolds == Spec => []RecencyTotal
<1>1. Init => RecencyTotal
    BY DEF Init, RecencyTotal, Ready
<1>2. IndInv /\ RecencyTotal /\ [Next]_vars => RecencyTotal'
    BY RecencyStep
<1> QED
    BY <1>1, <1>2, Invariance, PTL DEF Spec

-----------------------------------------------------------------------------
(* Which steps end a turn. *)

\* A caller between two turns of its loop is moved on only by its own turn.
LEMMA TryMoves ==
    ASSUME IndInv, [Next]_vars, NEW t \in Threads, pc[t] = "try", pc'[t] # "try"
    PROVE  Turn(t)
<1>1. ASSUME NEW q \in Threads, NEW k \in Keys, GetHit(q, k) PROVE Turn(t)
    BY <1>1 DEF GetHit, Idle, Pin, Return, Returned, IndInv, TypeOK
<1>2. ASSUME NEW q \in Threads, NEW k \in Keys, GetNone(q, k) PROVE Turn(t)
    BY <1>2 DEF GetNone, Idle, Return, Returned, IndInv, TypeOK
<1>3. ASSUME NEW q \in Threads, NEW k \in Keys, Call(q, k) PROVE Turn(t)
    BY <1>3 DEF Call, Idle, Return, Returned, IndInv, TypeOK
<1>4. ASSUME NEW q \in Threads, Hit(q) PROVE Turn(t)
  <2>1. q = t
    BY <1>4 DEF Hit, Pin, Return, IndInv, TypeOK
  <2> QED
    BY <1>4, <2>1 DEF Turn
<1>5. ASSUME NEW q \in Threads, Wait(q) PROVE Turn(t)
  <2>1. q = t
    BY <1>5 DEF Wait, IndInv, TypeOK
  <2> QED
    BY <1>5, <2>1 DEF Turn
<1>6. ASSUME NEW q \in Threads, Reserve(q) PROVE Turn(t)
  <2>1. q = t
    BY <1>6 DEF Reserve, IndInv, TypeOK
  <2> QED
    BY <1>6, <2>1 DEF Turn
<1>7. ASSUME NEW q \in Threads, Refuse(q) PROVE Turn(t)
  <2>1. q = t
    BY <1>7 DEF Refuse, Return, IndInv, TypeOK
  <2> QED
    BY <1>7, <2>1 DEF Turn
<1>8. ASSUME NEW q \in Threads, Publish(q) PROVE Turn(t)
    BY <1>8 DEF Publish, NotifyAll, IndInv, TypeOK
<1>9. ASSUME NEW q \in Threads, Abandon(q) PROVE Turn(t)
    BY <1>9 DEF Abandon, NotifyAll, IndInv, TypeOK
<1>10. ASSUME NEW q \in Threads, SpuriousWake(q) PROVE Turn(t)
    BY <1>10 DEF SpuriousWake, IndInv, TypeOK
<1>11. ASSUME NEW q \in Threads, NEW k \in Keys, DropLease(q, k) PROVE Turn(t)
    BY <1>11 DEF DropLease, NotifyAll, IndInv, TypeOK
<1>12. ASSUME ClearUnpinned PROVE Turn(t)
    BY <1>12 DEF ClearUnpinned, IndInv, TypeOK
<1>13. ASSUME NEW counts \in Snapshots, ImportHeat(counts) PROVE Turn(t)
    BY <1>13 DEF ImportHeat, IndInv, TypeOK
<1>14. CASE UNCHANGED vars
    BY <1>14 DEF vars
<1> QED
    BY <1>1, <1>2, <1>3, <1>4, <1>5, <1>6, <1>7, <1>8, <1>9, <1>10, <1>11, <1>12, <1>13, <1>14 DEF Next, Turn, LoaderEnds

-----------------------------------------------------------------------------
(* Refusals. *)

\* Only reserve_capacity, finding no room, refuses a request.
LEMMA OnlyRefuse ==
    ASSUME IndInv, [Next]_vars, NEW t \in Threads, pc[t] = "try", pc'[t] = "CapacityPinned"
    PROVE  Refuse(t)
BY TryMoves DEF Turn, Hit, Wait, Reserve, Pin, Return, IndInv, TypeOK

\* CapacityPinned is justified: the leased and in-flight bytes alone exceed
\* what the ceiling leaves for the request.
LEMMA RefuseStep ==
    ASSUME IndInv, NEW t \in Threads, Refuse(t)
    PROVE  Bytes(Loading \cup (Ready \ Unpinned)) + Size[req[t]] > Capacity
<1> DEFINE k == req[t]
<1>1. EvictionPrefix(Unpinned)
    BY DEF EvictionPrefix
<1>2. ~Fits(Unpinned, k)
    BY <1>1 DEF Refuse, NoRoom
<1>3. Unpinned \in SUBSET Ready /\ Ready \in SUBSET Keys /\ Loading \in SUBSET Keys
    BY DEF Unpinned, Ready, Loading
<1>4. Bytes(Ready \ Unpinned) = used - Bytes(Unpinned)
    BY <1>3, BytesRemove DEF IndInv, Accounting
<1>5. Bytes(Loading \cup (Ready \ Unpinned)) = Bytes(Loading) + Bytes(Ready \ Unpinned)
  <2>1. Loading \cap (Ready \ Unpinned) = {}
    BY DEF Loading, Ready
  <2> QED
    BY <2>1, <1>3, BytesUnion
<1>6. Bytes(Loading) = reserved /\ reserved \in Nat /\ used \in Nat
    BY DEF IndInv, Accounting, TypeOK
<1>7. Size[k] \in Nat /\ Bytes(Unpinned) \in Nat
    BY <1>3, ByteSetFinite, ConfigAssumption DEF IndInv, TypeOK
<1> QED
    BY <1>2, <1>4, <1>5, <1>6, <1>7, ConfigAssumption DEF Fits

\* One loader for each load, in every state of the cache: get_or_try_insert
\* never finds its reservation gone or taken over.
THEOREM ConsistencyHolds == Spec => []CacheConsistent
<1>1. TypeOK /\ LoadsDeduplicated => CacheConsistent
    BY DEF CacheConsistent
<1> QED
    BY <1>1, TypeCorrect, LoadsShared, PTL

\* Every refusal is justified.
THEOREM RefusalsSound == Spec => RefusalsJustified
<1> DEFINE A == \A t \in Threads :
                   pc[t] = "try" /\ pc'[t] = "CapacityPinned" =>
                       Bytes(Loading \cup (Ready \ Unpinned)) + Size[req[t]] > Capacity
<1>1. IndInv /\ [Next]_vars => A
    BY OnlyRefuse, RefuseStep
<1>2. IndInv /\ [Next]_vars => [A]_vars
    BY <1>1
<1> QED
    BY <1>2, Invariance, PTL DEF Spec, RefusalsJustified

-----------------------------------------------------------------------------
(* Evictions. *)

\* Only a request that reserved its bytes starts a load.
LEMMA OnlyReserve ==
    ASSUME IndInv, [Next]_vars, NEW t \in Threads, pc[t] = "try", pc'[t] = "load"
    PROVE  Reserve(t)
BY TryMoves DEF Turn, Hit, Wait, Refuse, Pin, Return, IndInv, TypeOK

\* What a reservation evicts.
Evicted == Ready \ Ready'

\* The entries reserve_capacity chose are the entries that go.
LEMMA ReserveEvicts ==
    ASSUME IndInv, NEW t \in Threads, Reserve(t)
    PROVE  MakesRoom(Evicted, req[t])
<1>1. PICK V \in SUBSET Unpinned :
          /\ MakesRoom(V, req[t])
          /\ entry' = [x \in Keys |-> IF x = req[t] THEN "loading"
                                      ELSE IF x \in V THEN "absent" ELSE entry[x]]
    BY DEF Reserve
<1>2. entry[req[t]] = "absent"
    BY DEF Reserve
<1>3. Evicted = V
    BY <1>1, <1>2 DEF Evicted, Ready, Unpinned
<1> QED
    BY <1>1, <1>3

\* An unpinned entry that stays was used after every entry that goes.
LEMMA LeastRecentGo ==
    ASSUME RecencyTotal, NEW V, NEW k, MakesRoom(V, k),
           NEW v \in V, NEW u \in Unpinned \ V
    PROVE  <<v, u>> \in older
<1>1. EvictionPrefix(V)
    BY DEF MakesRoom
<1>2. v \in Ready /\ u \in Ready /\ v # u
    BY <1>1 DEF EvictionPrefix, Unpinned
<1> QED
    BY <1>1, <1>2 DEF EvictionPrefix, RecencyTotal

\* Keeping the latest of the evicted entries would exceed the ceiling.
LEMMA NoneTooMany ==
    ASSUME IndInv, RecencyTotal, NEW k \in Keys, NEW V, MakesRoom(V, k), NEW v \in V,
           \A w \in V \ {v} : <<w, v>> \in older
    PROVE  Bytes((Ready \ V) \cup {v}) + Bytes(Loading) + Size[k] > Capacity
<1> DEFINE W == V \ {v}
<1>1. EvictionPrefix(V) /\ V \subseteq Unpinned /\ Unpinned \subseteq Ready
    BY DEF MakesRoom, EvictionPrefix, Unpinned
<1>2. EvictionPrefix(W)
  <2> SUFFICES ASSUME NEW w \in W, NEW u \in Unpinned, <<u, w>> \in older
               PROVE  u \in W
    BY <1>1 DEF EvictionPrefix
  <2>1. u \in V
    BY <1>1 DEF EvictionPrefix
  <2>2. u # v
    BY <1>1 DEF RecencyTotal
  <2> QED
    BY <2>1, <2>2
<1>3. ~Fits(W, k)
    BY <1>1, <1>2 DEF MakesRoom
<1>4. W \in SUBSET Ready /\ Ready \in SUBSET Keys
    BY <1>1 DEF Ready
<1>5. Bytes(Ready \ W) = used - Bytes(W) /\ Bytes(W) \in Nat
    BY <1>4, BytesRemove, ByteSetFinite DEF IndInv, Accounting
<1>6. Ready \ W = (Ready \ V) \cup {v}
    BY <1>1
<1>7. /\ Bytes(Loading) = reserved
      /\ reserved \in Nat /\ used \in Nat /\ Size[k] \in Nat
    BY ConfigAssumption DEF IndInv, Accounting, TypeOK
<1>8. Bytes((Ready \ V) \cup {v}) = used - Bytes(W)
    BY <1>5, <1>6
<1>9. used - Bytes(W) + reserved + Size[k] > Capacity
    BY <1>3, <1>5, <1>7, ConfigAssumption DEF Fits
<1> QED
    BY <1>5, <1>7, <1>8, <1>9, ConfigAssumption

\* reserve_capacity takes the least recently used entries and no more of them
\* than it must.
THEOREM EvictionIsLru == Spec => EvictsLeastRecent
<1> DEFINE A == \A t \in Threads :
                   pc[t] = "try" /\ pc'[t] = "load" =>
                     LET gone == Ready \ Ready' IN
                     /\ \A v \in gone, u \in Unpinned \ gone : <<v, u>> \in older
                     /\ \A v \in gone : (\A w \in gone \ {v} : <<w, v>> \in older) =>
                           Bytes((Ready \ gone) \cup {v}) + Bytes(Loading) + Size[req[t]] > Capacity
<1>1. IndInv /\ RecencyTotal /\ [Next]_vars => A
  <2> SUFFICES ASSUME IndInv, RecencyTotal, [Next]_vars,
                      NEW t \in Threads, pc[t] = "try", pc'[t] = "load"
               PROVE  /\ \A v \in Evicted, u \in Unpinned \ Evicted : <<v, u>> \in older
                      /\ \A v \in Evicted : (\A w \in Evicted \ {v} : <<w, v>> \in older) =>
                            Bytes((Ready \ Evicted) \cup {v}) + Bytes(Loading) + Size[req[t]] > Capacity
    BY DEF Evicted
  <2>1. MakesRoom(Evicted, req[t])
    BY OnlyReserve, ReserveEvicts
  <2>2. req[t] \in Keys
    BY DEF IndInv, TypeOK
  <2> QED
    BY <2>1, <2>2, LeastRecentGo, NoneTooMany
<1>2. IndInv /\ RecencyTotal /\ [Next]_vars => [A]_vars
    BY <1>1
<1> QED
    BY <1>2, Invariance, RecencyHolds, PTL DEF Spec, EvictsLeastRecent
=============================================================================
