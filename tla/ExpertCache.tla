---------------------------- MODULE ExpertCache ----------------------------
(***************************************************************************)
(* The compressed expert cache of bridge-cache: one mutex-protected State, *)
(* a condition variable, leases that pin what they hand out, and loaders   *)
(* that run outside the lock under a byte reservation.                     *)
(*                                                                         *)
(* Every step is one critical section of the mutex.  Byte contents are     *)
(* abstracted to their sizes, last_used ticks to the order they induce,    *)
(* and the statistics counters (read by nobody inside the cache) are left  *)
(* out.  heat saturates at HeatCap as the u64 saturates in the code.       *)
(***************************************************************************)
EXTENDS Integers, FiniteSets

CONSTANTS Keys,        \* expert identifiers
          Threads,     \* callers; each holds at most one lease per key
          Size,        \* Size[k]: expected_bytes passed for k
          Capacity,    \* CacheConfig.capacity_bytes
          AdmitAfter,  \* CacheConfig.admit_after_requests
          HeatCap,     \* where a request count saturates
          Snapshots    \* heat snapshots import_heat_json may be given

\* CacheConfig::validate refuses a zero capacity and a zero threshold.
ASSUME ConfigAssumption ==
    /\ IsFiniteSet(Keys)
    /\ IsFiniteSet(Threads)
    /\ Size \in [Keys -> Nat]
    /\ Capacity \in Nat \ {0}
    /\ AdmitAfter \in Nat \ {0}
    /\ HeatCap \in Nat
    /\ AdmitAfter <= HeatCap
    /\ Snapshots \subseteq [Keys -> 0..HeatCap]

VARIABLES entry,     \* entry[k]: no entry, Entry::Loading or Entry::Ready
          resident,  \* resident[k]: the flag of the entry of k
          pins,      \* pins[k]: the pin count of a Ready entry
          older,     \* pairs <<a, b>> of Ready keys, a.last_used < b.last_used
          heat,      \* heat[k]: misses counted for k (0: no heat entry)
          used,      \* used_bytes
          reserved,  \* reserved_bytes
          pc,        \* where each caller is, or what its last call returned
          req,       \* the key of each caller's current or last call
          held       \* the keys of the leases each caller has not dropped

vars == <<entry, resident, pins, older, heat, used, reserved, pc, req, held>>

Running  == {"try", "wait", "load"}
Returned == {"none", "lease", "absent", "EmptyEntry", "EntryTooLarge",
             "CapacityPinned", "LoadFailed", "ReservationLost"}

Ready    == {k \in Keys : entry[k] = "ready"}
Loading  == {k \in Keys : entry[k] = "loading"}

AnyIdleEntry == {k \in Keys : entry[k] # "absent" /\ pins[k] = 0}  \* mutant: Loading too
AnyReadyEntry == Ready                                          \* mutant: pins ignored
Unpinned == {k \in Ready : pins[k] = 0}

\* The bytes of a set of entries: one pair per byte, counted.
Bytes(S) == Cardinality({b \in S \X (1..Capacity) : b[2] <= Size[b[1]]})

-----------------------------------------------------------------------------
(* The critical sections' building blocks. *)

\* A fresh tick is later than every tick in use.
Touched(k, present) ==
    {p \in older : p[1] # k /\ p[2] # k} \cup ((present \ {k}) \X {k})

\* The order that is left when the keys of V have no Ready entry any more.
Forgotten(V) == {p \in older : p[1] \notin V /\ p[2] \notin V}

SaturatingInc(n) == IF n < HeatCap THEN n + 1 ELSE HeatCap
SaturatingSub(m, n) == IF m > n THEN m - n ELSE 0

NotifyNone(p) == p  \* mutant: the notification is forgotten

\* notify_all: every waiter leaves the wait set and will retry.
NotifyAll(p) == [t \in Threads |-> IF p[t] = "wait" THEN "try" ELSE p[t]]

\* Mutant: max_by_key instead of min_by_key.
MostRecentFirst(V) ==
    /\ V \subseteq Unpinned
    /\ \A v \in V, u \in Unpinned : <<v, u>> \in older => u \in V

\* reserve_capacity evicts unpinned entries in last_used order.
EvictionPrefix(V) ==
    /\ V \subseteq Unpinned
    /\ \A v \in V, u \in Unpinned : <<u, v>> \in older => u \in V

FitsIgnoringReserved(V, k) == (used - Bytes(V)) + Size[k] <= Capacity  \* mutant
Fits(V, k) == (used - Bytes(V)) + reserved + Size[k] <= Capacity

\* It stops at the first prefix that makes room ...
MakesRoom(V, k) ==
    /\ EvictionPrefix(V)
    /\ Fits(V, k)
    /\ \A W \in SUBSET Unpinned : EvictionPrefix(W) /\ Fits(W, k) => V \subseteq W

NoRoomAtOnce(k) == ~Fits({}, k)  \* mutant: gives up before evicting

\* ... and fails, with every unpinned entry already gone, when none does.
NoRoom(k) == ~ \E V \in SUBSET Unpinned : EvictionPrefix(V) /\ Fits(V, k)

Evict(V) ==
    /\ used' = used - Bytes(V)
    /\ older' = Forgotten(V)

Return(t, result) == pc' = [pc EXCEPT ![t] = result]

-----------------------------------------------------------------------------
(* Operations. *)

Init ==
    /\ entry = [k \in Keys |-> "absent"]
    /\ resident = [k \in Keys |-> FALSE]
    /\ pins = [k \in Keys |-> 0]
    /\ older = {}
    /\ heat = [k \in Keys |-> 0]
    /\ used = 0
    /\ reserved = 0
    /\ pc = [t \in Threads |-> "none"]
    /\ req \in [Threads -> Keys]
    /\ held = [t \in Threads |-> {}]

\* A caller with nothing in flight and no lease on k yet.
Idle(t, k) == pc[t] \in Returned /\ k \notin held[t]

Pin(t, k) ==
    /\ pins' = [pins EXCEPT ![k] = @ + 1]
    /\ older' = Touched(k, Ready)
    /\ held' = [held EXCEPT ![t] = @ \cup {k}]
    /\ Return(t, "lease")

\* get: a hit pins the entry; no entry and a Loading entry both give None.
GetHit(t, k) ==
    /\ Idle(t, k)
    /\ entry[k] = "ready"
    /\ req' = [req EXCEPT ![t] = k]
    /\ Pin(t, k)
    /\ UNCHANGED <<entry, resident, heat, used, reserved>>

GetNone(t, k) ==
    /\ Idle(t, k)
    /\ entry[k] # "ready"
    /\ req' = [req EXCEPT ![t] = k]
    /\ Return(t, "absent")
    /\ UNCHANGED <<entry, resident, pins, older, heat, used, reserved, held>>

\* get_or_try_insert: the size checks, before the lock is taken.
Call(t, k) ==
    /\ Idle(t, k)
    /\ req' = [req EXCEPT ![t] = k]
    /\ Return(t, CASE Size[k] = 0 -> "EmptyEntry"
                   [] Size[k] > Capacity -> "EntryTooLarge"
                   [] OTHER -> "try")
    /\ UNCHANGED <<entry, resident, pins, older, heat, used, reserved, held>>

\* One turn of its loop, by what the entry of the key is.
Hit(t) ==
    /\ pc[t] = "try"
    /\ entry[req[t]] = "ready"
    /\ Pin(t, req[t])
    /\ UNCHANGED <<entry, resident, heat, used, reserved, req>>

Wait(t) ==
    /\ pc[t] = "try"
    /\ entry[req[t]] = "loading"
    /\ pc' = [pc EXCEPT ![t] = "wait"]
    /\ UNCHANGED <<entry, resident, pins, older, heat, used, reserved, req, held>>

Reserve(t) ==
    LET k == req[t] IN
    /\ pc[t] = "try"
    /\ entry[k] = "absent"
    /\ heat' = [heat EXCEPT ![k] = SaturatingInc(@)]
    /\ \E V \in SUBSET Unpinned :
          /\ MakesRoom(V, k)
          /\ Evict(V)
          /\ entry' = [x \in Keys |-> IF x = k THEN "loading"
                                      ELSE IF x \in V THEN "absent" ELSE entry[x]]
          /\ resident' = [x \in Keys |-> IF x = k THEN heat'[k] >= AdmitAfter
                                         ELSE IF x \in V THEN FALSE ELSE resident[x]]
    /\ reserved' = reserved + Size[k]
    /\ pc' = [pc EXCEPT ![t] = "load"]
    /\ UNCHANGED <<pins, req, held>>

Refuse(t) ==
    LET k == req[t] IN
    /\ pc[t] = "try"
    /\ entry[k] = "absent"
    /\ NoRoom(k)
    /\ heat' = [heat EXCEPT ![k] = SaturatingInc(@)]
    /\ Evict(Unpinned)
    /\ entry' = [x \in Keys |-> IF x \in Unpinned THEN "absent" ELSE entry[x]]
    /\ resident' = [x \in Keys |-> IF x \in Unpinned THEN FALSE ELSE resident[x]]
    /\ Return(t, "CapacityPinned")
    /\ UNCHANGED <<pins, reserved, req, held>>

\* The loader returned the expected bytes and the lock is held again.
Publish(t) ==
    LET k == req[t] IN
    /\ pc[t] = "load"
    /\ IF entry[k] = "loading"
       THEN /\ entry' = [entry EXCEPT ![k] = "ready"]
            /\ reserved' = reserved - Size[k]
            /\ used' = used + Size[k]
            /\ pins' = [pins EXCEPT ![k] = 1]
            /\ older' = Touched(k, Ready)
            /\ held' = [held EXCEPT ![t] = @ \cup {k}]
            /\ pc' = NotifyAll([pc EXCEPT ![t] = "lease"])
       ELSE /\ pc' = NotifyAll([pc EXCEPT ![t] = "ReservationLost"])
            /\ UNCHANGED <<entry, reserved, used, pins, older, held>>
    /\ UNCHANGED <<resident, heat, req>>

\* The loader failed, panicked or returned the wrong length: the armed
\* LoadReservation is dropped.
Abandon(t) ==
    LET k == req[t] IN
    /\ pc[t] = "load"
    /\ IF entry[k] = "loading"
       THEN /\ entry' = [entry EXCEPT ![k] = "absent"]
            /\ resident' = [resident EXCEPT ![k] = FALSE]
            /\ reserved' = SaturatingSub(reserved, Size[k])
       ELSE UNCHANGED <<entry, resident, reserved>>
    /\ pc' = NotifyAll([pc EXCEPT ![t] = "LoadFailed"])
    /\ UNCHANGED <<pins, older, heat, used, req, held>>

\* A condition variable may wake a waiter for no reason.
SpuriousWake(t) ==
    /\ pc[t] = "wait"
    /\ pc' = [pc EXCEPT ![t] = "try"]
    /\ UNCHANGED <<entry, resident, pins, older, heat, used, reserved, req, held>>

NeverRemove(k, unpinned) == FALSE  \* mutant: ephemeral entries are kept
RemoveEphemeral(k, unpinned) == unpinned = 0 /\ ~resident[k]

\* CacheLease::drop.
DropLease(t, k) ==
    LET unpin == SaturatingSub(pins[k], 1)
        remove == RemoveEphemeral(k, unpin)
    IN
    /\ pc[t] \in Returned
    /\ k \in held[t]
    /\ held' = [held EXCEPT ![t] = @ \ {k}]
    /\ IF entry[k] = "ready"
       THEN /\ pins' = [pins EXCEPT ![k] = unpin]
            /\ entry' = [entry EXCEPT ![k] = IF remove THEN "absent" ELSE @]
            /\ used' = IF remove THEN SaturatingSub(used, Size[k]) ELSE used
            /\ older' = IF remove THEN Forgotten({k}) ELSE older
       ELSE UNCHANGED <<pins, entry, used, older>>
    /\ pc' = NotifyAll(pc)
    /\ UNCHANGED <<resident, heat, reserved, req>>

\* clear_unpinned: no notification, no waiter can be waiting for a Ready entry.
ClearUnpinned ==
    /\ Evict(Unpinned)
    /\ entry' = [k \in Keys |-> IF k \in Unpinned THEN "absent" ELSE entry[k]]
    /\ resident' = [k \in Keys |-> IF k \in Unpinned THEN FALSE ELSE resident[k]]
    /\ UNCHANGED <<pins, heat, reserved, pc, req, held>>

\* import_heat_json: counts are merged by maximum, 0 standing for a key the
\* snapshot does not list.  A snapshot refused for a zero count has merged
\* the entries before it, which is the merge of a shorter snapshot.
ImportHeat(counts) ==
    /\ heat' = [k \in Keys |-> IF counts[k] > heat[k] THEN counts[k] ELSE heat[k]]
    /\ UNCHANGED <<entry, resident, pins, older, used, reserved, pc, req, held>>

LoaderEnds(t) == Publish(t) \/ Abandon(t)
Turn(t) == Hit(t) \/ Wait(t) \/ Reserve(t) \/ Refuse(t)

Next ==
    \/ \E t \in Threads :
          \/ Turn(t)
          \/ LoaderEnds(t)
          \/ SpuriousWake(t)
          \/ \E k \in Keys : \/ GetHit(t, k)
                             \/ GetNone(t, k)
                             \/ Call(t, k)
                             \/ DropLease(t, k)
    \/ ClearUnpinned
    \/ \E counts \in Snapshots : ImportHeat(counts)

Spec == Init /\ [][Next]_vars

\* A thread that can take the lock eventually does, and every loader returns:
\* it reads one record of a local file.  Callers owe nothing else.
FairSpec == Spec /\ \A t \in Threads : WF_vars(Turn(t)) /\ WF_vars(LoaderEnds(t))

-----------------------------------------------------------------------------
(* Properties. *)

\* The State of the cache and the callers have the shapes the code gives them;
\* the byte counters stay natural, so no checked_sub of the code ever fails.
TypeOK ==
    /\ entry \in [Keys -> {"absent", "loading", "ready"}]
    /\ resident \in [Keys -> BOOLEAN]
    /\ pins \in [Keys -> Nat]
    /\ older \in SUBSET (Keys \X Keys)
    /\ heat \in [Keys -> 0..HeatCap]
    /\ used \in Nat
    /\ reserved \in Nat
    /\ pc \in [Threads -> Running \cup Returned]
    /\ req \in [Threads -> Keys]
    /\ held \in [Threads -> SUBSET Keys]

\* used_bytes is what the Ready entries take, reserved_bytes what the loads in
\* flight will take, whatever mixture of publishes, failures, evictions, drops
\* of ephemeral entries and clears led here; and the sum, loads in flight
\* included, never exceeds the configured ceiling.
Accounting ==
    /\ used = Bytes(Ready)
    /\ reserved = Bytes(Loading)
    /\ used + reserved <= Capacity

Holders(k) == {t \in Threads : k \in held[t]}

\* Pin counts are the leases outstanding, so the bytes behind a lease stay in
\* the cache, accounted for, until the last holder drops it.
LeasesPin ==
    /\ \A k \in Keys : pins[k] = Cardinality(Holders(k))
    /\ \A k \in Keys : Holders(k) # {} => entry[k] = "ready"

\* Concurrent requests for one expert share one load: a Loading entry has
\* exactly one loader, and no reservation is ever lost under a loader.
LoadsDeduplicated ==
    /\ \A k \in Loading : \E t \in Threads : pc[t] = "load" /\ req[t] = k
    /\ \A t \in Threads : pc[t] = "load" => entry[req[t]] = "loading"
    /\ \A t, u \in Threads :
          pc[t] = "load" /\ pc[u] = "load" /\ req[t] = req[u] => t = u
    /\ \A t \in Threads : pc[t] # "ReservationLost"

\* Hysteretic admission: an entry below the admission threshold lives only
\* while leased or loading, so it never occupies the cache as a resident does.
AdmissionHysteresis ==
    /\ \A k \in Ready : pins[k] > 0 \/ resident[k]
    /\ \A k \in Keys : resident[k] => heat[k] >= AdmitAfter

\* CapacityPinned is only returned when the leased and in-flight bytes alone
\* leave no room: no unpinned byte could have helped.
RefusalsJustified ==
    [][\A t \in Threads :
          pc[t] = "try" /\ pc'[t] = "CapacityPinned" =>
              Bytes(Loading \cup (Ready \ Unpinned)) + Size[req[t]] > Capacity]_vars

\* A request that starts a load evicts no more than it must, and takes the
\* least recently used: an entry that goes was used before every unpinned one
\* that stays, and keeping the latest one that goes would exceed the ceiling.
EvictsLeastRecent ==
    [][\A t \in Threads :
          pc[t] = "try" /\ pc'[t] = "load" =>
            LET gone == Ready \ Ready' IN
            /\ \A v \in gone, u \in Unpinned \ gone : <<v, u>> \in older
            /\ \A v \in gone : (\A w \in gone \ {v} : <<w, v>> \in older) =>
                  Bytes((Ready \ gone) \cup {v}) + Bytes(Loading) + Size[req[t]] > Capacity]_vars

\* No wakeup is lost: a caller waiting for another's load is always woken,
\* because every way a load ends notifies the condition variable.
WaitersWake == \A t \in Threads : (pc[t] = "wait") ~> (pc[t] # "wait")

\* The entries are in order: every load in flight has one loader, which finds
\* its reservation again.
CacheConsistent == TypeOK /\ LoadsDeduplicated
=============================================================================
