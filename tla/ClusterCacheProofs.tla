------------------------- MODULE ClusterCacheProofs -------------------------
(***************************************************************************)
(* No list goes back while a process lives, and what is shown has a time,  *)
(* for any kinds of resource, any versions of them and any number of runs. *)
(*                                                                         *)
(* A list goes from the cluster to the store, from there to the goroutine  *)
(* that handles the events, and from there to the cache: the versions on   *)
(* that way are in order (Ordered).  The cache may start with the list of a*)
(* snapshot, which the first list of an informer cannot precede, because   *)
(* nothing of any process has a version the cluster did not have (Bounded),*)
(* and because nothing runs before the snapshot is loaded (Quiet).         *)
(***************************************************************************)
EXTENDS ClusterCache, TLAPS

Bounded ==
    \A k \in Kinds :
        /\ store[k].version <= objects[k]
        /\ cache.list[k].version <= objects[k]
        /\ snapshot # NoSnapshot => snapshot.list[k].version <= objects[k]

Timed(c) ==
    /\ \A k \in Kinds : c.meta[k] = "never" <=> c.list[k] = Nothing
    /\ c.meta["metrics"] = "never" <=> c.metrics = NoMetrics

AllTimed == Timed(cache) /\ (snapshot # NoSnapshot => Timed(snapshot))

Ordered ==
    \A k \in Kinds :
        /\ ~store[k].whole => store[k].version # 0
        /\ store[k].version # 0 => cache.list[k].version <= store[k].version
        /\ k \in pending => store[k].version # 0
        /\ sync[k].pc = "set" =>
              /\ sync[k].list.version # 0
              /\ cache.list[k].version <= sync[k].list.version
              /\ sync[k].list.version <= store[k].version

Quiet ==
    phase # "serving" =>
        /\ informers = "idle" /\ store = [k \in Kinds |-> Nothing] /\ pending = {}
        /\ sync = [k \in Kinds |-> Idle]
        /\ cache = EmptyCache

IInv == TypeOK /\ Bounded /\ AllTimed /\ Ordered /\ Quiet

-----------------------------------------------------------------------------

LEMMA Emptiness ==
    /\ Nothing \in List /\ Nothing.version = 0 /\ Nothing.whole
    /\ EmptyCache \in Caches /\ Timed(EmptyCache)
    /\ \A k \in Kinds : EmptyCache.list[k] = Nothing
    /\ \A k : Content(k, Nothing) = Nothing
<1>1. Nothing \in List /\ Nothing.version = 0 /\ Nothing.whole
  BY DEF Nothing, Whole, List
<1>2. EmptyCache \in Caches
  BY <1>1 DEF EmptyCache, Caches, Times
<1>3. EmptyCache.list = [k \in Kinds |-> Nothing] /\ EmptyCache.metrics = NoMetrics
      /\ EmptyCache.meta = [r \in Resources |-> "never"]
  BY DEF EmptyCache
<1>4. Timed(EmptyCache)
  BY <1>3 DEF Timed, Resources
<1>5. \A k : Content(k, Nothing) = Nothing
  BY DEF Content, Nothing, Whole
<1> QED
  BY <1>1, <1>2, <1>3, <1>4, <1>5

LEMMA InitInv == Init => IInv
<1> SUFFICES ASSUME Init PROVE IInv
  OBVIOUS
<1> USE DEF Init
<1>1. \A k \in Kinds : Idle \in [pc : {"idle", "set", "nodes", "pods"}, list : List,
                                 nodes : List, pods : List] /\ Idle.pc = "idle"
  BY Emptiness DEF Idle
<1>2. TypeOK
  <2>1. ASSUME NEW k \in Kinds PROVE 1 \in 1..Versions[k]
    <3>1. Versions[k] \in Nat /\ Versions[k] # 0
      BY VersionsAssumption
    <3> QED
      BY <3>1
  <2> QED
    BY <1>1, <2>1, Emptiness DEF TypeOK
<1>3. Bounded
  <2> SUFFICES ASSUME NEW k \in Kinds
               PROVE store[k].version <= objects[k] /\ cache.list[k].version <= objects[k]
    BY DEF Bounded
  <2>1. store[k].version = 0 /\ cache.list[k].version = 0 /\ objects[k] = 1
    BY Emptiness
  <2> QED
    BY <2>1
<1>4. AllTimed
  BY Emptiness DEF AllTimed
<1>5. Ordered
  BY <1>1, Emptiness DEF Ordered
<1>6. Quiet
  BY DEF Quiet
<1> QED
  BY <1>2, <1>3, <1>4, <1>5, <1>6 DEF IInv

-----------------------------------------------------------------------------
(* The steps of the cluster and of the network *)

LEMMA ChangeStep == \A k \in Kinds : IInv /\ Change(k) => IInv'
<1> SUFFICES ASSUME NEW c \in Kinds, IInv, Change(c) PROVE IInv'
  OBVIOUS
<1> USE DEF IInv
<1>1. UNCHANGED <<process, watch, cache, reachable, snapshot>>
  BY DEF Change
<1>2. objects' \in [Kinds -> Nat]
      /\ \A k \in Kinds : objects'[k] \in 1..Versions[k] /\ objects[k] <= objects'[k]
  <2>1. objects \in [Kinds -> Nat] /\ \A k \in Kinds : objects[k] \in 1..Versions[k]
    BY DEF TypeOK
  <2>2. objects[c] < Versions[c] /\ objects' = [objects EXCEPT ![c] = @ + 1]
    BY DEF Change
  <2>3. \A k \in Kinds : Versions[k] \in Nat
    BY VersionsAssumption
  <2> QED
    BY <2>1, <2>2, <2>3
<1>3. TypeOK'
  BY <1>1, <1>2 DEF TypeOK, process, watch
<1>4. Bounded'
  <2>1. \A k \in Kinds : /\ store[k].version \in Nat /\ cache.list[k].version \in Nat
                         /\ objects[k] \in Nat /\ objects'[k] \in Nat
                         /\ snapshot # NoSnapshot => snapshot.list[k].version \in Nat
    BY <1>2 DEF TypeOK, Caches, List
  <2> QED
    BY <1>1, <1>2, <2>1 DEF Bounded, watch
<1>5. AllTimed' /\ Ordered' /\ Quiet'
  BY <1>1 DEF AllTimed, Timed, Ordered, Quiet, process, watch
<1> QED
  BY <1>3, <1>4, <1>5

(* The connection, the kubeconfig, the probe and the start of a process are not
   what the invariant is about. *)
LEMMA AsideStep ==
    IInv /\ (ConnectionChanges \/ ConfigAppears \/ Probe) => IInv'
<1> SUFFICES ASSUME IInv, ConnectionChanges \/ ConfigAppears \/ Probe PROVE IInv'
  OBVIOUS
<1>1. UNCHANGED <<objects, process, watch, cache, snapshot>>
  BY DEF ConnectionChanges, ConfigAppears, Probe, world
<1> QED
  BY <1>1 DEF IInv, TypeOK, Bounded, AllTimed, Timed, Ordered, Quiet, process, watch

-----------------------------------------------------------------------------
(* The life of the process *)

LEMMA LaunchStep == IInv /\ Launch => IInv'
<1> SUFFICES ASSUME IInv, Launch PROVE IInv'
  OBVIOUS
<1>1. UNCHANGED <<objects, watch, cache, snapshot>> /\ phase = "down" /\ phase' = "loading"
  BY DEF Launch, world
<1> QED
  BY <1>1 DEF IInv, TypeOK, Bounded, AllTimed, Timed, Ordered, Quiet, watch

LEMMA LoadStep == IInv /\ LoadSnapshot => IInv'
<1> SUFFICES ASSUME IInv, LoadSnapshot PROVE IInv'
  OBVIOUS
<1> USE DEF IInv
<1>1. UNCHANGED <<objects, watch>> /\ phase = "loading" /\ phase' = "serving"
      /\ snapshot' \in {snapshot, NoSnapshot}
  BY DEF LoadSnapshot, Kept, world
<1>2. /\ informers = "idle" /\ store = [k \in Kinds |-> Nothing] /\ pending = {}
      /\ sync = [k \in Kinds |-> Idle] /\ cache = EmptyCache
  BY <1>1 DEF Quiet
<1>3. /\ cache' \in Caches /\ Timed(cache')
      /\ \A k \in Kinds : cache'.list[k].version <= objects[k]
  <2>1. CASE UNCHANGED cache
    BY <2>1 DEF TypeOK, AllTimed, Bounded
  <2>2. CASE snapshot # NoSnapshot /\ cache' = Loaded(snapshot)
    <3>1. snapshot \in Caches /\ Timed(snapshot)
          /\ \A k \in Kinds : snapshot.list[k].version <= objects[k]
      BY <2>2 DEF TypeOK, AllTimed, Bounded
    <3> DEFINE meta == [r \in Resources |-> IF snapshot.meta[r] = "never" THEN "never"
                                             ELSE "before"]
    <3>2. cache' = [snapshot EXCEPT !.meta = meta]
      BY <2>2 DEF Loaded
    <3>3. meta \in [Resources -> Times]
      BY DEF Times
    <3>4. cache'.list = snapshot.list /\ cache'.metrics = snapshot.metrics
          /\ cache'.meta = meta /\ cache' \in Caches
      BY <3>1, <3>2, <3>3 DEF Caches
    <3>5. \A r \in Resources : cache'.meta[r] = "never" <=> snapshot.meta[r] = "never"
      BY <3>4
    <3>6. Timed(cache')
      BY <3>1, <3>4, <3>5 DEF Timed, Resources
    <3> QED
      BY <3>1, <3>4, <3>6
  <2> QED
    BY <2>1, <2>2 DEF LoadSnapshot
<1>4. TypeOK'
  BY <1>1, <1>3 DEF TypeOK, watch
<1>5. Bounded'
  BY <1>1, <1>3 DEF Bounded, watch
<1>6. AllTimed'
  BY <1>1, <1>3 DEF AllTimed, Timed
<1>7. Ordered'
  BY <1>1, <1>2, Emptiness DEF Ordered, watch, Idle
<1>8. Quiet'
  BY <1>1 DEF Quiet
<1> QED
  BY <1>4, <1>5, <1>6, <1>7, <1>8

LEMMA StoredIsSound ==
    IInv => /\ Stored \in Caches \cup {NoSnapshot}
            /\ Stored # NoSnapshot =>
                  Timed(Stored) /\ \A k \in Kinds : Stored.list[k].version <= objects[k]
BY DEF IInv, Stored, TypeOK, AllTimed, Bounded

LEMMA GoneStep ==
    ASSUME IInv, Gone, snapshot' \in {snapshot, Stored}
    PROVE  IInv'
<1> USE DEF IInv
<1>1. /\ UNCHANGED objects /\ phase' = "down"
      /\ informers' = "idle" /\ store' = [k \in Kinds |-> Nothing] /\ pending' = {}
      /\ sync' = [k \in Kinds |-> Idle] /\ cache' = EmptyCache
  BY DEF Gone, world
<1>2. /\ snapshot' \in Caches \cup {NoSnapshot}
      /\ snapshot' # NoSnapshot =>
            Timed(snapshot') /\ \A k \in Kinds : snapshot'.list[k].version <= objects[k]
  BY StoredIsSound DEF TypeOK, AllTimed, Bounded
<1>3. \A k \in Kinds : Idle \in [pc : {"idle", "set", "nodes", "pods"}, list : List,
                                 nodes : List, pods : List] /\ Idle.pc = "idle"
  BY Emptiness DEF Idle
<1>4. TypeOK'
  BY <1>1, <1>2, <1>3, Emptiness DEF TypeOK
<1>5. Bounded'
  BY <1>1, <1>2, Emptiness DEF Bounded, TypeOK
<1>6. AllTimed'
  BY <1>1, <1>2, Emptiness DEF AllTimed, Timed
<1>7. Ordered'
  BY <1>1, <1>3, Emptiness DEF Ordered
<1>8. Quiet'
  BY <1>1 DEF Quiet
<1> QED
  BY <1>4, <1>5, <1>6, <1>7, <1>8

LEMMA EndStep == IInv /\ (Crash \/ Shutdown) => IInv'
BY GoneStep DEF Crash, Shutdown

LEMMA SaveStep == IInv /\ SaveSnapshot => IInv'
<1> SUFFICES ASSUME IInv, SaveSnapshot PROVE IInv'
  OBVIOUS
<1> USE DEF IInv
<1>1. UNCHANGED <<objects, process, watch, cache>> /\ snapshot' = Stored
  BY DEF SaveSnapshot, world
<1>2. TypeOK'
  BY <1>1, StoredIsSound DEF TypeOK, process, watch
<1>3. Bounded'
  BY <1>1, StoredIsSound DEF Bounded, watch
<1>4. AllTimed'
  BY <1>1, StoredIsSound DEF AllTimed, Timed
<1>5. Ordered' /\ Quiet'
  BY <1>1 DEF Ordered, Quiet, process, watch
<1> QED
  BY <1>2, <1>3, <1>4, <1>5

-----------------------------------------------------------------------------
(* The informers *)

LEMMA StartStep == IInv /\ StartInformers => IInv'
<1> SUFFICES ASSUME IInv, StartInformers PROVE IInv'
  OBVIOUS
<1>1. /\ UNCHANGED <<objects, phase, store, pending, sync, cache, snapshot>>
      /\ phase = "serving" /\ informers' \in {"running", "failed"}
  BY DEF StartInformers, Background, world, process
<1> QED
  BY <1>1 DEF IInv, TypeOK, Bounded, AllTimed, Timed, Ordered, Quiet

(* What a store takes over is no older than what is shown, and what the cluster
   has had. *)
LEMMA TakesStep ==
    ASSUME NEW c \in Kinds, NEW list \in List, IInv, Takes(c, list),
           phase = "serving",
           list.version # 0, list.version <= objects[c],
           cache.list[c].version <= list.version, store[c].version <= list.version
    PROVE  IInv'
<1> USE DEF IInv
<1>1. /\ UNCHANGED <<objects, phase, informers, sync, cache, snapshot>>
      /\ store' = [store EXCEPT ![c] = list]
      /\ pending' \in {pending, pending \cup {c}}
  BY DEF Takes, world, process
<1>2. TypeOK'
  BY <1>1 DEF TypeOK
<1>3. \A k \in Kinds : store'[k] = IF k = c THEN list ELSE store[k]
  BY <1>1 DEF TypeOK
<1>4. Bounded'
  BY <1>1, <1>3 DEF Bounded
<1>5. AllTimed'
  BY <1>1 DEF AllTimed, Timed
<1>6. Ordered'
  <2>1. \A k \in Kinds : /\ store[k].version \in Nat /\ cache.list[k].version \in Nat
                         /\ sync[k].list.version \in Nat
    BY DEF TypeOK, Caches, List
  <2>2. list.version \in Nat
    BY DEF List
  <2>3. \A k \in Kinds : k \in pending' => k = c \/ k \in pending
    BY <1>1
  <2> QED
    BY <1>1, <1>3, <2>1, <2>2, <2>3 DEF Ordered
<1>7. Quiet'
  BY <1>1 DEF Quiet
<1> QED
  BY <1>2, <1>4, <1>5, <1>6, <1>7

LEMMA ReflectStep == \A k \in Kinds : IInv /\ Reflect(k) => IInv'
<1> SUFFICES ASSUME NEW c \in Kinds, IInv, Reflect(c) PROVE IInv'
  OBVIOUS
<1> USE DEF IInv
<1>1. /\ store[c] \in List /\ store[c].version \in Nat
      /\ cache.list[c].version \in Nat /\ objects[c] \in Nat
  BY DEF TypeOK, Caches, List
<1>2. PICK v \in (store[c].version + 1)..objects[c] :
        /\ store[c] = Nothing => v = objects[c]
        /\ Takes(c, Whole(v)) \/ Takes(c, Part(v))
  BY DEF Reflect
<1>3. v \in Nat /\ v # 0 /\ v <= objects[c] /\ store[c].version <= v
  BY <1>1, <1>2
<1>4. cache.list[c].version <= v
  <2>1. CASE store[c] = Nothing
    BY <1>1, <1>2, <2>1 DEF Bounded
  <2>2. CASE store[c] # Nothing
    <3>1. store[c].whole
      BY DEF Reflect
    <3>2. store[c].version # 0
      BY <1>1, <2>2, <3>1 DEF Nothing, Whole, List
    <3>3. cache.list[c].version <= store[c].version
      BY <3>2 DEF Ordered
    <3> QED
      BY <1>1, <1>3, <3>3
  <2> QED
    BY <2>1, <2>2
<1>5. Whole(v) \in List /\ Part(v) \in List /\ Whole(v).version = v /\ Part(v).version = v
  BY <1>3 DEF Whole, Part, List
<1>6. phase = "serving"
  BY DEF Reflect, Quiet
<1>7. CASE Takes(c, Whole(v))
  BY <1>3, <1>4, <1>5, <1>6, <1>7, TakesStep
<1>8. CASE Takes(c, Part(v))
  BY <1>3, <1>4, <1>5, <1>6, <1>8, TakesStep
<1> QED
  BY <1>2, <1>7, <1>8

LEMMA TakeRestStep == \A k \in Kinds : IInv /\ TakeRest(k) => IInv'
<1> SUFFICES ASSUME NEW c \in Kinds, IInv, TakeRest(c) PROVE IInv'
  OBVIOUS
<1> USE DEF IInv
<1> DEFINE list == Whole(store[c].version)
<1>1. /\ store[c] \in List /\ store[c].version \in Nat /\ ~store[c].whole
      /\ Takes(c, list)
  BY DEF TypeOK, List, TakeRest
<1>2. list \in List /\ list.version = store[c].version
  BY <1>1 DEF Whole, List
<1>3. store[c] # Nothing
  BY <1>1 DEF Nothing, Whole
<1>4. phase = "serving"
  BY <1>3 DEF Quiet
<1> QED
  <2>1. store[c].version # 0 /\ store[c].version <= objects[c]
    BY <1>1 DEF Ordered, Bounded
  <2>2. cache.list[c].version <= store[c].version
    BY <2>1 DEF Ordered
  <2> QED
    BY <1>1, <1>2, <1>4, <2>1, <2>2, TakesStep

LEMMA ResyncStep == \A k \in Kinds : IInv /\ Resync(k) => IInv'
<1> SUFFICES ASSUME NEW c \in Kinds, IInv, Resync(c) PROVE IInv'
  OBVIOUS
<1> USE DEF IInv
<1>1. /\ UNCHANGED <<objects, phase, informers, store, sync, cache, snapshot>>
      /\ pending' = pending \cup {c}
  BY DEF Resync, world, process
<1>2. store[c] # Nothing
  BY Emptiness DEF Resync, Resyncs
<1>3. store[c].version # 0
  <2>1. store[c] \in List /\ (~store[c].whole => store[c].version # 0)
    BY DEF TypeOK, Ordered
  <2> QED
    BY <1>2, <2>1 DEF Nothing, Whole, List
<1>4. TypeOK'
  BY <1>1 DEF TypeOK
<1>5. Ordered'
  BY <1>1, <1>3 DEF Ordered
<1>6. Bounded' /\ AllTimed'
  BY <1>1 DEF Bounded, AllTimed, Timed
<1>7. Quiet'
  BY <1>1, <1>2 DEF Quiet
<1> QED
  BY <1>4, <1>5, <1>6, <1>7

-----------------------------------------------------------------------------
(* The goroutines that handle the events *)

LEMMA NotIdle ==
    ASSUME NEW k \in Kinds, IInv, k \in pending \/ sync[k].pc # "idle"
    PROVE  phase = "serving"
BY DEF IInv, Quiet, Idle

LEMMA SyncReadsStep == \A k \in Kinds : IInv /\ SyncReads(k) => IInv'
<1> SUFFICES ASSUME NEW c \in Kinds, IInv, SyncReads(c) PROVE IInv'
  OBVIOUS
<1> USE DEF IInv
<1>1. /\ UNCHANGED <<objects, phase, informers, store, cache, snapshot>>
      /\ c \in pending /\ pending' = pending \ {c}
      /\ sync' = [sync EXCEPT ![c].pc = "set", ![c].list = store[c]]
  BY DEF SyncReads, Syncing, world, process
<1>2. phase = "serving"
  BY <1>1, NotIdle
<1>3. TypeOK'
  BY <1>1 DEF TypeOK
<1>4. \A k \in Kinds : IF k = c THEN sync'[k].list = store[k] ELSE sync'[k] = sync[k]
  BY <1>1 DEF TypeOK
<1>5. Ordered'
  <2> SUFFICES ASSUME NEW k \in Kinds, k = c
               PROVE  /\ store[k].version # 0
                      /\ cache.list[k].version <= store[k].version
                      /\ store[k].version <= store[k].version
    BY <1>1, <1>4 DEF Ordered
  <2>1. store[k].version \in Nat
    BY DEF TypeOK, List
  <2> QED
    BY <1>1, <2>1 DEF Ordered
<1>6. Bounded' /\ AllTimed'
  BY <1>1 DEF Bounded, AllTimed, Timed
<1>7. Quiet'
  BY <1>1, <1>2 DEF Quiet
<1> QED
  BY <1>3, <1>5, <1>6, <1>7

LEMMA SyncSetsStep == \A k \in Kinds : IInv /\ SyncSets(k) => IInv'
<1> SUFFICES ASSUME NEW c \in Kinds, IInv, SyncSets(c) PROVE IInv'
  OBVIOUS
<1> USE DEF IInv
<1> DEFINE next == IF c \in Metered
                   THEN [Idle EXCEPT !.pc = "nodes", !.nodes = store["nodes"]]
                   ELSE Idle
<1>1. /\ UNCHANGED <<objects, phase, informers, store, pending, snapshot>>
      /\ sync[c].pc = "set"
      /\ cache' = [cache EXCEPT !.list[c] = sync[c].list, !.meta[c] = "now"]
      /\ sync' = [sync EXCEPT ![c] = next]
  BY DEF SyncSets, At, Syncing, world, process
<1>2. phase = "serving"
  BY <1>1, NotIdle
<1>3. /\ sync[c].list \in List /\ sync[c].list.version # 0
      /\ cache.list[c].version <= sync[c].list.version
      /\ sync[c].list.version <= store[c].version
  BY <1>1 DEF TypeOK, Ordered
<1>4. /\ cache'.metrics = cache.metrics
      /\ cache'.list = [cache.list EXCEPT ![c] = sync[c].list]
      /\ cache'.meta = [cache.meta EXCEPT ![c] = "now"]
      /\ cache' \in Caches
  BY <1>1, <1>3 DEF TypeOK, Caches, Times, Resources
<1>5. /\ \A k \in Kinds : cache'.list[k] = IF k = c THEN sync[c].list ELSE cache.list[k]
      /\ \A r \in Resources : cache'.meta[r] = IF r = c THEN "now" ELSE cache.meta[r]
  BY <1>4 DEF TypeOK, Caches
<1>6. next \in [pc : {"idle", "nodes"}, list : List, nodes : List, pods : List]
  <2>1. "nodes" \in Kinds /\ store["nodes"] \in List
    BY KindsAssumption DEF Metered, TypeOK
  <2> QED
    BY <2>1, Emptiness DEF Idle
<1>7. TypeOK'
  BY <1>1, <1>4, <1>6 DEF TypeOK
<1>8. Bounded'
  <2>1. /\ store[c].version <= objects[c] /\ objects[c] \in Nat
        /\ store[c].version \in Nat /\ sync[c].list.version \in Nat
    BY DEF Bounded, TypeOK, List
  <2>2. sync[c].list.version <= objects[c]
    BY <1>3, <2>1
  <2> QED
    BY <1>1, <1>5, <2>2 DEF Bounded
<1>9. AllTimed'
  <2>1. sync[c].list # Nothing
    BY <1>3, Emptiness
  <2>2. c # "metrics"
    BY KindsAssumption
  <2> QED
    BY <1>1, <1>4, <1>5, <2>1, <2>2 DEF AllTimed, Timed, Resources
<1>10. Ordered'
  <2>1. \A k \in Kinds : sync'[k] = IF k = c THEN next ELSE sync[k]
    BY <1>1 DEF TypeOK
  <2>2. next.pc # "set"
    BY <1>6
  <2> HIDE DEF next
  <2> SUFFICES ASSUME NEW k \in Kinds
               PROVE  /\ ~store[k].whole => store[k].version # 0
                      /\ store[k].version # 0 => cache'.list[k].version <= store[k].version
                      /\ k \in pending => store[k].version # 0
                      /\ sync'[k].pc = "set" =>
                            /\ sync'[k].list.version # 0
                            /\ cache'.list[k].version <= sync'[k].list.version
                            /\ sync'[k].list.version <= store[k].version
    BY <1>1 DEF Ordered
  <2>3. CASE k = c
    <3>1. cache'.list[k] = sync[c].list /\ sync'[k].pc # "set"
      BY <1>5, <2>1, <2>2, <2>3
    <3> QED
      BY <1>3, <2>3, <3>1 DEF Ordered
  <2>4. CASE k # c
    <3>1. cache'.list[k] = cache.list[k] /\ sync'[k] = sync[k]
      BY <1>5, <2>1, <2>4
    <3> QED
      BY <3>1 DEF Ordered
  <2> QED
    BY <2>3, <2>4
<1>11. Quiet'
  BY <1>1, <1>2 DEF Quiet
<1> QED
  BY <1>7, <1>8, <1>9, <1>10, <1>11

LEMMA ReadPodsStep == \A k \in Kinds : IInv /\ MetricsReadPods(k) => IInv'
<1> SUFFICES ASSUME NEW c \in Kinds, IInv, MetricsReadPods(c) PROVE IInv'
  OBVIOUS
<1> USE DEF IInv
<1>1. /\ UNCHANGED <<objects, phase, informers, store, pending, cache, snapshot>>
      /\ sync[c].pc = "nodes"
      /\ sync' = [sync EXCEPT ![c].pc = "pods", ![c].pods = store["pods"]]
  BY DEF MetricsReadPods, At, Syncing, world, process
<1>2. phase = "serving"
  BY <1>1, NotIdle
<1>3. TypeOK'
  <2>1. "pods" \in Kinds /\ store["pods"] \in List
    BY KindsAssumption DEF Metered, TypeOK
  <2> QED
    BY <1>1, <2>1 DEF TypeOK
<1>4. \A k \in Kinds : IF k = c THEN sync'[k].pc = "pods" ELSE sync'[k] = sync[k]
  BY <1>1 DEF TypeOK
<1>5. Ordered'
  BY <1>1, <1>4 DEF Ordered
<1>6. Bounded' /\ AllTimed'
  BY <1>1 DEF Bounded, AllTimed, Timed
<1>7. Quiet'
  BY <1>1, <1>2 DEF Quiet
<1> QED
  BY <1>3, <1>5, <1>6, <1>7

LEMMA MetricsSetStep == \A k \in Kinds : IInv /\ MetricsSet(k) => IInv'
<1> SUFFICES ASSUME NEW c \in Kinds, IInv, MetricsSet(c) PROVE IInv'
  OBVIOUS
<1> USE DEF IInv
<1> DEFINE metrics == [nodes |-> sync[c].nodes, pods |-> sync[c].pods]
<1>1. /\ UNCHANGED <<objects, phase, informers, store, pending, snapshot>>
      /\ sync[c].pc = "pods"
      /\ cache' = [cache EXCEPT !.metrics = metrics, !.meta["metrics"] = "now"]
      /\ sync' = [sync EXCEPT ![c] = Idle]
  BY DEF MetricsSet, At, Syncing, world, process
<1>2. phase = "serving"
  BY <1>1, NotIdle
<1>3. metrics \in Metrics /\ metrics # NoMetrics
  <2>1. metrics \in Metrics
    BY DEF TypeOK, Metrics
  <2> QED
    BY <2>1, NoMetricsAssumption
<1>4. /\ cache'.metrics = metrics /\ cache'.list = cache.list
      /\ cache'.meta = [cache.meta EXCEPT !["metrics"] = "now"]
      /\ cache' \in Caches
  BY <1>1, <1>3 DEF TypeOK, Caches, Times, Resources
<1>5. TypeOK'
  <2>1. Idle \in [pc : {"idle"}, list : List, nodes : List, pods : List]
    BY Emptiness DEF Idle
  <2> QED
    BY <1>1, <1>4, <2>1 DEF TypeOK
<1>6. Bounded'
  BY <1>1, <1>4 DEF Bounded
<1>7. AllTimed'
  <2>1. \A r \in Resources : cache'.meta[r] = IF r = "metrics" THEN "now" ELSE cache.meta[r]
    BY <1>4 DEF TypeOK, Caches
  <2>2. "metrics" \notin Kinds
    BY KindsAssumption
  <2> QED
    BY <1>1, <1>3, <1>4, <2>1, <2>2 DEF AllTimed, Timed, Resources
<1>8. Ordered'
  <2>1. \A k \in Kinds : sync'[k] = IF k = c THEN Idle ELSE sync[k]
    BY <1>1 DEF TypeOK
  <2>2. Idle.pc # "set"
    BY DEF Idle
  <2> QED
    BY <1>1, <1>4, <2>1, <2>2 DEF Ordered
<1>9. Quiet'
  BY <1>1, <1>2 DEF Quiet
<1> QED
  BY <1>5, <1>6, <1>7, <1>8, <1>9

-----------------------------------------------------------------------------

LEMMA StepInv == IInv /\ [Next]_vars => IInv'
<1> SUFFICES ASSUME IInv, [Next]_vars PROVE IInv'
  OBVIOUS
<1>1. CASE UNCHANGED vars
  BY <1>1 DEF vars, world, process, watch, IInv, TypeOK, Bounded, AllTimed, Timed, Ordered,
              Quiet
<1>2. CASE \E k \in Kinds : Change(k)
  BY <1>2, ChangeStep
<1>3. CASE ConnectionChanges \/ ConfigAppears \/ Probe
  BY <1>3, AsideStep
<1>4. CASE Launch \/ LoadSnapshot
  BY <1>4, LaunchStep, LoadStep
<1>5. CASE Crash \/ Shutdown \/ SaveSnapshot
  BY <1>5, EndStep, SaveStep
<1>6. CASE StartInformers
  BY <1>6, StartStep
<1>7. CASE \E k \in Kinds : Reflect(k) \/ TakeRest(k) \/ Resync(k)
  BY <1>7, ReflectStep, TakeRestStep, ResyncStep
<1>8. CASE \E k \in Kinds : Handle(k)
  BY <1>8, SyncReadsStep, SyncSetsStep, ReadPodsStep, MetricsSetStep DEF Handle
<1> QED
  BY <1>1, <1>2, <1>3, <1>4, <1>5, <1>6, <1>7, <1>8 DEF Next

LEMMA Invariance == Spec => []IInv
BY InitInv, StepInv, PTL DEF Spec

(* Whatever is answered comes with the time at which an informer found it, and
   what has none is empty and stale (envelope, SerializeSnapshot,
   LoadFromSnapshot). *)
THEOREM EverythingHasItsAge == Spec => []ShownWithItsAge
<1>1. IInv => ShownWithItsAge
  BY DEF IInv, AllTimed, Timed, ShownWithItsAge, MustBeStale
<1> QED
  BY <1>1, Invariance, PTL

(* While a process lives, no list is replaced by one of an older version
   (syncPods and the others, LoadFromSnapshot). *)
THEOREM NoListGoesBack == Spec => ListsNeverGoBack
<1> DEFINE Forward == phase # "down" /\ phase' # "down" =>
                          \A k \in Kinds : cache'.list[k].version >= cache.list[k].version
<1>1. IInv /\ [Next]_vars => [Forward]_vars
  <2> SUFFICES ASSUME IInv, Next, phase # "down", phase' # "down", NEW k \in Kinds
               PROVE  cache'.list[k].version >= cache.list[k].version
    OBVIOUS
  <2>1. cache.list[k].version \in Nat /\ sync[k].list.version \in Nat
    BY DEF IInv, TypeOK, Caches, List
  <2>2. CASE UNCHANGED cache
    BY <2>1, <2>2
  <2>3. CASE LoadSnapshot
    <3>1. cache.list[k].version = 0
      BY <2>3, Emptiness DEF IInv, Quiet, LoadSnapshot
    <3>2. cache'.list[k].version \in Nat
      BY StepInv, <2>3 DEF IInv, TypeOK, Caches, List
    <3> QED
      BY <3>1, <3>2
  <2>4. CASE \E c \in Kinds : SyncSets(c)
    <3>1. PICK c \in Kinds : SyncSets(c)
      BY <2>4
    <3>2. /\ sync[c].pc = "set"
          /\ cache' = [cache EXCEPT !.list[c] = sync[c].list, !.meta[c] = "now"]
      BY <3>1 DEF SyncSets, At
    <3>3. cache'.list[k] = IF k = c THEN sync[c].list ELSE cache.list[k]
      BY <3>2 DEF IInv, TypeOK, Caches
    <3> QED
      BY <2>1, <3>2, <3>3 DEF IInv, Ordered
  <2>5. CASE \E c \in Kinds : MetricsSet(c)
    <3>1. cache'.list = cache.list
      BY <2>5 DEF MetricsSet, IInv, TypeOK, Caches
    <3> QED
      BY <2>1, <3>1
  <2>6. CASE Crash \/ Shutdown
    BY <2>6 DEF Crash, Shutdown, Gone
  <2>7. UNCHANGED cache \/ LoadSnapshot \/ Crash \/ Shutdown
        \/ (\E c \in Kinds : SyncSets(c)) \/ (\E c \in Kinds : MetricsSet(c))
    BY DEF Next, Change, ConnectionChanges, ConfigAppears, Launch, SaveSnapshot, Probe,
           StartInformers, Reflect, TakeRest, Takes, Resync, Handle, SyncReads,
           MetricsReadPods
  <2> QED
    BY <2>2, <2>3, <2>4, <2>5, <2>6, <2>7
<1> QED
  BY <1>1, Invariance, PTL DEF Spec, ListsNeverGoBack

=============================================================================
