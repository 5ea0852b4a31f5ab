---------------------------- MODULE ClusterCache ----------------------------
(***************************************************************************)
(* What the server shows of a cluster: the cache, the informers that fill  *)
(* it, the probe that says whether the cluster answers, and the snapshots  *)
(* that outlive the process: internal/cluster/{informers,cache,snapshot,   *)
(* health}.go, internal/store/cluster_snapshot.go, and where server.go     *)
(* starts and stops them.                                                  *)
(*                                                                         *)
(* Actors: the cluster, the network, a reflector and a goroutine for the   *)
(* events of each kind of resource (client-go), the loops of the probe and *)
(* of the snapshots, and the operating system.  What there is of a kind is *)
(* a version, counted from 1.  A store takes a version over object by      *)
(* object, and may be read in between.                                     *)
(***************************************************************************)
EXTENDS Integers

CONSTANTS
    Kinds,      \* kinds of resource that are watched
    Versions,   \* bound: how many versions there are of each kind
    Several,    \* kinds of which there may be more than one object
    Void,       \* pairs of a kind and a version in which there is nothing of it
    MaxRuns,    \* bound: how often the server is started
    NoSnapshot, \* the table cluster_snapshots is empty
    NoMetrics   \* ClusterCache.metrics is nil

Metered == {"nodes", "pods"}   \* the kinds that syncMetrics reads

ASSUME KindsAssumption == Metered \subseteq Kinds /\ "metrics" \notin Kinds
ASSUME VersionsAssumption == Versions \in [Kinds -> Nat \ {0}]
ASSUME RunsAssumption == MaxRuns \in Nat

VARIABLES
    objects,    \* the cluster: the version of each kind
    up,         \* the API server answers
    config,     \* there is a kubeconfig that can be loaded
    runs,       \* how often the server was started
    phase,      \* of the process: "down", "loading" or "serving"
    informers,  \* InformerManager: "idle", "running" or "failed"
    store,      \* of each informer: the version it has, or is taking over
    pending,    \* kinds with events, one or several, not handled yet
    sync,       \* where the goroutine of each kind stands, and what it has read
    cache,      \* ClusterCache
    reachable,  \* HealthMonitor.reachable
    snapshot    \* the newest row of cluster_snapshots

world   == <<objects, up, config>>
process == <<runs, phase>>
watch   == <<informers, store, pending, sync>>
vars    == <<world, process, watch, cache, reachable, snapshot>>

-----------------------------------------------------------------------------

Resources == Kinds \cup {"metrics"}

(* What a store has, and what is made of it *)
List == [version : Nat, whole : BOOLEAN]

Whole(v) == [version |-> v, whole |-> TRUE]
Part(v)  == [version |-> v, whole |-> FALSE]

Nothing == Whole(0)

Metrics == [nodes : List, pods : List]

ASSUME NoMetricsAssumption == NoMetrics \notin Metrics

(* All lists with nothing on them are the same. *)
Content(k, list) == IF list.whole /\ <<k, list.version>> \in Void THEN Nothing ELSE list

(* What a list of the cluster would have *)
Now(k) == Content(k, Whole(objects[k]))

(* CacheMeta.LastUpdated: there is none, it is from before this process was
   started, or from this process. *)
Times == {"never", "before", "now"}

Caches == [list    : [Kinds -> List],
           metrics : Metrics \cup {NoMetrics},
           meta    : [Resources -> Times]]

EmptyCache == [list    |-> [k \in Kinds |-> Nothing],
               metrics |-> NoMetrics,
               meta    |-> [r \in Resources |-> "never"]]

Idle == [pc |-> "idle", list |-> Nothing, nodes |-> Nothing, pods |-> Nothing]

Init ==
    /\ objects = [k \in Kinds |-> 1] /\ up \in BOOLEAN /\ config \in BOOLEAN
    /\ runs = 0 /\ phase = "down"
    /\ informers = "idle" /\ store = [k \in Kinds |-> Nothing] /\ pending = {}
    /\ sync = [k \in Kinds |-> Idle]
    /\ cache = EmptyCache /\ reachable = FALSE /\ snapshot = NoSnapshot

-----------------------------------------------------------------------------
(* The world *)

Change(k) ==
    /\ objects[k] < Versions[k]
    /\ objects' = [objects EXCEPT ![k] = @ + 1]
    /\ UNCHANGED <<up, config, process, watch, cache, reachable, snapshot>>

ConnectionChanges ==
    /\ up' = ~up
    /\ UNCHANGED <<objects, config, process, watch, cache, reachable, snapshot>>

(* A cluster is set up on the machine of the server. *)
ConfigAppears ==
    /\ ~config
    /\ config' = TRUE
    /\ UNCHANGED <<objects, up, process, watch, cache, reachable, snapshot>>

-----------------------------------------------------------------------------
(* The life of the process *)

Launch ==
    /\ phase = "down" /\ runs < MaxRuns
    /\ runs' = runs + 1
    /\ phase' = "loading"
    /\ UNCHANGED <<world, watch, cache, reachable, snapshot>>

\* Bug: only the lists are restored.
LoadedWithoutTimes(s) == [s EXCEPT !.meta = EmptyCache.meta]

(* LoadFromSnapshot *)
Loaded(s) ==
    [s EXCEPT !.meta = [r \in Resources |-> IF @[r] = "never" THEN "never" ELSE "before"]]

(* Bound: nobody reads again what the last process has read, and it is told
   apart no more. *)
Kept == IF runs < MaxRuns THEN snapshot ELSE NoSnapshot

(* In New, before anything runs; without a snapshot, or when it cannot be read,
   the cache stays empty. *)
LoadSnapshot ==
    /\ phase = "loading"
    /\ phase' = "serving"
    /\ \/ snapshot # NoSnapshot /\ cache' = Loaded(snapshot)
       \/ UNCHANGED cache
    /\ snapshot' = Kept
    /\ UNCHANGED <<world, runs, watch, reachable>>

\* Bug: the informers are started before the snapshot is loaded.
BackgroundEarly == phase # "down"

(* ListenAndServe starts the loops and the informers. *)
Background == phase = "serving"

Gone ==
    /\ phase' = "down"
    /\ informers' = "idle" /\ store' = [k \in Kinds |-> Nothing] /\ pending' = {}
    /\ sync' = [k \in Kinds |-> Idle]
    /\ cache' = EmptyCache /\ reachable' = FALSE
    /\ UNCHANGED <<world, runs>>

Crash == phase # "down" /\ Gone /\ UNCHANGED snapshot

(* "{}", which has neither lists nor times, is not stored. *)
Stored == IF cache = EmptyCache THEN snapshot ELSE cache

(* Bound: nobody reads what the last process saves. *)
SaveSnapshot ==
    /\ phase = "serving" /\ runs < MaxRuns
    /\ snapshot' = Stored
    /\ UNCHANGED <<world, process, watch, cache, reachable>>

(* shutdown: SnapshotManager.Stop waits for the last snapshot; after it the
   process stores nothing. *)
Shutdown ==
    /\ phase = "serving" /\ runs < MaxRuns
    /\ snapshot' = Stored
    /\ Gone

(* HealthMonitor.probe *)
Probe ==
    /\ Background
    /\ reachable' = (config /\ up)
    /\ UNCHANGED <<world, process, watch, cache, snapshot>>

-----------------------------------------------------------------------------
(* The informers *)

(* Tried once. *)
StartInformers ==
    /\ Background /\ informers = "idle"
    /\ informers' = IF config THEN "running" ELSE "failed"
    /\ UNCHANGED <<world, process, store, pending, sync, cache, reachable, snapshot>>

\* Bug: nothing is done about what was deleted.
NotifiesButDeletes(k, old, new) == Content(k, new) # Nothing

(* There is an event for each object that was added, changed or deleted. *)
Notifies(k, old, new) == Content(k, old) # Nothing \/ Content(k, new) # Nothing

Takes(k, list) ==
    /\ store' = [store EXCEPT ![k] = list]
    /\ pending' = IF Notifies(k, store[k], list) THEN pending \cup {k} ELSE pending
    /\ UNCHANGED <<world, process, informers, sync, cache, reachable, snapshot>>

(* The reflector of client-go: a list is current, a watch or a second list may
   leave versions out.  What has no objects, before and after, is taken at once. *)
Reflect(k) ==
    /\ informers = "running" /\ up /\ store[k].whole
    /\ \E v \in (store[k].version + 1)..objects[k] :
          /\ store[k] = Nothing => v = objects[k]
          /\ \/ Takes(k, Whole(v))
             \/ k \in Several /\ Notifies(k, store[k], Whole(v)) /\ Takes(k, Part(v))

(* The rest of what was taken in part *)
TakeRest(k) == ~store[k].whole /\ Takes(k, Whole(store[k].version))

\* Bug: defaultResyncPeriod = 0.
ResyncsNever(k) == FALSE

(* Every defaultResyncPeriod an update is made up of each object in the store,
   and nothing is asked of the cluster. *)
Resyncs(k) == Content(k, store[k]) # Nothing

Resync(k) ==
    /\ informers = "running" /\ k \notin pending
    /\ Resyncs(k)
    /\ pending' = pending \cup {k}
    /\ UNCHANGED <<world, process, informers, store, sync, cache, reachable, snapshot>>

-----------------------------------------------------------------------------
(* The goroutine that handles the events of a kind *)

At(k, pc) == sync[k].pc = pc

Syncing == UNCHANGED <<world, process, informers, store, reachable, snapshot>>

SyncReads(k) ==
    /\ At(k, "idle") /\ k \in pending
    /\ pending' = pending \ {k}
    /\ sync' = [sync EXCEPT ![k].pc = "set", ![k].list = store[k]]
    /\ Syncing /\ UNCHANGED cache

(* SetPods, SetNodes and the others; then syncMetrics, for which the list that is set does not matter, reads the
   nodes. *)
SyncSets(k) ==
    /\ At(k, "set")
    /\ cache' = [cache EXCEPT !.list[k] = sync[k].list, !.meta[k] = "now"]
    /\ sync' = [sync EXCEPT ![k] =
                   IF k \in Metered THEN [Idle EXCEPT !.pc = "nodes", !.nodes = store["nodes"]]
                   ELSE Idle]
    /\ Syncing /\ UNCHANGED pending

MetricsReadPods(k) ==
    /\ At(k, "nodes")
    /\ sync' = [sync EXCEPT ![k].pc = "pods", ![k].pods = store["pods"]]
    /\ Syncing /\ UNCHANGED <<pending, cache>>

MetricsSet(k) ==
    /\ At(k, "pods")
    /\ cache' = [cache EXCEPT !.metrics = [nodes |-> sync[k].nodes, pods |-> sync[k].pods],
                              !.meta["metrics"] = "now"]
    /\ sync' = [sync EXCEPT ![k] = Idle]
    /\ Syncing /\ UNCHANGED pending

Handle(k) ==
    \/ SyncReads(k) \/ SyncSets(k)
    \/ MetricsReadPods(k) \/ MetricsSet(k)

-----------------------------------------------------------------------------
(* What the handlers of the server answer *)

(* envelope: data without a time is stale; other data is when its time is older
   than cacheStaleThreshold, which may be so of any. *)
MustBeStale(r) == cache.meta[r] = "never"

Answer(list) == IF reachable THEN [status |-> 200, list |-> list] ELSE [status |-> 503]

ListAnswer(k) == Answer(Content(k, cache.list[k]))

(* The sums that are made of the two lists tell these apart. *)
MetricsAnswer ==
    Answer(IF cache.metrics = NoMetrics THEN [k \in Metered |-> Nothing]
           ELSE [k \in Metered |-> Content(k, cache.metrics[k])])

-----------------------------------------------------------------------------

Next ==
    \/ \E k \in Kinds : Change(k)
    \/ ConnectionChanges \/ ConfigAppears
    \/ Launch \/ LoadSnapshot \/ Crash \/ Shutdown \/ SaveSnapshot
    \/ Probe \/ StartInformers
    \/ \E k \in Kinds : Reflect(k) \/ TakeRest(k) \/ Resync(k) \/ Handle(k)

(* Timers fire, goroutines are scheduled, and a reflector tries again. *)
Fairness ==
    /\ WF_vars(Probe)
    /\ \A k \in Kinds : /\ WF_vars(Reflect(k)) /\ WF_vars(TakeRest(k))
                        /\ WF_vars(Resync(k)) /\ WF_vars(Handle(k))

Spec == Init /\ [][Next]_vars /\ Fairness

-----------------------------------------------------------------------------
(* Properties *)

TypeOK ==
    /\ objects \in [Kinds -> Nat] /\ \A k \in Kinds : objects[k] \in 1..Versions[k]
    /\ phase \in {"down", "loading", "serving"}
    /\ informers \in {"idle", "running", "failed"}
    /\ store \in [Kinds -> List] /\ pending \subseteq Kinds
    /\ sync \in [Kinds -> [pc : {"idle", "set", "nodes", "pods"},
                           list : List, nodes : List, pods : List]]
    /\ cache \in Caches /\ snapshot \in Caches \cup {NoSnapshot}

(* Whatever is answered comes with the time at which an informer found it, in
   this process or in one before it; what has none is answered as stale and as
   empty.  So a page never shows data of an age it is not told (envelope,
   SerializeSnapshot, LoadFromSnapshot). *)
ShownWithItsAge ==
    /\ TypeOK
    /\ \A k \in Kinds : MustBeStale(k) <=> cache.list[k] = Nothing
    /\ MustBeStale("metrics") <=> cache.metrics = NoMetrics

(* While a process lives, no list it has shown is replaced by one of an older
   version, though events come from several goroutines and the first list from a
   snapshot.  (Some of it may be missing while the informer takes the next.) *)
ListsNeverGoBack ==
    [][phase # "down" /\ phase' # "down" =>
          \A k \in Kinds : cache'.list[k].version >= cache.list[k].version]_vars

(* The list of a kind is that of the cluster as it is, or it is from a snapshot
   and there is nothing of that kind any more. *)
ListIsRight(k) ==
    \/ ListAnswer(k) = [status |-> 200, list |-> Now(k)]
    \/ cache.meta[k] = "before" /\ Now(k) = Nothing

MetricsAreRight ==
    \/ MetricsAnswer = [status |-> 200, list |-> [k \in Metered |-> Now(k)]]
    \/ \A k \in Metered : Now(k) = Nothing

(* Once the informers run and the cluster stays reachable, the answers become
   right and stay so, in whatever order the goroutines of pods and nodes set the
   metrics: the next resync repairs them.  But a list restored from a snapshot
   stays when there is nothing of its kind any more: no event replaces it. *)
CatchesUpWithCluster ==
    <>[](informers = "running" /\ up) =>
        <>[](reachable /\ MetricsAreRight /\ \A k \in Kinds : ListIsRight(k))

=============================================================================
