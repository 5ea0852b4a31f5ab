---------------------------- MODULE K8sDeployer ----------------------------
(***************************************************************************)
(* Deploying one application: internal/deploy/k8s/{deployer,cleanup}.go,   *)
(* the local deployer as far as it writes the same history, and the        *)
(* deploys table of internal/store/deploy.go.                              *)
(*                                                                         *)
(* Actors: several processes or goroutines that call Deploy, Rollback and  *)
(* Down for the same application (the CLI, the API server, the operator),  *)
(* the Kubernetes API server, which may refuse any call (a cancelled       *)
(* context looks like a refusal of all the calls that are left) or apply   *)
(* a change whose answer is lost, and the operating system, which may kill *)
(* a caller.  Nothing in the code serialises the callers.                  *)
(***************************************************************************)
EXTENDS Integers, Sequences, FiniteSets

CONSTANTS
    Callers,     \* processes and goroutines that use a Deployer
    Recipes,     \* versions of the application's recipe
    Slices,      \* names of its slices
    SlicesOf,    \* the slices of each recipe
    KindsOf,     \* the kinds of object CompileObjects makes for each slice
    MaxDeploys,  \* bound: rows of the deploys table
    Absent       \* "no such object in the namespace"

Kinds == {"ConfigMap", "PersistentVolumeClaim", "StatefulSet", "Deployment",
          "Service", "Ingress"}

ASSUME RecipesAssumption == Absent \notin Recipes /\ SlicesOf \in [Recipes -> SUBSET Slices]
ASSUME KindsAssumption == KindsOf \in [Slices -> SUBSET Kinds]
ASSUME DeploysAssumption == MaxDeploys \in Nat

VARIABLES
    ns,       \* the namespace: the recipe each object was last applied from
    deploys,  \* the deploys table, oldest created_at first (survives a crash)
    run,      \* the call each caller is in
    alone,    \* history: the caller whose call overlapped no other, if any
    existed,  \* history: the objects there were when the caller's call began
    excused   \* history: objects left behind by a refused or lost call,
              \* by a crash, by an overlap, or because the user said so

history == <<alone, existed, excused>>
vars == <<ns, deploys, run, history>>

-----------------------------------------------------------------------------
(* Objects and the order CompileObjects puts them in *)

Kind(o)  == o[1]
Slice(o) == o[2]

Objects == {o \in Kinds \X Slices : Kind(o) \in KindsOf[Slice(o)]}

ObjectsOf(r) == {o \in Objects : Slice(o) \in SlicesOf[r]}

Rank == [ConfigMap |-> 1, PersistentVolumeClaim |-> 2, StatefulSet |-> 3,
         Deployment |-> 3, Service |-> 4, Ingress |-> 5]

First(S) == {o \in S : \A p \in S : Rank[Kind(o)] <= Rank[Kind(p)]}
Last(S)  == {o \in S : \A p \in S : Rank[Kind(o)] >= Rank[Kind(p)]}

\* Bug: Services are forgotten.
UndoableButServices == {"Deployment", "Ingress", "PersistentVolumeClaim"}

(* The kinds rollbackResources deletes; for any other kind it does nothing. *)
Undoable == {"Deployment", "Service", "Ingress", "PersistentVolumeClaim"}

(* The kinds CleanupRemovedSlices and Down delete. *)
Removable == {"Deployment", "Service", "Ingress"}

Present == {o \in Objects : ns[o] # Absent}

-----------------------------------------------------------------------------
(* The history of deploys *)

Statuses == {"in_progress", "success", "failed", "rolled_back"}

Successes == {i \in DOMAIN deploys : deploys[i].status = "success"}

Newest(S) == CHOOSE i \in S : \A j \in S : j <= i

LatestSuccessfulDeploy == Newest(Successes)

(* ORDER BY created_at DESC LIMIT 1 OFFSET 1 *)
PreviousSuccessfulDeploy == Newest(Successes \ {LatestSuccessfulDeploy})

CreateDeploy(r, where) ==
    Append(deploys, [recipe |-> r, target |-> where, status |-> "in_progress",
                     rollbackOf |-> 0])

\* Bug: the recipe is compared with that of the deploy before the newest one.
RemovedSlicesStale(r) ==
    IF Cardinality(Successes) < 2 THEN {}
    ELSE SlicesOf[deploys[PreviousSuccessfulDeploy].recipe] \ SlicesOf[r]

(* DetectRemovedSlices: whatever the target of the latest success was. *)
RemovedSlices(r) ==
    IF Successes = {} THEN {}
    ELSE SlicesOf[deploys[LatestSuccessfulDeploy].recipe] \ SlicesOf[r]

-----------------------------------------------------------------------------
(* A call: where it stands and its local variables. *)

Steps == {"idle", "chosen", "starting", "prepare", "clean", "apply", "undo",
          "local", "record", "reference", "down"}

Idle == [pc |-> "idle", recipe |-> Absent, target |-> "kubernetes", id |-> 0,
         rollback |-> FALSE, current |-> 0, todo |-> {}, applied |-> <<>>,
         outcome |-> "in_progress"]

Returns(c) == run' = [run EXCEPT ![c] = Idle]

InCluster == {c \in Callers :
                 \/ run[c].pc \in {"prepare", "clean", "apply", "undo", "down"}
                 \/ (run[c].pc = "record" /\ run[c].target = "kubernetes")}

Excuse(S) == excused' = excused \cup {o \in S : Kind(o) \in Removable}

(* A call that reaches the cluster begins: is anybody else there? *)
EnterCluster(c) ==
    /\ existed' = [existed EXCEPT ![c] = Present]
    /\ IF InCluster = {} THEN alone' = {c} /\ UNCHANGED excused
                         ELSE alone' = {}  /\ Excuse(Objects)

LeaveCluster(c) ==
    /\ alone' = alone \ {c}
    /\ existed' = [existed EXCEPT ![c] = {}]

Init ==
    /\ ns = [o \in Objects |-> Absent]
    /\ deploys = <<>>
    /\ run = [c \in Callers |-> Idle]
    /\ alone = {}
    /\ existed = [c \in Callers |-> {}]
    /\ excused = {}

-----------------------------------------------------------------------------
(* Deploy begins by inserting its row; a refused INSERT changes nothing. *)

Begin(c, call) ==
    /\ Len(deploys) < MaxDeploys
    /\ deploys' = CreateDeploy(call.recipe, call.target)
    /\ LET there == IF call.target = "local" THEN "local" ELSE "prepare"
       IN  run' = [run EXCEPT ![c] = [call EXCEPT !.pc = there, !.id = Len(deploys) + 1]]
    /\ IF call.target = "local" THEN UNCHANGED history ELSE EnterCluster(c)
    /\ UNCHANGED ns

Deploy(c) ==
    /\ run[c].pc = "idle"
    /\ \/ \E r \in Recipes, t \in {"kubernetes", "local"} :
             Begin(c, [Idle EXCEPT !.recipe = r, !.target = t])
       \/ UNCHANGED vars

(* Rollback reads the history and then deploys what it found.  The Kubernetes
   deployer notes the deploy it replaces before that, the local one after its
   deploy has been recorded. *)
RollbackReadsPrevious(c) ==
    /\ run[c].pc = "idle"
    /\ Cardinality(Successes) >= 2
    /\ \E t \in {"kubernetes", "local"} :
          run' = [run EXCEPT ![c] =
                    [Idle EXCEPT !.pc = IF t = "local" THEN "starting" ELSE "chosen",
                                 !.recipe = deploys[PreviousSuccessfulDeploy].recipe,
                                 !.target = t,
                                 !.rollback = TRUE]]
    /\ UNCHANGED <<ns, deploys, history>>

RollbackReadsCurrent(c) ==
    /\ run[c].pc = "chosen"
    /\ run' = [run EXCEPT ![c].pc = "starting", ![c].current = LatestSuccessfulDeploy]
    /\ UNCHANGED <<ns, deploys, history>>

RollbackDeploys(c) ==
    /\ run[c].pc = "starting"
    /\ \/ Begin(c, run[c])
       \/ Returns(c) /\ UNCHANGED <<ns, deploys, history>>

(* docker compose: nothing that the namespace sees. *)
RunLocally(c) ==
    /\ run[c].pc = "local"
    /\ \E outcome \in {"success", "failed"} :
          run' = [run EXCEPT ![c].pc = "record", ![c].outcome = outcome]
    /\ UNCHANGED <<ns, deploys, history>>

-----------------------------------------------------------------------------
(* Deploy, in the cluster *)

(* No connection, no namespace, a CRD refused or a secret missing. *)
PrepareFails(c) ==
    /\ run[c].pc = "prepare"
    /\ run' = [run EXCEPT ![c].pc = "record", ![c].outcome = "failed"]
    /\ UNCHANGED <<ns, deploys, history>>

(* The user, or the default answer TRUE, confirms some of the removals. *)
Prepare(c) ==
    /\ run[c].pc = "prepare"
    /\ \E confirmed \in SUBSET RemovedSlices(run[c].recipe) :
         /\ run' = [run EXCEPT ![c].pc = "clean",
                       ![c].todo = {o \in Objects : /\ Slice(o) \in confirmed
                                                    /\ Kind(o) \in Removable}]
         /\ Excuse({o \in Present :
                       Slice(o) \in RemovedSlices(run[c].recipe) \ confirmed})
    /\ UNCHANGED <<ns, deploys, alone, existed>>

(* One Delete call.  NotFound counts as deleted; an error is only logged. *)
DeleteObject(o) ==
    \/ ns' = [ns EXCEPT ![o] = Absent] /\ UNCHANGED excused
    \/ ns[o] # Absent /\ UNCHANGED ns /\ Excuse({o})

\* Bug: a Delete that is answered NotFound is tried again, for ever.
DeleteNextRetries(c) ==
    /\ run[c].pc \in {"clean", "down"}
    /\ \E o \in Last(run[c].todo) :
         /\ o \in Present
         /\ DeleteObject(o)
         /\ run' = [run EXCEPT ![c].todo = @ \ {o}]
    /\ UNCHANGED <<deploys, alone, existed>>

(* CleanupRemovedSlices, and Down: Ingresses, Services, Deployments. *)
DeleteNext(c) ==
    /\ run[c].pc \in {"clean", "down"}
    /\ \E o \in Last(run[c].todo) :
         /\ DeleteObject(o)
         /\ run' = [run EXCEPT ![c].todo = @ \ {o}]
    /\ UNCHANGED <<deploys, alone, existed>>

CleanupDone(c) ==
    /\ run[c].pc = "clean"
    /\ run[c].todo = {}
    /\ run' = [run EXCEPT ![c].pc = "apply", ![c].todo = ObjectsOf(run[c].recipe)]
    /\ UNCHANGED <<ns, deploys, history>>

(* applyObject: one server-side apply, in the order of CompileObjects. *)
ApplyObject(c) ==
    /\ run[c].pc = "apply"
    /\ \E o \in First(run[c].todo) :
         /\ ns' = [ns EXCEPT ![o] = run[c].recipe]
         /\ run' = [run EXCEPT ![c].todo = @ \ {o}, ![c].applied = Append(@, o)]
    /\ UNCHANGED <<deploys, history>>

\* Bug: an object that is refused is skipped.
ApplyFailsSkips(c) ==
    /\ run[c].pc = "apply"
    /\ \E o \in First(run[c].todo) : run' = [run EXCEPT ![c].todo = @ \ {o}]
    /\ UNCHANGED <<ns, deploys, history>>

(* The call fails; when it is only the answer that got lost, the object has
   changed and is not among the applied ones. *)
ApplyFails(c) ==
    /\ run[c].pc = "apply"
    /\ \E o \in First(run[c].todo) :
         \/ UNCHANGED <<ns, excused>>
         \/ ns' = [ns EXCEPT ![o] = run[c].recipe] /\ Excuse({o})
    /\ run' = [run EXCEPT ![c].pc = "undo", ![c].outcome = "rolled_back"]
    /\ UNCHANGED <<deploys, alone, existed>>

(* waitForReady asks for a Deployment named after EVERY slice; whether one that
   exists is Available is up to the cluster. *)
AllAvailable(c) ==
    \A s \in SlicesOf[run[c].recipe] : <<"Deployment", s>> \in Present

BecomesReady(c) ==
    /\ run[c].pc = "apply"
    /\ run[c].todo = {}
    /\ AllAvailable(c)
    /\ run' = [run EXCEPT ![c].pc = "record", ![c].outcome = "success"]
    /\ UNCHANGED <<ns, deploys, history>>

\* Bug: the status is spelled as in the specification of the pipeline.
ReadinessFailsMisspelt(c) ==
    /\ run[c].pc = "apply"
    /\ run[c].todo = {}
    /\ run' = [run EXCEPT ![c].pc = "undo", ![c].outcome = "rolled-back"]
    /\ UNCHANGED <<ns, deploys, history>>

(* The timeout, or a Get that is refused. *)
ReadinessFails(c) ==
    /\ run[c].pc = "apply"
    /\ run[c].todo = {}
    /\ run' = [run EXCEPT ![c].pc = "undo", ![c].outcome = "rolled_back"]
    /\ UNCHANGED <<ns, deploys, history>>

(* rollbackResources: the applied objects, the last one first. *)
UndoObject(c) ==
    LET applied == run[c].applied
        o == applied[Len(applied)]
    IN  /\ run[c].pc = "undo"
        /\ applied # <<>>
        /\ run' = [run EXCEPT ![c].applied = SubSeq(applied, 1, Len(applied) - 1)]
        /\ IF Kind(o) \in Undoable THEN DeleteObject(o) ELSE UNCHANGED <<ns, excused>>
        /\ UNCHANGED <<deploys, alone, existed>>

\* Bug: the loop that counts down stops before the object at index 0.
UndoDoneEarly(c) ==
    /\ run[c].pc = "undo"
    /\ Len(run[c].applied) <= 1
    /\ run' = [run EXCEPT ![c].pc = "record"]
    /\ UNCHANGED <<ns, deploys, history>>

UndoDone(c) ==
    /\ run[c].pc = "undo"
    /\ run[c].applied = <<>>
    /\ run' = [run EXCEPT ![c].pc = "record"]
    /\ UNCHANGED <<ns, deploys, history>>

-----------------------------------------------------------------------------
(* The end of a call *)

(* What a success leaves that DetectRemovedSlices will not find: its objects
   when it is not on record, anybody's when a local deploy is the newest. *)
Unlisted(c, recorded) ==
    IF run[c].outcome # "success" THEN {}
    ELSE IF run[c].target = "local" THEN (IF InCluster = {} THEN Present ELSE Objects)
    ELSE IF recorded THEN {} ELSE ObjectsOf(run[c].recipe)

\* Bug: the WHERE clause names the application instead of the row.
CompleteDeployEveryRow(c) ==
    /\ run[c].pc = "record"
    /\ deploys' = [i \in DOMAIN deploys |-> [deploys[i] EXCEPT !.status = run[c].outcome]]
    /\ Excuse(Unlisted(c, TRUE))
    /\ IF run[c].rollback /\ run[c].outcome = "success"
       THEN run' = [run EXCEPT ![c].pc = "reference"]
       ELSE Returns(c)
    /\ LeaveCluster(c)
    /\ UNCHANGED ns

(* completeDeploy: a refused UPDATE is logged, and the row stays in_progress. *)
CompleteDeploy(c) ==
    /\ run[c].pc = "record"
    /\ \E recorded \in BOOLEAN :
         /\ deploys' = IF recorded
                       THEN [deploys EXCEPT ![run[c].id].status = run[c].outcome]
                       ELSE deploys
         /\ Excuse(Unlisted(c, recorded))
    /\ IF run[c].rollback /\ run[c].outcome = "success"
       THEN run' = [run EXCEPT ![c].pc = "reference"]
       ELSE Returns(c)
    /\ LeaveCluster(c)
    /\ UNCHANGED ns

\* Bug: the Kubernetes deployer, too, looks the current deploy up afterwards.
ReplacedLookedUpLate(c) == IF Successes = {} THEN 0 ELSE LatestSuccessfulDeploy

(* The deploy a rollback replaces: read before it, or after it. *)
Replaced(c) ==
    IF run[c].target = "local" THEN LatestSuccessfulDeploy ELSE run[c].current

SetRollbackOf(c) ==
    /\ run[c].pc = "reference"
    /\ \/ deploys' = [deploys EXCEPT ![run[c].id].rollbackOf = Replaced(c)]
       \/ UNCHANGED deploys
    /\ Returns(c)
    /\ UNCHANGED <<ns, history>>

(* Down: what carries the labels of the application, whatever the recipe; the
   claims only on request.  The history is not touched. *)
Down(c) ==
    /\ run[c].pc = "idle"
    /\ Successes # {}
    /\ \E kinds \in {Removable, Removable \cup {"PersistentVolumeClaim"}} :
          run' = [run EXCEPT ![c].pc = "down",
                             ![c].todo = {o \in Objects : Kind(o) \in kinds}]
    /\ EnterCluster(c)
    /\ UNCHANGED <<ns, deploys>>

DownDone(c) ==
    /\ run[c].pc = "down"
    /\ run[c].todo = {}
    /\ Returns(c)
    /\ LeaveCluster(c)
    /\ UNCHANGED <<ns, deploys, excused>>

(* The process is killed: its row stays in_progress for ever. *)
Crash(c) ==
    /\ run[c].pc # "idle"
    /\ Returns(c)
    /\ Excuse(IF c \in InCluster /\ run[c].recipe # Absent
              THEN ObjectsOf(run[c].recipe) ELSE {})
    /\ LeaveCluster(c)
    /\ UNCHANGED <<ns, deploys>>

-----------------------------------------------------------------------------

Advance(c) ==
    \/ RollbackReadsCurrent(c) \/ RollbackDeploys(c) \/ RunLocally(c)
    \/ PrepareFails(c) \/ Prepare(c) \/ DeleteNext(c) \/ CleanupDone(c)
    \/ ApplyObject(c) \/ ApplyFails(c) \/ BecomesReady(c) \/ ReadinessFails(c)
    \/ UndoObject(c) \/ UndoDone(c) \/ CompleteDeploy(c) \/ SetRollbackOf(c)
    \/ DownDone(c)

Next == \E c \in Callers :
            Deploy(c) \/ RollbackReadsPrevious(c) \/ Down(c) \/ Advance(c) \/ Crash(c)

Spec == Init /\ [][Next]_vars

(* Every step of a call ends: requests are answered or refused, and waiting for
   readiness has a timeout. *)
FairSpec == Spec /\ \A c \in Callers : WF_vars(Advance(c))

-----------------------------------------------------------------------------
(* Type correctness. *)
TypeOK ==
    /\ ns \in [Objects -> Recipes \cup {Absent}]
    /\ deploys \in Seq([recipe : Recipes, target : {"kubernetes", "local"},
                        status : Statuses, rollbackOf : 0..MaxDeploys])
    /\ Len(deploys) <= MaxDeploys
    /\ run \in [Callers ->
                  [pc : Steps, recipe : Recipes \cup {Absent},
                   target : {"kubernetes", "local"}, id : 0..MaxDeploys,
                   rollback : BOOLEAN, current : 0..MaxDeploys,
                   todo : SUBSET Objects, applied : Seq(Objects),
                   outcome : Statuses]]
    /\ alone \subseteq Callers
    /\ existed \in [Callers -> SUBSET Objects]
    /\ excused \subseteq Objects

(* A row gets its outcome once, from the call that inserted it, and its
   rollback reference at most once; nothing else in it ever changes, although
   CompleteDeploy (store/deploy.go:77) updates whatever it finds. *)
HistoryIsAppendOnly ==
    [][\A i \in DOMAIN deploys :
          /\ i \in DOMAIN deploys'
          /\ deploys'[i].recipe = deploys[i].recipe
          /\ deploys'[i].target = deploys[i].target
          /\ deploys[i].status # "in_progress" => deploys'[i].status = deploys[i].status
          /\ deploys[i].rollbackOf # 0 => deploys'[i].rollbackOf = deploys[i].rollbackOf]_vars

(* A Kubernetes deploy that had the namespace to itself and is about to be
   recorded as a success has put all its objects there, at its version. *)
SuccessIsInstalled ==
    \A c \in alone :
        run[c].pc = "record" /\ run[c].outcome = "success" /\ run[c].target = "kubernetes"
            => \A o \in ObjectsOf(run[c].recipe) : ns[o] = run[c].recipe

(* A deploy that is rolled back (deployer.go:185, 208) leaves none of the
   Deployments, Services and Ingresses it applied (those no longer to do),
   unless a call was refused or another caller was at work. *)
UndoIsComplete ==
    \A c \in alone :
        run[c].pc = "record" /\ run[c].outcome = "rolled_back"
            => \A o \in (ObjectsOf(run[c].recipe) \ run[c].todo) \cap Present :
                  Kind(o) \in Removable => o \in excused

(* With nobody at work, every Deployment, Service and Ingress in the namespace
   belongs to a slice of the newest success, where the next Deploy will find
   and remove it (cleanup.go:19), or is one of the excused leftovers. *)
NothingUnaccounted ==
    InCluster = {} =>
        \A o \in Present : Kind(o) \in Removable =>
            \/ o \in excused
            \/ /\ Successes # {}
               /\ Slice(o) \in SlicesOf[deploys[LatestSuccessfulDeploy].recipe]

(* A Kubernetes rollback refers to an older success than itself, and what it
   deployed again is the recipe of a success older than that one: it goes back
   in time, whatever others deploy between its reads (deployer.go:236, 259). *)
RollbackGoesBack ==
    \A i \in DOMAIN deploys :
        deploys[i].target = "kubernetes" /\ deploys[i].rollbackOf # 0 =>
            LET replaced == deploys[i].rollbackOf
            IN  /\ replaced < i
                /\ deploys[replaced].status = "success"
                /\ \E older \in Successes : /\ older < replaced
                                            /\ deploys[older].recipe = deploys[i].recipe

(* Every call ends. *)
CallsEnd == \A c \in Callers : run[c].pc # "idle" ~> run[c].pc = "idle"

(* What the specification of the pipeline says (section 7, line 185), and the
   code does not do: the undo deletes "each resource that was created in this
   deploy".  After deploys that all succeeded, an object that was there before,
   of a slice that is still wanted, is there after the undo. *)
UndoSparesWhatExisted ==
    \A c \in alone :
        /\ run[c].pc = "record"
        /\ run[c].outcome = "rolled_back"
        /\ DOMAIN deploys \ {run[c].id} \subseteq Successes
        => existed[c] \cap ObjectsOf(run[c].recipe) \subseteq Present

(* No failed deploy and no sequence of deploys leaves objects behind that nobody
   will ever remove (rollbackResources, DetectRemovedSlices). *)
NothingLeftBehind == UndoIsComplete /\ NothingUnaccounted

(* The history is made of well-formed rows, in which rollbacks go back. *)
HistoryIsSound == TypeOK /\ RollbackGoesBack

=============================================================================
