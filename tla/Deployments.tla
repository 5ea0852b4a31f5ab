---------------------------- MODULE Deployments ----------------------------
(***************************************************************************)
(* Deployments of the API: internal/server/deploy_handlers.go, the         *)
(* operator of internal/cli/operator.go, and the deployments table of      *)
(* internal/store/deployment.go.                                           *)
(*                                                                         *)
(* Actors: HTTP handlers, one goroutine of the server per deployment, the  *)
(* operator processes, which poll the same table, and the operating        *)
(* system.  A deployment is named by its row id, so Deployments is the set *)
(* of rows that may ever be made (a bound).  Deployer.Deploy is one step   *)
(* here; K8sDeployer opens it up.                                          *)
(***************************************************************************)
EXTENDS Integers, FiniteSets

CONSTANTS
    Ids,         \* ids of the deployments rows that may be created
    Operators,   \* operator processes
    Declares,    \* the ids whose recipe names its own namespace
    Rollbacks,   \* bound: the ids somebody asks to roll back
    MaxCrashes,  \* bound: how often processes are killed
    Nothing,     \* an empty namespace
    Unset        \* no snapshot has been stored

ASSUME IdsAssumption == /\ IsFiniteSet(Ids) /\ Declares \subseteq Ids /\ Rollbacks \subseteq Ids
                        /\ Nothing \notin Ids /\ Unset \notin Ids \cup {Nothing}
ASSUME OperatorsAssumption == "server" \notin Operators
ASSUME CrashesAssumption == MaxCrashes \in Nat

VARIABLES
    status,     \* deployments.status, or "none" before and "deleted" after
    order,      \* deployments.order_number (version is computed likewise)
    previous,   \* deployments.previous_state
    creating,   \* the number an open CreateDeployment has computed, or 0
    stale,      \* open CreateDeployments whose snapshot of the database is old
    goroutine,  \* where the server's goroutine for a deployment stands
    operator,   \* where each operator stands, and with which deployment
    rollback,   \* where the rollback handler of a deployment stands
    namespace,  \* whose objects each namespace holds
    crashes,    \* number of crashes so far
    handlers,   \* history: who took a deployment on
    abandoned   \* history: a crash or a refused update ended the handling

table   == <<status, order, previous>>
opening == <<creating, stale>>
history == <<handlers, abandoned>>
vars == <<table, opening, goroutine, operator, rollback, namespace, crashes, history>>

-----------------------------------------------------------------------------

(* What handleRollbackDeploy takes for finished; with rolled_back, what sets
   finished_at. *)
Rollbackable == {"succeeded", "failed", "partial"}
Terminal     == Rollbackable \cup {"rolled_back"}
Statuses     == {"none", "pending", "running", "deleted"} \cup Terminal

Live == {i \in Ids : status[i] \notin {"none", "deleted"}}

(* Three ways to name the namespace: Deployer.Deploy falls back on the name of
   the application, the snapshot on the environment, and the rollback does not
   ask the recipe at all. *)
Namespaces == {"application", "environment", "declared"}
DeployedIn(i)  == IF i \in Declares THEN "declared" ELSE "application"
SnapshotOf(i)  == IF i \in Declares THEN "declared" ELSE "environment"
RestoredIn     == "environment"

(* Any committed write makes the snapshots of the open transactions old. *)
Committed == stale' = stale \cup {i \in Ids : creating[i] # 0}

(* UpdateDeploymentStatus: unconditional; a deleted row is not found. *)
UpdateStatus(i, new) ==
    IF i \in Live THEN status' = [status EXCEPT ![i] = new] /\ Committed
                  ELSE UNCHANGED <<status, stale>>

Init ==
    /\ status = [i \in Ids |-> "none"]
    /\ order = [i \in Ids |-> 0]
    /\ previous = [i \in Ids |-> Unset]
    /\ creating = [i \in Ids |-> 0]
    /\ stale = {}
    /\ goroutine = [i \in Ids |-> "none"]
    /\ operator = [o \in Operators |-> [pc |-> "idle", id |-> Unset]]
    /\ rollback = [i \in Ids |-> "none"]
    /\ namespace = [n \in Namespaces |-> Nothing]
    /\ crashes = 0
    /\ handlers = [i \in Ids |-> {}]
    /\ abandoned = {}

-----------------------------------------------------------------------------
(* CreateDeployment: SELECT MAX(order_number) + 1 and INSERT in a transaction *)

NextOrder == 1 + (CHOOSE m \in {0} \cup {order[i] : i \in Live} :
                     \A i \in Live : order[i] <= m)

CreateReads(i) ==
    /\ status[i] = "none"
    /\ creating[i] = 0
    /\ creating' = [creating EXCEPT ![i] = NextOrder]
    /\ UNCHANGED <<table, stale, goroutine, operator, rollback, namespace, crashes, history>>

\* Bug: READ COMMITTED is enough to commit.
SnapshotHoldsAlways(i) == TRUE

(* SQLite refuses to let a transaction write whose snapshot is old.  (On
   PostgreSQL, which the store opens too, no statement with a "?" runs.) *)
SnapshotHolds(i) == i \notin stale

CreateCommits(i) ==
    /\ creating[i] # 0
    /\ SnapshotHolds(i)
    /\ status' = [status EXCEPT ![i] = "pending"]
    /\ order' = [order EXCEPT ![i] = creating[i]]
    /\ creating' = [creating EXCEPT ![i] = 0]
    /\ stale' = {j \in Ids : creating'[j] # 0}
    /\ goroutine' = [goroutine EXCEPT ![i] = "created"]
    /\ UNCHANGED <<previous, operator, rollback, namespace, crashes, history>>

CreateRefused(i) ==
    /\ creating[i] # 0
    /\ creating' = [creating EXCEPT ![i] = 0]
    /\ stale' = stale \ {i}
    /\ UNCHANGED <<table, goroutine, operator, rollback, namespace, crashes, history>>

-----------------------------------------------------------------------------
(* handleTriggerDeploy after the INSERT, and runDeployWith *)

(* No deployer for the target (the handler itself goes on to write "failed"), or
   the recipe does not parse, build or validate. *)
Reject(i) ==
    /\ goroutine[i] = "created"
    /\ goroutine' = [goroutine EXCEPT ![i] = "fail"]
    /\ handlers' = [handlers EXCEPT ![i] = @ \cup {"server"}]
    /\ UNCHANGED <<table, opening, operator, rollback, namespace, crashes, abandoned>>

(* SnapshotNamespace and SetDeploymentPreviousState; the snapshot of an empty
   namespace is not the empty string.  No snapshot is stored by another
   deployer, when a List is refused, or when it is longer than 5 MB.  The
   goroutine does not claim the row, and calls Deploy. *)
Launch(i) ==
    /\ goroutine[i] = "created"
    /\ goroutine' = [goroutine EXCEPT ![i] = "deploying"]
    /\ handlers' = [handlers EXCEPT ![i] = @ \cup {"server"}]
    /\ \/ /\ i \in Live
          /\ previous' = [previous EXCEPT ![i] = namespace[SnapshotOf(i)]]
          /\ Committed
       \/ UNCHANGED <<previous, stale>>
    /\ UNCHANGED <<status, order, creating, operator, rollback, namespace, crashes, abandoned>>

(* Deployer.Deploy ends.  An error may mean that nothing was applied or that
   what was applied has been undone, objects of earlier versions included. *)
DeployEnds(i, ok) ==
    IF ok THEN namespace' = [namespace EXCEPT ![DeployedIn(i)] = i]
    ELSE \/ UNCHANGED namespace
         \/ namespace' = [namespace EXCEPT ![DeployedIn(i)] = Nothing]

\* Bug: the snapshot is taken once more when the deploy is over.
DeployReturnsAndSnapshots(i) ==
    /\ goroutine[i] = "deploying"
    /\ DeployEnds(i, TRUE)
    /\ goroutine' = [goroutine EXCEPT ![i] = "waiting"]
    /\ previous' = [previous EXCEPT ![i] = namespace'[SnapshotOf(i)]]
    /\ UNCHANGED <<status, order, opening, operator, rollback, crashes, history>>

DeployReturns(i) ==
    /\ goroutine[i] = "deploying"
    /\ \E ok \in BOOLEAN :
         /\ DeployEnds(i, ok)
         /\ goroutine' = [goroutine EXCEPT ![i] = IF ok THEN "waiting" ELSE "fail"]
    /\ UNCHANGED <<table, opening, operator, rollback, crashes, history>>

\* Bug: the status of the Deployer is stored as it is.
OutcomesVerbatim == [fail |-> {"failed"}, ok |-> {"success"},
                     waiting |-> {"success", "partial"}]

(* The operator does not wait for healthy pods.  No one stores "rolled_back":
   a deploy that was undone comes with an error, and counts as failed. *)
Outcomes == [fail |-> {"failed"}, ok |-> {"succeeded"},
             waiting |-> {"succeeded", "partial"}]

(* After WaitForHealthy, when there was something to wait for. *)
GoroutineRecords(i) ==
    /\ goroutine[i] \in {"waiting", "fail"}
    /\ goroutine' = [goroutine EXCEPT ![i] = "done"]
    /\ \/ /\ \E outcome \in Outcomes[goroutine[i]] : UpdateStatus(i, outcome)
          /\ UNCHANGED abandoned
       \/ abandoned' = abandoned \cup {i} /\ UNCHANGED <<status, stale>>
    /\ UNCHANGED <<order, previous, creating, operator, rollback, namespace, crashes,
                   handlers>>

-----------------------------------------------------------------------------
(* The operator *)

At(o, pc, i) == operator' = [operator EXCEPT ![o] = [pc |-> pc, id |-> i]]

(* PendingDeployments: the oldest by started_at, which counts seconds; rows of
   the same second come in any order. *)
Poll(o) ==
    /\ operator[o].pc = "idle"
    /\ \E i \in Ids : status[i] = "pending" /\ At(o, "picked", i)
    /\ UNCHANGED <<table, opening, goroutine, rollback, namespace, crashes, history>>

\* Bug: the claim updates the row whatever its status.
ClaimableAlways(i) == i \in Live

(* WHERE id = ? AND status = 'pending' *)
Claimable(i) == status[i] = "pending"

ClaimDeployment(o) ==
    LET i == operator[o].id
    IN  /\ operator[o].pc = "picked"
        /\ Claimable(i)
        /\ status' = [status EXCEPT ![i] = "running"]
        /\ Committed
        /\ At(o, "claimed", i)
        /\ handlers' = [handlers EXCEPT ![i] = @ \cup {o}]
        /\ UNCHANGED <<order, previous, creating, goroutine, rollback, namespace, crashes,
                       abandoned>>

\* Bug: after a claim that failed the operator does not go on.
ClaimFailsAndStays(o) ==
    /\ operator[o].pc = "picked"
    /\ UNCHANGED vars

(* Not pending any more, or the store refuses. *)
ClaimFails(o) ==
    /\ operator[o].pc = "picked"
    /\ At(o, "idle", Unset)
    /\ UNCHANGED <<table, opening, goroutine, rollback, namespace, crashes, history>>

\* Bug: the deployment is marked failed and executed all the same.
OperatorRejectsGoesOn(o) ==
    /\ operator[o].pc = "claimed"
    /\ UpdateStatus(operator[o].id, "failed")
    /\ At(o, "deploying", operator[o].id)
    /\ UNCHANGED <<order, previous, creating, goroutine, rollback, namespace, crashes, history>>

\* Bug: on a recipe that is gone the operator goes on to the next deployment.
OperatorRejectsSilently(o) ==
    /\ operator[o].pc = "claimed"
    /\ At(o, "idle", Unset)
    /\ UNCHANGED <<table, opening, goroutine, rollback, namespace, crashes, history>>

(* The recipe is gone, or does not parse, build or validate. *)
OperatorRejects(o) ==
    /\ operator[o].pc = "claimed"
    /\ At(o, "fail", operator[o].id)
    /\ UNCHANGED <<table, opening, goroutine, rollback, namespace, crashes, history>>

OperatorStartsDeploy(o) ==
    LET i == operator[o].id
    IN  /\ operator[o].pc = "claimed"
        /\ At(o, "deploying", i)
        /\ UNCHANGED <<table, opening, goroutine, rollback, namespace, crashes, history>>

OperatorDeployReturns(o) ==
    LET i == operator[o].id
    IN  /\ operator[o].pc = "deploying"
        /\ \E ok \in BOOLEAN : DeployEnds(i, ok) /\ At(o, IF ok THEN "ok" ELSE "fail", i)
        /\ UNCHANGED <<table, opening, goroutine, rollback, crashes, history>>

OperatorRecords(o) ==
    LET i == operator[o].id
    IN  /\ operator[o].pc \in {"ok", "fail"}
        /\ At(o, "idle", Unset)
        /\ \/ /\ \E outcome \in Outcomes[operator[o].pc] : UpdateStatus(i, outcome)
              /\ UNCHANGED abandoned
           \/ abandoned' = abandoned \cup {i} /\ UNCHANGED <<status, stale>>
        /\ UNCHANGED <<order, previous, creating, goroutine, rollback, namespace, crashes,
                       handlers>>

-----------------------------------------------------------------------------
(* handleRollbackDeploy: check, restore, update *)

RollbackChecks(i) ==
    /\ i \in Rollbacks
    /\ rollback[i] = "none"
    /\ status[i] \in Rollbackable
    /\ previous[i] # Unset
    /\ rollback' = [rollback EXCEPT ![i] = "checked"]
    /\ UNCHANGED <<table, opening, goroutine, operator, namespace, crashes, history>>

(* RollbackSnapshot applies what the snapshot holds, and deletes nothing. *)
RollbackRestores(i) ==
    /\ rollback[i] = "checked"
    /\ \/ /\ rollback' = [rollback EXCEPT ![i] = "restored"]
          /\ namespace' = IF previous[i] = Nothing THEN namespace
                          ELSE [namespace EXCEPT ![RestoredIn] = previous[i]]
       \/ rollback' = [rollback EXCEPT ![i] = "none"] /\ UNCHANGED namespace
    /\ UNCHANGED <<table, opening, goroutine, operator, crashes, history>>

RollbackRecords(i) ==
    /\ rollback[i] = "restored"
    /\ rollback' = [rollback EXCEPT ![i] = "none"]
    /\ UpdateStatus(i, "rolled_back") \/ UNCHANGED <<status, stale>>
    /\ UNCHANGED <<order, previous, creating, goroutine, operator, namespace, crashes, history>>

(* handleDeleteDeployment asks for no status: a running deployment, too. *)
DeleteDeployment(i) ==
    /\ i \in Live
    /\ status' = [status EXCEPT ![i] = "deleted"]
    /\ Committed
    /\ UNCHANGED <<order, previous, creating, goroutine, operator, rollback, namespace,
                   crashes, history>>

-----------------------------------------------------------------------------

GoroutineStep(i) ==
    Reject(i) \/ Launch(i) \/ DeployReturns(i) \/ GoroutineRecords(i)

RollbackStep(i) == RollbackChecks(i) \/ RollbackRestores(i) \/ RollbackRecords(i)

OperatorStep(o) ==
    \/ Poll(o) \/ ClaimDeployment(o) \/ ClaimFails(o) \/ OperatorRejects(o)
    \/ OperatorStartsDeploy(o) \/ OperatorDeployReturns(o) \/ OperatorRecords(o)

Handling == {"claimed", "deploying", "ok", "fail"}

(* An operator is killed; it is started again and polls. *)
OperatorCrash(o) ==
    /\ crashes < MaxCrashes
    /\ operator[o].pc # "idle"
    /\ crashes' = crashes + 1
    /\ At(o, "idle", Unset)
    /\ abandoned' = IF operator[o].pc \in Handling THEN abandoned \cup {operator[o].id}
                                                   ELSE abandoned
    /\ UNCHANGED <<table, opening, goroutine, rollback, namespace, handlers>>

(* The server is killed; nothing in it resumes a deployment. *)
ServerCrash ==
    /\ crashes < MaxCrashes
    /\ crashes' = crashes + 1
    /\ creating' = [i \in Ids |-> 0]
    /\ stale' = {}
    /\ goroutine' = [i \in Ids |-> IF goroutine[i] = "none" THEN "none" ELSE "done"]
    /\ rollback' = [i \in Ids |-> "none"]
    /\ UNCHANGED <<table, operator, namespace, history>>

Next ==
    \/ \E i \in Ids : CreateReads(i) \/ CreateCommits(i) \/ CreateRefused(i)
    \/ \E i \in Ids : GoroutineStep(i) \/ RollbackStep(i) \/ DeleteDeployment(i)
    \/ \E o \in Operators : OperatorStep(o) \/ OperatorCrash(o)
    \/ ServerCrash

Spec == Init /\ [][Next]_vars

(* An operator polls on a timer, and what it began goes on; the store takes a
   claim that is offered again and again (Poll, then ClaimDeployment). *)
FairSpec == Spec /\ \A o \in Operators : /\ WF_vars(OperatorStep(o))
                                         /\ SF_vars(ClaimDeployment(o))

-----------------------------------------------------------------------------
(* Type correctness. *)
TypeOK ==
    /\ status \in [Ids -> Statuses]
    /\ order \in [Ids -> 0..Cardinality(Ids)]
    /\ previous \in [Ids -> Ids \cup {Nothing, Unset}]
    /\ creating \in [Ids -> 0..Cardinality(Ids)]
    /\ stale \subseteq Ids
    /\ goroutine \in [Ids -> {"none", "created", "deploying", "waiting",
                              "fail", "done"}]
    /\ operator \in [Operators -> [pc : {"idle", "picked"} \cup Handling,
                                   id : Ids \cup {Unset}]]
    /\ rollback \in [Ids -> {"none", "checked", "restored"}]
    /\ namespace \in [Namespaces -> Ids \cup {Nothing}]
    /\ crashes \in 0..MaxCrashes
    /\ handlers \in [Ids -> SUBSET (Operators \cup {"server"})]
    /\ abandoned \subseteq Ids

OneHandler(i) == Cardinality(handlers[i]) <= 1

Executing(i) ==
    \/ goroutine[i] \in {"deploying", "waiting"}
    \/ \E o \in Operators : operator[o] = [pc |-> "deploying", id |-> i]

(* Two rows of a team never bear the same number, although it is computed from
   the rows there are (deployment.go:51) and no index makes it unique. *)
OrderNumbersUnique == \A i, j \in Live : order[i] = order[j] => i = j

(* "Only one operator instance processes a given deployment" (US-4): the claim
   lets one operator through, for ever, whatever crashes. *)
OneOperator == \A i \in Ids : Cardinality(handlers[i] \cap Operators) <= 1

(* A deployment that is "running" is in the hands of an operator, unless that
   operator was killed or its last update refused. *)
RunningIsHandled ==
    \A i \in Ids : status[i] = "running" =>
        \/ i \in abandoned
        \/ \E o \in Operators : operator[o].id = i /\ operator[o].pc \in Handling

(* When only the server or only one operator took a deployment on, its row
   shows a final status, on which the log stream ends and a rollback is allowed
   (deploy_handlers.go:496, 624), only once nobody executes it any more. *)
FinalIsQuiet == \A i \in Ids : OneHandler(i) /\ status[i] \in Terminal => ~Executing(i)

(* Then, too, a final status stays, but for a rollback or the deletion, although
   UpdateDeploymentStatus (deployment.go:131) overwrites whatever it finds. *)
FinalIsFinal ==
    [][\A i \in Ids : OneHandler(i)' /\ status[i] \in Terminal =>
          status'[i] \in {status[i], "rolled_back", "deleted"}]_vars

(* Then, too, the snapshot kept for the rollback does not hold the very objects
   the deployment has applied. *)
SnapshotIsEarlier == \A i \in Ids : OneHandler(i) => previous[i] # i

(* A pending deployment does not wait for ever while an operator runs: also one
   whose server was killed between the INSERT and the goroutine. *)
PendingIsTaken == \A i \in Ids : status[i] = "pending" ~> status[i] # "pending"

(* What the status of a row tells its readers of those who handle it: claimed by
   one operator, running in somebody's hands, and final when all is over. *)
StatusIsTrue == TypeOK /\ OneOperator /\ RunningIsHandled /\ FinalIsQuiet

(* Who has a row in hand: the goroutine of the server, an operator, or both. *)
InHand(i) ==
    (IF goroutine[i] \in {"deploying", "waiting", "fail"} THEN {"server"} ELSE {})
        \cup {o \in Operators : operator[o].id = i /\ operator[o].pc \in Handling}

(* What others may rely on also when the server and an operator both execute a
   row (deploy_handlers.go:267, operator.go:83): each does once, and writes one
   outcome at most while it has the row in hand. *)
Life == INSTANCE RowLife WITH
    hands <- [i \in Ids |-> InHand(i)],
    past  <- [i \in Ids |-> handlers[i] \ InHand(i)]

LivesOneLife == Life!Spec

=============================================================================
