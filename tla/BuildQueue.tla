----------------------------- MODULE BuildQueue -----------------------------
(***************************************************************************)
(* The push-to-deploy build queue: internal/gitdeploy/{service,queue,      *)
(* builder}.go and the builds table of internal/store/build.go.            *)
(*                                                                         *)
(* Actors: one HTTP handler per build request, the process loop, one       *)
(* worker goroutine per dispatched build, the caller of Stop, and the      *)
(* operating system, which may kill the process at any time.  A build is   *)
(* named by its row id, so Builds is also the set of requests that may     *)
(* ever be made (the only bound of this module).                           *)
(***************************************************************************)
EXTENDS Integers, Sequences, FiniteSets

CONSTANTS
    Builds,         \* ids of the builds rows that may be created
    MaxConcurrent,  \* maxConcurrentBuilds: capacity of the sem channel
    BufferSize,     \* queueBufferSize: capacity of the jobs channel
    StoreMayFail,   \* may UpdateBuild fail with a live context?
    NoBuild         \* "the process loop holds no job"

ASSUME BuildsAssumption == IsFiniteSet(Builds) /\ NoBuild \notin Builds
ASSUME LimitsAssumption == MaxConcurrent \in Nat \ {0} /\ BufferSize \in Nat \ {0}
ASSUME StoreAssumption == StoreMayFail \in BOOLEAN

VARIABLES
    row,      \* builds.status, or "none" before the INSERT (survives a crash)
    req,      \* the handler inside EnqueueBuild: between INSERT and Enqueue?
    jobs,     \* the buffered channel Queue.jobs
    loop,     \* where processLoop stands
    held,     \* the job processLoop has received and not yet handed over
    sem,      \* tokens in the channel Queue.sem
    wg,       \* the counter of Queue.wg
    worker,   \* where the goroutine of a dispatched build stands
    expired,  \* the builds whose ten-minute context has expired
    stop,     \* where the call of Queue.Stop stands
    up,       \* is the server process running?
    lost      \* history: why a build left the queue without a recorded outcome

memory == <<req, jobs, loop, held, sem, wg, worker, stop>>
queueVars == <<row, req, jobs, loop, held, sem, wg, worker, expired, stop, up, lost>>

-----------------------------------------------------------------------------

Open     == {"pending", "building"}
Recorded == {"success", "failed"}

(* Build has been entered and has not returned. *)
InBuild == {"begin", "work", "report_ok", "report_fail"}

(* The goroutine holds one token of sem, and one count of wg. *)
HoldsSlot  == InBuild \cup {"release"}
HoldsCount == HoldsSlot \cup {"wg_done"}

SlotHolders  == {b \in Builds : worker[b] \in HoldsSlot}
CountHolders == {b \in Builds : worker[b] \in HoldsCount}

Queued == {jobs[i] : i \in DOMAIN jobs}

(* May UpdateBuild answer ok?  database/sql refuses an expired context. *)
UpdateMayAnswer(b, ok) ==
    IF ok THEN b \notin expired ELSE b \in expired \/ StoreMayFail

-----------------------------------------------------------------------------

Fresh ==
    /\ jobs = <<>>
    /\ loop = "idle"
    /\ held = NoBuild
    /\ sem = 0
    /\ wg = 0
    /\ stop = "no"

QueueInit ==
    /\ Fresh
    /\ row = [b \in Builds |-> "none"]
    /\ req = [b \in Builds |-> "none"]
    /\ worker = [b \in Builds |-> "none"]
    /\ expired = {}
    /\ up = TRUE
    /\ lost = [b \in Builds |-> "no"]

(***************************************************************************)
(* Service.EnqueueBuild: the INSERT commits before Enqueue is called, and  *)
(* other goroutines run in between.                                        *)
(***************************************************************************)
CreateBuild(b) ==
    /\ up
    /\ row[b] = "none"
    /\ row' = [row EXCEPT ![b] = "pending"]
    /\ req' = [req EXCEPT ![b] = "created"]
    /\ UNCHANGED <<jobs, loop, held, sem, wg, worker, expired, stop, up, lost>>

(* Queue.Enqueue: a select with a default.  It does not look at done. *)
EnqueueSends(b) ==
    /\ Len(jobs) < BufferSize
    /\ jobs' = Append(jobs, b)
    /\ UNCHANGED lost

EnqueueDrops(b) ==
    /\ Len(jobs) >= BufferSize
    /\ lost' = [lost EXCEPT ![b] = "full"]
    /\ UNCHANGED jobs

Enqueue(b) ==
    /\ up
    /\ req[b] = "created"
    /\ EnqueueSends(b) \/ EnqueueDrops(b)
    /\ req' = [req EXCEPT ![b] = "answered"]
    /\ UNCHANGED <<row, loop, held, sem, wg, worker, expired, stop, up>>

-----------------------------------------------------------------------------
(* Queue.Start and Queue.processLoop *)

Start ==
    /\ up
    /\ loop = "idle"
    /\ loop' = "select"
    /\ UNCHANGED <<row, req, jobs, held, sem, wg, worker, expired, stop, up, lost>>

(* The outer select: a closed done and a waiting job are both ready. *)
LoopReturns ==
    /\ loop = "select"
    /\ stop # "no"
    /\ loop' = "returned"
    /\ UNCHANGED <<row, req, jobs, held, sem, wg, worker, expired, stop, up, lost>>

\* Bug: the job is looked at and stays in the channel.
TakeJobPeeks ==
    /\ loop = "select"
    /\ jobs # <<>>
    /\ held' = Head(jobs)
    /\ loop' = "acquire"
    /\ UNCHANGED <<row, req, jobs, sem, wg, worker, expired, stop, up, lost>>

TakeJob ==
    /\ loop = "select"
    /\ jobs # <<>>
    /\ held' = Head(jobs)
    /\ jobs' = Tail(jobs)
    /\ loop' = "acquire"
    /\ UNCHANGED <<row, req, sem, wg, worker, expired, stop, up, lost>>

(* The inner select: with a job in hand. *)
LoopAbandonsJob ==
    /\ loop = "acquire"
    /\ stop # "no"
    /\ loop' = "returned"
    /\ held' = NoBuild
    /\ lost' = [lost EXCEPT ![held] = "stop"]
    /\ UNCHANGED <<row, req, jobs, sem, wg, worker, expired, stop, up>>

\* Bug: the semaphore has one token too many.
SlotFreeOffByOne == sem <= MaxConcurrent

SlotFree == sem < MaxConcurrent

AcquireSlot ==
    /\ loop = "acquire"
    /\ SlotFree
    /\ sem' = sem + 1
    /\ loop' = "spawn"
    /\ UNCHANGED <<row, req, jobs, held, wg, worker, expired, stop, up, lost>>

(* wg.Add(1) and the go statement; the loop turns. *)
SpawnWorker ==
    /\ loop = "spawn"
    /\ wg' = wg + 1
    /\ worker' = [worker EXCEPT ![held] = "begin"]
    /\ held' = NoBuild
    /\ loop' = "select"
    /\ UNCHANGED <<row, req, jobs, sem, expired, stop, up, lost>>

-----------------------------------------------------------------------------
(* Builder.Build in the goroutine of build b *)

(* Status "building"; when the update fails Build returns at once. *)
MarkBuilding(b) ==
    /\ worker[b] = "begin"
    /\ \E ok \in BOOLEAN :
         /\ UpdateMayAnswer(b, ok)
         /\ row' = [row EXCEPT ![b] = IF ok THEN "building" ELSE @]
         /\ worker' = [worker EXCEPT ![b] = IF ok THEN "work" ELSE "release"]
         /\ lost' = [lost EXCEPT ![b] = IF ok THEN @ ELSE "update"]
    /\ UNCHANGED <<req, jobs, loop, held, sem, wg, expired, stop, up>>

(* MkdirTemp, cloneRepo, detectFramework, ensureDockerfile and buildImage:
   each may fail; an expired context kills the command that is running. *)
RunSteps(b) ==
    /\ worker[b] = "work"
    /\ \/ worker' = [worker EXCEPT ![b] = "report_fail"]
       \/ /\ b \notin expired
          /\ worker' = [worker EXCEPT ![b] = "report_ok"]
    /\ UNCHANGED <<row, req, jobs, loop, held, sem, wg, expired, stop, up, lost>>

\* Bug: a failed build returns without failBuild.
ReportSkipsFailure(b) ==
    /\ worker[b] \in {"report_ok", "report_fail"}
    /\ \E ok \in BOOLEAN :
         /\ UpdateMayAnswer(b, ok)
         /\ row' = [row EXCEPT ![b] =
                      IF ok /\ worker[b] = "report_ok" THEN "success" ELSE @]
         /\ lost' = [lost EXCEPT ![b] = IF ok THEN @ ELSE "update"]
    /\ worker' = [worker EXCEPT ![b] = "release"]
    /\ UNCHANGED <<req, jobs, loop, held, sem, wg, expired, stop, up>>

(* The update to "success", failBuild and failBuildWithLog: all three use
   the context of the build. *)
Report(b) ==
    /\ worker[b] \in {"report_ok", "report_fail"}
    /\ \E ok \in BOOLEAN :
         /\ UpdateMayAnswer(b, ok)
         /\ row' = [row EXCEPT ![b] =
                      IF ~ok THEN @
                      ELSE IF worker[b] = "report_ok" THEN "success" ELSE "failed"]
         /\ lost' = [lost EXCEPT ![b] = IF ok THEN @ ELSE "update"]
    /\ worker' = [worker EXCEPT ![b] = "release"]
    /\ UNCHANGED <<req, jobs, loop, held, sem, wg, expired, stop, up>>

\* Bug: a build that could not record its outcome keeps its slot.
ReleaseSlotLeaks(b) ==
    /\ worker[b] = "release"
    /\ sem' = IF lost[b] = "update" THEN sem ELSE sem - 1
    /\ worker' = [worker EXCEPT ![b] = "wg_done"]
    /\ UNCHANGED <<row, req, jobs, loop, held, wg, expired, stop, up, lost>>

(* The deferred calls run last-in first-out: the slot, then the counter. *)
ReleaseSlot(b) ==
    /\ worker[b] = "release"
    /\ sem' = sem - 1
    /\ worker' = [worker EXCEPT ![b] = "wg_done"]
    /\ UNCHANGED <<row, req, jobs, loop, held, wg, expired, stop, up, lost>>

\* Bug: Done is skipped on the error path.
WaitGroupDoneSkipped(b) ==
    /\ worker[b] = "wg_done"
    /\ wg' = IF lost[b] = "update" THEN wg ELSE wg - 1
    /\ worker' = [worker EXCEPT ![b] = "ended"]
    /\ UNCHANGED <<row, req, jobs, loop, held, sem, expired, stop, up, lost>>

WaitGroupDone(b) ==
    /\ worker[b] = "wg_done"
    /\ wg' = wg - 1
    /\ worker' = [worker EXCEPT ![b] = "ended"]
    /\ UNCHANGED <<row, req, jobs, loop, held, sem, expired, stop, up, lost>>

(* buildTimeout: the context of a build under way expires. *)
Timeout(b) ==
    /\ worker[b] \in InBuild
    /\ b \notin expired
    /\ expired' = expired \cup {b}
    /\ UNCHANGED <<row, memory, up, lost>>

-----------------------------------------------------------------------------
(* Queue.Stop *)

StopCloses ==
    /\ up
    /\ stop = "no"
    /\ stop' = "waiting"
    /\ UNCHANGED <<row, req, jobs, loop, held, sem, wg, worker, expired, up, lost>>

\* Bug: Stop waits for the slots, not for the goroutines.
AllDispatchedEndedBySlots == sem = 0

AllDispatchedEnded == wg = 0

StopReturns ==
    /\ stop = "waiting"
    /\ AllDispatchedEnded
    /\ stop' = "returned"
    /\ UNCHANGED <<row, req, jobs, loop, held, sem, wg, worker, expired, up, lost>>

(***************************************************************************)
(* A crash loses everything but the table.  NewQueue makes fresh channels; *)
(* no code looks for rows left "pending" or "building".                    *)
(***************************************************************************)
Crash ==
    /\ up
    /\ up' = FALSE
    /\ jobs' = <<>>
    /\ loop' = "idle"
    /\ held' = NoBuild
    /\ sem' = 0
    /\ wg' = 0
    /\ stop' = "no"
    /\ req' = [b \in Builds |-> IF req[b] = "created" THEN "answered" ELSE req[b]]
    /\ worker' = [b \in Builds |-> IF worker[b] = "none" THEN "none" ELSE "ended"]
    /\ expired' = {}
    /\ lost' = [b \in Builds |-> IF row[b] \in Open /\ lost[b] = "no"
                                 THEN "crash" ELSE lost[b]]
    /\ UNCHANGED row

Restart ==
    /\ ~up
    /\ up' = TRUE
    /\ UNCHANGED <<row, memory, expired, lost>>

-----------------------------------------------------------------------------

LoopStep == LoopReturns \/ TakeJob \/ LoopAbandonsJob \/ AcquireSlot \/ SpawnWorker

WorkerStep(b) ==
    \/ MarkBuilding(b) \/ RunSteps(b) \/ Report(b)
    \/ ReleaseSlot(b)  \/ WaitGroupDone(b)

QueueNext ==
    \/ Start \/ StopCloses \/ StopReturns \/ Crash \/ Restart
    \/ LoopStep
    \/ \E b \in Builds : CreateBuild(b) \/ Enqueue(b) \/ WorkerStep(b) \/ Timeout(b)

(* Goroutines that can run do run, and a deadline that has been set passes.
   Nobody has to send requests, to call Start or Stop, or to crash. *)
Fairness ==
    /\ WF_queueVars(LoopStep)
    /\ WF_queueVars(StopReturns)
    /\ \A b \in Builds : /\ WF_queueVars(Enqueue(b))
                         /\ WF_queueVars(MarkBuilding(b) \/ Report(b))
                         /\ WF_queueVars(ReleaseSlot(b) \/ WaitGroupDone(b))
                         /\ WF_queueVars(Timeout(b))
                         /\ WF_queueVars(b \in expired /\ RunSteps(b))

QueueSpec == QueueInit /\ [][QueueNext]_queueVars
FairQueueSpec == QueueSpec /\ Fairness

-----------------------------------------------------------------------------
(* Type correctness. *)
QueueTypeOK ==
    /\ row \in [Builds -> {"none"} \cup Open \cup Recorded]
    /\ req \in [Builds -> {"none", "created", "answered"}]
    /\ jobs \in Seq(Builds) /\ Len(jobs) <= BufferSize
    /\ loop \in {"idle", "select", "acquire", "spawn", "returned"}
    /\ held \in Builds \cup {NoBuild}
    /\ sem \in 0..MaxConcurrent
    /\ wg \in Nat
    /\ worker \in [Builds -> {"none", "wg_done", "ended"} \cup HoldsSlot]
    /\ expired \subseteq Builds
    /\ stop \in {"no", "waiting", "returned"}
    /\ up \in BOOLEAN
    /\ lost \in [Builds -> {"no", "full", "stop", "crash", "update"}]

(* "At most maxConcurrentBuilds run simultaneously" (queue.go:24): the
   semaphore is taken before the goroutine exists and given back by a deferred
   call, so the builds inside Build never outnumber its capacity. *)
ConcurrencyBound == Cardinality({b \in Builds : worker[b] \in InBuild}) <= MaxConcurrent

(* A build is in one place: once in the channel, or in the hand of the process
   loop, or in a goroutine, and never comes back to an earlier one. *)
OnePlace ==
    /\ \A i, j \in DOMAIN jobs : jobs[i] = jobs[j] => i = j
    /\ held \notin Queued
    /\ \A b \in Queued \cup ({held} \ {NoBuild}) :
          worker[b] = "none" /\ req[b] = "answered"

(* A recorded outcome is never overwritten, although UpdateBuild is an
   unconditional UPDATE (store/build.go:84). *)
OutcomeIsFinal ==
    [][\A b \in Builds : row[b] \in Recorded => row'[b] = row[b]]_queueVars

(* Every row that is still "pending" or "building" has somebody who will move
   it on (its handler, the channel, the loop, a goroutine), or it was given up
   in one of four ways: full channel, Stop, crash, refused update. *)
NoSilentLoss ==
    \A b \in Builds : row[b] \in Open =>
        \/ lost[b] # "no"
        \/ req[b] = "created"
        \/ b \in Queued
        \/ b = held
        \/ worker[b] \in InBuild

(* When Stop returns, no dispatched build is still on its way: what
   "waits for all in-progress builds to complete" (queue.go:55) promises. *)
StopWaitsForDispatched ==
    [][stop = "waiting" /\ stop' = "returned" => CountHolders = {}]_queueVars

(* A queued build is dispatched once the loop runs, unless Stop or a crash
   comes first: slots are always given back, whatever a build does. *)
QueuedIsDispatched ==
    \A b \in Builds :
        b \in Queued /\ loop # "idle" ~> worker[b] # "none" \/ stop # "no" \/ ~up

(* Stop returns: every dispatched build ends, at the latest by its timeout. *)
StopEventuallyReturns == stop = "waiting" ~> stop = "returned" \/ ~up

(* Nobody waits for ever on the queue, neither a build nor the caller of Stop
   (queue.go:83 and 56). *)
NobodyWaitsForEver == QueuedIsDispatched /\ StopEventuallyReturns

(* Each build is accounted for: no step of the handlers, the loop, Stop or a
   crash has it in two places at once or, unnoticed, in none, nor more of them
   inside Build than there are slots (queue.go:24, 66, 83). *)
Accounted == QueueTypeOK /\ OnePlace /\ NoSilentLoss /\ ConcurrencyBound

(* What others may rely on: a build runs once and with no more than
   MaxConcurrent at a time, and only its run changes its row (queue.go:24, 83). *)
Pool == INSTANCE BuildPool WITH
    running <- {b \in Builds : worker[b] \in InBuild},
    over    <- {b \in Builds : worker[b] \in {"release", "wg_done", "ended"} \/ lost[b] # "no"}

RunsAsPool == Pool!Spec

=============================================================================
