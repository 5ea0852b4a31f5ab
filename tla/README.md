# A verification development for mozza

mozza turns a short recipe into Docker Compose files or Kubernetes objects, applies them,
keeps a server, an operator, a build queue and a proxy around that, and has a dashboard (React, `ui/`)
in which orders are put together, placed and watched. This directory holds
TLA+ modules of the parts where the order of steps decides whether the program is right, the
TLC configurations that check them on small instances, and theorems about them, checked by
TLAPS, for every value of the constants. Paths are relative to the repository; Go paths
without a prefix are under `internal/`, TypeScript paths under `ui/src/`.

- [1. The system](#1-the-system)
- [2. The modules](#2-the-modules)
- [3. The runs](#3-the-runs)
- [4. The proofs](#4-the-proofs)
- [5. Where the code and its documents part](#5-where-the-code-and-its-documents-part)
- [6. What is not modelled](#6-what-is-not-modelled)
- [7. Plan](#7-plan)

To repeat it: `tlc -config BuildQueue.cfg MCBuildQueue` (and the other pairs of section 3), and
`tlapm RowsProofs.tla` (and the other modules whose names end in `Proofs`).

## 1. The system

Three processes share one database (SQLite in WAL mode): the **CLI** (`mozza up`, `rollback`,
`down`, ...), the **server** (`mozza serve`: HTTP API, build queue, informers, proxy) and the
**operator** (`mozza operator`: a poll loop). Nothing but the database and the Kubernetes API
server synchronises them. A request to the server usually inserts a row, answers, and leaves the
work to a goroutine; what the goroutine has to say it writes into the row.

| Component | State | Operations | What is hard | What makes it correct |
|---|---|---|---|---|
| **Build queue** `gitdeploy/{service,queue,builder}.go`, `store/build.go` | table `builds`; channels `jobs`, `sem`, `done`; WaitGroup | EnqueueBuild, Start, Stop, process loop, a goroutine per build | two nested selects, full channel, ten-minute timeout, Stop against the loop, crash | the semaphore bounds the builds; a build is in one place; no row is lost silently; an outcome is final; Stop waits and returns |
| **Kubernetes deployer** `deploy/k8s/{deployer,cleanup}.go`, `store/deploy.go` | objects of a namespace; table `deploys`; locals of a call | Deploy, Rollback, Down; cleanup, apply, wait, undo | each API call may be refused or its answer lost; several callers; crash; history read in several queries | a success is installed; an undone deploy leaves nothing; no orphaned objects; the history only grows; a rollback goes back |
| **Local deployer** `deploy/local/deployer.go` | Docker Compose; the same table `deploys` | Deploy, Rollback, Down | writes the history the other deployer reads | as above |
| **Deployments of the API, and the operator** `server/deploy_handlers.go`, `cli/operator.go`, `store/deployment.go` | table `deployments` (status, order number, snapshot) | trigger, goroutine, poll, claim, execute, record, roll back, delete | two executors of one row; claim race; MAX + 1; unconditional updates; crash of either process | one operator per row; a final status is final; numbers are unique; a pending row is taken; a snapshot is older than its deployment |
| **Object compiler** `k8s/*.go` | none | CompileObjects | order and kinds of the objects | the order of apply and undo |
| **Webhooks, connected repositories** `gitdeploy/webhook.go`, `store/connected_repo.go` | table `connected_repos` | receive push, connect, disconnect | redelivery, secret changed meanwhile | one build per push |
| **Preview deploys** `gitdeploy/preview.go`, `store/preview_deploy.go` | table `preview_deploys`; routes | create, touch, clean | count before insert; clean against touch | limit; a row has its route |
| **Reverse proxy** `proxy/{router,health,proxy}.go` | map of backends; `routes.json` | add, remove, probe, load | persist outside the lock; probe of a replaced backend; 0 = unlimited | file and map agree; health belongs to the backend probed |
| **Cluster cache** `cluster/*.go`, `store/cluster_snapshot.go`, `server/cluster_handlers.go` | informers and their stores, cache with times, reachability, table `cluster_snapshots` | start, events, resync, probe, save, load, answers | a goroutine per kind; metrics made of two stores; snapshots of a process before | no list goes back; data has a time; the answers become those of the cluster |
| **Monitoring** `monitor/*.go` | ring buffers, health states | collect, query, check, Start, Stop | wrap-around, thresholds, Stop without Start | a query returns the newest points in order |
| **Accounts** `auth/auth.go`, `store/{user,session,team}.go` | users, sessions, teams | register, log in, expire | first-user test before the insert | one first administrator |
| **Plan** `plan/{build,validate}.go` | none | Build, Validate | cycles among slices | a valid plan is acyclic |
| **History file, promotion** `state/*.go`, `cli/promote.go` | a JSON file | record, list, promote | load–append–save without a lock | no record lost |
| Recipe language, compilers of manifests, detection and import, templates, doctor, marketplace, configuration, middleware | little or none | translation, inspection, rendering | none of concurrency | covered by tests |
| **UI: deploy progress** `components/deploy/{DeployProgress,DeployLog}.tsx`, `order-wizard/StepDeployProgress.tsx`, `api/client.ts` | lines, stages, final status; a stream, timers | open, event, end, poll | stream and polls tell the same twice, late or not at all; events lose lines | only the stored end is told, once; stages only advance; the end is learned of |
| **UI: build terminal** `components/deploy/{DeployTerminal,DeployStep}.tsx` | socket, attempts, timer, steps, status | connect, message, close, reconnect, fetch, re-render | request races the socket; a closed socket races the timer and the clean-up | one connection; the outcome told is the build's; it ends |
| **UI: order wizard** `components/deploy/OrderWizard.tsx` | choice, step, name, slices, review | pick, import, name, add, remove, connect, go on and back | late answers; places in a filtered list | what is reviewed is what was chosen; no need is lost |
| **UI: imports, catalogs** `components/deploy/{ComposeImport,GitHubImport,TemplateCatalog,FrameworkWizard}.tsx`, `components/marketplace/*.tsx` | input, filters, answers, errors | scan, check, parse, generate, filter, retry | input edited while a request is under way; debounce | what is shown was made of what was asked |
| **UI: recipe builder and orders** `pages/RecipeBuilderPage.tsx`, `components/builder/*.tsx`, `components/deploy/{DeployWizard,ReviewOrder}.tsx` | canvas, stored recipe; phase of an order | load, draw, save; preview, place, follow, retry, leave | saving while drawing; orders left and placed again | connections join blocks; saved is stored; served means succeeded |
| **UI: cluster pages** `pages/{Status,Doctor,Applications,ApplicationDetail,Environments,Monitoring,Overview,Clusters}Page.tsx`, `context/ClusterContext.tsx`, `components/ClusterBanner.tsx`, `components/monitoring/AppHealth.tsx` | answers, errors, selection, polls | load, poll, select, restart, register, delete | answers out of order; hidden tabs; failed loads that look empty | no endless spinner; shown belongs to selected; health agrees; polls catch up |
| **UI: session, teams, lists** `context/AuthContext.tsx`, `App.tsx`, `pages/{Dashboard,Login,Register,Profile,CreateTeam,TeamSettings,RecipeList,Deployments}Page.tsx` | user, teams, active team, list | getMe, log in and out, expire, refresh, select, add, remove | answers that overtake each other; stale closures | dashboard and server agree on the session; lists are the active team's |
| UI: landing page, UI kit, views no page mounts (`GuidedWizard`, `TemplateConfig`) | none of their own | presentation | none | — |

`PROJECT.json` lists them with their files, and under `hazards` each place where this code can go
wrong in a way a test would hardly reach, with the properties that watch it.

How the modelled parts meet: the server's goroutine and the operator (module `Deployments`)
call `Deployer.Deploy` (module `K8sDeployer`), each for its own row of `deployments`; the deployer
keeps a second table, `deploys`, of its own, which the CLI and both processes share per
application. The build queue (module `BuildQueue`) is independent of both. The dashboard reaches all of
them by requests only: `DeployWatch` follows a row of `deployments` from the server's goroutine to the
screen, `BuildTerminal` a row of `builds`, `OrderWizard` makes the recipe that `RecipePages` previews, places and
follows, and the other pages ask the server and the cluster for what they show. `Pages` lets any of these views be opened
one after another, `Console` puts the session, the teams and the lists around them.

## 2. The modules

| Module | What it is |
|---|---|
| `BuildPool` | abstract: what the build queue promises to the readers of the `builds` table |
| `BuildQueue` | the build queue, from the INSERT to the recorded outcome; implements `BuildPool` |
| `K8sDeployer` | Deploy, Rollback and Down of one application, object by object, with the `deploys` history |
| `RowLife` | abstract: what the readers of the `deployments` table may rely on, even when a row is executed twice |
| `Deployments` | the `deployments` table with the server's goroutines, the operators and the rollback handler; implements `RowLife` |
| `Routing` | the routing table of the proxy, its file, the health of the backends, crash and restart |
| `ClusterCache` | what the server shows of a cluster: cache, informers, probe, snapshots, crash and restart |
| `JobWatch` | abstract: what everybody who watches a job may be told of its end |
| `DeployWatch` | a deployment, its log stream and the views that follow it; implements `JobWatch` |
| `BuildTerminal` | a build, its log socket and the terminal that shows it |
| `Watches` | the two: a user follows a deployment or a build |
| `OrderWizard` | the wizard in which an order is put together |
| `Views` | what the views of the dashboard have in common: the world, requests and answers, mounting |
| `ClusterPages`, `ImportPanes`, `RecipePages` | on top of it: the pages of the cluster; the imports and catalogs; the builder and the orders |
| `Pages` | their composition: any of these views, one after another |
| `Console` | the session, the teams, and the lists of the active team |
| `MCBuildQueue`, `MCK8sDeployer`, `MCDeployments`, `MCRouting`, `MCClusterCache`, `MCOrderWizard` | instances for TLC; `Watches`, `Pages` and `Console` are run as they are |
| `RowsProofs` (of `BuildQueue` and `Deployments`), `K8sDeployerProofs`, `RoutingProofs`, `ClusterCacheProofs`, `WatchesProofs`, `OrderWizardProofs`, `PagesProofs`, `ConsoleProofs` | inductive invariants, lemmas, theorems |

Operators marked `\* Bug:` in a module are faulty variants of the definition that follows them.
They are used by no specification; substituted for the definition, each makes TLC find the
property it is listed with in `PROJECT.json` (`mutants`) violated, which shows that the
property depends on that piece of code.

Variables described as *history* exist in no program. They record why something happened, so that a
property can say "unless a call was refused" and no more than that.

### BuildQueue

| Code | Model |
|---|---|
| `Service.EnqueueBuild` (service.go:142): INSERT, then `Enqueue` | `CreateBuild`, then `Enqueue`; `req` says that the handler is in between |
| `Queue.Enqueue` (queue.go:66): select with default | `EnqueueSends`, `EnqueueDrops`; neither looks at `done` |
| `processLoop` (queue.go:83) | `loop`: `select` → `acquire` → `spawn` → `select`; each case of a select is an action (`LoopReturns`, `TakeJob`, `LoopAbandonsJob`, `AcquireSlot`) |
| goroutine and its two defers (queue.go:99) | `SpawnWorker` counts `wg` up before it makes the worker; `ReleaseSlot` before `WaitGroupDone`, as defers run in reverse |
| `Builder.Build` (builder.go:33) | `MarkBuilding`, `RunSteps` (clone, detect, Dockerfile, image: one step that may fail), `Report` |
| `buildTimeout` | `Timeout`; an expired context refuses every later update |
| `Stop` | `StopCloses` (close of `done`), `StopReturns` (`wg.Wait`) |
| killed process | `Crash` keeps `row` alone; `Restart` finds fresh channels |

The process loop, the caller of `Stop`, the handlers and every build's goroutine interleave at each shared access.
Constants: `Builds` (how many requests there may be, the only bound), `MaxConcurrent`, `BufferSize`
(both natural numbers above 0, as the constants at queue.go:10 and 13), `StoreMayFail`. `BuildQueue` calls its
initial predicate `QueueInit`, its specification `QueueSpec` and so on, so that one module can extend it together with
`Deployments`.

`BuildPool` is the queue as its readers may think of it: a set of builds that run and a set of those that will not run any more.
There, `running` is who is inside `Build`, and `over` who has left it, or was given up by a full channel, by `Stop`, or by a crash
(`Pool` in `BuildQueue`). Dispatch and marking are `Begin` and `Mark`; `Report` and a refused mark are `End`; everything the
channel, the semaphore and the wait group do in between is invisible.

### K8sDeployer

`ns` maps each object (a kind and a slice) to the recipe it was last applied from. `run` holds one
record per caller: where the call stands and its local variables. The steps are those of
`Deployer.Deploy`: insert the row; prepare (validation, connection, namespace, CRDs,
secrets: one step that may fail); clean (`DetectRemovedSlices` against the newest success,
confirmation, one Delete per object); apply (one server-side apply per object in the order of
`CompileObjects`; objects of one rank in any order); wait for readiness; undo (the applied objects in
reverse); record. `Rollback` is two reads, a Deploy and a reference; the local deployer does the
reads in the other order, which `Replaced` says. `Down` deletes by label.

An API call succeeds, is refused, or succeeds and loses its answer; a cancelled context is a
refusal of all the calls that are left. `waitForReady` asks for a *Deployment* named after each slice, also for slices
compiled to a StatefulSet; that is why `AllAvailable` speaks of `"Deployment"`. Which objects are healthy is up to
the cluster: `BecomesReady` and `ReadinessFails` are both possible whenever the Deployments exist.

History variables: `alone` (the caller whose call overlapped no other in the namespace), `existed`
(what was there when its call began), `excused` (objects some refused or lost call, overlap, crash
or explicit refusal of the user may leave behind). The environment the deployer is given is not distinguished: one
application, one environment.

### Deployments

`status`, `order` and `previous` are columns of the table, `creating` and `stale` the open transactions of
`CreateDeployment`. `goroutine`, `operator` and `rollback` are the program counters of the three kinds of
actor. `namespace` says whose objects are in each of the three namespaces the code can mean:
`Deployer.Deploy` takes the one of the recipe or the *name of the application*, the snapshot the one of the recipe or
the *environment*, and the rollback always the *environment*.

| Code | Model |
|---|---|
| `CreateDeployment` (deployment.go:36): SELECT MAX, INSERT, in a transaction | `CreateReads`, then `CreateCommits` or `CreateRefused` |
| SQLite refuses to upgrade a read transaction with an old snapshot | `SnapshotHolds`, with `stale` set by every commit (`Committed`) |
| `runDeployWith` (deploy_handlers.go:273) | `Reject`, `Launch`, `DeployReturns`, `GoroutineRecords` |
| `pollPendingDeployments`, `executeDeployment` (operator.go:82) | `Poll`, `ClaimDeployment`, `ClaimFails`, `OperatorRejects`, `OperatorStartsDeploy`, `OperatorDeployReturns`, `OperatorRecords` |
| `handleRollbackDeploy` (deploy_handlers.go:475) | `RollbackChecks`, `RollbackRestores`, `RollbackRecords` |
| `handleDeleteDeployment` | `DeleteDeployment`: in any status |
| killed processes | `OperatorCrash`, `ServerCrash` |

`Deployer.Deploy` is one step here (`DeployEnds`), with the outcomes `K8sDeployer` shows it to have. Since
`Deploy` returns an error whenever it undid something, no code stores `"rolled_back"` after a deploy: the
row of `deployments` says "failed" where the row of `deploys` says "rolled_back".

The store opens PostgreSQL too, but its statements use `?` placeholders, which the pgx driver does
not translate, so only SQLite can be meant by the model. Uniqueness of the order numbers needs
what SQLite does: with READ COMMITTED (`SnapshotHoldsAlways`) TLC finds two rows with one number.

`RowLife` is the row as its readers may think of it, whether one executes it or two: its status, the `hands` it is in, and the hands it
has been in (`past`). In `Deployments` (`Life`), the hands are those of the server while its goroutine deploys, waits or fails, and of
an operator from its claim to its last update (`InHand`); `past` is whoever else has taken the row on. `Reject` and `Launch` are `Launch`, which asks nothing of the status;
`ClaimDeployment` is `Claim`; `GoroutineRecords`, `OperatorRecords` and the crash of an operator are `LetGo`; `ServerCrash` is `ServerKilled`;
everything else that does not create, delete or roll back a row is invisible. No "running" ever follows another status than "pending", no operator follows another, and only
whoever has the row in hand writes an outcome, once. What `RowLife` cannot promise, and what the code does not, is that the two outcomes of a row with two
hands agree.

### Routing

A write lock guards the map and nothing guards the file, so a change is a step on the map and then three on
the file. The goroutines that change routes (`Writers`) are whoever holds the router; in the repository that is
`PreviewManager` alone, which no command constructs yet.

| Code | Model |
|---|---|
| `AddRouteWithLimit` (router.go:86), `RemoveRoute` (router.go:112): the map, under the lock | `AddRoute`, `RemoveRoute`; they may come before `ListenAndServe` has loaded (`UsedEarly`) |
| `persist` (router.go:155): copy under the read lock; `os.WriteFile`, which truncates and then writes | `PersistCopies`, `PersistTruncates`, `PersistWrites`; `PersistFails` at any of them (logged only) |
| `LoadRoutes` (router.go:186) | `LoadReads`, without the lock; `LoadSets`, under it. `Reloaded`: a limit of 0 is omitted on disk and becomes 100 |
| `loop`, `checkAll` (health.go:57) | `CheckAll`: the map is copied |
| `probe` (health.go:82) | `Probe`: an answer, good or bad, some time later; domains of a round in any order, as a Go map gives them |
| `updateStatus` (health.go:100) | `UpdateStatus`: found again by its domain; `Succeeded`, `Failed` |
| killed process | `Crash`, which may leave an open file half written; `Restart` |

A table of the file maps domains to what is kept of a backend (`url`, `limit`); the order of entries, which Go
chooses afresh each time, is left out. Two writers that have both truncated the file both write from
its start: if their tables differ, the end of the longer one may stay (`"garbled"`, which does not parse). Failure and
success counters are counted as far as their threshold, which is all the code compares them with.

History variables: `solo` (a call, or a load, that has overlapped no other so far), `dirty` (the last change was not
such, or was not written), `replaced` (domains changed since `checkAll` copied the map) and `streak` (the answers
that the present backend of a domain gave itself).

### ClusterCache

A kind of resource (pods, nodes, ...) goes through versions, the times at which something of it changed. A store takes a version over
object by object, so that the goroutine of its events may read a part of it (`Whole`, `Part`); a version without objects brings no
events, unless there were some before (`Notifies`).

| Code | Model |
|---|---|
| `New` (server.go:121): `LoadSnapshot` before anything runs | `Launch`, `LoadSnapshot`; the table may be empty or unreadable |
| `ListenAndServe` (server.go:167): probe, snapshots, informers in goroutines | `Background`; `Probe`, `SaveSnapshot`, `StartInformers` |
| `InformerManager.Start` (informers.go:46), called once | `informers` is `"failed"` for good when there is no kubeconfig yet |
| client-go: list, watch, list again, resync | `Reflect`, `TakeRest`, `Resync` |
| `registerHandlers`, `syncPods` and the others: read the store, set the list | `SyncReads`, `SyncSets`, one goroutine per kind |
| `syncMetrics` (informers.go:358), from the goroutines of pods and of nodes: read two stores, set the sums | `SyncSets` reads the nodes (it sets a list first, which no reader of stores sees), `MetricsReadPods`, `MetricsSet` |
| `SerializeSnapshot`, `LoadFromSnapshot` (cache.go:279, 302): lists, metrics and the times of each | `Stored`, `Loaded` |
| `shutdown` (server.go:250): the last snapshot, and the end | `Shutdown` |
| killed process | `Crash` |
| the handlers: 503 unless reachable, the list and whether it is stale | `Answer`, `ListAnswer`, `MetricsAnswer`, `MustBeStale` |

Of a time it is told only whether there is one and whether it is from this process: whether it is more than 30 seconds ago is
open. The rows of `cluster_snapshots` are one, the newest, which is all that is read.

### JobWatch and DeployWatch

`JobWatch` knows how a job ended, whether its record was deleted, and what a reader was told; a reader is
told nothing but the end, after it, and it stays told. `DeployWatch` has the code in between.

| Code | Model |
|---|---|
| `runDeployWith` (deploy_handlers.go:273): log lines, `access_url`, the status | `LogStep`, `FindAddress`, `LogAddress`, `LogServed`, `LogBurned`, `Finish`; `DeleteRow` |
| `handleDeploymentLogs`: greeting, a tick per second | `Greet`, `Tick`, `RowNotFound`; a part of several lines is one event of which only the first line begins with `data:`, so the page loses the rest (`NewPart`) |
| `streamDeploymentLogs` (client.ts), effects of the three views | `ReceiveLine`, `ReceiveDone`, `ReceiveEnd`, `Break`; `DeployProgress` opens its stream again when its final status changes (`Reopens`) |
| timers of `DeployProgress` (10 s, then every 3 s) and of `StepDeployProgress` (15 s, once) | `StartPolling`, `Poll`, `AskOnce`, `PollAnswered`; answers are read at one time and come at another |
| `parseStep`, `stages` | `Marked`; `ProgressCard`, `OrderHeadline`, `OrderCard` are what is shown below |

At this commit no page mounts `StepDeployProgress`; `DeployProgress` and `DeployLog` are in use.

### BuildTerminal

| Code | Model |
|---|---|
| `handleBuildLogs` (gitdeploy_handlers.go): poll the row, send the log, the steps, the end | `server`, `EndMessages` |
| `connect`, `handleMessage`, `onclose`, `scheduleReconnect` | `socket`, `channel`, `Handled`, `ScheduleReconnect` |
| `getBuild` at mount | `fetch`: asked, answered by the build as it is then, over |
| effects that run again as the parent renders | `renders` |

No page mounts `DeployTerminal` at this commit. What the queue does to a build is in `BuildQueue`; here its row
changes from queued by building to an end. `faults` counts refused and broken connections and failed requests.

### Watches

A user follows a deployment or a build, as `watched` says: `WatchNext` takes the steps of `DeployWatch` or of `BuildTerminal`, and the other stays as it
was opened. The properties of both are checked in one run.

### OrderWizard

`choice` is what step 1 picked (an app of the menu, a template, an imported recipe), `slices` and `active` are
`services` and `activeServiceIndex`, `recipe` is what step 3 shows. Each handler is an action. The list of step
2 leaves out slices without an image, and the buttons use the place in *that* list as a place in `services` (`Shown`,
`RemoveSlice`, `TogglePublic`, `ToggleNeed`), as the code does. `crossed` is history: a late answer added a choice
to another. One detection of a framework is under way at a time; the settings of a slice (port, copies,
domain, size, health check) are one bit.

### Views, ClusterPages, ImportPanes, RecipePages, Pages

`world` is what the pages ask about: whether the cluster answers, and how many copies are desired, there,
running and ready. `calls` are the requests under way; each is answered by the world as it is when the answer is
made, or fails; the answers to two requests may come in either order (`overtaken` is the history of that). `view`
is the state of the one view that is open: its kind, the selection, which requests spin, the errors, what was last
got for each request and of what (`got`), and what only that view has (`more`). Leaving a view and opening another
is `Mounts`; answers to a view that is gone do nothing. A page that sends several requests at once and waits
for all of them (`Promise.all`, `Promise.allSettled`) sends one in the model.

| Code | Model |
|---|---|
| effects and handlers that fetch | one action for each request, and `ClusterReply`, `ImportReply`, `RecipeReply` for the answers |
| `try`/`catch`/`finally` of them | `Failing`; what stays in `spins` and `errors` is what the code leaves set |
| intervals, `visibilitychange` of `MonitoringPage` | `StatusFetch`, `ClusterFetch`, `Refresh`, `Hide`, `Show` |
| `deriveStatus`, the badges and dots of five pages | `DeriveStatus`, `OverviewBadge`, `OverviewDot`, `EnvironmentBadge`, `MonitoringCard` over the same pods |
| ComposeImport, GitHubImport, TemplateCatalog, RecipeCatalog, FrameworkWizard, RecipeDetail | `Import`, `Scan`, `CheckImage`, `FiltersEffect`, `Generate`, ... |
| Canvas, PropertyPanel, `canvasToSource`, save | `RemoveBlock`, `SourceOf`, `Save` |
| DeployWizard, ReviewOrder | `PlaceOrder`, `Previewed`, `ConfirmDeploy`, `Ordered`, `DeployDone`, `TryAgain`; `fates` are the deployments that were made |

`ClusterContext` is taken as up to date by `OverviewPage`, which reads nothing else of it than whether there is a
cluster.

### Console

The server's side is `session`, `teams` and `rows`; the dashboard's `user`, `known`, `active` and `list`. A request is sent,
handled by the server, answered to the page: three steps, in any order among requests, and any may
be refused or lost (`faults`); the session may expire. The pages with lists (recipes, deployments, members of a team) are told apart
by `page`; each loads when it is opened or the active team changes, and after an addition or a removal as its handler
does: by the list or by the team it closed over. History: `raced` (two requests about the user overlapped), `mixed` (something was
under way when another was asked for), `chosen` (the team last picked).

## 3. The runs

| Run | Distinct states | Properties | Question |
|---|---|---|---|
| `BuildQueue` | 207 249 | `Accounted` `StopWaitsForDispatched` `NobodyWaitsForEver` `RunsAsPool` | is the queue right, with failures, timeouts, Stop, crash, and no more than a pool that runs each build once? |
| `K8sDeployer` | 821 153 | `SuccessIsInstalled` `NothingLeftBehind` `CallsEnd` | one caller: what do sequences of deploys, rollbacks and downs leave? |
| `K8sRollback` | 1 290 545 | `HistoryIsSound` `HistoryIsAppendOnly` | two callers: is the history right when calls overlap? |
| `K8sUndoScope` | violated | `UndoSparesWhatExisted` | does an undo spare the running version? |
| `Deployments` | 3 774 448 | `OrderNumbersUnique` `StatusIsTrue` `SnapshotIsEarlier` | two operators: claims, numbers, statuses |
| `DeploymentsLive` | 795 167 | `FinalIsFinal` `LivesOneLife` `PendingIsTaken` | one operator, scheduled fairly: is every row taken, and executed by each of server and operator at most once? |
| `Routing` | 58 622 | `TableIsTrue` `HealthFollowsProbes` `HealthIsEarned` `HealthyAgain` | does a restart bring the routes back, and do three answers decide on a backend? |
| `ClusterCache` | 637 344 | `ShownWithItsAge` `ListsNeverGoBack` `CatchesUpWithCluster` | is what is shown of a cluster of a known age, ever newer, and in the end right? |
| `Watches` | 586 772 | `StagesAreTrue` `TerminalIsTrue` `Truthful` `WatchEnds` `StagesOnlyAdvance` `TerminalEnds` | is what is shown of a deployment or a build true, whatever streams, sockets and polls do, and does it end? |
| `OrderWizard` | 4 817 838 | `ReviewIsTrue` `NoNeedIsLost` `PickIsTaken` | is what is reviewed what was picked and built, in any order of steps? |
| `Pages` | 577 086 | `PlaceholdersAreTrue` `ShownIsAsked` `StoredIsShown` `OrderIsTrue` `HealthAgrees` `PagesSettle` | is what each page shows true of what it was told, and does it go on? |
| `Console` | 1 972 504 | `SessionIsTrue` `TeamIsCurrent` `LoadingEnds` | who is signed in, which team is active, and whose lists are shown? |

Some properties are conjunctions, of parts that have their own names and comments in the modules:

| Property | Parts |
|---|---|
| `Accounted`, `NobodyWaitsForEver` (BuildQueue) | `QueueTypeOK`, `OnePlace`, `NoSilentLoss`, `ConcurrencyBound`; `QueuedIsDispatched`, `StopEventuallyReturns` |
| `StatusIsTrue` (Deployments) | `TypeOK`, `OneOperator`, `RunningIsHandled`, `FinalIsQuiet` |
| `NothingLeftBehind`, `HistoryIsSound` (K8sDeployer) | `UndoIsComplete`, `NothingUnaccounted`; `TypeOK`, `RollbackGoesBack` |
| `TableIsTrue` (Routing) | `TypeOK`, `RestartRestores` |
| `ShownWithItsAge` (ClusterCache) | `TypeOK`, and that lists and metrics have times |
| `StagesAreTrue`, `WatchEnds` (DeployWatch) | `TypeOK`, `FailureIsMarked`, `CardAgrees`; `ProgressEnds`, `StreamEnds` |
| `TerminalIsTrue` (BuildTerminal) | `TypeOK`, `OutcomeIsTrue`, `DrawnToItsEnd`, `OneConnection` |
| `ReviewIsTrue` (OrderWizard) | `TypeOK`, `ReviewIsOfTheChoice`, `ReviewIsBuilt` |
| `PlaceholdersAreTrue`, `PagesSettle` (Pages) | `TypeOK`, `SpinnersAreTrue`, `EmptyIsTold`; `CatchesUp`, `SpinnersStop` |
| `ShownIsAsked` (Pages) | `SelectionIsShown`, `RecipeIsOfImport`, `PreviewIsOfAnswers` |
| `StoredIsShown` (Pages) | `ClustersAreListed`, `SavedIsStored`, `ConnectionsExist` |
| `SessionIsTrue`, `TeamIsCurrent` (Console) | `TypeOK`, `SessionAgrees`; `ListIsCurrent`, `ChoiceIsKept` |

### Bounds, and why they are enough

- `BuildQueue`: three builds, two slots, a channel of one. It takes three builds for a full channel, a
  loop that waits with a job in hand and running builds to occur at once. Every update may
  fail, every build may time out; crashes and restarts are not bounded (a build is requested once).
- `K8sDeployer`: one caller, versions `v1` = {web} and `v2` = {web, cache}, a Deployment and a Service
  for web and a Deployment for cache, three rows of history. Two versions that differ in a slice are what
  cleanup needs; three rows are what a rollback needs (two successes and its own).
- `K8sRollback`: two callers and a single object; here it is the interleaving of the history's reads
  and writes that counts. `K8sUndoScope` adds a claim to the cache slice.
- `Deployments`: two rows, two interchangeable operators (symmetry), one crash of any process, rollback and own
  namespace for the second row only. Two rows are needed for numbers and for a snapshot to hold
  something else; two operators for the claim. `DeploymentsLive` has one operator, without symmetry.
- Deadlock is checked in all runs but `Deployments`, `DeploymentsLive` and `Watches`, whose
  configurations say so: when all rows have been deleted the operators poll an empty table, and nothing else can happen; a deployment and a build
  that have been watched to their ends are over. In `BuildQueue` and `Routing` the system never stops, as a process can be
  killed and started again; in `ClusterCache` the network never does.
- `Routing`: one domain (what happens to one does not depend on others, but through the file, which holds
  them all), two writers, requests with a limit and without, the thresholds of the code, a disk that may fail. Changes and
  crashes are not bounded.
- `ClusterCache`: pods in two versions, the second without any, and one node; a server that is started twice. A list that is taken in part, a deletion,
  two goroutines that set the metrics in either order, and a snapshot of what is gone by the next start all occur. What the last process
  stores is read by nobody, and not kept apart.
- `Watches`, a deployment: three of the five "Step n/5" lines (`LastStep`), one stream event in flight (the code sends no
  second before the next tick, a second later), two polls under way at a time, one failed connection; all three views. Two polls are what it
  takes for an older one to be answered after a newer.
- `Watches`, a build: four labels of the six, three attempts to reconnect of the ten, six faults, so that all attempts can be used
  up with some of them reset by a connection in between, and two renders of the parent.
- `OrderWizard`: two names, one of them reserved and on the menu, two slices. A slice that needs another, a removal
  under the active one, a pick that renames and a shown list shorter than the list all occur with two.
- `Pages`: two of everything that can be selected, two requests at a time (one may overtake the other), one failed request, two questions, two orders. The cluster changes among five worlds at any
  time: down, and four stages of an app that comes up.
- `Console`: two teams, one row each, two requests of the user's making at a time, one fault.

### Fairness

- `BuildQueue!FairQueueSpec`: a goroutine that can run does run (the loop, Stop's wait, the steps of a worker), and a
  deadline passes. `RunSteps` is fair only once the context has expired: a build may hang until then, and
  `exec.CommandContext` kills it. Nobody has to send a request, to call Start or Stop, or to crash.
- `K8sDeployer!FairSpec`: a call goes on (weak fairness of all its steps together): client-go
  answers or fails each request, and `waitForReady` has a timeout. Which of success and failure it is stays open.
- `Deployments!FairSpec`: the operators' goroutines run, and their ticker fires (weak fairness of
  `OperatorStep`); a claim that is offered again and again succeeds some time (strong fairness
  of `ClaimDeployment`): the store may refuse a claim now and then, not for ever. Nothing is assumed of the
  server, which is the point of `PendingIsTaken`.
- `Routing!FairSpec`: the checker goes on (weak fairness of `CheckerStep`): its ticker fires, and each probe has a
  timeout of five seconds. Nobody has to change a route, to load or to restart; of the answers nothing is assumed but what
  `HealthyAgain` itself says in its premise.
- `ClusterCache!Fairness`: the probe's ticker and the resync timer fire, goroutines are scheduled, and client-go lists and watches again
  until it is answered. The connection may come and go for ever; `CatchesUpWithCluster` is about one that stays in the end. Nobody has to start the server.
- `DeployWatch!Fairness`: the server's ticker, the page's callbacks and timers run, and one of the polls that are repeated every three seconds is
  answered. The deployment may take for ever, and the connection may break.
- `BuildTerminal!Fairness`: the server polls, sockets deliver or fail, the timer fires, the request is answered or fails. The build may take for ever.
- `Watches!WatchFairness`: that of the two modules, for the one that is watched.
- `Pages!Fairness`: timers of the browser fire; the *first* of the requests under way is answered or fails in the end (`fetch`
  rejects when a connection is lost); a deployment ends, and the wizard is told so, which is what `WatchEnds` shows. The user has to do nothing.
- `Console!Fairness`: requests are handled, answered or lost.

## 4. The proofs

`tlapm` proves each module below to the last leaf; TLC has checked each strengthening first, as an invariant of an instance.

### RowsProofs: builds

For all `Builds`, `MaxConcurrent`, `BufferSize`, `StoreMayFail` that satisfy the three assumptions of
`BuildQueue` (a finite set of builds, positive limits):

| Theorem | Property |
|---|---|
| `QueueTypeCorrect` | `QueueTypeOK` |
| `ConcurrencyBounded` | `ConcurrencyBound` |
| `InOnePlace` | `OnePlace` |
| `NothingLostSilently` | `NoSilentLoss` |
| `BuildsAccounted` | `Accounted`, the four above |
| `OutcomesFinal` | `OutcomeIsFinal` |
| `StopWaits` | `StopWaitsForDispatched` |
| `QueueImplements` | `RunsAsPool`: `BuildQueue` implements `BuildPool` |

The code tests `sem` and `wg`, the properties speak of goroutines. The invariant `QueueIInv` ties them:
`SlotAccounting` (each token of `sem` belongs to a goroutine, or to the loop between its send and the go statement),
`CountAccounting` (likewise for `wg`), `LoopHolds`, `HandlerFirst` and `RowFollowsWorker` (what the row says of a
build that has not returned). `AccountingStep`, `QueueTypeStep`, `PlaceStep`, `RowStep` and `GivenUpStep` show that a step
keeps its parts. Without `SlotAccounting` the type invariant itself is not inductive, for `sem - 1` might be
negative.

`QueueImplements` needs one thing more, `GivenUp`: what was given up is neither in the channel nor in the hand of the loop nor
in a goroutine, and will not come back. With it `QueueStepImplements` takes each step to one of the pool or to none.
That a build which begins finds a place free (`PlaceIsFree`) rests on the token that the loop holds for it in `SlotAccounting`; that a crash
ends exactly the builds that were submitted, on `RowFollowsWorker`: a row with an outcome has had a goroutine.

### RowsProofs: deployments

For any finite set of rows, any set of operators, any of the rows rolled back or with a namespace of their own, any number of crashes:

| Theorem | Property |
|---|---|
| `TypeCorrect` | `TypeOK`, with order numbers no greater than the number of rows |
| `NumbersUnique` | `OrderNumbersUnique` |
| `ClaimedByOne` | `OneOperator` |
| `RunningHandled` | `RunningIsHandled` |
| `FinalQuiet` | `FinalIsQuiet` |
| `StatusTrue` | `StatusIsTrue`, four of the above |
| `FinalStays` | `FinalIsFinal` |
| `SnapshotEarlier` | `SnapshotIsEarlier` |
| `RowsLive` | `LivesOneLife`: `Deployments` implements `RowLife` |

The properties count who took a row on, and the code looks only at its status. `IInv` says what the status
tells of the actors: a goroutine exists after the INSERT (`InsertFirst`), an operator works on what it
claimed (`ClaimFirst`), pending means unclaimed (`ClaimedOnce`), and a row with one kind of handler
is still pending (`ServerAlone`) or running (`OperatorAlone`) while that handler is at work.
`DeployedFirst` and `SnapshotFirst` follow the objects through the namespaces; `NumbersBounded` and
`NumbersFresh` say which numbers open transactions may still use, and count the rows to bound them.
`GreatestExists` (a bounded set of naturals has a greatest element, from well-foundedness of the strict subset
order) makes the `CHOOSE` of `NextOrder` mean what the SELECT does. The uniqueness of the numbers holds under
the database's refusal of old snapshots, which is the guard `SnapshotHolds`.

`RowsLive` rests on the same invariant. Who has a row in hand has taken it on (`HandsAreHandlers`, from `InsertFirst` and `ClaimFirst`), so that who is new to
`handlers` is new to `hands` and `past`; `ClaimedOnce` gives `Claim` its guard, and `RollbackLast` that of `RollBack`, however long the handler has waited. `SameHands`,
`TakesOn` and `LetsGo` say once what each kind of step does to the hands, and `StepImplements` goes through the actions. TLC checks this refinement
with one operator, the theorem has any number.

### K8sDeployerProofs

For any callers, recipes, slices and kinds of object, and any length of the history:

| Theorem | Property |
|---|---|
| `HistoryTrue` | `HistoryIsSound`: types, `RollbackGoesBack` |
| `HistoryOnlyGrows` | `HistoryIsAppendOnly` |
| `SuccessTrue` | `SuccessIsInstalled` |
| `NothingLeft` | `NothingLeftBehind`: `UndoIsComplete`, `NothingUnaccounted` |

The invariant has two halves. `HistoryInv` says what a call knows of the table, which others write at the same time: the row it
will complete is its own (`OwnRows`) and still in progress (`RowsOfCalls`), and the recipe a rollback has read is that of a
success older than the one it replaces (`RollbacksKnow`). This stays true because no step takes a success away (`Grows`),
and it is where the order of the two reads matters: the deploy to be replaced is read second, and can only be newer. The local
deployer reads it after its own success, which is why `RollbackGoesBack` is about Kubernetes.

`ClusterInv` says what the one call that is alone in the cluster can rely on. `Accounted` and `Cleans` follow the objects of removed slices from the
newest success through the confirmation, the deletes and the applies; `Installs` and `Undoes` follow what was
applied; `StaysNewest` makes the row that is recorded the newest success, so that the next call looks for the removed slices
in the right recipe. A call that meets another one (`Crowd`), and a local success in between (`Outside`), excuse
everything, so that the theorems promise nothing then; `AloneIsAlone` is what keeps this from being too generous.

### RoutingProofs

For any domains, any goroutines that change routes, any positive thresholds, a disk that fails or not:

| Theorem | Property |
|---|---|
| `TableTrue` | `TableIsTrue`: types, `RestartRestores` |
| `HealthFollows` | `HealthFollowsProbes` |
| `HealthEarned` | `HealthIsEarned` |

`dirty` says that the map may differ from the file; that it is reset only when they agree rests on `WriterIsAlone` (a writer that
overlaps no other holds the entries of the map, and finds the file truncated by itself), on `LoadIsAlone` (an
undisturbed start loads the file into an empty map) and on `Quiet` (nobody is about to write a file that agrees). The counters of a backend
are tied to the answers by `Counts`, which allows for one answer that was meant for its predecessor: `ReplacedIsFresh`
shows that there is at most one, because a round probes each domain once (`ProbedOnce`).
`RequestsAssumption` says that a request has a URL and a limit.

### ClusterCacheProofs

For any kinds of resource (pods and nodes among them), any number of versions, empty or not, and any number of starts:

| Theorem | Property |
|---|---|
| `EverythingHasItsAge` | `ShownWithItsAge` |
| `NoListGoesBack` | `ListsNeverGoBack` |

`Ordered` follows a list on its way: what a goroutine is about to set is no older than what is shown and no newer than the store. What makes
this survive a restart is `Bounded`: the snapshot has no version the cluster did not have, and the *first* list of an informer is
current, so that it may follow any snapshot (`ReflectStep`). `Quiet` says that nothing runs, and nothing is
shown, before the snapshot is loaded; without it a list set early would be replaced by the snapshot's. The assumption
`NoMetricsAssumption` says that nil is no result of `syncMetrics`.

### WatchesProofs

For any number of step lines, events in flight, polls under way, attempts to connect again, failures and re-renders:

| Theorem | Property |
|---|---|
| `StagesTrue` | `StagesAreTrue`: types, `FailureIsMarked`, `CardAgrees` |
| `StagesAdvance` | `StagesOnlyAdvance` |
| `Implementation` | `Truthful`: `DeployWatch` implements `JobWatch` |
| `TerminalTrue` | `TerminalIsTrue` |
| `WatchedStagesTrue` | the first three, in the composition `Watches` |

The abstract `job` is the stored status, `gone` the deletion of the row, `shown` the final status of the view. Every step of `DeployWatch` is one of
`JobWatch` or leaves these alone, given `IInv`: `Told` (every done event in the channel, every answer with a status, and the view itself
carry the stored status) is inductive because the server reads the status it sends from the row, once `finished_at` is set, and nothing but
`Finish` sets it.

The stages need more. The steps a view marks are a function of the lines it has read, in the order in which it reads them; the two views
read them differently, so `IInv` has two parts. `MarksAreLogged`, for both: whatever was read, and in whatever order, a step is marked as failed only
after the log has the line of a failure, and the last one as done only after the line of a success. `Stages`, for `StepDeployProgress`, which reads
the stream alone and each line once: all stages before one, k, are done and all after it pending, and no line that is still *to come* (in
the channel, or in the log beyond what was sent) is of a stage before k. This is what `StagesOnlyAdvance` rests on, and what a reconnection that sent
the log again would break. It holds because the log is ordered (`LogIsOrdered`) and the channel keeps its order
(`StreamIsOrdered`).

The view marks the steps with a fold over the lines (`FoldLeft` of `Marked`). `FoldStays` proves what such a fold keeps: a set of marks that no line leads
out of. It is an induction over the data, for which the library's rules, that take an operator, cannot be used here; it is done with the set of the
lengths for which the claim holds, whose greatest element (`GreatestExists`) is the length of the list (`Climb`).

`TInv`, the invariant of the terminal, says what every message under way would tell (`MessagesAreTrue`) and what was drawn and told back
(`StateIsTrue`). One connection at a time is `Disconnected`; `NothingIsLost` says that a connection the server has closed without a failure still
holds the message that ends the build, as its last, or has drawn it.

### OrderWizardProofs

For any names, any menu and any number of slices:

| Theorem | Property |
|---|---|
| `ReviewTrue` | `ReviewIsTrue`: types, `ReviewIsOfTheChoice`, `ReviewIsBuilt` |
| `PickTaken` | `PickIsTaken` |
| `NeedsAreKept` | `NoNeedIsLost` |

`IInv` ties the choice to the recipe: without a late answer (`~crossed`) at most one of the three choices is made
(`OneChoice`) and step 3 shows `RecipeOf` it and the slices (`Reviewed`). `CartOK` (a slice, and an active one among
them, in every step) is what `PickTaken` rests on: `goNext` puts the app in place of the active slice, if there is
one. `ShownIsPlace` shows that a place in the shorter list of step 2 is a place in the cart too, so that no button
reaches beyond it; `Removed` and `Left` follow the removal, the one handler that shortens the cart and moves the active slice.
`NeedsAreKept` follows from two facts about the cart: each handler of step 2 but the removal leaves all names and adds no need but of a name in the list it
offers (`NeedsKept`, `OneNeeds`), and the removal takes the name out of the needs of exactly the slices that stay
(`RemoveKeepsNeeds`).

### PagesProofs

For any things to select, any number of requests under way, of failures, of questions of a framework and of orders:

| Theorem | Property |
|---|---|
| `PlaceholdersTrue` | `PlaceholdersAreTrue`: types, `SpinnersAreTrue`, `EmptyIsTold` |
| `ShownAsked` | `ShownIsAsked`: `SelectionIsShown`, `RecipeIsOfImport`, `PreviewIsOfAnswers` |
| `StoredShown` | `StoredIsShown`: `ClustersAreListed`, `SavedIsStored`, `ConnectionsExist` |
| `OrderTrue` | `OrderIsTrue` |
| `HealthAgreed` | `HealthAgrees` |

The properties look at a view when nothing of a kind is under way; an inductive invariant has to say what is true while requests are. `IInv` has a formula
for each of the sixteen views, about the record of the view, the requests under way and whether an answer has overtaken another. They are made
of a few patterns. *Spun*: each request that spins is under way. *Alone*: at most one request of a kind is, because a button or a phase stops
the second (saving, importing, scanning; the cleanup of the effect of the charts). *AllAbout*: what is under way of a kind is about what was sent
last. *Newest*: the last request of a kind is about what is selected now; it is what saves the log of a pod, the deployments of a team and
the catalogs, which do not cancel the request before, as long as the answers come in order. *Accounts*: a page that is not loading has an answer or an
error to show.

The requests are a sequence, a request is appended and any of them removed. `Asking` and `Returning` say once what each does to the
patterns, `CountAsking` and `CountReturning` to the number of requests of a kind (which bounds the orders); each
view's lemma (`StatusSteps`, ..., `WizardOrdered`) then has only its own cases. `EveryStepMoves` sorts the steps of `Pages` by the view that makes
them, `Mounted` shows that every view starts well, and `EveryViewTells` what each shows. `OrderTrue` is the longest: while no order was
placed twice, `OneOrder` lets an order be previewed, asked for and followed in turn only. For `FrameworkWizard` the invariant
counts: a recipe to come is a step to come, so the steps stay below the questions and the requests together, which the type invariant says.
`HealthAgreed` uses the worlds alone, which are finite by definition: there it says what the run does.

### ConsoleProofs

For any number of teams and rows, of requests under way, and of faults:

| Theorem | Property |
|---|---|
| `SessionTrue` | `SessionIsTrue`: types, `SessionAgrees` |
| `TeamCurrent` | `TeamIsCurrent`: `ListIsCurrent`, `ChoiceIsKept` |

The properties speak of the moments when nothing of a kind is under way, so `IInv` has to say what holds while something is. `Session`: while no two
requests about the user have overlapped, there is at most one, and it will tell what the server knows (`Tells`): before it is handled
the dashboard is right already or the request is the first `getMe`, after that its answer makes it right. `Listing`: while
nothing was mixed, a page with a list is right, or the one request that is under way is about the active team and its answer will make it so (`Fits`); a
removal works on the list it closed over, which is the server's as long as the removal is the only one. `Choice`: a list of teams
under way that would choose a team by itself (`Bare`) finds no other than the chosen one (`Kept`).
`Limited` counts the requests apart from the loads of a list (`Heavy`, `Slight`): these alone are made when there is no room for another, one at a
time, which bounds the sequence of requests that the type invariant speaks of.

Each part is a formula over the *sequence* of requests, which changes in four ways: one is appended, one answered, one removed, and a page that is
unmounted leaves its handlers behind (`Gone`). `Appended`, `AnswerComes`, `Returns` and `GoneLeaves` say once what each does. What is left after a removal or an unmounting is described by an embedding
(`Leaves`): each request that still matters is left, once, and it is the same or has lost its handler. For `Gone` it is proved along the length of the
sequence (`Climb`, as `FoldStays` above). Every part of the invariant then has a lemma for what is appended (`AgreesAppend`, ...) and one for what is
left (`AgreesLeaves`, ...), and the actions combine these.

### What stays with TLC

Liveness (`NobodyWaitsForEver`, `CallsEnd`, `PendingIsTaken`, `HealthyAgain`, `CatchesUpWithCluster`, `WatchEnds`, `TerminalEnds`,
`PagesSettle`, `LoadingEnds`), which TLAPS cannot prove under fairness. Every invariant and every action property that a passing run checks is a
theorem as well. No module declares a recursive operator, and none that is proved about uses `SelectSeq`, which the library defines by
recursion: `Gone` (`Console`) and `Cancelling` (`MonitoringPage`) say by a function of the length, and by a place, what such a filter would.

## 5. Where the code and its documents part

One is a run that TLC is expected to find violated; `PROJECT.json` quotes the sentence:

- `UndoSparesWhatExisted` (design of the pipeline, section 7). The undo deletes whatever the deploy applied,
  objects it merely updated included: a failed update takes the running version down.

The models show these as well (each can be seen by stating the sentence as an invariant):

- queue.go:54, "It stops accepting new jobs". `processLoop` selects between a closed `done` and a waiting job, both ready, and `Stop` waits for the
  dispatched builds only: one can start after it has returned.
- builder.go:147. A build that fails because its context has expired records the failure with that context; the update is
  refused and the row says "building" for ever.
- getting-started.md:341. Rollback takes the second newest success, also when the newest deploy failed; the last success is skipped.
- docs/specs/i-want-to-get-my-app-ready-for-production.md:61: the operator executes. The server's goroutine deploys the row without claiming it, so an
  operator on the same database deploys it as well. For this reason `FinalIsQuiet`, `FinalIsFinal` and `SnapshotIsEarlier` speak of rows with one handler.
- docs/specs/cluster-resilience.md:64, "Informers start when a cluster is registered/connected". `Start` is tried once, when the server starts, and
  a failure is final: a kubeconfig that appears later makes the cluster reachable (the probe tries again), and the lists stay empty.
- docs/specs/cluster-resilience.md:72, "when the cluster disconnects, users see stale data"; snapshot.go:16, "so that the dashboard can show stale-but-useful
  data on restart". The handlers answer 503 as long as the last probe failed, whatever the cache holds; a snapshot is seen only between the first probe and the
  first events. But a list of a kind of which there is nothing any more is not replaced by any event, and the snapshot's stays: this is the exception in `ListIsRight`.
- informers.go:18, "re-lists all resources from the API server". A resync repeats what is in the store and asks nothing of the cluster. It is what
  makes metrics right that were set in the wrong order.
- router.go:78, "The route table is persisted to disk after every mutation". `persist` runs outside the lock of the map: of two
  overlapping calls the one that copied first may write last. `RestartRestores` says what does hold, of changes that overlap no other.

Other things to know, which no sentence of the documents denies: a running row is not recovered after its operator was
killed; when the operator is told to stop, the undo runs with the cancelled context, and the row of `deploys` says
"rolled_back" with everything still in place; a rollback of a first deployment "succeeds", since the snapshot of an empty
namespace is not empty, and changes nothing; `created_at` counts seconds, so that the order of two rows of
one second is the database's choice (the models take the order of insertion); a route without a rate
limit (router.go:84) is limited to 100 requests per second after a restart.

### The dashboard

What the modules of the dashboard do as the code does, and a reader might not expect. The properties excuse these, by name, and hold of the rest.

*Watching.* The server sends the new part of a log as one event of several lines, and the page takes the first: later ones, the address
of the app among them, are seen only by a poll (`docs/specs/deploy-polish.md` promises the address). `DeployProgress` polls whether or not the stream
works, and opens the stream again after its end. The terminal shows an ended build as running again when its socket opens
(`docs/specs/release-decomposed/frontend/deploy-terminal.md`).

*Ordering.* An imported recipe cannot pass step 2 before a slice is added (AC-5.2 of `docs/specs/pizza-simplicity.md`); "Edit Order" mounts a new wizard
and loses the old one's state (AC-4.7); an order that was left while its preview was under way, or ordered twice, is placed twice; one whose answer was lost
may have been placed. A burned order without a deployment shows an empty wizard. The buttons of a slice use its place in a list that leaves slices out. Renaming a slice
leaves the needs of others behind, and a reserved name gets the suffix `-svc` where needs do not. An app added, or a framework completed, after
another choice joins it (`crossed`). The target chosen is not sent (always "local"); `access_url` is never shown by `DeployWizard`; variables of a
template are kept for the next one.

*Importing.* Warnings dismissed for one compose file hide those of the next; the marketplace's "Retry" asks nothing (RecipeCatalog:246), and "Clear filters" leaves a pending
search pending; `RecipeDetail` sends the user to `?marketplace=<id>`, which nothing reads; "Next" of the framework wizard works while a recipe is being generated, and the fallback
recipe ignores the answers; looking for a prebuilt image replaces an edited recipe.

*Drawing.* The builder can be saved before its recipe is loaded, and a late load replaces the drawing; two blocks of a kind have the
same name in the source.

*Cluster pages.* Success is called "success" here and "succeeded" or "completed" there: the success rate stays 0, the colours of the overview never match. The list of deployments for a promotion is asked
for with an empty team, which the server refuses (deploy_handlers.go:391), so that promoting is never offered. Cancelling a running deployment only deletes its row. `StatusPage` says "No containers running"
below an error, `ClustersPage` "No clusters registered" after a failed load, `MonitoringPage` shows no data while it tries again. Some pages count pods, others copies; some those that
run, others those that are ready, so that they contradict each other while an app starts. The overview loads twice when it is opened. Two overlapping deletions bring a row back, in the list of
clusters and in that of recipes.

*Session.* Deleting a team leaves it the active one; handlers reload the list of the team that was active when they were made; the answer to an early `getMe` can sign out somebody who has just
signed in.

## 6. What is not modelled

- Inside the modelled parts: which label, field or manifest an object has; log output and progress; the preview of a
  deploy and all listings (they only read); `Connect` and `Disconnect` of repositories; the deadline of a claim's
  HTTP client. A CRD, a missing secret and a namespace that cannot be made are one failing step, `PrepareFails`.
- Several applications or environments at once: their rows and objects do not meet, except in the cases where two
  names of a namespace coincide.
- `CleanupOldSnapshots`, which nothing calls. Of the cluster cache: `SetError` and a second `Start` after `Stop`, which have no callers;
  `CleanupOldClusterSnapshots` (that the table is empty after it is one of the outcomes of `LoadSnapshot`); `/cluster/status`; the unlocked cache of the client in `kubeClient` (server/kube.go), where
  two goroutines may each make one.
- The components of section 1 that have no module yet (next section), and those that are translations of text or data
  (recipe language, manifests, detection, templates) or thin wiring (CLI, middleware, configuration, encryption).
- In the dashboard: the landing page and the UI kit; views that no page mounts (`GuidedWizard`, `TemplateConfig` and the steps they alone use; unused hooks); layout, wording, copying, animation,
  filters of lists that are computed from what is shown; statistics of the deployments; the random estimates of CPU and memory in `AppHealth`; promotion, whose button no state
  enables. Several tabs of one browser: they share the session only, which `Console` lets expire at any time.

## 7. Plan

In this order; items 1 to 6 are done.

1. `BuildQueue`, refining `BuildPool`, and its half of `RowsProofs`.
2. `K8sDeployer`, `K8sDeployerProofs`.
3. `Deployments`, refining `RowLife`, and its half of `RowsProofs`.
4. `Routing`, `RoutingProofs`.
5. The dashboard: `JobWatch`, `DeployWatch`, `BuildTerminal` and `Watches` with `WatchesProofs`; `OrderWizard` with `OrderWizardProofs`; `Views` with the three modules of its pages, `Pages` and `PagesProofs`; `Console` and `ConsoleProofs`.
6. `ClusterCache`, `ClusterCacheProofs`.
7. `Previews`, which composes with `Routing`: create, touch, clean, the count before the INSERT. Properties: the limit of
   previews, a row has its route and a route its row.
8. `Monitor`: the ring buffer of `timeseries.go` against a reference definition over sequences, and the
   life cycle of the checkers.
9. `Accounts`: first administrator, sessions. `StateFile`: lost updates of `state.go`.
10. `PlanGraph`: the cycle test of `plan/validate.go` against reachability, over all small graphs (recursive functions, TLC only).
11. Abstract specifications: `BuildPool`, refined by `BuildQueue`, and `RowLife`, refined by `Deployments`, are done. Left: `Deploy` as `Deployments` assumes it (`DeployEnds`), refined by `K8sDeployer`.
