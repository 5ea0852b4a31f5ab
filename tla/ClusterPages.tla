---------------------------- MODULE ClusterPages ----------------------------
(***************************************************************************)
(* The pages that show a cluster (ui/src/pages): StatusPage, DoctorPage,   *)
(* ApplicationsPage, ApplicationDetailPage, EnvironmentsPage,              *)
(* MonitoringPage and OverviewPage, the banner of ClusterContext, and the  *)
(* list of the clusters, ClustersPage.                                     *)
(*                                                                         *)
(* A page asks several endpoints at once and goes on when all have         *)
(* answered: here one request, "load", that reads the world when it is     *)
(* made.  Promoting (EnvironmentsPage) is left out: its button needs a     *)
(* deployment of a list that the server always refuses.                    *)
(***************************************************************************)
EXTENDS Views

-----------------------------------------------------------------------------
(* The pages, as they are mounted *)

StatusPage      == Mount("StatusPage", {"load"}, {}, [on |-> TRUE])
ClusterProvider == Mount("ClusterProvider", {"load"}, {}, [on |-> TRUE])
DoctorPage      == Mount("DoctorPage", {"load"}, {}, [notConfigured |-> FALSE])
Applications    == Mount("ApplicationsPage", {"load"}, {}, [hasCluster |-> "unknown"])

(* reachable: what ClusterContext says, or nothing yet. *)
Environments == Mount("EnvironmentsPage", {"load"}, {}, [reachable |-> TRUE])

(* The selection is the active team; recent, the one whose deployments the page
   has. *)
Overview == Mount("OverviewPage", {"load"}, {},
                  [hasCluster |-> "unknown", recent |-> Nothing])

Application     == Mount("ApplicationDetailPage", {"load"}, {"logs", "restart"}, [tab |-> "overview"])

(* visible: the browser's tab; timer: the refresh of every 30 s is set. *)
Monitoring == Mount("MonitoringPage", {"load"}, {"refresh", "series"},
                    [visible |-> TRUE, timer |-> TRUE])

ClusterViews == {StatusPage, ClusterProvider, DoctorPage, Environments, Applications,
                 Overview, Application, Monitoring}

ClusterKinds == {m.view.kind : m \in ClusterViews}

Reachable(c) == c.seen.cluster = "up"

-----------------------------------------------------------------------------
(* StatusPage, DoctorPage, EnvironmentsPage and ClusterProvider *)

(* A button waits for the answer, the timers of StatusPage (30 s) and of
   ClusterProvider (15 s) do not. *)
StatusFetch ==
    /\ view.kind = "StatusPage"
    /\ Asks("load", Nothing)
    /\ view' = Spinning(view, "load")

StatusAnswered(i) ==
    /\ view.kind = "StatusPage"
    /\ \/ Answered("load", i) /\ Reachable(calls[i]) /\ view' = Got(view, "load", calls[i])
       \/ Answered("load", i) /\ ~Reachable(calls[i]) /\ view' = Failing(view, "load")
       \/ Lost("load", i) /\ view' = Failing(view, "load")

ClusterFetch ==
    /\ view.kind = "ClusterProvider"
    /\ Asks("load", Nothing)
    /\ UNCHANGED view

(* Whatever goes wrong is a status of its own, that of an unreachable cluster. *)
ClusterAnswered(i) ==
    /\ view.kind = "ClusterProvider"
    /\ \/ Answered("load", i) /\ view' = Got(view, "load", calls[i])
       \/ Lost("load", i) /\ view' = Got(view, "load", [calls[i] EXCEPT !.seen = Nowhere])

EnvironmentsRefresh ==
    /\ view.kind = "EnvironmentsPage" /\ "load" \notin view.spins /\ view.more.reachable
    /\ Asks("load", Nothing)
    /\ view' = Spinning(view, "load")

EnvironmentsAnswered(i) ==
    /\ view.kind = "EnvironmentsPage"
    /\ \/ Answered("load", i) /\ Reachable(calls[i]) /\ view' = Got(view, "load", calls[i])
       \/ Answered("load", i) /\ ~Reachable(calls[i]) /\ view' = Failing(view, "load")
       \/ Lost("load", i) /\ view' = Failing(view, "load")

(* The status of the cluster that ClusterContext keeps, whatever the page knows. *)
ContextTells ==
    /\ view.kind = "EnvironmentsPage"
    /\ view' = [view EXCEPT !.more.reachable = ~@]
    /\ Locally

RunDoctor ==
    /\ view.kind = "DoctorPage" /\ "load" \notin view.spins
    /\ Asks("load", Nothing)
    /\ view' = [Spinning(view, "load") EXCEPT !.more.notConfigured = FALSE]

(* Without a cluster the server has no doctor: 503.  An older report stays. *)
DoctorAnswered(i) ==
    /\ view.kind = "DoctorPage"
    /\ \/ /\ Answered("load", i) /\ calls[i].seen.cluster # "absent"
          /\ view' = Got(view, "load", calls[i])
       \/ /\ Answered("load", i) /\ calls[i].seen.cluster = "absent"
          /\ view' = [view EXCEPT !.spins = {}, !.more.notConfigured = TRUE]
       \/ Lost("load", i) /\ view' = Failing(view, "load")

-----------------------------------------------------------------------------
(* ApplicationsPage and OverviewPage: the list of clusters, then the cluster *)

(* Without a cluster the other requests are not made. *)
ApplicationsAnswered(i) ==
    /\ view.kind = "ApplicationsPage"
    /\ \/ /\ Answered("load", i) /\ calls[i].seen.cluster = "absent"
          /\ view' = [view EXCEPT !.spins = {}, !.more.hasCluster = "no"]
       \/ /\ Answered("load", i) /\ Reachable(calls[i])
          /\ view' = [Got(view, "load", calls[i]) EXCEPT !.more.hasCluster = "yes"]
       \/ /\ Answered("load", i) /\ calls[i].seen.cluster = "unreachable"
          /\ view' = [Failing(view, "load") EXCEPT !.more.hasCluster = "yes"]
       \/ Lost("load", i) /\ view' = Failing(view, "load")

ApplicationsRetry ==
    /\ view.kind = "ApplicationsPage" /\ "load" \notin view.spins /\ view.errors # {}
    /\ Asks("load", Nothing)
    /\ view' = Spinning(view, "load")

\* Bug: the page is loaded once, for the team that was active then.
LoadedForOne(team) == FALSE

(* fetchData is made anew, and runs, whenever the active team is another one. *)
FetchEffect(team) == team # view.sel

(* The page is mounted before the teams are known: often it is loaded twice. *)
TeamChanges(team) ==
    /\ view.kind = "OverviewPage" /\ team # view.sel
    /\ IF FetchEffect(team)
         THEN /\ Asks("load", team)
              /\ view' = [Spinning(view, "load") EXCEPT !.sel = team]
         ELSE /\ view' = [view EXCEPT !.sel = team]
              /\ Locally

(* The deployments of the team; none, when they cannot be listed. *)
Recents(team) == {Nothing, team}

OverviewAnswered(i) ==
    /\ view.kind = "OverviewPage"
    /\ \/ /\ Answered("load", i) /\ calls[i].seen.cluster = "absent"
          /\ \E t \in IF calls[i].arg = Nothing THEN {view.more.recent} ELSE Recents(calls[i].arg) :
                view' = [view EXCEPT !.spins = {}, !.more.hasCluster = "no", !.more.recent = t]
       \/ /\ Answered("load", i) /\ Reachable(calls[i])
          /\ \E t \in Recents(calls[i].arg) :
                view' = [Got(view, "load", [calls[i] EXCEPT !.arg = Nothing])
                           EXCEPT !.more.hasCluster = "yes", !.more.recent = t]
       \/ /\ Answered("load", i) /\ calls[i].seen.cluster = "unreachable"
          /\ view' = [Failing(view, "load") EXCEPT !.more.hasCluster = "yes"]
       \/ Lost("load", i) /\ view' = Failing(view, "load")

-----------------------------------------------------------------------------
(* ApplicationDetailPage.  The selection is the pod whose log is shown. *)

HasPods(c) == c.seen.pods > 0

\* Bug: the log of the tab is loaded once, whichever pod is selected later.
LogsOnce(tab, pod) == tab = "logs" /\ pod # Nothing /\ view.got["logs"] = None

(* The effect on the tab and the selected pod. *)
LogsEffect(tab, pod) == tab = "logs" /\ pod # Nothing

(* The first pod is selected when there is none selected. *)
ApplicationAnswered(i) ==
    /\ view.kind = "ApplicationDetailPage"
    /\ \/ \E p \in Items :
             /\ i \in DOMAIN calls /\ Reachable(calls[i])
             /\ HasPods(calls[i]) /\ view.sel = Nothing
             /\ IF LogsEffect(view.more.tab, p)
                  THEN /\ ReturnsAsking("load", i, Request("logs", p))
                       /\ view' = Spinning([Got(view, "load", calls[i]) EXCEPT !.sel = p], "logs")
                  ELSE /\ Answered("load", i)
                       /\ view' = [Got(view, "load", calls[i]) EXCEPT !.sel = p]
       \/ /\ Answered("load", i) /\ Reachable(calls[i])
          /\ ~HasPods(calls[i]) \/ view.sel # Nothing
          /\ view' = Got(view, "load", calls[i])
       \/ Answered("load", i) /\ ~Reachable(calls[i]) /\ view' = Failing(view, "load")
       \/ Lost("load", i) /\ view' = Failing(view, "load")

ApplicationIsShown == "load" \notin view.spins \cup view.errors /\ view.got["load"] # None

(* Of another pod, or of another tab: the effect runs when either changes. *)
OpenTab(t) ==
    /\ view.kind = "ApplicationDetailPage" /\ ApplicationIsShown
    /\ t # view.more.tab
    /\ IF LogsEffect(t, view.sel)
         THEN /\ Requests("logs", view.sel)
              /\ view' = Spinning([view EXCEPT !.more.tab = t], "logs")
         ELSE /\ view' = [view EXCEPT !.more.tab = t]
              /\ Locally

SelectPod(p) ==
    /\ view.kind = "ApplicationDetailPage" /\ ApplicationIsShown
    /\ view.more.tab = "logs" /\ view.sel \notin {Nothing, p}
    /\ IF LogsEffect("logs", p)
         THEN /\ Requests("logs", p)
              /\ view' = Spinning([view EXCEPT !.sel = p], "logs")
         ELSE /\ view' = [view EXCEPT !.sel = p]
              /\ Locally

RefreshLogs ==
    /\ view.kind = "ApplicationDetailPage" /\ ApplicationIsShown
    /\ view.more.tab = "logs" /\ view.sel # Nothing
    /\ Requests("logs", view.sel)
    /\ view' = Spinning(view, "logs")

LogsAnswered(i) ==
    /\ view.kind = "ApplicationDetailPage"
    /\ \/ Answered("logs", i) /\ view' = Got(view, "logs", calls[i])
       \/ /\ Lost("logs", i)
          /\ view' = Got(Failing(view, "logs"), "logs", None)

Restart ==
    /\ view.kind = "ApplicationDetailPage" /\ ApplicationIsShown
    /\ Requests("restart", Nothing)
    /\ UNCHANGED view

(* Done or not, the page is loaded again 1.5 s later. *)
RestartAnswered(i) ==
    /\ view.kind = "ApplicationDetailPage"
    /\ ReturnsAsking("restart", i, Call("load", Nothing))
    /\ view' = Spinning(view, "load")

-----------------------------------------------------------------------------
(* MonitoringPage.  The selection is the app, and the period, that is drawn. *)

MonitoringRetry ==
    /\ view.kind = "MonitoringPage" /\ view.errors # {} /\ view.got["load"] = None
    /\ Asks("load", Nothing)
    /\ view' = [view EXCEPT !.spins = @ \cup {"load"}, !.errors = {}]

RefreshNow ==
    /\ Asks("refresh", Nothing)
    /\ view' = [view EXCEPT !.spins = @ \cup {"refresh"}, !.errors = {}]

(* By the timer, or by a button that waits for the answer. *)
Refresh ==
    /\ view.kind = "MonitoringPage" /\ view.more.visible /\ view.more.timer
    /\ RefreshNow

Hide ==
    /\ view.kind = "MonitoringPage" /\ view.more.visible
    /\ view' = [view EXCEPT !.more = [visible |-> FALSE, timer |-> FALSE]]
    /\ Locally

\* Bug: the timer that was cleared is not set again.
ShowOnce ==
    /\ view.kind = "MonitoringPage" /\ ~view.more.visible
    /\ Asks("refresh", Nothing)
    /\ view' = [view EXCEPT !.more.visible = TRUE, !.spins = @ \cup {"refresh"}, !.errors = {}]

Show ==
    /\ view.kind = "MonitoringPage" /\ ~view.more.visible
    /\ Asks("refresh", Nothing)
    /\ view' = [view EXCEPT !.more = [visible |-> TRUE, timer |-> TRUE],
                            !.spins = @ \cup {"refresh"}, !.errors = {}]

(* Either answer ends both spinners. *)
MonitoringAnswered(r, i) ==
    /\ view.kind = "MonitoringPage"
    /\ LET quiet == [view EXCEPT !.spins = {}]
       IN  \/ Answered(r, i) /\ Reachable(calls[i]) /\ view' = Got(quiet, "load", calls[i])
           \/ Answered(r, i) /\ ~Reachable(calls[i]) /\ view' = Failing(quiet, "load")
           \/ Lost(r, i) /\ view' = Failing(quiet, "load")

\* Bug: the answers to the effect before are not ignored.
KeepsSeries(r) == calls

(* The cleanup of an effect: the request it has made is answered to nobody. *)
Cancelling(r) ==
    IF Due(r) THEN RemoveAt(calls, CHOOSE i \in DOMAIN calls : calls[i].of = r) ELSE calls

(* Selecting the app that is selected closes its charts. *)
SelectApp(a) ==
    /\ view.kind = "MonitoringPage" /\ view.got["load"] # None /\ view.spins = {}
    /\ IF a = view.sel
         THEN /\ calls' = Cancelling("series")
              /\ view' = [view EXCEPT !.sel = Nothing, !.got["series"] = None]
         ELSE /\ Len(calls) < MaxCalls
              /\ calls' = Append(Cancelling("series"), Request("series", a))
              /\ view' = [view EXCEPT !.sel = a]
    /\ UNCHANGED <<world, faults, overtaken>>

SeriesAnswered(i) ==
    /\ view.kind = "MonitoringPage"
    /\ \/ Answered("series", i) /\ view' = Got(view, "series", calls[i])
       \/ Lost("series", i) /\ view' = Got(view, "series", None)

-----------------------------------------------------------------------------
(* ClustersPage, opened with an active team.  registered, the clusters the server
   has; listed, those the page has; the selection is the one of which the user is
   asked whether to delete it.  mixed: something was under way when the page was
   used, or has failed since the list was asked for. *)

Registry == Mount("ClustersPage", {"clusters"}, {},
                  [registered |-> {CHOOSE c \in Items : TRUE}, listed |-> {},
                   form |-> FALSE, mixed |-> FALSE])

RegistryIsShown == view.kind = "ClustersPage" /\ "clusters" \notin view.spins

ClustersListed(i) ==
    /\ view.kind = "ClustersPage"
    /\ \/ /\ Answered("clusters", i)
          /\ view' = [view EXCEPT !.spins = @ \ {"clusters"}, !.more.listed = view.more.registered]
       \/ /\ Lost("clusters", i)
          /\ view' = [Failing(view, "clusters") EXCEPT !.more.mixed = TRUE]

(* The form can be closed while it waits. *)
ToggleForm ==
    /\ view.kind = "ClustersPage"
    /\ view' = [view EXCEPT !.more.form = ~@]
    /\ Locally

HandleCreate(c) ==
    /\ view.kind = "ClustersPage" /\ view.more.form /\ "register" \notin view.spins
    /\ c \notin view.more.registered
    /\ Requests("register", c)
    /\ view' = [Spinning(view, "register") EXCEPT !.more.mixed = @ \/ calls # <<>>]

\* Bug: the list is not asked for again.
CreatedUnseen(i) ==
    /\ view.kind = "ClustersPage" /\ Answered("register", i)
    /\ view' = [view EXCEPT !.spins = @ \ {"register"},
                            !.more.registered = @ \cup {calls[i].arg}, !.more.form = FALSE]

(* Registered, and the list asked for again; or not, as far as is known. *)
Created(i) ==
    /\ view.kind = "ClustersPage"
    /\ \/ /\ ReturnsAsking("register", i, Request("clusters", Nothing))
          /\ view' = [view EXCEPT !.spins = (@ \ {"register"}) \cup {"clusters"},
                                  !.more.registered = @ \cup {calls[i].arg},
                                  !.more.form = FALSE]
       \/ /\ Lost("register", i)
          /\ \E done \in {{}, {calls[i].arg}} :
                view' = [Failing(view, "register") EXCEPT !.more.registered = @ \cup done,
                                                         !.more.mixed = TRUE]

ConfirmDelete(c) ==
    /\ RegistryIsShown /\ c \in view.more.listed \cup {Nothing}
    /\ view' = [view EXCEPT !.sel = c]
    /\ Locally

(* The handler has closed over the list; nothing is disabled while it waits. *)
HandleDelete ==
    /\ RegistryIsShown /\ view.sel \in view.more.listed
    /\ Requests("unregister", [row |-> view.sel, others |-> view.more.listed \ {view.sel}])
    /\ view' = [view EXCEPT !.more.mixed = @ \/ calls # <<>>]

(* Deleting what is gone is an error. *)
Deleted(i) ==
    /\ view.kind = "ClustersPage" /\ i \in DOMAIN calls /\ calls[i].of = "unregister"
    /\ LET row == calls[i].arg.row IN
       \/ /\ row \in view.more.registered
          /\ Answered("unregister", i)
          /\ view' = [view EXCEPT !.sel = Nothing, !.more.registered = @ \ {row},
                                  !.more.listed = calls[i].arg.others]
       \/ /\ row \notin view.more.registered
          /\ Answered("unregister", i)
          /\ view' = [view EXCEPT !.more.mixed = TRUE]
       \/ /\ Lost("unregister", i)
          /\ \E done \in {{}, {row}} :
                view' = [view EXCEPT !.more.registered = @ \ done, !.more.mixed = TRUE]

RegistryShows ==
    IF "clusters" \in view.spins THEN "skeletons"
    ELSE IF view.more.listed # {} THEN "clusters"
    ELSE IF view.more.form THEN "form" ELSE "no clusters"

-----------------------------------------------------------------------------
(* What the pages show of an app, of which r of n copies are ready *)

\* Bug: an app of which some copies are ready is healthy.
AnyReady(r, n) == IF r = 0 THEN "failing" ELSE "healthy"

(* deriveStatus of the list and of the page of an application *)
DeriveStatus(r, n) ==
    IF n = 0 THEN "failing" ELSE IF r = n THEN "healthy" ELSE IF r = 0 THEN "failing" ELSE "degraded"

(* The pods there are are counted, or where there is none the copies desired. *)
Copies(s) == IF s.pods > 0 THEN s.pods ELSE s.desired

AppStatus(s) == DeriveStatus(s.ready, Copies(s))

(* A bar for every copy, and an empty one when there is none. *)
AppCard(s) == [status |-> AppStatus(s), bars |-> Copies(s), full |-> s.ready]

OverviewBadge(r, d) == IF r = d /\ d > 0 THEN "healthy" ELSE "degraded"
OverviewDot(r, d)   == IF OverviewBadge(r, d) = "healthy" THEN "success"
                       ELSE IF r > 0 THEN "warning" ELSE "error"

(* Here a copy counts when it is running, ready or not. *)
EnvironmentBadge(r, n) == IF r = n /\ n > 0 THEN "healthy" ELSE IF n = 0 THEN "empty" ELSE "degraded"

(* deriveHealthStatus, of few pods: of more the load is made up of their number and
   of chance, and one that is high makes an app degraded. *)
MonitoringHealth(r, n) ==
    IF n = 0 THEN "unknown" ELSE IF r = 0 THEN "down" ELSE IF r < n THEN "degraded" ELSE "healthy"

(* groupPodsByApp counts the pods that are running. *)
GroupPods(s) == [running |-> s.running, total |-> s.pods]

MonitoringCard(g) == [health |-> MonitoringHealth(g.running, g.total), of |-> g]

-----------------------------------------------------------------------------
(* What the pages show: a definition for each alternative that has a view of its
   own, and which of them is drawn, in the order in which the page decides *)

Known == view.got["load"] # None
Seen  == view.got["load"].seen
Loads == "load" \in view.spins

(* StatusPage.  Where there are containers they stay while the page loads. *)
StatusIsEmpty == ~Known \/ Seen.pods = 0

StatusShows ==
    CASE ~StatusIsEmpty          -> "containers"
      [] StatusIsEmpty /\ Loads  -> "skeletons"
      [] StatusIsEmpty /\ ~Loads -> "no containers"

BannerShows == IF ~Known \/ Seen.cluster # "up" THEN "nothing" ELSE "stale or nothing"

(* DoctorPage: findings stay under an error; in a cluster that runs nothing there
   is nothing to find. *)
DoctorFinds == Known /\ Seen.desired > 0

DoctorShows ==
    IF Loads THEN "skeletons"
    ELSE IF view.more.notConfigured THEN "not configured"
    ELSE IF DoctorFinds THEN "findings"
    ELSE IF view.errors = {} THEN "all checks passed" ELSE "error"

(* ApplicationsPage *)
ApplicationsUnconnected == view.more.hasCluster = "no"

ApplicationsFails == view.errors # {}

NoApplications == Seen.desired = 0

ApplicationsShows ==
    IF Loads THEN "loading"
    ELSE IF ApplicationsUnconnected THEN "no cluster"
    ELSE IF ApplicationsFails THEN "not connected"
    ELSE IF NoApplications THEN "no applications" ELSE AppCard(Seen).status

(* OverviewPage.  Without a cluster it welcomes; with one that cannot be reached it
   offers to deploy, and unless ClusterContext says the same, to retry.  The context
   is taken to be up to date here. *)
Welcomes == ~Loads /\ view.more.hasCluster = "no"

NotReachable == world.cluster # "up" /\ ~Loads /\ view.errors # {}

OverviewFails == view.errors # {}

OverviewChecks == Loads

OverviewShows ==
    IF Welcomes THEN "welcome"
    ELSE IF NotReachable THEN "ready to deploy"
    ELSE IF OverviewFails THEN "ready to deploy, or to retry"
    ELSE IF OverviewChecks THEN "checking"
    ELSE IF Seen.desired = 0 THEN "no deployments" ELSE OverviewBadge(Seen.ready, Seen.desired)

RecentsAreShown == Welcomes \/ OverviewShows \in {"no deployments", "healthy", "degraded"}

OverviewRetry ==
    /\ view.kind = "OverviewPage" /\ OverviewShows = "ready to deploy, or to retry"
    /\ Asks("load", view.sel)
    /\ view' = Spinning(view, "load")

(* EnvironmentsPage.  Not connected, if the context says so. *)
SetupEnvironments == ~view.more.reachable /\ ~Loads

(* Every cluster that is up has namespaces, if empty ones. *)
NoEnvironments == ~Loads /\ ~Known /\ view.errors = {}

PipelineIsShown == ~Loads /\ Known

EnvironmentsShows ==
    CASE SetupEnvironments -> "setup"
      [] ~SetupEnvironments /\ Loads -> "skeletons"
      [] ~SetupEnvironments /\ NoEnvironments -> "no environments"
      [] ~SetupEnvironments /\ PipelineIsShown -> EnvironmentBadge(Seen.running, Seen.pods)
      [] OTHER -> "error"

(* ApplicationDetailPage *)
ApplicationFails == "load" \in view.errors \/ ~Known

LogsShow ==
    IF Seen.pods = 0 THEN "no pods"
    ELSE IF "logs" \in view.spins THEN "loading logs"
    ELSE IF "logs" \in view.errors THEN "logs error" ELSE "logs"

ApplicationShows ==
    IF Loads THEN "loading"
    ELSE IF ApplicationFails THEN "not found"
    ELSE IF view.more.tab = "logs" THEN LogsShow ELSE AppStatus(Seen)

(* MonitoringPage *)
MonitoringIsUnset == view.errors # {} /\ ~Known

AppsAreShown == Seen.pods > 0

(* The charts of the app that is selected, under its card. *)
ChartsAreShown == AppsAreShown /\ view.sel # Nothing /\ view.got["series"] # None

MonitoringShows ==
    IF MonitoringIsUnset THEN "no monitoring data"
    ELSE IF Loads THEN "loading"
    ELSE IF AppsAreShown THEN MonitoringCard(GroupPods(Seen)).health ELSE "no data of apps"

-----------------------------------------------------------------------------

ClusterAsks ==
    \/ StatusFetch \/ ClusterFetch \/ EnvironmentsRefresh \/ RunDoctor
    \/ ApplicationsRetry \/ OverviewRetry \/ ContextTells
    \/ \E t \in Items : TeamChanges(t)
    \/ \E t \in {"overview", "logs"} : OpenTab(t)
    \/ \E p \in Items : SelectPod(p) \/ SelectApp(p)
    \/ RefreshLogs \/ Restart
    \/ MonitoringRetry \/ Refresh \/ Hide \/ Show
    \/ ToggleForm \/ HandleDelete
    \/ \E c \in Items : HandleCreate(c)
    \/ \E c \in Items \cup {Nothing} : ConfirmDelete(c)

ClusterReply(i) ==
    \/ StatusAnswered(i) \/ ClusterAnswered(i) \/ EnvironmentsAnswered(i)
    \/ DoctorAnswered(i) \/ ApplicationsAnswered(i) \/ OverviewAnswered(i)
    \/ ApplicationAnswered(i)
    \/ LogsAnswered(i) \/ RestartAnswered(i)
    \/ \E r \in {"load", "refresh"} : MonitoringAnswered(r, i)
    \/ SeriesAnswered(i)
    \/ ClustersListed(i) \/ Created(i) \/ Deleted(i)

ClusterRequests == {"load", "logs", "restart", "refresh", "series",
                    "clusters", "register", "unregister"}

ClusterNext ==
    \/ view.kind \in ClusterKinds /\ WorldChanges
    \/ ClusterAsks
    \/ \E i \in DOMAIN calls : ClusterReply(i)

(* The timers of the pages that poll. *)
Timers == WF_vars(StatusFetch) /\ WF_vars(ClusterFetch) /\ WF_vars(Refresh)

=============================================================================
