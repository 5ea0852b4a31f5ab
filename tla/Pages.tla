------------------------------- MODULE Pages -------------------------------
(***************************************************************************)
(* The views of the dashboard, one of them mounted at a time: the pages    *)
(* that show a cluster, the panes where a recipe is imported or chosen, and*)
(* those where it is drawn and ordered.                                    *)
(***************************************************************************)
EXTENDS ClusterPages, ImportPanes, RecipePages

AllViews == ClusterViews \cup {Registry} \cup ImportViews \cup RecipeViews

(* Only the pages of ClusterPages look at the world. *)
Init ==
    /\ world \in Worlds
    /\ \E m \in AllViews :
          /\ m \in ClusterViews \/ world.ready = 2
          /\ view = m.view
          /\ calls = SetToSeq({Call(r, m.view.sel) : r \in m.first})
    /\ faults = 0 /\ overtaken = FALSE

(* From a page that is not modelled to one that is. *)
Visit == view.kind = "elsewhere" /\ \E m \in AllViews : Mounts(m)

Next ==
    \/ Visit
    \/ ClusterNext
    \/ ImportAsks \/ \E i \in DOMAIN calls : ImportReply(i)
    \/ RecipeAsks \/ \E i \in DOMAIN calls : RecipeReply(i)
    \/ FollowOrder

(* Requests end, with an answer or without, the oldest if no other; timers run,
   deployments end; the user owes nothing. *)
Fairness ==
    /\ Timers
    /\ WF_vars(ClusterReply(1) \/ ImportReply(1) \/ RecipeReply(1))
    /\ \A n \in 1..MaxOrders : WF_vars(DeploymentEnds(n))
    /\ WF_vars(DeployDone)

Spec == Init /\ [][Next]_vars /\ Fairness

-----------------------------------------------------------------------------
(* What the mounted view shows, and when that says to wait *)

Shows ==
    CASE view.kind = "StatusPage"            -> StatusShows
      [] view.kind = "ClusterProvider"       -> BannerShows
      [] view.kind = "DoctorPage"            -> DoctorShows
      [] view.kind = "ApplicationsPage"      -> ApplicationsShows
      [] view.kind = "OverviewPage"          -> OverviewShows
      [] view.kind = "EnvironmentsPage"      -> EnvironmentsShows
      [] view.kind = "ApplicationDetailPage" -> ApplicationShows
      [] view.kind = "MonitoringPage"        -> MonitoringShows
      [] view.kind = "ClustersPage"          -> RegistryShows
      [] view.kind = "ComposeImport"         -> ComposeShows
      [] view.kind = "GitHubImport"          -> GitHubShows
      [] view.kind \in {"TemplateCatalog", "RecipeCatalog"} -> CatalogShows
      [] view.kind = "FrameworkWizard"       -> FrameworkShows
      [] view.kind = "RecipeBuilderPage"     -> BuilderShows
      [] view.kind = "DeployWizard"          -> WizardShows
      [] OTHER                               -> "nothing"

Waiting == {"skeletons", "loading", "checking", "loading logs", "reading", "scanning",
            "generating", "cooking"}

Empties == {"no containers", "all checks passed", "no applications", "no deployments",
            "no environments", "no pods", "no data of apps", "none found"}

-----------------------------------------------------------------------------
(* Properties *)

(* The selection is one the view knows, and steps stay within bounds. *)
TypeOK ==
    /\ world \in Worlds
    /\ faults \in 0..MaxFaults
    /\ overtaken \in BOOLEAN
    /\ Len(calls) <= MaxCalls
    /\ view.spins \cup view.errors \subseteq
          ClusterRequests \cup ImportRequests \cup RecipeRequests
    /\ view.kind = "FrameworkWizard" => view.more.step \in 0..(Questions + MaxCalls)
    /\ view.kind = "DeployWizard" =>
          /\ view.more.status \in {"idle", "reviewing", "cooking", "served", "burned"}
          /\ view.more.order \in 0..Len(view.more.fates)
          /\ Len(view.more.fates) <= MaxOrders

(* A view that spins waits for an answer: it has been asked for, and it has not
   come.  What a page shows while it waits is never left on by a request that
   has ended, and a deployment is cooking until it has ended. *)
SpinnersAreTrue ==
    /\ \A r \in view.spins :
          IF r \in {"load", "refresh"} THEN Due("load") \/ Due("refresh") \/ Due("restart") ELSE Due(r)
    /\ Shows \in Waiting => calls # <<>> \/ (view.kind = "DeployWizard" /\ view.more.order # 0)

(* When nothing is under way and nothing failed, what is shown of a selection,
   the log of a pod, the charts of an app, the recipes of a category, the last
   deployments of the active team, is what was answered about it - unless an older
   answer came after a newer one.  The charts are right even then: the effect
   ignores the answers to the one before. *)
SelectionIsShown ==
    /\ view.kind = "ApplicationDetailPage" /\ view.more.tab = "logs" /\ view.sel # Nothing
         /\ ~Due("logs") /\ "logs" \notin view.errors /\ ~overtaken
       => view.got["logs"].arg = view.sel
    /\ view.kind = "MonitoringPage" /\ ~Due("series") /\ ChartsAreShown
       => view.got["series"].arg = view.sel
    /\ view.kind = "OverviewPage" /\ ~Due("load") /\ RecentsAreShown /\ view.errors = {}
         /\ ~overtaken
       => view.more.recent \in Recents(view.sel)
    /\ view.kind \in {"TemplateCatalog", "RecipeCatalog"}
         /\ ~Due("list") /\ view.errors = {} /\ ~overtaken
       => \/ view.got["list"].arg = view.sel
          \/ view.kind = "RecipeCatalog" /\ view.more.retried

(* A page that says that there is nothing, or nothing wrong, has been told so: what
   could not be asked is never shown as what is not there - not without an error
   beside it.  Two pages do: MonitoringPage, while it tries again, and
   RecipeCatalog, when Retry was pressed, which asks nothing. *)
EmptyIsTold ==
    Shows \in Empties /\ view.errors = {} =>
        \/ "load" \in DOMAIN view.got /\ Known
        \/ view.kind = "MonitoringPage" /\ "refresh" \in view.spins
        \/ view.kind = "RecipeCatalog" /\ view.more.retried

(* The recipe an import offers was made of what was last imported: the text as
   it was then, though it can be edited meanwhile; the address that was last
   scanned, unless a prebuilt image was looked for since the view was opened. *)
RecipeIsOfImport ==
    /\ view.kind = "ComposeImport" /\ view.more.phase \in {"breakdown", "preview"}
       => view.got["parse"].arg = view.more.sent
    /\ view.kind = "GitHubImport" /\ view.more.phase = "results" /\ ~view.more.checked
       => view.got["scan"].arg = view.more.sent

(* The recipe in the preview of the framework wizard was made of the answers as
   they are, or without them when it could not be made, or edited since; and
   there is no step after the preview.  Unless the user was hasty. *)
PreviewIsOfAnswers ==
    view.kind = "FrameworkWizard" /\ ~view.more.hasty =>
        /\ view.more.step <= Questions
        /\ view.more.step = Questions =>
              \/ view.got["generate"].arg = view.sel
              \/ view.got["generate"] \in {Fallback, Edited}

(* Connections are between blocks that are on the canvas, in the recipe that is
   drawn and in the one that is stored; and each is a need in the source that is
   made of it: "needs" names a service there is. *)
ConnectionsExist ==
    view.kind = "RecipeBuilderPage" =>
        \A c \in {view.more.canvas, view.more.stored} :
            /\ c.links \subseteq c.blocks \X c.blocks
            /\ \A l \in c.links : l[2] \in SourceOf(c)[l[1]]

(* The clusters that are listed are those that are registered: after the list was
   loaded, one was registered or one deleted - each when nothing else was under
   way, and with no error: two deletions at once bring a row back. *)
ClustersAreListed ==
    view.kind = "ClustersPage" /\ calls = <<>> /\ ~view.more.mixed
      => view.more.listed = view.more.registered

(* Once a save has been answered, and not with an error, the server has the
   canvas that was last saved. *)
SavedIsStored ==
    view.kind = "RecipeBuilderPage" /\ ~Due("save") /\ "save" \notin view.errors
      /\ view.more.sent # Empty
    => view.more.stored = view.more.sent

(* Of an order that was not placed twice: it is served only when its deployment
   has succeeded; what is reviewed is what will be deployed; and while it is
   cooking there is a deployment, or one is being asked for. *)
OrderIsTrue ==
    view.kind = "DeployWizard" /\ ~view.more.doubled =>
        /\ view.more.status = "served" =>
              view.more.order # 0 /\ view.more.fates[view.more.order] = "succeeded"
        /\ view.more.status = "reviewing" => ReviewedOrder = view.sel
        /\ view.more.status = "cooking" => view.more.order # 0 \/ Due("import")

(* Whatever part of its copies is ready, the pages agree whether the app of the
   cluster is healthy - as long as there is a pod for every copy, or for none, and
   every pod that runs is ready: some pages count pods and others the copies
   desired, and some the pods that run and others those that are ready. *)
HealthAgrees ==
    world.pods \in {0, world.desired} /\ world.running = world.ready =>
        Cardinality({AppStatus(world) = "healthy",
                     OverviewBadge(world.ready, world.desired) = "healthy",
                     OverviewDot(world.ready, world.desired) = "success",
                     EnvironmentBadge(world.running, world.pods) = "healthy",
                     MonitoringCard(GroupPods(world)).health = "healthy"}) = 1

Polls == {"StatusPage", "ClusterProvider", "MonitoringPage"}

Watching == view.kind \in Polls /\ (view.kind = "MonitoringPage" => view.more.visible)

(* A page that polls and stays open ends up showing the cluster as it is, once
   the cluster is up and stays as it is: also after the browser's tab was hidden
   for a while, and after any number of failed requests. *)
CatchesUp ==
    <>[]Watching /\ <>[][FALSE]_world =>
        <>[](Watching /\ world.cluster = "up" => view.got["load"].seen = world)

(* What shows that the user has to wait goes away. *)
SpinnersStop == Shows \in Waiting ~> Shows \notin Waiting

(* Whatever page is open comes to show what there is. *)
PagesSettle == CatchesUp /\ SpinnersStop

(* What a page shows in place of its content is true: that it waits, and that
   there is nothing. *)
PlaceholdersAreTrue == TypeOK /\ SpinnersAreTrue /\ EmptyIsTold

(* What a page shows was asked for what it shows it of: the selection, the import,
   the answers given. *)
ShownIsAsked == SelectionIsShown /\ RecipeIsOfImport /\ PreviewIsOfAnswers

(* What a page shows as stored, the clusters and the recipe that is drawn, is what
   the server has, and makes sense. *)
StoredIsShown == ClustersAreListed /\ SavedIsStored /\ ConnectionsExist

=============================================================================
