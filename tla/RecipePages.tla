---------------------------- MODULE RecipePages ----------------------------
(***************************************************************************)
(* The pages where a recipe is drawn and ordered: RecipeBuilderPage with   *)
(* its canvas (ui/src/components/builder), and DeployWizard                *)
(* (ui/src/components/deploy), which places the order that OrderWizard     *)
(* takes and follows it with DeployProgress.                               *)
(***************************************************************************)
EXTENDS Views

CONSTANT MaxOrders  \* bound: deployments one wizard starts

ASSUME MaxOrdersAssumption == MaxOrders \in Nat \ {0}

-----------------------------------------------------------------------------
(* RecipeBuilderPage.  A canvas is the blocks on it and the connections, from a
   block to one it needs.  The selection is the selected block; stored is the
   canvas the server has, sent the one last saved. *)

Empty == [blocks |-> {}, links |-> {}]

Builder == Mount("RecipeBuilderPage", {"recipe"}, {},
                 [canvas |-> Empty, sent |-> Empty, stored |-> [blocks |-> Items, links |-> {}]])

(* A recipe that cannot be loaded is left; a late one replaces what was drawn. *)
RecipeLoaded(i) ==
    /\ view.kind = "RecipeBuilderPage"
    /\ \/ /\ Answered("recipe", i)
          /\ view' = [view EXCEPT !.spins = @ \ {"recipe"}, !.more.canvas = view.more.stored]
       \/ /\ i \in DOMAIN calls /\ calls[i].of = "recipe" /\ faults < MaxFaults
          /\ view' = Elsewhere.view /\ calls' = <<>> /\ overtaken' = FALSE
          /\ faults' = faults + 1
          /\ UNCHANGED world

DropBlock(b) ==
    /\ view.kind = "RecipeBuilderPage" /\ b \notin view.more.canvas.blocks
    /\ view' = [view EXCEPT !.sel = b, !.more.canvas.blocks = @ \cup {b}]
    /\ Locally

SelectBlock(b) ==
    /\ view.kind = "RecipeBuilderPage" /\ b \in view.more.canvas.blocks \cup {Nothing}
    /\ b # view.sel
    /\ view' = [view EXCEPT !.sel = b]
    /\ Locally

(* The property panel shows the selected block, if it is on the canvas. *)
PanelIsShown == view.kind = "RecipeBuilderPage" /\ view.sel \in view.more.canvas.blocks

\* Bug: what needs the block goes on needing it.
RemoveNeeded ==
    /\ PanelIsShown
    /\ view' = [view EXCEPT !.sel = Nothing,
                  !.more.canvas = [blocks |-> @.blocks \ {view.sel},
                                   links  |-> {l \in @.links : l[1] # view.sel}]]
    /\ Locally

RemoveBlock ==
    /\ PanelIsShown
    /\ view' = [view EXCEPT !.sel = Nothing,
                  !.more.canvas = [blocks |-> @.blocks \ {view.sel},
                                   links  |-> {l \in @.links : view.sel \notin {l[1], l[2]}}]]
    /\ Locally

Connect(b) ==
    /\ PanelIsShown /\ b \in view.more.canvas.blocks \ {view.sel}
    /\ view' = [view EXCEPT !.more.canvas.links = @ \cup {<<view.sel, b>>}]
    /\ Locally

(* generateSource: the services of a canvas, each with those it needs *)
SourceOf(c) == [b \in c.blocks |-> {l[2] : l \in c.links \cap ({b} \X c.blocks)}]

\* Bug: the button can be pressed while a save is under way.
SaveAgain ==
    /\ view.kind = "RecipeBuilderPage"
    /\ Requests("save", view.more.canvas)
    /\ view' = [Spinning(view, "save") EXCEPT !.more.sent = view.more.canvas]

(* Even before the recipe is loaded. *)
Save ==
    /\ view.kind = "RecipeBuilderPage" /\ "save" \notin view.spins
    /\ Requests("save", view.more.canvas)
    /\ view' = [Spinning(view, "save") EXCEPT !.more.sent = view.more.canvas]

(* A save that is lost may have been stored all the same. *)
Saved(i) ==
    /\ view.kind = "RecipeBuilderPage"
    /\ \/ /\ Answered("save", i)
          /\ view' = [view EXCEPT !.spins = @ \ {"save"}, !.more.stored = calls[i].arg]
       \/ /\ Lost("save", i)
          /\ \E c \in {view.more.stored, calls[i].arg} :
                view' = [Failing(view, "save") EXCEPT !.more.stored = c]

BuilderShows == IF view.more.canvas.blocks = {} THEN "hint" ELSE "canvas"

-----------------------------------------------------------------------------
(* DeployWizard.  The selection is the recipe of the order; preview, the recipe
   the review shows; order, the deployment that is followed (a number, 0 before
   it is known) and told the one whose end DeployProgress has told; fates, what
   became of the deployments.  doubled: an order was placed while another one
   was being previewed or accepted. *)

Wizard == Mount("DeployWizard", {}, {},
                [status |-> "idle", preview |-> Nothing, order |-> 0, told |-> 0,
                 fates |-> <<>>, doubled |-> FALSE])

ReviewIsShown   == view.kind = "DeployWizard" /\ view.more.status = "reviewing" /\ view.more.preview # Nothing
ReviewedOrder   == view.more.preview
ProgressIsShown == view.kind = "DeployWizard" /\ ~ReviewIsShown
                     /\ view.more.order # 0 /\ view.more.status # "idle"
WizardIsShown   == view.kind = "DeployWizard" /\ ~ReviewIsShown /\ ~ProgressIsShown

\* bound
MayOrder == Len(view.more.fates) + Cardinality({i \in DOMAIN calls : calls[i].of = "import"}) < MaxOrders

(* handleWizardComplete.  Nothing stops a second order before the review. *)
PlaceOrder(s) ==
    /\ WizardIsShown /\ MayOrder
    /\ Requests("preview", s)
    /\ view' = [view EXCEPT !.sel = s,
                            !.more.doubled = @ \/ Due("preview") \/ Due("import")]

(* Without a preview the order is executed at once. *)
Previewed(i) ==
    /\ view.kind = "DeployWizard"
    /\ \/ /\ Answered("preview", i)
          /\ view' = [view EXCEPT !.more.preview = calls[i].arg, !.more.told = 0,
                                  !.more.status = "reviewing"]
       \/ /\ MayOrder
          /\ ReturnsAsking("preview", i, Request("import", calls[i].arg))
          /\ view' = [view EXCEPT !.more.status = "cooking"]

ConfirmDeploy ==
    /\ ReviewIsShown /\ MayOrder
    /\ Requests("import", view.sel)
    /\ view' = [view EXCEPT !.more.status = "cooking"]

BackToWizard ==
    /\ ReviewIsShown
    /\ view' = [view EXCEPT !.more.preview = Nothing, !.more.status = "idle"]
    /\ Locally

\* Bug: an order that is refused goes on cooking.
RefusedInSilence(i) ==
    /\ view.kind = "DeployWizard"
    /\ \/ /\ Answered("import", i)
          /\ view' = [view EXCEPT !.more.order = Len(view.more.fates) + 1,
                                  !.more.fates = Append(@, "running")]
       \/ Answered("import", i) /\ UNCHANGED view
       \/ /\ Lost("import", i)
          /\ \E new \in {<<>>, <<"running">>} : view' = [view EXCEPT !.more.fates = @ \o new]

(* The server takes the order or refuses it; when the answer is lost it may
   have taken it. *)
Ordered(i) ==
    /\ view.kind = "DeployWizard"
    /\ \/ /\ Answered("import", i)
          /\ view' = [view EXCEPT !.more.order = Len(view.more.fates) + 1,
                                  !.more.fates = Append(@, "running")]
       \/ /\ Answered("import", i)
          /\ view' = [view EXCEPT !.more.status = "burned"]
       \/ /\ Lost("import", i)
          /\ \E new \in {<<>>, <<"running">>} :
                view' = [view EXCEPT !.more.status = "burned", !.more.fates = @ \o new]

(* On the server: deployment n ends. *)
DeploymentEnds(n) ==
    /\ view.kind = "DeployWizard" /\ n \in DOMAIN view.more.fates
    /\ view.more.fates[n] = "running"
    /\ \E f \in {"succeeded", "failed"} : view' = [view EXCEPT !.more.fates[n] = f]
    /\ Locally

\* Bug: however the deployment ends, it is served.
AnyEndIsServed ==
    /\ ProgressIsShown /\ view.more.told # view.more.order
    /\ view.more.fates[view.more.order] # "running"
    /\ view' = [view EXCEPT !.more.told = view.more.order, !.more.status = "served"]
    /\ Locally

(* DeployProgress tells how its deployment has ended, once. *)
DeployDone ==
    /\ ProgressIsShown /\ view.more.told # view.more.order
    /\ view.more.fates[view.more.order] # "running"
    /\ view' = [view EXCEPT !.more.told = view.more.order,
                  !.more.status = IF view.more.fates[view.more.order] = "succeeded"
                                    THEN "served" ELSE "burned"]
    /\ Locally

TryAgain ==
    /\ ProgressIsShown /\ view.more.status = "burned" /\ MayOrder
    /\ Requests("import", view.sel)
    /\ view' = [view EXCEPT !.more.order = 0, !.more.told = 0, !.more.status = "cooking"]

EditOrder ==
    /\ ProgressIsShown /\ view.more.status = "burned"
    /\ view' = [view EXCEPT !.more.order = 0, !.more.told = 0, !.more.status = "idle"]
    /\ Locally

ResetWizard ==
    /\ ProgressIsShown /\ view.more.status = "served"
    /\ view' = [view EXCEPT !.sel = Nothing, !.more.order = 0, !.more.told = 0,
                            !.more.status = "idle", !.more.preview = Nothing]
    /\ Locally

ViewDeployments == ProgressIsShown /\ view.more.status # "cooking" /\ Mounts(Elsewhere)

(* Creates an empty recipe and opens it, or the list of recipes. *)
AdvancedMode ==
    /\ WizardIsShown
    /\ Requests("advanced", Nothing)
    /\ UNCHANGED view

AdvancedReady(i) ==
    /\ view.kind = "DeployWizard" /\ i \in DOMAIN calls /\ calls[i].of = "advanced"
    /\ Mounts(Elsewhere)

WizardShows ==
    IF ReviewIsShown THEN "review"
    ELSE IF WizardIsShown THEN "wizard" ELSE view.more.status

-----------------------------------------------------------------------------

RecipeViews == {Builder, Wizard}

RecipeAsks ==
    \/ \E b \in Items : DropBlock(b) \/ Connect(b) \/ PlaceOrder(b)
    \/ \E b \in Items \cup {Nothing} : SelectBlock(b)
    \/ RemoveBlock \/ Save
    \/ ConfirmDeploy \/ BackToWizard \/ TryAgain \/ EditOrder \/ ResetWizard
    \/ ViewDeployments \/ AdvancedMode

RecipeReply(i) ==
    RecipeLoaded(i) \/ Saved(i) \/ Previewed(i) \/ Ordered(i) \/ AdvancedReady(i)

RecipeRequests == {"recipe", "save", "preview", "import", "advanced"}

FollowOrder == DeployDone \/ \E n \in 1..MaxOrders : DeploymentEnds(n)

=============================================================================
