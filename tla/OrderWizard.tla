---------------------------- MODULE OrderWizard ----------------------------
(***************************************************************************)
(* The three steps in which an order is put together: OrderWizard (ui/src/ *)
(* components/deploy/OrderWizard.tsx).  Step 1 picks an app of the menu, a *)
(* template or an imported recipe, step 2 builds the slices, step 3 shows  *)
(* the recipe.  What happens to an order that is placed is in Pages.       *)
(*                                                                         *)
(* Actors: the user, and the answers to the requests for the menu, for a   *)
(* new app of it and for the framework of a repository.  The tabs of       *)
(* step 1 are a click away from each other, and are no state here.         *)
(***************************************************************************)
EXTENDS Integers, FiniteSets, SequencesExt

CONSTANTS
    Names,         \* names of apps, templates and slices
    Reserved,      \* those of them a recipe cannot use for a slice
    Menu,          \* those of the apps that are on the menu at first
    ImportedName,  \* "imported-app"
    MaxSlices      \* bound: slices of an order

ASSUME NamesAssumption ==
    /\ Reserved \subseteq Names /\ Menu \subseteq Names
    /\ ImportedName \in Names /\ "" \notin Names
    /\ MaxSlices \in Nat \ {0}

VARIABLES
    aliases,     \* the apps of the menu that the wizard knows of
    creating,    \* name of the app being added to the menu, or ""
    framework,   \* [detections, known, shown]: detectFramework and FrameworkWizard
    choice,      \* [alias, template, imported], each "" when there is none
    step,        \* currentStep
    name,        \* appName
    slices,      \* wizardState.services
    active,      \* wizardState.activeServiceIndex, from 1 on
    recipe,      \* recipeSource at step 3, which no other step reads
    editing,     \* editingRecipe; the edited text is the user's own
    crossed      \* history: a choice was made without dropping the others

remote == <<aliases, creating, framework>>
review == <<recipe, editing>>
cart   == <<slices, active>>
vars   == <<remote, choice, step, name, cart, review, crossed>>

-----------------------------------------------------------------------------

(* createDefaultServiceState.  custom stands for what the toggle of a slice and
   the form below the list set (port, copies, domain, size, health check). *)
Default == [name |-> "", built |-> FALSE, custom |-> FALSE, needs |-> {}]

NoChoice == [alias |-> "", template |-> "", imported |-> ""]
NoRecipe == [kind |-> "none", app |-> "", blocks |-> <<>>]

(* A framework recipe is as imported as any other. *)
Imports == {"repository", "framework"}

NoFramework == [detections |-> 0, known |-> FALSE, shown |-> FALSE]

Init ==
    /\ aliases = {} /\ creating = "" /\ framework = NoFramework
    /\ choice = NoChoice /\ step = 1 /\ name = ""
    /\ slices = <<Default>> /\ active = 1
    /\ recipe = NoRecipe /\ editing = FALSE
    /\ crossed = FALSE

-----------------------------------------------------------------------------
(* The menu *)

(* A list that cannot be loaded stays empty. *)
AliasesLoaded ==
    /\ aliases = {}
    /\ aliases' = Menu
    /\ UNCHANGED <<creating, framework, choice, step, name, cart, review, crossed>>

CreateAlias(n) ==
    /\ step = 1 /\ creating = "" /\ n \notin aliases
    /\ creating' = n
    /\ UNCHANGED <<aliases, framework, choice, step, name, cart, review, crossed>>

(* Of its two requests one adds the app, and the other fetches the list. *)
CreateFails ==
    /\ creating # ""
    /\ creating' = ""
    /\ UNCHANGED <<aliases, framework, choice, step, name, cart, review, crossed>>

(* The new app is selected beside what is selected, at whatever step. *)
AliasCreated ==
    /\ creating # ""
    /\ aliases' = Menu \cup aliases \cup {creating}
    /\ choice' = [choice EXCEPT !.alias = creating]
    /\ name' = creating
    /\ creating' = ""
    /\ crossed' = TRUE
    /\ UNCHANGED <<framework, step, cart, review>>

-----------------------------------------------------------------------------
(* Step 1: pick *)

(* A second click takes the selection back, and leaves the name. *)
AliasSelect(a) ==
    /\ step = 1 /\ a \in aliases
    /\ choice' = [NoChoice EXCEPT !.alias = IF choice.alias = a THEN "" ELSE a]
    /\ name' = a
    /\ UNCHANGED <<remote, step, cart, review, crossed>>

\* Bug: the app that was picked stays picked.
TemplateBeside(t) ==
    /\ step = 1
    /\ choice' = [choice EXCEPT !.template = t]
    /\ name' = t
    /\ UNCHANGED <<remote, step, cart, review, crossed>>

TemplateSelect(t) ==
    /\ step = 1
    /\ choice' = [NoChoice EXCEPT !.template = t]
    /\ name' = t
    /\ UNCHANGED <<remote, step, cart, review, crossed>>

(* The framework is asked for in the background. *)
ImportedRecipe ==
    /\ step = 1 /\ framework.detections = 0
    /\ choice' = [NoChoice EXCEPT !.imported = "repository"]
    /\ name' = ImportedName
    /\ framework' = [framework EXCEPT !.detections = 1]
    /\ UNCHANGED <<aliases, creating, step, cart, review, crossed>>

FrameworkDetected ==
    /\ framework.detections = 1
    /\ \E k \in BOOLEAN : framework' = [framework EXCEPT !.detections = 0, !.known = @ \/ k]
    /\ UNCHANGED <<aliases, creating, choice, step, name, cart, review, crossed>>

(* FrameworkDetect *)
FrameworkIsTold == step = 1 /\ framework.known /\ framework.detections = 0 /\ ~framework.shown

FrameworkContinue ==
    /\ FrameworkIsTold
    /\ framework' = [framework EXCEPT !.shown = TRUE]
    /\ UNCHANGED <<aliases, creating, choice, step, name, cart, review, crossed>>

FrameworkSkip ==
    /\ FrameworkIsTold
    /\ framework' = [framework EXCEPT !.known = FALSE]
    /\ UNCHANGED <<aliases, creating, choice, step, name, cart, review, crossed>>

FrameworkBack ==
    /\ step = 1 /\ framework.known /\ framework.shown
    /\ framework' = [framework EXCEPT !.shown = FALSE]
    /\ UNCHANGED <<aliases, creating, choice, step, name, cart, review, crossed>>

FromFramework == [kind |-> "imported", app |-> "framework", blocks |-> <<>>]

(* Straight to step 3, with what was picked meanwhile still picked. *)
FrameworkComplete(n) ==
    /\ step = 1 /\ framework.known /\ framework.shown
    /\ framework' = [framework EXCEPT !.known = FALSE, !.shown = FALSE]
    /\ choice' = [choice EXCEPT !.imported = "framework"]
    /\ name' = n
    /\ step' = 3
    /\ recipe' = FromFramework
    /\ crossed' = (crossed \/ choice.alias # "" \/ choice.template # "")
    /\ UNCHANGED <<aliases, creating, cart, editing>>

-----------------------------------------------------------------------------
(* Step 2: the slices.  The list shows the slices that have an image; the i of
   a shown slice is its place in what is shown, and is used as its place in
   services. *)

Built == {p \in DOMAIN slices : slices[p].built}

Shown == 1..Cardinality(Built)

(* Where the i-th of the shown slices is. *)
PlaceOf(i) == CHOOSE p \in Built : Cardinality({q \in Built : q <= p}) = i

Building == step = 2 /\ choice.template = ""

SetName(n) ==
    /\ step = 2
    /\ name' = n
    /\ UNCHANGED <<remote, choice, step, cart, review, crossed>>

Activate(i) ==
    /\ Building /\ i \in Shown
    /\ active' = i
    /\ UNCHANGED <<remote, choice, step, name, slices, review, crossed>>

TogglePublic(i) ==
    /\ Building /\ i \in Shown
    /\ slices' = [slices EXCEPT ![i].custom = ~@]
    /\ UNCHANGED <<remote, choice, step, name, active, review, crossed>>

\* Bug: the needs of the other slices are left as they are.
RemoveOnly(i) ==
    /\ Building /\ i \in Shown
    /\ LET left == RemoveAt(slices, i)
       IN  /\ slices' = IF left = <<>> THEN <<Default>> ELSE left
           /\ active' = IF active > Len(slices') THEN Len(slices') ELSE active
    /\ UNCHANGED <<remote, choice, step, name, review, crossed>>

\* Bug: the active slice is not looked at.
RemoveUnderActive(i) ==
    /\ Building /\ i \in Shown
    /\ LET left == [j \in 1..(Len(slices) - 1) |->
                      [RemoveAt(slices, i)[j] EXCEPT !.needs = @ \ {slices[i].name}]]
       IN  slices' = IF left = <<>> THEN <<Default>> ELSE left
    /\ UNCHANGED <<remote, choice, step, name, active, review, crossed>>

RemoveSlice(i) ==
    /\ Building /\ i \in Shown
    /\ LET left == [j \in 1..(Len(slices) - 1) |->
                      [RemoveAt(slices, i)[j] EXCEPT !.needs = @ \ {slices[i].name}]]
       IN  /\ slices' = IF left = <<>> THEN <<Default>> ELSE left
           /\ active' = IF active > Len(slices') THEN Len(slices') ELSE active
    /\ UNCHANGED <<remote, choice, step, name, review, crossed>>

(* Offered for the active slice, with every other slice that has an image. *)
ToggleNeed(i, o) ==
    /\ Building /\ i \in Shown /\ i = active /\ Cardinality(Built) > 1
    /\ o \in DOMAIN slices /\ o # i /\ slices[o].built
    /\ LET n == slices[o].name
       IN  slices' = [slices EXCEPT ![i].needs = IF n \in slices[PlaceOf(i)].needs THEN @ \ {n}
                                                 ELSE @ \cup {n}]
    /\ UNCHANGED <<remote, choice, step, name, active, review, crossed>>

(* Typed or clicked among the results of the scanner. *)
AddSlice(n) ==
    /\ Building /\ Len(slices) < MaxSlices
    /\ slices' = Append(slices, [Default EXCEPT !.name = n, !.built = TRUE])
    /\ active' = Len(slices')
    /\ UNCHANGED <<remote, choice, step, name, review, crossed>>

(* The form below the list is about the first of services. *)
Customize(c) ==
    /\ Building /\ Built # {}
    /\ slices' = [slices EXCEPT ![1].custom = c]
    /\ UNCHANGED <<remote, choice, step, name, active, review, crossed>>

-----------------------------------------------------------------------------
(* buildRecipeSource *)

SliceName(s) == IF s.name # "" THEN s.name ELSE IF name # "" THEN name ELSE "app"

(* The needs keep the name that the slice does not. *)
Block(s) ==
    [name |-> SliceName(s), renamed |-> SliceName(s) \in Reserved,
     built |-> s.built, custom |-> s.custom, needs |-> s.needs]

Generated ==
    [kind |-> "built", app |-> name, blocks |-> [i \in DOMAIN slices |-> Block(slices[i])]]

(* The recipe of a template does not contain the name that was typed. *)
RecipeOf ==
    IF choice.template # "" THEN [kind |-> "template", app |-> choice.template, blocks |-> <<>>]
    ELSE IF choice.imported # ""
           THEN [kind |-> "imported", app |-> choice.imported, blocks |-> <<>>]
           ELSE Generated

-----------------------------------------------------------------------------
(* goNext and goBack *)

\* Bug: an order without any image can be reviewed.
AlwaysNext ==
    IF step = 1 THEN choice # NoChoice ELSE step = 2

CanNext ==
    CASE step = 1 -> choice # NoChoice
      [] step = 2 -> choice.template # "" \/ Built # {}
      [] OTHER    -> FALSE

(* The app becomes the active slice, whatever that was; an imported recipe takes
   the image off the first one. *)
Picked ==
    IF choice.alias # ""
      THEN [slices EXCEPT ![active].name = choice.alias, ![active].built = TRUE]
    ELSE IF choice.template # "" THEN slices
    ELSE [slices EXCEPT ![1].built = FALSE]

NextToSlices ==
    /\ step = 1 /\ CanNext
    /\ slices' = IF active \in DOMAIN slices THEN Picked ELSE slices
    /\ step' = 2
    /\ UNCHANGED <<remote, choice, name, active, review, crossed>>

NextToReview ==
    /\ step = 2 /\ CanNext
    /\ recipe' = RecipeOf
    /\ step' = 3
    /\ UNCHANGED <<remote, choice, name, cart, editing, crossed>>

Back ==
    /\ step > 1
    /\ step' = step - 1
    /\ recipe' = NoRecipe
    /\ UNCHANGED <<remote, choice, name, cart, editing, crossed>>

-----------------------------------------------------------------------------
(* Step 3: the review *)

(* "Edit", or "Reset" while editing. *)
EditOrReset ==
    /\ step = 3
    /\ editing' = ~editing
    /\ UNCHANGED <<remote, choice, step, name, cart, recipe, crossed>>

(* The wizard stays as it is until the order has a preview, and may place it
   again; then it is unmounted, and mounted anew when the order is left. *)
PlaceOrder ==
    /\ step = 3
    /\ aliases' = {} /\ creating' = "" /\ framework' = NoFramework
    /\ choice' = NoChoice /\ step' = 1 /\ name' = ""
    /\ slices' = <<Default>> /\ active' = 1
    /\ recipe' = NoRecipe /\ editing' = FALSE
    /\ crossed' = FALSE

-----------------------------------------------------------------------------

Answers == AliasesLoaded \/ CreateFails \/ AliasCreated \/ FrameworkDetected

Pick ==
    \/ \E n \in Names : \/ CreateAlias(n) \/ AliasSelect(n) \/ TemplateSelect(n)
                       \/ FrameworkComplete(n)
    \/ ImportedRecipe
    \/ FrameworkContinue \/ FrameworkSkip \/ FrameworkBack

Build ==
    \/ \E n \in Names \cup {""} : SetName(n)
    \/ \E n \in Names : AddSlice(n)
    \/ \E i \in 1..MaxSlices : \/ Activate(i) \/ TogglePublic(i) \/ RemoveSlice(i)
                               \/ \E o \in 1..MaxSlices : ToggleNeed(i, o)
    \/ \E c \in BOOLEAN : Customize(c)

Review == EditOrReset \/ PlaceOrder

Next == Answers \/ Pick \/ Build \/ Review \/ NextToSlices \/ NextToReview \/ Back

Spec == Init /\ [][Next]_vars

-----------------------------------------------------------------------------
(* Properties *)

Words == Names \cup {""}
Slices == [name : Words, built : BOOLEAN, custom : BOOLEAN, needs : SUBSET Words]

(* The types of the variables; there is always a slice, and an active one. *)
TypeOK ==
    /\ aliases \subseteq Names /\ creating \in Names \cup {""}
    /\ framework \in [detections : {0, 1}, known : BOOLEAN, shown : BOOLEAN]
    /\ choice \in [alias : Names \cup {""}, template : Names \cup {""},
                   imported : Imports \cup {""}]
    /\ step \in 1..3 /\ name \in Words
    /\ slices \in Seq(Slices) /\ Len(slices) \in 1..MaxSlices /\ active \in DOMAIN slices
    /\ recipe.kind \in {"none", "template", "imported", "built"}
    /\ recipe = NoRecipe <=> step # 3
    /\ editing \in BOOLEAN /\ crossed \in BOOLEAN

(* The recipe that is reviewed is the one that the choice of step 1 and the
   slices of step 2 stand for now, and there is one choice, however often the
   user goes back and forth (goNext, the handlers of step 1).  Excepted is an
   app whose addition is answered late, or a framework that is completed after
   another choice: both add a choice without dropping the others. *)
ReviewIsOfTheChoice ==
    ~crossed => /\ Cardinality({f \in DOMAIN choice : choice[f] # ""}) <= 1
                /\ step = 3 => recipe = RecipeOf

(* What is built has something to run: a recipe of slices is never reviewed
   without an image in one of them (canNext, goNext, the removal of slices). *)
ReviewIsBuilt ==
    recipe.kind = "built" => \E i \in DOMAIN recipe.blocks : recipe.blocks[i].built

Dangling == (UNION {slices[i].needs : i \in DOMAIN slices})
                \ {slices[i].name : i \in DOMAIN slices}

(* No edit of step 2 makes a slice need one that is not there, although the
   buttons take a slice by its place in a shorter list (removal, dependencies).
   Only a new pick in step 1 does, when it renames a slice others need. *)
NoNeedIsLost == [][step = 2 /\ step' = 2 => Dangling' \subseteq Dangling]_vars

(* The app picked in step 1 is a slice in step 2, however many slices have been
   removed since the active one was chosen (goNext, activeServiceIndex). *)
PickIsTaken ==
    [][step = 1 /\ step' = 2 /\ choice.alias # "" =>
         \E i \in DOMAIN slices' : slices'[i].built /\ slices'[i].name = choice.alias]_vars

(* The recipe of step 3 is the one that was put together, and can be ordered. *)
ReviewIsTrue == TypeOK /\ ReviewIsOfTheChoice /\ ReviewIsBuilt

=============================================================================
