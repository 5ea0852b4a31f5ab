---------------------------- MODULE ImportPanes ----------------------------
(***************************************************************************)
(* The panes and pages where a recipe is chosen or made from something     *)
(* else (ui/src/components): ComposeImport, GitHubImport, TemplateCatalog, *)
(* FrameworkWizard and RecipeCatalog, the marketplace.                     *)
(*                                                                         *)
(* A recipe is named by what it was made of: a text, an address, a set of  *)
(* answers.  Copying to the clipboard, and which parts of a result are     *)
(* unfolded or dismissed, are left out.                                    *)
(***************************************************************************)
EXTENDS Views

CONSTANT Questions  \* number of questions of the framework at hand

ASSUME QuestionsAssumption == Questions \in Nat \ {0}

-----------------------------------------------------------------------------
(* ComposeImport.  The selection is the text; sent, the text of the last
   import. *)

Compose == Mount("ComposeImport", {}, {"parse"}, [phase |-> "input", sent |-> Nothing])

EditText(t) ==
    /\ view.kind = "ComposeImport" /\ view.more.phase \in {"input", "parsing"}
    /\ view' = [view EXCEPT !.sel = t, !.errors = {}]
    /\ Locally

(* A file that is too large, or of another kind, is refused; another is read
   in the background, while the view goes on. *)
Upload(t) ==
    /\ view.kind = "ComposeImport" /\ view.more.phase \in {"input", "parsing"}
    /\ \/ view' = [view EXCEPT !.errors = {"parse"}] /\ Locally
       \/ view' = [view EXCEPT !.errors = {}] /\ Requests("read", t)

FileRead(i) ==
    /\ view.kind = "ComposeImport"
    /\ Answered("read", i)
    /\ view' = [view EXCEPT !.sel = calls[i].arg]

\* Bug: the button can be pressed while the file is being parsed.
ImportAgain ==
    /\ view.kind = "ComposeImport" /\ view.more.phase \in {"input", "parsing"}
    /\ view.sel # Nothing
    /\ Requests("parse", view.sel)
    /\ view' = [Spinning(view, "parse") EXCEPT !.more = [phase |-> "parsing", sent |-> view.sel]]

Import ==
    /\ view.kind = "ComposeImport" /\ view.more.phase = "input"
    /\ view.sel # Nothing
    /\ Requests("parse", view.sel)
    /\ view' = [Spinning(view, "parse") EXCEPT !.more = [phase |-> "parsing", sent |-> view.sel]]

(* The text is parsed, or it cannot be. *)
Parsed(i) ==
    /\ view.kind = "ComposeImport"
    /\ \/ /\ Answered("parse", i)
          /\ view' = [Got(view, "parse", calls[i]) EXCEPT !.more.phase = "breakdown"]
       \/ /\ Answered("parse", i) \/ Lost("parse", i)
          /\ view' = [Failing(view, "parse") EXCEPT !.more.phase = "input"]

(* Back and forth between the breakdown, the recipe and the text. *)
Turn ==
    /\ view.kind = "ComposeImport"
    /\ \/ /\ view.more.phase = "breakdown"
          /\ \/ view' = [view EXCEPT !.more.phase = "preview"]
             \/ view' = [view EXCEPT !.more.phase = "input", !.errors = {}]
       \/ view.more.phase = "preview" /\ view' = [view EXCEPT !.more.phase = "breakdown"]
    /\ Locally

UseCompose == view.kind = "ComposeImport" /\ view.more.phase = "preview" /\ Mounts(Elsewhere)

(* What is drawn *)
TextIsShown      == view.more.phase \in {"input", "parsing"}
BreakdownIsShown == view.more.phase = "breakdown"
SourceIsShown    == view.more.phase = "preview"

ComposeShows ==
    CASE TextIsShown /\ view.more.phase = "parsing" -> "reading"
      [] TextIsShown /\ view.more.phase = "input"   -> IF view.errors = {} THEN "input" ELSE "error"
      [] BreakdownIsShown                           -> "services"
      [] SourceIsShown                              -> "recipe"

-----------------------------------------------------------------------------
(* GitHubImport.  The selection is the address; sent, the address of the last
   scan; checked, that a prebuilt image was looked for. *)

GitHub == Mount("GitHubImport", {}, {"scan"},
                [phase |-> "idle", sent |-> Nothing, editing |-> FALSE, checked |-> FALSE])

EditAddress(t) ==
    /\ view.kind = "GitHubImport" /\ t # view.sel
    /\ view' = [view EXCEPT !.sel = t]
    /\ Locally

\* Bug: the Enter key does not look whether a scan is under way.
ScanAgain ==
    /\ view.kind = "GitHubImport" /\ view.sel # Nothing
    /\ Requests("scan", view.sel)
    /\ view' = [Spinning(view, "scan") EXCEPT !.got["scan"] = None,
                  !.more = [@ EXCEPT !.phase = "scanning", !.sent = view.sel, !.editing = FALSE]]

Scan ==
    /\ view.kind = "GitHubImport" /\ view.sel # Nothing /\ view.more.phase # "scanning"
    /\ Requests("scan", view.sel)
    /\ view' = [Spinning(view, "scan") EXCEPT !.got["scan"] = None,
                  !.more = [@ EXCEPT !.phase = "scanning", !.sent = view.sel, !.editing = FALSE]]

Scanned(i) ==
    /\ view.kind = "GitHubImport"
    /\ \/ /\ Answered("scan", i)
          /\ view' = [Got(view, "scan", calls[i]) EXCEPT !.more.phase = "results"]
       \/ /\ Answered("scan", i) \/ Lost("scan", i)
          /\ view' = [Failing(view, "scan") EXCEPT !.more.phase = "error"]

EditRecipe ==
    /\ view.kind = "GitHubImport" /\ view.more.phase = "results" /\ ~view.more.editing
    /\ view' = [view EXCEPT !.more.editing = TRUE]
    /\ Locally

(* Is there a prebuilt image by now?  A scan of the address as it is now, whose
   result takes the place of the other and of its edits.  It does not stop a
   new scan. *)
CheckImage ==
    /\ view.kind = "GitHubImport" /\ view.more.phase = "results" /\ "check" \notin view.spins
    /\ Requests("check", view.sel)
    /\ view' = [view EXCEPT !.spins = @ \cup {"check"}, !.more.checked = TRUE]

ImageChecked(i) ==
    /\ view.kind = "GitHubImport"
    /\ \/ /\ Answered("check", i)
          /\ view' = [view EXCEPT !.spins = @ \ {"check"}, !.got["scan"] = calls[i]]
       \/ /\ Answered("check", i) \/ Lost("check", i)
          /\ view' = [view EXCEPT !.spins = @ \ {"check"}]

UseScan == view.kind = "GitHubImport" /\ view.more.phase = "results" /\ Mounts(Elsewhere)

ResultIsShown == view.more.phase = "results" /\ view.got["scan"] # None

GitHubShows ==
    CASE view.more.phase = "scanning"           -> "scanning"
      [] view.more.phase = "error"              -> "error"
      [] ResultIsShown /\ view.more.editing     -> "editor"
      [] ResultIsShown /\ ~view.more.editing    -> "recipe"
      [] OTHER                                  -> "nothing"

-----------------------------------------------------------------------------
(* TemplateCatalog.  The selection is the category. *)

Templates == Mount("TemplateCatalog", {"list"}, {}, [on |-> TRUE])

SelectCategory(c) ==
    /\ view.kind = "TemplateCatalog" /\ c # view.sel
    /\ Requests("list", c)
    /\ view' = [Spinning(view, "list") EXCEPT !.sel = c]

RetryTemplates ==
    /\ view.kind = "TemplateCatalog" /\ view.spins = {} /\ view.errors # {}
    /\ Requests("list", view.sel)
    /\ view' = Spinning(view, "list")

-----------------------------------------------------------------------------
(* RecipeCatalog.  The selection is the category and the query; typed, what
   the timer of 300 ms will make the query; retried, that Retry was pressed and
   nothing asked since; opened, that the details of a recipe are open. *)

Marketplace ==
    LET m == Mount("RecipeCatalog", {"list"}, {}, [typed |-> {}, retried |-> FALSE, opened |-> FALSE])
    IN  [m EXCEPT !.view.sel = <<Nothing, Nothing>>]

TypeQuery(t) ==
    /\ view.kind = "RecipeCatalog" /\ view.more.typed # {t}
    /\ view' = [view EXCEPT !.more.typed = {t}]
    /\ Locally

\* Bug: the list is loaded once, and not when the filters change.
LoadedOnce(before, f) == FALSE

(* The effect on the category and the query runs when one of them changes. *)
FiltersEffect(before, f) == f # before

(* The view with other filters. *)
Filters(f, typed) ==
    LET v == [view EXCEPT !.sel = f, !.more.typed = typed]
    IN  IF FiltersEffect(view.sel, f)
          THEN /\ Requests("list", f)
               /\ view' = [Spinning(v, "list") EXCEPT !.more.retried = FALSE]
          ELSE view' = v /\ Locally

QueryTimer ==
    /\ view.kind = "RecipeCatalog"
    /\ \E t \in view.more.typed : Filters(<<view.sel[1], t>>, {})

FilterCategory(c) ==
    /\ view.kind = "RecipeCatalog" /\ c # view.sel[1]
    /\ Filters(<<c, view.sel[2]>>, view.more.typed)

(* Offered when the list is empty.  A timer that is set stays set. *)
ClearFilters ==
    /\ view.kind = "RecipeCatalog" /\ view.spins = {} /\ view.errors = {}
    /\ view.sel # <<Nothing, Nothing>>
    /\ Filters(<<Nothing, Nothing>>, view.more.typed)

(* Sets the query to what it is: the effect does not run. *)
RetryMarketplace ==
    /\ view.kind = "RecipeCatalog" /\ view.spins = {} /\ view.errors # {}
    /\ view' = [view EXCEPT !.errors = {}, !.more.retried = TRUE]
    /\ Locally

(* Of either catalog.  An error stays until the next request, even if a newer
   one is answered first. *)
Listed(i) ==
    /\ view.kind \in {"TemplateCatalog", "RecipeCatalog"}
    /\ \/ Answered("list", i) /\ view' = Got(view, "list", calls[i])
       \/ Lost("list", i) /\ view' = Failing(view, "list")

CatalogWaits   == "list" \in view.spins
CatalogFails   == ~CatalogWaits /\ view.errors # {}
CatalogIsEmpty == ~CatalogWaits /\ view.errors = {} /\ view.got["list"] = None
CardsAreShown  == ~CatalogWaits /\ view.errors = {} /\ view.got["list"] # None

CatalogShows ==
    CASE CatalogWaits   -> "skeletons"
      [] CatalogFails   -> "error"
      [] CatalogIsEmpty -> "none found"
      [] CardsAreShown  -> "cards"

(* The details lie over the list, and stay when it changes. *)
OpenRecipe ==
    /\ view.kind = "RecipeCatalog" /\ CardsAreShown /\ ~view.more.opened
    /\ view' = [view EXCEPT !.more.opened = TRUE]
    /\ Locally

DetailIsShown == view.kind = "RecipeCatalog" /\ view.more.opened

CloseRecipe ==
    /\ DetailIsShown
    /\ view' = [view EXCEPT !.more.opened = FALSE]
    /\ Locally

(* To the deploy wizard, which does not look which recipe it was. *)
DeployRecipe == DetailIsShown /\ Mounts(Elsewhere)

-----------------------------------------------------------------------------
(* FrameworkWizard.  The selection is the answers; hasty, that an answer was
   given, or the last question left, while a recipe was being generated. *)

Framework == Mount("FrameworkWizard", {}, {"generate"}, [step |-> 0, hasty |-> FALSE])

Generating == "generate" \in view.spins

QuestionIsShown == view.more.step < Questions
PreviewIsShown  == view.more.step = Questions /\ ~Generating

AnswerQuestion(a) ==
    /\ view.kind = "FrameworkWizard" /\ QuestionIsShown /\ a # view.sel
    /\ view' = [view EXCEPT !.sel = a, !.more.hasty = @ \/ Generating]
    /\ Locally

(* The button is never disabled before the preview.  Past the preview, where a
   second Next leads while a recipe is generated, steps are not counted on. *)
NextQuestion ==
    /\ view.kind = "FrameworkWizard" /\ view.more.step < Questions - 1
    /\ view' = [view EXCEPT !.more.step = @ + 1]
    /\ Locally

\* Bug: a recipe that was generated before is not generated again.
GenerateOnce ==
    /\ view.kind = "FrameworkWizard" /\ view.more.step = Questions - 1
    /\ IF view.got["generate"] = None
         THEN /\ Requests("generate", view.sel)
              /\ view' = [Spinning(view, "generate") EXCEPT !.more.hasty = @ \/ Generating]
         ELSE /\ view' = [view EXCEPT !.more.step = Questions]
              /\ Locally

(* Next, on the last question; the step follows when the recipe has come. *)
Generate ==
    /\ view.kind = "FrameworkWizard" /\ view.more.step = Questions - 1
    /\ Requests("generate", view.sel)
    /\ view' = [Spinning(view, "generate") EXCEPT !.more.hasty = @ \/ Generating]

Fallback == [None EXCEPT !.of = "fallback"]
Edited   == [None EXCEPT !.of = "edited"]

(* Without an answer the recipe is a basic one, whatever the answers were. *)
Generated(i) ==
    /\ view.kind = "FrameworkWizard"
    /\ \/ /\ Answered("generate", i)
          /\ view' = [Got(view, "generate", calls[i]) EXCEPT !.more.step = @ + 1]
       \/ /\ Lost("generate", i)
          /\ view' = [Got(view, "generate", Fallback) EXCEPT !.more.step = @ + 1]

EditPreview ==
    /\ view.kind = "FrameworkWizard" /\ PreviewIsShown
    /\ view' = [view EXCEPT !.got["generate"] = Edited]
    /\ Locally

(* From the first question Back leaves the wizard. *)
PreviousQuestion ==
    /\ view.kind = "FrameworkWizard"
    /\ IF view.more.step = 0
         THEN Mounts(Elsewhere)
         ELSE /\ view' = [view EXCEPT !.more.step = @ - 1]
              /\ Locally

CompleteFramework ==
    /\ view.kind = "FrameworkWizard" /\ PreviewIsShown
    /\ view.got["generate"] # None
    /\ Mounts(Elsewhere)

FrameworkShows ==
    CASE QuestionIsShown -> "question"
      [] PreviewIsShown  -> "preview"
      [] view.more.step = Questions /\ Generating -> "generating"
      [] OTHER -> "nothing"

-----------------------------------------------------------------------------

ImportViews == {Compose, GitHub, Templates, Marketplace, Framework}

ImportAsks ==
    \/ \E t \in Items : EditText(t) \/ Upload(t) \/ EditAddress(t) \/ AnswerQuestion(t)
    \/ Import \/ Turn \/ UseCompose
    \/ Scan \/ EditRecipe \/ CheckImage \/ UseScan
    \/ \E c \in Items \cup {Nothing} : SelectCategory(c) \/ FilterCategory(c) \/ TypeQuery(c)
    \/ RetryTemplates \/ RetryMarketplace \/ QueryTimer \/ ClearFilters
    \/ OpenRecipe \/ CloseRecipe \/ DeployRecipe
    \/ NextQuestion \/ Generate \/ EditPreview \/ PreviousQuestion \/ CompleteFramework

ImportReply(i) ==
    \/ FileRead(i) \/ Parsed(i) \/ Scanned(i) \/ ImageChecked(i)
    \/ Listed(i) \/ Generated(i)

ImportRequests == {"read", "parse", "scan", "check", "list", "generate"}

=============================================================================
