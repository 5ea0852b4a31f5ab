------------------------------ MODULE Console ------------------------------
(***************************************************************************)
(* The frame of the dashboard (ui/src): who is signed in (AuthContext and  *)
(* the pages to sign in, to register and of the profile), which team is    *)
(* active (DashboardPage, CreateTeamPage, TeamSettingsPage), and the pages *)
(* with a list of what there is: the recipes, the deployments and the      *)
(* members of the active team.                                             *)
(*                                                                         *)
(* A handler goes on when its request is answered, with the state it has   *)
(* closed over when it was made: here the request carries it.  A handler of*)
(* a page that is gone changes nothing of the next page, but it does what  *)
(* it does to AuthContext and to DashboardPage, and it still navigates.    *)
(* The server handles a request some time between its being made and being *)
(* answered.  Other users do nothing.                                      *)
(***************************************************************************)
EXTENDS Integers, FiniteSets, SequencesExt

CONSTANTS
    MaxTeams,  \* bound: teams are 1..MaxTeams, in the order they are listed
    Rows,      \* what the lists are of
    MaxCalls,  \* bound: requests under way at a time
    MaxFaults  \* bound: requests that are lost, sessions that expire

ASSUME ConsoleAssumption ==
    /\ MaxTeams \in Nat \ {0} /\ Rows # {}
    /\ MaxCalls \in Nat \ {0} /\ MaxFaults \in Nat

VARIABLES
    session, teams, rows,  \* on the server: is the cookie good, ...
    user,      \* AuthContext: is there a user?
    starting,  \* AuthContext.loading: it is not known yet whether there is one
    page,      \* the page that is open, once it is known
    known, active,  \* DashboardPage: the teams and the active one
    list,      \* what the page lists, and of which team; whether it is loading
    calls,     \* requests on their way
    faults,
    raced,     \* history: two requests about the user were under way together, or one was lost
    mixed,     \* history: since it was loaded the list was used while something was under way,
               \* or a request about it has failed
    chosen     \* history: the team the user has chosen last, unless the first one was being
               \* chosen then

server  == <<session, teams, rows>>
auth    == <<user, starting>>
frame   == <<known, active, chosen>>
listing == <<list, mixed>>
vars    == <<server, auth, page, frame, listing, calls, faults, raced>>

NoTeam   == 0
Keys     == 1..MaxTeams

TeamPages == {"recipes", "members", "deployments"}
Pages     == TeamPages \cup {"login", "overview", "newteam", "profile"}

Blank == [of |-> NoTeam, items |-> {}, loading |-> FALSE]

-----------------------------------------------------------------------------
(* Requests.  by: the part whose handler waits; key: the list or the team it
   is about; row: what is added or removed; base: the list that was closed over;
   bare: there was no active team then. *)

Requests ==
    [of : {"me", "refresh", "profile", "login", "register", "logout", "teams", "team", "unteam",
           "load", "add", "remove", "recipe"},
     by : {"auth", "frame", "list", "nobody"},
     key : 0..MaxTeams, row : SUBSET Rows, base : SUBSET Rows, bare : BOOLEAN,
     answer : {"none", "ok", "refused"}, items : (SUBSET Keys) \cup (SUBSET Rows)]

Call(r, by, key, row, base, bare) ==
    [of |-> r, by |-> by, key |-> key, row |-> row, base |-> base, bare |-> bare,
     answer |-> "none", items |-> {}]

AuthCall(r)  == Call(r, "auth", NoTeam, {}, {}, FALSE)
TeamsCall(bare) == Call("teams", "frame", NoTeam, {}, {}, bare)
LoadCall(k)  == Call("load", "list", k, {}, {}, FALSE)

Due(r)   == \E i \in DOMAIN calls : calls[i].of = r /\ calls[i].by # "nobody"
DueBy(p) == \E i \in DOMAIN calls : calls[i].by = p

(* The list that is shown, or what it is of, may be about to change. *)
Working(cs) == \E i \in DOMAIN cs : cs[i].by \in {"list", "nobody"} \/ cs[i].of \in {"recipe", "unteam"}

Room == Len(calls) < MaxCalls

(* A list of teams, or a team, was asked for when no team was active. *)
Choosing(cs) == \E i \in DOMAIN cs : cs[i].by = "frame" /\ cs[i].bare

(* The handlers of the parts p are gone; what was only asked for matters no
   more, what was to be done does. *)
Matters(c, p) == ~(c.by \in p /\ (c.of \in {"load", "teams"} \/ c.answer # "none"))

Orphan(c, p) == IF c.by \in p THEN Call(c.of, "nobody", c.key, c.row, {}, FALSE) ELSE c

Gone(cs, p) ==
    LET left[n \in 0..Len(cs)] ==
            IF n = 0 THEN <<>>
            ELSE IF Matters(cs[n], p) THEN Append(left[n - 1], Orphan(cs[n], p))
            ELSE left[n - 1]
    IN  left[Len(cs)]

-----------------------------------------------------------------------------

Init ==
    /\ session \in BOOLEAN
    /\ teams \in {{}, {1}, 1..MaxTeams}
    /\ rows \in {[k \in Keys |-> IF k \in teams THEN Rows ELSE {}]}
    /\ user = FALSE /\ starting = TRUE
    /\ page \in {"login", "overview"}
    /\ known = {} /\ active = NoTeam /\ list = Blank
    /\ calls = <<AuthCall("me")>>
    /\ faults = 0 /\ raced = FALSE /\ mixed = FALSE /\ chosen = NoTeam

-----------------------------------------------------------------------------
(* The server *)

Answers(i, answer, items) ==
    /\ calls' = [calls EXCEPT ![i].answer = answer, ![i].items = items]
    /\ UNCHANGED <<auth, page, frame, listing, faults, raced>>

Handles(i) ==
    LET c == calls[i] IN
    /\ c.answer = "none"
    /\ \/ /\ c.of \in {"me", "refresh", "profile", "logout"} /\ (session \/ c.of = "logout")
          /\ session' = (c.of # "logout")
          /\ Answers(i, "ok", {})
          /\ UNCHANGED <<teams, rows>>
       \/ /\ c.of \in {"login", "register"}
          /\ session' = TRUE
          /\ Answers(i, "ok", {})
          /\ UNCHANGED <<teams, rows>>
       \/ /\ c.of = "teams" /\ session
          /\ Answers(i, "ok", teams)
          /\ UNCHANGED server
       \/ /\ c.of = "team" /\ session
          /\ \E t \in (1..MaxTeams) \ teams :
                /\ teams' = teams \cup {t}
                /\ Answers(i, "ok", {t})
          /\ UNCHANGED <<session, rows>>
       \/ /\ c.of = "unteam" /\ session /\ c.key \in teams
          /\ teams' = teams \ {c.key} /\ rows' = [rows EXCEPT ![c.key] = {}]
          /\ Answers(i, "ok", {})
          /\ UNCHANGED session
       \/ /\ c.of = "load" /\ session /\ c.key \in teams
          /\ Answers(i, "ok", rows[c.key])
          /\ UNCHANGED server
       \/ /\ c.of \in {"add", "recipe"} /\ session /\ c.key \in teams
          /\ rows' = [rows EXCEPT ![c.key] = @ \cup c.row]
          /\ Answers(i, "ok", {})
          /\ UNCHANGED <<session, teams>>
       \/ /\ c.of = "remove" /\ session /\ c.row \subseteq rows[c.key]
          /\ rows' = [rows EXCEPT ![c.key] = @ \ c.row]
          /\ Answers(i, "ok", {})
          /\ UNCHANGED <<session, teams>>

(* Without a session, for what is gone, with a wrong password or an address that
   is registered. *)
Refuses(i) ==
    LET c == calls[i] IN
    /\ c.answer = "none"
    /\ \/ ~session /\ c.of \notin {"login", "register", "logout"}
       \/ c.of \in {"login", "register"}
       \/ c.of = "team" /\ teams = 1..MaxTeams
       \/ c.of \in {"unteam", "load", "add", "recipe"} /\ c.key \notin teams
       \/ c.of = "remove" /\ ~(c.row \subseteq rows[c.key])
    /\ Answers(i, "refused", {})
    /\ UNCHANGED server

(* A request, or the answer to it, is lost. *)
Loses(i) ==
    /\ faults < MaxFaults /\ calls[i].answer # "refused"
    /\ calls' = [calls EXCEPT ![i].answer = "refused", ![i].items = {}]
    /\ faults' = faults + 1
    /\ raced' = (raced \/ calls[i].by = "auth")
    /\ UNCHANGED <<server, auth, page, frame, listing>>

Expires ==
    /\ faults < MaxFaults /\ session
    /\ session' = FALSE /\ faults' = faults + 1 /\ raced' = TRUE
    /\ UNCHANGED <<teams, rows, auth, page, frame, listing, calls>>

-----------------------------------------------------------------------------
(* AuthContext.  DashboardPage is mounted while a page of it is open and the
   user is known. *)

InDashboard == page # "login" /\ user /\ ~starting

(* The dashboard is mounted: it asks for the teams. *)
Enter(cs) ==
    /\ calls' = Append(cs, TeamsCall(TRUE))
    /\ page' = "overview"
    /\ known' = {} /\ active' = NoTeam /\ list' = Blank
    /\ mixed' = FALSE /\ chosen' = NoTeam

(* It is unmounted, and the page to sign in opened. *)
Leave(cs) ==
    /\ calls' = Gone(cs, {"frame", "list"})
    /\ page' = "login"
    /\ known' = {} /\ active' = NoTeam /\ list' = Blank
    /\ mixed' = FALSE /\ chosen' = NoTeam

Stays(cs) == calls' = cs /\ UNCHANGED <<page, frame, listing>>

(* A request about the user; not disabled by any of the others. *)
AsksAuth(r) ==
    /\ Room
    /\ calls' = Append(calls, AuthCall(r))
    /\ raced' = (raced \/ DueBy("auth"))
    /\ UNCHANGED <<server, auth, page, frame, listing, faults>>

(* The pages to sign in and to register show their form at once. *)
Submit == page = "login" /\ ~Due("login") /\ AsksAuth("login")

(* Of the page next to it; the server signs in whom it has registered. *)
Register == page = "login" /\ ~Due("register") /\ AsksAuth("register")

Logout == InDashboard /\ AsksAuth("logout")

SaveProfile == InDashboard /\ page = "profile" /\ AsksAuth("profile")

\* Bug: the session has ended, but the user is not forgotten.
LogoutForgotten(c, u) == u

(* The user, who was u, after the answer to c: getMe of the first effect, login,
   register, logout, refreshUser. *)
UserAfter(c, u) ==
    CASE c.answer = "ok" /\ c.of \in {"me", "login", "register", "refresh"} -> TRUE
      [] c.answer = "ok" /\ c.of = "logout" -> FALSE
      [] c.answer # "ok" /\ c.of = "me"     -> FALSE
      [] OTHER                              -> u

\* Bug: the pages do not look whether there is a user.
AnyoneMayStay(cs) == Stays(cs)

(* ProtectedRoute *)
SignedOut(cs) == Leave(cs)

Loading(l, p) == [l EXCEPT !.loading = p # "members"]

(* Another page is opened: the one before is unmounted, and a list loaded. *)
OpensPage(cs, p, a) ==
    LET rest == Gone(cs, {"list"}) IN
    /\ page' = p
    /\ mixed' = Working(rest)
    /\ IF a # NoTeam /\ p \in TeamPages
         THEN calls' = Append(rest, LoadCall(a)) /\ list' = Loading(Blank, p)
         ELSE calls' = rest /\ list' = Blank

AuthAnswered(i) ==
    LET c     == calls[i]
        rest  == RemoveAt(calls, i)
        asked == IF c.of = "profile" /\ c.answer = "ok"
                   THEN Append(rest, AuthCall("refresh")) ELSE rest
        opens == IF c.of \in {"login", "register"} /\ c.answer = "ok" THEN "overview" ELSE page
    IN  /\ c.by = "auth" /\ c.answer # "none"
        /\ user' = UserAfter(c, user)
        /\ starting' = (starting /\ c.of # "me")
        /\ IF starting'
             THEN /\ page' = opens /\ calls' = asked
                  /\ UNCHANGED <<frame, listing>>
             ELSE IF opens = "login"
             THEN Stays(asked)
             ELSE IF ~user'
             THEN SignedOut(asked)
             ELSE IF ~InDashboard
             THEN Enter(asked)
             ELSE IF opens = page
             THEN Stays(asked)
             ELSE OpensPage(asked, opens, active) /\ UNCHANGED frame
        /\ UNCHANGED <<server, faults, raced>>

(* The answer to a handler that is gone. *)
Ignored(i) ==
    /\ calls[i].by = "nobody" /\ calls[i].answer # "none"
    /\ calls' = RemoveAt(calls, i)
    /\ UNCHANGED <<server, auth, page, frame, listing, faults, raced>>

-----------------------------------------------------------------------------
(* DashboardPage *)

\* Bug: the page does not look at the active team again.
LoadedOnce(p, a) == FALSE

(* The effect on the id of the active team. *)
TeamEffect(p, a) == p \in TeamPages /\ a # active /\ a # NoTeam

(* Team a is active from now on: the page that is open may load its list. *)
Activate(cs, a) ==
    /\ active' = a
    /\ IF TeamEffect(page, a)
         THEN /\ calls' = Append(cs, LoadCall(a))
              /\ list' = Loading(list, page)
              /\ mixed' = Working(cs)
         ELSE calls' = cs /\ UNCHANGED listing

SelectTeam(t) ==
    /\ InDashboard /\ t \in known /\ t # active /\ Room
    /\ Activate(calls, t)
    /\ chosen' = IF Choosing(calls) THEN NoTeam ELSE t
    /\ UNCHANGED <<server, auth, page, known, faults, raced>>

\* Bug: a list of teams always makes its first one the active one.
AlwaysFirst(c) == c.items # {}

(* The first team is made active when there was none when the list was asked
   for: refreshTeams has closed over the active team of that time. *)
MakesFirst(c) == c.items # {} /\ c.bare

TeamsAnswered(i) ==
    LET c    == calls[i]
        rest == RemoveAt(calls, i)
    IN  /\ c.of = "teams" /\ c.by = "frame" /\ c.answer # "none"
        /\ known' = IF c.answer = "ok" THEN c.items ELSE known
        /\ IF MakesFirst(c)
             THEN Activate(rest, Min(c.items))
             ELSE calls' = rest /\ UNCHANGED <<active, listing>>
        /\ UNCHANGED <<server, auth, page, chosen, faults, raced>>

Open(p) ==
    /\ InDashboard /\ p \in Pages \ {page, "login"} /\ Room
    /\ OpensPage(calls, p, active)
    /\ UNCHANGED <<server, auth, frame, faults, raced>>

(* CreateTeamPage: disabled while it waits. *)
CreateTeam ==
    /\ InDashboard /\ page = "newteam" /\ ~list.loading /\ Room
    /\ calls' = Append(calls, Call("team", "frame", NoTeam, {}, {}, active = NoTeam))
    /\ list' = [list EXCEPT !.loading = TRUE]
    /\ chosen' = IF Choosing(calls) THEN NoTeam ELSE chosen
    /\ UNCHANGED <<server, auth, page, known, active, mixed, faults, raced>>

(* The new team is active; the list of teams is asked for by a refreshTeams
   that may still think that none is; and the page of the team is opened. *)
TeamCreated(i) ==
    LET c    == calls[i]
        rest == RemoveAt(calls, i)
    IN  /\ c.of = "team" /\ c.by = "frame" /\ c.answer # "none"
        /\ IF c.answer = "ok"
             THEN LET t == CHOOSE x \in c.items : TRUE IN
                  /\ active' = t
                  /\ chosen' = IF Choosing(rest) \/ (c.bare /\ teams # {t})
                                 \/ \E j \in DOMAIN rest : rest[j].of = "team"
                               THEN NoTeam ELSE t
                  /\ OpensPage(Append(rest, TeamsCall(c.bare)), "members", t)
                  /\ UNCHANGED known
             ELSE /\ calls' = rest
                  /\ list' = [list EXCEPT !.loading = @ /\ page # "newteam"]
                  /\ UNCHANGED <<page, mixed, frame>>
        /\ UNCHANGED <<server, auth, faults, raced>>

(* TeamSettingsPage.  The team that was deleted stays the active one. *)
DeleteTeam ==
    /\ InDashboard /\ page = "members" /\ active # NoTeam /\ ~mixed /\ Room
    /\ calls' = Append(calls, Call("unteam", "frame", active, {}, {}, FALSE))
    /\ mixed' = (mixed \/ Working(calls))
    /\ UNCHANGED <<server, auth, page, frame, list, faults, raced>>

TeamDeleted(i) ==
    LET c    == calls[i]
        rest == RemoveAt(calls, i)
    IN  /\ c.of = "unteam" /\ c.by = "frame" /\ c.answer # "none"
        /\ IF c.answer = "ok"
             THEN OpensPage(Append(rest, TeamsCall(FALSE)), "overview", active)
             ELSE /\ calls' = rest
                  /\ mixed' = TRUE
                  /\ UNCHANGED <<page, list>>
        /\ UNCHANGED <<server, auth, frame, faults, raced>>

-----------------------------------------------------------------------------
(* The pages with a list.  Nothing is disabled while it waits. *)

NoTeamIsShown == page \in TeamPages /\ active = NoTeam

RecipesAreShown     == page = "recipes" /\ ~list.loading
MembersAreShown     == page = "members"
DeploymentsAreShown == page = "deployments" /\ ~list.loading

ListIsShown ==
    /\ InDashboard /\ ~NoTeamIsShown
    /\ RecipesAreShown \/ MembersAreShown \/ DeploymentsAreShown

(* Bound: a list that was mixed is not used any further before it is loaded again. *)
Usable == ListIsShown /\ ~mixed

AsksList(c) ==
    /\ Room
    /\ calls' = Append(calls, c)
    /\ mixed' = ((mixed /\ c.of # "load") \/ Working(calls))
    /\ UNCHANGED <<server, auth, page, frame, faults, raced>>

(* A recipe is made, to be opened. *)
NewRecipe(r) ==
    /\ Usable /\ page = "recipes" /\ r \notin rows[active]
    /\ AsksList(Call("recipe", "frame", active, {r}, {}, FALSE))
    /\ UNCHANGED list

AddMember(r) ==
    /\ Usable /\ page = "members" /\ r \notin rows[active]
    /\ AsksList(Call("add", "list", active, {r}, {}, FALSE))
    /\ UNCHANGED list

(* The cards of the deployments, each with its buttons when it is unfolded. *)
TimelineIsShown == Usable /\ page = "deployments" /\ list.items # {}

(* Of a deployment that is listed; the rollback is a new one. *)
RollBack(r) ==
    /\ TimelineIsShown /\ r \notin rows[active]
    /\ AsksList(Call("add", "list", active, {r}, {}, FALSE))
    /\ UNCHANGED list

Removes(r) ==
    /\ Usable /\ r \in list.items
    /\ AsksList(Call("remove", "list", active, {r}, list.items, FALSE))
    /\ UNCHANGED list

DeleteRecipe(r)     == page = "recipes" /\ Removes(r)
RemoveMember(r)     == page = "members" /\ Removes(r)
DeleteDeployment(r) == TimelineIsShown /\ Removes(r)

(* DeploymentsPage has a button for it. *)
Refresh ==
    /\ ListIsShown /\ page = "deployments"
    /\ AsksList(LoadCall(active))
    /\ list' = Loading(list, page)

\* Bug: the page goes on loading after an error.
LoadingAfterSuccess(c) ==
    IF c.answer = "ok" THEN [of |-> c.key, items |-> c.items, loading |-> FALSE] ELSE list

ListAfter(c) ==
    IF c.answer = "ok" THEN [of |-> c.key, items |-> c.items, loading |-> FALSE]
    ELSE [list EXCEPT !.loading = FALSE]

Loaded(i) ==
    LET c == calls[i] IN
    /\ c.of = "load" /\ c.by = "list" /\ c.answer # "none"
    /\ calls' = RemoveAt(calls, i)
    /\ list' = ListAfter(c)
    /\ mixed' = (mixed \/ c.answer # "ok")
    /\ UNCHANGED <<server, auth, page, frame, faults, raced>>

LoadsAgain(cs, k) ==
    /\ calls' = Append(cs, LoadCall(k))
    /\ list' = Loading(list, page)
    /\ mixed' = (mixed \/ Working(cs))

(* The list the handler knew, without the row; or the list asked for again, of
   the team that was active then. *)
RowRemoved(i) ==
    LET c    == calls[i]
        rest == RemoveAt(calls, i)
    IN  /\ c.of = "remove" /\ c.by = "list" /\ c.answer # "none"
        /\ CASE c.answer # "ok" -> calls' = rest /\ mixed' = TRUE /\ UNCHANGED list
             [] c.answer = "ok" /\ page = "deployments" -> LoadsAgain(rest, c.key)
             [] OTHER ->
                   /\ calls' = rest /\ list' = [list EXCEPT !.items = c.base \ c.row]
                   /\ UNCHANGED mixed
        /\ UNCHANGED <<server, auth, page, frame, faults, raced>>

RowAdded(i) ==
    LET c    == calls[i]
        rest == RemoveAt(calls, i)
    IN  /\ c.of = "add" /\ c.by = "list" /\ c.answer # "none"
        /\ IF c.answer = "ok"
             THEN LoadsAgain(rest, c.key)
             ELSE calls' = rest /\ mixed' = TRUE /\ UNCHANGED list
        /\ UNCHANGED <<server, auth, page, frame, faults, raced>>

(* The new recipe is opened in the builder, whichever page is open. *)
RecipeCreated(i) ==
    LET c    == calls[i]
        rest == RemoveAt(calls, i)
    IN  /\ c.of = "recipe" /\ c.by = "frame" /\ c.answer # "none"
        /\ IF c.answer = "ok"
             THEN OpensPage(rest, "overview", active)
             ELSE /\ calls' = rest
                  /\ mixed' = TRUE
                  /\ UNCHANGED <<page, list>>
        /\ UNCHANGED <<server, auth, frame, faults, raced>>

-----------------------------------------------------------------------------

Handled(i)  == i \in DOMAIN calls /\ (Handles(i) \/ Refuses(i))
Answered(i) ==
    /\ i \in DOMAIN calls
    /\ \/ AuthAnswered(i) \/ Ignored(i)
       \/ TeamsAnswered(i) \/ TeamCreated(i) \/ TeamDeleted(i)
       \/ Loaded(i) \/ RowRemoved(i) \/ RowAdded(i) \/ RecipeCreated(i)

Next ==
    \/ Submit \/ Register \/ Logout \/ SaveProfile
    \/ CreateTeam \/ DeleteTeam \/ Refresh
    \/ \E t \in 1..MaxTeams : SelectTeam(t)
    \/ \E p \in Pages : Open(p)
    \/ \E r \in Rows : NewRecipe(r) \/ AddMember(r) \/ RollBack(r)
    \/ \E r \in Rows : DeleteRecipe(r) \/ RemoveMember(r) \/ DeleteDeployment(r)
    \/ Expires
    \/ \E i \in DOMAIN calls : Handles(i) \/ Refuses(i) \/ Loses(i)
    \/ \E i \in DOMAIN calls : Answered(i)

(* Requests are handled and answered, the oldest first if need be. *)
Fairness == WF_vars(Handled(1)) /\ WF_vars(Answered(1))

Spec == Init /\ [][Next]_vars /\ Fairness

-----------------------------------------------------------------------------
(* Properties *)

(* The state is what it should be; a page other than that to sign in is open
   only for a user, or while it is not known yet whether there is one. *)
TypeOK ==
    /\ session \in BOOLEAN
    /\ teams \subseteq Keys /\ rows \in [Keys -> SUBSET Rows]
    /\ user \in BOOLEAN /\ starting \in BOOLEAN /\ page \in Pages
    /\ known \subseteq Keys /\ active \in 0..MaxTeams /\ chosen \in 0..MaxTeams
    /\ list \in [of : 0..MaxTeams, items : SUBSET Rows, loading : BOOLEAN]
    /\ mixed \in BOOLEAN /\ raced \in BOOLEAN
    /\ calls \in Seq(Requests) /\ Len(calls) <= MaxCalls + 1
    /\ faults \in 0..MaxFaults
    /\ ~user /\ ~starting => page = "login"

(* Once nothing is under way the dashboard and the server agree whether someone
   is signed in, if nothing was lost and no two requests about
   the user were under way together: a getMe that has found no session can come
   after a login, and one that has found one after a logout. *)
SessionAgrees ==
    ~starting /\ ~DueBy("auth") /\ ~raced =>
        user = session

(* A page lists what there is of the team that is active now: after another team
   was selected, after an addition or a removal, after an error and a reload -
   as long as each was done when nothing else was under way. *)
ListIsCurrent ==
    ListIsShown /\ ~Working(calls) /\ ~mixed =>
        /\ list.of = active
        /\ list.items = rows[active]

(* The team the user has selected or created stays the active one: no list of
   teams that comes later puts the first one in its place, unless it was asked
   for when no team was active and another one was there to be the first. *)
ChoiceIsKept == chosen # NoTeam => active = chosen

(* Whether there is a user becomes known; and from then on a page that stays open
   does not go on loading: a request that is refused or lost stops it as well. *)
LoadingEnds == []<>~starting /\ ([]<><<TRUE>>_page \/ []<>~list.loading)

(* The dashboard is open to a user, and to none but one who is signed in. *)
SessionIsTrue == TypeOK /\ SessionAgrees

(* The active team is the one that was chosen, and the lists are those of it. *)
TeamIsCurrent == ListIsCurrent /\ ChoiceIsKept

=============================================================================
