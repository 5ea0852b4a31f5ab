----------------------------- MODULE PagesProofs -----------------------------
(***************************************************************************)
(* What the views of the dashboard show, proved for any number of things   *)
(* to select, of requests under way and of failures.                       *)
(*                                                                         *)
(* The invariant says of the view that is mounted, whichever it is, how    *)
(* what it shows and what it has asked hang together: each view has a      *)
(* formula of its own, about its record v, the requests s that are under   *)
(* way, and whether an answer has overtaken another.                       *)
(***************************************************************************)
EXTENDS Pages, SequenceTheorems, FiniteSetTheorems, TLAPS

(* Requests *)
Asked(s, r)       == \E k \in DOMAIN s : s[k].of = r
AllAbout(s, r, a) == \A k \in DOMAIN s : s[k].of = r => s[k].arg = a
Alone(s, rs)      == \A j, k \in DOMAIN s : s[j].of \in rs /\ s[k].of \in rs => j = k
Newest(s, r, a)   == \E k \in DOMAIN s : /\ s[k].of = r /\ s[k].arg = a
                                         /\ \A j \in DOMAIN s : j > k => s[j].of # r
Counted(s, r)     == {k \in DOMAIN s : s[k].of = r}

(* What is asked, and what may be selected *)
Selections == Items \cup {Nothing}
Sights     == Worlds \cup {Nowhere}

Replies(rs, args) == [of : rs, arg : args, seen : Sights]

(* A view of a kind, whose requests are among rs. *)
Shape(kind, sels, rs, gots, mores) ==
    [kind : {kind}, sel : sels, spins : SUBSET rs, errors : SUBSET rs, got : gots, more : mores]

Spun(v, s) == \A r \in v.spins : Asked(s, r)

-----------------------------------------------------------------------------
(* The views *)

Loading == [{"load"} -> Replies({"load"}, {Nothing}) \cup {None}]

(* A page that says nothing of what it was not told. *)
Accounts(v) == v.spins # {} \/ v.errors # {} \/ v.got["load"] # None

Plain(v, s, kind, mores) ==
    /\ v \in Shape(kind, {Nothing}, {"load"}, Loading, mores)
    /\ s \in Seq(Replies({"load"}, {Nothing}))
    /\ Spun(v, s)

StatusOK(v, s) == Plain(v, s, "StatusPage", [on : {TRUE}]) /\ Accounts(v)

ClusterOK(v, s) == Plain(v, s, "ClusterProvider", [on : {TRUE}])

EnvironmentsOK(v, s) == Plain(v, s, "EnvironmentsPage", [reachable : BOOLEAN]) /\ Accounts(v)

DoctorOK(v, s) ==
    /\ Plain(v, s, "DoctorPage", [notConfigured : BOOLEAN])
    /\ Accounts(v) \/ v.more.notConfigured

Clusters == {"unknown", "yes", "no"}

ApplicationsOK(v, s) ==
    /\ Plain(v, s, "ApplicationsPage", [hasCluster : Clusters])
    /\ Accounts(v) \/ v.more.hasCluster = "no"

(* The deployments are those of the team, unless it is asked for them. *)
OverviewOK(v, s, o) ==
    /\ v \in Shape("OverviewPage", Selections, {"load"},
                   [{"load"} -> Replies({"load"}, Selections) \cup {None}],
                   [hasCluster : Clusters, recent : Selections])
    /\ s \in Seq(Replies({"load"}, Selections))
    /\ Spun(v, s)
    /\ Accounts(v) \/ v.more.hasCluster = "no"
    /\ v.sel = Nothing => v.more.recent = Nothing /\ AllAbout(s, "load", Nothing)
    /\ ~o => \/ Newest(s, "load", v.sel)
             \/ ~Asked(s, "load") /\ (v.errors # {} \/ v.more.recent \in Recents(v.sel))

(* The log is that of the pod, unless it is asked for. *)
ApplicationOK(v, s, o) ==
    /\ v \in Shape("ApplicationDetailPage", Selections, {"load", "logs"},
                   [{"load", "logs", "restart"} -> Replies({"load", "logs"}, Selections) \cup {None}],
                   [tab : {"overview", "logs"}])
    /\ s \in Seq(Replies({"load", "logs", "restart"}, Selections))
    /\ Spun(v, s)
    /\ ~o /\ v.more.tab = "logs" /\ v.sel # Nothing =>
          \/ Newest(s, "logs", v.sel)
          \/ ~Asked(s, "logs") /\ ("logs" \in v.errors \/ v.got["logs"].arg = v.sel)

(* At most one effect has asked for charts, those of the app selected. *)
MonitoringOK(v, s) ==
    /\ v \in Shape("MonitoringPage", Selections, {"load", "refresh"},
                   [{"load", "refresh", "series"} ->
                      Replies({"load", "refresh", "series"}, Selections) \cup {None}],
                   [visible : BOOLEAN, timer : BOOLEAN])
    /\ s \in Seq(Replies({"load", "refresh", "series"}, Selections))
    /\ v.spins # {} => Asked(s, "load") \/ Asked(s, "refresh")
    /\ Accounts(v)
    /\ Alone(s, {"series"}) /\ AllAbout(s, "series", v.sel)
    /\ v.got["series"] = None \/ Asked(s, "series") \/ v.got["series"].arg = v.sel

Deletions == [row : Items, others : SUBSET Items]

(* While only one thing was done at a time, it was begun with the right list. *)
RegistryOK(v, s) ==
    /\ v \in Shape("ClustersPage", Selections, {"clusters", "register"}, [{"clusters"} -> {None}],
                   [registered : SUBSET Items, listed : SUBSET Items,
                    form : BOOLEAN, mixed : BOOLEAN])
    /\ s \in Seq(Replies({"clusters"}, {Nothing}) \cup Replies({"register"}, Items)
                   \cup Replies({"unregister"}, Deletions))
    /\ Spun(v, s)
    /\ ~v.more.mixed =>
          /\ Len(s) <= 1
          /\ s = <<>> => v.more.listed = v.more.registered
          /\ \A k \in DOMAIN s : s[k].of = "unregister" =>
                /\ v.more.listed = v.more.registered
                /\ s[k].arg.others = v.more.listed \ {s[k].arg.row}

(* One text is parsed at a time, the one that was sent. *)
ComposeOK(v, s) ==
    /\ v \in Shape("ComposeImport", Selections, {"parse"},
                   [{"parse"} -> Replies({"parse"}, Selections) \cup {None}],
                   [phase : {"input", "parsing", "breakdown", "preview"}, sent : Selections])
    /\ s \in Seq(Replies({"read", "parse"}, Selections))
    /\ Spun(v, s)
    /\ v.more.phase = "parsing" <=> Asked(s, "parse")
    /\ Alone(s, {"parse"}) /\ AllAbout(s, "parse", v.more.sent)
    /\ v.more.phase \in {"breakdown", "preview"} => v.got["parse"].arg = v.more.sent

GitHubOK(v, s) ==
    /\ v \in Shape("GitHubImport", Selections, {"scan", "check"},
                   [{"scan"} -> Replies({"scan", "check"}, Selections) \cup {None}],
                   [phase : {"idle", "scanning", "results", "error"}, sent : Selections,
                    editing : BOOLEAN, checked : BOOLEAN])
    /\ s \in Seq(Replies({"scan", "check"}, Selections))
    /\ Spun(v, s)
    /\ v.more.phase = "scanning" <=> Asked(s, "scan")
    /\ Alone(s, {"scan"}) /\ AllAbout(s, "scan", v.more.sent)
    /\ ~v.more.checked => ~Asked(s, "check")
    /\ v.more.phase = "results" /\ ~v.more.checked => v.got["scan"].arg = v.more.sent

(* A catalog: the list is that of the selection, unless it is asked for. *)
Catalog(v, s, o, kind, sels, mores) ==
    /\ v \in Shape(kind, sels, {"list"},
                   [{"list"} -> Replies({"list"}, sels) \cup {None}], mores)
    /\ s \in Seq(Replies({"list"}, sels))
    /\ Spun(v, s)

TemplatesOK(v, s, o) ==
    /\ Catalog(v, s, o, "TemplateCatalog", Selections, [on : {TRUE}])
    /\ v.spins # {} \/ v.errors # {} \/ v.got["list"] # None
    /\ ~o => \/ Newest(s, "list", v.sel)
             \/ ~Asked(s, "list") /\ (v.errors # {} \/ v.got["list"].arg = v.sel)

MarketplaceOK(v, s, o) ==
    /\ Catalog(v, s, o, "RecipeCatalog", Selections \X Selections,
               [typed : SUBSET Selections, retried : BOOLEAN, opened : BOOLEAN])
    /\ v.spins # {} \/ v.errors # {} \/ v.got["list"] # None \/ v.more.retried
    /\ ~o => \/ Newest(s, "list", v.sel)
             \/ /\ ~Asked(s, "list")
                /\ v.errors # {} \/ v.got["list"].arg = v.sel \/ v.more.retried

(* Each recipe to come is a step to come; and to one who is not hasty at most one
   comes, of the answers as they are. *)
FrameworkOK(v, s) ==
    /\ v \in Shape("FrameworkWizard", Selections, {"generate"},
                   [{"generate"} -> Replies({"generate"}, Selections) \cup {None, Fallback, Edited}],
                   [step : Nat, hasty : BOOLEAN])
    /\ s \in Seq(Replies({"generate"}, Selections))
    /\ Spun(v, s)
    /\ v.more.step + Len(s) < Questions + MaxCalls
    /\ ~v.more.hasty =>
          /\ Alone(s, {"generate"}) /\ AllAbout(s, "generate", v.sel)
          /\ Asked(s, "generate") => v.spins # {} /\ v.more.step < Questions
          /\ v.more.step <= Questions
          /\ v.more.step = Questions => \/ v.got["generate"].arg = v.sel
                                        \/ v.got["generate"] \in {Fallback, Edited}

Canvases == {c \in [blocks : SUBSET Items, links : SUBSET (Items \X Items)] :
               c.links \subseteq c.blocks \X c.blocks}

(* One canvas is saved at a time. *)
BuilderOK(v, s) ==
    /\ v \in Shape("RecipeBuilderPage", Selections, {"recipe", "save"}, [{"recipe"} -> {None}],
                   [canvas : Canvases, sent : Canvases, stored : Canvases])
    /\ s \in Seq(Replies({"recipe"}, {Nothing}) \cup Replies({"save"}, Canvases))
    /\ Spun(v, s)
    /\ Asked(s, "save") => "save" \in v.spins
    /\ Alone(s, {"save"}) /\ AllAbout(s, "save", v.more.sent)
    /\ \/ Asked(s, "save") \/ "save" \in v.errors
       \/ v.more.sent = Empty \/ v.more.stored = v.more.sent

Fates == {"running", "succeeded", "failed"}

(* To one who orders once at a time, an order is previewed, reviewed, asked for,
   and cooked, in turn. *)
WizardOK(v, s) ==
    /\ v \in Shape("DeployWizard", Selections, {}, [{} -> {None}],
                   [status : {"idle", "reviewing", "cooking", "served", "burned"},
                    preview : Selections, order : Nat, told : Nat,
                    fates : Seq(Fates), doubled : BOOLEAN])
    /\ s \in Seq(Replies({"preview"}, Items) \cup Replies({"import"}, Selections)
                   \cup Replies({"advanced"}, {Nothing}))
    /\ v.more.order <= Len(v.more.fates)
    /\ Len(v.more.fates) + Cardinality(Counted(s, "import")) <= MaxOrders
    /\ v.more.status = "reviewing" => v.more.preview # Nothing
    /\ ~v.more.doubled =>
          /\ Alone(s, {"preview", "import"}) /\ AllAbout(s, "preview", v.sel)
          /\ Asked(s, "import") => v.more.status = "cooking" /\ v.more.order = 0
          /\ Asked(s, "preview") => v.more.status \in {"idle", "burned"} /\ v.more.order = 0
          /\ v.more.status \in {"idle", "reviewing"} => v.more.order = 0
          /\ v.more.status = "reviewing" => v.more.preview = v.sel
          /\ v.more.status = "cooking" => v.more.order # 0 \/ Asked(s, "import")
          /\ v.more.status = "served" =>
                v.more.order # 0 /\ v.more.fates[v.more.order] = "succeeded"

ElsewhereOK(v, s) == v = Elsewhere.view /\ s = <<>>

ViewOK(v, s, o) ==
    \/ StatusOK(v, s) \/ ClusterOK(v, s) \/ EnvironmentsOK(v, s) \/ DoctorOK(v, s)
    \/ ApplicationsOK(v, s) \/ OverviewOK(v, s, o) \/ ApplicationOK(v, s, o)
    \/ MonitoringOK(v, s) \/ RegistryOK(v, s)
    \/ ComposeOK(v, s) \/ GitHubOK(v, s) \/ TemplatesOK(v, s, o) \/ MarketplaceOK(v, s, o)
    \/ FrameworkOK(v, s) \/ BuilderOK(v, s) \/ WizardOK(v, s) \/ ElsewhereOK(v, s)

Bounds ==
    /\ world \in Worlds
    /\ faults \in 0..MaxFaults
    /\ overtaken \in BOOLEAN
    /\ Len(calls) <= MaxCalls

IInv == Bounds /\ ViewOK(view, calls, overtaken)

-----------------------------------------------------------------------------
(* Requests: one is made, or comes back *)

LEMMA Listed1 ==
  ASSUME NEW S, NEW s \in Seq(S)
  PROVE  DOMAIN s = 1..Len(s) /\ Len(s) \in Nat /\ \A k \in DOMAIN s : s[k] \in S
<1>1. DOMAIN s = 1..Len(s) /\ Len(s) \in Nat
  BY LenProperties
<1>2. QED
  BY <1>1, ElementOfSeq

LEMMA Appended ==
  ASSUME NEW S, NEW s \in Seq(S), NEW c \in S, NEW t, t = Append(s, c)
  PROVE  /\ t \in Seq(S) /\ Len(t) = Len(s) + 1 /\ t # <<>>
         /\ DOMAIN s = 1..Len(s) /\ Len(s) \in Nat /\ DOMAIN t = DOMAIN s \cup {Len(s) + 1}
         /\ Len(s) + 1 \notin DOMAIN s
         /\ \A k \in DOMAIN s : t[k] = s[k] /\ Len(s) + 1 > k
         /\ t[Len(s) + 1] = c
<1>1. DOMAIN s = 1..Len(s) /\ Len(s) \in Nat
  BY LenProperties
<1>2. /\ t \in Seq(S) /\ Len(t) = Len(s) + 1
      /\ \A k \in 1..Len(s) : t[k] = s[k]
      /\ t[Len(s) + 1] = c
  BY AppendProperties
<1>3. DOMAIN t = 1..(Len(s) + 1)
  BY <1>2, LenProperties
<1>4. t # <<>>
  BY <1>1, <1>2, EmptySeq
<1>5. QED
  BY <1>1, <1>2, <1>3, <1>4

(* What is under way, t, when request c has been made as well. *)
HasAsked(S, s, c, t) ==
    /\ t \in Seq(S) /\ Len(t) = Len(s) + 1 /\ Len(s) \in Nat /\ t # <<>>
    /\ \A r : Asked(t, r) <=> Asked(s, r) \/ c.of = r
    /\ \A r, a : AllAbout(t, r, a) <=> AllAbout(s, r, a) /\ (c.of = r => c.arg = a)
    /\ \A r, a : c.of = r /\ c.arg = a => Newest(t, r, a)
    /\ \A r, a : c.of # r /\ Newest(s, r, a) => Newest(t, r, a)
    /\ \A rs : Alone(s, rs) /\ (c.of \in rs => \A r \in rs : ~Asked(s, r)) => Alone(t, rs)

LEMMA Asking ==
  ASSUME NEW S, NEW s \in Seq(S), NEW c \in S, NEW t, t = Append(s, c)
  PROVE  HasAsked(S, s, c, t)
<1>0. /\ t \in Seq(S) /\ Len(t) = Len(s) + 1 /\ t # <<>>
      /\ DOMAIN s = 1..Len(s) /\ Len(s) \in Nat
  BY Appended
<1> DEFINE n == Len(s) + 1
<1>1. /\ DOMAIN t = DOMAIN s \cup {n} /\ n \notin DOMAIN s
      /\ \A k \in DOMAIN s : t[k] = s[k] /\ n > k /\ ~(k > n)
      /\ t[n] = c
  <2>1. /\ DOMAIN t = DOMAIN s \cup {n} /\ n \notin DOMAIN s
        /\ \A k \in DOMAIN s : t[k] = s[k] /\ n > k
        /\ t[n] = c
    BY Appended
  <2>2. \A k \in DOMAIN s : ~(k > n)
    BY <1>0
  <2> QED
    BY <2>1, <2>2
<1>2. ~(n > n)
  BY <1>0
<1> HIDE DEF n
<1>3. \A r : Asked(t, r) <=> Asked(s, r) \/ c.of = r
  BY <1>1 DEF Asked
<1>4. \A r, a : AllAbout(t, r, a) <=> AllAbout(s, r, a) /\ (c.of = r => c.arg = a)
  BY <1>1 DEF AllAbout
<1>5. ASSUME NEW r, NEW a, c.of = r, c.arg = a PROVE Newest(t, r, a)
  <2>1. n \in DOMAIN t /\ \A j \in DOMAIN t : ~(j > n)
    BY <1>1, <1>2
  <2> QED
    BY <2>1, <1>1, <1>5 DEF Newest
<1>6. ASSUME NEW r, NEW a, c.of # r, Newest(s, r, a) PROVE Newest(t, r, a)
  <2>1. PICK k \in DOMAIN s : /\ s[k].of = r /\ s[k].arg = a
                              /\ \A j \in DOMAIN s : j > k => s[j].of # r
    BY <1>6 DEF Newest
  <2>2. \A j \in DOMAIN t : j > k => t[j].of # r
    BY <2>1, <1>1, <1>6
  <2> QED
    BY <2>1, <2>2, <1>1 DEF Newest
<1>7. ASSUME NEW rs, Alone(s, rs), c.of \in rs => \A r \in rs : ~Asked(s, r) PROVE Alone(t, rs)
  BY <1>1, <1>7 DEF Alone, Asked
<1>8. QED
  BY <1>0, <1>3, <1>4, <1>5, <1>6, <1>7 DEF HasAsked

LEMMA Removed ==
  ASSUME NEW S, NEW s \in Seq(S), NEW i \in DOMAIN s, NEW t, t = RemoveAt(s, i)
  PROVE  /\ t \in Seq(S) /\ Len(t) = Len(s) - 1 /\ DOMAIN t = 1..(Len(s) - 1)
         /\ \A j \in 1..(Len(s) - 1) : t[j] = IF j < i THEN s[j] ELSE s[j + 1]
<1>1. Len(s) \in Nat /\ i \in 1..Len(s) /\ \A k \in 1..Len(s) : s[k] \in S
  BY Listed1
<1> DEFINE before == SubSeq(s, 1, i - 1)
           after  == SubSeq(s, i + 1, Len(s))
<1>2. /\ before \in Seq(S) /\ Len(before) = i - 1
      /\ \A k \in 1..(i - 1) : before[k] = s[k]
  <2>1. 1 \in Int /\ i - 1 \in Int /\ \A k \in 1..(i - 1) : s[k] \in S
    BY <1>1
  <2>2. /\ before \in Seq(S)
        /\ Len(before) = IF 1 <= i - 1 THEN i - 1 - 1 + 1 ELSE 0
        /\ \A k \in 1..(i - 1 - 1 + 1) : before[k] = s[1 + k - 1]
    BY <2>1, SubSeqProperties
  <2>3. QED
    BY <1>1, <2>2
<1>3. /\ after \in Seq(S) /\ Len(after) = Len(s) - i
      /\ \A k \in 1..(Len(s) - i) : after[k] = s[i + k]
  <2>1. i + 1 \in Int /\ Len(s) \in Int /\ \A k \in (i + 1)..Len(s) : s[k] \in S
    BY <1>1
  <2>2. /\ after \in Seq(S)
        /\ Len(after) = IF i + 1 <= Len(s) THEN Len(s) - (i + 1) + 1 ELSE 0
        /\ \A k \in 1..(Len(s) - (i + 1) + 1) : after[k] = s[(i + 1) + k - 1]
    BY <2>1, SubSeqProperties
  <2>3. QED
    BY <1>1, <2>2
<1>4. t = before \o after
  BY DEF RemoveAt
<1> HIDE DEF before, after
<1>5. /\ before \o after \in Seq(S) /\ Len(before \o after) = Len(before) + Len(after)
      /\ \A j \in 1..(Len(before) + Len(after)) :
            (before \o after)[j] = IF j <= Len(before) THEN before[j] ELSE after[j - Len(before)]
  <2>1. before \in Seq(S) /\ after \in Seq(S)
    BY <1>2, <1>3
  <2> QED
    BY <2>1, ConcatProperties
<1>6. t \in Seq(S) /\ Len(t) = Len(s) - 1
  BY <1>1, <1>2, <1>3, <1>4, <1>5
<1>7. ASSUME NEW j \in 1..(Len(s) - 1) PROVE t[j] = IF j < i THEN s[j] ELSE s[j + 1]
  <2>1. j \in 1..(Len(before) + Len(after))
    BY <1>1, <1>2, <1>3
  <2>2. CASE j < i
    <3>1. j <= Len(before) /\ j \in 1..(i - 1)
      BY <1>1, <1>2, <2>2
    <3> QED
      BY <1>2, <1>4, <1>5, <2>1, <2>2, <3>1
  <2>3. CASE ~(j < i)
    <3>1. /\ ~(j <= Len(before)) /\ j - Len(before) \in 1..(Len(s) - i)
          /\ i + (j - Len(before)) = j + 1
      BY <1>1, <1>2, <2>3
    <3> QED
      BY <1>3, <1>4, <1>5, <2>1, <2>3, <3>1
  <2> QED
    BY <2>2, <2>3
<1>8. DOMAIN t = 1..(Len(s) - 1)
  BY <1>6, LenProperties
<1>9. QED
  BY <1>6, <1>7, <1>8

(* The requests that are left are those there were, in their order, but one. *)
LEMMA Left ==
  ASSUME NEW S, NEW s \in Seq(S), NEW i \in DOMAIN s, NEW t, t = RemoveAt(s, i)
  PROVE  \E f \in [DOMAIN t -> DOMAIN s \ {i}] :
            /\ \A j \in DOMAIN t : t[j] = s[f[j]]
            /\ \A j, k \in DOMAIN t : (f[j] > f[k] <=> j > k) /\ (f[j] = f[k] => j = k)
            /\ \A k \in DOMAIN s \ {i} : \E j \in DOMAIN t : f[j] = k
<1>1. Len(s) \in Nat /\ DOMAIN s = 1..Len(s) /\ i \in 1..Len(s)
  BY Listed1
<1>2. /\ DOMAIN t = 1..(Len(s) - 1)
      /\ \A j \in 1..(Len(s) - 1) : t[j] = IF j < i THEN s[j] ELSE s[j + 1]
  BY Removed
<1> DEFINE f == [j \in DOMAIN t |-> IF j < i THEN j ELSE j + 1]
<1>3. f \in [DOMAIN t -> DOMAIN s \ {i}]
  <2> SUFFICES ASSUME NEW j \in DOMAIN t PROVE (IF j < i THEN j ELSE j + 1) \in DOMAIN s \ {i}
    OBVIOUS
  <2> QED
    BY <1>1, <1>2
<1>4. \A j \in DOMAIN t : t[j] = s[f[j]]
  BY <1>1, <1>2
<1>5. \A j, k \in DOMAIN t : (f[j] > f[k] <=> j > k) /\ (f[j] = f[k] => j = k)
  BY <1>1, <1>2
<1>6. ASSUME NEW k \in DOMAIN s \ {i} PROVE \E j \in DOMAIN t : f[j] = k
  <2>1. CASE k < i
    <3>1. k \in DOMAIN t /\ f[k] = k
      BY <1>1, <1>2, <2>1
    <3> QED
      BY <3>1
  <2>2. CASE ~(k < i)
    <3>1. k - 1 \in DOMAIN t /\ ~(k - 1 < i) /\ k - 1 + 1 = k
      BY <1>1, <1>2, <2>2
    <3> QED
      BY <3>1
  <2> QED
    BY <2>1, <2>2
<1> HIDE DEF f
<1>7. QED
  BY <1>3, <1>4, <1>5, <1>6

(* What is under way, t, when request i has come back.  The newest of the requests for
   r is still the newest, or it was the one that came, if they come in order. *)
IsAnswered(S, s, i, t) ==
    /\ t \in Seq(S) /\ Len(t) = Len(s) - 1 /\ Len(s) \in Nat /\ s[i] \in S /\ s # <<>>
    /\ Len(s) <= 1 => t = <<>>
    /\ Asked(s, s[i].of)
    /\ \A r : Asked(t, r) => Asked(s, r)
    /\ \A r : Asked(s, r) /\ s[i].of # r => Asked(t, r)
    /\ \A r, a : AllAbout(s, r, a) => /\ AllAbout(t, r, a)
                                      /\ s[i].of = r => s[i].arg = a
    /\ \A r, a : s[i].of # r /\ Newest(s, r, a) => Newest(t, r, a)
    /\ \A r, a : s[i].of = r /\ Newest(s, r, a) /\ (\A j \in 1..(i - 1) : s[j].of # r) =>
          Newest(t, r, a) \/ (~Asked(t, r) /\ s[i].arg = a)
    /\ \A rs : Alone(s, rs) => Alone(t, rs)
    /\ \A rs : Alone(s, rs) /\ s[i].of \in rs => \A r \in rs : ~Asked(t, r)

LEMMA Returning ==
  ASSUME NEW S, NEW s \in Seq(S), NEW i \in DOMAIN s, NEW t, t = RemoveAt(s, i)
  PROVE  IsAnswered(S, s, i, t)
<1>1. PICK f \in [DOMAIN t -> DOMAIN s \ {i}] :
            /\ \A j \in DOMAIN t : t[j] = s[f[j]]
            /\ \A j, k \in DOMAIN t : (f[j] > f[k] <=> j > k) /\ (f[j] = f[k] => j = k)
            /\ \A k \in DOMAIN s \ {i} : \E j \in DOMAIN t : f[j] = k
  BY Left
<1>2. /\ t \in Seq(S) /\ Len(t) = Len(s) - 1 /\ Len(s) \in Nat /\ s[i] \in S /\ s # <<>>
      /\ Len(s) <= 1 => t = <<>>
  <2>1. t \in Seq(S) /\ Len(t) = Len(s) - 1
    BY Removed
  <2>2. Len(s) \in Nat /\ i \in 1..Len(s) /\ s[i] \in S
    BY Listed1
  <2>3. Len(t) = 0 => t = <<>>
    BY <2>1, EmptySeq
  <2>4. s # <<>>
    BY EmptySeq, <2>2
  <2> QED
    BY <2>1, <2>2, <2>3, <2>4
<1>3. Asked(s, s[i].of)
  BY DEF Asked
<1>4. \A j \in DOMAIN t : f[j] \in DOMAIN s /\ f[j] # i
  BY <1>1
<1>5. \A r : Asked(t, r) => Asked(s, r)
  BY <1>1, <1>4 DEF Asked
<1>6. ASSUME NEW r, Asked(s, r), s[i].of # r PROVE Asked(t, r)
  <2>1. PICK k \in DOMAIN s : s[k].of = r
    BY <1>6 DEF Asked
  <2>2. PICK j \in DOMAIN t : f[j] = k
    BY <2>1, <1>1, <1>6
  <2> QED
    BY <2>1, <2>2, <1>1 DEF Asked
<1>7. \A r, a : AllAbout(s, r, a) => AllAbout(t, r, a) /\ (s[i].of = r => s[i].arg = a)
  BY <1>1, <1>4 DEF AllAbout
<1>8. ASSUME NEW r, NEW a, NEW k \in DOMAIN s, k # i, s[k].of = r, s[k].arg = a,
             \A j \in DOMAIN s : j > k => s[j].of # r
      PROVE  Newest(t, r, a)
  <2>1. PICK j \in DOMAIN t : f[j] = k
    BY <1>1, <1>8
  <2>2. \A l \in DOMAIN t : l > j => t[l].of # r
    BY <1>1, <1>4, <1>8, <2>1
  <2>3. t[j].of = r /\ t[j].arg = a
    BY <1>1, <1>8, <2>1
  <2> QED
    BY <2>2, <2>3 DEF Newest
<1>9. ASSUME NEW r, NEW a, s[i].of # r, Newest(s, r, a) PROVE Newest(t, r, a)
  <2>1. PICK k \in DOMAIN s : /\ s[k].of = r /\ s[k].arg = a
                              /\ \A j \in DOMAIN s : j > k => s[j].of # r
    BY <1>9 DEF Newest
  <2> QED
    BY <2>1, <1>8, <1>9
<1>10. ASSUME NEW r, NEW a, s[i].of = r, Newest(s, r, a), \A j \in 1..(i - 1) : s[j].of # r
       PROVE  Newest(t, r, a) \/ (~Asked(t, r) /\ s[i].arg = a)
  <2>1. PICK k \in DOMAIN s : /\ s[k].of = r /\ s[k].arg = a
                              /\ \A j \in DOMAIN s : j > k => s[j].of # r
    BY <1>10 DEF Newest
  <2>2. CASE k # i
    BY <2>1, <2>2, <1>8
  <2>3. CASE k = i
    <3>1. \A j \in DOMAIN s : j = i \/ j > i \/ j \in 1..(i - 1)
      <4>1. DOMAIN s = 1..Len(s) /\ Len(s) \in Nat
        BY Listed1
      <4> QED
        BY <4>1
    <3>2. \A j \in DOMAIN s : j # i => s[j].of # r
      BY <2>1, <2>3, <3>1, <1>10
    <3>3. ~Asked(t, r)
      BY <1>1, <1>4, <3>2 DEF Asked
    <3> QED
      BY <2>1, <2>3, <3>3
  <2> QED
    BY <2>2, <2>3
<1>11. \A rs : Alone(s, rs) => Alone(t, rs)
  BY <1>1, <1>4 DEF Alone
<1>12. \A rs : Alone(s, rs) /\ s[i].of \in rs => \A r \in rs : ~Asked(t, r)
  BY <1>1, <1>4 DEF Alone, Asked
<1>13. QED
  BY <1>2, <1>3, <1>5, <1>6, <1>7, <1>9, <1>10, <1>11, <1>12 DEF IsAnswered

(* Requests are counted: there is one more for r, or there are as many. *)
OneMore(s, t, r, yes) ==
    /\ Cardinality(Counted(s, r)) \in Nat /\ Cardinality(Counted(t, r)) \in Nat
    /\ yes => Cardinality(Counted(t, r)) = Cardinality(Counted(s, r)) + 1
    /\ ~yes => Cardinality(Counted(t, r)) = Cardinality(Counted(s, r))

OneLess(s, t, r, yes) ==
    /\ Cardinality(Counted(s, r)) \in Nat /\ Cardinality(Counted(t, r)) \in Nat
    /\ yes => Cardinality(Counted(t, r)) <= Cardinality(Counted(s, r)) - 1
    /\ ~yes => Cardinality(Counted(t, r)) <= Cardinality(Counted(s, r))

LEMMA CountAsking ==
  ASSUME NEW S, NEW s \in Seq(S), NEW c \in S, NEW t, t = Append(s, c), NEW r
  PROVE  OneMore(s, t, r, c.of = r)
<1> DEFINE n == Len(s) + 1
<1>1. /\ DOMAIN t = DOMAIN s \cup {n} /\ n \notin DOMAIN s /\ DOMAIN s = 1..Len(s)
      /\ \A k \in DOMAIN s : t[k] = s[k]
      /\ t[n] = c /\ Len(s) \in Nat
  BY Appended
<1> HIDE DEF n
<1>2. IsFiniteSet(Counted(s, r)) /\ n \notin Counted(s, r)
  <2>1. IsFiniteSet(1..Len(s)) /\ Counted(s, r) \in SUBSET (1..Len(s))
    BY <1>1, FS_Interval DEF Counted
  <2> QED
    BY <2>1, <1>1, FS_Subset
<1>3. CASE c.of = r
  <2>1. Counted(t, r) = Counted(s, r) \cup {n}
    BY <1>1, <1>3 DEF Counted
  <2> QED
    BY <2>1, <1>2, <1>3, FS_AddElement, FS_CardinalityType DEF OneMore
<1>4. CASE c.of # r
  <2>1. Counted(t, r) = Counted(s, r)
    BY <1>1, <1>4 DEF Counted
  <2> QED
    BY <2>1, <1>2, <1>4, FS_CardinalityType DEF OneMore
<1> QED
  BY <1>3, <1>4

LEMMA CountReturning ==
  ASSUME NEW S, NEW s \in Seq(S), NEW i \in DOMAIN s, NEW t, t = RemoveAt(s, i), NEW r
  PROVE  OneLess(s, t, r, s[i].of = r)
<1>1. PICK f \in [DOMAIN t -> DOMAIN s \ {i}] :
            /\ \A j \in DOMAIN t : t[j] = s[f[j]]
            /\ \A j, k \in DOMAIN t : (f[j] > f[k] <=> j > k) /\ (f[j] = f[k] => j = k)
            /\ \A k \in DOMAIN s \ {i} : \E j \in DOMAIN t : f[j] = k
  BY Left
<1> DEFINE T == Counted(t, r)
           C == Counted(s, r) \ {i}
           g == [j \in T |-> f[j]]
<1>2. g \in [T -> C]
  BY <1>1 DEF Counted
<1>3. IsFiniteSet(Counted(s, r))
  <2>1. DOMAIN s = 1..Len(s) /\ Len(s) \in Nat
    BY Listed1
  <2>2. IsFiniteSet(1..Len(s)) /\ Counted(s, r) \in SUBSET (1..Len(s))
    BY <2>1, FS_Interval DEF Counted
  <2> QED
    BY <2>2, FS_Subset
<1>4. g \in Injection(T, C)
  <2>1. \A j, k \in T : g[j] = g[k] => j = k
    BY <1>1 DEF Counted
  <2> QED
    BY <1>2, <2>1 DEF Injection, IsInjective
<1>5. IsFiniteSet(C) /\ Cardinality(C) = IF i \in Counted(s, r) THEN Cardinality(Counted(s, r)) - 1
                                                             ELSE Cardinality(Counted(s, r))
  BY <1>3, FS_RemoveElement
<1> HIDE DEF T, C, g
<1>6. IsFiniteSet(T) /\ Cardinality(T) <= Cardinality(C)
  BY <1>4, <1>5, FS_Injection
<1>7. i \in Counted(s, r) <=> s[i].of = r
  BY DEF Counted
<1>8. Cardinality(Counted(s, r)) \in Nat /\ Cardinality(T) \in Nat
  BY <1>3, <1>6, FS_CardinalityType
<1>9. QED
  BY <1>5, <1>6, <1>7, <1>8 DEF T, OneLess

-----------------------------------------------------------------------------
(* The views as they are mounted *)

LEMMA AskedFirst ==
  ASSUME NEW S, NEW c \in S, NEW t, t = <<c>>
  PROVE  /\ t \in Seq(S) /\ Len(t) = 1 /\ t # <<>> /\ DOMAIN t = {1} /\ t[1] = c
         /\ \A r : Asked(t, r) <=> c.of = r
         /\ \A r, a : AllAbout(t, r, a) <=> (c.of = r => c.arg = a)
         /\ \A r, a : c.of = r /\ c.arg = a => Newest(t, r, a)
         /\ \A rs : Alone(t, rs)
<1>1. t \in Seq(S) /\ Len(t) = 1 /\ t[1] = c /\ DOMAIN t = {1} /\ t # <<>>
  OBVIOUS
<1>2. \A j, k \in DOMAIN t : j = k /\ ~(j > k)
  BY <1>1
<1>3. QED
  BY <1>1, <1>2 DEF Asked, AllAbout, Newest, Alone

LEMMA AskedNothing ==
  ASSUME NEW S, NEW t, t = <<>>
  PROVE  /\ t \in Seq(S) /\ Len(t) = 0
         /\ \A r : ~Asked(t, r)
         /\ \A r, a : AllAbout(t, r, a)
         /\ \A rs : Alone(t, rs)
         /\ \A r : Counted(t, r) = {}
  BY DEF Asked, AllAbout, Alone, Counted

LEMMA SetsToSeqs ==
  /\ SetToSeq({}) = <<>>
  /\ \A c : SetToSeq({c}) = <<c>>
<1>1. SetToSeq({}) = <<>>
  <2>1. Cardinality({}) = 0 /\ 1..0 = {}
    BY FS_EmptySet
  <2>2. \A f \in [{} -> {}] : f = <<>>
    OBVIOUS
  <2>3. <<>> \in [{} -> {}] /\ IsInjective(<<>>)
    BY DEF IsInjective
  <2> QED
    BY <2>1, <2>2, <2>3 DEF SetToSeq
<1>2. ASSUME NEW c PROVE SetToSeq({c}) = <<c>>
  <2>1. Cardinality({c}) = 1
    BY FS_Singleton
  <2>0. 1..1 = {1}
    OBVIOUS
  <2>2. \A f \in [{1} -> {c}] : f = <<c>>
    OBVIOUS
  <2>3. <<c>> \in [{1} -> {c}] /\ IsInjective(<<c>>)
    BY DEF IsInjective
  <2> QED
    BY <2>0, <2>1, <2>2, <2>3 DEF SetToSeq
<1>3. QED
  BY <1>1, <1>2

LEMMA Mounted ==
  ASSUME world \in Worlds, NEW m \in AllViews \cup {Elsewhere}, NEW o \in BOOLEAN,
         NEW s, s = SetToSeq({Call(r, m.view.sel) : r \in m.first})
  PROVE  ViewOK(m.view, s, o) /\ Len(s) <= MaxCalls
<1>1. MaxCalls \in Nat \ {0} /\ Nothing \in Selections /\ world \in Sights /\ Questions \in Nat \ {0}
      /\ MaxOrders \in Nat
  BY ViewsAssumption, QuestionsAssumption, MaxOrdersAssumption DEF Selections, Sights
<1>0. 0 <= MaxCalls /\ 1 <= MaxCalls
  BY ViewsAssumption
<1>2. \A r, a, rs, args : r \in rs /\ a \in args => Call(r, a) \in Replies(rs, args)
  BY <1>1 DEF Call, Replies
<1>3. \A r, a : Call(r, a).of = r /\ Call(r, a).arg = a
  BY DEF Call
<1>4. ASSUME NEW q, NEW S, Call(q, m.view.sel) \in S, m.first = {q}
      PROVE  /\ s \in Seq(S) /\ Len(s) = 1 /\ s # <<>> /\ DOMAIN s = {1} /\ s[1].of = q
             /\ \A r : Asked(s, r) <=> q = r
             /\ \A r : AllAbout(s, r, m.view.sel)
             /\ Newest(s, q, m.view.sel)
             /\ \A rs : Alone(s, rs)
  <2>1. s = <<Call(q, m.view.sel)>>
    <3>1. {Call(r, m.view.sel) : r \in m.first} = {Call(q, m.view.sel)}
      BY <1>4
    <3>2. SetToSeq({Call(q, m.view.sel)}) = <<Call(q, m.view.sel)>>
      BY SetsToSeqs, Zenon
    <3> QED
      BY <3>1, <3>2
  <2>2. PICK c : c = Call(q, m.view.sel)
    OBVIOUS
  <2>3. c \in S /\ s = <<c>> /\ c.of = q /\ c.arg = m.view.sel
    BY <1>3, <1>4, <2>1, <2>2
  <2>4. /\ s \in Seq(S) /\ Len(s) = 1 /\ s # <<>> /\ DOMAIN s = {1} /\ s[1] = c
        /\ \A r : Asked(s, r) <=> c.of = r
        /\ \A r, a : AllAbout(s, r, a) <=> (c.of = r => c.arg = a)
        /\ \A r, a : c.of = r /\ c.arg = a => Newest(s, r, a)
        /\ \A rs : Alone(s, rs)
    BY <2>3, AskedFirst
  <2> QED
    BY <2>3, <2>4
<1>5. ASSUME m.first = {}
      PROVE  /\ s = <<>> /\ Len(s) = 0
             /\ \A S : s \in Seq(S)
             /\ \A r : ~Asked(s, r)
             /\ \A r, a : AllAbout(s, r, a)
             /\ \A rs : Alone(s, rs)
             /\ \A r : Counted(s, r) = {}
  <2>1. {Call(r, m.view.sel) : r \in m.first} = {}
    BY <1>5
  <2>2. s = <<>>
    BY <2>1, SetsToSeqs
  <2> QED
    BY <2>2, AskedNothing
<1> DEFINE v == m.view
<1>6. ASSUME NEW kind, NEW mores, NEW more \in mores, m = Mount(kind, {"load"}, {}, more)
      PROVE  Plain(v, s, kind, mores) /\ Accounts(v) /\ Len(s) <= MaxCalls
  <2>1. /\ v = [kind |-> kind, sel |-> Nothing, spins |-> {"load"}, errors |-> {},
                got |-> [r \in {"load"} |-> None], more |-> more]
        /\ m.first = {"load"}
    BY <1>6 DEF Mount
  <2>2. v \in Shape(kind, {Nothing}, {"load"}, Loading, mores)
    BY <2>1 DEF Shape, Loading
  <2>3. /\ s \in Seq(Replies({"load"}, {Nothing})) /\ Len(s) = 1
        /\ Asked(s, "load")
    BY <1>2, <1>4, <2>1
  <2>4. v.spins = {"load"}
    BY <2>1
  <2> QED
    BY <1>0, <2>2, <2>3, <2>4 DEF Plain, Spun, Accounts
<1> HIDE DEF v
<1>F. /\ [on |-> TRUE] \in [on : {TRUE}]
      /\ [notConfigured |-> FALSE] \in [notConfigured : BOOLEAN]
      /\ [reachable |-> TRUE] \in [reachable : BOOLEAN]
      /\ [hasCluster |-> "unknown"] \in [hasCluster : Clusters]
  BY DEF Clusters
<1>7. CASE m = StatusPage
  BY <1>6, <1>F, <1>7 DEF v, StatusPage, StatusOK, ViewOK
<1>8. CASE m = ClusterProvider
  BY <1>6, <1>F, <1>8 DEF v, ClusterProvider, ClusterOK, ViewOK
<1>9. CASE m = DoctorPage
  BY <1>6, <1>F, <1>9 DEF v, DoctorPage, DoctorOK, ViewOK
<1>10. CASE m = Environments
  BY <1>6, <1>F, <1>10 DEF v, Environments, EnvironmentsOK, ViewOK
<1>11. CASE m = Applications
  BY <1>6, <1>F, <1>11 DEF v, Applications, ApplicationsOK, ViewOK
<1>12. CASE m = Overview
  <2>1. /\ v = [kind |-> "OverviewPage", sel |-> Nothing, spins |-> {"load"}, errors |-> {},
                got |-> [r \in {"load"} |-> None],
                more |-> [hasCluster |-> "unknown", recent |-> Nothing]]
        /\ m.first = {"load"} /\ m.view.sel = Nothing
    BY <1>12 DEF v, Mount, Overview
  <2>2. v \in Shape("OverviewPage", Selections, {"load"},
                   [{"load"} -> Replies({"load"}, Selections) \cup {None}],
                   [hasCluster : Clusters, recent : Selections])
    BY <1>1, <2>1 DEF Shape, Clusters
  <2>3. /\ s \in Seq(Replies({"load"}, Selections)) /\ Len(s) = 1
        /\ Asked(s, "load") /\ AllAbout(s, "load", Nothing) /\ Newest(s, "load", Nothing)
    <3>1. Call("load", Nothing) \in Replies({"load"}, Selections)
      BY <1>1, <1>2
    <3> QED
      BY <1>4, <2>1, <3>1
  <2>4. v.spins = {"load"} /\ v.sel = Nothing /\ v.more.recent = Nothing
    BY <2>1
  <2>5. OverviewOK(v, s, o)
    BY <2>2, <2>3, <2>4 DEF OverviewOK, Spun, Accounts
  <2> QED
    BY <1>0, <2>3, <2>5 DEF v, ViewOK
<1>13. CASE m = Application
  <2>1. /\ v = [kind |-> "ApplicationDetailPage", sel |-> Nothing, spins |-> {"load"}, errors |-> {},
                got |-> [r \in {"load", "logs", "restart"} |-> None],
                more |-> [tab |-> "overview"]]
        /\ m.first = {"load"} /\ m.view.sel = Nothing
    <3>1. {"load"} \cup {"logs", "restart"} = {"load", "logs", "restart"}
      OBVIOUS
    <3> QED
      BY <1>13, <3>1 DEF v, Mount, Application
  <2>2. v \in Shape("ApplicationDetailPage", Selections, {"load", "logs"},
                   [{"load", "logs", "restart"} -> Replies({"load", "logs"}, Selections) \cup {None}],
                   [tab : {"overview", "logs"}])
    BY <1>1, <2>1 DEF Shape
  <2>3. /\ s \in Seq(Replies({"load", "logs", "restart"}, Selections)) /\ Len(s) = 1
        /\ Asked(s, "load")
    <3>1. Call("load", Nothing) \in Replies({"load", "logs", "restart"}, Selections)
      BY <1>1, <1>2
    <3> QED
      BY <1>4, <2>1, <3>1
  <2>4. v.spins = {"load"} /\ v.sel = Nothing
    BY <2>1
  <2>5. ApplicationOK(v, s, o)
    BY <2>2, <2>3, <2>4 DEF ApplicationOK, Spun
  <2> QED
    BY <1>0, <2>3, <2>5 DEF v, ViewOK
<1>14. CASE m = Monitoring
  <2>1. /\ v = [kind |-> "MonitoringPage", sel |-> Nothing, spins |-> {"load"}, errors |-> {},
                got |-> [r \in {"load", "refresh", "series"} |-> None],
                more |-> [visible |-> TRUE, timer |-> TRUE]]
        /\ m.first = {"load"} /\ m.view.sel = Nothing
    <3>1. {"load"} \cup {"refresh", "series"} = {"load", "refresh", "series"}
      OBVIOUS
    <3> QED
      BY <1>14, <3>1 DEF v, Mount, Monitoring
  <2>2. v \in Shape("MonitoringPage", Selections, {"load", "refresh"},
                   [{"load", "refresh", "series"} ->
                      Replies({"load", "refresh", "series"}, Selections) \cup {None}],
                   [visible : BOOLEAN, timer : BOOLEAN])
    BY <1>1, <2>1 DEF Shape
  <2>3. /\ s \in Seq(Replies({"load", "refresh", "series"}, Selections)) /\ Len(s) = 1
        /\ Asked(s, "load") /\ ~Asked(s, "series") /\ Alone(s, {"series"})
        /\ AllAbout(s, "series", Nothing)
    <3>1. Call("load", Nothing) \in Replies({"load", "refresh", "series"}, Selections)
      BY <1>1, <1>2
    <3> QED
      BY <1>4, <2>1, <3>1
  <2>4. v.spins = {"load"} /\ v.sel = Nothing /\ v.got["series"] = None
    BY <2>1
  <2>5. MonitoringOK(v, s)
    BY <2>2, <2>3, <2>4 DEF MonitoringOK, Accounts
  <2> QED
    BY <1>0, <2>3, <2>5 DEF v, ViewOK
<1>15. CASE m = Registry
  <2>1. /\ v = [kind |-> "ClustersPage", sel |-> Nothing, spins |-> {"clusters"}, errors |-> {},
                got |-> [r \in {"clusters"} |-> None],
                more |-> [registered |-> {CHOOSE c \in Items : TRUE}, listed |-> {},
                          form |-> FALSE, mixed |-> FALSE]]
        /\ m.first = {"clusters"} /\ m.view.sel = Nothing
    BY <1>15 DEF v, Mount, Registry
  <2>2. v \in Shape("ClustersPage", Selections, {"clusters", "register"}, [{"clusters"} -> {None}],
                   [registered : SUBSET Items, listed : SUBSET Items,
                    form : BOOLEAN, mixed : BOOLEAN])
    <3>1. {CHOOSE c \in Items : TRUE} \in SUBSET Items
      BY ViewsAssumption
    <3> HIDE ViewsAssumption
    <3> QED
      BY <1>1, <2>1, <3>1 DEF Shape
  <2>3. /\ s \in Seq(Replies({"clusters"}, {Nothing}) \cup Replies({"register"}, Items)
                   \cup Replies({"unregister"}, Deletions)) /\ Len(s) = 1
        /\ s # <<>> /\ DOMAIN s = {1} /\ s[1].of = "clusters"
        /\ Asked(s, "clusters")
    <3>1. Call("clusters", Nothing) \in Replies({"clusters"}, {Nothing}) \cup Replies({"register"}, Items)
                   \cup Replies({"unregister"}, Deletions)
      BY <1>2
    <3> QED
      BY <1>4, <2>1, <3>1
  <2>4. v.spins = {"clusters"}
    BY <2>1
  <2>5. Len(s) <= 1 /\ s # <<>> /\ \A k \in DOMAIN s : s[k].of # "unregister"
    <3>1. Len(s) <= 1
      BY <2>3
    <3>2. \A k \in DOMAIN s : s[k].of # "unregister"
      BY <2>3
    <3> QED
      BY <2>3, <3>1, <3>2
  <2>6. RegistryOK(v, s)
    BY <2>2, <2>3, <2>4, <2>5 DEF RegistryOK, Spun
  <2> QED
    BY <1>0, <2>3, <2>6 DEF v, ViewOK
<1>16. CASE m = Compose
  <2>1. /\ v = [kind |-> "ComposeImport", sel |-> Nothing, spins |-> {}, errors |-> {},
                got |-> [r \in {"parse"} |-> None],
                more |-> [phase |-> "input", sent |-> Nothing]]
        /\ m.first = {}
    BY <1>16 DEF v, Mount, Compose
  <2>2. v \in Shape("ComposeImport", Selections, {"parse"},
                   [{"parse"} -> Replies({"parse"}, Selections) \cup {None}],
                   [phase : {"input", "parsing", "breakdown", "preview"}, sent : Selections])
    BY <1>1, <2>1 DEF Shape
  <2>3. v.spins = {} /\ v.more.phase = "input"
    BY <2>1
  <2>4. ComposeOK(v, s)
    BY <1>5, <2>1, <2>2, <2>3 DEF ComposeOK, Spun
  <2> QED
    BY <1>1, <1>5, <2>1, <2>4 DEF v, ViewOK
<1>17. CASE m = GitHub
  <2>1. /\ v = [kind |-> "GitHubImport", sel |-> Nothing, spins |-> {}, errors |-> {},
                got |-> [r \in {"scan"} |-> None],
                more |-> [phase |-> "idle", sent |-> Nothing, editing |-> FALSE, checked |-> FALSE]]
        /\ m.first = {}
    BY <1>17 DEF v, Mount, GitHub
  <2>2. v \in Shape("GitHubImport", Selections, {"scan", "check"},
                   [{"scan"} -> Replies({"scan", "check"}, Selections) \cup {None}],
                   [phase : {"idle", "scanning", "results", "error"}, sent : Selections,
                    editing : BOOLEAN, checked : BOOLEAN])
    BY <1>1, <2>1 DEF Shape
  <2>3. v.spins = {} /\ v.more.phase = "idle"
    BY <2>1
  <2>4. GitHubOK(v, s)
    BY <1>5, <2>1, <2>2, <2>3 DEF GitHubOK, Spun
  <2> QED
    BY <1>1, <1>5, <2>1, <2>4 DEF v, ViewOK
<1>18. CASE m = Templates
  <2>1. /\ v = [kind |-> "TemplateCatalog", sel |-> Nothing, spins |-> {"list"}, errors |-> {},
                got |-> [r \in {"list"} |-> None], more |-> [on |-> TRUE]]
        /\ m.first = {"list"} /\ m.view.sel = Nothing
    BY <1>18 DEF v, Mount, Templates
  <2>2. v \in Shape("TemplateCatalog", Selections, {"list"},
                   [{"list"} -> Replies({"list"}, Selections) \cup {None}], [on : {TRUE}])
    BY <1>1, <2>1 DEF Shape
  <2>3. /\ s \in Seq(Replies({"list"}, Selections)) /\ Len(s) = 1
        /\ Asked(s, "list") /\ Newest(s, "list", Nothing)
    <3>1. Call("list", Nothing) \in Replies({"list"}, Selections)
      BY <1>1, <1>2
    <3> QED
      BY <1>4, <2>1, <3>1
  <2>4. v.spins = {"list"} /\ v.sel = Nothing
    BY <2>1
  <2>5. TemplatesOK(v, s, o)
    BY <2>2, <2>3, <2>4 DEF TemplatesOK, Catalog, Spun
  <2> QED
    BY <1>0, <2>3, <2>5 DEF v, ViewOK
<1>19. CASE m = Marketplace
  <2>1. /\ v = [kind |-> "RecipeCatalog", sel |-> <<Nothing, Nothing>>, spins |-> {"list"}, errors |-> {},
                got |-> [r \in {"list"} |-> None],
                more |-> [typed |-> {}, retried |-> FALSE, opened |-> FALSE]]
        /\ m.first = {"list"} /\ m.view.sel = <<Nothing, Nothing>>
    BY <1>19 DEF v, Mount, Marketplace
  <2>2. v \in Shape("RecipeCatalog", Selections \X Selections, {"list"},
                   [{"list"} -> Replies({"list"}, Selections \X Selections) \cup {None}],
                   [typed : SUBSET Selections, retried : BOOLEAN, opened : BOOLEAN])
    BY <1>1, <2>1 DEF Shape
  <2>3. /\ s \in Seq(Replies({"list"}, Selections \X Selections)) /\ Len(s) = 1
        /\ Asked(s, "list") /\ Newest(s, "list", <<Nothing, Nothing>>)
    <3>1. Call("list", <<Nothing, Nothing>>) \in Replies({"list"}, Selections \X Selections)
      BY <1>1, <1>2
    <3> QED
      BY <1>4, <2>1, <3>1
  <2>4. v.spins = {"list"} /\ v.sel = <<Nothing, Nothing>>
    BY <2>1
  <2>5. MarketplaceOK(v, s, o)
    BY <2>2, <2>3, <2>4 DEF MarketplaceOK, Catalog, Spun
  <2> QED
    BY <1>0, <2>3, <2>5 DEF v, ViewOK
<1>20. CASE m = Framework
  <2>1. /\ v = [kind |-> "FrameworkWizard", sel |-> Nothing, spins |-> {}, errors |-> {},
                got |-> [r \in {"generate"} |-> None],
                more |-> [step |-> 0, hasty |-> FALSE]]
        /\ m.first = {}
    BY <1>20 DEF v, Mount, Framework
  <2>2. v \in Shape("FrameworkWizard", Selections, {"generate"},
                   [{"generate"} -> Replies({"generate"}, Selections) \cup {None, Fallback, Edited}],
                   [step : Nat, hasty : BOOLEAN])
    BY <1>1, <2>1 DEF Shape
  <2>3. v.spins = {} /\ v.more.step = 0
    BY <2>1
  <2>4. Len(s) = 0 /\ 0 + 0 < Questions + MaxCalls /\ 0 # Questions /\ 0 <= Questions
    BY <1>1, <1>5, <2>1
  <2>5. FrameworkOK(v, s)
    BY <1>5, <2>1, <2>2, <2>3, <2>4 DEF FrameworkOK, Spun
  <2> QED
    BY <1>1, <1>5, <2>1, <2>5 DEF v, ViewOK
<1>21. CASE m = Builder
  <2>1. /\ v = [kind |-> "RecipeBuilderPage", sel |-> Nothing, spins |-> {"recipe"}, errors |-> {},
                got |-> [r \in {"recipe"} |-> None],
                more |-> [canvas |-> Empty, sent |-> Empty,
                          stored |-> [blocks |-> Items, links |-> {}]]]
        /\ m.first = {"recipe"} /\ m.view.sel = Nothing
    BY <1>21 DEF v, Mount, Builder
  <2>2. Empty \in Canvases /\ [blocks |-> Items, links |-> {}] \in Canvases
    BY DEF Empty, Canvases
  <2>3. v \in Shape("RecipeBuilderPage", Selections, {"recipe", "save"}, [{"recipe"} -> {None}],
                   [canvas : Canvases, sent : Canvases, stored : Canvases])
    BY <1>1, <2>1, <2>2 DEF Shape
  <2>4. /\ s \in Seq(Replies({"recipe"}, {Nothing}) \cup Replies({"save"}, Canvases)) /\ Len(s) = 1
        /\ Asked(s, "recipe") /\ ~Asked(s, "save") /\ Alone(s, {"save"})
    <3>1. Call("recipe", Nothing) \in Replies({"recipe"}, {Nothing}) \cup Replies({"save"}, Canvases)
      BY <1>2
    <3> QED
      BY <1>4, <2>1, <3>1
  <2>5. v.spins = {"recipe"} /\ v.more.sent = Empty
    BY <2>1
  <2>7. AllAbout(s, "save", Empty)
    BY <2>4 DEF AllAbout, Asked
  <2>6. BuilderOK(v, s)
    BY <2>3, <2>4, <2>5, <2>7 DEF BuilderOK, Spun
  <2> QED
    BY <1>0, <2>4, <2>6 DEF v, ViewOK
<1>22. CASE m = Wizard
  <2>1. /\ v = [kind |-> "DeployWizard", sel |-> Nothing, spins |-> {}, errors |-> {},
                got |-> [r \in {} |-> None],
                more |-> [status |-> "idle", preview |-> Nothing, order |-> 0, told |-> 0,
                          fates |-> <<>>, doubled |-> FALSE]]
        /\ m.first = {}
    <3>1. {} \cup {} = {}
      OBVIOUS
    <3> QED
      BY <1>22, <3>1 DEF v, Mount, Wizard
  <2>2. v \in Shape("DeployWizard", Selections, {}, [{} -> {None}],
                   [status : {"idle", "reviewing", "cooking", "served", "burned"},
                    preview : Selections, order : Nat, told : Nat,
                    fates : Seq(Fates), doubled : BOOLEAN])
    BY <1>1, <2>1 DEF Shape
  <2>3. v.more.order = 0 /\ Len(v.more.fates) = 0 /\ v.more.status = "idle"
    BY <2>1
  <2>4. Cardinality(Counted(s, "import")) = 0
    <3>1. Counted(s, "import") = {}
      BY <1>5, <2>1
    <3> QED
      BY <3>1, FS_EmptySet
  <2>6. v.more.order <= Len(v.more.fates)
        /\ Len(v.more.fates) + Cardinality(Counted(s, "import")) <= MaxOrders
    BY <1>1, <2>3, <2>4
  <2>5. WizardOK(v, s)
    BY <1>5, <2>1, <2>2, <2>3, <2>6 DEF WizardOK
  <2> QED
    BY <1>1, <1>5, <2>1, <2>5 DEF v, ViewOK
<1>23. CASE m = Elsewhere
  <2>1. m.first = {}
    BY <1>23 DEF v, Elsewhere, Mount
  <2> QED
    BY <1>1, <1>5, <1>23, <2>1 DEF ViewOK, ElsewhereOK
<1>24. QED
  BY <1>7, <1>8, <1>9, <1>10, <1>11, <1>12, <1>13, <1>14, <1>15, <1>16, <1>17, <1>18, <1>19,
     <1>20, <1>21, <1>22, <1>23 DEF AllViews, ClusterViews, ImportViews, RecipeViews

-----------------------------------------------------------------------------
(* The steps of a view: what each leaves of the bounds and the requests *)

LEMMA Kept ==
  ASSUME Bounds, Locally
  PROVE  Bounds' /\ calls' = calls /\ overtaken' = overtaken
BY DEF Bounds, Locally

(* Request q is made, about a. *)
Sends(S, q, a) ==
    /\ overtaken' = overtaken
    /\ calls' \in Seq(S) /\ Len(calls') = Len(calls) + 1 /\ calls' # <<>>
    /\ Len(calls) < MaxCalls /\ Len(calls) \in Nat
    /\ \A r : Asked(calls', r) <=> Asked(calls, r) \/ q = r
    /\ \A r, b : AllAbout(calls', r, b) <=> AllAbout(calls, r, b) /\ (q = r => a = b)
    /\ Newest(calls', q, a)
    /\ \A r, b : q # r /\ Newest(calls, r, b) => Newest(calls', r, b)
    /\ \A rs : Alone(calls, rs) /\ (q \in rs => \A r \in rs : ~Asked(calls, r))
                 => Alone(calls', rs)

LEMMA Sent ==
  ASSUME Bounds, NEW S, calls \in Seq(S), NEW q, NEW a, Replies({q}, {a}) \subseteq S,
         Asks(q, a) \/ Requests(q, a)
  PROVE  Bounds' /\ Sends(S, q, a)
<1>1. world \in Sights /\ Nowhere \in Sights
  BY DEF Bounds, Sights
<1>2. PICK c : c \in S /\ c.of = q /\ c.arg = a /\ calls' = Append(calls, c)
  <2>1. Call(q, a) \in Replies({q}, {a}) /\ Request(q, a) \in Replies({q}, {a})
    BY <1>1 DEF Call, Request, Replies
  <2>2. /\ Call(q, a).of = q /\ Call(q, a).arg = a
        /\ Request(q, a).of = q /\ Request(q, a).arg = a
    BY DEF Call, Request
  <2> QED
    BY <2>1, <2>2 DEF Asks, Requests
<1>3. Len(calls) < MaxCalls /\ UNCHANGED <<world, faults, overtaken>>
  BY DEF Asks, Requests
<1>4. PICK t : t = calls'
  OBVIOUS
<1>T. calls \in Seq(S) /\ c \in S /\ t = Append(calls, c)
  BY <1>2, <1>4
<1>5. HasAsked(S, calls, c, t)
  BY <1>T, Asking
<1>6. Len(t) <= MaxCalls
  BY <1>3, <1>5, ViewsAssumption DEF HasAsked
<1>7. Bounds'
  BY <1>3, <1>4, <1>6 DEF Bounds
<1>8. QED
  BY <1>2, <1>3, <1>4, <1>5, <1>7 DEF HasAsked, Sends

(* Request i, one for q, comes back. *)
Comes(S, q, i) ==
    /\ (~overtaken' => ~overtaken)
    /\ i \in DOMAIN calls /\ calls[i].of = q /\ calls[i] \in S /\ Asked(calls, q)
    /\ calls' \in Seq(S) /\ Len(calls') = Len(calls) - 1 /\ Len(calls) \in Nat /\ calls # <<>>
    /\ Len(calls) <= 1 => calls' = <<>>
    /\ \A r : Asked(calls', r) => Asked(calls, r)
    /\ \A r : Asked(calls, r) /\ r # q => Asked(calls', r)
    /\ \A r, a : AllAbout(calls, r, a) => AllAbout(calls', r, a)
    /\ \A a : AllAbout(calls, q, a) => calls[i].arg = a
    /\ \A r, a : r # q /\ Newest(calls, r, a) => Newest(calls', r, a)
    /\ ~overtaken' => \A a : Newest(calls, q, a) =>
          Newest(calls', q, a) \/ (~Asked(calls', q) /\ calls[i].arg = a)
    /\ \A rs : Alone(calls, rs) => Alone(calls', rs)
    /\ \A rs : Alone(calls, rs) /\ q \in rs => \A r \in rs : ~Asked(calls', r)

LEMMA Came ==
  ASSUME Bounds, NEW S, calls \in Seq(S), NEW q, NEW i, Answered(q, i) \/ Lost(q, i)
  PROVE  Bounds' /\ Comes(S, q, i)
<1>1. /\ i \in DOMAIN calls /\ calls[i].of = q /\ calls' = RemoveAt(calls, i) /\ world' = world
      /\ overtaken' = (overtaken \/ \E j \in 1..(i - 1) : calls[j].of = q)
  BY DEF Answered, Lost, Returns
<1>2. faults' \in 0..MaxFaults
  BY ViewsAssumption DEF Bounds, Answered, Lost
<1>3. PICK t : t = calls'
  OBVIOUS
<1>T. calls \in Seq(S) /\ i \in DOMAIN calls /\ t = RemoveAt(calls, i)
  BY <1>1, <1>3
<1>4. IsAnswered(S, calls, i, t)
  BY <1>T, Returning
<1>5. Len(t) <= MaxCalls
  BY <1>4, ViewsAssumption DEF Bounds, IsAnswered
<1>6. overtaken' \in BOOLEAN /\ (~overtaken' => ~overtaken /\ \A j \in 1..(i - 1) : calls[j].of # q)
  BY <1>1 DEF Bounds
<1>7. Bounds'
  BY <1>1, <1>2, <1>3, <1>5, <1>6 DEF Bounds
<1>8. QED
  BY <1>1, <1>3, <1>4, <1>6, <1>7 DEF IsAnswered, Comes

(* The same, and c is asked for. *)
ComesAsking(S, q, i, c) ==
    /\ (~overtaken' => ~overtaken)
    /\ i \in DOMAIN calls /\ calls[i].of = q /\ calls[i] \in S /\ Asked(calls, q)
    /\ calls' \in Seq(S) /\ Len(calls') = Len(calls) /\ calls' # <<>>
    /\ Asked(calls', c.of)
    /\ \A r : Asked(calls', r) => Asked(calls, r) \/ r = c.of
    /\ \A r : Asked(calls, r) /\ r # q => Asked(calls', r)
    /\ \A r, a : AllAbout(calls, r, a) /\ (c.of = r => c.arg = a) => AllAbout(calls', r, a)
    /\ \A a : AllAbout(calls, q, a) => calls[i].arg = a
    /\ Newest(calls', c.of, c.arg)
    /\ \A r, a : r \notin {q, c.of} /\ Newest(calls, r, a) => Newest(calls', r, a)
    /\ \A rs : Alone(calls, rs) /\ (q \in rs \/ c.of \notin rs) => Alone(calls', rs)
    /\ \A rs : Alone(calls, rs) /\ q \in rs => \A r \in rs : r = c.of \/ ~Asked(calls', r)

LEMMA CameAsking ==
  ASSUME Bounds, NEW S, calls \in Seq(S), NEW q, NEW i, NEW c \in S, ReturnsAsking(q, i, c)
  PROVE  Bounds' /\ ComesAsking(S, q, i, c)
<1>1. /\ i \in DOMAIN calls /\ calls[i].of = q /\ calls' = Append(RemoveAt(calls, i), c)
      /\ overtaken' = (overtaken \/ \E j \in 1..(i - 1) : calls[j].of = q)
      /\ UNCHANGED <<world, faults>>
  BY DEF ReturnsAsking
<1>2. PICK u : u = RemoveAt(calls, i)
  OBVIOUS
<1>3. PICK t : t = calls'
  OBVIOUS
<1>4. IsAnswered(S, calls, i, u)
  BY <1>1, <1>2, Returning
<1>5. u \in Seq(S) /\ c \in S /\ t = Append(u, c)
  BY <1>1, <1>2, <1>3, <1>4 DEF IsAnswered
<1>6. HasAsked(S, u, c, t)
  BY <1>5, Asking
<1>7. Len(t) = Len(calls) /\ Len(t) <= MaxCalls
  BY <1>4, <1>6 DEF Bounds, HasAsked, IsAnswered
<1>8. overtaken' \in BOOLEAN /\ (~overtaken' => ~overtaken)
  BY <1>1 DEF Bounds
<1>9. Bounds'
  BY <1>1, <1>3, <1>7, <1>8 DEF Bounds
<1>10. QED
  BY <1>1, <1>3, <1>4, <1>6, <1>7, <1>8, <1>9 DEF HasAsked, IsAnswered, ComesAsking

(* What was answered is something. *)
LEMMA Something ==
  /\ None.of = "" /\ None.arg = Nothing
  /\ \A c : c.of # "" => c # None
<1>1. None.of = ""
  BY DEF None
<1>2. None.arg = Nothing
  BY DEF None
<1> QED
  BY <1>1, <1>2, Zenon

(* The record of a view, and how the helpers of the views change it. *)
LEMMA Records ==
  ASSUME NEW kind, NEW sels, NEW rs, NEW gots, NEW mores, NEW v \in Shape(kind, sels, rs, gots, mores)
  PROVE  /\ v.kind = kind /\ v.sel \in sels /\ v.got \in gots /\ v.more \in mores
         /\ v.spins \subseteq rs /\ v.errors \subseteq rs
  BY DEF Shape

LEMMA Changes ==
  ASSUME NEW kind, NEW sels, NEW rs, NEW gots, NEW mores, NEW v \in Shape(kind, sels, rs, gots, mores)
  PROVE  /\ \A x \in sels : LET w == [v EXCEPT !.sel = x] IN
              /\ w \in Shape(kind, sels, rs, gots, mores) /\ w.sel = x
              /\ w.spins = v.spins /\ w.errors = v.errors /\ w.got = v.got /\ w.more = v.more
         /\ \A x \in SUBSET rs : LET w == [v EXCEPT !.spins = x] IN
              /\ w \in Shape(kind, sels, rs, gots, mores) /\ w.spins = x
              /\ w.sel = v.sel /\ w.errors = v.errors /\ w.got = v.got /\ w.more = v.more
         /\ \A x \in SUBSET rs : LET w == [v EXCEPT !.errors = x] IN
              /\ w \in Shape(kind, sels, rs, gots, mores) /\ w.errors = x
              /\ w.sel = v.sel /\ w.spins = v.spins /\ w.got = v.got /\ w.more = v.more
         /\ \A x \in gots : LET w == [v EXCEPT !.got = x] IN
              /\ w \in Shape(kind, sels, rs, gots, mores) /\ w.got = x
              /\ w.sel = v.sel /\ w.spins = v.spins /\ w.errors = v.errors /\ w.more = v.more
         /\ \A x \in mores : LET w == [v EXCEPT !.more = x] IN
              /\ w \in Shape(kind, sels, rs, gots, mores) /\ w.more = x
              /\ w.sel = v.sel /\ w.spins = v.spins /\ w.errors = v.errors /\ w.got = v.got
  BY DEF Shape

LEMMA OfSpinning ==
  ASSUME NEW kind, NEW sels, NEW rs, NEW gots, NEW mores, NEW v \in Shape(kind, sels, rs, gots, mores),
         NEW r \in rs
  PROVE  /\ Spinning(v, r) \in Shape(kind, sels, rs, gots, mores)
         /\ Spinning(v, r).sel = v.sel /\ Spinning(v, r).got = v.got /\ Spinning(v, r).more = v.more
         /\ Spinning(v, r).spins = v.spins \cup {r} /\ Spinning(v, r).errors = v.errors \ {r}
  BY DEF Shape, Spinning

LEMMA OfGot ==
  ASSUME NEW kind, NEW sels, NEW rs, NEW gots, NEW mores, NEW v \in Shape(kind, sels, rs, gots, mores),
         NEW r, NEW c, [v.got EXCEPT ![r] = c] \in gots
  PROVE  /\ Got(v, r, c) \in Shape(kind, sels, rs, gots, mores)
         /\ Got(v, r, c).sel = v.sel /\ Got(v, r, c).more = v.more
         /\ Got(v, r, c).spins = v.spins \ {r} /\ Got(v, r, c).errors = v.errors
         /\ Got(v, r, c).got = [v.got EXCEPT ![r] = c]
  BY DEF Shape, Got

LEMMA OfFailing ==
  ASSUME NEW kind, NEW sels, NEW rs, NEW gots, NEW mores, NEW v \in Shape(kind, sels, rs, gots, mores),
         NEW r \in rs
  PROVE  /\ Failing(v, r) \in Shape(kind, sels, rs, gots, mores)
         /\ Failing(v, r).sel = v.sel /\ Failing(v, r).got = v.got /\ Failing(v, r).more = v.more
         /\ Failing(v, r).spins = v.spins \ {r} /\ Failing(v, r).errors = v.errors \cup {r}
  BY DEF Shape, Failing

-----------------------------------------------------------------------------
(* The pages that load one thing *)

LEMMA PlainMore ==
  ASSUME NEW kind, NEW mores, NEW v, NEW s, Plain(v, s, kind, mores), NEW m \in mores
  PROVE  /\ Plain([v EXCEPT !.more = m], s, kind, mores)
         /\ [v EXCEPT !.more = m].more = m
         /\ Accounts(v) => Accounts([v EXCEPT !.more = m])
<1>1. v \in Shape(kind, {Nothing}, {"load"}, Loading, mores)
  BY DEF Plain
<1>2. PICK w : w = [v EXCEPT !.more = m]
  OBVIOUS
<1>3. /\ w \in Shape(kind, {Nothing}, {"load"}, Loading, mores) /\ w.more = m
      /\ w.spins = v.spins /\ w.errors = v.errors /\ w.got = v.got
  BY <1>1, <1>2, Changes
<1> QED
  BY <1>2, <1>3 DEF Plain, Spun, Accounts

LEMMA PlainAsks ==
  ASSUME NEW kind, NEW mores, Bounds, Plain(view, calls, kind, mores), Asks("load", Nothing)
  PROVE  /\ Bounds' /\ Plain(view, calls', kind, mores)
         /\ Plain(Spinning(view, "load"), calls', kind, mores)
         /\ Accounts(Spinning(view, "load")) /\ Spinning(view, "load").more = view.more
<1> DEFINE S == Replies({"load"}, {Nothing})
<1>1. /\ view \in Shape(kind, {Nothing}, {"load"}, Loading, mores)
      /\ calls \in Seq(S) /\ Spun(view, calls)
  BY DEF Plain
<1> HIDE DEF S
<1>2. Bounds' /\ Sends(S, "load", Nothing)
  BY <1>1, Sent DEF S
<1>3. PICK w : w = Spinning(view, "load")
  OBVIOUS
<1>4. /\ w \in Shape(kind, {Nothing}, {"load"}, Loading, mores) /\ w.more = view.more
      /\ w.spins = view.spins \cup {"load"}
  BY <1>1, <1>3, OfSpinning
<1>5. calls' \in Seq(S) /\ Asked(calls', "load") /\ \A r : Asked(calls, r) => Asked(calls', r)
  BY <1>2 DEF Sends
<1>6. Spun(view, calls') /\ Spun(w, calls')
  BY <1>1, <1>4, <1>5 DEF Spun
<1> QED
  BY <1>1, <1>2, <1>3, <1>4, <1>5, <1>6 DEF Plain, Accounts, S

(* What a page makes of answer i. *)
LoadTold(w, i) ==
    \/ w = Got(view, "load", calls[i]) \/ w = Failing(view, "load")
    \/ w = Got(view, "load", [calls[i] EXCEPT !.seen = Nowhere])

LEMMA PlainAnswers ==
  ASSUME NEW kind, NEW mores, Bounds, Plain(view, calls, kind, mores),
         NEW i, Answered("load", i) \/ Lost("load", i), NEW w,
         LoadTold(w, i) \/ w = [view EXCEPT !.spins = {}]
  PROVE  /\ Bounds' /\ Plain(w, calls', kind, mores) /\ w.more = view.more
         /\ LoadTold(w, i) => Accounts(w)
<1> DEFINE S == Replies({"load"}, {Nothing})
<1>1. /\ view \in Shape(kind, {Nothing}, {"load"}, Loading, mores)
      /\ calls \in Seq(S) /\ Spun(view, calls) /\ view.got \in Loading
  BY DEF Plain, Shape
<1>2. \A c \in S : /\ c # None
                   /\ [c EXCEPT !.seen = Nowhere] \in S
  <2>1. \A c \in S : c.of = "load"
    BY DEF Replies
  <2>2. \A c \in S : c # None
    BY <2>1, Something
  <2>3. \A c \in S : [c EXCEPT !.seen = Nowhere] \in S
    BY DEF Replies, Sights
  <2> QED
    BY <2>2, <2>3
<1>3. \A c \in S : [view.got EXCEPT !["load"] = c] \in Loading /\ [view.got EXCEPT !["load"] = c]["load"] = c
  BY <1>1 DEF Loading
<1> HIDE DEF S
<1>4. Bounds' /\ Comes(S, "load", i)
  BY <1>1, Came
<1>5. /\ calls' \in Seq(S) /\ calls[i] \in S
      /\ \A r : Asked(calls, r) /\ r # "load" => Asked(calls', r)
  BY <1>4 DEF Comes
<1>6. ASSUME NEW c \in S, w = Got(view, "load", c)
      PROVE  /\ w \in Shape(kind, {Nothing}, {"load"}, Loading, mores)
             /\ w.more = view.more /\ w.spins = view.spins \ {"load"} /\ Accounts(w)
  <2>1. [view.got EXCEPT !["load"] = c] \in Loading
    BY <1>3
  <2>2. PICK u : u = Got(view, "load", c)
    OBVIOUS
  <2>4. /\ u \in Shape(kind, {Nothing}, {"load"}, Loading, mores)
        /\ u.more = view.more /\ u.spins = view.spins \ {"load"}
        /\ u.got = [view.got EXCEPT !["load"] = c]
    BY <1>1, <2>1, <2>2 DEF Shape, Got
  <2>3. w.got["load"] # None
    BY <1>2, <1>3, <1>6, <2>2, <2>4
  <2> QED
    BY <1>6, <2>2, <2>3, <2>4 DEF Accounts
<1>7. ASSUME w = Failing(view, "load")
      PROVE  /\ w \in Shape(kind, {Nothing}, {"load"}, Loading, mores)
             /\ w.more = view.more /\ w.spins = view.spins \ {"load"} /\ Accounts(w)
  BY <1>1, <1>7, OfFailing DEF Accounts
<1>8. ASSUME w = [view EXCEPT !.spins = {}]
      PROVE  /\ w \in Shape(kind, {Nothing}, {"load"}, Loading, mores)
             /\ w.more = view.more /\ w.spins = view.spins \ {"load"}
  <2>1. /\ w \in Shape(kind, {Nothing}, {"load"}, Loading, mores)
        /\ w.more = view.more /\ w.spins = {}
    BY <1>1, <1>8, Changes
  <2>2. view.spins \subseteq {"load"}
    BY <1>1, Records
  <2> QED
    BY <2>1, <2>2
<1>9. /\ w \in Shape(kind, {Nothing}, {"load"}, Loading, mores)
      /\ w.more = view.more /\ w.spins = view.spins \ {"load"}
      /\ LoadTold(w, i) => Accounts(w)
  BY <1>2, <1>5, <1>6, <1>7, <1>8 DEF LoadTold
<1>10. Spun(w, calls')
  BY <1>1, <1>5, <1>9 DEF Spun
<1> QED
  BY <1>4, <1>5, <1>9, <1>10 DEF Plain, S

LEMMA StatusSteps ==
  ASSUME Bounds, StatusOK(view, calls), StatusFetch \/ \E i \in DOMAIN calls : StatusAnswered(i)
  PROVE  Bounds' /\ StatusOK(view', calls')
<1>1. Plain(view, calls, "StatusPage", [on : {TRUE}])
  BY DEF StatusOK
<1>2. CASE StatusFetch
  BY <1>1, <1>2, PlainAsks DEF StatusFetch, StatusOK
<1>3. CASE \E i \in DOMAIN calls : StatusAnswered(i)
  <2>1. PICK i : StatusAnswered(i)
    BY <1>3
  <2>2. (Answered("load", i) \/ Lost("load", i)) /\ LoadTold(view', i)
    BY <2>1 DEF StatusAnswered, LoadTold
  <2> QED
    BY <1>1, <2>2, PlainAnswers DEF StatusOK
<1> QED
  BY <1>2, <1>3

LEMMA ClusterSteps ==
  ASSUME Bounds, ClusterOK(view, calls), ClusterFetch \/ \E i \in DOMAIN calls : ClusterAnswered(i)
  PROVE  Bounds' /\ ClusterOK(view', calls')
<1>1. Plain(view, calls, "ClusterProvider", [on : {TRUE}])
  BY DEF ClusterOK
<1>2. CASE ClusterFetch
  BY <1>1, <1>2, PlainAsks DEF ClusterFetch, ClusterOK
<1>3. CASE \E i \in DOMAIN calls : ClusterAnswered(i)
  <2>1. PICK i : ClusterAnswered(i)
    BY <1>3
  <2>2. (Answered("load", i) \/ Lost("load", i)) /\ LoadTold(view', i)
    BY <2>1 DEF ClusterAnswered, LoadTold
  <2> QED
    BY <1>1, <2>2, PlainAnswers DEF ClusterOK
<1> QED
  BY <1>2, <1>3

LEMMA EnvironmentsSteps ==
  ASSUME Bounds, EnvironmentsOK(view, calls),
         EnvironmentsRefresh \/ ContextTells \/ \E i \in DOMAIN calls : EnvironmentsAnswered(i)
  PROVE  Bounds' /\ EnvironmentsOK(view', calls')
<1>1. Plain(view, calls, "EnvironmentsPage", [reachable : BOOLEAN]) /\ Accounts(view)
  BY DEF EnvironmentsOK
<1>2. CASE EnvironmentsRefresh
  BY <1>1, <1>2, PlainAsks DEF EnvironmentsRefresh, EnvironmentsOK
<1>3. CASE ContextTells
  <2>1. view.more \in [reachable : BOOLEAN]
    BY <1>1 DEF Plain, Shape
  <2> DEFINE m == [view.more EXCEPT !.reachable = ~@]
  <2>2. m \in [reachable : BOOLEAN]
    BY <2>1
  <2>3. view' = [view EXCEPT !.more = m] /\ Locally
    BY <1>3 DEF ContextTells
  <2> HIDE DEF m
  <2>4. Plain(view', calls, "EnvironmentsPage", [reachable : BOOLEAN]) /\ Accounts(view')
    BY <1>1, <2>2, <2>3, PlainMore
  <2> QED
    BY <2>3, <2>4, Kept DEF EnvironmentsOK
<1>4. CASE \E i \in DOMAIN calls : EnvironmentsAnswered(i)
  <2>1. PICK i : EnvironmentsAnswered(i)
    BY <1>4
  <2>2. (Answered("load", i) \/ Lost("load", i)) /\ LoadTold(view', i)
    BY <2>1 DEF EnvironmentsAnswered, LoadTold
  <2> QED
    BY <1>1, <2>2, PlainAnswers DEF EnvironmentsOK
<1> QED
  BY <1>2, <1>3, <1>4

LEMMA DoctorSteps ==
  ASSUME Bounds, DoctorOK(view, calls), RunDoctor \/ \E i \in DOMAIN calls : DoctorAnswered(i)
  PROVE  Bounds' /\ DoctorOK(view', calls')
<1> DEFINE M == [notConfigured : BOOLEAN]
<1>1. /\ Plain(view, calls, "DoctorPage", M)
      /\ Accounts(view) \/ view.more.notConfigured
  BY DEF DoctorOK
<1>2. view.more \in M
  BY <1>1 DEF Plain, Shape
<1>3. CASE RunDoctor
  <2>1. PICK w : w = Spinning(view, "load")
    OBVIOUS
  <2>2. Bounds' /\ Plain(w, calls', "DoctorPage", M) /\ Accounts(w) /\ w.more = view.more
    BY <1>1, <1>3, <2>1, PlainAsks DEF RunDoctor
  <2> DEFINE m == [w.more EXCEPT !.notConfigured = FALSE]
  <2>3. m \in M
    BY <1>2, <2>2
  <2>4. view' = [w EXCEPT !.more = m]
    BY <1>3, <2>1 DEF RunDoctor
  <2> HIDE DEF m, M
  <2>5. Plain(view', calls', "DoctorPage", M) /\ Accounts(view')
    BY <2>2, <2>3, <2>4, PlainMore
  <2> QED
    BY <2>2, <2>5 DEF DoctorOK, M
<1>4. CASE \E i \in DOMAIN calls : DoctorAnswered(i)
  <2>1. PICK i : DoctorAnswered(i)
    BY <1>4
  <2>2. CASE LoadTold(view', i)
    <3>1. Answered("load", i) \/ Lost("load", i)
      BY <2>1 DEF DoctorAnswered
    <3> HIDE DEF M
    <3> QED
      BY <1>1, <2>2, <3>1, PlainAnswers DEF DoctorOK, M
  <2>3. CASE ~LoadTold(view', i)
    <3>1. Answered("load", i) /\ view' = [view EXCEPT !.spins = {}, !.more.notConfigured = TRUE]
      BY <2>1, <2>3 DEF DoctorAnswered, LoadTold
    <3>2. PICK w : w = [view EXCEPT !.spins = {}]
      OBVIOUS
    <3> DEFINE m == [w.more EXCEPT !.notConfigured = TRUE]
    <3>3. view' = [w EXCEPT !.more = m]
      BY <3>1, <3>2
    <3>4. Bounds' /\ Plain(w, calls', "DoctorPage", M) /\ w.more = view.more
      BY <1>1, <3>1, <3>2, PlainAnswers
    <3>5. m \in M /\ m.notConfigured
      BY <1>2, <3>4
    <3> HIDE DEF m, M
    <3>6. Plain(view', calls', "DoctorPage", M) /\ view'.more = m
      BY <3>3, <3>4, <3>5, PlainMore
    <3> QED
      BY <3>4, <3>5, <3>6 DEF DoctorOK, M
  <2> QED
    BY <2>2, <2>3
<1> QED
  BY <1>3, <1>4

LEMMA ApplicationsSteps ==
  ASSUME Bounds, ApplicationsOK(view, calls),
         ApplicationsRetry \/ \E i \in DOMAIN calls : ApplicationsAnswered(i)
  PROVE  Bounds' /\ ApplicationsOK(view', calls')
<1> DEFINE M == [hasCluster : Clusters]
<1>1. /\ Plain(view, calls, "ApplicationsPage", M)
      /\ Accounts(view) \/ view.more.hasCluster = "no"
  BY DEF ApplicationsOK
<1>2. view.more \in M
  BY <1>1 DEF Plain, Shape
<1>3. CASE ApplicationsRetry
  <2>1. Asks("load", Nothing) /\ view' = Spinning(view, "load")
    BY <1>3 DEF ApplicationsRetry
  <2> HIDE DEF M
  <2> QED
    BY <1>1, <2>1, PlainAsks DEF ApplicationsOK, M
<1>4. CASE \E i \in DOMAIN calls : ApplicationsAnswered(i)
  <2>1. PICK i : ApplicationsAnswered(i)
    BY <1>4
  <2>2. Answered("load", i) \/ Lost("load", i)
    BY <2>1 DEF ApplicationsAnswered
  <2>3. CASE view' = Failing(view, "load")
    <3>1. LoadTold(view', i)
      BY <2>3 DEF LoadTold
    <3> HIDE DEF M
    <3> QED
      BY <1>1, <2>2, <3>1, PlainAnswers DEF ApplicationsOK, M
  <2>4. ASSUME NEW w, NEW h \in Clusters, view' = [w EXCEPT !.more.hasCluster = h],
               LoadTold(w, i) \/ (w = [view EXCEPT !.spins = {}] /\ h = "no")
        PROVE  Bounds' /\ ApplicationsOK(view', calls')
    <3> DEFINE m == [w.more EXCEPT !.hasCluster = h]
    <3>1. view' = [w EXCEPT !.more = m]
      BY <2>4
    <3>2. /\ Bounds' /\ Plain(w, calls', "ApplicationsPage", M) /\ w.more = view.more
          /\ LoadTold(w, i) => Accounts(w)
      <4> HIDE DEF M
      <4> QED
        BY <1>1, <2>2, <2>4, PlainAnswers
    <3>3. m \in M /\ m.hasCluster = h
      BY <1>2, <3>2
    <3> HIDE DEF m, M
    <3>4. /\ Plain(view', calls', "ApplicationsPage", M) /\ view'.more = m
          /\ Accounts(w) => Accounts(view')
      BY <3>1, <3>2, <3>3, PlainMore
    <3> QED
      BY <2>4, <3>2, <3>3, <3>4 DEF ApplicationsOK, M
  <2>5. CASE view' = [view EXCEPT !.spins = {}, !.more.hasCluster = "no"]
    <3>1. PICK w : w = [view EXCEPT !.spins = {}]
      OBVIOUS
    <3>2. view' = [w EXCEPT !.more.hasCluster = "no"]
      BY <2>5, <3>1
    <3> QED
      BY <2>4, <3>1, <3>2 DEF Clusters
  <2>6. ASSUME NEW w, w \in {Got(view, "load", calls[i]), Failing(view, "load")},
               view' = [w EXCEPT !.more.hasCluster = "yes"]
        PROVE  Bounds' /\ ApplicationsOK(view', calls')
    <3>1. LoadTold(w, i)
      BY <2>6 DEF LoadTold
    <3> QED
      BY <2>4, <2>6, <3>1 DEF Clusters
  <2> QED
    BY <2>1, <2>3, <2>5, <2>6 DEF ApplicationsAnswered
<1> QED
  BY <1>3, <1>4


-----------------------------------------------------------------------------
(* OverviewPage *)

LEMMA OverviewAsks ==
  ASSUME Bounds, OverviewOK(view, calls, overtaken), NEW t \in Selections, Asks("load", t),
         t = Nothing => view.sel = Nothing,
         view' = [Spinning(view, "load") EXCEPT !.sel = t]
  PROVE  Bounds' /\ OverviewOK(view', calls', overtaken')
<1> DEFINE S    == Replies({"load"}, Selections)
           Gots == [{"load"} -> S \cup {None}]
           More == [hasCluster : Clusters, recent : Selections]
<1>1. /\ view \in Shape("OverviewPage", Selections, {"load"}, Gots, More) /\ calls \in Seq(S)
      /\ Spun(view, calls)
      /\ view.sel = Nothing => view.more.recent = Nothing /\ AllAbout(calls, "load", Nothing)
  BY DEF OverviewOK
<1>2. Replies({"load"}, {t}) \subseteq S
  BY DEF Replies
<1> HIDE DEF S, Gots, More
<1>3. Bounds' /\ Sends(S, "load", t)
  BY <1>1, <1>2, Sent
<1>4. PICK u : u = Spinning(view, "load")
  OBVIOUS
<1>5. /\ u \in Shape("OverviewPage", Selections, {"load"}, Gots, More)
      /\ u.more = view.more /\ u.spins = view.spins \cup {"load"}
  BY <1>1, <1>4, OfSpinning
<1>6. PICK w : w = view'
  OBVIOUS
<1>7. /\ w \in Shape("OverviewPage", Selections, {"load"}, Gots, More)
      /\ w.more = view.more /\ w.spins = view.spins \cup {"load"} /\ w.sel = t
  BY <1>4, <1>5, <1>6, Changes
<1>8. /\ calls' \in Seq(S) /\ Newest(calls', "load", t) /\ Asked(calls', "load")
      /\ \A r : Asked(calls, r) => Asked(calls', r)
      /\ t = Nothing /\ AllAbout(calls, "load", Nothing) => AllAbout(calls', "load", Nothing)
  BY <1>3 DEF Sends
<1>9. Spun(w, calls') /\ Accounts(w)
  BY <1>1, <1>7, <1>8 DEF Spun, Accounts
<1>10. w.sel = Nothing => w.more.recent = Nothing /\ AllAbout(calls', "load", Nothing)
  BY <1>1, <1>7, <1>8
<1>11. OverviewOK(w, calls', overtaken')
  BY <1>7, <1>8, <1>9, <1>10 DEF OverviewOK, S, Gots, More
<1> QED
  BY <1>3, <1>6, <1>11

LEMMA OverviewSteps ==
  ASSUME Bounds, OverviewOK(view, calls, overtaken),
         (\E t \in Items : TeamChanges(t)) \/ OverviewRetry
           \/ \E i \in DOMAIN calls : OverviewAnswered(i)
  PROVE  Bounds' /\ OverviewOK(view', calls', overtaken')
<1> DEFINE S    == Replies({"load"}, Selections)
           Gots == [{"load"} -> S \cup {None}]
           More == [hasCluster : Clusters, recent : Selections]
<1>1. /\ view \in Shape("OverviewPage", Selections, {"load"}, Gots, More) /\ calls \in Seq(S)
      /\ Spun(view, calls)
      /\ Accounts(view) \/ view.more.hasCluster = "no"
      /\ view.sel = Nothing => view.more.recent = Nothing /\ AllAbout(calls, "load", Nothing)
      /\ ~overtaken => \/ Newest(calls, "load", view.sel)
                       \/ ~Asked(calls, "load") /\ (view.errors # {} \/ view.more.recent \in Recents(view.sel))
  BY DEF OverviewOK
<1>2. /\ view.sel \in Selections /\ view.spins \subseteq {"load"} /\ view.more \in More
      /\ view.got \in Gots
  BY <1>1 DEF Shape
<1>3. CASE \E t \in Items : TeamChanges(t)
  <2>1. PICK t \in Items : /\ Asks("load", t)
                           /\ view' = [Spinning(view, "load") EXCEPT !.sel = t]
    BY <1>3 DEF TeamChanges, FetchEffect
  <2>2. t \in Selections /\ t # Nothing
    BY ViewsAssumption DEF Selections
  <2> QED
    BY <2>1, <2>2, OverviewAsks
<1>4. CASE OverviewRetry
  <2>1. Asks("load", view.sel) /\ view' = Spinning(view, "load")
    BY <1>4 DEF OverviewRetry
  <2>2. view' = [Spinning(view, "load") EXCEPT !.sel = view.sel]
    BY <1>1, <2>1 DEF Shape, Spinning
  <2> QED
    BY <1>2, <2>1, <2>2, OverviewAsks
<1>5. CASE \E i \in DOMAIN calls : OverviewAnswered(i)
  <2>1. PICK i \in DOMAIN calls : OverviewAnswered(i)
    BY <1>5
  <2>2. Answered("load", i) \/ Lost("load", i)
    BY <2>1 DEF OverviewAnswered
  <2> HIDE DEF S
  <2>3. Bounds' /\ Comes(S, "load", i)
    BY <1>1, <2>2, Came
  <2>4. PICK c : c = calls[i]
    OBVIOUS
  <2>5. /\ calls' \in Seq(S) /\ c \in S /\ Asked(calls, "load")
        /\ AllAbout(calls, "load", Nothing) => AllAbout(calls', "load", Nothing) /\ c.arg = Nothing
        /\ ~overtaken' => Newest(calls', "load", view.sel)
                          \/ (~Asked(calls', "load") /\ c.arg = view.sel)
    BY <1>1, <2>3, <2>4 DEF Comes
  <2>6. /\ c.arg \in Selections /\ [c EXCEPT !.arg = Nothing] \in S
        /\ [c EXCEPT !.arg = Nothing] # None
    <3>1. c.arg \in Selections /\ c.of = "load" /\ [c EXCEPT !.arg = Nothing] \in S
      BY <2>5 DEF S, Replies, Selections
    <3>2. [c EXCEPT !.arg = Nothing].of = "load"
      BY <3>1 DEF S, Replies
    <3>3. [c EXCEPT !.arg = Nothing] # None
      BY <3>2, Something
    <3> QED
      BY <3>1, <3>3
  <2>7. PICK w : w = view'
    OBVIOUS
  <2>8. Nothing \in Selections
    BY DEF Selections
  <2>9. ASSUME NEW t \in Selections, NEW h \in Clusters,
               /\ w \in Shape("OverviewPage", Selections, {"load"}, Gots, More)
               /\ w.sel = view.sel /\ w.spins = {} /\ w.more = [hasCluster |-> h, recent |-> t],
               Accounts(w) \/ h = "no",
               \/ t \in Recents(c.arg) /\ (c.arg = Nothing => t = view.more.recent)
               \/ t \in Recents(c.arg) /\ h = "yes"
               \/ t = view.more.recent /\ w.errors # {}
               \/ t = view.more.recent /\ c.arg = Nothing
        PROVE  OverviewOK(w, calls', overtaken')
    <3>1. w.more.hasCluster = h /\ w.more.recent = t
      BY <2>9
    <3>2. Spun(w, calls')
      BY <2>9 DEF Spun
    <3>3. w.sel = Nothing => t = Nothing /\ AllAbout(calls', "load", Nothing)
      BY <1>1, <2>5, <2>9 DEF Recents
    <3>4. ~overtaken' => \/ Newest(calls', "load", w.sel)
                         \/ ~Asked(calls', "load") /\ (w.errors # {} \/ t \in Recents(w.sel))
      <4>1. c.arg = view.sel /\ c.arg = Nothing => view.more.recent = Nothing
        BY <1>1
      <4> QED
        BY <2>5, <2>9, <4>1 DEF Recents
    <3> QED
      BY <2>5, <2>9, <3>1, <3>2, <3>3, <3>4 DEF OverviewOK, S
  <2>10. CASE /\ c.seen.cluster = "absent"
              /\ \E t \in IF c.arg = Nothing THEN {view.more.recent} ELSE Recents(c.arg) :
                    view' = [view EXCEPT !.spins = {}, !.more.hasCluster = "no", !.more.recent = t]
    <3>1. PICK t : /\ t \in IF c.arg = Nothing THEN {view.more.recent} ELSE Recents(c.arg)
                   /\ w = [view EXCEPT !.spins = {}, !.more.hasCluster = "no", !.more.recent = t]
      BY <2>7, <2>10
    <3>2. t \in Selections
      BY <1>2, <2>6, <2>8, <3>1 DEF Recents
    <3>3. "no" \in Clusters
      BY DEF Clusters
    <3>4. /\ w \in Shape("OverviewPage", Selections, {"load"}, Gots, More)
          /\ w.sel = view.sel /\ w.spins = {} /\ w.more = [hasCluster |-> "no", recent |-> t]
      <4> HIDE DEF Gots
      <4> QED
        BY <1>1, <3>1, <3>2, <3>3 DEF Shape
    <3> QED
      BY <2>3, <2>7, <2>9, <3>1, <3>2, <3>3, <3>4
  <2>11. CASE \E t \in Recents(c.arg) :
                view' = [Got(view, "load", [c EXCEPT !.arg = Nothing])
                           EXCEPT !.more.hasCluster = "yes", !.more.recent = t]
    <3>1. PICK t : /\ t \in Recents(c.arg)
                   /\ w = [Got(view, "load", [c EXCEPT !.arg = Nothing])
                             EXCEPT !.more.hasCluster = "yes", !.more.recent = t]
      BY <2>7, <2>11
    <3>2. t \in Selections
      BY <2>6, <2>8, <3>1 DEF Recents
    <3>3. "yes" \in Clusters
      BY DEF Clusters
    <3>4. PICK d : d = [c EXCEPT !.arg = Nothing] /\ d \in S /\ d # None
      BY <2>6
    <3>5. [view.got EXCEPT !["load"] = d] \in Gots /\ [view.got EXCEPT !["load"] = d]["load"] = d
      BY <1>2, <3>4
    <3>6. /\ w \in Shape("OverviewPage", Selections, {"load"}, Gots, More)
          /\ w.sel = view.sel /\ w.spins = view.spins \ {"load"}
          /\ w.more = [hasCluster |-> "yes", recent |-> t]
          /\ w.got = [view.got EXCEPT !["load"] = d]
      <4> HIDE DEF Gots
      <4> QED
        BY <1>1, <3>1, <3>2, <3>3, <3>4, <3>5 DEF Shape, Got
    <3>7. Accounts(w) /\ w.spins = {}
      BY <1>2, <3>4, <3>5, <3>6 DEF Accounts
    <3> QED
      BY <2>3, <2>7, <2>9, <3>1, <3>2, <3>3, <3>6, <3>7
  <2>12. ASSUME NEW h \in Clusters, w = [Failing(view, "load") EXCEPT !.more.hasCluster = h]
         PROVE  OverviewOK(w, calls', overtaken')
    <3>1. view.more.recent \in Selections /\ view.more = [hasCluster |-> view.more.hasCluster, recent |-> view.more.recent]
      BY <1>2
    <3>2. /\ w \in Shape("OverviewPage", Selections, {"load"}, Gots, More)
          /\ w.sel = view.sel /\ w.spins = view.spins \ {"load"} /\ w.errors = view.errors \cup {"load"}
          /\ w.more = [hasCluster |-> h, recent |-> view.more.recent]
      <4> HIDE DEF Gots
      <4> QED
        BY <1>1, <2>12 DEF Shape, Failing
    <3>3. w.spins = {} /\ w.errors # {} /\ Accounts(w)
      BY <1>2, <3>2 DEF Accounts
    <3> QED
      BY <2>9, <3>1, <3>2, <3>3
  <2>13. CASE view' = [Failing(view, "load") EXCEPT !.more.hasCluster = "yes"]
    <3>1. "yes" \in Clusters
      BY DEF Clusters
    <3> QED
      BY <2>3, <2>7, <2>12, <2>13, <3>1
  <2>14. CASE view' = Failing(view, "load")
    <3>1. view.more.hasCluster \in Clusters
      BY <1>2
    <3>2. w = [Failing(view, "load") EXCEPT !.more.hasCluster = view.more.hasCluster]
      <4> HIDE DEF Gots
      <4> QED
        BY <1>1, <2>7, <2>14 DEF Shape, Failing
    <3> QED
      BY <2>3, <2>7, <2>12, <3>1, <3>2
  <2> QED
    BY <2>1, <2>4, <2>10, <2>11, <2>13, <2>14 DEF OverviewAnswered
<1> QED
  BY <1>3, <1>4, <1>5

-----------------------------------------------------------------------------
(* ApplicationDetailPage *)

(* What the log is of. *)
LogIs(v, s, o) ==
    ~o /\ v.more.tab = "logs" /\ v.sel # Nothing =>
      \/ Newest(s, "logs", v.sel)
      \/ ~Asked(s, "logs") /\ ("logs" \in v.errors \/ v.got["logs"].arg = v.sel)

Logged == [{"load", "logs", "restart"} -> Replies({"load", "logs"}, Selections) \cup {None}]

InApplication ==
    Shape("ApplicationDetailPage", Selections, {"load", "logs"}, Logged, [tab : {"overview", "logs"}])

OfApplication == Replies({"load", "logs", "restart"}, Selections)

LEMMA ApplicationIs ==
  ASSUME NEW v, NEW s, NEW o
  PROVE  ApplicationOK(v, s, o) <=>
           v \in InApplication /\ s \in Seq(OfApplication) /\ Spun(v, s) /\ LogIs(v, s, o)
BY DEF ApplicationOK, InApplication, OfApplication, Logged, LogIs

LEMMA LogsAsked ==
  ASSUME Bounds, ApplicationOK(view, calls, overtaken), NEW p \in Selections, Requests("logs", p),
         NEW w \in InApplication, w.sel = p, w.spins = view.spins \cup {"logs"}
  PROVE  Bounds' /\ ApplicationOK(w, calls', overtaken')
<1>1. calls \in Seq(OfApplication) /\ Spun(view, calls)
  BY ApplicationIs
<1>2. Replies({"logs"}, {p}) \subseteq OfApplication
  BY DEF Replies, OfApplication
<1>3. Bounds' /\ Sends(OfApplication, "logs", p)
  BY <1>1, <1>2, Sent
<1>4. /\ calls' \in Seq(OfApplication) /\ Newest(calls', "logs", p) /\ Asked(calls', "logs")
      /\ \A r : Asked(calls, r) => Asked(calls', r)
  BY <1>3 DEF Sends
<1>5. Spun(w, calls') /\ LogIs(w, calls', overtaken')
  BY <1>1, <1>4 DEF Spun, LogIs
<1> QED
  BY <1>3, <1>4, <1>5, ApplicationIs

LEMMA ApplicationLoaded ==
  ASSUME Bounds, ApplicationOK(view, calls, overtaken), NEW i, ApplicationAnswered(i)
  PROVE  Bounds' /\ ApplicationOK(view', calls', overtaken')
<1>1. /\ view \in InApplication /\ calls \in Seq(OfApplication)
      /\ Spun(view, calls) /\ LogIs(view, calls, overtaken)
  BY ApplicationIs
<1>2. view.got \in Logged /\ view.sel \in Selections /\ view.spins \subseteq {"load", "logs"}
  BY <1>1 DEF InApplication, Shape
<1>3. PICK w : w = view'
  OBVIOUS
<1>4. PICK c : c = calls[i]
  OBVIOUS
<1>5. ASSUME Answered("load", i) \/ Lost("load", i)
      PROVE  /\ Bounds' /\ Comes(OfApplication, "load", i)
             /\ c \in OfApplication /\ c.of = "load"
             /\ [view.got EXCEPT !["load"] = c] \in Logged
             /\ [view.got EXCEPT !["load"] = c]["logs"] = view.got["logs"]
  <2>1. Bounds' /\ Comes(OfApplication, "load", i)
    BY <1>1, <1>5, Came
  <2>2. c \in OfApplication /\ c.of = "load"
    BY <1>4, <2>1 DEF Comes
  <2>3. c \in Replies({"load", "logs"}, Selections)
    BY <2>2 DEF Replies, OfApplication
  <2> QED
    BY <1>2, <2>1, <2>2, <2>3 DEF Logged
<1>6. ASSUME Answered("load", i) \/ Lost("load", i),
             /\ w \in InApplication /\ w.spins = view.spins \ {"load"} /\ w.more = view.more
             /\ view.errors \subseteq w.errors /\ w.got["logs"] = view.got["logs"],
             w.sel = view.sel \/ w.more.tab # "logs"
      PROVE  Bounds' /\ ApplicationOK(w, calls', overtaken')
  <2>1. Bounds' /\ Comes(OfApplication, "load", i)
    BY <1>5, <1>6
  <2>2. /\ calls' \in Seq(OfApplication) /\ (~overtaken' => ~overtaken)
        /\ Asked(calls', "logs") <=> Asked(calls, "logs")
        /\ \A a : Newest(calls, "logs", a) => Newest(calls', "logs", a)
        /\ \A r : Asked(calls, r) /\ r # "load" => Asked(calls', r)
    BY <2>1 DEF Comes
  <2>3. LogIs(w, calls', overtaken')
    BY <1>1, <1>6, <2>2 DEF LogIs
  <2>4. Spun(w, calls')
    BY <1>1, <1>6, <2>2 DEF Spun
  <2> QED
    BY <1>6, <2>1, <2>2, <2>3, <2>4, ApplicationIs
<1>7. ASSUME NEW p \in Items, Answered("load", i), view.more.tab # "logs",
             view' = [Got(view, "load", c) EXCEPT !.sel = p]
      PROVE  Bounds' /\ ApplicationOK(view', calls', overtaken')
  <2>1. p \in Selections
    BY DEF Selections
  <2>2. [view.got EXCEPT !["load"] = c] \in Logged
        /\ [view.got EXCEPT !["load"] = c]["logs"] = view.got["logs"]
    BY <1>5, <1>7
  <2>3. /\ w \in InApplication /\ w.spins = view.spins \ {"load"} /\ w.more = view.more
        /\ w.errors = view.errors /\ w.got = [view.got EXCEPT !["load"] = c]
    <3>1. PICK u : u = Got(view, "load", c)
      OBVIOUS
    <3>2. /\ u \in InApplication /\ u.spins = view.spins \ {"load"} /\ u.more = view.more
          /\ u.errors = view.errors /\ u.got = [view.got EXCEPT !["load"] = c]
      BY <1>1, <2>2, <3>1 DEF InApplication, Shape, Got
    <3>3. w = [u EXCEPT !.sel = p]
      BY <1>3, <1>7, <3>1
    <3> QED
      BY <2>1, <3>2, <3>3 DEF InApplication, Shape
  <2>4. view.errors \subseteq w.errors /\ w.got["logs"] = view.got["logs"] /\ w.more.tab # "logs"
    BY <1>7, <2>2, <2>3
  <2>5. Bounds' /\ ApplicationOK(w, calls', overtaken')
    BY <1>6, <1>7, <2>3, <2>4
  <2> QED
    BY <1>3, <2>5
<1>8. ASSUME Answered("load", i), view' = Got(view, "load", c)
      PROVE  Bounds' /\ ApplicationOK(view', calls', overtaken')
  <2>2. [view.got EXCEPT !["load"] = c] \in Logged
        /\ [view.got EXCEPT !["load"] = c]["logs"] = view.got["logs"]
    BY <1>5, <1>8
  <2>3. /\ w \in InApplication /\ w.spins = view.spins \ {"load"} /\ w.more = view.more
        /\ w.errors = view.errors /\ w.got = [view.got EXCEPT !["load"] = c] /\ w.sel = view.sel
    BY <1>1, <1>3, <1>8, <2>2 DEF InApplication, Shape, Got
  <2> QED
    BY <1>3, <1>6, <1>8, <2>2, <2>3
<1>9. ASSUME Answered("load", i) \/ Lost("load", i), view' = Failing(view, "load")
      PROVE  Bounds' /\ ApplicationOK(view', calls', overtaken')
  <2>1. /\ w \in InApplication /\ w.spins = view.spins \ {"load"} /\ w.more = view.more
        /\ w.errors = view.errors \cup {"load"} /\ w.got = view.got /\ w.sel = view.sel
    BY <1>1, <1>3, <1>9 DEF InApplication, Shape, Failing
  <2> QED
    BY <1>3, <1>6, <1>9, <2>1
<1>10. ASSUME NEW p \in Items, ReturnsAsking("load", i, Request("logs", p)),
              view' = Spinning([Got(view, "load", c) EXCEPT !.sel = p], "logs")
       PROVE  Bounds' /\ ApplicationOK(view', calls', overtaken')
  <2>1. p \in Selections
    BY DEF Selections
  <2>2. PICK q : q = Request("logs", p)
    OBVIOUS
  <2>3. q \in OfApplication /\ q.of = "logs" /\ q.arg = p
    BY <2>1, <2>2 DEF Request, OfApplication, Replies, Sights
  <2>4. Bounds' /\ ComesAsking(OfApplication, "load", i, q)
    BY <1>1, <1>10, <2>2, <2>3, CameAsking
  <2>5. /\ calls' \in Seq(OfApplication) /\ Newest(calls', "logs", p) /\ Asked(calls', "logs")
        /\ \A r : Asked(calls, r) /\ r # "load" => Asked(calls', r)
        /\ c \in OfApplication /\ c.of = "load"
    BY <1>4, <2>3, <2>4 DEF ComesAsking
  <2>6. c \in Replies({"load", "logs"}, Selections)
    BY <2>5 DEF Replies, OfApplication
  <2>7. [view.got EXCEPT !["load"] = c] \in Logged
    BY <1>2, <2>6 DEF Logged
  <2>8. /\ w \in InApplication /\ w.spins = (view.spins \ {"load"}) \cup {"logs"} /\ w.sel = p
    BY <1>1, <1>3, <1>10, <2>1, <2>7 DEF InApplication, Shape, Got, Spinning
  <2>9. Spun(w, calls') /\ LogIs(w, calls', overtaken')
    BY <1>1, <2>5, <2>8 DEF Spun, LogIs
  <2> QED
    BY <1>3, <2>4, <2>5, <2>8, <2>9, ApplicationIs
<1>11. view.more.tab # "logs" \/ \A p \in Items : LogsEffect(view.more.tab, p)
  BY ViewsAssumption DEF LogsEffect
<1>12. \A p \in Items : LogsEffect(view.more.tab, p) => view.more.tab = "logs"
  BY DEF LogsEffect
<1> QED
  BY <1>4, <1>7, <1>8, <1>9, <1>10, <1>11, <1>12 DEF ApplicationAnswered

LEMMA ApplicationLogs ==
  ASSUME Bounds, ApplicationOK(view, calls, overtaken), NEW i, LogsAnswered(i)
  PROVE  Bounds' /\ ApplicationOK(view', calls', overtaken')
<1>1. /\ view \in InApplication /\ calls \in Seq(OfApplication) /\ Spun(view, calls)
      /\ LogIs(view, calls, overtaken)
  BY ApplicationIs
<1>2. view.got \in Logged
  BY <1>1 DEF InApplication, Shape
<1>3. PICK w : w = view'
  OBVIOUS
<1>4. PICK c : c = calls[i]
  OBVIOUS
<1>5. Bounds' /\ Comes(OfApplication, "logs", i)
  BY <1>1, Came DEF LogsAnswered
<1>6. /\ calls' \in Seq(OfApplication) /\ (~overtaken' => ~overtaken)
      /\ c \in OfApplication /\ c.of = "logs" /\ Asked(calls, "logs")
      /\ \A r : Asked(calls, r) /\ r # "logs" => Asked(calls', r)
      /\ ~overtaken' => \A a : Newest(calls, "logs", a) =>
            Newest(calls', "logs", a) \/ (~Asked(calls', "logs") /\ c.arg = a)
  BY <1>4, <1>5 DEF Comes
<1>7. c \in Replies({"load", "logs"}, Selections)
  BY <1>6 DEF Replies, OfApplication
<1>8. /\ [view.got EXCEPT !["logs"] = c] \in Logged /\ [view.got EXCEPT !["logs"] = None] \in Logged
      /\ [view.got EXCEPT !["logs"] = c]["logs"] = c
  BY <1>2, <1>7 DEF Logged
<1>9. /\ w \in InApplication /\ w.spins = view.spins \ {"logs"} /\ w.more = view.more
      /\ w.sel = view.sel
      /\ w.got["logs"] = c \/ "logs" \in w.errors
  <2>1. CASE view' = Got(view, "logs", c)
    <3>1. /\ w \in InApplication /\ w.spins = view.spins \ {"logs"} /\ w.more = view.more
          /\ w.sel = view.sel /\ w.got = [view.got EXCEPT !["logs"] = c]
      BY <1>1, <1>3, <1>8, <2>1 DEF InApplication, Shape, Got
    <3> QED
      BY <1>8, <3>1
  <2>2. CASE view' = Got(Failing(view, "logs"), "logs", None)
    BY <1>1, <1>3, <1>8, <2>2 DEF InApplication, Shape, Got, Failing
  <2> QED
    BY <1>4, <2>1, <2>2 DEF LogsAnswered
<1>10. Spun(w, calls')
  BY <1>1, <1>6, <1>9 DEF Spun
<1>11. LogIs(w, calls', overtaken')
  BY <1>1, <1>6, <1>9 DEF LogIs
<1> QED
  BY <1>3, <1>5, <1>6, <1>9, <1>10, <1>11, ApplicationIs

LEMMA ApplicationSteps ==
  ASSUME Bounds, ApplicationOK(view, calls, overtaken),
         \/ \E t \in {"overview", "logs"} : OpenTab(t)
         \/ \E p \in Items : SelectPod(p)
         \/ RefreshLogs \/ Restart
         \/ \E i \in DOMAIN calls : ApplicationAnswered(i) \/ LogsAnswered(i) \/ RestartAnswered(i)
  PROVE  Bounds' /\ ApplicationOK(view', calls', overtaken')
<1>1. /\ view \in InApplication /\ calls \in Seq(OfApplication) /\ Spun(view, calls)
      /\ LogIs(view, calls, overtaken)
  BY ApplicationIs
<1>2. view.sel \in Selections /\ \A p \in Items : p \in Selections /\ p # Nothing
  BY <1>1, ViewsAssumption DEF InApplication, Shape, Selections
<1>3. PICK w : w = view'
  OBVIOUS
<1>4. CASE \E t \in {"overview", "logs"} : OpenTab(t)
  <2>1. PICK t \in {"overview", "logs"} : OpenTab(t)
    BY <1>4
  <2>2. CASE LogsEffect(t, view.sel)
    <3>1. Requests("logs", view.sel) /\ w = Spinning([view EXCEPT !.more.tab = t], "logs")
      BY <1>3, <2>1, <2>2 DEF OpenTab
    <3>2. w \in InApplication /\ w.sel = view.sel /\ w.spins = view.spins \cup {"logs"}
      BY <1>1, <3>1 DEF InApplication, Shape, Spinning
    <3> QED
      BY <1>2, <1>3, <3>1, <3>2, LogsAsked
  <2>3. CASE ~LogsEffect(t, view.sel)
    <3>1. Locally /\ w = [view EXCEPT !.more.tab = t] /\ (t # "logs" \/ view.sel = Nothing)
      BY <1>3, <2>1, <2>3 DEF OpenTab, LogsEffect
    <3>2. w \in InApplication /\ w.sel = view.sel /\ w.spins = view.spins /\ w.more.tab = t
      BY <1>1, <3>1 DEF InApplication, Shape
    <3>3. Bounds' /\ calls' = calls
      BY <3>1, Kept
    <3>4. Spun(w, calls) /\ LogIs(w, calls, overtaken')
      BY <1>1, <3>1, <3>2 DEF Spun, LogIs
    <3> QED
      BY <1>1, <1>3, <3>2, <3>3, <3>4, ApplicationIs
  <2> QED
    BY <2>2, <2>3
<1>5. CASE \E p \in Items : SelectPod(p)
  <2>1. PICK p \in Items : Requests("logs", p) /\ w = Spinning([view EXCEPT !.sel = p], "logs")
    BY <1>2, <1>3, <1>5 DEF SelectPod, LogsEffect
  <2>2. w \in InApplication /\ w.sel = p /\ w.spins = view.spins \cup {"logs"}
    BY <1>1, <1>2, <2>1 DEF InApplication, Shape, Spinning
  <2> QED
    BY <1>2, <1>3, <2>1, <2>2, LogsAsked
<1>6. CASE RefreshLogs
  <2>1. Requests("logs", view.sel) /\ w = Spinning(view, "logs")
    BY <1>3, <1>6 DEF RefreshLogs
  <2>2. w \in InApplication /\ w.sel = view.sel /\ w.spins = view.spins \cup {"logs"}
    BY <1>1, <2>1 DEF InApplication, Shape, Spinning
  <2> QED
    BY <1>2, <1>3, <2>1, <2>2, LogsAsked
<1>7. CASE Restart
  <2>1. Requests("restart", Nothing) /\ view' = view
    BY <1>7 DEF Restart
  <2>2. Replies({"restart"}, {Nothing}) \subseteq OfApplication
    BY DEF Replies, OfApplication, Selections
  <2>3. Bounds' /\ Sends(OfApplication, "restart", Nothing)
    BY <1>1, <2>1, <2>2, Sent
  <2>4. /\ calls' \in Seq(OfApplication) /\ overtaken' = overtaken
        /\ Asked(calls', "logs") <=> Asked(calls, "logs")
        /\ \A r : Asked(calls, r) => Asked(calls', r)
        /\ \A a : Newest(calls, "logs", a) => Newest(calls', "logs", a)
    BY <2>3 DEF Sends
  <2>5. Spun(view, calls') /\ LogIs(view, calls', overtaken')
    BY <1>1, <2>4 DEF Spun, LogIs
  <2> QED
    BY <1>1, <2>1, <2>3, <2>4, <2>5, ApplicationIs
<1>8. CASE \E i \in DOMAIN calls : ApplicationAnswered(i) \/ LogsAnswered(i)
  BY <1>8, ApplicationLoaded, ApplicationLogs
<1>9. CASE \E i \in DOMAIN calls : RestartAnswered(i)
  <2>1. PICK i \in DOMAIN calls : ReturnsAsking("restart", i, Call("load", Nothing))
                                  /\ w = Spinning(view, "load")
    BY <1>3, <1>9 DEF RestartAnswered
  <2>2. PICK q : q = Call("load", Nothing)
    OBVIOUS
  <2>3. q \in OfApplication /\ q.of = "load"
    BY <2>2 DEF Bounds, Call, OfApplication, Replies, Sights, Selections
  <2>4. Bounds' /\ ComesAsking(OfApplication, "restart", i, q)
    BY <1>1, <2>1, <2>2, <2>3, CameAsking
  <2>5. /\ calls' \in Seq(OfApplication) /\ (~overtaken' => ~overtaken)
        /\ Asked(calls', "logs") <=> Asked(calls, "logs")
        /\ \A a : Newest(calls, "logs", a) => Newest(calls', "logs", a)
        /\ \A r : Asked(calls, r) /\ r # "restart" => Asked(calls', r)
        /\ Asked(calls', "load")
    BY <2>3, <2>4 DEF ComesAsking
  <2>6. /\ w \in InApplication /\ w.spins = view.spins \cup {"load"} /\ w.more = view.more
        /\ w.sel = view.sel /\ w.got = view.got /\ w.errors = view.errors \ {"load"}
    BY <1>1, <2>1 DEF InApplication, Shape, Spinning
  <2>7. view.spins \subseteq {"load", "logs"}
    BY <1>1 DEF InApplication, Shape
  <2>8. Spun(w, calls')
    BY <1>1, <2>5, <2>6, <2>7 DEF Spun
  <2>9. LogIs(w, calls', overtaken')
    BY <1>1, <2>5, <2>6 DEF LogIs
  <2> QED
    BY <1>3, <2>4, <2>5, <2>6, <2>8, <2>9, ApplicationIs
<1> QED
  BY <1>4, <1>5, <1>6, <1>7, <1>8, <1>9

-----------------------------------------------------------------------------
(* MonitoringPage *)

(* What is under way for the charts, and what they are of. *)
ChartsAre(v, s) ==
    /\ Alone(s, {"series"}) /\ AllAbout(s, "series", v.sel)
    /\ v.got["series"] = None \/ Asked(s, "series") \/ v.got["series"].arg = v.sel

OfMonitoring == Replies({"load", "refresh", "series"}, Selections)

Charted == [{"load", "refresh", "series"} -> OfMonitoring \cup {None}]

InMonitoring ==
    Shape("MonitoringPage", Selections, {"load", "refresh"}, Charted,
          [visible : BOOLEAN, timer : BOOLEAN])

LEMMA MonitoringIs ==
  ASSUME NEW v, NEW s
  PROVE  MonitoringOK(v, s) <=>
           /\ v \in InMonitoring /\ s \in Seq(OfMonitoring)
           /\ v.spins # {} => Asked(s, "load") \/ Asked(s, "refresh")
           /\ Accounts(v) /\ ChartsAre(v, s)
BY DEF MonitoringOK, InMonitoring, OfMonitoring, Charted, ChartsAre

LEMMA MonitoringAsks ==
  ASSUME Bounds, MonitoringOK(view, calls), NEW r \in {"load", "refresh"}, Asks(r, Nothing),
         NEW w \in InMonitoring, w.sel = view.sel, w.got = view.got, w.spins = view.spins \cup {r}
  PROVE  Bounds' /\ MonitoringOK(w, calls')
<1>1. calls \in Seq(OfMonitoring) /\ ChartsAre(view, calls)
  BY MonitoringIs
<1>2. Replies({r}, {Nothing}) \subseteq OfMonitoring /\ r # "series"
  BY DEF Replies, OfMonitoring, Selections
<1>3. Bounds' /\ Sends(OfMonitoring, r, Nothing)
  BY <1>1, <1>2, Sent
<1>4. /\ calls' \in Seq(OfMonitoring) /\ Asked(calls', r)
      /\ Asked(calls', "series") <=> Asked(calls, "series")
      /\ AllAbout(calls, "series", view.sel) => AllAbout(calls', "series", view.sel)
      /\ Alone(calls, {"series"}) => Alone(calls', {"series"})
  BY <1>2, <1>3 DEF Sends
<1>5. ChartsAre(w, calls')
  BY <1>1, <1>4 DEF ChartsAre
<1>6. Accounts(w) /\ (Asked(calls', "load") \/ Asked(calls', "refresh"))
  BY <1>4 DEF Accounts
<1> QED
  BY <1>3, <1>4, <1>5, <1>6, MonitoringIs

(* The request of the effect before is answered to nobody. *)
LEMMA Cancelled ==
  ASSUME NEW S, calls \in Seq(S), Alone(calls, {"series"}), NEW t, t = Cancelling("series")
  PROVE  /\ t \in Seq(S) /\ ~Asked(t, "series") /\ Len(t) <= Len(calls) /\ Len(t) \in Nat
         /\ Alone(t, {"series"})
<1>1. CASE Due("series")
  <2>1. PICK i \in DOMAIN calls : calls[i].of = "series" /\ t = RemoveAt(calls, i)
    BY <1>1 DEF Due, Cancelling
  <2>2. IsAnswered(S, calls, i, t)
    BY <2>1, Returning
  <2>3. /\ t \in Seq(S) /\ Len(t) = Len(calls) - 1 /\ Alone(t, {"series"})
    BY <2>2 DEF IsAnswered
  <2>4. ~Asked(t, "series")
    BY <2>1, <2>2 DEF IsAnswered
  <2>5. Len(calls) \in Nat /\ Len(t) \in Nat
    BY <2>3, LenProperties
  <2> QED
    BY <2>3, <2>4, <2>5
<1>2. CASE ~Due("series")
  <2>1. t = calls
    BY <1>2 DEF Cancelling
  <2> QED
    BY <1>2, <2>1, LenProperties DEF Due, Asked
<1> QED
  BY <1>1, <1>2

LEMMA MonitoringSelects ==
  ASSUME Bounds, MonitoringOK(view, calls), NEW a \in Items, SelectApp(a)
  PROVE  Bounds' /\ MonitoringOK(view', calls')
<1>1. /\ view \in InMonitoring /\ calls \in Seq(OfMonitoring) /\ Accounts(view)
      /\ Alone(calls, {"series"}) /\ AllAbout(calls, "series", view.sel)
  BY MonitoringIs DEF ChartsAre
<1>2. view.got \in Charted /\ view.spins = {} /\ view.got["load"] # None
  BY <1>1 DEF InMonitoring, Shape, SelectApp
<1>3. PICK w : w = view'
  OBVIOUS
<1>4. PICK t : t = Cancelling("series")
  OBVIOUS
<1>5. /\ t \in Seq(OfMonitoring) /\ ~Asked(t, "series") /\ Len(t) <= Len(calls) /\ Len(t) \in Nat
      /\ Alone(t, {"series"})
  BY <1>1, <1>4, Cancelled
<1>6. UNCHANGED <<world, faults, overtaken>>
  BY DEF SelectApp
<1>7. a \in Selections /\ Nothing \in Selections
  BY DEF Selections
<1>8. CASE a = view.sel
  <2>1. calls' = t /\ w = [view EXCEPT !.sel = Nothing, !.got["series"] = None]
    BY <1>3, <1>4, <1>8 DEF SelectApp
  <2>2. [view.got EXCEPT !["series"] = None] \in Charted
        /\ [view.got EXCEPT !["series"] = None]["series"] = None
        /\ [view.got EXCEPT !["series"] = None]["load"] = view.got["load"]
    BY <1>2 DEF Charted
  <2>3. /\ w \in InMonitoring /\ w.spins = {} /\ w.got = [view.got EXCEPT !["series"] = None]
    BY <1>1, <1>2, <1>7, <2>1, <2>2 DEF InMonitoring, Shape
  <2>4. Accounts(w) /\ ChartsAre(w, t)
    BY <1>2, <1>5, <2>2, <2>3 DEF Accounts, ChartsAre, AllAbout, Asked
  <2>5. Len(t) <= MaxCalls
    BY <1>5, ViewsAssumption, LenProperties DEF Bounds
  <2>6. Bounds'
    BY <1>6, <2>1, <2>5 DEF Bounds
  <2> QED
    BY <1>3, <1>5, <2>1, <2>3, <2>4, <2>6, MonitoringIs
<1>9. CASE a # view.sel
  <2>1. PICK c : c = Request("series", a)
    OBVIOUS
  <2>2. /\ calls' = Append(t, c) /\ w = [view EXCEPT !.sel = a] /\ Len(calls) < MaxCalls
    BY <1>3, <1>4, <1>9, <2>1 DEF SelectApp
  <2>3. c \in OfMonitoring /\ c.of = "series" /\ c.arg = a
    BY <1>7, <2>1 DEF Request, OfMonitoring, Replies, Sights
  <2>4. PICK u : u = calls'
    OBVIOUS
  <2>5. HasAsked(OfMonitoring, t, c, u)
    BY <1>5, <2>2, <2>3, <2>4, Asking
  <2>6. /\ u \in Seq(OfMonitoring) /\ Len(u) = Len(t) + 1 /\ Asked(u, "series")
    BY <2>3, <2>5 DEF HasAsked
  <2>7. AllAbout(t, "series", a)
    BY <1>5 DEF AllAbout, Asked
  <2>8. AllAbout(u, "series", a) /\ Alone(u, {"series"})
    BY <1>5, <2>3, <2>5, <2>7 DEF HasAsked
  <2>9. w \in InMonitoring /\ w.sel = a /\ w.spins = view.spins /\ w.got = view.got
    BY <1>1, <1>7, <2>2 DEF InMonitoring, Shape
  <2>10. Accounts(w) /\ ChartsAre(w, u)
    BY <1>2, <2>6, <2>8, <2>9 DEF Accounts, ChartsAre
  <2>11. Len(u) <= MaxCalls
    BY <1>1, <1>5, <2>2, <2>6, ViewsAssumption, LenProperties
  <2>12. Bounds'
    BY <1>6, <2>4, <2>11 DEF Bounds
  <2> QED
    BY <1>2, <1>3, <2>4, <2>6, <2>9, <2>10, <2>12, MonitoringIs
<1> QED
  BY <1>8, <1>9

LEMMA MonitoringSteps ==
  ASSUME Bounds, MonitoringOK(view, calls),
         \/ MonitoringRetry \/ Refresh \/ Hide \/ Show
         \/ \E a \in Items : SelectApp(a)
         \/ \E i \in DOMAIN calls : \/ \E r \in {"load", "refresh"} : MonitoringAnswered(r, i)
                                    \/ SeriesAnswered(i)
  PROVE  Bounds' /\ MonitoringOK(view', calls')
<1>1. /\ view \in InMonitoring /\ calls \in Seq(OfMonitoring) /\ Accounts(view)
      /\ view.spins # {} => Asked(calls, "load") \/ Asked(calls, "refresh")
      /\ ChartsAre(view, calls)
  BY MonitoringIs
<1>2. view.got \in Charted /\ view.spins \subseteq {"load", "refresh"}
  BY <1>1 DEF InMonitoring, Shape
<1>3. PICK w : w = view'
  OBVIOUS
<1>4. CASE MonitoringRetry
  <2>1. Asks("load", Nothing) /\ w = [view EXCEPT !.spins = @ \cup {"load"}, !.errors = {}]
    BY <1>3, <1>4 DEF MonitoringRetry
  <2>2. w \in InMonitoring /\ w.sel = view.sel /\ w.got = view.got /\ w.spins = view.spins \cup {"load"}
    BY <1>1, <2>1 DEF InMonitoring, Shape
  <2> QED
    BY <1>3, <2>1, <2>2, MonitoringAsks
<1>5. CASE Refresh
  <2>1. Asks("refresh", Nothing) /\ w = [view EXCEPT !.spins = @ \cup {"refresh"}, !.errors = {}]
    BY <1>3, <1>5 DEF Refresh, RefreshNow
  <2>2. w \in InMonitoring /\ w.sel = view.sel /\ w.got = view.got /\ w.spins = view.spins \cup {"refresh"}
    BY <1>1, <2>1 DEF InMonitoring, Shape
  <2> QED
    BY <1>3, <2>1, <2>2, MonitoringAsks
<1>6. CASE Show
  <2>1. /\ Asks("refresh", Nothing)
        /\ w = [view EXCEPT !.more = [visible |-> TRUE, timer |-> TRUE],
                            !.spins = @ \cup {"refresh"}, !.errors = {}]
    BY <1>3, <1>6 DEF Show
  <2>2. w \in InMonitoring /\ w.sel = view.sel /\ w.got = view.got /\ w.spins = view.spins \cup {"refresh"}
    BY <1>1, <2>1 DEF InMonitoring, Shape
  <2> QED
    BY <1>3, <2>1, <2>2, MonitoringAsks
<1>7. CASE Hide
  <2>1. Locally /\ w = [view EXCEPT !.more = [visible |-> FALSE, timer |-> FALSE]]
    BY <1>3, <1>7 DEF Hide
  <2>2. /\ w \in InMonitoring /\ w.sel = view.sel /\ w.got = view.got /\ w.spins = view.spins
        /\ w.errors = view.errors
    BY <1>1, <2>1 DEF InMonitoring, Shape
  <2>3. Accounts(w) /\ ChartsAre(w, calls)
    BY <1>1, <2>2 DEF Accounts, ChartsAre
  <2>4. Bounds' /\ calls' = calls
    BY <2>1, Kept
  <2> QED
    BY <1>1, <1>3, <2>2, <2>3, <2>4, MonitoringIs
<1>8. CASE \E a \in Items : SelectApp(a)
  BY <1>8, MonitoringSelects
<1>9. CASE \E i \in DOMAIN calls : \E r \in {"load", "refresh"} : MonitoringAnswered(r, i)
  <2>1. PICK i \in DOMAIN calls, r \in {"load", "refresh"} : MonitoringAnswered(r, i)
    BY <1>9
  <2>2. PICK c : c = calls[i]
    OBVIOUS
  <2>3. PICK quiet : quiet = [view EXCEPT !.spins = {}]
    OBVIOUS
  <2>4. (Answered(r, i) \/ Lost(r, i)) /\ (w = Got(quiet, "load", c) \/ w = Failing(quiet, "load"))
    BY <1>3, <2>1, <2>2, <2>3 DEF MonitoringAnswered
  <2>5. Bounds' /\ Comes(OfMonitoring, r, i)
    BY <1>1, <2>4, Came
  <2>6. /\ calls' \in Seq(OfMonitoring) /\ c \in OfMonitoring
        /\ Asked(calls, "series") => Asked(calls', "series")
        /\ AllAbout(calls, "series", view.sel) => AllAbout(calls', "series", view.sel)
        /\ Alone(calls, {"series"}) => Alone(calls', {"series"})
    BY <2>2, <2>5 DEF Comes
  <2>7. c # None
    <3>1. c.of # ""
      BY <2>6 DEF OfMonitoring, Replies
    <3> QED
      BY <3>1, Something
  <2>8. /\ [view.got EXCEPT !["load"] = c] \in Charted
        /\ [view.got EXCEPT !["load"] = c]["load"] = c
        /\ [view.got EXCEPT !["load"] = c]["series"] = view.got["series"]
    BY <1>2, <2>6 DEF Charted
  <2>9. /\ quiet \in InMonitoring /\ quiet.spins = {} /\ quiet.got = view.got /\ quiet.sel = view.sel
    BY <1>1, <2>3 DEF InMonitoring, Shape
  <2>10. /\ w \in InMonitoring /\ w.spins = {} /\ w.sel = view.sel
         /\ w.got["series"] = view.got["series"] /\ Accounts(w)
    <3>1. CASE w = Got(quiet, "load", c)
      <4>1. /\ w \in InMonitoring /\ w.spins = {} /\ w.sel = view.sel
            /\ w.got = [view.got EXCEPT !["load"] = c]
        BY <2>8, <2>9, <3>1 DEF InMonitoring, Shape, Got
      <4> QED
        BY <2>7, <2>8, <4>1 DEF Accounts
    <3>2. CASE w = Failing(quiet, "load")
      <4>1. /\ w \in InMonitoring /\ w.spins = {} /\ w.sel = view.sel /\ w.got = view.got
            /\ "load" \in w.errors
        BY <2>9, <3>2 DEF InMonitoring, Shape, Failing
      <4> QED
        BY <4>1 DEF Accounts
    <3> QED
      BY <2>4, <3>1, <3>2
  <2>11. ChartsAre(w, calls')
    BY <1>1, <2>6, <2>10 DEF ChartsAre
  <2> QED
    BY <1>3, <2>5, <2>6, <2>10, <2>11, MonitoringIs
<1>10. CASE \E i \in DOMAIN calls : SeriesAnswered(i)
  <2>1. PICK i \in DOMAIN calls : SeriesAnswered(i)
    BY <1>10
  <2>2. PICK c : c = calls[i]
    OBVIOUS
  <2>3. Bounds' /\ Comes(OfMonitoring, "series", i)
    BY <1>1, <2>1, Came DEF SeriesAnswered
  <2>4. /\ calls' \in Seq(OfMonitoring) /\ c \in OfMonitoring
        /\ \A r : Asked(calls, r) /\ r # "series" => Asked(calls', r)
        /\ AllAbout(calls, "series", view.sel) => AllAbout(calls', "series", view.sel)
                                                  /\ c.arg = view.sel
        /\ Alone(calls, {"series"}) => Alone(calls', {"series"})
    BY <2>2, <2>3 DEF Comes
  <2>5. PICK d : d \in {c, None} /\ w = Got(view, "series", d)
    BY <1>3, <2>1, <2>2 DEF SeriesAnswered
  <2>6. /\ [view.got EXCEPT !["series"] = d] \in Charted
        /\ [view.got EXCEPT !["series"] = d]["series"] = d
        /\ [view.got EXCEPT !["series"] = d]["load"] = view.got["load"]
    BY <1>2, <2>4, <2>5 DEF Charted
  <2>7. /\ w \in InMonitoring /\ w.spins = view.spins \ {"series"} /\ w.sel = view.sel
        /\ w.errors = view.errors /\ w.got = [view.got EXCEPT !["series"] = d]
    BY <1>1, <2>5, <2>6 DEF InMonitoring, Shape, Got
  <2>8. w.spins = view.spins
    BY <1>2, <2>7
  <2>9. Accounts(w) /\ ChartsAre(w, calls')
    BY <1>1, <2>4, <2>5, <2>6, <2>7, <2>8 DEF Accounts, ChartsAre
  <2>10. w.spins # {} => Asked(calls', "load") \/ Asked(calls', "refresh")
    BY <1>1, <2>4, <2>8
  <2> QED
    BY <1>3, <2>3, <2>4, <2>7, <2>9, <2>10, MonitoringIs
<1> QED
  BY <1>4, <1>5, <1>6, <1>7, <1>8, <1>9, <1>10

-----------------------------------------------------------------------------
(* ClustersPage *)

OfRegistry == Replies({"clusters"}, {Nothing}) \cup Replies({"register"}, Items)
                \cup Replies({"unregister"}, Deletions)

Registered == [registered : SUBSET Items, listed : SUBSET Items, form : BOOLEAN, mixed : BOOLEAN]

InRegistry == Shape("ClustersPage", Selections, {"clusters", "register"}, [{"clusters"} -> {None}], Registered)

(* What is under way when one thing is done at a time. *)
OneAtATime(v, s) ==
    ~v.more.mixed =>
      /\ Len(s) <= 1
      /\ s = <<>> => v.more.listed = v.more.registered
      /\ \A k \in DOMAIN s : s[k].of = "unregister" =>
            /\ v.more.listed = v.more.registered
            /\ s[k].arg.others = v.more.listed \ {s[k].arg.row}

LEMMA RegistryIs ==
  ASSUME NEW v, NEW s
  PROVE  RegistryOK(v, s) <=>
           v \in InRegistry /\ s \in Seq(OfRegistry) /\ Spun(v, s) /\ OneAtATime(v, s)
BY DEF RegistryOK, InRegistry, OfRegistry, Registered, OneAtATime

LEMMA FewAreAlone ==
  ASSUME NEW S, NEW s \in Seq(S), Len(s) <= 1, NEW rs
  PROVE  Alone(s, rs)
BY LenProperties DEF Alone

LEMMA RegistryAsks ==
  ASSUME Bounds, RegistryOK(view, calls),
         \/ \E c \in Items : HandleCreate(c)
         \/ HandleDelete
  PROVE  Bounds' /\ RegistryOK(view', calls')
<1>1. /\ view \in InRegistry /\ calls \in Seq(OfRegistry) /\ Spun(view, calls) /\ OneAtATime(view, calls)
  BY RegistryIs
<1>2. view.more \in Registered /\ view.sel \in Selections
  BY <1>1 DEF InRegistry, Shape
<1>3. PICK w : w = view'
  OBVIOUS
<1>4. ASSUME NEW q, NEW a, Bounds', Sends(OfRegistry, q, a),
             w \in InRegistry, w.spins = view.spins \/ w.spins = view.spins \cup {q},
             w.more = [view.more EXCEPT !.mixed = @ \/ calls # <<>>],
             q = "unregister" =>
               a = [row |-> view.sel, others |-> view.more.listed \ {view.sel}]
      PROVE  Bounds' /\ RegistryOK(view', calls')
  <2>1. /\ calls' \in Seq(OfRegistry) /\ Len(calls') = Len(calls) + 1 /\ calls' # <<>>
        /\ \A r : Asked(calls', r) <=> Asked(calls, r) \/ q = r
        /\ \A r, b : AllAbout(calls', r, b) <=> AllAbout(calls, r, b) /\ (q = r => a = b)
    BY <1>4 DEF Sends
  <2>2. Spun(w, calls')
    BY <1>1, <1>4, <2>1 DEF Spun
  <2>3. /\ w.more.listed = view.more.listed /\ w.more.registered = view.more.registered
        /\ ~w.more.mixed => ~view.more.mixed /\ calls = <<>>
    BY <1>2, <1>4 DEF Registered
  <2>4. ASSUME ~w.more.mixed
        PROVE  /\ Len(calls') <= 1 /\ w.more.listed = w.more.registered
               /\ \A k \in DOMAIN calls' : calls'[k].of = "unregister" =>
                     calls'[k].arg = [row |-> view.sel, others |-> view.more.listed \ {view.sel}]
    <3>1. calls = <<>> /\ view.more.listed = view.more.registered
      BY <1>1, <2>3, <2>4 DEF OneAtATime
    <3>2. Len(calls') <= 1
      BY <2>1, <3>1
    <3>3. \A b : AllAbout(calls, "unregister", b)
      BY <3>1 DEF AllAbout
    <3>4. q = "unregister" \/ ~Asked(calls', "unregister")
      BY <2>1, <3>1 DEF Asked
    <3>5. CASE q = "unregister"
      <4>1. AllAbout(calls', "unregister", a)
        BY <2>1, <3>3
      <4> QED
        BY <1>4, <2>3, <3>1, <3>2, <3>5, <4>1 DEF AllAbout
    <3>6. CASE ~Asked(calls', "unregister")
      BY <2>3, <3>1, <3>2, <3>6 DEF Asked
    <3> QED
      BY <3>4, <3>5, <3>6
  <2>5. OneAtATime(w, calls')
    BY <2>1, <2>3, <2>4 DEF OneAtATime
  <2> QED
    BY <1>3, <1>4, <2>1, <2>2, <2>5, RegistryIs
<1>5. CASE \E c \in Items : HandleCreate(c)
  <2>1. PICK c \in Items : /\ Requests("register", c)
                           /\ w = [Spinning(view, "register") EXCEPT !.more.mixed = @ \/ calls # <<>>]
    BY <1>3, <1>5 DEF HandleCreate
  <2>2. Replies({"register"}, {c}) \subseteq OfRegistry
    BY DEF Replies, OfRegistry
  <2>3. Bounds' /\ Sends(OfRegistry, "register", c)
    BY <1>1, <2>1, <2>2, Sent
  <2>4. /\ w \in InRegistry /\ w.spins = view.spins \cup {"register"}
        /\ w.more = [view.more EXCEPT !.mixed = @ \/ calls # <<>>]
    BY <1>1, <2>1 DEF InRegistry, Registered, Shape, Spinning
  <2> QED
    BY <1>4, <2>3, <2>4
<1>6. CASE HandleDelete
  <2>1. PICK a : a = [row |-> view.sel, others |-> view.more.listed \ {view.sel}]
    OBVIOUS
  <2>2. /\ Requests("unregister", a) /\ w = [view EXCEPT !.more.mixed = @ \/ calls # <<>>]
        /\ view.sel \in view.more.listed
    BY <1>3, <1>6, <2>1 DEF HandleDelete
  <2>3. a \in Deletions
    BY <1>2, <2>1, <2>2 DEF Deletions, Registered
  <2>4. Replies({"unregister"}, {a}) \subseteq OfRegistry
    BY <2>3 DEF Replies, OfRegistry
  <2>5. Bounds' /\ Sends(OfRegistry, "unregister", a)
    BY <1>1, <2>2, <2>4, Sent
  <2>6. /\ w \in InRegistry /\ w.spins = view.spins
        /\ w.more = [view.more EXCEPT !.mixed = @ \/ calls # <<>>]
    BY <1>1, <2>2 DEF InRegistry, Registered, Shape
  <2> QED
    BY <1>4, <2>1, <2>5, <2>6
<1> QED
  BY <1>5, <1>6

LEMMA RegistryAnswers ==
  ASSUME Bounds, RegistryOK(view, calls), NEW i, ClustersListed(i) \/ Created(i) \/ Deleted(i)
  PROVE  Bounds' /\ RegistryOK(view', calls')
<1>1. /\ view \in InRegistry /\ calls \in Seq(OfRegistry) /\ Spun(view, calls) /\ OneAtATime(view, calls)
  BY RegistryIs
<1>2. view.more \in Registered /\ view.spins \subseteq {"clusters", "register"}
  BY <1>1 DEF InRegistry, Shape
<1>3. PICK w : w = view'
  OBVIOUS
<1>4. PICK c : c = calls[i]
  OBVIOUS
<1>5. ASSUME NEW q, Answered(q, i) \/ Lost(q, i),
             w \in InRegistry, w.spins = view.spins \ {q},
             w.more.mixed \/ ((~view.more.mixed => Len(calls) <= 1)
                                => w.more.mixed = view.more.mixed /\ w.more.listed = w.more.registered)
      PROVE  Bounds' /\ RegistryOK(view', calls')
  <2>1. Bounds' /\ Comes(OfRegistry, q, i)
    BY <1>1, <1>5, Came
  <2>2. /\ calls' \in Seq(OfRegistry) /\ (Len(calls) <= 1 => calls' = <<>>)
        /\ \A r : Asked(calls, r) /\ r # q => Asked(calls', r)
    BY <2>1 DEF Comes
  <2>3. Spun(w, calls')
    BY <1>1, <1>5, <2>2 DEF Spun
  <2>4. ASSUME ~w.more.mixed
        PROVE  calls' = <<>> /\ w.more.listed = w.more.registered
    <3>1. ~view.more.mixed => Len(calls) <= 1
      BY <1>1 DEF OneAtATime
    <3> QED
      BY <1>5, <2>2, <2>4, <3>1
  <2>5. OneAtATime(w, calls')
    BY <2>4 DEF OneAtATime
  <2> QED
    BY <1>3, <1>5, <2>1, <2>2, <2>3, <2>5, RegistryIs
<1>6. ASSUME NEW q, Answered(q, i) \/ Lost(q, i)
      PROVE  /\ c \in OfRegistry /\ c.of = q /\ i \in DOMAIN calls
             /\ q = "register" => c.arg \in Items
             /\ q = "unregister" => c.arg \in Deletions
  <2>1. Comes(OfRegistry, q, i)
    BY <1>1, <1>6, Came
  <2>2. c \in OfRegistry /\ c.of = q /\ i \in DOMAIN calls
    BY <1>4, <2>1 DEF Comes
  <2> QED
    BY <2>2 DEF OfRegistry, Replies
<1>7. CASE ClustersListed(i)
  <2>1. CASE /\ Answered("clusters", i)
             /\ w = [view EXCEPT !.spins = @ \ {"clusters"}, !.more.listed = view.more.registered]
    <3>1. /\ w \in InRegistry /\ w.spins = view.spins \ {"clusters"}
          /\ w.more.mixed = view.more.mixed /\ w.more.listed = w.more.registered
      BY <1>1, <2>1 DEF InRegistry, Registered, Shape
    <3> QED
      BY <1>5, <2>1, <3>1
  <2>2. CASE Lost("clusters", i) /\ w = [Failing(view, "clusters") EXCEPT !.more.mixed = TRUE]
    <3>1. w \in InRegistry /\ w.spins = view.spins \ {"clusters"} /\ w.more.mixed
      BY <1>1, <2>2 DEF InRegistry, Registered, Shape, Failing
    <3> QED
      BY <1>5, <2>2, <3>1
  <2> QED
    BY <1>3, <1>7, <2>1, <2>2 DEF ClustersListed
<1>8. CASE Created(i)
  <2>1. CASE /\ ReturnsAsking("register", i, Request("clusters", Nothing))
             /\ w = [view EXCEPT !.spins = (@ \ {"register"}) \cup {"clusters"},
                                 !.more.registered = @ \cup {c.arg}, !.more.form = FALSE]
    <3>1. PICK q : q = Request("clusters", Nothing)
      OBVIOUS
    <3>2. q \in OfRegistry /\ q.of = "clusters"
      BY <3>1 DEF Request, OfRegistry, Replies, Sights
    <3>3. Bounds' /\ ComesAsking(OfRegistry, "register", i, q)
      BY <1>1, <2>1, <3>1, <3>2, CameAsking
    <3>4. /\ calls' \in Seq(OfRegistry) /\ Len(calls') = Len(calls) /\ calls' # <<>>
          /\ c \in OfRegistry /\ c.of = "register"
          /\ Asked(calls', "clusters")
          /\ \A r : Asked(calls, r) /\ r # "register" => Asked(calls', r)
          /\ Alone(calls, {"register", "unregister"}) => ~Asked(calls', "unregister")
      BY <1>4, <3>2, <3>3 DEF ComesAsking
    <3>5. c.arg \in Items
      BY <3>4 DEF OfRegistry, Replies
    <3>6. /\ w \in InRegistry /\ w.spins = (view.spins \ {"register"}) \cup {"clusters"}
          /\ w.more.mixed = view.more.mixed
      BY <1>1, <2>1, <3>5 DEF InRegistry, Registered, Shape
    <3>7. Spun(w, calls')
      BY <1>1, <3>4, <3>6 DEF Spun
    <3>8. ASSUME ~w.more.mixed
          PROVE  Len(calls') <= 1 /\ ~Asked(calls', "unregister")
      <4>1. Len(calls) <= 1
        BY <1>1, <3>6, <3>8 DEF OneAtATime
      <4>2. Alone(calls, {"register", "unregister"})
        BY <1>1, <4>1, FewAreAlone
      <4> QED
        BY <3>4, <4>1, <4>2
    <3>9. OneAtATime(w, calls')
      BY <3>4, <3>8 DEF OneAtATime, Asked
    <3> QED
      BY <1>3, <3>3, <3>4, <3>6, <3>7, <3>9, RegistryIs
  <2>2. CASE /\ Lost("register", i)
             /\ \E done \in {{}, {c.arg}} :
                   w = [Failing(view, "register") EXCEPT !.more.registered = @ \cup done,
                                                         !.more.mixed = TRUE]
    <3>1. PICK done \in SUBSET Items :
              w = [Failing(view, "register") EXCEPT !.more.registered = @ \cup done,
                                                    !.more.mixed = TRUE]
      BY <1>6, <2>2
    <3>2. w \in InRegistry /\ w.spins = view.spins \ {"register"} /\ w.more.mixed
      BY <1>1, <3>1 DEF InRegistry, Registered, Shape, Failing
    <3> QED
      BY <1>5, <2>2, <3>2
  <2> QED
    BY <1>3, <1>4, <1>8, <2>1, <2>2 DEF Created
<1>9. CASE Deleted(i)
  <2>1. PICK row : row = c.arg.row
    OBVIOUS
  <2>2. /\ i \in DOMAIN calls /\ c.of = "unregister"
        /\ \/ /\ row \in view.more.registered /\ Answered("unregister", i)
              /\ w = [view EXCEPT !.sel = Nothing, !.more.registered = @ \ {row},
                                  !.more.listed = c.arg.others]
           \/ /\ Answered("unregister", i) /\ w = [view EXCEPT !.more.mixed = TRUE]
           \/ /\ Lost("unregister", i)
              /\ \E done \in {{}, {row}} :
                    w = [view EXCEPT !.more.registered = @ \ done, !.more.mixed = TRUE]
    BY <1>3, <1>4, <1>9, <2>1 DEF Deleted
  <2>3. c.arg \in Deletions
    BY <1>6, <2>2
  <2>4. row \in Items /\ c.arg.others \in SUBSET Items
    BY <2>1, <2>3 DEF Deletions
  <2>5. view.spins = view.spins \ {"unregister"}
    BY <1>2
  <2>6. ASSUME NEW t \in SUBSET Items, w = [view EXCEPT !.more.registered = t, !.more.mixed = TRUE],
               Answered("unregister", i) \/ Lost("unregister", i)
        PROVE  Bounds' /\ RegistryOK(view', calls')
    <3>1. w \in InRegistry /\ w.spins = view.spins /\ w.more.mixed
      BY <1>1, <2>6 DEF InRegistry, Registered, Shape
    <3> QED
      BY <1>5, <2>5, <2>6, <3>1
  <2>7. CASE Answered("unregister", i) /\ w = [view EXCEPT !.more.mixed = TRUE]
    <3>1. w = [view EXCEPT !.more.registered = view.more.registered, !.more.mixed = TRUE]
      BY <1>1, <2>7 DEF InRegistry, Registered, Shape
    <3>2. view.more.registered \in SUBSET Items
      BY <1>2 DEF Registered
    <3> QED
      BY <2>6, <2>7, <3>1, <3>2
  <2>8. CASE /\ Lost("unregister", i)
             /\ \E done \in {{}, {row}} :
                   w = [view EXCEPT !.more.registered = @ \ done, !.more.mixed = TRUE]
    <3>1. PICK done : w = [view EXCEPT !.more.registered = @ \ done, !.more.mixed = TRUE]
      BY <2>8
    <3>2. w = [view EXCEPT !.more.registered = view.more.registered \ done, !.more.mixed = TRUE]
      BY <1>1, <3>1 DEF InRegistry, Registered, Shape
    <3>3. view.more.registered \ done \in SUBSET Items
      BY <1>2 DEF Registered
    <3> QED
      BY <2>6, <2>8, <3>2, <3>3
  <2>9. CASE /\ row \in view.more.registered /\ Answered("unregister", i)
             /\ w = [view EXCEPT !.sel = Nothing, !.more.registered = @ \ {row},
                                 !.more.listed = c.arg.others]
    <3>1. Nothing \in Selections
      BY DEF Selections
    <3>2. /\ w \in InRegistry /\ w.spins = view.spins /\ w.more.mixed = view.more.mixed
          /\ w.more.listed = c.arg.others /\ w.more.registered = view.more.registered \ {row}
      BY <1>1, <2>4, <2>9, <3>1 DEF InRegistry, Registered, Shape
    <3>3. ~view.more.mixed => c.arg.others = view.more.registered \ {row}
      BY <1>1, <1>4, <2>1, <2>2 DEF OneAtATime
    <3>4. w.more.mixed \/ w.more.listed = w.more.registered
      BY <3>2, <3>3
    <3> QED
      BY <1>5, <2>5, <2>9, <3>2, <3>4
  <2> QED
    BY <2>2, <2>7, <2>8, <2>9
<1> QED
  BY <1>7, <1>8, <1>9

LEMMA RegistrySteps ==
  ASSUME Bounds, RegistryOK(view, calls),
         \/ ToggleForm \/ HandleDelete
         \/ \E c \in Items : HandleCreate(c)
         \/ \E c \in Items \cup {Nothing} : ConfirmDelete(c)
         \/ \E i \in DOMAIN calls : ClustersListed(i) \/ Created(i) \/ Deleted(i)
  PROVE  Bounds' /\ RegistryOK(view', calls')
<1>1. /\ view \in InRegistry /\ calls \in Seq(OfRegistry) /\ Spun(view, calls) /\ OneAtATime(view, calls)
  BY RegistryIs
<1>2. PICK w : w = view'
  OBVIOUS
<1>3. ASSUME Locally, w \in InRegistry, w.spins = view.spins, w.more.mixed = view.more.mixed,
             w.more.listed = view.more.listed, w.more.registered = view.more.registered
      PROVE  Bounds' /\ RegistryOK(view', calls')
  <2>1. Bounds' /\ calls' = calls
    BY <1>3, Kept
  <2>2. Spun(w, calls) /\ OneAtATime(w, calls)
    BY <1>1, <1>3 DEF Spun, OneAtATime
  <2> QED
    BY <1>1, <1>2, <1>3, <2>1, <2>2, RegistryIs
<1>4. CASE ToggleForm
  <2>1. Locally /\ w = [view EXCEPT !.more.form = ~@]
    BY <1>2, <1>4 DEF ToggleForm
  <2>2. /\ w \in InRegistry /\ w.spins = view.spins /\ w.more.mixed = view.more.mixed
        /\ w.more.listed = view.more.listed /\ w.more.registered = view.more.registered
    BY <1>1, <2>1 DEF InRegistry, Registered, Shape
  <2> QED
    BY <1>3, <2>1, <2>2
<1>5. CASE \E c \in Items \cup {Nothing} : ConfirmDelete(c)
  <2>1. PICK c \in Selections : Locally /\ w = [view EXCEPT !.sel = c]
    BY <1>2, <1>5 DEF ConfirmDelete, Selections
  <2>2. w \in InRegistry /\ w.spins = view.spins /\ w.more = view.more
    BY <1>1, <2>1 DEF InRegistry, Shape
  <2> QED
    BY <1>3, <2>1, <2>2
<1> QED
  BY <1>4, <1>5, RegistryAsks, RegistryAnswers

-----------------------------------------------------------------------------
(* ComposeImport *)

OfCompose == Replies({"read", "parse"}, Selections)

Breakdowns == [{"parse"} -> Replies({"parse"}, Selections) \cup {None}]

Composed == [phase : {"input", "parsing", "breakdown", "preview"}, sent : Selections]

InCompose == Shape("ComposeImport", Selections, {"parse"}, Breakdowns, Composed)

(* What is being parsed, and what was. *)
ParsedIsSent(v, s) ==
    /\ v.more.phase = "parsing" <=> Asked(s, "parse")
    /\ Alone(s, {"parse"}) /\ AllAbout(s, "parse", v.more.sent)
    /\ v.more.phase \in {"breakdown", "preview"} => v.got["parse"].arg = v.more.sent

LEMMA ComposeIs ==
  ASSUME NEW v, NEW s
  PROVE  ComposeOK(v, s) <=>
           v \in InCompose /\ s \in Seq(OfCompose) /\ Spun(v, s) /\ ParsedIsSent(v, s)
BY DEF ComposeOK, InCompose, OfCompose, Breakdowns, Composed, ParsedIsSent

LEMMA ComposeSteps ==
  ASSUME Bounds, ComposeOK(view, calls),
         \/ \E t \in Items : EditText(t) \/ Upload(t)
         \/ Import \/ Turn
         \/ \E i \in DOMAIN calls : FileRead(i) \/ Parsed(i)
  PROVE  Bounds' /\ ComposeOK(view', calls')
<1>1. /\ view \in InCompose /\ calls \in Seq(OfCompose) /\ Spun(view, calls) /\ ParsedIsSent(view, calls)
  BY ComposeIs
<1>2. /\ view.got \in Breakdowns /\ view.more \in Composed /\ view.sel \in Selections
      /\ view.spins \subseteq {"parse"}
  BY <1>1 DEF InCompose, Shape
<1>3. PICK w : w = view'
  OBVIOUS
<1>4. ASSUME Locally, w \in InCompose, w.spins = view.spins, w.got = view.got,
             w.more.sent = view.more.sent,
             \/ w.more.phase = view.more.phase
             \/ /\ w.more.phase # "parsing" /\ view.more.phase \in {"breakdown", "preview"}
      PROVE  Bounds' /\ ComposeOK(view', calls')
  <2>1. Bounds' /\ calls' = calls
    BY <1>4, Kept
  <2>2. Spun(w, calls) /\ ParsedIsSent(w, calls)
    BY <1>1, <1>4 DEF Spun, ParsedIsSent
  <2> QED
    BY <1>1, <1>3, <1>4, <2>1, <2>2, ComposeIs
<1>5. ASSUME NEW t \in Items, EditText(t)
      PROVE  Bounds' /\ ComposeOK(view', calls')
  <2>1. Locally /\ w = [view EXCEPT !.sel = t, !.errors = {}] /\ t \in Selections
    BY <1>3, <1>5 DEF EditText, Selections
  <2>2. w \in InCompose /\ w.spins = view.spins /\ w.got = view.got /\ w.more = view.more
    BY <1>1, <2>1 DEF InCompose, Shape
  <2> QED
    BY <1>4, <2>1, <2>2
<1>6. ASSUME NEW t \in Items, Upload(t)
      PROVE  Bounds' /\ ComposeOK(view', calls')
  <2>1. PICK e \in SUBSET {"parse"} : w = [view EXCEPT !.errors = e]
    BY <1>3, <1>6 DEF Upload
  <2>2. w \in InCompose /\ w.spins = view.spins /\ w.got = view.got /\ w.more = view.more
    BY <1>1, <2>1 DEF InCompose, Shape
  <2>3. CASE Locally
    BY <1>4, <2>2, <2>3
  <2>4. CASE Requests("read", t)
    <3>1. Replies({"read"}, {t}) \subseteq OfCompose
      BY DEF Replies, OfCompose, Selections
    <3>2. Bounds' /\ Sends(OfCompose, "read", t)
      BY <1>1, <2>4, <3>1, Sent
    <3>3. /\ calls' \in Seq(OfCompose)
          /\ Asked(calls', "parse") <=> Asked(calls, "parse")
          /\ \A r : Asked(calls, r) => Asked(calls', r)
          /\ \A b : AllAbout(calls, "parse", b) => AllAbout(calls', "parse", b)
          /\ Alone(calls, {"parse"}) => Alone(calls', {"parse"})
      BY <3>2 DEF Sends
    <3>4. Spun(w, calls') /\ ParsedIsSent(w, calls')
      BY <1>1, <2>2, <3>3 DEF Spun, ParsedIsSent
    <3> QED
      BY <1>3, <2>2, <3>2, <3>3, <3>4, ComposeIs
  <2> QED
    BY <1>6, <2>3, <2>4 DEF Upload
<1>7. CASE Import
  <2>1. /\ Requests("parse", view.sel) /\ view.more.phase = "input"
        /\ w = [Spinning(view, "parse") EXCEPT !.more = [phase |-> "parsing", sent |-> view.sel]]
    BY <1>3, <1>7 DEF Import
  <2>2. Replies({"parse"}, {view.sel}) \subseteq OfCompose
    BY <1>2 DEF Replies, OfCompose
  <2>3. Bounds' /\ Sends(OfCompose, "parse", view.sel)
    BY <1>1, <2>1, <2>2, Sent
  <2>4. ~Asked(calls, "parse") /\ Alone(calls, {"parse"})
    BY <1>1, <2>1 DEF ParsedIsSent
  <2>5. AllAbout(calls, "parse", view.sel)
    BY <2>4 DEF AllAbout, Asked
  <2>6. /\ calls' \in Seq(OfCompose) /\ Asked(calls', "parse")
        /\ AllAbout(calls', "parse", view.sel) /\ Alone(calls', {"parse"})
    BY <2>3, <2>4, <2>5 DEF Sends
  <2>7. /\ w \in InCompose /\ w.spins \subseteq {"parse"}
        /\ w.more.phase = "parsing" /\ w.more.sent = view.sel
    BY <1>1, <1>2, <2>1 DEF InCompose, Shape, Spinning, Composed
  <2>8. Spun(w, calls') /\ ParsedIsSent(w, calls')
    BY <2>6, <2>7 DEF Spun, ParsedIsSent
  <2> QED
    BY <1>3, <2>3, <2>6, <2>7, <2>8, ComposeIs
<1>8. CASE Turn
  <2>1. PICK p \in {"input", "breakdown", "preview"}, e \in SUBSET {"parse"} :
            /\ Locally /\ view.more.phase \in {"breakdown", "preview"}
            /\ w = [view EXCEPT !.more.phase = p, !.errors = e]
    <3>1. /\ Locally /\ view.more.phase \in {"breakdown", "preview"}
          /\ \E p \in {"input", "breakdown", "preview"} :
                w = [view EXCEPT !.more.phase = p] \/ w = [view EXCEPT !.more.phase = p, !.errors = {}]
      BY <1>3, <1>8 DEF Turn
    <3>2. \A p : [view EXCEPT !.more.phase = p] = [view EXCEPT !.more.phase = p, !.errors = view.errors]
      BY <1>1 DEF InCompose, Shape
    <3>3. view.errors \in SUBSET {"parse"} /\ {} \in SUBSET {"parse"}
      BY <1>1 DEF InCompose, Shape
    <3> QED
      BY <3>1, <3>2, <3>3, Zenon
  <2>2. /\ w \in InCompose /\ w.spins = view.spins /\ w.got = view.got
        /\ w.more.phase = p /\ w.more.sent = view.more.sent
    BY <1>1, <2>1 DEF InCompose, Shape, Composed
  <2> QED
    BY <1>4, <2>1, <2>2
<1>9. ASSUME NEW i \in DOMAIN calls, FileRead(i)
      PROVE  Bounds' /\ ComposeOK(view', calls')
  <2>1. PICK c : c = calls[i]
    OBVIOUS
  <2>2. Answered("read", i) /\ w = [view EXCEPT !.sel = c.arg]
    BY <1>3, <1>9, <2>1 DEF FileRead
  <2>3. Bounds' /\ Comes(OfCompose, "read", i)
    BY <1>1, <2>2, Came
  <2>4. /\ calls' \in Seq(OfCompose) /\ c \in OfCompose
        /\ Asked(calls', "parse") <=> Asked(calls, "parse")
        /\ \A b : AllAbout(calls, "parse", b) => AllAbout(calls', "parse", b)
        /\ Alone(calls, {"parse"}) => Alone(calls', {"parse"})
    BY <2>1, <2>3 DEF Comes
  <2>5. c.arg \in Selections
    BY <2>4 DEF OfCompose, Replies
  <2>6. w \in InCompose /\ w.spins = view.spins /\ w.got = view.got /\ w.more = view.more
    BY <1>1, <2>2, <2>5 DEF InCompose, Shape
  <2>7. Spun(w, calls') /\ ParsedIsSent(w, calls')
    BY <1>1, <1>2, <2>4, <2>6 DEF Spun, ParsedIsSent
  <2> QED
    BY <1>3, <2>3, <2>4, <2>6, <2>7, ComposeIs
<1>10. ASSUME NEW i \in DOMAIN calls, Parsed(i)
       PROVE  Bounds' /\ ComposeOK(view', calls')
  <2>1. PICK c : c = calls[i]
    OBVIOUS
  <2>2. Bounds' /\ Comes(OfCompose, "parse", i)
    BY <1>1, <1>10, Came DEF Parsed
  <2>3. /\ calls' \in Seq(OfCompose) /\ c \in OfCompose /\ c.of = "parse"
        /\ Alone(calls, {"parse"}) => Alone(calls', {"parse"}) /\ ~Asked(calls', "parse")
        /\ AllAbout(calls, "parse", view.more.sent)
             => AllAbout(calls', "parse", view.more.sent) /\ c.arg = view.more.sent
    BY <2>1, <2>2 DEF Comes
  <2>4. c \in Replies({"parse"}, Selections)
    BY <2>3 DEF OfCompose, Replies
  <2>5. [view.got EXCEPT !["parse"] = c] \in Breakdowns /\ [view.got EXCEPT !["parse"] = c]["parse"] = c
    BY <1>2, <2>4 DEF Breakdowns
  <2>6. /\ w \in InCompose /\ w.spins = view.spins \ {"parse"} /\ w.more.sent = view.more.sent
        /\ \/ w.more.phase = "input"
           \/ w.more.phase = "breakdown" /\ w.got["parse"] = c
    <3>1. CASE w = [Got(view, "parse", c) EXCEPT !.more.phase = "breakdown"]
      <4>1. /\ w \in InCompose /\ w.spins = view.spins \ {"parse"} /\ w.more.sent = view.more.sent
            /\ w.more.phase = "breakdown" /\ w.got = [view.got EXCEPT !["parse"] = c]
        BY <1>1, <2>5, <3>1 DEF InCompose, Shape, Got, Composed
      <4> QED
        BY <2>5, <4>1
    <3>2. CASE w = [Failing(view, "parse") EXCEPT !.more.phase = "input"]
      BY <1>1, <3>2 DEF InCompose, Shape, Failing, Composed
    <3> QED
      BY <1>3, <1>10, <2>1, <3>1, <3>2 DEF Parsed
  <2>7. Spun(w, calls')
    BY <1>2, <2>6 DEF Spun
  <2>8. ParsedIsSent(w, calls')
    BY <1>1, <2>3, <2>6 DEF ParsedIsSent
  <2> QED
    BY <1>3, <2>2, <2>3, <2>6, <2>7, <2>8, ComposeIs
<1> QED
  BY <1>5, <1>6, <1>7, <1>8, <1>9, <1>10

-----------------------------------------------------------------------------
(* GitHubImport *)

OfGitHub == Replies({"scan", "check"}, Selections)

Scans == [{"scan"} -> OfGitHub \cup {None}]

Gathered == [phase : {"idle", "scanning", "results", "error"}, sent : Selections,
             editing : BOOLEAN, checked : BOOLEAN]

InGitHub == Shape("GitHubImport", Selections, {"scan", "check"}, Scans, Gathered)

(* What is being scanned, and what was. *)
ScannedIsSent(v, s) ==
    /\ v.more.phase = "scanning" <=> Asked(s, "scan")
    /\ Alone(s, {"scan"}) /\ AllAbout(s, "scan", v.more.sent)
    /\ ~v.more.checked => ~Asked(s, "check")
    /\ v.more.phase = "results" /\ ~v.more.checked => v.got["scan"].arg = v.more.sent

LEMMA GitHubIs ==
  ASSUME NEW v, NEW s
  PROVE  GitHubOK(v, s) <=>
           v \in InGitHub /\ s \in Seq(OfGitHub) /\ Spun(v, s) /\ ScannedIsSent(v, s)
BY DEF GitHubOK, InGitHub, OfGitHub, Scans, Gathered, ScannedIsSent

LEMMA GitHubSteps ==
  ASSUME Bounds, GitHubOK(view, calls),
         \/ \E t \in Items : EditAddress(t)
         \/ Scan \/ EditRecipe \/ CheckImage
         \/ \E i \in DOMAIN calls : Scanned(i) \/ ImageChecked(i)
  PROVE  Bounds' /\ GitHubOK(view', calls')
<1>1. /\ view \in InGitHub /\ calls \in Seq(OfGitHub) /\ Spun(view, calls) /\ ScannedIsSent(view, calls)
  BY GitHubIs
<1>2. /\ view.got \in Scans /\ view.more \in Gathered /\ view.sel \in Selections
      /\ view.spins \subseteq {"scan", "check"}
  BY <1>1 DEF InGitHub, Shape
<1>3. PICK w : w = view'
  OBVIOUS
<1>4. ASSUME Locally, w \in InGitHub, w.spins = view.spins, w.got = view.got,
             w.more.sent = view.more.sent, w.more.phase = view.more.phase,
             w.more.checked = view.more.checked
      PROVE  Bounds' /\ GitHubOK(view', calls')
  <2>1. Bounds' /\ calls' = calls
    BY <1>4, Kept
  <2>2. Spun(w, calls) /\ ScannedIsSent(w, calls)
    BY <1>1, <1>4 DEF Spun, ScannedIsSent
  <2> QED
    BY <1>1, <1>3, <1>4, <2>1, <2>2, GitHubIs
<1>5. ASSUME NEW t \in Items, EditAddress(t)
      PROVE  Bounds' /\ GitHubOK(view', calls')
  <2>1. Locally /\ w = [view EXCEPT !.sel = t] /\ t \in Selections
    BY <1>3, <1>5 DEF EditAddress, Selections
  <2>2. w \in InGitHub /\ w.spins = view.spins /\ w.got = view.got /\ w.more = view.more
    BY <1>1, <2>1 DEF InGitHub, Shape
  <2> QED
    BY <1>4, <2>1, <2>2
<1>6. CASE EditRecipe
  <2>1. Locally /\ w = [view EXCEPT !.more.editing = TRUE]
    BY <1>3, <1>6 DEF EditRecipe
  <2>2. /\ w \in InGitHub /\ w.spins = view.spins /\ w.got = view.got
        /\ w.more.sent = view.more.sent /\ w.more.phase = view.more.phase
        /\ w.more.checked = view.more.checked
    BY <1>1, <2>1 DEF InGitHub, Shape, Gathered
  <2> QED
    BY <1>4, <2>1, <2>2
<1>7. CASE Scan
  <2>1. /\ Requests("scan", view.sel) /\ view.more.phase # "scanning"
        /\ w = [Spinning(view, "scan") EXCEPT !.got["scan"] = None,
                  !.more = [@ EXCEPT !.phase = "scanning", !.sent = view.sel, !.editing = FALSE]]
    BY <1>3, <1>7 DEF Scan
  <2>2. Replies({"scan"}, {view.sel}) \subseteq OfGitHub
    BY <1>2 DEF Replies, OfGitHub
  <2>3. Bounds' /\ Sends(OfGitHub, "scan", view.sel)
    BY <1>1, <2>1, <2>2, Sent
  <2>4. ~Asked(calls, "scan") /\ Alone(calls, {"scan"})
    BY <1>1, <2>1 DEF ScannedIsSent
  <2>5. AllAbout(calls, "scan", view.sel)
    BY <2>4 DEF AllAbout, Asked
  <2>6. /\ calls' \in Seq(OfGitHub) /\ Asked(calls', "scan")
        /\ AllAbout(calls', "scan", view.sel) /\ Alone(calls', {"scan"})
        /\ Asked(calls', "check") => Asked(calls, "check")
        /\ \A r : Asked(calls, r) => Asked(calls', r)
    BY <2>3, <2>4, <2>5 DEF Sends
  <2>7. [view.got EXCEPT !["scan"] = None] \in Scans
    BY <1>2 DEF Scans
  <2>8. PICK u : u = Spinning(view, "scan")
    OBVIOUS
  <2>9. /\ u \in InGitHub /\ u.spins = view.spins \cup {"scan"} /\ u.got = view.got /\ u.more = view.more
    BY <1>1, <2>8 DEF InGitHub, Shape, Spinning
  <2>10. w = [u EXCEPT !.got = [u.got EXCEPT !["scan"] = None],
                !.more = [u.more EXCEPT !.phase = "scanning", !.sent = view.sel, !.editing = FALSE]]
    BY <2>1, <2>8, <2>9 DEF InGitHub, Shape
  <2>11. PICK m : m = [u.more EXCEPT !.phase = "scanning", !.sent = view.sel, !.editing = FALSE]
    OBVIOUS
  <2>12. /\ m \in Gathered /\ m.phase = "scanning" /\ m.sent = view.sel /\ m.checked = view.more.checked
    BY <1>2, <2>9, <2>11 DEF Gathered
  <2>13. /\ w \in InGitHub /\ w.spins = view.spins \cup {"scan"} /\ w.more = m
    BY <2>7, <2>9, <2>10, <2>11, <2>12 DEF InGitHub, Shape
  <2>14. Spun(w, calls')
    BY <1>1, <2>6, <2>13 DEF Spun
  <2>15. ScannedIsSent(w, calls')
    BY <1>1, <2>6, <2>12, <2>13 DEF ScannedIsSent
  <2> QED
    BY <1>3, <2>3, <2>6, <2>13, <2>14, <2>15, GitHubIs
<1>8. CASE CheckImage
  <2>1. /\ Requests("check", view.sel)
        /\ w = [view EXCEPT !.spins = @ \cup {"check"}, !.more.checked = TRUE]
    BY <1>3, <1>8 DEF CheckImage
  <2>2. Replies({"check"}, {view.sel}) \subseteq OfGitHub
    BY <1>2 DEF Replies, OfGitHub
  <2>3. Bounds' /\ Sends(OfGitHub, "check", view.sel)
    BY <1>1, <2>1, <2>2, Sent
  <2>4. /\ calls' \in Seq(OfGitHub) /\ Asked(calls', "check")
        /\ Asked(calls', "scan") <=> Asked(calls, "scan")
        /\ \A r : Asked(calls, r) => Asked(calls', r)
        /\ \A b : AllAbout(calls, "scan", b) => AllAbout(calls', "scan", b)
        /\ Alone(calls, {"scan"}) => Alone(calls', {"scan"})
    BY <2>3 DEF Sends
  <2>5. /\ w \in InGitHub /\ w.spins = view.spins \cup {"check"} /\ w.got = view.got
        /\ w.more.checked /\ w.more.phase = view.more.phase /\ w.more.sent = view.more.sent
    BY <1>1, <2>1 DEF InGitHub, Shape, Gathered
  <2>6. Spun(w, calls') /\ ScannedIsSent(w, calls')
    BY <1>1, <2>4, <2>5 DEF Spun, ScannedIsSent
  <2> QED
    BY <1>3, <2>3, <2>4, <2>5, <2>6, GitHubIs
<1>9. ASSUME NEW i \in DOMAIN calls, Scanned(i)
      PROVE  Bounds' /\ GitHubOK(view', calls')
  <2>1. PICK c : c = calls[i]
    OBVIOUS
  <2>2. Bounds' /\ Comes(OfGitHub, "scan", i)
    BY <1>1, <1>9, Came DEF Scanned
  <2>3. /\ calls' \in Seq(OfGitHub) /\ c \in OfGitHub
        /\ Alone(calls, {"scan"}) => Alone(calls', {"scan"}) /\ ~Asked(calls', "scan")
        /\ AllAbout(calls, "scan", view.more.sent)
             => AllAbout(calls', "scan", view.more.sent) /\ c.arg = view.more.sent
        /\ Asked(calls', "check") <=> Asked(calls, "check")
    BY <2>1, <2>2 DEF Comes
  <2>4. [view.got EXCEPT !["scan"] = c] \in Scans /\ [view.got EXCEPT !["scan"] = c]["scan"] = c
    BY <1>2, <2>3 DEF Scans
  <2>5. /\ w \in InGitHub /\ w.spins = view.spins \ {"scan"} /\ w.more.sent = view.more.sent
        /\ w.more.checked = view.more.checked
        /\ \/ w.more.phase = "error"
           \/ w.more.phase = "results" /\ w.got["scan"] = c
    <3>1. CASE w = [Got(view, "scan", c) EXCEPT !.more.phase = "results"]
      <4>1. /\ w \in InGitHub /\ w.spins = view.spins \ {"scan"} /\ w.more.sent = view.more.sent
            /\ w.more.checked = view.more.checked
            /\ w.more.phase = "results" /\ w.got = [view.got EXCEPT !["scan"] = c]
        BY <1>1, <2>4, <3>1 DEF InGitHub, Shape, Got, Gathered
      <4> QED
        BY <2>4, <4>1
    <3>2. CASE w = [Failing(view, "scan") EXCEPT !.more.phase = "error"]
      BY <1>1, <3>2 DEF InGitHub, Shape, Failing, Gathered
    <3> QED
      BY <1>3, <1>9, <2>1, <3>1, <3>2 DEF Scanned
  <2>6. Spun(w, calls')
    BY <1>1, <1>2, <2>3, <2>5 DEF Spun
  <2>7. ScannedIsSent(w, calls')
    BY <1>1, <2>3, <2>5 DEF ScannedIsSent
  <2> QED
    BY <1>3, <2>2, <2>3, <2>5, <2>6, <2>7, GitHubIs
<1>10. ASSUME NEW i \in DOMAIN calls, ImageChecked(i)
       PROVE  Bounds' /\ GitHubOK(view', calls')
  <2>1. PICK c : c = calls[i]
    OBVIOUS
  <2>2. Bounds' /\ Comes(OfGitHub, "check", i)
    BY <1>1, <1>10, Came DEF ImageChecked
  <2>3. /\ calls' \in Seq(OfGitHub) /\ c \in OfGitHub /\ Asked(calls, "check")
        /\ Alone(calls, {"scan"}) => Alone(calls', {"scan"})
        /\ AllAbout(calls, "scan", view.more.sent) => AllAbout(calls', "scan", view.more.sent)
        /\ Asked(calls', "scan") <=> Asked(calls, "scan")
    BY <2>1, <2>2 DEF Comes
  <2>4. [view.got EXCEPT !["scan"] = c] \in Scans
    BY <1>2, <2>3 DEF Scans
  <2>5. w \in InGitHub /\ w.spins = view.spins \ {"check"} /\ w.more = view.more
    <3>1. CASE w = [view EXCEPT !.spins = @ \ {"check"}, !.got["scan"] = c]
      BY <1>1, <2>4, <3>1 DEF InGitHub, Shape
    <3>2. CASE w = [view EXCEPT !.spins = @ \ {"check"}]
      BY <1>1, <3>2 DEF InGitHub, Shape
    <3> QED
      BY <1>3, <1>10, <2>1, <3>1, <3>2 DEF ImageChecked
  <2>6. view.more.checked
    BY <1>1, <1>2, <2>3 DEF ScannedIsSent, Gathered
  <2>7. Spun(w, calls')
    BY <1>1, <1>2, <2>3, <2>5 DEF Spun
  <2>8. ScannedIsSent(w, calls')
    BY <1>1, <2>3, <2>5, <2>6 DEF ScannedIsSent
  <2> QED
    BY <1>3, <2>2, <2>3, <2>5, <2>7, <2>8, GitHubIs
<1> QED
  BY <1>5, <1>6, <1>7, <1>8, <1>9, <1>10

-----------------------------------------------------------------------------
(* TemplateCatalog and RecipeCatalog *)

Lists(sels) == [{"list"} -> Replies({"list"}, sels) \cup {None}]

InCatalog(kind, sels, mores) == Shape(kind, sels, {"list"}, Lists(sels), mores)

(* A list has come, or an error, or is to come; and it is that of the selection.
   Unless Retry was pressed, x. *)
ListIs(v, s, o, x) ==
    /\ v.spins # {} \/ v.errors # {} \/ v.got["list"] # None \/ x
    /\ ~o => \/ Newest(s, "list", v.sel)
             \/ ~Asked(s, "list") /\ (v.errors # {} \/ v.got["list"].arg = v.sel \/ x)

(* Either catalog. *)
CatalogOK(v, s, o, kind, sels, mores, x) ==
    /\ v \in InCatalog(kind, sels, mores) /\ s \in Seq(Replies({"list"}, sels))
    /\ Spun(v, s) /\ ListIs(v, s, o, x)

LEMMA TemplatesIs ==
  ASSUME NEW v, NEW s, NEW o
  PROVE  TemplatesOK(v, s, o) <=>
           CatalogOK(v, s, o, "TemplateCatalog", Selections, [on : {TRUE}], FALSE)
BY DEF TemplatesOK, Catalog, CatalogOK, InCatalog, Lists, ListIs

Filtered == [typed : SUBSET Selections, retried : BOOLEAN, opened : BOOLEAN]

LEMMA MarketplaceIs ==
  ASSUME NEW v, NEW s, NEW o
  PROVE  MarketplaceOK(v, s, o) <=>
           CatalogOK(v, s, o, "RecipeCatalog", Selections \X Selections, Filtered, v.more.retried)
BY DEF MarketplaceOK, Catalog, CatalogOK, InCatalog, Lists, ListIs, Filtered

LEMMA CatalogAsks ==
  ASSUME Bounds, NEW kind, NEW sels, NEW mores, NEW x, NEW y,
         CatalogOK(view, calls, overtaken, kind, sels, mores, x),
         NEW f \in sels, Requests("list", f),
         NEW w \in InCatalog(kind, sels, mores), w.sel = f, w.spins = view.spins \cup {"list"}
  PROVE  Bounds' /\ CatalogOK(w, calls', overtaken', kind, sels, mores, y)
<1> DEFINE S == Replies({"list"}, sels)
<1>1. calls \in Seq(S) /\ Replies({"list"}, {f}) \subseteq S
  BY DEF CatalogOK, Replies
<1> HIDE DEF S
<1>2. Bounds' /\ Sends(S, "list", f)
  BY <1>1, Sent
<1>3. calls' \in Seq(S) /\ Newest(calls', "list", f) /\ Asked(calls', "list")
      /\ \A r : Asked(calls, r) => Asked(calls', r)
  BY <1>2 DEF Sends
<1>4. Spun(w, calls')
  BY <1>3 DEF CatalogOK, Spun
<1>5. ListIs(w, calls', overtaken', y)
  BY <1>3 DEF ListIs
<1> QED
  BY <1>2, <1>3, <1>4, <1>5 DEF CatalogOK, S

LEMMA CatalogListed ==
  ASSUME Bounds, NEW kind, NEW sels, NEW mores, NEW x,
         CatalogOK(view, calls, overtaken, kind, sels, mores, x),
         NEW i, Listed(i)
  PROVE  /\ Bounds' /\ CatalogOK(view', calls', overtaken', kind, sels, mores, x)
         /\ view'.more = view.more
<1> DEFINE S == Replies({"list"}, sels)
<1>1. /\ view \in InCatalog(kind, sels, mores) /\ calls \in Seq(S) /\ Spun(view, calls)
      /\ ListIs(view, calls, overtaken, x)
  BY DEF CatalogOK
<1>2. view.got \in Lists(sels) /\ view.spins \subseteq {"list"}
  BY <1>1 DEF InCatalog, Shape
<1>3. PICK w : w = view'
  OBVIOUS
<1>4. PICK c : c = calls[i]
  OBVIOUS
<1> HIDE DEF S
<1>5. Bounds' /\ Comes(S, "list", i)
  BY <1>1, Came DEF Listed
<1>6. /\ calls' \in Seq(S) /\ c \in S /\ Asked(calls, "list") /\ (~overtaken' => ~overtaken)
      /\ ~overtaken' /\ Newest(calls, "list", view.sel) =>
            Newest(calls', "list", view.sel) \/ (~Asked(calls', "list") /\ c.arg = view.sel)
  BY <1>4, <1>5 DEF Comes
<1>7. c # None
  <2>1. c.of # ""
    BY <1>6 DEF S, Replies
  <2> QED
    BY <2>1, Something
<1>8. [view.got EXCEPT !["list"] = c] \in Lists(sels) /\ [view.got EXCEPT !["list"] = c]["list"] = c
  BY <1>2, <1>6 DEF Lists, S
<1>9. /\ w \in InCatalog(kind, sels, mores) /\ w.spins = {} /\ w.sel = view.sel /\ w.more = view.more
      /\ w.errors # {} \/ w.got["list"] = c
  <2>1. CASE w = Got(view, "list", c)
    <3>1. /\ w \in InCatalog(kind, sels, mores) /\ w.spins = view.spins \ {"list"}
          /\ w.sel = view.sel /\ w.more = view.more /\ w.got = [view.got EXCEPT !["list"] = c]
      BY <1>1, <1>8, <2>1 DEF InCatalog, Shape, Got
    <3> QED
      BY <1>2, <1>8, <3>1
  <2>2. CASE w = Failing(view, "list")
    <3>1. /\ w \in InCatalog(kind, sels, mores) /\ w.spins = view.spins \ {"list"}
          /\ w.sel = view.sel /\ w.more = view.more /\ w.errors = view.errors \cup {"list"}
      BY <1>1, <2>2 DEF InCatalog, Shape, Failing
    <3> QED
      BY <1>2, <3>1
  <2> QED
    BY <1>3, <1>4, <2>1, <2>2 DEF Listed
<1>10. Spun(w, calls')
  BY <1>9 DEF Spun
<1>11. ListIs(w, calls', overtaken', x)
  BY <1>1, <1>6, <1>7, <1>9 DEF ListIs
<1> QED
  BY <1>3, <1>5, <1>6, <1>9, <1>10, <1>11 DEF CatalogOK, S

LEMMA TemplatesSteps ==
  ASSUME Bounds, TemplatesOK(view, calls, overtaken),
         \/ \E c \in Items \cup {Nothing} : SelectCategory(c)
         \/ RetryTemplates
         \/ \E i \in DOMAIN calls : Listed(i)
  PROVE  Bounds' /\ TemplatesOK(view', calls', overtaken')
<1> DEFINE More == [on : {TRUE}]
<1>1. CatalogOK(view, calls, overtaken, "TemplateCatalog", Selections, More, FALSE)
  BY TemplatesIs
<1>2. view \in InCatalog("TemplateCatalog", Selections, More)
  BY <1>1 DEF CatalogOK
<1> HIDE DEF More
<1>3. view.sel \in Selections
  BY <1>2 DEF InCatalog, Shape
<1>4. PICK w : w = view'
  OBVIOUS
<1>5. ASSUME NEW f \in Selections, Requests("list", f), w = [Spinning(view, "list") EXCEPT !.sel = f]
      PROVE  Bounds' /\ TemplatesOK(view', calls', overtaken')
  <2>1. /\ w \in InCatalog("TemplateCatalog", Selections, More) /\ w.sel = f
        /\ w.spins = view.spins \cup {"list"}
    BY <1>2, <1>5 DEF InCatalog, Shape, Spinning
  <2>2. Bounds' /\ CatalogOK(w, calls', overtaken', "TemplateCatalog", Selections, More, FALSE)
    BY <1>1, <1>5, <2>1, CatalogAsks
  <2> QED
    BY <1>4, <2>2, TemplatesIs DEF More
<1>6. CASE \E c \in Items \cup {Nothing} : SelectCategory(c)
  BY <1>4, <1>5, <1>6 DEF SelectCategory, Selections
<1>7. CASE RetryTemplates
  <2>1. Requests("list", view.sel) /\ w = Spinning(view, "list")
    BY <1>4, <1>7 DEF RetryTemplates
  <2>2. w = [Spinning(view, "list") EXCEPT !.sel = view.sel]
    BY <1>2, <2>1 DEF InCatalog, Shape, Spinning
  <2> QED
    BY <1>3, <1>5, <2>1, <2>2
<1>8. CASE \E i \in DOMAIN calls : Listed(i)
  <2>1. PICK i : Listed(i)
    BY <1>8
  <2>2. Bounds' /\ CatalogOK(view', calls', overtaken', "TemplateCatalog", Selections, More, FALSE)
    BY <1>1, <2>1, CatalogListed
  <2> QED
    BY <2>2, TemplatesIs DEF More
<1> QED
  BY <1>6, <1>7, <1>8

LEMMA MarketplaceSteps ==
  ASSUME Bounds, MarketplaceOK(view, calls, overtaken),
         \/ \E c \in Items \cup {Nothing} : FilterCategory(c) \/ TypeQuery(c)
         \/ RetryMarketplace \/ QueryTimer \/ ClearFilters \/ OpenRecipe \/ CloseRecipe
         \/ \E i \in DOMAIN calls : Listed(i)
  PROVE  Bounds' /\ MarketplaceOK(view', calls', overtaken')
<1> DEFINE Pairs == Selections \X Selections
           In    == InCatalog("RecipeCatalog", Pairs, Filtered)
<1>1. CatalogOK(view, calls, overtaken, "RecipeCatalog", Pairs, Filtered, view.more.retried)
  BY MarketplaceIs
<1>2. view \in In /\ calls \in Seq(Replies({"list"}, Pairs)) /\ Spun(view, calls)
      /\ ListIs(view, calls, overtaken, view.more.retried)
  BY <1>1 DEF CatalogOK
<1>3. view.more \in Filtered /\ view.sel \in Pairs
  BY <1>2 DEF InCatalog, Shape
<1>4. PICK w : w = view'
  OBVIOUS
<1>0. Nothing \in Selections /\ \A c \in Items : c \in Selections
  BY DEF Selections
<1>5. ASSUME NEW f \in Pairs, NEW ts \in SUBSET Selections, Filters(f, ts)
      PROVE  Bounds' /\ MarketplaceOK(view', calls', overtaken')
  <2>1. PICK v : v = [view EXCEPT !.sel = f, !.more.typed = ts]
    OBVIOUS
  <2> HIDE DEF Pairs
  <2>2. /\ v \in In /\ v.sel = f /\ v.spins = view.spins /\ v.errors = view.errors
        /\ v.got = view.got /\ v.more.retried = view.more.retried /\ v.more \in Filtered
    BY <1>2, <2>1 DEF InCatalog, Shape, Filtered
  <2>3. CASE Requests("list", f) /\ w = [Spinning(v, "list") EXCEPT !.more.retried = FALSE]
    <3>1. w \in In /\ w.sel = f /\ w.spins = view.spins \cup {"list"} /\ ~w.more.retried
      BY <2>2, <2>3 DEF InCatalog, Shape, Spinning, Filtered
    <3> HIDE DEF In
    <3>2. Bounds' /\ CatalogOK(w, calls', overtaken', "RecipeCatalog", Pairs, Filtered, w.more.retried)
      BY <1>1, <2>3, <3>1, CatalogAsks DEF In
    <3> QED
      BY <1>4, <3>2, MarketplaceIs DEF Pairs
  <2>4. CASE ~FiltersEffect(view.sel, f) /\ w = v /\ Locally
    <3>1. f = view.sel
      BY <2>4 DEF FiltersEffect
    <3>2. Bounds' /\ calls' = calls /\ overtaken' = overtaken
      BY <2>4, Kept
    <3>3. Spun(w, calls) /\ ListIs(w, calls, overtaken, w.more.retried)
      BY <1>2, <2>2, <2>4, <3>1 DEF Spun, ListIs
    <3>4. CatalogOK(w, calls', overtaken', "RecipeCatalog", Pairs, Filtered, w.more.retried)
      BY <1>2, <2>2, <2>4, <3>2, <3>3 DEF CatalogOK
    <3> QED
      BY <1>4, <3>2, <3>4, MarketplaceIs DEF Pairs
  <2> QED
    BY <1>4, <1>5, <2>1, <2>3, <2>4 DEF Filters
<1>6. CASE QueryTimer
  <2>1. PICK t \in view.more.typed : Filters(<<view.sel[1], t>>, {})
    BY <1>6 DEF QueryTimer
  <2>2. <<view.sel[1], t>> \in Pairs
    BY <1>3 DEF Filtered
  <2> QED
    BY <1>5, <2>1, <2>2
<1>7. CASE \E c \in Items \cup {Nothing} : FilterCategory(c)
  <2>1. PICK c \in Selections : Filters(<<c, view.sel[2]>>, view.more.typed)
    BY <1>0, <1>7 DEF FilterCategory
  <2>2. <<c, view.sel[2]>> \in Pairs /\ view.more.typed \in SUBSET Selections
    BY <1>3 DEF Filtered
  <2> QED
    BY <1>5, <2>1, <2>2
<1>8. CASE ClearFilters
  <2>1. Filters(<<Nothing, Nothing>>, view.more.typed)
    BY <1>8 DEF ClearFilters
  <2>2. <<Nothing, Nothing>> \in Pairs /\ view.more.typed \in SUBSET Selections
    BY <1>0, <1>3 DEF Filtered
  <2> QED
    BY <1>5, <2>1, <2>2
<1>9. ASSUME Locally, w \in In, w.sel = view.sel, w.spins = view.spins, w.got = view.got,
             \/ w.errors = view.errors /\ w.more.retried = view.more.retried
             \/ w.more.retried = TRUE
      PROVE  Bounds' /\ MarketplaceOK(view', calls', overtaken')
  <2>1. Bounds' /\ calls' = calls /\ overtaken' = overtaken
    BY <1>9, Kept
  <2>2. Spun(w, calls) /\ ListIs(w, calls, overtaken, w.more.retried)
    BY <1>2, <1>9 DEF Spun, ListIs
  <2>3. CatalogOK(w, calls', overtaken', "RecipeCatalog", Pairs, Filtered, w.more.retried)
    BY <1>2, <1>9, <2>1, <2>2 DEF CatalogOK
  <2> QED
    BY <1>4, <2>1, <2>3, MarketplaceIs
<1>10. CASE \E c \in Items \cup {Nothing} : TypeQuery(c)
  <2>1. PICK c \in Selections : Locally /\ w = [view EXCEPT !.more.typed = {c}]
    BY <1>0, <1>4, <1>10 DEF TypeQuery
  <2> HIDE DEF Pairs
  <2>2. /\ w \in In /\ w.sel = view.sel /\ w.spins = view.spins /\ w.got = view.got
        /\ w.errors = view.errors /\ w.more.retried = view.more.retried
    BY <1>2, <2>1 DEF InCatalog, Shape, Filtered
  <2> QED
    BY <1>9, <2>1, <2>2
<1>11. CASE RetryMarketplace
  <2>1. Locally /\ w = [view EXCEPT !.errors = {}, !.more.retried = TRUE]
    BY <1>4, <1>11 DEF RetryMarketplace
  <2> HIDE DEF Pairs
  <2>2. /\ w \in In /\ w.sel = view.sel /\ w.spins = view.spins /\ w.got = view.got
        /\ w.more.retried = TRUE
    BY <1>2, <2>1 DEF InCatalog, Shape, Filtered
  <2> QED
    BY <1>9, <2>1, <2>2
<1>12. CASE OpenRecipe \/ CloseRecipe
  <2>1. PICK b \in BOOLEAN : Locally /\ w = [view EXCEPT !.more.opened = b]
    BY <1>4, <1>12 DEF OpenRecipe, CloseRecipe
  <2> HIDE DEF Pairs
  <2>2. /\ w \in In /\ w.sel = view.sel /\ w.spins = view.spins /\ w.got = view.got
        /\ w.errors = view.errors /\ w.more.retried = view.more.retried
    BY <1>2, <2>1 DEF InCatalog, Shape, Filtered
  <2> QED
    BY <1>9, <2>1, <2>2
<1>13. CASE \E i \in DOMAIN calls : Listed(i)
  <2>1. PICK i : Listed(i)
    BY <1>13
  <2> HIDE DEF Pairs
  <2>2. /\ Bounds' /\ view'.more = view.more
        /\ CatalogOK(view', calls', overtaken', "RecipeCatalog", Pairs, Filtered, view.more.retried)
    BY <1>1, <2>1, CatalogListed
  <2>3. CatalogOK(w, calls', overtaken', "RecipeCatalog", Pairs, Filtered, w.more.retried)
    BY <1>4, <2>2
  <2> QED
    BY <1>4, <2>2, <2>3, MarketplaceIs DEF Pairs
<1> QED
  BY <1>6, <1>7, <1>8, <1>10, <1>11, <1>12, <1>13

-----------------------------------------------------------------------------
(* FrameworkWizard *)

OfFramework == Replies({"generate"}, Selections)

Recipes == [{"generate"} -> OfFramework \cup {None, Fallback, Edited}]

InFramework == Shape("FrameworkWizard", Selections, {"generate"}, Recipes, [step : Nat, hasty : BOOLEAN])

(* What is generated, for one who is not hasty. *)
NotHasty(v, s) ==
    /\ Alone(s, {"generate"}) /\ AllAbout(s, "generate", v.sel)
    /\ Asked(s, "generate") => v.spins # {} /\ v.more.step < Questions
    /\ v.more.step <= Questions
    /\ v.more.step = Questions => \/ v.got["generate"].arg = v.sel
                                  \/ v.got["generate"] \in {Fallback, Edited}

LEMMA FrameworkIs ==
  ASSUME NEW v, NEW s
  PROVE  FrameworkOK(v, s) <=>
           /\ v \in InFramework /\ s \in Seq(OfFramework) /\ Spun(v, s)
           /\ v.more.step + Len(s) < Questions + MaxCalls
           /\ ~v.more.hasty => NotHasty(v, s)
BY DEF FrameworkOK, InFramework, OfFramework, Recipes, NotHasty

LEMMA FrameworkSteps ==
  ASSUME Bounds, FrameworkOK(view, calls),
         \/ \E t \in Items : AnswerQuestion(t)
         \/ NextQuestion \/ Generate \/ EditPreview \/ (PreviousQuestion /\ view.more.step # 0)
         \/ \E i \in DOMAIN calls : Generated(i)
  PROVE  Bounds' /\ FrameworkOK(view', calls')
<1>1. /\ view \in InFramework /\ calls \in Seq(OfFramework) /\ Spun(view, calls)
      /\ view.more.step + Len(calls) < Questions + MaxCalls
      /\ ~view.more.hasty => NotHasty(view, calls)
  BY FrameworkIs
<1>2. /\ view.got \in Recipes /\ view.more.step \in Nat /\ view.more.hasty \in BOOLEAN
      /\ view.sel \in Selections /\ view.spins \subseteq {"generate"}
  BY <1>1 DEF InFramework, Shape
<1>3. PICK w : w = view'
  OBVIOUS
<1>4. Len(calls) \in Nat /\ Len(calls) <= MaxCalls /\ Questions \in Nat /\ Questions >= 1 /\ MaxCalls \in Nat
  BY <1>1, LenProperties, QuestionsAssumption, ViewsAssumption DEF Bounds
<1>5. ASSUME Locally, w \in InFramework, w.spins = view.spins,
             w.more.step <= view.more.step \/ w.more.step < Questions,
             ~w.more.hasty => ~view.more.hasty /\ NotHasty(w, calls)
      PROVE  Bounds' /\ FrameworkOK(view', calls')
  <2>1. Bounds' /\ calls' = calls
    BY <1>5, Kept
  <2>2. w.more.step \in Nat
    BY <1>5 DEF InFramework, Shape
  <2>3. w.more.step + Len(calls) < Questions + MaxCalls
    BY <1>1, <1>2, <1>4, <1>5, <2>2
  <2>4. Spun(w, calls)
    BY <1>1, <1>5 DEF Spun
  <2> QED
    BY <1>1, <1>3, <1>5, <2>1, <2>3, <2>4, FrameworkIs
<1>6. CASE \E t \in Items : AnswerQuestion(t)
  <2>1. PICK t \in Selections :
            /\ Locally /\ view.more.step < Questions
            /\ w = [view EXCEPT !.sel = t, !.more.hasty = @ \/ "generate" \in view.spins]
    BY <1>3, <1>6 DEF AnswerQuestion, QuestionIsShown, Generating, Selections
  <2>2. /\ w \in InFramework /\ w.sel = t /\ w.spins = view.spins /\ w.got = view.got
        /\ w.more.step = view.more.step
        /\ ~w.more.hasty => ~view.more.hasty /\ "generate" \notin view.spins
    BY <1>1, <2>1 DEF InFramework, Shape
  <2>3. ASSUME ~w.more.hasty
        PROVE  NotHasty(w, calls)
    <3>1. NotHasty(view, calls) /\ view.spins = {}
      BY <1>1, <1>2, <2>2, <2>3
    <3>2. ~Asked(calls, "generate") /\ Alone(calls, {"generate"})
      BY <3>1 DEF NotHasty
    <3>3. AllAbout(calls, "generate", t)
      BY <3>2 DEF AllAbout, Asked
    <3>4. view.more.step <= Questions /\ view.more.step # Questions
      BY <1>2, <1>4, <2>1
    <3> QED
      BY <2>2, <3>2, <3>3, <3>4 DEF NotHasty
  <2>4. w.more.step < Questions
    BY <2>1, <2>2
  <2> QED
    BY <1>5, <2>1, <2>2, <2>3, <2>4
<1>7. ASSUME NEW n \in Nat, Locally, w = [view EXCEPT !.more.step = n], n < Questions
      PROVE  Bounds' /\ FrameworkOK(view', calls')
  <2>1. /\ w \in InFramework /\ w.sel = view.sel /\ w.spins = view.spins /\ w.got = view.got
        /\ w.more.step = n /\ w.more.hasty = view.more.hasty
    BY <1>1, <1>7 DEF InFramework, Shape
  <2>2. n <= Questions /\ n # Questions
    BY <1>4, <1>7
  <2>3. ~view.more.hasty => NotHasty(w, calls)
    BY <1>1, <1>7, <2>1, <2>2 DEF NotHasty
  <2> QED
    BY <1>5, <1>7, <2>1, <2>3
<1>8. CASE NextQuestion
  <2>1. /\ Locally /\ w = [view EXCEPT !.more.step = view.more.step + 1]
        /\ view.more.step < Questions - 1
    BY <1>1, <1>3, <1>8 DEF NextQuestion, InFramework, Shape
  <2>2. view.more.step + 1 \in Nat /\ view.more.step + 1 < Questions
    BY <1>2, <1>4, <2>1
  <2> QED
    BY <1>7, <2>1, <2>2
<1>9. CASE PreviousQuestion /\ view.more.step # 0
  <2>1. /\ Locally /\ w = [view EXCEPT !.more.step = view.more.step - 1]
    BY <1>1, <1>3, <1>9 DEF PreviousQuestion, InFramework, Shape
  <2>2. view.more.step - 1 \in Nat /\ view.more.step - 1 <= view.more.step
    BY <1>2, <1>9
  <2>3. /\ w \in InFramework /\ w.sel = view.sel /\ w.spins = view.spins /\ w.got = view.got
        /\ w.more.step = view.more.step - 1 /\ w.more.hasty = view.more.hasty
    BY <1>1, <2>1, <2>2 DEF InFramework, Shape
  <2>4. ASSUME ~view.more.hasty
        PROVE  NotHasty(w, calls)
    <3>1. NotHasty(view, calls)
      BY <1>1, <2>4
    <3>2. view.more.step <= Questions
      BY <3>1 DEF NotHasty
    <3>3. w.more.step < Questions /\ w.more.step <= Questions /\ w.more.step # Questions
      BY <1>2, <1>4, <2>3, <3>2
    <3> QED
      BY <2>3, <3>1, <3>3 DEF NotHasty
  <2> QED
    BY <1>5, <2>1, <2>2, <2>3, <2>4
<1>10. CASE EditPreview
  <2>1. /\ Locally /\ view.more.step = Questions /\ "generate" \notin view.spins
        /\ w = [view EXCEPT !.got["generate"] = Edited]
    BY <1>3, <1>10 DEF EditPreview, PreviewIsShown, Generating
  <2>2. [view.got EXCEPT !["generate"] = Edited] \in Recipes
        /\ [view.got EXCEPT !["generate"] = Edited]["generate"] = Edited
    BY <1>2 DEF Recipes
  <2>3. /\ w \in InFramework /\ w.sel = view.sel /\ w.spins = view.spins /\ w.more = view.more
        /\ w.got = [view.got EXCEPT !["generate"] = Edited]
    BY <1>1, <2>1, <2>2 DEF InFramework, Shape
  <2>4. ~view.more.hasty => NotHasty(w, calls)
    BY <1>1, <2>2, <2>3 DEF NotHasty
  <2>5. w.more.step <= view.more.step
    BY <1>2, <2>3
  <2> QED
    BY <1>5, <2>1, <2>3, <2>4, <2>5
<1>11. CASE Generate
  <2>1. /\ Requests("generate", view.sel) /\ view.more.step = Questions - 1
        /\ w = [Spinning(view, "generate") EXCEPT !.more.hasty = @ \/ "generate" \in view.spins]
    BY <1>3, <1>11 DEF Generate, Generating
  <2>2. Replies({"generate"}, {view.sel}) \subseteq OfFramework
    BY <1>2 DEF Replies, OfFramework
  <2>3. Bounds' /\ Sends(OfFramework, "generate", view.sel)
    BY <1>1, <2>1, <2>2, Sent
  <2>4. /\ calls' \in Seq(OfFramework) /\ Asked(calls', "generate") /\ Len(calls') = Len(calls) + 1
        /\ Len(calls) < MaxCalls
        /\ AllAbout(calls, "generate", view.sel) => AllAbout(calls', "generate", view.sel)
        /\ Alone(calls, {"generate"}) /\ ~Asked(calls, "generate") => Alone(calls', {"generate"})
    BY <2>3 DEF Sends
  <2>5. PICK u : u = Spinning(view, "generate")
    OBVIOUS
  <2>6. /\ u \in InFramework /\ u.spins = {"generate"} /\ u.sel = view.sel /\ u.got = view.got
        /\ u.more = view.more
    BY <1>1, <1>2, <2>5 DEF InFramework, Shape, Spinning
  <2>7. w = [u EXCEPT !.more.hasty = @ \/ "generate" \in view.spins]
    BY <2>1, <2>5
  <2>8. /\ w \in InFramework /\ w.spins = {"generate"} /\ w.sel = view.sel /\ w.got = view.got
        /\ w.more.step = view.more.step
        /\ ~w.more.hasty => ~view.more.hasty /\ "generate" \notin view.spins
    BY <2>6, <2>7 DEF InFramework, Shape
  <2>9. w.more.step + Len(calls') < Questions + MaxCalls
    BY <1>2, <1>4, <2>1, <2>4, <2>8
  <2>10. w.more.step < Questions /\ w.more.step <= Questions /\ w.more.step # Questions
    BY <1>2, <1>4, <2>1, <2>8
  <2>11. ASSUME ~w.more.hasty
         PROVE  NotHasty(w, calls')
    <3>1. NotHasty(view, calls) /\ view.spins = {}
      BY <1>1, <1>2, <2>8, <2>11
    <3>2. ~Asked(calls, "generate") /\ Alone(calls, {"generate"}) /\ AllAbout(calls, "generate", view.sel)
      BY <3>1 DEF NotHasty
    <3> QED
      BY <2>4, <2>8, <2>10, <3>2 DEF NotHasty
  <2>12. Spun(w, calls')
    BY <2>4, <2>8 DEF Spun
  <2> QED
    BY <1>3, <2>3, <2>4, <2>8, <2>9, <2>11, <2>12, FrameworkIs
<1>12. CASE \E i \in DOMAIN calls : Generated(i)
  <2>1. PICK i \in DOMAIN calls : Generated(i)
    BY <1>12
  <2>2. PICK c : c = calls[i]
    OBVIOUS
  <2>3. Bounds' /\ Comes(OfFramework, "generate", i)
    BY <1>1, <2>1, Came DEF Generated
  <2>4. /\ calls' \in Seq(OfFramework) /\ c \in OfFramework /\ Asked(calls, "generate")
        /\ Len(calls') = Len(calls) - 1
        /\ AllAbout(calls, "generate", view.sel) => c.arg = view.sel
        /\ Alone(calls, {"generate"}) => Alone(calls', {"generate"}) /\ ~Asked(calls', "generate")
    BY <2>2, <2>3 DEF Comes
  <2>5. PICK d \in {c, Fallback} : w = [Got(view, "generate", d) EXCEPT !.more.step = @ + 1]
    BY <1>3, <2>1, <2>2 DEF Generated
  <2>6. [view.got EXCEPT !["generate"] = d] \in Recipes
        /\ [view.got EXCEPT !["generate"] = d]["generate"] = d
    BY <1>2, <2>4, <2>5 DEF Recipes
  <2>7. PICK u : u = Got(view, "generate", d)
    OBVIOUS
  <2>8. /\ u \in InFramework /\ u.spins = view.spins \ {"generate"} /\ u.sel = view.sel /\ u.more = view.more
        /\ u.got = [view.got EXCEPT !["generate"] = d]
    BY <1>1, <2>6, <2>7 DEF InFramework, Shape, Got
  <2>9. w = [u EXCEPT !.more.step = @ + 1]
    BY <2>5, <2>7
  <2>10. /\ w \in InFramework /\ w.spins = u.spins /\ w.sel = view.sel /\ w.got = u.got
         /\ w.more.step = view.more.step + 1 /\ w.more.hasty = view.more.hasty
    BY <2>8, <2>9 DEF InFramework, Shape
  <2>11. w.spins = {} /\ w.got["generate"] = d
    BY <1>2, <2>6, <2>8, <2>10
  <2>12. w.more.step + Len(calls') < Questions + MaxCalls
    BY <1>1, <1>2, <1>4, <2>4, <2>10
  <2>13. ASSUME ~view.more.hasty
         PROVE  NotHasty(w, calls')
    <3>1. NotHasty(view, calls)
      BY <1>1, <2>13
    <3>2. ~Asked(calls', "generate") /\ Alone(calls', {"generate"}) /\ c.arg = view.sel
          /\ view.more.step < Questions
      BY <2>4, <3>1 DEF NotHasty
    <3>3. AllAbout(calls', "generate", view.sel)
      BY <3>2 DEF AllAbout, Asked
    <3>4. w.more.step <= Questions
      BY <1>2, <1>4, <2>10, <3>2
    <3>5. d = Fallback \/ d.arg = view.sel
      BY <2>5, <3>2
    <3> QED
      BY <2>10, <2>11, <3>2, <3>3, <3>4, <3>5 DEF NotHasty
  <2>14. Spun(w, calls')
    BY <2>11 DEF Spun
  <2> QED
    BY <1>3, <2>3, <2>4, <2>10, <2>12, <2>13, <2>14, FrameworkIs
<1> QED
  BY <1>6, <1>8, <1>9, <1>10, <1>11, <1>12

-----------------------------------------------------------------------------
(* RecipeBuilderPage *)

OfBuilder == Replies({"recipe"}, {Nothing}) \cup Replies({"save"}, Canvases)

Drawn == [canvas : Canvases, sent : Canvases, stored : Canvases]

InBuilder == Shape("RecipeBuilderPage", Selections, {"recipe", "save"}, [{"recipe"} -> {None}], Drawn)

(* What is being saved, and what was. *)
SaveIs(v, s) ==
    /\ Asked(s, "save") => "save" \in v.spins
    /\ Alone(s, {"save"}) /\ AllAbout(s, "save", v.more.sent)
    /\ \/ Asked(s, "save") \/ "save" \in v.errors
       \/ v.more.sent = Empty \/ v.more.stored = v.more.sent

LEMMA BuilderIs ==
  ASSUME NEW v, NEW s
  PROVE  BuilderOK(v, s) <=>
           v \in InBuilder /\ s \in Seq(OfBuilder) /\ Spun(v, s) /\ SaveIs(v, s)
BY DEF BuilderOK, InBuilder, OfBuilder, Drawn, SaveIs

(* A canvas is edited. *)
LEMMA BuilderDraws ==
  ASSUME Bounds, BuilderOK(view, calls), Locally, NEW b \in Selections, NEW c \in Canvases,
         view' = [view EXCEPT !.sel = b, !.more.canvas = c]
  PROVE  Bounds' /\ BuilderOK(view', calls')
<1>1. view \in InBuilder /\ calls \in Seq(OfBuilder) /\ Spun(view, calls) /\ SaveIs(view, calls)
  BY BuilderIs
<1>2. PICK w : w = view'
  OBVIOUS
<1>3. /\ w \in InBuilder /\ w.spins = view.spins /\ w.errors = view.errors
      /\ w.more.sent = view.more.sent /\ w.more.stored = view.more.stored
  BY <1>1, <1>2 DEF InBuilder, Shape, Drawn
<1>4. Bounds' /\ calls' = calls
  BY Kept
<1>5. Spun(w, calls) /\ SaveIs(w, calls)
  BY <1>1, <1>3 DEF Spun, SaveIs
<1> QED
  BY <1>1, <1>2, <1>3, <1>4, <1>5, BuilderIs

(* The recipe is loaded, and drawn. *)
RecipeDrawn(i) ==
    /\ Answered("recipe", i)
    /\ view' = [view EXCEPT !.spins = @ \ {"recipe"}, !.more.canvas = view.more.stored]

LEMMA BuilderSteps ==
  ASSUME Bounds, BuilderOK(view, calls),
         \/ \E b \in Items : DropBlock(b) \/ Connect(b)
         \/ \E b \in Items \cup {Nothing} : SelectBlock(b)
         \/ RemoveBlock \/ Save
         \/ \E i \in DOMAIN calls : RecipeDrawn(i) \/ Saved(i)
  PROVE  Bounds' /\ BuilderOK(view', calls')
<1>1. view \in InBuilder /\ calls \in Seq(OfBuilder) /\ Spun(view, calls) /\ SaveIs(view, calls)
  BY BuilderIs
<1>2. /\ view.more \in Drawn /\ view.sel \in Selections /\ view.spins \subseteq {"recipe", "save"}
      /\ Nothing \in Selections /\ \A b \in Items : b \in Selections
  BY <1>1 DEF InBuilder, Shape, Selections
<1>3. PICK w : w = view'
  OBVIOUS
<1>4. PICK c : c = view.more.canvas
  OBVIOUS
<1>5. /\ c \in Canvases /\ c = [blocks |-> c.blocks, links |-> c.links]
      /\ c.blocks \in SUBSET Items /\ c.links \in SUBSET (Items \X Items)
      /\ c.links \subseteq c.blocks \X c.blocks
  BY <1>2, <1>4 DEF Drawn, Canvases
<1>6. \A bs \in SUBSET Items, ls \in SUBSET (Items \X Items) :
         ls \subseteq bs \X bs => [blocks |-> bs, links |-> ls] \in Canvases
  BY DEF Canvases
<1>7. CASE \E b \in Items : DropBlock(b)
  <2>1. PICK b \in Items : Locally /\ view' = [view EXCEPT !.sel = b, !.more.canvas.blocks = @ \cup {b}]
    BY <1>7 DEF DropBlock
  <2>2. PICK d : d = [blocks |-> c.blocks \cup {b}, links |-> c.links]
    OBVIOUS
  <2>3. d \in Canvases
    BY <1>5, <1>6, <2>2
  <2>4. d = [c EXCEPT !.blocks = @ \cup {b}]
    BY <1>5, <2>2
  <2>5. view' = [view EXCEPT !.sel = b, !.more.canvas = d]
    BY <1>1, <1>2, <1>4, <2>1, <2>4 DEF InBuilder, Shape, Drawn
  <2> QED
    BY <1>2, <2>1, <2>3, <2>5, BuilderDraws
<1>8. CASE \E b \in Items : Connect(b)
  <2>1. PICK b \in Items :
            /\ Locally /\ view.sel \in c.blocks /\ b \in c.blocks
            /\ view' = [view EXCEPT !.more.canvas.links = @ \cup {<<view.sel, b>>}]
    BY <1>4, <1>8 DEF Connect, PanelIsShown
  <2>2. PICK d : d = [blocks |-> c.blocks, links |-> c.links \cup {<<view.sel, b>>}]
    OBVIOUS
  <2>3. d \in Canvases
    BY <1>5, <1>6, <2>1, <2>2
  <2>4. d = [c EXCEPT !.links = @ \cup {<<view.sel, b>>}]
    BY <1>5, <2>2
  <2>5. view' = [view EXCEPT !.sel = view.sel, !.more.canvas = d]
    BY <1>1, <1>2, <1>4, <2>1, <2>4 DEF InBuilder, Shape, Drawn
  <2> QED
    BY <1>2, <2>1, <2>3, <2>5, BuilderDraws
<1>9. CASE RemoveBlock
  <2>1. PICK d : d = [blocks |-> c.blocks \ {view.sel},
                      links  |-> {l \in c.links : view.sel \notin {l[1], l[2]}}]
    OBVIOUS
  <2>2. Locally /\ view' = [view EXCEPT !.sel = Nothing, !.more.canvas = d]
    BY <1>1, <1>4, <1>9, <2>1 DEF RemoveBlock, InBuilder, Shape, Drawn
  <2>3. d \in Canvases
    BY <1>5, <1>6, <2>1
  <2> QED
    BY <1>2, <2>2, <2>3, BuilderDraws
<1>10. CASE \E b \in Items \cup {Nothing} : SelectBlock(b)
  <2>1. PICK b \in Selections : Locally /\ view' = [view EXCEPT !.sel = b]
    BY <1>10 DEF SelectBlock, Selections
  <2>2. view' = [view EXCEPT !.sel = b, !.more.canvas = c]
    BY <1>1, <1>4, <2>1 DEF InBuilder, Shape, Drawn
  <2> QED
    BY <1>5, <2>1, <2>2, BuilderDraws
<1>11. CASE Save
  <2>1. /\ Requests("save", c) /\ "save" \notin view.spins
        /\ w = [Spinning(view, "save") EXCEPT !.more.sent = c]
    BY <1>3, <1>4, <1>11 DEF Save
  <2>2. Replies({"save"}, {c}) \subseteq OfBuilder
    BY <1>5 DEF Replies, OfBuilder
  <2>3. Bounds' /\ Sends(OfBuilder, "save", c)
    BY <1>1, <2>1, <2>2, Sent
  <2>4. ~Asked(calls, "save") /\ Alone(calls, {"save"})
    BY <1>1, <2>1 DEF SaveIs
  <2>5. AllAbout(calls, "save", c)
    BY <2>4 DEF AllAbout, Asked
  <2>6. /\ calls' \in Seq(OfBuilder) /\ Asked(calls', "save")
        /\ \A r : Asked(calls, r) => Asked(calls', r)
        /\ AllAbout(calls', "save", c) /\ Alone(calls', {"save"})
    BY <2>3, <2>4, <2>5 DEF Sends
  <2>7. PICK u : u = Spinning(view, "save")
    OBVIOUS
  <2>8. u \in InBuilder /\ u.spins = view.spins \cup {"save"} /\ u.more = view.more
    BY <1>1, <2>7 DEF InBuilder, Shape, Spinning
  <2>9. w = [u EXCEPT !.more.sent = c]
    BY <2>1, <2>7
  <2>10. w \in InBuilder /\ w.spins = u.spins /\ w.more.sent = c
    BY <1>5, <2>8, <2>9 DEF InBuilder, Shape, Drawn
  <2>11. Spun(w, calls') /\ SaveIs(w, calls')
    BY <1>1, <2>6, <2>8, <2>10 DEF Spun, SaveIs
  <2> QED
    BY <1>3, <2>3, <2>6, <2>10, <2>11, BuilderIs
<1>12. CASE \E i \in DOMAIN calls : Saved(i)
  <2>1. PICK i \in DOMAIN calls : Saved(i)
    BY <1>12
  <2>2. PICK a : a = calls[i].arg
    OBVIOUS
  <2>3. Bounds' /\ Comes(OfBuilder, "save", i)
    BY <1>1, <2>1, Came DEF Saved
  <2>4. /\ calls' \in Seq(OfBuilder) /\ calls[i] \in OfBuilder /\ calls[i].of = "save"
        /\ Asked(calls, "save")
        /\ \A r : Asked(calls, r) /\ r # "save" => Asked(calls', r)
        /\ Alone(calls, {"save"}) => Alone(calls', {"save"}) /\ ~Asked(calls', "save")
        /\ AllAbout(calls, "save", view.more.sent) => a = view.more.sent
    BY <2>2, <2>3 DEF Comes
  <2>5. a \in Canvases
    BY <2>2, <2>4 DEF OfBuilder, Replies
  <2>6. /\ w \in InBuilder /\ w.spins = view.spins \ {"save"} /\ w.more.sent = view.more.sent
        /\ "save" \in w.errors \/ w.more.stored = a
    <3>1. CASE w = [view EXCEPT !.spins = @ \ {"save"}, !.more.stored = a]
      BY <1>1, <2>5, <3>1 DEF InBuilder, Shape, Drawn
    <3>2. CASE \E d \in {view.more.stored, a} : w = [Failing(view, "save") EXCEPT !.more.stored = d]
      <4>1. PICK d \in Canvases : w = [Failing(view, "save") EXCEPT !.more.stored = d]
        BY <1>2, <2>5, <3>2 DEF Drawn
      <4> QED
        BY <1>1, <4>1 DEF InBuilder, Shape, Drawn, Failing
    <3> QED
      BY <1>3, <2>1, <2>2, <3>1, <3>2 DEF Saved
  <2>7. Spun(w, calls')
    BY <1>1, <2>4, <2>6 DEF Spun
  <2>8. AllAbout(calls', "save", view.more.sent)
    BY <1>1, <2>4 DEF SaveIs, AllAbout, Asked
  <2>9. SaveIs(w, calls')
    BY <1>1, <2>4, <2>6, <2>8 DEF SaveIs
  <2> QED
    BY <1>3, <2>3, <2>4, <2>6, <2>7, <2>9, BuilderIs
<1>13. CASE \E i \in DOMAIN calls : RecipeDrawn(i)
  <2>1. PICK i \in DOMAIN calls : RecipeDrawn(i)
    BY <1>13
  <2>2. Answered("recipe", i) /\ w = [view EXCEPT !.spins = @ \ {"recipe"}, !.more.canvas = view.more.stored]
    BY <1>3, <2>1 DEF RecipeDrawn
  <2>3. Bounds' /\ Comes(OfBuilder, "recipe", i)
    BY <1>1, <2>2, Came
  <2>4. /\ calls' \in Seq(OfBuilder)
        /\ \A r : Asked(calls, r) /\ r # "recipe" => Asked(calls', r)
        /\ Asked(calls', "save") => Asked(calls, "save")
        /\ Alone(calls, {"save"}) => Alone(calls', {"save"})
        /\ AllAbout(calls, "save", view.more.sent) => AllAbout(calls', "save", view.more.sent)
    BY <2>3 DEF Comes
  <2>5. /\ w \in InBuilder /\ w.spins = view.spins \ {"recipe"} /\ w.errors = view.errors
        /\ w.more.sent = view.more.sent /\ w.more.stored = view.more.stored
    BY <1>1, <2>2 DEF InBuilder, Shape, Drawn
  <2>6. Spun(w, calls') /\ SaveIs(w, calls')
    BY <1>1, <2>4, <2>5 DEF Spun, SaveIs
  <2> QED
    BY <1>3, <2>3, <2>4, <2>5, <2>6, BuilderIs
<1> QED
  BY <1>7, <1>8, <1>9, <1>10, <1>11, <1>12, <1>13

-----------------------------------------------------------------------------
(* DeployWizard *)

OfWizard == Replies({"preview"}, Items) \cup Replies({"import"}, Selections)
              \cup Replies({"advanced"}, {Nothing})

Ordering == [status : {"idle", "reviewing", "cooking", "served", "burned"},
             preview : Selections, order : Nat, told : Nat,
             fates : Seq(Fates), doubled : BOOLEAN]

InWizard == Shape("DeployWizard", Selections, {}, [{} -> {None}], Ordering)

Afforded(v, s) ==
    /\ v.more.order <= Len(v.more.fates)
    /\ Len(v.more.fates) + Cardinality(Counted(s, "import")) <= MaxOrders
    /\ v.more.status = "reviewing" => v.more.preview # Nothing

(* What is under way of an order, when there is one at a time. *)
OneOrder(v, s) ==
    /\ Alone(s, {"preview", "import"}) /\ AllAbout(s, "preview", v.sel)
    /\ Asked(s, "import") => v.more.status = "cooking" /\ v.more.order = 0
    /\ Asked(s, "preview") => v.more.status \in {"idle", "burned"} /\ v.more.order = 0
    /\ v.more.status \in {"idle", "reviewing"} => v.more.order = 0
    /\ v.more.status = "reviewing" => v.more.preview = v.sel
    /\ v.more.status = "cooking" => v.more.order # 0 \/ Asked(s, "import")
    /\ v.more.status = "served" =>
          v.more.order # 0 /\ v.more.fates[v.more.order] = "succeeded"

LEMMA WizardIs ==
  ASSUME NEW v, NEW s
  PROVE  WizardOK(v, s) <=>
           /\ v \in InWizard /\ s \in Seq(OfWizard) /\ Afforded(v, s)
           /\ ~v.more.doubled => OneOrder(v, s)
BY DEF WizardOK, InWizard, OfWizard, Ordering, Afforded, OneOrder

(* Nothing is asked for. *)
LEMMA WizardKeeps ==
  ASSUME Bounds, WizardOK(view, calls), Locally, view' \in InWizard, Afforded(view', calls),
         ~view'.more.doubled => OneOrder(view', calls)
  PROVE  Bounds' /\ WizardOK(view', calls')
<1>1. Bounds' /\ calls' = calls /\ calls \in Seq(OfWizard)
  BY Kept, WizardIs
<1>2. PICK w : w = view'
  OBVIOUS
<1>3. WizardOK(w, calls)
  BY <1>1, <1>2, WizardIs
<1> QED
  BY <1>1, <1>2, <1>3

LEMMA WizardTurns ==
  ASSUME Bounds, WizardOK(view, calls), BackToWizard \/ EditOrder \/ ResetWizard
  PROVE  Bounds' /\ WizardOK(view', calls')
<1>1. /\ view \in InWizard /\ Afforded(view, calls) /\ (~view.more.doubled => OneOrder(view, calls))
  BY WizardIs
<1>2. PICK w : w = view'
  OBVIOUS
<1>3. Nothing \in Selections
  BY DEF Selections
<1>4. view.more \in Ordering
  BY <1>1 DEF InWizard, Shape
<1>5. CASE BackToWizard
  <2>1. /\ view.more.status = "reviewing" /\ Locally
        /\ w = [view EXCEPT !.more.preview = Nothing, !.more.status = "idle"]
    BY <1>2, <1>5 DEF BackToWizard, ReviewIsShown
  <2>2. /\ w \in InWizard /\ w.more.status = "idle" /\ w.more.order = view.more.order
        /\ w.more.fates = view.more.fates /\ w.more.doubled = view.more.doubled /\ w.sel = view.sel
    BY <1>1, <1>3, <2>1 DEF InWizard, Shape, Ordering
  <2>3. Afforded(w, calls)
    BY <1>1, <2>2 DEF Afforded
  <2>4. ~view.more.doubled => OneOrder(w, calls)
    BY <1>1, <2>1, <2>2 DEF OneOrder
  <2> QED
    BY <1>2, <2>1, <2>2, <2>3, <2>4, WizardKeeps
<1>6. CASE EditOrder \/ ResetWizard
  <2>1. PICK x \in {view.sel, Nothing}, p \in {view.more.preview, Nothing} :
            /\ view.more.order # 0 /\ Locally
            /\ w = [view EXCEPT !.sel = x, !.more.order = 0, !.more.told = 0, !.more.status = "idle",
                                !.more.preview = p]
    <3>1. view.more.order # 0 /\ Locally
      BY <1>6 DEF EditOrder, ResetWizard, ProgressIsShown
    <3>2. CASE EditOrder
      <4>1. w = [view EXCEPT !.more.order = 0, !.more.told = 0, !.more.status = "idle"]
        BY <1>2, <3>2 DEF EditOrder
      <4>2. w = [view EXCEPT !.sel = view.sel, !.more.order = 0, !.more.told = 0, !.more.status = "idle",
                             !.more.preview = view.more.preview]
        BY <1>1, <4>1 DEF InWizard, Shape, Ordering
      <4> QED
        BY <3>1, <4>2
    <3>3. CASE ResetWizard
      <4>1. w = [view EXCEPT !.sel = Nothing, !.more.order = 0, !.more.told = 0,
                             !.more.status = "idle", !.more.preview = Nothing]
        BY <1>2, <3>3 DEF ResetWizard
      <4> QED
        BY <3>1, <4>1
    <3> QED
      BY <1>6, <3>2, <3>3
  <2>2. x \in Selections /\ p \in Selections
    BY <1>1, <1>3, <1>4, <2>1 DEF InWizard, Shape, Ordering
  <2>3. /\ w \in InWizard /\ w.more.status = "idle" /\ w.more.order = 0
        /\ w.more.fates = view.more.fates /\ w.more.doubled = view.more.doubled
    BY <1>1, <2>1, <2>2 DEF InWizard, Shape, Ordering
  <2>4. Len(view.more.fates) \in Nat
    BY <1>4, LenProperties DEF Ordering
  <2>5. 0 <= Len(view.more.fates)
    BY <2>4
  <2>6. Afforded(w, calls)
    BY <1>1, <2>3, <2>5 DEF Afforded
  <2>7. ASSUME ~view.more.doubled PROVE OneOrder(w, calls)
    <3>1. /\ ~Asked(calls, "import") /\ ~Asked(calls, "preview")
          /\ Alone(calls, {"preview", "import"})
      BY <1>1, <2>1, <2>7 DEF OneOrder
    <3>2. AllAbout(calls, "preview", w.sel)
      BY <3>1 DEF AllAbout, Asked
    <3> QED
      BY <2>3, <3>1, <3>2 DEF OneOrder
  <2> QED
    BY <1>2, <2>1, <2>3, <2>6, <2>7, WizardKeeps
<1> QED
  BY <1>5, <1>6

LEMMA WizardFollows ==
  ASSUME Bounds, WizardOK(view, calls), DeployDone \/ \E n \in 1..MaxOrders : DeploymentEnds(n)
  PROVE  Bounds' /\ WizardOK(view', calls')
<1>1. /\ view \in InWizard /\ Afforded(view, calls) /\ (~view.more.doubled => OneOrder(view, calls))
  BY WizardIs
<1>2. PICK w : w = view'
  OBVIOUS
<1>4. view.more \in Ordering
  BY <1>1 DEF InWizard, Shape
<1>5. CASE DeployDone
  <2>1. PICK st \in {"served", "burned"} :
            /\ view.more.order # 0 /\ Locally
            /\ w = [view EXCEPT !.more.told = view.more.order, !.more.status = st]
            /\ st = "served" => view.more.fates[view.more.order] = "succeeded"
    BY <1>2, <1>5 DEF DeployDone, ProgressIsShown
  <2>2. view.more.order \in Nat
    BY <1>4 DEF Ordering
  <2>3. /\ w \in InWizard /\ w.more.status = st /\ w.more.order = view.more.order /\ w.sel = view.sel
        /\ w.more.fates = view.more.fates /\ w.more.doubled = view.more.doubled
    BY <1>1, <2>1, <2>2 DEF InWizard, Shape, Ordering
  <2>4. Afforded(w, calls)
    BY <1>1, <2>1, <2>3 DEF Afforded
  <2>5. ~view.more.doubled => OneOrder(w, calls)
    BY <1>1, <2>1, <2>3 DEF OneOrder
  <2> QED
    BY <1>2, <2>1, <2>3, <2>4, <2>5, WizardKeeps
<1>6. CASE \E n \in 1..MaxOrders : DeploymentEnds(n)
  <2>0. PICK n \in 1..MaxOrders : DeploymentEnds(n)
    BY <1>6
  <2>1. PICK f \in {"succeeded", "failed"} :
            /\ n \in DOMAIN view.more.fates /\ view.more.fates[n] = "running" /\ Locally
            /\ w = [view EXCEPT !.more.fates[n] = f]
    BY <1>2, <2>0 DEF DeploymentEnds
  <2>2. view.more.fates \in Seq(Fates) /\ f \in Fates
    BY <1>4 DEF Ordering, Fates
  <2>3. PICK g : g = [view.more.fates EXCEPT ![n] = f]
    OBVIOUS
  <2>4. g \in Seq(Fates) /\ Len(g) = Len(view.more.fates)
    BY <2>1, <2>2, <2>3, ExceptSeq
  <2>5. \A k : view.more.fates[k] = "succeeded" /\ k \in DOMAIN view.more.fates => g[k] = "succeeded"
    BY <2>1, <2>3
  <2>6. w = [view EXCEPT !.more.fates = g]
    BY <2>1, <2>3
  <2>7. /\ w \in InWizard /\ w.more.status = view.more.status /\ w.more.order = view.more.order
        /\ w.sel = view.sel /\ w.more.preview = view.more.preview
        /\ w.more.fates = g /\ w.more.doubled = view.more.doubled
    BY <1>1, <2>4, <2>6 DEF InWizard, Shape, Ordering
  <2>8. Afforded(w, calls)
    BY <1>1, <2>4, <2>7 DEF Afforded
  <2>9. view.more.order # 0 => view.more.order \in DOMAIN view.more.fates
    <3>1. view.more.order \in Nat /\ view.more.order <= Len(view.more.fates)
      BY <1>1, <1>4 DEF Ordering, Afforded
    <3>2. DOMAIN view.more.fates = 1..Len(view.more.fates) /\ Len(view.more.fates) \in Nat
      BY <2>2, LenProperties
    <3> QED
      BY <3>1, <3>2
  <2>10. ~view.more.doubled => OneOrder(w, calls)
    BY <1>1, <2>5, <2>7, <2>9 DEF OneOrder
  <2> QED
    BY <1>2, <2>1, <2>7, <2>8, <2>10, WizardKeeps
<1> QED
  BY <1>5, <1>6

(* What is asked for, and how many orders that makes. *)
LEMMA WizardAsks ==
  ASSUME Bounds, WizardOK(view, calls), NEW q, NEW a, Replies({q}, {a}) \subseteq OfWizard,
         Requests(q, a), q = "import" => MayOrder,
         view' \in InWizard, view'.more.fates = view.more.fates,
         view'.more.order = view.more.order \/ view'.more.order = 0,
         view'.more.status = "reviewing" => view'.more.preview # Nothing,
         ~view'.more.doubled => OneOrder(view', calls')
  PROVE  Bounds' /\ WizardOK(view', calls')
<1>1. view \in InWizard /\ calls \in Seq(OfWizard) /\ Afforded(view, calls)
  BY WizardIs
<1>2. PICK w : w = view'
  OBVIOUS
<1>3. PICK t : t = calls'
  OBVIOUS
<1>4. Bounds' /\ Sends(OfWizard, q, a)
  BY <1>1, Sent
<1>5. calls' \in Seq(OfWizard)
  BY <1>4 DEF Sends
<1>6. PICK c : c = Request(q, a)
  OBVIOUS
<1>7. c \in OfWizard /\ c.of = q
  BY <1>6 DEF Request, Replies, Sights
<1>8. t = Append(calls, c)
  BY <1>3, <1>6 DEF Requests
<1>9. OneMore(calls, t, "import", c.of = "import")
  <2>1. calls \in Seq(OfWizard) /\ c \in OfWizard /\ t = Append(calls, c)
    BY <1>1, <1>7, <1>8
  <2> QED
    BY <2>1, CountAsking
<1>10. PICK n : n = Len(view.more.fates) /\ n \in Nat
  <2>1. view.more.fates \in Seq(Fates)
    BY <1>1 DEF InWizard, Shape, Ordering
  <2> QED
    BY <2>1, LenProperties
<1>11. q = "import" => n + Cardinality(Counted(calls, "import")) < MaxOrders
  BY <1>10 DEF MayOrder, Counted
<1>12. n + Cardinality(Counted(calls, "import")) <= MaxOrders /\ MaxOrders \in Nat
       /\ view.more.order <= n
  BY <1>1, <1>10, MaxOrdersAssumption DEF Afforded
<1>13. n + Cardinality(Counted(t, "import")) <= MaxOrders
  BY <1>7, <1>9, <1>10, <1>11, <1>12 DEF OneMore
<1>14. 0 <= n
  BY <1>10
<1>15. Afforded(w, t)
  BY <1>2, <1>10, <1>12, <1>13, <1>14 DEF Afforded
<1>16. WizardOK(w, t)
  BY <1>2, <1>3, <1>5, <1>15, WizardIs
<1> QED
  BY <1>2, <1>3, <1>4, <1>16

(* An answer that asks nothing, with the orders it makes. *)
LEMMA WizardComes ==
  ASSUME Bounds, WizardOK(view, calls), NEW q, NEW i, Answered(q, i) \/ Lost(q, i),
         view' \in InWizard,
         NEW k \in {0, 1}, k = 1 => q = "import",
         Len(view'.more.fates) = Len(view.more.fates) + k,
         \/ view'.more.order = view.more.order
         \/ view'.more.order = Len(view.more.fates) + k,
         view'.more.status = "reviewing" => view'.more.preview # Nothing,
         ~view'.more.doubled => OneOrder(view', calls')
  PROVE  Bounds' /\ WizardOK(view', calls')
<1>1. view \in InWizard /\ calls \in Seq(OfWizard) /\ Afforded(view, calls)
  BY WizardIs
<1>2. PICK w : w = view'
  OBVIOUS
<1>3. PICK t : t = calls'
  OBVIOUS
<1>4. Bounds' /\ Comes(OfWizard, q, i)
  BY <1>1, Came
<1>5. t \in Seq(OfWizard) /\ i \in DOMAIN calls /\ calls[i].of = q
  BY <1>3, <1>4 DEF Comes
<1>6. t = RemoveAt(calls, i)
  BY <1>3 DEF Answered, Lost, Returns
<1>7. OneLess(calls, t, "import", calls[i].of = "import")
  <2>1. calls \in Seq(OfWizard) /\ i \in DOMAIN calls /\ t = RemoveAt(calls, i)
    BY <1>1, <1>5, <1>6
  <2> QED
    BY <2>1, CountReturning
<1>8. PICK n : n = Len(view.more.fates) /\ n \in Nat
  <2>1. view.more.fates \in Seq(Fates)
    BY <1>1 DEF InWizard, Shape, Ordering
  <2> QED
    BY <2>1, LenProperties
<1>9. n + Cardinality(Counted(calls, "import")) <= MaxOrders /\ MaxOrders \in Nat
      /\ view.more.order <= n /\ view.more.order \in Nat
  BY <1>1, <1>8, MaxOrdersAssumption DEF Afforded, InWizard, Shape, Ordering
<1>10. n + k + Cardinality(Counted(t, "import")) <= MaxOrders
  <2>1. CASE k = 0
    <3>1. Cardinality(Counted(t, "import")) <= Cardinality(Counted(calls, "import"))
          /\ Cardinality(Counted(t, "import")) \in Nat /\ Cardinality(Counted(calls, "import")) \in Nat
      BY <1>7 DEF OneLess
    <3> QED
      BY <1>8, <1>9, <2>1, <3>1
  <2>2. CASE k = 1
    <3>1. Cardinality(Counted(t, "import")) <= Cardinality(Counted(calls, "import")) - 1
          /\ Cardinality(Counted(t, "import")) \in Nat /\ Cardinality(Counted(calls, "import")) \in Nat
      BY <1>5, <1>7, <2>2 DEF OneLess
    <3> QED
      BY <1>8, <1>9, <2>2, <3>1
  <2> QED
    BY <2>1, <2>2
<1>11. w.more.order <= n + k
  BY <1>2, <1>8, <1>9
<1>12. Afforded(w, t)
  BY <1>2, <1>8, <1>10, <1>11 DEF Afforded
<1>13. WizardOK(w, t)
  BY <1>2, <1>3, <1>5, <1>12, WizardIs
<1> QED
  BY <1>2, <1>3, <1>4, <1>13

LEMMA WizardOrders ==
  ASSUME Bounds, WizardOK(view, calls),
         (\E b \in Items : PlaceOrder(b)) \/ ConfirmDeploy \/ TryAgain \/ AdvancedMode
  PROVE  Bounds' /\ WizardOK(view', calls')
<1>1. /\ view \in InWizard /\ calls \in Seq(OfWizard) /\ Afforded(view, calls)
      /\ ~view.more.doubled => OneOrder(view, calls)
  BY WizardIs
<1>2. PICK w : w = view'
  OBVIOUS
<1>3. view.more \in Ordering /\ view.sel \in Selections
  BY <1>1 DEF InWizard, Shape
<1>5. CASE \E b \in Items : PlaceOrder(b)
  <2>1. PICK b \in Items : PlaceOrder(b)
    BY <1>5
  <2>2. /\ Requests("preview", b)
        /\ w = [view EXCEPT !.sel = b, !.more.doubled = @ \/ Due("preview") \/ Due("import")]
        /\ ~ReviewIsShown /\ ~ProgressIsShown /\ view.kind = "DeployWizard"
    BY <1>2, <2>1 DEF PlaceOrder, WizardIsShown
  <2>3. b \in Selections
    BY DEF Selections
  <2>4. Replies({"preview"}, {b}) \subseteq OfWizard
    BY DEF Replies, OfWizard
  <2>5. /\ w \in InWizard /\ w.sel = b /\ w.more.status = view.more.status
        /\ w.more.order = view.more.order /\ w.more.preview = view.more.preview
        /\ w.more.fates = view.more.fates
        /\ ~w.more.doubled => ~view.more.doubled /\ ~Due("preview") /\ ~Due("import")
    BY <1>1, <2>2, <2>3 DEF InWizard, Shape, Ordering
  <2>6. view.more.status # "reviewing"
    BY <1>1, <2>2 DEF Afforded, ReviewIsShown
  <2>7. Sends(OfWizard, "preview", b)
    BY <1>1, <2>2, <2>4, Sent
  <2>8. ASSUME ~w.more.doubled PROVE OneOrder(w, calls')
    <3>1. OneOrder(view, calls) /\ ~Asked(calls, "preview") /\ ~Asked(calls, "import")
      BY <1>1, <2>5, <2>8 DEF Due, Asked
    <3>2. view.more.order = 0
      BY <2>2, <3>1 DEF ProgressIsShown, OneOrder
    <3>3. view.more.status \in {"idle", "burned"}
      BY <1>3, <2>6, <3>1, <3>2 DEF OneOrder, Ordering
    <3>4. AllAbout(calls, "preview", b) /\ Alone(calls, {"preview", "import"})
      BY <3>1 DEF AllAbout, Asked, OneOrder
    <3>5. /\ AllAbout(calls', "preview", b) /\ Alone(calls', {"preview", "import"})
          /\ ~Asked(calls', "import")
      BY <2>7, <3>1, <3>4 DEF Sends
    <3> QED
      BY <2>5, <3>2, <3>3, <3>5 DEF OneOrder
  <2>9. w.more.status = "reviewing" => w.more.preview # Nothing
    BY <2>5, <2>6
  <2> QED
    BY <1>2, <2>2, <2>4, <2>5, <2>8, <2>9, WizardAsks
<1>6. CASE ConfirmDeploy \/ TryAgain
  <2>1. PICK w1 \in {view.more.order, 0}, w2 \in {view.more.told, 0} :
            /\ Requests("import", view.sel) /\ MayOrder
            /\ w = [view EXCEPT !.more.order = w1, !.more.told = w2, !.more.status = "cooking"]
            /\ \/ view.more.status = "reviewing" /\ w1 = view.more.order
               \/ view.more.order # 0 /\ w1 = 0
    <3>1. CASE ConfirmDeploy
      <4>1. /\ Requests("import", view.sel) /\ MayOrder /\ view.more.status = "reviewing"
            /\ w = [view EXCEPT !.more.status = "cooking"]
        BY <1>2, <3>1 DEF ConfirmDeploy, ReviewIsShown
      <4>2. w = [view EXCEPT !.more.order = view.more.order, !.more.told = view.more.told,
                             !.more.status = "cooking"]
        BY <1>1, <4>1 DEF InWizard, Shape, Ordering
      <4> QED
        BY <4>1, <4>2
    <3>2. CASE TryAgain
      <4>1. /\ Requests("import", view.sel) /\ MayOrder /\ view.more.order # 0
            /\ w = [view EXCEPT !.more.order = 0, !.more.told = 0, !.more.status = "cooking"]
        BY <1>2, <3>2 DEF TryAgain, ProgressIsShown
      <4> QED
        BY <4>1
    <3> QED
      BY <1>6, <3>1, <3>2
  <2>2. Replies({"import"}, {view.sel}) \subseteq OfWizard
    BY <1>3 DEF Replies, OfWizard
  <2>3. w1 \in Nat /\ w2 \in Nat
    BY <1>3 DEF Ordering
  <2>4. /\ w \in InWizard /\ w.sel = view.sel /\ w.more.status = "cooking" /\ w.more.order = w1
        /\ w.more.fates = view.more.fates /\ w.more.doubled = view.more.doubled
    BY <1>1, <2>1, <2>3 DEF InWizard, Shape, Ordering
  <2>5. Sends(OfWizard, "import", view.sel)
    BY <1>1, <2>1, <2>2, Sent
  <2>6. ASSUME ~w.more.doubled PROVE OneOrder(w, calls')
    <3>1. OneOrder(view, calls)
      BY <1>1, <2>4, <2>6
    <3>2. ~Asked(calls, "preview") /\ ~Asked(calls, "import") /\ w1 = 0
      BY <2>1, <3>1 DEF OneOrder
    <3>3. /\ AllAbout(calls', "preview", view.sel) /\ Alone(calls', {"preview", "import"})
          /\ ~Asked(calls', "preview") /\ Asked(calls', "import")
      BY <2>5, <3>1, <3>2 DEF Sends, OneOrder
    <3> QED
      BY <2>4, <3>2, <3>3 DEF OneOrder
  <2> QED
    BY <1>2, <2>1, <2>2, <2>4, <2>6, WizardAsks
<1>7. CASE AdvancedMode
  <2>1. Requests("advanced", Nothing) /\ w = view
    BY <1>2, <1>7 DEF AdvancedMode
  <2>2. Replies({"advanced"}, {Nothing}) \subseteq OfWizard
    BY DEF Replies, OfWizard
  <2>3. Sends(OfWizard, "advanced", Nothing)
    BY <1>1, <2>1, <2>2, Sent
  <2>4. ASSUME ~view.more.doubled PROVE OneOrder(view, calls')
    <3>1. OneOrder(view, calls)
      BY <1>1, <2>4
    <3>2. /\ AllAbout(calls', "preview", view.sel) /\ Alone(calls', {"preview", "import"})
          /\ Asked(calls', "preview") <=> Asked(calls, "preview")
          /\ Asked(calls', "import") <=> Asked(calls, "import")
      BY <2>3, <3>1 DEF Sends, OneOrder
    <3> QED
      BY <3>1, <3>2 DEF OneOrder
  <2>5. view.more.status = "reviewing" => view.more.preview # Nothing
    BY <1>1 DEF Afforded
  <2> QED
    BY <1>1, <1>2, <2>1, <2>2, <2>4, <2>5, WizardAsks
<1> QED
  BY <1>5, <1>6, <1>7

LEMMA WizardPreviews ==
  ASSUME Bounds, WizardOK(view, calls), NEW i, Previewed(i)
  PROVE  Bounds' /\ WizardOK(view', calls')
<1>1. /\ view \in InWizard /\ calls \in Seq(OfWizard) /\ Afforded(view, calls)
      /\ ~view.more.doubled => OneOrder(view, calls)
  BY WizardIs
<1>2. PICK w : w = view'
  OBVIOUS
<1>3. PICK a : a = calls[i].arg
  OBVIOUS
<1>4. PICK t : t = calls'
  OBVIOUS
<1>5. view.more \in Ordering
  BY <1>1 DEF InWizard, Shape
<1>6. \A c \in OfWizard : c.of = "preview" => c.arg \in Items
  BY DEF OfWizard, Replies
<1>7. \A b \in Items : b \in Selections /\ b # Nothing
  BY ViewsAssumption DEF Selections
<1>8. CASE /\ Answered("preview", i)
           /\ w = [view EXCEPT !.more.preview = a, !.more.told = 0, !.more.status = "reviewing"]
  <2>1. Comes(OfWizard, "preview", i)
    BY <1>1, <1>8, Came
  <2>2. a \in Items
    BY <1>3, <1>6, <2>1 DEF Comes
  <2>3. /\ w \in InWizard /\ w.sel = view.sel /\ w.more.status = "reviewing" /\ w.more.preview = a
        /\ w.more.order = view.more.order /\ w.more.fates = view.more.fates
        /\ w.more.doubled = view.more.doubled
    BY <1>1, <1>7, <1>8, <2>2 DEF InWizard, Shape, Ordering
  <2>4. ASSUME ~w.more.doubled PROVE OneOrder(w, calls')
    <3>1. OneOrder(view, calls) /\ Asked(calls, "preview")
      BY <1>1, <2>1, <2>3, <2>4 DEF Comes
    <3>2. view.more.order = 0 /\ a = view.sel
      BY <1>3, <2>1, <3>1 DEF OneOrder, Comes
    <3>3. /\ AllAbout(calls', "preview", view.sel) /\ Alone(calls', {"preview", "import"})
          /\ ~Asked(calls', "preview") /\ ~Asked(calls', "import")
      BY <2>1, <3>1 DEF Comes, OneOrder
    <3> QED
      BY <2>3, <3>2, <3>3 DEF OneOrder
  <2>5. Len(w.more.fates) = Len(view.more.fates) + 0
    <3>1. view.more.fates \in Seq(Fates)
      BY <1>5 DEF Ordering
    <3>2. Len(view.more.fates) \in Nat
      BY <3>1, LenProperties
    <3> QED
      BY <2>3, <3>2
  <2>6. w.more.preview # Nothing
    BY <1>7, <2>2, <2>3
  <2>7. 0 \in {0, 1} /\ (0 = 1 => "preview" = "import")
    OBVIOUS
  <2> QED
    BY <1>2, <1>8, <2>3, <2>4, <2>5, <2>6, <2>7, WizardComes
<1>9. CASE /\ MayOrder /\ ReturnsAsking("preview", i, Request("import", a))
           /\ w = [view EXCEPT !.more.status = "cooking"]
  <2>1. PICK c : c = Request("import", a)
    OBVIOUS
  <2>2. i \in DOMAIN calls /\ calls[i].of = "preview" /\ t = Append(RemoveAt(calls, i), c)
    BY <1>4, <1>9, <2>1 DEF ReturnsAsking
  <2>3. calls[i] \in OfWizard
    BY <1>1, <2>2, ElementOfSeq
  <2>4. a \in Selections
    BY <1>3, <1>6, <1>7, <2>2, <2>3
  <2>5. c \in OfWizard /\ c.of = "import"
    BY <2>1, <2>4 DEF Request, OfWizard, Replies, Sights
  <2>6. Bounds' /\ ComesAsking(OfWizard, "preview", i, c)
    BY <1>1, <1>9, <2>1, <2>5, CameAsking
  <2>7. PICK u : u = RemoveAt(calls, i)
    OBVIOUS
  <2>8. OneLess(calls, u, "import", calls[i].of = "import")
    BY <1>1, <2>2, <2>7, CountReturning
  <2>9. OneMore(u, t, "import", c.of = "import")
    <3>1. IsAnswered(OfWizard, calls, i, u)
      BY <1>1, <2>2, <2>7, Returning
    <3>2. u \in Seq(OfWizard) /\ c \in OfWizard /\ t = Append(u, c)
      BY <2>2, <2>5, <2>7, <3>1 DEF IsAnswered
    <3> QED
      BY <3>2, CountAsking
  <2>10. PICK n : n = Len(view.more.fates) /\ n \in Nat
    <3>1. view.more.fates \in Seq(Fates)
      BY <1>5 DEF Ordering
    <3> QED
      BY <3>1, LenProperties
  <2>11. n + Cardinality(Counted(calls, "import")) < MaxOrders /\ MaxOrders \in Nat
    BY <1>9, <2>10, MaxOrdersAssumption DEF MayOrder, Counted
  <2>12. /\ Cardinality(Counted(calls, "import")) \in Nat /\ Cardinality(Counted(t, "import")) \in Nat
         /\ Cardinality(Counted(t, "import")) <= Cardinality(Counted(calls, "import")) + 1
    <3>1. /\ Cardinality(Counted(calls, "import")) \in Nat /\ Cardinality(Counted(u, "import")) \in Nat
          /\ Cardinality(Counted(u, "import")) <= Cardinality(Counted(calls, "import"))
      BY <2>2, <2>8 DEF OneLess
    <3>2. /\ Cardinality(Counted(t, "import")) \in Nat
          /\ Cardinality(Counted(t, "import")) = Cardinality(Counted(u, "import")) + 1
      BY <2>5, <2>9 DEF OneMore
    <3> QED
      BY <3>1, <3>2
  <2>13. n + Cardinality(Counted(t, "import")) <= MaxOrders
    BY <2>10, <2>11, <2>12
  <2>14. /\ w \in InWizard /\ w.sel = view.sel /\ w.more.status = "cooking"
         /\ w.more.order = view.more.order /\ w.more.fates = view.more.fates
         /\ w.more.doubled = view.more.doubled
    BY <1>1, <1>9 DEF InWizard, Shape, Ordering
  <2>15. Afforded(w, t)
    BY <1>1, <2>10, <2>13, <2>14 DEF Afforded
  <2>16. ASSUME ~w.more.doubled PROVE OneOrder(w, calls')
    <3>1. OneOrder(view, calls) /\ Asked(calls, "preview")
      BY <1>1, <2>6, <2>14, <2>16 DEF ComesAsking
    <3>2. view.more.order = 0
      BY <3>1 DEF OneOrder
    <3>3. /\ AllAbout(calls', "preview", view.sel) /\ Alone(calls', {"preview", "import"})
          /\ ~Asked(calls', "preview") /\ Asked(calls', "import")
      BY <2>5, <2>6, <3>1 DEF ComesAsking, OneOrder
    <3> QED
      BY <2>14, <3>2, <3>3 DEF OneOrder
  <2>17. t \in Seq(OfWizard)
    BY <1>4, <2>6 DEF ComesAsking
  <2>18. WizardOK(w, t)
    BY <1>4, <2>14, <2>15, <2>16, <2>17, WizardIs
  <2> QED
    BY <1>2, <1>4, <2>6, <2>18
<1> QED
  BY <1>2, <1>3, <1>8, <1>9 DEF Previewed

LEMMA WizardOrdered ==
  ASSUME Bounds, WizardOK(view, calls), NEW i, Ordered(i)
  PROVE  Bounds' /\ WizardOK(view', calls')
<1>1. /\ view \in InWizard /\ calls \in Seq(OfWizard) /\ Afforded(view, calls)
      /\ ~view.more.doubled => OneOrder(view, calls)
  BY WizardIs
<1>2. PICK w : w = view'
  OBVIOUS
<1>3. view.more \in Ordering
  BY <1>1 DEF InWizard, Shape
<1>4. PICK fs : fs = view.more.fates /\ fs \in Seq(Fates)
  BY <1>3 DEF Ordering
<1>5. PICK n : n = Len(fs) /\ n \in Nat
  BY <1>4, LenProperties
<1>6. "running" \in Fates
  BY DEF Fates
<1>7. PICK more : more = Append(fs, "running") /\ more \in Seq(Fates) /\ Len(more) = n + 1
  BY <1>4, <1>5, <1>6, AppendProperties
<1>8. (Answered("import", i) \/ Lost("import", i)) /\ view.kind = "DeployWizard"
  BY DEF Ordered
<1>9. Comes(OfWizard, "import", i)
  BY <1>1, <1>8, Came
<1>10. ASSUME NEW k \in {0, 1}, NEW gs \in Seq(Fates), Len(gs) = n + k,
              NEW st \in {view.more.status, "burned"}, NEW od \in Nat,
              od = view.more.order \/ od = n + k,
              w = [view EXCEPT !.more.status = st, !.more.order = od, !.more.fates = gs],
              st = "burned" \/ od # 0
       PROVE  Bounds' /\ WizardOK(view', calls')
  <2>1. /\ w \in InWizard /\ w.sel = view.sel /\ w.more.status = st /\ w.more.order = od
        /\ w.more.fates = gs /\ w.more.doubled = view.more.doubled
        /\ w.more.preview = view.more.preview
    BY <1>1, <1>3, <1>10 DEF InWizard, Shape, Ordering
  <2>2. ASSUME ~w.more.doubled PROVE OneOrder(w, calls')
    <3>1. OneOrder(view, calls) /\ Asked(calls, "import")
      BY <1>1, <1>9, <2>1, <2>2 DEF Comes
    <3>2. view.more.status = "cooking"
      BY <3>1 DEF OneOrder
    <3>3. st \in {"cooking", "burned"}
      BY <1>10, <3>2
    <3>4. /\ AllAbout(calls', "preview", view.sel) /\ Alone(calls', {"preview", "import"})
          /\ ~Asked(calls', "preview") /\ ~Asked(calls', "import")
      BY <1>9, <3>1 DEF Comes, OneOrder
    <3> QED
      BY <1>10, <2>1, <3>3, <3>4 DEF OneOrder
  <2>3. w.more.status = "reviewing" => w.more.preview # Nothing
    BY <1>1, <1>10, <2>1 DEF Afforded
  <2>4. /\ Len(w.more.fates) = Len(view.more.fates) + k
        /\ w.more.order = view.more.order \/ w.more.order = Len(view.more.fates) + k
    BY <1>4, <1>5, <1>10, <2>1
  <2>5. k = 1 => "import" = "import"
    OBVIOUS
  <2> QED
    BY <1>2, <1>8, <2>1, <2>2, <2>3, <2>4, WizardComes
<1>11. CASE w = [view EXCEPT !.more.order = Len(view.more.fates) + 1, !.more.fates = Append(@, "running")]
  <2>1. w = [view EXCEPT !.more.status = view.more.status, !.more.order = n + 1, !.more.fates = more]
    BY <1>1, <1>4, <1>5, <1>7, <1>11 DEF InWizard, Shape, Ordering
  <2>2. n + 1 \in Nat /\ n + 1 # 0
    BY <1>5
  <2> QED
    BY <1>7, <1>10, <2>1, <2>2
<1>12. ASSUME NEW gs \in Seq(Fates), NEW k \in {0, 1}, Len(gs) = n + k,
              w = [view EXCEPT !.more.status = "burned", !.more.fates = gs]
       PROVE  Bounds' /\ WizardOK(view', calls')
  <2>1. w = [view EXCEPT !.more.status = "burned", !.more.order = view.more.order, !.more.fates = gs]
    BY <1>1, <1>12 DEF InWizard, Shape, Ordering
  <2>2. view.more.order \in Nat
    BY <1>3 DEF Ordering
  <2> QED
    BY <1>10, <1>12, <2>1, <2>2
<1>13. CASE w = [view EXCEPT !.more.status = "burned"]
  <2>1. w = [view EXCEPT !.more.status = "burned", !.more.fates = fs]
    BY <1>1, <1>4, <1>13 DEF InWizard, Shape, Ordering
  <2>2. Len(fs) = n + 0
    BY <1>5
  <2> QED
    BY <1>4, <1>12, <2>1, <2>2
<1>14. CASE \E new \in {<<>>, <<"running">>} :
               w = [view EXCEPT !.more.status = "burned", !.more.fates = @ \o new]
  <2>1. PICK new \in {<<>>, <<"running">>} :
               w = [view EXCEPT !.more.status = "burned", !.more.fates = @ \o new]
    BY <1>14
  <2>2. w = [view EXCEPT !.more.status = "burned", !.more.fates = fs \o new]
    BY <1>1, <1>4, <2>1
  <2>3. CASE new = <<>>
    <3>1. fs \o <<>> = fs /\ Len(fs) = n + 0
      BY <1>4, <1>5, ConcatEmptySeq
    <3> QED
      BY <1>4, <1>12, <2>2, <2>3, <3>1
  <2>4. CASE new = <<"running">>
    <3>1. fs \o <<"running">> = more
      BY <1>4, <1>6, <1>7, AppendIsConcat
    <3> QED
      BY <1>7, <1>12, <2>2, <2>4, <3>1
  <2> QED
    BY <2>1, <2>3, <2>4
<1> QED
  BY <1>2, <1>11, <1>13, <1>14 DEF Ordered

-----------------------------------------------------------------------------
(* Which view moves *)

StatusMoves       == StatusFetch \/ \E i \in DOMAIN calls : StatusAnswered(i)
ClusterMoves      == ClusterFetch \/ \E i \in DOMAIN calls : ClusterAnswered(i)
EnvironmentsMoves ==
    EnvironmentsRefresh \/ ContextTells \/ \E i \in DOMAIN calls : EnvironmentsAnswered(i)
DoctorMoves       == RunDoctor \/ \E i \in DOMAIN calls : DoctorAnswered(i)
ApplicationsMoves == ApplicationsRetry \/ \E i \in DOMAIN calls : ApplicationsAnswered(i)

OverviewMoves ==
    (\E t \in Items : TeamChanges(t)) \/ OverviewRetry \/ \E i \in DOMAIN calls : OverviewAnswered(i)

ApplicationMoves ==
    \/ \E t \in {"overview", "logs"} : OpenTab(t)
    \/ \E p \in Items : SelectPod(p)
    \/ RefreshLogs \/ Restart
    \/ \E i \in DOMAIN calls : ApplicationAnswered(i) \/ LogsAnswered(i) \/ RestartAnswered(i)

MonitoringMoves ==
    \/ MonitoringRetry \/ Refresh \/ Hide \/ Show
    \/ \E a \in Items : SelectApp(a)
    \/ \E i \in DOMAIN calls : \/ \E r \in {"load", "refresh"} : MonitoringAnswered(r, i)
                               \/ SeriesAnswered(i)

RegistryMoves ==
    \/ ToggleForm \/ HandleDelete
    \/ \E c \in Items : HandleCreate(c)
    \/ \E c \in Items \cup {Nothing} : ConfirmDelete(c)
    \/ \E i \in DOMAIN calls : ClustersListed(i) \/ Created(i) \/ Deleted(i)

ComposeMoves ==
    \/ \E t \in Items : EditText(t) \/ Upload(t)
    \/ Import \/ Turn
    \/ \E i \in DOMAIN calls : FileRead(i) \/ Parsed(i)

GitHubMoves ==
    \/ \E t \in Items : EditAddress(t)
    \/ Scan \/ EditRecipe \/ CheckImage
    \/ \E i \in DOMAIN calls : Scanned(i) \/ ImageChecked(i)

TemplatesMoves ==
    \/ \E c \in Items \cup {Nothing} : SelectCategory(c)
    \/ RetryTemplates
    \/ \E i \in DOMAIN calls : Listed(i)

MarketplaceMoves ==
    \/ \E c \in Items \cup {Nothing} : FilterCategory(c) \/ TypeQuery(c)
    \/ RetryMarketplace \/ QueryTimer \/ ClearFilters \/ OpenRecipe \/ CloseRecipe
    \/ \E i \in DOMAIN calls : Listed(i)

FrameworkMoves ==
    \/ \E t \in Items : AnswerQuestion(t)
    \/ NextQuestion \/ Generate \/ EditPreview \/ (PreviousQuestion /\ view.more.step # 0)
    \/ \E i \in DOMAIN calls : Generated(i)

BuilderMoves ==
    \/ \E b \in Items : DropBlock(b) \/ Connect(b)
    \/ \E b \in Items \cup {Nothing} : SelectBlock(b)
    \/ RemoveBlock \/ Save
    \/ \E i \in DOMAIN calls : RecipeDrawn(i) \/ Saved(i)

WizardMoves ==
    \/ \E b \in Items : PlaceOrder(b)
    \/ ConfirmDeploy \/ TryAgain \/ AdvancedMode
    \/ BackToWizard \/ EditOrder \/ ResetWizard
    \/ DeployDone \/ \E n \in 1..MaxOrders : DeploymentEnds(n)
    \/ \E i \in DOMAIN calls : Previewed(i) \/ Ordered(i)

(* The view is left, for another or because its recipe cannot be loaded. *)
Leaves ==
    \/ \E m \in AllViews \cup {Elsewhere} : Mounts(m)
    \/ /\ view' = Elsewhere.view /\ calls' = <<>> /\ overtaken' = FALSE
       /\ faults < MaxFaults /\ faults' = faults + 1
       /\ UNCHANGED world

Is(kind, moves) == view.kind = kind /\ moves

Moves ==
    \/ Is("StatusPage", StatusMoves) \/ Is("ClusterProvider", ClusterMoves)
    \/ Is("EnvironmentsPage", EnvironmentsMoves) \/ Is("DoctorPage", DoctorMoves)
    \/ Is("ApplicationsPage", ApplicationsMoves) \/ Is("OverviewPage", OverviewMoves)
    \/ Is("ApplicationDetailPage", ApplicationMoves) \/ Is("MonitoringPage", MonitoringMoves)
    \/ Is("ClustersPage", RegistryMoves) \/ Is("ComposeImport", ComposeMoves)
    \/ Is("GitHubImport", GitHubMoves) \/ Is("TemplateCatalog", TemplatesMoves)
    \/ Is("RecipeCatalog", MarketplaceMoves) \/ Is("FrameworkWizard", FrameworkMoves)
    \/ Is("RecipeBuilderPage", BuilderMoves) \/ Is("DeployWizard", WizardMoves)
    \/ Leaves \/ WorldChanges

LEMMA ClusterAsksMove ==
  ASSUME ClusterAsks
  PROVE  Moves
<1>1. CASE StatusFetch
  BY <1>1 DEF Moves, Is, StatusMoves, StatusFetch
<1>2. CASE ClusterFetch
  BY <1>2 DEF Moves, Is, ClusterMoves, ClusterFetch
<1>3. CASE EnvironmentsRefresh \/ ContextTells
  BY <1>3 DEF Moves, Is, EnvironmentsMoves, EnvironmentsRefresh, ContextTells
<1>4. CASE RunDoctor
  BY <1>4 DEF Moves, Is, DoctorMoves, RunDoctor
<1>5. CASE ApplicationsRetry
  BY <1>5 DEF Moves, Is, ApplicationsMoves, ApplicationsRetry
<1>6. CASE OverviewRetry \/ \E t \in Items : TeamChanges(t)
  <2>1. view.kind = "OverviewPage"
    BY <1>6 DEF OverviewRetry, TeamChanges
  <2> QED
    BY <1>6, <2>1 DEF Moves, Is, OverviewMoves
<1>7. CASE RefreshLogs \/ Restart \/ (\E t \in {"overview", "logs"} : OpenTab(t)) \/ \E p \in Items : SelectPod(p)
  <2>1. view.kind = "ApplicationDetailPage"
    BY <1>7 DEF RefreshLogs, Restart, OpenTab, SelectPod
  <2> QED
    BY <1>7, <2>1 DEF Moves, Is, ApplicationMoves
<1>8. CASE MonitoringRetry \/ Refresh \/ Hide \/ Show \/ \E a \in Items : SelectApp(a)
  <2>1. view.kind = "MonitoringPage"
    BY <1>8 DEF MonitoringRetry, Refresh, Hide, Show, SelectApp
  <2> QED
    BY <1>8, <2>1 DEF Moves, Is, MonitoringMoves
<1>9. CASE \/ ToggleForm \/ HandleDelete
           \/ \E c \in Items : HandleCreate(c)
           \/ \E c \in Items \cup {Nothing} : ConfirmDelete(c)
  <2>1. view.kind = "ClustersPage"
    BY <1>9 DEF ToggleForm, HandleDelete, HandleCreate, ConfirmDelete, RegistryIsShown
  <2> QED
    BY <1>9, <2>1 DEF Moves, Is, RegistryMoves
<1> QED
  BY <1>1, <1>2, <1>3, <1>4, <1>5, <1>6, <1>7, <1>8, <1>9 DEF ClusterAsks

LEMMA ClusterRepliesMove ==
  ASSUME NEW i \in DOMAIN calls, ClusterReply(i)
  PROVE  Moves
<1>1. CASE StatusAnswered(i)
  BY <1>1 DEF Moves, Is, StatusMoves, StatusAnswered
<1>2. CASE ClusterAnswered(i)
  BY <1>2 DEF Moves, Is, ClusterMoves, ClusterAnswered
<1>3. CASE EnvironmentsAnswered(i)
  BY <1>3 DEF Moves, Is, EnvironmentsMoves, EnvironmentsAnswered
<1>4. CASE DoctorAnswered(i)
  BY <1>4 DEF Moves, Is, DoctorMoves, DoctorAnswered
<1>5. CASE ApplicationsAnswered(i)
  BY <1>5 DEF Moves, Is, ApplicationsMoves, ApplicationsAnswered
<1>6. CASE OverviewAnswered(i)
  BY <1>6 DEF Moves, Is, OverviewMoves, OverviewAnswered
<1>7. CASE ApplicationAnswered(i) \/ LogsAnswered(i) \/ RestartAnswered(i)
  <2>1. view.kind = "ApplicationDetailPage"
    BY <1>7 DEF ApplicationAnswered, LogsAnswered, RestartAnswered
  <2> QED
    BY <1>7, <2>1 DEF Moves, Is, ApplicationMoves
<1>8. CASE (\E r \in {"load", "refresh"} : MonitoringAnswered(r, i)) \/ SeriesAnswered(i)
  <2>1. view.kind = "MonitoringPage"
    BY <1>8 DEF MonitoringAnswered, SeriesAnswered
  <2> QED
    BY <1>8, <2>1 DEF Moves, Is, MonitoringMoves
<1>9. CASE ClustersListed(i) \/ Created(i) \/ Deleted(i)
  <2>1. view.kind = "ClustersPage"
    BY <1>9 DEF ClustersListed, Created, Deleted
  <2> QED
    BY <1>9, <2>1 DEF Moves, Is, RegistryMoves
<1> QED
  BY <1>1, <1>2, <1>3, <1>4, <1>5, <1>6, <1>7, <1>8, <1>9 DEF ClusterReply

LEMMA ImportAsksMove ==
  ASSUME ImportAsks
  PROVE  Moves
<1>1. CASE UseCompose \/ UseScan \/ DeployRecipe \/ CompleteFramework
  <2>1. Mounts(Elsewhere)
    BY <1>1 DEF UseCompose, UseScan, DeployRecipe, CompleteFramework
  <2> QED
    BY <2>1 DEF Moves, Leaves
<1>2. CASE (\E t \in Items : EditText(t) \/ Upload(t)) \/ Import \/ Turn
  <2>1. view.kind = "ComposeImport"
    BY <1>2 DEF EditText, Upload, Import, Turn
  <2> QED
    BY <1>2, <2>1 DEF Moves, Is, ComposeMoves
<1>3. CASE (\E t \in Items : EditAddress(t)) \/ Scan \/ EditRecipe \/ CheckImage
  <2>1. view.kind = "GitHubImport"
    BY <1>3 DEF EditAddress, Scan, EditRecipe, CheckImage
  <2> QED
    BY <1>3, <2>1 DEF Moves, Is, GitHubMoves
<1>4. CASE (\E c \in Items \cup {Nothing} : SelectCategory(c)) \/ RetryTemplates
  <2>1. view.kind = "TemplateCatalog"
    BY <1>4 DEF SelectCategory, RetryTemplates
  <2> QED
    BY <1>4, <2>1 DEF Moves, Is, TemplatesMoves
<1>5. CASE \/ \E c \in Items \cup {Nothing} : FilterCategory(c) \/ TypeQuery(c)
           \/ RetryMarketplace \/ QueryTimer \/ ClearFilters \/ OpenRecipe \/ CloseRecipe
  <2>1. view.kind = "RecipeCatalog"
    BY <1>5 DEF FilterCategory, TypeQuery, RetryMarketplace, QueryTimer, ClearFilters, OpenRecipe,
                CloseRecipe, DetailIsShown
  <2> QED
    BY <1>5, <2>1 DEF Moves, Is, MarketplaceMoves
<1>6. CASE (\E t \in Items : AnswerQuestion(t)) \/ NextQuestion \/ Generate \/ EditPreview
  <2>1. view.kind = "FrameworkWizard"
    BY <1>6 DEF AnswerQuestion, NextQuestion, Generate, EditPreview
  <2> QED
    BY <1>6, <2>1 DEF Moves, Is, FrameworkMoves
<1>7. CASE PreviousQuestion
  <2>1. CASE view.more.step = 0
    BY <1>7, <2>1 DEF PreviousQuestion, Moves, Leaves
  <2>2. CASE view.more.step # 0
    BY <1>7, <2>2 DEF PreviousQuestion, Moves, Is, FrameworkMoves
  <2> QED
    BY <2>1, <2>2
<1> QED
  BY <1>1, <1>2, <1>3, <1>4, <1>5, <1>6, <1>7 DEF ImportAsks

LEMMA ImportRepliesMove ==
  ASSUME NEW i \in DOMAIN calls, ImportReply(i)
  PROVE  Moves
<1>1. CASE FileRead(i) \/ Parsed(i)
  <2>1. view.kind = "ComposeImport"
    BY <1>1 DEF FileRead, Parsed
  <2> QED
    BY <1>1, <2>1 DEF Moves, Is, ComposeMoves
<1>2. CASE Scanned(i) \/ ImageChecked(i)
  <2>1. view.kind = "GitHubImport"
    BY <1>2 DEF Scanned, ImageChecked
  <2> QED
    BY <1>2, <2>1 DEF Moves, Is, GitHubMoves
<1>3. CASE Listed(i)
  <2>1. view.kind = "TemplateCatalog" \/ view.kind = "RecipeCatalog"
    BY <1>3 DEF Listed
  <2> QED
    BY <1>3, <2>1 DEF Moves, Is, TemplatesMoves, MarketplaceMoves
<1>4. CASE Generated(i)
  <2>1. view.kind = "FrameworkWizard"
    BY <1>4 DEF Generated
  <2> QED
    BY <1>4, <2>1 DEF Moves, Is, FrameworkMoves
<1> QED
  BY <1>1, <1>2, <1>3, <1>4 DEF ImportReply

LEMMA RecipesMove ==
  ASSUME RecipeAsks \/ FollowOrder
  PROVE  Moves
<1>1. CASE \/ \E b \in Items : DropBlock(b) \/ Connect(b)
           \/ \E b \in Items \cup {Nothing} : SelectBlock(b)
           \/ RemoveBlock \/ Save
  <2>1. view.kind = "RecipeBuilderPage"
    BY <1>1 DEF DropBlock, Connect, SelectBlock, RemoveBlock, Save, PanelIsShown
  <2> QED
    BY <1>1, <2>1 DEF Moves, Is, BuilderMoves
<1>2. CASE \/ \E b \in Items : PlaceOrder(b)
           \/ ConfirmDeploy \/ TryAgain \/ AdvancedMode
           \/ BackToWizard \/ EditOrder \/ ResetWizard
           \/ DeployDone \/ \E n \in 1..MaxOrders : DeploymentEnds(n)
  <2>1. view.kind = "DeployWizard"
    BY <1>2 DEF PlaceOrder, ConfirmDeploy, TryAgain, AdvancedMode, BackToWizard, EditOrder,
                ResetWizard, DeployDone, DeploymentEnds, ReviewIsShown, WizardIsShown, ProgressIsShown
  <2> QED
    BY <1>2, <2>1 DEF Moves, Is, WizardMoves
<1>3. CASE ViewDeployments
  BY <1>3 DEF ViewDeployments, Moves, Leaves
<1> QED
  BY <1>1, <1>2, <1>3 DEF RecipeAsks, FollowOrder

LEMMA RecipeRepliesMove ==
  ASSUME NEW i \in DOMAIN calls, RecipeReply(i)
  PROVE  Moves
<1>1. CASE RecipeLoaded(i)
  <2>1. CASE RecipeDrawn(i)
    BY <1>1, <2>1 DEF RecipeLoaded, Moves, Is, BuilderMoves
  <2>2. CASE ~RecipeDrawn(i)
    BY <1>1, <2>2 DEF RecipeLoaded, RecipeDrawn, Moves, Leaves
  <2> QED
    BY <2>1, <2>2
<1>2. CASE Saved(i)
  <2>1. view.kind = "RecipeBuilderPage"
    BY <1>2 DEF Saved
  <2> QED
    BY <1>2, <2>1 DEF Moves, Is, BuilderMoves
<1>3. CASE Previewed(i) \/ Ordered(i)
  <2>1. view.kind = "DeployWizard"
    BY <1>3 DEF Previewed, Ordered
  <2> QED
    BY <1>3, <2>1 DEF Moves, Is, WizardMoves
<1>4. CASE AdvancedReady(i)
  BY <1>4 DEF AdvancedReady, Moves, Leaves
<1> QED
  BY <1>1, <1>2, <1>3, <1>4 DEF RecipeReply

LEMMA EveryStepMoves ==
  ASSUME Next
  PROVE  Moves
<1>1. CASE Visit
  BY <1>1 DEF Visit, Moves, Leaves
<1>2. CASE ClusterNext
  <2>1. CASE WorldChanges
    BY <2>1 DEF Moves
  <2> QED
    BY <1>2, <2>1, ClusterAsksMove, ClusterRepliesMove DEF ClusterNext
<1> QED
  BY <1>1, <1>2, ImportAsksMove, ImportRepliesMove, RecipesMove, RecipeRepliesMove DEF Next

-----------------------------------------------------------------------------
(* The invariant *)

(* Which view it is shows what can be said of it. *)
KnownAs(v, s, o) ==
    /\ StatusOK(v, s) => v.kind = "StatusPage"
    /\ ClusterOK(v, s) => v.kind = "ClusterProvider"
    /\ EnvironmentsOK(v, s) => v.kind = "EnvironmentsPage"
    /\ DoctorOK(v, s) => v.kind = "DoctorPage"
    /\ ApplicationsOK(v, s) => v.kind = "ApplicationsPage"
    /\ OverviewOK(v, s, o) => v.kind = "OverviewPage"
    /\ ApplicationOK(v, s, o) => v.kind = "ApplicationDetailPage"
    /\ MonitoringOK(v, s) => v.kind = "MonitoringPage"
    /\ RegistryOK(v, s) => v.kind = "ClustersPage"
    /\ ComposeOK(v, s) => v.kind = "ComposeImport"
    /\ GitHubOK(v, s) => v.kind = "GitHubImport"
    /\ TemplatesOK(v, s, o) => v.kind = "TemplateCatalog"
    /\ MarketplaceOK(v, s, o) => v.kind = "RecipeCatalog"
    /\ FrameworkOK(v, s) => v.kind = "FrameworkWizard"
    /\ BuilderOK(v, s) => v.kind = "RecipeBuilderPage"
    /\ WizardOK(v, s) => v.kind = "DeployWizard"
    /\ ElsewhereOK(v, s) => v.kind = "elsewhere"

LEMMA Kinds ==
  ASSUME NEW v, NEW s, NEW o
  PROVE  KnownAs(v, s, o)
<1>1. ASSUME NEW kind, NEW sels, NEW rs, NEW gots, NEW mores, v \in Shape(kind, sels, rs, gots, mores)
      PROVE  v.kind = kind
  BY <1>1 DEF Shape
<1>2. \A kind, mores : Plain(v, s, kind, mores) => v.kind = kind
  BY <1>1 DEF Plain
<1>3. /\ StatusOK(v, s) => v.kind = "StatusPage"
      /\ ClusterOK(v, s) => v.kind = "ClusterProvider"
      /\ EnvironmentsOK(v, s) => v.kind = "EnvironmentsPage"
      /\ DoctorOK(v, s) => v.kind = "DoctorPage"
      /\ ApplicationsOK(v, s) => v.kind = "ApplicationsPage"
  BY <1>2 DEF StatusOK, ClusterOK, EnvironmentsOK, DoctorOK, ApplicationsOK
<1>4. OverviewOK(v, s, o) => v.kind = "OverviewPage"
  BY <1>1 DEF OverviewOK
<1>5. ApplicationOK(v, s, o) => v.kind = "ApplicationDetailPage"
  BY <1>1 DEF ApplicationOK
<1>6. MonitoringOK(v, s) => v.kind = "MonitoringPage"
  BY <1>1 DEF MonitoringOK
<1>7. RegistryOK(v, s) => v.kind = "ClustersPage"
  BY <1>1 DEF RegistryOK
<1>8. ComposeOK(v, s) => v.kind = "ComposeImport"
  BY <1>1 DEF ComposeOK
<1>9. GitHubOK(v, s) => v.kind = "GitHubImport"
  BY <1>1 DEF GitHubOK
<1>10. TemplatesOK(v, s, o) => v.kind = "TemplateCatalog"
  BY <1>1 DEF TemplatesOK, Catalog
<1>11. MarketplaceOK(v, s, o) => v.kind = "RecipeCatalog"
  BY <1>1 DEF MarketplaceOK, Catalog
<1>12. FrameworkOK(v, s) => v.kind = "FrameworkWizard"
  BY <1>1 DEF FrameworkOK
<1>13. BuilderOK(v, s) => v.kind = "RecipeBuilderPage"
  BY <1>1 DEF BuilderOK
<1>14. WizardOK(v, s) => v.kind = "DeployWizard"
  BY <1>1 DEF WizardOK
<1>15. ElsewhereOK(v, s) => v.kind = "elsewhere"
  BY DEF ElsewhereOK, Elsewhere, Mount
<1> QED
  BY <1>3, <1>4, <1>5, <1>6, <1>7, <1>8, <1>9, <1>10, <1>11, <1>12, <1>13, <1>14, <1>15 DEF KnownAs

LEMMA Starts == Init => IInv
<1> SUFFICES ASSUME Init PROVE IInv
  OBVIOUS
<1>1. PICK m \in AllViews : view = m.view /\ calls = SetToSeq({Call(r, m.view.sel) : r \in m.first})
  BY DEF Init
<1>2. world \in Worlds /\ faults = 0 /\ overtaken = FALSE /\ MaxFaults \in Nat
  BY ViewsAssumption DEF Init
<1>3. ViewOK(view, calls, overtaken) /\ Len(calls) <= MaxCalls
  <2>1. PICK s : s = SetToSeq({Call(r, m.view.sel) : r \in m.first})
    OBVIOUS
  <2>2. ViewOK(m.view, s, FALSE) /\ Len(s) <= MaxCalls
    BY <1>2, <2>1, Mounted
  <2>3. calls = s
    BY <1>1, <2>1
  <2> QED
    BY <1>1, <1>2, <2>2, <2>3
<1>4. faults \in 0..MaxFaults
  <2>1. faults = 0 /\ MaxFaults \in Nat
    BY <1>2
  <2> QED
    BY <2>1
<1>5. overtaken \in BOOLEAN
  BY <1>2
<1> QED
  BY <1>2, <1>3, <1>4, <1>5 DEF IInv, Bounds

LEMMA Leaving ==
  ASSUME Bounds, Leaves
  PROVE  IInv'
<1>0. world \in Worlds /\ MaxFaults \in Nat /\ MaxCalls \in Nat /\ faults \in 0..MaxFaults
  BY ViewsAssumption DEF Bounds
<1>1. CASE \E m \in AllViews \cup {Elsewhere} : Mounts(m)
  <2>1. PICK m \in AllViews \cup {Elsewhere} : Mounts(m)
    BY <1>1
  <2>2. /\ view' = m.view /\ calls' = SetToSeq({Call(r, m.view.sel) : r \in m.first})
        /\ overtaken' = FALSE /\ world' = world /\ faults' = faults
    BY <2>1 DEF Mounts
  <2>3. PICK s : s = SetToSeq({Call(r, m.view.sel) : r \in m.first})
    OBVIOUS
  <2>4. ViewOK(m.view, s, FALSE) /\ Len(s) <= MaxCalls
    BY <1>0, <2>3, Mounted
  <2>5. ViewOK(view', calls', overtaken') /\ Len(calls') <= MaxCalls
    BY <2>2, <2>3, <2>4
  <2> QED
    BY <1>0, <2>2, <2>5 DEF IInv, Bounds
<1>2. CASE /\ view' = Elsewhere.view /\ calls' = <<>> /\ overtaken' = FALSE
           /\ faults < MaxFaults /\ faults' = faults + 1
           /\ UNCHANGED world
  <2>1. ViewOK(view', calls', overtaken')
    <3>1. ElsewhereOK(view', calls')
      BY <1>2 DEF ElsewhereOK
    <3> QED
      BY <3>1 DEF ViewOK
  <2>2. world' \in Worlds /\ overtaken' \in BOOLEAN
    BY <1>0, <1>2
  <2>4. Len(calls') <= MaxCalls
    <3>1. calls' = <<>> /\ MaxCalls \in Nat
      BY <1>0, <1>2
    <3> QED
      BY <3>1
  <2>3. faults' \in 0..MaxFaults
    <3>1. faults \in 0..MaxFaults /\ MaxFaults \in Nat /\ faults < MaxFaults /\ faults' = faults + 1
      BY <1>0, <1>2
    <3> QED
      BY <3>1
  <2> QED
    BY <2>1, <2>2, <2>3, <2>4 DEF IInv, Bounds
<1> QED
  BY <1>1, <1>2 DEF Leaves

LEMMA Stays ==
  ASSUME IInv, UNCHANGED <<view, calls, faults, overtaken>>, world' \in Worlds
  PROVE  IInv'
BY DEF IInv, Bounds

LEMMA Steps ==
  ASSUME IInv, Next
  PROVE  IInv'
<1>1. Bounds /\ ViewOK(view, calls, overtaken)
  BY DEF IInv
<1>2. Moves
  BY EveryStepMoves
<1>3. CASE Leaves
  BY <1>1, <1>3, Leaving
<1>4. CASE WorldChanges
  BY <1>4, Stays DEF WorldChanges
<1> DEFINE Kind == view.kind
<1>5. KnownAs(view, calls, overtaken)
  BY Kinds
<1>6. ASSUME NEW k, view.kind = k, ~Leaves, ~WorldChanges
      PROVE  /\ k = "StatusPage" => StatusMoves
             /\ k = "ClusterProvider" => ClusterMoves
             /\ k = "EnvironmentsPage" => EnvironmentsMoves
             /\ k = "DoctorPage" => DoctorMoves
             /\ k = "ApplicationsPage" => ApplicationsMoves
             /\ k = "OverviewPage" => OverviewMoves
             /\ k = "ApplicationDetailPage" => ApplicationMoves
             /\ k = "MonitoringPage" => MonitoringMoves
             /\ k = "ClustersPage" => RegistryMoves
             /\ k = "ComposeImport" => ComposeMoves
             /\ k = "GitHubImport" => GitHubMoves
             /\ k = "TemplateCatalog" => TemplatesMoves
             /\ k = "RecipeCatalog" => MarketplaceMoves
             /\ k = "FrameworkWizard" => FrameworkMoves
             /\ k = "RecipeBuilderPage" => BuilderMoves
             /\ k = "DeployWizard" => WizardMoves
             /\ k # "elsewhere"
  BY <1>2, <1>6 DEF Moves, Is
<1>7. ASSUME Bounds', ViewOK(view', calls', overtaken')
      PROVE  IInv'
  BY <1>7 DEF IInv
<1>8. CASE ~Leaves /\ ~WorldChanges
  <2>1. CASE StatusOK(view, calls)
    <3>1. StatusMoves
      BY <1>5, <1>6, <1>8, <2>1 DEF KnownAs
    <3>2. Bounds' /\ StatusOK(view', calls')
      BY <1>1, <2>1, <3>1, StatusSteps DEF StatusMoves
    <3> QED
      BY <1>7, <3>2 DEF ViewOK
  <2>2. CASE ClusterOK(view, calls)
    <3>1. ClusterMoves
      BY <1>5, <1>6, <1>8, <2>2 DEF KnownAs
    <3>2. Bounds' /\ ClusterOK(view', calls')
      BY <1>1, <2>2, <3>1, ClusterSteps DEF ClusterMoves
    <3> QED
      BY <1>7, <3>2 DEF ViewOK
  <2>3. CASE EnvironmentsOK(view, calls)
    <3>1. EnvironmentsMoves
      BY <1>5, <1>6, <1>8, <2>3 DEF KnownAs
    <3>2. Bounds' /\ EnvironmentsOK(view', calls')
      BY <1>1, <2>3, <3>1, EnvironmentsSteps DEF EnvironmentsMoves
    <3> QED
      BY <1>7, <3>2 DEF ViewOK
  <2>4. CASE DoctorOK(view, calls)
    <3>1. DoctorMoves
      BY <1>5, <1>6, <1>8, <2>4 DEF KnownAs
    <3>2. Bounds' /\ DoctorOK(view', calls')
      BY <1>1, <2>4, <3>1, DoctorSteps DEF DoctorMoves
    <3> QED
      BY <1>7, <3>2 DEF ViewOK
  <2>5. CASE ApplicationsOK(view, calls)
    <3>1. ApplicationsMoves
      BY <1>5, <1>6, <1>8, <2>5 DEF KnownAs
    <3>2. Bounds' /\ ApplicationsOK(view', calls')
      BY <1>1, <2>5, <3>1, ApplicationsSteps DEF ApplicationsMoves
    <3> QED
      BY <1>7, <3>2 DEF ViewOK
  <2>6. CASE OverviewOK(view, calls, overtaken)
    <3>1. OverviewMoves
      BY <1>5, <1>6, <1>8, <2>6 DEF KnownAs
    <3>2. Bounds' /\ OverviewOK(view', calls', overtaken')
      BY <1>1, <2>6, <3>1, OverviewSteps DEF OverviewMoves
    <3> QED
      BY <1>7, <3>2 DEF ViewOK
  <2>7. CASE ApplicationOK(view, calls, overtaken)
    <3>1. ApplicationMoves
      BY <1>5, <1>6, <1>8, <2>7 DEF KnownAs
    <3>2. Bounds' /\ ApplicationOK(view', calls', overtaken')
      BY <1>1, <2>7, <3>1, ApplicationSteps DEF ApplicationMoves
    <3> QED
      BY <1>7, <3>2 DEF ViewOK
  <2>8. CASE MonitoringOK(view, calls)
    <3>1. MonitoringMoves
      BY <1>5, <1>6, <1>8, <2>8 DEF KnownAs
    <3>2. Bounds' /\ MonitoringOK(view', calls')
      BY <1>1, <2>8, <3>1, MonitoringSteps DEF MonitoringMoves
    <3> QED
      BY <1>7, <3>2 DEF ViewOK
  <2>9. CASE RegistryOK(view, calls)
    <3>1. RegistryMoves
      BY <1>5, <1>6, <1>8, <2>9 DEF KnownAs
    <3>2. Bounds' /\ RegistryOK(view', calls')
      BY <1>1, <2>9, <3>1, RegistrySteps DEF RegistryMoves
    <3> QED
      BY <1>7, <3>2 DEF ViewOK
  <2>10. CASE ComposeOK(view, calls)
    <3>1. ComposeMoves
      BY <1>5, <1>6, <1>8, <2>10 DEF KnownAs
    <3>2. Bounds' /\ ComposeOK(view', calls')
      BY <1>1, <2>10, <3>1, ComposeSteps DEF ComposeMoves
    <3> QED
      BY <1>7, <3>2 DEF ViewOK
  <2>11. CASE GitHubOK(view, calls)
    <3>1. GitHubMoves
      BY <1>5, <1>6, <1>8, <2>11 DEF KnownAs
    <3>2. Bounds' /\ GitHubOK(view', calls')
      BY <1>1, <2>11, <3>1, GitHubSteps DEF GitHubMoves
    <3> QED
      BY <1>7, <3>2 DEF ViewOK
  <2>12. CASE TemplatesOK(view, calls, overtaken)
    <3>1. TemplatesMoves
      BY <1>5, <1>6, <1>8, <2>12 DEF KnownAs
    <3>2. Bounds' /\ TemplatesOK(view', calls', overtaken')
      BY <1>1, <2>12, <3>1, TemplatesSteps DEF TemplatesMoves
    <3> QED
      BY <1>7, <3>2 DEF ViewOK
  <2>13. CASE MarketplaceOK(view, calls, overtaken)
    <3>1. MarketplaceMoves
      BY <1>5, <1>6, <1>8, <2>13 DEF KnownAs
    <3>2. Bounds' /\ MarketplaceOK(view', calls', overtaken')
      BY <1>1, <2>13, <3>1, MarketplaceSteps DEF MarketplaceMoves
    <3> QED
      BY <1>7, <3>2 DEF ViewOK
  <2>14. CASE FrameworkOK(view, calls)
    <3>1. FrameworkMoves
      BY <1>5, <1>6, <1>8, <2>14 DEF KnownAs
    <3>2. Bounds' /\ FrameworkOK(view', calls')
      BY <1>1, <2>14, <3>1, FrameworkSteps DEF FrameworkMoves
    <3> QED
      BY <1>7, <3>2 DEF ViewOK
  <2>15. CASE BuilderOK(view, calls)
    <3>1. BuilderMoves
      BY <1>5, <1>6, <1>8, <2>15 DEF KnownAs
    <3>2. Bounds' /\ BuilderOK(view', calls')
      BY <1>1, <2>15, <3>1, BuilderSteps DEF BuilderMoves
    <3> QED
      BY <1>7, <3>2 DEF ViewOK
  <2>16. CASE WizardOK(view, calls)
    <3>1. WizardMoves
      BY <1>5, <1>6, <1>8, <2>16 DEF KnownAs
    <3>2. Bounds' /\ WizardOK(view', calls')
      BY <1>1, <2>16, <3>1, WizardOrders, WizardTurns, WizardFollows, WizardPreviews, WizardOrdered
      DEF WizardMoves
    <3> QED
      BY <1>7, <3>2 DEF ViewOK
  <2>17. CASE ElsewhereOK(view, calls)
    BY <1>5, <1>6, <1>8, <2>17 DEF KnownAs
  <2> QED
    BY <1>1, <2>1, <2>2, <2>3, <2>4, <2>5, <2>6, <2>7, <2>8, <2>9, <2>10, <2>11, <2>12, <2>13,
       <2>14, <2>15, <2>16, <2>17 DEF ViewOK
<1> QED
  BY <1>3, <1>4, <1>8

LEMMA Invariance == Spec => []IInv
<1>1. Init => IInv
  BY Starts
<1>2. IInv /\ [Next]_vars => IInv'
  <2>1. IInv /\ Next => IInv'
    BY Steps
  <2>2. IInv /\ UNCHANGED vars => IInv'
    BY DEF IInv, Bounds, vars
  <2> QED
    BY <2>1, <2>2
<1> QED
  BY <1>1, <1>2, PTL DEF Spec

-----------------------------------------------------------------------------
(* What the invariant says of the properties *)

SaysOf(v, s, o) ==
    /\ v.kind = "StatusPage" => StatusOK(v, s)
    /\ v.kind = "ClusterProvider" => ClusterOK(v, s)
    /\ v.kind = "EnvironmentsPage" => EnvironmentsOK(v, s)
    /\ v.kind = "DoctorPage" => DoctorOK(v, s)
    /\ v.kind = "ApplicationsPage" => ApplicationsOK(v, s)
    /\ v.kind = "OverviewPage" => OverviewOK(v, s, o)
    /\ v.kind = "ApplicationDetailPage" => ApplicationOK(v, s, o)
    /\ v.kind = "MonitoringPage" => MonitoringOK(v, s)
    /\ v.kind = "ClustersPage" => RegistryOK(v, s)
    /\ v.kind = "ComposeImport" => ComposeOK(v, s)
    /\ v.kind = "GitHubImport" => GitHubOK(v, s)
    /\ v.kind = "TemplateCatalog" => TemplatesOK(v, s, o)
    /\ v.kind = "RecipeCatalog" => MarketplaceOK(v, s, o)
    /\ v.kind = "FrameworkWizard" => FrameworkOK(v, s)
    /\ v.kind = "RecipeBuilderPage" => BuilderOK(v, s)
    /\ v.kind = "DeployWizard" => WizardOK(v, s)

LEMMA KindSays ==
  ASSUME IInv
  PROVE  SaysOf(view, calls, overtaken)
<1>1. KnownAs(view, calls, overtaken) /\ ViewOK(view, calls, overtaken)
  BY Kinds DEF IInv
<1> QED
  BY <1>1 DEF KnownAs, ViewOK, SaysOf

(* What is shown by each view *)
Draws ==
    /\ view.kind = "StatusPage" => Shows = StatusShows
    /\ view.kind = "ClusterProvider" => Shows = BannerShows
    /\ view.kind = "DoctorPage" => Shows = DoctorShows
    /\ view.kind = "ApplicationsPage" => Shows = ApplicationsShows
    /\ view.kind = "OverviewPage" => Shows = OverviewShows
    /\ view.kind = "EnvironmentsPage" => Shows = EnvironmentsShows
    /\ view.kind = "ApplicationDetailPage" => Shows = ApplicationShows
    /\ view.kind = "MonitoringPage" => Shows = MonitoringShows
    /\ view.kind = "ClustersPage" => Shows = RegistryShows
    /\ view.kind = "ComposeImport" => Shows = ComposeShows
    /\ view.kind = "GitHubImport" => Shows = GitHubShows
    /\ view.kind \in {"TemplateCatalog", "RecipeCatalog"} => Shows = CatalogShows
    /\ view.kind = "FrameworkWizard" => Shows = FrameworkShows
    /\ view.kind = "RecipeBuilderPage" => Shows = BuilderShows
    /\ view.kind = "DeployWizard" => Shows = WizardShows
    /\ view.kind = "elsewhere" => Shows = "nothing"

LEMMA KindDraws == Draws
BY DEF Shows, Draws

(* What holds of a view that shows x in place of its content. *)
Told(x) ==
    /\ view.spins \cup view.errors \subseteq ClusterRequests \cup ImportRequests \cup RecipeRequests
    /\ \A r \in view.spins :
          IF r \in {"load", "refresh"} THEN Due("load") \/ Due("refresh") \/ Due("restart") ELSE Due(r)
    /\ x \in Waiting => calls # <<>> \/ (view.kind = "DeployWizard" /\ view.more.order # 0)
    /\ x \in Empties /\ view.errors = {} =>
        \/ "load" \in DOMAIN view.got /\ Known
        \/ view.kind = "MonitoringPage" /\ "refresh" \in view.spins
        \/ view.kind = "RecipeCatalog" /\ view.more.retried

LEMMA UnderWay ==
  ASSUME NEW S, calls \in Seq(S), NEW r, Asked(calls, r)
  PROVE  Due(r) /\ calls # <<>>
<1>1. Due(r)
  BY DEF Asked, Due
<1>2. DOMAIN calls = 1..Len(calls)
  BY LenProperties
<1>3. calls # <<>>
  <2>1. SUFFICES ASSUME calls = <<>> PROVE FALSE
    OBVIOUS
  <2>2. Len(calls) = 0
    BY <2>1
  <2> QED
    BY <1>2, <2>2 DEF Asked
<1> QED
  BY <1>1, <1>3

LEMMA PlainTells ==
  ASSUME NEW kind, NEW mores, Plain(view, calls, kind, mores)
  PROVE  /\ view.kind = kind /\ view.spins \subseteq {"load"} /\ view.errors \subseteq {"load"}
         /\ "load" \in DOMAIN view.got
         /\ Loads <=> view.spins # {}
         /\ Loads => Due("load") /\ calls # <<>>
<1>1. view \in Shape(kind, {Nothing}, {"load"}, Loading, mores)
      /\ calls \in Seq(Replies({"load"}, {Nothing})) /\ Spun(view, calls)
  BY DEF Plain
<1>2. view.kind = kind /\ view.spins \subseteq {"load"} /\ view.errors \subseteq {"load"}
      /\ view.got \in Loading
  BY <1>1 DEF Shape
<1>3. "load" \in DOMAIN view.got /\ (Loads <=> view.spins # {})
  BY <1>2 DEF Loading, Loads
<1>4. Loads => Asked(calls, "load")
  BY <1>1 DEF Loads, Spun
<1> QED
  BY <1>1, <1>2, <1>3, <1>4, UnderWay

LEMMA PlainTold ==
  ASSUME NEW kind, NEW mores, Plain(view, calls, kind, mores), NEW x,
         x \in Waiting => Loads,
         x \in Empties => view.errors # {} \/ Known
  PROVE  Told(x)
<1>1. /\ view.spins \subseteq {"load"} /\ view.errors \subseteq {"load"}
      /\ "load" \in DOMAIN view.got
      /\ Loads => Due("load") /\ calls # <<>>
  BY PlainTells
<1>2. view.spins \cup view.errors \subseteq ClusterRequests \cup ImportRequests \cup RecipeRequests
  BY <1>1 DEF ClusterRequests
<1>3. \A r \in view.spins : r = "load" /\ Due("load")
  BY <1>1 DEF Loads
<1> QED
  BY <1>1, <1>2, <1>3 DEF Told

(* The views that show what the cluster answered, and nothing of a selection *)
LEMMA PlainViewsTell ==
  ASSUME StatusOK(view, calls) \/ ClusterOK(view, calls) \/ EnvironmentsOK(view, calls)
           \/ DoctorOK(view, calls) \/ ApplicationsOK(view, calls)
  PROVE  Told(Shows)
<1>1. CASE StatusOK(view, calls)
  <2>1. Plain(view, calls, "StatusPage", [on : {TRUE}]) /\ Accounts(view)
    BY <1>1 DEF StatusOK
  <2>2. view.kind = "StatusPage" /\ (Loads <=> view.spins # {})
    BY <2>1, PlainTells
  <2>3. Shows = StatusShows
    BY <2>2, KindDraws DEF Draws
  <2>4. Shows \in Waiting => Loads
    BY <2>3 DEF StatusShows, Waiting
  <2>5. Shows \in Empties => view.errors # {} \/ Known
    BY <2>1, <2>2, <2>3 DEF StatusShows, Empties, Accounts, Known
  <2> QED
    BY <2>1, <2>4, <2>5, PlainTold
<1>2. CASE ClusterOK(view, calls)
  <2>1. Plain(view, calls, "ClusterProvider", [on : {TRUE}])
    BY <1>2 DEF ClusterOK
  <2>2. view.kind = "ClusterProvider"
    BY <2>1, PlainTells
  <2>3. Shows = BannerShows
    BY <2>2, KindDraws DEF Draws
  <2>4. Shows \notin Waiting /\ Shows \notin Empties
    BY <2>3 DEF BannerShows, Waiting, Empties
  <2> QED
    BY <2>1, <2>4, PlainTold
<1>3. CASE EnvironmentsOK(view, calls)
  <2>1. Plain(view, calls, "EnvironmentsPage", [reachable : BOOLEAN]) /\ Accounts(view)
    BY <1>3 DEF EnvironmentsOK
  <2>2. view.kind = "EnvironmentsPage" /\ (Loads <=> view.spins # {})
    BY <2>1, PlainTells
  <2>3. Shows = EnvironmentsShows
    BY <2>2, KindDraws DEF Draws
  <2>4. EnvironmentBadge(Seen.running, Seen.pods) \in {"healthy", "empty", "degraded"}
    BY DEF EnvironmentBadge
  <2>5. Shows \in Waiting => Loads
    BY <2>3, <2>4 DEF EnvironmentsShows, Waiting
  <2>6. Shows \in Empties => view.errors # {} \/ Known
    BY <2>1, <2>2, <2>3, <2>4 DEF EnvironmentsShows, Empties, Accounts, Known, NoEnvironments,
                                  SetupEnvironments, PipelineIsShown
  <2> QED
    BY <2>1, <2>5, <2>6, PlainTold
<1>4. CASE DoctorOK(view, calls)
  <2>1. Plain(view, calls, "DoctorPage", [notConfigured : BOOLEAN])
        /\ (Accounts(view) \/ view.more.notConfigured)
    BY <1>4 DEF DoctorOK
  <2>2. view.kind = "DoctorPage" /\ (Loads <=> view.spins # {})
    BY <2>1, PlainTells
  <2>3. Shows = DoctorShows
    BY <2>2, KindDraws DEF Draws
  <2>4. Shows \in Waiting => Loads
    BY <2>3 DEF DoctorShows, Waiting
  <2>5. Shows \in Empties => view.errors # {} \/ Known
    BY <2>1, <2>2, <2>3 DEF DoctorShows, Empties, Accounts, Known
  <2> QED
    BY <2>1, <2>4, <2>5, PlainTold
<1>5. CASE ApplicationsOK(view, calls)
  <2>1. Plain(view, calls, "ApplicationsPage", [hasCluster : Clusters])
        /\ (Accounts(view) \/ view.more.hasCluster = "no")
    BY <1>5 DEF ApplicationsOK
  <2>2. view.kind = "ApplicationsPage" /\ (Loads <=> view.spins # {})
    BY <2>1, PlainTells
  <2>3. Shows = ApplicationsShows
    BY <2>2, KindDraws DEF Draws
  <2>4. AppCard(Seen).status \in {"failing", "healthy", "degraded"}
    BY DEF AppCard, AppStatus, DeriveStatus
  <2>5. Shows \in Waiting => Loads
    BY <2>3, <2>4 DEF ApplicationsShows, Waiting
  <2>6. Shows \in Empties => view.errors # {} \/ Known
    BY <2>1, <2>2, <2>3, <2>4 DEF ApplicationsShows, Empties, Accounts, Known,
                                  ApplicationsUnconnected, ApplicationsFails
  <2> QED
    BY <2>1, <2>5, <2>6, PlainTold
<1> QED
  BY <1>1, <1>2, <1>3, <1>4, <1>5

(* The pages where there is something to select *)
LEMMA OverviewTells ==
  ASSUME OverviewOK(view, calls, overtaken)
  PROVE  Told(Shows)
<1>1. /\ view \in Shape("OverviewPage", Selections, {"load"},
                        [{"load"} -> Replies({"load"}, Selections) \cup {None}],
                        [hasCluster : Clusters, recent : Selections])
      /\ calls \in Seq(Replies({"load"}, Selections)) /\ Spun(view, calls)
      /\ Accounts(view) \/ view.more.hasCluster = "no"
  BY DEF OverviewOK
<1>2. /\ view.kind = "OverviewPage" /\ view.spins \subseteq {"load"} /\ view.errors \subseteq {"load"}
      /\ "load" \in DOMAIN view.got
  BY <1>1 DEF Shape
<1>3. Shows = OverviewShows
  BY <1>2, KindDraws DEF Draws
<1>4. OverviewBadge(Seen.ready, Seen.desired) \in {"healthy", "degraded"}
  BY DEF OverviewBadge
<1>5. Loads => Due("load") /\ calls # <<>>
  BY <1>1, UnderWay DEF Loads, Spun
<1>6. Shows \in Waiting => Loads
  BY <1>3, <1>4 DEF OverviewShows, Waiting, OverviewChecks
<1>7. Shows \in Empties => view.errors # {} \/ Known
  BY <1>1, <1>2, <1>3, <1>4 DEF OverviewShows, Empties, Accounts, Known, Welcomes, NotReachable,
                                OverviewFails, OverviewChecks, Loads
<1>8. view.spins \cup view.errors \subseteq ClusterRequests
  BY <1>2 DEF ClusterRequests
<1>9. \A r \in view.spins : r = "load" /\ Due("load")
  BY <1>2, <1>5 DEF Loads
<1> QED
  BY <1>2, <1>5, <1>6, <1>7, <1>8, <1>9 DEF Told

LEMMA ApplicationTells ==
  ASSUME ApplicationOK(view, calls, overtaken)
  PROVE  Told(Shows)
<1>1. view \in InApplication /\ calls \in Seq(OfApplication) /\ Spun(view, calls)
  BY ApplicationIs
<1>2. /\ view.kind = "ApplicationDetailPage" /\ view.spins \subseteq {"load", "logs"}
      /\ view.errors \subseteq {"load", "logs"} /\ "load" \in DOMAIN view.got
  BY <1>1 DEF InApplication, Shape, Logged
<1>3. Shows = ApplicationShows
  BY <1>2, KindDraws DEF Draws
<1>4. AppStatus(Seen) \in {"failing", "healthy", "degraded"}
  BY DEF AppStatus, DeriveStatus
<1>5. \A r \in view.spins : Due(r) /\ calls # <<>>
  BY <1>1, UnderWay DEF Spun
<1>6. Shows \in Waiting => view.spins # {}
  BY <1>3, <1>4 DEF ApplicationShows, LogsShow, Waiting, Loads
<1>7. Shows \in Empties => Known
  BY <1>3, <1>4 DEF ApplicationShows, ApplicationFails, LogsShow, Empties
<1>8. view.spins \cup view.errors \subseteq ClusterRequests
  BY <1>2 DEF ClusterRequests
<1> QED
  BY <1>2, <1>5, <1>6, <1>7, <1>8 DEF Told

LEMMA MonitoringTells ==
  ASSUME MonitoringOK(view, calls)
  PROVE  Told(Shows)
<1>1. /\ view \in InMonitoring /\ calls \in Seq(OfMonitoring) /\ Accounts(view)
      /\ view.spins # {} => Asked(calls, "load") \/ Asked(calls, "refresh")
  BY MonitoringIs
<1>2. /\ view.kind = "MonitoringPage" /\ view.spins \subseteq {"load", "refresh"}
      /\ view.errors \subseteq {"load", "refresh"} /\ "load" \in DOMAIN view.got
  BY <1>1 DEF InMonitoring, Shape, Charted
<1>3. Shows = MonitoringShows
  BY <1>2, KindDraws DEF Draws
<1>4. MonitoringCard(GroupPods(Seen)).health \in {"unknown", "down", "degraded", "healthy"}
  BY DEF MonitoringCard, GroupPods, MonitoringHealth
<1>5. view.spins # {} => (Due("load") \/ Due("refresh")) /\ calls # <<>>
  BY <1>1, UnderWay
<1>6. Shows \in Waiting => Loads
  BY <1>3, <1>4 DEF MonitoringShows, Waiting
<1>7. Shows \in Empties /\ view.errors = {} => Known \/ "refresh" \in view.spins
  BY <1>1, <1>2, <1>3, <1>4 DEF MonitoringShows, MonitoringIsUnset, Empties, Accounts, Known, Loads
<1>8. view.spins \cup view.errors \subseteq ClusterRequests
  BY <1>2 DEF ClusterRequests
<1> QED
  BY <1>2, <1>5, <1>6, <1>7, <1>8 DEF Told, Loads

LEMMA RegistryTells ==
  ASSUME RegistryOK(view, calls)
  PROVE  Told(Shows)
<1>1. view \in InRegistry /\ calls \in Seq(OfRegistry) /\ Spun(view, calls)
  BY RegistryIs
<1>2. /\ view.kind = "ClustersPage" /\ view.spins \subseteq {"clusters", "register"}
      /\ view.errors \subseteq {"clusters", "register"}
  BY <1>1 DEF InRegistry, Shape
<1>3. Shows = RegistryShows
  BY <1>2, KindDraws DEF Draws
<1>4. \A r \in view.spins : Due(r) /\ calls # <<>>
  BY <1>1, UnderWay DEF Spun
<1>5. Shows \in Waiting => view.spins # {}
  BY <1>3 DEF RegistryShows, Waiting
<1>6. Shows \notin Empties
  BY <1>3 DEF RegistryShows, Empties
<1>7. view.spins \cup view.errors \subseteq ClusterRequests
  BY <1>2 DEF ClusterRequests
<1>8. \A r \in view.spins : r \notin {"load", "refresh"}
  BY <1>2
<1> QED
  BY <1>4, <1>5, <1>6, <1>7, <1>8 DEF Told

(* The panes of imports *)
LEMMA ComposeTells ==
  ASSUME ComposeOK(view, calls)
  PROVE  Told(Shows)
<1>1. view \in InCompose /\ calls \in Seq(OfCompose) /\ Spun(view, calls) /\ ParsedIsSent(view, calls)
  BY ComposeIs
<1>2. /\ view.kind = "ComposeImport" /\ view.spins \subseteq {"parse"} /\ view.errors \subseteq {"parse"}
      /\ view.more.phase \in {"input", "parsing", "breakdown", "preview"}
  BY <1>1 DEF InCompose, Shape, Composed
<1>3. Shows = ComposeShows
  BY <1>2, KindDraws DEF Draws
<1>4. \A r \in view.spins : Due(r) /\ r \notin {"load", "refresh"}
  BY <1>1, <1>2, UnderWay DEF Spun
<1>5. Shows \in Waiting => view.more.phase = "parsing"
  BY <1>2, <1>3 DEF ComposeShows, TextIsShown, BreakdownIsShown, SourceIsShown, Waiting
<1>6. view.more.phase = "parsing" => calls # <<>>
  BY <1>1, UnderWay DEF ParsedIsSent
<1>7. Shows \notin Empties
  BY <1>2, <1>3 DEF ComposeShows, TextIsShown, BreakdownIsShown, SourceIsShown, Empties
<1>8. view.spins \cup view.errors \subseteq ImportRequests
  BY <1>2 DEF ImportRequests
<1> QED
  BY <1>4, <1>5, <1>6, <1>7, <1>8 DEF Told

LEMMA GitHubTells ==
  ASSUME GitHubOK(view, calls)
  PROVE  Told(Shows)
<1>1. view \in InGitHub /\ calls \in Seq(OfGitHub) /\ Spun(view, calls) /\ ScannedIsSent(view, calls)
  BY GitHubIs
<1>2. /\ view.kind = "GitHubImport" /\ view.spins \subseteq {"scan", "check"}
      /\ view.errors \subseteq {"scan", "check"}
  BY <1>1 DEF InGitHub, Shape
<1>3. Shows = GitHubShows
  BY <1>2, KindDraws DEF Draws
<1>4. \A r \in view.spins : Due(r) /\ r \notin {"load", "refresh"}
  BY <1>1, <1>2, UnderWay DEF Spun
<1>5. Shows \in Waiting => view.more.phase = "scanning"
  BY <1>3 DEF GitHubShows, ResultIsShown, Waiting
<1>6. view.more.phase = "scanning" => calls # <<>>
  BY <1>1, UnderWay DEF ScannedIsSent
<1>7. Shows \notin Empties
  BY <1>3 DEF GitHubShows, ResultIsShown, Empties
<1>8. view.spins \cup view.errors \subseteq ImportRequests
  BY <1>2 DEF ImportRequests
<1> QED
  BY <1>4, <1>5, <1>6, <1>7, <1>8 DEF Told

LEMMA CatalogTells ==
  ASSUME NEW kind \in {"TemplateCatalog", "RecipeCatalog"}, NEW sels, NEW mores, NEW o, NEW x,
         CatalogOK(view, calls, o, kind, sels, mores, x),
         x => kind = "RecipeCatalog" /\ view.more.retried
  PROVE  Told(Shows)
<1>1. /\ view \in InCatalog(kind, sels, mores) /\ calls \in Seq(Replies({"list"}, sels))
      /\ Spun(view, calls)
      /\ view.spins # {} \/ view.errors # {} \/ view.got["list"] # None \/ x
  BY DEF CatalogOK, ListIs
<1>2. view.kind = kind /\ view.spins \subseteq {"list"} /\ view.errors \subseteq {"list"}
  BY <1>1 DEF InCatalog, Shape
<1>3. Shows = CatalogShows
  BY <1>2, KindDraws DEF Draws
<1>4. \A r \in view.spins : Due(r) /\ r \notin {"load", "refresh"} /\ calls # <<>>
  BY <1>1, <1>2, UnderWay DEF Spun
<1>5. Shows \in Waiting => CatalogWaits
  BY <1>3 DEF CatalogShows, CatalogWaits, CatalogFails, CatalogIsEmpty, CardsAreShown, Waiting
<1>6. Shows \in Empties => CatalogIsEmpty
  BY <1>3 DEF CatalogShows, CatalogWaits, CatalogFails, CatalogIsEmpty, CardsAreShown, Empties
<1>7. view.spins \cup view.errors \subseteq ImportRequests
  BY <1>2 DEF ImportRequests
<1>8. CatalogIsEmpty => x
  BY <1>1, <1>2 DEF CatalogIsEmpty, CatalogWaits
<1>9. Shows \in Empties => view.kind = "RecipeCatalog" /\ view.more.retried
  BY <1>2, <1>6, <1>8
<1> QED
  BY <1>4, <1>5, <1>7, <1>9 DEF Told, CatalogWaits

LEMMA FrameworkTells ==
  ASSUME FrameworkOK(view, calls)
  PROVE  Told(Shows)
<1>1. view \in InFramework /\ calls \in Seq(OfFramework) /\ Spun(view, calls)
  BY FrameworkIs
<1>2. view.kind = "FrameworkWizard" /\ view.spins \subseteq {"generate"} /\ view.errors \subseteq {"generate"}
  BY <1>1 DEF InFramework, Shape
<1>3. Shows = FrameworkShows
  BY <1>2, KindDraws DEF Draws
<1>4. \A r \in view.spins : Due(r) /\ r \notin {"load", "refresh"} /\ calls # <<>>
  BY <1>1, <1>2, UnderWay DEF Spun
<1>5. Shows \in Waiting => Generating
  BY <1>3 DEF FrameworkShows, QuestionIsShown, PreviewIsShown, Waiting
<1>6. Shows \notin Empties
  BY <1>3 DEF FrameworkShows, QuestionIsShown, PreviewIsShown, Empties
<1>7. view.spins \cup view.errors \subseteq ImportRequests
  BY <1>2 DEF ImportRequests
<1> QED
  BY <1>4, <1>5, <1>6, <1>7 DEF Told, Generating

(* The pages of recipes *)
LEMMA BuilderTells ==
  ASSUME BuilderOK(view, calls)
  PROVE  Told(Shows)
<1>1. view \in InBuilder /\ calls \in Seq(OfBuilder) /\ Spun(view, calls)
  BY BuilderIs
<1>2. /\ view.kind = "RecipeBuilderPage" /\ view.spins \subseteq {"recipe", "save"}
      /\ view.errors \subseteq {"recipe", "save"}
  BY <1>1 DEF InBuilder, Shape
<1>3. Shows = BuilderShows
  BY <1>2, KindDraws DEF Draws
<1>4. \A r \in view.spins : Due(r) /\ r \notin {"load", "refresh"}
  BY <1>1, <1>2, UnderWay DEF Spun
<1>5. Shows \notin Waiting /\ Shows \notin Empties
  BY <1>3 DEF BuilderShows, Waiting, Empties
<1>6. view.spins \cup view.errors \subseteq RecipeRequests
  BY <1>2 DEF RecipeRequests
<1> QED
  BY <1>4, <1>5, <1>6 DEF Told

LEMMA WizardTells ==
  ASSUME WizardOK(view, calls)
  PROVE  Told(Shows)
<1>1. view \in InWizard
  BY WizardIs
<1>2. view.kind = "DeployWizard" /\ view.spins = {} /\ view.errors = {} /\ view.more \in Ordering
  BY <1>1 DEF InWizard, Shape
<1>3. view.more.status \in {"idle", "reviewing", "cooking", "served", "burned"}
  BY <1>2 DEF Ordering
<1>4. Shows = WizardShows
  BY <1>2, KindDraws DEF Draws
<1>5. Shows \in Waiting => ProgressIsShown
  BY <1>2, <1>4 DEF WizardShows, WizardIsShown, Waiting
<1>6. Shows \notin Empties
  BY <1>3, <1>4 DEF WizardShows, Empties
<1> QED
  BY <1>2, <1>5, <1>6 DEF Told, ProgressIsShown

LEMMA ElsewhereTells ==
  ASSUME ElsewhereOK(view, calls)
  PROVE  Told(Shows)
<1>1. view.kind = "elsewhere" /\ view.spins = {} /\ view.errors = {}
  BY DEF ElsewhereOK, Elsewhere, Mount
<1>2. Shows = "nothing"
  BY <1>1, KindDraws DEF Draws
<1> QED
  BY <1>1, <1>2 DEF Told, Waiting, Empties

LEMMA EveryViewTells ==
  ASSUME IInv
  PROVE  Told(Shows)
<1>1. ViewOK(view, calls, overtaken)
  BY DEF IInv
<1>2. TemplatesOK(view, calls, overtaken) => Told(Shows)
  <2>1. SUFFICES ASSUME TemplatesOK(view, calls, overtaken) PROVE Told(Shows)
    OBVIOUS
  <2>2. CatalogOK(view, calls, overtaken, "TemplateCatalog", Selections, [on : {TRUE}], FALSE)
    BY <2>1, TemplatesIs
  <2> QED
    BY <2>2, CatalogTells
<1>3. MarketplaceOK(view, calls, overtaken) => Told(Shows)
  <2>1. SUFFICES ASSUME MarketplaceOK(view, calls, overtaken) PROVE Told(Shows)
    OBVIOUS
  <2>2. CatalogOK(view, calls, overtaken, "RecipeCatalog", Selections \X Selections, Filtered,
                  view.more.retried)
    BY <2>1, MarketplaceIs
  <2> QED
    BY <2>2, CatalogTells
<1> QED
  BY <1>1, <1>2, <1>3, PlainViewsTell, OverviewTells, ApplicationTells, MonitoringTells,
     RegistryTells, ComposeTells, GitHubTells, FrameworkTells, BuilderTells, WizardTells,
     ElsewhereTells DEF ViewOK

LEMMA SelectionHolds == IInv => SelectionIsShown
<1> SUFFICES ASSUME IInv PROVE SelectionIsShown
  OBVIOUS
<1>1. SaysOf(view, calls, overtaken)
  BY KindSays
<1>2. \A r, a : Newest(calls, r, a) => Due(r)
  BY DEF Newest, Due
<1>3. \A r : Asked(calls, r) <=> Due(r)
  BY DEF Asked, Due
<1>4. view.kind = "ApplicationDetailPage" /\ view.more.tab = "logs" /\ view.sel # Nothing
        /\ ~Due("logs") /\ "logs" \notin view.errors /\ ~overtaken
      => view.got["logs"].arg = view.sel
  <2>1. SUFFICES ASSUME view.kind = "ApplicationDetailPage"
                 PROVE  view.more.tab = "logs" /\ view.sel # Nothing
                          /\ ~Due("logs") /\ "logs" \notin view.errors /\ ~overtaken
                        => view.got["logs"].arg = view.sel
    OBVIOUS
  <2>2. ApplicationOK(view, calls, overtaken)
    BY <1>1, <2>1 DEF SaysOf
  <2>3. LogIs(view, calls, overtaken)
    BY <2>2, ApplicationIs
  <2> QED
    BY <1>2, <2>3 DEF LogIs
<1>5. view.kind = "MonitoringPage" /\ ~Due("series") /\ ChartsAreShown
      => view.got["series"].arg = view.sel
  <2>1. SUFFICES ASSUME view.kind = "MonitoringPage", ~Due("series"), ChartsAreShown
                 PROVE  view.got["series"].arg = view.sel
    OBVIOUS
  <2>2. MonitoringOK(view, calls)
    BY <1>1, <2>1 DEF SaysOf
  <2>3. ChartsAre(view, calls)
    BY <2>2, MonitoringIs
  <2> QED
    BY <1>3, <2>1, <2>3 DEF ChartsAre, ChartsAreShown
<1>6. view.kind = "OverviewPage" /\ ~Due("load") /\ RecentsAreShown /\ view.errors = {}
        /\ ~overtaken
      => view.more.recent \in Recents(view.sel)
  <2>1. SUFFICES ASSUME view.kind = "OverviewPage", ~Due("load"), view.errors = {}, ~overtaken
                 PROVE  view.more.recent \in Recents(view.sel)
    OBVIOUS
  <2>2. OverviewOK(view, calls, overtaken)
    BY <1>1, <2>1 DEF SaysOf
  <2> QED
    BY <1>2, <2>1, <2>2 DEF OverviewOK
<1>7. view.kind \in {"TemplateCatalog", "RecipeCatalog"}
        /\ ~Due("list") /\ view.errors = {} /\ ~overtaken
      => \/ view.got["list"].arg = view.sel
         \/ view.kind = "RecipeCatalog" /\ view.more.retried
  <2>1. SUFFICES ASSUME view.kind \in {"TemplateCatalog", "RecipeCatalog"},
                        ~Due("list"), view.errors = {}, ~overtaken
                 PROVE  \/ view.got["list"].arg = view.sel
                        \/ view.kind = "RecipeCatalog" /\ view.more.retried
    OBVIOUS
  <2>2. CASE view.kind = "TemplateCatalog"
    <3>1. TemplatesOK(view, calls, overtaken)
      BY <1>1, <2>2 DEF SaysOf
    <3> QED
      BY <1>2, <2>1, <3>1 DEF TemplatesOK
  <2>3. CASE view.kind = "RecipeCatalog"
    <3>1. MarketplaceOK(view, calls, overtaken)
      BY <1>1, <2>3 DEF SaysOf
    <3> QED
      BY <1>2, <2>1, <2>3, <3>1 DEF MarketplaceOK
  <2> QED
    BY <2>1, <2>2, <2>3
<1> QED
  BY <1>4, <1>5, <1>6, <1>7 DEF SelectionIsShown

LEMMA ImportHolds == IInv => RecipeIsOfImport /\ PreviewIsOfAnswers
<1> SUFFICES ASSUME IInv PROVE RecipeIsOfImport /\ PreviewIsOfAnswers
  OBVIOUS
<1>1. SaysOf(view, calls, overtaken)
  BY KindSays
<1>2. view.kind = "ComposeImport" => ParsedIsSent(view, calls)
  BY <1>1, ComposeIs DEF SaysOf
<1>3. view.kind = "GitHubImport" => ScannedIsSent(view, calls)
  BY <1>1, GitHubIs DEF SaysOf
<1>4. view.kind = "FrameworkWizard" => (~view.more.hasty => NotHasty(view, calls))
  BY <1>1, FrameworkIs DEF SaysOf
<1>5. RecipeIsOfImport
  BY <1>2, <1>3 DEF RecipeIsOfImport, ParsedIsSent, ScannedIsSent
<1>6. PreviewIsOfAnswers
  BY <1>4 DEF PreviewIsOfAnswers, NotHasty
<1> QED
  BY <1>5, <1>6

(* Each connection of a canvas is a need of the source made of it. *)
LEMMA CanvasesConnect ==
  ASSUME NEW c \in Canvases
  PROVE  /\ c.links \subseteq c.blocks \X c.blocks
         /\ \A l \in c.links : l[2] \in SourceOf(c)[l[1]]
<1>1. c.links \subseteq c.blocks \X c.blocks
  BY DEF Canvases
<1>2. ASSUME NEW l \in c.links
      PROVE  l[2] \in SourceOf(c)[l[1]]
  <2>1. l[1] \in c.blocks /\ l[2] \in c.blocks /\ l = <<l[1], l[2]>>
    BY <1>1
  <2>2. l \in c.links \cap ({l[1]} \X c.blocks)
    BY <2>1
  <2> QED
    BY <2>1, <2>2 DEF SourceOf
<1> QED
  BY <1>1, <1>2

LEMMA StoreHolds == IInv => StoredIsShown
<1> SUFFICES ASSUME IInv PROVE StoredIsShown
  OBVIOUS
<1>1. SaysOf(view, calls, overtaken)
  BY KindSays
<1>2. ClustersAreListed
  <2>1. view.kind = "ClustersPage" => OneAtATime(view, calls)
    BY <1>1, RegistryIs DEF SaysOf
  <2> QED
    BY <2>1 DEF ClustersAreListed, OneAtATime
<1>3. view.kind = "RecipeBuilderPage" => view \in InBuilder /\ SaveIs(view, calls)
  BY <1>1, BuilderIs DEF SaysOf
<1>4. SavedIsStored
  BY <1>3 DEF SavedIsStored, SaveIs, Asked, Due
<1>5. ConnectionsExist
  <2>1. view.kind = "RecipeBuilderPage" => view.more.canvas \in Canvases /\ view.more.stored \in Canvases
    BY <1>3 DEF InBuilder, Shape, Drawn
  <2> QED
    BY <2>1, CanvasesConnect DEF ConnectionsExist
<1> QED
  BY <1>2, <1>4, <1>5 DEF StoredIsShown

LEMMA OrderHolds == IInv => OrderIsTrue
<1> SUFFICES ASSUME IInv, view.kind = "DeployWizard", ~view.more.doubled PROVE OrderIsTrue
  BY DEF OrderIsTrue
<1>1. WizardOK(view, calls)
  BY KindSays DEF SaysOf
<1>2. OneOrder(view, calls)
  BY <1>1, WizardIs
<1> QED
  BY <1>2 DEF OrderIsTrue, OneOrder, ReviewedOrder, Asked, Due

LEMMA TypeHolds == IInv => TypeOK
<1> SUFFICES ASSUME IInv PROVE TypeOK
  OBVIOUS
<1>1. SaysOf(view, calls, overtaken) /\ Bounds
  BY KindSays DEF IInv
<1>2. view.kind = "FrameworkWizard" => view.more.step \in 0..(Questions + MaxCalls)
  <2>1. SUFFICES ASSUME view.kind = "FrameworkWizard" PROVE view.more.step \in 0..(Questions + MaxCalls)
    OBVIOUS
  <2>2. FrameworkOK(view, calls)
    BY <1>1, <2>1 DEF SaysOf
  <2>3. view \in InFramework /\ calls \in Seq(OfFramework)
        /\ view.more.step + Len(calls) < Questions + MaxCalls
    BY <2>2, FrameworkIs
  <2>4. view.more.step \in Nat
    BY <2>3 DEF InFramework, Shape
  <2>5. Len(calls) \in Nat /\ Questions \in Nat /\ MaxCalls \in Nat
    BY <2>3, LenProperties, ViewsAssumption, QuestionsAssumption
  <2> QED
    BY <2>3, <2>4, <2>5
<1>3. view.kind = "DeployWizard" =>
          /\ view.more.status \in {"idle", "reviewing", "cooking", "served", "burned"}
          /\ view.more.order \in 0..Len(view.more.fates)
          /\ Len(view.more.fates) <= MaxOrders
  <2>1. SUFFICES ASSUME view.kind = "DeployWizard"
                 PROVE  /\ view.more.status \in {"idle", "reviewing", "cooking", "served", "burned"}
                        /\ view.more.order \in 0..Len(view.more.fates)
                        /\ Len(view.more.fates) <= MaxOrders
    OBVIOUS
  <2>2. WizardOK(view, calls)
    BY <1>1, <2>1 DEF SaysOf
  <2>3. view \in InWizard /\ calls \in Seq(OfWizard) /\ Afforded(view, calls)
    BY <2>2, WizardIs
  <2>4. view.more \in Ordering
    BY <2>3 DEF InWizard, Shape
  <2>5. /\ view.more.status \in {"idle", "reviewing", "cooking", "served", "burned"}
        /\ view.more.order \in Nat /\ view.more.fates \in Seq(Fates)
    BY <2>4 DEF Ordering
  <2>6. Len(view.more.fates) \in Nat
    BY <2>5, LenProperties
  <2>7. Cardinality(Counted(calls, "import")) \in Nat
    <3>1. DOMAIN calls = 1..Len(calls) /\ Len(calls) \in Nat
      BY <2>3, LenProperties
    <3>2. IsFiniteSet(DOMAIN calls)
      BY <3>1, FS_Interval
    <3>3. Counted(calls, "import") \subseteq DOMAIN calls
      BY DEF Counted
    <3> QED
      BY <3>2, <3>3, FS_Subset, FS_CardinalityType
  <2>8. /\ view.more.order <= Len(view.more.fates)
        /\ Len(view.more.fates) + Cardinality(Counted(calls, "import")) <= MaxOrders
        /\ MaxOrders \in Nat
    BY <2>3, MaxOrdersAssumption DEF Afforded
  <2>9. view.more.order \in 0..Len(view.more.fates) /\ Len(view.more.fates) <= MaxOrders
    BY <2>5, <2>6, <2>7, <2>8
  <2> QED
    BY <2>5, <2>9
<1>4. view.spins \cup view.errors \subseteq ClusterRequests \cup ImportRequests \cup RecipeRequests
  BY EveryViewTells DEF Told
<1> QED
  BY <1>1, <1>2, <1>3, <1>4 DEF TypeOK, Bounds

LEMMA PlaceholdersHold == IInv => PlaceholdersAreTrue
<1> SUFFICES ASSUME IInv PROVE PlaceholdersAreTrue
  OBVIOUS
<1>1. Told(Shows)
  BY EveryViewTells
<1>2. SpinnersAreTrue
  BY <1>1 DEF SpinnersAreTrue, Told
<1>3. EmptyIsTold
  BY <1>1 DEF EmptyIsTold, Told
<1> QED
  BY <1>2, <1>3, TypeHolds DEF PlaceholdersAreTrue

(* An app of which some copies are ready and some are not is healthy for none of
   the pages. *)
LEMMA HealthHolds == world \in Worlds => HealthAgrees
<1> SUFFICES ASSUME world \in Worlds, world.pods \in {0, world.desired}, world.running = world.ready
             PROVE  Cardinality({AppStatus(world) = "healthy",
                                 OverviewBadge(world.ready, world.desired) = "healthy",
                                 OverviewDot(world.ready, world.desired) = "success",
                                 EnvironmentBadge(world.running, world.pods) = "healthy",
                                 MonitoringCard(GroupPods(world)).health = "healthy"}) = 1
  BY DEF HealthAgrees
<1>1. \/ world.ready = 0 /\ world.running = 0 /\ world.pods = 0 /\ world.desired = 0
      \/ world.ready = 1 /\ world.running = 1 /\ world.pods = 2 /\ world.desired = 2
      \/ world.ready = 2 /\ world.running = 2 /\ world.pods = 2 /\ world.desired = 2
  BY DEF Worlds, Down, World
<1>2. CASE world.ready = 2 /\ world.running = 2 /\ world.pods = 2 /\ world.desired = 2
  <2>1. AppStatus(world) = "healthy"
    BY <1>2 DEF AppStatus, DeriveStatus, Copies
  <2>2. OverviewBadge(world.ready, world.desired) = "healthy"
        /\ OverviewDot(world.ready, world.desired) = "success"
    BY <1>2 DEF OverviewBadge, OverviewDot
  <2>3. EnvironmentBadge(world.running, world.pods) = "healthy"
    BY <1>2 DEF EnvironmentBadge
  <2>4. MonitoringCard(GroupPods(world)).health = "healthy"
    BY <1>2 DEF MonitoringCard, GroupPods, MonitoringHealth
  <2>5. {AppStatus(world) = "healthy",
         OverviewBadge(world.ready, world.desired) = "healthy",
         OverviewDot(world.ready, world.desired) = "success",
         EnvironmentBadge(world.running, world.pods) = "healthy",
         MonitoringCard(GroupPods(world)).health = "healthy"} = {TRUE}
    BY <2>1, <2>2, <2>3, <2>4
  <2> QED
    BY <2>5, FS_Singleton
<1>3. CASE \/ world.ready = 0 /\ world.running = 0 /\ world.pods = 0 /\ world.desired = 0
           \/ world.ready = 1 /\ world.running = 1 /\ world.pods = 2 /\ world.desired = 2
  <2>1. AppStatus(world) # "healthy"
    BY <1>3 DEF AppStatus, DeriveStatus, Copies
  <2>2. OverviewBadge(world.ready, world.desired) # "healthy"
        /\ OverviewDot(world.ready, world.desired) # "success"
    BY <1>3 DEF OverviewBadge, OverviewDot
  <2>3. EnvironmentBadge(world.running, world.pods) # "healthy"
    BY <1>3 DEF EnvironmentBadge
  <2>4. MonitoringCard(GroupPods(world)).health # "healthy"
    BY <1>3 DEF MonitoringCard, GroupPods, MonitoringHealth
  <2>5. {AppStatus(world) = "healthy",
         OverviewBadge(world.ready, world.desired) = "healthy",
         OverviewDot(world.ready, world.desired) = "success",
         EnvironmentBadge(world.running, world.pods) = "healthy",
         MonitoringCard(GroupPods(world)).health = "healthy"} = {FALSE}
    BY <2>1, <2>2, <2>3, <2>4
  <2> QED
    BY <2>5, FS_Singleton
<1> QED
  BY <1>1, <1>2, <1>3

-----------------------------------------------------------------------------

(* Whatever view is mounted, and in whatever order its requests are answered or
   lost: a spinner, a skeleton or a banner that says to wait has a request under
   way behind it, and a text that says that there is nothing has an answer behind
   it. *)
THEOREM PlaceholdersTrue == Spec => []PlaceholdersAreTrue
BY Invariance, PlaceholdersHold, PTL

(* The log, the charts, the deployments and the recipes that are shown are those
   of what is selected, and the recipe of an import is that of what was sent,
   however the selection and the text were changed while the answer was to come. *)
THEOREM ShownAsked == Spec => []ShownIsAsked
<1>1. IInv => ShownIsAsked
  BY SelectionHolds, ImportHolds DEF ShownIsAsked
<1> QED
  BY <1>1, Invariance, PTL

(* The clusters that are listed are those that are registered, a save that was
   answered is stored, and no connection of a canvas is to a block that is gone:
   however many blocks there are, and clusters. *)
THEOREM StoredShown == Spec => []StoredIsShown
BY Invariance, StoreHolds, PTL

(* An order that was not placed twice is served only when its deployment has
   succeeded, is reviewed as it will be deployed, and cooks only while there is,
   or will be, a deployment: for any number of orders one wizard places. *)
THEOREM OrderTrue == Spec => []OrderIsTrue
BY Invariance, OrderHolds, PTL

(* The pages agree on the health of an app, of every state of it that is modelled. *)
THEOREM HealthAgreed == Spec => []HealthAgrees
<1>1. IInv => HealthAgrees
  BY HealthHolds DEF IInv, Bounds
<1> QED
  BY <1>1, Invariance, PTL
=============================================================================
