---------------------------- MODULE ConsoleProofs ----------------------------
(***************************************************************************)
(* Who is signed in, which team is active and what is listed of it, proved *)
(* for any number of teams, of rows, of requests under way and of faults.  *)
(*                                                                         *)
(* The properties speak of the moments at which nothing of a kind is under *)
(* way.  The invariant says what is true while something is: it is a       *)
(* conjunction of formulas about the requests cs that are under way, and   *)
(* the lemmas say how each of them takes a request that is made, the       *)
(* requests that are left when some are gone, and one that is answered.    *)
(***************************************************************************)
EXTENDS Console, SequenceTheorems, FiniteSetTheorems, WellFoundedInduction, TLAPS

(* Requests *)
IsAuth(c)   == c.by = "auth"
IsFrames(c) == c.by \in {"frame", "list"}
Works(c)    == c.by \in {"list", "nobody"} \/ c.of \in {"recipe", "unteam"}
Bare(c)     == c.by = "frame" /\ c.bare
IsNew(c)    == c.of = "team" /\ c.answer = "none"

OneTeam(items) == \E t \in Keys : items = {t}

(* Who asks for what, of what, and what is answered. *)
WellMade(c) ==
    /\ c.by = "auth"   <=> c.of \in {"me", "refresh", "profile", "login", "register", "logout"}
    /\ c.by = "frame"  => c.of \in {"teams", "team", "unteam", "recipe"}
    /\ c.by = "list"   => c.of \in {"load", "add", "remove"}
    /\ c.by = "nobody" => c.of \notin {"load", "teams"}
    /\ c.of \in {"unteam", "load", "add", "remove", "recipe"} => c.key \in Keys
    /\ c.of = "teams" => c.items \subseteq Keys
    /\ c.of = "team" /\ c.answer = "ok" => OneTeam(c.items)
    /\ c.of = "load" => c.items \subseteq Rows

Made(cs) == cs \in Seq(Requests) /\ \A k \in DOMAIN cs : WellMade(cs[k])

(* What a part of the dashboard has asked is asked while the dashboard is mounted. *)
Mounted(cs) == InDashboard \/ \A k \in DOMAIN cs : ~IsFrames(cs[k])

(* The only request about the user, c, will say what the server knows. *)
Tells(c, u, there) ==
    IF c.answer = "none" THEN c.of = "me" \/ u = there ELSE UserAfter(c, u) = there

Agrees(cs, u, starts, there, races) ==
    /\ starts => \E k \in DOMAIN cs : cs[k].of = "me"
    /\ ~races =>
          /\ \A j, k \in DOMAIN cs : IsAuth(cs[j]) /\ IsAuth(cs[k]) => j = k
          /\ \A k \in DOMAIN cs : IsAuth(cs[k]) => Tells(cs[k], u, there)
          /\ (\A k \in DOMAIN cs : ~IsAuth(cs[k])) => u = there

Session(cs) == Agrees(cs, user, starting, session, raced)

(* The only request that changes a list, or what it is of. *)
Fits(c) ==
    /\ c.by # "nobody" /\ c.key = active
    /\ c.of = "load" /\ c.answer = "ok" => c.items = rows[active]
    /\ c.of \in {"add", "remove"} => list.of = active
    /\ c.of = "remove" /\ c.answer = "none" => c.base = rows[active]
    /\ c.of = "remove" /\ c.answer = "ok" => c.base \ c.row = rows[active]

Listed == page \in TeamPages /\ active # NoTeam

Listing(cs) ==
    Listed /\ ~mixed =>
        /\ \A j, k \in DOMAIN cs : Works(cs[j]) /\ Works(cs[k]) => j = k
        /\ \A k \in DOMAIN cs : Works(cs[k]) => Fits(cs[k])
        /\ (\A k \in DOMAIN cs : ~Works(cs[k])) => list.of = active /\ list.items = rows[active]

(* Whatever list of teams may still put its first one in its place has no other. *)
Kept(cs, choice, there) ==
    choice # NoTeam =>
        \A k \in DOMAIN cs : Bare(cs[k]) =>
            /\ cs[k].of = "teams" /\ cs[k].items \subseteq {choice}
            /\ cs[k].answer = "none" => /\ there \subseteq {choice}
                                        /\ \A j \in DOMAIN cs : ~IsNew(cs[j])

Choice(cs) == ChoiceIsKept /\ Kept(cs, chosen, teams)

(* Only what waits to load a list goes beyond the bound. *)
Slight(c) == c.by = "list" /\ c.of = "load"
Heavy(cs) == {k \in DOMAIN cs : ~Slight(cs[k])}
Limited(cs) == Cardinality(Heavy(cs)) <= MaxCalls /\ Len(cs) <= MaxCalls + 1

IInv ==
    /\ TypeOK /\ Made(calls) /\ Mounted(calls) /\ Limited(calls)
    /\ Session(calls) /\ Listing(calls) /\ Choice(calls)

-----------------------------------------------------------------------------
(* Sequences *)

(* A set of numbers of which none is above n has a greatest one. *)
LEMMA GreatestExists ==
    ASSUME NEW n \in Nat, NEW S, S \subseteq Nat, S # {}, \A x \in S : x <= n
    PROVE  \E m \in S : \A x \in S : x <= m
<1> DEFINE Gaps == {n - x : x \in S}
<1>1. Gaps \subseteq Nat /\ Gaps # {}
  <2>1. \A x \in S : x \in Nat /\ n - x \in Nat
    OBVIOUS
  <2>2. PICK s \in S : TRUE
    OBVIOUS
  <2> QED
    BY <2>1, <2>2
<1>2. PICK g \in Gaps : \A h \in Gaps : ~(<<h, g>> \in OpToRel(<, Nat))
  BY <1>1, WFMin, NatLessThanWellFounded, Zenon
<1>3. \A h \in Gaps : ~(h < g)
  BY <1>1, <1>2 DEF OpToRel
<1>4. PICK m \in S : g = n - m
  OBVIOUS
<1>5. \A x \in S : ~(n - x < n - m)
  BY <1>3, <1>4
<1> QED
  BY <1>4, <1>5

(* Whatever is true of 0 and of the next number is true up to n. *)
LEMMA Climb ==
    ASSUME NEW n \in Nat, NEW S, 0 \in S,
           \A m \in 0..n : m \in S /\ m < n => m + 1 \in S
    PROVE  n \in S
<1> DEFINE T == S \cap (0..n)
<1>1. PICK m \in T : \A x \in T : x <= m
  <2>1. T \subseteq Nat /\ T # {} /\ \A x \in T : x <= n
    OBVIOUS
  <2> QED
    BY <2>1, GreatestExists
<1>2. ~(m < n)
  <2> SUFFICES ASSUME m < n PROVE FALSE
    OBVIOUS
  <2>1. m + 1 \in T
    OBVIOUS
  <2> QED
    BY <2>1, <1>1
<1> QED
  BY <1>2

LEMMA Places ==
    ASSUME NEW S, NEW s \in Seq(S)
    PROVE  DOMAIN s = 1..Len(s) /\ Len(s) \in Nat /\ \A k \in DOMAIN s : s[k] \in S
<1>1. DOMAIN s = 1..Len(s) /\ Len(s) \in Nat
  BY LenProperties
<1> QED
  BY <1>1, ElementOfSeq

LEMMA Appended ==
    ASSUME NEW S, NEW s \in Seq(S), NEW c \in S, NEW t, t = Append(s, c)
    PROVE  /\ t \in Seq(S) /\ Len(t) = Len(s) + 1 /\ Len(s) \in Nat
           /\ DOMAIN t = DOMAIN s \cup {Len(s) + 1} /\ Len(s) + 1 \notin DOMAIN s
           /\ \A k \in DOMAIN s : t[k] = s[k]
           /\ t[Len(s) + 1] = c
<1>1. DOMAIN s = 1..Len(s) /\ Len(s) \in Nat
  BY LenProperties
<1>2. /\ t \in Seq(S) /\ Len(t) = Len(s) + 1
      /\ \A k \in 1..Len(s) : t[k] = s[k]
      /\ t[Len(s) + 1] = c
  BY AppendProperties
<1>3. DOMAIN t = 1..(Len(s) + 1)
  BY <1>2, LenProperties
<1> QED
  BY <1>1, <1>2, <1>3

LEMMA Replaced ==
    ASSUME NEW S, NEW s \in Seq(S), NEW i \in DOMAIN s, NEW c \in S, NEW t, t = [s EXCEPT ![i] = c]
    PROVE  /\ t \in Seq(S) /\ Len(t) = Len(s) /\ DOMAIN t = DOMAIN s
           /\ \A k \in DOMAIN s : t[k] = IF k = i THEN c ELSE s[k]
<1>1. DOMAIN s = 1..Len(s)
  BY LenProperties
<1> QED
  BY <1>1, ExceptSeq, LenProperties

(* t is s without its place i. *)
IsCut(s, i, t) ==
    /\ Len(t) = Len(s) - 1
    /\ DOMAIN t = 1..(Len(s) - 1)
    /\ \A j \in 1..(Len(s) - 1) : t[j] = IF j < i THEN s[j] ELSE s[j + 1]

LEMMA Cut ==
    ASSUME NEW S, NEW s \in Seq(S), NEW i \in DOMAIN s, NEW t, t = RemoveAt(s, i)
    PROVE  t \in Seq(S) /\ IsCut(s, i, t)
<1>1. Len(s) \in Nat /\ i \in 1..Len(s) /\ \A k \in 1..Len(s) : s[k] \in S
  BY Places
<1> DEFINE before == SubSeq(s, 1, i - 1)
           after  == SubSeq(s, i + 1, Len(s))
<1>2. /\ before \in Seq(S) /\ Len(before) = i - 1
      /\ \A k \in 1..(i - 1) : before[k] = s[k]
  <2>1. 1 \in Int /\ i - 1 \in Int /\ \A k \in 1..(i - 1) : s[k] \in S
    BY <1>1
  <2>2. /\ before \in Seq(S)
        /\ Len(before) = IF 1 <= i - 1 THEN i - 1 - 1 + 1 ELSE 0
        /\ \A k \in 1..(i - 1 - 1 + 1) : before[k] = s[1 + k - 1]
    BY <2>1, SubSeqProperties
  <2> QED
    BY <1>1, <2>2
<1>3. /\ after \in Seq(S) /\ Len(after) = Len(s) - i
      /\ \A k \in 1..(Len(s) - i) : after[k] = s[i + k]
  <2>1. i + 1 \in Int /\ Len(s) \in Int /\ \A k \in (i + 1)..Len(s) : s[k] \in S
    BY <1>1
  <2>2. /\ after \in Seq(S)
        /\ Len(after) = IF i + 1 <= Len(s) THEN Len(s) - (i + 1) + 1 ELSE 0
        /\ \A k \in 1..(Len(s) - (i + 1) + 1) : after[k] = s[(i + 1) + k - 1]
    BY <2>1, SubSeqProperties
  <2> QED
    BY <1>1, <2>2
<1>4. t = before \o after
  BY DEF RemoveAt
<1> HIDE DEF before, after
<1>5. /\ before \o after \in Seq(S) /\ Len(before \o after) = Len(before) + Len(after)
      /\ \A j \in 1..(Len(before) + Len(after)) :
            (before \o after)[j] = IF j <= Len(before) THEN before[j] ELSE after[j - Len(before)]
  <2>1. before \in Seq(S) /\ after \in Seq(S)
    BY <1>2, <1>3
  <2> QED
    BY <2>1, ConcatProperties
<1>6. t \in Seq(S) /\ Len(t) = Len(s) - 1
  BY <1>1, <1>2, <1>3, <1>4, <1>5
<1>7. ASSUME NEW j \in 1..(Len(s) - 1) PROVE t[j] = IF j < i THEN s[j] ELSE s[j + 1]
  <2>1. j \in 1..(Len(before) + Len(after))
    BY <1>1, <1>2, <1>3
  <2>2. CASE j < i
    <3>1. j <= Len(before) /\ j \in 1..(i - 1)
      BY <1>1, <1>2, <2>2
    <3> QED
      BY <1>2, <1>4, <1>5, <2>1, <2>2, <3>1
  <2>3. CASE ~(j < i)
    <3>1. /\ ~(j <= Len(before)) /\ j - Len(before) \in 1..(Len(s) - i)
          /\ i + (j - Len(before)) = j + 1
      BY <1>1, <1>2, <2>3
    <3> QED
      BY <1>3, <1>4, <1>5, <2>1, <2>3, <3>1
  <2> QED
    BY <2>2, <2>3
<1>8. DOMAIN t = 1..(Len(s) - 1)
  BY <1>6, LenProperties
<1> QED
  BY <1>6, <1>7, <1>8 DEF IsCut

-----------------------------------------------------------------------------
(* The requests that are left *)

(* The requests t are those of s at the places K, each once, without the handlers
   of the parts p. *)
Leaves(s, K, p, t) ==
    \E f \in [DOMAIN t -> K] :
        /\ \A j \in DOMAIN t : t[j] = Orphan(s[f[j]], p)
        /\ \A j, k \in DOMAIN t : f[j] = f[k] => j = k
        /\ \A k \in K : \E j \in DOMAIN t : f[j] = k

(* A request has come back. *)
LEMMA Returns ==
    ASSUME NEW s \in Seq(Requests), NEW i \in DOMAIN s, NEW t, t = RemoveAt(s, i)
    PROVE  /\ t \in Seq(Requests) /\ Len(t) = Len(s) - 1
           /\ Leaves(s, DOMAIN s \ {i}, {}, t)
<1>1. Len(s) \in Nat /\ DOMAIN s = 1..Len(s) /\ i \in 1..Len(s)
  BY Places
<1>2. /\ t \in Seq(Requests) /\ Len(t) = Len(s) - 1
      /\ DOMAIN t = 1..(Len(s) - 1)
      /\ \A j \in 1..(Len(s) - 1) : t[j] = IF j < i THEN s[j] ELSE s[j + 1]
  <2>1. s \in Seq(Requests) /\ i \in DOMAIN s /\ t = RemoveAt(s, i)
    OBVIOUS
  <2>2. t \in Seq(Requests) /\ IsCut(s, i, t)
    BY <2>1, Cut, Zenon
  <2> QED
    BY <2>2 DEF IsCut
<1> DEFINE f == [j \in DOMAIN t |-> IF j < i THEN j ELSE j + 1]
<1>3. f \in [DOMAIN t -> DOMAIN s \ {i}]
  <2> SUFFICES ASSUME NEW j \in DOMAIN t PROVE (IF j < i THEN j ELSE j + 1) \in DOMAIN s \ {i}
    OBVIOUS
  <2> QED
    BY <1>1, <1>2
<1>4. \A j \in DOMAIN t : t[j] = s[f[j]]
  BY <1>1, <1>2
<1>5. \A j, k \in DOMAIN t : f[j] = f[k] => j = k
  BY <1>1, <1>2
<1>6. ASSUME NEW k \in DOMAIN s \ {i} PROVE \E j \in DOMAIN t : f[j] = k
  <2>1. CASE k < i
    <3>1. k \in DOMAIN t /\ f[k] = k
      BY <1>1, <1>2, <2>1
    <3> QED
      BY <3>1
  <2>2. CASE ~(k < i)
    <3>1. k - 1 \in DOMAIN t /\ ~(k - 1 < i) /\ k - 1 + 1 = k
      BY <1>1, <1>2, <2>2
    <3> QED
      BY <3>1
  <2> QED
    BY <2>1, <2>2
<1> HIDE DEF f
<1>7. \A j \in DOMAIN t : t[j] = Orphan(s[f[j]], {})
  BY <1>4 DEF Orphan
<1> QED
  BY <1>2, <1>3, <1>5, <1>6, <1>7 DEF Leaves

LEMMA OrphanIsRequest ==
    ASSUME NEW c \in Requests, NEW p
    PROVE  Orphan(c, p) \in Requests
<1> DEFINE d == Call(c.of, "nobody", c.key, c.row, {}, FALSE)
<1>1. c.of \in {"me", "refresh", "profile", "login", "register", "logout", "teams", "team", "unteam",
                "load", "add", "remove", "recipe"}
  BY DEF Requests
<1>2. c.key \in 0..MaxTeams /\ c.row \in SUBSET Rows
  BY DEF Requests
<1>3. {} \in (SUBSET Keys) \cup (SUBSET Rows) /\ {} \in SUBSET Rows
  OBVIOUS
<1> HIDE DEF Keys
<1>4. d \in Requests
  BY <1>1, <1>2, <1>3 DEF Call, Requests
<1> QED
  BY <1>4 DEF Orphan

(* The handlers of some parts are gone. *)
LEMMA GoneLeaves ==
    ASSUME NEW s \in Seq(Requests), NEW p, NEW t, t = Gone(s, p)
    PROVE  /\ t \in Seq(Requests)
           /\ Leaves(s, {k \in DOMAIN s : Matters(s[k], p)}, p, t)
<1> DEFINE n == Len(s)
           Next1(l, m) == IF Matters(s[m], p) THEN Append(l, Orphan(s[m], p)) ELSE l
           Rec(g, m) == IF m = 0 THEN <<>> ELSE Next1(g[m - 1], m)
           Up(g, m) == \A k \in 0..m : g[k] = Rec(g, k)
           left == CHOOSE g : g = [m \in 0..n |-> Rec(g, m)]
<1>0. n \in Nat /\ DOMAIN s = 1..n /\ \A k \in 1..n : s[k] \in Requests
  BY Places
<1>1. t = left[n]
  BY DEF Gone
<1>2. left = [m \in 0..n |-> Rec(left, m)]
  <2> DEFINE Good == {m \in 0..n : \E g : g = [k \in 0..m |-> Rec(g, k)]}
  <2>1. 0 \in Good
    <3> DEFINE g0 == [k \in 0..0 |-> <<>>]
    <3>0. \A k \in 0..0 : k = 0
      OBVIOUS
    <3>1. g0 = [k \in 0..0 |-> Rec(g0, k)]
      <4>1. \A k \in 0..0 : Rec(g0, k) = <<>>
        BY <3>0
      <4> HIDE DEF Rec
      <4> QED
        BY <4>1
    <3>2. 0 \in 0..n
      BY <1>0
    <3> HIDE DEF Rec, g0
    <3> QED
      BY <3>1, <3>2
  <2>2. ASSUME NEW m \in 0..n, m \in Good, m < n PROVE m + 1 \in Good
    <3>1. PICK g : g = [k \in 0..m |-> Rec(g, k)]
      BY <2>2
    <3> DEFINE h == [k \in 0..(m + 1) |-> IF k = m + 1 THEN Next1(g[m], m + 1) ELSE g[k]]
    <3>2. m \in Nat /\ m + 1 \in 0..n
      BY <2>2, <1>0
    <3>3. ASSUME NEW k \in 0..(m + 1) PROVE h[k] = Rec(h, k)
      <4>1. CASE k = m + 1
        <5>1. h[m] = g[m] /\ k - 1 = m /\ k # 0
          BY <3>2, <4>1
        <5> QED
          BY <4>1, <5>1, <3>2
      <4>2. CASE k # m + 1
        <5>0. k \in 0..m /\ h[k] = g[k]
          BY <3>2, <4>2
        <5>1. k \in 0..m /\ h[k] = g[k] /\ g[k] = Rec(g, k)
          <6>1. g[k] = Rec(g, k)
            <7> HIDE DEF Rec, h
            <7> QED
              BY <3>1, <5>0
          <6> QED
            BY <5>0, <6>1
        <5>2. k # 0 => h[k - 1] = g[k - 1]
          BY <3>2, <4>2
        <5> QED
          BY <5>1, <5>2
      <4> QED
        BY <4>1, <4>2
    <3>4. h = [k \in 0..(m + 1) |-> Rec(h, k)]
      <4>1. h = [k \in 0..(m + 1) |-> h[k]]
        OBVIOUS
      <4> HIDE DEF h, Rec
      <4> QED
        BY <4>1, <3>3
    <3> QED
      BY <3>2, <3>4
  <2>3. n \in Good
    <3> HIDE DEF Good
    <3> QED
      BY <1>0, <2>1, <2>2, Climb
  <2>4. \E g : g = [m \in 0..n |-> Rec(g, m)]
    BY <2>3
  <2> HIDE DEF Rec
  <2> QED
    BY <2>4
<1> HIDE DEF left
<1> DEFINE Keeps(m) == {k \in 1..m : Matters(s[k], p)}
           Shown == {m \in 0..n : left[m] \in Seq(Requests) /\ Leaves(s, Keeps(m), p, left[m])}
<1>3. 0 \in Shown
  <2>0. 0 \in 0..n
    BY <1>0
  <2>1. left[0] = <<>>
    <3>1. left[0] = Rec(left, 0)
      BY <2>0, <1>2
    <3> QED
      BY <3>1
  <2>4. Keeps(0) = {}
    OBVIOUS
  <2>2. <<>> \in Seq(Requests) /\ DOMAIN <<>> = {}
    BY EmptySeq, LenProperties
  <2>3. Leaves(s, {}, p, <<>>)
    <3> DEFINE g == [j \in DOMAIN <<>> |-> 0]
    <3>1. g \in [DOMAIN <<>> -> {}]
      BY <2>2
    <3> HIDE DEF g
    <3> QED
      BY <2>2, <3>1 DEF Leaves
  <2> QED
    BY <2>0, <2>1, <2>2, <2>3, <2>4
<1>4. ASSUME NEW m \in 0..n, m \in Shown, m < n PROVE m + 1 \in Shown
  <2> DEFINE l == left[m]
  <2>1. /\ m \in Nat /\ m + 1 \in 0..n /\ m + 1 \in 1..n
        /\ left[m + 1] = Next1(l, m + 1)
    <3>1. m \in Nat /\ m + 1 \in 0..n /\ m + 1 # 0 /\ m + 1 - 1 = m /\ m + 1 \in 1..n
      BY <1>0, <1>4
    <3>2. left[m + 1] = Rec(left, m + 1)
      BY <3>1, <1>2
    <3> QED
      BY <3>1, <3>2
  <2>2. l \in Seq(Requests) /\ Leaves(s, Keeps(m), p, l)
    BY <1>4
  <2> HIDE DEF l
  <2>3. CASE ~Matters(s[m + 1], p)
    <3>1. left[m + 1] = l
      BY <2>1, <2>3
    <3>2. Keeps(m + 1) = Keeps(m)
      BY <2>1, <2>3
    <3> HIDE DEF Keeps
    <3> QED
      BY <2>1, <2>2, <3>1, <3>2
  <2>4. CASE Matters(s[m + 1], p)
    <3> DEFINE c == Orphan(s[m + 1], p)
               t1 == left[m + 1]
               e == Len(l) + 1
    <3>1. c \in Requests /\ t1 = Append(l, c)
      BY <2>1, <2>4, <1>0, OrphanIsRequest
    <3>2. /\ t1 \in Seq(Requests) /\ DOMAIN t1 = DOMAIN l \cup {e} /\ e \notin DOMAIN l
          /\ \A k \in DOMAIN l : t1[k] = l[k]
          /\ t1[e] = c
      BY <2>2, <3>1, Appended
    <3>3. Keeps(m + 1) = Keeps(m) \cup {m + 1} /\ m + 1 \notin Keeps(m)
      BY <2>1, <2>4
    <3> HIDE DEF c, t1, e, Keeps
    <3>4. PICK f \in [DOMAIN l -> Keeps(m)] :
              /\ \A j \in DOMAIN l : l[j] = Orphan(s[f[j]], p)
              /\ \A j, k \in DOMAIN l : f[j] = f[k] => j = k
              /\ \A k \in Keeps(m) : \E j \in DOMAIN l : f[j] = k
      BY <2>2 DEF Leaves
    <3> DEFINE g == [j \in DOMAIN t1 |-> IF j = e THEN m + 1 ELSE f[j]]
    <3>5. g \in [DOMAIN t1 -> Keeps(m + 1)]
      BY <3>2, <3>3, <3>4
    <3>6. \A j \in DOMAIN t1 : t1[j] = Orphan(s[g[j]], p)
      BY <3>2, <3>4 DEF c
    <3>7. \A j, k \in DOMAIN t1 : g[j] = g[k] => j = k
      BY <3>2, <3>3, <3>4
    <3>8. \A k \in Keeps(m + 1) : \E j \in DOMAIN t1 : g[j] = k
      BY <3>2, <3>3, <3>4
    <3> HIDE DEF g
    <3>9. Leaves(s, Keeps(m + 1), p, t1)
      BY <3>5, <3>6, <3>7, <3>8 DEF Leaves
    <3> QED
      BY <2>1, <3>2, <3>9 DEF t1
  <2> QED
    BY <2>3, <2>4
<1>5. n \in Shown
  <2> HIDE DEF Shown
  <2> QED
    BY <1>0, <1>3, <1>4, Climb
<1> QED
  BY <1>0, <1>1, <1>5

-----------------------------------------------------------------------------
(* What a request is, whatever has been asked *)

LEMMA AuthCallParts ==
    ASSUME NEW r \in {"me", "refresh", "profile", "login", "register", "logout"}
    PROVE  LET c == AuthCall(r) IN
           /\ c \in Requests /\ c.by = "auth" /\ c.of = r /\ c.answer = "none"
           /\ WellMade(c) /\ IsAuth(c) /\ ~IsFrames(c) /\ ~Works(c) /\ ~Bare(c) /\ ~IsNew(c)
<1> DEFINE c == AuthCall(r)
<1>1. c \in Requests
  <2>1. NoTeam \in 0..MaxTeams /\ {} \in SUBSET Rows /\ FALSE \in BOOLEAN
    BY ConsoleAssumption DEF NoTeam
  <2>2. {} \in (SUBSET Keys) \cup (SUBSET Rows)
    OBVIOUS
  <2> HIDE DEF Keys, NoTeam
  <2> QED
    BY <2>1, <2>2 DEF AuthCall, Call, Requests
<1>2. c.by = "auth" /\ c.of = r /\ c.answer = "none"
  BY DEF AuthCall, Call
<1> HIDE DEF c
<1>3. WellMade(c) /\ IsAuth(c) /\ ~IsFrames(c) /\ ~Works(c) /\ ~Bare(c) /\ ~IsNew(c)
  BY <1>2 DEF WellMade, IsAuth, IsFrames, Works, Bare, IsNew
<1> QED
  BY <1>1, <1>2, <1>3 DEF c

LEMMA TeamsCallParts ==
    ASSUME NEW bare \in BOOLEAN
    PROVE  LET c == TeamsCall(bare) IN
           /\ c \in Requests /\ c.by = "frame" /\ c.of = "teams" /\ c.bare = bare
           /\ c.answer = "none" /\ c.items = {}
           /\ WellMade(c) /\ ~IsAuth(c) /\ ~Works(c) /\ ~IsNew(c)
<1> DEFINE c == TeamsCall(bare)
<1>1. c \in Requests
  <2>1. NoTeam \in 0..MaxTeams /\ {} \in SUBSET Rows
    BY ConsoleAssumption DEF NoTeam
  <2>2. {} \in (SUBSET Keys) \cup (SUBSET Rows)
    OBVIOUS
  <2> HIDE DEF Keys, NoTeam
  <2> QED
    BY <2>1, <2>2 DEF TeamsCall, Call, Requests
<1>2. c.by = "frame" /\ c.of = "teams" /\ c.bare = bare /\ c.answer = "none" /\ c.items = {}
  BY DEF TeamsCall, Call
<1> HIDE DEF c
<1>3. WellMade(c) /\ ~IsAuth(c) /\ ~Works(c) /\ ~IsNew(c)
  BY <1>2 DEF WellMade, IsAuth, Works, IsNew
<1> QED
  BY <1>1, <1>2, <1>3 DEF c

LEMMA LoadCallParts ==
    ASSUME NEW a \in Keys
    PROVE  LET c == LoadCall(a) IN
           /\ c \in Requests /\ c.by = "list" /\ c.of = "load" /\ c.key = a /\ c.answer = "none"
           /\ WellMade(c) /\ ~IsAuth(c) /\ Works(c) /\ Slight(c) /\ ~Bare(c) /\ ~IsNew(c)
<1> DEFINE c == LoadCall(a)
<1>1. c \in Requests
  <2>1. a \in 0..MaxTeams /\ {} \in SUBSET Rows /\ FALSE \in BOOLEAN
    BY ConsoleAssumption DEF Keys
  <2>2. {} \in (SUBSET Keys) \cup (SUBSET Rows)
    OBVIOUS
  <2> HIDE DEF Keys, NoTeam
  <2> QED
    BY <2>1, <2>2 DEF LoadCall, Call, Requests
<1>2. c.by = "list" /\ c.of = "load" /\ c.key = a /\ c.answer = "none" /\ c.items = {}
  BY DEF LoadCall, Call
<1> HIDE DEF c
<1>3. WellMade(c) /\ ~IsAuth(c) /\ Works(c) /\ Slight(c) /\ ~Bare(c) /\ ~IsNew(c)
  BY <1>2 DEF WellMade, IsAuth, Works, Slight, Bare, IsNew
<1> QED
  BY <1>1, <1>2, <1>3 DEF c

LEMMA RequestParts ==
    ASSUME NEW c \in Requests
    PROVE  /\ c.of \in {"me", "refresh", "profile", "login", "register", "logout", "teams", "team",
                        "unteam", "load", "add", "remove", "recipe"}
           /\ c.by \in {"auth", "frame", "list", "nobody"}
           /\ c.key \in 0..MaxTeams /\ c.row \in SUBSET Rows /\ c.base \in SUBSET Rows
           /\ c.bare \in BOOLEAN /\ c.answer \in {"none", "ok", "refused"}
<1> HIDE DEF Keys
<1> QED
  BY DEF Requests

(* Without its handler a request that matters is still what it was about. *)
LEMMA OrphanIsLike ==
    ASSUME NEW c \in Requests, WellMade(c), NEW p \in SUBSET {"frame", "list"}, Matters(c, p)
    PROVE  LET d == Orphan(c, p) IN
           /\ WellMade(d) /\ d.of = c.of /\ (d.by = c.by \/ (c.by \in p /\ d.by = "nobody"))
           /\ c.by \in p => d.by = "nobody"
           /\ c.by \notin p => d = c
           /\ IsAuth(d) <=> IsAuth(c)
           /\ Bare(d) => d = c
           /\ IsNew(d) => IsNew(c)
           /\ Slight(c) => Slight(d)
           /\ "list" \in p => ~Slight(d)
<1> DEFINE d == Orphan(c, p)
<1>0. /\ c.of \in {"me", "refresh", "profile", "login", "register", "logout", "teams", "team",
                   "unteam", "load", "add", "remove", "recipe"}
      /\ c.by \in {"auth", "frame", "list", "nobody"}
      /\ c.key \in 0..MaxTeams /\ c.row \in SUBSET Rows
  BY RequestParts
<1>1. CASE c.by \in p
  <2>1. c.by \in {"frame", "list"} /\ c.of \notin {"load", "teams"} /\ c.answer = "none"
    BY <1>1 DEF Matters
  <2>2. d = Call(c.of, "nobody", c.key, c.row, {}, FALSE)
    BY <1>1 DEF Orphan
  <2>3. /\ d.of = c.of /\ d.by = "nobody" /\ d.key = c.key /\ d.answer = "none" /\ d.items = {}
        /\ d.bare = FALSE
    BY <2>2 DEF Call
  <2> HIDE DEF d
  <2>4. WellMade(d)
    BY <2>1, <2>3 DEF WellMade
  <2>5. ~IsAuth(d) /\ ~IsAuth(c) /\ ~Bare(d) /\ (IsNew(d) => IsNew(c)) /\ ~Slight(c) /\ ~Slight(d)
    BY <2>1, <2>3 DEF IsAuth, Bare, IsNew, Slight
  <2> QED
    BY <1>1, <2>3, <2>4, <2>5 DEF d
<1>2. CASE c.by \notin p
  <2>1. d = c
    BY <1>2 DEF Orphan
  <2>2. "list" \in p => ~Slight(c)
    BY <1>2 DEF Slight
  <2>3. d.of = c.of /\ d.by = c.by /\ WellMade(d)
    BY <2>1
  <2>4. (IsAuth(d) <=> IsAuth(c)) /\ (Bare(d) => d = c) /\ (IsNew(d) => IsNew(c))
    BY <2>1
  <2>5. (Slight(c) => Slight(d)) /\ ("list" \in p => ~Slight(d))
    BY <2>1, <2>2
  <2> HIDE DEF d
  <2> QED
    BY <1>2, <2>1, <2>3, <2>4, <2>5 DEF d
<1> QED
  BY <1>1, <1>2

(* There is no number below the smallest of a set of teams. *)
LEMMA MinIsElement ==
    ASSUME NEW S, S \subseteq Keys, S # {}
    PROVE  Min(S) \in S
<1>1. S \subseteq Nat
  BY ConsoleAssumption DEF Keys
<1>2. PICK m \in S : \A h \in S : ~(<<h, m>> \in OpToRel(<, Nat))
  BY <1>1, WFMin, NatLessThanWellFounded, Zenon
<1>3. \A h \in S : m <= h
  <2>1. \A h \in S : ~(h < m)
    BY <1>1, <1>2 DEF OpToRel
  <2>2. \A h \in S : h \in Nat /\ m \in Nat
    BY <1>1
  <2> QED
    BY <2>1, <2>2
<1> QED
  BY <1>3 DEF Min

-----------------------------------------------------------------------------
(* A request that is made *)

LEMMA MadeAppend ==
    ASSUME NEW s, Made(s), NEW c \in Requests, WellMade(c)
    PROVE  Made(Append(s, c))
<1>1. s \in Seq(Requests) /\ \A k \in DOMAIN s : WellMade(s[k])
  BY DEF Made
<1> DEFINE t == Append(s, c)
<1> HIDE DEF t
<1>2. /\ t \in Seq(Requests) /\ DOMAIN t = DOMAIN s \cup {Len(s) + 1}
      /\ \A k \in DOMAIN s : t[k] = s[k]
      /\ t[Len(s) + 1] = c
  BY <1>1, Appended DEF t
<1>3. Made(t)
  BY <1>1, <1>2 DEF Made
<1> QED
  BY <1>3 DEF t

LEMMA AgreesAppend ==
    ASSUME NEW s \in Seq(Requests), NEW u, NEW starts, NEW there, NEW races,
           Agrees(s, u, starts, there, races), NEW c \in Requests, ~IsAuth(c)
    PROVE  Agrees(Append(s, c), u, starts, there, races)
<1> DEFINE t == Append(s, c)
           e == Len(s) + 1
<1>1. /\ DOMAIN t = DOMAIN s \cup {e} /\ e \notin DOMAIN s
      /\ \A k \in DOMAIN s : t[k] = s[k]
      /\ t[e] = c
  BY Appended
<1> HIDE DEF t, e
<1>2. Agrees(t, u, starts, there, races)
  <2>1. starts => \E k \in DOMAIN t : t[k].of = "me"
    BY <1>1 DEF Agrees
  <2> SUFFICES ASSUME ~races
               PROVE  /\ \A j, k \in DOMAIN t : IsAuth(t[j]) /\ IsAuth(t[k]) => j = k
                      /\ \A k \in DOMAIN t : IsAuth(t[k]) => Tells(t[k], u, there)
                      /\ (\A k \in DOMAIN t : ~IsAuth(t[k])) => u = there
    BY <2>1 DEF Agrees
  <2>2. /\ \A j, k \in DOMAIN s : IsAuth(s[j]) /\ IsAuth(s[k]) => j = k
        /\ \A k \in DOMAIN s : IsAuth(s[k]) => Tells(s[k], u, there)
        /\ (\A k \in DOMAIN s : ~IsAuth(s[k])) => u = there
    BY DEF Agrees
  <2> QED
    BY <1>1, <2>2
<1> QED
  BY <1>2 DEF t

LEMMA KeptAppend ==
    ASSUME NEW s \in Seq(Requests), NEW choice, NEW there, Kept(s, choice, there),
           NEW c \in Requests, ~Bare(c), ~IsNew(c)
    PROVE  Kept(Append(s, c), choice, there)
<1> DEFINE t == Append(s, c)
           e == Len(s) + 1
<1>1. /\ DOMAIN t = DOMAIN s \cup {e}
      /\ \A k \in DOMAIN s : t[k] = s[k]
      /\ t[e] = c
  BY Appended
<1> HIDE DEF t, e
<1>2. Kept(t, choice, there)
  BY <1>1 DEF Kept
<1> QED
  BY <1>2 DEF t

LEMMA ListingAppend ==
    ASSUME NEW s \in Seq(Requests), Listing(s), NEW c \in Requests, ~Works(c)
    PROVE  Listing(Append(s, c))
<1> DEFINE t == Append(s, c)
           e == Len(s) + 1
<1>1. /\ DOMAIN t = DOMAIN s \cup {e}
      /\ \A k \in DOMAIN s : t[k] = s[k]
      /\ t[e] = c
  BY Appended
<1> HIDE DEF t, e
<1>2. Listing(t)
  <2> SUFFICES ASSUME Listed, ~mixed
               PROVE  /\ \A j, k \in DOMAIN t : Works(t[j]) /\ Works(t[k]) => j = k
                      /\ \A k \in DOMAIN t : Works(t[k]) => Fits(t[k])
                      /\ (\A k \in DOMAIN t : ~Works(t[k])) => list.of = active /\ list.items = rows[active]
    BY DEF Listing
  <2>2. /\ \A j, k \in DOMAIN s : Works(s[j]) /\ Works(s[k]) => j = k
        /\ \A k \in DOMAIN s : Works(s[k]) => Fits(s[k])
        /\ (\A k \in DOMAIN s : ~Works(s[k])) => list.of = active /\ list.items = rows[active]
    BY DEF Listing
  <2> QED
    BY <1>1, <2>2
<1> QED
  BY <1>2 DEF t

(* What is made within the bound leaves it. *)
LEMMA LimitedAppend ==
    ASSUME NEW s \in Seq(Requests), NEW c \in Requests, Len(s) <= MaxCalls,
           Cardinality(Heavy(s)) < MaxCalls \/ (Slight(c) /\ Cardinality(Heavy(s)) <= MaxCalls)
    PROVE  Limited(Append(s, c))
<1> DEFINE t == Append(s, c)
           e == Len(s) + 1
<1>0. MaxCalls \in Nat
  BY ConsoleAssumption
<1>1. /\ DOMAIN t = DOMAIN s \cup {e} /\ Len(t) = Len(s) + 1 /\ Len(s) \in Nat /\ e \notin DOMAIN s
      /\ \A k \in DOMAIN s : t[k] = s[k]
      /\ t[e] = c
  BY Appended
<1>2. IsFiniteSet(Heavy(s)) /\ Cardinality(Heavy(s)) \in Nat
  <2>1. IsFiniteSet(DOMAIN s)
    BY Places, FS_Interval
  <2>2. Heavy(s) \subseteq DOMAIN s
    BY DEF Heavy
  <2> QED
    BY <2>1, <2>2, FS_Subset, FS_CardinalityType
<1> HIDE DEF t, e
<1>3. Cardinality(Heavy(t)) <= MaxCalls
  <2>1. CASE Slight(c)
    <3>1. Heavy(t) = Heavy(s)
      BY <1>1, <2>1 DEF Heavy
    <3> QED
      BY <1>0, <1>2, <3>1
  <2>2. CASE ~Slight(c)
    <3>1. Heavy(t) = Heavy(s) \cup {e}
      BY <1>1, <2>2 DEF Heavy
    <3>2. Cardinality(Heavy(s)) < MaxCalls
      BY <2>2
    <3>3. Cardinality(Heavy(s) \cup {e}) = IF e \in Heavy(s) THEN Cardinality(Heavy(s))
                                           ELSE Cardinality(Heavy(s)) + 1
      BY <1>2, FS_AddElement
    <3> QED
      BY <1>0, <1>2, <3>1, <3>2, <3>3
  <2> QED
    BY <2>1, <2>2
<1>4. Len(t) <= MaxCalls + 1
  BY <1>0, <1>1
<1> QED
  BY <1>3, <1>4 DEF Limited, t

(* As long as there is room nothing goes beyond the bound. *)
LEMMA RoomIsLimited ==
    ASSUME NEW s \in Seq(Requests), NEW c \in Requests, Len(s) < MaxCalls
    PROVE  Limited(Append(s, c))
<1>0. MaxCalls \in Nat
  BY ConsoleAssumption
<1>1. Len(s) \in Nat /\ DOMAIN s = 1..Len(s)
  BY Places
<1>2. IsFiniteSet(DOMAIN s) /\ Cardinality(DOMAIN s) = Len(s)
  BY <1>1, FS_Interval
<1>3. Heavy(s) \subseteq DOMAIN s
  BY DEF Heavy
<1>4. Cardinality(Heavy(s)) <= Len(s) /\ Cardinality(Heavy(s)) \in Nat
  BY <1>2, <1>3, FS_Subset, FS_CardinalityType
<1>5. Cardinality(Heavy(s)) < MaxCalls /\ Len(s) <= MaxCalls
  BY <1>0, <1>1, <1>4
<1> QED
  BY <1>5, LimitedAppend

-----------------------------------------------------------------------------
(* The requests that are left when some are gone *)

LEMMA MadeLeaves ==
    ASSUME NEW s, Made(s), NEW p \in SUBSET {"frame", "list"},
           NEW K \in SUBSET {k \in DOMAIN s : Matters(s[k], p)},
           NEW t \in Seq(Requests), Leaves(s, K, p, t)
    PROVE  Made(t)
<1>1. \A k \in DOMAIN s : s[k] \in Requests /\ WellMade(s[k])
  BY Places DEF Made
<1>2. PICK f \in [DOMAIN t -> K] : \A j \in DOMAIN t : t[j] = Orphan(s[f[j]], p)
  BY DEF Leaves
<1>3. ASSUME NEW j \in DOMAIN t PROVE WellMade(t[j])
  <2>1. f[j] \in DOMAIN s /\ Matters(s[f[j]], p)
    OBVIOUS
  <2> QED
    BY <1>1, <1>2, <2>1, OrphanIsLike
<1> QED
  BY <1>3 DEF Made

LEMMA AgreesLeaves ==
    ASSUME NEW s, Made(s), NEW u, NEW starts, NEW there, NEW races,
           Agrees(s, u, starts, there, races), NEW p \in SUBSET {"frame", "list"},
           NEW K \in SUBSET {k \in DOMAIN s : Matters(s[k], p)},
           \A k \in DOMAIN s : IsAuth(s[k]) => k \in K,
           NEW t \in Seq(Requests), Leaves(s, K, p, t)
    PROVE  Agrees(t, u, starts, there, races)
<1>1. \A k \in DOMAIN s : s[k] \in Requests /\ WellMade(s[k])
  BY Places DEF Made
<1>2. PICK f \in [DOMAIN t -> K] :
          /\ \A j \in DOMAIN t : t[j] = Orphan(s[f[j]], p)
          /\ \A j, k \in DOMAIN t : f[j] = f[k] => j = k
          /\ \A k \in K : \E j \in DOMAIN t : f[j] = k
  BY DEF Leaves
<1>3. ASSUME NEW j \in DOMAIN t
      PROVE  /\ f[j] \in K /\ f[j] \in DOMAIN s
             /\ IsAuth(t[j]) <=> IsAuth(s[f[j]])
             /\ IsAuth(t[j]) => t[j] = s[f[j]]
  <2>1. f[j] \in K /\ f[j] \in DOMAIN s /\ Matters(s[f[j]], p)
    OBVIOUS
  <2>2. IsAuth(t[j]) <=> IsAuth(s[f[j]])
    BY <1>1, <1>2, <2>1, OrphanIsLike
  <2>3. IsAuth(s[f[j]]) => t[j] = s[f[j]]
    BY <1>2 DEF Orphan, IsAuth
  <2> QED
    BY <2>1, <2>2, <2>3
<1>4. ASSUME NEW k \in DOMAIN s, IsAuth(s[k]) PROVE \E j \in DOMAIN t : f[j] = k /\ t[j] = s[k]
  BY <1>2, <1>3, <1>4
<1>5. starts => \E j \in DOMAIN t : t[j].of = "me"
  <2> SUFFICES ASSUME starts PROVE \E j \in DOMAIN t : t[j].of = "me"
    OBVIOUS
  <2>1. PICK k \in DOMAIN s : s[k].of = "me"
    BY DEF Agrees
  <2>2. IsAuth(s[k])
    BY <1>1, <2>1 DEF WellMade, IsAuth
  <2> QED
    BY <1>4, <2>1, <2>2
<1>6. ASSUME ~races
      PROVE  /\ \A j, k \in DOMAIN t : IsAuth(t[j]) /\ IsAuth(t[k]) => j = k
             /\ \A k \in DOMAIN t : IsAuth(t[k]) => Tells(t[k], u, there)
             /\ (\A k \in DOMAIN t : ~IsAuth(t[k])) => u = there
  <2>1. /\ \A j, k \in DOMAIN s : IsAuth(s[j]) /\ IsAuth(s[k]) => j = k
        /\ \A k \in DOMAIN s : IsAuth(s[k]) => Tells(s[k], u, there)
        /\ (\A k \in DOMAIN s : ~IsAuth(s[k])) => u = there
    BY <1>6 DEF Agrees
  <2>2. \A j, k \in DOMAIN t : IsAuth(t[j]) /\ IsAuth(t[k]) => j = k
    BY <1>2, <1>3, <2>1
  <2>3. \A k \in DOMAIN t : IsAuth(t[k]) => Tells(t[k], u, there)
    BY <1>3, <2>1
  <2>4. (\A k \in DOMAIN t : ~IsAuth(t[k])) => u = there
    BY <1>4, <2>1
  <2> QED
    BY <2>2, <2>3, <2>4
<1> QED
  BY <1>5, <1>6 DEF Agrees

LEMMA KeptLeaves ==
    ASSUME NEW s, Made(s), NEW choice, NEW there, Kept(s, choice, there),
           NEW p \in SUBSET {"frame", "list"},
           NEW K \in SUBSET {k \in DOMAIN s : Matters(s[k], p)},
           NEW t \in Seq(Requests), Leaves(s, K, p, t)
    PROVE  Kept(t, choice, there)
<1>1. \A k \in DOMAIN s : s[k] \in Requests /\ WellMade(s[k])
  BY Places DEF Made
<1>2. PICK f \in [DOMAIN t -> K] : \A j \in DOMAIN t : t[j] = Orphan(s[f[j]], p)
  BY DEF Leaves
<1>3. ASSUME NEW j \in DOMAIN t
      PROVE  /\ f[j] \in DOMAIN s
             /\ Bare(t[j]) => t[j] = s[f[j]]
             /\ IsNew(t[j]) => IsNew(s[f[j]])
  <2>1. f[j] \in DOMAIN s /\ Matters(s[f[j]], p)
    OBVIOUS
  <2> QED
    BY <1>1, <1>2, <2>1, OrphanIsLike
<1> SUFFICES ASSUME choice # NoTeam, NEW k \in DOMAIN t, Bare(t[k])
             PROVE  /\ t[k].of = "teams" /\ t[k].items \subseteq {choice}
                    /\ t[k].answer = "none" => /\ there \subseteq {choice}
                                               /\ \A j \in DOMAIN t : ~IsNew(t[j])
  BY DEF Kept
<1>4. f[k] \in DOMAIN s /\ t[k] = s[f[k]] /\ Bare(s[f[k]])
  BY <1>3
<1>5. /\ t[k].of = "teams" /\ t[k].items \subseteq {choice}
      /\ t[k].answer = "none" => /\ there \subseteq {choice}
                                 /\ \A j \in DOMAIN s : ~IsNew(s[j])
  BY <1>4 DEF Kept
<1> QED
  BY <1>3, <1>5

LEMMA ListingLeaves ==
    ASSUME NEW s \in Seq(Requests), Listing(s), NEW K \in SUBSET DOMAIN s,
           \A k \in DOMAIN s : Works(s[k]) => k \in K,
           NEW t \in Seq(Requests), Leaves(s, K, {}, t)
    PROVE  Listing(t)
<1>2. PICK f \in [DOMAIN t -> K] :
          /\ \A j \in DOMAIN t : t[j] = Orphan(s[f[j]], {})
          /\ \A j, k \in DOMAIN t : f[j] = f[k] => j = k
          /\ \A k \in K : \E j \in DOMAIN t : f[j] = k
  BY DEF Leaves
<1>3. \A j \in DOMAIN t : f[j] \in DOMAIN s /\ t[j] = s[f[j]]
  BY <1>2 DEF Orphan
<1> SUFFICES ASSUME Listed, ~mixed
             PROVE  /\ \A j, k \in DOMAIN t : Works(t[j]) /\ Works(t[k]) => j = k
                    /\ \A k \in DOMAIN t : Works(t[k]) => Fits(t[k])
                    /\ (\A k \in DOMAIN t : ~Works(t[k])) => list.of = active /\ list.items = rows[active]
  BY DEF Listing
<1>4. /\ \A j, k \in DOMAIN s : Works(s[j]) /\ Works(s[k]) => j = k
      /\ \A k \in DOMAIN s : Works(s[k]) => Fits(s[k])
      /\ (\A k \in DOMAIN s : ~Works(s[k])) => list.of = active /\ list.items = rows[active]
  BY DEF Listing
<1>5. \A j, k \in DOMAIN t : Works(t[j]) /\ Works(t[k]) => j = k
  BY <1>2, <1>3, <1>4
<1>6. \A k \in DOMAIN t : Works(t[k]) => Fits(t[k])
  BY <1>3, <1>4
<1>7. ASSUME NEW k \in DOMAIN s, Works(s[k]) PROVE \E j \in DOMAIN t : Works(t[j])
  BY <1>2, <1>3, <1>7
<1> QED
  BY <1>4, <1>5, <1>6, <1>7

(* There are no more of the requests that count, and fewer when one of them is gone. *)
LEMMA HeavyLeaves ==
    ASSUME NEW s, Made(s), NEW p \in SUBSET {"frame", "list"},
           NEW K \in SUBSET {k \in DOMAIN s : Matters(s[k], p)},
           NEW t \in Seq(Requests), Leaves(s, K, p, t)
    PROVE  /\ IsFiniteSet(Heavy(s)) /\ Cardinality(Heavy(s)) \in Nat /\ Cardinality(Heavy(t)) \in Nat
           /\ Cardinality(Heavy(t)) <= Cardinality(Heavy(s))
           /\ \A i \in Heavy(s) \ K : Cardinality(Heavy(t)) < Cardinality(Heavy(s))
           /\ "list" \in p => Heavy(t) = DOMAIN t
<1>1. \A k \in DOMAIN s : s[k] \in Requests /\ WellMade(s[k])
  BY Places DEF Made
<1>2. PICK f \in [DOMAIN t -> K] :
          /\ \A j \in DOMAIN t : t[j] = Orphan(s[f[j]], p)
          /\ \A j, k \in DOMAIN t : f[j] = f[k] => j = k
  BY DEF Leaves
<1>3. ASSUME NEW j \in DOMAIN t
      PROVE  /\ f[j] \in K /\ f[j] \in DOMAIN s
             /\ Slight(s[f[j]]) => Slight(t[j])
             /\ "list" \in p => ~Slight(t[j])
  <2>1. f[j] \in K /\ f[j] \in DOMAIN s /\ Matters(s[f[j]], p)
    OBVIOUS
  <2> QED
    BY <1>1, <1>2, <2>1, OrphanIsLike
<1>4. IsFiniteSet(Heavy(s)) /\ Cardinality(Heavy(s)) \in Nat
  <2>1. IsFiniteSet(DOMAIN s)
    BY Places, FS_Interval DEF Made
  <2>2. Heavy(s) \subseteq DOMAIN s
    BY DEF Heavy
  <2> QED
    BY <2>1, <2>2, FS_Subset, FS_CardinalityType
<1>5. ASSUME NEW T, IsFiniteSet(T), Heavy(s) \cap K \subseteq T
      PROVE  IsFiniteSet(Heavy(t)) /\ Cardinality(Heavy(t)) <= Cardinality(T)
  <2> DEFINE g == [j \in Heavy(t) |-> f[j]]
  <2>1. \A j \in Heavy(t) : f[j] \in T
    BY <1>3, <1>5 DEF Heavy
  <2>2. g \in [Heavy(t) -> T]
    BY <2>1
  <2>3. \A j, k \in Heavy(t) : g[j] = g[k] => j = k
    BY <1>2 DEF Heavy
  <2>4. g \in Injection(Heavy(t), T)
    BY <2>2, <2>3 DEF Injection, IsInjective
  <2> QED
    BY <1>5, <2>4, FS_Injection
<1>6. Cardinality(Heavy(t)) <= Cardinality(Heavy(s)) /\ Cardinality(Heavy(t)) \in Nat
  BY <1>4, <1>5, FS_CardinalityType
<1>7. ASSUME NEW i \in Heavy(s) \ K PROVE Cardinality(Heavy(t)) < Cardinality(Heavy(s))
  <2>1. /\ IsFiniteSet(Heavy(s) \ {i})
        /\ Cardinality(Heavy(s) \ {i}) = Cardinality(Heavy(s)) - 1
    BY <1>4, <1>7, FS_RemoveElement
  <2>2. Cardinality(Heavy(t)) <= Cardinality(Heavy(s) \ {i})
    BY <1>5, <1>7, <2>1
  <2> QED
    BY <1>4, <1>6, <2>1, <2>2
<1>8. "list" \in p => Heavy(t) = DOMAIN t
  BY <1>3 DEF Heavy
<1> QED
  BY <1>4, <1>6, <1>7, <1>8

(* A request has come back: what is left is as good as it was, unless it was the
   request that a part of the invariant is about. *)
LEMMA BackHome ==
    ASSUME NEW s, Made(s), Limited(s), NEW i \in DOMAIN s, NEW t, t = RemoveAt(s, i)
    PROVE  /\ t \in Seq(Requests) /\ Made(t) /\ Limited(t)
           /\ Len(t) \in Nat /\ Len(t) = Len(s) - 1 /\ Len(t) <= MaxCalls
           /\ Cardinality(Heavy(t)) \in Nat /\ Cardinality(Heavy(t)) <= MaxCalls
           /\ ~Slight(s[i]) => Cardinality(Heavy(t)) < MaxCalls
           /\ ~IsAuth(s[i]) =>
                 \A u, starts, there, races :
                     Agrees(s, u, starts, there, races) => Agrees(t, u, starts, there, races)
           /\ Listing(s) /\ ~Works(s[i]) => Listing(t)
           /\ \A choice, there : Kept(s, choice, there) => Kept(t, choice, there)
           /\ \A j \in DOMAIN t : \E k \in DOMAIN s \ {i} : t[j] = s[k]
           /\ \A k \in DOMAIN s \ {i} : \E j \in DOMAIN t : t[j] = s[k]
<1> DEFINE K == DOMAIN s \ {i}
<1>0. s \in Seq(Requests) /\ MaxCalls \in Nat
  BY ConsoleAssumption DEF Made
<1>1. t \in Seq(Requests) /\ Len(t) = Len(s) - 1 /\ Leaves(s, K, {}, t)
  <2> HIDE DEF Requests
  <2> QED
    BY <1>0, Returns, SMTT(30)
<1>2. K \in SUBSET {k \in DOMAIN s : Matters(s[k], {})} /\ {} \in SUBSET {"frame", "list"}
  BY DEF Matters
<1>3. Len(s) \in Nat /\ Len(t) \in Nat /\ DOMAIN t = 1..Len(t)
  BY <1>0, <1>1, Places
<1> HIDE DEF K
<1>4. Made(t)
  BY <1>1, <1>2, MadeLeaves
<1>5. /\ Cardinality(Heavy(s)) \in Nat /\ Cardinality(Heavy(t)) \in Nat
      /\ Cardinality(Heavy(t)) <= Cardinality(Heavy(s))
      /\ \A k \in Heavy(s) \ K : Cardinality(Heavy(t)) < Cardinality(Heavy(s))
  BY <1>1, <1>2, HeavyLeaves
<1>6. Len(t) <= MaxCalls /\ Limited(t) /\ Cardinality(Heavy(t)) <= MaxCalls
  BY <1>0, <1>1, <1>3, <1>5 DEF Limited
<1>7. ~Slight(s[i]) => Cardinality(Heavy(t)) < MaxCalls
  <2>1. ~Slight(s[i]) => i \in Heavy(s) \ K
    BY DEF Heavy, K
  <2> QED
    BY <1>0, <1>5, <2>1 DEF Limited
<1>8. ASSUME ~IsAuth(s[i]), NEW u, NEW starts, NEW there, NEW races,
             Agrees(s, u, starts, there, races)
      PROVE  Agrees(t, u, starts, there, races)
  <2>1. \A k \in DOMAIN s : IsAuth(s[k]) => k \in K
    BY <1>8 DEF K
  <2> QED
    BY <1>1, <1>2, <1>8, <2>1, AgreesLeaves
<1>9. Listing(s) /\ ~Works(s[i]) => Listing(t)
  <2> SUFFICES ASSUME Listing(s), ~Works(s[i]) PROVE Listing(t)
    OBVIOUS
  <2>1. (\A k \in DOMAIN s : Works(s[k]) => k \in K) /\ K \in SUBSET DOMAIN s
    BY DEF K
  <2> QED
    BY <1>0, <1>1, <2>1, ListingLeaves
<1>10. \A choice, there : Kept(s, choice, there) => Kept(t, choice, there)
  BY <1>1, <1>2, KeptLeaves
<1>11. /\ \A j \in DOMAIN t : \E k \in K : t[j] = s[k]
       /\ \A k \in K : \E j \in DOMAIN t : t[j] = s[k]
  BY <1>1 DEF Leaves, Orphan
<1> QED
  BY <1>1, <1>3, <1>4, <1>5, <1>6, <1>7, <1>8, <1>9, <1>10, <1>11 DEF K

(* The handlers of the page, or those of the dashboard, are gone. *)
LEMMA WithoutPage ==
    ASSUME NEW s, Made(s), Cardinality(Heavy(s)) <= MaxCalls,
           NEW p \in {{"list"}, {"frame", "list"}}, NEW t, t = Gone(s, p)
    PROVE  /\ t \in Seq(Requests) /\ Made(t) /\ Limited(t) /\ Len(t) <= MaxCalls
           /\ Cardinality(Heavy(t)) <= MaxCalls
           /\ \A u, starts, there, races :
                 Agrees(s, u, starts, there, races) => Agrees(t, u, starts, there, races)
           /\ \A choice, there : Kept(s, choice, there) => Kept(t, choice, there)
           /\ "frame" \in p => \A j \in DOMAIN t : ~IsFrames(t[j])
<1> DEFINE K == {k \in DOMAIN s : Matters(s[k], p)}
<1>0. s \in Seq(Requests) /\ MaxCalls \in Nat
  BY ConsoleAssumption DEF Made
<1>1. t \in Seq(Requests) /\ Leaves(s, K, p, t)
  <2> HIDE DEF Requests
  <2> QED
    BY <1>0, GoneLeaves, SMTT(30)
<1>2. K \in SUBSET {k \in DOMAIN s : Matters(s[k], p)} /\ p \in SUBSET {"frame", "list"} /\ "list" \in p
  OBVIOUS
<1>3. Len(t) \in Nat /\ DOMAIN t = 1..Len(t)
  BY <1>1, Places
<1>4. Made(t)
  BY <1>1, <1>2, MadeLeaves
<1>5. /\ Cardinality(Heavy(s)) \in Nat /\ Cardinality(Heavy(t)) \in Nat
      /\ Cardinality(Heavy(t)) <= Cardinality(Heavy(s))
      /\ Heavy(t) = DOMAIN t
  BY <1>1, <1>2, HeavyLeaves
<1>6. Len(t) <= MaxCalls /\ Limited(t) /\ Cardinality(Heavy(t)) <= MaxCalls
  <2>1. Cardinality(DOMAIN t) = Len(t)
    <3>1. Cardinality(1..Len(t)) = IF 1 > Len(t) THEN 0 ELSE Len(t) - 1 + 1
      BY <1>3, FS_Interval
    <3> QED
      BY <1>3, <3>1
  <2> QED
    BY <1>0, <1>3, <1>5, <2>1 DEF Limited
<1>7. ASSUME NEW u, NEW starts, NEW there, NEW races, Agrees(s, u, starts, there, races)
      PROVE  Agrees(t, u, starts, there, races)
  <2>1. \A k \in DOMAIN s : IsAuth(s[k]) => k \in K
    BY DEF IsAuth, Matters
  <2> QED
    BY <1>1, <1>2, <1>7, <2>1, AgreesLeaves
<1>8. \A choice, there : Kept(s, choice, there) => Kept(t, choice, there)
  BY <1>1, <1>2, KeptLeaves
<1>9. ASSUME "frame" \in p, NEW j \in DOMAIN t PROVE ~IsFrames(t[j])
  <2>1. PICK k \in K : t[j] = Orphan(s[k], p)
    BY <1>1 DEF Leaves
  <2>2. s[k] \in Requests /\ WellMade(s[k]) /\ Matters(s[k], p)
    BY Places, <1>0 DEF Made
  <2>3. /\ s[k].by \in p => t[j].by = "nobody"
        /\ s[k].by \notin p => t[j] = s[k]
    BY <1>2, <2>1, <2>2, OrphanIsLike
  <2>4. p = {"frame", "list"}
    BY <1>9
  <2> QED
    BY <2>3, <2>4 DEF IsFrames
<1> QED
  BY <1>1, <1>4, <1>6, <1>7, <1>8, <1>9

-----------------------------------------------------------------------------
(* Steps that ask *)

LEMMA Parts ==
    ASSUME IInv
    PROVE  /\ calls \in Seq(Requests) /\ Len(calls) \in Nat /\ DOMAIN calls = 1..Len(calls)
           /\ \A k \in DOMAIN calls : calls[k] \in Requests /\ WellMade(calls[k])
           /\ MaxCalls \in Nat /\ NoTeam \notin Keys /\ Keys \subseteq 0..MaxTeams
<1>1. calls \in Seq(Requests) /\ \A k \in DOMAIN calls : WellMade(calls[k])
  BY DEF IInv, Made
<1>2. MaxCalls \in Nat /\ NoTeam \notin Keys /\ Keys \subseteq 0..MaxTeams
  BY ConsoleAssumption DEF NoTeam, Keys
<1> QED
  BY <1>1, <1>2, Places

(* The types of a step that changes requests, a list and the histories, and leaves
   the user and the page as they are. *)
LEMMA TypesKept ==
    ASSUME TypeOK, Made(calls'), Limited(calls'),
           session' \in BOOLEAN, teams' \subseteq Keys, rows' \in [Keys -> SUBSET Rows],
           active' \in 0..MaxTeams, chosen' \in 0..MaxTeams, known' \subseteq Keys,
           list' \in [of : 0..MaxTeams, items : SUBSET Rows, loading : BOOLEAN],
           mixed' \in BOOLEAN, raced' \in BOOLEAN, faults' \in 0..MaxFaults,
           UNCHANGED <<user, starting, page>>
    PROVE  TypeOK'
<1>1. calls' \in Seq(Requests) /\ Len(calls') <= MaxCalls + 1
  BY DEF Made, Limited
<1> HIDE DEF Keys, Requests
<1> QED
  BY <1>1 DEF TypeOK

LEMMA Asking ==
    ASSUME IInv, NEW c \in Requests, WellMade(c), Room
    PROVE  LET t == Append(calls, c) IN
           /\ Made(t) /\ Limited(t) /\ t \in Seq(Requests)
           /\ DOMAIN t = DOMAIN calls \cup {Len(calls) + 1} /\ Len(calls) + 1 \notin DOMAIN calls
           /\ \A k \in DOMAIN calls : t[k] = calls[k]
           /\ t[Len(calls) + 1] = c
<1>1. calls \in Seq(Requests) /\ Made(calls) /\ Len(calls) < MaxCalls
  BY DEF IInv, Made, Room
<1>2. Made(Append(calls, c))
  BY <1>1, MadeAppend
<1>3. Limited(Append(calls, c))
  BY <1>1, RoomIsLimited
<1> QED
  BY <1>1, <1>2, <1>3, Appended

(* A request about the user. *)
LEMMA AuthIsAsked ==
    ASSUME IInv, NEW r \in {"login", "register", "logout", "profile"}, AsksAuth(r)
    PROVE  IInv'
<1> DEFINE c == AuthCall(r)
           e == Len(calls) + 1
<1>1. c \in Requests /\ c.by = "auth" /\ c.of = r /\ c.answer = "none"
  BY AuthCallParts
<1>2. WellMade(c) /\ IsAuth(c) /\ ~IsFrames(c) /\ ~Works(c) /\ ~Bare(c) /\ ~IsNew(c)
  BY AuthCallParts
<1> HIDE DEF c
<1>3. /\ Room /\ calls' = Append(calls, c) /\ raced' = (raced \/ DueBy("auth"))
      /\ UNCHANGED <<server, auth, page, frame, listing, faults>>
  BY DEF AsksAuth, c
<1>4. /\ Made(calls') /\ Limited(calls')
      /\ DOMAIN calls' = DOMAIN calls \cup {e} /\ e \notin DOMAIN calls
      /\ \A k \in DOMAIN calls : calls'[k] = calls[k]
      /\ calls'[e] = c
  BY <1>1, <1>2, <1>3, Asking
<1> HIDE DEF e
<1>5. TypeOK'
  BY <1>3, <1>4, TypesKept DEF IInv, TypeOK, server, auth, frame, listing
<1>6. Mounted(calls)'
  BY <1>2, <1>3, <1>4 DEF IInv, Mounted, InDashboard, auth
<1>7. Session(calls)'
  <2>1. starting' => \E k \in DOMAIN calls' : calls'[k].of = "me"
    BY <1>3, <1>4 DEF IInv, Session, Agrees, auth
  <2>2. ASSUME ~raced'
        PROVE  /\ \A k \in DOMAIN calls : ~IsAuth(calls[k])
               /\ user' = session'
    BY <1>3, <2>2 DEF IInv, Session, Agrees, IsAuth, DueBy, auth, server
  <2>3. ~raced' => Tells(c, user', session')
    BY <1>1, <2>2 DEF Tells
  <2> QED
    BY <1>4, <2>1, <2>2, <2>3 DEF Session, Agrees
<1>8. Listing(calls)'
  <2>1. Listing(calls')
    BY <1>1, <1>2, <1>3, ListingAppend, Parts DEF IInv
  <2> QED
    BY <1>3, <2>1 DEF Listing, Listed, Fits, frame, listing, server
<1>9. Choice(calls)'
  <2>1. Kept(calls', chosen, teams)
    BY <1>1, <1>2, <1>3, KeptAppend, Parts DEF IInv, Choice
  <2> QED
    BY <1>3, <2>1 DEF IInv, Choice, ChoiceIsKept, Kept, frame, server
<1> QED
  BY <1>4, <1>5, <1>6, <1>7, <1>8, <1>9 DEF IInv

(* What the page is loading it is also listing, until it is loaded. *)
LEMMA LoadingParts ==
    ASSUME NEW l \in [of : 0..MaxTeams, items : SUBSET Rows, loading : BOOLEAN], NEW p
    PROVE  /\ Loading(l, p) \in [of : 0..MaxTeams, items : SUBSET Rows, loading : BOOLEAN]
           /\ Loading(l, p).of = l.of /\ Loading(l, p).items = l.items
<1>1. (p # "members") \in BOOLEAN
  OBVIOUS
<1> QED
  BY <1>1 DEF Loading

(* A request that changes the list, or what it is of, made of the active team. *)
LEMMA WorkIsAsked ==
    ASSUME IInv, InDashboard, Room, active \in Keys,
           NEW c \in Requests, WellMade(c), c.by \in {"frame", "list"}, Works(c), ~Bare(c),
           c.answer = "none", c.key = active, c.of = "remove" => c.base = list.items,
           calls' = Append(calls, c),
           list' = list \/ list' = Loading(list, page),
           mixed' = ((mixed /\ c.of # "load") \/ Working(calls)),
           UNCHANGED <<server, auth, page, frame, faults, raced>>
    PROVE  IInv'
<1> DEFINE e == Len(calls) + 1
<1>1. ~IsAuth(c) /\ ~IsNew(c)
  BY DEF IsAuth, IsNew, Works, WellMade
<1>2. /\ UNCHANGED <<session, teams, rows, user, starting, known, active, chosen>>
      /\ list \in [of : 0..MaxTeams, items : SUBSET Rows, loading : BOOLEAN]
  BY DEF server, auth, frame, IInv, TypeOK
<1>3. /\ list' \in [of : 0..MaxTeams, items : SUBSET Rows, loading : BOOLEAN]
      /\ list'.of = list.of /\ list'.items = list.items
  BY <1>2, LoadingParts
<1>4. /\ Made(calls') /\ Limited(calls')
      /\ DOMAIN calls' = DOMAIN calls \cup {e} /\ e \notin DOMAIN calls
      /\ \A k \in DOMAIN calls : calls'[k] = calls[k]
      /\ calls'[e] = c
  BY Asking
<1> HIDE DEF e
<1>5. TypeOK'
  <2>1. mixed' \in BOOLEAN
    BY DEF Working, IInv, TypeOK
  <2> QED
    BY <1>2, <1>3, <1>4, <2>1, TypesKept DEF IInv, TypeOK
<1>6. Mounted(calls)'
  BY <1>2 DEF Mounted, InDashboard
<1>7. Session(calls)'
  <2>1. Agrees(calls', user, starting, session, raced)
    BY <1>1, AgreesAppend, Parts DEF IInv, Session
  <2> QED
    BY <1>2, <2>1 DEF Session, Agrees
<1>8. Listing(calls)'
  <2>1. ASSUME Listed', ~mixed'
        PROVE  /\ \A k \in DOMAIN calls : ~Works(calls[k])
               /\ Fits(c)'
    <3>1. Listed
      BY <1>2, <2>1 DEF Listed
    <3>2. \A k \in DOMAIN calls : ~Works(calls[k])
      BY <2>1 DEF Working, Works
    <3>3. c.of # "load" => list.of = active /\ list.items = rows[active]
      BY <2>1, <3>1, <3>2 DEF IInv, Listing
    <3>4. Fits(c)'
      BY <1>2, <1>3, <3>3 DEF Fits
    <3> QED
      BY <3>2, <3>4
  <2>2. \A k \in DOMAIN calls' : k # e => calls'[k] = calls[k] /\ k \in DOMAIN calls
    BY <1>4
  <2>3. ASSUME Listed', ~mixed'
        PROVE  \A k \in DOMAIN calls' : Works(calls'[k]) => k = e
    BY <2>1, <2>2, <2>3
  <2>4. (Listed /\ ~mixed => \A k \in DOMAIN calls : Works(calls[k]) => Fits(calls[k]))'
    BY <1>4, <2>1, <2>3
  <2>5. e \in DOMAIN calls' /\ Works(calls'[e])
    BY <1>4
  <2> QED
    BY <2>3, <2>4, <2>5 DEF Listing
<1>9. Choice(calls)'
  <2>1. Kept(calls', chosen, teams)
    BY <1>1, KeptAppend, Parts DEF IInv, Choice
  <2> QED
    BY <1>2, <2>1 DEF IInv, Choice, ChoiceIsKept, Kept
<1> QED
  BY <1>4, <1>5, <1>6, <1>7, <1>8, <1>9 DEF IInv

(* The pages show a list of the active team only. *)
LEMMA ShownIsOfTeam ==
    ASSUME IInv, ListIsShown
    PROVE  InDashboard /\ active \in Keys
<1>1. active \in 0..MaxTeams
  BY DEF IInv, TypeOK
<1>2. active # NoTeam
  BY DEF ListIsShown, NoTeamIsShown, RecipesAreShown, MembersAreShown, DeploymentsAreShown, TeamPages
<1> QED
  BY <1>1, <1>2 DEF ListIsShown, NoTeam, Keys

LEMMA ListIsAsked ==
    ASSUME IInv, NEW r \in Rows,
           NewRecipe(r) \/ AddMember(r) \/ RollBack(r) \/ DeleteRecipe(r) \/ RemoveMember(r)
             \/ DeleteDeployment(r)
    PROVE  IInv'
<1>1. ListIsShown
  BY DEF NewRecipe, AddMember, RollBack, DeleteRecipe, RemoveMember, DeleteDeployment, TimelineIsShown,
         Removes, Usable
<1>2. InDashboard /\ active \in Keys /\ active \in 0..MaxTeams
  BY <1>1, ShownIsOfTeam, Parts
<1>3. {r} \in SUBSET Rows /\ list.items \in SUBSET Rows
  BY DEF IInv, TypeOK
<1>4. ASSUME NEW c \in Requests, c \in {Call("recipe", "frame", active, {r}, {}, FALSE),
                                        Call("add", "list", active, {r}, {}, FALSE),
                                        Call("remove", "list", active, {r}, list.items, FALSE)},
             AsksList(c), list' = list
      PROVE  IInv'
  <2>1. /\ <<c.of, c.by>> \in {<<"recipe", "frame">>, <<"add", "list">>, <<"remove", "list">>}
        /\ c.key = active /\ c.answer = "none" /\ c.bare = FALSE /\ c.items = {}
        /\ c.of = "remove" => c.base = list.items
    BY <1>4 DEF Call
  <2>2. WellMade(c) /\ Works(c) /\ ~Bare(c)
    BY <1>2, <2>1 DEF WellMade, Works, Bare
  <2>3. /\ Room /\ calls' = Append(calls, c)
        /\ mixed' = ((mixed /\ c.of # "load") \/ Working(calls))
        /\ UNCHANGED <<server, auth, page, frame, faults, raced>>
    BY <1>4 DEF AsksList
  <2>4. c.by \in {"frame", "list"}
    BY <2>1
  <2> QED
    BY <1>2, <1>4, <2>1, <2>2, <2>3, <2>4, WorkIsAsked
<1>5. /\ Call("recipe", "frame", active, {r}, {}, FALSE) \in Requests
      /\ Call("add", "list", active, {r}, {}, FALSE) \in Requests
      /\ Call("remove", "list", active, {r}, list.items, FALSE) \in Requests
  <2>1. {} \in (SUBSET Keys) \cup (SUBSET Rows) /\ {} \in SUBSET Rows
    OBVIOUS
  <2> HIDE DEF Keys
  <2> QED
    BY <1>2, <1>3, <2>1 DEF Call, Requests
<1>6. \E c \in {Call("recipe", "frame", active, {r}, {}, FALSE),
                Call("add", "list", active, {r}, {}, FALSE),
                Call("remove", "list", active, {r}, list.items, FALSE)} :
          AsksList(c) /\ list' = list
  BY DEF NewRecipe, AddMember, RollBack, DeleteRecipe, RemoveMember, DeleteDeployment, Removes
<1> QED
  BY <1>4, <1>5, <1>6

LEMMA RefreshIsAsked ==
    ASSUME IInv, Refresh
    PROVE  IInv'
<1>1. ListIsShown /\ AsksList(LoadCall(active)) /\ list' = Loading(list, page)
  BY DEF Refresh
<1>2. InDashboard /\ active \in Keys
  BY <1>1, ShownIsOfTeam
<1> DEFINE c == LoadCall(active)
<1>3. /\ c \in Requests /\ c.by = "list" /\ c.of = "load" /\ c.key = active /\ c.answer = "none"
      /\ WellMade(c) /\ Works(c) /\ ~Bare(c)
  BY <1>2, LoadCallParts
<1> HIDE DEF c
<1>4. /\ Room /\ calls' = Append(calls, c)
      /\ mixed' = ((mixed /\ c.of # "load") \/ Working(calls))
      /\ UNCHANGED <<server, auth, page, frame, faults, raced>>
  BY <1>1 DEF AsksList, c
<1> QED
  BY <1>1, <1>2, <1>3, <1>4, WorkIsAsked

LEMMA DeleteIsAsked ==
    ASSUME IInv, DeleteTeam
    PROVE  IInv'
<1>1. InDashboard /\ Room /\ active # NoTeam /\ active \in 0..MaxTeams
  BY DEF DeleteTeam, IInv, TypeOK
<1>2. active \in Keys
  BY <1>1 DEF NoTeam, Keys
<1> DEFINE c == Call("unteam", "frame", active, {}, {}, FALSE)
<1>3. /\ c.of = "unteam" /\ c.by = "frame" /\ c.key = active /\ c.answer = "none" /\ c.bare = FALSE
      /\ c.items = {}
  BY DEF Call
<1>4. c \in Requests
  <2>1. {} \in (SUBSET Keys) \cup (SUBSET Rows) /\ {} \in SUBSET Rows
    OBVIOUS
  <2> HIDE DEF Keys
  <2> QED
    BY <1>1, <2>1 DEF Call, Requests
<1>5. /\ calls' = Append(calls, c) /\ mixed' = (mixed \/ Working(calls))
      /\ UNCHANGED <<server, auth, page, frame, list, faults, raced>>
  BY DEF DeleteTeam
<1> HIDE DEF c
<1>6. WellMade(c) /\ Works(c) /\ ~Bare(c) /\ c.by \in {"frame", "list"}
  BY <1>2, <1>3 DEF WellMade, Works, Bare
<1>7. mixed' = ((mixed /\ c.of # "load") \/ Working(calls)) /\ list' = list
  BY <1>3, <1>5
<1>8. UNCHANGED <<server, auth, page, frame, faults, raced>>
  BY <1>5
<1> QED
  BY <1>1, <1>2, <1>3, <1>4, <1>5, <1>6, <1>7, <1>8, WorkIsAsked

(* A new team is asked for on a page that lists nothing. *)
LEMMA TeamIsAsked ==
    ASSUME IInv, CreateTeam
    PROVE  IInv'
<1> DEFINE c == Call("team", "frame", NoTeam, {}, {}, active = NoTeam)
           e == Len(calls) + 1
<1>1. /\ c.of = "team" /\ c.by = "frame" /\ c.key = NoTeam /\ c.answer = "none" /\ c.items = {}
      /\ c.bare = (active = NoTeam)
  BY DEF Call
<1>2. c \in Requests
  <2>1. /\ {} \in (SUBSET Keys) \cup (SUBSET Rows) /\ {} \in SUBSET Rows /\ NoTeam \in 0..MaxTeams
        /\ (active = NoTeam) \in BOOLEAN
    BY ConsoleAssumption DEF NoTeam
  <2> HIDE DEF Keys, NoTeam
  <2> QED
    BY <2>1 DEF Call, Requests
<1>3. /\ InDashboard /\ page = "newteam" /\ Room /\ calls' = Append(calls, c)
      /\ list' = [list EXCEPT !.loading = TRUE]
      /\ chosen' = IF Choosing(calls) THEN NoTeam ELSE chosen
      /\ UNCHANGED <<server, auth, page, known, active, mixed, faults, raced>>
  BY DEF CreateTeam
<1> HIDE DEF c
<1>4. WellMade(c) /\ ~IsAuth(c) /\ ~Works(c)
  BY <1>1 DEF WellMade, IsAuth, Works
<1>5. /\ Made(calls') /\ Limited(calls')
      /\ DOMAIN calls' = DOMAIN calls \cup {e} /\ e \notin DOMAIN calls
      /\ \A k \in DOMAIN calls : calls'[k] = calls[k]
      /\ calls'[e] = c
  BY <1>2, <1>3, <1>4, Asking
<1> HIDE DEF e
<1>6. UNCHANGED <<session, teams, rows, user, starting>>
  BY <1>3 DEF server, auth
<1>7. TypeOK'
  <2>1. list' \in [of : 0..MaxTeams, items : SUBSET Rows, loading : BOOLEAN]
    BY <1>3 DEF IInv, TypeOK
  <2>2. chosen' \in 0..MaxTeams
    BY <1>3, ConsoleAssumption DEF IInv, TypeOK, NoTeam
  <2> QED
    BY <1>3, <1>5, <1>6, <2>1, <2>2, TypesKept DEF IInv, TypeOK
<1>8. Mounted(calls)'
  BY <1>3, <1>6 DEF Mounted, InDashboard
<1>9. Session(calls)'
  <2>1. Agrees(calls', user, starting, session, raced)
    BY <1>2, <1>3, <1>4, AgreesAppend, Parts DEF IInv, Session
  <2> QED
    BY <1>3, <1>6, <2>1 DEF Session, Agrees
<1>10. Listing(calls)'
  BY <1>3 DEF Listing, Listed, TeamPages
<1>11. Choice(calls)'
  <2> SUFFICES ASSUME chosen' # NoTeam
               PROVE  active' = chosen' /\ \A k \in DOMAIN calls' : ~Bare(calls'[k])
    BY DEF Choice, ChoiceIsKept, Kept
  <2>1. ~Choosing(calls) /\ chosen' = chosen
    BY <1>3
  <2>2. \A k \in DOMAIN calls : ~Bare(calls[k])
    BY <2>1 DEF Choosing, Bare
  <2>3. active = chosen
    BY <2>1 DEF IInv, Choice, ChoiceIsKept
  <2>4. ~Bare(c)
    BY <1>1, <2>1, <2>3 DEF Bare
  <2> QED
    BY <1>3, <1>5, <2>1, <2>2, <2>3, <2>4
<1> QED
  BY <1>5, <1>7, <1>8, <1>9, <1>10, <1>11 DEF IInv

-----------------------------------------------------------------------------
(* Steps of the server *)

(* A step of the server after which the request c is d, which is answered. *)
Follows(c, d) ==
    /\ d \in Requests /\ d.of = c.of /\ d.by = c.by /\ d.key = c.key /\ d.bare = c.bare
    /\ d.answer # "none"
    /\ UNCHANGED <<auth, page, frame, listing>>
    /\ session' \in BOOLEAN /\ teams' \subseteq Keys /\ rows' \in [Keys -> SUBSET Rows]
    /\ raced' \in BOOLEAN /\ faults' \in 0..MaxFaults
    /\ c.of = "teams" => d.items = {} \/ (d.items \subseteq teams /\ c.answer = "none")
    /\ c.of = "load" => d.items \subseteq Rows
    /\ c.of = "team" /\ d.answer = "ok" => OneTeam(d.items)
    /\ raced => raced'
    /\ ~IsAuth(c) => session' = session
    /\ IsAuth(c) /\ ~raced' /\ Tells(c, user, session) => Tells(d, user, session')
    /\ ~Works(c) => rows' = rows
    /\ Listed /\ Works(c) /\ Fits(c) => Fits(d)'
    /\ teams' \subseteq teams \/ IsNew(c)

LEMMA AnswerComes ==
    ASSUME IInv, NEW i \in DOMAIN calls, NEW c, c = calls[i],
           NEW d, calls' = [calls EXCEPT ![i] = d], Follows(c, d)
    PROVE  IInv'
<1>1. /\ calls \in Seq(Requests) /\ c \in Requests /\ WellMade(c)
      /\ \A k \in DOMAIN calls : calls[k] \in Requests /\ WellMade(calls[k])
  BY Parts
<1> USE DEF Follows
<1>3. /\ calls' \in Seq(Requests) /\ Len(calls') = Len(calls) /\ DOMAIN calls' = DOMAIN calls
      /\ \A k \in DOMAIN calls : calls'[k] = IF k = i THEN d ELSE calls[k]
  <2>1. calls' = [calls EXCEPT ![i] = d]
    OBVIOUS
  <2>2. calls \in Seq(Requests) /\ i \in DOMAIN calls /\ d \in Requests
    BY <1>1
  <2> HIDE DEF Requests
  <2>3. \A t : t = [calls EXCEPT ![i] = d] =>
            /\ t \in Seq(Requests) /\ Len(t) = Len(calls) /\ DOMAIN t = DOMAIN calls
            /\ \A k \in DOMAIN calls : t[k] = IF k = i THEN d ELSE calls[k]
    BY <2>2, Replaced, SMTT(30)
  <2> QED
    BY <2>1, <2>3
<1>4. /\ UNCHANGED <<user, starting, page, known, active, chosen, list, mixed>>
  BY DEF auth, frame, listing
<1>5. /\ IsAuth(d) <=> IsAuth(c)
      /\ Works(d) <=> Works(c)
      /\ Bare(d) <=> Bare(c)
      /\ ~IsNew(d)
      /\ IsFrames(d) <=> IsFrames(c)
      /\ Slight(d) <=> Slight(c)
  BY DEF IsAuth, Works, Bare, IsNew, IsFrames, Slight
<1>6. Made(calls')
  <2>1. teams \subseteq Keys
    BY DEF IInv, TypeOK
  <2>2. c.of = "teams" => d.items \subseteq Keys
    BY <2>1
  <2>3. WellMade(d)
    <3> HIDE DEF Keys
    <3> QED
      BY <1>1, <2>2 DEF WellMade
  <2> QED
    BY <1>1, <1>3, <2>3 DEF Made
<1>7. Limited(calls')
  <2>1. Heavy(calls') = Heavy(calls)
    BY <1>3, <1>5 DEF Heavy
  <2> QED
    BY <1>3, <2>1 DEF IInv, Limited
<1>8. TypeOK'
  BY <1>4, <1>6, <1>7, TypesKept DEF IInv, TypeOK
<1>9. Mounted(calls)'
  BY <1>3, <1>4, <1>5 DEF IInv, Mounted, InDashboard
<1>10. Session(calls)'
  <2>1. starting' => \E k \in DOMAIN calls' : calls'[k].of = "me"
    BY <1>3, <1>4 DEF IInv, Session, Agrees
  <2>2. ASSUME ~raced'
        PROVE  /\ \A j, k \in DOMAIN calls' : IsAuth(calls'[j]) /\ IsAuth(calls'[k]) => j = k
               /\ \A k \in DOMAIN calls' : IsAuth(calls'[k]) => Tells(calls'[k], user', session')
               /\ (\A k \in DOMAIN calls' : ~IsAuth(calls'[k])) => user' = session'
    <3>1. /\ \A j, k \in DOMAIN calls : IsAuth(calls[j]) /\ IsAuth(calls[k]) => j = k
          /\ \A k \in DOMAIN calls : IsAuth(calls[k]) => Tells(calls[k], user, session)
          /\ (\A k \in DOMAIN calls : ~IsAuth(calls[k])) => user = session
      BY <2>2 DEF IInv, Session, Agrees
    <3>2. \A j, k \in DOMAIN calls' : IsAuth(calls'[j]) /\ IsAuth(calls'[k]) => j = k
      BY <1>3, <1>5, <3>1
    <3>3. CASE IsAuth(c)
      <4>1. Tells(d, user, session')
        BY <2>2, <3>1, <3>3
      <4>2. \A k \in DOMAIN calls' : IsAuth(calls'[k]) => k = i
        BY <1>3, <1>5, <3>2, <3>3
      <4> QED
        BY <1>3, <1>4, <1>5, <3>2, <3>3, <4>1, <4>2
    <3>4. CASE ~IsAuth(c)
      <4>1. session' = session
        BY <3>4
      <4> QED
        BY <1>3, <1>4, <1>5, <3>1, <3>2, <3>4, <4>1
    <3> QED
      BY <3>3, <3>4
  <2> QED
    BY <2>1, <2>2 DEF Session, Agrees
<1>11. Listing(calls)'
  <2>1. Listed' <=> Listed
    BY <1>4 DEF Listed
  <2> SUFFICES ASSUME Listed, ~mixed
               PROVE  (/\ \A j, k \in DOMAIN calls : Works(calls[j]) /\ Works(calls[k]) => j = k
                       /\ \A k \in DOMAIN calls : Works(calls[k]) => Fits(calls[k])
                       /\ (\A k \in DOMAIN calls : ~Works(calls[k])) =>
                             list.of = active /\ list.items = rows[active])'
    BY <1>4, <2>1 DEF Listing
  <2>2. /\ \A j, k \in DOMAIN calls : Works(calls[j]) /\ Works(calls[k]) => j = k
        /\ \A k \in DOMAIN calls : Works(calls[k]) => Fits(calls[k])
        /\ (\A k \in DOMAIN calls : ~Works(calls[k])) => list.of = active /\ list.items = rows[active]
    BY DEF IInv, Listing
  <2>3. \A j, k \in DOMAIN calls' : Works(calls'[j]) /\ Works(calls'[k]) => j = k
    BY <1>3, <1>5, <2>2
  <2>4. CASE Works(c)
    <3>1. Fits(d)'
      BY <2>2, <2>4
    <3>2. \A k \in DOMAIN calls' : Works(calls'[k]) => k = i
      BY <1>3, <1>5, <2>3, <2>4
    <3>3. (\A k \in DOMAIN calls : Works(calls[k]) => Fits(calls[k]))'
      BY <1>3, <3>1, <3>2
    <3>4. i \in DOMAIN calls' /\ Works(calls'[i])
      BY <1>3, <1>5, <2>4
    <3> QED
      BY <2>3, <3>3, <3>4
  <2>5. CASE ~Works(c)
    <3>1. rows' = rows
      BY <2>5
    <3>2. \A k \in DOMAIN calls' : Works(calls'[k]) => k \in DOMAIN calls /\ calls'[k] = calls[k]
      BY <1>3, <1>5, <2>5
    <3>3. (\A k \in DOMAIN calls : Works(calls[k]) => Fits(calls[k]))'
      BY <1>4, <2>2, <3>1, <3>2 DEF Fits
    <3>4. (\A k \in DOMAIN calls' : ~Works(calls'[k])) => \A k \in DOMAIN calls : ~Works(calls[k])
      BY <1>3, <2>5
    <3> QED
      BY <1>4, <2>2, <2>3, <3>1, <3>3, <3>4
  <2> QED
    BY <2>4, <2>5
<1>12. Choice(calls)'
  <2> SUFFICES ASSUME chosen # NoTeam, NEW k \in DOMAIN calls, Bare(calls'[k])
               PROVE  /\ calls'[k].of = "teams" /\ calls'[k].items \subseteq {chosen}
                      /\ calls'[k].answer = "none" => /\ teams' \subseteq {chosen}
                                                      /\ \A j \in DOMAIN calls : ~IsNew(calls'[j])
    BY <1>3, <1>4 DEF IInv, Choice, ChoiceIsKept, Kept
  <2>1. Bare(calls[k])
    BY <1>3, <1>5
  <2>2. /\ calls[k].of = "teams" /\ calls[k].items \subseteq {chosen}
        /\ calls[k].answer = "none" => /\ teams \subseteq {chosen}
                                       /\ \A j \in DOMAIN calls : ~IsNew(calls[j])
    BY <2>1 DEF IInv, Choice, Kept
  <2>3. \A j \in DOMAIN calls : IsNew(calls'[j]) => IsNew(calls[j])
    BY <1>3, <1>5
  <2>4. CASE k = i
    BY <1>3, <2>2, <2>4
  <2>5. CASE k # i
    <3>1. calls'[k] = calls[k]
      BY <1>3, <2>5
    <3> QED
      BY <2>2, <2>3, <3>1
  <2> QED
    BY <2>4, <2>5
<1> QED
  BY <1>6, <1>7, <1>8, <1>9, <1>10, <1>11, <1>12 DEF IInv

LEMMA ServerHandles ==
    ASSUME IInv, NEW i \in DOMAIN calls, Handles(i)
    PROVE  IInv'
<1> PICK c : c = calls[i]
  OBVIOUS
<1>1. c \in Requests /\ WellMade(c) /\ c.answer = "none"
  BY Parts DEF Handles
<1>2. /\ c.of \in {"me", "refresh", "profile", "login", "register", "logout", "teams", "team",
                   "unteam", "load", "add", "remove", "recipe"}
      /\ c.by \in {"auth", "frame", "list", "nobody"} /\ c.row \in SUBSET Rows
  BY <1>1, RequestParts
<1>3. /\ session \in BOOLEAN /\ user \in BOOLEAN /\ teams \subseteq Keys /\ rows \in [Keys -> SUBSET Rows]
      /\ raced \in BOOLEAN /\ faults \in 0..MaxFaults
  BY DEF IInv, TypeOK
<1>4. ASSUME NEW items \in (SUBSET Keys) \cup (SUBSET Rows), Answers(i, "ok", items),
             session' \in BOOLEAN, teams' \subseteq Keys, rows' \in [Keys -> SUBSET Rows],
             c.of = "teams" => items \subseteq teams,
             c.of = "load" => items \subseteq Rows,
             c.of = "team" => OneTeam(items),
             ~IsAuth(c) => session' = session,
             IsAuth(c) => session' = (c.of # "logout") /\ (session \/ c.of \in {"logout", "login", "register"}),
             ~Works(c) => rows' = rows,
             c.of = "load" => items = rows[c.key] /\ rows' = rows,
             c.of = "remove" => rows'[c.key] = rows[c.key] \ c.row,
             teams' \subseteq teams \/ c.of = "team"
      PROVE  IInv'
  <2> PICK d : d = [c EXCEPT !.answer = "ok", !.items = items]
    OBVIOUS
  <2>1. /\ d.of = c.of /\ d.by = c.by /\ d.key = c.key /\ d.row = c.row /\ d.base = c.base
        /\ d.bare = c.bare /\ d.answer = "ok" /\ d.items = items
        /\ d \in Requests
    <3> HIDE DEF Keys
    <3> QED
      BY <1>1 DEF Requests
  <2>2. /\ calls' = [calls EXCEPT ![i] = d]
        /\ UNCHANGED <<auth, page, frame, listing, faults, raced>>
    BY <1>4, Parts DEF Answers
  <2>3. raced' \in BOOLEAN /\ faults' \in 0..MaxFaults /\ (raced => raced')
    BY <1>3, <2>2
  <2>4. IsAuth(c) /\ ~raced' /\ Tells(c, user, session) => Tells(d, user, session')
    <3> SUFFICES ASSUME IsAuth(c), Tells(c, user, session) PROVE Tells(d, user, session')
      OBVIOUS
    <3>1. c.of \in {"me", "refresh", "profile", "login", "register", "logout"}
      BY <1>1 DEF WellMade, IsAuth
    <3>2. c.of = "me" \/ user = session
      BY <1>1 DEF Tells
    <3>3. session' = (c.of # "logout") /\ (session \/ c.of \in {"logout", "login", "register"})
      BY <1>4
    <3>4. UserAfter(d, user) = IF c.of = "profile" THEN user ELSE c.of # "logout"
      BY <2>1, <3>1 DEF UserAfter
    <3>5. UserAfter(d, user) = session'
      <4>1. CASE c.of = "profile"
        BY <1>3, <3>2, <3>3, <3>4, <4>1
      <4>2. CASE c.of # "profile"
        BY <3>3, <3>4, <4>2
      <4> QED
        BY <4>1, <4>2
    <3> QED
      BY <2>1, <3>5 DEF Tells
  <2>5. Listed /\ Works(c) /\ Fits(c) => Fits(d)'
    <3> SUFFICES ASSUME Fits(c) PROVE Fits(d)'
      OBVIOUS
    <3>1. active' = active /\ list' = list
      BY <2>2 DEF frame, listing
    <3> QED
      BY <1>1, <1>4, <2>1, <3>1 DEF Fits
  <2>6. /\ c.of = "teams" => d.items = {} \/ (d.items \subseteq teams /\ c.answer = "none")
        /\ c.of = "load" => d.items \subseteq Rows
        /\ c.of = "team" /\ d.answer = "ok" => OneTeam(d.items)
    BY <1>1, <1>4, <2>1
  <2>7. UNCHANGED <<auth, page, frame, listing>> /\ (teams' \subseteq teams \/ IsNew(c))
    BY <1>1, <1>4, <2>2 DEF IsNew
  <2>8. d.answer # "none"
    BY <2>1
  <2>9. /\ session' \in BOOLEAN /\ teams' \subseteq Keys /\ rows' \in [Keys -> SUBSET Rows]
        /\ (~IsAuth(c) => session' = session) /\ (~Works(c) => rows' = rows)
    BY <1>4
  <2>10. d.of = c.of /\ d.by = c.by /\ d.key = c.key /\ d.bare = c.bare /\ d \in Requests
    BY <2>1
  <2>11. calls' = [calls EXCEPT ![i] = d]
    BY <2>2
  <2> HIDE DEF Keys, Requests
  <2>12. Follows(c, d)
    BY <2>3, <2>4, <2>5, <2>6, <2>7, <2>8, <2>9, <2>10 DEF Follows
  <2> QED
    BY <2>11, <2>12, AnswerComes
<1>5. {} \in (SUBSET Keys) \cup (SUBSET Rows)
  OBVIOUS
<1> HIDE DEF Keys, Requests
<1>6. CASE /\ c.of \in {"me", "refresh", "profile", "logout"} /\ (session \/ c.of = "logout")
           /\ session' = (c.of # "logout") /\ Answers(i, "ok", {}) /\ UNCHANGED <<teams, rows>>
  <2>1. IsAuth(c)
    BY <1>1, <1>6 DEF WellMade, IsAuth
  <2> QED
    BY <1>3, <1>4, <1>5, <1>6, <2>1
<1>7. CASE /\ c.of \in {"login", "register"} /\ session' = TRUE
           /\ Answers(i, "ok", {}) /\ UNCHANGED <<teams, rows>>
  <2>1. IsAuth(c)
    BY <1>1, <1>7 DEF WellMade, IsAuth
  <2> QED
    BY <1>3, <1>4, <1>5, <1>7, <2>1
<1>8. CASE c.of = "teams" /\ session /\ Answers(i, "ok", teams) /\ UNCHANGED server
  <2>1. ~IsAuth(c) /\ teams \in (SUBSET Keys) \cup (SUBSET Rows) /\ UNCHANGED <<session, teams, rows>>
    BY <1>1, <1>3, <1>8 DEF WellMade, IsAuth, server
  <2> QED
    BY <1>3, <1>4, <1>8, <2>1
<1>9. CASE /\ c.of = "team" /\ session
           /\ \E t \in (1..MaxTeams) \ teams : teams' = teams \cup {t} /\ Answers(i, "ok", {t})
           /\ UNCHANGED <<session, rows>>
  <2>1. PICK t \in (1..MaxTeams) \ teams : teams' = teams \cup {t} /\ Answers(i, "ok", {t})
    BY <1>9
  <2>2. ~IsAuth(c) /\ t \in Keys /\ {t} \in (SUBSET Keys) \cup (SUBSET Rows)
    BY <1>1, <1>9 DEF WellMade, IsAuth, Keys
  <2>3. teams' \subseteq Keys /\ OneTeam({t})
    BY <1>3, <2>1, <2>2 DEF OneTeam
  <2> QED
    BY <1>3, <1>4, <1>9, <2>1, <2>2, <2>3
<1>10. CASE /\ c.of = "unteam" /\ session /\ c.key \in teams
            /\ teams' = teams \ {c.key} /\ rows' = [rows EXCEPT ![c.key] = {}]
            /\ Answers(i, "ok", {}) /\ UNCHANGED session
  <2>1. ~IsAuth(c) /\ Works(c) /\ teams' \subseteq Keys /\ teams' \subseteq teams
    BY <1>1, <1>3, <1>10 DEF WellMade, IsAuth, Works
  <2>2. rows' \in [Keys -> SUBSET Rows] /\ session' \in BOOLEAN
    BY <1>3, <1>10
  <2> QED
    BY <1>4, <1>5, <1>10, <2>1, <2>2
<1>11. CASE c.of = "load" /\ session /\ c.key \in teams /\ Answers(i, "ok", rows[c.key]) /\ UNCHANGED server
  <2>1. ~IsAuth(c) /\ UNCHANGED <<session, teams, rows>>
    BY <1>1, <1>11 DEF WellMade, IsAuth, server
  <2>2. PICK items : items = rows[c.key]
    OBVIOUS
  <2>5. c.key \in Keys
    BY <1>3, <1>11
  <2>6. items \in SUBSET Rows
    BY <1>3, <2>2, <2>5
  <2>3. items \in SUBSET Rows /\ items \in (SUBSET Keys) \cup (SUBSET Rows)
    BY <2>6
  <2>4. Answers(i, "ok", items)
    BY <1>11, <2>2
  <2> QED
    BY <1>3, <1>4, <1>11, <2>1, <2>2, <2>3, <2>4
<1>12. CASE /\ c.of \in {"add", "recipe"} /\ session /\ c.key \in teams
            /\ rows' = [rows EXCEPT ![c.key] = @ \cup c.row]
            /\ Answers(i, "ok", {}) /\ UNCHANGED <<session, teams>>
  <2>1. ~IsAuth(c) /\ Works(c)
    BY <1>1, <1>2, <1>12 DEF WellMade, IsAuth, Works
  <2>2. rows' \in [Keys -> SUBSET Rows]
    BY <1>2, <1>3, <1>12
  <2> QED
    BY <1>3, <1>4, <1>5, <1>12, <2>1, <2>2
<1>13. CASE /\ c.of = "remove" /\ session /\ c.row \subseteq rows[c.key]
            /\ rows' = [rows EXCEPT ![c.key] = @ \ c.row]
            /\ Answers(i, "ok", {}) /\ UNCHANGED <<session, teams>>
  <2>1. ~IsAuth(c) /\ Works(c) /\ c.key \in Keys
    BY <1>1, <1>2, <1>13 DEF WellMade, IsAuth, Works
  <2>2. rows' \in [Keys -> SUBSET Rows] /\ rows'[c.key] = rows[c.key] \ c.row
    BY <1>2, <1>3, <1>13, <2>1
  <2> QED
    BY <1>3, <1>4, <1>5, <1>13, <2>1, <2>2
<1> QED
  BY <1>6, <1>7, <1>8, <1>9, <1>10, <1>11, <1>12, <1>13 DEF Handles

(* A request that is refused, or is lost, says nothing. *)
LEMMA RequestFails ==
    ASSUME IInv, NEW i \in DOMAIN calls, Refuses(i) \/ Loses(i)
    PROVE  IInv'
<1> PICK c : c = calls[i]
  OBVIOUS
<1> PICK d : d = [c EXCEPT !.answer = "refused", !.items = {}]
  OBVIOUS
<1>1. c \in Requests /\ WellMade(c)
  BY Parts
<1>2. /\ d.of = c.of /\ d.by = c.by /\ d.key = c.key /\ d.row = c.row /\ d.base = c.base
      /\ d.bare = c.bare /\ d.answer = "refused" /\ d.items = {} /\ d \in Requests
  <2>1. {} \in (SUBSET Keys) \cup (SUBSET Rows)
    OBVIOUS
  <2> HIDE DEF Keys
  <2> QED
    BY <1>1, <2>1 DEF Requests
<1>3. /\ session \in BOOLEAN /\ user \in BOOLEAN /\ teams \subseteq Keys /\ rows \in [Keys -> SUBSET Rows]
      /\ raced \in BOOLEAN /\ faults \in 0..MaxFaults /\ MaxFaults \in Nat
  BY ConsoleAssumption DEF IInv, TypeOK
<1>4. /\ calls' = [calls EXCEPT ![i] = d]
      /\ UNCHANGED <<auth, page, frame, listing>> /\ UNCHANGED <<session, teams, rows>>
  BY Parts DEF Refuses, Loses, Answers, server
<1>5. /\ raced' \in BOOLEAN /\ faults' \in 0..MaxFaults /\ (raced => raced')
  <2>1. faults' = faults \/ (faults < MaxFaults /\ faults' = faults + 1)
    BY DEF Refuses, Loses, Answers
  <2>2. raced' = raced \/ raced' = (raced \/ calls[i].by = "auth")
    BY DEF Refuses, Loses, Answers
  <2>3. faults' \in 0..MaxFaults
    BY <1>3, <2>1
  <2>4. raced' \in BOOLEAN /\ (raced => raced')
    BY <1>3, <2>2
  <2> QED
    BY <2>3, <2>4
<1>6. IsAuth(c) /\ ~raced' /\ Tells(c, user, session) => Tells(d, user, session')
  <2> SUFFICES ASSUME IsAuth(c), ~raced', Tells(c, user, session) PROVE Tells(d, user, session')
    OBVIOUS
  <2>1. Refuses(i) /\ c.answer = "none"
    BY DEF Loses, IsAuth, Refuses
  <2>2. c.of \in {"me", "refresh", "profile", "login", "register", "logout"}
    BY <1>1 DEF WellMade, IsAuth
  <2>3. c.of = "me" => session = FALSE
    BY <1>3, <2>1 DEF Refuses
  <2>4. c.of = "me" \/ user = session
    BY <2>1 DEF Tells
  <2>5. UserAfter(d, user) = IF c.of = "me" THEN FALSE ELSE user
    BY <1>2, <2>2 DEF UserAfter
  <2> QED
    BY <1>2, <1>4, <2>3, <2>4, <2>5 DEF Tells
<1>7. Listed /\ Works(c) /\ Fits(c) => Fits(d)'
  BY <1>2, <1>4 DEF Fits, frame, listing
<1>8. d.answer # "none" /\ d.answer # "ok" /\ d.items \subseteq Rows
  BY <1>2
<1>9. session' \in BOOLEAN /\ teams' \subseteq Keys /\ rows' \in [Keys -> SUBSET Rows] /\ teams' \subseteq teams
  BY <1>3, <1>4
<1> HIDE DEF Keys, Requests
<1>10. Follows(c, d)
  BY <1>2, <1>4, <1>5, <1>6, <1>7, <1>8, <1>9 DEF Follows
<1> QED
  BY <1>4, <1>10, AnswerComes

LEMMA SessionExpires ==
    ASSUME IInv, Expires
    PROVE  IInv'
<1>1. /\ session' = FALSE /\ raced' = TRUE /\ faults' = faults + 1 /\ faults < MaxFaults
      /\ UNCHANGED <<teams, rows, auth, page, frame, listing, calls>>
  BY DEF Expires
<1>2. UNCHANGED <<user, starting, known, active, chosen, list, mixed>>
  BY <1>1 DEF auth, frame, listing
<1>3. Made(calls') /\ Limited(calls')
  BY <1>1 DEF IInv
<1>4. TypeOK'
  <2>1. faults' \in 0..MaxFaults
    BY <1>1, ConsoleAssumption DEF IInv, TypeOK
  <2> QED
    BY <1>1, <1>2, <1>3, <2>1, TypesKept DEF IInv, TypeOK
<1>5. Mounted(calls)'
  BY <1>1, <1>2 DEF IInv, Mounted, InDashboard
<1>6. Session(calls)'
  BY <1>1, <1>2 DEF IInv, Session, Agrees
<1>7. Listing(calls)'
  BY <1>1, <1>2 DEF IInv, Listing, Listed, Fits
<1>8. Choice(calls)'
  BY <1>1, <1>2 DEF IInv, Choice, ChoiceIsKept, Kept
<1> QED
  BY <1>3, <1>4, <1>5, <1>6, <1>7, <1>8 DEF IInv

-----------------------------------------------------------------------------
(* Steps that take an answer to the list *)

(* The list of team a is asked for, and of no other, and nothing else is under way
   that would change it. *)
LEMMA LoadIsAlone ==
    ASSUME NEW t \in Seq(Requests), NEW a \in Keys, calls' = Append(t, LoadCall(a)),
           Listed' /\ ~mixed' => active' = a /\ ~Working(t)
    PROVE  Listing(calls)'
<1> DEFINE c == LoadCall(a)
           e == Len(t) + 1
<1>1. c \in Requests /\ c.by = "list" /\ c.of = "load" /\ c.key = a /\ c.answer = "none" /\ Works(c)
  BY LoadCallParts
<1>2. calls' = Append(t, c)
  OBVIOUS
<1> HIDE DEF c
<1>3. /\ DOMAIN calls' = DOMAIN t \cup {e} /\ e \notin DOMAIN t
      /\ \A k \in DOMAIN t : calls'[k] = t[k]
      /\ calls'[e] = c
  BY <1>1, <1>2, Appended
<1> HIDE DEF e
<1>4. ASSUME Listed', ~mixed'
      PROVE  /\ \A k \in DOMAIN calls' : Works(calls'[k]) => k = e
             /\ active' = a
  <2>1. \A k \in DOMAIN t : ~Works(t[k])
    BY <1>4 DEF Working, Works
  <2> QED
    BY <1>3, <1>4, <2>1
<1>5. ASSUME Listed', ~mixed'
      PROVE  (\A k \in DOMAIN calls : Works(calls[k]) => Fits(calls[k]))'
  BY <1>1, <1>3, <1>4, <1>5 DEF Fits
<1>6. e \in DOMAIN calls' /\ Works(calls'[e])
  BY <1>1, <1>3
<1> QED
  BY <1>4, <1>5, <1>6 DEF Listing

(* To ask for a list is always possible, and nothing but the list depends on it. *)
LEMMA LoadIsAsked ==
    ASSUME NEW t \in Seq(Requests), Made(t), Len(t) <= MaxCalls, Cardinality(Heavy(t)) <= MaxCalls,
           NEW a \in Keys, NEW z, z = Append(t, LoadCall(a))
    PROVE  /\ z \in Seq(Requests) /\ Made(z) /\ Limited(z) /\ z # t
           /\ \A u, starts, there, races :
                 Agrees(t, u, starts, there, races) => Agrees(z, u, starts, there, races)
           /\ \A choice, there : Kept(t, choice, there) => Kept(z, choice, there)
<1> DEFINE l == LoadCall(a)
<1>1. l \in Requests /\ WellMade(l) /\ ~IsAuth(l) /\ Slight(l) /\ ~Bare(l) /\ ~IsNew(l)
  BY LoadCallParts
<1>2. z = Append(t, l)
  OBVIOUS
<1> HIDE DEF l
<1>3. z \in Seq(Requests) /\ Len(z) = Len(t) + 1 /\ Len(t) \in Nat
  BY <1>1, <1>2, Appended
<1>4. Made(Append(t, l))
  BY <1>1, MadeAppend
<1>5. Limited(Append(t, l))
  BY <1>1, LimitedAppend
<1>6. ASSUME NEW u, NEW starts, NEW there, NEW races, Agrees(t, u, starts, there, races)
      PROVE  Agrees(Append(t, l), u, starts, there, races)
  BY <1>1, <1>6, AgreesAppend
<1>7. ASSUME NEW choice, NEW there, Kept(t, choice, there)
      PROVE  Kept(Append(t, l), choice, there)
  BY <1>1, <1>7, KeptAppend
<1> QED
  BY <1>2, <1>3, <1>4, <1>5, <1>6, <1>7

(* The handlers of a list that go on while the page is open. *)
LEMMA ListIsAnswered ==
    ASSUME IInv, NEW i \in DOMAIN calls, NEW c, c = calls[i], c.by = "list",
           NEW t, t = RemoveAt(calls, i),
           \/ calls' = t
           \/ calls' = Append(t, LoadCall(c.key)) /\ mixed' = (mixed \/ Working(t)),
           calls' = t /\ Listed /\ ~mixed' =>
              ~mixed /\ (Fits(c) => list'.of = active /\ list'.items = rows[active]),
           list' \in [of : 0..MaxTeams, items : SUBSET Rows, loading : BOOLEAN], mixed' \in BOOLEAN,
           UNCHANGED <<server, auth, page, frame, faults, raced>>
    PROVE  IInv'
<1>1. c \in Requests /\ WellMade(c)
  BY Parts
<1>2. ~IsAuth(c) /\ Works(c) /\ IsFrames(c) /\ c.key \in Keys
  <2>1. c.of \in {"load", "add", "remove"}
    BY <1>1 DEF WellMade
  <2> QED
    BY <1>1, <2>1 DEF WellMade, IsAuth, Works, IsFrames
<1>3. UNCHANGED <<session, teams, rows, user, starting, known, active, chosen>>
  BY DEF server, auth, frame
<1>4. /\ t \in Seq(Requests) /\ Made(t) /\ Limited(t) /\ Len(t) <= MaxCalls
      /\ Cardinality(Heavy(t)) <= MaxCalls
      /\ Agrees(t, user, starting, session, raced)
      /\ Kept(t, chosen, teams)
      /\ \A j \in DOMAIN t : \E k \in DOMAIN calls \ {i} : t[j] = calls[k]
  BY <1>2, BackHome DEF IInv, Session, Choice
<1>5. calls' = t \/ (calls' = Append(t, LoadCall(c.key)) /\ mixed' = (mixed \/ Working(t)))
  OBVIOUS
<1>6. /\ Made(calls') /\ Limited(calls')
      /\ Agrees(calls', user, starting, session, raced)
      /\ Kept(calls', chosen, teams)
  <2>1. CASE calls' = t
    BY <1>4, <2>1
  <2>2. CASE calls' = Append(t, LoadCall(c.key))
    <3> PICK z : z = calls'
      OBVIOUS
    <3>1. /\ Made(z) /\ Limited(z)
          /\ \A u, starts, there, races :
                 Agrees(t, u, starts, there, races) => Agrees(z, u, starts, there, races)
          /\ \A choice, there : Kept(t, choice, there) => Kept(z, choice, there)
      <4>1. z = Append(t, LoadCall(c.key)) /\ c.key \in Keys
        BY <1>2, <2>2
      <4> QED
        BY <1>4, <4>1, LoadIsAsked, Zenon
    <3>2. Agrees(z, user, starting, session, raced)
      BY <1>4, <3>1
    <3> QED
      BY <1>4, <3>1, <3>2
  <2> QED
    BY <1>5, <2>1, <2>2
<1>7. Made(calls') /\ Limited(calls')
  BY <1>6
<1>8. TypeOK'
  BY <1>3, <1>7, TypesKept DEF IInv, TypeOK
<1>9. Mounted(calls)'
  <2>1. InDashboard
    BY <1>2 DEF IInv, Mounted
  <2> QED
    BY <1>3, <2>1 DEF Mounted, InDashboard
<1>10. Session(calls)'
  BY <1>3, <1>6 DEF Session, Agrees
<1>11. Choice(calls)'
  BY <1>3, <1>6 DEF IInv, Choice, ChoiceIsKept, Kept
<1>12. ASSUME Listed, ~mixed
       PROVE  Fits(c) /\ \A j \in DOMAIN t : ~Works(t[j])
  BY <1>2, <1>4, <1>12 DEF IInv, Listing
<1>13. Listing(calls)'
  <2>1. Listed' <=> Listed
    BY <1>3 DEF Listed
  <2>2. CASE calls' = t
    <3>1. ASSUME Listed, ~mixed'
          PROVE  /\ \A k \in DOMAIN calls' : ~Works(calls'[k])
                 /\ list'.of = active' /\ list'.items = rows'[active']
      BY <1>3, <1>12, <2>2, <3>1
    <3> QED
      BY <2>1, <3>1 DEF Listing
  <2>3. CASE calls' = Append(t, LoadCall(c.key)) /\ mixed' = (mixed \/ Working(t))
    <3>1. Listed' /\ ~mixed' => active' = c.key /\ ~Working(t)
      BY <1>3, <1>12, <2>1, <2>3 DEF Fits
    <3> QED
      BY <1>2, <1>4, <2>3, <3>1, LoadIsAlone
  <2> QED
    BY <1>5, <2>2, <2>3
<1> QED
  BY <1>7, <1>8, <1>9, <1>10, <1>11, <1>13 DEF IInv

LEMMA RowsAreAnswered ==
    ASSUME IInv, NEW i \in DOMAIN calls, Loaded(i) \/ RowRemoved(i) \/ RowAdded(i)
    PROVE  IInv'
<1> PICK c : c = calls[i]
  OBVIOUS
<1> PICK t : t = RemoveAt(calls, i)
  OBVIOUS
<1>1. c \in Requests /\ WellMade(c) /\ c.by = "list" /\ c.answer # "none"
  BY Parts DEF Loaded, RowRemoved, RowAdded
<1>2. /\ c.base \in SUBSET Rows /\ c.row \in SUBSET Rows /\ c.key \in 0..MaxTeams
      /\ c.answer \in {"ok", "refused"}
  BY <1>1, RequestParts
<1>3. mixed \in BOOLEAN /\ list \in [of : 0..MaxTeams, items : SUBSET Rows, loading : BOOLEAN]
  BY DEF IInv, TypeOK
<1>4. UNCHANGED <<server, auth, page, frame, faults, raced>>
  BY DEF Loaded, RowRemoved, RowAdded
<1>5. /\ Loading(list, page) \in [of : 0..MaxTeams, items : SUBSET Rows, loading : BOOLEAN]
      /\ Working(t) \in BOOLEAN
  BY <1>3, LoadingParts DEF Working
<1>9. CASE LoadsAgain(t, c.key)
  <2>1. calls' = Append(t, LoadCall(c.key)) /\ list' = Loading(list, page) /\ mixed' = (mixed \/ Working(t))
    BY <1>9 DEF LoadsAgain
  <2>2. list' \in [of : 0..MaxTeams, items : SUBSET Rows, loading : BOOLEAN] /\ mixed' \in BOOLEAN
    BY <1>3, <1>5, <2>1
  <2>3. calls' # t
    <3>1. c.of \in {"load", "add", "remove"}
      BY <1>1 DEF WellMade
    <3>2. c.key \in Keys
      BY <1>1, <3>1 DEF WellMade
    <3>3. /\ t \in Seq(Requests) /\ Made(t) /\ Len(t) <= MaxCalls
          /\ Cardinality(Heavy(t)) <= MaxCalls
      BY BackHome DEF IInv
    <3> QED
      BY <2>1, <3>2, <3>3, LoadIsAsked
  <2> QED
    BY <1>1, <1>4, <2>1, <2>2, <2>3, ListIsAnswered
<1>6. CASE Loaded(i)
  <2>1. /\ c.of = "load" /\ calls' = t /\ list' = ListAfter(c)
        /\ mixed' = (mixed \/ c.answer # "ok")
    BY <1>6 DEF Loaded
  <2>2. c.items \in SUBSET Rows
    BY <1>1, <2>1 DEF WellMade
  <2>3. list' \in [of : 0..MaxTeams, items : SUBSET Rows, loading : BOOLEAN]
    BY <1>2, <1>3, <2>1, <2>2 DEF ListAfter
  <2>4. mixed' \in BOOLEAN
    BY <1>3, <2>1
  <2>5. ~mixed' => ~mixed /\ (Fits(c) => list'.of = active /\ list'.items = rows[active])
    BY <2>1 DEF ListAfter, Fits
  <2> QED
    BY <1>1, <1>4, <2>1, <2>3, <2>4, <2>5, ListIsAnswered
<1>7. CASE RowRemoved(i)
  <2>1. /\ c.of = "remove"
        /\ \/ c.answer # "ok" /\ calls' = t /\ mixed' = TRUE /\ list' = list
           \/ c.answer = "ok" /\ LoadsAgain(t, c.key)
           \/ /\ c.answer = "ok" /\ calls' = t /\ list' = [list EXCEPT !.items = c.base \ c.row]
              /\ mixed' = mixed
    BY <1>7 DEF RowRemoved
  <2>2. CASE c.answer # "ok" /\ calls' = t /\ mixed' = TRUE /\ list' = list
    BY <1>1, <1>3, <1>4, <2>2, ListIsAnswered
  <2>3. CASE LoadsAgain(t, c.key)
    BY <1>9, <2>3
  <2>4. CASE /\ c.answer = "ok" /\ calls' = t /\ list' = [list EXCEPT !.items = c.base \ c.row]
             /\ mixed' = mixed
    <3>1. list' \in [of : 0..MaxTeams, items : SUBSET Rows, loading : BOOLEAN] /\ mixed' \in BOOLEAN
      BY <1>2, <1>3, <2>4
    <3>2. ~mixed' => ~mixed /\ (Fits(c) => list'.of = active /\ list'.items = rows[active])
      BY <1>3, <2>1, <2>4 DEF Fits
    <3> QED
      BY <1>1, <1>4, <2>4, <3>1, <3>2, ListIsAnswered
  <2> QED
    BY <2>1, <2>2, <2>3, <2>4
<1>8. CASE RowAdded(i)
  <2>1. \/ calls' = t /\ mixed' = TRUE /\ list' = list
        \/ LoadsAgain(t, c.key)
    BY <1>8 DEF RowAdded
  <2>2. CASE calls' = t /\ mixed' = TRUE /\ list' = list
    BY <1>1, <1>3, <1>4, <2>2, ListIsAnswered
  <2>3. CASE LoadsAgain(t, c.key)
    BY <1>9, <2>3
  <2> QED
    BY <2>1, <2>2, <2>3
<1> QED
  BY <1>6, <1>7, <1>8

-----------------------------------------------------------------------------
(* Steps that open a page *)

LEMMA TypesMoved ==
    ASSUME TypeOK, Made(calls'), Limited(calls'),
           user' \in BOOLEAN, starting' \in BOOLEAN, page' \in Pages,
           ~user' /\ ~starting' => page' = "login",
           active' \in 0..MaxTeams, chosen' \in 0..MaxTeams, known' \subseteq Keys,
           list' \in [of : 0..MaxTeams, items : SUBSET Rows, loading : BOOLEAN],
           mixed' \in BOOLEAN,
           UNCHANGED <<server, faults, raced>>
    PROVE  TypeOK'
<1>1. calls' \in Seq(Requests) /\ Len(calls') <= MaxCalls + 1
  BY DEF Made, Limited
<1>2. UNCHANGED <<session, teams, rows>>
  BY DEF server
<1> HIDE DEF Keys, Requests, Pages
<1> QED
  BY <1>1, <1>2 DEF TypeOK

LEMMA BlankParts ==
    /\ Blank \in [of : 0..MaxTeams, items : SUBSET Rows, loading : BOOLEAN]
    /\ {} \in SUBSET Rows /\ NoTeam \in 0..MaxTeams
  BY ConsoleAssumption DEF Blank, NoTeam

(* The page p is opened, of the team a. *)
LEMMA Opening ==
    ASSUME NEW s, Made(s), Cardinality(Heavy(s)) <= MaxCalls, NEW p \in Pages \ {"login"},
           NEW a \in 0..MaxTeams, OpensPage(s, p, a), active' = a, user', ~starting'
    PROVE  /\ Made(calls') /\ Limited(calls') /\ Mounted(calls)' /\ Listing(calls)'
           /\ page' \in Pages /\ mixed' \in BOOLEAN
           /\ list' \in [of : 0..MaxTeams, items : SUBSET Rows, loading : BOOLEAN]
           /\ \A u, starts, there, races :
                 Agrees(s, u, starts, there, races) => Agrees(calls', u, starts, there, races)
           /\ \A choice, there : Kept(s, choice, there) => Kept(calls', choice, there)
<1> PICK rest : rest = Gone(s, {"list"})
  OBVIOUS
<1>1. /\ page' = p /\ mixed' = Working(rest)
      /\ IF a # NoTeam /\ p \in TeamPages
           THEN calls' = Append(rest, LoadCall(a)) /\ list' = Loading(Blank, p)
           ELSE calls' = rest /\ list' = Blank
  BY DEF OpensPage
<1>2. /\ rest \in Seq(Requests) /\ Made(rest) /\ Limited(rest) /\ Len(rest) <= MaxCalls
      /\ Cardinality(Heavy(rest)) <= MaxCalls
      /\ \A u, starts, there, races :
            Agrees(s, u, starts, there, races) => Agrees(rest, u, starts, there, races)
      /\ \A choice, there : Kept(s, choice, there) => Kept(rest, choice, there)
  <2>1. {"list"} \in {{"list"}, {"frame", "list"}}
    OBVIOUS
  <2> QED
    BY <2>1, WithoutPage, Zenon
<1>3. mixed' \in BOOLEAN /\ page' \in Pages
  BY <1>1 DEF Working
<1>4. list' \in [of : 0..MaxTeams, items : SUBSET Rows, loading : BOOLEAN]
  BY <1>1, BlankParts, LoadingParts
<1>5. Mounted(calls)'
  BY <1>1 DEF Mounted, InDashboard
<1>6. CASE a # NoTeam /\ p \in TeamPages
  <2>1. a \in Keys
    BY <1>6 DEF Keys, NoTeam
  <2> PICK z : z = calls'
    OBVIOUS
  <2>2. z = Append(rest, LoadCall(a))
    BY <1>1, <1>6
  <2>3. /\ Made(z) /\ Limited(z)
        /\ \A u, starts, there, races :
              Agrees(rest, u, starts, there, races) => Agrees(z, u, starts, there, races)
        /\ \A choice, there : Kept(rest, choice, there) => Kept(z, choice, there)
    BY <1>2, <2>1, <2>2, LoadIsAsked, Zenon
  <2>4. /\ \A u, starts, there, races :
              Agrees(s, u, starts, there, races) => Agrees(z, u, starts, there, races)
        /\ \A choice, there : Kept(s, choice, there) => Kept(z, choice, there)
    BY <1>2, <2>3, Zenon
  <2>5. Listing(calls)'
    BY <1>1, <1>2, <1>6, <2>1, LoadIsAlone
  <2> QED
    BY <1>3, <1>4, <1>5, <2>3, <2>4, <2>5, Zenon
<1>7. CASE ~(a # NoTeam /\ p \in TeamPages)
  <2>1. calls' = rest
    BY <1>1, <1>7
  <2>2. Listing(calls)'
    BY <1>1, <1>7 DEF Listing, Listed
  <2> QED
    BY <1>2, <1>3, <1>4, <1>5, <2>1, <2>2, Zenon
<1> QED
  BY <1>6, <1>7

(* The same of a step that leaves the server and the user as they are. *)
LEMMA OpeningSteps ==
    ASSUME IInv, InDashboard, NEW s, Made(s), Cardinality(Heavy(s)) <= MaxCalls,
           Agrees(s, user, starting, session, raced), Kept(s, chosen', teams),
           NEW p \in Pages \ {"login"}, NEW a \in 0..MaxTeams, OpensPage(s, p, a), active' = a,
           known' \subseteq Keys, chosen' \in 0..MaxTeams, ChoiceIsKept',
           UNCHANGED <<server, auth, faults, raced>>
    PROVE  IInv'
<1>1. UNCHANGED <<session, teams, rows, user, starting>> /\ user' /\ ~starting'
  BY DEF server, auth, InDashboard
<1>2. /\ Made(calls') /\ Limited(calls') /\ Mounted(calls)' /\ Listing(calls)'
      /\ page' \in Pages /\ mixed' \in BOOLEAN
      /\ list' \in [of : 0..MaxTeams, items : SUBSET Rows, loading : BOOLEAN]
      /\ \A u, starts, there, races :
            Agrees(s, u, starts, there, races) => Agrees(calls', u, starts, there, races)
      /\ \A choice, there : Kept(s, choice, there) => Kept(calls', choice, there)
  BY <1>1, Opening, Zenon
<1>3. TypeOK'
  BY <1>1, <1>2, TypesMoved DEF IInv, TypeOK
<1>4. Session(calls)'
  BY <1>1, <1>2 DEF Session
<1>5. Choice(calls)'
  BY <1>1, <1>2 DEF Choice
<1> QED
  BY <1>2, <1>3, <1>4, <1>5 DEF IInv

LEMMA PageIsOpened ==
    ASSUME IInv, NEW p \in Pages, Open(p)
    PROVE  IInv'
<1>1. /\ InDashboard /\ p \in Pages \ {"login"} /\ OpensPage(calls, p, active)
      /\ UNCHANGED <<server, auth, faults, raced>>
      /\ UNCHANGED <<known, active, chosen>>
  BY DEF Open, frame
<1>2. Made(calls) /\ Cardinality(Heavy(calls)) <= MaxCalls /\ Agrees(calls, user, starting, session, raced)
  BY DEF IInv, Limited, Session
<1>3. /\ Kept(calls, chosen', teams) /\ ChoiceIsKept' /\ active' = active
      /\ active \in 0..MaxTeams /\ known' \subseteq Keys /\ chosen' \in 0..MaxTeams
  BY <1>1 DEF IInv, TypeOK, Choice, ChoiceIsKept
<1> QED
  BY <1>1, <1>2, <1>3, OpeningSteps, Zenon

-----------------------------------------------------------------------------
(* Steps that take an answer to the dashboard *)

LEMMA FrameIsAnswered ==
    ASSUME IInv, NEW i \in DOMAIN calls, NEW c, c = calls[i], c.by \in {"frame", "nobody"},
           NEW t, t = RemoveAt(calls, i)
    PROVE  /\ c.by = "frame" => InDashboard
           /\ c \in Requests /\ WellMade(c) /\ ~IsAuth(c)
           /\ t \in Seq(Requests) /\ Made(t) /\ Limited(t) /\ Len(t) <= MaxCalls
           /\ Cardinality(Heavy(t)) <= MaxCalls /\ Cardinality(Heavy(t)) < MaxCalls
           /\ Agrees(t, user, starting, session, raced)
           /\ Kept(t, chosen, teams)
           /\ ~Works(c) => Listing(t)
           /\ \A j \in DOMAIN t : \E k \in DOMAIN calls \ {i} : t[j] = calls[k]
           /\ \A k \in DOMAIN calls \ {i} : \E j \in DOMAIN t : t[j] = calls[k]
<1>1. c \in Requests /\ WellMade(c) /\ ~IsAuth(c) /\ ~Slight(c)
  BY Parts DEF IsAuth, Slight
<1>2. c.by = "frame" => InDashboard
  BY DEF IInv, Mounted, IsFrames
<1>3. /\ t \in Seq(Requests) /\ Made(t) /\ Limited(t) /\ Len(t) <= MaxCalls
      /\ Cardinality(Heavy(t)) <= MaxCalls /\ Cardinality(Heavy(t)) < MaxCalls
      /\ ~Works(c) => Listing(t)
      /\ \A j \in DOMAIN t : \E k \in DOMAIN calls \ {i} : t[j] = calls[k]
      /\ \A k \in DOMAIN calls \ {i} : \E j \in DOMAIN t : t[j] = calls[k]
  BY <1>1, BackHome DEF IInv
<1>4. /\ Agrees(t, user, starting, session, raced)
      /\ Kept(t, chosen, teams)
  BY <1>1, BackHome DEF IInv, Session, Choice
<1> QED
  BY <1>1, <1>2, <1>3, <1>4

(* The page stays open.  What nobody waits for has made the list a mixed one. *)
LEMMA FrameStays ==
    ASSUME IInv, NEW i \in DOMAIN calls, NEW c, c = calls[i], c.by \in {"frame", "nobody"},
           calls' = RemoveAt(calls, i),
           mixed' = TRUE \/ (/\ c.by = "nobody" \/ ~Works(c)
                             /\ mixed' = mixed /\ list'.of = list.of /\ list'.items = list.items),
           list' \in [of : 0..MaxTeams, items : SUBSET Rows, loading : BOOLEAN],
           known' \subseteq Keys, UNCHANGED <<server, auth, page, active, chosen, faults, raced>>
    PROVE  IInv'
<1> PICK t : t = RemoveAt(calls, i)
  OBVIOUS
<1>1. UNCHANGED <<session, teams, rows, user, starting, active, chosen>>
  BY DEF server, auth
<1>2. /\ Made(t) /\ Limited(t)
      /\ ~Works(c) => Listing(t)
      /\ Agrees(t, user, starting, session, raced) /\ Kept(t, chosen, teams)
      /\ \A j \in DOMAIN t : \E k \in DOMAIN calls \ {i} : t[j] = calls[k]
  BY FrameIsAnswered
<1>3. calls' = t /\ mixed' \in BOOLEAN
  BY DEF IInv, TypeOK
<1>4. TypeOK'
  BY <1>1, <1>2, <1>3, TypesKept DEF IInv, TypeOK
<1>5. Mounted(calls)'
  BY <1>1, <1>2, <1>3 DEF IInv, Mounted, InDashboard
<1>6. Session(calls)'
  BY <1>1, <1>2, <1>3 DEF Session
<1>7. Listing(calls)'
  <2> SUFFICES ASSUME Listed', ~mixed' PROVE Listing(calls)'
    BY DEF Listing
  <2>1. /\ Listed /\ ~mixed /\ (c.by = "nobody" \/ ~Works(c))
        /\ mixed' = mixed /\ list'.of = list.of /\ list'.items = list.items
    BY <1>1 DEF Listed
  <2>2. c.by = "nobody" => Works(c) /\ ~Fits(c)
    BY DEF Works, Fits
  <2>3. ~Works(c)
    BY <2>1, <2>2 DEF IInv, Listing
  <2>4. Listing(t)
    BY <1>2, <2>3
  <2> QED
    BY <1>1, <1>3, <2>1, <2>4 DEF Listing, Listed, Fits
<1>8. Choice(calls)'
  BY <1>1, <1>2, <1>3 DEF IInv, Choice, ChoiceIsKept
<1> QED
  BY <1>2, <1>3, <1>4, <1>5, <1>6, <1>7, <1>8 DEF IInv

LEMMA NobodyIsAnswered ==
    ASSUME IInv, NEW i \in DOMAIN calls, Ignored(i)
    PROVE  IInv'
<1>1. /\ calls[i].by = "nobody" /\ calls' = RemoveAt(calls, i)
      /\ UNCHANGED <<server, auth, page, active, chosen, faults, raced>>
      /\ mixed' = mixed /\ list' = list /\ known' = known
  BY DEF Ignored, listing, frame
<1>2. list' \in [of : 0..MaxTeams, items : SUBSET Rows, loading : BOOLEAN]
  BY <1>1 DEF IInv, TypeOK
<1>3. known' \subseteq Keys
  BY <1>1 DEF IInv, TypeOK
<1> QED
  BY <1>1, <1>2, <1>3, FrameStays

(* The new recipe, or none. *)
LEMMA RecipeIsAnswered ==
    ASSUME IInv, NEW i \in DOMAIN calls, RecipeCreated(i)
    PROVE  IInv'
<1> PICK c : c = calls[i]
  OBVIOUS
<1> PICK t : t = RemoveAt(calls, i)
  OBVIOUS
<1>1. /\ c.by = "frame" /\ UNCHANGED <<server, auth, frame, faults, raced>>
      /\ UNCHANGED <<known, active, chosen>>
  BY DEF RecipeCreated, frame
<1>2. /\ InDashboard /\ Made(t) /\ Cardinality(Heavy(t)) <= MaxCalls
      /\ Agrees(t, user, starting, session, raced) /\ Kept(t, chosen, teams)
  BY <1>1, FrameIsAnswered
<1>3. CASE OpensPage(t, "overview", active)
  <2>1. /\ Kept(t, chosen', teams) /\ ChoiceIsKept' /\ active' = active
        /\ active \in 0..MaxTeams /\ known' \subseteq Keys /\ chosen' \in 0..MaxTeams
    BY <1>1, <1>2 DEF IInv, TypeOK, Choice, ChoiceIsKept
  <2>2. "overview" \in Pages \ {"login"}
    BY DEF Pages
  <2> QED
    BY <1>1, <1>2, <1>3, <2>1, <2>2, OpeningSteps, Zenon
<1>4. CASE calls' = t /\ mixed' = TRUE /\ UNCHANGED <<page, list>>
  <2>1. list' \in [of : 0..MaxTeams, items : SUBSET Rows, loading : BOOLEAN]
    BY <1>4 DEF IInv, TypeOK
  <2>2. UNCHANGED <<server, auth, page, active, chosen, faults, raced>> /\ known' \subseteq Keys
    BY <1>1, <1>4 DEF IInv, TypeOK
  <2> QED
    BY <1>1, <1>4, <2>1, <2>2, FrameStays
<1> QED
  BY <1>3, <1>4 DEF RecipeCreated

(* The team that is gone stays the active one. *)
LEMMA DeleteIsAnswered ==
    ASSUME IInv, NEW i \in DOMAIN calls, TeamDeleted(i)
    PROVE  IInv'
<1> PICK c : c = calls[i]
  OBVIOUS
<1> PICK t : t = RemoveAt(calls, i)
  OBVIOUS
<1>1. /\ c.by = "frame" /\ UNCHANGED <<server, auth, frame, faults, raced>>
      /\ UNCHANGED <<known, active, chosen>>
  BY DEF TeamDeleted, frame
<1>2. /\ InDashboard /\ Made(t) /\ t \in Seq(Requests)
      /\ Len(t) <= MaxCalls /\ Cardinality(Heavy(t)) < MaxCalls
      /\ Agrees(t, user, starting, session, raced) /\ Kept(t, chosen, teams)
  BY <1>1, FrameIsAnswered
<1>3. CASE OpensPage(Append(t, TeamsCall(FALSE)), "overview", active)
  <2> PICK q : q = TeamsCall(FALSE)
    OBVIOUS
  <2> PICK s : s = Append(t, q)
    OBVIOUS
  <2>1. q \in Requests /\ WellMade(q) /\ ~IsAuth(q) /\ ~IsNew(q) /\ ~Bare(q)
    BY TeamsCallParts DEF Bare
  <2>2. Made(s) /\ Limited(s)
    BY <1>2, <2>1, MadeAppend, LimitedAppend
  <2>3. Made(s) /\ Cardinality(Heavy(s)) <= MaxCalls
    BY <2>2 DEF Limited
  <2>4. Agrees(s, user, starting, session, raced)
    BY <1>2, <2>1, AgreesAppend
  <2>5. Kept(s, chosen, teams)
    BY <1>2, <2>1, KeptAppend
  <2>6. /\ Kept(s, chosen', teams) /\ ChoiceIsKept' /\ active' = active
        /\ active \in 0..MaxTeams /\ known' \subseteq Keys /\ chosen' \in 0..MaxTeams
    BY <1>1, <2>5 DEF IInv, TypeOK, Choice, ChoiceIsKept
  <2>7. "overview" \in Pages \ {"login"} /\ OpensPage(s, "overview", active)
    BY <1>3 DEF Pages
  <2> QED
    BY <1>1, <1>2, <2>3, <2>4, <2>6, <2>7, OpeningSteps, Zenon
<1>4. CASE calls' = t /\ mixed' = TRUE /\ UNCHANGED <<page, list>>
  <2>1. list' \in [of : 0..MaxTeams, items : SUBSET Rows, loading : BOOLEAN]
    BY <1>4 DEF IInv, TypeOK
  <2>2. UNCHANGED <<server, auth, page, active, chosen, faults, raced>> /\ known' \subseteq Keys
    BY <1>1, <1>4 DEF IInv, TypeOK
  <2> QED
    BY <1>1, <1>4, <2>1, <2>2, FrameStays
<1> QED
  BY <1>3, <1>4 DEF TeamDeleted

(* The new team is the active one, and the list of teams is asked for. *)
LEMMA TeamIsAnswered ==
    ASSUME IInv, NEW i \in DOMAIN calls, TeamCreated(i)
    PROVE  IInv'
<1> PICK c : c = calls[i]
  OBVIOUS
<1> PICK t : t = RemoveAt(calls, i)
  OBVIOUS
<1>1. /\ c.of = "team" /\ c.by = "frame" /\ c.answer # "none"
      /\ UNCHANGED <<server, auth, faults, raced>>
  BY DEF TeamCreated
<1>2. /\ InDashboard /\ c \in Requests /\ WellMade(c) /\ Made(t) /\ t \in Seq(Requests)
      /\ Len(t) <= MaxCalls /\ Cardinality(Heavy(t)) < MaxCalls
      /\ Agrees(t, user, starting, session, raced) /\ Kept(t, chosen, teams)
  BY <1>1, FrameIsAnswered
<1>3. CASE c.answer = "ok"
  <2> PICK a : a = CHOOSE x \in c.items : TRUE
    OBVIOUS
  <2>1. a \in Keys /\ a \in 0..MaxTeams /\ a # NoTeam
    <3>1. OneTeam(c.items)
      BY <1>1, <1>2, <1>3 DEF WellMade
    <3>2. a \in c.items /\ c.items \subseteq Keys
      BY <3>1 DEF OneTeam
    <3> QED
      BY <3>2, Parts
  <2>2. /\ active' = a
        /\ chosen' = IF Choosing(t) \/ (c.bare /\ teams # {a}) \/ \E j \in DOMAIN t : t[j].of = "team"
                     THEN NoTeam ELSE a
        /\ OpensPage(Append(t, TeamsCall(c.bare)), "members", a)
        /\ known' = known
    BY <1>3 DEF TeamCreated
  <2> PICK q : q = TeamsCall(c.bare)
    OBVIOUS
  <2> PICK s : s = Append(t, q)
    OBVIOUS
  <2>3. c.bare \in BOOLEAN
    BY <1>2, RequestParts
  <2>4. /\ q \in Requests /\ WellMade(q) /\ ~IsAuth(q) /\ ~IsNew(q)
        /\ q.of = "teams" /\ q.bare = c.bare /\ q.items = {}
    BY <2>3, TeamsCallParts
  <2>5. Made(s) /\ Limited(s)
    BY <1>2, <2>4, MadeAppend, LimitedAppend
  <2>6. Made(s) /\ Cardinality(Heavy(s)) <= MaxCalls
    BY <2>5 DEF Limited
  <2>7. Agrees(s, user, starting, session, raced)
    BY <1>2, <2>4, AgreesAppend
  <2>8. Kept(s, chosen', teams)
    <3> SUFFICES ASSUME chosen' # NoTeam, NEW k \in DOMAIN s, Bare(s[k])
                 PROVE  /\ s[k].of = "teams" /\ s[k].items \subseteq {chosen'}
                        /\ teams \subseteq {chosen'} /\ \A j \in DOMAIN s : ~IsNew(s[j])
      BY DEF Kept
    <3>1. /\ chosen' = a /\ ~Choosing(t) /\ (c.bare => teams = {a})
          /\ \A j \in DOMAIN t : t[j].of # "team"
      BY <2>2
    <3>2. /\ DOMAIN s = DOMAIN t \cup {Len(t) + 1}
          /\ \A j \in DOMAIN t : s[j] = t[j]
          /\ s[Len(t) + 1] = q
      BY <1>2, <2>4, Appended
    <3>3. \A j \in DOMAIN t : ~Bare(t[j]) /\ ~IsNew(t[j])
      BY <3>1 DEF Choosing, Bare, IsNew
    <3>4. s[k] = q
      BY <3>2, <3>3
    <3>5. c.bare
      BY <2>4, <3>4 DEF Bare
    <3> QED
      BY <2>4, <3>1, <3>2, <3>3, <3>4, <3>5
  <2>9. /\ ChoiceIsKept' /\ known' \subseteq Keys /\ chosen' \in 0..MaxTeams
    BY <2>1, <2>2, ConsoleAssumption DEF ChoiceIsKept, IInv, TypeOK, NoTeam
  <2>10. "members" \in Pages \ {"login"} /\ OpensPage(s, "members", a)
    BY <2>2 DEF Pages, TeamPages
  <2> QED
    BY <1>1, <1>2, <2>1, <2>2, <2>6, <2>7, <2>8, <2>9, <2>10, OpeningSteps, Zenon
<1>4. CASE c.answer # "ok"
  <2>1. /\ calls' = t /\ list' = [list EXCEPT !.loading = @ /\ page # "newteam"]
        /\ UNCHANGED <<page, mixed, frame>>
    BY <1>4 DEF TeamCreated
  <2>2. /\ list' \in [of : 0..MaxTeams, items : SUBSET Rows, loading : BOOLEAN]
        /\ list'.of = list.of /\ list'.items = list.items
    BY <2>1 DEF IInv, TypeOK
  <2>3. /\ UNCHANGED <<server, auth, page, active, chosen, faults, raced>> /\ mixed' = mixed
        /\ known' \subseteq Keys
    BY <1>1, <2>1 DEF frame, IInv, TypeOK
  <2>4. ~Works(c)
    BY <1>1 DEF Works
  <2> QED
    BY <1>1, <2>1, <2>2, <2>3, <2>4, FrameStays
<1> QED
  BY <1>3, <1>4

(* The team a is active from now on. *)
LEMMA Activating ==
    ASSUME IInv, InDashboard, NEW s \in Seq(Requests), Made(s), Limited(s), Len(s) <= MaxCalls,
           Agrees(s, user, starting, session, raced), Kept(s, chosen', teams), Listing(s),
           NEW a \in Keys, Activate(s, a),
           known' \subseteq Keys, chosen' \in 0..MaxTeams, ChoiceIsKept',
           UNCHANGED <<server, auth, page, faults, raced>>
    PROVE  IInv'
<1>1. UNCHANGED <<session, teams, rows, user, starting, page>>
  BY DEF server, auth
<1>2. /\ active' = a /\ active' \in 0..MaxTeams /\ a # NoTeam
      /\ \/ /\ TeamEffect(page, a) /\ calls' = Append(s, LoadCall(a))
            /\ list' = Loading(list, page) /\ mixed' = Working(s)
         \/ ~TeamEffect(page, a) /\ calls' = s /\ UNCHANGED <<list, mixed>>
  BY Parts DEF Activate, listing
<1>3. /\ Made(calls') /\ Limited(calls')
      /\ Agrees(calls', user, starting, session, raced) /\ Kept(calls', chosen', teams)
  <2>1. CASE calls' = s
    BY <2>1
  <2>2. CASE calls' = Append(s, LoadCall(a))
    <3> PICK z : z = calls'
      OBVIOUS
    <3>0. Cardinality(Heavy(s)) <= MaxCalls
      BY DEF Limited
    <3>1. /\ Made(z) /\ Limited(z)
          /\ \A u, starts, there, races :
                Agrees(s, u, starts, there, races) => Agrees(z, u, starts, there, races)
          /\ \A choice, there : Kept(s, choice, there) => Kept(z, choice, there)
      <4>1. z = Append(s, LoadCall(a))
        BY <2>2
      <4> QED
        BY <3>0, <4>1, LoadIsAsked, Zenon
    <3> QED
      BY <3>1, Zenon
  <2> QED
    BY <1>2, <2>1, <2>2
<1>4. mixed' \in BOOLEAN /\ list' \in [of : 0..MaxTeams, items : SUBSET Rows, loading : BOOLEAN]
  <2>1. mixed \in BOOLEAN /\ list \in [of : 0..MaxTeams, items : SUBSET Rows, loading : BOOLEAN]
    BY DEF IInv, TypeOK
  <2>2. Working(s) \in BOOLEAN
    BY DEF Working
  <2> QED
    BY <1>2, <2>1, <2>2, LoadingParts
<1>5. TypeOK'
  BY <1>1, <1>2, <1>3, <1>4, TypesMoved DEF IInv, TypeOK
<1>6. Mounted(calls)'
  BY <1>1 DEF Mounted, InDashboard
<1>7. Session(calls)'
  BY <1>1, <1>3 DEF Session
<1>8. Choice(calls)'
  BY <1>1, <1>3 DEF Choice
<1>9. Listing(calls)'
  <2>1. CASE /\ TeamEffect(page, a) /\ calls' = Append(s, LoadCall(a)) /\ mixed' = Working(s)
    BY <1>2, <2>1, LoadIsAlone
  <2>2. CASE ~TeamEffect(page, a) /\ calls' = s /\ UNCHANGED <<list, mixed>>
    <3>1. Listed' => active' = active /\ Listed
      BY <1>1, <1>2, <2>2 DEF TeamEffect, Listed
    <3> QED
      BY <1>1, <2>2, <3>1 DEF Listing, Fits
  <2> QED
    BY <1>2, <2>1, <2>2
<1> QED
  BY <1>3, <1>5, <1>6, <1>7, <1>8, <1>9 DEF IInv

LEMMA TeamIsSelected ==
    ASSUME IInv, NEW a \in 1..MaxTeams, SelectTeam(a)
    PROVE  IInv'
<1>1. /\ InDashboard /\ Room /\ Activate(calls, a)
      /\ chosen' = IF Choosing(calls) THEN NoTeam ELSE a
      /\ UNCHANGED <<server, auth, page, known, faults, raced>>
  BY DEF SelectTeam
<1>2. a \in Keys /\ a \in 0..MaxTeams /\ NoTeam \in 0..MaxTeams
  BY ConsoleAssumption DEF Keys, NoTeam
<1>3. /\ calls \in Seq(Requests) /\ Made(calls) /\ Limited(calls) /\ Len(calls) <= MaxCalls
      /\ Agrees(calls, user, starting, session, raced) /\ Listing(calls)
  BY <1>1, Parts DEF IInv, Session, Room
<1>4. Kept(calls, chosen', teams)
  BY <1>1 DEF Kept, Choosing, Bare
<1>5. /\ known' \subseteq Keys /\ chosen' \in 0..MaxTeams /\ ChoiceIsKept'
      /\ UNCHANGED <<server, auth, page, faults, raced>>
  <2>1. active' = a
    BY <1>1 DEF Activate
  <2> QED
    BY <1>1, <1>2, <2>1 DEF ChoiceIsKept, IInv, TypeOK
<1> QED
  BY <1>1, <1>2, <1>3, <1>4, <1>5, Activating, Zenon

LEMMA TeamsAreAnswered ==
    ASSUME IInv, NEW i \in DOMAIN calls, TeamsAnswered(i)
    PROVE  IInv'
<1> PICK c : c = calls[i]
  OBVIOUS
<1> PICK t : t = RemoveAt(calls, i)
  OBVIOUS
<1>1. /\ c.of = "teams" /\ c.by = "frame" /\ c.answer # "none"
      /\ known' = IF c.answer = "ok" THEN c.items ELSE known
      /\ IF MakesFirst(c) THEN Activate(t, Min(c.items))
                          ELSE calls' = t /\ UNCHANGED <<active, listing>>
      /\ UNCHANGED <<server, auth, page, chosen, faults, raced>>
  BY DEF TeamsAnswered
<1>2. ~Works(c)
  BY <1>1 DEF Works
<1>3. /\ InDashboard /\ WellMade(c) /\ t \in Seq(Requests) /\ Made(t) /\ Limited(t) /\ Len(t) <= MaxCalls
      /\ Agrees(t, user, starting, session, raced) /\ Kept(t, chosen, teams) /\ Listing(t)
  BY <1>1, <1>2, FrameIsAnswered
<1>4. c.items \subseteq Keys /\ known' \subseteq Keys /\ chosen' \in 0..MaxTeams /\ chosen' = chosen
  BY <1>1, <1>3 DEF WellMade, IInv, TypeOK
<1>5. CASE MakesFirst(c)
  <2>1. c.items # {} /\ Bare(c)
    BY <1>1, <1>5 DEF MakesFirst, Bare
  <2> PICK a : a = Min(c.items)
    OBVIOUS
  <2>2. a \in c.items /\ a \in Keys
    BY <1>4, <2>1, MinIsElement
  <2>3. Activate(t, a) /\ active' = a
    BY <1>1, <1>5 DEF Activate
  <2>4. chosen # NoTeam => c.items \subseteq {chosen}
    BY <2>1 DEF IInv, Choice, Kept
  <2>5. ChoiceIsKept' /\ Kept(t, chosen', teams)
    BY <1>3, <1>4, <2>2, <2>3, <2>4 DEF ChoiceIsKept
  <2>6. UNCHANGED <<server, auth, page, faults, raced>>
    BY <1>1
  <2> QED
    BY <1>3, <1>4, <2>2, <2>3, <2>5, <2>6, Activating, Zenon
<1>6. CASE ~MakesFirst(c)
  <2>1. /\ calls' = t /\ UNCHANGED <<server, auth, page, active, chosen, faults, raced>>
        /\ mixed' = mixed /\ list' = list
    BY <1>1, <1>6 DEF listing
  <2>2. list' \in [of : 0..MaxTeams, items : SUBSET Rows, loading : BOOLEAN]
    BY <2>1 DEF IInv, TypeOK
  <2> QED
    BY <1>1, <1>2, <1>4, <2>1, <2>2, FrameStays
<1> QED
  BY <1>5, <1>6

-----------------------------------------------------------------------------
(* Steps that take an answer about the user *)

(* What is left of the requests, with the one for the user that follows a profile
   that was saved. *)
LEMMA UserIsAnswered ==
    ASSUME IInv, NEW i \in DOMAIN calls, NEW c, c = calls[i], c.by = "auth", c.answer # "none",
           NEW t, t = RemoveAt(calls, i),
           NEW s, s = IF c.of = "profile" /\ c.answer = "ok" THEN Append(t, AuthCall("refresh")) ELSE t,
           NEW u, u = UserAfter(c, user), NEW starts, starts = (starting /\ c.of # "me")
    PROVE  /\ c \in Requests /\ WellMade(c) /\ u \in BOOLEAN /\ starts \in BOOLEAN
           /\ t \in Seq(Requests) /\ Made(t) /\ Len(t) <= MaxCalls /\ Cardinality(Heavy(t)) < MaxCalls
           /\ s \in Seq(Requests) /\ Made(s) /\ Limited(s)
           /\ Agrees(s, u, starts, session, raced)
           /\ Kept(s, chosen, teams) /\ Listing(s)
           /\ ~InDashboard => \A j \in DOMAIN s : ~IsFrames(s[j])
<1>1. c \in Requests /\ WellMade(c) /\ IsAuth(c)
  BY Parts DEF IsAuth
<1>2. c.of \in {"me", "refresh", "profile", "login", "register", "logout"}
  BY <1>1 DEF WellMade, IsAuth
<1>3. ~Works(c) /\ ~Slight(c)
  BY <1>2 DEF Works, Slight
<1>4. u \in BOOLEAN /\ starts \in BOOLEAN
  BY <1>2 DEF UserAfter, IInv, TypeOK
<1>5. /\ t \in Seq(Requests) /\ Made(t) /\ Limited(t) /\ Len(t) <= MaxCalls
      /\ Cardinality(Heavy(t)) < MaxCalls
      /\ Listing(t)
      /\ \A j \in DOMAIN t : \E k \in DOMAIN calls \ {i} : t[j] = calls[k]
      /\ \A k \in DOMAIN calls \ {i} : \E j \in DOMAIN t : t[j] = calls[k]
  BY <1>3, BackHome DEF IInv
<1>6. Kept(t, chosen, teams)
  BY BackHome DEF IInv, Choice
<1> PICK r : r = AuthCall("refresh")
  OBVIOUS
<1>7. /\ r \in Requests /\ r.by = "auth" /\ r.of = "refresh" /\ r.answer = "none"
      /\ WellMade(r) /\ IsAuth(r) /\ ~IsFrames(r) /\ ~Works(r) /\ ~Bare(r) /\ ~IsNew(r)
  BY AuthCallParts
<1>8. s = t \/ s = Append(t, r)
  OBVIOUS
<1>9. /\ s \in Seq(Requests)
      /\ \A j \in DOMAIN s : s[j] = r \/ \E k \in DOMAIN calls \ {i} : s[j] = calls[k]
      /\ \A k \in DOMAIN calls \ {i} : \E j \in DOMAIN s : s[j] = calls[k]
      /\ \A j, k \in DOMAIN s : j # k => (\E n \in DOMAIN calls \ {i} : s[j] = calls[n])
                                         \/ (\E n \in DOMAIN calls \ {i} : s[k] = calls[n])
  <2>1. CASE s = t
    BY <1>5, <2>1
  <2>2. CASE s = Append(t, r)
    <3>1. /\ s \in Seq(Requests) /\ DOMAIN s = DOMAIN t \cup {Len(t) + 1}
          /\ \A j \in DOMAIN t : s[j] = t[j]
          /\ s[Len(t) + 1] = r
      BY <1>5, <1>7, <2>2, Appended
    <3> QED
      BY <1>5, <3>1
  <2> QED
    BY <1>8, <2>1, <2>2
<1>10. Made(s) /\ Limited(s)
  <2>1. Made(Append(t, r))
    BY <1>5, <1>7, MadeAppend
  <2>2. Limited(Append(t, r))
    BY <1>5, <1>7, LimitedAppend
  <2> QED
    BY <1>5, <1>8, <2>1, <2>2
<1>11. Kept(s, chosen, teams)
  <2>1. Kept(Append(t, r), chosen, teams)
    BY <1>5, <1>6, <1>7, KeptAppend
  <2> QED
    BY <1>6, <1>8, <2>1
<1>12. Listing(s)
  <2>1. Listing(Append(t, r))
    BY <1>5, <1>7, ListingAppend
  <2> QED
    BY <1>5, <1>8, <2>1
<1>13. ~InDashboard => \A j \in DOMAIN s : ~IsFrames(s[j])
  BY <1>7, <1>9 DEF IInv, Mounted
<1>14. starts => \E j \in DOMAIN s : s[j].of = "me"
  <2> SUFFICES ASSUME starts PROVE \E j \in DOMAIN s : s[j].of = "me"
    OBVIOUS
  <2>1. starting /\ c.of # "me"
    OBVIOUS
  <2>2. PICK k \in DOMAIN calls : calls[k].of = "me"
    BY <2>1 DEF IInv, Session, Agrees
  <2> QED
    BY <1>9, <2>1, <2>2
<1>15. ASSUME ~raced
       PROVE  /\ \A j, k \in DOMAIN s : IsAuth(s[j]) /\ IsAuth(s[k]) => j = k
              /\ \A k \in DOMAIN s : IsAuth(s[k]) => Tells(s[k], u, session)
              /\ u = session
  <2>1. /\ Tells(c, user, session)
        /\ \A k \in DOMAIN calls \ {i} : ~IsAuth(calls[k])
    BY <1>1, <1>15 DEF IInv, Session, Agrees
  <2>2. u = session
    BY <2>1 DEF Tells
  <2>3. \A k \in DOMAIN s : IsAuth(s[k]) => s[k] = r
    BY <1>9, <2>1
  <2>4. Tells(r, u, session)
    BY <1>7, <2>2 DEF Tells
  <2> QED
    BY <1>9, <2>1, <2>2, <2>3, <2>4
<1>16. Agrees(s, u, starts, session, raced)
  BY <1>14, <1>15 DEF Agrees
<1> QED
  BY <1>1, <1>4, <1>5, <1>9, <1>10, <1>11, <1>12, <1>13, <1>16

(* The dashboard is closed. *)
LEMMA Leaving ==
    ASSUME IInv, NEW s, Made(s), Limited(s), Agrees(s, user', starting', session, raced), Leave(s),
           user' \in BOOLEAN, starting' \in BOOLEAN, UNCHANGED <<server, faults, raced>>
    PROVE  IInv'
<1>1. /\ calls' = Gone(s, {"frame", "list"})
      /\ page' = "login" /\ known' = {} /\ active' = NoTeam /\ list' = Blank
      /\ mixed' = FALSE /\ chosen' = NoTeam
  BY DEF Leave
<1> PICK z : z = calls'
  OBVIOUS
<1>2. /\ Made(z) /\ Limited(z)
      /\ \A u, starts, there, races :
            Agrees(s, u, starts, there, races) => Agrees(z, u, starts, there, races)
      /\ \A j \in DOMAIN z : ~IsFrames(z[j])
  <2>1. /\ {"frame", "list"} \in {{"list"}, {"frame", "list"}} /\ "frame" \in {"frame", "list"}
        /\ z = Gone(s, {"frame", "list"}) /\ Cardinality(Heavy(s)) <= MaxCalls
    BY <1>1 DEF Limited
  <2> QED
    BY <2>1, WithoutPage, Zenon
<1>3. TypeOK'
  <2>1. page' \in Pages
    BY <1>1 DEF Pages
  <2>2. /\ active' \in 0..MaxTeams /\ chosen' \in 0..MaxTeams /\ known' \subseteq Keys /\ mixed' \in BOOLEAN
        /\ list' \in [of : 0..MaxTeams, items : SUBSET Rows, loading : BOOLEAN]
    BY <1>1, BlankParts
  <2> QED
    BY <1>1, <1>2, <2>1, <2>2, TypesMoved DEF IInv
<1>4. Mounted(calls)'
  BY <1>2 DEF Mounted
<1>5. Session(calls)'
  <2>1. Agrees(z, user', starting', session, raced)
    BY <1>2, Zenon
  <2> QED
    BY <2>1 DEF Session, server
<1>6. Listing(calls)'
  BY <1>1 DEF Listing, Listed, TeamPages
<1>7. Choice(calls)'
  BY <1>1 DEF Choice, ChoiceIsKept, Kept
<1> QED
  BY <1>2, <1>3, <1>4, <1>5, <1>6, <1>7 DEF IInv

(* The dashboard is opened. *)
LEMMA Entering ==
    ASSUME IInv, NEW s \in Seq(Requests), Made(s), Len(s) <= MaxCalls, Cardinality(Heavy(s)) < MaxCalls,
           Agrees(s, user', starting', session, raced), Enter(s),
           user' = TRUE, starting' = FALSE, UNCHANGED <<server, faults, raced>>
    PROVE  IInv'
<1>1. /\ calls' = Append(s, TeamsCall(TRUE))
      /\ page' = "overview" /\ known' = {} /\ active' = NoTeam /\ list' = Blank
      /\ mixed' = FALSE /\ chosen' = NoTeam
  BY DEF Enter
<1> PICK q : q = TeamsCall(TRUE)
  OBVIOUS
<1>2. q \in Requests /\ WellMade(q) /\ ~IsAuth(q)
  BY TeamsCallParts
<1>3. Made(calls') /\ Limited(calls')
  <2>1. calls' = Append(s, q)
    BY <1>1
  <2> QED
    BY <1>2, <2>1, MadeAppend, LimitedAppend
<1>4. TypeOK'
  <2>1. page' \in Pages
    BY <1>1 DEF Pages
  <2>2. /\ active' \in 0..MaxTeams /\ chosen' \in 0..MaxTeams /\ known' \subseteq Keys /\ mixed' \in BOOLEAN
        /\ list' \in [of : 0..MaxTeams, items : SUBSET Rows, loading : BOOLEAN]
    BY <1>1, BlankParts
  <2> QED
    BY <1>1, <1>3, <2>1, <2>2, TypesMoved DEF IInv
<1>5. Mounted(calls)'
  BY <1>1 DEF Mounted, InDashboard
<1>6. Session(calls)'
  <2>1. Agrees(Append(s, q), user', starting', session, raced)
    BY <1>2, AgreesAppend
  <2> QED
    BY <1>1, <2>1 DEF Session, server
<1>7. Listing(calls)'
  BY <1>1 DEF Listing, Listed, TeamPages
<1>8. Choice(calls)'
  BY <1>1 DEF Choice, ChoiceIsKept, Kept
<1> QED
  BY <1>3, <1>4, <1>5, <1>6, <1>7, <1>8 DEF IInv

(* The page stays as it is, if it is not the page to sign in that is left. *)
LEMMA Staying ==
    ASSUME IInv, NEW s, Made(s), Limited(s), Agrees(s, user', starting', session, raced),
           Kept(s, chosen, teams), Listing(s),
           calls' = s, page' \in Pages, page' = page \/ page' = "overview", UNCHANGED <<frame, listing>>,
           user' \in BOOLEAN, starting' \in BOOLEAN, ~user' /\ ~starting' => page' = "login",
           InDashboard' \/ \A j \in DOMAIN s : ~IsFrames(s[j]),
           UNCHANGED <<server, faults, raced>>
    PROVE  IInv'
<1>1. UNCHANGED <<session, teams, rows, known, active, chosen, list, mixed>>
  BY DEF server, frame, listing
<1>2. TypeOK'
  BY <1>1, TypesMoved DEF IInv, TypeOK
<1>3. Mounted(calls)'
  BY DEF Mounted
<1>4. Session(calls)'
  BY <1>1 DEF Session
<1>5. Listing(calls)'
  <2>1. CASE page' = page
    BY <1>1, <2>1 DEF Listing, Listed, Fits
  <2>2. CASE page' = "overview"
    BY <2>2 DEF Listing, Listed, TeamPages
  <2> QED
    BY <2>1, <2>2
<1>6. Choice(calls)'
  BY <1>1 DEF IInv, Choice, ChoiceIsKept
<1> QED
  BY <1>2, <1>3, <1>4, <1>5, <1>6 DEF IInv

LEMMA AuthIsAnswered ==
    ASSUME IInv, NEW i \in DOMAIN calls, AuthAnswered(i)
    PROVE  IInv'
<1> PICK c : c = calls[i]
  OBVIOUS
<1> PICK t : t = RemoveAt(calls, i)
  OBVIOUS
<1> PICK s : s = IF c.of = "profile" /\ c.answer = "ok" THEN Append(t, AuthCall("refresh")) ELSE t
  OBVIOUS
<1> PICK u : u = UserAfter(c, user)
  OBVIOUS
<1> PICK starts : starts = (starting /\ c.of # "me")
  OBVIOUS
<1> PICK opens : opens = IF c.of \in {"login", "register"} /\ c.answer = "ok" THEN "overview" ELSE page
  OBVIOUS
<1>1. /\ c.by = "auth" /\ c.answer # "none" /\ user' = u /\ starting' = starts
      /\ IF starts THEN page' = opens /\ calls' = s /\ UNCHANGED <<frame, listing>>
         ELSE IF opens = "login" THEN Stays(s)
         ELSE IF ~u THEN Leave(s)
         ELSE IF ~InDashboard THEN Enter(s)
         ELSE IF opens = page THEN Stays(s)
         ELSE OpensPage(s, opens, active) /\ UNCHANGED frame
      /\ UNCHANGED <<server, faults, raced>>
  BY DEF AuthAnswered, SignedOut
<1>2. /\ c \in Requests /\ WellMade(c) /\ u \in BOOLEAN /\ starts \in BOOLEAN
      /\ t \in Seq(Requests) /\ Made(t) /\ Len(t) <= MaxCalls /\ Cardinality(Heavy(t)) < MaxCalls
      /\ s \in Seq(Requests) /\ Made(s) /\ Limited(s)
      /\ Agrees(s, u, starts, session, raced)
      /\ Kept(s, chosen, teams) /\ Listing(s)
      /\ ~InDashboard => \A j \in DOMAIN s : ~IsFrames(s[j])
  BY <1>1, UserIsAnswered, Zenon
<1>3. /\ Agrees(s, user', starting', session, raced)
      /\ user' \in BOOLEAN /\ starting' \in BOOLEAN
  BY <1>1, <1>2
<1>4. page \in Pages /\ "overview" \in Pages /\ opens \in Pages /\ (opens = page \/ opens = "overview")
  BY DEF IInv, TypeOK, Pages
<1>5. CASE starts /\ page' = opens /\ calls' = s /\ UNCHANGED <<frame, listing>>
  <2>1. starting' /\ starting
    BY <1>1, <1>5
  <2>2. \A j \in DOMAIN s : ~IsFrames(s[j])
    BY <1>2, <2>1 DEF InDashboard
  <2>3. page' \in Pages /\ (page' = page \/ page' = "overview")
    BY <1>4, <1>5
  <2> QED
    BY <1>1, <1>2, <1>3, <1>5, <2>1, <2>2, <2>3, Staying
<1>6. CASE ~starts /\ opens = "login" /\ Stays(s)
  <2>1. page = "login" /\ page' = "login" /\ calls' = s /\ UNCHANGED <<frame, listing>>
    BY <1>4, <1>6 DEF Stays
  <2>2. \A j \in DOMAIN s : ~IsFrames(s[j])
    BY <1>2, <2>1 DEF InDashboard
  <2> QED
    BY <1>1, <1>2, <1>3, <1>4, <2>1, <2>2, Staying
<1>7. CASE Leave(s)
  BY <1>1, <1>2, <1>3, <1>7, Leaving
<1>8. CASE ~starts /\ opens # "login" /\ u /\ ~InDashboard /\ Enter(s)
  <2>1. ~(c.of = "profile" /\ c.answer = "ok")
    <3> SUFFICES ASSUME c.of = "profile", c.answer = "ok" PROVE FALSE
      OBVIOUS
    <3>1. page # "login" /\ ~starting /\ user
      BY <1>8 DEF UserAfter
    <3> QED
      BY <1>8, <3>1 DEF InDashboard
  <2>2. s = t
    BY <2>1
  <2>3. user' = TRUE /\ starting' = FALSE
    BY <1>1, <1>2, <1>8
  <2> QED
    BY <1>1, <1>2, <1>3, <1>8, <2>2, <2>3, Entering
<1>9. CASE ~starts /\ opens # "login" /\ u /\ InDashboard /\ opens = page /\ Stays(s)
  <2>1. page # "login" /\ page' = page /\ calls' = s /\ UNCHANGED <<frame, listing>>
    BY <1>9 DEF Stays
  <2>2. user' /\ ~starting' /\ InDashboard'
    BY <1>1, <1>9, <2>1 DEF InDashboard
  <2> QED
    BY <1>1, <1>2, <1>3, <1>4, <2>1, <2>2, Staying
<1>10. CASE ~starts /\ opens # "login" /\ u /\ OpensPage(s, opens, active) /\ UNCHANGED frame
  <2>1. user' /\ ~starting'
    BY <1>1, <1>10
  <2>2. /\ active' = active /\ active \in 0..MaxTeams /\ Cardinality(Heavy(s)) <= MaxCalls
        /\ opens \in Pages \ {"login"}
    BY <1>2, <1>4, <1>10 DEF frame, IInv, TypeOK, Limited
  <2>3. /\ Made(calls') /\ Limited(calls') /\ Mounted(calls)' /\ Listing(calls)'
        /\ page' \in Pages /\ mixed' \in BOOLEAN
        /\ list' \in [of : 0..MaxTeams, items : SUBSET Rows, loading : BOOLEAN]
        /\ \A v, starting_, there, races :
              Agrees(s, v, starting_, there, races) => Agrees(calls', v, starting_, there, races)
        /\ \A choice, there : Kept(s, choice, there) => Kept(calls', choice, there)
    BY <1>2, <1>10, <2>1, <2>2, Opening, Zenon
  <2>4. UNCHANGED <<known, active, chosen, session, teams, raced>>
    BY <1>1, <1>10 DEF frame, server
  <2>5. TypeOK'
    BY <1>1, <1>3, <2>1, <2>3, <2>4, TypesMoved DEF IInv, TypeOK
  <2>6. Session(calls)'
    BY <1>3, <2>3, <2>4 DEF Session
  <2>7. Choice(calls)'
    BY <1>2, <2>3, <2>4 DEF IInv, Choice, ChoiceIsKept
  <2> QED
    BY <2>3, <2>5, <2>6, <2>7 DEF IInv
<1> QED
  BY <1>1, <1>5, <1>6, <1>7, <1>8, <1>9, <1>10

-----------------------------------------------------------------------------
(* The theorems *)

(* At first only the getMe of the first effect is under way. *)
LEMMA InitIInv == Init => IInv
<1> SUFFICES ASSUME Init PROVE IInv
  OBVIOUS
<1> PICK c : c = AuthCall("me")
  OBVIOUS
<1>1. /\ c \in Requests /\ c.by = "auth" /\ c.of = "me" /\ c.answer = "none"
      /\ WellMade(c) /\ IsAuth(c) /\ ~IsFrames(c) /\ ~Works(c) /\ ~Bare(c)
  BY AuthCallParts
<1>2. calls = <<c>>
  BY DEF Init
<1>3. /\ calls \in Seq(Requests) /\ Len(calls) = 1 /\ DOMAIN calls = {1} /\ calls[1] = c
  <2> HIDE DEF Requests
  <2> QED
    BY <1>1, <1>2
<1>4. Made(calls) /\ Mounted(calls)
  BY <1>1, <1>3 DEF Made, Mounted
<1>5. MaxCalls \in Nat \ {0} /\ MaxTeams \in Nat \ {0} /\ MaxFaults \in Nat
  BY ConsoleAssumption
<1>6. Limited(calls)
  <2>1. Heavy(calls) \subseteq {1} /\ IsFiniteSet({1}) /\ Cardinality({1}) = 1
    BY <1>3, FS_Singleton DEF Heavy
  <2>2. Cardinality(Heavy(calls)) <= 1 /\ Cardinality(Heavy(calls)) \in Nat
    BY <2>1, FS_Subset, FS_CardinalityType
  <2> QED
    BY <1>3, <1>5, <2>2 DEF Limited
<1>7. TypeOK
  <2>1. page \in Pages /\ known \subseteq Keys /\ faults \in 0..MaxFaults
    BY <1>5 DEF Init, Pages
  <2>5. (session \in BOOLEAN /\ user = FALSE) /\ (starting = TRUE /\ mixed = FALSE /\ raced = FALSE)
    BY DEF Init
  <2>2. /\ active \in 0..MaxTeams /\ chosen \in 0..MaxTeams
        /\ list \in [of : 0..MaxTeams, items : SUBSET Rows, loading : BOOLEAN]
    BY BlankParts DEF Init
  <2>3. teams \subseteq Keys /\ rows \in [Keys -> SUBSET Rows]
    <3>1. teams \subseteq Keys
      BY <1>5 DEF Init, Keys
    <3>2. rows = [k \in Keys |-> IF k \in teams THEN Rows ELSE {}]
      BY DEF Init
    <3> QED
      BY <3>1, <3>2
  <2>4. calls \in Seq(Requests) /\ Len(calls) <= MaxCalls + 1
    BY <1>3, <1>5
  <2> HIDE DEF Keys, Requests
  <2> QED
    BY <2>1, <2>2, <2>3, <2>4, <2>5 DEF TypeOK
<1>8. Session(calls)
  BY <1>1, <1>3 DEF Session, Agrees, Tells
<1>9. Listing(calls)
  BY DEF Init, Listing, Listed, TeamPages, NoTeam
<1>10. Choice(calls)
  BY DEF Init, Choice, ChoiceIsKept, Kept
<1> QED
  BY <1>4, <1>6, <1>7, <1>8, <1>9, <1>10 DEF IInv

LEMMA NextIInv == IInv /\ [Next]_vars => IInv'
<1> SUFFICES ASSUME IInv, [Next]_vars PROVE IInv'
  OBVIOUS
<1>1. CASE Submit \/ Register \/ Logout \/ SaveProfile
  BY <1>1, AuthIsAsked DEF Submit, Register, Logout, SaveProfile
<1>2. CASE CreateTeam
  BY <1>2, TeamIsAsked
<1>3. CASE DeleteTeam
  BY <1>3, DeleteIsAsked
<1>4. CASE Refresh
  BY <1>4, RefreshIsAsked
<1>5. CASE \E t \in 1..MaxTeams : SelectTeam(t)
  BY <1>5, TeamIsSelected
<1>6. CASE \E p \in Pages : Open(p)
  BY <1>6, PageIsOpened
<1>7. CASE \E r \in Rows : NewRecipe(r) \/ AddMember(r) \/ RollBack(r)
  BY <1>7, ListIsAsked
<1>8. CASE \E r \in Rows : DeleteRecipe(r) \/ RemoveMember(r) \/ DeleteDeployment(r)
  BY <1>8, ListIsAsked
<1>9. CASE Expires
  BY <1>9, SessionExpires
<1>10. CASE \E i \in DOMAIN calls : Handles(i) \/ Refuses(i) \/ Loses(i)
  BY <1>10, ServerHandles, RequestFails
<1>11. CASE \E i \in DOMAIN calls : Answered(i)
  <2>1. PICK i \in DOMAIN calls : Answered(i)
    BY <1>11
  <2> QED
    BY <2>1, AuthIsAnswered, NobodyIsAnswered, TeamsAreAnswered, TeamIsAnswered, DeleteIsAnswered,
       RowsAreAnswered, RecipeIsAnswered DEF Answered
<1>12. CASE UNCHANGED vars
  <2>1. /\ UNCHANGED <<session, teams, rows, user, starting, page, known, active, chosen, list, mixed>>
        /\ UNCHANGED <<calls, faults, raced>>
    BY <1>12 DEF vars, server, auth, frame, listing
  <2>2. TypeOK'
    BY <2>1 DEF IInv, TypeOK
  <2>3. Made(calls)' /\ Limited(calls)' /\ Mounted(calls)'
    BY <2>1 DEF IInv, Made, Limited, Heavy, Mounted, InDashboard
  <2>4. Session(calls)' /\ Choice(calls)'
    BY <2>1 DEF IInv, Session, Choice, ChoiceIsKept
  <2>5. Listing(calls)'
    BY <2>1 DEF IInv, Listing, Listed, Fits
  <2> QED
    BY <2>2, <2>3, <2>4, <2>5 DEF IInv
<1> QED
  BY <1>1, <1>2, <1>3, <1>4, <1>5, <1>6, <1>7, <1>8, <1>9, <1>10, <1>11, <1>12 DEF Next

LEMMA SafelyIInv == Spec => []IInv
  BY InitIInv, NextIInv, PTL DEF Spec

(* What is on its way about the user, the list and the choice is of the state that the
   three properties speak of when nothing is. *)
LEMMA IInvShows ==
    ASSUME IInv
    PROVE  SessionIsTrue /\ TeamIsCurrent
<1>1. SessionAgrees
  BY DEF SessionAgrees, DueBy, IInv, Session, Agrees, IsAuth
<1>2. ListIsCurrent
  <2> SUFFICES ASSUME ListIsShown, ~Working(calls), ~mixed
               PROVE  list.of = active /\ list.items = rows[active]
    BY DEF ListIsCurrent
  <2>1. Listed
    BY DEF ListIsShown, NoTeamIsShown, RecipesAreShown, MembersAreShown, DeploymentsAreShown,
           Listed, TeamPages
  <2>2. \A k \in DOMAIN calls : ~Works(calls[k])
    BY DEF Working, Works
  <2> QED
    BY <2>1, <2>2 DEF IInv, Listing
<1>3. ChoiceIsKept
  BY DEF IInv, Choice
<1> QED
  BY <1>1, <1>2, <1>3 DEF SessionIsTrue, TeamIsCurrent, IInv

(* The dashboard is open to a user and to none but one who is signed in: AuthContext
   and the server agree whenever no request about the user is under way, however
   many others are, and in whatever order they are answered. *)
THEOREM SessionTrue == Spec => []SessionIsTrue
<1>1. IInv => SessionIsTrue
  BY IInvShows
<1> QED
  BY <1>1, SafelyIInv, PTL

(* A page lists what there is of the active team whenever nothing that changes it is
   under way, and no list of teams that comes late takes the place of the team the
   user has chosen. *)
THEOREM TeamCurrent == Spec => []TeamIsCurrent
<1>1. IInv => TeamIsCurrent
  BY IInvShows
<1> QED
  BY <1>1, SafelyIInv, PTL
=============================================================================
