--------------------------- MODULE WatchesProofs ---------------------------
(***************************************************************************)
(* What the views of a deployment show is true, and implements JobWatch,   *)
(* for every length of the log and every number of events and answers      *)
(* under way; what the terminal of a build shows is true, for every number *)
(* of steps, attempts, failures and re-renders.                            *)
(***************************************************************************)
EXTENDS Watches, SequenceTheorems, FiniteSetTheorems, WellFoundedInduction, TLAPS

-----------------------------------------------------------------------------
(* Folds.  FoldLeft is defined by recursion over the sets of places of a
   sequence: that the recursion has a solution, and what the solution is, are
   two inductions over the length, each by the greatest number for which what
   is claimed is true. *)

(* A bounded set of naturals has a greatest element. *)
LEMMA GreatestExists ==
    ASSUME NEW S, S \subseteq Nat, S # {}, NEW n \in Nat, \A x \in S : x <= n
    PROVE  \E m \in S : \A x \in S : x <= m
<1> DEFINE Gaps == {n - x : x \in S}
<1>1. Gaps \subseteq Nat /\ Gaps # {}
  <2>1. \A x \in S : x \in Nat /\ n - x \in Nat
    OBVIOUS
  <2>2. PICK s \in S : TRUE
    OBVIOUS
  <2> QED
    BY <2>1, <2>2
<1>2. PICK g \in Gaps : \A h \in Gaps : ~(<<h, g>> \in OpToRel(<, Nat))
  BY <1>1, WFMin, NatLessThanWellFounded, Zenon
<1>3. \A h \in Gaps : ~(h < g)
  BY <1>1, <1>2 DEF OpToRel
<1>4. PICK m \in S : g = n - m
  OBVIOUS
<1>5. \A x \in S : ~(n - x < n - m)
  BY <1>3, <1>4
<1> QED
  BY <1>4, <1>5

LEMMA GreatestOfInterval ==
    ASSUME NEW n \in Nat
    PROVE  /\ (1..n) \cup {n + 1} = 1..(n + 1)
           /\ (1..(n + 1)) \ {n + 1} = 1..n
           /\ Max(1..(n + 1)) = n + 1
<1>1. /\ n + 1 \in 1..(n + 1)
      /\ \A y \in 1..(n + 1) : n + 1 >= y
      /\ \A x \in 1..(n + 1) : (\A y \in 1..(n + 1) : x >= y) => x = n + 1
  OBVIOUS
<1>2. Max(1..(n + 1)) = n + 1
  BY <1>1 DEF Max
<1>3. QED
  BY <1>2

(* Whatever is true of 0 and of the next number is true up to n. *)
LEMMA Climb ==
    ASSUME NEW n \in Nat, NEW S, 0 \in S,
           \A m \in 0..n : m \in S /\ m < n => m + 1 \in S
    PROVE  n \in S
<1> DEFINE T == S \cap (0..n)
<1>1. PICK m \in T : \A x \in T : x <= m
  <2>1. T \subseteq Nat /\ T # {} /\ \A x \in T : x <= n
    OBVIOUS
  <2> QED
    BY <2>1, GreatestExists
<1>2. ~(m < n)
  <2> SUFFICES ASSUME m < n PROVE FALSE
    OBVIOUS
  <2>1. m + 1 \in T
    OBVIOUS
  <2> QED
    BY <2>1, <1>1
<1>3. QED
  BY <1>2

LEMMA SubsetOfNext ==
    ASSUME NEW n \in Nat, NEW s \in SUBSET (1..(n + 1))
    PROVE  /\ n + 1 \in s => Max(s) = n + 1 /\ s \ {n + 1} \in SUBSET (1..n)
           /\ n + 1 \notin s => s \in SUBSET (1..n)
<1>1. n + 1 \notin s => s \in SUBSET (1..n)
  OBVIOUS
<1>2. ASSUME n + 1 \in s
      PROVE  Max(s) = n + 1 /\ s \ {n + 1} \in SUBSET (1..n)
  <2>1. /\ \A y \in s : n + 1 >= y
        /\ \A x \in s : (\A y \in s : x >= y) => x = n + 1
    BY <1>2
  <2>2. Max(s) = n + 1
    BY <1>2, <2>1 DEF Max
  <2>3. QED
    BY <2>2
<1>3. QED
  BY <1>1, <1>2

LEMMA FoldStays ==
    ASSUME NEW G, NEW s0 \in G, NEW seq \in Seq(Lines),
           \A s \in G : \A i \in DOMAIN seq : Marked(s, seq[i]) \in G
    PROVE  FoldLeft(Marked, s0, seq) \in G
<1> DEFINE n == Len(seq)
           D == 1..n
           Rec(g, s) == IF s = {} THEN s0
                        ELSE Marked(g[s \ {Max(s)}], seq[Max(s)])
           Folds(g, m) == \A s \in SUBSET (1..m) : g[s] = Rec(g, s)
           Good == {m \in 0..n : \E g \in [SUBSET (1..m) -> G] : Folds(g, m)}
           iter == CHOOSE g : g = [s \in SUBSET D |-> Rec(g, s)]
<1>0. n \in Nat /\ DOMAIN seq = D
  BY LenProperties
<1>1. FoldLeft(Marked, s0, seq) = iter[D]
  BY <1>0 DEF FoldLeft, MapThenFoldSet
<1>2. n \in Good
  <2>1. 0 \in Good
    <3> DEFINE g0 == [s \in SUBSET (1..0) |-> s0]
    <3>1. 1..0 = {} /\ \A s \in SUBSET (1..0) : s = {}
      OBVIOUS
    <3>2. g0 \in [SUBSET (1..0) -> G] /\ Folds(g0, 0)
      BY <3>1
    <3>3. 0 \in 0..n
      BY <1>0
    <3> QED
      BY <3>2, <3>3
  <2>2. ASSUME NEW m \in 0..n, m \in Good, m < n
        PROVE  m + 1 \in Good
    <3>1. PICK g \in [SUBSET (1..m) -> G] : Folds(g, m)
      BY <2>2
    <3> DEFINE h == [s \in SUBSET (1..(m + 1)) |->
                        IF m + 1 \in s THEN Marked(g[s \ {m + 1}], seq[m + 1]) ELSE g[s]]
    <3>2. m \in Nat /\ m + 1 \in D
      BY <2>2, <1>0
    <3>3. ASSUME NEW s \in SUBSET (1..(m + 1))
          PROVE  h[s] \in G /\ h[s] = Rec(h, s)
      <4>1. CASE m + 1 \in s
        <5>1. Max(s) = m + 1 /\ s \ {m + 1} \in SUBSET (1..m)
          BY <4>1, <3>2, SubsetOfNext
        <5>2. s \ {m + 1} \in SUBSET (1..(m + 1)) /\ m + 1 \notin s \ {m + 1}
          OBVIOUS
        <5>3. h[s \ {m + 1}] = g[s \ {m + 1}] /\ g[s \ {m + 1}] \in G
          BY <5>1, <5>2
        <5>4. h[s] = Marked(g[s \ {m + 1}], seq[m + 1])
          BY <4>1
        <5>5. h[s] \in G
          BY <5>3, <5>4, <3>2, <1>0
        <5>6. QED
          BY <4>1, <5>1, <5>3, <5>4, <5>5
      <4>2. CASE m + 1 \notin s
        <5>1. s \in SUBSET (1..m)
          BY <4>2, <3>2, SubsetOfNext
        <5>2. h[s] = g[s] /\ g[s] \in G /\ g[s] = Rec(g, s)
          BY <4>2, <5>1, <3>1
        <5>3. CASE s = {}
          BY <5>2, <5>3
        <5>4. CASE s # {}
          <6>1. s \ {Max(s)} \in SUBSET (1..m) /\ m + 1 \notin s \ {Max(s)}
                /\ s \ {Max(s)} \in SUBSET (1..(m + 1))
            BY <5>1, <4>2
          <6>2. h[s \ {Max(s)}] = g[s \ {Max(s)}]
            BY <6>1
          <6> QED
            BY <5>2, <5>4, <6>2
        <5> QED
          BY <5>3, <5>4
      <4> QED
        BY <4>1, <4>2
    <3>4. h \in [SUBSET (1..(m + 1)) -> G] /\ Folds(h, m + 1)
      <4> HIDE DEF h
      <4>1. \A s \in SUBSET (1..(m + 1)) : h[s] \in G /\ h[s] = Rec(h, s)
        BY <3>3
      <4>2. h = [s \in SUBSET (1..(m + 1)) |-> h[s]]
        BY DEF h
      <4> QED
        BY <4>1, <4>2
    <3>5. m + 1 \in 0..n
      BY <2>2, <1>0
    <3> QED
      BY <3>4, <3>5
  <2>3. QED
    <3> HIDE DEF Good, n
    <3> QED
      BY <1>0, <2>1, <2>2, Climb
<1>3. iter = [s \in SUBSET D |-> Rec(iter, s)]
  <2>1. PICK g \in [SUBSET D -> G] : Folds(g, n)
    BY <1>2
  <2>2. g = [s \in SUBSET D |-> Rec(g, s)]
    BY <2>1
  <2> QED
    BY <2>2
<1> DEFINE Inside == {m \in 0..n : iter[1..m] \in G}
<1>4. n \in Inside
  <2> HIDE DEF iter
  <2>1. 0 \in Inside
    <3>1. 1..0 = {} /\ {} \in SUBSET D /\ 0 \in 0..n
      BY <1>0
    <3> QED
      BY <3>1, <1>3
  <2>2. ASSUME NEW m \in 0..n, m \in Inside, m < n
        PROVE  m + 1 \in Inside
    <3>1. m \in Nat /\ m + 1 \in D /\ 1..(m + 1) \in SUBSET D /\ 1..(m + 1) # {} /\ m + 1 \in 0..n
      BY <2>2, <1>0
    <3>2. Max(1..(m + 1)) = m + 1 /\ (1..(m + 1)) \ {m + 1} = 1..m
      BY <3>1, GreatestOfInterval
    <3>3. iter[1..(m + 1)] = Rec(iter, 1..(m + 1))
      BY <3>1, <1>3
    <3>4. iter[1..(m + 1)] = Marked(iter[1..m], seq[m + 1])
      BY <3>1, <3>2, <3>3
    <3> QED
      BY <3>1, <3>4, <2>2, <1>0
  <2>3. QED
    <3> HIDE DEF Inside, n
    <3> QED
      BY <1>0, <2>1, <2>2, Climb
<1> QED
  BY <1>1, <1>4

-----------------------------------------------------------------------------
(* The deployment and its views: the inductive invariant *)

NotYet == ""
EventTypes == Events1 \cup EventsN
StepMarks  == {"pending", "active", "done", "error"}

Logged(l) == \E i \in DOMAIN log : log[i] = l

(* Lines are numbered in the order in which runDeployWith writes them. *)
LogIsOrdered ==
    /\ \A i, j \in DOMAIN log : i <= j => log[i] <= log[j]
    /\ ~Logged(Blank)

(* The last line is the one of the outcome, and the outcome is what is stored. *)
OutcomeIsLogged ==
    /\ outcome = NotYet => ~Logged(Served) /\ ~Logged(Burned)
    /\ outcome \in {"succeeded", "partial"} => ~Logged(Burned)
    /\ outcome \in {"failed", "rolled_back"} => ~Logged(Served)
    /\ status # NotYet => status = outcome

IsLine(e) == e.event = "message"

(* What is under way is of the log, in its order, and comes before what has not
   been sent. *)
StreamIsOrdered ==
    /\ stream.sent <= Len(log)
    /\ ~stream.greeted => stream.sent = 0 /\ channel = <<>>
    /\ \A i \in DOMAIN channel :
          IsLine(channel[i]) => channel[i].line = Blank \/ Logged(channel[i].line)
    /\ \A i, j \in DOMAIN channel :
          i <= j /\ IsLine(channel[i]) /\ IsLine(channel[j]) => channel[i].line <= channel[j].line
    /\ \A i \in DOMAIN channel, j \in DOMAIN log :
          IsLine(channel[i]) /\ j > stream.sent => channel[i].line <= log[j]

(* Whatever tells of an outcome, shown or on its way, tells the stored one; and
   the log of an answer holds nothing that the log does not. *)
Told ==
    /\ \A i \in DOMAIN channel : channel[i].event = "done" => channel[i].status = status
    /\ \A a \in polls : /\ a.status # NotYet => a.status = status
                        /\ \A i \in DOMAIN a.log : Logged(a.log[i])
    /\ view.final # NotYet => view.final = status

(* A failure is shown after its line, and the last step as done after the line of
   a success, from wherever and in whatever order the view has read the log. *)
MarksAreLogged ==
    /\ (\E i \in Steps : view.steps[i] = "error") => Logged(Burned)
    /\ view.steps[LastStep] = "done" => Logged(Served)
    /\ view.burned => Logged(Burned)

(* What StepDeployProgress, which reads the stream only, is still to read. *)
ToCome(l) ==
    \/ \E i \in DOMAIN channel : IsLine(channel[i]) /\ channel[i].line = l
    \/ \E j \in DOMAIN log : j > stream.sent /\ log[j] = l

AtStage(k) ==
    /\ k = 1 \/ Logged(k)
    /\ \A i \in Steps : i < k => view.steps[i] = "done"
    /\ \A i \in Steps : i > k => view.steps[i] = "pending"
    /\ view.steps[k] = IF view.burned THEN "error" ELSE "active"
    /\ \A l \in Steps : ToCome(l) => l >= k /\ ~view.burned
    /\ view.burned => ~ToCome(Served)

AllDone ==
    /\ \A i \in Steps : view.steps[i] = "done"
    /\ ~view.burned /\ Logged(Served)
    /\ \A l \in Steps : ~ToCome(l)

Stages == kind = "StepDeployProgress" => AllDone \/ \E k \in Steps : AtStage(k)

(* A stage of StepDeployProgress that is done or has failed stays so. *)
StagesStay ==
    kind = "StepDeployProgress" =>
        \A i \in Steps : view.steps[i] \in {"done", "error"} => view'.steps[i] = view.steps[i]

IInv == /\ TypeOK /\ LogIsOrdered /\ OutcomeIsLogged /\ StreamIsOrdered
        /\ Told /\ MarksAreLogged /\ Stages

-----------------------------------------------------------------------------

LEMMA StepsAreLines ==
    /\ Steps \subseteq Nat /\ Steps \subseteq Lines /\ LastStep \in Steps /\ 1 \in Steps
    /\ Steps \subseteq 1..5 /\ \A n \in Steps : 1 <= n /\ n <= LastStep
    /\ LastStep \in 3..5
  BY BoundsAssumption DEF Steps, Lines

(* What parseStep makes of the steps. *)
LEMMA MarkedProperties ==
    ASSUME NEW s \in [Steps -> StepMarks], NEW l \in Lines
    PROVE  /\ Marked(s, l) \in [Steps -> StepMarks]
           /\ \A i \in Steps : Marked(s, l)[i] = "error" => l = Burned \/ s[i] = "error"
           /\ Marked(s, l)[LastStep] = "done" => l = Served \/ s[LastStep] = "done"
<1>1. CASE l \in Steps
  <2>1. Marked(s, l) = [i \in Steps |-> IF i < l THEN "done"
                                        ELSE IF i = l THEN "active" ELSE s[i]]
    BY <1>1, StepsAreLines DEF Marked, Served, Burned
  <2> QED
    BY <2>1, <1>1, StepsAreLines DEF StepMarks
<1>2. CASE l = Served
  <2>1. Marked(s, l) = [i \in Steps |-> "done"]
    BY <1>2, StepsAreLines DEF Marked, Served, Burned
  <2> QED
    BY <2>1, <1>2 DEF StepMarks
<1>3. CASE l = Burned
  <2>1. Marked(s, l) = [i \in Steps |-> IF s[i] = "active" THEN "error" ELSE s[i]]
    BY <1>3, StepsAreLines DEF Marked, Served, Burned
  <2> QED
    BY <2>1, <1>3, StepsAreLines DEF StepMarks
<1>4. CASE l \notin Steps /\ l # Served /\ l # Burned
  <2>1. Marked(s, l) = s
    BY <1>4 DEF Marked
  <2> QED
    BY <2>1
<1> QED
  BY <1>1, <1>2, <1>3, <1>4

(* The same of a whole log (the answer that DeployProgress has polled). *)
LEMMA FoldProperties ==
    ASSUME NEW s \in [Steps -> StepMarks], NEW seq \in Seq(Lines)
    PROVE  /\ FoldLeft(Marked, s, seq) \in [Steps -> StepMarks]
           /\ (\E i \in Steps : FoldLeft(Marked, s, seq)[i] = "error")
                 => (\E i \in DOMAIN seq : seq[i] = Burned) \/ \E i \in Steps : s[i] = "error"
           /\ FoldLeft(Marked, s, seq)[LastStep] = "done"
                 => (\E i \in DOMAIN seq : seq[i] = Served) \/ s[LastStep] = "done"
<1> DEFINE S0 == [Steps -> StepMarks]
           S1 == {t \in S0 : \A i \in Steps : t[i] # "error"}
           S2 == {t \in S0 : t[LastStep] # "done"}
<1>0. \A i \in DOMAIN seq : seq[i] \in Lines
  BY LenProperties, ElementOfSeq
<1>1. FoldLeft(Marked, s, seq) \in S0
  <2>1. \A t \in S0 : \A i \in DOMAIN seq : Marked(t, seq[i]) \in S0
    BY <1>0, MarkedProperties
  <2>2. s \in S0
    OBVIOUS
  <2> HIDE DEF S0
  <2> QED
    BY <2>1, <2>2, FoldStays
<1>2. ASSUME \A i \in DOMAIN seq : seq[i] # Burned, \A i \in Steps : s[i] # "error"
      PROVE  FoldLeft(Marked, s, seq) \in S1
  <2>1. \A t \in S1 : \A i \in DOMAIN seq : Marked(t, seq[i]) \in S1
    BY <1>0, <1>2, MarkedProperties
  <2>2. s \in S1
    BY <1>2
  <2> HIDE DEF S1
  <2> QED
    BY <2>1, <2>2, FoldStays
<1>3. ASSUME \A i \in DOMAIN seq : seq[i] # Served, s[LastStep] # "done"
      PROVE  FoldLeft(Marked, s, seq) \in S2
  <2>1. \A t \in S2 : \A i \in DOMAIN seq : Marked(t, seq[i]) \in S2
    BY <1>0, <1>3, MarkedProperties
  <2>2. s \in S2
    BY <1>3
  <2> HIDE DEF S2
  <2> QED
    BY <2>1, <2>2, FoldStays
<1> QED
  BY <1>1, <1>2, <1>3

(* The types, as the lemmas below need them. *)
LEMMA Types ==
    ASSUME TypeOK
    PROVE  /\ Len(log) \in Nat /\ DOMAIN log = 1..Len(log)
           /\ \A i \in DOMAIN log : log[i] \in Lines
           /\ DOMAIN channel = 1..Len(channel) /\ Len(channel) \in Nat
           /\ \A i \in DOMAIN channel :
                 /\ channel[i] \in EventTypes /\ channel[i].line \in Lines
                 /\ channel[i].event \in {"message", "done"}
                 /\ channel[i].event = "done" => channel[i].status \in Finals
           /\ stream.sent \in Nat
<1>1. log \in Seq(Lines) /\ channel \in Seq(EventTypes) /\ stream.sent \in Nat
  BY DEF TypeOK, EventTypes
<1>2. Len(log) \in Nat /\ DOMAIN log = 1..Len(log)
  BY <1>1, LenProperties
<1>3. \A i \in DOMAIN log : log[i] \in Lines
  BY <1>1, <1>2, ElementOfSeq
<1>4. Len(channel) \in Nat /\ DOMAIN channel = 1..Len(channel)
  BY <1>1, LenProperties
<1>5. \A i \in DOMAIN channel : channel[i] \in EventTypes
  BY <1>1, <1>4, ElementOfSeq
<1>6. Blank \in Lines
  BY DEF Blank, Lines
<1>7. \A e \in EventTypes : /\ e.line \in Lines /\ e.event \in {"message", "done"}
                            /\ e.event = "done" => e.status \in Finals
  BY <1>6 DEF EventTypes, Events1, EventsN
<1> QED
  BY <1>1, <1>2, <1>3, <1>4, <1>5, <1>7

LEMMA LastIsGreatest ==
    ASSUME TypeOK, LogIsOrdered
    PROVE  \A i \in DOMAIN log : log[i] <= LastLine
<1> SUFFICES ASSUME NEW i \in DOMAIN log PROVE log[i] <= LastLine
  OBVIOUS
<1>1. Len(log) \in DOMAIN log /\ i <= Len(log) /\ log # <<>>
  BY Types
<1>2. LastLine = log[Len(log)]
  BY <1>1 DEF LastLine, Last
<1> QED
  BY <1>1, <1>2 DEF LogIsOrdered

LEMMA InitIInv == Init => IInv
<1> SUFFICES ASSUME Init PROVE IInv
  OBVIOUS
<1>1. TypeOK
  <2>1. FirstSteps(kind) \in [Steps -> StepMarks]
    BY DEF FirstSteps, StepMarks
  <2>2. <<>> \in Seq(Lines) /\ <<>> \in Seq(Events1 \cup EventsN)
    BY EmptySeq
  <2> QED
    BY <2>1, <2>2 DEF Init, TypeOK, Fresh, Answers, StepMarks
<1>2. DOMAIN log = {} /\ DOMAIN channel = {} /\ Len(log) = 0
  <2>1. log = <<>> /\ channel = <<>>
    BY DEF Init
  <2>2. Len(log) = 0 /\ Len(channel) = 0
    BY <2>1, EmptySeq
  <2> QED
    BY <1>1, <2>2, Types
<1>8. \A l : ~Logged(l) /\ ~ToCome(l)
  BY <1>2 DEF Logged, ToCome
<1>3. LogIsOrdered /\ OutcomeIsLogged /\ Told
  BY <1>2, <1>8 DEF LogIsOrdered, OutcomeIsLogged, Told, Init, NotYet
<1>4. StreamIsOrdered
  <2>1. stream.sent = 0 /\ channel = <<>>
    BY DEF Init, Fresh
  <2> QED
    BY <1>2, <2>1 DEF StreamIsOrdered
<1>5. \A i \in Steps : view.steps[i] = IF kind = "StepDeployProgress" /\ i = 1 THEN "active"
                                       ELSE "pending"
  BY DEF Init, FirstSteps
<1>6. MarksAreLogged
  BY <1>5, StepsAreLines DEF MarksAreLogged, Init
<1>7. ASSUME kind = "StepDeployProgress" PROVE AtStage(1)
  <2>1. view.burned = FALSE
    BY DEF Init
  <2> QED
    BY <1>7, <1>8, <1>5, <2>1, StepsAreLines DEF AtStage
<1> QED
  BY <1>1, <1>3, <1>4, <1>6, <1>7, StepsAreLines DEF IInv, Stages


(* One more line, no smaller than the others, in the log. *)
LEMMA LogGrows ==
    ASSUME TypeOK, LogIsOrdered, NEW l \in Lines, Writes(l), LastLine <= l, l # Blank
    PROVE  /\ log' \in Seq(Lines) /\ Len(log') = Len(log) + 1
           /\ DOMAIN log' = DOMAIN log \cup {Len(log) + 1}
           /\ \A i \in DOMAIN log : log'[i] = log[i] /\ log'[i] <= l
           /\ log'[Len(log) + 1] = l
           /\ LogIsOrdered'
           /\ \A x : Logged(x)' <=> Logged(x) \/ x = l
<1>1. log \in Seq(Lines) /\ log' = Append(log, l) /\ Len(log) \in Nat
      /\ DOMAIN log = 1..Len(log)
  BY Types DEF TypeOK, Writes
<1>2. /\ log' \in Seq(Lines) /\ Len(log') = Len(log) + 1
      /\ \A i \in 1..Len(log) : log'[i] = log[i]
      /\ log'[Len(log) + 1] = l
  BY <1>1, AppendProperties
<1>3. DOMAIN log' = 1..(Len(log) + 1)
  BY <1>2, LenProperties
<1>4. DOMAIN log' = DOMAIN log \cup {Len(log) + 1}
  BY <1>1, <1>3
<1>5. \A i \in DOMAIN log : log[i] \in Nat /\ LastLine \in Nat /\ log[i] <= LastLine
  <2>1. \A i \in DOMAIN log : log[i] \in Nat
    BY Types DEF Lines
  <2>2. LastLine \in Nat
    BY <1>1, <2>1, EmptySeq DEF LastLine, Last, Blank
  <2> QED
    BY <2>1, <2>2, LastIsGreatest
<1>6. l \in Nat
  BY DEF Lines
<1>7. \A i \in DOMAIN log : log'[i] = log[i] /\ log'[i] <= l
  BY <1>1, <1>2, <1>5, <1>6
<1>8. \A x : Logged(x)' <=> Logged(x) \/ x = l
  BY <1>1, <1>2, <1>4 DEF Logged
<1>9. LogIsOrdered'
  <2>1. ASSUME NEW i \in DOMAIN log', NEW j \in DOMAIN log', i <= j
        PROVE  log'[i] <= log'[j]
    <3>1. CASE j = Len(log) + 1
      BY <1>2, <1>4, <1>6, <1>7, <3>1
    <3>2. CASE j \in DOMAIN log
      <4>1. i \in DOMAIN log
        BY <1>1, <1>3, <2>1, <3>2
      <4> QED
        BY <4>1, <3>2, <2>1, <1>7 DEF LogIsOrdered
    <3> QED
      BY <3>1, <3>2, <1>4
  <2> QED
    BY <2>1, <1>8 DEF LogIsOrdered
<1> QED
  BY <1>2, <1>4, <1>7, <1>8, <1>9

(* A line that is written while the deployment has no outcome yet, or that of its
   address, disturbs nothing that a view has read or will read. *)
LEMMA WriteKeepsIInv ==
    ASSUME IInv, NEW l \in Lines, Writes(l), LastLine <= l, l # Blank,
           outcome' \in Finals \cup {NotYet}, OutcomeIsLogged',
           l \in Steps => outcome = NotYet /\ LastLine < l,
           l = Served => outcome = NotYet,
           UNCHANGED <<access, status, deleted, wire, page, broken>>
    PROVE  IInv'
<1> USE DEF IInv
<1>1. UNCHANGED <<access, status, deleted, stream, channel, es, kind, view, timer, polls, broken>>
  BY DEF wire, page
<1>2. /\ log' \in Seq(Lines) /\ Len(log') = Len(log) + 1
      /\ DOMAIN log' = DOMAIN log \cup {Len(log) + 1}
      /\ \A i \in DOMAIN log : log'[i] = log[i] /\ log'[i] <= l
      /\ log'[Len(log) + 1] = l
      /\ LogIsOrdered'
      /\ \A x : Logged(x)' <=> Logged(x) \/ x = l
  BY LogGrows
<1>3. TypeOK'
  BY <1>1, <1>2 DEF TypeOK, NotYet
<1>0. l \in Nat
  BY DEF Lines
<1>4. \A x : Logged(x) => x <= l
  <2>1. \A i \in DOMAIN log : log[i] <= l
    BY <1>2
  <2> QED
    BY <2>1 DEF Logged
<1>5. StreamIsOrdered'
  <2>1. stream'.sent <= Len(log')
    <3>1. stream.sent <= Len(log) /\ stream.sent \in Nat /\ Len(log) \in Nat
      BY Types DEF StreamIsOrdered
    <3> QED
      BY <3>1, <1>1, <1>2
  <2>2. \A i \in DOMAIN channel : IsLine(channel[i]) => channel[i].line <= l
    <3>1. Blank <= l
      BY <1>0 DEF Blank
    <3> QED
      BY <3>1, <1>4 DEF StreamIsOrdered
  <2>3. ASSUME NEW i \in DOMAIN channel, NEW j \in DOMAIN log', IsLine(channel[i]), j > stream.sent
        PROVE  channel[i].line <= log'[j]
    BY <2>2, <2>3, <1>2 DEF StreamIsOrdered
  <2> QED
    BY <1>1, <1>2, <2>1, <2>3 DEF StreamIsOrdered, IsLine
<1>6. Told'
  BY <1>1, <1>2 DEF Told
<1>7. MarksAreLogged'
  BY <1>1, <1>2 DEF MarksAreLogged
<1>8. \A x : ToCome(x)' => ToCome(x) \/ x = l
  BY <1>1, <1>2 DEF ToCome, IsLine
<1>9. Stages'
  <2> SUFFICES ASSUME kind = "StepDeployProgress" PROVE (AllDone \/ \E k \in Steps : AtStage(k))'
    BY <1>1 DEF Stages
  <2>1. CASE AllDone
    <3>1. outcome # NotYet
      BY <2>1 DEF AllDone, OutcomeIsLogged
    <3> QED
      BY <1>1, <1>2, <1>8, <2>1, <3>1 DEF AllDone
  <2>2. ASSUME NEW k \in Steps, AtStage(k) PROVE AtStage(k)'
    <3>1. view.burned => outcome # NotYet
      BY DEF MarksAreLogged, OutcomeIsLogged
    <3>2. l \in Steps => l >= k
      BY <1>4, <2>2, StepsAreLines DEF AtStage
    <3> QED
      BY <1>1, <1>2, <1>8, <2>2, <3>1, <3>2 DEF AtStage
  <2> QED
    BY <2>1, <2>2 DEF Stages
<1> QED
  BY <1>2, <1>3, <1>5, <1>6, <1>7, <1>9

(* Steps that leave alone what the views have read and will read. *)
LEMMA QuietKeepsIInv ==
    ASSUME IInv, UNCHANGED <<log, outcome, stream, channel, es, kind, view, timer, polls, broken>>,
           access' \in BOOLEAN, deleted' \in BOOLEAN,
           status' = status \/ (status = NotYet /\ status' = outcome)
    PROVE  IInv'
<1> USE DEF IInv
<1>1. TypeOK'
  BY DEF TypeOK, NotYet
<1>2. LogIsOrdered' /\ StreamIsOrdered' /\ MarksAreLogged'
  BY DEF LogIsOrdered, StreamIsOrdered, MarksAreLogged, Logged, IsLine
<1>3. OutcomeIsLogged'
  BY DEF OutcomeIsLogged, Logged
<1>4. Told'
  <2>1. CASE status' = status
    BY <2>1 DEF Told, Logged
  <2>2. CASE status = NotYet
    <3>1. \A i \in DOMAIN channel : channel[i].event # "done"
      BY <2>2, Types DEF Told, Finals, NotYet
    <3> QED
      BY <2>2, <3>1 DEF Told, Logged
  <2> QED
    BY <2>1, <2>2
<1>5. Stages'
  BY DEF Stages, AllDone, AtStage, ToCome, Logged, IsLine
<1> QED
  BY <1>1, <1>2, <1>3, <1>4, <1>5

LEMMA JobKeepsIInv == ASSUME IInv, Job \/ DeleteRow PROVE IInv'
<1> USE DEF IInv
<1>0. status # NotYet => outcome # NotYet
  BY DEF OutcomeIsLogged
<1>1. ASSUME NEW n \in Steps, LogStep(n) PROVE IInv'
  <2>1. /\ Writes(n) /\ LastLine = n - 1 /\ outcome = NotYet /\ outcome' = outcome
        /\ UNCHANGED <<access, status, deleted, wire, page, broken>>
    BY <1>1 DEF LogStep, NotYet
  <2>0. n \in Lines /\ n \in 1..5
    BY StepsAreLines
  <2>2. n \in Lines /\ n # Blank /\ LastLine <= n /\ LastLine < n /\ n # Served /\ n # Burned
    BY <2>0, <2>1 DEF Blank, Served, Burned
  <2>3. OutcomeIsLogged'
    BY <2>1, <2>2, LogGrows DEF OutcomeIsLogged
  <2> QED
    BY <2>1, <2>2, <2>3, WriteKeepsIInv DEF TypeOK, NotYet
<1>2. CASE LogAddress
  <2>1. /\ Writes(Address) /\ LastLine = LastStep /\ outcome' = outcome
        /\ UNCHANGED <<access, status, deleted, wire, page, broken>>
    BY <1>2 DEF LogAddress
  <2>2. Address \in Lines /\ Address # Blank /\ LastLine <= Address /\ Address \notin Steps
        /\ Address # Served /\ Address # Burned
    BY <2>1, StepsAreLines DEF Blank, Served, Burned, Address, Lines
  <2>3. OutcomeIsLogged'
    BY <2>1, <2>2, LogGrows DEF OutcomeIsLogged
  <2> QED
    BY <2>1, <2>2, <2>3, WriteKeepsIInv DEF TypeOK, NotYet
<1>3. CASE LogServed
  <2>1. /\ Writes(Served) /\ Deployed /\ outcome = NotYet /\ outcome' \in {"succeeded", "partial"}
        /\ UNCHANGED <<access, status, deleted, wire, page, broken>>
    BY <1>3 DEF LogServed, NotYet
  <2>0. LastLine <= 6
    BY <2>1, StepsAreLines DEF Deployed, Address
  <2>2. Served \in Lines /\ Served # Blank /\ LastLine <= Served /\ Served \notin Steps
        /\ Served # Burned
    BY <2>0, <2>1, StepsAreLines DEF Blank, Served, Burned, Lines, Deployed, Address
  <2>4. outcome' # NotYet /\ status' = NotYet
    BY <1>0, <2>1 DEF NotYet
  <2>5. \A x : Logged(x)' <=> Logged(x) \/ x = Served
    BY <2>1, <2>2, LogGrows
  <2>3. OutcomeIsLogged'
    BY <2>1, <2>2, <2>4, <2>5 DEF OutcomeIsLogged
  <2> QED
    BY <2>1, <2>2, <2>3, WriteKeepsIInv DEF Finals
<1>4. CASE LogBurned
  <2>1. /\ Writes(Burned) /\ outcome = NotYet /\ outcome' \in {"failed", "rolled_back"}
        /\ Deployed \/ LastLine \in {1, 3, 4}
        /\ UNCHANGED <<access, status, deleted, wire, page, broken>>
    BY <1>4 DEF LogBurned, NotYet
  <2>0. LastLine <= 6
    BY <2>1, StepsAreLines DEF Deployed, Address
  <2>2. Burned \in Lines /\ Burned # Blank /\ LastLine <= Burned /\ Burned \notin Steps
        /\ Served # Burned
    BY <2>0, <2>1, StepsAreLines DEF Blank, Served, Burned, Lines, Deployed, Address
  <2>4. outcome' # NotYet /\ status' = NotYet
    BY <1>0, <2>1 DEF NotYet
  <2>5. \A x : Logged(x)' <=> Logged(x) \/ x = Burned
    BY <2>1, <2>2, LogGrows
  <2>3. OutcomeIsLogged'
    BY <2>1, <2>2, <2>4, <2>5 DEF OutcomeIsLogged
  <2> QED
    BY <2>1, <2>2, <2>3, WriteKeepsIInv DEF Finals
<1>5. CASE FindAddress \/ Finish \/ DeleteRow
  <2>1. /\ UNCHANGED <<log, outcome, stream, channel, es, kind, view, timer, polls, broken>>
        /\ access' \in BOOLEAN /\ deleted' \in BOOLEAN
        /\ status' = status \/ (status = NotYet /\ status' = outcome)
    BY <1>5 DEF FindAddress, Finish, DeleteRow, wire, page, TypeOK, NotYet
  <2> QED
    BY <2>1, QuietKeepsIInv
<1> QED
  BY <1>1, <1>2, <1>3, <1>4, <1>5 DEF Job


LEMMA LinesAreNumbers == \A l \in Lines : l \in Nat
  BY DEF Lines

LEMMA EventLines == \A e \in EventTypes : e.line \in Lines
<1>1. Blank \in Lines
  BY DEF Blank, Lines
<1> QED
  BY <1>1 DEF EventTypes, Events1, EventsN

(* What a greeting or a tick sends: at most one line, the next of those not sent
   yet, and the outcome when it is stored. *)
LEMMA NewEvents ==
    ASSUME IInv, NEW first,
           \/ first = NewPart(stream.sent)
           \/ log = <<>> /\ first = <<Line(Blank)>>
    PROVE  LET new == first \o OutcomePart IN
           /\ first \in Seq(EventTypes) /\ OutcomePart \in Seq(EventTypes)
           /\ new \in Seq(EventTypes)
           /\ \A i, j \in DOMAIN new : IsLine(new[i]) /\ IsLine(new[j]) => i = j
           /\ \A i \in DOMAIN new : IsLine(new[i]) =>
                 \/ new[i].line = Blank /\ log = <<>>
                 \/ \E j \in DOMAIN log : j > stream.sent /\ log[j] = new[i].line
                      /\ \A k \in DOMAIN log : k > stream.sent => log[j] <= log[k]
           /\ \A i \in DOMAIN new : new[i].event = "done" => new[i].status = status
<1> DEFINE new == first \o OutcomePart
<1> USE DEF IInv
<1>1. \A l \in Lines : Line(l) \in EventTypes /\ IsLine(Line(l)) /\ Line(l).line = l
                         /\ Line(l).event # "done"
  BY DEF Line, IsLine, EventTypes, Events1
<1>2. /\ OutcomePart = <<>> \/ OutcomePart = <<Done(status)>>
      /\ OutcomePart # <<>> => status \in Finals
  BY DEF OutcomePart, Finished, TypeOK
<1>3. status \in Finals => /\ Done(status) \in EventTypes /\ ~IsLine(Done(status))
                           /\ Done(status).status = status
  BY DEF Done, IsLine, EventTypes, EventsN
<1>4. /\ OutcomePart \in Seq(EventTypes) /\ Len(OutcomePart) \in Nat
      /\ \A i \in 1..Len(OutcomePart) : ~IsLine(OutcomePart[i]) /\ OutcomePart[i].status = status
  <2>1. CASE OutcomePart = <<>>
    BY <2>1, EmptySeq
  <2>2. CASE OutcomePart = <<Done(status)>> /\ OutcomePart # <<>>
    BY <1>2, <1>3, <2>2
  <2> QED
    BY <1>2, <2>1, <2>2
<1>5. \/ first = <<>>
      \/ \E l \in Lines : /\ first = <<Line(l)>>
                          /\ \/ l = Blank /\ log = <<>>
                             \/ \E j \in DOMAIN log : j > stream.sent /\ log[j] = l
                                  /\ \A k \in DOMAIN log : k > stream.sent => log[j] <= log[k]
  <2>1. CASE log = <<>> /\ first = <<Line(Blank)>>
    BY <2>1 DEF Blank, Lines
  <2>2. CASE first = NewPart(stream.sent)
    <3>1. CASE Len(log) > stream.sent
      <4> DEFINE j == stream.sent + 1
      <4>1. j \in DOMAIN log /\ j > stream.sent /\ log[j] \in Lines
        BY <3>1, Types
      <4>2. first = <<Line(log[j])>>
        BY <2>2, <3>1 DEF NewPart
      <4>3. \A k \in DOMAIN log : k > stream.sent => log[j] <= log[k]
        <5>1. \A k \in DOMAIN log : k > stream.sent => j <= k
          BY Types
        <5> QED
          BY <4>1, <5>1 DEF LogIsOrdered
      <4> QED
        BY <4>1, <4>2, <4>3
    <3>2. CASE ~(Len(log) > stream.sent)
      BY <2>2, <3>2 DEF NewPart
    <3> QED
      BY <3>1, <3>2
  <2> QED
    BY <2>1, <2>2
<1>6. CASE first = <<>>
  <2>1. first \in Seq(EventTypes) /\ new = OutcomePart
    BY <1>4, <1>6, EmptySeq, ConcatEmptySeq
  <2>2. DOMAIN new = 1..Len(OutcomePart)
    BY <1>4, <2>1, LenProperties
  <2> QED
    BY <1>4, <2>1, <2>2
<1>7. ASSUME NEW l \in Lines, first = <<Line(l)>>,
             \/ l = Blank /\ log = <<>>
             \/ \E j \in DOMAIN log : j > stream.sent /\ log[j] = l
                  /\ \A k \in DOMAIN log : k > stream.sent => log[j] <= log[k]
      PROVE  LET n == new IN
           /\ first \in Seq(EventTypes)
           /\ n \in Seq(EventTypes)
           /\ \A i, j \in DOMAIN n : IsLine(n[i]) /\ IsLine(n[j]) => i = j
           /\ \A i \in DOMAIN n : IsLine(n[i]) =>
                 \/ n[i].line = Blank /\ log = <<>>
                 \/ \E j \in DOMAIN log : j > stream.sent /\ log[j] = n[i].line
                      /\ \A k \in DOMAIN log : k > stream.sent => log[j] <= log[k]
           /\ \A i \in DOMAIN n : n[i].event = "done" => n[i].status = status
  <2>1. first \in Seq(EventTypes) /\ Len(first) = 1 /\ first[1] = Line(l)
    BY <1>1, <1>7
  <2>2. /\ new \in Seq(EventTypes) /\ Len(new) = 1 + Len(OutcomePart)
        /\ \A i \in 1..(1 + Len(OutcomePart)) :
              new[i] = IF i <= 1 THEN first[i] ELSE OutcomePart[i - 1]
    <3>1. /\ first \o OutcomePart \in Seq(EventTypes)
          /\ Len(first \o OutcomePart) = Len(first) + Len(OutcomePart)
          /\ \A i \in 1..Len(first) + Len(OutcomePart) :
                (first \o OutcomePart)[i] = IF i <= Len(first) THEN first[i]
                                            ELSE OutcomePart[i - Len(first)]
      BY <1>4, <2>1, ConcatProperties
    <3>2. new = first \o OutcomePart
      OBVIOUS
    <3> HIDE DEF new
    <3> QED
      BY <1>4, <2>1, <3>1, <3>2
  <2>3. DOMAIN new = 1..(1 + Len(OutcomePart))
    BY <2>2, LenProperties
  <2>4. \A i \in DOMAIN new : IF i = 1 THEN new[i] = Line(l)
                              ELSE ~IsLine(new[i]) /\ new[i].status = status
    <3>1. ASSUME NEW i \in DOMAIN new, i # 1
          PROVE  ~IsLine(new[i]) /\ new[i].status = status
      <4>1. i - 1 \in 1..Len(OutcomePart) /\ new[i] = OutcomePart[i - 1]
        BY <1>4, <2>2, <2>3, <3>1
      <4> QED
        BY <4>1, <1>4
    <3>2. 1 \in DOMAIN new /\ new[1] = Line(l)
      BY <1>4, <2>1, <2>2, <2>3
    <3> QED
      BY <3>1, <3>2
  <2> HIDE DEF new
  <2> QED
    BY <1>1, <1>7, <2>1, <2>2, <2>4
<1> QED
  BY <1>4, <1>5, <1>6, <1>7

(* Sending them disturbs nothing: what a view has still to read was to be read
   before, but for a blank line. *)
LEMMA SendKeepsIInv ==
    ASSUME IInv, NEW first,
           \/ first = NewPart(stream.sent)
           \/ log = <<>> /\ first = <<Line(Blank)>>,
           channel' = channel \o (first \o OutcomePart),
           stream' = [up |-> ~Finished, greeted |-> TRUE, sent |-> Len(log)],
           UNCHANGED <<row, es, page, broken>>
    PROVE  IInv'
<1> DEFINE new == first \o OutcomePart
<1>0. /\ TypeOK /\ LogIsOrdered /\ OutcomeIsLogged /\ StreamIsOrdered
      /\ Told /\ MarksAreLogged /\ Stages
  BY DEF IInv
<1>1. UNCHANGED <<log, outcome, access, status, deleted, es, kind, view, timer, polls, broken>>
  BY DEF row, page
<1>2. /\ new \in Seq(EventTypes)
      /\ \A i, j \in DOMAIN new : IsLine(new[i]) /\ IsLine(new[j]) => i = j
      /\ \A i \in DOMAIN new : IsLine(new[i]) =>
            \/ new[i].line = Blank /\ log = <<>>
            \/ \E j \in DOMAIN log : j > stream.sent /\ log[j] = new[i].line
                 /\ \A k \in DOMAIN log : k > stream.sent => log[j] <= log[k]
      /\ \A i \in DOMAIN new : new[i].event = "done" => new[i].status = status
  BY NewEvents
<1>3. channel \in Seq(EventTypes) /\ Len(channel) \in Nat /\ DOMAIN channel = 1..Len(channel)
  BY <1>0, Types DEF TypeOK, EventTypes
<1>4. Len(new) \in Nat /\ DOMAIN new = 1..Len(new)
  BY <1>2, LenProperties
<1>5. /\ channel' \in Seq(EventTypes) /\ Len(channel') = Len(channel) + Len(new)
      /\ \A i \in 1..(Len(channel) + Len(new)) :
            channel'[i] = IF i <= Len(channel) THEN channel[i] ELSE new[i - Len(channel)]
  <2> HIDE DEF new
  <2>1. channel' = channel \o new
    BY DEF new
  <2> QED
    BY <1>2, <1>3, <2>1, ConcatProperties
<1>6. DOMAIN channel' = 1..(Len(channel) + Len(new))
  BY <1>5, LenProperties
<1> DEFINE Old(i) == i \in DOMAIN channel /\ channel'[i] = channel[i]
           New(i) == /\ i > Len(channel) /\ i - Len(channel) \in DOMAIN new
                     /\ channel'[i] = new[i - Len(channel)]
<1>7. \A i \in DOMAIN channel' : Old(i) \/ New(i)
  BY <1>3, <1>4, <1>5, <1>6
<1> HIDE DEF new
<1>8. /\ stream' \in [up : BOOLEAN, greeted : BOOLEAN, sent : Nat]
      /\ stream'.sent = Len(log) /\ stream'.greeted = TRUE
  BY <1>0, Types DEF Finished
<1>9. TypeOK'
  BY <1>0, <1>1, <1>5, <1>8 DEF TypeOK, EventTypes
<1>10. LogIsOrdered' /\ OutcomeIsLogged' /\ MarksAreLogged'
  BY <1>0, <1>1 DEF LogIsOrdered, OutcomeIsLogged, MarksAreLogged, Logged
<1>11. Told'
  BY <1>0, <1>1, <1>2, <1>7 DEF Told, Logged
<1>16. \A m \in DOMAIN channel' : channel'[m].line \in Lines
  <2>1. \A m \in DOMAIN channel : channel[m].line \in Lines
    BY <1>0, Types
  <2>2. \A m \in DOMAIN new : new[m].line \in Lines
    <3>1. \A m \in DOMAIN new : new[m] \in EventTypes
      BY <1>2, <1>4, ElementOfSeq
    <3> QED
      BY <3>1, EventLines
  <2> QED
    BY <1>7, <2>1, <2>2
<1>17. \A m \in DOMAIN channel' : channel'[m].line \in Nat
  BY <1>16, LinesAreNumbers
<1>12. \A k \in DOMAIN log : ~(k > Len(log))
  BY <1>0, Types
<1>13. StreamIsOrdered'
  <2>1. ASSUME NEW i \in DOMAIN channel', IsLine(channel'[i])
        PROVE  channel'[i].line = Blank \/ Logged(channel'[i].line)
    <3>1. CASE Old(i)
      BY <1>0, <2>1, <3>1 DEF StreamIsOrdered
    <3>2. CASE New(i)
      BY <1>2, <2>1, <3>2 DEF Logged
    <3> QED
      BY <1>7, <3>1, <3>2
  <2>2. ASSUME NEW i \in DOMAIN channel', NEW j \in DOMAIN channel', i <= j,
               IsLine(channel'[i]), IsLine(channel'[j])
        PROVE  channel'[i].line <= channel'[j].line
    <3>1. CASE Old(i) /\ Old(j)
      BY <1>0, <2>2, <3>1 DEF StreamIsOrdered
    <3>2. CASE Old(i) /\ New(j)
      <4>1. CASE channel'[j].line = Blank /\ log = <<>>
        <5>1. \A x : ~Logged(x)
          BY <4>1 DEF Logged
        <5>2. channel[i].line = Blank
          BY <1>0, <2>2, <3>2, <5>1 DEF StreamIsOrdered
        <5> QED
          BY <3>2, <4>1, <5>2, <1>17
      <4>2. ASSUME NEW k \in DOMAIN log, k > stream.sent, log[k] = channel'[j].line
            PROVE  channel'[i].line <= channel'[j].line
        BY <1>0, <2>2, <3>2, <4>2 DEF StreamIsOrdered
      <4> QED
        BY <1>2, <2>2, <3>2, <4>1, <4>2
    <3>3. CASE New(i) /\ New(j)
      <4>1. i - Len(channel) = j - Len(channel)
        BY <1>2, <2>2, <3>3
      <4>2. channel'[i] = channel'[j]
        BY <3>3, <4>1
      <4> QED
        BY <4>2, <1>17
    <3>4. CASE New(i) /\ Old(j)
      BY <1>3, <2>2, <3>4, <1>6
    <3> QED
      BY <1>7, <3>1, <3>2, <3>3, <3>4
  <2>3. stream'.sent <= Len(log') /\ stream'.greeted = TRUE
    BY <1>0, <1>1, <1>8, Types
  <2>4. \A j \in DOMAIN log' : ~(j > stream'.sent)
    BY <1>1, <1>8, <1>12
  <2> QED
    BY <1>1, <2>1, <2>2, <2>3, <2>4 DEF StreamIsOrdered, Logged, IsLine
<1>14. \A l : ToCome(l)' => ToCome(l) \/ l = Blank
  <2> SUFFICES ASSUME NEW l, ToCome(l)', l # Blank PROVE ToCome(l)
    OBVIOUS
  <2>1. PICK i \in DOMAIN channel' : IsLine(channel'[i]) /\ channel'[i].line = l
    BY <1>1, <1>8, <1>12 DEF ToCome, IsLine
  <2>2. CASE Old(i)
    BY <2>1, <2>2 DEF ToCome
  <2>3. CASE New(i)
    BY <1>2, <2>1, <2>3 DEF ToCome
  <2> QED
    BY <1>7, <2>2, <2>3
<1>15. Stages'
  <2>1. Blank \notin Steps /\ Blank # Served
    BY StepsAreLines DEF Blank, Served
  <2>2. AllDone => AllDone'
    BY <1>1, <1>14, <2>1 DEF AllDone, Logged
  <2>3. ASSUME NEW k \in Steps, AtStage(k) PROVE AtStage(k)'
    BY <1>1, <1>14, <2>1, <2>3 DEF AtStage, Logged
  <2> QED
    BY <1>0, <1>1, <2>2, <2>3 DEF Stages
<1> QED
  BY <1>9, <1>10, <1>11, <1>13, <1>15 DEF IInv


LEMMA ServerKeepsIInv == ASSUME IInv, Greet \/ Tick PROVE IInv'
<1>0. TypeOK /\ StreamIsOrdered
  BY DEF IInv
<1>1. /\ NewPart(stream.sent) \in Seq(EventTypes) /\ OutcomePart \in Seq(EventTypes)
      /\ log = <<>> => <<Line(Blank)>> \in Seq(EventTypes)
  BY NewEvents
<1>2. channel \in Seq(EventTypes)
  BY <1>0 DEF TypeOK, EventTypes
<1>3. CASE Greet
  <2> DEFINE first == IF log = <<>> THEN <<Line(Blank)>> ELSE NewPart(0)
  <2>1. stream.sent = 0
    BY <1>0, <1>3 DEF StreamIsOrdered, Greet
  <2>2. \/ first = NewPart(stream.sent)
        \/ log = <<>> /\ first = <<Line(Blank)>>
    BY <2>1
  <2>3. first \in Seq(EventTypes)
    BY <1>1, <2>2
  <2>4. /\ channel' = (channel \o first) \o OutcomePart
        /\ stream' = [up |-> ~Finished, greeted |-> TRUE, sent |-> Len(log)]
        /\ UNCHANGED <<row, es, page, broken>>
    BY <1>3 DEF Greet
  <2> HIDE DEF first
  <2>6. (channel \o first) \o OutcomePart = channel \o (first \o OutcomePart)
    BY <1>1, <1>2, <2>3, ConcatAssociative
  <2>5. channel' = channel \o (first \o OutcomePart)
    BY <2>4, <2>6
  <2> QED
    BY <2>2, <2>4, <2>5, SendKeepsIInv
<1>4. CASE Tick
  <2> DEFINE first == NewPart(stream.sent)
  <2>1. /\ channel' = (channel \o first) \o OutcomePart
        /\ stream' = [up |-> ~Finished, greeted |-> TRUE, sent |-> Len(log)]
        /\ UNCHANGED <<row, es, page, broken>>
    BY <1>4 DEF Tick
  <2>2. channel' = channel \o (first \o OutcomePart)
    BY <1>1, <1>2, <2>1, ConcatAssociative
  <2> QED
    BY <2>1, <2>2, SendKeepsIInv
<1> QED
  BY <1>3, <1>4

(* Steps that take from what is under way all or nothing, and add to the answers
   at most the one that the server gives now. *)
LEMMA PageKeepsIInv ==
    ASSUME IInv, TypeOK', MarksAreLogged', UNCHANGED <<row, kind>>,
           view'.final = view.final \/ view'.final = status,
           polls' \subseteq polls \cup {Answer},
           \/ /\ stream'.sent = stream.sent /\ stream'.greeted = stream.greeted
              /\ channel' = channel \/ channel' = <<>>
           \/ kind # "StepDeployProgress" /\ stream'.sent = 0 /\ channel' = <<>>,
           kind = "StepDeployProgress" => /\ view'.steps = view.steps
                                          /\ view'.burned = view.burned
    PROVE  IInv'
<1>0. /\ TypeOK /\ LogIsOrdered /\ OutcomeIsLogged /\ StreamIsOrdered
      /\ Told /\ Stages
  BY DEF IInv
<1>1. UNCHANGED <<log, outcome, access, status, deleted, kind>>
  BY DEF row
<1>2. DOMAIN <<>> = {}
  OBVIOUS
<1>3. LogIsOrdered' /\ OutcomeIsLogged'
  BY <1>0, <1>1 DEF LogIsOrdered, OutcomeIsLogged, Logged
<1>4. Told'
  <2>1. \A a \in polls' : /\ a.status # NotYet => a.status = status
                          /\ \A i \in DOMAIN a.log : Logged(a.log[i])
    <3>1. Answer.status = status /\ Answer.log = log
      BY DEF Answer
    <3> QED
      BY <1>0, <3>1 DEF Told, Logged
  <2>2. \A i \in DOMAIN channel' : channel'[i].event = "done" => channel'[i].status = status
    <3>1. CASE channel' = channel
      BY <1>0, <3>1 DEF Told
    <3>2. CASE channel' = <<>>
      BY <3>2, <1>2
    <3> QED
      BY <3>1, <3>2
  <2>3. view'.final # NotYet => view'.final = status
    BY <1>0 DEF Told
  <2> QED
    BY <1>1, <2>1, <2>2, <2>3 DEF Told, Logged
<1>5. StreamIsOrdered'
  <2>1. CASE channel' = channel /\ stream'.sent = stream.sent /\ stream'.greeted = stream.greeted
    BY <1>0, <1>1, <2>1 DEF StreamIsOrdered, Logged, IsLine
  <2>2. CASE channel' = <<>> /\ (stream'.sent = stream.sent \/ stream'.sent = 0)
    <3>1. stream'.sent <= Len(log')
      BY <1>0, <1>1, <2>2, Types DEF StreamIsOrdered
    <3>2. ~stream'.greeted => stream'.sent = 0
      BY <1>0, <2>2 DEF StreamIsOrdered
    <3> QED
      BY <1>1, <1>2, <2>2, <3>1, <3>2 DEF StreamIsOrdered
  <2> QED
    BY <2>1, <2>2
<1>6. Stages'
  <2> SUFFICES ASSUME kind = "StepDeployProgress" PROVE (AllDone \/ \E k \in Steps : AtStage(k))'
    BY <1>1 DEF Stages
  <2>1. \A l : ToCome(l)' => ToCome(l)
    BY <1>1, <1>2 DEF ToCome, IsLine
  <2>2. CASE AllDone
    BY <1>1, <2>1, <2>2 DEF AllDone, Logged
  <2>3. ASSUME NEW k \in Steps, AtStage(k) PROVE AtStage(k)'
    BY <1>1, <2>1, <2>3 DEF AtStage, Logged
  <2> QED
    BY <1>0, <2>2, <2>3 DEF Stages
<1> QED
  BY <1>0, <1>3, <1>4, <1>5, <1>6 DEF IInv

LEMMA QuietMarks ==
    ASSUME MarksAreLogged, UNCHANGED row, view'.steps = view.steps, view'.burned = view.burned
    PROVE  MarksAreLogged'
  BY DEF MarksAreLogged, Logged, row

(* The rest of the stream, and the requests. *)
LEMMA QuietPageKeepsIInv ==
    ASSUME IInv, RowNotFound \/ Break \/ ReceiveDone \/ ReceiveEnd \/ StartPolling
                 \/ Poll \/ AskOnce
    PROVE  IInv'
<1>0. TypeOK /\ MarksAreLogged /\ Told
  BY DEF IInv
<1>1. Answer \in Answers /\ <<>> \in Seq(Events1 \cup EventsN)
  BY <1>0, EmptySeq DEF Answer, Answers, TypeOK
<1>2. CASE RowNotFound
  <2>1. TypeOK'
    BY <1>0, <1>2 DEF RowNotFound, TypeOK, row, page
  <2>2. /\ UNCHANGED <<row, kind, view, polls, channel>>
        /\ stream'.sent = stream.sent /\ stream'.greeted = stream.greeted
    BY <1>0, <1>2 DEF RowNotFound, page, TypeOK
  <2> QED
    BY <1>0, <2>1, <2>2, QuietMarks, PageKeepsIInv
<1>3. CASE Break
  <2>1. TypeOK'
    BY <1>0, <1>1, <1>3 DEF Break, TypeOK, row, page
  <2>2. /\ UNCHANGED <<row, kind, view, polls>> /\ channel' = <<>>
        /\ stream'.sent = stream.sent /\ stream'.greeted = stream.greeted
    BY <1>0, <1>3 DEF Break, page, TypeOK
  <2> QED
    BY <1>0, <2>1, <2>2, QuietMarks, PageKeepsIInv
<1>4. CASE ReceiveDone
  <2> DEFINE s == Head(channel).status
  <2>1. Head(channel) = channel[1] /\ 1 \in DOMAIN channel /\ Head(channel).event = "done"
    BY <1>0, <1>4, Types DEF ReceiveDone
  <2>2. s \in Finals /\ s = status
    BY <1>0, <2>1, Types DEF Told
  <2>3. /\ view' = [view EXCEPT !.final = s] /\ channel' = <<>> /\ es' \in {"open", "closed"}
        /\ stream' = IF Reopens(s) THEN Fresh ELSE [stream EXCEPT !.up = FALSE]
        /\ UNCHANGED <<row, kind, timer, polls, broken>>
    BY <1>4 DEF ReceiveDone
  <2> HIDE DEF s
  <2>4. stream' \in [up : BOOLEAN, greeted : BOOLEAN, sent : Nat]
    BY <1>0, <2>3 DEF Fresh, TypeOK
  <2>5. TypeOK'
    BY <1>0, <1>1, <2>2, <2>3, <2>4 DEF TypeOK, row
  <2>6. view'.final = status /\ view'.steps = view.steps /\ view'.burned = view.burned
    BY <1>0, <2>2, <2>3 DEF TypeOK
  <2>7. \/ stream'.sent = stream.sent /\ stream'.greeted = stream.greeted
        \/ kind # "StepDeployProgress" /\ stream'.sent = 0
    BY <1>0, <2>3 DEF Reopens, Fresh, TypeOK
  <2> QED
    BY <1>0, <2>3, <2>5, <2>6, <2>7, QuietMarks, PageKeepsIInv
<1>5. CASE ReceiveEnd
  <2>1. TypeOK'
    BY <1>0, <1>5 DEF ReceiveEnd, TypeOK, row, page
  <2>2. UNCHANGED <<row, kind, view, polls, channel, stream>>
    BY <1>5 DEF ReceiveEnd, page
  <2> QED
    BY <1>0, <2>1, <2>2, QuietMarks, PageKeepsIInv
<1>6. CASE StartPolling
  <2>1. TypeOK'
    BY <1>0, <1>6 DEF StartPolling, TypeOK, row, wire
  <2>2. /\ UNCHANGED <<row, kind, polls, channel, stream>>
        /\ view'.final = view.final /\ view'.steps = view.steps /\ view'.burned = view.burned
    BY <1>0, <1>6 DEF StartPolling, wire, TypeOK
  <2> QED
    BY <1>0, <2>1, <2>2, QuietMarks, PageKeepsIInv
<1>7. CASE Poll \/ AskOnce
  <2>1. /\ UNCHANGED <<row, wire, kind, view, broken>> /\ timer' \in {"armed", "fired"}
        /\ polls' = polls \/ polls' = polls \cup {Answer}
    BY <1>0, <1>7 DEF Poll, AskOnce, TypeOK
  <2>3. UNCHANGED <<log, outcome, access, status, deleted, stream, channel, es, kind, view, broken>>
    BY <2>1 DEF row, wire
  <2>4. polls \in SUBSET Answers
    BY <1>0 DEF TypeOK
  <2>5. polls' \in SUBSET Answers
    BY <1>1, <2>1, <2>4
  <2>2. TypeOK'
    BY <1>0, <2>1, <2>3, <2>5 DEF TypeOK
  <2> QED
    BY <1>0, <2>1, <2>2, <2>3, QuietMarks, PageKeepsIInv
<1> QED
  BY <1>2, <1>3, <1>4, <1>5, <1>6, <1>7


(* A line of the stream is read: a stage that is done or has failed stays so,
   since no line of an earlier stage is still to come. *)
LEMMA LineKeepsIInv == ASSUME IInv, ReceiveLine PROVE IInv' /\ StagesStay
<1>18. PICK l : l = Head(channel).line
  OBVIOUS
<1>0. /\ TypeOK /\ LogIsOrdered /\ OutcomeIsLogged /\ StreamIsOrdered
      /\ Told /\ MarksAreLogged /\ Stages
  BY DEF IInv
<1>1. /\ channel # <<>> /\ Head(channel).event = "message"
      /\ view' = WithLine(view, l) /\ channel' = Tail(channel)
      /\ UNCHANGED <<row, stream, es, kind, timer, polls, broken>>
  BY <1>18 DEF ReceiveLine
<1>2. UNCHANGED <<log, outcome, access, status, deleted>>
  BY <1>1 DEF row
<1>3. channel \in Seq(EventTypes)
  BY <1>0 DEF TypeOK, EventTypes
<1>4. /\ channel' \in Seq(EventTypes) /\ Len(channel') = Len(channel) - 1
      /\ \A i \in 1..Len(channel') : channel'[i] = channel[i + 1]
      /\ Head(channel) \in EventTypes
  BY <1>1, <1>3, HeadTailProperties
<1>5. DOMAIN channel' = 1..(Len(channel) - 1)
  BY <1>4, LenProperties
<1>6. /\ 1 \in DOMAIN channel /\ channel[1] = Head(channel)
      /\ \A i \in DOMAIN channel' : i + 1 \in DOMAIN channel /\ 1 <= i + 1
                                    /\ channel'[i] = channel[i + 1]
  BY <1>0, <1>1, <1>3, <1>4, <1>5, Types
<1>7. /\ l \in Lines /\ (l = Blank \/ Logged(l))
      /\ \A i \in DOMAIN channel' : IsLine(channel'[i]) => l <= channel'[i].line
      /\ \A j \in DOMAIN log : j > stream.sent => l <= log[j]
      /\ ToCome(l)
  <2>1. IsLine(channel[1]) /\ l = channel[1].line /\ l \in Lines
    BY <1>18, <1>1, <1>4, <1>6, EventLines DEF IsLine
  <2> QED
    BY <1>0, <1>6, <2>1 DEF StreamIsOrdered, ToCome
<1>8. Blank \notin Steps /\ Blank # Served /\ Blank # Burned /\ Burned # Served
      /\ Served \notin Steps /\ Burned \notin Steps
  BY StepsAreLines DEF Blank, Served, Burned
<1>9. /\ view'.burned = (view.burned \/ l = Burned) /\ view'.final = view.final
      /\ view'.steps = IF kind = "DeployLog" THEN view.steps ELSE Marked(view.steps, l)
  BY <1>0, <1>1 DEF WithLine, TypeOK
<1>10. /\ Marked(view.steps, l) \in [Steps -> StepMarks]
       /\ \A i \in Steps : Marked(view.steps, l)[i] = "error" => l = Burned \/ view.steps[i] = "error"
       /\ Marked(view.steps, l)[LastStep] = "done" => l = Served \/ view.steps[LastStep] = "done"
  <2>1. view.steps \in [Steps -> StepMarks] /\ l \in Lines
    BY <1>0, <1>7 DEF TypeOK, StepMarks
  <2> QED
    BY <2>1, MarkedProperties
<1>11. TypeOK'
  <2>1. view' \in [steps : [Steps -> {"pending", "active", "done", "error"}],
                   burned : BOOLEAN, final : Finals \cup {""}, url : BOOLEAN, polling : BOOLEAN]
    <3> DEFINE Marks == Marked(view.steps, l)
    <3>1. view' = IF kind = "DeployLog" THEN [view EXCEPT !.burned = @ \/ l = Burned]
                  ELSE [view EXCEPT !.burned = @ \/ l = Burned, !.steps = Marks,
                                    !.url = @ \/ l = Address]
      BY <1>0, <1>1 DEF WithLine, TypeOK
    <3>2. Marks \in [Steps -> {"pending", "active", "done", "error"}]
      BY <1>10 DEF StepMarks
    <3> HIDE DEF Marks
    <3> QED
      BY <1>0, <3>1, <3>2 DEF TypeOK
  <2> QED
    BY <1>0, <1>1, <1>2, <1>4, <2>1 DEF TypeOK, EventTypes
<1>12. LogIsOrdered' /\ OutcomeIsLogged'
  BY <1>0, <1>2 DEF LogIsOrdered, OutcomeIsLogged, Logged
<1>13. Told'
  BY <1>0, <1>1, <1>2, <1>6, <1>9 DEF Told, Logged
<1>14. MarksAreLogged'
  BY <1>0, <1>2, <1>7, <1>8, <1>9, <1>10, StepsAreLines DEF MarksAreLogged, Logged
<1>15. StreamIsOrdered'
  <2>1. \A i, j \in DOMAIN channel' : i <= j => i + 1 <= j + 1
    BY <1>5
  <2>2. ~stream.greeted => channel' = <<>>
    BY <1>0, <1>1 DEF StreamIsOrdered
  <2>3. \A i \in DOMAIN channel' :
          IsLine(channel'[i]) => channel'[i].line = Blank \/ Logged(channel'[i].line)
    BY <1>0, <1>6 DEF StreamIsOrdered
  <2>4. \A i, j \in DOMAIN channel' :
          i <= j /\ IsLine(channel'[i]) /\ IsLine(channel'[j]) => channel'[i].line <= channel'[j].line
    BY <1>0, <1>6, <2>1 DEF StreamIsOrdered
  <2>5. \A i \in DOMAIN channel', j \in DOMAIN log :
          IsLine(channel'[i]) /\ j > stream.sent => channel'[i].line <= log[j]
    BY <1>0, <1>6 DEF StreamIsOrdered
  <2> QED
    BY <1>0, <1>1, <1>2, <2>2, <2>3, <2>4, <2>5 DEF StreamIsOrdered, Logged, IsLine
<1>16. \A x : ToCome(x)' => ToCome(x) /\ l <= x
  BY <1>1, <1>2, <1>6, <1>7 DEF ToCome, IsLine
<1>17. Stages' /\ StagesStay
  <2> DEFINE Stay == \A i \in Steps : view.steps[i] \in {"done", "error"}
                                         => view'.steps[i] = view.steps[i]
  <2> SUFFICES ASSUME kind = "StepDeployProgress"
               PROVE  (AllDone \/ \E k \in Steps : AtStage(k))' /\ Stay
    BY <1>1 DEF Stages, StagesStay
  <2>1. view'.steps = Marked(view.steps, l)
    BY <1>9
  <2>2. CASE l = Burned
    <3>1. view'.steps = [i \in Steps |-> IF view.steps[i] = "active" THEN "error" ELSE view.steps[i]]
      BY <2>1, <2>2, <1>8 DEF Marked
    <3>2. ~AllDone
      BY <1>0, <1>7, <1>8, <2>2 DEF AllDone, OutcomeIsLogged, TypeOK, NotYet, Finals
    <3>3. PICK k \in Steps : AtStage(k)
      BY <1>0, <3>2 DEF Stages
    <3>4. ~ToCome(Served)' /\ \A x \in Steps : ~ToCome(x)'
      <4>1. ~(l <= Served) /\ \A x \in Steps : ~(l <= x)
        BY <2>2, StepsAreLines DEF Served, Burned
      <4> QED
        BY <1>16, <4>1
    <3>5. view'.steps[k] = "error" /\ view'.burned
      BY <1>9, <2>2, <3>1, <3>3 DEF AtStage
    <3>6. \A i \in Steps : view.steps[i] # "active" => view'.steps[i] = view.steps[i]
      BY <3>1
    <3>7. AtStage(k)'
      BY <1>2, <3>3, <3>4, <3>5, <3>6 DEF AtStage, Logged
    <3> QED
      BY <3>6, <3>7
  <2>3. CASE l = Served
    <3>1. view'.steps = [i \in Steps |-> "done"]
      BY <2>1, <2>3, <1>8 DEF Marked
    <3>2. Logged(Served) /\ ~view.burned
      BY <1>0, <1>7, <1>8, <2>3 DEF Stages, AllDone, AtStage
    <3>4. \A x \in Steps : ~ToCome(x)'
      <4>1. \A x \in Steps : ~(l <= x)
        BY <2>3, StepsAreLines DEF Served
      <4> QED
        BY <1>16, <4>1
    <3>5. AllDone'
      BY <1>2, <1>8, <1>9, <2>3, <3>1, <3>2, <3>4 DEF AllDone, Logged
    <3>6. \A i \in Steps : view.steps[i] # "error"
      <4>1. CASE AllDone
        BY <4>1 DEF AllDone
      <4>2. ASSUME NEW k \in Steps, AtStage(k)
            PROVE  \A i \in Steps : view.steps[i] # "error"
        <5>1. view.steps[k] = "active"
          BY <3>2, <4>2 DEF AtStage
        <5>2. \A i \in Steps : i < k \/ i = k \/ i > k
          BY StepsAreLines
        <5> QED
          BY <4>2, <5>1, <5>2 DEF AtStage
      <4> QED
        BY <1>0, <4>1, <4>2 DEF Stages
    <3>7. Stay
      BY <3>1, <3>6
    <3> QED
      BY <3>5, <3>7
  <2>4. CASE l \in Steps
    <3>1. view'.steps = [i \in Steps |-> IF i < l THEN "done"
                                         ELSE IF i = l THEN "active" ELSE view.steps[i]]
      BY <2>1, <2>4, <1>8 DEF Marked
    <3>2. ~AllDone
      BY <1>7, <2>4 DEF AllDone
    <3>3. PICK k \in Steps : AtStage(k)
      BY <1>0, <3>2 DEF Stages
    <3>4. l >= k /\ ~view.burned
      BY <1>7, <2>4, <3>3 DEF AtStage
    <3>5. Logged(l)
      BY <1>7, <1>8, <2>4
    <3>6. ~view'.burned
      BY <1>8, <1>9, <2>4, <3>4
    <3>7. /\ \A i \in Steps : i < l => view'.steps[i] = "done"
          /\ \A i \in Steps : i > l => view'.steps[i] = "pending"
          /\ view'.steps[l] = "active"
      BY <2>4, <3>1, <3>3, <3>4, StepsAreLines DEF AtStage
    <3>8. \A x \in Steps : ToCome(x)' => x >= l
      BY <1>16, <2>4, StepsAreLines
    <3>9. AtStage(l)'
      BY <1>2, <3>5, <3>6, <3>7, <3>8 DEF AtStage, Logged
    <3>10. ASSUME NEW i \in Steps, view.steps[i] \in {"done", "error"}
           PROVE  view'.steps[i] = view.steps[i]
      <4>1. i < k /\ view.steps[i] = "done"
        <5>1. view.steps[k] = "active" /\ \A j \in Steps : j > k => view.steps[j] = "pending"
          BY <3>3, <3>4 DEF AtStage
        <5>2. i < k \/ i = k \/ i > k
          BY StepsAreLines
        <5>3. i < k
          BY <3>10, <5>1, <5>2
        <5> QED
          BY <3>3, <5>3 DEF AtStage
      <4>2. i < l
        BY <2>4, <3>4, <4>1, StepsAreLines
      <4> QED
        BY <3>7, <4>1, <4>2
    <3> QED
      BY <2>4, <3>9, <3>10
  <2>5. CASE l \notin Steps /\ l # Served /\ l # Burned
    <3>4. view'.steps = view.steps
      BY <2>1, <2>5 DEF Marked
    <3>5. view.burned \in BOOLEAN
      BY <1>0 DEF TypeOK
    <3>1. view'.steps = view.steps /\ view'.burned = view.burned
      BY <1>9, <2>5, <3>4, <3>5
    <3>2. AllDone => AllDone'
      BY <1>2, <1>16, <3>1 DEF AllDone, Logged
    <3>3. ASSUME NEW k \in Steps, AtStage(k) PROVE AtStage(k)'
      BY <1>2, <1>16, <3>1, <3>3 DEF AtStage, Logged
    <3> QED
      BY <1>0, <3>1, <3>2, <3>3 DEF Stages
  <2> QED
    BY <2>2, <2>3, <2>4, <2>5
<1> QED
  BY <1>11, <1>12, <1>13, <1>14, <1>15, <1>17 DEF IInv

LEMMA AnswerKeepsIInv == ASSUME IInv, NEW a \in polls, PollAnswered(a) PROVE IInv'
<1>0. TypeOK /\ MarksAreLogged /\ Told
  BY DEF IInv
<1>1. UNCHANGED <<row, kind, timer, broken>> /\ polls' \subseteq polls /\ polls' \in SUBSET Answers
  BY <1>0 DEF PollAnswered, TypeOK
<1>2. /\ a.log \in Seq(Lines) /\ a.status \in Finals \cup {NotYet} /\ a.access \in BOOLEAN
      /\ Ended(a) => a.status = status /\ a.status \in Finals
  BY <1>0 DEF TypeOK, Answers, Ended, Told, NotYet
<1>3. CASE ProgressAnswered(a)
  <2> DEFINE marks == FoldLeft(Marked, view.steps, a.log)
             lit == IF a.log = <<>> THEN view.burned ELSE Contains(a.log, Burned)
  <2>1. /\ kind = "DeployProgress"
        /\ view' = [view EXCEPT !.burned = lit, !.steps = marks, !.url = @ \/ a.access,
                                !.final = IF Ended(a) THEN a.status ELSE @]
        /\ \/ es' = "open" /\ stream' = Fresh /\ channel' = <<>>
           \/ UNCHANGED wire
    BY <1>0, <1>3 DEF ProgressAnswered, TypeOK
  <2>2. DOMAIN a.log = 1..Len(a.log)
    BY <1>2, LenProperties
  <2>3. lit \in BOOLEAN /\ (lit => view.burned \/ \E i \in DOMAIN a.log : a.log[i] = Burned)
    BY <1>0, <2>2 DEF Contains, TypeOK
  <2>4. /\ marks \in [Steps -> StepMarks]
        /\ (\E i \in Steps : marks[i] = "error")
               => (\E i \in DOMAIN a.log : a.log[i] = Burned) \/ \E i \in Steps : view.steps[i] = "error"
        /\ marks[LastStep] = "done"
               => (\E i \in DOMAIN a.log : a.log[i] = Served) \/ view.steps[LastStep] = "done"
    BY <1>0, <1>2, FoldProperties DEF TypeOK, StepMarks
  <2> HIDE DEF marks, lit
  <2>5. /\ view'.steps = marks /\ view'.burned = lit
        /\ view'.final = view.final \/ view'.final = status
    BY <1>0, <1>2, <2>1 DEF TypeOK
  <2>6. MarksAreLogged'
    <3>1. \A x : (\E i \in DOMAIN a.log : a.log[i] = x) => Logged(x)
      BY <1>0 DEF Told
    <3> QED
      BY <1>0, <1>1, <2>3, <2>4, <2>5, <3>1 DEF MarksAreLogged, Logged, row
  <2>7. view' \in [steps : [Steps -> {"pending", "active", "done", "error"}],
                   burned : BOOLEAN, final : Finals \cup {""}, url : BOOLEAN, polling : BOOLEAN]
    BY <1>0, <1>2, <2>1, <2>3, <2>4 DEF TypeOK, StepMarks
  <2>8. /\ es' \in {"open", "closed"} /\ channel' \in Seq(Events1 \cup EventsN)
        /\ stream' \in [up : BOOLEAN, greeted : BOOLEAN, sent : Nat]
    <3>1. CASE UNCHANGED wire
      BY <1>0, <3>1 DEF TypeOK, wire
    <3>2. CASE es' = "open" /\ stream' = Fresh /\ channel' = <<>>
      <4>1. <<>> \in Seq(Events1 \cup EventsN)
        BY EmptySeq
      <4> QED
        BY <3>2, <4>1 DEF Fresh
    <3> QED
      BY <2>1, <3>1, <3>2
  <2>9. TypeOK'
    BY <1>0, <1>1, <2>7, <2>8 DEF TypeOK, row
  <2>10. \/ stream' = stream /\ channel' = channel
         \/ kind # "StepDeployProgress" /\ stream'.sent = 0 /\ channel' = <<>>
    BY <2>1 DEF Fresh, wire
  <2> QED
    BY <1>1, <2>1, <2>5, <2>6, <2>9, <2>10, PageKeepsIInv
<1>4. CASE OrderAnswered(a)
  <2>1. /\ UNCHANGED <<stream, channel, es>>
        /\ view' = IF Ended(a) THEN [view EXCEPT !.final = a.status, !.url = @ \/ a.access] ELSE view
    BY <1>4 DEF OrderAnswered, wire
  <2>2. /\ view'.steps = view.steps /\ view'.burned = view.burned
        /\ view'.final = view.final \/ view'.final = status
    BY <1>0, <1>2, <2>1 DEF TypeOK
  <2>3. TypeOK'
    BY <1>0, <1>1, <1>2, <2>1 DEF TypeOK, row
  <2> QED
    BY <1>0, <1>1, <2>1, <2>2, <2>3, QuietMarks, PageKeepsIInv
<1> QED
  BY <1>3, <1>4 DEF PollAnswered

LEMMA NextKeepsIInv == IInv /\ [Next]_vars => IInv'
<1> SUFFICES ASSUME IInv, [Next]_vars PROVE IInv'
  OBVIOUS
<1>1. CASE UNCHANGED vars
  <2>1. UNCHANGED <<log, outcome, access, status, deleted, stream, channel, es, kind, view,
                    timer, polls, broken>>
    BY <1>1 DEF vars, row, wire, page
  <2> QED
    BY <2>1, QuietKeepsIInv DEF IInv, TypeOK
<1>2. CASE Next
  BY <1>2, JobKeepsIInv, ServerKeepsIInv, QuietPageKeepsIInv, LineKeepsIInv, AnswerKeepsIInv
     DEF Next, Server, Events
<1> QED
  BY <1>1, <1>2


LEMMA NextKeepsStages == ASSUME IInv, [Next]_vars PROVE StagesStay
<1>0. TypeOK
  BY DEF IInv
<1>1. CASE ReceiveLine
  BY <1>1, LineKeepsIInv
<1>2. CASE UNCHANGED page
  BY <1>2 DEF StagesStay, page
<1>3. CASE ReceiveDone
  BY <1>0, <1>3 DEF ReceiveDone, StagesStay, TypeOK
<1>4. CASE StartPolling
  BY <1>4 DEF StartPolling, StagesStay
<1>5. CASE Poll \/ AskOnce
  BY <1>5 DEF Poll, AskOnce, StagesStay
<1>6. ASSUME NEW a \in polls, PollAnswered(a) PROVE StagesStay
  BY <1>0, <1>6 DEF PollAnswered, ProgressAnswered, OrderAnswered, StagesStay, TypeOK
<1> QED
  BY <1>1, <1>2, <1>3, <1>4, <1>5, <1>6
     DEF Next, vars, Job, LogStep, FindAddress, LogAddress, LogServed, LogBurned, Finish,
         DeleteRow, Server, Greet, Tick, RowNotFound, Break, Events, ReceiveEnd

-----------------------------------------------------------------------------
(* What the views show of the stages *)

LEMMA StagesFollow == IInv => StagesAreTrue
<1> SUFFICES ASSUME IInv PROVE StagesAreTrue
  OBVIOUS
<1>0. TypeOK /\ OutcomeIsLogged /\ Told /\ MarksAreLogged /\ Stages
  BY DEF IInv
<1>1. FailureIsMarked
  <2> SUFFICES ASSUME kind = "StepDeployProgress", view.burned
               PROVE  \E i \in Steps : /\ view.steps[i] = "error"
                                       /\ \A j \in Steps : j < i => view.steps[j] = "done"
                                       /\ \A j \in Steps : j > i => view.steps[j] = "pending"
    BY DEF FailureIsMarked
  <2>1. PICK k \in Steps : AtStage(k)
    BY <1>0 DEF Stages, AllDone
  <2> QED
    BY <2>1 DEF AtStage
<1>2. ASSUME view.final \in {"succeeded", "partial"}
      PROVE  ~view.burned /\ \A i \in Steps : view.steps[i] # "error"
  <2>1. outcome = view.final
    BY <1>0, <1>2 DEF Told, OutcomeIsLogged, NotYet
  <2> QED
    BY <1>0, <1>2, <2>1 DEF OutcomeIsLogged, MarksAreLogged
<1>3. ASSUME view.final = "failed"
      PROVE  \E i \in Steps : view.steps[i] # "done"
  <2>1. outcome = view.final
    BY <1>0, <1>3 DEF Told, OutcomeIsLogged, NotYet
  <2>2. ~Logged(Served)
    BY <1>0, <1>3, <2>1 DEF OutcomeIsLogged
  <2> QED
    BY <1>0, <2>2, StepsAreLines DEF MarksAreLogged
<1>4. CardAgrees
  <2>1. ProgressCard \in {"success", "partial"} => view.final \in {"succeeded", "partial"}
    BY DEF ProgressCard
  <2>2. ProgressCard = "error" => view.final = "failed"
    BY DEF ProgressCard
  <2>3. OrderHeadline = "served" => view.final = "succeeded"
    BY DEF OrderHeadline
  <2>4. view.final = "succeeded" => OrderCard = "success"
    BY DEF OrderCard
  <2>5. OrderCard = "advice" => view.burned
    BY DEF OrderCard
  <2> QED
    BY <1>1, <1>2, <1>3, <2>1, <2>2, <2>3, <2>4, <2>5 DEF CardAgrees, FailureIsMarked
<1> QED
  BY <1>0, <1>1, <1>4 DEF StagesAreTrue

(* What a view shows of the stages is how they went, and agrees with its card,
   which comes from another source (parseStep and onData beside finalStatus):
   whatever the stream leaves out, however late and out of order the answers to
   the polls of DeployProgress come. *)
THEOREM StagesTrue == Spec => []StagesAreTrue
<1>1. Init => IInv
  BY InitIInv
<1>2. IInv /\ [Next]_vars => IInv'
  BY NextKeepsIInv
<1>3. IInv => StagesAreTrue
  BY StagesFollow
<1> QED
  BY <1>1, <1>2, <1>3, PTL DEF Spec

(* A stage of StepDeployProgress that is done stays done, and one that has
   failed stays failed (stages, through onData). *)
THEOREM StagesAdvance == Spec => StagesOnlyAdvance
<1>1. Init => IInv
  BY InitIInv
<1>2. IInv /\ [Next]_vars => IInv'
  BY NextKeepsIInv
<1>3. IInv /\ [Next]_vars =>
        [kind = "StepDeployProgress" =>
         \A i \in Steps : view.steps[i] \in {"done", "error"} => view'.steps[i] = view.steps[i]]_vars
  BY NextKeepsStages DEF StagesStay
<1> QED
  BY <1>1, <1>2, <1>3, PTL DEF Spec, StagesOnlyAdvance

-----------------------------------------------------------------------------
(* The views implement the abstract watch *)

(* What is shown as final is set once: no event and no answer clears it. *)
LEMMA FinalIsKept ==
    ASSUME IInv, [Next]_vars
    PROVE  view'.final = view.final \/ view'.final # NotYet
<1>0. TypeOK
  BY DEF IInv
<1>1. CASE ReceiveLine
  BY <1>0, <1>1 DEF ReceiveLine, WithLine, TypeOK
<1>2. CASE ReceiveDone
  <2>1. Head(channel) = channel[1] /\ 1 \in DOMAIN channel
    BY <1>0, <1>2, Types DEF ReceiveDone
  <2>2. Head(channel).status \in Finals
    BY <1>0, <1>2, <2>1, Types DEF ReceiveDone
  <2>3. view'.final = Head(channel).status
    BY <1>0, <1>2 DEF ReceiveDone, TypeOK
  <2> QED
    BY <2>2, <2>3 DEF Finals, NotYet
<1>3. ASSUME NEW a \in polls, PollAnswered(a)
      PROVE  view'.final = view.final \/ view'.final # NotYet
  BY <1>0, <1>3 DEF PollAnswered, ProgressAnswered, OrderAnswered, Ended, TypeOK, NotYet
<1>4. CASE StartPolling
  BY <1>0, <1>4 DEF StartPolling, TypeOK
<1>5. CASE UNCHANGED page \/ Poll \/ AskOnce
  BY <1>5 DEF page, Poll, AskOnce
<1> QED
  BY <1>1, <1>2, <1>3, <1>4, <1>5
     DEF Next, vars, Job, LogStep, FindAddress, LogAddress, LogServed, LogBurned, Finish,
         DeleteRow, Server, Greet, Tick, RowNotFound, Break, Events, ReceiveEnd

(* A step of the deployment and its view is a step of the abstract watch, or
   leaves what it speaks of alone (the three views and their stream). *)
LEMMA StepImplements == IInv /\ IInv' /\ [Next]_vars => [Watch!Next]_(Watch!vars)
<1> SUFFICES ASSUME IInv, IInv', [Next]_vars PROVE [Watch!Next]_(Watch!vars)
  OBVIOUS
<1>0. TypeOK /\ Told'
  BY DEF IInv
<1>1. CASE Finish
  BY <1>0, <1>1 DEF Finish, page, Watch!Next, Watch!End, TypeOK
<1>2. CASE DeleteRow
  BY <1>2 DEF DeleteRow, page, Watch!Next, Watch!Delete
<1>3. ASSUME UNCHANGED <<status, deleted>>
      PROVE  [Watch!Next]_(Watch!vars)
  <2>1. \/ view'.final = view.final
        \/ view'.final # NotYet /\ view'.final = status
    BY <1>0, <1>3, FinalIsKept DEF Told
  <2>2. view.final = NotYet \/ view.final = status
    BY DEF IInv, Told
  <2>3. \/ view'.final = view.final
        \/ view.final = "" /\ view'.final = status /\ status \in Finals
    BY <1>0, <2>1, <2>2 DEF NotYet, TypeOK
  <2> QED
    BY <1>3, <2>3 DEF Watch!Next, Watch!Tell, Watch!vars
<1>4. \/ Finish \/ DeleteRow \/ UNCHANGED <<status, deleted>>
  BY DEF Next, vars, Job, LogStep, FindAddress, LogAddress, LogServed, LogBurned, Server,
         Greet, Tick, RowNotFound, Break, Events, ReceiveLine, ReceiveDone, ReceiveEnd,
         StartPolling, Poll, AskOnce, PollAnswered, row
<1> QED
  BY <1>1, <1>2, <1>3, <1>4

LEMMA InitImplements == Init => Watch!Init
<1> SUFFICES ASSUME Init PROVE Watch!Init
  OBVIOUS
<1>1. view.final = ""
  BY DEF Init
<1> QED
  BY <1>1 DEF Init, Watch!Init

(* Every behaviour of the deployment, its stream and one of its views is one of
   the abstract watch: the status a view ends with (finalStatus of
   DeployProgress and StepDeployProgress, onDone of DeployLog) is the stored
   one, is not shown before it is stored, and stays. *)
THEOREM Implementation == Spec => Truthful
<1>1. Init => IInv
  BY InitIInv
<1>2. IInv /\ [Next]_vars => IInv'
  BY NextKeepsIInv
<1> QED
  BY <1>1, <1>2, InitImplements, StepImplements, PTL DEF Spec, Truthful, Watch!Safety


-----------------------------------------------------------------------------
(* The terminal of a build: the inductive invariant *)

MessageTypes == [type : {"log", "step", "error", "complete"}, step : Nat,
                 status : Terminal!Ended \cup {NotYet}]

(* What is under way, and what a request is answered, tells how the build ended,
   unless it is an error of the server. *)
MessagesAreTrue ==
    /\ \A i \in DOMAIN lines :
          /\ lines[i].type = "complete" => /\ lines[i].status = build.status
                                           /\ build.status \in Terminal!Ended
          /\ lines[i].type = "error" => faults > 0
    /\ fetch.build.status \in Terminal!Ended => fetch.build.status = build.status

(* What has been drawn and called back is true, and nothing is drawn to a
   success that is none. *)
StateIsTrue ==
    /\ \A s \in told : build.status = s
    /\ term.status = "success" => build.status = "success"
    /\ term.errors => build.status = "failed" \/ faults > 0
    /\ build.status # "success" => \E j \in Terminal!Index : term.steps[j] # "success"

Disconnected ==
    /\ socket \in {"none", "closed"} => server = "closed" /\ lines = <<>>
    /\ term.timer => socket = "closed"

EndIsDrawn ==
    /\ lines = <<>> /\ term.completed
    /\ build.status \in Terminal!Ended /\ term.status = build.status
    /\ \A i \in Terminal!Index : term.steps[i] # "active"
    /\ term.status = "success" => \A i \in Terminal!Index : term.steps[i] = "success"

(* A connection that the server has closed, and nothing has failed, still holds
   the end of the build, or it is drawn. *)
NothingIsLost ==
    faults = 0 /\ server = "closed" /\ socket # "none" =>
        \/ lines # <<>> /\ lines[Len(lines)].type = "complete"
        \/ EndIsDrawn

TInv == /\ Terminal!TypeOK /\ MessagesAreTrue /\ StateIsTrue /\ Disconnected
        /\ NothingIsLost

-----------------------------------------------------------------------------

LEMMA LastLabel == Labels - 1 \in Terminal!Index /\ 0 \in Terminal!Index
  BY TerminalAssumption DEF Terminal!Index

(* The types of the terminal, without the empty status. *)
LEMMA TerminalTypes ==
    Terminal!TypeOK <=>
    /\ build \in Terminal!Builds
    /\ server \in {"none", "polling", "closed"}
    /\ socket \in {"none", "connecting", "open", "closed"}
    /\ lines \in Seq(MessageTypes)
    /\ term \in [status : Terminal!Ended \cup {"connecting", "running"},
                 steps : [Terminal!Index -> Terminal!Marks],
                 errors : BOOLEAN, completed : BOOLEAN, attempts : 0..MaxAttempts,
                 reconnecting : BOOLEAN, timer : BOOLEAN]
    /\ fetch \in [state : {"asked", "answered", "over"}, build : Terminal!Builds]
    /\ told \subseteq Terminal!Ended /\ faults \in 0..MaxFaults /\ renders \in 0..MaxRenders
  BY DEF Terminal!TypeOK, MessageTypes, NotYet

(* A build has no status but these. *)
LEMMA BuildTypes ==
    /\ \A b \in Terminal!Builds :
          /\ b.status \in {"running", "success", "failed"}
          /\ \E n \in 0..3 : b.logs \in [1..n -> {"log", "step"}]
    /\ Terminal!Running \in Terminal!Builds /\ Terminal!Running.status = "running"
    /\ \A s \in Terminal!Ended : \A l \in Terminal!LogsOf(s) :
          /\ [status |-> s, logs |-> l] \in Terminal!Builds
          /\ s \in {"success", "failed"}
<1>1. ASSUME NEW s \in Terminal!Ended, NEW l \in Terminal!LogsOf(s)
      PROVE  \E n \in 0..3 : l \in [1..n -> {"log", "step"}]
  <2>1. l \in {<<"step", "log", "step">>, <<"log">>, <<"step", "log">>}
    BY DEF Terminal!LogsOf
  <2>2. CASE l = <<"step", "log", "step">>
    <3>1. l \in [1..3 -> {"log", "step"}]
      BY <2>2
    <3> QED
      BY <3>1
  <2>3. CASE l = <<"log">>
    <3>1. l \in [1..1 -> {"log", "step"}]
      BY <2>3
    <3> QED
      BY <3>1
  <2>4. CASE l = <<"step", "log">>
    <3>1. l \in [1..2 -> {"log", "step"}]
      BY <2>4
    <3> QED
      BY <3>1
  <2> QED
    BY <2>1, <2>2, <2>3, <2>4
<1>2. ASSUME NEW b \in Terminal!Builds
      PROVE  \/ b = Terminal!Running
             \/ \E s \in Terminal!Ended : \E l \in Terminal!LogsOf(s) : b = [status |-> s, logs |-> l]
  BY DEF Terminal!Builds
<1>3. \E n \in 0..3 : <<>> \in [1..n -> {"log", "step"}]
  <2>1. <<>> \in [1..0 -> {"log", "step"}]
    OBVIOUS
  <2> QED
    BY <2>1
<1>4. \A b \in Terminal!Builds : /\ b.status \in {"running", "success", "failed"}
                                 /\ \E n \in 0..3 : b.logs \in [1..n -> {"log", "step"}]
  <2> SUFFICES ASSUME NEW b \in Terminal!Builds
               PROVE  /\ b.status \in {"running", "success", "failed"}
                      /\ \E n \in 0..3 : b.logs \in [1..n -> {"log", "step"}]
    OBVIOUS
  <2>1. CASE b = Terminal!Running
    <3>1. b.status = "running" /\ b.logs = <<>>
      BY <2>1 DEF Terminal!Running
    <3> QED
      BY <1>3, <3>1
  <2>2. ASSUME NEW s \in Terminal!Ended, NEW l \in Terminal!LogsOf(s),
               b = [status |-> s, logs |-> l]
        PROVE  /\ b.status \in {"running", "success", "failed"}
               /\ \E n \in 0..3 : b.logs \in [1..n -> {"log", "step"}]
    <3>1. b.status = s /\ b.logs = l
      BY <2>2
    <3>2. s \in {"success", "failed"}
      BY DEF Terminal!Ended
    <3> QED
      BY <1>1, <3>1, <3>2
  <2> QED
    BY <1>2, <2>1, <2>2
<1>5. Terminal!Running \in Terminal!Builds /\ Terminal!Running.status = "running"
  BY DEF Terminal!Builds, Terminal!Running
<1>6. \A s \in Terminal!Ended : \A l \in Terminal!LogsOf(s) :
          /\ [status |-> s, logs |-> l] \in Terminal!Builds
          /\ s \in {"success", "failed"}
  BY DEF Terminal!Builds, Terminal!Ended
<1> QED
  BY <1>4, <1>5, <1>6

(* The terminal counts as everybody does. *)
LEMMA SameCardinality == \A S : Terminal!Cardinality(S) = Cardinality(S)
  BY DEF Terminal!Cardinality, Cardinality

(* What the server sends at the end of a build: its lines, and its end. *)
LEMMA EndMessagesTypes ==
    ASSUME build \in Terminal!Builds, build.status \in Terminal!Ended
    PROVE  LET sent == Terminal!EndMessages IN
           /\ sent \in Seq(MessageTypes) /\ Len(sent) \in Nat \ {0}
           /\ sent[Len(sent)].type = "complete"
           /\ \A i \in DOMAIN sent : /\ sent[i].type # "error"
                                     /\ sent[i].type = "complete" => sent[i].status = build.status
<1> DEFINE told1 == Terminal!Numbered(build.logs)
           end   == Terminal!Message("complete", 0, build.status)
<1>1. PICK n \in 0..3 : build.logs \in [1..n -> {"log", "step"}]
  BY BuildTypes
<1>2. \A i \in 1..n : Terminal!Cardinality({j \in 1..(i - 1) : build.logs[j] = "step"}) \in Nat
  <2> SUFFICES ASSUME NEW i \in 1..n
               PROVE  Terminal!Cardinality({j \in 1..(i - 1) : build.logs[j] = "step"}) \in Nat
    OBVIOUS
  <2>1. IsFiniteSet(1..(i - 1))
    BY FS_Interval
  <2>2. IsFiniteSet({j \in 1..(i - 1) : build.logs[j] = "step"})
    BY <2>1, FS_Subset
  <2>3. Cardinality({j \in 1..(i - 1) : build.logs[j] = "step"}) \in Nat
    BY <2>2, FS_CardinalityType
  <2> QED
    BY <2>3, SameCardinality
<1>3. \A i \in 1..n : /\ told1[i] \in MessageTypes
                      /\ told1[i].type \in {"log", "step"}
  <2> SUFFICES ASSUME NEW i \in 1..n
               PROVE  told1[i] \in MessageTypes /\ told1[i].type \in {"log", "step"}
    OBVIOUS
  <2>1. PICK c : c = Terminal!Cardinality({j \in 1..(i - 1) : build.logs[j] = "step"})
    OBVIOUS
  <2>2. c \in Nat
    BY <1>2, <2>1
  <2>3. told1[i] = [type |-> build.logs[i], step |-> c, status |-> NotYet]
    <3>1. i \in DOMAIN build.logs
      BY <1>1
    <3> QED
      BY <3>1, <2>1, Zenon DEF Terminal!Numbered, Terminal!Message, NotYet
  <2>4. build.logs[i] \in {"log", "step"}
    BY <1>1
  <2> QED
    BY <2>2, <2>3, <2>4 DEF MessageTypes
<1>4. told1 = [i \in 1..n |-> told1[i]]
  BY <1>1 DEF Terminal!Numbered
<1>5. end \in MessageTypes /\ end.type = "complete" /\ end.status = build.status
  BY DEF Terminal!Message, MessageTypes
<1> HIDE DEF told1, end
<1>6. told1 \in Seq(MessageTypes) /\ Len(told1) = n
  BY <1>3, <1>4
<1>7. Terminal!EndMessages = Append(told1, end)
  BY DEF Terminal!EndMessages, told1, end
<1> DEFINE sent == Append(told1, end)
<1>8. /\ sent \in Seq(MessageTypes) /\ Len(sent) = n + 1
      /\ \A i \in 1..n : sent[i] = told1[i]
      /\ sent[n + 1] = end
  BY <1>5, <1>6, AppendProperties
<1>9. DOMAIN sent = 1..(n + 1)
  BY <1>8, LenProperties
<1> HIDE DEF sent
<1>10. \A i \in DOMAIN sent : /\ sent[i].type # "error"
                              /\ sent[i].type = "complete" => sent[i].status = build.status
  <2> SUFFICES ASSUME NEW i \in DOMAIN sent
               PROVE  /\ sent[i].type # "error"
                      /\ sent[i].type = "complete" => sent[i].status = build.status
    OBVIOUS
  <2>1. CASE i = n + 1
    BY <1>5, <1>8, <2>1
  <2>2. CASE i # n + 1
    <3>1. i \in 1..n
      BY <1>9, <2>2
    <3> QED
      BY <1>3, <1>8, <3>1
  <2> QED
    BY <2>1, <2>2
<1>11. Len(sent) \in Nat \ {0} /\ sent[Len(sent)].type = "complete"
  BY <1>5, <1>8
<1> QED
  BY <1>7, <1>8, <1>10, <1>11 DEF sent

LEMMA InitTInv == Terminal!Init => TInv
<1> SUFFICES ASSUME Terminal!Init PROVE TInv
  OBVIOUS
<1>1. Terminal!TypeOK
  <2>1. lines \in Seq(MessageTypes)
    BY EmptySeq DEF Terminal!Init
  <2> QED
    BY <2>1, TerminalAssumption, BuildTypes, TerminalTypes
       DEF Terminal!Init, Terminal!Marks
<1>2. DOMAIN lines = {}
  BY DEF Terminal!Init
<1>3. MessagesAreTrue
  BY <1>2, BuildTypes DEF MessagesAreTrue, Terminal!Init, Terminal!Ended
<1>4. StateIsTrue
  <2>1. term.steps[0] = "pending"
    BY LastLabel DEF Terminal!Init
  <2> QED
    BY <2>1, LastLabel DEF StateIsTrue, Terminal!Init
<1>5. Disconnected /\ NothingIsLost
  BY DEF Disconnected, NothingIsLost, Terminal!Init
<1> QED
  BY <1>1, <1>3, <1>4, <1>5 DEF TInv


LEMMA ServerKeepsTInv ==
    ASSUME TInv, Terminal!BuildEnds \/ Terminal!ServerSends \/ Terminal!ServerFails \/ Terminal!Break
    PROVE  TInv'
<1>0. /\ Terminal!TypeOK /\ MessagesAreTrue /\ StateIsTrue /\ Disconnected /\ NothingIsLost
  BY DEF TInv
<1>1. /\ build \in Terminal!Builds /\ lines \in Seq(MessageTypes)
      /\ faults \in Nat /\ MaxFaults \in Nat
      /\ DOMAIN lines = 1..Len(lines) /\ Len(lines) \in Nat
  BY <1>0, TerminalTypes, TerminalAssumption, LenProperties
<1>2. CASE Terminal!BuildEnds
  <2>1. build.status = "running" /\ UNCHANGED <<server, lines, socket, term, fetch, told, faults, renders>>
    BY <1>2 DEF Terminal!BuildEnds
  <2>2. \E s \in Terminal!Ended : \E m \in Terminal!LogsOf(s) : build' = [status |-> s, logs |-> m]
    BY <1>2 DEF Terminal!BuildEnds
  <2>3. build' \in Terminal!Builds
    BY <2>2, BuildTypes
  <2>4. Terminal!TypeOK'
    BY <1>0, <2>1, <2>3 DEF Terminal!TypeOK
  <2>5. "running" \notin Terminal!Ended
    BY DEF Terminal!Ended
  <2>6. \A i \in DOMAIN lines : lines[i].type # "complete"
    BY <1>0, <2>1, <2>5 DEF MessagesAreTrue
  <2>7. fetch.build.status \notin Terminal!Ended
    BY <1>0, <2>1, <2>5 DEF MessagesAreTrue
  <2>8. MessagesAreTrue'
    BY <1>0, <2>1, <2>6, <2>7 DEF MessagesAreTrue
  <2>9. told = {} /\ term.status # "success"
    BY <1>0, <2>1, <2>5, TerminalTypes DEF StateIsTrue
  <2>10. StateIsTrue'
    BY <1>0, <2>1, <2>9 DEF StateIsTrue
  <2>11. ~EndIsDrawn
    BY <2>1, <2>5 DEF EndIsDrawn
  <2>12. NothingIsLost'
    <3>1. lines # <<>> => Len(lines) \in DOMAIN lines
      BY <1>1, EmptySeq
    <3> QED
      BY <1>0, <2>1, <2>6, <2>11, <3>1 DEF NothingIsLost
  <2> QED
    BY <1>0, <2>1, <2>4, <2>8, <2>10, <2>12 DEF TInv, Disconnected
<1>3. CASE Terminal!ServerSends
  <2> DEFINE sent == Terminal!EndMessages
  <2>1. /\ server = "polling" /\ build.status \in Terminal!Ended
        /\ lines' = lines \o sent /\ server' = "closed"
        /\ UNCHANGED <<build, socket, term, fetch, told, faults, renders>>
    BY <1>3 DEF Terminal!ServerSends
  <2>2. /\ sent \in Seq(MessageTypes) /\ Len(sent) \in Nat \ {0}
        /\ sent[Len(sent)].type = "complete"
        /\ \A i \in DOMAIN sent : /\ sent[i].type # "error"
                                  /\ sent[i].type = "complete" => sent[i].status = build.status
    BY <1>1, <2>1, EndMessagesTypes
  <2> HIDE DEF sent
  <2>3. /\ lines' \in Seq(MessageTypes) /\ Len(lines') = Len(lines) + Len(sent)
        /\ \A i \in 1..(Len(lines) + Len(sent)) :
              lines'[i] = IF i <= Len(lines) THEN lines[i] ELSE sent[i - Len(lines)]
    BY <1>1, <2>1, <2>2, ConcatProperties
  <2>4. DOMAIN lines' = 1..(Len(lines) + Len(sent)) /\ DOMAIN sent = 1..Len(sent)
    BY <2>2, <2>3, LenProperties
  <2>5. \A i \in DOMAIN lines' : \/ i \in DOMAIN lines /\ lines'[i] = lines[i]
                                 \/ i - Len(lines) \in DOMAIN sent /\ lines'[i] = sent[i - Len(lines)]
    BY <1>1, <2>2, <2>3, <2>4
  <2>6. lines' # <<>> /\ lines'[Len(lines')].type = "complete"
    <3>1. Len(lines') > Len(lines) /\ Len(lines') \in 1..(Len(lines) + Len(sent))
      BY <1>1, <2>2, <2>3
    <3>2. lines'[Len(lines')] = sent[Len(sent)]
      BY <1>1, <2>2, <2>3, <3>1
    <3>3. lines' # <<>>
      BY <1>1, <3>1, EmptySeq
    <3> QED
      BY <2>2, <3>2, <3>3
  <2>7. Terminal!TypeOK'
    BY <1>0, <2>1, <2>3 DEF Terminal!TypeOK, MessageTypes, NotYet
  <2>8. MessagesAreTrue'
    BY <1>0, <2>1, <2>2, <2>5 DEF MessagesAreTrue
  <2>9. StateIsTrue'
    BY <1>0, <2>1 DEF StateIsTrue
  <2>10. Disconnected'
    BY <1>0, <2>1 DEF Disconnected
  <2>11. NothingIsLost'
    BY <2>6 DEF NothingIsLost
  <2> QED
    BY <2>7, <2>8, <2>9, <2>10, <2>11 DEF TInv
<1>4. CASE Terminal!ServerFails
  <2> DEFINE m == Terminal!Message("error", 0, "")
  <2>1. /\ server = "polling" /\ faults < MaxFaults /\ lines' = Append(lines, m)
        /\ server' = "closed" /\ faults' = faults + 1
        /\ UNCHANGED <<build, socket, term, fetch, told, renders>>
    BY <1>4 DEF Terminal!ServerFails
  <2>2. m \in MessageTypes /\ m.type = "error"
    <3>1. 0 \in Nat
      OBVIOUS
    <3> QED
      BY <3>1, Zenon DEF Terminal!Message, MessageTypes, NotYet
  <2> HIDE DEF m
  <2>3. /\ lines' \in Seq(MessageTypes) /\ Len(lines') = Len(lines) + 1
        /\ \A i \in 1..Len(lines) : lines'[i] = lines[i]
        /\ lines'[Len(lines) + 1] = m
    BY <1>1, <2>1, <2>2, AppendProperties
  <2>4. DOMAIN lines' = 1..(Len(lines) + 1)
    BY <2>3, LenProperties
  <2>5. \A i \in DOMAIN lines' : lines'[i] = m \/ (i \in DOMAIN lines /\ lines'[i] = lines[i])
    BY <1>1, <2>3, <2>4
  <2>6. faults' \in 0..MaxFaults /\ faults' > 0 /\ ~(faults' = 0)
    BY <1>1, <2>1
  <2>7. Terminal!TypeOK'
    BY <1>0, <2>1, <2>3, <2>6 DEF Terminal!TypeOK, MessageTypes, NotYet
  <2>8. MessagesAreTrue'
    <3>1. \A i \in DOMAIN lines' : lines'[i].type = "complete" => i \in DOMAIN lines /\ lines'[i] = lines[i]
      BY <2>2, <2>5
    <3> QED
      BY <1>0, <2>1, <2>6, <3>1 DEF MessagesAreTrue
  <2>9. StateIsTrue' /\ Disconnected' /\ NothingIsLost'
    BY <1>0, <2>1, <2>6 DEF StateIsTrue, Disconnected, NothingIsLost
  <2> QED
    BY <2>7, <2>8, <2>9 DEF TInv
<1>5. CASE Terminal!Break
  <2>1. /\ socket \in {"connecting", "open"} /\ faults < MaxFaults
        /\ server' = "closed" /\ lines' = <<>> /\ faults' = faults + 1
        /\ UNCHANGED <<build, socket, term, fetch, told, renders>>
    BY <1>5 DEF Terminal!Break
  <2>2. faults' \in 0..MaxFaults /\ faults' > 0 /\ ~(faults' = 0)
    BY <1>1, <2>1
  <2>3. lines' \in Seq(MessageTypes) /\ DOMAIN lines' = {}
    BY <2>1, EmptySeq
  <2>4. Terminal!TypeOK'
    BY <1>0, <2>1, <2>2, <2>3 DEF Terminal!TypeOK, MessageTypes, NotYet
  <2>5. MessagesAreTrue' /\ StateIsTrue' /\ Disconnected' /\ NothingIsLost'
    BY <1>0, <2>1, <2>2, <2>3 DEF MessagesAreTrue, StateIsTrue, Disconnected, NothingIsLost
  <2> QED
    BY <2>4, <2>5 DEF TInv
<1> QED
  BY <1>2, <1>3, <1>4, <1>5

(* A message of the connection is handled. *)
LEMMA ReceiveKeepsTInv == ASSUME TInv, Terminal!Receive PROVE TInv'
<1>0. /\ Terminal!TypeOK /\ MessagesAreTrue /\ StateIsTrue /\ Disconnected /\ NothingIsLost
  BY DEF TInv
<1>1. PICK m : m = Head(lines)
  OBVIOUS
<1>2. /\ socket = "open" /\ lines # <<>>
      /\ term' = Terminal!Handled(term, m)
      /\ told' = IF m.type = "complete" THEN told \cup {m.status} ELSE told
      /\ lines' = Tail(lines)
      /\ UNCHANGED <<build, server, socket, fetch, faults, renders>>
  BY <1>1 DEF Terminal!Receive
<1>3. /\ lines \in Seq(MessageTypes) /\ DOMAIN lines = 1..Len(lines) /\ Len(lines) \in Nat \ {0}
      /\ lines' \in Seq(MessageTypes) /\ Len(lines') = Len(lines) - 1
      /\ \A i \in 1..Len(lines') : lines'[i] = lines[i + 1]
      /\ m \in MessageTypes
  <2>1. lines \in Seq(MessageTypes)
    BY <1>0, TerminalTypes
  <2> QED
    BY <1>1, <1>2, <2>1, LenProperties, EmptySeq, HeadTailProperties
<1>4. /\ m = lines[1] /\ 1 \in DOMAIN lines
      /\ DOMAIN lines' = 1..(Len(lines) - 1)
      /\ \A i \in DOMAIN lines' : i + 1 \in DOMAIN lines /\ lines'[i] = lines[i + 1]
  <2>1. DOMAIN lines' = 1..(Len(lines) - 1)
    BY <1>3, LenProperties
  <2> QED
    BY <1>1, <1>2, <1>3, <2>1
<1>5. MessagesAreTrue'
  BY <1>0, <1>2, <1>4 DEF MessagesAreTrue
<1>6. /\ m.type = "complete" => m.status = build.status /\ build.status \in Terminal!Ended
      /\ m.type = "error" => faults > 0
      /\ m.type \in {"log", "step", "error", "complete"}
  BY <1>0, <1>3, <1>4 DEF MessagesAreTrue, MessageTypes
<1>7. /\ term.steps \in [Terminal!Index -> Terminal!Marks]
      /\ term \in [status : Terminal!Ended \cup {"connecting", "running"},
                   steps : [Terminal!Index -> Terminal!Marks],
                   errors : BOOLEAN, completed : BOOLEAN, attempts : 0..MaxAttempts,
                   reconnecting : BOOLEAN, timer : BOOLEAN]
  BY <1>0, TerminalTypes
<1>8. ASSUME NEW s \in {"active", "failed"}, NEW u, u = Terminal!UpdateStep(term.steps, m.step, s)
      PROVE  /\ u \in [Terminal!Index -> Terminal!Marks]
             /\ (\E j \in Terminal!Index : term.steps[j] # "success")
                   => \E j \in Terminal!Index : u[j] # "success"
  <2>1. CASE m.step \notin Terminal!Index
    <3>1. u = term.steps
      BY <1>8, <2>1 DEF Terminal!UpdateStep
    <3> QED
      BY <1>7, <3>1
  <2>2. CASE m.step \in Terminal!Index
    <3>1. u = [j \in Terminal!Index |-> IF j < m.step THEN "success"
                                        ELSE IF j = m.step THEN s ELSE term.steps[j]]
      BY <1>8, <2>2 DEF Terminal!UpdateStep
    <3>2. ~(m.step < m.step)
      BY <2>2 DEF Terminal!Index
    <3>3. u[m.step] = s
      BY <2>2, <3>1, <3>2
    <3>4. u \in [Terminal!Index -> Terminal!Marks]
      BY <1>7, <3>1 DEF Terminal!Marks
    <3> QED
      BY <1>8, <2>2, <3>3, <3>4
  <2> QED
    BY <2>1, <2>2
<1>9. CASE m.type = "complete"
  <2> DEFINE c == Terminal!Completed(term.steps, m.status)
  <2>1. term' = [term EXCEPT !.steps = c, !.status = m.status, !.completed = TRUE]
    BY <1>2, <1>9 DEF Terminal!Handled
  <2>2. c = [j \in Terminal!Index |-> IF m.status = "success" THEN "success"
                                      ELSE IF term.steps[j] = "active" THEN "failed" ELSE term.steps[j]]
    BY DEF Terminal!Completed
  <2>3. c \in [Terminal!Index -> Terminal!Marks]
    BY <1>7, <2>2 DEF Terminal!Marks
  <2>4. /\ \A j \in Terminal!Index : c[j] # "active"
        /\ m.status = "success" => \A j \in Terminal!Index : c[j] = "success"
        /\ m.status # "success" => \A j \in Terminal!Index : term.steps[j] # "success" => c[j] # "success"
    BY <2>2
  <2> HIDE DEF c
  <2>5. /\ term' \in [status : Terminal!Ended \cup {"connecting", "running"},
                      steps : [Terminal!Index -> Terminal!Marks],
                      errors : BOOLEAN, completed : BOOLEAN, attempts : 0..MaxAttempts,
                      reconnecting : BOOLEAN, timer : BOOLEAN]
        /\ term'.steps = c /\ term'.status = m.status /\ term'.completed = TRUE
        /\ term'.errors = term.errors /\ term'.timer = term.timer
    BY <1>6, <1>7, <1>9, <2>1, <2>3
  <2>6. told' \subseteq Terminal!Ended
    BY <1>0, <1>2, <1>6, <1>9 DEF Terminal!TypeOK
  <2>7. Terminal!TypeOK'
    BY <1>0, <1>2, <1>3, <2>5, <2>6 DEF Terminal!TypeOK, MessageTypes, NotYet
  <2>8. StateIsTrue'
    BY <1>0, <1>2, <1>6, <1>9, <2>4, <2>5 DEF StateIsTrue
  <2>9. Disconnected'
    BY <1>0, <1>2, <2>5 DEF Disconnected
  <2>10. NothingIsLost'
    <3>1. CASE lines' = <<>>
      <4>1. EndIsDrawn'
        BY <1>2, <1>6, <1>9, <2>4, <2>5, <3>1 DEF EndIsDrawn
      <4> QED
        BY <4>1 DEF NothingIsLost
    <3>2. CASE lines' # <<>>
      <4>1. Len(lines') \in Nat \ {0}
        BY <1>3, <3>2, EmptySeq
      <4>2. lines'[Len(lines')] = lines[Len(lines)]
        BY <1>3, <4>1
      <4>3. ~EndIsDrawn
        BY <1>2 DEF EndIsDrawn
      <4> QED
        BY <1>0, <1>2, <3>2, <4>2, <4>3 DEF NothingIsLost
    <3> QED
      BY <3>1, <3>2
  <2> QED
    BY <1>5, <2>7, <2>8, <2>9, <2>10 DEF TInv
<1>10. CASE m.type # "complete"
  <2>1. /\ term' \in [status : Terminal!Ended \cup {"connecting", "running"},
                      steps : [Terminal!Index -> Terminal!Marks],
                      errors : BOOLEAN, completed : BOOLEAN, attempts : 0..MaxAttempts,
                      reconnecting : BOOLEAN, timer : BOOLEAN]
        /\ term'.status = term.status /\ term'.completed = term.completed
        /\ term'.timer = term.timer /\ (term'.errors => term.errors \/ faults > 0)
        /\ (\E j \in Terminal!Index : term.steps[j] # "success")
              => \E j \in Terminal!Index : term'.steps[j] # "success"
    <3>1. CASE m.type = "log"
      <4>1. term' = term
        BY <1>2, <3>1 DEF Terminal!Handled
      <4> QED
        BY <1>7, <4>1
    <3>2. CASE m.type = "step"
      <4> DEFINE u == Terminal!UpdateStep(term.steps, m.step, "active")
      <4>1. term' = [term EXCEPT !.steps = u]
        BY <1>2, <3>2 DEF Terminal!Handled
      <4>2. /\ u \in [Terminal!Index -> Terminal!Marks]
            /\ (\E j \in Terminal!Index : term.steps[j] # "success")
                   => \E j \in Terminal!Index : u[j] # "success"
        BY <1>8
      <4> HIDE DEF u
      <4> QED
        BY <1>7, <4>1, <4>2
    <3>3. CASE m.type = "error"
      <4> DEFINE u == Terminal!UpdateStep(term.steps, m.step, "failed")
      <4>1. term' = [term EXCEPT !.steps = u, !.errors = TRUE]
        BY <1>2, <3>3 DEF Terminal!Handled
      <4>2. /\ u \in [Terminal!Index -> Terminal!Marks]
            /\ (\E j \in Terminal!Index : term.steps[j] # "success")
                   => \E j \in Terminal!Index : u[j] # "success"
        BY <1>8
      <4>3. faults > 0
        BY <1>6, <3>3
      <4> HIDE DEF u
      <4> QED
        BY <1>7, <4>1, <4>2, <4>3
    <3> QED
      BY <1>6, <1>10, <3>1, <3>2, <3>3
  <2>2. told' = told
    BY <1>2, <1>10
  <2>3. Terminal!TypeOK'
    BY <1>0, <1>2, <1>3, <2>1, <2>2 DEF Terminal!TypeOK, MessageTypes, NotYet
  <2>4. StateIsTrue'
    BY <1>0, <1>2, <2>1, <2>2 DEF StateIsTrue
  <2>5. Disconnected'
    BY <1>0, <1>2, <2>1 DEF Disconnected
  <2>6. NothingIsLost'
    <3> SUFFICES ASSUME faults = 0, server = "closed"
                 PROVE  lines' # <<>> /\ lines'[Len(lines')].type = "complete"
      BY <1>2 DEF NothingIsLost
    <3>1. ~EndIsDrawn
      BY <1>2 DEF EndIsDrawn
    <3>2. lines[Len(lines)].type = "complete"
      BY <1>0, <1>2, <3>1 DEF NothingIsLost
    <3>3. Len(lines) # 1
      BY <1>4, <1>10, <3>2
    <3>4. Len(lines') \in 1..Len(lines') /\ Len(lines') + 1 = Len(lines)
      BY <1>3, <3>3
    <3>5. lines'[Len(lines')] = lines[Len(lines)]
      BY <1>3, <3>4
    <3>6. lines' # <<>>
      BY <3>4, EmptySeq
    <3> QED
      BY <3>2, <3>5, <3>6
  <2> QED
    BY <1>5, <2>3, <2>4, <2>5, <2>6 DEF TInv
<1> QED
  BY <1>9, <1>10


(* The request for the build. *)
LEMMA FetchKeepsTInv == ASSUME TInv, Terminal!FetchReads \/ Terminal!FetchAnswered PROVE TInv'
<1>0. /\ Terminal!TypeOK /\ MessagesAreTrue /\ StateIsTrue /\ Disconnected /\ NothingIsLost
  BY DEF TInv
<1>1. /\ build \in Terminal!Builds /\ faults \in 0..MaxFaults /\ MaxFaults \in Nat
      /\ fetch \in [state : {"asked", "answered", "over"}, build : Terminal!Builds]
      /\ term \in [status : Terminal!Ended \cup {"connecting", "running"},
                   steps : [Terminal!Index -> Terminal!Marks],
                   errors : BOOLEAN, completed : BOOLEAN, attempts : 0..MaxAttempts,
                   reconnecting : BOOLEAN, timer : BOOLEAN]
      /\ told \subseteq Terminal!Ended
  BY <1>0, TerminalTypes, TerminalAssumption
<1>2. CASE Terminal!FetchReads
  <2>1. /\ UNCHANGED <<build, server, lines, socket, term, told, renders>>
        /\ \/ fetch' = [state |-> "answered", build |-> build] /\ UNCHANGED faults
           \/ faults < MaxFaults /\ faults' = faults + 1 /\ fetch' = [fetch EXCEPT !.state = "over"]
    BY <1>2 DEF Terminal!FetchReads
  <2>2. /\ faults' \in 0..MaxFaults /\ (faults > 0 => faults' > 0) /\ (faults' = 0 => faults = 0)
        /\ fetch' \in [state : {"asked", "answered", "over"}, build : Terminal!Builds]
        /\ fetch'.build = build \/ fetch'.build = fetch.build
    BY <1>1, <2>1
  <2>3. Terminal!TypeOK'
    BY <1>0, <2>1, <2>2 DEF Terminal!TypeOK
  <2>4. MessagesAreTrue' /\ StateIsTrue' /\ Disconnected'
    BY <1>0, <2>1, <2>2 DEF MessagesAreTrue, StateIsTrue, Disconnected
  <2>5. NothingIsLost'
    BY <1>0, <2>1, <2>2 DEF NothingIsLost, EndIsDrawn
  <2> QED
    BY <2>3, <2>4, <2>5 DEF TInv
<1>3. CASE Terminal!FetchAnswered
  <2> DEFINE s == fetch.build.status
             d == Terminal!Drawn(s)
  <2>1. /\ fetch' = [fetch EXCEPT !.state = "over"]
        /\ UNCHANGED <<build, server, lines, socket, faults, renders>>
        /\ \/ /\ s \in Terminal!Ended
              /\ term' = [term EXCEPT !.completed = TRUE, !.status = s, !.steps = d,
                                      !.errors = s = "failed"]
              /\ told' = told \cup {s}
           \/ term' = term /\ told' = told
    BY <1>3 DEF Terminal!FetchAnswered
  <2>2. fetch' \in [state : {"asked", "answered", "over"}, build : Terminal!Builds]
        /\ fetch'.build = fetch.build
    BY <1>1, <2>1
  <2>3. MessagesAreTrue'
    BY <1>0, <2>1, <2>2 DEF MessagesAreTrue
  <2>4. CASE UNCHANGED <<term, told>>
    <3>1. Terminal!TypeOK'
      BY <1>0, <2>1, <2>2, <2>4 DEF Terminal!TypeOK
    <3>2. StateIsTrue' /\ Disconnected'
      BY <1>0, <2>1, <2>4 DEF StateIsTrue, Disconnected
    <3>3. NothingIsLost'
      BY <1>0, <2>1, <2>4 DEF NothingIsLost, EndIsDrawn
    <3> QED
      BY <2>3, <3>1, <3>2, <3>3 DEF TInv
  <2>5. CASE /\ s \in Terminal!Ended
             /\ term' = [term EXCEPT !.completed = TRUE, !.status = s, !.steps = d,
                                     !.errors = s = "failed"]
             /\ told' = told \cup {s}
    <3>1. s = build.status /\ s \in {"success", "failed"}
      BY <1>0, <2>5 DEF MessagesAreTrue, Terminal!Ended
    <3>2. d = [j \in Terminal!Index |-> IF s = "failed" /\ j = Labels - 1 THEN "failed" ELSE "success"]
      BY DEF Terminal!Drawn
    <3>3. /\ d \in [Terminal!Index -> Terminal!Marks]
          /\ \A j \in Terminal!Index : d[j] # "active"
          /\ s = "success" => \A j \in Terminal!Index : d[j] = "success"
          /\ s = "failed" => d[Labels - 1] # "success"
      BY <3>2, LastLabel DEF Terminal!Marks
    <3> HIDE DEF d, s
    <3>4. /\ term' \in [status : Terminal!Ended \cup {"connecting", "running"},
                        steps : [Terminal!Index -> Terminal!Marks],
                        errors : BOOLEAN, completed : BOOLEAN, attempts : 0..MaxAttempts,
                        reconnecting : BOOLEAN, timer : BOOLEAN]
          /\ term'.completed = TRUE /\ term'.status = s /\ term'.steps = d
          /\ term'.errors = (s = "failed") /\ term'.timer = term.timer
      BY <1>1, <2>5, <3>3
    <3>5. told' \subseteq Terminal!Ended
      BY <1>1, <2>5
    <3>6. Terminal!TypeOK'
      BY <1>0, <2>1, <2>2, <3>4, <3>5 DEF Terminal!TypeOK
    <3>7. StateIsTrue'
      BY <1>0, <2>1, <2>5, <3>1, <3>3, <3>4, LastLabel DEF StateIsTrue
    <3>8. Disconnected'
      BY <1>0, <2>1, <3>4 DEF Disconnected
    <3>9. EndIsDrawn => EndIsDrawn'
      BY <2>1, <3>1, <3>3, <3>4 DEF EndIsDrawn
    <3>10. NothingIsLost'
      BY <1>0, <2>1, <3>9 DEF NothingIsLost
    <3> QED
      BY <2>3, <3>6, <3>7, <3>8, <3>10 DEF TInv
  <2> QED
    BY <2>1, <2>4, <2>5
<1> QED
  BY <1>2, <1>3

(* The connection opens, closes, is made again, or is given up for good. *)
LEMMA ConnectionKeepsTInv ==
    ASSUME TInv, Terminal!Open \/ Terminal!Close \/ Terminal!Reconnect \/ Terminal!Rerender
    PROVE  TInv'
<1>0. /\ Terminal!TypeOK /\ MessagesAreTrue /\ StateIsTrue /\ Disconnected /\ NothingIsLost
  BY DEF TInv
<1>1. /\ renders \in 0..MaxRenders /\ MaxRenders \in Nat /\ MaxAttempts \in Nat
      /\ lines \in Seq(MessageTypes)
      /\ term \in [status : Terminal!Ended \cup {"connecting", "running"},
                   steps : [Terminal!Index -> Terminal!Marks],
                   errors : BOOLEAN, completed : BOOLEAN, attempts : 0..MaxAttempts,
                   reconnecting : BOOLEAN, timer : BOOLEAN]
  BY <1>0, TerminalTypes, TerminalAssumption
<1>2. CASE Terminal!Open
  <2>1. /\ socket = "connecting" /\ server = "none" /\ socket' = "open" /\ server' = "polling"
        /\ term' = [term EXCEPT !.status = "running", !.reconnecting = FALSE, !.attempts = 0]
        /\ UNCHANGED <<build, lines, fetch, told, faults, renders>>
    BY <1>2 DEF Terminal!Open, Terminal!Opened
  <2>2. /\ term' \in [status : Terminal!Ended \cup {"connecting", "running"},
                      steps : [Terminal!Index -> Terminal!Marks],
                      errors : BOOLEAN, completed : BOOLEAN, attempts : 0..MaxAttempts,
                      reconnecting : BOOLEAN, timer : BOOLEAN]
        /\ term'.status = "running" /\ term'.errors = term.errors
        /\ term'.steps = term.steps /\ term'.timer = term.timer
    <3>1. 0 \in 0..MaxAttempts
      BY <1>1
    <3> QED
      BY <1>1, <2>1, <3>1
  <2>3. Terminal!TypeOK'
    BY <1>0, <2>1, <2>2 DEF Terminal!TypeOK
  <2>4. MessagesAreTrue' /\ StateIsTrue'
    BY <1>0, <2>1, <2>2 DEF MessagesAreTrue, StateIsTrue
  <2>5. Disconnected' /\ NothingIsLost'
    BY <1>0, <2>1, <2>2 DEF Disconnected, NothingIsLost
  <2> QED
    BY <2>3, <2>4, <2>5 DEF TInv
<1>3. CASE Terminal!Close
  <2>1. /\ socket \in {"connecting", "open"} /\ server = "closed" /\ lines = <<>>
        /\ socket' = "closed" /\ term' = Terminal!ScheduleReconnect(term)
        /\ UNCHANGED <<build, server, lines, fetch, told, faults, renders>>
    BY <1>3 DEF Terminal!Close
  <2>2. /\ term' \in [status : Terminal!Ended \cup {"connecting", "running"},
                      steps : [Terminal!Index -> Terminal!Marks],
                      errors : BOOLEAN, completed : BOOLEAN, attempts : 0..MaxAttempts,
                      reconnecting : BOOLEAN, timer : BOOLEAN]
        /\ term'.status = term.status \/ term'.status = "failed"
        /\ term.completed => term' = term
        /\ term'.errors = term.errors /\ term'.steps = term.steps
    <3>1. CASE term.completed
      BY <1>1, <2>1, <3>1 DEF Terminal!ScheduleReconnect
    <3>2. CASE ~term.completed /\ term.attempts >= MaxAttempts
      <4>1. term' = [term EXCEPT !.status = "failed"]
        BY <2>1, <3>2 DEF Terminal!ScheduleReconnect
      <4> QED
        BY <1>1, <4>1, <3>2 DEF Terminal!Ended
    <3>3. CASE ~term.completed /\ ~(term.attempts >= MaxAttempts)
      <4>1. term' = [term EXCEPT !.reconnecting = TRUE, !.attempts = @ + 1, !.timer = TRUE]
        BY <2>1, <3>3 DEF Terminal!ScheduleReconnect
      <4>2. term.attempts + 1 \in 0..MaxAttempts
        BY <1>1, <3>3
      <4> QED
        BY <1>1, <4>1, <4>2, <3>3
    <3> QED
      BY <3>1, <3>2, <3>3
  <2>3. Terminal!TypeOK'
    BY <1>0, <2>1, <2>2 DEF Terminal!TypeOK
  <2>4. MessagesAreTrue' /\ StateIsTrue'
    BY <1>0, <2>1, <2>2 DEF MessagesAreTrue, StateIsTrue
  <2>5. Disconnected'
    BY <2>1 DEF Disconnected
  <2>6. NothingIsLost'
    <3> SUFFICES ASSUME faults = 0 PROVE EndIsDrawn'
      BY <2>1 DEF NothingIsLost
    <3>1. EndIsDrawn
      BY <1>0, <2>1 DEF NothingIsLost
    <3> QED
      BY <2>1, <2>2, <3>1 DEF EndIsDrawn
  <2> QED
    BY <2>3, <2>4, <2>5, <2>6 DEF TInv
<1>4. CASE Terminal!Reconnect \/ Terminal!Rerender
  <2>1. /\ lines' = <<>> /\ UNCHANGED <<build, told, faults>>
        /\ fetch' = fetch \/ fetch' = [state |-> "asked", build |-> Terminal!Running]
        /\ \/ /\ socket' = "connecting" /\ server' = "none" /\ renders' = renders
              /\ term' = [term EXCEPT !.timer = FALSE]
           \/ /\ socket' = "none" /\ server' = "closed" /\ renders < MaxRenders /\ renders' = renders + 1
              /\ term' = [term EXCEPT !.completed = TRUE, !.timer = FALSE]
    BY <1>4 DEF Terminal!Reconnect, Terminal!Rerender
  <2>2. /\ term' \in [status : Terminal!Ended \cup {"connecting", "running"},
                      steps : [Terminal!Index -> Terminal!Marks],
                      errors : BOOLEAN, completed : BOOLEAN, attempts : 0..MaxAttempts,
                      reconnecting : BOOLEAN, timer : BOOLEAN]
        /\ term'.status = term.status /\ term'.errors = term.errors
        /\ term'.steps = term.steps /\ term'.timer = FALSE
    BY <1>1, <2>1
  <2>3. renders' \in 0..MaxRenders
    BY <1>1, <2>1
  <2>4. fetch' \in [state : {"asked", "answered", "over"}, build : Terminal!Builds]
    <3>1. fetch \in [state : {"asked", "answered", "over"}, build : Terminal!Builds]
      BY <1>0 DEF Terminal!TypeOK
    <3> QED
      BY <2>1, <3>1, BuildTypes
  <2>5. lines' \in Seq(MessageTypes) /\ DOMAIN lines' = {}
    BY <2>1, EmptySeq
  <2>6. Terminal!TypeOK'
    BY <1>0, <2>1, <2>2, <2>3, <2>4, <2>5 DEF Terminal!TypeOK, MessageTypes, NotYet
  <2>7. MessagesAreTrue'
    <3>1. fetch'.build = fetch.build \/ fetch'.build.status = "running"
      BY <2>1, BuildTypes
    <3> QED
      BY <1>0, <2>1, <2>5, <3>1 DEF MessagesAreTrue, Terminal!Ended
  <2>8. StateIsTrue'
    BY <1>0, <2>1, <2>2 DEF StateIsTrue
  <2>9. Disconnected' /\ NothingIsLost'
    BY <2>1, <2>2 DEF Disconnected, NothingIsLost
  <2> QED
    BY <2>6, <2>7, <2>8, <2>9 DEF TInv
<1> QED
  BY <1>2, <1>3, <1>4

LEMMA NextKeepsTInv == TInv /\ [Terminal!Next]_terminal => TInv'
<1> SUFFICES ASSUME TInv, [Terminal!Next]_terminal PROVE TInv'
  OBVIOUS
<1>1. CASE UNCHANGED terminal
  <2>1. UNCHANGED <<build, server, lines, socket, term, fetch, told, faults, renders>>
    BY <1>1 DEF terminal
  <2>2. /\ Terminal!TypeOK /\ MessagesAreTrue /\ StateIsTrue /\ Disconnected
        /\ NothingIsLost
    BY DEF TInv
  <2>3. Terminal!TypeOK'
    BY <2>1, <2>2 DEF Terminal!TypeOK
  <2>4. MessagesAreTrue' /\ StateIsTrue' /\ Disconnected'
    BY <2>1, <2>2 DEF MessagesAreTrue, StateIsTrue, Disconnected
  <2>5. NothingIsLost'
    BY <2>1, <2>2 DEF NothingIsLost, EndIsDrawn
  <2> QED
    BY <2>3, <2>4, <2>5 DEF TInv
<1>2. CASE Terminal!Next
  BY <1>2, ServerKeepsTInv, ReceiveKeepsTInv, FetchKeepsTInv, ConnectionKeepsTInv
     DEF Terminal!Next, Terminal!Server, Terminal!Page
<1> QED
  BY <1>1, <1>2

LEMMA TerminalFollows == TInv => TerminalIsTrue
<1> SUFFICES ASSUME TInv PROVE TerminalIsTrue
  OBVIOUS
<1>0. /\ Terminal!TypeOK /\ StateIsTrue /\ Disconnected /\ NothingIsLost
  BY DEF TInv
<1>1. Terminal!OutcomeIsTrue
  <2>1. Terminal!Callout = "success" => term.status = "success"
    BY DEF Terminal!Callout
  <2>2. Terminal!Callout = "advice" => term.errors
    BY DEF Terminal!Callout
  <2> QED
    BY <1>0, <2>1, <2>2 DEF Terminal!OutcomeIsTrue, StateIsTrue
<1>2. Terminal!OneConnection
  BY <1>0 DEF Terminal!OneConnection, Disconnected
<1>3. Terminal!DrawnToItsEnd
  <2> SUFFICES ASSUME term.status \in Terminal!Ended, socket = "closed", faults = 0
               PROVE  /\ \A i \in Terminal!Index : term.steps[i] # "active"
                      /\ term.status = "success" => \A i \in Terminal!Index : term.steps[i] = "success"
                      /\ term.status = "failed" => ~ \A i \in Terminal!Index : term.steps[i] = "success"
    BY DEF Terminal!DrawnToItsEnd
  <2>1. EndIsDrawn
    BY <1>0 DEF Disconnected, NothingIsLost
  <2> QED
    BY <1>0, <2>1 DEF EndIsDrawn, StateIsTrue
<1> QED
  BY <1>0, <1>1, <1>2, <1>3 DEF TerminalIsTrue, Terminal!TerminalIsTrue

-----------------------------------------------------------------------------
(* Both kinds of job *)

LEMMA WatchStep == [WatchNext]_all => [Next]_vars /\ [Terminal!Next]_terminal
  BY DEF WatchNext, all, deployment, terminal

(* The same for the two kinds of job together, whichever is watched: the views
   of a deployment show how it went, and all that the terminal of a build tells,
   by its callouts, by onComplete and by its steps, is how the build has ended,
   over one connection at a time (handleMessage, fetchBuildStatus,
   scheduleReconnect): for every number of steps and reconnections, and whatever
   breaks. *)
THEOREM TerminalTrue == WatchSpec => []TerminalIsTrue
<1>1. WatchInit => TInv
  BY InitTInv DEF WatchInit
<1>2. TInv /\ [WatchNext]_all => TInv'
  BY NextKeepsTInv, WatchStep
<1>3. TInv => TerminalIsTrue
  BY TerminalFollows
<1> QED
  BY <1>1, <1>2, <1>3, PTL DEF WatchSpec

(* What the theorems above say of a deployment is true of it beside the builds. *)
THEOREM WatchedStagesTrue == WatchSpec => []StagesAreTrue /\ StagesOnlyAdvance /\ Truthful
<1>1. WatchInit => IInv /\ Watch!Init
  BY InitIInv, InitImplements DEF WatchInit
<1>2. IInv /\ [WatchNext]_all => IInv'
  BY NextKeepsIInv, WatchStep
<1>3. IInv => StagesAreTrue
  BY StagesFollow
<1>4. IInv /\ [WatchNext]_all =>
        [kind = "StepDeployProgress" =>
         \A i \in Steps : view.steps[i] \in {"done", "error"} => view'.steps[i] = view.steps[i]]_vars
  BY NextKeepsStages, WatchStep DEF StagesStay
<1>5. IInv /\ IInv' /\ [WatchNext]_all => [Watch!Next]_(Watch!vars)
  BY StepImplements, WatchStep
<1> QED
  BY <1>1, <1>2, <1>3, <1>4, <1>5, PTL DEF WatchSpec, StagesOnlyAdvance, Truthful, Watch!Safety

=============================================================================
