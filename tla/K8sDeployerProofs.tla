------------------------- MODULE K8sDeployerProofs -------------------------
(***************************************************************************)
(* Theorems about K8sDeployer for any callers, recipes, slices and kinds   *)
(* of object, and any length of the history.                               *)
(*                                                                         *)
(* The invariant has two parts: what a call knows of its row and of the    *)
(* history (HistoryInv), and whose objects are in the namespace while a    *)
(* call is at work (ClusterInv).                                           *)
(***************************************************************************)
EXTENDS K8sDeployer, FiniteSetTheorems, WellFoundedInduction, TLAPS

Rows == [recipe : Recipes, target : {"kubernetes", "local"},
         status : Statuses, rollbackOf : 0..MaxDeploys]

Calls == [pc : Steps, recipe : Recipes \cup {Absent}, target : {"kubernetes", "local"},
          id : 0..MaxDeploys, rollback : BOOLEAN, current : 0..MaxDeploys,
          todo : SUBSET Objects, applied : Seq(Objects), outcome : Statuses]

(* Where a call has a row. *)
Begun == {"prepare", "clean", "apply", "undo", "local", "record", "reference"}

(* The row of a call is its own, and not yet complete. *)
RowOf(c) ==
    /\ run[c].id \in DOMAIN deploys
    /\ deploys[run[c].id].recipe = run[c].recipe
    /\ deploys[run[c].id].target = run[c].target
    /\ deploys[run[c].id].rollbackOf = 0
    /\ run[c].pc # "reference" => deploys[run[c].id].status = "in_progress"

RowsOfCalls == \A c \in Callers : run[c].pc \in Begun => RowOf(c)

OwnRows ==
    \A c, d \in Callers :
        run[c].pc \in Begun /\ run[d].pc \in Begun /\ run[c].id = run[d].id => c = d

(* What a step of a call can rely on. *)
Shape(c) ==
    /\ run[c].pc \in Begun \cup {"chosen", "starting"} => run[c].recipe \in Recipes
    /\ run[c].pc \in {"prepare", "clean", "apply", "undo", "chosen"} => run[c].target = "kubernetes"
    /\ run[c].pc = "local" => run[c].target = "local"
    /\ run[c].pc \in {"chosen", "starting", "reference"} => run[c].rollback

Shapes == \A c \in Callers : Shape(c)

(* The success that a rollback replaces, and an older one that it repeats. *)
Repeats(c, replaced) ==
    /\ replaced \in Successes
    /\ \E older \in Successes : older < replaced /\ deploys[older].recipe = run[c].recipe

RollbackKnows(c) ==
    /\ Successes # {}
    /\ run[c].pc = "chosen" => \E newer \in Successes : Repeats(c, newer)
    /\ run[c].pc # "chosen" /\ run[c].target = "kubernetes" => Repeats(c, run[c].current)
    /\ run[c].pc \in Begun /\ run[c].target = "kubernetes" => run[c].current < run[c].id

RollbacksKnow == \A c \in Callers : run[c].rollback => RollbackKnows(c)

HistoryInv == TypeOK /\ RowsOfCalls /\ OwnRows /\ Shapes /\ RollbacksKnow /\ RollbackGoesBack

-----------------------------------------------------------------------------

Applied(c) == {run[c].applied[i] : i \in DOMAIN run[c].applied}

(* What a call has applied, and what it has still to apply. *)
Tally(c) ==
    /\ run[c].pc \in {"starting", "chosen", "prepare", "clean"} => run[c].applied = <<>>
    /\ run[c].pc \in {"apply", "undo"} => Applied(c) \subseteq ObjectsOf(run[c].recipe)
    /\ run[c].pc = "apply" =>
          /\ run[c].todo \subseteq ObjectsOf(run[c].recipe)
          /\ ObjectsOf(run[c].recipe) \ run[c].todo \subseteq Applied(c)
    /\ run[c].pc = "undo" => run[c].outcome = "rolled_back"

Tallies == \A c \in Callers : Tally(c)

(* Whoever is alone is the only one in the cluster.  When several are there,
   or were, nothing is promised of any object. *)
AllExcused == \A o \in Objects : Kind(o) \in Removable => o \in excused

AloneIsAlone == \A c \in alone : InCluster = {c}

CrowdIsExcused == InCluster # {} /\ alone = {} => AllExcused

Listed(o) == Successes # {} /\ Slice(o) \in SlicesOf[deploys[LatestSuccessfulDeploy].recipe]

(* What a call may have put into the namespace beside what was there. *)
Pending(c) ==
    IF run[c].pc \in {"apply", "undo"} THEN Applied(c)
    ELSE IF run[c].pc = "record" /\ run[c].outcome = "success" THEN ObjectsOf(run[c].recipe)
    ELSE {}

Accounted ==
    \A o \in Present : Kind(o) \in Removable =>
        o \in excused \/ Listed(o) \/ \E c \in alone : o \in Pending(c)

-----------------------------------------------------------------------------
(* What the call that is alone in the cluster can rely on *)

(* Its row will be the newest success, unless that of a local deploy is. *)
StaysNewest(c) ==
    run[c].pc \in Begun => AllExcused \/ \A i \in Successes : i < run[c].id

Installs(c) ==
    run[c].pc = "apply" =>
        \A o \in ObjectsOf(run[c].recipe) \ run[c].todo : ns[o] = run[c].recipe

HasInstalled(c) ==
    run[c].pc = "record" /\ run[c].outcome = "success" /\ run[c].target = "kubernetes" =>
        \A o \in ObjectsOf(run[c].recipe) : ns[o] = run[c].recipe

(* What is there of what it applied is still to be undone. *)
Undoes(c) ==
    run[c].pc = "undo" =>
        \A o \in (ObjectsOf(run[c].recipe) \ run[c].todo) \cap Present :
            Kind(o) \in Removable => o \in excused \cup Applied(c)

HasUndone(c) ==
    run[c].pc = "record" /\ run[c].outcome = "rolled_back" =>
        \A o \in (ObjectsOf(run[c].recipe) \ run[c].todo) \cap Present :
            Kind(o) \in Removable => o \in excused

(* What is there and in no slice of its recipe is still to be deleted. *)
Cleans(c) ==
    \A o \in Present : Kind(o) \in Removable =>
        /\ run[c].pc = "clean" =>
              o \in excused \/ o \in run[c].todo \/ Slice(o) \in SlicesOf[run[c].recipe]
        /\ run[c].pc = "apply" \/ (run[c].pc = "record" /\ run[c].outcome = "success") =>
              o \in excused \/ Slice(o) \in SlicesOf[run[c].recipe]

Relies(c) ==
    /\ StaysNewest(c) /\ Installs(c) /\ HasInstalled(c)
    /\ Undoes(c) /\ HasUndone(c) /\ Cleans(c)

ClusterInv ==
    /\ Tallies /\ AloneIsAlone /\ CrowdIsExcused /\ Accounted
    /\ \A c \in alone : Relies(c)

IInv == HistoryInv /\ ClusterInv

-----------------------------------------------------------------------------
(* Calls and rows *)

LEMMA TypeIs ==
  TypeOK <=> /\ ns \in [Objects -> Recipes \cup {Absent}]
             /\ deploys \in Seq(Rows) /\ Len(deploys) <= MaxDeploys
             /\ run \in [Callers -> Calls]
             /\ alone \subseteq Callers
             /\ existed \in [Callers -> SUBSET Objects]
             /\ excused \subseteq Objects
  BY DEF TypeOK, Rows, Calls

LEMMA TypeIsNext ==
  TypeOK' <=> /\ ns' \in [Objects -> Recipes \cup {Absent}]
              /\ deploys' \in Seq(Rows) /\ Len(deploys') <= MaxDeploys
              /\ run' \in [Callers -> Calls]
              /\ alone' \subseteq Callers
              /\ existed' \in [Callers -> SUBSET Objects]
              /\ excused' \subseteq Objects
  BY DEF TypeOK, Rows, Calls

LEMMA IdleIsCall == Idle \in Calls
<1>1. 0 \in 0..MaxDeploys
  BY DeploysAssumption
<1>2. <<>> \in Seq(Objects)
  OBVIOUS
<1> QED
  BY <1>1, <1>2 DEF Idle, Calls, Steps, Statuses

LEMMA CallIs ==
  ASSUME TypeOK, NEW c \in Callers
  PROVE  run[c] \in Calls
  BY TypeIs

(* The step of one caller: the others' calls are where they were. *)
Moves(c) == run' \in [Callers -> Calls] /\ \A d \in Callers : d # c => run'[d] = run[d]

LEMMA CallSet ==
  ASSUME TypeOK, NEW c \in Callers, NEW k \in Calls, run' = [run EXCEPT ![c] = k]
  PROVE  Moves(c) /\ run'[c] = k
  BY TypeIs DEF Moves

LEMMA CallReturns ==
  ASSUME TypeOK, NEW c \in Callers, Returns(c)
  PROVE  Moves(c) /\ run'[c] = Idle /\ run'[c].pc = "idle" /\ ~run'[c].rollback
<1>1. Moves(c) /\ run'[c] = Idle
  BY IdleIsCall, CallSet DEF Returns
<1> QED
  BY <1>1 DEF Idle

(* What a call is for does not change when it goes on. *)
Keeps(c) ==
    /\ run'[c].recipe = run[c].recipe /\ run'[c].target = run[c].target
    /\ run'[c].id = run[c].id
    /\ run'[c].rollback = run[c].rollback /\ run'[c].current = run[c].current

Edits(c, p, u, t, a) ==
    run' = [run EXCEPT ![c] =
              [run[c] EXCEPT !.pc = p, !.outcome = u, !.todo = t, !.applied = a]]

LEMMA CallGoesOn ==
  ASSUME TypeOK, NEW c \in Callers, NEW p \in Steps, NEW u \in Statuses,
         NEW t \in SUBSET Objects, NEW a \in Seq(Objects), Edits(c, p, u, t, a)
  PROVE  /\ Moves(c) /\ Keeps(c)
         /\ run'[c].pc = p /\ run'[c].outcome = u
         /\ run'[c].todo = t /\ run'[c].applied = a
<1> DEFINE k == [run[c] EXCEPT !.pc = p, !.outcome = u, !.todo = t, !.applied = a]
<1>1. /\ k \in Calls
      /\ k.recipe = run[c].recipe /\ k.target = run[c].target /\ k.id = run[c].id
      /\ k.rollback = run[c].rollback /\ k.current = run[c].current
      /\ k.pc = p /\ k.outcome = u /\ k.todo = t /\ k.applied = a
  BY CallIs DEF Calls
<1>2. Moves(c) /\ run'[c] = k
  <2> HIDE DEF k
  <2> QED
    BY <1>1, CallSet DEF k, Edits
<1> QED
  BY <1>1, <1>2 DEF Keeps

(* The steps at which a call goes on with the deploy it has begun. *)
Works(c) ==
    \/ RunLocally(c) \/ PrepareFails(c) \/ Prepare(c) \/ DeleteNext(c) \/ CleanupDone(c)
    \/ ApplyObject(c) \/ ApplyFails(c) \/ BecomesReady(c) \/ ReadinessFails(c)
    \/ UndoObject(c) \/ UndoDone(c)

Where(c, from, to) == run[c].pc = from /\ run'[c].pc = to

Went(c) ==
    \/ Where(c, "local", "record") \/ Where(c, "prepare", "record")
    \/ Where(c, "prepare", "clean") \/ Where(c, "clean", "clean") \/ Where(c, "down", "down")
    \/ Where(c, "clean", "apply") \/ Where(c, "apply", "apply") \/ Where(c, "apply", "undo")
    \/ Where(c, "apply", "record") \/ Where(c, "undo", "undo") \/ Where(c, "undo", "record")

LEMMA AppendIsSeq ==
  ASSUME NEW a \in Seq(Objects), NEW o \in Objects
  PROVE  Append(a, o) \in Seq(Objects)
  OBVIOUS

LEMMA UndoneIsSeq ==
  ASSUME NEW a \in Seq(Objects), a # <<>>
  PROVE  LET b == SubSeq(a, 1, Len(a) - 1)
         IN  /\ b \in Seq(Objects)
             /\ a[Len(a)] \in Objects
             /\ \A i \in DOMAIN a : (i \in DOMAIN b /\ b[i] = a[i]) \/ i = Len(a)
             /\ \A i \in DOMAIN b : i \in DOMAIN a /\ b[i] = a[i]
  OBVIOUS

LEMMA WorkGoesOn ==
  ASSUME TypeOK, NEW c \in Callers, Works(c)
  PROVE  /\ Moves(c) /\ Keeps(c) /\ Went(c)
         /\ UNCHANGED <<deploys, alone, existed>>
<1> USE DEF Went, Where
<1>1. /\ run[c] \in Calls /\ run[c].todo \in SUBSET Objects /\ run[c].applied \in Seq(Objects)
      /\ run[c].pc \in Steps /\ run[c].outcome \in Statuses
  BY CallIs DEF Calls
<1>2. {"success", "failed", "rolled_back"} \subseteq Statuses
  BY DEF Statuses
<1>3. {"record", "clean", "apply", "undo"} \subseteq Steps
  BY DEF Steps
<1>4. ASSUME NEW p \in Steps, NEW u \in Statuses, NEW t \in SUBSET Objects,
             NEW a \in Seq(Objects), Edits(c, p, u, t, a)
      PROVE  Moves(c) /\ Keeps(c) /\ run'[c].pc = p
  BY <1>4, CallGoesOn
<1>5. CASE RunLocally(c)
  <2>1. PICK u \in {"success", "failed"} :
          run' = [run EXCEPT ![c].pc = "record", ![c].outcome = u]
    BY <1>5 DEF RunLocally
  <2>2. Edits(c, "record", u, run[c].todo, run[c].applied)
    BY <1>1, <1>5, <2>1, TypeIs DEF RunLocally, Calls, Edits
  <2>3. Moves(c) /\ Keeps(c) /\ run'[c].pc = "record"
    BY <1>1, <1>2, <1>3, <1>4, <2>2
  <2> QED
    BY <1>5, <2>3 DEF RunLocally, history
<1>6. CASE PrepareFails(c)
  <2>1. Edits(c, "record", "failed", run[c].todo, run[c].applied)
    BY <1>1, <1>6, TypeIs DEF PrepareFails, Calls, Edits
  <2>2. Moves(c) /\ Keeps(c) /\ run'[c].pc = "record"
    BY <1>1, <1>2, <1>3, <1>4, <2>1
  <2> QED
    BY <1>6, <2>2 DEF PrepareFails, history
<1>7. CASE Prepare(c)
  <2>1. PICK t \in SUBSET Objects :
          run' = [run EXCEPT ![c].pc = "clean", ![c].todo = t]
    BY <1>7 DEF Prepare
  <2>2. Edits(c, "clean", run[c].outcome, t, run[c].applied)
    BY <1>1, <1>7, <2>1, TypeIs DEF Prepare, Calls, Edits
  <2>3. Moves(c) /\ Keeps(c) /\ run'[c].pc = "clean"
    BY <1>1, <1>2, <1>3, <1>4, <2>2
  <2> QED
    BY <1>7, <2>3 DEF Prepare, history
<1>8. CASE DeleteNext(c)
  <2>1. PICK o \in Last(run[c].todo) :
          run' = [run EXCEPT ![c].todo = @ \ {o}]
    BY <1>8 DEF DeleteNext
  <2>2. Edits(c, run[c].pc, run[c].outcome, run[c].todo \ {o}, run[c].applied)
    BY <1>1, <1>8, <2>1, TypeIs DEF DeleteNext, Calls, Edits
  <2>3. Moves(c) /\ Keeps(c) /\ run'[c].pc = run[c].pc
    BY <1>1, <1>2, <1>3, <1>4, <2>2
  <2> QED
    BY <1>8, <2>3 DEF DeleteNext, history
<1>9. CASE CleanupDone(c)
  <2>1. Edits(c, "apply", run[c].outcome, ObjectsOf(run[c].recipe), run[c].applied)
    BY <1>1, <1>9, TypeIs DEF CleanupDone, Calls, Edits
  <2>2. ObjectsOf(run[c].recipe) \in SUBSET Objects
    BY DEF ObjectsOf
  <2>3. Moves(c) /\ Keeps(c) /\ run'[c].pc = "apply"
    BY <1>1, <1>2, <1>3, <1>4, <2>1, <2>2
  <2> QED
    BY <1>9, <2>3 DEF CleanupDone, history
<1>10. CASE ApplyObject(c)
  <2>1. PICK o \in First(run[c].todo) :
          run' = [run EXCEPT ![c].todo = @ \ {o}, ![c].applied = Append(@, o)]
    BY <1>10 DEF ApplyObject
  <2>2. Edits(c, "apply", run[c].outcome, run[c].todo \ {o}, Append(run[c].applied, o))
    <3>1. run[c].pc = "apply"
      BY <1>10 DEF ApplyObject
    <3>2. ASSUME NEW t, NEW a, run' = [run EXCEPT ![c].todo = t, ![c].applied = a]
          PROVE  Edits(c, "apply", run[c].outcome, t, a)
      BY <1>1, <3>1, <3>2, TypeIs DEF Calls, Edits
    <3> QED
      BY <2>1, <3>2
  <2>3. Append(run[c].applied, o) \in Seq(Objects)
    <3>1. o \in Objects
      BY <1>1 DEF First
    <3>2. run[c].applied \in Seq(Objects)
      BY <1>1
    <3> HIDE <1>1, <1>10
    <3> QED
      BY <3>1, <3>2, AppendIsSeq
  <2>4. Moves(c) /\ Keeps(c) /\ run'[c].pc = "apply"
    BY <1>1, <1>2, <1>3, <1>4, <2>2, <2>3
  <2> QED
    BY <1>10, <2>4 DEF ApplyObject, history
<1>11. CASE ApplyFails(c)
  <2>1. Edits(c, "undo", "rolled_back", run[c].todo, run[c].applied)
    BY <1>1, <1>11, TypeIs DEF ApplyFails, Calls, Edits
  <2>2. Moves(c) /\ Keeps(c) /\ run'[c].pc = "undo"
    BY <1>1, <1>2, <1>3, <1>4, <2>1
  <2> QED
    BY <1>11, <2>2 DEF ApplyFails, history
<1>12. CASE BecomesReady(c)
  <2>1. Edits(c, "record", "success", run[c].todo, run[c].applied)
    BY <1>1, <1>12, TypeIs DEF BecomesReady, Calls, Edits
  <2>2. Moves(c) /\ Keeps(c) /\ run'[c].pc = "record"
    BY <1>1, <1>2, <1>3, <1>4, <2>1
  <2> QED
    BY <1>12, <2>2 DEF BecomesReady, history
<1>13. CASE ReadinessFails(c)
  <2>1. Edits(c, "undo", "rolled_back", run[c].todo, run[c].applied)
    BY <1>1, <1>13, TypeIs DEF ReadinessFails, Calls, Edits
  <2>2. Moves(c) /\ Keeps(c) /\ run'[c].pc = "undo"
    BY <1>1, <1>2, <1>3, <1>4, <2>1
  <2> QED
    BY <1>13, <2>2 DEF ReadinessFails, history
<1>14. CASE UndoObject(c)
  <2>1. Edits(c, "undo", run[c].outcome, run[c].todo, SubSeq(run[c].applied, 1, Len(run[c].applied) - 1))
    BY <1>1, <1>14, TypeIs DEF UndoObject, Calls, Edits
  <2>2. SubSeq(run[c].applied, 1, Len(run[c].applied) - 1) \in Seq(Objects)
    BY <1>1, <1>14, UndoneIsSeq DEF UndoObject
  <2>3. Moves(c) /\ Keeps(c) /\ run'[c].pc = "undo"
    BY <1>1, <1>2, <1>3, <1>4, <2>1, <2>2
  <2> QED
    BY <1>14, <2>3 DEF UndoObject, history
<1>15. CASE UndoDone(c)
  <2>1. Edits(c, "record", run[c].outcome, run[c].todo, run[c].applied)
    BY <1>1, <1>15, TypeIs DEF UndoDone, Calls, Edits
  <2>2. Moves(c) /\ Keeps(c) /\ run'[c].pc = "record"
    BY <1>1, <1>2, <1>3, <1>4, <2>1
  <2> QED
    BY <1>15, <2>2 DEF UndoDone, history
<1> QED
  BY <1>5, <1>6, <1>7, <1>8, <1>9, <1>10, <1>11, <1>12, <1>13, <1>14, <1>15 DEF Works

(* The objects of the namespace are touched one at a time. *)
LEMMA ExcuseTypes ==
  ASSUME TypeOK, NEW S \in SUBSET Objects, Excuse(S)
  PROVE  excused' \subseteq Objects /\ excused \subseteq excused'
  BY TypeIs DEF Excuse

LEMMA DeleteTypes ==
  ASSUME TypeOK, NEW o \in Objects, DeleteObject(o)
  PROVE  /\ ns' \in [Objects -> Recipes \cup {Absent}]
         /\ excused' \subseteq Objects
  BY TypeIs DEF DeleteObject, Excuse

LEMMA WorkTypes ==
  ASSUME TypeOK, NEW c \in Callers, Works(c)
  PROVE  TypeOK'
<1>1. /\ run[c].todo \in SUBSET Objects /\ run[c].applied \in Seq(Objects)
      /\ run[c].recipe \in Recipes \cup {Absent}
  BY CallIs DEF Calls
<1>2. ns' \in [Objects -> Recipes \cup {Absent}] /\ excused' \subseteq Objects
  <2>1. CASE RunLocally(c) \/ PrepareFails(c) \/ CleanupDone(c) \/ BecomesReady(c)
               \/ ReadinessFails(c) \/ UndoDone(c)
    BY <2>1, TypeIs DEF RunLocally, PrepareFails, CleanupDone, BecomesReady,
         ReadinessFails, UndoDone, history
  <2>2. CASE Prepare(c)
    <3>1. PICK S \in SUBSET Objects : Excuse(S)
      BY <2>2 DEF Prepare, Present
    <3> QED
      BY <2>2, <3>1, ExcuseTypes, TypeIs DEF Prepare
  <2>3. CASE DeleteNext(c)
    <3>1. PICK o \in Objects : DeleteObject(o)
      BY <1>1, <2>3 DEF DeleteNext, Last
    <3> QED
      BY <3>1, DeleteTypes
  <2>4. CASE ApplyObject(c)
    <3>1. PICK o \in Objects : ns' = [ns EXCEPT ![o] = run[c].recipe]
      BY <1>1, <2>4 DEF ApplyObject, First
    <3> QED
      BY <1>1, <2>4, <3>1, TypeIs DEF ApplyObject, history
  <2>5. CASE ApplyFails(c)
    <3>1. PICK o \in Objects :
            \/ UNCHANGED <<ns, excused>>
            \/ ns' = [ns EXCEPT ![o] = run[c].recipe] /\ Excuse({o})
      BY <1>1, <2>5 DEF ApplyFails, First
    <3>2. Excuse({o}) => excused' \subseteq Objects
      BY ExcuseTypes
    <3> QED
      BY <1>1, <3>1, <3>2, TypeIs
  <2>6. CASE UndoObject(c)
    <3>1. run[c].applied[Len(run[c].applied)] \in Objects
      BY <1>1, <2>6, UndoneIsSeq DEF UndoObject
    <3>2. CASE UNCHANGED <<ns, excused>>
      BY <3>2, TypeIs
    <3>3. CASE DeleteObject(run[c].applied[Len(run[c].applied)])
      BY <3>1, <3>3, DeleteTypes
    <3> QED
      BY <2>6, <3>2, <3>3 DEF UndoObject
  <2> QED
    BY <2>1, <2>2, <2>3, <2>4, <2>5, <2>6 DEF Works
<1> QED
  BY <1>2, WorkGoesOn, TypeIs, TypeIsNext DEF Moves

-----------------------------------------------------------------------------
(* The history *)

LEMMA RowsAre ==
  ASSUME TypeOK
  PROVE  /\ DOMAIN deploys = 1..Len(deploys) /\ Len(deploys) \in Nat
         /\ \A i \in DOMAIN deploys : i \in 1..MaxDeploys /\ deploys[i] \in Rows
         /\ Successes \subseteq DOMAIN deploys /\ Successes \subseteq Nat
<1>1. /\ DOMAIN deploys = 1..Len(deploys) /\ Len(deploys) \in Nat
      /\ \A i \in DOMAIN deploys : deploys[i] \in Rows
  BY TypeIs
<1>2. \A i \in DOMAIN deploys : i \in 1..MaxDeploys
  BY <1>1, TypeIs, DeploysAssumption
<1> QED
  BY <1>1, <1>2 DEF Successes

(* A bounded set of naturals has a greatest element. *)
LEMMA GreatestExists ==
    ASSUME NEW S, S \subseteq Nat, S # {}, NEW n \in Nat, \A x \in S : x <= n
    PROVE  \E m \in S : \A x \in S : x <= m
<1> DEFINE Gaps == {n - x : x \in S}
<1>1. Gaps \subseteq Nat /\ Gaps # {}
  <2>1. \A x \in S : x \in Nat /\ n - x \in Nat
    OBVIOUS
  <2>2. PICK s \in S : TRUE
    OBVIOUS
  <2> QED
    BY <2>1, <2>2
<1>2. PICK g \in Gaps : \A h \in Gaps : ~(<<h, g>> \in OpToRel(<, Nat))
  BY <1>1, WFMin, NatLessThanWellFounded, Zenon
<1>3. \A h \in Gaps : ~(h < g)
  BY <1>1, <1>2 DEF OpToRel
<1>4. PICK m \in S : g = n - m
  OBVIOUS
<1>5. \A x \in S : ~(n - x < n - m)
  BY <1>3, <1>4
<1> QED
  BY <1>4, <1>5

LEMMA NewestIs ==
  ASSUME TypeOK, NEW S \in SUBSET (DOMAIN deploys), S # {}
  PROVE  Newest(S) \in S /\ \A j \in S : j <= Newest(S)
<1>1. S \subseteq Nat /\ \A j \in S : j <= Len(deploys)
  BY RowsAre
<1>2. \E i \in S : \A j \in S : j <= i
  BY <1>1, RowsAre, GreatestExists
<1> QED
  BY <1>2 DEF Newest

LEMMA LatestIs ==
  ASSUME TypeOK, Successes # {}
  PROVE  /\ LatestSuccessfulDeploy \in Successes
         /\ \A j \in Successes : j <= LatestSuccessfulDeploy
  BY NewestIs, RowsAre DEF LatestSuccessfulDeploy

LEMMA LatestIsNext ==
  ASSUME TypeOK', Successes' # {}
  PROVE  /\ (LatestSuccessfulDeploy)' \in Successes'
         /\ \A j \in Successes' : j <= (LatestSuccessfulDeploy)'
<1>1. /\ DOMAIN deploys' = 1..Len(deploys') /\ Len(deploys') \in Nat
      /\ Successes' \subseteq DOMAIN deploys'
  BY TypeIsNext DEF Successes
<1>2. \E i \in Successes' : \A j \in Successes' : j <= i
  <2>1. Successes' \subseteq Nat /\ \A j \in Successes' : j <= Len(deploys')
    BY <1>1
  <2> QED
    BY <1>1, <2>1, GreatestExists
<1> QED
  BY <1>2 DEF LatestSuccessfulDeploy, Newest

LEMMA PreviousIs ==
  ASSUME TypeOK, Cardinality(Successes) >= 2
  PROVE  /\ Successes # {}
         /\ PreviousSuccessfulDeploy \in Successes
         /\ PreviousSuccessfulDeploy < LatestSuccessfulDeploy
<1>1. IsFiniteSet(Successes)
  <2>1. IsFiniteSet(1..Len(deploys))
    BY RowsAre, FS_Interval
  <2> QED
    BY <2>1, RowsAre, FS_Subset
<1>2. Successes # {}
  BY FS_EmptySet
<1>3. Successes \ {LatestSuccessfulDeploy} # {}
  <2>1. LatestSuccessfulDeploy \in Successes
    BY <1>2, LatestIs
  <2>2. Cardinality(Successes \ {LatestSuccessfulDeploy}) = Cardinality(Successes) - 1
    BY <1>1, <2>1, FS_RemoveElement
  <2>3. Cardinality(Successes) \in Nat
    BY <1>1, FS_CardinalityType
  <2> QED
    BY <2>2, <2>3, FS_EmptySet
<1>4. /\ PreviousSuccessfulDeploy \in Successes \ {LatestSuccessfulDeploy}
  <2>1. Successes \ {LatestSuccessfulDeploy} \in SUBSET (DOMAIN deploys)
    BY RowsAre
  <2> QED
    BY <1>3, <2>1, NewestIs DEF PreviousSuccessfulDeploy
<1> QED
  BY <1>2, <1>4, LatestIs, RowsAre

(* What a step does to the table leaves every row's recipe and target, and
   every success, as they are. *)
Grows ==
    \A i \in DOMAIN deploys :
        /\ i \in DOMAIN deploys'
        /\ deploys'[i].recipe = deploys[i].recipe /\ deploys'[i].target = deploys[i].target
        /\ deploys[i].status = "success" => deploys'[i].status = "success"

LEMMA SuccessesGrow ==
  ASSUME Grows
  PROVE  /\ Successes \subseteq Successes'
         /\ \A i \in Successes : deploys'[i].recipe = deploys[i].recipe
  BY DEF Grows, Successes

(* A step that moves one call, and changes at most the row r, which is no
   other's, disturbs no other call. *)
LEMMA OthersStay ==
  ASSUME HistoryInv, NEW c \in Callers, Moves(c), Grows, NEW r,
         \A i \in DOMAIN deploys : i # r => deploys'[i] = deploys[i],
         \A d \in Callers : d # c /\ run[d].pc \in Begun => run[d].id # r,
         run'[c].pc \in Begun =>
            /\ RowOf(c)'
            /\ \A d \in Callers : d # c /\ run[d].pc \in Begun => run[d].id # run'[c].id,
         Shape(c)',
         run'[c].rollback => RollbackKnows(c)'
  PROVE  RowsOfCalls' /\ OwnRows' /\ Shapes' /\ RollbacksKnow'
<1> USE DEF HistoryInv, Moves
<1>1. ASSUME NEW d \in Callers, d # c
      PROVE  /\ run'[d].pc \in Begun => RowOf(d)'
             /\ Shape(d)'
             /\ run'[d].rollback => RollbackKnows(d)'
  <2>1. run'[d] = run[d]
    BY <1>1
  <2>2. run[d].pc \in Begun => RowOf(d)'
    <3>1. ASSUME run[d].pc \in Begun
          PROVE  deploys'[run[d].id] = deploys[run[d].id] /\ RowOf(d)
      BY <1>1, <3>1 DEF RowsOfCalls, RowOf
    <3> QED
      BY <2>1, <3>1 DEF RowOf, Grows
  <2>3. Shape(d)'
    BY <2>1 DEF Shapes, Shape
  <2>4. ASSUME run[d].rollback
        PROVE  RollbackKnows(d)'
    <3>1. RollbackKnows(d)
      BY <2>4 DEF RollbacksKnow
    <3>2. ASSUME NEW n, Repeats(d, n)
          PROVE  Repeats(d, n)'
      BY <2>1, <3>2, SuccessesGrow DEF Repeats
    <3> QED
      BY <2>1, <3>1, <3>2, SuccessesGrow DEF RollbackKnows
  <2> QED
    BY <2>1, <2>2, <2>3, <2>4
<1>2. RowsOfCalls' /\ Shapes' /\ RollbacksKnow'
  BY <1>1 DEF RowsOfCalls, Shapes, RollbacksKnow
<1>3. OwnRows'
  BY DEF OwnRows
<1> QED
  BY <1>2, <1>3

(* A row that refers to no other than before goes back as before. *)
LEMMA GoesBackStill ==
  ASSUME HistoryInv, Grows,
         \A i \in DOMAIN deploys' :
            deploys'[i].rollbackOf # 0 =>
               i \in DOMAIN deploys /\ deploys'[i].rollbackOf = deploys[i].rollbackOf
  PROVE  RollbackGoesBack'
<1> SUFFICES ASSUME NEW i \in DOMAIN deploys', deploys'[i].target = "kubernetes",
                    deploys'[i].rollbackOf # 0
             PROVE  LET replaced == deploys'[i].rollbackOf
                    IN  /\ replaced < i
                        /\ deploys'[replaced].status = "success"
                        /\ \E older \in Successes' :
                              older < replaced /\ deploys'[older].recipe = deploys'[i].recipe
  BY DEF RollbackGoesBack
<1>1. i \in DOMAIN deploys /\ deploys'[i].rollbackOf = deploys[i].rollbackOf
  OBVIOUS
<1>2. deploys[i].target = "kubernetes" /\ deploys'[i].recipe = deploys[i].recipe
  BY <1>1 DEF Grows
<1> DEFINE replaced == deploys[i].rollbackOf
<1>3. /\ replaced < i
      /\ deploys[replaced].status = "success"
      /\ \E older \in Successes : older < replaced /\ deploys[older].recipe = deploys[i].recipe
  BY <1>1, <1>2 DEF HistoryInv, RollbackGoesBack
<1>4. replaced \in DOMAIN deploys
  <2>1. deploys[i] \in Rows
    BY <1>1, RowsAre DEF HistoryInv
  <2> QED
    BY <1>1, <1>3, <2>1, RowsAre DEF HistoryInv, Rows
<1> HIDE DEF replaced
<1>5. deploys'[replaced].status = "success"
  BY <1>3, <1>4 DEF Grows
<1>6. \E older \in Successes' : older < replaced /\ deploys'[older].recipe = deploys'[i].recipe
  BY <1>2, <1>3, SuccessesGrow
<1> QED
  BY <1>1, <1>3, <1>5, <1>6 DEF replaced

-----------------------------------------------------------------------------
(* Each step and the history *)

LEMMA WorkHistory ==
  ASSUME HistoryInv, NEW c \in Callers, Works(c)
  PROVE  HistoryInv'
<1>1. TypeOK /\ TypeOK'
  BY WorkTypes DEF HistoryInv
<1>2. Moves(c) /\ Keeps(c) /\ Went(c) /\ UNCHANGED deploys
  BY WorkGoesOn DEF HistoryInv
<1>3. /\ run'[c].pc \in Begun <=> run[c].pc \in Begun
      /\ run[c].pc \notin {"reference", "chosen", "starting"}
      /\ run'[c].pc \notin {"reference", "chosen", "starting"}
  BY <1>2 DEF Went, Where, Begun
<1>4. Grows
  BY <1>2 DEF Grows
<1>5. run'[c].pc \in Begun => RowOf(c)'
  BY <1>2, <1>3 DEF HistoryInv, RowsOfCalls, RowOf, Keeps
<1>6. \A d \in Callers :
        d # c /\ run[d].pc \in Begun /\ run[c].pc \in Begun => run[d].id # run[c].id
  BY DEF HistoryInv, OwnRows
<1>7. Shape(c)'
  <2>1. Shape(c)
    BY DEF HistoryInv, Shapes
  <2>2. run[c].pc \in {"local", "down"} => run'[c].pc \in {"record", "down"}
    BY <1>2 DEF Went, Where
  <2>3. run'[c].pc \in {"prepare", "clean", "apply", "undo"} =>
           run[c].pc \in {"prepare", "clean", "apply", "undo"}
    BY <1>2 DEF Went, Where
  <2>4. run'[c].pc # "local"
    BY <1>2 DEF Went, Where
  <2> QED
    BY <1>2, <1>3, <2>1, <2>2, <2>3, <2>4 DEF Shape, Keeps
<1>8. run'[c].rollback => RollbackKnows(c)'
  <2>1. run[c].rollback => RollbackKnows(c)
    BY DEF HistoryInv, RollbacksKnow
  <2> QED
    BY <1>2, <1>3, <2>1 DEF RollbackKnows, Repeats, Successes, Keeps
<1>9. \E r : \A d \in Callers : d # c /\ run[d].pc \in Begun => run[d].id # r
  <2>1. \A d \in Callers : run[d].id # MaxDeploys + 1
    BY <1>1, CallIs, DeploysAssumption DEF Calls
  <2> QED
    BY <2>1
<1>10. RowsOfCalls' /\ OwnRows' /\ Shapes' /\ RollbacksKnow'
  BY <1>2, <1>3, <1>4, <1>5, <1>6, <1>7, <1>8, <1>9, OthersStay DEF Keeps
<1>11. RollbackGoesBack'
  BY <1>2, <1>4, GoesBackStill
<1> QED
  BY <1>1, <1>10, <1>11 DEF HistoryInv

(* A step after which the call has no row, and that leaves the table alone. *)
LEMMA IdleHistory ==
  ASSUME HistoryInv, NEW c \in Callers, Moves(c), UNCHANGED deploys, TypeOK',
         run'[c].pc \notin Begun,
         Shape(c)',
         run'[c].rollback => RollbackKnows(c)'
  PROVE  HistoryInv'
<1>1. Grows
  BY DEF Grows
<1>2. \E r : \A d \in Callers : d # c /\ run[d].pc \in Begun => run[d].id # r
  <2>1. \A d \in Callers : run[d].id # MaxDeploys + 1
    BY CallIs, DeploysAssumption DEF HistoryInv, Calls
  <2> QED
    BY <2>1
<1>3. RowsOfCalls' /\ OwnRows' /\ Shapes' /\ RollbacksKnow'
  BY <1>1, <1>2, OthersStay
<1>4. RollbackGoesBack'
  BY <1>1, GoesBackStill
<1> QED
  BY <1>3, <1>4 DEF HistoryInv

LEMMA EnterTypes ==
  ASSUME TypeOK, NEW c \in Callers, EnterCluster(c)
  PROVE  /\ alone' \subseteq Callers
         /\ existed' \in [Callers -> SUBSET Objects]
         /\ excused' \subseteq Objects
<1>1. Present \in SUBSET Objects
  BY DEF Present
<1>2. existed' \in [Callers -> SUBSET Objects]
  BY <1>1, TypeIs DEF EnterCluster
<1>3. alone' \subseteq Callers
  BY DEF EnterCluster
<1>4. excused' \subseteq Objects
  BY ExcuseTypes, TypeIs DEF EnterCluster
<1> QED
  BY <1>2, <1>3, <1>4

LEMMA LeaveTypes ==
  ASSUME TypeOK, NEW c \in Callers, LeaveCluster(c)
  PROVE  /\ alone' \subseteq Callers
         /\ existed' \in [Callers -> SUBSET Objects]
  BY TypeIs DEF LeaveCluster

(* The row that Deploy inserts, and the call it belongs to. *)
Inserted(call) ==
    [recipe |-> call.recipe, target |-> call.target, status |-> "in_progress", rollbackOf |-> 0]

LEMMA BeginsRow ==
  ASSUME TypeOK, NEW c \in Callers, NEW call \in Calls, call.recipe \in Recipes, Begin(c, call)
  PROVE  /\ Moves(c)
         /\ run'[c].pc = IF call.target = "local" THEN "local" ELSE "prepare"
         /\ run'[c].id = Len(deploys) + 1
         /\ run'[c].recipe = call.recipe /\ run'[c].target = call.target
         /\ run'[c].rollback = call.rollback /\ run'[c].current = call.current
         /\ run'[c].outcome = call.outcome /\ run'[c].applied = call.applied
         /\ deploys' = Append(deploys, Inserted(call))
         /\ deploys' \in Seq(Rows) /\ Len(deploys') <= MaxDeploys
         /\ Len(deploys) + 1 \in DOMAIN deploys'
         /\ deploys'[Len(deploys) + 1] = Inserted(call)
         /\ \A i \in DOMAIN deploys : i \in DOMAIN deploys' /\ deploys'[i] = deploys[i]
         /\ \A i \in DOMAIN deploys' : i \in DOMAIN deploys \/ i = Len(deploys) + 1
<1> DEFINE p == IF call.target = "local" THEN "local" ELSE "prepare"
           n == Len(deploys) + 1
           k == [call EXCEPT !.pc = p, !.id = n]
<1>1. deploys \in Seq(Rows) /\ Len(deploys) \in Nat /\ Len(deploys) < MaxDeploys
  BY TypeIs DEF Begin
<1>2. n \in 0..MaxDeploys
  BY <1>1, DeploysAssumption
<1>3. p \in Steps
  BY DEF Steps
<1>4. run' = [run EXCEPT ![c] = k]
  BY DEF Begin
<1>5. k \in Calls /\ k.pc = p /\ k.id = n /\ k.recipe = call.recipe /\ k.target = call.target
      /\ k.rollback = call.rollback /\ k.current = call.current
      /\ k.outcome = call.outcome /\ k.applied = call.applied
  <2> HIDE DEF p, n
  <2> QED
    BY <1>2, <1>3 DEF Calls
<1>6. Moves(c) /\ run'[c] = k
  <2> HIDE DEF k
  <2> QED
    BY <1>4, <1>5, CallSet
<1>7. Inserted(call) \in Rows
  <2>1. 0 \in 0..MaxDeploys
    BY DeploysAssumption
  <2> QED
    BY <2>1 DEF Inserted, Rows, Calls, Statuses
<1>8. deploys' = Append(deploys, Inserted(call))
  BY DEF Begin, CreateDeploy, Inserted
<1>9. /\ deploys' \in Seq(Rows) /\ Len(deploys') <= MaxDeploys
      /\ Len(deploys) + 1 \in DOMAIN deploys'
      /\ deploys'[Len(deploys) + 1] = Inserted(call)
      /\ \A i \in DOMAIN deploys : i \in DOMAIN deploys' /\ deploys'[i] = deploys[i]
      /\ \A i \in DOMAIN deploys' : i \in DOMAIN deploys \/ i = Len(deploys) + 1
  BY <1>1, <1>7, <1>8, DeploysAssumption
<1> HIDE DEF k
<1> QED
  BY <1>5, <1>6, <1>8, <1>9

LEMMA BeginHistory ==
  ASSUME HistoryInv, NEW c \in Callers, NEW call \in Calls, call.recipe \in Recipes, Begin(c, call),
         call.rollback =>
            /\ Successes # {}
            /\ call.target = "kubernetes" =>
                  /\ call.current \in Successes
                  /\ \E older \in Successes :
                        older < call.current /\ deploys[older].recipe = call.recipe
  PROVE  HistoryInv'
<1> DEFINE n == Len(deploys) + 1
<1>1. TypeOK /\ call.target \in {"kubernetes", "local"}
  BY DEF HistoryInv, Calls
<1>2. /\ Moves(c)
      /\ run'[c].pc = IF call.target = "local" THEN "local" ELSE "prepare"
      /\ run'[c].id = n
      /\ run'[c].recipe = call.recipe /\ run'[c].target = call.target
      /\ run'[c].rollback = call.rollback /\ run'[c].current = call.current
      /\ deploys' \in Seq(Rows) /\ Len(deploys') <= MaxDeploys
      /\ n \in DOMAIN deploys'
      /\ deploys'[n] = Inserted(call)
      /\ \A i \in DOMAIN deploys : i \in DOMAIN deploys' /\ deploys'[i] = deploys[i]
      /\ \A i \in DOMAIN deploys' : i \in DOMAIN deploys \/ i = n
  BY <1>1, BeginsRow
<1>3. TypeOK'
  BY <1>1, <1>2, TypeIs, TypeIsNext, EnterTypes DEF Begin, history, Moves
<1>4. n \notin DOMAIN deploys /\ \A i \in DOMAIN deploys : i < n
  BY <1>1, RowsAre
<1> HIDE DEF n
<1>5. Grows
  BY <1>2 DEF Grows
<1>6. \A d \in Callers : run[d].pc \in Begun => run[d].id # n
  BY <1>4 DEF HistoryInv, RowsOfCalls, RowOf
<1>7. RowOf(c)'
  BY <1>2 DEF RowOf, Inserted
<1>8. Shape(c)'
  BY <1>1, <1>2 DEF Shape, Begun
<1>9. ASSUME run'[c].rollback
      PROVE  RollbackKnows(c)'
  <2>1. Successes' # {}
    BY <1>2, <1>5, <1>9, SuccessesGrow
  <2>2. run'[c].pc # "chosen"
    BY <1>2
  <2>3. ASSUME call.target = "kubernetes"
        PROVE  Repeats(c, call.current)' /\ call.current < n
    BY <1>1, <1>2, <1>4, <1>5, <1>9, <2>3, SuccessesGrow, RowsAre DEF Repeats
  <2> QED
    BY <1>2, <2>1, <2>2, <2>3 DEF RollbackKnows, Repeats
<1>10. RowsOfCalls' /\ OwnRows' /\ Shapes' /\ RollbacksKnow'
  BY <1>2, <1>5, <1>6, <1>7, <1>8, <1>9, OthersStay
<1>11. RollbackGoesBack'
  BY <1>2, <1>5, GoesBackStill DEF Inserted
<1> QED
  BY <1>3, <1>10, <1>11 DEF HistoryInv

LEMMA DeployHistory ==
  ASSUME HistoryInv, NEW c \in Callers, Deploy(c)
  PROVE  HistoryInv' \/ UNCHANGED vars
<1>1. ASSUME NEW r \in Recipes, NEW t \in {"kubernetes", "local"},
             Begin(c, [Idle EXCEPT !.recipe = r, !.target = t])
      PROVE  HistoryInv'
  <2> DEFINE call == [Idle EXCEPT !.recipe = r, !.target = t]
  <2>1. call \in Calls /\ call.recipe = r /\ ~call.rollback
    BY IdleIsCall DEF Calls, Idle
  <2> HIDE DEF call
  <2> QED
    BY <1>1, <2>1, BeginHistory DEF call
<1> QED
  BY <1>1 DEF Deploy

LEMMA ReturnHistory ==
  ASSUME HistoryInv, NEW c \in Callers, Returns(c), UNCHANGED deploys, TypeOK'
  PROVE  HistoryInv'
<1>1. Moves(c) /\ run'[c].pc = "idle" /\ ~run'[c].rollback
  BY CallReturns DEF HistoryInv
<1> QED
  BY <1>1, IdleHistory DEF Begun, Shape

LEMMA ReadsPreviousHistory ==
  ASSUME HistoryInv, NEW c \in Callers, RollbackReadsPrevious(c)
  PROVE  HistoryInv'
<1>1. TypeOK /\ Cardinality(Successes) >= 2
  BY DEF HistoryInv, RollbackReadsPrevious
<1> DEFINE r == deploys[PreviousSuccessfulDeploy].recipe
<1>2. r \in Recipes
  BY <1>1, PreviousIs, RowsAre DEF Rows
<1>3. PICK t \in {"kubernetes", "local"} :
        run' = [run EXCEPT ![c] = [Idle EXCEPT !.pc = IF t = "local" THEN "starting" ELSE "chosen",
                                               !.recipe = r, !.target = t, !.rollback = TRUE]]
  BY DEF RollbackReadsPrevious
<1> DEFINE p == IF t = "local" THEN "starting" ELSE "chosen"
           k == [Idle EXCEPT !.pc = p, !.recipe = r, !.target = t, !.rollback = TRUE]
<1>4. k \in Calls /\ k.pc = p /\ k.recipe = r /\ k.target = t /\ k.rollback
  <2>1. p \in Steps
    BY DEF Steps
  <2> HIDE DEF r, p
  <2> QED
    BY <1>2, <2>1, IdleIsCall DEF Calls, Idle
<1> HIDE DEF k
<1>5. Moves(c) /\ run'[c] = k
  BY <1>1, <1>3, <1>4, CallSet DEF k
<1>6. TypeOK'
  BY <1>1, <1>5, TypeIs, TypeIsNext DEF RollbackReadsPrevious, history, Moves
<1>7. run'[c].pc \notin Begun
  BY <1>4, <1>5 DEF Begun
<1>8. Shape(c)'
  BY <1>2, <1>4, <1>5 DEF Shape, Begun
<1>9. UNCHANGED deploys
  BY DEF RollbackReadsPrevious
<1>10. RollbackKnows(c)'
  <2>1. Successes # {} /\ Successes' = Successes
    BY <1>1, <1>9, PreviousIs DEF Successes
  <2>2. Repeats(c, LatestSuccessfulDeploy)'
    <3>1. /\ LatestSuccessfulDeploy \in Successes
          /\ PreviousSuccessfulDeploy \in Successes
          /\ PreviousSuccessfulDeploy < LatestSuccessfulDeploy
      BY <1>1, LatestIs, PreviousIs
    <3>2. (LatestSuccessfulDeploy)' = LatestSuccessfulDeploy
      BY <1>9 DEF LatestSuccessfulDeploy, Successes
    <3> QED
      BY <1>4, <1>5, <1>9, <2>1, <3>1, <3>2 DEF Repeats
  <2>3. (LatestSuccessfulDeploy)' \in Successes'
    BY <2>2 DEF Repeats
  <2> QED
    BY <1>4, <1>5, <1>7, <2>1, <2>2, <2>3 DEF RollbackKnows
<1> QED
  BY <1>5, <1>6, <1>7, <1>8, <1>9, <1>10, IdleHistory

LEMMA ReadsCurrentHistory ==
  ASSUME HistoryInv, NEW c \in Callers, RollbackReadsCurrent(c)
  PROVE  HistoryInv'
<1>1. TypeOK /\ Shape(c) /\ run[c] \in Calls
  BY CallIs DEF HistoryInv, Shapes
<1>2. run[c].pc = "chosen" /\ run[c].rollback /\ RollbackKnows(c)
  BY <1>1 DEF RollbackReadsCurrent, Shape, HistoryInv, RollbacksKnow
<1> PICK i : i = LatestSuccessfulDeploy
  OBVIOUS
<1> DEFINE k == [run[c] EXCEPT !.pc = "starting", !.current = i]
<1>3. i \in Successes /\ i \in 0..MaxDeploys /\ \A j \in Successes : j <= i
  BY <1>1, <1>2, LatestIs, RowsAre DEF RollbackKnows
<1>4. /\ k \in Calls /\ k.pc = "starting" /\ k.current = i
      /\ k.recipe = run[c].recipe /\ k.target = run[c].target /\ k.rollback = run[c].rollback
  BY <1>1, <1>3 DEF Calls, Steps
<1>5. run' = [run EXCEPT ![c] = k]
  BY <1>1, TypeIs DEF RollbackReadsCurrent
<1> HIDE DEF k
<1>6. Moves(c) /\ run'[c] = k
  BY <1>1, <1>4, <1>5, CallSet
<1>7. TypeOK'
  BY <1>1, <1>6, TypeIs, TypeIsNext DEF RollbackReadsCurrent, history, Moves
<1>8. Shape(c)'
  BY <1>1, <1>2, <1>4, <1>6 DEF Shape, Begun
<1>9. UNCHANGED deploys
  BY DEF RollbackReadsCurrent
<1>10. RollbackKnows(c)'
  <2>1. Successes # {} /\ Successes' = Successes
    BY <1>2, <1>9 DEF Successes, RollbackKnows
  <2>2. PICK newer \in Successes : Repeats(c, newer)
    BY <1>2 DEF RollbackKnows
  <2>3. PICK older \in Successes : older < newer /\ deploys[older].recipe = run[c].recipe
    BY <2>2 DEF Repeats
  <2>4. older < i
    BY <1>1, <1>3, <2>3, RowsAre
  <2>5. Repeats(c, i)'
    BY <1>3, <1>4, <1>6, <1>9, <2>1, <2>3, <2>4 DEF Repeats
  <2> QED
    BY <1>4, <1>6, <2>1, <2>5 DEF RollbackKnows, Repeats, Begun
<1> QED
  BY <1>4, <1>6, <1>7, <1>8, <1>9, <1>10, IdleHistory DEF Begun

LEMMA RollbackDeploysHistory ==
  ASSUME HistoryInv, NEW c \in Callers, RollbackDeploys(c)
  PROVE  HistoryInv'
<1>1. TypeOK /\ run[c] \in Calls /\ run[c].pc = "starting"
  BY CallIs DEF HistoryInv, RollbackDeploys
<1>2. CASE Begin(c, run[c])
  <2>1. run[c].recipe \in Recipes /\ run[c].rollback
    BY <1>1 DEF HistoryInv, Shapes, Shape
  <2>2. RollbackKnows(c)
    BY <2>1 DEF HistoryInv, RollbacksKnow
  <2> QED
    BY <1>1, <1>2, <2>1, <2>2, BeginHistory DEF RollbackKnows, Repeats
<1>3. CASE Returns(c) /\ UNCHANGED <<ns, deploys, history>>
  <2>1. TypeOK'
    BY <1>1, <1>3, CallReturns, TypeIs, TypeIsNext DEF history, Moves
  <2> QED
    BY <1>3, <2>1, ReturnHistory
<1> QED
  BY <1>2, <1>3 DEF RollbackDeploys

(* Completing a call changes the status of its own row, or nothing. *)
LEMMA RowCompleted ==
  ASSUME HistoryInv, NEW c \in Callers, CompleteDeploy(c)
  PROVE  /\ run[c].id \in DOMAIN deploys /\ deploys[run[c].id].status = "in_progress"
         /\ Grows
         /\ deploys' \in Seq(Rows) /\ Len(deploys') = Len(deploys)
         /\ DOMAIN deploys' = DOMAIN deploys
         /\ \A i \in DOMAIN deploys : i # run[c].id => deploys'[i] = deploys[i]
         /\ \A i \in DOMAIN deploys : deploys'[i].rollbackOf = deploys[i].rollbackOf
         /\ UNCHANGED deploys \/ deploys'[run[c].id].status = run[c].outcome
<1> PICK id : id = run[c].id
  OBVIOUS
<1>1. TypeOK /\ run[c] \in Calls
  BY CallIs DEF HistoryInv
<1>2. id \in DOMAIN deploys /\ deploys[id].status = "in_progress"
  BY DEF HistoryInv, RowsOfCalls, RowOf, Begun, CompleteDeploy
<1>3. deploys \in Seq(Rows) /\ deploys[id] \in Rows
  BY <1>1, <1>2, RowsAre, TypeIs
<1> DEFINE row == [deploys[id] EXCEPT !.status = run[c].outcome]
<1>4. /\ row \in Rows /\ row.recipe = deploys[id].recipe /\ row.target = deploys[id].target
      /\ row.status = run[c].outcome /\ row.rollbackOf = deploys[id].rollbackOf
  BY <1>1, <1>3 DEF Calls, Rows
<1>5. UNCHANGED deploys \/ deploys' = [deploys EXCEPT ![id] = row]
  BY DEF CompleteDeploy
<1> HIDE DEF row
<1>6. CASE UNCHANGED deploys
  BY <1>2, <1>3, <1>6 DEF Grows
<1>7. CASE deploys' = [deploys EXCEPT ![id] = row]
  <2>1. /\ deploys' \in Seq(Rows) /\ Len(deploys') = Len(deploys)
        /\ DOMAIN deploys' = DOMAIN deploys
        /\ deploys'[id] = row
        /\ \A i \in DOMAIN deploys : i # id => deploys'[i] = deploys[i]
    BY <1>2, <1>3, <1>4, <1>7
  <2> QED
    BY <1>2, <1>4, <1>7, <2>1 DEF Grows, row
<1> QED
  BY <1>5, <1>6, <1>7

(* A call that completes its row either ends or notes what it replaced. *)
LEMMA CallCompleted ==
  ASSUME TypeOK, NEW c \in Callers, CompleteDeploy(c)
  PROVE  /\ Moves(c)
         /\ \/ run'[c] = Idle
            \/ Keeps(c) /\ run[c].rollback /\ run[c].outcome = "success" /\ run'[c].pc = "reference"
<1>1. CASE Returns(c)
  BY <1>1, CallReturns
<1>2. CASE run' = [run EXCEPT ![c].pc = "reference"]
  <2>1. run[c] \in Calls /\ "reference" \in Steps
    BY CallIs DEF Steps
  <2>2. Edits(c, "reference", run[c].outcome, run[c].todo, run[c].applied)
    BY <1>2, <2>1, TypeIs DEF Calls, Edits
  <2>3. Moves(c) /\ Keeps(c) /\ run'[c].pc = "reference"
    <3>1. /\ run[c].outcome \in Statuses /\ run[c].todo \in SUBSET Objects
          /\ run[c].applied \in Seq(Objects)
      BY <2>1 DEF Calls
    <3> QED
      BY <2>1, <2>2, <3>1, CallGoesOn
  <2> QED
    BY <1>2, <2>3, <1>1 DEF CompleteDeploy
<1> QED
  BY <1>1, <1>2 DEF CompleteDeploy

LEMMA CompleteTypes ==
  ASSUME HistoryInv, NEW c \in Callers, CompleteDeploy(c)
  PROVE  TypeOK'
<1>1. excused' \subseteq Objects
  <2>1. \A b \in BOOLEAN : Unlisted(c, b) \in SUBSET Objects
    BY DEF Unlisted, Present, ObjectsOf
  <2> QED
    BY <2>1, ExcuseTypes DEF CompleteDeploy, HistoryInv
<1>2. Len(deploys') <= MaxDeploys /\ deploys' \in Seq(Rows)
  BY RowCompleted, TypeIs DEF HistoryInv
<1>3. alone' \subseteq Callers /\ existed' \in [Callers -> SUBSET Objects]
  BY LeaveTypes DEF CompleteDeploy, HistoryInv
<1>4. run' \in [Callers -> Calls]
  BY CallCompleted DEF HistoryInv, Moves
<1>5. ns' \in [Objects -> Recipes \cup {Absent}]
  BY TypeIs DEF CompleteDeploy, HistoryInv
<1> QED
  BY <1>1, <1>2, <1>3, <1>4, <1>5, TypeIsNext

LEMMA CompleteHistory ==
  ASSUME HistoryInv, NEW c \in Callers, CompleteDeploy(c)
  PROVE  HistoryInv'
<1> PICK id : id = run[c].id
  OBVIOUS
<1>1. run[c].pc = "record" /\ run[c].pc \in Begun
  BY DEF CompleteDeploy, Begun
<1>2. /\ id \in DOMAIN deploys /\ Grows
      /\ DOMAIN deploys' = DOMAIN deploys
      /\ \A i \in DOMAIN deploys : i # id => deploys'[i] = deploys[i]
      /\ \A i \in DOMAIN deploys : deploys'[i].rollbackOf = deploys[i].rollbackOf
  BY RowCompleted
<1>3. RowOf(c)
  BY <1>1 DEF HistoryInv, RowsOfCalls
<1>4. \A d \in Callers : d # c /\ run[d].pc \in Begun => run[d].id # id
  BY <1>1 DEF HistoryInv, OwnRows
<1>5. RollbackGoesBack'
  BY <1>2, GoesBackStill
<1>6. Moves(c)
  BY CallCompleted DEF HistoryInv
<1>7. CASE run'[c] = Idle
  <2>1. run'[c].pc = "idle" /\ ~run'[c].rollback
    BY <1>7 DEF Idle
  <2>2. Shape(c)' /\ run'[c].pc \notin Begun
    BY <2>1 DEF Shape, Begun
  <2> QED
    BY <1>2, <1>4, <1>5, <1>6, <2>1, <2>2, OthersStay, CompleteTypes DEF HistoryInv
<1>8. CASE Keeps(c) /\ run[c].rollback /\ run'[c].pc = "reference"
  <2>1. run'[c].id = id
    BY <1>8 DEF Keeps
  <2>2. RowOf(c)'
    BY <1>2, <1>3, <1>8 DEF RowOf, Grows, Keeps
  <2>3. Shape(c)'
    BY <1>1, <1>8 DEF HistoryInv, Shapes, Shape, Keeps, Begun
  <2>4. RollbackKnows(c)'
    <3>1. RollbackKnows(c)
      BY <1>8 DEF HistoryInv, RollbacksKnow
    <3>2. ASSUME NEW n, Repeats(c, n)
          PROVE  Repeats(c, n)'
      BY <1>2, <1>8, <3>2, SuccessesGrow DEF Repeats, Keeps
    <3> QED
      BY <1>1, <1>2, <1>8, <3>1, <3>2, SuccessesGrow DEF RollbackKnows, Keeps
  <2> QED
    BY <1>2, <1>4, <1>5, <1>6, <2>1, <2>2, <2>3, <2>4, OthersStay, CompleteTypes DEF HistoryInv
<1> QED
  BY <1>7, <1>8, CallCompleted DEF HistoryInv

(* The reference to the deploy that a rollback replaced is noted in its row. *)
LEMMA RowReferred ==
  ASSUME HistoryInv, NEW c \in Callers, SetRollbackOf(c)
  PROVE  /\ run[c].id \in DOMAIN deploys /\ deploys[run[c].id].rollbackOf = 0
         /\ Grows
         /\ deploys' \in Seq(Rows) /\ Len(deploys') = Len(deploys)
         /\ DOMAIN deploys' = DOMAIN deploys
         /\ \A i \in DOMAIN deploys : i # run[c].id => deploys'[i] = deploys[i]
         /\ \A i \in DOMAIN deploys : deploys'[i].status = deploys[i].status
         /\ UNCHANGED deploys \/ deploys'[run[c].id].rollbackOf = Replaced(c)
<1> PICK id : id = run[c].id
  OBVIOUS
<1>1. TypeOK /\ run[c] \in Calls
  BY CallIs DEF HistoryInv
<1>2. id \in DOMAIN deploys /\ deploys[id].rollbackOf = 0
  BY DEF HistoryInv, RowsOfCalls, RowOf, Begun, SetRollbackOf
<1>3. deploys \in Seq(Rows) /\ deploys[id] \in Rows
  BY <1>1, <1>2, RowsAre, TypeIs
<1>4. Replaced(c) \in 0..MaxDeploys
  <2>1. run[c].rollback
    BY DEF HistoryInv, Shapes, Shape, SetRollbackOf
  <2>2. Successes # {}
    BY <2>1 DEF HistoryInv, RollbacksKnow, RollbackKnows
  <2>3. LatestSuccessfulDeploy \in 0..MaxDeploys
    BY <1>1, <2>2, LatestIs, RowsAre
  <2> QED
    BY <1>1, <2>3 DEF Replaced, Calls
<1> PICK n : n = Replaced(c)
  OBVIOUS
<1> DEFINE row == [deploys[id] EXCEPT !.rollbackOf = n]
<1>5. /\ row \in Rows /\ row.recipe = deploys[id].recipe /\ row.target = deploys[id].target
      /\ row.status = deploys[id].status /\ row.rollbackOf = n
  BY <1>3, <1>4 DEF Rows
<1>6. UNCHANGED deploys \/ deploys' = [deploys EXCEPT ![id] = row]
  BY DEF SetRollbackOf
<1> HIDE DEF row
<1>7. CASE UNCHANGED deploys
  BY <1>2, <1>3, <1>7 DEF Grows
<1>8. CASE deploys' = [deploys EXCEPT ![id] = row]
  <2>1. /\ deploys' \in Seq(Rows) /\ Len(deploys') = Len(deploys)
        /\ DOMAIN deploys' = DOMAIN deploys
        /\ deploys'[id] = row
        /\ \A i \in DOMAIN deploys : i # id => deploys'[i] = deploys[i]
    BY <1>2, <1>3, <1>5, <1>8
  <2> QED
    BY <1>2, <1>5, <2>1 DEF Grows
<1> QED
  BY <1>6, <1>7, <1>8

LEMMA ReferenceHistory ==
  ASSUME HistoryInv, NEW c \in Callers, SetRollbackOf(c)
  PROVE  HistoryInv'
<1> PICK id : id = run[c].id
  OBVIOUS
<1>1. run[c].pc = "reference" /\ run[c].pc \in Begun /\ run[c].rollback /\ TypeOK
  BY DEF SetRollbackOf, Begun, HistoryInv, Shapes, Shape
<1>2. /\ id \in DOMAIN deploys /\ Grows
      /\ deploys' \in Seq(Rows) /\ Len(deploys') = Len(deploys)
      /\ DOMAIN deploys' = DOMAIN deploys
      /\ \A i \in DOMAIN deploys : i # id => deploys'[i] = deploys[i]
      /\ \A i \in DOMAIN deploys : deploys'[i].status = deploys[i].status
      /\ UNCHANGED deploys \/ deploys'[id].rollbackOf = Replaced(c)
  BY RowReferred
<1>3. RowOf(c) /\ RollbackKnows(c)
  BY <1>1 DEF HistoryInv, RowsOfCalls, RollbacksKnow
<1>4. \A d \in Callers : d # c /\ run[d].pc \in Begun => run[d].id # id
  BY <1>1 DEF HistoryInv, OwnRows
<1>5. Moves(c) /\ run'[c].pc = "idle" /\ ~run'[c].rollback
  BY <1>1, CallReturns DEF SetRollbackOf
<1>6. TypeOK'
  BY <1>1, <1>2, <1>5, TypeIs, TypeIsNext DEF SetRollbackOf, history, Moves
<1>7. RowsOfCalls' /\ OwnRows' /\ Shapes' /\ RollbacksKnow'
  <2>1. Shape(c)' /\ run'[c].pc \notin Begun
    BY <1>5 DEF Shape, Begun
  <2> QED
    BY <1>2, <1>4, <1>5, <2>1, OthersStay
<1>8. RollbackGoesBack'
  <2>1. CASE UNCHANGED deploys
    BY <1>2, <2>1, GoesBackStill
  <2>2. CASE deploys'[id].rollbackOf = Replaced(c)
    <3> SUFFICES ASSUME NEW i \in DOMAIN deploys', deploys'[i].target = "kubernetes",
                        deploys'[i].rollbackOf # 0
                 PROVE  LET replaced == deploys'[i].rollbackOf
                        IN  /\ replaced < i
                            /\ deploys'[replaced].status = "success"
                            /\ \E older \in Successes' :
                                  older < replaced /\ deploys'[older].recipe = deploys'[i].recipe
      BY DEF RollbackGoesBack
    <3>1. CASE i = id
      <4>1. deploys[id].target = "kubernetes" /\ run[c].target = "kubernetes"
            /\ deploys'[id].recipe = run[c].recipe
        BY <1>2, <1>3, <3>1 DEF Grows, RowOf
      <4>2. Repeats(c, run[c].current) /\ run[c].current < id
        BY <1>1, <1>3, <4>1 DEF RollbackKnows
      <4>3. deploys'[id].rollbackOf = run[c].current
        BY <2>2, <4>1 DEF Replaced
      <4> QED
        BY <1>2, <3>1, <4>1, <4>2, <4>3, SuccessesGrow DEF Repeats, Successes
    <3>2. CASE i # id
      <4>1. i \in DOMAIN deploys /\ deploys'[i] = deploys[i]
        BY <1>2, <3>2
      <4> PICK n : n = deploys[i].rollbackOf
        OBVIOUS
      <4>2. /\ n < i /\ deploys[n].status = "success"
            /\ \E older \in Successes : older < n /\ deploys[older].recipe = deploys[i].recipe
        BY <4>1 DEF HistoryInv, RollbackGoesBack
      <4>3. n \in DOMAIN deploys
        <5>1. n \in 0..MaxDeploys /\ n # 0
          BY <1>1, <4>1, RowsAre DEF Rows
        <5> QED
          BY <1>1, <4>1, <4>2, <5>1, RowsAre
      <4> QED
        BY <1>2, <4>1, <4>2, <4>3, SuccessesGrow
    <3> QED
      BY <3>1, <3>2
  <2> QED
    BY <1>2, <2>1, <2>2
<1> QED
  BY <1>6, <1>7, <1>8 DEF HistoryInv

LEMMA DownHistory ==
  ASSUME HistoryInv, NEW c \in Callers, Down(c)
  PROVE  HistoryInv'
<1>1. TypeOK /\ run[c] \in Calls /\ run[c].pc = "idle"
  BY CallIs DEF HistoryInv, Down
<1>2. PICK t \in SUBSET Objects : run' = [run EXCEPT ![c].pc = "down", ![c].todo = t]
  BY DEF Down
<1>3. Moves(c) /\ Keeps(c) /\ run'[c].pc = "down"
  <2>1. Edits(c, "down", run[c].outcome, t, run[c].applied)
    BY <1>1, <1>2, TypeIs DEF Calls, Edits
  <2>2. /\ run[c].outcome \in Statuses /\ run[c].applied \in Seq(Objects) /\ "down" \in Steps
    BY <1>1 DEF Calls, Steps
  <2> QED
    BY <1>1, <2>1, <2>2, CallGoesOn
<1>4. TypeOK'
  BY <1>1, <1>3, TypeIs, TypeIsNext, EnterTypes DEF Down, Moves
<1>5. Shape(c)' /\ run'[c].pc \notin Begun
  BY <1>3 DEF Shape, Begun
<1>6. UNCHANGED deploys
  BY DEF Down
<1>7. run'[c].rollback => RollbackKnows(c)'
  <2>1. run[c].rollback => RollbackKnows(c)
    BY DEF HistoryInv, RollbacksKnow
  <2> QED
    BY <1>1, <1>3, <1>5, <1>6, <2>1 DEF RollbackKnows, Repeats, Successes, Keeps
<1> QED
  BY <1>3, <1>4, <1>5, <1>6, <1>7, IdleHistory

LEMMA DownDoneHistory ==
  ASSUME HistoryInv, NEW c \in Callers, DownDone(c)
  PROVE  HistoryInv'
<1>1. TypeOK'
  BY CallReturns, TypeIs, TypeIsNext, LeaveTypes DEF DownDone, Moves, HistoryInv
<1> QED
  BY <1>1, ReturnHistory DEF DownDone

LEMMA CrashHistory ==
  ASSUME HistoryInv, NEW c \in Callers, Crash(c)
  PROVE  HistoryInv'
<1>1. excused' \subseteq Objects
  <2>1. PICK S \in SUBSET Objects : Excuse(S)
    BY DEF Crash, ObjectsOf
  <2> QED
    BY <2>1, ExcuseTypes DEF HistoryInv
<1>2. TypeOK'
  BY <1>1, CallReturns, TypeIs, TypeIsNext, LeaveTypes DEF Crash, Moves, HistoryInv
<1> QED
  BY <1>2, ReturnHistory DEF Crash

LEMMA InitHistory ==
  ASSUME Init
  PROVE  HistoryInv
<1>1. Len(deploys) = 0 /\ deploys \in Seq(Rows) /\ DOMAIN deploys = {}
  BY DEF Init
<1>2. run \in [Callers -> Calls] /\ \A c \in Callers : run[c].pc = "idle" /\ ~run[c].rollback
  BY IdleIsCall DEF Init, Idle
<1>3. TypeOK
  BY <1>1, <1>2, TypeIs, DeploysAssumption DEF Init
<1>4. RowsOfCalls /\ OwnRows /\ Shapes /\ RollbacksKnow
  BY <1>2 DEF RowsOfCalls, OwnRows, Shapes, Shape, RollbacksKnow, Begun
<1>5. RollbackGoesBack
  BY <1>1 DEF RollbackGoesBack
<1> QED
  BY <1>3, <1>4, <1>5 DEF HistoryInv

LEMMA StutterHistory ==
  ASSUME HistoryInv, UNCHANGED vars
  PROVE  HistoryInv'
<1> USE DEF vars, history
<1>1. TypeOK'
  BY TypeIs, TypeIsNext DEF HistoryInv
<1>2. Successes' = Successes
  BY DEF Successes
<1>3. RowsOfCalls' /\ OwnRows' /\ Shapes'
  BY DEF HistoryInv, RowsOfCalls, RowOf, OwnRows, Shapes, Shape
<1>4. RollbacksKnow'
  BY <1>2 DEF HistoryInv, RollbacksKnow, RollbackKnows, Repeats
<1>5. RollbackGoesBack'
  BY <1>2 DEF HistoryInv, RollbackGoesBack
<1> QED
  BY <1>1, <1>3, <1>4, <1>5 DEF HistoryInv

(* The steps of a call, by what they do to the history. *)
Steers(c) ==
    \/ Deploy(c) \/ RollbackReadsPrevious(c) \/ RollbackReadsCurrent(c) \/ RollbackDeploys(c)
    \/ Down(c) \/ DownDone(c) \/ Crash(c)

LEMMA NextIs ==
  Next => \E c \in Callers :
             Works(c) \/ Steers(c) \/ CompleteDeploy(c) \/ SetRollbackOf(c)
  BY DEF Next, Advance, Works, Steers

LEMMA NextHistory ==
  ASSUME HistoryInv, [Next]_vars
  PROVE  HistoryInv'
<1>1. CASE UNCHANGED vars
  BY <1>1, StutterHistory
<1>2. ASSUME NEW c \in Callers,
             Works(c) \/ Steers(c) \/ CompleteDeploy(c) \/ SetRollbackOf(c)
      PROVE  HistoryInv'
  <2>1. CASE Works(c)
    BY <2>1, WorkHistory
  <2>2. CASE Steers(c)
    BY <2>2, StutterHistory, DeployHistory, ReadsPreviousHistory, ReadsCurrentHistory,
       RollbackDeploysHistory, DownHistory, DownDoneHistory, CrashHistory DEF Steers
  <2>3. CASE CompleteDeploy(c)
    BY <2>3, CompleteHistory
  <2>4. CASE SetRollbackOf(c)
    BY <2>4, ReferenceHistory
  <2> QED
    BY <1>2, <2>1, <2>2, <2>3, <2>4
<1> QED
  BY <1>1, <1>2, NextIs

LEMMA HistoryInvariant == Spec => []HistoryInv
<1>1. Init => HistoryInv
  BY InitHistory
<1>2. HistoryInv /\ [Next]_vars => HistoryInv'
  BY NextHistory
<1> QED
  BY <1>1, <1>2, PTL DEF Spec

(* The history is made of well-formed rows, and the rollbacks in it go back in
   time (deployer.go:236, 259), whoever else deploys between their reads. *)
THEOREM HistoryTrue == Spec => []HistoryIsSound
<1>1. HistoryInv => HistoryIsSound
  BY DEF HistoryInv, HistoryIsSound
<1> QED
  BY <1>1, HistoryInvariant, PTL

-----------------------------------------------------------------------------
(* What a step may never do to the history *)

Appends ==
    \A i \in DOMAIN deploys :
        /\ i \in DOMAIN deploys'
        /\ deploys'[i].recipe = deploys[i].recipe
        /\ deploys'[i].target = deploys[i].target
        /\ deploys[i].status # "in_progress" => deploys'[i].status = deploys[i].status
        /\ deploys[i].rollbackOf # 0 => deploys'[i].rollbackOf = deploys[i].rollbackOf

LEMMA SteersAppend ==
  ASSUME HistoryInv, NEW c \in Callers, Steers(c)
  PROVE  Appends
<1>1. CASE UNCHANGED deploys
  BY <1>1 DEF Appends
<1>2. ASSUME NEW call \in Calls, call.recipe \in Recipes, Begin(c, call)
      PROVE  Appends
  BY <1>2, BeginsRow DEF Appends, HistoryInv
<1>3. CASE Deploy(c)
  <2>1. ASSUME NEW r \in Recipes, NEW t \in {"kubernetes", "local"},
               Begin(c, [Idle EXCEPT !.recipe = r, !.target = t])
        PROVE  Appends
    <3> DEFINE call == [Idle EXCEPT !.recipe = r, !.target = t]
    <3>1. call \in Calls /\ call.recipe = r
      BY IdleIsCall DEF Calls, Idle
    <3> HIDE DEF call
    <3> QED
      BY <1>2, <2>1, <3>1 DEF call
  <2> QED
    BY <1>1, <1>3, <2>1 DEF Deploy, vars
<1>4. CASE RollbackDeploys(c)
  <2>1. run[c] \in Calls /\ run[c].recipe \in Recipes
    BY <1>4, CallIs DEF HistoryInv, Shapes, Shape, RollbackDeploys
  <2> QED
    BY <1>1, <1>2, <1>4, <2>1 DEF RollbackDeploys
<1>5. CASE RollbackReadsPrevious(c) \/ RollbackReadsCurrent(c) \/ Down(c) \/ DownDone(c) \/ Crash(c)
  BY <1>1, <1>5 DEF RollbackReadsPrevious, RollbackReadsCurrent, Down, DownDone, Crash
<1> QED
  BY <1>3, <1>4, <1>5 DEF Steers

LEMMA NextAppends ==
  ASSUME HistoryInv, [Next]_vars
  PROVE  Appends
<1>1. CASE UNCHANGED deploys
  BY <1>1 DEF Appends
<1>2. ASSUME NEW c \in Callers, Works(c)
      PROVE  UNCHANGED deploys
  BY <1>2, WorkGoesOn DEF HistoryInv
<1>3. ASSUME NEW c \in Callers, CompleteDeploy(c)
      PROVE  Appends
  BY <1>3, RowCompleted DEF Appends, Grows
<1>4. ASSUME NEW c \in Callers, SetRollbackOf(c)
      PROVE  Appends
  BY <1>4, RowReferred DEF Appends, Grows
<1> QED
  BY <1>1, <1>2, <1>3, <1>4, SteersAppend, NextIs DEF vars

(* A row of the history gets its outcome once, from the call that inserted it,
   and the deploy it replaces once, although CompleteDeploy (store/deploy.go:77)
   asks for neither. *)
THEOREM HistoryOnlyGrows == Spec => HistoryIsAppendOnly
<1>1. HistoryInv /\ [Next]_vars => [Appends]_vars
  BY NextAppends
<1> QED
  BY <1>1, HistoryInvariant, PTL DEF Spec, HistoryIsAppendOnly, Appends

-----------------------------------------------------------------------------
(* The cluster, while others are at work *)

LEMMA ObjectsAre ==
  ASSUME TypeOK
  PROVE  /\ Present \subseteq Objects
         /\ \A r : ObjectsOf(r) \subseteq Objects
         /\ \A o \in Objects : ns[o] # Absent <=> o \in Present
  BY DEF Present, ObjectsOf

LEMMA OthersInCluster ==
  ASSUME NEW c \in Callers, Moves(c)
  PROVE  \A d \in Callers : d # c => (d \in InCluster' <=> d \in InCluster)
  BY DEF Moves, InCluster

(* The others' tallies are as they were. *)
LEMMA TalliesStay ==
  ASSUME Tallies, NEW c \in Callers, Moves(c), Tally(c)'
  PROVE  Tallies'
<1>1. ASSUME NEW d \in Callers, d # c
      PROVE  Tally(d)'
  <2>1. run'[d] = run[d]
    BY <1>1 DEF Moves
  <2> QED
    BY <2>1 DEF Tallies, Tally, Applied
<1> QED
  BY <1>1 DEF Tallies

(* When several are there nothing is promised. *)
LEMMA Crowd ==
  ASSUME TypeOK', Tallies', AllExcused', alone' = {}
  PROVE  ClusterInv'
  BY DEF TypeOK, ClusterInv, AloneIsAlone, CrowdIsExcused, Accounted, AllExcused, Present

(* Nobody is alone beside somebody else. *)
LEMMA NotAlone ==
  ASSUME ClusterInv, NEW c \in Callers, c \in InCluster, c \notin alone
  PROVE  alone = {} /\ AllExcused
  BY DEF ClusterInv, AloneIsAlone, CrowdIsExcused

LEMMA ExcusedStay ==
  ASSUME AllExcused, excused \subseteq excused'
  PROVE  AllExcused'
  BY DEF AllExcused

LEMMA ListedStay ==
  ASSUME Successes' = Successes, \A i \in Successes : deploys'[i].recipe = deploys[i].recipe, TypeOK
  PROVE  \A o : Listed(o)' <=> Listed(o)
<1>1. CASE Successes = {}
  BY <1>1 DEF Listed
<1>2. CASE Successes # {}
  <2>1. LatestSuccessfulDeploy \in Successes
    BY <1>2, LatestIs
  <2>2. (LatestSuccessfulDeploy)' = LatestSuccessfulDeploy
    BY DEF LatestSuccessfulDeploy
  <2> QED
    BY <2>1, <2>2 DEF Listed
<1> QED
  BY <1>1, <1>2

(* A step outside the cluster leaves what is promised inside as it is, unless
   it is that of a local deploy which becomes the newest success. *)
LEMMA Outside ==
  ASSUME TypeOK, TypeOK', ClusterInv, NEW c \in Callers, Moves(c), Grows,
         c \notin InCluster, c \notin InCluster', Tally(c)',
         UNCHANGED <<ns, alone>>, excused \subseteq excused',
         \/ Successes' = Successes
         \/ InCluster = {} /\ \A o \in Present : Kind(o) \in Removable => o \in excused'
         \/ AllExcused'
  PROVE  ClusterInv'
<1>1. c \notin alone
  BY DEF ClusterInv, AloneIsAlone
<1>2. InCluster' = InCluster
  BY OthersInCluster DEF InCluster
<1>3. AloneIsAlone' /\ CrowdIsExcused'
  BY <1>2, ExcusedStay DEF ClusterInv, AloneIsAlone, CrowdIsExcused
<1>4. Tallies'
  BY TalliesStay DEF ClusterInv
<1>5. \A a \in alone : a # c /\ run'[a] = run[a]
  BY <1>1, TypeIs DEF Moves
<1>6. Accounted'
  <2>1. CASE Successes' = Successes
    <3>1. \A o : Listed(o)' <=> Listed(o)
      BY <2>1, ListedStay, SuccessesGrow
    <3>2. \A a \in alone : Pending(a)' = Pending(a)
      BY <1>5 DEF Pending, Applied
    <3> QED
      BY <3>1, <3>2 DEF ClusterInv, Accounted, Present
  <2>2. CASE \A o \in Present : Kind(o) \in Removable => o \in excused'
    BY <2>2 DEF Accounted, Present
  <2>3. CASE AllExcused'
    BY <2>3, ObjectsAre DEF Accounted, AllExcused, Present
  <2> QED
    BY <2>1, <2>2, <2>3
<1>7. ASSUME NEW a \in alone
      PROVE  Relies(a)'
  <2>1. run'[a] = run[a] /\ Relies(a) /\ a \in InCluster
    BY <1>5 DEF ClusterInv, AloneIsAlone
  <2>2. StaysNewest(a)'
    BY <2>1, ExcusedStay DEF Relies, StaysNewest
  <2>3. Installs(a)' /\ HasInstalled(a)'
    BY <2>1 DEF Relies, Installs, HasInstalled
  <2>4. Undoes(a)' /\ HasUndone(a)'
    BY <2>1 DEF Relies, Undoes, HasUndone, Present, Applied
  <2>5. Cleans(a)'
    BY <2>1 DEF Relies, Cleans, Present
  <2> QED
    BY <2>2, <2>3, <2>4, <2>5 DEF Relies
<1> QED
  BY <1>3, <1>4, <1>6, <1>7 DEF ClusterInv

(* Whoever enters an empty cluster is alone there. *)
LEMMA Entering ==
  ASSUME TypeOK, TypeOK', ClusterInv, NEW c \in Callers, Moves(c), Grows,
         EnterCluster(c), UNCHANGED ns, run'[c].pc \in {"prepare", "down"}, Tally(c)',
         Successes' = Successes,
         run'[c].pc = "prepare" => \A i \in Successes : i < run'[c].id
  PROVE  ClusterInv'
<1>1. Tallies'
  BY TalliesStay DEF ClusterInv
<1>2. CASE InCluster = {}
  <2>1. alone = {} /\ alone' = {c} /\ UNCHANGED excused
    BY <1>2 DEF EnterCluster, ClusterInv, AloneIsAlone
  <2>2. InCluster' = {c}
    <3>1. c \in InCluster'
      BY DEF InCluster
    <3> QED
      BY <1>2, <3>1, OthersInCluster DEF InCluster
  <2>3. AloneIsAlone' /\ CrowdIsExcused'
    BY <2>1, <2>2 DEF AloneIsAlone, CrowdIsExcused
  <2>4. Accounted'
    <3>1. \A o : Listed(o)' <=> Listed(o)
      BY ListedStay, SuccessesGrow
    <3> QED
      BY <2>1, <3>1 DEF ClusterInv, Accounted, Present
  <2>5. Relies(c)'
    <3>1. StaysNewest(c)'
      BY DEF StaysNewest, Begun
    <3> QED
      BY <3>1 DEF Relies, Installs, HasInstalled, Undoes, HasUndone, Cleans
  <2> QED
    BY <1>1, <2>1, <2>3, <2>4, <2>5 DEF ClusterInv
<1>3. CASE InCluster # {}
  <2>1. alone' = {} /\ AllExcused'
    BY <1>3 DEF EnterCluster, Excuse, AllExcused
  <2> QED
    BY <1>1, <2>1, Crowd
<1> QED
  BY <1>2, <1>3

(* Whoever leaves leaves nothing behind that is not accounted for. *)
LEMMA Leaving ==
  ASSUME TypeOK, TypeOK', ClusterInv, NEW c \in Callers, Moves(c), LeaveCluster(c),
         excused \subseteq excused',
         c \in InCluster, c \notin InCluster', Tally(c)',
         c \in alone => \A o \in Present' : Kind(o) \in Removable => o \in excused' \/ Listed(o)'
  PROVE  ClusterInv'
<1>1. Tallies'
  BY TalliesStay DEF ClusterInv
<1>2. alone' = {}
  BY DEF ClusterInv, AloneIsAlone, LeaveCluster
<1>3. CASE c \in alone
  <2>1. InCluster' = {}
    BY <1>3, OthersInCluster DEF ClusterInv, AloneIsAlone, InCluster
  <2> QED
    BY <1>1, <1>2, <1>3, <2>1 DEF ClusterInv, AloneIsAlone, CrowdIsExcused, Accounted
<1>4. CASE c \notin alone
  <2>1. AllExcused'
    BY <1>4, NotAlone, ExcusedStay
  <2> QED
    BY <1>1, <1>2, <2>1, Crowd
<1> QED
  BY <1>3, <1>4

-----------------------------------------------------------------------------
(* The work of a call in the cluster *)

LEMMA ExcusedGrow ==
  ASSUME NEW c \in Callers, Works(c)
  PROVE  excused \subseteq excused'
<1>1. \A S : Excuse(S) => excused \subseteq excused'
  BY DEF Excuse
<1>2. \A o : DeleteObject(o) => excused \subseteq excused'
  BY <1>1 DEF DeleteObject
<1> QED
  BY <1>1, <1>2 DEF Works, RunLocally, PrepareFails, Prepare, DeleteNext, CleanupDone, ApplyObject,
     ApplyFails, BecomesReady, ReadinessFails, UndoObject, UndoDone, history

(* What a step of the work leaves in the call that makes it. *)
LEMMA FieldsAfter ==
  ASSUME TypeOK, NEW c \in Callers
  PROVE  /\ PrepareFails(c) => run'[c].pc = "record" /\ run'[c].outcome = "failed"
         /\ CleanupDone(c) => /\ run'[c].pc = "apply" /\ run'[c].todo = ObjectsOf(run[c].recipe)
                              /\ run'[c].recipe = run[c].recipe /\ run'[c].applied = run[c].applied
         /\ ApplyFails(c) \/ ReadinessFails(c) =>
               /\ run'[c].pc = "undo" /\ run'[c].outcome = "rolled_back"
               /\ run'[c].todo = run[c].todo
               /\ run'[c].recipe = run[c].recipe /\ run'[c].applied = run[c].applied
         /\ BecomesReady(c) => /\ run'[c].pc = "record" /\ run'[c].outcome = "success"
                               /\ run'[c].recipe = run[c].recipe
         /\ UndoDone(c) => /\ run'[c].pc = "record" /\ run'[c].outcome = run[c].outcome
                           /\ run'[c].todo = run[c].todo /\ run'[c].recipe = run[c].recipe
<1>1. run[c] \in Calls
  BY CallIs
<1> QED
  BY <1>1, TypeIs DEF PrepareFails, CleanupDone, ApplyFails, ReadinessFails, BecomesReady,
     UndoDone, Calls

LEMMA FieldsAfterPrepare ==
  ASSUME TypeOK, NEW c \in Callers, NEW t, run' = [run EXCEPT ![c].pc = "clean", ![c].todo = t]
  PROVE  /\ run'[c].pc = "clean" /\ run'[c].todo = t
         /\ run'[c].recipe = run[c].recipe /\ run'[c].applied = run[c].applied
  BY CallIs, TypeIs DEF Calls

LEMMA FieldsAfterDelete ==
  ASSUME TypeOK, NEW c \in Callers, NEW o, run' = [run EXCEPT ![c].todo = @ \ {o}]
  PROVE  /\ run'[c].pc = run[c].pc /\ run'[c].todo = run[c].todo \ {o}
         /\ run'[c].recipe = run[c].recipe /\ run'[c].applied = run[c].applied
  BY CallIs, TypeIs DEF Calls

LEMMA FieldsAfterApply ==
  ASSUME TypeOK, NEW c \in Callers, NEW o \in Objects, run[c].pc = "apply",
         run' = [run EXCEPT ![c].todo = @ \ {o}, ![c].applied = Append(@, o)]
  PROVE  /\ run'[c].pc = "apply" /\ run'[c].todo = run[c].todo \ {o}
         /\ run'[c].recipe = run[c].recipe
         /\ Applied(c)' = Applied(c) \cup {o}
<1>1. run[c] \in Calls /\ run[c].applied \in Seq(Objects)
  BY CallIs DEF Calls
<1>2. /\ run'[c].pc = "apply" /\ run'[c].todo = run[c].todo \ {o}
      /\ run'[c].recipe = run[c].recipe /\ run'[c].applied = Append(run[c].applied, o)
  <2>1. ASSUME NEW t, NEW b, run' = [run EXCEPT ![c].todo = t, ![c].applied = b]
        PROVE  /\ run'[c].pc = "apply" /\ run'[c].todo = t
               /\ run'[c].recipe = run[c].recipe /\ run'[c].applied = b
    BY <1>1, <2>1, TypeIs DEF Calls
  <2> QED
    BY <2>1
<1>3. ASSUME NEW b \in Seq(Objects)
      PROVE  {Append(b, o)[i] : i \in DOMAIN Append(b, o)} = {b[i] : i \in DOMAIN b} \cup {o}
  <2>1. DOMAIN Append(b, o) = DOMAIN b \cup {Len(b) + 1} /\ Append(b, o)[Len(b) + 1] = o
    OBVIOUS
  <2>2. \A i \in DOMAIN b : Append(b, o)[i] = b[i]
    OBVIOUS
  <2> QED
    BY <2>1, <2>2
<1> QED
  BY <1>1, <1>2, <1>3 DEF Applied

LEMMA FieldsAfterUndo ==
  ASSUME TypeOK, NEW c \in Callers, UndoObject(c), NEW o, o = run[c].applied[Len(run[c].applied)]
  PROVE  /\ run'[c].pc = "undo" /\ run'[c].outcome = run[c].outcome
         /\ run'[c].todo = run[c].todo /\ run'[c].recipe = run[c].recipe
         /\ o \in Objects
         /\ Applied(c)' \subseteq Applied(c) /\ Applied(c) \subseteq Applied(c)' \cup {o}
<1> PICK a : a = run[c].applied
  OBVIOUS
<1> PICK b : b = SubSeq(a, 1, Len(a) - 1)
  OBVIOUS
<1>1. a \in Seq(Objects) /\ a # <<>> /\ run[c] \in Calls
  BY CallIs DEF Calls, UndoObject
<1>2. /\ o \in Objects
      /\ \A i \in DOMAIN a : (i \in DOMAIN b /\ b[i] = a[i]) \/ i = Len(a)
      /\ \A i \in DOMAIN b : i \in DOMAIN a /\ b[i] = a[i]
  BY <1>1, UndoneIsSeq
<1>3. /\ run'[c].pc = "undo" /\ run'[c].outcome = run[c].outcome /\ run'[c].todo = run[c].todo
      /\ run'[c].recipe = run[c].recipe /\ run'[c].applied = b
  <2>1. run' = [run EXCEPT ![c].applied = b] /\ run[c].pc = "undo"
    BY DEF UndoObject
  <2> QED
    BY <1>1, <2>1, TypeIs DEF Calls
<1> QED
  BY <1>2, <1>3 DEF Applied

(* The tallies of whoever works, alone or not. *)
LEMMA WorkTally ==
  ASSUME TypeOK, NEW c \in Callers, Tally(c), Works(c)
  PROVE  Tally(c)'
<1>1. CASE RunLocally(c) \/ PrepareFails(c) \/ BecomesReady(c) \/ UndoDone(c)
  <2>1. run'[c].pc = "record"
    BY <1>1, FieldsAfter, CallIs, TypeIs DEF RunLocally, Calls
  <2> QED
    BY <2>1 DEF Tally
<1>2. CASE Prepare(c)
  <2>1. PICK t : run' = [run EXCEPT ![c].pc = "clean", ![c].todo = t]
    BY <1>2 DEF Prepare
  <2> QED
    BY <1>2, <2>1, FieldsAfterPrepare DEF Tally, Prepare
<1>3. CASE DeleteNext(c)
  <2>1. PICK o : run' = [run EXCEPT ![c].todo = @ \ {o}]
    BY <1>3 DEF DeleteNext
  <2>2. run[c].pc \in {"clean", "down"}
    BY <1>3 DEF DeleteNext
  <2> QED
    BY <2>1, <2>2, FieldsAfterDelete DEF Tally
<1>4. CASE CleanupDone(c)
  <2>1. run[c].applied = <<>>
    BY <1>4 DEF Tally, CleanupDone
  <2> QED
    BY <1>4, <2>1, FieldsAfter DEF Tally, Applied
<1>5. CASE ApplyObject(c)
  <2>1. run[c].pc = "apply" /\ run[c].todo \in SUBSET Objects
    BY <1>5, CallIs DEF ApplyObject, Calls
  <2>2. PICK o \in First(run[c].todo) :
          run' = [run EXCEPT ![c].todo = @ \ {o}, ![c].applied = Append(@, o)]
    BY <1>5 DEF ApplyObject
  <2>3. o \in run[c].todo /\ o \in Objects
    BY <2>1 DEF First
  <2>4. /\ run'[c].pc = "apply" /\ run'[c].todo = run[c].todo \ {o}
        /\ run'[c].recipe = run[c].recipe
        /\ Applied(c)' = Applied(c) \cup {o}
    BY <2>1, <2>2, <2>3, FieldsAfterApply
  <2> QED
    BY <2>1, <2>3, <2>4 DEF Tally
<1>6. CASE ApplyFails(c) \/ ReadinessFails(c)
  <2>1. run[c].pc = "apply"
    BY <1>6 DEF ApplyFails, ReadinessFails
  <2> QED
    BY <1>6, <2>1, FieldsAfter DEF Tally, Applied
<1>7. CASE UndoObject(c)
  <2>1. run[c].pc = "undo"
    BY <1>7 DEF UndoObject
  <2> QED
    BY <1>7, <2>1, FieldsAfterUndo DEF Tally
<1> QED
  BY <1>1, <1>2, <1>3, <1>4, <1>5, <1>6, <1>7 DEF Works

(* Everything in the namespace is accounted for, the call's own included. *)
AccountedBy(c) ==
    \A o \in Present : Kind(o) \in Removable =>
        o \in excused \/ Listed(o) \/ o \in Pending(c)

LEMMA AloneAccounts ==
  ASSUME ClusterInv, NEW c \in alone
  PROVE  alone = {c} /\ AccountedBy(c) /\ Relies(c) /\ c \in InCluster
  BY DEF ClusterInv, AloneIsAlone, Accounted, AccountedBy

LEMMA AloneWorks ==
  ASSUME HistoryInv, ClusterInv, NEW c \in Callers, c \in alone, Works(c),
         AccountedBy(c)', Installs(c)', HasInstalled(c)', Undoes(c)', HasUndone(c)', Cleans(c)'
  PROVE  ClusterInv'
<1>1. Moves(c) /\ Keeps(c) /\ Went(c) /\ UNCHANGED <<deploys, alone>>
  BY WorkGoesOn DEF HistoryInv
<1>2. alone = {c} /\ c \in InCluster /\ InCluster = {c} /\ StaysNewest(c)
  BY AloneAccounts DEF ClusterInv, AloneIsAlone, Relies
<1>3. c \in InCluster'
  <2>1. run[c].pc \in {"prepare", "clean", "apply", "undo"} => run[c].target = "kubernetes"
    BY DEF HistoryInv, Shapes, Shape
  <2>2. run[c].pc # "local"
    BY <1>2 DEF InCluster
  <2> QED
    BY <1>1, <2>1, <2>2 DEF InCluster, Went, Where, Keeps
<1>4. InCluster' = {c}
  BY <1>1, <1>2, <1>3, OthersInCluster DEF InCluster
<1>5. StaysNewest(c)'
  <2>1. run'[c].pc \in Begun => run[c].pc \in Begun
    BY <1>1 DEF Went, Where, Begun
  <2>2. Successes' = Successes
    BY <1>1 DEF Successes
  <2> QED
    BY <1>1, <1>2, <2>1, <2>2, ExcusedGrow, ExcusedStay DEF StaysNewest, Keeps
<1>6. Tallies'
  BY <1>1, TalliesStay, WorkTally DEF ClusterInv, Tallies, HistoryInv
<1>7. alone' = {c}
  BY <1>1, <1>2
<1> QED
  BY <1>4, <1>5, <1>6, <1>7
  DEF ClusterInv, AloneIsAlone, CrowdIsExcused, Accounted, AccountedBy, Relies

LEMMA ListedWhileWorking ==
  ASSUME HistoryInv, NEW c \in Callers, Works(c)
  PROVE  \A o : Listed(o)' <=> Listed(o)
<1>1. UNCHANGED deploys
  BY WorkGoesOn DEF HistoryInv
<1> QED
  BY <1>1 DEF Listed, LatestSuccessfulDeploy, Successes

(* Of one object at most a call makes less than there was. *)
LEMMA Deleted ==
  ASSUME TypeOK, NEW o \in Objects, DeleteObject(o)
  PROVE  /\ Present' \subseteq Present /\ excused \subseteq excused'
         /\ Kind(o) \in Removable /\ o \in Present' => o \in excused'
         /\ \A p \in Objects : p # o => ns'[p] = ns[p]
<1>1. CASE ns' = [ns EXCEPT ![o] = Absent] /\ UNCHANGED excused
  BY <1>1, TypeIs DEF Present
<1>2. CASE UNCHANGED ns /\ Excuse({o})
  BY <1>2 DEF Present, Excuse
<1> QED
  BY <1>1, <1>2 DEF DeleteObject

LEMMA ClusterPrepareFails ==
  ASSUME HistoryInv, ClusterInv, NEW c \in Callers, PrepareFails(c), c \in alone
  PROVE  ClusterInv'
<1>1. Works(c) /\ TypeOK /\ run[c].pc = "prepare" /\ UNCHANGED <<ns, excused>>
  BY DEF Works, HistoryInv, PrepareFails, history
<1>2. run'[c].pc = "record" /\ run'[c].outcome = "failed"
  BY <1>1, FieldsAfter
<1>3. AccountedBy(c)'
  <2>1. Pending(c) = {} /\ Pending(c)' = {}
    BY <1>1, <1>2 DEF Pending
  <2> QED
    BY <1>1, <2>1, AloneAccounts, ListedWhileWorking DEF AccountedBy, Present
<1>4. Installs(c)' /\ HasInstalled(c)' /\ Undoes(c)' /\ HasUndone(c)' /\ Cleans(c)'
  BY <1>2 DEF Installs, HasInstalled, Undoes, HasUndone, Cleans
<1> QED
  BY <1>1, <1>3, <1>4, AloneWorks

LEMMA ClusterPrepare ==
  ASSUME HistoryInv, ClusterInv, NEW c \in Callers, Prepare(c), c \in alone
  PROVE  ClusterInv'
<1>1. Works(c) /\ TypeOK /\ run[c].pc = "prepare" /\ UNCHANGED <<ns, deploys>>
  BY DEF Works, HistoryInv, Prepare
<1> PICK r : r = run[c].recipe
  OBVIOUS
<1>2. PICK confirmed \in SUBSET RemovedSlices(r) :
        /\ run' = [run EXCEPT ![c].pc = "clean",
                      ![c].todo = {o \in Objects : Slice(o) \in confirmed /\ Kind(o) \in Removable}]
        /\ Excuse({o \in Present : Slice(o) \in RemovedSlices(r) \ confirmed})
  BY DEF Prepare
<1> PICK t : t = {o \in Objects : Slice(o) \in confirmed /\ Kind(o) \in Removable}
  OBVIOUS
<1>3. /\ run'[c].pc = "clean" /\ run'[c].todo = t
      /\ run'[c].recipe = r /\ run'[c].applied = run[c].applied
  <2>1. run' = [run EXCEPT ![c].pc = "clean", ![c].todo = t]
    BY <1>2
  <2> QED
    BY <1>1, <2>1, FieldsAfterPrepare
<1>4. AccountedBy(c)'
  <2>1. Pending(c) = {}
    BY <1>1 DEF Pending
  <2> QED
    BY <1>1, <2>1, AloneAccounts, ListedWhileWorking, ExcusedGrow DEF AccountedBy, Present
<1>5. Cleans(c)'
  <2> SUFFICES ASSUME NEW o \in Present, Kind(o) \in Removable
               PROVE  o \in excused' \/ o \in t \/ Slice(o) \in SlicesOf[r]
    BY <1>1, <1>3 DEF Cleans, Present
  <2>1. o \in excused \/ Listed(o)
    BY <1>1, AloneAccounts DEF AccountedBy, Pending
  <2>2. CASE o \in excused
    BY <1>1, <2>2, ExcusedGrow
  <2>3. CASE Listed(o) /\ Slice(o) \notin SlicesOf[r]
    <3>1. Slice(o) \in RemovedSlices(r) /\ o \in Objects
      BY <2>3 DEF Listed, RemovedSlices, Present
    <3>2. CASE Slice(o) \in confirmed
      BY <3>1, <3>2
    <3>3. CASE Slice(o) \notin confirmed
      BY <1>2, <3>1, <3>3 DEF Excuse
    <3> QED
      BY <3>2, <3>3
  <2> QED
    BY <2>1, <2>2, <2>3
<1>6. Installs(c)' /\ HasInstalled(c)' /\ Undoes(c)' /\ HasUndone(c)'
  BY <1>3 DEF Installs, HasInstalled, Undoes, HasUndone
<1> QED
  BY <1>1, <1>4, <1>5, <1>6, AloneWorks

LEMMA ClusterDeleteNext ==
  ASSUME HistoryInv, ClusterInv, NEW c \in Callers, DeleteNext(c), c \in alone
  PROVE  ClusterInv'
<1>1. Works(c) /\ TypeOK /\ run[c].pc \in {"clean", "down"} /\ UNCHANGED deploys
  BY DEF Works, HistoryInv, DeleteNext
<1>2. PICK o \in Last(run[c].todo) :
        DeleteObject(o) /\ run' = [run EXCEPT ![c].todo = @ \ {o}]
  BY DEF DeleteNext
<1>3. o \in Objects
  BY <1>1, CallIs DEF Calls, Last
<1>4. /\ run'[c].pc = run[c].pc /\ run'[c].todo = run[c].todo \ {o}
      /\ run'[c].recipe = run[c].recipe
  BY <1>1, <1>2, FieldsAfterDelete
<1>5. /\ Present' \subseteq Present /\ excused \subseteq excused'
      /\ Kind(o) \in Removable /\ o \in Present' => o \in excused'
  BY <1>1, <1>2, <1>3, Deleted
<1>6. AccountedBy(c)'
  <2>1. Pending(c) = {}
    BY <1>1 DEF Pending
  <2> QED
    BY <1>1, <1>5, <2>1, AloneAccounts, ListedWhileWorking DEF AccountedBy
<1>7. Cleans(c)'
  <2>1. Cleans(c)
    BY AloneAccounts DEF Relies
  <2> QED
    BY <1>1, <1>4, <1>5, <2>1 DEF Cleans
<1>8. Installs(c)' /\ HasInstalled(c)' /\ Undoes(c)' /\ HasUndone(c)'
  BY <1>1, <1>4 DEF Installs, HasInstalled, Undoes, HasUndone
<1> QED
  BY <1>1, <1>6, <1>7, <1>8, AloneWorks

LEMMA ClusterCleanupDone ==
  ASSUME HistoryInv, ClusterInv, NEW c \in Callers, CleanupDone(c), c \in alone
  PROVE  ClusterInv'
<1>1. Works(c) /\ TypeOK /\ run[c].pc = "clean" /\ run[c].todo = {} /\ UNCHANGED <<ns, excused>>
  BY DEF Works, HistoryInv, CleanupDone, history
<1>2. /\ run'[c].pc = "apply" /\ run'[c].todo = ObjectsOf(run[c].recipe)
      /\ run'[c].recipe = run[c].recipe /\ run'[c].applied = run[c].applied
  BY <1>1, FieldsAfter
<1>3. run[c].applied = <<>>
  BY <1>1 DEF ClusterInv, Tallies, Tally
<1>4. AccountedBy(c)'
  <2>1. Pending(c) = {}
    BY <1>1 DEF Pending
  <2> QED
    BY <1>1, <2>1, AloneAccounts, ListedWhileWorking DEF AccountedBy, Present
<1>5. Cleans(c)'
  <2>1. Cleans(c)
    BY AloneAccounts DEF Relies
  <2> QED
    BY <1>1, <1>2, <2>1 DEF Cleans, Present
<1>6. Installs(c)' /\ HasInstalled(c)' /\ Undoes(c)' /\ HasUndone(c)'
  BY <1>2 DEF Installs, HasInstalled, Undoes, HasUndone
<1> QED
  BY <1>1, <1>4, <1>5, <1>6, AloneWorks

LEMMA ClusterApplyObject ==
  ASSUME HistoryInv, ClusterInv, NEW c \in Callers, ApplyObject(c), c \in alone
  PROVE  ClusterInv'
<1>1. Works(c) /\ TypeOK /\ run[c].pc = "apply" /\ UNCHANGED excused
  BY DEF Works, HistoryInv, ApplyObject, history
<1> PICK r : r = run[c].recipe
  OBVIOUS
<1>2. PICK o \in First(run[c].todo) :
        /\ ns' = [ns EXCEPT ![o] = r]
        /\ run' = [run EXCEPT ![c].todo = @ \ {o}, ![c].applied = Append(@, o)]
  BY DEF ApplyObject
<1>3. Tally(c) /\ Relies(c) /\ AccountedBy(c)
  BY AloneAccounts DEF ClusterInv, Tallies
<1>4. o \in run[c].todo /\ o \in ObjectsOf(r) /\ o \in Objects
  BY <1>1, <1>3 DEF Tally, First, ObjectsOf
<1>5. /\ run'[c].pc = "apply" /\ run'[c].todo = run[c].todo \ {o}
      /\ run'[c].recipe = r
      /\ Applied(c)' = Applied(c) \cup {o}
  BY <1>1, <1>2, <1>4, FieldsAfterApply
<1>6. /\ ns'[o] = r /\ \A p \in Objects : p # o => ns'[p] = ns[p]
  BY <1>1, <1>2, <1>4, TypeIs
<1>7. Present' \subseteq Present \cup {o}
  BY <1>6 DEF Present
<1>8. AccountedBy(c)'
  BY <1>1, <1>3, <1>5, <1>7, ListedWhileWorking DEF AccountedBy, Pending
<1>9. Installs(c)'
  BY <1>1, <1>3, <1>4, <1>5, <1>6, ObjectsAre DEF Relies, Installs
<1>10. Cleans(c)'
  <2>1. Slice(o) \in SlicesOf[r]
    BY <1>4 DEF ObjectsOf
  <2> QED
    BY <1>1, <1>3, <1>5, <1>7, <2>1 DEF Relies, Cleans
<1>11. HasInstalled(c)' /\ Undoes(c)' /\ HasUndone(c)'
  BY <1>5 DEF HasInstalled, Undoes, HasUndone
<1> QED
  BY <1>1, <1>8, <1>9, <1>10, <1>11, AloneWorks

LEMMA ClusterApplyFails ==
  ASSUME HistoryInv, ClusterInv, NEW c \in Callers, ApplyFails(c), c \in alone
  PROVE  ClusterInv'
<1>1. Works(c) /\ TypeOK /\ run[c].pc = "apply"
  BY DEF Works, HistoryInv, ApplyFails
<1> PICK r : r = run[c].recipe
  OBVIOUS
<1>2. PICK o \in First(run[c].todo) :
        \/ UNCHANGED <<ns, excused>>
        \/ ns' = [ns EXCEPT ![o] = r] /\ Excuse({o})
  BY DEF ApplyFails
<1>3. Tally(c) /\ AccountedBy(c)
  BY AloneAccounts DEF ClusterInv, Tallies
<1>4. o \in Objects
  BY <1>1, CallIs DEF Calls, First
<1>5. /\ run'[c].pc = "undo" /\ run'[c].outcome = "rolled_back" /\ run'[c].todo = run[c].todo
      /\ run'[c].recipe = r /\ run'[c].applied = run[c].applied
  BY <1>1, FieldsAfter
<1>6. \A p \in Present' : p \in Present \/ (p = o /\ (Kind(o) \in Removable => o \in excused'))
  BY <1>1, <1>2, <1>4, TypeIs DEF Present, Excuse
<1>7. Applied(c)' = Applied(c)
  BY <1>5 DEF Applied
<1>8. AccountedBy(c)'
  BY <1>1, <1>3, <1>5, <1>6, <1>7, ListedWhileWorking, ExcusedGrow DEF AccountedBy, Pending
<1>9. Undoes(c)'
  BY <1>1, <1>3, <1>5, <1>7 DEF Undoes, Tally
<1>10. Installs(c)' /\ HasInstalled(c)' /\ HasUndone(c)' /\ Cleans(c)'
  BY <1>5 DEF Installs, HasInstalled, HasUndone, Cleans
<1> QED
  BY <1>1, <1>8, <1>9, <1>10, AloneWorks

LEMMA ClusterReadinessFails ==
  ASSUME HistoryInv, ClusterInv, NEW c \in Callers, ReadinessFails(c), c \in alone
  PROVE  ClusterInv'
<1>1. Works(c) /\ TypeOK /\ run[c].pc = "apply" /\ UNCHANGED <<ns, excused>>
  BY DEF Works, HistoryInv, ReadinessFails, history
<1>2. Tally(c) /\ AccountedBy(c)
  BY AloneAccounts DEF ClusterInv, Tallies
<1>3. /\ run'[c].pc = "undo" /\ run'[c].outcome = "rolled_back" /\ run'[c].todo = run[c].todo
      /\ run'[c].recipe = run[c].recipe /\ run'[c].applied = run[c].applied
  BY <1>1, FieldsAfter
<1>4. Applied(c)' = Applied(c)
  BY <1>3 DEF Applied
<1>5. AccountedBy(c)'
  BY <1>1, <1>2, <1>3, <1>4, ListedWhileWorking DEF AccountedBy, Pending, Present
<1>6. Undoes(c)'
  BY <1>1, <1>2, <1>3, <1>4 DEF Undoes, Tally
<1>7. Installs(c)' /\ HasInstalled(c)' /\ HasUndone(c)' /\ Cleans(c)'
  BY <1>3 DEF Installs, HasInstalled, HasUndone, Cleans
<1> QED
  BY <1>1, <1>5, <1>6, <1>7, AloneWorks

LEMMA ClusterBecomesReady ==
  ASSUME HistoryInv, ClusterInv, NEW c \in Callers, BecomesReady(c), c \in alone
  PROVE  ClusterInv'
<1>1. Works(c) /\ TypeOK /\ run[c].pc = "apply" /\ run[c].todo = {} /\ UNCHANGED <<ns, excused>>
  BY DEF Works, HistoryInv, BecomesReady, history
<1>2. Tally(c) /\ AccountedBy(c) /\ Relies(c)
  BY AloneAccounts DEF ClusterInv, Tallies
<1>3. /\ run'[c].pc = "record" /\ run'[c].outcome = "success" /\ run'[c].recipe = run[c].recipe
  BY <1>1, FieldsAfter
<1>4. Pending(c) \subseteq Pending(c)'
  BY <1>1, <1>2, <1>3 DEF Tally, Pending
<1>5. AccountedBy(c)'
  BY <1>1, <1>2, <1>4, ListedWhileWorking DEF AccountedBy, Present
<1>6. HasInstalled(c)'
  BY <1>1, <1>2, <1>3 DEF Relies, Installs, HasInstalled
<1>7. Cleans(c)'
  BY <1>1, <1>2, <1>3 DEF Relies, Cleans, Present
<1>8. Installs(c)' /\ Undoes(c)' /\ HasUndone(c)'
  BY <1>3 DEF Installs, Undoes, HasUndone
<1> QED
  BY <1>1, <1>5, <1>6, <1>7, <1>8, AloneWorks

LEMMA ClusterUndoObject ==
  ASSUME HistoryInv, ClusterInv, NEW c \in Callers, UndoObject(c), c \in alone
  PROVE  ClusterInv'
<1>1. Works(c) /\ TypeOK /\ run[c].pc = "undo" /\ run[c].applied # <<>>
  BY DEF Works, HistoryInv, UndoObject
<1> PICK o : o = run[c].applied[Len(run[c].applied)]
  OBVIOUS
<1>2. /\ run'[c].pc = "undo" /\ run'[c].todo = run[c].todo /\ run'[c].recipe = run[c].recipe
      /\ o \in Objects
      /\ Applied(c)' \subseteq Applied(c) /\ Applied(c) \subseteq Applied(c)' \cup {o}
  BY <1>1, FieldsAfterUndo
<1>3. /\ Present' \subseteq Present /\ excused \subseteq excused'
      /\ Kind(o) \in Removable /\ o \in Present' => o \in excused'
  <2>1. CASE DeleteObject(o)
    BY <1>1, <1>2, <2>1, Deleted
  <2>2. CASE UNCHANGED <<ns, excused>> /\ Kind(o) \notin Undoable
    <3>1. Kind(o) \notin Removable
      BY <2>2 DEF Removable, Undoable
    <3> QED
      BY <2>2, <3>1 DEF Present
  <2> QED
    BY <2>1, <2>2 DEF UndoObject
<1>4. AccountedBy(c) /\ Relies(c)
  BY AloneAccounts DEF ClusterInv, Tallies
<1>5. AccountedBy(c)'
  BY <1>1, <1>2, <1>3, <1>4, ListedWhileWorking DEF AccountedBy, Pending
<1>6. Undoes(c)'
  BY <1>1, <1>2, <1>3, <1>4 DEF Relies, Undoes
<1>7. Installs(c)' /\ HasInstalled(c)' /\ HasUndone(c)' /\ Cleans(c)'
  BY <1>2 DEF Installs, HasInstalled, HasUndone, Cleans
<1> QED
  BY <1>1, <1>5, <1>6, <1>7, AloneWorks

LEMMA ClusterUndoDone ==
  ASSUME HistoryInv, ClusterInv, NEW c \in Callers, UndoDone(c), c \in alone
  PROVE  ClusterInv'
<1>1. Works(c) /\ TypeOK /\ run[c].pc = "undo" /\ run[c].applied = <<>> /\ UNCHANGED <<ns, excused>>
  BY DEF Works, HistoryInv, UndoDone, history
<1>2. Tally(c) /\ AccountedBy(c) /\ Relies(c)
  BY AloneAccounts DEF ClusterInv, Tallies
<1>3. /\ run'[c].pc = "record" /\ run'[c].outcome = run[c].outcome /\ run'[c].todo = run[c].todo
      /\ run'[c].recipe = run[c].recipe
  BY <1>1, FieldsAfter
<1>4. run[c].outcome = "rolled_back" /\ Applied(c) = {}
  BY <1>1, <1>2 DEF Tally, Applied
<1>5. AccountedBy(c)'
  <2>1. Pending(c) = {}
    BY <1>1, <1>4 DEF Pending
  <2> QED
    BY <1>1, <1>2, <2>1, ListedWhileWorking DEF AccountedBy, Present
<1>6. HasUndone(c)'
  BY <1>1, <1>2, <1>3, <1>4 DEF Relies, Undoes, HasUndone, Present
<1>7. Installs(c)' /\ HasInstalled(c)' /\ Undoes(c)' /\ Cleans(c)'
  BY <1>3, <1>4 DEF Installs, HasInstalled, Undoes, Cleans
<1> QED
  BY <1>1, <1>5, <1>6, <1>7, AloneWorks

-----------------------------------------------------------------------------
(* Each step and the cluster *)

LEMMA WorkCluster ==
  ASSUME HistoryInv, ClusterInv, NEW c \in Callers, Works(c)
  PROVE  ClusterInv'
<1>1. TypeOK /\ TypeOK' /\ Tally(c)' /\ Tallies'
  BY WorkTypes, WorkTally, WorkGoesOn, TalliesStay DEF HistoryInv, ClusterInv, Tallies
<1>2. Moves(c) /\ Keeps(c) /\ Went(c) /\ UNCHANGED <<deploys, alone>>
  BY WorkGoesOn DEF HistoryInv
<1>3. excused \subseteq excused'
  BY ExcusedGrow
<1>4. CASE c \notin InCluster
  <2>1. RunLocally(c)
    BY <1>4 DEF Works, InCluster, PrepareFails, Prepare, DeleteNext, CleanupDone, ApplyObject,
       ApplyFails, BecomesReady, ReadinessFails, UndoObject, UndoDone
  <2>2. run[c].pc = "local" /\ run'[c].pc = "record" /\ run[c].target = "local"
    BY <1>2, <2>1 DEF RunLocally, Went, Where, HistoryInv, Shapes, Shape
  <2>3. c \notin InCluster'
    BY <1>2, <2>2 DEF InCluster, Keeps
  <2>4. UNCHANGED ns /\ Grows /\ Successes' = Successes
    BY <1>2, <2>1 DEF RunLocally, Grows, Successes
  <2> QED
    BY <1>1, <1>2, <1>3, <1>4, <2>3, <2>4, Outside
<1>5. CASE c \in InCluster /\ c \notin alone
  <2>1. alone' = {} /\ AllExcused'
    BY <1>2, <1>3, <1>5, NotAlone, ExcusedStay
  <2> QED
    BY <1>1, <2>1, Crowd
<1>6. CASE c \in alone /\ c \in InCluster
  <2>1. ~RunLocally(c)
    BY <1>6 DEF RunLocally, InCluster
  <2> QED
    BY <1>6, <2>1, ClusterPrepareFails, ClusterPrepare, ClusterDeleteNext, ClusterCleanupDone,
       ClusterApplyObject, ClusterApplyFails, ClusterBecomesReady, ClusterReadinessFails,
       ClusterUndoObject, ClusterUndoDone DEF Works
<1> QED
  BY <1>4, <1>5, <1>6

LEMMA BeginCluster ==
  ASSUME HistoryInv, HistoryInv', ClusterInv, NEW c \in Callers, NEW call \in Calls,
         call.recipe \in Recipes, call.applied = <<>>, Begin(c, call), c \notin InCluster
  PROVE  ClusterInv'
<1>1. TypeOK /\ TypeOK'
  BY DEF HistoryInv
<1> PICK n : n = Len(deploys) + 1
  OBVIOUS
<1>2. /\ Moves(c)
      /\ run'[c].pc = IF call.target = "local" THEN "local" ELSE "prepare"
      /\ run'[c].id = n /\ run'[c].applied = <<>>
      /\ deploys'[n] = Inserted(call)
      /\ \A i \in DOMAIN deploys : i \in DOMAIN deploys' /\ deploys'[i] = deploys[i]
      /\ \A i \in DOMAIN deploys' : i \in DOMAIN deploys \/ i = n
  BY <1>1, BeginsRow
<1>3. Grows /\ Successes' = Successes /\ \A i \in Successes : i < n
  <2>1. n \notin Successes'
    BY <1>2 DEF Inserted, Successes
  <2> QED
    BY <1>1, <1>2, <2>1, RowsAre DEF Grows, Successes
<1>4. Tally(c)'
  BY <1>2 DEF Tally
<1>5. CASE call.target = "local"
  <2>1. c \notin InCluster'
    BY <1>2, <1>5 DEF InCluster
  <2>2. UNCHANGED <<ns, alone, excused>>
    BY <1>5 DEF Begin, history
  <2> QED
    BY <1>1, <1>2, <1>3, <1>4, <2>1, <2>2, Outside
<1>6. CASE call.target # "local"
  <2>1. EnterCluster(c) /\ UNCHANGED ns
    BY <1>6 DEF Begin
  <2> QED
    BY <1>1, <1>2, <1>3, <1>4, <1>6, <2>1, Entering
<1> QED
  BY <1>5, <1>6

LEMMA DeployCluster ==
  ASSUME HistoryInv, HistoryInv', ClusterInv, NEW c \in Callers, Deploy(c)
  PROVE  ClusterInv' \/ UNCHANGED vars
<1>1. c \notin InCluster
  BY DEF Deploy, InCluster
<1>2. ASSUME NEW r \in Recipes, NEW t \in {"kubernetes", "local"},
             Begin(c, [Idle EXCEPT !.recipe = r, !.target = t])
      PROVE  ClusterInv'
  <2> DEFINE call == [Idle EXCEPT !.recipe = r, !.target = t]
  <2>1. call \in Calls /\ call.recipe = r /\ call.applied = <<>>
    BY IdleIsCall DEF Calls, Idle
  <2> HIDE DEF call
  <2> QED
    BY <1>1, <1>2, <2>1, BeginCluster DEF call
<1> QED
  BY <1>2 DEF Deploy

(* A call that is not in the cluster, and changes no row. *)
LEMMA OutsideCluster ==
  ASSUME HistoryInv, HistoryInv', ClusterInv, NEW c \in Callers, Moves(c),
         UNCHANGED <<ns, deploys, alone, excused>>,
         c \notin InCluster, c \notin InCluster', Tally(c)'
  PROVE  ClusterInv'
<1>1. Grows /\ Successes' = Successes
  BY DEF Grows, Successes
<1> QED
  BY <1>1, Outside DEF HistoryInv

LEMMA RollbackCluster ==
  ASSUME HistoryInv, HistoryInv', ClusterInv, NEW c \in Callers,
         RollbackReadsPrevious(c) \/ RollbackReadsCurrent(c) \/ RollbackDeploys(c)
  PROVE  ClusterInv'
<1>1. TypeOK /\ run[c] \in Calls /\ Tally(c)
  BY CallIs DEF HistoryInv, ClusterInv, Tallies
<1>2. c \notin InCluster
  BY DEF InCluster, RollbackReadsPrevious, RollbackReadsCurrent, RollbackDeploys
<1>3. CASE RollbackReadsPrevious(c)
  <2> PICK r : r = deploys[PreviousSuccessfulDeploy].recipe
    OBVIOUS
  <2>1. PICK t \in {"kubernetes", "local"} :
          run' = [run EXCEPT ![c] = [Idle EXCEPT !.pc = IF t = "local" THEN "starting" ELSE "chosen",
                                                 !.recipe = r, !.target = t, !.rollback = TRUE]]
    BY <1>3 DEF RollbackReadsPrevious
  <2> PICK p : p = IF t = "local" THEN "starting" ELSE "chosen"
    OBVIOUS
  <2> PICK k : k = [Idle EXCEPT !.pc = p, !.recipe = r, !.target = t, !.rollback = TRUE]
    OBVIOUS
  <2>2. k.pc = p /\ k.applied = <<>>
    BY DEF Idle
  <2>3. run'[c] = k
    BY <1>1, <2>1, TypeIs
  <2>4. Moves(c)
    BY <1>1, <2>1, TypeIs, TypeIsNext DEF HistoryInv, Moves
  <2>5. Tally(c)' /\ c \notin InCluster'
    BY <2>2, <2>3 DEF Tally, InCluster
  <2> QED
    BY <1>2, <1>3, <2>4, <2>5, OutsideCluster DEF RollbackReadsPrevious, history
<1>4. CASE RollbackReadsCurrent(c)
  <2>1. run'[c].pc = "starting" /\ run'[c].applied = run[c].applied
    BY <1>1, <1>4, TypeIs DEF RollbackReadsCurrent, Calls
  <2>2. Moves(c)
    BY <1>1, <1>4, TypeIs, TypeIsNext DEF RollbackReadsCurrent, HistoryInv, Moves
  <2>3. Tally(c)' /\ c \notin InCluster'
    BY <1>1, <1>4, <2>1 DEF Tally, InCluster, RollbackReadsCurrent
  <2> QED
    BY <1>2, <1>4, <2>2, <2>3, OutsideCluster DEF RollbackReadsCurrent, history
<1>5. CASE RollbackDeploys(c)
  <2>1. run[c].pc = "starting" /\ run[c].recipe \in Recipes /\ run[c].applied = <<>>
    BY <1>1, <1>5 DEF RollbackDeploys, HistoryInv, Shapes, Shape, Tally
  <2>2. CASE Begin(c, run[c])
    BY <1>1, <1>2, <2>1, <2>2, BeginCluster
  <2>3. CASE Returns(c) /\ UNCHANGED <<ns, deploys, history>>
    <3>1. Moves(c) /\ run'[c].pc = "idle"
      BY <1>1, <2>3, CallReturns
    <3>2. Tally(c)' /\ c \notin InCluster'
      BY <3>1 DEF Tally, InCluster
    <3> QED
      BY <1>2, <2>3, <3>1, <3>2, OutsideCluster DEF history
  <2> QED
    BY <1>5, <2>2, <2>3 DEF RollbackDeploys
<1> QED
  BY <1>3, <1>4, <1>5

LEMMA ReferenceCluster ==
  ASSUME HistoryInv, HistoryInv', ClusterInv, NEW c \in Callers, SetRollbackOf(c)
  PROVE  ClusterInv'
<1>1. Moves(c) /\ run'[c].pc = "idle"
  BY CallReturns DEF SetRollbackOf, HistoryInv
<1>2. c \notin InCluster /\ c \notin InCluster' /\ Tally(c)'
  BY <1>1 DEF InCluster, SetRollbackOf, Tally
<1>3. Grows /\ Successes' = Successes
  BY RowReferred DEF Successes
<1>4. UNCHANGED <<ns, alone, excused>>
  BY DEF SetRollbackOf, history
<1> QED
  BY <1>1, <1>2, <1>3, <1>4, Outside DEF HistoryInv

LEMMA DownCluster ==
  ASSUME HistoryInv, HistoryInv', ClusterInv, NEW c \in Callers, Down(c)
  PROVE  ClusterInv'
<1>1. TypeOK /\ run[c] \in Calls
  BY CallIs DEF HistoryInv
<1>2. PICK t : run' = [run EXCEPT ![c].pc = "down", ![c].todo = t]
  BY DEF Down
<1>3. run'[c].pc = "down"
  BY <1>1, <1>2, TypeIs DEF Calls
<1>4. Moves(c)
  BY <1>1, <1>2, TypeIs, TypeIsNext DEF HistoryInv, Moves
<1>5. Tally(c)'
  BY <1>3 DEF Tally
<1>6. Grows /\ Successes' = Successes
  BY DEF Down, Grows, Successes
<1> QED
  BY <1>3, <1>4, <1>5, <1>6, Entering DEF Down, HistoryInv

LEMMA DownDoneCluster ==
  ASSUME HistoryInv, HistoryInv', ClusterInv, NEW c \in Callers, DownDone(c)
  PROVE  ClusterInv'
<1>1. Moves(c) /\ run'[c].pc = "idle"
  BY CallReturns DEF DownDone, HistoryInv
<1>2. c \in InCluster /\ c \notin InCluster' /\ Tally(c)'
  BY <1>1 DEF InCluster, DownDone, Tally
<1>3. ASSUME c \in alone
      PROVE  \A o \in Present' : Kind(o) \in Removable => o \in excused' \/ Listed(o)'
  <2>1. AccountedBy(c) /\ Pending(c) = {}
    BY <1>3, AloneAccounts DEF Pending, DownDone
  <2> QED
    BY <2>1 DEF DownDone, AccountedBy, Present, Listed, LatestSuccessfulDeploy, Successes
<1> QED
  BY <1>1, <1>2, <1>3, Leaving DEF DownDone, HistoryInv

LEMMA CrashCluster ==
  ASSUME HistoryInv, HistoryInv', ClusterInv, NEW c \in Callers, Crash(c)
  PROVE  ClusterInv'
<1>1. Moves(c) /\ run'[c].pc = "idle"
  BY CallReturns DEF Crash, HistoryInv
<1>2. c \notin InCluster' /\ Tally(c)'
  BY <1>1 DEF InCluster, Tally
<1>3. excused \subseteq excused' /\ UNCHANGED <<ns, deploys>>
  BY DEF Crash, Excuse
<1>4. CASE c \in InCluster
  <2>1. ASSUME c \in alone
        PROVE  \A o \in Present' : Kind(o) \in Removable => o \in excused' \/ Listed(o)'
    <3>1. AccountedBy(c)
      BY <2>1, AloneAccounts
    <3>2. Pending(c) # {} => run[c].recipe \in Recipes
      BY DEF Pending, HistoryInv, Shapes, Shape, Begun
    <3>3. Pending(c) \subseteq ObjectsOf(run[c].recipe)
      BY DEF Pending, ClusterInv, Tallies, Tally
    <3>4. \A o \in Pending(c) : Kind(o) \in Removable => o \in excused'
      BY <1>4, <3>2, <3>3, RecipesAssumption DEF Crash, Excuse
    <3> QED
      BY <1>3, <3>1, <3>4 DEF AccountedBy, Present, Listed, LatestSuccessfulDeploy, Successes
  <2> QED
    BY <1>1, <1>2, <1>3, <1>4, <2>1, Leaving DEF Crash, HistoryInv
<1>5. CASE c \notin InCluster
  <2>1. c \notin alone
    BY <1>5 DEF ClusterInv, AloneIsAlone
  <2>2. UNCHANGED alone /\ Grows /\ Successes' = Successes
    BY <1>3, <2>1 DEF Crash, LeaveCluster, Grows, Successes
  <2> QED
    BY <1>1, <1>2, <1>3, <1>5, <2>2, Outside DEF HistoryInv
<1> QED
  BY <1>4, <1>5

LEMMA CompleteCluster ==
  ASSUME HistoryInv, HistoryInv', ClusterInv, NEW c \in Callers, CompleteDeploy(c)
  PROVE  ClusterInv'
<1>1. TypeOK /\ run[c] \in Calls /\ run[c].pc = "record" /\ UNCHANGED ns /\ LeaveCluster(c)
  BY CallIs DEF HistoryInv, CompleteDeploy
<1>2. Moves(c) /\ run'[c].pc \in {"idle", "reference"}
  BY <1>1, CallCompleted DEF Idle
<1>3. c \notin InCluster' /\ Tally(c)'
  BY <1>2 DEF InCluster, Tally
<1>4. PICK recorded \in BOOLEAN :
        /\ deploys' = IF recorded
                      THEN [deploys EXCEPT ![run[c].id].status = run[c].outcome]
                      ELSE deploys
        /\ Excuse(Unlisted(c, recorded))
  BY DEF CompleteDeploy
<1>5. excused \subseteq excused'
  BY <1>4 DEF Excuse
<1> PICK id : id = run[c].id
  OBVIOUS
<1>6. /\ id \in DOMAIN deploys /\ deploys[id].status = "in_progress" /\ Grows
      /\ DOMAIN deploys' = DOMAIN deploys
      /\ \A i \in DOMAIN deploys : i # id => deploys'[i] = deploys[i]
      /\ UNCHANGED deploys \/ deploys'[id].status = run[c].outcome
  BY RowCompleted
<1>7. Successes' = Successes \/ (run[c].outcome = "success" /\ Successes' = Successes \cup {id})
  BY <1>6 DEF Successes
<1>8. CASE run[c].target = "local"
  <2>1. c \notin InCluster
    BY <1>1, <1>8 DEF InCluster
  <2>2. UNCHANGED alone
    BY <2>1 DEF CompleteDeploy, LeaveCluster, ClusterInv, AloneIsAlone
  <2>3. ASSUME run[c].outcome = "success"
        PROVE  \/ InCluster = {} /\ \A o \in Present : Kind(o) \in Removable => o \in excused'
               \/ AllExcused'
    BY <1>4, <1>8, <2>3 DEF Excuse, Unlisted, AllExcused
  <2> QED
    BY <1>1, <1>2, <1>3, <1>5, <1>6, <1>7, <2>1, <2>2, <2>3, Outside DEF HistoryInv
<1>9. CASE run[c].target # "local"
  <2>1. run[c].target = "kubernetes" /\ c \in InCluster
    BY <1>1, <1>9 DEF InCluster, Calls
  <2>2. ASSUME c \in alone
        PROVE  \A o \in Present' : Kind(o) \in Removable => o \in excused' \/ Listed(o)'
    <3>1. AccountedBy(c) /\ Relies(c)
      BY <2>2, AloneAccounts
    <3>2. CASE run[c].outcome # "success"
      <4>1. Pending(c) = {}
        BY <1>1, <3>2 DEF Pending
      <4>2. \A o : Listed(o)' <=> Listed(o)
        BY <1>1, <1>6, <1>7, <3>2, ListedStay, SuccessesGrow
      <4> QED
        BY <1>1, <1>5, <3>1, <4>1, <4>2 DEF AccountedBy, Present
    <3>3. CASE run[c].outcome = "success" /\ ~recorded
      <4>1. Pending(c) \subseteq ObjectsOf(run[c].recipe)
        BY <1>1 DEF Pending
      <4>2. \A o \in ObjectsOf(run[c].recipe) : Kind(o) \in Removable => o \in excused'
        BY <1>4, <1>9, <3>3 DEF Excuse, Unlisted
      <4>3. UNCHANGED deploys
        BY <1>4, <3>3
      <4> QED
        BY <1>1, <1>5, <3>1, <4>1, <4>2, <4>3
        DEF AccountedBy, Present, Listed, LatestSuccessfulDeploy, Successes
    <3>4. CASE run[c].outcome = "success" /\ recorded
      <4>1. deploys'[id].status = "success"
        <5>1. deploys' = [deploys EXCEPT ![id] = [deploys[id] EXCEPT !.status = "success"]]
          BY <1>4, <3>4
        <5>2. deploys[id] \in Rows
          BY <1>1, <1>6, RowsAre
        <5> QED
          BY <1>6, <5>1, <5>2 DEF Rows
      <4>2. Successes' = Successes \cup {id}
        BY <1>6, <4>1 DEF Successes
      <4>3. \A o \in Present' : Kind(o) \in Removable =>
               o \in excused \/ Slice(o) \in SlicesOf[run[c].recipe]
        BY <1>1, <3>1, <3>4 DEF Relies, Cleans, Present
      <4>4. deploys'[id].recipe = run[c].recipe
        BY <1>1, <1>6 DEF HistoryInv, RowsOfCalls, RowOf, Begun, Grows
      <4>5. CASE AllExcused
        BY <1>1, <1>5, <4>5 DEF AllExcused, Present
      <4>6. CASE \A i \in Successes : i < id
        <5>1. TypeOK' /\ Successes' # {}
          BY <4>2 DEF HistoryInv
        <5>2. (LatestSuccessfulDeploy)' = id
          <6>1. /\ (LatestSuccessfulDeploy)' \in Successes'
                /\ \A j \in Successes' : j <= (LatestSuccessfulDeploy)'
            BY <5>1, LatestIsNext
          <6>2. id \in Nat /\ Successes \subseteq Nat
            BY <1>1, <1>6, RowsAre
          <6> QED
            BY <4>2, <4>6, <6>1, <6>2
        <5> QED
          BY <1>5, <4>3, <4>4, <5>1, <5>2 DEF Listed
      <4> QED
        BY <1>1, <3>1, <4>5, <4>6 DEF Relies, StaysNewest, Begun
    <3> QED
      BY <3>2, <3>3, <3>4
  <2> QED
    BY <1>1, <1>2, <1>3, <1>5, <2>1, <2>2, Leaving DEF HistoryInv
<1> QED
  BY <1>8, <1>9

LEMMA InitCluster ==
  ASSUME Init
  PROVE  ClusterInv
<1>1. \A c \in Callers : run[c].pc = "idle"
  BY DEF Init, Idle
<1>2. alone = {} /\ Present = {} /\ InCluster = {}
  BY <1>1 DEF Init, Present, InCluster
<1>3. Tallies
  BY <1>1 DEF Tallies, Tally
<1> QED
  BY <1>2, <1>3 DEF ClusterInv, AloneIsAlone, CrowdIsExcused, Accounted

LEMMA StutterCluster ==
  ASSUME ClusterInv, UNCHANGED vars
  PROVE  ClusterInv'
<1> USE DEF vars, history
<1>1. Successes' = Successes /\ Present' = Present /\ InCluster' = InCluster
  BY DEF Successes, Present, InCluster
<1>2. \A o : Listed(o)' <=> Listed(o)
  BY <1>1 DEF Listed, LatestSuccessfulDeploy
<1>3. \A c \in Callers : Pending(c)' = Pending(c) /\ Applied(c)' = Applied(c)
  BY DEF Pending, Applied
<1>4. Tallies'
  BY <1>3 DEF ClusterInv, Tallies, Tally
<1>5. AloneIsAlone' /\ CrowdIsExcused'
  BY <1>1 DEF ClusterInv, AloneIsAlone, CrowdIsExcused, AllExcused
<1>6. Accounted'
  BY <1>1, <1>2 DEF ClusterInv, Accounted, Pending, Applied
<1>7. ASSUME NEW c \in alone
      PROVE  Relies(c)'
  <2>1. Relies(c)
    BY DEF ClusterInv
  <2>2. StaysNewest(c)'
    BY <1>1, <2>1 DEF Relies, StaysNewest, AllExcused
  <2>3. Installs(c)' /\ HasInstalled(c)'
    BY <2>1 DEF Relies, Installs, HasInstalled
  <2>4. Undoes(c)' /\ HasUndone(c)' /\ Cleans(c)'
    BY <1>1, <2>1 DEF Relies, Undoes, HasUndone, Cleans, Applied
  <2> QED
    BY <2>2, <2>3, <2>4 DEF Relies
<1> QED
  BY <1>4, <1>5, <1>6, <1>7 DEF ClusterInv

LEMMA NextCluster ==
  ASSUME HistoryInv, HistoryInv', ClusterInv, [Next]_vars
  PROVE  ClusterInv'
<1>1. CASE UNCHANGED vars
  BY <1>1, StutterCluster
<1>2. ASSUME NEW c \in Callers,
             Works(c) \/ Steers(c) \/ CompleteDeploy(c) \/ SetRollbackOf(c)
      PROVE  ClusterInv'
  <2>1. CASE Works(c)
    BY <2>1, WorkCluster
  <2>2. CASE Steers(c)
    BY <2>2, StutterCluster, DeployCluster, RollbackCluster, DownCluster, DownDoneCluster,
       CrashCluster DEF Steers
  <2>3. CASE CompleteDeploy(c)
    BY <2>3, CompleteCluster
  <2>4. CASE SetRollbackOf(c)
    BY <2>4, ReferenceCluster
  <2> QED
    BY <1>2, <2>1, <2>2, <2>3, <2>4
<1> QED
  BY <1>1, <1>2, NextIs

LEMMA Invariant == Spec => []IInv
<1>1. Init => IInv
  BY InitHistory, InitCluster DEF IInv
<1>2. IInv /\ [Next]_vars => IInv'
  BY NextHistory, NextCluster DEF IInv
<1> QED
  BY <1>1, <1>2, PTL DEF Spec

(* A Kubernetes deploy that has the namespace to itself, and is about to be
   recorded as a success, has put all its objects there at its version
   (deployer.go:180 to 214), whatever was refused, lost or killed before. *)
THEOREM SuccessTrue == Spec => []SuccessIsInstalled
<1>1. IInv => SuccessIsInstalled
  BY DEF IInv, ClusterInv, Relies, HasInstalled, SuccessIsInstalled
<1> QED
  BY <1>1, Invariant, PTL

(* A deploy that is rolled back leaves nothing of what it applied, and with
   nobody at work what is in the namespace is where the next Deploy will look
   for it (cleanup.go:19), but for the leftovers that are excused. *)
THEOREM NothingLeft == Spec => []NothingLeftBehind
<1>1. ASSUME IInv
      PROVE  UndoIsComplete
  BY <1>1 DEF IInv, ClusterInv, Relies, HasUndone, UndoIsComplete
<1>2. ASSUME IInv
      PROVE  NothingUnaccounted
  BY <1>2 DEF IInv, ClusterInv, AloneIsAlone, Accounted, Listed, NothingUnaccounted
<1> QED
  BY <1>1, <1>2, Invariant, PTL DEF NothingLeftBehind

=============================================================================
