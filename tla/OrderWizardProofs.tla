------------------------- MODULE OrderWizardProofs -------------------------
(***************************************************************************)
(* What is reviewed in the wizard is what was picked and built, and the    *)
(* app that was picked becomes a slice, for any names and any number of    *)
(* slices.                                                                 *)
(***************************************************************************)
EXTENDS OrderWizard, SequenceTheorems, FiniteSetTheorems, TLAPS

RemoteOK ==
    /\ aliases \subseteq Names /\ creating \in Names \cup {""}
    /\ framework \in [detections : {0, 1}, known : BOOLEAN, shown : BOOLEAN]

PossibleChoices == [alias : Names \cup {""}, template : Names \cup {""}, imported : Imports \cup {""}]

ChoiceOK == choice \in PossibleChoices /\ step \in 1..3 /\ name \in Words /\ crossed \in BOOLEAN

(* There is always a slice, and an active one. *)
CartOK ==
    /\ slices \in Seq(Slices) /\ Len(slices) \in 1..MaxSlices
    /\ active \in DOMAIN slices

ReviewOK ==
    /\ recipe.kind \in {"none", "template", "imported", "built"}
    /\ recipe = NoRecipe <=> step # 3
    /\ editing \in BOOLEAN

(* At most one of the three choices is made, and what is reviewed is made of it;
   or a late answer has added a choice. *)
OneChoice ==
    /\ choice.alias = "" \/ choice.template = ""
    /\ choice.alias = "" \/ choice.imported = ""
    /\ choice.template = "" \/ choice.imported = ""

Reviewed == ~crossed => OneChoice /\ (step = 3 => recipe = RecipeOf)

IInv == RemoteOK /\ ChoiceOK /\ CartOK /\ ReviewOK /\ Reviewed /\ ReviewIsBuilt

-----------------------------------------------------------------------------
(* Slices *)

LEMMA DefaultIsSlice == Default \in Slices
  BY DEF Default, Slices, Words

LEMMA OneSlice == <<Default>> \in Seq(Slices) /\ Len(<<Default>>) = 1 /\ DOMAIN <<Default>> = {1}
  BY DefaultIsSlice

(* The places of a cart that is as it should be. *)
LEMMA Places ==
  ASSUME CartOK
  PROVE  /\ Len(slices) \in Nat /\ MaxSlices \in Nat
         /\ DOMAIN slices = 1..Len(slices)
         /\ \A i \in DOMAIN slices : slices[i] \in Slices
<1>1. Len(slices) \in Nat /\ DOMAIN slices = 1..Len(slices)
  BY LenProperties DEF CartOK
<1>2. \A i \in 1..Len(slices) : slices[i] \in Slices
  BY ElementOfSeq DEF CartOK
<1>3. QED
  BY <1>1, <1>2, NamesAssumption

(* A place in the list that is shown is one of the cart's, though seldom the one
   it is shown for (the i of the buttons). *)
LEMMA ShownIsPlace == ASSUME CartOK PROVE Shown \subseteq DOMAIN slices
<1>1. Len(slices) \in Nat /\ DOMAIN slices = 1..Len(slices) /\ Len(slices) > 0
  BY Places DEF CartOK
<1>2. IsFiniteSet(1..Len(slices)) /\ Cardinality(1..Len(slices)) = Len(slices)
  <2>1. 1 \in Int /\ Len(slices) \in Int
    BY <1>1
  <2>2. /\ IsFiniteSet(1..Len(slices))
        /\ Cardinality(1..Len(slices)) = IF 1 > Len(slices) THEN 0 ELSE Len(slices) - 1 + 1
    BY <2>1, FS_Interval
  <2>3. QED
    BY <1>1, <2>2
<1>3. Built \in SUBSET (1..Len(slices))
  BY <1>1 DEF Built
<1>4. IsFiniteSet(Built) /\ Cardinality(Built) <= Cardinality(1..Len(slices))
  BY <1>2, <1>3, FS_Subset
<1>5. Cardinality(Built) \in Nat
  BY <1>4, FS_CardinalityType
<1>6. QED
  BY <1>1, <1>2, <1>4, <1>5 DEF Shown

(* One slice changes: the cart keeps its places. *)
LEMMA OneChanges ==
  ASSUME CartOK, NEW i \in DOMAIN slices, NEW s \in Slices
  PROVE  /\ [slices EXCEPT ![i] = s] \in Seq(Slices)
         /\ Len([slices EXCEPT ![i] = s]) = Len(slices)
         /\ DOMAIN [slices EXCEPT ![i] = s] = DOMAIN slices
<1>1. i \in 1..Len(slices)
  BY Places
<1>2. QED
  BY <1>1, ExceptSeq DEF CartOK

(* RemoveAt, of the community modules, leaves the other slices, in their order. *)
Without(i, j) == IF j < i THEN slices[j] ELSE slices[j + 1]

LEMMA Removed ==
  ASSUME CartOK, NEW i \in DOMAIN slices
  PROVE  \A j \in 1..(Len(slices) - 1) : /\ RemoveAt(slices, i)[j] = Without(i, j)
                                         /\ RemoveAt(slices, i)[j] \in Slices
<1>1. Len(slices) \in Nat /\ i \in 1..Len(slices) /\ \A k \in 1..Len(slices) : slices[k] \in Slices
  BY Places
<1> DEFINE before == SubSeq(slices, 1, i - 1)
           after  == SubSeq(slices, i + 1, Len(slices))
<1>2. /\ before \in Seq(Slices) /\ Len(before) = i - 1
      /\ \A k \in 1..(i - 1) : before[k] = slices[k]
  <2>1. 1 \in Int /\ i - 1 \in Int /\ \A k \in 1..(i - 1) : slices[k] \in Slices
    BY <1>1
  <2>2. /\ before \in Seq(Slices)
        /\ Len(before) = IF 1 <= i - 1 THEN i - 1 - 1 + 1 ELSE 0
        /\ \A k \in 1..(i - 1 - 1 + 1) : before[k] = slices[1 + k - 1]
    BY <2>1, SubSeqProperties
  <2>3. QED
    BY <1>1, <2>2
<1>3. /\ after \in Seq(Slices) /\ Len(after) = Len(slices) - i
      /\ \A k \in 1..(Len(slices) - i) : after[k] = slices[i + k]
  <2>1. i + 1 \in Int /\ Len(slices) \in Int /\ \A k \in (i + 1)..Len(slices) : slices[k] \in Slices
    BY <1>1
  <2>2. /\ after \in Seq(Slices)
        /\ Len(after) = IF i + 1 <= Len(slices) THEN Len(slices) - (i + 1) + 1 ELSE 0
        /\ \A k \in 1..(Len(slices) - (i + 1) + 1) : after[k] = slices[(i + 1) + k - 1]
    BY <2>1, SubSeqProperties
  <2>3. QED
    BY <1>1, <2>2
<1>4. /\ before \o after \in Seq(Slices) /\ Len(before \o after) = Len(before) + Len(after)
      /\ \A j \in 1..(Len(before) + Len(after)) :
            (before \o after)[j] = IF j <= Len(before) THEN before[j] ELSE after[j - Len(before)]
  <2>1. before \in Seq(Slices) /\ after \in Seq(Slices)
    BY <1>2, <1>3
  <2> HIDE DEF before, after
  <2> QED
    BY <2>1, ConcatProperties
<1>5. Len(before \o after) = Len(slices) - 1
  <2> HIDE DEF before, after
  <2> QED
    BY <1>1, <1>2, <1>3, <1>4
<1>6. \A j \in 1..Len(before \o after) : (before \o after)[j] \in Slices
  BY <1>4, ElementOfSeq
<1>7. RemoveAt(slices, i) = before \o after
  BY DEF RemoveAt
<1>8. \A j \in 1..(Len(slices) - 1) : (before \o after)[j] = Without(i, j)
  <2> HIDE DEF before, after
  <2> SUFFICES ASSUME NEW j \in 1..(Len(slices) - 1)
               PROVE  (before \o after)[j] = Without(i, j)
    OBVIOUS
  <2>1. CASE j < i
    <3>1. j \in 1..(i - 1) /\ j <= Len(before) /\ j \in 1..(Len(before) + Len(after))
      BY <1>1, <1>2, <1>3, <2>1
    <3> QED
      BY <1>2, <1>4, <2>1, <3>1 DEF Without
  <2>2. CASE ~(j < i)
    <3>1. /\ j - (i - 1) \in 1..(Len(slices) - i) /\ ~(j <= Len(before))
          /\ j \in 1..(Len(before) + Len(after)) /\ i + (j - (i - 1)) = j + 1
      BY <1>1, <1>2, <1>3, <2>2
    <3>2. (before \o after)[j] = after[j - (i - 1)]
      BY <1>2, <1>4, <3>1
    <3>3. after[j - (i - 1)] = slices[j + 1]
      BY <1>3, <3>1
    <3> QED
      BY <2>2, <3>2, <3>3 DEF Without
  <2> QED
    BY <2>1, <2>2
<1>9. QED
  BY <1>5, <1>6, <1>7, <1>8

(* What is left has one slice less, none of which needs the removed one. *)
LEMMA Left ==
  ASSUME CartOK, NEW i \in DOMAIN slices, NEW left,
         left = [j \in 1..(Len(slices) - 1) |->
                    [RemoveAt(slices, i)[j] EXCEPT !.needs = @ \ {slices[i].name}]]
  PROVE  left \in Seq(Slices) /\ Len(left) = Len(slices) - 1
<1> DEFINE n == Len(slices) - 1
<1>1. n \in Nat
  BY Places DEF CartOK
<1>2. \A j \in 1..n : [RemoveAt(slices, i)[j] EXCEPT !.needs = @ \ {slices[i].name}] \in Slices
  <2>1. ASSUME NEW s \in Slices, NEW w PROVE [s EXCEPT !.needs = @ \ {w}] \in Slices
    BY DEF Slices
  <2>2. QED
    BY <2>1, Removed
<1>3. left \in [1..n -> Slices]
  BY <1>2
<1>4. left \in Seq(Slices)
  BY <1>1, <1>3, SeqDef
<1>5. Len(left) \in Nat /\ DOMAIN left = 1..Len(left)
  BY <1>4, LenProperties
<1>6. 1..Len(left) = 1..n
  BY <1>3, <1>5
<1>7. Len(left) = n
  BY <1>1, <1>5, <1>6
<1>8. QED
  BY <1>4, <1>7

-----------------------------------------------------------------------------
(* The cart *)

(* The wizard as it is mounted: Init, and what PlaceOrder leads to. *)
LEMMA OneSliceIsACart ==
  ASSUME slices = <<Default>>, active = 1 PROVE CartOK
<1>1. slices \in Seq(Slices) /\ Len(slices) = 1 /\ DOMAIN slices = {1}
  BY OneSlice
<1>2. 1 \in 1..MaxSlices
  <2>1. MaxSlices \in Nat /\ MaxSlices # 0
    BY NamesAssumption
  <2>2. QED
    BY <2>1
<1>3. QED
  BY <1>1, <1>2 DEF CartOK

LEMMA NoChoiceIsOne ==
  /\ NoChoice \in PossibleChoices
  /\ NoChoice.alias = "" /\ NoChoice.template = "" /\ NoChoice.imported = ""
  BY DEF NoChoice, PossibleChoices

LEMMA InitIInv == Init => IInv
<1> SUFFICES ASSUME Init PROVE IInv
  OBVIOUS
<1>1. RemoteOK
  BY DEF Init, RemoteOK, NoFramework
<1>2. choice = NoChoice /\ name = "" /\ recipe = NoRecipe
  BY DEF Init
<1>3. crossed = FALSE /\ editing = FALSE
  BY Zenon DEF Init
<1> step \in 1..3 /\ step # 3
  <2>1. step = 1
    BY Zenon DEF Init
  <2>2. QED
    BY <2>1
<1>4. ChoiceOK
  <2>1. crossed \in BOOLEAN
    BY <1>3
  <2>2. choice \in PossibleChoices /\ name \in Words
    BY <1>2, NoChoiceIsOne DEF Words
  <2>3. QED
    BY <2>1, <2>2 DEF ChoiceOK
<1>5. CartOK
  <2>1. slices = <<Default>> /\ active = 1
    BY Zenon DEF Init
  <2>2. QED
    BY <2>1, OneSliceIsACart
<1>6. ReviewOK
  <2>1. editing \in BOOLEAN
    BY <1>3
  <2>2. recipe.kind = "none"
    BY <1>2 DEF NoRecipe
  <2>3. QED
    BY <1>2, <2>1, <2>2 DEF ReviewOK
<1>7. Reviewed
  <2>1. OneChoice
    BY <1>2, NoChoiceIsOne DEF OneChoice
  <2>2. QED
    BY <2>1 DEF Reviewed
<1>8. ReviewIsBuilt
  BY <1>2 DEF ReviewIsBuilt, NoRecipe
<1>9. QED
  BY <1>1, <1>4, <1>5, <1>6, <1>7, <1>8 DEF IInv

LEMMA RemoveKeepsCart ==
  ASSUME CartOK, NEW i \in 1..MaxSlices, RemoveSlice(i)
  PROVE  CartOK'
<1> DEFINE left == [j \in 1..(Len(slices) - 1) |->
                      [RemoveAt(slices, i)[j] EXCEPT !.needs = @ \ {slices[i].name}]]
<1>1. i \in DOMAIN slices
  BY ShownIsPlace DEF RemoveSlice
<1>2. left \in Seq(Slices) /\ Len(left) = Len(slices) - 1
  <2> HIDE DEF left
  <2>1. left = [j \in 1..(Len(slices) - 1) |->
                      [RemoveAt(slices, i)[j] EXCEPT !.needs = @ \ {slices[i].name}]]
    BY DEF left
  <2>2. QED
    BY <1>1, <2>1, Left
<1>3. /\ slices' = IF left = <<>> THEN <<Default>> ELSE left
      /\ active' = IF active > Len(slices') THEN Len(slices') ELSE active
  BY DEF RemoveSlice
<1> HIDE DEF left
<1>4. Len(slices) \in 1..MaxSlices /\ MaxSlices \in Nat /\ active \in 1..Len(slices)
  BY Places DEF CartOK
<1>5. slices' \in Seq(Slices) /\ Len(slices') \in 1..MaxSlices
  <2>1. CASE left = <<>>
    BY <1>3, <1>4, <2>1, OneSlice
  <2>2. CASE left # <<>>
    <3>1. Len(left) # 0
      BY <1>2, <2>2, EmptySeq
    <3>2. QED
      BY <1>2, <1>3, <1>4, <2>2, <3>1
  <2>3. QED
    BY <2>1, <2>2
<1>6. DOMAIN slices' = 1..Len(slices')
  BY <1>5, LenProperties
<1>7. active' \in 1..Len(slices')
  BY <1>3, <1>4, <1>5
<1>8. QED
  BY <1>5, <1>6, <1>7 DEF CartOK

LEMMA AddKeepsCart ==
  ASSUME CartOK, NEW n \in Names, AddSlice(n)
  PROVE  CartOK'
<1> DEFINE s == [Default EXCEPT !.name = n, !.built = TRUE]
<1>1. s \in Slices
  BY DEF Default, Slices, Words
<1>2. slices' = Append(slices, s) /\ active' = Len(slices') /\ Len(slices) < MaxSlices
  BY DEF AddSlice
<1> HIDE DEF s
<1>3. Append(slices, s) \in Seq(Slices) /\ Len(Append(slices, s)) = Len(slices) + 1
  BY <1>1, AppendProperties DEF CartOK
<1>4. slices' \in Seq(Slices) /\ Len(slices') \in 1..MaxSlices
  BY <1>2, <1>3, Places
<1>5. QED
  BY <1>2, <1>4, LenProperties DEF CartOK

(* A handler that sets something of one slice. *)
LEMMA SetKeepsCart ==
  ASSUME CartOK, active' = active,
         NEW i \in DOMAIN slices, NEW s \in Slices, slices' = [slices EXCEPT ![i] = s]
  PROVE  CartOK'
  BY OneChanges DEF CartOK

LEMMA CartStep == ASSUME IInv, [Next]_vars PROVE CartOK'
<1> USE DEF IInv
<1>1. CASE UNCHANGED cart
  BY <1>1 DEF CartOK, cart
<1>2. ASSUME NEW i \in 1..MaxSlices, Activate(i) PROVE CartOK'
  BY <1>2, ShownIsPlace DEF Activate, CartOK
<1>3. ASSUME NEW i \in 1..MaxSlices, TogglePublic(i) PROVE CartOK'
  <2>1. i \in DOMAIN slices /\ slices[i] \in Slices
    BY <1>3, ShownIsPlace, Places DEF TogglePublic
  <2>2. [slices[i] EXCEPT !.custom = ~@] \in Slices
    BY <2>1 DEF Slices
  <2>3. slices' = [slices EXCEPT ![i] = [slices[i] EXCEPT !.custom = ~@]]
    BY <1>3, <2>1 DEF TogglePublic
  <2>4. QED
    BY <1>3, <2>1, <2>2, <2>3, SetKeepsCart DEF TogglePublic
<1>4. ASSUME NEW i \in 1..MaxSlices, NEW o \in 1..MaxSlices, ToggleNeed(i, o) PROVE CartOK'
  <2>1. i \in DOMAIN slices /\ slices[i] \in Slices /\ slices[o] \in Slices
    BY <1>4, ShownIsPlace, Places DEF ToggleNeed
  <2> DEFINE n == slices[o].name
             needs == IF n \in slices[PlaceOf(i)].needs THEN slices[i].needs \ {n}
                                                        ELSE slices[i].needs \cup {n}
  <2>2. [slices[i] EXCEPT !.needs = needs] \in Slices
    BY <2>1 DEF Slices
  <2>3. slices' = [slices EXCEPT ![i] = [slices[i] EXCEPT !.needs = needs]]
    BY <1>4, <2>1 DEF ToggleNeed
  <2> HIDE DEF needs
  <2>4. QED
    BY <1>4, <2>1, <2>2, <2>3, SetKeepsCart DEF ToggleNeed
<1>5. ASSUME NEW c \in BOOLEAN, Customize(c) PROVE CartOK'
  <2>1. 1 \in DOMAIN slices /\ slices[1] \in Slices
    BY Places DEF CartOK
  <2>2. [slices[1] EXCEPT !.custom = c] \in Slices
    BY <2>1 DEF Slices
  <2>3. slices' = [slices EXCEPT ![1] = [slices[1] EXCEPT !.custom = c]]
    BY <1>5, <2>1 DEF Customize
  <2>4. QED
    BY <1>5, <2>1, <2>2, <2>3, SetKeepsCart DEF Customize
<1>6. CASE NextToSlices
  <2>1. /\ active \in DOMAIN slices /\ slices[active] \in Slices
        /\ 1 \in DOMAIN slices /\ slices[1] \in Slices
    BY Places DEF CartOK
  <2>2. slices' = Picked /\ active' = active
    BY <1>6, <2>1 DEF NextToSlices
  <2>3. CASE choice.alias # ""
    <3> DEFINE s == [slices[active] EXCEPT !.name = choice.alias, !.built = TRUE]
    <3>1. choice.alias \in Words
      BY DEF ChoiceOK, PossibleChoices, Words
    <3>2. s \in Slices
      BY <2>1, <3>1 DEF Slices
    <3>3. slices' = [slices EXCEPT ![active] = s]
      BY <2>1, <2>2, <2>3 DEF Picked
    <3>4. QED
      BY <2>1, <2>2, <3>2, <3>3, SetKeepsCart
  <2>4. CASE choice.alias = "" /\ choice.template # ""
    BY <2>2, <2>4 DEF Picked, CartOK
  <2>5. CASE choice.alias = "" /\ choice.template = ""
    <3> DEFINE s == [slices[1] EXCEPT !.built = FALSE]
    <3>1. s \in Slices
      BY <2>1 DEF Slices
    <3>2. slices' = [slices EXCEPT ![1] = s]
      BY <2>1, <2>2, <2>5 DEF Picked
    <3>3. QED
      BY <2>1, <2>2, <3>1, <3>2, SetKeepsCart
  <2>6. QED
    BY <2>3, <2>4, <2>5
<1>7. CASE PlaceOrder
  <2>1. slices' = <<Default>> /\ active' = 1
    BY <1>7, Zenon DEF PlaceOrder
  <2>2. slices' \in Seq(Slices) /\ Len(slices') = 1 /\ DOMAIN slices' = {1}
    BY <2>1, OneSlice
  <2>3. MaxSlices \in Nat /\ MaxSlices # 0
    BY NamesAssumption
  <2>4. QED
    BY <2>1, <2>2, <2>3 DEF CartOK
<1>8. QED
  <2>1. CASE Answers
    BY <1>1, <2>1 DEF Answers, AliasesLoaded, CreateFails, AliasCreated, FrameworkDetected
  <2>2. CASE Pick
    BY <1>1, <2>2 DEF Pick, CreateAlias, AliasSelect, TemplateSelect, FrameworkComplete,
         ImportedRecipe, FrameworkContinue, FrameworkSkip, FrameworkBack
  <2>3. CASE Build
    BY <1>1, <1>2, <1>3, <1>4, <1>5, <2>3, RemoveKeepsCart, AddKeepsCart DEF Build, SetName
  <2>4. CASE Review
    BY <1>1, <1>7, <2>4 DEF Review, EditOrReset
  <2>5. CASE NextToReview \/ Back \/ UNCHANGED vars
    BY <1>1, <2>5 DEF NextToReview, Back, vars, cart
  <2>6. QED
    BY <1>6, <2>1, <2>2, <2>3, <2>4, <2>5 DEF Next

-----------------------------------------------------------------------------
(* The menu and the choice *)

LEMMA RemoteStep == ASSUME IInv, [Next]_vars PROVE RemoteOK'
<1>1. RemoteOK /\ NamesAssumption
  BY NamesAssumption DEF IInv
<1>2. CASE UNCHANGED remote
  BY <1>1, <1>2 DEF RemoteOK, remote
<1>3. CASE AliasesLoaded
  BY <1>1, <1>3 DEF AliasesLoaded, RemoteOK, NamesAssumption
<1>4. ASSUME NEW n \in Names, CreateAlias(n) PROVE RemoteOK'
  BY <1>1, <1>4 DEF CreateAlias, RemoteOK
<1>5. CASE CreateFails
  BY <1>1, <1>5 DEF CreateFails, RemoteOK
<1>6. CASE AliasCreated
  BY <1>1, <1>6 DEF AliasCreated, RemoteOK, NamesAssumption
<1>7. CASE PlaceOrder
  BY <1>7 DEF PlaceOrder, RemoteOK, NoFramework
<1>8. ASSUME NEW d \in {0, 1}, NEW k \in BOOLEAN, NEW s \in BOOLEAN,
             framework' = [detections |-> d, known |-> k, shown |-> s],
             aliases' = aliases, creating' = creating
      PROVE  RemoteOK'
  BY <1>1, <1>8 DEF RemoteOK
<1>9. framework = [detections |-> framework.detections, known |-> framework.known,
                   shown |-> framework.shown]
      /\ framework.detections \in {0, 1} /\ framework.known \in BOOLEAN /\ framework.shown \in BOOLEAN
  BY <1>1 DEF RemoteOK
<1>10. CASE ImportedRecipe
  BY <1>8, <1>9, <1>10 DEF ImportedRecipe
<1>11. CASE FrameworkDetected
  BY <1>8, <1>9, <1>11 DEF FrameworkDetected
<1>12. CASE FrameworkContinue \/ FrameworkSkip \/ FrameworkBack
  BY <1>8, <1>9, <1>12 DEF FrameworkContinue, FrameworkSkip, FrameworkBack
<1>13. ASSUME NEW n \in Names, FrameworkComplete(n) PROVE RemoteOK'
  BY <1>8, <1>9, <1>13 DEF FrameworkComplete
<1>14. QED
  <2>1. CASE Answers
    BY <1>3, <1>5, <1>6, <1>11, <2>1 DEF Answers
  <2>2. CASE Pick
    BY <1>2, <1>4, <1>10, <1>12, <1>13, <2>2 DEF Pick, AliasSelect, TemplateSelect
  <2>3. CASE Build
    BY <1>2, <2>3 DEF Build, SetName, AddSlice, Activate, TogglePublic, RemoveSlice,
         ToggleNeed, Customize
  <2>4. CASE Review
    BY <1>2, <1>7, <2>4 DEF Review, EditOrReset
  <2>5. CASE NextToSlices \/ NextToReview \/ Back \/ UNCHANGED vars
    BY <1>2, <2>5 DEF NextToSlices, NextToReview, Back, vars, remote
  <2>6. QED
    BY <2>1, <2>2, <2>3, <2>4, <2>5 DEF Next

LEMMA ChoiceStep == ASSUME IInv, [Next]_vars PROVE ChoiceOK'
<1>1. ChoiceOK
  BY DEF IInv
<1>2. Names \subseteq Words /\ ImportedName \in Words /\ "" \in Words
  BY NamesAssumption DEF Words
<1>3. CASE UNCHANGED <<choice, step, name, crossed>>
  BY <1>1, <1>3 DEF ChoiceOK
(* The three ways to set one of the choices, with what becomes of the others. *)
<1>4. /\ \A n \in Words : [NoChoice EXCEPT !.alias = n] \in PossibleChoices
      /\ \A n \in Words : [NoChoice EXCEPT !.template = n] \in PossibleChoices
      /\ \A n \in Imports : [NoChoice EXCEPT !.imported = n] \in PossibleChoices
      /\ \A n \in Words : [choice EXCEPT !.alias = n] \in PossibleChoices
      /\ \A n \in Imports : [choice EXCEPT !.imported = n] \in PossibleChoices
  BY <1>1 DEF NoChoice, ChoiceOK, PossibleChoices, Words
<1>5. "repository" \in Imports /\ "framework" \in Imports
  BY DEF Imports
<1>6. CASE AliasCreated
  <2>1. creating \in Words
    BY DEF IInv, RemoteOK, Words
  <2>2. choice' \in PossibleChoices /\ name' \in Words /\ step' = step
    BY <1>4, <1>6, <2>1 DEF AliasCreated
  <2>3. crossed' \in BOOLEAN
    BY <1>6 DEF AliasCreated
  <2>4. QED
    BY <1>1, <2>2, <2>3 DEF ChoiceOK
<1>7. ASSUME NEW n \in Names, AliasSelect(n) PROVE ChoiceOK'
  <2>1. (IF choice.alias = n THEN "" ELSE n) \in Words
    BY <1>2
  <2>2. choice' \in PossibleChoices /\ name' \in Words /\ step' = step /\ crossed' = crossed
    BY <1>2, <1>4, <1>7, <2>1 DEF AliasSelect
  <2>3. QED
    BY <1>1, <2>2 DEF ChoiceOK
<1>8. ASSUME NEW n \in Names, TemplateSelect(n) PROVE ChoiceOK'
  BY <1>1, <1>2, <1>4, <1>8 DEF TemplateSelect, ChoiceOK
<1>9. CASE ImportedRecipe
  BY <1>1, <1>2, <1>4, <1>5, <1>9 DEF ImportedRecipe, ChoiceOK
<1>10. ASSUME NEW n \in Names, FrameworkComplete(n) PROVE ChoiceOK'
  <2>1. choice' \in PossibleChoices /\ name' \in Words
    BY <1>2, <1>4, <1>5, <1>10 DEF FrameworkComplete
  <2> step' \in 1..3
    <3>1. step' = 3
      BY <1>10, Zenon DEF FrameworkComplete
    <3>2. QED
      BY <3>1
  <2>2. crossed' = (crossed \/ choice.alias # "" \/ choice.template # "")
    BY <1>10 DEF FrameworkComplete
  <2>3. crossed' \in BOOLEAN
    BY <2>2, Zenon
  <2>4. QED
    BY <2>1, <2>3 DEF ChoiceOK
<1>11. ASSUME NEW n \in Words, SetName(n) PROVE ChoiceOK'
  BY <1>1, <1>11 DEF SetName, ChoiceOK
<1>12. CASE PlaceOrder
  <2>1. choice' \in PossibleChoices /\ name' \in Words
    BY <1>2, <1>12, NoChoiceIsOne DEF PlaceOrder
  <2>2. step' = 1
    BY <1>12, Zenon DEF PlaceOrder
  <2>3. crossed' \in BOOLEAN
    BY <1>12, Zenon DEF PlaceOrder
  <2>4. QED
    BY <2>1, <2>2, <2>3 DEF ChoiceOK
<1>13. CASE NextToSlices \/ NextToReview \/ Back
  <2>1. choice' = choice /\ name' = name /\ crossed' = crossed
    BY <1>13 DEF NextToSlices, NextToReview, Back
  <2>2. step' \in 1..3
    BY <1>1, <1>13 DEF NextToSlices, NextToReview, Back, ChoiceOK
  <2>3. QED
    BY <1>1, <2>1, <2>2 DEF ChoiceOK
<1>14. QED
  <2>1. CASE Answers
    BY <1>3, <1>6, <2>1 DEF Answers, AliasesLoaded, CreateFails, FrameworkDetected
  <2>2. CASE Pick
    BY <1>3, <1>7, <1>8, <1>9, <1>10, <2>2 DEF Pick, CreateAlias, FrameworkContinue,
         FrameworkSkip, FrameworkBack
  <2>3. CASE Build
    BY <1>3, <1>11, <2>3 DEF Build, AddSlice, Activate, TogglePublic, RemoveSlice,
         ToggleNeed, Customize, Words
  <2>4. CASE Review
    BY <1>3, <1>12, <2>4 DEF Review, EditOrReset
  <2>5. CASE UNCHANGED vars
    BY <1>3, <2>5 DEF vars
  <2>6. QED
    BY <1>13, <2>1, <2>2, <2>3, <2>4, <2>5 DEF Next

-----------------------------------------------------------------------------
(* The review *)

LEMMA RecipeIsOne == RecipeOf # NoRecipe /\ RecipeOf.kind \in {"template", "imported", "built"}
  BY DEF RecipeOf, NoRecipe, Generated

LEMMA ReviewStep == ASSUME IInv, [Next]_vars PROVE ReviewOK'
<1>1. ReviewOK /\ ChoiceOK
  BY DEF IInv
<1>2. CASE UNCHANGED <<recipe, editing>> /\ (step' = 3 <=> step = 3)
  BY <1>1, <1>2 DEF ReviewOK
<1>3. ASSUME NEW n \in Names, FrameworkComplete(n) PROVE ReviewOK'
  <2>1. recipe' = FromFramework /\ editing' = editing
    BY <1>3 DEF FrameworkComplete
  <2>2. step' = 3
    BY <1>3, Zenon DEF FrameworkComplete
  <2>3. recipe'.kind = "imported" /\ recipe' # NoRecipe
    BY <2>1 DEF FromFramework, NoRecipe
  <2>4. QED
    BY <1>1, <2>1, <2>2, <2>3 DEF ReviewOK
<1>4. CASE NextToReview
  <2>1. recipe' = RecipeOf /\ editing' = editing
    BY <1>4 DEF NextToReview
  <2>2. step' = 3
    BY <1>4, Zenon DEF NextToReview
  <2>3. QED
    BY <1>1, <2>1, <2>2, RecipeIsOne DEF ReviewOK
<1>5. CASE Back \/ PlaceOrder
  <2>1. recipe' = NoRecipe
    BY <1>5 DEF Back, PlaceOrder
  <2> step' # 3
    <3>1. CASE Back
      BY <1>1, <3>1 DEF Back, ChoiceOK
    <3>2. CASE PlaceOrder
      <4>1. step' = 1
        BY <3>2, Zenon DEF PlaceOrder
      <4>2. QED
        BY <4>1
    <3>3. QED
      BY <1>5, <3>1, <3>2
  <2>2. editing' \in BOOLEAN
    BY <1>1, <1>5 DEF Back, PlaceOrder, ReviewOK
  <2>3. NoRecipe.kind = "none"
    BY DEF NoRecipe
  <2>4. QED
    BY <2>1, <2>2, <2>3 DEF ReviewOK
<1>6. CASE EditOrReset
  <2>1. recipe' = recipe /\ step' = step
    BY <1>6 DEF EditOrReset
  <2>2. editing' \in BOOLEAN
    BY <1>6 DEF EditOrReset
  <2>3. QED
    BY <1>1, <2>1, <2>2 DEF ReviewOK
<1>7. CASE NextToSlices
  <2>1. step = 1 /\ step' = 2
    BY <1>7, Zenon DEF NextToSlices
  <2>2. UNCHANGED <<recipe, editing>>
    BY <1>7 DEF NextToSlices, review
  <2>3. QED
    BY <1>2, <2>1, <2>2
<1>8. QED
  <2>1. CASE Answers
    BY <1>2, <2>1 DEF Answers, AliasesLoaded, CreateFails, AliasCreated, FrameworkDetected, review
  <2>2. CASE Pick
    BY <1>2, <1>3, <2>2 DEF Pick, CreateAlias, AliasSelect, TemplateSelect, ImportedRecipe,
         FrameworkContinue, FrameworkSkip, FrameworkBack, review
  <2>3. CASE Build
    BY <1>2, <2>3 DEF Build, SetName, AddSlice, Activate, TogglePublic, RemoveSlice,
         ToggleNeed, Customize, review
  <2>4. CASE Review
    BY <1>5, <1>6, <2>4 DEF Review
  <2>5. CASE UNCHANGED vars
    BY <1>2, <2>5 DEF vars, review
  <2>6. QED
    BY <1>4, <1>5, <1>7, <2>1, <2>2, <2>3, <2>4, <2>5 DEF Next

(* What RecipeOf reads. *)
LEMMA SameRecipe ==
  ASSUME choice' = choice, name' = name, slices' = slices
  PROVE  RecipeOf' = RecipeOf
  BY DEF RecipeOf, Generated, Block, SliceName

(* A choice made by dropping the others, which step 1 alone does. *)
LEMMA ChosenAlone ==
  ASSUME ChoiceOK, step' # 3, NEW n,
         \/ choice' = [NoChoice EXCEPT !.alias = n]
         \/ choice' = [NoChoice EXCEPT !.template = n]
         \/ choice' = [NoChoice EXCEPT !.imported = n]
  PROVE  Reviewed'
<1>1. OneChoice'
  BY DEF OneChoice, NoChoice
<1>2. QED
  BY <1>1 DEF Reviewed

LEMMA ReviewedStep == ASSUME IInv, [Next]_vars PROVE Reviewed'
<1>1. Reviewed /\ ChoiceOK
  BY DEF IInv
<1>2. CASE UNCHANGED <<choice, crossed>> /\ step' # 3
  BY <1>1, <1>2 DEF Reviewed, OneChoice
<1>3. CASE UNCHANGED <<choice, crossed, step, name, slices, recipe>>
  <2>1. RecipeOf' = RecipeOf
    BY <1>3, SameRecipe
  <2>2. QED
    BY <1>1, <1>3, <2>1 DEF Reviewed, OneChoice
<1>4. CASE AliasCreated
  BY <1>4 DEF AliasCreated, Reviewed
<1>5. ASSUME NEW n \in Names, AliasSelect(n) PROVE Reviewed'
  <2>1. step = 1 /\ step' = step
    BY <1>5, Zenon DEF AliasSelect
  <2>2. choice' = [NoChoice EXCEPT !.alias = IF choice.alias = n THEN "" ELSE n]
    BY <1>5, Zenon DEF AliasSelect
  <2>3. step' # 3
    BY <2>1
  <2>4. QED
    BY <1>1, <2>2, <2>3, ChosenAlone
<1>6. ASSUME NEW n \in Names, TemplateSelect(n) PROVE Reviewed'
  <2>1. step = 1 /\ step' = step
    BY <1>6, Zenon DEF TemplateSelect
  <2>2. choice' = [NoChoice EXCEPT !.template = n]
    BY <1>6, Zenon DEF TemplateSelect
  <2>3. step' # 3
    BY <2>1
  <2>4. QED
    BY <1>1, <2>2, <2>3, ChosenAlone
<1>7. CASE ImportedRecipe
  <2>1. step = 1 /\ step' = step
    BY <1>7, Zenon DEF ImportedRecipe
  <2>2. choice' = [NoChoice EXCEPT !.imported = "repository"]
    BY <1>7, Zenon DEF ImportedRecipe
  <2>3. step' # 3
    BY <2>1
  <2>4. QED
    BY <1>1, <2>2, <2>3, ChosenAlone
(* The framework's recipe is what its choice stands for, when it is the only one. *)
<1>8. ASSUME NEW n \in Names, FrameworkComplete(n) PROVE Reviewed'
  <2>1. /\ choice' = [choice EXCEPT !.imported = "framework"] /\ recipe' = FromFramework
        /\ crossed' = (crossed \/ choice.alias # "" \/ choice.template # "")
    BY <1>8, Zenon DEF FrameworkComplete
  <2>2. CASE crossed'
    BY <2>2 DEF Reviewed
  <2>3. CASE ~crossed'
    <3>1. choice.alias = "" /\ choice.template = ""
      BY <2>1, <2>3, Zenon
    <3>2. choice'.alias = "" /\ choice'.template = "" /\ choice'.imported = "framework"
      BY <1>1, <2>1, <3>1 DEF ChoiceOK, PossibleChoices
    <3>3. OneChoice'
      BY <3>2 DEF OneChoice
    <3>4. RecipeOf' = FromFramework
      BY <3>2 DEF RecipeOf, FromFramework
    <3>5. QED
      BY <2>1, <3>3, <3>4 DEF Reviewed
  <2>4. QED
    BY <2>2, <2>3
<1>9. CASE NextToReview
  <2>1. UNCHANGED <<choice, crossed, name, slices>> /\ recipe' = RecipeOf
    BY <1>9 DEF NextToReview, cart
  <2>2. RecipeOf' = RecipeOf
    BY <2>1, SameRecipe
  <2>3. QED
    BY <1>1, <2>1, <2>2 DEF Reviewed, OneChoice
<1>10. CASE PlaceOrder
  <2>1. choice' = NoChoice /\ step' = 1
    BY <1>10, Zenon DEF PlaceOrder
  <2>2. step' # 3
    BY <2>1
  <2>3. OneChoice'
    BY <2>1, NoChoiceIsOne DEF OneChoice
  <2>4. QED
    BY <2>2, <2>3 DEF Reviewed
<1>11. CASE NextToSlices
  <2>1. step' = 2
    BY <1>11, Zenon DEF NextToSlices
  <2>2. step' # 3 /\ UNCHANGED <<choice, crossed>>
    BY <1>11, <2>1 DEF NextToSlices
  <2>3. QED
    BY <1>2, <2>2
<1>12. CASE Back
  BY <1>1, <1>2, <1>12 DEF Back, ChoiceOK
<1>13. CASE Build
  <2>1. step = 2 /\ UNCHANGED <<step, choice, crossed>>
    BY <1>13 DEF Build, SetName, AddSlice, Activate, TogglePublic, RemoveSlice,
         ToggleNeed, Customize, Building
  <2>2. QED
    BY <1>2, <2>1
<1>14. QED
  <2>1. CASE Answers
    BY <1>3, <1>4, <2>1 DEF Answers, AliasesLoaded, CreateFails, FrameworkDetected, review, cart
  <2>2. CASE Pick
    BY <1>3, <1>5, <1>6, <1>7, <1>8, <2>2 DEF Pick, CreateAlias, FrameworkContinue,
         FrameworkSkip, FrameworkBack, review, cart
  <2>3. CASE Review
    BY <1>3, <1>10, <2>3 DEF Review, EditOrReset, cart
  <2>4. CASE UNCHANGED vars
    BY <1>3, <2>4 DEF vars, review, cart
  <2>5. QED
    BY <1>9, <1>11, <1>12, <1>13, <2>1, <2>2, <2>3, <2>4 DEF Next

LEMMA BuiltStep == ASSUME IInv, [Next]_vars PROVE ReviewIsBuilt'
<1>1. CASE UNCHANGED recipe
  BY <1>1 DEF IInv, ReviewIsBuilt
<1>2. CASE recipe' = NoRecipe
  BY <1>2 DEF NoRecipe, ReviewIsBuilt
<1>3. ASSUME NEW n \in Names, FrameworkComplete(n) PROVE ReviewIsBuilt'
  <2>1. recipe' = FromFramework
    BY <1>3, Zenon DEF FrameworkComplete
  <2>2. QED
    BY <2>1 DEF FromFramework, ReviewIsBuilt
<1>4. CASE NextToReview
  <2>1. recipe' = RecipeOf
    BY <1>4, Zenon DEF NextToReview
  <2>2. CASE choice.template # ""
    BY <2>1, <2>2 DEF RecipeOf, ReviewIsBuilt
  <2>3. CASE choice.template = "" /\ choice.imported # ""
    BY <2>1, <2>3 DEF RecipeOf, ReviewIsBuilt
  <2>4. CASE choice.template = "" /\ choice.imported = ""
    <3>1. step = 2 /\ CanNext
      BY <1>4, Zenon DEF NextToReview
    <3>2. Built # {}
      <4>1. step = 2 /\ step # 1
        BY <3>1
      <4>2. CanNext <=> choice.template # "" \/ Built # {}
        BY <4>1, Zenon DEF CanNext
      <4>3. QED
        BY <2>4, <3>1, <4>2, Zenon
    <3>3. PICK p \in DOMAIN slices : slices[p].built
      BY <3>2 DEF Built
    <3>4. recipe' = Generated
      BY <2>1, <2>4 DEF RecipeOf
    <3>5. recipe'.blocks = [i \in DOMAIN slices |-> Block(slices[i])]
      BY <3>4 DEF Generated
    <3>6. p \in DOMAIN recipe'.blocks /\ recipe'.blocks[p].built
      <4>1. p \in DOMAIN recipe'.blocks /\ recipe'.blocks[p] = Block(slices[p])
        BY <3>5
      <4>2. Block(slices[p]).built = slices[p].built
        BY DEF Block
      <4>3. QED
        BY <3>3, <4>1, <4>2
    <3>7. QED
      BY <3>6 DEF ReviewIsBuilt
  <2>5. QED
    BY <2>2, <2>3, <2>4
<1>5. QED
  <2>1. CASE Answers
    BY <1>1, <2>1 DEF Answers, AliasesLoaded, CreateFails, AliasCreated, FrameworkDetected, review
  <2>2. CASE Pick
    BY <1>1, <1>3, <2>2 DEF Pick, CreateAlias, AliasSelect, TemplateSelect, ImportedRecipe,
         FrameworkContinue, FrameworkSkip, FrameworkBack, review
  <2>3. CASE Build
    BY <1>1, <2>3 DEF Build, SetName, AddSlice, Activate, TogglePublic, RemoveSlice,
         ToggleNeed, Customize, review
  <2>4. CASE Review
    BY <1>1, <1>2, <2>4 DEF Review, EditOrReset, PlaceOrder
  <2>5. CASE NextToSlices \/ Back \/ UNCHANGED vars
    BY <1>1, <1>2, <2>5 DEF NextToSlices, Back, vars, review
  <2>6. QED
    BY <1>4, <2>1, <2>2, <2>3, <2>4, <2>5 DEF Next

LEMMA StepIInv == ASSUME IInv, [Next]_vars PROVE IInv'
  BY RemoteStep, ChoiceStep, CartStep, ReviewStep, ReviewedStep, BuiltStep DEF IInv

-----------------------------------------------------------------------------
(* Theorems *)

LEMMA InvariantIsTrue == IInv => ReviewIsTrue
<1> SUFFICES ASSUME IInv PROVE ReviewIsTrue
  OBVIOUS
<1>1. TypeOK
  BY Zenon DEF IInv, RemoteOK, ChoiceOK, PossibleChoices, CartOK, ReviewOK, TypeOK
<1>2. ReviewIsOfTheChoice
  <2> DEFINE Made == {f \in DOMAIN choice : choice[f] # ""}
  <2>1. CASE crossed
    BY <2>1 DEF ReviewIsOfTheChoice
  <2>2. CASE ~crossed
    <3>1. OneChoice /\ (step = 3 => recipe = RecipeOf)
      BY <2>2 DEF IInv, Reviewed
    <3>2. DOMAIN choice = {"alias", "template", "imported"}
      BY DEF IInv, ChoiceOK, PossibleChoices
    <3>3. \E f : Made \subseteq {f}
      <4>1. CASE choice.alias # ""
        <5>1. choice.template = "" /\ choice.imported = ""
          BY <3>1, <4>1 DEF OneChoice
        <5>2. Made \subseteq {"alias"}
          BY <3>2, <5>1
        <5>3. QED
          BY <5>2
      <4>2. CASE choice.alias = "" /\ choice.template # ""
        <5>1. choice.imported = ""
          BY <3>1, <4>2 DEF OneChoice
        <5>2. Made \subseteq {"template"}
          BY <3>2, <4>2, <5>1
        <5>3. QED
          BY <5>2
      <4>3. CASE choice.alias = "" /\ choice.template = ""
        <5>1. Made \subseteq {"imported"}
          BY <3>2, <4>3
        <5>2. QED
          BY <5>1
      <4>4. QED
        BY <4>1, <4>2, <4>3
    <3> HIDE DEF Made
    <3>4. PICK f : Made \subseteq {f}
      BY <3>3
    <3>5. Cardinality(Made) <= 1
      <4>1. IsFiniteSet({f}) /\ Cardinality({f}) = 1
        BY FS_Singleton
      <4>2. Made \in SUBSET {f}
        BY <3>4
      <4>3. Cardinality(Made) <= Cardinality({f})
        BY <4>1, <4>2, FS_Subset
      <4>4. QED
        BY <4>1, <4>3
    <3>6. QED
      BY <3>1, <3>5 DEF ReviewIsOfTheChoice, Made
  <2>3. QED
    BY <2>1, <2>2
<1>3. QED
  BY <1>1, <1>2 DEF IInv, ReviewIsTrue

THEOREM Invariance == Spec => []IInv
<1>1. QED
  BY InitIInv, StepIInv, PTL DEF Spec

(* The recipe that is reviewed is of the only choice and of the slices as they
   are now, and has something to run, however the user went back and forth. *)
THEOREM ReviewTrue == Spec => []ReviewIsTrue
<1>1. QED
  BY Invariance, InvariantIsTrue, PTL

(* Only goNext leads from step 1 to step 2. *)
LEMMA OnlyNextToSlices ==
  ASSUME IInv, [Next]_vars, step = 1, step' = 2 PROVE NextToSlices
<1>1. ChoiceOK
  BY DEF IInv
<1>2. CASE Answers
  BY <1>2 DEF Answers, AliasesLoaded, CreateFails, AliasCreated, FrameworkDetected
<1>3. CASE Pick
  BY <1>3 DEF Pick, CreateAlias, AliasSelect, TemplateSelect, ImportedRecipe,
       FrameworkContinue, FrameworkSkip, FrameworkBack, FrameworkComplete
<1>4. CASE Build
  BY <1>4 DEF Build, SetName, AddSlice, Activate, TogglePublic, RemoveSlice,
       ToggleNeed, Customize
<1>5. CASE Review
  BY <1>5 DEF Review, EditOrReset, PlaceOrder
<1>6. CASE NextToReview \/ Back \/ UNCHANGED vars
  BY <1>6 DEF NextToReview, Back, vars
<1>7. QED
  BY <1>2, <1>3, <1>4, <1>5, <1>6 DEF Next

(* The active slice is one of the slices, so the app picked takes its place. *)
LEMMA PickStep ==
  ASSUME IInv, [Next]_vars
  PROVE  step = 1 /\ step' = 2 /\ choice.alias # "" =>
           \E i \in DOMAIN slices' : slices'[i].built /\ slices'[i].name = choice.alias
<1> SUFFICES ASSUME step = 1, step' = 2, choice.alias # ""
             PROVE \E i \in DOMAIN slices' :
                     slices'[i].built /\ slices'[i].name = choice.alias
  OBVIOUS
<1>1. NextToSlices
  BY OnlyNextToSlices
<1>2. active \in DOMAIN slices /\ slices[active] \in Slices
  BY Places DEF IInv, CartOK
<1> DEFINE s == [slices[active] EXCEPT !.name = choice.alias, !.built = TRUE]
<1>3. slices' = [slices EXCEPT ![active] = s]
  BY <1>1, <1>2 DEF NextToSlices, Picked
<1>4. s.built /\ s.name = choice.alias
  BY <1>2 DEF Slices
<1> HIDE DEF s
<1>5. active \in DOMAIN slices' /\ slices'[active] = s
  BY <1>2, <1>3
<1>6. QED
  BY <1>4, <1>5

(* The app that was picked is a slice with an image when step 2 is entered. *)
THEOREM PickTaken == Spec => PickIsTaken
<1>1. IInv /\ [Next]_vars =>
        [step = 1 /\ step' = 2 /\ choice.alias # "" =>
           \E i \in DOMAIN slices' : slices'[i].built /\ slices'[i].name = choice.alias]_vars
  BY PickStep
<1>2. QED
  BY <1>1, Invariance, PTL DEF Spec, PickIsTaken

-----------------------------------------------------------------------------
(* The needs *)

Needed  == UNION {slices[i].needs : i \in DOMAIN slices}
Present == {slices[i].name : i \in DOMAIN slices}

(* A handler that adds no need but of what is there, and takes no name away. *)
LEMMA NeedsKept ==
  ASSUME Present \subseteq Present', \A d \in Needed' : d \in Needed \/ d \in Present'
  PROVE  Dangling' \subseteq Dangling
  BY DEF Dangling, Needed, Present

(* The same of a handler that changes one slice, and not its name. *)
LEMMA OneNeeds ==
  ASSUME CartOK, NEW i \in DOMAIN slices, NEW s \in Slices, slices' = [slices EXCEPT ![i] = s],
         s.name = slices[i].name, \A d \in s.needs : d \in slices[i].needs \/ d \in Present
  PROVE  Dangling' \subseteq Dangling
<1>1. DOMAIN slices' = DOMAIN slices
  BY OneChanges
<1>2. \A k \in DOMAIN slices : slices'[k] = IF k = i THEN s ELSE slices[k]
  OBVIOUS
<1>3. Present' = Present
  BY <1>1, <1>2 DEF Present
<1>4. \A d \in Needed' : d \in Needed \/ d \in Present
  BY <1>1, <1>2 DEF Needed
<1> QED
  BY <1>3, <1>4, NeedsKept

(* A slice that is removed takes its name out of the needs of the others, and
   they keep theirs. *)
LEMMA RemoveKeepsNeeds ==
  ASSUME CartOK, NEW i \in 1..MaxSlices, RemoveSlice(i)
  PROVE  Dangling' \subseteq Dangling
<1> DEFINE n    == Len(slices) - 1
           w    == slices[i].name
           left == [j \in 1..n |-> [RemoveAt(slices, i)[j] EXCEPT !.needs = @ \ {w}]]
<1>1. i \in DOMAIN slices /\ DOMAIN slices = 1..Len(slices) /\ Len(slices) \in Nat
  BY ShownIsPlace, Places DEF RemoveSlice
<1>2. slices' = IF left = <<>> THEN <<Default>> ELSE left
  BY DEF RemoveSlice
<1>3. \A j \in 1..n : /\ left[j].needs = Without(i, j).needs \ {w}
                      /\ left[j].name = Without(i, j).name
  <2>1. \A j \in 1..n : RemoveAt(slices, i)[j] = Without(i, j) /\ RemoveAt(slices, i)[j] \in Slices
    BY <1>1, Removed
  <2>2. \A s \in Slices : /\ [s EXCEPT !.needs = @ \ {w}].needs = s.needs \ {w}
                          /\ [s EXCEPT !.needs = @ \ {w}].name = s.name
    BY DEF Slices
  <2> QED
    BY <2>1, <2>2
<1>4. DOMAIN left = 1..n
  OBVIOUS
<1> HIDE DEF left
<1>5. CASE left = <<>>
  <2>1. slices' = <<Default>> /\ Default.needs = {}
    BY <1>2, <1>5 DEF Default
  <2>2. DOMAIN slices' = {1} /\ slices'[1] = Default
    BY <2>1, OneSlice
  <2> QED
    BY <2>1, <2>2 DEF Dangling
<1>6. CASE left # <<>>
  <2>1. DOMAIN slices' = 1..n /\ \A j \in 1..n : slices'[j] = left[j]
    BY <1>2, <1>4, <1>6
  <2>2. \A j \in 1..n : \E k \in DOMAIN slices : Without(i, j) = slices[k]
    BY <1>1 DEF Without
  <2>3. ASSUME NEW k \in DOMAIN slices, k # i
        PROVE  \E j \in 1..n : Without(i, j) = slices[k]
    <3>1. CASE k < i
      <4>1. k \in 1..n /\ Without(i, k) = slices[k]
        BY <1>1, <3>1 DEF Without
      <4> QED
        BY <4>1
    <3>2. CASE k > i
      <4>1. k - 1 \in 1..n /\ ~(k - 1 < i) /\ (k - 1) + 1 = k
        BY <1>1, <3>2
      <4>2. Without(i, k - 1) = slices[k]
        BY <4>1 DEF Without
      <4> QED
        BY <4>1, <4>2
    <3> QED
      BY <1>1, <2>3, <3>1, <3>2
  <2>4. ASSUME NEW d \in Needed' PROVE d \in Needed /\ d # w
    <3>1. PICK j \in DOMAIN slices' : d \in slices'[j].needs
      BY DEF Needed
    <3>2. j \in 1..n /\ d \in Without(i, j).needs /\ d # w
      BY <1>3, <2>1, <3>1
    <3>3. PICK k \in DOMAIN slices : Without(i, j) = slices[k]
      BY <2>2, <3>2
    <3> QED
      BY <3>2, <3>3 DEF Needed
  <2>5. ASSUME NEW x \in Present PROVE x = w \/ x \in Present'
    <3>1. PICK k \in DOMAIN slices : x = slices[k].name
      BY DEF Present
    <3>2. CASE k # i
      <4>1. PICK j \in 1..n : Without(i, j) = slices[k]
        BY <2>3, <3>2
      <4>2. j \in DOMAIN slices' /\ slices'[j].name = x
        BY <1>3, <2>1, <3>1, <4>1
      <4> QED
        BY <4>2 DEF Present
    <3> QED
      BY <3>1, <3>2
  <2> QED
    BY <2>4, <2>5 DEF Dangling, Needed, Present
<1> QED
  BY <1>5, <1>6

LEMMA NeedsStep ==
  ASSUME IInv, [Next]_vars, step = 2, step' = 2
  PROVE  Dangling' \subseteq Dangling
<1>1. CartOK
  BY DEF IInv
<1>2. CASE UNCHANGED slices
  BY <1>2 DEF Dangling
<1>3. CASE Answers
  BY <1>2, <1>3 DEF Answers, AliasesLoaded, CreateFails, AliasCreated, FrameworkDetected, cart
<1>4. ~Pick
  BY DEF Pick, CreateAlias, AliasSelect, TemplateSelect, ImportedRecipe,
       FrameworkContinue, FrameworkSkip, FrameworkBack, FrameworkComplete, FrameworkIsTold
<1>5. CASE Build
  <2>1. ASSUME NEW i \in 1..MaxSlices, TogglePublic(i) PROVE Dangling' \subseteq Dangling
    <3>1. i \in DOMAIN slices /\ slices[i] \in Slices
      BY <1>1, <2>1, ShownIsPlace, Places DEF TogglePublic
    <3> DEFINE s == [slices[i] EXCEPT !.custom = ~@]
    <3>2. s \in Slices /\ s.name = slices[i].name /\ s.needs = slices[i].needs
      BY <3>1 DEF Slices
    <3>3. slices' = [slices EXCEPT ![i] = s]
      BY <2>1, <3>1 DEF TogglePublic
    <3> HIDE DEF s
    <3> QED
      BY <1>1, <3>1, <3>2, <3>3, OneNeeds
  <2>2. ASSUME NEW c \in BOOLEAN, Customize(c) PROVE Dangling' \subseteq Dangling
    <3>1. 1 \in DOMAIN slices /\ slices[1] \in Slices
      BY <1>1, Places DEF CartOK
    <3> DEFINE s == [slices[1] EXCEPT !.custom = c]
    <3>2. s \in Slices /\ s.name = slices[1].name /\ s.needs = slices[1].needs
      BY <3>1 DEF Slices
    <3>3. slices' = [slices EXCEPT ![1] = s]
      BY <2>2, <3>1 DEF Customize
    <3> HIDE DEF s
    <3> QED
      BY <1>1, <3>1, <3>2, <3>3, OneNeeds
  <2>3. ASSUME NEW i \in 1..MaxSlices, NEW o \in 1..MaxSlices, ToggleNeed(i, o)
        PROVE  Dangling' \subseteq Dangling
    <3> DEFINE n == slices[o].name
               needs == IF n \in slices[PlaceOf(i)].needs THEN slices[i].needs \ {n}
                                                          ELSE slices[i].needs \cup {n}
               s == [slices[i] EXCEPT !.needs = needs]
    <3>1. i \in DOMAIN slices /\ slices[i] \in Slices /\ o \in DOMAIN slices /\ slices[o] \in Slices
      BY <1>1, <2>3, ShownIsPlace, Places DEF ToggleNeed
    <3>2. slices' = [slices EXCEPT ![i] = s]
      BY <2>3, <3>1 DEF ToggleNeed
    <3>3. needs \subseteq slices[i].needs \cup {n} /\ n \in Present /\ n \in Words
      BY <3>1 DEF Present, Slices
    <3> HIDE DEF needs, n
    <3>4. s \in Slices /\ s.name = slices[i].name /\ s.needs = needs
      BY <3>1, <3>3 DEF Slices
    <3> HIDE DEF s
    <3> QED
      BY <1>1, <3>1, <3>2, <3>3, <3>4, OneNeeds
  <2>4. ASSUME NEW m \in Names, AddSlice(m) PROVE Dangling' \subseteq Dangling
    <3> DEFINE s == [Default EXCEPT !.name = m, !.built = TRUE]
    <3>1. s \in Slices /\ s.needs = {}
      BY DEF Default, Slices, Words
    <3>2. slices' = Append(slices, s)
      BY <2>4 DEF AddSlice
    <3> HIDE DEF s
    <3>3. /\ DOMAIN slices = 1..Len(slices) /\ Len(slices) \in Nat /\ slices \in Seq(Slices)
      BY <1>1, Places DEF CartOK
    <3>4. /\ slices' \in Seq(Slices) /\ Len(slices') = Len(slices) + 1
          /\ \A k \in 1..Len(slices) : slices'[k] = slices[k]
          /\ slices'[Len(slices) + 1] = s
      BY <3>1, <3>2, <3>3, AppendProperties
    <3>5. DOMAIN slices' = 1..(Len(slices) + 1)
      BY <3>4, LenProperties
    <3>6. DOMAIN slices' = DOMAIN slices \cup {Len(slices) + 1}
      BY <3>3, <3>5
    <3>7. Present \subseteq Present'
      BY <3>3, <3>4, <3>6 DEF Present
    <3>8. Needed' \subseteq Needed
      BY <3>1, <3>3, <3>4, <3>6 DEF Needed
    <3> QED
      BY <3>7, <3>8, NeedsKept
  <2> QED
    BY <1>1, <1>2, <1>5, <2>1, <2>2, <2>3, <2>4, RemoveKeepsNeeds DEF Build, SetName, Activate, cart
<1>6. CASE NextToSlices \/ NextToReview \/ Back \/ UNCHANGED vars
  BY <1>2, <1>6 DEF NextToSlices, NextToReview, Back, vars, cart
<1>7. CASE Review
  <2>1. ~PlaceOrder
    BY DEF PlaceOrder
  <2> QED
    BY <1>2, <1>7, <2>1 DEF Review, EditOrReset, cart
<1> QED
  BY <1>3, <1>4, <1>5, <1>6, <1>7 DEF Next

(* No edit of step 2 makes a slice need one that is not there, although the
   buttons take a slice by its place in a shorter list (the removal and the
   dependencies of OrderWizard.tsx). *)
THEOREM NeedsAreKept == Spec => NoNeedIsLost
<1>1. IInv /\ [Next]_vars => [step = 2 /\ step' = 2 => Dangling' \subseteq Dangling]_vars
  BY NeedsStep
<1>2. QED
  BY <1>1, Invariance, PTL DEF Spec, NoNeedIsLost

=============================================================================
