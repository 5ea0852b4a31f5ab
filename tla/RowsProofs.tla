----------------------------- MODULE RowsProofs -----------------------------
(***************************************************************************)
(* Theorems about the two tables whose rows the server leaves to others:   *)
(* deployments, for any number of rows, operators, rollbacks and crashes,  *)
(* and builds, for any number of builds, slots and channel places, with a  *)
(* store that may or may not fail.                                         *)
(*                                                                         *)
(* The properties of Deployments count who took a row on, while the code   *)
(* only looks at the status of the row: the inductive invariant IInv says  *)
(* what the status tells of the goroutine, the operators and the rollback  *)
(* handler, whose objects can be in a namespace, and which numbers the     *)
(* open transactions may still use.                                        *)
(*                                                                         *)
(* Those of BuildQueue speak of goroutines, while the code only looks at   *)
(* sem and wg: QueueIInv relates the counters to the goroutines, and says  *)
(* where a build may be.                                                   *)
(***************************************************************************)
EXTENDS Deployments, BuildQueue, FiniteSetTheorems, WellFoundedInduction, TLAPS

-----------------------------------------------------------------------------
(* Finite sets *)

(* A bounded set of naturals has a greatest element. *)
LEMMA GreatestExists ==
    ASSUME NEW S, S \subseteq Nat, S # {}, NEW n \in Nat, \A x \in S : x <= n
    PROVE  \E m \in S : \A x \in S : x <= m
<1> DEFINE Gaps == {n - x : x \in S}
<1>1. Gaps \subseteq Nat /\ Gaps # {}
  <2>1. \A x \in S : x \in Nat /\ n - x \in Nat
    OBVIOUS
  <2>2. PICK s \in S : TRUE
    OBVIOUS
  <2> QED
    BY <2>1, <2>2
<1>2. PICK g \in Gaps : \A h \in Gaps : ~(<<h, g>> \in OpToRel(<, Nat))
  BY <1>1, WFMin, NatLessThanWellFounded, Zenon
<1>3. \A h \in Gaps : ~(h < g)
  BY <1>1, <1>2 DEF OpToRel
<1>4. PICK m \in S : g = n - m
  OBVIOUS
<1>5. \A x \in S : ~(n - x < n - m)
  BY <1>3, <1>4
<1> QED
  BY <1>4, <1>5

(* Two members of a set of at most one element are the same. *)
LEMMA AtMostOne ==
    ASSUME NEW S, IsFiniteSet(S), Cardinality(S) <= 1, NEW x \in S, NEW y \in S
    PROVE  x = y
<1>1. Cardinality(S) \in {0, 1}
  BY FS_CardinalityType
<1> QED
  BY <1>1, FS_EmptySet, FS_Singleton

(* A finite set whose members are all the same has at most one. *)
LEMMA AllTheSame ==
    ASSUME NEW S, IsFiniteSet(S), \A x, y \in S : x = y
    PROVE  Cardinality(S) <= 1
<1>1. CASE S = {}
  BY <1>1, FS_EmptySet
<1>2. CASE S # {}
  <2>1. PICK x \in S : S = {x}
    BY <1>2
  <2> QED
    BY <2>1, FS_Singleton
<1> QED
  BY <1>1, <1>2

-----------------------------------------------------------------------------
(* Deployments: the strengthening *)

Active == {"deploying", "waiting", "fail"}

(* A row is inserted before its goroutine exists; the goroutine takes it on
   when it leaves "created". *)
InsertFirst ==
    \A i \in Ids :
        /\ creating[i] # 0 => status[i] = "none"
        /\ status[i] = "none" => goroutine[i] = "none"
        /\ goroutine[i] \in {"none", "created"} => "server" \notin handlers[i]
        /\ goroutine[i] \in Active => "server" \in handlers[i]

(* An operator works on a row that it has claimed. *)
ClaimFirst ==
    \A o \in Operators :
        /\ operator[o].pc # "idle" => operator[o].id \in Ids
        /\ operator[o].pc \in Handling => o \in handlers[operator[o].id]

(* No operator has claimed what is still pending, and one only the rest. *)
ClaimedOnce ==
    \A i \in Ids :
        /\ status[i] \in {"none", "pending"} => handlers[i] \cap Operators = {}
        /\ \A o, p \in handlers[i] \cap Operators : o = p

(* Without an operator the row stays pending until its goroutine is done. *)
ServerAlone ==
    \A i \in Ids :
        goroutine[i] \in Active \cup {"created"} /\ handlers[i] \cap Operators = {}
            => status[i] \in {"pending", "deleted"}

(* Without the server it stays running until its operator is done. *)
OperatorAlone ==
    \A o \in Operators :
        operator[o].pc \in Handling /\ "server" \notin handlers[operator[o].id]
            => status[operator[o].id] \in {"running", "deleted"}

(* The rollback handler has read a final status and a snapshot. *)
RollbackLast ==
    \A i \in Ids : rollback[i] # "none" => /\ status[i] \in Terminal \cup {"deleted"}
                                          /\ previous[i] # Unset

(* What is in a namespace or in a snapshot was deployed by somebody. *)
DeployedFirst ==
    /\ \A n \in Namespaces : namespace[n] \in Ids => handlers[namespace[n]] # {}
    /\ \A i \in Ids : previous[i] \in Ids => handlers[previous[i]] # {}

SnapshotFirst ==
    \A i \in Ids : previous[i] = i =>
        "server" \in handlers[i] /\ handlers[i] \cap Operators # {}

(* Rows that have been inserted, and the numbers they have or will get. *)
Made == {i \in Ids : status[i] # "none"}

NumbersBounded ==
    \A i \in Ids : /\ order[i] <= Cardinality(Made)
                   /\ creating[i] <= Cardinality(Made) + 1

NumbersFresh ==
    \A i \in Ids : creating[i] # 0 /\ i \notin stale =>
        \A j \in Live : order[j] < creating[i]

FiniteHandlers == \A i \in Ids : IsFiniteSet(handlers[i])

Handlers ==
    /\ InsertFirst /\ ClaimFirst /\ ClaimedOnce
    /\ ServerAlone /\ OperatorAlone /\ RollbackLast

IInv ==
    /\ TypeOK
    /\ Handlers
    /\ DeployedFirst /\ SnapshotFirst
    /\ NumbersBounded /\ NumbersFresh /\ OrderNumbersUnique
    /\ FiniteHandlers
    /\ RunningIsHandled

-----------------------------------------------------------------------------
(* Numbers and sets *)

(* NextOrder is above the numbers of the rows there are, and within one of any
   bound on them. *)
LEMMA NextOrderAbove ==
    ASSUME TypeOK
    PROVE  /\ NextOrder \in Nat
           /\ \A j \in Live : order[j] < NextOrder
           /\ \A n \in Nat : (\A j \in Live : order[j] <= n) => NextOrder <= n + 1
<1> DEFINE S == {0} \cup {order[i] : i \in Live}
           Top(m) == \A i \in Live : order[i] <= m
<1>1. Cardinality(Ids) \in Nat
  BY IdsAssumption, FS_CardinalityType
<1>2. /\ S \subseteq Nat /\ S # {}
      /\ \A x \in S : x <= Cardinality(Ids)
  BY <1>1 DEF TypeOK, Live
<1>3. \E m \in S : Top(m)
  <2>1. PICK m \in S : \A x \in S : x <= m
    BY <1>1, <1>2, GreatestExists
  <2> QED
    BY <2>1
<1>4. PICK m \in S : Top(m) /\ NextOrder = 1 + m
  BY <1>3 DEF NextOrder
<1> QED
  BY <1>2, <1>4 DEF TypeOK, Live

(* Ids, and the rows made so far, can be counted. *)
LEMMA MadeCount ==
    /\ Cardinality(Ids) \in Nat
    /\ Cardinality(Made) \in Nat
    /\ Cardinality(Made) <= Cardinality(Ids)
    /\ \A i \in Ids \ Made : /\ Cardinality(Made \cup {i}) = Cardinality(Made) + 1
                            /\ Cardinality(Made) + 1 <= Cardinality(Ids)
<1>1. Made \subseteq Ids /\ IsFiniteSet(Made) /\ Cardinality(Ids) \in Nat
  BY IdsAssumption, FS_Subset, FS_CardinalityType DEF Made
<1>2. ASSUME NEW i \in Ids \ Made
      PROVE  /\ Cardinality(Made \cup {i}) = Cardinality(Made) + 1
             /\ Cardinality(Made \cup {i}) <= Cardinality(Ids)
  <2>1. Made \cup {i} \subseteq Ids
    BY <1>1
  <2> QED
    BY <1>1, <2>1, FS_AddElement, FS_Subset, IdsAssumption
<1> QED
  BY <1>1, <1>2, FS_Subset, FS_CardinalityType, IdsAssumption

-----------------------------------------------------------------------------

LEMMA InitIInv == Init => IInv
<1> SUFFICES ASSUME Init PROVE IInv
  OBVIOUS
<1> USE DEF Init
<1>1. Made = {} /\ Live = {}
  BY DEF Made, Live
<1>2. TypeOK
  BY MadeCount, CrashesAssumption, IdsAssumption
     DEF TypeOK, Statuses, Namespaces, Handling
<1>3. Handlers
  BY DEF Handlers, InsertFirst, ClaimFirst, ClaimedOnce, ServerAlone, OperatorAlone,
         RollbackLast, Active, Handling
<1>4. DeployedFirst /\ SnapshotFirst
  BY IdsAssumption DEF DeployedFirst, SnapshotFirst, Namespaces
<1>5. NumbersBounded /\ NumbersFresh /\ OrderNumbersUnique
  BY <1>1, MadeCount DEF NumbersBounded, NumbersFresh, OrderNumbersUnique
<1>6. FiniteHandlers /\ RunningIsHandled
  BY FS_EmptySet DEF FiniteHandlers, RunningIsHandled
<1> QED
  BY <1>2, <1>3, <1>4, <1>5, <1>6 DEF IInv

(* Types.  The bound on the numbers comes from counting the rows. *)
LEMMA TypeStep == IInv /\ [Next]_vars => TypeOK'
<1> SUFFICES ASSUME IInv, [Next]_vars PROVE TypeOK'
  OBVIOUS
<1> USE DEF IInv, TypeOK, Statuses, Rollbackable, Terminal, Handling, Committed, UpdateStatus
<1>1. ASSUME NEW i \in Ids, CreateReads(i)
      PROVE  TypeOK'
  <2>1. NextOrder \in Nat /\ NextOrder <= Cardinality(Made) + 1
    <3>1. \A j \in Live : order[j] <= Cardinality(Made)
      BY DEF NumbersBounded, Live
    <3> QED
      BY <3>1, NextOrderAbove, MadeCount
  <2>2. Cardinality(Made) + 1 <= Cardinality(Ids)
    BY <1>1, MadeCount DEF CreateReads, Made
  <2>3. NextOrder \in 0..Cardinality(Ids)
    <3>1. Cardinality(Made) \in Nat /\ Cardinality(Ids) \in Nat
      BY MadeCount
    <3> QED
      BY <2>1, <2>2, <3>1
  <2>4. creating' \in [Ids -> 0..Cardinality(Ids)]
    BY <1>1, <2>3 DEF CreateReads
  <2> QED
    BY <1>1, <2>4 DEF CreateReads, table, history
<1>2. ASSUME NEW i \in Ids, CreateCommits(i) \/ CreateRefused(i)
      PROVE  TypeOK'
  BY <1>2, MadeCount DEF CreateCommits, CreateRefused, table, history
<1>3. ASSUME NEW i \in Ids, Reject(i) \/ Launch(i)
      PROVE  TypeOK'
  <2>1. namespace[SnapshotOf(i)] \in Ids \cup {Nothing}
    BY DEF SnapshotOf, Namespaces
  <2>2. handlers' \in [Ids -> SUBSET (Operators \cup {"server"})]
    BY <1>3 DEF Reject, Launch
  <2> QED
    BY <1>3, <2>1, <2>2 DEF Reject, Launch, table, opening
<1>4. ASSUME NEW i \in Ids, NEW ok \in BOOLEAN, DeployEnds(i, ok)
      PROVE  namespace' \in [Namespaces -> Ids \cup {Nothing}]
  BY <1>4 DEF DeployEnds
<1>5. ASSUME NEW i \in Ids, DeployReturns(i)
      PROVE  TypeOK'
  BY <1>4, <1>5 DEF DeployReturns, table, opening, history
<1>6. ASSUME NEW i \in Ids, GoroutineRecords(i)
      PROVE  TypeOK'
  BY <1>6 DEF GoroutineRecords, Outcomes
<1>7. ASSUME NEW i \in Ids, RollbackStep(i)
      PROVE  TypeOK'
  <2>1. rollback[i] # "none" => previous[i] \in Ids \cup {Nothing}
    BY DEF Handlers, RollbackLast
  <2> QED
    BY <1>7, <2>1 DEF RollbackStep, RollbackChecks, RollbackRestores, RollbackRecords,
                      RestoredIn, Namespaces, table, opening, history
<1>8. ASSUME NEW i \in Ids, DeleteDeployment(i)
      PROVE  TypeOK'
  BY <1>8 DEF DeleteDeployment, history
<1>9. ASSUME NEW o \in Operators,
             Poll(o) \/ ClaimFails(o) \/ OperatorRejects(o) \/ OperatorStartsDeploy(o)
      PROVE  TypeOK'
  BY <1>9 DEF Poll, ClaimFails, OperatorRejects, OperatorStartsDeploy, At, table, opening,
              history
<1>10. ASSUME NEW o \in Operators, ClaimDeployment(o)
       PROVE  TypeOK'
  <2>1. handlers' \in [Ids -> SUBSET (Operators \cup {"server"})]
    BY <1>10 DEF ClaimDeployment
  <2> QED
    BY <1>10, <2>1 DEF ClaimDeployment, At
<1>11. ASSUME NEW o \in Operators, OperatorDeployReturns(o)
       PROVE  TypeOK'
  <2>1. operator[o].id \in Ids
    BY <1>11 DEF OperatorDeployReturns, Handlers, ClaimFirst
  <2> QED
    BY <1>4, <1>11, <2>1 DEF OperatorDeployReturns, At, table, opening, history
<1>12. ASSUME NEW o \in Operators, OperatorRecords(o)
       PROVE  TypeOK'
  <2>1. operator[o].id \in Ids
    BY <1>12 DEF OperatorRecords, Handlers, ClaimFirst
  <2> QED
    BY <1>12, <2>1 DEF OperatorRecords, At, Outcomes
<1>13. ASSUME NEW o \in Operators, OperatorCrash(o)
       PROVE  TypeOK'
  <2>1. operator[o].id \in Ids
    BY <1>13 DEF OperatorCrash, Handlers, ClaimFirst
  <2> QED
    BY <1>13, <2>1, CrashesAssumption DEF OperatorCrash, At, table, opening
<1>14. CASE ServerCrash
  BY <1>14, CrashesAssumption, MadeCount DEF ServerCrash, table, history
<1>15. CASE UNCHANGED vars
  BY <1>15 DEF vars, table, opening, history
<1> QED
  BY <1>1, <1>2, <1>3, <1>5, <1>6, <1>7, <1>8, <1>9, <1>10, <1>11, <1>12, <1>13, <1>14, <1>15
     DEF Next, GoroutineStep, OperatorStep

(* Who has taken a row on, and what its status tells of them. *)
LEMMA HandlersStep == IInv /\ [Next]_vars => Handlers'
<1> SUFFICES ASSUME IInv, [Next]_vars PROVE Handlers'
  OBVIOUS
<1> USE OperatorsAssumption, IdsAssumption
    DEF IInv, TypeOK, Handlers, InsertFirst, ClaimFirst, ClaimedOnce, ServerAlone,
        OperatorAlone, RollbackLast, Active, Handling, Terminal, Rollbackable
<1>1. ASSUME NEW i \in Ids, CreateReads(i)
      PROVE  Handlers'
  BY <1>1 DEF CreateReads, table, history
<1>2. ASSUME NEW i \in Ids, CreateCommits(i)
      PROVE  Handlers'
  BY <1>2 DEF CreateCommits, history
<1>3. ASSUME NEW i \in Ids, CreateRefused(i)
      PROVE  Handlers'
  BY <1>3, MadeCount DEF CreateRefused, table, history
<1>4. ASSUME NEW i \in Ids, Reject(i) \/ Launch(i)
      PROVE  Handlers'
  <2>1. /\ goroutine[i] = "created" /\ goroutine'[i] \in Active
        /\ goroutine' = [goroutine EXCEPT ![i] = goroutine'[i]]
        /\ handlers' = [handlers EXCEPT ![i] = @ \cup {"server"}]
        /\ UNCHANGED <<status, creating, operator, rollback>>
    BY <1>4 DEF Reject, Launch, table, opening
  <2>2. \A j \in Ids : handlers'[j] \cap Operators = handlers[j] \cap Operators
    BY <2>1
  <2>3. \A j \in Ids : rollback[j] # "none" => previous'[j] # Unset
    <3>1. namespace[SnapshotOf(i)] # Unset
      BY DEF SnapshotOf, Namespaces
    <3> QED
      BY <1>4, <3>1 DEF Reject, Launch, table
  <2> QED
    BY <2>1, <2>2, <2>3
<1>5. ASSUME NEW i \in Ids, DeployReturns(i)
      PROVE  Handlers'
  BY <1>5 DEF DeployReturns, table, opening, history
<1>6. ASSUME NEW i \in Ids, GoroutineRecords(i)
      PROVE  Handlers'
  BY <1>6 DEF GoroutineRecords, UpdateStatus, Outcomes, Live
<1>7. ASSUME NEW i \in Ids, RollbackStep(i)
      PROVE  Handlers'
  BY <1>7 DEF RollbackStep, RollbackChecks, RollbackRestores, RollbackRecords, UpdateStatus,
              Live, table, opening, history
<1>8. ASSUME NEW i \in Ids, DeleteDeployment(i)
      PROVE  Handlers'
  BY <1>8 DEF DeleteDeployment, Live, history
<1>9. ASSUME NEW o \in Operators,
             Poll(o) \/ ClaimFails(o) \/ OperatorRejects(o) \/ OperatorStartsDeploy(o)
      PROVE  Handlers'
  <2>1. CASE Poll(o)
    BY <2>1 DEF Poll, At, table, opening, history
  <2>2. CASE ClaimFails(o)
    BY <2>2 DEF ClaimFails, At, table, opening, history
  <2>3. CASE OperatorRejects(o) \/ OperatorStartsDeploy(o)
    <3>1. /\ operator[o].pc = "claimed" /\ operator'[o].pc \in Handling
          /\ operator'[o].id = operator[o].id
          /\ \A p \in Operators \ {o} : operator'[p] = operator[p]
          /\ UNCHANGED <<status, previous, creating, goroutine, rollback, handlers>>
      BY <2>3 DEF OperatorRejects, OperatorStartsDeploy, At, table, opening, history
    <3>2. \A p \in Operators :
             /\ operator'[p].id = operator[p].id
             /\ operator'[p].pc # "idle" => operator[p].pc # "idle"
             /\ operator'[p].pc \in Handling => operator[p].pc \in Handling
      BY <3>1
    <3>3. ClaimFirst' /\ OperatorAlone'
      BY <3>1, <3>2
    <3>4. InsertFirst' /\ ClaimedOnce' /\ ServerAlone' /\ RollbackLast'
      BY <3>1
    <3> QED
      BY <3>3, <3>4
  <2> QED
    BY <1>9, <2>1, <2>2, <2>3
<1>10. ASSUME NEW o \in Operators, ClaimDeployment(o)
       PROVE  Handlers'
  BY <1>10 DEF ClaimDeployment, Claimable, At
<1>11. ASSUME NEW o \in Operators, OperatorDeployReturns(o)
       PROVE  Handlers'
  BY <1>11 DEF OperatorDeployReturns, At, table, opening, history
<1>12. ASSUME NEW o \in Operators, OperatorRecords(o)
       PROVE  Handlers'
  <2> DEFINE i == operator[o].id
  <2>1. /\ i \in Ids /\ o \in handlers[i] \cap Operators
        /\ operator[o].pc \in {"ok", "fail"}
        /\ operator' = [operator EXCEPT ![o] = [pc |-> "idle", id |-> Unset]]
        /\ UNCHANGED <<goroutine, handlers, rollback, creating, previous>>
    BY <1>12 DEF OperatorRecords, At
  <2>2. /\ status[i] \notin {"none", "pending"}
        /\ \A p \in Operators \ {o} : operator[p].pc \in Handling => operator[p].id # i
    BY <2>1
  <2>3. status' = status \/ \E s \in Terminal : status' = [status EXCEPT ![i] = s]
    BY <1>12, <2>1 DEF OperatorRecords, UpdateStatus, Outcomes
  <2>4. status[i] = "deleted" => status' = status
    BY <1>12, <2>1 DEF OperatorRecords, UpdateStatus, Live
  <2>5. InsertFirst' /\ ClaimFirst' /\ ClaimedOnce'
    BY <2>1, <2>2, <2>3
  <2>6. ServerAlone'
    BY <2>1, <2>3
  <2>7. OperatorAlone'
    BY <2>1, <2>2, <2>3
  <2>8. RollbackLast'
    BY <2>1, <2>3
  <2> QED
    BY <2>5, <2>6, <2>7, <2>8
<1>13. ASSUME NEW o \in Operators, OperatorCrash(o)
       PROVE  Handlers'
  BY <1>13 DEF OperatorCrash, At, table, opening
<1>14. CASE ServerCrash
  BY <1>14 DEF ServerCrash, table, history
<1>15. CASE UNCHANGED vars
  BY <1>15 DEF vars, table, opening, history
<1> QED
  BY <1>1, <1>2, <1>3, <1>4, <1>5, <1>6, <1>7, <1>8, <1>9, <1>10, <1>11, <1>12, <1>13, <1>14,
     <1>15
     DEF Next, GoroutineStep, OperatorStep

(* What the namespaces and the snapshots hold. *)
LEMMA SnapshotStep == IInv /\ [Next]_vars => DeployedFirst' /\ SnapshotFirst'
<1> SUFFICES ASSUME IInv, [Next]_vars PROVE DeployedFirst' /\ SnapshotFirst'
  OBVIOUS
<1> USE OperatorsAssumption, IdsAssumption DEF IInv, TypeOK, DeployedFirst, SnapshotFirst
<1>1. ASSUME NEW i \in Ids, NEW ok \in BOOLEAN, DeployEnds(i, ok), handlers[i] # {},
             UNCHANGED <<previous, handlers>>
      PROVE  DeployedFirst' /\ SnapshotFirst'
  <2>1. \A n \in Namespaces : namespace'[n] \in {namespace[n], i, Nothing}
    BY <1>1 DEF DeployEnds
  <2> QED
    BY <1>1, <2>1
<1>2. CASE /\ \A i \in Ids : handlers[i] \subseteq handlers'[i]
           /\ UNCHANGED <<previous, namespace>>
  BY <1>2 DEF Namespaces
<1>3. ASSUME NEW i \in Ids, Launch(i)
      PROVE  DeployedFirst' /\ SnapshotFirst'
  <2>1. /\ "server" \notin handlers[i]
        /\ handlers' = [handlers EXCEPT ![i] = @ \cup {"server"}]
        /\ namespace' = namespace
    BY <1>3 DEF Launch, Handlers, InsertFirst
  <2>2. /\ previous' = previous \/ previous' = [previous EXCEPT ![i] = namespace[SnapshotOf(i)]]
        /\ SnapshotOf(i) \in Namespaces
    BY <1>3 DEF Launch, SnapshotOf, Namespaces
  <2>3. \A j \in Ids : /\ handlers[j] \subseteq handlers'[j]
                       /\ handlers[j] \subseteq Operators \cup {"server"}
    BY <2>1
  <2>4. previous'[i] = i => handlers'[i] \cap Operators # {}
    <3>1. previous'[i] = i => handlers[i] # {}
      BY <2>1, <2>2
    <3> QED
      BY <2>1, <2>3, <3>1
  <2>5. \A j \in Ids : previous'[j] \in Ids => handlers'[previous'[j]] # {}
    <3>1. ASSUME NEW j \in Ids, previous'[j] \in Ids
          PROVE  handlers[previous'[j]] # {}
      BY <2>2, <3>1
    <3> QED
      BY <2>3, <3>1
  <2>6. SnapshotFirst'
    <3>1. ASSUME NEW j \in Ids, j # i, previous'[j] = j
          PROVE  "server" \in handlers'[j] /\ handlers'[j] \cap Operators # {}
      BY <2>1, <2>2, <3>1
    <3> QED
      BY <2>1, <2>4, <3>1
  <2> QED
    BY <2>1, <2>3, <2>5, <2>6
<1>4. ASSUME NEW i \in Ids, DeployReturns(i)
      PROVE  DeployedFirst' /\ SnapshotFirst'
  <2>1. handlers[i] # {}
    BY <1>4 DEF DeployReturns, Handlers, InsertFirst, Active
  <2> QED
    BY <1>1, <1>4, <2>1 DEF DeployReturns, table, history
<1>5. ASSUME NEW o \in Operators, OperatorDeployReturns(o)
      PROVE  DeployedFirst' /\ SnapshotFirst'
  <2>1. operator[o].id \in Ids /\ handlers[operator[o].id] # {}
    BY <1>5 DEF OperatorDeployReturns, Handlers, ClaimFirst, Handling
  <2> QED
    BY <1>1, <1>5, <2>1 DEF OperatorDeployReturns, table, history
<1>6. ASSUME NEW i \in Ids, RollbackRestores(i)
      PROVE  DeployedFirst' /\ SnapshotFirst'
  <2>1. UNCHANGED <<previous, handlers>>
    BY <1>6 DEF RollbackRestores, table, history
  <2>2. \A n \in Namespaces : namespace'[n] \in {namespace[n], previous[i]}
    BY <1>6 DEF RollbackRestores
  <2> QED
    BY <2>1, <2>2
<1>7. ASSUME NEW o \in Operators, ClaimDeployment(o)
      PROVE  DeployedFirst' /\ SnapshotFirst'
  <2>1. \A i \in Ids : handlers[i] \subseteq handlers'[i]
    BY <1>7 DEF ClaimDeployment
  <2> QED
    BY <1>2, <1>7, <2>1 DEF ClaimDeployment
<1>8. ASSUME NEW i \in Ids, Reject(i)
      PROVE  DeployedFirst' /\ SnapshotFirst'
  <2>1. \A j \in Ids : handlers[j] \subseteq handlers'[j]
    BY <1>8 DEF Reject
  <2> QED
    BY <1>2, <1>8, <2>1 DEF Reject, table
<1>9. CASE UNCHANGED <<previous, namespace, handlers>>
  BY <1>2, <1>9
<1> QED
  BY <1>3, <1>4, <1>5, <1>6, <1>7, <1>8, <1>9
     DEF Next, GoroutineStep, RollbackStep, OperatorStep, vars, table, history,
         CreateReads, CreateCommits, CreateRefused, GoroutineRecords, RollbackChecks,
         RollbackRecords, DeleteDeployment, Poll, ClaimFails, OperatorRejects,
         OperatorStartsDeploy, OperatorRecords, OperatorCrash, ServerCrash

(* Numbers.  A number that is still fresh when it is committed is above those
   of all rows; every other step makes no row and gives no number. *)
LEMMA NumbersStep ==
    IInv /\ [Next]_vars => NumbersBounded' /\ NumbersFresh' /\ OrderNumbersUnique'
<1> SUFFICES ASSUME IInv, [Next]_vars
             PROVE  NumbersBounded' /\ NumbersFresh' /\ OrderNumbersUnique'
  OBVIOUS
<1> USE DEF IInv, TypeOK, NumbersBounded, NumbersFresh, OrderNumbersUnique
<1>1. /\ Cardinality(Made) \in Nat
      /\ \A i \in Ids : order[i] \in Nat /\ creating[i] \in Nat
  BY MadeCount
<1>2. ASSUME NEW i \in Ids, CreateReads(i)
      PROVE  NumbersBounded' /\ NumbersFresh' /\ OrderNumbersUnique'
  <2>1. /\ creating' = [creating EXCEPT ![i] = NextOrder]
        /\ UNCHANGED <<status, order, stale>>
    BY <1>2 DEF CreateReads, table
  <2>2. Made' = Made /\ Live' = Live
    BY <2>1 DEF Made, Live
  <2>3. \A j \in Live : order[j] <= Cardinality(Made)
    BY DEF Live
  <2>4. NextOrder <= Cardinality(Made) + 1 /\ \A j \in Live : order[j] < NextOrder
    BY <1>1, <2>3, NextOrderAbove
  <2> QED
    BY <2>1, <2>2, <2>4
<1>3. ASSUME NEW i \in Ids, CreateCommits(i)
      PROVE  NumbersBounded' /\ NumbersFresh' /\ OrderNumbersUnique'
  <2>1. /\ creating[i] # 0 /\ i \notin stale /\ status[i] = "none"
        /\ status' = [status EXCEPT ![i] = "pending"]
        /\ order' = [order EXCEPT ![i] = creating[i]]
        /\ creating' = [creating EXCEPT ![i] = 0]
        /\ stale' = {j \in Ids : creating'[j] # 0}
    BY <1>3 DEF CreateCommits, SnapshotHolds, Handlers, InsertFirst
  <2>2. Made' = Made \cup {i} /\ i \notin Made /\ Live' = Live \cup {i} /\ i \notin Live
    BY <2>1 DEF Made, Live
  <2>3. Cardinality(Made') = Cardinality(Made) + 1
    BY <2>2, MadeCount
  <2>4. NumbersBounded'
    BY <1>1, <2>1, <2>3
  <2>5. NumbersFresh'
    BY <2>1
  <2>6. OrderNumbersUnique'
    <3>1. \A j \in Live : order'[j] < order'[i] /\ order'[j] = order[j] /\ j \in Ids
      BY <2>1, <2>2 DEF Live
    <3>2. \A j \in Live : order'[j] # order'[i]
      BY <1>1, <2>1, <3>1
    <3> QED
      BY <2>2, <3>1, <3>2
  <2> QED
    BY <2>4, <2>5, <2>6
<1>4. ASSUME Made' = Made, Live' \subseteq Live, UNCHANGED order,
             \A i \in Ids : \/ creating'[i] = 0
                            \/ creating'[i] = creating[i] /\ (i \in stale => i \in stale')
      PROVE  NumbersBounded' /\ NumbersFresh' /\ OrderNumbersUnique'
  BY <1>1, <1>4
<1>5. ASSUME NEW i \in Ids, CreateRefused(i)
      PROVE  NumbersBounded' /\ NumbersFresh' /\ OrderNumbersUnique'
  <2>1. Made' = Made /\ Live' = Live /\ order' = order
    BY <1>5 DEF CreateRefused, table, Made, Live
  <2>2. \A j \in Ids : \/ creating'[j] = 0
                       \/ creating'[j] = creating[j] /\ (j \in stale => j \in stale')
    BY <1>5 DEF CreateRefused
  <2> QED
    BY <1>4, <2>1, <2>2
<1>6. CASE ServerCrash
  <2>1. Made' = Made /\ Live' = Live /\ order' = order
    BY <1>6 DEF ServerCrash, table, Made, Live
  <2>2. \A j \in Ids : creating'[j] = 0
    BY <1>6 DEF ServerCrash
  <2> QED
    BY <1>4, <2>1, <2>2
<1>7. ASSUME NEW i \in Ids, NEW s \in Statuses \ {"none"}, i \in Live,
             status' = [status EXCEPT ![i] = s], UNCHANGED <<order, creating>>,
             Committed \/ stale' = stale
      PROVE  NumbersBounded' /\ NumbersFresh' /\ OrderNumbersUnique'
  <2>1. Made' = Made /\ Live' \subseteq Live
    BY <1>7 DEF Made, Live
  <2>2. stale \subseteq stale'
    BY <1>7 DEF Committed
  <2> QED
    BY <1>4, <1>7, <2>1, <2>2
<1>8. CASE UNCHANGED <<status, order, creating>> /\ (Committed \/ stale' = stale)
  <2>1. Made' = Made /\ Live' = Live
    BY <1>8 DEF Made, Live
  <2>2. stale \subseteq stale'
    BY <1>8 DEF Committed
  <2> QED
    BY <1>4, <1>8, <2>1, <2>2
<1>9. ASSUME NEW i \in Ids, NEW s \in Terminal, UpdateStatus(i, s),
             UNCHANGED <<order, creating>>
      PROVE  NumbersBounded' /\ NumbersFresh' /\ OrderNumbersUnique'
  <2>1. s \in Statuses \ {"none"}
    BY DEF Statuses, Terminal, Rollbackable
  <2> QED
    BY <1>7, <1>8, <1>9, <2>1 DEF UpdateStatus
<1>10. ASSUME NEW i \in Ids, GoroutineRecords(i)
       PROVE  NumbersBounded' /\ NumbersFresh' /\ OrderNumbersUnique'
  <2>1. /\ goroutine[i] \in {"waiting", "fail"}
        /\ UNCHANGED <<order, creating>>
        /\ \/ \E s \in Outcomes[goroutine[i]] : UpdateStatus(i, s)
           \/ UNCHANGED <<status, stale>>
    BY <1>10 DEF GoroutineRecords
  <2>2. Outcomes[goroutine[i]] \subseteq Terminal
    BY <2>1 DEF Outcomes, Terminal, Rollbackable
  <2> QED
    BY <1>8, <1>9, <2>1, <2>2
<1>11. ASSUME NEW o \in Operators, OperatorRecords(o)
       PROVE  NumbersBounded' /\ NumbersFresh' /\ OrderNumbersUnique'
  <2>1. /\ operator[o].pc \in {"ok", "fail"} /\ operator[o].id \in Ids
        /\ UNCHANGED <<order, creating>>
        /\ \/ \E s \in Outcomes[operator[o].pc] : UpdateStatus(operator[o].id, s)
           \/ UNCHANGED <<status, stale>>
    BY <1>11 DEF OperatorRecords, Handlers, ClaimFirst
  <2>2. Outcomes[operator[o].pc] \subseteq Terminal
    BY <2>1 DEF Outcomes, Terminal, Rollbackable
  <2> QED
    BY <1>8, <1>9, <2>1, <2>2
<1>12. ASSUME NEW i \in Ids, RollbackRecords(i) \/ DeleteDeployment(i)
       PROVE  NumbersBounded' /\ NumbersFresh' /\ OrderNumbersUnique'
  <2>1. CASE RollbackRecords(i)
    BY <1>8, <1>9, <2>1 DEF RollbackRecords, Terminal
  <2>2. CASE DeleteDeployment(i)
    BY <1>7, <2>2 DEF DeleteDeployment, Statuses
  <2> QED
    BY <1>12, <2>1, <2>2
<1>13. ASSUME NEW o \in Operators, ClaimDeployment(o)
       PROVE  NumbersBounded' /\ NumbersFresh' /\ OrderNumbersUnique'
  <2>1. operator[o].id \in Ids /\ operator[o].id \in Live
    BY <1>13 DEF ClaimDeployment, Claimable, Handlers, ClaimFirst, Live
  <2> QED
    BY <1>7, <1>13, <2>1 DEF ClaimDeployment, Statuses
<1>14. ASSUME NEW i \in Ids, Launch(i)
       PROVE  NumbersBounded' /\ NumbersFresh' /\ OrderNumbersUnique'
  BY <1>8, <1>14 DEF Launch
<1> QED
  BY <1>2, <1>3, <1>5, <1>6, <1>8, <1>10, <1>11, <1>12, <1>13, <1>14
     DEF Next, GoroutineStep, RollbackStep, OperatorStep, vars, table, opening, Reject,
         DeployReturns, RollbackChecks, RollbackRestores, Poll, ClaimFails, OperatorRejects,
         OperatorStartsDeploy, OperatorDeployReturns, OperatorCrash

(* Only finitely many take a row on. *)
LEMMA FiniteStep == IInv /\ [Next]_vars => FiniteHandlers'
<1> SUFFICES ASSUME IInv, [Next]_vars PROVE FiniteHandlers'
  OBVIOUS
<1> USE DEF IInv, TypeOK, FiniteHandlers
<1>1. ASSUME NEW i \in Ids, NEW h, handlers' = [handlers EXCEPT ![i] = @ \cup {h}]
      PROVE  FiniteHandlers'
  BY <1>1, FS_AddElement
<1>2. ASSUME NEW i \in Ids, Reject(i) \/ Launch(i)
      PROVE  FiniteHandlers'
  BY <1>1, <1>2 DEF Reject, Launch
<1>3. ASSUME NEW o \in Operators, ClaimDeployment(o)
      PROVE  FiniteHandlers'
  BY <1>1, <1>3 DEF ClaimDeployment, Handlers, ClaimFirst
<1>4. CASE UNCHANGED handlers
  BY <1>4
<1> QED
  BY <1>2, <1>3, <1>4
     DEF Next, GoroutineStep, RollbackStep, OperatorStep, vars, history,
         CreateReads, CreateCommits, CreateRefused, DeployReturns, GoroutineRecords,
         RollbackChecks, RollbackRestores, RollbackRecords, DeleteDeployment, Poll, ClaimFails,
         OperatorRejects, OperatorStartsDeploy, OperatorDeployReturns, OperatorRecords,
         OperatorCrash, ServerCrash

(* A claimed row leaves "running", or is abandoned, when its operator lets go. *)
LEMMA RunningStep == IInv /\ [Next]_vars => RunningIsHandled'
<1> SUFFICES ASSUME IInv, [Next]_vars PROVE RunningIsHandled'
  OBVIOUS
<1> USE DEF IInv, TypeOK, RunningIsHandled
<1>1. ASSUME \A i \in Ids : status'[i] = "running" => status[i] = "running",
             \A o \in Operators : operator[o].pc \in Handling =>
                 \/ operator'[o].id = operator[o].id /\ operator'[o].pc \in Handling
                 \/ operator[o].id \in abandoned'
                 \/ status'[operator[o].id] # "running",
             abandoned \subseteq abandoned'
      PROVE  RunningIsHandled'
  BY <1>1
<1>2. ASSUME NEW i \in Ids, NEW s \in Terminal, UpdateStatus(i, s)
      PROVE  /\ \A j \in Ids : status'[j] = "running" => status[j] = "running"
             /\ status'[i] # "running"
  BY <1>2 DEF UpdateStatus, Terminal, Rollbackable, Live
<1>3. ASSUME NEW i \in Ids, GoroutineRecords(i)
      PROVE  RunningIsHandled'
  <2>1. Outcomes[goroutine[i]] \subseteq Terminal
    BY <1>3 DEF GoroutineRecords, Outcomes, Terminal, Rollbackable
  <2>2. \A j \in Ids : status'[j] = "running" => status[j] = "running"
    BY <1>2, <1>3, <2>1 DEF GoroutineRecords
  <2>3. UNCHANGED operator /\ abandoned \subseteq abandoned'
    BY <1>3 DEF GoroutineRecords
  <2> QED
    BY <1>1, <2>2, <2>3
<1>4. ASSUME NEW o \in Operators, OperatorRecords(o)
      PROVE  RunningIsHandled'
  <2> DEFINE i == operator[o].id
  <2>1. i \in Ids /\ Outcomes[operator[o].pc] \subseteq Terminal
    BY <1>4 DEF OperatorRecords, Outcomes, Terminal, Rollbackable, Handlers, ClaimFirst
  <2>2. /\ \A j \in Ids : status'[j] = "running" => status[j] = "running"
        /\ status'[i] # "running" \/ i \in abandoned'
        /\ abandoned \subseteq abandoned'
    BY <1>2, <1>4, <2>1 DEF OperatorRecords
  <2>3. \A p \in Operators \ {o} : operator'[p] = operator[p]
    BY <1>4 DEF OperatorRecords, At
  <2> QED
    BY <1>1, <2>2, <2>3
<1>5. ASSUME NEW i \in Ids, RollbackRecords(i) \/ DeleteDeployment(i) \/ CreateCommits(i)
      PROVE  RunningIsHandled'
  <2>1. "rolled_back" \in Terminal
    BY DEF Terminal
  <2>2. \A j \in Ids : status'[j] = "running" => status[j] = "running"
    BY <1>2, <1>5, <2>1 DEF RollbackRecords, DeleteDeployment, CreateCommits
  <2>3. UNCHANGED <<operator, abandoned>>
    BY <1>5 DEF RollbackRecords, DeleteDeployment, CreateCommits, history
  <2> QED
    BY <1>1, <2>2, <2>3
<1>6. ASSUME NEW o \in Operators, ClaimDeployment(o)
      PROVE  RunningIsHandled'
  <2>1. /\ operator[o].pc = "picked" /\ operator[o].id \in Ids
        /\ status' = [status EXCEPT ![operator[o].id] = "running"]
        /\ operator' = [operator EXCEPT ![o] = [pc |-> "claimed", id |-> operator[o].id]]
        /\ abandoned' = abandoned
    BY <1>6 DEF ClaimDeployment, At, Handlers, ClaimFirst
  <2>2. \A p \in Operators : operator[p].pc \in Handling => operator'[p] = operator[p]
    BY <2>1 DEF Handling
  <2>3. operator'[o].id = operator[o].id /\ operator'[o].pc \in Handling
    BY <2>1 DEF Handling
  <2> QED
    BY <2>1, <2>2, <2>3
<1>7. ASSUME NEW o \in Operators,
             \/ Poll(o) \/ ClaimFails(o) \/ OperatorRejects(o) \/ OperatorStartsDeploy(o)
             \/ OperatorDeployReturns(o) \/ OperatorCrash(o)
      PROVE  RunningIsHandled'
  <2>1. UNCHANGED status /\ abandoned \subseteq abandoned'
    BY <1>7 DEF Poll, ClaimFails, OperatorRejects, OperatorStartsDeploy, OperatorDeployReturns,
                OperatorCrash, table, history
  <2>2. \A p \in Operators \ {o} : operator'[p] = operator[p]
    BY <1>7 DEF Poll, ClaimFails, OperatorRejects, OperatorStartsDeploy, OperatorDeployReturns,
                OperatorCrash, At
  <2>3. operator[o].pc \in Handling =>
            \/ operator'[o].id = operator[o].id /\ operator'[o].pc \in Handling
            \/ operator[o].id \in abandoned'
    <3>1. CASE Poll(o) \/ ClaimFails(o)
      BY <3>1 DEF Poll, ClaimFails, Handling
    <3>2. CASE OperatorRejects(o) \/ OperatorStartsDeploy(o) \/ OperatorDeployReturns(o)
      BY <3>2 DEF OperatorRejects, OperatorStartsDeploy, OperatorDeployReturns, At, Handling
    <3>3. CASE OperatorCrash(o)
      BY <3>3 DEF OperatorCrash
    <3> QED
      BY <1>7, <3>1, <3>2, <3>3
  <2> QED
    BY <1>1, <2>1, <2>2, <2>3
<1>8. CASE UNCHANGED <<status, operator, abandoned>>
  BY <1>1, <1>8
<1> QED
  BY <1>3, <1>4, <1>5, <1>6, <1>7, <1>8
     DEF Next, GoroutineStep, RollbackStep, OperatorStep, vars, table, history,
         CreateReads, CreateRefused, Reject, Launch, DeployReturns, RollbackChecks,
         RollbackRestores, ServerCrash

-----------------------------------------------------------------------------

(* The strengthening is an invariant. *)
THEOREM Invariance == Spec => []IInv
<1>1. IInv /\ [Next]_vars => IInv'
  BY TypeStep, HandlersStep, SnapshotStep, NumbersStep, FiniteStep, RunningStep DEF IInv
<1> QED
  BY InitIInv, <1>1, PTL DEF Spec

(* The statuses stored are those the API knows, and no order number exceeds
   the number of rows ever inserted. *)
THEOREM TypeCorrect == Spec => []TypeOK
<1>1. IInv => TypeOK
  BY DEF IInv
<1> QED
  BY Invariance, <1>1, PTL

(* Order numbers are unique, although they are computed in one statement and
   inserted by another (deployment.go:50, 73). *)
THEOREM NumbersUnique == Spec => []OrderNumbersUnique
<1>1. IInv => OrderNumbersUnique
  BY DEF IInv
<1> QED
  BY Invariance, <1>1, PTL

(* One operator takes a row on, at most, in its whole life: the claim asks for
   a pending row, and no step makes a row pending again. *)
THEOREM ClaimedByOne == Spec => []OneOperator
<1>1. IInv => OneOperator
  <2> SUFFICES ASSUME IInv, NEW i \in Ids
               PROVE  Cardinality(handlers[i] \cap Operators) <= 1
    BY DEF OneOperator
  <2>1. IsFiniteSet(handlers[i] \cap Operators)
    BY FS_Intersection DEF IInv, FiniteHandlers
  <2>2. \A o, p \in handlers[i] \cap Operators : o = p
    BY DEF IInv, Handlers, ClaimedOnce
  <2> QED
    BY <2>1, <2>2, AllTheSame
<1> QED
  BY Invariance, <1>1, PTL

(* A running row has an operator, or was abandoned by one. *)
THEOREM RunningHandled == Spec => []RunningIsHandled
<1>1. IInv => RunningIsHandled
  BY DEF IInv
<1> QED
  BY Invariance, <1>1, PTL

(* Of a row with one handler: the server and an operator are not both among
   its handlers, and neither are two operators. *)
LEMMA HandlerIsOne ==
    ASSUME IInv, NEW i \in Ids, OneHandler(i)
    PROVE  \A x, y \in handlers[i] : x = y
<1>1. IsFiniteSet(handlers[i])
  BY DEF IInv, FiniteHandlers
<1> QED
  BY <1>1, AtMostOne DEF OneHandler

(* What a single handler still has in hand is not final. *)
LEMMA InHandIsOpen ==
    ASSUME IInv, NEW i \in Ids, OneHandler(i)
    PROVE  /\ goroutine[i] \in Active => status[i] \notin Terminal
           /\ \A o \in Operators :
                 operator[o].pc \in Handling /\ operator[o].id = i => status[i] \notin Terminal
<1>1. "pending" \notin Terminal /\ "running" \notin Terminal /\ "deleted" \notin Terminal
  BY DEF Terminal, Rollbackable
<1>2. goroutine[i] \in Active => status[i] \notin Terminal
  <2> SUFFICES ASSUME goroutine[i] \in Active PROVE status[i] \notin Terminal
    OBVIOUS
  <2>1. "server" \in handlers[i]
    BY DEF IInv, Handlers, InsertFirst
  <2>2. handlers[i] \cap Operators = {}
    BY <2>1, HandlerIsOne, OperatorsAssumption
  <2> QED
    BY <1>1, <2>2 DEF IInv, Handlers, ServerAlone
<1>3. ASSUME NEW o \in Operators, operator[o].pc \in Handling, operator[o].id = i
      PROVE  status[i] \notin Terminal
  <2>1. o \in handlers[i]
    BY <1>3 DEF IInv, Handlers, ClaimFirst
  <2>2. "server" \notin handlers[i]
    BY <2>1, HandlerIsOne, OperatorsAssumption
  <2> QED
    BY <1>1, <1>3, <2>2 DEF IInv, Handlers, OperatorAlone
<1> QED
  BY <1>2, <1>3

(* While a row's only handler executes it, its status is not final: the log
   stream does not end early, and no rollback begins. *)
THEOREM FinalQuiet == Spec => []FinalIsQuiet
<1>1. IInv => FinalIsQuiet
  BY InHandIsOpen DEF FinalIsQuiet, Executing, Active, Handling
<1> QED
  BY Invariance, <1>1, PTL

(* The status of a row tells its readers who handles it (ClaimDeployment,
   UpdateDeploymentStatus): what follows from the theorems above. *)
THEOREM StatusTrue == Spec => []StatusIsTrue
BY TypeCorrect, ClaimedByOne, RunningHandled, FinalQuiet, PTL DEF StatusIsTrue

(* A snapshot never holds the objects of its own deployment, unless both the
   server and an operator have taken it on. *)
THEOREM SnapshotEarlier == Spec => []SnapshotIsEarlier
<1>1. IInv => SnapshotIsEarlier
  <2> SUFFICES ASSUME IInv, NEW i \in Ids, OneHandler(i), previous[i] = i
               PROVE  FALSE
    BY DEF SnapshotIsEarlier
  <2>1. "server" \in handlers[i] /\ handlers[i] \cap Operators # {}
    BY DEF IInv, SnapshotFirst
  <2> QED
    BY <2>1, HandlerIsOne, OperatorsAssumption
<1> QED
  BY Invariance, <1>1, PTL

(* A final status stays, but for a rollback or the deletion, while only one has
   taken the row on: a late update cannot come from anybody else. *)
THEOREM FinalStays == Spec => FinalIsFinal
<1> DEFINE Stays(i) == status'[i] \in {status[i], "rolled_back", "deleted"}
<1>1. ASSUME IInv, IInv', Next, NEW i \in Ids, OneHandler(i)', status[i] \in Terminal
      PROVE  Stays(i)
  <2> USE DEF IInv, TypeOK
  <2>1. OneHandler(i)
    <3>1. handlers[i] \subseteq handlers'[i]
      BY <1>1 DEF Next, GoroutineStep, RollbackStep, OperatorStep, history, CreateReads,
                  CreateCommits, CreateRefused, Reject, Launch, DeployReturns,
                  GoroutineRecords, RollbackChecks, RollbackRestores, RollbackRecords,
                  DeleteDeployment, Poll, ClaimDeployment, ClaimFails, OperatorRejects,
                  OperatorStartsDeploy, OperatorDeployReturns, OperatorRecords,
                  OperatorCrash, ServerCrash
    <3>2. IsFiniteSet(handlers'[i])
      BY <1>1 DEF FiniteHandlers
    <3>3. /\ Cardinality(handlers[i]) <= Cardinality(handlers'[i])
          /\ Cardinality(handlers[i]) \in Nat /\ Cardinality(handlers'[i]) \in Nat
      BY <3>1, <3>2, FS_Subset, FS_CardinalityType
    <3>4. Cardinality(handlers'[i]) <= 1
      BY <1>1 DEF OneHandler
    <3> QED
      BY <3>3, <3>4 DEF OneHandler
  <2>2. status[i] \notin {"none", "pending"}
    BY <1>1 DEF Terminal, Rollbackable
  <2>3. ASSUME NEW j \in Ids, CreateCommits(j)
        PROVE  Stays(i)
    BY <1>1, <2>2, <2>3 DEF CreateCommits, Handlers, InsertFirst
  <2>4. ASSUME NEW j \in Ids, GoroutineRecords(j)
        PROVE  Stays(i)
    <3>1. j # i
      BY <1>1, <2>1, <2>4, InHandIsOpen DEF GoroutineRecords, Active
    <3> QED
      BY <1>1, <2>4, <3>1 DEF GoroutineRecords, UpdateStatus
  <2>5. ASSUME NEW o \in Operators, OperatorRecords(o)
        PROVE  Stays(i)
    <3>1. operator[o].id # i
      BY <1>1, <2>1, <2>5, InHandIsOpen DEF OperatorRecords, Handling
    <3> QED
      BY <1>1, <2>5, <3>1 DEF OperatorRecords, UpdateStatus
  <2>6. ASSUME NEW o \in Operators, ClaimDeployment(o)
        PROVE  Stays(i)
    BY <1>1, <2>2, <2>6 DEF ClaimDeployment, Claimable
  <2>7. ASSUME NEW j \in Ids, RollbackRecords(j) \/ DeleteDeployment(j)
        PROVE  Stays(i)
    BY <1>1, <2>7 DEF RollbackRecords, DeleteDeployment, UpdateStatus
  <2>8. CASE UNCHANGED status
    BY <2>8
  <2> QED
    BY <1>1, <2>3, <2>4, <2>5, <2>6, <2>7, <2>8
       DEF Next, GoroutineStep, RollbackStep, OperatorStep, table, CreateReads,
           CreateRefused, Reject, Launch, DeployReturns, RollbackChecks, RollbackRestores,
           Poll, ClaimFails, OperatorRejects, OperatorStartsDeploy, OperatorDeployReturns,
           OperatorCrash, ServerCrash
<1>2. IInv /\ IInv' /\ [Next]_vars =>
         [\A i \in Ids : OneHandler(i)' /\ status[i] \in Terminal => Stays(i)]_vars
  BY <1>1
<1> QED
  BY Invariance, <1>2, PTL DEF Spec, FinalIsFinal

-----------------------------------------------------------------------------
(* Deployments implement RowLife *)

Hands == [i \in Ids |-> InHand(i)]
Past  == [i \in Ids |-> handlers[i] \ InHand(i)]

(* Who has a row in hand has taken it on. *)
LEMMA HandsAreHandlers ==
    ASSUME IInv, NEW i \in Ids
    PROVE  InHand(i) \subseteq handlers[i]
BY DEF IInv, Handlers, InsertFirst, ClaimFirst, InHand, Active

(* A step that moves nobody into or out of Active and Handling leaves the row
   in the same hands. *)
LEMMA SameHands ==
    ASSUME \A j \in Ids : goroutine'[j] \in Active <=> goroutine[j] \in Active,
           \A o \in Operators :
              \/ operator'[o] = operator[o]
              \/ operator[o].pc \notin Handling /\ operator'[o].pc \notin Handling
              \/ /\ operator[o].pc \in Handling /\ operator'[o].pc \in Handling
                 /\ operator'[o].id = operator[o].id,
           handlers' = handlers
    PROVE  UNCHANGED <<Hands, Past>>
<1>1. \A j \in Ids : InHand(j)' = InHand(j)
  BY DEF InHand, Active
<1> QED
  BY <1>1 DEF Hands, Past

(* One more takes the row on. *)
LEMMA TakesOn ==
    ASSUME IInv, NEW i \in Ids, NEW h, h \notin handlers[i],
           handlers' = [handlers EXCEPT ![i] = @ \cup {h}],
           InHand(i)' = InHand(i) \cup {h},
           \A j \in Ids \ {i} : InHand(j)' = InHand(j)
    PROVE  Life!Takes(i, h)
<1>1. h \notin Hands[i] \cup Past[i]
  BY HandsAreHandlers DEF Hands, Past
<1>2. Hands' = [Hands EXCEPT ![i] = @ \cup {h}]
  BY DEF Hands
<1>3. UNCHANGED Past
  <2>1. \A j \in Ids : handlers'[j] \ InHand(j)' = handlers[j] \ InHand(j)
    BY DEF IInv, TypeOK
  <2> QED
    BY <2>1 DEF Past
<1> QED
  BY <1>1, <1>2, <1>3 DEF Life!Takes, Hands, Past

(* What a handler may do to the row when it is done with it. *)
Outcome(i) ==
    \/ UNCHANGED status
    \/ /\ status[i] # "deleted"
       /\ \E outcome \in Rollbackable : status' = [status EXCEPT ![i] = outcome]

(* One of those who have the row in hand is done with it. *)
LEMMA LetsGo ==
    ASSUME IInv, NEW i \in Ids, NEW h \in InHand(i), handlers' = handlers,
           InHand(i)' = InHand(i) \ {h},
           \A j \in Ids \ {i} : InHand(j)' = InHand(j),
           Outcome(i)
    PROVE  Life!LetGo(i, h)
<1>1. h \in Hands[i]
  BY DEF Hands
<1>2. Hands' = [Hands EXCEPT ![i] = @ \ {h}]
  BY DEF Hands
<1>3. Past' = [Past EXCEPT ![i] = @ \cup {h}]
  <2>1. handlers[i] \ (InHand(i) \ {h}) = (handlers[i] \ InHand(i)) \cup {h}
    BY HandsAreHandlers
  <2> QED
    BY <2>1 DEF Past
<1>4. \/ UNCHANGED status
      \/ /\ status[i] # "deleted"
         /\ \E outcome \in Life!Terminal \ {"rolled_back"} :
               status' = [status EXCEPT ![i] = outcome]
  BY DEF Outcome, Rollbackable, Life!Terminal
<1> QED
  BY <1>1, <1>2, <1>3, <1>4 DEF Life!LetGo, Hands, Past

(* The update of a handler that is done. *)
LEMMA UpdateIsOutcome ==
    ASSUME NEW i \in Ids, NEW outcome \in Rollbackable, UpdateStatus(i, outcome)
    PROVE  Outcome(i)
BY DEF UpdateStatus, Outcome, Live

(* Each step of the server, the operators and the system is one of RowLife, or
   changes nothing that RowLife speaks of. *)
LEMMA StepImplements == IInv /\ [Next]_vars => [Life!Next]_<<status, Hands, Past>>
<1> DEFINE Stutters == UNCHANGED <<status, Hands, Past>>
<1> SUFFICES ASSUME IInv, [Next]_vars PROVE Life!Next \/ Stutters
  BY DEF Hands, Past
<1> USE OperatorsAssumption
<1>1. ASSUME NEW i \in Ids, CreateReads(i) \/ CreateRefused(i)
      PROVE  Stutters
  BY <1>1, SameHands DEF CreateReads, CreateRefused, table, history
<1>2. ASSUME NEW i \in Ids, CreateCommits(i)
      PROVE  Life!Create(i)
  <2>1. status[i] = "none" /\ goroutine[i] = "none"
    BY <1>2 DEF CreateCommits, IInv, Handlers, InsertFirst
  <2>2. \A j \in Ids : goroutine'[j] \in Active <=> goroutine[j] \in Active
    BY <1>2, <2>1 DEF CreateCommits, Active, IInv, TypeOK
  <2>3. UNCHANGED <<Hands, Past>>
    BY <1>2, <2>2, SameHands DEF CreateCommits, history
  <2> QED
    BY <1>2, <2>1, <2>3 DEF CreateCommits, Life!Create, Hands, Past
<1>3. ASSUME NEW i \in Ids, Reject(i) \/ Launch(i)
      PROVE  Life!Launch(i)
  <2>1. /\ goroutine[i] = "created" /\ goroutine'[i] \in Active
        /\ \A j \in Ids \ {i} : goroutine'[j] = goroutine[j]
        /\ handlers' = [handlers EXCEPT ![i] = @ \cup {"server"}]
        /\ UNCHANGED <<status, operator>>
    BY <1>3 DEF Reject, Launch, Active, table, IInv, TypeOK
  <2>2. status[i] # "none" /\ "server" \notin handlers[i]
    BY <2>1 DEF IInv, Handlers, InsertFirst
  <2>3. InHand(i)' = InHand(i) \cup {"server"}
    BY <2>1 DEF InHand, Active
  <2>4. \A j \in Ids \ {i} : InHand(j)' = InHand(j)
    BY <2>1 DEF InHand
  <2>5. Life!Takes(i, "server")
    BY <2>1, <2>2, <2>3, <2>4, TakesOn
  <2> QED
    BY <2>1, <2>2, <2>5 DEF Life!Launch
<1>4. ASSUME NEW i \in Ids, DeployReturns(i)
      PROVE  Stutters
  <2>1. \A j \in Ids : goroutine'[j] \in Active <=> goroutine[j] \in Active
    BY <1>4 DEF DeployReturns, Active, IInv, TypeOK
  <2> QED
    BY <1>4, <2>1, SameHands DEF DeployReturns, table, history
<1>5. ASSUME NEW i \in Ids, GoroutineRecords(i)
      PROVE  Life!LetGo(i, "server")
  <2>1. /\ goroutine[i] \in Active /\ goroutine'[i] = "done"
        /\ \A j \in Ids \ {i} : goroutine'[j] = goroutine[j]
        /\ UNCHANGED <<operator, handlers>>
    BY <1>5 DEF GoroutineRecords, Active, IInv, TypeOK
  <2>2. "server" \in InHand(i) /\ InHand(i)' = InHand(i) \ {"server"}
    BY <2>1 DEF InHand, Active
  <2>3. \A j \in Ids \ {i} : InHand(j)' = InHand(j)
    BY <2>1 DEF InHand
  <2>4. Outcome(i)
    <3>1. CASE \E outcome \in Outcomes[goroutine[i]] : UpdateStatus(i, outcome)
      <4>1. Outcomes[goroutine[i]] \subseteq Rollbackable
        BY <1>5 DEF GoroutineRecords, Outcomes, Rollbackable
      <4> QED
        BY <3>1, <4>1, UpdateIsOutcome
    <3>2. CASE UNCHANGED status
      BY <3>2 DEF Outcome
    <3> QED
      BY <1>5, <3>1, <3>2 DEF GoroutineRecords
  <2> QED
    BY <2>1, <2>2, <2>3, <2>4, LetsGo
<1>6. ASSUME NEW i \in Ids, RollbackChecks(i) \/ RollbackRestores(i)
      PROVE  Stutters
  BY <1>6, SameHands DEF RollbackChecks, RollbackRestores, table, history
<1>7. ASSUME NEW i \in Ids, RollbackRecords(i)
      PROVE  Life!RollBack(i) \/ Stutters
  <2>1. UNCHANGED <<Hands, Past>>
    BY <1>7, SameHands DEF RollbackRecords, history
  <2>2. status[i] \in Terminal \cup {"deleted"}
    BY <1>7 DEF RollbackRecords, IInv, Handlers, RollbackLast
  <2>3. \/ UNCHANGED status
        \/ i \in Live /\ status' = [status EXCEPT ![i] = "rolled_back"]
    BY <1>7 DEF RollbackRecords, UpdateStatus
  <2> QED
    BY <2>1, <2>2, <2>3
       DEF Life!RollBack, Life!Terminal, Terminal, Rollbackable, Live, Hands, Past
<1>8. ASSUME NEW i \in Ids, DeleteDeployment(i)
      PROVE  Life!Delete(i)
  <2>1. UNCHANGED <<Hands, Past>>
    BY <1>8, SameHands DEF DeleteDeployment, history
  <2> QED
    BY <1>8, <2>1 DEF DeleteDeployment, Life!Delete, Live, Hands, Past
<1>9. ASSUME NEW o \in Operators,
             \/ Poll(o) \/ ClaimFails(o) \/ OperatorRejects(o)
             \/ OperatorStartsDeploy(o) \/ OperatorDeployReturns(o)
      PROVE  Stutters
  <2>1. /\ \A p \in Operators \ {o} : operator'[p] = operator[p]
        /\ UNCHANGED <<status, goroutine, handlers>>
    BY <1>9 DEF Poll, ClaimFails, OperatorRejects, OperatorStartsDeploy,
                OperatorDeployReturns, At, table, history, IInv, TypeOK
  <2>2. \/ operator[o].pc \notin Handling /\ operator'[o].pc \notin Handling
        \/ /\ operator[o].pc \in Handling /\ operator'[o].pc \in Handling
           /\ operator'[o].id = operator[o].id
    <3>1. CASE Poll(o) \/ ClaimFails(o)
      BY <3>1 DEF Poll, ClaimFails, At, Handling, IInv, TypeOK
    <3>2. CASE OperatorRejects(o) \/ OperatorStartsDeploy(o) \/ OperatorDeployReturns(o)
      BY <3>2 DEF OperatorRejects, OperatorStartsDeploy, OperatorDeployReturns, At,
                  Handling, IInv, TypeOK
    <3> QED
      BY <1>9, <3>1, <3>2
  <2> QED
    BY <2>1, <2>2, SameHands
<1>10. ASSUME NEW o \in Operators, ClaimDeployment(o)
       PROVE  Life!Claim(operator[o].id, o)
  <2>1. PICK i \in Ids : operator[o].id = i
    BY <1>10 DEF ClaimDeployment, IInv, Handlers, ClaimFirst
  <2>2. /\ operator[o].pc = "picked" /\ operator'[o] = [pc |-> "claimed", id |-> i]
        /\ \A p \in Operators \ {o} : operator'[p] = operator[p]
        /\ handlers' = [handlers EXCEPT ![i] = @ \cup {o}]
        /\ status[i] = "pending" /\ status' = [status EXCEPT ![i] = "running"]
        /\ UNCHANGED goroutine
    BY <1>10, <2>1 DEF ClaimDeployment, Claimable, At, IInv, TypeOK
  <2>3. handlers[i] \cap Operators = {}
    BY <2>2 DEF IInv, Handlers, ClaimedOnce
  <2>4. InHand(i)' = InHand(i) \cup {o}
    BY <2>2 DEF InHand, Handling
  <2>5. \A j \in Ids \ {i} : InHand(j)' = InHand(j)
    BY <2>2 DEF InHand, Handling
  <2>6. Life!Takes(i, o)
    BY <2>2, <2>3, <2>4, <2>5, TakesOn
  <2>7. (Hands[i] \cup Past[i]) \cap Operators = {}
    BY <2>3, HandsAreHandlers DEF Hands, Past
  <2>8. Life!Claim(i, o)
    BY <2>2, <2>6, <2>7 DEF Life!Claim, Hands, Past
  <2> QED
    BY <2>1, <2>8
<1>11. ASSUME NEW o \in Operators, OperatorRecords(o) \/ OperatorCrash(o),
              operator[o].pc \in Handling
       PROVE  \E i \in Ids : Life!LetGo(i, o)
  <2>1. PICK i \in Ids : operator[o].id = i
    BY <1>11 DEF IInv, Handlers, ClaimFirst, Handling
  <2>2. /\ operator'[o] = [pc |-> "idle", id |-> Unset]
        /\ \A p \in Operators \ {o} : operator'[p] = operator[p]
        /\ UNCHANGED <<handlers, goroutine>>
    BY <1>11 DEF OperatorRecords, OperatorCrash, At, IInv, TypeOK
  <2>3. o \in InHand(i) /\ InHand(i)' = InHand(i) \ {o}
    BY <1>11, <2>1, <2>2 DEF InHand, Handling
  <2>4. \A j \in Ids \ {i} : InHand(j)' = InHand(j)
    BY <2>1, <2>2 DEF InHand, Handling
  <2>5. Outcome(i)
    <3>1. CASE OperatorRecords(o)
      <4>1. CASE \E outcome \in Outcomes[operator[o].pc] : UpdateStatus(i, outcome)
        <5>1. Outcomes[operator[o].pc] \subseteq Rollbackable
          BY <3>1 DEF OperatorRecords, Outcomes, Rollbackable
        <5> QED
          BY <4>1, <5>1, UpdateIsOutcome
      <4>2. CASE UNCHANGED status
        BY <4>2 DEF Outcome
      <4> QED
        BY <2>1, <3>1, <4>1, <4>2 DEF OperatorRecords
    <3>2. CASE OperatorCrash(o)
      BY <3>2 DEF OperatorCrash, Outcome, table
    <3> QED
      BY <1>11, <3>1, <3>2
  <2> QED
    BY <2>2, <2>3, <2>4, <2>5, LetsGo
<1>12. ASSUME NEW o \in Operators, OperatorCrash(o), operator[o].pc \notin Handling
       PROVE  Stutters
  <2>1. /\ operator'[o].pc = "idle"
        /\ \A p \in Operators \ {o} : operator'[p] = operator[p]
        /\ UNCHANGED <<status, handlers, goroutine>>
    BY <1>12 DEF OperatorCrash, At, table, IInv, TypeOK
  <2> QED
    BY <1>12, <2>1, SameHands DEF Handling
<1>13. CASE ServerCrash
  <2>1. /\ \A j \in Ids : goroutine'[j] \in {"none", "done"}
        /\ UNCHANGED <<status, operator, handlers>>
    BY <1>13 DEF ServerCrash, table, history
  <2>2. \A j \in Ids : InHand(j)' = InHand(j) \ {"server"}
    BY <2>1 DEF InHand
  <2>3. \A j \in Ids : (handlers[j] \ InHand(j))'
                         = (handlers[j] \ InHand(j)) \cup (InHand(j) \cap {"server"})
    BY <2>1, <2>2, HandsAreHandlers
  <2>4. Life!ServerKilled
    BY <2>1, <2>2, <2>3 DEF Life!ServerKilled
  <2> QED
    BY <2>4 DEF Life!Next
<1>14. CASE UNCHANGED vars
  BY <1>14, SameHands DEF vars, table, history
<1>15. ASSUME NEW o \in Operators, ClaimDeployment(o)
       PROVE  Life!Next
  <2>1. operator[o].id \in Ids
    BY <1>15 DEF ClaimDeployment, IInv, Handlers, ClaimFirst
  <2> QED
    BY <1>10, <1>15, <2>1 DEF Life!Next
<1>16. ASSUME NEW o \in Operators, OperatorStep(o) \/ OperatorCrash(o)
       PROVE  Life!Next \/ Stutters
  <2>1. OperatorRecords(o) => operator[o].pc \in Handling
    BY DEF OperatorRecords, Handling
  <2>2. (\E i \in Ids : Life!LetGo(i, o)) => Life!Next
    BY DEF Life!Next
  <2> QED
    BY <1>9, <1>11, <1>12, <1>15, <1>16, <2>1, <2>2 DEF OperatorStep
<1>17. ASSUME NEW i \in Ids, GoroutineStep(i)
       PROVE  Life!Next \/ Stutters
  BY <1>3, <1>4, <1>5, <1>17 DEF GoroutineStep, Life!Next
<1>18. ASSUME NEW i \in Ids, RollbackStep(i) \/ DeleteDeployment(i)
       PROVE  Life!Next \/ Stutters
  BY <1>6, <1>7, <1>8, <1>18 DEF RollbackStep, Life!Next
<1>19. ASSUME NEW i \in Ids, CreateReads(i) \/ CreateCommits(i) \/ CreateRefused(i)
       PROVE  Life!Next \/ Stutters
  BY <1>1, <1>2, <1>19 DEF Life!Next
<1> QED
  BY <1>13, <1>14, <1>16, <1>17, <1>18, <1>19 DEF Next

LEMMA InitImplements == Init => Life!Init
BY DEF Init, Life!Init, InHand, Handling

(* Whoever executes a row, server or operator, does so once and writes one
   outcome at most, while it has the row in hand; only a rollback takes a final
   status back (runDeployWith, ClaimDeployment, UpdateDeploymentStatus). *)
THEOREM RowsLive == Spec => LivesOneLife
<1>1. IInv /\ [Next]_vars => [Life!Next]_Life!life
  BY StepImplements DEF Life!life, Hands, Past
<1> QED
  BY Invariance, InitImplements, <1>1, PTL DEF Spec, LivesOneLife, Life!Spec

-----------------------------------------------------------------------------
(* The build queue: the strengthening *)

LoopHolds == held # NoBuild <=> loop \in {"acquire", "spawn"}

(* Every token of sem belongs to a goroutine, or to the loop between the
   send on sem and the go statement. *)
SlotAccounting ==
    sem = Cardinality(SlotHolders) + (IF loop = "spawn" THEN 1 ELSE 0)

CountAccounting == wg = Cardinality(CountHolders)

(* A build passes its handler before the queue sees it. *)
HandlerFirst ==
    \A b \in Builds : /\ row[b] = "none" => req[b] = "none"
                      /\ worker[b] # "none" => req[b] = "answered"

(* What the table says of a build that has not returned. *)
RowFollowsWorker ==
    \A b \in Builds :
        /\ req[b] # "none" /\ worker[b] \in {"none", "begin"} => row[b] = "pending"
        /\ worker[b] \in {"work", "report_ok", "report_fail"} => row[b] = "building"

(* A build that was given up is in none of the places from which it could run. *)
GivenUp ==
    \A b \in Builds :
        /\ row[b] # "none" => req[b] # "none"
        /\ lost[b] # "no" => /\ req[b] = "answered" /\ b \notin Queued /\ b # held
                             /\ worker[b] \notin InBuild

QueueIInv ==
    /\ QueueTypeOK
    /\ LoopHolds
    /\ SlotAccounting
    /\ CountAccounting
    /\ OnePlace
    /\ HandlerFirst
    /\ RowFollowsWorker
    /\ NoSilentLoss
    /\ GivenUp

-----------------------------------------------------------------------------
(* Counting *)

(* A subset of Builds has a size. *)
LEMMA SubsetFinite ==
    ASSUME NEW S, S \subseteq Builds
    PROVE  IsFiniteSet(S) /\ Cardinality(S) \in Nat
  BY BuildsAssumption, FS_Subset, FS_CardinalityType

(* Counting one more build. *)
LEMMA CountAdd ==
    ASSUME NEW S, S \subseteq Builds, NEW b, b \notin S
    PROVE  Cardinality(S \cup {b}) = Cardinality(S) + 1
  BY SubsetFinite, FS_AddElement

(* Counting one build less. *)
LEMMA CountRemove ==
    ASSUME NEW S, S \subseteq Builds, NEW b, b \in S
    PROVE  Cardinality(S \ {b}) = Cardinality(S) - 1
  BY SubsetFinite, FS_RemoveElement

(* The channel: a send adds its build, a receive takes the first away. *)
LEMMA QueueSend ==
    ASSUME QueueTypeOK, NEW b \in Builds, jobs' = Append(jobs, b)
    PROVE  /\ jobs' \in Seq(Builds)
           /\ Len(jobs') = Len(jobs) + 1
           /\ Queued' = Queued \cup {b}
           /\ \A i \in DOMAIN jobs : jobs'[i] = jobs[i]
           /\ jobs'[Len(jobs) + 1] = b
           /\ DOMAIN jobs' = (DOMAIN jobs) \cup {Len(jobs) + 1}
  BY DEF QueueTypeOK, Queued

LEMMA QueueReceive ==
    ASSUME QueueTypeOK, jobs # <<>>, jobs' = Tail(jobs),
           \A i, j \in DOMAIN jobs : jobs[i] = jobs[j] => i = j
    PROVE  /\ jobs' \in Seq(Builds)
           /\ Len(jobs') = Len(jobs) - 1
           /\ Head(jobs) \in Queued
           /\ Queued' = Queued \ {Head(jobs)}
           /\ \A i, j \in DOMAIN jobs' : jobs'[i] = jobs'[j] => i = j
<1>1. /\ jobs \in Seq(Builds) /\ Len(jobs) \in Nat \ {0}
      /\ Head(jobs) = jobs[1]
  BY DEF QueueTypeOK
<1>2. /\ jobs' \in Seq(Builds) /\ Len(jobs') = Len(jobs) - 1
      /\ \A i \in 1..(Len(jobs) - 1) : jobs'[i] = jobs[i + 1]
  BY <1>1
<1>3. DOMAIN jobs = 1..Len(jobs) /\ DOMAIN jobs' = 1..(Len(jobs) - 1)
  BY <1>1, <1>2
<1>4. \A i, j \in DOMAIN jobs' : jobs'[i] = jobs'[j] => i = j
  BY <1>1, <1>2, <1>3
<1>5. Queued = {jobs[1]} \cup Queued'
  <2>1. ASSUME NEW i \in DOMAIN jobs, i # 1
        PROVE  i - 1 \in DOMAIN jobs' /\ jobs'[i - 1] = jobs[i]
    BY <2>1, <1>1, <1>2, <1>3
  <2>2. ASSUME NEW i \in DOMAIN jobs'
        PROVE  i + 1 \in DOMAIN jobs /\ jobs'[i] = jobs[i + 1]
    BY <2>2, <1>1, <1>2, <1>3
  <2>3. Queued \subseteq {jobs[1]} \cup Queued'
    BY <2>1 DEF Queued
  <2>4. Queued' \subseteq Queued
    BY <2>2 DEF Queued
  <2>5. jobs[1] \in Queued
    BY <1>1, <1>3 DEF Queued
  <2> QED
    BY <2>3, <2>4, <2>5
<1>6. jobs[1] \notin Queued'
  BY <1>1, <1>2, <1>3 DEF Queued
<1> QED
  BY <1>1, <1>2, <1>4, <1>5, <1>6

-----------------------------------------------------------------------------

LEMMA QueueInitIInv == QueueInit => QueueIInv
<1> SUFFICES ASSUME QueueInit PROVE QueueIInv
  OBVIOUS
<1> USE DEF QueueInit, Fresh
<1>1. SlotHolders = {} /\ CountHolders = {} /\ Queued = {}
  BY DEF SlotHolders, CountHolders, HoldsSlot, HoldsCount, InBuild, Queued
<1>2. SlotAccounting /\ CountAccounting
  BY <1>1, FS_EmptySet DEF SlotAccounting, CountAccounting
<1>3. QueueTypeOK
  BY LimitsAssumption, BuildsAssumption
     DEF QueueTypeOK, Open, Recorded, HoldsSlot, InBuild
<1>4. LoopHolds /\ OnePlace /\ HandlerFirst /\ RowFollowsWorker /\ NoSilentLoss /\ GivenUp
  BY <1>1, BuildsAssumption
     DEF LoopHolds, OnePlace, HandlerFirst, RowFollowsWorker, NoSilentLoss, GivenUp, Open
<1> QED
  BY <1>2, <1>3, <1>4 DEF QueueIInv

(* The steps of the process loop, of the handlers, of Stop and of the process
   itself leave the goroutines alone, or add one, or end them all. *)
LEMMA AccountingStep == QueueIInv /\ [QueueNext]_queueVars => SlotAccounting' /\ CountAccounting'
<1> SUFFICES ASSUME QueueIInv, [QueueNext]_queueVars PROVE SlotAccounting' /\ CountAccounting'
  OBVIOUS
<1> USE DEF QueueIInv, SlotAccounting, CountAccounting
<1>a. SlotHolders \subseteq Builds /\ CountHolders \subseteq Builds
  BY DEF SlotHolders, CountHolders
<1>b. Cardinality(SlotHolders) \in Nat /\ Cardinality(CountHolders) \in Nat
  BY <1>a, SubsetFinite
<1>1. CASE UNCHANGED <<worker, sem, wg, loop>>
  BY <1>1 DEF SlotHolders, CountHolders
<1>2. CASE /\ UNCHANGED <<worker, sem, wg>>
           /\ loop # "spawn" /\ loop' # "spawn"
  BY <1>2 DEF SlotHolders, CountHolders
<1>3. CASE AcquireSlot
  BY <1>3, <1>b DEF AcquireSlot, SlotHolders, CountHolders
<1>4. CASE SpawnWorker
  <2>1. held \in Builds /\ worker[held] = "none"
    BY <1>4 DEF SpawnWorker, LoopHolds, QueueTypeOK, OnePlace
  <2>2. /\ SlotHolders' = SlotHolders \cup {held}
        /\ CountHolders' = CountHolders \cup {held}
        /\ held \notin SlotHolders /\ held \notin CountHolders
    BY <1>4, <2>1
       DEF SpawnWorker, QueueTypeOK, SlotHolders, CountHolders, HoldsSlot, HoldsCount, InBuild
  <2>3. /\ Cardinality(SlotHolders') = Cardinality(SlotHolders) + 1
        /\ Cardinality(CountHolders') = Cardinality(CountHolders) + 1
    BY <2>2, <1>a, CountAdd
  <2> QED
    BY <1>4, <2>3, <1>b DEF SpawnWorker
<1>5. ASSUME NEW b \in Builds, MarkBuilding(b) \/ RunSteps(b) \/ Report(b)
      PROVE  SlotAccounting' /\ CountAccounting'
  <2>1. worker[b] \in InBuild /\ worker'[b] \in HoldsSlot
    BY <1>5 DEF MarkBuilding, RunSteps, Report, QueueTypeOK, InBuild, HoldsSlot
  <2>2. worker' = [worker EXCEPT ![b] = worker'[b]] /\ UNCHANGED <<sem, wg, loop>>
    BY <1>5 DEF MarkBuilding, RunSteps, Report, QueueTypeOK
  <2>3. SlotHolders' = SlotHolders /\ CountHolders' = CountHolders
    BY <2>1, <2>2 DEF QueueTypeOK, SlotHolders, CountHolders, HoldsSlot, HoldsCount
  <2> QED
    BY <2>2, <2>3
<1>6. ASSUME NEW b \in Builds, ReleaseSlot(b)
      PROVE  SlotAccounting' /\ CountAccounting'
  <2>1. /\ SlotHolders' = SlotHolders \ {b} /\ b \in SlotHolders
        /\ CountHolders' = CountHolders
    BY <1>6 DEF ReleaseSlot, QueueTypeOK, SlotHolders, CountHolders, HoldsSlot, HoldsCount, InBuild
  <2>2. Cardinality(SlotHolders') = Cardinality(SlotHolders) - 1
    BY <2>1, <1>a, CountRemove
  <2> QED
    BY <1>6, <2>1, <2>2, <1>b DEF ReleaseSlot
<1>7. ASSUME NEW b \in Builds, WaitGroupDone(b)
      PROVE  SlotAccounting' /\ CountAccounting'
  <2>1. /\ CountHolders' = CountHolders \ {b} /\ b \in CountHolders
        /\ SlotHolders' = SlotHolders
    BY <1>7 DEF WaitGroupDone, QueueTypeOK, SlotHolders, CountHolders, HoldsSlot, HoldsCount, InBuild
  <2>2. Cardinality(CountHolders') = Cardinality(CountHolders) - 1
    BY <2>1, <1>a, CountRemove
  <2> QED
    BY <1>7, <2>1, <2>2, <1>b DEF WaitGroupDone
<1>8. CASE Crash
  <2>1. SlotHolders' = {} /\ CountHolders' = {}
    BY <1>8 DEF Crash, SlotHolders, CountHolders, HoldsSlot, HoldsCount, InBuild
  <2> QED
    BY <1>8, <2>1, FS_EmptySet DEF Crash
<1> QED
  BY <1>1, <1>2, <1>3, <1>4, <1>5, <1>6, <1>7, <1>8
     DEF QueueNext, LoopStep, WorkerStep, queueVars, memory, Start, StopCloses, StopReturns, Restart,
         LoopReturns, TakeJob, LoopAbandonsJob, CreateBuild, Enqueue, Timeout

(* Types.  The bounds of sem come from the accounting: a goroutine that gives
   its token back held one. *)
LEMMA QueueTypeStep == QueueIInv /\ [QueueNext]_queueVars => QueueTypeOK'
<1> SUFFICES ASSUME QueueIInv, [QueueNext]_queueVars PROVE QueueTypeOK'
  OBVIOUS
<1> USE BuildsAssumption, LimitsAssumption
    DEF QueueIInv, QueueTypeOK, Open, Recorded, HoldsSlot, InBuild
<1>1. CASE Start \/ StopCloses \/ StopReturns \/ Restart \/ UNCHANGED queueVars
  BY <1>1 DEF Start, StopCloses, StopReturns, Restart, memory, queueVars
<1>2. CASE Crash
  <2>1. jobs' \in Seq(Builds) /\ Len(jobs') <= BufferSize
    BY <1>2 DEF Crash
  <2>2. /\ req' \in [Builds -> {"none", "created", "answered"}]
        /\ worker' \in [Builds -> {"none", "wg_done", "ended"} \cup HoldsSlot]
        /\ lost' \in [Builds -> {"no", "full", "stop", "crash", "update"}]
    BY <1>2 DEF Crash
  <2>3. sem' \in 0..MaxConcurrent /\ wg' \in Nat
    BY <1>2 DEF Crash
  <2>4. /\ loop' \in {"idle", "select", "acquire", "spawn", "returned"}
        /\ held' \in Builds \cup {NoBuild}
        /\ expired' \subseteq Builds
        /\ stop' \in {"no", "waiting", "returned"}
        /\ up' \in BOOLEAN
        /\ row' = row
    BY <1>2, Zenon DEF Crash
  <2> QED
    BY <2>1, <2>2, <2>3, <2>4
<1>3. CASE LoopReturns \/ LoopAbandonsJob
  BY <1>3 DEF LoopReturns, LoopAbandonsJob, LoopHolds
<1>4. CASE TakeJob
  BY <1>4 DEF TakeJob
<1>5. CASE AcquireSlot
  BY <1>5 DEF AcquireSlot, SlotFree
<1>6. CASE SpawnWorker
  BY <1>6 DEF SpawnWorker, LoopHolds
<1>7. ASSUME NEW b \in Builds, CreateBuild(b) \/ Timeout(b)
      PROVE  QueueTypeOK'
  BY <1>7 DEF CreateBuild, Timeout, memory
<1>8. ASSUME NEW b \in Builds, Enqueue(b)
      PROVE  QueueTypeOK'
  <2>1. CASE EnqueueSends(b)
    <3>1. jobs' \in Seq(Builds) /\ Len(jobs') = Len(jobs) + 1 /\ Len(jobs) < BufferSize
      BY <2>1, QueueSend DEF EnqueueSends
    <3> QED
      BY <1>8, <2>1, <3>1 DEF Enqueue, EnqueueSends
  <2>2. CASE EnqueueDrops(b)
    BY <1>8, <2>2 DEF Enqueue, EnqueueDrops
  <2> QED
    BY <1>8, <2>1, <2>2 DEF Enqueue
<1>9. ASSUME NEW b \in Builds, MarkBuilding(b) \/ RunSteps(b) \/ Report(b)
      PROVE  QueueTypeOK'
  BY <1>9 DEF MarkBuilding, RunSteps, Report
<1>10. ASSUME NEW b \in Builds, ReleaseSlot(b)
       PROVE  QueueTypeOK'
  <2>1. b \in SlotHolders /\ SlotHolders \subseteq Builds
    BY <1>10 DEF ReleaseSlot, SlotHolders
  <2>2. Cardinality(SlotHolders) \in Nat \ {0}
    BY <2>1, SubsetFinite, FS_EmptySet
  <2> QED
    BY <1>10, <2>2 DEF ReleaseSlot, SlotAccounting
<1>11. ASSUME NEW b \in Builds, WaitGroupDone(b)
       PROVE  QueueTypeOK'
  <2>1. b \in CountHolders /\ CountHolders \subseteq Builds
    BY <1>11 DEF WaitGroupDone, CountHolders, HoldsCount
  <2>2. Cardinality(CountHolders) \in Nat \ {0}
    BY <2>1, SubsetFinite, FS_EmptySet
  <2> QED
    BY <1>11, <2>2 DEF WaitGroupDone, CountAccounting
<1> QED
  BY <1>1, <1>2, <1>3, <1>4, <1>5, <1>6, <1>7, <1>8, <1>9, <1>10, <1>11
     DEF QueueNext, LoopStep, WorkerStep

(* Where a build is.  Only Enqueue, TakeJob, SpawnWorker and the loop's two
   ways out move one. *)
LEMMA PlaceStep ==
    QueueIInv /\ [QueueNext]_queueVars => LoopHolds' /\ OnePlace' /\ HandlerFirst'
<1> SUFFICES ASSUME QueueIInv, [QueueNext]_queueVars
             PROVE  LoopHolds' /\ OnePlace' /\ HandlerFirst'
  OBVIOUS
<1> USE BuildsAssumption DEF QueueIInv, QueueTypeOK, LoopHolds, OnePlace, HandlerFirst
<1>1. CASE Start \/ StopCloses \/ StopReturns \/ Restart \/ UNCHANGED queueVars
  BY <1>1 DEF Queued, Start, StopCloses, StopReturns, Restart, memory, queueVars
<1>2. CASE Crash
  BY <1>2 DEF Queued, Crash
<1>3. CASE LoopReturns \/ LoopAbandonsJob \/ AcquireSlot
  BY <1>3 DEF Queued, LoopReturns, LoopAbandonsJob, AcquireSlot
<1>4. CASE TakeJob
  <2>1. /\ \A i, j \in DOMAIN jobs' : jobs'[i] = jobs'[j] => i = j
        /\ Head(jobs) \in Queued /\ Queued' = Queued \ {Head(jobs)}
    BY <1>4, QueueReceive DEF TakeJob
  <2>2. Queued \subseteq Builds
    BY DEF Queued
  <2> QED
    BY <1>4, <2>1, <2>2 DEF TakeJob
<1>5. CASE SpawnWorker
  BY <1>5 DEF Queued, SpawnWorker
<1>6. ASSUME NEW b \in Builds, CreateBuild(b) \/ Timeout(b)
      PROVE  LoopHolds' /\ OnePlace' /\ HandlerFirst'
  BY <1>6 DEF Queued, CreateBuild, Timeout, memory
<1>7. ASSUME NEW b \in Builds, Enqueue(b)
      PROVE  LoopHolds' /\ OnePlace' /\ HandlerFirst'
  <2>0. worker[b] = "none" /\ b \notin Queued /\ b # held
    BY <1>7 DEF Enqueue
  <2>1. CASE EnqueueSends(b)
    <3>1. /\ Queued' = Queued \cup {b}
          /\ \A i \in DOMAIN jobs : jobs'[i] = jobs[i]
          /\ jobs'[Len(jobs) + 1] = b
          /\ DOMAIN jobs' = (DOMAIN jobs) \cup {Len(jobs) + 1}
      BY <2>1, QueueSend DEF EnqueueSends
    <3>2. \A i \in DOMAIN jobs : jobs[i] # b
      BY <2>0 DEF Queued
    <3>3. \A i, j \in DOMAIN jobs' : jobs'[i] = jobs'[j] => i = j
      BY <3>1, <3>2
    <3> QED
      BY <1>7, <2>0, <3>1, <3>3 DEF Enqueue
  <2>2. CASE EnqueueDrops(b)
    BY <1>7, <2>2 DEF Enqueue, EnqueueDrops, Queued
  <2> QED
    BY <1>7, <2>1, <2>2 DEF Enqueue
<1>8. ASSUME NEW b \in Builds, WorkerStep(b)
      PROVE  LoopHolds' /\ OnePlace' /\ HandlerFirst'
  BY <1>8 DEF Queued, WorkerStep, MarkBuilding, RunSteps, Report, ReleaseSlot, WaitGroupDone
<1> QED
  BY <1>1, <1>2, <1>3, <1>4, <1>5, <1>6, <1>7, <1>8 DEF QueueNext, LoopStep

(* What the table says, and who looks after an open row. *)
LEMMA RowStep == QueueIInv /\ [QueueNext]_queueVars => RowFollowsWorker' /\ NoSilentLoss'
<1> SUFFICES ASSUME QueueIInv, [QueueNext]_queueVars PROVE RowFollowsWorker' /\ NoSilentLoss'
  OBVIOUS
<1> USE BuildsAssumption
    DEF QueueIInv, QueueTypeOK, LoopHolds, OnePlace, HandlerFirst, Open, InBuild,
        RowFollowsWorker, NoSilentLoss
<1>1. CASE Start \/ StopCloses \/ StopReturns \/ Restart \/ UNCHANGED queueVars
  BY <1>1 DEF Queued, Start, StopCloses, StopReturns, Restart, memory, queueVars
<1>2. CASE Crash
  BY <1>2 DEF Queued, Crash
<1>3. CASE LoopReturns \/ LoopAbandonsJob \/ AcquireSlot
  BY <1>3 DEF Queued, LoopReturns, LoopAbandonsJob, AcquireSlot
<1>4. CASE TakeJob
  <2>1. Queued' = Queued \ {Head(jobs)}
    BY <1>4, QueueReceive DEF TakeJob
  <2> QED
    BY <1>4, <2>1 DEF TakeJob
<1>5. CASE SpawnWorker
  BY <1>5 DEF Queued, SpawnWorker
<1>6. ASSUME NEW b \in Builds, CreateBuild(b) \/ Timeout(b)
      PROVE  RowFollowsWorker' /\ NoSilentLoss'
  BY <1>6 DEF Queued, CreateBuild, Timeout, memory
<1>7. ASSUME NEW b \in Builds, Enqueue(b)
      PROVE  RowFollowsWorker' /\ NoSilentLoss'
  <2>1. CASE EnqueueSends(b)
    <3>1. Queued' = Queued \cup {b}
      BY <2>1, QueueSend DEF EnqueueSends
    <3> QED
      BY <1>7, <2>1, <3>1 DEF Enqueue, EnqueueSends
  <2>2. CASE EnqueueDrops(b)
    BY <1>7, <2>2 DEF Enqueue, EnqueueDrops, Queued
  <2> QED
    BY <1>7, <2>1, <2>2 DEF Enqueue
<1>8. ASSUME NEW b \in Builds, WorkerStep(b)
      PROVE  RowFollowsWorker' /\ NoSilentLoss'
  BY <1>8 DEF Queued, WorkerStep, MarkBuilding, RunSteps, Report, ReleaseSlot, WaitGroupDone
<1> QED
  BY <1>1, <1>2, <1>3, <1>4, <1>5, <1>6, <1>7, <1>8 DEF QueueNext, LoopStep

(* What was given up stays out of the queue: the handler, the loop and the worker
   let go of a build when they give it up, and a crash lets go of all. *)
LEMMA GivenUpStep == QueueIInv /\ [QueueNext]_queueVars => GivenUp'
<1> SUFFICES ASSUME QueueIInv, [QueueNext]_queueVars PROVE GivenUp'
  OBVIOUS
<1> USE BuildsAssumption
    DEF QueueIInv, QueueTypeOK, LoopHolds, OnePlace, HandlerFirst, InBuild, GivenUp
<1>1. CASE Start \/ StopCloses \/ StopReturns \/ Restart \/ UNCHANGED queueVars
  BY <1>1 DEF Queued, Start, StopCloses, StopReturns, Restart, memory, queueVars
<1>2. CASE Crash
  BY <1>2 DEF Queued, Crash, Open
<1>3. CASE LoopReturns \/ LoopAbandonsJob \/ AcquireSlot
  BY <1>3 DEF Queued, LoopReturns, LoopAbandonsJob, AcquireSlot
<1>4. CASE TakeJob
  <2>1. Head(jobs) \in Queued /\ Queued' = Queued \ {Head(jobs)}
    BY <1>4, QueueReceive DEF TakeJob
  <2> QED
    BY <1>4, <2>1 DEF TakeJob
<1>5. CASE SpawnWorker
  BY <1>5 DEF Queued, SpawnWorker
<1>6. ASSUME NEW b \in Builds, CreateBuild(b) \/ Timeout(b)
      PROVE  GivenUp'
  BY <1>6 DEF Queued, CreateBuild, Timeout, memory
<1>7. ASSUME NEW b \in Builds, Enqueue(b)
      PROVE  GivenUp'
  <2>0. worker[b] = "none" /\ b \notin Queued /\ b # held /\ lost[b] = "no"
    BY <1>7 DEF Enqueue
  <2>1. CASE EnqueueSends(b)
    <3>1. Queued' = Queued \cup {b}
      BY <2>1, QueueSend DEF EnqueueSends
    <3> QED
      BY <1>7, <2>0, <2>1, <3>1 DEF Enqueue, EnqueueSends
  <2>2. CASE EnqueueDrops(b)
    BY <1>7, <2>0, <2>2 DEF Enqueue, EnqueueDrops, Queued
  <2> QED
    BY <1>7, <2>1, <2>2 DEF Enqueue
<1>8. ASSUME NEW b \in Builds, WorkerStep(b)
      PROVE  GivenUp'
  BY <1>8 DEF Queued, WorkerStep, MarkBuilding, RunSteps, Report, ReleaseSlot, WaitGroupDone
<1> QED
  BY <1>1, <1>2, <1>3, <1>4, <1>5, <1>6, <1>7, <1>8 DEF QueueNext, LoopStep

-----------------------------------------------------------------------------

(* The strengthening is an invariant. *)
THEOREM QueueInvariance == QueueSpec => []QueueIInv
<1>1. QueueIInv /\ [QueueNext]_queueVars => QueueIInv'
  BY AccountingStep, QueueTypeStep, PlaceStep, RowStep, GivenUpStep DEF QueueIInv
<1> QED
  BY QueueInitIInv, <1>1, PTL DEF QueueSpec

(* The variables of the queue keep their types; in particular the counter of
   the semaphore channel never leaves 0..MaxConcurrent and the wait group
   never goes negative, which would panic. *)
THEOREM QueueTypeCorrect == QueueSpec => []QueueTypeOK
<1>1. QueueIInv => QueueTypeOK
  BY DEF QueueIInv
<1> QED
  BY QueueInvariance, <1>1, PTL

(* Never more than MaxConcurrent builds inside Build (queue.go:24). *)
THEOREM ConcurrencyBounded == QueueSpec => []ConcurrencyBound
<1>1. QueueIInv => ConcurrencyBound
  <2> DEFINE Running == {b \in Builds : worker[b] \in InBuild}
  <2> SUFFICES ASSUME QueueIInv PROVE Cardinality(Running) <= MaxConcurrent
    BY DEF ConcurrencyBound
  <2>1. Running \subseteq SlotHolders /\ SlotHolders \subseteq Builds
    BY DEF SlotHolders, HoldsSlot
  <2>2. Cardinality(Running) <= Cardinality(SlotHolders)
    BY <2>1, SubsetFinite, FS_Subset
  <2>3. Cardinality(Running) \in Nat /\ Cardinality(SlotHolders) \in Nat
    BY <2>1, SubsetFinite
  <2> QED
    BY <2>2, <2>3, LimitsAssumption DEF QueueIInv, QueueTypeOK, SlotAccounting
<1> QED
  BY QueueInvariance, <1>1, PTL

(* A build is queued, held or running in one place at a time, and never again
   afterwards: no build runs twice. *)
THEOREM InOnePlace == QueueSpec => []OnePlace
<1>1. QueueIInv => OnePlace
  BY DEF QueueIInv
<1> QED
  BY QueueInvariance, <1>1, PTL

(* Every open row is looked after, or was given up for a recorded reason. *)
THEOREM NothingLostSilently == QueueSpec => []NoSilentLoss
<1>1. QueueIInv => NoSilentLoss
  BY DEF QueueIInv
<1> QED
  BY QueueInvariance, <1>1, PTL

(* No build is in two places, none is lost unnoticed, and no more of them run
   than there are slots (Enqueue, processLoop, Stop): what follows from the
   theorems above. *)
THEOREM BuildsAccounted == QueueSpec => []Accounted
BY QueueTypeCorrect, InOnePlace, NothingLostSilently, ConcurrencyBounded, PTL DEF Accounted

(* A recorded outcome stays: the unconditional UPDATE is only ever issued for
   a row that is still open. *)
THEOREM OutcomesFinal == QueueSpec => OutcomeIsFinal
<1> DEFINE Final == \A b \in Builds : row[b] \in Recorded => row'[b] = row[b]
<1>1. QueueIInv /\ [QueueNext]_queueVars => [Final]_queueVars
  <2> SUFFICES ASSUME QueueIInv, QueueNext PROVE Final
    OBVIOUS
  <2> USE DEF QueueIInv, QueueTypeOK, Open, Recorded
  <2>1. ASSUME NEW b \in Builds, CreateBuild(b) PROVE Final
    BY <2>1 DEF CreateBuild
  <2>2. ASSUME NEW b \in Builds, MarkBuilding(b) PROVE Final
    BY <2>2 DEF MarkBuilding, RowFollowsWorker, HandlerFirst
  <2>3. ASSUME NEW b \in Builds, Report(b) PROVE Final
    BY <2>3 DEF Report, RowFollowsWorker
  <2>4. CASE UNCHANGED row
    BY <2>4
  <2> QED
    BY <2>1, <2>2, <2>3, <2>4
       DEF QueueNext, LoopStep, WorkerStep, memory, Start, StopCloses, StopReturns, Crash, Restart,
           LoopReturns, TakeJob, LoopAbandonsJob, AcquireSlot, SpawnWorker, Enqueue,
           RunSteps, ReleaseSlot, WaitGroupDone, Timeout
<1> QED
  BY QueueInvariance, <1>1, PTL DEF QueueSpec, OutcomeIsFinal

(* When Stop returns no dispatched build is on its way: the counter Stop waits
   for is zero only when no goroutine holds a count. *)
THEOREM StopWaits == QueueSpec => StopWaitsForDispatched
<1> DEFINE Waits == stop = "waiting" /\ stop' = "returned" => CountHolders = {}
<1>1. QueueIInv /\ [QueueNext]_queueVars => [Waits]_queueVars
  <2> SUFFICES ASSUME QueueIInv, QueueNext, stop = "waiting", stop' = "returned"
               PROVE  CountHolders = {}
    OBVIOUS
  <2>1. wg = 0
    BY DEF QueueNext, LoopStep, WorkerStep, memory, Start, StopCloses, StopReturns, Crash, Restart,
           LoopReturns, TakeJob, LoopAbandonsJob, AcquireSlot, SpawnWorker, CreateBuild,
           Enqueue, MarkBuilding, RunSteps, Report, ReleaseSlot, WaitGroupDone, Timeout,
           AllDispatchedEnded
  <2>2. CountHolders \subseteq Builds /\ IsFiniteSet(CountHolders)
    BY SubsetFinite DEF CountHolders
  <2> QED
    BY <2>1, <2>2, FS_EmptySet DEF QueueIInv, CountAccounting
<1> QED
  BY QueueInvariance, <1>1, PTL DEF QueueSpec, StopWaitsForDispatched

-----------------------------------------------------------------------------
(* The build queue implements BuildPool *)

(* The builds that run, and those that will not run any more. *)
Running == {b \in Builds : worker[b] \in InBuild}
Over == {b \in Builds : worker[b] \in {"release", "wg_done", "ended"} \/ lost[b] # "no"}

(* When the loop has a token for the build it holds, a place is free. *)
LEMMA PlaceIsFree ==
    ASSUME QueueIInv, loop = "spawn"
    PROVE  Cardinality(Running) < MaxConcurrent
<1>1. Running \subseteq SlotHolders /\ SlotHolders \subseteq Builds
  BY DEF Running, SlotHolders, HoldsSlot
<1>2. /\ Cardinality(Running) <= Cardinality(SlotHolders)
      /\ Cardinality(Running) \in Nat /\ Cardinality(SlotHolders) \in Nat
  BY <1>1, SubsetFinite, FS_Subset
<1> QED
  BY <1>2, LimitsAssumption DEF QueueIInv, QueueTypeOK, SlotAccounting

(* Each step of the queue is one of the pool, or leaves the pool alone. *)
LEMMA QueueStepImplements ==
    QueueIInv /\ [QueueNext]_queueVars => [Pool!Next]_(Pool!pool)
<1> SUFFICES ASSUME QueueIInv, [QueueNext]_queueVars PROVE [Pool!Next]_(Pool!pool)
  OBVIOUS
<1> USE DEF QueueIInv, QueueTypeOK, Running, Over
<1>0. /\ Pool!pool = <<row, Running, Over>>
      /\ (Pool!pool)' = <<row', Running', Over'>>
  BY DEF Pool!pool
<1>1. CASE UNCHANGED <<row, worker, lost>>
  BY <1>0, <1>1
<1>2. ASSUME NEW b \in Builds, CreateBuild(b) PROVE Pool!Next
  <2>1. Running' = Running /\ Over' = Over
    BY <1>2 DEF CreateBuild
  <2>2. Pool!Submit(b)
    BY <1>2, <2>1 DEF CreateBuild, Pool!Submit
  <2> QED
    BY <2>2 DEF Pool!Next
<1>3. ASSUME NEW b \in Builds, row[b] = "pending", worker[b] = "none", lost[b] = "no",
             lost' = [lost EXCEPT ![b] = lost'[b]], lost'[b] # "no", UNCHANGED <<row, worker>>
      PROVE  Pool!Next
  <2>1. b \notin Running \cup Over /\ Running' = Running /\ Over' = Over \cup {b}
    BY <1>3 DEF InBuild
  <2>2. Pool!GiveUp(b)
    BY <1>3, <2>1 DEF Pool!GiveUp
  <2> QED
    BY <2>2 DEF Pool!Next
<1>4. ASSUME NEW b \in Builds, Enqueue(b), EnqueueDrops(b) PROVE Pool!Next
  <2>1. row[b] = "pending" /\ worker[b] = "none" /\ lost[b] = "no"
    BY <1>4 DEF Enqueue, HandlerFirst, RowFollowsWorker, GivenUp
  <2> QED
    BY <1>3, <1>4, <2>1 DEF Enqueue, EnqueueDrops
<1>5. CASE LoopAbandonsJob
  <2>1. /\ held \in Builds /\ row[held] = "pending" /\ worker[held] = "none"
        /\ lost[held] = "no"
    BY <1>5, BuildsAssumption
       DEF LoopAbandonsJob, LoopHolds, OnePlace, RowFollowsWorker, GivenUp
  <2> QED
    BY <1>3, <1>5, <2>1 DEF LoopAbandonsJob
<1>6. CASE SpawnWorker
  <2>1. PICK b \in Builds : b = held /\ row[b] = "pending" /\ worker[b] = "none" /\ lost[b] = "no"
    BY <1>6, BuildsAssumption
       DEF SpawnWorker, LoopHolds, OnePlace, RowFollowsWorker, GivenUp
  <2>2. /\ b \notin Running \cup Over
        /\ Running' = Running \cup {b} /\ UNCHANGED <<row, Over>>
    BY <1>6, <2>1 DEF SpawnWorker, InBuild
  <2>3. Cardinality(Running) < MaxConcurrent
    BY <1>6, PlaceIsFree DEF SpawnWorker
  <2>4. Pool!Begin(b)
    <3>1. Pool!Cardinality(Running) = Cardinality(Running)
      BY Zenon DEF Cardinality, Pool!Cardinality
    <3>2. Pool!Cardinality(Running) < MaxConcurrent
      BY <2>3, <3>1, Zenon
    <3> QED
      BY <2>1, <2>2, <3>2 DEF Pool!Begin
  <2> QED
    BY <2>4 DEF Pool!Next
<1>7. ASSUME NEW b \in Builds, MarkBuilding(b) PROVE Pool!Next
  <2>1. b \in Running /\ row[b] = "pending" /\ lost[b] = "no"
    BY <1>7 DEF MarkBuilding, HandlerFirst, RowFollowsWorker, GivenUp, InBuild
  <2>2. PICK ok \in BOOLEAN :
            /\ row' = [row EXCEPT ![b] = IF ok THEN "building" ELSE @]
            /\ worker' = [worker EXCEPT ![b] = IF ok THEN "work" ELSE "release"]
            /\ lost' = [lost EXCEPT ![b] = IF ok THEN @ ELSE "update"]
    BY <1>7 DEF MarkBuilding
  <2>3. CASE ok
    <3>1. Running' = Running /\ Over' = Over
      BY <2>1, <2>2, <2>3 DEF InBuild
    <3>2. Pool!Mark(b)
      BY <2>1, <2>2, <2>3, <3>1 DEF Pool!Mark
    <3> QED
      BY <3>2 DEF Pool!Next
  <2>4. CASE ~ok
    <3>1. Running' = Running \ {b} /\ Over' = Over \cup {b} /\ row' = row
      BY <2>1, <2>2, <2>4 DEF InBuild
    <3>2. Pool!End(b)
      BY <2>1, <3>1 DEF Pool!End
    <3> QED
      BY <3>2 DEF Pool!Next
  <2> QED
    BY <2>3, <2>4
<1>8. ASSUME NEW b \in Builds, RunSteps(b) PROVE UNCHANGED <<row, Running, Over>>
  BY <1>8 DEF RunSteps, InBuild
<1>9. ASSUME NEW b \in Builds, Report(b) PROVE Pool!Next
  <2>1. b \in Running /\ row[b] = "building"
    BY <1>9 DEF Report, RowFollowsWorker, InBuild
  <2>2. Running' = Running \ {b} /\ Over' = Over \cup {b}
    BY <1>9, <2>1 DEF Report, InBuild
  <2>3. \/ UNCHANGED row
        \/ \E outcome \in {"success", "failed"} : row' = [row EXCEPT ![b] = outcome]
    BY <1>9 DEF Report
  <2>4. Pool!End(b)
    BY <2>1, <2>2, <2>3 DEF Pool!End
  <2> QED
    BY <2>4 DEF Pool!Next
<1>10. ASSUME NEW b \in Builds, ReleaseSlot(b) \/ WaitGroupDone(b)
       PROVE  UNCHANGED <<row, Running, Over>>
  BY <1>10 DEF ReleaseSlot, WaitGroupDone, InBuild
<1>11. CASE Crash
  <2>1. Running' = {}
    BY <1>11 DEF Crash, InBuild
  <2>2. ASSUME NEW b \in Builds PROVE b \in Over' <=> row[b] # "none"
    <3>1. CASE row[b] = "none"
      <4>1. worker[b] = "none" /\ lost[b] = "no"
        BY <3>1 DEF HandlerFirst, GivenUp
      <4> QED
        BY <1>11, <3>1, <4>1 DEF Crash, Open
    <3>2. CASE row[b] \in Open
      BY <1>11, <3>2 DEF Crash, Open
    <3>3. CASE row[b] \in Recorded
      <4>1. worker[b] # "none"
        BY <3>3 DEF Recorded, GivenUp, RowFollowsWorker
      <4> QED
        BY <1>11, <3>3, <4>1 DEF Crash, Recorded
    <3> QED
      BY <3>1, <3>2, <3>3
  <2>3. Over' = {b \in Builds : row[b] # "none"}
    BY <2>2
  <2>4. Pool!Kill
    BY <1>11, <2>1, <2>3 DEF Crash, Pool!Kill
  <2> QED
    BY <2>4 DEF Pool!Next
<1>12. CASE \/ Start \/ StopCloses \/ StopReturns \/ Restart \/ LoopReturns \/ TakeJob
            \/ AcquireSlot \/ UNCHANGED queueVars
  <2>1. UNCHANGED <<row, worker, lost>>
    BY <1>12 DEF Start, StopCloses, StopReturns, Restart, LoopReturns, TakeJob, AcquireSlot,
                 queueVars, memory
  <2> QED
    BY <1>1, <2>1
<1>13. ASSUME NEW b \in Builds, Timeout(b) \/ (Enqueue(b) /\ EnqueueSends(b))
       PROVE  UNCHANGED <<row, worker, lost>>
  BY <1>13 DEF Timeout, Enqueue, EnqueueSends, memory
<1> QED
  BY <1>0, <1>1, <1>2, <1>4, <1>5, <1>6, <1>7, <1>8, <1>9, <1>10, <1>11, <1>12, <1>13
     DEF QueueNext, LoopStep, WorkerStep, Enqueue

LEMMA QueueInitImplements == QueueInit => Pool!Init
<1> SUFFICES ASSUME QueueInit PROVE Pool!Init
  OBVIOUS
<1>1. Running = {} /\ Over = {}
  BY DEF QueueInit, Running, Over, InBuild
<1> QED
  BY <1>1 DEF QueueInit, Pool!Init, Running, Over

(* Whatever the channel, the loop, the workers, Stop and crashes do, the readers
   of the table see a pool: each build runs once, within the limit of queue.go:24,
   and its row is changed by its run alone. *)
THEOREM QueueImplements == QueueSpec => RunsAsPool
BY QueueInvariance, QueueInitImplements, QueueStepImplements, PTL
   DEF QueueSpec, RunsAsPool, Pool!Spec

=============================================================================
