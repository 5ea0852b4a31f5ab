----------------------------- MODULE BuildPool -----------------------------
(***************************************************************************)
(* What the build queue promises to the readers of the builds table,       *)
(* without channels, counters and goroutines: a build runs at most once,   *)
(* no more than MaxConcurrent of them run at a time, and only the run of a *)
(* build changes its row.  BuildQueue implements it.                       *)
(***************************************************************************)
EXTENDS Integers, FiniteSets

CONSTANTS Builds, MaxConcurrent

VARIABLES
    row,      \* builds.status, or "none" before the INSERT
    running,  \* the builds that run
    over      \* the builds that will not run any more

pool == <<row, running, over>>

Init ==
    /\ row = [b \in Builds |-> "none"]
    /\ running = {}
    /\ over = {}

Submit(b) ==
    /\ row[b] = "none"
    /\ row' = [row EXCEPT ![b] = "pending"]
    /\ UNCHANGED <<running, over>>

Begin(b) ==
    /\ row[b] = "pending" /\ b \notin running \cup over
    /\ Cardinality(running) < MaxConcurrent
    /\ running' = running \cup {b}
    /\ UNCHANGED <<row, over>>

Mark(b) ==
    /\ b \in running /\ row[b] = "pending"
    /\ row' = [row EXCEPT ![b] = "building"]
    /\ UNCHANGED <<running, over>>

(* The run ends.  Its outcome is recorded, if it was marked before and the store
   does not refuse. *)
End(b) ==
    /\ b \in running
    /\ running' = running \ {b}
    /\ over' = over \cup {b}
    /\ \/ UNCHANGED row
       \/ /\ row[b] = "building"
          /\ \E outcome \in {"success", "failed"} : row' = [row EXCEPT ![b] = outcome]

(* The channel is full, or the queue is stopped. *)
GiveUp(b) ==
    /\ row[b] = "pending" /\ b \notin running \cup over
    /\ over' = over \cup {b}
    /\ UNCHANGED <<row, running>>

(* The process is killed: no build there is will run, or run on. *)
Kill ==
    /\ running' = {}
    /\ over' = {b \in Builds : row[b] # "none"}
    /\ UNCHANGED row

Next == Kill \/ \E b \in Builds : Submit(b) \/ Begin(b) \/ Mark(b) \/ End(b) \/ GiveUp(b)

Spec == Init /\ [][Next]_pool

=============================================================================
