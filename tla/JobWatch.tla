------------------------------ MODULE JobWatch ------------------------------
(***************************************************************************)
(* What every view of a running job promises its reader: nothing is        *)
(* announced before the job has ended, what is announced is how it ended,  *)
(* and the announcement stays, also after the job's record is deleted.     *)
(* DeployWatch, the progress views of ui/src/components/deploy, is shown   *)
(* to implement it.                                                        *)
(***************************************************************************)

CONSTANT Finals   \* how a job can end

VARIABLES
    job,    \* how the job ended, or "" while it runs
    gone,   \* its record has been deleted
    shown   \* what the reader has been told, or ""

vars == <<job, gone, shown>>

Init == job = "" /\ gone = FALSE /\ shown = ""

(* A job whose record is gone is never known to have ended. *)
End ==
    /\ job = ""
    /\ ~gone
    /\ job' \in Finals
    /\ UNCHANGED <<gone, shown>>

Delete ==
    /\ ~gone
    /\ gone' = TRUE
    /\ UNCHANGED <<job, shown>>

Tell ==
    /\ job \in Finals
    /\ shown = ""
    /\ shown' = job
    /\ UNCHANGED <<job, gone>>

Next == End \/ Delete \/ Tell

Safety == Init /\ [][Next]_vars

=============================================================================
