------------------------------ MODULE RowLife ------------------------------
(***************************************************************************)
(* What the readers of the deployments table may rely on, although a row   *)
(* may be executed twice, by the goroutine of the server and by an         *)
(* operator: the server takes a row on once at most, and so does one       *)
(* operator; each of the two writes one outcome at most, while it has the  *)
(* row in hand; and once nobody has it in hand, only a rollback or the     *)
(* deletion changes a final status.  Deployments implements it.            *)
(***************************************************************************)

CONSTANTS Ids, Operators

VARIABLES
    status,  \* deployments.status, or "none" before and "deleted" after
    hands,   \* who has a row in hand
    past     \* who has had it

life == <<status, hands, past>>

Terminal == {"succeeded", "failed", "partial", "rolled_back"}

Takes(i, h) ==
    /\ h \notin hands[i] \cup past[i]
    /\ hands' = [hands EXCEPT ![i] = @ \cup {h}]
    /\ UNCHANGED past

Init ==
    /\ status = [i \in Ids |-> "none"]
    /\ hands = [i \in Ids |-> {}]
    /\ past = [i \in Ids |-> {}]

Create(i) ==
    /\ status[i] = "none"
    /\ status' = [status EXCEPT ![i] = "pending"]
    /\ UNCHANGED <<hands, past>>

(* The server asks nobody. *)
Launch(i) ==
    /\ status[i] # "none"
    /\ Takes(i, "server")
    /\ UNCHANGED status

Claim(i, o) ==
    /\ status[i] = "pending"
    /\ (hands[i] \cup past[i]) \cap Operators = {}
    /\ Takes(i, o)
    /\ status' = [status EXCEPT ![i] = "running"]

(* The outcome is written, unless the row is gone, the store refuses, or the
   process is killed. *)
LetGo(i, h) ==
    /\ h \in hands[i]
    /\ hands' = [hands EXCEPT ![i] = @ \ {h}]
    /\ past' = [past EXCEPT ![i] = @ \cup {h}]
    /\ \/ UNCHANGED status
       \/ /\ status[i] # "deleted"
          /\ \E outcome \in Terminal \ {"rolled_back"} :
                status' = [status EXCEPT ![i] = outcome]

(* The server is killed with all its rows in hand. *)
ServerKilled ==
    /\ hands' = [i \in Ids |-> hands[i] \ {"server"}]
    /\ past' = [i \in Ids |-> past[i] \cup (hands[i] \cap {"server"})]
    /\ UNCHANGED status

RollBack(i) ==
    /\ status[i] \in Terminal
    /\ status' = [status EXCEPT ![i] = "rolled_back"]
    /\ UNCHANGED <<hands, past>>

Delete(i) ==
    /\ status[i] \notin {"none", "deleted"}
    /\ status' = [status EXCEPT ![i] = "deleted"]
    /\ UNCHANGED <<hands, past>>

Next ==
    \/ ServerKilled
    \/ \E i \in Ids :
          \/ Create(i) \/ Launch(i) \/ RollBack(i) \/ Delete(i)
          \/ \E o \in Operators : Claim(i, o)
          \/ \E h \in Operators \cup {"server"} : LetGo(i, h)

Spec == Init /\ [][Next]_life

=============================================================================
