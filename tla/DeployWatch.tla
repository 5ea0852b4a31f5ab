---------------------------- MODULE DeployWatch ----------------------------
(***************************************************************************)
(* A deployment and somebody who watches it: the log that runDeployWith    *)
(* writes, the event stream of handleDeploymentLogs (internal/server/      *)
(* deploy_handlers.go), streamDeploymentLogs (ui/src/api/client.ts), and   *)
(* the three views fed by it: DeployProgress, StepDeployProgress and       *)
(* DeployLog (ui/src/components/deploy).                                   *)
(*                                                                         *)
(* Actors: the goroutine of the deployment, the goroutine of the stream,   *)
(* the network, and the callbacks of the page (events, timers, answers).   *)
(* Nobody rolls the deployment back while it is watched.                   *)
(***************************************************************************)
EXTENDS Integers, FiniteSets, SequencesExt

CONSTANTS
    LastStep,     \* bound: lines "Step n/5" of a log (5 in the code)
    MaxInFlight,  \* bound: stream events sent and not yet handled
    MaxPolls      \* bound: answers to getDeployment under way at a time

ASSUME BoundsAssumption ==
    LastStep \in 3..5 /\ MaxInFlight \in Nat \ {0} /\ MaxPolls \in Nat \ {0}

VARIABLES
    log,      \* deployments.log, as the sequence of its lines
    outcome,  \* the status runDeployWith is about to store, or ""
    access,   \* deployments.access_url is set
    status,   \* deployments.status once finished_at is set, "" before
    deleted,  \* the row is gone
    stream,   \* the server's end: [up, greeted, sent]
    channel,  \* events between the server and the page
    es,       \* the EventSource of the page: "open" or "closed"
    kind,     \* which of the three views it is
    view,     \* what the view shows
    timer,    \* the timer that starts the polling: "armed" or "fired"
    polls,    \* answers to getDeployment on their way to the page
    broken    \* history: a connection has failed

row     == <<log, outcome, access, status, deleted>>
wire    == <<stream, channel, es>>
page    == <<kind, view, timer, polls>>
vars == <<row, wire, page, broken>>

-----------------------------------------------------------------------------
(* Lines: n is "Step n/5", the others are told apart by parseStep. *)

Steps    == 1..LastStep
Blank    == 0        \* the empty log
Address  == 6        \* App accessible at: ...
Served   == 7        \* Deploy complete, Deploy applied
Burned   == 8        \* Deploy failed
Lines    == 0..8
Finals   == {"succeeded", "partial", "failed", "rolled_back"}

Kinds == {"DeployProgress", "StepDeployProgress", "DeployLog"}

Finished == status # "" /\ ~deleted
LastLine == IF log = <<>> THEN Blank ELSE Last(log)

Line(l) == [event |-> "message", line |-> l, status |-> ""]
Done(s) == [event |-> "done", line |-> Blank, status |-> s]

(* A stream as it is opened, by the page and at the server. *)
Fresh == [up |-> TRUE, greeted |-> FALSE, sent |-> 0]

(* StepDeployProgress marks its first stage before it asks for the deployment. *)
FirstSteps(k) == [i \in Steps |-> IF k = "StepDeployProgress" /\ i = 1 THEN "active"
                                                                      ELSE "pending"]

Init ==
    /\ log = <<>> /\ outcome = "" /\ access = FALSE /\ status = "" /\ deleted = FALSE
    /\ stream = Fresh /\ channel = <<>> /\ es = "open"
    /\ kind \in Kinds
    /\ view = [steps |-> FirstSteps(kind), burned |-> FALSE, final |-> "",
               url |-> FALSE, polling |-> FALSE]
    /\ timer = "armed" /\ polls = {} /\ broken = FALSE

-----------------------------------------------------------------------------
(* runDeployWith.  Each line is stored on its own. *)

Writes(l) == log' = Append(log, l)

LogStep(n) ==
    /\ outcome = "" /\ ~deleted
    /\ LastLine = n - 1
    /\ Writes(n)
    /\ UNCHANGED <<outcome, access, status, deleted, wire, page, broken>>

FindAddress ==
    /\ LastLine = LastStep /\ ~access /\ ~deleted /\ outcome = ""
    /\ access' = TRUE
    /\ UNCHANGED <<log, outcome, status, deleted, wire, page, broken>>

LogAddress ==
    /\ LastLine = LastStep /\ access /\ ~deleted
    /\ Writes(Address)
    /\ UNCHANGED <<outcome, access, status, deleted, wire, page, broken>>

Deployed == LastLine = Address \/ (LastLine = LastStep /\ ~access)

LogServed ==
    /\ outcome = "" /\ ~deleted
    /\ Deployed
    /\ outcome' \in {"succeeded", "partial"}
    /\ Writes(Served)
    /\ UNCHANGED <<access, status, deleted, wire, page, broken>>

(* Parsing and building fail after the first line, validation after the third,
   the deployer after the fourth, and its result may say so after the fifth. *)
LogBurned ==
    /\ outcome = "" /\ ~deleted
    /\ \/ LastLine \in {1, 3, 4} \ {LastStep} /\ outcome' = "failed"
       \/ Deployed /\ outcome' \in {"failed", "rolled_back"}
    /\ Writes(Burned)
    /\ UNCHANGED <<access, status, deleted, wire, page, broken>>

Finish ==
    /\ outcome # "" /\ status = "" /\ ~deleted
    /\ status' = outcome
    /\ UNCHANGED <<log, outcome, access, deleted, wire, page, broken>>

DeleteRow ==
    /\ ~deleted
    /\ deleted' = TRUE
    /\ UNCHANGED <<log, outcome, access, status, wire, page, broken>>

Job ==
    \/ \E n \in Steps : LogStep(n)
    \/ FindAddress \/ LogAddress \/ LogServed \/ LogBurned \/ Finish

-----------------------------------------------------------------------------
(* handleDeploymentLogs *)

(* The new part of the log is one event of several lines, of which only the
   first begins with "data:"; the page ignores the others. *)
NewPart(from) == IF Len(log) > from THEN <<Line(log[from + 1])>> ELSE <<>>

\* Bug: done is announced from what the job is about to store.
OutcomeEarly == IF outcome # "" THEN <<Done(outcome)>> ELSE <<>>

\* Bug: the stream ends without a done event.
OutcomeForgotten == <<>>

OutcomePart == IF Finished THEN <<Done(status)>> ELSE <<>>

Greet ==
    /\ stream.up /\ ~stream.greeted /\ ~deleted
    /\ channel' = channel \o (IF log = <<>> THEN <<Line(Blank)>> ELSE NewPart(0)) \o OutcomePart
    /\ stream' = [up |-> ~Finished, greeted |-> TRUE, sent |-> Len(log)]
    /\ UNCHANGED <<row, es, page, broken>>

(* A tick that finds nothing new changes nothing. *)
Tick ==
    /\ stream.up /\ stream.greeted /\ ~deleted
    /\ Len(channel) < MaxInFlight
    /\ Len(log) > stream.sent \/ Finished
    /\ channel' = channel \o NewPart(stream.sent) \o OutcomePart
    /\ stream' = [up |-> ~Finished, greeted |-> TRUE, sent |-> Len(log)]
    /\ UNCHANGED <<row, es, page, broken>>

(* The row is not found: 404 before the greeting, a silent end after it. *)
RowNotFound ==
    /\ stream.up /\ deleted
    /\ stream' = [stream EXCEPT !.up = FALSE]
    /\ UNCHANGED <<row, channel, es, page, broken>>

Break ==
    /\ es = "open"
    /\ ~broken
    /\ stream' = [stream EXCEPT !.up = FALSE]
    /\ channel' = <<>>
    /\ broken' = TRUE
    /\ UNCHANGED <<row, es, page>>

-----------------------------------------------------------------------------
(* parseStep *)

\* Bug: a step line leaves the steps before it as they are.
MarkOnly(steps, l) ==
    IF l \in Steps THEN [steps EXCEPT ![l] = "active"] ELSE steps

\* Bug: a failure marks every step it has come to.
BurnAll(steps, l) ==
    CASE l \in Steps -> [i \in Steps |-> IF i < l THEN "done"
                                         ELSE IF i = l THEN "active" ELSE steps[i]]
      [] l = Served  -> [i \in Steps |-> "done"]
      [] l = Burned  -> [i \in Steps |-> IF steps[i] = "pending" THEN "pending" ELSE "error"]
      [] OTHER       -> steps

Marked(steps, l) ==
    CASE l \in Steps -> [i \in Steps |-> IF i < l THEN "done"
                                         ELSE IF i = l THEN "active" ELSE steps[i]]
      [] l = Served  -> [i \in Steps |-> "done"]
      [] l = Burned  -> [i \in Steps |-> IF steps[i] = "active" THEN "error" ELSE steps[i]]
      [] OTHER       -> steps

(* A view's state after onData(l).  Of the lines shown only one matters: burned
   says that analyzeDeployError finds the line that tells of the failure. *)
WithLine(v, l) ==
    IF kind = "DeployLog" THEN [v EXCEPT !.burned = @ \/ l = Burned]
    ELSE [v EXCEPT !.burned = @ \/ l = Burned, !.steps = Marked(@, l), !.url = @ \/ l = Address]

ReceiveLine ==
    /\ es = "open" /\ channel # <<>> /\ Head(channel).event = "message"
    /\ view' = WithLine(view, Head(channel).line)
    /\ channel' = Tail(channel)
    /\ UNCHANGED <<row, stream, es, kind, timer, polls, broken>>

(* onDone, then close.  The effect of DeployProgress depends on finalStatus: a
   new status closes the stream and opens it again. *)
Reopens(s) == kind = "DeployProgress" /\ s # view.final

ReceiveDone ==
    /\ es = "open" /\ channel # <<>> /\ Head(channel).event = "done"
    /\ LET s == Head(channel).status IN
       /\ view' = [view EXCEPT !.final = s]
       /\ channel' = <<>>
       /\ es' = IF Reopens(s) THEN "open" ELSE "closed"
       /\ stream' = IF Reopens(s) THEN Fresh ELSE [stream EXCEPT !.up = FALSE]
    /\ UNCHANGED <<row, kind, timer, polls, broken>>

(* onerror closes the EventSource, which would otherwise reconnect. *)
ReceiveEnd ==
    /\ es = "open" /\ channel = <<>> /\ ~stream.up
    /\ es' = "closed"
    /\ UNCHANGED <<row, stream, channel, page, broken>>

-----------------------------------------------------------------------------
(* Polling *)

Answer == [log |-> log, status |-> status, access |-> access]

(* DeployProgress, 10 s after its mount: the EventSource is never where the
   code looks for it, so the polling starts whether or not the stream works. *)
StartPolling ==
    /\ kind = "DeployProgress" /\ timer = "armed" /\ view.final = ""
    /\ timer' = "fired"
    /\ view' = [view EXCEPT !.polling = TRUE]
    /\ UNCHANGED <<row, wire, kind, polls, broken>>

(* Every 3 s, without waiting for the answer of the last one.  A request that
   fails is ignored, and changes nothing. *)
Poll ==
    /\ view.polling /\ view.final = "" /\ ~deleted
    /\ Cardinality(polls) < MaxPolls
    /\ polls' = polls \cup {Answer}
    /\ UNCHANGED <<row, wire, kind, view, timer, broken>>

(* StepDeployProgress asks once, 15 s after the deployment began. *)
AskOnce ==
    /\ kind = "StepDeployProgress" /\ timer = "armed"
    /\ timer' = "fired"
    /\ polls' \in {polls} \cup (IF deleted THEN {} ELSE {polls \cup {Answer}})
    /\ UNCHANGED <<row, wire, kind, view, broken>>

\* Bug: only the stream may end the view.
EndedNever(a) == FALSE

Ended(a) == a.status # ""

(* The log of the answer replaces the lines, and all of it is parsed again, by
   the view as it is now; setFinalStatus as in ReceiveDone. *)
ProgressAnswered(a) ==
    /\ kind = "DeployProgress"
    /\ view' = [view EXCEPT !.burned = IF a.log = <<>> THEN @ ELSE Contains(a.log, Burned),
                            !.steps = FoldLeft(Marked, @, a.log),
                            !.url = @ \/ a.access,
                            !.final = IF Ended(a) THEN a.status ELSE @]
    /\ IF Ended(a) /\ Reopens(a.status)
         THEN es' = "open" /\ stream' = Fresh /\ channel' = <<>>
         ELSE UNCHANGED wire

OrderAnswered(a) ==
    /\ kind = "StepDeployProgress"
    /\ view' = IF Ended(a) THEN [view EXCEPT !.final = a.status, !.url = @ \/ a.access] ELSE view
    /\ UNCHANGED wire

PollAnswered(a) ==
    /\ a \in polls
    /\ polls' = polls \ {a}
    /\ ProgressAnswered(a) \/ OrderAnswered(a)
    /\ UNCHANGED <<row, kind, timer, broken>>

-----------------------------------------------------------------------------
(* What the views show under their steps *)

\* Bug: whatever has ended without a failure is called a success.
AnyEndIsSuccess == IF view.final = "" THEN "none"
                   ELSE IF view.final = "failed" THEN "error" ELSE "success"

(* A deployment that was rolled back has ended, and has no card. *)
ProgressCard ==
    CASE view.final = "succeeded" -> "success"
      [] view.final = "partial"   -> "partial"
      [] view.final = "failed"    -> "error"
      [] OTHER                    -> "none"

(* The headline knows two endings only: what is not served is burned. *)
OrderHeadline ==
    CASE view.final = ""          -> "preparing"
      [] view.final = "succeeded" -> "served"
      [] OTHER                    -> "burned"

(* The card of an error gives the advice of analyzeDeployError, when the line
   that tells of the failure is among those shown. *)
OrderCard ==
    CASE view.final = "succeeded" -> "success"
      [] view.final = "failed"    -> IF view.burned THEN "advice" ELSE "error"
      [] OTHER                    -> "none"

-----------------------------------------------------------------------------

Server == Greet \/ Tick \/ RowNotFound
Events == ReceiveLine \/ ReceiveDone \/ ReceiveEnd

Next ==
    \/ Job \/ DeleteRow
    \/ Server \/ Break
    \/ Events
    \/ StartPolling \/ Poll \/ AskOnce
    \/ \E a \in polls : PollAnswered(a)

(* Tickers, timers and callbacks run; a request that is repeated every 3 s is
   answered in the end.  The deployment itself may take for ever. *)
Fairness ==
    /\ WF_vars(Server) /\ WF_vars(Events)
    /\ WF_vars(StartPolling) /\ WF_vars(Poll) /\ WF_vars(AskOnce)
    /\ WF_vars(\E a \in polls : PollAnswered(a))

Spec == Init /\ [][Next]_vars /\ Fairness

-----------------------------------------------------------------------------
(* Properties *)

Events1 == [event : {"message"}, line : Lines, status : {""}]
EventsN == [event : {"done"}, line : {Blank}, status : Finals]
Answers == [log : Seq(Lines), status : Finals \cup {""}, access : BOOLEAN]

(* The types of the variables; events and answers only carry what the server
   can send. *)
TypeOK ==
    /\ log \in Seq(Lines) /\ outcome \in Finals \cup {""} /\ access \in BOOLEAN
    /\ status \in Finals \cup {""} /\ deleted \in BOOLEAN
    /\ stream \in [up : BOOLEAN, greeted : BOOLEAN, sent : Nat]
    /\ channel \in Seq(Events1 \cup EventsN) /\ es \in {"open", "closed"}
    /\ kind \in Kinds /\ timer \in {"armed", "fired"}
    /\ view \in [steps : [Steps -> {"pending", "active", "done", "error"}],
                 burned : BOOLEAN, final : Finals \cup {""},
                 url : BOOLEAN, polling : BOOLEAN]
    /\ polls \in SUBSET Answers
    /\ broken \in BOOLEAN

Watch == INSTANCE JobWatch WITH job <- status, gone <- deleted, shown <- view.final

(* The promise of a view: whichever of the stream, a timer and several polls
   answers first or late, the status it ends with is the one stored for a
   finished deployment, and no later event or older answer takes it back
   (finalStatus of the three views). *)
Truthful == Watch!Safety

(* DeployProgress ends when the deployment does, even if the stream fails, ends
   early or never delivers: its polling is not tied to the stream. *)
ProgressEnds == kind = "DeployProgress" =>
                    (status # "" ~> (view.final = status \/ deleted))

(* A view without polling learns the outcome from a stream that lasts: it is
   never left with an open stream that has nothing more to say. *)
StreamEnds == (status # "" /\ es = "open") ~> (view.final # "" \/ broken \/ deleted)

(* StepDeployProgress reads the log once, in order, however much of it the
   stream leaves out: a stage that is done stays done, and one that has failed
   stays failed (stages). *)
StagesOnlyAdvance ==
    [][kind = "StepDeployProgress" =>
         \A i \in Steps : view.steps[i] \in {"done", "error"} => view'.steps[i] = view.steps[i]]_vars

(* And it shows the failure at exactly one stage, with every stage before it
   done, once the line that tells of it has come through. *)
FailureIsMarked ==
    kind = "StepDeployProgress" /\ view.burned =>
        \E i \in Steps : /\ view.steps[i] = "error"
                         /\ \A j \in Steps : j < i => view.steps[j] = "done"
                         /\ \A j \in Steps : j > i => view.steps[j] = "pending"

(* The card and the steps above it come from different sources, the stored
   status and the parsed lines, and never contradict each other: a success has
   no failed step, a failure is not shown with every step done. *)
CardAgrees ==
    /\ kind = "DeployProgress" =>
         /\ ProgressCard \in {"success", "partial"} => \A i \in Steps : view.steps[i] # "error"
         /\ ProgressCard = "error" => \E i \in Steps : view.steps[i] # "done"
    /\ kind = "StepDeployProgress" =>
         /\ OrderHeadline = "served" => OrderCard = "success" /\ ~view.burned
         /\ OrderCard = "advice" => \E i \in Steps : view.steps[i] = "error"

(* What a view shows of the stages is how they went, and agrees with its card. *)
StagesAreTrue == TypeOK /\ FailureIsMarked /\ CardAgrees

(* Whoever watches a deployment learns of its end, by polling or by the stream. *)
WatchEnds == ProgressEnds /\ StreamEnds

=============================================================================
