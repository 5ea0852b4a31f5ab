--------------------------- MODULE BuildTerminal ---------------------------
(***************************************************************************)
(* The terminal that follows a build: DeployTerminal and DeployStep (ui/   *)
(* src/components/deploy), fed by a request for the build and by the       *)
(* WebSocket of handleBuildLogs (internal/server/gitdeploy_handlers.go).   *)
(*                                                                         *)
(* Actors: the builder, which stores status and log of a build in one      *)
(* update (BuildQueue opens it up), the goroutine of a connection, the     *)
(* network, the callbacks of the page and the component's parent.          *)
(***************************************************************************)
EXTENDS Integers, FiniteSets, SequencesExt

CONSTANTS
    Labels,       \* bound: number of steps of the timeline (6 in the code)
    MaxAttempts,  \* bound: RECONNECT_MAX_ATTEMPTS (10 in the code)
    MaxFaults,    \* bound: connections and requests that fail
    MaxRenders    \* bound: times the parent passes another onComplete

VARIABLES
    build,    \* the builds row: [status, logs]
    server,   \* the server's end: "none", "polling" or "closed"
    channel,  \* messages between the server and the page
    socket,   \* wsRef: "none", "connecting", "open" or "closed"
    term,     \* the state and the refs of the component
    fetch,    \* the request for the build: "asked", an answer, or "over"
    told,     \* history: what onComplete has been called with
    faults,   \* number of failures so far
    renders   \* number of re-renders so far

vars == <<build, server, channel, socket, term, fetch, told, faults, renders>>

-----------------------------------------------------------------------------

Ended == {"success", "failed"}
Marks == {"pending", "active", "success", "failed"}
Index == 0..(Labels - 1)

(* What Builder.Build may have logged: lines that begin a step and others.  An
   error is told of by an ordinary line. *)
LogsOf(s) == IF s = "success" THEN {<<"step", "log", "step">>}
             ELSE {<<"log">>, <<"step", "log">>}

Running == [status |-> "running", logs |-> <<>>]
Builds  == {Running} \cup UNION {{[status |-> s, logs |-> l] : l \in LogsOf(s)} : s \in Ended}

Message(t, i, s) == [type |-> t, step |-> i, status |-> s]

(* sendCompletedBuildLogs and pollBuildLogs number the steps alike. *)
Numbered(logs) ==
    [i \in DOMAIN logs |->
        Message(logs[i], Cardinality({j \in 1..(i - 1) : logs[j] = "step"}), "")]

Init ==
    /\ build \in Builds
    /\ server = "none" /\ channel = <<>> /\ socket = "connecting"
    /\ term = [status |-> "connecting", steps |-> [i \in Index |-> "pending"],
               errors |-> FALSE, completed |-> FALSE, attempts |-> 0,
               reconnecting |-> FALSE, timer |-> FALSE]
    /\ fetch = [state |-> "asked", build |-> Running]
    /\ told = {} /\ faults = 0 /\ renders = 0

-----------------------------------------------------------------------------
(* The builder and the server *)

BuildEnds ==
    /\ build.status = "running"
    /\ \E s \in Ended : \E l \in LogsOf(s) : build' = [status |-> s, logs |-> l]
    /\ UNCHANGED <<server, channel, socket, term, fetch, told, faults, renders>>

\* Bug: the end is announced, and not how it came.
EndsWell == Append(Numbered(build.logs), Message("complete", 0, "success"))

EndMessages == Append(Numbered(build.logs), Message("complete", 0, build.status))

(* streamBuildLogs: everything at once, whether the build had ended before or
   ends between two polls; then the connection is closed. *)
ServerSends ==
    /\ server = "polling" /\ build.status \in Ended
    /\ channel' = channel \o EndMessages
    /\ server' = "closed"
    /\ UNCHANGED <<build, socket, term, fetch, told, faults, renders>>

(* GetBuild fails. *)
ServerFails ==
    /\ server = "polling" /\ faults < MaxFaults
    /\ channel' = Append(channel, Message("error", 0, ""))
    /\ server' = "closed"
    /\ faults' = faults + 1
    /\ UNCHANGED <<build, socket, term, fetch, told, renders>>

Break ==
    /\ socket \in {"connecting", "open"} /\ faults < MaxFaults
    /\ server' = "closed"
    /\ channel' = <<>>
    /\ faults' = faults + 1
    /\ UNCHANGED <<build, socket, term, fetch, told, renders>>

-----------------------------------------------------------------------------
(* handleMessage *)

UpdateStep(steps, i, s) ==
    IF i \notin Index THEN steps
    ELSE [j \in Index |-> IF j < i THEN "success" ELSE IF j = i THEN s ELSE steps[j]]

\* Bug: a failure leaves the active step active.
CompletedHalf(steps, s) == [j \in Index |-> IF s = "success" THEN "success" ELSE steps[j]]

Completed(steps, s) ==
    [j \in Index |-> IF s = "success" THEN "success"
                     ELSE IF steps[j] = "active" THEN "failed" ELSE steps[j]]

\* Bug: an error of the server reconnects at once.
HandledAndRetried(t, m) ==
    CASE m.type = "complete" -> [t EXCEPT !.status = m.status, !.completed = TRUE]
      [] m.type = "error"    -> [t EXCEPT !.reconnecting = TRUE, !.timer = TRUE]
      [] OTHER               -> t

(* "complete" repeats itself when the request has told of the end before. *)
Handled(t, m) ==
    CASE m.type = "log"      -> t
      [] m.type = "step"     -> [t EXCEPT !.steps = UpdateStep(@, m.step, "active")]
      [] m.type = "error"    -> [t EXCEPT !.steps = UpdateStep(@, m.step, "failed"),
                                          !.errors = TRUE]
      [] m.type = "complete" -> [t EXCEPT !.steps = Completed(@, m.status),
                                          !.status = m.status, !.completed = TRUE]

Receive ==
    /\ socket = "open" /\ channel # <<>>
    /\ term' = Handled(term, Head(channel))
    /\ told' = IF Head(channel).type = "complete" THEN told \cup {Head(channel).status} ELSE told
    /\ channel' = Tail(channel)
    /\ UNCHANGED <<build, server, socket, fetch, faults, renders>>

-----------------------------------------------------------------------------
(* fetchBuildStatus *)

FetchReads ==
    /\ fetch.state = "asked"
    /\ \/ fetch' = [state |-> "answered", build |-> build] /\ UNCHANGED faults
       \/ faults < MaxFaults /\ faults' = faults + 1 /\ fetch' = [fetch EXCEPT !.state = "over"]
    /\ UNCHANGED <<build, server, channel, socket, term, told, renders>>

(* A failed build is drawn with its last step failed, whichever failed. *)
Drawn(s) == [j \in Index |-> IF s = "failed" /\ j = Labels - 1 THEN "failed" ELSE "success"]

(* The lines of a stored log are errors by what they say. *)
FetchAnswered ==
    /\ fetch.state = "answered"
    /\ fetch' = [fetch EXCEPT !.state = "over"]
    /\ LET s == fetch.build.status IN
       IF s \in Ended
         THEN /\ term' = [term EXCEPT !.completed = TRUE, !.status = s, !.steps = Drawn(s),
                                      !.errors = s = "failed"]
              /\ told' = told \cup {s}
         ELSE UNCHANGED <<term, told>>
    /\ UNCHANGED <<build, server, channel, socket, faults, renders>>

-----------------------------------------------------------------------------
(* connect and scheduleReconnect *)

(* onopen, whatever the request has told of meanwhile. *)
Opened(t) == [t EXCEPT !.status = "running", !.reconnecting = FALSE, !.attempts = 0]

Open ==
    /\ socket = "connecting" /\ server = "none"
    /\ socket' = "open"
    /\ server' = "polling"
    /\ term' = Opened(term)
    /\ UNCHANGED <<build, channel, fetch, told, faults, renders>>

\* Bug: a terminal that gives up says nothing.
GivesUpSilently(t) ==
    IF t.completed \/ t.attempts >= MaxAttempts THEN t
    ELSE [t EXCEPT !.reconnecting = TRUE, !.attempts = @ + 1, !.timer = TRUE]

ScheduleReconnect(t) ==
    IF t.completed THEN t
    ELSE IF t.attempts >= MaxAttempts THEN [t EXCEPT !.status = "failed"]
    ELSE [t EXCEPT !.reconnecting = TRUE, !.attempts = @ + 1, !.timer = TRUE]

Close ==
    /\ socket \in {"connecting", "open"} /\ server = "closed" /\ channel = <<>>
    /\ socket' = "closed"
    /\ term' = ScheduleReconnect(term)
    /\ UNCHANGED <<build, server, channel, fetch, told, faults, renders>>

Reconnect ==
    /\ term.timer
    /\ term' = [term EXCEPT !.timer = FALSE]
    /\ socket' = "connecting" /\ server' = "none" /\ channel' = <<>>
    /\ UNCHANGED <<build, fetch, told, faults, renders>>

(* Another onComplete: both effects are cleaned up and run again.  The cleanup
   of the connection sets completedRef, so the run after it connects nothing. *)
Rerender ==
    /\ renders < MaxRenders
    /\ renders' = renders + 1
    /\ fetch' = [state |-> "asked", build |-> Running]
    /\ term' = [term EXCEPT !.completed = TRUE, !.timer = FALSE]
    /\ socket' = "none" /\ server' = "closed" /\ channel' = <<>>
    /\ UNCHANGED <<build, told, faults>>

-----------------------------------------------------------------------------
(* What the terminal shows *)

Callout ==
    CASE term.status = "success" -> "success"
      [] term.status = "failed"  -> IF term.errors THEN "advice" ELSE "failed"
      [] OTHER                   -> "none"

Cursor == term.status \notin Ended

Server == ServerSends \/ ServerFails
Page == Receive \/ FetchReads \/ FetchAnswered \/ Open \/ Close \/ Reconnect

Next == BuildEnds \/ Server \/ Break \/ Page \/ Rerender

(* The poll goes on, and the callbacks of the page run. *)
Fairness ==
    /\ WF_vars(ServerSends) /\ WF_vars(Receive) /\ WF_vars(FetchReads)
    /\ WF_vars(FetchAnswered) /\ WF_vars(Open) /\ WF_vars(Close) /\ WF_vars(Reconnect)

Spec == Init /\ [][Next]_vars /\ Fairness

-----------------------------------------------------------------------------
(* Properties *)

(* The types of the variables; attempts never pass their maximum. *)
TypeOK ==
    /\ build \in Builds
    /\ server \in {"none", "polling", "closed"}
    /\ socket \in {"none", "connecting", "open", "closed"}
    /\ channel \in Seq([type : {"log", "step", "error", "complete"}, step : Nat,
                        status : Ended \cup {""}])
    /\ term \in [status : Ended \cup {"connecting", "running"}, steps : [Index -> Marks],
                 errors : BOOLEAN, completed : BOOLEAN, attempts : 0..MaxAttempts,
                 reconnecting : BOOLEAN, timer : BOOLEAN]
    /\ fetch \in [state : {"asked", "answered", "over"}, build : Builds]
    /\ told \subseteq Ended /\ faults \in 0..MaxFaults /\ renders \in 0..MaxRenders

(* onComplete and the success callout only ever tell how the build has ended,
   though the request and one or several connections race to tell it.  (A
   failure may also be announced because the connection was given up.) *)
OutcomeIsTrue ==
    /\ \A s \in told : build.status = s
    /\ Callout = "success" => build.status = "success"
    /\ Callout = "advice" => build.status = "failed" \/ faults > 0

(* The reconnect timer never runs beside a connection, so that a terminal has
   at most one (connect, scheduleReconnect, the cleanup). *)
OneConnection == term.timer => socket = "closed" /\ channel = <<>>

(* A build whose end has come through the connection is drawn to its end: no
   step of it goes on, and a success has only successful steps.  (A step that
   was left failed by an earlier connection is not, hence the faults.) *)
DrawnToItsEnd ==
    term.status \in Ended /\ socket = "closed" /\ faults = 0 =>
        /\ \A i \in Index : term.steps[i] # "active"
        /\ term.status = "success" => \A i \in Index : term.steps[i] = "success"
        /\ term.status = "failed" => ~ \A i \in Index : term.steps[i] = "success"

(* A build that ends is announced: the terminal reconnects until a connection
   tells it, the request does, or it gives up and says so.  (Not after another
   onComplete, which disconnects it for good.) *)
TerminalEnds == build.status \in Ended ~> (told # {} \/ term.status = "failed" \/ renders > 0)

(* All that a terminal tells of an ended build, by its callouts, by onComplete and
   by its steps, is how the build has ended; and one connection at most tells it. *)
TerminalIsTrue == TypeOK /\ OutcomeIsTrue /\ DrawnToItsEnd /\ OneConnection

=============================================================================
