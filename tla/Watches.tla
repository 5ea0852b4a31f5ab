------------------------------ MODULE Watches ------------------------------
(***************************************************************************)
(* The two kinds of job the dashboard follows, each by views of its own: a *)
(* deployment by the three views of DeployWatch, a build by the terminal of*)
(* BuildTerminal.  A user watches one job at a time, and what is not       *)
(* watched stays as it is opened.                                          *)
(***************************************************************************)
EXTENDS DeployWatch

CONSTANTS Labels, MaxAttempts, MaxFaults, MaxRenders   \* of BuildTerminal

ASSUME TerminalAssumption ==
    /\ Labels \in Nat \ {0} /\ MaxAttempts \in Nat \ {0}
    /\ MaxFaults \in Nat /\ MaxRenders \in Nat

VARIABLES
    watched,   \* which kind of job: "deployment" or "build"
    build, server, lines, socket, term, fetch, told, faults, renders  \* of BuildTerminal

Terminal == INSTANCE BuildTerminal WITH channel <- lines

deployment == vars
terminal   == <<build, server, lines, socket, term, fetch, told, faults, renders>>
all        == <<watched, deployment, terminal>>

(* The row of a build that is not watched is not looked at. *)
WatchInit ==
    /\ watched \in {"deployment", "build"}
    /\ Init /\ Terminal!Init
    /\ watched = "deployment" => build = Terminal!Running
    /\ watched = "build" => kind = "DeployLog"

Follows(job) == watched = job /\ UNCHANGED watched

WatchNext ==
    \/ Follows("deployment") /\ Next /\ UNCHANGED terminal
    \/ Follows("build") /\ Terminal!Next /\ UNCHANGED deployment

(* The fairness of each, for the one that is watched. *)
DeploymentStep(A) == Follows("deployment") /\ A /\ UNCHANGED terminal
BuildStep(A)      == Follows("build") /\ A /\ UNCHANGED deployment

WatchFairness ==
    /\ WF_all(DeploymentStep(Server)) /\ WF_all(DeploymentStep(Events))
    /\ WF_all(DeploymentStep(StartPolling)) /\ WF_all(DeploymentStep(Poll))
    /\ WF_all(DeploymentStep(AskOnce))
    /\ WF_all(DeploymentStep(\E a \in polls : PollAnswered(a)))
    /\ WF_all(BuildStep(Terminal!ServerSends)) /\ WF_all(BuildStep(Terminal!Receive))
    /\ WF_all(BuildStep(Terminal!FetchReads)) /\ WF_all(BuildStep(Terminal!FetchAnswered))
    /\ WF_all(BuildStep(Terminal!Open)) /\ WF_all(BuildStep(Terminal!Close))
    /\ WF_all(BuildStep(Terminal!Reconnect))

WatchSpec == WatchInit /\ [][WatchNext]_all /\ WatchFairness

-----------------------------------------------------------------------------
(* Properties: those of DeployWatch, and of the terminal *)

(* What the terminal tells of a build is how it ended, over one connection at a
   time (DeployTerminal, DeployStep). *)
TerminalIsTrue == Terminal!TerminalIsTrue

(* A build that ends is announced by the terminal, or it gives up and says so
   (connect, scheduleReconnect, fetchBuildStatus). *)
TerminalEnds == Terminal!TerminalEnds

=============================================================================
