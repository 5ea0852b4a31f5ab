\* One deployment and any of its three views, or one build and its terminal.  The
\* log of the deployment has three of the five step lines, and one stream event
\* and two polls are under way at a time; the terminal has four of the six steps,
\* three attempts to reconnect, six failures of the network or the server and two
\* re-renders.  A deployment whose row is deleted ends, and so do a view and a
\* terminal.
CONSTANTS
    LastStep = 3
    MaxInFlight = 1
    MaxPolls = 2
    Labels = 4
    MaxAttempts = 3
    MaxFaults = 6
    MaxRenders = 2
SPECIFICATION WatchSpec
INVARIANTS StagesAreTrue TerminalIsTrue
PROPERTIES Truthful WatchEnds StagesOnlyAdvance TerminalEnds
CHECK_DEADLOCK FALSE
