\* Two teams, one row in each, two requests of the user's making at a time.
SPECIFICATION Spec
CONSTANTS
    MaxTeams = 2
    Rows = {r1}
    MaxCalls = 2
    MaxFaults = 1
INVARIANTS SessionIsTrue 
PROPERTY LoadingEnds
