\* Two names on each index, two pushes of the tag, two builds, one job run
\* again or one push with two, one thing done by others.
CONSTANTS
    Count = 2
    MaxPushes = 2
    MaxBuilds = 2
    MaxTurns = 3
    MaxStrange = 1
    Free = Free
    Foreign = Foreign
SPECIFICATION WorkflowSpec
INVARIANTS WorkflowTypeOK WorkflowSound
PROPERTIES StagedFirst RunsEnd
