SPECIFICATION ReleaseSpec
CONSTANTS
    Projects <- ProjectsDef
    Files <- FilesDef
    Attempts = 2
    MaxRuns = 1
    MaxChanges = 0
INVARIANTS
    CleanPathAfterFailure
