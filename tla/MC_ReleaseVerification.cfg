SPECIFICATION ReleaseSpec
CONSTANTS
    Projects <- ProjectsDef
    Files <- FilesDef
    Attempts = 2
    MaxRuns = 2
    MaxChanges = 2
INVARIANTS
    ReleaseTypeOK
    OnlyVerifiedFiles
    AllOrNothing
    VerdictsWitnessed
PROPERTIES
    PromiseKept
    RunEnds
