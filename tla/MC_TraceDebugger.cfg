\* Two slots, up to three operations of five kinds, two runs.
CONSTANTS
    Slots = {0, 1}
    MaxOperations = 3
    NoEvidence = NoEvidence
    NoSession = NoSession
    NoView = NoView
    Circuits <- SmallCircuits
    Requests <- TracedRequests
    Edits <- SmallEdits
SPECIFICATION DebuggerSpec
INVARIANTS DebuggerTypeOK SessionIsOneRun DisplayIsFaithful
