\* A program that returns one result twice, run with samples.
CONSTANTS
    Slots = {0, 1}
    MaxOperations = 0
    MaxWide = 0
    MaxReturning = 2
    MaxLeaves = 2
    NoEvidence = NoEvidence
    Circuits <- SmallCircuits
    Requests <- AllRequests
    Leaves <- SmallLeaves
    ReadoutChannels <- SmallChannels
SPECIFICATION RunSpec
INVARIANTS RepeatedLeavesPublished
