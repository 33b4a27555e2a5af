\* Two slots, all engines: up to four operations of six kinds, three of
\* twelve, and returns of up to two leaves from four of five.
CONSTANTS
    Slots = {0, 1}
    MaxOperations = 4
    MaxWide = 3
    MaxReturning = 4
    MaxLeaves = 2
    NoEvidence = NoEvidence
    Circuits <- SmallCircuits
    Requests <- AllRequests
    Leaves <- SmallLeaves
    ReadoutChannels <- SmallChannels
SPECIFICATION RunSpec
INVARIANTS RunTypeOK TrajectoriesAgree RefusalsAreExact
           TraceExplainsRun PublishedIsJoint
