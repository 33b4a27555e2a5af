\* Three slots; two operations that entangle, then up to two of ten.
CONSTANTS
    Slots = {0, 1, 2}
    MaxOperations = 2
    NoEvidence = NoEvidence
    Circuits <- BackendCircuits
    Requests <- BackendRequests
    Queries = {"full_state", "samples"}
    Timings <- AsapTimings
SPECIFICATION BackendSpec
INVARIANTS BackendTypeOK GrantIsHonoured LateDecayIsTimed
PROPERTIES BackendsImplementReference
