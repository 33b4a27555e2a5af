\* Own schedules: three slots, up to three operations, two durations, untimed
\* operations. Exchanged ones: two slots, three operations; the tolerance is
\* one unit of time, shifts go one beyond it.
CONSTANTS
    Slots = {0, 1, 2}
    OperationIds = {1, 2, 3}
    MaxOperations = 3
    NoTiming = NoTiming
    Times = {0, 3, 4, 6, 7}
    Tol = 1
    Shifts <- SmallShifts
    Exchanged <- SmallExchanged
    Circuits <- SmallCircuits
    Profiles <- SmallProfiles
SPECIFICATION RunSpec
INVARIANTS ScheduleTypeOK SlotExclusive EarliestOfAll SlotTimeAccounted AsapOnly IdleAppliedOnce
