\* Two slots; up to two operations before up to two observations.
CONSTANTS
    Slots = {0, 1}
    MaxGates = 2
    NoEvidence = NoEvidence
    Circuits <- ReportedCircuits
    Requests <- DensityRequests
    Leaves <- ReportedLeaves
    ReadoutChannels <- SmallChannels
    Questions <- SmallQuestions
    Tolerance <- ThreePercent
SPECIFICATION ReportSpec
INVARIANTS ReportTypeOK NoReportTurnedDown ReportsAreJustified DamageIsAttributed
