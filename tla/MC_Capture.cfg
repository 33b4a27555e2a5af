\* Up to three functions of up to five statements.
CONSTANTS
    NoValue = NoValue
    Worlds <- SmallWorlds
    LineWidth = 10
SPECIFICATION CaptureSpec
INVARIANTS CaptureTypeOK CaptureIsFaithful
           FunctionsToldApart
PROPERTIES CaptureEnds
