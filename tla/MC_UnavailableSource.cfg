\* The documented diagnostic of a function without source text.
CONSTANTS
    NoValue = NoValue
    Worlds <- SmallWorlds
    LineWidth = 10
SPECIFICATION CaptureSpec
INVARIANTS UnavailableSourceReported
