SPECIFICATION Spec
CONSTANTS
    Symbol <- MCSymbol
    Cell <- MCCell
    Squeeze = 9
    NonceCells = 1
    MaxGrinding = 32
    LeadingZeros <- MCLeadingZeros
    Labels <- MCLabels
    BasisLabel <- MCBasisLabel
    ElementCells = 1
    Values <- MCValues
    Target <- MCTarget
    Strings <- MCStrings
    MaxObserved = 1
    Slices <- MCSlices
    Schedules <- MCSchedules
    Natives = {0, 2}
    BasisVars = 1
    PowTag = 6
    VectorTag = 7
    MaxCalls = 4
    MaxCells = 3
CHECK_DEADLOCK FALSE
INVARIANT AbsorbedAsMeant
INVARIANT ReturnedFollowsSchedule
INVARIANT HonestAgree
INVARIANT AcceptedIsCanonical
