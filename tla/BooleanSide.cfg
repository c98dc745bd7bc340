SPECIFICATION Spec
\* A finished matrix has been applied: the circuit really ends there.
CHECK_DEADLOCK FALSE
CONSTANTS
    WordBits = 2
    InlineSupport = 1
    InputCount = 1
    WordWidths = {2}
    MaxHandles = 7
    MaxRows = 2
INVARIANT BackendsAgree
INVARIANT IntegerWitnessIsImage
INVARIANT RowsWellFormed
INVARIANT TransposedClaimHolds
PROPERTY HandlesKeepMeaning
