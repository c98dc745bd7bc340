SPECIFICATION Spec
CONSTANTS
    WordBits = 2
    NibbleBits = 2
    BaseModulus = 251
    ScalarModulus = 229
    CurveB = 58
    GeneratorX = 2
    GeneratorY = 78
    Jobs <- MCJobs
INVARIANT AccumulatorHoldsPrefix
INVARIANT AcceptedIsSigned
INVARIANT HonestIsAccepted
PROPERTY HashIsStandard
CHECK_DEADLOCK FALSE
