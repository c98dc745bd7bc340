SPECIFICATION Spec
CONSTANTS
    Symbol <- MCSymbol
    Cell <- MCCell
    Squeeze = 250
    NonceCells = 1
    MaxGrinding = 32
    LeadingZeros <- MCLeadingZeros
    Tag <- MCTag
    Version = 2
    Generator = 3
    Derived = 4
    PackBits = 1
    ClaimCount = 2
    Statements <- MCStatements
    Provable <- MCProvable
    OtherHint = 5
    HintLimit = 2
    Byte <- MCByte
    MAGIC <- MCMagic
    WIRE_VERSION = 1
    FLAGS = 0
    U16 = 1
    U32 = 1
    U64 = 2
    MaxUsize = 255
    to_le <- MCToLe
    from_le <- MCFromLe
CHECK_DEADLOCK FALSE
INVARIANT Lockstep
INVARIANT StatementsApart
INVARIANT AcceptedIsWhole
INVARIANT GroundEnough
PROPERTY NoDrawWhileOwed
