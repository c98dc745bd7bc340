\* Exhaustive over the operands of each modulus, ten-bit double words,
\* and over the products and powers of binary fields.
CONSTANTS
    HalfBits = 5
    Bases <- MCBases
    WORD = 5
    REDUCTION = 9
SPECIFICATION Spec
INVARIANT MultiplicationIsExact
INVARIANT OperationsAreExact
INVARIANT BinaryFieldIsExact
INVARIANT PrimalityIsExact
