SPECIFICATION Spec
\* The bounds of a circuit have been reached.
CHECK_DEADLOCK FALSE
CONSTANTS
    WordBits = 3
    ChunkSize = 2
    Widths = {1, 2}
    Constants = {1}
    Coefficients = {0, 2}
    MaxWord = 3
    MaxColumns = 4
    MaxHandles = 4
    Recent = 3
    MaxSize = 6
INVARIANT WrappingIsExact
INVARIANT SameVerdict
INVARIANT TapeIsProduct
