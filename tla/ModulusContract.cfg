\* The contract of set_modulus against what callers hold.
CONSTANTS
    Callers = {c1, c2}
    Workers = {w1, w2}
    Free = Free
    Roots <- MCRoots
    Prime <- MCPrime
    Integers <- MCIntegers
    Metadata <- MCMetadata
    Radix <- MCRadix
SPECIFICATION Spec
PROPERTY InstallsAlone
