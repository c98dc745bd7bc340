\* Safety, refinement and progress of the lock, two callers.
CONSTANTS
    Callers = {c1, c2}
    Workers = {w1, w2}
    Free = Free
    Roots <- MCRoots
    Prime <- MCPrime
    Integers <- MCIntegers
    Metadata <- MCMetadata
    Radix <- MCRadix
SPECIFICATION Spec
INVARIANT TypeOK
INVARIANT ComputesUnderOwnPrime
PROPERTY BehavesAtomically
PROPERTY HoldersReturn
