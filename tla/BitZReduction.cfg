\* Soundness and completeness of the fold round and the grand products.
CONSTANTS
    Degree = 5
    Reduction = 5
    ORDER_PRIME_FACTORS = {31}
    Chain <- MCChain
    Window = 2
    BITS = 2
    LogRows = 2
    LogColumns = 1
    PACK_BITS = 1
    MIN_LOG_BITS = 3
    MAX_LOG_BITS = 5
    WORD_BITS = 2
    GROUP_ORDER = 31
    MIN_PRIME_BITS = 2
    MAX_MODULUS_BITS = 3
    Generator = 2
    Tables <- MCTables
    Claims <- MCClaims
    Draws <- MCDraws
    Leading = {5}
    MaxFold = 32
    Sums <- MCSums
SPECIFICATION Spec
INVARIANT SoundUnlessLucky
INVARIANT LuckIsBounded
INVARIANT HonestProverSucceeds
CHECK_DEADLOCK FALSE
