SPECIFICATION Spec
CONSTANTS
    Degree = 4
    Reduction = 3
    ORDER_PRIME_FACTORS = {3, 5}
    Chain <- MCChain
    Queries <- Asking
    Challenges = {0, 5}
    ELEMENT = 2
    BLOCK_LOG = 1
    Forged = {0, 6}
    LOW_BITS = 1
    P = 5
    Draws = {0, 2}
    ChunkVars = 1
    LeastLogBits = 3
INVARIANT UnluckyStayFalse
INVARIANT FewLuckyChallenges
INVARIANT TrueClaimsSucceed
INVARIANT DigestBinds
