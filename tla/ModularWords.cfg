SPECIFICATION Spec
CONSTANTS
    WordBits = 3
    MaxLimbs = 3
INVARIANT EvaluatorIsExact
INVARIANT StoredAlike
