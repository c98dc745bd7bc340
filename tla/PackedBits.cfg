SPECIFICATION Spec
CONSTANTS
    WordBits = 3
    MaxBits = 7
    MaxWitness = 7
INVARIANT SameBits
INVARIANT WitnessIsStored
