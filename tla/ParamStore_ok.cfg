SPECIFICATION Spec
CONSTANTS
    Inputs <- MCInputs
    Arrays <- MCArrays
    Index <- MCIndex
    Slots = 7
    MaxLen = 8
INVARIANTS
    TreesAreRedBlack
    SentIsBound
