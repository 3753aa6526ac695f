\* Headers where a string without max_length follows one with it.
CONSTANTS
    MaxDefines = 3
    Literals <- PassLits
    StaleOrder = TRUE
    IntW = 8
    LongW = 16
SPECIFICATION Spec
INVARIANTS
    ValuesTestPasses
