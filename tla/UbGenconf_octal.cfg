\* Headers with a decimal default written with a leading 0.
CONSTANTS
    MaxDefines = 3
    Literals <- OctalLits
    StaleOrder = FALSE
    IntW = 8
    LongW = 16
SPECIFICATION Spec
INVARIANTS
    ValuesTestPasses
