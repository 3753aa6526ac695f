\* Headers with an integer default written with a suffix, past 32 bits.
CONSTANTS
    MaxDefines = 3
    Literals <- SuffixLits
    StaleOrder = FALSE
    IntW = 8
    LongW = 16
SPECIFICATION Spec
INVARIANTS
    DeclaredTypeHoldsValue
