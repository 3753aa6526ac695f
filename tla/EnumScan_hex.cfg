\* Violation expected: an initialiser written in hex is read as 0 by the
\* ([0-9]*) group, and the table is indexed wrongly.
CONSTANTS
    Target = Target
    Other = Other
    None = None
    Vals = {0, 1, 2}
    MaxBody = 3
    HexLits = TRUE
    Comments = FALSE
    Blanks = FALSE
    LastNoComma = FALSE
SPECIFICATION Spec
INVARIANT
    TableIndexedByValue
