\* Violation expected: a last enumerator without its comma matches neither
\* expression of scan_enum, which then stops reading the header.
CONSTANTS
    Target = Target
    Other = Other
    None = None
    Vals = {0, 1, 2}
    MaxBody = 3
    HexLits = FALSE
    Comments = FALSE
    Blanks = FALSE
    LastNoComma = TRUE
SPECIFICATION Spec
INVARIANT
    EnumsMatchHeader
