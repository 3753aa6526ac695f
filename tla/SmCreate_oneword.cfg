\* gen_sm_name on names of {1} CamelCase words after a leading acronym of {0, 2} letters.
CONSTANTS
    MaxLen = 0
    MaxLines = 0
    WordCounts = {1}
    Acronyms = {0, 2}
SPECIFICATION Spec
INVARIANTS
    SmNameIsSnakeCase
