\* gen_sm_name on names of {2, 3} CamelCase words after a leading acronym of {1} letters.
CONSTANTS
    MaxLen = 0
    MaxLines = 0
    WordCounts = {2, 3}
    Acronyms = {1}
SPECIFICATION Spec
INVARIANTS
    SmNameIsSnakeCase
