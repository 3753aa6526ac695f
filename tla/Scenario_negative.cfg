\* show_menu answers mn - 1 for any number below len + 1, so a typed -3
\* answers -4, which run_menu takes for '0': the menu ends although the
\* prompt asks for 0 to 16.
CONSTANTS
    Argvs <- MCArgvs
    Lines <- MCLines
    MaxLines = 2
SPECIFICATION Spec
INVARIANT MenuFollowsOperator
CHECK_DEADLOCK FALSE
