SPECIFICATION Spec
CONSTANTS
    Operands <- MCOperands
    Operators <- MCOperators
    Rows <- MCRows
    MAX_POSTFIX = 8
    MaxTokens = 9
    Signed = TRUE
INVARIANTS
    SelectsByMeaning
    OverlongSelectsNothing
    SignedSelectsNothing
