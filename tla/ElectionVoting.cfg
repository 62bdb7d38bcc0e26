SPECIFICATION Spec
CONSTANTS
    Block = {1, 2}
    Initial = 1
    Rep = {1, 2}
    LocalRep = {1}
    weight <- Weights
    Delta = 2
    Timestamps = {1}
    Final = 3
    max_blocks = 2
    canary = TRUE
    full_blocks = FALSE
    drops = TRUE
    Null = 0
    None = None
INVARIANTS ProcessedWinnerForced 
PROPERTIES WinnerFixed ConfirmedByFinalVotes
CHECK_DEADLOCK FALSE
