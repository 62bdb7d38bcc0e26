SPECIFICATION Spec
CONSTANTS
    Block = {1, 2, 3}
    Initial = 1
    Rep = {1, 2}
    LocalRep = {}
    weight <- Weights
    Delta = 2
    Timestamps = {}
    Final = 3
    max_blocks = 2
    canary = TRUE
    full_blocks = TRUE
    drops = TRUE
    Null = 0
    None = None
INVARIANTS WinnerInElection
CHECK_DEADLOCK FALSE
