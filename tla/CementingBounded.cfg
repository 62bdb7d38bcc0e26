SPECIFICATION Spec
CONSTANTS
    Account = {1, 2}
    genesis = 1
    Ledgers <- MCLedgers
    Lengths <- Chains
    Receives = {1, 2}
    None = None
    MaxRequests = 2
    MaxRestarts = 1
    Pruning = TRUE
    max_items = 2
    BatchSizes = {1}
INVARIANTS AssertionsHold CementedAccountedFor
PROPERTIES ImplementsCementing RequestsCemented
CHECK_DEADLOCK FALSE
