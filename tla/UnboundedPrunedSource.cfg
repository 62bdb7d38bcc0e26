SPECIFICATION Spec
CONSTANTS
    Account = {1, 2}
    genesis = 1
    Ledgers <- MCLedgers
    Lengths <- Chains
    Receives = {1, 2}
    None = None
    MaxRequests = 2
    MaxRestarts = 1
    Pruning = TRUE
    unbounded_cutoff = 3
    batch_write_size = 2
INVARIANTS BlockFound
CHECK_DEADLOCK FALSE
