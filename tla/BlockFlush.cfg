CONSTANTS
    A = A
    B = B
    C = C
    a1 = a1
    a2 = a2
    a3 = a3
    b1 = b1
    c1 = c1
    f1 = f1
    x2 = x2
    None = None
    Block = {a1, f1}
    Account = {A, B, C}
    content <- const_content
    max_adds = 1
    max_verification_batch = 1
    block_processor_batch_size = 1
    max_block_write_batch_num = 2
    max_gaps = 2
    disable_delete = FALSE
    forces = {f1}
    locals = {a1}
    max_flushes = 1
    stops = TRUE
SPECIFICATION FairSpec
PROPERTIES FlushDrains FlushReturns StopEnds
CHECK_DEADLOCK FALSE
