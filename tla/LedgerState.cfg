SPECIFICATION Spec
CONSTANTS
    G = G
    A = A
    B = B
    link_1 = link_1
    link_2 = link_2
    g = g
    s1 = s1
    f1 = f1
    o1 = o1
    e1 = e1
    p1 = p1
    d1 = d1
    t1 = t1
    r1 = r1
    x1 = x1
    l1 = l1
    k1 = k1
    m1 = m1
    Zero = Zero
    None = None
    Account = {G, A, B}
    Hash = {g, s1, f1, o1, e1, p1, d1, t1, r1, x1, l1, k1, m1}
    content <- const_content
    rank <- const_rank
    owner <- const_owner
    EpochLink <- const_EpochLink
    genesis = g
    EpochSigner = G
    UInt128Max = 3
    epoch_1 = 1
    epoch_2 = 1
    epoch_2_receive = 1
    pruning = FALSE
INVARIANTS PendingExact AccountInfoDerived CapturedInfoFresh ReceivedOnce
PROPERTIES RollbackTerminates
