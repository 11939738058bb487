SPECIFICATION QuickSpec
CONSTANTS
    w1 = w1
    w2 = w2
    Replicas <- TwoReplicas
    Rows = {1, 2, 3, 4, 5, 6, 7}
    Batch = 20
    TTL = 6
    RowTime = 1
    MaxTime = 8
    MaxDelay = 0
SYMMETRY Symmetry
INVARIANT DeliveredByOneReplica
