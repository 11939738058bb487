SPECIFICATION ReplicasSpec
CONSTANTS
    e1 = e1
    e2 = e2
    e3 = e3
    c1 = c1
    c2 = c2
    w1 = w1
    w2 = w2
    k1 = k1
    Events <- ThreeEvents
    Callers <- TwoCallers
    Workers <- TwoWorkers
    Controllers <- OneController
    MaxAttempts = 2
    MaxFailures = 1
    MaxSequence = 5
    MaxFaults = 2
    r1 = r1
    r2 = r2
    Replicas <- TwoReplicas
    Rows = {1, 2}
    Batch = 2
    TTL = 1
    MaxTime = 2
    MaxDelay = 1
SYMMETRY ReplicasSymmetry
INVARIANTS
    UncontendedEnqueueStored
    LeaseTypeOK
    BothDeliverOnlyPastLease
    LeaseHeld
    TypeOK
    DeliveredMeansAccepted
    AcceptedInSequence
CHECK_DEADLOCK FALSE
