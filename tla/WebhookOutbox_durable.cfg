SPECIFICATION Spec
CONSTANTS
    e1 = e1
    e2 = e2
    e3 = e3
    c1 = c1
    c2 = c2
    w1 = w1
    w2 = w2
    k1 = k1
    Events <- ThreeEvents
    Callers <- TwoCallers
    Workers = {}
    Controllers = {}
    MaxAttempts = 1
    MaxFailures = 1
    MaxSequence = 5
    MaxFaults = 0
SYMMETRY Symmetry
INVARIANT EnqueueDurable
CHECK_DEADLOCK FALSE
