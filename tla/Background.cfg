SPECIFICATION BackgroundSpec
CONSTANTS
    l1 = l1
    l2 = l2
    Rows <- TwoSubscriptions
    Loops <- TwoLoops
    BatchSize = 2
    MaxAttempts = 2
    MaxStops = 1
    j1 = j1
    x1 = x1
    x2 = x2
    b1 = b1
    Jobs <- OneJob
    JobWorkers <- TwoJobWorkers
    Enqueuers <- OneAdmin
    Admins <- OneAdmin
    NoJob = NoJob
    MaxJobAttempts = 2
    MaxDeaths = 1
    MaxRequeues = 1
    d1 = d1
    d2 = d2
    d3 = d3
    Deliveries <- TwoDeliveries
    MaxBreakdowns = 2
    fee = fee
    creator = creator
    collaborator = collaborator
    Shares <- ThreeShares
    Denominator = 3
    Payments = {1, 2}
    MaxDeposit = 6
INVARIANTS
    CarriesBacked
    NeverUnderflows
    PaidToTheStroop
    EntitlementExact
PROPERTIES
    
    JobsSettle
    SettledUnlessBrokenDown
CHECK_DEADLOCK FALSE
