SPECIFICATION FairInboundSpec
CONSTANTS
    d1 = d1
    d2 = d2
    d3 = d3
    Deliveries <- TwoDeliveries
    MaxBreakdowns = 1
PROPERTY RetryableAfterCrash
CHECK_DEADLOCK FALSE
