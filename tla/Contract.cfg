SPECIFICATION ContractSpec
CONSTANTS
    a = a
    b = b
    c = c
    Prompts = {0, 1}
    Buyers <- ThreeBuyers
    BundlePrompts = {0, 1}
    Amounts = {1, 2, 3}
    DisputeWindow = 0
    MaxTime = 2
    SaleStatuses = {"Active", "Retired"}
    SupplyCaps = {0, 1}
    MaxSales = 2
    MaxReserve = 1
SYMMETRY BuyerSymmetry
INVARIANTS
    TypeOK
    SupplyRespected
    OpenDisputeHoldsEscrow
    LiveEscrowsTracked
PROPERTIES
    CustodyFrozenWhilePaused
    SurplusMovesOnlyByMismatchedRefund
    BundlePricesAddUp
