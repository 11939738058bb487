SPECIFICATION Spec
CONSTANTS
    a = a
    b = b
    c = c
    Prompts = {0}
    Buyers <- ThreeBuyers
    BundlePrompts = {0}
    Amounts = {1, 2}
    DisputeWindow = 1
    MaxTime = 2
    SaleStatuses = {"Active"}
    SupplyCaps = {0}
    MaxSales = 2
    MaxReserve = 0
INVARIANT ReleasePathOpen
