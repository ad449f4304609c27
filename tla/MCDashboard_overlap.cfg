SPECIFICATION DashFairSpec
CONSTANTS
    r1 = r1  r2 = r2
    Refreshes = {r1, r2}
    MaxTransfers = 3
    MaxFailures = 1
PROPERTIES
    ShownIsALedger
    PageSettles
