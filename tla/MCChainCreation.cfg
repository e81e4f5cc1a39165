CONSTANTS
    c1 = c1  c2 = c2
    Chains <- MCChains
    NoChain = NoChain
    MaxIter = 3
    MaxFaults = 2
    MaxRuns = 3
    SetupFails = TRUE
SPECIFICATION Spec
INVARIANT TypeOK
INVARIANT ReportedChainsExist
