CONSTANTS
    c1 = c1  c2 = c2
    Chains <- MCChains
    NoChain = NoChain
    MaxIter = 3
    MaxFaults = 1
    MaxRuns = 1
    SetupFails = FALSE
SPECIFICATION Spec
INVARIANT SurvivesOneTransientFault
