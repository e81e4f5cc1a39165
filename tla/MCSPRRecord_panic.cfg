CONSTANTS
    Heights = {1, 2, 3}
    Networks = {"MainNet", "TestNet"}
    Activation <- MCActivation
    Versions = {0, 5}
    AssetsV4 <- MCAssetsV4
    AssetsV1 <- MCAssetsV1Shorter
    Prices = {0, 7, 9}
    fa1 = fa1
    fa2 = fa2
    fa3 = fa3
    Addresses <- MCAddresses
    ValidFCT <- MCValidFCT
    DebugFCT = fa1
    TestNetwork = "TestNet"
    NoSPR = NoSPR
    NoEntry = NoEntry
    NoAddr = NoAddr
SPECIFICATION Spec
INVARIANT NewSprNeverPanics
