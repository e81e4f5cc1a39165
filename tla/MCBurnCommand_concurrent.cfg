CONSTANTS
    p1 = p1
    p2 = p2
    NoTx = NoTx
    NoKey = NoKey
    ConfigNames <- MCConfigNames
    Lower <- MCLower
    Procs <- MCProcs
    MaxFaults = 1
SPECIFICATION Spec
INVARIANT SentTxIsOwn
