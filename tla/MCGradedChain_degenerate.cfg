CONSTANTS
    a1 = a1
    a2 = a2
    s1 = s1
    s2 = s2
    s3 = s3
    Cands <- MCCands
    NAssets = 2
    WinnersLen = 2
    Cutoff = 3
    MaxHeight = 2
    MaxEntries = 2
    NoHash = NoHash
SPECIFICATION Spec
INVARIANT DegenerateLinkAdmitsEmpty
