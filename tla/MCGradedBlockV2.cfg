CONSTANTS
    a1 = a1  a2 = a2  a3 = a3
    s1 = s1  s2 = s2  s3 = s3  s4 = s4  s5 = s5
    NoHash = NoHash
    Cands <- MCCands
    MaxInput = 4
    Cutoff = 2
    TopRank = 2
SPECIFICATION Spec
INVARIANT TypeOK
PROPERTY RefinesGradedBlock
