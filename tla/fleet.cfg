SPECIFICATION Spec
CONSTANTS
    w1 = w1
    w2 = w2
    Name <- MCName
    MaxUid = 2
    MaxIssued = 1
    MaxRelease = 3
    k1 = k1
    k2 = k2
    K3sVersion = {k1, k2}
    K3sOf <- MCK3sOf
SYMMETRY MCSymmetry
INVARIANTS IssuedIsRecorded NothingOutlivesItsNode
PROPERTIES PublicationsAreKept AdvanceIsGated
