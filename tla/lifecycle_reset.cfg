SPECIFICATION FairSpec
CONSTANTS
    Process = {p1, p2}
    Inode = {i1, i2}
    TxnId = {t1, t2}
    Command <- ResetCommands
    DryRuns <- WithDryRuns
    NoProcess = NoProcess
    NoInode = NoInode
    NoTxn = NoTxn
INVARIANT OverlapIsOffTheLinkedFile
PROPERTY EveryInvocationEnds
