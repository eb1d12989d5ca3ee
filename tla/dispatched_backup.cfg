SPECIFICATION DispatchedSpec
CONSTANTS
    Process = {p1, p2}
    Inode = {i1, i2}
    TxnId = {t1, t2}
    Command <- NodeCommand
    DryRuns <- LiveOnly
    NoProcess = NoProcess
    NoInode = NoInode
    NoTxn = NoTxn
    d1 = d1
    Datastore <- MCDatastore
    Volume = {}
    Cache = {}
    BackupId = {b1}
    MaxVersion = 2
    Layout <- MCLayout
    NoBackup = NoBackup
    NoManifest = NoManifest
SYMMETRY Symmetry
INVARIANT MutualExclusion
PROPERTIES InterruptedIsNotBypassed ImplementsSerialLog ImplementsBackup
