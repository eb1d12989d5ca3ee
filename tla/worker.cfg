SPECIFICATION FairSpec
CONSTANTS
    MaxRelease = 2
    Gpu = {2}
INVARIANTS FailedJoinLeavesNothing ReceiptMatchesHost
PROPERTIES ReceiptIsServed AgentComesBack
