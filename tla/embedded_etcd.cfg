SPECIFICATION Spec
CONSTANTS
    Bootstrap = b
    Peers = {p1}
    MaxCluster = 2
    MaxRelease = 2
    Leftover = {p1}
INVARIANTS StagedIsMember InstalledIsStaged
PROPERTIES MembersKeepTheirData CommittedDatabaseIsKept
