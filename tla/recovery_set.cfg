SPECIFICATION FairSpec
CONSTANTS
    o1 = o1
    o2 = o2
    Object <- MCObject
    MaxVersion = 2
    Replicas <- MCReplicas
    NoArchive = NoArchive
    NoManifest = NoManifest
INVARIANTS RestoredIsTheSet
PROPERTIES PublishedIsAPointInTime LossOnlyUnderAVerifiedSet OutageEnds
CHECK_DEADLOCK FALSE
