SPECIFICATION Spec
CONSTANTS
    MaxRuns = 2
    MaxBoots = 0
INVARIANT OrphanIsReaped
CHECK_DEADLOCK FALSE
