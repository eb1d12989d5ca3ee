SPECIFICATION FairSpec
CONSTANTS
    MaxRuns = 3
    MaxBoots = 1
INVARIANTS DNSKeepsItsPort MdnsOffStaysOff UninstallGivesDNSBack
PROPERTIES RollbackRestoresMdns DNSComesBack
CHECK_DEADLOCK FALSE
