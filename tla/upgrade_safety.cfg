SPECIFICATION Spec
CONSTANTS
  MaxAttempts = 2
  Preserve = {TRUE, FALSE}
  NoBackup = NoBackup
INVARIANTS
  OldDataIsBackedUp
  CleanRollback
  NewReceipt
  NotLeftStopped
