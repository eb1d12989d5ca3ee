SPECIFICATION BackupSpec
CONSTANTS
  d1 = d1
  d2 = d2
  Datastore <- MCDatastore
  Volume = {v1}
  Cache = {c1}
  BackupId = {b1}
  MaxVersion = 3
  Layout <- MCLayout
  NoBackup = NoBackup
  NoManifest = NoManifest
INVARIANTS
  RestoredIsTheBackup
  NotLeftStopped
PROPERTIES
  ManifestIsAPointInTime
  LossOnlyUnderAVerifiedBackup
