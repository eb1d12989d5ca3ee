SPECIFICATION Spec
CONSTANTS
  MaxAttempts = 2
  Stubborn = {"k3s", "broker"}
  Preserve = {TRUE, FALSE}
  ForceAdopt = {TRUE, FALSE}
  Reset = {TRUE, FALSE}
  Capability = {"registry", "coredns"}
INVARIANTS
  CleanFailure
  OrderlyUndo
  InstalledIsComplete
PROPERTIES
  DatabaseKept
  ForeignIsAsked
