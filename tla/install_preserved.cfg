SPECIFICATION Spec
CONSTANTS
  MaxAttempts = 1
  Stubborn = {}
  Preserve = {TRUE}
  ForceAdopt = {FALSE}
  Reset = {}
  Capability = {"registry", "coredns"}
PROPERTIES
  PreservedOnRequest
