SPECIFICATION Spec
CONSTANTS
  a = a
  b = b
  c = c
  Builds = {a, b}
  VersionOf <- MCVersionOf
  FirstOffer <- MCFirstOffer
  None = None
  Corrupt = Corrupt
  Faults = {"net", "exec"}
  MaxFaults = 3
  MaxOffers = 1
PROPERTIES
  FailedInstallKeepsPending
