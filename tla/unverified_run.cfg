SPECIFICATION Spec
CONSTANTS
  a = a
  b = b
  c = c
  Builds = {a, b}
  VersionOf <- MCVersionOf
  FirstOffer <- MCFirstOffer
  None = None
  Corrupt = Corrupt
  Faults = {"exec", "corrupt"}
  MaxFaults = 2
  MaxOffers = 1
INVARIANTS
  MismatchNeverRun
