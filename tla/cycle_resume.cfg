SPECIFICATION Spec
CONSTANTS
  a = a
  b = b
  c = c
  Builds = {a, b, c}
  VersionOf <- MCVersionOf
  FirstOffer <- MCFirstOffer
  None = None
  Corrupt = Corrupt
  Faults = {"crash", "net", "exec", "corrupt", "hold"}
  MaxFaults = 3
  MaxOffers = 2
INVARIANTS
  Resumable
PROPERTIES
  NoPlainDowngrade
