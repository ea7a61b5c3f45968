SPECIFICATION ClosingSpec
CONSTANTS
  a = a
  b = b
  c = c
  Builds = {a, b, c}
  VersionOf <- MCVersionOf
  FirstOffer <- MCFirstOffer
  None = None
  Corrupt = Corrupt
  Faults = {"crash", "io", "net", "exec", "corrupt", "hold", "outside"}
  MaxFaults = 3
  MaxOffers = 2
INVARIANTS
  OnlyVerifiedRun
PROPERTIES
  Converges
