SPECIFICATION FairSpec
CONSTANTS
  a = a
  b = b
  c = c
  Builds = {a, b, c}
  VersionOf <- MCVersionOf
  FirstOffer <- MCFirstOffer
  None = None
  Corrupt = Corrupt
  Faults = {}
  MaxFaults = 0
  MaxOffers = 2
PROPERTIES
  CriticalInstalled
