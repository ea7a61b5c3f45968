SPECIFICATION Spec
CONSTANTS
  a = a
  b = b
  c = c
  Builds = {a, b}
  VersionOf <- MCVersionOf
  FirstOffer <- MCFirstOffer
  None = None
  Corrupt = Corrupt
  Faults = {"hold"}
  MaxFaults = 1
  MaxOffers = 1
PROPERTIES
  KilledOnlyToInstall
