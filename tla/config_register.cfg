SPECIFICATION FairSpec
CONSTANTS
  Null = Null
  Config <- MCConfig
  Docs <- MCDocs
  Urls = {"pub", "lan"}
  Hosts <- MCHosts
  Machine <- MCMachine
  Conns = {}
  Clients = {2}
  DiskFaults = TRUE
  MaxNow = 1
  MaxChanges = 3
  MaxRestarts = 1
INVARIANTS
  SubsetsCovered
  RoundTrip
PROPERTIES
  ImplementsRegister
  Adopts
  PauseEnds
