SPECIFICATION Spec
CONSTANTS
  Null = Null
  Config <- MCConfig
  Docs <- TellDocs
  Urls = {"pub", "lan"}
  Hosts <- MCHosts
  Machine <- MCMachine
  Conns = {c1, c2}
  Clients = {2}
  DiskFaults = TRUE
  MaxNow = 0
  MaxChanges = 2
  MaxRestarts = 1
SYMMETRY Symmetry
INVARIANT
  ToldForward
