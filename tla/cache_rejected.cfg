SPECIFICATION Spec
CONSTANTS
  Null = Null
  Config <- MCConfig
  Docs <- RollbackDocs
  Urls = {"pub", "lan"}
  Hosts <- MCHosts
  Machine <- MCMachine
  Conns = {}
  Clients = {2}
  DiskFaults = FALSE
  MaxNow = 1
  MaxChanges = 1
  MaxRestarts = 1
INVARIANT
  CacheLoads
