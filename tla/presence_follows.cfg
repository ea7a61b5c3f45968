SPECIFICATION FairSpec
CONSTANTS
  base = base
  backup = backup
  None = None
  Servers = {base, backup}
  Policies <- MCPolicies
  FirstPolicy <- AtSite
  Conditions = {"ok", "down", "nodoc", "noroute", "banned"}
  MaxChanges = 2
  MaxLosses = 1
PROPERTIES
  SameServer
  SwitchedOff
  NoStorm
