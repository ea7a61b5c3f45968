SPECIFICATION Spec
CONSTANTS
  base = base
  backup = backup
  None = None
  Servers = {base, backup}
  Policies <- MCPolicies
  FirstPolicy <- OnlyBase
  Conditions = {"ok", "down", "nodoc", "noroute", "banned"}
  MaxChanges = 2
  MaxLosses = 1
PROPERTY
  PreferenceStands
