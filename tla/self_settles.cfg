SPECIFICATION FairSpec
CONSTANTS
  Versions = {1, 2, 3}
  First = 1
  Signed = {1, 2}
  MaxAttempts = 2
  Cooldown = 2
  Faults = {"crash", "read", "write", "net", "move", "launch", "hold", "slow"}
  MaxFaults = 2
  MaxOffers = 2
PROPERTIES
  LandsOrGivesUp
