SPECIFICATION Spec
CONSTANTS
  Versions = {1, 2, 3}
  First = 1
  Signed = {1, 2, 3}
  MaxAttempts = 2
  Cooldown = 2
  Faults = {}
  MaxFaults = 0
  MaxOffers = 1
INVARIANTS
  OneSetupAtATime
