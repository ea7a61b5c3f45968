SPECIFICATION Spec
CONSTANTS
  Versions = {1, 2}
  First = 1
  Signed = {1, 2}
  MaxAttempts = 2
  Cooldown = 1
  Faults = {"read"}
  MaxFaults = 3
  MaxOffers = 0
INVARIANTS
  LaunchesBounded
