SPECIFICATION Spec
CONSTANTS
  Versions = {1, 2, 3}
  First = 1
  Signed = {1, 2}
  MaxAttempts = 2
  Cooldown = 2
  Faults = {"crash", "write", "net", "move", "launch", "hold"}
  MaxFaults = 3
  MaxOffers = 1
INVARIANTS
  TypeOK
  LaunchesBounded
  OneSetupPerRelease
