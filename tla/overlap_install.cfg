SPECIFICATION Spec
CONSTANTS
  r = r
  s = s
  b = b
  i = i
  none = none
  d1 = d1
  d2 = d2
  d3 = d3
  d4 = d4
  d5 = d5
  d6 = d6
  NoId = none
  Restart = Restart
  Reboot = Reboot
  ReadOnly = {info}
  Deliveries = {d1, d3}
  Ids = {r, b, none}
  RingSize = 2
  IdOf <- MCIdOf
  NameOf <- MCNameOf
  Serial <- NothingSerial
  Mixes <- AnyMix
  Faults = {}
  RestartDue = 1
  RestartGrace = 2
  RebootDelay = 0
  MinNotice = 1
  RebootGrace = 1
  MaxHandOffs = 1
INVARIANTS
  NoInstallUnderCountdown
