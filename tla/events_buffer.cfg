SPECIFICATION Spec
CONSTANTS
  g1 = g1
  g2 = g2
  a1 = a1
  a2 = a2
  f1 = f1
  s = s
  st = st
  None = None
  Gens = {g1, g2}
  Available = {a1}
  Failed = {f1}
  Session = s
  Started = st
  Welcomes <- MCWelcomes
  TooLarge = {f1}
  BufferSize = 1
  MaxEmits <- TwoOne
INVARIANT
  BufferBounded
