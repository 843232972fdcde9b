SPECIFICATION Spec
CONSTANTS
  Clients = {c1, c2}
  Slow = {c2}
  c1 = c1
  c2 = c2
  MaxFrames = 3
INVARIANTS SleeperIsCurrent
PROPERTIES NeverBack NewestDelivered
