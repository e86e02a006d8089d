SPECIFICATION FairSpec
CONSTANTS
  f = f
  i1 = i1
  i2 = i2
  i3 = i3
  z = z
  run = run
  Root = run
  Node <- MCNode
  Kind <- MCKind
  Parent <- MCParent
  Slot <- MCSlot
  Pos <- MCPos
  Tolerant = {}
  Workers = 2
  MaxAttempts = 1
  MaxFaults = 1
  MaxInterrupts = 1
PROPERTIES RunsEnd
CHECK_DEADLOCK FALSE
