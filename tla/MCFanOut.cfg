SPECIFICATION Spec
CONSTANTS
  f = f
  i1 = i1
  i2 = i2
  i3 = i3
  z = z
  run = run
  Root = run
  Node <- MCNode
  Kind <- MCKind
  Parent <- MCParent
  Slot <- MCSlot
  Pos <- MCPos
  Tolerant = {}
  Workers = 2
  MaxAttempts = 2
  MaxFaults = 1
  MaxInterrupts = 1
INVARIANTS StoredTreeLoads PoolDiscipline
PROPERTIES AbortIsFinal PoisonSilences
CHECK_DEADLOCK FALSE
