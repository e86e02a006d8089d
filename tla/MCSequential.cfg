SPECIFICATION Spec
CONSTANTS
  b = b
  b1 = b1
  b2 = b2
  w = w
  l = l
  l1 = l1
  l2 = l2
  x = x
  run = run
  Root = run
  Node <- MCNode
  Kind <- MCKind
  Parent <- MCParent
  Slot <- MCSlot
  Pos <- MCPos
  Tolerant <- MCTolerant
  Workers = 1
  MaxAttempts = 3
  MaxFaults = 1
  MaxInterrupts = 1
INVARIANTS NeverRefused StatusMatchesTree ResumePoint ContextRestored
PROPERTIES NoRepeat FrozenExpansion LogFollowsCheckpoint ImplementsLifecycle
CHECK_DEADLOCK FALSE
