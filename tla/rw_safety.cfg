SPECIFICATION Spec
CONSTANTS
  Thread = {t1, t2}
  NoThread = NoThread
  Node <- MCNode
  Null = Null
  MaxHeight = 3
  Head <- MCHead
  Tail <- MCTail
  Site <- MCSite
  Key = {1, 2}
  Value = {v1, v2}
  Length = {2}
  NoKey = NoKey
  NoValue = NoValue
INVARIANTS TypeOK LocksHeld MemorySafe Structure NoWaitCycle
PROPERTIES WritesGuarded Linearizable
SYMMETRY Symmetry
