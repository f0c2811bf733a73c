SPECIFICATION Spec
CONSTANTS
  Thread = {t1, t2}
  NoThread = NoThread
  Spare = 3
  Node <- MCNode
  Null = Null
  MaxHeight = 2
  ArraySize = 2
  First <- MCFirst
  Last <- MCLast
  Site <- MCSite
  Key = {1, 2}
  Value = {v1, v2}
  Length = {2}
  NoKey = NoKey
  NoValue = NoValue
INVARIANTS TypeOK LocksHeld LevelsSorted DownStartsWithKey MemorySafe
PROPERTIES WritesGuarded Linearizable
SYMMETRY Symmetry
