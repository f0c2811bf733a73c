SPECIFICATION Spec
CONSTANTS
  Thread = {t1}
  NoThread = NoThread
  Spare = 4
  Node <- MCNode
  Null = Null
  MaxHeight = 3
  ArraySize = 3
  First <- MCFirst
  Last <- MCLast
  Site <- MCSite
  Key = {1, 2, 3}
  Value = {v1}
  Length = {0, 3}
  NoKey = NoKey
  NoValue = NoValue
INVARIANT DownStartsWithKey
PROPERTY Linearizable
