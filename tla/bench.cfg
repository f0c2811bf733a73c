SPECIFICATION BenchSpec
CONSTANTS
  Thread = {0, 1}
  LoadSize = 3
  LoadKeys <- MCLoadKeys
  Operations = 2
  NoThread = NoThread
  Spare = 4
  Node <- MCNode
  Null = Null
  MaxHeight = 2
  ArraySize = 2
  First <- MCFirst
  Last <- MCLast
  Site <- MCSite
  Key = {1, 2}
  Value = {0, 1, 2}
  Length = {2}
  NoKey = NoKey
  NoValue = NoValue
INVARIANTS OnlyEmptiedNodesLeak LoadedKeysAreFound
PROPERTY Completes
CHECK_DEADLOCK FALSE
