SPECIFICATION Spec
CONSTANTS
  Caller = c
  Node <- MCNode
  Null = Null
  MaxHeight = 3
  Head <- MCHead
  Tail <- MCTail
  Site <- MCSite
  Key = {1, 2, 3}
  Value = {v1, v2}
  Length = {0, 3}
  NoKey = NoKey
  NoValue = NoValue
INVARIANTS Structure MemorySafe NoNodeLeaks
PROPERTIES EveryCallReturns ImplementsMap
CHECK_DEADLOCK FALSE
