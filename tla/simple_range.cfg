SPECIFICATION Spec
CONSTANTS
  Caller = c
  Node <- MCNode
  Null = Null
  MaxHeight = 3
  Head <- MCHead
  Tail <- MCTail
  Site <- MCSite
  Key = {1, 2, 3}
  Value = {v1, v2}
  Length = {3}
  NoKey = NoKey
  NoValue = NoValue
PROPERTY RangeFindsFirstKey
CHECK_DEADLOCK FALSE
