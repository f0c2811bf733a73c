SPECIFICATION Spec
CONSTANTS
  n0 = n0
  n1 = n1
  n2 = n2
  n3 = n3
  v1 = v1
  MaxHeight = 2
  NoKey = NoKey
  NoValue = NoValue
  Null = Null
  Key <- MCKey
  Value <- MCValue
  Length = {0}
  Node <- MCNode
  First = n0
  ArraySize = 4
  Copy <- MCCopy
  MaxLost = 1
INVARIANTS
  OwnedOnce
  Represents
CHECK_DEADLOCK FALSE
