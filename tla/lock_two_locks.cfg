SPECIFICATION Spec
CONSTANTS
  Thread = {t1, t2}
  NoThread = NoThread
  Node = {1, 2, 3, 4, 5, 6, 7, 8}
  Null = Null
  MaxHeight = 2
  Head <- MCHead
  Tail <- MCTail
  Site <- MCSite
  Key = {1, 2}
  Value = {v1, v2}
  Length = {2}
  NoKey = NoKey
  NoValue = NoValue
SYMMETRY Symmetry
INVARIANT AtMostTwoLocks
