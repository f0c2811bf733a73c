SPECIFICATION ClientSpec
CONSTANTS
  t1 = t1
  t2 = t2
  Thread <- MCThread
  MaxCalls <- MCMaxCalls
  NoThread = NoThread
  Node = {1, 2, 3, 4, 5, 6, 7, 8, 9, 10, 11, 12}
  Null = Null
  MaxHeight = 3
  Head <- MCHead
  Tail <- MCTail
  Site <- MCSite
  Key = {1, 2}
  Value = {v1}
  Length = {1}
  NoKey = NoKey
  NoValue = NoValue
INVARIANT NoNodeLeaks
PROPERTY EveryCallReturns
CHECK_DEADLOCK FALSE
