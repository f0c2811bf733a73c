SPECIFICATION FairSpec
CONSTANTS
  Thread = {t1, t2, t3}
  NoThread = NoThread
  NumTries = 3
INVARIANT MutualExclusion
PROPERTIES ImplementsMutex SomeoneGetsIn
