CONSTANTS
  Client = {c1, c2}
  Mtc = mtc
  NPoints = 2
  MaxNonSync = 1
SPECIFICATION FairSpec
INVARIANT Barrier
INVARIANT StopExcludesReady
INVARIANT PassIsEarned
PROPERTY TestCaseEnds
PROPERTY ImplementsBarrier
