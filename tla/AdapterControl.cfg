SPECIFICATION Spec
CONSTANTS
  Component = {c1, c2}
  Neighbour = {n1, n2}
  None = None
  Wrap = 2
  Polls = 2
  Tac = 3
  MaxTime = 2
  MaxRequests = 2
SYMMETRY Symmetry
INVARIANTS
  EntryIsNewest
  NoLateAnswer
  OnlyADeadThreadTimesOut
  FailureIsHonest
  BeaconsWereAskedFor
PROPERTIES
  ImplementsRegister
CHECK_DEADLOCK FALSE
