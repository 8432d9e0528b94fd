CONSTANTS
  h1 = h1
  h2 = h2
  h3 = h3
  c1 = c1
  c2 = c2
  gn = gn
  ut_ = ut_
  Handler = {h1, h2}
  KeyOf <- ThreePorts
  Component = {c1}
  PortName = {gn, ut_}
  UtName = {ut_}
  Sender = {h1}
  Port = {1, 2, 3}
  Capture = Capture
  NoThread = NoThread
  MaxPackets = 2
  MaxCuts = 1
SPECIFICATION Spec
CHECK_DEADLOCK FALSE
INVARIANTS TypeOK MappedIsRegistered NoLeak NoCircularWait LateAnswerNeverResets
