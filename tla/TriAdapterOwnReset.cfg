CONSTANTS
  h1 = h1
  h2 = h2
  h3 = h3
  c1 = c1
  c2 = c2
  gn = gn
  ut_ = ut_
  Handler = {h1, h3}
  KeyOf <- ThreePorts
  Component = {c1, c2}
  PortName = {gn}
  UtName = {}
  Sender = {}
  Port = {1, 2, 3}
  Capture = Capture
  NoThread = NoThread
  MaxPackets = 1
  MaxCuts = 0
SPECIFICATION FairSpec
CHECK_DEADLOCK FALSE
PROPERTY ResetCompletes
