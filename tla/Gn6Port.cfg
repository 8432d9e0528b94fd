CONSTANTS
  Packet = {p1, p2, p3}
  NoPacket = NoPacket
SPECIFICATION FairSpec
INVARIANTS TypeOK NoPacketTwice SwallowsAnswersOnly RemoteForgets
PROPERTY DisposeEnds
CHECK_DEADLOCK FALSE
