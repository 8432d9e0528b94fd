CONSTANTS
  Header = {b1, b2}
  NoHeader = NoHeader
  MaxPorts = 2
SPECIFICATION FairSpec
INVARIANTS TypeOK BeaconsWereAsked WaitsForEnding
PROPERTY RequestsEnd
