CONSTANTS
  Client = {c1, c2}
  Mtc = mtc
  NPoints = 2
  MaxNonSync = 1
SPECIFICATION Spec
INVARIANT OtherPortsAreIgnored
