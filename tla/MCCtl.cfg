SPECIFICATION CtlSpec
CONSTANTS
  Name = {n1, n2}
  Place = {p1, p2}
  None = None
  Total = 2
SYMMETRY Symmetry
INVARIANTS
  CtlTypeOK
  OneUser
  MountpointTrue
  ExitTruthful
