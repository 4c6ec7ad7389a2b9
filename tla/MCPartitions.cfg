CONSTANTS
  b1 = b1
  b2 = b2
  b3 = b3
  Infos <- MCInfos
  Part = {p, q}
  Null = Null
  StartSize = 2
  Word = 32
  MesoSize = 4
  MMPM = 3
  Shapes <- MCShapes
  MaxSeqno = 2
SPECIFICATION PartitionsSpec
SYMMETRY Symmetry
INVARIANTS
  PartitionsTypeOK
  ListsSound
  OwnershipExact
  ClaimsDisjoint
  OpenNeverDies
  RequestsTiled
PROPERTY CloseKeepsSize
