CONSTANTS
  Block = {b1, b2, b3}
  NoBlock = NoBlock
  MaxSeqno = 5
  Horizon = 4
  Shapes <- ShapesGrowing
  MaxFailures = 2
SPECIFICATION PowerLossSpec
VIEW View
SYMMETRY Symmetry
INVARIANTS
  BlockioTypeOK
  
  ScheduleSurvives
  WarningMeansDamage
PROPERTY SeqnoFresh
