CONSTANTS
  Block = {b1, b2}
  NoBlock = NoBlock
  MaxSeqno = 4
  Horizon = 2
  MMPM = 3
  Part = {p1}
  Value = {v1, v2}
  Zero = Zero
  Cipher = Cipher
  Shapes <- ShapesGC
  ErrorCheck = FALSE
SPECIFICATION Scubed3Spec
SYMMETRY Symmetry
INVARIANTS
  NoDuplicates

  
