CONSTANTS
  Block = {b1, b2, b3}
  NoBlock = NoBlock
  MaxSeqno = 4
  Horizon = 3
  MMPM = 1
  Part = {p1}
  Value = {v1}
  Zero = Zero
  Cipher = Cipher
  Shapes <- ShapesMin
  ErrorCheck = FALSE
SPECIFICATION Scubed3Spec
SYMMETRY Symmetry
INVARIANT DummyWrite
