CONSTANTS
  Block = {b1, b2, b3}
  MaxSeqno = 5
  Horizon = 4
SPECIFICATION ListSpec
INVARIANTS
  ListOrdered
  AvailableExact
PROPERTY ImplementsJuggler
