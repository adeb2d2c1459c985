CONSTANTS
  Blocks <- MCBlocks
  Genesis = 0
  Parent <- MCParent
  Ancestors <- MCAncestors
  Height <- MCHeight
  MaxQueue = 4
  MaxMoves = 2
  MaxStarts = 1
  MaxWaits = 1
  Null = Null
SPECIFICATION Spec
INVARIANT RewindSucceeds
CHECK_DEADLOCK FALSE
