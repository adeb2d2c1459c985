CONSTANTS
  Blocks <- MCBlocks
  Genesis = 0
  Parent <- MCParent
  Ancestors <- MCAncestors
  Height <- MCHeight
  MaxQueue = 4
  MaxMoves = 2
  MaxStarts = 1
  MaxWaits = 1
  Null = Null
SPECIFICATION FairSpec
CHECK_DEADLOCK FALSE
INVARIANTS
    IndexConsistent
    NothingMissed
    WaiterServed
PROPERTIES
    CatchesUp
