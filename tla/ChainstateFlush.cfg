CONSTANTS
  Blocks <- MCBlocks
  Genesis = 0
  Parent <- MCParent
  Ancestors <- MCAncestors
  Height <- MCHeight
  Outpoints <- MCOutpoints
  Spends <- MCSpends
  Adds <- MCAdds
  Passes <- MCPasses
  Utxo <- MCUtxo
  MaxUnsynced = 2
  MaxCrashes = 2
  Null = Null
SPECIFICATION FairSpec
INVARIANTS
    DiskConsistent
    CacheAtTip
    SameTransition
PROPERTIES
    Recovers
