CONSTANTS
  Blocks <- MCBlocks
  Genesis = 0
  Parent <- TwoBranches
  Ancestors <- TwoBranchesAncestors
  Work <- TwoBranchesWork
  Address <- MCAddress
  BadCheck = {2}
  BadConnect = {4}
  Threads = {t1, t2}
  MaxOps = 2
  Ops = {"invalidate", "precious", "reconsider"}
  Null = Null
SPECIFICATION FairSpec
CHECK_DEADLOCK FALSE
INVARIANTS
    CheckBlockIndex
    ActiveChainUsable
    TipIsBest
PROPERTIES
    KeyStable
    ForwardProgress
    HolderReturns
    BetterChainActivated
