CONSTANTS
  idP = idP
  P = P
  M = M
  C = C
  D = D
  E = E
  Tx = {P, M, C, D, E}
  Peer = {1, 2}
  Txid <- MCTxid
  Inputs <- MCInputs
  Weight <- MCWeight
  InputScore <- MCInputScore
  MAX_STANDARD_TX_WEIGHT = 4
  m_max_global_latency_score = 3
  m_reserved_usage_per_peer = 2
  Pays = {C, D}
  BadScript = {M}
  Stocks <- MCStocks
  Honest = {1}
  Blocks = {{P}, {P, C}}
  MAX_PEER_TX_ANNOUNCEMENTS = 4
  MaxConnects <- MCMaxConnects
  MaxTips = 2
SPECIFICATION FairSpec
CHECK_DEADLOCK FALSE
INVARIANTS
    OrphanageSane
PROPERTIES
    ShareProtected
    StrandedOnlyByErasure
    HonestTxAccepted
