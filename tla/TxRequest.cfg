CONSTANTS
  a = a
  b = b
  c = c
  x = x
  Peer = {a, b, c}
  TxHash = {x}
  Preferred = {b}
  Salt <- MCSalt
  TopBit = 8
  ReqDelays = {0, 2}
  ExpiryInterval = 2
  MaxBack = 1
  Null = Null
SPECIFICATION FairSpec
INVARIANTS
    TrackerSane
PROPERTIES
    ImplementsRules
    NotStarved
