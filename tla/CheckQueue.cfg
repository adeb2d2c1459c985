CONSTANTS
  Workers = {w1, w2}
  Master = Master
  nBatchSize = 2
  MaxRounds = 2
  MaxAdds = 2
  MaxChecks = 2
  None = None
SPECIFICATION FairSpec
INVARIANTS
    ChecksFreed
PROPERTIES
    RoundVerdict
    CallsReturn
