CONSTANTS
  Clients = {c1, c2}
  Servers = {s1, s2}
  Flusher = Flusher
  MaxInserts = 4
SPECIFICATION FairSpec
INVARIANTS
    NoneStranded
PROPERTIES
    ImplementsSerialQueue
    AllRun
