SPECIFICATION Spec
CONSTANTS
    Outpoints = {o1, o2}
    c1 = c1
    c2 = c2
    Coins <- MCCoins
    Spent = Spent
    Usage <- MCUsage
INVARIANTS
    FlagsSound
    SanityCheck
PROPERTIES
    ImplementsUtxoSet
