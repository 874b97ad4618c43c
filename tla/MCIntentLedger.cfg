CONSTANTS
    i1 = i1
    i2 = i2
    i3 = i3
    btc = btc
    eth = eth
    Intents = {i1, i2, i3}
    Symbols = {btc, eth}
    SymbolOf <- OneAlone
    OrderIds = {101}
    NoOrder = 0
    NoIntent = NoIntent
    MaxRows = 6
SPECIFICATION Spec
SYMMETRY Symmetry
INVARIANTS
    NeverCorrupt
    MemoryIsDurable
    OrderOfOneIntent
PROPERTIES
    FragmentsKept
    ImplementsLifecycle
