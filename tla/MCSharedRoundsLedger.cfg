SPECIFICATION Spec
CONSTANTS
    btc = btc
    eth = eth
    Rounds <- Markets
    SymbolOf <- TwoSymbols
    MaxIntents = 2
    EnvelopeTotal = 2
    Overlap = TRUE
INVARIANTS LedgerReplays
