SPECIFICATION Spec
CONSTANTS
    btc = btc
    eth = eth
    Rounds <- Markets
    SymbolOf <- TwoSymbols
    MaxIntents = 4
    EnvelopeTotal = 2
    Overlap = FALSE
INVARIANTS LedgerReplays
PROPERTIES EnvelopeKept TripIsForGood
