SPECIFICATION Spec
CONSTANTS
    btc = btc
    eth = eth
    Rounds <- Markets
    SymbolOf <- OneSymbol
    MaxIntents = 3
    EnvelopeTotal = 2
    Overlap = TRUE
INVARIANTS OneSenderPerSymbol GatesSeeLoaded
