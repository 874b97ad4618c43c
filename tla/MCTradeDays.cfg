SPECIFICATION FairSpec
CONSTANTS
    a = a
    b = b
    c = c
    d = d
    Last = 5
    Days = 2
    TradesOf <- Stream
    DayOf <- Dates
    Window = 1
    MaxMishaps = 1
INVARIANT ActiveOnce
PROPERTIES ImplementsFacts SealedIsActive DaysMerge
