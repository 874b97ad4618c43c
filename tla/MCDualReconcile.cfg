SPECIFICATION Spec
CONSTANTS
    own = own
    foreign = foreign
    Orders <- OwnOnly
    Ours <- OwnOnly
    Lots = 2
    FailureLimit = 2
    ErrorLimit = 2
    MaxDrops = 1
INVARIANTS TypeOK ViewIsReal
PROPERTIES ViewOnlyAdvances ClosedIsSeen FillsAreSeen
