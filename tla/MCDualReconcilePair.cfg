SPECIFICATION Spec
CONSTANTS
    own = own
    foreign = foreign
    Orders <- Both
    Ours <- OwnOnly
    Lots = 1
    FailureLimit = 2
    ErrorLimit = 1
    MaxDrops = 1
PROPERTIES ForeignIsUnexplained
