SPECIFICATION Spec
CONSTANTS
    MaxPids = 4
    MaxFailures = 5
    Faults <- MCFaults
PROPERTIES
    SpawnsAlone
    StopHolds
    CollectsAgain
