SPECIFICATION Spec
CONSTANTS
    early = early
    late = late
    p1 = p1
    p2 = p2
    Procs <- Workers
    Vintages = {early, late}
    Planned = {early}
    Start <- Starts
    End <- Ends
    Horizon = 3
    MaxHeads = 3
    MaxLag = 1
SYMMETRY Symmetry
INVARIANTS
    SealedIsUnseen
    LabelsOpenedOnce
    VerdictOverAllRows
PROPERTIES
    ImplementsLifecycle
CHECK_DEADLOCK FALSE
