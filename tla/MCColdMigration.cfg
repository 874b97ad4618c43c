SPECIFICATION MigrationSpec
CONSTANTS
    p1 = p1
    p2 = p2
    m = m
    n = n
    o1 = o1
    o2 = o2
    Files = {p1, p2, m}
    Parquet = {p1, p2}
    Fresh = {n}
    Operators = {o1, o2}
    Crossing = FALSE
    MaxDecays = 1
SYMMETRY Symmetry
INVARIANT HeadsResolve
PROPERTIES LastCopyStays
CHECK_DEADLOCK FALSE
