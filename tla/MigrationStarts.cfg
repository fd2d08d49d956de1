SPECIFICATION MigrationSpec
CONSTANTS
    Procs = {p1, p2, p3}
    Names = {n1, n2}
    NoRow = NoRow
    MaxSaves = 2
    MaxStarts = 4
SYMMETRY Symmetry
INVARIANTS RowsAreKept LoneStartSucceeds
PROPERTY StrandedForGood
CHECK_DEADLOCK FALSE
