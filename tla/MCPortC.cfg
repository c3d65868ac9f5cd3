SPECIFICATION Spec
CONSTANTS
    Cols = {1, 2, 3}
    Rows = {1, 2}
    Scanners = {keypad}
    PageSize = 2
    SectorSize = 4
    Sectors = 2
    Counts = {1}
    Data = {1, 2}
    Sliced = TRUE
INVARIANTS KeyTrue SectorsKept
CONSTRAINT Unmoved
