SPECIFICATION Spec
CONSTANTS
    Municipality = {"surrey"}
    BylawBase = {100}
    YearLength = 2
    Undetected = Undetected
    File <- MCFile
    Printed <- MCPrinted
    DocId = {1, 2, 3}
    Absent = Absent
    Worker = {w1}
    Collection = {c1, c2}
    Batches = 2
    Request <- UpToTwoPaths
    Correction = {"in_force", "repealed"}
CHECK_DEADLOCK FALSE
PROPERTY
    KeepsPromise
