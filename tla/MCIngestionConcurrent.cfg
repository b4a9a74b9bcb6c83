SPECIFICATION Spec
CONSTANTS
    Municipality = {"surrey"}
    BylawBase = {100}
    YearLength = 2
    Undetected = Undetected
    File <- MCFile
    Printed <- MCPrinted
    DocId = {1, 2, 3}
    Absent = Absent
    Worker = {w1, w2}
    Collection = {c1, c2}
    Batches = 1
    Request <- OnePath
    Correction = {"repealed"}
SYMMETRY Interchangeable
CONSTRAINT DrawnInOrder
CHECK_DEADLOCK FALSE
INVARIANTS
    TypeOK
    AtMostOneActive
    DocumentsAreWhole
    OneRowPerContent
PROPERTIES
    HumanVerdictKept
    ContentNeverLost
