SPECIFICATION Spec
CONSTANTS
    Municipality = {"surrey"}
    BylawBase = {100}
    YearLength = 2
    Undetected = Undetected
    File <- MCFile
    Printed <- MCPrinted
    DocId = {1, 2}
    Absent = Absent
    Worker = {w1, w2}
    Collection = {c1}
    Batches = 1
    Request <- OnePath
    Correction = {}
CHECK_DEADLOCK FALSE
INVARIANT
    OneInForceAtRest
