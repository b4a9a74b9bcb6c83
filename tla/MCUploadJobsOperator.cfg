SPECIFICATION Spec
CONSTANTS
    Municipality = {"surrey"}
    BylawBase = {100}
    YearLength = 2
    Undetected = Undetected
    File <- MCFile
    Printed <- MCPrinted
    DocId = {1, 2, 3}
    Absent = Absent
    Job = {j1}
    Province = {"BC", "AB"}
    ProvinceOf <- MCProvinceOf
    Stem = {"sign-bylaw"}
    Sanitised <- MCSanitised
    Form <- MCForm
    MaxRestarts = 1
CHECK_DEADLOCK FALSE
INVARIANT
    OperatorFieldsWin
