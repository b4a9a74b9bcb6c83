SPECIFICATION Spec
CONSTANTS
    Municipality = {"surrey", "coquitlam"}
    BylawBase = {100, 200}
    YearLength = 2
    Undetected = Undetected
    File <- MCFile
    Printed <- MCPrinted
    DocId = {1, 2, 3}
    Absent = Absent
    Correction = {"in_force"}
INVARIANTS
    TypeOK
    OneInForcePerBylaw
    LastAmendmentIsReal
    EdgesStayInMunicipality
    VersionEdgesHaveOneHead
    AmendmentFoldedByYear
PROPERTIES
    SupersededIsExplained
    BylawStaysAnswerable
    NoResurrection
