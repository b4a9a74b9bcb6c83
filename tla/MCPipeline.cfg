SPECIFICATION Spec
CONSTANTS
    TargetTokens = 5
    MaxTokens = 8
    OverlapTokens = 2
    MinTokens = 3
    HeadingTokens = 1
    EmitParents = TRUE
    SplitDefinitions = TRUE
    MinChars = 100
    OcrThreshold = 50
    OcrEnabled = TRUE
    Document <- MCDocument
    OcrOutcome <- MCOcrOutcome
CHECK_DEADLOCK FALSE
INVARIANTS
    TypeOK
    TreeIsWellFormed
    ChunksKeepToTheirSection
    TextIsIndexed
    TableTextIsIndexedOnce
    StoredUnderItsSection
PROPERTY
    OcrOnlyImproves
