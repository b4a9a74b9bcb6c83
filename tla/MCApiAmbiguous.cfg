SPECIFICATION Spec
CONSTANTS
    Document = {"old", "new", "delta"}
    Chunk = {1, 2, 3, 4, 5}
    Held <- MCHeld
    Request = {"r1", "r2"}
    Collection <- MCCollection
    EmbedderDimensions = 1024
    Query = {"area", "height", "fee"}
    Nearest <- MCNearest
    Matching <- MCMatching
    Relevance <- MCRelevance
    DenseTopK = 2
    SparseTopK = 1
    PoolSize = 3
    RerankTopN = 2
    RrfK = 60
    MaxFaults = 1
    Registry <- MCRegistry
    ProvinceOf <- MCProvinceOf
    DomainTerms = {"sign"}
    OutOfScopeTerms = {"weather"}
    CompareMarkers = {"compare"}
    DefinitionMarkers = {"definition"}
    CivicNumbers = {"1", "123"}
    Text <- MCText
    QueryOf <- MCQueryOf
    Replies <- MCReplies
    Margins = {0, 1000}
    MaxRetries = 1
    RuleLocations <- MCRuleLocations
    Topics <- MCTopics
    TopicQuery <- MCTopicQuery
    CheckTopN = 2
    PermitTopN = 2
    Indexed = {"surrey", "vancouver"}
    Published <- MCPublished
    TTL = 1
    MaxClock = 2
    GisConfigs <- MCGisConfigs
    Abbreviation <- MCAbbreviation
    Traffic <- LonsdaleTraffic
    Verdicts <- MCVerdicts
CHECK_DEADLOCK FALSE
INVARIANT
    AmbiguousIsAsked
