SPECIFICATION Spec
CONSTANTS
    MinArea = 0
    MinShare = 1
    TopN = 1
    RecallN = 2
    Generic = 20
    Words <- MCWords
    Workers = {w1, w2}
    Replies <- MCReplies
    Rankings <- MCRankings
    MaxFaults = 1
    Names <- MCNames
    TypeVri <- MCTypeVri
    Bands <- MCBands
    BandFallback = 20
    ServiceVri <- MCServiceVri
    FunctionalZones = {7, 8}
    Ground = {1, 2, 3, 4, 5, 6}
    SzzWidth <- MCSzzWidth
    Sensitive = {351}
    MinOverlap = 50
    Template <- MCTemplate
    ReviewLimit = 2
    Clients = {c1, c2}
    Contents <- MCContents
    MaxLost = 1
    Callers = {c1, c2}
    Editions <- MCEditions
    ParentType <- MCParentType
    ByPrefix <- MCByPrefix
    ModelAnswers <- MCModelAnswers
    MaxExpiries = 1
    MaxFailures = 1
    Requests <- MCRequests
    ScenarioAsks <- MCScenarioAsks
    RegulationAsks <- MCRegulationAsks
    Queries <- MCQueries
    Meanings <- MCMeanings
    Targets <- MCTargets
    NumericMapping <- MCNumericMapping
    DefaultTemplates <- MCDefaultTemplates
    Graph <- MCGraph
    Deterministic = FALSE
INVARIANTS
    SameQuestionSameAnswer
    RefusedOnEvidence
    RefusalMatchesReference
    AcceptedCanRun
    PlacementPartitions
    AllowedOnBoth
    ServedFits
    MappingFitsZones
    ModelAskedOnce
    ViewsAgree
