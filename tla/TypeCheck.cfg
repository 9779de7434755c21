SPECIFICATION Spec
CONSTANTS
    MaxGenericDepth = 3
    Constraints <- TheConstraints
    VarKinds <- TheKinds
    GroundTypes <- TheGroundTypes
    MaxUnifications = 3
    Matches <- TheMatches
    Payloads <- ThePayloads
    SpaceParams <- TheSpaceParams
    CaseOrder <- TheCaseOrder
    LiteralValues = {"0", "1", "2"}
    Budgets = {3, 8, 1000}
    MaxPatternDepth = 4
    DeclarationSets <- TheDeclarations
    DeclOrder <- TheDeclOrder
    MaxLayoutDepth = 7
    Protocols <- TheProtocols
    Aggregates <- TheAggregates
    ExtendLists <- TheExtendLists
    Queries <- TheQueries
    MaxQueries = 2
    MaxCapabilityDepth = 2
    MaxSteps = 9
INVARIANTS
    UnifierIsPrincipal
    MatchIsDecidedExactly
    EveryLayoutIsFinite
    EvidenceIsCoherent
