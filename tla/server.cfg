SPECIFICATION Spec
CONSTANTS
    None = None
    Empty = Empty
    Junk = Junk
    Calls = {c1, c2}
    Operators = {"orange", "yas", "expresso"}
    Fixed = {"expresso"}
    Declarers = {"orange", "yas"}
    Users = {"orange", "yas", "stranger"}
    Secrets = {"dev", "s1"}
    UnportedRangesPerOperator = 2
    MaxPerRange = 4
    DefaultPoolPerOperator = 2
    FixedRangeSize = 1
    PortingDelay = 2
    RestitutionDelay = 4
    Today = 5
    MaxIncidents = 2
    UnportedRanges <- Unported
    HistoricalRanges <- Historical
    PortedRanges <- PortedTo
    PortedScenarios <- Scenarios
    Launches <- AllLaunches
    Tested <- SomeNumbers
    Micro = 2
    Milli = 4
    Second = 8
    Instants = {0, 1, 2, 3, 4, 5, 6, 7, 8, 9}
SYMMETRY ServerSymmetry
INVARIANTS
    TypeOK
    Precedence
    ServingIsComplete
    NeverPortedRangesArePortable
    OneOpenPerOperator
    StepsLetInBeforeTheFreeze
    RefusalsHideWhatIsBehind
    RenderingsAgree
PROPERTIES
    ReseedKeepsRegistry
    ThawedByItsDeclarant
