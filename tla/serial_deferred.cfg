SPECIFICATION Spec
CONSTANTS
    orange = orange
    yas = yas
    expresso = expresso
    n1 = n1
    n2 = n2
    n3 = n3
    p1 = p1
    p2 = p2
    None = None
    Operators = {orange, yas, expresso}
    Requests = {p1, p2}
    Numbers = {n1, n2, n3}
    Calls = {c1}
    Portfolio <- ExcludingPortfolio
    Registry <- ExcludingRegistry
    Deferred = TRUE
    StepTimeout = FALSE
    Declarers = {}
    Purgers = {expresso}
    MaxFaults = 1
INVARIANTS
    RejectedNumbersStay
    NoEmptyFleetInProgress
    RegistryFollowsHistory
    QueuesCoverGuards
    ClientAfterConfirming
PROPERTIES
    FinalStatusIsFinal
    ImplementsPromised
