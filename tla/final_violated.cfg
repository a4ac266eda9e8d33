SPECIFICATION Spec
CONSTANTS
    orange = orange
    yas = yas
    expresso = expresso
    n1 = n1
    n2 = n2
    n3 = n3
    p1 = p1
    p2 = p2
    None = None
    Operators = {orange, yas, expresso}
    Requests = {p1}
    Numbers = {n1}
    Calls = {c1, c2}
    Portfolio <- PortingPortfolio
    Registry <- HomeRegistry
    Deferred = FALSE
    StepTimeout = FALSE
    Declarers = {}
    Purgers = {}
    MaxFaults = 0
SYMMETRY CallSymmetry
PROPERTIES
    FinalStatusIsFinal
