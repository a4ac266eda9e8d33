SPECIFICATION Spec
CONSTANTS
    orange = orange
    yas = yas
    n1 = n1
    n2 = n2
    None = None
    Operators = {orange, yas}
    Numbers = {n1, n2}
    OTPMaxAttempts = 2
    OTPTTL = 1
    PortingDelay = 2
    RestitutionDelay = 2
    Calls = {c1, c2}
    Purgers = {}
    Origin <- GuestOrigin
    Registry <- GuestRegistry
    Inputs <- CreationInputs
    AutoValidation = FALSE
    Start = 1
    MaxNow = 2
    MaxSends = 1
    MaxRequests = 2
    MaxReverses = 0
SYMMETRY CallSymmetry
INVARIANTS
    TypeOK
    OneRequestPerNumber
    OnePasswordOneRequest
    AttemptsBounded
PROPERTIES
    MovesAreSpaced
