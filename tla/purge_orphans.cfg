SPECIFICATION Spec
CONSTANTS
    orange = orange
    yas = yas
    n1 = n1
    n2 = n2
    None = None
    Operators = {orange, yas}
    Numbers = {n1, n2}
    OTPMaxAttempts = 2
    OTPTTL = 1
    PortingDelay = 2
    RestitutionDelay = 2
    Calls = {c1}
    Purgers = {orange}
    Origin <- HomeOrigin
    Registry <- AwayRegistry
    Inputs <- ReturnInputs
    AutoValidation = FALSE
    Start = 2
    MaxNow = 2
    MaxSends = 0
    MaxRequests = 1
    MaxReverses = 1
INVARIANTS
    NoOrphanedReverse
