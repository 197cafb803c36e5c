SPECIFICATION Spec
CONSTANTS
    Files = {f}
    PlainFiles = {}
    AllFiles = {}
    Tags = {}
    AllAttempts = 2
    MaxTests = 1
    MaxDevices = 1
    MaxScopes = 1
    Losses = FALSE
    Refusals = FALSE
    Timeouts = FALSE
    LateErrors = FALSE
    ThrowingBodies = FALSE
    f = f
INVARIANTS
    ErrorsFailTheTest
\* The process ends.
CHECK_DEADLOCK FALSE
