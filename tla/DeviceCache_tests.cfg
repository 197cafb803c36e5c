SPECIFICATION Spec
CONSTANTS
    Files = {f, g, h}
    PlainFiles = {h}
    AllFiles = {g}
    Tags = {t}
    AllAttempts = 2
    MaxTests = 3
    MaxDevices = 3
    MaxScopes = 1
    Losses = TRUE
    Refusals = TRUE
    Timeouts = TRUE
    LateErrors = TRUE
    ThrowingBodies = TRUE
    f = f
    g = g
    h = h
    t = t
INVARIANTS
    ObjectsAreOfTheTestsDevice
    ObjectsDieFirst
    LostDevicesAreRetired
    NothingLeaks
    FailuresAreExplained
    RecordedErrorsCount
\* The process ends; bounded devices may also leave a request unanswered.
CHECK_DEADLOCK FALSE
