CONSTANTS
    Format <- MCFormat
    Std <- MCStd
    Accuracy <- MCAccuracy
    Pi <- MCPi
    HalfWord = 6
    Scaling = 16
    Jobs <- MCJobs
SPECIFICATION Spec
INVARIANTS
    ConformingDevicesPass
    EndpointsAreEarned
    OnlyOverflowsAreDropped
    RangesAreOrdered
CHECK_DEADLOCK FALSE
