CONSTANTS
    Format <- MCFormat
    Std <- MCStd
    Accuracy <- MCAccuracy
    Pi <- MCPi
    HalfWord = 6
    Scaling = 16
    Jobs <- MCSubnormalJobs
SPECIFICATION Spec
INVARIANTS
    SubnormalsAreSkipped
CHECK_DEADLOCK FALSE
