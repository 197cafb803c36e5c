SPECIFICATION Spec
CONSTANTS
    Suite <- MCSuite
    Gpus = {"conforming", "reordering", "torn"}
    X <- MCX
    Testing <- MCTesting
    Most <- MCMost
    PermuteFirst <- MCPermuteFirst
    PermuteSecond <- MCPermuteSecond
    ScratchMemorySize = 1
    StressLineSize = 1
    StressTargetLines = 1
    Quantum = 4
    SpinLimit = 1
    Iterations = 2
INVARIANTS
    NoFalseAlarm
    VerdictsAreExact
    EveryInstanceIsCounted
PROPERTIES
    TestEnds
