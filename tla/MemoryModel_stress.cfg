SPECIFICATION Spec
CONSTANTS
    Suite <- StressSuite
    Gpus = {"conforming"}
    X <- MCX
    Testing <- MCTesting
    Most <- MCMost
    PermuteFirst <- MCPermuteFirst
    PermuteSecond <- MCPermuteSecond
    ScratchMemorySize = 4
    StressLineSize = 2
    StressTargetLines = 2
    Quantum = 4
    SpinLimit = 1
    Iterations = 2
INVARIANTS
    StressGoesWhereChosen
