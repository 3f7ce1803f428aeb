SPECIFICATION Spec
CONSTANTS
    N = 4
    Inputs <- MCInputs
INVARIANTS TypeOK DependenciesFirst EachOnce OnlyCyclesAreLeft NoneIsLost InPromisedOrder
PROPERTIES Completes
CHECK_DEADLOCK FALSE
