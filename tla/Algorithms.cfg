\* Every input of each computation within its bounds.
CONSTANTS
    Accuracies = {0, 1, 10, 11, 50, 51}
    MaxEstimates = 4
    Cells = {c1, c2}
    MaxReport = 4
    N = 2
    Reach = 5
SPECIFICATION Spec
CHECK_DEADLOCK FALSE
INVARIANTS PlanSound AreaExact FusionSound OrderFree WeekWrapExact SatellitesMatched SolversExact Stage2Keeps
