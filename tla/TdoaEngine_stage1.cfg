\* Exact measurements on a grid of 13 by 13.
CONSTANTS
    N = 6
SPECIFICATION Spec
CHECK_DEADLOCK FALSE
INVARIANTS TruePositionSolves
