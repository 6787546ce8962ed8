CONSTANTS
    b1 = b1
    b2 = b2
    b3 = b3
    Background = {b1, b2, b3}
    NumForeground = 1
    Actions <- MCActions
    Cap = 2
    NumGuards = 1
    MinBreaches <- MCMinBreaches
    HasHypothesis = TRUE
    HasLoad = TRUE
    Strategy = "OnDeviation"
SPECIFICATION FairSpec
INVARIANTS BlastRadiusBounded CleanupSound HaltIsEarned CancelledHasNoVerdict
PROPERTIES KeepsContract RunnerEnds
