CONSTANTS
    Gamedays = {g1}
    Parents = {p1, p2}
    Children = {1, 2, 3, 4}
    Steps <- MCSteps
    ThresholdNum = 1
    ThresholdDen = 2
    None = None
    MaxCrashes = 0
    StoreMayFail = FALSE
SPECIFICATION FairSpec
INVARIANT OneStepAtATime
PROPERTIES CampaignsSettle
