CONSTANTS
    Gamedays = {g1, g2}
    Parents = {p1, p2}
    Children = {1, 2, 3}
    Steps <- MCSteps
    ThresholdNum = 1
    ThresholdDen = 2
    None = None
    MaxCrashes = 1
    StoreMayFail = TRUE
SPECIFICATION Spec
SYMMETRY Symmetry
INVARIANTS OneActiveCampaign CampaignSound
