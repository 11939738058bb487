SPECIFICATION ModerationSpec
CONSTANTS
    m1 = m1
    m2 = m2
    Moderators <- TwoModerators
    Verdicts = {}
    MaxDecisions = 1
    MaxUnmarked = 1
SYMMETRY ModerationSymmetry
INVARIANT AppliedToEligibleOnly
CHECK_DEADLOCK FALSE
