SPECIFICATION Spec
CHECK_DEADLOCK FALSE
CONSTANTS
    UnknownVerdict = "Gap"
    Levels = {60, 90}
    NoClauseLevel = 20
    MidLevel = 50
    ReviewThreshold = 75
    TrancheEdges <- MCTrancheEdges
    MinN = 2
    FoldOf <- MCFoldOf
    MaxExtra = 0
    Passes = {1, 2}
    MaxCalls = 2
    Gold <- MCGold
    Validated <- MCValidated
    CitedClauses <- MCClauses
    Flaky = {"R2"}
    Attempts = 2
    Frozen <- MCFrozen
    MaxRuns = 2
    MaxKills = 1
    Commands <- MCCommands
    Sampled <- MCSampled
INVARIANT ReviewFlagIsTheProducts
