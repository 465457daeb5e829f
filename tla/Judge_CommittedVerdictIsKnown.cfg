SPECIFICATION Spec
CONSTANTS
    Stems <- MCStems
    Modals <- MCModals
    SalientStems <- MCSalient
    MinQuoteWords = 4
    MinSharedTerms = 2
    MinCoverage = 40
    Requirement <- MCRequirement
    Clauses <- MCClauses
    Quotes <- MCQuotes
    UnknownVerdict = "Gap"
    Levels = {60, 100}
    NoClauseLevel = 20
    MidLevel = 50
    TrancheEdges <- MCTrancheEdges
    MinN = 10
    Calibrations <- MCCalibrations
    ReviewThreshold = 75
INVARIANT
    CommittedVerdictIsKnown
