SPECIFICATION Spec
CONSTANTS
    Terms = {"report", "timer"}
    WindowChars = 4
    MaxBulletExtension = 2
    MaxNotes = 1
    Expected = {0, 1}
    Extracts = {0, 1, 2}
    MatchThreshold = 60
    Number = {1, 3, 5}
    Term = {"report", "timer"}
    MinOverlap = 1
    Replies <- MCReplies
    LongClauses <- MCLongClauses
    GapClauses <- MCGapClauses
    Scores = {0, 60, 80, 90}
    Specs <- MCSpecs
    Excerpts <- MCExcerpts
CHECK_DEADLOCK FALSE
INVARIANTS
    ExtractedIsOneValue
    WindowCoversMost
    VerifierSeesNotes
    MatchingIsStable
    TreeIsWhole
    GoverningForceIsOfTheClause
