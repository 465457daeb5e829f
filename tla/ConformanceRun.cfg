SPECIFICATION Spec
CONSTANTS
    Runs = {r1, r2}
    RowVerdict <- MCVerdicts
    GuardReason = {"citation_not_verbatim"}
    OtherReason = {"verifier_disagreement"}
    Rows <- MCRows
    MaxRequirements = 3
    RecursionLimit = 5
INVARIANTS
    CompleteIsWhole
    ReplyMatchesRecord
    PagesAgree
PROPERTIES
    RunsSettle
    ImplementsLifecycle
