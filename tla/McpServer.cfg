SPECIFICATION AgentSpec
CONSTANTS
    Runs = {a1, a2, a3, c1}
    AgentCalls = {a1, a2, a3}
    Requirements = 1
    NoCall = no_call
    RowVerdict <- MCVerdicts
    GuardReason = {"citation_not_verbatim"}
    OtherReason = {"verifier_disagreement"}
    Rows <- MCRows
INVARIANTS
    FindingsAreTrue
    AnswersAreRecorded
    RecordsAreTrue
    CheckedVerdictIsStored
    OneVerdictPerId
PROPERTIES
    ImplementsLifecycle
