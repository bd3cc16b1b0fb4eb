CONSTANTS
    Ranks = {4, 8}
    Submissions <- FittingCalls
SPECIFICATION Spec
INVARIANTS
    TypeOK
    ReadsRecordedWriter
    ResultsSurvive
    StagingInBounds
