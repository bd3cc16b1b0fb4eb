CONSTANTS
    Ranks = {4}
    Submissions <- MetricsCalls
SPECIFICATION Spec
INVARIANT ReadsRecordedWriter
