CONSTANTS
    MaxLen = 3
    CommitTimes <- ScanCommitTimes
    Durations <- ScanDurations
    ReportTimes <- ScanReportTimes
    MaxCallbacks <- ScanCapsZero

SPECIFICATION Spec




INVARIANT ScanRespectsCap
