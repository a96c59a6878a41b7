CONSTANTS
    MaxLen = 3
    CommitTimes <- ScanCommitTimes
    Durations <- ScanDurations
    ReportTimes <- ScanReportTimes
    MaxCallbacks <- ScanCapsPositive

SPECIFICATION Spec

INVARIANT ScanMatchesReference
INVARIANT ScanPartitionsQueue
