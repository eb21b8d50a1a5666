CONSTANTS
    MaxSeq = 4
    MaxAttempts = 2
    QueueMax = 2
    MaxExchanges = 2
    MaxPushes = 2
    WireMax = 2
SPECIFICATION Spec
PROPERTY TelemetryRequestKept
