CONSTANTS
    MaxSeq = 4
    MaxAttempts = 2
    QueueMax = 2
    MaxExchanges = 4
    MaxPushes = 2
    WireMax = 2
SPECIFICATION Spec
INVARIANT TypeOK
PROPERTY CommandAnswered StopAcknowledged
