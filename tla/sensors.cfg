SPECIFICATION Spec
CONSTANTS
    Sessions <- MCSessions
    Channels <- MCChannels
    MaxSamples = 2
INVARIANT TypeOK
INVARIANT CalibrationUsable
INVARIANT MedianOfRecent
PROPERTY CalibrationSettles
PROPERTY CaptureIsKept
PROPERTY RangeLimitSettles
PROPERTY LedGoesOut
