SPECIFICATION Spec
CONSTANTS
    Outputs <- MCOutputs
    Angles <- MCAngles
    LedcMinHz = 77
    LedcMaxHz = 78125
    MaxBoots = 1
    Sessions <- MCSessions
    OldBlobs <- MCOldBlobs
INVARIANT TypeOK
INVARIANT CurveTopIsRpmMax
INVARIANT TwoCopiesAgree
INVARIANT OffUntilCommanded
INVARIANT LoopHeldBySaver
PROPERTY StoppedPassRests
PROPERTY StopReachesMotor
PROPERTY HostLossEndsPosition
PROPERTY SaveSettles
