CONSTANTS
    None = None
    c1 = c1
    c2 = c2
    u = u
    f = f
    Calls = {c1}
    CallKind <- OneControl
    Workers = {w1, w2}
    Supervisors = {f}
    Ops <- Serialised
    MaxAttempts = 2
    JoinExpires = FALSE
    KnownModule = FALSE
    SwitchModes = {"CONTROL"}
SPECIFICATION FairSpec
INVARIANT FlashExclusive
PROPERTIES CallReturns StoppedWorkerEnds OperationEnds
