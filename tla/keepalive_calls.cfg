CONSTANTS
    None = None
    c1 = c1
    c2 = c2
    u = u
    f = f
    Calls = {c1, c2}
    CallKind <- TwoControl
    Workers = {w1, w2}
    Supervisors = {u}
    Ops <- Attach
    MaxAttempts = 2
    JoinExpires = FALSE
    KnownModule = TRUE
    SwitchModes = {"CONTROL"}
SPECIFICATION Spec
INVARIANTS TypeOK NoRequestLost PendingIsAwaited WithdrawnNeverSent NoOrphanWorker
PROPERTIES AnsweredOnce CallsSpec
SYMMETRY Symmetry
