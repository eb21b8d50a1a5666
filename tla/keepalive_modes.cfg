CONSTANTS
    None = None
    c1 = c1
    c2 = c2
    u = u
    f = f
    Calls = {c1}
    CallKind <- OneCmd
    Workers = {w1}
    Supervisors = {u}
    Ops <- Everything
    MaxAttempts = 2
    JoinExpires = TRUE
    KnownModule = FALSE
    SwitchModes = {"CONTROL", "CMD", "TELEMETRY"}
SPECIFICATION Spec
INVARIANT Ownership
PROPERTY CallsSpec
