CONSTANTS
    None = None
    c1 = c1
    c2 = c2
    u = u
    f = f
    Calls = {c1}
    CallKind <- OneControl
    Workers = {w1, w2}
    Supervisors = {u, f}
    Ops <- FlashUdev
    MaxAttempts = 2
    JoinExpires = FALSE
    KnownModule = TRUE
    SwitchModes = {"CONTROL"}
SPECIFICATION Spec
INVARIANT FlashExclusive
