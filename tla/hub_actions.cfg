CONSTANTS
    None = None
    Manual = Manual
    Runs = {r1, r2}
    Slots = {s1}
    Web = {w}
    Stoppers <- WebAndSerial
    Stubborn = FALSE
    LinkFails = TRUE
    Expiring = {"ack", "run", "stop"}
    MaxFrames = 1
SPECIFICATION Spec
INVARIANTS TypeOK Armed OneProcess MotorStopIsLast StopIsDelivered CompletedUndisturbed
SYMMETRY Symmetry
