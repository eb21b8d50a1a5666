CONSTANTS
    None = None
    Manual = Manual
    Runs = {r1, r2}
    Slots = {s1}
    Web = {w}
    Stoppers <- WebAndSerial
    Stubborn = TRUE
    LinkFails = FALSE
    Expiring = {"ack", "run", "stop"}
    MaxFrames = 1
SPECIFICATION Spec
INVARIANT MotorStopIsLast
