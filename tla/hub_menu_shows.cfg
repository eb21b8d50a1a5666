CONSTANTS
    None = None
    Manual = Manual
    Runs = {r1}
    Slots = {s1}
    Web = {w}
    Stoppers <- WebAndSerial
    Stubborn = FALSE
    LinkFails = FALSE
    Expiring = {"run"}
    MaxFrames = 1
SPECIFICATION Spec
INVARIANT ProcessIsShown
