CONSTANTS
    None = None
    Manual = Manual
    Runs = {r1}
    Slots = {s1}
    Web = {w}
    Stoppers <- WebAndSerial
    Stubborn = FALSE
    LinkFails = TRUE
    Expiring = {"ack", "run", "stop"}
    MaxFrames = 1
SPECIFICATION FairSpec
PROPERTIES ActionEnds MenuReturns
