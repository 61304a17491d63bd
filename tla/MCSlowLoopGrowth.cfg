\* One command whose output keeps coming past the limit; no command timer.
CONSTANTS
    NCmds = 1
    OutLen = 4
    Limit = 1
    CmdTimeoutFires = FALSE
    TransportMayEnd = FALSE
SPECIFICATION Spec
INVARIANT BufferBounded
CHECK_DEADLOCK FALSE
