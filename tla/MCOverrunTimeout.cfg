\* One command with more output than the limit; the command timer may expire.
CONSTANTS
    NCmds = 1
    OutLen = 3
    Limit = 1
    CmdTimeoutFires = TRUE
    TransportMayEnd = FALSE
SPECIFICATION Spec
INVARIANT OverrunNotTimeout
CHECK_DEADLOCK FALSE
