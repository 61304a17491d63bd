\* Two commands; the first one's timer may expire before the device answers.
CONSTANTS
    NCmds = 2
    OutLen = 1
    Limit = 2
    CmdTimeoutFires = TRUE
    TransportMayEnd = FALSE
SPECIFICATION Spec
INVARIANT ResponseBelongsToCommand
CHECK_DEADLOCK FALSE
