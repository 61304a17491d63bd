\* One command; the transport may reach EOF before the prompt.
CONSTANTS
    NCmds = 1
    OutLen = 1
    Limit = 2
    CmdTimeoutFires = FALSE
    TransportMayEnd = TRUE
SPECIFICATION Spec
INVARIANT SuccessHasPrompt
CHECK_DEADLOCK FALSE
