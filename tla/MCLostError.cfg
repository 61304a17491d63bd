\* One command, one output chunk; the transport may fail, the per-command
\* timer is left out, so that only the stream's own wake-ups end the wait.
CONSTANTS
    NCmds = 1
    OutLen = 1
    Limit = 2
    CmdTimeoutFires = FALSE
    TransportMayEnd = TRUE
SPECIFICATION Spec
PROPERTY ErrorEndsWait
CHECK_DEADLOCK FALSE
