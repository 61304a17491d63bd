\* Three commands, up to two output chunks each, a limit of one chunk;
\* timeouts, EOF and transport errors all possible.  The run stops when
\* the caller has made its calls.
CONSTANTS
    NCmds = 3
    OutLen = 2
    Limit = 1
    CmdTimeoutFires = TRUE
    TransportMayEnd = TRUE
SPECIFICATION Spec
INVARIANTS TypeOK StreamIntact
PROPERTIES PromptEventuallyMatched EofEndsWait StreamRefined
CHECK_DEADLOCK FALSE
