\* Two calls of wait_for on one session, both with a timeout; the timers
\* fire.
CONSTANTS
    Waiters = {w1, w2}
    WaitsFor = "connected"
    HasTimeout = TRUE
    w1 = w1
    w2 = w2
SPECIFICATION SpecTimed
PROPERTY TimedWaitReturns
CHECK_DEADLOCK FALSE
