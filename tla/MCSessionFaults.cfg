\* Every fault at once: both options unset for s2, _close() may raise.
CONSTANTS
    s1 = s1
    s2 = s2
    NoTimeout = NoTimeout
    Sess <- MCSess
    idle_timeout <- MCIdleTimeoutUnset
    open_timeout <- MCOpenTimeoutUnset
    MAX_SESSION_IDLE_TIMEOUT_S = 2
    MAX_SESSION_LAST_ACCESS_TIMEOUT_S = 3
    CliSetupLen = 2
    CloseMayFail = TRUE
SPECIFICATION Spec
INVARIANTS
    InUseAccounting
PROPERTY
    ReaperSparesActiveSessions
