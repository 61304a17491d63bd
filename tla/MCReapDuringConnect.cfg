\* open_timeout unset for s2: its setup may outlast the max-lifetime bound.
CONSTANTS
    s1 = s1
    s2 = s2
    NoTimeout = NoTimeout
    Sess <- MCSess
    idle_timeout <- MCIdleTimeout
    open_timeout <- MCOpenTimeoutUnset
    MAX_SESSION_IDLE_TIMEOUT_S = 2
    MAX_SESSION_LAST_ACCESS_TIMEOUT_S = 3
    CliSetupLen = 1
    CloseMayFail = FALSE
SPECIFICATION Spec
INVARIANT
    NoLeakedSession
