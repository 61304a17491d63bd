\* idle_timeout unset for s2: min(None, ...) raises in the sweep.
CONSTANTS
    s1 = s1
    s2 = s2
    NoTimeout = NoTimeout
    Sess <- MCSess
    idle_timeout <- MCIdleTimeoutUnset
    open_timeout <- MCOpenTimeout
    MAX_SESSION_IDLE_TIMEOUT_S = 2
    MAX_SESSION_LAST_ACCESS_TIMEOUT_S = 3
    CliSetupLen = 1
    CloseMayFail = FALSE
SPECIFICATION Spec
PROPERTY
    SweepVisitsAll
