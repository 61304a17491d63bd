\* Two sessions, all options set, _close() never raises.
CONSTANTS
    s1 = s1
    s2 = s2
    NoTimeout = NoTimeout
    Sess <- MCSess
    idle_timeout <- MCIdleTimeout
    open_timeout <- MCOpenTimeout
    MAX_SESSION_IDLE_TIMEOUT_S = 2
    MAX_SESSION_LAST_ACCESS_TIMEOUT_S = 3
    CliSetupLen = 1
    CloseMayFail = FALSE
SPECIFICATION Spec
INVARIANTS
    TypeOK
    InUseAccounting
    NoLeakedSession
PROPERTIES
    ReaperSparesActiveSessions
    StaleSessionsReaped
