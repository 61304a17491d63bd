\* Three calls of wait_for with a timeout, on the connected predicate that
\* wait_until_connected passes; the channel connects once and may exit.
\* The run stops when every call has returned or is stuck on the lock.
CONSTANTS
    Waiters = {w1, w2, w3}
    WaitsFor = "connected"
    HasTimeout = TRUE
    w1 = w1
    w2 = w2
    w3 = w3
SPECIFICATION Spec
INVARIANTS TypeOK NoLostWakeup
PROPERTIES ReadyWaiterWakes WaitRefined
CHECK_DEADLOCK FALSE
