---------------------------- MODULE ConditionWait ----------------------------
(***************************************************************************)
(* What CommandSession.wait_for (lines 427-437) promises its callers: a    *)
(* call waits until the predicate it was given holds and then returns, or  *)
(* gives up when its timeout expires.  It returns normally only in a state *)
(* in which the predicate holds.  The session's state changes by the two   *)
(* callbacks: _session_connected (once per channel) and                    *)
(* exit_status_received.                                                   *)
(***************************************************************************)
CONSTANTS
    Waiters,     \* calls of wait_for on the session
    WaitsFor,    \* the predicate they pass: "connected" or "exited"
    HasTimeout   \* the calls pass a timeout

VARIABLES
    st,          \* each call: idle, waiting, done or timedout
    connected,   \* _connected
    exited,      \* _exit_status is set
    started      \* _session_connected has run

vars == <<st, connected, exited, started>>

Pred == IF WaitsFor = "connected" THEN connected ELSE exited

Init ==
    /\ st = [w \in Waiters |-> "idle"]
    /\ connected = FALSE
    /\ exited = FALSE
    /\ started = FALSE

Call(w) ==
    /\ st[w] = "idle"
    /\ st' = [st EXCEPT ![w] = "waiting"]
    /\ UNCHANGED <<connected, exited, started>>

\* The call returns, in a state where its predicate holds.
Return(w) ==
    /\ st[w] = "waiting"
    /\ Pred
    /\ st' = [st EXCEPT ![w] = "done"]
    /\ UNCHANGED <<connected, exited, started>>

\* The call's timeout expires and it raises TimeoutError.
GiveUp(w) ==
    /\ HasTimeout
    /\ st[w] = "waiting"
    /\ st' = [st EXCEPT ![w] = "timedout"]
    /\ UNCHANGED <<connected, exited, started>>

Connect ==
    /\ ~started
    /\ connected' = TRUE
    /\ started' = TRUE
    /\ UNCHANGED <<st, exited>>

Exit ==
    /\ started
    /\ ~exited
    /\ connected' = FALSE
    /\ exited' = TRUE
    /\ UNCHANGED <<st, started>>

Next ==
    \/ \E w \in Waiters : Call(w) \/ Return(w) \/ GiveUp(w)
    \/ Connect
    \/ Exit

Spec == Init /\ [][Next]_vars
====
