------------------------------ MODULE Readiness ------------------------------
(***************************************************************************)
(* The readiness condition of a session (CommandSession.wait_for and      *)
(* _notify, lines 419-437, over the asyncio.Condition _event of line 202) *)
(* and the two callbacks that change the state it waits on:              *)
(* _session_connected (lines 762-773), which sets _connected and spawns  *)
(* a _notify task, and exit_status_received (lines 775-778), which clears *)
(* _connected and records the exit status without notifying.              *)
(*                                                                         *)
(* Every step between two awaits runs alone on the event loop, so each   *)
(* action below is one such step.  A call of wait_for acquires the lock   *)
(* (line 431), and the inner cond.wait_for tests the predicate and either *)
(* returns, after which line 437 releases the lock, or parks in           *)
(* cond.wait, which releases it.  notify_all moves every parked waiter to *)
(* re-acquire the lock and test the predicate again.  When the timer of   *)
(* asyncio.wait_for (line 432) cancels a waiter, cond.wait re-acquires    *)
(* the lock before the CancelledError leaves it, and the TimeoutError     *)
(* then skips the release of line 437.                                    *)
(***************************************************************************)
EXTENDS Naturals, FiniteSets

CONSTANTS
    Waiters,     \* calls of wait_for on the session
    WaitsFor,    \* the predicate they pass: "connected" or "exited"
    HasTimeout   \* the calls pass a timeout (open_timeout is set)

ASSUME ReadinessAssumption ==
    /\ IsFiniteSet(Waiters)
    /\ WaitsFor \in {"connected", "exited"}
    /\ HasTimeout \in BOOLEAN

VARIABLES
    pc,         \* where each call of wait_for is
    locked,     \* the condition's lock is held
    connected,  \* _connected
    exited,     \* _exit_status is set
    started,    \* _session_connected has run (once per channel)
    notifying   \* _notify tasks spawned and not yet run

vars == <<pc, locked, connected, exited, started, notifying>>

\* idle: not called yet; acquire: blocked on the lock at line 431;
\* parked: in cond.wait with the lock released; woken: notified, waiting
\* for the lock; cancelled: timed out, re-acquiring the lock; done:
\* returned; timedout: raised TimeoutError.
PcValues == {"idle", "acquire", "parked", "woken", "cancelled", "done", "timedout"}

Returned == {"done", "timedout"}

\* The predicate handed to wait_for, over the session's state.
Pred == IF WaitsFor = "connected" THEN connected ELSE exited

Init ==
    /\ pc = [w \in Waiters |-> "idle"]
    /\ locked = FALSE
    /\ connected = FALSE
    /\ exited = FALSE
    /\ started = FALSE
    /\ notifying = 0

\* wait_for is called: await self._event.acquire() (line 431).
Call(w) ==
    /\ pc[w] = "idle"
    /\ pc' = [pc EXCEPT ![w] = "acquire"]
    /\ UNCHANGED <<locked, connected, exited, started, notifying>>

\* The lock is granted; cond.wait_for tests the predicate (line 433): it
\* returns and line 437 releases the lock, or cond.wait parks the caller
\* and releases it.
Acquire(w) ==
    /\ pc[w] = "acquire"
    /\ ~locked
    /\ pc' = [pc EXCEPT ![w] = IF Pred THEN "done" ELSE "parked"]
    /\ UNCHANGED <<locked, connected, exited, started, notifying>>

\* A woken waiter parks again without testing the predicate.
ReacquireNoRecheck(w) ==
    /\ pc[w] = "woken"
    /\ ~locked
    /\ pc' = [pc EXCEPT ![w] = "parked"]
    /\ UNCHANGED <<locked, connected, exited, started, notifying>>

\* A woken waiter returns without testing the predicate again, as
\* cond.wait() in place of cond.wait_for() would.
ReacquireNoTest(w) ==
    /\ pc[w] = "woken"
    /\ ~locked
    /\ pc' = [pc EXCEPT ![w] = "done"]
    /\ UNCHANGED <<locked, connected, exited, started, notifying>>

\* A woken waiter gets the lock back and cond.wait_for tests the
\* predicate again: it returns and releases, or parks again.
Reacquire(w) ==
    /\ pc[w] = "woken"
    /\ ~locked
    /\ pc' = [pc EXCEPT ![w] = IF Pred THEN "done" ELSE "parked"]
    /\ UNCHANGED <<locked, connected, exited, started, notifying>>

\* A _notify task runs (lines 419-425): it acquires the lock, which does
\* not yield when the lock is free, wakes every parked waiter and releases.
Notify ==
    /\ notifying > 0
    /\ ~locked
    /\ notifying' = notifying - 1
    /\ pc' = [w \in Waiters |-> IF pc[w] = "parked" THEN "woken" ELSE pc[w]]
    /\ UNCHANGED <<locked, connected, exited, started>>

\* The timer of asyncio.wait_for (line 432) expires and cancels the
\* inner cond.wait_for.  The acquire at line 431 is outside the timer.
Timeout(w) ==
    /\ HasTimeout
    /\ pc[w] \in {"parked", "woken"}
    /\ pc' = [pc EXCEPT ![w] = "cancelled"]
    /\ UNCHANGED <<locked, connected, exited, started, notifying>>

\* cond.wait re-acquires the lock before re-raising the cancellation; the
\* TimeoutError leaves wait_for before the release of line 437.
CancelledReacquire(w) ==
    /\ pc[w] = "cancelled"
    /\ ~locked
    /\ pc' = [pc EXCEPT ![w] = "timedout"]
    /\ locked' = TRUE
    /\ UNCHANGED <<connected, exited, started, notifying>>

\* _session_connected runs again while the first _notify task is still
\* scheduled.
SessionConnectedTwice ==
    /\ connected' = TRUE
    /\ started' = TRUE
    /\ notifying' = notifying + 1
    /\ UNCHANGED <<pc, locked, exited>>

\* _session_connected drops its _notify task.
SessionConnectedNoNotify ==
    /\ ~started
    /\ connected' = TRUE
    /\ started' = TRUE
    /\ UNCHANGED <<pc, locked, exited, notifying>>

\* _session_connected (lines 762-773): _connected = True and a _notify
\* task is scheduled with ensure_future.
SessionConnected ==
    /\ ~started
    /\ connected' = TRUE
    /\ started' = TRUE
    /\ notifying' = notifying + 1
    /\ UNCHANGED <<pc, locked, exited>>

\* exit_status_received (lines 775-778): _connected = False and the exit
\* status is recorded; nothing is notified.
ExitStatusReceived ==
    /\ started
    /\ ~exited
    /\ connected' = FALSE
    /\ exited' = TRUE
    /\ UNCHANGED <<pc, locked, started, notifying>>

Next ==
    \/ \E w \in Waiters :
          Call(w) \/ Acquire(w) \/ Reacquire(w) \/ Timeout(w) \/ CancelledReacquire(w)
    \/ Notify
    \/ SessionConnected
    \/ ExitStatusReceived

\* The event loop runs every ready task: a coroutine whose lock is free
\* and a scheduled _notify task get to run.  Callers, the channel and the
\* timers get no fairness here.
Spec ==
    /\ Init /\ [][Next]_vars
    /\ \A w \in Waiters :
          WF_vars(Acquire(w)) /\ WF_vars(Reacquire(w)) /\ WF_vars(CancelledReacquire(w))
    /\ WF_vars(Notify)

\* asyncio.wait_for's timer fires once its timeout has passed.
SpecTimed == Spec /\ \A w \in Waiters : WF_vars(Timeout(w))

-----------------------------------------------------------------------------
(* Properties.                                                             *)

TypeOK ==
    /\ pc \in [Waiters -> PcValues]
    /\ locked \in BOOLEAN
    /\ connected \in BOOLEAN
    /\ exited \in BOOLEAN
    /\ started \in BOOLEAN
    /\ notifying \in 0..1

\* No wake-up is lost: a caller parked in cond.wait while its predicate
\* holds has a _notify task still to run, which will wake it (spec 4.2:
\* the condition is re-evaluated on connect-complete and on exit-status
\* receipt).
NoLostWakeup ==
    \A w \in Waiters : (pc[w] = "parked" /\ Pred) => notifying > 0

\* A caller whose predicate has become true returns (or its timer ends
\* it) unless the state changes back or a timed-out call kept the lock:
\* notify_all, the lock and the re-test in cond.wait_for get it out.
ReadyWaiterWakes ==
    \A w \in Waiters :
        (pc[w] \in {"parked", "woken"} /\ Pred)
            ~> (pc[w] \in Returned \/ ~Pred \/ locked)

\* Every call of wait_for with a timeout returns (spec 5: every blocking
\* wait is individually bounded), also when another call timed out
\* before it.
TimedWaitReturns ==
    \A w \in Waiters : (pc[w] # "idle") ~> (pc[w] \in Returned)

\* wait_for implements ConditionWait: a call returns normally only in a
\* state in which its predicate holds, because cond.wait_for tests it
\* again under the lock after every wake-up (lines 431-437); between the
\* notify_all of _notify and the re-acquire, exit_status_received may
\* have cleared _connected again.
Abstract == INSTANCE ConditionWait WITH
    st <- [w \in Waiters |->
             IF pc[w] = "idle" THEN "idle"
             ELSE IF pc[w] \in Returned THEN pc[w] ELSE "waiting"]

WaitRefined == Abstract!Spec
====
