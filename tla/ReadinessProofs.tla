--------------------------- MODULE ReadinessProofs ---------------------------
(***************************************************************************)
(* Proofs about Readiness for every set of callers.                        *)
(*                                                                         *)
(* TypeOK bounds the number of scheduled _notify tasks by one; that needs  *)
(* the fact that none is scheduled before _session_connected has run      *)
(* (NotifyAfterConnect).  NoLostWakeup is then inductive on its own for    *)
(* the connected predicate: a caller parks only when its predicate is     *)
(* false, _connected becomes true only together with a scheduled _notify, *)
(* and that _notify moves every parked caller out of cond.wait.           *)
(***************************************************************************)
EXTENDS Readiness, TLAPS

\* No _notify task is scheduled before the channel has connected.
NotifyAfterConnect == ~started => notifying = 0

TInv == TypeOK /\ NotifyAfterConnect

IInv == TInv /\ NoLostWakeup

-----------------------------------------------------------------------------

\* Every step keeps the types and the bound on scheduled _notify tasks.
LEMMA TInvStep == TInv /\ [Next]_vars => TInv'
<1> SUFFICES ASSUME TInv, [Next]_vars PROVE TInv'
  OBVIOUS
<1> USE DEF TInv, TypeOK, NotifyAfterConnect, PcValues
<1>1. ASSUME NEW w \in Waiters, Call(w) PROVE TInv'
  BY <1>1 DEF Call
<1>2. ASSUME NEW w \in Waiters, Acquire(w) PROVE TInv'
  BY <1>2 DEF Acquire
<1>3. ASSUME NEW w \in Waiters, Reacquire(w) PROVE TInv'
  BY <1>3 DEF Reacquire
<1>4. ASSUME NEW w \in Waiters, Timeout(w) PROVE TInv'
  BY <1>4 DEF Timeout
<1>5. ASSUME NEW w \in Waiters, CancelledReacquire(w) PROVE TInv'
  BY <1>5 DEF CancelledReacquire
<1>6. CASE Notify
  BY <1>6 DEF Notify
<1>7. CASE SessionConnected
  BY <1>7 DEF SessionConnected
<1>8. CASE ExitStatusReceived
  BY <1>8 DEF ExitStatusReceived
<1>9. CASE UNCHANGED vars
  BY <1>9 DEF vars
<1>10. QED
  BY <1>1, <1>2, <1>3, <1>4, <1>5, <1>6, <1>7, <1>8, <1>9 DEF Next

\* The initial state has the types and no scheduled _notify task.
LEMMA InitTInv == Init => TInv
<1> SUFFICES ASSUME Init PROVE TInv
  OBVIOUS
<1>1. pc \in [Waiters -> PcValues]
  BY DEF Init, PcValues
<1>2. locked \in BOOLEAN /\ connected \in BOOLEAN /\ exited \in BOOLEAN
      /\ started \in BOOLEAN
  BY Zenon DEF Init
<1>3. notifying \in 0..1 /\ NotifyAfterConnect
  BY DEF Init, NotifyAfterConnect
<1>4. QED
  BY <1>1, <1>2, <1>3, Zenon DEF TInv, TypeOK

\* Every reachable state of Readiness is well typed: pc maps every call
\* to one of its places and at most one _notify task is scheduled.
THEOREM TypeCorrect == Spec => []TypeOK
<1>1. Init => TInv
  BY InitTInv
<1>2. QED
  BY <1>1, TInvStep, PTL DEF Spec, TInv

-----------------------------------------------------------------------------
(* NoLostWakeup for the predicate of wait_until_connected.                 *)

\* A step of a caller or of the channel keeps NoLostWakeup: a caller
\* parks only on a false predicate, and _connected becomes true together
\* with a scheduled _notify.
LEMMA WakeupStep ==
    ASSUME WaitsFor = "connected", IInv, [Next]_vars
    PROVE  NoLostWakeup'
<1> USE DEF IInv, TInv, TypeOK, NotifyAfterConnect, NoLostWakeup, Pred
<1>1. ASSUME NEW w \in Waiters, Call(w) PROVE NoLostWakeup'
  BY <1>1 DEF Call
<1>2. ASSUME NEW w \in Waiters, Acquire(w) PROVE NoLostWakeup'
  BY <1>2 DEF Acquire
<1>3. ASSUME NEW w \in Waiters, Reacquire(w) PROVE NoLostWakeup'
  BY <1>3 DEF Reacquire
<1>4. ASSUME NEW w \in Waiters, Timeout(w) PROVE NoLostWakeup'
  BY <1>4 DEF Timeout
<1>5. ASSUME NEW w \in Waiters, CancelledReacquire(w) PROVE NoLostWakeup'
  BY <1>5 DEF CancelledReacquire
<1>6. CASE Notify
  \* notify_all leaves no caller parked.
  <2>1. \A w \in Waiters : pc'[w] # "parked"
    BY <1>6 DEF Notify
  <2>2. QED
    BY <2>1
<1>7. CASE SessionConnected
  BY <1>7 DEF SessionConnected
<1>8. CASE ExitStatusReceived
  BY <1>8 DEF ExitStatusReceived
<1>9. CASE UNCHANGED vars
  BY <1>9 DEF vars
<1>10. QED
  BY <1>1, <1>2, <1>3, <1>4, <1>5, <1>6, <1>7, <1>8, <1>9 DEF Next

\* A caller of wait_until_connected that is parked in cond.wait while the
\* session is connected always has a _notify task still to run: the wake-up
\* of _session_connected (line 773) is never lost, for any number of
\* callers, with or without timeouts.
THEOREM NoLostWakeupConnected ==
    ASSUME WaitsFor = "connected"
    PROVE  Spec => []NoLostWakeup
<1>1. Init => IInv
  <2> SUFFICES ASSUME Init PROVE IInv
    OBVIOUS
  <2>1. TInv
    BY InitTInv
  <2>2. QED
    BY <2>1 DEF Init, IInv, NoLostWakeup
<1>2. IInv /\ [Next]_vars => IInv'
  BY TInvStep, WakeupStep DEF IInv
<1>3. IInv => NoLostWakeup
  BY DEF IInv
<1>4. QED
  BY <1>1, <1>2, <1>3, PTL DEF Spec
-----------------------------------------------------------------------------
(* Readiness implements ConditionWait.                                     *)

\* A call is cancelled only by the timer of asyncio.wait_for, so only when
\* a timeout was passed.
CancelledTimed == \A w \in Waiters : pc[w] = "cancelled" => HasTimeout

RInv == TInv /\ CancelledTimed

\* Every step keeps the types, and a call is cancelled only when
\* asyncio.wait_for was given a timeout.
LEMMA RInvStep == RInv /\ [Next]_vars => RInv'
<1> SUFFICES ASSUME RInv, [Next]_vars PROVE RInv'
  OBVIOUS
<1>1. TInv'
  BY TInvStep DEF RInv
<1>2. CancelledTimed'
  <2> USE DEF RInv, TInv, TypeOK, CancelledTimed
  <2>1. ASSUME NEW w \in Waiters, Call(w) PROVE CancelledTimed'
    BY <2>1 DEF Call
  <2>2. ASSUME NEW w \in Waiters, Acquire(w) PROVE CancelledTimed'
    BY <2>2 DEF Acquire
  <2>3. ASSUME NEW w \in Waiters, Reacquire(w) PROVE CancelledTimed'
    BY <2>3 DEF Reacquire
  <2>4. ASSUME NEW w \in Waiters, Timeout(w) PROVE CancelledTimed'
    BY <2>4 DEF Timeout
  <2>5. ASSUME NEW w \in Waiters, CancelledReacquire(w) PROVE CancelledTimed'
    BY <2>5 DEF CancelledReacquire
  <2>6. CASE Notify
    BY <2>6 DEF Notify
  <2>7. CASE SessionConnected \/ ExitStatusReceived \/ UNCHANGED vars
    BY <2>7 DEF SessionConnected, ExitStatusReceived, vars
  <2>8. QED
    BY <2>1, <2>2, <2>3, <2>4, <2>5, <2>6, <2>7 DEF Next
<1>3. QED
  BY <1>1, <1>2 DEF RInv

\* Every step of Readiness is a step of ConditionWait or leaves its state
\* alone: a test of the predicate under the lock that succeeds is a Return,
\* one that fails, a notify_all and a cancellation are stutters, the
\* re-acquire after a cancellation is a GiveUp.
LEMMA WaitStepRefines == RInv /\ [Next]_vars => [Abstract!Next]_Abstract!vars
<1> SUFFICES ASSUME RInv, [Next]_vars PROVE [Abstract!Next]_Abstract!vars
  OBVIOUS
<1> USE DEF RInv, TInv, TypeOK, PcValues, Returned, Abstract!vars
<1>1. ASSUME NEW w \in Waiters, Call(w) PROVE [Abstract!Next]_Abstract!vars
  <2>1. Abstract!Call(w)
    BY <1>1 DEF Call, Abstract!Call
  <2>2. QED
    BY <2>1 DEF Abstract!Next
<1>2. ASSUME NEW w \in Waiters, Acquire(w) PROVE [Abstract!Next]_Abstract!vars
  <2>1. CASE Pred
    <3>1. Abstract!Return(w)
      BY <1>2, <2>1 DEF Acquire, Abstract!Return, Pred, Abstract!Pred
    <3>2. QED
      BY <3>1 DEF Abstract!Next
  <2>2. CASE ~Pred
    BY <1>2, <2>2 DEF Acquire
  <2>3. QED
    BY <2>1, <2>2
<1>3. ASSUME NEW w \in Waiters, Reacquire(w) PROVE [Abstract!Next]_Abstract!vars
  <2>1. CASE Pred
    <3>1. Abstract!Return(w)
      BY <1>3, <2>1 DEF Reacquire, Abstract!Return, Pred, Abstract!Pred
    <3>2. QED
      BY <3>1 DEF Abstract!Next
  <2>2. CASE ~Pred
    BY <1>3, <2>2 DEF Reacquire
  <2>3. QED
    BY <2>1, <2>2
<1>4. ASSUME NEW w \in Waiters, Timeout(w) PROVE [Abstract!Next]_Abstract!vars
  BY <1>4 DEF Timeout
<1>5. ASSUME NEW w \in Waiters, CancelledReacquire(w)
      PROVE [Abstract!Next]_Abstract!vars
  <2>1. Abstract!GiveUp(w)
    BY <1>5 DEF CancelledReacquire, CancelledTimed, Abstract!GiveUp
  <2>2. QED
    BY <2>1 DEF Abstract!Next
<1>6. CASE Notify
  BY <1>6 DEF Notify
<1>7. CASE SessionConnected
  <2>1. Abstract!Connect
    BY <1>7 DEF SessionConnected, Abstract!Connect
  <2>2. QED
    BY <2>1 DEF Abstract!Next
<1>8. CASE ExitStatusReceived
  <2>1. Abstract!Exit
    BY <1>8 DEF ExitStatusReceived, Abstract!Exit
  <2>2. QED
    BY <2>1 DEF Abstract!Next
<1>9. CASE UNCHANGED vars
  BY <1>9 DEF vars
<1>10. QED
  BY <1>1, <1>2, <1>3, <1>4, <1>5, <1>6, <1>7, <1>8, <1>9 DEF Next

\* wait_for implements ConditionWait for every set of callers, with or
\* without a timeout and for either predicate: a call returns normally
\* only in a state in which its predicate holds, and raises TimeoutError
\* only when a timeout was passed.
THEOREM WaitRefinement == Spec => WaitRefined
<1>1. Init => RInv
  BY InitTInv DEF Init, RInv, CancelledTimed
<1>2. Init => Abstract!Init
  BY DEF Init, Abstract!Init
<1>3. QED
  BY <1>1, <1>2, RInvStep, WaitStepRefines, PTL
     DEF Spec, WaitRefined, Abstract!Spec
====
