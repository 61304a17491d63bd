------------------------ MODULE CommandSessionProofs ------------------------
(***************************************************************************)
(* Proofs about CommandSession for every value of the constants.          *)
(*                                                                         *)
(* IInv, the conjunction of the type invariant and InUseAccounting, is     *)
(* inductive.  Every decorated entry adds one to in_use_count and every    *)
(* finally block takes one off, and each step moves pc[s] to a place whose *)
(* Depth differs by exactly what the step added or took; the unwinding of  *)
(* a failed setup takes off as many as there are decorated frames, which   *)
(* is Depth(pc[s]) at the place it fails.  OwnerClose keeps the count, and *)
(* needs InUseAccounting itself (Depth("ready") = 0).                      *)
(***************************************************************************)
EXTENDS CommandSession, TLAPS

IInv == TypeOK /\ InUseAccounting

-----------------------------------------------------------------------------
(* Facts about the helpers the actions are built from.                     *)

LEMMA MinOfType ==
    ASSUME NEW a \in Nat, NEW b \in Nat
    PROVE  MinOf(a, b) \in Nat /\ MinOf(a, b) <= b
BY DEF MinOf

LEMMA AgeCapType == AgeCap \in Nat
BY ConstantsAssumption DEF AgeCap

\* Closing keeps the type of the cache, the connections and the flags.
LEMMA CloseType ==
    ASSUME TypeOK, NEW s \in Sess, Close(s)
    PROVE  /\ ALL_SESSIONS' \subseteq Sess
           /\ conn' \in [Sess -> {"none", "open", "closed"}]
           /\ connected' \in [Sess -> BOOLEAN]
BY DEF TypeOK, Close, CloseOk, CloseFailed

\* Failing setup with one finally block per decorated frame on the stack
\* keeps the type and leaves a done owner with no count.
LEMMA FailSetupType ==
    ASSUME IInv, NEW s \in Sess, FailSetup(s, Depth(pc[s]))
    PROVE  /\ pc' = [pc EXCEPT ![s] = "done"]
           /\ in_use_count' = [in_use_count EXCEPT ![s] = 0]
           /\ pc' \in [Sess -> PcValues]
           /\ in_use_count' \in [Sess -> Nat]
           /\ age' \in [Sess -> 0..AgeCap]
           /\ ALL_SESSIONS' \subseteq Sess
           /\ conn' \in [Sess -> {"none", "open", "closed"}]
           /\ connected' \in [Sess -> BOOLEAN]
<1>1. age' \in [Sess -> 0..AgeCap]
  BY AgeCapType DEF FailSetup, IInv, TypeOK
<1>2. in_use_count[s] = Depth(pc[s]) /\ in_use_count[s] \in Nat
  BY DEF IInv, InUseAccounting, TypeOK
<1>3. in_use_count' = [in_use_count EXCEPT ![s] = 0]
  BY <1>2 DEF FailSetup, Depth, InSetup, TimedSetup
<1>4. pc' = [pc EXCEPT ![s] = "done"] /\ pc' \in [Sess -> PcValues]
  BY DEF FailSetup, IInv, TypeOK, PcValues
<1>5. in_use_count' \in [Sess -> Nat]
  BY <1>3 DEF IInv, TypeOK
<1>6. QED
  BY <1>1, <1>3, <1>4, <1>5, CloseType DEF FailSetup, IInv

\* In both, setup()'s own frame is the only one left (held = 1).
LEMMA NextSetupStepInv ==
    ASSUME IInv, NEW s \in Sess, NEW r \in 0..AgeCap,
           pc[s] \in {"wait_prompt", "setup_cmd"}, NextSetupStep(s, r, 1)
    PROVE  /\ pc' \in [Sess -> PcValues]
           /\ in_use_count' \in [Sess -> Nat]
           /\ age' \in [Sess -> 0..AgeCap]
           /\ cliSetupLeft' \in [Sess -> 0..CliSetupLen]
           /\ ALL_SESSIONS' \subseteq Sess
           /\ conn' \in [Sess -> {"none", "open", "closed"}]
           /\ connected' \in [Sess -> BOOLEAN]
           /\ InUseAccounting'
<1> USE DEF IInv, TypeOK
<1>1. CASE /\ cliSetupLeft[s] = 0
           /\ pc' = [pc EXCEPT ![s] = "setup_return"]
           /\ in_use_count' = [in_use_count EXCEPT ![s] = 1]
           /\ age' = [age EXCEPT ![s] = r]
           /\ UNCHANGED <<cliSetupLeft, ALL_SESSIONS, connected, conn>>
  BY <1>1 DEF InUseAccounting, Depth, InSetup, TimedSetup, PcValues
<1>2. CASE /\ cliSetupLeft[s] > 0
           /\ connected[s]
           /\ pc' = [pc EXCEPT ![s] = "setup_cmd"]
           /\ in_use_count' = [in_use_count EXCEPT ![s] = 1 + 1]
           /\ age' = [age EXCEPT ![s] = 0]
           /\ cliSetupLeft' = [cliSetupLeft EXCEPT ![s] = @ - 1]
           /\ UNCHANGED <<ALL_SESSIONS, connected, conn>>
  <2>1. cliSetupLeft' \in [Sess -> 0..CliSetupLen]
    BY <1>2, ConstantsAssumption
  <2>2. InUseAccounting'
    BY <1>2 DEF InUseAccounting, Depth, InSetup, TimedSetup
  <2>3. QED
    BY <1>2, <2>1, <2>2, AgeCapType DEF PcValues
<1>3. CASE /\ cliSetupLeft[s] > 0
           /\ ~connected[s]
           /\ in_use_count' = [in_use_count EXCEPT ![s] = 1 - 1]
           /\ pc' = [pc EXCEPT ![s] = "done"]
           /\ age' = [age EXCEPT ![s] = 0]
           /\ Close(s)
           /\ UNCHANGED cliSetupLeft
  BY <1>3, CloseType, AgeCapType
     DEF InUseAccounting, Depth, InSetup, TimedSetup, PcValues
<1>4. QED
  BY <1>1, <1>2, <1>3 DEF NextSetupStep

-----------------------------------------------------------------------------
(* The inductive invariant.                                                *)

LEMMA InitIInv == Init => IInv
BY ConstantsAssumption, AgeCapType
   DEF Init, IInv, TypeOK, InUseAccounting, Depth, InSetup, TimedSetup,
       PcValues

LEMMA NextIInv == IInv /\ [Next]_vars => IInv'
<1> SUFFICES ASSUME IInv, [Next]_vars PROVE IInv'
  OBVIOUS
<1> USE DEF IInv, TypeOK
<1>1. ASSUME NEW s \in Sess, SessionInit(s) PROVE IInv'
  BY <1>1, AgeCapType
     DEF SessionInit, InUseAccounting, Depth, InSetup, TimedSetup, PcValues
<1>2. ASSUME NEW s \in Sess, ConnectionMade(s) PROVE IInv'
  BY <1>2 DEF ConnectionMade, InUseAccounting
<1>3. ASSUME NEW s \in Sess, SessionConnected(s) PROVE IInv'
  BY <1>3 DEF SessionConnected, InUseAccounting, Depth, InSetup, TimedSetup,
              PcValues
<1>4. ASSUME NEW s \in Sess, ConnectFailed(s) PROVE IInv'
  <2>1. FailSetup(s, Depth(pc[s]))
    BY <1>4 DEF ConnectFailed, Depth, InSetup, TimedSetup
  <2>2. QED
    BY <1>4, <2>1, FailSetupType DEF ConnectFailed, InUseAccounting, Depth,
                                     InSetup, TimedSetup
<1>5. ASSUME NEW s \in Sess, WaitUntilConnected(s) PROVE IInv'
  BY <1>5 DEF WaitUntilConnected, InUseAccounting, Depth, InSetup,
              TimedSetup, PcValues
<1>6. ASSUME NEW s \in Sess, WaitPrompt(s) PROVE IInv'
  <2>1. in_use_count[s] = 1 /\ Depth(pc[s]) = 1
    BY <1>6 DEF WaitPrompt, InUseAccounting, Depth, InSetup, TimedSetup
  <2>2. CASE NextSetupStep(s, age[s], in_use_count[s])
    BY <1>6, <2>1, <2>2, NextSetupStepInv DEF WaitPrompt
  <2>3. CASE FailSetup(s, 1) /\ UNCHANGED cliSetupLeft
    BY <1>6, <2>1, <2>3, FailSetupType
       DEF WaitPrompt, InUseAccounting, Depth, InSetup, TimedSetup
  <2>4. QED
    BY <1>6, <2>2, <2>3 DEF WaitPrompt
<1>7. ASSUME NEW s \in Sess, SetupCommandDone(s) PROVE IInv'
  <2>1. 0 \in 0..AgeCap
    BY AgeCapType
  <2>2. in_use_count[s] - 1 = 1
    BY <1>7 DEF SetupCommandDone, InUseAccounting, Depth, InSetup, TimedSetup
  <2>3. QED
    BY <1>7, <2>1, <2>2, NextSetupStepInv DEF SetupCommandDone
<1>8. ASSUME NEW s \in Sess, SetupCommandTimeout(s) PROVE IInv'
  <2>1. FailSetup(s, Depth(pc[s]))
    BY <1>8 DEF SetupCommandTimeout, Depth, InSetup, TimedSetup
  <2>2. QED
    BY <1>8, <2>1, FailSetupType DEF SetupCommandTimeout, InUseAccounting,
                                     Depth, InSetup, TimedSetup
<1>9. ASSUME NEW s \in Sess, SetupReturn(s) PROVE IInv'
  BY <1>9, AgeCapType DEF SetupReturn, InUseAccounting, Depth, InSetup,
                          TimedSetup, PcValues
<1>10. ASSUME NEW s \in Sess, RunCommandStart(s) PROVE IInv'
  BY <1>10, AgeCapType DEF RunCommandStart, InUseAccounting, Depth, InSetup,
                           TimedSetup, PcValues
<1>11. ASSUME NEW s \in Sess, RunCommandEnd(s) PROVE IInv'
  BY <1>11, AgeCapType DEF RunCommandEnd, InUseAccounting, Depth, InSetup,
                           TimedSetup, PcValues
<1>12. ASSUME NEW s \in Sess, OwnerClose(s) PROVE IInv'
  BY <1>12, CloseType DEF OwnerClose, InUseAccounting, Depth, InSetup,
                          TimedSetup, PcValues
<1>13. ASSUME NEW s \in Sess, SetupTimeout(s) PROVE IInv'
  <2>1. FailSetup(s, Depth(pc[s]))
    BY <1>13 DEF SetupTimeout, TimedOut, Depth, InSetup, TimedSetup
  <2>2. QED
    BY <1>13, <2>1, FailSetupType DEF SetupTimeout, InUseAccounting, Depth,
                                      InSetup, TimedSetup
<1>14. ASSUME NEW s \in Sess, ExitStatusReceived(s) PROVE IInv'
  BY <1>14 DEF ExitStatusReceived, InUseAccounting
<1>15. CASE ReaperWake
  BY <1>15 DEF ReaperWake, InUseAccounting
<1>16. CASE ReaperVisit
  <2>1. reaperKeys' \subseteq Sess /\ reaper' \in {"idle", "sweeping"}
    BY <1>16 DEF ReaperVisit, ReaperAbort
  <2>2. /\ ALL_SESSIONS' \subseteq Sess
        /\ conn' \in [Sess -> {"none", "open", "closed"}]
        /\ connected' \in [Sess -> BOOLEAN]
    BY <1>16 DEF ReaperVisit, CloseOk, CloseFailed
  <2>3. QED
    BY <1>16, <2>1, <2>2 DEF ReaperVisit, InUseAccounting
<1>17. CASE ReaperFinish
  BY <1>17 DEF ReaperFinish, InUseAccounting
<1>18. CASE Tick
  <2>1. age' \in [Sess -> 0..AgeCap]
    <3>1. SUFFICES ASSUME NEW s \in Sess
                   PROVE  (IF Live(s) THEN MinOf(age[s] + 1, AgeCap)
                                      ELSE age[s]) \in 0..AgeCap
      BY <1>18 DEF Tick
    <3>2. QED
      BY AgeCapType, MinOfType DEF MinOf
  <2>2. setupElapsed' \in [Sess -> Nat]
    BY <1>18 DEF Tick
  <2>3. QED
    BY <1>18, <2>1, <2>2 DEF Tick, InUseAccounting
<1>19. CASE UNCHANGED vars
  BY <1>19 DEF vars, InUseAccounting
<1>20. QED
  BY <1>1, <1>2, <1>3, <1>4, <1>5, <1>6, <1>7, <1>8, <1>9, <1>10, <1>11,
     <1>12, <1>13, <1>14, <1>15, <1>16, <1>17, <1>18, <1>19
     DEF Next, OwnerStep, ReaperStep

-----------------------------------------------------------------------------
\* Every reachable state is well typed (TypeOK of the runs), for every set
\* of sessions and every value of the timeouts.
THEOREM TypeCorrect == Spec => []TypeOK
<1>1. IInv => TypeOK
  BY DEF IInv
<1>2. QED
  BY InitIInv, NextIInv, <1>1, PTL DEF Spec

\* The decorator's in-use count, which each decorated call raises by one on
\* entry and lowers by one in its finally block (lines 144, 149), always
\* equals the number of decorated calls (setup, nested run_command,
\* run_command) the owner is inside, through timeouts and failures, so
\* the reaper's `not session.in_use` is exactly "no operation in progress"
\* (InUseAccounting of the runs).
THEOREM InUseCorrect == Spec => []InUseAccounting
<1>1. IInv => InUseAccounting
  BY DEF IInv
<1>2. QED
  BY InitIInv, NextIInv, <1>1, PTL DEF Spec

-----------------------------------------------------------------------------
(* The reaper never removes a session with an operation in progress.       *)
(* Only two kinds of step remove keys from the cache: close() by the       *)
(* owner (OwnerClose, FailSetup), which removes the owner's own key and    *)
(* moves its pc to "done", and the reaper's reap, which leaves pc alone    *)
(* and removes a Stale key; by InUseAccounting, in_use_count = 0 there     *)
(* means Depth(pc) = 0.                                                    *)

\* ReaperSparesStep, for one session.
Spares(t) ==
    (t \in ALL_SESSIONS /\ t \notin ALL_SESSIONS' /\ pc'[t] = pc[t])
        => (Depth(pc[t]) = 0 \/ age[t] > MAX_SESSION_LAST_ACCESS_TIMEOUT_S)

SparesAll == \A t \in Sess : Spares(t)

\* A step that leaves the cache as it is, or only adds to it, spares all.
LEMMA NoRemovalSpares ==
    ASSUME ALL_SESSIONS \subseteq ALL_SESSIONS'
    PROVE  SparesAll
BY DEF SparesAll, Spares

\* close() by the owner removes only the owner's key, and the owner moves.
LEMMA OwnerCloseSpares ==
    ASSUME TypeOK, NEW s \in Sess, Close(s), pc[s] # "done",
           pc' = [pc EXCEPT ![s] = "done"]
    PROVE  SparesAll
<1>1. ALL_SESSIONS' = ALL_SESSIONS \ {s}
  BY DEF Close, CloseOk, CloseFailed
<1>2. QED
  BY <1>1 DEF SparesAll, Spares, TypeOK

\* A stale session that is in the cache may be removed.
LEMMA StaleSpares ==
    ASSUME IInv, NEW k \in Sess, Stale(k), ALL_SESSIONS' = ALL_SESSIONS \ {k}
    PROVE  SparesAll
<1>1. Depth(pc[k]) = 0 \/ age[k] > MAX_SESSION_LAST_ACCESS_TIMEOUT_S
  BY DEF Stale, IInv, InUseAccounting
<1>2. QED
  BY <1>1 DEF SparesAll, Spares

LEMMA NextSpares == IInv /\ [Next]_vars => [SparesAll]_vars
<1> SUFFICES ASSUME IInv, [Next]_vars PROVE [SparesAll]_vars
  OBVIOUS
<1>1. ASSUME NEW s \in Sess, Close(s), pc[s] # "done",
             pc' = [pc EXCEPT ![s] = "done"]
      PROVE SparesAll
  BY <1>1, OwnerCloseSpares DEF IInv
<1>2. ASSUME NEW s \in Sess, OwnerStep(s) PROVE SparesAll
  <2>1. CASE WaitPrompt(s) \/ SetupCommandDone(s)
    <3>1. /\ pc[s] # "done"
          /\ \/ \E h : NextSetupStep(s, age[s], h) \/ NextSetupStep(s, 0, h)
             \/ FailSetup(s, 1)
      BY <2>1 DEF WaitPrompt, SetupCommandDone, IInv, TypeOK
    <3>2. CASE Close(s) /\ pc' = [pc EXCEPT ![s] = "done"]
      BY <3>1, <3>2, <1>1
    <3>3. CASE ALL_SESSIONS' = ALL_SESSIONS
      BY <3>3, NoRemovalSpares
    <3>4. QED
      BY <3>1, <3>2, <3>3 DEF NextSetupStep, FailSetup
  <2>2. CASE OwnerClose(s)
    BY <2>2, OwnerCloseSpares DEF OwnerClose, IInv
  <2>3. CASE ConnectFailed(s) \/ SetupCommandTimeout(s)
    BY <2>3, <1>1 DEF ConnectFailed, SetupCommandTimeout, FailSetup
  <2>4. CASE SessionInit(s) \/ ConnectionMade(s) \/ SessionConnected(s)
             \/ WaitUntilConnected(s) \/ SetupReturn(s)
             \/ RunCommandStart(s) \/ RunCommandEnd(s)
    BY <2>4, NoRemovalSpares
       DEF SessionInit, ConnectionMade, SessionConnected, WaitUntilConnected,
           SetupReturn, RunCommandStart, RunCommandEnd
  <2>5. QED
    BY <1>2, <2>1, <2>2, <2>3, <2>4 DEF OwnerStep
<1>3. ASSUME NEW s \in Sess, SetupTimeout(s) PROVE SparesAll
  BY <1>3, <1>1 DEF SetupTimeout, TimedOut, TimedSetup, FailSetup
<1>4. ASSUME NEW s \in Sess, ExitStatusReceived(s) PROVE SparesAll
  BY <1>4, NoRemovalSpares DEF ExitStatusReceived
<1>5. CASE ReaperVisit
  <2> DEFINE k == Oldest(reaperKeys)
  <2>1. CASE ALL_SESSIONS' = ALL_SESSIONS
    BY <2>1, NoRemovalSpares
  <2>2. CASE k \in ALL_SESSIONS /\ Stale(k) /\ ALL_SESSIONS' = ALL_SESSIONS \ {k}
    BY <2>2, StaleSpares DEF IInv, TypeOK
  <2>3. QED
    BY <1>5, <2>1, <2>2 DEF ReaperVisit, CloseOk, CloseFailed
<1>6. CASE ReaperWake \/ ReaperFinish \/ Tick
  BY <1>6, NoRemovalSpares DEF ReaperWake, ReaperFinish, Tick
<1>7. CASE UNCHANGED vars
  BY <1>7 DEF vars
<1>8. QED
  BY <1>2, <1>3, <1>4, <1>5, <1>6, <1>7 DEF Next, ReaperStep

\* The reaper (lines 111-127) closes a session that has a setup() or
\* run_command() in progress only once it is past the max lifetime
\* MAX_SESSION_LAST_ACCESS_TIMEOUT_S, for every number of sessions and
\* every value of the timeouts (ReaperSparesActiveSessions of the runs).
THEOREM ReaperSpares == Spec => ReaperSparesActiveSessions
<1>1. Spec => []IInv
  BY InitIInv, NextIInv, PTL DEF Spec
<1>2. IInv /\ [Next]_vars => [ReaperSparesStep]_vars
  BY NextSpares DEF SparesAll, Spares, ReaperSparesStep
<1>3. QED
  BY <1>1, <1>2, PTL DEF Spec, ReaperSparesActiveSessions

-----------------------------------------------------------------------------
(* No session leaks its connection when setup cannot outlive the max       *)
(* lifetime.  The leak of MCReapDuringConnect needs a reap while the owner *)
(* is inside asyncssh.create_connection (pc = "connecting"), when the      *)
(* connection does not exist yet.  While connecting, the session's access  *)
(* age is at most the time spent in setup, which the open_timeout timer    *)
(* bounds; with open_timeout <= MAX_SESSION_LAST_ACCESS_TIMEOUT_S the age  *)
(* never passes the max lifetime, and in_use_count = 1 rules out the idle  *)
(* bound, so a connecting session is never reaped.  Every other close      *)
(* closes the connection, unless _close() raises.                         *)

\* The configurations the theorem is about: _close() does not raise, and
\* every session has an open_timeout no longer than the max lifetime.
SetupWithinLifetime ==
    /\ ~CloseMayFail
    /\ \A s \in Sess : /\ open_timeout[s] \in Nat
                       /\ open_timeout[s] <= MAX_SESSION_LAST_ACCESS_TIMEOUT_S

\* The strengthening of NoLeakedSession.
LeakInv ==
    \A s \in Sess :
        /\ conn[s] = "open" => s \in ALL_SESSIONS
        /\ pc[s] = "done" => s \notin ALL_SESSIONS
        /\ pc[s] = "connecting" =>
              /\ s \in ALL_SESSIONS
              /\ age[s] <= setupElapsed[s]
              /\ setupElapsed[s] <= open_timeout[s]

\* A close by the owner (OwnerClose, FailSetup) keeps LeakInv.
LEMMA OwnerCloseLeak ==
    ASSUME TypeOK, LeakInv, SetupWithinLifetime, NEW s \in Sess, Close(s),
           pc' = [pc EXCEPT ![s] = "done"],
           \A t \in Sess \ {s} : age'[t] = age[t],
           UNCHANGED setupElapsed
    PROVE  LeakInv'
<1>1. CloseOk(s)
  BY DEF Close, SetupWithinLifetime
<1>2. QED
  BY <1>1 DEF CloseOk, LeakInv, TypeOK

\* FailSetup keeps LeakInv.
LEMMA FailSetupLeak ==
    ASSUME TypeOK, LeakInv, SetupWithinLifetime, NEW s \in Sess, NEW f,
           FailSetup(s, f),
           UNCHANGED setupElapsed
    PROVE  LeakInv'
BY OwnerCloseLeak DEF FailSetup, TypeOK

\* A connecting session is not stale.
LEMMA ConnectingNotStale ==
    ASSUME IInv, LeakInv, SetupWithinLifetime, NEW k \in Sess,
           pc[k] = "connecting"
    PROVE  ~Stale(k)
<1>1. in_use_count[k] = 1
  BY DEF IInv, InUseAccounting, Depth, InSetup, TimedSetup
<1>2. age[k] <= MAX_SESSION_LAST_ACCESS_TIMEOUT_S
  BY ConstantsAssumption DEF LeakInv, SetupWithinLifetime, IInv, TypeOK
<1>3. QED
  BY <1>1, <1>2, ConstantsAssumption DEF Stale, IInv, TypeOK

\* A step that leaves the cache, the connections, the setup clocks and the
\* ages alone and moves no owner to "connecting" or "done" keeps LeakInv.
LEMMA QuietLeak ==
    ASSUME LeakInv,
           UNCHANGED <<ALL_SESSIONS, conn, age, setupElapsed>>,
           \A t \in Sess : pc'[t] = pc[t] \/ pc'[t] \notin {"connecting", "done"}
    PROVE  LeakInv'
BY DEF LeakInv

LEMMA NextLeak ==
    SetupWithinLifetime /\ IInv /\ LeakInv /\ [Next]_vars => LeakInv'
<1> SUFFICES ASSUME SetupWithinLifetime, IInv, LeakInv, [Next]_vars
             PROVE  LeakInv'
  OBVIOUS
<1> USE DEF IInv
<1>1. ASSUME NEW s \in Sess, SessionInit(s) PROVE LeakInv'
  BY <1>1 DEF SessionInit, LeakInv, SetupWithinLifetime, TypeOK
<1>2. ASSUME NEW s \in Sess, ConnectionMade(s) PROVE LeakInv'
  BY <1>2 DEF ConnectionMade, LeakInv, TypeOK
<1>3. ASSUME NEW s \in Sess,
             \/ SessionConnected(s) \/ WaitUntilConnected(s)
             \/ SetupReturn(s) \/ RunCommandStart(s) \/ RunCommandEnd(s)
      PROVE LeakInv'
  <2>1. \A t \in Sess : pc'[t] = pc[t] \/ pc'[t] \notin {"connecting", "done"}
    BY <1>3 DEF SessionConnected, WaitUntilConnected, SetupReturn,
                RunCommandStart, RunCommandEnd, TypeOK
  <2>2. UNCHANGED <<ALL_SESSIONS, conn, setupElapsed>>
    BY <1>3 DEF SessionConnected, WaitUntilConnected, SetupReturn,
                RunCommandStart, RunCommandEnd
  <2>3. \A t \in Sess : pc'[t] = "connecting" => age'[t] = age[t]
    BY <1>3 DEF SessionConnected, WaitUntilConnected, SetupReturn,
                RunCommandStart, RunCommandEnd, TypeOK
  <2>4. QED
    BY <2>1, <2>2, <2>3 DEF LeakInv
<1>4. ASSUME NEW s \in Sess,
             ConnectFailed(s) \/ SetupCommandTimeout(s) \/ SetupTimeout(s)
      PROVE LeakInv'
  BY <1>4, FailSetupLeak DEF ConnectFailed, SetupCommandTimeout, SetupTimeout
<1>5. ASSUME NEW s \in Sess, WaitPrompt(s) \/ SetupCommandDone(s)
      PROVE LeakInv'
  <2>1. /\ pc[s] \in {"wait_prompt", "setup_cmd"}
        /\ UNCHANGED setupElapsed
        /\ \/ \E h : NextSetupStep(s, age[s], h) \/ NextSetupStep(s, 0, h)
           \/ FailSetup(s, 1)
    BY <1>5 DEF WaitPrompt, SetupCommandDone, TypeOK
  <2>2. CASE /\ Close(s)
             /\ pc' = [pc EXCEPT ![s] = "done"]
             /\ \A t \in Sess \ {s} : age'[t] = age[t]
    BY <2>1, <2>2, OwnerCloseLeak
  <2>3. CASE /\ UNCHANGED <<ALL_SESSIONS, conn>>
             /\ pc'[s] \in {"setup_return", "setup_cmd"}
             /\ \A t \in Sess \ {s} : pc'[t] = pc[t] /\ age'[t] = age[t]
    BY <2>1, <2>3 DEF LeakInv
  <2>4. QED
    BY <2>1, <2>2, <2>3 DEF NextSetupStep, FailSetup, TypeOK
<1>6. ASSUME NEW s \in Sess, OwnerClose(s) PROVE LeakInv'
  BY <1>6, OwnerCloseLeak DEF OwnerClose
<1>7. ASSUME NEW s \in Sess, ExitStatusReceived(s) PROVE LeakInv'
  BY <1>7, QuietLeak DEF ExitStatusReceived
<1>8. CASE ReaperWake \/ ReaperFinish \/ UNCHANGED vars
  BY <1>8, QuietLeak DEF ReaperWake, ReaperFinish, vars
<1>9. CASE ReaperVisit
  <2> DEFINE k == Oldest(reaperKeys)
  <2>1. CASE UNCHANGED <<ALL_SESSIONS, conn>>
    BY <1>9, <2>1, QuietLeak DEF ReaperVisit
  <2>2. CASE k \in ALL_SESSIONS /\ Stale(k) /\ CloseOk(k)
    <3>1. k \in Sess /\ pc[k] # "connecting"
      BY <2>2, ConnectingNotStale DEF TypeOK
    <3>2. QED
      BY <1>9, <2>2, <3>1 DEF ReaperVisit, CloseOk, LeakInv, TypeOK
  <2>3. QED
    BY <1>9, <2>1, <2>2 DEF ReaperVisit, SetupWithinLifetime
<1>10. CASE Tick
  <2>1. SUFFICES ASSUME NEW s \in Sess, pc[s] = "connecting"
                 PROVE  /\ age'[s] <= setupElapsed'[s]
                        /\ setupElapsed'[s] <= open_timeout[s]
    BY <1>10 DEF Tick, LeakInv
  <2>2. /\ open_timeout[s] \in Nat
        /\ setupElapsed[s] < open_timeout[s]
        /\ setupElapsed'[s] = setupElapsed[s] + 1
    BY <1>10, <2>1, ConstantsAssumption
       DEF Tick, TimedOut, TimedSetup, SetupWithinLifetime, TypeOK
  <2>3. age'[s] \in Nat /\ age'[s] <= age[s] + 1
    BY <1>10, <2>1, AgeCapType DEF Tick, Live, MinOf, TypeOK
  <2>4. QED
    BY <2>1, <2>2, <2>3 DEF LeakInv, TypeOK
<1>11. QED
  BY <1>1, <1>2, <1>3, <1>4, <1>5, <1>6, <1>7, <1>8, <1>9, <1>10
     DEF Next, OwnerStep, ReaperStep

\* When _close() does not raise and open_timeout is set and at most
\* MAX_SESSION_LAST_ACCESS_TIMEOUT_S for every session, no ready session
\* holds an open connection outside the cache and no finished session
\* holds one at all (NoLeakedSession of session_core): the leak that
\* reap_during_connect finds needs an unset or overlong open_timeout.
THEOREM NoLeakWithinLifetime ==
    ASSUME SetupWithinLifetime
    PROVE  Spec => []NoLeakedSession
<1>1. Init => IInv /\ LeakInv
  BY InitIInv DEF Init, LeakInv, PcValues
<1>2. IInv /\ LeakInv /\ [Next]_vars => (IInv /\ LeakInv)'
  BY NextIInv, NextLeak
<1>3. IInv /\ LeakInv => NoLeakedSession
  BY DEF LeakInv, NoLeakedSession
<1>4. QED
  BY <1>1, <1>2, <1>3, PTL DEF Spec
=============================================================================
