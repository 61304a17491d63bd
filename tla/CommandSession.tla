--------------------------- MODULE CommandSession ---------------------------
(***************************************************************************)
(* The session lifecycle of fbnet/command_runner/command_session.py, the   *)
(* process-wide session cache CommandSession._ALL_SESSIONS, the access     *)
(* tracking decorator _update_last_access_time_and_in_use and the periodic *)
(* SessionReaperTask, composed in one module because they share the cache  *)
(* and the in-use/last-access fields of every session.                     *)
(*                                                                         *)
(* Each session has one owner coroutine (the caller that constructed it    *)
(* with `async with`, then runs commands on it and closes it).  Its        *)
(* position is pc[s]; every value of pc is an await point of the code, so  *)
(* the interleavings of owners, transport callbacks and the reaper are     *)
(* exactly the orders the asyncio loop can run them in.  Time is kept per  *)
(* session as the age of the last access (time.time() - _last_access_time)*)
(* capped at AgeCap, one more than every bound it is compared with, so     *)
(* every comparison the reaper makes is exact.                             *)
(***************************************************************************)
EXTENDS Naturals, FiniteSets

CONSTANTS
    Sess,                               \* the session objects (keys)
    MAX_SESSION_IDLE_TIMEOUT_S,         \* --max_session_idle_timeout
    MAX_SESSION_LAST_ACCESS_TIMEOUT_S,  \* --max_session_last_access_timeout
    idle_timeout,                       \* opts["idle_timeout"] of each session
    open_timeout,                       \* opts["open_timeout"] of each session
    NoTimeout,                          \* opts.get(...) returned None
    CliSetupLen,                        \* len(devinfo.vendor_data.cli_setup)
    CloseMayFail                        \* whether _close() may raise

ASSUME ConstantsAssumption ==
    /\ IsFiniteSet(Sess)
    /\ MAX_SESSION_IDLE_TIMEOUT_S \in Nat
    /\ MAX_SESSION_LAST_ACCESS_TIMEOUT_S \in Nat
    /\ NoTimeout \notin Nat
    /\ idle_timeout \in [Sess -> Nat \cup {NoTimeout}]
    /\ open_timeout \in [Sess -> (Nat \ {0}) \cup {NoTimeout}]
    /\ CliSetupLen \in Nat
    /\ CloseMayFail \in BOOLEAN

\* The age at which every comparison of the reaper is already decided.
AgeCap == IF MAX_SESSION_IDLE_TIMEOUT_S > MAX_SESSION_LAST_ACCESS_TIMEOUT_S
          THEN MAX_SESSION_IDLE_TIMEOUT_S + 1
          ELSE MAX_SESSION_LAST_ACCESS_TIMEOUT_S + 1

VARIABLES
    pc,                 \* await point of the owner coroutine of each session
    ALL_SESSIONS,       \* keys present in CommandSession._ALL_SESSIONS
    birth,              \* insertion rank of each key (dict order)
    nCreated,           \* number of sessions constructed so far
    in_use_count,       \* CommandSession._in_use_count
    age,                \* time.time() - _last_access_time, capped at AgeCap
    setupElapsed,       \* time spent in asyncio.wait_for(.., open_timeout)
    cliSetupLeft,       \* cli_setup commands of setup not yet started
    connected,          \* CommandSession._connected
    conn,               \* the SSH connection: "none", "open" or "closed"
    reaper,             \* "idle" or "sweeping" (inside SessionReaperTask.run)
    reaperKeys          \* keys of list(self._sessions.keys()) not yet visited

vars == <<pc, ALL_SESSIONS, birth, nCreated, in_use_count, age, setupElapsed,
          cliSetupLeft, connected, conn, reaper, reaperKeys>>

PcValues == {"new", "connecting", "wait_connected", "wait_prompt",
             "setup_cmd", "setup_return", "ready", "running", "done"}

\* Await points inside setup() that asyncio.wait_for(open_timeout) can cancel.
TimedSetup == {"connecting", "wait_connected", "wait_prompt", "setup_cmd"}

\* Await points inside the @_update_last_access_time_and_in_use setup().
InSetup == TimedSetup \cup {"setup_return"}

\* Number of decorated calls (setup, run_command) the owner is inside at pc p.
Depth(p) == (IF p \in InSetup THEN 1 ELSE 0)
              + (IF p \in {"setup_cmd", "running"} THEN 1 ELSE 0)

\* A session whose object exists and whose owner has not finished with it.
Live(s) == pc[s] \notin {"new", "done"}

MinOf(a, b) == IF a <= b THEN a ELSE b

\* The open_timeout of setup() has expired: the timer callback is due.
TimedOut(s) == /\ pc[s] \in TimedSetup
               /\ open_timeout[s] # NoTimeout
               /\ setupElapsed[s] >= open_timeout[s]

-----------------------------------------------------------------------------
(* Mutated forms of definitions below, one per checked property.           *)

\* The reaper ignores in_use for the idle bound.
StaleIgnoringInUse(s) ==
    \/ age[s] > MAX_SESSION_LAST_ACCESS_TIMEOUT_S
    \/ age[s] > MinOf(idle_timeout[s], MAX_SESSION_IDLE_TIMEOUT_S)

\* The max-lifetime bound is also subject to `not in_use`.
StaleOnlyWhenIdle(s) ==
    /\ in_use_count[s] = 0
    /\ \/ age[s] > MAX_SESSION_LAST_ACCESS_TIMEOUT_S
       \/ age[s] > MinOf(idle_timeout[s], MAX_SESSION_IDLE_TIMEOUT_S)

\* _close() closes the channel but leaves the connection open.
CloseOkKeepsConn(s) ==
    /\ ALL_SESSIONS' = ALL_SESSIONS \ {s}
    /\ connected' = [connected EXCEPT ![s] = FALSE]
    /\ UNCHANGED conn

\* setup() fails, but the finally block of the nested run_command does not
\* run on cancellation: only the outer decorator gives its count back.
FailSetupKeepsNested(s, frames) ==
    /\ pc' = [pc EXCEPT ![s] = "done"]
    /\ in_use_count' = [in_use_count EXCEPT ![s] = @ - 1]
    /\ age' = [age EXCEPT ![s] = 0]
    /\ ALL_SESSIONS' = ALL_SESSIONS \ {s}
    /\ conn' = [conn EXCEPT ![s] = IF @ = "open" THEN "closed" ELSE @]
    /\ connected' = [connected EXCEPT ![s] = FALSE]

-----------------------------------------------------------------------------
(* close() (lines 372-386): the key is deleted from the cache, then in the *)
(* finally block _close() closes _chan and _conn, _cmd_stream is closed    *)
(* and _connected is cleared.  When _close() raises, the two last steps    *)
(* are skipped.                                                            *)
CloseOk(s) ==
    /\ ALL_SESSIONS' = ALL_SESSIONS \ {s}
    /\ conn' = [conn EXCEPT ![s] = IF @ = "open" THEN "closed" ELSE @]
    /\ connected' = [connected EXCEPT ![s] = FALSE]

CloseFailed(s) ==
    /\ ALL_SESSIONS' = ALL_SESSIONS \ {s}
    /\ UNCHANGED <<conn, connected>>

Close(s) == CloseOk(s) \/ (CloseMayFail /\ CloseFailed(s))

\* setup() raised (connect failure, Not Connected, command timeout, open
\* timeout): each of the frames decorated calls on the stack runs its
\* finally block (self._in_use_count -= 1), then __aenter__ closes the
\* session (lines 146-150, 258-263).
FailSetup(s, frames) ==
    /\ pc' = [pc EXCEPT ![s] = "done"]
    /\ in_use_count' = [in_use_count EXCEPT ![s] = @ - frames]
    /\ age' = [age EXCEPT ![s] = 0]
    /\ Close(s)

\* The session must be reaped (lines 111-118).
Stale(s) ==
    \/ age[s] > MAX_SESSION_LAST_ACCESS_TIMEOUT_S
    \/ /\ in_use_count[s] = 0
       /\ age[s] > MinOf(idle_timeout[s], MAX_SESSION_IDLE_TIMEOUT_S)

\* The next key of the snapshot, in dict insertion order.
Oldest(K) == CHOOSE k \in K : \A j \in K : birth[k] <= birth[j]

-----------------------------------------------------------------------------
Init ==
    /\ pc = [s \in Sess |-> "new"]
    /\ ALL_SESSIONS = {}
    /\ birth = [s \in Sess |-> 0]
    /\ nCreated = 0
    /\ in_use_count = [s \in Sess |-> 0]
    /\ age = [s \in Sess |-> 0]
    /\ setupElapsed = [s \in Sess |-> 0]
    /\ cliSetupLeft = [s \in Sess |-> CliSetupLen]
    /\ connected = [s \in Sess |-> FALSE]
    /\ conn = [s \in Sess |-> "none"]
    /\ reaper = "idle"
    /\ reaperKeys = {}

\* `async with SSHCommandSession(...)`: __init__ records the key in the
\* cache, then __aenter__ enters the decorated setup(), which starts
\* asyncio.wait_for(_create_connection(), open_timeout) and awaits
\* asyncssh.create_connection in _connect().
SessionInit(s) ==
    /\ pc[s] = "new"
    /\ pc' = [pc EXCEPT ![s] = "connecting"]
    /\ ALL_SESSIONS' = ALL_SESSIONS \cup {s}
    /\ birth' = [birth EXCEPT ![s] = nCreated]
    /\ nCreated' = nCreated + 1
    /\ in_use_count' = [in_use_count EXCEPT ![s] = @ + 1]
    /\ age' = [age EXCEPT ![s] = 0]
    /\ setupElapsed' = [setupElapsed EXCEPT ![s] = 0]
    /\ UNCHANGED <<cliSetupLeft, connected, conn, reaper, reaperKeys>>

\* SSHCommandClient.connection_made -> SSHCommandSession.connection_made
\* stores the connection in _conn.
ConnectionMade(s) ==
    /\ pc[s] = "connecting"
    /\ ~TimedOut(s)
    /\ conn[s] = "none"
    /\ conn' = [conn EXCEPT ![s] = "open"]
    /\ UNCHANGED <<pc, ALL_SESSIONS, birth, nCreated, in_use_count, age,
                   setupElapsed, cliSetupLeft, connected, reaper, reaperKeys>>

\* create_session opens the channel: CommandStream._on_connect calls
\* _session_connected, which sets _connected; _connect() then returns
\* the stream and setup goes on to wait_until_connected.
SessionConnected(s) ==
    /\ pc[s] = "connecting"
    /\ ~TimedOut(s)
    /\ conn[s] = "open"
    /\ connected' = [connected EXCEPT ![s] = TRUE]
    /\ pc' = [pc EXCEPT ![s] = "wait_connected"]
    /\ UNCHANGED <<ALL_SESSIONS, birth, nCreated, in_use_count, age,
                   setupElapsed, cliSetupLeft, conn, reaper, reaperKeys>>

\* asyncssh.create_connection or create_session raised (refused, auth
\* failure, connection closed under it): connect() re-raises.
ConnectFailed(s) ==
    /\ pc[s] = "connecting"
    /\ ~TimedOut(s)
    /\ FailSetup(s, 1)
    /\ UNCHANGED <<birth, nCreated, setupElapsed, cliSetupLeft, reaper,
                   reaperKeys>>

\* wait_until_connected: the condition's predicate self._connected holds.
WaitUntilConnected(s) ==
    /\ pc[s] = "wait_connected"
    /\ ~TimedOut(s)
    /\ connected[s]
    /\ pc' = [pc EXCEPT ![s] = "wait_prompt"]
    /\ UNCHANGED <<ALL_SESSIONS, birth, nCreated, in_use_count, age,
                   setupElapsed, cliSetupLeft, connected, conn, reaper,
                   reaperKeys>>

\* The loop of _setup_connection runs one command more than cli_setup has.
NextSetupStepOffByOne(s, returnAge, held) ==
    \/ /\ cliSetupLeft[s] = 0
       /\ pc' = [pc EXCEPT ![s] = "setup_return"]
       /\ in_use_count' = [in_use_count EXCEPT ![s] = held]
       /\ age' = [age EXCEPT ![s] = returnAge]
       /\ UNCHANGED <<cliSetupLeft, ALL_SESSIONS, connected, conn>>
    \/ /\ cliSetupLeft[s] >= 0
       /\ connected[s]
       /\ pc' = [pc EXCEPT ![s] = "setup_cmd"]
       /\ in_use_count' = [in_use_count EXCEPT ![s] = held + 1]
       /\ age' = [age EXCEPT ![s] = 0]
       /\ cliSetupLeft' = [cliSetupLeft EXCEPT ![s] = @ - 1]
       /\ UNCHANGED <<ALL_SESSIONS, connected, conn>>

\* The loop of _setup_connection moves on (returnAge is the access age
\* left by the step that got here, held the in-use count after it): it
\* enters the decorated
\* run_command for the next cli_setup command, whose _run_command raises
\* Not Connected at once when _connected is false (its decorator gives
\* back what it took, and setup()'s decorator unwinds); or, with no
\* command left, _create_connection returns.
NextSetupStep(s, returnAge, held) ==
    \/ /\ cliSetupLeft[s] = 0
       /\ pc' = [pc EXCEPT ![s] = "setup_return"]
       /\ in_use_count' = [in_use_count EXCEPT ![s] = held]
       /\ age' = [age EXCEPT ![s] = returnAge]
       /\ UNCHANGED <<cliSetupLeft, ALL_SESSIONS, connected, conn>>
    \/ /\ cliSetupLeft[s] > 0
       /\ connected[s]
       /\ pc' = [pc EXCEPT ![s] = "setup_cmd"]
       /\ in_use_count' = [in_use_count EXCEPT ![s] = held + 1]
       /\ age' = [age EXCEPT ![s] = 0]
       /\ cliSetupLeft' = [cliSetupLeft EXCEPT ![s] = @ - 1]
       /\ UNCHANGED <<ALL_SESSIONS, connected, conn>>
    \/ /\ cliSetupLeft[s] > 0
       /\ ~connected[s]
       /\ in_use_count' = [in_use_count EXCEPT ![s] = held - 1]
       /\ pc' = [pc EXCEPT ![s] = "done"]
       /\ age' = [age EXCEPT ![s] = 0]
       /\ Close(s)
       /\ UNCHANGED cliSetupLeft

\* wait_prompt returns: readuntil_re matched the prompt, or the stream hit
\* EOF and readuntil_re returned the whole buffer with an empty match; or
\* readuntil_re raised (buffer overrun, line 483; the transport's error
\* re-raised by read(), line 546) and setup() fails.
WaitPrompt(s) ==
    /\ pc[s] = "wait_prompt"
    /\ ~TimedOut(s)
    /\ \/ NextSetupStep(s, age[s], in_use_count[s])
       \/ /\ FailSetup(s, 1)
          /\ UNCHANGED cliSetupLeft
    /\ UNCHANGED <<birth, nCreated, setupElapsed, reaper, reaperKeys>>

\* The response of a cli_setup command arrives: the inner run_command's
\* decorator exits (access time updated), and the loop of
\* _setup_connection moves on.
SetupCommandDone(s) ==
    /\ pc[s] = "setup_cmd"
    /\ ~TimedOut(s)
    \* the inner run_command's finally block: _in_use_count -= 1
    /\ NextSetupStep(s, 0, in_use_count[s] - 1)
    /\ UNCHANGED <<birth, nCreated, setupElapsed, reaper, reaperKeys>>

\* A cli_setup command times out: _run_command raises "Command Response
\* Timeout" and setup() fails.
SetupCommandTimeout(s) ==
    /\ pc[s] = "setup_cmd"
    /\ ~TimedOut(s)
    /\ FailSetup(s, 2)
    /\ UNCHANGED <<birth, nCreated, setupElapsed, cliSetupLeft, reaper,
                   reaperKeys>>

\* asyncio.wait_for(open_timeout) returns after the inner task finished:
\* setup()'s decorator exits and __aenter__ returns the session.
SetupReturn(s) ==
    /\ pc[s] = "setup_return"
    /\ pc' = [pc EXCEPT ![s] = "ready"]
    /\ in_use_count' = [in_use_count EXCEPT ![s] = @ - 1]
    /\ age' = [age EXCEPT ![s] = 0]
    /\ UNCHANGED <<ALL_SESSIONS, birth, nCreated, setupElapsed, cliSetupLeft,
                   connected, conn, reaper, reaperKeys>>

\* The open_timeout fires: the inner task is cancelled, setup() drains the
\* stream and raises asyncio.TimeoutError, __aenter__ closes the session.
SetupTimeout(s) ==
    /\ TimedOut(s)
    \* the cancellation unwinds setup() and, in a cli_setup command, the
    \* nested run_command
    /\ FailSetup(s, IF pc[s] = "setup_cmd" THEN 2 ELSE 1)
    /\ UNCHANGED <<birth, nCreated, setupElapsed, cliSetupLeft, reaper,
                   reaperKeys>>
\* The decorated run_command (lines 388-390, 143-150): in_use and the
\* access time are updated on entry; _run_command raises Not Connected at
\* once when _connected is false (lines 718-721), which the decorator's
\* finally block turns into a second access update.
RunCommandStart(s) ==
    /\ pc[s] = "ready"
    /\ age' = [age EXCEPT ![s] = 0]
    /\ \/ /\ connected[s]
          /\ pc' = [pc EXCEPT ![s] = "running"]
          /\ in_use_count' = [in_use_count EXCEPT ![s] = @ + 1]
       \/ /\ ~connected[s]
          /\ UNCHANGED <<pc, in_use_count>>
    /\ UNCHANGED <<ALL_SESSIONS, birth, nCreated, setupElapsed, cliSetupLeft,
                   connected, conn, reaper, reaperKeys>>

\* run_command returns or raises (response, command timeout, EOF after the
\* transport went away): the decorator's finally block runs.
RunCommandEnd(s) ==
    /\ pc[s] = "running"
    /\ pc' = [pc EXCEPT ![s] = "ready"]
    /\ in_use_count' = [in_use_count EXCEPT ![s] = @ - 1]
    /\ age' = [age EXCEPT ![s] = 0]
    /\ UNCHANGED <<ALL_SESSIONS, birth, nCreated, setupElapsed, cliSetupLeft,
                   connected, conn, reaper, reaperKeys>>

\* The owner closes the session (__aexit__, or close() called by the user).
OwnerClose(s) ==
    /\ pc[s] = "ready"
    /\ pc' = [pc EXCEPT ![s] = "done"]
    /\ Close(s)
    /\ UNCHANGED <<birth, nCreated, in_use_count, age, setupElapsed,
                   cliSetupLeft, reaper, reaperKeys>>

\* CommandStream.exit_status_received -> exit_status_received: the remote
\* side ended the channel; the SSH connection itself stays open.
ExitStatusReceived(s) ==
    /\ connected[s]
    /\ connected' = [connected EXCEPT ![s] = FALSE]
    /\ UNCHANGED <<pc, ALL_SESSIONS, birth, nCreated, in_use_count, age,
                   setupElapsed, cliSetupLeft, conn, reaper, reaperKeys>>

-----------------------------------------------------------------------------
(* SessionReaperTask.run (lines 91-132).  The sweep takes list(keys), then *)
(* visits the keys in order; `await session.close()` is where other        *)
(* coroutines may run between two keys.  The whole loop is inside one      *)
(* try/except Exception, so an exception at any key ends the sweep.        *)

ReaperWake ==
    /\ reaper = "idle"
    /\ reaper' = "sweeping"
    /\ reaperKeys' = ALL_SESSIONS
    /\ UNCHANGED <<pc, ALL_SESSIONS, birth, nCreated, in_use_count, age,
                   setupElapsed, cliSetupLeft, connected, conn>>

\* Abandon the sweep: an exception escaped to the except clause.
ReaperAbort ==
    /\ reaper' = "idle"
    /\ reaperKeys' = {}

ReaperVisit ==
    /\ reaper = "sweeping"
    /\ reaperKeys # {}
    /\ LET k == Oldest(reaperKeys) IN
       \/ /\ k \notin ALL_SESSIONS                       \* closed meanwhile
          /\ reaperKeys' = reaperKeys \ {k}
          /\ UNCHANGED <<reaper, ALL_SESSIONS, connected, conn>>
       \/ /\ k \in ALL_SESSIONS                           \* min(None, ...)
          /\ idle_timeout[k] = NoTimeout
          /\ ReaperAbort
          /\ UNCHANGED <<ALL_SESSIONS, connected, conn>>
       \/ /\ k \in ALL_SESSIONS
          /\ idle_timeout[k] # NoTimeout
          /\ ~Stale(k)
          /\ reaperKeys' = reaperKeys \ {k}
          /\ UNCHANGED <<reaper, ALL_SESSIONS, connected, conn>>
       \/ /\ k \in ALL_SESSIONS                           \* reap
          /\ idle_timeout[k] # NoTimeout
          /\ Stale(k)
          /\ \/ /\ CloseOk(k)
                /\ reaperKeys' = reaperKeys \ {k}
                /\ UNCHANGED reaper
             \/ /\ CloseMayFail
                /\ CloseFailed(k)
                /\ ReaperAbort
    /\ UNCHANGED <<pc, birth, nCreated, in_use_count, age, setupElapsed,
                   cliSetupLeft>>

ReaperFinish ==
    /\ reaper = "sweeping"
    /\ reaperKeys = {}
    /\ reaper' = "idle"
    /\ UNCHANGED <<pc, ALL_SESSIONS, birth, nCreated, in_use_count, age,
                   setupElapsed, cliSetupLeft, connected, conn, reaperKeys>>

ReaperStep == ReaperWake \/ ReaperVisit \/ ReaperFinish

\* Time passes.  A due asyncio timer fires before the clock moves on.
Tick ==
    /\ \A s \in Sess : ~TimedOut(s)
    /\ \E s \in Sess : Live(s) /\ age[s] < AgeCap
    /\ age' = [s \in Sess |-> IF Live(s) THEN MinOf(age[s] + 1, AgeCap)
                                         ELSE age[s]]
    /\ setupElapsed' = [s \in Sess |->
                          IF pc[s] \in TimedSetup /\ open_timeout[s] # NoTimeout
                          THEN setupElapsed[s] + 1 ELSE setupElapsed[s]]
    /\ UNCHANGED <<pc, ALL_SESSIONS, birth, nCreated, in_use_count,
                   cliSetupLeft, connected, conn, reaper, reaperKeys>>

OwnerStep(s) ==
    \/ SessionInit(s)
    \/ ConnectionMade(s)
    \/ SessionConnected(s)
    \/ ConnectFailed(s)
    \/ WaitUntilConnected(s)
    \/ WaitPrompt(s)
    \/ SetupCommandDone(s)
    \/ SetupCommandTimeout(s)
    \/ SetupReturn(s)
    \/ RunCommandStart(s)
    \/ RunCommandEnd(s)
    \/ OwnerClose(s)

Next ==
    \/ \E s \in Sess : OwnerStep(s)
    \/ \E s \in Sess : SetupTimeout(s)
    \/ \E s \in Sess : ExitStatusReceived(s)
    \/ ReaperStep
    \/ Tick

\* The reaper is a periodic task and asyncio timers fire: both are weakly
\* fair.  Owners, devices and the transport get no fairness.
Spec == /\ Init /\ [][Next]_vars
        /\ WF_vars(ReaperStep)
        /\ WF_vars(Tick)
        /\ \A s \in Sess : WF_vars(SetupTimeout(s))

-----------------------------------------------------------------------------
(* Properties                                                              *)

TypeOK ==
    /\ pc \in [Sess -> PcValues]
    /\ ALL_SESSIONS \subseteq Sess
    /\ birth \in [Sess -> Nat]
    /\ nCreated \in Nat
    /\ in_use_count \in [Sess -> Nat]
    /\ age \in [Sess -> 0..AgeCap]
    /\ setupElapsed \in [Sess -> Nat]
    /\ cliSetupLeft \in [Sess -> 0..CliSetupLen]
    /\ connected \in [Sess -> BOOLEAN]
    /\ conn \in [Sess -> {"none", "open", "closed"}]
    /\ reaper \in {"idle", "sweeping"}
    /\ reaperKeys \subseteq Sess

\* The in-use counter kept by the decorator equals the number of decorated
\* calls the owner is inside, through nested run_command calls of setup,
\* timeouts that cancel them and failures that unwind them.
InUseAccounting == \A s \in Sess : in_use_count[s] = Depth(pc[s])

\* No session leaks a device connection: once its owner is done with it the
\* session is out of the cache and its connection is not open, and a
\* session set up and ready with its connection open can still be found in
\* the cache by CommandSession.get (spec 3, lifecycle).
NoLeakedSession ==
    \A s \in Sess :
        /\ pc[s] = "ready" /\ conn[s] = "open" => s \in ALL_SESSIONS
        /\ pc[s] = "done" => s \notin ALL_SESSIONS /\ conn[s] # "open"

\* A step that removes a session from the cache without its owner moving
\* (the reaper's reap) removes one with no operation in progress, or one
\* past the max lifetime.
ReaperSparesStep ==
    \A s \in Sess :
        (s \in ALL_SESSIONS /\ s \notin ALL_SESSIONS' /\ pc'[s] = pc[s])
            => (Depth(pc[s]) = 0 \/ age[s] > MAX_SESSION_LAST_ACCESS_TIMEOUT_S)

\* The reaper never removes a session while an operation of its owner
\* (setup or run_command) is in progress, unless the session was last
\* accessed more than MAX_SESSION_LAST_ACCESS_TIMEOUT_S ago (spec 4.1).
ReaperSparesActiveSessions == [][ReaperSparesStep]_vars

\* Cached sessions are reclaimed: one that stays cached and ready forever
\* is accessed again and again, and none stays cached in one run_command
\* forever (the idle and the max-lifetime bounds of the reaper).
StaleSessionsReaped ==
    \A s \in Sess :
        /\ <>[](s \in ALL_SESSIONS /\ pc[s] = "ready") => []<>(age[s] = 0)
        /\ []<>~(s \in ALL_SESSIONS /\ pc[s] = "running")

\* When a sweep of the reaper ends, the only key of its snapshot left
\* unvisited is the one it failed at, or keys no longer cached: one
\* session's failure (min(None, ...), a raising _close()) does not stop
\* the sweep of the remaining sessions (spec 4.1).
SweepVisitsAll ==
    [][(reaper = "sweeping" /\ reaper' = "idle")
         => \A k \in reaperKeys : k = Oldest(reaperKeys) \/ k \notin ALL_SESSIONS']_vars
=============================================================================
