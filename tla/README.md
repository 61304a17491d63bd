# Formal model of fbnet/command_runner/command_session.py

This directory holds TLA+ models of the command session layer of FCR
(`src/fbnet/command_runner/command_session.py`), TLC configurations that
model-check them, and TLAPS proofs about them.

## 1. Inventory

### Components, their state and their operations

| Component | Code | State | Operations |
|---|---|---|---|
| Session cache | `CommandSession._ALL_SESSIONS` (166), `get` (280-286), `get_session_count`/`wait_sessions` (243-256) | dict key -> session, in insertion order; key = `(id(self), client_ip, client_port)` | insert in `__init__` (206), delete in `close` (379-380) and in the reaper (125-126); lookups |
| Reaper | `SessionReaperTask.run` (91-132) | the snapshot `list(keys)`, the current key | periodic sweep: skip keys closed meanwhile, compute `min(idle_timeout, MAX_IDLE)`, close a session that is past the max-lifetime bound or idle and not in use, then delete its key and bump a counter |
| Access tracking | `_update_last_access_time_and_in_use` (135-152) | `_in_use_count`, `_last_access_time` of each session | +1 and timestamp on entry, -1 and timestamp in `finally`, around `setup` and `run_command` |
| Session lifecycle | `CommandSession` (155-437), `CliCommandSession` (612-778), `SSHCommandSession` (800-881) | `_connected`, `_exit_status`, `_conn`, `_chan`, `_cmd_stream`, stream reader/writer | `__init__`, `__aenter__` -> `setup` (open_timeout) -> `connect` -> `_connect` (asyncssh) -> `wait_until_connected` -> `_setup_connection` (wait for the prompt, run `cli_setup`), `close`, `__aexit__` |
| Transport callbacks | `SSHCommandClient.connection_made` (795-797), `CommandStream._on_connect` (584-593), `exit_status_received` (608-609, 775-778) | set `_conn`, inject `"\n"`, set `_connected`, schedule `_notify`; clear `_connected` | called by asyncssh in between the owner's awaits |
| Readiness condition | `wait_for` / `_notify` (419-437) | an `asyncio.Condition` (lock + waiters) | acquire, `wait_for(predicate)` under `asyncio.wait_for(timeout)`, release; notify_all from a task |
| Stream matcher | `CommandStreamReader` (440-567) | the byte buffer, eof flag, limit | `wait_for(predicate)`: quick waits for the first second, then 1 s data polls; overrun check; `readuntil_re` (match, read up to the match end, EOF path); `drain` |
| Command pipeline | `CliCommandSession._run_command` (714-760) | per call: list of commands, outputs | reject when not connected, drain stale data, for each line: write precmd and command, wait for the prompt under a timeout, format; on timeout drain and raise |
| Output formatting | `_fixup_whitespace`, `_format_output` (661-712) | none (pure) | strip backspace/bell, normalise line ends, replace the echoed command, prepend the prompt |

### How they interact

All of it runs on one asyncio loop. A coroutine runs alone until it
awaits; the interleavings are therefore the orders in which the owner
coroutines (one per session: the caller that created it, runs commands on
it and closes it), the reaper task, the asyncssh callbacks and the timers
of `asyncio.wait_for` can be resumed. They share the cache, and the
`_connected`, `_in_use_count` and `_last_access_time` fields of every
session. The reaper reads `in_use` and the last access time written by the
decorator; `close()` can be called by the owner and by the reaper on the
same session; the transport callbacks change `_connected` under an owner
that is waiting.

### What is hard

* Interleavings: the reaper may run at every await of an owner, including
  inside setup, between the handshake and the channel open, and in the
  short window after the setup task has finished and before
  `asyncio.wait_for` resumes its caller.
* Timeouts: `open_timeout` cancels setup at any await, through nested
  `run_command` calls; a command timeout leaves the device answering.
* Failure: `_close()` may raise in a `finally` block; `min()` raises on an
  unset `idle_timeout`; a single `try` around the whole sweep.
* Ordering: callbacks set `_connected` after a close; EOF races the prompt.
* Bounds: the stream buffer limit, the idle and max-lifetime bounds.

### What makes each component correct

* Cache and reaper: at most one entry per key; an idle session (not in
  use, past `min(idle_timeout, MAX_IDLE)`) and a stuck one (past the max
  lifetime) are eventually removed; a session with an operation in
  progress is never removed before the max lifetime; one failure does not
  stop the sweep.
* Access tracking: the in-use count is the number of decorated calls in
  progress, whatever raises or is cancelled.
* Lifecycle: closing is final; no closed or finished session keeps a
  device connection; a connected, ready session can be found in the cache.
* Readiness: no wake-up is lost; every waiter returns when its predicate
  becomes true or its timeout expires; the lock is free when nobody is
  inside `wait_for`/`_notify`.
* Stream matcher: the match returned is the first match in the data;
  an overrun is reported once the buffer passes the limit; EOF returns the
  whole buffer with an empty match.
* Pipeline: a response returned for a command is that command's output.

The hazards these properties are aimed at are listed, each at its line,
under `hazards` in `PROJECT.json`.

## 2. Plan

Modules, in order of importance:

1. **CommandSession** (done): cache, reaper, access tracking and the
   session lifecycle, composed in one module because they share the cache
   and the per-session fields. **CommandSessionProofs** holds its
   theorems.
2. **CommandPipeline** (done, section 4): the stream matcher
   (`CommandStreamReader` over asyncio's `StreamReader`) and
   `_run_command`, with a device that answers each command with output
   and then its prompt, possibly late or never, and a transport that may
   end or fail. **StreamChannel** is the abstract FIFO channel it
   implements; **CommandPipelineProofs** holds its theorems.
3. **Readiness** (done, section 5): the `asyncio.Condition` of
   `wait_for`/`_notify` with its lock, and the two callbacks that change
   `_connected`. **ConditionWait** is the abstract promise of `wait_for`
   that it implements; **ReadinessProofs** holds its theorems.
4. **OutputFormat** (TLC only, may use RECURSIVE): `_fixup_whitespace`
   and `_format_output` over short symbol strings. Idempotence and the
   round trip of spec 8 would be checked against a reference definition.
5. **SessionRegistry** (abstract): the cache as a set, with insert on
   create and removal on close or reap. CommandSession would refine it
   through `INSTANCE ... WITH`, checked as a PROPERTY and proved step by
   step.

Still to do: the SessionRegistry refinement, and OutputFormat.

## 3. The CommandSession module

### State

| Variable | Code |
|---|---|
| `pc[s]` | await point of the owner coroutine of session `s` |
| `ALL_SESSIONS` | the keys of `CommandSession._ALL_SESSIONS` |
| `birth[s]`, `nCreated` | insertion order of the dict (the order of `list(keys)`) |
| `in_use_count[s]` | `_in_use_count` |
| `age[s]` | `time.time() - _last_access_time`, capped at `AgeCap` |
| `setupElapsed[s]` | time spent inside `asyncio.wait_for(..., open_timeout)` |
| `cliSetupLeft[s]` | `cli_setup` commands not yet started by `_setup_connection` |
| `connected[s]` | `_connected` |
| `conn[s]` | the SSH connection held in `_conn`: none, open, closed |
| `reaper`, `reaperKeys` | inside `SessionReaperTask.run`, and the keys of the snapshot not yet visited |

A session is identified with its key: the key contains `id(self)`, which
CPython does not reuse while the object is alive, and only a live object
can be closed.

Owner positions: `new` -> `connecting` (in `asyncssh.create_connection`)
-> `wait_connected` -> `wait_prompt` -> `setup_cmd` (a nested
`run_command` of `cli_setup`) -> `setup_return` (the setup task has
finished, `asyncio.wait_for` has not yet resumed) -> `ready` <-> `running`
-> `done`.

### Actions

One per handler or resumption: `SessionInit` (`__init__` + entry of
`setup`), `ConnectionMade`, `SessionConnected` (channel opened:
`_on_connect`, `_session_connected`, return of `_connect`), `ConnectFailed`,
`WaitUntilConnected`, `WaitPrompt` and `SetupCommandDone` (both continue
the `_setup_connection` loop through `NextSetupStep`: next nested
`run_command`, Not Connected, or return), `SetupCommandTimeout`,
`SetupReturn`, `SetupTimeout`, `RunCommandStart` (including the immediate
Not Connected), `RunCommandEnd`, `OwnerClose`, `ExitStatusReceived`,
`ReaperWake`, `ReaperVisit`, `ReaperFinish`, `Tick`. `WaitPrompt` also
fails setup when `readuntil_re` raises (overrun at line 483, a transport
error re-raised at line 546). `FailSetup(s, frames)` is the unwinding of
a failed setup: the `finally` of each of the `frames` decorated calls on
the stack (`_in_use_count -= 1` each), then `close()` from `__aenter__`.

The in-use count is changed as the decorator changes it: `+1` on entry
(line 144) and `-1` in `finally` (line 149), never set to a value. Entry
into `setup` (`SessionInit`), into a nested `cli_setup` `run_command`
(`NextSetupStep`) and into `run_command` (`RunCommandStart`) add one. The
inner call's return (`SetupCommandDone`), `SetupReturn` and
`RunCommandEnd` take one off. A failure takes off as many as there are
frames at the place it fails: one in `connecting` and `wait_prompt`, two
in `setup_cmd`. `Close` is `close()` with `_close()` succeeding or (when
`CloseMayFail`) raising after the key has been deleted.

The reaper is modelled one key per step. In SSH sessions `_close()` never
awaits, so a real sweep runs without interruption; the model lets other
coroutines run between keys, as they do for session classes whose
`_close()` awaits (the comment at lines 106-108 relies on it). What holds
in the model therefore holds for both.

Time: `Tick` advances every live session's age (capped at
`AgeCap = max(MAX_IDLE, MAX_LAST_ACCESS) + 1`, at which every comparison of
the reaper is decided) and the setup timers. A due timer fires before time
moves on (`Tick` is disabled while some `TimedOut(s)` holds).

Fairness: weak fairness of the reaper (a periodic task), of `Tick` (time
passes) and of `SetupTimeout` (asyncio fires due timers). Owners, devices
and asyncssh get none: a caller may never run another command and a
device may never answer.

### Properties

* `TypeOK`.
* `InUseAccounting`: `in_use_count[s]`, built from the decorator's `+1`
  and `-1`, equals the number of decorated calls the owner is inside
  (`Depth(pc[s])`). This holds through the nested `cli_setup` commands,
  cancellation by the open timeout and failures. A `finally` that does
  not run on cancellation (the mutant `FailSetupKeepsNested`) breaks it.
* `NoLeakedSession`: a ready session with an open connection is in the
  cache; a session whose owner is done is out of the cache with its
  connection not open.
* `ReaperSparesActiveSessions` (action property): a step that removes a
  session from the cache without its owner moving (that is, the reaper)
  only removes sessions with no operation in progress, or past the max
  lifetime.
* `StaleSessionsReaped` (liveness): a session that stays cached and ready
  forever is accessed infinitely often (else the idle bound reaps it), and
  no session stays cached in one `run_command` forever (the max lifetime).
* `SweepVisitsAll` (action property): when a sweep ends, every key of its
  snapshot left unvisited is the one it failed at or a key no longer
  cached. In other words, one session's failure does not stop the sweep
  of the others (spec 4.1).

### Runs

| Run | Config | Expect | Shows |
|---|---|---|---|
| session_core | `MCCommandSession.cfg` | pass | two sessions (idle bounds 1 and 3 against a global maximum of 2, max lifetime 3, open timeout 2, one `cli_setup` command): all five properties; about 100k states |
| session_faults | `MCSessionFaults.cfg` | pass | `s2` without `idle_timeout` and `open_timeout`, `_close()` may raise, two `cli_setup` commands: the in-use accounting and the reaper's protection of active sessions survive every fault |
| sweep_abort | `MCSweepAbort.cfg` | violation | `SweepVisitsAll`: `s2` (no `idle_timeout`) is the oldest key of the snapshot `{s1, s2}`; `min(None, ...)` raises there and the sweep ends without visiting `s1`, still cached |
| reap_during_connect | `MCReapDuringConnect.cfg` | violation | `NoLeakedSession`: `s2` (no `open_timeout`) is reaped while connecting, then connects and becomes ready outside the cache |

The bounds: two sessions are enough for every interaction here (the
reaper and one session are the actors of each property; the second
session makes the sweep order and the skip of a vanished key matter).
The time constants are the smallest that separate the cases: an idle bound
below and one above the global maximum, an open timeout below the max
lifetime (so that in session_core setup can never be reaped, which is why
`NoLeakedSession` holds there) and an age cap one above the largest bound.

### Findings

Both are in `PROJECT.json` under `findings`:

1. The `try` of `SessionReaperTask.run` wraps the whole loop (line 131):
   any exception at one key (an unset `idle_timeout` makes `min` raise at
   line 113; a failing `_close()`) ends the sweep, contrary to spec 4.1.
2. A close by the reaper does not cancel a setup still inside
   `asyncssh.create_connection` (lines 124, 795-813, 762-773): the handshake
   completes afterwards and the session is connected and ready but no longer
   in the cache. This needs a setup that outlasts the max lifetime, which
   happens when `open_timeout` is unset.

## 4. The CommandPipeline module

`CommandPipeline.tla` models one connected session running commands. It
covers `_run_command` (714-760), `CommandStreamReader.wait_for`,
`readuntil_re` and `drain` (459-567), and the parts of asyncio's
`StreamReader` they drive: `_buffer`, `_eof`, `_exception`, `_paused`,
`_waiter`, `feed_data`, `feed_eof`, `set_exception` and
`_wait_for_data`. The other end of the stream is a device, and
`CommandStream` (570-609) sits between them.

`Last` and `Front` are defined in the module itself rather than taken
from SequencesExt, so that the proof module can use it (SequencesExt
reaches RECURSIVE operators).

### Refinement of StreamChannel

`StreamChannel.tla` states what the reader promises its callers. It is a
FIFO channel of symbols with three actions: `Send` appends a symbol while
the channel is open, `Take(n)` removes a prefix of `n` symbols and counts
them in `taken`, and `Close` closes it. The mapping is
`q <- buf, taken <- delivered, closed <- (eof \/ exc)`. `data_received`
is a `Send`. `feed_eof` and `set_exception` are a `Close`. A return of
`readuntil_re` or `drain` is a `Take` of the matched or drained prefix.
Every other step is a stutter. A reader that returned a match but left
it in the buffer (the mutant `MatchStepKeepsPrompt`) breaks the mapping.

### State

The stream is a sequence of symbols. A symbol is either a chunk of the
output of command `c` or the prompt that ends the answer to `c`. Each
symbol carries its serial number `n` on the wire, so that what the caller
is handed can be compared with what the device sent.

The prompt regex ends in `\s*$` (line 533), so it can only match at the
end of the buffer. It is therefore abstracted to `PromptAt(b)`: the
buffer ends with a prompt.

The variables are:

* the reader's `buf`, `eof`, `exc`, `paused` and `waiter` (`none`,
  `pending`, `woken` by data or EOF, `failed` by an exception);
* the device's queue of unanswered commands `dev`, and `devOut`, the
  chunks it has sent of the first of them;
* the counters `nSent` and `delivered`;
* the caller's `rc` (`idle`, or in the `quick` or `slow` branch of
  `wait_for`), `cur` and `nextCmd`;
* `_connected`;
* `resp`, the outcome of the last call: its kind, data, matched text and
  command;
* a ghost `overran`, set when the buffer passed the limit with no prompt
  while the caller was in the slow loop.

### Actions

One pass of the `wait_for` loop followed by the rest of `readuntil_re` is
`Evaluate`. It is the disjunction of four steps:

* `MatchStep`: `read(m_end)`, which raises a pending exception first;
* `OverrunStep`: line 482;
* `EofStep`: the `AssertionError` of `_wait_for_data`, then the EOF path
  at 549-558;
* `WaitStep`: resume the transport and park, in the quick or the slow
  branch.

The caller's actions are:

* `RunCommand`: the not-connected rejection, the drain (which raises a
  pending error), the write, and the first test on the emptied buffer.
* `Resume`: the quick wait returns, and the predicate is tested again.
* `SlowResume`: the slow loop's inner `while True` waits again without
  testing anything.
* `SlowPollTimeout`: the 1 s data timer expires, and the predicate is
  tested again.
* `CmdTimeout`: the per-command timer expires; the buffer is drained and
  `Command Response Timeout` is raised.

The environment's actions are `DeviceOutput` and `DevicePrompt` (through
`Feed`, i.e. `feed_data`, with its wake-up and its pause above twice the
limit), `TransportEof`, `TransportError` and `ExitStatusReceived`.

Fairness is weak fairness on `Resume`, `SlowResume` and `SlowPollTimeout`:

* the event loop runs a woken coroutine;
* the 1 s data timer fires whenever the slow loop is parked.

The device, the transport and the per-command timer get none, so
liveness holds without relying on them.

### Runs

| Run | Config | Expect | Shows |
|---|---|---|---|
| pipeline_core | `MCPipeline.cfg` | pass | 3 commands, 2 chunks each, limit 1, all faults (40k states). `StreamIntact`: no symbol is lost, repeated or reordered between the device and the caller. `PromptEventuallyMatched`: an arrived prompt is always matched. `EofEndsWait`: end of stream always ends the wait. `StreamRefined`: the pipeline implements StreamChannel |
| late_prompt | `MCLatePrompt.cfg` | violation | `ResponseBelongsToCommand`: after a timeout, the next command returns the old command's prompt |
| eof_response | `MCEofResponse.cfg` | violation | `SuccessHasPrompt`: EOF under a wait is returned as output |
| overrun_as_timeout | `MCOverrunTimeout.cfg` | violation | `OverrunNotTimeout`: a buffer past the limit ends as a timeout |
| slow_loop_growth | `MCSlowLoopGrowth.cfg` | violation | `BufferBounded`: the slow loop resumes the paused transport and the buffer grows |
| lost_error | `MCLostError.cfg` | violation | `ErrorEndsWait`: an error after a data wake-up is not seen |

The bounds: a limit of one chunk and two chunks per command let the
buffer pass the limit, and pass twice the limit over two commands. Three
commands let a late prompt of command 1 reach command 2 while command 3
is still to come. Each violation run uses the smallest instance that
exhibits its trace.

### Findings

All five are in `PROJECT.json` under `findings`:

1. **Late prompt** (line 757): a command timeout leaves the session open
   with the device still answering. The late prompt is matched by the next
   command, which returns the previous command's output as its own.
2. **EOF returned as output** (line 754): `readuntil_re` returns the
   partial buffer with an empty match, as spec 4.3 asks. `_run_command`
   then formats it and returns it as the command's output.
3. **Overrun reported as a timeout** (line 492): the limit is tested only
   when the predicate is tested again. The inner `while True` of the slow
   loop tests neither. In the trace the buffer passes the limit while the
   caller is in that loop, and the per-command timer then reports it as a
   timeout, against spec 7. Running the loop once more would not help,
   since it does not test the limit.
4. **Unbounded growth** (line 493): each `_wait_for_data` of the slow loop
   resumes a transport that `feed_data` paused, so flow control never
   holds.
5. **Lost transport error** (line 465): `wait_for` tests `_exception` only
   on entry, and `set_exception` wakes only a pending waiter. An error
   after a data wake-up leaves the reader waiting on a dead transport until
   the per-command timer, against spec 5 (Cancellation).

The clamped negative `start` of `regex.search` (line 650) is not a
hazard: with the pattern anchored at the end it changes how much is
searched, not what matches.

## 5. The Readiness module

`Readiness.tla` models `CommandSession.wait_for` and `_notify`
(419-437), over the `asyncio.Condition` `_event`, together with
`_session_connected` (762-773) and `exit_status_received` (775-778). Each
action is one step between awaits:

* `Call`: the acquire of line 431 starts.
* `Acquire`: the lock is granted, and `cond.wait_for` tests the predicate.
  If it holds, the call returns and the lock is released at line 437.
  Otherwise the caller parks in `cond.wait`, which releases the lock.
* `Notify`: the whole `_notify` task. When the lock is free its acquire
  does not yield, and `notify_all` moves every parked caller to `woken`.
* `Reacquire`: a woken caller gets the lock back and tests the predicate
  again.
* `Timeout`: the timer of line 432 cancels the inner wait.
* `CancelledReacquire`: `cond.wait` re-acquires the lock before the
  cancellation leaves it. The `TimeoutError` then skips line 437, and the
  lock stays held.
* `SessionConnected`: `_connected` is set and one `_notify` is
  scheduled.
* `ExitStatusReceived`: `_connected` is cleared, with no notify.

The constants are the set of calls `Waiters`, the predicate `WaitsFor`
(`"connected"` as in `wait_until_connected`, or `"exited"`) and
`HasTimeout`. Fairness is weak fairness on every step that needs only a
free lock and a runnable task. `SpecTimed` adds weak fairness on the
timers; it is used where a timeout is set, because asyncio's timer then
always fires.

`ConditionWait.tla` is what `wait_for` promises. Each call goes from
idle to waiting. From there it either returns in a state where its
predicate holds, or gives up when a timeout was passed. The channel
connects once and may then exit. The mapping sends `idle` to `idle`,
`done` and `timedout` to themselves, and every other place to `waiting`.
Under it, a successful test under the lock is a `Return` and
`CancelledReacquire` is a `GiveUp`. A failed test, a `notify_all` and a
cancellation are stutters. The mutant `ReacquireNoTest` returns after a
wake-up without testing again, as `cond.wait()` in place of
`cond.wait_for()` would. It breaks the mapping: `exit_status_received`
can clear `_connected` between the `notify_all` and the re-acquire.

| Run | Config | Expect | Shows |
|---|---|---|---|
| readiness_timeouts | `MCReadinessTimeouts.cfg` | pass | 3 timed calls on `_connected`. `NoLostWakeup`: a caller parked while connected has a `_notify` to come. `ReadyWaiterWakes`: a caller whose predicate holds gets out, unless a timed-out call kept the lock. `WaitRefined`: Readiness implements ConditionWait |
| lock_leak | `MCLockLeak.cfg` | violation | `TimedWaitReturns`: after one call timed out, a second blocks forever at line 431 |

Findings:

* **Lock leak** (line 437): a timed-out `wait_for` keeps the lock. The
  next `wait_for` on the session blocks on an acquire that its timeout
  does not cover, and so does a later `_notify`.
* **Exit status not notified** (line 777, not a hazard of this file):
  spec 4.2 asks for re-evaluation on exit-status receipt, and
  `exit_status_received` does not notify. For the one predicate this file
  passes (`_connected`) nothing is lost, because that predicate only
  becomes false. `WaitsFor = "exited"` makes `NoLostWakeup` fail, which
  shows what a predicate over the exit status would miss.

Three calls are enough for a leaker, a blocked caller and one that still
gets through.

## 6. Proofs

`CommandSessionProofs.tla` proves, for every value of the constants under
`ConstantsAssumption`:

* `TypeCorrect`: `Spec => []TypeOK`;
* `InUseCorrect`: `Spec => []InUseAccounting`;
* `ReaperSpares`: `Spec => ReaperSparesActiveSessions`;
* `NoLeakWithinLifetime`: under `SetupWithinLifetime` (`_close()` does not
  raise, every `open_timeout` is set and `<= MAX_SESSION_LAST_ACCESS_TIMEOUT_S`),
  `Spec => []NoLeakedSession`.

Neither `TypeOK` nor `InUseAccounting` is inductive alone. `TypeOK`
needs `InUseAccounting`: the decorator's `-1` keeps the count in `Nat`
only because the count before it is the number of frames. `InUseAccounting`
needs `TypeOK` to reason about the function updates. The inductive
invariant is `IInv == TypeOK /\ InUseAccounting`. Each step changes the
count by what the decorator adds or takes, and `Depth` changes by the
same amount. A failed setup takes off `Depth(pc[s])` at the place it
fails, which leaves 0 at `done`.
The proof has one step per action of `Next`; the setup loop
(`NextSetupStep`), the unwinding (`FailSetup`) and `Close` have lemmas of
their own, cited where the actions use them.

`ReaperSpares` follows from `IInv` one step at a time (`NextSpares`): only
`close()` removes keys. A close by the owner removes the owner's own key
and moves its `pc` to `done`. A reap leaves `pc` alone and removes a
`Stale` key, and by `InUseAccounting` a zero `in_use_count` there means
`Depth(pc) = 0`.

`NoLeakWithinLifetime` needs a stronger invariant, `LeakInv`:

* an open connection belongs to a cached session;
* a done owner's key is out of the cache;
* a connecting session is cached, its age is at most `setupElapsed`, and
  `setupElapsed` is at most `open_timeout`.

The last clause is the heart of the proof. The timer blocks `Tick` once
`setupElapsed` reaches `open_timeout`, so a connecting session's age never
passes the max lifetime. Its `in_use_count` is 1, so the idle bound does
not apply either. Hence the reaper never closes a session before its
connection exists, and every other close closes the connection. TLC checked
`LeakInv` as an invariant of session_core, and again with
`open_timeout = MAX_SESSION_LAST_ACCESS_TIMEOUT_S` (the boundary), before
it was proved. The violation run `reap_during_connect` shows the property
failing when the hypothesis does not hold.

`ReadinessProofs.tla` proves, for every set of callers:

* `TypeCorrect`: `Spec => []TypeOK`. This includes the bound of one
  scheduled `_notify`, which needs `NotifyAfterConnect` (none before
  `_session_connected`) as a strengthening.
* `NoLostWakeupConnected`: for the predicate of `wait_until_connected`,
  `Spec => []NoLostWakeup`, with or without timeouts. The inductive
  invariant is the type invariant, `NotifyAfterConnect` and
  `NoLostWakeup` itself. The argument has three parts:
  * a caller parks only on a false predicate;
  * `_connected` becomes true only together with a scheduled `_notify`;
  * that `_notify` leaves no caller parked.

In these proofs SMT cannot derive `x \in BOOLEAN` from `x = FALSE`, so
the Boolean facts of the initial state are proved by Zenon in a step of
their own.

* `WaitRefinement`: `Spec => WaitRefined`, for either predicate and with
  or without a timeout. The invariant is the type invariant plus
  `CancelledTimed`: a call is cancelled only when a timeout was passed,
  which is what makes the re-acquire after a cancellation a `GiveUp`.
  The step lemma `WaitStepRefines` splits `Acquire` and `Reacquire` on
  the predicate.

`CommandPipelineProofs.tla` proves, for every `NCmds`, `OutLen` and
`Limit` under `PipelineAssumption`:

* `TypeCorrect`: `Spec => []TypeOK`;
* `StreamIntactHolds`: `Spec => []StreamIntact`;
* `StreamRefinement`: `Spec => StreamRefined`.

None of them is inductive alone. The inductive invariant
`IInv == BufInv /\ RespInv /\ DeviceInv` has three parts:

* `BufInv`: `delivered + Len(buf) = nSent`, and the buffer is the
  consecutive run of symbols numbered from `delivered`;
* `RespInv`: the last response is a consecutive run that ends at
  `resp.upto <= delivered`, and its matched part is empty or one prompt;
* `DeviceInv`: the device's accounting. The number of symbols sent is at
  most `Answered * (OutLen + 1) + devOut`, where `Answered` counts the
  commands the device has finished answering.

The accounting part is needed for the types. `Feed` numbers the next
symbol `nSent + 1`, and only this bound keeps that number within
`MaxSent`. TLC checked `IInv` as an invariant on the 40,488 states of
pipeline_core before it was proved.

The proof has one lemma per action. The steps that end a call
(`Finish`, the EOF and drain returns, and each branch of `Evaluate`) have
lemmas of their own. These rest on lemmas about the model's operators:

* `FrontLast`: `Front(s) \o <<Last(s)>> = s`;
* `ConsecutiveAppend`: appending the symbol numbered next keeps a run
  consecutive;
* `ConsecutiveEmpty`: the empty run is consecutive from anywhere.

The refinement follows from `IInv` through `StepRefines`, which has one
case per action. With `s \in Seq(S)` in context, Z3 does not settle
case splits over `Len(s) - 1`. The proofs therefore name that number
with `PICK` and reason about it.

Only TLC checks the following. The prover handles neither fairness nor
ENABLED, and the violation runs state what the code does not do:

* the liveness properties (`StaleSessionsReaped`,
  `PromptEventuallyMatched`, `EofEndsWait`, `ReadyWaiterWakes`);
* `SweepVisitsAll` and the properties of the violation runs.

## 7. Not modelled

* asyncssh itself (key exchange, channels): external; only the events the
  session sees are modelled.
* Counters and logging: fire-and-forget, no state the code reads.
* `get_peer_info`, `dest_info`, proxy/NAT resolution: they only choose the
  address to connect to.
* Output formatting (`_fixup_whitespace`, `_format_output`, 661-712): a
  pure byte transformation, planned as a TLC-only module (section 2).
* The loop over `cmd.splitlines()` in `_run_command`: each line repeats
  the steps of one call, which CommandPipeline models. What a multi-line
  call adds, aborting the remaining lines on a timeout, is the same
  raise.
* The newline injected by `_on_connect` (line 592): it only normalises
  the text of the first prompt.
* The prompt regex itself: abstracted to "the buffer ends with a prompt",
  which is what its end anchor makes it test.
