--------------------------- MODULE CommandPipeline ---------------------------
(***************************************************************************)
(* One connected CLI session running commands: the command pipeline       *)
(* (CliCommandSession._run_command, lines 714-760), the stream matcher    *)
(* (CommandStreamReader.wait_for, readuntil_re and drain, lines 459-567)  *)
(* and the device at the other end of the stream (CommandStream,          *)
(* lines 570-609), which answers each command it receives with some       *)
(* output and then its prompt, possibly late or never.                    *)
(*                                                                         *)
(* The stream is a sequence of symbols: a chunk of output of command c,   *)
(* or the prompt that ends the answer to c.  Each symbol carries its      *)
(* serial number on the wire, so that what the caller is handed can be    *)
(* compared with what the device sent.  The prompt pattern is anchored at *)
(* the end of the buffer (`\s*$`, line 533): it matches when the     *)
(* buffer ends with a prompt.  Each run_command call sends one command     *)
(* line: the loop over cmd.splitlines() repeats the same steps.           *)
(***************************************************************************)
EXTENDS Naturals, Sequences

\* The last element of a sequence, and the sequence without it (as in
\* SequencesExt, written here so that the proofs can use this module).
Last(s) == s[Len(s)]

Front(s) == SubSeq(s, 1, Len(s) - 1)

CONSTANTS
    NCmds,           \* number of run_command calls the caller makes
    OutLen,          \* most output chunks the device sends for one command
    Limit,           \* the reader's buffer limit (_BUFFER_LIMIT), in chunks
    CmdTimeoutFires, \* the per-command timer may expire
    TransportMayEnd  \* the transport may reach EOF or fail

ASSUME PipelineAssumption ==
    /\ NCmds \in Nat \ {0}
    /\ OutLen \in Nat
    /\ Limit \in Nat
    /\ CmdTimeoutFires \in BOOLEAN
    /\ TransportMayEnd \in BOOLEAN

Cmd == 1..NCmds

\* Serial numbers of the symbols the device can send.
MaxSent == NCmds * (OutLen + 1)

Symbol == [c : Cmd, k : {"out", "prompt"}, n : 1..MaxSent]

\* The outcomes of one run_command call.
Kinds == {"none", "returned", "timeout", "overrun", "error"}

VARIABLES
    buf,       \* CommandStreamReader._buffer
    eof,       \* _eof: feed_eof was called
    exc,       \* _exception: set_exception was called
    paused,    \* _paused: the transport stopped reading (flow control)
    waiter,    \* _waiter of the pending _wait_for_data
    dev,       \* commands the device received and has not answered yet
    devOut,    \* output chunks already sent for Head(dev)
    nSent,     \* symbols sent by the device so far
    delivered, \* symbols handed out of the reader so far
    rc,        \* the caller: idle, or inside wait_for (quick or slow loop)
    cur,       \* the command whose response is awaited
    nextCmd,   \* the next command the caller will run
    overran,   \* the buffer passed Limit with no prompt in the slow loop
    connected, \* the session's _connected
    resp       \* the outcome of the last run_command

vars == <<buf, eof, exc, paused, waiter, dev, devOut, nSent, delivered, rc,
          cur, nextCmd, overran, connected, resp>>

Waiting == {"quick", "slow"}

NoResp == [cmd |-> 0, kind |-> "none", data |-> <<>>, matched |-> <<>>,
           overran |-> FALSE, upto |-> 0]

\* The buffer ends with a prompt: regex.search(data, start) with the
\* pattern anchored at the end (line 521; wait_prompt, 645-651).
PromptAt(b) == Len(b) > 0 /\ Last(b).k = "prompt"

-----------------------------------------------------------------------------
(* Mutated forms of definitions below, one per checked property.           *)

\* The match is taken to start at the beginning of the read data (m_beg
\* read as 0): everything read becomes the matched text.
MatchedFromStart(b) == [data |-> <<>>, matched |-> b]

\* The data before the match is dropped (rdata[m_end:] for rdata[:m_beg]).
MatchedDropsData(b) == [data |-> <<>>, matched |-> <<Last(b)>>]

-----------------------------------------------------------------------------

Init ==
    /\ buf = <<>>
    /\ eof = FALSE
    /\ exc = FALSE
    /\ paused = FALSE
    /\ waiter = "none"
    /\ dev = <<>>
    /\ devOut = 0
    /\ nSent = 0
    /\ delivered = 0
    /\ rc = "idle"
    /\ cur = 0
    /\ nextCmd = 1
    /\ overran = FALSE
    /\ connected = TRUE
    /\ resp = NoResp

\* readuntil_re after a match (lines 520-548): read(m_end) takes the
\* buffer up to the end of the match; data is what precedes the match and
\* matched the matched text.
Matched(b) == [data |-> Front(b), matched |-> <<Last(b)>>]

\* run_command ends with the given outcome; base symbols had been handed
\* out of the reader before; the caller is idle again.
Finish(kind, data, matched, base) ==
    /\ resp' = [cmd |-> cur', kind |-> kind, data |-> data,
                matched |-> matched, overran |-> overran',
                upto |-> base + Len(data) + Len(matched)]
    /\ delivered' = base + Len(data) + Len(matched)
    /\ rc' = "idle"
    /\ waiter' = "none"

\* read(m_end) stops one short of the match: the prompt stays in the
\* buffer although it is returned as the matched text.
MatchStepKeepsPrompt(b, base) ==
    \/ /\ PromptAt(b)
       /\ exc
       /\ buf' = b
       /\ paused' = paused
       /\ Finish("error", <<>>, <<>>, base)
    \/ /\ PromptAt(b)
       /\ ~exc
       /\ buf' = <<Last(b)>>
       /\ paused' = FALSE
       /\ Finish("returned", Matched(b).data, Matched(b).matched, base)

\* The predicate matches (lines 468, 504): readuntil_re reads up to m_end
\* (lines 545-548), and read() raises a pending transport error first.
MatchStep(b, base) ==
    \/ /\ PromptAt(b)
       /\ exc
       /\ buf' = b
       /\ paused' = paused
       /\ Finish("error", <<>>, <<>>, base)
    \/ /\ PromptAt(b)
       /\ ~exc
       /\ buf' = <<>>
       /\ paused' = FALSE
       /\ Finish("returned", Matched(b).data, Matched(b).matched, base)

\* No match and the buffer is past the limit (lines 481-485).
OverrunStep(b, base) ==
    /\ ~PromptAt(b)
    /\ Len(b) > Limit
    /\ buf' = b
    /\ paused' = paused
    /\ Finish("overrun", <<>>, <<>>, base)

\* No match and EOF: _wait_for_data asserts not _eof, and readuntil_re's
\* EOF path returns the partial buffer as the response (lines 549-558).
EofStep(b, base) ==
    /\ ~PromptAt(b)
    /\ Len(b) <= Limit
    /\ eof
    /\ buf' = <<>>
    /\ paused' = FALSE
    /\ Finish("returned", b, <<>>, base)

\* No match: _wait_for_data resumes the transport and waits, in the quick
\* or the slow loop as the elapsed time allows (lines 487-502).
WaitStep(b, base, modes) ==
    /\ ~PromptAt(b)
    /\ Len(b) <= Limit
    /\ ~eof
    /\ buf' = b
    /\ paused' = FALSE
    /\ waiter' = "pending"
    /\ \E m \in modes : rc' = m
    /\ delivered' = base
    /\ resp' = resp

\* One pass of the loop of CommandStreamReader.wait_for on the buffer b
\* (lines 459-505), followed by the rest of readuntil_re (lines 520-560)
\* and of _run_command (lines 754-760).
Evaluate(b, base, modes) ==
    \/ MatchStep(b, base)
    \/ OverrunStep(b, base)
    \/ EofStep(b, base)
    \/ WaitStep(b, base, modes)

\* The decorated run_command of the next command (lines 714-753): it is
\* rejected when _connected is false; the stale data is drained (read()
\* raises a pending transport error), the command is written, and
\* wait_prompt starts readuntil_re on the empty buffer.  The decorator's bookkeeping is in CommandSession.
RunCommand ==
    /\ rc = "idle"
    /\ nextCmd <= NCmds
    /\ cur' = nextCmd
    /\ nextCmd' = nextCmd + 1
    /\ overran' = FALSE
    /\ \/ /\ ~connected                             \* Not Connected
          /\ Finish("error", <<>>, <<>>, delivered)
          /\ UNCHANGED <<buf, paused, dev>>
       \/ /\ connected
          /\ exc                                   \* drain() raises
          /\ Finish("error", <<>>, <<>>, delivered)
          /\ UNCHANGED <<buf, paused, dev>>
       \/ /\ connected
          /\ ~exc
          /\ dev' = Append(dev, nextCmd)
          /\ \/ EofStep(<<>>, delivered + Len(buf))
             \/ WaitStep(<<>>, delivered + Len(buf), {"quick"})
    /\ UNCHANGED <<eof, exc, devOut, nSent, connected>>

\* The quick wait (line 502) resumes: new data or EOF woke it, and the
\* predicate is tested again; or set_exception woke it with the
\* transport's error, which propagates out of run_command.
Resume ==
    /\ UNCHANGED <<eof, exc, dev, devOut, nSent, cur, nextCmd, overran, connected>>
    /\ rc = "quick"
    /\ \/ /\ waiter = "woken"
          /\ Evaluate(buf, delivered, Waiting)
       \/ /\ waiter = "failed"
          /\ Finish("error", <<>>, <<>>, delivered)
          /\ UNCHANGED <<buf, paused>>

\* The inner `while True` of the slow loop (lines 492-496) after data
\* arrived within COMMAND_DATA_TIMEOUT: it waits for data again without
\* testing the predicate or the limit.  _wait_for_data asserts not _eof,
\* and the AssertionError leaves through readuntil_re's EOF path.
SlowResume ==
    /\ UNCHANGED <<eof, exc, dev, devOut, nSent, cur, nextCmd, overran, connected>>
    /\ rc = "slow"
    /\ \/ /\ waiter = "woken"
          /\ ~eof
          /\ waiter' = "pending"
          /\ paused' = FALSE
          /\ UNCHANGED <<buf, delivered, rc, resp>>
       \/ /\ waiter = "woken"
          /\ eof
          /\ buf' = <<>>
          /\ paused' = FALSE
          /\ Finish("returned", buf, <<>>, delivered)
       \/ /\ waiter = "failed"
          /\ Finish("error", <<>>, <<>>, delivered)
          /\ UNCHANGED <<buf, paused>>

\* The slow loop goes on waiting after its poll times out.
SlowPollTimeoutNoMatch ==
    /\ rc = "slow"
    /\ waiter = "pending"
    /\ UNCHANGED vars

\* asyncio.wait_for(fut, COMMAND_DATA_TIMEOUT) expires with no data
\* (lines 497-499): the predicate is tested again (line 504).  The waiter
\* is still pending, so feed_eof has not been called since it was made.
SlowPollTimeout ==
    /\ UNCHANGED <<eof, exc, dev, devOut, nSent, cur, nextCmd, overran, connected>>
    /\ rc = "slow"
    /\ waiter = "pending"
    /\ \/ MatchStep(buf, delivered)
       \/ OverrunStep(buf, delivered)
       \/ WaitStep(buf, delivered, {"slow"})

\* The per-command timer of asyncio.wait_for (lines 749-753) expires: the
\* wait is cancelled, the buffer is drained into the error message and
\* "Command Response Timeout" is raised (lines 755-758).
CmdTimeout ==
    /\ UNCHANGED <<eof, exc, dev, devOut, nSent, cur, nextCmd, overran, connected>>
    /\ CmdTimeoutFires
    /\ rc \in Waiting
    /\ \/ /\ ~exc
          /\ buf' = <<>>
          /\ paused' = FALSE
          /\ Finish("timeout", buf, <<>>, delivered)
       \/ /\ exc                                   \* drain() raises
          /\ Finish("error", <<>>, <<>>, delivered)
          /\ UNCHANGED <<buf, paused>>

-----------------------------------------------------------------------------
(* The device and the transport.  CommandStream.data_received (lines      *)
(* 600-603) feeds StreamReader.feed_data, which appends to the buffer,    *)
(* wakes the waiter and pauses the transport once the buffer is past      *)
(* twice the limit; the transport's EOF and errors reach feed_eof and     *)
(* set_exception.                                                          *)

\* feed_data: append one symbol.  overran records that the buffer passed
\* the limit with no prompt while the caller was in the slow loop, whose
\* inner while True (lines 492-496) tests neither the predicate nor the
\* limit.
Feed(sym) ==
    /\ ~paused
    /\ ~eof
    /\ ~exc
    /\ buf' = Append(buf, sym)
    /\ nSent' = nSent + 1
    /\ waiter' = IF waiter = "pending" THEN "woken" ELSE waiter
    /\ paused' = (Len(buf') > 2 * Limit)
    /\ overran' = (overran \/ (rc = "slow" /\ Len(buf') > Limit /\ ~PromptAt(buf')))

\* The device sends a chunk of the output of the oldest command.
DeviceOutput ==
    /\ dev # <<>>
    /\ devOut < OutLen
    /\ Feed([c |-> Head(dev), k |-> "out", n |-> nSent + 1])
    /\ devOut' = devOut + 1
    /\ UNCHANGED <<eof, exc, dev, delivered, rc, cur, nextCmd, connected, resp>>

\* The device ends its answer to the oldest command with its prompt.
DevicePrompt ==
    /\ dev # <<>>
    /\ Feed([c |-> Head(dev), k |-> "prompt", n |-> nSent + 1])
    /\ dev' = Tail(dev)
    /\ devOut' = 0
    /\ UNCHANGED <<eof, exc, delivered, rc, cur, nextCmd, connected, resp>>

\* feed_eof sets _eof and leaves the waiter alone.
TransportEofNoWake ==
    /\ TransportMayEnd
    /\ ~eof
    /\ ~exc
    /\ eof' = TRUE
    /\ UNCHANGED <<buf, exc, paused, waiter, dev, devOut, nSent, delivered,
                   rc, cur, nextCmd, overran, connected, resp>>

\* connection_lost(None): feed_eof wakes the waiter.
TransportEof ==
    /\ TransportMayEnd
    /\ ~eof
    /\ ~exc
    /\ eof' = TRUE
    /\ waiter' = IF waiter = "pending" THEN "woken" ELSE waiter
    /\ UNCHANGED <<buf, exc, paused, dev, devOut, nSent, delivered, rc, cur,
                   nextCmd, overran, connected, resp>>

\* connection_lost(exc): set_exception fails a pending waiter; a waiter
\* already woken by data does not see it.
TransportError ==
    /\ TransportMayEnd
    /\ ~eof
    /\ ~exc
    /\ exc' = TRUE
    /\ waiter' = IF waiter = "pending" THEN "failed" ELSE waiter
    /\ UNCHANGED <<buf, eof, paused, dev, devOut, nSent, delivered, rc, cur,
                   nextCmd, overran, connected, resp>>

\* CommandStream.exit_status_received -> exit_status_received (lines
\* 608-609, 775-778): the remote side ended the channel.
ExitStatusReceived ==
    /\ TransportMayEnd
    /\ connected
    /\ connected' = FALSE
    /\ UNCHANGED <<buf, eof, exc, paused, waiter, dev, devOut, nSent,
                   delivered, rc, cur, nextCmd, overran, resp>>

-----------------------------------------------------------------------------

Next ==
    \/ RunCommand \/ Resume \/ SlowResume \/ SlowPollTimeout \/ CmdTimeout
    \/ DeviceOutput \/ DevicePrompt \/ TransportEof \/ TransportError
    \/ ExitStatusReceived

\* The event loop resumes a woken coroutine, and the 1 s data timer fires
\* when no data came.  The device, the transport and the per-command timer
\* get no fairness.
Spec == /\ Init /\ [][Next]_vars
        /\ WF_vars(Resume) /\ WF_vars(SlowResume) /\ WF_vars(SlowPollTimeout)

-----------------------------------------------------------------------------
(* Properties.                                                             *)

TypeOK ==
    /\ buf \in Seq(Symbol)
    /\ eof \in BOOLEAN /\ exc \in BOOLEAN /\ paused \in BOOLEAN
    /\ waiter \in {"none", "pending", "woken", "failed"}
    /\ dev \in Seq(Cmd)
    /\ devOut \in 0..OutLen
    /\ nSent \in 0..MaxSent
    /\ delivered \in 0..MaxSent
    /\ rc \in {"idle"} \cup Waiting
    /\ cur \in 0..NCmds
    /\ nextCmd \in 1..(NCmds + 1)
    /\ overran \in BOOLEAN
    /\ connected \in BOOLEAN
    /\ resp.cmd \in 0..NCmds
    /\ resp.kind \in Kinds
    /\ resp.upto \in 0..MaxSent
    /\ resp.data \in Seq(Symbol)
    \* matched is empty or the one prompt that ended the response
    /\ resp.matched \in {<<>>} \cup {<<m>> : m \in {x \in Symbol : x.k = "prompt"}}

\* The symbols of s are the ones the device sent after the first `from`,
\* in order.
Consecutive(s, from) == \A i \in DOMAIN s : s[i].n = from + i

\* No byte is lost, duplicated or reordered between the device and the
\* caller: the reader's buffer holds exactly the symbols sent and not yet
\* handed out, and the last response (readuntil_re's data and matched, the
\* EOF path's whole buffer, the drained tail of a timeout) is the run of
\* symbols handed out just before its end (lines 514-567, 757-758).
StreamIntact ==
    /\ delivered + Len(buf) = nSent
    /\ Consecutive(buf, delivered)
    /\ Consecutive(resp.data \o resp.matched,
                   resp.upto - Len(resp.data) - Len(resp.matched))

\* Once the device's prompt for the awaited command has arrived,
\* run_command returns: the quick wait matches it at once, and the slow
\* loop (lines 492-499) matches it when its 1 s poll expires.
PromptEventuallyMatched ==
    \A c \in Cmd :
        (rc \in Waiting /\ cur = c /\ PromptAt(buf) /\ Last(buf).c = c)
            ~> (rc = "idle")

\* A response run_command returns is made of the output and the prompt
\* of the command it sent (spec 5: one outstanding command at a time;
\* spec 6: a timeout leaves the stream consistent).
ResponseBelongsToCommand ==
    resp.kind = "returned" =>
        \A i \in DOMAIN (resp.data \o resp.matched) :
            (resp.data \o resp.matched)[i].c = resp.cmd

\* run_command returns output only when it found the prompt; running out
\* of input is told apart from finding a prompt (spec 4.3, EOF).
SuccessHasPrompt == resp.kind = "returned" => resp.matched # <<>>

\* A wait whose buffer passed the limit without a match in the slow loop
\* fails with the overrun error, not with the command timeout (spec 7,
\* buffer overrun).
OverrunNotTimeout == resp.kind = "timeout" => ~resp.overran

\* The reader's buffer does not keep accumulating past the limit: feed_data
\* pauses the transport above twice the limit, and the overrun check stops
\* the wait above the limit (spec 2 StreamBuffer, 4.3).
BufferBounded == Len(buf) <= 2 * Limit + 1

\* The end of the stream ends a pending run_command without the
\* per-command timer: feed_eof wakes the waiter, and the quick wait, the
\* slow loop and a later wait_for all leave through readuntil_re's EOF path
\* (lines 549-558) once _eof is set.
EofEndsWait == (eof /\ rc \in Waiting) ~> (rc = "idle")

\* A transport error ends a pending run_command without the per-command
\* timer (spec 5, Cancellation: the transport going away, by end of stream
\* or an error, surfaces to the waiting caller rather than hanging).
\* wait_for tests _exception only on entry (line 465), and set_exception
\* wakes only a waiter still pending.
ErrorEndsWait == (exc /\ rc \in Waiting) ~> (rc = "idle")

\* The stream reader is a FIFO channel (StreamChannel): feed_data appends
\* to the buffer only while neither EOF nor an error has been seen, and
\* every read of the session (readuntil_re's read(m_end), its EOF path,
\* drain before a command and after a timeout) takes a prefix of the
\* buffer off the front and counts it as handed out (lines 514-567,
\* 600-603, 755-758).
Stream == INSTANCE StreamChannel WITH
    Data <- Symbol, q <- buf, taken <- delivered, closed <- (eof \/ exc)

StreamRefined == Stream!Spec
====
