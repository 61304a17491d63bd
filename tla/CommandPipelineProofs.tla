------------------------ MODULE CommandPipelineProofs ------------------------
(***************************************************************************)
(* Proofs about CommandPipeline for every number of commands, every       *)
(* output length and every buffer limit.                                  *)
(***************************************************************************)
EXTENDS CommandPipeline, SequenceTheorems, TLAPS

\* Commands the device has answered with their prompt.
Answered == nextCmd - 1 - Len(dev)

\* The reader's buffer: it holds exactly the symbols sent and not yet
\* handed out, in the order they were sent.
BufInv ==
    /\ buf \in Seq(Symbol)
    /\ paused \in BOOLEAN
    /\ delivered + Len(buf) = nSent
    /\ Consecutive(buf, delivered)

\* The caller's side: the waiter, the caller and the last response are
\* well typed, and the last response is a run of symbols that ends no
\* later than what has been handed out.
RespPrompt == {<<>>} \cup {<<m>> : m \in {x \in Symbol : x.k = "prompt"}}

RespInv ==
    /\ waiter \in {"none", "pending", "woken", "failed"}
    /\ delivered \in 0..MaxSent
    /\ rc \in {"idle"} \cup Waiting
    /\ resp.cmd \in 0..NCmds
    /\ resp.kind \in Kinds
    /\ resp.upto \in 0..MaxSent
    /\ resp.data \in Seq(Symbol)
    /\ resp.matched \in RespPrompt
    /\ Consecutive(resp.data \o resp.matched,
                   resp.upto - Len(resp.data) - Len(resp.matched))
    /\ resp.upto <= delivered

\* The device's side: well typed, and its bookkeeping bounds what it has
\* sent: every answered command took at most OutLen chunks and a prompt,
\* and the command being answered devOut chunks so far.
DeviceInv ==
    /\ eof \in BOOLEAN
    /\ exc \in BOOLEAN
    /\ dev \in Seq(Cmd)
    /\ devOut \in 0..OutLen
    /\ nSent \in 0..MaxSent
    /\ cur \in 0..NCmds
    /\ nextCmd \in 1..(NCmds + 1)
    /\ overran \in BOOLEAN
    /\ connected \in BOOLEAN
    /\ Len(dev) <= nextCmd - 1
    /\ dev = <<>> => devOut = 0
    /\ nSent <= Answered * (OutLen + 1) + devOut

IInv == BufInv /\ RespInv /\ DeviceInv

-----------------------------------------------------------------------------
(* Lemmas about the sequence operators of the model.                       *)

\* A non-empty sequence is its Front followed by its Last.
LEMMA FrontLast ==
    ASSUME NEW S, NEW seq \in Seq(S), Len(seq) > 0
    PROVE  /\ Front(seq) \in Seq(S)
           /\ Len(Front(seq)) = Len(seq) - 1
           /\ Len(Front(seq)) + 1 = Len(seq)
           /\ Last(seq) \in S
           /\ Front(seq) \o <<Last(seq)>> = seq
<1>1. PICK n \in Nat : n = Len(seq) - 1
  OBVIOUS
<1>2. SubSeq(seq, 1, n) \in Seq(S) /\ Len(SubSeq(seq, 1, n)) = n
  BY <1>1
<1>3. seq[Len(seq)] \in S
  OBVIOUS
<1>4. SubSeq(seq, 1, n) \o <<seq[Len(seq)]>> = seq
  BY <1>1
<1>5. QED
  BY <1>1, <1>2, <1>3, <1>4 DEF Front, Last

\* Appending the symbol numbered next keeps a run consecutive.
LEMMA ConsecutiveAppend ==
    ASSUME NEW s \in Seq(Symbol), NEW from \in Int, NEW x \in Symbol,
           Consecutive(s, from), x.n = from + Len(s) + 1
    PROVE  Consecutive(Append(s, x), from)
BY AppendProperties DEF Consecutive

\* The empty run is consecutive from anywhere.
LEMMA ConsecutiveEmpty ==
    ASSUME NEW from
    PROVE  Consecutive(<<>>, from)
BY DEF Consecutive

\* The number of symbols the device can send is a natural number.
LEMMA MaxSentNat == MaxSent \in Nat
BY PipelineAssumption DEF MaxSent

\* While a command is unanswered the device can still number a symbol.
LEMMA SentBound ==
    ASSUME DeviceInv, dev # <<>>
    PROVE  nSent + 1 \in 1..MaxSent
<1>1. Len(dev) >= 1 /\ Len(dev) \in Nat
  BY EmptySeq DEF DeviceInv
<1>2. Answered \in 0..(NCmds - 1)
  BY <1>1, PipelineAssumption DEF DeviceInv, Answered
<1>3. Answered * (OutLen + 1) <= (NCmds - 1) * (OutLen + 1)
  <2>1. \A a, b, c \in Nat : a <= b => a * c <= b * c
    OBVIOUS
  <2>2. QED
    BY <1>2, <2>1, PipelineAssumption
<1>4. (NCmds - 1) * (OutLen + 1) + (OutLen + 1) = MaxSent
  BY PipelineAssumption DEF MaxSent
<1>5. nSent <= (NCmds - 1) * (OutLen + 1) + OutLen
  <2>1. nSent <= Answered * (OutLen + 1) + devOut /\ devOut \in 0..OutLen
        /\ nSent \in Nat
    BY DEF DeviceInv, MaxSent
  <2>2. QED
    BY <1>2, <1>3, <2>1, PipelineAssumption
<1>6. QED
  BY <1>4, <1>5, PipelineAssumption DEF DeviceInv
-----------------------------------------------------------------------------
(* The steps that end a run_command call.                                  *)

\* Finish hands out the run data \o matched that starts right after base
\* and records it as the response.
LEMMA FinishStep ==
    ASSUME NEW kind \in Kinds, NEW data \in Seq(Symbol),
           NEW matched \in RespPrompt, NEW base \in Nat,
           base + Len(data) + Len(matched) <= MaxSent,
           Consecutive(data \o matched, base),
           cur' \in 0..NCmds,
           Finish(kind, data, matched, base)
    PROVE  /\ RespInv'
           /\ delivered' = base + Len(data) + Len(matched)
<1>1. matched \in Seq(Symbol)
  <2>1. matched = <<>> \/ \E m \in Symbol : matched = <<m>>
    BY DEF RespPrompt
  <2>2. CASE matched = <<>>
    BY <2>2
  <2>3. CASE \E m \in Symbol : matched = <<m>>
    <3>1. PICK m \in Symbol : matched = <<m>>
      BY <2>3
    <3>2. QED
      BY <3>1
  <2>4. QED
    BY <2>1, <2>2, <2>3
<1>2. resp'.upto - Len(resp'.data) - Len(resp'.matched) = base
  BY <1>1 DEF Finish
<1>3. QED
  BY <1>1, <1>2 DEF Finish, RespInv, RespPrompt

\* The hypotheses of one pass of wait_for on the buffer b: b is the run of
\* symbols sent after the first base, and the last response ends no later.
EvalReady(b, base) ==
    /\ b \in Seq(Symbol)
    /\ base \in Nat
    /\ base + Len(b) = nSent
    /\ Consecutive(b, base)
    /\ resp.upto <= base

\* A pass that ends the call with an empty response (an error, an
\* overrun) leaves b in the buffer and hands nothing out.
LEMMA EmptyFinishStep ==
    ASSUME DeviceInv, NEW b, NEW base, EvalReady(b, base),
           NEW kind \in Kinds, cur' \in 0..NCmds, nSent' = nSent,
           buf' = b, paused \in BOOLEAN, paused' = paused,
           Finish(kind, <<>>, <<>>, base)
    PROVE  BufInv' /\ RespInv'
<1>1. base + Len(<<>>) + Len(<<>>) <= MaxSent /\ <<>> \in Seq(Symbol)
      /\ <<>> \in RespPrompt /\ <<>> \o <<>> = <<>>
  BY MaxSentNat DEF EvalReady, DeviceInv, RespPrompt
<1>2. Consecutive(<<>> \o <<>>, base)
  BY <1>1, ConsecutiveEmpty
<1>3. RespInv' /\ delivered' = base + Len(<<>>) + Len(<<>>)
  <2>1. base \in Nat /\ <<>> \in RespPrompt /\ <<>> \in Seq(Symbol)
    BY <1>1 DEF EvalReady
  <2>2. QED
    BY <1>1, <1>2, <2>1, FinishStep
<1>6. delivered' = base
  BY <1>3 DEF EvalReady
<1>4. paused' \in BOOLEAN
  BY Zenon
<1>5. QED
  BY <1>3, <1>4, <1>6 DEF BufInv, EvalReady

\* A step that ends the call with the whole buffer b as the response
\* (readuntil_re's EOF path, the drain of a timeout) empties the buffer
\* and hands all of b out.
LEMMA DrainFinishStep ==
    ASSUME DeviceInv, NEW b, NEW base, EvalReady(b, base),
           NEW kind \in Kinds, cur' \in 0..NCmds, nSent' = nSent,
           buf' = <<>>, paused' = FALSE,
           Finish(kind, b, <<>>, base)
    PROVE  BufInv' /\ RespInv'
<1>1. /\ b \in Seq(Symbol) /\ base \in Nat
      /\ b \o <<>> = b /\ <<>> \in RespPrompt
      /\ base + Len(b) + Len(<<>>) = nSent
      /\ nSent <= MaxSent
      /\ Consecutive(b \o <<>>, base)
  BY MaxSentNat DEF EvalReady, RespPrompt, DeviceInv
<1>2. RespInv' /\ delivered' = nSent
  <2>1. RespInv' /\ delivered' = base + Len(b) + Len(<<>>)
    BY <1>1, FinishStep
  <2>2. QED
    BY <1>1, <2>1
<1>3. paused' \in BOOLEAN
  BY Zenon
<1>4. buf' \in Seq(Symbol) /\ delivered' + Len(buf') = nSent'
  BY <1>1, <1>2, MaxSentNat DEF DeviceInv
<1>5. Consecutive(buf', delivered')
  BY ConsecutiveEmpty
<1>6. QED
  BY <1>2, <1>3, <1>4, <1>5 DEF BufInv

\* One pass of wait_for and the rest of readuntil_re keep the reader's
\* buffer and the response consistent with what the device sent.
LEMMA EvalStep ==
    ASSUME BufInv, RespInv, DeviceInv, NEW b, NEW base, EvalReady(b, base),
           NEW modes \in SUBSET Waiting,
           nSent' = nSent, cur' \in 0..NCmds,
           Evaluate(b, base, modes)
    PROVE  BufInv' /\ RespInv'
<1> USE DEF EvalReady
<1>1. CASE MatchStep(b, base) /\ exc
  BY <1>1, EmptyFinishStep, PipelineAssumption DEF MatchStep, Kinds, BufInv
<1>2. CASE MatchStep(b, base) /\ ~exc
  <2>1. /\ PromptAt(b) /\ buf' = <<>> /\ paused' = FALSE
        /\ Finish("returned", Front(b), <<Last(b)>>, base)
    BY <1>2 DEF MatchStep, Matched
  <2>2. Len(b) > 0 /\ Last(b).k = "prompt"
    BY <2>1 DEF PromptAt
  <2>3. /\ Front(b) \in Seq(Symbol)
        /\ Len(Front(b)) + 1 = Len(b)
        /\ Last(b) \in Symbol
        /\ Front(b) \o <<Last(b)>> = b
    BY <2>2, FrontLast
  <2>4. <<Last(b)>> \in RespPrompt
    BY <2>2, <2>3 DEF RespPrompt
  <2>5. /\ base + Len(Front(b)) + Len(<<Last(b)>>) = nSent
        /\ base + Len(Front(b)) + Len(<<Last(b)>>) <= MaxSent
        /\ Consecutive(Front(b) \o <<Last(b)>>, base)
        /\ "returned" \in Kinds
    <3>1. Len(Front(b)) + Len(<<Last(b)>>) = Len(b)
      BY <2>3
    <3>2. base + Len(Front(b)) + Len(<<Last(b)>>) = nSent
      BY <3>1
    <3>3. base + Len(Front(b)) + Len(<<Last(b)>>) <= MaxSent
      BY <3>2, MaxSentNat DEF DeviceInv
    <3>4. Consecutive(Front(b) \o <<Last(b)>>, base)
      BY <2>3
    <3>5. "returned" \in Kinds
      BY DEF Kinds
    <3>6. QED
      BY <3>2, <3>3, <3>4, <3>5
  <2>6. RespInv' /\ delivered' = nSent
    <3>1. RespInv' /\ delivered' = base + Len(Front(b)) + Len(<<Last(b)>>)
      BY <2>1, <2>3, <2>4, <2>5, FinishStep
    <3>2. QED
      BY <3>1, <2>5
  <2>7. paused' \in BOOLEAN
    BY <2>1, Zenon
  <2>8. QED
    BY <2>1, <2>6, <2>7, ConsecutiveEmpty DEF BufInv
<1>3. CASE OverrunStep(b, base)
  BY <1>3, EmptyFinishStep DEF OverrunStep, Kinds, BufInv
<1>4. CASE EofStep(b, base)
  BY <1>4, DrainFinishStep DEF EofStep, Kinds
<1>5. CASE WaitStep(b, base, modes)
  <2>1. paused' \in BOOLEAN
    BY <1>5, Zenon DEF WaitStep
  <2>2. base \in 0..MaxSent
    BY MaxSentNat DEF DeviceInv
  <2>3. rc' \in Waiting
    BY <1>5 DEF WaitStep
  <2>4. BufInv'
    BY <1>5, <2>1 DEF WaitStep, BufInv
  <2>5. RespInv'
    BY <1>5, <2>2, <2>3 DEF WaitStep, RespInv
  <2>6. QED
    BY <2>4, <2>5
<1>6. QED
  BY <1>1, <1>2, <1>3, <1>4, <1>5 DEF Evaluate

-----------------------------------------------------------------------------
(* One lemma per action of Next.                                           *)

\* One more answered command allows OutLen + 1 more symbols.
LEMMA AnsweredStep ==
    ASSUME NEW a \in Int
    PROVE  (a + 1) * (OutLen + 1) = a * (OutLen + 1) + (OutLen + 1)
BY PipelineAssumption

\* run_command counts the call whether or not it reaches the device.
LEMMA RunCommandStep ==
    ASSUME IInv, RunCommand
    PROVE  IInv'
<1> USE DEF IInv
<1>1. /\ cur' = nextCmd /\ cur' \in 0..NCmds
      /\ nextCmd' = nextCmd + 1 /\ nextCmd' \in 1..(NCmds + 1)
      /\ UNCHANGED <<eof, exc, devOut, nSent, connected>>
  BY PipelineAssumption DEF RunCommand, DeviceInv
<1>2. overran' \in BOOLEAN
  BY Zenon DEF RunCommand
<1>3. EvalReady(buf, delivered)
  BY DEF EvalReady, BufInv, RespInv
<1>4. Len(dev) \in Nat /\ Answered \in Int
  BY DEF DeviceInv, Answered
<1>5. CASE ~connected \/ (connected /\ exc)
  <2>1. Finish("error", <<>>, <<>>, delivered) /\ UNCHANGED <<buf, paused, dev>>
    BY <1>5 DEF RunCommand
  <2>2. BufInv' /\ RespInv'
    BY <1>1, <1>3, <2>1, EmptyFinishStep DEF Kinds, BufInv
  <2>3. Answered' = Answered + 1
    BY <1>1, <2>1 DEF Answered
  <2>4. nSent' <= Answered' * (OutLen + 1) + devOut'
    BY <1>1, <1>4, <2>3, AnsweredStep, PipelineAssumption DEF DeviceInv
  <2>5. DeviceInv'
    BY <1>1, <1>2, <2>1, <2>4 DEF DeviceInv
  <2>6. QED
    BY <2>2, <2>5
<1>6. CASE connected /\ ~exc
  <2>1. /\ dev' = Append(dev, nextCmd)
        /\ Evaluate(<<>>, delivered + Len(buf), {"quick"})
    BY <1>6 DEF RunCommand, Evaluate
  <2>2. EvalReady(<<>>, delivered + Len(buf))
    BY ConsecutiveEmpty DEF EvalReady, BufInv, RespInv
  <2>3. BufInv' /\ RespInv'
    BY <1>1, <2>1, <2>2, EvalStep DEF Waiting
  <2>4. nextCmd \in Cmd
    BY DEF RunCommand, DeviceInv, Cmd
  <2>5. dev' \in Seq(Cmd) /\ Len(dev') = Len(dev) + 1 /\ dev' # <<>>
    BY <2>1, <2>4 DEF DeviceInv
  <2>6. Answered' = Answered
    BY <1>1, <1>4, <2>5 DEF Answered
  <2>7. DeviceInv'
    BY <1>1, <1>2, <2>5, <2>6 DEF DeviceInv
  <2>8. QED
    BY <2>3, <2>7
<1>7. QED
  BY <1>5, <1>6 DEF DeviceInv

\* The steps of the caller leave the device's side alone.
LEMMA DeviceUnchanged ==
    ASSUME DeviceInv,
           UNCHANGED <<eof, exc, dev, devOut, nSent, cur, nextCmd, overran, connected>>
    PROVE  DeviceInv'
BY DEF DeviceInv, Answered

\* The quick wait resumes: a pass of wait_for, or the transport's error.
LEMMA ResumeStep ==
    ASSUME IInv, Resume
    PROVE  IInv'
<1> USE DEF IInv
<1>1. UNCHANGED <<eof, exc, dev, devOut, nSent, cur, nextCmd, overran, connected>>
  BY DEF Resume
<1>2. DeviceInv' /\ cur' \in 0..NCmds
  BY <1>1, DeviceUnchanged DEF DeviceInv
<1>3. EvalReady(buf, delivered)
  BY DEF EvalReady, BufInv, RespInv
<1>4. CASE waiter = "woken"
  BY <1>1, <1>2, <1>3, <1>4, EvalStep DEF Resume, Waiting
<1>5. CASE waiter = "failed"
  BY <1>1, <1>2, <1>3, <1>5, EmptyFinishStep DEF Resume, Kinds, BufInv
<1>6. QED
  BY <1>2, <1>4, <1>5 DEF Resume

\* The slow loop's inner wait resumes: it waits again, takes the EOF
\* path, or raises the transport's error.
LEMMA SlowResumeStep ==
    ASSUME IInv, SlowResume
    PROVE  IInv'
<1> USE DEF IInv
<1>1. UNCHANGED <<eof, exc, dev, devOut, nSent, cur, nextCmd, overran, connected>>
  BY DEF SlowResume
<1>2. DeviceInv' /\ cur' \in 0..NCmds
  BY <1>1, DeviceUnchanged DEF DeviceInv
<1>3. EvalReady(buf, delivered)
  BY DEF EvalReady, BufInv, RespInv
<1>4. CASE waiter = "woken" /\ ~eof
  <2>1. waiter' = "pending" /\ paused' = FALSE /\ UNCHANGED <<buf, delivered, rc, resp>>
    BY <1>4 DEF SlowResume
  <2>2. paused' \in BOOLEAN
    BY <2>1, Zenon
  <2>3. QED
    BY <1>1, <2>1, <2>2, <1>2 DEF BufInv, RespInv
<1>5. CASE waiter = "woken" /\ eof
  BY <1>1, <1>2, <1>3, <1>5, DrainFinishStep DEF SlowResume, Kinds
<1>6. CASE waiter = "failed"
  BY <1>1, <1>2, <1>3, <1>6, EmptyFinishStep DEF SlowResume, Kinds, BufInv
<1>7. QED
  BY <1>2, <1>4, <1>5, <1>6 DEF SlowResume

\* The 1 s poll of the slow loop expires and the predicate is tested.
LEMMA SlowPollTimeoutStep ==
    ASSUME IInv, SlowPollTimeout
    PROVE  IInv'
<1> USE DEF IInv
<1>1. UNCHANGED <<eof, exc, dev, devOut, nSent, cur, nextCmd, overran, connected>>
  BY DEF SlowPollTimeout
<1>2. DeviceInv' /\ cur' \in 0..NCmds
  BY <1>1, DeviceUnchanged DEF DeviceInv
<1>3. EvalReady(buf, delivered)
  BY DEF EvalReady, BufInv, RespInv
<1>4. Evaluate(buf, delivered, {"slow"})
  BY DEF SlowPollTimeout, Evaluate
<1>5. QED
  BY <1>1, <1>2, <1>3, <1>4, EvalStep DEF Waiting

\* The per-command timer drains the buffer into its error, or the drain
\* raises the transport's error.
LEMMA CmdTimeoutStep ==
    ASSUME IInv, CmdTimeout
    PROVE  IInv'
<1> USE DEF IInv
<1>1. UNCHANGED <<eof, exc, dev, devOut, nSent, cur, nextCmd, overran, connected>>
  BY DEF CmdTimeout
<1>2. DeviceInv' /\ cur' \in 0..NCmds
  BY <1>1, DeviceUnchanged DEF DeviceInv
<1>3. EvalReady(buf, delivered)
  BY DEF EvalReady, BufInv, RespInv
<1>4. CASE ~exc
  BY <1>1, <1>2, <1>3, <1>4, DrainFinishStep DEF CmdTimeout, Kinds
<1>5. CASE exc
  BY <1>1, <1>2, <1>3, <1>5, EmptyFinishStep DEF CmdTimeout, Kinds, BufInv
<1>6. QED
  BY <1>2, <1>4, <1>5

\* feed_data appends the symbol numbered next to the buffer and leaves
\* the response alone.
LEMMA FeedStep ==
    ASSUME BufInv, RespInv, DeviceInv, NEW sym \in Symbol, sym.n = nSent + 1,
           Feed(sym), UNCHANGED <<delivered, rc, resp>>
    PROVE  BufInv' /\ RespInv' /\ nSent' = nSent + 1
<1>1. buf' = Append(buf, sym) /\ nSent' = nSent + 1
  BY DEF Feed
<1>2. buf' \in Seq(Symbol) /\ Len(buf') = Len(buf) + 1
  BY <1>1, AppendProperties DEF BufInv
<1>3. delivered \in Nat /\ delivered' + Len(buf') = nSent'
  BY <1>1, <1>2 DEF BufInv, RespInv
<1>4. Consecutive(buf', delivered')
  BY <1>1, <1>3, ConsecutiveAppend DEF BufInv
<1>7. paused' \in BOOLEAN
  BY DEF Feed
<1>5. waiter' \in {"none", "pending", "woken", "failed"}
  BY DEF Feed, RespInv
<1>6. QED
  BY <1>1, <1>2, <1>3, <1>4, <1>5, <1>7 DEF BufInv, RespInv

\* The device sends a chunk of output of the oldest command.
LEMMA DeviceOutputStep ==
    ASSUME IInv, DeviceOutput
    PROVE  IInv'
<1> USE DEF IInv
<1> DEFINE sym == [c |-> Head(dev), k |-> "out", n |-> nSent + 1]
<1>1. dev # <<>> /\ devOut < OutLen /\ Feed(sym) /\ devOut' = devOut + 1
      /\ UNCHANGED <<eof, exc, dev, delivered, rc, cur, nextCmd, connected, resp>>
  BY DEF DeviceOutput
<1>2. nSent + 1 \in 1..MaxSent
  BY <1>1, SentBound
<1>3. Head(dev) \in Cmd
  BY <1>1 DEF DeviceInv
<1>4. sym \in Symbol
  BY <1>2, <1>3 DEF Symbol
<1>5. BufInv' /\ RespInv' /\ nSent' = nSent + 1
  BY <1>1, <1>4, FeedStep
<1>6. overran' \in BOOLEAN
  BY <1>1, Zenon DEF Feed
<1>7. Answered' = Answered
  BY <1>1 DEF Answered
<1>9. nSent' <= Answered' * (OutLen + 1) + devOut'
  <2>1. Answered \in Int /\ devOut \in Nat /\ nSent \in Nat
    BY DEF DeviceInv, Answered
  <2>2. QED
    BY <1>1, <1>5, <1>7, <2>1, PipelineAssumption DEF DeviceInv
<1>10. devOut' \in 0..OutLen /\ nSent' \in 0..MaxSent
  BY <1>1, <1>2, <1>5, PipelineAssumption, MaxSentNat DEF DeviceInv
<1>11. DeviceInv'
  BY <1>1, <1>6, <1>9, <1>10 DEF DeviceInv
<1>8. QED
  BY <1>5, <1>11

\* The device ends its answer to the oldest command with its prompt.
LEMMA DevicePromptStep ==
    ASSUME IInv, DevicePrompt
    PROVE  IInv'
<1> USE DEF IInv
<1> DEFINE sym == [c |-> Head(dev), k |-> "prompt", n |-> nSent + 1]
<1>1. dev # <<>> /\ Feed(sym) /\ dev' = Tail(dev) /\ devOut' = 0
      /\ UNCHANGED <<eof, exc, delivered, rc, cur, nextCmd, connected, resp>>
  BY DEF DevicePrompt
<1>2. nSent + 1 \in 1..MaxSent
  BY <1>1, SentBound
<1>3. Head(dev) \in Cmd /\ dev' \in Seq(Cmd)
  BY <1>1 DEF DeviceInv
<1>4. sym \in Symbol
  BY <1>2, <1>3 DEF Symbol
<1>5. BufInv' /\ RespInv' /\ nSent' = nSent + 1
  BY <1>1, <1>4, FeedStep
<1>6. overran' \in BOOLEAN
  BY <1>1, Zenon DEF Feed
<1>7. PICK l \in Nat : l = Len(dev) - 1
  BY <1>1 DEF DeviceInv
<1>8. Len(dev') = l
  BY <1>1, <1>7 DEF DeviceInv
<1>9. Answered' = Answered + 1 /\ Answered \in Int
  BY <1>1, <1>7, <1>8 DEF Answered, DeviceInv
<1>10. nSent' <= Answered' * (OutLen + 1) + devOut'
  BY <1>1, <1>5, <1>9, AnsweredStep, PipelineAssumption DEF DeviceInv
<1>13. devOut' \in 0..OutLen /\ nSent' \in 0..MaxSent
  BY <1>1, <1>2, <1>5, PipelineAssumption
<1>14. Len(dev') <= nextCmd' - 1
  BY <1>1, <1>7, <1>8 DEF DeviceInv
<1>11. DeviceInv'
  BY <1>1, <1>3, <1>6, <1>10, <1>13, <1>14 DEF DeviceInv
<1>12. QED
  BY <1>5, <1>11

\* The transport ends or fails, or the channel's exit status arrives:
\* only flags and the waiter change.
LEMMA TransportStep ==
    ASSUME IInv, TransportEof \/ TransportError \/ ExitStatusReceived
    PROVE  IInv'
<1> USE DEF IInv
<1>1. UNCHANGED <<buf, paused, dev, devOut, nSent, delivered, rc, cur,
                  nextCmd, overran, resp>>
  BY DEF TransportEof, TransportError, ExitStatusReceived
<1>2. eof' \in BOOLEAN /\ exc' \in BOOLEAN /\ connected' \in BOOLEAN
  BY Zenon DEF TransportEof, TransportError, ExitStatusReceived, DeviceInv
<1>3. waiter' \in {"none", "pending", "woken", "failed"}
  BY DEF TransportEof, TransportError, ExitStatusReceived, RespInv
<1>4. QED
  BY <1>1, <1>2, <1>3 DEF BufInv, RespInv, DeviceInv, Answered

\* A stuttering step keeps the invariant.
LEMMA StutterStep ==
    ASSUME IInv, UNCHANGED vars
    PROVE  IInv'
BY DEF vars, IInv, BufInv, RespInv, DeviceInv, Answered

\* The initial state satisfies the invariant.
LEMMA InitIInv == Init => IInv
<1> SUFFICES ASSUME Init PROVE IInv
  OBVIOUS
<1>1. eof \in BOOLEAN /\ exc \in BOOLEAN /\ paused \in BOOLEAN
      /\ overran \in BOOLEAN /\ connected \in BOOLEAN
  BY Zenon DEF Init
<1>2. BufInv
  BY <1>1, ConsecutiveEmpty DEF Init, BufInv
<1>3. RespInv
  <2>1. resp.data = <<>> /\ resp.matched = <<>> /\ resp.upto = 0
        /\ resp.cmd = 0 /\ resp.kind = "none" /\ delivered = 0
    BY DEF Init, NoResp
  <2>2. Consecutive(resp.data \o resp.matched,
                    resp.upto - Len(resp.data) - Len(resp.matched))
    BY <2>1, ConsecutiveEmpty
  <2>3. resp.data \in Seq(Symbol) /\ resp.matched \in RespPrompt
    BY <2>1 DEF RespPrompt
  <2>4. /\ waiter \in {"none", "pending", "woken", "failed"}
        /\ rc \in {"idle"} \cup Waiting
        /\ resp.kind \in Kinds
    BY <2>1 DEF Init, Kinds
  <2>5. QED
    BY <2>1, <2>2, <2>3, <2>4, MaxSentNat, PipelineAssumption DEF RespInv
<1>4. DeviceInv
  BY <1>1, PipelineAssumption, MaxSentNat DEF Init, DeviceInv, Answered
<1>5. QED
  BY <1>2, <1>3, <1>4 DEF IInv

\* Every step of Next keeps the invariant.
LEMMA IInvStep == IInv /\ [Next]_vars => IInv'
BY RunCommandStep, ResumeStep, SlowResumeStep, SlowPollTimeoutStep,
   CmdTimeoutStep, DeviceOutputStep, DevicePromptStep, TransportStep,
   StutterStep DEF Next

\* The invariant gives the type invariant and the stream's integrity.
LEMMA IInvImplies == IInv => TypeOK /\ StreamIntact
BY DEF IInv, BufInv, RespInv, RespPrompt, DeviceInv, TypeOK, StreamIntact

-----------------------------------------------------------------------------
(* The theorems.                                                           *)

\* Every reachable state of the command pipeline is well typed: the
\* device never numbers more than NCmds * (OutLen + 1) symbols, and a
\* response's matched text is empty or the one prompt readuntil_re found.
THEOREM TypeCorrect == Spec => []TypeOK
BY InitIInv, IInvStep, IInvImplies, PTL DEF Spec

\* No symbol is lost, duplicated or reordered between the device and the
\* caller, for any number of commands, output length and buffer limit:
\* feed_data appends, readuntil_re, its EOF path and the timeout's drain
\* hand out a prefix of the buffer, and the last response is a run of what
\* was handed out (lines 514-567, 600-603, 755-758).
THEOREM StreamIntactHolds == Spec => []StreamIntact
BY InitIInv, IInvStep, IInvImplies, PTL DEF Spec

-----------------------------------------------------------------------------
(* The pipeline implements the FIFO channel of StreamChannel under the     *)
(* mapping q <- buf, taken <- delivered, closed <- eof \/ exc.              *)

\* A read of the whole buffer is a Take of all of it, or a stutter of the
\* channel when the buffer is empty.
LEMMA TakeAll ==
    ASSUME buf \in Seq(Symbol), delivered \in Nat,
           buf' = <<>>, delivered' = delivered + Len(buf),
           eof' = eof, exc' = exc
    PROVE  [Stream!Next]_Stream!vars
<1>1. CASE Len(buf) = 0
  <2>1. buf = <<>>
    BY <1>1
  <2>2. QED
    BY <1>1, <2>1 DEF Stream!vars
<1>2. CASE Len(buf) > 0
  <2>1. SubSeq(buf, Len(buf) + 1, Len(buf)) = <<>>
    OBVIOUS
  <2>2. Stream!Take(Len(buf))
    BY <1>2, <2>1 DEF Stream!Take
  <2>3. QED
    BY <1>2, <2>2 DEF Stream!Next
<1>3. QED
  BY <1>1, <1>2

\* A step that leaves the buffer, the count and the flags alone is a
\* stutter of the channel.
LEMMA ChannelStutter ==
    ASSUME buf' = buf, delivered' = delivered, eof' = eof, exc' = exc
    PROVE  [Stream!Next]_Stream!vars
BY DEF Stream!vars

\* A pass of wait_for either leaves b in the buffer and hands nothing
\* more out, or hands all of b out and empties the buffer.
LEMMA EvalShape ==
    ASSUME NEW b \in Seq(Symbol), NEW base \in Nat, NEW modes,
           Evaluate(b, base, modes)
    PROVE  \/ buf' = b /\ delivered' = base
           \/ buf' = <<>> /\ delivered' = base + Len(b)
<1>1. CASE MatchStep(b, base) /\ exc
  BY <1>1 DEF MatchStep, Finish
<1>2. CASE MatchStep(b, base) /\ ~exc
  <2>1. PromptAt(b) /\ buf' = <<>>
        /\ delivered' = base + Len(Front(b)) + Len(<<Last(b)>>)
    BY <1>2 DEF MatchStep, Finish, Matched
  <2>2. Len(Front(b)) + 1 = Len(b)
    BY <2>1, FrontLast DEF PromptAt
  <2>3. QED
    BY <2>1, <2>2
<1>3. CASE OverrunStep(b, base)
  BY <1>3 DEF OverrunStep, Finish
<1>4. CASE EofStep(b, base)
  BY <1>4 DEF EofStep, Finish
<1>5. CASE WaitStep(b, base, modes)
  BY <1>5 DEF WaitStep
<1>6. QED
  BY <1>1, <1>2, <1>3, <1>4, <1>5 DEF Evaluate

\* A pass of wait_for on the whole buffer is a Take or a stutter.
LEMMA EvalRefines ==
    ASSUME BufInv, RespInv, NEW modes, Evaluate(buf, delivered, modes),
           eof' = eof, exc' = exc
    PROVE  [Stream!Next]_Stream!vars
<1>1. buf \in Seq(Symbol) /\ delivered \in Nat
  BY DEF BufInv, RespInv
<1>2. \/ buf' = buf /\ delivered' = delivered
      \/ buf' = <<>> /\ delivered' = delivered + Len(buf)
  BY <1>1, EvalShape
<1>3. QED
  BY <1>1, <1>2, TakeAll, ChannelStutter

\* Every step of the pipeline is a step of the channel or leaves it alone.
LEMMA StepRefines ==
    ASSUME IInv, [Next]_vars
    PROVE  [Stream!Next]_Stream!vars
<1> USE DEF IInv
<1>1. buf \in Seq(Symbol) /\ delivered \in Nat
  BY DEF BufInv, RespInv
<1>2. CASE RunCommand
  <2>1. eof' = eof /\ exc' = exc
    BY <1>2 DEF RunCommand
  <2>2. CASE ~connected \/ (connected /\ exc)
    <3>1. buf' = buf /\ delivered' = delivered + Len(<<>>) + Len(<<>>)
      BY <1>2, <2>2 DEF RunCommand, Finish
    <3>2. QED
      BY <1>1, <2>1, <3>1, ChannelStutter
  <2>3. CASE connected /\ ~exc
    <3>1. Evaluate(<<>>, delivered + Len(buf), {"quick"})
      BY <1>2, <2>3 DEF RunCommand, Evaluate
    <3>2. \/ buf' = <<>> /\ delivered' = delivered + Len(buf)
          \/ buf' = <<>> /\ delivered' = delivered + Len(buf) + Len(<<>>)
      <4>1. delivered + Len(buf) \in Nat /\ <<>> \in Seq(Symbol)
        BY <1>1
      <4>2. QED
        BY <3>1, <4>1, EvalShape
    <3>3. QED
      BY <1>1, <2>1, <3>2, TakeAll
  <2>4. QED
    BY <2>2, <2>3
<1>3. CASE Resume
  <2>1. eof' = eof /\ exc' = exc
    BY <1>3 DEF Resume
  <2>2. CASE waiter = "woken"
    BY <1>3, <2>1, <2>2, EvalRefines DEF Resume
  <2>3. CASE waiter = "failed"
    BY <1>1, <1>3, <2>1, <2>3, ChannelStutter DEF Resume, Finish
  <2>4. QED
    BY <1>3, <2>2, <2>3 DEF Resume
<1>4. CASE SlowResume
  <2>1. eof' = eof /\ exc' = exc
    BY <1>4 DEF SlowResume
  <2>2. CASE waiter = "woken" /\ ~eof
    BY <1>4, <2>1, <2>2, ChannelStutter DEF SlowResume
  <2>3. CASE waiter = "woken" /\ eof
    <3>1. buf' = <<>> /\ delivered' = delivered + Len(buf) + Len(<<>>)
      BY <1>4, <2>3 DEF SlowResume, Finish
    <3>2. QED
      BY <1>1, <2>1, <3>1, TakeAll
  <2>4. CASE waiter = "failed"
    BY <1>1, <1>4, <2>1, <2>4, ChannelStutter DEF SlowResume, Finish
  <2>5. QED
    BY <1>4, <2>2, <2>3, <2>4 DEF SlowResume
<1>5. CASE SlowPollTimeout
  <2>1. eof' = eof /\ exc' = exc /\ Evaluate(buf, delivered, {"slow"})
    BY <1>5 DEF SlowPollTimeout, Evaluate
  <2>2. QED
    BY <2>1, EvalRefines
<1>6. CASE CmdTimeout
  <2>1. eof' = eof /\ exc' = exc
    BY <1>6 DEF CmdTimeout
  <2>2. CASE ~exc
    <3>1. buf' = <<>> /\ delivered' = delivered + Len(buf) + Len(<<>>)
      BY <1>6, <2>2 DEF CmdTimeout, Finish
    <3>2. QED
      BY <1>1, <2>1, <3>1, TakeAll
  <2>3. CASE exc
    BY <1>1, <1>6, <2>1, <2>3, ChannelStutter DEF CmdTimeout, Finish
  <2>4. QED
    BY <2>2, <2>3
<1>7. CASE DeviceOutput
  <2> DEFINE sym == [c |-> Head(dev), k |-> "out", n |-> nSent + 1]
  <2>1. dev # <<>> /\ Feed(sym) /\ UNCHANGED <<eof, exc, delivered>>
    BY <1>7 DEF DeviceOutput
  <2>2. sym \in Symbol
    BY <2>1, SentBound DEF DeviceInv, Symbol
  <2>3. Stream!Send(sym)
    BY <2>1 DEF Feed, Stream!Send
  <2>4. QED
    BY <2>2, <2>3 DEF Stream!Next
<1>8. CASE DevicePrompt
  <2> DEFINE sym == [c |-> Head(dev), k |-> "prompt", n |-> nSent + 1]
  <2>1. dev # <<>> /\ Feed(sym) /\ UNCHANGED <<eof, exc, delivered>>
    BY <1>8 DEF DevicePrompt
  <2>2. sym \in Symbol
    BY <2>1, SentBound DEF DeviceInv, Symbol
  <2>3. Stream!Send(sym)
    BY <2>1 DEF Feed, Stream!Send
  <2>4. QED
    BY <2>2, <2>3 DEF Stream!Next
<1>9. CASE TransportEof \/ TransportError
  <2>1. Stream!Close
    BY <1>9 DEF TransportEof, TransportError, Stream!Close
  <2>2. QED
    BY <2>1 DEF Stream!Next
<1>10. CASE ExitStatusReceived
  BY <1>10, ChannelStutter DEF ExitStatusReceived
<1>11. CASE UNCHANGED vars
  BY <1>11, ChannelStutter DEF vars
<1>12. QED
  BY <1>2, <1>3, <1>4, <1>5, <1>6, <1>7, <1>8, <1>9, <1>10, <1>11 DEF Next

\* The command pipeline implements the FIFO channel: the buffer changes
\* only by data appended while the transport is open and by prefixes
\* handed out, each counted in delivered, for every number of commands,
\* output length and buffer limit (lines 514-567, 600-603, 755-758).
THEOREM StreamRefinement == Spec => StreamRefined
<1>1. Init => Stream!Init
  BY Zenon DEF Init, Stream!Init
<1>2. QED
  BY <1>1, InitIInv, IInvStep, StepRefines, PTL DEF Spec, StreamRefined, Stream!Spec
====
