---------------------------- MODULE StreamChannel ----------------------------
(***************************************************************************)
(* What the session's stream reader (CommandStreamReader over the          *)
(* CommandStream protocol, lines 440-609) promises its callers: a FIFO     *)
(* channel.  The transport appends data at the end until the stream is     *)
(* closed; a reader takes some of the oldest data off the front and        *)
(* nothing else.  q is the data received and not yet read, taken how much  *)
(* has been read so far.                                                   *)
(***************************************************************************)
EXTENDS Naturals, Sequences

CONSTANT Data     \* what one piece of received data can be

VARIABLES
    q,       \* received and not yet read
    taken,   \* read so far
    closed   \* the transport has ended (EOF or an error)

vars == <<q, taken, closed>>

Init ==
    /\ q = <<>>
    /\ taken = 0
    /\ closed = FALSE

\* data_received appends to the stream while it is open.
Send(x) ==
    /\ ~closed
    /\ q' = Append(q, x)
    /\ UNCHANGED <<taken, closed>>

\* read(n) takes the n oldest pieces off the front.
Take(n) ==
    /\ n \in 1..Len(q)
    /\ q' = SubSeq(q, n + 1, Len(q))
    /\ taken' = taken + n
    /\ UNCHANGED closed

\* connection_lost ends the stream.
Close ==
    /\ ~closed
    /\ closed' = TRUE
    /\ UNCHANGED <<q, taken>>

Next ==
    \/ \E x \in Data : Send(x)
    \/ \E n \in 1..Len(q) : Take(n)
    \/ Close

Spec == Init /\ [][Next]_vars
====
