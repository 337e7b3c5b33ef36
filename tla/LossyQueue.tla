----------------------------- MODULE LossyQueue -----------------------------
(***************************************************************************)
(* What a subscription of the pubsub promises to its listener: messages,   *)
(* numbered as they arrive, are handed over one at a time and in order;    *)
(* messages may be lost, but an error is then handed over in their place.  *)
(***************************************************************************)
EXTENDS Naturals, Sequences

CONSTANT ErrDropped   \* not a number

VARIABLES
    sent,     \* how many messages have arrived
    queue,    \* the numbers of the messages that wait, and errors
    handed,   \* what the listener was called with last; 0 before the first call
    busy,     \* the listener is running
    closed,   \* the subscription is canceled
    exited    \* nothing is handed over any more

vars == <<sent, queue, handed, busy, closed, exited>>

Init ==
    /\ sent = 0
    /\ queue = <<>>
    /\ handed = 0
    /\ busy = FALSE
    /\ closed = FALSE
    /\ exited = FALSE

\* The youngest item gives way to an error.
Replaced == [queue EXCEPT ![Len(queue)] = ErrDropped]

\* A message arrives, and is queued or lost.
Arrive ==
    /\ sent' = sent + 1
    /\ \/ queue' = Append(queue, sent + 1)
       \/ queue # <<>> /\ queue' = Replaced
    /\ UNCHANGED <<handed, busy, closed, exited>>

\* Messages may have been lost before they arrived.
Lose ==
    /\ \/ queue' = Append(queue, ErrDropped)
       \/ queue # <<>> /\ queue' = Replaced
    /\ UNCHANGED <<sent, handed, busy, closed, exited>>

\* The listener is called with the oldest item, and returns.
Hand ==
    /\ ~busy /\ ~closed
    /\ queue # <<>>
    /\ handed' = Head(queue)
    /\ queue' = Tail(queue)
    /\ busy' = TRUE
    /\ UNCHANGED <<sent, closed, exited>>

Return ==
    /\ busy
    /\ busy' = FALSE
    /\ UNCHANGED <<sent, queue, handed, closed, exited>>

\* The subscription ends.
Close ==
    /\ closed' = TRUE
    /\ UNCHANGED <<sent, queue, handed, busy, exited>>

Exit ==
    /\ closed /\ ~busy
    /\ exited' = TRUE
    /\ UNCHANGED <<sent, queue, handed, busy, closed>>

Next == Arrive \/ Lose \/ Hand \/ Return \/ Close \/ Exit

Spec == Init /\ [][Next]_vars

-----------------------------------------------------------------------------
\* y may be handed over right after x: the next message, or one side is an error.
Follows(x, y) == x = ErrDropped \/ y = ErrDropped \/ y = x + 1

\* The youngest item: of the queue or, if that is empty, of the listener.
Youngest == IF queue = <<>> THEN handed ELSE queue[Len(queue)]

\* No message is lost in silence: between two messages that do not follow each other
\* there is an error, and so there is if the last message to arrive is missing.
NoSilentLoss ==
    /\ queue # <<>> => Follows(handed, queue[1])
    /\ \A i \in 1..Len(queue) - 1 : Follows(queue[i], queue[i+1])
    /\ Youngest \in {sent, ErrDropped}
=============================================================================
