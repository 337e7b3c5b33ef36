------------------------------ MODULE MsgQueue ------------------------------
(***************************************************************************)
(* The msgQueue of a subscription (wirtuald/database/pubsub/pubsub.go): a  *)
(* ring buffer between the goroutine that receives notifications, which    *)
(* must not block, and run(), which calls the listener.  If it is full,    *)
(* the youngest item is overwritten by ErrDroppedMessages.                 *)
(*                                                                         *)
(* A message is its number; MsgQueue only moves it.                        *)
(***************************************************************************)
EXTENDS Naturals, Sequences

CONSTANTS
    BufferSize,   \* 2048 in the code
    ErrDropped

ASSUME BufferAssumption == BufferSize \in Nat \ {0}
ASSUME ErrDroppedAssumption == ErrDropped \notin Nat

VARIABLES
    q,        \* the ring
    front, size,
    closed,
    handed,   \* the item run() took last; 0 before the first
    busy,     \* run() is calling the listener
    exited,   \* run() has returned
    sent      \* the number of enqueue calls

queueVars == <<q, front, size, closed, handed, busy, exited, sent>>

InitQueue ==
    /\ q = [i \in 0..BufferSize - 1 |-> 0]
    /\ front = 0 /\ size = 0
    /\ closed = FALSE
    /\ handed = 0 /\ busy = FALSE /\ exited = FALSE
    /\ sent = 0

-----------------------------------------------------------------------------
\* Mutant: the place behind the youngest item is overwritten, which is the oldest's.
OverwriteFront(item) ==
    IF size = BufferSize
    THEN q' = [q EXCEPT ![front] = ErrDropped] /\ UNCHANGED size
    ELSE q' = [q EXCEPT ![(front + size) % BufferSize] = item] /\ size' = size + 1

\* Mutant: a full buffer is not noticed.
PutUnbounded(item) ==
    /\ q' = [q EXCEPT ![(front + size) % BufferSize] = item]
    /\ size' = size + 1

\* The common part of enqueue and dropped.
Put(item) ==
    IF size = BufferSize
    THEN LET back == (front + BufferSize - 1) % BufferSize
         IN  q' = [q EXCEPT ![back] = ErrDropped] /\ UNCHANGED size
    ELSE LET next == (front + size) % BufferSize
         IN  q' = [q EXCEPT ![next] = item] /\ size' = size + 1

\* enqueue: also a closed queue still takes messages.
Enqueue ==
    /\ sent' = sent + 1
    /\ Put(sent + 1)
    /\ UNCHANGED <<front, closed, handed, busy, exited>>

\* dropped.
DroppedMessages ==
    /\ Put(ErrDropped)
    /\ UNCHANGED <<front, closed, handed, busy, exited, sent>>

\* run: an item is taken, and the listener called without the lock.
Take ==
    /\ ~busy /\ ~exited /\ ~closed
    /\ size > 0
    /\ handed' = q[front]
    /\ front' = (front + 1) % BufferSize
    /\ size' = size - 1
    /\ busy' = TRUE
    /\ UNCHANGED <<q, closed, exited, sent>>

\* The listener returns.
ListenerReturns ==
    /\ busy
    /\ busy' = FALSE
    /\ UNCHANGED <<q, front, size, closed, handed, exited, sent>>

\* close.
CloseQueue ==
    /\ closed' = TRUE
    /\ UNCHANGED <<q, front, size, handed, busy, exited, sent>>

\* run returns.
RunExits ==
    /\ ~busy /\ ~exited /\ closed
    /\ exited' = TRUE
    /\ UNCHANGED <<q, front, size, closed, handed, busy, sent>>

NextQueue ==
    Enqueue \/ DroppedMessages \/ Take \/ ListenerReturns \/ CloseQueue \/ RunExits

SpecQueue == InitQueue /\ [][NextQueue]_queueVars

-----------------------------------------------------------------------------
(* Refinement. *)

\* The items in the ring, the oldest first.
Queue == [i \in 1..size |-> q[(front + i - 1) % BufferSize]]

Lossy == INSTANCE LossyQueue WITH queue <- Queue

\* The ring buffer keeps the promise of LossyQueue: order, one call at a time, and an
\* error wherever messages were lost.
QueueIsLossy == Lossy!Spec

\* No message is lost in silence, also if the buffer runs full several times.
LossesAnnounced == Lossy!NoSilentLoss

\* Type correctness of the ring: front and size stay within the buffer.
QueueTypeOK ==
    /\ q \in [0..BufferSize - 1 -> Nat \cup {ErrDropped}]
    /\ front \in 0..BufferSize - 1
    /\ size \in 0..BufferSize
    /\ {closed, busy, exited} \subseteq BOOLEAN
    /\ handed \in Nat \cup {ErrDropped}
    /\ sent \in Nat
=============================================================================
