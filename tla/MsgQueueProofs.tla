--------------------------- MODULE MsgQueueProofs ---------------------------
(***************************************************************************)
(* Proofs that the ring buffer of a subscription implements LossyQueue,    *)
(* for every size of the buffer, and that it announces its losses, also    *)
(* as the queue of a log follower.                                         *)
(***************************************************************************)
EXTENDS LogFollower, SequenceTheorems, TLAPS

USE BufferAssumption, ErrDroppedAssumption

Item == Nat \cup {ErrDropped}

-----------------------------------------------------------------------------
(* Positions in the ring. *)

\* A position that has not wrapped around.
LEMMA ModBelow == \A x \in 0..BufferSize - 1 : x % BufferSize = x
OBVIOUS

\* A position that has wrapped around once.
LEMMA ModAbove ==
    ASSUME NEW x \in BufferSize..2 * BufferSize - 1
    PROVE  x % BufferSize = x - BufferSize
<1> DEFINE d == x \div BufferSize
<1>1. x = BufferSize * d + (x % BufferSize) /\ (x % BufferSize) \in 0..BufferSize - 1 /\ d \in Int
    OBVIOUS
<1>2. d >= 2 => BufferSize * d >= 2 * BufferSize
    BY <1>1
<1>3. d <= 0 => BufferSize * d <= 0
    BY <1>1
<1> HIDE DEF d
<1>4. d = 1
    BY <1>1, <1>2, <1>3
<1> QED
    BY <1>1, <1>4

\* Where the ring keeps the i-th oldest item.
Slot(f, i) == (f + i - 1) % BufferSize

\* The slots without division.
LEMMA SlotValue ==
    ASSUME NEW f \in 0..BufferSize - 1, NEW i \in 1..BufferSize
    PROVE  /\ Slot(f, i) = IF f + i - 1 < BufferSize THEN f + i - 1 ELSE f + i - 1 - BufferSize
           /\ Slot(f, i) \in 0..BufferSize - 1
<1>1. CASE f + i - 1 < BufferSize
    <2>1. f + i - 1 \in 0..BufferSize - 1
        BY <1>1
    <2> QED
        BY <1>1, <2>1, ModBelow DEF Slot
<1>2. CASE f + i - 1 >= BufferSize
    <2>1. f + i - 1 \in BufferSize..2 * BufferSize - 1
        BY <1>2
    <2>2. Slot(f, i) = f + i - 1 - BufferSize
        BY <2>1, ModAbove DEF Slot
    <2> QED
        BY <1>2, <2>2
<1> QED
    BY <1>1, <1>2

\* Different items are in different slots.
LEMMA SlotInjective ==
    ASSUME NEW f \in 0..BufferSize - 1, NEW i \in 1..BufferSize, NEW j \in 1..BufferSize,
           Slot(f, i) = Slot(f, j)
    PROVE  i = j
<1> DEFINE Place(k) == IF f + k - 1 < BufferSize THEN f + k - 1 ELSE f + k - 1 - BufferSize
<1>1. Slot(f, i) = Place(i) /\ Slot(f, j) = Place(j)
    BY SlotValue
<1>2. Place(i) = Place(j)
    BY <1>1
<1> QED
    BY ONLY <1>2, BufferAssumption, f \in 0..BufferSize - 1, i \in 1..BufferSize, j \in 1..BufferSize

\* Without its oldest item, the ring starts one slot further.
LEMMA SlotShift ==
    ASSUME NEW f \in 0..BufferSize - 1, NEW i \in 1..BufferSize - 1
    PROVE  /\ (f + 1) % BufferSize \in 0..BufferSize - 1
           /\ Slot((f + 1) % BufferSize, i) = Slot(f, i + 1)
<1> DEFINE g == IF f + 1 < BufferSize THEN f + 1 ELSE f + 1 - BufferSize
<1>1. (f + 1) % BufferSize = g
    <2>1. f + 1 = f + 2 - 1 /\ 2 \in 1..BufferSize
        OBVIOUS
    <2> QED
        BY <2>1, SlotValue DEF Slot
<1>2. g \in 0..BufferSize - 1 /\ i \in 1..BufferSize /\ i + 1 \in 1..BufferSize
    OBVIOUS
<1> HIDE DEF g
<1>3. Slot(g, i) = IF g + i - 1 < BufferSize THEN g + i - 1 ELSE g + i - 1 - BufferSize
    BY <1>2, SlotValue
<1>4. Slot(f, i + 1)
        = IF f + (i + 1) - 1 < BufferSize THEN f + (i + 1) - 1 ELSE f + (i + 1) - 1 - BufferSize
    BY <1>2, SlotValue
<1> QED
    BY <1>1, <1>2, <1>3, <1>4 DEF g

-----------------------------------------------------------------------------
(* The ring as a sequence. *)

LEMMA QueueIsSequence ==
    ASSUME QueueTypeOK
    PROVE  /\ Queue \in Seq(Item)
           /\ Len(Queue) = size
           /\ \A i \in 1..size : Queue[i] = q[Slot(front, i)]
<1>1. \A i \in 1..size : q[Slot(front, i)] \in Item
    BY SlotValue DEF QueueTypeOK, Item
<1>2. Queue = [i \in 1..size |-> q[Slot(front, i)]] /\ size \in Nat
    BY DEF Queue, Slot, QueueTypeOK
<1> QED
    BY <1>1, <1>2

\* Putting an item into the ring appends it, or replaces the youngest one by an error.
LEMMA PutIsAppendOrReplace ==
    ASSUME QueueTypeOK, NEW item \in Item, Put(item), front' = front
    PROVE  /\ q' \in [0..BufferSize - 1 -> Item] /\ size' \in 0..BufferSize
           /\ \/ Queue' = Append(Queue, item)
              \/ Queue # <<>> /\ Queue' = [Queue EXCEPT ![Len(Queue)] = ErrDropped]
<1>0. /\ q \in [0..BufferSize - 1 -> Item] /\ front \in 0..BufferSize - 1
      /\ size \in 0..BufferSize
    BY DEF QueueTypeOK, Item
<1>1. CASE size = BufferSize
    <2>1. (front + BufferSize - 1) % BufferSize = Slot(front, size)
        BY <1>1 DEF Slot
    <2>2. q' = [q EXCEPT ![Slot(front, size)] = ErrDropped] /\ size' = size
        BY <1>1, <2>1 DEF Put
    <2>3. Slot(front, size) \in 0..BufferSize - 1
        BY <1>0, <1>1, SlotValue
    <2>4. q' \in [0..BufferSize - 1 -> Item]
        BY <1>0, <2>2, <2>3 DEF Item
    <2>5. QueueTypeOK => Queue # <<>> /\ Len(Queue) = size
        BY <1>0, <1>1, QueueIsSequence
    <2>6. \A i \in 1..size :
              q'[Slot(front, i)] = IF i = size THEN ErrDropped ELSE q[Slot(front, i)]
        <3> SUFFICES ASSUME NEW i \in 1..size
                     PROVE q'[Slot(front, i)] = IF i = size THEN ErrDropped ELSE q[Slot(front, i)]
            OBVIOUS
        <3>1. i \in 1..BufferSize /\ size \in 1..BufferSize
            BY <1>0, <1>1
        <3>2. Slot(front, i) = Slot(front, size) => i = size
            BY <1>0, <3>1, SlotInjective
        <3>3. Slot(front, i) \in 0..BufferSize - 1
            BY <1>0, <3>1, SlotValue
        <3> QED
            BY <1>0, <2>2, <2>3, <3>2, <3>3
    <2>7. Queue' = [i \in 1..size |-> IF i = size THEN ErrDropped ELSE q[Slot(front, i)]]
        BY <2>2, <2>6 DEF Queue, Slot
    <2>8. Queue = [i \in 1..size |-> q[Slot(front, i)]]
        BY DEF Queue, Slot
    <2>9. Queue' = [Queue EXCEPT ![size] = ErrDropped]
        BY <2>7, <2>8
    <2> QED
        BY <1>0, <2>2, <2>4, <2>5, <2>9
<1>2. CASE size # BufferSize
    <2>1. size + 1 \in 1..BufferSize /\ size \in Nat
        BY <1>0, <1>2
    <2>2. (front + size) % BufferSize = Slot(front, size + 1)
        BY <1>0 DEF Slot
    <2>3. q' = [q EXCEPT ![Slot(front, size + 1)] = item] /\ size' = size + 1
        BY <1>2, <2>2 DEF Put
    <2>4. Slot(front, size + 1) \in 0..BufferSize - 1
        BY <1>0, <2>1, SlotValue
    <2>5. q' \in [0..BufferSize - 1 -> Item]
        BY <1>0, <2>3, <2>4
    <2>6. \A i \in 1..size + 1 :
              q'[Slot(front, i)] = IF i = size + 1 THEN item ELSE q[Slot(front, i)]
        <3> SUFFICES ASSUME NEW i \in 1..size + 1
                     PROVE q'[Slot(front, i)] = IF i = size + 1 THEN item ELSE q[Slot(front, i)]
            OBVIOUS
        <3>1. i \in 1..BufferSize
            BY <1>0, <2>1
        <3>2. Slot(front, i) = Slot(front, size + 1) => i = size + 1
            BY <1>0, <2>1, <3>1, SlotInjective
        <3>3. Slot(front, i) \in 0..BufferSize - 1
            BY <1>0, <3>1, SlotValue
        <3> QED
            BY <1>0, <2>3, <2>4, <3>2, <3>3
    <2>7. Queue' = [i \in 1..size + 1 |-> IF i = size + 1 THEN item ELSE q[Slot(front, i)]]
        BY <2>3, <2>6 DEF Queue, Slot
    <2>8. Queue \in Seq(Item) /\ Len(Queue) = size
          /\ \A i \in 1..size : Queue[i] = q[Slot(front, i)]
        BY QueueIsSequence
    <2> DEFINE longer == Append(Queue, item)
    <2>9. longer \in Seq(Item) /\ Len(longer) = size + 1 /\ longer[size + 1] = item
          /\ \A i \in 1..size : longer[i] = q[Slot(front, i)]
        BY <2>8, AppendProperties
    <2>10. Queue' \in Seq(Item) /\ Len(Queue') = size + 1
        <3>1. \A i \in 1..size + 1 : (IF i = size + 1 THEN item ELSE q[Slot(front, i)]) \in Item
            BY <1>0, <2>1, SlotValue
        <3> QED
            BY <2>1, <2>7, <3>1
    <2> HIDE DEF longer
    <2>11. \A i \in 1..size + 1 : Queue'[i] = longer[i]
        <3>1. \A i \in 1..size + 1 : i = size + 1 \/ i \in 1..size
            BY <2>1
        <3>2. \A i \in 1..size : i # size + 1
            BY <2>1
        <3> QED
            BY <2>7, <2>9, <3>1, <3>2
    <2>12. Queue' = longer
        BY <2>9, <2>10, <2>11, SeqEqual
    <2> QED
        BY <1>0, <2>1, <2>3, <2>5, <2>12 DEF longer
<1> QED
    BY <1>1, <1>2

\* Taking an item from the ring takes the head of the sequence.
LEMMA TakeIsHead ==
    ASSUME QueueTypeOK, Take
    PROVE  /\ Queue # <<>> /\ handed' = Head(Queue) /\ Queue' = Tail(Queue)
           /\ front' \in 0..BufferSize - 1 /\ size' \in 0..BufferSize /\ handed' \in Item
<1>0. /\ q \in [0..BufferSize - 1 -> Item] /\ front \in 0..BufferSize - 1
      /\ size \in 1..BufferSize
    BY DEF QueueTypeOK, Item, Take
<1>1. Queue \in Seq(Item) /\ Len(Queue) = size /\ Queue # <<>>
      /\ \A i \in 1..size : Queue[i] = q[Slot(front, i)]
    BY <1>0, QueueIsSequence
<1>2. Slot(front, 1) = front
    BY <1>0, SlotValue
<1>3. handed' = Head(Queue)
    BY <1>0, <1>1, <1>2 DEF Take
<1>4. front' = (front + 1) % BufferSize /\ size' = size - 1 /\ q' = q
    BY DEF Take
<1>5. front' \in 0..BufferSize - 1
    <2>1. front + 1 \in 0..BufferSize - 1 \/ front + 1 \in BufferSize..2 * BufferSize - 1
        BY <1>0
    <2> QED
        BY <1>0, <1>4, <2>1, ModBelow, ModAbove
<1>6. \A i \in 1..size - 1 : Slot(front', i) = Slot(front, i + 1)
    BY <1>0, <1>4, SlotShift
<1>7. Queue' = [i \in 1..size - 1 |-> q[Slot(front, i + 1)]]
    BY <1>4, <1>6 DEF Queue, Slot
<1> DEFINE rest == Tail(Queue)
<1>8. rest \in Seq(Item) /\ Len(rest) = size - 1
      /\ \A i \in 1..size - 1 : rest[i] = q[Slot(front, i + 1)]
    BY <1>0, <1>1, HeadTailProperties
<1>9. Queue' \in Seq(Item) /\ Len(Queue') = size - 1
    <2>1. \A i \in 1..size - 1 : q[Slot(front, i + 1)] \in Item
        BY <1>0, SlotValue
    <2> QED
        BY <1>0, <1>7, <2>1
<1> HIDE DEF rest
<1>10. \A i \in 1..size - 1 : Queue'[i] = rest[i]
    BY <1>7, <1>8
<1>11. Queue' = rest
    BY <1>8, <1>9, <1>10, SeqEqual
<1>12. handed' \in Item
    BY <1>0 DEF Take
<1> QED
    BY <1>0, <1>1, <1>3, <1>4, <1>5, <1>11, <1>12 DEF rest

-----------------------------------------------------------------------------
(* The refinement. *)

LEMMA QueueInit == InitQueue => QueueTypeOK /\ Lossy!Init
<1> SUFFICES ASSUME InitQueue PROVE QueueTypeOK /\ Lossy!Init
    OBVIOUS
<1>1. QueueTypeOK
    <2>1. q \in [0..BufferSize - 1 -> Nat \cup {ErrDropped}]
        BY DEF InitQueue
    <2>2. front \in 0..BufferSize - 1 /\ size \in 0..BufferSize
        BY DEF InitQueue
    <2>3. {closed, busy, exited} \subseteq BOOLEAN
        BY Zenon DEF InitQueue
    <2>4. handed \in Nat \cup {ErrDropped} /\ sent \in Nat
        BY DEF InitQueue
    <2> QED
        BY <2>1, <2>2, <2>3, <2>4 DEF QueueTypeOK
<1>2. Queue = <<>>
    BY DEF InitQueue, Queue
<1> QED
    BY <1>1, <1>2 DEF InitQueue, Lossy!Init

\* Each step of the ring is a step of LossyQueue, or none.
LEMMA QueueStep ==
    ASSUME QueueTypeOK, [NextQueue]_queueVars
    PROVE  QueueTypeOK' /\ [Lossy!Next]_Lossy!vars
<1>1. CASE Enqueue
    <2>1. sent + 1 \in Item /\ sent' = sent + 1 /\ Put(sent + 1)
          /\ UNCHANGED <<front, closed, handed, busy, exited>>
        BY <1>1 DEF Enqueue, QueueTypeOK, Item
    <2>2. /\ q' \in [0..BufferSize - 1 -> Item] /\ size' \in 0..BufferSize
          /\ \/ Queue' = Append(Queue, sent + 1)
             \/ Queue # <<>> /\ Queue' = [Queue EXCEPT ![Len(Queue)] = ErrDropped]
        BY <2>1, PutIsAppendOrReplace
    <2>3. QueueTypeOK'
        BY <2>1, <2>2 DEF QueueTypeOK, Item
    <2>4. Lossy!Arrive
        BY <2>1, <2>2 DEF Lossy!Arrive, Lossy!Replaced
    <2> QED
        BY <2>3, <2>4 DEF Lossy!Next
<1>2. CASE DroppedMessages
    <2>1. ErrDropped \in Item /\ Put(ErrDropped)
          /\ UNCHANGED <<front, closed, handed, busy, exited, sent>>
        BY <1>2 DEF DroppedMessages, Item
    <2>2. /\ q' \in [0..BufferSize - 1 -> Item] /\ size' \in 0..BufferSize
          /\ \/ Queue' = Append(Queue, ErrDropped)
             \/ Queue # <<>> /\ Queue' = [Queue EXCEPT ![Len(Queue)] = ErrDropped]
        BY <2>1, PutIsAppendOrReplace
    <2>3. QueueTypeOK'
        BY <2>1, <2>2 DEF QueueTypeOK, Item
    <2>4. Lossy!Lose
        BY <2>1, <2>2 DEF Lossy!Lose, Lossy!Replaced
    <2> QED
        BY <2>3, <2>4 DEF Lossy!Next
<1>3. CASE Take
    <2>1. /\ Queue # <<>> /\ handed' = Head(Queue) /\ Queue' = Tail(Queue)
          /\ front' \in 0..BufferSize - 1 /\ size' \in 0..BufferSize /\ handed' \in Item
        BY <1>3, TakeIsHead
    <2>2. QueueTypeOK'
        BY <1>3, <2>1 DEF Take, QueueTypeOK, Item
    <2>3. Lossy!Hand
        BY <1>3, <2>1 DEF Take, Lossy!Hand
    <2> QED
        BY <2>2, <2>3 DEF Lossy!Next
<1>4. CASE ListenerReturns \/ CloseQueue \/ RunExits
    <2>1. UNCHANGED <<q, front, size>>
        BY <1>4 DEF ListenerReturns, CloseQueue, RunExits
    <2>2. Queue' = Queue
        BY <2>1 DEF Queue
    <2>3. QueueTypeOK'
        BY <1>4, <2>1 DEF ListenerReturns, CloseQueue, RunExits, QueueTypeOK
    <2>4. CASE ListenerReturns
        BY <2>2, <2>3, <2>4 DEF ListenerReturns, Lossy!Return, Lossy!Next
    <2>5. CASE CloseQueue
        BY <2>2, <2>3, <2>5 DEF CloseQueue, Lossy!Close, Lossy!Next
    <2>6. CASE RunExits
        BY <2>2, <2>3, <2>6 DEF RunExits, Lossy!Exit, Lossy!Next
    <2> QED
        BY <1>4, <2>4, <2>5, <2>6
<1>5. CASE UNCHANGED queueVars
    <2>1. Queue' = Queue
        BY <1>5 DEF queueVars, Queue
    <2> QED
        BY <1>5, <2>1 DEF queueVars, QueueTypeOK, Lossy!vars
<1> QED
    BY <1>1, <1>2, <1>3, <1>4, <1>5 DEF NextQueue

\* The ring buffer, of any size, implements LossyQueue: items are handed over one at a
\* time, in order, and are only lost where an error takes their place.
THEOREM MsgQueueIsLossyQueue == SpecQueue => QueueIsLossy
BY QueueInit, QueueStep, PTL DEF SpecQueue, QueueIsLossy, Lossy!Spec

-----------------------------------------------------------------------------
(* Losses are announced. *)

LEMMA NonEmptySeq == ASSUME NEW S, NEW s \in Seq(S) PROVE s # <<>> <=> Len(s) > 0
OBVIOUS

\* What is in the queue, with what the listener has, loses nothing in silence.
LEMMA LossStep ==
    ASSUME QueueTypeOK, LossesAnnounced, [Lossy!Next]_Lossy!vars
    PROVE  LossesAnnounced'
<1> DEFINE n == Len(Queue)
<1>0. /\ Queue \in Seq(Item) /\ n \in Nat
      /\ handed \in Item /\ sent \in Nat
      /\ Queue # <<>> => n > 0
      /\ Queue = <<>> => n = 0
    BY QueueIsSequence DEF QueueTypeOK, Item
<1>1. /\ n > 0 => Lossy!Follows(handed, Queue[1])
      /\ \A i \in 1..n - 1 : Lossy!Follows(Queue[i], Queue[i+1])
      /\ n > 0 => Queue[n] \in {sent, ErrDropped}
      /\ n = 0 => handed \in {sent, ErrDropped}
    BY <1>0 DEF LossesAnnounced, Lossy!NoSilentLoss, Lossy!Youngest
<1> DEFINE Appended(item) ==
              /\ Queue' = Append(Queue, item)
              /\ UNCHANGED handed
              /\ item \in {sent', ErrDropped}
              /\ item # ErrDropped => item = sent + 1
           Replaced ==
              /\ n > 0
              /\ Queue' = [Queue EXCEPT ![n] = ErrDropped]
              /\ UNCHANGED handed
<1>2. ASSUME NEW item \in Item, Appended(item)
      PROVE  LossesAnnounced'
    <2>1. /\ Queue' \in Seq(Item) /\ Len(Queue') = n + 1 /\ Queue'[n + 1] = item
          /\ \A i \in 1..n : Queue'[i] = Queue[i]
        BY <1>0, <1>2, AppendProperties
    <2>2. Queue' # <<>>
        BY <1>0, <2>1
    <2>3. Lossy!Follows(handed', Queue'[1])
        <3>1. CASE n > 0
            BY <1>0, <1>1, <1>2, <2>1, <3>1
        <3>2. CASE n = 0
            BY <1>0, <1>1, <1>2, <2>1, <3>2 DEF Lossy!Follows
        <3> QED
            BY <1>0, <3>1, <3>2
    <2>4. \A i \in 1..n : Lossy!Follows(Queue'[i], Queue'[i+1])
        <3> SUFFICES ASSUME NEW i \in 1..n PROVE Lossy!Follows(Queue'[i], Queue'[i+1])
            OBVIOUS
        <3>1. CASE i < n
            <4>1. i \in 1..n - 1 /\ i + 1 \in 1..n
                BY <1>0, <3>1
            <4> QED
                BY <1>1, <2>1, <4>1
        <3>2. CASE i = n
            BY <1>0, <1>1, <1>2, <2>1, <3>2 DEF Lossy!Follows
        <3> QED
            BY <1>0, <3>1, <3>2
    <2>5. 1..Len(Queue') - 1 = 1..n
        BY <1>0, <2>1
    <2> QED
        BY <1>0, <1>2, <2>1, <2>2, <2>3, <2>4, <2>5
           DEF LossesAnnounced, Lossy!NoSilentLoss, Lossy!Youngest
<1>3. ASSUME Replaced
      PROVE  LossesAnnounced'
    <2>1. /\ Queue' \in Seq(Item) /\ Len(Queue') = n /\ Queue'[n] = ErrDropped
          /\ \A i \in 1..n - 1 : Queue'[i] = Queue[i]
        BY <1>0, <1>3, ExceptSeq DEF Item
    <2>0. n > 0 /\ UNCHANGED handed
        BY <1>3
    <2>2. Queue' # <<>>
        <3>1. Len(Queue') > 0
            BY <2>0, <2>1
        <3> QED
            BY <2>1, <3>1, NonEmptySeq
    <2> HIDE DEF n
    <2>3. Lossy!Follows(handed', Queue'[1])
        <3>1. CASE n > 1
            <4>1. 1 \in 1..n - 1
                BY <1>0, <3>1
            <4>2. Queue'[1] = Queue[1]
                BY <2>1, <4>1
            <4> QED
                BY <1>1, <2>0, <4>2
        <3>2. CASE n = 1
            BY <2>1, <3>2 DEF Lossy!Follows
        <3>3. n > 1 \/ n = 1
            BY <1>0, <2>0
        <3> QED
            BY <3>1, <3>2, <3>3
    <2>4. \A i \in 1..n - 1 : Lossy!Follows(Queue'[i], Queue'[i+1])
        <3> SUFFICES ASSUME NEW i \in 1..n - 1 PROVE Lossy!Follows(Queue'[i], Queue'[i+1])
            OBVIOUS
        <3>1. CASE i + 1 < n
            <4>1. i + 1 \in 1..n - 1
                BY <1>0, <3>1
            <4> QED
                BY <1>1, <2>1, <4>1
        <3>2. CASE i + 1 = n
            BY <2>1, <3>2 DEF Lossy!Follows
        <3> QED
            BY <1>0, <3>1, <3>2
    <2> QED
        BY <1>0, <2>1, <2>2, <2>3, <2>4 DEF LossesAnnounced, Lossy!NoSilentLoss, Lossy!Youngest
<1>4. CASE Lossy!Arrive
    <2>1. sent + 1 \in Item /\ sent + 1 # ErrDropped
        BY <1>0 DEF Item
    <2>2. Appended(sent + 1) \/ Replaced
        BY <1>0, <1>4, <2>1 DEF Lossy!Arrive, Lossy!Replaced
    <2> HIDE DEF Appended, Replaced
    <2> QED
        BY <1>2, <1>3, <2>1, <2>2
<1>5. CASE Lossy!Lose
    <2>1. ErrDropped \in Item
        BY DEF Item
    <2>2. Appended(ErrDropped) \/ Replaced
        BY <1>0, <1>5 DEF Lossy!Lose, Lossy!Replaced
    <2> HIDE DEF Appended, Replaced
    <2> QED
        BY <1>2, <1>3, <2>1, <2>2
<1>6. CASE Lossy!Hand
    <2>1. /\ n > 0 /\ handed' = Queue[1] /\ Queue' = Tail(Queue) /\ sent' = sent
        BY <1>0, <1>6 DEF Lossy!Hand
    <2>2. /\ Queue' \in Seq(Item) /\ Len(Queue') = n - 1
          /\ \A i \in 1..n - 1 : Queue'[i] = Queue[i+1]
        BY <1>0, <2>1, HeadTailProperties
    <2>3. Queue' # <<>> <=> n > 1
        <3>1. Queue' # <<>> <=> Len(Queue') > 0
            BY <2>2, NonEmptySeq
        <3>2. Len(Queue') > 0 <=> n > 1
            BY <1>0, <2>2
        <3> QED
            BY <3>1, <3>2
    <2>4. n > 1 => Lossy!Follows(handed', Queue'[1])
        BY <1>0, <1>1, <2>1, <2>2
    <2>5. \A i \in 1..(n - 1) - 1 : Lossy!Follows(Queue'[i], Queue'[i+1])
        <3> SUFFICES ASSUME NEW i \in 1..(n - 1) - 1 PROVE Lossy!Follows(Queue'[i], Queue'[i+1])
            OBVIOUS
        <3>1. i + 1 \in 1..n - 1 /\ i \in 1..n - 1
            BY <1>0
        <3> QED
            BY <1>1, <2>2, <3>1
    <2>6. CASE n > 1
        <3>1. Queue'[n - 1] \in {sent, ErrDropped}
            BY <1>0, <1>1, <2>2, <2>6
        <3> QED
            BY <2>1, <2>2, <2>3, <2>4, <2>5, <2>6, <3>1
               DEF LossesAnnounced, Lossy!NoSilentLoss, Lossy!Youngest
    <2>7. CASE n = 1
        BY <1>0, <1>1, <2>1, <2>2, <2>3, <2>5, <2>7
           DEF LossesAnnounced, Lossy!NoSilentLoss, Lossy!Youngest
    <2>8. n > 1 \/ n = 1
        <3> HIDE DEF n
        <3> QED
            BY <1>0, <2>1
    <2> QED
        BY <2>6, <2>7, <2>8
<1>7. CASE Lossy!Return \/ Lossy!Close \/ Lossy!Exit \/ UNCHANGED Lossy!vars
    BY <1>7 DEF Lossy!Return, Lossy!Close, Lossy!Exit, Lossy!vars, LossesAnnounced,
       Lossy!NoSilentLoss, Lossy!Youngest
<1> QED
    BY <1>4, <1>5, <1>6, <1>7 DEF Lossy!Next

\* Nothing has been lost at first.
LEMMA LossInit == InitQueue => LossesAnnounced
<1>1. InitQueue => Queue = <<>> /\ handed = 0 /\ sent = 0
    BY DEF InitQueue, Queue
<1>2. InitQueue => Len(Queue) = 0
    BY <1>1
<1> QED
    BY <1>1, <1>2 DEF LossesAnnounced, Lossy!NoSilentLoss, Lossy!Youngest

\* However full the ring buffer gets, the listener is told of every loss.
THEOREM MsgQueueAnnouncesLosses == SpecQueue => []LossesAnnounced
BY QueueInit, QueueStep, LossInit, LossStep, PTL DEF SpecQueue

-----------------------------------------------------------------------------
(* The follower. *)

\* Each step of the follower is a step of its queue, or leaves it alone.
LEMMA FollowerStepsQueue == [Next]_vars => [NextQueue]_queueVars
<1>1. CASE Writers
    BY <1>1 DEF Writers, Acquire, CancelPending, UpdateJob, UpdateJobPublish, UpdateJobFails,
       UpdateJobLate, StrayPublish, CompleteJob, CompleteJobPublish, CompleteJobFails, Terminate,
       TerminatePublish, TerminateFails
<1>2. CASE Connection
    BY <1>2 DEF Connection, Receive, ReceiveReconnect, Disconnect, Reconnect, NextQueue
<1>3. CASE Follow
    BY <1>3 DEF Follow, NewLogFollower, FollowSubscribe, FollowCheck, QueryLogs, WriteLog,
       QueryReturns, FollowSelect, ListenerGivesUp, Unsubscribe, NextQueue
<1>4. CASE RunTake \/ RunReturns \/ ClientLeaves \/ UNCHANGED vars
    BY <1>4 DEF RunTake, RunReturns, ClientLeaves, vars, NextQueue
<1> QED
    BY <1>1, <1>2, <1>3, <1>4 DEF Next

\* The follower uses its queue as MsgQueue describes.
LEMMA FollowerUsesQueue == Spec => SpecQueue
<1>1. Init => InitQueue
    BY DEF Init
<1> QED
    BY <1>1, FollowerStepsQueue, PTL DEF Spec, SpecQueue

\* In the log follower, too, the queue between the pubsub and follow() hands over its
\* notifications in order and tells of every loss.
THEOREM FollowerQueueIsLossyQueue == Spec => QueueIsLossy /\ []LossesAnnounced
BY FollowerUsesQueue, MsgQueueIsLossyQueue, MsgQueueAnnouncesLosses, PTL
=============================================================================
