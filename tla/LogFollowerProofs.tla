------------------------- MODULE LogFollowerProofs -------------------------
(***************************************************************************)
(* Proofs that a follower of a log that ends without an error has written  *)
(* every line that was announced before the job ended, for every size of   *)
(* the buffer, any number of lines, of calls that fail or come late, and   *)
(* of disconnections.                                                      *)
(***************************************************************************)
EXTENDS MsgQueueProofs

USE BoundsAssumption

-----------------------------------------------------------------------------
(* The queue, as far as the follower cares. *)

\* The ring changes only by being filled or emptied.
LEMMA QueueKept == ASSUME UNCHANGED <<q, front, size>> PROVE Queue' = Queue
BY DEF Queue

\* An item that is put into the ring does not get before another one; if there is no
\* room, the youngest item becomes an error, which may be the oldest, too.
LEMMA PutKeepsFirst ==
    ASSUME QueueTypeOK, NEW item \in Item, Put(item), front' = front
    PROVE  /\ size' \in Nat \ {0}
           /\ size > 0 => Queue'[1] \in {Queue[1], ErrDropped}
           /\ size = 0 => Queue'[1] = item
           /\ \A i \in 1..size' :
                 \/ Queue'[i] \in {item, ErrDropped}
                 \/ i \in 1..size /\ Queue'[i] = Queue[i]
<1>1. /\ q' \in [0..BufferSize - 1 -> Item] /\ size' \in 0..BufferSize
      /\ \/ Queue' = Append(Queue, item)
         \/ Queue # <<>> /\ Queue' = [Queue EXCEPT ![Len(Queue)] = ErrDropped]
    BY PutIsAppendOrReplace
<1>2. Queue \in Seq(Item) /\ Len(Queue) = size /\ size \in Nat
    BY QueueIsSequence DEF QueueTypeOK
<1>3. size' = IF size = BufferSize THEN size ELSE size + 1
    BY DEF Put
<1>4. Len(Queue') = size'
    <2>1. Queue' = [i \in 1..size' |-> q'[(front' + i - 1) % BufferSize]] /\ size' \in Nat
        BY <1>1 DEF Queue
    <2> QED
        BY <2>1
<1>5. CASE Queue' = Append(Queue, item)
    <2>1. /\ Len(Queue') = size + 1 /\ Queue'[size + 1] = item
          /\ \A i \in 1..size : Queue'[i] = Queue[i]
        BY <1>2, <1>5, AppendProperties
    <2>2. size' = size + 1
        BY <1>4, <2>1
    <2>3. \A i \in 1..size + 1 : i = size + 1 \/ i \in 1..size
        BY <1>2
    <2>4. size > 0 => 1 \in 1..size
        BY <1>2
    <2> QED
        BY <1>2, <2>1, <2>2, <2>3, <2>4
<1>6. CASE Queue # <<>> /\ Queue' = [Queue EXCEPT ![Len(Queue)] = ErrDropped]
    <2>1. size > 0
        BY <1>2, <1>6, NonEmptySeq
    <2>2. /\ Len(Queue') = size /\ Queue'[size] = ErrDropped
          /\ \A i \in 1..size : i # size => Queue'[i] = Queue[i]
        BY <1>2, <1>6, <2>1, ExceptSeq DEF Item
    <2>3. size' = size
        BY <1>4, <2>2
    <2>4. 1 \in 1..size
        BY <1>2, <2>1
    <2> QED
        BY <1>2, <2>1, <2>2, <2>3, <2>4
<1> QED
    BY <1>1, <1>5, <1>6

\* Taking the oldest item hands it over and moves the others up.
LEMMA TakeFirst ==
    ASSUME QueueTypeOK, Take
    PROVE  /\ size > 0 /\ size' = size - 1
           /\ handed' = Queue[1]
           /\ \A i \in 1..size' : i + 1 \in 1..size /\ Queue'[i] = Queue[i + 1]
<1>1. Queue # <<>> /\ handed' = Head(Queue) /\ Queue' = Tail(Queue)
    BY TakeIsHead
<1>2. Queue \in Seq(Item) /\ Len(Queue) = size /\ size \in Nat
    BY QueueIsSequence DEF QueueTypeOK
<1>3. size > 0 /\ size' = size - 1
    BY DEF Take
<1>4. \A i \in 1..size - 1 : i + 1 \in 1..size
    BY <1>2
<1>5. \A i \in 1..size - 1 : Queue'[i] = Queue[i + 1]
    BY <1>1, <1>2, HeadTailProperties
<1>6. handed' = Queue[1]
    BY <1>1, <1>2
<1> QED
    BY <1>3, <1>4, <1>5, <1>6

-----------------------------------------------------------------------------
(* Types. *)

\* What the sequences of the follower are.
Note == {"lines", "end"}
Notification == {"lines", "end", "nil"}

\* Publishing keeps the type of the connection.
LEMMA PublishType ==
    ASSUME NEW n \in Note, Publish(n), net \in Seq(Notification)
    PROVE  net' \in Seq(Notification)
<1>1. n \in Notification
    BY DEF Note, Notification
<1>2. Append(net, n) \in Seq(Notification)
    BY <1>1
<1> QED
    BY <1>2 DEF Publish

\* What the listener is told is an error or one of the two notifications.
LEMMA ReceivedType ==
    ASSUME TypeOK, NEW item, Numbered(item)
    PROVE  Received(item) \in {"error", "lines", "end"}
<1>1. notes \in Seq(Note) /\ Len(notes) = sent /\ sent \in Nat
    BY DEF TypeOK, QueueTypeOK, Note
<1>2. \A i \in 1..sent : notes[i] \in Note
    BY <1>1
<1> QED
    BY <1>2 DEF Numbered, Received, Note

LEMMA FollowerTypeStep ==
    ASSUME TypeOK, ItemsNumbered, [Next]_vars
    PROVE  TypeOK'
<1>q. QueueTypeOK'
    BY FollowerStepsQueue, QueueStep DEF TypeOK
<1>t. /\ status \in {"pending", "running", "complete", "canceled"}
      /\ lines \in Nat /\ owed \in 0..lines /\ stray \in Nat
      /\ daemon \in {"idle", "announce", "end", "exited"}
      /\ detector \in {"idle", "end", "exited"}
      /\ net \in Seq(Notification)
      /\ notes \in Seq(Note) /\ Len(notes) = sent
      /\ endAnnounced \in BOOLEAN /\ up \in BOOLEAN /\ subscribed \in BOOLEAN /\ complete \in BOOLEAN
      /\ breaks \in Nat
      /\ pc \in {"new", "subscribe", "check", "query", "write", "loop"} \cup Ended
      /\ after \in Nat /\ upto \in Nat /\ sent \in Nat
    BY DEF TypeOK, QueueTypeOK, Note, Notification
<1> DEFINE JobType ==
              /\ status' \in {"pending", "running", "complete", "canceled"}
              /\ lines' \in Nat /\ owed' \in 0..lines' /\ stray' \in Nat
              /\ daemon' \in {"idle", "announce", "end", "exited"}
              /\ detector' \in {"idle", "end", "exited"}
              /\ endAnnounced' \in BOOLEAN
           NetType ==
              /\ net' \in Seq(Notification)
              /\ up' \in BOOLEAN
              /\ breaks' \in Nat
           NotesType == notes' \in Seq(Note) /\ Len(notes') = sent'
           FollowType ==
              /\ subscribed' \in BOOLEAN /\ complete' \in BOOLEAN
              /\ pc' \in {"new", "subscribe", "check", "query", "write", "loop"} \cup Ended
              /\ after' \in Nat /\ upto' \in Nat
<1>s. SUFFICES JobType /\ NetType /\ NotesType /\ FollowType
    <2>1. JobType /\ NetType /\ NotesType /\ FollowType =>
             {endAnnounced', up', subscribed', complete'} \subseteq BOOLEAN
        OBVIOUS
    <2> QED
        BY <1>q, <2>1 DEF TypeOK, Note, Notification, Ended
<1>1. CASE Acquire \/ CancelPending \/ UpdateJob \/ UpdateJobFails \/ UpdateJobLate \/ CompleteJob
           \/ CompleteJobFails \/ Terminate \/ TerminateFails
    <2>1. UNCHANGED <<queueVars, netVars, notes, followVars, owed, endAnnounced>>
        BY <1>1 DEF Acquire, CancelPending, UpdateJob, UpdateJobFails, UpdateJobLate, CompleteJob,
           CompleteJobFails, Terminate, TerminateFails
    <2>2. NetType /\ NotesType /\ FollowType /\ endAnnounced' \in BOOLEAN
        BY <1>t, <2>1 DEF queueVars, netVars, followVars
    <2>3. lines' \in {lines, lines + 1} /\ stray' \in {stray, stray + 1}
        BY <1>t, <1>1 DEF Acquire, CancelPending, UpdateJob, UpdateJobFails, UpdateJobLate, CompleteJob,
           CompleteJobFails, Terminate, TerminateFails
    <2>4. lines' \in Nat /\ owed' \in 0..lines' /\ stray' \in Nat
        BY <1>t, <2>1, <2>3
    <2>5. /\ status' \in {"pending", "running", "complete", "canceled"}
          /\ daemon' \in {"idle", "announce", "end", "exited"}
          /\ detector' \in {"idle", "end", "exited"}
        BY <1>t, <1>1 DEF Acquire, CancelPending, UpdateJob, UpdateJobFails, UpdateJobLate, CompleteJob,
           CompleteJobFails, Terminate, TerminateFails
    <2> QED
        BY <2>2, <2>4, <2>5
<1>2. CASE UpdateJobPublish \/ StrayPublish \/ CompleteJobPublish \/ TerminatePublish
    <2>1. UNCHANGED <<queueVars, status, lines, up, breaks, notes, followVars>>
        BY <1>2 DEF UpdateJobPublish, StrayPublish, CompleteJobPublish, TerminatePublish
    <2>2. \E n \in Note : Publish(n)
        BY <1>2 DEF UpdateJobPublish, StrayPublish, CompleteJobPublish, TerminatePublish, Note
    <2>3. net' \in Seq(Notification)
        BY <1>t, <2>2, PublishType
    <2>4. NetType /\ NotesType /\ FollowType
        BY <1>t, <2>1, <2>3 DEF queueVars, followVars
    <2>5. daemon' \in {"idle", "announce", "end", "exited"} /\ detector' \in {"idle", "end", "exited"}
        BY <1>t, <1>2 DEF UpdateJobPublish, StrayPublish, CompleteJobPublish, TerminatePublish
    <2>6. endAnnounced' \in BOOLEAN
        BY <1>t, <1>2, Zenon DEF UpdateJobPublish, StrayPublish, CompleteJobPublish, TerminatePublish
    <2>7. owed' \in {owed, lines}
        BY <1>2 DEF UpdateJobPublish, StrayPublish, CompleteJobPublish, TerminatePublish, Announced
    <2>8. stray' \in Nat
        <3>1. stray' = stray \/ (stray > 0 /\ stray' = stray - 1)
            BY <1>2 DEF UpdateJobPublish, StrayPublish, CompleteJobPublish, TerminatePublish
        <3> QED
            BY <1>t, <3>1
    <2>9. lines' \in Nat /\ owed' \in 0..lines'
        BY <1>t, <2>1, <2>7
    <2> QED
        BY <1>t, <2>1, <2>4, <2>5, <2>6, <2>8, <2>9
<1>3. CASE Connection
    <2>1. UNCHANGED <<jobVars, followVars>>
        BY <1>3 DEF Connection, Receive, ReceiveReconnect, Disconnect, Reconnect
    <2>2. JobType /\ FollowType
        BY <1>t, <2>1 DEF jobVars, followVars
    <2>3. CASE Receive
        <3>1. Head(net) \in Note /\ Tail(net) \in Seq(Notification)
            BY <1>t, <2>3 DEF Receive, Note, Notification
        <3>2. NetType
            BY <1>t, <2>3, <3>1 DEF Receive
        <3>3. CASE subscribed
            <4>1. notes' = Append(notes, Head(net)) /\ sent' = sent + 1
                BY <2>3, <3>3 DEF Receive, Enqueue
            <4>2. NotesType
                BY <1>t, <3>1, <4>1
            <4> QED
                BY <2>2, <3>2, <4>2
        <3>4. CASE ~subscribed
            <4>1. notes' = notes /\ sent' = sent
                BY <2>3, <3>4 DEF Receive, queueVars
            <4>2. NotesType
                BY <1>t, <4>1
            <4> QED
                BY <2>2, <3>2, <4>2
        <3> QED
            BY <3>3, <3>4
    <2>4. CASE ReceiveReconnect
        <3>1. Tail(net) \in Seq(Notification)
            BY <1>t, <2>4 DEF ReceiveReconnect
        <3>2. NetType
            BY <1>t, <2>4, <3>1 DEF ReceiveReconnect
        <3>3. NotesType
            BY <1>t, <2>4 DEF ReceiveReconnect, DroppedMessages, queueVars
        <3> QED
            BY <2>2, <3>2, <3>3
    <2>5. CASE Disconnect
        <3>1. PICK n \in 0..Len(net) : net' = SubSeq(net, 1, n)
            BY <2>5 DEF Disconnect
        <3>2. net' \in Seq(Notification)
            BY <1>t, <3>1
        <3>3. breaks' = breaks + 1 /\ notes' = notes /\ sent' = sent
            BY <2>5 DEF Disconnect, queueVars
        <3>4. up' \in BOOLEAN
            BY <2>5, Zenon DEF Disconnect
        <3>5. NetType /\ NotesType
            BY <1>t, <3>2, <3>3, <3>4
        <3> QED
            BY <2>2, <3>5
    <2>6. CASE Reconnect
        BY <1>t, <2>2, <2>6 DEF Reconnect, queueVars, Notification
    <2> QED
        BY <1>3, <2>3, <2>4, <2>5, <2>6 DEF Connection
<1>4. CASE RunTake \/ RunReturns \/ ListenerGivesUp
    <2>1. UNCHANGED <<jobVars, netVars, notes, followVars, sent>>
        BY <1>4 DEF RunTake, RunReturns, ListenerGivesUp, Take, RunExits, ListenerReturns
    <2> QED
        BY <1>t, <2>1 DEF jobVars, netVars, followVars
<1>5. CASE NewLogFollower \/ FollowSubscribe \/ FollowCheck \/ QueryLogs \/ WriteLog
           \/ QueryReturns \/ ClientLeaves \/ Unsubscribe
    <2>1. UNCHANGED <<jobVars, netVars, notes, sent>>
        BY <1>5 DEF NewLogFollower, FollowSubscribe, FollowCheck, QueryLogs, WriteLog,
           QueryReturns, ClientLeaves, Unsubscribe, CloseQueue, queueVars
    <2>2. JobType /\ NetType /\ NotesType
        BY <1>t, <2>1 DEF jobVars, netVars
    <2>3. complete' \in BOOLEAN /\ subscribed' \in BOOLEAN
        <3>1. JobIsComplete \in BOOLEAN
            BY DEF JobIsComplete
        <3>2. complete' \in {complete, JobIsComplete}
            BY <1>5 DEF NewLogFollower, FollowSubscribe, FollowCheck, QueryLogs, WriteLog,
               QueryReturns, ClientLeaves, Unsubscribe
        <3>3. complete' \in BOOLEAN
            BY <1>t, <3>1, <3>2, Zenon
        <3>4. subscribed' \in BOOLEAN
            BY <1>t, <1>5 DEF NewLogFollower, FollowSubscribe, FollowCheck, QueryLogs, WriteLog,
               QueryReturns, ClientLeaves, Unsubscribe
        <3> QED
            BY <3>3, <3>4
    <2>4. pc' \in {"new", "subscribe", "check", "query", "write", "loop"} \cup Ended
        BY <1>t, <1>5 DEF NewLogFollower, FollowSubscribe, FollowCheck, QueryLogs, WriteLog,
           QueryReturns, ClientLeaves, Unsubscribe, Ended
    <2>5. after' \in Nat /\ upto' \in Nat
        BY <1>t, <1>5 DEF NewLogFollower, FollowSubscribe, FollowCheck, QueryLogs, WriteLog,
           QueryReturns, ClientLeaves, Unsubscribe
    <2> QED
        BY <2>2, <2>3, <2>4, <2>5
<1>6. CASE FollowSelect
    <2>1. UNCHANGED <<jobVars, netVars, notes, subscribed, complete, after, upto, sent>> /\ busy
        BY <1>6 DEF FollowSelect, ListenerReturns
    <2>2. Received(handed) \in {"error", "lines", "end"}
        BY <2>1, ReceivedType DEF ItemsNumbered
    <2>3. pc' = Target(Received(handed))
        BY <1>6 DEF FollowSelect
    <2>4. pc' \in {"query"} \cup Ended
        BY <2>2, <2>3 DEF Target, Ended
    <2> QED
        BY <1>t, <2>1, <2>4 DEF jobVars, netVars
<1>7. CASE UNCHANGED vars
    BY <1>t, <1>7 DEF vars, jobVars, netVars, followVars, queueVars
<1> QED
    BY <1>1, <1>2, <1>3, <1>4, <1>5, <1>6, <1>7 DEF Next, Writers, Follow

-----------------------------------------------------------------------------
(* The end of the job. *)

\* The connection, the queue and the follower do not touch the job.
LEMMA OthersLeaveJob ==
    ASSUME [Next]_vars, ~Writers
    PROVE  UNCHANGED jobVars
BY DEF Next, Connection, Receive, ReceiveReconnect, Disconnect, Reconnect, RunTake, RunReturns,
   Follow, NewLogFollower, FollowSubscribe, FollowCheck, QueryLogs, WriteLog, QueryReturns,
   FollowSelect, ListenerGivesUp, Unsubscribe, ClientLeaves, vars

\* Those that write the log touch neither the queue nor the follower.
LEMMA WritersLeaveFollower ==
    ASSUME Writers
    PROVE  UNCHANGED <<queueVars, up, breaks, notes, followVars>>
BY DEF Writers, Acquire, CancelPending, UpdateJob, UpdateJobPublish, UpdateJobFails,
   UpdateJobLate, StrayPublish, CompleteJob, CompleteJobPublish, CompleteJobFails, Terminate,
   TerminatePublish, TerminateFails, netVars

\* A job that has ended stays so, whoever reports it again, and what its followers are owed is
\* settled then.
LEMMA CompleteStays ==
    ASSUME TypeOK, [Next]_vars, JobIsComplete
    PROVE  JobIsComplete' /\ owed' = owed
<1>1. CASE Writers
    BY <1>1 DEF Writers, Acquire, CancelPending, UpdateJob, UpdateJobPublish, UpdateJobFails,
       UpdateJobLate, StrayPublish, CompleteJob, CompleteJobPublish, CompleteJobFails, Terminate,
       TerminatePublish, TerminateFails, Announced, JobIsComplete
<1>2. CASE ~Writers
    BY <1>2, OthersLeaveJob DEF jobVars, JobIsComplete
<1> QED
    BY <1>1, <1>2

\* Who is to announce the end has completed the job.
LEMMA EndersStep ==
    ASSUME TypeOK, EndsAnnounced, [Next]_vars,
           daemon' \in {"end", "exited"} \/ detector' # "idle"
    PROVE  JobIsComplete'
<1>1. CASE Writers
    BY <1>1 DEF Writers, Acquire, CancelPending, UpdateJob, UpdateJobPublish, UpdateJobFails,
       UpdateJobLate, StrayPublish, CompleteJob, CompleteJobPublish, CompleteJobFails, Terminate,
       TerminatePublish, TerminateFails, EndsAnnounced, JobIsComplete
<1>2. CASE ~Writers
    BY <1>2, OthersLeaveJob DEF jobVars, EndsAnnounced, JobIsComplete
<1> QED
    BY <1>1, <1>2

\* How the notifications that are on their way change.
LEMMA NetChanges ==
    ASSUME TypeOK, [Next]_vars
    PROVE  /\ Len(net) \in Nat /\ net' \in Seq(Notification)
           /\ \A i \in 1..Len(net') :
                 \/ \E k \in 1..Len(net) : net'[i] = net[k]
                 \/ net'[i] \in {"lines", "nil"}
                 \/ CompleteJobPublish \/ TerminatePublish
<1>t. net \in Seq(Notification) /\ Len(net) \in Nat
    BY DEF TypeOK, Notification
<1> DEFINE Goal == /\ net' \in Seq(Notification)
                   /\ \A i \in 1..Len(net') :
                         \/ \E k \in 1..Len(net) : net'[i] = net[k]
                         \/ net'[i] \in {"lines", "nil"}
                         \/ CompleteJobPublish \/ TerminatePublish
<1>1. ASSUME NEW n \in Notification, net' = Append(net, n),
             n \in {"lines", "nil"} \/ CompleteJobPublish \/ TerminatePublish
      PROVE  Goal
    <2>1. /\ net' \in Seq(Notification) /\ Len(net') = Len(net) + 1
          /\ \A i \in 1..Len(net) : net'[i] = net[i]
          /\ net'[Len(net) + 1] = n
        BY <1>t, <1>1, AppendProperties
    <2>2. \A i \in 1..Len(net') : i \in 1..Len(net) \/ i = Len(net) + 1
        BY <1>t, <2>1
    <2> QED
        BY <1>1, <2>1, <2>2
<1>2. ASSUME net' = net PROVE Goal
    BY <1>t, <1>2
<1>3. CASE net # <<>> /\ net' = Tail(net)
    <2>1. /\ net' \in Seq(Notification) /\ Len(net') = Len(net) - 1
          /\ \A i \in 1..Len(net') : net'[i] = net[i + 1]
        BY <1>t, <1>3, HeadTailProperties
    <2>2. \A i \in 1..Len(net') : i + 1 \in 1..Len(net)
        BY <1>t, <2>1
    <2> QED
        BY <2>1, <2>2
<1>4. ASSUME NEW n \in 0..Len(net), net' = SubSeq(net, 1, n)
      PROVE  Goal
    <2>1. net' \in Seq(Notification) /\ Len(net') = n /\ \A i \in 1..n : net'[i] = net[i]
        BY <1>t, <1>4
    <2>2. \A i \in 1..n : i \in 1..Len(net)
        BY <1>t
    <2> QED
        BY <2>1, <2>2
<1>5. CASE UpdateJobPublish \/ StrayPublish
    <2>1. net' = net \/ net' = Append(net, "lines")
        BY <1>5 DEF UpdateJobPublish, StrayPublish, Publish
    <2>2. "lines" \in Notification
        BY DEF Notification
    <2> HIDE DEF Goal
    <2>3. Goal
        BY <1>1, <1>2, <2>1, <2>2
    <2> QED
        BY <1>t, <2>3 DEF Goal
<1>6. CASE CompleteJobPublish \/ TerminatePublish
    <2>1. net' = net \/ net' = Append(net, "end")
        BY <1>6 DEF CompleteJobPublish, TerminatePublish, Publish
    <2>2. "end" \in Notification
        BY DEF Notification
    <2> HIDE DEF Goal
    <2>3. Goal
        BY <1>1, <1>2, <1>6, <2>1, <2>2
    <2> QED
        BY <1>t, <2>3 DEF Goal
<1>7. CASE Reconnect
    <2>1. net' = Append(net, "nil") /\ "nil" \in Notification
        BY <1>7 DEF Reconnect, Notification
    <2> HIDE DEF Goal
    <2>2. Goal
        BY <1>1, <2>1
    <2> QED
        BY <1>t, <2>2 DEF Goal
<1>8. CASE Disconnect
    <2>1. PICK n \in 0..Len(net) : net' = SubSeq(net, 1, n)
        BY <1>8 DEF Disconnect
    <2> HIDE DEF Goal
    <2>2. Goal
        BY <1>4, <2>1
    <2> QED
        BY <1>t, <2>2 DEF Goal
<1>9. CASE Receive \/ ReceiveReconnect
    <2>1. net # <<>> /\ net' = Tail(net)
        BY <1>9 DEF Receive, ReceiveReconnect
    <2> QED
        BY <1>t, <1>3, <2>1
<1>10. CASE ~(UpdateJobPublish \/ StrayPublish \/ CompleteJobPublish \/ TerminatePublish \/ Connection)
    <2>1. net' = net
        BY <1>10 DEF Next, Writers, Acquire, CancelPending, UpdateJob, UpdateJobFails, UpdateJobLate,
           CompleteJob, CompleteJobFails, Terminate, TerminateFails, RunTake, RunReturns, Follow, NewLogFollower, FollowSubscribe, FollowCheck, QueryLogs,
           WriteLog, QueryReturns, FollowSelect, ListenerGivesUp, Unsubscribe, ClientLeaves, vars, netVars
    <2> QED
        BY <1>t, <1>2, <2>1
<1> QED
    BY <1>5, <1>6, <1>7, <1>8, <1>9, <1>10 DEF Connection

\* A notification is enqueued as it was received.
LEMMA NotesChange ==
    ASSUME TypeOK, [Next]_vars
    PROVE  /\ sent \in Nat /\ sent' \in Nat /\ sent <= sent'
           /\ \A i \in 1..sent : notes'[i] = notes[i]
           /\ \A i \in 1..sent' : i \in 1..sent \/ (Len(net) > 0 /\ notes'[i] = net[1])
<1>t. /\ net \in Seq(Notification) /\ notes \in Seq(Note) /\ Len(notes) = sent
      /\ sent \in Nat
    BY DEF TypeOK, QueueTypeOK, Note, Notification
<1>n. sent \in Nat /\ sent <= sent
    BY <1>t
<1>1. CASE Receive /\ subscribed
    <2>1. sent' = sent + 1 /\ notes' = Append(notes, Head(net)) /\ net # <<>> /\ Head(net) # "nil"
        BY <1>1 DEF Receive, Enqueue
    <2>2. Head(net) = net[1] /\ Len(net) > 0 /\ Head(net) \in Note
        BY <1>t, <2>1 DEF Note, Notification
    <2>3. (\A i \in 1..sent : notes'[i] = notes[i]) /\ notes'[sent + 1] = net[1]
        BY <1>t, <2>1, <2>2, AppendProperties
    <2>4. \A i \in 1..sent + 1 : i \in 1..sent \/ i = sent + 1
        BY <1>t
    <2>5. sent' \in Nat /\ sent <= sent'
        BY <1>t, <2>1
    <2>6. \A i \in 1..sent' : i \in 1..sent \/ notes'[i] = net[1]
        BY <2>1, <2>3, <2>4
    <2> QED
        BY <1>n, <2>2, <2>3, <2>5, <2>6, Zenon
<1>2. CASE ~(Receive /\ subscribed)
    <2> SUFFICES sent' = sent /\ notes' = notes
        BY <1>n
    <2>1. CASE Writers
        BY <2>1, WritersLeaveFollower DEF queueVars
    <2>2. CASE Connection
        BY <1>2, <2>2 DEF Connection, Receive, ReceiveReconnect, Disconnect, Reconnect,
           DroppedMessages, queueVars
    <2>3. CASE RunTake \/ RunReturns \/ Follow \/ ClientLeaves \/ UNCHANGED vars
        BY <2>3 DEF RunTake, RunReturns, Take, RunExits, Follow, NewLogFollower, FollowSubscribe,
           FollowCheck, QueryLogs, WriteLog, QueryReturns, FollowSelect, ListenerGivesUp, Unsubscribe,
           ListenerReturns, CloseQueue, ClientLeaves, vars, queueVars
    <2> QED
        BY <2>1, <2>2, <2>3 DEF Next
<1> QED
    BY <1>1, <1>2

LEMMA EndsStep ==
    ASSUME TypeOK, EndsAnnounced, ItemsNumbered, [Next]_vars
    PROVE  EndsAnnounced'
<1>0. JobIsComplete => JobIsComplete'
    BY CompleteStays
<1>1. \A i \in 1..Len(net') : net'[i] = "end" => JobIsComplete'
    <2> SUFFICES ASSUME NEW i \in 1..Len(net'), net'[i] = "end" PROVE JobIsComplete'
        OBVIOUS
    <2>1. \/ \E k \in 1..Len(net) : net'[i] = net[k]
          \/ CompleteJobPublish \/ TerminatePublish
        BY NetChanges
    <2>2. CASE \E k \in 1..Len(net) : net'[i] = net[k]
        BY <1>0, <2>2 DEF EndsAnnounced
    <2>3. CASE CompleteJobPublish
        BY <1>0, <2>3 DEF CompleteJobPublish, EndsAnnounced
    <2>4. CASE TerminatePublish
        BY <1>0, <2>4 DEF TerminatePublish, EndsAnnounced
    <2> QED
        BY <2>1, <2>2, <2>3, <2>4
<1>2. \A i \in 1..sent' : notes'[i] = "end" => JobIsComplete'
    <2> SUFFICES ASSUME NEW i \in 1..sent', notes'[i] = "end" PROVE JobIsComplete'
        OBVIOUS
    <2>1. CASE i \in 1..sent
        <3>1. notes[i] = "end"
            BY <2>1, NotesChange
        <3> QED
            BY <1>0, <2>1, <3>1 DEF EndsAnnounced
    <2>2. CASE Len(net) > 0 /\ notes'[i] = net[1]
        <3>1. 1 \in 1..Len(net)
            BY <2>2, NetChanges
        <3> QED
            BY <1>0, <2>2, <3>1 DEF EndsAnnounced
    <2> QED
        BY <2>1, <2>2, NotesChange
<1>3. complete' \/ pc' = "returned" => JobIsComplete'
    <2>1. CASE UNCHANGED <<complete, pc>>
        BY <2>1, CompleteStays DEF EndsAnnounced
    <2>2. CASE NewLogFollower \/ FollowCheck
        BY <2>2 DEF NewLogFollower, FollowCheck, jobVars, JobIsComplete
    <2>3. CASE FollowSubscribe \/ QueryLogs \/ WriteLog \/ QueryReturns \/ ClientLeaves
        BY <2>3, CompleteStays DEF FollowSubscribe, QueryLogs, WriteLog, QueryReturns, ClientLeaves,
           EndsAnnounced
    <2>4. CASE FollowSelect
        <3>1. pc' = Target(Received(handed)) /\ busy /\ complete' = complete
            BY <2>4 DEF FollowSelect
        <3>2. Received(handed) \in {"error", "lines", "end"}
            BY <3>1, ReceivedType DEF ItemsNumbered
        <3>3. CASE Received(handed) = "end"
            <4>1. handed \in 1..sent /\ notes[handed] = "end"
                BY <3>1, <3>3 DEF ItemsNumbered, Numbered, Received
            <4>2. JobIsComplete
                BY <4>1 DEF EndsAnnounced
            <4> QED
                BY <4>2, CompleteStays
        <3>4. CASE Received(handed) # "end"
            <4>1. pc' # "returned"
                BY <3>1, <3>2, <3>4 DEF Target
            <4> QED
                BY <3>1, <4>1, CompleteStays DEF EndsAnnounced
        <3> QED
            BY <3>3, <3>4
    <2>5. CASE Writers \/ Connection \/ RunTake \/ RunReturns \/ ListenerGivesUp \/ Unsubscribe
               \/ UNCHANGED vars
        <3>1. CASE Writers
            BY <2>1, <3>1, WritersLeaveFollower DEF followVars
        <3>2. CASE ~Writers
            BY <2>1, <2>5, <3>2 DEF Connection, Receive, ReceiveReconnect, Disconnect, Reconnect, RunTake,
               RunReturns, ListenerGivesUp, Unsubscribe, vars, followVars
        <3> QED
            BY <3>1, <3>2
    <2> QED
        BY <2>2, <2>3, <2>4, <2>5 DEF Next, Follow
<1>4. daemon' \in {"end", "exited"} \/ detector' # "idle" => JobIsComplete'
    BY EndersStep
<1> QED
    BY <1>1, <1>2, <1>3, <1>4 DEF EndsAnnounced

-----------------------------------------------------------------------------
(* The subscription and what is in it. *)

LEMMA SubscribedStep ==
    ASSUME TypeOK, SubscribedInTime, ItemsNumbered, [Next]_vars
    PROVE  SubscribedInTime'
<1>1. CASE Writers
    BY <1>1, WritersLeaveFollower DEF followVars, SubscribedInTime
<1>2. CASE Connection \/ RunTake \/ RunReturns \/ ListenerGivesUp \/ UNCHANGED vars
    BY <1>2 DEF Connection, Receive, ReceiveReconnect, Disconnect, Reconnect, RunTake, RunReturns,
       ListenerGivesUp, vars, followVars, SubscribedInTime
<1>3. CASE NewLogFollower \/ FollowSubscribe \/ FollowCheck
    BY <1>3 DEF NewLogFollower, FollowSubscribe, FollowCheck, SubscribedInTime
<1>4. CASE QueryLogs \/ WriteLog \/ QueryReturns \/ ClientLeaves
    BY <1>4 DEF QueryLogs, WriteLog, QueryReturns, ClientLeaves, SubscribedInTime
<1>5. CASE Unsubscribe
    BY <1>5 DEF Unsubscribe, Ended, SubscribedInTime
<1>6. CASE FollowSelect
    <2>1. pc = "loop" /\ pc' = Target(Received(handed)) /\ busy /\ UNCHANGED <<complete, subscribed>>
        BY <1>6 DEF FollowSelect
    <2>2. Received(handed) \in {"error", "lines", "end"}
        BY <2>1, ReceivedType DEF ItemsNumbered
    <2>3. pc' \in {"failed", "returned", "query"}
        BY <2>1, <2>2 DEF Target
    <2> QED
        BY <2>1, <2>3 DEF SubscribedInTime
<1> QED
    BY <1>1, <1>2, <1>3, <1>4, <1>5, <1>6 DEF Next, Follow

LEMMA ItemsStep ==
    ASSUME TypeOK, ItemsNumbered, [Next]_vars
    PROVE  ItemsNumbered'
<1>q. QueueTypeOK /\ [NextQueue]_queueVars /\ sent \in Nat /\ size \in Nat
    BY FollowerStepsQueue DEF TypeOK, QueueTypeOK
<1>1. CASE Enqueue
    <2>1. sent + 1 \in Item /\ Put(sent + 1) /\ front' = front /\ sent' = sent + 1
          /\ UNCHANGED <<busy, handed>>
        BY <1>q, <1>1 DEF Enqueue, Item
    <2>2. \A i \in 1..size' : \/ Queue'[i] \in {sent + 1, ErrDropped}
                              \/ i \in 1..size /\ Queue'[i] = Queue[i]
        BY <1>q, <2>1, PutKeepsFirst
    <2>3. sent + 1 \in 1..sent' /\ \A k \in 1..sent : k \in 1..sent'
        BY <1>q, <2>1
    <2> QED
        BY <2>1, <2>2, <2>3 DEF ItemsNumbered, Numbered
<1>2. CASE DroppedMessages
    <2>1. ErrDropped \in Item /\ Put(ErrDropped) /\ front' = front /\ UNCHANGED <<busy, handed, sent>>
        BY <1>2 DEF DroppedMessages, Item
    <2>2. \A i \in 1..size' : \/ Queue'[i] = ErrDropped
                              \/ i \in 1..size /\ Queue'[i] = Queue[i]
        BY <1>q, <2>1, PutKeepsFirst
    <2> QED
        BY <2>1, <2>2 DEF ItemsNumbered, Numbered
<1>3. CASE Take
    <2>1. /\ size > 0 /\ handed' = Queue[1] /\ sent' = sent
          /\ \A i \in 1..size' : i + 1 \in 1..size /\ Queue'[i] = Queue[i + 1]
        BY <1>q, <1>3, TakeFirst DEF Take
    <2>2. 1 \in 1..size
        BY <1>q, <2>1
    <2> QED
        BY <2>1, <2>2 DEF ItemsNumbered, Numbered
<1>4. CASE ListenerReturns \/ CloseQueue \/ RunExits \/ UNCHANGED queueVars
    <2>1. UNCHANGED <<q, front, size, sent, handed>> /\ (busy' => busy)
        BY <1>4 DEF ListenerReturns, CloseQueue, RunExits, queueVars
    <2>2. Queue' = Queue
        BY <2>1, QueueKept
    <2> QED
        BY <2>1, <2>2 DEF ItemsNumbered, Numbered
<1> QED
    BY <1>q, <1>1, <1>2, <1>3, <1>4 DEF NextQueue

-----------------------------------------------------------------------------
(* What the follower is told next. *)

LEMMA UpcomingIs ==
    ASSUME TypeOK
    PROVE  /\ busy => Upcoming = Received(handed)
           /\ ~busy /\ size > 0 => Upcoming = Received(Queue[1])
           /\ ~busy /\ size = 0 /\ net # <<>> => Upcoming = Head(net)
           /\ ~busy /\ size = 0 /\ net = <<>> => Upcoming = "nothing"
<1>1. size \in Nat
    BY DEF TypeOK, QueueTypeOK
<1> QED
    BY <1>1 DEF Upcoming

LEMMA UpcomingWillBe ==
    ASSUME TypeOK'
    PROVE  /\ busy' => Upcoming' = Received(handed)'
           /\ ~busy' /\ size' > 0 => Upcoming' = Received(Queue[1])'
           /\ ~busy' /\ size' = 0 /\ net' # <<>> => Upcoming' = Head(net')
           /\ ~busy' /\ size' = 0 /\ net' = <<>> => Upcoming' = "nothing"
<1>1. size' \in Nat
    BY DEF TypeOK, QueueTypeOK
<1> QED
    BY <1>1 DEF Upcoming

\* What has been received means the same later.
LEMMA ReceivedStays ==
    ASSUME TypeOK, [Next]_vars, NEW item, Numbered(item)
    PROVE  (IF item = ErrDropped THEN "error" ELSE notes'[item]) = Received(item)
BY NotesChange DEF Numbered, Received

LEMMA UpcomingType ==
    ASSUME TypeOK, ItemsNumbered
    PROVE  /\ Upcoming \in {"error", "lines", "end", "nil", "nothing"}
           /\ Upcoming = "nothing" <=> ~busy /\ size = 0 /\ net = <<>>
<1>0. size \in Nat /\ net \in Seq(Notification)
    BY DEF TypeOK, QueueTypeOK, Notification
<1>1. CASE busy
    BY <1>1, UpcomingIs, ReceivedType DEF ItemsNumbered
<1>2. CASE ~busy /\ size > 0
    <2>1. 1 \in 1..size
        BY <1>0, <1>2
    <2>2. Received(Queue[1]) \in {"error", "lines", "end"}
        BY <2>1, ReceivedType DEF ItemsNumbered
    <2> QED
        BY <1>2, <2>2, UpcomingIs
<1>3. CASE ~busy /\ size = 0 /\ net # <<>>
    <2>1. Head(net) \in Notification
        BY <1>0, <1>3
    <2> QED
        BY <1>3, <2>1, UpcomingIs DEF Notification
<1>4. CASE ~busy /\ size = 0 /\ net = <<>>
    BY <1>4, UpcomingIs
<1> QED
    BY <1>0, <1>1, <1>2, <1>3, <1>4

\* Nobody is told of the end of a job that goes on.
LEMMA UpcomingEnd ==
    ASSUME TypeOK, ItemsNumbered, EndsAnnounced, Upcoming = "end"
    PROVE  JobIsComplete
<1>0. size \in Nat /\ net \in Seq(Notification)
    BY DEF TypeOK, QueueTypeOK, Notification
<1>1. ASSUME NEW item, Numbered(item), Received(item) = "end" PROVE JobIsComplete
    BY <1>1 DEF Numbered, Received, EndsAnnounced
<1>2. CASE busy
    BY <1>1, <1>2, UpcomingIs DEF ItemsNumbered
<1>3. CASE ~busy /\ size > 0
    <2>1. 1 \in 1..size
        BY <1>0, <1>3
    <2> QED
        BY <1>1, <1>3, <2>1, UpcomingIs DEF ItemsNumbered
<1>4. CASE ~busy /\ size = 0 /\ net # <<>>
    <2>1. 1 \in 1..Len(net) /\ Head(net) = net[1]
        BY <1>0, <1>4
    <2> QED
        BY <1>4, <2>1, UpcomingIs DEF EndsAnnounced
<1>5. CASE ~busy /\ size = 0 /\ net = <<>>
    BY <1>5, UpcomingIs
<1> QED
    BY <1>0, <1>2, <1>3, <1>4, <1>5

\* What is queued, or with the listener, comes before what is on the connection.
LEMMA UpcomingUnlessNet ==
    ASSUME TypeOK, TypeOK', ItemsNumbered, [Next]_vars,
           UNCHANGED <<q, front, size, busy, handed>>,
           busy \/ size > 0
    PROVE  Upcoming' = Upcoming
<1>0. size \in Nat
    BY DEF TypeOK, QueueTypeOK
<1>1. CASE busy
    <2>1. Upcoming' = IF handed = ErrDropped THEN "error" ELSE notes'[handed]
        BY <1>1, UpcomingWillBe DEF Received
    <2> QED
        BY <1>1, <2>1, UpcomingIs, ReceivedStays DEF ItemsNumbered
<1>2. CASE ~busy /\ size > 0
    <2>1. 1 \in 1..size /\ Queue' = Queue
        BY <1>0, <1>2, QueueKept
    <2>2. Upcoming' = IF Queue[1] = ErrDropped THEN "error" ELSE notes'[Queue[1]]
        BY <1>2, <2>1, UpcomingWillBe DEF Received
    <2> QED
        BY <1>2, <2>1, <2>2, UpcomingIs, ReceivedStays DEF ItemsNumbered
<1> QED
    BY <1>1, <1>2

\* If the queue and the head of the connection stay, what comes next stays.
LEMMA UpcomingStays ==
    ASSUME TypeOK, TypeOK', ItemsNumbered, [Next]_vars,
           UNCHANGED <<q, front, size, busy, handed>>,
           Upcoming # "nothing",
           net # <<>> => net' # <<>> /\ Head(net') = Head(net)
    PROVE  Upcoming' = Upcoming
<1>0. size \in Nat
    BY DEF TypeOK, QueueTypeOK
<1>1. CASE busy \/ size > 0
    BY <1>1, UpcomingUnlessNet
<1>2. CASE ~busy /\ size = 0
    BY <1>2, UpcomingIs, UpcomingWillBe
<1> QED
    BY <1>0, <1>1, <1>2

\* Without a change of the queue and the connection nothing else comes next.
LEMMA UpcomingKept ==
    ASSUME TypeOK, TypeOK', ItemsNumbered, [Next]_vars,
           UNCHANGED <<q, front, size, busy, handed>>, net' = net
    PROVE  Upcoming' = Upcoming
<1>1. CASE Upcoming # "nothing"
    BY <1>1, UpcomingStays
<1>2. CASE Upcoming = "nothing"
    BY <1>2, UpcomingType, UpcomingWillBe
<1> QED
    BY <1>1, <1>2

\* The follower depends on being told of the lines it has not seen.
Watching == pc \in {"write", "loop"} /\ ~complete

Told ==
    \/ Reading >= owed
    \/ Upcoming \notin {"end", "nothing"}
    \/ Upcoming = "nothing" /\ ~up

\* Enqueueing a notification moves it from the connection to the queue, or loses the
\* youngest item of a full queue, which becomes an error.
LEMMA UpcomingOnReceive ==
    ASSUME TypeOK, TypeOK', ItemsNumbered, [Next]_vars, Receive, subscribed
    PROVE  Upcoming' \in {Upcoming, "error"}
<1>0. size \in Nat /\ sent \in Nat /\ QueueTypeOK /\ net \in Seq(Notification)
      /\ notes \in Seq(Note) /\ Len(notes) = sent
    BY DEF TypeOK, QueueTypeOK, Note, Notification
<1>1. sent + 1 \in Item /\ Put(sent + 1) /\ UNCHANGED <<front, busy, handed>>
      /\ notes' = Append(notes, Head(net)) /\ net # <<>> /\ Head(net) # "nil"
    BY <1>0 DEF Receive, Enqueue, Item
<1>2. /\ size' \in Nat \ {0}
      /\ size > 0 => Queue'[1] \in {Queue[1], ErrDropped}
      /\ size = 0 => Queue'[1] = sent + 1
    BY <1>0, <1>1, PutKeepsFirst
<1>3. CASE busy
    <2>1. Upcoming' = IF handed = ErrDropped THEN "error" ELSE notes'[handed]
        BY <1>1, <1>3, UpcomingWillBe DEF Received
    <2> QED
        BY <1>3, <2>1, UpcomingIs, ReceivedStays DEF ItemsNumbered
<1>4. CASE ~busy /\ size > 0
    <2>1. 1 \in 1..size /\ size' > 0
        BY <1>0, <1>2, <1>4
    <2>2. Upcoming' = IF Queue'[1] = ErrDropped THEN "error" ELSE notes'[Queue'[1]]
        BY <1>1, <1>4, <2>1, UpcomingWillBe DEF Received
    <2>3. (IF Queue[1] = ErrDropped THEN "error" ELSE notes'[Queue[1]]) = Upcoming
        BY <1>4, <2>1, UpcomingIs, ReceivedStays DEF ItemsNumbered
    <2> QED
        BY <1>2, <1>4, <2>2, <2>3
<1>5. CASE ~busy /\ size = 0
    <2>0. sent + 1 # ErrDropped
        <3>1. sent \in Nat
            BY <1>0
        <3>2. sent + 1 \in Nat
            BY ONLY <3>1
        <3> QED
            BY ONLY <3>2, ErrDroppedAssumption
    <2>1. size' > 0
        BY <1>2
    <2>2. Upcoming' = notes'[sent + 1]
        BY <1>1, <1>2, <1>5, <2>0, <2>1, UpcomingWillBe DEF Received
    <2>3. Head(net) \in Note
        BY <1>0, <1>1 DEF Note, Notification
    <2>4. notes'[sent + 1] = Head(net)
        BY <1>0, <1>1, <2>3, AppendProperties
    <2> QED
        BY <1>1, <1>5, <2>2, <2>4, UpcomingIs
<1> QED
    BY <1>0, <1>3, <1>4, <1>5

\* The same for the error that follows a reconnection.
LEMMA UpcomingOnReconnect ==
    ASSUME TypeOK, TypeOK', ItemsNumbered, [Next]_vars, ReceiveReconnect, subscribed
    PROVE  Upcoming' \in {Upcoming, "error"}
<1>0. size \in Nat /\ QueueTypeOK
    BY DEF TypeOK, QueueTypeOK
<1>1. ErrDropped \in Item /\ Put(ErrDropped) /\ UNCHANGED <<front, busy, handed>>
    BY DEF ReceiveReconnect, DroppedMessages, Item
<1>2. /\ size' \in Nat \ {0}
      /\ size > 0 => Queue'[1] \in {Queue[1], ErrDropped}
      /\ size = 0 => Queue'[1] = ErrDropped
    BY <1>0, <1>1, PutKeepsFirst
<1>3. CASE busy
    <2>1. Upcoming' = IF handed = ErrDropped THEN "error" ELSE notes'[handed]
        BY <1>1, <1>3, UpcomingWillBe DEF Received
    <2> QED
        BY <1>3, <2>1, UpcomingIs, ReceivedStays DEF ItemsNumbered
<1>4. CASE ~busy
    <2>1. size' > 0
        BY <1>2
    <2>2. Upcoming' = IF Queue'[1] = ErrDropped THEN "error" ELSE notes'[Queue'[1]]
        BY <1>1, <1>4, <2>1, UpcomingWillBe DEF Received
    <2>3. CASE size = 0
        BY <1>2, <2>2, <2>3
    <2>4. CASE size > 0
        <3>1. 1 \in 1..size
            BY <1>0, <2>4
        <3>2. (IF Queue[1] = ErrDropped THEN "error" ELSE notes'[Queue[1]]) = Upcoming
            BY <1>4, <2>4, <3>1, UpcomingIs, ReceivedStays DEF ItemsNumbered
        <3> QED
            BY <1>2, <2>2, <2>4, <3>2
    <2> QED
        BY <1>0, <2>3, <2>4
<1> QED
    BY <1>3, <1>4

\* Handing over an item does not change what the follower is told next.
LEMMA UpcomingOnTake ==
    ASSUME TypeOK, TypeOK', ItemsNumbered, [Next]_vars, Take
    PROVE  Upcoming' = Upcoming
<1>1. QueueTypeOK /\ ~busy /\ busy' /\ size \in Nat
    BY DEF TypeOK, QueueTypeOK, Take
<1>2. size > 0 /\ handed' = Queue[1]
    BY <1>1, TakeFirst
<1>3. 1 \in 1..size
    BY <1>1, <1>2
<1>4. Upcoming' = IF Queue[1] = ErrDropped THEN "error" ELSE notes'[Queue[1]]
    BY <1>1, <1>2, UpcomingWillBe DEF Received
<1> QED
    BY <1>1, <1>2, <1>3, <1>4, UpcomingIs, ReceivedStays DEF ItemsNumbered

\* A notification that is published comes behind all others.
LEMMA PublishComesLast ==
    ASSUME TypeOK, NEW n \in Note, Publish(n)
    PROVE  /\ net # <<>> => net' # <<>> /\ Head(net') = Head(net)
           /\ net = <<>> /\ up /\ subscribed => net' # <<>> /\ Head(net') = n
           /\ ~up => net' = net
<1>1. net \in Seq(Notification) /\ n \in Notification
    BY DEF TypeOK, Note, Notification
<1>2. net' = IF up /\ subscribed THEN Append(net, n) ELSE net
    BY DEF Publish
<1>3. net # <<>> => Append(net, n) # <<>> /\ Head(Append(net, n)) = Head(net)
    BY <1>1
<1>4. net = <<>> => Append(net, n) # <<>> /\ Head(Append(net, n)) = n
    BY <1>1
<1> QED
    BY <1>2, <1>3, <1>4

LEMMA ToldStep ==
    ASSUME IInv, [Next]_vars, TypeOK'
    PROVE  ToldBeforeEnd'
<1>0. /\ TypeOK /\ EndsAnnounced /\ SubscribedInTime /\ ItemsNumbered
      /\ Watching => Told
    BY DEF IInv, ToldBeforeEnd, Watching, Told
<1> SUFFICES ASSUME Watching' PROVE Told'
    BY DEF ToldBeforeEnd, Watching, Told
<1>w. pc' \in {"write", "loop"} /\ ~complete'
    BY DEF Watching
<1>1. CASE Writers
    <2>1. UNCHANGED <<q, front, size, busy, handed, sent, up, notes>>
          /\ UNCHANGED <<pc, subscribed, complete, after, upto>>
        BY <1>1, WritersLeaveFollower DEF queueVars, followVars
    <2>2. Reading' = Reading
        BY <2>1 DEF Reading
    <2>3. subscribed
        BY <1>0, <1>w, <2>1 DEF SubscribedInTime
    <2>4. ASSUME net' = net PROVE Upcoming' = Upcoming
        BY <1>0, <2>1, <2>4, UpcomingKept
    <2>5. Watching /\ Told
        BY <1>0, <1>w, <2>1 DEF Watching
    <2>6. CASE Acquire \/ CancelPending \/ UpdateJob \/ UpdateJobFails \/ UpdateJobLate
               \/ CompleteJob \/ CompleteJobFails \/ Terminate \/ TerminateFails
        <3>1. net' = net /\ owed' = owed
            BY <2>6 DEF Acquire, CancelPending, UpdateJob, UpdateJobFails, UpdateJobLate,
               CompleteJob, CompleteJobFails, Terminate, TerminateFails, netVars
        <3> QED
            BY <2>1, <2>2, <2>4, <2>5, <3>1 DEF Told
    <2>7. ASSUME NEW n \in Note, Publish(n), Upcoming \notin {"end", "nothing"}
          PROVE  Told'
        <3>1. net # <<>> => net' # <<>> /\ Head(net') = Head(net)
            BY <1>0, <2>7, PublishComesLast
        <3>2. Upcoming' = Upcoming
            BY <1>0, <2>1, <2>7, <3>1, UpcomingStays
        <3> QED
            BY <2>7, <3>2 DEF Told
    <2>8. ASSUME NEW n \in Note, Publish(n), Upcoming = "nothing", ~up
          PROVE  Told'
        <3>1. net' = net
            BY <1>0, <2>8, PublishComesLast
        <3> QED
            BY <2>1, <2>4, <2>8, <3>1 DEF Told
    <2>9. ASSUME NEW n \in Note, Publish(n), owed' = owed
          PROVE  Told'
        <3>1. CASE Reading >= owed
            BY <2>2, <2>9, <3>1 DEF Told
        <3> QED
            BY <2>5, <2>7, <2>8, <2>9, <3>1 DEF Told
    <2>10. CASE CompleteJobPublish \/ TerminatePublish
        <3>1. Publish("end") /\ owed' = owed /\ "end" \in Note
            BY <2>10 DEF CompleteJobPublish, TerminatePublish, Note
        <3> QED
            BY <2>9, <3>1
    <2>11. CASE UpdateJobPublish \/ StrayPublish
        <3>1. Publish("lines") /\ "lines" \in Note
            BY <2>11 DEF UpdateJobPublish, StrayPublish, Note
        <3>2. CASE JobIsComplete
            BY <1>0, <2>9, <3>1, <3>2, CompleteStays
        <3>3. CASE ~JobIsComplete
            <4>1. Upcoming # "end"
                BY <1>0, <3>3, UpcomingEnd
            <4>2. CASE Upcoming = "nothing" /\ up
                <5>1. ~busy /\ size = 0 /\ net = <<>>
                    BY <1>0, <4>2, UpcomingType
                <5>2. net' # <<>> /\ Head(net') = "lines"
                    BY <1>0, <2>3, <3>1, <4>2, <5>1, PublishComesLast
                <5>3. Upcoming' = "lines"
                    BY <2>1, <5>1, <5>2, UpcomingWillBe
                <5> QED
                    BY <5>3 DEF Told
            <4> QED
                BY <2>7, <2>8, <3>1, <4>1, <4>2
        <3> QED
            BY <3>2, <3>3
    <2> QED
        BY <1>1, <2>6, <2>10, <2>11 DEF Writers
<1>2. CASE Connection
    <2>1. owed' = owed
          /\ UNCHANGED <<pc, subscribed, complete, after, upto>>
        BY <1>2 DEF Connection, Receive, ReceiveReconnect, Disconnect, Reconnect, jobVars, followVars
    <2>2. Reading' = Reading /\ Watching /\ Told
        BY <1>0, <1>w, <2>1 DEF Reading, Watching
    <2>3. subscribed
        BY <1>0, <1>w, <2>1 DEF SubscribedInTime
    <2>4. CASE Receive \/ ReceiveReconnect
        <3>1. Upcoming' \in {Upcoming, "error"} /\ up' = up
            BY <1>0, <2>3, <2>4, UpcomingOnReceive, UpcomingOnReconnect DEF Receive, ReceiveReconnect
        <3> QED
            BY <2>1, <2>2, <3>1 DEF Told
    <2>5. CASE Disconnect
        <3>1. PICK n \in 0..Len(net) : net' = SubSeq(net, 1, n)
            BY <2>5 DEF Disconnect
        <3>2. UNCHANGED <<q, front, size, busy, handed>> /\ ~up'
            BY <2>5 DEF Disconnect, queueVars
        <3>3. net \in Seq(Notification) /\ Len(net) \in Nat
            BY <1>0 DEF TypeOK, Notification
        <3>4. net' = <<>> \/ (net' # <<>> /\ Head(net') = Head(net))
            <4>1. CASE n = 0
                BY <3>1, <3>3, <4>1
            <4>2. CASE n > 0
                <5>1. net' \in Seq(Notification) /\ Len(net') = n /\ net'[1] = net[1]
                    BY <3>1, <3>3, <4>2
                <5> QED
                    BY <3>3, <4>2, <5>1
            <4> QED
                BY <3>3, <4>1, <4>2
        <3>5. CASE Upcoming = "nothing"
            <4>1. ~busy /\ size = 0 /\ net = <<>>
                BY <1>0, <3>5, UpcomingType
            <4>2. net' = <<>>
                BY <3>1, <3>3, <4>1
            <4>3. Upcoming' = "nothing"
                BY <3>2, <4>1, <4>2, UpcomingWillBe
            <4> QED
                BY <3>2, <4>3 DEF Told
        <3>6. CASE Upcoming # "nothing" /\ ~busy /\ size = 0 /\ net' = <<>>
            <4>1. Upcoming' = "nothing"
                BY <3>2, <3>6, UpcomingWillBe
            <4> QED
                BY <3>2, <4>1 DEF Told
        <3>7. CASE Upcoming # "nothing" /\ ~busy /\ size = 0 /\ net' # <<>>
            <4>1. Upcoming' = Upcoming
                BY <1>0, <3>2, <3>4, <3>7, UpcomingStays
            <4> QED
                BY <2>1, <2>2, <3>7, <4>1 DEF Told
        <3>8. CASE Upcoming # "nothing" /\ (busy \/ size > 0)
            <4>1. Upcoming' = Upcoming
                BY <1>0, <3>2, <3>8, UpcomingUnlessNet
            <4> QED
                BY <2>1, <2>2, <3>8, <4>1 DEF Told
        <3>9. size \in Nat
            BY <1>0 DEF TypeOK, QueueTypeOK
        <3> QED
            BY <3>5, <3>6, <3>7, <3>8, <3>9
    <2>6. CASE Reconnect
        <3>1. net' = Append(net, "nil") /\ UNCHANGED <<q, front, size, busy, handed>>
            BY <2>6 DEF Reconnect, queueVars
        <3>2. net \in Seq(Notification) /\ "nil" \in Notification
            BY <1>0 DEF TypeOK, Notification
        <3>3. /\ net' # <<>>
              /\ net # <<>> => Head(net') = Head(net)
              /\ net = <<>> => Head(net') = "nil"
            BY <3>1, <3>2
        <3>4. CASE Upcoming = "nothing"
            <4>1. Upcoming' = "nil"
                BY <1>0, <3>1, <3>3, <3>4, UpcomingType, UpcomingWillBe
            <4> QED
                BY <4>1 DEF Told
        <3>5. CASE Upcoming # "nothing"
            <4>1. Upcoming' = Upcoming
                BY <1>0, <3>1, <3>3, <3>5, UpcomingStays
            <4> QED
                BY <2>1, <2>2, <3>5, <4>1 DEF Told
        <3> QED
            BY <3>4, <3>5
    <2> QED
        BY <1>2, <2>4, <2>5, <2>6 DEF Connection
<1>3. CASE RunTake \/ RunReturns \/ UNCHANGED vars
    <2>1. UNCHANGED <<jobVars, netVars, notes, followVars>>
        BY <1>3 DEF RunTake, RunReturns, vars
    <2>2. Reading' = Reading /\ Watching /\ Told
        BY <1>0, <1>w, <2>1 DEF Reading, Watching, jobVars, followVars
    <2>3. Upcoming' = Upcoming
        <3>1. CASE RunTake
            BY <1>0, <3>1, UpcomingOnTake DEF RunTake
        <3>2. CASE RunReturns \/ UNCHANGED vars
            BY <1>0, <2>1, <3>2, UpcomingKept DEF RunReturns, RunExits, vars, queueVars, netVars
        <3> QED
            BY <1>3, <3>1, <3>2
    <2> QED
        BY <2>1, <2>2, <2>3 DEF Told, jobVars, netVars
<1>4. CASE Follow \/ ClientLeaves
    <2>1. CASE NewLogFollower \/ FollowSubscribe \/ FollowCheck \/ ClientLeaves
        BY <1>w, <2>1 DEF NewLogFollower, FollowSubscribe, FollowCheck, ClientLeaves
    <2>2. CASE ListenerGivesUp \/ Unsubscribe
        BY <1>w, <2>2 DEF ListenerGivesUp, Unsubscribe, Ended, followVars
    <2>3. CASE FollowSelect
        <3>1. pc' = Target(Received(handed)) /\ busy
            BY <2>3 DEF FollowSelect
        <3>2. Received(handed) \in {"error", "lines", "end"}
            BY <1>0, <3>1, ReceivedType DEF ItemsNumbered
        <3> QED
            BY <1>w, <3>1, <3>2 DEF Target
    <2>4. CASE QueryLogs
        <3>1. Reading' = lines' /\ lines' \in Nat /\ owed' \in 0..lines'
            BY <1>w, <2>4 DEF QueryLogs, Reading, jobVars, TypeOK
        <3> QED
            BY <3>1 DEF Told
    <2>5. CASE WriteLog \/ QueryReturns
        <3>1. /\ UNCHANGED <<queueVars, jobVars, netVars, notes, complete, upto>>
              /\ pc = "write"
            BY <2>5 DEF WriteLog, QueryReturns
        <3>2. Reading' = Reading
            BY <2>5 DEF WriteLog, QueryReturns, Reading
        <3>3. Watching /\ Told
            BY <1>0, <1>w, <3>1 DEF Watching, jobVars
        <3>4. Upcoming' = Upcoming
            BY <1>0, <3>1, UpcomingKept DEF queueVars, netVars
        <3> QED
            BY <3>1, <3>2, <3>3, <3>4 DEF Told, jobVars, netVars
    <2> QED
        BY <1>4, <2>1, <2>2, <2>3, <2>4, <2>5 DEF Follow
<1> QED
    BY <1>1, <1>2, <1>3, <1>4 DEF Next

-----------------------------------------------------------------------------
(* The end of the follower. *)

LEMMA LastQueryStep ==
    ASSUME IInv, [Next]_vars, TypeOK'
    PROVE  LastQueryComplete'
<1>0. TypeOK /\ EndsAnnounced /\ ItemsNumbered /\ LastQueryComplete
    BY DEF IInv
<1> SUFFICES ASSUME pc' = "write", complete' PROVE upto' >= owed'
    BY DEF LastQueryComplete
<1>1. CASE QueryLogs
    <2>1. upto' = lines' /\ lines' \in Nat /\ owed' \in 0..lines'
        BY <1>1 DEF QueryLogs, jobVars, TypeOK
    <2> QED
        BY <2>1
<1>2. CASE ~QueryLogs
    <2>1. pc = "write" /\ complete' = complete /\ upto' = upto
        <3>1. CASE FollowSelect
            <4>1. pc' = Target(Received(handed)) /\ busy
                BY <3>1 DEF FollowSelect
            <4>2. Received(handed) \in {"error", "lines", "end"}
                BY <1>0, <4>1, ReceivedType DEF ItemsNumbered
            <4> QED
                BY <4>1, <4>2 DEF Target
        <3>2. CASE ~FollowSelect /\ ~Writers
            BY <1>2, <3>2 DEF Next, Connection, Receive, ReceiveReconnect, Disconnect, Reconnect, RunTake,
               RunReturns, Follow, NewLogFollower, FollowSubscribe, FollowCheck, WriteLog, QueryReturns,
               ListenerGivesUp, Unsubscribe, ClientLeaves, vars, followVars
        <3>3. CASE Writers
            BY <3>3, WritersLeaveFollower DEF followVars
        <3> QED
            BY <3>1, <3>2, <3>3
    <2>2. owed' = owed
        BY <1>0, <2>1, CompleteStays DEF EndsAnnounced
    <2> QED
        BY <1>0, <2>1, <2>2 DEF LastQueryComplete
<1> QED
    BY <1>1, <1>2

LEMMA EndIsCompleteStep ==
    ASSUME IInv, [Next]_vars, TypeOK'
    PROVE  EndIsComplete'
<1>0. /\ TypeOK /\ EndsAnnounced /\ SubscribedInTime /\ ItemsNumbered
      /\ ToldBeforeEnd /\ LastQueryComplete /\ EndIsComplete
    BY DEF IInv
<1> SUFFICES ASSUME pc' = "returned" PROVE after' >= owed'
    BY DEF EndIsComplete
<1>1. CASE QueryReturns
    BY <1>0, <1>1 DEF QueryReturns, jobVars, LastQueryComplete
<1>2. CASE FollowSelect
    <2>1. /\ pc = "loop" /\ busy /\ pc' = Target(Received(handed))
          /\ UNCHANGED <<jobVars, after>>
        BY <1>2 DEF FollowSelect
    <2>2. Received(handed) \in {"error", "lines", "end"}
        BY <1>0, <2>1, ReceivedType DEF ItemsNumbered
    <2>3. Received(handed) = "end"
        BY <2>1, <2>2 DEF Target
    <2>4. Upcoming = "end"
        BY <1>0, <2>1, <2>3, UpcomingIs
    <2>5. ~complete /\ owed' = owed
        BY <1>0, <2>1 DEF SubscribedInTime, jobVars
    <2>6. Reading >= owed
        BY <1>0, <2>1, <2>4, <2>5 DEF ToldBeforeEnd
    <2> QED
        BY <2>1, <2>5, <2>6 DEF Reading
<1>3. CASE ~QueryReturns /\ ~FollowSelect
    <2>1. pc = "returned" /\ after' = after
        <3>1. CASE Writers
            BY <3>1, WritersLeaveFollower DEF followVars
        <3>2. CASE ~Writers
            BY <1>3, <3>2 DEF Next, Connection, Receive, ReceiveReconnect, Disconnect, Reconnect, RunTake,
               RunReturns, Follow, NewLogFollower, FollowSubscribe, FollowCheck, QueryLogs, WriteLog,
               ListenerGivesUp, Unsubscribe, ClientLeaves, vars, followVars
        <3> QED
            BY <3>1, <3>2
    <2>2. owed' = owed
        BY <1>0, <2>1, CompleteStays DEF EndsAnnounced
    <2> QED
        BY <1>0, <2>1, <2>2 DEF EndIsComplete
<1> QED
    BY <1>1, <1>2, <1>3

-----------------------------------------------------------------------------
LEMMA FollowerInit == Init => IInv
<1> SUFFICES ASSUME Init PROVE IInv
    OBVIOUS
<1>1. QueueTypeOK /\ size = 0 /\ busy = FALSE /\ sent = 0
    BY QueueInit DEF Init, InitQueue
<1>2. TypeOK
    <2>1. net = <<>> /\ notes = <<>> /\ Len(notes) = sent
        BY <1>1 DEF Init
    <2>2. net \in Seq(Notification) /\ notes \in Seq(Note)
        BY <2>1
    <2>3. {endAnnounced, up, subscribed, complete} \subseteq BOOLEAN
        BY Zenon DEF Init
    <2> QED
        BY <1>1, <2>1, <2>2, <2>3 DEF Init, TypeOK, Note, Notification
<1>3. SubscribedInTime /\ ToldBeforeEnd /\ LastQueryComplete /\ EndIsComplete
    BY DEF Init, SubscribedInTime, ToldBeforeEnd, LastQueryComplete, EndIsComplete
<1>4. EndsAnnounced
    <2>1. Len(net) = 0
        BY DEF Init
    <2> QED
        BY <1>1, <2>1 DEF Init, EndsAnnounced
<1>5. ItemsNumbered
    BY <1>1 DEF ItemsNumbered
<1> QED
    BY <1>2, <1>3, <1>4, <1>5 DEF IInv

LEMMA FollowerStep ==
    ASSUME IInv, [Next]_vars
    PROVE  IInv'
<1>1. TypeOK'
    BY FollowerTypeStep DEF IInv
<1>2. EndsAnnounced' /\ SubscribedInTime' /\ ItemsNumbered'
    BY EndsStep, SubscribedStep, ItemsStep DEF IInv
<1>3. ToldBeforeEnd' /\ LastQueryComplete' /\ EndIsComplete'
    BY <1>1, ToldStep, LastQueryStep, EndIsCompleteStep
<1> QED
    BY <1>1, <1>2, <1>3 DEF IInv

\* The inductive invariant about the end of the job, the notifications on their way and what the
\* follower has read holds for every buffer, any number of lines and of disconnections.
THEOREM FollowerInvariance == Spec => []IInv
BY FollowerInit, FollowerStep, PTL DEF Spec

\* Type correctness of the job, the connection, the queue and the follower.
THEOREM FollowerTypeCorrect == Spec => []TypeOK
<1>1. IInv => TypeOK
    BY DEF IInv
<1> QED
    BY <1>1, FollowerInvariance, PTL

\* follow() returns nil only after it has written every line that was announced before the job
\* ended, whoever ended it, whatever the connection and the full buffer have lost, and whatever
\* calls of UpdateJob have failed or are still under way.
THEOREM FollowersSeeEverything == Spec => []EndIsComplete
<1>1. IInv => EndIsComplete
    BY DEF IInv
<1> QED
    BY <1>1, FollowerInvariance, PTL
=============================================================================
