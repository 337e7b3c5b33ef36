---------------------------- MODULE LogFollower ----------------------------
(***************************************************************************)
(* Following the logs of a provisioner job over a websocket:               *)
(* logFollower (wirtuald/provisionerjobs.go), together with those that     *)
(* write and announce log lines: UpdateJob, CompleteJob and FailJob of the *)
(* daemon server, the hang detector, and the request that cancels a        *)
(* pending job and announces nothing.  Each of them stores first and       *)
(* announces later, may fail or die in between, and the daemon waits for   *)
(* an UpdateJob for 30 seconds only.                                       *)
(*                                                                         *)
(* Announcements travel over one connection to Postgres, which may break,  *)
(* and through the msgQueue of the follower's subscription.  Lines have    *)
(* ascending ids, and a line is its id: an insert takes its id and commits *)
(* in one step.                                                            *)
(***************************************************************************)
EXTENDS MsgQueue

CONSTANTS
    MaxLines,    \* bound on the lines stored
    MaxBreaks    \* bound on the disconnections

ASSUME BoundsAssumption == MaxLines \in Nat /\ MaxBreaks \in Nat

VARIABLES
    status,      \* of the job: "pending", "running", "complete", or "canceled" before it ran
    lines,       \* the ids of the lines stored are 1..lines
    daemon,      \* where the daemon's calls are
    stray,       \* the UpdateJob calls the daemon has given up that have stored a line
                 \* and not announced it
    detector,    \* where the hang detector is
    owed,        \* history: the lines there were when lines were last announced
                 \* before the job ended
    endAnnounced,    \* history: the end of the logs has been announced
    up, net, breaks, \* the connection, its notifications, and how often it broke
    notes,       \* the notifications enqueued so far: message n is notes[n]
    pc,          \* of follow()
    subscribed,  \* the subscription exists, and its channel is open
    complete,    \* logFollower.complete
    after,       \* logFollower.after: the client has the lines 1..after
    upto         \* the last of the rows of the query under way

jobVars == <<status, lines, daemon, stray, detector, owed, endAnnounced>>
netVars == <<up, net, breaks>>
followVars == <<pc, subscribed, complete, after, upto>>
vars == <<queueVars, jobVars, netVars, notes, followVars>>

Init ==
    /\ InitQueue
    /\ status = "pending"
    /\ lines = 0 /\ owed = 0 /\ stray = 0
    /\ daemon = "idle" /\ detector = "idle"
    /\ endAnnounced = FALSE
    /\ up = TRUE /\ net = <<>> /\ breaks = 0
    /\ notes = <<>>
    /\ pc = "new" /\ subscribed = FALSE /\ complete = FALSE /\ after = 0 /\ upto = 0

-----------------------------------------------------------------------------
(* Those that write the log. *)

JobIsComplete == status \in {"complete", "canceled"}

\* Publish: the notification is sent to the replica of the follower, or is lost.
Publish(n) == net' = IF up /\ subscribed THEN Append(net, n) ELSE net

\* The lines there are have been announced, and the job goes on.
Announced == owed' = IF JobIsComplete THEN owed ELSE lines

\* The job is acquired.
Acquire ==
    /\ status = "pending"
    /\ status' = "running"
    /\ UNCHANGED <<queueVars, lines, daemon, stray, detector, owed, endAnnounced, netVars,
                   notes, followVars>>

\* patchCancelWorkspaceBuild on a job without a worker.
CancelPending ==
    /\ status = "pending"
    /\ status' = "canceled"
    /\ UNCHANGED <<queueVars, lines, daemon, stray, detector, owed, endAnnounced, netVars,
                   notes, followVars>>

\* UpdateJob stores lines, whether the job is complete or not ...
UpdateJob ==
    /\ status \in {"running", "complete"}
    /\ daemon = "idle"
    /\ lines < MaxLines
    /\ lines' = lines + 1
    /\ daemon' = "announce"
    /\ UNCHANGED <<queueVars, status, stray, detector, owed, endAnnounced, netVars, notes,
                   followVars>>

\* ... and announces them.
UpdateJobPublish ==
    /\ daemon = "announce"
    /\ Publish("lines")
    /\ Announced
    /\ daemon' = "idle"
    /\ UNCHANGED <<queueVars, status, lines, stray, detector, endAnnounced, up, breaks,
                   notes, followVars>>

\* The call ends with an error, which the daemon only logs: Publish fails, the server
\* dies before it, or 30 seconds are over, while the server may still be at it.
UpdateJobFails ==
    /\ daemon = "announce"
    /\ daemon' = "idle"
    /\ stray' = stray + 1
    /\ UNCHANGED <<queueVars, status, lines, detector, owed, endAnnounced, netVars, notes,
                   followVars>>

\* A call that was given up before it had stored its lines stores them at last, maybe
\* after the job was completed.
UpdateJobLate ==
    /\ status \in {"running", "complete"}
    /\ lines < MaxLines
    /\ lines' = lines + 1
    /\ stray' = stray + 1
    /\ UNCHANGED <<queueVars, status, daemon, detector, owed, endAnnounced, netVars, notes,
                   followVars>>

\* A call that was given up announces its lines.  If it has failed or died, it never does.
StrayPublish ==
    /\ stray > 0
    /\ Publish("lines")
    /\ Announced
    /\ stray' = stray - 1
    /\ UNCHANGED <<queueVars, status, lines, daemon, detector, endAnnounced, up, breaks,
                   notes, followVars>>

\* CompleteJob or FailJob completes the job; CompleteJob also if it is complete already.
CompleteJob ==
    /\ status \in {"running", "complete"}
    /\ daemon = "idle"
    /\ status' = "complete"
    /\ daemon' = "end"
    /\ UNCHANGED <<queueVars, lines, stray, detector, owed, endAnnounced, netVars, notes,
                   followVars>>

\* It announces the end of the logs.
CompleteJobPublish ==
    /\ daemon = "end"
    /\ Publish("end")
    /\ endAnnounced' = TRUE
    /\ daemon' = "exited"
    /\ UNCHANGED <<queueVars, status, lines, stray, detector, owed, up, breaks, notes,
                   followVars>>

\* Or it does not: it returns an error before, Publish fails, or the server dies.  A FailJob
\* that is sent next, or again, is refused, as the job is complete; a CompleteJob that is
\* sent again is still at "end" here.
CompleteJobFails ==
    /\ daemon = "end"
    /\ daemon' = "exited"
    /\ UNCHANGED <<queueVars, status, lines, stray, detector, owed, endAnnounced, netVars,
                   notes, followVars>>

\* The hang detector adds a line and completes the job in one transaction.
Terminate ==
    /\ status = "running"
    /\ detector = "idle"
    /\ lines' = lines + 1
    /\ status' = "complete"
    /\ detector' = "end"
    /\ UNCHANGED <<queueVars, daemon, stray, owed, endAnnounced, netVars, notes, followVars>>

\* It announces its line and the end of the logs in one notification ...
TerminatePublish ==
    /\ detector = "end"
    /\ Publish("end")
    /\ endAnnounced' = TRUE
    /\ detector' = "exited"
    /\ UNCHANGED <<queueVars, status, lines, daemon, stray, owed, up, breaks, notes,
                   followVars>>

\* ... unless Publish fails or the server dies.
TerminateFails ==
    /\ detector = "end"
    /\ detector' = "exited"
    /\ UNCHANGED <<queueVars, status, lines, daemon, stray, owed, endAnnounced, netVars,
                   notes, followVars>>

-----------------------------------------------------------------------------
(* The connection and the queue; Pubsub has the details of subscribing. *)

Receive ==
    /\ net # <<>> /\ Head(net) # "nil"
    /\ net' = Tail(net)
    /\ IF subscribed
       THEN Enqueue /\ notes' = Append(notes, Head(net))
       ELSE UNCHANGED <<queueVars, notes>>
    /\ UNCHANGED <<jobVars, up, breaks, followVars>>

ReceiveReconnect ==
    /\ net # <<>> /\ Head(net) = "nil"
    /\ net' = Tail(net)
    /\ IF subscribed THEN DroppedMessages ELSE UNCHANGED queueVars
    /\ UNCHANGED <<jobVars, up, breaks, notes, followVars>>

Disconnect ==
    /\ up /\ breaks < MaxBreaks
    /\ up' = FALSE /\ breaks' = breaks + 1
    /\ \E n \in 0..Len(net) :
          /\ \A i \in n+1..Len(net) : net[i] # "nil"
          /\ net' = SubSeq(net, 1, n)
    /\ UNCHANGED <<queueVars, jobVars, notes, followVars>>

Reconnect ==
    /\ ~up
    /\ up' = TRUE
    /\ net' = Append(net, "nil")
    /\ UNCHANGED <<queueVars, jobVars, breaks, notes, followVars>>

\* run() takes an item and is in listener(), which waits for follow().
RunTake == Take /\ UNCHANGED <<jobVars, netVars, notes, followVars>>

RunReturns == RunExits /\ UNCHANGED <<jobVars, netVars, notes, followVars>>

-----------------------------------------------------------------------------
(* follow. *)

Ended == {"returned", "failed", "disconnected"}

\* jobIsComplete of the job the request was looked up with.
NewLogFollower ==
    /\ pc = "new"
    /\ complete' = JobIsComplete
    /\ pc' = IF complete' THEN "query" ELSE "subscribe"
    /\ UNCHANGED <<queueVars, jobVars, netVars, notes, subscribed, after, upto>>

\* SubscribeWithErr; without it, the request fails.
FollowSubscribe ==
    /\ pc = "subscribe"
    /\ pc' \in {"check", "failed"}
    /\ pc' = "check" => up
    /\ subscribed' = (pc' = "check")
    /\ UNCHANGED <<queueVars, jobVars, netVars, notes, complete, after, upto>>


\* The job is looked up again, now that its end will be announced.
FollowCheck ==
    /\ pc = "check"
    /\ complete' = JobIsComplete
    /\ pc' = "query"
    /\ UNCHANGED <<queueVars, jobVars, netVars, notes, subscribed, after, upto>>

\* query: the rows after the last one written, or an error.
QueryLogs ==
    /\ pc = "query"
    /\ \/ pc' = "write" /\ upto' = lines
       \/ pc' = "failed" /\ UNCHANGED upto
    /\ UNCHANGED <<queueVars, jobVars, netVars, notes, subscribed, complete, after>>

\* query: a row is written.
WriteLog ==
    /\ pc = "write"
    /\ after < upto
    /\ after' = after + 1
    /\ UNCHANGED <<queueVars, jobVars, netVars, notes, pc, subscribed, complete, upto>>

\* query returns.
QueryReturns ==
    /\ pc = "write"
    /\ after = upto
    /\ pc' = IF complete THEN "returned" ELSE "loop"
    /\ UNCHANGED <<queueVars, jobVars, netVars, notes, subscribed, complete, after, upto>>

\* What listener() brings, and where follow() goes with it.
Received(item) == IF item = ErrDropped THEN "error" ELSE notes[item]

\* Mutant: lost notifications are ignored.
TargetIgnoringErrors(what) ==
    CASE what = "error" -> "loop"
      [] what = "end"   -> "returned"
      [] what = "lines" -> "query"

Target(what) ==
    CASE what = "error" -> "failed"
      [] what = "end"   -> "returned"
      [] what = "lines" -> "query"

\* The select of follow() takes what listener() sends.
FollowSelect ==
    /\ pc = "loop"
    /\ busy
    /\ ListenerReturns
    /\ pc' = Target(Received(handed))
    /\ UNCHANGED <<jobVars, netVars, notes, subscribed, complete, after, upto>>

\* The client goes away: the context of the request ends.
ClientLeaves ==
    /\ pc \notin Ended
    /\ pc' = "disconnected"
    /\ UNCHANGED <<queueVars, jobVars, netVars, notes, subscribed, complete, after, upto>>

\* Mutant: listener() waits for follow() only.
ListenerStays == FALSE /\ UNCHANGED vars

\* listener() gives up because the context is done.
ListenerGivesUp ==
    /\ pc \in Ended
    /\ ListenerReturns
    /\ UNCHANGED <<jobVars, netVars, notes, followVars>>

\* The deferred subCancel.
Unsubscribe ==
    /\ pc \in Ended
    /\ subscribed
    /\ subscribed' = FALSE
    /\ CloseQueue
    /\ UNCHANGED <<jobVars, netVars, notes, pc, complete, after, upto>>

-----------------------------------------------------------------------------
Writers ==
    \/ Acquire \/ CancelPending
    \/ UpdateJob \/ UpdateJobPublish \/ UpdateJobFails \/ UpdateJobLate \/ StrayPublish
    \/ CompleteJob \/ CompleteJobPublish \/ CompleteJobFails
    \/ Terminate \/ TerminatePublish \/ TerminateFails

Connection == Receive \/ ReceiveReconnect \/ Disconnect \/ Reconnect

Follow ==
    \/ NewLogFollower \/ FollowSubscribe \/ FollowCheck \/ QueryLogs \/ WriteLog \/ QueryReturns
    \/ FollowSelect \/ ListenerGivesUp \/ Unsubscribe

Next == Writers \/ Connection \/ RunTake \/ RunReturns \/ Follow \/ ClientLeaves

Spec == Init /\ [][Next]_vars

\* Goroutines run and pq reconnects.  Whether a job is acquired, what is announced, and
\* what a client does, is left open.
Fairness ==
    /\ WF_vars(Receive \/ ReceiveReconnect)
    /\ WF_vars(Reconnect)
    /\ WF_vars(RunTake \/ RunReturns)
    /\ WF_vars(Follow)

FairSpec == Spec /\ Fairness

-----------------------------------------------------------------------------
(* Properties. *)

\* Type correctness of the job, the connection and the follower.
TypeOK ==
    /\ QueueTypeOK
    /\ status \in {"pending", "running", "complete", "canceled"}
    /\ lines \in Nat /\ owed \in 0..lines /\ stray \in Nat
    /\ daemon \in {"idle", "announce", "end", "exited"}
    /\ detector \in {"idle", "end", "exited"}
    /\ net \in Seq({"lines", "end", "nil"})
    /\ notes \in Seq({"lines", "end"}) /\ Len(notes) = sent
    /\ {endAnnounced, up, subscribed, complete} \subseteq BOOLEAN
    /\ breaks \in Nat
    /\ pc \in {"new", "subscribe", "check", "query", "write", "loop"} \cup Ended
    /\ after \in Nat /\ upto \in Nat

\* A follower that ends without an error has written every line that was announced before
\* the job ended, whoever ended it and whatever was lost or overtaken on the way.  (A line
\* whose UpdateJob failed, or was given up and is announced after the end, it may miss.)
EndIsComplete == pc = "returned" => after >= owed

\* The strengthening that makes EndIsComplete inductive.
\* Only a job that is complete is announced to have ended, and only then a follower
\* returns.
EndsAnnounced ==
    /\ daemon \in {"end", "exited"} \/ detector # "idle" => JobIsComplete
    /\ \A i \in 1..Len(net) : net[i] = "end" => JobIsComplete
    /\ \A i \in 1..sent : notes[i] = "end" => JobIsComplete
    /\ complete \/ pc = "returned" => JobIsComplete

\* A follower that waits for announcements is subscribed to them.
SubscribedInTime ==
    /\ pc \in {"new", "subscribe"} => ~complete
    /\ pc = "check" => subscribed
    /\ pc \in {"query", "write"} => complete \/ subscribed
    /\ pc = "loop" => ~complete /\ subscribed

\* What is queued, or with the listener, has been received before.
Numbered(item) == item = ErrDropped \/ item \in 1..sent

ItemsNumbered ==
    /\ \A i \in 1..size : Numbered(Queue[i])
    /\ busy => Numbered(handed)

\* What follow() will be told next, if all of net arrives.
Upcoming ==
    CASE busy                             -> Received(handed)
      [] ~busy /\ size > 0                -> Received(Queue[1])
      [] ~busy /\ size = 0 /\ net # <<>>  -> Head(net)
      [] ~busy /\ size = 0 /\ net = <<>>  -> "nothing"

\* The last line the client has once the query under way is done.
Reading == IF pc = "write" THEN upto ELSE after

\* A follower that has not seen all the lines it is owed is told something before the end:
\* of lines, or of an error.
ToldBeforeEnd ==
    pc \in {"write", "loop"} /\ ~complete =>
        \/ Reading >= owed
        \/ Upcoming \notin {"end", "nothing"}
        \/ Upcoming = "nothing" /\ ~up

\* A query that follows the end of the job gets all the lines.
LastQueryComplete == pc = "write" /\ complete => upto >= owed

IInv ==
    /\ TypeOK
    /\ EndsAnnounced
    /\ SubscribedInTime
    /\ ItemsNumbered
    /\ ToldBeforeEnd
    /\ LastQueryComplete
    /\ EndIsComplete


\* After the follower has ended, the goroutine that calls its listener ends, too.
QueueGoroutineEnds == (pc \in Ended /\ subscribed) ~> exited
=============================================================================
