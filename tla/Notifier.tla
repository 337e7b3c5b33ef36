------------------------------ MODULE Notifier ------------------------------
(***************************************************************************)
(* The queue of notification messages (wirtuald/notifications): several    *)
(* replicas, each with a Manager, lease messages from one table, deliver   *)
(* them and record the results in bulk, later and without looking at the   *)
(* row again.  A result that is lost, because a delivery timed out, the    *)
(* update failed or the replica died, leaves the row leased; the message   *)
(* is leased again after a while, also by a replica that believes that     *)
(* another one is done with it.                                            *)
(*                                                                         *)
(* Of time only its order is kept: due says that the lease or the retry    *)
(* interval of a message is over.                                          *)
(***************************************************************************)
EXTENDS Naturals, Sequences, FiniteSets

CONSTANTS
    Managers,
    Msgs,
    MaxSendAttempts,
    StoreSyncBufferSize,
    Stopped,     \* the managers that are started and stopped; the others just run
    MaxFaults    \* bound on what goes wrong: Slow, TimeOut, SyncError, CancelCtx, Crash

ASSUME AttemptsAssumption == MaxSendAttempts \in Nat \ {0}
ASSUME StoppedAssumption == Stopped \subseteq Managers /\ MaxFaults \in Nat
ASSUME BufferAssumption == StoreSyncBufferSize \in Nat \ {0}

VARIABLES
    status, attemptCount, due,   \* the rows of notification_messages
    slow,      \* history: a lease has expired before its holder was done
    faults,    \* how many faults there were
    loop,      \* of each manager: where loop() is
    stop,      \* where Stop() is
    ctxDone,   \* ctx is canceled
    notifier,  \* where the goroutine of notifier.run is
    batch,     \* the messages that process() has fetched and not yet prepared
    putting,   \* the result that process() is sending to failure, if any
    inflight,  \* the messages that goroutines of process() deliver
    success, failure,    \* the channels
    syncer,    \* where the goroutine that updates the store is
    sentIds, failedIds   \* the parameters of its two bulk updates

rowVars == <<status, attemptCount, due, slow>>
loopVars == <<loop, stop, ctxDone>>
notifierVars == <<notifier, batch, putting, inflight>>
syncVars == <<success, failure, syncer, sentIds, failedIds>>
vars == <<rowVars, faults, loopVars, notifierVars, syncVars>>

\* A failure is temporary, or final: "failed" is permanent_failure or inhibited.
FailedStatus == {"temporary_failure", "failed"}
Final == {"sent", "failed"}

All(v) == [m \in Managers |-> v]

Init ==
    /\ status = [x \in Msgs |-> "none"]
    /\ attemptCount = [x \in Msgs |-> 0]
    /\ due = [x \in Msgs |-> TRUE]
    /\ slow = [x \in Msgs |-> FALSE]
    /\ faults = 0
    /\ loop = [m \in Managers |-> IF m \in Stopped THEN "new" ELSE "running"]
    /\ stop = All("no") /\ ctxDone = All(FALSE)
    /\ notifier = [m \in Managers |-> IF m \in Stopped THEN "none" ELSE "idle"]
    /\ batch = All({}) /\ putting = All({}) /\ inflight = All({})
    /\ success = All(<<>>) /\ failure = All(<<>>)
    /\ syncer = notifier /\ sentIds = All({}) /\ failedIds = All({})

-----------------------------------------------------------------------------
(* What a manager has leased. *)

Elements(q) == {q[i] : i \in 1..Len(q)}

\* The messages in each place between fetch and the end of a bulk update.
Holdings(m) ==
    << batch[m], {r[1] : r \in putting[m]}, inflight[m],
       Elements(success[m]), {r[1] : r \in Elements(failure[m])},
       sentIds[m], {r[1] : r \in failedIds[m]} >>

Holds(m, x) == \E i \in 1..7 : x \in Holdings(m)[i]

Places(x) == {p \in Managers \X (1..7) : x \in Holdings(p[1])[p[2]]}

Fault ==
    /\ faults < MaxFaults
    /\ faults' = faults + 1

-----------------------------------------------------------------------------
(* The table. *)

\* EnqueueWithData.
Enqueue(x) ==
    /\ status[x] = "none"
    /\ status' = [status EXCEPT ![x] = "pending"]
    /\ UNCHANGED <<attemptCount, due, slow, faults, loopVars, notifierVars, syncVars>>

Wait(x) == ~due[x] /\ status[x] \in {"leased", "temporary_failure"}

\* m still has x, and is able to record it.
Working(m, x) == Holds(m, x) /\ syncer[m] # "exited"

\* next_retry_after has passed, or leased_until, and nobody will record the result.
Elapse(x) ==
    /\ Wait(x)
    /\ \A m \in Managers : ~Working(m, x)
    /\ due' = [due EXCEPT ![x] = TRUE]
    /\ slow' = [slow EXCEPT ![x] = @ \/ \E m \in Managers : Holds(m, x)]
    /\ UNCHANGED <<status, attemptCount, faults, loopVars, notifierVars, syncVars>>

\* The time has passed while a manager is still working at the message.
Slow(x) ==
    /\ Wait(x)
    /\ \E m \in Managers : Working(m, x)
    /\ due' = [due EXCEPT ![x] = TRUE]
    /\ slow' = [slow EXCEPT ![x] = TRUE]
    /\ Fault
    /\ UNCHANGED <<status, attemptCount, loopVars, notifierVars, syncVars>>

\* Mutant: a lease is not looked at.
EligibleLeased(x) ==
    /\ status[x] \in {"pending", "temporary_failure", "leased"}
    /\ due[x] \/ status[x] = "leased"
    /\ attemptCount[x] < MaxSendAttempts

\* Mutant: a lease never ends.
EligibleUnleased(x) ==
    /\ status[x] \in {"pending", "temporary_failure"}
    /\ due[x]
    /\ attemptCount[x] < MaxSendAttempts

\* The WHERE clause of AcquireNotificationMessages.
Eligible(x) ==
    /\ status[x] \in {"pending", "temporary_failure", "leased"}
    /\ due[x]
    /\ attemptCount[x] < MaxSendAttempts

\* Mutant: the number of attempts does not end the retries.
StatusForever(x, st) == st

\* The status of a message that has failed once more.
StatusAfter(x, st) == IF attemptCount[x] + 1 < MaxSendAttempts THEN st ELSE "failed"

\* A bulk update writes the status of the rows in new, whatever they are now.
Write(new) ==
    /\ status' = [x \in Msgs |-> IF x \in DOMAIN new THEN new[x] ELSE status[x]]
    /\ attemptCount' = [x \in Msgs |-> attemptCount[x] + (IF x \in DOMAIN new THEN 1 ELSE 0)]
    /\ due' = [x \in Msgs |-> IF x \in DOMAIN new THEN new[x] # "temporary_failure" ELSE due[x]]
    /\ UNCHANGED slow

\* BulkMarkNotificationMessagesSent.
BulkMarkSent(ids) == Write([x \in ids |-> "sent"])

\* BulkMarkNotificationMessagesFailed; of two results for a row it takes one.
BulkMarkFailed(results) ==
    \E choice \in [{r[1] : r \in results} -> FailedStatus] :
        /\ \A x \in DOMAIN choice : <<x, choice[x]>> \in results
        /\ Write([x \in DOMAIN choice |-> StatusAfter(x, choice[x])])

-----------------------------------------------------------------------------
(* loop and Stop. *)

\* Stop has closed the channel stop.
StopClosed(m) == stop[m] \in {"wait", "returned", "early"}

\* loop returns at once if it is stopped already.
LoopCheck(m) ==
    /\ loop[m] = "new"
    /\ loop' = [loop EXCEPT ![m] = IF StopClosed(m) \/ ctxDone[m] THEN "ended" ELSE "starting"]
    /\ UNCHANGED <<rowVars, faults, stop, ctxDone, notifierVars, syncVars>>

\* The notifier is created, and the two goroutines are started.
LoopStart(m) ==
    /\ loop[m] = "starting"
    /\ loop' = [loop EXCEPT ![m] = "running"]
    /\ notifier' = [notifier EXCEPT ![m] = "idle"]
    /\ syncer' = [syncer EXCEPT ![m] = "idle"]
    /\ UNCHANGED <<rowVars, faults, stop, ctxDone, batch, putting, inflight,
                   success, failure, sentIds, failedIds>>

\* eg.Wait returns, and done is closed.
LoopEnd(m) ==
    /\ loop[m] = "running"
    /\ notifier[m] = "exited" /\ syncer[m] = "exited"
    /\ loop' = [loop EXCEPT ![m] = "ended"]
    /\ UNCHANGED <<rowVars, faults, stop, ctxDone, notifierVars, syncVars>>

\* Stop cancels gracefulCtx and waits for the notifier.
StopBegin(m) ==
    /\ m \in Stopped
    /\ stop[m] = "no" /\ notifier[m] # "none"
    /\ stop' = [stop EXCEPT ![m] = "notifier"]
    /\ UNCHANGED <<rowVars, faults, loop, ctxDone, notifierVars, syncVars>>

\* Stop finds no notifier: it closes done and stop, and returns.  The pointer is read
\* without synchronization, so that a notifier may exist.
StopEarly(m) ==
    /\ m \in Stopped
    /\ stop[m] = "no"
    /\ stop' = [stop EXCEPT ![m] = "early"]
    /\ UNCHANGED <<rowVars, faults, loop, ctxDone, notifierVars, syncVars>>

\* Mutant: the notifier is not waited for.
StopAtOnce(m) ==
    /\ stop[m] = "notifier"
    /\ stop' = [stop EXCEPT ![m] = "wait"]
    /\ UNCHANGED <<rowVars, faults, loop, ctxDone, notifierVars, syncVars>>

\* notifier.stop returns, and stop is closed.
StopNotifier(m) ==
    /\ stop[m] = "notifier"
    /\ notifier[m] = "exited"
    /\ stop' = [stop EXCEPT ![m] = "wait"]
    /\ UNCHANGED <<rowVars, faults, loop, ctxDone, notifierVars, syncVars>>

\* Stop returns when done is closed.  Its caller may give up before; that changes nothing.
StopReturn(m) ==
    /\ stop[m] = "wait"
    /\ loop[m] = "ended"
    /\ stop' = [stop EXCEPT ![m] = "returned"]
    /\ UNCHANGED <<rowVars, faults, loop, ctxDone, notifierVars, syncVars>>

\* The context of the server ends.
CancelCtx(m) ==
    /\ m \in Stopped
    /\ ~ctxDone[m]
    /\ ctxDone' = [ctxDone EXCEPT ![m] = TRUE]
    /\ Fault
    /\ UNCHANGED <<rowVars, loop, stop, notifierVars, syncVars>>

\* The replica dies.
Crash(m) ==
    /\ m \in Stopped
    /\ loop[m] = "running"
    /\ loop' = [loop EXCEPT ![m] = "crashed"]
    /\ stop' = [stop EXCEPT ![m] = "crashed"]
    /\ notifier' = [notifier EXCEPT ![m] = "exited"]
    /\ syncer' = [syncer EXCEPT ![m] = "exited"]
    /\ batch' = [batch EXCEPT ![m] = {}]
    /\ putting' = [putting EXCEPT ![m] = {}]
    /\ inflight' = [inflight EXCEPT ![m] = {}]
    /\ success' = [success EXCEPT ![m] = <<>>]
    /\ failure' = [failure EXCEPT ![m] = <<>>]
    /\ sentIds' = [sentIds EXCEPT ![m] = {}]
    /\ failedIds' = [failedIds EXCEPT ![m] = {}]
    /\ Fault
    /\ UNCHANGED <<rowVars, ctxDone>>

-----------------------------------------------------------------------------
(* notifier.run: process, prepare and deliver. *)

\* fetch leases some of the messages that nobody else has locked.
Fetch(m) ==
    /\ notifier[m] = "idle" /\ ~ctxDone[m]
    /\ \E ids \in SUBSET {x \in Msgs : Eligible(x)} \ {{}} :
          /\ status' = [x \in Msgs |-> IF x \in ids THEN "leased" ELSE status[x]]
          /\ due' = [x \in Msgs |-> due[x] /\ x \notin ids]
          /\ batch' = [batch EXCEPT ![m] = ids]
    /\ notifier' = [notifier EXCEPT ![m] = "process"]
    /\ UNCHANGED <<attemptCount, slow, faults, loopVars, putting, inflight, syncVars>>

\* The next message is disabled, cannot be prepared, as none can be when the context is
\* canceled, or is delivered by a goroutine.
Prepare(m) ==
    /\ notifier[m] = "process" /\ putting[m] = {}
    /\ \E x \in batch[m] :
          /\ batch' = [batch EXCEPT ![m] = @ \ {x}]
          /\ \/ /\ \E st \in FailedStatus : putting' = [putting EXCEPT ![m] = {<<x, st>>}]
                /\ UNCHANGED inflight
             \/ /\ ~ctxDone[m]
                /\ inflight' = [inflight EXCEPT ![m] = @ \cup {x}]
                /\ UNCHANGED putting
    /\ UNCHANGED <<rowVars, faults, loopVars, notifier, syncVars>>

\* process sends the result itself, and waits for room in the channel, whatever happens.
PutFailure(m) ==
    /\ Len(failure[m]) < StoreSyncBufferSize
    /\ \E r \in putting[m] : failure' = [failure EXCEPT ![m] = Append(@, r)]
    /\ putting' = [putting EXCEPT ![m] = {}]
    /\ UNCHANGED <<rowVars, faults, loopVars, notifier, batch, inflight, success, syncer, sentIds,
                   failedIds>>

\* deliver: the handler returns, and the result is recorded as soon as its channel has
\* room.  A goroutine that waits for room is like one that is still delivering.
Deliver(m, x) ==
    /\ x \in inflight[m]
    /\ \/ /\ Len(success[m]) < StoreSyncBufferSize
          /\ success' = [success EXCEPT ![m] = Append(@, x)]
          /\ UNCHANGED failure
       \/ /\ Len(failure[m]) < StoreSyncBufferSize
          /\ \E st \in FailedStatus : failure' = [failure EXCEPT ![m] = Append(@, <<x, st>>)]
          /\ UNCHANGED success
    /\ inflight' = [inflight EXCEPT ![m] = @ \ {x}]
    /\ UNCHANGED <<rowVars, faults, loopVars, notifier, batch, putting, syncer, sentIds, failedIds>>

\* DispatchTimeout has passed before the result could be recorded.
TimeOut(m, x) ==
    /\ x \in inflight[m]
    /\ inflight' = [inflight EXCEPT ![m] = @ \ {x}]
    /\ Fault
    /\ UNCHANGED <<rowVars, loopVars, notifier, batch, putting, syncVars>>

\* The context is canceled, or DispatchTimeout has passed and nobody takes the result.
GiveUp(m, x) ==
    /\ x \in inflight[m]
    /\ ctxDone[m] \/ syncer[m] = "exited"
    /\ inflight' = [inflight EXCEPT ![m] = @ \ {x}]
    /\ UNCHANGED <<rowVars, faults, loopVars, notifier, batch, putting, syncVars>>

\* All goroutines of the batch have returned.
ProcessEnds(m) ==
    /\ notifier[m] = "process"
    /\ batch[m] = {} /\ putting[m] = {} /\ inflight[m] = {}
    /\ notifier' = [notifier EXCEPT ![m] = "idle"]
    /\ UNCHANGED <<rowVars, faults, loopVars, batch, putting, inflight, syncVars>>

\* The ticker ends with gracefulCtx.
NotifierExits(m) ==
    /\ notifier[m] = "idle"
    /\ stop[m] \in {"notifier", "wait", "returned"} \/ ctxDone[m]
    /\ notifier' = [notifier EXCEPT ![m] = "exited"]
    /\ UNCHANGED <<rowVars, faults, loopVars, batch, putting, inflight, syncVars>>

-----------------------------------------------------------------------------
(* The goroutine that updates the store. *)

Results(m) == Len(success[m]) + Len(failure[m])

\* Mutant: the failures are read and stay in the channel.
TakeResultsTwice(m, then) ==
    /\ sentIds' = [sentIds EXCEPT ![m] = Elements(success[m])]
    /\ failedIds' = [failedIds EXCEPT ![m] = Elements(failure[m])]
    /\ success' = [success EXCEPT ![m] = <<>>]
    /\ syncer' = [syncer EXCEPT ![m] = then]
    /\ UNCHANGED failure

\* syncUpdates empties the channels.
TakeResults(m, then) ==
    /\ sentIds' = [sentIds EXCEPT ![m] = Elements(success[m])]
    /\ failedIds' = [failedIds EXCEPT ![m] = Elements(failure[m])]
    /\ success' = [success EXCEPT ![m] = <<>>]
    /\ failure' = [failure EXCEPT ![m] = <<>>]
    /\ syncer' = [syncer EXCEPT ![m] = then]

\* The ticker fires.
SyncTick(m) ==
    /\ syncer[m] = "idle" /\ ~ctxDone[m] /\ Results(m) > 0
    /\ TakeResults(m, "sync")
    /\ UNCHANGED <<rowVars, faults, loopVars, notifierVars>>

\* Mutant: the results are not flushed before the goroutine ends.
SyncStopNoFlush(m) ==
    /\ syncer[m] = "idle" /\ StopClosed(m)
    /\ syncer' = [syncer EXCEPT ![m] = "exited"]
    /\ UNCHANGED <<rowVars, faults, loopVars, notifierVars, success, failure, sentIds, failedIds>>

\* The manager is stopped: the results are flushed.
SyncStop(m) ==
    /\ syncer[m] = "idle" /\ StopClosed(m)
    /\ IF ~ctxDone[m] /\ Results(m) > 0
       THEN TakeResults(m, "flush")
       ELSE /\ syncer' = [syncer EXCEPT ![m] = "exited"]
            /\ UNCHANGED <<success, failure, sentIds, failedIds>>
    /\ UNCHANGED <<rowVars, faults, loopVars, notifierVars>>

\* Mutant: the context is not looked at.
SyncIgnoresCancel(m) == FALSE /\ UNCHANGED vars

\* The context is canceled: what is in the channels is given up.
SyncCanceled(m) ==
    /\ syncer[m] = "idle" /\ ctxDone[m]
    /\ syncer' = [syncer EXCEPT ![m] = "exited"]
    /\ UNCHANGED <<rowVars, faults, loopVars, notifierVars, success, failure, sentIds, failedIds>>

\* One of the two bulk updates.
SyncSent(m) ==
    /\ sentIds[m] # {}
    /\ BulkMarkSent(sentIds[m])
    /\ sentIds' = [sentIds EXCEPT ![m] = {}]
    /\ UNCHANGED <<faults, loopVars, notifierVars, success, failure, syncer, failedIds>>

SyncFailed(m) ==
    /\ failedIds[m] # {}
    /\ BulkMarkFailed(failedIds[m])
    /\ failedIds' = [failedIds EXCEPT ![m] = {}]
    /\ UNCHANGED <<faults, loopVars, notifierVars, success, failure, syncer, sentIds>>

\* A bulk update fails, as it does when the context is canceled, and its results are lost.
SyncError(m) ==
    /\ \/ sentIds[m] # {} /\ sentIds' = [sentIds EXCEPT ![m] = {}] /\ UNCHANGED failedIds
       \/ failedIds[m] # {} /\ failedIds' = [failedIds EXCEPT ![m] = {}] /\ UNCHANGED sentIds
    /\ IF ctxDone[m] THEN UNCHANGED faults ELSE Fault
    /\ UNCHANGED <<rowVars, loopVars, notifierVars, success, failure, syncer>>

\* wg.Wait returns.
SyncEnds(m) ==
    /\ syncer[m] \in {"sync", "flush"}
    /\ sentIds[m] = {} /\ failedIds[m] = {}
    /\ syncer' = [syncer EXCEPT ![m] = IF @ = "sync" THEN "idle" ELSE "exited"]
    /\ UNCHANGED <<rowVars, faults, loopVars, notifierVars, success, failure, sentIds, failedIds>>

-----------------------------------------------------------------------------
Table == \E x \in Msgs : Enqueue(x) \/ Elapse(x) \/ Slow(x)

Loop(m) == LoopCheck(m) \/ LoopStart(m) \/ LoopEnd(m)

Stop(m) == StopBegin(m) \/ StopEarly(m) \/ StopNotifier(m) \/ StopReturn(m)

\* The goroutines of a batch.
Batch(m) ==
    \/ Prepare(m) \/ PutFailure(m) \/ ProcessEnds(m)
    \/ \E x \in Msgs : Deliver(m, x) \/ GiveUp(m, x)

Notify(m) ==
    Fetch(m) \/ Batch(m) \/ NotifierExits(m) \/ \E x \in Msgs : TimeOut(m, x)

Sync(m) ==
    \/ SyncTick(m) \/ SyncStop(m) \/ SyncCanceled(m)
    \/ SyncSent(m) \/ SyncFailed(m) \/ SyncError(m) \/ SyncEnds(m)

Next ==
    \/ Table
    \/ \E m \in Managers : Loop(m) \/ Stop(m) \/ CancelCtx(m) \/ Crash(m) \/ Notify(m) \/ Sync(m)

Spec == Init /\ [][Next]_vars

\* Goroutines and time go on, and a notifier is not paused for ever.
Fairness ==
    /\ \A x \in Msgs : WF_vars(Elapse(x))
    /\ \A m \in Managers :
          /\ WF_vars(Fetch(m))
          /\ WF_vars(Batch(m))
          /\ WF_vars(NotifierExits(m) \/ Loop(m) \/ StopNotifier(m) \/ StopReturn(m))
          /\ WF_vars(SyncTick(m) \/ SyncStop(m) \/ SyncCanceled(m) \/ SyncEnds(m)
                     \/ SyncSent(m) \/ SyncFailed(m))

FairSpec == Spec /\ Fairness

-----------------------------------------------------------------------------
(* Properties. *)

\* Type correctness of the rows, the managers and their results.
TypeOK ==
    /\ status \in [Msgs -> {"none", "pending", "leased", "temporary_failure"} \cup Final]
    /\ attemptCount \in [Msgs -> Nat]
    /\ due \in [Msgs -> BOOLEAN] /\ slow \in [Msgs -> BOOLEAN]
    /\ faults \in Nat
    /\ loop \in [Managers -> {"new", "starting", "running", "ended", "crashed"}]
    /\ stop \in [Managers -> {"no", "notifier", "wait", "returned", "early", "crashed"}]
    /\ ctxDone \in [Managers -> BOOLEAN]
    /\ notifier \in [Managers -> {"none", "idle", "process", "exited"}]
    /\ batch \in [Managers -> SUBSET Msgs]
    /\ putting \in [Managers -> SUBSET (Msgs \X FailedStatus)]
    /\ inflight \in [Managers -> SUBSET Msgs]
    /\ success \in [Managers -> Seq(Msgs)]
    /\ failure \in [Managers -> Seq(Msgs \X FailedStatus)]
    /\ syncer \in [Managers -> {"none", "idle", "sync", "flush", "exited"}]
    /\ sentIds \in [Managers -> SUBSET Msgs]
    /\ failedIds \in [Managers -> SUBSET (Msgs \X FailedStatus)]

\* No message is stuck: one that is not final has attempts left, however late and in
\* whatever order the results of earlier leases are written.
AttemptsLeft ==
    \A x \in Msgs : status[x] \notin Final => attemptCount[x] < MaxSendAttempts

\* "This notifier is the exclusive handler of these messages until they are dispatched -
\* or until the lease expires": a message is in one place of one manager only, and
\* nobody else changes its row meanwhile, unless a lease has expired before.
ExclusiveUnlessSlow ==
    \A x \in Msgs : ~slow[x] =>
        \A p, r \in Places(x) : p = r /\ status[x] = "leased"

\* A result counts once: it is written over a lease, and never over the result of another
\* attempt, unless a lease has expired before its holder was done.
ResultsCountOnce ==
    [][\A x \in Msgs : ~slow[x] =>
          /\ status[x] \in Final => status'[x] = status[x] /\ attemptCount'[x] = attemptCount[x]
          /\ attemptCount'[x] # attemptCount[x] =>
                status[x] = "leased" /\ attemptCount'[x] = attemptCount[x] + 1]_vars

\* The messages whose results are in a channel of m or in one of its bulk updates.
Recorded(m) ==
    Elements(success[m]) \cup {r[1] : r \in Elements(failure[m])}
        \cup sentIds[m] \cup {r[1] : r \in failedIds[m]}

\* A manager that Stop has returned from has nothing left.
NothingLeft ==
    \A m \in Managers : stop[m] = "returned" /\ ~ctxDone[m] =>
                            \A x \in Msgs : ~Holds(m, x)

\* Stop flushes the results.  When it returns, no message and no result is left in the
\* manager, unless Stop saw no notifier or the context was canceled.  And a result that was
\* in a channel is gone only because it was written, or because right then its bulk update
\* failed or the replica died; the ticker and the flush do not lose it between them.  (What
\* a failed bulk update drops is lost, in the flush of Stop, too.)
StopFlushes ==
    [][/\ NothingLeft'
       /\ \A m \in Managers : \A x \in Recorded(m) \ Recorded(m)' :
             attemptCount'[x] > attemptCount[x] \/ faults' > faults \/ ctxDone[m]]_vars

\* A lease that has not expired is not due.
HeldNotDue == \A x \in Msgs : ~slow[x] /\ Places(x) # {} => ~due[x]

\* What a manager holds where it is in its loops, and what Stop has waited for.
Lifecycle ==
    \A m \in Managers :
        /\ loop[m] \in {"new", "starting"} => notifier[m] = "none"
        /\ notifier[m] = "none" <=> syncer[m] = "none"
        /\ notifier[m] # "process" => batch[m] = {} /\ putting[m] = {} /\ inflight[m] = {}
        /\ syncer[m] \notin {"sync", "flush"} => sentIds[m] = {} /\ failedIds[m] = {}
        /\ notifier[m] = "none" => success[m] = <<>> /\ failure[m] = <<>>
        /\ loop[m] = "ended" => syncer[m] \in {"none", "exited"}
        /\ syncer[m] \in {"flush", "exited"} /\ stop[m] \in {"no", "notifier"} => ctxDone[m]
        /\ stop[m] \in {"wait", "returned"} =>
              /\ notifier[m] = "exited"
              /\ syncer[m] \in {"flush", "exited"} /\ ~ctxDone[m] =>
                    success[m] = <<>> /\ failure[m] = <<>>
        /\ stop[m] = "returned" => loop[m] = "ended"

\* The strengthening that makes ExclusiveUnlessSlow and NothingLeft inductive.
IInv == TypeOK /\ AttemptsLeft /\ ExclusiveUnlessSlow /\ HeldNotDue /\ Lifecycle

\* While Stop waits for the notifier, the goroutine that empties the channels has not
\* ended: a process that waits for room gets it.
DrainedWhileStopping ==
    \A m \in Managers : stop[m] = "notifier" /\ ~ctxDone[m] => syncer[m] \in {"idle", "sync"}

\* Stop returns: process, which waits for room in a channel, and the goroutine that
\* makes room and waits for Stop, do not wait for each other.
StopReturns ==
    \A m \in Managers : (stop[m] = "notifier") ~> (stop[m] \in {"returned", "crashed"} \/ ctxDone[m])

\* Every message is sent or has failed for good in the end, if a manager is left: also
\* if its result was lost.  A notifier whose Stop did not see it takes messages for ever.
MessagesEnd ==
    \A x \in Msgs :
        (status[x] = "pending") ~> (status[x] \in Final \/ \E m \in Managers : stop[m] = "early")

\* A canceled manager ends, unless process waits for room in a channel that nobody
\* empties any more.
CancelEnds ==
    \A m \in Managers :
        ctxDone[m] ~> \/ loop[m] \in {"ended", "crashed"}
                      \/ putting[m] # {} /\ Len(failure[m]) = StoreSyncBufferSize
=============================================================================
