------------------------------- MODULE Runner -------------------------------
(***************************************************************************)
(* The runner of a provisioner daemon: the goroutines that execute one     *)
(* acquired job and report it (provisionerd/runner/runner.go), and the two *)
(* ways the daemon ends a job from outside, Shutdown and Close             *)
(* (provisionerd/provisionerd.go).                                         *)
(*                                                                         *)
(* One mutex guards the runner, and it is held while UpdateJob, FailJob or *)
(* CompleteJob is sent: a call that waits for the server keeps everybody   *)
(* else from the runner.  Sending and replying are therefore two actions.  *)
(***************************************************************************)
EXTENDS Naturals, Sequences

CONSTANTS
    Flushers,   \* goroutines started by the log timer
    LogLimit,   \* the 100 of queueLog
    MaxLogs     \* bound on the queued logs

ASSUME LogAssumption == LogLimit \in Nat /\ MaxLogs \in Nat
ASSUME FlushersAssumption == Flushers \cap {"run", "work", "beat", "close", "none"} = {}

VARIABLES
    mutex,       \* the thread that holds Runner.mutex while it sends, or "none"
    pc,          \* of each thread
    okToSend,
    failedJob, completedJob,   \* whether they are set
    canceled,    \* notCanceled is done
    stopped,     \* notStopped is done
    doneCloses,  \* how often close(done) has been called
    result,      \* what do() returned
    logs,        \* number of queuedLogs
    timer,       \* flushLogsTimer: "nil", "armed" or "stopped"
    terminal,    \* history: the FailJob and CompleteJob calls begun
    late         \* history: an UpdateJob was begun after one of those

Threads == {"run", "work", "beat", "close"} \cup Flushers

contexts == <<canceled, stopped>>
logVars == <<logs, timer>>
jobVars == <<failedJob, completedJob>>
vars == <<mutex, pc, okToSend, jobVars, contexts, doneCloses, result, logVars, terminal, late>>

Init ==
    /\ mutex = "none"
    /\ pc = [t \in Threads |-> IF t = "run" THEN "new"
                               ELSE IF t \in {"work", "beat"} THEN "none" ELSE "idle"]
    /\ okToSend = TRUE
    /\ failedJob = FALSE /\ completedJob = FALSE
    /\ canceled = FALSE /\ stopped = FALSE
    /\ doneCloses = 0
    /\ result = "none"
    /\ logs = 0 /\ timer = "nil"
    /\ terminal = <<>> /\ late = FALSE

-----------------------------------------------------------------------------
Goto(t, l) == pc' = [pc EXCEPT ![t] = l]

Free == mutex = "none"

\* stop() ends notStopped and, with it, notCanceled, which is derived from it.
Stop == stopped' = TRUE /\ canceled' = TRUE

\* Thread t, holding the mutex, begins a FailJob or CompleteJob call.
SendTerminal(t, kind) ==
    /\ mutex' = t
    /\ terminal' = Append(terminal, kind)

\* update(): t sends UpdateJob and goes to l, or finds okToSend false and goes
\* to skipped.
Update(t, l, skipped) ==
    /\ Free
    /\ IF okToSend
       THEN mutex' = t /\ Goto(t, l) /\ late' = (late \/ terminal # <<>>)
       ELSE Goto(t, skipped) /\ UNCHANGED <<mutex, late>>
    /\ UNCHANGED <<okToSend, jobVars, contexts, doneCloses, result, logVars, terminal>>

\* UpdateJob has returned, with or without an error.
UpdateReply(t, from, l) ==
    /\ pc[t] = from
    /\ mutex' = "none"
    /\ Goto(t, l)
    /\ UNCHANGED <<okToSend, jobVars, doneCloses, logVars, terminal, late>>

-----------------------------------------------------------------------------
(* Run. *)

RunStart ==
    /\ pc["run"] = "new"
    /\ Free
    /\ pc' = [pc EXCEPT !["run"] = "waiting", !["work"] = "session", !["beat"] = "tick"]
    /\ UNCHANGED <<mutex, okToSend, jobVars, contexts, doneCloses, result, logVars, terminal, late>>

\* Run holds the mutex again and one of the results is set: somebody has already
\* reported (or forbidden to report), or Run reports.
RunWake ==
    /\ pc["run"] = "waiting"
    /\ Free
    /\ failedJob \/ completedJob
    /\ IF ~okToSend
       THEN /\ Goto("run", "returned")
            /\ Stop
            /\ UNCHANGED <<mutex, terminal>>
       ELSE /\ Goto("run", IF failedJob THEN "fail" ELSE "complete")
            /\ SendTerminal("run", IF failedJob THEN "fail" ELSE "complete")
            /\ UNCHANGED contexts
    /\ UNCHANGED <<okToSend, jobVars, doneCloses, result, logVars, late>>

\* Mutant: okToSend stays true.
RunEndOk ==
    /\ doneCloses' = doneCloses + 1
    /\ mutex' = "none"
    /\ Stop
    /\ Goto("run", "returned")
    /\ UNCHANGED <<okToSend, jobVars, result, logVars, terminal, late>>

\* The end of Run, and its deferred stop and unlock.
RunEnd ==
    /\ doneCloses' = doneCloses + 1
    /\ okToSend' = FALSE
    /\ mutex' = "none"
    /\ Stop
    /\ Goto("run", "returned")
    /\ UNCHANGED <<jobVars, result, logVars, terminal, late>>

\* CompleteJob has failed: FailJob is sent instead.
RunCompleteError ==
    /\ pc["run"] = "complete"
    /\ Goto("run", "fail")
    /\ SendTerminal("run", "fail")
    /\ UNCHANGED <<okToSend, jobVars, contexts, doneCloses, result, logVars, late>>

\* The server answers.
RunReply ==
    \/ pc["run"] \in {"fail", "complete"} /\ RunEnd
    \/ RunCompleteError

\* The call ends without an answer because its context, notStopped, is done.
RunStopped ==
    /\ stopped
    /\ \/ pc["run"] = "fail" /\ RunEnd
       \/ RunCompleteError

-----------------------------------------------------------------------------
(* Fail and ForceStop. *)

\* Mutant: Fail does not look at okToSend.
FailBeginUnchecked(t, returned) ==
    /\ pc[t] = "failing"
    /\ Free
    /\ canceled' = TRUE /\ failedJob' = TRUE
    /\ Goto(t, "sendFail")
    /\ SendTerminal(t, "fail")
    /\ UNCHANGED <<okToSend, completedJob, stopped, doneCloses, result, logVars, late>>

\* Fail: it returns at once if the job has been reported, and otherwise cancels
\* the job and sends FailJob.
FailBegin(t, returned) ==
    /\ pc[t] = "failing"
    /\ Free
    /\ IF ~okToSend
       THEN /\ Goto(t, returned)
            /\ UNCHANGED <<mutex, terminal, canceled, failedJob>>
       ELSE /\ canceled' = TRUE
            /\ failedJob' = TRUE
            /\ Goto(t, "sendFail")
            /\ SendTerminal(t, "fail")
    /\ UNCHANGED <<okToSend, completedJob, stopped, doneCloses, result, logVars, late>>

\* Mutant: the mutex is not unlocked.
FailEndLocked(t, l) ==
    /\ pc[t] = "sendFail"
    /\ okToSend' = FALSE
    /\ Stop
    /\ doneCloses' = doneCloses + 1
    /\ Goto(t, l)
    /\ UNCHANGED <<mutex, jobVars, result, logVars, terminal, late>>

\* FailJob has returned.
FailEnd(t, l) ==
    /\ pc[t] = "sendFail"
    /\ okToSend' = FALSE
    /\ Stop
    /\ doneCloses' = doneCloses + 1
    /\ mutex' = "none"
    /\ Goto(t, l)
    /\ UNCHANGED <<jobVars, result, logVars, terminal, late>>

\* ForceStop.
ForceStop(t, l) ==
    /\ pc[t] = "force"
    /\ Free
    /\ Stop
    /\ okToSend' = FALSE
    /\ doneCloses' = IF okToSend THEN doneCloses + 1 ELSE doneCloses
    /\ failedJob' = (failedJob \/ okToSend)
    /\ Goto(t, l)
    /\ UNCHANGED <<mutex, completedJob, result, logVars, terminal, late>>

-----------------------------------------------------------------------------
(* doCleanFinish and do. *)

\* provisioner.Session: without a session there is nothing to clean up.
WorkSession ==
    /\ pc["work"] = "session"
    /\ \/ Goto("work", "doing") /\ UNCHANGED result
       \/ Goto("work", "setting") /\ result' = "fail"
    /\ UNCHANGED <<mutex, okToSend, jobVars, contexts, doneCloses, logVars, terminal, late>>

\* queueLog: the first line creates the timer, every other one resets it and
\* returns, so that the check for more than LogLimit lines is never reached.
QueueLog ==
    /\ Free
    /\ logs < MaxLogs
    /\ logs' = logs + 1
    /\ timer' = "armed"
    /\ UNCHANGED <<mutex, okToSend, jobVars, contexts, doneCloses, result, terminal, late>>

WorkLog == pc["work"] = "doing" /\ QueueLog /\ UNCHANGED pc

\* A template import stores its variables with UpdateJob, and fails if that
\* is skipped or fails.
WorkUpdate == pc["work"] = "doing" /\ Update("work", "updating", "skipped")

WorkSkipped ==
    /\ pc["work"] = "skipped"
    /\ result' = "fail"
    /\ Goto("work", "cleaning")
    /\ UNCHANGED <<mutex, okToSend, jobVars, contexts, doneCloses, logVars, terminal, late>>

WorkUpdateReply ==
    /\ \/ UpdateReply("work", "updating", "doing") /\ UNCHANGED result
       \/ UpdateReply("work", "updating", "cleaning") /\ result' = "fail"
    /\ UNCHANGED contexts

\* do() returns.
WorkDone ==
    /\ pc["work"] = "doing"
    /\ result' \in {"complete", "fail"}
    /\ Goto("work", "cleaning")
    /\ UNCHANGED <<mutex, okToSend, jobVars, contexts, doneCloses, logVars, terminal, late>>

\* The deferred cleanup logs (or the bound is reached) and flushes.
WorkClean ==
    /\ pc["work"] = "cleaning"
    /\ IF logs < MaxLogs THEN QueueLog
       ELSE Free /\ UNCHANGED <<mutex, okToSend, jobVars, contexts, doneCloses, result,
                                logVars, terminal, late>>
    /\ Goto("work", "take")

\* flushQueuedLogs, first section: the logs are taken.
TakeLogs(t, from, l) ==
    /\ pc[t] = from
    /\ Free
    /\ logs' = 0
    /\ timer' = IF timer = "nil" THEN "nil" ELSE "stopped"
    /\ Goto(t, l)
    /\ UNCHANGED <<mutex, okToSend, jobVars, contexts, doneCloses, result, terminal, late>>

FlushTake(t) == TakeLogs(t, "take", "taken")

\* flushQueuedLogs, second section: they are sent, or dropped.
FlushSend(t, l) == pc[t] = "taken" /\ Update(t, "flushing", l)

FlushReply(t, l) == UpdateReply(t, "flushing", l) /\ UNCHANGED <<contexts, result>>

\* A workspace build also flushes in the middle of do(), and goes on whether the
\* logs were sent or not.
WorkFlush == TakeLogs("work", "doing", "took")

WorkFlushSend == pc["work"] = "took" /\ Update("work", "syncing", "doing")

WorkFlushReply == UpdateReply("work", "syncing", "doing") /\ UNCHANGED <<contexts, result>>

\* setFail or setComplete.
WorkSet ==
    /\ pc["work"] = "setting"
    /\ Free
    /\ failedJob' = (failedJob \/ result = "fail")
    /\ completedJob' = (result = "complete")
    /\ Goto("work", "ended")
    /\ UNCHANGED <<mutex, okToSend, contexts, doneCloses, result, logVars, terminal, late>>

\* The timer fires in a goroutine of its own.
TimerFires(t) ==
    /\ t \in Flushers
    /\ pc[t] = "idle"
    /\ timer = "armed"
    /\ timer' = "stopped"
    /\ Goto(t, "take")
    /\ UNCHANGED <<mutex, okToSend, jobVars, contexts, doneCloses, result, logs, terminal, late>>

-----------------------------------------------------------------------------
(* heartbeatRoutine. *)

BeatCanceled ==
    /\ pc["beat"] = "tick"
    /\ canceled
    /\ Goto("beat", "ended")
    /\ UNCHANGED <<mutex, okToSend, jobVars, contexts, doneCloses, result, logVars, terminal, late>>

\* sendHeartbeat, first section; a recent update makes the heartbeat unnecessary.
BeatTick ==
    /\ pc["beat"] = "tick"
    /\ Free
    /\ \E l \in (IF okToSend THEN {"tick", "beating"} ELSE {"failing"}) : Goto("beat", l)
    /\ UNCHANGED <<mutex, okToSend, jobVars, contexts, doneCloses, result, logVars, terminal, late>>

BeatSend == pc["beat"] = "beating" /\ Update("beat", "updating", "failing")

\* The server answers, with canceled or without, or there is an error.
BeatReply ==
    /\ \/ UpdateReply("beat", "updating", "tick") /\ UNCHANGED contexts
       \/ UpdateReply("beat", "updating", "canceling") /\ canceled' = TRUE /\ UNCHANGED stopped
       \/ UpdateReply("beat", "updating", "failing") /\ UNCHANGED contexts
    /\ UNCHANGED result

\* Mutant: a cancellation that takes too long is not given up.
ForceCancelIfFailed ==
    /\ pc["beat"] = "canceling"
    /\ failedJob
    /\ Goto("beat", "failing")
    /\ UNCHANGED <<mutex, okToSend, jobVars, contexts, doneCloses, result, logVars, terminal, late>>

\* The graceful cancellation has taken forceCancelInterval.
ForceCancel ==
    /\ pc["beat"] = "canceling"
    /\ Goto("beat", "failing")
    /\ UNCHANGED <<mutex, okToSend, jobVars, contexts, doneCloses, result, logVars, terminal, late>>

BeatDone ==
    /\ pc["beat"] = "canceling"
    /\ doneCloses > 0 \/ stopped
    /\ Goto("beat", "ended")
    /\ UNCHANGED <<mutex, okToSend, jobVars, contexts, doneCloses, result, logVars, terminal, late>>

BeatFail == FailBegin("beat", "ended")

BeatFailReply == FailEnd("beat", "ended")

-----------------------------------------------------------------------------
(* Shutdown and Close of the daemon. *)

\* Shutdown with cancelActiveJob.
Shutdown ==
    /\ ~canceled
    /\ canceled' = TRUE
    /\ UNCHANGED <<mutex, pc, okToSend, jobVars, stopped, doneCloses, result, logVars,
                   terminal, late>>

\* closeWithError takes activeJob; it may have looked before this job was there.
CloseBegin ==
    /\ pc["close"] = "idle"
    /\ \E l \in {"failing", "cancel"} : Goto("close", l)
    /\ UNCHANGED <<mutex, okToSend, jobVars, contexts, doneCloses, result, logVars, terminal, late>>

CloseFail == FailBegin("close", "cancel")

\* FailJob is answered, or the second that Close gives it is over.
CloseFailReply == \E l \in {"cancel", "force"} : FailEnd("close", l)

CloseForce == ForceStop("close", "cancel")

\* closeCancel ends the context the runner was created with.
CloseCancel ==
    /\ pc["close"] = "cancel"
    /\ Stop
    /\ Goto("close", "ended")
    /\ UNCHANGED <<mutex, okToSend, jobVars, doneCloses, result, logVars, terminal, late>>

-----------------------------------------------------------------------------
RunStep == RunStart \/ RunWake \/ RunReply \/ RunStopped

WorkStep ==
    \/ WorkSession \/ WorkLog \/ WorkUpdate \/ WorkSkipped \/ WorkUpdateReply \/ WorkDone
    \/ WorkClean \/ FlushTake("work") \/ FlushSend("work", "setting")
    \/ FlushReply("work", "setting") \/ WorkSet
    \/ WorkFlush \/ WorkFlushSend \/ WorkFlushReply

FlushStep(t) ==
    TimerFires(t) \/ FlushTake(t) \/ FlushSend(t, "idle") \/ FlushReply(t, "idle")

BeatStep ==
    \/ BeatCanceled \/ BeatTick \/ BeatSend \/ BeatReply
    \/ ForceCancel \/ BeatDone \/ BeatFail \/ BeatFailReply

CloseStep == CloseBegin \/ CloseFail \/ CloseFailReply \/ CloseForce \/ CloseCancel

Next ==
    \/ RunStep \/ WorkStep \/ BeatStep \/ CloseStep \/ Shutdown
    \/ \E t \in Flushers : FlushStep(t)

Spec == Init /\ [][Next]_vars

\* Goroutines run, Go's mutex starves nobody, timers fire, and calls end when
\* their contexts do: UpdateJob after 30 seconds, the FailJob of Close after one.
\* The session is opened with notStopped and ends with it; what the provisioner
\* does before that, and when, is left open.
LocalFairness ==
    /\ SF_vars(stopped /\ (WorkSession \/ WorkDone))
    /\ SF_vars(RunStart \/ RunWake \/ RunStopped)
    /\ SF_vars(\/ WorkSkipped \/ WorkUpdateReply \/ WorkClean \/ WorkSet
               \/ FlushTake("work") \/ FlushSend("work", "setting")
               \/ FlushReply("work", "setting") \/ WorkFlushSend \/ WorkFlushReply)
    /\ SF_vars(\/ BeatCanceled \/ BeatTick \/ BeatSend \/ BeatReply \/ ForceCancel
               \/ BeatDone \/ BeatFail \/ (stopped /\ BeatFailReply))
    /\ SF_vars(CloseFail \/ CloseFailReply \/ CloseForce \/ CloseCancel)
    /\ \A t \in Flushers : SF_vars(FlushTake(t) \/ FlushSend(t, "idle") \/ FlushReply(t, "idle"))

\* The server answers every FailJob and CompleteJob.
FairSpec == Spec /\ LocalFairness /\ WF_vars(RunReply) /\ WF_vars(BeatFailReply)

-----------------------------------------------------------------------------
(* Properties. *)

Sending == {"fail", "complete", "sendFail", "updating", "flushing", "syncing"}
Locations ==
    Sending \cup {"new", "waiting", "returned", "none", "session", "doing", "skipped",
                  "cleaning", "take", "taken", "took", "setting", "ended", "tick", "beating",
                  "canceling", "failing", "idle", "force", "cancel"}

\* Type correctness of the runner's fields, contexts and goroutines.
TypeOK ==
    /\ mutex \in Threads \cup {"none"}
    /\ pc \in [Threads -> Locations]
    /\ {okToSend, failedJob, completedJob, canceled, stopped, late} \subseteq BOOLEAN
    /\ doneCloses \in Nat
    /\ result \in {"none", "complete", "fail"}
    /\ logs \in Nat
    /\ timer \in {"nil", "armed", "stopped"}
    /\ terminal \in Seq({"fail", "complete"})

\* close(done), which panics the second time, happens once, although Run, Fail
\* and ForceStop all close the channel.
DoneClosedOnce == doneCloses <= 1

\* The server gets one terminal message about a job, or a CompleteJob that failed
\* and then a FailJob, and no update after it.
OneReport ==
    /\ terminal \in {<<>>, <<"fail">>, <<"complete">>, <<"complete", "fail">>}
    /\ ~late

\* A thread waits for the server exactly while it holds the mutex.
MutexHeld == \A t \in Threads : pc[t] \in Sending <=> mutex = t

\* The channel is closed by whoever sets okToSend to false, and a terminal message
\* is being sent, by the holder of the mutex, or has been if okToSend is false.
ReportsMatch ==
    /\ doneCloses = (IF okToSend THEN 0 ELSE 1)
    /\ okToSend /\ terminal # <<>> =>
          /\ mutex \in {"run", "beat", "close"}
          /\ pc[mutex] \in {"fail", "complete", "sendFail"}
    /\ pc["run"] = "complete" => okToSend /\ terminal = <<"complete">>
    /\ pc["run"] = "fail" => okToSend /\ terminal \in {<<"fail">>, <<"complete", "fail">>}
    /\ \A t \in {"beat", "close"} : pc[t] = "sendFail" => okToSend /\ terminal = <<"fail">>

\* The flush timer exists from the first line on: the branch of queueLog that
\* flushes more than LogLimit lines is dead code.
TimerExists == timer = "nil" => logs = 0

\* The strengthening that makes DoneClosedOnce and OneReport inductive.
IInv == TypeOK /\ MutexHeld /\ ReportsMatch /\ OneReport /\ TimerExists

\* A job that is being canceled ends: Run returns, even if the provisioner does
\* not react to the cancellation.
CancelEnds == (pc["beat"] = "canceling") ~> (pc["run"] = "returned")

\* Once there is a result, whoever set it, Run returns: no signal is lost and
\* nobody waits for ever for the mutex.
ResultEnds == (failedJob \/ completedJob) ~> (pc["run"] = "returned")

-----------------------------------------------------------------------------
(* Refinement. *)

\* The job as the server sees it: a call under way is an update as long as no
\* report has been begun.
ReportPhase ==
    IF ~okToSend THEN "ended" ELSE IF terminal = <<>> THEN "running" ELSE "reporting"

Report ==
    INSTANCE JobReport WITH
        phase <- ReportPhase,
        calling <- (okToSend /\ terminal = <<>> /\ mutex # "none"),
        outcome <- terminal,
        done <- doneCloses

\* The goroutines of the runner together keep the promise of JobReport: updates
\* and reports do not overlap, and Run, Fail and ForceStop end the job once.
RunnerReports == Report!Spec
=============================================================================
