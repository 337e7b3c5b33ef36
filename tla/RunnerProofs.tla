---------------------------- MODULE RunnerProofs ----------------------------
(***************************************************************************)
(* Proofs that Runner keeps its inductive invariant IInv, for any number   *)
(* of flushing goroutines and queued lines.                                *)
(***************************************************************************)
EXTENDS Runner, SequenceTheorems, TLAPS

USE LogAssumption, FlushersAssumption

-----------------------------------------------------------------------------
(* The messages. *)

\* The second terminal message: a FailJob after a CompleteJob.
LEMMA FailAfterComplete == Append(<<"complete">>, "fail") = <<"complete", "fail">>
<1> DEFINE S == {"fail", "complete"}
           both == <<"complete", "fail">>
<1>1. <<"complete">> \in Seq(S) /\ Len(<<"complete">>) = 1 /\ <<"complete">>[1] = "complete"
    OBVIOUS
<1>2. PICK s \in Seq(S) : s = <<"complete">> /\ Len(s) = 1 /\ s[1] = "complete"
    BY <1>1
<1>3. Append(s, "fail") \in Seq(S)
    OBVIOUS
<1>4. PICK u \in Seq(S) : u = Append(s, "fail")
    BY <1>3
<1>5. Len(u) = 2
    BY <1>2, <1>4
<1>6. u[1] = "complete"
    BY <1>2, <1>4, AppendProperties
<1>7. u[2] = "fail"
    BY <1>2, <1>4, AppendProperties
<1>8. both \in Seq(S) /\ Len(both) = 2 /\ both[1] = "complete" /\ both[2] = "fail"
    OBVIOUS
<1> HIDE DEF both
<1>9. u = both
    BY <1>5, <1>6, <1>7, <1>8, SeqEqual
<1> QED
    BY <1>2, <1>4, <1>9 DEF both

\* The first terminal message.
LEMMA FirstReport == \A kind : Append(<<>>, kind) = <<kind>>
OBVIOUS

\* The sequences of terminal messages that occur are typed.
LEMMA ReportTypes ==
    {<<>>, <<"fail">>, <<"complete">>, <<"complete", "fail">>} \subseteq Seq({"fail", "complete"})
OBVIOUS

\* Whoever finds the mutex free and okToSend true is the first to report.
LEMMA NothingSent ==
    ASSUME IInv, Free, okToSend
    PROVE  terminal = <<>>
BY DEF IInv, ReportsMatch, Free

-----------------------------------------------------------------------------
(* One lemma per action. *)

\* Run starts its goroutines.
LEMMA RunStartPreserves ==
    ASSUME IInv, RunStart
    PROVE  IInv'
<1>1. TypeOK'
    BY DEF IInv, TypeOK, Threads, Locations, Sending, RunStart, Goto, Free, jobVars,
       contexts, logVars
<1>2. MutexHeld'
    BY DEF IInv, TypeOK, MutexHeld, Threads, Sending, RunStart, Goto, Free, jobVars,
       contexts, logVars
<1>3. ReportsMatch'
    BY DEF IInv, TypeOK, MutexHeld, ReportsMatch, Threads, Sending, RunStart, Goto, Free,
       jobVars, contexts, logVars
<1>4. OneReport'
    BY DEF IInv, MutexHeld, ReportsMatch, OneReport, Threads, Sending, RunStart, Goto, Free,
       jobVars, contexts, logVars
<1>5. TimerExists'
    BY DEF IInv, TypeOK, TimerExists, RunStart, Goto, Free, jobVars, contexts, logVars
<1> QED
    BY <1>1, <1>2, <1>3, <1>4, <1>5 DEF IInv

\* Run wakes up.
LEMMA RunWakePreserves ==
    ASSUME IInv, RunWake
    PROVE  IInv'
<1>0. IF okToSend
      THEN /\ terminal' = <<IF failedJob THEN "fail" ELSE "complete">>
           /\ mutex' = "run"
           /\ pc' = [pc EXCEPT !["run"] = IF failedJob THEN "fail" ELSE "complete"]
           /\ UNCHANGED contexts
      ELSE /\ pc' = [pc EXCEPT !["run"] = "returned"]
           /\ Stop
           /\ UNCHANGED <<mutex, terminal>>
    BY NothingSent, FirstReport DEF RunWake, SendTerminal, Goto
<1>1. TypeOK'
    BY <1>0, ReportTypes DEF IInv, TypeOK, Threads, Locations, Sending, RunWake, Stop,
       jobVars, contexts, logVars
<1>2. MutexHeld'
    <2>1. CASE okToSend
        BY <1>0, <2>1 DEF IInv, TypeOK, MutexHeld, Threads, Sending, RunWake, Free
    <2>2. CASE ~okToSend
        BY <1>0, <2>2 DEF IInv, TypeOK, MutexHeld, Threads, Sending, RunWake, Free
    <2> QED
        BY <2>1, <2>2
<1>3. ReportsMatch'
    <2>1. CASE okToSend
        BY <1>0, <2>1 DEF IInv, TypeOK, MutexHeld, ReportsMatch, Threads, Sending, RunWake, Free
    <2>2. CASE ~okToSend
        BY <1>0, <2>2 DEF IInv, TypeOK, MutexHeld, ReportsMatch, Threads, Sending, RunWake, Free
    <2> QED
        BY <2>1, <2>2
<1>4. OneReport'
    BY <1>0 DEF IInv, OneReport, RunWake
<1>5. TimerExists'
    BY DEF IInv, TypeOK, TimerExists, RunWake, logVars
<1> QED
    BY <1>1, <1>2, <1>3, <1>4, <1>5 DEF IInv

\* Run returns.
LEMMA RunEndPreserves ==
    ASSUME IInv, pc["run"] \in {"fail", "complete"}, RunEnd
    PROVE  IInv'
<1>0. doneCloses + 1 \in Nat
    BY DEF IInv, TypeOK
<1>1. TypeOK'
    BY <1>0 DEF IInv, TypeOK, Threads, Locations, Sending, RunEnd, Stop, Goto, jobVars, logVars
<1>2. MutexHeld'
    BY DEF IInv, TypeOK, MutexHeld, Threads, Sending, RunEnd, Stop, Goto, Free, jobVars,
       contexts, logVars
<1>3. ReportsMatch'
    BY DEF IInv, TypeOK, MutexHeld, ReportsMatch, Threads, Sending, RunEnd, Stop, Goto,
       jobVars, logVars
<1>4. OneReport'
    BY DEF IInv, OneReport, RunEnd
<1>5. TimerExists'
    BY DEF IInv, TypeOK, TimerExists, RunEnd, logVars
<1> QED
    BY <1>1, <1>2, <1>3, <1>4, <1>5 DEF IInv

\* Run sends FailJob after CompleteJob.
LEMMA RunCompleteErrorPreserves ==
    ASSUME IInv, RunCompleteError
    PROVE  IInv'
<1>0. terminal' = <<"complete", "fail">>
    BY FailAfterComplete DEF IInv, ReportsMatch, RunCompleteError, SendTerminal
<1>1. TypeOK'
    BY <1>0, ReportTypes DEF IInv, TypeOK, Threads, Locations, Sending, RunCompleteError,
       SendTerminal, Goto, jobVars, contexts, logVars
<1>2. MutexHeld'
    BY DEF IInv, TypeOK, MutexHeld, Threads, Sending, RunCompleteError, SendTerminal, Goto,
       Free, jobVars, contexts, logVars
<1>3. ReportsMatch'
    BY <1>0 DEF IInv, TypeOK, MutexHeld, ReportsMatch, Threads, Sending, RunCompleteError,
       SendTerminal, Goto, jobVars, logVars
<1>4. OneReport'
    BY <1>0 DEF IInv, OneReport, RunCompleteError
<1>5. TimerExists'
    BY DEF IInv, TypeOK, TimerExists, RunCompleteError, logVars
<1> QED
    BY <1>1, <1>2, <1>3, <1>4, <1>5 DEF IInv

\* The server answers Run.
LEMMA RunReplyPreserves ==
    ASSUME IInv, RunReply
    PROVE  IInv'
BY RunEndPreserves, RunCompleteErrorPreserves DEF RunReply

\* Run's call ends with its context.
LEMMA RunStoppedPreserves ==
    ASSUME IInv, RunStopped
    PROVE  IInv'
BY RunEndPreserves, RunCompleteErrorPreserves DEF RunStopped

\* The session is opened.
LEMMA WorkSessionPreserves ==
    ASSUME IInv, WorkSession
    PROVE  IInv'
<1>1. TypeOK'
    BY DEF IInv, TypeOK, Threads, Locations, Sending, WorkSession, Goto, Free, jobVars,
       contexts, logVars
<1>2. MutexHeld'
    BY DEF IInv, TypeOK, MutexHeld, Threads, Sending, WorkSession, Goto, Free, jobVars,
       contexts, logVars
<1>3. ReportsMatch'
    BY DEF IInv, TypeOK, MutexHeld, ReportsMatch, Threads, Sending, WorkSession, Goto, Free,
       jobVars, contexts, logVars
<1>4. OneReport'
    BY DEF IInv, MutexHeld, ReportsMatch, OneReport, Threads, Sending, WorkSession, Goto,
       Free, jobVars, contexts, logVars
<1>5. TimerExists'
    BY DEF IInv, TypeOK, TimerExists, WorkSession, Goto, Free, jobVars, contexts, logVars
<1> QED
    BY <1>1, <1>2, <1>3, <1>4, <1>5 DEF IInv

\* A line is queued.
LEMMA WorkLogPreserves ==
    ASSUME IInv, WorkLog
    PROVE  IInv'
<1>1. TypeOK'
    BY DEF IInv, TypeOK, Threads, Locations, Sending, WorkLog, QueueLog, Goto, Free, jobVars,
       contexts, logVars
<1>2. MutexHeld'
    BY DEF IInv, TypeOK, MutexHeld, Threads, Sending, WorkLog, QueueLog, Goto, Free, jobVars,
       contexts, logVars
<1>3. ReportsMatch'
    BY DEF IInv, TypeOK, MutexHeld, ReportsMatch, Threads, Sending, WorkLog, QueueLog, Goto,
       Free, jobVars, contexts, logVars
<1>4. OneReport'
    BY DEF IInv, MutexHeld, ReportsMatch, OneReport, Threads, Sending, WorkLog, QueueLog,
       Goto, Free, jobVars, contexts, logVars
<1>5. TimerExists'
    BY DEF IInv, TypeOK, TimerExists, WorkLog, QueueLog, Goto, Free, jobVars, contexts, logVars
<1> QED
    BY <1>1, <1>2, <1>3, <1>4, <1>5 DEF IInv

\* The template import sends an update.
LEMMA WorkUpdatePreserves ==
    ASSUME IInv, WorkUpdate
    PROVE  IInv'
<1>1. TypeOK'
    BY DEF IInv, TypeOK, Threads, Locations, Sending, WorkUpdate, Update, Goto, Free,
       jobVars, contexts, logVars
<1>2. MutexHeld'
    BY DEF IInv, TypeOK, MutexHeld, Threads, Sending, WorkUpdate, Update, Goto, Free,
       jobVars, contexts, logVars
<1>3. ReportsMatch'
    BY DEF IInv, TypeOK, MutexHeld, ReportsMatch, Threads, Sending, WorkUpdate, Update, Goto,
       Free, jobVars, contexts, logVars
<1>4. OneReport'
    BY DEF IInv, MutexHeld, ReportsMatch, OneReport, Threads, Sending, WorkUpdate, Update,
       Goto, Free, jobVars, contexts, logVars
<1>5. TimerExists'
    BY DEF IInv, TypeOK, TimerExists, WorkUpdate, Update, Goto, Free, jobVars, contexts, logVars
<1> QED
    BY <1>1, <1>2, <1>3, <1>4, <1>5 DEF IInv

\* It is skipped.
LEMMA WorkSkippedPreserves ==
    ASSUME IInv, WorkSkipped
    PROVE  IInv'
<1>1. TypeOK'
    BY DEF IInv, TypeOK, Threads, Locations, Sending, WorkSkipped, Goto, Free, jobVars,
       contexts, logVars
<1>2. MutexHeld'
    BY DEF IInv, TypeOK, MutexHeld, Threads, Sending, WorkSkipped, Goto, Free, jobVars,
       contexts, logVars
<1>3. ReportsMatch'
    BY DEF IInv, TypeOK, MutexHeld, ReportsMatch, Threads, Sending, WorkSkipped, Goto, Free,
       jobVars, contexts, logVars
<1>4. OneReport'
    BY DEF IInv, MutexHeld, ReportsMatch, OneReport, Threads, Sending, WorkSkipped, Goto,
       Free, jobVars, contexts, logVars
<1>5. TimerExists'
    BY DEF IInv, TypeOK, TimerExists, WorkSkipped, Goto, Free, jobVars, contexts, logVars
<1> QED
    BY <1>1, <1>2, <1>3, <1>4, <1>5 DEF IInv

\* It is answered.
LEMMA WorkUpdateReplyPreserves ==
    ASSUME IInv, WorkUpdateReply
    PROVE  IInv'
<1>1. TypeOK'
    BY DEF IInv, TypeOK, Threads, Locations, Sending, WorkUpdateReply, UpdateReply, Goto,
       Free, jobVars, contexts, logVars
<1>2. MutexHeld'
    BY DEF IInv, TypeOK, MutexHeld, Threads, Sending, WorkUpdateReply, UpdateReply, Goto,
       Free, jobVars, contexts, logVars
<1>3. ReportsMatch'
    BY DEF IInv, TypeOK, MutexHeld, ReportsMatch, Threads, Sending, WorkUpdateReply,
       UpdateReply, Goto, Free, jobVars, contexts, logVars
<1>4. OneReport'
    BY DEF IInv, MutexHeld, ReportsMatch, OneReport, Threads, Sending, WorkUpdateReply,
       UpdateReply, Goto, Free, jobVars, contexts, logVars
<1>5. TimerExists'
    BY DEF IInv, TypeOK, TimerExists, WorkUpdateReply, UpdateReply, Goto, Free, jobVars,
       contexts, logVars
<1> QED
    BY <1>1, <1>2, <1>3, <1>4, <1>5 DEF IInv

\* do() returns.
LEMMA WorkDonePreserves ==
    ASSUME IInv, WorkDone
    PROVE  IInv'
<1>1. TypeOK'
    BY DEF IInv, TypeOK, Threads, Locations, Sending, WorkDone, Goto, Free, jobVars,
       contexts, logVars
<1>2. MutexHeld'
    BY DEF IInv, TypeOK, MutexHeld, Threads, Sending, WorkDone, Goto, Free, jobVars,
       contexts, logVars
<1>3. ReportsMatch'
    BY DEF IInv, TypeOK, MutexHeld, ReportsMatch, Threads, Sending, WorkDone, Goto, Free,
       jobVars, contexts, logVars
<1>4. OneReport'
    BY DEF IInv, MutexHeld, ReportsMatch, OneReport, Threads, Sending, WorkDone, Goto, Free,
       jobVars, contexts, logVars
<1>5. TimerExists'
    BY DEF IInv, TypeOK, TimerExists, WorkDone, Goto, Free, jobVars, contexts, logVars
<1> QED
    BY <1>1, <1>2, <1>3, <1>4, <1>5 DEF IInv

\* The cleanup is logged.
LEMMA WorkCleanPreserves ==
    ASSUME IInv, WorkClean
    PROVE  IInv'
<1>1. TypeOK'
    BY DEF IInv, TypeOK, Threads, Locations, Sending, WorkClean, QueueLog, Goto, Free,
       jobVars, contexts, logVars
<1>2. MutexHeld'
    BY DEF IInv, TypeOK, MutexHeld, Threads, Sending, WorkClean, QueueLog, Goto, Free,
       jobVars, contexts, logVars
<1>3. ReportsMatch'
    BY DEF IInv, TypeOK, MutexHeld, ReportsMatch, Threads, Sending, WorkClean, QueueLog,
       Goto, Free, jobVars, contexts, logVars
<1>4. OneReport'
    BY DEF IInv, MutexHeld, ReportsMatch, OneReport, Threads, Sending, WorkClean, QueueLog,
       Goto, Free, jobVars, contexts, logVars
<1>5. TimerExists'
    BY DEF IInv, TypeOK, TimerExists, WorkClean, QueueLog, Goto, Free, jobVars, contexts,
       logVars
<1> QED
    BY <1>1, <1>2, <1>3, <1>4, <1>5 DEF IInv

\* setFail and setComplete.
LEMMA WorkSetPreserves ==
    ASSUME IInv, WorkSet
    PROVE  IInv'
<1>1. TypeOK'
    BY DEF IInv, TypeOK, Threads, Locations, Sending, WorkSet, Goto, Free, jobVars, contexts,
       logVars
<1>2. MutexHeld'
    BY DEF IInv, TypeOK, MutexHeld, Threads, Sending, WorkSet, Goto, Free, jobVars, contexts,
       logVars
<1>3. ReportsMatch'
    BY DEF IInv, TypeOK, MutexHeld, ReportsMatch, Threads, Sending, WorkSet, Goto, Free,
       jobVars, contexts, logVars
<1>4. OneReport'
    BY DEF IInv, MutexHeld, ReportsMatch, OneReport, Threads, Sending, WorkSet, Goto, Free,
       jobVars, contexts, logVars
<1>5. TimerExists'
    BY DEF IInv, TypeOK, TimerExists, WorkSet, Goto, Free, jobVars, contexts, logVars
<1> QED
    BY <1>1, <1>2, <1>3, <1>4, <1>5 DEF IInv

\* A workspace build flushes in the middle: the lines are taken,
LEMMA WorkFlushPreserves ==
    ASSUME IInv, WorkFlush
    PROVE  IInv'
<1>1. TypeOK'
    BY DEF IInv, TypeOK, Threads, Locations, Sending, WorkFlush, TakeLogs, Goto, Free,
       jobVars, contexts, logVars
<1>2. MutexHeld'
    BY DEF IInv, TypeOK, MutexHeld, Threads, Sending, WorkFlush, TakeLogs, Goto, Free,
       jobVars, contexts, logVars
<1>3. ReportsMatch'
    BY DEF IInv, TypeOK, MutexHeld, ReportsMatch, Threads, Sending, WorkFlush, TakeLogs,
       Goto, Free, jobVars, contexts, logVars
<1>4. OneReport'
    BY DEF IInv, MutexHeld, ReportsMatch, OneReport, Threads, Sending, WorkFlush, TakeLogs,
       Goto, Free, jobVars, contexts, logVars
<1>5. TimerExists'
    BY DEF IInv, TypeOK, TimerExists, WorkFlush, TakeLogs, Goto, Free, jobVars, contexts,
       logVars
<1> QED
    BY <1>1, <1>2, <1>3, <1>4, <1>5 DEF IInv

\* they are sent,
LEMMA WorkFlushSendPreserves ==
    ASSUME IInv, WorkFlushSend
    PROVE  IInv'
<1>1. TypeOK'
    BY DEF IInv, TypeOK, Threads, Locations, Sending, WorkFlushSend, Update, Goto, Free,
       jobVars, contexts, logVars
<1>2. MutexHeld'
    BY DEF IInv, TypeOK, MutexHeld, Threads, Sending, WorkFlushSend, Update, Goto, Free,
       jobVars, contexts, logVars
<1>3. ReportsMatch'
    BY DEF IInv, TypeOK, MutexHeld, ReportsMatch, Threads, Sending, WorkFlushSend, Update,
       Goto, Free, jobVars, contexts, logVars
<1>4. OneReport'
    BY DEF IInv, MutexHeld, ReportsMatch, OneReport, Threads, Sending, WorkFlushSend, Update,
       Goto, Free, jobVars, contexts, logVars
<1>5. TimerExists'
    BY DEF IInv, TypeOK, TimerExists, WorkFlushSend, Update, Goto, Free, jobVars, contexts,
       logVars
<1> QED
    BY <1>1, <1>2, <1>3, <1>4, <1>5 DEF IInv

\* and the update is answered.
LEMMA WorkFlushReplyPreserves ==
    ASSUME IInv, WorkFlushReply
    PROVE  IInv'
<1>1. TypeOK'
    BY DEF IInv, TypeOK, Threads, Locations, Sending, WorkFlushReply, UpdateReply, Goto, Free,
       jobVars, contexts, logVars
<1>2. MutexHeld'
    BY DEF IInv, TypeOK, MutexHeld, Threads, Sending, WorkFlushReply, UpdateReply, Goto, Free,
       jobVars, contexts, logVars
<1>3. ReportsMatch'
    BY DEF IInv, TypeOK, MutexHeld, ReportsMatch, Threads, Sending, WorkFlushReply, UpdateReply,
       Goto, Free, jobVars, contexts, logVars
<1>4. OneReport'
    BY DEF IInv, MutexHeld, ReportsMatch, OneReport, Threads, Sending, WorkFlushReply, UpdateReply,
       Goto, Free, jobVars, contexts, logVars
<1>5. TimerExists'
    BY DEF IInv, TypeOK, TimerExists, WorkFlushReply, UpdateReply, Goto, Free, jobVars, contexts,
       logVars
<1> QED
    BY <1>1, <1>2, <1>3, <1>4, <1>5 DEF IInv

\* A flush takes the lines.
LEMMA FlushTakePreserves ==
    ASSUME IInv, NEW t \in {"work"} \cup Flushers, FlushTake(t)
    PROVE  IInv'
<1>1. TypeOK'
    BY DEF IInv, TypeOK, Threads, Locations, Sending, FlushTake, TakeLogs, Goto, Free, jobVars,
       contexts, logVars
<1>2. MutexHeld'
    BY DEF IInv, TypeOK, MutexHeld, Threads, Sending, FlushTake, TakeLogs, Goto, Free, jobVars,
       contexts, logVars
<1>3. ReportsMatch'
    BY DEF IInv, TypeOK, MutexHeld, ReportsMatch, Threads, Sending, FlushTake, TakeLogs,
       Goto, Free, jobVars, contexts, logVars
<1>4. OneReport'
    BY DEF IInv, MutexHeld, ReportsMatch, OneReport, Threads, Sending, FlushTake, TakeLogs,
       Goto, Free, jobVars, contexts, logVars
<1>5. TimerExists'
    BY DEF IInv, TypeOK, TimerExists, FlushTake, TakeLogs, Goto, Free, jobVars, contexts, logVars
<1> QED
    BY <1>1, <1>2, <1>3, <1>4, <1>5 DEF IInv

\* A flush sends them.
LEMMA FlushSendPreserves ==
    ASSUME IInv, NEW t \in {"work"} \cup Flushers, NEW l \in {"setting", "idle"}, FlushSend(t, l)
    PROVE  IInv'
<1>1. TypeOK'
    BY DEF IInv, TypeOK, Threads, Locations, Sending, FlushSend, Update, Goto, Free, jobVars,
       contexts, logVars
<1>2. MutexHeld'
    BY DEF IInv, TypeOK, MutexHeld, Threads, Sending, FlushSend, Update, Goto, Free, jobVars,
       contexts, logVars
<1>3. ReportsMatch'
    BY DEF IInv, TypeOK, MutexHeld, ReportsMatch, Threads, Sending, FlushSend, Update, Goto,
       Free, jobVars, contexts, logVars
<1>4. OneReport'
    BY DEF IInv, MutexHeld, ReportsMatch, OneReport, Threads, Sending, FlushSend, Update,
       Goto, Free, jobVars, contexts, logVars
<1>5. TimerExists'
    BY DEF IInv, TypeOK, TimerExists, FlushSend, Update, Goto, Free, jobVars, contexts, logVars
<1> QED
    BY <1>1, <1>2, <1>3, <1>4, <1>5 DEF IInv

\* A flush is answered.
LEMMA FlushReplyPreserves ==
    ASSUME IInv, NEW t \in {"work"} \cup Flushers, NEW l \in {"setting", "idle"}, FlushReply(t, l)
    PROVE  IInv'
<1>1. TypeOK'
    BY DEF IInv, TypeOK, Threads, Locations, Sending, FlushReply, UpdateReply, Goto, Free,
       jobVars, contexts, logVars
<1>2. MutexHeld'
    BY DEF IInv, TypeOK, MutexHeld, Threads, Sending, FlushReply, UpdateReply, Goto, Free,
       jobVars, contexts, logVars
<1>3. ReportsMatch'
    BY DEF IInv, TypeOK, MutexHeld, ReportsMatch, Threads, Sending, FlushReply, UpdateReply,
       Goto, Free, jobVars, contexts, logVars
<1>4. OneReport'
    BY DEF IInv, MutexHeld, ReportsMatch, OneReport, Threads, Sending, FlushReply,
       UpdateReply, Goto, Free, jobVars, contexts, logVars
<1>5. TimerExists'
    BY DEF IInv, TypeOK, TimerExists, FlushReply, UpdateReply, Goto, Free, jobVars, contexts,
       logVars
<1> QED
    BY <1>1, <1>2, <1>3, <1>4, <1>5 DEF IInv

\* The log timer fires.
LEMMA TimerFiresPreserves ==
    ASSUME IInv, NEW t \in Flushers, TimerFires(t)
    PROVE  IInv'
<1>1. TypeOK'
    BY DEF IInv, TypeOK, Threads, Locations, Sending, TimerFires, Goto, Free, jobVars,
       contexts, logVars
<1>2. MutexHeld'
    BY DEF IInv, TypeOK, MutexHeld, Threads, Sending, TimerFires, Goto, Free, jobVars,
       contexts, logVars
<1>3. ReportsMatch'
    BY DEF IInv, TypeOK, MutexHeld, ReportsMatch, Threads, Sending, TimerFires, Goto, Free,
       jobVars, contexts, logVars
<1>4. OneReport'
    BY DEF IInv, MutexHeld, ReportsMatch, OneReport, Threads, Sending, TimerFires, Goto,
       Free, jobVars, contexts, logVars
<1>5. TimerExists'
    BY DEF IInv, TypeOK, TimerExists, TimerFires, Goto, Free, jobVars, contexts, logVars
<1> QED
    BY <1>1, <1>2, <1>3, <1>4, <1>5 DEF IInv

\* The heartbeat ends.
LEMMA BeatCanceledPreserves ==
    ASSUME IInv, BeatCanceled
    PROVE  IInv'
<1>1. TypeOK'
    BY DEF IInv, TypeOK, Threads, Locations, Sending, BeatCanceled, Goto, Free, jobVars,
       contexts, logVars
<1>2. MutexHeld'
    BY DEF IInv, TypeOK, MutexHeld, Threads, Sending, BeatCanceled, Goto, Free, jobVars,
       contexts, logVars
<1>3. ReportsMatch'
    BY DEF IInv, TypeOK, MutexHeld, ReportsMatch, Threads, Sending, BeatCanceled, Goto, Free,
       jobVars, contexts, logVars
<1>4. OneReport'
    BY DEF IInv, MutexHeld, ReportsMatch, OneReport, Threads, Sending, BeatCanceled, Goto,
       Free, jobVars, contexts, logVars
<1>5. TimerExists'
    BY DEF IInv, TypeOK, TimerExists, BeatCanceled, Goto, Free, jobVars, contexts, logVars
<1> QED
    BY <1>1, <1>2, <1>3, <1>4, <1>5 DEF IInv

\* The heartbeat ticks.
LEMMA BeatTickPreserves ==
    ASSUME IInv, BeatTick
    PROVE  IInv'
<1>1. TypeOK'
    BY DEF IInv, TypeOK, Threads, Locations, Sending, BeatTick, Goto, Free, jobVars,
       contexts, logVars
<1>2. MutexHeld'
    BY DEF IInv, TypeOK, MutexHeld, Threads, Sending, BeatTick, Goto, Free, jobVars,
       contexts, logVars
<1>3. ReportsMatch'
    BY DEF IInv, TypeOK, MutexHeld, ReportsMatch, Threads, Sending, BeatTick, Goto, Free,
       jobVars, contexts, logVars
<1>4. OneReport'
    BY DEF IInv, MutexHeld, ReportsMatch, OneReport, Threads, Sending, BeatTick, Goto, Free,
       jobVars, contexts, logVars
<1>5. TimerExists'
    BY DEF IInv, TypeOK, TimerExists, BeatTick, Goto, Free, jobVars, contexts, logVars
<1> QED
    BY <1>1, <1>2, <1>3, <1>4, <1>5 DEF IInv

\* The heartbeat is sent.
LEMMA BeatSendPreserves ==
    ASSUME IInv, BeatSend
    PROVE  IInv'
<1>1. TypeOK'
    BY DEF IInv, TypeOK, Threads, Locations, Sending, BeatSend, Update, Goto, Free, jobVars,
       contexts, logVars
<1>2. MutexHeld'
    BY DEF IInv, TypeOK, MutexHeld, Threads, Sending, BeatSend, Update, Goto, Free, jobVars,
       contexts, logVars
<1>3. ReportsMatch'
    BY DEF IInv, TypeOK, MutexHeld, ReportsMatch, Threads, Sending, BeatSend, Update, Goto,
       Free, jobVars, contexts, logVars
<1>4. OneReport'
    BY DEF IInv, MutexHeld, ReportsMatch, OneReport, Threads, Sending, BeatSend, Update,
       Goto, Free, jobVars, contexts, logVars
<1>5. TimerExists'
    BY DEF IInv, TypeOK, TimerExists, BeatSend, Update, Goto, Free, jobVars, contexts, logVars
<1> QED
    BY <1>1, <1>2, <1>3, <1>4, <1>5 DEF IInv

\* The heartbeat is answered.
LEMMA BeatReplyPreserves ==
    ASSUME IInv, BeatReply
    PROVE  IInv'
<1>1. TypeOK'
    BY DEF IInv, TypeOK, Threads, Locations, Sending, BeatReply, UpdateReply, Goto, Free,
       jobVars, contexts, logVars
<1>2. MutexHeld'
    BY DEF IInv, TypeOK, MutexHeld, Threads, Sending, BeatReply, UpdateReply, Goto, Free,
       jobVars, contexts, logVars
<1>3. ReportsMatch'
    BY DEF IInv, TypeOK, MutexHeld, ReportsMatch, Threads, Sending, BeatReply, UpdateReply,
       Goto, Free, jobVars, contexts, logVars
<1>4. OneReport'
    BY DEF IInv, MutexHeld, ReportsMatch, OneReport, Threads, Sending, BeatReply,
       UpdateReply, Goto, Free, jobVars, contexts, logVars
<1>5. TimerExists'
    BY DEF IInv, TypeOK, TimerExists, BeatReply, UpdateReply, Goto, Free, jobVars, contexts,
       logVars
<1> QED
    BY <1>1, <1>2, <1>3, <1>4, <1>5 DEF IInv

\* The cancellation times out.
LEMMA ForceCancelPreserves ==
    ASSUME IInv, ForceCancel
    PROVE  IInv'
<1>1. TypeOK'
    BY DEF IInv, TypeOK, Threads, Locations, Sending, ForceCancel, Goto, Free, jobVars,
       contexts, logVars
<1>2. MutexHeld'
    BY DEF IInv, TypeOK, MutexHeld, Threads, Sending, ForceCancel, Goto, Free, jobVars,
       contexts, logVars
<1>3. ReportsMatch'
    BY DEF IInv, TypeOK, MutexHeld, ReportsMatch, Threads, Sending, ForceCancel, Goto, Free,
       jobVars, contexts, logVars
<1>4. OneReport'
    BY DEF IInv, MutexHeld, ReportsMatch, OneReport, Threads, Sending, ForceCancel, Goto,
       Free, jobVars, contexts, logVars
<1>5. TimerExists'
    BY DEF IInv, TypeOK, TimerExists, ForceCancel, Goto, Free, jobVars, contexts, logVars
<1> QED
    BY <1>1, <1>2, <1>3, <1>4, <1>5 DEF IInv

\* The canceled job is done.
LEMMA BeatDonePreserves ==
    ASSUME IInv, BeatDone
    PROVE  IInv'
<1>1. TypeOK'
    BY DEF IInv, TypeOK, Threads, Locations, Sending, BeatDone, Goto, Free, jobVars,
       contexts, logVars
<1>2. MutexHeld'
    BY DEF IInv, TypeOK, MutexHeld, Threads, Sending, BeatDone, Goto, Free, jobVars,
       contexts, logVars
<1>3. ReportsMatch'
    BY DEF IInv, TypeOK, MutexHeld, ReportsMatch, Threads, Sending, BeatDone, Goto, Free,
       jobVars, contexts, logVars
<1>4. OneReport'
    BY DEF IInv, MutexHeld, ReportsMatch, OneReport, Threads, Sending, BeatDone, Goto, Free,
       jobVars, contexts, logVars
<1>5. TimerExists'
    BY DEF IInv, TypeOK, TimerExists, BeatDone, Goto, Free, jobVars, contexts, logVars
<1> QED
    BY <1>1, <1>2, <1>3, <1>4, <1>5 DEF IInv

\* Fail, up to its FailJob call.
LEMMA FailBeginPreserves ==
    ASSUME IInv, NEW t \in {"beat", "close"}, NEW l \in {"ended", "cancel"}, FailBegin(t, l)
    PROVE  IInv'
<1>0. IF okToSend
      THEN /\ terminal' = <<"fail">>
           /\ mutex' = t
           /\ pc' = [pc EXCEPT ![t] = "sendFail"]
           /\ canceled' = TRUE /\ failedJob' = TRUE
      ELSE /\ pc' = [pc EXCEPT ![t] = l]
           /\ UNCHANGED <<mutex, terminal, canceled, failedJob>>
    BY NothingSent, FirstReport DEF FailBegin, SendTerminal, Goto
<1>1. TypeOK'
    BY <1>0, ReportTypes DEF IInv, TypeOK, Threads, Locations, Sending, FailBegin, logVars
<1>2. MutexHeld'
    BY <1>0 DEF IInv, TypeOK, MutexHeld, Threads, Sending, FailBegin, Free
<1>3. ReportsMatch'
    <2>1. CASE okToSend
        BY <1>0, <2>1 DEF IInv, TypeOK, MutexHeld, ReportsMatch, Threads, Sending, FailBegin,
           Free
    <2>2. CASE ~okToSend
        BY <1>0, <2>2 DEF IInv, TypeOK, MutexHeld, ReportsMatch, Threads, Sending, FailBegin,
           Free
    <2> QED
        BY <2>1, <2>2
<1>4. OneReport'
    BY <1>0 DEF IInv, OneReport, FailBegin
<1>5. TimerExists'
    BY DEF IInv, TypeOK, TimerExists, FailBegin, logVars
<1> QED
    BY <1>1, <1>2, <1>3, <1>4, <1>5 DEF IInv

\* Fail, after it.
LEMMA FailEndPreserves ==
    ASSUME IInv, NEW t \in {"beat", "close"}, NEW l \in {"ended", "cancel", "force"}, FailEnd(t, l)
    PROVE  IInv'
<1>0. doneCloses + 1 \in Nat
    BY DEF IInv, TypeOK
<1>1. TypeOK'
    BY <1>0 DEF IInv, TypeOK, Threads, Locations, Sending, FailEnd, Stop, Goto, jobVars, logVars
<1>2. MutexHeld'
    BY DEF IInv, TypeOK, MutexHeld, Threads, Sending, FailEnd, Stop, Goto, Free, jobVars,
       contexts, logVars
<1>3. ReportsMatch'
    BY DEF IInv, TypeOK, MutexHeld, ReportsMatch, Threads, Sending, FailEnd, Stop, Goto,
       Free, jobVars, contexts, logVars
<1>4. OneReport'
    BY DEF IInv, MutexHeld, ReportsMatch, OneReport, Threads, Sending, FailEnd, Stop, Goto,
       Free, jobVars, contexts, logVars
<1>5. TimerExists'
    BY DEF IInv, TypeOK, TimerExists, FailEnd, Stop, Goto, Free, jobVars, contexts, logVars
<1> QED
    BY <1>1, <1>2, <1>3, <1>4, <1>5 DEF IInv

\* ForceStop.
LEMMA ForceStopPreserves ==
    ASSUME IInv, ForceStop("close", "cancel")
    PROVE  IInv'
<1>0. doneCloses' \in Nat
    BY DEF IInv, TypeOK, ForceStop
<1>1. TypeOK'
    BY <1>0 DEF IInv, TypeOK, Threads, Locations, Sending, ForceStop, Stop, Goto, logVars
<1>2. MutexHeld'
    BY DEF IInv, TypeOK, MutexHeld, Threads, Sending, ForceStop, Stop, Goto, Free, jobVars,
       contexts, logVars
<1>3. ReportsMatch'
    BY DEF IInv, TypeOK, MutexHeld, ReportsMatch, Threads, Sending, ForceStop, Stop, Goto,
       Free, jobVars, contexts, logVars
<1>4. OneReport'
    BY DEF IInv, MutexHeld, ReportsMatch, OneReport, Threads, Sending, ForceStop, Stop, Goto,
       Free, jobVars, contexts, logVars
<1>5. TimerExists'
    BY DEF IInv, TypeOK, TimerExists, ForceStop, Stop, Goto, Free, jobVars, contexts, logVars
<1> QED
    BY <1>1, <1>2, <1>3, <1>4, <1>5 DEF IInv

\* Shutdown.
LEMMA ShutdownPreserves ==
    ASSUME IInv, Shutdown
    PROVE  IInv'
<1>1. TypeOK'
    BY DEF IInv, TypeOK, Threads, Locations, Sending, Shutdown, Goto, Free, jobVars,
       contexts, logVars
<1>2. MutexHeld'
    BY DEF IInv, TypeOK, MutexHeld, Threads, Sending, Shutdown, Goto, Free, jobVars,
       contexts, logVars
<1>3. ReportsMatch'
    BY DEF IInv, TypeOK, MutexHeld, ReportsMatch, Threads, Sending, Shutdown, Goto, Free,
       jobVars, contexts, logVars
<1>4. OneReport'
    BY DEF IInv, MutexHeld, ReportsMatch, OneReport, Threads, Sending, Shutdown, Goto, Free,
       jobVars, contexts, logVars
<1>5. TimerExists'
    BY DEF IInv, TypeOK, TimerExists, Shutdown, Goto, Free, jobVars, contexts, logVars
<1> QED
    BY <1>1, <1>2, <1>3, <1>4, <1>5 DEF IInv

\* Close begins.
LEMMA CloseBeginPreserves ==
    ASSUME IInv, CloseBegin
    PROVE  IInv'
<1>1. TypeOK'
    BY DEF IInv, TypeOK, Threads, Locations, Sending, CloseBegin, Goto, Free, jobVars,
       contexts, logVars
<1>2. MutexHeld'
    BY DEF IInv, TypeOK, MutexHeld, Threads, Sending, CloseBegin, Goto, Free, jobVars,
       contexts, logVars
<1>3. ReportsMatch'
    BY DEF IInv, TypeOK, MutexHeld, ReportsMatch, Threads, Sending, CloseBegin, Goto, Free,
       jobVars, contexts, logVars
<1>4. OneReport'
    BY DEF IInv, MutexHeld, ReportsMatch, OneReport, Threads, Sending, CloseBegin, Goto,
       Free, jobVars, contexts, logVars
<1>5. TimerExists'
    BY DEF IInv, TypeOK, TimerExists, CloseBegin, Goto, Free, jobVars, contexts, logVars
<1> QED
    BY <1>1, <1>2, <1>3, <1>4, <1>5 DEF IInv

\* Close cancels the context.
LEMMA CloseCancelPreserves ==
    ASSUME IInv, CloseCancel
    PROVE  IInv'
<1>1. TypeOK'
    BY DEF IInv, TypeOK, Threads, Locations, Sending, CloseCancel, Stop, Goto, Free, jobVars,
       contexts, logVars
<1>2. MutexHeld'
    BY DEF IInv, TypeOK, MutexHeld, Threads, Sending, CloseCancel, Stop, Goto, Free, jobVars,
       contexts, logVars
<1>3. ReportsMatch'
    BY DEF IInv, TypeOK, MutexHeld, ReportsMatch, Threads, Sending, CloseCancel, Stop, Goto,
       Free, jobVars, contexts, logVars
<1>4. OneReport'
    BY DEF IInv, MutexHeld, ReportsMatch, OneReport, Threads, Sending, CloseCancel, Stop,
       Goto, Free, jobVars, contexts, logVars
<1>5. TimerExists'
    BY DEF IInv, TypeOK, TimerExists, CloseCancel, Stop, Goto, Free, jobVars, contexts, logVars
<1> QED
    BY <1>1, <1>2, <1>3, <1>4, <1>5 DEF IInv

\* A step in which nothing changes.
LEMMA StutterPreserves ==
    ASSUME IInv, UNCHANGED vars
    PROVE  IInv'
BY DEF vars, jobVars, contexts, logVars, IInv, TypeOK, MutexHeld, ReportsMatch, OneReport,
   TimerExists

-----------------------------------------------------------------------------
(* The invariant. *)

\* A new runner satisfies the invariant.
LEMMA InitEstablishes ==
    ASSUME Init
    PROVE  IInv
<1>1. TypeOK
    BY ReportTypes DEF Init, TypeOK, Threads, Locations, Sending
<1>2. MutexHeld
    BY DEF Init, MutexHeld, Threads, Sending
<1>3. ReportsMatch
    BY DEF Init, ReportsMatch, Threads
<1>4. OneReport /\ TimerExists
    BY DEF Init, OneReport, TimerExists
<1> QED
    BY <1>1, <1>2, <1>3, <1>4 DEF IInv

\* Every step of every goroutine preserves the invariant.
LEMMA NextPreserves ==
    ASSUME IInv, [Next]_vars
    PROVE  IInv'
<1>1. CASE RunStep
    BY <1>1, RunStartPreserves, RunWakePreserves, RunReplyPreserves,
       RunStoppedPreserves DEF RunStep
<1>2. CASE WorkStep
    <2>1. CASE WorkSession \/ WorkLog \/ WorkUpdate \/ WorkSkipped \/ WorkUpdateReply \/ WorkDone
        BY <2>1, WorkSessionPreserves, WorkLogPreserves, WorkUpdatePreserves,
           WorkSkippedPreserves, WorkUpdateReplyPreserves, WorkDonePreserves
    <2>2. CASE WorkClean \/ WorkSet
        BY <2>2, WorkCleanPreserves, WorkSetPreserves
    <2>3. CASE FlushTake("work") \/ FlushSend("work", "setting") \/ FlushReply("work", "setting")
        BY <2>3, FlushTakePreserves, FlushSendPreserves, FlushReplyPreserves DEF Threads
    <2>4. CASE WorkFlush \/ WorkFlushSend \/ WorkFlushReply
        BY <2>4, WorkFlushPreserves, WorkFlushSendPreserves, WorkFlushReplyPreserves
    <2> QED
        BY <1>2, <2>1, <2>2, <2>3, <2>4 DEF WorkStep
<1>3. CASE BeatStep
    <2>1. CASE BeatCanceled \/ BeatTick \/ BeatSend \/ BeatReply \/ ForceCancel \/ BeatDone
        BY <2>1, BeatCanceledPreserves, BeatTickPreserves, BeatSendPreserves,
           BeatReplyPreserves,
           ForceCancelPreserves, BeatDonePreserves
    <2>2. CASE BeatFail \/ BeatFailReply
        BY <2>2, FailBeginPreserves, FailEndPreserves DEF BeatFail, BeatFailReply
    <2> QED
        BY <1>3, <2>1, <2>2 DEF BeatStep
<1>4. CASE CloseStep
    <2>1. CASE CloseBegin \/ CloseForce \/ CloseCancel
        BY <2>1, CloseBeginPreserves, ForceStopPreserves, CloseCancelPreserves DEF CloseForce
    <2>2. CASE CloseFail
        BY <2>2, FailBeginPreserves DEF CloseFail
    <2>3. CASE CloseFailReply
        <3>1. PICK l \in {"cancel", "force"} : FailEnd("close", l)
            BY <2>3 DEF CloseFailReply
        <3> QED
            BY <3>1, FailEndPreserves
    <2> QED
        BY <1>4, <2>1, <2>2, <2>3 DEF CloseStep
<1>5. CASE Shutdown
    BY <1>5, ShutdownPreserves
<1>6. CASE \E t \in Flushers : FlushStep(t)
    <2>1. PICK t \in Flushers : FlushStep(t)
        BY <1>6
    <2>2. t \in Threads
        BY DEF Threads
    <2> QED
        BY <2>1, <2>2, TimerFiresPreserves, FlushTakePreserves, FlushSendPreserves,
           FlushReplyPreserves DEF FlushStep
<1>7. CASE UNCHANGED vars
    BY <1>7, StutterPreserves
<1> QED
    BY <1>1, <1>2, <1>3, <1>4, <1>5, <1>6, <1>7 DEF Next

\* IInv, the conjunction of the types, who holds the mutex, and how okToSend, done
\* and the messages sent are related, holds in every state of the runner.
THEOREM RunnerInvariance == Spec => []IInv
BY InitEstablishes, NextPreserves, PTL DEF Spec

\* The runner's fields, contexts and goroutines keep their types.
THEOREM RunnerTypeCorrect == Spec => []TypeOK
<1>1. IInv => TypeOK
    BY DEF IInv
<1> QED
    BY <1>1, RunnerInvariance, PTL

\* Run, Fail and ForceStop between them close done at most once, so that close(done)
\* never panics.
THEOREM DoneClosesOnce == Spec => []DoneClosedOnce
<1>1. IInv => DoneClosedOnce
    BY DEF IInv, ReportsMatch, DoneClosedOnce
<1> QED
    BY <1>1, RunnerInvariance, PTL

\* Whatever ends the job, the server gets one terminal message, or a CompleteJob that
\* failed and a FailJob, and no UpdateJob after it.
THEOREM ReportsOnce == Spec => []OneReport
<1>1. IInv => OneReport
    BY DEF IInv
<1> QED
    BY <1>1, RunnerInvariance, PTL

-----------------------------------------------------------------------------
(* Refinement: each step of the runner is a step of JobReport, or none. *)

\* Most steps change nothing the server could notice.
LEMMA QuietSimulates ==
    ASSUME UNCHANGED <<mutex, okToSend, terminal, doneCloses>>
    PROVE  [Report!Next]_Report!vars
BY DEF Report!vars, ReportPhase

\* An update is begun, or skipped.
LEMMA UpdateSimulates ==
    ASSUME IInv, NEW t \in Threads, NEW l, NEW skipped, Update(t, l, skipped)
    PROVE  [Report!Next]_Report!vars
<1>1. CASE okToSend
    <2>1. terminal = <<>> /\ mutex = "none" /\ mutex' = t /\ t # "none"
        BY <1>1, NothingSent DEF Update, Free, Threads
    <2>2. UNCHANGED <<okToSend, terminal, doneCloses>>
        BY DEF Update
    <2>3. Report!BeginUpdate
        BY <1>1, <2>1, <2>2 DEF Report!BeginUpdate, ReportPhase
    <2> QED
        BY <2>3 DEF Report!Next
<1>2. CASE ~okToSend
    BY <1>2, QuietSimulates DEF Update
<1> QED
    BY <1>1, <1>2

\* An update is answered; a holder of the mutex that is not reporting updates.
LEMMA UpdateReplySimulates ==
    ASSUME IInv, NEW t \in Threads, NEW l,
           NEW from \in {"updating", "flushing", "syncing"}, UpdateReply(t, from, l)
    PROVE  [Report!Next]_Report!vars
<1>1. mutex = t /\ pc[mutex] = from /\ t # "none"
    BY DEF IInv, MutexHeld, Sending, UpdateReply, Threads
<1>2. mutex' = "none" /\ UNCHANGED <<okToSend, terminal, doneCloses>>
    BY DEF UpdateReply
<1>3. CASE okToSend
    <2>1. terminal = <<>>
        BY <1>1, <1>3 DEF IInv, ReportsMatch
    <2>2. Report!EndUpdate
        BY <1>1, <1>2, <1>3, <2>1 DEF Report!EndUpdate, ReportPhase
    <2> QED
        BY <2>2 DEF Report!Next
<1>4. CASE ~okToSend
    BY <1>2, <1>4 DEF Report!vars, ReportPhase
<1> QED
    BY <1>3, <1>4

\* Whoever holds the free mutex and may send begins the report.
LEMMA ReportSimulates ==
    ASSUME IInv, Free, okToSend, NEW kind \in {"fail", "complete"}, NEW t,
           SendTerminal(t, kind), UNCHANGED <<okToSend, doneCloses>>
    PROVE  [Report!Next]_Report!vars
<1>1. terminal = <<>> /\ terminal' = <<kind>> /\ mutex = "none"
    BY NothingSent, FirstReport DEF SendTerminal, Free
<1>2. terminal' # <<>>
    BY <1>1
<1>3. terminal' \in {<<"fail">>, <<"complete">>}
    BY <1>1
<1>4. Report!Report
    BY <1>1, <1>2, <1>3 DEF Report!Report, ReportPhase
<1> QED
    BY <1>4 DEF Report!Next

\* The report ends.
LEMMA FinishSimulates ==
    ASSUME okToSend, terminal # <<>>, okToSend' = FALSE, terminal' = terminal,
           doneCloses' = doneCloses + 1
    PROVE  [Report!Next]_Report!vars
<1>1. Report!Finish
    BY DEF Report!Finish, ReportPhase
<1> QED
    BY <1>1 DEF Report!Next

\* Run: it finds the job reported, begins the report, replaces it or ends it.
LEMMA RunSimulates ==
    ASSUME IInv, RunStep
    PROVE  [Report!Next]_Report!vars
<1>1. CASE RunStart
    BY <1>1, QuietSimulates DEF RunStart
<1>2. CASE RunWake
    <2>1. CASE okToSend
        <3>1. PICK kind \in {"fail", "complete"} : SendTerminal("run", kind)
            BY <1>2, <2>1 DEF RunWake
        <3> QED
            BY <1>2, <2>1, <3>1, ReportSimulates DEF RunWake
    <2>2. CASE ~okToSend
        BY <1>2, <2>2, QuietSimulates DEF RunWake
    <2> QED
        BY <2>1, <2>2
<1>3. CASE pc["run"] \in {"fail", "complete"} /\ RunEnd
    <2>1. okToSend /\ terminal # <<>>
        BY <1>3 DEF IInv, ReportsMatch
    <2> QED
        BY <1>3, <2>1, FinishSimulates DEF RunEnd
<1>4. CASE RunCompleteError
    <2>1. okToSend /\ terminal = <<"complete">>
        BY <1>4 DEF IInv, ReportsMatch, RunCompleteError
    <2>2. terminal' = <<"complete", "fail">>
        BY <1>4, <2>1, FailAfterComplete DEF RunCompleteError, SendTerminal
    <2>3. terminal # <<>> /\ terminal' # <<>>
        BY <2>1, <2>2
    <2>4. UNCHANGED <<okToSend, doneCloses>>
        BY <1>4 DEF RunCompleteError
    <2>5. Report!Replace
        BY <2>1, <2>2, <2>3, <2>4 DEF Report!Replace, ReportPhase
    <2> QED
        BY <2>5 DEF Report!Next
<1> QED
    BY <1>1, <1>2, <1>3, <1>4 DEF RunStep, RunReply, RunStopped

\* The work and the flushes: updates, and steps of their own.
LEMMA WorkSimulates ==
    ASSUME IInv, WorkStep
    PROVE  [Report!Next]_Report!vars
<1>0. "work" \in Threads
    BY DEF Threads
<1>1. CASE WorkSession \/ WorkLog \/ WorkSkipped \/ WorkDone \/ WorkClean \/ WorkSet
    BY <1>1, QuietSimulates
       DEF WorkSession, WorkLog, QueueLog, WorkSkipped, WorkDone, WorkClean, WorkSet
<1>2. CASE FlushTake("work") \/ WorkFlush
    BY <1>2, QuietSimulates DEF FlushTake, WorkFlush, TakeLogs
<1>3. CASE WorkUpdate \/ FlushSend("work", "setting") \/ WorkFlushSend
    BY <1>0, <1>3, UpdateSimulates DEF WorkUpdate, FlushSend, WorkFlushSend
<1>4. CASE WorkUpdateReply
    BY <1>0, <1>4, UpdateReplySimulates DEF WorkUpdateReply
<1>5. CASE FlushReply("work", "setting") \/ WorkFlushReply
    BY <1>0, <1>5, UpdateReplySimulates DEF FlushReply, WorkFlushReply
<1> QED
    BY <1>1, <1>2, <1>3, <1>4, <1>5 DEF WorkStep

\* Fail, by the heartbeat or by Close.
LEMMA FailSimulates ==
    ASSUME IInv, NEW t \in {"beat", "close"}, NEW l,
           FailBegin(t, l) \/ FailEnd(t, l)
    PROVE  [Report!Next]_Report!vars
<1>1. CASE FailBegin(t, l)
    <2>1. CASE okToSend
        BY <1>1, <2>1, ReportSimulates DEF FailBegin
    <2>2. CASE ~okToSend
        BY <1>1, <2>2, QuietSimulates DEF FailBegin
    <2> QED
        BY <2>1, <2>2
<1>2. CASE FailEnd(t, l)
    <2>1. okToSend /\ terminal = <<"fail">>
        BY <1>2 DEF IInv, ReportsMatch, FailEnd
    <2>2. terminal # <<>>
        BY <2>1
    <2> QED
        BY <1>2, <2>1, <2>2, FinishSimulates DEF FailEnd
<1> QED
    BY <1>1, <1>2

\* ForceStop: the job is given up without a report, unless it has ended already.
LEMMA ForceStopSimulates ==
    ASSUME IInv, NEW t, NEW l, ForceStop(t, l)
    PROVE  [Report!Next]_Report!vars
<1>0. mutex = "none" /\ UNCHANGED <<mutex, terminal>> /\ okToSend' = FALSE
    BY DEF ForceStop, Free
<1>1. CASE okToSend
    <2>1. terminal = <<>> /\ doneCloses' = doneCloses + 1
        BY <1>1, NothingSent DEF ForceStop
    <2>2. Report!Abandon
        BY <1>0, <1>1, <2>1 DEF Report!Abandon, ReportPhase
    <2> QED
        BY <2>2 DEF Report!Next
<1>2. CASE ~okToSend
    BY <1>0, <1>2 DEF ForceStop, Report!vars, ReportPhase
<1> QED
    BY <1>1, <1>2

\* The heartbeat.
LEMMA BeatSimulates ==
    ASSUME IInv, BeatStep
    PROVE  [Report!Next]_Report!vars
<1>0. "beat" \in Threads
    BY DEF Threads
<1>1. CASE BeatCanceled \/ BeatTick \/ ForceCancel \/ BeatDone
    BY <1>1, QuietSimulates DEF BeatCanceled, BeatTick, ForceCancel, BeatDone
<1>2. CASE BeatSend
    BY <1>0, <1>2, UpdateSimulates DEF BeatSend
<1>3. CASE BeatReply
    BY <1>0, <1>3, UpdateReplySimulates DEF BeatReply
<1>4. CASE BeatFail \/ BeatFailReply
    BY <1>4, FailSimulates DEF BeatFail, BeatFailReply
<1> QED
    BY <1>1, <1>2, <1>3, <1>4 DEF BeatStep

\* Close.
LEMMA CloseSimulates ==
    ASSUME IInv, CloseStep
    PROVE  [Report!Next]_Report!vars
<1>1. CASE CloseBegin \/ CloseCancel
    BY <1>1, QuietSimulates DEF CloseBegin, CloseCancel
<1>2. CASE CloseFail
    BY <1>2, FailSimulates DEF CloseFail
<1>3. CASE CloseFailReply
    <2>1. PICK l \in {"cancel", "force"} : FailEnd("close", l)
        BY <1>3 DEF CloseFailReply
    <2> QED
        BY <2>1, FailSimulates
<1>4. CASE CloseForce
    BY <1>4, ForceStopSimulates DEF CloseForce
<1> QED
    BY <1>1, <1>2, <1>3, <1>4 DEF CloseStep

\* A goroutine of the timer.
LEMMA FlushSimulates ==
    ASSUME IInv, NEW t \in Flushers, FlushStep(t)
    PROVE  [Report!Next]_Report!vars
<1>0. t \in Threads
    BY DEF Threads
<1>1. CASE TimerFires(t) \/ FlushTake(t)
    BY <1>1, QuietSimulates DEF TimerFires, FlushTake, TakeLogs
<1>2. CASE FlushSend(t, "idle")
    BY <1>0, <1>2, UpdateSimulates DEF FlushSend
<1>3. CASE FlushReply(t, "idle")
    BY <1>0, <1>3, UpdateReplySimulates DEF FlushReply
<1> QED
    BY <1>1, <1>2, <1>3 DEF FlushStep

\* The runner, with any number of flushing goroutines, implements JobReport: what the
\* server sees of a job is one sequence of updates that do not overlap, then at most one
\* report, and the job is done once.
THEOREM RunnerImplementsReport == Spec => RunnerReports
<1>1. Init => Report!Init
    BY DEF Init, Report!Init, ReportPhase
<1>2. IInv /\ [Next]_vars => [Report!Next]_Report!vars
    <2> SUFFICES ASSUME IInv, [Next]_vars
                 PROVE  [Report!Next]_Report!vars
        OBVIOUS
    <2>1. CASE RunStep \/ WorkStep \/ BeatStep \/ CloseStep
        BY <2>1, RunSimulates, WorkSimulates, BeatSimulates, CloseSimulates
    <2>2. CASE Shutdown
        BY <2>2, QuietSimulates DEF Shutdown
    <2>3. CASE \E t \in Flushers : FlushStep(t)
        BY <2>3, FlushSimulates
    <2>4. CASE UNCHANGED vars
        BY <2>4, QuietSimulates DEF vars
    <2> QED
        BY <2>1, <2>2, <2>3, <2>4 DEF Next
<1> QED
    BY <1>1, <1>2, RunnerInvariance, PTL DEF Spec, RunnerReports, Report!Spec
=============================================================================
