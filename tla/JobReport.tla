----------------------------- MODULE JobReport -----------------------------
(***************************************************************************)
(* What a runner promises about one job, whatever its goroutines do: calls *)
(* to the server do not overlap, updates are only sent while the job has   *)
(* no outcome, the outcome is one FailJob, one CompleteJob, or a failed    *)
(* CompleteJob and then a FailJob, and the job is done exactly once, with  *)
(* or without an outcome.                                                  *)
(***************************************************************************)
EXTENDS Naturals

VARIABLES
    phase,    \* "running", "reporting" or "ended"
    calling,  \* an update is under way
    outcome,  \* the outcomes sent so far
    done      \* how often the job was declared done

vars == <<phase, calling, outcome, done>>

Init ==
    /\ phase = "running"
    /\ calling = FALSE
    /\ outcome = <<>>
    /\ done = 0

\* An update is sent, and answered.
BeginUpdate ==
    /\ phase = "running" /\ ~calling
    /\ calling' = TRUE
    /\ UNCHANGED <<phase, outcome, done>>

EndUpdate ==
    /\ calling
    /\ calling' = FALSE
    /\ UNCHANGED <<phase, outcome, done>>

\* The outcome is sent.
Report ==
    /\ phase = "running" /\ ~calling
    /\ phase' = "reporting"
    /\ outcome' \in {<<"fail">>, <<"complete">>}
    /\ UNCHANGED <<calling, done>>

\* A CompleteJob that has failed is replaced by a FailJob.
Replace ==
    /\ phase = "reporting"
    /\ outcome = <<"complete">>
    /\ outcome' = <<"complete", "fail">>
    /\ UNCHANGED <<phase, calling, done>>

\* The report is answered, or given up.
Finish ==
    /\ phase = "reporting"
    /\ phase' = "ended"
    /\ done' = done + 1
    /\ UNCHANGED <<calling, outcome>>

\* The job is given up without a report.
Abandon ==
    /\ phase = "running" /\ ~calling
    /\ phase' = "ended"
    /\ done' = done + 1
    /\ UNCHANGED <<calling, outcome>>

Next == BeginUpdate \/ EndUpdate \/ Report \/ Replace \/ Finish \/ Abandon

Spec == Init /\ [][Next]_vars
=============================================================================
