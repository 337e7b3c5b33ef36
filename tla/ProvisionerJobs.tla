--------------------------- MODULE ProvisionerJobs ---------------------------
(***************************************************************************)
(* The life of a provisioner job as the database and its writers see it:   *)
(* build requests (wsbuilder), the acquisition of a job by a provisioner   *)
(* daemon and the daemon's RPCs (provisionerdserver), cancel requests      *)
(* (workspacebuilds.go, templateversions.go) and the hang detector         *)
(* (unhanger).  None of them holds a lock across its reads and writes, so  *)
(* every handler is split where it goes to the database.                   *)
(*                                                                         *)
(* A daemon is modelled by what it sends: it runs its job, may change      *)
(* infrastructure, and reports once, repeating the RPC when the connection *)
(* breaks.  Which daemon a job may go to is the subject of Acquirer.       *)
(***************************************************************************)
EXTENDS Naturals, FiniteSets

CONSTANTS
    Jobs,         \* job requests; a job's number is its created_at
    Kind,         \* of each job: "start" (or stop), "delete", "import", "dryrun"
    Workspaces,
    WorkspaceOf,  \* the workspace of each workspace-build job
    Daemons,      \* provisioner daemons
    Rpcs,         \* FailJob and CompleteJob requests, each sent once
    Cancels,      \* cancel requests
    None

ASSUME JobsAssumption ==
    /\ Jobs \subseteq Nat
    /\ Kind \in [Jobs -> {"start", "delete", "import", "dryrun"}]
    /\ WorkspaceOf \in [Jobs -> Workspaces]
ASSUME NoneAssumption ==
    /\ None \notin Jobs \cup Daemons \cup Rpcs
    /\ \A S \in SUBSET Jobs : None # S

VARIABLES
    \* provisioner_jobs: the jobs whose row exists, or has the column set
    inserted, started, canceled, completed, errored,
    stale,        \* updated_at is older than HungJobDuration
    worker,       \* worker_id
    \* workspace_builds, workspace_resources and workspaces
    number,       \* build_number; 0 for a job that is no build, or not yet
    state,        \* provisioner_state: the jobs whose effects it records
    resources,    \* how often the job's resources have been inserted
    deleted,      \* workspaces marked deleted
    \* handlers between a database read and the write that follows it
    build,        \* build requests: [pc, number, state]
    cancel,       \* cancel requests: [pc, job, running]
    rpc,          \* FailJob and CompleteJob: [pc, kind, job, daemon, state]
    det,          \* unhangJob transactions: [pc, copy]
    \* provisioner daemons
    phase, job, base, current,
    work,         \* <<d, j>>: the provisioner of daemon d runs for job j
    \* history
    ended,        \* jobs whose completed_at has been set at least once
    hung          \* jobs the hang detector has terminated

row == <<inserted, started, canceled, completed, errored, stale, worker, ended>>
data == <<number, state, resources, deleted>>
daemon == <<phase, job, base, current>>
vars == <<row, data, build, cancel, rpc, det, daemon, hung, work>>

-----------------------------------------------------------------------------
IsBuild(j) == Kind[j] \in {"start", "delete"}

\* The generated column job_status.
JobStatus(j) ==
    IF j \in errored THEN "failed"
    ELSE IF j \in completed
         THEN IF j \in canceled THEN "canceled" ELSE "succeeded"
         ELSE IF j \in canceled THEN "canceling"
              ELSE IF j \in started THEN "running" ELSE "pending"

\* Mutant: a running job is forgotten.
ActiveNotRunning(j) == JobStatus(j) \in {"pending", "canceling"}

\* ProvisionerJobStatus.Active
Active(j) == JobStatus(j) \in {"pending", "running", "canceling"}

Builds(w) == {j \in inserted : IsBuild(j) /\ WorkspaceOf[j] = w}

\* GetLatestWorkspaceBuildByWorkspaceID: the greatest build number.
IsLatest(j, w) == j \in Builds(w) /\ \A i \in Builds(w) : number[i] <= number[j]

IsPrevious(i, j) ==
    i \in Builds(WorkspaceOf[j]) /\ number[i] + 1 = number[j]

\* The hang detector's transaction has updated the row and not yet committed:
\* another UPDATE of the row waits.
RowFree(j) == det[j].pc # "locked"

\* Mutant: the error is not stored.
WriteCompleteNoError(j, withError) ==
    /\ completed' = completed \cup {j}
    /\ errored' = errored \ {j}
    /\ stale' = stale \ {j}
    /\ ended' = ended \cup {j}
    /\ UNCHANGED <<inserted, started, canceled, worker>>

\* UpdateProvisionerJobWithCompleteByID, with or without an error.
WriteComplete(j, withError) ==
    /\ completed' = completed \cup {j}
    /\ errored' = IF withError THEN errored \cup {j} ELSE errored \ {j}
    /\ stale' = stale \ {j}
    /\ ended' = ended \cup {j}
    /\ UNCHANGED <<inserted, started, canceled, worker>>

-----------------------------------------------------------------------------
Init ==
    /\ inserted = {} /\ started = {} /\ canceled = {} /\ completed = {}
    /\ errored = {} /\ stale = {} /\ ended = {} /\ hung = {} /\ deleted = {}
    /\ work = {}
    /\ worker = [j \in Jobs |-> None]
    /\ number = [j \in Jobs |-> 0]
    /\ state = [j \in Jobs |-> {}]
    /\ resources = [j \in Jobs |-> 0]
    /\ build = [j \in Jobs |-> [pc |-> "idle", number |-> 0, state |-> {}]]
    /\ cancel = [c \in Cancels |-> [pc |-> "idle", job |-> None, running |-> FALSE]]
    /\ rpc = [r \in Rpcs |-> [pc |-> "unused", kind |-> "fail", job |-> None,
                              daemon |-> None, state |-> None]]
    /\ det = [j \in Jobs |-> [pc |-> "idle", copy |-> None]]
    /\ phase = [d \in Daemons |-> "idle"]
    /\ job = [d \in Daemons |-> None]
    /\ base = [d \in Daemons |-> {}]
    /\ current = [d \in Daemons |-> None]

-----------------------------------------------------------------------------
(* New jobs. *)

\* Builder.Build starts its RepeatableRead transaction: everything is computed
\* from this snapshot.  checkRunningBuild rejects the request while the latest
\* build's job is active.  The state is the latest build's; a delete may orphan,
\* that is, start from none.  (A request that brings a state of its own is not
\* modelled.)
BuildBegin(j) ==
    LET w == WorkspaceOf[j]
        Begin(n, s) == build' = [build EXCEPT ![j] = [pc |-> "begun", number |-> n, state |-> s]]
    IN  /\ IsBuild(j)
        /\ build[j].pc = "idle"
        /\ \/ Builds(w) = {} /\ Begin(1, {})
           \/ \E i \in Builds(w) :
                 /\ IsLatest(i, w)
                 /\ ~Active(i)
                 /\ \E s \in {state[i]} \cup (IF Kind[j] = "delete" THEN {{}} ELSE {}) :
                       Begin(number[i] + 1, s)
        /\ UNCHANGED <<row, data, cancel, rpc, det, daemon, hung, work>>

\* Mutant: no unique index on the build number.
BuildCommitUnchecked(j) ==
    /\ build[j].pc = "begun"
    /\ build' = [build EXCEPT ![j].pc = "done"]
    /\ inserted' = inserted \cup {j}
    /\ number' = [number EXCEPT ![j] = build[j].number]
    /\ state' = [state EXCEPT ![j] = build[j].state]
    /\ UNCHANGED <<started, canceled, completed, errored, stale, worker, ended,
                   resources, deleted, cancel, rpc, det, daemon, hung, work>>

\* The transaction commits, unless another build has taken the number: the
\* unique index on (workspace_id, build_number) makes the insert fail.
BuildCommit(j) ==
    /\ build[j].pc = "begun"
    /\ IF \E i \in Builds(WorkspaceOf[j]) : number[i] = build[j].number
       THEN /\ build' = [build EXCEPT ![j].pc = "failed"]
            /\ UNCHANGED <<row, data>>
       ELSE /\ build' = [build EXCEPT ![j].pc = "done"]
            /\ inserted' = inserted \cup {j}
            /\ number' = [number EXCEPT ![j] = build[j].number]
            /\ state' = [state EXCEPT ![j] = build[j].state]
            /\ UNCHANGED <<started, canceled, completed, errored, stale, worker, ended,
                           resources, deleted>>
    /\ UNCHANGED <<cancel, rpc, det, daemon, hung, work>>

\* A template import or dry-run job is inserted.
InsertTemplateJob(j) ==
    /\ ~IsBuild(j)
    /\ j \notin inserted
    /\ inserted' = inserted \cup {j}
    /\ UNCHANGED <<started, canceled, completed, errored, stale, worker, ended, data,
                   build, cancel, rpc, det, daemon, hung, work>>

-----------------------------------------------------------------------------
(* Acquiring a job. *)

Acquirable == inserted \ started

\* A cancel request may be updating the row: FOR UPDATE SKIP LOCKED passes over it.
Skippable(i) == \E c \in Cancels : cancel[c].pc = "read" /\ cancel[c].job = i

\* AcquireProvisionerJob: the oldest job that is not started.
AcquireProvisionerJob(d) ==
    /\ phase[d] = "idle"
    /\ \E j \in Acquirable :
          /\ \A i \in Acquirable : j <= i \/ Skippable(i)
          /\ started' = started \cup {j}
          /\ stale' = stale \ {j}
          /\ worker' = [worker EXCEPT ![j] = d]
          /\ job' = [job EXCEPT ![d] = j]
    /\ phase' = [phase EXCEPT ![d] = "acquired"]
    /\ UNCHANGED <<inserted, canceled, completed, errored, ended, data, build, cancel,
                   rpc, det, base, current, hung, work>>

Release(d) ==
    /\ phase' = [phase EXCEPT ![d] = "idle"]
    /\ job' = [job EXCEPT ![d] = None]
    /\ base' = [base EXCEPT ![d] = {}]
    /\ current' = [current EXCEPT ![d] = None]

\* acquireProtoJob reads the build (with its state) and the job is sent.
AcquireSend(d) ==
    /\ phase[d] = "acquired"
    /\ phase' = [phase EXCEPT ![d] = "running"]
    /\ base' = [base EXCEPT ![d] = state[job[d]]]
    /\ work' = work \cup {<<d, job[d]>>}
    /\ UNCHANGED <<row, data, build, cancel, rpc, det, job, current, hung>>

\* acquireProtoJob cannot build the request and fails the job.
AcquireInvalid(d) ==
    /\ phase[d] = "acquired"
    /\ RowFree(job[d])
    /\ WriteComplete(job[d], TRUE)
    /\ Release(d)
    /\ UNCHANGED <<data, build, cancel, rpc, det, hung, work>>

\* AcquireJobWithCancel: the stream broke while the job was being locked, so
\* the server fails the job itself; the daemon may connect again.
AcquireBroken(d) ==
    /\ phase[d] = "acquired"
    /\ RowFree(job[d])
    /\ WriteComplete(job[d], TRUE)
    /\ Release(d)
    /\ UNCHANGED <<data, build, cancel, rpc, det, hung, work>>

\* stream.Send fails, an error path returns without failJob, or the replica
\* stops: the job is started and nobody runs it.
AcquireLost(d) ==
    /\ phase[d] = "acquired"
    /\ Release(d)
    /\ UNCHANGED <<row, data, build, cancel, rpc, det, hung, work>>

-----------------------------------------------------------------------------
(* The daemon. *)

\* UpdateJob, as a heartbeat or with logs: it sets updated_at, whether or not
\* the job has been completed meanwhile.  (An update of a fresh row changes
\* nothing here; the canceled flag of the reply only makes a failure likely.)
UpdateJob(d) ==
    /\ phase[d] \in {"running", "applied"}
    /\ worker[job[d]] = d
    /\ RowFree(job[d])
    /\ job[d] \in stale
    /\ stale' = stale \ {job[d]}
    /\ UNCHANGED <<inserted, started, canceled, completed, errored, worker, ended, data,
                   build, cancel, rpc, det, daemon, hung, work>>

\* terraform apply has changed infrastructure: from here on there is a state.
Apply(d) ==
    /\ phase[d] = "running"
    /\ IsBuild(job[d])
    /\ phase' = [phase EXCEPT ![d] = "applied"]
    /\ UNCHANGED <<row, data, build, cancel, rpc, det, job, base, current, hung, work>>

Unused == {r \in Rpcs : rpc[r].pc = "unused"}

Send(d, r, kind, s) ==
    /\ rpc' = [rpc EXCEPT ![r] = [pc |-> "sent", kind |-> kind, job |-> job[d],
                                  daemon |-> d, state |-> s]]
    /\ current' = [current EXCEPT ![d] = r]
    /\ phase' = [phase EXCEPT ![d] = "reporting"]
    /\ UNCHANGED <<row, data, build, cancel, det, job, base, hung>>

\* do() has returned: the provisioner no longer works on the job.
Stopped(d) == work' = work \ {<<d, job[d]>>}

\* The runner reports success, with the new state of a workspace build ...
ReportComplete(d) ==
    /\ phase[d] \in {"running", "applied"}
    /\ IsBuild(job[d]) => phase[d] = "applied"
    /\ \E r \in Unused :
          Send(d, r, "complete", IF IsBuild(job[d]) THEN base[d] \cup {job[d]} ELSE None)
    /\ Stopped(d)

\* ... or failure, with the state of an apply that failed, if there is one.
ReportFail(d) ==
    /\ phase[d] \in {"running", "applied"}
    /\ \E r \in Unused :
       \E s \in {None} \cup (IF phase[d] = "applied" THEN {base[d] \cup {job[d]}} ELSE {}) :
          Send(d, r, "fail", s)
    /\ Stopped(d)

\* Runner.Fail: a failed heartbeat, a cancellation that takes too long or Close fails
\* the job from outside.  do() is canceled and not waited for: terraform may still
\* be applying, and what it does is reported to nobody.
FailRunning(d) ==
    /\ phase[d] \in {"running", "applied"}
    /\ \E r \in Unused : Send(d, r, "fail", None)
    /\ UNCHANGED work

\* A provisioner whose runner has failed the job, or whose daemon has gone, stops.
WorkEnds(d, j) ==
    /\ <<d, j>> \in work
    /\ ~(phase[d] \in {"running", "applied"} /\ job[d] = j)
    /\ work' = work \ {<<d, j>>}
    /\ UNCHANGED <<row, data, build, cancel, rpc, det, daemon, hung>>

\* clientDoWithRetries: the connection breaks before the reply is received and
\* the same request is sent again.
Retry(d) ==
    /\ phase[d] = "reporting"
    /\ \E r \in Unused : Send(d, r, rpc[current[d]].kind, rpc[current[d]].state)
    /\ UNCHANGED work

\* CompleteJob returned an error: the runner sends FailJob, without a state.
FailAfterComplete(d) ==
    /\ phase[d] = "reporting"
    /\ rpc[current[d]].pc = "error"
    /\ rpc[current[d]].kind = "complete"
    /\ \E r \in Unused : Send(d, r, "fail", None)
    /\ UNCHANGED work

\* The report is answered and the runner is done.
Reported(d) ==
    /\ phase[d] = "reporting"
    /\ \/ rpc[current[d]].pc = "ok"
       \/ rpc[current[d]].pc = "error" /\ rpc[current[d]].kind = "fail"
    /\ Release(d)
    /\ UNCHANGED <<row, data, build, cancel, rpc, det, hung, work>>

\* The daemon's process ends; its requests may still be running on the server, and
\* a terraform it has started may run on.
Crash(d) ==
    /\ phase[d] \in {"running", "applied", "reporting"}
    /\ phase' = [phase EXCEPT ![d] = "dead"]
    /\ UNCHANGED <<row, data, build, cancel, rpc, det, job, base, current, hung, work>>

-----------------------------------------------------------------------------
(* FailJob and CompleteJob. *)

At(r, l, k) == rpc[r].pc = l /\ rpc[r].kind = k

RpcGoto(r, l) == rpc' = [rpc EXCEPT ![r].pc = l]

\* Once everything is stored the reply is sent; publishing may still fail.
RpcReply(r) == \E l \in {"ok", "error"} : RpcGoto(r, l)

\* FailJob fetches the job and checks its owner and that it is not completed.
FailJobRead(r) ==
    LET j == rpc[r].job
    IN  /\ At(r, "sent", "fail")
        /\ RpcGoto(r, IF worker[j] # rpc[r].daemon \/ j \in completed THEN "error" ELSE "read")
        /\ UNCHANGED <<row, data, build, cancel, det, daemon, hung, work>>

\* Mutant: the state is stored with the failure, also when the request brings none.
FailJobWriteAll(r) ==
    /\ At(r, "read", "fail")
    /\ RowFree(rpc[r].job)
    /\ WriteComplete(rpc[r].job, TRUE)
    /\ state' = [state EXCEPT ![rpc[r].job] = IF rpc[r].state = None THEN {} ELSE rpc[r].state]
    /\ RpcReply(r)
    /\ UNCHANGED <<number, resources, deleted, build, cancel, det, daemon, hung, work>>

\* It marks the job completed and failed ...
FailJobWrite(r) ==
    /\ At(r, "read", "fail")
    /\ RowFree(rpc[r].job)
    /\ WriteComplete(rpc[r].job, TRUE)
    /\ IF rpc[r].state # None THEN RpcGoto(r, "written") ELSE RpcReply(r)
    /\ UNCHANGED <<data, build, cancel, det, daemon, hung, work>>

\* ... and then, in a transaction of its own, stores the state it was sent.
FailJobState(r) ==
    /\ At(r, "written", "fail")
    /\ state' = [state EXCEPT ![rpc[r].job] = rpc[r].state]
    /\ RpcReply(r)
    /\ UNCHANGED <<row, number, resources, deleted, build, cancel, det, daemon, hung, work>>

\* CompleteJob fetches the job and checks its owner.
CompleteJobRead(r) ==
    /\ At(r, "sent", "complete")
    /\ RpcGoto(r, IF worker[rpc[r].job] # rpc[r].daemon THEN "error" ELSE "read")
    /\ UNCHANGED <<row, data, build, cancel, det, daemon, hung, work>>

InsertResources(j) == resources' = [resources EXCEPT ![j] = @ + 1]

\* A workspace build is completed in one transaction.
CompleteBuild(r) ==
    LET j == rpc[r].job
    IN  /\ At(r, "read", "complete")
        /\ IsBuild(j)
        /\ RowFree(j)
        /\ WriteComplete(j, FALSE)
        /\ state' = [state EXCEPT ![j] = rpc[r].state]
        /\ InsertResources(j)
        /\ deleted' = IF Kind[j] = "delete" THEN deleted \cup {WorkspaceOf[j]} ELSE deleted
        /\ RpcReply(r)
        /\ UNCHANGED <<number, build, cancel, det, daemon, hung, work>>

\* Mutant: the job is marked completed before its results are inserted.
MarkBeforeInsert(r) ==
    /\ At(r, "read", "complete")
    /\ ~IsBuild(rpc[r].job)
    /\ RowFree(rpc[r].job)
    /\ WriteComplete(rpc[r].job, FALSE)
    /\ RpcGoto(r, "written")
    /\ UNCHANGED <<data, build, cancel, det, daemon, hung, work>>

\* A template import or dry-run inserts its results first ...
CompleteTemplateInsert(r) ==
    /\ At(r, "read", "complete")
    /\ ~IsBuild(rpc[r].job)
    /\ InsertResources(rpc[r].job)
    /\ RpcGoto(r, "written")
    /\ UNCHANGED <<row, number, state, deleted, build, cancel, det, daemon, hung, work>>

\* ... and is marked completed last; an import that needs an external auth
\* provider the server does not have is completed with an error.
CompleteTemplate(r) ==
    /\ At(r, "written", "complete")
    /\ RowFree(rpc[r].job)
    /\ \E withError \in BOOLEAN :
          /\ withError => Kind[rpc[r].job] = "import"
          /\ WriteComplete(rpc[r].job, withError)
    /\ RpcReply(r)
    /\ UNCHANGED <<data, build, cancel, det, daemon, hung, work>>

\* The request's context ends, the database fails, or the replica stops.
RpcAbort(r) ==
    /\ rpc[r].pc \in {"sent", "read", "written"}
    /\ RpcGoto(r, "error")
    /\ UNCHANGED <<row, data, build, cancel, det, daemon, hung, work>>

-----------------------------------------------------------------------------
(* Cancel requests. *)

\* The handler fetches the job and rejects one that is completed or canceled.
CancelRead(c, j) ==
    /\ cancel[c].pc = "idle"
    /\ j \in inserted \ (completed \cup canceled)
    /\ cancel' = [cancel EXCEPT ![c] =
                     [pc |-> "read", job |-> j, running |-> worker[j] # None]]
    /\ UNCHANGED <<row, data, build, rpc, det, daemon, hung, work>>

\* UpdateProvisionerJobWithCancelByID: completed_at is set, or reset to NULL, by
\* what the handler read.
CancelWrite(c) ==
    LET j == cancel[c].job
    IN  /\ cancel[c].pc = "read"
        /\ RowFree(j)
        /\ cancel' = [cancel EXCEPT ![c].pc = "done"]
        /\ canceled' = canceled \cup {j}
        /\ completed' = IF cancel[c].running THEN completed \ {j} ELSE completed \cup {j}
        /\ ended' = IF cancel[c].running THEN ended ELSE ended \cup {j}
        /\ UNCHANGED <<inserted, started, errored, stale, worker, data, build, rpc, det,
                       daemon, hung, work>>

-----------------------------------------------------------------------------
(* The hang detector. *)

\* Five minutes pass without an update of a running job.
TimePasses(j) ==
    /\ j \in started \ (completed \cup stale)
    /\ stale' = stale \cup {j}
    /\ UNCHANGED <<inserted, started, canceled, completed, errored, worker, ended, data,
                   build, cancel, rpc, det, daemon, hung, work>>

\* Mutant: a job that is being canceled is not considered hung.
UnhangFetchRunning(j) ==
    /\ det[j].pc = "idle"
    /\ j \in (started \cap stale) \ (completed \cup canceled)
    /\ det' = [det EXCEPT ![j] = [pc |-> "fetched", copy |-> None]]
    /\ UNCHANGED <<row, data, build, cancel, rpc, daemon, hung, work>>

\* unhangJob refetches the job under its advisory lock and checks that it is
\* started, not completed and not updated recently.
UnhangFetch(j) ==
    /\ det[j].pc = "idle"
    /\ j \in (started \cap stale) \ completed
    /\ det' = [det EXCEPT ![j] = [pc |-> "fetched", copy |-> None]]
    /\ UNCHANGED <<row, data, build, cancel, rpc, daemon, hung, work>>

\* It marks the job failed, which locks the row, and reads the build: only if
\* the build has no state is the previous build's to be copied.
UnhangMark(j) ==
    /\ det[j].pc = "fetched"
    /\ \/ /\ IsBuild(j) /\ state[j] = {}
          /\ \E i \in Jobs : /\ IsPrevious(i, j)
                             /\ det' = [det EXCEPT ![j] = [pc |-> "locked", copy |-> state[i]]]
       \/ /\ ~(IsBuild(j) /\ state[j] = {} /\ \E i \in Jobs : IsPrevious(i, j))
          /\ det' = [det EXCEPT ![j].pc = "locked"]
    /\ UNCHANGED <<row, data, build, cancel, rpc, daemon, hung, work>>

\* The transaction commits.
UnhangCommit(j) ==
    /\ det[j].pc = "locked"
    /\ WriteComplete(j, TRUE)
    /\ state' = IF det[j].copy = None THEN state ELSE [state EXCEPT ![j] = det[j].copy]
    /\ hung' = hung \cup {j}
    /\ det' = [det EXCEPT ![j] = [pc |-> "idle", copy |-> None]]
    /\ UNCHANGED <<number, resources, deleted, build, cancel, rpc, daemon, work>>

\* Or it fails and is rolled back.
UnhangAbort(j) ==
    /\ det[j].pc \in {"fetched", "locked"}
    /\ det' = [det EXCEPT ![j] = [pc |-> "idle", copy |-> None]]
    /\ UNCHANGED <<row, data, build, cancel, rpc, daemon, hung, work>>

-----------------------------------------------------------------------------
JobStep(j) ==
    \/ BuildBegin(j) \/ BuildCommit(j) \/ InsertTemplateJob(j)
    \/ TimePasses(j) \/ UnhangFetch(j) \/ UnhangMark(j) \/ UnhangCommit(j) \/ UnhangAbort(j)

DaemonStep(d) ==
    \/ AcquireProvisionerJob(d) \/ AcquireSend(d)
    \/ AcquireInvalid(d) \/ AcquireBroken(d) \/ AcquireLost(d)
    \/ UpdateJob(d) \/ Apply(d)
    \/ ReportComplete(d) \/ ReportFail(d) \/ FailRunning(d)
    \/ Retry(d) \/ FailAfterComplete(d) \/ Reported(d) \/ Crash(d)
    \/ \E j \in Jobs : WorkEnds(d, j)

RpcStep(r) ==
    \/ FailJobRead(r) \/ FailJobWrite(r) \/ FailJobState(r)
    \/ CompleteJobRead(r) \/ CompleteBuild(r)
    \/ CompleteTemplateInsert(r) \/ CompleteTemplate(r)
    \/ RpcAbort(r)

Next ==
    \/ \E j \in Jobs : JobStep(j)
    \/ \E d \in Daemons : DaemonStep(d)
    \/ \E r \in Rpcs : RpcStep(r)
    \/ \E c \in Cancels : CancelWrite(c) \/ \E j \in Jobs : CancelRead(c, j)

Spec == Init /\ [][Next]_vars

\* The detector's ticker goes on, time passes, and a transaction of the detector
\* that is tried again and again commits some time.
Fairness ==
    \A j \in Jobs :
        /\ WF_vars(TimePasses(j)) /\ WF_vars(UnhangFetch(j))
        /\ SF_vars(UnhangMark(j)) /\ SF_vars(UnhangCommit(j))

FairSpec == Spec /\ Fairness

-----------------------------------------------------------------------------
(* Properties. *)

States == SUBSET Jobs
BuildRequests == [pc : {"idle", "begun", "done", "failed"}, number : Nat, state : States]
CancelRequests == [pc : {"idle", "read", "done"}, job : Jobs \cup {None}, running : BOOLEAN]
RpcLocations == {"unused", "sent", "read", "written", "ok", "error"}
Requests == [pc : RpcLocations, kind : {"fail", "complete"}, job : Jobs \cup {None},
             daemon : Daemons \cup {None}, state : States \cup {None}]
Unhangs == [pc : {"idle", "fetched", "locked"}, copy : States \cup {None}]
Phases == {"idle", "acquired", "running", "applied", "reporting", "dead"}

\* Type correctness of the tables, the handlers and the daemons.
TypeOK ==
    /\ \A S \in {inserted, started, canceled, completed, errored, stale, ended, hung} :
          S \subseteq Jobs
    /\ worker \in [Jobs -> Daemons \cup {None}]
    /\ number \in [Jobs -> Nat]
    /\ state \in [Jobs -> States]
    /\ resources \in [Jobs -> Nat]
    /\ deleted \subseteq Workspaces
    /\ build \in [Jobs -> BuildRequests]
    /\ cancel \in [Cancels -> CancelRequests]
    /\ rpc \in [Rpcs -> Requests]
    /\ det \in [Jobs -> Unhangs]
    /\ phase \in [Daemons -> Phases]
    /\ job \in [Daemons -> Jobs \cup {None}]
    /\ base \in [Daemons -> States]
    /\ current \in [Daemons -> Rpcs \cup {None}]
    /\ work \subseteq Daemons \X Jobs

\* Of the builds of a workspace at most one, the latest, has never been completed:
\* concurrent build requests that all find the latest build inactive
\* (checkRunningBuild) do not each insert an active one.
OneUnendedBuild ==
    \A w \in Workspaces : \A i \in Builds(w) \ ended : IsLatest(i, w)
                          /\ \A k \in Builds(w) : number[k] = number[i] => k = i

\* A job that is shown as succeeded has its results: the resources are inserted
\* and the build's state records the job, although FailJob, CompleteJob, cancel
\* and the hang detector overwrite each other's completion.
SuccessIsRecorded ==
    \A j \in Jobs :
        j \in inserted /\ JobStatus(j) = "succeeded" =>
            /\ resources[j] > 0
            /\ IsBuild(j) => j \in state[j]
            /\ Kind[j] = "delete" => WorkspaceOf[j] \in deleted

\* A report that the job failed, without a state.  While the provisioner is at work, only
\* Runner.Fail has sent one: any other report is sent by a runner whose do() has ended.
GivenUp(j) ==
    \E r \in Rpcs : /\ rpc[r].pc # "unused" /\ rpc[r].kind = "fail"
                    /\ rpc[r].state = None /\ rpc[r].job = j

\* No two provisioners work on the same job, and two work on builds of the same
\* workspace at the same time only if the earlier build was canceled, terminated by
\* the hang detector or failed from outside by its own runner: those three do not wait
\* for the provisioner to stop (Runner.Fail: "Running goroutines are canceled but
\* complete asynchronously").  A build that ends by its provisioner's own result, or
\* because it could not be handed to a daemon, never overlaps the next one.
ExclusiveUnlessTerminated ==
    \A p, q \in work : p # q =>
        /\ p[2] # q[2]
        /\ /\ IsBuild(p[2]) /\ IsBuild(q[2])
           /\ WorkspaceOf[p[2]] = WorkspaceOf[q[2]]
           /\ number[p[2]] < number[q[2]]
           => p[2] \in canceled \cup hung \/ GivenUp(p[2])

\* The strengthening that makes the three invariants above inductive.
\* How the columns of a row depend on each other.
RowsConsistent ==
    /\ started \subseteq inserted
    /\ ended \subseteq inserted
    /\ canceled \subseteq inserted
    /\ completed \cup errored \cup hung \subseteq ended
    /\ ended \ started \subseteq canceled
    /\ \A j \in Jobs : j \in started <=> worker[j] # None

\* The builds of a workspace are numbered 1, 2, 3 ... without gap or duplicate.
NumbersContiguous ==
    /\ \A j \in Jobs : IsBuild(j) /\ j \in inserted => build[j].pc = "done" /\ number[j] > 0
    /\ \A w \in Workspaces : \A i, k \in Builds(w) : number[i] = number[k] => i = k
    /\ \A w \in Workspaces : \A i \in Builds(w) : \A n \in 1..number[i] :
          \E k \in Builds(w) : number[k] = n

\* What a build request knows from its snapshot: the number it wants follows an
\* existing one, and all builds with smaller numbers have ended.
SnapshotsValid ==
    \A j \in Jobs : build[j].pc = "begun" =>
        /\ IsBuild(j)
        /\ \/ build[j].number = 1
           \/ \E i \in Builds(WorkspaceOf[j]) : number[i] + 1 = build[j].number
        /\ \A i \in Builds(WorkspaceOf[j]) : number[i] < build[j].number => i \in ended

\* A daemon works on a job it owns, and only reports what it has.
RpcsValid ==
    \A r \in Rpcs : rpc[r].pc # "unused" =>
        /\ rpc[r].job \in started
        /\ rpc[r].state # None => rpc[r].job \in rpc[r].state
        /\ rpc[r].kind = "complete" /\ IsBuild(rpc[r].job) => rpc[r].state # None
        /\ rpc[r].pc = "written" => IF rpc[r].kind = "fail" THEN rpc[r].state # None
                                    ELSE ~IsBuild(rpc[r].job) /\ resources[rpc[r].job] > 0

Busy(d) == phase[d] \in {"acquired", "running", "applied"}

DaemonsValid ==
    /\ \A d \in Daemons : phase[d] \in {"acquired", "running", "applied", "reporting"} =>
          job[d] \in started /\ worker[job[d]] = d
    /\ \A d \in Daemons : phase[d] = "reporting" =>
          /\ current[d] \in Rpcs /\ rpc[current[d]].pc # "unused"
          /\ rpc[current[d]].job = job[d]
    /\ \A d \in Daemons, r \in Rpcs :
          Busy(d) /\ rpc[r].pc # "unused" => rpc[r].job # job[d]
    /\ \A d \in Daemons : Busy(d) /\ job[d] \in ended => job[d] \in canceled \cup hung

HandlersValid ==
    /\ \A c \in Cancels : cancel[c].pc = "read" =>
          cancel[c].job \in inserted
    /\ \A j \in Jobs : det[j].pc # "idle" => j \in started
    /\ \A j \in Jobs : det[j].pc # "locked" => det[j].copy = None
    /\ \A j \in Jobs : det[j].pc = "locked" /\ det[j].copy # None =>
          IsBuild(j) /\ resources[j] = 0

\* Whatever completes a job last, the results of a CompleteJob stay recorded.
ResultsRecorded ==
    /\ \A j \in Jobs : resources[j] > 0 =>
          /\ j \in inserted
          /\ IsBuild(j) => j \in state[j]
          /\ Kind[j] = "delete" => WorkspaceOf[j] \in deleted
    /\ \A j \in completed \ (errored \cup canceled) : resources[j] > 0

IInv ==
    /\ TypeOK
    /\ RowsConsistent
    /\ NumbersContiguous
    /\ SnapshotsValid
    /\ RpcsValid
    /\ DaemonsValid
    /\ HandlersValid
    /\ ResultsRecorded
    /\ OneUnendedBuild

\* A provisioner works on a job its daemon owns and was sent.  While it does so nobody
\* has reported the job, except its runner by Runner.Fail, so that a job which has
\* ended under it was ended in one of the three ways of ExclusiveUnlessTerminated.
WorkValid ==
    \A p \in work :
        /\ p[2] \in started
        /\ worker[p[2]] = p[1]
        /\ ~(phase[p[1]] = "acquired" /\ job[p[1]] = p[2])
        /\ \A r \in Rpcs : rpc[r].pc # "unused" /\ rpc[r].job = p[2] =>
              rpc[r].kind = "fail" /\ rpc[r].state = None
        /\ p[2] \in ended => p[2] \in canceled \cup hung \/ GivenUp(p[2])

\* What is known of a build's provisioner_state is never lost again: each report brings
\* what the build started from and adds its own job, and so do its repetitions, however
\* late they are.  Only a job that the hang detector has terminated is excepted.
StatesAccumulate == [][\A j \in inserted \ hung' : state[j] \subseteq state'[j]]_vars

\* Where the states come from, in the row, a daemon and a report: the strengthening for it.
StatesOfRows ==
    /\ \A j \in Jobs \ inserted : ~IsBuild(j) => state[j] = build[j].state
    /\ \A j \in inserted \ hung :
          /\ state[j] \in {build[j].state, build[j].state \cup {j}}
          /\ j \notin started => state[j] = build[j].state

StatesOfDaemons ==
    \A d \in Daemons : job[d] \notin hung =>
        /\ phase[d] = "acquired" => state[job[d]] = build[job[d]].state
        /\ phase[d] \in {"running", "applied"} => base[d] = build[job[d]].state

StatesOfRpcs ==
    \A r \in Rpcs : rpc[r].pc # "unused" /\ rpc[r].state # None /\ rpc[r].job \notin hung =>
        rpc[r].state = build[rpc[r].job].state \cup {rpc[r].job}

StatesKnown == StatesOfRows /\ StatesOfDaemons /\ StatesOfRpcs

\* A started job whose daemon has gone, or never got it, is completed at last:
\* the hang detector ends it even if a late cancel reset its completed_at.
Orphaned(j) ==
    /\ j \in started
    /\ \A d \in Daemons : job[d] = j => phase[d] = "dead"

OrphansEnd == \A j \in Jobs : Orphaned(j) ~> j \in completed

\* terraform's apply: "Terraform can fail and apply and still need to store it's
\* state."  Once the server has accepted the failure of a build, with its state,
\* the next build starts from that state.
FailedStateInherited ==
    \A r \in Rpcs : \A k \in Jobs :
        /\ rpc[r].kind = "fail" /\ rpc[r].pc \in {"written", "ok"} /\ rpc[r].state # None
        /\ k \in inserted /\ Kind[k] = "start" /\ IsPrevious(rpc[r].job, k)
        /\ rpc[r].job \notin hung \cup canceled
        => rpc[r].state \subseteq state[k]
=============================================================================
