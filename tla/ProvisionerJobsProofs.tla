------------------------ MODULE ProvisionerJobsProofs ------------------------
(***************************************************************************)
(* Proofs that ProvisionerJobs keeps its inductive invariant IInv, for any *)
(* jobs, workspaces, daemons and requests: one lemma per action, and the   *)
(* safety properties that follow.                                          *)
(***************************************************************************)
EXTENDS ProvisionerJobs, TLAPS

USE JobsAssumption, NoneAssumption

\* What a step of a request changes: its location and nothing else.
LEMMA RpcGotoFrame ==
    ASSUME rpc \in [Rpcs -> Requests], NEW r \in Rpcs, NEW l \in RpcLocations,
           RpcGoto(r, l)
    PROVE  /\ rpc' \in [Rpcs -> Requests]
           /\ rpc'[r].pc = l
           /\ \A q \in Rpcs : q # r => rpc'[q] = rpc[q]
           /\ \A q \in Rpcs : /\ rpc'[q].kind = rpc[q].kind
                               /\ rpc'[q].job = rpc[q].job
                               /\ rpc'[q].daemon = rpc[q].daemon
                               /\ rpc'[q].state = rpc[q].state
    BY DEF RpcGoto, Requests, RpcLocations

\* What a build request computes from its snapshot: a number that follows the
\* latest build's, all builds up to which have ended (checkRunningBuild).
LEMMA BeginsFrom ==
    ASSUME IInv, NEW j \in Jobs, BuildBegin(j)
    PROVE  \E n \in Nat, s \in States :
              /\ build' = [build EXCEPT ![j] = [pc |-> "begun", number |-> n, state |-> s]]
              /\ n = 1 \/ \E i \in Builds(WorkspaceOf[j]) : number[i] + 1 = n
              /\ \A i \in Builds(WorkspaceOf[j]) : number[i] < n => i \in ended
<1> DEFINE w == WorkspaceOf[j]
           Begin(n, s) == build' = [build EXCEPT ![j] = [pc |-> "begun", number |-> n, state |-> s]]
<1>1. CASE Builds(w) = {} /\ Begin(1, {})
    BY <1>1 DEF States
<1>2. CASE \E i \in Builds(w) :
              /\ IsLatest(i, w)
              /\ ~Active(i)
              /\ \E s \in {state[i]} \cup (IF Kind[j] = "delete" THEN {{}} ELSE {}) :
                    Begin(number[i] + 1, s)
  <2>1. PICK i \in Builds(w), s \in States :
            IsLatest(i, w) /\ ~Active(i) /\ Begin(number[i] + 1, s)
    <3>1. PICK i \in Builds(w) :
              /\ IsLatest(i, w) /\ ~Active(i)
              /\ \E s \in {state[i]} \cup (IF Kind[j] = "delete" THEN {{}} ELSE {}) :
                    Begin(number[i] + 1, s)
        BY <1>2
    <3>2. PICK s \in {state[i]} \cup (IF Kind[j] = "delete" THEN {{}} ELSE {}) :
              Begin(number[i] + 1, s)
        BY <3>1
    <3>3. state[i] \in States /\ {} \in States
        BY DEF IInv, TypeOK, Builds, States
    <3>4. s \in States
        BY <3>3
    <3> QED
        BY <3>1, <3>2, <3>4
  <2>2. number[i] \in Nat /\ number[i] + 1 \in Nat
    <3>1. i \in Jobs /\ number \in [Jobs -> Nat]
        BY DEF IInv, TypeOK, Builds
    <3> QED
        BY <3>1
  <2>3. i \in ended
      BY <2>1 DEF IInv, RowsConsistent, Builds, Active, JobStatus
  <2>4. ASSUME NEW k \in Builds(w), number[k] < number[i] + 1
        PROVE  k \in ended
    <3>1. number[k] \in Nat
        BY DEF IInv, TypeOK, Builds
    <3>2. CASE k = i
        BY <2>3, <3>2
    <3>3. CASE k # i /\ k \notin ended
      <4>1. IsLatest(k, w)
          BY <3>3 DEF IInv, OneUnendedBuild
      <4>2. number[k] = number[i]
          BY <2>1, <2>2, <3>1, <4>1 DEF IsLatest
      <4> QED
          BY <3>3, <4>2 DEF IInv, NumbersContiguous
    <3> QED
        BY <3>2, <3>3
  <2> QED
      BY <2>1, <2>2, <2>4
<1> QED
    BY <1>1, <1>2 DEF BuildBegin

\* Builder.Build: the snapshot of a new request.
LEMMA BuildBeginPreserves ==
    ASSUME IInv, NEW j \in Jobs, BuildBegin(j)
    PROVE  IInv'
<1>1. TypeOK'
  <2>1. PICK n \in Nat, s \in States :
            build' = [build EXCEPT ![j] = [pc |-> "begun", number |-> n, state |-> s]]
      BY BeginsFrom
  <2>2. build' \in [Jobs -> BuildRequests]
      BY <2>1 DEF IInv, TypeOK, BuildRequests
  <2> QED
      BY <2>2 DEF IInv, TypeOK, BuildBegin, row, data, daemon
<1>2. RowsConsistent'
    BY DEF IInv, RowsConsistent, BuildBegin, IsLatest, Builds, Active, JobStatus, row,
       data, daemon
<1>3. NumbersContiguous'
    BY DEF IInv, TypeOK, NumbersContiguous, Builds, IsBuild, BuildBegin, IsLatest, Active,
       JobStatus, row, data, daemon
<1>4. SnapshotsValid'
  <2>1. PICK n \in Nat, s \in States :
            /\ build' = [build EXCEPT ![j] = [pc |-> "begun", number |-> n, state |-> s]]
            /\ n = 1 \/ \E i \in Builds(WorkspaceOf[j]) : number[i] + 1 = n
            /\ \A i \in Builds(WorkspaceOf[j]) : number[i] < n => i \in ended
      BY BeginsFrom
  <2>2. IsBuild(j) /\ UNCHANGED <<inserted, ended, number>>
      BY DEF BuildBegin, row, data
  <2> QED
      BY <2>1, <2>2 DEF IInv, TypeOK, SnapshotsValid, Builds, IsBuild
<1>5. RpcsValid'
    BY DEF IInv, RpcsValid, IsBuild, BuildBegin, IsLatest, Builds, Active, JobStatus, row,
       data, daemon
<1>6. DaemonsValid'
    BY DEF IInv, DaemonsValid, Busy, BuildBegin, IsLatest, Builds, Active, JobStatus, row,
       data, daemon
<1>7. HandlersValid'
    BY DEF IInv, HandlersValid, IsBuild, BuildBegin, IsLatest, Builds, Active, JobStatus,
       row, data, daemon
<1>8. ResultsRecorded'
    BY DEF IInv, ResultsRecorded, IsBuild, BuildBegin, IsLatest, Builds, Active,
       JobStatus, row, data, daemon
<1>9. OneUnendedBuild'
    BY DEF IInv, OneUnendedBuild, Builds, IsBuild, IsLatest, BuildBegin, Active,
       JobStatus, row, data, daemon
<1> QED
    BY <1>1, <1>2, <1>3, <1>4, <1>5, <1>6, <1>7, <1>8, <1>9 DEF IInv

\* A request that has begun still knows what it computed.
LEMMA BeganFrom ==
    ASSUME IInv, NEW j \in Jobs, build[j].pc = "begun"
    PROVE  /\ IsBuild(j) /\ j \notin inserted /\ build[j].number \in Nat \ {0}
           /\ \/ build[j].number = 1
              \/ \E i \in Builds(WorkspaceOf[j]) : number[i] + 1 = build[j].number
           /\ \A i \in Builds(WorkspaceOf[j]) : number[i] < build[j].number => i \in ended
<1>1. /\ IsBuild(j)
      /\ \/ build[j].number = 1
         \/ \E i \in Builds(WorkspaceOf[j]) : number[i] + 1 = build[j].number
      /\ \A i \in Builds(WorkspaceOf[j]) : number[i] < build[j].number => i \in ended
    BY DEF IInv, SnapshotsValid
<1>2. j \notin inserted
    BY <1>1 DEF IInv, NumbersContiguous
<1>3. /\ build[j].number \in Nat
      /\ \A i \in Builds(WorkspaceOf[j]) : number[i] \in Nat
    BY DEF IInv, TypeOK, BuildRequests, Builds
<1> QED
    BY <1>1, <1>2, <1>3

\* The builds are numbered without a gap, so a number that follows one of theirs
\* and is free is greater than all of them.
LEMMA FreeNumberIsNext ==
    ASSUME IInv, NEW j \in Jobs, build[j].pc = "begun",
           ~\E i \in Builds(WorkspaceOf[j]) : number[i] = build[j].number
    PROVE  \A i \in Builds(WorkspaceOf[j]) : number[i] < build[j].number
<1> SUFFICES ASSUME NEW i \in Builds(WorkspaceOf[j]), ~(number[i] < build[j].number)
             PROVE  FALSE
    OBVIOUS
<1>1. build[j].number \in Nat \ {0} /\ WorkspaceOf[j] \in Workspaces
    BY BeganFrom
<1>2. number[i] \in Nat
    BY DEF IInv, TypeOK, Builds
<1>3. build[j].number \in 1..number[i]
    BY <1>1, <1>2
<1>4. PICK k \in Builds(WorkspaceOf[j]) : number[k] = build[j].number
    BY <1>1, <1>3 DEF IInv, NumbersContiguous
<1> QED
    BY <1>4

\* Builder.Build: the commit, guarded by the unique build number.
LEMMA BuildCommitPreserves ==
    ASSUME IInv, NEW j \in Jobs, BuildCommit(j)
    PROVE  IInv'
<1>1. TypeOK'
  <2>1. PICK l \in {"failed", "done"} : build' = [build EXCEPT ![j].pc = l]
      BY DEF BuildCommit
  <2>2. build' \in [Jobs -> BuildRequests]
      BY <2>1 DEF IInv, TypeOK, BuildRequests
  <2>3. number' \in [Jobs -> Nat] /\ state' \in [Jobs -> States]
      BY DEF IInv, TypeOK, BuildRequests, BuildCommit, data
  <2> QED
      BY <2>2, <2>3 DEF IInv, TypeOK, BuildCommit, row, data, daemon
<1>2. RowsConsistent'
    BY DEF IInv, RowsConsistent, BuildCommit, row, data, daemon
<1>3. NumbersContiguous'
  <2>1. CASE \E i \in Builds(WorkspaceOf[j]) : number[i] = build[j].number
    <3>1. UNCHANGED <<inserted, started, canceled, completed, errored, worker, ended,
                      number, state, resources, deleted>>
        BY <2>1 DEF BuildCommit, row, data
    <3>2. build' = [build EXCEPT ![j].pc = "failed"]
        BY <2>1 DEF BuildCommit
    <3>3. j \notin inserted
        BY BeganFrom DEF BuildCommit
    <3>4. \A i \in inserted : build'[i] = build[i] /\ i \in Jobs
        BY <3>2, <3>3 DEF IInv, TypeOK
    <3> QED
        BY <3>1, <3>4 DEF IInv, NumbersContiguous, Builds, IsBuild
  <2>2. CASE ~\E i \in Builds(WorkspaceOf[j]) : number[i] = build[j].number
    <3>1. /\ IsBuild(j) /\ j \notin inserted /\ build[j].number \in Nat \ {0}
          /\ build[j].number = 1
             \/ \E i \in Builds(WorkspaceOf[j]) : number[i] + 1 = build[j].number
          /\ \A i \in Builds(WorkspaceOf[j]) : number[i] < build[j].number => i \in ended
        BY BeganFrom DEF BuildCommit
    <3>2. /\ \A w \in Workspaces :
                 Builds(w)' = Builds(w) \cup (IF w = WorkspaceOf[j] THEN {j} ELSE {})
          /\ number' = [number EXCEPT ![j] = build[j].number]
          /\ build' = [build EXCEPT ![j].pc = "done"]
          /\ UNCHANGED ended
        BY <2>2, <3>1 DEF BuildCommit, Builds, IsBuild
    <3>3. \A i \in Builds(WorkspaceOf[j]) : number[i] < build[j].number
        BY <2>2, FreeNumberIsNext DEF BuildCommit
    <3>4. ASSUME NEW i \in Jobs, IsBuild(i), i \in inserted'
          PROVE  build'[i].pc = "done" /\ number'[i] > 0
        BY <3>1, <3>2, <3>4 DEF IInv, TypeOK, BuildRequests, NumbersContiguous, BuildCommit
    <3>5. ASSUME NEW w \in Workspaces, NEW i \in Builds(w)', NEW k \in Builds(w)',
                 number'[i] = number'[k]
          PROVE  i = k
        BY <2>2, <3>1, <3>2, <3>5 DEF IInv, TypeOK, NumbersContiguous, Builds
    <3>6. ASSUME NEW w \in Workspaces, NEW i \in Builds(w)', NEW n \in 1..(number'[i])
          PROVE  \E k \in Builds(w)' : number'[k] = n
      <4>1. CASE i # j
        <5>1. i \in Builds(w) /\ number'[i] = number[i]
            BY <3>2, <4>1 DEF IInv, TypeOK, Builds
        <5>2. PICK k \in Builds(w) : number[k] = n
            BY <5>1 DEF IInv, NumbersContiguous
        <5>3. k # j /\ k \in Jobs
            BY <3>1 DEF IInv, TypeOK, Builds
        <5> QED
            BY <3>2, <5>2, <5>3 DEF IInv, TypeOK
      <4>2. CASE i = j /\ n = build[j].number
          BY <3>2, <4>2 DEF IInv, TypeOK
      <4>3. CASE i = j /\ n # build[j].number
        <5>1. w = WorkspaceOf[j] /\ number'[j] = build[j].number
            BY <3>1, <3>2, <4>3 DEF IInv, TypeOK, Builds
        <5>2. PICK k \in Builds(w) : number[k] + 1 = build[j].number
            BY <3>1, <4>3, <5>1
        <5>3. k \in Jobs /\ number[k] \in Nat
            BY DEF IInv, TypeOK, Builds
        <5>4. n \in 1..number[k]
            BY <3>1, <4>3, <5>1, <5>2, <5>3
        <5>5. PICK m \in Builds(w) : number[m] = n
            BY <5>4 DEF IInv, NumbersContiguous
        <5>6. m # j /\ m \in Jobs
            BY <3>1 DEF IInv, TypeOK, Builds
        <5> QED
            BY <3>2, <5>5, <5>6 DEF IInv, TypeOK
      <4> QED
          BY <4>1, <4>2, <4>3
    <3> QED
        BY <3>4, <3>5, <3>6 DEF NumbersContiguous
  <2> QED
      BY <2>1, <2>2
<1>4. SnapshotsValid'
  <2>1. CASE \E i \in Builds(WorkspaceOf[j]) : number[i] = build[j].number
    <3>1. UNCHANGED <<inserted, started, canceled, completed, errored, worker, ended,
                      number, state, resources, deleted>>
        BY <2>1 DEF BuildCommit, row, data
    <3>2. build' = [build EXCEPT ![j].pc = "failed"]
        BY <2>1 DEF BuildCommit
    <3> QED
        BY <3>1, <3>2 DEF IInv, TypeOK, BuildRequests, SnapshotsValid, Builds, IsBuild
  <2>2. CASE ~\E i \in Builds(WorkspaceOf[j]) : number[i] = build[j].number
    <3>1. /\ IsBuild(j) /\ j \notin inserted /\ build[j].number \in Nat \ {0}
          /\ build[j].number = 1
             \/ \E i \in Builds(WorkspaceOf[j]) : number[i] + 1 = build[j].number
          /\ \A i \in Builds(WorkspaceOf[j]) : number[i] < build[j].number => i \in ended
        BY BeganFrom DEF BuildCommit
    <3>2. /\ \A w \in Workspaces :
                 Builds(w)' = Builds(w) \cup (IF w = WorkspaceOf[j] THEN {j} ELSE {})
          /\ number' = [number EXCEPT ![j] = build[j].number]
          /\ build' = [build EXCEPT ![j].pc = "done"]
          /\ UNCHANGED ended
        BY <2>2, <3>1 DEF BuildCommit, Builds, IsBuild
    <3>3. \A i \in Builds(WorkspaceOf[j]) : number[i] < build[j].number
        BY <2>2, FreeNumberIsNext DEF BuildCommit
    <3>4. SUFFICES ASSUME NEW k \in Jobs, k # j, build[k].pc = "begun"
                   PROVE  /\ IsBuild(k)
                          /\ \/ build[k].number = 1
                             \/ \E i \in Builds(WorkspaceOf[k])' :
                                   number'[i] + 1 = build[k].number
                          /\ \A i \in Builds(WorkspaceOf[k])' :
                                number'[i] < build[k].number => i \in ended
        BY <3>2 DEF IInv, TypeOK, BuildRequests, SnapshotsValid, IsBuild
    <3>5. /\ IsBuild(k) /\ build[k].number \in Nat \ {0}
          /\ \/ build[k].number = 1
             \/ \E i \in Builds(WorkspaceOf[k]) : number[i] + 1 = build[k].number
          /\ \A i \in Builds(WorkspaceOf[k]) : number[i] < build[k].number => i \in ended
        BY <3>4, BeganFrom
    <3>6. /\ \A i \in Builds(WorkspaceOf[k]) : /\ i \in Builds(WorkspaceOf[k])'
                                                /\ number'[i] = number[i]
          /\ number'[j] = build[j].number
        BY <3>1, <3>2 DEF IInv, TypeOK, Builds
    <3>7. WorkspaceOf[k] = WorkspaceOf[j] => ~(build[j].number < build[k].number)
      <4>1. SUFFICES ASSUME WorkspaceOf[k] = WorkspaceOf[j],
                            build[j].number < build[k].number
                     PROVE  FALSE
          OBVIOUS
      <4>2. PICK i \in Builds(WorkspaceOf[j]) : number[i] + 1 = build[k].number
          BY <3>1, <3>5, <4>1
      <4>3. number[i] \in Nat
          BY DEF IInv, TypeOK, Builds
      <4> QED
          BY <3>1, <3>3, <3>5, <4>1, <4>2, <4>3
    <3> QED
        BY <3>1, <3>2, <3>5, <3>6, <3>7 DEF Builds
  <2> QED
      BY <2>1, <2>2
<1>5. RpcsValid'
    BY DEF IInv, RpcsValid, IsBuild, BuildCommit, row, data, daemon
<1>6. DaemonsValid'
    BY DEF IInv, DaemonsValid, Busy, BuildCommit, row, data, daemon
<1>7. HandlersValid'
    BY DEF IInv, HandlersValid, IsBuild, BuildCommit, row, data, daemon
<1>8. ResultsRecorded'
  <2>1. \A i \in Jobs : resources[i] > 0 => i \in inserted
      BY DEF IInv, ResultsRecorded
  <2>2. build[j].pc = "begun" /\ IsBuild(j) /\ j \notin inserted
      BY BeganFrom DEF BuildCommit
  <2>3. /\ inserted \subseteq inserted' /\ \A i \in Jobs : i # j => state'[i] = state[i]
        /\ UNCHANGED <<resources, deleted, completed, errored, canceled>>
      BY DEF BuildCommit, IInv, TypeOK, row, data
  <2> QED
      BY <2>1, <2>2, <2>3 DEF IInv, TypeOK, ResultsRecorded, IsBuild
<1>9. OneUnendedBuild'
  <2>1. CASE \E i \in Builds(WorkspaceOf[j]) : number[i] = build[j].number
    <3>1. UNCHANGED <<inserted, started, canceled, completed, errored, worker, ended,
                      number, state, resources, deleted>>
        BY <2>1 DEF BuildCommit, row, data
    <3>2. build' = [build EXCEPT ![j].pc = "failed"]
        BY <2>1 DEF BuildCommit
    <3> QED
        BY <3>1, <3>2 DEF IInv, TypeOK, BuildRequests, OneUnendedBuild, IsLatest, Builds,
           IsBuild
  <2>2. CASE ~\E i \in Builds(WorkspaceOf[j]) : number[i] = build[j].number
    <3>1. /\ IsBuild(j) /\ j \notin inserted /\ build[j].number \in Nat \ {0}
          /\ build[j].number = 1
             \/ \E i \in Builds(WorkspaceOf[j]) : number[i] + 1 = build[j].number
          /\ \A i \in Builds(WorkspaceOf[j]) : number[i] < build[j].number => i \in ended
        BY BeganFrom DEF BuildCommit
    <3>2. /\ \A w \in Workspaces :
                 Builds(w)' = Builds(w) \cup (IF w = WorkspaceOf[j] THEN {j} ELSE {})
          /\ number' = [number EXCEPT ![j] = build[j].number]
          /\ build' = [build EXCEPT ![j].pc = "done"]
          /\ UNCHANGED ended
        BY <2>2, <3>1 DEF BuildCommit, Builds, IsBuild
    <3>3. \A i \in Builds(WorkspaceOf[j]) : number[i] < build[j].number
        BY <2>2, FreeNumberIsNext DEF BuildCommit
    <3>4. SUFFICES ASSUME NEW w \in Workspaces, NEW i \in Builds(w)', i \notin ended
                   PROVE  \A k \in Builds(w)' : /\ number'[k] <= number'[i]
                                                /\ number'[k] = number'[i] => k = i
        BY <3>2 DEF OneUnendedBuild, IsLatest
    <3>5. /\ \A k \in Builds(w) : k # j /\ number'[k] = number[k] /\ number[k] \in Nat
          /\ number'[j] = build[j].number
        BY <3>1, <3>2 DEF IInv, TypeOK, Builds
    <3>6. CASE w = WorkspaceOf[j]
      <4>1. i = j
          BY <3>1, <3>2, <3>3, <3>4, <3>6
      <4> QED
          BY <3>1, <3>2, <3>3, <3>5, <3>6, <4>1
    <3>7. CASE w # WorkspaceOf[j]
        BY <3>2, <3>4, <3>5, <3>7 DEF IInv, OneUnendedBuild, IsLatest
    <3> QED
        BY <3>6, <3>7
  <2> QED
      BY <2>1, <2>2
<1> QED
    BY <1>1, <1>2, <1>3, <1>4, <1>5, <1>6, <1>7, <1>8, <1>9 DEF IInv

\* Inserting a template job.
LEMMA InsertTemplateJobPreserves ==
    ASSUME IInv, NEW j \in Jobs, InsertTemplateJob(j)
    PROVE  IInv'
<1>1. TypeOK'
    BY DEF IInv, TypeOK, InsertTemplateJob, data, daemon
<1>2. RowsConsistent'
    BY DEF IInv, RowsConsistent, InsertTemplateJob, data, daemon
<1>3. NumbersContiguous'
    BY DEF IInv, NumbersContiguous, Builds, IsBuild, InsertTemplateJob, data, daemon
<1>4. SnapshotsValid'
    BY DEF IInv, SnapshotsValid, Builds, IsBuild, InsertTemplateJob, data, daemon
<1>5. RpcsValid'
    BY DEF IInv, RpcsValid, IsBuild, InsertTemplateJob, data, daemon
<1>6. DaemonsValid'
    BY DEF IInv, DaemonsValid, Busy, InsertTemplateJob, data, daemon
<1>7. HandlersValid'
    BY DEF IInv, HandlersValid, IsBuild, InsertTemplateJob, data, daemon
<1>8. ResultsRecorded'
    BY DEF IInv, ResultsRecorded, IsBuild, InsertTemplateJob, data, daemon
<1>9. OneUnendedBuild'
    BY DEF IInv, OneUnendedBuild, Builds, IsBuild, IsLatest, InsertTemplateJob, data, daemon
<1> QED
    BY <1>1, <1>2, <1>3, <1>4, <1>5, <1>6, <1>7, <1>8, <1>9 DEF IInv

\* The passing of time.
LEMMA TimePassesPreserves ==
    ASSUME IInv, NEW j \in Jobs, TimePasses(j)
    PROVE  IInv'
<1>1. TypeOK'
    BY DEF IInv, TypeOK, TimePasses, data, daemon
<1>2. RowsConsistent'
    BY DEF IInv, RowsConsistent, TimePasses, data, daemon
<1>3. NumbersContiguous'
    BY DEF IInv, NumbersContiguous, Builds, IsBuild, TimePasses, data, daemon
<1>4. SnapshotsValid'
    BY DEF IInv, SnapshotsValid, Builds, IsBuild, TimePasses, data, daemon
<1>5. RpcsValid'
    BY DEF IInv, RpcsValid, IsBuild, TimePasses, data, daemon
<1>6. DaemonsValid'
    BY DEF IInv, DaemonsValid, Busy, TimePasses, data, daemon
<1>7. HandlersValid'
    BY DEF IInv, HandlersValid, IsBuild, TimePasses, data, daemon
<1>8. ResultsRecorded'
    BY DEF IInv, ResultsRecorded, IsBuild, TimePasses, data, daemon
<1>9. OneUnendedBuild'
    BY DEF IInv, OneUnendedBuild, Builds, IsBuild, IsLatest, TimePasses, data, daemon
<1> QED
    BY <1>1, <1>2, <1>3, <1>4, <1>5, <1>6, <1>7, <1>8, <1>9 DEF IInv

\* unhangJob: the fetch.
LEMMA UnhangFetchPreserves ==
    ASSUME IInv, NEW j \in Jobs, UnhangFetch(j)
    PROVE  IInv'
<1>1. TypeOK'
    BY DEF IInv, TypeOK, Unhangs, UnhangFetch, row, data, daemon
<1>2. RowsConsistent'
    BY DEF IInv, RowsConsistent, UnhangFetch, row, data, daemon
<1>3. NumbersContiguous'
    BY DEF IInv, NumbersContiguous, Builds, IsBuild, UnhangFetch, row, data, daemon
<1>4. SnapshotsValid'
    BY DEF IInv, SnapshotsValid, Builds, IsBuild, UnhangFetch, row, data, daemon
<1>5. RpcsValid'
    BY DEF IInv, RpcsValid, IsBuild, UnhangFetch, row, data, daemon
<1>6. DaemonsValid'
    BY DEF IInv, DaemonsValid, Busy, UnhangFetch, row, data, daemon
<1>7. HandlersValid'
    BY DEF IInv, HandlersValid, IsBuild, UnhangFetch, row, data, daemon
<1>8. ResultsRecorded'
    BY DEF IInv, ResultsRecorded, IsBuild, UnhangFetch, row, data, daemon
<1>9. OneUnendedBuild'
    BY DEF IInv, OneUnendedBuild, Builds, IsBuild, IsLatest, UnhangFetch, row, data, daemon
<1> QED
    BY <1>1, <1>2, <1>3, <1>4, <1>5, <1>6, <1>7, <1>8, <1>9 DEF IInv

\* unhangJob: a state is copied only to a build that has no result.
LEMMA UnhangMarkPreserves ==
    ASSUME IInv, NEW j \in Jobs, UnhangMark(j)
    PROVE  IInv'
<1>1. TypeOK'
  <2>1. PICK s \in States \cup {None} : det' = [det EXCEPT ![j] = [pc |-> "locked", copy |-> s]]
      BY DEF IInv, TypeOK, Unhangs, UnhangMark
  <2>2. det' \in [Jobs -> Unhangs]
      BY <2>1 DEF IInv, TypeOK, Unhangs
  <2> QED
      BY <2>2 DEF IInv, TypeOK, UnhangMark, row, data, daemon
<1>2. RowsConsistent'
    BY DEF IInv, RowsConsistent, UnhangMark, IsPrevious, row, data, daemon
<1>3. NumbersContiguous'
    BY DEF IInv, NumbersContiguous, Builds, IsBuild, UnhangMark, IsPrevious, row, data,
       daemon
<1>4. SnapshotsValid'
    BY DEF IInv, SnapshotsValid, Builds, IsBuild, UnhangMark, IsPrevious, row, data, daemon
<1>5. RpcsValid'
    BY DEF IInv, RpcsValid, IsBuild, UnhangMark, IsPrevious, row, data, daemon
<1>6. DaemonsValid'
    BY DEF IInv, DaemonsValid, Busy, UnhangMark, IsPrevious, row, data, daemon
<1>7. HandlersValid'
  <2>1. UNCHANGED <<inserted, started, resources, cancel>>
      BY DEF UnhangMark, row, data
  <2>2. det[j].pc = "fetched"
      BY DEF UnhangMark
  <2>3. CASE IsBuild(j) /\ state[j] = {}
    <3>1. resources[j] = 0
      <4>1. resources[j] \in Nat
          BY DEF IInv, TypeOK
      <4>2. ~(resources[j] > 0)
          BY <2>3 DEF IInv, ResultsRecorded
      <4> QED
          BY <4>1, <4>2
    <3>2. det'[j].pc = "locked" /\ \A i \in Jobs : i # j => det'[i] = det[i]
        BY DEF UnhangMark, IInv, TypeOK, Unhangs
    <3> QED
        BY <2>1, <2>2, <2>3, <3>1, <3>2 DEF IInv, HandlersValid
  <2>4. CASE ~(IsBuild(j) /\ state[j] = {})
    <3>1. det' = [det EXCEPT ![j].pc = "locked"]
        BY <2>4 DEF UnhangMark
    <3> QED
        BY <2>1, <2>2, <3>1 DEF IInv, TypeOK, Unhangs, HandlersValid
  <2> QED
      BY <2>3, <2>4
<1>8. ResultsRecorded'
    BY DEF IInv, ResultsRecorded, IsBuild, UnhangMark, IsPrevious, row, data, daemon
<1>9. OneUnendedBuild'
    BY DEF IInv, OneUnendedBuild, Builds, IsBuild, IsLatest, UnhangMark, IsPrevious, row,
       data, daemon
<1> QED
    BY <1>1, <1>2, <1>3, <1>4, <1>5, <1>6, <1>7, <1>8, <1>9 DEF IInv

\* unhangJob: the commit.
LEMMA UnhangCommitPreserves ==
    ASSUME IInv, NEW j \in Jobs, UnhangCommit(j)
    PROVE  IInv'
<1>1. TypeOK'
  <2>1. det' \in [Jobs -> Unhangs] /\ state' \in [Jobs -> States]
      BY DEF IInv, TypeOK, Unhangs, UnhangCommit
  <2> QED
      BY <2>1 DEF IInv, TypeOK, UnhangCommit, WriteComplete, daemon
<1>2. RowsConsistent'
    BY DEF IInv, TypeOK, RowsConsistent, RpcsValid, DaemonsValid, HandlersValid,
       UnhangCommit, WriteComplete, daemon
<1>3. NumbersContiguous'
    BY DEF IInv, NumbersContiguous, Builds, IsBuild, UnhangCommit, WriteComplete, daemon
<1>4. SnapshotsValid'
    BY DEF IInv, SnapshotsValid, Builds, IsBuild, UnhangCommit, WriteComplete, daemon
<1>5. RpcsValid'
    BY DEF IInv, RpcsValid, IsBuild, UnhangCommit, WriteComplete, daemon
<1>6. DaemonsValid'
    BY DEF IInv, DaemonsValid, Busy, UnhangCommit, WriteComplete, daemon
<1>7. HandlersValid'
    BY DEF IInv, HandlersValid, IsBuild, UnhangCommit, WriteComplete, daemon
<1>8. ResultsRecorded'
    BY DEF IInv, TypeOK, ResultsRecorded, IsBuild, RowsConsistent, RpcsValid,
       HandlersValid, UnhangCommit, WriteComplete, daemon
<1>9. OneUnendedBuild'
    BY DEF IInv, OneUnendedBuild, Builds, IsBuild, IsLatest, UnhangCommit, WriteComplete,
       daemon
<1> QED
    BY <1>1, <1>2, <1>3, <1>4, <1>5, <1>6, <1>7, <1>8, <1>9 DEF IInv

\* unhangJob: the rollback.
LEMMA UnhangAbortPreserves ==
    ASSUME IInv, NEW j \in Jobs, UnhangAbort(j)
    PROVE  IInv'
<1>1. TypeOK'
    BY DEF IInv, TypeOK, Unhangs, UnhangAbort, row, data, daemon
<1>2. RowsConsistent'
    BY DEF IInv, RowsConsistent, UnhangAbort, row, data, daemon
<1>3. NumbersContiguous'
    BY DEF IInv, NumbersContiguous, Builds, IsBuild, UnhangAbort, row, data, daemon
<1>4. SnapshotsValid'
    BY DEF IInv, SnapshotsValid, Builds, IsBuild, UnhangAbort, row, data, daemon
<1>5. RpcsValid'
    BY DEF IInv, RpcsValid, IsBuild, UnhangAbort, row, data, daemon
<1>6. DaemonsValid'
    BY DEF IInv, DaemonsValid, Busy, UnhangAbort, row, data, daemon
<1>7. HandlersValid'
    BY DEF IInv, HandlersValid, IsBuild, UnhangAbort, row, data, daemon
<1>8. ResultsRecorded'
    BY DEF IInv, ResultsRecorded, IsBuild, UnhangAbort, row, data, daemon
<1>9. OneUnendedBuild'
    BY DEF IInv, OneUnendedBuild, Builds, IsBuild, IsLatest, UnhangAbort, row, data, daemon
<1> QED
    BY <1>1, <1>2, <1>3, <1>4, <1>5, <1>6, <1>7, <1>8, <1>9 DEF IInv

\* AcquireProvisionerJob gives a job to one daemon.
LEMMA AcquireProvisionerJobPreserves ==
    ASSUME IInv, NEW d \in Daemons, AcquireProvisionerJob(d)
    PROVE  IInv'
<1>1. TypeOK'
    BY DEF IInv, TypeOK, States, Phases, AcquireProvisionerJob, Acquirable, data
<1>2. RowsConsistent'
    BY DEF IInv, TypeOK, RowsConsistent, AcquireProvisionerJob, Acquirable, data
<1>3. NumbersContiguous'
    BY DEF IInv, NumbersContiguous, Builds, IsBuild, AcquireProvisionerJob, Acquirable, data
<1>4. SnapshotsValid'
    BY DEF IInv, SnapshotsValid, Builds, IsBuild, AcquireProvisionerJob, data
<1>5. RpcsValid'
    BY DEF IInv, RpcsValid, IsBuild, AcquireProvisionerJob, Acquirable, data
<1>6. DaemonsValid'
    BY DEF IInv, TypeOK, DaemonsValid, Busy, RowsConsistent, RpcsValid,
       AcquireProvisionerJob, Acquirable, data
<1>7. HandlersValid'
    BY DEF IInv, HandlersValid, IsBuild, AcquireProvisionerJob, Acquirable, data
<1>8. ResultsRecorded'
    BY DEF IInv, ResultsRecorded, IsBuild, AcquireProvisionerJob, Acquirable, data
<1>9. OneUnendedBuild'
    BY DEF IInv, OneUnendedBuild, Builds, IsBuild, IsLatest, AcquireProvisionerJob,
       Acquirable, data
<1> QED
    BY <1>1, <1>2, <1>3, <1>4, <1>5, <1>6, <1>7, <1>8, <1>9 DEF IInv

\* The job is sent to its daemon.
LEMMA AcquireSendPreserves ==
    ASSUME IInv, NEW d \in Daemons, AcquireSend(d)
    PROVE  IInv'
<1>1. TypeOK'
  <2>1. job[d] \in Jobs
      BY DEF IInv, TypeOK, DaemonsValid, AcquireSend
  <2>2. phase' \in [Daemons -> Phases] /\ base' \in [Daemons -> States]
      BY <2>1 DEF IInv, TypeOK, Phases, AcquireSend
  <2>3. work' \subseteq Daemons \X Jobs
      BY <2>1 DEF IInv, TypeOK, AcquireSend
  <2> QED
      BY <2>2, <2>3 DEF IInv, TypeOK, AcquireSend, row, data
<1>2. RowsConsistent'
    BY DEF IInv, RowsConsistent, AcquireSend, row, data
<1>3. NumbersContiguous'
    BY DEF IInv, NumbersContiguous, Builds, IsBuild, AcquireSend, row, data
<1>4. SnapshotsValid'
    BY DEF IInv, SnapshotsValid, Builds, IsBuild, AcquireSend, row, data
<1>5. RpcsValid'
    BY DEF IInv, RpcsValid, IsBuild, AcquireSend, row, data
<1>6. DaemonsValid'
    BY DEF IInv, DaemonsValid, Busy, AcquireSend, row, data
<1>7. HandlersValid'
    BY DEF IInv, HandlersValid, IsBuild, AcquireSend, row, data
<1>8. ResultsRecorded'
    BY DEF IInv, ResultsRecorded, IsBuild, AcquireSend, row, data
<1>9. OneUnendedBuild'
    BY DEF IInv, OneUnendedBuild, Builds, IsBuild, IsLatest, AcquireSend, row, data
<1> QED
    BY <1>1, <1>2, <1>3, <1>4, <1>5, <1>6, <1>7, <1>8, <1>9 DEF IInv

\* acquireProtoJob fails the job.
LEMMA AcquireInvalidPreserves ==
    ASSUME IInv, NEW d \in Daemons, AcquireInvalid(d)
    PROVE  IInv'
<1>1. TypeOK'
    BY DEF IInv, TypeOK, DaemonsValid, States, Phases, AcquireInvalid, WriteComplete,
       Release, data
<1>2. RowsConsistent'
    BY DEF IInv, TypeOK, RowsConsistent, RpcsValid, DaemonsValid, HandlersValid,
       AcquireInvalid, WriteComplete, Release, data
<1>3. NumbersContiguous'
    BY DEF IInv, NumbersContiguous, Builds, IsBuild, AcquireInvalid, WriteComplete,
       Release, data
<1>4. SnapshotsValid'
    BY DEF IInv, SnapshotsValid, Builds, IsBuild, AcquireInvalid, WriteComplete, Release,
       data
<1>5. RpcsValid'
    BY DEF IInv, RpcsValid, IsBuild, AcquireInvalid, WriteComplete, Release, data
<1>6. DaemonsValid'
    BY DEF IInv, TypeOK, DaemonsValid, Busy, AcquireInvalid, WriteComplete, Release, data
<1>7. HandlersValid'
    BY DEF IInv, HandlersValid, IsBuild, AcquireInvalid, WriteComplete, Release, data
<1>8. ResultsRecorded'
    BY DEF IInv, ResultsRecorded, IsBuild, AcquireInvalid, WriteComplete, Release, data
<1>9. OneUnendedBuild'
    BY DEF IInv, OneUnendedBuild, Builds, IsBuild, IsLatest, AcquireInvalid,
       WriteComplete, Release, data
<1> QED
    BY <1>1, <1>2, <1>3, <1>4, <1>5, <1>6, <1>7, <1>8, <1>9 DEF IInv

\* AcquireJobWithCancel fails the job.
LEMMA AcquireBrokenPreserves ==
    ASSUME IInv, NEW d \in Daemons, AcquireBroken(d)
    PROVE  IInv'
<1>1. TypeOK'
    BY DEF IInv, TypeOK, DaemonsValid, States, Phases, AcquireBroken, WriteComplete,
       Release, data
<1>2. RowsConsistent'
    BY DEF IInv, TypeOK, RowsConsistent, RpcsValid, DaemonsValid, HandlersValid,
       AcquireBroken, WriteComplete, Release, data
<1>3. NumbersContiguous'
    BY DEF IInv, NumbersContiguous, Builds, IsBuild, AcquireBroken, WriteComplete,
       Release, data
<1>4. SnapshotsValid'
    BY DEF IInv, SnapshotsValid, Builds, IsBuild, AcquireBroken, WriteComplete, Release,
       data
<1>5. RpcsValid'
    BY DEF IInv, RpcsValid, IsBuild, AcquireBroken, WriteComplete, Release, data
<1>6. DaemonsValid'
    BY DEF IInv, TypeOK, DaemonsValid, Busy, AcquireBroken, WriteComplete, Release, data
<1>7. HandlersValid'
    BY DEF IInv, HandlersValid, IsBuild, AcquireBroken, WriteComplete, Release, data
<1>8. ResultsRecorded'
    BY DEF IInv, ResultsRecorded, IsBuild, AcquireBroken, WriteComplete, Release, data
<1>9. OneUnendedBuild'
    BY DEF IInv, OneUnendedBuild, Builds, IsBuild, IsLatest, AcquireBroken, WriteComplete,
       Release, data
<1> QED
    BY <1>1, <1>2, <1>3, <1>4, <1>5, <1>6, <1>7, <1>8, <1>9 DEF IInv

\* The job is lost on its way.
LEMMA AcquireLostPreserves ==
    ASSUME IInv, NEW d \in Daemons, AcquireLost(d)
    PROVE  IInv'
<1>1. TypeOK'
    BY DEF IInv, TypeOK, States, Phases, AcquireLost, Release, row, data
<1>2. RowsConsistent'
    BY DEF IInv, RowsConsistent, AcquireLost, Release, row, data
<1>3. NumbersContiguous'
    BY DEF IInv, NumbersContiguous, Builds, IsBuild, AcquireLost, Release, row, data
<1>4. SnapshotsValid'
    BY DEF IInv, SnapshotsValid, Builds, IsBuild, AcquireLost, Release, row, data
<1>5. RpcsValid'
    BY DEF IInv, RpcsValid, IsBuild, AcquireLost, Release, row, data
<1>6. DaemonsValid'
    BY DEF IInv, TypeOK, DaemonsValid, Busy, AcquireLost, Release, row, data
<1>7. HandlersValid'
    BY DEF IInv, HandlersValid, IsBuild, AcquireLost, Release, row, data
<1>8. ResultsRecorded'
    BY DEF IInv, ResultsRecorded, IsBuild, AcquireLost, Release, row, data
<1>9. OneUnendedBuild'
    BY DEF IInv, OneUnendedBuild, Builds, IsBuild, IsLatest, AcquireLost, Release, row, data
<1> QED
    BY <1>1, <1>2, <1>3, <1>4, <1>5, <1>6, <1>7, <1>8, <1>9 DEF IInv

\* UpdateJob.
LEMMA UpdateJobPreserves ==
    ASSUME IInv, NEW d \in Daemons, UpdateJob(d)
    PROVE  IInv'
<1>1. TypeOK'
    BY DEF IInv, TypeOK, UpdateJob, data, daemon
<1>2. RowsConsistent'
    BY DEF IInv, RowsConsistent, UpdateJob, data, daemon
<1>3. NumbersContiguous'
    BY DEF IInv, NumbersContiguous, Builds, IsBuild, UpdateJob, data, daemon
<1>4. SnapshotsValid'
    BY DEF IInv, SnapshotsValid, Builds, IsBuild, UpdateJob, data, daemon
<1>5. RpcsValid'
    BY DEF IInv, RpcsValid, IsBuild, UpdateJob, data, daemon
<1>6. DaemonsValid'
    BY DEF IInv, DaemonsValid, Busy, UpdateJob, data, daemon
<1>7. HandlersValid'
    BY DEF IInv, HandlersValid, IsBuild, UpdateJob, data, daemon
<1>8. ResultsRecorded'
    BY DEF IInv, ResultsRecorded, IsBuild, UpdateJob, data, daemon
<1>9. OneUnendedBuild'
    BY DEF IInv, OneUnendedBuild, Builds, IsBuild, IsLatest, UpdateJob, data, daemon
<1> QED
    BY <1>1, <1>2, <1>3, <1>4, <1>5, <1>6, <1>7, <1>8, <1>9 DEF IInv

\* The apply.
LEMMA ApplyPreserves ==
    ASSUME IInv, NEW d \in Daemons, Apply(d)
    PROVE  IInv'
<1>1. TypeOK'
    BY DEF IInv, TypeOK, States, Phases, Apply, row, data
<1>2. RowsConsistent'
    BY DEF IInv, RowsConsistent, Apply, row, data
<1>3. NumbersContiguous'
    BY DEF IInv, NumbersContiguous, Builds, IsBuild, Apply, row, data
<1>4. SnapshotsValid'
    BY DEF IInv, SnapshotsValid, Builds, IsBuild, Apply, row, data
<1>5. RpcsValid'
    BY DEF IInv, RpcsValid, IsBuild, Apply, row, data
<1>6. DaemonsValid'
    BY DEF IInv, DaemonsValid, Busy, Apply, row, data
<1>7. HandlersValid'
    BY DEF IInv, HandlersValid, IsBuild, Apply, row, data
<1>8. ResultsRecorded'
    BY DEF IInv, ResultsRecorded, IsBuild, Apply, row, data
<1>9. OneUnendedBuild'
    BY DEF IInv, OneUnendedBuild, Builds, IsBuild, IsLatest, Apply, row, data
<1> QED
    BY <1>1, <1>2, <1>3, <1>4, <1>5, <1>6, <1>7, <1>8, <1>9 DEF IInv

\* The parts of the invariant that no daemon is involved in stay as long as the tables and their
\* handlers do.
LEMMA TablesKept ==
    ASSUME IInv, UNCHANGED <<row, data, build, cancel, det, hung>>
    PROVE  /\ RowsConsistent' /\ NumbersContiguous' /\ SnapshotsValid'
           /\ HandlersValid' /\ ResultsRecorded' /\ OneUnendedBuild'
<1>1. UNCHANGED <<inserted, started, canceled, completed, errored, stale, worker, ended,
                  number, state, resources, deleted, build, cancel, det, hung>>
    BY DEF row, data
<1>2. RowsConsistent'
    BY <1>1 DEF IInv, RowsConsistent
<1>3. NumbersContiguous'
    BY <1>1 DEF IInv, NumbersContiguous, Builds, IsBuild
<1>4. SnapshotsValid'
    BY <1>1 DEF IInv, SnapshotsValid, Builds, IsBuild
<1>5. HandlersValid'
    BY <1>1 DEF IInv, HandlersValid, IsBuild
<1>6. ResultsRecorded'
    BY <1>1 DEF IInv, ResultsRecorded, IsBuild
<1>7. OneUnendedBuild'
    BY <1>1 DEF IInv, OneUnendedBuild, IsLatest, Builds, IsBuild
<1> QED
    BY <1>2, <1>3, <1>4, <1>5, <1>6, <1>7

\* The daemon sends CompleteJob.
LEMMA ReportCompletePreserves ==
    ASSUME IInv, NEW d \in Daemons, ReportComplete(d)
    PROVE  IInv'
<1>1. TypeOK'
    BY DEF IInv, TypeOK, DaemonsValid, States, RpcLocations, Requests, Phases,
       ReportComplete, Stopped, Send, Unused, row, data
<1>2. UNCHANGED <<row, data, build, cancel, det, hung>>
    BY DEF ReportComplete, Send
<1>3. RpcsValid'
  <2>1. PICK q \in Rpcs :
            rpc' = [rpc EXCEPT ![q] = [pc |-> "sent", kind |-> "complete", job |-> job[d],
                       daemon |-> d,
                       state |-> IF IsBuild(job[d]) THEN base[d] \cup {job[d]} ELSE None]]
      BY DEF ReportComplete, Send, Unused
  <2>2. job[d] \in started
      BY DEF IInv, DaemonsValid, ReportComplete
  <2>3. UNCHANGED <<started, resources>>
      BY DEF ReportComplete, Send, row, data
  <2>4. base[d] \cup {job[d]} # None
    <3>1. base[d] \cup {job[d]} \in SUBSET Jobs
        BY <2>2 DEF IInv, TypeOK, States
    <3> QED
        BY <3>1
  <2> QED
      BY <2>1, <2>2, <2>3, <2>4 DEF IInv, TypeOK, RpcsValid, IsBuild
<1>4. DaemonsValid'
    BY DEF IInv, TypeOK, DaemonsValid, Busy, ReportComplete, Send, Unused, row, data
<1> QED
    BY <1>1, <1>2, <1>3, <1>4, TablesKept DEF IInv

\* The daemon sends FailJob.
LEMMA ReportFailPreserves ==
    ASSUME IInv, NEW d \in Daemons, ReportFail(d)
    PROVE  IInv'
<1>1. TypeOK'
    BY DEF IInv, TypeOK, DaemonsValid, States, RpcLocations, Requests, Phases, ReportFail,
       Stopped, Send, Unused, row, data
<1>2. UNCHANGED <<row, data, build, cancel, det, hung>>
    BY DEF ReportFail, Send
<1>3. RpcsValid'
    BY DEF IInv, TypeOK, RpcsValid, IsBuild, RowsConsistent, DaemonsValid, ReportFail,
       Send, Unused, row, data
<1>4. DaemonsValid'
    BY DEF IInv, TypeOK, DaemonsValid, Busy, ReportFail, Send, Unused, row, data
<1> QED
    BY <1>1, <1>2, <1>3, <1>4, TablesKept DEF IInv

\* Runner.Fail sends FailJob while the provisioner runs.
LEMMA FailRunningPreserves ==
    ASSUME IInv, NEW d \in Daemons, FailRunning(d)
    PROVE  IInv'
<1>1. TypeOK'
    BY DEF IInv, TypeOK, DaemonsValid, States, RpcLocations, Requests, Phases, FailRunning,
       Send, Unused, row, data
<1>2. UNCHANGED <<row, data, build, cancel, det, hung>>
    BY DEF FailRunning, Send
<1>3. RpcsValid'
    BY DEF IInv, TypeOK, RpcsValid, IsBuild, RowsConsistent, DaemonsValid, FailRunning,
       Send, Unused, row, data
<1>4. DaemonsValid'
    BY DEF IInv, TypeOK, DaemonsValid, Busy, FailRunning, Send, Unused, row, data
<1> QED
    BY <1>1, <1>2, <1>3, <1>4, TablesKept DEF IInv

\* The provisioner stops.
LEMMA WorkEndsPreserves ==
    ASSUME IInv, NEW d \in Daemons, NEW j \in Jobs, WorkEnds(d, j)
    PROVE  IInv'
<1>1. UNCHANGED <<inserted, started, canceled, completed, errored, stale, worker, ended,
                  number, state, resources, deleted, build, cancel, rpc, det,
                  phase, job, base, current, hung>>
    BY DEF WorkEnds, row, data, daemon
<1>2. TypeOK' /\ RowsConsistent' /\ RpcsValid'
    BY <1>1 DEF IInv, TypeOK, RowsConsistent, RpcsValid, IsBuild, WorkEnds
<1>3. NumbersContiguous' /\ SnapshotsValid' /\ OneUnendedBuild'
    BY <1>1 DEF IInv, NumbersContiguous, SnapshotsValid, OneUnendedBuild, IsLatest, Builds,
       IsBuild
<1>4. DaemonsValid' /\ HandlersValid' /\ ResultsRecorded'
    BY <1>1 DEF IInv, DaemonsValid, Busy, HandlersValid, ResultsRecorded, IsBuild
<1> QED
    BY <1>2, <1>3, <1>4 DEF IInv

\* The daemon sends its report again.
LEMMA RetryPreserves ==
    ASSUME IInv, NEW d \in Daemons, Retry(d)
    PROVE  IInv'
<1>1. TypeOK'
    BY DEF IInv, TypeOK, DaemonsValid, RowsConsistent, States, RpcLocations, Requests,
       Phases, Retry, Send, Unused, row, data
<1>2. UNCHANGED <<row, data, build, cancel, det, hung>>
    BY DEF Retry, Send
<1>3. RpcsValid'
    BY DEF IInv, TypeOK, RpcsValid, IsBuild, RowsConsistent, DaemonsValid, Retry, Send,
       Unused, row, data
<1>4. DaemonsValid'
    BY DEF IInv, TypeOK, DaemonsValid, Busy, Retry, Send, Unused, row, data
<1> QED
    BY <1>1, <1>2, <1>3, <1>4, TablesKept DEF IInv

\* The daemon sends FailJob after a CompleteJob that failed.
LEMMA FailAfterCompletePreserves ==
    ASSUME IInv, NEW d \in Daemons, FailAfterComplete(d)
    PROVE  IInv'
<1>1. TypeOK'
    BY DEF IInv, TypeOK, States, RpcLocations, Requests, Phases, FailAfterComplete, Send,
       Unused, row, data
<1>2. UNCHANGED <<row, data, build, cancel, det, hung>>
    BY DEF FailAfterComplete, Send
<1>3. RpcsValid'
    BY DEF IInv, TypeOK, RpcsValid, IsBuild, RowsConsistent, DaemonsValid,
       FailAfterComplete, Send, Unused, row, data
<1>4. DaemonsValid'
    BY DEF IInv, TypeOK, DaemonsValid, Busy, FailAfterComplete, Send, Unused, row, data
<1> QED
    BY <1>1, <1>2, <1>3, <1>4, TablesKept DEF IInv

\* The daemon gets the answer.
LEMMA ReportedPreserves ==
    ASSUME IInv, NEW d \in Daemons, Reported(d)
    PROVE  IInv'
<1>1. TypeOK'
    BY DEF IInv, TypeOK, States, Phases, Reported, Release, row, data
<1>2. RowsConsistent'
    BY DEF IInv, RowsConsistent, Reported, Release, row, data
<1>3. NumbersContiguous'
    BY DEF IInv, NumbersContiguous, Builds, IsBuild, Reported, Release, row, data
<1>4. SnapshotsValid'
    BY DEF IInv, SnapshotsValid, Builds, IsBuild, Reported, Release, row, data
<1>5. RpcsValid'
    BY DEF IInv, RpcsValid, IsBuild, Reported, Release, row, data
<1>6. DaemonsValid'
    BY DEF IInv, TypeOK, DaemonsValid, Busy, Reported, Release, row, data
<1>7. HandlersValid'
    BY DEF IInv, HandlersValid, IsBuild, Reported, Release, row, data
<1>8. ResultsRecorded'
    BY DEF IInv, ResultsRecorded, IsBuild, Reported, Release, row, data
<1>9. OneUnendedBuild'
    BY DEF IInv, OneUnendedBuild, Builds, IsBuild, IsLatest, Reported, Release, row, data
<1> QED
    BY <1>1, <1>2, <1>3, <1>4, <1>5, <1>6, <1>7, <1>8, <1>9 DEF IInv

\* The daemon dies.
LEMMA CrashPreserves ==
    ASSUME IInv, NEW d \in Daemons, Crash(d)
    PROVE  IInv'
<1>1. TypeOK'
    BY DEF IInv, TypeOK, States, Phases, Crash, row, data
<1>2. RowsConsistent'
    BY DEF IInv, RowsConsistent, Crash, row, data
<1>3. NumbersContiguous'
    BY DEF IInv, NumbersContiguous, Builds, IsBuild, Crash, row, data
<1>4. SnapshotsValid'
    BY DEF IInv, SnapshotsValid, Builds, IsBuild, Crash, row, data
<1>5. RpcsValid'
    BY DEF IInv, RpcsValid, IsBuild, Crash, row, data
<1>6. DaemonsValid'
    BY DEF IInv, DaemonsValid, Busy, Crash, row, data
<1>7. HandlersValid'
    BY DEF IInv, HandlersValid, IsBuild, Crash, row, data
<1>8. ResultsRecorded'
    BY DEF IInv, ResultsRecorded, IsBuild, Crash, row, data
<1>9. OneUnendedBuild'
    BY DEF IInv, OneUnendedBuild, Builds, IsBuild, IsLatest, Crash, row, data
<1> QED
    BY <1>1, <1>2, <1>3, <1>4, <1>5, <1>6, <1>7, <1>8, <1>9 DEF IInv

\* FailJob: the read.
LEMMA FailJobReadPreserves ==
    ASSUME IInv, NEW r \in Rpcs, FailJobRead(r)
    PROVE  IInv'
<1>1. TypeOK'
  <2>1. rpc' \in [Rpcs -> Requests]
      BY RpcGotoFrame DEF IInv, TypeOK, RpcLocations, FailJobRead, At
  <2> QED
      BY <2>1 DEF IInv, TypeOK, FailJobRead, At, row, data, daemon
<1>2. RowsConsistent'
    BY DEF IInv, RowsConsistent, FailJobRead, At, RpcGoto, row, data, daemon
<1>3. NumbersContiguous'
    BY DEF IInv, NumbersContiguous, Builds, IsBuild, FailJobRead, At, RpcGoto, row, data,
       daemon
<1>4. SnapshotsValid'
    BY DEF IInv, SnapshotsValid, Builds, IsBuild, FailJobRead, At, RpcGoto, row, data,
       daemon
<1>5. RpcsValid'
    BY DEF IInv, RpcsValid, IsBuild, FailJobRead, At, RpcGoto, row, data, daemon
<1>6. DaemonsValid'
    BY DEF IInv, DaemonsValid, Busy, FailJobRead, At, RpcGoto, row, data, daemon
<1>7. HandlersValid'
    BY DEF IInv, HandlersValid, IsBuild, FailJobRead, At, RpcGoto, row, data, daemon
<1>8. ResultsRecorded'
    BY DEF IInv, ResultsRecorded, IsBuild, FailJobRead, At, RpcGoto, row, data, daemon
<1>9. OneUnendedBuild'
    BY DEF IInv, OneUnendedBuild, Builds, IsBuild, IsLatest, FailJobRead, At, RpcGoto,
       row, data, daemon
<1> QED
    BY <1>1, <1>2, <1>3, <1>4, <1>5, <1>6, <1>7, <1>8, <1>9 DEF IInv

\* FailJob: the job is completed.
LEMMA FailJobWritePreserves ==
    ASSUME IInv, NEW r \in Rpcs, FailJobWrite(r)
    PROVE  IInv'
<1>1. TypeOK'
  <2>1. rpc' \in [Rpcs -> Requests]
      BY RpcGotoFrame DEF IInv, TypeOK, RpcLocations, FailJobWrite, RpcReply, At
  <2> QED
      BY <2>1 DEF IInv, TypeOK, RpcsValid, RowsConsistent, FailJobWrite, RpcReply, At,
         WriteComplete, row, data, daemon
<1>2. RowsConsistent'
    BY DEF IInv, TypeOK, RowsConsistent, RpcsValid, DaemonsValid, HandlersValid,
       FailJobWrite, At, RpcGoto, RpcReply, WriteComplete, data, daemon
<1>3. NumbersContiguous'
    BY DEF IInv, NumbersContiguous, Builds, IsBuild, FailJobWrite, At, RpcGoto, RpcReply,
       WriteComplete, data, daemon
<1>4. SnapshotsValid'
    BY DEF IInv, SnapshotsValid, Builds, IsBuild, FailJobWrite, At, RpcGoto, RpcReply,
       WriteComplete, data, daemon
<1>5. RpcsValid'
  <2>1. PICK l \in {"written", "ok", "error"} :
            RpcGoto(r, l) /\ (l = "written" => rpc[r].state # None)
      BY DEF FailJobWrite, RpcReply
  <2> QED
      BY <2>1, RpcGotoFrame DEF IInv, TypeOK, RowsConsistent, RpcLocations, RpcsValid,
         DaemonsValid,
         IsBuild, FailJobWrite, At, WriteComplete, data, daemon
<1>6. DaemonsValid'
  <2>1. PICK l \in {"written", "ok", "error"} :
            RpcGoto(r, l) /\ (l = "written" => rpc[r].state # None)
      BY DEF FailJobWrite, RpcReply
  <2> QED
      BY <2>1, RpcGotoFrame DEF IInv, TypeOK, RowsConsistent, RpcLocations, RpcsValid,
         DaemonsValid,
         Busy, FailJobWrite, At, WriteComplete, data, daemon
<1>7. HandlersValid'
    BY DEF IInv, HandlersValid, IsBuild, FailJobWrite, At, RpcGoto, RpcReply,
       WriteComplete, data, daemon
<1>8. ResultsRecorded'
    BY DEF IInv, ResultsRecorded, IsBuild, FailJobWrite, At, RpcGoto, RpcReply,
       WriteComplete, data, daemon
<1>9. OneUnendedBuild'
    BY DEF IInv, OneUnendedBuild, Builds, IsBuild, IsLatest, FailJobWrite, At, RpcGoto,
       RpcReply, WriteComplete, data, daemon
<1> QED
    BY <1>1, <1>2, <1>3, <1>4, <1>5, <1>6, <1>7, <1>8, <1>9 DEF IInv

\* FailJob: the state is stored.
LEMMA FailJobStatePreserves ==
    ASSUME IInv, NEW r \in Rpcs, FailJobState(r)
    PROVE  IInv'
<1>1. TypeOK'
  <2>1. rpc' \in [Rpcs -> Requests]
      BY RpcGotoFrame DEF IInv, TypeOK, RpcLocations, FailJobState, RpcReply, At
  <2>2. state' \in [Jobs -> States]
      BY DEF IInv, TypeOK, States, Requests, RpcsValid, RowsConsistent, FailJobState,
         RpcReply, At
  <2> QED
      BY <2>1, <2>2 DEF IInv, TypeOK, RpcsValid, RowsConsistent, FailJobState, RpcReply,
         At, row, data, daemon
<1>2. RowsConsistent'
    BY DEF IInv, RowsConsistent, FailJobState, At, RpcGoto, RpcReply, row, daemon
<1>3. NumbersContiguous'
    BY DEF IInv, NumbersContiguous, Builds, IsBuild, FailJobState, At, RpcGoto, RpcReply,
       row, daemon
<1>4. SnapshotsValid'
    BY DEF IInv, SnapshotsValid, Builds, IsBuild, FailJobState, At, RpcGoto, RpcReply,
       row, daemon
<1>5. RpcsValid'
    BY DEF IInv, RpcsValid, IsBuild, FailJobState, At, RpcGoto, RpcReply, row, daemon
<1>6. DaemonsValid'
    BY DEF IInv, DaemonsValid, Busy, FailJobState, At, RpcGoto, RpcReply, row, daemon
<1>7. HandlersValid'
    BY DEF IInv, HandlersValid, IsBuild, FailJobState, At, RpcGoto, RpcReply, row, daemon
<1>8. ResultsRecorded'
    BY DEF IInv, TypeOK, ResultsRecorded, IsBuild, RowsConsistent, RpcsValid,
       HandlersValid, FailJobState, At, RpcGoto, RpcReply, row, daemon
<1>9. OneUnendedBuild'
    BY DEF IInv, OneUnendedBuild, Builds, IsBuild, IsLatest, FailJobState, At, RpcGoto,
       RpcReply, row, daemon
<1> QED
    BY <1>1, <1>2, <1>3, <1>4, <1>5, <1>6, <1>7, <1>8, <1>9 DEF IInv

\* CompleteJob: the read.
LEMMA CompleteJobReadPreserves ==
    ASSUME IInv, NEW r \in Rpcs, CompleteJobRead(r)
    PROVE  IInv'
<1>1. TypeOK'
  <2>1. rpc' \in [Rpcs -> Requests]
      BY RpcGotoFrame DEF IInv, TypeOK, RpcLocations, CompleteJobRead, At
  <2> QED
      BY <2>1 DEF IInv, TypeOK, CompleteJobRead, At, row, data, daemon
<1>2. RowsConsistent'
    BY DEF IInv, RowsConsistent, CompleteJobRead, At, RpcGoto, row, data, daemon
<1>3. NumbersContiguous'
    BY DEF IInv, NumbersContiguous, Builds, IsBuild, CompleteJobRead, At, RpcGoto, row,
       data, daemon
<1>4. SnapshotsValid'
    BY DEF IInv, SnapshotsValid, Builds, IsBuild, CompleteJobRead, At, RpcGoto, row, data,
       daemon
<1>5. RpcsValid'
    BY DEF IInv, RpcsValid, IsBuild, CompleteJobRead, At, RpcGoto, row, data, daemon
<1>6. DaemonsValid'
    BY DEF IInv, DaemonsValid, Busy, CompleteJobRead, At, RpcGoto, row, data, daemon
<1>7. HandlersValid'
    BY DEF IInv, HandlersValid, IsBuild, CompleteJobRead, At, RpcGoto, row, data, daemon
<1>8. ResultsRecorded'
    BY DEF IInv, ResultsRecorded, IsBuild, CompleteJobRead, At, RpcGoto, row, data, daemon
<1>9. OneUnendedBuild'
    BY DEF IInv, OneUnendedBuild, Builds, IsBuild, IsLatest, CompleteJobRead, At, RpcGoto,
       row, data, daemon
<1> QED
    BY <1>1, <1>2, <1>3, <1>4, <1>5, <1>6, <1>7, <1>8, <1>9 DEF IInv

\* CompleteJob of a build, in one transaction.
LEMMA CompleteBuildPreserves ==
    ASSUME IInv, NEW r \in Rpcs, CompleteBuild(r)
    PROVE  IInv'
<1>1. TypeOK'
  <2>1. rpc' \in [Rpcs -> Requests]
      BY RpcGotoFrame DEF IInv, TypeOK, RpcLocations, CompleteBuild, RpcReply, At
  <2>2. state' \in [Jobs -> States]
      BY DEF IInv, TypeOK, States, Requests, RpcsValid, RowsConsistent, CompleteBuild, At
  <2>3. resources' \in [Jobs -> Nat]
    <3>1. resources \in [Jobs -> Nat]
        BY DEF IInv, TypeOK
    <3>2. rpc[r].job \in Jobs
        BY DEF IInv, TypeOK, RpcsValid, CompleteBuild, At
    <3>3. resources' = [resources EXCEPT ![rpc[r].job] = resources[rpc[r].job] + 1]
        BY DEF CompleteBuild, InsertResources
    <3>4. resources[rpc[r].job] + 1 \in Nat
      <4>1. resources[rpc[r].job] \in Nat
          BY <3>1, <3>2
      <4>2. \A n \in Nat : n + 1 \in Nat
          OBVIOUS
      <4> QED
          BY <4>1, <4>2
    <3> QED
        BY <3>1, <3>3, <3>4
  <2>4. rpc[r].job \in Jobs
      BY DEF IInv, TypeOK, RpcsValid, CompleteBuild, At
  <2>5. deleted' \subseteq Workspaces
    <3>1. WorkspaceOf[rpc[r].job] \in Workspaces /\ deleted \subseteq Workspaces
        BY <2>4 DEF IInv, TypeOK
    <3> QED
        BY <3>1 DEF CompleteBuild
  <2> QED
      BY <2>1, <2>2, <2>3, <2>4, <2>5 DEF IInv, TypeOK, CompleteBuild, WriteComplete, daemon
<1>2. RowsConsistent'
    BY DEF IInv, TypeOK, RowsConsistent, RpcsValid, DaemonsValid, HandlersValid, RowFree,
       CompleteBuild, At, RpcGoto, RpcReply, WriteComplete, InsertResources, daemon
<1>3. NumbersContiguous'
    BY DEF IInv, NumbersContiguous, Builds, IsBuild, CompleteBuild, At, RpcGoto, RpcReply,
       WriteComplete, InsertResources, RowFree, daemon
<1>4. SnapshotsValid'
    BY DEF IInv, SnapshotsValid, Builds, IsBuild, CompleteBuild, At, RpcGoto, RpcReply,
       WriteComplete, InsertResources, RowFree, daemon
<1>5. RpcsValid'
    BY DEF IInv, RpcsValid, IsBuild, CompleteBuild, At, RpcGoto, RpcReply, WriteComplete,
       InsertResources, RowFree, daemon
<1>6. DaemonsValid'
    BY DEF IInv, DaemonsValid, Busy, CompleteBuild, At, RpcGoto, RpcReply, WriteComplete,
       InsertResources, RowFree, daemon
<1>7. HandlersValid'
    BY DEF IInv, TypeOK, HandlersValid, IsBuild, RowsConsistent, RpcsValid, DaemonsValid,
       ResultsRecorded, RowFree, CompleteBuild, At, RpcGoto, RpcReply, WriteComplete,
       InsertResources, daemon
<1>8. ResultsRecorded'
    BY DEF IInv, TypeOK, ResultsRecorded, IsBuild, RowsConsistent, RpcsValid,
       HandlersValid, RowFree, CompleteBuild, At, RpcGoto, RpcReply, WriteComplete,
       InsertResources, daemon
<1>9. OneUnendedBuild'
    BY DEF IInv, OneUnendedBuild, Builds, IsBuild, IsLatest, CompleteBuild, At, RpcGoto,
       RpcReply, WriteComplete, InsertResources, RowFree, daemon
<1> QED
    BY <1>1, <1>2, <1>3, <1>4, <1>5, <1>6, <1>7, <1>8, <1>9 DEF IInv

\* CompleteJob of a template job: the results.
LEMMA CompleteTemplateInsertPreserves ==
    ASSUME IInv, NEW r \in Rpcs, CompleteTemplateInsert(r)
    PROVE  IInv'
<1>1. TypeOK'
  <2>1. rpc' \in [Rpcs -> Requests]
      BY RpcGotoFrame DEF IInv, TypeOK, RpcLocations, CompleteTemplateInsert, At
  <2>2. resources' \in [Jobs -> Nat]
    <3>1. resources \in [Jobs -> Nat]
        BY DEF IInv, TypeOK
    <3>2. rpc[r].job \in Jobs
        BY DEF IInv, TypeOK, RpcsValid, CompleteTemplateInsert, At
    <3>3. resources' = [resources EXCEPT ![rpc[r].job] = resources[rpc[r].job] + 1]
        BY DEF CompleteTemplateInsert, InsertResources
    <3>4. resources[rpc[r].job] + 1 \in Nat
      <4>1. resources[rpc[r].job] \in Nat
          BY <3>1, <3>2
      <4>2. \A n \in Nat : n + 1 \in Nat
          OBVIOUS
      <4> QED
          BY <4>1, <4>2
    <3> QED
        BY <3>1, <3>3, <3>4
  <2> QED
      BY <2>1, <2>2 DEF IInv, TypeOK, CompleteTemplateInsert, row, daemon
<1>2. RowsConsistent'
    BY DEF IInv, RowsConsistent, CompleteTemplateInsert, At, RpcGoto, InsertResources,
       row, daemon
<1>3. NumbersContiguous'
    BY DEF IInv, NumbersContiguous, Builds, IsBuild, CompleteTemplateInsert, At, RpcGoto,
       InsertResources, row, daemon
<1>4. SnapshotsValid'
    BY DEF IInv, SnapshotsValid, Builds, IsBuild, CompleteTemplateInsert, At, RpcGoto,
       InsertResources, row, daemon
<1>5. RpcsValid'
    BY DEF IInv, TypeOK, RpcsValid, IsBuild, CompleteTemplateInsert, At, RpcGoto,
       InsertResources, row, daemon
<1>6. DaemonsValid'
    BY DEF IInv, DaemonsValid, Busy, CompleteTemplateInsert, At, RpcGoto, InsertResources,
       row, daemon
<1>7. HandlersValid'
    BY DEF IInv, HandlersValid, IsBuild, CompleteTemplateInsert, At, RpcGoto,
       InsertResources, row, daemon
<1>8. ResultsRecorded'
    BY DEF IInv, TypeOK, ResultsRecorded, IsBuild, RowsConsistent, RpcsValid,
       HandlersValid, CompleteTemplateInsert, At, RpcGoto, InsertResources, row, daemon
<1>9. OneUnendedBuild'
    BY DEF IInv, OneUnendedBuild, Builds, IsBuild, IsLatest, CompleteTemplateInsert, At,
       RpcGoto, InsertResources, row, daemon
<1> QED
    BY <1>1, <1>2, <1>3, <1>4, <1>5, <1>6, <1>7, <1>8, <1>9 DEF IInv

\* CompleteJob of a template job: the completion.
LEMMA CompleteTemplatePreserves ==
    ASSUME IInv, NEW r \in Rpcs, CompleteTemplate(r)
    PROVE  IInv'
<1>1. TypeOK'
  <2>1. rpc' \in [Rpcs -> Requests]
      BY RpcGotoFrame DEF IInv, TypeOK, RpcLocations, CompleteTemplate, RpcReply, At
  <2> QED
      BY <2>1 DEF IInv, TypeOK, RpcsValid, RowsConsistent, CompleteTemplate, RpcReply, At,
         WriteComplete, row, data, daemon
<1>2. RowsConsistent'
    BY DEF IInv, TypeOK, RowsConsistent, RpcsValid, DaemonsValid, HandlersValid,
       CompleteTemplate, At, RpcGoto, RpcReply, WriteComplete, data, daemon
<1>3. NumbersContiguous'
    BY DEF IInv, NumbersContiguous, Builds, IsBuild, CompleteTemplate, At, RpcGoto,
       RpcReply, WriteComplete, data, daemon
<1>4. SnapshotsValid'
    BY DEF IInv, SnapshotsValid, Builds, IsBuild, CompleteTemplate, At, RpcGoto, RpcReply,
       WriteComplete, data, daemon
<1>5. RpcsValid'
    BY DEF IInv, RpcsValid, IsBuild, CompleteTemplate, At, RpcGoto, RpcReply,
       WriteComplete, data, daemon
<1>6. DaemonsValid'
    BY DEF IInv, DaemonsValid, Busy, CompleteTemplate, At, RpcGoto, RpcReply,
       WriteComplete, data, daemon
<1>7. HandlersValid'
    BY DEF IInv, HandlersValid, IsBuild, CompleteTemplate, At, RpcGoto, RpcReply,
       WriteComplete, data, daemon
<1>8. ResultsRecorded'
    BY DEF IInv, TypeOK, ResultsRecorded, IsBuild, RowsConsistent, RpcsValid,
       HandlersValid, CompleteTemplate, At, RpcGoto, RpcReply, WriteComplete, data, daemon
<1>9. OneUnendedBuild'
    BY DEF IInv, OneUnendedBuild, Builds, IsBuild, IsLatest, CompleteTemplate, At,
       RpcGoto, RpcReply, WriteComplete, data, daemon
<1> QED
    BY <1>1, <1>2, <1>3, <1>4, <1>5, <1>6, <1>7, <1>8, <1>9 DEF IInv

\* A request that fails.
LEMMA RpcAbortPreserves ==
    ASSUME IInv, NEW r \in Rpcs, RpcAbort(r)
    PROVE  IInv'
<1>1. TypeOK'
  <2>1. rpc' \in [Rpcs -> Requests]
      BY RpcGotoFrame DEF IInv, TypeOK, RpcLocations, RpcAbort
  <2> QED
      BY <2>1 DEF IInv, TypeOK, RpcAbort, row, data, daemon
<1>2. RowsConsistent'
    BY DEF IInv, RowsConsistent, RpcAbort, RpcGoto, row, data, daemon
<1>3. NumbersContiguous'
    BY DEF IInv, NumbersContiguous, Builds, IsBuild, RpcAbort, RpcGoto, row, data, daemon
<1>4. SnapshotsValid'
    BY DEF IInv, SnapshotsValid, Builds, IsBuild, RpcAbort, RpcGoto, row, data, daemon
<1>5. RpcsValid'
    BY DEF IInv, RpcsValid, IsBuild, RpcAbort, RpcGoto, row, data, daemon
<1>6. DaemonsValid'
    BY DEF IInv, DaemonsValid, Busy, RpcAbort, RpcGoto, row, data, daemon
<1>7. HandlersValid'
    BY DEF IInv, HandlersValid, IsBuild, RpcAbort, RpcGoto, row, data, daemon
<1>8. ResultsRecorded'
    BY DEF IInv, ResultsRecorded, IsBuild, RpcAbort, RpcGoto, row, data, daemon
<1>9. OneUnendedBuild'
    BY DEF IInv, OneUnendedBuild, Builds, IsBuild, IsLatest, RpcAbort, RpcGoto, row, data,
       daemon
<1> QED
    BY <1>1, <1>2, <1>3, <1>4, <1>5, <1>6, <1>7, <1>8, <1>9 DEF IInv

\* A cancel request: the read.
LEMMA CancelReadPreserves ==
    ASSUME IInv, NEW c \in Cancels, NEW j \in Jobs, CancelRead(c, j)
    PROVE  IInv'
<1>1. TypeOK'
    BY DEF IInv, TypeOK, CancelRequests, CancelRead, row, data, daemon
<1>2. RowsConsistent'
    BY DEF IInv, RowsConsistent, CancelRead, row, data, daemon
<1>3. NumbersContiguous'
    BY DEF IInv, TypeOK, NumbersContiguous, Builds, IsBuild, CancelRead, row, data, daemon
<1>4. SnapshotsValid'
    BY DEF IInv, SnapshotsValid, Builds, IsBuild, CancelRead, row, data, daemon
<1>5. RpcsValid'
    BY DEF IInv, RpcsValid, IsBuild, CancelRead, row, data, daemon
<1>6. DaemonsValid'
    BY DEF IInv, DaemonsValid, Busy, CancelRead, row, data, daemon
<1>7. HandlersValid'
    BY DEF IInv, HandlersValid, IsBuild, CancelRead, row, data, daemon
<1>8. ResultsRecorded'
    BY DEF IInv, ResultsRecorded, IsBuild, CancelRead, row, data, daemon
<1>9. OneUnendedBuild'
    BY DEF IInv, OneUnendedBuild, Builds, IsBuild, IsLatest, CancelRead, row, data, daemon
<1> QED
    BY <1>1, <1>2, <1>3, <1>4, <1>5, <1>6, <1>7, <1>8, <1>9 DEF IInv

\* A cancel request: the write may undo a completion, not its history.
LEMMA CancelWritePreserves ==
    ASSUME IInv, NEW c \in Cancels, CancelWrite(c)
    PROVE  IInv'
<1>1. TypeOK'
  <2>1. cancel' \in [Cancels -> CancelRequests]
      BY DEF IInv, TypeOK, CancelRequests, CancelWrite
  <2> QED
      BY <2>1 DEF IInv, TypeOK, HandlersValid, CancelWrite, data, daemon
<1>2. RowsConsistent'
    BY DEF IInv, TypeOK, RowsConsistent, RpcsValid, DaemonsValid, HandlersValid,
       CancelWrite, data, daemon
<1>3. NumbersContiguous'
    BY DEF IInv, NumbersContiguous, Builds, IsBuild, CancelWrite, data, daemon
<1>4. SnapshotsValid'
    BY DEF IInv, SnapshotsValid, Builds, IsBuild, CancelWrite, data, daemon
<1>5. RpcsValid'
    BY DEF IInv, RpcsValid, IsBuild, CancelWrite, data, daemon
<1>6. DaemonsValid'
    BY DEF IInv, DaemonsValid, Busy, CancelWrite, data, daemon
<1>7. HandlersValid'
    BY DEF IInv, HandlersValid, IsBuild, CancelWrite, data, daemon
<1>8. ResultsRecorded'
    BY DEF IInv, ResultsRecorded, IsBuild, CancelWrite, data, daemon
<1>9. OneUnendedBuild'
    BY DEF IInv, OneUnendedBuild, Builds, IsBuild, IsLatest, CancelWrite, data, daemon
<1> QED
    BY <1>1, <1>2, <1>3, <1>4, <1>5, <1>6, <1>7, <1>8, <1>9 DEF IInv

\* The initial state: no rows, idle handlers, idle daemons.
LEMMA InitEstablishes ==
    ASSUME Init
    PROVE  IInv
<1>1. TypeOK
    BY DEF Init, TypeOK, States, BuildRequests, CancelRequests, RpcLocations, Requests,
       Unhangs, Phases
<1>2. RowsConsistent /\ NumbersContiguous /\ SnapshotsValid /\ OneUnendedBuild
    BY DEF Init, RowsConsistent, NumbersContiguous, SnapshotsValid, OneUnendedBuild, Builds
<1>3. RpcsValid /\ DaemonsValid /\ HandlersValid
    BY DEF Init, RpcsValid, DaemonsValid, HandlersValid, Busy
<1>4. ResultsRecorded
    BY DEF Init, ResultsRecorded
<1> QED
    BY <1>1, <1>2, <1>3, <1>4 DEF IInv

\* Every step of the server, the daemons and the detector preserves IInv.
LEMMA NextPreserves ==
    ASSUME IInv, [Next]_vars
    PROVE  IInv'
<1>1. ASSUME NEW j \in Jobs, JobStep(j)
      PROVE  IInv'
    BY <1>1, BuildBeginPreserves, BuildCommitPreserves, InsertTemplateJobPreserves,
       TimePassesPreserves, UnhangFetchPreserves, UnhangMarkPreserves,
       UnhangCommitPreserves, UnhangAbortPreserves DEF JobStep
<1>2. ASSUME NEW d \in Daemons, DaemonStep(d)
      PROVE  IInv'
    BY <1>2, AcquireProvisionerJobPreserves, AcquireSendPreserves,
       AcquireInvalidPreserves, AcquireBrokenPreserves, AcquireLostPreserves,
       UpdateJobPreserves, ApplyPreserves, ReportCompletePreserves, ReportFailPreserves,
       FailRunningPreserves, RetryPreserves, FailAfterCompletePreserves, ReportedPreserves,
       CrashPreserves, WorkEndsPreserves DEF DaemonStep
<1>3. ASSUME NEW r \in Rpcs, RpcStep(r)
      PROVE  IInv'
    BY <1>3, FailJobReadPreserves, FailJobWritePreserves, FailJobStatePreserves,
       CompleteJobReadPreserves, CompleteBuildPreserves, CompleteTemplateInsertPreserves,
       CompleteTemplatePreserves, RpcAbortPreserves DEF RpcStep
<1>4. ASSUME NEW c \in Cancels, CancelWrite(c) \/ \E j \in Jobs : CancelRead(c, j)
      PROVE  IInv'
    BY <1>4, CancelReadPreserves, CancelWritePreserves
<1>5. CASE UNCHANGED vars
  <2>1. UNCHANGED <<inserted, started, canceled, completed, errored, stale, worker, ended,
                    number, state, resources, deleted, build, cancel, rpc, det,
                    phase, job, base, current, hung, work>>
      BY <1>5 DEF vars, row, data, daemon
  <2>2. TypeOK' /\ RowsConsistent' /\ RpcsValid'
      BY <2>1 DEF IInv, TypeOK, RowsConsistent, RpcsValid, IsBuild
  <2>3. NumbersContiguous' /\ SnapshotsValid' /\ OneUnendedBuild'
      BY <2>1 DEF IInv, NumbersContiguous, SnapshotsValid, OneUnendedBuild, IsLatest, Builds,
         IsBuild
  <2>4. DaemonsValid' /\ HandlersValid' /\ ResultsRecorded'
      BY <2>1 DEF IInv, DaemonsValid, Busy, HandlersValid, ResultsRecorded, IsBuild
  <2> QED
      BY <2>2, <2>3, <2>4 DEF IInv
<1> QED
    BY <1>1, <1>2, <1>3, <1>4, <1>5 DEF Next

\* IInv is an invariant of provisioner jobs, their handlers and daemons.
THEOREM JobsInvariance == Spec => []IInv
    BY InitEstablishes, NextPreserves, PTL DEF Spec

\* The tables, the handlers and the daemons have their types.
THEOREM JobsTypeCorrect == Spec => []TypeOK
<1>1. IInv => TypeOK
    BY DEF IInv
<1> QED
    BY <1>1, JobsInvariance, PTL

\* However many build requests race, at most the latest build of a workspace has
\* not been completed: wsbuilder's check and the unique build number suffice.
THEOREM BuildsAreSerial == Spec => []OneUnendedBuild
<1>1. IInv => OneUnendedBuild
    BY DEF IInv
<1> QED
    BY <1>1, JobsInvariance, PTL

\* A job shown as succeeded has its resources and its state, whichever of
\* FailJob, CompleteJob, cancel and the hang detector wrote last.
THEOREM SuccessHasResults == Spec => []SuccessIsRecorded
<1>1. IInv => SuccessIsRecorded
  <2> SUFFICES ASSUME IInv, NEW j \in Jobs, j \in inserted, JobStatus(j) = "succeeded"
               PROVE  /\ resources[j] > 0
                      /\ IsBuild(j) => j \in state[j]
                      /\ Kind[j] = "delete" => WorkspaceOf[j] \in deleted
      BY DEF SuccessIsRecorded
  <2>1. j \in completed \ (errored \cup canceled)
      BY DEF JobStatus
  <2> QED
      BY <2>1 DEF IInv, ResultsRecorded
<1> QED
    BY <1>1, JobsInvariance, PTL

\* Daemons that have a job and requests in use name started jobs; the request of a
\* build's row is over.
LEMMA JobsKnown ==
    ASSUME IInv
    PROVE  /\ inserted \subseteq Jobs /\ started \subseteq inserted /\ None \notin Jobs
           /\ \A d \in Daemons : Busy(d) => job[d] \in started
           /\ \A r \in Rpcs : rpc[r].pc # "unused" => rpc[r].job \in started
           /\ \A d \in Daemons, r \in Rpcs :
                 Busy(d) /\ rpc[r].pc # "unused" => rpc[r].job # job[d]
           /\ \A j \in inserted : IsBuild(j) => build[j].pc = "done"
    BY NoneAssumption DEF IInv, TypeOK, RowsConsistent, RpcsValid, DaemonsValid, Busy,
       NumbersContiguous

-----------------------------------------------------------------------------
(* Who works on what. *)

\* A step that starts no work and sends no report, and after which a job that somebody
\* works on has ended only if it had before, was canceled or terminated, or reported.
LEMMA WorkKept ==
    ASSUME WorkValid, work' \subseteq work, UNCHANGED <<started, worker>>,
           canceled \subseteq canceled', hung \subseteq hung',
           \A p \in work : phase'[p[1]] = "acquired" =>
               phase[p[1]] = "acquired" /\ job'[p[1]] = job[p[1]],
           \A r \in Rpcs : /\ rpc'[r].job = rpc[r].job /\ rpc'[r].kind = rpc[r].kind
                           /\ rpc'[r].state = rpc[r].state
                           /\ rpc'[r].pc # "unused" <=> rpc[r].pc # "unused",
           \A p \in work : p[2] \in ended' =>
               \/ p[2] \in ended \cup canceled' \cup hung'
               \/ \E r \in Rpcs : rpc[r].pc # "unused" /\ rpc[r].job = p[2]
    PROVE  WorkValid'
<1> SUFFICES ASSUME NEW p \in work, p \in work'
             PROVE  /\ p[2] \in started'
                    /\ worker'[p[2]] = p[1]
                    /\ ~(phase'[p[1]] = "acquired" /\ job'[p[1]] = p[2])
                    /\ \A r \in Rpcs : rpc'[r].pc # "unused" /\ rpc'[r].job = p[2] =>
                          rpc'[r].kind = "fail" /\ rpc'[r].state = None
                    /\ p[2] \in ended' => p[2] \in canceled' \cup hung' \/ GivenUp(p[2])'
    BY DEF WorkValid
<1>1. /\ p[2] \in started /\ worker[p[2]] = p[1]
      /\ ~(phase[p[1]] = "acquired" /\ job[p[1]] = p[2])
      /\ p[2] \in ended => p[2] \in canceled \cup hung \/ GivenUp(p[2])
    BY DEF WorkValid
<1>2. \A r \in Rpcs : rpc[r].pc # "unused" /\ rpc[r].job = p[2] =>
          rpc[r].kind = "fail" /\ rpc[r].state = None
    BY DEF WorkValid
<1>3. GivenUp(p[2])' <=> \E r \in Rpcs : rpc[r].pc # "unused" /\ rpc[r].job = p[2]
    BY <1>2 DEF GivenUp
<1>4. GivenUp(p[2]) => GivenUp(p[2])'
    BY DEF GivenUp
<1> QED
    BY <1>1, <1>2, <1>3, <1>4

\* New jobs, the passing of time, the hang detector and cancel requests.
LEMMA JobStepWork ==
    ASSUME IInv, WorkValid, NEW j \in Jobs, JobStep(j)
    PROVE  WorkValid'
<1>1. /\ UNCHANGED <<work, started, worker, phase, job, rpc, canceled>>
      /\ hung \subseteq hung'
      /\ ended' \subseteq ended \cup hung'
    BY DEF JobStep, BuildBegin, BuildCommit, InsertTemplateJob, TimePasses, UnhangFetch,
       UnhangMark, UnhangCommit, UnhangAbort, WriteComplete, row, daemon
<1> QED
    BY <1>1, WorkKept

LEMMA CancelWork ==
    ASSUME IInv, WorkValid, NEW c \in Cancels,
           CancelWrite(c) \/ \E j \in Jobs : CancelRead(c, j)
    PROVE  WorkValid'
<1>1. /\ UNCHANGED <<work, started, worker, phase, job, rpc, hung>>
      /\ canceled \subseteq canceled'
      /\ ended' \subseteq ended \cup canceled'
    BY DEF CancelWrite, CancelRead, row, daemon
<1> QED
    BY <1>1, WorkKept

\* FailJob and CompleteJob end the job they name.
LEMMA RpcWork ==
    ASSUME IInv, WorkValid, NEW r \in Rpcs, RpcStep(r)
    PROVE  WorkValid'
<1>1. /\ UNCHANGED <<work, started, worker, phase, job, canceled, hung>>
      /\ rpc[r].pc # "unused"
      /\ ended' \subseteq ended \cup {rpc[r].job}
      /\ \E l \in RpcLocations \ {"unused"} : RpcGoto(r, l)
    BY DEF RpcStep, FailJobRead, FailJobWrite, FailJobState, CompleteJobRead, CompleteBuild,
       CompleteTemplateInsert, CompleteTemplate, RpcAbort, RpcReply, At, RpcLocations,
       WriteComplete, row, daemon
<1>2. PICK l \in RpcLocations \ {"unused"} : RpcGoto(r, l)
    BY <1>1
<1>3. \A q \in Rpcs : /\ rpc'[q].job = rpc[q].job /\ rpc'[q].kind = rpc[q].kind
                      /\ rpc'[q].state = rpc[q].state
                      /\ rpc'[q].pc # "unused" <=> rpc[q].pc # "unused"
    BY <1>1, <1>2, RpcGotoFrame DEF IInv, TypeOK
<1> QED
    BY <1>1, <1>3, WorkKept

\* A job that is not sent to its daemon is nobody's work.
LEMMA AcquireWork ==
    ASSUME IInv, WorkValid, NEW d \in Daemons,
           \/ AcquireProvisionerJob(d) \/ AcquireSend(d)
           \/ AcquireInvalid(d) \/ AcquireBroken(d) \/ AcquireLost(d)
    PROVE  WorkValid'
<1>1. CASE AcquireProvisionerJob(d)
  <2>1. PICK j \in Acquirable :
            /\ started' = started \cup {j} /\ worker' = [worker EXCEPT ![j] = d]
            /\ job' = [job EXCEPT ![d] = j]
      BY <1>1 DEF AcquireProvisionerJob
  <2>2. /\ UNCHANGED <<work, rpc, ended, canceled, hung>>
        /\ phase' = [phase EXCEPT ![d] = "acquired"]
      BY <1>1 DEF AcquireProvisionerJob
  <2>3. \A p \in work : p[2] \in started /\ p[2] # j /\ p[1] \in Daemons /\ p[2] \in Jobs
      BY <2>1 DEF WorkValid, Acquirable, IInv, TypeOK
  <2>4. ASSUME NEW p \in work
        PROVE  /\ p[2] \in started' /\ worker'[p[2]] = p[1]
               /\ ~(phase'[p[1]] = "acquired" /\ job'[p[1]] = p[2])
    <3>1. worker'[p[2]] = worker[p[2]] /\ worker[p[2]] = p[1]
        BY <2>1, <2>3 DEF WorkValid, IInv, TypeOK
    <3>2. CASE p[1] = d
      <4>1. job'[p[1]] = j
          BY <2>1, <3>2 DEF IInv, TypeOK
      <4> QED
          BY <2>1, <2>3, <3>1, <4>1
    <3>3. CASE p[1] # d
      <4>1. phase'[p[1]] = phase[p[1]] /\ job'[p[1]] = job[p[1]]
          BY <2>1, <2>2, <2>3, <3>3 DEF IInv, TypeOK
      <4> QED
          BY <2>1, <2>3, <3>1, <4>1 DEF WorkValid
    <3> QED
        BY <3>2, <3>3
  <2> QED
      BY <2>2, <2>4 DEF WorkValid, GivenUp
<1>2. CASE AcquireSend(d)
  <2>1. /\ UNCHANGED <<started, worker, rpc, ended, canceled, hung, job>>
        /\ phase[d] = "acquired" /\ phase' = [phase EXCEPT ![d] = "running"]
        /\ work' = work \cup {<<d, job[d]>>}
      BY <1>2 DEF AcquireSend, row
  <2>2. /\ job[d] \in started /\ worker[job[d]] = d
        /\ \A r \in Rpcs : rpc[r].pc # "unused" => rpc[r].job # job[d]
        /\ job[d] \in ended => job[d] \in canceled \cup hung
      BY <2>1 DEF IInv, DaemonsValid, Busy
  <2>3. \A e \in Daemons : phase'[e] = "acquired" => e # d /\ phase[e] = "acquired"
      BY <2>1 DEF IInv, TypeOK
  <2>4. \A p \in work : p[1] \in Daemons
      BY DEF IInv, TypeOK
  <2>5. \A p \in work' : ~(phase'[p[1]] = "acquired" /\ job'[p[1]] = p[2])
      BY <2>1, <2>3, <2>4 DEF WorkValid
  <2> QED
      BY <2>1, <2>2, <2>5 DEF WorkValid, GivenUp
<1>3. CASE AcquireInvalid(d) \/ AcquireBroken(d) \/ AcquireLost(d)
  <2>1. /\ UNCHANGED <<work, started, worker, rpc, canceled, hung>>
        /\ phase[d] = "acquired" /\ phase' = [phase EXCEPT ![d] = "idle"]
        /\ job' = [job EXCEPT ![d] = None]
        /\ ended' \subseteq ended \cup {job[d]}
      BY <1>3 DEF AcquireInvalid, AcquireBroken, AcquireLost, Release, WriteComplete, row
  <2>2. worker[job[d]] = d
      BY <2>1 DEF IInv, DaemonsValid
  <2>3. \A p \in work : p[2] # job[d]
      BY <2>1, <2>2 DEF WorkValid
  <2>4. \A p \in work : phase'[p[1]] = "acquired" =>
            phase[p[1]] = "acquired" /\ job'[p[1]] = job[p[1]]
      BY <2>1 DEF IInv, TypeOK
  <2> QED
      BY <2>1, <2>3, <2>4, WorkKept
<1> QED
    BY <1>1, <1>2, <1>3

\* A report that do() has returned a result ends the work; Runner.Fail and what is sent
\* after it leaves the work and carries no state.
LEMMA SendWork ==
    ASSUME IInv, WorkValid, NEW d \in Daemons, NEW r \in Rpcs,
           NEW kind \in {"fail", "complete"}, NEW s \in States \cup {None},
           rpc[r].pc = "unused", Send(d, r, kind, s),
           worker[job[d]] = d, work' \subseteq work,
           <<d, job[d]>> \notin work' \/ (kind = "fail" /\ s = None)
    PROVE  WorkValid'
<1>1. /\ UNCHANGED <<started, worker, ended, canceled, hung, job>>
      /\ phase' = [phase EXCEPT ![d] = "reporting"]
      /\ rpc' = [rpc EXCEPT ![r] = [pc |-> "sent", kind |-> kind, job |-> job[d],
                                    daemon |-> d, state |-> s]]
    BY DEF Send, row
<1>2. rpc \in [Rpcs -> Requests] /\ phase \in [Daemons -> Phases]
    BY DEF IInv, TypeOK
<1>3. /\ rpc'[r].pc = "sent" /\ rpc'[r].kind = kind /\ rpc'[r].job = job[d]
      /\ rpc'[r].state = s
      /\ \A q \in Rpcs : q # r => rpc'[q] = rpc[q]
    BY <1>1, <1>2
<1> SUFFICES ASSUME NEW p \in work, p \in work'
             PROVE  /\ p[2] \in started
                    /\ worker[p[2]] = p[1]
                    /\ ~(phase'[p[1]] = "acquired" /\ job[p[1]] = p[2])
                    /\ \A q \in Rpcs : rpc'[q].pc # "unused" /\ rpc'[q].job = p[2] =>
                          rpc'[q].kind = "fail" /\ rpc'[q].state = None
                    /\ p[2] \in ended => p[2] \in canceled \cup hung \/ GivenUp(p[2])'
    BY <1>1 DEF WorkValid
<1>4. /\ p[2] \in started /\ worker[p[2]] = p[1]
      /\ ~(phase[p[1]] = "acquired" /\ job[p[1]] = p[2])
      /\ p[2] \in ended => p[2] \in canceled \cup hung \/ GivenUp(p[2])
      /\ \A q \in Rpcs : rpc[q].pc # "unused" /\ rpc[q].job = p[2] =>
            rpc[q].kind = "fail" /\ rpc[q].state = None
    BY DEF WorkValid
<1>5. ~(phase'[p[1]] = "acquired" /\ job[p[1]] = p[2])
  <2>1. p[1] \in Daemons
      BY DEF IInv, TypeOK
  <2> QED
      BY <1>1, <1>2, <1>4, <2>1
<1>6. p[2] = job[d] => kind = "fail" /\ s = None
  <2>1. p = <<p[1], p[2]>>
      BY DEF IInv, TypeOK
  <2>2. p[2] = job[d] => p = <<d, job[d]>>
      BY <1>4, <2>1
  <2> QED
      BY <2>2
<1>7. \A q \in Rpcs : rpc'[q].pc # "unused" /\ rpc'[q].job = p[2] =>
          rpc'[q].kind = "fail" /\ rpc'[q].state = None
    BY <1>3, <1>4, <1>6
<1>8. GivenUp(p[2]) => GivenUp(p[2])'
    BY <1>3 DEF GivenUp
<1> QED
    BY <1>4, <1>5, <1>7, <1>8

LEMMA ReportWork ==
    ASSUME IInv, WorkValid, NEW d \in Daemons,
           \/ ReportComplete(d) \/ ReportFail(d) \/ FailRunning(d)
           \/ Retry(d) \/ FailAfterComplete(d)
    PROVE  WorkValid'
<1>1. phase[d] \in {"running", "applied", "reporting"}
    BY DEF ReportComplete, ReportFail, FailRunning, Retry, FailAfterComplete
<1>2. job[d] \in Jobs /\ worker[job[d]] = d /\ base[d] \in States
    BY <1>1 DEF IInv, TypeOK, DaemonsValid
<1>3. base[d] \cup {job[d]} \in States
    BY <1>2 DEF States
<1>4. CASE ReportComplete(d) \/ ReportFail(d)
  <2>1. PICK r \in Unused, kind \in {"fail", "complete"}, s \in {None, base[d] \cup {job[d]}} :
            Send(d, r, kind, s)
      BY <1>4 DEF ReportComplete, ReportFail
  <2>2. work' \subseteq work /\ <<d, job[d]>> \notin work'
      BY <1>4 DEF ReportComplete, ReportFail, Stopped
  <2>3. r \in Rpcs /\ rpc[r].pc = "unused" /\ s \in States \cup {None}
      BY <1>3 DEF Unused
  <2> QED
      BY <1>2, <2>1, <2>2, <2>3, SendWork
<1>5. CASE FailRunning(d)
  <2>1. PICK r \in Rpcs : rpc[r].pc = "unused" /\ Send(d, r, "fail", None)
      BY <1>5 DEF FailRunning, Unused
  <2>2. work' = work
      BY <1>5 DEF FailRunning
  <2> QED
      BY <1>2, <2>1, <2>2, SendWork
<1>6. CASE Retry(d) \/ FailAfterComplete(d)
  <2>1. /\ current[d] \in Rpcs /\ rpc[current[d]].pc # "unused"
        /\ rpc[current[d]].job = job[d]
      BY <1>6 DEF Retry, FailAfterComplete, IInv, DaemonsValid
  <2>2. /\ rpc[current[d]].kind \in {"fail", "complete"}
        /\ rpc[current[d]].state \in States \cup {None}
      BY <2>1 DEF IInv, TypeOK, Requests
  <2>3. <<d, job[d]>> \in work => rpc[current[d]].kind = "fail" /\ rpc[current[d]].state = None
      BY <2>1 DEF WorkValid
  <2>4. work' = work
      BY <1>6 DEF Retry, FailAfterComplete
  <2>5. CASE Retry(d)
    <3>1. PICK r \in Rpcs : /\ rpc[r].pc = "unused"
                            /\ Send(d, r, rpc[current[d]].kind, rpc[current[d]].state)
        BY <2>5 DEF Retry, Unused
    <3> QED
        BY <1>2, <2>2, <2>3, <2>4, <3>1, SendWork
  <2>6. CASE FailAfterComplete(d)
    <3>1. PICK r \in Rpcs : rpc[r].pc = "unused" /\ Send(d, r, "fail", None)
        BY <2>6 DEF FailAfterComplete, Unused
    <3> QED
        BY <1>2, <2>4, <3>1, SendWork
  <2> QED
      BY <1>6, <2>5, <2>6
<1> QED
    BY <1>4, <1>5, <1>6

\* The other steps of a daemon.
LEMMA DaemonLeavesWork ==
    ASSUME IInv, WorkValid, NEW d \in Daemons,
           \/ UpdateJob(d) \/ Apply(d) \/ Reported(d) \/ Crash(d)
           \/ \E j \in Jobs : WorkEnds(d, j)
    PROVE  WorkValid'
<1>1. /\ UNCHANGED <<started, worker, rpc, ended, canceled, hung>>
      /\ work' \subseteq work
    BY DEF UpdateJob, Apply, Reported, Crash, WorkEnds, row
<1>2. \/ UNCHANGED <<phase, job>>
      \/ \E l \in Phases \ {"acquired"} : /\ phase' = [phase EXCEPT ![d] = l]
                                          /\ \A e \in Daemons : e # d => job'[e] = job[e]
    BY DEF UpdateJob, Apply, Reported, Crash, WorkEnds, Release, Phases, daemon, IInv, TypeOK
<1>3. \A p \in work : phase'[p[1]] = "acquired" =>
          phase[p[1]] = "acquired" /\ job'[p[1]] = job[p[1]]
    BY <1>2 DEF IInv, TypeOK
<1> QED
    BY <1>1, <1>3, WorkKept

LEMMA NextWork ==
    ASSUME IInv, WorkValid, [Next]_vars
    PROVE  WorkValid'
<1>1. ASSUME NEW d \in Daemons, DaemonStep(d)
      PROVE  WorkValid'
    BY <1>1, AcquireWork, ReportWork, DaemonLeavesWork DEF DaemonStep
<1>2. CASE UNCHANGED vars
  <2>1. UNCHANGED <<work, started, worker, phase, job, rpc, ended, canceled, hung>>
      BY <1>2 DEF vars, row, daemon
  <2> QED
      BY <2>1, WorkKept
<1> QED
    BY <1>1, <1>2, JobStepWork, CancelWork, RpcWork DEF Next

\* Provisioners that work for the same workspace at the same time are told apart by a
\* cancel request, the hang detector or the earlier one's runner, which has failed the
\* job without waiting for it; nobody works on somebody else's job.
THEOREM DaemonsAreExclusive == Spec => []ExclusiveUnlessTerminated
<1>1. IInv /\ WorkValid => ExclusiveUnlessTerminated
  <2> SUFFICES ASSUME IInv, WorkValid, NEW p \in work, NEW q \in work, p # q
               PROVE  /\ p[2] # q[2]
                      /\ /\ IsBuild(p[2]) /\ IsBuild(q[2])
                         /\ WorkspaceOf[p[2]] = WorkspaceOf[q[2]]
                         /\ number[p[2]] < number[q[2]]
                         => p[2] \in canceled \cup hung \/ GivenUp(p[2])
      BY DEF ExclusiveUnlessTerminated
  <2>1. /\ p[2] \in started /\ worker[p[2]] = p[1]
        /\ q[2] \in started /\ worker[q[2]] = q[1]
      BY DEF WorkValid
  <2>2. p[2] # q[2]
    <3>1. p = <<p[1], p[2]>> /\ q = <<q[1], q[2]>>
        BY DEF IInv, TypeOK
    <3> QED
        BY <2>1, <3>1
  <2>3. ASSUME IsBuild(p[2]), IsBuild(q[2]),
               WorkspaceOf[p[2]] = WorkspaceOf[q[2]], number[p[2]] < number[q[2]]
        PROVE  p[2] \in canceled \cup hung \/ GivenUp(p[2])
    <3>1. /\ p[2] \in Jobs /\ q[2] \in Jobs /\ p[2] \in inserted /\ q[2] \in inserted
          /\ number[p[2]] \in Nat /\ number[q[2]] \in Nat
        BY <2>1 DEF IInv, TypeOK, RowsConsistent
    <3>2. p[2] \in ended
      <4>1. SUFFICES ASSUME p[2] \notin ended
                     PROVE  FALSE
          OBVIOUS
      <4>2. /\ p[2] \in Builds(WorkspaceOf[p[2]]) /\ q[2] \in Builds(WorkspaceOf[p[2]])
            /\ WorkspaceOf[p[2]] \in Workspaces
          BY <2>3, <3>1 DEF Builds
      <4>3. IsLatest(p[2], WorkspaceOf[p[2]])
          BY <4>1, <4>2 DEF IInv, OneUnendedBuild
      <4> QED
          BY <2>3, <3>1, <4>2, <4>3 DEF IsLatest
    <3> QED
        BY <3>2 DEF WorkValid
  <2> QED
      BY <2>2, <2>3
<1>2. Init => WorkValid
    BY DEF Init, WorkValid
<1>3. IInv /\ WorkValid /\ [Next]_vars => WorkValid'
    BY NextWork
<1> QED
    BY <1>1, <1>2, <1>3, JobsInvariance, PTL DEF Spec

-----------------------------------------------------------------------------
(* What is known of a build's state is not lost again. *)

\* A step that changes none of it, except how far a request has come.
LEMMA StatesFrame ==
    ASSUME StatesKnown,
           UNCHANGED <<inserted, started, state, build, hung, phase, job, base>>,
           \A r \in Rpcs : /\ rpc'[r].job = rpc[r].job
                           /\ rpc'[r].state = rpc[r].state
                           /\ rpc'[r].pc # "unused" => rpc[r].pc # "unused"
    PROVE  StatesKnown'
<1>1. StatesOfRows' /\ StatesOfDaemons'
    BY DEF StatesKnown, StatesOfRows, StatesOfDaemons, IsBuild
<1>2. StatesOfRpcs'
    BY DEF StatesKnown, StatesOfRpcs
<1> QED
    BY <1>1, <1>2 DEF StatesKnown

\* New jobs start from what their request has read.
LEMMA NewJobStates ==
    ASSUME IInv, StatesKnown, NEW j \in Jobs,
           BuildBegin(j) \/ BuildCommit(j) \/ InsertTemplateJob(j)
    PROVE  StatesKnown'
<1>1. CASE BuildBegin(j)
  <2>1. PICK n \in Nat, s \in States :
            build' = [build EXCEPT ![j] = [pc |-> "begun", number |-> n, state |-> s]]
      BY <1>1, BeginsFrom
  <2>2. IsBuild(j) /\ j \notin inserted
      BY <1>1, JobsKnown DEF BuildBegin
  <2>3. build \in [Jobs -> BuildRequests]
      BY DEF IInv, TypeOK
  <2>4. \A i \in Jobs : i # j => build'[i] = build[i]
      BY <2>1, <2>3
  <2>5. UNCHANGED <<inserted, started, state, hung, phase, job, base, rpc>>
      BY <1>1 DEF BuildBegin, row, data, daemon
  <2>6. StatesOfRows'
      BY <2>2, <2>4, <2>5, JobsKnown DEF StatesKnown, StatesOfRows, IsBuild
  <2>7. StatesOfDaemons'
      BY <2>2, <2>4, <2>5, JobsKnown DEF StatesKnown, StatesOfDaemons, Busy
  <2>8. StatesOfRpcs'
      BY <2>2, <2>4, <2>5, JobsKnown DEF StatesKnown, StatesOfRpcs
  <2> QED
      BY <2>6, <2>7, <2>8 DEF StatesKnown
<1>2. CASE BuildCommit(j)
  <2>1. IsBuild(j) /\ j \notin inserted
      BY <1>2, BeganFrom DEF BuildCommit
  <2>2. build \in [Jobs -> BuildRequests] /\ state \in [Jobs -> States]
      BY DEF IInv, TypeOK
  <2>3. \A i \in Jobs : build'[i].state = build[i].state
      BY <1>2, <2>2 DEF BuildCommit, BuildRequests
  <2>4. UNCHANGED <<started, hung, phase, job, base, rpc>>
      BY <1>2 DEF BuildCommit, row, daemon
  <2>5. \/ UNCHANGED <<inserted, state>>
        \/ inserted' = inserted \cup {j} /\ state' = [state EXCEPT ![j] = build[j].state]
      BY <1>2 DEF BuildCommit, row, data
  <2>6. \A i \in Jobs : i # j => state'[i] = state[i]
      BY <2>2, <2>5
  <2>7. StatesOfRows'
    <3>1. CASE UNCHANGED <<inserted, state>>
        BY <2>3, <2>4, <3>1, JobsKnown DEF StatesKnown, StatesOfRows, IsBuild
    <3>2. CASE inserted' = inserted \cup {j} /\ state' = [state EXCEPT ![j] = build[j].state]
      <4>1. state'[j] = build[j].state
          BY <2>2, <3>2
      <4> QED
          BY <2>1, <2>3, <2>4, <2>6, <3>2, <4>1, JobsKnown DEF StatesKnown, StatesOfRows, IsBuild
    <3> QED
        BY <2>5, <3>1, <3>2
  <2>8. StatesOfDaemons'
      BY <2>1, <2>3, <2>4, <2>6, JobsKnown DEF StatesKnown, StatesOfDaemons, Busy
  <2>9. StatesOfRpcs'
      BY <2>1, <2>3, <2>4, JobsKnown DEF StatesKnown, StatesOfRpcs
  <2> QED
      BY <2>7, <2>8, <2>9 DEF StatesKnown
<1>3. CASE InsertTemplateJob(j)
  <2>1. /\ ~IsBuild(j) /\ j \notin inserted /\ inserted' = inserted \cup {j}
        /\ UNCHANGED <<started, state, build, hung, phase, job, base, rpc>>
      BY <1>3 DEF InsertTemplateJob, data, daemon
  <2>2. StatesOfRows' /\ StatesOfDaemons'
      BY <2>1, JobsKnown DEF StatesKnown, StatesOfRows, StatesOfDaemons, IsBuild
  <2>3. StatesOfRpcs'
      BY <2>1 DEF StatesKnown, StatesOfRpcs
  <2> QED
      BY <2>2, <2>3 DEF StatesKnown
<1> QED
    BY <1>1, <1>2, <1>3

\* The detector may replace a state, and says so.
LEMMA UnhangCommitStates ==
    ASSUME IInv, StatesKnown, NEW j \in Jobs, UnhangCommit(j)
    PROVE  StatesKnown'
<1>1. /\ UNCHANGED <<inserted, started, build, phase, job, base, rpc>>
      /\ hung' = hung \cup {j}
      BY DEF UnhangCommit, WriteComplete, daemon
<1>2. \A i \in Jobs : i # j => state'[i] = state[i]
    BY DEF IInv, TypeOK, UnhangCommit
<1>3. j \in inserted
    BY JobsKnown DEF IInv, HandlersValid, UnhangCommit
<1>4. StatesOfRows'
    BY <1>1, <1>2, <1>3, JobsKnown DEF StatesKnown, StatesOfRows, IsBuild
<1>5. StatesOfDaemons'
    BY <1>1, <1>2, JobsKnown DEF StatesKnown, StatesOfDaemons, Busy
<1>6. StatesOfRpcs'
    BY <1>1 DEF StatesKnown, StatesOfRpcs
<1> QED
    BY <1>4, <1>5, <1>6 DEF StatesKnown

\* A daemon that gets a job gets the state its build started from.
LEMMA AcquireStates ==
    ASSUME IInv, StatesKnown, NEW d \in Daemons,
           AcquireProvisionerJob(d) \/ AcquireSend(d)
    PROVE  StatesKnown'
<1> USE DEF StatesKnown
<1>1. CASE AcquireProvisionerJob(d)
  <2>1. PICK j \in Acquirable : started' = started \cup {j} /\ job' = [job EXCEPT ![d] = j]
      BY <1>1 DEF AcquireProvisionerJob
  <2>2. /\ UNCHANGED <<inserted, state, build, hung, base, rpc>>
        /\ phase' = [phase EXCEPT ![d] = "acquired"]
      BY <1>1 DEF AcquireProvisionerJob, data
  <2>3. StatesOfRows'
      BY <2>1, <2>2 DEF StatesOfRows, IsBuild
  <2>4. StatesOfDaemons'
      BY <2>1, <2>2 DEF StatesOfDaemons, StatesOfRows, Acquirable, IInv, TypeOK
  <2>5. StatesOfRpcs'
      BY <2>2 DEF StatesOfRpcs
  <2> QED
      BY <2>3, <2>4, <2>5
<1>2. CASE AcquireSend(d)
  <2>1. /\ UNCHANGED <<inserted, started, state, build, hung, job, rpc>>
        /\ phase' = [phase EXCEPT ![d] = "running"]
        /\ base' = [base EXCEPT ![d] = state[job[d]]]
        /\ phase[d] = "acquired"
      BY <1>2 DEF AcquireSend, row, data
  <2>2. StatesOfRows' /\ StatesOfRpcs'
      BY <2>1 DEF StatesOfRows, StatesOfRpcs, IsBuild
  <2>3. StatesOfDaemons'
      BY <2>1 DEF StatesOfDaemons, IInv, TypeOK
  <2> QED
      BY <2>2, <2>3
<1> QED
    BY <1>1, <1>2

\* A daemon that gives its job up, goes on with it, or dies.
LEMMA DaemonLeavesStates ==
    ASSUME IInv, StatesKnown, NEW d \in Daemons,
           \/ AcquireInvalid(d) \/ AcquireBroken(d) \/ AcquireLost(d)
           \/ UpdateJob(d) \/ Apply(d) \/ Reported(d) \/ Crash(d)
           \/ \E j \in Jobs : WorkEnds(d, j)
    PROVE  StatesKnown'
<1>1. UNCHANGED <<inserted, started, state, build, hung, rpc>>
    BY DEF AcquireInvalid, AcquireBroken, AcquireLost, UpdateJob, Apply, Reported, Crash,
       WorkEnds, WriteComplete, row, data
<1>2. StatesOfRows' /\ StatesOfRpcs'
    BY <1>1 DEF StatesKnown, StatesOfRows, StatesOfRpcs, IsBuild
<1>3. StatesOfDaemons'
  <2>1. \/ phase' = [phase EXCEPT ![d] = "idle"] /\ job' = [job EXCEPT ![d] = None]
           /\ base' = [base EXCEPT ![d] = {}]
        \/ UNCHANGED <<phase, job, base>>
        \/ phase[d] = "running" /\ phase' = [phase EXCEPT ![d] = "applied"] /\ UNCHANGED <<job, base>>
        \/ phase' = [phase EXCEPT ![d] = "dead"] /\ UNCHANGED <<job, base>>
      BY DEF AcquireInvalid, AcquireBroken, AcquireLost, UpdateJob, Apply, Reported, Crash,
         WorkEnds, Release, daemon
  <2> QED
      BY <1>1, <2>1 DEF StatesKnown, StatesOfDaemons, IInv, TypeOK
<1> QED
    BY <1>2, <1>3 DEF StatesKnown

\* A report carries what the build started from and the job itself; a repetition
\* carries what was sent before.
LEMMA SendStates ==
    ASSUME IInv, StatesKnown, NEW d \in Daemons, NEW r \in Rpcs,
           NEW kind \in {"fail", "complete"}, NEW s \in States \cup {None},
           Send(d, r, kind, s),
           s # None /\ job[d] \notin hung => s = build[job[d]].state \cup {job[d]}
    PROVE  StatesKnown'
<1>1. /\ UNCHANGED <<inserted, started, state, build, hung, job, base>>
      /\ phase' = [phase EXCEPT ![d] = "reporting"]
      /\ rpc' = [rpc EXCEPT ![r] = [pc |-> "sent", kind |-> kind, job |-> job[d],
                                    daemon |-> d, state |-> s]]
    BY DEF Send, row, data
<1>2. StatesOfRows'
    BY <1>1 DEF StatesKnown, StatesOfRows, IsBuild
<1>3. StatesOfDaemons'
    BY <1>1 DEF StatesKnown, StatesOfDaemons, IInv, TypeOK
<1>4. StatesOfRpcs'
    BY <1>1 DEF StatesKnown, StatesOfRpcs, IInv, TypeOK
<1> QED
    BY <1>2, <1>3, <1>4 DEF StatesKnown

LEMMA ReportStates ==
    ASSUME IInv, StatesKnown, NEW d \in Daemons,
           \/ ReportComplete(d) \/ ReportFail(d) \/ FailRunning(d)
           \/ Retry(d) \/ FailAfterComplete(d)
    PROVE  StatesKnown'
<1>1. CASE ReportComplete(d) \/ ReportFail(d) \/ FailRunning(d)
  <2>1. phase[d] \in {"running", "applied"} /\ job[d] \in Jobs /\ base[d] \in States
      BY <1>1, JobsKnown DEF ReportComplete, ReportFail, FailRunning, Busy, IInv, TypeOK
  <2>2. base[d] \cup {job[d]} \in States
      BY <2>1 DEF States
  <2>3. job[d] \notin hung => base[d] = build[job[d]].state
      BY <2>1 DEF StatesKnown, StatesOfDaemons
  <2>4. PICK r \in Rpcs, kind \in {"fail", "complete"}, s \in {None, base[d] \cup {job[d]}} :
            Send(d, r, kind, s)
      BY <1>1 DEF ReportComplete, ReportFail, FailRunning, Unused
  <2>5. s # None /\ job[d] \notin hung => s = build[job[d]].state \cup {job[d]}
      BY <2>3, <2>4
  <2>6. s \in States \cup {None}
      BY <2>2, <2>4
  <2> QED
      BY <2>4, <2>5, <2>6, SendStates
<1>2. CASE Retry(d)
  <2>1. /\ phase[d] = "reporting" /\ current[d] \in Rpcs
        /\ rpc[current[d]].pc # "unused" /\ rpc[current[d]].job = job[d]
      BY <1>2 DEF Retry, IInv, DaemonsValid
  <2>2. rpc[current[d]].kind \in {"fail", "complete"} /\ rpc[current[d]].state \in States \cup {None}
      BY <2>1 DEF IInv, TypeOK, Requests
  <2>3. rpc[current[d]].state # None /\ job[d] \notin hung =>
            rpc[current[d]].state = build[job[d]].state \cup {job[d]}
      BY <2>1 DEF StatesKnown, StatesOfRpcs
  <2>4. \E r \in Rpcs : Send(d, r, rpc[current[d]].kind, rpc[current[d]].state)
      BY <1>2 DEF Retry, Unused
  <2> QED
      BY <2>2, <2>3, <2>4, SendStates
<1>3. CASE FailAfterComplete(d)
  <2>1. \E r \in Rpcs : Send(d, r, "fail", None)
      BY <1>3 DEF FailAfterComplete, Unused
  <2> QED
      BY <2>1, SendStates
<1> QED
    BY <1>1, <1>2, <1>3

\* The reports that store a state store what the build started from and its job.
LEMMA StoreStates ==
    ASSUME IInv, StatesKnown, NEW r \in Rpcs, FailJobState(r) \/ CompleteBuild(r)
    PROVE  /\ StatesKnown'
           /\ UNCHANGED <<inserted, hung, build>>
           /\ rpc[r].job \in started
           /\ state' = [state EXCEPT ![rpc[r].job] = rpc[r].state]
           /\ rpc[r].job \notin hung =>
                 rpc[r].state = build[rpc[r].job].state \cup {rpc[r].job}
<1> DEFINE j == rpc[r].job
<1>1. /\ UNCHANGED <<inserted, started, build, hung, phase, job, base>>
      /\ state' = [state EXCEPT ![j] = rpc[r].state]
      /\ rpc[r].pc \in {"read", "written"}
      /\ \E l \in {"ok", "error"} : RpcGoto(r, l)
    BY DEF FailJobState, CompleteBuild, RpcReply, At, WriteComplete, row, daemon
<1>2. j \in started /\ j \in Jobs /\ rpc[r].pc # "unused"
    BY <1>1, JobsKnown
<1>3. rpc[r].state # None
    BY <1>1, <1>2 DEF IInv, RpcsValid, FailJobState, CompleteBuild, At
<1>4. j \notin hung => rpc[r].state = build[j].state \cup {j}
    BY <1>2, <1>3 DEF StatesKnown, StatesOfRpcs
<1>5. \A q \in Rpcs : /\ rpc'[q].job = rpc[q].job
                      /\ rpc'[q].state = rpc[q].state
                      /\ rpc'[q].pc # "unused" => rpc[q].pc # "unused"
  <2>1. PICK l \in {"ok", "error"} : RpcGoto(r, l)
      BY <1>1
  <2> QED
      BY <1>2, <2>1, RpcGotoFrame DEF RpcLocations, IInv, TypeOK
<1>6. \A i \in Jobs : state'[i] = IF i = j THEN rpc[r].state ELSE state[i]
    BY <1>1, <1>2 DEF IInv, TypeOK
<1>7. StatesOfRows'
    BY <1>1, <1>2, <1>4, <1>6, JobsKnown DEF StatesKnown, StatesOfRows, IsBuild
<1>8. StatesOfDaemons'
    BY <1>1, <1>2, <1>6, JobsKnown DEF StatesKnown, StatesOfDaemons, Busy
<1>9. StatesOfRpcs'
    BY <1>1, <1>5 DEF StatesKnown, StatesOfRpcs
<1> QED
    BY <1>1, <1>2, <1>4, <1>7, <1>8, <1>9 DEF StatesKnown

\* The other steps of FailJob and CompleteJob store no state.
LEMMA RpcKeepsStates ==
    ASSUME IInv, StatesKnown, NEW r \in Rpcs,
           \/ FailJobRead(r) \/ FailJobWrite(r) \/ CompleteJobRead(r)
           \/ CompleteTemplateInsert(r) \/ CompleteTemplate(r) \/ RpcAbort(r)
    PROVE  StatesKnown' /\ UNCHANGED state
<1>1. /\ UNCHANGED <<inserted, started, state, build, hung, phase, job, base>>
      /\ rpc[r].pc # "unused"
      /\ \E l \in RpcLocations : RpcGoto(r, l)
    BY DEF FailJobRead, FailJobWrite, CompleteJobRead, CompleteTemplateInsert,
       CompleteTemplate, RpcAbort, RpcReply, At, RpcLocations, WriteComplete, row, data, daemon
<1>2. PICK l \in RpcLocations : RpcGoto(r, l)
    BY <1>1
<1>3. \A q \in Rpcs : /\ rpc'[q].job = rpc[q].job
                      /\ rpc'[q].state = rpc[q].state
                      /\ rpc'[q].pc # "unused" => rpc[q].pc # "unused"
    BY <1>1, <1>2, RpcGotoFrame DEF IInv, TypeOK
<1> QED
    BY <1>1, <1>3, StatesFrame

\* Initially nobody has a state.
LEMMA InitStates ==
    ASSUME Init
    PROVE  StatesKnown
    BY DEF Init, StatesKnown, StatesOfRows, StatesOfDaemons, StatesOfRpcs

\* Where the states come from, in every step.
LEMMA NextStates ==
    ASSUME IInv, StatesKnown, [Next]_vars
    PROVE  StatesKnown'
<1>1. ASSUME NEW j \in Jobs, JobStep(j)
      PROVE  StatesKnown'
  <2>1. CASE TimePasses(j) \/ UnhangFetch(j) \/ UnhangMark(j) \/ UnhangAbort(j)
    <3>1. UNCHANGED <<inserted, started, state, build, hung, phase, job, base, rpc>>
        BY <2>1 DEF TimePasses, UnhangFetch, UnhangMark, UnhangAbort, row, data, daemon
    <3> QED
        BY <3>1, StatesFrame
  <2> QED
      BY <1>1, <2>1, NewJobStates, UnhangCommitStates DEF JobStep
<1>2. ASSUME NEW d \in Daemons, DaemonStep(d)
      PROVE  StatesKnown'
    BY <1>2, AcquireStates, DaemonLeavesStates, ReportStates DEF DaemonStep
<1>3. ASSUME NEW r \in Rpcs, RpcStep(r)
      PROVE  StatesKnown'
    BY <1>3, StoreStates, RpcKeepsStates DEF RpcStep
<1>4. ASSUME NEW c \in Cancels, CancelWrite(c) \/ \E j \in Jobs : CancelRead(c, j)
      PROVE  StatesKnown'
  <2>1. UNCHANGED <<inserted, started, state, build, hung, phase, job, base, rpc>>
      BY <1>4 DEF CancelWrite, CancelRead, row, data, daemon
  <2> QED
      BY <2>1, StatesFrame
<1>5. CASE UNCHANGED vars
  <2>1. UNCHANGED <<inserted, started, state, build, hung, phase, job, base, rpc>>
      BY <1>5 DEF vars, row, data, daemon
  <2> QED
      BY <2>1, StatesFrame
<1> QED
    BY <1>1, <1>2, <1>3, <1>4, <1>5 DEF Next

\* A step that changes a state only adds to it, or is the detector's.
LEMMA StepKeepsStates ==
    ASSUME IInv, StatesKnown, Next
    PROVE  \A j \in inserted \ hung' : state[j] \subseteq state'[j]
<1>1. CASE UNCHANGED state
    BY <1>1
<1>2. ASSUME NEW k \in Jobs, BuildCommit(k)
      PROVE  \A j \in inserted \ hung' : state[j] \subseteq state'[j]
  <2>1. k \notin inserted
      BY <1>2, BeganFrom DEF BuildCommit
  <2>2. \A j \in Jobs : j # k => state'[j] = state[j]
      BY <1>2 DEF BuildCommit, data, IInv, TypeOK
  <2> QED
      BY <2>1, <2>2, JobsKnown
<1>3. ASSUME NEW k \in Jobs, UnhangCommit(k)
      PROVE  \A j \in inserted \ hung' : state[j] \subseteq state'[j]
  <2>1. \A j \in Jobs : j # k => state'[j] = state[j]
      BY <1>3 DEF UnhangCommit, IInv, TypeOK
  <2>2. k \in hung'
      BY <1>3 DEF UnhangCommit
  <2> QED
      BY <2>1, <2>2, JobsKnown
<1>4. ASSUME NEW r \in Rpcs, FailJobState(r) \/ CompleteBuild(r)
      PROVE  \A j \in inserted \ hung' : state[j] \subseteq state'[j]
  <2>1. /\ UNCHANGED <<inserted, hung, build>>
        /\ state' = [state EXCEPT ![rpc[r].job] = rpc[r].state]
        /\ rpc[r].job \notin hung =>
              rpc[r].state = build[rpc[r].job].state \cup {rpc[r].job}
      BY <1>4, StoreStates
  <2>2. \A j \in inserted \ hung : state[j] \in {build[j].state, build[j].state \cup {j}}
      BY DEF StatesKnown, StatesOfRows
  <2>3. state \in [Jobs -> States]
      BY DEF IInv, TypeOK
  <2> QED
      BY <2>1, <2>2, <2>3, JobsKnown
<1>5. ASSUME NEW j \in Jobs, JobStep(j)
      PROVE  UNCHANGED state \/ BuildCommit(j) \/ UnhangCommit(j)
    BY <1>5 DEF JobStep, BuildBegin, InsertTemplateJob, TimePasses, UnhangFetch, UnhangMark,
       UnhangAbort, data
<1>6. ASSUME NEW d \in Daemons, DaemonStep(d)
      PROVE  UNCHANGED state
    BY <1>6 DEF DaemonStep, AcquireProvisionerJob, AcquireSend, AcquireInvalid, AcquireBroken,
       AcquireLost, UpdateJob, Apply, ReportComplete, ReportFail, FailRunning, Retry,
       FailAfterComplete, Send, Reported, Crash, WorkEnds, data
<1>7. ASSUME NEW r \in Rpcs, RpcStep(r)
      PROVE  UNCHANGED state \/ FailJobState(r) \/ CompleteBuild(r)
    BY <1>7, RpcKeepsStates DEF RpcStep
<1>8. ASSUME NEW c \in Cancels, CancelWrite(c) \/ \E j \in Jobs : CancelRead(c, j)
      PROVE  UNCHANGED state
    BY <1>8 DEF CancelWrite, CancelRead, data
<1> QED
    BY <1>1, <1>2, <1>3, <1>4, <1>5, <1>6, <1>7, <1>8 DEF Next

\* A report, and its repetition however late, never takes away from the state of a build
\* what another report has stored; only the hang detector's copy may.
THEOREM StatesNeverLost == Spec => StatesAccumulate
<1>1. IInv /\ StatesKnown /\ [Next]_vars
        => [\A j \in inserted \ hung' : state[j] \subseteq state'[j]]_vars
    BY StepKeepsStates
<1>2. Init => StatesKnown
    BY InitStates
<1>3. IInv /\ StatesKnown /\ [Next]_vars => StatesKnown'
    BY NextStates
<1> QED
    BY <1>1, <1>2, <1>3, JobsInvariance, PTL DEF Spec, StatesAccumulate
=============================================================================
