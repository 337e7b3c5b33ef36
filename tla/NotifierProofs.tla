--------------------------- MODULE NotifierProofs ---------------------------
(***************************************************************************)
(* Proofs about Notifier: its inductive invariant, and what follows from   *)
(* it, for any number of managers, messages, attempts and faults and any   *)
(* size of the channels.                                                   *)
(***************************************************************************)
EXTENDS Notifier, SequenceTheorems, TLAPS

USE AttemptsAssumption, StoppedAssumption, BufferAssumption

-----------------------------------------------------------------------------
(* Type correctness, manager by manager and row by row. *)

LEMMA TypeInit == Init => TypeOK
<1> SUFFICES ASSUME Init PROVE TypeOK
    OBVIOUS
<1>1. /\ status \in [Msgs -> {"none", "pending", "leased", "temporary_failure"} \cup Final]
      /\ attemptCount \in [Msgs -> Nat]
      /\ due \in [Msgs -> BOOLEAN] /\ slow \in [Msgs -> BOOLEAN] /\ faults \in Nat
    BY DEF Init
<1>2. /\ loop \in [Managers -> {"new", "starting", "running", "ended", "crashed"}]
      /\ stop \in [Managers -> {"no", "notifier", "wait", "returned", "early", "crashed"}]
      /\ ctxDone \in [Managers -> BOOLEAN]
      /\ notifier \in [Managers -> {"none", "idle", "process", "exited"}]
      /\ syncer \in [Managers -> {"none", "idle", "sync", "flush", "exited"}]
    BY DEF Init, All
<1>3. /\ batch \in [Managers -> SUBSET Msgs]
      /\ putting \in [Managers -> SUBSET (Msgs \X FailedStatus)]
      /\ inflight \in [Managers -> SUBSET Msgs]
      /\ sentIds \in [Managers -> SUBSET Msgs]
      /\ failedIds \in [Managers -> SUBSET (Msgs \X FailedStatus)]
    BY DEF Init, All
<1>4. /\ success \in [Managers -> Seq(Msgs)]
      /\ failure \in [Managers -> Seq(Msgs \X FailedStatus)]
    BY DEF Init, All
<1> QED
    BY <1>1, <1>2, <1>3, <1>4 DEF TypeOK

LEMMA EmptySeqIn == \A S : <<>> \in Seq(S)
OBVIOUS

LEMMA ElementsOfSeq ==
    ASSUME NEW S, NEW q \in Seq(S)
    PROVE  /\ Elements(q) \subseteq S
           /\ \A x \in S : Elements(Append(q, x)) = Elements(q) \cup {x}
<1>1. Elements(q) \subseteq S
    BY DEF Elements
<1>2. ASSUME NEW x \in S PROVE Elements(Append(q, x)) = Elements(q) \cup {x}
    <2>1. /\ Append(q, x) \in Seq(S) /\ Len(Append(q, x)) = Len(q) + 1
          /\ Append(q, x)[Len(q) + 1] = x
          /\ \A i \in 1..Len(q) : Append(q, x)[i] = q[i]
        BY AppendProperties
    <2>2. 1..Len(Append(q, x)) = (1..Len(q)) \cup {Len(q) + 1} /\ Len(q) \in Nat
        BY <2>1
    <2> QED
        BY <2>1, <2>2 DEF Elements
<1> QED
    BY <1>1, <1>2

\* Elements of the empty sequence.
LEMMA ElementsEmpty == Elements(<<>>) = {}
BY DEF Elements

\* The bulk updates keep the type of the rows.
LEMMA WriteType ==
    ASSUME TypeOK, NEW S \in SUBSET Msgs,
           NEW new \in [S -> {"none", "pending", "leased", "temporary_failure"} \cup Final],
           Write(new)
    PROVE  /\ status' \in [Msgs -> {"none", "pending", "leased", "temporary_failure"} \cup Final]
           /\ attemptCount' \in [Msgs -> Nat]
           /\ due' \in [Msgs -> BOOLEAN] /\ slow' = slow
<1>1. status' \in [Msgs -> {"none", "pending", "leased", "temporary_failure"} \cup Final]
    BY DEF Write, TypeOK
<1>2. attemptCount' \in [Msgs -> Nat]
    BY DEF Write, TypeOK
<1>3. due' \in [Msgs -> BOOLEAN]
    <2>1. \A x \in Msgs : due[x] \in BOOLEAN
        BY DEF TypeOK
    <2>2. \A x \in Msgs : (IF x \in DOMAIN new THEN new[x] # "temporary_failure" ELSE due[x]) \in BOOLEAN
        BY <2>1
    <2> QED
        BY <2>2 DEF Write
<1> QED
    BY <1>1, <1>2, <1>3 DEF Write

\* What the two bulk updates write.
LEMMA BulkSent ==
    ASSUME TypeOK, NEW ids \in SUBSET Msgs, BulkMarkSent(ids)
    PROVE  \E new \in [ids -> Final] : Write(new)
BY DEF BulkMarkSent, Final

LEMMA BulkFailed ==
    ASSUME TypeOK, NEW results \in SUBSET (Msgs \X FailedStatus), BulkMarkFailed(results)
    PROVE  \E new \in [{r[1] : r \in results} -> FailedStatus] :
              /\ Write(new)
              /\ \A x \in DOMAIN new : new[x] = "temporary_failure" =>
                    attemptCount[x] + 1 < MaxSendAttempts
<1> DEFINE ids == {r[1] : r \in results}
<1>1. PICK choice \in [ids -> FailedStatus] :
          Write([x \in DOMAIN choice |-> StatusAfter(x, choice[x])])
    BY DEF BulkMarkFailed
<1> DEFINE new == [x \in DOMAIN choice |-> StatusAfter(x, choice[x])]
<1>2. new \in [ids -> FailedStatus] /\ DOMAIN new = ids
    BY DEF StatusAfter, FailedStatus
<1>3. \A x \in ids : new[x] = "temporary_failure" => attemptCount[x] + 1 < MaxSendAttempts
    BY DEF StatusAfter
<1> HIDE DEF new
<1> QED
    BY <1>1, <1>2, <1>3 DEF new

\* Actions with the managers and messages they are about.
LEMMA NextCases ==
    ASSUME Next
    PROVE  \/ \E x \in Msgs : Enqueue(x) \/ Elapse(x) \/ Slow(x)
           \/ \E m \in Managers :
                 \/ LoopCheck(m) \/ LoopStart(m) \/ LoopEnd(m)
                 \/ StopBegin(m) \/ StopEarly(m) \/ StopNotifier(m) \/ StopReturn(m)
                 \/ CancelCtx(m) \/ Crash(m)
                 \/ Fetch(m) \/ Prepare(m) \/ PutFailure(m) \/ ProcessEnds(m) \/ NotifierExits(m)
                 \/ SyncTick(m) \/ SyncStop(m) \/ SyncCanceled(m)
                 \/ SyncSent(m) \/ SyncFailed(m) \/ SyncError(m) \/ SyncEnds(m)
                 \/ \E x \in Msgs : Deliver(m, x) \/ GiveUp(m, x) \/ TimeOut(m, x)
BY Zenon DEF Next, Table, Loop, Stop, Notify, Batch, Sync

RowType ==
    /\ status \in [Msgs -> {"none", "pending", "leased", "temporary_failure"} \cup Final]
    /\ attemptCount \in [Msgs -> Nat]
    /\ due \in [Msgs -> BOOLEAN] /\ slow \in [Msgs -> BOOLEAN]
    /\ faults \in Nat

LoopType ==
    /\ loop \in [Managers -> {"new", "starting", "running", "ended", "crashed"}]
    /\ stop \in [Managers -> {"no", "notifier", "wait", "returned", "early", "crashed"}]
    /\ ctxDone \in [Managers -> BOOLEAN]
    /\ notifier \in [Managers -> {"none", "idle", "process", "exited"}]
    /\ syncer \in [Managers -> {"none", "idle", "sync", "flush", "exited"}]

HoldType ==
    /\ batch \in [Managers -> SUBSET Msgs]
    /\ putting \in [Managers -> SUBSET (Msgs \X FailedStatus)]
    /\ inflight \in [Managers -> SUBSET Msgs]
    /\ success \in [Managers -> Seq(Msgs)]
    /\ failure \in [Managers -> Seq(Msgs \X FailedStatus)]
    /\ sentIds \in [Managers -> SUBSET Msgs]
    /\ failedIds \in [Managers -> SUBSET (Msgs \X FailedStatus)]

LEMMA TypeParts == TypeOK <=> RowType /\ LoopType /\ HoldType
BY DEF TypeOK, RowType, LoopType, HoldType

LEMMA RowStep ==
    ASSUME TypeOK, Next
    PROVE  RowType'
<1> USE DEF RowType
<1>0. RowType
    BY TypeParts
<1>1. ASSUME NEW x \in Msgs, Enqueue(x) \/ Elapse(x) \/ Slow(x) PROVE RowType'
    <2>1. CASE Enqueue(x)
        BY <1>0, <2>1 DEF Enqueue
    <2>2. CASE Elapse(x) \/ Slow(x)
        <3>1. UNCHANGED <<status, attemptCount>> /\ faults' \in Nat
            BY <1>0, <2>2 DEF Elapse, Slow, Fault
        <3>2. due' \in [Msgs -> BOOLEAN]
            BY <1>0, <2>2 DEF Elapse, Slow
        <3>3. slow' \in [Msgs -> BOOLEAN]
            <4>1. PICK b \in BOOLEAN : slow' = [slow EXCEPT ![x] = b]
                BY Zenon, <1>0, <2>2 DEF Elapse, Slow
            <4> QED
                BY <1>0, <4>1
        <3> QED
            BY <1>0, <3>1, <3>2, <3>3
    <2> QED
        BY <1>1, <2>1, <2>2
<1>2. ASSUME NEW m \in Managers, Fetch(m) PROVE RowType'
    BY <1>0, <1>2 DEF Fetch
<1>3. ASSUME NEW m \in Managers, SyncSent(m) PROVE RowType'
    <2>1. sentIds[m] \in SUBSET Msgs
        BY DEF TypeOK
    <2>2. PICK new \in [sentIds[m] -> Final] : Write(new)
        BY <1>3, <2>1, BulkSent DEF SyncSent
    <2>3. new \in [sentIds[m] -> {"none", "pending", "leased", "temporary_failure"} \cup Final]
        OBVIOUS
    <2> QED
        BY <1>0, <1>3, <2>1, <2>2, <2>3, WriteType DEF SyncSent
<1>4. ASSUME NEW m \in Managers, SyncFailed(m) PROVE RowType'
    <2> DEFINE ids == {r[1] : r \in failedIds[m]}
    <2>1. failedIds[m] \in SUBSET (Msgs \X FailedStatus) /\ ids \in SUBSET Msgs
        BY DEF TypeOK
    <2>2. PICK new \in [ids -> FailedStatus] : Write(new)
        BY <1>4, <2>1, BulkFailed DEF SyncFailed
    <2>3. new \in [ids -> {"none", "pending", "leased", "temporary_failure"} \cup Final]
        BY DEF FailedStatus, Final
    <2> HIDE DEF ids
    <2> QED
        BY <1>0, <1>4, <2>1, <2>2, <2>3, WriteType DEF SyncFailed
<1>5. ASSUME NEW m \in Managers,
             \/ CancelCtx(m) \/ Crash(m) \/ SyncError(m) \/ \E x \in Msgs : TimeOut(m, x)
      PROVE  RowType'
    BY <1>0, <1>5 DEF CancelCtx, Crash, SyncError, TimeOut, Fault, rowVars
<1>6. ASSUME NEW m \in Managers,
             \/ LoopCheck(m) \/ LoopStart(m) \/ LoopEnd(m)
             \/ StopBegin(m) \/ StopEarly(m) \/ StopNotifier(m) \/ StopReturn(m)
             \/ Prepare(m) \/ PutFailure(m) \/ ProcessEnds(m) \/ NotifierExits(m)
             \/ SyncTick(m) \/ SyncStop(m) \/ SyncCanceled(m) \/ SyncEnds(m)
             \/ \E x \in Msgs : Deliver(m, x) \/ GiveUp(m, x)
      PROVE  RowType'
    <2>1. UNCHANGED <<status, attemptCount, due, slow, faults>>
        BY <1>6 DEF LoopCheck, LoopStart, LoopEnd, StopBegin, StopEarly, StopNotifier, StopReturn,
           Prepare, PutFailure, ProcessEnds, NotifierExits, SyncTick, SyncStop, SyncCanceled,
           SyncEnds, Deliver, GiveUp, rowVars
    <2> QED
        BY <1>0, <2>1
<1> QED
    BY <1>1, <1>2, <1>3, <1>4, <1>5, <1>6, NextCases

LEMMA LoopTypeStep ==
    ASSUME TypeOK, Next
    PROVE  LoopType'
<1> USE DEF LoopType
<1>0. LoopType
    BY TypeParts
<1>1. ASSUME NEW x \in Msgs, Enqueue(x) \/ Elapse(x) \/ Slow(x) PROVE LoopType'
    BY <1>0, <1>1 DEF Enqueue, Elapse, Slow, loopVars, notifierVars, syncVars
<1>2. ASSUME NEW m \in Managers,
             \/ LoopCheck(m) \/ LoopStart(m) \/ LoopEnd(m)
             \/ StopBegin(m) \/ StopEarly(m) \/ StopNotifier(m) \/ StopReturn(m)
             \/ CancelCtx(m) \/ Crash(m)
      PROVE  LoopType'
    <2>1. CASE LoopCheck(m) \/ LoopStart(m) \/ LoopEnd(m)
        BY <1>0, <2>1 DEF LoopCheck, LoopStart, LoopEnd, notifierVars, syncVars
    <2>2. CASE StopBegin(m) \/ StopEarly(m) \/ StopNotifier(m) \/ StopReturn(m)
        BY <1>0, <2>2 DEF StopBegin, StopEarly, StopNotifier, StopReturn, notifierVars, syncVars
    <2>3. CASE CancelCtx(m)
        <3>1. UNCHANGED <<loop, stop, notifier, syncer>> /\ ctxDone' = [ctxDone EXCEPT ![m] = TRUE]
            BY <2>3 DEF CancelCtx, notifierVars, syncVars
        <3> QED
            BY <1>0, <3>1
    <2>4. CASE Crash(m)
        <3>1. /\ loop' = [loop EXCEPT ![m] = "crashed"] /\ stop' = [stop EXCEPT ![m] = "crashed"]
              /\ notifier' = [notifier EXCEPT ![m] = "exited"]
              /\ syncer' = [syncer EXCEPT ![m] = "exited"]
              /\ ctxDone' = ctxDone
            BY <2>4 DEF Crash
        <3> QED
            BY <1>0, <3>1
    <2> QED
        BY <1>2, <2>1, <2>2, <2>3, <2>4
<1>3. ASSUME NEW m \in Managers,
             \/ Fetch(m) \/ Prepare(m) \/ PutFailure(m) \/ ProcessEnds(m) \/ NotifierExits(m)
             \/ \E x \in Msgs : Deliver(m, x) \/ GiveUp(m, x) \/ TimeOut(m, x)
      PROVE  LoopType'
    BY <1>0, <1>3 DEF Fetch, Prepare, PutFailure, ProcessEnds, NotifierExits, Deliver, GiveUp,
       TimeOut, loopVars, syncVars
<1>4. ASSUME NEW m \in Managers,
             \/ SyncTick(m) \/ SyncStop(m) \/ SyncCanceled(m)
             \/ SyncSent(m) \/ SyncFailed(m) \/ SyncError(m) \/ SyncEnds(m)
      PROVE  LoopType'
    BY <1>0, <1>4 DEF SyncTick, SyncStop, SyncCanceled, SyncSent, SyncFailed, SyncError, SyncEnds,
       TakeResults, loopVars, notifierVars
<1> QED
    BY <1>1, <1>2, <1>3, <1>4, NextCases

LEMMA HoldTypeStep ==
    ASSUME TypeOK, Next
    PROVE  HoldType'
<1> USE DEF HoldType
<1>0. HoldType
    BY TypeParts
<1>1. ASSUME NEW x \in Msgs, Enqueue(x) \/ Elapse(x) \/ Slow(x) PROVE HoldType'
    BY <1>0, <1>1 DEF Enqueue, Elapse, Slow, notifierVars, syncVars
<1>2. ASSUME NEW m \in Managers,
             \/ LoopCheck(m) \/ LoopStart(m) \/ LoopEnd(m)
             \/ StopBegin(m) \/ StopEarly(m) \/ StopNotifier(m) \/ StopReturn(m)
             \/ CancelCtx(m) \/ Crash(m)
      PROVE  HoldType'
    <2>1. CASE LoopCheck(m) \/ LoopStart(m) \/ LoopEnd(m)
        BY <1>0, <2>1 DEF LoopCheck, LoopStart, LoopEnd, notifierVars, syncVars
    <2>2. CASE StopBegin(m) \/ StopEarly(m) \/ StopNotifier(m) \/ StopReturn(m) \/ CancelCtx(m)
        BY <1>0, <2>2 DEF StopBegin, StopEarly, StopNotifier, StopReturn, CancelCtx,
           notifierVars, syncVars
    <2>3. CASE Crash(m)
        <3>1. success' \in [Managers -> Seq(Msgs)]
            BY <1>0, <2>3, EmptySeqIn DEF Crash
        <3>2. failure' \in [Managers -> Seq(Msgs \X FailedStatus)]
            BY <1>0, <2>3, EmptySeqIn DEF Crash
        <3> QED
            BY <1>0, <2>3, <3>1, <3>2 DEF Crash
    <2> QED
        BY <1>2, <2>1, <2>2, <2>3
<1>3. ASSUME NEW m \in Managers,
             \/ Fetch(m) \/ Prepare(m) \/ ProcessEnds(m) \/ NotifierExits(m)
             \/ \E x \in Msgs : GiveUp(m, x) \/ TimeOut(m, x)
      PROVE  HoldType'
    <2>1. CASE Fetch(m)
        BY <1>0, <2>1 DEF Fetch, syncVars
    <2>2. CASE Prepare(m)
        <3>1. PICK x \in batch[m] :
                 /\ batch' = [batch EXCEPT ![m] = @ \ {x}]
                 /\ \/ /\ \E st \in FailedStatus : putting' = [putting EXCEPT ![m] = {<<x, st>>}]
                       /\ UNCHANGED inflight
                    \/ /\ inflight' = [inflight EXCEPT ![m] = @ \cup {x}]
                       /\ UNCHANGED putting
            BY <2>2 DEF Prepare
        <3>2. x \in Msgs /\ batch' \in [Managers -> SUBSET Msgs]
            BY <1>0, <3>1
        <3>3. putting' \in [Managers -> SUBSET (Msgs \X FailedStatus)]
            <4>1. \A st \in FailedStatus : {<<x, st>>} \in SUBSET (Msgs \X FailedStatus)
                BY <3>2
            <4>2. putting' = putting
                  \/ \E st \in FailedStatus : putting' = [putting EXCEPT ![m] = {<<x, st>>}]
                BY <3>1
            <4>3. CASE putting' = putting
                BY <1>0, <4>3
            <4>4. ASSUME NEW st \in FailedStatus, putting' = [putting EXCEPT ![m] = {<<x, st>>}]
                  PROVE  putting' \in [Managers -> SUBSET (Msgs \X FailedStatus)]
                <5> DEFINE R == {<<x, st>>}
                <5>1. R \in SUBSET (Msgs \X FailedStatus) /\ putting' = [putting EXCEPT ![m] = R]
                    BY <4>1, <4>4
                <5> HIDE DEF R
                <5> QED
                    BY <1>0, <5>1
            <4> QED
                BY <4>2, <4>3, <4>4
        <3>4. inflight' \in [Managers -> SUBSET Msgs]
            <4>1. inflight' = inflight \/ inflight' = [inflight EXCEPT ![m] = @ \cup {x}]
                BY <3>1
            <4>2. CASE inflight' = inflight
                BY <1>0, <4>2
            <4>3. CASE inflight' = [inflight EXCEPT ![m] = @ \cup {x}]
                BY <1>0, <3>2, <4>3
            <4> QED
                BY <4>1, <4>2, <4>3
        <3> QED
            BY <1>0, <2>2, <3>2, <3>3, <3>4 DEF Prepare, syncVars
    <2>3. CASE \/ ProcessEnds(m) \/ NotifierExits(m)
               \/ \E x \in Msgs : GiveUp(m, x) \/ TimeOut(m, x)
        BY <1>0, <2>3 DEF ProcessEnds, NotifierExits, GiveUp, TimeOut, syncVars
    <2> QED
        BY <1>3, <2>1, <2>2, <2>3
<1>4. ASSUME NEW m \in Managers, PutFailure(m) PROVE HoldType'
    BY <1>0, <1>4 DEF PutFailure
<1>5. ASSUME NEW m \in Managers, NEW x \in Msgs, Deliver(m, x) PROVE HoldType'
    <2>0. /\ Append(success[m], x) \in Seq(Msgs)
          /\ \A st \in FailedStatus : Append(failure[m], <<x, st>>) \in Seq(Msgs \X FailedStatus)
        BY <1>0
    <2>1. success' \in [Managers -> Seq(Msgs)]
        <3>1. success' = success \/ success' = [success EXCEPT ![m] = Append(@, x)]
            BY <1>5 DEF Deliver
        <3> QED
            BY <1>0, <2>0, <3>1
    <2>2. failure' \in [Managers -> Seq(Msgs \X FailedStatus)]
        <3>1. \/ failure' = failure
              \/ \E st \in FailedStatus : failure' = [failure EXCEPT ![m] = Append(@, <<x, st>>)]
            BY <1>5 DEF Deliver
        <3> QED
            BY <1>0, <2>0, <3>1
    <2> QED
        BY <1>0, <1>5, <2>1, <2>2 DEF Deliver
<1>6. ASSUME NEW m \in Managers, SyncTick(m) \/ SyncStop(m) PROVE HoldType'
    <2>1. Elements(success[m]) \in SUBSET Msgs
          /\ Elements(failure[m]) \in SUBSET (Msgs \X FailedStatus)
        BY <1>0, ElementsOfSeq
    <2>2. success' \in [Managers -> Seq(Msgs)]
        <3>1. success' = success \/ success' = [success EXCEPT ![m] = <<>>]
            BY <1>6 DEF SyncTick, SyncStop, TakeResults
        <3> QED
            BY <1>0, <3>1, EmptySeqIn
    <2>3. failure' \in [Managers -> Seq(Msgs \X FailedStatus)]
        <3>1. failure' = failure \/ failure' = [failure EXCEPT ![m] = <<>>]
            BY <1>6 DEF SyncTick, SyncStop, TakeResults
        <3> QED
            BY <1>0, <3>1, EmptySeqIn
    <2>4. /\ sentIds' \in [Managers -> SUBSET Msgs]
          /\ failedIds' \in [Managers -> SUBSET (Msgs \X FailedStatus)]
        BY <1>0, <1>6, <2>1 DEF SyncTick, SyncStop, TakeResults
    <2> QED
        BY <1>0, <1>6, <2>2, <2>3, <2>4 DEF SyncTick, SyncStop, notifierVars
<1>7. ASSUME NEW m \in Managers,
             SyncCanceled(m) \/ SyncSent(m) \/ SyncFailed(m) \/ SyncError(m) \/ SyncEnds(m)
      PROVE  HoldType'
    BY <1>0, <1>7 DEF SyncCanceled, SyncSent, SyncFailed, SyncError, SyncEnds, notifierVars
<1> QED
    BY <1>1, <1>2, <1>3, <1>4, <1>5, <1>6, <1>7, NextCases

LEMMA TypeStep == TypeOK /\ [Next]_vars => TypeOK'
<1>1. CASE TypeOK /\ Next
    <2>1. TypeOK' <=> RowType' /\ LoopType' /\ HoldType'
        BY DEF TypeOK, RowType, LoopType, HoldType
    <2> QED
        BY <1>1, <2>1, RowStep, LoopTypeStep, HoldTypeStep
<1>2. CASE TypeOK /\ UNCHANGED vars
    BY <1>2 DEF TypeOK, vars, rowVars, loopVars, notifierVars, syncVars
<1> QED
    BY <1>1, <1>2

-----------------------------------------------------------------------------
(* Attempts. *)

\* A row that is not final has attempts left after a bulk update.
LEMMA AttemptsWrite ==
    ASSUME TypeOK, AttemptsLeft, NEW S \in SUBSET Msgs, NEW new \in [S -> FailedStatus \cup Final],
           \A x \in S : new[x] = "temporary_failure" => attemptCount[x] + 1 < MaxSendAttempts,
           Write(new)
    PROVE  AttemptsLeft'
<1> SUFFICES ASSUME NEW x \in Msgs, status'[x] \notin Final
             PROVE  attemptCount'[x] < MaxSendAttempts
    BY DEF AttemptsLeft
<1>1. CASE x \in S
    BY <1>1 DEF Write, TypeOK, FailedStatus, Final
<1>2. CASE x \notin S
    BY <1>2 DEF Write, TypeOK, AttemptsLeft
<1> QED
    BY <1>1, <1>2

LEMMA AttemptsStep ==
    ASSUME TypeOK, AttemptsLeft, Next
    PROVE  AttemptsLeft'
<1>1. ASSUME NEW x \in Msgs, Enqueue(x) \/ Elapse(x) \/ Slow(x) PROVE AttemptsLeft'
    BY <1>1 DEF Enqueue, Elapse, Slow, AttemptsLeft, TypeOK, Final
<1>2. ASSUME NEW m \in Managers, Fetch(m) PROVE AttemptsLeft'
    BY <1>2 DEF Fetch, Eligible, AttemptsLeft, TypeOK
<1>3. ASSUME NEW m \in Managers, SyncSent(m) PROVE AttemptsLeft'
    <2>1. sentIds[m] \in SUBSET Msgs
        BY DEF TypeOK
    <2>2. /\ [x \in sentIds[m] |-> "sent"] \in [sentIds[m] -> FailedStatus \cup Final]
          /\ Write([x \in sentIds[m] |-> "sent"])
          /\ \A x \in sentIds[m] : [y \in sentIds[m] |-> "sent"][x] # "temporary_failure"
        BY <1>3, <2>1 DEF SyncSent, BulkMarkSent, Final
    <2> QED
        BY <2>1, <2>2, AttemptsWrite
<1>4. ASSUME NEW m \in Managers, SyncFailed(m) PROVE AttemptsLeft'
    <2> DEFINE ids == {r[1] : r \in failedIds[m]}
    <2>1. failedIds[m] \in SUBSET (Msgs \X FailedStatus) /\ ids \in SUBSET Msgs
        BY DEF TypeOK
    <2>2. PICK new \in [ids -> FailedStatus] :
             /\ Write(new)
             /\ \A x \in DOMAIN new : new[x] = "temporary_failure" =>
                   attemptCount[x] + 1 < MaxSendAttempts
        BY <1>4, <2>1, BulkFailed DEF SyncFailed
    <2>3. new \in [ids -> FailedStatus \cup Final] /\ DOMAIN new = ids
        OBVIOUS
    <2> HIDE DEF ids
    <2> QED
        BY <2>1, <2>2, <2>3, AttemptsWrite
<1>5. ASSUME UNCHANGED <<status, attemptCount>> PROVE AttemptsLeft'
    BY <1>5 DEF AttemptsLeft
<1>6. ASSUME NEW m \in Managers,
             \/ LoopCheck(m) \/ LoopStart(m) \/ LoopEnd(m)
             \/ StopBegin(m) \/ StopEarly(m) \/ StopNotifier(m) \/ StopReturn(m)
             \/ CancelCtx(m) \/ Crash(m) \/ SyncError(m)
             \/ Prepare(m) \/ PutFailure(m) \/ ProcessEnds(m) \/ NotifierExits(m)
             \/ SyncTick(m) \/ SyncStop(m) \/ SyncCanceled(m) \/ SyncEnds(m)
             \/ \E x \in Msgs : Deliver(m, x) \/ GiveUp(m, x) \/ TimeOut(m, x)
      PROVE  UNCHANGED <<status, attemptCount>>
    BY <1>6 DEF LoopCheck, LoopStart, LoopEnd, StopBegin, StopEarly, StopNotifier, StopReturn,
       CancelCtx, Crash, SyncError, TimeOut,
       Prepare, PutFailure, ProcessEnds, NotifierExits, SyncTick, SyncStop, SyncCanceled,
       SyncEnds, Deliver, GiveUp, rowVars
<1> QED
    BY <1>1, <1>2, <1>3, <1>4, <1>5, <1>6, NextCases

-----------------------------------------------------------------------------
(* Leases. *)

At(m, i, x) == x \in Holdings(m)[i]

\* ExclusiveUnlessSlow and HeldNotDue, place by place.
Excl ==
    \A x \in Msgs : ~slow[x] =>
        \A m, n \in Managers : \A i, j \in 1..7 :
            At(m, i, x) /\ At(n, j, x) => m = n /\ i = j /\ status[x] = "leased" /\ ~due[x]

LEMMA ExclSame == Excl <=> ExclusiveUnlessSlow /\ HeldNotDue
<1>1. ASSUME Excl PROVE ExclusiveUnlessSlow /\ HeldNotDue
    <2>1. ASSUME NEW x \in Msgs, ~slow[x], NEW p \in Places(x), NEW r \in Places(x)
          PROVE  p = r /\ status[x] = "leased" /\ ~due[x]
        <3>1. PICK m \in Managers, i \in 1..7 : p = <<m, i>> /\ At(m, i, x)
            BY DEF Places, At
        <3>2. PICK n \in Managers, j \in 1..7 : r = <<n, j>> /\ At(n, j, x)
            BY DEF Places, At
        <3> QED
            BY <1>1, <2>1, <3>1, <3>2 DEF Excl
    <2> QED
        BY <2>1 DEF ExclusiveUnlessSlow, HeldNotDue
<1>2. ASSUME ExclusiveUnlessSlow, HeldNotDue PROVE Excl
    <2> SUFFICES ASSUME NEW x \in Msgs, ~slow[x], NEW m \in Managers, NEW n \in Managers,
                        NEW i \in 1..7, NEW j \in 1..7, At(m, i, x), At(n, j, x)
                 PROVE  m = n /\ i = j /\ status[x] = "leased" /\ ~due[x]
        BY DEF Excl
    <2>1. <<m, i>> \in Places(x) /\ <<n, j>> \in Places(x)
        BY DEF Places, At
    <2>2. <<m, i>> = <<n, j>> /\ status[x] = "leased"
        BY <1>2, <2>1 DEF ExclusiveUnlessSlow
    <2>3. ~due[x]
        BY <1>2, <2>1 DEF HeldNotDue
    <2> QED
        BY <2>2, <2>3
<1> QED
    BY <1>1, <1>2

\* The seven places, by name.
LEMMA AtPlaces ==
    ASSUME NEW m \in Managers, NEW x \in Msgs
    PROVE  /\ At(m, 1, x) <=> x \in batch[m]
           /\ At(m, 2, x) <=> \E r \in putting[m] : x = r[1]
           /\ At(m, 3, x) <=> x \in inflight[m]
           /\ At(m, 4, x) <=> x \in Elements(success[m])
           /\ At(m, 5, x) <=> \E r \in Elements(failure[m]) : x = r[1]
           /\ At(m, 6, x) <=> x \in sentIds[m]
           /\ At(m, 7, x) <=> \E r \in failedIds[m] : x = r[1]
BY DEF At, Holdings

LEMMA AtPlacesNext ==
    ASSUME NEW m \in Managers, NEW x \in Msgs
    PROVE  /\ At(m, 1, x)' <=> x \in batch'[m]
           /\ At(m, 2, x)' <=> \E r \in putting'[m] : x = r[1]
           /\ At(m, 3, x)' <=> x \in inflight'[m]
           /\ At(m, 4, x)' <=> x \in Elements(success'[m])
           /\ At(m, 5, x)' <=> \E r \in Elements(failure'[m]) : x = r[1]
           /\ At(m, 6, x)' <=> x \in sentIds'[m]
           /\ At(m, 7, x)' <=> \E r \in failedIds'[m] : x = r[1]
BY DEF At, Holdings

\* A place whose variable does not change keeps its messages.
LEMMA AtSame ==
    ASSUME NEW m \in Managers, NEW x \in Msgs
    PROVE  /\ batch'[m] = batch[m] => (At(m, 1, x)' <=> At(m, 1, x))
           /\ putting'[m] = putting[m] => (At(m, 2, x)' <=> At(m, 2, x))
           /\ inflight'[m] = inflight[m] => (At(m, 3, x)' <=> At(m, 3, x))
           /\ success'[m] = success[m] => (At(m, 4, x)' <=> At(m, 4, x))
           /\ failure'[m] = failure[m] => (At(m, 5, x)' <=> At(m, 5, x))
           /\ sentIds'[m] = sentIds[m] => (At(m, 6, x)' <=> At(m, 6, x))
           /\ failedIds'[m] = failedIds[m] => (At(m, 7, x)' <=> At(m, 7, x))
BY AtPlaces, AtPlacesNext

\* What Excl says of the rows still holds of a message that stays where it was.
KeepsRow(x) == slow'[x] \/ (~slow[x] /\ status'[x] = status[x] /\ due'[x] = due[x])

\* Messages leave places, or the rows of messages that nobody holds change.
LEMMA Removal ==
    ASSUME TypeOK, Excl,
           \A m \in Managers : \A i \in 1..7 : \A x \in Msgs :
              At(m, i, x)' => At(m, i, x) /\ KeepsRow(x)
    PROVE  Excl'
<1> SUFFICES ASSUME NEW x \in Msgs, ~slow'[x], NEW m \in Managers, NEW n \in Managers,
                    NEW i \in 1..7, NEW j \in 1..7, At(m, i, x)', At(n, j, x)'
             PROVE  m = n /\ i = j /\ status'[x] = "leased" /\ ~due'[x]
    BY DEF Excl
<1>1. At(m, i, x) /\ At(n, j, x) /\ KeepsRow(x)
    OBVIOUS
<1> QED
    BY <1>1 DEF Excl, KeepsRow

\* One message moves from place s to place t of one manager.
Moves(m, s, t, y) ==
    /\ At(m, s, y)
    /\ \A n \in Managers : \A i \in 1..7 : \A x \in Msgs :
          At(n, i, x)' => \/ At(n, i, x) /\ ~(n = m /\ i = s /\ x = y)
                          \/ n = m /\ i = t /\ x = y

LEMMA MoveOne ==
    ASSUME TypeOK, Excl, UNCHANGED rowVars,
           NEW m \in Managers, NEW y \in Msgs, NEW s \in 1..7, NEW t \in 1..7, Moves(m, s, t, y)
    PROVE  Excl'
<1> USE DEF Moves
<1> SUFFICES ASSUME NEW x \in Msgs, ~slow'[x], NEW k \in Managers, NEW n \in Managers,
                    NEW i \in 1..7, NEW j \in 1..7, At(k, i, x)', At(n, j, x)'
             PROVE  k = n /\ i = j /\ status'[x] = "leased" /\ ~due'[x]
    BY DEF Excl
<1>0. ~slow[x] /\ status'[x] = status[x] /\ due'[x] = due[x]
    BY DEF rowVars
<1>1. CASE x = y
    <2>1. ASSUME NEW l \in Managers, NEW h \in 1..7, At(l, h, x)' PROVE l = m /\ h = t
        <3>1. At(l, h, x) => l = m /\ h = s
            BY <1>0, <1>1 DEF Excl
        <3> QED
            BY <1>1, <2>1, <3>1
    <2>2. status[x] = "leased" /\ ~due[x]
        BY <1>0, <1>1 DEF Excl
    <2> QED
        BY <1>0, <2>1, <2>2
<1>2. CASE x # y
    <2>1. At(k, i, x) /\ At(n, j, x)
        BY <1>2
    <2> QED
        BY <1>0, <2>1 DEF Excl
<1> QED
    BY <1>1, <1>2

\* Other managers' places.
LEMMA OtherManager ==
    ASSUME TypeOK, NEW m \in Managers, NEW n \in Managers, n # m,
           batch'[n] = batch[n], putting'[n] = putting[n], inflight'[n] = inflight[n],
           success'[n] = success[n], failure'[n] = failure[n],
           sentIds'[n] = sentIds[n], failedIds'[n] = failedIds[n]
    PROVE  \A i \in 1..7 : \A x \in Msgs : At(n, i, x)' <=> At(n, i, x)
BY AtSame

LEMMA ExclTable ==
    ASSUME TypeOK, Excl, NEW y \in Msgs, Enqueue(y) \/ Elapse(y) \/ Slow(y)
    PROVE  Excl'
<1>1. \A m \in Managers : \A i \in 1..7 : \A x \in Msgs : At(m, i, x)' <=> At(m, i, x)
    BY AtSame DEF Enqueue, Elapse, Slow, notifierVars, syncVars
<1>2. ASSUME NEW m \in Managers, NEW i \in 1..7, NEW x \in Msgs, At(m, i, x)
      PROVE  KeepsRow(x) \/ slow[x]
    <2>1. CASE x # y
        BY <2>1 DEF Enqueue, Elapse, Slow, KeepsRow, TypeOK
    <2>2. CASE x = y /\ Enqueue(y)
        BY <1>2, <2>2 DEF Enqueue, Excl
    <2>3. CASE x = y /\ (Elapse(y) \/ Slow(y))
        <3>1. Holds(m, x)
            BY <1>2 DEF Holds, At
        <3> QED
            BY <2>3, <3>1 DEF Elapse, Slow, KeepsRow, TypeOK
    <2> QED
        BY <2>1, <2>2, <2>3
<1>3. \A x \in Msgs : slow[x] => slow'[x]
    BY DEF Enqueue, Elapse, Slow, TypeOK
<1>4. \A m \in Managers : \A i \in 1..7 : \A x \in Msgs :
         At(m, i, x)' => At(m, i, x) /\ KeepsRow(x)
    BY <1>1, <1>2, <1>3 DEF KeepsRow
<1> QED
    BY <1>4, Removal

\* A step that only takes messages from places.
LEMMA ExclRemoval ==
    ASSUME TypeOK, Excl, UNCHANGED rowVars, NEW m \in Managers,
           \/ LoopCheck(m) \/ LoopStart(m) \/ LoopEnd(m)
           \/ StopBegin(m) \/ StopEarly(m) \/ StopNotifier(m) \/ StopReturn(m)
           \/ CancelCtx(m) \/ Crash(m) \/ ProcessEnds(m) \/ NotifierExits(m)
           \/ SyncCanceled(m) \/ SyncError(m) \/ SyncEnds(m)
           \/ \E x \in Msgs : GiveUp(m, x) \/ TimeOut(m, x)
    PROVE  Excl'
<1>1. ASSUME NEW x \in Msgs PROVE KeepsRow(x) \/ slow[x]
    BY DEF KeepsRow, rowVars
<1>2. slow' = slow
    BY DEF rowVars
<1>3. ASSUME NEW n \in Managers, NEW i \in 1..7, NEW x \in Msgs, At(n, i, x)'
      PROVE  At(n, i, x)
    <2>1. CASE \/ LoopCheck(m) \/ LoopStart(m) \/ LoopEnd(m)
               \/ StopBegin(m) \/ StopEarly(m) \/ StopNotifier(m) \/ StopReturn(m)
               \/ CancelCtx(m) \/ ProcessEnds(m) \/ NotifierExits(m)
               \/ SyncCanceled(m) \/ SyncEnds(m)
        BY <1>3, <2>1, AtSame DEF LoopCheck, LoopStart, LoopEnd, StopBegin, StopEarly,
           StopNotifier, StopReturn, CancelCtx, ProcessEnds, NotifierExits, SyncCanceled,
           SyncEnds, notifierVars, syncVars
    <2>2. CASE Crash(m)
        <3>1. CASE n # m
            BY <1>3, <2>2, <3>1, AtSame DEF Crash, TypeOK
        <3>2. CASE n = m
            <4>1. /\ batch'[n] = {} /\ putting'[n] = {} /\ inflight'[n] = {} /\ success'[n] = <<>>
                  /\ failure'[n] = <<>> /\ sentIds'[n] = {} /\ failedIds'[n] = {}
                BY <2>2, <3>2 DEF Crash, TypeOK
            <4> QED
                BY <1>3, <4>1, AtPlacesNext, ElementsEmpty
        <3> QED
            BY <3>1, <3>2
    <2>3. CASE SyncError(m)
        <3>1. /\ sentIds'[n] \in {sentIds[n], {}} /\ failedIds'[n] \in {failedIds[n], {}}
              /\ UNCHANGED <<batch, putting, inflight, success, failure>>
            BY <2>3 DEF SyncError, notifierVars, TypeOK
        <3> QED
            BY <1>3, <3>1, AtSame, AtPlacesNext
    <2>4. CASE \E y \in Msgs : GiveUp(m, y) \/ TimeOut(m, y)
        <3>1. /\ inflight'[n] \subseteq inflight[n]
              /\ UNCHANGED <<batch, putting, success, failure, sentIds, failedIds>>
            <4>1. PICK y \in Msgs : GiveUp(m, y) \/ TimeOut(m, y)
                BY <2>4
            <4>2. /\ inflight' = [inflight EXCEPT ![m] = @ \ {y}]
                  /\ UNCHANGED <<batch, putting, success, failure, sentIds, failedIds>>
                BY <4>1 DEF GiveUp, TimeOut, syncVars
            <4> QED
                BY <4>2 DEF TypeOK
        <3> QED
            BY <1>3, <3>1, AtSame, AtPlaces, AtPlacesNext
    <2> QED
        BY <2>1, <2>2, <2>3, <2>4
<1>4. \A n \in Managers : \A i \in 1..7 : \A x \in Msgs :
         ~slow[x] /\ At(n, i, x)' => At(n, i, x) /\ KeepsRow(x)
    BY <1>1, <1>3
<1>5. \A n \in Managers : \A i \in 1..7 : \A x \in Msgs :
         At(n, i, x)' => At(n, i, x) /\ KeepsRow(x)
    BY <1>2, <1>3, <1>4 DEF KeepsRow
<1> QED
    BY <1>5, Removal

LEMMA ExclFetch ==
    ASSUME TypeOK, Excl, NEW m \in Managers, Fetch(m)
    PROVE  Excl'
<1>1. PICK ids \in SUBSET {x \in Msgs : Eligible(x)} :
         /\ status' = [x \in Msgs |-> IF x \in ids THEN "leased" ELSE status[x]]
         /\ due' = [x \in Msgs |-> due[x] /\ x \notin ids]
         /\ batch' = [batch EXCEPT ![m] = ids]
    BY DEF Fetch
<1>2. slow' = slow /\ UNCHANGED <<putting, inflight, success, failure, sentIds, failedIds>>
    BY DEF Fetch, syncVars
<1>3. ASSUME NEW n \in Managers, NEW i \in 1..7, NEW x \in Msgs, At(n, i, x)'
      PROVE  At(n, i, x) \/ (n = m /\ i = 1 /\ x \in ids)
    <2>1. n # m => batch'[n] = batch[n]
        BY <1>1 DEF TypeOK
    <2>2. n = m => batch'[n] = ids
        BY <1>1 DEF TypeOK
    <2> QED
        BY <1>2, <1>3, <2>1, <2>2, AtSame, AtPlacesNext
<1>4. ASSUME NEW x \in ids, ~slow[x], NEW n \in Managers, NEW i \in 1..7 PROVE ~At(n, i, x)
    BY <1>4 DEF Eligible, Excl
<1>5. ASSUME NEW x \in Msgs
      PROVE  /\ x \in ids => status'[x] = "leased" /\ ~due'[x]
             /\ x \notin ids => status'[x] = status[x] /\ (due'[x] <=> due[x])
    BY <1>1
<1> SUFFICES ASSUME NEW x \in Msgs, ~slow[x], NEW k \in Managers, NEW n \in Managers,
                    NEW i \in 1..7, NEW j \in 1..7, At(k, i, x)', At(n, j, x)'
             PROVE  k = n /\ i = j /\ status'[x] = "leased" /\ ~due'[x]
    BY <1>2 DEF Excl
<1>6. CASE x \in ids
    BY <1>3, <1>4, <1>5, <1>6
<1>7. CASE x \notin ids
    BY <1>3, <1>5, <1>7 DEF Excl
<1> QED
    BY <1>6, <1>7

LEMMA ExclPrepare ==
    ASSUME TypeOK, Excl, NEW m \in Managers, Prepare(m)
    PROVE  Excl'
<1>1. PICK y \in batch[m] :
         /\ batch' = [batch EXCEPT ![m] = @ \ {y}]
         /\ \/ /\ \E st \in FailedStatus : putting' = [putting EXCEPT ![m] = {<<y, st>>}]
               /\ UNCHANGED inflight
            \/ /\ inflight' = [inflight EXCEPT ![m] = @ \cup {y}]
               /\ UNCHANGED putting
    BY DEF Prepare
<1>2. UNCHANGED rowVars /\ UNCHANGED <<success, failure, sentIds, failedIds>>
    BY DEF Prepare, syncVars
<1>3. y \in Msgs /\ At(m, 1, y)
    BY AtPlaces DEF TypeOK
<1>4. batch'[m] = batch[m] \ {y} /\ \A n \in Managers : n # m => batch'[n] = batch[n]
    BY <1>1 DEF TypeOK
<1>5. CASE /\ \E st \in FailedStatus : putting' = [putting EXCEPT ![m] = {<<y, st>>}]
           /\ UNCHANGED inflight
    <2>1. PICK st \in FailedStatus : putting' = [putting EXCEPT ![m] = {<<y, st>>}]
        BY <1>5
    <2>2. putting'[m] = {<<y, st>>} /\ \A n \in Managers : n # m => putting'[n] = putting[n]
        BY <2>1 DEF TypeOK
    <2>3. ASSUME NEW n \in Managers, NEW i \in 1..7, NEW x \in Msgs, At(n, i, x)'
          PROVE  \/ At(n, i, x) /\ ~(n = m /\ i = 1 /\ x = y)
                 \/ n = m /\ i = 2 /\ x = y
        <3>1. CASE i \notin {1, 2} \/ n # m
            BY <1>2, <1>4, <1>5, <2>2, <2>3, <3>1, AtSame
        <3>2. CASE i = 1 /\ n = m
            BY <1>4, <2>3, <3>2, AtPlaces, AtPlacesNext
        <3>3. CASE i = 2 /\ n = m
            BY <2>2, <2>3, <3>3, AtPlacesNext
        <3> QED
            BY <3>1, <3>2, <3>3
    <2>9. Moves(m, 1, 2, y)
        BY <1>2, <1>3, <2>3 DEF Moves
    <2> QED
        BY <1>2, <1>3, <2>9, MoveOne
<1>6. CASE /\ inflight' = [inflight EXCEPT ![m] = @ \cup {y}]
           /\ UNCHANGED putting
    <2>2. /\ inflight'[m] = inflight[m] \cup {y}
          /\ \A n \in Managers : n # m => inflight'[n] = inflight[n]
        BY <1>6 DEF TypeOK
    <2>3. ASSUME NEW n \in Managers, NEW i \in 1..7, NEW x \in Msgs, At(n, i, x)'
          PROVE  \/ At(n, i, x) /\ ~(n = m /\ i = 1 /\ x = y)
                 \/ n = m /\ i = 3 /\ x = y
        <3>1. CASE i \notin {1, 3} \/ n # m
            BY <1>2, <1>4, <1>6, <2>2, <2>3, <3>1, AtSame
        <3>2. CASE i = 1 /\ n = m
            BY <1>4, <2>3, <3>2, AtPlaces, AtPlacesNext
        <3>3. CASE i = 3 /\ n = m
            BY <2>2, <2>3, <3>3, AtPlaces, AtPlacesNext
        <3> QED
            BY <3>1, <3>2, <3>3
    <2>9. Moves(m, 1, 3, y)
        BY <1>2, <1>3, <2>3 DEF Moves
    <2> QED
        BY <1>2, <1>3, <2>9, MoveOne
<1> QED
    BY <1>1, <1>5, <1>6

LEMMA ExclPutFailure ==
    ASSUME TypeOK, Excl, NEW m \in Managers, PutFailure(m)
    PROVE  Excl'
<1>1. PICK r \in putting[m] : failure' = [failure EXCEPT ![m] = Append(@, r)]
    BY DEF PutFailure
<1>2. /\ UNCHANGED rowVars /\ UNCHANGED <<batch, inflight, success, sentIds, failedIds>>
      /\ putting' = [putting EXCEPT ![m] = {}]
    BY DEF PutFailure
<1>3. r \in Msgs \X FailedStatus /\ failure[m] \in Seq(Msgs \X FailedStatus)
    BY DEF TypeOK
<1>y. PICK y \in Msgs : y = r[1]
    BY <1>3
<1>4. At(m, 2, y)
    BY <1>y, AtPlaces
<1>5. /\ Elements(failure'[m]) = Elements(failure[m]) \cup {r} /\ putting'[m] = {}
      /\ \A n \in Managers : n # m => failure'[n] = failure[n] /\ putting'[n] = putting[n]
    <2>1. failure'[m] = Append(failure[m], r) /\ putting'[m] = {}
          /\ \A n \in Managers : n # m => failure'[n] = failure[n] /\ putting'[n] = putting[n]
        BY <1>1, <1>2 DEF TypeOK
    <2> QED
        <3> DEFINE R == Msgs \X FailedStatus
        <3>1. r \in R /\ failure[m] \in Seq(R)
            BY <1>3
        <3> HIDE DEF R
        <3> QED
            BY <2>1, <3>1, ElementsOfSeq
<1>6. ASSUME NEW n \in Managers, NEW i \in 1..7, NEW x \in Msgs, At(n, i, x)'
      PROVE  \/ At(n, i, x) /\ ~(n = m /\ i = 2 /\ x = y)
             \/ n = m /\ i = 5 /\ x = y
    <2>1. CASE i \notin {2, 5} \/ n # m
        <3>1. i # 2 \/ putting'[n] = putting[n]
            BY <1>5, <2>1
        <3>2. i # 5 \/ failure'[n] = failure[n]
            BY <1>5, <2>1
        <3>3. At(n, i, x)
            BY <1>2, <1>6, <3>1, <3>2, AtSame
        <3> QED
            BY <2>1, <3>3
    <2>2. CASE i = 2 /\ n = m
        BY <1>5, <1>6, <2>2, AtPlacesNext
    <2>3. CASE i = 5 /\ n = m
        <3>1. PICK q \in Elements(failure'[m]) : x = q[1]
            BY <1>6, <2>3, AtPlacesNext
        <3>2. CASE q = r
            BY <1>y, <2>3, <3>1, <3>2
        <3>3. CASE q \in Elements(failure[m])
            BY <2>3, <3>1, <3>3, AtPlaces
        <3> QED
            BY <1>5, <3>1, <3>2, <3>3
    <2> QED
        BY <2>1, <2>2, <2>3
<1>9. Moves(m, 2, 5, y)
    BY <1>2, <1>4, <1>6 DEF Moves
<1> QED
    BY <1>2, <1>4, <1>9, MoveOne

LEMMA ExclDeliver ==
    ASSUME TypeOK, Excl, NEW m \in Managers, NEW y \in Msgs, Deliver(m, y)
    PROVE  Excl'
<1>1. /\ UNCHANGED rowVars /\ UNCHANGED <<batch, putting, sentIds, failedIds>>
      /\ inflight' = [inflight EXCEPT ![m] = @ \ {y}]
    BY DEF Deliver
<1>2. At(m, 3, y)
    BY AtPlaces DEF Deliver
<1>3. inflight'[m] = inflight[m] \ {y} /\ \A n \in Managers : n # m => inflight'[n] = inflight[n]
    BY <1>1 DEF TypeOK
<1>4. CASE success' = [success EXCEPT ![m] = Append(@, y)] /\ UNCHANGED failure
    <2>1. /\ Elements(success'[m]) = Elements(success[m]) \cup {y}
          /\ \A n \in Managers : n # m => success'[n] = success[n]
        BY <1>4, ElementsOfSeq DEF TypeOK
    <2>2. ASSUME NEW n \in Managers, NEW i \in 1..7, NEW x \in Msgs, At(n, i, x)'
          PROVE  \/ At(n, i, x) /\ ~(n = m /\ i = 3 /\ x = y)
                 \/ n = m /\ i = 4 /\ x = y
        <3>1. CASE i \notin {3, 4} \/ n # m
            BY <1>1, <1>3, <1>4, <2>1, <2>2, <3>1, AtSame
        <3>2. CASE i = 3 /\ n = m
            BY <1>3, <2>2, <3>2, AtPlaces, AtPlacesNext
        <3>3. CASE i = 4 /\ n = m
            BY <2>1, <2>2, <3>3, AtPlaces, AtPlacesNext
        <3> QED
            BY <3>1, <3>2, <3>3
    <2>9. Moves(m, 3, 4, y)
        BY <1>1, <1>2, <2>2 DEF Moves
    <2> QED
        BY <1>1, <2>9, MoveOne
<1>5. ASSUME NEW st \in FailedStatus, failure' = [failure EXCEPT ![m] = Append(@, <<y, st>>)],
             UNCHANGED success
      PROVE  Excl'
    <2>0. <<y, st>> \in Msgs \X FailedStatus /\ failure[m] \in Seq(Msgs \X FailedStatus)
        BY DEF TypeOK
    <2>1. /\ Elements(failure'[m]) = Elements(failure[m]) \cup {<<y, st>>}
          /\ \A n \in Managers : n # m => failure'[n] = failure[n]
        <3>1. failure'[m] = Append(failure[m], <<y, st>>)
              /\ \A n \in Managers : n # m => failure'[n] = failure[n]
            BY <1>5 DEF TypeOK
        <3> QED
            <4> DEFINE R == Msgs \X FailedStatus  r == <<y, st>>
            <4>1. r \in R /\ failure[m] \in Seq(R) /\ failure'[m] = Append(failure[m], r)
                BY <2>0, <3>1
            <4> HIDE DEF R, r
            <4>2. Elements(failure'[m]) = Elements(failure[m]) \cup {r}
                BY <4>1, ElementsOfSeq
            <4> QED
                BY <3>1, <4>2 DEF r
    <2>2. ASSUME NEW n \in Managers, NEW i \in 1..7, NEW x \in Msgs, At(n, i, x)'
          PROVE  \/ At(n, i, x) /\ ~(n = m /\ i = 3 /\ x = y)
                 \/ n = m /\ i = 5 /\ x = y
        <3>1. CASE i \notin {3, 5} \/ n # m
            BY <1>1, <1>3, <1>5, <2>1, <2>2, <3>1, AtSame
        <3>2. CASE i = 3 /\ n = m
            BY <1>3, <2>2, <3>2, AtPlaces, AtPlacesNext
        <3>3. CASE i = 5 /\ n = m
            BY <2>1, <2>2, <3>3, AtPlaces, AtPlacesNext
        <3> QED
            BY <3>1, <3>2, <3>3
    <2>9. Moves(m, 3, 5, y)
        BY <1>1, <1>2, <2>2 DEF Moves
    <2> QED
        BY <1>1, <2>9, MoveOne
<1> QED
    BY <1>4, <1>5 DEF Deliver

\* syncUpdates moves all results of a manager.
LEMMA ExclTake ==
    ASSUME TypeOK, Excl, NEW m \in Managers, SyncTick(m) \/ SyncStop(m)
    PROVE  Excl'
<1>1. UNCHANGED rowVars /\ UNCHANGED <<batch, putting, inflight>>
    BY DEF SyncTick, SyncStop, notifierVars
<1>2. CASE UNCHANGED <<success, failure, sentIds, failedIds>>
    <2>1. \A n \in Managers : \A i \in 1..7 : \A x \in Msgs : At(n, i, x)' <=> At(n, i, x)
        BY <1>1, <1>2, AtSame
    <2> QED
        BY <1>1, <2>1 DEF Excl, rowVars
<1>3. CASE /\ sentIds' = [sentIds EXCEPT ![m] = Elements(success[m])]
           /\ failedIds' = [failedIds EXCEPT ![m] = Elements(failure[m])]
           /\ success' = [success EXCEPT ![m] = <<>>]
           /\ failure' = [failure EXCEPT ![m] = <<>>]
    <2>1. /\ sentIds'[m] = Elements(success[m]) /\ failedIds'[m] = Elements(failure[m])
          /\ success'[m] = <<>> /\ failure'[m] = <<>>
          /\ \A n \in Managers : n # m =>
                /\ success'[n] = success[n] /\ failure'[n] = failure[n]
                /\ sentIds'[n] = sentIds[n] /\ failedIds'[n] = failedIds[n]
        BY <1>3 DEF TypeOK
    <2>2. ASSUME NEW n \in Managers, n # m, NEW i \in 1..7, NEW x \in Msgs, At(n, i, x)'
          PROVE  At(n, i, x)
        BY <1>1, <2>1, <2>2, AtSame
    <2>3. ASSUME NEW i \in 1..7, NEW x \in Msgs, At(m, i, x)'
          PROVE  \/ i \in {1, 2, 3} /\ At(m, i, x)
                 \/ i = 6 /\ At(m, 4, x)
                 \/ i = 7 /\ At(m, 5, x)
        <3>1. CASE i \in {1, 2, 3}
            BY <1>1, <2>3, <3>1, AtSame
        <3>2. CASE i \in {4, 5}
            BY <2>1, <2>3, <3>2, AtPlacesNext, ElementsEmpty
        <3>3. CASE i = 6
            BY <2>1, <2>3, <3>3, AtPlaces, AtPlacesNext
        <3>4. CASE i = 7
            BY <2>1, <2>3, <3>4, AtPlaces, AtPlacesNext
        <3> QED
            BY <3>1, <3>2, <3>3, <3>4
    <2> SUFFICES ASSUME NEW x \in Msgs, ~slow[x], NEW k \in Managers, NEW n \in Managers,
                        NEW i \in 1..7, NEW j \in 1..7, At(k, i, x)', At(n, j, x)'
                 PROVE  k = n /\ i = j /\ status[x] = "leased" /\ ~due[x]
        BY <1>1 DEF Excl, rowVars
    <2>4. PICK g \in 1..7 : At(k, g, x) /\ (k # m => g = i) /\
             (k = m => (i \in {1, 2, 3} /\ g = i) \/ (i = 6 /\ g = 4) \/ (i = 7 /\ g = 5))
        BY <2>2, <2>3
    <2>5. PICK h \in 1..7 : At(n, h, x) /\ (n # m => h = j) /\
             (n = m => (j \in {1, 2, 3} /\ h = j) \/ (j = 6 /\ h = 4) \/ (j = 7 /\ h = 5))
        BY <2>2, <2>3
    <2>6. k = n /\ g = h /\ status[x] = "leased" /\ ~due[x]
        BY <2>4, <2>5 DEF Excl
    <2> QED
        BY <2>4, <2>5, <2>6
<1> QED
    BY <1>2, <1>3 DEF SyncTick, SyncStop, TakeResults

\* A bulk update writes the rows of messages that its manager gives back.
LEMMA ExclWrite ==
    ASSUME TypeOK, Excl, NEW m \in Managers, NEW s \in 1..7,
           NEW S \in SUBSET Msgs, NEW new, DOMAIN new = S, Write(new),
           \A x \in Msgs : x \in S => At(m, s, x),
           \A n \in Managers : \A i \in 1..7 : \A x \in Msgs :
              At(n, i, x)' => At(n, i, x) /\ (n # m \/ i # s)
    PROVE  Excl'
<1>1. slow' = slow /\ \A x \in Msgs : x \notin S => status'[x] = status[x] /\ due'[x] = due[x]
    BY DEF Write
<1>2. ASSUME NEW n \in Managers, NEW i \in 1..7, NEW x \in Msgs, At(n, i, x)'
      PROVE  KeepsRow(x)
    <2>1. CASE slow[x]
        BY <1>1, <2>1 DEF KeepsRow
    <2>2. CASE ~slow[x] /\ x \in S
        <3>1. At(m, s, x) /\ At(n, i, x) /\ (n # m \/ i # s)
            BY <1>2, <2>2
        <3> QED
            BY <2>2, <3>1 DEF Excl
    <2>3. CASE ~slow[x] /\ x \notin S
        BY <1>1, <2>3 DEF KeepsRow
    <2> QED
        BY <2>1, <2>2, <2>3
<1> QED
    BY <1>2, Removal

LEMMA ExclSync ==
    ASSUME TypeOK, Excl, NEW m \in Managers, SyncSent(m) \/ SyncFailed(m)
    PROVE  Excl'
<1>1. CASE SyncSent(m)
    <2>1. /\ UNCHANGED <<batch, putting, inflight, success, failure, failedIds>>
          /\ sentIds'[m] = {} /\ \A n \in Managers : n # m => sentIds'[n] = sentIds[n]
        BY <1>1 DEF SyncSent, notifierVars, TypeOK
    <2>2. ASSUME NEW n \in Managers, NEW i \in 1..7, NEW x \in Msgs, At(n, i, x)'
          PROVE  At(n, i, x) /\ (n # m \/ i # 6)
        BY <2>1, <2>2, AtSame, AtPlacesNext
    <2>3. sentIds[m] \in SUBSET Msgs /\ \A x \in Msgs : x \in sentIds[m] => At(m, 6, x)
        BY AtPlaces DEF TypeOK
    <2>4. PICK new \in [sentIds[m] -> Final] : Write(new)
        BY <1>1, <2>3, BulkSent DEF SyncSent
    <2> QED
        BY <2>2, <2>3, <2>4, ExclWrite
<1>2. CASE SyncFailed(m)
    <2> DEFINE ids == {r[1] : r \in failedIds[m]}
    <2>1. /\ UNCHANGED <<batch, putting, inflight, success, failure, sentIds>>
          /\ failedIds'[m] = {} /\ \A n \in Managers : n # m => failedIds'[n] = failedIds[n]
        BY <1>2 DEF SyncFailed, notifierVars, TypeOK
    <2>2. ASSUME NEW n \in Managers, NEW i \in 1..7, NEW x \in Msgs, At(n, i, x)'
          PROVE  At(n, i, x) /\ (n # m \/ i # 7)
        BY <2>1, <2>2, AtSame, AtPlacesNext
    <2>3. failedIds[m] \in SUBSET (Msgs \X FailedStatus)
        BY DEF TypeOK
    <2>4. ids \in SUBSET Msgs /\ \A x \in Msgs : x \in ids => At(m, 7, x)
        BY <2>3, AtPlaces
    <2>5. PICK new \in [ids -> FailedStatus] : Write(new)
        BY <1>2, <2>3, BulkFailed DEF SyncFailed
    <2> HIDE DEF ids
    <2> QED
        BY <2>2, <2>4, <2>5, ExclWrite
<1> QED
    BY <1>1, <1>2

LEMMA ExclStep ==
    ASSUME TypeOK, Excl, Next
    PROVE  Excl'
<1>1. ASSUME NEW m \in Managers,
             \/ LoopCheck(m) \/ LoopStart(m) \/ LoopEnd(m)
             \/ StopBegin(m) \/ StopEarly(m) \/ StopNotifier(m) \/ StopReturn(m)
             \/ CancelCtx(m) \/ Crash(m) \/ ProcessEnds(m) \/ NotifierExits(m)
             \/ SyncCanceled(m) \/ SyncError(m) \/ SyncEnds(m)
             \/ \E x \in Msgs : GiveUp(m, x) \/ TimeOut(m, x)
      PROVE  Excl'
    <2>1. UNCHANGED rowVars
        BY <1>1 DEF LoopCheck, LoopStart, LoopEnd, StopBegin, StopEarly, StopNotifier, StopReturn,
           CancelCtx, Crash, ProcessEnds, NotifierExits, SyncCanceled, SyncError, SyncEnds,
           GiveUp, TimeOut
    <2> QED
        BY <1>1, <2>1, ExclRemoval
<1> QED
    BY <1>1, NextCases, ExclTable, ExclFetch, ExclPrepare, ExclPutFailure, ExclDeliver, ExclTake,
       ExclSync

-----------------------------------------------------------------------------
(* The loops and Stop. *)

LifecycleOf(m) ==
    /\ loop[m] \in {"new", "starting"} => notifier[m] = "none"
    /\ notifier[m] = "none" <=> syncer[m] = "none"
    /\ notifier[m] # "process" => batch[m] = {} /\ putting[m] = {} /\ inflight[m] = {}
    /\ syncer[m] \notin {"sync", "flush"} => sentIds[m] = {} /\ failedIds[m] = {}
    /\ notifier[m] = "none" => success[m] = <<>> /\ failure[m] = <<>>
    /\ loop[m] = "ended" => syncer[m] \in {"none", "exited"}
    /\ syncer[m] \in {"flush", "exited"} /\ stop[m] \in {"no", "notifier"} => ctxDone[m]
    /\ stop[m] \in {"wait", "returned"} =>
          /\ notifier[m] = "exited"
          /\ syncer[m] \in {"flush", "exited"} /\ ~ctxDone[m] =>
                success[m] = <<>> /\ failure[m] = <<>>
    /\ stop[m] = "returned" => loop[m] = "ended"

LEMMA LifecycleAll == Lifecycle <=> \A m \in Managers : LifecycleOf(m)
BY DEF Lifecycle, LifecycleOf

LEMMA LifecycleAllNext == Lifecycle' <=> \A m \in Managers : LifecycleOf(m)'
BY DEF Lifecycle, LifecycleOf

SameOf(n) ==
    /\ loop'[n] = loop[n] /\ stop'[n] = stop[n] /\ ctxDone'[n] = ctxDone[n]
    /\ notifier'[n] = notifier[n] /\ batch'[n] = batch[n]
    /\ putting'[n] = putting[n] /\ inflight'[n] = inflight[n]
    /\ success'[n] = success[n] /\ failure'[n] = failure[n] /\ syncer'[n] = syncer[n]
    /\ sentIds'[n] = sentIds[n] /\ failedIds'[n] = failedIds[n]

LEMMA LifecycleSame ==
    ASSUME NEW n \in Managers, LifecycleOf(n), SameOf(n)
    PROVE  LifecycleOf(n)'
BY DEF LifecycleOf, SameOf

\* The two conjuncts about NothingLeft: a manager that is stopped has no results left
\* when the goroutine that writes them is gone.
LEMMA LifecycleLoop ==
    ASSUME TypeOK, NEW m \in Managers, NEW n \in Managers, LifecycleOf(n),
           \/ LoopCheck(m) \/ LoopStart(m) \/ LoopEnd(m)
           \/ StopBegin(m) \/ StopEarly(m) \/ StopNotifier(m) \/ StopReturn(m)
           \/ CancelCtx(m) \/ Crash(m)
    PROVE  LifecycleOf(n)'
<1>1. CASE n # m
    <2>1. SameOf(n)
        BY <1>1 DEF SameOf, LoopCheck, LoopStart, LoopEnd, StopBegin, StopEarly, StopNotifier,
           StopReturn, CancelCtx, Crash, TypeOK, loopVars, notifierVars, syncVars
    <2> QED
        BY <2>1, LifecycleSame
<1>2. CASE n = m /\ LoopCheck(m)
    BY <1>2 DEF LoopCheck, LifecycleOf, TypeOK, notifierVars, syncVars
<1>3. CASE n = m /\ LoopStart(m)
    BY <1>3 DEF LoopStart, LifecycleOf, TypeOK
<1>4. CASE n = m /\ LoopEnd(m)
    BY <1>4 DEF LoopEnd, LifecycleOf, TypeOK, notifierVars, syncVars
<1>5. CASE n = m /\ (StopBegin(m) \/ StopEarly(m))
    BY <1>5 DEF StopBegin, StopEarly, LifecycleOf, TypeOK, notifierVars, syncVars
<1>6. CASE n = m /\ (StopNotifier(m) \/ StopReturn(m))
    BY <1>6 DEF StopNotifier, StopReturn, LifecycleOf, TypeOK, notifierVars, syncVars
<1>7. CASE n = m /\ CancelCtx(m)
    BY <1>7 DEF CancelCtx, LifecycleOf, TypeOK, notifierVars, syncVars
<1>8. CASE n = m /\ Crash(m)
    BY <1>8 DEF Crash, LifecycleOf, TypeOK
<1> QED
    BY <1>1, <1>2, <1>3, <1>4, <1>5, <1>6, <1>7, <1>8

LEMMA LifecycleNotify ==
    ASSUME TypeOK, NEW m \in Managers, NEW n \in Managers, LifecycleOf(n),
           \/ Fetch(m) \/ Prepare(m) \/ PutFailure(m) \/ ProcessEnds(m) \/ NotifierExits(m)
           \/ \E x \in Msgs : Deliver(m, x) \/ GiveUp(m, x) \/ TimeOut(m, x)
    PROVE  LifecycleOf(n)'
<1>1. CASE n # m
    <2>1. SameOf(n)
        BY <1>1 DEF SameOf, Fetch, Prepare, PutFailure, ProcessEnds, NotifierExits, Deliver, GiveUp,
           TimeOut, TypeOK, loopVars, syncVars
    <2> QED
        BY <2>1, LifecycleSame
<1>2. CASE n = m /\ Fetch(m)
    BY <1>2 DEF Fetch, LifecycleOf, TypeOK, loopVars, syncVars
<1>3. CASE n = m /\ Prepare(m)
    <2>1. notifier[m] = "process" /\ UNCHANGED <<loop, stop, ctxDone, notifier, success, failure,
                                                 syncer, sentIds, failedIds>>
        BY <1>3 DEF Prepare, loopVars, syncVars
    <2> QED
        BY <1>3, <2>1 DEF LifecycleOf
<1>4. CASE n = m /\ PutFailure(m)
    <2>1. notifier[m] = "process"
        BY <1>4 DEF PutFailure, LifecycleOf
    <2>2. UNCHANGED <<loop, stop, ctxDone, notifier, success, syncer, sentIds, failedIds>>
        BY <1>4 DEF PutFailure, loopVars
    <2> QED
        BY <1>4, <2>1, <2>2 DEF LifecycleOf
<1>5. CASE n = m /\ (ProcessEnds(m) \/ NotifierExits(m))
    BY <1>5 DEF ProcessEnds, NotifierExits, LifecycleOf, TypeOK, loopVars, syncVars
<1>6. ASSUME n = m, NEW x \in Msgs, Deliver(m, x) \/ GiveUp(m, x) \/ TimeOut(m, x)
      PROVE  LifecycleOf(n)'
    <2>1. notifier[m] = "process"
        BY <1>6 DEF Deliver, GiveUp, TimeOut, LifecycleOf
    <2>2. UNCHANGED <<loop, stop, ctxDone, notifier, syncer, sentIds, failedIds>>
        BY <1>6 DEF Deliver, GiveUp, TimeOut, loopVars, syncVars
    <2> QED
        BY <1>6, <2>1, <2>2 DEF LifecycleOf
<1> QED
    BY <1>1, <1>2, <1>3, <1>4, <1>5, <1>6

LEMMA LifecycleSync ==
    ASSUME TypeOK, NEW m \in Managers, NEW n \in Managers, LifecycleOf(n),
           \/ SyncTick(m) \/ SyncStop(m) \/ SyncCanceled(m)
           \/ SyncSent(m) \/ SyncFailed(m) \/ SyncError(m) \/ SyncEnds(m)
    PROVE  LifecycleOf(n)'
<1>1. CASE n # m
    <2>1. SameOf(n)
        BY <1>1 DEF SameOf, SyncTick, SyncStop, SyncCanceled, SyncSent, SyncFailed, SyncError,
           SyncEnds, TakeResults, TypeOK, loopVars, notifierVars
    <2> QED
        BY <2>1, LifecycleSame
<1>2. CASE n = m /\ SyncTick(m)
    <2>1. /\ UNCHANGED <<loop, stop, ctxDone, notifier, batch, putting, inflight>>
          /\ success'[m] = <<>> /\ failure'[m] = <<>> /\ syncer[m] = "idle" /\ syncer'[m] = "sync"
        BY <1>2 DEF SyncTick, TakeResults, TypeOK, loopVars, notifierVars
    <2> QED
        BY <1>2, <2>1 DEF LifecycleOf
<1>3. CASE n = m /\ SyncStop(m)
    <2>0. /\ UNCHANGED <<loop, stop, ctxDone, notifier, batch, putting, inflight>>
          /\ StopClosed(m) /\ syncer[m] = "idle"
        BY <1>3 DEF SyncStop, loopVars, notifierVars
    <2>1. CASE ~ctxDone[m] /\ Results(m) > 0
        <3>1. success'[m] = <<>> /\ failure'[m] = <<>> /\ syncer'[m] = "flush"
            BY <1>3, <2>1 DEF SyncStop, TakeResults, TypeOK
        <3> QED
            BY <1>3, <2>0, <3>1 DEF LifecycleOf, StopClosed
    <2>2. CASE ~(~ctxDone[m] /\ Results(m) > 0)
        <3>1. UNCHANGED <<success, failure, sentIds, failedIds>> /\ syncer'[m] = "exited"
            BY <1>3, <2>2 DEF SyncStop, TypeOK
        <3>2. ~ctxDone[m] => success[m] = <<>> /\ failure[m] = <<>>
            <4>1. success[m] \in Seq(Msgs) /\ failure[m] \in Seq(Msgs \X FailedStatus)
                BY DEF TypeOK
            <4>2. /\ Len(success[m]) \in Nat /\ Len(failure[m]) \in Nat
                  /\ Len(success[m]) = 0 => success[m] = <<>>
                  /\ Len(failure[m]) = 0 => failure[m] = <<>>
                BY <4>1, EmptySeq
            <4>3. ~ctxDone[m] => ~(Results(m) > 0)
                BY Zenon, <2>2
            <4>4. ~(Results(m) > 0) => success[m] = <<>> /\ failure[m] = <<>>
                <5>1. ASSUME NEW a \in Nat, NEW b \in Nat, ~(a + b > 0) PROVE a = 0 /\ b = 0
                    BY <5>1
                <5>2. ~(Results(m) > 0) => Len(success[m]) = 0 /\ Len(failure[m]) = 0
                    BY <4>2, <5>1 DEF Results
                <5> QED
                    BY Zenon, <4>2, <5>2
            <4> QED
                BY Zenon, <4>3, <4>4
        <3> QED
            BY <1>3, <2>0, <3>1, <3>2 DEF LifecycleOf, StopClosed
    <2> QED
        BY <2>1, <2>2
<1>4. CASE n = m /\ SyncCanceled(m)
    BY <1>4 DEF SyncCanceled, LifecycleOf, TypeOK, loopVars, notifierVars
<1>5. CASE n = m /\ (SyncSent(m) \/ SyncFailed(m) \/ SyncError(m))
    <2>1. /\ UNCHANGED <<loop, stop, ctxDone, notifier, batch, putting, inflight, success, failure,
                         syncer>>
          /\ sentIds'[m] \in {sentIds[m], {}} /\ failedIds'[m] \in {failedIds[m], {}}
        BY <1>5 DEF SyncSent, SyncFailed, SyncError, TypeOK, loopVars, notifierVars
    <2> QED
        BY <1>5, <2>1 DEF LifecycleOf
<1>6. CASE n = m /\ SyncEnds(m)
    BY <1>6 DEF SyncEnds, LifecycleOf, TypeOK, loopVars, notifierVars
<1> QED
    BY <1>1, <1>2, <1>3, <1>4, <1>5, <1>6

LEMMA LifecycleStep ==
    ASSUME TypeOK, Lifecycle, Next
    PROVE  Lifecycle'
<1> SUFFICES ASSUME NEW n \in Managers PROVE LifecycleOf(n)'
    BY LifecycleAllNext
<1>0. LifecycleOf(n)
    BY LifecycleAll
<1>1. ASSUME NEW x \in Msgs, Enqueue(x) \/ Elapse(x) \/ Slow(x) PROVE LifecycleOf(n)'
    <2>1. SameOf(n)
        BY <1>1 DEF SameOf, Enqueue, Elapse, Slow, loopVars, notifierVars, syncVars
    <2> QED
        BY <1>0, <2>1, LifecycleSame
<1> QED
    BY <1>0, <1>1, NextCases, LifecycleLoop, LifecycleNotify, LifecycleSync

-----------------------------------------------------------------------------
(* The inductive invariant. *)

LEMMA InvInit == Init => IInv
<1> SUFFICES ASSUME Init PROVE IInv
    OBVIOUS
<1>1. TypeOK
    BY TypeInit
<1>2. AttemptsLeft
    BY DEF Init, AttemptsLeft
<1>3. Excl
    <2>1. ASSUME NEW m \in Managers, NEW i \in 1..7, NEW x \in Msgs PROVE ~At(m, i, x)
        BY AtPlaces, ElementsEmpty DEF Init, All
    <2> QED
        BY <2>1 DEF Excl
<1>4. Lifecycle
    BY DEF Init, All, Lifecycle
<1> QED
    BY <1>1, <1>2, <1>3, <1>4, ExclSame DEF IInv

LEMMA InvStep == IInv /\ [Next]_vars => IInv'
<1> SUFFICES ASSUME IInv, [Next]_vars PROVE IInv'
    OBVIOUS
<1>0. TypeOK /\ AttemptsLeft /\ Excl /\ Lifecycle
    BY ExclSame DEF IInv
<1>1. CASE Next
    <2>1. TypeOK' /\ AttemptsLeft' /\ Excl' /\ Lifecycle'
        BY <1>0, <1>1, TypeStep, AttemptsStep, ExclStep, LifecycleStep
    <2>2. Excl' <=> ExclusiveUnlessSlow' /\ HeldNotDue'
        BY ExclSame, PTL
    <2> QED
        BY <2>1, <2>2 DEF IInv
<1>2. CASE UNCHANGED vars
    <2>1. TypeOK' /\ AttemptsLeft' /\ Lifecycle'
        BY <1>0, <1>2 DEF vars, rowVars, loopVars, notifierVars, syncVars, TypeOK, AttemptsLeft,
           Lifecycle
    <2>2. ExclusiveUnlessSlow' /\ HeldNotDue'
        <3>1. \A m \in Managers : \A i \in 1..7 : \A x \in Msgs : At(m, i, x)' <=> At(m, i, x)
            BY <1>2, AtSame DEF vars, notifierVars, syncVars
        <3>2. Excl'
            BY <1>0, <1>2, <3>1 DEF Excl, vars, rowVars
        <3>3. Excl' <=> ExclusiveUnlessSlow' /\ HeldNotDue'
            BY ExclSame, PTL
        <3> QED
            BY <3>2, <3>3
    <2> QED
        BY <2>1, <2>2 DEF IInv
<1> QED
    BY <1>1, <1>2

\* The strengthening of the notifier's properties holds of every reachable state.
THEOREM NotifierInvariance == Spec => []IInv
BY InvInit, InvStep, PTL DEF Spec

\* The variables keep their types; a failed result keeps its kind on its way to the store.
THEOREM NotifierTypeCorrect == Spec => []TypeOK
<1>1. IInv => TypeOK
    BY DEF IInv
<1> QED
    BY <1>1, NotifierInvariance, PTL

\* No message is stuck: a row that is neither sent nor failed for good has attempts left,
\* in whatever order the bulk updates of several replicas reach it.
THEOREM NoMessageOutOfAttempts == Spec => []AttemptsLeft
<1>1. IInv => AttemptsLeft
    BY DEF IInv
<1> QED
    BY <1>1, NotifierInvariance, PTL

\* A lease is exclusive until it expires: a message whose lease has never expired early is
\* in one place of one manager, and its row is leased.
THEOREM LeasesAreExclusive == Spec => []ExclusiveUnlessSlow
<1>1. IInv => ExclusiveUnlessSlow
    BY DEF IInv
<1> QED
    BY <1>1, NotifierInvariance, PTL

\* A channel keeps what is in it when a result is added.
LEMMA AppendKeeps ==
    ASSUME NEW S, NEW q \in Seq(S), NEW x \in S
    PROVE  Elements(q) \subseteq Elements(Append(q, x))
BY ElementsOfSeq

\* A result goes from the channels to the bulk updates, and from there into the table, or is
\* lost by a fault.
LEMMA ResultsKept ==
    ASSUME TypeOK, Lifecycle, Next, NEW m \in Managers, NEW x \in Recorded(m) \ Recorded(m)'
    PROVE  attemptCount'[x] > attemptCount[x] \/ faults' > faults \/ ctxDone[m]
<1> DEFINE Goal == attemptCount'[x] > attemptCount[x] \/ faults' > faults \/ ctxDone[m]
<1>t. RowType /\ HoldType
    BY TypeParts
<1>b. ASSUME /\ success'[m] = success[m] /\ failure'[m] = failure[m]
             /\ sentIds'[m] = sentIds[m] /\ failedIds'[m] = failedIds[m]
      PROVE  FALSE
    BY <1>b DEF Recorded
<1>f. Fault => faults' > faults
    BY <1>t DEF RowType, Fault
<1>1. ASSUME NEW n \in Managers, PutFailure(n)
      PROVE  FALSE
    <2>1. PICK r \in putting[n] : failure' = [failure EXCEPT ![n] = Append(@, r)]
        BY <1>1 DEF PutFailure
    <2>2. UNCHANGED <<success, sentIds, failedIds>>
        BY <1>1 DEF PutFailure
    <2>3. r \in Msgs \X FailedStatus /\ failure[m] \in Seq(Msgs \X FailedStatus)
        BY <1>t DEF HoldType
    <2>4. failure'[m] \in {failure[m], Append(failure[m], r)}
        BY <1>t, <2>1 DEF HoldType
    <2>5. Elements(failure[m]) \subseteq Elements(failure'[m])
        BY <2>3, <2>4, AppendKeeps
    <2> QED
        BY <2>2, <2>5 DEF Recorded
<1>2. ASSUME NEW n \in Managers, NEW y \in Msgs, Deliver(n, y)
      PROVE  FALSE
    <2>1. UNCHANGED <<sentIds, failedIds>>
        BY <1>2 DEF Deliver
    <2>2. success[m] \in Seq(Msgs) /\ failure[m] \in Seq(Msgs \X FailedStatus)
        BY <1>t DEF HoldType
    <2>3. CASE success' = [success EXCEPT ![n] = Append(@, y)] /\ failure' = failure
        <3>1. success'[m] \in {success[m], Append(success[m], y)}
            BY <1>t, <2>3 DEF HoldType
        <3>2. Elements(success[m]) \subseteq Elements(success'[m])
            BY <2>2, <3>1, AppendKeeps
        <3> QED
            BY <2>1, <2>3, <3>2 DEF Recorded
    <2>4. ASSUME NEW st \in FailedStatus, failure' = [failure EXCEPT ![n] = Append(@, <<y, st>>)],
                 success' = success
          PROVE  FALSE
        <3>1. failure'[m] \in {failure[m], Append(failure[m], <<y, st>>)}
            BY <1>t, <2>4 DEF HoldType
        <3>2. <<y, st>> \in Msgs \X FailedStatus
            BY <2>4
        <3>3. Elements(failure[m]) \subseteq Elements(failure'[m])
            BY <2>2, <3>1, <3>2, AppendKeeps
        <3> QED
            BY <2>1, <2>4, <3>3 DEF Recorded
    <2> QED
        BY <1>2, <2>3, <2>4 DEF Deliver
<1>3. ASSUME NEW n \in Managers, NEW then, TakeResults(n, then), syncer[n] = "idle"
      PROVE  FALSE
    <2>1. CASE n = m
        <3>1. sentIds[m] = {} /\ failedIds[m] = {}
            BY <1>3, <2>1 DEF Lifecycle
        <3>2. sentIds'[m] = Elements(success[m]) /\ failedIds'[m] = Elements(failure[m])
            BY <1>t, <1>3, <2>1 DEF TakeResults, HoldType
        <3> QED
            BY <3>1, <3>2 DEF Recorded
    <2>2. CASE n # m
        BY <1>b, <1>t, <1>3, <2>2 DEF TakeResults, HoldType
    <2> QED
        BY <2>1, <2>2
<1>4. ASSUME NEW n \in Managers, SyncTick(n) \/ SyncStop(n)
      PROVE  FALSE
    <2>1. CASE UNCHANGED <<success, failure, sentIds, failedIds>>
        BY <1>b, <2>1
    <2> QED
        BY <1>3, <1>4, <2>1 DEF SyncTick, SyncStop
<1>5. ASSUME NEW n \in Managers, SyncSent(n) \/ SyncFailed(n) PROVE Goal
    <2>1. UNCHANGED <<success, failure>>
        BY <1>5 DEF SyncSent, SyncFailed
    <2>2. n = m
        BY <1>b, <1>t, <1>5 DEF SyncSent, SyncFailed, HoldType
    <2>3. CASE SyncSent(n)
        <3>1. x \in sentIds[m] /\ sentIds[m] \in SUBSET Msgs
            BY <1>t, <2>1, <2>2, <2>3 DEF SyncSent, Recorded, HoldType
        <3>2. PICK new \in [sentIds[m] -> Final] : Write(new)
            BY <2>2, <2>3, <3>1, BulkSent DEF SyncSent
        <3>3. DOMAIN new = sentIds[m]
            OBVIOUS
        <3> QED
            BY <1>t, <3>1, <3>2, <3>3 DEF Write, RowType
    <2>4. CASE SyncFailed(n)
        <3> DEFINE ids == {r[1] : r \in failedIds[m]}
        <3>1. failedIds[m] \in SUBSET (Msgs \X FailedStatus)
            BY <1>t DEF HoldType
        <3>2. x \in ids /\ ids \in SUBSET Msgs
            BY <2>1, <2>2, <2>4, <3>1 DEF SyncFailed, Recorded
        <3>3. PICK new \in [ids -> FailedStatus] : Write(new)
            BY <2>2, <2>4, <3>1, BulkFailed DEF SyncFailed
        <3>4. DOMAIN new = ids
            OBVIOUS
        <3> HIDE DEF ids
        <3> QED
            BY <1>t, <3>2, <3>3, <3>4 DEF Write, RowType
    <2> QED
        BY <1>5, <2>3, <2>4
<1>6. ASSUME NEW n \in Managers, SyncError(n) PROVE Goal
    <2>1. n = m
        BY <1>b, <1>t, <1>6 DEF SyncError, HoldType
    <2> QED
        BY <1>f, <1>6, <2>1 DEF SyncError
<1>7. ASSUME NEW n \in Managers, Crash(n) PROVE Goal
    BY <1>f, <1>7 DEF Crash
<1>8. ASSUME NEW n \in Managers,
             \/ LoopCheck(n) \/ LoopStart(n) \/ LoopEnd(n)
             \/ StopBegin(n) \/ StopEarly(n) \/ StopNotifier(n) \/ StopReturn(n)
             \/ CancelCtx(n) \/ Fetch(n) \/ Prepare(n) \/ ProcessEnds(n) \/ NotifierExits(n)
             \/ SyncCanceled(n) \/ SyncEnds(n)
             \/ \E y \in Msgs : GiveUp(n, y) \/ TimeOut(n, y)
      PROVE  FALSE
    <2>1. UNCHANGED <<success, failure, sentIds, failedIds>>
        BY <1>8 DEF LoopCheck, LoopStart, LoopEnd, StopBegin, StopEarly, StopNotifier, StopReturn,
           CancelCtx, Fetch, Prepare, ProcessEnds, NotifierExits, SyncCanceled, SyncEnds, GiveUp,
           TimeOut, syncVars
    <2> QED
        BY <1>b, <2>1
<1>9. ASSUME NEW y \in Msgs, Enqueue(y) \/ Elapse(y) \/ Slow(y)
      PROVE  FALSE
    <2>1. UNCHANGED <<success, failure, sentIds, failedIds>>
        BY <1>9 DEF Enqueue, Elapse, Slow, syncVars
    <2> QED
        BY <1>b, <2>1
<1> HIDE DEF Goal
<1>10. Goal
    BY <1>1, <1>2, <1>4, <1>5, <1>6, <1>7, <1>8, <1>9, NextCases
<1> QED
    BY <1>10 DEF Goal

\* A Stop that has seen the notifier returns when the manager holds nothing any more, and what
\* it held is in the table, unless a bulk update has failed, the replica died or the context
\* was canceled, for any number of managers and messages and every size of the channels.
THEOREM StopFlushesResults == Spec => StopFlushes
<1>1. IInv => NothingLeft
    <2> SUFFICES ASSUME IInv, NEW m \in Managers, stop[m] = "returned", ~ctxDone[m],
                        NEW x \in Msgs, NEW i \in 1..7, At(m, i, x)
                 PROVE  FALSE
        BY DEF NothingLeft, Holds, At
    <2>1. LifecycleOf(m)
        BY LifecycleAll DEF IInv
    <2>2. notifier[m] = "exited" /\ syncer[m] = "exited"
        BY <2>1 DEF LifecycleOf
    <2>3. /\ batch[m] = {} /\ putting[m] = {} /\ inflight[m] = {} /\ success[m] = <<>>
          /\ failure[m] = <<>> /\ sentIds[m] = {} /\ failedIds[m] = {}
        BY <2>1, <2>2 DEF LifecycleOf
    <2> QED
        BY <2>3, AtPlaces, ElementsEmpty
<1>2. IInv /\ [Next]_vars => NothingLeft'
    BY <1>1, InvStep, PTL
<1>3. IInv /\ [Next]_vars =>
         [\A m \in Managers : \A x \in Recorded(m) \ Recorded(m)' :
             attemptCount'[x] > attemptCount[x] \/ faults' > faults \/ ctxDone[m]]_vars
    BY ResultsKept DEF IInv
<1>4. IInv /\ [Next]_vars =>
         [/\ NothingLeft'
          /\ \A m \in Managers : \A x \in Recorded(m) \ Recorded(m)' :
                attemptCount'[x] > attemptCount[x] \/ faults' > faults \/ ctxDone[m]]_vars
    BY <1>2, <1>3
<1> QED
    BY <1>4, NotifierInvariance, PTL DEF Spec, StopFlushes

\* A bulk update writes messages that their manager holds.
LEMMA WritesHeld ==
    ASSUME TypeOK, NEW m \in Managers, SyncSent(m) \/ SyncFailed(m)
    PROVE  \E S \in SUBSET Msgs, s \in 1..7 :
              /\ \A x \in S : At(m, s, x)
              /\ \A x \in Msgs \ S : status'[x] = status[x] /\ attemptCount'[x] = attemptCount[x]
              /\ \A x \in S : attemptCount'[x] = attemptCount[x] + 1
<1>1. ASSUME NEW S \in SUBSET Msgs, NEW new, DOMAIN new = S, Write(new)
      PROVE  /\ \A x \in Msgs \ S : status'[x] = status[x] /\ attemptCount'[x] = attemptCount[x]
             /\ \A x \in S : attemptCount'[x] = attemptCount[x] + 1
    BY <1>1 DEF Write, TypeOK
<1>2. CASE SyncSent(m)
    <2>1. sentIds[m] \in SUBSET Msgs /\ \A x \in sentIds[m] : At(m, 6, x)
        BY AtPlaces DEF TypeOK
    <2>2. PICK new \in [sentIds[m] -> Final] : Write(new)
        BY <1>2, <2>1, BulkSent DEF SyncSent
    <2>3. DOMAIN new = sentIds[m]
        OBVIOUS
    <2> QED
        BY <1>1, <2>1, <2>2, <2>3
<1>3. CASE SyncFailed(m)
    <2> DEFINE ids == {r[1] : r \in failedIds[m]}
    <2>1. failedIds[m] \in SUBSET (Msgs \X FailedStatus)
        BY DEF TypeOK
    <2>2. ids \in SUBSET Msgs /\ \A x \in ids : At(m, 7, x)
        BY <2>1, AtPlaces
    <2>3. PICK new \in [ids -> FailedStatus] : Write(new)
        BY <1>3, <2>1, BulkFailed DEF SyncFailed
    <2>4. DOMAIN new = ids
        OBVIOUS
    <2> HIDE DEF ids
    <2> QED
        BY <1>1, <2>2, <2>3, <2>4
<1> QED
    BY <1>2, <1>3

\* A step that writes a result finds the row leased, or the lease has expired before.
LEMMA WritesOnce ==
    ASSUME TypeOK, Excl, Next, NEW x \in Msgs, ~slow[x]
    PROVE  /\ status[x] \in Final => status'[x] = status[x] /\ attemptCount'[x] = attemptCount[x]
           /\ attemptCount'[x] # attemptCount[x] =>
                 status[x] = "leased" /\ attemptCount'[x] = attemptCount[x] + 1
<1> DEFINE Goal == /\ status[x] \in Final =>
                         status'[x] = status[x] /\ attemptCount'[x] = attemptCount[x]
                   /\ attemptCount'[x] # attemptCount[x] =>
                         status[x] = "leased" /\ attemptCount'[x] = attemptCount[x] + 1
<1>1. ASSUME NEW m \in Managers, SyncSent(m) \/ SyncFailed(m)
      PROVE  Goal
    <2>1. PICK S \in SUBSET Msgs, s \in 1..7 :
              /\ \A y \in S : At(m, s, y)
              /\ \A y \in Msgs \ S : status'[y] = status[y] /\ attemptCount'[y] = attemptCount[y]
              /\ \A y \in S : attemptCount'[y] = attemptCount[y] + 1
        BY <1>1, WritesHeld
    <2>2. CASE x \in S
        <3>1. status[x] = "leased"
            BY <2>1, <2>2 DEF Excl
        <3> QED
            BY <2>1, <2>2, <3>1 DEF Final
    <2>3. CASE x \notin S
        BY <2>1, <2>3
    <2> QED
        BY <2>2, <2>3
<1>2. ASSUME NEW y \in Msgs, Enqueue(y) \/ Elapse(y) \/ Slow(y)
      PROVE  Goal
    <2>1. attemptCount' = attemptCount
        BY <1>2 DEF Enqueue, Elapse, Slow
    <2>2. status[x] \in Final => status'[x] = status[x]
        BY <1>2 DEF Enqueue, Elapse, Slow, TypeOK, Final
    <2> QED
        BY <2>1, <2>2
<1>3. ASSUME NEW m \in Managers, Fetch(m)
      PROVE  Goal
    <2>1. attemptCount' = attemptCount
        BY <1>3 DEF Fetch
    <2>2. status[x] \in Final => status'[x] = status[x]
        BY <1>3 DEF Fetch, Eligible, Final
    <2> QED
        BY <2>1, <2>2
<1>4. ASSUME NEW m \in Managers,
             \/ LoopCheck(m) \/ LoopStart(m) \/ LoopEnd(m)
             \/ StopBegin(m) \/ StopEarly(m) \/ StopNotifier(m) \/ StopReturn(m)
             \/ CancelCtx(m) \/ Crash(m) \/ SyncError(m)
             \/ Prepare(m) \/ PutFailure(m) \/ ProcessEnds(m) \/ NotifierExits(m)
             \/ SyncTick(m) \/ SyncStop(m) \/ SyncCanceled(m) \/ SyncEnds(m)
             \/ \E y \in Msgs : Deliver(m, y) \/ GiveUp(m, y) \/ TimeOut(m, y)
      PROVE  Goal
    <2>1. UNCHANGED <<status, attemptCount>>
        BY <1>4 DEF LoopCheck, LoopStart, LoopEnd, StopBegin, StopEarly, StopNotifier, StopReturn,
           CancelCtx, Crash, SyncError, TimeOut,
           Prepare, PutFailure, ProcessEnds, NotifierExits, SyncTick, SyncStop, SyncCanceled,
           SyncEnds, Deliver, GiveUp, rowVars
    <2> QED
        BY <2>1
<1> HIDE DEF Goal
<1>5. Goal
    BY <1>1, <1>2, <1>3, <1>4, NextCases
<1> QED
    BY <1>5 DEF Goal

\* Although the bulk updates do not look at the row, each attempt is counted once and a
\* final status stays, as long as no lease expires under its holder.
THEOREM ResultsAreWrittenOnce == Spec => ResultsCountOnce
<1>1. IInv /\ [Next]_vars =>
         [\A x \in Msgs : ~slow[x] =>
             /\ status[x] \in Final => status'[x] = status[x] /\ attemptCount'[x] = attemptCount[x]
             /\ attemptCount'[x] # attemptCount[x] =>
                   status[x] = "leased" /\ attemptCount'[x] = attemptCount[x] + 1]_vars
    BY WritesOnce, ExclSame DEF IInv
<1> QED
    BY <1>1, NotifierInvariance, PTL DEF Spec, ResultsCountOnce

\* Stop waits for a notifier only when there is one.
StopSawNotifier == \A m \in Managers : stop[m] = "notifier" => notifier[m] # "none"

LEMMA StopSawNotifierStep ==
    ASSUME TypeOK, StopSawNotifier, [Next]_vars
    PROVE  StopSawNotifier'
<1>0. LoopType
    BY TypeParts
<1>1. CASE UNCHANGED <<stop, notifier>>
    BY <1>1 DEF StopSawNotifier
<1>2. ASSUME NEW m \in Managers,
             \/ StopBegin(m) \/ StopEarly(m) \/ StopNotifier(m) \/ StopReturn(m) \/ Crash(m)
             \/ LoopStart(m) \/ Fetch(m) \/ ProcessEnds(m) \/ NotifierExits(m)
      PROVE  StopSawNotifier'
    BY <1>0, <1>2 DEF StopSawNotifier, LoopType, StopBegin, StopEarly, StopNotifier, StopReturn,
       Crash, LoopStart, Fetch, ProcessEnds, NotifierExits, loopVars, notifierVars
<1>3. ASSUME NEW x \in Msgs, Enqueue(x) \/ Elapse(x) \/ Slow(x)
      PROVE  UNCHANGED <<stop, notifier>>
    BY <1>3 DEF Enqueue, Elapse, Slow, loopVars, notifierVars
<1>4. ASSUME NEW m \in Managers,
             \/ LoopCheck(m) \/ LoopEnd(m) \/ CancelCtx(m) \/ Prepare(m) \/ PutFailure(m)
             \/ SyncTick(m) \/ SyncStop(m) \/ SyncCanceled(m)
             \/ SyncSent(m) \/ SyncFailed(m) \/ SyncError(m) \/ SyncEnds(m)
             \/ \E x \in Msgs : Deliver(m, x) \/ GiveUp(m, x) \/ TimeOut(m, x)
      PROVE  UNCHANGED <<stop, notifier>>
    BY <1>4 DEF LoopCheck, LoopEnd, CancelCtx, Prepare, PutFailure, SyncTick, SyncStop,
       SyncCanceled, SyncSent, SyncFailed, SyncError, SyncEnds, Deliver, GiveUp, TimeOut,
       loopVars, notifierVars
<1>5. CASE UNCHANGED vars
    BY <1>1, <1>5 DEF vars, loopVars, notifierVars
<1> QED
    BY <1>1, <1>2, <1>3, <1>4, <1>5, NextCases

\* Process and the syncer do not wait for each other while Stop waits for both: the safety
\* part of StopReturns, for every size of the channels.
THEOREM StoppingIsDrained == Spec => []DrainedWhileStopping
<1>1. Init => StopSawNotifier
    BY DEF Init, All, StopSawNotifier
<1>2. IInv /\ StopSawNotifier /\ [Next]_vars => StopSawNotifier'
    BY StopSawNotifierStep DEF IInv
<1>3. IInv /\ StopSawNotifier => DrainedWhileStopping
    BY DEF IInv, TypeOK, Lifecycle, StopSawNotifier, DrainedWhileStopping
<1> QED
    BY <1>1, <1>2, <1>3, NotifierInvariance, PTL DEF Spec
=============================================================================
