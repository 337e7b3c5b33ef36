------------------------------ MODULE Acquirer ------------------------------
(***************************************************************************)
(* The in-memory job acquirer of one wirtuald replica                      *)
(* (wirtuald/provisionerdserver/acquirer.go).  Every concurrent call of    *)
(* Acquirer.AcquireJob is an element of Calls (the "acquirees"; a call is  *)
(* identified by its clearance channel).  Calls with the same              *)
(* organization, provisioner types and tags form a domain; only one call   *)
(* of a domain may query the database at a time, and the others wait for a *)
(* job posting, for the domain's backup poll, or for a hand-over.          *)
(*                                                                         *)
(* One action is one critical section of a.mu, one channel operation or    *)
(* one database statement, so all interleavings of the goroutines are      *)
(* explored.                                                               *)
(***************************************************************************)
EXTENDS Naturals, FiniteSets

CONSTANTS
    Calls,      \* AcquireJob calls, each with its own clearance channel
    Keys,       \* domain keys: records [org, types, tags]
    KeyOf,      \* the domain key of each call
    Jobs,       \* provisioner jobs; a job's number is its created_at
    Job,        \* the organization, type and tags of each job: [org, type, tags]
    Legacy,     \* jobs whose posting carries no organization (uuid.Nil)
    Untagged    \* the tag set {scope: organization, owner: ""}

ASSUME KeyOfAssumption == KeyOf \in [Calls -> Keys]
ASSUME JobsAssumption == Jobs \subseteq Nat /\ Legacy \subseteq Jobs

VARIABLES
    pc,         \* where each AcquireJob call is
    ctxDone,    \* calls whose context is done
    q,          \* a.q: the domains that exist
    acquirees,  \* the calls registered in their domain's acquirees map
    inProgress, \* acquirees with inProgress set
    pending,    \* acquirees with pending set
    clearance,  \* number of messages sent to each clearance channel and not received
    failed,     \* calls that returned a "serious internal error"
    row,        \* provisioner_jobs: "none", "open" (started_at IS NULL), "started"
    lock,       \* row lock of a foreign transaction: "never", "held", "released"
    post,       \* the job's posting: "none", "sent", "handled", "lost"
    dropped,    \* the subscription owes an ErrDroppedMessages callback
    told        \* history: jobs each domain has been woken for

vars == <<pc, ctxDone, q, acquirees, inProgress, pending, clearance, failed,
          row, lock, post, dropped, told>>

domainVars == <<q, acquirees, inProgress, pending, clearance>>
envVars == <<row, lock, post, dropped>>

-----------------------------------------------------------------------------
(* Matching a job with a domain: once in Go, once in SQL. *)

\* domain.contains: may this domain be interested in the posting?
Contains(k, j) ==
    /\ j \in Legacy \/ Job[j].org = k.org
    /\ Job[j].type \in k.types
    /\ Job[j].tags \subseteq k.tags

\* provisioner_tagset_contains: an untagged job needs an untagged provisioner.
TagsetContains(ptags, jtags) ==
    IF jtags = Untagged THEN jtags = ptags ELSE jtags \subseteq ptags

\* The WHERE clause of AcquireProvisionerJob, started_at and locks aside.
CanAcquire(k, j) ==
    /\ Job[j].org = k.org
    /\ Job[j].type \in k.types
    /\ TagsetContains(k.tags, Job[j].tags)

OpenJobs == {j \in Jobs : row[j] = "open"}

\* Rows the sub-select of AcquireProvisionerJob sees: SKIP LOCKED leaves out
\* the rows another transaction holds.
Candidates(k) == {j \in OpenJobs : CanAcquire(k, j) /\ lock[j] # "held"}

-----------------------------------------------------------------------------
(* The domain map, always accessed holding a.mu. *)

Members(k) == {c \in acquirees : KeyOf[c] = k}

\* Sending to the clearance channel of every call of S.
Send(S) == clearance' = [c \in Calls |-> clearance[c] + IF c \in S THEN 1 ELSE 0]

\* Mutant: the acquiree in progress gets no precedence.
NomineesAny(k) == Members(k)

\* clearOrPendLocked picks the acquiree in progress if there is one, and
\* otherwise any acquiree (map order is random).
Nominees(k) ==
    IF Members(k) \cap inProgress = {} THEN Members(k) ELSE Members(k) \cap inProgress

\* Mutant: clearance is sent to an acquiree already in progress too.
ClearAlways(S) ==
    /\ pending' = pending
    /\ inProgress' = inProgress \cup S
    /\ Send(S)

\* clearOrPendLocked for the domains whose nominees are the set S.
ClearOrPendLocked(S) ==
    /\ pending' = pending \cup (S \cap inProgress)
    /\ inProgress' = inProgress \cup S
    /\ Send(S \ inProgress)

\* History: the domains of K are told of every job open now.
Tell(K) == told' = [k \in Keys |-> IF k \in K THEN told[k] \cup OpenJobs ELSE told[k]]

-----------------------------------------------------------------------------
Init ==
    /\ pc = [c \in Calls |-> "idle"]
    /\ ctxDone = {}
    /\ q = {}
    /\ acquirees = {}
    /\ inProgress = {}
    /\ pending = {}
    /\ clearance = [c \in Calls |-> 0]
    /\ failed = {}
    /\ row = [j \in Jobs |-> "none"]
    /\ lock = [j \in Jobs |-> "never"]
    /\ post = [j \in Jobs |-> "none"]
    /\ dropped = FALSE
    /\ told = [k \in Keys |-> {}]

Goto(c, l) == pc' = [pc EXCEPT ![c] = l]

\* The daemon's stream handler calls AcquireJob.
Call(c) ==
    /\ pc[c] = "idle"
    /\ Goto(c, "want")
    /\ UNCHANGED <<ctxDone, domainVars, failed, envVars, told>>

\* The caller's context ends: long-poll timeout, cancel message, lost stream.
CtxDone(c) ==
    /\ pc[c] \notin {"idle", "returned"}
    /\ c \notin ctxDone
    /\ ctxDone' = ctxDone \cup {c}
    /\ UNCHANGED <<pc, domainVars, failed, envVars, told>>

\* Mutant: want forgets to reset inProgress when it does not clear.
WantKeepsInProgress(c) ==
    LET k == KeyOf[c]
        cleared == k \notin q \/ c \in pending
    IN  /\ pc[c] = "want"
        /\ q' = q \cup {k}
        /\ acquirees' = acquirees \cup {c}
        /\ pending' = pending \ {c}
        /\ inProgress' = IF cleared THEN inProgress \cup {c} ELSE inProgress
        /\ Send(IF cleared THEN {c} ELSE {})
        /\ Goto(c, "select")
        /\ UNCHANGED <<ctxDone, failed, envVars, told>>

\* Mutant: want clears every new acquiree, not only the first of its domain.
WantClearsNew(c) ==
    LET cleared == c \notin acquirees \/ c \in pending
    IN  /\ pc[c] = "want"
        /\ q' = q \cup {KeyOf[c]}
        /\ acquirees' = acquirees \cup {c}
        /\ pending' = pending \ {c}
        /\ inProgress' = IF cleared THEN inProgress \cup {c} ELSE inProgress \ {c}
        /\ Send(IF cleared THEN {c} ELSE {})
        /\ Goto(c, "select")
        /\ UNCHANGED <<ctxDone, failed, envVars, told>>

\* Acquirer.want, on the first turn of the loop or after ErrNoRows.
Want(c) ==
    LET k == KeyOf[c]
        cleared == k \notin q \/ c \in pending
    IN  /\ pc[c] = "want"
        /\ q' = q \cup {k}
        /\ acquirees' = acquirees \cup {c}
        /\ pending' = pending \ {c}
        /\ inProgress' = IF cleared THEN inProgress \cup {c} ELSE inProgress \ {c}
        /\ Send(IF cleared THEN {c} ELSE {})
        /\ Goto(c, "select")
        /\ UNCHANGED <<ctxDone, failed, envVars, told>>

\* The select in AcquireJob: ctx.Done() wins ...
SelectDone(c) ==
    /\ pc[c] = "select"
    /\ c \in ctxDone
    /\ Goto(c, "cancel")
    /\ UNCHANGED <<ctxDone, domainVars, failed, envVars, told>>

\* ... or the clearance is received.  A query started with a context that is
\* already done fails at once.
SelectClearance(c) ==
    /\ pc[c] = "select"
    /\ clearance[c] > 0
    /\ clearance' = [clearance EXCEPT ![c] = @ - 1]
    /\ Goto(c, IF c \in ctxDone THEN "done" ELSE "query")
    /\ UNCHANGED <<ctxDone, q, acquirees, inProgress, pending, failed, envVars, told>>

\* AcquireProvisionerJob returns ErrNoRows: the loop continues.  Open jobs
\* that were skipped because their row is locked count as not told.
QueryNoRows(c) ==
    /\ pc[c] = "query"
    /\ Candidates(KeyOf[c]) = {}
    /\ Goto(c, "want")
    /\ told' = [told EXCEPT ![KeyOf[c]] = {j \in @ : lock[j] # "held"}]
    /\ UNCHANGED <<ctxDone, domainVars, failed, envVars>>

\* AcquireProvisionerJob starts the oldest candidate.
QueryTakes(c) ==
    /\ pc[c] = "query"
    /\ \E j \in Candidates(KeyOf[c]) :
          /\ \A i \in Candidates(KeyOf[c]) : j <= i
          /\ row' = [row EXCEPT ![j] = "started"]
    /\ Goto(c, "done")
    /\ UNCHANGED <<ctxDone, domainVars, failed, lock, post, dropped, told>>

\* AcquireProvisionerJob fails with another error (also when ctx ends while it
\* runs) and has changed nothing; a reply lost after the commit is QueryTakes.
QueryError(c) ==
    /\ pc[c] = "query"
    /\ Goto(c, "done")
    /\ UNCHANGED <<ctxDone, domainVars, failed, envVars, told>>

\* What cancel and done share: the call leaves its domain ...
Leave(c) ==
    /\ acquirees' = acquirees \ {c}
    /\ pending' = pending \ {c}

\* Mutant: the empty domain stays in a.q.
DeleteNothing(c) ==
    /\ inProgress' = inProgress \ {c}
    /\ UNCHANGED <<q, clearance>>

\* ... an empty domain is deleted ...
DeleteDomain(c) ==
    /\ q' = q \ {KeyOf[c]}
    /\ inProgress' = inProgress \ {c}
    /\ UNCHANGED clearance

\* ... and otherwise one other acquiree, any of them, is cleared in its place.
HandOver(c, other) ==
    /\ inProgress' = (inProgress \ {c}) \cup {other}
    /\ Send({other})
    /\ UNCHANGED q

Others(c) == Members(KeyOf[c]) \ {c}

\* Acquirer.cancel finds its domain and its acquiree.
CancelOK(c) ==
    /\ Leave(c)
    /\ \/ Others(c) = {} /\ DeleteDomain(c)
       \/ Others(c) # {} /\ c \notin inProgress /\ UNCHANGED <<q, inProgress, clearance>>
       \/ /\ c \in inProgress
          /\ \E other \in Others(c) \ inProgress : HandOver(c, other)
    /\ UNCHANGED failed

\* The error returns of cancel and done: something is missing, or another
\* acquiree that could take over is already in progress.
MissingEntry(c) ==
    /\ KeyOf[c] \notin q \/ c \notin acquirees
    /\ failed' = failed \cup {c}
    /\ UNCHANGED domainVars

TwoInProgress(c) ==
    /\ c \in inProgress
    /\ Others(c) \cap inProgress # {}
    /\ Leave(c)
    /\ inProgress' = inProgress \ {c}
    /\ failed' = failed \cup {c}
    /\ UNCHANGED <<q, clearance>>

\* Acquirer.cancel, called when ctx is done.
Cancel(c) ==
    /\ pc[c] = "cancel"
    /\ \/ MissingEntry(c)
       \/ /\ KeyOf[c] \in q /\ c \in acquirees
          /\ CancelOK(c) \/ TwoInProgress(c)
    /\ Goto(c, "returned")
    /\ UNCHANGED <<ctxDone, envVars, told>>

\* Acquirer.done, called with a job or after a database error.
Done(c) ==
    /\ pc[c] = "done"
    /\ \/ MissingEntry(c)
       \/ /\ KeyOf[c] \in q /\ c \in acquirees /\ c \notin inProgress
          /\ failed' = failed \cup {c}
          /\ UNCHANGED domainVars
       \/ /\ KeyOf[c] \in q /\ c \in acquirees /\ c \in inProgress
          /\ \/ /\ Leave(c)
                /\ \/ Others(c) = {} /\ DeleteDomain(c)
                   \/ \E other \in Others(c) \ inProgress : HandOver(c, other)
                /\ UNCHANGED failed
             \/ TwoInProgress(c)
    /\ Goto(c, "returned")
    /\ UNCHANGED <<ctxDone, envVars, told>>

-----------------------------------------------------------------------------
(* Notifications. *)

\* jobPosted: the first matching domain in map order, hence any one, is woken.
JobPosted(j) ==
    LET matching == {k \in q : Contains(k, j)}
    IN  /\ post[j] = "sent"
        /\ post' = [post EXCEPT ![j] = "handled"]
        /\ \/ matching = {} /\ UNCHANGED <<domainVars, told>>
           \/ \E k \in matching : \E w \in Nominees(k) :
                 ClearOrPendLocked({w}) /\ Tell({k}) /\ UNCHANGED <<q, acquirees>>
        /\ UNCHANGED <<pc, ctxDone, failed, row, lock, dropped>>

\* jobPosted with ErrDroppedMessages: clearOrPendAll.
DroppedMessages ==
    /\ dropped
    /\ dropped' = FALSE
    /\ \E nominee \in [q -> acquirees] :
          /\ \A k \in q : nominee[k] \in Nominees(k)
          /\ ClearOrPendLocked({nominee[k] : k \in q})
    /\ Tell(q)
    /\ UNCHANGED <<pc, ctxDone, q, acquirees, failed, row, lock, post>>

\* Mutant: the poll marks its nominee pending instead of clearing it.
PollPends(k) ==
    /\ k \in q
    /\ \E w \in Nominees(k) : pending' = pending \cup {w}
    /\ Tell({k})
    /\ UNCHANGED <<pc, ctxDone, q, acquirees, inProgress, clearance, failed, envVars>>

\* A tick of domain.poll: clearOrPend.  The poll goroutine of a deleted domain
\* sees the old, empty acquirees map and does nothing.
Poll(k) ==
    /\ k \in q
    /\ \E w \in Nominees(k) : ClearOrPendLocked({w})
    /\ Tell({k})
    /\ UNCHANGED <<pc, ctxDone, q, acquirees, failed, envVars>>

-----------------------------------------------------------------------------
(* The rest of the system: job inserts, the pubsub, other transactions. *)

\* InsertProvisionerJob commits.
InsertJob(j) ==
    /\ row[j] = "none"
    /\ row' = [row EXCEPT ![j] = "open"]
    /\ UNCHANGED <<pc, ctxDone, domainVars, failed, lock, post, dropped, told>>

\* PostJob publishes the posting, or fails (the handler only logs it), or the
\* handler crashes first.
PostJob(j) ==
    /\ row[j] # "none"
    /\ post[j] = "none"
    /\ \E outcome \in {"sent", "lost"} : post' = [post EXCEPT ![j] = outcome]
    /\ UNCHANGED <<pc, ctxDone, domainVars, failed, row, lock, dropped, told>>

\* The subscription overflows or reconnects: the posting is dropped, and the
\* subscriber will be called with ErrDroppedMessages.
DropPosting(j) ==
    /\ post[j] = "sent"
    /\ post' = [post EXCEPT ![j] = "lost"]
    /\ dropped' = TRUE
    /\ UNCHANGED <<pc, ctxDone, domainVars, failed, row, lock, told>>

\* Another transaction (another replica's acquire, a cancel request) locks the
\* row, at most once for each job ...
LockRow(j) ==
    /\ row[j] = "open"
    /\ lock[j] = "never"
    /\ lock' = [lock EXCEPT ![j] = "held"]
    /\ UNCHANGED <<pc, ctxDone, domainVars, failed, row, post, dropped, told>>

\* ... and ends, having started the job or not.
UnlockRow(j) ==
    /\ lock[j] = "held"
    /\ lock' = [lock EXCEPT ![j] = "released"]
    /\ row' \in {row, [row EXCEPT ![j] = "started"]}
    /\ UNCHANGED <<pc, ctxDone, domainVars, failed, post, dropped, told>>

CallStep(c) ==
    \/ Want(c) \/ SelectDone(c) \/ SelectClearance(c)
    \/ QueryNoRows(c) \/ QueryTakes(c) \/ QueryError(c)
    \/ Cancel(c) \/ Done(c)

JobStep(j) ==
    \/ InsertJob(j) \/ PostJob(j) \/ DropPosting(j)
    \/ LockRow(j) \/ UnlockRow(j) \/ JobPosted(j)

Next ==
    \/ \E c \in Calls : Call(c) \/ CtxDone(c) \/ CallStep(c)
    \/ \E k \in Keys : Poll(k)
    \/ \E j \in Jobs : JobStep(j)
    \/ DroppedMessages

Spec == Init /\ [][Next]_vars

\* The Go scheduler runs every runnable goroutine, tickers keep ticking, and
\* transactions end.  Nothing obliges anyone to call, to cancel or to post a job.
Fairness ==
    /\ \A c \in Calls : WF_vars(CallStep(c))
    /\ \A k \in Keys : WF_vars(Poll(k))
    /\ \A j \in Jobs : WF_vars(UnlockRow(j)) /\ WF_vars(JobPosted(j))
    /\ WF_vars(DroppedMessages)

FairSpec == Spec /\ Fairness

-----------------------------------------------------------------------------
(* Properties. *)

Locations == {"idle", "want", "select", "query", "cancel", "done", "returned"}

\* Type correctness of the acquirer's and the environment's state.
TypeOK ==
    /\ pc \in [Calls -> Locations]
    /\ ctxDone \subseteq Calls
    /\ q \subseteq Keys
    /\ acquirees \subseteq Calls
    /\ inProgress \subseteq Calls
    /\ pending \subseteq Calls
    /\ clearance \in [Calls -> Nat]
    /\ failed \subseteq Calls
    /\ row \in [Jobs -> {"none", "open", "started"}]
    /\ lock \in [Jobs -> {"never", "held", "released"}]
    /\ post \in [Jobs -> {"none", "sent", "handled", "lost"}]
    /\ dropped \in BOOLEAN
    /\ told \in [Keys -> SUBSET Jobs]

\* "Only one acquiree from each domain may query the database at a time"
\* (the comment on Acquirer), whatever cancellations, postings and polls do.
OneQueryPerDomain ==
    \A c, d \in Calls :
        pc[c] = "query" /\ pc[d] = "query" /\ KeyOf[c] = KeyOf[d] => c = d

\* A send on a clearance channel happens while a.mu is held; it never finds the
\* one-element buffer full, so no goroutine ever blocks holding the mutex.
SendNeverBlocks == \A c \in Calls : clearance[c] <= 1

\* cancel and done never take the error returns their comments call "a serious
\* internal error indicating that integrity of the internal state is corrupted".
NoInternalError == failed = {}

\* Exactly the domains with an acquiree exist: clearOrPendLocked never
\* dereferences a nil nominee, and no poll goroutine outlives its domain's calls.
DomainsInUse == q = {KeyOf[c] : c \in acquirees}

\* The call is going to query the database again, or to hand its turn over.
WillQuery(c) ==
    /\ c \in acquirees
    /\ c \in inProgress
    /\ pc[c] = "want" => c \in pending
    /\ pc[c] = "select" => clearance[c] > 0

\* No wake-up is lost inside the acquirer: once a domain has been woken while a
\* job it can acquire was open, then as long as the job is open (and its row was
\* not locked when the domain queried) some call of the domain will query again,
\* although calls return, fail, are cancelled and join in between.
NoLostWakeup ==
    \A k \in q : \A j \in told[k] :
        row[j] = "open" /\ CanAcquire(k, j) => \E c \in Members(k) : WillQuery(c)

\* The strengthening that makes the invariants above inductive: how a call's
\* location, its acquiree's flags and its channel determine each other.
Registered ==
    /\ \A c \in acquirees : pc[c] \in {"want", "select", "query", "cancel", "done"}
    /\ \A c \in Calls : pc[c] \in {"select", "query", "cancel", "done"} => c \in acquirees
    /\ inProgress \subseteq acquirees
    /\ pending \subseteq inProgress

OneInProgress ==
    \A c, d \in inProgress : KeyOf[c] = KeyOf[d] => c = d

ClearanceMatches ==
    \A c \in Calls :
        /\ pc[c] \in {"select", "cancel"} => clearance[c] = IF c \in inProgress THEN 1 ELSE 0
        /\ pc[c] \in {"query", "done"} => c \in inProgress /\ clearance[c] = 0
        /\ pc[c] = "want" => clearance[c] = 0 /\ (c \in acquirees => c \in inProgress)
        /\ pc[c] = "idle" => clearance[c] = 0
        /\ pc[c] = "returned" => clearance[c] <= 1

\* A domain is told only of jobs that have been inserted.
ToldInserted == \A k \in Keys : \A j \in told[k] : row[j] # "none"

\* The inductive invariant.
IInv ==
    /\ TypeOK
    /\ Registered
    /\ OneInProgress
    /\ ClearanceMatches
    /\ DomainsInUse
    /\ NoInternalError
    /\ ToldInserted
    /\ NoLostWakeup

\* "This ensures jobs are not stuck permanently": an open job and a call that
\* could acquire it do not wait beside each other for ever, even if the posting
\* is lost or woke another domain and the row was skipped as locked.
NoJobStuck ==
    \A j \in Jobs, c \in Calls :
        (row[j] = "open" /\ c \in acquirees /\ CanAcquire(KeyOf[c], j))
            ~> (row[j] # "open" \/ pc[c] = "returned")
=============================================================================
