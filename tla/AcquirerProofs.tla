--------------------------- MODULE AcquirerProofs ---------------------------
(***************************************************************************)
(* Proofs that Acquirer keeps its inductive invariant IInv, for any set of *)
(* calls, domains and jobs.                                                *)
(***************************************************************************)
EXTENDS Acquirer, TLAPS

USE KeyOfAssumption

\* Starting a call leaves the domains alone.
LEMMA CallPreserves ==
    ASSUME IInv, NEW c \in Calls, Call(c)
    PROVE  IInv'
<1>1. TypeOK'
    BY DEF IInv, TypeOK, Locations, Call, Goto, domainVars, envVars
<1>2. Registered'
    BY DEF IInv, TypeOK, Registered, OneInProgress, ClearanceMatches,
       DomainsInUse, NoInternalError, Call, Goto, domainVars, envVars
<1>3. OneInProgress'
    BY DEF IInv, TypeOK, Registered, OneInProgress, ClearanceMatches,
       DomainsInUse, NoInternalError, Call, Goto, domainVars, envVars
<1>4. ClearanceMatches'
    BY DEF IInv, TypeOK, Registered, OneInProgress, ClearanceMatches,
       DomainsInUse, NoInternalError, Call, Goto, domainVars, envVars
<1>5. DomainsInUse'
    BY DEF IInv, TypeOK, Registered, OneInProgress, ClearanceMatches,
       DomainsInUse, NoInternalError, Call, Goto, domainVars, envVars
<1>6. NoInternalError'
    BY DEF IInv, TypeOK, Registered, OneInProgress, ClearanceMatches,
       DomainsInUse, NoInternalError, Call, Goto, domainVars, envVars
<1>7. NoLostWakeup'
    BY DEF IInv, TypeOK, Registered, OneInProgress, ClearanceMatches,
       DomainsInUse, NoInternalError, NoLostWakeup, WillQuery, Members, Call, Goto,
       domainVars, envVars
<1>8. ToldInserted'
    BY DEF IInv, TypeOK, ToldInserted, Call, Goto, domainVars, envVars
<1> QED
    BY <1>1, <1>2, <1>3, <1>4, <1>5, <1>6, <1>7, <1>8 DEF IInv

\* So does the end of a context.
LEMMA CtxDonePreserves ==
    ASSUME IInv, NEW c \in Calls, CtxDone(c)
    PROVE  IInv'
<1>1. TypeOK'
    BY DEF IInv, TypeOK, Locations, CtxDone, domainVars, envVars
<1>2. Registered'
    BY DEF IInv, TypeOK, Registered, OneInProgress, ClearanceMatches,
       DomainsInUse, NoInternalError, CtxDone, domainVars, envVars
<1>3. OneInProgress'
    BY DEF IInv, TypeOK, Registered, OneInProgress, ClearanceMatches,
       DomainsInUse, NoInternalError, CtxDone, domainVars, envVars
<1>4. ClearanceMatches'
    BY DEF IInv, TypeOK, Registered, OneInProgress, ClearanceMatches,
       DomainsInUse, NoInternalError, CtxDone, domainVars, envVars
<1>5. DomainsInUse'
    BY DEF IInv, TypeOK, Registered, OneInProgress, ClearanceMatches,
       DomainsInUse, NoInternalError, CtxDone, domainVars, envVars
<1>6. NoInternalError'
    BY DEF IInv, TypeOK, Registered, OneInProgress, ClearanceMatches,
       DomainsInUse, NoInternalError, CtxDone, domainVars, envVars
<1>7. NoLostWakeup'
    BY DEF IInv, TypeOK, Registered, OneInProgress, ClearanceMatches,
       DomainsInUse, NoInternalError, NoLostWakeup, WillQuery, Members, CtxDone, domainVars,
       envVars
<1>8. ToldInserted'
    BY DEF IInv, TypeOK, ToldInserted, CtxDone, domainVars, envVars
<1> QED
    BY <1>1, <1>2, <1>3, <1>4, <1>5, <1>6, <1>7, <1>8 DEF IInv

\* want keeps at most one acquiree of the domain in progress.
LEMMA WantPreserves ==
    ASSUME IInv, NEW c \in Calls, Want(c)
    PROVE  IInv'
<1>1. TypeOK'
    BY DEF IInv, TypeOK, Locations, Want, Send, Goto, envVars
<1>2. Registered'
    BY DEF IInv, TypeOK, Registered, OneInProgress, ClearanceMatches,
       DomainsInUse, NoInternalError, Want, Send, Goto, envVars
<1>3. OneInProgress'
    BY DEF IInv, TypeOK, Registered, OneInProgress, ClearanceMatches,
       DomainsInUse, NoInternalError, Want, Send, Goto, envVars
<1>4. ClearanceMatches'
    BY DEF IInv, TypeOK, Registered, OneInProgress, ClearanceMatches,
       DomainsInUse, NoInternalError, Want, Send, Goto, envVars
<1>5. DomainsInUse'
    BY DEF IInv, TypeOK, Registered, OneInProgress, ClearanceMatches,
       DomainsInUse, NoInternalError, Want, Send, Goto, envVars
<1>6. NoInternalError'
    BY DEF IInv, TypeOK, Registered, OneInProgress, ClearanceMatches,
       DomainsInUse, NoInternalError, Want, Send, Goto, envVars
<1>7. NoLostWakeup'
  <2> SUFFICES ASSUME NEW k \in q', NEW j \in told'[k],
                      row'[j] = "open", CanAcquire(k, j)
               PROVE  \E d \in Members(k)' : WillQuery(d)'
      BY DEF NoLostWakeup, CanAcquire, TagsetContains
  <2>1. CASE k = KeyOf[c] /\ (k \notin q \/ c \in pending)
      BY <2>1 DEF IInv, TypeOK, WillQuery, Members, ClearanceMatches, Want, Send, Goto
  <2>2. CASE ~(k = KeyOf[c] /\ (k \notin q \/ c \in pending))
    <3>1. k \in q /\ j \in told[k] /\ row[j] = "open"
        BY <2>2 DEF IInv, TypeOK, Want, Send, Goto, envVars
    <3>2. PICK d \in Members(k) : WillQuery(d)
        BY <3>1 DEF IInv, NoLostWakeup
    <3>3. d # c
        BY <2>2, <3>2 DEF WillQuery, Want, Members
    <3>4. d \in Members(k)' /\ WillQuery(d)'
        BY <3>2, <3>3 DEF IInv, TypeOK, WillQuery, Members, Want, Send, Goto
    <3> QED
        BY <3>4
  <2> QED
      BY <2>1, <2>2
<1>8. ToldInserted'
    BY DEF IInv, TypeOK, ToldInserted, Want, Send, Goto, envVars
<1> QED
    BY <1>1, <1>2, <1>3, <1>4, <1>5, <1>6, <1>7, <1>8 DEF IInv

\* Leaving the select for cancel keeps the clearance.
LEMMA SelectDonePreserves ==
    ASSUME IInv, NEW c \in Calls, SelectDone(c)
    PROVE  IInv'
<1>1. TypeOK'
    BY DEF IInv, TypeOK, Locations, SelectDone, Goto, domainVars, envVars
<1>2. Registered'
    BY DEF IInv, TypeOK, Registered, OneInProgress, ClearanceMatches,
       DomainsInUse, NoInternalError, SelectDone, Goto, domainVars, envVars
<1>3. OneInProgress'
    BY DEF IInv, TypeOK, Registered, OneInProgress, ClearanceMatches,
       DomainsInUse, NoInternalError, SelectDone, Goto, domainVars, envVars
<1>4. ClearanceMatches'
    BY DEF IInv, TypeOK, Registered, OneInProgress, ClearanceMatches,
       DomainsInUse, NoInternalError, SelectDone, Goto, domainVars, envVars
<1>5. DomainsInUse'
    BY DEF IInv, TypeOK, Registered, OneInProgress, ClearanceMatches,
       DomainsInUse, NoInternalError, SelectDone, Goto, domainVars, envVars
<1>6. NoInternalError'
    BY DEF IInv, TypeOK, Registered, OneInProgress, ClearanceMatches,
       DomainsInUse, NoInternalError, SelectDone, Goto, domainVars, envVars
<1>7. NoLostWakeup'
    BY DEF IInv, TypeOK, Registered, OneInProgress, ClearanceMatches,
       DomainsInUse, NoInternalError, NoLostWakeup, WillQuery, Members, SelectDone, Goto,
       domainVars, envVars
<1>8. ToldInserted'
    BY DEF IInv, TypeOK, ToldInserted, SelectDone, Goto, domainVars, envVars
<1> QED
    BY <1>1, <1>2, <1>3, <1>4, <1>5, <1>6, <1>7, <1>8 DEF IInv

\* Receiving the clearance empties the channel.
LEMMA SelectClearancePreserves ==
    ASSUME IInv, NEW c \in Calls, SelectClearance(c)
    PROVE  IInv'
<1>1. TypeOK'
    BY DEF IInv, TypeOK, Locations, SelectClearance, Goto, envVars
<1>2. Registered'
    BY DEF IInv, TypeOK, Registered, OneInProgress, ClearanceMatches,
       DomainsInUse, NoInternalError, SelectClearance, Goto, envVars
<1>3. OneInProgress'
    BY DEF IInv, TypeOK, Registered, OneInProgress, ClearanceMatches,
       DomainsInUse, NoInternalError, SelectClearance, Goto, envVars
<1>4. ClearanceMatches'
    BY DEF IInv, TypeOK, Registered, OneInProgress, ClearanceMatches,
       DomainsInUse, NoInternalError, SelectClearance, Goto, envVars
<1>5. DomainsInUse'
    BY DEF IInv, TypeOK, Registered, OneInProgress, ClearanceMatches,
       DomainsInUse, NoInternalError, SelectClearance, Goto, envVars
<1>6. NoInternalError'
    BY DEF IInv, TypeOK, Registered, OneInProgress, ClearanceMatches,
       DomainsInUse, NoInternalError, SelectClearance, Goto, envVars
<1>7. NoLostWakeup'
    BY DEF IInv, TypeOK, Registered, OneInProgress, ClearanceMatches,
       DomainsInUse, NoInternalError, NoLostWakeup, WillQuery, Members, SelectClearance,
       Goto, envVars
<1>8. ToldInserted'
    BY DEF IInv, TypeOK, ToldInserted, SelectClearance, Goto, envVars
<1> QED
    BY <1>1, <1>2, <1>3, <1>4, <1>5, <1>6, <1>7, <1>8 DEF IInv

\* A query without a result leaves no job the domain was told of.
LEMMA QueryNoRowsPreserves ==
    ASSUME IInv, NEW c \in Calls, QueryNoRows(c)
    PROVE  IInv'
<1>1. TypeOK'
    BY DEF IInv, TypeOK, Locations, QueryNoRows, Candidates, OpenJobs, Goto, domainVars,
       envVars
<1>2. Registered'
    BY DEF IInv, TypeOK, Registered, OneInProgress, ClearanceMatches,
       DomainsInUse, NoInternalError, QueryNoRows, Candidates, OpenJobs, Goto, domainVars,
       envVars
<1>3. OneInProgress'
    BY DEF IInv, TypeOK, Registered, OneInProgress, ClearanceMatches,
       DomainsInUse, NoInternalError, QueryNoRows, Candidates, OpenJobs, Goto, domainVars,
       envVars
<1>4. ClearanceMatches'
    BY DEF IInv, TypeOK, Registered, OneInProgress, ClearanceMatches,
       DomainsInUse, NoInternalError, QueryNoRows, Candidates, OpenJobs, Goto, domainVars,
       envVars
<1>5. DomainsInUse'
    BY DEF IInv, TypeOK, Registered, OneInProgress, ClearanceMatches,
       DomainsInUse, NoInternalError, QueryNoRows, Candidates, OpenJobs, Goto, domainVars,
       envVars
<1>6. NoInternalError'
    BY DEF IInv, TypeOK, Registered, OneInProgress, ClearanceMatches,
       DomainsInUse, NoInternalError, QueryNoRows, Candidates, OpenJobs, Goto, domainVars,
       envVars
<1>7. NoLostWakeup'
    BY DEF IInv, TypeOK, Registered, OneInProgress, ClearanceMatches,
       DomainsInUse, NoInternalError, NoLostWakeup, WillQuery, Members, QueryNoRows,
       Candidates, OpenJobs, Goto, domainVars, envVars
<1>8. ToldInserted'
    BY DEF IInv, TypeOK, ToldInserted, QueryNoRows, Candidates, OpenJobs, Goto, domainVars,
       envVars
<1> QED
    BY <1>1, <1>2, <1>3, <1>4, <1>5, <1>6, <1>7, <1>8 DEF IInv

\* A query with a result goes on to done.
LEMMA QueryTakesPreserves ==
    ASSUME IInv, NEW c \in Calls, QueryTakes(c)
    PROVE  IInv'
<1>1. TypeOK'
    BY DEF IInv, TypeOK, Locations, QueryTakes, Candidates, OpenJobs, Goto, domainVars
<1>2. Registered'
    BY DEF IInv, TypeOK, Registered, OneInProgress, ClearanceMatches,
       DomainsInUse, NoInternalError, QueryTakes, Candidates, OpenJobs, Goto, domainVars
<1>3. OneInProgress'
    BY DEF IInv, TypeOK, Registered, OneInProgress, ClearanceMatches,
       DomainsInUse, NoInternalError, QueryTakes, Candidates, OpenJobs, Goto, domainVars
<1>4. ClearanceMatches'
    BY DEF IInv, TypeOK, Registered, OneInProgress, ClearanceMatches,
       DomainsInUse, NoInternalError, QueryTakes, Candidates, OpenJobs, Goto, domainVars
<1>5. DomainsInUse'
    BY DEF IInv, TypeOK, Registered, OneInProgress, ClearanceMatches,
       DomainsInUse, NoInternalError, QueryTakes, Candidates, OpenJobs, Goto, domainVars
<1>6. NoInternalError'
    BY DEF IInv, TypeOK, Registered, OneInProgress, ClearanceMatches,
       DomainsInUse, NoInternalError, QueryTakes, Candidates, OpenJobs, Goto, domainVars
<1>7. NoLostWakeup'
    BY DEF IInv, TypeOK, Registered, OneInProgress, ClearanceMatches,
       DomainsInUse, NoInternalError, NoLostWakeup, WillQuery, Members, QueryTakes,
       Candidates, OpenJobs, Goto, domainVars
<1>8. ToldInserted'
    BY DEF IInv, TypeOK, ToldInserted, QueryTakes, Candidates, OpenJobs, Goto, domainVars
<1> QED
    BY <1>1, <1>2, <1>3, <1>4, <1>5, <1>6, <1>7, <1>8 DEF IInv

\* So does a query with an error.
LEMMA QueryErrorPreserves ==
    ASSUME IInv, NEW c \in Calls, QueryError(c)
    PROVE  IInv'
<1>1. TypeOK'
    BY DEF IInv, TypeOK, Locations, QueryError, Goto, domainVars, envVars
<1>2. Registered'
    BY DEF IInv, TypeOK, Registered, OneInProgress, ClearanceMatches,
       DomainsInUse, NoInternalError, QueryError, Goto, domainVars, envVars
<1>3. OneInProgress'
    BY DEF IInv, TypeOK, Registered, OneInProgress, ClearanceMatches,
       DomainsInUse, NoInternalError, QueryError, Goto, domainVars, envVars
<1>4. ClearanceMatches'
    BY DEF IInv, TypeOK, Registered, OneInProgress, ClearanceMatches,
       DomainsInUse, NoInternalError, QueryError, Goto, domainVars, envVars
<1>5. DomainsInUse'
    BY DEF IInv, TypeOK, Registered, OneInProgress, ClearanceMatches,
       DomainsInUse, NoInternalError, QueryError, Goto, domainVars, envVars
<1>6. NoInternalError'
    BY DEF IInv, TypeOK, Registered, OneInProgress, ClearanceMatches,
       DomainsInUse, NoInternalError, QueryError, Goto, domainVars, envVars
<1>7. NoLostWakeup'
    BY DEF IInv, TypeOK, Registered, OneInProgress, ClearanceMatches,
       DomainsInUse, NoInternalError, NoLostWakeup, WillQuery, Members, QueryError, Goto,
       domainVars, envVars
<1>8. ToldInserted'
    BY DEF IInv, TypeOK, ToldInserted, QueryError, Goto, domainVars, envVars
<1> QED
    BY <1>1, <1>2, <1>3, <1>4, <1>5, <1>6, <1>7, <1>8 DEF IInv

\* cancel hands its clearance over.
LEMMA CancelPreserves ==
    ASSUME IInv, NEW c \in Calls, Cancel(c)
    PROVE  IInv'
<1>1. TypeOK'
    BY DEF IInv, TypeOK, Locations, Cancel, CancelOK, MissingEntry, TwoInProgress, Others,
       Members, Leave, DeleteDomain, HandOver, Send, Goto, domainVars, envVars
<1>2. Registered'
    BY DEF IInv, TypeOK, Registered, OneInProgress, ClearanceMatches,
       DomainsInUse, NoInternalError, Cancel, CancelOK, MissingEntry, TwoInProgress, Others,
       Members, Leave, DeleteDomain, HandOver, Send, Goto, domainVars, envVars
<1>3. OneInProgress'
    BY DEF IInv, TypeOK, Registered, OneInProgress, ClearanceMatches,
       DomainsInUse, NoInternalError, Cancel, CancelOK, MissingEntry, TwoInProgress, Others,
       Members, Leave, DeleteDomain, HandOver, Send, Goto, domainVars, envVars
<1>4. ClearanceMatches'
    BY DEF IInv, TypeOK, Registered, OneInProgress, ClearanceMatches,
       DomainsInUse, NoInternalError, Cancel, CancelOK, MissingEntry, TwoInProgress, Others,
       Members, Leave, DeleteDomain, HandOver, Send, Goto, domainVars, envVars
<1>5. DomainsInUse'
    BY DEF IInv, TypeOK, Registered, OneInProgress, ClearanceMatches,
       DomainsInUse, NoInternalError, Cancel, CancelOK, MissingEntry, TwoInProgress, Others,
       Members, Leave, DeleteDomain, HandOver, Send, Goto, domainVars, envVars
<1>6. NoInternalError'
    BY DEF IInv, TypeOK, Registered, OneInProgress, ClearanceMatches,
       DomainsInUse, NoInternalError, Cancel, CancelOK, MissingEntry, TwoInProgress, Others,
       Members, Leave, DeleteDomain, HandOver, Send, Goto, domainVars, envVars
<1>7. NoLostWakeup'
    BY DEF IInv, TypeOK, Registered, OneInProgress, ClearanceMatches,
       DomainsInUse, NoInternalError, NoLostWakeup, WillQuery, Members, Cancel, CancelOK,
       MissingEntry, TwoInProgress, Others, Members, Leave, DeleteDomain, HandOver, Send,
       Goto, domainVars, envVars
<1>8. ToldInserted'
    BY DEF IInv, TypeOK, ToldInserted, Cancel, CancelOK, MissingEntry, TwoInProgress,
       Others, Members, Leave, DeleteDomain, HandOver, Send, Goto, domainVars, envVars
<1> QED
    BY <1>1, <1>2, <1>3, <1>4, <1>5, <1>6, <1>7, <1>8 DEF IInv

\* done hands its turn over.
LEMMA DonePreserves ==
    ASSUME IInv, NEW c \in Calls, Done(c)
    PROVE  IInv'
<1>1. TypeOK'
    BY DEF IInv, TypeOK, Locations, Done, MissingEntry, TwoInProgress, Others, Members,
       Leave, DeleteDomain, HandOver, Send, Goto, domainVars, envVars
<1>2. Registered'
    BY DEF IInv, TypeOK, Registered, OneInProgress, ClearanceMatches,
       DomainsInUse, NoInternalError, Done, MissingEntry, TwoInProgress, Others, Members,
       Leave, DeleteDomain, HandOver, Send, Goto, domainVars, envVars
<1>3. OneInProgress'
    BY DEF IInv, TypeOK, Registered, OneInProgress, ClearanceMatches,
       DomainsInUse, NoInternalError, Done, MissingEntry, TwoInProgress, Others, Members,
       Leave, DeleteDomain, HandOver, Send, Goto, domainVars, envVars
<1>4. ClearanceMatches'
    BY DEF IInv, TypeOK, Registered, OneInProgress, ClearanceMatches,
       DomainsInUse, NoInternalError, Done, MissingEntry, TwoInProgress, Others, Members,
       Leave, DeleteDomain, HandOver, Send, Goto, domainVars, envVars
<1>5. DomainsInUse'
    BY DEF IInv, TypeOK, Registered, OneInProgress, ClearanceMatches,
       DomainsInUse, NoInternalError, Done, MissingEntry, TwoInProgress, Others, Members,
       Leave, DeleteDomain, HandOver, Send, Goto, domainVars, envVars
<1>6. NoInternalError'
    BY DEF IInv, TypeOK, Registered, OneInProgress, ClearanceMatches,
       DomainsInUse, NoInternalError, Done, MissingEntry, TwoInProgress, Others, Members,
       Leave, DeleteDomain, HandOver, Send, Goto, domainVars, envVars
<1>7. NoLostWakeup'
    BY DEF IInv, TypeOK, Registered, OneInProgress, ClearanceMatches,
       DomainsInUse, NoInternalError, NoLostWakeup, WillQuery, Members, Done, MissingEntry,
       TwoInProgress, Others, Members, Leave, DeleteDomain, HandOver, Send, Goto,
       domainVars, envVars
<1>8. ToldInserted'
    BY DEF IInv, TypeOK, ToldInserted, Done, MissingEntry, TwoInProgress, Others, Members,
       Leave, DeleteDomain, HandOver, Send, Goto, domainVars, envVars
<1> QED
    BY <1>1, <1>2, <1>3, <1>4, <1>5, <1>6, <1>7, <1>8 DEF IInv

\* What every notification does: one nominee of each of some domains is cleared
\* or pended, and only those domains are told of the open jobs.
LEMMA ClearOrPendPreserves ==
    ASSUME IInv, NEW S \in SUBSET acquirees,
           \A w \in S : w \in Nominees(KeyOf[w]),
           \A v, w \in S : KeyOf[v] = KeyOf[w] => v = w,
           ClearOrPendLocked(S),
           Tell({KeyOf[w] : w \in S}),
           UNCHANGED <<pc, ctxDone, q, acquirees, failed, row, lock>>,
           post' \in [Jobs -> {"none", "sent", "handled", "lost"}],
           dropped' \in BOOLEAN
    PROVE  IInv'
<1>1. TypeOK'
    BY DEF IInv, TypeOK, ClearOrPendLocked, Send, Tell, OpenJobs
<1>2. Registered'
    BY DEF IInv, TypeOK, Registered, ClearOrPendLocked
<1>3. OneInProgress'
    BY DEF IInv, TypeOK, Registered, OneInProgress, Nominees, Members, ClearOrPendLocked
<1>4. ClearanceMatches'
    BY DEF IInv, TypeOK, Registered, ClearanceMatches, ClearOrPendLocked, Send
<1>5. DomainsInUse'
    BY DEF IInv, DomainsInUse
<1>6. NoInternalError'
    BY DEF IInv, NoInternalError
<1>7. NoLostWakeup'
  <2> SUFFICES ASSUME NEW k \in q, NEW j \in told'[k],
                      row[j] = "open", CanAcquire(k, j)
               PROVE  \E d \in Members(k)' : WillQuery(d)'
      BY DEF NoLostWakeup, CanAcquire, TagsetContains
  <2>1. CASE \E w \in S : KeyOf[w] = k
    <3>1. PICK w \in S : KeyOf[w] = k
        BY <2>1
    <3>2. w \in acquirees' /\ w \in inProgress' /\ (w \in inProgress => w \in pending')
        BY DEF ClearOrPendLocked
    <3>3. w \notin inProgress => pc[w] \in {"select", "cancel"} /\ clearance'[w] = 1
        BY DEF IInv, TypeOK, Registered, ClearanceMatches, ClearOrPendLocked, Send
    <3>4. w \in inProgress => clearance'[w] = clearance[w]
        BY DEF IInv, TypeOK, ClearOrPendLocked, Send
    <3>5. WillQuery(w)'
        BY <3>2, <3>3, <3>4 DEF IInv, TypeOK, ClearanceMatches, WillQuery
    <3> QED
        BY <3>1, <3>2, <3>5 DEF Members
  <2>2. CASE ~ \E w \in S : KeyOf[w] = k
    <3>1. k \in Keys /\ j \in told[k]
        BY <2>2 DEF IInv, TypeOK, Tell
    <3>2. PICK d \in Members(k) : WillQuery(d)
        BY <3>1 DEF IInv, NoLostWakeup
    <3>3. WillQuery(d)'
        BY <2>2, <3>2 DEF IInv, TypeOK, Members, WillQuery, ClearOrPendLocked, Send
    <3> QED
        BY <3>2, <3>3 DEF Members
  <2> QED
      BY <2>1, <2>2
<1>8. ToldInserted'
    BY DEF IInv, TypeOK, ToldInserted, Tell, OpenJobs
<1> QED
    BY <1>1, <1>2, <1>3, <1>4, <1>5, <1>6, <1>7, <1>8 DEF IInv

\* A tick of the backup poll.
LEMMA PollPreserves ==
    ASSUME IInv, NEW k \in Keys, Poll(k)
    PROVE  IInv'
<1>1. PICK w \in Nominees(k) : ClearOrPendLocked({w})
    BY DEF Poll
<1>2. w \in acquirees /\ KeyOf[w] = k
    BY DEF Nominees, Members
<1>3. Tell({KeyOf[v] : v \in {w}})
  <2>1. {KeyOf[v] : v \in {w}} = {k}
      BY <1>2
  <2> QED
      BY <2>1 DEF Poll
<1> QED
    BY <1>1, <1>2, <1>3, ClearOrPendPreserves DEF Poll, envVars, IInv, TypeOK

\* A posting, delivered to one of the domains that contain it or to none.
LEMMA JobPostedPreserves ==
    ASSUME IInv, NEW j \in Jobs, JobPosted(j)
    PROVE  IInv'
<1>1. post' \in [Jobs -> {"none", "sent", "handled", "lost"}] /\ dropped' \in BOOLEAN
    BY DEF JobPosted, IInv, TypeOK
<1>2. CASE UNCHANGED <<domainVars, told>>
    BY <1>1, <1>2 DEF JobPosted, domainVars, IInv, TypeOK, Registered, OneInProgress,
       ClearanceMatches, DomainsInUse, NoInternalError, ToldInserted, NoLostWakeup,
       WillQuery, Members, CanAcquire, TagsetContains
<1>3. CASE \E k \in q : \E w \in Nominees(k) :
                ClearOrPendLocked({w}) /\ Tell({k}) /\ UNCHANGED <<q, acquirees>>
  <2>0. PICK k \in q : \E w \in Nominees(k) :
                ClearOrPendLocked({w}) /\ Tell({k}) /\ UNCHANGED <<q, acquirees>>
      BY <1>3
  <2>1. PICK w \in Nominees(k) :
                ClearOrPendLocked({w}) /\ Tell({k}) /\ UNCHANGED <<q, acquirees>>
      BY <2>0
  <2>2. w \in acquirees /\ KeyOf[w] = k
      BY DEF Nominees, Members
  <2>3. Tell({KeyOf[v] : v \in {w}})
    <3>1. {KeyOf[v] : v \in {w}} = {k}
        BY <2>2
    <3> QED
        BY <2>1, <3>1
  <2> QED
      BY <1>1, <2>1, <2>2, <2>3, ClearOrPendPreserves DEF JobPosted
<1> QED
    BY <1>2, <1>3 DEF JobPosted

\* ErrDroppedMessages: one nominee of every domain.
LEMMA DroppedMessagesPreserves ==
    ASSUME IInv, DroppedMessages
    PROVE  IInv'
<1>1. PICK nominee \in [q -> acquirees] :
          /\ \A k \in q : nominee[k] \in Nominees(k)
          /\ ClearOrPendLocked({nominee[k] : k \in q})
    BY DEF DroppedMessages
<1> DEFINE S == {nominee[k] : k \in q}
<1>2. \A k \in q : nominee[k] \in acquirees /\ KeyOf[nominee[k]] = k
    BY <1>1 DEF Nominees, Members
<1>3. {KeyOf[w] : w \in S} = q
    BY <1>2
<1>4. S \in SUBSET acquirees
    BY <1>2
<1>5. \A w \in S : w \in Nominees(KeyOf[w])
    BY <1>1, <1>2
<1>6. \A v, w \in S : KeyOf[v] = KeyOf[w] => v = w
    BY <1>2
<1>7. Tell({KeyOf[w] : w \in S})
    BY <1>3 DEF DroppedMessages
<1>8. ClearOrPendLocked(S)
    BY <1>1
<1>9. /\ UNCHANGED <<pc, ctxDone, q, acquirees, failed, row, lock>>
      /\ post' \in [Jobs -> {"none", "sent", "handled", "lost"}]
      /\ dropped' \in BOOLEAN
    BY DEF DroppedMessages, IInv, TypeOK
<1> HIDE DEF S
<1> QED
    BY <1>4, <1>5, <1>6, <1>7, <1>8, <1>9, ClearOrPendPreserves

\* A new job is one no domain has been told of yet.
LEMMA InsertJobPreserves ==
    ASSUME IInv, NEW j \in Jobs, InsertJob(j)
    PROVE  IInv'
<1>1. TypeOK'
    BY DEF IInv, TypeOK, Locations, InsertJob, domainVars
<1>2. Registered'
    BY DEF IInv, TypeOK, Registered, OneInProgress, ClearanceMatches,
       DomainsInUse, NoInternalError, InsertJob, domainVars
<1>3. OneInProgress'
    BY DEF IInv, TypeOK, Registered, OneInProgress, ClearanceMatches,
       DomainsInUse, NoInternalError, InsertJob, domainVars
<1>4. ClearanceMatches'
    BY DEF IInv, TypeOK, Registered, OneInProgress, ClearanceMatches,
       DomainsInUse, NoInternalError, InsertJob, domainVars
<1>5. DomainsInUse'
    BY DEF IInv, TypeOK, Registered, OneInProgress, ClearanceMatches,
       DomainsInUse, NoInternalError, InsertJob, domainVars
<1>6. NoInternalError'
    BY DEF IInv, TypeOK, Registered, OneInProgress, ClearanceMatches,
       DomainsInUse, NoInternalError, InsertJob, domainVars
<1>7. NoLostWakeup'
    BY DEF IInv, TypeOK, Registered, OneInProgress, ClearanceMatches,
       DomainsInUse, NoInternalError, ToldInserted, NoLostWakeup, WillQuery, Members,
       InsertJob, domainVars
<1>8. ToldInserted'
    BY DEF IInv, TypeOK, ToldInserted, InsertJob, domainVars
<1> QED
    BY <1>1, <1>2, <1>3, <1>4, <1>5, <1>6, <1>7, <1>8 DEF IInv

\* The other steps of the environment touch neither domains nor open jobs.
LEMMA EnvironmentPreserves ==
    ASSUME IInv, NEW j \in Jobs, PostJob(j) \/ DropPosting(j) \/ LockRow(j) \/ UnlockRow(j)
    PROVE  IInv'
<1>1. TypeOK'
  <2>1. CASE PostJob(j)
      BY <2>1 DEF IInv, TypeOK, PostJob, domainVars
  <2>2. CASE DropPosting(j) \/ LockRow(j)
      BY <2>2 DEF IInv, TypeOK, DropPosting, LockRow, domainVars
  <2>3. CASE UnlockRow(j)
      BY <2>3 DEF IInv, TypeOK, UnlockRow, domainVars
  <2> QED
      BY <2>1, <2>2, <2>3
<1>2. Registered'
    BY DEF IInv, TypeOK, Registered, OneInProgress, ClearanceMatches,
       DomainsInUse, NoInternalError, PostJob, DropPosting, LockRow, UnlockRow, domainVars
<1>3. OneInProgress'
    BY DEF IInv, TypeOK, Registered, OneInProgress, ClearanceMatches,
       DomainsInUse, NoInternalError, PostJob, DropPosting, LockRow, UnlockRow, domainVars
<1>4. ClearanceMatches'
    BY DEF IInv, TypeOK, Registered, OneInProgress, ClearanceMatches,
       DomainsInUse, NoInternalError, PostJob, DropPosting, LockRow, UnlockRow, domainVars
<1>5. DomainsInUse'
    BY DEF IInv, TypeOK, Registered, OneInProgress, ClearanceMatches,
       DomainsInUse, NoInternalError, PostJob, DropPosting, LockRow, UnlockRow, domainVars
<1>6. NoInternalError'
    BY DEF IInv, TypeOK, Registered, OneInProgress, ClearanceMatches,
       DomainsInUse, NoInternalError, PostJob, DropPosting, LockRow, UnlockRow, domainVars
<1>7. NoLostWakeup'
    BY DEF IInv, TypeOK, Registered, OneInProgress, ClearanceMatches,
       DomainsInUse, NoInternalError, NoLostWakeup, WillQuery, Members, PostJob,
       DropPosting, LockRow, UnlockRow, domainVars
<1>8. ToldInserted'
    BY DEF IInv, TypeOK, ToldInserted, PostJob, DropPosting, LockRow, UnlockRow, domainVars
<1> QED
    BY <1>1, <1>2, <1>3, <1>4, <1>5, <1>6, <1>7, <1>8 DEF IInv

\* The initial state satisfies the invariant.
LEMMA InitIInv == Init => IInv
<1> SUFFICES ASSUME Init PROVE IInv
    OBVIOUS
<1> QED
    BY DEF Init, IInv, TypeOK, Locations, Registered, OneInProgress, ClearanceMatches,
       DomainsInUse, NoInternalError, ToldInserted, NoLostWakeup

\* Every step keeps the invariant.
LEMMA NextIInv == IInv /\ [Next]_vars => IInv'
<1> SUFFICES ASSUME IInv, [Next]_vars PROVE IInv'
    OBVIOUS
<1>1. ASSUME NEW c \in Calls, Call(c) \/ CtxDone(c) \/ CallStep(c)
      PROVE  IInv'
    BY <1>1, CallPreserves, CtxDonePreserves, WantPreserves, SelectDonePreserves,
       SelectClearancePreserves, QueryNoRowsPreserves, QueryTakesPreserves,
       QueryErrorPreserves, CancelPreserves, DonePreserves
       DEF CallStep
<1>2. ASSUME NEW j \in Jobs, JobStep(j)
      PROVE  IInv'
    BY <1>2, InsertJobPreserves, EnvironmentPreserves, JobPostedPreserves DEF JobStep
<1>3. CASE UNCHANGED vars
    BY <1>3 DEF vars, IInv, TypeOK, Registered, OneInProgress, ClearanceMatches,
       DomainsInUse, NoInternalError, ToldInserted, NoLostWakeup,
       WillQuery, Members, CanAcquire, TagsetContains
<1> QED
    BY <1>1, <1>2, <1>3, PollPreserves, DroppedMessagesPreserves DEF Next

\* The inductive invariant holds in every reachable state, for any number of
\* calls, domains and jobs.
THEOREM Invariance == Spec => []IInv
    BY InitIInv, NextIInv, PTL DEF Spec

\* The state of the acquirer keeps its type.
THEOREM TypeCorrect == Spec => []TypeOK
<1>1. IInv => TypeOK
    BY DEF IInv
<1> QED
    BY <1>1, Invariance, PTL

\* At most one call of each domain is inside AcquireProvisionerJob.
THEOREM OneQuery == Spec => []OneQueryPerDomain
<1>1. IInv => OneQueryPerDomain
    BY DEF IInv, OneInProgress, ClearanceMatches, OneQueryPerDomain
<1> QED
    BY <1>1, Invariance, PTL

\* No goroutine blocks on a clearance channel while it holds a.mu.
THEOREM SendsDoNotBlock == Spec => []SendNeverBlocks
<1>1. IInv => SendNeverBlocks
    BY DEF IInv, TypeOK, Locations, Registered, ClearanceMatches, SendNeverBlocks
<1> QED
    BY <1>1, Invariance, PTL

\* cancel and done never report a corrupted internal state.
THEOREM IntegrityKept == Spec => []NoInternalError
<1>1. IInv => NoInternalError
    BY DEF IInv
<1> QED
    BY <1>1, Invariance, PTL

\* The domains are exactly those of the registered acquirees.
THEOREM DomainsMatch == Spec => []DomainsInUse
<1>1. IInv => DomainsInUse
    BY DEF IInv
<1> QED
    BY <1>1, Invariance, PTL

\* The acquirer loses no wake-up.
THEOREM WakeupsKept == Spec => []NoLostWakeup
<1>1. IInv => NoLostWakeup
    BY DEF IInv
<1> QED
    BY <1>1, Invariance, PTL
=============================================================================
