------------------------------- MODULE Pubsub -------------------------------
(***************************************************************************)
(* Subscribing to one event of the Postgres pubsub                         *)
(* (wirtuald/database/pubsub/pubsub.go).                                   *)
(*                                                                         *)
(* The subscriptions of an event share a queueSet and one LISTEN on the    *)
(* connection to Postgres: the first Subscribe listens, the last cancel    *)
(* unlistens.  Neither call may be made while qMu is held, so that         *)
(* Subscribe and cancel are several steps each, and a Subscribe that finds *)
(* an Unlisten in progress waits for it.  The connection may be lost and   *)
(* come back; what was published meanwhile is gone, and listen() then      *)
(* reports an error to every subscription.                                 *)
(***************************************************************************)
EXTENDS Naturals, Sequences

CONSTANTS
    Subs,        \* the subscriptions; each one subscribes and cancels once
    None,
    MaxNotify    \* bound on the notifications under way

ASSUME NoneAssumption == None \notin Subs
ASSUME NotifyAssumption == MaxNotify \in Nat \ {0}

VARIABLES
    pc,        \* where each subscription is in Subscribe or in its cancel
    qs,        \* the queueSet it joined, named after the subscription that made it
    wait,      \* the cancel whose Unlisten it found in progress, or None
    current,   \* the queueSet in queues, or None
    m,         \* the members of each queueSet
    unlistenInProgress,   \* the cancel that unlistens for a queueSet, or None
    channel,   \* the pgListener has the channel open
    up,        \* the connection to Postgres is up
    notify,    \* NotifyChan: "msg", or "nil" after a reconnection
    owed,      \* history: a message was lost for the subscription, which does not know
    removed    \* history: a queueSet was removed while somebody was unlistening for it

setVars == <<qs, wait, current, m, unlistenInProgress>>
netVars == <<up, notify>>
vars == <<pc, setVars, channel, netVars, owed, removed>>

Init ==
    /\ pc = [s \in Subs |-> "new"]
    /\ qs = [s \in Subs |-> None]
    /\ wait = [s \in Subs |-> None]
    /\ current = None
    /\ m = [s \in Subs |-> {}]
    /\ unlistenInProgress = [s \in Subs |-> None]
    /\ channel = FALSE
    /\ up = TRUE
    /\ notify = <<>>
    /\ owed = [s \in Subs |-> FALSE]
    /\ removed = FALSE

-----------------------------------------------------------------------------
Goto(s, l) == pc' = [pc EXCEPT ![s] = l]

(* subscribeQueue. *)

\* Under qMu: the subscription joins the queueSet of the event, or makes one, and
\* reads whether somebody unlistens.
Join(s) ==
    LET set == IF current = None THEN s ELSE current
    IN  /\ pc[s] = "new"
        /\ current' = set
        /\ qs' = [qs EXCEPT ![s] = set]
        /\ m' = [m EXCEPT ![set] = @ \cup {s}]
        /\ wait' = [wait EXCEPT ![s] = unlistenInProgress[set]]
        /\ Goto(s, "joined")
        /\ UNCHANGED <<unlistenInProgress, channel, netVars, owed, removed>>

\* close(unlistening) has happened.
Closed(t) == pc[t] \in {"removing", "gone"}

\* Mutant: Subscribe does not wait for the Unlisten in progress.
DoNotWait(s) == pc[s] = "joined"

\* <-unlistenInProgress.
Waited(s) ==
    /\ pc[s] = "joined"
    /\ wait[s] # None => Closed(wait[s])

\* Listen returns at once if the channel is open; otherwise it opens it, and returns
\* when there is a connection.
Listen(s) ==
    /\ Waited(s)
    /\ channel \/ up
    /\ channel' = TRUE
    /\ Goto(s, "active")
    /\ UNCHANGED <<setVars, netVars, owed, removed>>

\* Listen returns an error, which an open channel is not.
ListenError(s) ==
    /\ Waited(s)
    /\ ~channel
    /\ Goto(s, "failing")
    /\ UNCHANGED <<setVars, channel, netVars, owed, removed>>

\* Mutant: the event is removed whoever else has subscribed to it.
RemoveAnyway(set) == TRUE

IsEmpty(set) == m'[set] = {}

\* Mutant: the subscription stays in the queueSet.
LeaveNothing(s) ==
    /\ pc[s] = "failing"
    /\ Goto(s, "failed")
    /\ UNCHANGED <<setVars, channel, netVars, owed, removed>>

\* Under qMu, on error: the subscription leaves, and an empty queueSet is removed.
Leave(s) ==
    /\ pc[s] = "failing"
    /\ m' = [m EXCEPT ![qs[s]] = @ \ {s}]
    /\ current' = IF IsEmpty(qs[s]) THEN None ELSE current
    /\ Goto(s, "failed")
    /\ UNCHANGED <<qs, wait, unlistenInProgress, channel, netVars, owed, removed>>

-----------------------------------------------------------------------------
(* The cancel function that Subscribe returns. *)

\* Under qMu: the last one to leave is going to unlisten.
Cancel(s) ==
    /\ pc[s] = "active"
    /\ IF current = None
       THEN Goto(s, "critical") /\ UNCHANGED <<m, unlistenInProgress>>
       ELSE /\ m' = [m EXCEPT ![current] = @ \ {s}]
            /\ IF m'[current] = {}
               THEN /\ unlistenInProgress' = [unlistenInProgress EXCEPT ![current] = s]
                    /\ Goto(s, "unlistening")
               ELSE Goto(s, "gone") /\ UNCHANGED unlistenInProgress
    /\ UNCHANGED <<qs, wait, current, channel, netVars, owed, removed>>

\* Unlisten closes the channel, or fails and leaves it open.
Unlisten(s) ==
    /\ pc[s] = "unlistening"
    /\ channel' \in {FALSE, channel}
    /\ Goto(s, "unlistened")
    /\ UNCHANGED <<setVars, netVars, owed, removed>>

\* Mutant: close(unlistening) is forgotten.
ForgetClose(s) == pc[s] = "unlistened" /\ UNCHANGED vars

\* close(unlistening).
CloseUnlistening(s) ==
    /\ pc[s] = "unlistened"
    /\ Goto(s, "removing")
    /\ UNCHANGED <<setVars, channel, netVars, owed, removed>>

\* Somebody is about to close the channel.
Unlistening == \E s \in Subs : pc[s] = "unlistening"

\* Under qMu: the event is removed if its queueSet, whichever that is now, is empty.
Remove(s) ==
    /\ pc[s] = "removing"
    /\ IF current # None /\ m[current] = {}
       THEN /\ current' = None
            /\ removed' = (removed \/ Unlistening)
       ELSE UNCHANGED <<current, removed>>
    /\ Goto(s, "gone")
    /\ UNCHANGED <<qs, wait, m, unlistenInProgress, channel, netVars, owed>>

-----------------------------------------------------------------------------
(* Publish and listen. *)

Active == {s \in Subs : pc[s] = "active"}

\* A message is lost for the subscriptions in set.
Owe(set) == owed' = [s \in Subs |-> owed[s] \/ s \in set]

\* pg_notify, by any process.
Publish ==
    /\ Len(notify) < MaxNotify
    /\ IF up /\ channel
       THEN notify' = Append(notify, "msg") /\ UNCHANGED owed
       ELSE Owe(Active) /\ UNCHANGED notify
    /\ UNCHANGED <<pc, setVars, channel, up, removed>>

\* Who gets what listen() takes from the channel.
Members == IF current = None THEN {} ELSE m[current]

\* listenReceive.
ListenReceive ==
    /\ notify # <<>> /\ Head(notify) = "msg"
    /\ notify' = Tail(notify)
    /\ Owe(Active \ Members)
    /\ UNCHANGED <<pc, setVars, channel, up, removed>>

\* Mutant: a nil notification is ignored.
IgnoreReconnect ==
    /\ notify # <<>> /\ Head(notify) = "nil"
    /\ notify' = Tail(notify)
    /\ UNCHANGED <<pc, setVars, channel, up, owed, removed>>

\* recordReconnect: every queue gets ErrDroppedMessages.
RecordReconnect ==
    /\ notify # <<>> /\ Head(notify) = "nil"
    /\ notify' = Tail(notify)
    /\ owed' = [s \in Subs |-> owed[s] /\ s \notin Members]
    /\ UNCHANGED <<pc, setVars, channel, up, removed>>

\* The connection breaks, and what is still on its way is lost.
Disconnect ==
    /\ up
    /\ up' = FALSE
    /\ \E n \in 0..Len(notify) :
          /\ notify' = SubSeq(notify, 1, n)
          /\ \A i \in n+1..Len(notify) : notify[i] = "msg"
          /\ IF n < Len(notify) THEN Owe(Active) ELSE UNCHANGED owed
    /\ UNCHANGED <<pc, setVars, channel, removed>>

\* pq reconnects, listens to its open channels again and sends nil.
Reconnect ==
    /\ ~up
    /\ Len(notify) < MaxNotify
    /\ up' = TRUE
    /\ notify' = Append(notify, "nil")
    /\ UNCHANGED <<pc, setVars, channel, owed, removed>>

-----------------------------------------------------------------------------
Subscribe(s) == Join(s) \/ Listen(s) \/ ListenError(s) \/ Leave(s)

CancelStep(s) == Cancel(s) \/ Unlisten(s) \/ CloseUnlistening(s) \/ Remove(s)

Network == Publish \/ ListenReceive \/ RecordReconnect \/ Disconnect \/ Reconnect

Next == (\E s \in Subs : Subscribe(s) \/ CancelStep(s)) \/ Network

Spec == Init /\ [][Next]_vars

\* Goroutines run and qMu starves nobody; pq reconnects again and again, and hands
\* its notifications to listen(); Listen then finds the connection up often enough.
Fairness ==
    /\ \A s \in Subs :
          /\ SF_vars(Listen(s) \/ ListenError(s))
          /\ WF_vars(Leave(s) \/ Unlisten(s) \/ CloseUnlistening(s) \/ Remove(s))
    /\ WF_vars(Reconnect)
    /\ WF_vars(ListenReceive \/ RecordReconnect)

FairSpec == Spec /\ Fairness

-----------------------------------------------------------------------------
(* Properties. *)

\* Type correctness of the subscriptions, the queueSets and the connection.
TypeOK ==
    /\ pc \in [Subs -> {"new", "joined", "active", "failing", "failed", "critical",
                        "unlistening", "unlistened", "removing", "gone"}]
    /\ qs \in [Subs -> Subs \cup {None}]
    /\ wait \in [Subs -> Subs \cup {None}]
    /\ current \in Subs \cup {None}
    /\ m \in [Subs -> SUBSET Subs]
    /\ unlistenInProgress \in [Subs -> Subs \cup {None}]
    /\ {channel, up, removed} \subseteq BOOLEAN
    /\ notify \in Seq({"msg", "nil"})
    /\ owed \in [Subs -> BOOLEAN]

\* A subscription is in the queueSet under which its event is registered as long as
\* it has not canceled: no message finds the event unknown, and cancel never meets
\* its "event was removed before cancel".
Registered ==
    \A s \in Subs :
        /\ pc[s] # "critical"
        /\ pc[s] \in {"joined", "active", "failing"} =>
              current # None /\ qs[s] = current /\ s \in m[current]

\* The members of a queueSet are those subscriptions and no others: nobody gets a
\* message after its cancel.
MembersCurrent ==
    \A g, s \in Subs :
        s \in m[g] => g = current /\ pc[s] \in {"joined", "active", "failing"}

\* The channel of an event with a subscription is open, unless a queueSet was
\* removed while somebody was unlistening for it.
ListensUnlessRemoved == Active # {} /\ ~removed => channel

\* Whoever unlistens is known to those that have joined in the meantime, and they wait.
UnlistenersKnown ==
    ~removed =>
        \A t \in Subs : pc[t] = "unlistening" =>
            /\ current # None
            /\ unlistenInProgress[current] = t
            /\ \A s \in m[current] : pc[s] = "joined" /\ wait[s] = t

\* Nothing is lost for a subscription that has not been told that it listens.
OwedLater == \A s \in Subs : owed[s] => pc[s] \notin {"new", "joined"}

\* A subscription that has lost a message is told so after the next reconnection.
LossReported ==
    ~removed =>
        \A s \in Active : owed[s] => ~up \/ \E i \in 1..Len(notify) : notify[i] = "nil"

\* The strengthening that makes Registered and ListensUnlessRemoved inductive.
IInv == TypeOK /\ Registered /\ MembersCurrent /\ ListensUnlessRemoved /\ UnlistenersKnown

\* No circle of waiting: what a Subscribe waits for, now or once it has read it from its
\* queueSet, is a cancel on its way to close(unlistening), which waits for nobody.
WaitsForCancel ==
    \A s \in Subs : \A t \in {wait[s], unlistenInProgress[s]} \ {None} :
        pc[t] \in {"unlistening", "unlistened", "removing", "gone"}

\* Nobody waits for ever for an Unlisten in progress: Subscribe returns.
SubscribeReturns ==
    \A s \in Subs : (pc[s] = "joined") ~> (pc[s] \in {"active", "failed"})

\* "We have to wait here because we don't want our `Listen` call to happen before the
\* other goroutine calls `Unlisten`.  That would result in this subscription not getting
\* any events."
ListensWhileSubscribed == Active # {} => channel
=============================================================================
