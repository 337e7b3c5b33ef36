---------------------------- MODULE PubsubProofs ----------------------------
(***************************************************************************)
(* Proofs that the subscriptions of an event keep the invariant IInv of    *)
(* Pubsub, however many there are and however long the notifications       *)
(* queue up.                                                               *)
(***************************************************************************)
EXTENDS Pubsub, SequenceTheorems, TLAPS

USE NoneAssumption, NotifyAssumption

-----------------------------------------------------------------------------
(* Subscribe. *)

\* A subscription joins the queueSet of its event.
LEMMA JoinPreserves ==
    ASSUME IInv, NEW s \in Subs, Join(s)
    PROVE  IInv'
<1> DEFINE set == IF current = None THEN s ELSE current
<1>0. /\ set \in Subs /\ pc[s] = "new" /\ current' = set
      /\ pc' = [pc EXCEPT ![s] = "joined"]
      /\ qs' = [qs EXCEPT ![s] = set]
      /\ m' = [m EXCEPT ![set] = @ \cup {s}]
      /\ wait' = [wait EXCEPT ![s] = unlistenInProgress[set]]
      /\ UNCHANGED <<unlistenInProgress, channel, up, notify, owed, removed>>
    BY DEF IInv, TypeOK, Join, Goto, netVars
<1> HIDE DEF set
<1>1. TypeOK'
    BY <1>0 DEF IInv, TypeOK
<1>2. Registered'
    BY <1>0 DEF IInv, TypeOK, Registered, set
<1>3. MembersCurrent'
    BY <1>0 DEF IInv, TypeOK, MembersCurrent, set
<1>4. ListensUnlessRemoved'
    BY <1>0 DEF IInv, TypeOK, ListensUnlessRemoved, Active
<1>5. UnlistenersKnown'
    BY <1>0 DEF IInv, TypeOK, UnlistenersKnown, set
<1> QED
    BY <1>1, <1>2, <1>3, <1>4, <1>5 DEF IInv

\* Nobody that has waited overtakes an Unlisten in progress.
LEMMA WaitedIsSafe ==
    ASSUME IInv, NEW s \in Subs, Waited(s), ~removed
    PROVE  \A t \in Subs : pc[t] # "unlistening"
<1> SUFFICES ASSUME NEW t \in Subs, pc[t] = "unlistening" PROVE FALSE
    OBVIOUS
<1>1. s \in m[current]
    BY DEF IInv, Registered, Waited
<1>2. wait[s] = t /\ t # None
    BY <1>1 DEF IInv, UnlistenersKnown
<1>3. pc[t] \in {"removing", "gone"}
    BY <1>2 DEF Waited, Closed
<1> QED
    BY <1>3

\* Listen succeeds.
LEMMA ListenPreserves ==
    ASSUME IInv, NEW s \in Subs, Listen(s)
    PROVE  IInv'
<1>0. /\ pc[s] = "joined"
      /\ channel' = TRUE
      /\ pc' = [pc EXCEPT ![s] = "active"]
      /\ UNCHANGED <<qs, wait, current, m, unlistenInProgress, up, notify, owed, removed>>
    BY DEF Listen, Waited, Goto, setVars, netVars
<1>1. TypeOK'
    BY <1>0 DEF IInv, TypeOK
<1>2. Registered'
    BY <1>0 DEF IInv, TypeOK, Registered
<1>3. MembersCurrent'
    BY <1>0 DEF IInv, TypeOK, MembersCurrent
<1>4. ListensUnlessRemoved'
    BY <1>0 DEF ListensUnlessRemoved
<1>5. UnlistenersKnown'
    <2> SUFFICES ASSUME ~removed PROVE UnlistenersKnown'
        BY <1>0 DEF UnlistenersKnown
    <2>1. \A t \in Subs : pc[t] # "unlistening"
        BY WaitedIsSafe DEF Listen
    <2> QED
        BY <1>0, <2>1 DEF IInv, TypeOK, UnlistenersKnown
<1> QED
    BY <1>1, <1>2, <1>3, <1>4, <1>5 DEF IInv

\* Listen fails.
LEMMA ListenErrorPreserves ==
    ASSUME IInv, NEW s \in Subs, ListenError(s)
    PROVE  IInv'
<1>0. /\ pc[s] = "joined"
      /\ pc' = [pc EXCEPT ![s] = "failing"]
      /\ UNCHANGED <<qs, wait, current, m, unlistenInProgress, channel, up, notify, owed, removed>>
    BY DEF ListenError, Waited, Goto, setVars, netVars
<1>1. TypeOK'
    BY <1>0 DEF IInv, TypeOK
<1>2. Registered'
    BY <1>0 DEF IInv, TypeOK, Registered
<1>3. MembersCurrent'
    BY <1>0 DEF IInv, TypeOK, MembersCurrent
<1>4. ListensUnlessRemoved'
    BY <1>0 DEF IInv, TypeOK, ListensUnlessRemoved, Active
<1>5. UnlistenersKnown'
    <2> SUFFICES ASSUME ~removed PROVE UnlistenersKnown'
        BY <1>0 DEF UnlistenersKnown
    <2>1. \A t \in Subs : pc[t] # "unlistening"
        BY WaitedIsSafe DEF ListenError
    <2> QED
        BY <1>0, <2>1 DEF IInv, TypeOK, UnlistenersKnown
<1> QED
    BY <1>1, <1>2, <1>3, <1>4, <1>5 DEF IInv

\* A failed subscription leaves: as the comment in subscribeQueue has it, nobody can be
\* unlistening for its queueSet.
LEMMA LeavePreserves ==
    ASSUME IInv, NEW s \in Subs, Leave(s)
    PROVE  IInv'
<1>0. /\ pc[s] = "failing"
      /\ pc' = [pc EXCEPT ![s] = "failed"]
      /\ m' = [m EXCEPT ![qs[s]] = @ \ {s}]
      /\ current' = IF m'[qs[s]] = {} THEN None ELSE current
      /\ UNCHANGED <<qs, wait, unlistenInProgress, channel, up, notify, owed, removed>>
    BY DEF Leave, Goto, netVars, IsEmpty
<1>a. qs[s] \in Subs /\ qs[s] = current /\ s \in m[current]
    BY <1>0 DEF IInv, TypeOK, Registered
<1>1. TypeOK'
    BY <1>0, <1>a DEF IInv, TypeOK
<1>2. Registered'
    BY <1>0, <1>a DEF IInv, TypeOK, Registered
<1>3. MembersCurrent'
    BY <1>0, <1>a DEF IInv, TypeOK, MembersCurrent
<1>4. ListensUnlessRemoved'
    BY <1>0 DEF IInv, TypeOK, ListensUnlessRemoved, Active
<1>5. UnlistenersKnown'
    <2> SUFFICES ASSUME ~removed PROVE UnlistenersKnown'
        BY <1>0 DEF UnlistenersKnown
    <2>1. \A t \in Subs : pc[t] # "unlistening"
        BY <1>0, <1>a DEF IInv, UnlistenersKnown
    <2> QED
        BY <1>0, <2>1 DEF IInv, TypeOK, UnlistenersKnown
<1> QED
    BY <1>1, <1>2, <1>3, <1>4, <1>5 DEF IInv

-----------------------------------------------------------------------------
(* Cancel. *)

\* A subscription cancels: it is registered, and if it is the last, nobody else unlistens.
LEMMA CancelPreserves ==
    ASSUME IInv, NEW s \in Subs, Cancel(s)
    PROVE  IInv'
<1>a. pc[s] = "active" /\ current \in Subs /\ qs[s] = current /\ s \in m[current]
    BY DEF IInv, TypeOK, Registered, Cancel
<1>0. /\ m' = [m EXCEPT ![current] = @ \ {s}]
      /\ IF m'[current] = {}
         THEN /\ unlistenInProgress' = [unlistenInProgress EXCEPT ![current] = s]
              /\ pc' = [pc EXCEPT ![s] = "unlistening"]
         ELSE pc' = [pc EXCEPT ![s] = "gone"] /\ UNCHANGED unlistenInProgress
      /\ UNCHANGED <<qs, wait, current, channel, up, notify, owed, removed>>
    BY <1>a DEF Cancel, Goto, netVars
<1>1. TypeOK'
    BY <1>0, <1>a DEF IInv, TypeOK
<1>2. Registered'
    BY <1>0, <1>a DEF IInv, TypeOK, Registered
<1>3. MembersCurrent'
    BY <1>0, <1>a DEF IInv, TypeOK, MembersCurrent
<1>4. ListensUnlessRemoved'
    BY <1>0, <1>a DEF IInv, TypeOK, ListensUnlessRemoved, Active
<1>5. UnlistenersKnown'
    <2> SUFFICES ASSUME ~removed PROVE UnlistenersKnown'
        BY <1>0 DEF UnlistenersKnown
    <2>1. \A t \in Subs : pc[t] # "unlistening"
        BY <1>a DEF IInv, UnlistenersKnown
    <2> QED
        BY <1>0, <1>a, <2>1 DEF IInv, TypeOK, UnlistenersKnown
<1> QED
    BY <1>1, <1>2, <1>3, <1>4, <1>5 DEF IInv

\* Unlisten: those that depend on the channel have not listened yet.
LEMMA UnlistenPreserves ==
    ASSUME IInv, NEW s \in Subs, Unlisten(s)
    PROVE  IInv'
<1>0. /\ pc[s] = "unlistening"
      /\ channel' \in {FALSE, channel}
      /\ pc' = [pc EXCEPT ![s] = "unlistened"]
      /\ UNCHANGED <<qs, wait, current, m, unlistenInProgress, up, notify, owed, removed>>
    BY DEF Unlisten, Goto, setVars, netVars
<1>1. TypeOK'
    BY <1>0 DEF IInv, TypeOK
<1>2. Registered'
    BY <1>0 DEF IInv, TypeOK, Registered
<1>3. MembersCurrent'
    BY <1>0 DEF IInv, TypeOK, MembersCurrent
<1>4. ListensUnlessRemoved'
    <2> SUFFICES ASSUME ~removed, NEW t \in Subs, pc'[t] = "active"
                 PROVE  FALSE
        BY <1>0 DEF ListensUnlessRemoved, Active
    <2>1. pc[t] = "active" /\ t \in m[current]
        BY <1>0 DEF IInv, TypeOK, Registered
    <2> QED
        BY <1>0, <2>1 DEF IInv, UnlistenersKnown
<1>5. UnlistenersKnown'
    BY <1>0 DEF IInv, TypeOK, UnlistenersKnown
<1> QED
    BY <1>1, <1>2, <1>3, <1>4, <1>5 DEF IInv

\* The waiting subscriptions are released.
LEMMA CloseUnlisteningPreserves ==
    ASSUME IInv, NEW s \in Subs, CloseUnlistening(s)
    PROVE  IInv'
<1>0. /\ pc[s] = "unlistened"
      /\ pc' = [pc EXCEPT ![s] = "removing"]
      /\ UNCHANGED <<qs, wait, current, m, unlistenInProgress, channel, up, notify, owed, removed>>
    BY DEF CloseUnlistening, Goto, setVars, netVars
<1>1. TypeOK'
    BY <1>0 DEF IInv, TypeOK
<1>2. Registered'
    BY <1>0 DEF IInv, TypeOK, Registered
<1>3. MembersCurrent'
    BY <1>0 DEF IInv, TypeOK, MembersCurrent
<1>4. ListensUnlessRemoved'
    BY <1>0 DEF IInv, TypeOK, ListensUnlessRemoved, Active
<1>5. UnlistenersKnown'
    BY <1>0 DEF IInv, TypeOK, UnlistenersKnown
<1> QED
    BY <1>1, <1>2, <1>3, <1>4, <1>5 DEF IInv

\* An empty queueSet is removed.
LEMMA RemovePreserves ==
    ASSUME IInv, NEW s \in Subs, Remove(s)
    PROVE  IInv'
<1>0. /\ pc[s] = "removing"
      /\ IF current # None /\ m[current] = {}
         THEN current' = None /\ removed' = (removed \/ Unlistening)
         ELSE UNCHANGED <<current, removed>>
      /\ pc' = [pc EXCEPT ![s] = "gone"]
      /\ UNCHANGED <<qs, wait, m, unlistenInProgress, channel, up, notify, owed>>
    BY DEF Remove, Goto, netVars
<1>1. TypeOK'
    BY <1>0 DEF IInv, TypeOK, Unlistening
<1>2. Registered'
    BY <1>0 DEF IInv, TypeOK, Registered
<1>3. MembersCurrent'
    BY <1>0 DEF IInv, TypeOK, MembersCurrent
<1>4. ListensUnlessRemoved'
    BY <1>0 DEF IInv, TypeOK, ListensUnlessRemoved, Active
<1>5. UnlistenersKnown'
    BY <1>0 DEF IInv, TypeOK, UnlistenersKnown, Unlistening
<1> QED
    BY <1>1, <1>2, <1>3, <1>4, <1>5 DEF IInv

-----------------------------------------------------------------------------
(* The network. *)

\* Publishing, receiving and losing notifications touches no subscription.
LEMMA NetworkPreserves ==
    ASSUME IInv, Network
    PROVE  IInv'
<1>0. UNCHANGED <<pc, qs, wait, current, m, unlistenInProgress, channel, removed>>
    BY DEF Network, Publish, ListenReceive, RecordReconnect, Disconnect, Reconnect, setVars
<1>1. owed' \in [Subs -> BOOLEAN]
    BY DEF IInv, TypeOK, Network, Publish, ListenReceive, RecordReconnect, Disconnect,
       Reconnect, Owe
<1>2. up' \in BOOLEAN
    BY DEF IInv, TypeOK, Network, Publish, ListenReceive, RecordReconnect, Disconnect, Reconnect
<1>3. notify' \in Seq({"msg", "nil"})
    <2> DEFINE Notification == {"msg", "nil"}
    <2>0. /\ notify \in Seq(Notification)
          /\ \A x \in Notification : Append(notify, x) \in Seq(Notification)
          /\ notify # <<>> => Tail(notify) \in Seq(Notification)
        BY HeadTailProperties, AppendProperties DEF IInv, TypeOK
    <2>a. notify' = notify => notify' \in Seq(Notification)
        BY <2>0
    <2>b. "msg" \in Notification /\ "nil" \in Notification
        OBVIOUS
    <2> SUFFICES notify' \in Seq(Notification)
        OBVIOUS
    <2> HIDE DEF Notification
    <2>1. CASE Publish \/ Reconnect
        BY <2>0, <2>a, <2>b, <2>1 DEF Publish, Reconnect
    <2>2. CASE ListenReceive \/ RecordReconnect
        BY <2>0, <2>2 DEF ListenReceive, RecordReconnect
    <2>3. CASE Disconnect
        <3>1. PICK n \in 0..Len(notify) : notify' = SubSeq(notify, 1, n)
            BY <2>3 DEF Disconnect
        <3> QED
            BY <2>0, <3>1
    <2> QED
        BY <2>1, <2>2, <2>3 DEF Network
<1>4. TypeOK'
    BY <1>0, <1>1, <1>2, <1>3 DEF IInv, TypeOK
<1> QED
    BY <1>0, <1>4 DEF IInv, Registered, MembersCurrent, ListensUnlessRemoved, Active,
       UnlistenersKnown

-----------------------------------------------------------------------------
(* The theorems. *)

\* No subscription exists at first.
LEMMA InitEstablishes == Init => IInv
<1> SUFFICES ASSUME Init PROVE IInv
    OBVIOUS
<1>1. <<>> \in Seq({"msg", "nil"})
    OBVIOUS
<1>2. TypeOK
    BY <1>1 DEF Init, TypeOK
<1>3. \A s \in Subs : pc[s] = "new" /\ m[s] = {}
    BY DEF Init
<1> QED
    BY <1>2, <1>3 DEF IInv, Registered, MembersCurrent, ListensUnlessRemoved, Active,
       UnlistenersKnown

\* Every step preserves the invariant.
LEMMA NextPreserves ==
    ASSUME IInv, [Next]_vars
    PROVE  IInv'
<1>1. CASE \E s \in Subs : Subscribe(s)
    BY <1>1, JoinPreserves, ListenPreserves, ListenErrorPreserves, LeavePreserves DEF Subscribe
<1>2. CASE \E s \in Subs : CancelStep(s)
    BY <1>2, CancelPreserves, UnlistenPreserves, CloseUnlisteningPreserves, RemovePreserves
       DEF CancelStep
<1>3. CASE Network
    BY <1>3, NetworkPreserves
<1>4. CASE UNCHANGED vars
    BY <1>4 DEF vars, setVars, netVars, IInv, TypeOK, Registered, MembersCurrent,
       ListensUnlessRemoved, Active, UnlistenersKnown
<1> QED
    BY <1>1, <1>2, <1>3, <1>4 DEF Next

\* IInv, which says in which queueSet every subscription is and who waits for whom,
\* holds in every state.
THEOREM PubsubInvariance == Spec => []IInv
BY InitEstablishes, NextPreserves, PTL DEF Spec

\* A subscription is registered until it cancels: cancel's "event was removed before
\* cancel" cannot happen.
THEOREM SubscriptionsRegistered == Spec => []Registered
<1>1. IInv => Registered
    BY DEF IInv
<1> QED
    BY <1>1, PubsubInvariance, PTL

\* Nobody is a member of a queueSet before Subscribe or after cancel.
THEOREM MembersAreCurrent == Spec => []MembersCurrent
<1>1. IInv => MembersCurrent
    BY DEF IInv
<1> QED
    BY <1>1, PubsubInvariance, PTL

\* The channel of an event with subscriptions is open, with one exception: a cancel
\* removed the queueSet while another one was unlistening for it.
THEOREM ListensUnlessSetRemoved == Spec => []ListensUnlessRemoved
<1>1. IInv => ListensUnlessRemoved
    BY DEF IInv
<1> QED
    BY <1>1, PubsubInvariance, PTL

-----------------------------------------------------------------------------
(* Losses. *)

\* A reconnection is on its way to the subscriptions.
NilUnderWay == \E i \in 1..Len(notify) : notify[i] = "nil"

\* Subscribe and cancel lose nothing: a subscription that starts to listen has lost
\* nothing before.
LEMMA SubscribersLoseNothing ==
    ASSUME IInv, OwedLater, LossReported, NEW s \in Subs, Subscribe(s) \/ CancelStep(s)
    PROVE  OwedLater' /\ LossReported'
<1>1. UNCHANGED <<up, notify, owed>>
    BY DEF Subscribe, Join, Listen, ListenError, Leave, CancelStep, Cancel, Unlisten,
       CloseUnlistening, Remove, netVars
<1>2. removed => removed'
    BY DEF Subscribe, Join, Listen, ListenError, Leave, CancelStep, Cancel, Unlisten,
       CloseUnlistening, Remove
<1>3. PICK l \in {"joined", "active", "failing", "failed", "critical", "unlistening",
                  "unlistened", "removing", "gone"} :
          /\ pc' = [pc EXCEPT ![s] = l]
          /\ l = "active" => pc[s] = "joined"
          /\ l = "joined" => pc[s] = "new"
    BY DEF Subscribe, Join, Listen, ListenError, Leave, CancelStep, Cancel, Unlisten,
       CloseUnlistening, Remove, Goto, Waited
<1>4. pc \in [Subs -> {"new", "joined", "active", "failing", "failed", "critical",
                       "unlistening", "unlistened", "removing", "gone"}]
    BY DEF IInv, TypeOK
<1>5. OwedLater'
    BY <1>1, <1>3, <1>4 DEF OwedLater
<1>6. \A t \in Subs : pc'[t] = "active" /\ owed[t] => pc[t] = "active"
    BY <1>3, <1>4 DEF OwedLater
<1>7. LossReported'
    BY <1>1, <1>2, <1>6 DEF LossReported, Active
<1> QED
    BY <1>5, <1>7

\* The network loses messages only while the connection is down, and a reconnection
\* is under way to everybody until everybody knows.
LEMMA NetworkReports ==
    ASSUME IInv, OwedLater, LossReported, Network
    PROVE  OwedLater' /\ LossReported'
<1>0. UNCHANGED <<pc, removed, current, m, channel>>
    BY DEF Network, Publish, ListenReceive, RecordReconnect, Disconnect, Reconnect, setVars
<1>1. notify \in Seq({"msg", "nil"}) /\ owed \in [Subs -> BOOLEAN]
    BY DEF IInv, TypeOK
<1>2. Active \subseteq Members
    BY DEF IInv, Registered, Active, Members
<1>3. OwedLater'
    <2>1. \A s \in Subs : owed'[s] => owed[s] \/ s \in Active
        BY <1>1 DEF Network, Publish, ListenReceive, RecordReconnect, Disconnect, Reconnect, Owe
    <2> QED
        BY <1>0, <2>1 DEF OwedLater, Active
<1>4. LossReported'
    <2> SUFFICES ASSUME ~removed, NEW s \in Active, owed'[s]
                 PROVE  ~up' \/ NilUnderWay'
        BY <1>0 DEF LossReported, Active, NilUnderWay
    <2>0. s \in Subs /\ channel /\ (owed[s] => ~up \/ NilUnderWay)
        BY DEF IInv, ListensUnlessRemoved, LossReported, Active, NilUnderWay
    <2>1. CASE Publish
        <3>1. CASE up
            <4>1. notify' = Append(notify, "msg") /\ owed[s] /\ up' = up
                BY <2>0, <2>1, <3>1 DEF Publish
            <4>2. PICK i \in 1..Len(notify) : notify[i] = "nil"
                BY <2>0, <3>1, <4>1 DEF NilUnderWay
            <4>3. i \in 1..Len(notify') /\ notify'[i] = "nil"
                BY <1>1, <4>1, <4>2, AppendProperties
            <4> QED
                BY <4>3 DEF NilUnderWay
        <3>2. CASE ~up
            BY <2>1, <3>2 DEF Publish
        <3> QED
            BY <3>1, <3>2
    <2>2. CASE ListenReceive
        <3>1. owed[s] /\ notify' = Tail(notify) /\ up' = up /\ notify # <<>> /\ notify[1] = "msg"
            BY <1>1, <1>2, <2>0, <2>2 DEF ListenReceive, Owe
        <3>2. CASE up
            <4>1. PICK i \in 1..Len(notify) : notify[i] = "nil"
                BY <2>0, <3>1, <3>2 DEF NilUnderWay
            <4>2. i # 1 /\ i - 1 \in 1..Len(Tail(notify)) /\ Tail(notify)[i - 1] = notify[i]
                BY <1>1, <3>1, <4>1, HeadTailProperties
            <4> QED
                BY <3>1, <4>1, <4>2 DEF NilUnderWay
        <3>3. CASE ~up
            BY <3>1, <3>3
        <3> QED
            BY <3>2, <3>3
    <2>3. CASE RecordReconnect
        BY <1>2, <2>0, <2>3 DEF RecordReconnect
    <2>4. CASE Disconnect
        BY <2>4 DEF Disconnect
    <2>5. CASE Reconnect
        <3>1. notify' = Append(notify, "nil")
            BY <2>5 DEF Reconnect
        <3>2. Len(notify) + 1 \in 1..Len(notify') /\ notify'[Len(notify) + 1] = "nil"
            BY <1>1, <3>1, AppendProperties, LenProperties
        <3> QED
            BY <3>2 DEF NilUnderWay
    <2> QED
        BY <2>1, <2>2, <2>3, <2>4, <2>5 DEF Network
<1> QED
    BY <1>3, <1>4

\* Whoever has lost a message gets ErrDroppedMessages after the next reconnection, with
\* the same exception.
THEOREM LossesReported == Spec => []LossReported
<1>1. Init => OwedLater /\ LossReported
    <2>1. Init => \A s \in Subs : owed[s] = FALSE
        BY DEF Init
    <2> QED
        BY <2>1 DEF OwedLater, LossReported, Active
<1>2. IInv /\ OwedLater /\ LossReported /\ [Next]_vars => (OwedLater /\ LossReported)'
    <2> SUFFICES ASSUME IInv, OwedLater, LossReported, [Next]_vars
                 PROVE  OwedLater' /\ LossReported'
        OBVIOUS
    <2>1. CASE UNCHANGED vars
        BY <2>1 DEF vars, setVars, netVars, OwedLater, LossReported, Active
    <2> QED
        BY <2>1, SubscribersLoseNothing, NetworkReports DEF Next
<1> QED
    BY <1>1, <1>2, PubsubInvariance, PTL DEF Spec

\* A cancel that unlistens goes on to close(unlistening) and does not come back.
LEMMA CancelsGoOn ==
    ASSUME IInv, NEW s \in Subs, Subscribe(s) \/ CancelStep(s), NEW t \in Subs,
           pc[t] \in {"unlistening", "unlistened", "removing", "gone"}
    PROVE  pc'[t] \in {"unlistening", "unlistened", "removing", "gone"}
<1>1. pc \in [Subs -> {"new", "joined", "active", "failing", "failed", "critical",
                       "unlistening", "unlistened", "removing", "gone"}]
    BY DEF IInv, TypeOK
<1>2. CASE t # s
    <2>1. PICK l : Goto(s, l)
        BY DEF Subscribe, Join, Listen, ListenError, Leave, CancelStep, Cancel, Unlisten,
           CloseUnlistening, Remove
    <2> QED
        BY <1>1, <1>2, <2>1 DEF Goto
<1>3. CASE t = s
    <2>1. \/ pc[s] = "unlistening" /\ Goto(s, "unlistened")
          \/ pc[s] = "unlistened" /\ Goto(s, "removing")
          \/ pc[s] = "removing" /\ Goto(s, "gone")
        BY <1>3 DEF Subscribe, Join, Listen, ListenError, Leave, Waited, CancelStep, Cancel,
           Unlisten, CloseUnlistening, Remove
    <2> QED
        BY <1>1, <1>3, <2>1 DEF Goto
<1> QED
    BY <1>2, <1>3

\* Whoever is named as unlistening, in a queueSet or by a Subscribe, unlistens.
LEMMA WaitsStep ==
    ASSUME IInv, WaitsForCancel, [Next]_vars
    PROVE  WaitsForCancel'
<1> DEFINE Closing == {"unlistening", "unlistened", "removing", "gone"}
<1>1. /\ wait \in [Subs -> Subs \cup {None}]
      /\ unlistenInProgress \in [Subs -> Subs \cup {None}]
      /\ pc \in [Subs -> {"new", "joined", "active", "failing", "failed", "critical",
                          "unlistening", "unlistened", "removing", "gone"}]
    BY DEF IInv, TypeOK
<1>2. ASSUME NEW s \in Subs, Subscribe(s) \/ CancelStep(s)
      PROVE  WaitsForCancel'
    <2>1. \A t \in Subs : pc[t] \in Closing => pc'[t] \in Closing
        BY <1>2, CancelsGoOn
    <2>2. CASE UNCHANGED <<wait, unlistenInProgress>>
        BY <1>1, <2>1, <2>2 DEF WaitsForCancel
    <2>3. CASE Join(s)
        <3>1. PICK set \in Subs : wait' = [wait EXCEPT ![s] = unlistenInProgress[set]]
            BY <2>3 DEF Join, IInv, TypeOK
        <3>2. unlistenInProgress' = unlistenInProgress
            BY <2>3 DEF Join
        <3> QED
            BY <1>1, <2>1, <3>1, <3>2 DEF WaitsForCancel
    <2>4. CASE Cancel(s) /\ unlistenInProgress' # unlistenInProgress
        <3>1. /\ current \in Subs
              /\ unlistenInProgress' = [unlistenInProgress EXCEPT ![current] = s]
              /\ Goto(s, "unlistening") /\ wait' = wait
            BY <2>4 DEF Cancel, IInv, TypeOK
        <3>2. pc'[s] = "unlistening"
            BY <1>1, <3>1 DEF Goto
        <3> QED
            BY <1>1, <2>1, <3>1, <3>2 DEF WaitsForCancel
    <2>5. \/ Join(s)
          \/ Cancel(s) /\ unlistenInProgress' # unlistenInProgress
          \/ UNCHANGED <<wait, unlistenInProgress>>
        BY <1>2 DEF Subscribe, Listen, ListenError, Leave, CancelStep, Cancel, Unlisten,
           CloseUnlistening, Remove, setVars
    <2> QED
        BY <2>2, <2>3, <2>4, <2>5
<1>3. CASE Network \/ UNCHANGED vars
    <2>1. UNCHANGED <<pc, wait, unlistenInProgress>>
        BY <1>3 DEF Network, Publish, ListenReceive, RecordReconnect, Disconnect, Reconnect,
           vars, setVars
    <2> QED
        BY <2>1 DEF WaitsForCancel
<1> QED
    BY <1>2, <1>3 DEF Next

\* A Subscribe that waits for an Unlisten in progress waits for a goroutine that is about to
\* close the channel and waits for nobody itself: the safety part of SubscribeReturns.
THEOREM WaitersAreReleased == Spec => []WaitsForCancel
<1>1. Init => WaitsForCancel
    BY DEF Init, WaitsForCancel
<1>2. IInv /\ WaitsForCancel /\ [Next]_vars => WaitsForCancel'
    BY WaitsStep
<1> QED
    BY <1>1, <1>2, PubsubInvariance, PTL DEF Spec
=============================================================================
