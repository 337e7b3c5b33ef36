------------------------------ MODULE KeyCache ------------------------------
(***************************************************************************)
(* A cache of the keys of one feature (wirtuald/cryptokeys/cache.go):      *)
(* calls of SigningKey and VerifyingKey that look into it, one fetch at a  *)
(* time when they miss, and a timer that refreshes it.                     *)
(*                                                                         *)
(* A call that finds its key, or the cache closed, changes nothing: it is  *)
(* not an action.  What it returns is given by Outcome.                    *)
(***************************************************************************)
EXTENDS CryptoKeys

CONSTANTS
    Callers,
    RefreshInterval

ASSUME RefreshAssumption == RefreshInterval \in Nat \ {0}

Latest == 0    \* latestSequence, which is -1 in the code

VARIABLES
    cached,     \* the rows of the last fetch
    latest,     \* the sequence number of keys[latestSequence]; 0 if there is none
    readAt,     \* history: when they were read
    lastFetch,
    timer,      \* when refresher fires; 0 if it does not
    firedAt,    \* the time that refresh has read
    fetching, closed,
    pc,         \* of each caller, and of refresh
    wants,      \* the sequence number a caller asks for
    got,        \* what a fetch has read
    refreshFailed  \* history: a refresh of this cache has failed

cacheVars == <<cached, latest, readAt, lastFetch, timer, fetching, closed>>
procVars == <<firedAt, pc, wants, got, refreshFailed>>
vars == <<rotateVars, cacheVars, procVars>>

Refresh == "refresh"
Procs == Callers \cup {Refresh}

Nothing == [rows |-> <<>>, latest |-> 0, at |-> 0]

-----------------------------------------------------------------------------
(* What a call finds in rows. *)

Signers(rows, t) == {s \in 1..Len(rows) : CanSign(rows[s], t)}

\* Mutant: a key that does not sign yet counts, too.
AnyKey(rows, t) == Len(rows)

\* toKeyMap.  The rows come with the highest sequence number first, and as latest is
\* never assigned, every key that can sign replaces the one before.
ToKeyMapLatest(rows, t) ==
    IF Signers(rows, t) = {} THEN 0
    ELSE CHOOSE s \in Signers(rows, t) : \A u \in Signers(rows, t) : s <= u

\* cache.key.  Rows without a secret are not fetched.
HasKey(rows, lat, s, t) ==
    IF s = Latest THEN lat # 0 /\ CanSign(rows[lat], t)
    ELSE s \in 1..Len(rows) /\ rows[s].secret

\* checkKey.  The time may have passed since key was called.
CheckKey(rows, lat, s, t) ==
    IF s = Latest THEN CanSign(rows[lat], t) ELSE CanVerify(rows[s], t)

Outcome(rows, lat, s, t) ==
    CASE ~HasKey(rows, lat, s, t)   -> "ErrKeyNotFound"
      [] ~CheckKey(rows, lat, s, t) -> "ErrKeyInvalid"
      [] OTHER                      -> "key"

-----------------------------------------------------------------------------
\* newCache at time t.  Its fetch may fail, and is not counted in lastFetch.
NewCache(rows, t) ==
    [cached |-> rows, latest |-> ToKeyMapLatest(rows, t), timer |-> t + RefreshInterval]

Init ==
    /\ InitKeys
    /\ cached = <<>> /\ latest = 0 /\ timer = 1 + RefreshInterval
    /\ readAt = 1 /\ lastFetch = 0 /\ firedAt = 0
    /\ fetching = FALSE /\ closed = FALSE
    /\ pc = [p \in Procs |-> "idle"]
    /\ wants = [c \in Callers |-> Latest]
    /\ got = [p \in Procs |-> Nothing]
    /\ refreshFailed = FALSE

\* The process ends, and is started again.
Restart ==
    /\ \E rows \in {keys, <<>>} :
          LET new == NewCache(rows, now)
          IN  cached' = new.cached /\ latest' = new.latest /\ timer' = new.timer
    /\ readAt' = now /\ lastFetch' = 0 /\ firedAt' = 0
    /\ fetching' = FALSE /\ closed' = FALSE
    /\ pc' = [p \in Procs |-> "idle"]
    /\ wants' = [c \in Callers |-> Latest]
    /\ got' = [p \in Procs |-> Nothing]
    /\ refreshFailed' = FALSE

-----------------------------------------------------------------------------
(* cryptoKey. *)

\* fetching is set, and the lock released.
StartFetch(p) ==
    /\ fetching' = TRUE
    /\ pc' = [pc EXCEPT ![p] = "fetch"]

\* A miss waits for the fetch under way.
Miss(c) ==
    IF fetching
    THEN pc' = [pc EXCEPT ![c] = "wait"] /\ UNCHANGED fetching
    ELSE StartFetch(c)

Call(c, s) ==
    /\ pc[c] = "idle"
    /\ ~closed
    /\ ~HasKey(cached, latest, s, now)
    /\ Miss(c)
    /\ wants' = [wants EXCEPT ![c] = s]
    /\ UNCHANGED <<rotateVars, cached, latest, readAt, lastFetch, timer, closed, firedAt, got,
                   refreshFailed>>

\* A woken caller does not look for the key again: it waits, fetches, or finds the
\* cache closed.
Wake(c) ==
    /\ pc[c] = "woken"
    /\ IF closed
       THEN /\ pc' = [pc EXCEPT ![c] = "idle"]
            /\ wants' = [wants EXCEPT ![c] = Latest]
            /\ UNCHANGED fetching
       ELSE Miss(c) /\ UNCHANGED wants
    /\ UNCHANGED <<rotateVars, cached, latest, readAt, lastFetch, timer, closed, firedAt, got,
                   refreshFailed>>

\* cryptoKeys reads the keys.
Read(p) ==
    /\ pc[p] = "fetch"
    /\ got' = [got EXCEPT ![p] = [rows |-> keys, latest |-> ToKeyMapLatest(keys, now), at |-> now]]
    /\ pc' = [pc EXCEPT ![p] = "store"]
    /\ UNCHANGED <<rotateVars, cacheVars, firedAt, wants, refreshFailed>>

\* Mutant: only Close wakes those who wait.
NoBroadcast(p) == pc' = [pc EXCEPT ![p] = "idle"]

\* cond.Broadcast: those who wait are woken.
Broadcast(p) ==
    pc' = [q \in Procs |-> IF q = p THEN "idle"
                           ELSE IF pc[q] = "wait" THEN "woken" ELSE pc[q]]

\* The keys are stored, the timer is reset and the waiters are woken.
Store(p) ==
    /\ pc[p] = "store"
    /\ cached' = got[p].rows /\ latest' = got[p].latest /\ readAt' = got[p].at
    /\ lastFetch' = now
    /\ timer' = now + RefreshInterval
    /\ fetching' = FALSE
    /\ got' = [got EXCEPT ![p] = Nothing]
    /\ Broadcast(p)

\* The caller returns what it has fetched.
CallStore(c) ==
    /\ Store(c)
    /\ wants' = [wants EXCEPT ![c] = Latest]
    /\ UNCHANGED <<rotateVars, closed, firedAt, refreshFailed>>

\* The fetch of a caller fails: the deferred Unlock of the unlocked mutex ends the process.
CallFails(c) ==
    /\ pc[c] \in {"fetch", "store"}
    /\ Restart
    /\ UNCHANGED rotateVars

-----------------------------------------------------------------------------
(* refresh and Close. *)

\* The timer fires.
TimerFires ==
    /\ timer # 0 /\ timer <= now
    /\ pc[Refresh] = "idle"
    /\ timer' = 0
    /\ firedAt' = now
    /\ pc' = [pc EXCEPT ![Refresh] = "fired"]
    /\ UNCHANGED <<rotateVars, cached, latest, readAt, lastFetch, fetching, closed, wants, got,
                   refreshFailed>>

\* Mutant: a fetch under way is not looked at.
DoubleFetch == ~closed /\ firedAt >= lastFetch + RefreshInterval

\* refresh goes on, unless somebody is fetching or has just done so.
ShouldRefresh ==
    /\ ~closed
    /\ ~fetching
    /\ firedAt >= lastFetch + RefreshInterval

RefreshBegin ==
    /\ pc[Refresh] = "fired"
    /\ IF ShouldRefresh
       THEN StartFetch(Refresh)
       ELSE pc' = [pc EXCEPT ![Refresh] = "idle"] /\ UNCHANGED fetching
    /\ firedAt' = 0
    /\ UNCHANGED <<rotateVars, cached, latest, readAt, lastFetch, timer, closed, wants, got,
                   refreshFailed>>

RefreshStore ==
    /\ Store(Refresh)
    /\ UNCHANGED <<rotateVars, closed, firedAt, wants, refreshFailed>>

\* The fetch fails: refresh returns, and fetching stays set although nobody fetches.
RefreshFails ==
    /\ pc[Refresh] \in {"fetch", "store"}
    /\ pc' = [pc EXCEPT ![Refresh] = "idle"]
    /\ got' = [got EXCEPT ![Refresh] = Nothing]
    /\ refreshFailed' = TRUE
    /\ UNCHANGED <<rotateVars, cacheVars, firedAt, wants>>

Close ==
    /\ ~closed
    /\ closed' = TRUE
    /\ timer' = 0
    /\ pc' = [q \in Procs |-> IF pc[q] = "wait" THEN "woken" ELSE pc[q]]
    /\ UNCHANGED <<rotateVars, cached, latest, readAt, lastFetch, fetching, firedAt, wants, got,
                   refreshFailed>>

-----------------------------------------------------------------------------
Rotation == NextKeys /\ UNCHANGED <<cacheVars, procVars>>

CallStep(c) == Wake(c) \/ Read(c) \/ CallStore(c) \/ CallFails(c)

RefreshStep == TimerFires \/ RefreshBegin \/ Read(Refresh) \/ RefreshStore \/ RefreshFails

Next ==
    \/ Rotation \/ RefreshStep \/ Close
    \/ \E c \in Callers : CallStep(c) \/ \E s \in 0..Len(keys) : Call(c, s)

Spec == Init /\ [][Next]_vars

-----------------------------------------------------------------------------
(* Properties. *)

\* Type correctness of the table, the cache and its goroutines; latest names a row of the
\* cache.
TypeOK ==
    /\ KeysTypeOK
    /\ cached \in Seq(Row) /\ latest \in 0..Len(cached)
    /\ {readAt, lastFetch, timer, firedAt} \subseteq Nat
    /\ {fetching, closed, refreshFailed} \subseteq BOOLEAN
    /\ pc \in [Procs -> {"idle", "wait", "woken", "fetch", "store", "fired"}]
    /\ wants \in [Callers -> Nat]
    /\ got \in [Procs -> [rows : Seq(Row), latest : Nat, at : Nat]]

\* How long it takes at least from the rotation of a key to its end.
Margin == 3 * RotationInterval + Hour + TokenDuration

\* A cache that was read less than Margin ago uses no key that is deleted or past its
\* end in the table, whatever was rotated since.
FreshCacheIsSafe ==
    now < readAt + Margin =>
        \A s \in 1..Len(cached) : CanVerify(cached[s], now) => CanVerify(keys[s], now)

Fetchers == {p \in Procs : pc[p] \in {"fetch", "store"}}

\* There is one fetch at a time, so that no older keys overwrite newer ones, and
\* fetching is set while there is.
OneFetch ==
    /\ \A p, q \in Fetchers : p = q
    /\ Fetchers # {} => fetching
    /\ \A p \in Fetchers : pc[p] = "store" => readAt <= got[p].at

\* VerifyingKey fails only for a key that has ended or was deleted, although the cache may
\* be stale; and SigningKey only if there were no keys, or the key it has fetched has ended
\* since.
LiveKeysFound ==
    /\ \A s \in 1..Len(cached) :
          HasKey(cached, latest, s, now) /\ Outcome(cached, latest, s, now) # "key" =>
              ~CanVerify(keys[s], now)
    /\ \A c \in Callers : pc[c] = "store" =>
          LET g == got[c] IN
          Outcome(g.rows, g.latest, wants[c], now) # "key" =>
              IF wants[c] = Latest
              THEN g.rows = <<>> \/ \E s \in Signers(g.rows, g.at) : ~CanSign(g.rows[s], now)
              ELSE ~CanVerify(keys[wants[c]], now)

\* No wake-up is lost: while a caller waits, some other call or the refresh is fetching
\* and will wake it, also if others were woken and have fetched meanwhile; nobody waits
\* once the cache is closed.  The one exception is a refresh that has failed: it leaves
\* fetching set, and those who miss wait with nobody to wake them until Close.
NoLostWakeup ==
    \A c \in Callers : pc[c] = "wait" => ~closed /\ (Fetchers # {} \/ refreshFailed)

\* The strengthening for it: who waits has found fetching set, and it is set only while
\* somebody fetches, or since a refresh has failed.
WaitersSawFetch == \A c \in Callers : pc[c] = "wait" => fetching /\ ~closed

FetchingMeansFetcher == fetching => Fetchers # {} \/ refreshFailed

\* "Set old key's deletes_at to an hour + however long the token for this feature is
\* expected to be valid for.": a token that is signed now can be verified until it expires.
TokensOutlived ==
    Outcome(cached, latest, Latest, now) = "key" =>
        keys[latest].deletesAt = 0 \/ now + TokenDuration <= keys[latest].deletesAt
=============================================================================
