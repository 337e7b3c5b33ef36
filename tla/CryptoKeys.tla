----------------------------- MODULE CryptoKeys -----------------------------
(***************************************************************************)
(* The keys of one feature and their rotation (wirtuald/cryptokeys/        *)
(* rotate.go).  The rotators of all replicas look at the keys every        *)
(* RotationInterval, in a transaction that first waits for an advisory     *)
(* lock.  The transaction is REPEATABLE READ, and its snapshot is taken by *)
(* the statement that waits: what a rotator then reads may be stale, and   *)
(* its writes fail if they meet those of another one.                      *)
(*                                                                         *)
(* The position of a row in keys is its sequence number.  A time of 0 is   *)
(* the zero time or NULL.                                                  *)
(***************************************************************************)
EXTENDS Naturals, Sequences, FiniteSets, Functions

CONSTANTS
    Rotators,
    KeyDuration, TokenDuration, Hour, RotationInterval,
    MaxTime      \* bound on the time

ASSUME DurationAssumption ==
    /\ KeyDuration \in Nat /\ TokenDuration \in Nat /\ RotationInterval \in Nat
    /\ Hour \in Nat \ {0}
    /\ Hour <= KeyDuration
    /\ MaxTime \in Nat

VARIABLES
    now,    \* the time, the same for all replicas
    keys,   \* the table crypto_keys
    tx      \* of each rotator: {}, or the snapshot of its transaction

rotateVars == <<now, keys, tx>>

\* secret says that the key was not deleted: DeleteCryptoKey clears the secret only.
Row == [startsAt : Nat \ {0}, deletesAt : Nat, secret : BOOLEAN]

InitKeys ==
    /\ now = 1
    /\ keys = <<>>
    /\ tx = [r \in Rotators |-> {}]

-----------------------------------------------------------------------------
(* What may be done with a key at a time. *)

CanVerify(key, t) == key.secret /\ (key.deletesAt = 0 \/ t < key.deletesAt)

CanSign(key, t) == key.startsAt <= t /\ CanVerify(key, t)

ExpiresAt(key) == key.startsAt + KeyDuration

ShouldDeleteKey(key, t) == key.deletesAt # 0 /\ key.deletesAt <= t

ShouldRotateKey(key, t) == key.deletesAt = 0 /\ ExpiresAt(key) <= t + Hour

MinStartsAt(key, t) ==
    IF ExpiresAt(key) < t + 3 * RotationInterval THEN t + 3 * RotationInterval ELSE ExpiresAt(key)

\* Mutant: the old key ends when the new one starts.
DeletesAtStart(key, t) == MinStartsAt(key, t)

\* When a key that is rotated at t will be deleted.
DeletesAt(key, t) == MinStartsAt(key, t) + Hour + TokenDuration

NewKey(startsAt) == [startsAt |-> startsAt, deletesAt |-> 0, secret |-> TRUE]

-----------------------------------------------------------------------------
(* rotateKeys: which rows of a snapshot it deletes and rotates, and which count as valid. *)

Live(snap) == {s \in 1..Len(snap) : snap[s].secret}

Deleted(snap) == {s \in Live(snap) : ShouldDeleteKey(snap[s], now)}

Rotated(snap) == {s \in Live(snap) \ Deleted(snap) : ShouldRotateKey(snap[s], now)}

Valid(snap) == {s \in Live(snap) \ Deleted(snap) : snap[s].deletesAt = 0}

\* Mutant: a row that was changed meanwhile is overwritten.
NoConflict(snap, n) == FALSE

\* Postgres refuses to update a row that has changed since the snapshot, and to insert
\* a sequence number that exists.
Conflict(snap, n) ==
    \/ \E s \in Deleted(snap) \cup Rotated(snap) : keys[s] # snap[s]
    \/ n > 0 /\ Len(keys) > Len(snap)

\* Row s after DeleteCryptoKey or UpdateCryptoKeyDeletesAt, if it meets one.
Rewritten(snap, s) ==
    IF s \in Deleted(snap) THEN [keys[s] EXCEPT !.secret = FALSE]
    ELSE IF s \in Rotated(snap) THEN [keys[s] EXCEPT !.deletesAt = DeletesAt(snap[s], now)]
    ELSE keys[s]

\* The rows after the transaction, with the new ones appended.
Updated(snap, fresh) ==
    [s \in 1..Len(keys) + Len(fresh) |->
        IF s <= Len(keys) THEN Rewritten(snap, s) ELSE fresh[s - Len(keys)]]

\* Mutant: a new key is only inserted if no key is left.
InsertIfNone(snap, order) ==
    IF Live(snap) = {} THEN <<NewKey(now)>> ELSE <<>>

\* insertNewKey, for every rotated key, or if no key is valid.
Inserted(snap, order) ==
    IF Valid(snap) = {}
    THEN <<NewKey(now)>>
    ELSE [i \in DOMAIN order |-> NewKey(MinStartsAt(snap[order[i]], now))]

-----------------------------------------------------------------------------
Tick ==
    /\ now < MaxTime
    /\ now' = now + 1
    /\ UNCHANGED <<keys, tx>>

\* The transaction begins, and waits for the lock.
BeginRotate(r) ==
    /\ tx[r] = {}
    /\ tx' = [tx EXCEPT ![r] = {keys}]
    /\ UNCHANGED <<now, keys>>

\* It has the lock, and commits or is refused.
CommitRotate(r) ==
    /\ \E snap \in tx[r] :
          \E order \in Bijection(1..Cardinality(Rotated(snap)), Rotated(snap)) :
              LET fresh == Inserted(snap, order)
              IN  keys' = IF Conflict(snap, Len(fresh)) THEN keys ELSE Updated(snap, fresh)
    /\ tx' = [tx EXCEPT ![r] = {}]
    /\ UNCHANGED now

\* The database fails, or the replica dies.
AbortRotate(r) ==
    /\ tx[r] # {}
    /\ tx' = [tx EXCEPT ![r] = {}]
    /\ UNCHANGED <<now, keys>>

NextKeys == Tick \/ \E r \in Rotators : BeginRotate(r) \/ CommitRotate(r) \/ AbortRotate(r)

-----------------------------------------------------------------------------
(* Properties. *)

\* Type correctness of the table and the transactions.
KeysTypeOK ==
    /\ now \in Nat \ {0}
    /\ keys \in Seq(Row)
    /\ tx \in [Rotators -> SUBSET Seq(Row)]

\* A key is replaced once: only the youngest has no end, also if two replicas have
\* found at the same time that it must be rotated.
OneUnrotated ==
    \A s \in 1..Len(keys) : keys[s].deletesAt = 0 <=> s = Len(keys)

\* There is a key to sign with at any time, however late the rotators are.
AlwaysSignable ==
    keys # <<>> => \E s \in 1..Len(keys) : CanSign(keys[s], now)
=============================================================================
