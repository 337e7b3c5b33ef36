--------------------------- MODULE KeyCacheProofs ---------------------------
(***************************************************************************)
(* Proofs about the rotation of keys and about a cache of them, for any    *)
(* number of rotators and callers and for all durations.                   *)
(***************************************************************************)
EXTENDS KeyCache, FiniteSetTheorems, SequenceTheorems, WellFoundedInduction, TLAPS

USE DurationAssumption, RefreshAssumption

-----------------------------------------------------------------------------
(* The inductive invariant. *)

\* What is true of the rows k at time t: only the last has no end, each other one ends
\* after its successor has started, only what has ended is deleted, and the last or the
\* one before it has started.
ChainAt(k, t) ==
    /\ k \in Seq(Row)
    /\ \A s \in 1..Len(k) : k[s].deletesAt = 0 <=> s = Len(k)
    /\ \A s \in 1..Len(k) : s < Len(k) =>
          k[s].deletesAt = k[s + 1].startsAt + Hour + TokenDuration
    /\ \A s \in 1..Len(k) : ~k[s].secret => k[s].deletesAt # 0 /\ k[s].deletesAt <= t
    /\ k # <<>> => \/ k[Len(k)].startsAt <= t
                   \/ Len(k) > 1 /\ k[Len(k) - 1].startsAt <= t

\* The rows were read at time at from the table that has the rows k by now: a row has
\* either not been rotated since, or ends a Margin after it was read.
SeenAs(rows, k, at) ==
    /\ Len(rows) <= Len(k)
    /\ \A s \in 1..Len(rows) :
          /\ rows[s].startsAt = k[s].startsAt
          /\ \/ rows[s].deletesAt = k[s].deletesAt
             \/ rows[s].deletesAt = 0 /\ k[s].deletesAt >= at + Margin

KeysInv ==
    /\ now \in Nat \ {0}
    /\ tx \in [Rotators -> SUBSET Seq(Row)]
    /\ ChainAt(keys, now)
    /\ \A r \in Rotators : \A snap \in tx[r] : ChainAt(snap, now) /\ SeenAs(snap, keys, 0)

-----------------------------------------------------------------------------
(* Rotation. *)

\* Time does no harm to the rows.
LEMMA ChainLater ==
    ASSUME NEW k, NEW t \in Nat, NEW u \in Nat, t <= u, ChainAt(k, t)
    PROVE  ChainAt(k, u)
<1>1. k # <<>> => Len(k) \in 1..Len(k) /\ k[Len(k)] \in Row
    BY LenProperties, EmptySeq DEF ChainAt
<1>2. Len(k) > 1 => Len(k) - 1 \in 1..Len(k) /\ k[Len(k) - 1] \in Row
    BY LenProperties DEF ChainAt
<1>3. \A s \in 1..Len(k) : k[s] \in Row
    BY DEF ChainAt
<1>4. \A s \in 1..Len(k) : ~k[s].secret => k[s].deletesAt # 0 /\ k[s].deletesAt <= u
    BY <1>3 DEF ChainAt, Row
<1>5. k # <<>> => \/ k[Len(k)].startsAt <= u
                  \/ Len(k) > 1 /\ k[Len(k) - 1].startsAt <= u
    BY <1>1, <1>2 DEF ChainAt, Row
<1> QED
    BY <1>4, <1>5 DEF ChainAt

\* Functions on 1..n are sequences.
LEMMA SequencesOf ==
    ASSUME NEW S, NEW n \in Nat, NEW f \in [1..n -> S]
    PROVE  f \in Seq(S) /\ Len(f) = n
BY SeqDef, LenProperties

\* Rows keep what is not assigned.
LEMMA RowExcept ==
    ASSUME NEW k \in Row, NEW d \in Nat
    PROVE  LET x == [k EXCEPT !.secret = FALSE]
               y == [k EXCEPT !.deletesAt = d]
           IN  /\ x \in Row /\ x.startsAt = k.startsAt /\ x.deletesAt = k.deletesAt /\ ~x.secret
               /\ y \in Row /\ y.startsAt = k.startsAt /\ y.deletesAt = d
               /\ y.secret = k.secret
BY DEF Row

\* What a transaction that commits does to the table: it inserts the first key, or it
\* deletes keys that have ended, and may rotate the last one.
Deleting(k, l) ==
    /\ l \in Row
    /\ l.startsAt = k.startsAt
    /\ l.deletesAt = k.deletesAt
    /\ ~l.secret => ~k.secret \/ (k.deletesAt # 0 /\ k.deletesAt <= now)

LEMMA DeletingRow ==
    ASSUME NEW k \in Row
    PROVE  /\ Deleting(k, k)
           /\ k.deletesAt # 0 /\ k.deletesAt <= now => Deleting(k, [k EXCEPT !.secret = FALSE])
<1>1. Deleting(k, k)
    BY DEF Deleting
<1>2. /\ [k EXCEPT !.secret = FALSE] \in Row
      /\ [k EXCEPT !.secret = FALSE].startsAt = k.startsAt
      /\ [k EXCEPT !.secret = FALSE].deletesAt = k.deletesAt
      /\ ~[k EXCEPT !.secret = FALSE].secret
    BY RowExcept
<1> QED
    BY <1>1, <1>2, Zenon DEF Deleting

Deletes(old, new, n) == \A s \in 1..n : Deleting(old[s], new[s])

FirstKey(old, new) == old = <<>> /\ Len(new) = 1 /\ new[1] = NewKey(now)

DeletesOnly(old, new) == Len(new) = Len(old) /\ Deletes(old, new, Len(old))

RotatesLast(old, new) ==
    LET n == Len(old) IN
    /\ n > 0
    /\ Len(new) = n + 1
    /\ Deletes(old, new, n - 1)
    /\ ShouldRotateKey(old[n], now)
    /\ new[n] = [old[n] EXCEPT !.deletesAt = DeletesAt(old[n], now)]
    /\ new[n + 1] = NewKey(MinStartsAt(old[n], now))

\* The last key of a snapshot is the only one that may be rotated.
LEMMA RotatedIsLast ==
    ASSUME NEW snap, ChainAt(snap, now), now \in Nat
    PROVE  /\ snap = <<>> => Rotated(snap) = {} /\ Valid(snap) = {} /\ Deleted(snap) = {}
           /\ snap # <<>> => /\ Len(snap) \in Valid(snap) /\ Len(snap) \notin Deleted(snap)
                             /\ Rotated(snap) = IF ShouldRotateKey(snap[Len(snap)], now)
                                                THEN {Len(snap)} ELSE {}
<1>1. CASE snap = <<>>
    BY <1>1 DEF Rotated, Valid, Deleted, Live
<1>2. CASE snap # <<>>
    <2>1. Len(snap) \in 1..Len(snap)
        BY <1>2, LenProperties, EmptySeq DEF ChainAt
    <2>2. snap[Len(snap)].deletesAt = 0 /\ snap[Len(snap)].secret
        BY <2>1 DEF ChainAt
    <2>3. Len(snap) \in Live(snap) \ Deleted(snap)
        BY <2>1, <2>2 DEF Live, Deleted, ShouldDeleteKey
    <2>4. \A s \in 1..Len(snap) : ShouldRotateKey(snap[s], now) => s = Len(snap)
        BY DEF ShouldRotateKey, ChainAt
    <2>5. \A s \in Rotated(snap) : s = Len(snap) /\ ShouldRotateKey(snap[s], now)
        BY <2>4 DEF Rotated, Live
    <2>6. ShouldRotateKey(snap[Len(snap)], now) => Len(snap) \in Rotated(snap)
        BY <2>3 DEF Rotated
    <2>7. Rotated(snap) = IF ShouldRotateKey(snap[Len(snap)], now) THEN {Len(snap)} ELSE {}
        <3>1. CASE ShouldRotateKey(snap[Len(snap)], now)
            BY <2>5, <2>6, <3>1
        <3>2. CASE ~ShouldRotateKey(snap[Len(snap)], now)
            BY <2>5, <3>2
        <3> QED
            BY <3>1, <3>2
    <2> QED
        BY <1>2, <2>2, <2>3, <2>7 DEF Valid
<1> QED
    BY <1>1, <1>2

\* A transaction that is not refused does one of the three things.
LEMMA CommitCases ==
    ASSUME now \in Nat \ {0}, ChainAt(keys, now),
           NEW snap, ChainAt(snap, now), SeenAs(snap, keys, 0),
           NEW order \in Bijection(1..Cardinality(Rotated(snap)), Rotated(snap)),
           ~Conflict(snap, Len(Inserted(snap, order)))
    PROVE  LET new == Updated(snap, Inserted(snap, order)) IN
           /\ new \in Seq(Row)
           /\ FirstKey(keys, new) \/ DeletesOnly(keys, new) \/ RotatesLast(keys, new)
<1> DEFINE fresh == Inserted(snap, order)
           new == Updated(snap, fresh)
<1>1. /\ Len(snap) \in Nat /\ Len(keys) \in Nat /\ Len(snap) <= Len(keys)
      /\ \A s \in 1..Len(keys) : keys[s] \in Row
      /\ \A s \in 1..Len(snap) : snap[s] \in Row /\ s \in 1..Len(keys)
    BY LenProperties DEF ChainAt, SeenAs
<1>2. \A s \in Deleted(snap) : /\ s \in 1..Len(keys) /\ keys[s] = snap[s]
                               /\ keys[s].deletesAt # 0 /\ keys[s].deletesAt <= now
    BY <1>1 DEF Conflict, Deleted, Live, ShouldDeleteKey
<1>3. \A t \in Nat : t > 0 => NewKey(t) \in Row
    BY DEF NewKey, Row
<1>4. CASE snap = <<>>
    <2>1. fresh = <<NewKey(now)>> /\ Len(fresh) = 1 /\ fresh[1] = NewKey(now)
        BY <1>4, RotatedIsLast DEF Inserted
    <2>2. Len(keys) = 0
        BY <1>1, <1>4, <2>1 DEF Conflict
    <2>3. keys = <<>>
        BY <2>2, EmptySeq DEF ChainAt
    <2>4. new = [s \in 1..1 |-> fresh[s]]
        BY <2>1, <2>2 DEF Updated
    <2>5. new \in [1..1 -> Row] /\ new[1] = NewKey(now)
        BY <1>3, <2>1, <2>4
    <2>6. new \in Seq(Row) /\ Len(new) = 1
        BY <2>5, SequencesOf
    <2> QED
        BY <2>3, <2>5, <2>6 DEF FirstKey
<1>5. ASSUME snap # <<>>, ~ShouldRotateKey(snap[Len(snap)], now)
      PROVE  new \in Seq(Row) /\ DeletesOnly(keys, new)
    <2>1. Rotated(snap) = {} /\ Valid(snap) # {}
        BY <1>5, RotatedIsLast
    <2>2. order \in [1..0 -> {}]
        BY <2>1, FS_EmptySet DEF Bijection, Injection
    <2>3. fresh = <<>> /\ Len(fresh) = 0
        <3>1. fresh = [i \in DOMAIN order |-> NewKey(MinStartsAt(snap[order[i]], now))]
            BY <2>1 DEF Inserted
        <3>2. DOMAIN order = 1..0
            BY <2>2
        <3> QED
            BY <3>1, <3>2
    <2>4. new = [s \in 1..Len(keys) |-> Rewritten(snap, s)]
        BY <1>1, <2>3 DEF Updated
    <2>5. \A s \in 1..Len(keys) : Rewritten(snap, s) =
              IF s \in Deleted(snap) THEN [keys[s] EXCEPT !.secret = FALSE] ELSE keys[s]
        BY <2>1 DEF Rewritten
    <2>6. Deletes(keys, new, Len(keys))
        <3> SUFFICES ASSUME NEW s \in 1..Len(keys)
                     PROVE  Deleting(keys[s], new[s])
            BY DEF Deletes
        <3>1. keys[s] \in Row /\ new[s] = Rewritten(snap, s)
            BY <1>1, <2>4
        <3>2. CASE s \in Deleted(snap)
            <4>1. new[s] = [keys[s] EXCEPT !.secret = FALSE]
                BY <2>5, <3>1, <3>2
            <4> QED
                BY <1>2, <3>1, <3>2, <4>1, DeletingRow
        <3>3. CASE s \notin Deleted(snap)
            <4>1. new[s] = keys[s]
                BY <2>5, <3>1, <3>3
            <4> QED
                BY <3>1, <4>1, DeletingRow
        <3> QED
            BY <3>2, <3>3
    <2>7. new \in [1..Len(keys) -> Row]
        BY <2>4, <2>6 DEF Deletes, Deleting
    <2>8. new \in Seq(Row) /\ Len(new) = Len(keys)
        BY <1>1, <2>7, SequencesOf
    <2> QED
        BY <2>6, <2>8 DEF DeletesOnly
<1>6. ASSUME snap # <<>>, ShouldRotateKey(snap[Len(snap)], now)
      PROVE  new \in Seq(Row) /\ RotatesLast(keys, new)
    <2> DEFINE n == Len(snap)
    <2>1. /\ Rotated(snap) = {n} /\ n \in Valid(snap) /\ n \notin Deleted(snap)
          /\ n \in Nat \ {0}
        BY <1>6, RotatedIsLast, LenProperties, EmptySeq DEF ChainAt
    <2> HIDE DEF n
    <2>2. order \in [1..1 -> {n}]
        BY <2>1, FS_Singleton DEF Bijection, Injection
    <2>3. fresh = [i \in 1..1 |-> NewKey(MinStartsAt(snap[n], now))]
        <3>1. fresh = [i \in DOMAIN order |-> NewKey(MinStartsAt(snap[order[i]], now))]
            BY <2>1 DEF Inserted
        <3> QED
            BY <2>2, <3>1
    <2>4. Len(fresh) = 1 /\ fresh[1] = NewKey(MinStartsAt(snap[n], now))
        BY <2>3
    <2>5. n = Len(keys) /\ keys[n] = snap[n]
        BY <1>1, <2>1, <2>4 DEF Conflict, n
    <2>6. new = [s \in 1..n + 1 |-> IF s <= n THEN Rewritten(snap, s)
                                    ELSE NewKey(MinStartsAt(keys[n], now))]
        BY <2>1, <2>4, <2>5 DEF Updated
    <2>7. \A s \in 1..n - 1 : Rewritten(snap, s) =
              IF s \in Deleted(snap) THEN [keys[s] EXCEPT !.secret = FALSE] ELSE keys[s]
        BY <2>1 DEF Rewritten
    <2>8. Rewritten(snap, n) = [keys[n] EXCEPT !.deletesAt = DeletesAt(keys[n], now)]
        BY <2>1, <2>5 DEF Rewritten
    <2>9. Deletes(keys, new, n - 1)
        <3> SUFFICES ASSUME NEW s \in 1..n - 1
                     PROVE  Deleting(keys[s], new[s])
            BY DEF Deletes
        <3>1. keys[s] \in Row /\ new[s] = Rewritten(snap, s)
            BY <1>1, <2>1, <2>5, <2>6
        <3>2. CASE s \in Deleted(snap)
            <4>1. new[s] = [keys[s] EXCEPT !.secret = FALSE]
                BY <2>7, <3>1, <3>2
            <4> QED
                BY <1>2, <3>1, <3>2, <4>1, DeletingRow
        <3>3. CASE s \notin Deleted(snap)
            <4>1. new[s] = keys[s]
                BY <2>7, <3>1, <3>3
            <4> QED
                BY <3>1, <4>1, DeletingRow
        <3> QED
            BY <3>2, <3>3
    <2>10. /\ new[n] = [keys[n] EXCEPT !.deletesAt = DeletesAt(keys[n], now)]
           /\ new[n + 1] = NewKey(MinStartsAt(keys[n], now))
        BY <2>1, <2>6, <2>8
    <2>11. keys[n] \in Row
        BY <1>1, <2>1, <2>5
    <2>12. MinStartsAt(keys[n], now) \in Nat \ {0}
        BY <2>11 DEF MinStartsAt, ExpiresAt, Row
    <2>13. new[n] \in Row /\ new[n + 1] \in Row
        <3>1. DeletesAt(keys[n], now) \in Nat
            BY <2>12 DEF DeletesAt
        <3> QED
            <4>1. [keys[n] EXCEPT !.deletesAt = DeletesAt(keys[n], now)] \in Row
                BY <2>11, <3>1, RowExcept
            <4>2. NewKey(MinStartsAt(keys[n], now)) \in Row
                BY <1>3, <2>12
            <4> QED
                BY <2>10, <4>1, <4>2
    <2>14. new \in [1..n + 1 -> Row]
        <3>1. \A s \in 1..n + 1 : new[s] \in Row
            BY <2>1, <2>9, <2>13 DEF Deletes, Deleting
        <3> QED
            BY <2>6, <3>1
    <2>15. new \in Seq(Row) /\ Len(new) = n + 1
        BY <2>1, <2>14, SequencesOf
    <2> QED
        BY <1>6, <2>1, <2>5, <2>9, <2>10, <2>15 DEF RotatesLast, n
<1> QED
    BY <1>4, <1>5, <1>6

\* What a transaction does keeps the rows in order, and is seen by those who have read
\* them before.
LEMMA TableKept ==
    ASSUME now \in Nat \ {0}, ChainAt(keys, now), NEW new \in Seq(Row),
           FirstKey(keys, new) \/ DeletesOnly(keys, new) \/ RotatesLast(keys, new)
    PROVE  /\ ChainAt(new, now)
           /\ \A rows \in Seq(Row), at \in Nat :
                 at <= now /\ SeenAs(rows, keys, at) => SeenAs(rows, new, at)
<1>1. /\ Len(keys) \in Nat /\ Len(new) \in Nat
      /\ \A s \in 1..Len(keys) : keys[s] \in Row
      /\ \A s \in 1..Len(new) : new[s] \in Row
      /\ keys = <<>> <=> Len(keys) = 0
      /\ new = <<>> <=> Len(new) = 0
    BY LenProperties, EmptySeq, ElementOfSeq DEF ChainAt
<1>2. CASE FirstKey(keys, new)
    <2>1. new[1].deletesAt = 0 /\ new[1].startsAt = now /\ new[1].secret
        BY <1>2 DEF FirstKey, NewKey
    <2>2. ChainAt(new, now)
        BY <1>2, <2>1 DEF FirstKey, ChainAt
    <2>3. \A rows \in Seq(Row), at \in Nat : SeenAs(rows, keys, at) => SeenAs(rows, new, at)
        BY <1>1, <1>2, LenProperties DEF FirstKey, SeenAs
    <2> QED
        BY <2>2, <2>3
<1>3. CASE DeletesOnly(keys, new)
    <2>1. \A s \in 1..Len(keys) : Deleting(keys[s], new[s])
        BY <1>3 DEF DeletesOnly, Deletes
    <2>2. Len(new) = Len(keys)
        BY <1>3 DEF DeletesOnly
    <2>3. \A s \in 1..Len(new) : new[s].deletesAt = 0 <=> s = Len(new)
        BY <2>1, <2>2 DEF Deleting, ChainAt
    <2>4. \A s \in 1..Len(new) : s < Len(new) =>
              new[s].deletesAt = new[s + 1].startsAt + Hour + TokenDuration
        <3> SUFFICES ASSUME NEW s \in 1..Len(new), s < Len(new)
                     PROVE  new[s].deletesAt = new[s + 1].startsAt + Hour + TokenDuration
            OBVIOUS
        <3>1. s \in 1..Len(keys) /\ s + 1 \in 1..Len(keys)
            BY <1>1, <2>2
        <3> QED
            BY <2>1, <2>2, <3>1 DEF Deleting, ChainAt
    <2>5. \A s \in 1..Len(new) : ~new[s].secret => new[s].deletesAt # 0 /\ new[s].deletesAt <= now
        BY <2>1, <2>2 DEF Deleting, ChainAt
    <2>6. new # <<>> => \/ new[Len(new)].startsAt <= now
                        \/ Len(new) > 1 /\ new[Len(new) - 1].startsAt <= now
        BY <1>1, <2>1, <2>2 DEF Deleting, ChainAt
    <2>7. \A rows \in Seq(Row), at \in Nat : SeenAs(rows, keys, at) => SeenAs(rows, new, at)
        <3> SUFFICES ASSUME NEW rows \in Seq(Row), NEW at \in Nat, SeenAs(rows, keys, at),
                            NEW s \in 1..Len(rows)
                     PROVE  /\ s \in 1..Len(keys)
                            /\ rows[s].startsAt = new[s].startsAt
                            /\ \/ rows[s].deletesAt = new[s].deletesAt
                               \/ rows[s].deletesAt = 0 /\ new[s].deletesAt >= at + Margin
            BY <2>2 DEF SeenAs
        <3>1. s \in 1..Len(keys)
            BY <1>1, LenProperties DEF SeenAs
        <3> QED
            BY <2>1, <3>1 DEF SeenAs, Deleting
    <2> QED
        BY <2>3, <2>4, <2>5, <2>6, <2>7 DEF ChainAt
<1>4. CASE RotatesLast(keys, new)
    <2> DEFINE n == Len(keys)
    <2>1. /\ n \in Nat \ {0} /\ Len(new) = n + 1
          /\ \A s \in 1..n - 1 : Deleting(keys[s], new[s])
          /\ ShouldRotateKey(keys[n], now)
          /\ new[n] = [keys[n] EXCEPT !.deletesAt = DeletesAt(keys[n], now)]
          /\ new[n + 1] = NewKey(MinStartsAt(keys[n], now))
        BY <1>1, <1>4 DEF RotatesLast, Deletes
    <2>2. keys[n] \in Row /\ keys[n].deletesAt = 0 /\ keys[n].secret
        BY <1>1, <2>1 DEF ChainAt
    <2> HIDE DEF n
    <2>3. MinStartsAt(keys[n], now) \in Nat /\ MinStartsAt(keys[n], now) >= now + 3 * RotationInterval
        BY <2>2 DEF MinStartsAt, ExpiresAt, Row
    <2>4. DeletesAt(keys[n], now) \in Nat /\ DeletesAt(keys[n], now) >= now + Margin
          /\ DeletesAt(keys[n], now) # 0
        BY <2>3 DEF DeletesAt, Margin
    <2>5. /\ new[n].startsAt = keys[n].startsAt /\ new[n].secret
          /\ new[n].deletesAt = DeletesAt(keys[n], now)
        BY <2>1, <2>2, <2>4, RowExcept
    <2>6. /\ new[n + 1].startsAt = MinStartsAt(keys[n], now)
          /\ new[n + 1].deletesAt = 0 /\ new[n + 1].secret
        BY <2>1 DEF NewKey
    <2>7. keys[n].startsAt <= now
        BY <2>1, <2>2 DEF ShouldRotateKey, ExpiresAt, Row
    <2>8. \A s \in 1..n : new[s].startsAt = keys[s].startsAt
        <3>1. \A s \in 1..n : s \in 1..n - 1 \/ s = n
            BY <2>1
        <3> QED
            BY <2>1, <2>5, <3>1 DEF Deleting
    <2>9. \A s \in 1..Len(new) : new[s].deletesAt = 0 <=> s = Len(new)
        <3> SUFFICES ASSUME NEW s \in 1..Len(new)
                     PROVE  new[s].deletesAt = 0 <=> s = Len(new)
            OBVIOUS
        <3>1. CASE s \in 1..n - 1
            <4>1. keys[s].deletesAt # 0
                BY <2>1, <3>1 DEF ChainAt, n
            <4> QED
                BY <2>1, <3>1, <4>1 DEF Deleting
        <3>2. s \in 1..n - 1 \/ s = n \/ s = n + 1
            BY <2>1
        <3> QED
            BY <2>1, <2>4, <2>5, <2>6, <3>1, <3>2
    <2>10. \A s \in 1..Len(new) : s < Len(new) =>
              new[s].deletesAt = new[s + 1].startsAt + Hour + TokenDuration
        <3> SUFFICES ASSUME NEW s \in 1..Len(new), s < Len(new)
                     PROVE  new[s].deletesAt = new[s + 1].startsAt + Hour + TokenDuration
            OBVIOUS
        <3>1. CASE s \in 1..n - 1
            <4>1. s \in 1..Len(keys) /\ s < Len(keys) /\ s + 1 \in 1..n
                BY <2>1, <3>1 DEF n
            <4>2. keys[s].deletesAt = keys[s + 1].startsAt + Hour + TokenDuration
                BY <4>1 DEF ChainAt
            <4> QED
                BY <2>1, <2>8, <3>1, <4>1, <4>2 DEF Deleting
        <3>2. CASE s = n
            BY <2>5, <2>6, <3>2 DEF DeletesAt
        <3>3. s \in 1..n - 1 \/ s = n
            BY <2>1
        <3> QED
            BY <3>1, <3>2, <3>3
    <2>11. \A s \in 1..Len(new) : ~new[s].secret => new[s].deletesAt # 0 /\ new[s].deletesAt <= now
        <3> SUFFICES ASSUME NEW s \in 1..Len(new), ~new[s].secret
                     PROVE  new[s].deletesAt # 0 /\ new[s].deletesAt <= now
            OBVIOUS
        <3>1. s \in 1..n - 1
            <4>1. s \in 1..n - 1 \/ s = n \/ s = n + 1
                BY <2>1
            <4> QED
                BY <2>5, <2>6, <4>1, Zenon
        <3>2. s \in 1..Len(keys)
            BY <2>1, <3>1 DEF n
        <3> QED
            BY <2>1, <3>1, <3>2 DEF Deleting, ChainAt
    <2>12. new # <<>> => \/ new[Len(new)].startsAt <= now
                         \/ Len(new) > 1 /\ new[Len(new) - 1].startsAt <= now
        <3>1. Len(new) > 1 /\ Len(new) - 1 = n
            BY <2>1
        <3> QED
            BY <2>5, <2>7, <3>1
    <2>13. \A rows \in Seq(Row), at \in Nat :
              at <= now /\ SeenAs(rows, keys, at) => SeenAs(rows, new, at)
        <3> SUFFICES ASSUME NEW rows \in Seq(Row), NEW at \in Nat, SeenAs(rows, keys, at),
                            at <= now
                     PROVE  SeenAs(rows, new, at)
            OBVIOUS
        <3>1. Len(rows) \in Nat /\ Len(rows) <= n
            BY LenProperties DEF SeenAs, n
        <3> SUFFICES ASSUME NEW s \in 1..Len(rows)
                     PROVE  \/ rows[s].deletesAt = new[s].deletesAt
                            \/ rows[s].deletesAt = 0 /\ new[s].deletesAt >= at + Margin
            BY <2>1, <2>8, <3>1 DEF SeenAs
        <3>2. CASE s \in 1..n - 1
            BY <2>1, <3>2 DEF SeenAs, Deleting
        <3>3. CASE s = n
            <4>1. Margin \in Nat /\ at + Margin <= now + Margin
                BY DEF Margin
            <4>2. rows[s].deletesAt = 0
                <5>1. \/ rows[s].deletesAt = keys[s].deletesAt
                      \/ rows[s].deletesAt = 0
                    BY DEF SeenAs
                <5> QED
                    BY <2>2, <3>3, <5>1
            <4> QED
                BY <2>4, <2>5, <3>3, <4>1, <4>2
        <3>4. s \in 1..n - 1 \/ s = n
            BY <2>1, <3>1
        <3> QED
            BY <3>2, <3>3, <3>4
    <2> QED
        BY <2>9, <2>10, <2>11, <2>12, <2>13 DEF ChainAt
<1> QED
    BY <1>2, <1>3, <1>4

\* Rotators keep their part of the invariant, and what others have read of the table.
LEMMA RotationKeeps ==
    ASSUME KeysInv, [NextKeys]_rotateVars
    PROVE  /\ KeysInv'
           /\ now' >= now
           /\ \A rows \in Seq(Row), at \in Nat :
                 at <= now /\ SeenAs(rows, keys, at) => SeenAs(rows, keys', at)
<1>0. now \in Nat \ {0} /\ tx \in [Rotators -> SUBSET Seq(Row)]
    BY DEF KeysInv
<1>1. CASE UNCHANGED rotateVars
    BY <1>0, <1>1 DEF rotateVars, KeysInv, ChainAt
<1>2. CASE Tick
    <2>1. now' \in Nat \ {0} /\ now <= now' /\ UNCHANGED <<keys, tx>>
        BY <1>0, <1>2 DEF Tick
    <2>2. ChainAt(keys, now')
        BY <1>0, <2>1, ChainLater DEF KeysInv
    <2>3. \A r \in Rotators : \A snap \in tx[r] : ChainAt(snap, now') /\ SeenAs(snap, keys, 0)
        BY <1>0, <2>1, ChainLater DEF KeysInv
    <2> QED
        BY <1>0, <2>1, <2>2, <2>3 DEF KeysInv, ChainAt
<1>3. ASSUME NEW r \in Rotators, BeginRotate(r)
      PROVE  KeysInv' /\ UNCHANGED <<now, keys>>
    <2>1. UNCHANGED <<now, keys>> /\ tx' = [tx EXCEPT ![r] = {keys}]
        BY <1>3 DEF BeginRotate
    <2>2. keys \in Seq(Row) /\ SeenAs(keys, keys, 0)
        BY LenProperties DEF KeysInv, ChainAt, SeenAs
    <2> QED
        BY <1>0, <2>1, <2>2 DEF KeysInv, ChainAt
<1>4. ASSUME NEW r \in Rotators, AbortRotate(r)
      PROVE  KeysInv' /\ UNCHANGED <<now, keys>>
    BY <1>0, <1>4 DEF AbortRotate, KeysInv, ChainAt
<1>5. ASSUME NEW r \in Rotators, CommitRotate(r)
      PROVE  /\ KeysInv' /\ UNCHANGED now
             /\ \A rows \in Seq(Row), at \in Nat :
                   at <= now /\ SeenAs(rows, keys, at) => SeenAs(rows, keys', at)
    <2>1. PICK snap \in tx[r] :
            \E order \in Bijection(1..Cardinality(Rotated(snap)), Rotated(snap)) :
               keys' = IF Conflict(snap, Len(Inserted(snap, order))) THEN keys
                       ELSE Updated(snap, Inserted(snap, order))
        BY <1>5 DEF CommitRotate
    <2>2. PICK order \in Bijection(1..Cardinality(Rotated(snap)), Rotated(snap)) :
               keys' = IF Conflict(snap, Len(Inserted(snap, order))) THEN keys
                       ELSE Updated(snap, Inserted(snap, order))
        BY <2>1
    <2>3. ChainAt(snap, now) /\ SeenAs(snap, keys, 0) /\ ChainAt(keys, now)
        BY DEF KeysInv
    <2>4. tx' = [tx EXCEPT ![r] = {}] /\ UNCHANGED now
        BY <1>5 DEF CommitRotate
    <2>5. /\ ChainAt(keys', now)
          /\ \A rows \in Seq(Row), at \in Nat :
                at <= now /\ SeenAs(rows, keys, at) => SeenAs(rows, keys', at)
        <3>1. CASE Conflict(snap, Len(Inserted(snap, order)))
            BY <2>2, <2>3, <3>1
        <3>2. CASE ~Conflict(snap, Len(Inserted(snap, order)))
            <4> DEFINE new == Updated(snap, Inserted(snap, order))
            <4>1. /\ new \in Seq(Row)
                  /\ FirstKey(keys, new) \/ DeletesOnly(keys, new) \/ RotatesLast(keys, new)
                BY <1>0, <2>3, <3>2, CommitCases
            <4>2. keys' = new
                BY <2>2, <3>2
            <4> HIDE DEF new
            <4> QED
                BY <1>0, <2>3, <4>1, <4>2, TableKept
        <3> QED
            BY <3>1, <3>2
    <2>6. ASSUME NEW q \in Rotators, NEW other \in tx'[q]
          PROVE  ChainAt(other, now) /\ SeenAs(other, keys', 0)
        <3>1. other \in tx[q]
            BY <1>0, <2>4
        <3>2. other \in Seq(Row) /\ ChainAt(other, now) /\ SeenAs(other, keys, 0)
            BY <1>0, <3>1 DEF KeysInv
        <3> QED
            BY <1>0, <2>5, <3>2
    <2> QED
        BY <1>0, <2>4, <2>5, <2>6 DEF KeysInv
<1> QED
    BY <1>0, <1>1, <1>2, <1>3, <1>4, <1>5 DEF NextKeys, Tick

\* Any key that a rotator leaves last, or the one before it, signs.
LEMMA ChainSigns ==
    ASSUME NEW k, NEW t \in Nat, ChainAt(k, t), k # <<>>
    PROVE  \E s \in 1..Len(k) : CanSign(k[s], t)
<1>1. Len(k) \in Nat \ {0} /\ \A s \in 1..Len(k) : k[s] \in Row
    BY LenProperties, EmptySeq, ElementOfSeq DEF ChainAt
<1> DEFINE n == Len(k)
<1>2. CASE k[n].startsAt <= t
    <2>1. n \in 1..n /\ k[n].deletesAt = 0
        BY <1>1 DEF ChainAt
    <2>2. k[n].secret
        BY <2>1 DEF ChainAt
    <2> QED
        BY <1>2, <2>1, <2>2, Zenon DEF CanSign, CanVerify
<1>3. CASE n > 1 /\ k[n - 1].startsAt <= t /\ ~(k[n].startsAt <= t)
    <2>1. n \in 1..n /\ n - 1 \in 1..n /\ n - 1 < n /\ n - 1 + 1 = n
        BY <1>1, <1>3
    <2>2. k[n - 1].deletesAt = k[n].startsAt + Hour + TokenDuration
        BY <2>1 DEF ChainAt
    <2>3. t < k[n - 1].deletesAt
        BY <1>1, <1>3, <2>1, <2>2 DEF Row
    <2>4. k[n - 1].secret
        <3> SUFFICES ASSUME ~k[n - 1].secret
                     PROVE  FALSE
            OBVIOUS
        <3>1. k[n - 1].deletesAt <= t /\ k[n - 1].deletesAt \in Nat
            BY <1>1, <2>1 DEF ChainAt, Row
        <3> QED
            BY <2>3, <3>1
    <2> QED
        BY <1>3, <2>1, <2>3, <2>4, Zenon DEF CanSign, CanVerify
<1> QED
    BY <1>2, <1>3 DEF ChainAt

-----------------------------------------------------------------------------
(* The cache. *)

\* What the cache holds, or a fetch has got: the rows read at time at, and one that
\* signed then.
ViewOf(rows, lat, at) ==
    /\ at \in Nat /\ at <= now
    /\ ChainAt(rows, at)
    /\ SeenAs(rows, keys, at)
    /\ IF rows = <<>> THEN lat = 0 ELSE lat \in Signers(rows, at)

CacheTypes ==
    /\ lastFetch \in Nat /\ timer \in Nat /\ firedAt \in Nat
    /\ fetching \in BOOLEAN /\ closed \in BOOLEAN
    /\ pc \in [Procs -> {"idle", "wait", "woken", "fetch", "store", "fired"}]
    /\ wants \in [Callers -> Nat]
    /\ got \in [Procs -> [rows : Seq(Row), latest : Nat, at : Nat]]

Views ==
    /\ ViewOf(cached, latest, readAt)
    /\ \A p \in Procs : pc[p] = "store" =>
          ViewOf(got[p].rows, got[p].latest, got[p].at) /\ readAt <= got[p].at

\* A key that is asked for exists, and is in what was read for it.
Wanted ==
    \A c \in Callers : /\ wants[c] <= Len(keys)
                       /\ pc[c] = "store" => wants[c] <= Len(got[c].rows)

OneFetcher ==
    /\ \A p, q \in Procs : pc[p] \in {"fetch", "store"} /\ pc[q] \in {"fetch", "store"} => p = q
    /\ \A p \in Procs : pc[p] \in {"fetch", "store"} => fetching

IInv == KeysInv /\ CacheTypes /\ Views /\ Wanted /\ OneFetcher /\ WaitersSawFetch

\* toKeyMap finds a key that signs, if there is one.
LEMMA ToKeyMapFinds ==
    ASSUME NEW rows, NEW t \in Nat, ChainAt(rows, t)
    PROVE  /\ rows = <<>> => ToKeyMapLatest(rows, t) = 0
           /\ rows # <<>> => ToKeyMapLatest(rows, t) \in Signers(rows, t)
<1>1. CASE rows = <<>>
    BY <1>1 DEF ToKeyMapLatest, Signers
<1>2. CASE rows # <<>>
    <2>1. Signers(rows, t) # {} /\ Signers(rows, t) \subseteq Nat
        BY <1>2, ChainSigns DEF Signers
    <2>2. \E s \in Signers(rows, t) : \A u \in Signers(rows, t) : ~(<<u, s>> \in OpToRel(<, Nat))
        BY <2>1, WFMin, NatLessThanWellFounded
    <2>3. \A u, s \in Nat : u < s => <<u, s>> \in OpToRel(<, Nat)
        BY DEF OpToRel
    <2>4. \E s \in Signers(rows, t) : \A u \in Signers(rows, t) : s <= u
        <3>1. PICK s \in Signers(rows, t) :
                 \A u \in Signers(rows, t) : ~(<<u, s>> \in OpToRel(<, Nat))
            BY <2>2
        <3>2. \A u \in Signers(rows, t) : ~(u < s) /\ u \in Nat /\ s \in Nat
            BY <2>1, <2>3, <3>1
        <3>3. \A u \in Signers(rows, t) : s <= u
            BY <3>2
        <3> QED
            BY <3>3
    <2> QED
        BY <1>2, <2>1, <2>4 DEF ToKeyMapLatest
<1> QED
    BY <1>1, <1>2

\* A view of the table as it is.
LEMMA ViewNow ==
    ASSUME KeysInv
    PROVE  /\ ViewOf(keys, ToKeyMapLatest(keys, now), now)
           /\ ViewOf(<<>>, ToKeyMapLatest(<<>>, now), now)
<1>1. ChainAt(keys, now) /\ now \in Nat
    BY DEF KeysInv
<1>2. SeenAs(keys, keys, now)
    BY <1>1, LenProperties DEF ChainAt, SeenAs
<1>3. <<>> \in Seq(Row) /\ Len(<<>>) = 0 /\ Len(keys) \in Nat
    BY <1>1, LenProperties DEF ChainAt
<1>4. ChainAt(<<>>, now) /\ SeenAs(<<>>, keys, now)
    BY <1>3 DEF ChainAt, SeenAs
<1> QED
    BY <1>1, <1>2, <1>4, ToKeyMapFinds DEF ViewOf

\* A view stays one when keys are rotated.
LEMMA ViewLater ==
    ASSUME KeysInv, [NextKeys]_rotateVars, NEW rows, NEW lat, NEW at, ViewOf(rows, lat, at)
    PROVE  ViewOf(rows, lat, at)'
<1>1. at \in Nat /\ at <= now /\ rows \in Seq(Row) /\ now \in Nat
    BY DEF ViewOf, ChainAt, KeysInv
<1>2. SeenAs(rows, keys', at) /\ now' >= now /\ now' \in Nat
    BY <1>1, RotationKeeps DEF ViewOf, KeysInv
<1> QED
    BY <1>1, <1>2 DEF ViewOf

-----------------------------------------------------------------------------
(* Every step keeps the invariant. *)

\* The rotators and the time.
LEMMA RotationPreserves ==
    ASSUME IInv, [NextKeys]_rotateVars, UNCHANGED <<cacheVars, procVars>>
    PROVE  IInv'
<1>0. UNCHANGED <<cached, latest, readAt, lastFetch, timer, fetching, closed, firedAt, pc, wants, got>>
    BY DEF cacheVars, procVars
<1>1. KeysInv'
    BY RotationKeeps DEF IInv
<1>2. ViewOf(cached, latest, readAt)'
    BY <1>0, ViewLater DEF IInv, Views
<1>3. ASSUME NEW p \in Procs, pc[p] = "store"
      PROVE  ViewOf(got[p].rows, got[p].latest, got[p].at)'
    BY <1>0, <1>3, ViewLater DEF IInv, Views
<1>4. Views'
    BY <1>0, <1>2, <1>3 DEF IInv, Views
<1>5. Len(keys) \in Nat /\ Len(keys') \in Nat /\ Len(keys) <= Len(keys')
    <2>1. ViewOf(keys, ToKeyMapLatest(keys, now), now)
        BY ViewNow DEF IInv
    <2>2. SeenAs(keys, keys, now) /\ now \in Nat /\ keys \in Seq(Row) /\ keys' \in Seq(Row)
        BY <1>1, <2>1 DEF IInv, ViewOf, KeysInv, ChainAt
    <2>3. SeenAs(keys, keys', now)
        BY <2>2, RotationKeeps DEF IInv
    <2> QED
        BY <2>2, <2>3, LenProperties DEF SeenAs
<1>6. Wanted'
    BY <1>0, <1>5 DEF IInv, Wanted, CacheTypes
<1> QED
    BY <1>0, <1>1, <1>4, <1>6 DEF IInv, CacheTypes, OneFetcher, WaitersSawFetch

\* A step of the cache leaves the keys alone.
LEMMA KeysFrame ==
    ASSUME IInv, UNCHANGED rotateVars
    PROVE  KeysInv' /\ UNCHANGED <<now, keys, tx>> /\ Len(keys) \in Nat
BY RotationKeeps, LenProperties DEF IInv, rotateVars, KeysInv, ChainAt

\* So does a step that stores nothing, for what is cached or was got before.
LEMMA ViewsFrame ==
    ASSUME IInv, UNCHANGED <<rotateVars, cached, latest, readAt, got>>,
           \A p \in Procs : pc'[p] = "store" => pc[p] = "store"
    PROVE  Views'
<1>1. ViewOf(cached, latest, readAt)'
    BY ViewLater DEF IInv, Views
<1>2. ASSUME NEW p \in Procs, pc'[p] = "store"
      PROVE  ViewOf(got[p].rows, got[p].latest, got[p].at)' /\ readAt' <= got'[p].at
    BY <1>2, ViewLater DEF IInv, Views
<1> QED
    BY <1>1, <1>2 DEF Views

\* A call that misses, and a caller that was woken.
LEMMA MissPreserves ==
    ASSUME IInv, NEW c \in Callers, pc[c] \in {"idle", "woken"}, ~closed, Miss(c),
           UNCHANGED <<rotateVars, cached, latest, readAt, lastFetch, timer, closed, firedAt, got>>,
           NEW s \in Nat, s <= Len(keys), wants' = [wants EXCEPT ![c] = s]
    PROVE  IInv'
<1>1. KeysInv' /\ UNCHANGED <<now, keys, tx>> /\ Len(keys) \in Nat /\ c \in Procs
    BY KeysFrame DEF Procs
<1>2. \/ fetching /\ fetching' /\ pc' = [pc EXCEPT ![c] = "wait"] /\ fetching' = TRUE
      \/ ~fetching /\ fetching' /\ pc' = [pc EXCEPT ![c] = "fetch"] /\ fetching' = TRUE
    BY DEF IInv, CacheTypes, Miss, StartFetch
<1>3. CacheTypes'
    BY <1>1, <1>2 DEF IInv, CacheTypes
<1>4. Views'
    BY <1>1, <1>2, ViewsFrame DEF IInv, CacheTypes
<1>5. Wanted'
    BY <1>1, <1>2 DEF IInv, CacheTypes, Wanted, Procs
<1>6. OneFetcher'
    <2>1. CASE fetching
        BY <1>1, <1>2, <2>1 DEF IInv, CacheTypes, OneFetcher
    <2>2. CASE ~fetching
        <3>1. \A p \in Procs : pc[p] \notin {"fetch", "store"}
            BY <2>2 DEF IInv, OneFetcher
        <3>2. \A p \in Procs : pc'[p] \in {"fetch", "store"} => p = c
            BY <1>1, <1>2, <3>1 DEF IInv, CacheTypes
        <3> QED
            BY <1>2, <3>2 DEF OneFetcher
    <2> QED
        BY <2>1, <2>2
<1>7. WaitersSawFetch'
    BY <1>2 DEF WaitersSawFetch
<1> QED
    BY <1>1, <1>3, <1>4, <1>5, <1>6, <1>7 DEF IInv

LEMMA CallPreserves ==
    ASSUME IInv, NEW c \in Callers, NEW s \in 0..Len(keys), Call(c, s)
    PROVE  IInv'
<1>1. Len(keys) \in Nat
    BY LenProperties DEF IInv, KeysInv, ChainAt
<1>2. /\ pc[c] = "idle" /\ ~closed /\ Miss(c) /\ wants' = [wants EXCEPT ![c] = s]
      /\ UNCHANGED <<rotateVars, cached, latest, readAt, lastFetch, timer, closed, firedAt, got>>
    BY DEF Call
<1>3. s \in Nat /\ s <= Len(keys)
    BY <1>1
<1> QED
    BY <1>2, <1>3, MissPreserves

LEMMA WakePreserves ==
    ASSUME IInv, NEW c \in Callers, Wake(c)
    PROVE  IInv'
<1>0. pc[c] = "woken"
    BY DEF Wake
<1>1. CASE ~closed
    <2>1. Miss(c) /\ UNCHANGED wants
        BY <1>1 DEF Wake
    <2>2. wants[c] \in Nat /\ wants[c] <= Len(keys) /\ wants' = [wants EXCEPT ![c] = wants[c]]
        BY <1>0, <2>1 DEF IInv, CacheTypes, Wanted
    <2>3. UNCHANGED <<rotateVars, cached, latest, readAt, lastFetch, timer, closed, firedAt, got>>
        BY DEF Wake
    <2> HIDE DEF Wake
    <2> QED
        BY <1>0, <1>1, <2>1, <2>2, <2>3, MissPreserves
<1>2. CASE closed
    <2>1. /\ pc' = [pc EXCEPT ![c] = "idle"] /\ UNCHANGED fetching
          /\ wants' = [wants EXCEPT ![c] = Latest]
          /\ UNCHANGED <<rotateVars, cached, latest, readAt, lastFetch, timer, closed, firedAt, got>>
        BY <1>2 DEF Wake
    <2>2. KeysInv' /\ UNCHANGED <<now, keys, tx>> /\ Len(keys) \in Nat /\ c \in Procs
        BY <2>1, KeysFrame DEF Procs
    <2>3. CacheTypes'
        BY <2>1, <2>2 DEF IInv, CacheTypes, Latest
    <2>4. Views'
        BY <2>1, <2>2, ViewsFrame DEF IInv, CacheTypes
    <2>5. Wanted'
        BY <2>1, <2>2 DEF IInv, CacheTypes, Wanted, Procs, Latest
    <2>6. OneFetcher' /\ WaitersSawFetch'
        BY <2>1, <2>2 DEF IInv, CacheTypes, OneFetcher, WaitersSawFetch, Procs
    <2> QED
        BY <2>2, <2>3, <2>4, <2>5, <2>6 DEF IInv
<1> QED
    BY <1>1, <1>2

\* A fetch reads the keys.
LEMMA ReadPreserves ==
    ASSUME IInv, NEW p \in Procs, Read(p)
    PROVE  IInv'
<1> DEFINE lat == ToKeyMapLatest(keys, now)
           view == [rows |-> keys, latest |-> lat, at |-> now]
<1>1. /\ pc[p] = "fetch" /\ pc' = [pc EXCEPT ![p] = "store"]
      /\ got' = [got EXCEPT ![p] = view]
      /\ UNCHANGED <<rotateVars, cacheVars, firedAt, wants>>
    BY DEF Read
<1>2. KeysInv' /\ UNCHANGED <<now, keys, tx>> /\ Len(keys) \in Nat
    BY <1>1, KeysFrame
<1>3. UNCHANGED <<cached, latest, readAt, lastFetch, timer, fetching, closed>>
    BY <1>1 DEF cacheVars
<1>4. ViewOf(keys, lat, now)
    BY ViewNow DEF IInv
<1>5. lat \in Nat /\ keys \in Seq(Row) /\ now \in Nat
    BY <1>4 DEF ViewOf, ChainAt, Signers, IInv, KeysInv
<1> HIDE DEF lat
<1>6. view \in [rows : Seq(Row), latest : Nat, at : Nat]
    BY <1>5
<1>7. got'[p].rows = keys /\ got'[p].latest = lat /\ got'[p].at = now
    BY <1>1 DEF IInv, CacheTypes
<1>8. \A q \in Procs : q # p => pc'[q] = pc[q] /\ got'[q] = got[q]
    BY <1>1 DEF IInv, CacheTypes
<1> HIDE DEF view
<1>9. CacheTypes'
    BY <1>1, <1>3, <1>6 DEF IInv, CacheTypes
<1>10. Views'
    <2>1. ViewOf(cached, latest, readAt)'
        BY <1>1, <1>3, ViewLater DEF IInv, Views
    <2>3. ViewOf(got[p].rows, got[p].latest, got[p].at)'
        BY <1>2, <1>4, <1>7 DEF ViewOf
    <2>4. readAt <= now
        BY DEF IInv, Views, ViewOf
    <2>5. ASSUME NEW q \in Procs, q # p, pc[q] = "store"
          PROVE  ViewOf(got[q].rows, got[q].latest, got[q].at)' /\ readAt' <= got'[q].at
        BY <1>1, <2>5 DEF IInv, OneFetcher
    <2> QED
        BY <1>3, <1>7, <1>8, <2>1, <2>3, <2>4, <2>5 DEF Views
<1>11. Wanted'
    BY <1>1, <1>2, <1>7, <1>8 DEF IInv, CacheTypes, Wanted, Procs
<1>12. OneFetcher' /\ WaitersSawFetch'
    BY <1>1, <1>3 DEF IInv, CacheTypes, OneFetcher, WaitersSawFetch, Procs
<1> QED
    BY <1>2, <1>9, <1>10, <1>11, <1>12 DEF IInv

\* A fetch stores what it has got, and wakes the others.
LEMMA StorePreserves ==
    ASSUME IInv, NEW p \in Procs, Store(p), UNCHANGED <<rotateVars, closed, firedAt>>,
           wants' \in [Callers -> Nat],
           \A c \in Callers : wants'[c] = 0 \/ wants'[c] = wants[c]
    PROVE  IInv'
<1>1. /\ pc[p] = "store" /\ fetching' = FALSE
      /\ cached' = got[p].rows /\ latest' = got[p].latest /\ readAt' = got[p].at
      /\ lastFetch' = now /\ timer' = now + RefreshInterval
      /\ got' = [got EXCEPT ![p] = Nothing]
      /\ pc' = [q \in Procs |-> IF q = p THEN "idle" ELSE IF pc[q] = "wait" THEN "woken" ELSE pc[q]]
    BY DEF Store, Broadcast
<1>2. KeysInv' /\ UNCHANGED <<now, keys, tx>> /\ now \in Nat
    BY KeysFrame DEF IInv, KeysInv
<1>3. \A q \in Procs : pc[q] \in {"fetch", "store"} => q = p
    BY <1>1 DEF IInv, OneFetcher
<1>4. \A q \in Procs : pc'[q] \notin {"fetch", "store", "wait"}
    BY <1>1, <1>3 DEF IInv, CacheTypes
<1>5. CacheTypes'
    <2>1. Nothing \in [rows : Seq(Row), latest : Nat, at : Nat]
        BY EmptySeq DEF Nothing
    <2>2. lastFetch' \in Nat /\ timer' \in Nat /\ firedAt' \in Nat
        BY <1>1, <1>2 DEF IInv, CacheTypes
    <2>3. got' \in [Procs -> [rows : Seq(Row), latest : Nat, at : Nat]]
        BY <1>1, <2>1 DEF IInv, CacheTypes
    <2> QED
        BY <1>1, <2>2, <2>3 DEF IInv, CacheTypes
<1>6. Views'
    <2>1. ViewOf(got[p].rows, got[p].latest, got[p].at)
        BY <1>1 DEF IInv, Views
    <2>2. ViewOf(cached, latest, readAt)'
        BY <1>1, <1>2, <2>1 DEF ViewOf
    <2> QED
        BY <1>4, <2>2 DEF Views
<1>7. Wanted'
    BY <1>2, <1>4, KeysFrame DEF IInv, Wanted, Procs
<1>8. OneFetcher' /\ WaitersSawFetch'
    BY <1>4 DEF OneFetcher, WaitersSawFetch, Procs
<1> QED
    BY <1>2, <1>5, <1>6, <1>7, <1>8 DEF IInv

\* The process is started again.
LEMMA RestartPreserves ==
    ASSUME IInv, Restart, UNCHANGED rotateVars
    PROVE  IInv'
<1>1. KeysInv' /\ UNCHANGED <<now, keys, tx>> /\ now \in Nat
    BY KeysFrame DEF IInv, KeysInv
<1>2. PICK rows \in {keys, <<>>} :
          /\ cached' = rows /\ latest' = ToKeyMapLatest(rows, now) /\ timer' = now + RefreshInterval
    BY DEF Restart, NewCache
<1>3. /\ readAt' = now /\ lastFetch' = 0 /\ firedAt' = 0 /\ fetching' = FALSE /\ closed' = FALSE
      /\ pc' = [p \in Procs |-> "idle"] /\ wants' = [c \in Callers |-> Latest]
      /\ got' = [p \in Procs |-> Nothing]
    BY DEF Restart
<1>4. ViewOf(cached, latest, readAt)'
    <2>1. ViewOf(rows, ToKeyMapLatest(rows, now), now)
        BY ViewNow DEF IInv
    <2> QED
        BY <1>1, <1>2, <1>3, <2>1 DEF ViewOf
<1>5. CacheTypes'
    <2>1. Nothing \in [rows : Seq(Row), latest : Nat, at : Nat]
        BY EmptySeq DEF Nothing
    <2> QED
        <3>1. timer' \in Nat /\ lastFetch' \in Nat /\ firedAt' \in Nat
            BY <1>1, <1>2, <1>3
        <3>2. wants' \in [Callers -> Nat]
            BY <1>3 DEF Latest
        <3>3. got' \in [Procs -> [rows : Seq(Row), latest : Nat, at : Nat]]
            BY <1>3, <2>1
        <3> QED
            BY <1>3, <3>1, <3>2, <3>3 DEF CacheTypes
<1>6. Wanted'
    BY <1>1, <1>3, KeysFrame DEF Wanted, Latest, Procs
<1> QED
    BY <1>1, <1>3, <1>4, <1>5, <1>6 DEF IInv, Views, OneFetcher, WaitersSawFetch, Procs

\* The steps of refresh that read and store nothing, and Close.
LEMMA RefreshPreserves ==
    ASSUME IInv, TimerFires \/ RefreshBegin \/ RefreshFails \/ Close
    PROVE  IInv'
<1>0. Refresh \in Procs
    BY DEF Procs
<1>1. UNCHANGED <<rotateVars, cached, latest, readAt, lastFetch, wants>>
    BY DEF TimerFires, RefreshBegin, RefreshFails, Close, cacheVars
<1>2. KeysInv' /\ UNCHANGED <<now, keys, tx>> /\ now \in Nat
    BY <1>1, KeysFrame DEF IInv, KeysInv
<1>3. CASE TimerFires
    <2>1. /\ pc[Refresh] = "idle" /\ pc' = [pc EXCEPT ![Refresh] = "fired"]
          /\ timer' = 0 /\ firedAt' = now /\ UNCHANGED <<fetching, closed, got>>
        BY <1>3 DEF TimerFires
    <2>2. Views'
        BY <1>0, <1>1, <2>1, ViewsFrame DEF IInv, CacheTypes
    <2>3. CacheTypes'
        BY <1>0, <1>1, <1>2, <2>1 DEF IInv, CacheTypes
    <2>4. Wanted'
        BY <1>0, <1>1, <1>2, <2>1 DEF IInv, CacheTypes, Wanted, Procs
    <2>5. OneFetcher' /\ WaitersSawFetch'
        BY <1>0, <2>1 DEF IInv, CacheTypes, OneFetcher, WaitersSawFetch, Procs
    <2> QED
        BY <1>2, <2>2, <2>3, <2>4, <2>5 DEF IInv
<1>4. CASE RefreshBegin
    <2>1. /\ pc[Refresh] = "fired" /\ firedAt' = 0 /\ UNCHANGED <<timer, closed, got>>
        BY <1>4 DEF RefreshBegin
    <2>2. \/ pc' = [pc EXCEPT ![Refresh] = "fetch"] /\ ~fetching /\ fetching' = TRUE
          \/ pc' = [pc EXCEPT ![Refresh] = "idle"] /\ UNCHANGED fetching
        BY <1>4 DEF RefreshBegin, ShouldRefresh, StartFetch
    <2>3. Views'
        BY <1>0, <1>1, <2>1, <2>2, ViewsFrame DEF IInv, CacheTypes
    <2>4. CacheTypes'
        BY <1>0, <1>1, <2>1, <2>2 DEF IInv, CacheTypes
    <2>5. Wanted'
        BY <1>0, <1>1, <1>2, <2>1, <2>2 DEF IInv, CacheTypes, Wanted, Procs
    <2>6. OneFetcher' /\ WaitersSawFetch'
        <3>1. CASE pc' = [pc EXCEPT ![Refresh] = "fetch"] /\ ~fetching /\ fetching' = TRUE
            <4>1. \A p \in Procs : pc[p] \notin {"fetch", "store"}
                BY <3>1 DEF IInv, OneFetcher
            <4>2. \A p \in Procs : pc'[p] \in {"fetch", "store"} => p = Refresh
                BY <1>0, <3>1, <4>1 DEF IInv, CacheTypes
            <4>3. \A c \in Callers : pc'[c] # "wait"
                BY <1>0, <3>1 DEF IInv, CacheTypes, WaitersSawFetch, Procs
            <4> QED
                BY <3>1, <4>2, <4>3 DEF OneFetcher, WaitersSawFetch
        <3>2. CASE pc' = [pc EXCEPT ![Refresh] = "idle"] /\ UNCHANGED fetching
            BY <1>0, <2>1, <3>2 DEF IInv, CacheTypes, OneFetcher, WaitersSawFetch, Procs
        <3> QED
            BY <2>2, <3>1, <3>2
    <2> QED
        BY <1>2, <2>3, <2>4, <2>5, <2>6 DEF IInv
<1>5. CASE RefreshFails
    <2>1. /\ pc' = [pc EXCEPT ![Refresh] = "idle"]
          /\ got' = [got EXCEPT ![Refresh] = Nothing]
          /\ UNCHANGED <<timer, fetching, closed, firedAt>>
        BY <1>5 DEF RefreshFails, cacheVars
    <2>2. Nothing \in [rows : Seq(Row), latest : Nat, at : Nat]
        BY EmptySeq DEF Nothing
    <2>3. CacheTypes'
        BY <1>0, <1>1, <2>1, <2>2 DEF IInv, CacheTypes
    <2>4. \A p \in Procs : pc'[p] = "store" => pc[p] = "store" /\ got'[p] = got[p]
        BY <1>0, <2>1 DEF IInv, CacheTypes
    <2>5. Views'
        <3>1. ViewOf(cached, latest, readAt)'
            BY <1>1, ViewLater DEF IInv, Views
        <3>2. ASSUME NEW p \in Procs, pc'[p] = "store"
              PROVE  ViewOf(got[p].rows, got[p].latest, got[p].at)' /\ readAt' <= got'[p].at
            <4>1. ViewOf(got[p].rows, got[p].latest, got[p].at) /\ readAt <= got[p].at
                BY <2>4, <3>2 DEF IInv, Views
            <4> QED
                BY <1>1, <1>2, <2>4, <3>2, <4>1 DEF ViewOf
        <3> QED
            BY <3>1, <3>2 DEF Views
    <2>6. Wanted'
        BY <1>1, <1>2, <2>4 DEF IInv, Wanted, Procs
    <2>7. OneFetcher' /\ WaitersSawFetch'
        BY <1>0, <2>1 DEF IInv, CacheTypes, OneFetcher, WaitersSawFetch, Procs
    <2> QED
        BY <1>2, <2>3, <2>5, <2>6, <2>7 DEF IInv
<1>6. CASE Close
    <2>1. /\ pc' = [q \in Procs |-> IF pc[q] = "wait" THEN "woken" ELSE pc[q]]
          /\ timer' = 0 /\ closed' = TRUE /\ UNCHANGED <<fetching, firedAt, got>>
        BY <1>6 DEF Close
    <2>2. \A q \in Procs : /\ pc'[q] # "wait"
                           /\ pc'[q] \in {"fetch", "store"} => pc'[q] = pc[q]
        BY <2>1 DEF IInv, CacheTypes
    <2>3. Views'
        BY <1>1, <2>1, <2>2, ViewsFrame
    <2>4. CacheTypes'
        BY <1>1, <2>1 DEF IInv, CacheTypes
    <2>5. Wanted'
        BY <1>1, <1>2, <2>1, <2>2 DEF IInv, Wanted, Procs
    <2>6. OneFetcher' /\ WaitersSawFetch'
        BY <2>1, <2>2 DEF IInv, OneFetcher, WaitersSawFetch, Procs
    <2> QED
        BY <1>2, <2>3, <2>4, <2>5, <2>6 DEF IInv
<1> QED
    BY <1>3, <1>4, <1>5, <1>6

-----------------------------------------------------------------------------
(* The invariant and what follows from it. *)

\* IInv holds for any number of replicas that rotate the keys, any number of calls and
\* any durations.
THEOREM KeyCacheInvariance == Spec => []IInv
<1>1. Init => IInv
    <2> SUFFICES ASSUME Init
                 PROVE  IInv
        OBVIOUS
    <2>1. <<>> \in Seq(Row) /\ Len(<<>>) = 0
        BY EmptySeq, LenProperties
    <2>2. KeysInv
        BY <2>1 DEF Init, InitKeys, KeysInv, ChainAt
    <2>3. ViewOf(<<>>, ToKeyMapLatest(<<>>, now), now) /\ now = 1
        BY <2>2, ViewNow DEF Init, InitKeys
    <2>4. ViewOf(cached, latest, readAt)
        BY <2>3 DEF Init, ViewOf
    <2>5. Nothing \in [rows : Seq(Row), latest : Nat, at : Nat]
        BY <2>1 DEF Nothing
    <2>6. CacheTypes
        <3>1. timer \in Nat /\ lastFetch \in Nat /\ firedAt \in Nat
            BY DEF Init
        <3>2. wants \in [Callers -> Nat]
            BY DEF Init, Latest
        <3>3. got \in [Procs -> [rows : Seq(Row), latest : Nat, at : Nat]]
            BY <2>5 DEF Init
        <3> QED
            BY <3>1, <3>2, <3>3 DEF Init, CacheTypes
    <2>7. Wanted
        BY <2>1 DEF Init, InitKeys, Wanted, Latest, Procs
    <2> QED
        BY <2>2, <2>4, <2>6, <2>7 DEF Init, IInv, Views, OneFetcher, WaitersSawFetch, Procs
<1>2. IInv /\ [Next]_vars => IInv'
    <2> SUFFICES ASSUME IInv, [Next]_vars
                 PROVE  IInv'
        OBVIOUS
    <2>1. CASE UNCHANGED vars
        BY <2>1, RotationPreserves DEF vars
    <2>2. CASE Rotation
        BY <2>2, RotationPreserves DEF Rotation
    <2>3. ASSUME NEW c \in Callers, CallStep(c)
          PROVE  IInv'
        <3>0. c \in Procs
            BY DEF Procs
        <3>1. CASE CallStore(c)
            <4>1. /\ Store(c) /\ UNCHANGED <<rotateVars, closed, firedAt>>
                  /\ wants' = [wants EXCEPT ![c] = Latest]
                BY <3>1 DEF CallStore
            <4>2. /\ wants' \in [Callers -> Nat]
                  /\ \A d \in Callers : wants'[d] = 0 \/ wants'[d] = wants[d]
                BY <4>1 DEF IInv, CacheTypes, Latest
            <4> QED
                BY <3>0, <4>1, <4>2, StorePreserves
        <3>2. CASE CallFails(c)
            BY <3>2, RestartPreserves DEF CallFails
        <3> QED
            BY <2>3, <3>0, <3>1, <3>2, WakePreserves, ReadPreserves DEF CallStep
    <2>4. CASE RefreshStep
        <3>0. Refresh \in Procs
            BY DEF Procs
        <3>1. CASE RefreshStore
            <4>1. Store(Refresh) /\ UNCHANGED <<rotateVars, closed, firedAt>> /\ wants' = wants
                BY <3>1 DEF RefreshStore
            <4>2. wants' \in [Callers -> Nat]
                BY <4>1 DEF IInv, CacheTypes
            <4> QED
                BY <3>0, <4>1, <4>2, StorePreserves
        <3> QED
            BY <2>4, <3>0, <3>1, ReadPreserves, RefreshPreserves DEF RefreshStep
    <2> QED
        BY <2>1, <2>2, <2>3, <2>4, CallPreserves, RefreshPreserves DEF Next
<1> QED
    BY <1>1, <1>2, PTL DEF Spec

\* Two replicas that rotate at once insert one key: only the youngest has no end.
THEOREM KeysRotatedOnce == Spec => []OneUnrotated
<1>1. IInv => OneUnrotated
    BY DEF IInv, KeysInv, ChainAt, OneUnrotated
<1> QED
    BY <1>1, KeyCacheInvariance, PTL

\* Once there are keys, one of them can be used for signing at any time.
THEOREM KeysAlwaysSignable == Spec => []AlwaysSignable
<1>1. IInv => AlwaysSignable
    BY ChainSigns DEF IInv, KeysInv, AlwaysSignable
<1> QED
    BY <1>1, KeyCacheInvariance, PTL

\* A fresh cache uses no key that is deleted or past its end.
THEOREM FreshCachesAreSafe == Spec => []FreshCacheIsSafe
<1>1. IInv => FreshCacheIsSafe
    <2> SUFFICES ASSUME IInv, now < readAt + Margin, NEW s \in 1..Len(cached),
                        CanVerify(cached[s], now)
                 PROVE  CanVerify(keys[s], now)
        BY DEF FreshCacheIsSafe
    <2>1. /\ readAt \in Nat /\ now \in Nat /\ Margin \in Nat
          /\ Len(cached) \in Nat /\ Len(keys) \in Nat /\ Len(cached) <= Len(keys)
          /\ \A i \in 1..Len(keys) : keys[i] \in Row
          /\ \A i \in 1..Len(cached) : cached[i] \in Row
        BY LenProperties, ElementOfSeq DEF IInv, Views, ViewOf, KeysInv, ChainAt, SeenAs, Margin
    <2>2. s \in 1..Len(keys)
        BY <2>1
    <2>3. \/ cached[s].deletesAt = keys[s].deletesAt
          \/ keys[s].deletesAt >= readAt + Margin
        BY DEF IInv, Views, ViewOf, SeenAs
    <2>4. cached[s].deletesAt = 0 \/ now < cached[s].deletesAt
        BY DEF CanVerify
    <2>5. keys[s].deletesAt = 0 \/ now < keys[s].deletesAt
        BY <2>1, <2>2, <2>3, <2>4 DEF Row
    <2>6. keys[s].secret
        <3> SUFFICES ASSUME ~keys[s].secret
                     PROVE  FALSE
            OBVIOUS
        <3>1. keys[s].deletesAt # 0 /\ keys[s].deletesAt <= now /\ keys[s].deletesAt \in Nat
            BY <2>1, <2>2 DEF IInv, KeysInv, ChainAt, Row
        <3> QED
            BY <2>1, <2>5, <3>1
    <2> QED
        BY <2>5, <2>6 DEF CanVerify
<1> QED
    BY <1>1, KeyCacheInvariance, PTL

\* There is one fetch at a time, and it does not bring older keys than there are.
THEOREM OneFetchAtATime == Spec => []OneFetch
<1>1. IInv => OneFetch
    BY DEF IInv, OneFetcher, Views, OneFetch, Fetchers
<1> QED
    BY <1>1, KeyCacheInvariance, PTL

\* Who has set fetching is fetching, or was a refresh that failed.
FetchInv == refreshFailed \in BOOLEAN /\ FetchingMeansFetcher

LEMMA FetchStep ==
    ASSUME IInv, FetchInv, [Next]_vars
    PROVE  FetchInv'
<1> USE DEF Fetchers
<1>1. refreshFailed' \in BOOLEAN
    BY DEF FetchInv, Next, Rotation, RefreshStep, CallStep, Call, Wake, Read, CallStore,
       CallFails, Restart, TimerFires, RefreshBegin, RefreshStore, RefreshFails, Close,
       procVars, vars
<1> SUFFICES FetchingMeansFetcher'
    BY <1>1 DEF FetchInv
<1>2. pc \in [Procs -> {"idle", "wait", "woken", "fetch", "store", "fired"}]
    BY DEF IInv, CacheTypes
<1>3. ASSUME UNCHANGED <<pc, fetching, refreshFailed>>
      PROVE  FetchingMeansFetcher'
    BY <1>3 DEF FetchInv, FetchingMeansFetcher
<1>4. ASSUME NEW c \in Callers, pc[c] \in {"idle", "woken"}, Miss(c), UNCHANGED refreshFailed
      PROVE  FetchingMeansFetcher'
    <2>1. c \in Procs
        BY DEF Procs
    <2>2. CASE fetching
        <3>1. pc' = [pc EXCEPT ![c] = "wait"] /\ UNCHANGED fetching
            BY <1>4, <2>2 DEF Miss
        <3>2. Fetchers \subseteq Fetchers'
            BY <1>2, <1>4, <2>1, <3>1
        <3> QED
            BY <1>4, <2>2, <3>1, <3>2 DEF FetchInv, FetchingMeansFetcher
    <2>3. CASE ~fetching
        <3>1. pc' = [pc EXCEPT ![c] = "fetch"]
            BY <1>4, <2>3 DEF Miss, StartFetch
        <3>2. c \in Fetchers'
            BY <1>2, <2>1, <3>1
        <3> QED
            BY <3>2 DEF FetchingMeansFetcher
    <2> QED
        BY <2>2, <2>3
<1>5. ASSUME NEW c \in Callers, CallStep(c) \/ \E s \in 0..Len(keys) : Call(c, s)
      PROVE  FetchingMeansFetcher'
    <2>1. CASE \E s \in 0..Len(keys) : Call(c, s)
        BY <1>4, <2>1 DEF Call
    <2>2. CASE Wake(c)
        <3>1. CASE closed
            <4>1. pc' = [pc EXCEPT ![c] = "idle"] /\ pc[c] = "woken"
                  /\ UNCHANGED <<fetching, refreshFailed>>
                BY <2>2, <3>1 DEF Wake
            <4>2. Fetchers \subseteq Fetchers'
                BY <1>2, <4>1
            <4> QED
                BY <4>1, <4>2 DEF FetchInv, FetchingMeansFetcher
        <3> QED
            BY <1>4, <2>2, <3>1 DEF Wake
    <2>3. CASE Read(c)
        <3>1. /\ pc[c] = "fetch" /\ pc' = [pc EXCEPT ![c] = "store"]
              /\ UNCHANGED <<fetching, refreshFailed>>
            BY <2>3 DEF Read, cacheVars
        <3>2. Fetchers \subseteq Fetchers'
            BY <1>2, <3>1
        <3> QED
            BY <3>1, <3>2 DEF FetchInv, FetchingMeansFetcher
    <2>4. CASE CallStore(c) \/ CallFails(c)
        BY <2>4 DEF CallStore, CallFails, Store, Restart, FetchingMeansFetcher
    <2> QED
        BY <1>5, <2>1, <2>2, <2>3, <2>4 DEF CallStep
<1>6. CASE RefreshStep \/ Close
    <2>0. Refresh \in Procs
        BY DEF Procs
    <2>1. CASE TimerFires \/ Read(Refresh) \/ Close
        <3>1. /\ UNCHANGED <<fetching, refreshFailed>>
              /\ \A p \in Procs : pc[p] \in {"fetch", "store"} => pc'[p] \in {"fetch", "store"}
            BY <1>2, <2>0, <2>1 DEF TimerFires, Read, Close, cacheVars
        <3> QED
            BY <3>1 DEF FetchInv, FetchingMeansFetcher
    <2>2. CASE RefreshBegin
        <3>1. CASE ShouldRefresh
            <4>1. pc' = [pc EXCEPT ![Refresh] = "fetch"]
                BY <2>2, <3>1 DEF RefreshBegin, StartFetch
            <4>2. pc'[Refresh] = "fetch"
                BY <1>2, <2>0, <4>1
            <4> QED
                BY <2>0, <4>2 DEF FetchingMeansFetcher
        <3>2. CASE ~ShouldRefresh
            <4>1. /\ pc[Refresh] = "fired" /\ pc' = [pc EXCEPT ![Refresh] = "idle"]
                  /\ UNCHANGED <<fetching, refreshFailed>>
                BY <2>2, <3>2 DEF RefreshBegin
            <4>2. Fetchers \subseteq Fetchers'
                BY <1>2, <2>0, <4>1
            <4> QED
                BY <4>1, <4>2 DEF FetchInv, FetchingMeansFetcher
        <3> QED
            BY <3>1, <3>2
    <2>3. CASE RefreshStore
        BY <2>3 DEF RefreshStore, Store, FetchingMeansFetcher
    <2>4. CASE RefreshFails
        BY <2>4, Zenon DEF RefreshFails, FetchingMeansFetcher
    <2> QED
        BY <1>6, <2>1, <2>2, <2>3, <2>4 DEF RefreshStep
<1>7. CASE Rotation \/ UNCHANGED vars
    <2>1. UNCHANGED <<pc, fetching, refreshFailed>>
        BY <1>7 DEF Rotation, cacheVars, procVars, vars
    <2> QED
        BY <1>3, <2>1
<1> QED
    BY <1>5, <1>6, <1>7 DEF Next

LEMMA FetchInvariance == Spec => []FetchInv
<1>1. Init => FetchInv
    BY DEF Init, FetchInv, FetchingMeansFetcher
<1>2. IInv /\ FetchInv /\ [Next]_vars => FetchInv'
    BY FetchStep
<1> QED
    BY <1>1, <1>2, KeyCacheInvariance, PTL DEF Spec

\* Nobody waits without somebody who fetches and will wake him, unless a refresh has
\* failed.
THEOREM NoWakeupLost == Spec => []NoLostWakeup
<1>1. IInv /\ FetchInv => NoLostWakeup
    BY DEF IInv, WaitersSawFetch, FetchInv, FetchingMeansFetcher, NoLostWakeup
<1> QED
    BY <1>1, KeyCacheInvariance, FetchInvariance, PTL

\* The types of the state.
THEOREM KeyCacheTypeCorrect == Spec => []TypeOK
<1>1. IInv /\ FetchInv => TypeOK
    <2> SUFFICES ASSUME IInv, FetchInv
                 PROVE  TypeOK
        OBVIOUS
    <2>1. KeysTypeOK
        BY DEF IInv, KeysInv, ChainAt, KeysTypeOK
    <2>2. cached \in Seq(Row) /\ readAt \in Nat
        BY DEF IInv, Views, ViewOf, ChainAt
    <2>3. latest \in 0..Len(cached)
        BY <2>2, LenProperties DEF IInv, Views, ViewOf, Signers
    <2>4. {fetching, closed, refreshFailed} \subseteq BOOLEAN
        BY DEF IInv, CacheTypes, FetchInv
    <2> QED
        BY <2>1, <2>2, <2>3, <2>4 DEF IInv, CacheTypes, TypeOK
<1> QED
    BY <1>1, KeyCacheInvariance, FetchInvariance, PTL

\* A row that has ended in a view has ended, or was deleted, in the table.
LEMMA EndSeen ==
    ASSUME KeysInv, NEW rows, NEW lat, NEW at, ViewOf(rows, lat, at),
           NEW s \in 1..Len(rows), ~CanVerify(rows[s], now)
    PROVE  ~CanVerify(keys[s], now)
<1>1. /\ at \in Nat /\ now \in Nat /\ at <= now /\ Len(rows) \in Nat
      /\ rows[s] \in Row
    BY LenProperties, ElementOfSeq DEF ViewOf, ChainAt, KeysInv
<1>2. rows[s].deletesAt # 0 /\ rows[s].deletesAt <= now /\ rows[s].deletesAt \in Nat
    <2>1. CASE rows[s].secret
        <3>1. ~(rows[s].deletesAt = 0 \/ now < rows[s].deletesAt)
            BY <2>1 DEF CanVerify
        <3> QED
            BY <1>1, <3>1 DEF Row
    <2>2. CASE ~rows[s].secret
        <3>1. rows[s].deletesAt # 0 /\ rows[s].deletesAt <= at
            BY <2>2 DEF ViewOf, ChainAt
        <3> QED
            BY <1>1, <3>1 DEF Row
    <2> QED
        BY <2>1, <2>2
<1>3. keys[s].deletesAt = rows[s].deletesAt
    BY <1>2 DEF ViewOf, SeenAs
<1>4. ~(keys[s].deletesAt = 0 \/ now < keys[s].deletesAt)
    BY <1>1, <1>2, <1>3
<1> QED
    BY <1>4 DEF CanVerify

\* Calls fail only for keys that have ended, or if there are none.
THEOREM KeysFound == Spec => []LiveKeysFound
<1>1. IInv => LiveKeysFound
    <2> SUFFICES ASSUME IInv
                 PROVE  LiveKeysFound
        OBVIOUS
    <2>1. ASSUME NEW s \in 1..Len(cached), HasKey(cached, latest, s, now),
                 Outcome(cached, latest, s, now) # "key"
          PROVE  ~CanVerify(keys[s], now)
        <3>1. s # Latest
            BY DEF Latest
        <3>2. ~CanVerify(cached[s], now)
            BY <2>1, <3>1 DEF Outcome, CheckKey
        <3> QED
            BY <3>2, EndSeen DEF IInv, Views
    <2>2. ASSUME NEW c \in Callers, pc[c] = "store",
                 Outcome(got[c].rows, got[c].latest, wants[c], now) # "key"
          PROVE  IF wants[c] = Latest
                 THEN got[c].rows = <<>> \/
                      \E s \in Signers(got[c].rows, got[c].at) : ~CanSign(got[c].rows[s], now)
                 ELSE ~CanVerify(keys[wants[c]], now)
        <3>1. c \in Procs /\ ViewOf(got[c].rows, got[c].latest, got[c].at)
            BY <2>2 DEF IInv, Views, Procs
        <3>2. CASE wants[c] = Latest
            <4>1. ~CanSign(got[c].rows[got[c].latest], now) \/ got[c].latest = 0
                BY <2>2, <3>2 DEF Outcome, HasKey, CheckKey
            <4>2. got[c].rows # <<>> => /\ got[c].latest \in Signers(got[c].rows, got[c].at)
                                        /\ got[c].latest # 0
                BY <3>1 DEF ViewOf, Signers
            <4> QED
                BY <3>2, <4>1, <4>2
        <3>3. CASE wants[c] # Latest
            <4>1. wants[c] \in 1..Len(got[c].rows)
                <5>1. wants[c] \in Nat /\ wants[c] # 0 /\ wants[c] <= Len(got[c].rows)
                    BY <2>2, <3>3 DEF IInv, CacheTypes, Wanted, Latest
                <5>2. Len(got[c].rows) \in Nat
                    BY <3>1, LenProperties DEF ViewOf, ChainAt
                <5> QED
                    BY <5>1, <5>2
            <4>2. ~CanVerify(got[c].rows[wants[c]], now)
                BY <2>2, <3>3, <4>1 DEF Outcome, HasKey, CheckKey, CanVerify
            <4>3. ~CanVerify(keys[wants[c]], now)
                BY <3>1, <4>1, <4>2, EndSeen DEF IInv
            <4> QED
                BY <3>3, <4>3
        <3> QED
            BY <3>2, <3>3
    <2> QED
        BY <2>1, <2>2 DEF LiveKeysFound
<1> QED
    BY <1>1, KeyCacheInvariance, PTL
=============================================================================
