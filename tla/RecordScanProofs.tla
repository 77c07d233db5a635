-------------------------- MODULE RecordScanProofs --------------------------
(***************************************************************************)
(* Proofs about RecordScan, for any number of keys and documents and files *)
(* of any length: the passes of scanV2 read from the records what Replay   *)
(* says of the log, and a write that stops leaves a part of its batch.     *)
(*                                                                         *)
(* The invariant says of a file which records it has (Says) and in which   *)
(* order (InOrder). META is left out of both: nothing is read from it, and *)
(* one that was written alone is of no batch of the log.                   *)
(***************************************************************************)
EXTENDS RecordScan, FiniteSetTheorems, SequenceTheorems, WellFoundedInduction, TLAPS

-----------------------------------------------------------------------------
(* The inductive invariant *)

\* x is a record of batch b.
RecordIn(x, b) ==
    \/ x.typ = "DEL" /\ x.key \in b.dels /\ x.val = NoVal
    \/ x.typ = "DOC" /\ x.val = b.docs[x.key] /\ x.val # NoVal
    \/ x.typ = "COMMIT" /\ x.key = AnyKey /\ x.val = NoVal /\ b.end = "commit"
    \/ x.typ = "torn" /\ x.key = AnyKey /\ x.val = NoVal /\ b.end = "torn"

Counting == {x \in Record : x.typ # "META"}

Occurs(x, r) == \E n \in DOMAIN r : r[n] = x

\* The file has the records of the batches and no others.
Says(r, l) ==
    \A x \in Counting :
        Occurs(x, r) <=> x.batch \in 1..Len(l) /\ RecordIn(x, l[x.batch])

Rank(x) == IF x.typ = "DEL" THEN 1 ELSE IF x.typ = "DOC" THEN 2 ELSE 3

Before(x, y) == x.batch < y.batch \/ (x.batch = y.batch /\ Rank(x) < Rank(y))

\* One batch after the other; in each the DELs, the DOCs and its end.
InOrder(r) ==
    \A m, n \in DOMAIN r :
        r[m] \in Counting /\ r[n] \in Counting /\ Before(r[m], r[n]) => m < n

ScanInv == TypeOK /\ Says(recs, log) /\ InOrder(recs)

-----------------------------------------------------------------------------
(* Counting up to a number *)

LEMMA LeastExists ==
    ASSUME NEW S \in SUBSET Nat, S # {}
    PROVE  \E m \in S : \A k \in S : m <= k
<1> DEFINE R == OpToRel(<, Nat)
<1>1. PICK m \in S : \A k \in S : <<k, m>> \notin R
  <2>1. IsWellFoundedOn(R, Nat)
    BY NatLessThanWellFounded
  <2>. QED BY <2>1, WFMin, Zenon
<1>2. \A k \in S : ~ (k < m)
  BY <1>1 DEF OpToRel
<1>. QED BY <1>2

LEMMA GreatestExists ==
    ASSUME NEW L \in Nat, NEW S \in SUBSET (0..L), S # {}
    PROVE  \E m \in S : \A k \in S : m >= k
<1> DEFINE T == {L - n : n \in S}
<1>1. T \in SUBSET Nat /\ T # {}
  <2>1. \A n \in S : L - n \in Nat
    OBVIOUS
  <2>. QED BY <2>1
<1>2. \A n \in S : L - n \in T
  OBVIOUS
<1>3. PICK t \in T : \A u \in T : t <= u
  <2>. HIDE DEF T
  <2>. QED BY <1>1, LeastExists
<1>4. PICK m \in S : t = L - m
  OBVIOUS
<1>5. \A k \in S : L - m <= L - k
  <2>. HIDE DEF T
  <2>. QED BY <1>2, <1>3, <1>4
<1>. QED BY <1>5

\* What holds at 0 and goes from each number to the next holds up to L.
LEMMA AllTheWay ==
    ASSUME NEW L \in Nat, NEW T, 0 \in T,
           \A n \in 0..L : n # 0 /\ n - 1 \in T => n \in T
    PROVE  0..L \subseteq T
<1> DEFINE Fails == {n \in 0..L : n \notin T}
<1>1. SUFFICES ASSUME Fails # {} PROVE FALSE
  OBVIOUS
<1>2. PICK n \in Fails : \A k \in Fails : n <= k
  <2>. Fails \in SUBSET Nat OBVIOUS
  <2>. HIDE DEF Fails
  <2>. QED BY <1>1, LeastExists
<1>3. n \in 0..L /\ n \notin T
  OBVIOUS
<1>4. n # 0
  BY <1>3
<1>5. n - 1 \in 0..L
  BY <1>3, <1>4
<1>6. n - 1 \notin Fails
  BY <1>2, <1>3, <1>5
<1>7. n - 1 \in T
  BY <1>5, <1>6
<1>. QED BY <1>3, <1>4, <1>7

-----------------------------------------------------------------------------
(* The passes of scanV2 over any records *)

\* The first pass stops at the first torn record.
LEMMA ParsedIs ==
    ASSUME NEW r \in Seq(Record)
    PROVE  \/ (\A n \in 1..Len(r) : r[n].typ # "torn") /\ Parsed(r) = r
           \/ \E t \in 1..Len(r) :
                 /\ r[t].typ = "torn" /\ \A n \in 1..t - 1 : r[n].typ # "torn"
                 /\ Parsed(r) = SubSeq(r, 1, t - 1)
<1> DEFINE I == {i \in 1..Len(r) : r[i].typ = "torn"}
           t == IF I # {} THEN Min(I) ELSE 0
<1>1. Parsed(r) = IF t = 0 THEN r ELSE SubSeq(r, 1, t - 1)
  BY Zenon DEF Parsed, SelectInSeq
<1>2. CASE I = {}
  BY <1>1, <1>2
<1>3. CASE I # {}
  <2>1. PICK m \in I : \A k \in I : m <= k
    <3>. I \in SUBSET Nat OBVIOUS
    <3>. HIDE DEF I
    <3>. QED BY <1>3, LeastExists
  <2>2. t \in I /\ \A k \in I : t <= k
    <3>1. \E x \in I : \A y \in I : x <= y
      BY <2>1
    <3>2. t = CHOOSE x \in I : \A y \in I : x <= y
      BY <1>3, Zenon DEF Min
    <3>. HIDE DEF I, t
    <3>. QED BY <3>1, <3>2, Zenon
  <2>3. t \in 1..Len(r) /\ r[t].typ = "torn"
    <3>. HIDE DEF t
    <3>. QED BY <2>2
  <2>4. \A n \in 1..t - 1 : r[n].typ # "torn"
    <3>. HIDE DEF t
    <3>. QED BY <2>2, <2>3
  <2>5. Parsed(r) = SubSeq(r, 1, t - 1)
    <3>. HIDE DEF t
    <3>. QED BY <1>1, <2>3
  <2>. HIDE DEF t
  <2>. QED BY <2>3, <2>4, <2>5
<1>. QED BY <1>2, <1>3

\* The second goes as far as the last COMMIT.
LEMMA LastCommitIs ==
    ASSUME NEW r \in Seq(Record)
    PROVE  \/ (\A n \in 1..Len(r) : r[n].typ # "COMMIT") /\ LastCommit(r) = 0
           \/ /\ LastCommit(r) \in 1..Len(r) /\ r[LastCommit(r)].typ = "COMMIT"
              /\ \A n \in 1..Len(r) : r[n].typ = "COMMIT" => n <= LastCommit(r)
<1> DEFINE I == {i \in 1..Len(r) : r[i].typ = "COMMIT"}
           t == LastCommit(r)
<1>1. t = IF I # {} THEN Max(I) ELSE 0
  BY Zenon DEF LastCommit, SelectLastInSeq
<1>. HIDE DEF t
<1>2. CASE I = {}
  BY <1>1, <1>2 DEF t
<1>3. CASE I # {}
  <2>1. PICK m \in I : \A k \in I : m >= k
    <3>1. I \in SUBSET (0..Len(r)) /\ Len(r) \in Nat
      OBVIOUS
    <3>. HIDE DEF I
    <3>. QED BY <1>3, <3>1, GreatestExists
  <2>2. t \in I /\ \A k \in I : t >= k
    <3>1. \E x \in I : \A y \in I : x >= y
      BY <2>1
    <3>2. t = CHOOSE x \in I : \A y \in I : x >= y
      BY <1>1, <1>3, Zenon DEF Max
    <3>. HIDE DEF I
    <3>. QED BY <3>1, <3>2, Zenon
  <2>3. t \in 1..Len(r) /\ r[t].typ = "COMMIT"
    BY <2>2
  <2>4. \A n \in 1..Len(r) : r[n].typ = "COMMIT" => n <= t
    BY <2>2
  <2>. QED BY <2>3, <2>4 DEF t
<1>. QED BY <1>2, <1>3

\* Record i is a DOC, or a DEL, of k.
IsDoc(r, i, k) == r[i].typ = "DOC" /\ r[i].key = k
IsDel(r, i, k) == r[i].typ = "DEL" /\ r[i].key = k

\* Among the first n records there is a DOC of k with no DEL of it behind.
StoredLast(r, n, k) ==
    \E i \in 1..n : IsDoc(r, i, k) /\ \A j \in i + 1..n : ~IsDel(r, j, k)

\* What the last pass knows after n records.
LiveKeys(r, n) == {k \in Key : StoredLast(r, n, k)}

LEMMA StoredNext ==
    ASSUME NEW r \in Seq(Record), NEW n \in 1..Len(r), NEW k \in Key
    PROVE  /\ IsDoc(r, n, k) => StoredLast(r, n, k)
           /\ IsDel(r, n, k) => ~StoredLast(r, n, k)
           /\ ~IsDoc(r, n, k) /\ ~IsDel(r, n, k) =>
                 (StoredLast(r, n, k) <=> StoredLast(r, n - 1, k))
<1>1. n \in 1..n /\ \A j \in n + 1..n : FALSE
  OBVIOUS
<1>2. IsDoc(r, n, k) => StoredLast(r, n, k)
  BY <1>1 DEF StoredLast
<1>3. ASSUME IsDel(r, n, k), StoredLast(r, n, k) PROVE FALSE
  <2>1. PICK i \in 1..n : IsDoc(r, i, k) /\ \A j \in i + 1..n : ~IsDel(r, j, k)
    BY <1>3 DEF StoredLast
  <2>2. i # n
    BY <1>3, <2>1 DEF IsDoc, IsDel
  <2>3. n \in i + 1..n
    BY <2>2
  <2>. QED BY <1>3, <2>1, <2>3
<1>4. ASSUME ~IsDoc(r, n, k), StoredLast(r, n, k) PROVE StoredLast(r, n - 1, k)
  <2>1. PICK i \in 1..n : IsDoc(r, i, k) /\ \A j \in i + 1..n : ~IsDel(r, j, k)
    BY <1>4 DEF StoredLast
  <2>2. i # n
    BY <1>4, <2>1
  <2>3. i \in 1..n - 1 /\ \A j \in i + 1..n - 1 : j \in i + 1..n
    BY <2>2
  <2>. QED BY <2>1, <2>3 DEF StoredLast
<1>5. ASSUME ~IsDel(r, n, k), StoredLast(r, n - 1, k) PROVE StoredLast(r, n, k)
  <2>1. PICK i \in 1..n - 1 : IsDoc(r, i, k) /\ \A j \in i + 1..n - 1 : ~IsDel(r, j, k)
    BY <1>5 DEF StoredLast
  <2>2. i \in 1..n /\ \A j \in i + 1..n : j = n \/ j \in i + 1..n - 1
    OBVIOUS
  <2>. QED BY <1>5, <2>1, <2>2 DEF StoredLast
<1>. QED BY <1>2, <1>3, <1>4, <1>5

LEMMA MarkedIs ==
    ASSUME NEW r \in Seq(Record), NEW n \in 1..Len(r)
    PROVE  Marked(LiveKeys(r, n - 1), r[n]) = LiveKeys(r, n)
<1> DEFINE x == r[n]
           a == LiveKeys(r, n - 1)
<1>1. x.key \in Key
  <2>1. x \in Record
    OBVIOUS
  <2>. QED BY <2>1 DEF Record
<1>2. CASE x.typ = "DOC"
  <2>1. Marked(a, x) = a \union {x.key}
    BY <1>2 DEF Marked
  <2>2. ASSUME NEW k \in Key, k # x.key PROVE StoredLast(r, n, k) <=> StoredLast(r, n - 1, k)
    BY <1>2, <2>2, StoredNext DEF IsDoc, IsDel
  <2>3. StoredLast(r, n, x.key)
    BY <1>1, <1>2, StoredNext DEF IsDoc
  <2>. QED BY <1>1, <2>1, <2>2, <2>3 DEF LiveKeys
<1>3. CASE x.typ = "DEL"
  <2>1. Marked(a, x) = a \ {x.key}
    BY <1>3 DEF Marked
  <2>2. ASSUME NEW k \in Key, k # x.key PROVE StoredLast(r, n, k) <=> StoredLast(r, n - 1, k)
    BY <1>3, <2>2, StoredNext DEF IsDoc, IsDel
  <2>3. ~StoredLast(r, n, x.key)
    BY <1>1, <1>3, StoredNext DEF IsDel
  <2>. QED BY <1>1, <2>1, <2>2, <2>3 DEF LiveKeys
<1>4. CASE x.typ # "DOC" /\ x.typ # "DEL"
  <2>1. Marked(a, x) = a
    BY <1>4 DEF Marked
  <2>2. ASSUME NEW k \in Key PROVE StoredLast(r, n, k) <=> StoredLast(r, n - 1, k)
    BY <1>4, StoredNext DEF IsDoc, IsDel
  <2>. QED BY <2>1, <2>2 DEF LiveKeys
<1>. QED BY <1>2, <1>3, <1>4

\* The last pass finds the keys whose newest record is a DOC.
LEMMA AliveIs ==
    ASSUME NEW r \in Seq(Record)
    PROVE  Alive(r) = LiveKeys(r, Len(r))
<1> DEFINE L == Len(r)
           f == CHOOSE f : f = [n \in 0..L |-> IF n = 0 THEN {} ELSE Marked(f[n - 1], r[n])]
           g == [n \in 0..L |-> LiveKeys(r, n)]
<1>1. L \in Nat
  OBVIOUS
<1>2. Alive(r) = f[L]
  BY Zenon DEF Alive
<1>3. LiveKeys(r, 0) = {}
  <2>1. \A k \in Key : ~StoredLast(r, 0, k)
    BY DEF StoredLast
  <2>. QED BY <2>1 DEF LiveKeys
<1>4. \A n \in 1..L : Marked(LiveKeys(r, n - 1), r[n]) = LiveKeys(r, n)
  BY MarkedIs
<1>. HIDE DEF L
<1>5. \A n \in 0..L : n # 0 => n \in 1..L /\ n - 1 \in 0..L
  BY <1>1
<1>6. g = [n \in 0..L |-> IF n = 0 THEN {} ELSE Marked(g[n - 1], r[n])]
  BY <1>3, <1>4, <1>5
<1>7. f = [n \in 0..L |-> IF n = 0 THEN {} ELSE Marked(f[n - 1], r[n])]
  BY <1>6, Zenon
<1>. HIDE DEF f
<1> DEFINE T == {n \in 0..L : f[n] = LiveKeys(r, n)}
<1>8. 0 \in T
  BY <1>1, <1>3, <1>7
<1>9. ASSUME NEW n \in 0..L, n # 0, n - 1 \in T PROVE n \in T
  <2>1. f[n] = Marked(f[n - 1], r[n])
    BY <1>7, <1>9
  <2>. QED BY <1>4, <1>5, <1>9, <2>1
<1>10. 0..L \subseteq T
  <2>. HIDE DEF T
  <2>. QED BY <1>1, <1>8, <1>9, AllTheWay
<1>11. f[L] = LiveKeys(r, L)
  BY <1>1, <1>10
<1>. QED BY <1>2, <1>11 DEF L

\* The entries after n records, alive being what the pass before found.
NewestDoc(r, n, k) == CHOOSE i \in 1..n : IsDoc(r, i, k) /\ \A j \in i + 1..n : ~IsDoc(r, j, k)

EntryOf(r, n, k, alive) ==
    IF k \in alive /\ \E i \in 1..n : IsDoc(r, i, k)
    THEN [val |-> r[NewestDoc(r, n, k)].val, at |-> r[NewestDoc(r, n, k)].batch]
    ELSE [val |-> NoVal, at |-> 0]

EntriesOf(r, n, alive) == [k \in Key |-> EntryOf(r, n, k, alive)]

LEMMA NewestDocIs ==
    ASSUME NEW r \in Seq(Record), NEW n \in 0..Len(r), NEW k \in Key,
           NEW i \in 1..n, IsDoc(r, i, k), \A j \in i + 1..n : ~IsDoc(r, j, k)
    PROVE  NewestDoc(r, n, k) = i
<1> DEFINE m == NewestDoc(r, n, k)
<1>1. m \in 1..n /\ IsDoc(r, m, k) /\ \A j \in m + 1..n : ~IsDoc(r, j, k)
  BY Zenon DEF NewestDoc
<1>. HIDE DEF m
<1>2. ~(m < i) /\ ~(i < m)
  <2>1. m < i => i \in m + 1..n
    BY <1>1
  <2>2. i < m => m \in i + 1..n
    BY <1>1
  <2>. QED BY <1>1, <2>1, <2>2
<1>. QED BY <1>1, <1>2 DEF m

LEMMA NewestDocExists ==
    ASSUME NEW r \in Seq(Record), NEW n \in 0..Len(r), NEW k \in Key,
           \E i \in 1..n : IsDoc(r, i, k)
    PROVE  \E i \in 1..n : IsDoc(r, i, k) /\ \A j \in i + 1..n : ~IsDoc(r, j, k)
<1> DEFINE S == {i \in 1..n : IsDoc(r, i, k)}
<1>1. S \in SUBSET (0..n) /\ S # {} /\ n \in Nat
  OBVIOUS
<1>2. PICK m \in S : \A i \in S : m >= i
  <2>. HIDE DEF S
  <2>. QED BY <1>1, GreatestExists
<1>3. \A j \in m + 1..n : j \in 1..n /\ ~(m >= j)
  OBVIOUS
<1>4. \A j \in m + 1..n : ~IsDoc(r, j, k)
  <2>1. \A j \in m + 1..n : j \notin S
    <3>. HIDE DEF S
    <3>. QED BY <1>2, <1>3
  <2>. QED BY <1>3, <2>1
<1>. QED BY <1>4

LEMMA EnteredIs ==
    ASSUME NEW r \in Seq(Record), NEW n \in 1..Len(r), NEW alive
    PROVE  Entered(EntriesOf(r, n - 1, alive), r[n], alive) = EntriesOf(r, n, alive)
<1> DEFINE x == r[n]
           e == EntriesOf(r, n - 1, alive)
<1>1. x.key \in Key
  <2>1. x \in Record
    OBVIOUS
  <2>. QED BY <2>1 DEF Record
<1>2. ASSUME NEW k \in Key, ~IsDoc(r, n, k)
      PROVE  EntryOf(r, n, k, alive) = EntryOf(r, n - 1, k, alive)
  <2>1. (\E i \in 1..n : IsDoc(r, i, k)) <=> \E i \in 1..n - 1 : IsDoc(r, i, k)
    <3>1. \A i \in 1..n : i = n \/ i \in 1..n - 1
      OBVIOUS
    <3>2. \A i \in 1..n - 1 : i \in 1..n
      OBVIOUS
    <3>. QED BY <1>2, <3>1, <3>2
  <2>2. CASE \E i \in 1..n - 1 : IsDoc(r, i, k)
    <3>1. PICK i \in 1..n - 1 : IsDoc(r, i, k) /\ \A j \in i + 1..n - 1 : ~IsDoc(r, j, k)
      <4>1. n - 1 \in 0..Len(r)
        OBVIOUS
      <4>. QED BY <2>2, <4>1, NewestDocExists
    <3>2. i \in 1..n /\ n \in 0..Len(r) /\ n - 1 \in 0..Len(r)
      OBVIOUS
    <3>3. \A j \in i + 1..n : ~IsDoc(r, j, k)
      <4>1. \A j \in i + 1..n : j = n \/ j \in i + 1..n - 1
        OBVIOUS
      <4>. QED BY <1>2, <3>1, <4>1
    <3>4. NewestDoc(r, n, k) = i
      BY <3>1, <3>2, <3>3, NewestDocIs
    <3>5. NewestDoc(r, n - 1, k) = i
      BY <3>1, <3>2, NewestDocIs
    <3>. QED BY <2>1, <3>4, <3>5 DEF EntryOf
  <2>3. CASE ~\E i \in 1..n - 1 : IsDoc(r, i, k)
    BY <2>1, <2>3 DEF EntryOf
  <2>. QED BY <2>2, <2>3
<1>3. CASE x.typ = "DOC" /\ x.key \in alive
  <2>1. Entered(e, x, alive) = [e EXCEPT ![x.key] = [val |-> x.val, at |-> x.batch]]
    BY <1>3 DEF Entered
  <2>2. \A k \in Key : k # x.key => EntryOf(r, n, k, alive) = EntryOf(r, n - 1, k, alive)
    BY <1>2, <1>3 DEF IsDoc
  <2>3. NewestDoc(r, n, x.key) = n
    <3>1. IsDoc(r, n, x.key) /\ n \in 1..n /\ n \in 0..Len(r) /\ \A j \in n + 1..n : FALSE
      BY <1>3 DEF IsDoc
    <3>. QED BY <1>1, <3>1, NewestDocIs
  <2>4. EntryOf(r, n, x.key, alive) = [val |-> x.val, at |-> x.batch]
    <3>1. n \in 1..n /\ IsDoc(r, n, x.key)
      BY <1>3 DEF IsDoc
    <3>. QED BY <1>3, <2>3, <3>1 DEF EntryOf
  <2>. QED BY <1>1, <2>1, <2>2, <2>4 DEF EntriesOf
<1>4. CASE ~(x.typ = "DOC" /\ x.key \in alive)
  <2>1. Entered(e, x, alive) = e
    BY <1>4 DEF Entered
  <2>2. ASSUME NEW k \in Key PROVE EntryOf(r, n, k, alive) = EntryOf(r, n - 1, k, alive)
    <3>1. CASE IsDoc(r, n, k)
      <4>1. k \notin alive
        BY <1>4, <3>1 DEF IsDoc
      <4>. QED BY <4>1 DEF EntryOf
    <3>. QED BY <1>2, <3>1
  <2>. QED BY <2>1, <2>2 DEF EntriesOf
<1>. QED BY <1>3, <1>4

\* An entry is made of the newest DOC of each key whose newest record it is.
LEMMA EntriesIs ==
    ASSUME NEW r \in Seq(Record)
    PROVE  Entries(r) = EntriesOf(r, Len(r), LiveKeys(r, Len(r)))
<1> DEFINE L == Len(r)
           a == Alive(r)
           none == [k \in Key |-> [val |-> NoVal, at |-> 0]]
           f == CHOOSE f : f = [n \in 0..L |-> IF n = 0 THEN none ELSE Entered(f[n - 1], r[n], a)]
           g == [n \in 0..L |-> EntriesOf(r, n, a)]
<1>1. L \in Nat
  OBVIOUS
<1>2. Entries(r) = f[L]
  BY Zenon DEF Entries
<1>3. EntriesOf(r, 0, a) = none
  BY DEF EntriesOf, EntryOf
<1>4. \A n \in 1..L : Entered(EntriesOf(r, n - 1, a), r[n], a) = EntriesOf(r, n, a)
  BY EnteredIs
<1>12. a = LiveKeys(r, L)
  BY AliveIs
<1>. HIDE DEF L, none, a
<1>5. \A n \in 0..L : n # 0 => n \in 1..L /\ n - 1 \in 0..L
  BY <1>1
<1>6. g = [n \in 0..L |-> IF n = 0 THEN none ELSE Entered(g[n - 1], r[n], a)]
  BY <1>3, <1>4, <1>5
<1>7. f = [n \in 0..L |-> IF n = 0 THEN none ELSE Entered(f[n - 1], r[n], a)]
  BY <1>6, Zenon
<1>. HIDE DEF f
<1> DEFINE T == {n \in 0..L : f[n] = EntriesOf(r, n, a)}
<1>8. 0 \in T
  BY <1>1, <1>3, <1>7
<1>9. ASSUME NEW n \in 0..L, n # 0, n - 1 \in T PROVE n \in T
  <2>1. f[n] = Entered(f[n - 1], r[n], a)
    BY <1>7, <1>9
  <2>. QED BY <1>4, <1>5, <1>9, <2>1
<1>10. 0..L \subseteq T
  <2>. HIDE DEF T
  <2>. QED BY <1>1, <1>8, <1>9, AllTheWay
<1>11. f[L] = EntriesOf(r, L, a)
  BY <1>1, <1>10
<1>. QED BY <1>2, <1>11, <1>12 DEF L

-----------------------------------------------------------------------------
(* What is read from a file that has the records of a log *)

DelRecord(k, i) == [typ |-> "DEL", key |-> k, val |-> NoVal, batch |-> i]
DocRecord(k, v, i) == [typ |-> "DOC", key |-> k, val |-> v, batch |-> i]

LEMMA AnyKeyIsKey == AnyKey \in Key
BY ScanAssumption, Zenon DEF AnyKey

\* Says, a kind of record at a time.
LEMMA SaysRecords ==
    ASSUME NEW r \in Seq(Record), NEW l \in Log, Says(r, l)
    PROVE  /\ \A n \in 1..Len(r) : r[n].typ # "META" =>
                 r[n] \in Counting /\ r[n].batch \in 1..Len(l) /\ RecordIn(r[n], l[r[n].batch])
           /\ \A i \in 1..Len(l) : \A k \in l[i].dels :
                 \E n \in 1..Len(r) : r[n] = DelRecord(k, i)
           /\ \A i \in 1..Len(l), k \in Key : l[i].docs[k] # NoVal =>
                 \E n \in 1..Len(r) : r[n] = DocRecord(k, l[i].docs[k], i)
           /\ \A i \in 1..Len(l) : l[i].end = "commit" =>
                 \E n \in 1..Len(r) : r[n] = Plain("COMMIT", i)
           /\ \A i \in 1..Len(l) : l[i].end = "torn" =>
                 \E n \in 1..Len(r) : r[n] = Plain("torn", i)
<1>0. DOMAIN r = 1..Len(r) /\ \A n \in 1..Len(r) : r[n] \in Record
  OBVIOUS
<1>1. ASSUME NEW n \in 1..Len(r), r[n].typ # "META"
      PROVE  r[n] \in Counting /\ r[n].batch \in 1..Len(l) /\ RecordIn(r[n], l[r[n].batch])
  <2>1. r[n] \in Counting /\ Occurs(r[n], r)
    BY <1>0, <1>1 DEF Counting, Occurs
  <2>. QED BY <2>1, Zenon DEF Says
<1>2. ASSUME NEW x \in Counting, x.batch \in 1..Len(l), RecordIn(x, l[x.batch])
      PROVE  \E n \in 1..Len(r) : r[n] = x
  BY <1>0, <1>2, Zenon DEF Says, Occurs
<1>3. \A i \in 1..Len(l) : l[i] \in Batch /\ l[i].dels \subseteq Key /\ i \in Nat
                           /\ \A k \in Key : l[i].docs[k] \in MaybeVal
  <2>1. \A i \in 1..Len(l) : l[i] \in Batch /\ i \in Nat
    BY DEF Log
  <2>. QED BY <2>1 DEF Batch, View
<1>4. ASSUME NEW i \in 1..Len(l), NEW k \in l[i].dels
      PROVE  \E n \in 1..Len(r) : r[n] = DelRecord(k, i)
  <2>1. /\ DelRecord(k, i) \in Counting /\ DelRecord(k, i).batch = i
        /\ RecordIn(DelRecord(k, i), l[i])
    BY <1>3 DEF DelRecord, Counting, Record, MaybeVal, RecordIn
  <2>. QED BY <1>2, <2>1
<1>5. ASSUME NEW i \in 1..Len(l), NEW k \in Key, l[i].docs[k] # NoVal
      PROVE  \E n \in 1..Len(r) : r[n] = DocRecord(k, l[i].docs[k], i)
  <2> DEFINE x == DocRecord(k, l[i].docs[k], i)
  <2>1. x \in Counting /\ x.batch = i /\ RecordIn(x, l[i])
    BY <1>3, <1>5 DEF DocRecord, Counting, Record, RecordIn
  <2>. HIDE DEF x
  <2>2. \E n \in 1..Len(r) : r[n] = x
    BY <1>2, <2>1
  <2>. QED BY <2>2 DEF x
<1>6. ASSUME NEW i \in 1..Len(l), l[i].end = "commit"
      PROVE  \E n \in 1..Len(r) : r[n] = Plain("COMMIT", i)
  <2>1. /\ Plain("COMMIT", i) \in Counting /\ Plain("COMMIT", i).batch = i
        /\ RecordIn(Plain("COMMIT", i), l[i])
    BY <1>3, <1>6, AnyKeyIsKey DEF Plain, Counting, Record, MaybeVal, RecordIn
  <2>. QED BY <1>2, <2>1
<1>7. ASSUME NEW i \in 1..Len(l), l[i].end = "torn"
      PROVE  \E n \in 1..Len(r) : r[n] = Plain("torn", i)
  <2>1. /\ Plain("torn", i) \in Counting /\ Plain("torn", i).batch = i
        /\ RecordIn(Plain("torn", i), l[i])
    BY <1>3, <1>7, AnyKeyIsKey DEF Plain, Counting, Record, MaybeVal, RecordIn
  <2>. QED BY <1>2, <2>1
<1>. QED BY <1>1, <1>4, <1>5, <1>6, <1>7

\* A record lies before the last COMMIT when its batch counts.
LEMMA CommittedRecords ==
    ASSUME NEW r \in Seq(Record), NEW l \in Log, Says(r, l), InOrder(r),
           NEW n \in 1..Len(r), r[n].typ \in {"DEL", "DOC"}
    PROVE  n <= LastCommit(r) <=> r[n].batch \in Committed(l)
<1> DEFINE c == LastCommit(r)
           b == r[n].batch
<1>0. DOMAIN r = 1..Len(r)
  OBVIOUS
<1>1. r[n] \in Counting /\ b \in 1..Len(l)
  BY SaysRecords
<1>2. ASSUME n <= c PROVE b \in Committed(l)
  <2>1. c \in 1..Len(r) /\ r[c].typ = "COMMIT"
    BY <1>2, LastCommitIs
  <2>2. r[c] \in Counting /\ r[c].batch \in 1..Len(l) /\ RecordIn(r[c], l[r[c].batch])
    BY <2>1, SaysRecords
  <2>3. l[r[c].batch].end = "commit"
    BY <2>1, <2>2 DEF RecordIn
  <2>. HIDE DEF c
  <2>4. ~(r[c].batch < b)
    BY <1>0, <1>1, <1>2, <2>1, <2>2 DEF InOrder, Before
  <2>5. r[c].batch \in b..Len(l)
    BY <1>1, <2>2, <2>4
  <2>. QED BY <1>1, <2>3, <2>5 DEF Committed
<1>3. ASSUME b \in Committed(l) PROVE n <= c
  <2>1. PICK j \in b..Len(l) : l[j].end = "commit"
    BY <1>3 DEF Committed
  <2>2. j \in 1..Len(l)
    BY <1>1
  <2>3. PICK m \in 1..Len(r) : r[m] = Plain("COMMIT", j)
    BY <2>1, <2>2, SaysRecords
  <2>4. r[m].typ = "COMMIT" /\ r[m].batch = j
    BY <2>3 DEF Plain
  <2>5. r[m] \in Counting
    BY <2>4, SaysRecords
  <2>6. Rank(r[n]) < Rank(r[m])
    BY <2>4 DEF Rank
  <2>7. b < j \/ b = j
    BY <1>1
  <2>8. Before(r[n], r[m])
    BY <2>4, <2>6, <2>7 DEF Before
  <2>9. n < m
    BY <1>0, <1>1, <2>5, <2>8 DEF InOrder
  <2>10. c \in 1..Len(r) /\ m <= c
    BY <2>4, LastCommitIs
  <2>. HIDE DEF c
  <2>. QED BY <2>9, <2>10
<1>. QED BY <1>2, <1>3

\* The newest record of a key is one.
LEMMA NewestIs ==
    ASSUME NEW l \in Log, NEW k \in Key, NEW b \in Newest(l, k)
    PROVE  /\ ReplayKey(l, k) = l[b].docs[k]
           /\ l[b].docs[k] # NoVal => RecordOf(l, k) = b
<1>1. \A i \in Newest(l, k) : i = b
  BY DEF Newest, Committed
<1>2. (CHOOSE i \in Newest(l, k) : TRUE) = b
  BY <1>1
<1>3. ReplayKey(l, k) = l[b].docs[k]
  BY <1>2 DEF ReplayKey
<1>. QED BY <1>2, <1>3 DEF RecordOf

\* The records up to the last COMMIT.
LEMMA UpToCommit ==
    ASSUME NEW r \in Seq(Record), NEW s, s = SubSeq(r, 1, LastCommit(r))
    PROVE  /\ LastCommit(r) \in 0..Len(r) /\ s \in Seq(Record) /\ Len(s) = LastCommit(r)
           /\ \A i \in 1..LastCommit(r) : i \in 1..Len(r) /\ s[i] = r[i]
<1> DEFINE c == LastCommit(r)
<1>1. c \in 0..Len(r)
  BY LastCommitIs
<1>. HIDE DEF c
<1>2. \A i \in 1..c : i \in 1..Len(r) /\ r[i] \in Record
  BY <1>1
<1>3. s = [i \in 1..c |-> r[i]]
  BY <1>1 DEF c
<1>. QED BY <1>1, <1>2, <1>3 DEF c

LEMMA ScanReads ==
    ASSUME NEW r \in Seq(Record), NEW l \in Log, Says(r, l), InOrder(r), NEW k \in Key
    PROVE  Entries(SubSeq(r, 1, LastCommit(r)))[k] =
               [val |-> ReplayKey(l, k), at |-> RecordOf(l, k)]
<1> DEFINE c == LastCommit(r)
           s == SubSeq(r, 1, c)
           live == LiveKeys(s, c)
           e == Entries(s)
<1>0. DOMAIN r = 1..Len(r)
  OBVIOUS
<1>1. /\ c \in 0..Len(r) /\ s \in Seq(Record) /\ Len(s) = c
      /\ \A i \in 1..c : i \in 1..Len(r) /\ s[i] = r[i]
  BY UpToCommit
<1>2. e[k] = EntryOf(s, c, k, live)
  BY <1>1, EntriesIs DEF EntriesOf
<1>3. \A n \in 1..Len(r) : r[n].typ \in {"DEL", "DOC"} =>
          /\ n <= c <=> r[n].batch \in Committed(l)
          /\ r[n] \in Counting /\ r[n].batch \in 1..Len(l) /\ RecordIn(r[n], l[r[n].batch])
  BY CommittedRecords, SaysRecords
<1>4. \A i \in Committed(l) : i \in 1..Len(l)
  BY DEF Committed
<1>. HIDE DEF c, s, e, live
<1>5. CASE k \in live
  <2>1. PICK i0 \in 1..c : IsDoc(s, i0, k) /\ \A j \in i0 + 1..c : ~IsDel(s, j, k)
    BY <1>5 DEF live, LiveKeys, StoredLast
  <2>2. PICK i \in 1..c : IsDoc(s, i, k) /\ \A j \in i + 1..c : ~IsDoc(s, j, k)
    <3>1. c \in 0..Len(s) /\ \E j \in 1..c : IsDoc(s, j, k)
      BY <1>1, <2>1
    <3>. QED BY <1>1, <3>1, NewestDocExists
  <2>3. \A j \in i + 1..c : ~IsDel(s, j, k)
    <3>1. ~(i < i0)
      <4>1. i < i0 => i0 \in i + 1..c
        BY <1>1
      <4>. QED BY <2>1, <2>2, <4>1
    <3>2. \A j \in i + 1..c : j \in i0 + 1..c
      BY <1>1, <3>1
    <3>. QED BY <2>1, <3>2
  <2> DEFINE b == r[i].batch
  <2>4. i \in 1..Len(r) /\ r[i].typ = "DOC" /\ r[i].key = k /\ i <= c
    BY <1>1, <2>2 DEF IsDoc
  <2>5. /\ b \in Committed(l) /\ r[i] \in Counting /\ b \in 1..Len(l)
        /\ l[b].docs[k] = r[i].val /\ r[i].val # NoVal
    BY <1>3, <2>4 DEF RecordIn
  <2>6. ASSUME NEW j \in Committed(l), Mentions(l[j], k), ~(j <= b) PROVE FALSE
    <3>1. j \in 1..Len(l) /\ b < j
      BY <1>4, <2>5, <2>6
    <3>2. ASSUME NEW m \in 1..Len(r), r[m].typ \in {"DEL", "DOC"}, r[m].key = k, r[m].batch = j
          PROVE  FALSE
      <4>1. m <= c /\ r[m] \in Counting
        BY <1>3, <3>2
      <4>2. Before(r[i], r[m])
        BY <3>1, <3>2 DEF Before
      <4>3. i < m
        BY <1>0, <2>4, <2>5, <4>1, <4>2 DEF InOrder
      <4>4. m \in i + 1..c /\ m \in 1..c
        BY <1>1, <4>1, <4>3
      <4>. QED BY <1>1, <2>2, <2>3, <3>2, <4>4 DEF IsDoc, IsDel
    <3>3. CASE k \in l[j].dels
      <4>1. PICK m \in 1..Len(r) : r[m] = DelRecord(k, j)
        BY <3>1, <3>3, SaysRecords
      <4>. QED BY <3>2, <4>1 DEF DelRecord
    <3>4. CASE l[j].docs[k] # NoVal
      <4>1. PICK m \in 1..Len(r) : r[m] = DocRecord(k, l[j].docs[k], j)
        BY <3>1, <3>4, SaysRecords
      <4>. QED BY <3>2, <4>1 DEF DocRecord
    <3>. QED BY <2>6, <3>3, <3>4 DEF Mentions
  <2>7. b \in Newest(l, k)
    BY <2>5, <2>6 DEF Newest, Mentions
  <2>8. ReplayKey(l, k) = r[i].val /\ RecordOf(l, k) = b
    BY <2>5, <2>7, NewestIs
  <2>9. NewestDoc(s, c, k) = i
    <3>1. c \in 0..Len(s)
      BY <1>1
    <3>. QED BY <1>1, <2>2, <3>1, NewestDocIs
  <2>10. s[i] = r[i]
    BY <1>1
  <2>11. e[k] = [val |-> r[i].val, at |-> r[i].batch]
    BY <1>2, <1>5, <2>2, <2>9, <2>10 DEF EntryOf
  <2>. QED BY <2>8, <2>11 DEF e, s, c
<1>6. CASE k \notin live
  <2>1. e[k] = [val |-> NoVal, at |-> 0]
    BY <1>2, <1>6 DEF EntryOf
  <2>2. ASSUME NEW b \in Newest(l, k), l[b].docs[k] # NoVal PROVE FALSE
    <3>1. b \in Committed(l) /\ b \in 1..Len(l)
          /\ \A j \in Committed(l) : Mentions(l[j], k) => j <= b
      BY <1>4 DEF Newest
    <3>2. PICK i \in 1..Len(r) : r[i] = DocRecord(k, l[b].docs[k], b)
      BY <2>2, <3>1, SaysRecords
    <3>3. r[i].typ = "DOC" /\ r[i].key = k /\ r[i].batch = b
      BY <3>2 DEF DocRecord
    <3>4. i <= c /\ r[i] \in Counting
      BY <1>3, <3>1, <3>3
    <3>5. i \in 1..c /\ IsDoc(s, i, k)
      BY <1>1, <3>3, <3>4 DEF IsDoc
    <3>6. PICK j \in i + 1..c : IsDel(s, j, k)
      BY <1>6, <3>5 DEF live, LiveKeys, StoredLast
    <3>7. j \in 1..c /\ ~(j < i)
      BY <1>1
    <3>8. j \in 1..Len(r) /\ j <= c /\ r[j].typ = "DEL" /\ r[j].key = k
      BY <1>1, <3>6, <3>7 DEF IsDel
    <3>9. /\ r[j] \in Counting /\ r[j].batch \in Committed(l) /\ r[j].batch \in 1..Len(l)
          /\ k \in l[r[j].batch].dels
      BY <1>3, <3>8 DEF RecordIn
    <3>10. r[j].batch <= b
      BY <3>1, <3>9 DEF Mentions
    <3>11. r[j].batch < b \/ r[j].batch = b
      BY <3>1, <3>9, <3>10
    <3>12. Before(r[j], r[i])
      <4>1. Rank(r[j]) < Rank(r[i])
        BY <3>3, <3>8 DEF Rank
      <4>. QED BY <3>3, <3>11, <4>1 DEF Before
    <3>. QED BY <1>0, <3>4, <3>7, <3>8, <3>9, <3>12 DEF InOrder
  <2>3. ReplayKey(l, k) = NoVal
    <3>1. CASE Newest(l, k) = {}
      BY <3>1 DEF ReplayKey
    <3>2. CASE Newest(l, k) # {}
      <4>1. PICK b \in Newest(l, k) : TRUE
        BY <3>2
      <4>. QED BY <2>2, <4>1, NewestIs
    <3>. QED BY <3>1, <3>2
  <2>. QED BY <2>1, <2>3 DEF RecordOf, e, s, c
<1>. QED BY <1>5, <1>6

-----------------------------------------------------------------------------
(* Cutting the file at a torn record *)

LEMMA SomeHealed ==
    ASSUME NEW l \in Log
    PROVE  HealedLogs(l) # {}
<1>1. CASE TornAt(l) # {}
  <2>1. TornAt(l) \in SUBSET Nat
    BY DEF TornAt
  <2>2. PICK i \in TornAt(l) : \A j \in TornAt(l) : i <= j
    BY <1>1, <2>1, LeastExists
  <2>3. i \in FirstTorn(l)
    BY <2>2 DEF FirstTorn
  <2>. QED BY <1>1, <2>3 DEF HealedLogs
<1>. QED BY <1>1 DEF HealedLogs

\* A batch that is cut at its torn record keeps its DELs and DOCs.
LEMMA TruncatedSays ==
    ASSUME NEW l \in Log, NEW i \in 1..Len(l), l[i].end = "torn", NEW h, h = TruncateAt(l, i)
    PROVE  /\ h \in Log
           /\ \A x \in Counting :
                 x.batch \in 1..Len(h) /\ RecordIn(x, h[x.batch]) <=>
                    \/ x.batch \in 1..i - 1 /\ RecordIn(x, l[x.batch])
                    \/ x.batch = i /\ x.typ \in {"DEL", "DOC"} /\ RecordIn(x, l[i])
<1> DEFINE b == [l[i] EXCEPT !.end = "cut"]
           q == SubSeq(l, 1, i - 1)
<1>0. l \in Seq(Batch) /\ l[i] \in Batch
  BY DEF Log
<1>1. /\ q \in Seq(Batch) /\ Len(q) = i - 1
      /\ \A j \in 1..i - 1 : q[j] = l[j]
  <2>1. \A j \in 1..i - 1 : j \in 1..Len(l)
    OBVIOUS
  <2>. HIDE DEF Batch
  <2>. QED BY <1>0, <2>1
<1>2. b \in Batch /\ b.dels = l[i].dels /\ b.docs = l[i].docs /\ b.end = "cut"
  BY <1>0 DEF Batch, Endings
<1>3. ASSUME NEW x \in Counting
      PROVE  RecordIn(x, b) <=> x.typ \in {"DEL", "DOC"} /\ RecordIn(x, l[i])
  <2>. HIDE DEF b
  <2>. QED BY <1>2, <1>3 DEF RecordIn
<1>. HIDE DEF b, q
<1>4. CASE HasRecords(l[i])
  <2>1. h = Append(q, b)
    BY <1>4 DEF TruncateAt, q, b
  <2>2. /\ h \in Seq(Batch) /\ Len(h) = i
        /\ \A j \in 1..i - 1 : h[j] = l[j]
        /\ h[i] = b
    BY <1>1, <1>2, <2>1
  <2>3. ASSUME NEW x \in Counting
        PROVE  x.batch \in 1..Len(h) /\ RecordIn(x, h[x.batch]) <=>
                  \/ x.batch \in 1..i - 1 /\ RecordIn(x, l[x.batch])
                  \/ x.batch = i /\ x.typ \in {"DEL", "DOC"} /\ RecordIn(x, l[i])
    <3>1. x.batch \in 1..Len(h) <=> x.batch \in 1..i - 1 \/ x.batch = i
      BY <2>2
    <3>2. CASE x.batch = i
      <4>1. x.batch \notin 1..i - 1
        BY <3>2
      <4>. QED BY <1>3, <2>2, <3>1, <3>2, <4>1
    <3>3. CASE x.batch # i
      BY <2>2, <3>1, <3>3
    <3>. QED BY <3>2, <3>3
  <2>. QED BY <2>2, <2>3 DEF Log
<1>5. CASE ~HasRecords(l[i])
  <2>1. h = q
    BY <1>5 DEF TruncateAt, q
  <2>2. ASSUME NEW x \in Counting, x.typ \in {"DEL", "DOC"}, RecordIn(x, l[i]) PROVE FALSE
    <3>1. x.key \in Key
      BY DEF Counting, Record
    <3>. QED BY <1>5, <2>2, <3>1 DEF RecordIn, HasRecords, Mentions
  <2>. QED BY <1>1, <2>1, <2>2 DEF Log
<1>. QED BY <1>4, <1>5

\* What the first pass reads is the log as opening heals it.
LEMMA ParsedSays ==
    ASSUME NEW r \in Seq(Record), NEW l \in Log, Says(r, l), InOrder(r),
           NEW h \in HealedLogs(l)
    PROVE  /\ Parsed(r) \in Seq(Record) /\ h \in Log
           /\ Says(Parsed(r), h) /\ InOrder(Parsed(r))
<1>0. DOMAIN r = 1..Len(r)
  OBVIOUS
<1>1. CASE (\A n \in 1..Len(r) : r[n].typ # "torn") /\ Parsed(r) = r
  <2>1. ASSUME NEW i \in TornAt(l) PROVE FALSE
    <3>1. i \in 1..Len(l) /\ l[i].end = "torn"
      BY DEF TornAt
    <3>2. PICK n \in 1..Len(r) : r[n] = Plain("torn", i)
      BY <3>1, SaysRecords
    <3>. QED BY <1>1, <3>2 DEF Plain
  <2>2. h = l
    BY <2>1 DEF HealedLogs
  <2>. QED BY <1>1, <2>2
<1>2. ASSUME NEW t \in 1..Len(r), r[t].typ = "torn", \A n \in 1..t - 1 : r[n].typ # "torn",
             Parsed(r) = SubSeq(r, 1, t - 1)
      PROVE  /\ Parsed(r) \in Seq(Record) /\ h \in Log
             /\ Says(Parsed(r), h) /\ InOrder(Parsed(r))
  <2> DEFINE i == r[t].batch
             p == Parsed(r)
  <2>1. r[t] \in Counting /\ i \in 1..Len(l) /\ l[i].end = "torn"
    BY <1>2, SaysRecords DEF RecordIn
  <2>2. /\ p \in Seq(Record) /\ DOMAIN p = 1..t - 1
        /\ \A n \in 1..t - 1 : n \in 1..Len(r) /\ p[n] = r[n]
    <3>1. t - 1 \in 0..Len(r)
      OBVIOUS
    <3>2. \A n \in 1..t - 1 : n \in 1..Len(r) /\ r[n] \in Record
      OBVIOUS
    <3>3. p = [n \in 1..t - 1 |-> r[n]]
      BY <1>2, <3>1
    <3>. QED BY <3>1, <3>2, <3>3
  <2>3. ASSUME NEW j \in TornAt(l), j < i PROVE FALSE
    <3>1. j \in 1..Len(l) /\ l[j].end = "torn"
      BY DEF TornAt
    <3>2. PICK m \in 1..Len(r) : r[m] = Plain("torn", j)
      BY <3>1, SaysRecords
    <3>3. r[m].typ = "torn" /\ r[m].batch = j
      BY <3>2 DEF Plain
    <3>4. r[m] \in Counting
      BY <3>3, SaysRecords
    <3>5. m < t
      BY <1>0, <2>1, <2>3, <3>3, <3>4 DEF InOrder, Before
    <3>6. m \in 1..t - 1
      BY <3>5
    <3>. QED BY <1>2, <3>3, <3>6
  <2>4. h = TruncateAt(l, i)
    <3>1. i \in TornAt(l)
      BY <2>1 DEF TornAt
    <3>2. \A j \in FirstTorn(l) : j = i
      BY <2>1, <2>3, <3>1 DEF FirstTorn, TornAt
    <3>. QED BY <3>1, <3>2 DEF HealedLogs
  <2>5. /\ h \in Log
        /\ \A x \in Counting :
              x.batch \in 1..Len(h) /\ RecordIn(x, h[x.batch]) <=>
                 \/ x.batch \in 1..i - 1 /\ RecordIn(x, l[x.batch])
                 \/ x.batch = i /\ x.typ \in {"DEL", "DOC"} /\ RecordIn(x, l[i])
    <3>. HIDE DEF i
    <3>. QED BY <2>1, <2>4, TruncatedSays
  <2>. HIDE DEF p
  <2>6. ASSUME NEW n \in 1..t - 1, r[n].typ # "META"
        PROVE  \/ r[n].batch \in 1..i - 1 /\ RecordIn(r[n], l[r[n].batch])
               \/ r[n].batch = i /\ r[n].typ \in {"DEL", "DOC"} /\ RecordIn(r[n], l[i])
    <3>1. n \in 1..Len(r) /\ ~(t < n)
      OBVIOUS
    <3>2. r[n] \in Counting /\ r[n].batch \in 1..Len(l) /\ RecordIn(r[n], l[r[n].batch])
      BY <2>6, <3>1, SaysRecords
    <3>3. ~(i < r[n].batch)
      BY <1>0, <2>1, <3>1, <3>2 DEF InOrder, Before
    <3>4. r[n].batch \in 1..i - 1 \/ r[n].batch = i
      BY <2>1, <3>2, <3>3
    <3>5. r[n].typ # "torn"
      BY <1>2
    <3>6. r[n].batch = i => r[n].typ \in {"DEL", "DOC"}
      BY <2>1, <3>2, <3>5 DEF RecordIn
    <3>. QED BY <3>2, <3>4, <3>6
  <2>7. ASSUME NEW x \in Counting,
               \/ x.batch \in 1..i - 1 /\ RecordIn(x, l[x.batch])
               \/ x.batch = i /\ x.typ \in {"DEL", "DOC"} /\ RecordIn(x, l[i])
        PROVE  \E n \in 1..t - 1 : r[n] = x
    <3>1. x.batch \in 1..Len(l) /\ RecordIn(x, l[x.batch])
      BY <2>1, <2>7
    <3>2. PICK n \in 1..Len(r) : r[n] = x
      BY <1>0, <3>1 DEF Says, Occurs
    <3>3. Before(x, r[t])
      <4>1. CASE x.batch \in 1..i - 1
        BY <2>1, <4>1 DEF Before
      <4>2. CASE x.batch = i /\ x.typ \in {"DEL", "DOC"}
        <5>1. Rank(x) < Rank(r[t])
          BY <1>2, <4>2 DEF Rank
        <5>. QED BY <4>2, <5>1 DEF Before
      <4>. QED BY <2>7, <4>1, <4>2
    <3>4. n < t
      BY <1>0, <2>1, <3>2, <3>3 DEF InOrder
    <3>. QED BY <3>2, <3>4
  <2>8. Says(p, h)
    <3>1. ASSUME NEW x \in Counting, Occurs(x, p)
          PROVE  x.batch \in 1..Len(h) /\ RecordIn(x, h[x.batch])
      <4>1. PICK n \in 1..t - 1 : r[n] = x
        BY <2>2, <3>1 DEF Occurs
      <4>2. x.typ # "META"
        BY DEF Counting
      <4>. HIDE DEF i
      <4>. QED BY <2>5, <2>6, <4>1, <4>2
    <3>2. ASSUME NEW x \in Counting, x.batch \in 1..Len(h) /\ RecordIn(x, h[x.batch])
          PROVE  Occurs(x, p)
      <4>1. \E n \in 1..t - 1 : r[n] = x
        <5>. HIDE DEF i
        <5>. QED BY <2>5, <2>7, <3>2
      <4>. QED BY <2>2, <4>1 DEF Occurs
    <3>. QED BY <3>1, <3>2 DEF Says
  <2>9. InOrder(p)
    BY <1>0, <2>2 DEF InOrder
  <2>. QED BY <2>2, <2>5, <2>8, <2>9 DEF p
<1>3. \/ (\A n \in 1..Len(r) : r[n].typ # "torn") /\ Parsed(r) = r
      \/ \E t \in 1..Len(r) :
            /\ r[t].typ = "torn" /\ \A n \in 1..t - 1 : r[n].typ # "torn"
            /\ Parsed(r) = SubSeq(r, 1, t - 1)
  BY ParsedIs
<1>. QED BY <1>1, <1>2, <1>3

-----------------------------------------------------------------------------
(* Lists of records, one after the other *)

LEMMA Joined ==
    ASSUME NEW K, NEW s \in Seq(K), NEW t \in Seq(K)
    PROVE  /\ s \o t \in Seq(K) /\ Len(s \o t) = Len(s) + Len(t)
           /\ \A n \in 1..Len(s) : n \in 1..Len(s \o t) /\ (s \o t)[n] = s[n]
           /\ \A n \in 1..Len(t) : Len(s) + n \in 1..Len(s \o t) /\ (s \o t)[Len(s) + n] = t[n]
           /\ \A n \in 1..Len(s \o t) :
                 n \in 1..Len(s) \/ \E j \in 1..Len(t) : n = Len(s) + j
<1> DEFINE L == Len(s)
           M == Len(t)
           r == s \o t
<1>1. /\ r \in Seq(K) /\ L \in Nat /\ M \in Nat /\ Len(r) = L + M
      /\ \A n \in 1..L + M : r[n] = IF n <= L THEN s[n] ELSE t[n - L]
  BY ConcatProperties
<1>. HIDE DEF L, M, r
<1>2. \A n \in 1..L : n \in 1..L + M /\ n <= L
  BY <1>1
<1>3. \A n \in 1..M : L + n \in 1..L + M /\ ~(L + n <= L) /\ (L + n) - L = n
  BY <1>1
<1>4. ASSUME NEW n \in 1..L + M PROVE n \in 1..L \/ \E j \in 1..M : n = L + j
  <2>1. n \notin 1..L => n - L \in 1..M /\ n = L + (n - L)
    BY <1>1
  <2>. QED BY <2>1
<1>. QED BY <1>1, <1>2, <1>3, <1>4 DEF L, M, r

LEMMA OccursJoined ==
    ASSUME NEW s \in Seq(Record), NEW t \in Seq(Record), NEW x
    PROVE  Occurs(x, s \o t) <=> Occurs(x, s) \/ Occurs(x, t)
<1> DEFINE L == Len(s)
           r == s \o t
<1>1. DOMAIN s = 1..L /\ DOMAIN t = 1..Len(t) /\ DOMAIN r = 1..Len(r)
  BY Joined, LenProperties
<1>2. /\ \A n \in 1..L : n \in 1..Len(r) /\ r[n] = s[n]
      /\ \A n \in 1..Len(t) : L + n \in 1..Len(r) /\ r[L + n] = t[n]
      /\ \A n \in 1..Len(r) : n \in 1..L \/ \E j \in 1..Len(t) : n = L + j
  BY Joined
<1>. HIDE DEF L, r
<1>3. ASSUME NEW n \in 1..Len(r), r[n] = x PROVE Occurs(x, s) \/ Occurs(x, t)
  <2>1. CASE n \in 1..L
    BY <1>1, <1>2, <1>3, <2>1 DEF Occurs
  <2>2. ASSUME NEW j \in 1..Len(t), n = L + j PROVE Occurs(x, t)
    BY <1>1, <1>2, <1>3, <2>2 DEF Occurs
  <2>. QED BY <1>2, <2>1, <2>2
<1>4. Occurs(x, r) <=> Occurs(x, s) \/ Occurs(x, t)
  <2>1. Occurs(x, r) => Occurs(x, s) \/ Occurs(x, t)
    BY <1>1, <1>3 DEF Occurs
  <2>2. Occurs(x, s) => Occurs(x, r)
    BY <1>1, <1>2 DEF Occurs
  <2>3. ASSUME Occurs(x, t) PROVE Occurs(x, r)
    <3>1. PICK n \in 1..Len(t) : t[n] = x
      BY <1>1, <2>3 DEF Occurs
    <3>2. L + n \in 1..Len(r) /\ r[L + n] = x
      BY <1>2, <3>1
    <3>. QED BY <1>1, <3>2 DEF Occurs
  <2>. QED BY <2>1, <2>2, <2>3
<1>. QED BY <1>4 DEF r

LEMMA InOrderJoined ==
    ASSUME NEW s \in Seq(Record), NEW t \in Seq(Record), InOrder(s), InOrder(t),
           \A m \in 1..Len(s), n \in 1..Len(t) :
              s[m] \in Counting /\ t[n] \in Counting => ~Before(t[n], s[m])
    PROVE  InOrder(s \o t)
<1> DEFINE L == Len(s)
           r == s \o t
<1>1. /\ DOMAIN s = 1..L /\ DOMAIN t = 1..Len(t) /\ DOMAIN r = 1..Len(r)
      /\ L \in Nat /\ Len(t) \in Nat
  BY Joined, LenProperties
<1>2. /\ \A n \in 1..L : r[n] = s[n]
      /\ \A n \in 1..Len(t) : r[L + n] = t[n]
      /\ \A n \in 1..Len(r) : n \in 1..L \/ \E j \in 1..Len(t) : n = L + j
  BY Joined
<1>. HIDE DEF L, r
<1>3. ASSUME NEW m \in 1..Len(r), NEW n \in 1..Len(r),
             r[m] \in Counting, r[n] \in Counting, Before(r[m], r[n])
      PROVE  m < n
  <2>1. CASE m \in 1..L /\ n \in 1..L
    BY <1>1, <1>2, <1>3, <2>1 DEF InOrder
  <2>2. ASSUME m \in 1..L, NEW j \in 1..Len(t), n = L + j PROVE m < n
    BY <1>1, <2>2
  <2>3. ASSUME NEW i \in 1..Len(t), m = L + i, n \in 1..L PROVE FALSE
    BY <1>2, <1>3, <2>3 DEF L
  <2>4. ASSUME NEW i \in 1..Len(t), m = L + i, NEW j \in 1..Len(t), n = L + j PROVE m < n
    <3>1. i < j
      BY <1>1, <1>2, <1>3, <2>4 DEF InOrder
    <3>. QED BY <1>1, <2>4, <3>1
  <2>. QED BY <1>2, <2>1, <2>2, <2>3, <2>4
<1>4. InOrder(r)
  BY <1>1, <1>3 DEF InOrder
<1>. QED BY <1>4 DEF r

\* The records e are those of batch b, the i-th of its log.
Fits(e, b, i) == \A x \in Counting : Occurs(x, e) <=> x.batch = i /\ RecordIn(x, b)

LEMMA ExtendedSays ==
    ASSUME NEW r \in Seq(Record), NEW l \in Log, Says(r, l), InOrder(r),
           NEW e \in Seq(Record), NEW b \in Batch, Fits(e, b, Len(l) + 1), InOrder(e)
    PROVE  Append(l, b) \in Log /\ Says(r \o e, Append(l, b)) /\ InOrder(r \o e)
<1> DEFINE L == Len(l)
           k == Append(l, b)
<1>1. /\ L \in Nat /\ k \in Log /\ Len(k) = L + 1
      /\ \A i \in 1..L : k[i] = l[i]
      /\ k[L + 1] = b
  <2>1. l \in Seq(Batch)
    BY DEF Log
  <2>. HIDE DEF Batch
  <2>. QED BY <2>1 DEF Log
<1>. HIDE DEF L, k
<1>2. Says(r \o e, k)
  <2>1. ASSUME NEW x \in Counting
        PROVE  Occurs(x, r \o e) <=> x.batch \in 1..Len(k) /\ RecordIn(x, k[x.batch])
    <3>1. Occurs(x, r) <=> x.batch \in 1..L /\ RecordIn(x, l[x.batch])
      BY DEF Says, L
    <3>2. Occurs(x, e) <=> x.batch = L + 1 /\ RecordIn(x, b)
      BY DEF Fits, L
    <3>3. x.batch \in 1..Len(k) <=> x.batch \in 1..L \/ x.batch = L + 1
      BY <1>1
    <3>4. Occurs(x, r \o e) <=> Occurs(x, r) \/ Occurs(x, e)
      BY OccursJoined
    <3>5. CASE x.batch = L + 1
      <4>1. x.batch \notin 1..L
        BY <1>1, <3>5
      <4>. QED BY <1>1, <3>1, <3>2, <3>3, <3>4, <3>5, <4>1
    <3>6. CASE x.batch # L + 1
      BY <1>1, <3>1, <3>2, <3>3, <3>4, <3>6
    <3>. QED BY <3>5, <3>6
  <2>. QED BY <2>1 DEF Says
<1>3. InOrder(r \o e)
  <2>1. ASSUME NEW m \in 1..Len(r), NEW n \in 1..Len(e), r[m] \in Counting, e[n] \in Counting
        PROVE  ~Before(e[n], r[m])
    <3>1. Occurs(r[m], r) /\ Occurs(e[n], e)
      BY DEF Occurs
    <3>2. r[m].batch \in 1..L
      BY <2>1, <3>1 DEF Says, L
    <3>3. e[n].batch = L + 1
      BY <2>1, <3>1 DEF Fits, L
    <3>. QED BY <1>1, <3>2, <3>3 DEF Before
  <2>. QED BY <2>1, InOrderJoined
<1>. QED BY <1>1, <1>2, <1>3 DEF k

\* META changes nothing.
LEMMA UncountedSays ==
    ASSUME NEW r \in Seq(Record), NEW l \in Log, Says(r, l), InOrder(r),
           NEW e \in Seq(Record), \A n \in 1..Len(e) : e[n] \notin Counting
    PROVE  Says(r \o e, l) /\ InOrder(r \o e)
<1>1. DOMAIN e = 1..Len(e)
  OBVIOUS
<1>2. \A x \in Counting : ~Occurs(x, e)
  BY <1>1 DEF Occurs
<1>3. Says(r \o e, l)
  <2>1. \A x \in Counting : Occurs(x, r \o e) <=> Occurs(x, r)
    BY <1>2, OccursJoined
  <2>. QED BY <2>1 DEF Says
<1>4. InOrder(e)
  BY <1>1 DEF InOrder
<1>5. InOrder(r \o e)
  BY <1>4, InOrderJoined
<1>. QED BY <1>3, <1>5

-----------------------------------------------------------------------------
(* The records of a batch *)

LEMMA SeqsList ==
    ASSUME NEW S \in SUBSET Key, NEW d \in SetToSeqs(S)
    PROVE  /\ d \in Seq(S) /\ DOMAIN d = 1..Len(d) /\ Len(d) \in Nat
           /\ \A k \in S : \E n \in 1..Len(d) : d[n] = k
<1> DEFINE c == Cardinality(S)
           D == 1..c
<1>1. IsFiniteSet(S) /\ c \in Nat
  BY ScanAssumption, FS_Subset, FS_CardinalityType
<1>2. d \in [D -> S] /\ \A i, j \in D : i # j => d[i] # d[j]
  BY Zenon DEF SetToSeqs
<1>3. d \in Injection(D, S)
  BY <1>2 DEF Injection, IsInjective
<1>4. IsFiniteSet(D) /\ Cardinality(D) = c
  <2>1. c > 0 => Cardinality(D) = c
    BY <1>1, FS_Interval
  <2>2. c = 0 => Cardinality(D) = c
    BY <1>1, FS_Interval
  <2>. QED BY <1>1, <2>1, <2>2, FS_Interval
<1>5. d \in Surjection(D, S)
  BY <1>1, <1>3, <1>4, FS_Injection
<1>6. \A k \in S : \E n \in D : d[n] = k
  BY <1>5 DEF Surjection
<1>7. d \in Seq(S) /\ Len(d) = c /\ DOMAIN d = D
  <2>. HIDE DEF c
  <2>. QED BY <1>1, <1>2
<1>. HIDE DEF c
<1>. QED BY <1>1, <1>6, <1>7

\* Every record has a document when it is a DOC and no document otherwise.
FineRecord == {x \in Record : x.typ = "DOC" <=> x.val # NoVal}

LEMMA DelRecordsAre ==
    ASSUME NEW b \in Batch, NEW i \in Nat, NEW dels \in SetToSeqs(b.dels)
    PROVE  /\ DelRecords(b, dels, i) \in Seq(FineRecord)
           /\ \A n \in 1..Len(DelRecords(b, dels, i)) :
                 \E k \in b.dels : DelRecords(b, dels, i)[n] = DelRecord(k, i)
           /\ \A k \in b.dels : Occurs(DelRecord(k, i), DelRecords(b, dels, i))
<1> DEFINE e == DelRecords(b, dels, i)
           L == Len(dels)
<1>0. b.dels \in SUBSET Key
  BY DEF Batch
<1>1. /\ dels \in Seq(b.dels) /\ DOMAIN dels = 1..L /\ L \in Nat
      /\ \A k \in b.dels : \E n \in 1..L : dels[n] = k
  BY <1>0, SeqsList
<1>2. e = [n \in 1..L |-> DelRecord(dels[n], i)]
  BY <1>1 DEF DelRecords, DelRecord
<1>3. \A n \in 1..L : dels[n] \in b.dels
  BY <1>1
<1>. HIDE DEF e, L
<1>4. \A k \in b.dels : DelRecord(k, i) \in FineRecord
  BY <1>0 DEF DelRecord, FineRecord, Record, MaybeVal
<1>5. e \in Seq(FineRecord) /\ Len(e) = L /\ DOMAIN e = 1..L
  BY <1>1, <1>2, <1>3, <1>4
<1>6. \A n \in 1..L : \E k \in b.dels : e[n] = DelRecord(k, i)
  BY <1>2, <1>3
<1>7. \A k \in b.dels : Occurs(DelRecord(k, i), e)
  BY <1>1, <1>2, <1>5 DEF Occurs
<1>. QED BY <1>5, <1>6, <1>7 DEF e

LEMMA DocRecordsAre ==
    ASSUME NEW b \in Batch, NEW i \in Nat, NEW docs \in SetToSeqs(Stored(b))
    PROVE  /\ DocRecords(b, docs, i) \in Seq(FineRecord)
           /\ \A n \in 1..Len(DocRecords(b, docs, i)) :
                 \E k \in Stored(b) : DocRecords(b, docs, i)[n] = DocRecord(k, b.docs[k], i)
           /\ \A k \in Stored(b) : Occurs(DocRecord(k, b.docs[k], i), DocRecords(b, docs, i))
<1> DEFINE e == DocRecords(b, docs, i)
           L == Len(docs)
<1>0. Stored(b) \in SUBSET Key
  BY DEF Stored
<1>1. /\ docs \in Seq(Stored(b)) /\ DOMAIN docs = 1..L /\ L \in Nat
      /\ \A k \in Stored(b) : \E n \in 1..L : docs[n] = k
  BY <1>0, SeqsList
<1>2. e = [n \in 1..L |-> DocRecord(docs[n], b.docs[docs[n]], i)]
  BY <1>1 DEF DocRecords, DocRecord
<1>3. \A n \in 1..L : docs[n] \in Stored(b)
  BY <1>1
<1>. HIDE DEF e, L
<1>4. \A k \in Stored(b) : DocRecord(k, b.docs[k], i) \in FineRecord
  BY DEF DocRecord, FineRecord, Record, MaybeVal, Stored, Batch, View
<1>5. e \in Seq(FineRecord) /\ Len(e) = L /\ DOMAIN e = 1..L
  BY <1>1, <1>2, <1>3, <1>4
<1>6. \A n \in 1..L : \E k \in Stored(b) : e[n] = DocRecord(k, b.docs[k], i)
  BY <1>2, <1>3
<1>7. \A k \in Stored(b) : Occurs(DocRecord(k, b.docs[k], i), e)
  <2>1. ASSUME NEW k \in Stored(b) PROVE Occurs(DocRecord(k, b.docs[k], i), e)
    <3>1. PICK n \in 1..L : docs[n] = k
      BY <1>1
    <3>2. n \in DOMAIN e /\ e[n] = DocRecord(k, b.docs[k], i)
      BY <1>2, <1>5, <3>1
    <3>. QED BY <3>2 DEF Occurs
  <2>. QED BY <2>1
<1>. QED BY <1>5, <1>6, <1>7 DEF e

\* What makes a list of records an encoding of a batch.
Encoded(e, b, i) ==
    /\ e \in Seq(FineRecord) /\ Len(e) \in Nat \ {0}
    /\ Fits(e, b, i) /\ InOrder(e)
    /\ \A n \in 1..Len(e) : e[n].typ = "COMMIT" => n = Len(e)
    /\ \A n \in 1..Len(e) : e[n].typ # "torn"

LEMMA RecordInIs ==
    ASSUME NEW b \in CompleteBatch, NEW i \in Nat, NEW x \in Counting
    PROVE  x.batch = i /\ RecordIn(x, b) <=>
              \/ \E k \in b.dels : x = DelRecord(k, i)
              \/ \E k \in Stored(b) : x = DocRecord(k, b.docs[k], i)
              \/ x = Plain("COMMIT", i)
<1>0. x \in Record /\ x = [typ |-> x.typ, key |-> x.key, val |-> x.val, batch |-> x.batch]
      /\ x.key \in Key
  BY DEF Counting, Record
<1>1. b.end = "commit"
  BY DEF CompleteBatch
<1>2. ASSUME x.batch = i, RecordIn(x, b)
      PROVE  \/ \E k \in b.dels : x = DelRecord(k, i)
             \/ \E k \in Stored(b) : x = DocRecord(k, b.docs[k], i)
             \/ x = Plain("COMMIT", i)
  <2>1. CASE x.typ = "DEL" /\ x.key \in b.dels /\ x.val = NoVal
    BY <1>0, <1>2, <2>1 DEF DelRecord
  <2>2. CASE x.typ = "DOC" /\ x.val = b.docs[x.key] /\ x.val # NoVal
    <3>1. x.key \in Stored(b) /\ x = DocRecord(x.key, b.docs[x.key], i)
      BY <1>0, <1>2, <2>2 DEF DocRecord, Stored
    <3>. QED BY <3>1
  <2>3. CASE x.typ = "COMMIT" /\ x.key = AnyKey /\ x.val = NoVal
    BY <1>0, <1>2, <2>3 DEF Plain
  <2>. QED BY <1>1, <1>2, <2>1, <2>2, <2>3 DEF RecordIn
<1>3. \A k \in b.dels : x = DelRecord(k, i) => x.batch = i /\ RecordIn(x, b)
  BY DEF DelRecord, RecordIn
<1>4. \A k \in Stored(b) : x = DocRecord(k, b.docs[k], i) => x.batch = i /\ RecordIn(x, b)
  BY DEF DocRecord, RecordIn, Stored
<1>5. x = Plain("COMMIT", i) => x.batch = i /\ RecordIn(x, b)
  BY <1>1 DEF Plain, RecordIn
<1>. QED BY <1>2, <1>3, <1>4, <1>5

LEMMA EncodeIs ==
    ASSUME NEW b \in CompleteBatch, NEW i \in Nat, NEW e \in Encode(b, i)
    PROVE  Encoded(e, b, i)
<1>0. b \in Batch
  BY DEF CompleteBatch
<1>1. PICK dels \in SetToSeqs(b.dels), docs \in SetToSeqs(Stored(b)) :
          e = DelRecords(b, dels, i) \o DocRecords(b, docs, i)
                 \o <<Plain("META", i), Plain("COMMIT", i)>>
  <2>1. \E dels \in SetToSeqs(b.dels), docs \in SetToSeqs(Stored(b)) : e = Encoding(b, dels, docs, i)
    BY DEF Encode
  <2>. QED BY <2>1 DEF Encoding
<1> DEFINE p == DelRecords(b, dels, i)
           q == DocRecords(b, docs, i)
           m == Plain("META", i)
           c == Plain("COMMIT", i)
           z == <<m, c>>
           pq == p \o q
<1>2. /\ p \in Seq(FineRecord)
      /\ \A n \in 1..Len(p) : \E k \in b.dels : p[n] = DelRecord(k, i)
      /\ \A k \in b.dels : Occurs(DelRecord(k, i), p)
  BY <1>0, DelRecordsAre
<1>3. /\ q \in Seq(FineRecord)
      /\ \A n \in 1..Len(q) : \E k \in Stored(b) : q[n] = DocRecord(k, b.docs[k], i)
      /\ \A k \in Stored(b) : Occurs(DocRecord(k, b.docs[k], i), q)
  BY <1>0, DocRecordsAre
<1>4. /\ m \in FineRecord /\ m.typ = "META" /\ m \notin Counting
      /\ c \in FineRecord /\ c.typ = "COMMIT" /\ c \in Counting /\ c.batch = i
  BY AnyKeyIsKey DEF Plain, FineRecord, Record, MaybeVal, Counting
<1>5. FineRecord \subseteq Record
  BY DEF FineRecord
<1>6. e = pq \o z
  BY <1>1
<1>. HIDE DEF p, q, m, c
<1>7. z \in Seq(FineRecord) /\ Len(z) = 2 /\ DOMAIN z = 1..2 /\ z[1] = m /\ z[2] = c
  <2>. HIDE DEF FineRecord
  <2>. QED BY <1>4
<1>. HIDE DEF z
<1>8. p \in Seq(Record) /\ q \in Seq(Record) /\ z \in Seq(Record)
  BY <1>2, <1>3, <1>5, <1>7, SeqMonotonic
<1>9. pq \in Seq(FineRecord) /\ Len(pq) = Len(p) + Len(q) /\ pq \in Seq(Record)
  BY <1>2, <1>3, <1>5, ConcatProperties, SeqMonotonic
<1>10. /\ \A n \in 1..Len(p) : p[n].typ = "DEL" /\ p[n].batch = i
       /\ \A n \in 1..Len(q) : q[n].typ = "DOC" /\ q[n].batch = i
  <2>1. ASSUME NEW n \in 1..Len(p) PROVE p[n].typ = "DEL" /\ p[n].batch = i
    <3>1. PICK k \in b.dels : p[n] = DelRecord(k, i)
      BY <1>2
    <3>. QED BY <3>1 DEF DelRecord
  <2>2. ASSUME NEW n \in 1..Len(q) PROVE q[n].typ = "DOC" /\ q[n].batch = i
    <3>1. PICK k \in Stored(b) : q[n] = DocRecord(k, b.docs[k], i)
      BY <1>3
    <3>. QED BY <3>1 DEF DocRecord
  <2>. QED BY <2>1, <2>2
<1>11. \A n \in 1..Len(pq) : pq[n].typ \in {"DEL", "DOC"} /\ pq[n].batch = i
  <2>1. ASSUME NEW n \in 1..Len(pq) PROVE pq[n].typ \in {"DEL", "DOC"} /\ pq[n].batch = i
    <3>1. CASE n \in 1..Len(p)
      <4>1. pq[n] = p[n]
        BY <1>8, <3>1, Joined
      <4>. QED BY <1>10, <3>1, <4>1
    <3>2. ASSUME NEW j \in 1..Len(q), n = Len(p) + j
          PROVE  pq[n].typ \in {"DEL", "DOC"} /\ pq[n].batch = i
      <4>1. pq[n] = q[j]
        BY <1>8, <3>2, Joined
      <4>. QED BY <1>10, <3>2, <4>1
    <3>. QED BY <1>8, <3>1, <3>2, Joined
  <2>. QED BY <2>1
<1>12. InOrder(pq)
  <2>1. InOrder(p) /\ InOrder(q)
    <3>1. DOMAIN p = 1..Len(p) /\ DOMAIN q = 1..Len(q)
      BY <1>8, LenProperties
    <3>. QED BY <1>4, <1>10, <3>1 DEF InOrder, Before, Rank
  <2>2. ASSUME NEW j \in 1..Len(p), NEW n \in 1..Len(q) PROVE ~Before(q[n], p[j])
    BY <1>10 DEF Before, Rank
  <2>. QED BY <1>8, <2>1, <2>2, InOrderJoined
<1>. HIDE DEF pq
<1>18. /\ e \in Seq(FineRecord) /\ Len(e) = Len(pq) + Len(z)
       /\ \A n \in 1..Len(pq) : e[n] = pq[n]
       /\ \A n \in 1..Len(z) : e[Len(pq) + n] = z[n]
       /\ \A n \in 1..Len(e) :
             n \in 1..Len(pq) \/ \E j \in 1..Len(z) : n = Len(pq) + j
  <2>0. pq \in Seq(FineRecord) /\ z \in Seq(FineRecord)
    BY <1>7, <1>9
  <2>1. pq \o z \in Seq(FineRecord) /\ Len(pq \o z) = Len(pq) + Len(z)
    BY <2>0, Joined
  <2>2. \A n \in 1..Len(pq) : (pq \o z)[n] = pq[n]
    BY <2>0, Joined
  <2>3. \A n \in 1..Len(z) : (pq \o z)[Len(pq) + n] = z[n]
    BY <2>0, Joined
  <2>4. \A n \in 1..Len(pq \o z) : n \in 1..Len(pq) \/ \E j \in 1..Len(z) : n = Len(pq) + j
    BY <2>0, Joined
  <2>. QED BY <1>6, <2>1, <2>2, <2>3, <2>4, Zenon
<1>13. Len(e) = Len(pq) + 2 /\ e \in Seq(Record)
  <2>1. Len(e) = Len(pq) + 2
    BY <1>7, <1>18
  <2>. QED BY <1>5, <1>18, <2>1, SeqMonotonic
<1>14. InOrder(e)
  <2>1. InOrder(z)
    <3>1. \A j, n \in 1..2 : z[j] \in Counting /\ z[n] \in Counting => j = 2 /\ n = 2
      BY <1>4, <1>7
    <3>2. ~Before(c, c)
      BY <1>4 DEF Before, Rank
    <3>3. \A j, n \in 1..2 : z[j] \in Counting /\ z[n] \in Counting => ~Before(z[j], z[n])
      BY <1>7, <3>1, <3>2
    <3>. QED BY <1>7, <3>3 DEF InOrder
  <2>2. ASSUME NEW j \in 1..Len(pq), NEW n \in 1..Len(z), z[n] \in Counting
        PROVE  ~Before(z[n], pq[j])
    <3>1. z[n] = c
      BY <1>4, <1>7, <2>2
    <3>. QED BY <1>4, <1>11, <3>1 DEF Before, Rank
  <2>3. InOrder(pq \o z)
    BY <1>8, <1>9, <1>12, <2>1, <2>2, InOrderJoined
  <2>. QED BY <1>6, <2>3
<1>15. Fits(e, b, i)
  <2>1. ASSUME NEW x \in Counting PROVE Occurs(x, e) <=> x.batch = i /\ RecordIn(x, b)
    <3>1. Occurs(x, e) <=> Occurs(x, p) \/ Occurs(x, q) \/ Occurs(x, z)
      <4>1. Occurs(x, pq) <=> Occurs(x, p) \/ Occurs(x, q)
        BY <1>8, OccursJoined DEF pq
      <4>2. Occurs(x, pq \o z) <=> Occurs(x, pq) \/ Occurs(x, z)
        BY <1>8, <1>9, OccursJoined
      <4>. QED BY <1>6, <4>1, <4>2
    <3>2. Occurs(x, p) <=> \E k \in b.dels : x = DelRecord(k, i)
      <4>1. DOMAIN p = 1..Len(p)
        BY <1>8, LenProperties
      <4>. QED BY <1>2, <4>1 DEF Occurs
    <3>3. Occurs(x, q) <=> \E k \in Stored(b) : x = DocRecord(k, b.docs[k], i)
      <4>1. DOMAIN q = 1..Len(q)
        BY <1>8, LenProperties
      <4>. QED BY <1>3, <4>1 DEF Occurs
    <3>4. Occurs(x, z) <=> x = c
      BY <1>4, <1>7 DEF Occurs
    <3>. QED BY <3>1, <3>2, <3>3, <3>4, RecordInIs DEF c
  <2>. QED BY <2>1 DEF Fits
<1>16. ASSUME NEW n \in 1..Len(e)
       PROVE  (e[n].typ = "COMMIT" => n = Len(e)) /\ e[n].typ # "torn"
  <2>1. CASE n \in 1..Len(pq)
    <3>1. e[n] = pq[n]
      BY <1>18, <2>1
    <3>. QED BY <1>11, <2>1, <3>1
  <2>2. ASSUME NEW j \in 1..Len(z), n = Len(pq) + j
        PROVE  (e[n].typ = "COMMIT" => n = Len(e)) /\ e[n].typ # "torn"
    <3>1. e[n] = z[j]
      BY <1>18, <2>2
    <3>2. j = 1 \/ j = 2
      BY <1>7
    <3>. QED BY <1>4, <1>7, <1>13, <2>2, <3>1, <3>2
  <2>. QED BY <1>18, <2>1, <2>2
<1>17. Len(e) \in Nat \ {0}
  BY <1>9, <1>13, LenProperties
<1>. QED BY <1>14, <1>15, <1>16, <1>17, <1>18 DEF Encoded

-----------------------------------------------------------------------------
(* A write that stops *)

\* What is there of an encoding after n records.
Written(e, b, i, n) ==
    [dels |-> {k \in b.dels : \E m \in 1..n : e[m] = DelRecord(k, i)},
     docs |-> [k \in Key |-> IF \E m \in 1..n : e[m].typ = "DOC" /\ e[m].key = k
                             THEN b.docs[k] ELSE NoVal]]

LEMMA EncodedRecords ==
    ASSUME NEW b \in CompleteBatch, NEW i \in Nat, NEW e, Encoded(e, b, i),
           NEW m \in 1..Len(e)
    PROVE  /\ e[m] \in FineRecord /\ e[m] \in Record
           /\ e[m].typ = "DEL" => e[m].key \in b.dels /\ e[m] = DelRecord(e[m].key, i)
           /\ e[m].typ = "DOC" => /\ e[m].key \in Stored(b)
                                  /\ e[m] = DocRecord(e[m].key, b.docs[e[m].key], i)
           /\ e[m].typ # "META" => e[m] \in Counting /\ e[m].batch = i /\ RecordIn(e[m], b)
<1> DEFINE x == e[m]
<1>1. e \in Seq(FineRecord) /\ DOMAIN e = 1..Len(e)
  BY LenProperties DEF Encoded
<1>2. x \in FineRecord
  BY <1>1, ElementOfSeq
<1>3. x \in Record
  BY <1>2 DEF FineRecord
<1>. HIDE DEF x
<1>4. x = [typ |-> x.typ, key |-> x.key, val |-> x.val, batch |-> x.batch] /\ x.key \in Key
  BY <1>3 DEF Record
<1>5. x.typ # "META" => x \in Counting /\ x.batch = i /\ RecordIn(x, b)
  <2>1. Occurs(x, e)
    BY <1>1 DEF Occurs, x
  <2>2. x.typ # "META" => x \in Counting
    BY <1>3 DEF Counting
  <2>. QED BY <2>1, <2>2 DEF Encoded, Fits
<1>6. x.typ = "DEL" => x.key \in b.dels /\ x = DelRecord(x.key, i)
  <2>1. x.typ = "DEL" => x.key \in b.dels /\ x.val = NoVal /\ x.batch = i
    BY <1>5 DEF RecordIn
  <2>. QED BY <1>4, <2>1 DEF DelRecord
<1>7. x.typ = "DOC" => x.key \in Stored(b) /\ x = DocRecord(x.key, b.docs[x.key], i)
  <2>1. x.typ = "DOC" => x.val = b.docs[x.key] /\ x.val # NoVal /\ x.batch = i
    BY <1>5 DEF RecordIn
  <2>. QED BY <1>4, <2>1 DEF DocRecord, Stored
<1>. QED BY <1>2, <1>3, <1>5, <1>6, <1>7 DEF x

LEMMA PartIs ==
    ASSUME NEW b \in CompleteBatch, NEW i \in Nat, NEW e, Encoded(e, b, i),
           NEW n \in 0..Len(e), NEW torn \in BOOLEAN
    PROVE  /\ PartWritten(e, n, torn).dels = Written(e, b, i, n).dels
           /\ PartWritten(e, n, torn).docs = Written(e, b, i, n).docs
           /\ PartWritten(e, n, torn) =
                  [dels |-> PartWritten(e, n, torn).dels, docs |-> PartWritten(e, n, torn).docs,
                   end |-> PartWritten(e, n, torn).end]
           /\ torn => PartWritten(e, n, torn).end = "torn"
           /\ ~torn => PartWritten(e, n, torn).end = "cut"
           /\ PartWritten(e, n, torn) \in Batch
<1> DEFINE p == PartWritten(e, n, torn)
           w == Written(e, b, i, n)
           at(k) == CHOOSE m \in 1..n : e[m].typ = "DOC" /\ e[m].key = k
<1>0. b \in Batch
  BY DEF CompleteBatch
<1>1. \A m \in 1..n : m \in 1..Len(e)
  BY DEF Encoded
<1>2. /\ p.dels = {k \in Key : \E m \in 1..n : e[m].typ = "DEL" /\ e[m].key = k}
      /\ p.docs = [k \in Key |-> IF \E m \in 1..n : e[m].typ = "DOC" /\ e[m].key = k
                                 THEN e[at(k)].val ELSE NoVal]
      /\ p = [dels |-> p.dels, docs |-> p.docs, end |-> p.end]
      /\ torn => p.end = "torn"
      /\ ~torn => p.end = "cut"
  BY DEF PartWritten
<1>3. b.dels \subseteq Key /\ \A k \in Key : b.docs[k] \in MaybeVal
  BY <1>0 DEF Batch, View
<1>4. p.dels = w.dels
  <2>1. ASSUME NEW m \in 1..n, e[m].typ = "DEL" PROVE e[m].key \in b.dels /\ e[m] = DelRecord(e[m].key, i)
    BY <1>1, <2>1, EncodedRecords
  <2>2. \A k : DelRecord(k, i).typ = "DEL" /\ DelRecord(k, i).key = k
    BY DEF DelRecord
  <2>3. w.dels = {k \in b.dels : \E m \in 1..n : e[m] = DelRecord(k, i)}
    BY DEF Written
  <2>. HIDE DEF w, p
  <2>4. ASSUME NEW k \in Key
        PROVE (\E m \in 1..n : e[m].typ = "DEL" /\ e[m].key = k) <=>
                 k \in b.dels /\ \E m \in 1..n : e[m] = DelRecord(k, i)
    <3>1. ASSUME NEW m \in 1..n, e[m].typ = "DEL", e[m].key = k
          PROVE  k \in b.dels /\ e[m] = DelRecord(k, i)
      BY <2>1, <3>1
    <3>2. ASSUME NEW m \in 1..n, e[m] = DelRecord(k, i)
          PROVE  e[m].typ = "DEL" /\ e[m].key = k
      BY <2>2, <3>2
    <3>. QED BY <3>1, <3>2
  <2>. QED BY <1>2, <1>3, <2>3, <2>4
<1>5. p.docs = w.docs
  <2>1. ASSUME NEW k \in Key, \E m \in 1..n : e[m].typ = "DOC" /\ e[m].key = k
        PROVE  e[at(k)].val = b.docs[k]
    <3>1. at(k) \in 1..n /\ e[at(k)].typ = "DOC" /\ e[at(k)].key = k
      BY <2>1, Zenon
    <3>. HIDE DEF at
    <3>2. e[at(k)] = DocRecord(k, b.docs[k], i)
      BY <1>1, <3>1, EncodedRecords
    <3>. QED BY <3>2 DEF DocRecord
  <2>2. w.docs = [k \in Key |-> IF \E m \in 1..n : e[m].typ = "DOC" /\ e[m].key = k
                                THEN b.docs[k] ELSE NoVal]
    BY DEF Written
  <2>. HIDE DEF p, w, at
  <2>. QED BY <1>2, <2>1, <2>2
<1>6. p \in Batch
  <2>1. w.dels \in SUBSET Key /\ w.docs \in View
    BY <1>3 DEF Written, View, MaybeVal
  <2>2. p.end \in Endings
    BY <1>2 DEF Endings
  <2>. HIDE DEF p, w
  <2>. QED BY <1>2, <1>4, <1>5, <2>1, <2>2 DEF Batch
<1>. HIDE DEF p, w
<1>. QED BY <1>2, <1>4, <1>5, <1>6 DEF p, w

\* The first n records of an encoding are those of what is there.
LEMMA PrefixFits ==
    ASSUME NEW b \in CompleteBatch, NEW i \in Nat, NEW e, Encoded(e, b, i),
           NEW n \in 0..Len(e) - 1, NEW x \in Counting
    PROVE  Occurs(x, SubSeq(e, 1, n)) <=>
              /\ x.batch = i
              /\ \/ x.typ = "DEL" /\ x.key \in Written(e, b, i, n).dels /\ x.val = NoVal
                 \/ x.typ = "DOC" /\ x.val = Written(e, b, i, n).docs[x.key] /\ x.val # NoVal
<1> DEFINE s == SubSeq(e, 1, n)
           w == Written(e, b, i, n)
<1>1. /\ e \in Seq(FineRecord) /\ Len(e) \in Nat
      /\ \A m \in 1..Len(e) : e[m].typ = "COMMIT" => m = Len(e)
      /\ \A m \in 1..Len(e) : e[m].typ # "torn"
  BY DEF Encoded
<1>2. n \in Nat /\ n < Len(e) /\ \A m \in 1..n : m \in 1..Len(e) /\ m # Len(e)
  BY <1>1
<1>3. DOMAIN s = 1..n /\ \A m \in 1..n : s[m] = e[m]
  BY <1>1, <1>2
<1>4. /\ w.dels = {k \in b.dels : \E m \in 1..n : e[m] = DelRecord(k, i)}
      /\ w.docs = [k \in Key |-> IF \E m \in 1..n : e[m].typ = "DOC" /\ e[m].key = k
                                 THEN b.docs[k] ELSE NoVal]
  BY DEF Written
<1>5. /\ x \in Record /\ x.key \in Key /\ x.typ # "META"
      /\ x = [typ |-> x.typ, key |-> x.key, val |-> x.val, batch |-> x.batch]
  BY DEF Counting, Record
<1>. HIDE DEF s, w
<1>6. ASSUME NEW m \in 1..n, e[m] = x
      PROVE  /\ x.batch = i
             /\ \/ x.typ = "DEL" /\ x.key \in w.dels /\ x.val = NoVal
                \/ x.typ = "DOC" /\ x.val = w.docs[x.key] /\ x.val # NoVal
  <2>1. /\ x.typ = "DEL" => x.key \in b.dels /\ x = DelRecord(x.key, i)
        /\ x.batch = i /\ RecordIn(x, b)
    BY <1>2, <1>5, <1>6, EncodedRecords
  <2>2. x.typ # "COMMIT" /\ x.typ # "torn"
    BY <1>1, <1>2, <1>6
  <2>3. CASE x.typ = "DEL"
    <3>1. x.key \in w.dels
      BY <1>4, <1>6, <2>1, <2>3
    <3>. QED BY <2>1, <2>3, <3>1 DEF RecordIn
  <2>4. CASE x.typ = "DOC"
    <3>1. x.val = b.docs[x.key] /\ x.val # NoVal
      BY <2>1, <2>4 DEF RecordIn
    <3>2. w.docs[x.key] = b.docs[x.key]
      BY <1>4, <1>5, <1>6, <2>4
    <3>. QED BY <2>1, <2>4, <3>1, <3>2
  <2>. QED BY <2>1, <2>2, <2>3, <2>4 DEF RecordIn
<1>7. ASSUME x.batch = i, x.typ = "DEL", x.key \in w.dels, x.val = NoVal
      PROVE  \E m \in 1..n : e[m] = x
  <2>1. x = DelRecord(x.key, i)
    BY <1>5, <1>7 DEF DelRecord
  <2>. QED BY <1>4, <1>7, <2>1
<1>8. ASSUME x.batch = i, x.typ = "DOC", x.val = w.docs[x.key], x.val # NoVal
      PROVE  \E m \in 1..n : e[m] = x
  <2>1. (\E m \in 1..n : e[m].typ = "DOC" /\ e[m].key = x.key) /\ w.docs[x.key] = b.docs[x.key]
    BY <1>4, <1>5, <1>8
  <2>2. PICK m \in 1..n : e[m].typ = "DOC" /\ e[m].key = x.key
    BY <2>1
  <2>3. e[m] = DocRecord(x.key, b.docs[x.key], i)
    BY <1>2, <2>2, EncodedRecords
  <2>4. x = DocRecord(x.key, b.docs[x.key], i)
    BY <1>5, <1>8, <2>1 DEF DocRecord
  <2>. QED BY <2>3, <2>4
<1>9. Occurs(x, s) <=> \E m \in 1..n : e[m] = x
  BY <1>3 DEF Occurs
<1>. QED BY <1>6, <1>7, <1>8, <1>9 DEF s, w

LEMMA PrefixIs ==
    ASSUME NEW K, NEW e \in Seq(K), NEW n \in 0..Len(e)
    PROVE  /\ SubSeq(e, 1, n) \in Seq(K) /\ Len(SubSeq(e, 1, n)) = n
           /\ \A m \in 1..n : m \in 1..Len(e) /\ SubSeq(e, 1, n)[m] = e[m]
<1>1. \A m \in 1..n : m \in 1..Len(e) /\ e[m] \in K
  OBVIOUS
<1>2. SubSeq(e, 1, n) = [m \in 1..n |-> e[m]]
  OBVIOUS
<1>. QED BY <1>1, <1>2

\* The same, of every place and both ends at once.
LEMMA PartsAre ==
    ASSUME NEW b \in CompleteBatch, NEW i \in Nat, NEW e, Encoded(e, b, i)
    PROVE  \A n \in 0..Len(e), torn \in BOOLEAN :
              /\ PartWritten(e, n, torn).dels = Written(e, b, i, n).dels
              /\ PartWritten(e, n, torn).docs = Written(e, b, i, n).docs
<1> SUFFICES ASSUME NEW n \in 0..Len(e), NEW torn \in BOOLEAN
             PROVE  /\ PartWritten(e, n, torn).dels = Written(e, b, i, n).dels
                    /\ PartWritten(e, n, torn).docs = Written(e, b, i, n).docs
  OBVIOUS
<1>1. /\ PartWritten(e, n, torn).dels = Written(e, b, i, n).dels
      /\ PartWritten(e, n, torn).docs = Written(e, b, i, n).docs
      /\ PartWritten(e, n, torn) =
             [dels |-> PartWritten(e, n, torn).dels, docs |-> PartWritten(e, n, torn).docs,
              end |-> PartWritten(e, n, torn).end]
      /\ torn => PartWritten(e, n, torn).end = "torn"
      /\ ~torn => PartWritten(e, n, torn).end = "cut"
      /\ PartWritten(e, n, torn) \in Batch
  BY PartIs
<1>. QED BY <1>1

LEMMA CutFits ==
    ASSUME NEW b \in CompleteBatch, NEW i \in Nat, NEW e, Encoded(e, b, i),
           NEW n \in 0..Len(e) - 1
    PROVE  /\ SubSeq(e, 1, n) \in Seq(FineRecord)
           /\ InOrder(SubSeq(e, 1, n))
           /\ Fits(SubSeq(e, 1, n), PartWritten(e, n, FALSE), i)
           /\ ~HasRecords(PartWritten(e, n, FALSE)) =>
                 \A m \in 1..Len(SubSeq(e, 1, n)) : SubSeq(e, 1, n)[m] \notin Counting
<1> DEFINE s == SubSeq(e, 1, n)
           p == PartWritten(e, n, FALSE)
<1>1. e \in Seq(FineRecord) /\ Len(e) \in Nat /\ InOrder(e) /\ DOMAIN e = 1..Len(e)
  BY LenProperties DEF Encoded
<1>2. n \in 0..Len(e)
  BY <1>1
<1>3. /\ s \in Seq(FineRecord) /\ Len(s) = n /\ DOMAIN s = 1..n
      /\ \A m \in 1..n : m \in 1..Len(e) /\ s[m] = e[m]
  BY <1>1, <1>2, PrefixIs, LenProperties
<1>4. p.end = "cut" /\ p.dels = Written(e, b, i, n).dels /\ p.docs = Written(e, b, i, n).docs
  <2>1. p.end = "cut"
    BY DEF PartWritten
  <2>2. p.dels = Written(e, b, i, n).dels /\ p.docs = Written(e, b, i, n).docs
    BY <1>2, PartsAre
  <2>. QED BY <2>1, <2>2
<1>. HIDE DEF p
<1>5. Fits(s, p, i)
  <2>1. ASSUME NEW x \in Counting PROVE Occurs(x, s) <=> x.batch = i /\ RecordIn(x, p)
    <3>1. Occurs(x, s) <=>
              /\ x.batch = i
              /\ \/ x.typ = "DEL" /\ x.key \in p.dels /\ x.val = NoVal
                 \/ x.typ = "DOC" /\ x.val = p.docs[x.key] /\ x.val # NoVal
      BY <1>4, PrefixFits
    <3>. HIDE DEF s
    <3>. QED BY <1>4, <3>1 DEF RecordIn
  <2>. QED BY <2>1 DEF Fits
<1>. HIDE DEF s
<1>6. InOrder(s)
  BY <1>1, <1>3 DEF InOrder
<1>7. ASSUME ~HasRecords(p), NEW m \in 1..n, s[m] \in Counting PROVE FALSE
  <2>1. Occurs(s[m], s)
    BY <1>3 DEF Occurs
  <2>2. RecordIn(s[m], p)
    BY <1>5, <1>7, <2>1 DEF Fits
  <2>3. s[m].key \in Key
    BY <1>7 DEF Counting, Record
  <2>4. Mentions(p, s[m].key)
    BY <1>4, <2>2 DEF RecordIn, Mentions
  <2>. QED BY <1>7, <2>3, <2>4 DEF HasRecords
<1>. QED BY <1>3, <1>5, <1>6, <1>7 DEF s, p

LEMMA TornFits ==
    ASSUME NEW b \in CompleteBatch, NEW i \in Nat, NEW e, Encoded(e, b, i),
           NEW n \in 0..Len(e) - 1
    PROVE  /\ SubSeq(e, 1, n) \o <<Plain("torn", i)>> \in Seq(FineRecord)
           /\ InOrder(SubSeq(e, 1, n) \o <<Plain("torn", i)>>)
           /\ Fits(SubSeq(e, 1, n) \o <<Plain("torn", i)>>, PartWritten(e, n, TRUE), i)
<1> DEFINE s == SubSeq(e, 1, n)
           t == Plain("torn", i)
           z == <<t>>
           p == PartWritten(e, n, TRUE)
<1>1. Len(e) \in Nat /\ DOMAIN z = 1..1 /\ Len(z) = 1 /\ z[1] = t
  BY LenProperties DEF Encoded
<1>2. n \in 0..Len(e)
  BY <1>1
<1>3. /\ s \in Seq(FineRecord) /\ InOrder(s)
      /\ Fits(s, PartWritten(e, n, FALSE), i)
  BY CutFits
<1>4. p.end = "torn" /\ p.dels = Written(e, b, i, n).dels /\ p.docs = Written(e, b, i, n).docs
  <2>1. p.end = "torn"
    BY DEF PartWritten
  <2>2. p.dels = Written(e, b, i, n).dels /\ p.docs = Written(e, b, i, n).docs
    BY <1>2, PartsAre
  <2>. QED BY <2>1, <2>2
<1>5. /\ t \in FineRecord /\ t \in Counting
      /\ t.typ = "torn" /\ t.key = AnyKey /\ t.val = NoVal /\ t.batch = i
  BY AnyKeyIsKey DEF Plain, FineRecord, Record, MaybeVal, Counting
<1>6. FineRecord \subseteq Record
  BY DEF FineRecord
<1>. HIDE DEF p, t
<1>7. z \in Seq(FineRecord)
  <2>. HIDE DEF FineRecord
  <2>. QED BY <1>5
<1>. HIDE DEF z
<1>8. s \in Seq(Record) /\ z \in Seq(Record) /\ DOMAIN s = 1..Len(s)
  BY <1>3, <1>6, <1>7, SeqMonotonic, LenProperties
<1>9. ASSUME NEW x \in Counting
      PROVE  Occurs(x, s) <=>
                /\ x.batch = i
                /\ \/ x.typ = "DEL" /\ x.key \in p.dels /\ x.val = NoVal
                   \/ x.typ = "DOC" /\ x.val = p.docs[x.key] /\ x.val # NoVal
  BY <1>4, PrefixFits
<1>. HIDE DEF s
<1>10. s \o z \in Seq(FineRecord)
  BY <1>3, <1>7, ConcatProperties
<1>11. InOrder(s \o z)
  <2>1. InOrder(z)
    <3>1. ~Before(t, t)
      BY <1>5 DEF Before, Rank
    <3>2. \A m, n_1 \in DOMAIN z : z[m] = t /\ z[n_1] = t
      BY <1>1
    <3>. QED BY <3>1, <3>2 DEF InOrder
  <2>2. ASSUME NEW m \in 1..Len(s), NEW j \in 1..Len(z), s[m] \in Counting PROVE ~Before(z[j], s[m])
    <3>1. Occurs(s[m], s)
      BY <1>8 DEF Occurs
    <3>2. s[m].batch = i /\ s[m].typ \in {"DEL", "DOC"}
      BY <1>9, <2>2, <3>1
    <3>3. z[j] = t
      BY <1>1
    <3>. QED BY <1>5, <3>2, <3>3 DEF Before, Rank
  <2>. QED BY <1>3, <1>8, <2>1, <2>2, InOrderJoined
<1>12. Fits(s \o z, p, i)
  <2>1. ASSUME NEW x \in Counting PROVE Occurs(x, s \o z) <=> x.batch = i /\ RecordIn(x, p)
    <3>1. Occurs(x, s \o z) <=> Occurs(x, s) \/ Occurs(x, z)
      BY <1>8, OccursJoined
    <3>2. Occurs(x, z) <=> x = t
      BY <1>1 DEF Occurs
    <3>3. x = t <=> x.typ = "torn" /\ x.key = AnyKey /\ x.val = NoVal /\ x.batch = i
      <4>1. x = [typ |-> x.typ, key |-> x.key, val |-> x.val, batch |-> x.batch]
        BY DEF Counting, Record
      <4>. QED BY <1>5, <4>1 DEF t, Plain
    <3>. QED BY <1>4, <1>9, <3>1, <3>2, <3>3 DEF RecordIn
  <2>. QED BY <2>1 DEF Fits
<1>. QED BY <1>10, <1>11, <1>12 DEF s, z, t, p

-----------------------------------------------------------------------------
(* The invariant *)

LEMMA FineRecords ==
    ASSUME NEW r
    PROVE  r \in Seq(FineRecord) <=>
              r \in Seq(Record) /\ \A n \in DOMAIN r : r[n].typ = "DOC" <=> r[n].val # NoVal
<1>1. FineRecord \subseteq Record
  BY DEF FineRecord
<1>2. ASSUME r \in Seq(FineRecord)
      PROVE  r \in Seq(Record) /\ \A n \in DOMAIN r : r[n].typ = "DOC" <=> r[n].val # NoVal
  <2>1. r \in Seq(Record) /\ DOMAIN r = 1..Len(r)
    BY <1>1, <1>2, SeqMonotonic, LenProperties
  <2>2. \A n \in 1..Len(r) : r[n] \in FineRecord
    BY <1>2, ElementOfSeq
  <2>. QED BY <2>1, <2>2 DEF FineRecord
<1>3. ASSUME r \in Seq(Record), \A n \in DOMAIN r : r[n].typ = "DOC" <=> r[n].val # NoVal
      PROVE  r \in Seq(FineRecord)
  <2>1. DOMAIN r = 1..Len(r) /\ \A n \in 1..Len(r) : r[n] \in Record
    BY <1>3, LenProperties, ElementOfSeq
  <2>2. \A n \in 1..Len(r) : r[n] \in FineRecord
    BY <1>3, <2>1 DEF FineRecord
  <2>3. Len(r) \in Nat /\ r = [n \in 1..Len(r) |-> r[n]]
    BY <1>3
  <2>. QED BY <2>2, <2>3
<1>. QED BY <1>2, <1>3

\* A file and a log after e, the records of batch b.
LEMMA WrittenKeeps ==
    ASSUME NEW r \in Seq(FineRecord), NEW l \in Log, Says(r, l), InOrder(r),
           NEW e \in Seq(FineRecord), NEW b \in Batch, Fits(e, b, Len(l) + 1), InOrder(e)
    PROVE  /\ r \o e \in Seq(FineRecord) /\ Append(l, b) \in Log
           /\ Says(r \o e, Append(l, b)) /\ InOrder(r \o e)
<1>1. FineRecord \subseteq Record
  BY DEF FineRecord
<1>2. r \in Seq(Record) /\ e \in Seq(Record)
  BY <1>1, SeqMonotonic
<1>. QED BY <1>2, ExtendedSays, ConcatProperties

LEMMA ScanInit == Init => ScanInv
<1> SUFFICES ASSUME Init PROVE ScanInv
  OBVIOUS
<1>1. PICK b \in CompleteBatch : (\E enc \in Encode(b, 1) : recs = enc) /\ log = <<b>>
  BY DEF Init
<1>2. Encoded(recs, b, 1) /\ b \in Batch
  BY <1>1, EncodeIs DEF CompleteBatch
<1>3. <<>> \in Seq(FineRecord) /\ <<>> \in Log /\ Len(<<>>) = 0
  BY DEF Log
<1>4. Says(<<>>, <<>>) /\ InOrder(<<>>)
  BY DEF Says, InOrder, Occurs
<1>5. recs \in Seq(FineRecord) /\ Fits(recs, b, Len(<<>>) + 1) /\ InOrder(recs)
  BY <1>2, <1>3 DEF Encoded
<1>6. /\ <<>> \o recs \in Seq(FineRecord) /\ Append(<<>>, b) \in Log
      /\ Says(<<>> \o recs, Append(<<>>, b)) /\ InOrder(<<>> \o recs)
  BY <1>2, <1>3, <1>4, <1>5, WrittenKeeps
<1>7. <<>> \o recs = recs /\ Append(<<>>, b) = log
  BY <1>1, <1>5, ConcatEmptySeq
<1>8. recs \in Seq(FineRecord) /\ log \in Log /\ Says(recs, log) /\ InOrder(recs)
  BY <1>6, <1>7
<1>. QED BY <1>8, FineRecords DEF ScanInv, TypeOK

\* The invariant of the next state, from the parts of it.
LEMMA InvNext ==
    recs' \in Seq(FineRecord) /\ log' \in Log /\ Says(recs', log') /\ InOrder(recs') => ScanInv'
<1> SUFFICES ASSUME recs' \in Seq(FineRecord), log' \in Log, Says(recs', log'), InOrder(recs')
             PROVE  ScanInv'
  OBVIOUS
<1>1. TypeOK'
  BY FineRecords DEF TypeOK
<1>. QED BY <1>1 DEF ScanInv

LEMMA WriteKeeps ==
    ASSUME ScanInv, NEW b \in CompleteBatch, Write(b)
    PROVE  ScanInv'
<1>1. PICK enc \in Encode(b, Len(log) + 1) : recs' = recs \o enc /\ log' = Append(log, b)
  BY DEF Write
<1>2. recs \in Seq(FineRecord) /\ log \in Log /\ Says(recs, log) /\ InOrder(recs)
  BY FineRecords DEF ScanInv, TypeOK
<1>3. Len(log) + 1 \in Nat
  <2>1. log \in Seq(Batch)
    BY <1>2 DEF Log
  <2>. QED BY <2>1
<1>4. Encoded(enc, b, Len(log) + 1) /\ b \in Batch
  BY <1>3, EncodeIs DEF CompleteBatch
<1>5. enc \in Seq(FineRecord) /\ Fits(enc, b, Len(log) + 1) /\ InOrder(enc)
  BY <1>4 DEF Encoded
<1>6. recs' \in Seq(FineRecord) /\ log' \in Log /\ Says(recs', log') /\ InOrder(recs')
  BY <1>1, <1>2, <1>4, <1>5, WrittenKeeps
<1>. QED BY <1>6, InvNext

LEMMA WriteShortKeeps ==
    ASSUME ScanInv, NEW b \in CompleteBatch, WriteShort(b)
    PROVE  ScanInv'
<1> DEFINE i == Len(log) + 1
<1>a. PICK enc \in Encode(b, i) :
         \E n \in 0..(Len(enc) - 1), torn \in BOOLEAN :
            /\ recs' = recs \o SubSeq(enc, 1, n)
                           \o (IF torn THEN <<Plain("torn", i)>> ELSE <<>>)
            /\ log' = AppendPart(log, PartWritten(enc, n, torn))
  BY DEF WriteShort
<1>1. PICK n \in 0..(Len(enc) - 1), torn \in BOOLEAN :
         /\ recs' = recs \o SubSeq(enc, 1, n)
                        \o (IF torn THEN <<Plain("torn", i)>> ELSE <<>>)
         /\ log' = AppendPart(log, PartWritten(enc, n, torn))
  BY <1>a
<1>2. recs \in Seq(FineRecord) /\ log \in Log /\ Says(recs, log) /\ InOrder(recs)
  BY FineRecords DEF ScanInv, TypeOK
<1>3. i \in Nat
  <2>1. log \in Seq(Batch)
    BY <1>2 DEF Log
  <2>. QED BY <2>1
<1>4. Encoded(enc, b, i)
  BY <1>3, EncodeIs
<1>5. n \in 0..Len(enc)
  BY <1>4 DEF Encoded
<1> DEFINE s == SubSeq(enc, 1, n)
           c == PartWritten(enc, n, FALSE)
           p == PartWritten(enc, n, TRUE)
           z == <<Plain("torn", i)>>
<1>6. /\ s \in Seq(FineRecord) /\ InOrder(s) /\ Fits(s, c, i)
      /\ ~HasRecords(c) => \A m \in 1..Len(s) : s[m] \notin Counting
  BY <1>3, <1>4, CutFits
<1>7. s \o z \in Seq(FineRecord) /\ InOrder(s \o z) /\ Fits(s \o z, p, i)
  BY <1>3, <1>4, TornFits
<1>8. c \in Batch /\ c.end = "cut"
  BY <1>3, <1>4, <1>5, PartIs, Zenon
<1>9. p \in Batch /\ p.end = "torn"
  BY <1>3, <1>4, <1>5, PartIs, Zenon
<1>10. z \in Seq(FineRecord)
  <2>1. Plain("torn", i) \in FineRecord
    BY <1>3, AnyKeyIsKey DEF Plain, FineRecord, Record, MaybeVal
  <2>. HIDE DEF FineRecord
  <2>. QED BY <2>1
<1>. HIDE DEF s, c, p, z
<1>11. CASE torn
  <2>1. recs' = recs \o s \o z /\ log' = AppendPart(log, p)
    BY <1>1, <1>11, Zenon DEF s, p, z
  <2>2. recs' = recs \o (s \o z)
    BY <1>2, <1>6, <1>10, <2>1, ConcatAssociative
  <2>3. log' = Append(log, p)
    BY <1>9, <2>1 DEF AppendPart
  <2>4. recs' \in Seq(FineRecord) /\ log' \in Log /\ Says(recs', log') /\ InOrder(recs')
    BY <1>2, <1>7, <1>9, <2>2, <2>3, WrittenKeeps
  <2>. QED BY <2>4, InvNext
<1>12. CASE ~torn
  <2>1. recs' = (recs \o s) \o <<>> /\ log' = AppendPart(log, c)
    BY <1>1, <1>12, Zenon DEF s, c
  <2>2. recs' = recs \o s
    <3>1. recs \o s \in Seq(FineRecord)
      BY <1>2, <1>6, ConcatProperties
    <3>. QED BY <2>1, <3>1, ConcatEmptySeq
  <2>3. CASE HasRecords(c)
    <3>1. log' = Append(log, c)
      BY <2>1, <2>3 DEF AppendPart
    <3>2. recs' \in Seq(FineRecord) /\ log' \in Log /\ Says(recs', log') /\ InOrder(recs')
      BY <1>2, <1>6, <1>8, <2>2, <3>1, WrittenKeeps
    <3>. QED BY <3>2, InvNext
  <2>4. CASE ~HasRecords(c)
    <3>1. log' = log
      BY <1>8, <2>1, <2>4 DEF AppendPart
    <3>2. recs \in Seq(Record) /\ s \in Seq(Record)
      <4>1. FineRecord \subseteq Record
        BY DEF FineRecord
      <4>. QED BY <1>2, <1>6, <4>1, SeqMonotonic
    <3>3. Says(recs \o s, log) /\ InOrder(recs \o s)
      BY <1>2, <1>6, <2>4, <3>2, UncountedSays
    <3>4. recs' \in Seq(FineRecord)
      BY <1>2, <1>6, <2>2, ConcatProperties
    <3>. QED BY <1>2, <2>2, <3>1, <3>3, <3>4, InvNext
  <2>. QED BY <2>3, <2>4
<1>. QED BY <1>11, <1>12

LEMMA HealKeeps ==
    ASSUME ScanInv, Heal
    PROVE  ScanInv'
<1>1. recs' = Parsed(recs) /\ log' \in HealedLogs(log)
  BY DEF Heal
<1>2. recs \in Seq(FineRecord) /\ recs \in Seq(Record) /\ log \in Log
      /\ Says(recs, log) /\ InOrder(recs)
  BY FineRecords DEF ScanInv, TypeOK
<1>3. log' \in Log /\ Says(recs', log') /\ InOrder(recs')
  BY <1>1, <1>2, ParsedSays
<1>4. recs' \in Seq(FineRecord)
  <2>1. CASE Parsed(recs) = recs
    BY <1>1, <1>2, <2>1
  <2>2. ASSUME NEW t \in 1..Len(recs), Parsed(recs) = SubSeq(recs, 1, t - 1)
        PROVE  recs' \in Seq(FineRecord)
    <3>1. t - 1 \in 0..Len(recs)
      BY <1>2
    <3>. QED BY <1>1, <1>2, <2>2, <3>1, PrefixIs
  <2>. QED BY <1>2, <2>1, <2>2, ParsedIs
<1>. QED BY <1>3, <1>4, InvNext

LEMMA ScanStutter ==
    ASSUME ScanInv, UNCHANGED vars
    PROVE  ScanInv'
BY DEF ScanInv, TypeOK, vars

\* A file has the records of the batches of its log and no others, batch after
\* batch, whatever was written, stopped and cut (filev2.go:714-882).
THEOREM ScanInvariant == Spec => []ScanInv
<1>1. Init => ScanInv
  BY ScanInit
<1>2. ScanInv /\ [Next]_vars => ScanInv'
  <2> SUFFICES ASSUME ScanInv, [Next]_vars PROVE ScanInv'
    OBVIOUS
  <2>1. ASSUME NEW b \in CompleteBatch, Write(b) PROVE ScanInv'
    BY <2>1, WriteKeeps
  <2>2. ASSUME NEW b \in CompleteBatch, WriteShort(b) PROVE ScanInv'
    BY <2>2, WriteShortKeeps
  <2>3. CASE Heal
    BY <2>3, HealKeeps
  <2>4. CASE UNCHANGED vars
    BY <2>4, ScanStutter
  <2>. QED BY <2>1, <2>2, <2>3, <2>4 DEF Next
<1>. QED BY <1>1, <1>2, PTL DEF Spec

LEMMA InvScanned == ScanInv => ScanMatchesReplay
<1> SUFFICES ASSUME ScanInv PROVE ScanMatchesReplay
  OBVIOUS
<1>1. recs \in Seq(Record) /\ log \in Log /\ Says(recs, log) /\ InOrder(recs) /\ TypeOK
  BY DEF ScanInv, TypeOK
<1> DEFINE r == Parsed(recs)
           h == Visible
<1>2. h \in HealedLogs(log)
  BY <1>1, SomeHealed, Zenon DEF Visible
<1>3. r \in Seq(Record) /\ h \in Log /\ Says(r, h) /\ InOrder(r)
  BY <1>1, <1>2, ParsedSays
<1> DEFINE e == Entries(Applied(recs))
<1>4. e = Entries(SubSeq(r, 1, LastCommit(r)))
  BY Zenon DEF Applied
<1>. HIDE DEF r, h, e
<1>5. ASSUME NEW k \in Key PROVE e[k].val = Replay(h)[k] /\ e[k].at = RecordOf(h, k)
  <2>1. e[k] = [val |-> ReplayKey(h, k), at |-> RecordOf(h, k)]
    BY <1>3, <1>4, ScanReads
  <2>. QED BY <2>1 DEF Replay
<1>. QED BY <1>1, <1>5, Zenon DEF ScanMatchesReplay, e, h

\* The passes of scanV2 read from a file the documents, and the records they are
\* read from, that RecordLog says its batches come to (filev2.go:265-420,
\* 1026-1039).
THEOREM ScanIsReplay == Spec => []ScanMatchesReplay
BY ScanInvariant, InvScanned, PTL

\* What a write that stops leaves of a batch is a part of it.
LEMMA PartOfBatch ==
    ASSUME NEW b \in CompleteBatch, NEW i \in Nat, NEW e, Encoded(e, b, i),
           NEW n \in 0..Len(e) - 1, NEW p \in Batch,
           p = [dels |-> Written(e, b, i, n).dels, docs |-> Written(e, b, i, n).docs, end |-> p.end],
           p.end \in {"cut", "torn"}, p.end = "cut" => HasRecords(p)
    PROVE  p \in Parts(b)
<1> DEFINE w == Written(e, b, i, n)
           S == {k \in Key : \E m \in 1..n : e[m].typ = "DOC" /\ e[m].key = k}
<1>1. /\ w.dels = {k \in b.dels : \E m \in 1..n : e[m] = DelRecord(k, i)}
      /\ w.docs = [k \in Key |-> IF \E m \in 1..n : e[m].typ = "DOC" /\ e[m].key = k
                                 THEN b.docs[k] ELSE NoVal]
  BY DEF Written
<1>2. /\ InOrder(e) /\ e \in Seq(FineRecord) /\ DOMAIN e = 1..Len(e)
      /\ Fits(e, b, i) /\ Len(e) \in Nat
  BY LenProperties DEF Encoded
<1>3. \A m \in 1..n : m \in 1..Len(e)
  BY <1>2
<1>. HIDE DEF w
<1>4. S \in SUBSET Stored(b)
  BY <1>3, EncodedRecords
<1>5. w.docs = [k \in Key |-> IF k \in S THEN b.docs[k] ELSE NoVal]
  BY <1>1
<1>6. ASSUME w.docs # EmptyView PROVE w.dels = b.dels
  <2>1. S # {}
    BY <1>5, <1>6 DEF EmptyView
  <2>2. PICK k \in Key, m \in 1..n : e[m].typ = "DOC" /\ e[m].key = k
    BY <2>1
  <2>3. e[m] \in Counting /\ e[m].batch = i
    BY <1>3, <2>2, EncodedRecords
  <2>4. ASSUME NEW d \in b.dels PROVE \E j \in 1..n : e[j] = DelRecord(d, i)
    <3>1. DelRecord(d, i) \in Counting
      BY DEF CompleteBatch, Batch, DelRecord, Counting, Record, MaybeVal
    <3>2. DelRecord(d, i).batch = i /\ RecordIn(DelRecord(d, i), b) /\ DelRecord(d, i).typ = "DEL"
      BY DEF DelRecord, RecordIn
    <3>3. PICK j \in 1..Len(e) : e[j] = DelRecord(d, i)
      BY <1>2, <3>1, <3>2 DEF Fits, Occurs
    <3>4. Before(e[j], e[m])
      BY <2>2, <2>3, <3>2, <3>3 DEF Before, Rank
    <3>5. j < m
      BY <1>2, <1>3, <2>3, <3>1, <3>3, <3>4 DEF InOrder
    <3>6. j \in 1..n
      BY <3>5
    <3>. QED BY <3>3, <3>6
  <2>. QED BY <1>1, <2>4
<1>7. w.dels \in SUBSET b.dels
  BY <1>1
<1>8. w.docs \in {[k \in Key |-> IF k \in T THEN b.docs[k] ELSE NoVal] : T \in SUBSET Stored(b)}
  <2>. HIDE DEF S
  <2>. QED BY <1>4, <1>5
<1>9. p.dels = w.dels /\ p.docs = w.docs
  BY DEF w
<1>. HIDE DEF S
<1>10. p \in [dels : SUBSET b.dels,
              docs : {[k \in Key |-> IF k \in T THEN b.docs[k] ELSE NoVal] : T \in SUBSET Stored(b)},
              end : {"cut", "torn"}]
  <2> DEFINE D == {[k \in Key |-> IF k \in T THEN b.docs[k] ELSE NoVal] : T \in SUBSET Stored(b)}
  <2>1. w.docs \in D
    BY <1>8
  <2>2. p = [dels |-> w.dels, docs |-> w.docs, end |-> p.end]
    BY DEF w
  <2>. HIDE DEF D
  <2>3. p \in [dels : SUBSET b.dels, docs : D, end : {"cut", "torn"}]
    BY <1>7, <2>1, <2>2
  <2>. QED BY <2>3 DEF D
<1>11. p.docs # EmptyView => p.dels = b.dels
  BY <1>6, <1>9
<1>. QED BY <1>10, <1>11 DEF Parts, Stored

LEMMA StepLeavesPart ==
    ASSUME TypeOK, NEW b \in CompleteBatch, WriteShort(b), log' # log
    PROVE  log'[Len(log')] \in Parts(b)
<1> DEFINE i == Len(log) + 1
<1>1. log \in Seq(Batch) /\ i \in Nat
  <2>1. log \in Seq(Batch)
    BY DEF TypeOK, Log
  <2>. QED BY <2>1
<1>a. PICK enc \in Encode(b, i) :
         \E n \in 0..(Len(enc) - 1), torn \in BOOLEAN :
            log' = AppendPart(log, PartWritten(enc, n, torn))
  BY DEF WriteShort
<1>2. PICK n \in 0..(Len(enc) - 1), torn \in BOOLEAN :
         log' = AppendPart(log, PartWritten(enc, n, torn))
  BY <1>a
<1>3. Encoded(enc, b, i)
  BY <1>1, EncodeIs
<1>4. n \in 0..Len(enc)
  BY <1>3 DEF Encoded
<1> DEFINE p == PartWritten(enc, n, torn)
<1>5. /\ p \in Batch /\ p.dels = Written(enc, b, i, n).dels /\ p.docs = Written(enc, b, i, n).docs
      /\ p = [dels |-> p.dels, docs |-> p.docs, end |-> p.end]
      /\ p.end \in {"cut", "torn"}
  BY <1>1, <1>3, <1>4, PartIs
<1>. HIDE DEF p
<1>6. log' = Append(log, p) /\ (p.end = "cut" => HasRecords(p))
  BY <1>2 DEF AppendPart, p
<1>7. log'[Len(log')] = p
  <2>. HIDE DEF Batch
  <2>. QED BY <1>1, <1>5, <1>6
<1>. QED BY <1>1, <1>3, <1>5, <1>6, <1>7, PartOfBatch

\* Wherever a write stops, what it leaves is a part of its batch as RecordLog has
\* them (filev2.go:835-866).
THEOREM ShortWritesLeaveParts == Spec => ShortWritesAreParts
<1>1. ScanInv => TypeOK
  BY DEF ScanInv
<1>2. TypeOK /\ [Next]_vars =>
         [\A b \in CompleteBatch :
            WriteShort(b) /\ log' # log => log'[Len(log')] \in Parts(b)]_vars
  BY StepLeavesPart
<1>. QED BY <1>1, <1>2, ScanInvariant, PTL DEF Spec, ShortWritesAreParts
=============================================================================
