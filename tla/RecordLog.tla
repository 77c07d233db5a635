----------------------------- MODULE RecordLog -----------------------------
(***************************************************************************)
(* The body of a v2 .mlstore file (db/filev2.go): the batches its flushes  *)
(* wrote, what opening the file makes of them, and what a write that was   *)
(* cut short leaves of one.                                                *)
(*                                                                         *)
(* One flush writes its records in a fixed order - DELs, DOCs, META, IDXs, *)
(* COMMIT - and at most one DOC and one DEL for a key, so a batch is a     *)
(* record of the keys it deletes, the document it holds for each key, and  *)
(* how it ends on the disk:                                                *)
(*   "commit"  all of it is there, up to its COMMIT record;                *)
(*   "cut"     only complete records are there, and no COMMIT;             *)
(*   "torn"    after them comes a record that is not all there.            *)
(* META and IDX records carry no document; module RecordScan keeps the     *)
(* log record by record and checks Replay against the scan of the code.    *)
(*                                                                         *)
(* No definition here is RECURSIVE, so that theorems can be proved of the  *)
(* modules that extend this one.                                           *)
(***************************************************************************)
EXTENDS Integers, Sequences

CONSTANTS
    Key,     \* (collection, _id) pairs
    Val,     \* what a document can hold
    NoVal    \* no document

ASSUME NoValAssumption == NoVal \notin Val

MaybeVal == Val \union {NoVal}

\* The content of a store: the document of each key, NoVal for none.
View == [Key -> MaybeVal]

EmptyView == [k \in Key |-> NoVal]

Endings == {"commit", "cut", "torn"}

Batch == [dels: SUBSET Key, docs: View, end: Endings]

Log == Seq(Batch)

\* The batch holds a DOC or a DEL of k.
Mentions(b, k) == k \in b.dels \/ b.docs[k] # NoVal

HasRecords(b) == \E k \in Key : Mentions(b, k)

-----------------------------------------------------------------------------
(* What opening a log reads from it *)

\* Mutant of Committed: a record counts without a COMMIT after it.
CommittedIgnoringCommit(log) == 1..Len(log)

\* Records count up to the last COMMIT of the file and no further.
Committed(log) ==
    {i \in 1..Len(log) : \E j \in i..Len(log) : log[j].end = "commit"}

\* Where the newest counted record of k is: at most one position.
Newest(log, k) ==
    {i \in Committed(log) :
        /\ Mentions(log[i], k)
        /\ \A j \in Committed(log) : Mentions(log[j], k) => j <= i}

\* In a batch the DELs come before the DOCs, so a key that the newest batch
\* both deletes and stores is alive.
ReplayKey(log, k) ==
    IF Newest(log, k) = {}
    THEN NoVal
    ELSE log[CHOOSE i \in Newest(log, k) : TRUE].docs[k]

Replay(log) == [k \in Key |-> ReplayKey(log, k)]

\* The position of the record an opened entry is read from, 0 for none.
RecordOf(log, k) ==
    IF ReplayKey(log, k) = NoVal THEN 0
    ELSE CHOOSE i \in Newest(log, k) : TRUE

EndsInCommit(log) == log # <<>> => log[Len(log)].end = "commit"

-----------------------------------------------------------------------------
(* What is left of a batch whose write did not finish *)

\* A DOC is written after every DEL; the keys themselves have no order here.
Parts(b) ==
    {p \in [dels: SUBSET b.dels,
            docs: {[k \in Key |-> IF k \in S THEN b.docs[k] ELSE NoVal] :
                       S \in SUBSET {k \in Key : b.docs[k] # NoVal}},
            end: {"cut", "torn"}] :
        /\ p.docs # EmptyView => p.dels = b.dels
        /\ p.end = "cut" => HasRecords(p)}

\* The logs a disk may hold that was told to keep the first m batches: a
\* prefix, then perhaps a part of the batch that follows it.
Cuts(log, m) ==
    {SubSeq(log, 1, n) : n \in m..Len(log)}
    \union UNION {{Append(SubSeq(log, 1, n - 1), p) : p \in Parts(log[n])} :
                     n \in (m + 1)..Len(log)}

\* Opening cuts the file at the first record that is not all there. The
\* complete records before it stay, whether or not a COMMIT covers them. (With
\* no COMMIT at all Open cuts or refuses the file; the first batch of a file
\* is renamed into place whole and is never cut short.)
TornAt(log) == {i \in 1..Len(log) : log[i].end = "torn"}

TruncateAt(log, i) ==
    IF HasRecords(log[i])
    THEN Append(SubSeq(log, 1, i - 1), [log[i] EXCEPT !.end = "cut"])
    ELSE SubSeq(log, 1, i - 1)

FirstTorn(log) == {i \in TornAt(log) : \A j \in TornAt(log) : i <= j}

HealedLogs(log) ==
    IF TornAt(log) = {} THEN {log}
    ELSE {TruncateAt(log, i) : i \in FirstTorn(log)}

\* The length in the header of a record that is not all there may reach past
\* the end of the file, which is a torn tail, or only into the batches that
\* were written after it: then the checksum fails and Open answers ErrCorrupt.
MayBeCorrupt(log) == \E i \in TornAt(log) : i < Len(log)

-----------------------------------------------------------------------------
(* Appending to a log whose last COMMIT is not its end *)

\* Appending b to log makes records count that b does not write again: those
\* of a tail no COMMIT covers. After a torn record it also ruins the file.
WakesTail(log, b) ==
    \E i \in 1..Len(log) :
        /\ i \notin Committed(log)
        /\ \/ log[i].end = "torn"
           \/ \E k \in Key : Mentions(log[i], k) /\ ~Mentions(b, k)
=============================================================================
