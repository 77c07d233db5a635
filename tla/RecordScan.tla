----------------------------- MODULE RecordScan -----------------------------
(***************************************************************************)
(* A v2 file record by record (db/filev2.go): the order a flush writes     *)
(* them in, a write that stops anywhere in it, and scanV2 with its passes  *)
(* and its maps. The specification writes batches to a file and keeps      *)
(* beside it the log of module RecordLog that the file stands for; what    *)
(* the scan reads must be what Replay says of that log.                    *)
(*                                                                         *)
(* Key material, checksums and payloads are left out. So is the gate that  *)
(* drops the documents of a collection the last META does not name.        *)
(***************************************************************************)
EXTENDS RecordLog, FiniteSets, SequencesExt

CONSTANTS
    MaxRecords,   \* bound: records in the file
    MaxBatches    \* bound: batches in the log beside it

\* A file is about some keys, and finitely many.
ASSUME ScanAssumption ==
    /\ {MaxRecords, MaxBatches} \subseteq Nat
    /\ Key # {} /\ IsFiniteSet(Key)

VARIABLES
    recs,   \* the file after its header
    log     \* the batches it stands for

vars == <<recs, log>>

\* A record with its bytes incomplete is "torn"; "batch" is the position in log
\* of the batch it is of, which the code keeps as an offset.
Record == [typ: {"DEL", "DOC", "META", "COMMIT", "torn"}, key: Key,
           val: MaybeVal, batch: Nat]

TypeOK ==
    /\ recs \in Seq(Record)
    /\ log \in Log
    /\ \A n \in DOMAIN recs : recs[n].typ = "DOC" <=> recs[n].val # NoVal

-----------------------------------------------------------------------------
(* Writing *)

AnyKey == CHOOSE k \in Key : TRUE

Plain(typ, i) == [typ |-> typ, key |-> AnyKey, val |-> NoVal, batch |-> i]

DelRecords(b, dels, i) ==
    [n \in DOMAIN dels |->
        [typ |-> "DEL", key |-> dels[n], val |-> NoVal, batch |-> i]]

DocRecords(b, docs, i) ==
    [n \in DOMAIN docs |->
        [typ |-> "DOC", key |-> docs[n], val |-> b.docs[docs[n]], batch |-> i]]

\* Mutant of Encoding: the DOCs before the DELs.
EncodingDocsFirst(b, dels, docs, i) ==
    DocRecords(b, docs, i) \o DelRecords(b, dels, i)
        \o <<Plain("META", i), Plain("COMMIT", i)>>

\* orderOpsForCommit: the DELs as they were queued, the DOCs by collection and
\* _id, META (and the IDXs, which are read like it), COMMIT.
Encoding(b, dels, docs, i) ==
    DelRecords(b, dels, i) \o DocRecords(b, docs, i)
        \o <<Plain("META", i), Plain("COMMIT", i)>>

Stored(b) == {k \in Key : b.docs[k] # NoVal}

Encode(b, i) ==
    {Encoding(b, dels, docs, i) :
        dels \in SetToSeqs(b.dels), docs \in SetToSeqs(Stored(b))}

\* The batch that is there when n records of an encoding are, and perhaps a
\* torn one after them.
PartWritten(enc, n, torn) ==
    LET there(typ, k) == \E m \in 1..n : enc[m].typ = typ /\ enc[m].key = k
        doc(k) == CHOOSE m \in 1..n : enc[m].typ = "DOC" /\ enc[m].key = k
    IN  [dels |-> {k \in Key : there("DEL", k)},
         docs |-> [k \in Key |-> IF there("DOC", k) THEN enc[doc(k)].val
                                 ELSE NoVal],
         end  |-> IF torn THEN "torn" ELSE "cut"]

\* Only part of META: nothing that a scan would read.
AppendPart(l, p) ==
    IF p.end = "cut" /\ ~HasRecords(p) THEN l ELSE Append(l, p)

CompleteBatch == {b \in Batch : b.end = "commit"}

Room(n) == Len(recs) + n <= MaxRecords /\ Len(log) < MaxBatches

Write(b) ==
    \E enc \in Encode(b, Len(log) + 1) :
        /\ Room(Len(enc))
        /\ recs' = recs \o enc
        /\ log' = Append(log, b)

WriteShort(b) ==
    \E enc \in Encode(b, Len(log) + 1) :
        \E n \in 0..(Len(enc) - 1), torn \in BOOLEAN :
            /\ n > 0 \/ torn
            /\ Room(n + 1)
            /\ recs' = recs \o SubSeq(enc, 1, n)
                           \o (IF torn THEN <<Plain("torn", Len(log) + 1)>>
                               ELSE <<>>)
            /\ log' = AppendPart(log, PartWritten(enc, n, torn))

-----------------------------------------------------------------------------
(* scanV2 *)

\* First pass: the records up to the first that is not all there.
Parsed(r) ==
    LET t == SelectInSeq(r, LAMBDA x : x.typ = "torn")
    IN  IF t = 0 THEN r ELSE SubSeq(r, 1, t - 1)

\* The end of the last COMMIT among them, 0 for none.
LastCommit(r) ==
    SelectLastInSeq(r, LAMBDA x : x.typ = "COMMIT")

\* The records the second pass applies.
Applied(r) == SubSeq(Parsed(r), 1, LastCommit(Parsed(r)))

\* Mutant of Marked: a DEL leaves the key as it was.
MarkedOnceStored(alive, x) ==
    IF x.typ = "DOC" THEN alive \union {x.key} ELSE alive

\* What record x does to alive and deleted, which the code flips together.
Marked(alive, x) ==
    CASE x.typ = "DOC" -> alive \union {x.key}
      [] x.typ = "DEL" -> alive \ {x.key}
      [] OTHER -> alive

\* The last pass: the keys whose newest DOC or DEL is a DOC.
Alive(r) ==
    LET upTo[n \in 0..Len(r)] ==
            IF n = 0 THEN {} ELSE Marked(upTo[n - 1], r[n])
    IN  upTo[Len(r)]

\* An entry is made of record x when it is a version of a live key.
Entered(entries, x, alive) ==
    IF x.typ = "DOC" /\ x.key \in alive
    THEN [entries EXCEPT ![x.key] = [val |-> x.val, at |-> x.batch]]
    ELSE entries

\* Every version of a live key stays in res.docs, and openV2 makes an entry of
\* each in turn: the last one is the entry.
Entries(r) ==
    LET alive == Alive(r)
        upTo[n \in 0..Len(r)] ==
            IF n = 0 THEN [k \in Key |-> [val |-> NoVal, at |-> 0]]
            ELSE Entered(upTo[n - 1], r[n], alive)
    IN  upTo[Len(r)]

\* openV2 cuts the file at the torn record. When records follow it the scan may
\* fail its checksum instead, and Open changes nothing.
Heal ==
    /\ \E n \in DOMAIN recs : recs[n].typ = "torn"
    /\ recs' = Parsed(recs)
    /\ log' \in HealedLogs(log)

-----------------------------------------------------------------------------

\* A file begins with a rewrite that was renamed into place whole.
Init ==
    \E b \in CompleteBatch :
        /\ b.dels = {}
        /\ \E enc \in Encode(b, 1) : recs = enc
        /\ log = <<b>>

Next ==
    \/ \E b \in CompleteBatch : Write(b) \/ WriteShort(b)
    \/ Heal

Spec == Init /\ [][Next]_vars

-----------------------------------------------------------------------------

\* The log as opening reads it: a torn record hides what follows.
Visible == CHOOSE l \in HealedLogs(log) : TRUE

\* The passes of scanV2 over the records and the definition of RecordLog agree
\* on the document of every key and on the record it is read from: a key that
\* is deleted and stored again, in one flush or in several, around COMMITs that
\* never made it (filev2.go:265-420, 1026-1039). The types hold as well.
ScanMatchesReplay ==
    /\ TypeOK
    /\ LET e == Entries(Applied(recs))
       IN  \A k \in Key :
               /\ e[k].val = Replay(Visible)[k]
               /\ e[k].at = RecordOf(Visible, k)

\* Wherever a write stops, what it leaves is a part as RecordLog has them
\* (filev2.go:835-866).
ShortWritesAreParts ==
    [][\A b \in CompleteBatch :
           WriteShort(b) /\ log' # log => log'[Len(log')] \in Parts(b)]_vars
=============================================================================
