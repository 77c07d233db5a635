----------------------------- MODULE Documents -----------------------------
(***************************************************************************)
(* One collection of a Store with its secondary indexes: the mutations     *)
(* that keep the indexes (db/store.go), what a flush writes of them and    *)
(* what the next Open builds from it (db/filev2.go, db/file.go), and       *)
(* Repair (db/repair.go).                                                  *)
(*                                                                         *)
(* A mutation is one step under s.mu; DropCollection is many, between      *)
(* which other calls run. A flush is one step here: its interleavings and  *)
(* its failures are in StoreFlush, and torn files in RecordScan.           *)
(***************************************************************************)
EXTENDS QueryPlan

CONSTANTS
    N,          \* the _ids are 1..N, in their order
    Contents,   \* the documents without their _id
    IndexDefs,  \* the indexes that EnsureIndex is asked for: fields, unique
    Filters,    \* the filters of Find and Count
    SortField,  \* the field that is sorted by
    MaxWrites,  \* bound: mutations
    MaxFlushes, \* bound: flushes
    MaxOpens,   \* bound: times the store is opened
    Scene       \* bound: the calls an instance looks at

ASSUME DocumentsAssumption ==
    /\ N \in Nat \ {0}
    /\ {MaxWrites, MaxFlushes, MaxOpens} \subseteq Nat
    /\ Scene \subseteq {"update", "delete", "index", "drop", "repair"}

\* A document without any fields stands as one whose fields are Missing; an
\* index has a field (ensureIndex refuses one without).
ASSUME ContentsAssumption ==
    /\ \A c \in Contents : c # NoOld /\ \A f \in DOMAIN c : c[f] \in Value
    /\ IndexDefs \subseteq [fields : Seq(STRING) \ {<<>>}, unique : BOOLEAN]

\* A filter has conditions on some fields and asks for scalars; an object without
\* operators would be a value.
ASSUME FiltersAssumption ==
    \A filter \in Filters :
        /\ IsFiniteSet(DOMAIN filter.fields)
        /\ \A f \in DOMAIN filter.fields : IsCondition(filter.fields[f])

Key == 1..N

VARIABLES
    up,        \* the store is open
    exists,    \* the collection is in s.collections
    docs,      \* its entries
    ixs,       \* its indexes
    dirty,     \* the entries mutated since they were last on file
    dels,      \* s.pendingDels
    rewrite,   \* ~s.sawFile or s.v1Migration: the next flush is a full one
    log,       \* the file: what each flush since the last rewrite has left
    drop,      \* the DropCollection that runs, and the _ids it has yet to delete
    saved,     \* the collection when it was last saved
    writes, flushes, opens,
    exposed    \* known faults of the code this store has run into

mem == <<exists, docs, ixs, dirty, dels, rewrite>>
vars == <<up, mem, log, drop, saved, writes, flushes, opens, exposed>>

Coll == [docs |-> docs, ixs |-> ixs]

Defs(s) == [i \in DOMAIN s |-> [fields |-> s[i].fields, unique |-> s[i].unique]]

Empty == <<>>

NotDropping == [pc |-> "idle", todo |-> {}]

Nothing == [exists |-> FALSE, docs |-> Empty, defs |-> <<>>]

TypeOK ==
    /\ {up, exists, rewrite} \subseteq BOOLEAN
    /\ DOMAIN docs \subseteq Key /\ \A i \in DOMAIN docs : docs[i] \in Contents
    /\ ToSet(Defs(ixs)) \subseteq IndexDefs /\ IsInjective(Defs(ixs))
    /\ dirty \subseteq DOMAIN docs
    /\ dels \subseteq Key
    /\ drop.pc \in {"idle", "delete"} /\ drop.todo \subseteq Key
    /\ (docs # Empty \/ ixs # <<>>) => exists

With(d, i, c) == [k \in DOMAIN d \union {i} |-> IF k = i THEN c ELSE d[k]]
Less(d, i) == [k \in DOMAIN d \ {i} |-> d[k]]

-----------------------------------------------------------------------------
(* Mutations *)

MayWrite == up /\ writes < MaxWrites

Counted == writes' = writes + 1 /\ UNCHANGED <<up, rewrite, log, saved, flushes, opens>>

\* The entry of i is given document c, and the indexes are right for it.
Stored(i, c) ==
    /\ docs' = With(docs, i, c)
    /\ dirty' = dirty \union {i}
    /\ exists' = TRUE
    /\ UNCHANGED dels

\* insertApply: s.coll creates the collection even if the document is refused.
Insert(i, c) ==
    /\ MayWrite
    /\ i \notin DOMAIN docs
    /\ Counted
    /\ LET r == ApplyIndexes(ixs, NoOld, c, i) IN
       /\ ixs' = r.ixs
       /\ IF r.ok THEN Stored(i, c)
          ELSE exists' = TRUE /\ UNCHANGED <<docs, dirty, dels>>
    /\ UNCHANGED <<drop, exposed>>

\* upsertApply and updateApply of an entry that is there: the document has
\* become c by a replacement, a patch or the removal of fields.
Change(i, c) ==
    /\ "update" \in Scene
    /\ MayWrite
    /\ i \in DOMAIN docs /\ docs[i] # c
    /\ Counted
    /\ LET r == ApplyIndexes(ixs, docs[i], c, i) IN
       /\ ixs' = r.ixs
       /\ IF r.ok THEN Stored(i, c) ELSE UNCHANGED <<exists, docs, dirty, dels>>
    /\ UNCHANGED <<drop, exposed>>

Undirtied(i) == dirty \ {i}

\* deleteApply
Removed(i) ==
    /\ ixs' = [n \in DOMAIN ixs |-> RemoveDoc(ixs[n], docs[i], i)]
    /\ docs' = Less(docs, i)
    /\ dirty' = Undirtied(i)
    /\ dels' = IF log = <<>> THEN dels ELSE dels \union {i}
    /\ UNCHANGED exists

Delete(i) ==
    /\ "delete" \in Scene
    /\ MayWrite
    /\ i \in DOMAIN docs
    /\ Counted
    /\ Removed(i)
    /\ UNCHANGED <<drop, exposed>>

\* The documents of S, in the order of their _ids.
Listed(ds, S) ==
    [n \in 1..Cardinality(S) |-> [id |-> SetAsc(S)[n], doc |-> ds[SetAsc(S)[n]]]]

\* An index while documents are put into it, one after the other: one that
\* conflicts leaves it as it is.
Building(def, vs) ==
    LET upTo[n \in 0..Len(vs)] ==
            IF n = 0 THEN NewIndex(def.fields, def.unique)
            ELSE AddDoc(upTo[n - 1], vs[n].doc, vs[n].id)
    IN  upTo

Built(def, vs) == Building(def, vs)[Len(vs)]

Refused(def, vs) ==
    {vs[n].id : n \in {n \in DOMAIN vs :
                          Conflicts(Building(def, vs)[n - 1], vs[n].doc, vs[n].id)}}

\* ensureIndex of an index that is not there: discarded if a document conflicts.
EnsureIndex(def) ==
    LET vs == Listed(docs, DOMAIN docs) IN
    /\ "index" \in Scene
    /\ MayWrite
    /\ \A n \in DOMAIN ixs : ixs[n].fields # def.fields
    /\ Counted
    /\ exists' = TRUE
    /\ ixs' = IF Refused(def, vs) = {} THEN Append(ixs, Built(def, vs)) ELSE ixs
    /\ UNCHANGED <<docs, dirty, dels, drop, exposed>>

DropIndex(n) ==
    /\ "index" \in Scene
    /\ MayWrite
    /\ n \in DOMAIN ixs
    /\ Counted
    /\ ixs' = RemoveAt(ixs, n)
    /\ UNCHANGED <<exists, docs, dirty, dels, drop, exposed>>

CreateCollection ==
    /\ "drop" \in Scene
    /\ MayWrite
    /\ ~exists
    /\ Counted
    /\ exists' = TRUE
    /\ UNCHANGED <<docs, ixs, dirty, dels, drop, exposed>>

\* dropCollection: the _ids are listed, the documents deleted one by one, and
\* then the definition goes; s.mu is free in between.
DropBegin ==
    /\ "drop" \in Scene
    /\ MayWrite
    /\ exists /\ drop.pc = "idle"
    /\ Counted
    /\ drop' = [pc |-> "delete", todo |-> DOMAIN docs]
    /\ UNCHANGED <<exists, docs, ixs, dirty, dels, exposed>>

\* A document that somebody else deleted ends the call (ErrNotFound).
DropDelete ==
    LET i == CHOOSE i \in drop.todo : \A j \in drop.todo : i <= j IN
    /\ up /\ drop.todo # {}
    /\ IF i \in DOMAIN docs
       THEN Removed(i) /\ drop' = [drop EXCEPT !.todo = @ \ {i}]
       ELSE drop' = NotDropping /\ UNCHANGED <<exists, docs, ixs, dirty, dels>>
    /\ UNCHANGED <<up, rewrite, log, saved, writes, flushes, opens, exposed>>

\* A document that was put in meanwhile goes without a DEL.
DropEnd ==
    /\ up /\ drop.pc = "delete" /\ drop.todo = {}
    /\ drop' = NotDropping
    /\ exists' = FALSE /\ docs' = Empty /\ ixs' = <<>> /\ dirty' = {}
    /\ exposed' = exposed \union (IF docs = Empty THEN {} ELSE {"dropped_late"})
    /\ UNCHANGED <<up, dels, rewrite, log, saved, writes, flushes, opens>>

-----------------------------------------------------------------------------
(* On file *)

WrittenIds(full) == IF full THEN DOMAIN docs ELSE dirty

\* stageDocOp marks a record whose document an index does not cover.
Batch(full) ==
    [dels |-> IF full THEN {} ELSE dels,
     docs |-> Listed(docs, WrittenIds(full)),
     suspect |-> \E i \in WrittenIds(full) : \E n \in DOMAIN ixs :
                    ~Covers(ixs[n], docs[i], i),
     exists |-> exists,
     idx |-> [n \in DOMAIN ixs |-> Payload(ixs[n])]]

\* Serializing an index sorts its keys and leaves it the flat view.
Flush ==
    /\ up
    /\ flushes < MaxFlushes
    /\ flushes' = flushes + 1
    /\ log' = IF rewrite THEN <<Batch(TRUE)>> ELSE Append(log, Batch(FALSE))
    /\ ixs' = [n \in DOMAIN ixs |-> Serialized(ixs[n])]
    /\ dirty' = {} /\ dels' = {} /\ rewrite' = FALSE
    /\ saved' = [exists |-> exists, docs |-> docs, defs |-> Defs(ixs)]
    /\ UNCHANGED <<up, exists, docs, drop, writes, opens, exposed>>

\* Compact
Compact ==
    /\ up /\ ~rewrite
    /\ log # <<>> /\ flushes < MaxFlushes
    /\ flushes' = flushes + 1
    /\ log' = <<Batch(TRUE)>>
    /\ ixs' = [n \in DOMAIN ixs |-> Serialized(ixs[n])]
    /\ dirty' = {} /\ dels' = {}
    /\ saved' = [exists |-> exists, docs |-> docs, defs |-> Defs(ixs)]
    /\ UNCHANGED <<up, exists, docs, rewrite, drop, writes, opens, exposed>>

\* The process is gone: what is not on file is lost.
Crash ==
    /\ up
    /\ opens < MaxOpens
    /\ log # <<>>
    /\ up' = FALSE
    /\ exists' = FALSE /\ docs' = Empty /\ ixs' = <<>> /\ dirty' = {} /\ dels' = {}
    /\ rewrite' = FALSE
    /\ drop' = NotDropping
    /\ UNCHANGED <<log, saved, writes, flushes, opens, exposed>>

\* The versions on file, and those whose document no later DEL deletes: of a
\* document that was put in again after its deletion all versions are back.
Versions == Joined([n \in DOMAIN log |-> log[n].docs])

\* Mutant of Deleted: a DEL holds for every version, also for later ones.
DeletedForGood(i) == \E n \in DOMAIN log : i \in log[n].dels

Deleted(i) ==
    \E n \in DOMAIN log :
        /\ i \in log[n].dels
        /\ \A m \in n..Len(log) : \A j \in DOMAIN log[m].docs : log[m].docs[j].id # i

Live == LET all == Versions
        IN  Joined([n \in DOMAIN all |-> IF Deleted(all[n].id) THEN <<>> ELSE <<all[n]>>])

\* META and the IDX records: the last META counts, and all the IDX records.
Meta == log[Len(log)]
Payloads == Joined([n \in DOMAIN log |-> log[n].idx])
DefOf(p) == [fields |-> p.fields, unique |-> p.unique]

\* Mutant of LastPayload: an index that has its rows keeps them.
FirstPayload(def) ==
    Payloads[CHOOSE n \in DOMAIN Payloads :
                /\ DefOf(Payloads[n]) = def
                /\ \A m \in 1..n - 1 : DefOf(Payloads[m]) # def]

LastPayload(def) ==
    LET at == {n \in DOMAIN Payloads : DefOf(Payloads[n]) = def}
    IN  Payloads[CHOOSE n \in at : \A m \in at : m <= n]

NewestOf(vs) ==
    [i \in {vs[n].id : n \in DOMAIN vs} |->
        LET at == {n \in DOMAIN vs : vs[n].id = i}
        IN  vs[CHOOSE n \in at : \A m \in at : m <= n].doc]

\* openV2 does without the rows on file when a record is suspect, or when an
\* index has no IDX record, or when an IDX record has no index.
NeedEager ==
    \/ \E n \in DOMAIN log : log[n].suspect
    \/ Meta.exists /\ {DefOf(p) : p \in ToSet(Payloads)} # ToSet(Defs(Meta.idx))

\* The normal path: entries are cold, the rows are the last ones written.
Opened ==
    [ok |-> TRUE, exists |-> Meta.exists,
     docs |-> IF Meta.exists THEN NewestOf(Live) ELSE Empty,
     ixs |-> [n \in DOMAIN Meta.idx |->
                 LoadRows(NewIndex(Meta.idx[n].fields, Meta.idx[n].unique),
                          LastPayload(DefOf(Meta.idx[n])))]]

LowerId(a, b) == a.id < b.id

\* eagerV2 and loadFileData: every version is indexed, in the order of the _ids;
\* a conflict ends Open. A collection that META does not list comes back.
Loading(vs) ==
    LET s == StableSort(vs, LowerId)
        defs == Defs(Meta.idx)
    IN  [ok |-> \A n \in DOMAIN defs : Refused(defs[n], s) = {},
         exists |-> Meta.exists \/ vs # <<>>,
         docs |-> NewestOf(vs),
         ixs |-> [n \in DOMAIN defs |-> Built(defs[n], s)]]

Open ==
    LET got == IF NeedEager THEN Loading(Live) ELSE Opened IN
    /\ ~up
    /\ opens < MaxOpens
    /\ opens' = opens + 1
    /\ up' = got.ok
    /\ IF got.ok
       THEN /\ exists' = got.exists /\ docs' = got.docs /\ ixs' = got.ixs
            /\ rewrite' = NeedEager
       ELSE UNCHANGED <<exists, docs, ixs, rewrite>>
    /\ exposed' = exposed \union
           (IF NeedEager /\ Len(Live) > Cardinality(DOMAIN NewestOf(Live))
            THEN {"eager_versions"} ELSE {}) \union
           (IF NeedEager /\ ~Meta.exists /\ Live # <<>> THEN {"undropped"} ELSE {})
    /\ UNCHANGED <<dirty, dels, log, drop, saved, writes, flushes>>

\* loadV2FileDataTolerant: DEL and COMMIT mean nothing, the indexes are those of
\* the last META that lists the collection, and of the versions of a document
\* loadFileDataRepair keeps the first.
OldestOf(vs) ==
    [i \in {vs[n].id : n \in DOMAIN vs} |->
        LET at == {n \in DOMAIN vs : vs[n].id = i}
        IN  vs[CHOOSE n \in at : \A m \in at : n <= m].doc]

ListedAt == {n \in DOMAIN log : log[n].exists}
RepairDefs == IF ListedAt = {} THEN <<>>
              ELSE Defs(log[CHOOSE n \in ListedAt : \A m \in ListedAt : m <= n].idx)

\* One index after the other is built; a document in conflict is dropped, and
\* stays in the indexes that were built before.
OneIndex(ds, def) ==
    LET vs == Listed(ds, DOMAIN ds)
    IN  [docs |-> [i \in DOMAIN ds \ Refused(def, vs) |-> ds[i]], ix |-> Built(def, vs)]

Rebuilt ==
    LET defs == RepairDefs
        upTo[n \in 0..Len(defs)] ==
            IF n = 0 THEN [docs |-> OldestOf(Versions), ixs |-> <<>>]
            ELSE LET r == OneIndex(upTo[n - 1].docs, defs[n])
                 IN  [docs |-> r.docs, ixs |-> Append(upTo[n - 1].ixs, r.ix)]
    IN  upTo[Len(defs)]

\* Repair of a file nobody has open: what it kept is written as a new file.
Repair ==
    LET r == Rebuilt
        there == ListedAt # {} \/ Versions # <<>>
    IN  /\ "repair" \in Scene
        /\ ~up /\ opens < MaxOpens
        /\ flushes < MaxFlushes
        /\ flushes' = flushes + 1
        /\ log' = <<[dels |-> {}, exists |-> there,
                     docs |-> Listed(r.docs, DOMAIN r.docs),
                     suspect |-> FALSE,
                     idx |-> [n \in DOMAIN r.ixs |-> Payload(r.ixs[n])]]>>
        /\ saved' = [exists |-> there, docs |-> r.docs, defs |-> RepairDefs]
        /\ exposed' = exposed \union
              (IF DOMAIN r.docs # DOMAIN OldestOf(Versions) THEN {"repair_rows"} ELSE {})
        /\ UNCHANGED <<up, mem, drop, writes, opens>>

\* A search through an index sorts its keys (Find holds s.mu only to read).
SearchIndex(n) ==
    /\ up /\ n \in DOMAIN ixs
    /\ ~ixs[n].sorted
    /\ ixs' = [ixs EXCEPT ![n] = EnsureOrd(@)]
    /\ UNCHANGED <<up, exists, docs, dirty, dels, rewrite, log, drop, saved, writes,
                   flushes, opens, exposed>>

-----------------------------------------------------------------------------

Init ==
    /\ up = TRUE
    /\ exists = FALSE /\ docs = Empty /\ ixs = <<>>
    /\ dirty = {} /\ dels = {} /\ rewrite = TRUE
    /\ log = <<>>
    /\ drop = NotDropping
    /\ saved = Nothing
    /\ writes = 0 /\ flushes = 0 /\ opens = 0
    /\ exposed = {}

Mutate ==
    \/ \E i \in Key, c \in Contents : Insert(i, c) \/ Change(i, c)
    \/ \E i \in Key : Delete(i)
    \/ \E def \in IndexDefs : EnsureIndex(def)
    \/ \E n \in DOMAIN ixs : DropIndex(n)
    \/ CreateCollection \/ DropBegin \/ DropDelete \/ DropEnd

OnFile == Flush \/ Compact \/ Crash \/ Open \/ Repair

Next == Mutate \/ OnFile \/ \E n \in DOMAIN ixs : SearchIndex(n)

Spec == Init /\ [][Next]_vars

-----------------------------------------------------------------------------
(* Safety *)

\* The indexes have not been fed what is no document of the collection.
Clean == exposed \intersect {"eager_versions", "repair_rows", "dropped_late"} = {}

\* An index holds the keys of the documents and nothing else, in order, whatever
\* it refused and took back before (store.go:204-229, index.go:133-264), and so
\* does the one that was read from the file (index.go:702-809). The types hold
\* as well.
IndexesHoldTheDocuments ==
    /\ TypeOK
    /\ up /\ Clean =>
          \A n \in DOMAIN ixs :
              /\ ixs[n].rows = RowsOfAll(docs, DOMAIN docs, ixs[n].fields)
              /\ Coherent(ixs[n])

\* No two documents share a key of a unique index - through refusals, Open and
\* Repair, and even where an index holds too much (index.go:139-167) - unless a
\* drop took a document without a DEL: an Open brings that one back beside those
\* that were stored after it.
UniqueMeansOneOwner ==
    up /\ "dropped_late" \notin exposed => \A n \in DOMAIN ixs : ixs[n].unique =>
        \A i, j \in DOMAIN docs : i # j =>
            RowsOf(docs[i], ixs[n].fields) \intersect RowsOf(docs[j], ixs[n].fields) = {}

\* Find returns through the indexes what it returns without them, wherever both
\* read the filter alike (store.go:774-877, 989-1127).
FindIsScan ==
    up /\ Clean =>
        \A filter \in Filters : ReadAlike(Coll, filter) =>
            FindResults(Coll, filter, Plainly) = {Scan(Coll, filter, Plainly)}

\* Count says how many documents Find returns (store.go:1340-1412), but for
\* values that are asked for twice.
CountIsFind ==
    up /\ Clean =>
        \A filter \in Filters : ReadAlike(Coll, filter) /\ AsksOnce(filter) =>
            Counts(Coll, filter) = {Len(Scan(Coll, filter, Plainly))}

\* The documents that match, in the order of SortField.
InOrderOf(filter, dir) ==
    InKeyOrder(SetAsc({i \in DOMAIN docs : Match(docs[i], filter)}), docs, <<SortField, dir>>)

SortedBy(dir, skip, limit) ==
    [sort |-> <<<<SortField, dir>>>>, skip |-> skip, limit |-> limit]

\* The pages of a sorted Find, one after the other, are the documents in the order
\* of the key, as long as it tells them apart: those that end before the last
\* document, which a heap keeps, and all of them if an index gives the order
\* (store.go:817-983). The last page of the others is not: see SortedIsInOrder.
PagesTile ==
    up /\ Clean /\ SortsStrictly(Coll, SortField) =>
        \A filter \in Filters, dir \in {1, -1}, size \in 1..N - 1, k \in 0..N - 1 :
            LET sorted == InOrderOf(filter, dir)
                opts == SortedBy(dir, k * size, size)
            IN  /\ ReadAlike(Coll, filter)
                /\ \/ opts.skip + opts.limit < Len(sorted)
                   \/ RangeServed(Coll, filter.fields) = {SortField}
                => FindResults(Coll, filter, opts) = {Page(sorted, opts)}

\* Open gives back what was saved, whichever flushes the file is made of
\* (filev2.go:871-1052), unless a document was put into a collection while that
\* was being dropped.
OpenGivesWhatWasSaved ==
    [][~up /\ up' /\ "dropped_late" \notin exposed' =>
          /\ exists' = saved.exists /\ docs' = saved.docs
          /\ Defs(ixs') = saved.defs]_vars

-----------------------------------------------------------------------------
(* What a comment of the repository says, and the code does not do *)

\* "sortByPartial ordena los documentos según sortSpec" (store.go:892): a sorted
\* Find returns the documents in the order of the key. sortBy compares keys that
\* have stayed behind when their documents were moved (store.go:1569-1579).
SortedIsInOrder ==
    up /\ Clean /\ SortsStrictly(Coll, SortField) =>
        \A dir \in {1, -1} :
            FindResults(Coll, NoFilter, SortedBy(dir, 0, 0)) = {InOrderOf(NoFilter, dir)}

\* "Count devuelve el número de documentos que coinciden" (store.go:1333): it
\* returns the number of the documents that match the filter, however it counts.
CountsMatching ==
    up /\ Clean =>
        \A filter \in Filters :
            Counts(Coll, filter) = {Cardinality({i \in DOMAIN docs : Match(docs[i], filter)})}

\* "Los registros DOC/IDX obsoletos de commits anteriores se ignoran al reabrir"
\* (store.go:1474-1475): Open succeeds, and its indexes hold what the documents
\* hold.
ObsoleteRecordsIgnored ==
    [][opens' # opens =>
          /\ up'
          /\ \A n \in DOMAIN ixs' :
                ixs'[n].rows = RowsOfAll(docs', DOMAIN docs', ixs'[n].fields)]_vars
=============================================================================
