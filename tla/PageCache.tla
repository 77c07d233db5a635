----------------------------- MODULE PageCache -----------------------------
(***************************************************************************)
(* The page cache of a Store (db/cache.go): which entries hold their       *)
(* document in memory, how a cold one is read back from its record, and    *)
(* the accounting that decides which are evicted - beside readers that     *)
(* share s.mu, mutations, and flushes that append to the file or replace   *)
(* it while nobody holds s.mu.                                             *)
(*                                                                         *)
(* The store has been opened from a v2 file, so every entry starts cold.   *)
(* Records take the same room on file and in memory: a record is a slot    *)
(* of the file, and counts 1 towards the budget. One slot stands for what  *)
(* a flush writes after its documents. DELs are left out: see StoreFlush.  *)
(***************************************************************************)
EXTENDS Integers, Sequences, FiniteSets

CONSTANTS
    N,            \* the _ids are 1..N, in their order
    Val,          \* what the fields of a document can hold
    Reader,       \* the goroutines that read (Get, the workers of Find)
    Budget,       \* Options.CacheBytes, in records
    MaxWrites,    \* bound: mutations
    MaxFlushes,   \* bound: flushes that start
    MaxBytes,     \* bound: bytes counted when a read begins
    Scene         \* bound: the calls an instance looks at

ASSUME BoundsAssumption ==
    /\ {N, Budget} \subseteq Nat \ {0}
    /\ {MaxWrites, MaxFlushes, MaxBytes} \subseteq Nat
    /\ Scene \subseteq {"read", "insert", "update", "delete", "compact", "fail"}

Key == 1..N

\* A document remembers whose it is: its _id, and the rest.
Doc == [id: Key, val: Val]

NoDoc == [id |-> 0]

MaybeDoc == Doc \union {NoDoc}

VARIABLES
    want,        \* the documents the store was told to hold, NoDoc for none
    pool,        \* what cacheMu guards, and the atomics of the entries
    recOff,      \* docEntry.recOff: the slot of the entry's record, 0 = -1
    dirty,       \* docEntry.dirty
    mutGen,      \* docEntry.mutGen
    orphans,     \* the size of entries that are deleted and still in s.cache
    dirtyGen,    \* s.dirtyGen
    unsaved,     \* s.dirty
    compactForce,
    file,        \* the slots of the file: documents, NoDoc for other records
    flusher,     \* the flush that holds flushMu
    flushes,     \* flushes started so far
    rd,          \* the readers
    exposed      \* known faults of the code this store has run into

entryVars == <<want, recOff, dirty, mutGen>>
flagVars == <<dirtyGen, unsaved, compactForce>>
vars == <<entryVars, pool, orphans, flagVars, file, flusher, flushes, rd,
          exposed>>

\* docP, size, refBit: the fields of docEntry; cached, bytes: s.cache and
\* s.residentBytes.
Pool == [docP: [Key -> MaybeDoc], size: [Key -> 0..1], refBit: [Key -> BOOLEAN],
         cached: SUBSET Key, bytes: Nat]

Staged == [key: Key, doc: MaybeDoc]

NoFlush == [pc |-> "idle", full |-> FALSE, gen |-> 0, todo |-> {},
            docs |-> <<>>, at |-> 0]

NotReading == [pc |-> "idle", key |-> 1, off |-> 0, got |-> NoDoc]

TypeOK ==
    /\ want \in [Key -> MaybeDoc]
    /\ pool \in Pool
    /\ recOff \in [Key -> Nat]
    /\ dirty \in [Key -> BOOLEAN]
    /\ mutGen \in [Key -> Nat]
    /\ orphans \in Nat
    /\ dirtyGen \in Nat
    /\ unsaved \in BOOLEAN
    /\ compactForce \in BOOLEAN
    /\ file \in Seq(MaybeDoc)
    /\ flusher \in [pc: {"idle", "load", "staged", "written"}, full: BOOLEAN,
                    gen: Nat, todo: SUBSET Key, docs: Seq(Staged), at: Nat]
    /\ flushes \in Nat
    /\ rd \in [Reader -> [pc: {"idle", "read", "check", "store", "admit", "done"},
                          key: Key, off: Nat, got: MaybeDoc]]
    /\ exposed \subseteq {"stale_read", "orphan", "admitted_cold", "unregistered"}

-----------------------------------------------------------------------------
(* Eviction: evictLocked and evictEntryLocked, under cacheMu *)

\* The bytes given back when the entries of E are evicted: those of an entry
\* that is cold already are not.
Freed(p, E) == Cardinality({k \in E : p.docP[k] # NoDoc /\ p.size[k] = 1})

\* Mutant of Remaining: what is evicted stays counted.
RemainingAll(p, E) == p.bytes

Remaining(p, E) == IF p.bytes < Freed(p, E) THEN 0 ELSE p.bytes - Freed(p, E)

Evict(p, E) ==
    [p EXCEPT !.docP   = [k \in Key |-> IF k \in E THEN NoDoc ELSE @[k]],
              !.cached = @ \ E,
              !.bytes  = Remaining(p, E)]

Evictable(p, marked) == {k \in p.cached : ~marked[k] /\ ~p.refBit[k]}

\* One pass over s.cache, whose order is any: it stops at the budget.
Sweep(p, marked) ==
    {Evict(p, E) :
        E \in {E \in SUBSET Evictable(p, marked) :
                  /\ \/ E = Evictable(p, marked)
                     \/ Evict(p, E).bytes <= Budget
                  /\ \/ E = {}
                     \/ \E k \in E : Evict(p, E \ {k}).bytes > Budget}}

ClearRefBits(p) ==
    [p EXCEPT !.refBit = [k \in Key |-> @[k] /\ k \notin p.cached]]

\* Mutant of OverBudget: room is made only when there is none at all.
OverTwice(p) == p.bytes > Budget + 1

OverBudget(p) == p.bytes > Budget

\* Entries that were used since get a second chance, and no third.
Shrunk(p, marked) ==
    IF ~OverBudget(p) THEN {p}
    ELSE {q \in Sweep(p, marked) : ~OverBudget(q)} \union
         UNION {Sweep(ClearRefBits(q), marked) :
                   q \in {q \in Sweep(p, marked) : OverBudget(q)}}

\* cacheAdmit: an entry that is registered already changes nothing.
Admit(p, k, marked) ==
    IF k \in p.cached THEN {p}
    ELSE Shrunk([p EXCEPT !.cached = @ \union {k}, !.bytes = @ + p.size[k]],
                marked)

-----------------------------------------------------------------------------
(* Reading a record *)

\* From the rename of a rewrite to its bookkeeping the entries still have the
\* offsets of the file that was there before.
Replaced == flusher.pc = "written" /\ flusher.full

\* What a read at an offset finds: a document, whoever it belongs to, or
\* something that is none (ErrCorrupt).
At(off) == IF off \in 1..Len(file) THEN file[off] ELSE NoDoc

\* loadEntry for a caller that holds s.mu alone: the document, NoDoc for an
\* error, and the pool afterwards. The file may fail to be read; where that
\* happens to a reader it changes nothing, and is left out.
Loaded(k) ==
    LET failed == [doc |-> NoDoc, pool |-> pool]
        full == [pool EXCEPT !.docP[k] = At(recOff[k]), !.size[k] = 1,
                             !.refBit[k] = TRUE]
        read == {[doc |-> At(recOff[k]), pool |-> p] : p \in Admit(full, k, dirty)}
    IN  IF pool.docP[k] # NoDoc
        THEN {[doc |-> pool.docP[k], pool |-> [pool EXCEPT !.refBit[k] = TRUE]]}
        ELSE IF At(recOff[k]) = NoDoc THEN {failed}
        ELSE IF "fail" \in Scene THEN read \union {failed}
        ELSE read

\* The cold read of k goes to the wrong file.
StaleRead(k) ==
    IF Replaced /\ pool.docP[k] = NoDoc /\ recOff[k] # 0 THEN {"stale_read"}
    ELSE {}

-----------------------------------------------------------------------------
(* Readers: they share s.mu, and meet in the entries and at cacheMu *)

\* s.mu is free for a reader; for a writer nobody may read either.
MayRead == flusher.pc # "load"

MayWrite == MayRead /\ \A r \in Reader : rd[r].pc = "idle"

Return(r, d) == rd' = [rd EXCEPT ![r].pc = "done", ![r].got = d]

\* The entry is found, and its document if it is resident.
ReadStart(r, k) ==
    /\ "read" \in Scene
    /\ MayRead
    /\ rd[r].pc = "idle"
    /\ want[k] # NoDoc
    /\ pool.bytes <= MaxBytes
    /\ rd' = [rd EXCEPT ![r] =
                 [pc  |-> IF pool.docP[k] = NoDoc THEN "read" ELSE "done",
                  key |-> k, off |-> recOff[k], got |-> pool.docP[k]]]
    /\ pool' = IF pool.docP[k] = NoDoc THEN pool
               ELSE [pool EXCEPT !.refBit[k] = TRUE]
    /\ UNCHANGED <<entryVars, orphans, flagVars, file, flusher, flushes, exposed>>

ReadRecord(r) ==
    /\ rd[r].pc = "read"
    /\ rd' = [rd EXCEPT ![r].pc  = IF At(rd[r].off) = NoDoc THEN "done" ELSE "check",
                        ![r].got = At(rd[r].off)]
    /\ exposed' = exposed \union
           (IF Replaced /\ rd[r].off # 0 THEN {"stale_read"} ELSE {})
    /\ UNCHANGED <<entryVars, pool, orphans, flagVars, file, flusher, flushes>>

\* Another reader may have been faster: then its document is the answer.
ReadCheck(r) ==
    LET k == rd[r].key IN
    /\ rd[r].pc = "check"
    /\ IF pool.docP[k] # NoDoc
       THEN /\ Return(r, pool.docP[k])
            /\ pool' = [pool EXCEPT !.refBit[k] = TRUE]
       ELSE /\ rd' = [rd EXCEPT ![r].pc = "store"]
            /\ UNCHANGED pool
    /\ UNCHANGED <<entryVars, orphans, flagVars, file, flusher, flushes, exposed>>

ReadStore(r) ==
    LET k == rd[r].key IN
    /\ rd[r].pc = "store"
    /\ rd' = [rd EXCEPT ![r].pc = "admit"]
    /\ pool' = [pool EXCEPT !.docP[k] = rd[r].got, !.size[k] = 1,
                            !.refBit[k] = TRUE]
    /\ UNCHANGED <<entryVars, orphans, flagVars, file, flusher, flushes, exposed>>

\* The entry may have been registered, and evicted, by another reader since.
ReadAdmit(r) ==
    LET k == rd[r].key IN
    /\ rd[r].pc = "admit"
    /\ pool' \in Admit(pool, k, dirty)
    /\ Return(r, rd[r].got)
    /\ exposed' = exposed \union
           (IF pool.docP[k] = NoDoc THEN {"admitted_cold"} ELSE {})
    /\ UNCHANGED <<entryVars, orphans, flagVars, file, flusher, flushes>>

ReadEnd(r) ==
    /\ rd[r].pc = "done"
    /\ rd' = [rd EXCEPT ![r] = NotReading]
    /\ UNCHANGED <<entryVars, pool, orphans, flagVars, file, flusher, flushes,
                   exposed>>

-----------------------------------------------------------------------------
(* Mutations, each alone under s.mu *)

\* markEntryMutated, after the entry of k has been given document d.
Mutated(k, d) ==
    /\ want' = [want EXCEPT ![k] = d]
    /\ dirty' = [dirty EXCEPT ![k] = TRUE]
    /\ mutGen' = [mutGen EXCEPT ![k] = dirtyGen + 1]
    /\ dirtyGen' = dirtyGen + 1
    /\ unsaved' = TRUE
    /\ UNCHANGED <<compactForce, file, flusher, flushes, rd>>

\* A new entry has a size of 0 until it is read from a record.
Insert(k, v) ==
    LET d == [id |-> k, val |-> v] IN
    /\ "insert" \in Scene
    /\ MayWrite /\ dirtyGen < MaxWrites
    /\ want[k] = NoDoc
    /\ Mutated(k, d)
    /\ pool' \in Admit([pool EXCEPT !.docP[k] = d, !.size[k] = 0,
                                    !.refBit[k] = FALSE], k, dirty')
    /\ recOff' = [recOff EXCEPT ![k] = 0]
    /\ UNCHANGED <<orphans, exposed>>

\* The patch goes onto the document that was loaded, which stays registered
\* or not as the loading left it.
Update(k, v) ==
    /\ "update" \in Scene
    /\ MayWrite /\ dirtyGen < MaxWrites
    /\ want[k] # NoDoc
    /\ \E got \in Loaded(k) :
          IF got.doc = NoDoc
          THEN /\ pool' = got.pool
               /\ UNCHANGED <<entryVars, flagVars, file, flusher, flushes, rd>>
               /\ exposed' = exposed \union StaleRead(k)
          ELSE /\ pool' = [got.pool EXCEPT !.docP[k] = [got.doc EXCEPT !.val = v]]
               /\ Mutated(k, [id |-> k, val |-> v])
               /\ UNCHANGED recOff
               /\ exposed' = exposed \union StaleRead(k) \union
                      (IF k \notin got.pool.cached THEN {"unregistered"} ELSE {})
    /\ UNCHANGED orphans

\* Upsert of an entry that is there: what it held does not matter, and it is
\* registered again if loading it evicted it.
Replace(k, v) ==
    LET d == [id |-> k, val |-> v] IN
    /\ "update" \in Scene
    /\ MayWrite /\ dirtyGen < MaxWrites
    /\ want[k] # NoDoc
    /\ Mutated(k, d)
    /\ \E got \in Loaded(k) :
          pool' \in Admit([got.pool EXCEPT !.docP[k] = d], k, dirty')
    /\ exposed' = exposed \union StaleRead(k)
    /\ UNCHANGED <<recOff, orphans>>

\* evictEntryLocked turns away from an entry that is dirty, so a deleted one
\* stays in s.cache.
Delete(k) ==
    /\ "delete" \in Scene
    /\ MayWrite /\ dirtyGen < MaxWrites
    /\ want[k] # NoDoc
    /\ \E got \in Loaded(k) :
          IF got.doc = NoDoc /\ recOff[k] # 0
          THEN /\ pool' = got.pool
               /\ UNCHANGED <<entryVars, orphans, flagVars>>
               /\ exposed' = exposed \union StaleRead(k)
          ELSE LET stays == dirty[k] /\ k \in got.pool.cached
                   gone == IF dirty[k]
                           THEN [got.pool EXCEPT !.cached = @ \ {k}]
                           ELSE Evict(got.pool, {k} \intersect got.pool.cached)
               IN  /\ pool' = [gone EXCEPT !.docP[k] = NoDoc, !.size[k] = 0,
                                           !.refBit[k] = FALSE]
                   /\ orphans' = IF stays THEN orphans + got.pool.size[k]
                                 ELSE orphans
                   /\ want' = [want EXCEPT ![k] = NoDoc]
                   /\ dirty' = [dirty EXCEPT ![k] = FALSE]
                   /\ mutGen' = [mutGen EXCEPT ![k] = 0]
                   /\ recOff' = [recOff EXCEPT ![k] = 0]
                   /\ dirtyGen' = dirtyGen + 1
                   /\ unsaved' = TRUE
                   /\ UNCHANGED compactForce
                   /\ exposed' = exposed \union StaleRead(k) \union
                          (IF stays /\ got.pool.size[k] > 0 THEN {"orphan"}
                           ELSE {})
    /\ UNCHANGED <<file, flusher, flushes, rd>>

Compact ==
    /\ "compact" \in Scene
    /\ MayWrite
    /\ ~compactForce
    /\ unsaved \/ dirtyGen < MaxWrites
    /\ compactForce' = TRUE
    /\ unsaved' = TRUE
    /\ dirtyGen' = IF unsaved THEN dirtyGen ELSE dirtyGen + 1
    /\ UNCHANGED <<entryVars, pool, orphans, file, flusher, flushes, rd, exposed>>

-----------------------------------------------------------------------------
(* The flush *)

\* prepareFlush takes s.mu and then loads, in the order of the _ids, the
\* documents it will write: all of them in a rewrite, else the dirty ones.
FlushBegin ==
    LET todo == {k \in Key : want[k] # NoDoc /\ (compactForce \/ dirty[k])} IN
    /\ MayWrite
    /\ flusher.pc = "idle"
    /\ flushes < MaxFlushes
    /\ unsaved \/ compactForce
    /\ flushes' = flushes + 1
    /\ flusher' = [NoFlush EXCEPT !.pc   = IF todo = {} THEN "staged" ELSE "load",
                                  !.full = compactForce,
                                  !.gen  = dirtyGen,
                                  !.todo = todo]
    /\ compactForce' = FALSE
    /\ UNCHANGED <<entryVars, pool, orphans, dirtyGen, unsaved, file, rd, exposed>>

\* An entry without a record is passed over; a record that cannot be read
\* ends the flush.
FlushLoad(k) ==
    /\ flusher.pc = "load"
    /\ k \in flusher.todo /\ \A j \in flusher.todo : k <= j
    /\ \E got \in Loaded(k) :
          /\ pool' = got.pool
          /\ IF got.doc = NoDoc /\ recOff[k] # 0
             THEN flusher' = NoFlush
             ELSE flusher' =
                      [flusher EXCEPT
                          !.todo = @ \ {k},
                          !.docs = IF got.doc = NoDoc THEN @
                                   ELSE Append(@, [key |-> k, doc |-> got.doc]),
                          !.pc   = IF flusher.todo = {k} THEN "staged" ELSE @]
    /\ UNCHANGED <<entryVars, orphans, flagVars, file, flushes, rd, exposed>>

Slots == [i \in 1..Len(flusher.docs) + 1 |->
             IF i > Len(flusher.docs) THEN NoDoc ELSE flusher.docs[i].doc]

\* writeState, without s.mu: the file is replaced, or grows at its end.
FlushWrite ==
    /\ flusher.pc = "staged"
    /\ file' = IF flusher.full THEN Slots ELSE file \o Slots
    /\ flusher' = [flusher EXCEPT !.pc = "written",
                                  !.at = IF flusher.full THEN 0 ELSE Len(file)]
    /\ UNCHANGED <<entryVars, pool, orphans, flagVars, flushes, rd, exposed>>

FlushFails ==
    /\ "fail" \in Scene
    /\ flusher.pc = "staged"
    /\ flusher' = NoFlush
    /\ UNCHANGED <<entryVars, pool, orphans, flagVars, file, flushes, rd, exposed>>

WrittenAs(k) == {i \in 1..Len(flusher.docs) : flusher.docs[i].key = k}

\* Mutant of Cleaned: a document mutated since the snapshot counts as saved.
CleanedWhenWritten(k) == WrittenAs(k) # {}

Cleaned(k) == WrittenAs(k) # {} /\ mutGen[k] <= flusher.gen

\* Mutant of RecordAt: an offset into what was written, not into the file.
RecordInBatch(i) == i

RecordAt(i) == flusher.at + i

\* applyFlushed
FlushApply ==
    /\ flusher.pc = "written"
    /\ MayWrite
    /\ dirty' = [k \in Key |-> dirty[k] /\ ~Cleaned(k)]
    /\ recOff' = [k \in Key |->
                     IF want[k] # NoDoc /\ WrittenAs(k) # {}
                     THEN RecordAt(CHOOSE i \in WrittenAs(k) : TRUE)
                     ELSE recOff[k]]
    /\ unsaved' = (unsaved /\ dirtyGen # flusher.gen)
    /\ flusher' = NoFlush
    /\ UNCHANGED <<want, mutGen, pool, orphans, dirtyGen, compactForce, file,
                   flushes, rd, exposed>>

-----------------------------------------------------------------------------

\* What flushes have left of documents d for the keys of S: one wrote them all,
\* in the order of their _ids, or each wrote one.
OpenedFiles(S, d) ==
    LET n == Cardinality(S)
        orders == {o \in [1..n -> S] : \A k \in S : \E i \in 1..n : o[i] = k}
        sorted == {o \in orders : \A i, j \in 1..n : i < j => o[i] < o[j]}
    IN  {[i \in 1..n + 1 |-> IF i > n THEN NoDoc ELSE d[o[i]]] : o \in sorted}
        \union
        {[i \in 1..2 * n |-> IF i % 2 = 0 THEN NoDoc ELSE d[o[(i + 1) \div 2]]] :
            o \in orders}

Init ==
    /\ \E S \in SUBSET Key, v \in Val :
          /\ want = [k \in Key |-> IF k \in S THEN [id |-> k, val |-> v] ELSE NoDoc]
          /\ file \in OpenedFiles(S, want)
    /\ recOff = [k \in Key |->
                    IF want[k] = NoDoc THEN 0
                    ELSE CHOOSE i \in 1..Len(file) : file[i] = want[k]]
    /\ pool = [docP |-> [k \in Key |-> NoDoc], size |-> [k \in Key |-> 0],
               refBit |-> [k \in Key |-> FALSE], cached |-> {}, bytes |-> 0]
    /\ dirty = [k \in Key |-> FALSE]
    /\ mutGen = [k \in Key |-> 0]
    /\ orphans = 0
    /\ dirtyGen = 0 /\ unsaved = FALSE /\ compactForce = FALSE
    /\ flusher = NoFlush
    /\ flushes = 0
    /\ rd = [r \in Reader |-> NotReading]
    /\ exposed = {}

Read ==
    \E r \in Reader :
        \/ \E k \in Key : ReadStart(r, k)
        \/ ReadRecord(r) \/ ReadCheck(r) \/ ReadStore(r) \/ ReadAdmit(r)
        \/ ReadEnd(r)

Mutate ==
    \E k \in Key :
        \/ \E v \in Val : Insert(k, v) \/ Update(k, v) \/ Replace(k, v)
        \/ Delete(k)

Flush ==
    \/ FlushBegin
    \/ \E k \in Key : FlushLoad(k)
    \/ FlushWrite \/ FlushFails \/ FlushApply

Next == Read \/ Mutate \/ Compact \/ Flush

Spec == Init /\ [][Next]_vars

-----------------------------------------------------------------------------
(* Safety *)

\* Evicting loses nothing: a document is in memory as it was stored, or it is
\* cold, was saved, and its record is where the entry says - but for the time
\* from the rename of a rewrite to its bookkeeping (cache.go:141-216,
\* file.go:538-592). The types hold as well.
NothingIsLost ==
    /\ TypeOK
    /\ "stale_read" \notin exposed =>
          \A k \in Key : want[k] # NoDoc =>
              \/ pool.docP[k] = want[k]
              \/ /\ pool.docP[k] = NoDoc
                 /\ ~dirty[k]
                 /\ ~Replaced => At(recOff[k]) = want[k]

\* However readers that load the same entry and evict each other's meet, each
\* answers with the document (cache.go:43-76), unless a cold read went to a
\* file that had just been replaced.
AnswersAreRight ==
    "stale_read" \notin exposed =>
        \A r \in Reader : rd[r].pc = "done" => rd[r].got = want[rd[r].key]

\* Between loads the registry holds the entries that are resident, and
\* residentBytes is the sum of their sizes (cache.go:126-138, 199-216), until
\* the store runs into one of the ways it loses count.
ResidentsAreCounted ==
    exposed \subseteq {"stale_read"}
    /\ (\A r \in Reader : rd[r].pc # "admit") =>
        /\ pool.cached = {k \in Key : pool.docP[k] # NoDoc}
        /\ pool.bytes = Cardinality({k \in pool.cached : pool.size[k] = 1})

\* A load that leaves the cache over its budget has left in it nothing but
\* documents that are not saved (cache.go:141-178).
RoomIsMade ==
    [][\A r \in Reader : rd[r].pc = "admit" /\ rd'[r].pc = "done" =>
          \/ pool'.bytes <= Budget
          \/ pool'.cached \subseteq {k \in Key : dirty[k]}]_vars

-----------------------------------------------------------------------------
(* What comments and tests of the repository say, and the code does not do *)

\* "Get devuelve una copia del documento, o ErrNotFound" (store.go:728): when
\* it returns a document, then the one that was asked for.
GetReturnsTheDocument ==
    \A r \in Reader : rd[r].pc = "done" => rd[r].got \in {want[rd[r].key], NoDoc}

\* Clean entries are evicted until the bytes are within the budget
\* (cache.go:140, filev2_test.go:123-125): after a load with nothing left to
\* save they are.
ReadsKeepTheBudget ==
    [][\A r \in Reader : rd[r].pc = "admit" /\ rd'[r].pc = "done" =>
          (\E k \in Key : dirty[k]) \/ pool'.bytes <= Budget]_vars
=============================================================================
