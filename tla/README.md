# MLStoreDB in TLA+

TLA+ models of [MLStoreDB](../src), an embedded encrypted document store in Go,
with TLC instances and TLAPS proofs. MLStoreDB is an engine (`db/`), a server
that speaks the MongoDB wire protocol over it (`wire/`), an HTTP console
(`adminweb/`) and three command-line programs (`tools/`).

    tlc -workers 2 -config flush_rewrite.cfg MCStoreFlush.tla
    tlc -workers 2 -config flush_faults.cfg StoreRefinement.tla
    tlapm RecordScanProofs.tla
    tlapm StoreFlushProofs.tla
    tlapm PageCacheProofs.tla
    tlapm RbacProofs.tla
    tlapm HooksProofs.tla
    tlapm WireProofs.tla
    tlapm DocumentsProofs.tla
    tlapm QueryProofs.tla

## 1. The system

| Part | State | Operations | Hard behaviour | What makes it correct |
|---|---|---|---|---|
| Record log, `db/filev2.go` | the file: header, then DEL, DOC, META, IDX and COMMIT records | append of a batch, rewrite, scan, truncation | writes cut short anywhere, tails no COMMIT covers | the scan reads the batches up to the last COMMIT, newest record of a key first |
| Store and flush, `db/store.go`, `db/file.go`, `db/filev2.go` | `collections`, `pendingDels`, `dirty`, `dirtyGen`, `writeSeq`, `durableSeq`, the three rewrite flags | mutations, Flush, FlushSync, Compact, Close, Open | the file is written outside `s.mu` while mutations run; crashes; failed writes | memory = file + what the next flush will write; a crash leaves one snapshot, whole |
| Page cache, `db/cache.go` | residency of entries, `residentBytes`, `noEvict` | `loadEntry`, `cacheAdmit`, `evictLocked` | eviction and cold reads beside a rewrite | a cold entry's record holds its document; dirty entries stay resident |
| Open, recovery, `db/filev2.go`, `db/repair.go` | | `openV2`, `eagerV2`, `Repair` | META and IDX that disagree, suspect records | Open gives the committed documents whichever path it takes |
| Indexes, `db/index.go` | ordered keys, posting lists, CSR form | `applyIndexes`, `ensureIndex`, `loadRows` | rollback of a mutation over several indexes | an index holds exactly the documents' keys; unique keys are unique |
| Queries, `db/store.go`, `db/filter.go`, `db/parallel.go` | | `planCandidates`, `match`, `countIndexed` | plans that over- or under-select | an indexed find = a scan |
| RBAC, `db/auth.go` | `_users`, `_roles`, `sessions` | user and role management, `Authenticate`, checks | purge of sessions, cold records, crash | no right outlives its revocation |
| Hooks and triggers, `db/hooks.go`, `db/triggers.go` | registrations, `hookQ`, the worker | before and after hooks, `WaitAsyncHooks` | full queue, worker that waits for itself, Close | every accepted event is delivered or refused |
| Graph, `db/graph.go` | adjacency snapshot | `traverse`, `shortestPath` | stale snapshot | paths are paths of the documents |
| Ownership, `db/runtime.go`, `db/rotate.go` | lock file, ticker | `OpenWithLock`, `Snapshot`, `RotateKeys` | two processes; failure after a rename | one owner; old or new credentials open the file |
| Wire server, `wire/` | connections, cursors, SASL state | commands | find-then-write, cursors that expire, shutdown | one reply per request; Close ends |
| Console, `adminweb/` | sessions, import jobs, open stores | HTTP handlers | concurrent create and resolve | one store per file |

How they meet: `wire/` and `adminweb/` call the `Store` API; a mutation runs
before hooks without a lock, then under `s.mu` checks the session, waits for
backpressure, changes entries and indexes and marks them, then queues after
hooks and, with `SyncOnWrite`, calls `FlushSync`. A ticker calls `Flush`.
`Flush` holds `flushMu` throughout and `s.mu` only to take its snapshot
(`prepareFlush`) and for its bookkeeping (`applyFlushed`); the write is outside
`s.mu`. `Open` runs before the store is shared.

## 2. The modules

| Module | What it is |
|---|---|
| `RecordLog` | the file as a log of batches; what opening reads from it; what a write cut short leaves |
| `RecordScan`, `MCRecordScan` | the same file record by record with the passes of `scanV2`; checked to read what `RecordLog` says |
| `RecordScanProofs` | the passes of `scanV2` are `Replay`, and writes cut short leave `Parts`, for files of any length |
| `StoreFlush`, `MCStoreFlush` | the store: mutations, flush, FlushSync, Compact, Close, crashes, Open |
| `CrashSafeStore`, `StoreRefinement` | what such a store promises, and that `StoreFlush` keeps it |
| `StoreFlushProofs` | `StoreFlush`: types, records that can be read, mutations that are not forgotten, crashes, durable counts, Close; that it implements `CrashSafeStore` |
| `PageCache`, `MCPageCache` | the page cache: cold reads by several readers, eviction, beside mutations and flushes |
| `PageCacheProofs` | nothing is lost, readers, the registry and its budget |
| `Filters` | values, their orders, what a filter selects, the sorts |
| `Indexes` | one index: keys, ordered keys, seeks, ranges, the rows on file; `applyIndexes` over several |
| `QueryPlan` | the planner, Find and Count over `Indexes` and `Filters` |
| `Documents`, `MCDocuments` | a collection with its indexes: mutations, drops, flushes, both ways of Open, Repair, over `QueryPlan` |
| `DocumentsProofs` | what adding, removing, sorting, writing and reading do to one index; indexes hold the documents, unique keys have one owner, Open gives back what was saved |
| `QueryProofs` | Find through the indexes is a scan, Count is the number of what it returns |
| `Rbac`, `MCRbac` | users, roles, sessions, Authenticate, writes that wait, and what the file makes of them |
| `RbacProofs` | sessions, roles and grants; writes; what Open brings back |
| `Hooks`, `MCHooks` | hooks, their queue and worker, WaitAsyncHooks, Close, triggers |
| `HooksProofs` | the barrier, the triggers, updates that were previewed |
| `UpdateExpr` | update expressions of the wire protocol, and the patch that goes to the store |
| `Aggregate` | the stages of aggregate, and distinct, over `UpdateExpr` |
| `Wire`, `MCWire` | the server: connections, SCRAM, commands, cursors, over `Aggregate` |
| `WireProofs` | Close, the gate, cursors, replies, documents taken, fields an update does not name |

Each layer takes the one below by what it promises. `StoreFlush` is about one
document per key and every interleaving of a flush; `Documents` takes a flush as
one step and adds indexes, META and IDX; `Rbac` takes a flush as two steps and
the file as what its records come to; `Wire` takes a call of the store as one
step. `CrashSafeStore` is the promise of the lowest layer, in its own words.

### RecordLog

One flush writes DELs, DOCs, META, IDXs and COMMIT in that order, so a batch is
`[dels, docs, end]`, with `end` telling whether its COMMIT is there
(`"commit"`), or only complete records (`"cut"`), or an incomplete one after
them (`"torn"`). A key is a (collection, `_id`) pair. `Replay` is what a scan
gives; `Parts` is what a write may leave of a batch and `Cuts` what a disk may
hold of a log when only a prefix was synced; `HealedLogs` is what Open leaves.
Nothing here is `RECURSIVE`: the newest record of a key is given by a
quantifier, and `RecordScan` shows that it is the one the loops of the code
find: there each loop is a recursive function of the position it has reached
(`Marked` and `Entered` are one turn of it).

### StoreFlush

| Model | Code |
|---|---|
| `mem`, `mod`, `mutGen`, `recOff` | the entry map and `docEntry.dirty`, `.mutGen`, `.recOff` (`recOff` is a position in the log) |
| `pendingDels` ... `compactForce` | the fields of `Store` with these names |
| `st` | the `flushState` in flight: `"staged"` from `prepareFlush` on, `"written"` once the bytes are in the file; `st.pc # "idle"` is `flushInProgress` and `flushMu` held |
| `syncer`, `closer` | one call of FlushSync and one of Close, with the `writeSeq` at their start |
| `file`, `mark`, `prior` | the path, how much of it an fsync covers, and what the path may name instead after a power failure (a rename counts once the directory is synced) |
| `snapshots`, `ackSeq`, `sureSeq`, `exposed` | history |

One critical section of `s.mu` is one action. `Insert`, `Upsert`, `Update`,
`Delete` are the `...Apply` functions with their early returns and the wait for
backpressure as a guard. A flush is `FlushBegin` (or `FlushNothing`), then
`WriteFull` or `WriteAppend` or a failure (`WriteFails`, `WriteStopsShort`),
then `ApplyFlushed`; everything else may run between these. `ProcessCrash`
keeps what was written, `PowerLoss` keeps any of `Images`. `OpenNew`, `OpenV1`
and `OpenV2` are the three ways `Open` ends.

*The directory.* `syncPath` syncs the file, and the directory only as far as it can:
when the directory cannot be opened or synced FlushSync returns nil all the same
(`file.go:614-616`, `630-635`). So `SyncPath` may leave `prior` as it was, and a power
failure may then undo a rename that a FlushSync has answered for. `ackSeq` is what
FlushSync has answered for; `sureSeq` is what it had answered for when no rename was
left to undo. `PathImages` are the disks that undo no rename, and `CrashAtomic` asks of
them that they hold `ackSeq`, of the others (`prior`) that they hold `sureSeq`. An error
of the file itself goes to the caller (`SyncFails`).

*Known losses.* The code loses data in three situations (section 5), and a
store that has met one is no longer what the other properties describe.
`exposed` says which this store has met: `"delete_dropped"` (a DEL queued beside
a rewrite was thrown away), `"tail_woken"` (an append behind records no COMMIT
covers, or behind a torn one) and `"closed_sync"` (a FlushSync answered on a
closed store). `CrashAtomic`, `NextFlushCompletes`, `ClosedKeepsWrites` and
`DurableSeqIsTrue` are stated for stores that have met none since they were
opened. `RecordsReadable` needs no such condition; `DeletedStaysDeleted` and its
like state what fails without it. Open starts anew: whatever it reads is then the
store's content, and `exposed` is empty, unless a power failure may still bring back
a file with a torn record that a rewrite has replaced (`OpenedImages`).

*Abstractions.* A document is a model value and always resident (`PageCache`
has the rest); collection definitions, index rows, hooks and sessions are
left out. Deletion of the file by someone else (`appendV2` then rewrites) and
the remove-then-rename fallback of `atomicReplace` are left out. Open of a file
with a torn record in the middle either fails its checksum, and then nothing
changes, or reads it as torn, which is `OpenV2`. Records with the suspect flag
and META/IDX that disagree, which lead to the eager load, do not occur here.

### CrashSafeStore and StoreRefinement

A memory that changes one document at a time; the views that were taken of it,
each with its `seq`; the contents a crash may leave (`pool`); and what FlushSync
has answered for (`ack`). The pool may change from whole view to whole view, none
older than `ack` in the part that a crash leaves which undoes no rename (`near`), and
none older than `sure` in the rest; a crash makes it no larger, and lowers `ack` to
`sure` only if it undoes a rename; Open takes one of it. The mapping gives `pool` as
`{Replay(img.log) : img \in Images}` and `near` as the same of `PathImages`, computed
from the file, its synced prefix and what a rename may undo, so that every write, fsync
and rename of `StoreFlush` must be a step of the promise. After a known loss (`exposed`)
nothing is promised until the next Open. A CloseMark, a FlushBegin and the
bookkeeping of a flush are steps of the promise or stutter.

### PageCache

| Model | Code |
|---|---|
| `pool.docP`, `.size`, `.refBit`, `recOff`, `dirty`, `mutGen` | the fields of `docEntry` (`recOff` 0 stands for -1) |
| `pool.cached`, `pool.bytes` | `s.cache`, `s.residentBytes`, under `cacheMu` |
| `orphans` | the size of entries that are deleted and still in `s.cache` |
| `file` | the slots of the file: a document, or a record that is none |
| `rd` | goroutines inside `getDoc` and the workers of Find, between the accesses of `loadEntry` to what they share |
| `flusher` | `prepareFlush` from taking `s.mu` to its end (`"load"`), then as in `StoreFlush` |
| `want` | history: the documents as they were stored |

Readers hold `s.mu` together, so the unit of a reader is one access to an atomic
of the entry, one read of the file, or one critical section of `cacheMu`:
`ReadStart`, `ReadRecord`, `ReadCheck`, `ReadStore`, `ReadAdmit`. A mutation
holds `s.mu` alone and is one action, with the loading of the document it
replaces and what that evicts. `prepareFlush` loads its documents one by one
(`FlushLoad`), each load may evict another. `Sweep` leaves the order in which Go
walks the map open. A document remembers its `_id`, since `decodeDocRecord` does
not ask whose record it has read.

`exposed` names what the code does that the properties do not speak of:
`"stale_read"` (a cold read in the window of a rewrite), `"orphan"`,
`"admitted_cold"` (section 5), and `"unregistered"`: loading the document an
Update is about may evict it at once, and Update then stores the new one in an
entry that is in no registry.

*Abstractions.* Records are of one size, so a slot is a record, and a budget is a
number of records: in this way a record of one document can lie at the offset
another had, which in the code takes records of equal length. A flush leaves one
slot behind its documents for META, IDX and COMMIT. DELs and the loss of a file
belong to `StoreFlush`. A reader that sets a `refBit` while another sweeps is
taken to do so before or after.

### Filters, Indexes, QueryPlan

Operators only. A document is a function from fields to typed values: scalars,
arrays of numbers, a path that crosses an array of objects (`Many`), a missing
field. `Match` and what it is made of are the functions of `filter.go`;
`CompareValues` (store) and `CompareOrdered` (index) are two orders, as in the
code. An index is `[fields, unique, rows, ord, sorted, matrix]`: its rows, the
ordered keys with their lazy sort, and the flat view that serializing leaves and
range searches use. `AddDoc`, `RemoveDoc`, `ApplyIndexes` with its rollback,
`SeekPrefix`, `SeekRange`, `LoadRows` follow `index.go`; an index key is a
sequence of values ordered as their encodings are (`KeyLess`). What Go does in a
loop over keys (`AddKeys`, `RemoveKeys`, `StableSort`) is a recursive function of the
position, so that proofs can go from one position to the next. `Coherent` says when
`ord` and the flat view fit the rows; the flat view is there only while the keys are
sorted.

`Plans` is `planCandidates`: compound prefixes, then an index per equality, then
ranges, and whether the result counts as exact. Go walks the map of a filter's
fields in any order, so it gives a set. `FindBy` and `Scan` are the two ways of
`findDocs`, `Page` its skip and limit, `SortByPartial` the bounded heap.

`SortBy` is the full sort with its fault: `sortBy` puts the keys of a pass down by place
and then lets `sort.SliceStable` move the documents without them (`store.go:1569-1579`),
so that 3, 1, 2 comes back as 1, 3, 2. `SortPass` is the insertion sort that SliceStable
is on fewer than 20 documents; the model has no more. `InKeyOrder` is what the sort is
meant to be, and is used by properties only.

*Abstractions.* Regular expressions, projections, filters that end in an error,
equality of whole arrays and objects are left out. Strings are numbers of
another type. The workers of `materializeRefs` are not told apart: they write to
places of their own.

### Documents

| Model | Code |
|---|---|
| `exists`, `docs`, `ixs` | the collection in `s.collections`, its entries and indexes |
| `dirty`, `dels`, `rewrite` | `docEntry.dirty`, `s.pendingDels`, `~sawFile` or `v1Migration` |
| `log` | per flush since the last rewrite: DELs, DOCs, the suspect flag, META, IDX |
| `drop` | a DropCollection under way, which gives `s.mu` back between documents |
| `saved` | history: the collection at the last flush |

`Insert`, `Change`, `Delete`, `EnsureIndex`, `DropIndex`, `CreateCollection` are
the `...Apply` functions, refusals by a unique index included; `SearchIndex` is a
reader that sorts an index. Where the code puts documents into a new index one by
one (`ensureIndex`, the eager load, Repair), `Building` is the index after each of
them and `Refused` are those that conflicted. `Open` is `openV2`: the normal load, or the eager one
when a record is suspect or IDX and META disagree (`NeedEager`), which may fail.
`Repair` rebuilds a file nobody has open.

`exposed`: `"eager_versions"` (the eager load indexed several versions of a
document, `filev2.go:976`), `"repair_rows"` (Repair dropped a document in
conflict which stays in the indexes built before), `"dropped_late"` (a document
was put into a collection while it was being dropped), `"undropped"` (the eager
load brings a dropped collection back). The first three are excused where a
property says so; of these only `"dropped_late"` excuses `UniqueMeansOneOwner` and
`OpenGivesWhatWasSaved`.

### Rbac

| Model | Code |
|---|---|
| `users`, `roles`, `exists`, `cold`, `dirty` | the entries of `_users` and `_roles`, which of the two are in `s.collections`, residency |
| `dels`, `unsaved`, `file`, `flush` | `s.pendingDels`, `s.dirty`, the content of the file, the flush between `prepareFlush` and `applyFlushed` |
| `login` | where each client's Authenticate stands: verified, resolved |
| `sess` | `s.sessions` |
| `call` | a write between `checkWriteLocked` and its turn after backpressure |

`Verify` reads the document and checks the password, `Resolve` reads the roles,
`Register` writes `s.sessions`: three critical sections, with anything between
them. `Merged` is what a flush makes of the file: its DELs, then its documents.
`flush.reset` keeps what ResetAuth removed while the flush ran, since its DELs go
with those of the flush. `Evict` makes a clean user cold. `Reopen` is a crash and Open. A password is
a number no other password has, so that a session remembers which one opened it.

`exposed`: `"late"` (a session registered after its password was changed or its
user deleted, `auth.go:742`), `"outlived"` (DeleteUser leaves the sessions),
`"cold"` (DeleteRole takes a cold user for one without roles), `"back"` (what was
removed without a DEL returned at Open), `"mixed"` (Authenticate resolved the
user's old role names to newer roles), `"waited"` (a write was checked before its
wait only).

*Abstractions.* Field and row restrictions, disabled users, and hashing are left
out. Two users, one role: a second role adds no kind of step.

### Hooks

| Model | Code |
|---|---|
| `stack` | the mutations a goroutine is in, outermost first; a frame has the chain of hooks it is nested in (`HookContext`) |
| `hooks`, `trigs`, `trigOp` | `s.hooks`, `_triggers`, the holder of `trigMu` between its write and its registration |
| `hookQ`, `workers`, `job` | the channel and stop channel of each worker there has been, and what it runs |
| `waiting`, `close` | WaitAsyncHooks at its barrier, Close at `stopHookWorker` |

A mutation goes through `Begin` (match, preview), `RunBefore` for each hook
before, `Apply` (under `s.mu`), `Fire`, then `RunAfter` inline or
`EnsureHookWorker`, `TakeQueue`, `Send` for a hook that is queued. A hook may
call a mutation, whose frame is pushed. `SendStopped` and `EndWorker` are the
other cases of the `select` statements.

*Abstractions.* One document per collection, one field; `None` is no document,
`Null` one without the field. A trigger's condition is a set of values; its actions
are set, veto, and a mutation elsewhere (`Reg` has what a registration may be);
templates are left out. `Disabled` are the triggers with `Enabled` false: they are
stored and not hooked in. A store starts with no trigger saved, so what Open and
`ensureTriggersLoadedLocked` hook in from the file is nothing here. `Patch` compares
scalars: the panic of `equalJSON` on arrays and objects (`store.go:1530`), which an
Update meets when it has a hook before it, is left out.

### UpdateExpr, Aggregate, Wire

`UpdateExpr` has every update operator but `$currentDate` and `$bit`, dotted
paths, upserts, replacements, and `DiffTopLevel`, which makes of two documents
the patch for `Store.Update`. Strings count as equal to each other in the order of
`$min`, `$max` and `$sort` (`update.go:569-573` orders them). `Orders` are the orders in which Go may walk the
expression. `Aggregate` has `$sort`, `$skip`, `$limit`, `$group`, `$unwind` and
distinct.

| Model | Code |
|---|---|
| `serve`, `ln`, `closing`, `tracked` | Serve, its listener, `s.closed` and Close, the wait group |
| `conn` | `connCtx`: life of its goroutine, socket, SCRAM state, `authed`, `session`; `proved` is history |
| `run` | the command a connection's goroutine runs, and its statement and position |
| `cursors`, `next` | the registry |
| `coll`, `rbac` | the store: documents by `_id`; whether it knows `AuthUser` |
| `replies`, `streams`, `inserted` | history |

A command is its calls of the store, one step each, with the other connection in
between: update finds, then writes document by document what it has worked out
from what it found. `Swept` is the sweep that every command starts with. Paths are
walked and batches cut (`Kept`, `CutAt`) by functions over positions, and not by
`RECURSIVE` operators, so that `WireProofs` can reason about them.

*Abstractions.* Filters are equalities and the conditions of `$pull`; no
projections, array filters, nor index and administrative commands. A message
holds `MaxBatchBytes` documents. Proofs of SCRAM are right or wrong. `$match` in
a pipeline, `$lookup`, `$project` and `$count` are left out.

## 3. What TLC checks

| Run | Instance | Properties | Shows |
|---|---|---|---|
| `flush_rewrite` | 2 keys, 2 documents, 2 mutations, Compact, power failure, new or v1 file | `TypeOK`, `NextFlushCompletes`, `RecordsReadable` | rewrites and appends beside mutations forget none of them |
| `flush_faults` | 2 keys, 1 document, 2 mutations, 2 generations, short writes, FlushSync, a directory that refuses, power failure | `KeepsItsPromise` | the pipeline, its disk and its recovery implement `CrashSafeStore` |
| `sync_close` | 1 key, 2 documents, FlushSync, a directory that refuses, Close, kill, power failure | `CrashAtomic`, `DurableSeqIsTrue`, `ClosedKeepsWrites` | what FlushSync answered for survives, but for the undoing of a rename whose directory refused; a Close that returns nil has kept what preceded it |
| `flush_liveness` | 1 key, 2 documents, backpressure at 1, failed writes | `EventuallyDurable`, `CallsReturn` | mutations reach the file, calls return |
| `record_scan` | 2 keys, files of up to 8 records, 3 batches | `ScanMatchesReplay`, `ShortWritesAreParts` | the scan of the code is `Replay`, the writes it cuts short are `Parts` |
| `page_cache` | 2 keys, 2 values, 2 readers, budget 1, 2 mutations, 1 flush, Compact, failures | `NothingIsLost`, `AnswersAreRight`, `ResidentsAreCounted`, `RoomIsMade` | nothing is evicted that the file does not hold; readers that evict each other's documents get the right ones, within the budget |
| `documents` | 2 documents, a plain and a unique compound index, 4 mutations, 3 flushes, 1 Open or Repair | `IndexesHoldTheDocuments`, `UniqueMeansOneOwner`, `OpenGivesWhatWasSaved` | refusals roll back, and whatever the file is made of Open gives what was saved |
| `queries` | 3 documents, one with an array in the second field, the same indexes, 4 mutations, 10 filters | `FindIsScan`, `CountIsFind`, `PagesTile` | the planner's answers are those of a scan |
| `rbac` | 2 users, 1 role, 2 clients, four budgets | `SessionsMatchPasswords`, `RolesOfUsersExist`, `GrantsWereGiven`, `WritesAreCurrent`, `OpenGivesWhatWasSaved` | no session, role or right outlives what gave it, but for the known exceptions |
| `hooks` | 2 callers, a queue of 1, depth 3, two triggers, one of them disabled, five starts | `WaitMeansDone`, `TriggersAreHooked`, `UpdateTakesEffect`, `JobsRun`, `CloseEnds`, `WaitReturns` | jobs run, the barrier means what it says, Close ends |
| `wire` | 2 connections, six starts | `ClosedIsQuiet`, `OnlyTheProvedAct`, `BatchesTile`, `RepliesAreTrue`, `TakenOnce`, `OthersFieldsStay`, `OrderIsNoMatter`, `StagesAgree` | connections that work on the same documents and cursors, log in and are closed down |
| `delete_resurrects` | 1 key | `DeletedStaysDeleted` (violated) | section 5 |

Where a module has a `TypeOK` that is not a property of its own, the first
invariant of its run has it as a conjunct.

*Properties.* `CrashAtomic`: every image a crash may leave opens as one snapshot a
flush took, no older than any FlushSync has answered for - of `sureSeq` only, where it
undoes a rename. `NextFlushCompletes`:
with no flush in flight, the file after the next flush is the memory, and a store
that is not dirty needs none. `RecordsReadable`: a clean entry's offset is that of
a record with its document, except between the rename of a rewrite and its
bookkeeping. `DurableSeqIsTrue`: the counter backpressure relies on never counts a
mutation the file lacks. `ClosedKeepsWrites`: what had returned when a successful
Close was called is on file. `NothingIsLost`: an entry has its document in memory,
or is clean and its offset is that of its record. `AnswersAreRight`: a reader that
is through has the document. `ResidentsAreCounted`: between loads `s.cache` is the
set of resident entries and `residentBytes` the sum of their sizes. `RoomIsMade`: a
load that leaves the cache over the budget leaves nothing in it that could be
evicted. The others are stated where they are defined.

*Preconditions of the query properties.* An index and a scan do not read every
filter alike: an array is indexed by its elements; nil in a list of `$in` finds the
documents without the field through an index and none in a scan; a range through a compound index finds a document once for
each element of an array behind the first field. `ReadAlike` says which
filters they do read alike, `AsksOnce` that no value is asked for twice (Count
would add it twice), `SortsStrictly` that a sort has no ties (the heap and the
full sort break them differently). The run meets filters and documents on both
sides of each. `PagesTile` asks for the true order where the code can give it: of the
pages that end before the last document, which the heap keeps, and of all pages of a
sort whose order an index gives. The other pages come from the full sort, and
`SortedIsInOrder` (section 5) is what is false of them. `PageIsFind`, in `StagesAgree`,
compares aggregate's pages with Find's under the same condition.

*Bounds.* In `StoreFlush` every store gets 2 mutations, 2 generations where
Compact may raise them too, 1 crash or reopening, 2 batches before a write may
stop short: each hazard needs a mutation before a snapshot, one after it, the
flush, a second flush or a crash. Two documents tell an older version from a newer
one (in `flush_faults`, which has one, its deletion does that); two keys let a batch hold one and lack the other. `Scene` picks the calls and
faults of an instance; together the runs take every action. In `PageCache` a budget
of one record makes every load of another evict, and two readers are what the races
on an entry need; `MaxBytes` only stops the count that the known faults let grow.
In `Documents` four mutations are an index, two documents that conflict, and a
deletion or change that resolves it; three flushes leave two versions and a DEL
between them; the queries need three documents to have a middle page. In `Rbac` a
long history of one kind and a shorter one of each other kind, as budgets, take the
place of one budget that TLC could not finish. In `Hooks` a chain of two jobs over a queue of one blocks the worker,
and depth 3 cuts the cycle off. In `Wire` each start is one hazard with the commands
that meet in it.

*Symmetry.* Keys and documents of `StoreFlush`, values and readers of `PageCache`,
users and clients of `Rbac` are interchangeable; their permutations are used except
where liveness is checked. Keys of `PageCache` and `Documents` have an order and
are not permuted.

*Fairness.* The ticker keeps calling Flush until Close stops it (weak fairness of
its flush). Mutexes of Go are not withheld from a waiter for ever, so FlushSync and
Close get `flushMu` although the ticker keeps taking it (strong fairness). A disk
may fail again and again but not always (strong fairness of the write). The
bookkeeping, the fsync and the last step of Close wait for nothing. In `Hooks` Go
runs every goroutine that can go on: weak fairness of each thread inside a
mutation, of each caller in WaitAsyncHooks, of each worker, of the rest of Close and
of the holder of `trigMu`. Nobody is made to mutate, and no fault is made to happen.

## 4. What is proved

Every theorem is proved for all values of the constants that satisfy the module's
assumptions, which say no more than what the constants are: that a value for "no
document" is no document (`NoValAssumption`), that bounds are numbers and scenes
are scenes (`BoundsAssumption` twice, `RbacAssumption`, `DocumentsAssumption`), what
calls, triggers and starts look like (`HooksAssumption`, `WireAssumption`), that
documents have values in their fields and an index has a field
(`ContentsAssumption`; `ensureIndex` refuses an index without, `store.go:128`), that a
filter has conditions on finitely many fields and asks for scalars
(`FiltersAssumption`), that a file is about some keys and finitely many
(`ScanAssumption`). So they hold for any number
of keys, documents, users, readers, callers and connections, where the runs have
two or three of each. The invariants below were checked by TLC on the run of their
module first.

**StoreFlush** (`StoreFlushProofs`):

- `TypeCorrect == Spec => []TypeOK`, which includes that no snapshot and no
  entry is ahead of the store's counters. It is inductive; the lemmas say that
  cutting, healing and appending make logs of logs, and that what is replayed
  from a log is a content.
- `RecordsAlwaysReadable == Spec => []RecordsReadable`. This is not inductive.
  When `applyFlushed` installs offsets it must know that what the flush wrote is
  what a clean entry holds although mutations ran since. `IInv` adds
  `StagedIsCurrent` (an entry whose `mutGen` is not past the snapshot's is in
  the snapshot as it is, or was clean when an append took it; every clean entry
  is such an entry), `AppendsToFile` (an append has a file under it) and
  `WrittenInPlace` (after the write the batch is where `st.at` says). At
  `ApplyFlushed` a clean entry was either written, and then its new offset is
  that of the batch, which holds it, or not, and then the flush was an append
  and the old offset is still right.
- `NoMutationForgotten == Spec => []NextFlushCompletes`. `NextFlushCompletes`
  speaks of moments with no flush in flight; `CInv` says what holds in between.
  `CleanOnFile`: a key that is not marked and has no DEL queued is on file as in
  memory. `AppliedOnFile`: once the bytes are written, the same of the marks and
  the queue as `applyFlushed` will leave them. To come from the first to the
  second, the write must do what its batch says for every key whose mark or DEL
  will be cleared: `DelsInOrder` (a key stored again after its DEL is marked,
  with a later generation), `StagedDels` (an append has the DELs that were
  queued), `LateDeletes` (what is in the batch and was deleted since has a later
  DEL) and `IInv`'s `StagedIsCurrent`. `CleanStore` is what lets a store that is
  not dirty go without a flush. The lemmas `RewriteReplay`, `AppendReplay` and
  `PartReplay` say what a log replays to after a rewrite, after an append that
  wakes no tail, and after a write that stopped short.
- `CrashesAreAtomic`, `DurableSeqAlwaysTrue`, `CloseKeepsWrites`: `CrashAtomic`,
  `DurableSeqIsTrue` and `ClosedKeepsWrites` always hold, each with the exceptions it
  states: known losses, and for `CrashAtomic` the undone rename. None is inductive, since
  FlushSync, Close and the bookkeeping of a flush all answer for a count of
  mutations read earlier, perhaps on the strength of somebody else's flush. `DInv`
  collects these counts (`Owed`) and says that the file has what is owed
  (`OwedOnFile`), that a flush in flight is no older than who waits for it
  (`StagedAhead`), and that its batch makes of the file what its snapshot saw
  (`StagedIsSnapshot` before the write, `WrittenIsSnapshot` after). `CutsMember` and
  its companions say what a disk may hold of a log that was cut, appended to or
  rewritten.

**The refinement** (`StoreFlushProofs`): `StoreKeepsItsPromise == Spec =>
KeepsItsPromise`, that is, `StoreFlush` implements `CrashSafeStore`. Each action is
shown to be a step of the promise or a stutter under the mapping of
`StoreRefinement`. The steps of a flush need `CrashAtomic` after them; opening needs
that the image it takes holds what the file says, and for this `RInv` adds to `DInv`
that a path that names no file names no documents (`NoFileIsEmpty`), that a torn
record has nothing behind it (`TornIsLast`), and that who saw a v2 file still has
one (`SawV2`).

**PageCache** (`PageCacheProofs`): `EvictionLosesNothing` (`NothingIsLost`),
`ReadersAgree` (`AnswersAreRight`), `CountIsExact` (`ResidentsAreCounted`) and
`LoadsMakeRoom` (`RoomIsMade`). Whatever a load may evict, all that matters of it is
in `EvictedFrom` and `Admitted`, which relate the pool before and after. `PInv` says
where each reader stands (`Readers`: what it reads is clean, and its offset is the
entry's), what a flush has taken (`Flushing`, `Batch`), that a document is in memory
or where its entry says (`Memory`), that readers have the right one (`Answers`), and
who is resident and not yet registered (`Counted`, `Room`).

**Rbac** (`RbacProofs`): `SessionsAreCurrent`, `RolesAreNeverLost`,
`NoGrantFromNowhere`, and the action properties `OnlyCurrentWrites` and
`OpenGivesSaved`. A role may come back at Open, so the invariants about roles and
grants must hold of every place Open can take them from: memory, the snapshot of the
flush in flight, and the file. `FileInv` relates the three document by document:
what is clean is on file (`CleanIsOnFile`), stays there through the flush
(`CleanIsKept`, `CleanIsSnapshot`), and what else the file has a DEL will take, or
it is among what the code never deletes (`RestIsDeleted`, `RestIsTaken`).

**Hooks** (`HooksProofs`): `WaitIsDone` (`WaitMeansDone`), `TriggersStayHooked`
(`TriggersAreHooked`), `UpdatesTakeEffect` (`UpdateTakesEffect`). `HInv` says that
before Close there is one queue with one worker (`OneQueue`), that every job sent has
run, is being run or is in the queue (`NoneLost`), and that the jobs a caller waits for lie ahead of
its barrier (`Barriers`): a queue is first in, first out, and this is where that is
used. `Ids` and `Hooking` say how the hooks go with `_triggers` between the write and
the registration of one.

**Wire** (`WireProofs`): `CloseIsQuiet` (`ClosedIsQuiet`), `OnlyProvedActs`
(`OnlyTheProvedAct`), `BatchesAlwaysTile` (`BatchesTile`), `RepliesAlwaysTrue`
(`RepliesAreTrue`), `NeverTakenTwice` (`TakenOnce`), `OthersStay`
(`OthersFieldsStay`). `WInv` has for each what must
hold in between. `Net`: who is served is listed, so that Close shuts it, and nobody
is served uncounted. `Books`: each command runs on one connection, has not been
answered, and has counted what it did in the statements behind it, with `n` and the
errors of an insert adding up to their number. `Store`: a document is there, or has
been taken, no more often than it was inserted; a remove that comes too late fails,
and findAndModify then returns an error. `Tiles`: what a find has sent and what its
cursor holds make up what was found, whichever batch sizes the next getMore asks
for, and a number is never given to two cursors. `Todos`: what a command has at hand
is something the store takes. Where the model walks a sequence position by position
(`Found`, `Kept`), the proofs take the first position at which a claim would
fail; no induction theorem is needed. `OthersStay` is about a step and needs no
invariant: each operator makes of a document an error or one that differs only in the
first field of its path, and of the new path of a `$rename` (`OpLeaves`). The walks
of `setPath` and `removePath` are functions over positions, so that they exist is
shown position by position, going down and coming back (`SetWay`, `DropWay`,
`WayBack`). Then the operators may be walked in any order (`ExprLeaves`), and the
patch changes only what became another in the document it was worked out on
(`PatchChanges`), which need not be the one it is written to. `WireAssumption` says
of an update expression that it has finitely many of the known operators, each with a
path of at least one part, as `strings.Split` makes them.

**Indexes** (`DocumentsProofs`, its first part). `OrdOrder`: the order of the keys (`OrdLess`) is a strict
total order on the keys an index can have. `AddDocKeeps` and `RemoveDocKeeps`: adding
or removing a document changes its rows and no others and leaves the index coherent,
whether its keys were sorted, and whichever of them were there. `LoadedPayload`: an
index read from what `Payload` wrote has its rows, sorted, and is coherent. Sorting,
serializing and searching change none of this.

**Documents** (`DocumentsProofs`): `IndexesAreExact` (`IndexesHoldTheDocuments`),
`UniqueIsUnique` (`UniqueMeansOneOwner`) and `OpenIsFaithful`
(`OpenGivesWhatWasSaved`), for any number of documents, fields and indexes. They
follow from `DocumentsInvariant == Spec => []DocInv`, which has four parts besides
the types (`FineIxs`: every index is coherent and its keys are keys):

- `Holds`: the rows of an index cover those of the documents; if it is unique no two
  documents share a key; while the store is `Clean` there are no other rows. The
  first two are kept apart from the third since the known faults leave too much in an
  index, and a unique one must still have one owner for each key.
- `FileSays`: the file gives what was saved - the newest of its live versions, the
  index definitions of its META, and IDX payloads that hold, when loaded, the rows of
  those documents. Open can take rows from it, so what must be true of the indexes in
  memory must be true of these.
- `Pending`: a document that is in memory otherwise than on file is dirty or has a
  DEL queued. From this `AppendedSays` concludes what the file gives after one more
  batch: what the batch wrote, or nothing where it deleted, or what was there.
- `Batches`: what a batch on file consists of.

`AppliedInsert` and `AppliedChange` are the argument for `applyIndexes`: a refused
mutation leaves every index with the rows it had, also those changed before the one
that refused. `LoadedAllHolds` is the eager load and `RebuiltParts` is Repair: index
after index, a document in conflict goes out of the collection and may stay in the
indexes built before it, never beside another owner of a unique key.
Working out the invariant showed that `UniqueMeansOneOwner` did not hold without its
exception for `"dropped_late"`: it takes a drop, a flush and a crash more than
the bounds of `documents` allow. Recursive functions are unfolded at a position, and
claims about all positions take the least one that would fail (`AllTheWay`,
`LeastExists`).

**Queries** (`QueryProofs`): `FindAgrees` (`FindIsScan`) and `CountAgrees`
(`CountIsFind`), for any documents, indexes, filters and orders in which Go may walk
a filter. They are state facts about exact indexes, which `IndexesAreExact` supplies.
The searches of an index are first said in terms of the documents: what lies between
the ends that `SeekPrefix` and `SeekRange` find in the sorted keys are the rows with
that prefix (`PrefixFound`) or in that range (`RangeFound`). Then, for each way of
planning, the candidates contain every document that matches, and no other where the
plan counts as exact (`CandidatesAre`); and no document that matches is among them
twice (`OnceIn`), which needs `ReadAlike`: a document must have one key where the
search looks. So filtering and sorting the candidates by `_id` gives one list
(`SameById`), the one a scan gives. Where Count adds the lengths of posting lists, the
lists of distinct values have no document in common, and the sum is the number of
their documents (`TotalCounts`). Twice an attempt ended in a counterexample instead,
and `ReadAlike` now names its cause: an array behind the first field of a compound index that
serves a range, and nil in the list of an `$in`.

**RecordScan** (`RecordScanProofs`): `ScanIsReplay` (`ScanMatchesReplay`) and
`ShortWritesLeaveParts` (`ShortWritesAreParts`), for any number of keys and batches and
files of any length. `ScanInvariant` says that the file has the records of the batches
of its log and no others (`Says`), batch after batch, in each the DELs, then the DOCs,
then its end (`InOrder`); META is left out, since nothing is read from it here and one
that was written alone is of no batch of the log. The loops of the scan are unfolded
position by position into what they have found so far (`LiveKeys`, `EntriesOf`), by the
least position that would fail. Then: cutting the file before its torn record is
`HealedLogs` (`ParsedSays`), a record lies before the last COMMIT just when its batch
counts (`CommittedRecords`), and the newest DOC of a key is the one of the newest batch
that counts and stores it, later than every DEL (`ScanReads`), which rests on the order
within a batch. That a cut write with a DOC in it has all its DELs rests on the same
order.

*Only checked by TLC.* Liveness (`EventuallyDurable`, `CallsReturn`, `JobsRun`,
`CloseEnds`, `WaitReturns`): fairness and ENABLED are beyond the prover.
`PagesTile` compares folds: the bounded heap and the walk of an index with the order of
the key. `OrderIsNoMatter` and `StagesAgree` compare what two orders of
the operators of an expression, or two orders of the stages of a pipeline, come to.

## 5. Where the code and its documents differ

`delete_resurrects` is a run of its own: a document deleted while a rewrite that
holds it is in flight. Its DEL is queued (`store.go:706`) and then thrown away with
the whole queue when the rewrite ends (`file.go:594`). The store is clean and the
file still has the document.

These have a configuration of their own, which TLC ends with a counterexample:

| Configuration, module | What TLC finds |
|---|---|
| `tail_kept`, `MCStoreFlush` | Open truncates only at an incomplete record (`filev2.go:878`). Complete records that a power failure kept without their COMMIT stay, and the COMMIT of the next append makes them count. |
| `torn_middle`, `MCStoreFlush` | An append that fails part of the way leaves its bytes (`filev2.go:864`); the next one writes behind them, and opening the file then loses those commits or refuses the file. |
| `sync_after_close`, `MCStoreFlush` | A mutation on a store being closed succeeds, and a FlushSync after it returns nil without flushing (`filev2.go:553`, `file.go:650`). |
| `cache_window`, `MCPageCache` | A Get of a cold document between the rename of a rewrite and `applyFlushed` reads the old offset in the new file; where a record of the same length lies there, it returns that other document (`cache.go:58`, `filev2.go:476`), which stays resident. |
| `cache_budget`, `MCPageCache` | Of two readers that load the same cold document the second may register it after it was evicted (`cache.go:74`); evicting it then gives its bytes back to nobody (`cache.go:203`). A document deleted before it was saved has the same effect (`cache.go:200`). |
| `counted_twice`, `MCDocuments` | A comment says that Count returns the number of documents that match (`store.go:1333`). A range on `f` served by an index on `f` and `g` gives an `_id` for each of its keys in the range (`index.go:495-509`, `store.go:1080`): where `g` holds an array of two numbers Count says 2 for one document, and Find returns it twice. |
| `sorted_wrong`, `MCDocuments` | A comment says that `sortByPartial` orders the documents (`store.go:892`). Its full sort compares keys by place, which stay behind when `SliceStable` moves the documents (`store.go:1569-1579`): for example 2, missing, 1 comes back as missing, 2, 1. Pages of one document from the heap and then from the full sort show missing, 1, 1. |
| `obsolete_records`, `MCDocuments` | A comment says that obsolete DOC and IDX records of earlier commits are ignored at Open (`store.go:1474-1475`). An IDX record of a dropped index sends Open to the eager load, which indexes every version of a document, or fails with a conflict between an old version and another document (`filev2.go:976`). |

And these are written into the models as known exceptions:

- `auth.go:562` says DeleteUser revokes the user's sessions; it leaves them
  (`"outlived"`). DeleteUser and DeleteRole queue no DEL, so that the record is back
  at Open if it was on file (`"back"`). The DELs of ResetAuth have generation 0: a
  flush in flight that wrote any DEL throws them away, and the credentials return,
  although `auth.go:510-513` says they do not.
- DropCollection gives `s.mu` back between documents (`store.go:1481-1519`). One that is
  put in meanwhile goes without a DEL, and the next Open brings it back, perhaps beside
  one that has its key in a unique index by then (`"dropped_late"`).
- A FlushSync whose directory refuses to be synced returns nil; a power failure may then
  undo the rename it has answered for (`file.go:630-635`; `file.go:614-616` calls it best
  effort, `doc/ARQUITECTURA.md:101` promises that nothing is lost).
- DeleteRole does not load cold users and removes a role that they have
  (`auth.go:640`).
- `hooks.go:39` says a deletion gives its hooks the old document; with no hook
  before it, a hook after it gets nil.
- An Update with a hook before it applies the difference to the document it
  previewed; a mutation in between makes the result a mixture
  (`store.go:520-587`).
- Of the wire server: Serve adds to the wait group after it gives `s.mu` back, so
  Close may not wait for that connection (`server.go:86-95`); a failed Authenticate
  after a right proof, or ResetAuth, leaves `ctx.session` stale; a `find` of the
  legacy form drops its `$query`; `{$eq: n}` of an upsert becomes a string; `$match`
  that is not first finds again in the collection; distinct merges objects and
  arrays of equal length; aggregate's sort puts missing values last in both
  directions. The last ones concern what is left out of `Wire`, or are how its
  operators behave.

Three small faults are only noted: loading the document an Update is about may evict
it at once, and Update stores the new one in an entry no registry has
(`store.go:631`); a rewrite that fails has used up `v1Migration` and `noEvict`, and
after an eager load clean entries without a record may be evicted (`filev2.go:620`);
where rename does not replace, the file is removed first (`file.go:359`).

## 6. The plan

Done: `RecordLog`, `StoreFlush`, `RecordScan`; `CrashSafeStore` and
the refinement; `PageCache` for a store opened from a v2 file; `Filters`, `Indexes`,
`QueryPlan`, `Documents` with recovery and Repair; `Rbac`; `Hooks`; `UpdateExpr`,
`Aggregate`, `Wire`; the theorems of section 4.

Left, in this order:

1. Theorems: `PagesTile`; of `Wire`, `OrderIsNoMatter` and `StagesAgree`.
2. `PageCache` with the eager load and the v1 migration.
3. `GraphSearch`: the adjacency snapshot and its staleness, `traverse`,
   `shortestPath` against a reference definition.
4. `Ownership`: the lock file, OpenWithLock, Snapshot, RotateKeys, MultiServer.

Not modelled, and why: cryptography, compression and the machine id (pure functions
of libraries; records count as readable with the store's key); BSON and message
encoding; export and CSV (formatting and I/O); the HTTP handlers of the console and
its browser code (calls of the store's API and presentation); the three programs of
`tools/`.
