----------------------------- MODULE StoreFlush -----------------------------
(***************************************************************************)
(* How a Store (db/store.go, db/file.go, db/filev2.go) gets its documents  *)
(* onto the disk and back: mutations under s.mu, the flush that runs       *)
(* beside them (snapshot under s.mu, write outside it, bookkeeping under   *)
(* s.mu again, all under flushMu), FlushSync, Compact, Close, the crash of *)
(* the process or of the machine, and Open.                                *)
(*                                                                         *)
(* Every document is resident here: paging documents in and out belongs to *)
(* the page cache. Indexes, collection definitions and records that Open   *)
(* calls suspect are not here either.                                      *)
(***************************************************************************)
EXTENDS RecordLog, FiniteSets

CONSTANTS
    MaxPendingWrites,   \* Options.MaxPendingWrites; 0 = no backpressure
    V1Docs,             \* the contents a file of the old format may hold
    MaxWrites,          \* bound: mutations on one opened store
    MaxGen,             \* bound: dirtyGen, which Compact raises too
    MaxLog,             \* bound: batches in the log when a write is cut short
    MaxRestarts,        \* bound: crashes, and openings after a Close
    Scene               \* bound: the calls and faults an instance looks at

ASSUME BoundsAssumption ==
    /\ MaxPendingWrites \in Nat
    /\ V1Docs \subseteq View
    /\ {MaxWrites, MaxGen, MaxLog, MaxRestarts} \subseteq Nat
    /\ Scene \subseteq {"compact", "sync", "close", "error", "short", "kill",
                         "power"}

VARIABLES
    \* The store in memory
    handle,        \* "none": not opened; "open"; "closed": s.closed
    mem,           \* the document of each key (collection.entries)
    mod,           \* docEntry.dirty
    mutGen,        \* docEntry.mutGen
    recOff,        \* docEntry.recOff: the batch of the entry's record, 0 = -1
    pendingDels,   \* s.pendingDels
    dirty,         \* s.dirty
    dirtyGen,      \* s.dirtyGen
    writeSeq,      \* s.writeSeq
    durableSeq,    \* s.durableSeq
    sawFile,       \* s.sawFile
    v1Migration,   \* s.v1Migration
    compactForce,  \* s.compactForce
    \* Who holds flushMu, and the callers waiting on a flush
    st,            \* the flushState in flight
    closer,        \* the call of Close, and writeSeq when it was made
    syncer,        \* the call of FlushSync, and writeSeq when it was made
    \* The disk
    file,          \* what the path names: its format and its log
    mark,          \* how many batches of file an fsync has covered
    prior,         \* what the path may still name after a power failure
    restarts,      \* crashes, and openings after a Close, so far
    \* History
    snapshots,     \* the views the flushes of this store took, with writeSeq
    ackSeq,        \* writeSeq some FlushSync that returned nil answers for
    sureSeq,       \* the same, of those that left no rename to be undone
    exposed        \* known losses this store has run into: see README

memVars == <<mem, mod, mutGen, recOff, pendingDels>>
flagVars == <<dirty, dirtyGen, writeSeq, durableSeq, sawFile, v1Migration,
              compactForce>>
callVars == <<closer, syncer>>
diskVars == <<file, mark, prior>>
ghostVars == <<snapshots, ackSeq, sureSeq, exposed>>
vars == <<handle, memVars, flagVars, st, callVars, diskVars, restarts,
          ghostVars>>

-----------------------------------------------------------------------------
(* Types *)

Callers == {"flush", "sync", "close"}

Exposures == {"delete_dropped", "tail_woken", "closed_sync"}

Image == [fmt: {"none", "v1", "v2"}, log: Log]

Snapshot == [seq: Nat, view: View]

NoBatch == [dels |-> {}, docs |-> EmptyView, end |-> "cut"]

Idle == [pc |-> "idle", who |-> "flush", full |-> FALSE, gen |-> 0, seq |-> 0,
         batch |-> NoBatch, at |-> 0]

NotClosing == [pc |-> "no", goal |-> 0]

NotSyncing == [pc |-> "idle", goal |-> 0]

MemoryOK ==
    /\ mem \in View
    /\ mod \in [Key -> BOOLEAN]
    /\ mutGen \in [Key -> Nat]
    /\ recOff \in [Key -> Nat]
    /\ pendingDels \subseteq [key: Key, gen: Nat]

FlagsOK ==
    /\ handle \in {"none", "open", "closed"}
    /\ dirty \in BOOLEAN
    /\ sawFile \in BOOLEAN
    /\ v1Migration \in BOOLEAN
    /\ compactForce \in BOOLEAN
    /\ dirtyGen \in Nat
    /\ writeSeq \in Nat
    /\ durableSeq \in Nat

CallsOK ==
    /\ st \in [pc: {"idle", "staged", "written"}, who: Callers, full: BOOLEAN,
               gen: Nat, seq: Nat, batch: Batch, at: Nat]
    /\ closer \in [pc: {"no", "flush", "mark", "failed"}, goal: Nat]
    /\ syncer \in [pc: {"idle", "flush", "fsync"}, goal: Nat]

DiskOK ==
    /\ file \in Image
    /\ mark \in 0..Len(file.log)
    /\ prior \subseteq Image

HistoryOK ==
    /\ restarts \in Nat
    /\ snapshots \subseteq Snapshot
    /\ ackSeq \in Nat
    /\ sureSeq \in 0..ackSeq
    /\ exposed \subseteq Exposures

\* No snapshot and no entry is ahead of the store's counters.
CountersOK ==
    /\ durableSeq <= writeSeq
    /\ st.seq <= writeSeq
    /\ st.gen <= dirtyGen
    /\ \A k \in Key : mutGen[k] <= dirtyGen

TypeOK == MemoryOK /\ FlagsOK /\ CallsOK /\ DiskOK /\ HistoryOK /\ CountersOK

-----------------------------------------------------------------------------
(* The disk *)

\* What a power failure that undoes no rename may leave at the path: the batches
\* of an append count once the file is synced.
PathImages == {[fmt |-> file.fmt, log |-> log] : log \in Cuts(file.log, mark)}

\* What the path may hold after the machine loses power: a rename counts once
\* the directory is synced.
Images == prior \union PathImages

-----------------------------------------------------------------------------
(* Mutations: one under s.mu each *)

FlushInProgress == st.pc # "idle"

\* waitBackpressureLocked: a mutation waits for the flush in flight while the
\* backlog is at the limit. (The second conjunct is the model's bound.)
MayMutate ==
    /\ handle # "none"
    /\ writeSeq < MaxWrites /\ dirtyGen < MaxGen
    /\ MaxPendingWrites > 0 =>
           ~(FlushInProgress /\ writeSeq - durableSeq >= MaxPendingWrites)

MarkDirty ==
    /\ dirty' = TRUE
    /\ dirtyGen' = dirtyGen + 1
    /\ writeSeq' = writeSeq + 1
    /\ UNCHANGED <<durableSeq, sawFile, v1Migration, compactForce>>

\* The entry of k takes document v and is marked for the next flush; a new
\* entry has no record yet.
Store(k, v) ==
    /\ mem' = [mem EXCEPT ![k] = v]
    /\ mod' = [mod EXCEPT ![k] = TRUE]
    /\ mutGen' = [mutGen EXCEPT ![k] = dirtyGen + 1]
    /\ MarkDirty
    /\ UNCHANGED <<handle, recOff, pendingDels, st, callVars, diskVars,
                   restarts, ghostVars>>

\* ErrDuplicate when the key is there.
Insert(k, v) ==
    /\ MayMutate
    /\ mem[k] = NoVal
    /\ Store(k, v)

Upsert(k, v) ==
    /\ MayMutate
    /\ Store(k, v)

\* ErrNotFound when the key is not there.
Update(k, v) ==
    /\ MayMutate
    /\ mem[k] # NoVal
    /\ Store(k, v)

\* The DEL is queued when the file has a body or may be getting one.
QueuesDel == sawFile \/ FlushInProgress

Delete(k) ==
    /\ MayMutate
    /\ mem[k] # NoVal
    /\ mem' = [mem EXCEPT ![k] = NoVal]
    /\ mod' = [mod EXCEPT ![k] = FALSE]
    /\ mutGen' = [mutGen EXCEPT ![k] = 0]
    /\ recOff' = [recOff EXCEPT ![k] = 0]
    /\ MarkDirty
    /\ pendingDels' =
           IF QueuesDel
           THEN pendingDels \union {[key |-> k, gen |-> dirtyGen + 1]}
           ELSE pendingDels
    /\ UNCHANGED <<handle, st, callVars, diskVars, restarts, ghostVars>>

\* Compact raises the flags; the Flush it then calls is FlushBegin below.
Compact ==
    /\ "compact" \in Scene
    /\ handle = "open"
    /\ ~compactForce
    /\ ~dirty => dirtyGen < MaxGen
    /\ compactForce' = TRUE
    /\ dirty' = TRUE
    /\ dirtyGen' = IF dirty THEN dirtyGen ELSE dirtyGen + 1
    /\ UNCHANGED <<handle, memVars, writeSeq, durableSeq, sawFile,
                   v1Migration, st, callVars, diskVars, restarts, ghostVars>>

-----------------------------------------------------------------------------
(* The flush *)

\* Mutant of Calls: FlushSync waits for a Close that has not succeeded.
CallsUnlessClosing(who) ==
    CASE who = "flush" -> TRUE
      [] who = "sync"  -> syncer.pc = "flush" /\ closer.pc = "no"
      [] who = "close" -> closer.pc = "flush"

\* Who may call Flush: anyone; FlushSync and Close when they have come to it.
Calls(who) ==
    CASE who = "flush" -> TRUE
      [] who = "sync"  -> syncer.pc = "flush"
      [] who = "close" -> closer.pc = "flush"

\* The flush returns to its caller: nil moves FlushSync on to its fsync and
\* Close on to marking the store closed; an error ends them.
Returns(who, ok) ==
    /\ syncer' = IF who = "sync"
                 THEN [syncer EXCEPT !.pc = IF ok THEN "fsync" ELSE "idle"]
                 ELSE syncer
    /\ closer' = IF who = "close"
                 THEN [closer EXCEPT !.pc = IF ok THEN "mark" ELSE "failed"]
                 ELSE closer

\* prepareFlush on a closed or a clean store: Flush returns nil at once.
FlushNothing(who) ==
    /\ handle # "none" /\ st.pc = "idle" /\ Calls(who)
    /\ handle = "closed" \/ (~dirty /\ ~compactForce)
    /\ Returns(who, TRUE)
    /\ UNCHANGED <<handle, memVars, flagVars, st, diskVars, restarts, ghostVars>>

NeedsRewrite == ~sawFile \/ v1Migration \/ compactForce

\* The records of the flush: every document when the file is rewritten, else
\* the queued DELs and the documents changed since they were last written.
StagedBatch ==
    [dels |-> IF NeedsRewrite THEN {} ELSE {d.key : d \in pendingDels},
     docs |-> [k \in Key |-> IF NeedsRewrite \/ mod[k] THEN mem[k] ELSE NoVal],
     end  |-> "commit"]

\* prepareFlush: the snapshot, under flushMu and s.mu. It uses up the request
\* for a rewrite whether or not the write will succeed.
FlushBegin(who) ==
    /\ handle = "open" /\ st.pc = "idle" /\ Calls(who)
    /\ dirty \/ compactForce
    /\ st' = [pc |-> "staged", who |-> who, full |-> NeedsRewrite,
              gen |-> dirtyGen, seq |-> writeSeq, batch |-> StagedBatch,
              at |-> 0]
    /\ compactForce' = FALSE
    /\ v1Migration' = (v1Migration /\ ~NeedsRewrite)
    /\ snapshots' = snapshots \union {[seq |-> writeSeq, view |-> mem]}
    /\ UNCHANGED <<handle, memVars, dirty, dirtyGen, writeSeq, durableSeq,
                   sawFile, callVars, diskVars, restarts, ackSeq, sureSeq,
                   exposed>>

\* writeFullV2: a new file, synced, renamed over the path. Until the directory
\* is synced the path may still name what it named before.
WriteFull ==
    /\ st.pc = "staged" /\ st.full
    /\ st' = [st EXCEPT !.pc = "written", !.at = 1]
    /\ prior' = Images
    /\ file' = [fmt |-> "v2", log |-> <<st.batch>>]
    /\ mark' = 1
    /\ UNCHANGED <<handle, memVars, flagVars, callVars, restarts, ghostVars>>

\* A log that is appended to when it does not end in a COMMIT, or after a
\* record that is not all there, is no longer what the store takes it for.
TailExposure(b) == IF WakesTail(file.log, b) THEN {"tail_woken"} ELSE {}

\* appendV2: one write at the end of the file, wherever that is.
WriteAppend ==
    /\ st.pc = "staged" /\ ~st.full
    /\ st' = [st EXCEPT !.pc = "written", !.at = Len(file.log) + 1]
    /\ file' = [file EXCEPT !.log = Append(@, st.batch)]
    /\ exposed' = exposed \union TailExposure(st.batch)
    /\ UNCHANGED <<handle, memVars, flagVars, callVars, mark, prior, restarts,
                   snapshots, ackSeq, sureSeq>>

\* writeState fails and has left nothing at the path: the error goes to the
\* caller, the documents stay marked for the next flush.
WriteFails ==
    /\ "error" \in Scene
    /\ st.pc = "staged"
    /\ st' = Idle
    /\ Returns(st.who, FALSE)
    /\ UNCHANGED <<handle, memVars, flagVars, diskVars, restarts, ghostVars>>

\* The write of an append stops part of the way (a full disk) and fails: what
\* it wrote stays at the end of the file.
WriteStopsShort(p) ==
    /\ "short" \in Scene
    /\ st.pc = "staged" /\ ~st.full
    /\ Len(file.log) < MaxLog
    /\ st' = Idle
    /\ Returns(st.who, FALSE)
    /\ file' = [file EXCEPT !.log = Append(@, p)]
    /\ exposed' = exposed \union
           (IF TornAt(file.log) # {} THEN {"tail_woken"} ELSE {})
    /\ UNCHANGED <<handle, memVars, flagVars, mark, prior, restarts,
                   snapshots, ackSeq, sureSeq>>

\* Keys deleted while a rewrite that holds their document was in flight, whose
\* DEL the rewrite throws away with the queue.
DroppedDeletes ==
    IF st.full
    THEN {d.key : d \in {d \in pendingDels :
                            /\ mem[d.key] = NoVal
                            /\ st.batch.docs[d.key] # NoVal}}
    ELSE {}

\* The entries whose document the flush wrote and that are there now.
Wrote(k) == st.batch.docs[k] # NoVal /\ mem[k] # NoVal

\* Mutant of StillMarked: every entry that was written is clean.
MarkedUnlessWritten(k) == mod[k] /\ ~Wrote(k)

\* markEntryClean: an entry mutated after the snapshot stays marked.
StillMarked(k) == mod[k] /\ ~(Wrote(k) /\ mutGen[k] <= st.gen)

\* Mutant of NewRecOff: a rewrite leaves the offsets of the old file.
RecOffOfAppends(k) == IF Wrote(k) /\ ~st.full THEN st.at ELSE recOff[k]

NewRecOff(k) == IF Wrote(k) THEN st.at ELSE recOff[k]

KeptDels ==
    IF st.full THEN {}
    ELSE IF st.batch.dels = {} THEN pendingDels
    ELSE {d \in pendingDels : d.gen > st.gen}

\* Mutants of DurableNow: the wrong counter, and the counter as it is now.
DurableGen == st.gen
DurableAll == writeSeq

DurableNow == IF st.seq > durableSeq THEN st.seq ELSE durableSeq

\* Mutant of StillDirty: a flush cleans the store whatever happened meanwhile.
NeverStillDirty == FALSE

StillDirty == dirty /\ dirtyGen # st.gen

\* applyFlushed: the snapshot is on file. What was mutated after it was taken
\* stays marked.
ApplyFlushed ==
    /\ st.pc = "written"
    /\ st' = Idle
    /\ mod' = [k \in Key |-> StillMarked(k)]
    /\ recOff' = [k \in Key |-> NewRecOff(k)]
    /\ pendingDels' = KeptDels
    /\ durableSeq' = DurableNow
    /\ dirty' = StillDirty
    /\ sawFile' = TRUE
    /\ Returns(st.who, TRUE)
    /\ exposed' = exposed \union
           (IF DroppedDeletes # {} THEN {"delete_dropped"} ELSE {})
    /\ UNCHANGED <<handle, mem, mutGen, dirtyGen, writeSeq, v1Migration,
                   compactForce, diskVars, restarts, snapshots, ackSeq,
                   sureSeq>>

-----------------------------------------------------------------------------
(* FlushSync and Close *)

SyncCall ==
    /\ "sync" \in Scene
    /\ handle # "none"
    /\ syncer.pc = "idle"
    /\ syncer' = [pc |-> "flush", goal |-> writeSeq]
    /\ UNCHANGED <<handle, memVars, flagVars, st, closer, diskVars, restarts,
                   ghostVars>>

Acknowledge ==
    /\ syncer' = NotSyncing
    /\ ackSeq' = IF syncer.goal > ackSeq THEN syncer.goal ELSE ackSeq

\* Mutant of SyncPath: the file is not synced.
SyncDirectoryOnly ==
    /\ mark' = mark
    /\ prior' \in {prior, {}}

\* syncPath, outside every lock: the file, and its directory as far as that can
\* be opened and synced - a refusal is not an error, and leaves what the rename
\* replaced to come back.
SyncPath ==
    /\ mark' = Len(file.log)
    /\ prior' \in {prior, {}}

SyncFile ==
    /\ syncer.pc = "fsync" /\ handle = "open"
    /\ SyncPath
    /\ Acknowledge
    /\ sureSeq' = IF prior' = {} THEN ackSeq' ELSE sureSeq
    /\ UNCHANGED <<handle, memVars, flagVars, st, closer, file, restarts,
                   snapshots, exposed>>

\* The file cannot be opened or synced: the error goes to the caller.
SyncFails ==
    /\ "error" \in Scene
    /\ syncer.pc = "fsync" /\ handle = "open"
    /\ syncer' = NotSyncing
    /\ UNCHANGED <<handle, memVars, flagVars, st, closer, diskVars, restarts,
                   ghostVars>>

\* On a closed store FlushSync returns nil and neither flushes nor syncs.
SyncClosed ==
    /\ syncer.pc = "fsync" /\ handle = "closed"
    /\ Acknowledge
    /\ exposed' = exposed \union {"closed_sync"}
    /\ UNCHANGED <<handle, memVars, flagVars, st, closer, diskVars, restarts,
                   snapshots, sureSeq>>

\* Close stops the ticker and calls Flush.
CloseCall ==
    /\ "close" \in Scene
    /\ handle = "open"
    /\ closer.pc \in {"no", "failed"}
    /\ closer' = [pc |-> "flush", goal |-> writeSeq]
    /\ UNCHANGED <<handle, memVars, flagVars, st, syncer, diskVars, restarts,
                   ghostVars>>

\* Only now is the store closed: s.mu was free since the flush took its
\* snapshot.
CloseMark ==
    /\ closer.pc = "mark" /\ handle = "open"
    /\ handle' = "closed"
    /\ closer' = [closer EXCEPT !.pc = "no"]
    /\ UNCHANGED <<memVars, flagVars, st, syncer, diskVars, restarts, ghostVars>>

-----------------------------------------------------------------------------
(* Crash and Open *)

ForgetMemory ==
    /\ handle' = "none"
    /\ mem' = EmptyView
    /\ mod' = [k \in Key |-> FALSE]
    /\ mutGen' = [k \in Key |-> 0]
    /\ recOff' = [k \in Key |-> 0]
    /\ pendingDels' = {}
    /\ dirty' = FALSE /\ dirtyGen' = 0 /\ writeSeq' = 0 /\ durableSeq' = 0
    /\ sawFile' = FALSE /\ v1Migration' = FALSE /\ compactForce' = FALSE
    /\ st' = Idle
    /\ closer' = NotClosing
    /\ syncer' = NotSyncing

\* The process dies; what it wrote stays with the operating system.
ProcessCrash ==
    /\ "kill" \in Scene
    /\ handle # "none"
    /\ restarts < MaxRestarts
    /\ restarts' = restarts + 1
    /\ ForgetMemory
    /\ UNCHANGED <<diskVars, ghostVars>>

\* The machine dies: the disk holds one of the images it was free to hold. One
\* that undoes a rename takes back what FlushSync has answered for since the
\* directory was last synced.
PowerLoss(img) ==
    /\ "power" \in Scene
    /\ restarts < MaxRestarts
    /\ restarts' = restarts + 1
    /\ ForgetMemory
    /\ file' = img
    /\ mark' = Len(img.log)
    /\ prior' = {}
    /\ ackSeq' = IF img \in PathImages THEN ackSeq ELSE sureSeq
    /\ UNCHANGED <<snapshots, sureSeq, exposed>>

\* Open, on no store or after a Close whose callers have gone home.
CanOpen ==
    \/ handle = "none"
    \/ /\ handle = "closed" /\ st.pc = "idle" /\ syncer.pc = "idle"
       /\ restarts < MaxRestarts

\* Everything about the opened store that does not depend on the file.
OpenedFresh ==
    /\ handle' = "open"
    /\ mod' = [k \in Key |-> FALSE]
    /\ mutGen' = [k \in Key |-> 0]
    /\ pendingDels' = {}
    /\ writeSeq' = 0 /\ durableSeq' = 0
    /\ compactForce' = FALSE
    /\ st' = Idle
    /\ closer' = NotClosing
    /\ syncer' = NotSyncing
    /\ ackSeq' = 0 /\ sureSeq' = 0
    /\ restarts' = IF handle = "closed" THEN restarts + 1 ELSE restarts

\* What a crash of the opened store may leave, before it has written anything.
\* A ruined file that a rewrite replaced may still come back if the machine
\* loses power.
OpenedImages ==
    /\ snapshots' = {[seq |-> 0, view |-> Replay(i.log)] : i \in Images'}
    /\ exposed' = IF \E i \in Images' : MayBeCorrupt(i.log)
                  THEN {"tail_woken"} ELSE {}

\* No file yet: an empty store, which the first flush will create.
OpenNew ==
    /\ CanOpen
    /\ file.fmt = "none"
    /\ OpenedFresh
    /\ mem' = EmptyView
    /\ recOff' = [k \in Key |-> 0]
    /\ dirty' = TRUE /\ dirtyGen' = 0
    /\ sawFile' = FALSE /\ v1Migration' = FALSE
    /\ UNCHANGED diskVars
    /\ OpenedImages

\* A file of the old format is read whole and waits to be rewritten as v2.
OpenV1 ==
    /\ CanOpen
    /\ file.fmt = "v1"
    /\ OpenedFresh
    /\ mem' = Replay(file.log)
    /\ recOff' = [k \in Key |-> 0]
    /\ dirty' = TRUE /\ dirtyGen' = 1
    /\ sawFile' = FALSE /\ v1Migration' = TRUE
    /\ UNCHANGED diskVars
    /\ OpenedImages

\* openV2: a torn record and all that follows it is cut off the file; the
\* documents are those the last COMMIT covers. (It may refuse instead a file
\* that MayBeCorrupt, and then nothing has changed.)
OpenV2(log) ==
    /\ CanOpen
    /\ file.fmt = "v2"
    /\ OpenedFresh
    /\ file' = [file EXCEPT !.log = log]
    /\ mark' = IF mark > Len(log) THEN Len(log) ELSE mark
    /\ mem' = Replay(log)
    /\ recOff' = [k \in Key |-> RecordOf(log, k)]
    /\ dirty' = FALSE /\ dirtyGen' = 0
    /\ sawFile' = TRUE /\ v1Migration' = FALSE
    /\ UNCHANGED prior
    /\ OpenedImages

-----------------------------------------------------------------------------

Init ==
    /\ handle = "none"
    /\ mem = EmptyView
    /\ mod = [k \in Key |-> FALSE]
    /\ mutGen = [k \in Key |-> 0]
    /\ recOff = [k \in Key |-> 0]
    /\ pendingDels = {}
    /\ dirty = FALSE /\ dirtyGen = 0 /\ writeSeq = 0 /\ durableSeq = 0
    /\ sawFile = FALSE /\ v1Migration = FALSE /\ compactForce = FALSE
    /\ st = Idle
    /\ closer = NotClosing
    /\ syncer = NotSyncing
    /\ \/ file = [fmt |-> "none", log |-> <<>>]
       \/ \E docs \in V1Docs :
              file = [fmt |-> "v1",
                      log |-> <<[dels |-> {}, docs |-> docs,
                                 end |-> "commit"]>>]
    /\ mark = Len(file.log)
    /\ prior = {}
    /\ restarts = 0
    /\ snapshots = {[seq |-> 0, view |-> Replay(file.log)]}
    /\ ackSeq = 0 /\ sureSeq = 0
    /\ exposed = {}

Mutate ==
    \E k \in Key :
        \/ \E v \in Val : Insert(k, v) \/ Upsert(k, v) \/ Update(k, v)
        \/ Delete(k)

Flush ==
    \/ \E who \in Callers : FlushBegin(who) \/ FlushNothing(who)
    \/ WriteFull
    \/ WriteAppend
    \/ WriteFails
    \/ \E p \in Parts(st.batch) : WriteStopsShort(p)
    \/ ApplyFlushed

Next ==
    \/ Mutate
    \/ Compact
    \/ Flush
    \/ SyncCall \/ SyncFile \/ SyncFails \/ SyncClosed
    \/ CloseCall \/ CloseMark
    \/ ProcessCrash
    \/ \E img \in Images : PowerLoss(img)
    \/ OpenNew \/ OpenV1
    \/ \E log \in HealedLogs(file.log) : OpenV2(log)

Spec == Init /\ [][Next]_vars

-----------------------------------------------------------------------------
(* Safety *)

\* What opening the file would read from it.
Contents == Replay(file.log)

\* Whatever a crash leaves on the disk, opening it gives the documents as one
\* of the flushes took them, all of them or none (the COMMIT record is the only
\* commit point). It is a flush no older than any FlushSync has answered for,
\* unless a power failure undoes a rename whose directory refused to be synced;
\* then it is no older than what FlushSync had answered for when no rename was
\* left to be undone: file.go:614-654, filev2.go:265-420.
CrashDurable ==
    /\ \A img \in PathImages :
          \E s \in snapshots : s.seq >= ackSeq /\ s.view = Replay(img.log)
    /\ \A img \in prior :
          \E s \in snapshots : s.seq >= sureSeq /\ s.view = Replay(img.log)

\* The same, until the store runs into one of the known losses.
CrashAtomic == exposed = {} => CrashDurable

\* The file if the next flush ran now and nothing mutated.
NextContents ==
    IF NeedsRewrite THEN Replay(<<StagedBatch>>)
    ELSE Replay(Append(file.log, StagedBatch))

\* No mutation is forgotten between two flushes, whichever order it and the
\* steps of a flush took s.mu in: the next flush makes the file say what the
\* memory says, and a store that is clean needs none (markEntryClean,
\* applyFlushed, the queue of DELs: file.go:538-612, store.go:700-708).
NextFlushCompletes ==
    handle # "none" /\ st.pc = "idle" /\ exposed = {} =>
        /\ Contents # mem => dirty
        /\ ~WakesTail(file.log, StagedBatch) => NextContents = mem

\* The record an entry would be read from, were it to leave the cache, holds
\* its document - except from the rename of a rewrite until its bookkeeping
\* (cache.go:43-76, file.go:559-592).
RecordsReadable ==
    handle # "none" /\ sawFile /\ ~(st.pc = "written" /\ st.full) =>
        \A k \in Key :
            mem[k] # NoVal /\ ~mod[k] =>
                /\ recOff[k] \in 1..Len(file.log)
                /\ file.log[recOff[k]].docs[k] = mem[k]

\* A Close that returned nil has put on file every mutation that had returned
\* when it was called, whichever flushes ran beside it (file.go:666-695).
ClosedKeepsWrites ==
    handle = "closed" /\ exposed = {} =>
        \E s \in snapshots : s.seq >= closer.goal /\ s.view = Contents

\* Backpressure counts a mutation as durable only when the file holds it
\* (file.go:543-546).
DurableSeqIsTrue ==
    handle # "none" /\ exposed = {} =>
        \E s \in snapshots : s.seq >= durableSeq /\ s.view = Contents

-----------------------------------------------------------------------------
(* What comments and documents of the repository say, and the code does not do *)

\* "Guarda contra resurreccion" (store.go:704-705): a store with nothing left
\* to flush has no document on file that was deleted from it.
DeletedStaysDeleted ==
    handle = "open" /\ ~dirty =>
        \A k \in Key : mem[k] = NoVal => Contents[k] = NoVal

\* "perdida = 0 tras la mutacion retornar" for who calls FlushSync
\* (doc/ARQUITECTURA.md:101): what a FlushSync that returned nil answers for
\* survives a crash, also when a Close runs beside it.
AcknowledgedSurvives == exposed \subseteq {"closed_sync"} => CrashDurable

\* Open cuts the tail that no COMMIT covers "para que el log termine en un
\* COMMIT" (filev2.go:876-877).
OpenedLogEndsInCommit ==
    [][handle # "open" /\ handle' = "open" => EndsInCommit(file'.log)]_vars

\* A torn append heals (PLAN_V2.md:132), so nothing is ever written after a
\* record that is not all there.
TornRecordIsLast ==
    \A i \in TornAt(file.log) : i = Len(file.log)

-----------------------------------------------------------------------------
(* Liveness *)

\* The ticker of startAutoFlush calls Flush until Close stops it; a mutex of
\* Go is not held from a waiter for ever (starvation mode), so FlushSync and
\* Close get flushMu; a disk that fails does not fail every time.
Fairness ==
    /\ WF_vars(closer.pc = "no" /\ FlushBegin("flush"))
    /\ SF_vars(WriteFull \/ WriteAppend)
    /\ WF_vars(ApplyFlushed)
    /\ SF_vars(FlushBegin("sync") \/ FlushNothing("sync"))
    /\ SF_vars(FlushBegin("close") \/ FlushNothing("close"))
    /\ WF_vars(SyncFile \/ SyncFails \/ SyncClosed)
    /\ WF_vars(CloseMark)

FairSpec == Spec /\ Fairness

\* Every mutation of an open store reaches the file without anyone asking:
\* the ticker flushes again whatever failed before (runtime.go:47-73).
EventuallyDurable ==
    \A n \in 1..MaxWrites :
        (handle = "open" /\ writeSeq = n) ~>
            (durableSeq >= n \/ handle # "open" \/ closer.pc # "no")

\* FlushSync and Close come to an end, with or without an error.
CallsReturn ==
    /\ syncer.pc # "idle" ~> syncer.pc = "idle"
    /\ closer.pc \in {"flush", "mark"} ~> closer.pc \notin {"flush", "mark"}
=============================================================================
