-------------------------- MODULE StoreFlushProofs --------------------------
(***************************************************************************)
(* Proofs about StoreFlush, for every set of keys and documents and every  *)
(* value of the bounds. The first part: its types, and that the record an  *)
(* entry would be read from holds its document. The second: no mutation is *)
(* forgotten between two flushes (NextFlushCompletes). The third: what a   *)
(* store has answered for survives (CrashAtomic, DurableSeqIsTrue and      *)
(* ClosedKeepsWrites). The last: StoreFlush implements CrashSafeStore -    *)
(* every step of mutations, flushes, calls, crashes and openings is a step *)
(* of the promise or no step of it.                                        *)
(***************************************************************************)
EXTENDS StoreRefinement, SequenceTheorems, TLAPS

-----------------------------------------------------------------------------
(* The logs *)

LEMMA EmptyViewType == EmptyView \in View
BY DEF EmptyView, View, MaybeVal

\* A document that is read from a log is one the log holds.
LEMMA ReplayType ==
    ASSUME NEW log \in Log
    PROVE  Replay(log) \in View
<1> SUFFICES ASSUME NEW k \in Key
             PROVE  ReplayKey(log, k) \in MaybeVal
    BY DEF Replay, View
<1>1. CASE Newest(log, k) = {}
    BY <1>1 DEF ReplayKey, MaybeVal
<1>2. CASE Newest(log, k) # {}
    <2> DEFINE i == CHOOSE j \in Newest(log, k) : TRUE
    <2>1. i \in Newest(log, k)
        BY <1>2
    <2>2. i \in 1..Len(log)
        BY <2>1 DEF Newest, Committed
    <2>3. log[i] \in Batch
        BY <2>2, ElementOfSeq DEF Log
    <2>4. log[i].docs[k] \in MaybeVal
        BY <2>3 DEF Batch, View
    <2> QED
        BY <1>2, <2>4 DEF ReplayKey
<1> QED
    BY <1>1, <1>2

\* The record an entry is opened with is in the log and holds its document.
LEMMA RecordOfHolds ==
    ASSUME NEW log \in Log, NEW k \in Key
    PROVE  /\ RecordOf(log, k) \in Nat
           /\ ReplayKey(log, k) # NoVal =>
                  /\ RecordOf(log, k) \in 1..Len(log)
                  /\ log[RecordOf(log, k)].docs[k] = ReplayKey(log, k)
<1>1. CASE ReplayKey(log, k) = NoVal
    BY <1>1 DEF RecordOf
<1>2. CASE ReplayKey(log, k) # NoVal
    <2> DEFINE i == CHOOSE j \in Newest(log, k) : TRUE
    <2>1. Newest(log, k) # {}
        BY <1>2 DEF ReplayKey
    <2>2. i \in Newest(log, k)
        BY <2>1
    <2>3. i \in 1..Len(log) /\ Len(log) \in Nat
        BY <2>2, LenProperties DEF Newest, Committed, Log
    <2>4. RecordOf(log, k) = i /\ ReplayKey(log, k) = log[i].docs[k]
        BY <1>2, <2>1 DEF RecordOf, ReplayKey
    <2> QED
        BY <2>3, <2>4
<1> QED
    BY <1>1, <1>2

LEMMA PartsType ==
    ASSUME NEW b \in Batch, NEW p \in Parts(b)
    PROVE  p \in Batch
<1>1. p.dels \in SUBSET Key /\ p.end \in Endings
    BY DEF Parts, Batch, Endings
<1>2. PICK S \in SUBSET {k \in Key : b.docs[k] # NoVal} :
          p.docs = [k \in Key |-> IF k \in S THEN b.docs[k] ELSE NoVal]
    BY DEF Parts
<1>3. \A k \in Key : b.docs[k] \in MaybeVal
    BY DEF Batch, View
<1>4. p.docs \in View
    BY <1>2, <1>3 DEF View, MaybeVal
<1>5. p = [dels |-> p.dels, docs |-> p.docs, end |-> p.end]
    BY DEF Parts
<1> QED
    BY <1>1, <1>4, <1>5 DEF Batch

LEMMA PrefixType ==
    ASSUME NEW log \in Log, NEW n \in 0..Len(log)
    PROVE  SubSeq(log, 1, n) \in Log /\ Len(SubSeq(log, 1, n)) = n
BY SubSeqProperties, LenProperties DEF Log

LEMMA AppendType ==
    ASSUME NEW log \in Log, NEW b \in Batch
    PROVE  /\ Append(log, b) \in Log
           /\ Len(Append(log, b)) = Len(log) + 1
           /\ Append(log, b)[Len(log) + 1] = b
           /\ \A i \in 1..Len(log) : Append(log, b)[i] = log[i]
BY AppendProperties DEF Log

\* What a disk may hold after a crash is a log again, and no shorter than what
\* it was told to keep.
LEMMA CutsType ==
    ASSUME NEW log \in Log, NEW m \in 0..Len(log), NEW cut \in Cuts(log, m)
    PROVE  cut \in Log
<1> Len(log) \in Nat
    BY LenProperties DEF Log
<1>1. CASE \E n \in m..Len(log) : cut = SubSeq(log, 1, n)
    BY <1>1, PrefixType
<1>2. CASE \E n \in (m + 1)..Len(log) : \E p \in Parts(log[n]) :
               cut = Append(SubSeq(log, 1, n - 1), p)
    <2>0. PICK n \in (m + 1)..Len(log) : \E p \in Parts(log[n]) :
              cut = Append(SubSeq(log, 1, n - 1), p)
        BY <1>2
    <2>1. PICK p \in Parts(log[n]) : cut = Append(SubSeq(log, 1, n - 1), p)
        BY <2>0
    <2>2. n \in 1..Len(log) /\ n - 1 \in 0..Len(log)
        OBVIOUS
    <2>3. p \in Batch
        BY <2>2, ElementOfSeq, PartsType DEF Log
    <2> QED
        BY <2>1, <2>2, <2>3, PrefixType, AppendType
<1> QED
    BY <1>1, <1>2 DEF Cuts

LEMMA HealedType ==
    ASSUME NEW log \in Log, NEW healed \in HealedLogs(log)
    PROVE  healed \in Log
<1> Len(log) \in Nat
    BY LenProperties DEF Log
<1>1. CASE healed = log
    BY <1>1
<1>2. CASE \E i \in 1..Len(log) : healed = TruncateAt(log, i)
    <2>1. PICK i \in 1..Len(log) : healed = TruncateAt(log, i)
        BY <1>2
    <2>2. [log[i] EXCEPT !.end = "cut"] \in Batch
        <3> log[i] \in Batch
            BY ElementOfSeq DEF Log
        <3> QED
            BY DEF Batch, Endings
    <2>3. SubSeq(log, 1, i - 1) \in Log
        BY PrefixType
    <2> QED
        BY <2>1, <2>2, <2>3, AppendType DEF TruncateAt
<1> QED
    BY <1>1, <1>2 DEF HealedLogs, FirstTorn, TornAt

-----------------------------------------------------------------------------
(* Type correctness *)

LEMMA IdleType ==
    /\ Idle \in [pc: {"idle", "staged", "written"}, who: Callers, full: BOOLEAN,
                 gen: Nat, seq: Nat, batch: Batch, at: Nat]
    /\ Idle.pc = "idle" /\ Idle.seq = 0 /\ Idle.gen = 0
<1>1. NoBatch \in Batch
    BY EmptyViewType DEF NoBatch, Batch, Endings
<1> QED
    BY <1>1 DEF Idle, Callers

LEMMA StagedBatchType ==
    ASSUME TypeOK
    PROVE  StagedBatch \in Batch
<1>1. StagedBatch.dels \in SUBSET Key
    BY DEF StagedBatch, TypeOK, MemoryOK
<1>2. [k \in Key |-> IF NeedsRewrite \/ mod[k] THEN mem[k] ELSE NoVal] \in View
    BY DEF TypeOK, MemoryOK, View, MaybeVal
<1>3. StagedBatch.docs \in View
    BY <1>2 DEF StagedBatch
<1> QED
    BY <1>1, <1>3 DEF StagedBatch, Batch, Endings

\* The images of a disk are images.
LEMMA ImagesType ==
    ASSUME NEW f \in Image, NEW m \in 0..Len(f.log), NEW old \in SUBSET Image
    PROVE  old \union {[fmt |-> f.fmt, log |-> log] : log \in Cuts(f.log, m)}
               \subseteq Image
BY CutsType DEF Image

LEMMA DiskImages ==
    ASSUME DiskOK
    PROVE  Images \subseteq Image /\ PathImages \subseteq Images
BY ImagesType DEF DiskOK, Images, PathImages

LEMMA DiskImagesNext == DiskOK' => (Images \subseteq Image)'
<1>1. DiskOK => Images \subseteq Image
    BY DiskImages
<1> QED
    BY <1>1, PTL

LEMMA OpenedSnapshots ==
    ASSUME NEW S \in SUBSET Image
    PROVE  {[seq |-> 0, view |-> Replay(i.log)] : i \in S} \subseteq Snapshot
BY ReplayType DEF Image, Snapshot

LEMMA TypeInit == Init => TypeOK
<1> SUFFICES ASSUME Init PROVE TypeOK
    OBVIOUS
<1>1. file \in Image
    <2>1. CASE file = [fmt |-> "none", log |-> <<>>]
        BY <2>1, EmptySeq DEF Image, Log
    <2>2. CASE \E docs \in V1Docs :
                   file = [fmt |-> "v1",
                           log |-> <<[dels |-> {}, docs |-> docs,
                                      end |-> "commit"]>>]
        <3>1. PICK docs \in V1Docs :
                  file = [fmt |-> "v1",
                          log |-> <<[dels |-> {}, docs |-> docs,
                                     end |-> "commit"]>>]
            BY <2>2
        <3>2. [dels |-> {}, docs |-> docs, end |-> "commit"] \in Batch
            BY BoundsAssumption DEF Batch, Endings
        <3>3. <<[dels |-> {}, docs |-> docs, end |-> "commit"]>> \in Log
            BY <3>2 DEF Log
        <3> QED
            BY <3>1, <3>3 DEF Image
    <2> QED
        BY <2>1, <2>2 DEF Init
<1>2. Len(file.log) \in Nat /\ Replay(file.log) \in View
    BY <1>1, LenProperties, ReplayType DEF Image, Log
<1>3. MemoryOK
    BY EmptyViewType DEF Init, MemoryOK
<1>4. FlagsOK
    BY DEF Init, FlagsOK
<1>5. CallsOK
    BY IdleType DEF Init, CallsOK, NotClosing, NotSyncing
<1>6. DiskOK
    BY <1>1, <1>2 DEF Init, DiskOK
<1>7. HistoryOK
    BY <1>2 DEF Init, HistoryOK, Snapshot
<1>8. CountersOK
    BY IdleType DEF Init, CountersOK
<1> QED
    BY <1>3, <1>4, <1>5, <1>6, <1>7, <1>8 DEF TypeOK

\* A mutation marks an entry with a generation no flush in flight has seen.
LEMMA TypeMutate == TypeOK /\ Mutate => TypeOK'
<1> SUFFICES ASSUME TypeOK, Mutate PROVE TypeOK'
    OBVIOUS
<1> USE DEF TypeOK
<1>1. ASSUME NEW k \in Key, NEW v \in Val, Store(k, v)
      PROVE  TypeOK'
    <2>1. MemoryOK'
        BY <1>1 DEF Store, MarkDirty, MemoryOK, FlagsOK, View, MaybeVal
    <2>2. FlagsOK'
        BY <1>1 DEF Store, MarkDirty, FlagsOK
    <2>3. CallsOK' /\ DiskOK' /\ HistoryOK'
        BY <1>1 DEF Store, CallsOK, DiskOK, HistoryOK, callVars, diskVars,
                    ghostVars
    <2>4. CountersOK'
        BY <1>1 DEF Store, MarkDirty, MemoryOK, FlagsOK, CallsOK, CountersOK
    <2> QED
        BY <2>1, <2>2, <2>3, <2>4
<1>2. ASSUME NEW k \in Key, Delete(k)
      PROVE  TypeOK'
    <2>1. MemoryOK'
        BY <1>2 DEF Delete, MarkDirty, MemoryOK, FlagsOK, View, MaybeVal
    <2>2. FlagsOK'
        BY <1>2 DEF Delete, MarkDirty, FlagsOK
    <2>3. CallsOK' /\ DiskOK' /\ HistoryOK'
        BY <1>2 DEF Delete, CallsOK, DiskOK, HistoryOK, callVars, diskVars,
                    ghostVars
    <2>4. CountersOK'
        BY <1>2 DEF Delete, MarkDirty, MemoryOK, FlagsOK, CallsOK, CountersOK
    <2> QED
        BY <2>1, <2>2, <2>3, <2>4
<1> QED
    BY <1>1, <1>2 DEF Mutate, Insert, Upsert, Update

\* What returning from a flush does to its callers.
LEMMA ReturnsType ==
    ASSUME CallsOK, NEW who \in Callers, NEW ok \in BOOLEAN, Returns(who, ok)
    PROVE  /\ closer' \in [pc: {"no", "flush", "mark", "failed"}, goal: Nat]
           /\ syncer' \in [pc: {"idle", "flush", "fsync"}, goal: Nat]
BY DEF CallsOK, Returns

LEMMA TypeFlush == TypeOK /\ Flush => TypeOK'
<1> SUFFICES ASSUME TypeOK, Flush PROVE TypeOK'
    OBVIOUS
<1> USE DEF TypeOK
<1>0. st.who \in Callers /\ st.batch \in Batch /\ file.log \in Log
    BY DEF CallsOK, DiskOK, Image
<1>1. ASSUME NEW who \in Callers, FlushBegin(who)
      PROVE  TypeOK'
    <2>1. MemoryOK' /\ DiskOK'
        BY <1>1 DEF FlushBegin, MemoryOK, DiskOK, memVars, diskVars
    <2>2. FlagsOK'
        BY <1>1 DEF FlushBegin, FlagsOK
    <2>3. CallsOK'
        BY <1>1, StagedBatchType
        DEF FlushBegin, CallsOK, FlagsOK, callVars, NeedsRewrite
    <2>4. HistoryOK'
        BY <1>1 DEF FlushBegin, HistoryOK, FlagsOK, MemoryOK, Snapshot
    <2>5. CountersOK'
        BY <1>1 DEF FlushBegin, CountersOK, FlagsOK, MemoryOK, memVars
    <2> QED
        BY <2>1, <2>2, <2>3, <2>4, <2>5
<1>2. ASSUME NEW who \in Callers, FlushNothing(who)
      PROVE  TypeOK'
    <2>1. MemoryOK' /\ FlagsOK' /\ DiskOK' /\ HistoryOK' /\ CountersOK'
        BY <1>2 DEF FlushNothing, MemoryOK, FlagsOK, DiskOK, HistoryOK,
                    CountersOK, memVars, flagVars, diskVars, ghostVars
    <2>2. CallsOK'
        BY <1>2, ReturnsType DEF FlushNothing, CallsOK
    <2> QED
        BY <2>1, <2>2
<1>3. CASE WriteFull
    <2>1. MemoryOK' /\ FlagsOK' /\ HistoryOK'
        BY <1>3 DEF WriteFull, MemoryOK, FlagsOK, HistoryOK, memVars, flagVars,
                    ghostVars
    <2>2. CallsOK' /\ CountersOK'
        BY <1>3 DEF WriteFull, CallsOK, CountersOK, MemoryOK, FlagsOK, memVars,
                    flagVars, callVars
    <2>3. DiskOK'
        <3>1. <<st.batch>> \in Log /\ Len(<<st.batch>>) = 1
            BY <1>0 DEF Log
        <3>2. Images \subseteq Image
            BY DiskImages
        <3> QED
            BY <1>3, <3>1, <3>2 DEF WriteFull, DiskOK, Image
    <2> QED
        BY <2>1, <2>2, <2>3
<1>4. CASE WriteAppend
    <2>1. MemoryOK' /\ FlagsOK'
        BY <1>4 DEF WriteAppend, MemoryOK, FlagsOK, memVars, flagVars
    <2>2. CallsOK' /\ CountersOK'
        <3>1. Len(file.log) + 1 \in Nat
            BY <1>0, LenProperties DEF Log
        <3> QED
            BY <1>4, <3>1 DEF WriteAppend, CallsOK, CountersOK, MemoryOK,
                              FlagsOK, memVars, flagVars, callVars
    <2>3. DiskOK'
        BY <1>0, <1>4, AppendType, LenProperties
        DEF WriteAppend, DiskOK, Image, Log
    <2>4. HistoryOK'
        BY <1>4 DEF WriteAppend, HistoryOK, TailExposure, Exposures
    <2> QED
        BY <2>1, <2>2, <2>3, <2>4
<1>5. CASE WriteFails
    <2>1. MemoryOK' /\ FlagsOK' /\ DiskOK' /\ HistoryOK'
        BY <1>5 DEF WriteFails, MemoryOK, FlagsOK, DiskOK, HistoryOK, memVars,
                    flagVars, diskVars, ghostVars
    <2>2. CallsOK'
        BY <1>0, <1>5, IdleType, ReturnsType DEF WriteFails, CallsOK
    <2>3. CountersOK'
        BY <1>5, IdleType DEF WriteFails, CountersOK, MemoryOK, FlagsOK,
                              memVars, flagVars
    <2> QED
        BY <2>1, <2>2, <2>3
<1>6. ASSUME NEW p \in Parts(st.batch), WriteStopsShort(p)
      PROVE  TypeOK'
    <2>1. MemoryOK' /\ FlagsOK'
        BY <1>6 DEF WriteStopsShort, MemoryOK, FlagsOK, memVars, flagVars
    <2>2. CallsOK'
        BY <1>0, <1>6, IdleType, ReturnsType DEF WriteStopsShort, CallsOK
    <2>3. CountersOK'
        BY <1>6, IdleType DEF WriteStopsShort, CountersOK, MemoryOK, FlagsOK,
                              memVars, flagVars
    <2>4. DiskOK'
        <3>1. p \in Batch
            BY <1>0, PartsType
        <3>2. /\ file' = [file EXCEPT !.log = Append(@, p)]
              /\ mark' = mark /\ prior' = prior
            BY <1>6 DEF WriteStopsShort
        <3>3. Append(file.log, p) \in Log /\ Len(file.log) \in Nat
              /\ Len(Append(file.log, p)) = Len(file.log) + 1
            BY <1>0, <3>1, AppendType, LenProperties DEF Log
        <3>4. file' \in Image /\ file'.log = Append(file.log, p)
            BY <3>2, <3>3 DEF DiskOK, Image
        <3> QED
            BY <3>2, <3>3, <3>4 DEF DiskOK
    <2>5. HistoryOK'
        BY <1>6 DEF WriteStopsShort, HistoryOK, Exposures
    <2> QED
        BY <2>1, <2>2, <2>3, <2>4, <2>5
<1>7. CASE ApplyFlushed
    <2>1. MemoryOK'
        BY <1>7 DEF ApplyFlushed, MemoryOK, CallsOK, StillMarked, NewRecOff,
                    KeptDels
    <2>2. FlagsOK'
        BY <1>7 DEF ApplyFlushed, FlagsOK, CallsOK, DurableNow, StillDirty
    <2>3. CallsOK'
        BY <1>0, <1>7, IdleType, ReturnsType DEF ApplyFlushed, CallsOK
    <2>4. DiskOK' /\ HistoryOK'
        BY <1>7 DEF ApplyFlushed, DiskOK, HistoryOK, diskVars, Exposures
    <2>5. CountersOK'
        BY <1>7, IdleType DEF ApplyFlushed, CountersOK, MemoryOK, FlagsOK,
                              CallsOK, DurableNow
    <2> QED
        BY <2>1, <2>2, <2>3, <2>4, <2>5
<1> QED
    BY <1>1, <1>2, <1>3, <1>4, <1>5, <1>6, <1>7 DEF Flush

LEMMA TypeCalls ==
    TypeOK /\ (Compact \/ SyncCall \/ SyncFile \/ SyncFails \/ SyncClosed \/ CloseCall
               \/ CloseMark) => TypeOK'
<1> USE DEF TypeOK
<1>1. ASSUME TypeOK, Compact PROVE TypeOK'
    BY <1>1 DEF Compact, MemoryOK, FlagsOK, CallsOK, DiskOK, HistoryOK,
                CountersOK, memVars, callVars, diskVars, ghostVars
<1>2. ASSUME TypeOK, SyncCall \/ CloseCall PROVE TypeOK'
    <2>1. MemoryOK' /\ FlagsOK' /\ DiskOK' /\ HistoryOK' /\ CountersOK'
        BY <1>2 DEF SyncCall, CloseCall, MemoryOK, FlagsOK, DiskOK, HistoryOK,
                    CountersOK, memVars, flagVars, diskVars, ghostVars
    <2>2. CallsOK'
        BY <1>2 DEF SyncCall, CloseCall, CallsOK, FlagsOK
    <2> QED
        BY <2>1, <2>2
<1>3. ASSUME TypeOK, SyncFile \/ SyncFails \/ SyncClosed PROVE TypeOK'
    <2>1. MemoryOK' /\ FlagsOK' /\ CountersOK'
        BY <1>3 DEF SyncFile, SyncFails, SyncClosed, MemoryOK, FlagsOK,
                    CountersOK, memVars, flagVars
    <2>2. CallsOK'
        BY <1>3 DEF SyncFile, SyncFails, SyncClosed, Acknowledge, NotSyncing,
                    CallsOK
    <2>4. HistoryOK'
        <3>1. CASE SyncFile \/ SyncClosed
            <4>1. /\ snapshots' = snapshots /\ restarts' = restarts
                  /\ exposed' \in {exposed, exposed \union {"closed_sync"}}
                  /\ Acknowledge /\ sureSeq' \in {sureSeq, ackSeq'}
                BY <3>1 DEF SyncFile, SyncClosed
            <4>2. syncer.goal \in Nat /\ ackSeq \in Nat /\ sureSeq \in 0..ackSeq
                BY <1>3 DEF CallsOK, HistoryOK
            <4>3. ackSeq' \in Nat /\ sureSeq' \in 0..ackSeq'
                BY <4>1, <4>2 DEF Acknowledge
            <4> QED
                BY <1>3, <4>1, <4>3 DEF HistoryOK, Exposures
        <3>2. CASE SyncFails
            BY <1>3, <3>2 DEF SyncFails, HistoryOK, ghostVars
        <3> QED
            BY <1>3, <3>1, <3>2
    <2>3. DiskOK'
        BY <1>3, LenProperties
        DEF SyncFile, SyncFails, SyncClosed, SyncPath, DiskOK, Image, Log,
            diskVars
    <2> QED
        BY <2>1, <2>2, <2>3, <2>4
<1>4. ASSUME TypeOK, CloseMark PROVE TypeOK'
    BY <1>4 DEF CloseMark, MemoryOK, FlagsOK, CallsOK, DiskOK, HistoryOK,
                CountersOK, memVars, flagVars, diskVars, ghostVars
<1> QED
    BY <1>1, <1>2, <1>3, <1>4

LEMMA TypeCrash ==
    TypeOK /\ (ProcessCrash \/ \E img \in Images : PowerLoss(img)) => TypeOK'
<1> SUFFICES ASSUME TypeOK, ProcessCrash \/ \E img \in Images : PowerLoss(img)
             PROVE  TypeOK'
    OBVIOUS
<1> USE DEF TypeOK
<1>1. ForgetMemory
    BY DEF ProcessCrash, PowerLoss
<1>2. MemoryOK' /\ FlagsOK' /\ CallsOK' /\ CountersOK'
    <2>1. MemoryOK'
        BY <1>1, EmptyViewType DEF ForgetMemory, MemoryOK
    <2>2. FlagsOK'
        BY <1>1 DEF ForgetMemory, FlagsOK
    <2>3. CallsOK'
        BY <1>1, IdleType DEF ForgetMemory, CallsOK, NotClosing, NotSyncing
    <2>4. CountersOK'
        BY <1>1, IdleType DEF ForgetMemory, CountersOK
    <2> QED
        BY <2>1, <2>2, <2>3, <2>4
<1>3. CASE ProcessCrash
    BY <1>2, <1>3 DEF ProcessCrash, DiskOK, HistoryOK, diskVars, ghostVars
<1>4. ASSUME NEW img \in Images, PowerLoss(img)
      PROVE  TypeOK'
    <2>1. img \in Image
        BY DiskImages
    <2>2. DiskOK'
        BY <1>4, <2>1, LenProperties DEF PowerLoss, DiskOK, Image, Log
    <2>3. HistoryOK'
        BY <1>4 DEF PowerLoss, HistoryOK, ghostVars
    <2> QED
        BY <1>2, <2>2, <2>3
<1> QED
    BY <1>3, <1>4

LEMMA TypeOpen ==
    TypeOK /\ (OpenNew \/ OpenV1 \/ \E log \in HealedLogs(file.log) : OpenV2(log))
        => TypeOK'
<1> USE DEF TypeOK
<1>1. ASSUME TypeOK, OpenedFresh, mem' \in View, recOff' \in [Key -> Nat],
             dirty' \in BOOLEAN, dirtyGen' \in Nat, sawFile' \in BOOLEAN,
             v1Migration' \in BOOLEAN, DiskOK', OpenedImages
      PROVE  TypeOK'
    <2>1. MemoryOK'
        BY <1>1 DEF OpenedFresh, MemoryOK
    <2>2. FlagsOK'
        BY <1>1 DEF OpenedFresh, FlagsOK
    <2>3. CallsOK'
        BY <1>1, IdleType DEF OpenedFresh, CallsOK, NotClosing, NotSyncing
    <2>4. HistoryOK'
        <3>1. snapshots' \subseteq Snapshot
            BY <1>1, DiskImagesNext, OpenedSnapshots DEF OpenedImages
        <3>2. exposed' \subseteq Exposures
            BY <1>1 DEF OpenedImages, Exposures
        <3> QED
            BY <1>1, <3>1, <3>2 DEF OpenedFresh, HistoryOK
    <2>5. CountersOK'
        BY <1>1, IdleType DEF OpenedFresh, CountersOK
    <2> QED
        BY <1>1, <2>1, <2>2, <2>3, <2>4, <2>5
<1>2. ASSUME TypeOK, OpenNew \/ OpenV1
      PROVE  TypeOK'
    <2>1. mem' \in View /\ recOff' \in [Key -> Nat]
        BY <1>2, EmptyViewType, ReplayType DEF OpenNew, OpenV1, DiskOK, Image
    <2>2. DiskOK'
        BY <1>2 DEF OpenNew, OpenV1, DiskOK, diskVars
    <2>3. OpenedImages
        BY <1>2 DEF OpenNew, OpenV1
    <2>4. OpenedFresh /\ dirtyGen' \in Nat
        BY <1>2 DEF OpenNew, OpenV1
    <2>5. /\ dirty' \in BOOLEAN /\ sawFile' \in BOOLEAN
          /\ v1Migration' \in BOOLEAN
        BY <1>2, Zenon DEF OpenNew, OpenV1
    <2> QED
        BY <1>1, <1>2, <2>1, <2>2, <2>3, <2>4, <2>5
<1>3. ASSUME TypeOK, NEW log \in HealedLogs(file.log), OpenV2(log)
      PROVE  TypeOK'
    <2>1. log \in Log /\ Len(log) \in Nat
        <3>1. file.log \in Log
            BY <1>3 DEF DiskOK, Image
        <3> QED
            BY <3>1, HealedType, LenProperties DEF Log
    <2>2. mem' \in View /\ recOff' \in [Key -> Nat]
        BY <1>3, <2>1, ReplayType, RecordOfHolds DEF OpenV2
    <2>3. file' \in Image /\ file'.log = log
        BY <1>3, <2>1 DEF OpenV2, DiskOK, Image
    <2>4. mark' \in 0..Len(log)
        BY <1>3, <2>1, LenProperties DEF OpenV2, DiskOK, Image, Log
    <2>5. DiskOK'
        BY <1>3, <2>3, <2>4 DEF OpenV2, DiskOK
    <2> QED
        BY <1>1, <1>3, <2>2, <2>5 DEF OpenV2
<1> QED
    BY <1>2, <1>3

LEMMA TypeNext == TypeOK /\ [Next]_vars => TypeOK'
<1>1. TypeOK /\ UNCHANGED vars => TypeOK'
    BY DEF TypeOK, MemoryOK, FlagsOK, CallsOK, DiskOK, HistoryOK, CountersOK,
           vars, memVars, flagVars, callVars, diskVars, ghostVars
<1> QED
    BY <1>1, TypeMutate, TypeFlush, TypeCalls, TypeCrash, TypeOpen DEF Next

\* The types of the store, of its disk and of what the model remembers, and
\* that no snapshot and no entry is ahead of the counters (db/store.go:60-98,
\* db/filev2.go:87-109).
THEOREM TypeCorrect == Spec => []TypeOK
<1>1. Init => TypeOK
    BY TypeInit
<1>2. TypeOK /\ [Next]_vars => TypeOK'
    BY TypeNext
<1> QED
    BY <1>1, <1>2, PTL DEF Spec

-----------------------------------------------------------------------------
(* The record of an entry that left the cache                              *)
(*                                                                         *)
(* RecordsReadable is not inductive: when applyFlushed installs offsets it *)
(* must know that what the flush wrote is what a clean entry holds, though *)
(* mutations ran since the snapshot. The generations tell: an entry whose  *)
(* mutGen is not past the snapshot's has not changed since.                *)

\* An entry no mutation has touched since the snapshot is in it as it is, or
\* was clean when an append took it. A clean entry is such an entry.
StagedIsCurrent ==
    FlushInProgress =>
        \A k \in Key : mem[k] # NoVal =>
            /\ ~mod[k] => mutGen[k] <= st.gen
            /\ mutGen[k] <= st.gen =>
                   \/ st.batch.docs[k] = mem[k]
                   \/ ~st.full /\ ~mod[k] /\ st.batch.docs[k] = NoVal

AppendsToFile ==
    FlushInProgress => handle # "none" /\ (st.full \/ sawFile)

WrittenInPlace ==
    st.pc = "written" =>
        /\ st.at \in 1..Len(file.log)
        /\ file.log[st.at] = st.batch

IInv ==
    /\ TypeOK
    /\ StagedIsCurrent
    /\ AppendsToFile
    /\ WrittenInPlace
    /\ RecordsReadable

\* The store outside a flush and an Open: what mutations change.
LEMMA ReadableMutate == IInv /\ Mutate => IInv'
<1> SUFFICES ASSUME IInv, Mutate PROVE IInv'
    OBVIOUS
<1> USE DEF IInv
<1>0. TypeOK'
    BY TypeMutate
<1>1. ASSUME NEW k \in Key, NEW v \in Val, Store(k, v)
      PROVE  IInv'
    <2>1. StagedIsCurrent'
        BY <1>1 DEF Store, MarkDirty, StagedIsCurrent, FlushInProgress, TypeOK,
                    MemoryOK, FlagsOK, CallsOK, CountersOK
    <2>2. AppendsToFile' /\ WrittenInPlace'
        BY <1>1 DEF Store, MarkDirty, AppendsToFile, WrittenInPlace,
                    FlushInProgress, diskVars
    <2>3. RecordsReadable'
        BY <1>1 DEF Store, MarkDirty, RecordsReadable, TypeOK, MemoryOK, diskVars
    <2> QED
        BY <1>0, <2>1, <2>2, <2>3
<1>2. ASSUME NEW k \in Key, Delete(k)
      PROVE  IInv'
    <2>0. \A j \in Key : mem'[j] # NoVal =>
              /\ mem'[j] = mem[j] /\ mod'[j] = mod[j]
              /\ mutGen'[j] = mutGen[j] /\ recOff'[j] = recOff[j]
        BY <1>2 DEF Delete, TypeOK, MemoryOK, View
    <2>1. StagedIsCurrent'
        <3> st' = st
            BY <1>2 DEF Delete
        <3> QED
            BY <2>0 DEF StagedIsCurrent, FlushInProgress
    <2>2. AppendsToFile' /\ WrittenInPlace'
        BY <1>2 DEF Delete, MarkDirty, AppendsToFile, WrittenInPlace,
                    FlushInProgress, diskVars
    <2>3. RecordsReadable'
        <3> /\ st' = st /\ file' = file /\ handle' = handle
            /\ sawFile' = sawFile
            BY <1>2 DEF Delete, MarkDirty, diskVars
        <3> QED
            BY <2>0 DEF RecordsReadable
    <2> QED
        BY <1>0, <2>1, <2>2, <2>3
<1> QED
    BY <1>1, <1>2 DEF Mutate, Insert, Upsert, Update

LEMMA ReadableFlush == IInv /\ Flush => IInv'
<1> SUFFICES ASSUME IInv, Flush PROVE IInv'
    OBVIOUS
<1> USE DEF IInv
<1>0. TypeOK'
    BY TypeFlush
<1>a. file.log \in Log /\ Len(file.log) \in Nat /\ st.batch \in Batch
    BY LenProperties DEF TypeOK, DiskOK, Image, Log, CallsOK
<1>1. ASSUME NEW who \in Callers, FlushBegin(who)
      PROVE  IInv'
    <2>1. StagedIsCurrent'
        <3>1. /\ st'.gen = dirtyGen /\ st'.full = NeedsRewrite
              /\ st'.batch.docs = StagedBatch.docs
              /\ mem' = mem /\ mod' = mod /\ mutGen' = mutGen
            BY <1>1 DEF FlushBegin, memVars
        <3>2. \A k \in Key : mutGen[k] <= dirtyGen
            BY DEF TypeOK, CountersOK
        <3>3. \A k \in Key : StagedBatch.docs[k] =
                  IF NeedsRewrite \/ mod[k] THEN mem[k] ELSE NoVal
            BY DEF StagedBatch
        <3> QED
            BY <3>1, <3>2, <3>3 DEF StagedIsCurrent
    <2>2. AppendsToFile' /\ WrittenInPlace'
        BY <1>1 DEF FlushBegin, AppendsToFile, WrittenInPlace, NeedsRewrite
    <2>3. RecordsReadable'
        BY <1>1 DEF FlushBegin, RecordsReadable, memVars, diskVars
    <2> QED
        BY <1>0, <2>1, <2>2, <2>3
<1>2. ASSUME NEW who \in Callers, FlushNothing(who)
      PROVE  IInv'
    BY <1>0, <1>2
    DEF FlushNothing, StagedIsCurrent, AppendsToFile, WrittenInPlace,
        RecordsReadable, FlushInProgress, memVars, flagVars, diskVars
<1>3. CASE WriteFull
    <2>1. StagedIsCurrent' /\ AppendsToFile'
        BY <1>3 DEF WriteFull, StagedIsCurrent, AppendsToFile, FlushInProgress,
                    memVars, flagVars, TypeOK, CallsOK
    <2>2. WrittenInPlace' /\ RecordsReadable'
        BY <1>3, <1>a DEF WriteFull, WrittenInPlace, RecordsReadable, TypeOK, CallsOK
    <2> QED
        BY <1>0, <2>1, <2>2
<1>4. CASE WriteAppend
    <2>1. StagedIsCurrent' /\ AppendsToFile'
        BY <1>4 DEF WriteAppend, StagedIsCurrent, AppendsToFile,
                    FlushInProgress, memVars, flagVars, TypeOK, CallsOK
    <2>2. /\ st'.pc = "written" /\ st'.at = Len(file.log) + 1
          /\ st'.batch = st.batch /\ file'.log = Append(file.log, st.batch)
        BY <1>4 DEF WriteAppend, TypeOK, CallsOK, DiskOK, Image
    <2>3. WrittenInPlace'
        BY <1>a, <2>2, AppendType DEF WrittenInPlace
    <2>4. RecordsReadable'
        BY <1>4, <1>a, <2>2, AppendType
        DEF WriteAppend, RecordsReadable, memVars, flagVars
    <2> QED
        BY <1>0, <2>1, <2>3, <2>4
<1>5. CASE WriteFails
    BY <1>0, <1>5, IdleType
    DEF WriteFails, StagedIsCurrent, AppendsToFile, WrittenInPlace,
        RecordsReadable, FlushInProgress, memVars, flagVars, diskVars
<1>6. ASSUME NEW p \in Parts(st.batch), WriteStopsShort(p)
      PROVE  IInv'
    <2>1. StagedIsCurrent' /\ AppendsToFile' /\ WrittenInPlace'
        BY <1>6, IdleType DEF WriteStopsShort, StagedIsCurrent, AppendsToFile,
                              WrittenInPlace, FlushInProgress
    <2>2. file'.log = Append(file.log, p) /\ p \in Batch
        BY <1>6, <1>a, PartsType DEF WriteStopsShort, TypeOK, DiskOK, Image
    <2>3. RecordsReadable'
        BY <1>6, <1>a, <2>2, AppendType
        DEF WriteStopsShort, RecordsReadable, memVars, flagVars
    <2> QED
        BY <1>0, <2>1, <2>3
<1>7. CASE ApplyFlushed
    <2>1. StagedIsCurrent' /\ AppendsToFile' /\ WrittenInPlace'
        BY <1>7, IdleType DEF ApplyFlushed, StagedIsCurrent, AppendsToFile,
                              WrittenInPlace, FlushInProgress
    <2>2. ASSUME NEW k \in Key, mem'[k] # NoVal, ~mod'[k]
          PROVE  /\ recOff'[k] \in 1..Len(file'.log)
                 /\ file'.log[recOff'[k]].docs[k] = mem'[k]
        <3>1. /\ mem' = mem /\ file' = file
              /\ mod'[k] = StillMarked(k) /\ recOff'[k] = NewRecOff(k)
            BY <1>7 DEF ApplyFlushed, diskVars
        <3>2. /\ st.at \in 1..Len(file.log) /\ file.log[st.at] = st.batch
              /\ FlushInProgress
            BY <1>7 DEF ApplyFlushed, WrittenInPlace, FlushInProgress
        \* It was clean, or the flush has just cleaned it.
        <3>3. mem[k] # NoVal /\ mutGen[k] <= st.gen
            BY <2>2, <3>1, <3>2 DEF StillMarked, StagedIsCurrent
        <3>4. CASE Wrote(k)
            BY <3>1, <3>2, <3>3, <3>4
            DEF StagedIsCurrent, NewRecOff, Wrote
        <3>5. CASE ~Wrote(k)
            <4>1. ~mod[k] /\ recOff'[k] = recOff[k]
                BY <2>2, <3>1, <3>5 DEF StillMarked, NewRecOff
            <4>2. ~st.full
                BY <3>2, <3>3, <3>5 DEF StagedIsCurrent, Wrote
            <4>3. handle # "none" /\ sawFile
                BY <3>2, <4>2 DEF AppendsToFile
            <4> QED
                BY <3>1, <3>3, <4>1, <4>2, <4>3 DEF RecordsReadable
        <3> QED
            BY <3>4, <3>5
    <2>3. RecordsReadable'
        BY <2>2 DEF RecordsReadable
    <2> QED
        BY <1>0, <2>1, <2>3
<1> QED
    BY <1>1, <1>2, <1>3, <1>4, <1>5, <1>6, <1>7 DEF Flush

LEMMA ReadableOthers ==
    /\ IInv
    /\ \/ Compact \/ SyncCall \/ SyncFile \/ SyncFails \/ SyncClosed \/ CloseCall \/ CloseMark
       \/ ProcessCrash \/ \E img \in Images : PowerLoss(img)
       \/ OpenNew \/ OpenV1 \/ \E log \in HealedLogs(file.log) : OpenV2(log)
    => IInv'
<1> USE DEF IInv
<1>1. ASSUME IInv, Compact \/ SyncCall \/ SyncFile \/ SyncFails \/ SyncClosed \/ CloseCall
                   \/ CloseMark
      PROVE  IInv'
    <2>1. TypeOK'
        BY <1>1, TypeCalls
    <2>2. /\ UNCHANGED <<memVars, st, file, sawFile>>
          /\ handle' # "none" /\ handle # "none"
        BY <1>1 DEF Compact, SyncCall, SyncFile, SyncFails, SyncClosed, CloseCall,
                    CloseMark, flagVars, diskVars, memVars
    <2> QED
        BY <1>1, <2>1, <2>2
        DEF StagedIsCurrent, AppendsToFile, WrittenInPlace, RecordsReadable,
            FlushInProgress, memVars
<1>2. ASSUME IInv, ProcessCrash \/ \E img \in Images : PowerLoss(img)
      PROVE  IInv'
    <2>1. TypeOK'
        BY <1>2, TypeCrash
    <2>2. handle' = "none" /\ st' = Idle
        BY <1>2 DEF ProcessCrash, PowerLoss, ForgetMemory
    <2> QED
        BY <2>1, <2>2, IdleType
        DEF StagedIsCurrent, AppendsToFile, WrittenInPlace, RecordsReadable,
            FlushInProgress
<1>3. ASSUME IInv, OpenNew \/ OpenV1
      PROVE  IInv'
    <2>1. TypeOK'
        BY <1>3, TypeOpen
    <2>2. ~sawFile' /\ st' = Idle
        BY <1>3 DEF OpenNew, OpenV1, OpenedFresh
    <2> QED
        BY <2>1, <2>2, IdleType
        DEF StagedIsCurrent, AppendsToFile, WrittenInPlace, RecordsReadable,
            FlushInProgress
<1>4. ASSUME IInv, NEW log \in HealedLogs(file.log), OpenV2(log)
      PROVE  IInv'
    <2>1. TypeOK'
        BY <1>4, TypeOpen
    <2>2. log \in Log
        BY <1>4, HealedType DEF TypeOK, DiskOK, Image
    <2>3. /\ st' = Idle /\ file'.log = log
          /\ mem' = Replay(log) /\ recOff' = [k \in Key |-> RecordOf(log, k)]
        BY <1>4 DEF OpenV2, OpenedFresh, TypeOK, DiskOK, Image
    <2>4. RecordsReadable'
        BY <2>2, <2>3, RecordOfHolds DEF RecordsReadable, Replay
    <2> QED
        BY <2>1, <2>3, <2>4, IdleType
        DEF StagedIsCurrent, AppendsToFile, WrittenInPlace, FlushInProgress
<1> QED
    BY <1>1, <1>2, <1>3, <1>4

\* The record an entry would be read from, were it to leave the cache, holds
\* its document: a flush that installs offsets while mutations run beside it
\* never leaves a clean entry with the offset of an older version
\* (file.go:538-612, cache.go:43-84).
THEOREM RecordsAlwaysReadable == Spec => []RecordsReadable
<1>1. Init => IInv
    BY TypeInit, IdleType
    DEF IInv, Init, StagedIsCurrent, AppendsToFile, WrittenInPlace,
        RecordsReadable, FlushInProgress
<1>2. IInv /\ [Next]_vars => IInv'
    <2>1. IInv /\ UNCHANGED vars => IInv'
        BY TypeNext
        DEF IInv, StagedIsCurrent, AppendsToFile, WrittenInPlace,
            RecordsReadable, FlushInProgress, vars, memVars, flagVars, diskVars
    <2> QED
        BY <2>1, ReadableMutate, ReadableFlush, ReadableOthers DEF Next
<1>3. IInv => RecordsReadable
    BY DEF IInv
<1> QED
    BY <1>1, <1>2, <1>3, PTL DEF Spec

-----------------------------------------------------------------------------
(* No mutation is forgotten: the invariant                                 *)
(*                                                                         *)
(* Every key is on file as it is in memory unless its entry is marked or   *)
(* its DEL is queued. While a flush is writing this is about the marks and *)
(* the queue as the bookkeeping will leave them.                           *)

DelKeys == {d.key : d \in pendingDels}

KeptDelKeys == {d.key : d \in KeptDels}

MarkedIsThere == \A k \in Key : mod[k] => mem[k] # NoVal

\* A key that was stored again after its DEL was queued is marked, and later.
DelsInOrder ==
    \A d \in pendingDels :
        /\ d.gen <= dirtyGen
        /\ mem[d.key] # NoVal => mod[d.key] /\ mutGen[d.key] > d.gen

StagedCommitted == FlushInProgress => st.batch.end = "commit"

\* The DELs of an append are those that were queued when it was prepared.
StagedDels ==
    FlushInProgress /\ ~st.full =>
        /\ \A d \in pendingDels : d.gen <= st.gen => d.key \in st.batch.dels
        /\ st.batch.dels \subseteq DelKeys

\* What the flush writes and was deleted since has a DEL of a later generation.
LateDeletes ==
    FlushInProgress =>
        \A k \in Key :
            mem[k] = NoVal /\ st.batch.docs[k] # NoVal =>
                \E d \in pendingDels : d.key = k /\ d.gen > st.gen

RewriteAlone == st.pc = "written" /\ st.full => file.log = <<st.batch>>

CleanOnFile ==
    handle # "none" /\ sawFile /\ exposed = {} /\ st.pc # "written" =>
        \A k \in Key :
            ~mod[k] /\ k \notin DelKeys => ReplayKey(file.log, k) = mem[k]

AppliedOnFile ==
    exposed = {} /\ st.pc = "written" =>
        \A k \in Key :
            ~StillMarked(k) /\ k \notin KeptDelKeys /\ k \notin DroppedDeletes =>
                ReplayKey(file.log, k) = mem[k]

CleanStore ==
    handle # "none" /\ ~dirty =>
        /\ sawFile
        /\ pendingDels = {}
        /\ \A k \in Key : ~mod[k]

CInv ==
    /\ IInv
    /\ MarkedIsThere
    /\ DelsInOrder
    /\ StagedCommitted
    /\ StagedDels
    /\ LateDeletes
    /\ RewriteAlone
    /\ CleanOnFile
    /\ AppliedOnFile
    /\ CleanStore

-----------------------------------------------------------------------------
(* What a log says after one more batch *)

\* A file a rewrite has made holds the documents of its one batch.
LEMMA RewriteReplay ==
    ASSUME NEW b \in Batch, b.end = "commit", NEW k \in Key
    PROVE  ReplayKey(<<b>>, k) = b.docs[k]
<1> DEFINE log == <<b>>
<1>1. Len(log) = 1 /\ log[1] = b
    OBVIOUS
<1>2. Committed(log) = {1}
    BY <1>1 DEF Committed
<1>3. CASE Mentions(b, k)
    <2>1. Newest(log, k) = {1}
        BY <1>1, <1>2, <1>3 DEF Newest
    <2> QED
        BY <1>1, <2>1 DEF ReplayKey
<1>4. CASE ~Mentions(b, k)
    <2>1. Newest(log, k) = {}
        BY <1>1, <1>2, <1>4 DEF Newest
    <2> QED
        BY <1>4, <2>1 DEF ReplayKey, Mentions
<1> QED
    BY <1>3, <1>4

\* Two logs that agree on the newest record of a key agree on the key.
LEMMA SameNewest ==
    ASSUME NEW log \in Log, NEW b \in Batch, NEW k \in Key,
           Newest(Append(log, b), k) = Newest(log, k)
    PROVE  ReplayKey(Append(log, b), k) = ReplayKey(log, k)
<1>1. CASE Newest(log, k) = {}
    BY <1>1 DEF ReplayKey
<1>2. CASE Newest(log, k) # {}
    <2> DEFINE i == CHOOSE j \in Newest(log, k) : TRUE
    <2>1. i \in Newest(log, k)
        BY <1>2
    <2>2. i \in 1..Len(log)
        BY <2>1 DEF Newest, Committed
    <2>3. Append(log, b)[i] = log[i]
        BY <2>2, AppendType
    <2> QED
        BY <1>2, <2>3 DEF ReplayKey
<1> QED
    BY <1>1, <1>2

\* Appending a batch that wakes no tail changes what it mentions, no more.
LEMMA AppendReplay ==
    ASSUME NEW log \in Log, NEW b \in Batch, b.end = "commit",
           ~WakesTail(log, b), NEW k \in Key
    PROVE  ReplayKey(Append(log, b), k) =
               IF Mentions(b, k) THEN b.docs[k] ELSE ReplayKey(log, k)
<1> DEFINE n == Len(log)
           new == Append(log, b)
<1>1. /\ n \in Nat /\ Len(new) = n + 1 /\ new[n + 1] = b
      /\ \A i \in 1..n : new[i] = log[i]
    BY AppendType, LenProperties DEF Log
<1> HIDE DEF new, n
<1>2. Committed(new) = 1..(n + 1)
    BY <1>1 DEF Committed
<1>3. CASE Mentions(b, k)
    <2>1. Newest(new, k) = {n + 1}
        BY <1>1, <1>2, <1>3 DEF Newest
    <2> QED
        BY <1>1, <1>3, <2>1 DEF ReplayKey, new
<1>4. CASE ~Mentions(b, k)
    <2>1. \A i \in 1..n : Mentions(log[i], k) => i \in Committed(log)
        BY <1>4 DEF WakesTail, n
    <2>2. Committed(log) \subseteq 1..n
        BY DEF Committed, n
    <2>3. \A i : i \in Committed(new) /\ Mentions(new[i], k) <=>
                 i \in Committed(log) /\ Mentions(log[i], k)
        BY <1>1, <1>2, <1>4, <2>1, <2>2
    <2>4. Newest(new, k) = Newest(log, k)
        BY <2>3 DEF Newest
    <2> QED
        BY <1>4, <2>4, SameNewest DEF new
<1> QED
    BY <1>3, <1>4

\* A part of a batch, with no COMMIT after it, changes nothing.
LEMMA PartReplay ==
    ASSUME NEW log \in Log, NEW p \in Batch, p.end # "commit", NEW k \in Key
    PROVE  ReplayKey(Append(log, p), k) = ReplayKey(log, k)
<1> DEFINE n == Len(log)
           new == Append(log, p)
<1>1. /\ n \in Nat /\ Len(new) = n + 1 /\ new[n + 1] = p
      /\ \A i \in 1..n : new[i] = log[i]
    BY AppendType, LenProperties DEF Log
<1> HIDE DEF new, n
<1>2. Committed(new) = Committed(log)
    <2>1. \A i \in 1..(n + 1) :
              (\E j \in i..(n + 1) : new[j].end = "commit") <=>
              i \in 1..n /\ \E j \in i..n : log[j].end = "commit"
        <3> SUFFICES ASSUME NEW i \in 1..(n + 1)
                     PROVE  (\E j \in i..(n + 1) : new[j].end = "commit") <=>
                            i \in 1..n /\ \E j \in i..n : log[j].end = "commit"
            OBVIOUS
        <3>1. ASSUME NEW j \in i..(n + 1), new[j].end = "commit"
              PROVE  j \in i..n /\ i \in 1..n /\ log[j].end = "commit"
            <4>1. j # n + 1
                BY <1>1, <3>1
            <4>2. j \in 1..n /\ j \in i..n /\ i \in 1..n
                BY <1>1, <3>1, <4>1
            <4> QED
                BY <1>1, <3>1, <4>2
        <3>2. ASSUME NEW j \in i..n, i \in 1..n, log[j].end = "commit"
              PROVE  j \in i..(n + 1) /\ new[j].end = "commit"
            <4>1. j \in 1..n /\ j \in i..(n + 1)
                BY <1>1, <3>2
            <4> QED
                BY <1>1, <3>2, <4>1
        <3> QED
            BY <3>1, <3>2
    <2> QED
        BY <1>1, <2>1 DEF Committed, n
<1>3. \A i \in Committed(log) : new[i] = log[i]
    BY <1>1 DEF Committed, n
<1>4. Newest(new, k) = Newest(log, k)
    BY <1>2, <1>3 DEF Newest
<1> QED
    BY <1>4, SameNewest DEF new

-----------------------------------------------------------------------------
(* The steps *)

\* Storing a document marks it with a generation no flush has seen.
LEMMA CompletesStore ==
    ASSUME CInv, NEW k \in Key, NEW v \in Val, Store(k, v), IInv'
    PROVE  CInv'
<1> USE DEF CInv
<1>1. /\ dirtyGen' = dirtyGen + 1 /\ dirtyGen \in Nat /\ st.gen \in Nat
      /\ st.gen <= dirtyGen
      /\ dirty' /\ pendingDels' = pendingDels /\ st' = st /\ file' = file
      /\ handle' = handle /\ sawFile' = sawFile /\ exposed' = exposed
    BY DEF Store, MarkDirty, diskVars, ghostVars, IInv, TypeOK, FlagsOK,
           CallsOK, CountersOK
<1>2. /\ mem'[k] = v /\ v # NoVal /\ mod'[k] /\ mutGen'[k] = dirtyGen + 1
      /\ \A j \in Key \ {k} : /\ mem'[j] = mem[j] /\ mod'[j] = mod[j]
                              /\ mutGen'[j] = mutGen[j]
    BY NoValAssumption DEF Store, IInv, TypeOK, MemoryOK, View
<1>3. MarkedIsThere'
    BY <1>2 DEF MarkedIsThere
<1>4. DelsInOrder'
    <2> SUFFICES ASSUME NEW d \in pendingDels
                 PROVE  /\ d.gen <= dirtyGen'
                        /\ mem'[d.key] # NoVal =>
                               mod'[d.key] /\ mutGen'[d.key] > d.gen
        BY <1>1 DEF DelsInOrder
    <2>1. d.gen <= dirtyGen /\ d.gen \in Nat /\ d.key \in Key
        BY DEF DelsInOrder, IInv, TypeOK, MemoryOK
    <2>2. CASE d.key = k
        <3>1. d.gen <= dirtyGen' /\ mutGen'[k] > d.gen
            BY <1>1, <1>2, <2>1
        <3> QED
            BY <1>2, <2>2, <3>1
    <2>3. CASE d.key # k
        <3>1. d.gen <= dirtyGen'
            BY <1>1, <2>1
        <3> QED
            BY <1>2, <2>1, <2>3, <3>1 DEF DelsInOrder
    <2> QED
        BY <2>2, <2>3
<1>5. StagedCommitted' /\ StagedDels' /\ RewriteAlone'
    BY <1>1 DEF StagedCommitted, StagedDels, RewriteAlone, FlushInProgress,
                DelKeys
<1>6. LateDeletes'
    BY <1>1, <1>2 DEF LateDeletes, FlushInProgress
<1>7. CleanOnFile' /\ CleanStore'
    BY <1>1, <1>2 DEF CleanOnFile, CleanStore, DelKeys
<1>8. AppliedOnFile'
    <2> SUFFICES ASSUME exposed = {}, st.pc = "written", NEW j \in Key,
                        ~StillMarked(j)', j \notin KeptDelKeys',
                        j \notin DroppedDeletes'
                 PROVE  ReplayKey(file.log, j) = mem'[j]
        BY <1>1 DEF AppliedOnFile
    <2>1. j # k
        <3>1. ~(mutGen'[k] <= st.gen)
            BY <1>1, <1>2
        <3> QED
            BY <1>1, <1>2, <3>1 DEF StillMarked
    <2>2. ~StillMarked(j)
        BY <1>1, <1>2, <2>1 DEF StillMarked, Wrote
    <2>3. j \notin KeptDelKeys
        BY <1>1 DEF KeptDelKeys, KeptDels
    <2>4. j \notin DroppedDeletes
        BY <1>1, <1>2, <2>1 DEF DroppedDeletes
    <2> QED
        BY <1>2, <2>1, <2>2, <2>3, <2>4 DEF AppliedOnFile
<1> QED
    BY <1>3, <1>4, <1>5, <1>6, <1>7, <1>8

\* Deleting a document queues its DEL, or leaves nothing on file to delete.
LEMMA CompletesDelete ==
    ASSUME CInv, NEW k \in Key, Delete(k), IInv'
    PROVE  CInv'
<1> DEFINE new == [key |-> k, gen |-> dirtyGen + 1]
<1> USE DEF CInv
<1>1. /\ dirtyGen' = dirtyGen + 1 /\ dirtyGen \in Nat /\ st.gen \in Nat
      /\ st.gen <= dirtyGen
      /\ dirty' /\ st' = st /\ file' = file
      /\ handle' = handle /\ sawFile' = sawFile /\ exposed' = exposed
    BY DEF Delete, MarkDirty, diskVars, ghostVars, IInv, TypeOK, FlagsOK,
           CallsOK, CountersOK
<1>2. /\ mem'[k] = NoVal /\ ~mod'[k]
      /\ \A j \in Key \ {k} : /\ mem'[j] = mem[j] /\ mod'[j] = mod[j]
                              /\ mutGen'[j] = mutGen[j]
    BY DEF Delete, IInv, TypeOK, MemoryOK, View
<1>3. /\ QueuesDel => pendingDels' = pendingDels \union {new}
      /\ ~QueuesDel => pendingDels' = pendingDels
    BY DEF Delete
<1> HIDE DEF new
<1>4. new.key = k /\ new.gen = dirtyGen + 1 /\ new.gen > st.gen
    BY <1>1 DEF new
<1>5. MarkedIsThere'
    BY <1>2 DEF MarkedIsThere
<1>6. DelsInOrder'
    <2> SUFFICES ASSUME NEW d \in pendingDels'
                 PROVE  /\ d.gen <= dirtyGen'
                        /\ mem'[d.key] # NoVal =>
                               mod'[d.key] /\ mutGen'[d.key] > d.gen
        BY DEF DelsInOrder
    <2>1. CASE d = new
        BY <1>1, <1>2, <1>4, <2>1
    <2>2. CASE d \in pendingDels
        <3>1. d.gen <= dirtyGen /\ d.gen \in Nat /\ d.key \in Key
            BY <2>2 DEF DelsInOrder, IInv, TypeOK, MemoryOK
        <3>2. d.gen <= dirtyGen'
            BY <1>1, <3>1
        <3> QED
            BY <1>2, <2>2, <3>1, <3>2 DEF DelsInOrder
    <2> QED
        BY <1>3, <2>1, <2>2
<1>7. StagedCommitted' /\ RewriteAlone'
    BY <1>1 DEF StagedCommitted, RewriteAlone, FlushInProgress
<1>8. StagedDels'
    <2> SUFFICES ASSUME FlushInProgress, ~st.full
                 PROVE  /\ \A d \in pendingDels' :
                               d.gen <= st.gen => d.key \in st.batch.dels
                        /\ st.batch.dels \subseteq DelKeys'
        BY <1>1 DEF StagedDels, FlushInProgress
    <2>1. ~(new.gen <= st.gen)
        BY <1>1, <1>4
    <2> QED
        BY <1>3, <2>1 DEF StagedDels, DelKeys
<1>9. LateDeletes'
    <2> SUFFICES ASSUME FlushInProgress, NEW j \in Key, mem'[j] = NoVal,
                        st.batch.docs[j] # NoVal
                 PROVE  \E d \in pendingDels' : d.key = j /\ d.gen > st.gen
        BY <1>1 DEF LateDeletes, FlushInProgress
    <2>1. pendingDels' = pendingDels \union {new}
        BY <1>3 DEF QueuesDel
    <2>2. CASE j = k
        BY <1>4, <2>1, <2>2
    <2>3. CASE j # k
        BY <1>2, <2>1, <2>3 DEF LateDeletes
    <2> QED
        BY <2>2, <2>3
<1>10. CleanOnFile' /\ CleanStore'
    <2>1. CleanStore'
        BY <1>1 DEF CleanStore
    <2> SUFFICES ASSUME handle # "none", sawFile, exposed = {},
                        st.pc # "written", NEW j \in Key, ~mod'[j],
                        j \notin DelKeys'
                 PROVE  ReplayKey(file.log, j) = mem'[j]
        BY <1>1, <2>1 DEF CleanOnFile
    <2>2. pendingDels' = pendingDels \union {new}
        BY <1>3 DEF QueuesDel
    <2>3. j # k /\ j \notin DelKeys
        BY <1>4, <2>2 DEF DelKeys
    <2> QED
        BY <1>2, <2>3 DEF CleanOnFile
<1>11. AppliedOnFile'
    <2> SUFFICES ASSUME exposed = {}, st.pc = "written", NEW j \in Key,
                        ~StillMarked(j)', j \notin KeptDelKeys',
                        j \notin DroppedDeletes'
                 PROVE  ReplayKey(file.log, j) = mem'[j]
        BY <1>1 DEF AppliedOnFile
    <2>1. FlushInProgress /\ pendingDels' = pendingDels \union {new}
        BY <1>3 DEF QueuesDel, FlushInProgress
    <2>2. CASE j # k
        <3>1. ~StillMarked(j)
            BY <1>1, <1>2, <2>2 DEF StillMarked, Wrote
        <3>2. j \notin KeptDelKeys
            BY <1>1, <2>1 DEF KeptDelKeys, KeptDels
        <3>3. j \notin DroppedDeletes
            BY <1>1, <1>2, <2>1, <2>2 DEF DroppedDeletes
        <3> QED
            BY <1>2, <2>2, <3>1, <3>2, <3>3 DEF AppliedOnFile
    <2>3. CASE j = k
        <3>1. st.full
            BY <1>1, <1>4, <2>1, <2>3 DEF KeptDelKeys, KeptDels
        <3>2. st.batch.docs[k] = NoVal
            BY <1>1, <1>2, <1>4, <2>1, <2>3, <3>1 DEF DroppedDeletes
        <3>3. st.batch \in Batch
            BY DEF IInv, TypeOK, CallsOK
        <3>4. file.log = <<st.batch>> /\ st.batch.end = "commit"
            BY <2>1, <3>1 DEF RewriteAlone, StagedCommitted
        <3> QED
            BY <1>2, <2>3, <3>2, <3>3, <3>4, RewriteReplay
    <2> QED
        BY <2>2, <2>3
<1> QED
    BY <1>5, <1>6, <1>7, <1>8, <1>9, <1>10, <1>11

\* The snapshot takes the marks and the queue as they are.
LEMMA CompletesBegin ==
    ASSUME CInv, NEW who \in Callers, FlushBegin(who), IInv'
    PROVE  CInv'
<1> USE DEF CInv
<1>1. /\ st.pc = "idle" /\ st'.pc = "staged" /\ st'.gen = dirtyGen
      /\ st'.full = NeedsRewrite /\ st'.batch = StagedBatch
      /\ UNCHANGED <<memVars, handle, dirty, dirtyGen, sawFile, file, exposed>>
    BY DEF FlushBegin, diskVars
<1>2. /\ StagedBatch.end = "commit"
      /\ ~NeedsRewrite => StagedBatch.dels = DelKeys
      /\ \A k \in Key : mem[k] = NoVal => StagedBatch.docs[k] = NoVal
    BY DEF StagedBatch, DelKeys
<1>3. MarkedIsThere' /\ DelsInOrder' /\ StagedCommitted' /\ RewriteAlone'
    BY <1>1, <1>2 DEF MarkedIsThere, DelsInOrder, StagedCommitted,
                      RewriteAlone, memVars
<1>4. StagedDels'
    BY <1>1, <1>2 DEF StagedDels, DelKeys, memVars
<1>5. LateDeletes'
    BY <1>1, <1>2 DEF LateDeletes, memVars
<1>6. CleanOnFile' /\ CleanStore' /\ AppliedOnFile'
    BY <1>1 DEF CleanOnFile, CleanStore, AppliedOnFile, DelKeys, memVars
<1> QED
    BY <1>3, <1>4, <1>5, <1>6

\* What an entry that is not marked past the snapshot holds was written.
LEMMA SettledIsWritten ==
    ASSUME IInv, FlushInProgress, NEW k \in Key, mem[k] # NoVal, ~StillMarked(k)
    PROVE  \/ st.batch.docs[k] = mem[k]
           \/ ~st.full /\ ~mod[k] /\ st.batch.docs[k] = NoVal
<1>1. mutGen[k] <= st.gen
    BY DEF IInv, StagedIsCurrent, StillMarked
<1> QED
    BY <1>1 DEF IInv, StagedIsCurrent

LEMMA CompletesWriteFull ==
    ASSUME CInv, WriteFull, IInv'
    PROVE  CInv'
<1> USE DEF CInv
<1>1. /\ st.pc = "staged" /\ st.full /\ FlushInProgress
      /\ st' = [st EXCEPT !.pc = "written", !.at = 1]
      /\ file'.log = <<st.batch>>
      /\ UNCHANGED <<memVars, handle, dirty, dirtyGen, sawFile, exposed>>
    BY DEF WriteFull, FlushInProgress, flagVars, ghostVars
<1>2. /\ st'.pc = "written" /\ st'.full = st.full /\ st'.gen = st.gen
      /\ st'.batch = st.batch
    BY <1>1 DEF IInv, TypeOK, CallsOK
<1>3. st.batch \in Batch /\ st.batch.end = "commit"
    BY <1>1 DEF IInv, TypeOK, CallsOK, StagedCommitted
<1>4. MarkedIsThere' /\ DelsInOrder' /\ StagedCommitted' /\ RewriteAlone'
    BY <1>1, <1>2, <1>3 DEF MarkedIsThere, DelsInOrder, StagedCommitted,
                            RewriteAlone, memVars
<1>5. StagedDels' /\ LateDeletes'
    BY <1>1, <1>2 DEF StagedDels, LateDeletes, memVars
<1>6. CleanOnFile' /\ CleanStore'
    BY <1>1, <1>2 DEF CleanOnFile, CleanStore, memVars
<1>7. AppliedOnFile'
    <2> SUFFICES ASSUME NEW k \in Key, ~StillMarked(k)',
                        k \notin DroppedDeletes'
                 PROVE  st.batch.docs[k] = mem[k]
        BY <1>1, <1>3, RewriteReplay DEF AppliedOnFile, memVars
    <2>1. ~StillMarked(k) /\ k \notin DroppedDeletes
        BY <1>1, <1>2 DEF StillMarked, Wrote, DroppedDeletes, memVars
    <2>2. CASE mem[k] = NoVal
        BY <1>1, <2>1, <2>2 DEF LateDeletes, DroppedDeletes
    <2>3. CASE mem[k] # NoVal
        BY <1>1, <2>1, <2>3, SettledIsWritten
    <2> QED
        BY <2>2, <2>3
<1> QED
    BY <1>4, <1>5, <1>6, <1>7

LEMMA CompletesWriteAppend ==
    ASSUME CInv, WriteAppend, IInv'
    PROVE  CInv'
<1> USE DEF CInv
<1>1. /\ st.pc = "staged" /\ ~st.full /\ FlushInProgress
      /\ st' = [st EXCEPT !.pc = "written", !.at = Len(file.log) + 1]
      /\ file' = [file EXCEPT !.log = Append(@, st.batch)]
      /\ exposed' = exposed \union TailExposure(st.batch)
      /\ UNCHANGED <<memVars, handle, dirty, dirtyGen, sawFile>>
    BY DEF WriteAppend, FlushInProgress, flagVars
<1>2. /\ st'.pc = "written" /\ st'.full = st.full /\ st'.gen = st.gen
      /\ st'.batch = st.batch
    BY <1>1 DEF IInv, TypeOK, CallsOK
<1>3. /\ st.batch \in Batch /\ st.batch.end = "commit" /\ file.log \in Log
      /\ file'.log = Append(file.log, st.batch)
    BY <1>1 DEF IInv, TypeOK, CallsOK, DiskOK, Image, StagedCommitted
<1>4. handle # "none" /\ sawFile
    BY <1>1 DEF IInv, AppendsToFile
<1>5. MarkedIsThere' /\ DelsInOrder' /\ StagedCommitted' /\ RewriteAlone'
    BY <1>1, <1>2, <1>3 DEF MarkedIsThere, DelsInOrder, StagedCommitted,
                            RewriteAlone, memVars
<1>6. StagedDels' /\ LateDeletes'
    BY <1>1, <1>2 DEF StagedDels, LateDeletes, DelKeys, FlushInProgress, memVars
<1>7. CleanOnFile' /\ CleanStore'
    BY <1>1, <1>2 DEF CleanOnFile, CleanStore, memVars
<1>8. AppliedOnFile'
    <2> SUFFICES ASSUME exposed = {}, ~WakesTail(file.log, st.batch),
                        NEW k \in Key, ~StillMarked(k)', k \notin KeptDelKeys'
                 PROVE  ReplayKey(Append(file.log, st.batch), k) = mem[k]
        BY <1>1, <1>3 DEF AppliedOnFile, TailExposure, memVars
    <2>1. ~StillMarked(k)
        BY <1>1, <1>2 DEF StillMarked, Wrote, memVars
    <2>2. \A d \in pendingDels : d.key = k =>
              st.batch.dels # {} /\ ~(d.gen > st.gen)
        BY <1>1, <1>2 DEF KeptDelKeys, KeptDels, memVars
    <2>3. Mentions(st.batch, k) => st.batch.docs[k] = mem[k]
        <3>1. CASE mem[k] = NoVal
            BY <1>1, <2>2, <3>1 DEF LateDeletes
        <3>2. CASE mem[k] # NoVal
            <4>1. CASE st.batch.docs[k] = mem[k]
                BY <4>1
            <4>2. CASE ~mod[k] /\ st.batch.docs[k] = NoVal
                BY <1>1, <3>2, <4>2
                DEF Mentions, StagedDels, DelKeys, DelsInOrder
            <4> QED
                BY <1>1, <2>1, <3>2, <4>1, <4>2, SettledIsWritten
        <3> QED
            BY <3>1, <3>2
    <2>4. ~Mentions(st.batch, k) => ReplayKey(file.log, k) = mem[k]
        <3> SUFFICES ASSUME ~Mentions(st.batch, k)
                     PROVE  ~mod[k] /\ k \notin DelKeys
            BY <1>1, <1>4 DEF CleanOnFile
        <3>1. k \notin DelKeys
            <4> SUFFICES ASSUME NEW d \in pendingDels, d.key = k
                         PROVE  FALSE
                BY DEF DelKeys
            <4>1. d.gen \in Nat /\ st.gen \in Nat
                BY DEF IInv, TypeOK, MemoryOK, CallsOK
            <4>2. d.gen <= st.gen
                BY <2>2, <4>1
            <4> QED
                BY <1>1, <4>2 DEF StagedDels, Mentions
        <3>2. ~mod[k]
            <4>1. CASE mem[k] = NoVal
                BY <4>1 DEF MarkedIsThere
            <4>2. CASE mem[k] # NoVal
                BY <1>1, <2>1, <4>2, SettledIsWritten DEF Mentions
            <4> QED
                BY <4>1, <4>2
        <3> QED
            BY <3>1, <3>2
    <2> QED
        BY <1>3, <2>3, <2>4, AppendReplay
<1> QED
    BY <1>5, <1>6, <1>7, <1>8

\* A write that failed, leaving nothing or a part of its batch at the end.
LEMMA CompletesFailure ==
    ASSUME CInv, IInv',
           WriteFails \/ \E p \in Parts(st.batch) : WriteStopsShort(p)
    PROVE  CInv'
<1> USE DEF CInv
<1>1. /\ st.pc = "staged" /\ st' = Idle /\ Idle.pc = "idle"
      /\ UNCHANGED <<memVars, handle, dirty, dirtyGen, sawFile>>
    BY IdleType DEF WriteFails, WriteStopsShort, flagVars
<1>2. /\ exposed' = {} => exposed = {}
      /\ \A k \in Key : ReplayKey(file'.log, k) = ReplayKey(file.log, k)
    <2>1. CASE WriteFails
        BY <2>1 DEF WriteFails, diskVars, ghostVars
    <2>2. ASSUME NEW p \in Parts(st.batch), WriteStopsShort(p)
          PROVE  /\ exposed' = {} => exposed = {}
                 /\ \A k \in Key :
                        ReplayKey(file'.log, k) = ReplayKey(file.log, k)
        <3>1. file.log \in Log /\ st.batch \in Batch
            BY DEF IInv, TypeOK, DiskOK, Image, CallsOK
        <3>2. p \in Batch /\ p.end # "commit"
            BY <3>1, PartsType DEF Parts
        <3>3. file'.log = Append(file.log, p)
            BY <2>2 DEF WriteStopsShort, IInv, TypeOK, DiskOK, Image
        <3>4. exposed' = {} => exposed = {}
            BY <2>2 DEF WriteStopsShort
        <3> QED
            BY <3>1, <3>2, <3>3, <3>4, PartReplay
    <2> QED
        BY <2>1, <2>2
<1>3. MarkedIsThere' /\ DelsInOrder' /\ CleanStore'
    BY <1>1 DEF MarkedIsThere, DelsInOrder, CleanStore, memVars
<1>4. StagedCommitted' /\ StagedDels' /\ LateDeletes' /\ RewriteAlone'
      /\ AppliedOnFile'
    BY <1>1 DEF StagedCommitted, StagedDels, LateDeletes, RewriteAlone,
                AppliedOnFile, FlushInProgress
<1>5. CleanOnFile'
    BY <1>1, <1>2 DEF CleanOnFile, DelKeys, memVars
<1> QED
    BY <1>3, <1>4, <1>5

\* The bookkeeping cleans what was written and nothing that came later.
LEMMA CompletesApply ==
    ASSUME CInv, ApplyFlushed, IInv'
    PROVE  CInv'
<1> USE DEF CInv
<1>1. /\ st.pc = "written" /\ FlushInProgress /\ st' = Idle /\ Idle.pc = "idle"
      /\ pendingDels' = KeptDels /\ sawFile' /\ dirty' = StillDirty
      /\ exposed' = {} => exposed = {} /\ DroppedDeletes = {}
      /\ \A k \in Key : mod'[k] = StillMarked(k)
      /\ UNCHANGED <<mem, mutGen, handle, dirtyGen, file>>
    BY IdleType DEF ApplyFlushed, FlushInProgress, diskVars
<1>2. st.gen \in Nat /\ \A k \in Key : mutGen[k] \in Nat
    BY DEF IInv, TypeOK, CallsOK, MemoryOK
<1>3. ASSUME NEW d \in KeptDels
      PROVE  /\ d \in pendingDels /\ d.key \in Key /\ d.gen \in Nat
             /\ d.gen > st.gen
    <2>1. d \in pendingDels
        BY DEF KeptDels
    <2>2. d.key \in Key /\ d.gen \in Nat
        BY <2>1 DEF IInv, TypeOK, MemoryOK
    <2>3. d.gen > st.gen
        <3>1. CASE st.batch.dels = {} /\ ~st.full
            <4>1. ~(d.gen <= st.gen)
                BY <1>1, <2>1, <3>1 DEF StagedDels
            <4> QED
                BY <1>2, <2>2, <4>1
        <3> QED
            BY <3>1 DEF KeptDels
    <2> QED
        BY <2>1, <2>2, <2>3
<1>4. MarkedIsThere'
    BY <1>1 DEF MarkedIsThere, StillMarked
<1>5. DelsInOrder'
    <2> SUFFICES ASSUME NEW d \in KeptDels
                 PROVE  /\ d.gen <= dirtyGen
                        /\ mem[d.key] # NoVal =>
                               StillMarked(d.key) /\ mutGen[d.key] > d.gen
        BY <1>1, <1>3 DEF DelsInOrder
    <2>1. /\ d.gen <= dirtyGen
          /\ mem[d.key] # NoVal => mod[d.key] /\ mutGen[d.key] > d.gen
        BY <1>3 DEF DelsInOrder
    <2>2. mutGen[d.key] > d.gen => ~(mutGen[d.key] <= st.gen)
        BY <1>2, <1>3
    <2> QED
        BY <2>1, <2>2 DEF StillMarked
<1>6. StagedCommitted' /\ StagedDels' /\ LateDeletes' /\ RewriteAlone'
      /\ AppliedOnFile'
    BY <1>1 DEF StagedCommitted, StagedDels, LateDeletes, RewriteAlone,
                AppliedOnFile, FlushInProgress
<1>7. CleanOnFile'
    <2> SUFFICES ASSUME exposed = {}, DroppedDeletes = {}, NEW k \in Key,
                        ~StillMarked(k), k \notin KeptDelKeys
                 PROVE  ReplayKey(file.log, k) = mem[k]
        BY <1>1 DEF CleanOnFile, DelKeys, KeptDelKeys
    <2> QED
        BY <1>1 DEF AppliedOnFile
<1>8. CleanStore'
    <2> SUFFICES ASSUME handle # "none", ~StillDirty
                 PROVE  KeptDels = {} /\ \A k \in Key : ~StillMarked(k)
        BY <1>1 DEF CleanStore
    <2>1. CASE ~dirty
        BY <2>1 DEF CleanStore, KeptDels, StillMarked
    <2>2. CASE dirtyGen = st.gen
        <3>1. KeptDels = {}
            <4> SUFFICES ASSUME NEW d \in KeptDels
                         PROVE  FALSE
                OBVIOUS
            <4>1. d.gen <= st.gen
                BY <1>3, <2>2 DEF DelsInOrder
            <4> QED
                BY <1>2, <1>3, <4>1
        <3>2. ASSUME NEW k \in Key, StillMarked(k)
              PROVE  FALSE
            <4>1. mod[k] /\ mem[k] # NoVal
                BY <3>2 DEF StillMarked, MarkedIsThere
            <4>2. mutGen[k] <= st.gen
                BY <2>2 DEF IInv, TypeOK, CountersOK
            <4>3. st.batch.docs[k] = mem[k]
                BY <1>1, <4>1, <4>2 DEF IInv, StagedIsCurrent
            <4> QED
                BY <3>2, <4>1, <4>2, <4>3 DEF StillMarked, Wrote
        <3> QED
            BY <3>1, <3>2
    <2> QED
        BY <2>1, <2>2 DEF StillDirty
<1> QED
    BY <1>4, <1>5, <1>6, <1>7, <1>8

LEMMA CompletesFlush == CInv /\ Flush => CInv'
<1> SUFFICES ASSUME CInv, Flush PROVE CInv'
    OBVIOUS
<1>1. IInv'
    BY ReadableFlush DEF CInv
<1>2. ASSUME NEW who \in Callers, FlushNothing(who)
      PROVE  CInv'
    BY <1>1, <1>2
    DEF FlushNothing, CInv, MarkedIsThere, DelsInOrder, StagedCommitted,
        StagedDels, LateDeletes, RewriteAlone, CleanOnFile, AppliedOnFile,
        CleanStore, FlushInProgress, DelKeys, KeptDelKeys, KeptDels,
        DroppedDeletes, StillMarked, Wrote, memVars, flagVars, diskVars,
        ghostVars
<1> QED
    BY <1>1, <1>2, CompletesBegin, CompletesWriteFull, CompletesWriteAppend,
       CompletesFailure, CompletesApply
    DEF Flush

\* Calls, crashes, and opening what they left.
LEMMA CompletesOthers ==
    /\ CInv
    /\ \/ Compact \/ SyncCall \/ SyncFile \/ SyncFails \/ SyncClosed \/ CloseCall \/ CloseMark
       \/ ProcessCrash \/ \E img \in Images : PowerLoss(img)
       \/ OpenNew \/ OpenV1 \/ \E log \in HealedLogs(file.log) : OpenV2(log)
    => CInv'
<1> USE DEF CInv
<1>1. ASSUME CInv, IInv', Compact \/ SyncCall \/ SyncFile \/ SyncFails \/ SyncClosed
                          \/ CloseCall \/ CloseMark
      PROVE  CInv'
    <2>1. /\ UNCHANGED <<memVars, st, file, sawFile>> /\ handle # "none"
          /\ exposed' = {} => exposed = {}
          /\ ~dirty' => ~dirty
        BY <1>1 DEF Compact, SyncCall, SyncFile, SyncFails, SyncClosed, CloseCall,
                    CloseMark, flagVars, diskVars, memVars, ghostVars
    <2>2. dirtyGen' = dirtyGen \/ dirtyGen' = dirtyGen + 1
        BY <1>1 DEF Compact, SyncCall, SyncFile, SyncFails, SyncClosed, CloseCall,
                    CloseMark, flagVars
    <2>3. DelsInOrder'
        <3> SUFFICES ASSUME NEW d \in pendingDels
                     PROVE  /\ d.gen <= dirtyGen'
                            /\ mem[d.key] # NoVal =>
                                   mod[d.key] /\ mutGen[d.key] > d.gen
            BY <2>1 DEF DelsInOrder, memVars
        <3>1. dirtyGen \in Nat /\ d.gen \in Nat
            BY <1>1 DEF IInv, TypeOK, FlagsOK, MemoryOK
        <3>2. d.gen <= dirtyGen'
            BY <1>1, <2>2, <3>1 DEF DelsInOrder
        <3> QED
            BY <1>1, <3>2 DEF DelsInOrder
    <2>4. MarkedIsThere' /\ StagedCommitted' /\ StagedDels' /\ LateDeletes'
          /\ RewriteAlone'
        BY <1>1, <2>1 DEF MarkedIsThere, StagedCommitted, StagedDels,
            LateDeletes, RewriteAlone, FlushInProgress, DelKeys, memVars
    <2>5. CleanOnFile' /\ CleanStore'
        BY <1>1, <2>1 DEF CleanOnFile, CleanStore, DelKeys, memVars
    <2>6. AppliedOnFile'
        BY <1>1, <2>1 DEF AppliedOnFile, KeptDelKeys, KeptDels, DroppedDeletes,
                          StillMarked, Wrote, memVars
    <2> QED
        BY <1>1, <2>3, <2>4, <2>5, <2>6
\* A store that has just been opened, or that is gone, has nothing to flush.
<1>2. ASSUME IInv', st' = Idle, pendingDels' = {},
             mod' = [k \in Key |-> FALSE], CleanOnFile',
             handle' # "none" /\ ~dirty' => sawFile'
      PROVE  CInv'
    BY <1>2, IdleType
    DEF MarkedIsThere, DelsInOrder, StagedCommitted, StagedDels, LateDeletes,
        RewriteAlone, AppliedOnFile, CleanStore, FlushInProgress
<1>3. ASSUME CInv, IInv', ProcessCrash \/ \E img \in Images : PowerLoss(img)
      PROVE  CInv'
    BY <1>2, <1>3 DEF ProcessCrash, PowerLoss, ForgetMemory, CleanOnFile
<1>4. ASSUME CInv, IInv', OpenNew \/ OpenV1
      PROVE  CInv'
    BY <1>2, <1>4 DEF OpenNew, OpenV1, OpenedFresh, CleanOnFile
<1>5. ASSUME CInv, IInv', NEW log \in HealedLogs(file.log), OpenV2(log)
      PROVE  CInv'
    <2>1. file'.log = log /\ mem' = Replay(log)
        BY <1>5 DEF OpenV2, IInv, TypeOK, DiskOK, Image
    <2>2. CleanOnFile'
        BY <2>1 DEF CleanOnFile, Replay
    <2> QED
        BY <1>2, <1>5, <2>2 DEF OpenV2, OpenedFresh
<1> QED
    BY <1>1, <1>3, <1>4, <1>5, ReadableOthers

-----------------------------------------------------------------------------

LEMMA CompletesFromInvariant == CInv => NextFlushCompletes
<1> SUFFICES ASSUME CInv, handle # "none", st.pc = "idle", exposed = {}
             PROVE  /\ Contents # mem => dirty
                    /\ ~WakesTail(file.log, StagedBatch) => NextContents = mem
    BY DEF NextFlushCompletes
<1> USE DEF CInv
<1>1. /\ file.log \in Log /\ StagedBatch \in Batch
      /\ StagedBatch.end = "commit" /\ mem = [k \in Key |-> mem[k]]
    BY StagedBatchType
    DEF IInv, TypeOK, DiskOK, Image, MemoryOK, View, StagedBatch
<1>2. ~dirty => Contents = mem
    <2> SUFFICES ASSUME ~dirty, NEW k \in Key
                 PROVE  ReplayKey(file.log, k) = mem[k]
        BY <1>1 DEF Contents, Replay
    <2> QED
        BY DEF CleanStore, CleanOnFile, DelKeys
<1>3. CASE NeedsRewrite
    <2>1. \A k \in Key : ReplayKey(<<StagedBatch>>, k) = mem[k]
        BY <1>1, <1>3, RewriteReplay DEF StagedBatch
    <2> QED
        BY <1>1, <1>2, <1>3, <2>1 DEF NextContents, Replay
<1>4. CASE ~NeedsRewrite
    <2>1. ASSUME ~WakesTail(file.log, StagedBatch), NEW k \in Key
          PROVE  ReplayKey(Append(file.log, StagedBatch), k) = mem[k]
        <3>1. /\ StagedBatch.dels = DelKeys
              /\ StagedBatch.docs[k] = IF mod[k] THEN mem[k] ELSE NoVal
            BY <1>4 DEF StagedBatch, DelKeys
        <3>2. CASE mod[k]
            <4>1. StagedBatch.docs[k] = mem[k] /\ Mentions(StagedBatch, k)
                BY <3>1, <3>2 DEF MarkedIsThere, Mentions
            <4> QED
                BY <1>1, <2>1, <4>1, AppendReplay
        <3>3. CASE ~mod[k] /\ k \in DelKeys
            <4>1. mem[k] = NoVal
                BY <3>3 DEF DelKeys, DelsInOrder
            <4>2. StagedBatch.docs[k] = mem[k] /\ Mentions(StagedBatch, k)
                BY <3>1, <3>3, <4>1 DEF Mentions
            <4> QED
                BY <1>1, <2>1, <4>2, AppendReplay
        <3>4. CASE ~mod[k] /\ k \notin DelKeys
            <4>1. ~Mentions(StagedBatch, k)
                BY <3>1, <3>4 DEF Mentions
            <4>2. ReplayKey(file.log, k) = mem[k]
                BY <1>4, <3>4 DEF CleanOnFile, NeedsRewrite
            <4> QED
                BY <1>1, <2>1, <4>1, <4>2, AppendReplay
        <3> QED
            BY <3>2, <3>3, <3>4
    <2> QED
        BY <1>1, <1>2, <1>4, <2>1 DEF NextContents, Replay
<1> QED
    BY <1>3, <1>4

LEMMA CompletesInit == Init => CInv
<1>1. Init => IInv
    BY TypeInit, IdleType
    DEF IInv, Init, StagedIsCurrent, AppendsToFile, WrittenInPlace,
        RecordsReadable, FlushInProgress
<1> QED
    BY <1>1, IdleType
    DEF CInv, Init, MarkedIsThere, DelsInOrder, StagedCommitted, StagedDels,
        LateDeletes, RewriteAlone, CleanOnFile, AppliedOnFile, CleanStore,
        FlushInProgress

LEMMA CompletesNext == CInv /\ [Next]_vars => CInv'
<1>1. ASSUME CInv, UNCHANGED vars
      PROVE  CInv'
    <2>1. IInv'
        BY <1>1, TypeNext
        DEF CInv, IInv, StagedIsCurrent, AppendsToFile, WrittenInPlace,
            RecordsReadable, FlushInProgress, vars, memVars, flagVars,
            diskVars
    <2> QED
        BY <1>1, <2>1
        DEF CInv, MarkedIsThere, DelsInOrder, StagedCommitted, StagedDels,
            LateDeletes, RewriteAlone, CleanOnFile, AppliedOnFile,
            CleanStore, FlushInProgress, DelKeys, KeptDelKeys, KeptDels,
            DroppedDeletes, StillMarked, Wrote, vars, memVars, flagVars,
            diskVars, ghostVars
<1>2. ASSUME CInv, Mutate
      PROVE  CInv'
    <2>1. IInv'
        BY <1>2, ReadableMutate DEF CInv
    <2> QED
        BY <1>2, <2>1, CompletesStore, CompletesDelete
        DEF Mutate, Insert, Upsert, Update
<1> QED
    BY <1>1, <1>2, CompletesFlush, CompletesOthers DEF Next

\* Whatever order mutations and the steps of a flush take s.mu in, and
\* whichever writes fail on the way, no mutation is forgotten between two
\* flushes: what differs between the memory and the file is marked or queued,
\* so the next flush puts it there, until the store runs into one of the known
\* losses (file.go:484-612, store.go:700-708).
THEOREM NoMutationForgotten == Spec => []NextFlushCompletes
<1> QED
    BY CompletesInit, CompletesNext, CompletesFromInvariant, PTL DEF Spec

-----------------------------------------------------------------------------
(* What was answered for survives: the invariant                           *)
(*                                                                         *)
(* None of the three is inductive. FlushSync answers for writeSeq as it    *)
(* was when it was called, after a flush that may be someone else's; Close *)
(* and the bookkeeping of a flush do the same. So the invariant speaks of  *)
(* every count of mutations somebody has been told the file holds, or will *)
(* be told without another flush, and of what the flush in flight will     *)
(* make of them.                                                           *)

\* The mutations the file already has to hold: those counted as durable, those
\* FlushSync has answered for or is about to, those Close has waited for, and
\* all of them when the store is clean.
Owed ==
    {durableSeq, ackSeq}
    \union (IF syncer.pc = "fsync" /\ handle = "open" THEN {syncer.goal} ELSE {})
    \union (IF closer.pc = "mark" \/ handle = "closed" THEN {closer.goal} ELSE {})
    \union (IF ~dirty THEN {writeSeq} ELSE {})

OwedOnFile ==
    handle # "none" /\ exposed = {} =>
        \A n \in Owed : \E s \in snapshots : s.seq >= n /\ s.view = Contents

\* Nobody waits for a mutation that has not happened.
GoalsReached ==
    handle # "none" =>
        ackSeq <= writeSeq /\ syncer.goal <= writeSeq /\ closer.goal <= writeSeq

\* Close runs once, and nobody calls it on a closed store.
ClosedOnce == handle = "closed" => closer.pc = "no"

\* The flush in flight is behind nothing the file holds already, and no older
\* than the call that waits for it.
StagedAhead ==
    FlushInProgress =>
        /\ exposed = {} => \A n \in Owed : st.seq >= n
        /\ st.gen = dirtyGen \/ ~dirty => st.seq = writeSeq
        /\ st.who = "sync" => syncer.pc = "flush" /\ st.seq >= syncer.goal
        /\ st.who = "close" => closer.pc = "flush" /\ st.seq >= closer.goal

\* The file will say what the snapshot saw, once the batch is in it ...
StagedIsSnapshot ==
    st.pc = "staged" /\ exposed = {} =>
        \E s \in snapshots :
            /\ s.seq = st.seq
            /\ \A k \in Key :
                   s.view[k] = IF st.full \/ Mentions(st.batch, k)
                               THEN st.batch.docs[k] ELSE ReplayKey(file.log, k)

\* ... and then it does.
WrittenIsSnapshot ==
    st.pc = "written" /\ exposed = {} =>
        \E s \in snapshots : s.seq = st.seq /\ s.view = Contents

DInv ==
    /\ CInv
    /\ OwedOnFile
    /\ GoalsReached
    /\ ClosedOnce
    /\ StagedAhead
    /\ StagedIsSnapshot
    /\ WrittenIsSnapshot
    /\ CrashAtomic

-----------------------------------------------------------------------------
(* What a disk may hold *)

LEMMA SamePrefix ==
    ASSUME NEW log \in Log, NEW b \in Batch, NEW n \in 0..Len(log)
    PROVE  SubSeq(Append(log, b), 1, n) = SubSeq(log, 1, n)
<1> Len(log) \in Nat
    BY LenProperties DEF Log
<1>1. \A i \in 1..n : Append(log, b)[i] = log[i] /\ log[i] \in Batch
    BY AppendType, ElementOfSeq DEF Log
<1>2. /\ SubSeq(Append(log, b), 1, n) \in Seq(Batch)
      /\ SubSeq(log, 1, n) \in Seq(Batch)
      /\ Len(SubSeq(Append(log, b), 1, n)) = n
      /\ Len(SubSeq(log, 1, n)) = n
      /\ \A i \in 1..n : SubSeq(Append(log, b), 1, n)[i] = SubSeq(log, 1, n)[i]
    BY <1>1, SubSeqProperties
<1> QED
    BY <1>2, SeqEqual

LEMMA CutsMember ==
    ASSUME NEW log, NEW m, NEW cut
    PROVE  cut \in Cuts(log, m) <=>
               \/ \E n \in m..Len(log) : cut = SubSeq(log, 1, n)
               \/ \E n \in (m + 1)..Len(log) : \E p \in Parts(log[n]) :
                      cut = Append(SubSeq(log, 1, n - 1), p)
<1> DEFINE whole == {SubSeq(log, 1, n) : n \in m..Len(log)}
           part(n) == {Append(SubSeq(log, 1, n - 1), p) : p \in Parts(log[n])}
           parts == UNION {part(n) : n \in (m + 1)..Len(log)}
<1>1. cut \in whole <=> \E n \in m..Len(log) : cut = SubSeq(log, 1, n)
    BY Zenon
<1>2. ASSUME NEW n
      PROVE  cut \in part(n) <=>
                 \E p \in Parts(log[n]) : cut = Append(SubSeq(log, 1, n - 1), p)
    BY Zenon
<1> HIDE DEF part
<1>3. cut \in parts <=> \E n \in (m + 1)..Len(log) : cut \in part(n)
    BY Zenon
<1>4. Cuts(log, m) = whole \union parts
    BY Zenon DEF Cuts, part
<1> QED
    BY <1>1, <1>2, <1>3, <1>4, Zenon

\* A disk that loses nothing of a log holds all of it, and nothing else if it
\* was told to keep it all.
LEMMA WholeCut ==
    ASSUME NEW log \in Log
    PROVE  /\ \A m \in 0..Len(log) : log \in Cuts(log, m)
           /\ Cuts(log, Len(log)) = {log}
<1> Len(log) \in Nat
    BY LenProperties DEF Log
<1>1. SubSeq(log, 1, Len(log)) = log
    BY SubSeqFull DEF Log
<1> QED
    BY <1>1, CutsMember

\* What may be left of a log and one more batch: what may be left of the log,
\* all of both, or the log and a part of the batch.
LEMMA CutsOfAppend ==
    ASSUME NEW log \in Log, NEW b \in Batch, NEW m \in 0..Len(log),
           NEW cut \in Cuts(Append(log, b), m)
    PROVE  \/ cut \in Cuts(log, m)
           \/ cut = Append(log, b)
           \/ \E p \in Parts(b) : cut = Append(log, p)
<1> DEFINE new == Append(log, b)
<1>1. /\ Len(log) \in Nat /\ new \in Log /\ Len(new) = Len(log) + 1
      /\ new[Len(log) + 1] = b /\ \A i \in 1..Len(log) : new[i] = log[i]
    BY AppendType, LenProperties DEF Log
<1>2. \A n \in 0..Len(log) : SubSeq(new, 1, n) = SubSeq(log, 1, n)
    BY SamePrefix
<1>3. SubSeq(new, 1, Len(new)) = new /\ SubSeq(log, 1, Len(log)) = log
    BY <1>1, SubSeqFull DEF Log
<1> HIDE DEF new
<1>4. CASE \E n \in m..Len(new) : cut = SubSeq(new, 1, n)
    <2>1. PICK n \in m..Len(new) : cut = SubSeq(new, 1, n)
        BY <1>4
    <2>2. CASE n = Len(new)
        BY <1>3, <2>1, <2>2 DEF new
    <2>3. CASE n # Len(new)
        <3>1. n \in m..Len(log) /\ n \in 0..Len(log)
            BY <1>1, <2>3
        <3>2. cut = SubSeq(log, 1, n)
            BY <1>2, <2>1, <3>1
        <3> QED
            BY <3>1, <3>2, CutsMember
    <2> QED
        BY <2>2, <2>3
<1>5. CASE \E n \in (m + 1)..Len(new) : \E p \in Parts(new[n]) :
               cut = Append(SubSeq(new, 1, n - 1), p)
    <2>1. PICK n \in (m + 1)..Len(new) : \E p \in Parts(new[n]) :
              cut = Append(SubSeq(new, 1, n - 1), p)
        BY <1>5
    <2>2. PICK p \in Parts(new[n]) : cut = Append(SubSeq(new, 1, n - 1), p)
        BY <2>1
    <2>3. n - 1 \in 0..Len(log) /\ SubSeq(new, 1, n - 1) = SubSeq(log, 1, n - 1)
        BY <1>1, <1>2
    <2>4. CASE n = Len(new)
        <3>1. cut = Append(log, p) /\ p \in Parts(b)
            BY <1>1, <1>3, <2>2, <2>3, <2>4
        <3> QED
            BY <3>1
    <2>5. CASE n # Len(new)
        <3>1. n \in (m + 1)..Len(log) /\ new[n] = log[n]
            BY <1>1, <2>5
        <3>2. cut = Append(SubSeq(log, 1, n - 1), p) /\ p \in Parts(log[n])
            BY <2>2, <2>3, <3>1
        <3> QED
            BY <3>1, <3>2, CutsMember
    <2> QED
        BY <2>4, <2>5
<1> QED
    <2>1. cut \in Cuts(new, m)
        BY DEF new
    <2>2. \/ \E n \in m..Len(new) : cut = SubSeq(new, 1, n)
          \/ \E n \in (m + 1)..Len(new) : \E p \in Parts(new[n]) :
                 cut = Append(SubSeq(new, 1, n - 1), p)
        BY <2>1, CutsMember
    <2> QED
        BY <1>4, <1>5, <2>2

\* A part of a batch ends without a COMMIT.
LEMMA PartsEnd ==
    ASSUME NEW b \in Batch, NEW p \in Parts(b)
    PROVE  p \in Batch /\ p.end # "commit"
BY PartsType DEF Parts

LEMMA FileIsImage ==
    ASSUME TypeOK
    PROVE  /\ file \in PathImages /\ PathImages \subseteq Images
           /\ file.log \in Log /\ mark \in 0..Len(file.log)
           /\ file \in Images /\ Images \subseteq Image
<1>1. /\ file \in Image /\ file.log \in Log /\ mark \in 0..Len(file.log)
      /\ prior \subseteq Image
    BY DEF TypeOK, DiskOK, Image
<1>2. file = [fmt |-> file.fmt, log |-> file.log]
    BY <1>1 DEF Image
<1>3. file.log \in Cuts(file.log, mark)
    BY <1>1, WholeCut
<1>4. Images \subseteq Image /\ PathImages \subseteq Images
    BY DiskImages DEF TypeOK
<1> QED
    BY <1>1, <1>2, <1>3, <1>4 DEF PathImages

\* What a crash may leave after an append: what it might have left before, the
\* file with the whole of the batch, or the file with a part of it.
LEMMA ImagesAfterAppend ==
    ASSUME TypeOK, NEW b \in Batch, mark' = mark, prior' = prior,
           file' = [file EXCEPT !.log = Append(@, b)],
           NEW img \in PathImages'
    PROVE  \/ img \in PathImages
           \/ img = file'
           \/ \E p \in Parts(b) :
                  /\ img.log = Append(file.log, p) /\ img.fmt = file.fmt
                  /\ p \in Batch /\ p.end # "commit"
<1>1. /\ file \in Image /\ file.log \in Log /\ mark \in 0..Len(file.log)
      /\ file'.fmt = file.fmt /\ file'.log = Append(file.log, b)
      /\ file' = [fmt |-> file'.fmt, log |-> file'.log]
    BY DEF TypeOK, DiskOK, Image
<1>2. PICK log \in Cuts(Append(file.log, b), mark) :
          img = [fmt |-> file.fmt, log |-> log]
    BY <1>1 DEF PathImages
<1>3. CASE log \in Cuts(file.log, mark)
    BY <1>2, <1>3 DEF PathImages
<1>4. CASE log = Append(file.log, b)
    BY <1>1, <1>2, <1>4
<1>5. CASE \E p \in Parts(b) : log = Append(file.log, p)
    BY <1>2, <1>5, PartsEnd
<1> QED
    BY <1>1, <1>3, <1>4, <1>5, CutsOfAppend

\* A part of a batch, whatever it is a part of, changes no document.
LEMMA PartView ==
    ASSUME NEW log \in Log, NEW p \in Batch, p.end # "commit"
    PROVE  Replay(Append(log, p)) = Replay(log)
BY PartReplay DEF Replay

\* A file that has been synced leaves a crash that undoes no rename one image.
LEMMA FsyncedImages ==
    ASSUME TypeOK, prior' \in {prior, {}}, mark' = Len(file.log), file' = file
    PROVE  PathImages' = {file} /\ Images' \subseteq Images
<1>1. file \in PathImages /\ file.log \in Log /\ PathImages \subseteq Images
      /\ file = [fmt |-> file.fmt, log |-> file.log]
    BY FileIsImage DEF TypeOK, DiskOK, Image
<1>2. Cuts(file.log, Len(file.log)) = {file.log}
    BY <1>1, WholeCut
<1>3. PathImages' = {[fmt |-> file.fmt, log |-> log] : log \in {file.log}}
    BY <1>2 DEF PathImages
<1> QED
    BY <1>1, <1>3 DEF Images

\* A machine that loses power leaves the image it picked, and no other.
LEMMA PowerImages ==
    ASSUME TypeOK, NEW img \in Images, PowerLoss(img)
    PROVE  Images' = {img} /\ PathImages' = {img} /\ prior' = {} /\ file' = img
<1>1. img \in Image /\ img.log \in Log
      /\ img = [fmt |-> img.fmt, log |-> img.log]
    BY FileIsImage DEF Image
<1>2. file' = img /\ mark' = Len(img.log) /\ prior' = {}
    BY DEF PowerLoss
<1>3. Cuts(img.log, Len(img.log)) = {img.log}
    BY <1>1, WholeCut
<1>4. PathImages' = {[fmt |-> img.fmt, log |-> log] : log \in {img.log}}
    BY <1>2, <1>3 DEF PathImages
<1> QED
    BY <1>1, <1>2, <1>4 DEF Images

\* A crash picks among the images, it makes none.
LEMMA CrashImages ==
    ASSUME TypeOK, ProcessCrash \/ \E img \in Images : PowerLoss(img)
    PROVE  Images' \subseteq Images /\ file' \in Images
<1>1. CASE ProcessCrash
    <2>1. Images' = Images /\ file' = file
        BY <1>1 DEF ProcessCrash, diskVars, Images, PathImages
    <2> QED
        BY <2>1, FileIsImage
<1>2. ASSUME NEW img \in Images, PowerLoss(img)
      PROVE  Images' \subseteq Images /\ file' \in Images
    BY <1>2, PowerImages
<1> QED
    BY <1>1, <1>2

-----------------------------------------------------------------------------
(* The steps *)

\* A step that leaves the documents on file as they are and owes no more.
LEMMA StillOwed ==
    ASSUME OwedOnFile, handle # "none", exposed' = {} => exposed = {},
           snapshots \subseteq snapshots', Contents' = Contents,
           Owed' \subseteq Owed
    PROVE  OwedOnFile'
BY DEF OwedOnFile

\* A step after which a crash leaves what it could have left before.
LEMMA StillAtomic ==
    ASSUME CrashAtomic, exposed' = {} => exposed = {},
           snapshots \subseteq snapshots', PathImages' = PathImages,
           prior' = prior, UNCHANGED <<ackSeq, sureSeq>>
    PROVE  CrashAtomic'
BY DEF CrashAtomic, CrashDurable

LEMMA SameDisk ==
    ASSUME UNCHANGED diskVars
    PROVE  /\ Contents' = Contents /\ Images' = Images /\ file' = file
           /\ PathImages' = PathImages /\ prior' = prior
BY DEF diskVars, Contents, Images, PathImages

\* No image of the disk is older than what FlushSync answers for for good.
LEMMA ImagesSure ==
    ASSUME TypeOK, CrashDurable, NEW img \in Images
    PROVE  \E s \in snapshots : s.seq >= sureSeq /\ s.view = Replay(img.log)
<1>1. ackSeq \in Nat /\ sureSeq \in Nat /\ sureSeq <= ackSeq
      /\ \A s \in snapshots : s.seq \in Nat
    BY DEF TypeOK, HistoryOK, Snapshot
<1> QED
    BY <1>1 DEF CrashDurable, Images

\* A mutation makes the store dirty: what the file owes gets no more.
LEMMA DurableMutate ==
    ASSUME DInv, Mutate, CInv'
    PROVE  DInv'
<1> USE DEF DInv
<1>1. /\ UNCHANGED <<handle, st, syncer, closer, durableSeq, snapshots, ackSeq,
                     sureSeq, exposed>>
      /\ UNCHANGED diskVars
      /\ dirty' /\ writeSeq' = writeSeq + 1 /\ dirtyGen' = dirtyGen + 1
      /\ handle # "none"
    <2>1. ASSUME NEW k \in Key, NEW v \in Val, Store(k, v)
          PROVE  /\ UNCHANGED <<handle, st, syncer, closer, durableSeq,
                                snapshots, ackSeq, sureSeq, exposed>>
                 /\ UNCHANGED diskVars
                 /\ dirty' /\ writeSeq' = writeSeq + 1
                 /\ dirtyGen' = dirtyGen + 1
        BY <2>1 DEF Store, MarkDirty, callVars, ghostVars
    <2>2. ASSUME NEW k \in Key, Delete(k)
          PROVE  /\ UNCHANGED <<handle, st, syncer, closer, durableSeq,
                                snapshots, ackSeq, sureSeq, exposed>>
                 /\ UNCHANGED diskVars
                 /\ dirty' /\ writeSeq' = writeSeq + 1
                 /\ dirtyGen' = dirtyGen + 1
        BY <2>2 DEF Delete, MarkDirty, callVars, ghostVars
    <2> QED
        BY <2>1, <2>2 DEF Mutate, Insert, Upsert, Update, Delete, MayMutate
<1>2. Contents' = Contents /\ file' = file
      /\ PathImages' = PathImages /\ prior' = prior
    BY <1>1, SameDisk
<1>3. /\ writeSeq \in Nat /\ dirtyGen \in Nat /\ ackSeq \in Nat
      /\ st.gen \in Nat /\ st.gen <= dirtyGen
      /\ syncer.goal \in Nat /\ closer.goal \in Nat
    BY DEF CInv, IInv, TypeOK, FlagsOK, CallsOK, HistoryOK, CountersOK
<1>4. Owed' \subseteq Owed
    BY <1>1 DEF Owed
<1>5. OwedOnFile' /\ CrashAtomic'
    BY <1>1, <1>2, <1>4, StillOwed, StillAtomic
<1>6. GoalsReached' /\ ClosedOnce'
    BY <1>1, <1>3 DEF GoalsReached, ClosedOnce
<1>7. StagedAhead'
    <2>1. st.gen # dirtyGen'
        BY <1>1, <1>3
    <2> QED
        BY <1>1, <1>4, <2>1 DEF StagedAhead, FlushInProgress
<1>8. StagedIsSnapshot' /\ WrittenIsSnapshot'
    BY <1>1, <1>2 DEF StagedIsSnapshot, WrittenIsSnapshot
<1> QED
    BY <1>5, <1>6, <1>7, <1>8

\* The batch a flush stages tells of the memory all that the file does not.
LEMMA BatchTellsMemory ==
    ASSUME CInv, handle # "none", st.pc = "idle", exposed = {}, NEW k \in Key
    PROVE  mem[k] = IF NeedsRewrite \/ Mentions(StagedBatch, k)
                    THEN StagedBatch.docs[k] ELSE ReplayKey(file.log, k)
<1> USE DEF CInv
<1>1. StagedBatch.docs[k] = IF NeedsRewrite \/ mod[k] THEN mem[k] ELSE NoVal
    BY DEF StagedBatch
<1>2. CASE NeedsRewrite
    BY <1>1, <1>2
<1>3. CASE ~NeedsRewrite
    <2>1. StagedBatch.dels = DelKeys
        BY <1>3 DEF StagedBatch, DelKeys
    <2>2. CASE mod[k]
        BY <1>1, <2>2 DEF MarkedIsThere, Mentions
    <2>3. CASE ~mod[k] /\ k \in DelKeys
        <3>1. mem[k] = NoVal
            BY <2>3 DEF DelKeys, DelsInOrder
        <3> QED
            BY <1>1, <1>3, <2>1, <2>3, <3>1 DEF Mentions
    <2>4. CASE ~mod[k] /\ k \notin DelKeys
        <3>1. ReplayKey(file.log, k) = mem[k]
            BY <1>3, <2>4 DEF CleanOnFile, NeedsRewrite
        <3> QED
            BY <1>1, <1>3, <2>1, <2>4, <3>1 DEF Mentions
    <2> QED
        BY <2>2, <2>3, <2>4
<1> QED
    BY <1>2, <1>3

\* The snapshot is of all the mutations there have been.
LEMMA DurableBegin ==
    ASSUME DInv, NEW who \in Callers, FlushBegin(who), CInv'
    PROVE  DInv'
<1> USE DEF DInv
<1>1. /\ handle = "open" /\ st.pc = "idle" /\ Calls(who)
      /\ st'.pc = "staged" /\ st'.who = who /\ st'.gen = dirtyGen
      /\ st'.seq = writeSeq /\ st'.full = NeedsRewrite /\ st'.batch = StagedBatch
      /\ snapshots' = snapshots \union {[seq |-> writeSeq, view |-> mem]}
      /\ UNCHANGED <<handle, dirty, dirtyGen, writeSeq, durableSeq, syncer,
                     closer, ackSeq, sureSeq, exposed>>
      /\ UNCHANGED diskVars
    BY DEF FlushBegin, callVars
<1>2. Contents' = Contents /\ file' = file
      /\ PathImages' = PathImages /\ prior' = prior
    BY <1>1, SameDisk
<1>3. Owed' = Owed
    BY <1>1 DEF Owed
<1>4. OwedOnFile' /\ CrashAtomic'
    BY <1>1, <1>2, <1>3, StillOwed, StillAtomic
<1>5. GoalsReached' /\ ClosedOnce'
    BY <1>1 DEF GoalsReached, ClosedOnce
<1>6. StagedAhead'
    <2>1. \A n \in Owed : writeSeq >= n
        BY <1>1 DEF Owed, GoalsReached, CInv, IInv, TypeOK, CountersOK, FlagsOK,
                    CallsOK, HistoryOK
    <2>2. writeSeq >= syncer.goal /\ writeSeq >= closer.goal
        BY <1>1 DEF GoalsReached, CInv, IInv, TypeOK, FlagsOK, CallsOK
    <2> QED
        BY <1>1, <1>3, <2>1, <2>2 DEF StagedAhead, Calls
<1>7. StagedIsSnapshot'
    <2> SUFFICES ASSUME exposed = {}
                 PROVE  \E s \in snapshots' :
                            /\ s.seq = writeSeq
                            /\ \A k \in Key :
                                   s.view[k] =
                                       IF NeedsRewrite \/ Mentions(StagedBatch, k)
                                       THEN StagedBatch.docs[k]
                                       ELSE ReplayKey(file.log, k)
        BY <1>1, <1>2 DEF StagedIsSnapshot
    <2> DEFINE s == [seq |-> writeSeq, view |-> mem]
    <2>1. s \in snapshots' /\ s.seq = writeSeq /\ s.view = mem
        BY <1>1
    <2> HIDE DEF s
    <2> QED
        BY <1>1, <2>1, BatchTellsMemory
<1>8. WrittenIsSnapshot'
    BY <1>1 DEF WrittenIsSnapshot
<1> QED
    BY <1>4, <1>5, <1>6, <1>7, <1>8

\* A flush that has nothing to do answers for all there has been.
LEMMA DurableNothing ==
    ASSUME DInv, NEW who \in Callers, FlushNothing(who), CInv'
    PROVE  DInv'
<1> USE DEF DInv
<1>1. /\ handle # "none" /\ st.pc = "idle" /\ Calls(who)
      /\ handle = "closed" \/ ~dirty
      /\ Returns(who, TRUE)
      /\ UNCHANGED <<handle, dirty, dirtyGen, writeSeq, durableSeq, st, ackSeq,
                     sureSeq, snapshots, exposed>>
      /\ UNCHANGED diskVars
    BY DEF FlushNothing, flagVars, ghostVars
<1>2. Contents' = Contents /\ file' = file
      /\ PathImages' = PathImages /\ prior' = prior
    BY <1>1, SameDisk
<1>3. /\ syncer'.goal = syncer.goal /\ closer'.goal = closer.goal
      /\ who # "sync" => syncer' = syncer
      /\ who # "close" => closer' = closer
      /\ who = "close" => handle = "open"
    BY <1>1 DEF Returns, Calls, ClosedOnce, CInv, IInv, TypeOK, FlagsOK, CallsOK
<1>4. CrashAtomic'
    BY <1>1, <1>2, StillAtomic
<1>5. GoalsReached' /\ ClosedOnce'
    BY <1>1, <1>3 DEF GoalsReached, ClosedOnce
<1>6. StagedAhead' /\ StagedIsSnapshot' /\ WrittenIsSnapshot'
    BY <1>1 DEF StagedAhead, StagedIsSnapshot, WrittenIsSnapshot, FlushInProgress
<1>7. OwedOnFile'
    <2>1. ASSUME exposed = {}, NEW n \in Owed', n \notin Owed
          PROVE  ~dirty /\ n \in Nat /\ writeSeq >= n
        <3>1. handle = "open" /\ n \in {syncer.goal, closer.goal}
            BY <1>1, <1>3, <2>1 DEF Owed
        <3>2. syncer.goal \in Nat /\ closer.goal \in Nat /\ writeSeq \in Nat
            BY DEF CInv, IInv, TypeOK, CallsOK, FlagsOK
        <3> QED
            BY <1>1, <3>1, <3>2 DEF GoalsReached
    <2>2. ASSUME exposed = {}, NEW n \in Owed'
          PROVE  \E s \in snapshots : s.seq >= n /\ s.view = Contents
        <3>1. CASE n \in Owed
            BY <1>1, <2>2, <3>1 DEF OwedOnFile
        <3>2. CASE n \notin Owed
            <4>1. writeSeq \in Owed /\ n \in Nat /\ writeSeq >= n
                BY <2>1, <2>2, <3>2 DEF Owed
            <4>2. PICK s \in snapshots : s.seq >= writeSeq /\ s.view = Contents
                BY <1>1, <2>2, <4>1 DEF OwedOnFile
            <4>3. s.seq \in Nat /\ writeSeq \in Nat
                BY DEF CInv, IInv, TypeOK, HistoryOK, Snapshot, FlagsOK
            <4> QED
                BY <4>1, <4>2, <4>3
        <3> QED
            BY <3>1, <3>2
    <2> QED
        BY <1>1, <1>2, <2>2 DEF OwedOnFile
<1> QED
    BY <1>4, <1>5, <1>6, <1>7

\* What both ways of writing a batch come to: the file now says what the
\* snapshot saw, which is ahead of everything owed.
LEMMA DurableWritten ==
    ASSUME DInv, CInv', st.pc = "staged", st'.pc = "written",
           UNCHANGED <<handle, dirty, dirtyGen, writeSeq, durableSeq, syncer,
                       closer, ackSeq, sureSeq, snapshots>>,
           /\ st'.who = st.who /\ st'.gen = st.gen /\ st'.seq = st.seq,
           exposed' = {} => exposed = {},
           exposed' = {} =>
               \A k \in Key :
                   ReplayKey(file'.log, k) =
                       IF st.full \/ Mentions(st.batch, k)
                       THEN st.batch.docs[k] ELSE ReplayKey(file.log, k),
           prior' \subseteq Images,
           \A img \in PathImages' :
               \/ \E old \in PathImages : Replay(img.log) = Replay(old.log)
               \/ img = file'
    PROVE  DInv'
<1> USE DEF DInv
<1>1. Owed' = Owed /\ handle # "none" /\ FlushInProgress
    BY DEF Owed, FlushInProgress, CInv, IInv, AppendsToFile
<1>2. ASSUME exposed' = {}
      PROVE  \E s \in snapshots : s.seq = st.seq /\ s.view = Contents'
    <2>1. PICK s \in snapshots :
              /\ s.seq = st.seq
              /\ \A k \in Key :
                     s.view[k] = IF st.full \/ Mentions(st.batch, k)
                                 THEN st.batch.docs[k]
                                 ELSE ReplayKey(file.log, k)
        BY <1>2 DEF StagedIsSnapshot
    <2>2. s.view = [k \in Key |-> s.view[k]]
        BY DEF CInv, IInv, TypeOK, HistoryOK, Snapshot, View
    <2>3. \A k \in Key : s.view[k] = ReplayKey(file'.log, k)
        BY <1>2, <2>1
    <2>4. s.view = Contents'
        BY <2>2, <2>3 DEF Contents, Replay
    <2> QED
        BY <2>1, <2>4
<1>3. ASSUME exposed' = {}, NEW n \in Owed
      PROVE  \E s \in snapshots : s.seq >= n /\ s.view = Contents'
    BY <1>1, <1>2, <1>3 DEF StagedAhead
<1>4. OwedOnFile'
    BY <1>1, <1>3 DEF OwedOnFile
<1>5. GoalsReached' /\ ClosedOnce'
    BY DEF GoalsReached, ClosedOnce
<1>6. StagedAhead'
    BY <1>1 DEF StagedAhead, FlushInProgress
<1>7. StagedIsSnapshot' /\ WrittenIsSnapshot'
    BY <1>2 DEF StagedIsSnapshot, WrittenIsSnapshot
<1>8. CrashAtomic'
    <2> SUFFICES ASSUME exposed' = {}
                 PROVE  CrashDurable'
        BY DEF CrashAtomic
    <2>1. CrashDurable /\ TypeOK
        BY DEF CrashAtomic, CInv, IInv
    <2>2. ASSUME NEW img \in PathImages'
          PROVE  \E s \in snapshots : s.seq >= ackSeq /\ s.view = Replay(img.log)
        <3>1. CASE \E old \in PathImages : Replay(img.log) = Replay(old.log)
            BY <2>1, <3>1 DEF CrashDurable
        <3>2. CASE img = file'
            <4>1. ackSeq \in Owed
                BY DEF Owed
            <4> QED
                BY <1>3, <3>2, <4>1 DEF Contents
        <3> QED
            BY <2>2, <3>1, <3>2
    <2>3. ASSUME NEW img \in prior'
          PROVE  \E s \in snapshots : s.seq >= sureSeq /\ s.view = Replay(img.log)
        BY <2>1, <2>3, ImagesSure
    <2> QED
        BY <2>2, <2>3 DEF CrashDurable
<1> QED
    BY <1>4, <1>5, <1>6, <1>7, <1>8

LEMMA DurableWriteFull ==
    ASSUME DInv, WriteFull, CInv'
    PROVE  DInv'
<1>1. /\ st.pc = "staged" /\ st.full /\ st'.pc = "written"
      /\ st'.who = st.who /\ st'.gen = st.gen /\ st'.seq = st.seq
      /\ UNCHANGED <<handle, dirty, dirtyGen, writeSeq, durableSeq, syncer,
                     closer, ackSeq, sureSeq, snapshots, exposed>>
      /\ prior' = Images /\ file' = [fmt |-> "v2", log |-> <<st.batch>>]
      /\ mark' = 1
    BY DEF WriteFull, DInv, CInv, IInv, TypeOK, CallsOK, flagVars, callVars,
           ghostVars
<1>2. st.batch \in Batch /\ st.batch.end = "commit" /\ <<st.batch>> \in Log
      /\ Len(<<st.batch>>) = 1
    BY <1>1 DEF DInv, CInv, IInv, TypeOK, CallsOK, StagedCommitted,
                FlushInProgress, Log
<1>3. \A k \in Key : ReplayKey(file'.log, k) = st.batch.docs[k]
    BY <1>1, <1>2, RewriteReplay
<1>4. \A img \in PathImages' : img = file'
    <2>1. Cuts(<<st.batch>>, 1) = {<<st.batch>>}
        BY <1>2, WholeCut
    <2>2. \A img \in PathImages' :
              \E log \in Cuts(<<st.batch>>, 1) : img = [fmt |-> "v2", log |-> log]
        BY <1>1 DEF PathImages
    <2> QED
        BY <1>1, <2>1, <2>2
<1> QED
    BY <1>1, <1>3, <1>4, DurableWritten

LEMMA DurableWriteAppend ==
    ASSUME DInv, WriteAppend, CInv'
    PROVE  DInv'
<1>1. /\ st.pc = "staged" /\ ~st.full /\ st'.pc = "written"
      /\ st'.who = st.who /\ st'.gen = st.gen /\ st'.seq = st.seq
      /\ UNCHANGED <<handle, dirty, dirtyGen, writeSeq, durableSeq, syncer,
                     closer, ackSeq, sureSeq, snapshots>>
      /\ prior' = prior /\ mark' = mark
      /\ file' = [file EXCEPT !.log = Append(@, st.batch)]
      /\ exposed' = {} => exposed = {} /\ ~WakesTail(file.log, st.batch)
    BY DEF WriteAppend, DInv, CInv, IInv, TypeOK, CallsOK, flagVars, callVars,
           TailExposure
<1>2. /\ st.batch \in Batch /\ st.batch.end = "commit"
      /\ TypeOK /\ file.log \in Log /\ file \in PathImages
      /\ prior' \subseteq Images
      /\ file'.log = Append(file.log, st.batch)
    BY <1>1, FileIsImage
    DEF DInv, CInv, IInv, TypeOK, CallsOK, StagedCommitted, FlushInProgress,
        DiskOK, Image, Images
<1>3. exposed' = {} =>
          \A k \in Key : ReplayKey(file'.log, k) =
                             IF Mentions(st.batch, k) THEN st.batch.docs[k]
                             ELSE ReplayKey(file.log, k)
    BY <1>1, <1>2, AppendReplay
<1>4. \A img \in PathImages' :
          \/ \E old \in PathImages : Replay(img.log) = Replay(old.log)
          \/ img = file'
    BY <1>1, <1>2, ImagesAfterAppend, PartView
<1> QED
    BY <1>1, <1>2, <1>3, <1>4, DurableWritten

\* A write that fails leaves at most a part of the batch, which says nothing.
LEMMA DurableFailure ==
    ASSUME DInv, CInv', WriteFails \/ \E p \in Parts(st.batch) : WriteStopsShort(p)
    PROVE  DInv'
<1> USE DEF DInv
<1>1. /\ st.pc = "staged" /\ st' = Idle /\ Returns(st.who, FALSE)
      /\ UNCHANGED <<handle, dirty, dirtyGen, writeSeq, durableSeq, ackSeq,
                     sureSeq, snapshots>>
      /\ exposed' = {} => exposed = {}
    BY DEF WriteFails, WriteStopsShort, flagVars, ghostVars
<1>2. TypeOK /\ file.log \in Log /\ file \in PathImages /\ handle # "none"
    BY <1>1, FileIsImage DEF CInv, IInv, AppendsToFile, FlushInProgress
<1>3. /\ Contents' = Contents
      /\ prior' = prior
      /\ \A img \in PathImages' :
             \E old \in PathImages : Replay(img.log) = Replay(old.log)
    <2>1. CASE WriteFails
        BY <2>1, SameDisk DEF WriteFails
    <2>2. ASSUME NEW p \in Parts(st.batch), WriteStopsShort(p)
          PROVE  /\ Contents' = Contents
                 /\ prior' = prior
                 /\ \A img \in PathImages' :
                        \E old \in PathImages : Replay(img.log) = Replay(old.log)
        <3>1. /\ prior' = prior /\ mark' = mark
              /\ file' = [file EXCEPT !.log = Append(@, p)]
              /\ file'.log = Append(file.log, p)
            BY <1>2, <2>2 DEF WriteStopsShort, TypeOK, DiskOK, Image
        <3>2. p \in Batch /\ p.end # "commit"
            BY <1>2, PartsEnd DEF TypeOK, CallsOK
        <3>3. Contents' = Contents
            BY <1>2, <3>1, <3>2, PartView DEF Contents
        <3>4. \A img \in PathImages' :
                  \/ img \in PathImages
                  \/ Replay(img.log) = Replay(file.log)
            BY <1>2, <3>1, <3>2, ImagesAfterAppend, PartView
        <3> QED
            BY <1>2, <3>1, <3>3, <3>4
    <2> QED
        BY <2>1, <2>2
<1>4. /\ syncer'.goal = syncer.goal /\ closer'.goal = closer.goal
      /\ syncer' = syncer \/ syncer'.pc = "idle"
      /\ closer' = closer \/ (closer'.pc = "failed" /\ closer.pc = "flush")
    <2>1. /\ syncer'.goal = syncer.goal /\ closer'.goal = closer.goal
          /\ syncer' = syncer \/ syncer'.pc = "idle"
          /\ closer' = closer \/ (closer'.pc = "failed" /\ st.who = "close")
        BY <1>1, <1>2 DEF Returns, TypeOK, CallsOK
    <2>2. st.who = "close" => closer.pc = "flush"
        BY <1>1 DEF StagedAhead, FlushInProgress
    <2> QED
        BY <2>1, <2>2
<1>5. Owed' \subseteq Owed
    BY <1>1, <1>4 DEF Owed
<1>6. OwedOnFile'
    BY <1>1, <1>2, <1>3, <1>5, StillOwed
<1>7. CrashAtomic'
    BY <1>1, <1>3 DEF CrashAtomic, CrashDurable
<1>8. GoalsReached' /\ ClosedOnce'
    BY <1>1, <1>4 DEF GoalsReached, ClosedOnce
<1>9. StagedAhead' /\ StagedIsSnapshot' /\ WrittenIsSnapshot'
    BY <1>1, IdleType
    DEF StagedAhead, StagedIsSnapshot, WrittenIsSnapshot, FlushInProgress
<1> QED
    BY <1>6, <1>7, <1>8, <1>9

\* The bookkeeping owes no more than the snapshot had seen.
LEMMA DurableApply ==
    ASSUME DInv, ApplyFlushed, CInv'
    PROVE  DInv'
<1> USE DEF DInv
<1>1. /\ st.pc = "written" /\ st' = Idle /\ Returns(st.who, TRUE)
      /\ durableSeq' = DurableNow /\ dirty' = StillDirty
      /\ UNCHANGED <<handle, dirtyGen, writeSeq, ackSeq, sureSeq, snapshots>>
      /\ UNCHANGED diskVars
      /\ exposed' = {} => exposed = {}
    BY DEF ApplyFlushed
<1>2. Contents' = Contents /\ file' = file
      /\ PathImages' = PathImages /\ prior' = prior
    BY <1>1, SameDisk
<1>3. FlushInProgress /\ handle # "none"
    BY <1>1 DEF FlushInProgress, CInv, IInv, AppendsToFile
<1>4. /\ syncer'.goal = syncer.goal /\ closer'.goal = closer.goal
      /\ st.who # "sync" => syncer' = syncer
      /\ st.who # "close" => closer' = closer
    BY <1>1 DEF Returns, CInv, IInv, TypeOK, CallsOK
<1>5. ASSUME exposed' = {}, NEW n \in Owed'
      PROVE  st.seq >= n
    <2>1. CASE n \in Owed
        BY <1>1, <1>3, <1>5, <2>1 DEF StagedAhead
    <2>2. CASE n = durableSeq'
        BY <1>1, <1>3, <1>5, <2>2
        DEF DurableNow, StagedAhead, Owed, CInv, IInv, TypeOK, CallsOK, FlagsOK
    <2>3. CASE n = writeSeq /\ ~StillDirty
        BY <1>3, <2>3
        DEF StillDirty, StagedAhead, CInv, IInv, TypeOK, CallsOK, FlagsOK
    <2>4. CASE n = syncer.goal /\ st.who = "sync"
        BY <1>3, <2>4 DEF StagedAhead
    <2>5. CASE n = closer.goal /\ st.who = "close"
        BY <1>3, <2>5 DEF StagedAhead
    <2> QED
        BY <1>1, <1>4, <2>1, <2>2, <2>3, <2>4, <2>5 DEF Owed
<1>6. OwedOnFile'
    <2> SUFFICES ASSUME exposed' = {}, NEW n \in Owed'
                 PROVE  \E s \in snapshots : s.seq >= n /\ s.view = Contents
        BY <1>1, <1>2 DEF OwedOnFile
    <2>1. PICK s \in snapshots : s.seq = st.seq /\ s.view = Contents
        BY <1>1 DEF WrittenIsSnapshot
    <2> QED
        BY <1>5, <2>1
<1>7. CrashAtomic'
    BY <1>1, <1>2, StillAtomic
<1>8. GoalsReached' /\ ClosedOnce'
    <2>1. closer.pc = "no" => closer'.pc = "no"
        BY <1>3, <1>4 DEF StagedAhead
    <2> QED
        BY <1>1, <1>4, <2>1 DEF GoalsReached, ClosedOnce
<1>9. StagedAhead' /\ StagedIsSnapshot' /\ WrittenIsSnapshot'
    BY <1>1, IdleType
    DEF StagedAhead, StagedIsSnapshot, WrittenIsSnapshot, FlushInProgress
<1> QED
    BY <1>6, <1>7, <1>8, <1>9

\* FlushSync answers for what its flush, or a later one, has put on file, and
\* its fsync leaves a crash nothing else that undoes no rename.
LEMMA DurableSync ==
    ASSUME DInv, SyncFile \/ SyncClosed, CInv'
    PROVE  DInv'
<1> USE DEF DInv
<1>1. /\ syncer.pc = "fsync" /\ syncer' = NotSyncing
      /\ ackSeq' = IF syncer.goal > ackSeq THEN syncer.goal ELSE ackSeq
      /\ UNCHANGED <<handle, dirty, dirtyGen, writeSeq, durableSeq, st, closer,
                     file, snapshots>>
      /\ exposed' = {} => exposed = {} /\ handle = "open"
      /\ handle # "none"
    BY DEF SyncFile, SyncClosed, Acknowledge, flagVars, diskVars
<1>2. Contents' = Contents
    BY <1>1 DEF Contents
<1>3. ASSUME exposed' = {}
      PROVE  Owed' \subseteq Owed /\ ackSeq' \in Owed
    BY <1>1, <1>3 DEF Owed, NotSyncing
<1>4. OwedOnFile'
    BY <1>1, <1>2, <1>3 DEF OwedOnFile
<1>5. GoalsReached' /\ ClosedOnce'
    BY <1>1 DEF GoalsReached, ClosedOnce, NotSyncing, CInv, IInv, TypeOK, FlagsOK
<1>6. StagedAhead'
    <2>1. FlushInProgress => st.who # "sync"
        BY <1>1 DEF StagedAhead
    <2> QED
        BY <1>1, <1>3, <2>1 DEF StagedAhead, FlushInProgress
<1>7. StagedIsSnapshot' /\ WrittenIsSnapshot'
    BY <1>1, <1>2 DEF StagedIsSnapshot, WrittenIsSnapshot
<1>8. CrashAtomic'
    <2> SUFFICES ASSUME exposed' = {}
                 PROVE  CrashDurable'
        BY DEF CrashAtomic
    <2>1. SyncFile /\ prior' \in {prior, {}}
          /\ (prior' = {} \/ sureSeq' = sureSeq)
        BY <1>1 DEF SyncClosed, SyncFile, SyncPath
    <2>2. PathImages' = {file}
        BY <2>1, FsyncedImages DEF SyncFile, SyncPath, CInv, IInv
    <2>3. \E s \in snapshots : s.seq >= ackSeq' /\ s.view = Replay(file.log)
        BY <1>1, <1>3 DEF OwedOnFile, Contents
    <2>4. ASSUME NEW img \in prior'
          PROVE  \E s \in snapshots : s.seq >= sureSeq' /\ s.view = Replay(img.log)
        BY <1>1, <2>1, <2>4 DEF CrashAtomic, CrashDurable
    <2> QED
        BY <1>1, <2>2, <2>3, <2>4 DEF CrashDurable
<1> QED
    BY <1>4, <1>5, <1>6, <1>7, <1>8

LEMMA DurableCalls ==
    ASSUME DInv, Compact \/ SyncCall \/ SyncFails \/ CloseCall \/ CloseMark,
           CInv'
    PROVE  DInv'
<1> USE DEF DInv
<1>1. /\ UNCHANGED <<writeSeq, durableSeq, st, snapshots, ackSeq, sureSeq, exposed>>
      /\ UNCHANGED diskVars
      /\ handle # "none" /\ handle' # "none"
      /\ dirty' = dirty \/ dirty'
    BY DEF Compact, SyncCall, SyncFails, CloseCall, CloseMark, flagVars,
           ghostVars
<1>2. Contents' = Contents /\ file' = file
      /\ PathImages' = PathImages /\ prior' = prior
    BY <1>1, SameDisk
<1>3. /\ writeSeq \in Nat /\ dirtyGen \in Nat /\ st.gen \in Nat
      /\ st.gen <= dirtyGen /\ st.pc \in {"idle", "staged", "written"}
    BY DEF CInv, IInv, TypeOK, FlagsOK, CallsOK, CountersOK
<1>4. Owed' \subseteq Owed
    <2>1. CASE Compact
        BY <1>1, <2>1 DEF Compact, Owed, callVars
    <2>2. CASE SyncCall
        BY <1>1, <2>2 DEF SyncCall, Owed, flagVars
    <2>3. CASE CloseCall
        BY <1>1, <2>3 DEF CloseCall, Owed, flagVars
    <2>4. CASE CloseMark
        <3>1. closer'.goal = closer.goal
            BY <2>4 DEF CloseMark, CInv, IInv, TypeOK, CallsOK
        <3> QED
            BY <1>1, <2>4, <3>1 DEF CloseMark, Owed, flagVars
    <2>5. CASE SyncFails
        BY <1>1, <2>5 DEF SyncFails, NotSyncing, Owed, flagVars
    <2> QED
        BY <2>1, <2>2, <2>3, <2>4, <2>5
<1>5. OwedOnFile' /\ CrashAtomic'
    BY <1>1, <1>2, <1>4, StillOwed, StillAtomic
<1>6. GoalsReached' /\ ClosedOnce'
    <2>1. CASE Compact
        BY <1>1, <2>1 DEF Compact, GoalsReached, ClosedOnce, callVars
    <2>2. CASE SyncCall
        BY <1>1, <1>3, <2>2 DEF SyncCall, GoalsReached, ClosedOnce
    <2>3. CASE CloseCall
        BY <1>1, <1>3, <2>3 DEF CloseCall, GoalsReached, ClosedOnce
    <2>4. CASE CloseMark
        BY <1>1, <2>4
        DEF CloseMark, GoalsReached, ClosedOnce, CInv, IInv, TypeOK, CallsOK
    <2>5. CASE SyncFails
        BY <1>1, <1>3, <2>5 DEF SyncFails, NotSyncing, GoalsReached, ClosedOnce
    <2> QED
        BY <2>1, <2>2, <2>3, <2>4, <2>5
<1>7. StagedAhead'
    <2> SUFFICES ASSUME FlushInProgress
                 PROVE  StagedAhead'
        BY <1>1 DEF StagedAhead, FlushInProgress
    <2>1. exposed = {} => \A n \in Owed' : st.seq >= n
        BY <1>4 DEF StagedAhead
    <2>2. st.gen = dirtyGen' \/ ~dirty' => st.seq = writeSeq
        <3>1. CASE Compact
            BY <1>3, <3>1 DEF Compact, StagedAhead
        <3>2. CASE ~Compact
            BY <3>2 DEF SyncCall, SyncFails, CloseCall, CloseMark, flagVars,
                        StagedAhead
        <3> QED
            BY <3>1, <3>2
    <2>3. /\ st.who = "sync" => syncer' = syncer
          /\ st.who = "close" => closer' = closer
        BY DEF Compact, SyncCall, SyncFails, CloseCall, CloseMark, callVars,
               StagedAhead
    <2> QED
        BY <1>1, <2>1, <2>2, <2>3 DEF StagedAhead
<1>8. StagedIsSnapshot' /\ WrittenIsSnapshot'
    BY <1>1, <1>2 DEF StagedIsSnapshot, WrittenIsSnapshot
<1> QED
    BY <1>5, <1>6, <1>7, <1>8

\* A crash leaves one of the images it was free to leave, and no store.
LEMMA DurableCrash ==
    ASSUME DInv, ProcessCrash \/ \E img \in Images : PowerLoss(img), CInv'
    PROVE  DInv'
<1> USE DEF DInv
<1>1. handle' = "none" /\ st' = Idle
    BY DEF ProcessCrash, PowerLoss, ForgetMemory
<1>2. ASSUME ProcessCrash
      PROVE  CrashAtomic'
    BY <1>2, SameDisk, StillAtomic DEF ProcessCrash, ghostVars
<1>3. ASSUME NEW img \in Images, PowerLoss(img)
      PROVE  CrashAtomic'
    <2> SUFFICES ASSUME exposed = {}
                 PROVE  CrashDurable'
        BY <1>3 DEF PowerLoss, CrashAtomic
    <2>1. CrashDurable /\ TypeOK
        BY DEF CrashAtomic, CInv, IInv
    <2>2. PathImages' = {img} /\ prior' = {} /\ snapshots' = snapshots
          /\ ackSeq' = IF img \in PathImages THEN ackSeq ELSE sureSeq
        BY <1>3, <2>1, PowerImages DEF PowerLoss
    <2>3. \E s \in snapshots : s.seq >= ackSeq' /\ s.view = Replay(img.log)
        BY <1>3, <2>1, <2>2, ImagesSure DEF CrashDurable
    <2> QED
        BY <2>2, <2>3 DEF CrashDurable
<1> QED
    BY <1>1, <1>2, <1>3, IdleType
    DEF OwedOnFile, GoalsReached, ClosedOnce, StagedAhead, StagedIsSnapshot,
        WrittenIsSnapshot, FlushInProgress

LEMMA FileIsImageNext ==
    TypeOK' => (file \in Images /\ file \in PathImages /\ PathImages \subseteq Images)'
<1>1. TypeOK => file \in Images /\ file \in PathImages /\ PathImages \subseteq Images
    BY FileIsImage
<1> QED
    BY <1>1, PTL

\* An opened store owes nothing yet, and remembers all it may have come from.
LEMMA DurableOpen ==
    ASSUME DInv, CInv',
           OpenNew \/ OpenV1 \/ \E log \in HealedLogs(file.log) : OpenV2(log)
    PROVE  DInv'
<1> USE DEF DInv
<1>1. /\ handle' = "open" /\ st' = Idle /\ closer' = NotClosing
      /\ syncer' = NotSyncing /\ ackSeq' = 0 /\ writeSeq' = 0 /\ durableSeq' = 0
      /\ sureSeq' = 0
      /\ snapshots' = {[seq |-> 0, view |-> Replay(i.log)] : i \in Images'}
    BY DEF OpenNew, OpenV1, OpenV2, OpenedFresh, OpenedImages
<1>2. TypeOK'
    BY DEF CInv, IInv
<1>3. file' \in Images' /\ PathImages' \subseteq Images' /\ prior' \subseteq Images'
    BY <1>2, FileIsImageNext DEF Images
<1>4. ASSUME NEW img \in Images'
      PROVE  \E s \in snapshots' : s.seq = 0 /\ s.view = Replay(img.log)
    <2> DEFINE s == [seq |-> 0, view |-> Replay(img.log)]
    <2>1. s \in snapshots'
        BY <1>1, Zenon
    <2>2. s.seq = 0 /\ s.view = Replay(img.log)
        OBVIOUS
    <2> QED
        BY <2>1, <2>2, Zenon
<1>5. \A n \in Owed' : n = 0
    BY <1>1 DEF Owed, NotClosing, NotSyncing
<1>6. OwedOnFile'
    BY <1>3, <1>4, <1>5 DEF OwedOnFile, Contents
<1>7. CrashAtomic'
    BY <1>1, <1>3, <1>4 DEF CrashAtomic, CrashDurable
<1> QED
    BY <1>1, <1>6, <1>7, IdleType
    DEF GoalsReached, ClosedOnce, StagedAhead, StagedIsSnapshot,
        WrittenIsSnapshot, FlushInProgress, NotClosing, NotSyncing

LEMMA DurableInit == Init => DInv
<1> SUFFICES ASSUME Init PROVE DInv
    OBVIOUS
<1>1. CInv /\ TypeOK
    BY CompletesInit DEF CInv, IInv
<1>2. /\ prior = {} /\ mark = Len(file.log) /\ handle = "none"
      /\ st = Idle /\ ackSeq = 0 /\ sureSeq = 0
      /\ snapshots = {[seq |-> 0, view |-> Replay(file.log)]}
    BY DEF Init
<1>3. \A img \in PathImages : img.log = file.log
    <2>1. file.log \in Log
        BY <1>1, FileIsImage
    <2>2. Cuts(file.log, mark) = {file.log}
        BY <1>2, <2>1, WholeCut
    <2> QED
        BY <2>2 DEF PathImages
<1>4. CrashAtomic
    BY <1>2, <1>3 DEF CrashAtomic, CrashDurable
<1> QED
    BY <1>1, <1>2, <1>4, IdleType
    DEF DInv, OwedOnFile, GoalsReached, ClosedOnce, StagedAhead,
        StagedIsSnapshot, WrittenIsSnapshot, FlushInProgress

LEMMA DurableNext == DInv /\ [Next]_vars => DInv'
<1> SUFFICES ASSUME DInv, [Next]_vars PROVE DInv'
    OBVIOUS
<1>1. CInv'
    BY CompletesNext DEF DInv
<1>2. ASSUME UNCHANGED vars
      PROVE  DInv'
    <2>1. UNCHANGED diskVars
        BY <1>2 DEF vars
    <2>2. Contents' = Contents /\ file' = file
          /\ PathImages' = PathImages /\ prior' = prior
        BY <2>1, SameDisk
    <2>3. Owed' = Owed
        BY <1>2 DEF Owed, vars, flagVars, callVars, ghostVars
    <2> QED
        BY <1>1, <1>2, <2>2, <2>3
        DEF DInv, OwedOnFile, GoalsReached, ClosedOnce, StagedAhead,
            StagedIsSnapshot, WrittenIsSnapshot, CrashAtomic, CrashDurable,
            FlushInProgress, vars, flagVars, callVars, ghostVars
<1>3. CASE Flush
    BY <1>1, <1>3, DurableBegin, DurableNothing, DurableWriteFull,
       DurableWriteAppend, DurableFailure, DurableApply
    DEF Flush
<1> QED
    BY <1>1, <1>2, <1>3, DurableMutate, DurableSync, DurableCalls,
       DurableCrash, DurableOpen
    DEF Next

LEMMA DurableCorrect == Spec => []DInv
BY DurableInit, DurableNext, PTL DEF Spec

-----------------------------------------------------------------------------

\* Whatever the disk makes of a crash - the process killed or the power lost,
\* an append torn, a rename that did not last - opening it gives the documents
\* as one flush took them, and a flush no older than any FlushSync has answered
\* for - where the rename did not last because its directory refused to be
\* synced, no older than what had been answered for when no rename was left to be
\* undone - until the store runs into one of the known losses (file.go:614-654,
\* filev2.go:265-420, 548-712).
THEOREM CrashesAreAtomic == Spec => []CrashAtomic
<1>1. DInv => CrashAtomic
    BY DEF DInv
<1> QED
    BY <1>1, DurableCorrect, PTL

\* A mutation counted as durable, which backpressure then stops waiting for, is
\* in the file, whichever flushes, failures and calls ran beside it
\* (file.go:543-546).
THEOREM DurableSeqAlwaysTrue == Spec => []DurableSeqIsTrue
<1>1. DInv => DurableSeqIsTrue
    BY DEF DInv, OwedOnFile, Owed, DurableSeqIsTrue
<1> QED
    BY <1>1, DurableCorrect, PTL

\* A Close that returned nil has put on file every mutation that had returned
\* when it was called, though its own flush may have found nothing left to do
\* (file.go:666-695).
THEOREM CloseKeepsWrites == Spec => []ClosedKeepsWrites
<1>1. DInv => ClosedKeepsWrites
    BY DEF DInv, OwedOnFile, Owed, ClosedKeepsWrites
<1> QED
    BY <1>1, DurableCorrect, PTL


-----------------------------------------------------------------------------
(* The invariant of the refinement                                         *)
(*                                                                         *)
(* A step of a flush or of a FlushSync keeps the promise because of        *)
(* CrashAtomic after it. Opening has to read nothing that the image did    *)
(* not say: so a path that names no file names no documents, and a record  *)
(* that is not all there has nothing after it for the cut to lose.         *)

SawV2 == sawFile \/ st.pc = "written" => file.fmt = "v2"

NoFileIsEmpty == \A img \in Images : img.fmt = "none" => img.log = <<>>

TornIsLast == exposed = {} => \A img \in Images : ~MayBeCorrupt(img.log)

RInv ==
    /\ DInv
    /\ SawV2
    /\ NoFileIsEmpty
    /\ TornIsLast

-----------------------------------------------------------------------------
(* Logs with a record that is not all there *)

LEMMA NoDocuments == Replay(<<>>) = EmptyView
<1>1. \A k \in Key : Newest(<<>>, k) = {}
    BY DEF Newest, Committed
<1> QED
    BY <1>1 DEF Replay, ReplayKey, EmptyView

LEMMA LastApart ==
    ASSUME NEW log \in Log, Len(log) # 0
    PROVE  /\ Len(log) - 1 \in 0..Len(log)
           /\ SubSeq(log, 1, Len(log) - 1) \in Log
           /\ Len(SubSeq(log, 1, Len(log) - 1)) = Len(log) - 1
           /\ log[Len(log)] \in Batch
           /\ log = Append(SubSeq(log, 1, Len(log) - 1), log[Len(log)])
<1> DEFINE n == Len(log)
           pre == SubSeq(log, 1, n - 1)
           t == log[n]
<1>1. n \in Nat /\ n - 1 \in 0..n /\ n \in 1..n
    BY LenProperties DEF Log
<1>2. pre \in Log /\ Len(pre) = n - 1
    BY <1>1, PrefixType
<1>3. t \in Batch
    BY <1>1, ElementOfSeq DEF Log
<1>4. \A i \in 1..(n - 1) : pre[i] = log[i]
    BY <1>1, SubSeqProperties, ElementOfSeq DEF Log
<1>5. /\ Append(pre, t) \in Log /\ Len(Append(pre, t)) = n
      /\ Append(pre, t)[n] = t
      /\ \A i \in 1..(n - 1) : Append(pre, t)[i] = pre[i]
    <2> HIDE DEF pre, t, n
    <2> QED
        BY <1>1, <1>2, <1>3, AppendType
<1>6. \A i \in 1..n : log[i] = Append(pre, t)[i]
    <2> HIDE DEF pre
    <2> QED
        BY <1>1, <1>4, <1>5
<1>7. log = Append(pre, t)
    <2> HIDE DEF pre, t
    <2> QED
        BY <1>5, <1>6, SeqEqual DEF Log
<1> QED
    BY <1>1, <1>2, <1>3, <1>7

\* A longer log may be cut to all a shorter one may be cut to.
LEMMA CutsGrow ==
    ASSUME NEW log \in Log, NEW b \in Batch, NEW m \in 0..Len(log),
           NEW cut \in Cuts(log, m)
    PROVE  cut \in Cuts(Append(log, b), m)
<1> DEFINE new == Append(log, b)
<1>1. /\ Len(log) \in Nat /\ Len(new) = Len(log) + 1
      /\ \A i \in 1..Len(log) : new[i] = log[i]
    BY AppendType, LenProperties DEF Log
<1>2. \A n \in 0..Len(log) : SubSeq(new, 1, n) = SubSeq(log, 1, n)
    BY SamePrefix
<1> HIDE DEF new
<1>3. CASE \E n \in m..Len(log) : cut = SubSeq(log, 1, n)
    <2>1. PICK n \in m..Len(log) : cut = SubSeq(log, 1, n)
        BY <1>3
    <2>2. n \in m..Len(new) /\ cut = SubSeq(new, 1, n)
        BY <1>1, <1>2, <2>1
    <2> QED
        BY <2>2, CutsMember DEF new
<1>4. CASE \E n \in (m + 1)..Len(log) : \E p \in Parts(log[n]) :
               cut = Append(SubSeq(log, 1, n - 1), p)
    <2>1. PICK n \in (m + 1)..Len(log) : \E p \in Parts(log[n]) :
              cut = Append(SubSeq(log, 1, n - 1), p)
        BY <1>4
    <2>2. PICK p \in Parts(log[n]) : cut = Append(SubSeq(log, 1, n - 1), p)
        BY <2>1
    <2>3. /\ n \in (m + 1)..Len(new) /\ new[n] = log[n]
          /\ SubSeq(new, 1, n - 1) = SubSeq(log, 1, n - 1)
        BY <1>1, <1>2
    <2>4. n \in (m + 1)..Len(new) /\ p \in Parts(new[n])
          /\ cut = Append(SubSeq(new, 1, n - 1), p)
        BY <2>2, <2>3
    <2> QED
        BY <2>4, CutsMember DEF new
<1> QED
    BY <1>3, <1>4, CutsMember

\* Cutting a record that is not all there off the end of a file lets a crash
\* leave no documents it could not have left before.
LEMMA HealedCuts ==
    ASSUME NEW log \in Log, ~MayBeCorrupt(log), NEW m \in 0..Len(log),
           NEW healed \in HealedLogs(log),
           NEW cut \in Cuts(healed, IF m > Len(healed) THEN Len(healed) ELSE m)
    PROVE  \E old \in Cuts(log, m) : Replay(cut) = Replay(old)
<1>1. CASE TornAt(log) = {}
    <2>1. healed = log /\ Len(log) \in Nat
        BY <1>1, LenProperties DEF HealedLogs, Log
    <2>2. cut \in Cuts(log, m)
        BY <2>1
    <2> QED
        BY <2>2
<1>2. CASE TornAt(log) # {}
    <2> DEFINE n == Len(log)
               pre == SubSeq(log, 1, n - 1)
               t == log[n]
               q == [t EXCEPT !.end = "cut"]
    <2>1. n \in Nat /\ n # 0 /\ TornAt(log) = {n} /\ t.end = "torn"
        <3>1. Len(log) \in Nat /\ TornAt(log) \subseteq 1..Len(log)
            BY LenProperties DEF Log, TornAt
        <3>2. \A i \in TornAt(log) : i = Len(log)
            BY <3>1 DEF MayBeCorrupt
        <3> QED
            BY <1>2, <3>1, <3>2 DEF TornAt
    <2>2. /\ pre \in Log /\ Len(pre) = n - 1 /\ t \in Batch
          /\ log = Append(pre, t)
        BY <2>1, LastApart
    <2>3. q \in Batch /\ q.end = "cut"
        BY <2>2 DEF Batch, Endings
    <2>4. healed = pre \/ healed = Append(pre, q)
        <3>1. healed = TruncateAt(log, n)
            BY <1>2, <2>1 DEF HealedLogs, FirstTorn
        <3> QED
            BY <3>1 DEF TruncateAt
    <2> HIDE DEF n, pre, t, q
    <2>5. Replay(log) = Replay(pre) /\ log \in Cuts(log, m)
        BY <2>1, <2>2, PartView, WholeCut
    <2>6. CASE m = n
        <3>1. Len(Append(pre, q)) = n
            BY <2>1, <2>2, <2>3, AppendType
        <3>2. cut = healed
            <4>1. (IF m > Len(healed) THEN Len(healed) ELSE m) = Len(healed)
                BY <2>1, <2>2, <2>4, <2>6, <3>1
            <4>2. healed \in Log
                BY <2>2, <2>3, <2>4, AppendType
            <4> QED
                BY <4>1, <4>2, WholeCut
        <3>3. Replay(healed) = Replay(pre)
            BY <2>2, <2>3, <2>4, PartView
        <3> QED
            BY <2>5, <3>2, <3>3
    <2>7. CASE m # n
        <3>1. m \in 0..Len(pre)
            BY <2>1, <2>2, <2>7 DEF n
        <3>2. cut \in Cuts(pre, m) => cut \in Cuts(log, m)
            BY <2>2, <3>1, CutsGrow
        <3>3. CASE healed = pre
            <4>1. (IF m > Len(healed) THEN Len(healed) ELSE m) = m
                BY <2>1, <2>2, <3>1, <3>3
            <4>2. cut \in Cuts(pre, m)
                BY <3>3, <4>1
            <4> QED
                BY <3>2, <4>2
        <3>4. CASE healed = Append(pre, q)
            <4>1. (IF m > Len(healed) THEN Len(healed) ELSE m) = m
                BY <2>1, <2>2, <2>3, <3>1, <3>4, AppendType
            <4>2. cut \in Cuts(Append(pre, q), m)
                BY <3>4, <4>1
            <4>3. \/ cut \in Cuts(pre, m)
                  \/ cut = Append(pre, q)
                  \/ \E p \in Parts(q) : cut = Append(pre, p)
                BY <2>2, <2>3, <3>1, <4>2, CutsOfAppend
            <4>4. cut \in Cuts(pre, m) \/ Replay(cut) = Replay(pre)
                BY <2>2, <2>3, <4>3, PartsEnd, PartView
            <4> QED
                BY <2>5, <3>2, <4>4
        <3> QED
            BY <2>4, <3>3, <3>4
    <2> QED
        BY <2>6, <2>7
<1> QED
    BY <1>1, <1>2

\* A batch of a log no record is missing from may be cut short, and is then the
\* last one.
LEMMA TornAppend ==
    ASSUME NEW log \in Log, NEW b \in Batch, TornAt(log) = {}
    PROVE  ~MayBeCorrupt(Append(log, b))
<1>1. /\ Len(log) \in Nat /\ Len(Append(log, b)) = Len(log) + 1
      /\ \A i \in 1..Len(log) : Append(log, b)[i] = log[i]
    BY AppendType, LenProperties DEF Log
<1> QED
    BY <1>1 DEF MayBeCorrupt, TornAt

-----------------------------------------------------------------------------
(* The invariant holds *)

LEMMA RInvInit == Init => RInv
<1> SUFFICES ASSUME Init PROVE RInv
    OBVIOUS
<1>1. DInv /\ TypeOK
    BY DurableInit DEF DInv, CInv, IInv
<1>2. prior = {} /\ mark = Len(file.log) /\ ~sawFile /\ st = Idle
    BY DEF Init
<1>3. \A img \in Images : img.log = file.log /\ img.fmt = file.fmt
    <2>1. file.log \in Log
        BY <1>1, FileIsImage
    <2>2. Cuts(file.log, mark) = {file.log}
        BY <1>2, <2>1, WholeCut
    <2> QED
        BY <1>2, <2>2 DEF Images, PathImages
<1>4. NoFileIsEmpty /\ TornIsLast
    <2>1. CASE file = [fmt |-> "none", log |-> <<>>]
        BY <1>3, <2>1 DEF NoFileIsEmpty, TornIsLast, MayBeCorrupt, TornAt
    <2>2. CASE \E docs \in V1Docs :
                   file = [fmt |-> "v1",
                           log |-> <<[dels |-> {}, docs |-> docs,
                                      end |-> "commit"]>>]
        <3>1. PICK docs \in V1Docs :
                  file = [fmt |-> "v1",
                          log |-> <<[dels |-> {}, docs |-> docs,
                                     end |-> "commit"]>>]
            BY <2>2
        <3>2. file.fmt = "v1" /\ Len(file.log) = 1
            BY <3>1
        <3>3. ~MayBeCorrupt(file.log)
            BY <3>2 DEF MayBeCorrupt, TornAt
        <3> QED
            BY <1>3, <3>2, <3>3 DEF NoFileIsEmpty, TornIsLast
    <2> QED
        BY <2>1, <2>2 DEF Init
<1>5. SawV2
    BY <1>2, IdleType DEF SawV2
<1> QED
    BY <1>1, <1>4, <1>5 DEF RInv

\* What an append makes of the disk, whether all of the batch is written or a
\* part of it.
LEMMA RInvAppended ==
    ASSUME RInv, NEW b \in Batch, mark' = mark, prior' = prior,
           file' = [file EXCEPT !.log = Append(@, b)], file.fmt = "v2",
           exposed' = {} => exposed = {} /\ TornAt(file.log) = {}
    PROVE  NoFileIsEmpty' /\ TornIsLast'
<1>1. /\ TypeOK /\ file.log \in Log
      /\ file'.fmt = "v2" /\ file'.log = Append(file.log, b)
    BY FileIsImage DEF RInv, DInv, CInv, IInv, TypeOK, DiskOK, Image
<1>2. ASSUME NEW img \in Images'
      PROVE  \/ img \in Images
             \/ /\ img.fmt = "v2"
                /\ \E c \in Batch : img.log = Append(file.log, c)
    <2>1. CASE img \in prior'
        BY <2>1 DEF Images
    <2>2. CASE img \in PathImages'
        BY <1>1, <2>2, ImagesAfterAppend DEF Images
    <2> QED
        BY <1>2, <2>1, <2>2 DEF Images
<1>3. NoFileIsEmpty'
    BY <1>2 DEF RInv, NoFileIsEmpty
<1>4. TornIsLast'
    BY <1>1, <1>2, TornAppend DEF RInv, TornIsLast
<1> QED
    BY <1>3, <1>4

LEMMA RInvFlush == RInv /\ Flush => RInv'
<1> SUFFICES ASSUME RInv, Flush PROVE RInv'
    OBVIOUS
<1> USE DEF RInv
<1>0. DInv'
    BY DurableNext DEF Next
<1>1. TypeOK /\ st.batch \in Batch /\ file.log \in Log
    BY FileIsImage DEF DInv, CInv, IInv, TypeOK, CallsOK
<1>2. ASSUME UNCHANGED diskVars, exposed' = {} => exposed = {}, SawV2'
      PROVE  RInv'
    BY <1>0, <1>2, SameDisk DEF NoFileIsEmpty, TornIsLast
<1>3. ASSUME NEW who \in Callers, FlushBegin(who) \/ FlushNothing(who)
      PROVE  RInv'
    <2>1. UNCHANGED diskVars
        BY <1>3 DEF FlushBegin, FlushNothing
    <2>2. exposed' = exposed /\ sawFile' = sawFile /\ st'.pc # "written"
        <3>1. CASE FlushBegin(who)
            BY <3>1 DEF FlushBegin
        <3>2. CASE FlushNothing(who)
            BY <3>2 DEF FlushNothing, flagVars, ghostVars
        <3> QED
            BY <1>3, <3>1, <3>2
    <2>3. SawV2'
        BY <2>1, <2>2 DEF SawV2, diskVars
    <2> QED
        BY <1>2, <2>1, <2>2, <2>3
<1>4. CASE WriteFails
    BY <1>2, <1>4 DEF WriteFails, SawV2, flagVars, ghostVars, diskVars, Idle
<1>5. CASE ApplyFlushed
    <2>1. UNCHANGED diskVars /\ (exposed' = {} => exposed = {})
        BY <1>5 DEF ApplyFlushed
    <2>2. file.fmt = "v2" /\ file' = file
        BY <1>5 DEF ApplyFlushed, SawV2, diskVars
    <2> QED
        BY <1>2, <2>1, <2>2 DEF SawV2
<1>6. CASE WriteFull
    <2>1. /\ prior' = Images /\ file' = [fmt |-> "v2", log |-> <<st.batch>>]
          /\ mark' = 1 /\ exposed' = exposed
        BY <1>6 DEF WriteFull, ghostVars
    <2>2. Len(<<st.batch>>) = 1 /\ <<st.batch>> \in Log
        BY <1>1 DEF Log
    <2>3. \A img \in Images' : img \in Images \/ img = file'
        <3>1. Cuts(<<st.batch>>, 1) = {<<st.batch>>}
            BY <2>2, WholeCut
        <3>2. \A img \in Images' :
                  \/ img \in Images
                  \/ \E log \in Cuts(<<st.batch>>, 1) :
                         img = [fmt |-> "v2", log |-> log]
            BY <2>1, Zenon DEF Images, PathImages
        <3> QED
            BY <2>1, <3>1, <3>2
    <2>4. ~MayBeCorrupt(<<st.batch>>)
        BY <2>2 DEF MayBeCorrupt, TornAt
    <2> QED
        BY <1>0, <2>1, <2>3, <2>4 DEF SawV2, NoFileIsEmpty, TornIsLast
<1>7. CASE WriteAppend
    <2>1. /\ mark' = mark /\ prior' = prior /\ st.pc = "staged" /\ ~st.full
          /\ file' = [file EXCEPT !.log = Append(@, st.batch)]
          /\ exposed' = {} => exposed = {} /\ ~WakesTail(file.log, st.batch)
          /\ UNCHANGED sawFile
        BY <1>7 DEF WriteAppend, TailExposure, flagVars
    <2>2. file.fmt = "v2" /\ file'.fmt = "v2"
        BY <1>1, <2>1
        DEF SawV2, DInv, CInv, IInv, AppendsToFile, FlushInProgress, TypeOK,
            DiskOK, Image
    <2>3. ASSUME exposed' = {}
          PROVE  TornAt(file.log) = {}
        <3>1. ~MayBeCorrupt(file.log)
            BY <1>1, <2>1, <2>3, FileIsImage DEF TornIsLast
        <3>2. Len(file.log) \in Nat
            BY <1>1, LenProperties DEF Log
        <3>3. ASSUME NEW i \in TornAt(file.log)
              PROVE  FALSE
            <4>1. i = Len(file.log) /\ i \in 1..Len(file.log)
                  /\ file.log[i].end = "torn"
                BY <3>1, <3>2, <3>3 DEF MayBeCorrupt, TornAt
            <4>2. i \notin Committed(file.log)
                BY <3>2, <4>1 DEF Committed
            <4> QED
                BY <2>1, <2>3, <4>1, <4>2 DEF WakesTail
        <3> QED
            BY <3>3
    <2>4. NoFileIsEmpty' /\ TornIsLast'
        BY <1>1, <2>1, <2>2, <2>3, RInvAppended
    <2> QED
        BY <1>0, <2>2, <2>4 DEF SawV2
<1>8. ASSUME NEW p \in Parts(st.batch), WriteStopsShort(p)
      PROVE  RInv'
    <2>1. /\ mark' = mark /\ prior' = prior /\ st.pc = "staged" /\ ~st.full
          /\ file' = [file EXCEPT !.log = Append(@, p)]
          /\ exposed' = {} => exposed = {} /\ TornAt(file.log) = {}
          /\ UNCHANGED sawFile
        BY <1>8 DEF WriteStopsShort, flagVars
    <2>2. file.fmt = "v2" /\ file'.fmt = "v2"
        BY <1>1, <2>1
        DEF SawV2, DInv, CInv, IInv, AppendsToFile, FlushInProgress, TypeOK,
            DiskOK, Image
    <2>3. NoFileIsEmpty' /\ TornIsLast'
        BY <1>1, <2>1, <2>2, PartsType, RInvAppended
    <2> QED
        BY <1>0, <2>2, <2>3 DEF SawV2
<1> QED
    BY <1>3, <1>4, <1>5, <1>6, <1>7, <1>8 DEF Flush

LEMMA RInvOthers ==
    /\ RInv
    /\ \/ Mutate \/ Compact \/ SyncCall \/ SyncFile \/ SyncFails \/ SyncClosed
       \/ CloseCall \/ CloseMark \/ ProcessCrash \/ \E img \in Images : PowerLoss(img)
       \/ OpenNew \/ OpenV1 \/ \E log \in HealedLogs(file.log) : OpenV2(log)
    => RInv'
<1> USE DEF RInv
<1>1. ASSUME RInv, DInv', Images' \subseteq Images, exposed' = {} => exposed = {},
             SawV2'
      PROVE  RInv'
    BY <1>1 DEF NoFileIsEmpty, TornIsLast
<1>2. ASSUME RInv, Mutate \/ Compact \/ SyncCall \/ SyncFails \/ SyncClosed
                   \/ CloseCall \/ CloseMark
      PROVE  RInv'
    <2>1. /\ UNCHANGED diskVars /\ sawFile' = sawFile /\ st' = st
          /\ exposed' = {} => exposed = {}
        BY <1>2 DEF Mutate, Insert, Upsert, Update, Store, Delete, MarkDirty,
            Compact, SyncCall, SyncFails, SyncClosed, CloseCall, CloseMark,
            flagVars, ghostVars
    <2>2. SawV2'
        BY <1>2, <2>1 DEF SawV2, diskVars
    <2>3. DInv'
        BY <1>2, DurableNext DEF Next
    <2> QED
        BY <1>1, <1>2, <2>1, <2>2, <2>3, SameDisk
<1>3. ASSUME RInv, SyncFile
      PROVE  RInv'
    <2>1. /\ prior' \in {prior, {}} /\ mark' = Len(file.log) /\ file' = file
          /\ sawFile' = sawFile /\ st' = st /\ exposed' = exposed
        BY <1>3 DEF SyncFile, SyncPath, flagVars
    <2>2. Images' \subseteq Images
        BY <1>3, <2>1, FsyncedImages DEF DInv, CInv, IInv
    <2>3. DInv'
        BY <1>3, DurableNext DEF Next
    <2> QED
        BY <1>1, <1>3, <2>1, <2>2, <2>3 DEF SawV2
<1>4. ASSUME RInv, ProcessCrash \/ \E img \in Images : PowerLoss(img)
      PROVE  RInv'
    <2>1. ~sawFile' /\ st'.pc = "idle" /\ exposed' = exposed
        BY <1>4 DEF ProcessCrash, PowerLoss, ForgetMemory, Idle, ghostVars
    <2>2. DInv' /\ Images' \subseteq Images
        BY <1>4, CrashImages, DurableNext DEF Next, DInv, CInv, IInv
    <2> QED
        BY <1>1, <1>4, <2>1, <2>2 DEF SawV2
<1>5. ASSUME RInv, OpenNew \/ OpenV1 \/ \E log \in HealedLogs(file.log) : OpenV2(log)
      PROVE  RInv'
    <2>1. DInv'
        BY <1>5, DurableNext DEF Next
    <2>2. TornIsLast'
        BY <1>5 DEF OpenNew, OpenV1, OpenV2, OpenedImages, TornIsLast
    <2>3. st'.pc = "idle"
        BY <1>5 DEF OpenNew, OpenV1, OpenV2, OpenedFresh, Idle
    <2>4. CASE OpenNew \/ OpenV1
        <3>1. ~sawFile' /\ UNCHANGED diskVars
            BY <2>4 DEF OpenNew, OpenV1
        <3>2. Images' = Images
            BY <3>1, SameDisk
        <3> QED
            BY <1>5, <2>1, <2>2, <2>3, <3>1, <3>2 DEF SawV2, NoFileIsEmpty
    <2>5. ASSUME NEW log \in HealedLogs(file.log), OpenV2(log)
          PROVE  RInv'
        <3>1. /\ file.fmt = "v2" /\ file'.fmt = "v2" /\ prior' = prior
            BY <1>5, <2>5 DEF OpenV2, DInv, CInv, IInv, TypeOK, DiskOK, Image
        <3>2. \A img \in Images' : img \in Images \/ img.fmt = "v2"
            BY <3>1 DEF Images, PathImages
        <3> QED
            BY <1>5, <2>1, <2>2, <2>3, <3>1, <3>2 DEF SawV2, NoFileIsEmpty
    <2> QED
        BY <1>5, <2>4, <2>5
<1> QED
    BY <1>2, <1>3, <1>4, <1>5

LEMMA RInvNext == RInv /\ [Next]_vars => RInv'
<1>1. ASSUME RInv, UNCHANGED vars
      PROVE  RInv'
    <2>1. UNCHANGED diskVars /\ st' = st /\ sawFile' = sawFile /\ exposed' = exposed
        BY <1>1 DEF vars, flagVars, ghostVars
    <2> QED
        BY <1>1, <2>1, SameDisk, DurableNext DEF RInv, SawV2, NoFileIsEmpty, TornIsLast
<1> QED
    BY <1>1, RInvFlush, RInvOthers DEF Next

-----------------------------------------------------------------------------
(* The steps of the promise *)

\* A step that neither the memory nor a crash can tell is no step.
LEMMA NoStep ==
    ASSUME UNCHANGED <<handle, mem, writeSeq, snapshots, ackSeq, sureSeq,
                       exposed>>,
           UNCHANGED diskVars
    PROVE  UNCHANGED Promised!vars
BY SameDisk DEF Promised!vars, Pool, Near

LEMMA StepMutate ==
    ASSUME RInv, Mutate, exposed' = {}
    PROVE  Promised!Mutate
<1>1. ASSUME NEW k \in Key, NEW v \in Val, handle # "none", Store(k, v)
      PROVE  Promised!Mutate
    <2>1. /\ UNCHANGED <<handle, snapshots, ackSeq, sureSeq>> /\ UNCHANGED diskVars
          /\ writeSeq' = writeSeq + 1 /\ mem' = [mem EXCEPT ![k] = v]
        BY <1>1 DEF Store, MarkDirty, ghostVars
    <2>2. Pool' = Pool /\ Near' = Near
        BY <2>1, SameDisk DEF Pool, Near
    <2>3. v \in Val \union {NoVal}
        OBVIOUS
    <2> QED
        BY <1>1, <2>1, <2>2, <2>3 DEF Promised!Mutate, Promised!disk
<1>2. ASSUME NEW k \in Key, Delete(k)
      PROVE  Promised!Mutate
    <2>1. /\ UNCHANGED <<handle, snapshots, ackSeq, sureSeq>> /\ UNCHANGED diskVars
          /\ writeSeq' = writeSeq + 1 /\ mem' = [mem EXCEPT ![k] = NoVal]
          /\ handle # "none"
        BY <1>2 DEF Delete, MarkDirty, MayMutate, ghostVars
    <2>2. Pool' = Pool /\ Near' = Near
        BY <2>1, SameDisk DEF Pool, Near
    <2>3. NoVal \in Val \union {NoVal}
        OBVIOUS
    <2> QED
        BY <2>1, <2>2, <2>3 DEF Promised!Mutate, Promised!disk
<1> QED
    BY <1>1, <1>2 DEF Mutate, Insert, Upsert, Update, MayMutate

\* What a crash may leave, and what one that undoes no rename may, are contents
\* some flush took, as late as was promised.
DiskIsKept ==
    /\ Near \subseteq Pool
    /\ Promised!Kept(Near, snapshots, ackSeq)
    /\ Promised!Kept(Pool, snapshots, sureSeq)

LEMMA DiskKept ==
    ASSUME TypeOK, CrashDurable
    PROVE  DiskIsKept
<1>1. Near \subseteq Pool /\ Near # {} /\ Pool # {}
    BY FileIsImage DEF Near, Pool
<1>2. \A v \in Near : \E s \in snapshots : s.seq >= ackSeq /\ s.view = v
    BY DEF Near, CrashDurable
<1>3. \A v \in Pool : \E s \in snapshots : s.seq >= sureSeq /\ s.view = v
    BY ImagesSure DEF Pool
<1> QED
    BY <1>1, <1>2, <1>3 DEF DiskIsKept, Promised!Kept

LEMMA DiskKeptNext == (DInv /\ exposed = {})' => DiskIsKept'
<1>1. DInv /\ exposed = {} => DiskIsKept
    BY DiskKept DEF DInv, CInv, IInv, CrashAtomic
<1> QED
    BY <1>1, PTL

\* A write changes what a crash may leave, from snapshots to snapshots.
LEMMA StepWrite ==
    ASSUME RInv, RInv', WriteFull \/ WriteAppend
                        \/ \E p \in Parts(st.batch) : WriteStopsShort(p),
           exposed' = {}
    PROVE  Promised!Write
<1>1. /\ UNCHANGED <<handle, mem, writeSeq, snapshots, ackSeq, sureSeq>>
      /\ st.pc = "staged"
    BY DEF WriteFull, WriteAppend, WriteStopsShort, memVars, flagVars, ghostVars
<1>2. handle # "none"
    BY <1>1 DEF RInv, DInv, CInv, IInv, AppendsToFile, FlushInProgress
<1>3. DiskIsKept'
    BY DiskKeptNext DEF RInv, DInv, CrashAtomic
<1> QED
    BY <1>1, <1>2, <1>3 DEF Promised!Write, Promised!DiskKept, DiskIsKept

LEMMA StepFlush ==
    ASSUME RInv, RInv', Flush, exposed = {}, exposed' = {}
    PROVE  Promised!Take \/ Promised!Write \/ UNCHANGED Promised!vars
<1>1. ASSUME NEW who \in Callers, FlushBegin(who)
      PROVE  Promised!Take
    <2>1. /\ UNCHANGED <<handle, mem, writeSeq, ackSeq, sureSeq>>
          /\ UNCHANGED diskVars /\ handle = "open"
          /\ snapshots' = snapshots \union {[seq |-> writeSeq, view |-> mem]}
        BY <1>1 DEF FlushBegin, memVars
    <2>2. Pool' = Pool /\ Near' = Near
        BY <2>1, SameDisk DEF Pool, Near
    <2> QED
        BY <2>1, <2>2 DEF Promised!Take, Promised!disk
<1>2. ASSUME NEW who \in Callers, FlushNothing(who)
      PROVE  UNCHANGED Promised!vars
    BY <1>2, NoStep DEF FlushNothing, memVars, flagVars, ghostVars
<1>3. CASE WriteFails
    BY <1>3, NoStep DEF WriteFails, memVars, flagVars, ghostVars
<1>4. CASE ApplyFlushed
    BY <1>4, NoStep DEF ApplyFlushed
<1> QED
    BY <1>1, <1>2, <1>3, <1>4, StepWrite DEF Flush

\* FlushSync answers for what every crash then leaves that undoes no rename.
LEMMA StepSync ==
    ASSUME RInv, RInv', SyncFile, exposed' = {}
    PROVE  Promised!Acknowledge
<1>1. /\ handle = "open" /\ UNCHANGED <<handle, mem, writeSeq, snapshots>>
      /\ ackSeq' = IF syncer.goal > ackSeq THEN syncer.goal ELSE ackSeq
      /\ sureSeq' \in {sureSeq, ackSeq'}
      /\ prior' \in {prior, {}} /\ mark' = Len(file.log) /\ file' = file
    BY DEF SyncFile, Acknowledge, SyncPath, memVars, flagVars
<1>2. ackSeq' \in ackSeq..writeSeq
    BY <1>1 DEF RInv, DInv, GoalsReached, CInv, IInv, TypeOK, HistoryOK, CallsOK,
                FlagsOK
<1>3. /\ PathImages' = {file} /\ Images' \subseteq Images
      /\ file \in PathImages
    BY <1>1, FsyncedImages, FileIsImage DEF RInv, DInv, CInv, IInv
<1>4. Pool' \subseteq Pool /\ Near' \subseteq Near
    BY <1>3 DEF Pool, Near
<1>5. DiskIsKept'
    BY DiskKeptNext DEF RInv
<1> QED
    BY <1>1, <1>2, <1>4, <1>5
    DEF Promised!Acknowledge, Promised!DiskKept, DiskIsKept

LEMMA StepCrash ==
    ASSUME RInv, ProcessCrash \/ \E img \in Images : PowerLoss(img)
    PROVE  Promised!Crash
<1>1. /\ handle' = "none" /\ mem' = EmptyView /\ writeSeq' = 0
      /\ UNCHANGED <<snapshots, sureSeq>>
    BY DEF ProcessCrash, PowerLoss, ForgetMemory, ghostVars
<1>2. TypeOK
    BY DEF RInv, DInv, CInv, IInv
<1>3. Images' \subseteq Images
    BY <1>2, CrashImages
<1>4. file' \in PathImages' /\ PathImages' \subseteq Images'
    BY FileIsImageNext, DurableNext DEF RInv, DInv, CInv, IInv, Next
<1>5. Near' # {} /\ Near' \subseteq Pool' /\ Pool' \subseteq Pool
    BY <1>3, <1>4 DEF Pool, Near
<1>6. \/ Near' \subseteq Near /\ ackSeq' = ackSeq
      \/ ackSeq' = sureSeq
    <2>1. CASE ProcessCrash
        BY <2>1, SameDisk DEF ProcessCrash, ghostVars, Near
    <2>2. ASSUME NEW img \in Images, PowerLoss(img)
          PROVE  \/ Near' \subseteq Near /\ ackSeq' = ackSeq
                 \/ ackSeq' = sureSeq
        BY <1>2, <2>2, PowerImages DEF PowerLoss, Near
    <2> QED
        BY <2>1, <2>2
<1> QED
    BY <1>1, <1>5, <1>6 DEF Promised!Crash, Promised!Empty, EmptyView

\* Open reads one of the contents the crash may have left, and the cut it makes
\* adds none to them.
LEMMA StepOpen ==
    ASSUME RInv, RInv', exposed = {},
           OpenNew \/ OpenV1 \/ \E log \in HealedLogs(file.log) : OpenV2(log)
    PROVE  Promised!Open
<1>1. /\ handle # "open" /\ handle' = "open" /\ writeSeq' = 0 /\ ackSeq' = 0
      /\ sureSeq' = 0
      /\ snapshots' = {[seq |-> 0, view |-> Replay(i.log)] : i \in Images'}
    BY DEF OpenNew, OpenV1, OpenV2, CanOpen, OpenedFresh, OpenedImages
<1>2. snapshots' = {[seq |-> 0, view |-> v] : v \in Pool'}
    BY <1>1 DEF Pool
<1>3. /\ TypeOK /\ file \in Images /\ file.log \in Log
      /\ mark \in 0..Len(file.log) /\ ~MayBeCorrupt(file.log)
      /\ file' \in PathImages' /\ PathImages' \subseteq Images'
    BY FileIsImage, FileIsImageNext
    DEF RInv, DInv, CInv, IInv, TornIsLast
<1>4. mem' = Replay(file'.log)
    <2>1. CASE OpenNew
        <3>1. file.log = <<>> /\ file' = file
            BY <1>3, <2>1 DEF OpenNew, RInv, NoFileIsEmpty, diskVars
        <3> QED
            BY <2>1, <3>1, NoDocuments DEF OpenNew
    <2>2. CASE OpenV1
        BY <2>2 DEF OpenV1, diskVars
    <2>3. ASSUME NEW log \in HealedLogs(file.log), OpenV2(log)
          PROVE  mem' = Replay(file'.log)
        BY <1>3, <2>3 DEF OpenV2, TypeOK, DiskOK, Image
    <2> QED
        BY <2>1, <2>2, <2>3
<1>5. Pool' \subseteq Pool
    <2>1. CASE OpenNew \/ OpenV1
        BY <2>1, SameDisk DEF OpenNew, OpenV1, Pool
    <2>2. ASSUME NEW log \in HealedLogs(file.log), OpenV2(log), NEW img \in Images'
          PROVE  \E old \in Images : Replay(img.log) = Replay(old.log)
        <3>1. /\ file'.log = log /\ file'.fmt = file.fmt /\ prior' = prior
              /\ mark' = IF mark > Len(log) THEN Len(log) ELSE mark
            BY <1>3, <2>2 DEF OpenV2, TypeOK, DiskOK, Image
        <3>2. CASE img \in prior
            BY <3>2 DEF Images
        <3>3. ASSUME NEW cut \in Cuts(file'.log, mark'),
                     img = [fmt |-> file'.fmt, log |-> cut]
              PROVE  \E old \in Images : Replay(img.log) = Replay(old.log)
            <4>1. PICK c \in Cuts(file.log, mark) : Replay(cut) = Replay(c)
                BY <1>3, <3>1, <3>3, HealedCuts
            <4>2. [fmt |-> file.fmt, log |-> c] \in Images
                BY <4>1 DEF Images, PathImages
            <4> QED
                BY <3>3, <4>1, <4>2
        <3> QED
            BY <2>2, <3>1, <3>2, <3>3 DEF Images, PathImages
    <2> QED
        BY <2>1, <2>2 DEF Pool
<1> QED
    BY <1>1, <1>2, <1>3, <1>4, <1>5 DEF Promised!Open, Pool, Near

LEMMA StepPromised ==
    ASSUME RInv, RInv', [Next]_vars
    PROVE  [Promised!Next]_Promised!vars
<1>1. CASE exposed # {} \/ exposed' # {}
    BY <1>1 DEF Promised!Next, Promised!Lost
<1>2. CASE exposed = {} /\ exposed' = {}
    <2>1. CASE UNCHANGED vars
        BY <2>1, NoStep DEF vars, memVars, flagVars, ghostVars
    <2>2. CASE Mutate
        BY <1>2, <2>2, StepMutate DEF Promised!Next
    <2>3. CASE Flush
        BY <1>2, <2>3, StepFlush DEF Promised!Next
    <2>4. CASE Compact \/ SyncCall \/ SyncFails \/ CloseCall
        BY <2>4, NoStep
        DEF Compact, SyncCall, SyncFails, CloseCall, memVars, flagVars, ghostVars
    <2>5. CASE SyncFile
        BY <1>2, <2>5, StepSync DEF Promised!Next
    <2>6. CASE SyncClosed
        BY <1>2, <2>6 DEF SyncClosed
    <2>7. CASE CloseMark
        <3>1. /\ handle = "open" /\ handle' = "closed" /\ UNCHANGED diskVars
              /\ UNCHANGED <<mem, writeSeq, snapshots, ackSeq, sureSeq>>
            BY <2>7 DEF CloseMark, memVars, flagVars, ghostVars
        <3>2. Pool' = Pool /\ Near' = Near
            BY <3>1, SameDisk DEF Pool, Near
        <3> QED
            BY <1>2, <3>1, <3>2 DEF Promised!Next, Promised!Close, Promised!disk
    <2>8. CASE ProcessCrash \/ \E img \in Images : PowerLoss(img)
        BY <1>2, <2>8, StepCrash DEF Promised!Next
    <2>9. CASE OpenNew \/ OpenV1 \/ \E log \in HealedLogs(file.log) : OpenV2(log)
        BY <1>2, <2>9, StepOpen DEF Promised!Next
    <2> QED
        BY <2>1, <2>2, <2>3, <2>4, <2>5, <2>6, <2>7, <2>8, <2>9 DEF Next
<1> QED
    BY <1>1, <1>2

LEMMA InitPromised == Init => Promised!Init
<1> SUFFICES ASSUME Init PROVE Promised!Init
    OBVIOUS
<1>1. file \in Image /\ file.log \in Log /\ TypeOK
    BY TypeInit, FileIsImage DEF TypeOK, DiskOK
<1>2. /\ handle = "none" /\ mem = EmptyView /\ writeSeq = 0 /\ ackSeq = 0
      /\ sureSeq = 0 /\ exposed = {} /\ prior = {} /\ mark = Len(file.log)
      /\ snapshots = {[seq |-> 0, view |-> Replay(file.log)]}
    BY DEF Init
<1>3. /\ PathImages = {[fmt |-> file.fmt, log |-> log] : log \in {file.log}}
      /\ Images = PathImages
    BY <1>1, <1>2, WholeCut DEF Images, PathImages
<1>4. Pool = {Replay(file.log)} /\ Near = Pool
    <2> DEFINE img == [fmt |-> file.fmt, log |-> file.log]
    <2>1. Images = {img} /\ img.log = file.log
        BY <1>3
    <2> HIDE DEF img
    <2>2. Pool = {Replay(img.log)} /\ Near = Pool
        BY <1>3, <2>1 DEF Pool, Near
    <2> QED
        BY <2>1, <2>2
<1>5. Replay(file.log) \in [Key -> Val \union {NoVal}]
    BY <1>1, ReplayType DEF View, MaybeVal
<1> QED
    BY <1>2, <1>4, <1>5 DEF Promised!Init, Promised!Empty, EmptyView

-----------------------------------------------------------------------------

\* Each step of the store - a mutation under s.mu, a step of a flush beside it,
\* FlushSync, Close, a crash, Open - is a step of the promise that a reader of
\* the API relies on, or is seen by nobody (file.go:380-695, filev2.go:548-712).
THEOREM StoreKeepsItsPromise == Spec => KeepsItsPromise
<1>1. Init => RInv /\ Promised!Init
    BY RInvInit, InitPromised
<1>2. RInv /\ [Next]_vars => RInv' /\ [Promised!Next]_Promised!vars
    BY RInvNext, StepPromised
<1> QED
    BY <1>1, <1>2, PTL DEF Spec, KeepsItsPromise, Promised!Spec
=============================================================================
