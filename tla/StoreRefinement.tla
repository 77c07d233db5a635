-------------------------- MODULE StoreRefinement --------------------------
(***************************************************************************)
(* StoreFlush keeps the promises of CrashSafeStore.                        *)
(***************************************************************************)
EXTENDS StoreFlush

\* The contents a crash may leave: what is read from each image of the disk.
Pool == {Replay(img.log) : img \in Images}

\* What one leaves that undoes no rename.
Near == {Replay(img.log) : img \in PathImages}

Promised == INSTANCE CrashSafeStore WITH
    up    <- handle,
    mem   <- mem,
    seq   <- writeSeq,
    taken <- snapshots,
    pool  <- Pool,
    near  <- Near,
    ack   <- ackSeq,
    sure  <- sureSeq,
    sound <- exposed = {}

\* The flush pipeline implements the promise, step by step (file.go:380-695,
\* filev2.go:548-712): a step of a flush changes what a crash may leave only from
\* one whole view of the memory to a later one, FlushSync answers only for what
\* every crash then leaves that undoes no rename - every crash at all once the
\* directory has been synced - and Open invents nothing.
KeepsItsPromise == Promised!Spec
=============================================================================
