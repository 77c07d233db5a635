--------------------------- MODULE CrashSafeStore ---------------------------
(***************************************************************************)
(* What a store promises to those who do not know how it flushes: documents *)
(* in memory that change one at a time, a set of contents that a crash may *)
(* leave on the disk, each of which the memory has once been, all of it,   *)
(* and no older than what FlushSync has answered for - unless the crash    *)
(* undoes the renaming of a file, which takes back the answers that were   *)
(* given without the directory.                                            *)
(***************************************************************************)
EXTENDS Naturals

CONSTANTS Key, Val, NoVal

VARIABLES
    up,      \* "none", "open", "closed"
    mem,     \* the documents in memory
    seq,     \* how many mutations there have been since Open
    taken,   \* what the memory was when it was looked at: [seq, view]
    pool,    \* what a crash may leave
    near,    \* what one may leave that undoes no rename
    ack,     \* the mutations that FlushSync has answered for
    sure,    \* those of them that no undone rename takes back
    sound    \* FALSE when a known loss has happened: nothing is promised then

vars == <<up, mem, seq, taken, pool, near, ack, sure, sound>>

disk == <<pool, near, ack, sure>>

Empty == [k \in Key |-> NoVal]

\* What the disk may hold: something, and only what was taken no earlier than n.
Kept(contents, views, n) ==
    /\ contents # {}
    /\ \A v \in contents : \E s \in views : s.seq >= n /\ s.view = v

DiskKept ==
    /\ near' \subseteq pool'
    /\ Kept(near', taken, ack')
    /\ Kept(pool', taken, sure')

Init ==
    /\ up = "none" /\ mem = Empty /\ seq = 0 /\ ack = 0 /\ sure = 0 /\ sound = TRUE
    /\ \E v \in [Key -> Val \union {NoVal}] :
           pool = {v} /\ near = {v} /\ taken = {[seq |-> 0, view |-> v]}

\* One document is written or deleted.
Mutate ==
    /\ up # "none"
    /\ seq' = seq + 1
    /\ \E k \in Key, v \in Val \union {NoVal} : mem' = [mem EXCEPT ![k] = v]
    /\ UNCHANGED <<up, taken>>
    /\ UNCHANGED disk

\* The memory is looked at, all of it at once.
Take ==
    /\ up = "open"
    /\ taken' = taken \union {[seq |-> seq, view |-> mem]}
    /\ UNCHANGED <<up, mem, seq>>
    /\ UNCHANGED disk

\* The disk changes.
Write ==
    /\ up # "none"
    /\ UNCHANGED <<up, mem, seq, taken, ack, sure>>
    /\ DiskKept

\* FlushSync answers for the first n mutations, and crashes leave no older view;
\* if the directory refused, those may that undo a rename.
Acknowledge ==
    /\ up # "none"
    /\ ack' \in ack..seq
    /\ sure' \in {sure, ack'}
    /\ UNCHANGED <<up, mem, seq, taken>>
    /\ DiskKept
    /\ pool' \subseteq pool /\ near' \subseteq near

Close ==
    /\ up = "open" /\ up' = "closed"
    /\ UNCHANGED <<mem, seq, taken>>
    /\ UNCHANGED disk

Crash ==
    /\ up' = "none" /\ mem' = Empty /\ seq' = 0
    /\ UNCHANGED <<taken, sure>>
    /\ near' # {} /\ near' \subseteq pool' /\ pool' \subseteq pool
    /\ \/ near' \subseteq near /\ ack' = ack
       \/ ack' = sure

\* The store is one of the contents the crash may have left; looking at them
\* makes no new ones.
Open ==
    /\ up # "open" /\ up' = "open"
    /\ seq' = 0 /\ ack' = 0 /\ sure' = 0
    /\ near' \subseteq pool' /\ pool' \subseteq pool /\ mem' \in near'
    /\ taken' = {[seq |-> 0, view |-> v] : v \in pool'}

\* After a known loss nothing is promised until the store is opened again.
Lost == sound = FALSE \/ sound' = FALSE

Next ==
    \/ sound' = TRUE /\ (Mutate \/ Take \/ Write \/ Acknowledge \/ Close \/ Crash \/ Open)
    \/ Lost

Spec == Init /\ [][Next]_vars
=============================================================================
