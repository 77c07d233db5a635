--------------------------- MODULE PageCacheProofs ---------------------------
(***************************************************************************)
(* The page cache, for every number of entries and readers, every budget   *)
(* and any number of mutations and flushes: evicting loses no document,    *)
(* readers answer with the document that was stored, the registry and its  *)
(* byte count are what is resident, and a load makes the room it can.      *)
(*                                                                         *)
(* Eviction is a search through the subsets of the registry. What the      *)
(* proofs need of it is stated once: EvictedFrom and Admitted relate the   *)
(* pool before and after it, whichever subset was chosen.                  *)
(***************************************************************************)
EXTENDS PageCache, FiniteSetTheorems, TLAPS

-----------------------------------------------------------------------------
(* The pool *)

Sized(p) == {k \in p.cached : p.size[k] = 1}

\* The registry holds resident entries only, and counts them.
Tallied(p) ==
    /\ \A k \in p.cached : p.docP[k] # NoDoc
    /\ p.bytes = Cardinality(Sized(p))

\* q is p after entries that are not marked were evicted.
EvictedFrom(p, q, marked) ==
    /\ q \in Pool
    /\ q.size = p.size
    /\ q.cached \subseteq p.cached
    /\ \A k \in Key : \/ q.docP[k] = p.docP[k]
                      \/ q.docP[k] = NoDoc /\ ~marked[k]
    /\ \A k \in p.cached \ q.cached : q.docP[k] = NoDoc
    /\ \A k \in q.cached : q.docP[k] = p.docP[k]
    /\ Tallied(p) => Tallied(q)

\* q is p after entry k has been registered in it.
Admitted(p, q, k, marked) ==
    /\ q \in Pool
    /\ q.size = p.size
    /\ q.cached \subseteq p.cached \union {k}
    /\ \A j \in Key : \/ q.docP[j] = p.docP[j]
                      \/ q.docP[j] = NoDoc /\ ~marked[j]
    /\ \A j \in (p.cached \union {k}) \ q.cached : q.docP[j] = NoDoc
    /\ \A j \in q.cached : q.docP[j] = p.docP[j]
    /\ k \in p.cached => q = p
    /\ k \notin p.cached /\ OverBudget(q) => \A j \in q.cached : marked[j]
    /\ Tallied(p) /\ p.docP[k] # NoDoc => Tallied(q)

LEMMA KeysAreFinite == \A S : S \subseteq Key => IsFiniteSet(S)
  <1>1. IsFiniteSet(Key)
    BY FS_Interval, BoundsAssumption DEF Key
  <1> QED
    BY <1>1, FS_Subset

LEMMA FreedIsNat == \A p \in Pool, E \in SUBSET Key : Freed(p, E) \in Nat
  BY KeysAreFinite, FS_CardinalityType DEF Freed

\* Evicting registered entries that are not marked, any of them.
LEMMA EvictEvicts ==
    ASSUME NEW p \in Pool, NEW marked \in [Key -> BOOLEAN],
           NEW E, E \subseteq p.cached, \A k \in E : ~marked[k]
    PROVE  /\ EvictedFrom(p, Evict(p, E), marked)
           /\ Evict(p, E).cached = p.cached \ E
           /\ Evict(p, E).refBit = p.refBit
           /\ Evict(p, E).bytes <= p.bytes
  <1> DEFINE q == Evict(p, E)
  <1>1. E \in SUBSET Key
    BY DEF Pool
  <1>2. Remaining(p, E) \in Nat
    BY <1>1, FreedIsNat DEF Remaining, Pool
  <1>3. /\ q \in Pool
        /\ q.docP = [k \in Key |-> IF k \in E THEN NoDoc ELSE p.docP[k]]
        /\ q.size = p.size
        /\ q.refBit = p.refBit
        /\ q.cached = p.cached \ E
        /\ q.bytes = Remaining(p, E)
    BY <1>1, <1>2 DEF Evict, Pool, MaybeDoc
  <1>4. ASSUME Tallied(p)
        PROVE  Tallied(q)
    <2> DEFINE F == {k \in E : p.docP[k] # NoDoc /\ p.size[k] = 1}
    <2>1. \A k \in q.cached : q.docP[k] # NoDoc
      BY <1>1, <1>3, <1>4 DEF Tallied, Pool
    <2>2. Sized(q) = Sized(p) \ F /\ F \subseteq Sized(p)
      BY <1>3, <1>4 DEF Sized, Tallied, Pool
    <2>3. IsFiniteSet(Sized(p)) /\ IsFiniteSet(F)
      BY KeysAreFinite DEF Sized, Pool
    <2>4. /\ Cardinality(Sized(q)) = Cardinality(Sized(p)) - Cardinality(F)
          /\ Cardinality(F) <= Cardinality(Sized(p))
          /\ Cardinality(F) \in Nat /\ Cardinality(Sized(p)) \in Nat
      <3>1. Sized(p) \cap F = F
        BY <2>2
      <3>2. Cardinality(Sized(p) \ F) = Cardinality(Sized(p)) - Cardinality(Sized(p) \cap F)
        BY <2>3, FS_Difference
      <3> QED
        BY <3>1, <3>2, <2>2, <2>3, FS_Subset, FS_CardinalityType
    <2>5. Freed(p, E) = Cardinality(F)
      BY DEF Freed
    <2>6. q.bytes = Cardinality(Sized(q))
      BY <1>3, <1>4, <2>4, <2>5 DEF Tallied, Remaining
    <2> QED
      BY <2>1, <2>6 DEF Tallied
  <1>5. q.bytes <= p.bytes
    BY <1>1, <1>3, FreedIsNat DEF Remaining, Pool
  <1> QED
    BY <1>1, <1>3, <1>4, <1>5 DEF EvictedFrom, Pool

LEMMA SweepEvicts ==
    ASSUME NEW p \in Pool, NEW marked \in [Key -> BOOLEAN],
           NEW q \in Sweep(p, marked)
    PROVE  /\ EvictedFrom(p, q, marked)
           /\ q.refBit = p.refBit
           /\ OverBudget(q) => q.cached = p.cached \ Evictable(p, marked)
  <1>1. PICK E \in SUBSET Evictable(p, marked) :
           /\ q = Evict(p, E)
           /\ E = Evictable(p, marked) \/ Evict(p, E).bytes <= Budget
    BY DEF Sweep
  <1>2. E \subseteq p.cached /\ \A k \in E : ~marked[k]
    BY <1>1 DEF Evictable
  <1>3. /\ EvictedFrom(p, q, marked)
        /\ q.cached = p.cached \ E
        /\ q.refBit = p.refBit
    BY <1>1, <1>2, EvictEvicts
  <1>4. ASSUME OverBudget(q)
        PROVE  q.cached = p.cached \ Evictable(p, marked)
    <2>1. q.bytes \in Nat
      BY <1>3 DEF EvictedFrom, Pool
    <2>2. ~(q.bytes <= Budget)
      BY <1>4, <2>1, BoundsAssumption DEF OverBudget
    <2> QED
      BY <1>1, <1>3, <2>2
  <1> QED
    BY <1>3, <1>4

LEMMA ClearRefBitsKeeps ==
    ASSUME NEW p \in Pool, NEW marked \in [Key -> BOOLEAN]
    PROVE  /\ EvictedFrom(p, ClearRefBits(p), marked)
           /\ ClearRefBits(p).cached = p.cached
           /\ \A k \in p.cached : ~ClearRefBits(p).refBit[k]
  <1> DEFINE q == ClearRefBits(p)
  <1>1. /\ q \in Pool
        /\ q.docP = p.docP /\ q.size = p.size /\ q.cached = p.cached
        /\ q.bytes = p.bytes
        /\ q.refBit = [k \in Key |-> p.refBit[k] /\ k \notin p.cached]
    BY DEF ClearRefBits, Pool
  <1>2. Tallied(p) => Tallied(q)
    BY <1>1 DEF Tallied, Sized
  <1> QED
    BY <1>1, <1>2 DEF EvictedFrom, Pool

LEMMA EvictedFromTwice ==
    ASSUME NEW p \in Pool, NEW marked \in [Key -> BOOLEAN], NEW q, NEW r,
           EvictedFrom(p, q, marked), EvictedFrom(q, r, marked)
    PROVE  EvictedFrom(p, r, marked)
  <1>1. p.cached \subseteq Key /\ q.cached \subseteq Key /\ r.cached \subseteq Key
    BY DEF EvictedFrom, Pool
  <1> QED
    BY <1>1 DEF EvictedFrom

\* What evictLocked leaves: it is within the budget, or nothing in it may go.
LEMMA ShrunkFits ==
    ASSUME NEW p \in Pool, NEW marked \in [Key -> BOOLEAN],
           NEW q \in Shrunk(p, marked)
    PROVE  /\ EvictedFrom(p, q, marked)
           /\ OverBudget(q) => \A k \in q.cached : marked[k]
  <1>1. CASE ~OverBudget(p)
    <2>1. q = p
      BY <1>1 DEF Shrunk
    <2> QED
      BY <1>1, <2>1 DEF EvictedFrom
  <1>2. CASE OverBudget(p) /\ q \in Sweep(p, marked) /\ ~OverBudget(q)
    BY <1>2, SweepEvicts
  <1>3. ASSUME NEW s \in Sweep(p, marked), OverBudget(s),
               q \in Sweep(ClearRefBits(s), marked)
        PROVE  /\ EvictedFrom(p, q, marked)
               /\ OverBudget(q) => \A k \in q.cached : marked[k]
    <2> DEFINE c == ClearRefBits(s)
    <2>1. EvictedFrom(p, s, marked) /\ s \in Pool
      BY <1>3, SweepEvicts DEF EvictedFrom
    <2>2. /\ EvictedFrom(s, c, marked) /\ c \in Pool
          /\ c.cached = s.cached
          /\ \A k \in s.cached : ~c.refBit[k]
      BY <2>1, ClearRefBitsKeeps DEF EvictedFrom
    <2> HIDE DEF c
    <2>3. /\ EvictedFrom(c, q, marked)
          /\ OverBudget(q) => q.cached = c.cached \ Evictable(c, marked)
      BY <1>3, <2>2, SweepEvicts DEF c
    <2>4. EvictedFrom(p, c, marked)
      BY <2>1, <2>2, EvictedFromTwice
    <2>5. EvictedFrom(p, q, marked)
      BY <2>3, <2>4, EvictedFromTwice
    <2>6. OverBudget(q) => \A k \in q.cached : marked[k]
      BY <2>2, <2>3 DEF Evictable
    <2> QED
      BY <2>5, <2>6
  <1> QED
    BY <1>1, <1>2, <1>3 DEF Shrunk

LEMMA AdmitFits ==
    ASSUME NEW p \in Pool, NEW k \in Key, NEW marked \in [Key -> BOOLEAN],
           NEW q \in Admit(p, k, marked)
    PROVE  Admitted(p, q, k, marked)
  <1>1. CASE k \in p.cached
    <2>1. q = p
      BY <1>1 DEF Admit
    <2> QED
      BY <1>1, <2>1 DEF Admitted
  <1>2. CASE k \notin p.cached
    <2> DEFINE g == [p EXCEPT !.cached = @ \union {k}, !.bytes = @ + p.size[k]]
    <2>0. p.size[k] \in {0, 1} /\ p.bytes + p.size[k] \in Nat
      BY DEF Pool
    <2>1. /\ g \in Pool
          /\ g.docP = p.docP /\ g.size = p.size
          /\ g.cached = p.cached \union {k}
          /\ g.bytes = p.bytes + p.size[k]
      BY <2>0 DEF Pool
    <2>2. q \in Shrunk(g, marked)
      BY <1>2 DEF Admit
    <2> HIDE DEF g
    <2>3. /\ EvictedFrom(g, q, marked)
          /\ OverBudget(q) => \A j \in q.cached : marked[j]
      BY <2>1, <2>2, ShrunkFits
    <2>4. ASSUME Tallied(p), p.docP[k] # NoDoc
          PROVE  Tallied(g)
      <3>1. \A j \in g.cached : g.docP[j] # NoDoc
        BY <2>1, <2>4 DEF Tallied
      <3>2. IsFiniteSet(Sized(p)) /\ k \notin Sized(p)
        BY <1>2, KeysAreFinite DEF Sized, Pool
      <3>3. Cardinality(Sized(p) \union {k}) = Cardinality(Sized(p)) + 1
        BY <3>2, FS_AddElement
      <3>4. p.size[k] = 1 => Sized(g) = Sized(p) \union {k}
        BY <2>1 DEF Sized
      <3>5. p.size[k] # 1 => Sized(g) = Sized(p)
        BY <2>1 DEF Sized
      <3>6. p.bytes = Cardinality(Sized(p)) /\ Cardinality(Sized(p)) \in Nat
        BY <2>4, <3>2, FS_CardinalityType DEF Tallied
      <3>7. CASE p.size[k] = 1
        BY <2>1, <3>1, <3>3, <3>4, <3>6, <3>7 DEF Tallied
      <3>8. CASE p.size[k] = 0
        BY <2>1, <3>1, <3>5, <3>6, <3>8 DEF Tallied
      <3> QED
        BY <2>0, <3>7, <3>8
    <2> QED
      BY <1>2, <2>1, <2>3, <2>4 DEF Admitted, EvictedFrom
  <1> QED
    BY <1>1, <1>2

\* p with what the entry of k holds replaced.
WithEntry(p, k, d, s, bits) ==
    [p EXCEPT !.docP[k] = d, !.size[k] = s, !.refBit = bits]

WithDoc(p, k, d) == [p EXCEPT !.docP[k] = d]

Used(p, k) == [p EXCEPT !.refBit[k] = TRUE]

LEMMA WithEntryFits ==
    ASSUME NEW p \in Pool, NEW k \in Key, NEW d \in MaybeDoc, NEW s \in 0..1,
           NEW bits \in [Key -> BOOLEAN]
    PROVE  /\ WithEntry(p, k, d, s, bits) \in Pool
           /\ \A j \in Key : WithEntry(p, k, d, s, bits).docP[j] = IF j = k THEN d ELSE p.docP[j]
           /\ \A j \in Key : WithEntry(p, k, d, s, bits).size[j] = IF j = k THEN s ELSE p.size[j]
           /\ WithEntry(p, k, d, s, bits).cached = p.cached
           /\ WithEntry(p, k, d, s, bits).bytes = p.bytes
           /\ /\ Tallied(p)
              /\ k \in p.cached => d # NoDoc /\ s = p.size[k]
              => Tallied(WithEntry(p, k, d, s, bits))
  <1> DEFINE q == WithEntry(p, k, d, s, bits)
  <1>1. /\ q \in Pool
        /\ \A j \in Key : q.docP[j] = IF j = k THEN d ELSE p.docP[j]
        /\ \A j \in Key : q.size[j] = IF j = k THEN s ELSE p.size[j]
        /\ q.cached = p.cached
        /\ q.bytes = p.bytes
    BY DEF WithEntry, Pool
  <1> HIDE DEF q
  <1>2. ASSUME Tallied(p), k \in p.cached => d # NoDoc /\ s = p.size[k]
        PROVE  Tallied(q)
    <2>1. Sized(q) = Sized(p)
      BY <1>1, <1>2 DEF Sized, Pool
    <2>2. \A j \in q.cached : q.docP[j] # NoDoc
      BY <1>1, <1>2 DEF Tallied, Pool
    <2> QED
      BY <1>1, <1>2, <2>1, <2>2 DEF Tallied
  <1> QED
    BY <1>1, <1>2 DEF q

LEMMA WithDocFits ==
    ASSUME NEW p \in Pool, NEW k \in Key, NEW d \in Doc
    PROVE  /\ WithDoc(p, k, d) \in Pool
           /\ \A j \in Key : WithDoc(p, k, d).docP[j] = IF j = k THEN d ELSE p.docP[j]
           /\ WithDoc(p, k, d).size = p.size
           /\ WithDoc(p, k, d).cached = p.cached
           /\ WithDoc(p, k, d).bytes = p.bytes
           /\ Tallied(p) => Tallied(WithDoc(p, k, d))
  <1> DEFINE q == WithDoc(p, k, d)
  <1>1. /\ q \in Pool
        /\ \A j \in Key : q.docP[j] = IF j = k THEN d ELSE p.docP[j]
        /\ q.size = p.size
        /\ q.cached = p.cached
        /\ q.bytes = p.bytes
    BY DEF WithDoc, Pool, MaybeDoc
  <1> HIDE DEF q
  <1>2. d # NoDoc
    BY DEF Doc, NoDoc, Key
  <1>3. Tallied(p) => Tallied(q)
    BY <1>1, <1>2 DEF Tallied, Sized, Pool
  <1> QED
    BY <1>1, <1>3 DEF q

LEMMA UsedFits ==
    ASSUME NEW p \in Pool, NEW k \in Key
    PROVE  /\ Used(p, k) \in Pool
           /\ Used(p, k).docP = p.docP
           /\ Used(p, k).size = p.size
           /\ Used(p, k).cached = p.cached
           /\ Used(p, k).bytes = p.bytes
           /\ Tallied(p) => Tallied(Used(p, k))
  BY DEF Used, Pool, Tallied, Sized

-----------------------------------------------------------------------------
(* The inductive invariant *)

Faithful == "stale_read" \notin exposed

\* The entries that the flush has taken the document of.
Taken == {flusher.docs[i].key : i \in 1..Len(flusher.docs)}

\* A document knows its _id; what is not saved is in memory.
Entries ==
    \A k \in Key :
        /\ want[k] # NoDoc => want[k].id = k
        /\ want[k] = NoDoc => pool.docP[k] = NoDoc /\ ~dirty[k]
        /\ dirty[k] => pool.docP[k] # NoDoc
        /\ mutGen[k] <= dirtyGen

\* While one reads nothing is changed, and a load is of a clean entry.
Readers ==
    \A r \in Reader : rd[r].pc # "idle" =>
        /\ want[rd[r].key] # NoDoc
        /\ flusher.pc # "load"
        /\ rd[r].pc \in {"read", "check", "store", "admit"} => ~dirty[rd[r].key]
        /\ rd[r].pc = "read" => rd[r].off = recOff[rd[r].key]
        /\ rd[r].pc \in {"check", "store", "admit"} => rd[r].got # NoDoc

\* What was mutated after the snapshot of a flush is not saved, and what the
\* flush wrote is in the file where it says.
Flushing ==
    flusher.pc # "idle" =>
        /\ flusher.gen <= dirtyGen
        /\ flusher.pc = "load" => flusher.gen = dirtyGen
        /\ flusher.pc \in {"staged", "written"} => flusher.todo = {}
        /\ \A k \in Key : want[k] # NoDoc /\ ~dirty[k] => mutGen[k] <= flusher.gen
        /\ \A k \in flusher.todo : want[k] # NoDoc
        /\ flusher.pc = "written" =>
              \A i \in 1..Len(flusher.docs) :
                  /\ flusher.at + i \in 1..Len(file)
                  /\ file[flusher.at + i] = flusher.docs[i].doc

\* A document is in memory, or its record is where the entry says.
Memory ==
    Faithful => \A k \in Key : want[k] # NoDoc =>
        /\ pool.docP[k] \in {want[k], NoDoc}
        /\ ~dirty[k] => recOff[k] # 0 /\ (~Replaced => At(recOff[k]) = want[k])

\* What a flush took is what the store holds, unless it was mutated since; a
\* rewrite takes all of it.
Batch ==
    Faithful /\ flusher.pc # "idle" =>
        /\ \A i \in 1..Len(flusher.docs) :
              LET k == flusher.docs[i].key
              IN  want[k] # NoDoc /\ mutGen[k] <= flusher.gen =>
                      flusher.docs[i].doc = want[k]
        /\ flusher.full =>
              \A k \in Key : want[k] # NoDoc /\ mutGen[k] <= flusher.gen =>
                  k \in flusher.todo \/ k \in Taken

Answers ==
    Faithful => \A r \in Reader :
        rd[r].pc \in {"check", "store", "admit", "done"} =>
            rd[r].got = want[rd[r].key]

\* What is resident and not registered is being loaded by a reader.
Counted ==
    exposed \subseteq {"stale_read"} =>
        /\ Tallied(pool)
        /\ \A k \in Key : pool.docP[k] # NoDoc /\ k \notin pool.cached =>
              \E r \in Reader : rd[r].pc = "admit" /\ rd[r].key = k
        /\ \A r \in Reader :
              (rd[r].pc = "admit" \/ (rd[r].pc = "store" /\ rd[r].key \in pool.cached))
                  => pool.size[rd[r].key] = 1

\* Over the budget there is nothing left to evict; a reader that finds its
\* entry registered is not the one to make room, and room was made.
Room ==
    /\ OverBudget(pool) => \A k \in pool.cached : pool.docP[k] # NoDoc
    /\ \A r \in Reader :
          rd[r].pc \in {"store", "admit"} /\ rd[r].key \in pool.cached =>
              (OverBudget(pool) => \A k \in pool.cached : dirty[k])

PInv ==
    /\ TypeOK /\ Entries /\ Readers /\ Flushing
    /\ Memory /\ Batch /\ Answers /\ Counted /\ Room

-----------------------------------------------------------------------------
(* Loading an entry *)

LEMMA AtType == TypeOK => \A off : At(off) \in MaybeDoc
  BY DEF TypeOK, At, MaybeDoc

\* What a load by a caller that holds s.mu alone gives, and leaves.
LoadedRight(k, got) ==
    /\ got.doc \in MaybeDoc /\ got.pool \in Pool
    /\ got.doc = NoDoc => got.pool = pool
    /\ pool.docP[k] # NoDoc => got.doc = pool.docP[k]
    /\ pool.docP[k] = NoDoc => got.doc \in {NoDoc, At(recOff[k])}
    /\ \A j \in Key :
          \/ got.pool.docP[j] = pool.docP[j]
          \/ j = k /\ got.pool.docP[j] = got.doc
          \/ got.pool.docP[j] = NoDoc /\ ~dirty[j]
    /\ OverBudget(got.pool) =>
          \A j \in got.pool.cached : got.pool.docP[j] # NoDoc
    /\ /\ Tallied(pool)
       /\ \A j \in Key : pool.docP[j] # NoDoc => j \in pool.cached
       => /\ Tallied(got.pool)
          /\ \A j \in Key : got.pool.docP[j] # NoDoc => j \in got.pool.cached

LEMMA LoadedGives ==
    ASSUME PInv, NEW k \in Key, NEW got \in Loaded(k)
    PROVE  LoadedRight(k, got)
  <1>1. /\ pool \in Pool /\ dirty \in [Key -> BOOLEAN]
        /\ pool.docP \in [Key -> MaybeDoc] /\ pool.cached \subseteq Key
        /\ \A j \in Key : dirty[j] => pool.docP[j] # NoDoc
        /\ OverBudget(pool) => \A j \in pool.cached : pool.docP[j] # NoDoc
    BY DEF PInv, TypeOK, Pool, Entries, Room
  <1>2. NoDoc \in MaybeDoc /\ At(recOff[k]) \in MaybeDoc
    BY AtType DEF PInv, MaybeDoc
  <1>3. ASSUME got = [doc |-> NoDoc, pool |-> pool], pool.docP[k] = NoDoc
        PROVE  LoadedRight(k, got)
    BY <1>1, <1>2, <1>3 DEF LoadedRight
  <1>4. ASSUME pool.docP[k] # NoDoc,
               got = [doc |-> pool.docP[k],
                      pool |-> [pool EXCEPT !.refBit[k] = TRUE]]
        PROVE  LoadedRight(k, got)
    <2>1. got.doc = pool.docP[k] /\ got.pool = Used(pool, k)
      BY <1>4 DEF Used
    <2>2. /\ got.pool \in Pool
          /\ got.pool.docP = pool.docP
          /\ got.pool.cached = pool.cached
          /\ got.pool.bytes = pool.bytes
          /\ Tallied(pool) => Tallied(got.pool)
      BY <1>1, <2>1, UsedFits
    <2> QED
      BY <1>1, <1>4, <2>1, <2>2 DEF LoadedRight, OverBudget
  <1>5. ASSUME pool.docP[k] = NoDoc, At(recOff[k]) # NoDoc,
               NEW p \in Admit([pool EXCEPT !.docP[k] = At(recOff[k]),
                                            !.size[k] = 1, !.refBit[k] = TRUE],
                               k, dirty),
               got = [doc |-> At(recOff[k]), pool |-> p]
        PROVE  LoadedRight(k, got)
    <2> DEFINE d == At(recOff[k])
               bits == [pool.refBit EXCEPT ![k] = TRUE]
               full == WithEntry(pool, k, d, 1, bits)
    <2>1. p \in Admit(full, k, dirty)
      BY <1>5 DEF WithEntry
    <2>2. /\ full \in Pool
          /\ \A j \in Key : full.docP[j] = IF j = k THEN d ELSE pool.docP[j]
          /\ full.cached = pool.cached
          /\ full.bytes = pool.bytes
          /\ Tallied(pool) => k \notin pool.cached
          /\ Tallied(pool) => Tallied(full)
      <3>1. Tallied(pool) => k \notin pool.cached
        BY <1>5 DEF Tallied
      <3>2. 1 \in 0..1 /\ bits \in [Key -> BOOLEAN] /\ d \in MaybeDoc
        BY <1>1, <1>2 DEF Pool
      <3> HIDE DEF d, bits
      <3>3. /\ full \in Pool
            /\ \A j \in Key : full.docP[j] = IF j = k THEN d ELSE pool.docP[j]
            /\ full.cached = pool.cached
            /\ full.bytes = pool.bytes
        BY <1>1, <3>2, WithEntryFits
      <3>4. Tallied(pool) => Tallied(full)
        BY <1>1, <3>1, <3>2, WithEntryFits
      <3> QED
        BY <3>1, <3>3, <3>4
    <2>3. got.doc = d /\ got.pool = p
      BY <1>5
    <2> HIDE DEF full
    <2>4. Admitted(full, p, k, dirty)
      BY <1>1, <2>1, <2>2, AdmitFits
    <2> HIDE DEF d
    <2>5. d \in MaybeDoc /\ d # NoDoc
      BY <1>2, <1>5 DEF d
    <2>6. \A j \in Key :
             \/ p.docP[j] = pool.docP[j]
             \/ j = k /\ p.docP[j] = d
             \/ p.docP[j] = NoDoc /\ ~dirty[j]
      BY <1>1, <2>2, <2>4 DEF Admitted
    <2>7. ASSUME OverBudget(p)
          PROVE  \A j \in p.cached : p.docP[j] # NoDoc
      <3>1. CASE k \in full.cached
        BY <1>1, <2>2, <2>4, <2>5, <2>7, <3>1 DEF Admitted, OverBudget
      <3>2. CASE k \notin full.cached
        BY <1>1, <2>2, <2>4, <2>5, <2>7, <3>2 DEF Admitted, Pool
      <3> QED
        BY <3>1, <3>2
    <2>8. ASSUME Tallied(pool), \A j \in Key : pool.docP[j] # NoDoc => j \in pool.cached
          PROVE  /\ Tallied(p)
                 /\ \A j \in Key : p.docP[j] # NoDoc => j \in p.cached
      BY <1>1, <2>2, <2>4, <2>5, <2>8 DEF Admitted
    <2> QED
      BY <1>5, <2>3, <2>4, <2>5, <2>6, <2>7, <2>8 DEF LoadedRight, Admitted, d
  <1>6. CASE pool.docP[k] # NoDoc
    BY <1>4, <1>6 DEF Loaded
  <1>7. CASE pool.docP[k] = NoDoc /\ At(recOff[k]) = NoDoc
    BY <1>3, <1>7 DEF Loaded
  <1>8. CASE pool.docP[k] = NoDoc /\ At(recOff[k]) # NoDoc
    <2>1. \/ got = [doc |-> NoDoc, pool |-> pool]
          \/ \E p \in Admit([pool EXCEPT !.docP[k] = At(recOff[k]),
                                         !.size[k] = 1, !.refBit[k] = TRUE],
                            k, dirty) :
                got = [doc |-> At(recOff[k]), pool |-> p]
      BY <1>8 DEF Loaded
    <2> QED
      BY <1>3, <1>5, <1>8, <2>1
  <1> QED
    BY <1>6, <1>7, <1>8

-----------------------------------------------------------------------------
(* The initial states *)

LEMMA OpenedFilesHold ==
    ASSUME NEW S \in SUBSET Key, NEW d \in [Key -> MaybeDoc],
           NEW f \in OpenedFiles(S, d)
    PROVE  /\ f \in Seq(MaybeDoc)
           /\ \A k \in S : \E i \in 1..Len(f) : f[i] = d[k]
  <1> DEFINE n == Cardinality(S)
             Held(g) == /\ g \in Seq(MaybeDoc)
                        /\ \A k \in S : \E i \in 1..Len(g) : g[i] = d[k]
  <1>1. n \in Nat
    BY KeysAreFinite, FS_CardinalityType
  <1>2. NoDoc \in MaybeDoc
    BY DEF MaybeDoc
  <1> HIDE DEF n
  <1>3. ASSUME NEW o \in [1..n -> S], \A k \in S : \E i \in 1..n : o[i] = k
        PROVE  Held([i \in 1..n + 1 |-> IF i > n THEN NoDoc ELSE d[o[i]]])
    <2> DEFINE g == [i \in 1..n + 1 |-> IF i > n THEN NoDoc ELSE d[o[i]]]
    <2>1. n + 1 \in Nat
      BY <1>1
    <2>2. \A i \in 1..n + 1 : g[i] \in MaybeDoc
      BY <1>1, <1>2
    <2>3. g \in Seq(MaybeDoc) /\ Len(g) = n + 1
      BY <2>1, <2>2
    <2>4. ASSUME NEW k \in S
          PROVE  \E i \in 1..Len(g) : g[i] = d[k]
      <3>1. PICK i \in 1..n : o[i] = k
        BY <1>3
      <3>2. i \in 1..Len(g) /\ g[i] = d[k]
        BY <1>1, <2>3, <3>1
      <3> QED
        BY <3>2
    <2> QED
      BY <2>3, <2>4
  <1>4. ASSUME NEW o \in [1..n -> S], \A k \in S : \E i \in 1..n : o[i] = k
        PROVE  Held([i \in 1..2 * n |->
                        IF i % 2 = 0 THEN NoDoc ELSE d[o[(i + 1) \div 2]]])
    <2> DEFINE g == [i \in 1..2 * n |->
                        IF i % 2 = 0 THEN NoDoc ELSE d[o[(i + 1) \div 2]]]
    <2>1. 2 * n \in Nat
      BY <1>1
    <2>2. \A i \in 1..2 * n : i % 2 # 0 => (i + 1) \div 2 \in 1..n
      BY <1>1
    <2>3. \A i \in 1..2 * n : g[i] \in MaybeDoc
      BY <1>1, <1>2, <2>2
    <2>4. g \in Seq(MaybeDoc) /\ Len(g) = 2 * n
      BY <2>1, <2>3
    <2>5. ASSUME NEW k \in S
          PROVE  \E i \in 1..Len(g) : g[i] = d[k]
      <3>1. PICK i \in 1..n : o[i] = k
        BY <1>4
      <3>2. /\ 2 * i - 1 \in 1..2 * n
            /\ (2 * i - 1) % 2 # 0
            /\ ((2 * i - 1) + 1) \div 2 = i
        BY <1>1
      <3>3. g[2 * i - 1] = d[k]
        BY <3>1, <3>2
      <3> QED
        BY <2>4, <3>2, <3>3
    <2> QED
      BY <2>4, <2>5
  <1>5. \/ \E o \in [1..n -> S] :
              /\ \A k \in S : \E i \in 1..n : o[i] = k
              /\ f = [i \in 1..n + 1 |-> IF i > n THEN NoDoc ELSE d[o[i]]]
        \/ \E o \in [1..n -> S] :
              /\ \A k \in S : \E i \in 1..n : o[i] = k
              /\ f = [i \in 1..2 * n |->
                         IF i % 2 = 0 THEN NoDoc ELSE d[o[(i + 1) \div 2]]]
    BY DEF OpenedFiles, n
  <1> HIDE DEF Held
  <1>6. Held(f)
    BY <1>3, <1>4, <1>5
  <1> QED
    BY <1>6 DEF Held

LEMMA PInvInit == Init => PInv
  <1> SUFFICES ASSUME Init PROVE PInv
    OBVIOUS
  <1>1. PICK S \in SUBSET Key, v \in Val :
           /\ want = [k \in Key |-> IF k \in S THEN [id |-> k, val |-> v] ELSE NoDoc]
           /\ file \in OpenedFiles(S, want)
    BY DEF Init
  <1>2. want \in [Key -> MaybeDoc]
    BY <1>1 DEF MaybeDoc, Doc
  <1>3. /\ file \in Seq(MaybeDoc)
        /\ \A k \in S : \E i \in 1..Len(file) : file[i] = want[k]
    BY <1>1, <1>2, OpenedFilesHold
  <1>4. \A k \in Key : want[k] # NoDoc => k \in S /\ want[k].id = k
    BY <1>1
  <1>5. /\ recOff \in [Key -> Nat]
        /\ \A k \in Key : want[k] # NoDoc =>
              recOff[k] \in 1..Len(file) /\ file[recOff[k]] = want[k]
    <2>1. ASSUME NEW k \in Key, want[k] # NoDoc
          PROVE  recOff[k] \in 1..Len(file) /\ file[recOff[k]] = want[k]
      <3>1. \E i \in 1..Len(file) : file[i] = want[k]
        BY <1>3, <1>4, <2>1
      <3>2. recOff[k] = CHOOSE i \in 1..Len(file) : file[i] = want[k]
        BY <2>1 DEF Init
      <3> QED
        BY <3>1, <3>2
    <2>2. \A k \in Key : recOff[k] \in Nat
      <3>1. \A k \in Key : want[k] = NoDoc => recOff[k] = 0
        BY DEF Init
      <3>2. Len(file) \in Nat
        BY <1>3
      <3> QED
        BY <2>1, <3>1, <3>2
    <2> QED
      BY <2>1, <2>2 DEF Init
  <1>6. pool \in Pool /\ Tallied(pool)
    <2>1. pool \in Pool
      BY DEF Init, Pool, MaybeDoc
    <2>2. Sized(pool) = {}
      BY DEF Init, Sized
    <2> QED
      BY <2>1, <2>2, FS_EmptySet DEF Init, Tallied
  <1>7. 1 \in Key
    BY BoundsAssumption DEF Key
  <1>8. TypeOK
    <2>1. NoFlush \in [pc: {"idle", "load", "staged", "written"}, full: BOOLEAN,
                       gen: Nat, todo: SUBSET Key, docs: Seq(Staged), at: Nat]
      BY DEF NoFlush
    <2>2. NotReading \in [pc: {"idle", "read", "check", "store", "admit", "done"},
                          key: Key, off: Nat, got: MaybeDoc]
      BY <1>7 DEF NotReading, MaybeDoc
    <2>3. /\ dirty \in [Key -> BOOLEAN] /\ mutGen \in [Key -> Nat]
          /\ orphans \in Nat /\ dirtyGen \in Nat /\ flushes \in Nat
          /\ unsaved \in BOOLEAN /\ compactForce \in BOOLEAN
          /\ flusher = NoFlush
          /\ rd = [r \in Reader |-> NotReading]
          /\ exposed = {}
      BY DEF Init
    <2> QED
      BY <1>2, <1>3, <1>5, <1>6, <2>1, <2>2, <2>3 DEF TypeOK
  <1>9. Entries /\ Readers /\ Flushing /\ Answers
    BY <1>4, <1>8 DEF Init, Entries, Readers, Flushing, Answers, NoFlush,
       NotReading, TypeOK
  <1>10. Memory /\ Batch
    <2>1. \A k \in Key : want[k] # NoDoc =>
             /\ pool.docP[k] = NoDoc
             /\ recOff[k] # 0 /\ At(recOff[k]) = want[k]
      BY <1>3, <1>5 DEF At, Init
    <2> QED
      BY <2>1 DEF Memory, Batch, Init, NoFlush
  <1>11. Counted /\ Room
    <2>1. \A r \in Reader : rd[r].pc = "idle"
      BY DEF Init, NotReading
    <2>2. pool.cached = {} /\ \A k \in Key : pool.docP[k] = NoDoc
      BY DEF Init
    <2> QED
      BY <1>6, <2>1, <2>2 DEF Counted, Room
  <1> QED
    BY <1>8, <1>9, <1>10, <1>11 DEF PInv

-----------------------------------------------------------------------------
(* The readers *)

ReaderType ==
    [pc: {"idle", "read", "check", "store", "admit", "done"},
     key: Key, off: Nat, got: MaybeDoc]

\* A step that changes neither entries nor files, and what is in memory only
\* by evicting what is saved and by putting a document where it belongs.
LEMMA QuietStep ==
    ASSUME PInv,
           UNCHANGED <<entryVars, flagVars, file, flusher>>,
           exposed \subseteq exposed',
           \A k \in Key :
              \/ pool'.docP[k] = pool.docP[k]
              \/ pool'.docP[k] = NoDoc /\ ~dirty[k]
              \/ /\ want[k] # NoDoc /\ pool'.docP[k] # NoDoc
                 /\ Faithful => pool'.docP[k] = want[k]
    PROVE  Entries' /\ Flushing' /\ Memory' /\ Batch'
  <1>1. Entries'
    BY DEF PInv, Entries, entryVars, flagVars
  <1>2. Flushing'
    BY DEF PInv, Flushing, entryVars, flagVars
  <1>3. Memory'
    BY DEF PInv, Memory, Faithful, Replaced, At, entryVars
  <1>4. Batch'
    BY DEF PInv, Batch, Faithful, Taken, entryVars
  <1> QED
    BY <1>1, <1>2, <1>3, <1>4

\* The types that a step of a reader has to do with.
LEMMA ReaderTypes ==
    ASSUME PInv, pool' \in Pool, rd' \in [Reader -> ReaderType],
           UNCHANGED <<entryVars, orphans, flagVars, file, flusher, flushes>>,
           \/ exposed' = exposed
           \/ exposed' = exposed \union {"stale_read"}
           \/ exposed' = exposed \union {"admitted_cold"}
    PROVE  TypeOK'
  BY DEF PInv, TypeOK, ReaderType, entryVars, flagVars

LEMMA ReadStartKeeps ==
    ASSUME PInv, NEW r \in Reader, NEW k \in Key, ReadStart(r, k)
    PROVE  PInv'
  <1>1. /\ pool \in Pool /\ rd \in [Reader -> ReaderType]
        /\ recOff[k] \in Nat /\ pool.docP[k] \in MaybeDoc
    BY DEF PInv, TypeOK, Pool, ReaderType
  <1>2. /\ pool' \in Pool
        /\ pool'.docP = pool.docP /\ pool'.size = pool.size
        /\ pool'.cached = pool.cached /\ pool'.bytes = pool.bytes
        /\ Tallied(pool) => Tallied(pool')
    <2>1. pool' = pool \/ pool' = Used(pool, k)
      BY DEF ReadStart, Used
    <2> QED
      BY <1>1, <2>1, UsedFits
  <1>3. /\ rd' \in [Reader -> ReaderType]
        /\ rd[r].pc = "idle"
        /\ rd'[r].pc = IF pool.docP[k] = NoDoc THEN "read" ELSE "done"
        /\ rd'[r].key = k /\ rd'[r].off = recOff[k] /\ rd'[r].got = pool.docP[k]
        /\ \A s \in Reader \ {r} : rd'[s] = rd[s]
    BY <1>1 DEF ReadStart, ReaderType
  <1>4. UNCHANGED <<entryVars, orphans, flagVars, file, flusher, flushes, exposed>>
    BY DEF ReadStart
  <1>5. TypeOK'
    BY <1>2, <1>3, <1>4, ReaderTypes
  <1>6. Entries' /\ Flushing' /\ Memory' /\ Batch'
    BY <1>2, <1>4, QuietStep
  <1>7. Readers'
    BY <1>3, <1>4 DEF PInv, Readers, Entries, ReadStart, MayRead, entryVars
  <1>8. Answers'
    BY <1>3, <1>4 DEF PInv, Answers, Memory, Faithful, ReadStart, entryVars
  <1>9. Counted'
    BY <1>2, <1>3, <1>4 DEF PInv, Counted
  <1>10. Room'
    BY <1>2, <1>3, <1>4 DEF PInv, Room, OverBudget, entryVars
  <1> QED
    BY <1>5, <1>6, <1>7, <1>8, <1>9, <1>10 DEF PInv

LEMMA ReadRecordKeeps ==
    ASSUME PInv, NEW r \in Reader, ReadRecord(r)
    PROVE  PInv'
  <1> DEFINE d == At(rd[r].off)
  <1>1. /\ pool \in Pool /\ rd \in [Reader -> ReaderType]
        /\ d \in MaybeDoc
    BY AtType DEF PInv, TypeOK, ReaderType
  <1>2. /\ rd' \in [Reader -> ReaderType]
        /\ rd[r].pc = "read"
        /\ rd'[r].pc = IF d = NoDoc THEN "done" ELSE "check"
        /\ rd'[r].key = rd[r].key /\ rd'[r].got = d
        /\ \A s \in Reader \ {r} : rd'[s] = rd[s]
    BY <1>1 DEF ReadRecord, ReaderType
  <1>3. UNCHANGED <<entryVars, pool, orphans, flagVars, file, flusher, flushes>>
    BY DEF ReadRecord
  <1>4. /\ exposed' = exposed \/ exposed' = exposed \union {"stale_read"}
        /\ Faithful' => Faithful /\ (Replaced => rd[r].off = 0)
    BY DEF ReadRecord, Faithful
  <1>5. TypeOK'
    BY <1>1, <1>2, <1>3, <1>4, ReaderTypes
  <1>6. Entries' /\ Flushing' /\ Memory' /\ Batch'
    BY <1>3, <1>4, QuietStep DEF PInv
  <1>7. Readers'
    BY <1>1, <1>2, <1>3 DEF PInv, Readers, entryVars
  <1>8. Answers'
    <2>1. rd[r].key \in Key /\ want[rd[r].key] # NoDoc
      BY <1>1, <1>2 DEF PInv, Readers, ReaderType
    <2>2. ~dirty[rd[r].key] /\ rd[r].off = recOff[rd[r].key]
      BY <1>2 DEF PInv, Readers
    <2>3. Faithful' => d = want[rd[r].key]
      BY <1>4, <2>1, <2>2 DEF PInv, Memory
    <2> QED
      BY <1>2, <1>3, <1>4, <2>3 DEF PInv, Answers, entryVars
  <1>9. Counted'
    <2> SUFFICES ASSUME exposed' \subseteq {"stale_read"} PROVE Counted'
      BY DEF Counted
    <2>1. exposed \subseteq {"stale_read"} /\ pool' = pool
      BY <1>3, <1>4
    <2>2. /\ Tallied(pool')
          /\ \A k \in Key : pool'.docP[k] # NoDoc /\ k \notin pool'.cached =>
                \E s \in Reader \ {r} : rd[s].pc = "admit" /\ rd[s].key = k
          /\ \A s \in Reader \ {r} :
                \/ rd[s].pc = "admit"
                \/ rd[s].pc = "store" /\ rd[s].key \in pool'.cached
                => pool'.size[rd[s].key] = 1
      BY <1>2, <2>1 DEF PInv, Counted
    <2> QED
      BY <1>2, <2>2 DEF Counted
  <1>10. Room'
    BY <1>2, <1>3 DEF PInv, Room, OverBudget, entryVars
  <1> QED
    BY <1>5, <1>6, <1>7, <1>8, <1>9, <1>10 DEF PInv

LEMMA ReadEndKeeps ==
    ASSUME PInv, NEW r \in Reader, ReadEnd(r)
    PROVE  PInv'
  <1>1. pool \in Pool /\ rd \in [Reader -> ReaderType]
    BY DEF PInv, TypeOK, ReaderType
  <1>2. NotReading \in ReaderType
    BY BoundsAssumption DEF NotReading, ReaderType, MaybeDoc, Key
  <1>3. /\ rd' \in [Reader -> ReaderType]
        /\ rd[r].pc = "done" /\ rd'[r].pc = "idle"
        /\ \A s \in Reader \ {r} : rd'[s] = rd[s]
    <2>1. NotReading.pc = "idle"
      BY DEF NotReading
    <2> QED
      BY <1>1, <1>2, <2>1 DEF ReadEnd
  <1>4. UNCHANGED <<entryVars, pool, orphans, flagVars, file, flusher, flushes, exposed>>
    BY DEF ReadEnd
  <1>5. TypeOK'
    BY <1>1, <1>3, <1>4, ReaderTypes
  <1>6. Entries' /\ Flushing' /\ Memory' /\ Batch'
    BY <1>4, QuietStep
  <1>7. Readers' /\ Answers'
    BY <1>3, <1>4 DEF PInv, Readers, Answers, Faithful, entryVars
  <1>8. Counted' /\ Room'
    BY <1>3, <1>4 DEF PInv, Counted, Room, OverBudget, entryVars
  <1> QED
    BY <1>5, <1>6, <1>7, <1>8 DEF PInv

\* The document of another reader is the one that is stored.
LEMMA ReadCheckKeeps ==
    ASSUME PInv, NEW r \in Reader, ReadCheck(r)
    PROVE  PInv'
  <1> DEFINE k == rd[r].key
  <1>1. /\ pool \in Pool /\ rd \in [Reader -> ReaderType]
        /\ k \in Key /\ pool.docP[k] \in MaybeDoc
        /\ rd[r].pc = "check" /\ want[k] # NoDoc
    BY DEF PInv, TypeOK, Pool, ReaderType, ReadCheck, Readers
  <1>2. /\ pool' \in Pool
        /\ pool'.docP = pool.docP /\ pool'.size = pool.size
        /\ pool'.cached = pool.cached /\ pool'.bytes = pool.bytes
        /\ Tallied(pool) => Tallied(pool')
    <2>1. pool' = pool \/ pool' = Used(pool, k)
      BY DEF ReadCheck, Used
    <2> QED
      BY <1>1, <2>1, UsedFits
  <1>3. /\ rd' \in [Reader -> ReaderType]
        /\ rd'[r].pc = IF pool.docP[k] = NoDoc THEN "store" ELSE "done"
        /\ rd'[r].key = k
        /\ rd'[r].got = IF pool.docP[k] = NoDoc THEN rd[r].got ELSE pool.docP[k]
        /\ \A s \in Reader \ {r} : rd'[s] = rd[s]
    BY <1>1 DEF ReadCheck, Return, ReaderType
  <1>4. UNCHANGED <<entryVars, orphans, flagVars, file, flusher, flushes, exposed>>
    BY DEF ReadCheck
  <1>5. TypeOK'
    BY <1>2, <1>3, <1>4, ReaderTypes
  <1>6. Entries' /\ Flushing' /\ Memory' /\ Batch'
    BY <1>2, <1>4, QuietStep
  <1>7. Readers'
    BY <1>1, <1>3, <1>4 DEF PInv, Readers, entryVars
  <1>8. Answers'
    BY <1>1, <1>3, <1>4 DEF PInv, Answers, Memory, Faithful, entryVars
  <1>9. Counted'
    BY <1>1, <1>2, <1>3, <1>4 DEF PInv, Counted, Tallied
  <1>10. Room'
    BY <1>1, <1>2, <1>3, <1>4 DEF PInv, Room, OverBudget, entryVars
  <1> QED
    BY <1>5, <1>6, <1>7, <1>8, <1>9, <1>10 DEF PInv

LEMMA ReadStoreKeeps ==
    ASSUME PInv, NEW r \in Reader, ReadStore(r)
    PROVE  PInv'
  <1> DEFINE k == rd[r].key
             bits == [pool.refBit EXCEPT ![k] = TRUE]
  <1>1. /\ pool \in Pool /\ rd \in [Reader -> ReaderType]
        /\ k \in Key /\ rd[r].got \in MaybeDoc
        /\ rd[r].pc = "store"
        /\ want[k] # NoDoc /\ rd[r].got # NoDoc
    BY DEF PInv, TypeOK, ReaderType, ReadStore, Readers
  <1>2. /\ pool' \in Pool
        /\ \A j \in Key : pool'.docP[j] = IF j = k THEN rd[r].got ELSE pool.docP[j]
        /\ \A j \in Key : pool'.size[j] = IF j = k THEN 1 ELSE pool.size[j]
        /\ pool'.cached = pool.cached /\ pool'.bytes = pool.bytes
        /\ Tallied(pool) /\ (k \in pool.cached => pool.size[k] = 1)
               => Tallied(pool')
    <2>1. pool' = WithEntry(pool, k, rd[r].got, 1, bits)
      BY DEF ReadStore, WithEntry
    <2>2. bits \in [Key -> BOOLEAN] /\ 1 \in 0..1
      BY <1>1 DEF Pool
    <2> HIDE DEF bits
    <2> QED
      BY <1>1, <2>1, <2>2, WithEntryFits
  <1>3. /\ rd' \in [Reader -> ReaderType]
        /\ rd'[r].pc = "admit" /\ rd'[r].key = k /\ rd'[r].got = rd[r].got
        /\ \A s \in Reader \ {r} : rd'[s] = rd[s]
    BY <1>1 DEF ReadStore, ReaderType
  <1>4. UNCHANGED <<entryVars, orphans, flagVars, file, flusher, flushes, exposed>>
    BY DEF ReadStore
  <1>5. TypeOK'
    BY <1>2, <1>3, <1>4, ReaderTypes
  <1>6. Entries' /\ Flushing' /\ Memory' /\ Batch'
    <2>1. Faithful => rd[r].got = want[k]
      BY <1>1 DEF PInv, Answers
    <2> QED
      BY <1>1, <1>2, <1>4, <2>1, QuietStep
  <1>7. Readers'
    BY <1>1, <1>3, <1>4 DEF PInv, Readers, entryVars
  <1>8. Answers'
    BY <1>1, <1>3, <1>4 DEF PInv, Answers, Faithful, entryVars
  <1>9. Counted'
    <2> SUFFICES ASSUME exposed' \subseteq {"stale_read"} PROVE Counted'
      BY DEF Counted
    <2>1. /\ Tallied(pool)
          /\ k \in pool.cached => pool.size[k] = 1
      BY <1>1, <1>4 DEF PInv, Counted
    <2>2. Tallied(pool')
      BY <1>2, <2>1
    <2>3. \A j \in Key : pool'.docP[j] # NoDoc /\ j \notin pool'.cached =>
             \E s \in Reader : rd'[s].pc = "admit" /\ rd'[s].key = j
      BY <1>1, <1>2, <1>3, <1>4 DEF PInv, Counted
    <2>4. \A s \in Reader :
             \/ rd'[s].pc = "admit"
             \/ rd'[s].pc = "store" /\ rd'[s].key \in pool'.cached
             => pool'.size[rd'[s].key] = 1
      BY <1>1, <1>2, <1>3, <1>4 DEF PInv, Counted, ReaderType
    <2> QED
      BY <2>2, <2>3, <2>4 DEF Counted
  <1>10. Room'
    BY <1>1, <1>2, <1>3, <1>4 DEF PInv, Room, OverBudget, Pool, entryVars
  <1> QED
    BY <1>5, <1>6, <1>7, <1>8, <1>9, <1>10 DEF PInv

LEMMA ReadAdmitKeeps ==
    ASSUME PInv, NEW r \in Reader, ReadAdmit(r)
    PROVE  PInv'
  <1> DEFINE k == rd[r].key
  <1>1. /\ pool \in Pool /\ dirty \in [Key -> BOOLEAN]
        /\ rd \in [Reader -> ReaderType]
        /\ k \in Key /\ rd[r].pc = "admit"
    BY DEF PInv, TypeOK, ReaderType, ReadAdmit
  <1>2. Admitted(pool, pool', k, dirty)
    BY <1>1, AdmitFits DEF ReadAdmit
  <1>3. /\ rd' \in [Reader -> ReaderType]
        /\ rd'[r].pc = "done" /\ rd'[r].key = k /\ rd'[r].got = rd[r].got
        /\ \A s \in Reader \ {r} : rd'[s] = rd[s]
    BY <1>1 DEF ReadAdmit, Return, ReaderType
  <1>4. UNCHANGED <<entryVars, orphans, flagVars, file, flusher, flushes>>
    BY DEF ReadAdmit
  <1>5. exposed' = exposed \union
           (IF pool.docP[k] = NoDoc THEN {"admitted_cold"} ELSE {})
    BY DEF ReadAdmit
  <1>6. TypeOK'
    BY <1>2, <1>3, <1>4, <1>5, ReaderTypes DEF Admitted
  <1>7. Entries' /\ Flushing' /\ Memory' /\ Batch'
    BY <1>2, <1>4, <1>5, QuietStep DEF Admitted
  <1>8. Readers'
    BY <1>1, <1>3, <1>4 DEF PInv, Readers, entryVars
  <1>9. Answers'
    BY <1>1, <1>3, <1>4, <1>5 DEF PInv, Answers, Faithful, entryVars
  <1>10. Counted'
    <2> SUFFICES ASSUME exposed' \subseteq {"stale_read"} PROVE Counted'
      BY DEF Counted
    <2>1. exposed \subseteq {"stale_read"} /\ pool.docP[k] # NoDoc
      BY <1>5
    <2>2. /\ Tallied(pool) /\ pool.size[k] = 1
          /\ \A j \in Key : pool.docP[j] # NoDoc /\ j \notin pool.cached =>
                \E s \in Reader : rd[s].pc = "admit" /\ rd[s].key = j
          /\ \A s \in Reader :
                rd[s].pc = "store" /\ rd[s].key \in pool.cached =>
                    pool.size[rd[s].key] = 1
          /\ \A s \in Reader : rd[s].pc = "admit" => pool.size[rd[s].key] = 1
      BY <1>1, <2>1 DEF PInv, Counted
    <2>3. Tallied(pool')
      BY <1>2, <2>1, <2>2 DEF Admitted
    <2>4. ASSUME NEW j \in Key, pool'.docP[j] # NoDoc, j \notin pool'.cached
          PROVE  \E s \in Reader : rd'[s].pc = "admit" /\ rd'[s].key = j
      <3>1. pool.docP[j] # NoDoc /\ j \notin pool.cached /\ j # k
        BY <1>2, <2>4 DEF Admitted
      <3>2. PICK s \in Reader : rd[s].pc = "admit" /\ rd[s].key = j
        BY <2>2, <3>1
      <3>3. rd'[s] = rd[s]
        BY <1>3, <3>1, <3>2
      <3> QED
        BY <3>2, <3>3
    <2>5. \A s \in Reader :
             \/ rd'[s].pc = "admit"
             \/ rd'[s].pc = "store" /\ rd'[s].key \in pool'.cached
             => pool'.size[rd'[s].key] = 1
      BY <1>2, <1>3, <2>2 DEF Admitted
    <2> QED
      BY <2>3, <2>4, <2>5 DEF Counted
  <1>11. Room'
    <2>1. CASE k \in pool.cached
      <3>1. pool' = pool
        BY <1>2, <2>1 DEF Admitted
      <3> QED
        BY <1>3, <1>4, <3>1 DEF PInv, Room, OverBudget, entryVars
    <2>2. CASE k \notin pool.cached
      <3>1. OverBudget(pool') => \A j \in pool'.cached : dirty[j]
        BY <1>2, <2>2 DEF Admitted
      <3>2. \A j \in pool'.cached : dirty[j] => pool'.docP[j] # NoDoc
        BY <1>2 DEF Admitted, Pool, PInv, Entries
      <3> QED
        BY <1>4, <3>1, <3>2 DEF Room, OverBudget, entryVars
    <2> QED
      BY <2>1, <2>2
  <1> QED
    BY <1>6, <1>7, <1>8, <1>9, <1>10, <1>11 DEF PInv

-----------------------------------------------------------------------------
(* The mutations *)

FlushType ==
    [pc: {"idle", "load", "staged", "written"}, full: BOOLEAN,
     gen: Nat, todo: SUBSET Key, docs: Seq(Staged), at: Nat]

LEMMA NoFlushType == NoFlush \in FlushType
  BY DEF NoFlush, FlushType

LEMMA FlushTypes ==
    ASSUME PInv
    PROVE  /\ flusher \in FlushType
           /\ flusher.docs \in Seq(Staged) /\ Len(flusher.docs) \in Nat
           /\ \A i \in 1..Len(flusher.docs) :
                 /\ flusher.docs[i] \in Staged
                 /\ flusher.docs[i].key \in Key /\ flusher.docs[i].doc \in MaybeDoc
  <1>1. flusher \in FlushType
    BY DEF PInv, TypeOK, FlushType
  <1>2. flusher.docs \in Seq(Staged)
    BY <1>1 DEF FlushType
  <1>3. \A i \in 1..Len(flusher.docs) : flusher.docs[i] \in Staged
    BY <1>2
  <1>4. Len(flusher.docs) \in Nat
    BY <1>2
  <1> QED
    BY <1>1, <1>2, <1>3, <1>4 DEF Staged

\* Everything that is in memory is registered, and counted.
Settled(p) ==
    /\ Tallied(p)
    /\ \A k \in Key : p.docP[k] # NoDoc => k \in p.cached

\* While nobody reads, that is what the count amounts to.
LEMMA QuietIsSettled ==
    ASSUME \A r \in Reader : rd[r].pc = "idle"
    PROVE  Counted <=> (exposed \subseteq {"stale_read"} => Settled(pool))
  BY DEF Counted, Settled

LEMMA DocIsNotNoDoc == \A d \in Doc : d \in MaybeDoc /\ d # NoDoc
  BY DEF Doc, MaybeDoc, NoDoc, Key

\* What a mutation of k leaves of all but the registry, when it evicted only
\* what is saved.
LEMMA MutatedKeeps ==
    ASSUME PInv, MayWrite, NEW k \in Key, NEW d \in Doc, d.id = k,
           Mutated(k, d),
           recOff' \in [Key -> Nat],
           \A j \in Key \ {k} : recOff'[j] = recOff[j],
           pool' \in Pool, pool'.docP[k] # NoDoc,
           \A j \in Key \ {k} : \/ pool'.docP[j] = pool.docP[j]
                                \/ pool'.docP[j] = NoDoc /\ ~dirty[j],
           Faithful' => Faithful /\ pool'.docP[k] = d,
           orphans' = orphans,
           exposed' \subseteq exposed \union {"stale_read", "unregistered"}
    PROVE  /\ TypeOK' /\ Entries' /\ Readers' /\ Flushing'
           /\ Memory' /\ Batch' /\ Answers'
  <1>1. TypeOK
    BY DEF PInv
  <1>2. /\ d \in MaybeDoc /\ d # NoDoc
        /\ dirtyGen \in Nat
        /\ flusher.pc # "idle" => flusher.gen \in Nat /\ flusher.gen <= dirtyGen
        /\ flusher.pc # "load"
        /\ \A r \in Reader : rd[r].pc = "idle"
    BY <1>1, DocIsNotNoDoc DEF PInv, TypeOK, Flushing, MayWrite, MayRead
  <1>3. /\ want' = [want EXCEPT ![k] = d]
        /\ dirty' = [dirty EXCEPT ![k] = TRUE]
        /\ mutGen' = [mutGen EXCEPT ![k] = dirtyGen + 1]
        /\ dirtyGen' = dirtyGen + 1
        /\ unsaved' = TRUE
        /\ UNCHANGED <<compactForce, file, flusher, flushes, rd>>
    BY DEF Mutated
  <1>4. TypeOK'
    BY <1>1, <1>2, <1>3 DEF TypeOK
  <1>5. Entries'
    <2>1. /\ want'[k] = d /\ dirty'[k] /\ mutGen'[k] = dirtyGen'
          /\ dirtyGen' \in Nat /\ dirtyGen < dirtyGen'
          /\ \A j \in Key \ {k} : /\ want'[j] = want[j] /\ dirty'[j] = dirty[j]
                                  /\ mutGen'[j] = mutGen[j] /\ mutGen[j] \in Nat
      BY <1>1, <1>2, <1>3 DEF TypeOK
    <2>2. \A j \in Key \ {k} :
             /\ want'[j] # NoDoc => want'[j].id = j
             /\ want'[j] = NoDoc => pool'.docP[j] = NoDoc /\ ~dirty'[j]
             /\ dirty'[j] => pool'.docP[j] # NoDoc
             /\ mutGen'[j] <= dirtyGen'
      BY <1>2, <2>1 DEF PInv, Entries
    <2> QED
      BY <1>2, <2>1, <2>2 DEF Entries
  <1>6. Readers' /\ Answers'
    BY <1>2, <1>3 DEF Readers, Answers
  <1>7. Flushing'
    BY <1>1, <1>2, <1>3 DEF PInv, Flushing, TypeOK
  <1>8. Memory'
    BY <1>1, <1>2, <1>3 DEF PInv, Memory, Replaced, At, TypeOK
  <1>9. Batch'
    <2> SUFFICES ASSUME Faithful', flusher.pc # "idle"
                 PROVE  Batch'
      BY <1>3 DEF Batch
    <2>1. Faithful
      OBVIOUS
    <2>2. /\ want'[k] # NoDoc /\ ~(mutGen'[k] <= flusher.gen)
          /\ \A j \in Key \ {k} : want'[j] = want[j] /\ mutGen'[j] = mutGen[j]
      BY <1>1, <1>2, <1>3 DEF TypeOK
    <2>3. \A i \in 1..Len(flusher.docs) : flusher.docs[i].key \in Key
      <3>1. flusher.docs \in Seq(Staged)
        BY <1>1 DEF TypeOK
      <3>2. \A i \in 1..Len(flusher.docs) : flusher.docs[i] \in Staged
        BY <3>1
      <3> QED
        BY <3>2 DEF Staged
    <2>4. \A i \in 1..Len(flusher.docs) :
             LET j == flusher.docs[i].key
             IN  want'[j] # NoDoc /\ mutGen'[j] <= flusher.gen =>
                     flusher.docs[i].doc = want'[j]
      BY <2>1, <2>2, <2>3 DEF PInv, Batch
    <2>5. flusher.full =>
             \A j \in Key : want'[j] # NoDoc /\ mutGen'[j] <= flusher.gen =>
                 j \in flusher.todo \/ j \in Taken
      BY <2>1, <2>2 DEF PInv, Batch
    <2> QED
      BY <1>3, <2>4, <2>5 DEF Batch, Taken
  <1> QED
    BY <1>4, <1>5, <1>6, <1>7, <1>8, <1>9

LEMMA InsertKeeps ==
    ASSUME PInv, NEW k \in Key, NEW v \in Val, Insert(k, v)
    PROVE  PInv'
  <1> DEFINE d == [id |-> k, val |-> v]
             bits == [pool.refBit EXCEPT ![k] = FALSE]
             p == WithEntry(pool, k, d, 0, bits)
  <1>1. /\ d \in Doc /\ d.id = k /\ d # NoDoc
        /\ MayWrite /\ Mutated(k, d) /\ want[k] = NoDoc
        /\ recOff' = [recOff EXCEPT ![k] = 0]
        /\ UNCHANGED <<orphans, exposed>>
        /\ pool' \in Admit(p, k, dirty')
    BY DocIsNotNoDoc DEF Insert, WithEntry, Doc
  <1>2. /\ pool \in Pool /\ recOff \in [Key -> Nat]
        /\ dirty \in [Key -> BOOLEAN]
        /\ dirty' = [dirty EXCEPT ![k] = TRUE] /\ rd' = rd
        /\ dirty' \in [Key -> BOOLEAN]
        /\ \A r \in Reader : rd[r].pc = "idle"
    BY <1>1 DEF PInv, TypeOK, Mutated, MayWrite
  <1>3. pool.docP[k] = NoDoc
    BY <1>1 DEF PInv, Entries
  <1>4. Tallied(pool) => k \notin pool.cached
    BY <1>3 DEF Tallied
  <1>5. /\ p \in Pool
        /\ \A j \in Key : p.docP[j] = IF j = k THEN d ELSE pool.docP[j]
        /\ p.cached = pool.cached /\ p.bytes = pool.bytes
        /\ Tallied(pool) => Tallied(p)
    <2>1. bits \in [Key -> BOOLEAN] /\ 0 \in 0..1 /\ d \in MaybeDoc
      BY <1>1, <1>2, DocIsNotNoDoc DEF Pool
    <2> HIDE DEF bits, d
    <2> QED
      BY <1>2, <1>4, <2>1, WithEntryFits
  <1> HIDE DEF d, p
  <1>6. Admitted(p, pool', k, dirty')
    BY <1>1, <1>2, <1>5, AdmitFits
  <1>7. /\ pool' \in Pool /\ pool'.docP[k] = d
        /\ \A j \in Key \ {k} : \/ pool'.docP[j] = pool.docP[j]
                                \/ pool'.docP[j] = NoDoc /\ ~dirty[j]
    BY <1>2, <1>5, <1>6 DEF Admitted
  <1>8. /\ TypeOK' /\ Entries' /\ Readers' /\ Flushing'
        /\ Memory' /\ Batch' /\ Answers'
    BY <1>1, <1>2, <1>7, MutatedKeeps DEF Faithful
  <1>9. Counted'
    <2>1. Settled(pool) => Settled(pool')
      BY <1>1, <1>5, <1>6 DEF Settled, Admitted
    <2>2. exposed \subseteq {"stale_read"} => Settled(pool)
      BY <1>2, QuietIsSettled DEF PInv
    <2> QED
      BY <1>1, <1>2, <2>1, <2>2 DEF Counted, Settled
  <1>10. Room'
    <2>1. ASSUME OverBudget(pool')
          PROVE  \A j \in pool'.cached : pool'.docP[j] # NoDoc
      <3>1. CASE k \in p.cached
        BY <1>1, <1>5, <1>6, <2>1, <3>1 DEF Admitted, PInv, Room, OverBudget, Pool
      <3>2. CASE k \notin p.cached
        BY <1>1, <1>2, <1>5, <1>6, <2>1, <3>2
        DEF Admitted, PInv, Entries, Pool
      <3> QED
        BY <3>1, <3>2
    <2> QED
      BY <1>2, <2>1 DEF Room, OverBudget
  <1> QED
    BY <1>8, <1>9, <1>10 DEF PInv

\* What a load finds is the document, unless it reads the wrong file.
LEMMA LoadedIsStored ==
    ASSUME PInv, NEW k \in Key, want[k] # NoDoc, NEW got \in Loaded(k),
           got.doc # NoDoc, Faithful, "stale_read" \notin StaleRead(k)
    PROVE  got.doc = want[k]
  <1>1. LoadedRight(k, got)
    BY LoadedGives
  <1>2. CASE pool.docP[k] # NoDoc
    BY <1>1, <1>2 DEF LoadedRight, PInv, Memory
  <1>3. CASE pool.docP[k] = NoDoc
    <2>1. ~dirty[k]
      BY <1>3 DEF PInv, Entries
    <2>2. recOff[k] # 0 /\ (~Replaced => At(recOff[k]) = want[k])
      BY <2>1 DEF PInv, Memory
    <2>3. ~Replaced
      BY <1>3, <2>2 DEF StaleRead
    <2> QED
      BY <1>1, <1>3, <2>2, <2>3 DEF LoadedRight
  <1> QED
    BY <1>2, <1>3

\* A mutation that could not load its entry has only touched the file.
LEMMA FailedKeeps ==
    ASSUME PInv,
           UNCHANGED <<entryVars, pool, orphans, flagVars, file, flusher, flushes, rd>>,
           exposed' = exposed \/ exposed' = exposed \union {"stale_read"}
    PROVE  PInv'
  <1>1. TypeOK'
    BY DEF PInv, TypeOK, entryVars, flagVars
  <1>2. Entries' /\ Flushing' /\ Memory' /\ Batch'
    BY QuietStep DEF PInv
  <1>3. Readers' /\ Answers' /\ Room'
    BY DEF PInv, Readers, Answers, Faithful, Room, OverBudget, entryVars
  <1>4. Counted'
    <2>1. exposed' \subseteq {"stale_read"} => exposed \subseteq {"stale_read"}
      OBVIOUS
    <2>2. pool' = pool /\ rd' = rd
      OBVIOUS
    <2> QED
      BY <2>1, <2>2 DEF PInv, Counted
  <1> QED
    BY <1>1, <1>2, <1>3, <1>4 DEF PInv

LEMMA StaleReadIs == \A k : StaleRead(k) = {} \/ StaleRead(k) = {"stale_read"}
  BY DEF StaleRead

\* While nobody reads, a step that leaves the pool settled and with nothing
\* cold registered over the budget keeps the count and the room.
LEMMA QuietCounts ==
    ASSUME PInv, \A r \in Reader : rd[r].pc = "idle", rd' = rd,
           exposed' \subseteq {"stale_read"} =>
               exposed \subseteq {"stale_read"} /\ (Settled(pool) => Settled(pool')),
           OverBudget(pool') => \A j \in pool'.cached : pool'.docP[j] # NoDoc
    PROVE  Counted' /\ Room'
  <1>1. exposed \subseteq {"stale_read"} => Settled(pool)
    BY QuietIsSettled DEF PInv
  <1>2. Counted'
    BY <1>1 DEF Counted, Settled
  <1>3. Room'
    BY DEF Room, OverBudget
  <1> QED
    BY <1>2, <1>3

LEMMA UpdateKeeps ==
    ASSUME PInv, NEW k \in Key, NEW v \in Val, Update(k, v)
    PROVE  PInv'
  <1> DEFINE d == [id |-> k, val |-> v]
  <1>1. /\ MayWrite /\ want[k] # NoDoc /\ orphans' = orphans
        /\ \A r \in Reader : rd[r].pc = "idle"
    BY DEF Update, MayWrite
  <1>2. PICK got \in Loaded(k) :
          IF got.doc = NoDoc
          THEN /\ pool' = got.pool
               /\ UNCHANGED <<entryVars, flagVars, file, flusher, flushes, rd>>
               /\ exposed' = exposed \union StaleRead(k)
          ELSE /\ pool' = [got.pool EXCEPT !.docP[k] = [got.doc EXCEPT !.val = v]]
               /\ Mutated(k, d)
               /\ UNCHANGED recOff
               /\ exposed' = exposed \union StaleRead(k) \union
                      (IF k \notin got.pool.cached THEN {"unregistered"} ELSE {})
    BY DEF Update
  <1>3. LoadedRight(k, got)
    BY LoadedGives
  <1>4. CASE got.doc = NoDoc
    <2>1. pool' = pool
      BY <1>2, <1>3, <1>4 DEF LoadedRight
    <2>2. exposed' = exposed \/ exposed' = exposed \union {"stale_read"}
      BY <1>2, <1>4, StaleReadIs
    <2> QED
      BY <1>1, <1>2, <1>4, <2>1, <2>2, FailedKeeps
  <1>5. CASE got.doc # NoDoc
    <2> DEFINE patched == [got.doc EXCEPT !.val = v]
    <2>1. got.doc \in Doc /\ got.pool \in Pool
      BY <1>3, <1>5 DEF LoadedRight, MaybeDoc
    <2>2. /\ patched \in Doc /\ patched # NoDoc
          /\ got.doc.id = k => patched = d
          /\ d \in Doc /\ d.id = k
      BY <2>1, DocIsNotNoDoc DEF Doc
    <2>3. /\ pool' = WithDoc(got.pool, k, patched)
          /\ Mutated(k, d)
          /\ recOff' = recOff
          /\ exposed' = exposed \union StaleRead(k) \union
                 (IF k \notin got.pool.cached THEN {"unregistered"} ELSE {})
      BY <1>2, <1>5 DEF WithDoc
    <2> HIDE DEF patched, d
    <2>4. /\ pool' \in Pool
          /\ \A j \in Key : pool'.docP[j] = IF j = k THEN patched ELSE got.pool.docP[j]
          /\ pool'.cached = got.pool.cached /\ pool'.bytes = got.pool.bytes
          /\ Tallied(got.pool) => Tallied(pool')
      <3>1. /\ WithDoc(got.pool, k, patched) \in Pool
            /\ \A j \in Key : WithDoc(got.pool, k, patched).docP[j] =
                                IF j = k THEN patched ELSE got.pool.docP[j]
            /\ WithDoc(got.pool, k, patched).cached = got.pool.cached
            /\ WithDoc(got.pool, k, patched).bytes = got.pool.bytes
            /\ Tallied(got.pool) => Tallied(WithDoc(got.pool, k, patched))
        BY <2>1, <2>2, WithDocFits
      <3> QED
        BY <2>3, <3>1
    <2>5. Faithful' => Faithful /\ pool'.docP[k] = d
      <3> SUFFICES ASSUME Faithful' PROVE Faithful /\ pool'.docP[k] = d
        OBVIOUS
      <3>1. Faithful /\ "stale_read" \notin StaleRead(k)
        BY <2>3 DEF Faithful
      <3>2. got.doc = want[k]
        BY <1>1, <1>5, <3>1, LoadedIsStored
      <3>3. got.doc.id = k
        BY <1>1, <3>2 DEF PInv, Entries
      <3> QED
        BY <2>2, <2>4, <3>1, <3>3
    <2>6. \A j \in Key \ {k} : \/ pool'.docP[j] = pool.docP[j]
                               \/ pool'.docP[j] = NoDoc /\ ~dirty[j]
      BY <1>3, <2>4 DEF LoadedRight
    <2>7. exposed' \subseteq exposed \union {"stale_read", "unregistered"}
      BY <2>3, StaleReadIs
    <2>8. recOff \in [Key -> Nat]
      BY DEF PInv, TypeOK
    <2>9. /\ TypeOK' /\ Entries' /\ Readers' /\ Flushing'
          /\ Memory' /\ Batch' /\ Answers'
      BY <1>1, <2>2, <2>3, <2>4, <2>5, <2>6, <2>7, <2>8, MutatedKeeps
    <2>10. exposed' \subseteq {"stale_read"} =>
              exposed \subseteq {"stale_read"} /\ (Settled(pool) => Settled(pool'))
      <3> SUFFICES ASSUME exposed' \subseteq {"stale_read"}, Settled(pool)
                   PROVE  Settled(pool')
        BY <2>3
      <3>1. k \in got.pool.cached
        BY <2>3
      <3>2. Settled(got.pool)
        BY <1>3 DEF Settled, LoadedRight
      <3> QED
        BY <2>4, <3>1, <3>2 DEF Settled
    <2>11. OverBudget(pool') => \A j \in pool'.cached : pool'.docP[j] # NoDoc
      BY <1>3, <2>2, <2>4 DEF LoadedRight, OverBudget, Pool
    <2>12. Counted' /\ Room'
      BY <1>1, <2>3, <2>10, <2>11, QuietCounts DEF Mutated
    <2> QED
      BY <2>9, <2>12 DEF PInv
  <1> QED
    BY <1>4, <1>5

LEMMA ReplaceKeeps ==
    ASSUME PInv, NEW k \in Key, NEW v \in Val, Replace(k, v)
    PROVE  PInv'
  <1> DEFINE d == [id |-> k, val |-> v]
  <1>1. /\ MayWrite /\ want[k] # NoDoc /\ Mutated(k, d)
        /\ UNCHANGED <<recOff, orphans>>
        /\ exposed' = exposed \union StaleRead(k)
        /\ d \in Doc /\ d.id = k /\ d # NoDoc
    BY DocIsNotNoDoc DEF Replace, Doc
  <1>2. PICK got \in Loaded(k) :
          pool' \in Admit([got.pool EXCEPT !.docP[k] = d], k, dirty')
    BY DEF Replace
  <1> HIDE DEF d
  <1>3. LoadedRight(k, got)
    BY LoadedGives
  <1> DEFINE g == got.pool
             p == WithDoc(g, k, d)
  <1>4. /\ g \in Pool
        /\ OverBudget(g) => \A j \in g.cached : g.docP[j] # NoDoc
        /\ Settled(pool) => Settled(g)
        /\ \A j \in Key \ {k} : \/ g.docP[j] = pool.docP[j]
                                \/ g.docP[j] = NoDoc /\ ~dirty[j]
    BY <1>3 DEF LoadedRight, Settled
  <1>5. pool' \in Admit(p, k, dirty')
    BY <1>2 DEF WithDoc
  <1> HIDE DEF g
  <1>6. /\ p \in Pool
        /\ \A j \in Key : p.docP[j] = IF j = k THEN d ELSE g.docP[j]
        /\ p.cached = g.cached /\ p.bytes = g.bytes
        /\ Tallied(g) => Tallied(p)
    BY <1>1, <1>4, WithDocFits
  <1> HIDE DEF p
  <1>7. /\ dirty \in [Key -> BOOLEAN]
        /\ dirty' = [dirty EXCEPT ![k] = TRUE] /\ rd' = rd
        /\ dirty' \in [Key -> BOOLEAN]
        /\ recOff \in [Key -> Nat] /\ recOff' = recOff
        /\ \A r \in Reader : rd[r].pc = "idle"
        /\ \A j \in Key : dirty[j] => pool.docP[j] # NoDoc
    BY <1>1 DEF PInv, TypeOK, Mutated, MayWrite, Entries
  <1>8. Admitted(p, pool', k, dirty')
    BY <1>5, <1>6, <1>7, AdmitFits
  <1>9. /\ pool' \in Pool /\ pool'.docP[k] = d
        /\ \A j \in Key \ {k} : \/ pool'.docP[j] = pool.docP[j]
                                \/ pool'.docP[j] = NoDoc /\ ~dirty[j]
    BY <1>4, <1>6, <1>7, <1>8 DEF Admitted
  <1>10. exposed' = exposed \/ exposed' = exposed \union {"stale_read"}
    BY <1>1, StaleReadIs
  <1>11. /\ TypeOK' /\ Entries' /\ Readers' /\ Flushing'
         /\ Memory' /\ Batch' /\ Answers'
    <2>1. Faithful' => Faithful
      BY <1>10 DEF Faithful
    <2>2. exposed' \subseteq exposed \union {"stale_read", "unregistered"}
      BY <1>10
    <2> QED
      BY <1>1, <1>7, <1>9, <2>1, <2>2, MutatedKeeps
  <1>12. Settled(pool) => Settled(pool')
    BY <1>1, <1>4, <1>6, <1>8 DEF Settled, Admitted
  <1>13. OverBudget(pool') => \A j \in pool'.cached : pool'.docP[j] # NoDoc
    <2> SUFFICES ASSUME OverBudget(pool')
                 PROVE  \A j \in pool'.cached : pool'.docP[j] # NoDoc
      OBVIOUS
    <2>1. CASE k \in p.cached
      BY <1>1, <1>4, <1>6, <1>8, <2>1 DEF Admitted, OverBudget, Pool
    <2>2. CASE k \notin p.cached
      <3>1. \A j \in pool'.cached : dirty'[j]
        BY <1>8, <2>2 DEF Admitted
      <3>2. \A j \in Key \ {k} : dirty'[j] => pool'.docP[j] # NoDoc
        BY <1>7, <1>9
      <3> QED
        BY <1>1, <1>9, <3>1, <3>2 DEF Pool
    <2> QED
      BY <2>1, <2>2
  <1>14. Counted' /\ Room'
    BY <1>7, <1>10, <1>12, <1>13, QuietCounts
  <1> QED
    BY <1>11, <1>14 DEF PInv

\* The pool of a Delete: nothing of k is left in it, whatever was there.
Unregistered(g, k) ==
    IF dirty[k] THEN [g EXCEPT !.cached = @ \ {k}]
    ELSE Evict(g, {k} \intersect g.cached)

Without(g, k) ==
    WithEntry(Unregistered(g, k), k, NoDoc, 0,
              [Unregistered(g, k).refBit EXCEPT ![k] = FALSE])

LEMMA WithoutFits ==
    ASSUME NEW g \in Pool, NEW k \in Key
    PROVE  /\ Without(g, k) \in Pool
           /\ \A j \in Key : Without(g, k).docP[j] = IF j = k THEN NoDoc ELSE g.docP[j]
           /\ Without(g, k).cached = g.cached \ {k}
           /\ Without(g, k).bytes <= g.bytes
           /\ Tallied(g) /\ ~(dirty[k] /\ k \in g.cached /\ g.size[k] > 0)
                  => Tallied(Without(g, k))
  <1> DEFINE gone == Unregistered(g, k)
             bits == [gone.refBit EXCEPT ![k] = FALSE]
             q == Without(g, k)
  <1>1. /\ gone \in Pool
        /\ \A j \in Key \ {k} : gone.docP[j] = g.docP[j]
        /\ gone.cached = g.cached \ {k}
        /\ gone.bytes <= g.bytes
        /\ Tallied(g) /\ ~(dirty[k] /\ k \in g.cached /\ g.size[k] > 0)
               => Tallied(gone)
    <2>1. CASE dirty[k]
      <3>1. /\ gone \in Pool /\ gone.docP = g.docP /\ gone.size = g.size
            /\ gone.cached = g.cached \ {k} /\ gone.bytes = g.bytes
        BY <2>1 DEF Unregistered, Pool
      <3>2. g.bytes \in Nat /\ g.size[k] \in 0..1
        BY DEF Pool
      <3> HIDE DEF gone
      <3>3. ASSUME Tallied(g), ~(k \in g.cached /\ g.size[k] > 0)
            PROVE  Tallied(gone)
        <4>1. Sized(gone) = Sized(g)
          BY <3>1, <3>2, <3>3 DEF Sized
        <4> QED
          BY <3>1, <3>3, <4>1 DEF Tallied
      <3> QED
        BY <2>1, <3>1, <3>2, <3>3
    <2>2. CASE ~dirty[k]
      <3> DEFINE E == {k} \intersect g.cached
                 none == [j \in Key |-> FALSE]
      <3>1. gone = Evict(g, E)
        BY <2>2 DEF Unregistered
      <3>2. /\ none \in [Key -> BOOLEAN] /\ E \subseteq g.cached
            /\ \A j \in E : ~none[j]
        OBVIOUS
      <3> HIDE DEF gone, none
      <3>3. /\ EvictedFrom(g, gone, none)
            /\ gone.cached = g.cached \ E
            /\ gone.bytes <= g.bytes
        BY <3>1, <3>2, EvictEvicts
      <3>4. \A j \in Key \ {k} : gone.docP[j] = g.docP[j]
        BY <3>1 DEF Evict, Pool
      <3>5. g.cached \ E = g.cached \ {k}
        OBVIOUS
      <3> QED
        BY <2>2, <3>3, <3>4, <3>5 DEF EvictedFrom
    <2> QED
      BY <2>1, <2>2
  <1>2. q = WithEntry(gone, k, NoDoc, 0, bits)
    BY DEF Without
  <1> HIDE DEF gone, q
  <1>3. bits \in [Key -> BOOLEAN] /\ 0 \in 0..1 /\ NoDoc \in MaybeDoc
    BY <1>1 DEF Pool, MaybeDoc
  <1> HIDE DEF bits
  <1>4. /\ q \in Pool
        /\ \A j \in Key : q.docP[j] = IF j = k THEN NoDoc ELSE gone.docP[j]
        /\ q.cached = gone.cached /\ q.bytes = gone.bytes
        /\ Tallied(gone) => Tallied(q)
    BY <1>1, <1>2, <1>3, WithEntryFits
  <1> QED
    BY <1>1, <1>4 DEF q

LEMMA DeleteKeeps ==
    ASSUME PInv, NEW k \in Key, Delete(k)
    PROVE  PInv'
  <1>1. /\ MayWrite /\ want[k] # NoDoc /\ TypeOK
        /\ UNCHANGED <<file, flusher, flushes, rd>>
        /\ \A r \in Reader : rd[r].pc = "idle"
        /\ flusher.pc # "load"
    BY DEF PInv, Delete, MayWrite, MayRead
  <1>2. PICK got \in Loaded(k) :
          IF got.doc = NoDoc /\ recOff[k] # 0
          THEN /\ pool' = got.pool
               /\ UNCHANGED <<entryVars, orphans, flagVars>>
               /\ exposed' = exposed \union StaleRead(k)
          ELSE LET stays == dirty[k] /\ k \in got.pool.cached
                   gone == IF dirty[k]
                           THEN [got.pool EXCEPT !.cached = @ \ {k}]
                           ELSE Evict(got.pool, {k} \intersect got.pool.cached)
               IN  /\ pool' = [gone EXCEPT !.docP[k] = NoDoc, !.size[k] = 0,
                                           !.refBit[k] = FALSE]
                   /\ orphans' = IF stays THEN orphans + got.pool.size[k]
                                 ELSE orphans
                   /\ want' = [want EXCEPT ![k] = NoDoc]
                   /\ dirty' = [dirty EXCEPT ![k] = FALSE]
                   /\ mutGen' = [mutGen EXCEPT ![k] = 0]
                   /\ recOff' = [recOff EXCEPT ![k] = 0]
                   /\ dirtyGen' = dirtyGen + 1
                   /\ unsaved' = TRUE
                   /\ UNCHANGED compactForce
                   /\ exposed' = exposed \union StaleRead(k) \union
                          (IF stays /\ got.pool.size[k] > 0 THEN {"orphan"}
                           ELSE {})
    BY DEF Delete
  <1>3. LoadedRight(k, got)
    BY LoadedGives
  <1>4. CASE got.doc = NoDoc /\ recOff[k] # 0
    <2>1. pool' = pool
      BY <1>2, <1>3, <1>4 DEF LoadedRight
    <2>2. exposed' = exposed \/ exposed' = exposed \union {"stale_read"}
      BY <1>2, <1>4, StaleReadIs
    <2> QED
      BY <1>1, <1>2, <1>4, <2>1, <2>2, FailedKeeps
  <1>5. CASE ~(got.doc = NoDoc /\ recOff[k] # 0)
    <2> DEFINE g == got.pool
    <2>1. pool' = Without(g, k)
      BY <1>2, <1>5 DEF Without, Unregistered, WithEntry
    <2>2. /\ want' = [want EXCEPT ![k] = NoDoc]
          /\ dirty' = [dirty EXCEPT ![k] = FALSE]
          /\ mutGen' = [mutGen EXCEPT ![k] = 0]
          /\ recOff' = [recOff EXCEPT ![k] = 0]
          /\ dirtyGen' = dirtyGen + 1
          /\ unsaved' = TRUE /\ compactForce' = compactForce
          /\ orphans' = orphans \/ orphans' = orphans + g.size[k]
          /\ exposed' = exposed \union StaleRead(k) \union
                 (IF dirty[k] /\ k \in g.cached /\ g.size[k] > 0
                  THEN {"orphan"} ELSE {})
      BY <1>2, <1>5
    <2>3. /\ g \in Pool
          /\ OverBudget(g) => \A j \in g.cached : g.docP[j] # NoDoc
          /\ Settled(pool) => Settled(g)
          /\ \A j \in Key \ {k} : \/ g.docP[j] = pool.docP[j]
                                  \/ g.docP[j] = NoDoc /\ ~dirty[j]
      BY <1>3 DEF LoadedRight, Settled
    <2> HIDE DEF g
    <2>4. /\ pool' \in Pool
          /\ \A j \in Key : pool'.docP[j] = IF j = k THEN NoDoc ELSE g.docP[j]
          /\ pool'.cached = g.cached \ {k}
          /\ pool'.bytes <= g.bytes
          /\ Tallied(g) /\ ~(dirty[k] /\ k \in g.cached /\ g.size[k] > 0)
                 => Tallied(pool')
      <3>1. /\ Without(g, k) \in Pool
            /\ \A j \in Key :
                  Without(g, k).docP[j] = IF j = k THEN NoDoc ELSE g.docP[j]
            /\ Without(g, k).cached = g.cached \ {k}
            /\ Without(g, k).bytes <= g.bytes
            /\ Tallied(g) /\ ~(dirty[k] /\ k \in g.cached /\ g.size[k] > 0)
                   => Tallied(Without(g, k))
        BY <2>3, WithoutFits
      <3> QED
        BY <2>1, <3>1
    <2>5. TypeOK'
      <3>1. orphans' \in Nat
        <4>1. g.size[k] \in 0..1
          BY <2>3 DEF Pool
        <4>2. orphans \in Nat
          BY <1>1 DEF TypeOK
        <4> QED
          BY <2>2, <4>1, <4>2
      <3>2. exposed' \subseteq {"stale_read", "orphan", "admitted_cold", "unregistered"}
        BY <1>1, <2>2, StaleReadIs DEF TypeOK
      <3> QED
        BY <1>1, <2>2, <2>4, <3>1, <3>2 DEF TypeOK, MaybeDoc
    <2>fields. /\ want'[k] = NoDoc /\ ~dirty'[k] /\ mutGen'[k] = 0
           /\ dirtyGen' \in Nat /\ dirtyGen \in Nat /\ dirtyGen <= dirtyGen'
           /\ \A j \in Key \ {k} :
                 /\ want'[j] = want[j] /\ dirty'[j] = dirty[j]
                 /\ mutGen'[j] = mutGen[j] /\ recOff'[j] = recOff[j]
                 /\ mutGen[j] \in Nat
      BY <1>1, <2>2 DEF TypeOK
    <2>6. Entries'
      <3>1. \A j \in Key \ {k} :
               /\ want'[j] # NoDoc => want'[j].id = j
               /\ want'[j] = NoDoc => pool'.docP[j] = NoDoc /\ ~dirty'[j]
               /\ dirty'[j] => pool'.docP[j] # NoDoc
               /\ mutGen'[j] <= dirtyGen'
        BY <2>3, <2>4, <2>fields DEF PInv, Entries
      <3> QED
        BY <2>4, <2>fields, <3>1 DEF Entries
    <2>7. Readers' /\ Answers'
      BY <1>1 DEF Readers, Answers
    <2>8. Flushing'
      <3> SUFFICES ASSUME flusher.pc # "idle" PROVE Flushing'
        BY <1>1 DEF Flushing
      <3>1. flusher.gen \in Nat /\ flusher.gen <= dirtyGen /\ flusher.todo = {}
        BY <1>1, FlushTypes DEF PInv, Flushing, FlushType
      <3>2. flusher.gen <= dirtyGen'
        BY <2>fields, <3>1
      <3>3. \A j \in Key : want'[j] # NoDoc /\ ~dirty'[j] => mutGen'[j] <= flusher.gen
        BY <2>fields DEF PInv, Flushing
      <3> QED
        BY <1>1, <3>1, <3>2, <3>3 DEF PInv, Flushing
    <2>9. Faithful' => Faithful
      BY <2>2 DEF Faithful
    <2>10. Memory'
      <3>1. Faithful' => \A j \in Key \ {k} : want'[j] # NoDoc =>
               /\ pool'.docP[j] \in {want'[j], NoDoc}
               /\ ~dirty'[j] => recOff'[j] # 0
                                 /\ (~Replaced => At(recOff[j]) = want[j])
        BY <2>3, <2>4, <2>9, <2>fields DEF PInv, Memory
      <3> QED
        BY <1>1, <2>fields, <3>1 DEF Memory, Replaced, At
    <2>11. Batch'
      <3>1. /\ want'[k] = NoDoc
            /\ \A j \in Key \ {k} : want'[j] = want[j] /\ mutGen'[j] = mutGen[j]
        BY <1>1, <2>2 DEF TypeOK
      <3>2. \A i \in 1..Len(flusher.docs) : flusher.docs[i].key \in Key
        <4>1. flusher.docs \in Seq(Staged)
          BY <1>1 DEF TypeOK
        <4>2. \A i \in 1..Len(flusher.docs) : flusher.docs[i] \in Staged
          BY <4>1
        <4> QED
          BY <4>2 DEF Staged
      <3> QED
        BY <1>1, <2>9, <3>1, <3>2 DEF PInv, Batch, Taken
    <2>12. exposed' \subseteq {"stale_read"} =>
              exposed \subseteq {"stale_read"} /\ (Settled(pool) => Settled(pool'))
      <3> SUFFICES ASSUME exposed' \subseteq {"stale_read"}, Settled(pool)
                   PROVE  Settled(pool')
        BY <2>2
      <3>1. ~(dirty[k] /\ k \in g.cached /\ g.size[k] > 0)
        BY <2>2
      <3> QED
        BY <2>3, <2>4, <3>1 DEF Settled
    <2>13. OverBudget(pool') => \A j \in pool'.cached : pool'.docP[j] # NoDoc
      BY <2>3, <2>4, BoundsAssumption DEF OverBudget, Pool
    <2>14. Counted' /\ Room'
      BY <1>1, <2>12, <2>13, QuietCounts
    <2> QED
      BY <2>5, <2>6, <2>7, <2>8, <2>10, <2>11, <2>14 DEF PInv
  <1> QED
    BY <1>4, <1>5

LEMMA CompactKeeps == PInv /\ Compact => PInv'
  <1> SUFFICES ASSUME PInv, Compact PROVE PInv'
    OBVIOUS
  <1>1. /\ UNCHANGED <<entryVars, pool, orphans, file, flusher, flushes, rd, exposed>>
        /\ dirtyGen' \in Nat /\ dirtyGen <= dirtyGen'
        /\ unsaved' \in BOOLEAN /\ compactForce' \in BOOLEAN
        /\ flusher.pc # "load"
    BY DEF PInv, TypeOK, Compact, MayWrite, MayRead
  <1>2. TypeOK'
    BY <1>1 DEF PInv, TypeOK, entryVars
  <1>3. Entries'
    BY <1>1 DEF PInv, Entries, TypeOK, entryVars
  <1>4. Flushing'
    BY <1>1 DEF PInv, Flushing, TypeOK, entryVars
  <1>5. Readers' /\ Answers' /\ Counted' /\ Room'
    BY <1>1 DEF PInv, Readers, Answers, Faithful, Counted, Room, Tallied, Sized,
       OverBudget, entryVars
  <1>6. Memory' /\ Batch'
    BY <1>1 DEF PInv, Memory, Batch, Faithful, Replaced, At, Taken, entryVars
  <1> QED
    BY <1>2, <1>3, <1>4, <1>5, <1>6 DEF PInv

-----------------------------------------------------------------------------
(* The flush *)

LEMMA FlushBeginKeeps == PInv /\ FlushBegin => PInv'
  <1> SUFFICES ASSUME PInv, FlushBegin PROVE PInv'
    OBVIOUS
  <1> DEFINE todo == {k \in Key : want[k] # NoDoc /\ (compactForce \/ dirty[k])}
  <1>1. /\ UNCHANGED <<entryVars, pool, orphans, dirtyGen, unsaved, file, rd, exposed>>
        /\ flushes' = flushes + 1 /\ compactForce' = FALSE
        /\ flusher.pc = "idle"
        /\ flusher' = [NoFlush EXCEPT !.pc   = IF todo = {} THEN "staged" ELSE "load",
                                      !.full = compactForce,
                                      !.gen  = dirtyGen,
                                      !.todo = todo]
        /\ \A r \in Reader : rd[r].pc = "idle"
    BY DEF FlushBegin, MayWrite
  <1>2. dirtyGen \in Nat /\ compactForce \in BOOLEAN /\ todo \in SUBSET Key
    BY DEF PInv, TypeOK
  <1>3. /\ flusher' \in FlushType
        /\ flusher'.pc = IF todo = {} THEN "staged" ELSE "load"
        /\ flusher'.full = compactForce /\ flusher'.gen = dirtyGen
        /\ flusher'.todo = todo /\ flusher'.docs = <<>>
    <2> DEFINE pc == IF todo = {} THEN "staged" ELSE "load"
    <2>1. pc \in {"idle", "load", "staged", "written"}
      OBVIOUS
    <2>2. flusher' = [NoFlush EXCEPT !.pc = pc, !.full = compactForce,
                                     !.gen = dirtyGen, !.todo = todo]
      BY <1>1
    <2>3. NoFlush \in FlushType /\ NoFlush.docs = <<>>
      BY NoFlushType DEF NoFlush
    <2> HIDE DEF todo, pc
    <2>4. /\ flusher' \in FlushType
          /\ flusher'.pc = pc
          /\ flusher'.full = compactForce /\ flusher'.gen = dirtyGen
          /\ flusher'.todo = todo /\ flusher'.docs = <<>>
      BY <1>2, <2>1, <2>2, <2>3 DEF FlushType
    <2> QED
      BY <2>4 DEF pc
  <1>4. TypeOK'
    <2>1. flushes' \in Nat /\ compactForce' \in BOOLEAN
      <3>1. flushes \in Nat
        BY DEF PInv, TypeOK
      <3>2. flushes' = flushes + 1
        BY <1>1
      <3>3. compactForce' \in BOOLEAN
        BY <1>1
      <3> QED
        BY <3>1, <3>2, <3>3
    <2>2. /\ want' \in [Key -> MaybeDoc] /\ recOff' \in [Key -> Nat]
          /\ dirty' \in [Key -> BOOLEAN] /\ mutGen' \in [Key -> Nat]
      BY <1>1 DEF PInv, TypeOK, entryVars
    <2>3. UNCHANGED <<pool, orphans, dirtyGen, unsaved, file, rd, exposed>>
      BY <1>1
    <2> QED
      BY <1>3, <2>1, <2>2, <2>3 DEF PInv, TypeOK, FlushType
  <1>5. Entries' /\ Readers' /\ Answers' /\ Counted' /\ Room'
    BY <1>1 DEF PInv, Entries, Readers, Answers, Counted, Room, Faithful,
       Tallied, Sized, OverBudget, entryVars
  <1>6. Flushing'
    BY <1>1, <1>2, <1>3 DEF PInv, Flushing, Entries, entryVars
  <1>7. Memory'
    <2>1. ~Replaced /\ ~Replaced'
      BY <1>1, <1>3 DEF Replaced
    <2> QED
      BY <1>1, <2>1 DEF PInv, Memory, Faithful, At, entryVars
  <1>8. Batch'
    BY <1>1, <1>3 DEF Batch, entryVars
  <1> QED
    BY <1>4, <1>5, <1>6, <1>7, <1>8 DEF PInv

LEMMA FlushFailsKeeps == PInv /\ FlushFails => PInv'
  <1> SUFFICES ASSUME PInv, FlushFails PROVE PInv'
    OBVIOUS
  <1>1. /\ UNCHANGED <<entryVars, pool, orphans, flagVars, file, flushes, rd, exposed>>
        /\ flusher.pc = "staged" /\ flusher' = NoFlush /\ flusher'.pc = "idle"
    BY DEF FlushFails, NoFlush
  <1>2. TypeOK'
    BY <1>1, NoFlushType DEF PInv, TypeOK, FlushType, entryVars, flagVars
  <1>3. Entries' /\ Readers' /\ Answers' /\ Counted' /\ Room'
    BY <1>1 DEF PInv, Entries, Readers, Answers, Counted, Room, Faithful,
       Tallied, Sized, OverBudget, entryVars, flagVars
  <1>4. Flushing' /\ Batch'
    BY <1>1 DEF Flushing, Batch
  <1>5. Memory'
    <2>1. ~Replaced /\ ~Replaced'
      BY <1>1 DEF Replaced
    <2> QED
      BY <1>1, <2>1 DEF PInv, Memory, Faithful, At, entryVars
  <1> QED
    BY <1>2, <1>3, <1>4, <1>5 DEF PInv

LEMMA FlushWriteKeeps == PInv /\ FlushWrite => PInv'
  <1> SUFFICES ASSUME PInv, FlushWrite PROVE PInv'
    OBVIOUS
  <1> DEFINE n == Len(flusher.docs)
             at == IF flusher.full THEN 0 ELSE Len(file)
  <1>1. /\ UNCHANGED <<entryVars, pool, orphans, flagVars, flushes, rd, exposed>>
        /\ flusher.pc = "staged"
        /\ file' = IF flusher.full THEN Slots ELSE file \o Slots
        /\ flusher' = [flusher EXCEPT !.pc = "written", !.at = at]
    BY DEF FlushWrite
  <1>2. /\ flusher \in FlushType /\ file \in Seq(MaybeDoc) /\ n \in Nat
        /\ \A i \in 1..n : flusher.docs[i].doc \in MaybeDoc
        /\ at \in Nat
    BY FlushTypes DEF PInv, TypeOK
  <1>3. /\ flusher' \in FlushType
        /\ flusher'.pc = "written" /\ flusher'.at = at
        /\ flusher'.full = flusher.full /\ flusher'.gen = flusher.gen
        /\ flusher'.todo = flusher.todo /\ flusher'.docs = flusher.docs
    <2> HIDE DEF at
    <2> QED
      BY <1>1, <1>2 DEF FlushType
  <1>4. /\ Slots \in Seq(MaybeDoc) /\ Len(Slots) = n + 1
        /\ \A i \in 1..n : Slots[i] = flusher.docs[i].doc
    <2>1. \A i \in 1..n + 1 :
             (IF i > n THEN NoDoc ELSE flusher.docs[i].doc) \in MaybeDoc
      BY <1>2 DEF MaybeDoc
    <2> HIDE DEF n
    <2> QED
      BY <1>2, <2>1 DEF Slots, n
  <1>5. /\ file' \in Seq(MaybeDoc)
        /\ \A i \in 1..n : /\ at + i \in 1..Len(file')
                           /\ file'[at + i] = flusher.docs[i].doc
        /\ ~flusher.full =>
              \A i \in 1..Len(file) : i \in 1..Len(file') /\ file'[i] = file[i]
    <2> HIDE DEF n
    <2> QED
      BY <1>1, <1>2, <1>4
  <1>6. TypeOK'
    BY <1>1, <1>3, <1>5 DEF PInv, TypeOK, FlushType, entryVars, flagVars
  <1>7. Entries' /\ Readers' /\ Answers' /\ Counted' /\ Room'
    BY <1>1, <1>3 DEF PInv, Entries, Readers, Answers, Counted, Room, Faithful,
       Tallied, Sized, OverBudget, entryVars, flagVars
  <1>8. Flushing'
    BY <1>1, <1>3, <1>5 DEF PInv, Flushing, entryVars, flagVars
  <1>9. Memory'
    <2> SUFFICES ASSUME Faithful', ~Replaced', NEW k \in Key,
                        want[k] # NoDoc, ~dirty[k]
                 PROVE  At(recOff[k])' = want[k]
      BY <1>1 DEF PInv, Memory, Faithful, entryVars
    <2>1. ~flusher.full /\ ~Replaced /\ Faithful
      BY <1>1, <1>3 DEF Replaced, Faithful
    <2>2. At(recOff[k]) = want[k]
      BY <2>1 DEF PInv, Memory
    <2>3. recOff[k] \in 1..Len(file) /\ file[recOff[k]] = want[k]
      BY <2>2 DEF At
    <2> QED
      BY <1>1, <1>5, <2>1, <2>3 DEF At, entryVars
  <1>10. Batch'
    BY <1>1, <1>3 DEF PInv, Batch, Faithful, Taken, entryVars
  <1> QED
    BY <1>6, <1>7, <1>8, <1>9, <1>10 DEF PInv

\* One more document in the batch, its own.
LEMMA FlushLoadKeeps ==
    ASSUME PInv, NEW k \in Key, FlushLoad(k)
    PROVE  PInv'
  <1>1. /\ UNCHANGED <<entryVars, orphans, flagVars, file, flushes, rd, exposed>>
        /\ flusher.pc = "load" /\ k \in flusher.todo
    BY DEF FlushLoad
  <1>2. /\ TypeOK /\ want[k] # NoDoc
        /\ \A r \in Reader : rd[r].pc = "idle"
        /\ ~Replaced /\ StaleRead(k) = {}
        /\ flusher \in FlushType
    BY <1>1, FlushTypes DEF PInv, Flushing, Readers, Replaced, StaleRead
  <1>3. PICK got \in Loaded(k) :
          /\ pool' = got.pool
          /\ IF got.doc = NoDoc /\ recOff[k] # 0
             THEN flusher' = NoFlush
             ELSE flusher' =
                      [flusher EXCEPT
                          !.todo = @ \ {k},
                          !.docs = IF got.doc = NoDoc THEN @
                                   ELSE Append(@, [key |-> k, doc |-> got.doc]),
                          !.pc   = IF flusher.todo = {k} THEN "staged" ELSE @]
    BY DEF FlushLoad
  <1>4. LoadedRight(k, got)
    BY LoadedGives
  <1>5. /\ got.doc \in MaybeDoc /\ pool' \in Pool
        /\ OverBudget(pool') => \A j \in pool'.cached : pool'.docP[j] # NoDoc
        /\ Settled(pool) => Settled(pool')
        /\ \A j \in Key : \/ pool'.docP[j] = pool.docP[j]
                          \/ j = k /\ pool'.docP[j] = got.doc
                          \/ pool'.docP[j] = NoDoc /\ ~dirty[j]
        /\ pool.docP[k] # NoDoc => got.doc = pool.docP[k]
    BY <1>3, <1>4 DEF LoadedRight, Settled
  <1>6. Faithful /\ got.doc # NoDoc => got.doc = want[k]
    BY <1>2, LoadedIsStored
  <1>7. /\ flusher' \in FlushType
        /\ ~Replaced'
        /\ flusher'.pc # "written"
        /\ \/ flusher'.pc = "idle"
           \/ /\ flusher'.gen = flusher.gen /\ flusher'.full = flusher.full
              /\ flusher'.todo = flusher.todo \ {k}
              /\ flusher'.pc = IF flusher.todo = {k} THEN "staged" ELSE "load"
              /\ \/ got.doc = NoDoc /\ recOff[k] = 0 /\ flusher'.docs = flusher.docs
                 \/ /\ got.doc # NoDoc
                    /\ flusher'.docs =
                          Append(flusher.docs, [key |-> k, doc |-> got.doc])
    <2>1. CASE got.doc = NoDoc /\ recOff[k] # 0
      <3>1. flusher' = NoFlush
        BY <1>3, <2>1
      <3>2. NoFlush.pc = "idle"
        BY DEF NoFlush
      <3> QED
        BY <3>1, <3>2, NoFlushType DEF Replaced
    <2>2. CASE ~(got.doc = NoDoc /\ recOff[k] # 0)
      <3> DEFINE docs == IF got.doc = NoDoc THEN flusher.docs
                         ELSE Append(flusher.docs, [key |-> k, doc |-> got.doc])
                 pc == IF flusher.todo = {k} THEN "staged" ELSE "load"
      <3>1. docs \in Seq(Staged)
        <4>1. [key |-> k, doc |-> got.doc] \in Staged
          BY <1>5 DEF Staged
        <4>2. flusher.docs \in Seq(Staged)
          BY FlushTypes
        <4> QED
          BY <4>1, <4>2
      <3>2. pc \in {"load", "staged"}
        OBVIOUS
      <3>3. flusher' = [flusher EXCEPT !.todo = flusher.todo \ {k},
                                       !.docs = docs, !.pc = pc]
        BY <1>1, <1>3, <2>2
      <3>5. \/ got.doc = NoDoc /\ recOff[k] = 0 /\ docs = flusher.docs
            \/ /\ got.doc # NoDoc
               /\ docs = Append(flusher.docs, [key |-> k, doc |-> got.doc])
        BY <2>2
      <3> HIDE DEF docs, pc
      <3>4. /\ flusher' \in FlushType
            /\ flusher'.pc = pc /\ flusher'.docs = docs
            /\ flusher'.todo = flusher.todo \ {k}
            /\ flusher'.gen = flusher.gen /\ flusher'.full = flusher.full
        BY <1>2, <3>1, <3>2, <3>3 DEF FlushType
      <3> QED
        BY <3>2, <3>4, <3>5 DEF Replaced, pc
    <2> QED
      BY <2>1, <2>2
  <1>8. TypeOK'
    BY <1>1, <1>2, <1>5, <1>7 DEF TypeOK, FlushType, entryVars, flagVars
  <1>9. Entries'
    BY <1>1, <1>2, <1>5 DEF PInv, Entries, entryVars, flagVars
  <1>10. Readers' /\ Answers'
    BY <1>1, <1>2 DEF Readers, Answers
  <1>11. Flushing'
    BY <1>1, <1>7 DEF PInv, Flushing, entryVars, flagVars
  <1>12. Memory'
    <2>1. Faithful => \A j \in Key : want[j] # NoDoc =>
             /\ pool'.docP[j] \in {want[j], NoDoc}
             /\ ~dirty[j] => recOff[j] # 0 /\ At(recOff[j]) = want[j]
      BY <1>2, <1>5, <1>6 DEF PInv, Memory
    <2> QED
      BY <1>1, <1>7, <2>1 DEF Memory, Faithful, At, entryVars
  <1>13. Batch'
    <2> SUFFICES ASSUME Faithful', flusher'.pc # "idle"
                 PROVE  Batch'
      BY DEF Batch
    <2>1. Faithful
      BY <1>1 DEF Faithful
    <2>2. got.doc # NoDoc
      <3>1. CASE pool.docP[k] = NoDoc
        <4>1. ~dirty[k]
          BY <3>1 DEF PInv, Entries
        <4>2. recOff[k] # 0
          BY <1>2, <2>1, <4>1 DEF PInv, Memory
        <4> QED
          BY <1>7, <4>2
      <3>2. CASE pool.docP[k] # NoDoc
        BY <1>5, <3>2
      <3> QED
        BY <3>1, <3>2
    <2> DEFINE n == Len(flusher.docs)
               s == [key |-> k, doc |-> got.doc]
    <2>3. /\ flusher'.gen = flusher.gen /\ flusher'.full = flusher.full
          /\ flusher'.todo = flusher.todo \ {k}
          /\ flusher'.docs = Append(flusher.docs, s)
      BY <1>7, <2>2
    <2>4. /\ n \in Nat /\ Len(flusher'.docs) = n + 1
          /\ flusher'.docs[n + 1] = s
          /\ \A i \in 1..n : flusher'.docs[i] = flusher.docs[i]
      <3>1. flusher.docs \in Seq(Staged) /\ s \in Staged
        BY <1>5, FlushTypes DEF Staged
      <3> HIDE DEF s
      <3> QED
        BY <2>3, <3>1
    <2>5. s.key = k /\ s.doc = want[k]
      BY <1>6, <2>1, <2>2
    <2> HIDE DEF s, n
    <2>6. \A i \in 1..n + 1 :
             LET j == flusher'.docs[i].key
             IN  want[j] # NoDoc /\ mutGen[j] <= flusher.gen =>
                     flusher'.docs[i].doc = want[j]
      <3>1. \A i \in 1..n :
               LET j == flusher'.docs[i].key
               IN  want[j] # NoDoc /\ mutGen[j] <= flusher.gen =>
                       flusher'.docs[i].doc = want[j]
        BY <1>1, <2>1, <2>4 DEF PInv, Batch, n
      <3>2. \A i \in 1..n + 1 : i \in 1..n \/ i = n + 1
        BY <2>4
      <3> QED
        BY <2>4, <2>5, <3>1, <3>2
    <2>7. Taken \union {k} \subseteq Taken'
      <3>1. \A i \in 1..n : i \in 1..n + 1
        BY <2>4
      <3>2. n + 1 \in 1..n + 1
        BY <2>4
      <3> QED
        BY <2>4, <2>5, <3>1, <3>2 DEF Taken, n
    <2>8. flusher.full =>
             \A j \in Key : want[j] # NoDoc /\ mutGen[j] <= flusher.gen =>
                 j \in flusher'.todo \/ j \in Taken'
      BY <1>1, <2>1, <2>3, <2>7 DEF PInv, Batch
    <2> QED
      BY <1>1, <2>3, <2>4, <2>6, <2>8 DEF Batch, entryVars
  <1>14. Counted' /\ Room'
    BY <1>1, <1>2, <1>5, QuietCounts
  <1> QED
    BY <1>8, <1>9, <1>10, <1>11, <1>12, <1>13, <1>14 DEF PInv

\* The bookkeeping of a flush points the entries at the records it wrote.
LEMMA FlushApplyKeeps == PInv /\ FlushApply => PInv'
  <1> SUFFICES ASSUME PInv, FlushApply PROVE PInv'
    OBVIOUS
  <1>1. /\ UNCHANGED <<want, mutGen, pool, orphans, dirtyGen, compactForce, file,
                       flushes, rd, exposed>>
        /\ flusher.pc = "written"
        /\ dirty' = [k \in Key |-> dirty[k] /\ ~Cleaned(k)]
        /\ recOff' = [k \in Key |->
                         IF want[k] # NoDoc /\ WrittenAs(k) # {}
                         THEN RecordAt(CHOOSE i \in WrittenAs(k) : TRUE)
                         ELSE recOff[k]]
        /\ unsaved' = (unsaved /\ dirtyGen # flusher.gen)
        /\ flusher' = NoFlush /\ flusher'.pc = "idle"
        /\ \A r \in Reader : rd[r].pc = "idle"
    BY DEF FlushApply, MayWrite, NoFlush
  <1>2. /\ TypeOK /\ flusher \in FlushType /\ Len(flusher.docs) \in Nat
        /\ flusher.at \in Nat
    BY FlushTypes DEF PInv, FlushType
  <1>3. \A k \in Key : dirty'[k] => dirty[k]
    BY <1>1
  <1>4. ASSUME NEW k \in Key, WrittenAs(k) # {}
        PROVE  \E i \in 1..Len(flusher.docs) :
                  /\ flusher.docs[i].key = k
                  /\ RecordAt(CHOOSE j \in WrittenAs(k) : TRUE) = flusher.at + i
                  /\ flusher.at + i \in 1..Len(file)
                  /\ file[flusher.at + i] = flusher.docs[i].doc
    <2> DEFINE i == CHOOSE j \in WrittenAs(k) : TRUE
    <2>1. i \in WrittenAs(k)
      BY <1>4
    <2>2. i \in 1..Len(flusher.docs) /\ flusher.docs[i].key = k
      BY <2>1 DEF WrittenAs
    <2> HIDE DEF i
    <2>3. RecordAt(i) = flusher.at + i
      BY DEF RecordAt
    <2> QED
      BY <1>1, <2>2, <2>3 DEF PInv, Flushing, i
  <1>5. recOff' \in [Key -> Nat]
    <2>1. \A k \in Key : WrittenAs(k) # {} =>
             RecordAt(CHOOSE j \in WrittenAs(k) : TRUE) \in Nat
      BY <1>2, <1>4
    <2>2. \A k \in Key : recOff[k] \in Nat
      BY <1>2 DEF TypeOK
    <2> QED
      BY <1>1, <2>1, <2>2
  <1>6. TypeOK'
    <2>1. dirty' \in [Key -> BOOLEAN] /\ unsaved' \in BOOLEAN
      BY <1>1
    <2>2. UNCHANGED <<want, mutGen, pool, orphans, dirtyGen, compactForce, file,
                      flushes, rd, exposed>> /\ flusher' = NoFlush
      BY <1>1
    <2> QED
      BY <1>2, <1>5, <2>1, <2>2, NoFlushType DEF TypeOK, FlushType
  <1>7. Entries'
    BY <1>1, <1>3 DEF PInv, Entries
  <1>8. Readers' /\ Answers' /\ Flushing' /\ Batch'
    BY <1>1 DEF Readers, Answers, Flushing, Batch
  <1>9. Counted' /\ Room'
    <2>1. pool' = pool /\ exposed' = exposed /\ rd' = rd
          /\ \A r \in Reader : rd[r].pc = "idle"
      BY <1>1
    <2> QED
      BY <2>1, QuietCounts DEF PInv, Room
  <1>10. Memory'
    <2> SUFFICES ASSUME Faithful, NEW k \in Key, want[k] # NoDoc, ~dirty'[k]
                 PROVE  recOff'[k] # 0 /\ At(recOff'[k]) = want[k]
      BY <1>1 DEF PInv, Memory, Faithful, At
    <2>1. mutGen[k] <= flusher.gen
      BY <1>1 DEF Cleaned, PInv, Flushing
    <2>2. CASE WrittenAs(k) # {}
      <3>1. PICK i \in 1..Len(flusher.docs) :
               /\ flusher.docs[i].key = k
               /\ RecordAt(CHOOSE j \in WrittenAs(k) : TRUE) = flusher.at + i
               /\ flusher.at + i \in 1..Len(file)
               /\ file[flusher.at + i] = flusher.docs[i].doc
        BY <1>4, <2>2
      <3>2. flusher.docs[i].doc = want[k]
        BY <1>1, <2>1, <3>1 DEF PInv, Batch
      <3>3. recOff'[k] = flusher.at + i
        BY <1>1, <2>2, <3>1
      <3> QED
        BY <1>2, <3>1, <3>2, <3>3 DEF At
    <2>3. CASE WrittenAs(k) = {}
      <3>1. ~dirty[k] /\ recOff'[k] = recOff[k]
        BY <1>1, <2>3 DEF Cleaned
      <3>2. ~flusher.full
        <4>1. k \notin flusher.todo /\ k \notin Taken
          BY <1>1, <2>3 DEF WrittenAs, Taken, PInv, Flushing
        <4> QED
          BY <1>1, <2>1, <4>1 DEF PInv, Batch
      <3> QED
        BY <3>1, <3>2 DEF PInv, Memory, Replaced
    <2> QED
      BY <2>2, <2>3
  <1> QED
    BY <1>6, <1>7, <1>8, <1>9, <1>10 DEF PInv

-----------------------------------------------------------------------------
(* The theorems *)

LEMMA PInvNext == PInv /\ [Next]_vars => PInv'
  <1> SUFFICES ASSUME PInv, [Next]_vars PROVE PInv'
    OBVIOUS
  <1>1. ASSUME NEW r \in Reader,
               \/ \E k \in Key : ReadStart(r, k)
               \/ ReadRecord(r) \/ ReadCheck(r) \/ ReadStore(r) \/ ReadAdmit(r)
               \/ ReadEnd(r)
        PROVE  PInv'
    BY <1>1, ReadStartKeeps, ReadRecordKeeps, ReadCheckKeeps, ReadStoreKeeps,
       ReadAdmitKeeps, ReadEndKeeps
  <1>2. ASSUME NEW k \in Key,
               \/ \E v \in Val : Insert(k, v) \/ Update(k, v) \/ Replace(k, v)
               \/ Delete(k)
        PROVE  PInv'
    BY <1>2, InsertKeeps, UpdateKeeps, ReplaceKeeps, DeleteKeeps
  <1>3. CASE Compact
    BY <1>3, CompactKeeps
  <1>4. CASE Flush
    BY <1>4, FlushBeginKeeps, FlushLoadKeeps, FlushWriteKeeps, FlushFailsKeeps,
       FlushApplyKeeps DEF Flush
  <1>5. CASE UNCHANGED vars
    <2>1. /\ UNCHANGED <<entryVars, pool, orphans, flagVars, file, flusher,
                         flushes, rd>>
          /\ exposed' = exposed
      BY <1>5 DEF vars
    <2> QED
      BY <2>1, FailedKeeps
  <1> QED
    BY <1>1, <1>2, <1>3, <1>4, <1>5 DEF Next, Read, Mutate

LEMMA PInvAlways == Spec => []PInv
  BY PInvInit, PInvNext, PTL DEF Spec

\* Eviction, cold reads and flushes lose no document, for every number of
\* entries and readers and every budget: it is in memory as it was stored, or
\* its record is where the entry says (cache.go:141-216, file.go:538-592).
THEOREM EvictionLosesNothing == Spec => []NothingIsLost
  <1>1. PInv => NothingIsLost
    <2> SUFFICES ASSUME PInv, Faithful, NEW k \in Key, want[k] # NoDoc,
                        pool.docP[k] # want[k]
                 PROVE  /\ pool.docP[k] = NoDoc
                        /\ ~dirty[k]
                        /\ ~Replaced => At(recOff[k]) = want[k]
      BY DEF NothingIsLost, Faithful, PInv
    <2>1. pool.docP[k] = NoDoc
      BY DEF PInv, Memory
    <2>2. ~dirty[k]
      BY <2>1 DEF PInv, Entries
    <2> QED
      BY <2>1, <2>2 DEF PInv, Memory
  <1> QED
    BY <1>1, PInvAlways, PTL

\* Readers that share s.mu, load the same entry and evict each other's still
\* answer with the document (cache.go:43-76).
THEOREM ReadersAgree == Spec => []AnswersAreRight
  <1>1. PInv => AnswersAreRight
    BY DEF PInv, Answers, AnswersAreRight, Faithful
  <1> QED
    BY <1>1, PInvAlways, PTL

\* s.cache and s.residentBytes are what is resident, whatever was evicted and
\* in whichever order readers were preempted, up to the ways the code loses
\* count that exposed names (cache.go:126-138, 199-216).
THEOREM CountIsExact == Spec => []ResidentsAreCounted
  <1>1. PInv => ResidentsAreCounted
    <2> SUFFICES ASSUME PInv, exposed \subseteq {"stale_read"},
                        \A r \in Reader : rd[r].pc # "admit"
                 PROVE  /\ pool.cached = {k \in Key : pool.docP[k] # NoDoc}
                        /\ pool.bytes =
                              Cardinality({k \in pool.cached : pool.size[k] = 1})
      BY DEF ResidentsAreCounted
    <2>1. Settled(pool)
      BY DEF PInv, Counted, Settled
    <2>2. pool.cached \subseteq Key
      BY DEF PInv, TypeOK, Pool
    <2> QED
      BY <2>1, <2>2 DEF Settled, Tallied, Sized
  <1> QED
    BY <1>1, PInvAlways, PTL

\* A load makes the room that can be made: what it leaves over the budget is
\* not saved yet (cache.go:141-178).
THEOREM LoadsMakeRoom == Spec => RoomIsMade
  <1> DEFINE Fits == \A r \in Reader : rd[r].pc = "admit" /\ rd'[r].pc = "done" =>
                        \/ pool'.bytes <= Budget
                        \/ pool'.cached \subseteq {k \in Key : dirty[k]}
  <1>1. PInv /\ PInv' /\ [Next]_vars => [Fits]_vars
    <2> SUFFICES ASSUME PInv, PInv', Next, NEW r \in Reader,
                        rd[r].pc = "admit", rd'[r].pc = "done"
                 PROVE  \/ pool'.bytes <= Budget
                        \/ pool'.cached \subseteq {k \in Key : dirty[k]}
      BY DEF Fits
    <2> DEFINE k == rd[r].key
    <2>1. /\ pool \in Pool /\ dirty \in [Key -> BOOLEAN] /\ k \in Key
          /\ rd \in [Reader -> ReaderType]
      BY DEF PInv, TypeOK, ReaderType
    <2>2. ReadAdmit(r)
      <3>1. ASSUME NEW s \in Reader,
                   \/ \E j \in Key : ReadStart(s, j)
                   \/ ReadRecord(s) \/ ReadCheck(s) \/ ReadStore(s) \/ ReadEnd(s)
            PROVE  FALSE
        <4>1. rd[s].pc \in {"idle", "read", "check", "store", "done"}
          BY <3>1 DEF ReadStart, ReadRecord, ReadCheck, ReadStore, ReadEnd
        <4>2. s # r => rd'[r] = rd[r]
          BY <2>1, <3>1
          DEF ReadStart, ReadRecord, ReadCheck, ReadStore, ReadEnd, Return
        <4> QED
          BY <4>1, <4>2
      <3>2. ASSUME NEW s \in Reader, ReadAdmit(s), s # r
            PROVE  FALSE
        BY <2>1, <3>2 DEF ReadAdmit, Return
      <3>3. rd' # rd
        OBVIOUS
      <3>4. Read
        <4>1. ASSUME NEW j \in Key, NEW v \in Val,
                     Insert(j, v) \/ Replace(j, v)
              PROVE  rd' = rd
          BY <4>1 DEF Insert, Replace, Mutated
        <4>2. ASSUME NEW j \in Key, NEW v \in Val, Update(j, v)
              PROVE  rd' = rd
          BY <4>2, Zenon DEF Update, Mutated
        <4>3. ASSUME NEW j \in Key, Delete(j)
              PROVE  rd' = rd
          BY <4>3 DEF Delete
        <4>4. ~Mutate
          BY <3>3, <4>1, <4>2, <4>3 DEF Mutate
        <4>5. ~Compact
          BY <3>3 DEF Compact
        <4>6. ~Flush
          BY <3>3 DEF Flush, FlushBegin, FlushLoad, FlushWrite, FlushFails,
             FlushApply
        <4> QED
          BY <4>4, <4>5, <4>6 DEF Next
      <3> QED
        BY <3>1, <3>2, <3>4 DEF Read
    <2>3. Admitted(pool, pool', k, dirty)
      BY <2>1, <2>2, AdmitFits DEF ReadAdmit
    <2>4. OverBudget(pool') => \A j \in pool'.cached : dirty[j]
      <3>1. CASE k \in pool.cached
        <4>1. pool' = pool
          BY <2>3, <3>1 DEF Admitted
        <4> QED
          BY <3>1, <4>1 DEF PInv, Room
      <3>2. CASE k \notin pool.cached
        BY <2>3, <3>2 DEF Admitted
      <3> QED
        BY <3>1, <3>2
    <2>5. pool'.bytes \in Nat /\ pool'.cached \subseteq Key
      BY <2>3 DEF Admitted, Pool
    <2> QED
      BY <2>4, <2>5, BoundsAssumption DEF OverBudget
  <1>2. Spec => [][Fits]_vars
    BY <1>1, PInvAlways, PTL DEF Spec
  <1> QED
    BY <1>2 DEF RoomIsMade, Fits

=============================================================================
