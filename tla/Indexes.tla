------------------------------ MODULE Indexes ------------------------------
(***************************************************************************)
(* A secondary index of a collection (db/index.go): the hash from keys to  *)
(* _ids, the ordered keys, which are sorted when a search first needs it,  *)
(* and the flat view of both (the CSR matrix) that a flush or an open      *)
(* leaves until the next mutation.                                         *)
(*                                                                         *)
(* A key is the tuple of its values. What an IDX record holds cannot be    *)
(* damaged unnoticed (it is sealed), so a matrix read from it is valid,    *)
(* and the rows beside it, its substitute, are left out.                   *)
(***************************************************************************)
EXTENDS Filters

\* newIndex
NewIndex(fields, unique) ==
    [fields |-> fields, unique |-> unique, rows |-> {}, ord |-> <<>>,
     sorted |-> FALSE, matrix |-> <<>>]

\* The matrix is there when it has as many rows as there are keys.
Same(ix, def) == ix.fields = def.fields /\ ix.unique = def.unique

IdsOf(ix, k) == {r.id : r \in {r \in ix.rows : r.key = k}}

SetAsc(S) ==
    [n \in 1..Cardinality(S) |-> CHOOSE i \in S : Cardinality({j \in S : j < i}) = n - 1]

\* The lists of ss, one behind the other.
Joined(ss) ==
    LET upTo[n \in 0..Len(ss)] == IF n = 0 THEN <<>> ELSE upTo[n - 1] \o ss[n]
    IN  upTo[Len(ss)]

-----------------------------------------------------------------------------
(* The keys of a document *)

\* An array is indexed by its elements, an empty one like a missing field.
Expanded(v) ==
    IF v.t # "arr" THEN {v}
    ELSE IF v.v = <<>> THEN {Nil}
    ELSE {Num(v.v[i]) : i \in DOMAIN v.v}

\* extractIndexRows: every combination of what the fields hold.
RowsOf(d, fields) ==
    {k \in [DOMAIN fields ->
              UNION {Expanded(Lookup(d, fields[i])) : i \in DOMAIN fields}] :
        \A i \in DOMAIN fields : k[i] \in Expanded(Lookup(d, fields[i]))}

\* The letters encodeIndexValue begins with, in their order.
Letter(v) ==
    CASE v.t = "bool" -> 1 [] v.t = "num" -> 3 [] v.t = "str" -> 4
      [] v.t = "nil" -> 5 [] OTHER -> 2

\* The order of two encoded keys of the same length.
KeyLess(a, b) ==
    \E i \in DOMAIN a :
        /\ \A j \in 1..i - 1 : a[j] = b[j]
        /\ \/ Letter(a[i]) < Letter(b[i])
           \/ a[i].t = b[i].t /\ a[i] # b[i] /\ a[i].v[1] < b[i].v[1]

\* ordLess
OrdLess(a, b) ==
    LET c == CompareOrdered(a[1], b[1]) IN c < 0 \/ (c = 0 /\ KeyLess(a, b))

\* ensureOrd
EnsureOrd(ix) ==
    IF ix.sorted THEN ix
    ELSE [ix EXCEPT !.ord = StableSort(ix.ord, OrdLess), !.sorted = TRUE]

-----------------------------------------------------------------------------
(* Changes *)

\* sort.Search: the first of some places of a list, or the one behind its end.
Search(s, places) == Min(places \union {Len(s) + 1})

OrdAdd(ix, k) ==
    LET place == Search(ix.ord, {i \in DOMAIN ix.ord : ~OrdLess(ix.ord[i], k)}) IN
    [ix EXCEPT !.ord = IF ix.sorted THEN InsertAt(ix.ord, place, k) ELSE Append(ix.ord, k)]

\* ordRemove: the first entry with the key, found by its value or one by one.
OrdRemove(ix, k) ==
    LET place == Search(ix.ord, {i \in DOMAIN ix.ord : ix.ord[i] = k}) IN
    IF place > Len(ix.ord) THEN ix ELSE [ix EXCEPT !.ord = RemoveAt(ix.ord, place)]

AddKey(ix, k, id) ==
    LET known == IF IdsOf(ix, k) = {} THEN OrdAdd(ix, k) ELSE ix
        others == {r \in ix.rows : ~(ix.unique /\ r.key = k)}
    IN  [known EXCEPT !.matrix = <<>>,
                      !.rows = others \union {[key |-> k, id |-> id]}]

\* Mutant of RemoveKey: the flat view stays.
RemoveKeyOnly(ix, k, id) ==
    IF [key |-> k, id |-> id] \notin ix.rows THEN ix
    ELSE LET left == [ix EXCEPT !.rows = @ \ {[key |-> k, id |-> id]}] IN
         IF IdsOf(left, k) = {} THEN OrdRemove(left, k) ELSE left

RemoveKey(ix, k, id) ==
    LET left == [ix EXCEPT !.matrix = <<>>,
                           !.rows = ix.rows \ {[key |-> k, id |-> id]}]
    IN  IF IdsOf(ix, k) # {} /\ IdsOf(left, k) = {} THEN OrdRemove(left, k) ELSE left

Conflicts(ix, d, id) ==
    ix.unique /\ \E k \in RowsOf(d, ix.fields) : ~(IdsOf(ix, k) \subseteq {id})

\* The keys of ks, one after the other.
AddKeys(ix, ks, id) ==
    LET upTo[n \in 0..Len(ks)] == IF n = 0 THEN ix ELSE AddKey(upTo[n - 1], ks[n], id)
    IN  upTo[Len(ks)]

RemoveKeys(ix, ks, id) ==
    LET upTo[n \in 0..Len(ks)] == IF n = 0 THEN ix ELSE RemoveKey(upTo[n - 1], ks[n], id)
    IN  upTo[Len(ks)]

\* addDoc: where a key is another document's nothing changes (ErrDuplicate).
AddDoc(ix, d, id) ==
    IF Conflicts(ix, d, id) THEN ix ELSE AddKeys(ix, SetToSeq(RowsOf(d, ix.fields)), id)

RemoveDoc(ix, d, id) == RemoveKeys(ix, SetToSeq(RowsOf(d, ix.fields)), id)

\* applyIndexes: out with the old document's keys, in with the new one's; when
\* an index refuses, all go back. NoOld stands for no old document.
NoOld == <<>>

Restored(ixs, old, new, id) ==
    [i \in DOMAIN ixs |->
        LET out == RemoveDoc(ixs[i], new, id)
        IN  IF old = NoOld THEN out ELSE AddDoc(out, old, id)]

Without(ixs, old, id) ==
    [i \in DOMAIN ixs |-> IF old = NoOld THEN ixs[i] ELSE RemoveDoc(ixs[i], old, id)]

ApplyIndexes(ixs, old, new, id) ==
    LET out == Without(ixs, old, id)
        in == [i \in DOMAIN ixs |-> AddDoc(out[i], new, id)]
    IN  IF \E i \in DOMAIN ixs : Conflicts(out[i], new, id)
        THEN [ok |-> FALSE, ixs |-> Restored(in, old, new, id)]
        ELSE [ok |-> TRUE, ixs |-> in]

\* covers: all the keys of the document are there.
Covers(ix, d, id) ==
    \A k \in RowsOf(d, ix.fields) : [key |-> k, id |-> id] \in ix.rows

-----------------------------------------------------------------------------
(* Searches *)

\* lookupIDs, and countKey, which counts what it returns.
LookupIDs(ix, values) == IdsOf(ix, values)

CountKey(ix, values) == Cardinality(IdsOf(ix, values))

\* The ranks whose values have an order the searches use.
Ordered(v) == TypeRank(v) \in {1, 2}

\* The place in ord where the values from v on begin, or those past v.
Seek(ix, v, past) ==
    LET from(a) == IF TypeRank(a) # TypeRank(v) THEN TypeRank(a) > TypeRank(v)
                   ELSE CompareOrdered(a, v) >= IF past THEN 1 ELSE 0
    IN  Search(ix.ord, {i \in DOMAIN ix.ord : from(ix.ord[i][1])})

\* seekPrefix: the keys that begin with values.
SeekPrefix(ix, values) ==
    LET s == EnsureOrd(ix)
        n == Len(values)
        begins(k) == SubSeq(k, 1, n) = values
        start == Seek(s, values[1], FALSE)
        end == Seek(s, values[1], TRUE)
        keys == IF Ordered(values[1]) THEN {s.ord[i] : i \in start..end - 1}
                ELSE {r.key : r \in ix.rows}
    IN  IF n = Len(ix.fields) THEN LookupIDs(ix, values)
        ELSE UNION {IdsOf(ix, k) : k \in {k \in keys : begins(k)}}

\* collectRange: from the matrix while it is there, else key by key.
IdsAt(ix, i) ==
    IF Len(ix.matrix) = Len(ix.ord) THEN ix.matrix[i].ids ELSE SetAsc(IdsOf(ix, ix.ord[i]))

CollectRange(ix, start, end) ==
    Joined([j \in 1..(end - start) |-> IdsAt(ix, start + j - 1)])

\* Bounds: a sequence of one pair for each end there is, of the value and
\* whether it is in the range.
NoBound == <<>>

\* The place in ord where the bands from a rank on begin.
RankFrom(s, rank) == Search(s.ord, {i \in DOMAIN s.ord : TypeRank(s.ord[i][1]) >= rank})

\* Mutant of UpperEnd: an end that is in the range is taken for one that is not.
UpperEndOpen(s, hi, rank) ==
    IF hi = NoBound THEN RankFrom(s, rank + 1) ELSE Seek(s, hi[1], FALSE)

UpperEnd(s, hi, rank) ==
    IF hi = NoBound THEN RankFrom(s, rank + 1) ELSE Seek(s, hi[1], hi[2])

LowerEnd(s, lo, rank) ==
    IF lo = NoBound THEN RankFrom(s, rank) ELSE Seek(s, lo[1], ~lo[2])

\* seekRange: the _ids in the order of the keys, an _id once for each of its keys.
SeekRange(ix, lo, hi) ==
    LET s == EnsureOrd(ix)
        v == IF lo = NoBound THEN hi[1] ELSE lo[1]
    IN  IF ~Ordered(v) \/ (hi # NoBound /\ TypeRank(hi[1]) # TypeRank(v)) THEN <<>>
        ELSE CollectRange(s, LowerEnd(s, lo, TypeRank(v)), UpperEnd(s, hi, TypeRank(v)))

-----------------------------------------------------------------------------
(* On file *)

\* serialize: the index afterwards, with its flat view, and what is written.
Serialized(ix) ==
    LET s == EnsureOrd(ix)
    IN  [s EXCEPT !.matrix = [i \in DOMAIN s.ord |->
                    [key |-> s.ord[i], ids |-> SetAsc(IdsOf(s, s.ord[i]))]]]

Payload(ix) == [fields |-> ix.fields, unique |-> ix.unique,
                csr |-> Serialized(ix).matrix]

\* loadRows and loadCSR: what is there is replaced.
LoadRows(ix, p) ==
    [ix EXCEPT !.rows = UNION {{[key |-> r.key, id |-> r.ids[j]] : j \in DOMAIN r.ids} :
                                  r \in ToSet(p.csr)},
               !.ord = [i \in DOMAIN p.csr |-> p.csr[i].key],
               !.sorted = TRUE,
               !.matrix = p.csr]

-----------------------------------------------------------------------------

\* What an index of the documents of docs (a function of their _ids) has to hold.
RowsOfAll(docs, S, fields) ==
    UNION {{[key |-> k, id |-> i] : k \in RowsOf(docs[i], fields)} : i \in S}

\* The ordered keys are the keys there are, each once; sorted when they are
\* said to be; and the flat view shows what the hash holds, in order.
Coherent(ix) ==
    /\ ToSet(ix.ord) = {r.key : r \in ix.rows}
    /\ \A i, j \in DOMAIN ix.ord : ix.ord[i] = ix.ord[j] => i = j
    /\ ix.sorted => \A i, j \in DOMAIN ix.ord : i < j => OrdLess(ix.ord[i], ix.ord[j])
    /\ ix.matrix # <<>> =>
          /\ ix.sorted
          /\ ix.matrix = [i \in DOMAIN ix.ord |->
                [key |-> ix.ord[i], ids |-> SetAsc(IdsOf(ix, ix.ord[i]))]]
=============================================================================
