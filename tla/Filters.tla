------------------------------ MODULE Filters ------------------------------
(***************************************************************************)
(* The values of documents, how the store compares and orders them, and    *)
(* what a filter of Find selects (db/filter.go, the comparisons of         *)
(* db/store.go and db/index.go).                                           *)
(*                                                                         *)
(* A document is a function from its fields. A field may be a dotted path: *)
(* then its value says what the walk along the path finds. Integers stand  *)
(* for the strings as well as the numbers. Filters that end in an error    *)
(* (an unknown operator, an argument of the wrong kind) are left out, and  *)
(* so is the equality of two objects or two arrays.                        *)
(***************************************************************************)
EXTENDS Integers, Sequences, FiniteSets, SequencesExt

\* What a field holds: a scalar; an array of numbers, or several numbers behind
\* a path that crosses an array of objects; or nothing at all.
Nil      == [t |-> "nil", v |-> <<>>]
Num(n)   == [t |-> "num", v |-> <<n>>]
Str(n)   == [t |-> "str", v |-> <<n>>]
Bool(n)  == [t |-> "bool", v |-> <<n>>]
Arr(s)   == [t |-> "arr", v |-> s]
Many(s)  == [t |-> "many", v |-> s]
Missing  == [t |-> "missing", v |-> <<>>]

\* The keys of an index are made of scalars and Nil.
Scalar == {Nil} \union [t : {"num", "str", "bool"}, v : [1..1 -> Int]]

Value == Scalar \union {Missing} \union [t : {"arr", "many"}, v : Seq(Int)]

Elements(v) == [i \in DOMAIN v.v |-> Num(v.v[i])]

\* lookupMulti: all the values the path leads to; an array at its end is one.
LookupMulti(d, f) ==
    IF f \notin DOMAIN d \/ d[f] = Missing THEN <<>>
    ELSE IF d[f].t = "many" THEN Elements(d[f]) ELSE <<d[f]>>

\* lookup: the first of them.
Lookup(d, f) ==
    LET vals == LookupMulti(d, f) IN IF vals = <<>> THEN Nil ELSE Head(vals)

\* What doc[field] is, without a walk.
Plain(d, f) ==
    IF f \notin DOMAIN d \/ d[f].t \in {"missing", "many"} THEN Nil ELSE d[f]

-----------------------------------------------------------------------------
(* Comparing *)

\* compareValues: numbers with numbers, strings with strings, nil below all;
\* what does not compare is equal.
CompareValues(a, b) ==
    IF a.t = b.t /\ a.t \in {"num", "str"}
    THEN IF a.v[1] < b.v[1] THEN -1 ELSE IF a.v[1] > b.v[1] THEN 1 ELSE 0
    ELSE IF a = Nil THEN (IF b = Nil THEN 0 ELSE -1)
    ELSE IF b = Nil THEN 1 ELSE 0

Comparable(a, b) == a.t = b.t /\ a.t \in {"num", "str"}

TypeRank(v) ==
    CASE v.t = "nil" -> 0 [] v.t = "num" -> 1 [] v.t = "str" -> 2
      [] v.t = "bool" -> 3 [] OTHER -> 4

\* compareOrdered: the order of the values of an index.
CompareOrdered(a, b) ==
    IF TypeRank(a) # TypeRank(b)
    THEN IF TypeRank(a) < TypeRank(b) THEN -1 ELSE 1
    ELSE CASE TypeRank(a) \in {0, 4} -> 0
           [] TypeRank(a) = 3 -> a.v[1] - b.v[1]
           [] OTHER -> CompareValues(a, b)

-----------------------------------------------------------------------------
(* Operators on one value *)

\* compareOp
CompareOp(op, val, arg) ==
    /\ Comparable(val, arg)
    /\ LET c == CompareValues(val, arg) IN
       CASE op = "$gt" -> c > 0 [] op = "$gte" -> c >= 0
         [] op = "$lt" -> c < 0 [] op = "$lte" -> c <= 0

\* matchOneOp, without $not. A regular expression is the set of the strings
\* it matches.
MatchOneOp(op, val, exists, arg) ==
    CASE op = "$eq"     -> IF exists THEN val = arg ELSE arg = Nil
      [] op = "$ne"     -> IF exists THEN val # arg ELSE arg # Nil
      [] op \in {"$gt", "$gte", "$lt", "$lte"} -> exists /\ CompareOp(op, val, arg)
      [] op = "$in"     -> exists /\ \E i \in DOMAIN arg : val = arg[i]
      [] op = "$nin"    -> exists => \A i \in DOMAIN arg : val # arg[i]
      [] op = "$exists" -> exists = arg
      [] op = "$regex"  -> exists /\ val.t = "str" /\ val.v[1] \in arg

\* matchOps: all the operators; the one under a $not has none of its own.
MatchOps(val, exists, ops) ==
    \A op \in DOMAIN ops :
        IF op = "$not"
        THEN ~ \A o \in DOMAIN ops[op] : MatchOneOp(o, val, exists, ops[op][o])
        ELSE MatchOneOp(op, val, exists, ops[op])

\* matchOpsMulti: one of the values passes them all.
MatchOpsMulti(vals, ops) ==
    IF vals = <<>> THEN MatchOps(Nil, FALSE, ops)
    ELSE \E i \in DOMAIN vals : MatchOps(vals[i], TRUE, ops)

-----------------------------------------------------------------------------
(* Filters: conditions on fields, and logical operators over such filters *)

\* A condition is a value to be equal to, or operators with their arguments.
Is(v)      == [kind |-> "is", arg |-> v]
Ops(o)     == [kind |-> "ops", arg |-> o]

NoFilter == [fields |-> <<>>, logic |-> <<>>]
OnFields(c) == [fields |-> c, logic |-> <<>>]

\* matchField
MatchField(d, f, cond) ==
    LET vals == LookupMulti(d, f) IN
    IF cond.kind = "ops" THEN MatchOpsMulti(vals, cond.arg)
    ELSE IF vals = <<>> THEN cond.arg = Nil
    ELSE \E i \in DOMAIN vals : vals[i] = cond.arg

MatchFields(d, c) == \A f \in DOMAIN c : MatchField(d, f, c[f])

\* matchLogical: the operands are conditions on fields.
MatchLogical(d, op, list) ==
    CASE op = "$and" -> \A i \in DOMAIN list : MatchFields(d, list[i])
      [] op = "$or"  -> \E i \in DOMAIN list : MatchFields(d, list[i])
      [] op = "$nor" -> ~ \E i \in DOMAIN list : MatchFields(d, list[i])
      [] op = "$not" -> ~ MatchFields(d, list[1])

Match(d, filter) ==
    /\ MatchFields(d, filter.fields)
    /\ \A op \in DOMAIN filter.logic : MatchLogical(d, op, filter.logic[op])

-----------------------------------------------------------------------------
(* Sorting documents *)

\* One step of a stable insertion sort: x goes behind the last element of s
\* that it is not less than.
InsertStable(s, x, Less(_, _)) ==
    LET p == Max({0} \union {j \in DOMAIN s : ~Less(x, s[j])})
    IN  SubSeq(s, 1, p) \o <<x>> \o SubSeq(s, p + 1, Len(s))

StableSort(s, Less(_, _)) ==
    LET upTo[n \in 0..Len(s)] ==
            IF n = 0 THEN <<>> ELSE InsertStable(upTo[n - 1], s[n], Less)
    IN  upTo[Len(s)]

LowerNumber(a, b) == a < b

ById(s) == StableSort(s, LowerNumber)

Before(a, b, dir) ==
    IF dir < 0 THEN CompareValues(a, b) > 0 ELSE CompareValues(a, b) < 0

\* A pass of sortBy over the documents for one key, a field and a direction. It is
\* sort.SliceStable on fewer than 20 documents, an insertion sort; but the keys it
\* compares were put down by place before the pass, and stay when the documents move.
SortPass(s, docs, key) ==
    LET ks == [i \in DOMAIN s |-> Plain(docs[s[i]], key[1])]
        Down(i) == {p \in 1..i : \A j \in p + 1..i : Before(ks[j], ks[j - 1], key[2])}
    IN  FoldLeft(LAMBDA t, i : InsertAt(RemoveAt(t, i), Min(Down(i)), t[i]),
                 s, [i \in DOMAIN s |-> i])

\* sortBy: by _id, then by each key, the last one first. keys is a sequence of
\* fields and directions, in the order of the fields' names.
SortBy(s, docs, keys) ==
    FoldRight(LAMBDA k, sorted : SortPass(sorted, docs, k), keys, ById(s))

\* What it is meant to be, for one key: the documents in the order of their keys.
InKeyOrder(s, docs, key) ==
    StableSort(ById(s), LAMBDA a, b :
        Before(Plain(docs[a], key[1]), Plain(docs[b], key[1]), key[2]))

\* docHeap.worstIdx: the place of the kept document to give up.
WorstIdx(heap, docs, key) ==
    FoldLeft(LAMBDA w, i :
                 IF Before(Plain(docs[heap[w]], key[1]),
                           Plain(docs[heap[i]], key[1]), key[2]) THEN i ELSE w,
             1, [i \in 1..Len(heap) |-> i])

\* Mutant of PushBounded: the heap keeps one document less.
PushTight(heap, x, docs, key, need) ==
    LET h == Append(heap, x) IN
    IF Len(h) >= need THEN RemoveAt(h, WorstIdx(h, docs, key)) ELSE h

PushBounded(heap, x, docs, key, need) ==
    LET h == Append(heap, x) IN
    IF Len(h) > need THEN RemoveAt(h, WorstIdx(h, docs, key)) ELSE h

\* sortByPartial: only the first need documents have to be in order.
SortByPartial(s, docs, keys, need) ==
    IF need <= 0 \/ need >= Len(s) \/ Len(keys) # 1 THEN SortBy(s, docs, keys)
    ELSE LET kept == FoldLeft(LAMBDA h, x : PushBounded(h, x, docs, keys[1], need),
                              <<>>, s)
             pop[n \in 0..need] ==    \* what is out and what is left after n pops
                 IF n = 0 THEN [out |-> <<>>, heap |-> kept]
                 ELSE LET p == pop[n - 1]
                          w == WorstIdx(p.heap, docs, keys[1])
                      IN  IF p.heap = <<>> THEN p
                          ELSE [out  |-> <<p.heap[w]>> \o p.out,
                                heap |-> RemoveAt(p.heap, w)]
         IN  pop[need].out
=============================================================================
