----------------------------- MODULE QueryPlan -----------------------------
(***************************************************************************)
(* Find and Count of one collection (db/store.go, db/parallel.go): the     *)
(* planner that turns a filter into candidates by way of the indexes, and  *)
(* the order, the page and the number of what is returned.                 *)
(*                                                                         *)
(* A collection is [docs, ixs]: its documents by _id, and its indexes.     *)
(* Results are sequences of _ids. Go walks its maps in any order: where    *)
(* the answer depends on it the operators give the set of the answers.     *)
(***************************************************************************)
EXTENDS Indexes

Ids(c) == DOMAIN c.docs

-----------------------------------------------------------------------------
(* Classes of conditions: equalityValues, rangeValues *)

RangeOps == {"$gt", "$gte", "$lt", "$lte"}

IsIn(cond) == cond.kind = "ops" /\ DOMAIN cond.arg = {"$in"}

IsEq(cond) == cond.kind = "is" \/ DOMAIN cond.arg = {"$eq"} \/ IsIn(cond)

EqVals(cond) ==
    IF cond.kind = "is" THEN <<cond.arg>>
    ELSE IF IsIn(cond) THEN cond.arg["$in"] ELSE <<cond.arg["$eq"]>>

\* One operator at most for each end.
IsRange(cond) ==
    /\ cond.kind = "ops"
    /\ DOMAIN cond.arg \subseteq RangeOps
    /\ ~({"$gt", "$gte"} \subseteq DOMAIN cond.arg)
    /\ ~({"$lt", "$lte"} \subseteq DOMAIN cond.arg)

Bound(cond, open, closed) ==
    IF open \in DOMAIN cond.arg THEN <<cond.arg[open], FALSE>>
    ELSE IF closed \in DOMAIN cond.arg THEN <<cond.arg[closed], TRUE>>
    ELSE NoBound

Lo(cond) == Bound(cond, "$gt", "$gte")
Hi(cond) == Bound(cond, "$lt", "$lte")

\* The conditions that are modelled: a scalar to be equal to, or operators with
\* their arguments.
IsCondition(cond) ==
    \/ cond.kind = "is" /\ cond.arg \in Scalar
    \/ /\ cond.kind = "ops"
       /\ DOMAIN cond.arg # {}
       /\ \A op \in DOMAIN cond.arg :
             /\ op \in {"$eq"} \union RangeOps => cond.arg[op] \in Scalar
             /\ op = "$in" => cond.arg[op] \in Seq(Scalar)

EqFields(cs)    == {f \in DOMAIN cs : IsEq(cs[f])}
RangeFields(cs) == {f \in DOMAIN cs : ~IsEq(cs[f]) /\ IsRange(cs[f])}

-----------------------------------------------------------------------------
(* The planner *)

\* The first of some indexes, 0 for none.
FirstIndex(S) == IF S = {} THEN 0 ELSE Min(S)

\* singleEqualityFor
Single(cs, f) == f \in EqFields(cs) /\ Len(EqVals(cs[f])) = 1

\* How many leading fields of a compound index have one value to be equal to.
Leading(ix, cs) ==
    CHOOSE n \in 0..Len(ix.fields) :
        /\ \A i \in 1..n : Single(cs, ix.fields[i])
        /\ n = Len(ix.fields) \/ ~Single(cs, ix.fields[n + 1])

\* Step 1: the compound indexes that serve, and the fields they use up.
Compounds(c, cs) ==
    {i \in DOMAIN c.ixs : Len(c.ixs[i].fields) > 1 /\ Leading(c.ixs[i], cs) > 0}

CompoundHits(ix, cs) ==
    SeekPrefix(ix, [j \in 1..Leading(ix, cs) |-> EqVals(cs[ix.fields[j]])[1]])

Consumed(c, cs) ==
    UNION {{c.ixs[i].fields[j] : j \in 1..Leading(c.ixs[i], cs)} : i \in Compounds(c, cs)}

\* findIndexForField; else the index seekEqualityField finds by its first field.
FieldIndex(c, f) == FirstIndex({i \in DOMAIN c.ixs : c.ixs[i].fields = <<f>>})

LeadingIndex(c, f) ==
    FirstIndex({i \in DOMAIN c.ixs : Len(c.ixs[i].fields) > 1 /\ c.ixs[i].fields[1] = f})

EqIndex(c, f) == IF FieldIndex(c, f) # 0 THEN FieldIndex(c, f) ELSE LeadingIndex(c, f)

\* seekEqualityField: the union over the values.
EqHits(c, f, vals) ==
    LET ix == c.ixs[EqIndex(c, f)]
    IN  UNION {IF FieldIndex(c, f) # 0 THEN LookupIDs(ix, <<vals[i]>>)
               ELSE SeekPrefix(ix, <<vals[i]>>) : i \in DOMAIN vals}

\* findIndexForRange
RangeIndex(c, f) == FirstIndex({i \in DOMAIN c.ixs : c.ixs[i].fields[1] = f})

RangeSeek(c, f, cond) == SeekRange(c.ixs[RangeIndex(c, f)], Lo(cond), Hi(cond))

\* Step 2: the other equalities and the ranges that an index serves.
EqServed(c, cs) ==
    {f \in EqFields(cs) \ Consumed(c, cs) : EqIndex(c, f) # 0}

RangeServed(c, cs) == {f \in RangeFields(cs) : RangeIndex(c, f) # 0}

\* Mutant of Exact: a range is taken for as good as an equality.
ExactRanges(c, filter) ==
    LET cs == filter.fields IN
    /\ filter.logic = <<>>
    /\ DOMAIN cs = Consumed(c, cs) \union EqServed(c, cs) \union RangeServed(c, cs)

\* res.covered counts a field once for each index that serves it.
Covered(c, cs) ==
    FoldSet(LAMBDA i, n : n + Leading(c.ixs[i], cs),
            Cardinality(EqServed(c, cs)), Compounds(c, cs))

\* The candidates need no second look: every condition is an equality that an
\* index served, and none was counted twice.
Exact(c, filter) ==
    LET cs == filter.fields
    IN  /\ filter.logic = <<>>
        /\ DOMAIN cs = Consumed(c, cs) \union EqServed(c, cs)
        /\ Covered(c, cs) = Cardinality(DOMAIN cs)

Used(c, filter) ==
    LET cs == filter.fields
    IN  Compounds(c, cs) # {} \/ EqServed(c, cs) # {} \/ RangeServed(c, cs) # {}

\* The members of a list that are in T.
Among(s, T) ==
    LET upTo[n \in 0..Len(s)] ==
            IF n = 0 THEN <<>>
            ELSE IF s[n] \in T THEN Append(upTo[n - 1], s[n]) ELSE upTo[n - 1]
    IN  upTo[Len(s)]

Hits(c, cs) ==
    {CompoundHits(c.ixs[i], cs) : i \in Compounds(c, cs)} \union
    {EqHits(c, f, EqVals(cs[f])) : f \in EqServed(c, cs)} \union
    {ToSet(RangeSeek(c, f, cs[f])) : f \in RangeServed(c, cs)}

\* planCandidates. The range that was sought last gives the order.
Plans(c, filter) ==
    LET cs == filter.fields
        hits == Hits(c, cs)
        cand == {i \in UNION hits : \A h \in hits : i \in h}
        plan(f) ==
            [cand |-> cand, exact |-> Exact(c, filter), orderField |-> f,
             order |-> IF f = "" THEN <<>>
                       ELSE Among(RangeSeek(c, f, cs[f]), cand)]
    IN  {plan(f) : f \in IF RangeServed(c, cs) = {} THEN {""} ELSE RangeServed(c, cs)}

-----------------------------------------------------------------------------
(* Find *)

\* Sort is a sequence of fields and directions in the order of the fields'
\* names; Skip and Limit are 0 where they are not given.
Plainly == [sort |-> <<>>, skip |-> 0, limit |-> 0]

\* materializeRefs: an _id without a document is passed over.
Materialized(c, list, filter, rematch) ==
    Among(list, {i \in Ids(c) : rematch => Match(c.docs[i], filter)})

Orders(S) == {o \in [1..Cardinality(S) -> S] : ToSet(o) = S}

Page(list, opts) ==
    LET rest == IF opts.skip >= Len(list) THEN <<>>
                ELSE SubSeq(list, opts.skip + 1, Len(list))
    IN  IF opts.limit > 0 /\ opts.limit < Len(rest) THEN SubSeq(rest, 1, opts.limit)
        ELSE rest

Arranged(c, refs, ordered, orderField, opts) ==
    IF opts.sort = <<>> THEN ById(refs)
    ELSE IF ordered /\ Len(opts.sort) = 1 /\ opts.sort[1][1] = orderField
    THEN IF opts.sort[1][2] < 0 THEN Reverse(refs) ELSE refs
    ELSE SortByPartial(refs, c.docs, opts.sort,
                       IF opts.limit > 0 THEN opts.skip + opts.limit ELSE 0)

\* findDocs through a plan: candidates without an order come in any.
FindBy(c, filter, opts, plan) ==
    LET ordered == plan.order # <<>>
        lists == IF ordered THEN {plan.order} ELSE Orders(plan.cand)
    IN  {Page(Arranged(c, Materialized(c, l, filter, ~plan.exact), ordered,
                       plan.orderField, opts), opts) : l \in lists}

\* findDocs without one: the whole collection, by _id.
Scan(c, filter, opts) ==
    Page(Arranged(c, Materialized(c, SetAsc(Ids(c)), filter, TRUE), FALSE, "", opts),
         opts)

FindResults(c, filter, opts) ==
    IF Used(c, filter)
    THEN UNION {FindBy(c, filter, opts, p) : p \in Plans(c, filter)}
    ELSE {Scan(c, filter, opts)}

-----------------------------------------------------------------------------
(* Count *)

\* countIndexed: one equality on a field with an index of its own.
CountedByIndex(c, filter) ==
    /\ filter.logic = <<>> /\ Cardinality(DOMAIN filter.fields) = 1
    /\ \A f \in DOMAIN filter.fields :
          IsEq(filter.fields[f]) /\ FieldIndex(c, f) # 0

\* The keys <<v>> of ix, for the values of vals one after the other.
Total(ix, vals) ==
    LET upTo[n \in 0..Len(vals)] ==
            IF n = 0 THEN 0 ELSE upTo[n - 1] + CountKey(ix, <<vals[n]>>)
    IN  upTo[Len(vals)]

CountIndexed(c, filter) ==
    LET f == CHOOSE f \in DOMAIN filter.fields : TRUE
    IN  Total(c.ixs[FieldIndex(c, f)], EqVals(filter.fields[f]))

\* countDocs through a plan, and any way.
CountBy(c, filter, plan) ==
    IF plan.exact THEN Cardinality(plan.cand)
    ELSE Len(Materialized(c, IF plan.order # <<>> THEN plan.order ELSE SetAsc(plan.cand),
                          filter, TRUE))

Counts(c, filter) ==
    IF CountedByIndex(c, filter) THEN {CountIndexed(c, filter)}
    ELSE IF ~Used(c, filter) THEN {Len(Scan(c, filter, Plainly))}
    ELSE {CountBy(c, filter, p) : p \in Plans(c, filter)}

-----------------------------------------------------------------------------
(* What can be said of the answers *)

\* An index and a scan read the conditions of a filter alike: the fields it was
\* used for hold one value each (an array is indexed by its elements, a path by
\* the first of its values), and $in does not ask for nil, which an index has for
\* a missing field and $in refuses. Nor does an array stand behind the first
\* field of an index that serves a range: each of its elements is a key, and each
\* key has the document found once more.
ReadAlike(c, filter) ==
    LET cs == filter.fields
        eq == Consumed(c, cs) \union EqServed(c, cs)
        holds(i, f) == IF f \in DOMAIN c.docs[i] THEN c.docs[i][f].t ELSE "missing"
        later(f) == LET fs == c.ixs[RangeIndex(c, f)].fields
                    IN  {fs[n] : n \in DOMAIN fs \ {1}}
    IN  /\ \A f \in eq, i \in Ids(c) : holds(i, f) \notin {"arr", "many"}
        /\ \A f \in RangeServed(c, cs), i \in Ids(c) :
              holds(i, f) # "many" /\ \A g \in later(f) : holds(i, g) # "arr"
        /\ \A f \in eq : Nil \in ToSet(EqVals(cs[f])) => ~IsIn(cs[f])

\* Every equality asks for different values.
AsksOnce(filter) ==
    \A f \in DOMAIN filter.fields : IsEq(filter.fields[f]) =>
        IsInjective(EqVals(filter.fields[f]))

\* The key of a sort differs from one document to the other, and compares.
SortsStrictly(c, key) ==
    \A i, j \in Ids(c) : i # j =>
        CompareValues(Plain(c.docs[i], key), Plain(c.docs[j], key)) # 0
=============================================================================
