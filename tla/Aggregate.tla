----------------------------- MODULE Aggregate -----------------------------
(***************************************************************************)
(* The stages of aggregate and the values of distinct (wire/agg.go and     *)
(* cmdDistinct of wire/commands.go), on the sequence of the documents that *)
(* the store has found. $lookup and $project are left out, and the ways in *)
(* which a stage can be malformed.                                         *)
(***************************************************************************)
EXTENDS UpdateExpr, TLC

LOCAL F == INSTANCE Filters

-----------------------------------------------------------------------------
(* $sort, $skip, $limit, $count *)

\* One key of a sort, <<path, direction>>: -1 or 1 if it puts a first or second,
\* 0 if it leaves that to the next key. What is missing is last both ways.
ByKey(a, b, key) ==
    LET va == GetPath(a, key[1])
        vb == GetPath(b, key[1])
    IN  CASE va = Absent /\ vb = Absent -> 0
          [] va = Absent                -> 1
          [] vb = Absent                -> -1
          [] OTHER                      -> CompareValues(va, vb) * key[2]

\* The keys in the order of their names; the first that decides.
Before(a, b, keys) ==
    \E i \in DOMAIN keys : /\ ByKey(a, b, keys[i]) < 0
                           /\ \A j \in 1..(i - 1) : ByKey(a, b, keys[j]) = 0

SortDocsServer(docs, keys) == F!StableSort(docs, LAMBDA a, b : Before(a, b, keys))

Skip(docs, n)  == SubSeq(docs, n + 1, Len(docs))
Limit(docs, n) == SubSeq(docs, 1, Least(n, Len(docs)))

-----------------------------------------------------------------------------
(* $group and $unwind *)

\* Nothing is null to an expression.
Resolved(d, path) == IF GetPath(d, path) = Absent THEN Null ELSE GetPath(d, path)

\* The values of a group, in the order of its documents, become one.
Accumulated(op, vals) ==
    LET nums  == SelectSeq(vals, LAMBDA v : Is(v, "num"))
        sum   == FoldLeft(LAMBDA n, v : n + v[2], 0, nums)
        items == SelectSeq(vals, LAMBDA v : v # Null)
        Kept(c) == FoldLeft(LAMBDA m, v : IF m = Null \/ (v # Null /\ c * CompareValues(m, v) > 0)
                                          THEN v ELSE m, Null, vals)
    IN  CASE op = "$count"    -> Num(Len(vals))
          [] op = "$sum"      -> Num(sum)
          [] op = "$avg"      -> IF nums = <<>> THEN Null ELSE <<"ratio", <<sum, Len(nums)>>>>
          [] op = "$min"      -> Kept(1)
          [] op = "$max"      -> Kept(-1)
          [] op = "$first"    -> Head(vals)
          [] op = "$last"     -> Last(vals)
          [] op = "$push"     -> Arr(items)
          [] op = "$addToSet" -> Arr(FoldLeft(LAMBDA s, v : IF v \in ToSet(s) THEN s ELSE Append(s, v),
                                              <<>>, items))

\* Mutant of GroupKey: what is not a scalar is one group.
GroupKeyOfKind(v) == IF v[1] \in {"arr", "doc"} THEN <<v[1]>> ELSE v

\* groupKey: no two values share one.
GroupKey(v) == v

\* The groups in the order of their first documents. accs gives the field of a
\* result its operator and its path.
GroupDocs(docs, path, accs) ==
    LET key(d) == GroupKey(Resolved(d, path))
        heads  == SelectSeq([i \in DOMAIN docs |-> i], LAMBDA i :
                      \A j \in 1..(i - 1) : key(docs[j]) # key(docs[i]))
        result(i) ==
            LET members == SelectSeq(docs, LAMBDA d : key(d) = key(docs[i]))
                vals(f) == [j \in DOMAIN members |-> Resolved(members[j], accs[f][2])]
            IN  Doc([f \in DOMAIN accs \union {"_id"} |->
                        IF f = "_id" THEN Resolved(docs[i], path)
                        ELSE Accumulated(accs[f][1], vals(f))])
    IN  [g \in DOMAIN heads |-> result(heads[g])]

\* unwindDocs
UnwindDocs(docs, path, preserve) ==
    LET Unwound(d) ==
            LET v == GetPath(d, path) IN
            IF v \in {Absent, Null, Arr(<<>>)} THEN IF preserve THEN <<d>> ELSE <<>>
            ELSE IF ~Is(v, "arr") THEN <<d>>
            ELSE [i \in DOMAIN v[2] |-> SetPath(d, path, v[2][i])]
    IN  FoldLeft(LAMBDA acc, d : acc \o Unwound(d), <<>>, docs)

-----------------------------------------------------------------------------
(* distinct *)

\* distinctKey: the scalars have keys of their own, the arrays one for each
\* length but that those of none and of one element share one, with the objects.
DistinctKey(v) ==
    CASE Is(v, "arr") -> <<"other", IF v[2] = <<>> THEN 0 ELSE Len(v[2]) - 1>>
      [] Is(v, "doc") -> <<"other", 0>>
      [] OTHER        -> v

\* cmdDistinct
Distinct(docs, path) ==
    LET found == SelectSeq(docs, LAMBDA d : GetPath(d, path) # Absent)
        Candidates(d) == LET v == GetPath(d, path) IN IF Is(v, "arr") THEN v[2] ELSE <<v>>
        all == FoldLeft(LAMBDA acc, d : acc \o Candidates(d), <<>>, found)
    IN  FoldLeft(LAMBDA acc, v :
                     IF \E i \in DOMAIN acc : DistinctKey(acc[i]) = DistinctKey(v)
                     THEN acc ELSE Append(acc, v), <<>>, all)

-----------------------------------------------------------------------------
(* What can be said of the stages *)

\* The page that $sort, $skip and $limit leave is the one that Find returns with
\* the same options, if it ends before the last document, every document has a
\* number at the key and no two the same. (Find keeps such a page in a heap; its
\* full sort is not in order.)
PageIsFind(docs, key, skip, limit) ==
    LET n == Len(docs)
        At(i) == GetPath(docs[i], key[1])
        refs == F!SortByPartial([i \in 1..n |-> i],
                    [i \in 1..n |-> [k \in {key[1]} |-> F!Num(At(i)[2])]],
                    <<key>>, skip + limit)
        page == Limit(Skip(refs, skip), limit)
    IN  skip + limit < n /\ (\A i \in 1..n : Is(At(i), "num")) /\ IsInjective([i \in 1..n |-> At(i)])
        => Limit(Skip(SortDocsServer(docs, <<key>>), skip), limit)
             = [i \in DOMAIN page |-> docs[page[i]]]

\* Grouping by a field and pushing another, then unwinding what was pushed,
\* finds each pair of the two as often as there is a document that has it.
UnwindUndoesGroup(docs, by, field) ==
    LET pairs(s, a, b) == [i \in DOMAIN s |-> <<Resolved(s[i], a), Resolved(s[i], b)>>]
        back == UnwindDocs(GroupDocs(docs, by, [all |-> <<"$push", field>>]), <<"all">>, FALSE)
        have == SelectSeq(docs, LAMBDA d : Resolved(d, field) # Null)
    IN  \A p \in ToSet(pairs(have, by, field)) \union ToSet(pairs(back, <<"_id">>, <<"all">>)) :
              Len(SelectSeq(pairs(have, by, field), LAMBDA q : q = p))
                = Len(SelectSeq(pairs(back, <<"_id">>, <<"all">>), LAMBDA q : q = p))

\* The scalars that distinct finds are the _ids of the groups.
DistinctIsGroups(docs, path) ==
    LET scalars == SelectSeq(docs, LAMBDA d : GetPath(d, path)[1] \in {"num", "str"})
        groups  == GroupDocs(scalars, path, [n |-> <<"$count", path>>])
    IN  /\ Distinct(scalars, path) = [g \in DOMAIN groups |-> Field(groups[g], "_id")]
        /\ FoldLeft(LAMBDA n, g : n + Field(g, "n")[2], 0, groups) = Len(scalars)
=============================================================================
