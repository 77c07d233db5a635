----------------------------- MODULE UpdateExpr -----------------------------
(***************************************************************************)
(* Update expressions of the wire protocol (wire/update.go, the identifiers *)
(* and equality fields of wire/query.go): from the document a command has   *)
(* read and the expression of the client to the document it should become,  *)
(* and from the two to the patch that the store applies.                    *)
(*                                                                         *)
(* A value is a pair of its kind and its content. The several encodings of  *)
(* a number are one kind here, and arithmetic is that of small integers. A  *)
(* path is the sequence of its parts.                                       *)
(***************************************************************************)
EXTENDS Integers, Sequences, FiniteSets, SequencesExt, Functions

Num(n) == <<"num", n>>
Str(s) == <<"str", s>>
Arr(s) == <<"arr", s>>
Doc(f) == <<"doc", f>>
Null   == <<"null">>

\* No value: what a walk that leads nowhere finds.
Absent == <<"absent">>

\* The error of an operator or of an expression. What it had changed by then
\* is in a copy that nobody sees.
Failed == <<"failed">>

Is(v, kind) == v[1] = kind
EmptyDoc    == Doc([k \in {} |-> Null])

Field(m, k)       == IF k \in DOMAIN m[2] THEN m[2][k] ELSE Absent
WithField(m, k, v) == Doc([x \in DOMAIN m[2] \union {k} |-> IF x = k THEN v ELSE m[2][x]])
NoField(m, k)     == Doc([x \in DOMAIN m[2] \ {k} |-> m[2][x]])

\* The names that begin with $.
Dollar == {"$each", "$position", "$slice", "$eq", "$ne", "$gt", "$in"}
HasDollar(v) == Is(v, "doc") /\ DOMAIN v[2] \cap Dollar # {}

-----------------------------------------------------------------------------
(* Walks *)

\* getPath: through documents only.
GetPath(v, path) ==
    LET at[i \in 0..Len(path)] ==
            IF i = 0 THEN v
            ELSE IF Is(at[i - 1], "doc") THEN Field(at[i - 1], path[i]) ELSE Absent
    IN  at[Len(path)]

\* lookupPath: through documents, and through arrays by position.
LookupPath(v, path) ==
    LET Elem(a, k) == {a[2][j] : j \in {j \in DOMAIN a[2] : ToString(j - 1) = k}}
        at[i \in 0..Len(path)] ==
            IF i = 0 THEN v
            ELSE IF Is(at[i - 1], "doc") THEN Field(at[i - 1], path[i])
            ELSE IF Is(at[i - 1], "arr") /\ Elem(at[i - 1], path[i]) # {}
            THEN CHOOSE x \in Elem(at[i - 1], path[i]) : TRUE
            ELSE Absent
    IN  at[Len(path)]

\* The documents on the way of a path, once the last of them is made anew.
Rebuilt(way, path, last) ==
    LET to[i \in DOMAIN path] ==
            IF i = Len(path) THEN last ELSE WithField(way[i], path[i], to[i + 1])
    IN  to[1]

\* Mutant of Child: every document on the way is made anew.
ChildAnew(m, k) == EmptyDoc

\* The walk of setPath and of arrayAtPath: it makes the documents it misses.
Child(m, k) == IF Field(m, k) \in {Absent, Null} THEN EmptyDoc ELSE Field(m, k)

SetAt(m, path, v) ==
    LET n == Len(path)
        at[i \in 1..n] == IF i = 1 THEN m
                          ELSE IF Is(at[i - 1], "doc") THEN Child(at[i - 1], path[i - 1])
                          ELSE Failed
    IN  IF Is(at[n], "doc") THEN Rebuilt(at, path, WithField(at[n], path[n], v)) ELSE Failed

SetPath(doc, path, v) == IF path[1] = "_id" THEN Failed ELSE SetAt(doc, path, v)

\* removePath: a path that leads nowhere is no error.
RemovePath(m, path) ==
    LET n == Len(path)
        at[i \in 1..n] == IF i = 1 THEN m
                          ELSE IF Is(at[i - 1], "doc") THEN Field(at[i - 1], path[i - 1])
                          ELSE Absent
    IN  IF Is(at[n], "doc") THEN Rebuilt(at, path, NoField(at[n], path[n])) ELSE m

-----------------------------------------------------------------------------
(* Operators *)

\* Numbers by their value. Strings, which the code orders too (update.go:569-573),
\* count as equal: no $min, $max or sort that is looked at meets one.
CompareValues(a, b) ==
    IF Is(a, "num") /\ Is(b, "num")
    THEN IF a[2] < b[2] THEN -1 ELSE IF a[2] > b[2] THEN 1 ELSE 0
    ELSE 0

\* $inc and $mul
Arith(doc, op, path, val) ==
    LET cur  == LookupPath(doc, path)
        base == IF cur \in {Absent, Null} THEN 0 ELSE cur[2]
    IN  IF ~Is(val, "num") \/ ~(cur \in {Absent, Null} \/ Is(cur, "num")) THEN Failed
        ELSE SetPath(doc, path, Num(IF op = "$inc" THEN base + val[2] ELSE base * val[2]))

\* $min and $max
MinMax(doc, op, path, val) ==
    LET cur == LookupPath(doc, path)
        c   == CompareValues(cur, val)
    IN  IF cur \in {Absent, Null} \/ (op = "$min" /\ c > 0) \/ (op = "$max" /\ c < 0)
        THEN SetPath(doc, path, val) ELSE doc

\* The new path is in val, a string, as the parts it splits into.
Rename(doc, path, val) ==
    IF ~Is(val, "path") THEN Failed
    ELSE IF LookupPath(doc, path) = Absent THEN doc
    ELSE SetPath(RemovePath(doc, path), val[2], LookupPath(doc, path))

\* arrayAtPath, and the array that takes the place of the one it found.
OnArray(doc, path, F(_)) ==
    LET cur == GetPath(doc, path) IN
    IF cur \in {Absent, Null} THEN SetAt(doc, path, Arr(F(<<>>)))
    ELSE IF Is(cur, "arr") THEN SetAt(doc, path, Arr(F(cur[2]))) ELSE Failed

Least(a, b) == IF a < b THEN a ELSE b

Placed(arr, items, at) ==
    SubSeq(arr, 1, Least(at, Len(arr))) \o items \o SubSeq(arr, Least(at, Len(arr)) + 1, Len(arr))

Sliced(s, n) ==
    IF n > 0 THEN SubSeq(s, 1, Least(n, Len(s)))
    ELSE IF n < 0 /\ Len(s) > -n THEN SubSeq(s, Len(s) + n + 1, Len(s)) ELSE s

\* Items of $each, none if it is not there or not an array.
Each(val) == IF Is(Field(val, "$each"), "arr") THEN Field(val, "$each")[2] ELSE <<>>

Push(doc, path, val) ==
    LET at    == Field(val, "$position")
        slice == Field(val, "$slice")
        Put(arr) ==
            IF ~HasDollar(val) THEN Append(arr, val)
            ELSE LET all == IF Is(at, "num") /\ at[2] >= 0 THEN Placed(arr, Each(val), at[2])
                            ELSE arr \o Each(val)
                 IN  IF Is(slice, "num") THEN Sliced(all, slice[2]) ELSE all
    IN  OnArray(doc, path, Put)

AddToSet(doc, path, val) ==
    LET items == IF Is(val, "doc") /\ Is(Field(val, "$each"), "arr")
                 THEN Field(val, "$each")[2] ELSE <<val>>
        Put(arr) == FoldLeft(LAMBDA acc, v : IF v \in ToSet(acc) THEN acc ELSE Append(acc, v),
                             arr, items)
    IN  OnArray(doc, path, Put)

\* A path that leads to no array is no error: the argument is not even read.
Pop(doc, path, val) ==
    LET cur == GetPath(doc, path) IN
    IF ~Is(cur, "arr") THEN doc
    ELSE IF val \notin {Num(1), Num(-1)} THEN Failed
    ELSE IF cur[2] = <<>> THEN doc
    ELSE SetAt(doc, path, Arr(IF val = Num(1) THEN Front(cur[2]) ELSE Tail(cur[2])))

\* matchElement
MatchElement(v, cond) ==
    \A k \in DOMAIN cond[2] :
        CASE k = "$eq" -> v = cond[2][k]
          [] k = "$ne" -> v # cond[2][k]
          [] k = "$gt" -> Is(v, "num") /\ Is(cond[2][k], "num") /\ v[2] > cond[2][k][2]
          [] k = "$in" -> Is(cond[2][k], "arr") /\ v \in ToSet(cond[2][k][2])
          [] OTHER     -> FALSE

\* Pulling from an array that is not there leaves an empty one.
Pull(doc, path, val, all) ==
    LET Drop(v) == CASE all            -> Is(val, "arr") /\ v \in ToSet(val[2])
                     [] HasDollar(val) -> MatchElement(v, val)
                     [] OTHER          -> v = val
        Put(arr) == SelectSeq(arr, LAMBDA v : ~Drop(v))
    IN  OnArray(doc, path, Put)

ApplyUpdateOp(doc, op, path, val) ==
    CASE op \in {"$set", "$setOnInsert"} -> SetPath(doc, path, val)
      [] op = "$unset"                   -> RemovePath(doc, path)
      [] op \in {"$inc", "$mul"}         -> Arith(doc, op, path, val)
      [] op \in {"$min", "$max"}         -> MinMax(doc, op, path, val)
      [] op = "$rename"                  -> Rename(doc, path, val)
      [] op = "$push"                    -> Push(doc, path, val)
      [] op = "$addToSet"                -> AddToSet(doc, path, val)
      [] op = "$pop"                     -> Pop(doc, path, val)
      [] op = "$pull"                    -> Pull(doc, path, val, FALSE)
      [] op = "$pullAll"                 -> Pull(doc, path, val, TRUE)

-----------------------------------------------------------------------------
(* Expressions *)

\* normalizeIDValue
NormalizeIDValue(v) ==
    CASE Is(v, "str") -> Str(v[2]) [] Is(v, "num") -> Str(ToString(v[2])) [] OTHER -> Failed

\* normalizeDocID
NormalizeDocID(d) ==
    LET id == NormalizeIDValue(Field(d, "_id")) IN
    IF Field(d, "_id") = Absent THEN d
    ELSE IF id = Failed THEN Failed ELSE WithField(d, "_id", id)

\* An expression without operators takes the place of the document.
Replacement(old, e) ==
    IF "_id" \in DOMAIN e[2]
    THEN IF NormalizeIDValue(Field(e, "_id")) = Field(old, "_id") THEN e ELSE Failed
    ELSE IF Field(old, "_id") = Absent THEN e ELSE WithField(e, "_id", Field(old, "_id"))

\* updateOps, but for $currentDate.
UpdateOps == {"$set", "$setOnInsert", "$unset", "$inc", "$mul", "$min", "$max", "$rename",
              "$push", "$addToSet", "$pop", "$pull", "$pullAll"}

\* What strings.Split makes of a path.
PathFits(p) == p # <<>> /\ p \in Seq(ToSet(p))

\* A replacement, or finitely many operators, each with its path.
ExprFits(e) ==
    \/ e.kind = "doc"
    \/ /\ e.kind = "ops" /\ IsFiniteSet(e.ops)
       /\ \A u \in e.ops :
             /\ u.op \in UpdateOps /\ PathFits(u.path)
             /\ u.op = "$rename" /\ Is(u.val, "path") => PathFits(u.val[2])

\* An expression with operators is a set of [op, path, val]. Go walks its maps
\* in any order: the operators, and under each its paths.
Orders(e) ==
    {s \in SetToSeqs(e) : \A i, j, k \in DOMAIN s :
        i < j /\ j < k /\ s[i].op = s[k].op => s[j].op = s[i].op}

\* One operator after the other; an error ends it.
ApplyOps(old, ops) ==
    LET after[n \in 0..Len(ops)] ==
            IF n = 0 THEN old
            ELSE IF after[n - 1] = Failed THEN Failed
            ELSE ApplyUpdateOp(after[n - 1], ops[n].op, ops[n].path, ops[n].val)
    IN  after[Len(ops)]

\* applyUpdateExpr: the documents, or the error, it may return.
ApplyUpdateExpr(old, expr, isUpsert) ==
    IF expr.kind = "doc" THEN {Replacement(old, expr.doc)}
    ELSE {ApplyOps(old, s) : s \in Orders({u \in expr.ops : u.op = "$setOnInsert" => isUpsert})}

\* Mutant of DiffTopLevel: all the fields are in the patch.
DiffWhole(old, fresh) ==
    [patch  |-> [k \in DOMAIN fresh[2] \ {"_id"} |-> fresh[2][k]],
     remove |-> DOMAIN old[2] \ (DOMAIN fresh[2] \union {"_id"})]

\* diffTopLevel
DiffTopLevel(old, fresh) ==
    [patch  |-> [k \in {k \in DOMAIN fresh[2] \ {"_id"} : Field(old, k) # fresh[2][k]}
                    |-> fresh[2][k]],
     remove |-> DOMAIN old[2] \ (DOMAIN fresh[2] \union {"_id"})]

\* What updateApply of the store makes of a patch.
Patched(doc, p) ==
    Doc([k \in (DOMAIN doc[2] \union DOMAIN p.patch) \ p.remove |->
            IF k \in DOMAIN p.patch THEN p.patch[k] ELSE doc[2][k]])

\* A query is a function from its fields to the values or the conditions they
\* should meet. equalityFields: what a document it inserts starts from.
EqualityFields(q) ==
    LET Only(k) == HasDollar(q[k]) /\ DOMAIN q[k][2] = {"$eq"}
        Norm(k) == NormalizeIDValue(IF Only(k) THEN q[k][2]["$eq"] ELSE q[k])
        Kept    == {k \in DOMAIN q : /\ HasDollar(q[k]) => Only(k)
                                     /\ HasDollar(q[k]) \/ k = "_id" => Norm(k) # Failed}
    IN  Doc([k \in Kept |-> IF HasDollar(q[k]) \/ k = "_id" THEN Norm(k) ELSE q[k]])
=============================================================================
