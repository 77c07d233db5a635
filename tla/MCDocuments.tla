---- MODULE MCDocuments ----
(* An instance of Documents for TLC: two fields, an array, a missing field. *)
EXTENDS Documents, TLC

f1 == ("f" :> Num(1)) @@ ("g" :> Num(1))
f2 == ("f" :> Num(2)) @@ ("g" :> Num(1))
fArr == ("f" :> Arr(<<1, 2>>)) @@ ("g" :> Str(1))
fNone == ("f" :> Missing) @@ ("g" :> Nil)

MCContents == {f1, f2, fArr, fNone}

\* Queries also meet an array in the second field of an index.
gArr == ("f" :> Num(1)) @@ ("g" :> Arr(<<1, 2>>))
MCQueried == MCContents \union {gArr}

OnF == [fields |-> <<"f">>, unique |-> FALSE]
OnFG == [fields |-> <<"f", "g">>, unique |-> TRUE]
OnG == [fields |-> <<"g">>, unique |-> TRUE]

MCIndexDefs == {OnF, OnFG}

F(cond) == OnFields("f" :> cond)
FG(c1, c2) == OnFields(("f" :> c1) @@ ("g" :> c2))

\* What it takes to count a document twice.
TwiceContents == {gArr}
TwiceIndexDefs == {OnFG}
TwiceFilters == {F(Ops("$gte" :> Num(1)))}

MCFilters ==
    {F(Is(Num(1))), F(Is(Nil)),
     F(Ops("$in" :> <<Num(2), Num(1)>>)), F(Ops("$in" :> <<Nil>>)),
     F(Ops("$gte" :> Num(1))), F(Ops(("$gt" :> Num(1)) @@ ("$lte" :> Num(2)))),
     F(Ops("$ne" :> Num(1))),
     FG(Is(Num(1)), Is(Num(1))), FG(Ops("$lt" :> Num(2)), Is(Num(1))),
     [fields |-> "f" :> Is(Num(2)), logic |-> "$or" :> <<"g" :> Is(Num(1)), "g" :> Is(Nil)>>]}
====
