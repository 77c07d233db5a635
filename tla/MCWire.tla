------------------------------- MODULE MCWire -------------------------------
(* Wire on two connections, from six starts. *)
EXTENDS Wire

MCIdOrder == <<"k1", "k2", "k3", "k4", "u1", "u2">>
MCNewIds  == <<"u1", "u2">>

D(id, f) == Doc([k \in DOMAIN f \union {"_id"} |-> IF k = "_id" THEN Str(id) ELSE f[k]])

U(op, path, val) == [op |-> op, path |-> path, val |-> val]
OpsOf(s)   == [kind |-> "ops", ops |-> s]
DocOf(f)   == [kind |-> "doc", doc |-> Doc(f)]

Stm(q, u, upsert, remove, multi, new) ==
    [q |-> q, u |-> u, upsert |-> upsert, remove |-> remove, multi |-> multi, new |-> new]
Upd(q, u)  == Stm(q, u, FALSE, FALSE, FALSE, FALSE)
Del(q, m)  == Stm(q, OpsOf({}), FALSE, TRUE, m, FALSE)
C(name, ordered, stmts) == [name |-> name, ordered |-> ordered, stmts |-> stmts]
Ins(ordered, docs) == C("insert", ordered, [i \in DOMAIN docs |-> [doc |-> docs[i]]])
Qry(q, limit, batch, single) ==
    C("find", TRUE, <<[q |-> q, limit |-> limit, batch |-> batch, single |-> single]>>)
More(batch) == C("getMore", TRUE, <<[batch |-> batch]>>)
Kill        == C("killCursors", TRUE, <<[batch |-> 0]>>)

All   == [f \in {} |-> Null]
Id(i) == [_id |-> Str(i)]
A     == <<"a">>
B     == <<"b">>

None == [up |-> TRUE, docs |-> << >>, cmds |-> <<>>, auth |-> FALSE, sasl |-> 0, rbac |-> 0, hangs |-> 0,
         ticks |-> 0, close |-> 0]

\* Updates of one another's documents, and an upsert of two clients.
Updates == [None EXCEPT
    !.docs = ("k1" :> D("k1", [a |-> Num(1), b |-> Num(2)])) @@
             ("k2" :> D("k2", [a |-> Num(2), c |-> Arr(<<Num(1), Num(2)>>)])),
    !.cmds = << C("update", TRUE,
                  <<Stm(All, OpsOf({U("$inc", A, Num(1)), U("$set", <<"d", "x">>, Num(1)),
                                    U("$set", <<"d", "y">>, Num(2))}),
                        FALSE, FALSE, TRUE, FALSE)>>),
                C("update", TRUE, <<Upd(Id("k1"), OpsOf({U("$set", B, Num(5)), U("$unset", <<"_id">>, Null)})),
                                    Upd(Id("k2"), OpsOf({U("$rename", <<"c">>, <<"path", <<"e">>>>)}))>>),
                C("findAndModify", TRUE,
                  <<Stm([a |-> Doc([k \in {"$gt"} |-> Num(1)])],
                        OpsOf({U("$push", <<"c">>, Doc([k \in {"$each", "$position", "$slice"} |->
                                    CASE k = "$each" -> Arr(<<Num(7), Num(8)>>)
                                      [] k = "$position" -> Num(1) [] OTHER -> Num(-2)])),
                               U("$max", B, Num(3))}),
                        FALSE, FALSE, FALSE, TRUE)>>),
                C("update", TRUE,
                  <<Stm(Id("k1"), DocOf([a |-> Num(9)]), TRUE, FALSE, FALSE, FALSE)>>),
                C("delete", TRUE, <<Del(Id("k1"), TRUE)>>) >>]

\* Clients that take documents away, one that puts them back.
Takes == [None EXCEPT
    !.docs = ("k1" :> D("k1", [a |-> Num(1)])) @@ ("k2" :> D("k2", [a |-> Num(1)])),
    !.cmds = << C("findAndModify", TRUE, <<Del([a |-> Num(1)], FALSE)>>),
                C("findAndModify", TRUE, <<Del([a |-> Num(1)], FALSE)>>),
                C("delete", FALSE, <<Del([a |-> Num(1)], TRUE), Del(Id("k2"), FALSE)>>),
                Ins(FALSE, <<D("k1", [a |-> Num(1)]), D("k1", [a |-> Num(2)]),
                             Doc([_id |-> Null]), Doc([a |-> Num(1), b |-> Arr(<<>>)])>>),
                C("findAndModify", TRUE,
                  <<Stm(Id("k2"), DocOf([a |-> Num(1)]), TRUE, FALSE, FALSE, TRUE)>>) >>]

\* Batches in which one statement fails.
Batches == [None EXCEPT
    !.docs = ("k1" :> D("k1", [a |-> Num(1), b |-> Arr(<<Num(1)>>)])) @@
             ("k2" :> D("k2", [a |-> Num(1), b |-> Arr(<<Num(1), Num(2)>>)])) @@
             ("k3" :> D("k3", [a |-> Str("x"), b |-> Num(1)])),
    !.cmds = << Ins(TRUE, <<D("k4", [a |-> Num(4)]), D("k2", [a |-> Num(4)]), D("k4", [a |-> Num(5)])>>),
                C("update", FALSE, <<Stm(All, OpsOf({U("$addToSet", B, Num(2)), U("$mul", A, Num(2))}),
                                         FALSE, FALSE, TRUE, FALSE),
                                     Upd(Id("k3"), OpsOf({U("$pop", B, Num(1)), U("$min", A, Num(0))}))>>),
                C("update", TRUE, <<Upd(Id("k3"), OpsOf({U("$push", B, Num(2))})),
                                    Upd(Id("k1"), OpsOf({U("$pull", B, Num(1))}))>>),
                C("update", FALSE,
                  <<Stm([a |-> Num(3)], OpsOf({U("$setOnInsert", B, Num(1)), U("$pullAll", B, Arr(<<>>))}),
                        TRUE, FALSE, FALSE, FALSE),
                    Upd(All, OpsOf({U("$inc", B, Num(1))}))>>) >>,
    !.auth = TRUE, !.sasl = 2, !.rbac = 1]

\* Finds and the cursors of each other.
Finds == [None EXCEPT
    !.docs = ("k1" :> D("k1", [a |-> Num(2), b |-> Num(1)])) @@ ("k2" :> D("k2", [a |-> Num(1)])) @@
             ("k4" :> D("k4", [a |-> Num(3), b |-> Num(0)])),
    !.cmds = << Ins(TRUE, <<D("k3", [a |-> Num(1), b |-> Num(2)])>>), Qry(All, 0, -3, FALSE), Qry(All, -3, 0, FALSE), More(1), More(2), More(0), Kill >>,
    !.ticks = 1]

\* Conversations, with the users of the store changing.
Logins == [None EXCEPT
    !.docs = ("k1" :> D("k1", [a |-> Num(1)])),
    !.cmds = << Qry(All, 0, 0, FALSE), Ins(TRUE, <<D("k2", [a |-> Num(1)])>>) >>,
    !.auth = TRUE, !.sasl = 5, !.rbac = 2]

\* Closing the server while clients connect, send and go away.
Closing == [None EXCEPT
    !.docs = ("k1" :> D("k1", [a |-> Num(1)])),
    !.cmds = << C("delete", TRUE, <<Del(All, TRUE)>>), Qry(All, 0, 0, FALSE) >>,
    !.up = FALSE, !.hangs = 1, !.close = 1]

MCStarts == <<Updates, Takes, Batches, Finds, Logins, Closing>>
=============================================================================
