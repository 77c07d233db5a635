------------------------------ MODULE MCHooks ------------------------------
(***************************************************************************)
(* The instance of Hooks that TLC checks: hooks before an update, a chain  *)
(* of asynchronous hooks that is longer than their queue, and hooks that   *)
(* come back to themselves.                                                *)
(***************************************************************************)
EXTENDS Hooks

Hook(id, event, coll, async, act, val) ==
    [id |-> id, event |-> event, coll |-> coll, async |-> async, filter |-> {},
     act |-> act, val |-> val, call |-> [op |-> "upsert", coll |-> "b", val |-> None]]

Checked == <<[Hook(1, Before("update"), "a", FALSE, "veto", 1) EXCEPT !.filter = {4}],
             [Hook(2, Before("update"), "a", FALSE, "set", 3) EXCEPT !.filter = {1}],
             Hook(3, After("update"), "*", TRUE, "note", 1)>>

Chained == <<Hook(1, After("update"), "a", TRUE, "call", 1),
             Hook(2, After("upsert"), "b", TRUE, "note", 1),
             Hook(3, After("upsert"), "b", TRUE, "note", 1)>>

Cyclic == <<Hook(1, After("update"), "*", TRUE, "set", 2),
            Hook(2, Before("update"), "a", FALSE, "call", 1),
            Hook(3, After("upsert"), "b", FALSE, "call", 1),
            [Hook(5, Before("upsert"), "b", FALSE, "veto", 1) EXCEPT !.filter = {4}]>>

Start(regs, c, w, x, t) ==
    [hooks |-> regs, docs |-> ("a" :> 2 @@ "b" :> None),
     left |-> [calls |-> c, waits |-> w, closes |-> x, trigs |-> t]]

SomeStarts ==
    {Start(Checked, 2, 0, 0, 0), Start(Checked, 1, 0, 1, 2), Start(Chained, 2, 1, 0, 0),
     Start(Chained, 1, 1, 1, 0), Start(Cyclic, 1, 1, 1, 0)}

SomeTriggers == {Hook(4, After("delete"), "a", FALSE, "call", 1),
                 Hook(6, After("update"), "a", FALSE, "call", 1)}

OneDisabled == {r \in SomeTriggers : r.id = 6}

SomeCalls == {[op |-> "update", coll |-> "a", val |-> 1],
              [op |-> "update", coll |-> "a", val |-> 2],
              [op |-> "update", coll |-> "a", val |-> 4],
              [op |-> "delete", coll |-> "a", val |-> None],
              [op |-> "insert", coll |-> "b", val |-> 1]}
=============================================================================
