------------------------------- MODULE MCRbac -------------------------------
(***************************************************************************)
(* The instance of Rbac that TLC checks: a role that may write and one that *)
(* may not, and four budgets: sessions in a store with no file, a store    *)
(* with its file and no sessions, and less of both.                        *)
(***************************************************************************)
EXTENDS Rbac

SomeGrants == {{"read"}, {"write"}}

Budget(a, l, w, f, o) == [admin |-> a, login |-> l, write |-> w, flush |-> f, open |-> o]

SomeBudgets ==
    {Budget(5, 1, 1, 0, 0), Budget(4, 2, 1, 0, 0), Budget(4, 0, 0, 2, 1), Budget(3, 1, 1, 2, 1)}

UserSymmetry == Permutations(User) \union Permutations(Client)
=============================================================================
