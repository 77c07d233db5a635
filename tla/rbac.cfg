SPECIFICATION Spec
CONSTANTS
    User = {u1, u2}
    Role = {r1}
    Client = {c1, c2}
    Grants <- SomeGrants
    Budgets <- SomeBudgets
SYMMETRY UserSymmetry
INVARIANT SessionsMatchPasswords
INVARIANT RolesOfUsersExist
INVARIANT GrantsWereGiven
PROPERTY WritesAreCurrent
PROPERTY OpenGivesWhatWasSaved
CHECK_DEADLOCK FALSE
