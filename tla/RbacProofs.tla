----------------------------- MODULE RbacProofs -----------------------------
(***************************************************************************)
(* Who may do what: the invariants and action properties of Rbac hold for  *)
(* every set of users, roles and clients, for every permission a role may  *)
(* have and for every bound.                                               *)
(***************************************************************************)
EXTENDS Rbac, TLAPS

-----------------------------------------------------------------------------
(* Types                                                                   *)

Name == User \union Role
Colls == {"users", "roles"}

Partial(S, T) == UNION {[D -> T] : D \in SUBSET S}


UserDoc == [pw : Nat, roles : SUBSET Role]
UserDocs == Partial(User, UserDoc)
RoleDocs == Partial(Role, Grants)

\* A partial function is a function on a set of names.
LEMMA PartialIsFunction ==
    ASSUME NEW S, NEW T, NEW f \in Partial(S, T)
    PROVE  DOMAIN f \subseteq S /\ f \in [DOMAIN f -> T]
<1>1. PICK D \in SUBSET S : f \in [D -> T]
  BY DEF Partial
<1> QED BY <1>1

LEMMA FunctionIsPartial ==
    ASSUME NEW S, NEW T, NEW D \in SUBSET S, NEW f \in [D -> T]
    PROVE  f \in Partial(S, T)
BY Zenon DEF Partial

\* What creating, removing and changing an entry leaves of a collection.
LEMMA WithPartial ==
    ASSUME NEW S, NEW T, NEW f \in Partial(S, T), NEW k \in S, NEW v \in T
    PROVE  /\ With(f, k, v) \in Partial(S, T)
           /\ DOMAIN With(f, k, v) = DOMAIN f \union {k}
           /\ With(f, k, v)[k] = v
           /\ \A x \in DOMAIN f \ {k} : With(f, k, v)[x] = f[x]
<1>1. DOMAIN f \subseteq S /\ f \in [DOMAIN f -> T]
  BY PartialIsFunction
<1>2. With(f, k, v) \in [DOMAIN f \union {k} -> T]
  BY <1>1 DEF With
<1>3. With(f, k, v) \in Partial(S, T)
  BY <1>1, <1>2, FunctionIsPartial, DOMAIN f \union {k} \in SUBSET S
<1> QED BY <1>1, <1>2, <1>3 DEF With

LEMMA WithoutPartial ==
    ASSUME NEW S, NEW T, NEW f \in Partial(S, T), NEW k \in S
    PROVE  /\ Without(f, k) \in Partial(S, T)
           /\ DOMAIN Without(f, k) = DOMAIN f \ {k}
           /\ \A x \in DOMAIN f \ {k} : Without(f, k)[x] = f[x]
<1>1. DOMAIN f \subseteq S /\ f \in [DOMAIN f -> T]
  BY PartialIsFunction
<1>2. Without(f, k) \in [DOMAIN f \ {k} -> T]
  BY <1>1 DEF Without
<1>3. Without(f, k) \in Partial(S, T)
  BY <1>1, <1>2, FunctionIsPartial, DOMAIN f \ {k} \in SUBSET S
<1> QED BY <1>1, <1>2, <1>3 DEF Without

LEMMA UserChanged ==
    ASSUME users \in UserDocs, NEW u \in DOMAIN users, NEW d \in UserDoc,
           users' = [users EXCEPT ![u] = d]
    PROVE  /\ users' \in UserDocs
           /\ DOMAIN users' = DOMAIN users
           /\ users'[u] = d
           /\ \A x \in DOMAIN users \ {u} : users'[x] = users[x]
<1>1. DOMAIN users \subseteq User /\ users \in [DOMAIN users -> UserDoc]
  BY PartialIsFunction DEF UserDocs
<1>2. users' \in [DOMAIN users -> UserDoc]
  BY <1>1
<1>3. users' \in UserDocs
  BY <1>1, <1>2, FunctionIsPartial DEF UserDocs
<1> QED BY <1>1, <1>2, <1>3

LEMMA EmptyPartial ==
    ASSUME NEW S, NEW T
    PROVE  Empty \in Partial(S, T) /\ DOMAIN Empty = {}
<1>1. Empty \in [{} -> T] /\ DOMAIN Empty = {}
  BY DEF Empty
<1> QED BY <1>1, FunctionIsPartial, {} \in SUBSET S

\* The file after a flush is made of documents the file or the snapshot had.
LEMMA MergedPartial ==
    ASSUME NEW S, NEW T, NEW old \in Partial(S, T), NEW new \in Partial(S, T)
    PROVE  Merged(old, new) \in Partial(S, T)
<1> DEFINE D == (DOMAIN old \ flush.dels) \union (DOMAIN new \intersect flush.wrote)
<1>1. DOMAIN old \subseteq S /\ old \in [DOMAIN old -> T]
      /\ DOMAIN new \subseteq S /\ new \in [DOMAIN new -> T]
  BY PartialIsFunction
<1>2. Merged(old, new) \in [D -> T]
  BY <1>1 DEF Merged
<1>3. D \in SUBSET S
  BY <1>1
<1> QED BY <1>2, <1>3, FunctionIsPartial, Zenon

Flushes ==
    [on : {TRUE}, full : BOOLEAN, dels : SUBSET Name, some : BOOLEAN,
     users : UserDocs, roles : RoleDocs, colls : SUBSET Colls,
     names : SUBSET Name, wrote : SUBSET Name, gone : SUBSET Name,
     reset : SUBSET Name, clean : BOOLEAN]

Permissions == SUBSET {"read", "write"}

Logins ==
    [pc : {"verified", "resolved"}, user : User, pw : Nat, roles : SUBSET Role,
     grants : Permissions]

Sessions == [user : User, pw : Nat, grants : Permissions, expired : BOOLEAN]

StoreTypes ==
    /\ users \in UserDocs /\ roles \in RoleDocs
    /\ exists \subseteq Colls
    /\ dirty \subseteq DOMAIN users \union DOMAIN roles
    /\ cold \subseteq DOMAIN users \ dirty
    /\ dels \subseteq Name /\ undeleted \subseteq Name
    /\ dels # {} => file.saw \/ flush.on
    /\ file \in [saw : BOOLEAN, users : UserDocs, roles : RoleDocs, colls : SUBSET Colls]
    /\ flush = NoFlush \/ flush \in Flushes
    /\ saved \in [users : UserDocs, roles : RoleDocs]

ClientTypes ==
    /\ login \in [Client -> Logins \union {NoLogin}]
    /\ sess \in [Client -> Sessions \union {NoSession}]
    /\ call \in [Client -> {"none", "waits"}]
    /\ wrote \in [Client -> Nat]
    /\ given \in [User -> Permissions]
    /\ left \in [{"admin", "login", "write", "flush", "open"} -> Nat]

Types == StoreTypes /\ ClientTypes

-----------------------------------------------------------------------------
(* The file                                                                *)
(*                                                                         *)
(* What Open gives back was decided by the flushes before it, so the       *)
(* invariant says what every document in memory, in the snapshot of the    *)
(* flush that runs and on file has to do with the others. Each part is     *)
(* stated once and asked of the users and of the roles: "docs" are those   *)
(* in memory, "new" the snapshot's, "old" those on file.                   *)

\* Between flushes what is clean is on file as it is in memory.
CleanIsOnFile(docs, old) ==
    ~flush.on /\ file.saw =>
        \A n \in DOMAIN docs \ dirty : n \in DOMAIN old /\ old[n] = docs[n]

\* A clean document of the snapshot is on file and no DEL of the flush takes it.
CleanIsKept(new, old) ==
    flush.on /\ ~flush.full =>
        \A n \in DOMAIN new \ flush.wrote :
            n \in DOMAIN old \ flush.dels /\ old[n] = new[n]

\* What is clean now, or will be when the flush ends, is in the snapshot.
CleanIsSnapshot(docs, new) ==
    flush.on =>
        \A n \in DOMAIN docs :
            n \notin dirty \/ n \in flush.names =>
                n \in DOMAIN new /\ new[n] = docs[n]

\* A document whose DEL is queued is written after the DEL.
DelsAreRewritten ==
    \A n \in dels \intersect (DOMAIN users \union DOMAIN roles) :
        /\ n \in dirty
        /\ flush.on /\ ~flush.full /\ ~flush.some => n \notin flush.names

\* What the file has and memory lacks, a DEL will take, or it is undeleted.
RestIsDeleted(docs, old) ==
    ~flush.on /\ file.saw => DOMAIN old \subseteq DOMAIN docs \union undeleted \union dels

\* The same of the snapshot, and of what left memory while the flush ran.
RestIsTaken(docs, new, old) ==
    /\ flush.on /\ ~flush.full =>
           DOMAIN old \subseteq DOMAIN new \union undeleted \union flush.dels
    /\ flush.on =>
           DOMAIN new \subseteq DOMAIN docs \union (undeleted \intersect flush.gone)
                                            \union flush.reset

\* What was saved last is on file, and nothing else but the undeleted.
SavedIsOnFile(last, old) ==
    /\ \A n \in DOMAIN last : n \in DOMAIN old /\ old[n] = last[n]
    /\ DOMAIN old \subseteq DOMAIN last \union undeleted

\* A collection with a document exists, in memory, in the snapshot and in META.
CollsExist ==
    /\ DOMAIN users # {} => "users" \in exists
    /\ DOMAIN roles # {} => "roles" \in exists
    /\ flush.on => /\ DOMAIN flush.users # {} => "users" \in flush.colls
                   /\ DOMAIN flush.roles # {} => "roles" \in flush.colls
    /\ DOMAIN saved.users # {} => "users" \in file.colls
    /\ DOMAIN saved.roles # {} => "roles" \in file.colls

FileInv ==
    /\ CleanIsOnFile(users, file.users) /\ CleanIsOnFile(roles, file.roles)
    /\ CleanIsKept(flush.users, file.users) /\ CleanIsKept(flush.roles, file.roles)
    /\ CleanIsSnapshot(users, flush.users) /\ CleanIsSnapshot(roles, flush.roles)
    /\ RestIsDeleted(users, file.users) /\ RestIsDeleted(roles, file.roles)
    /\ RestIsTaken(users, flush.users, file.users)
    /\ RestIsTaken(roles, flush.roles, file.roles)
    /\ SavedIsOnFile(saved.users, file.users) /\ SavedIsOnFile(saved.roles, file.roles)
    /\ DelsAreRewritten
    /\ CollsExist

-----------------------------------------------------------------------------
(* The invariant                                                           *)

Closed(us, rs) == \A u \in DOMAIN us : us[u].roles \subseteq DOMAIN rs

\* RolesOfUsersExist, of every place Open can take them from.
RolesEverywhere ==
    exposed \intersect {"cold", "back"} = {} =>
        /\ Closed(users, roles)
        /\ flush.on => Closed(flush.users, flush.roles)
        /\ Closed(saved.users, saved.roles)

\* GrantsWereGiven, with what an Authenticate has resolved and not registered.
GrantsEverywhere ==
    /\ \A u \in User : NowGiven(users, roles)[u] \subseteq given[u]
    /\ "mixed" \notin exposed =>
           \A c \in Client : login[c].pc = "resolved" =>
               login[c].grants \subseteq given[login[c].user]

RInv ==
    /\ Types
    /\ FileInv
    /\ SessionsMatchPasswords
    /\ RolesEverywhere
    /\ GrantsEverywhere /\ GrantsWereGiven

-----------------------------------------------------------------------------
(* Types are kept                                                          *)

LEMMA FlushIsTyped ==
    ASSUME flush = NoFlush \/ flush \in Flushes
    PROVE  flush.on \in BOOLEAN /\ (flush.on <=> flush \in Flushes)
                                /\ (~flush.on <=> flush = NoFlush)
<1>1. NoFlush.on = FALSE
  BY DEF NoFlush
<1>2. \A f \in Flushes : f.on = TRUE
  BY DEF Flushes
<1>3. CASE flush = NoFlush
  BY <1>1, <1>2, <1>3
<1>4. CASE flush \in Flushes
  BY <1>1, <1>2, <1>4
<1> QED BY <1>3, <1>4

LEMMA DocsAreTyped ==
    ASSUME StoreTypes
    PROVE  /\ DOMAIN users \subseteq User
           /\ \A u \in DOMAIN users : users[u] \in UserDoc
           /\ DOMAIN roles \subseteq Role
           /\ \A r \in DOMAIN roles : roles[r] \in Grants
           /\ DOMAIN users \union DOMAIN roles \subseteq Name
<1>1. users \in Partial(User, UserDoc) /\ roles \in Partial(Role, Grants)
  BY DEF StoreTypes, UserDocs, RoleDocs
<1>2. DOMAIN users \subseteq User /\ users \in [DOMAIN users -> UserDoc]
  BY <1>1, PartialIsFunction
<1>3. DOMAIN roles \subseteq Role /\ roles \in [DOMAIN roles -> Grants]
  BY <1>1, PartialIsFunction
<1> QED BY <1>2, <1>3 DEF Name

LEMMA BudgetSpent ==
    ASSUME ClientTypes, NEW what \in {"admin", "login", "write", "flush", "open"}, Spend(what)
    PROVE  /\ left' \in [{"admin", "login", "write", "flush", "open"} -> Nat]
           /\ left[what] \in Nat
           /\ what # "open" => left'.open = left.open
BY DEF ClientTypes, Spend

LEMMA MutatedTypes ==
    ASSUME StoreTypes, NEW n \in Name, Mutated(n)
    PROVE  /\ flush' = NoFlush \/ flush' \in Flushes
           /\ flush'.on = flush.on
<1>1. CASE flush.on
  <2>1. flush \in Flushes
    BY <1>1, FlushIsTyped DEF StoreTypes
  <2>2. flush' = [flush EXCEPT !.names = @ \ {n}, !.clean = FALSE]
    BY <1>1 DEF Mutated
  <2> QED BY <2>1, <2>2 DEF Flushes
<1>2. CASE ~flush.on
  BY <1>2 DEF StoreTypes, Mutated
<1> QED BY <1>1, <1>2

LEMMA GoneTypes ==
    ASSUME StoreTypes, NEW n \in Name, Gone(n)
    PROVE  /\ flush' = NoFlush \/ flush' \in Flushes
           /\ flush'.on = flush.on
<1>1. CASE flush.on
  <2>1. flush \in Flushes
    BY <1>1, FlushIsTyped DEF StoreTypes
  <2>2. flush' = [flush EXCEPT !.names = @ \ {n}, !.clean = FALSE, !.gone = @ \union {n}]
    BY <1>1 DEF Gone
  <2> QED BY <2>1, <2>2 DEF Flushes
<1>2. CASE ~flush.on
  BY <1>2 DEF StoreTypes, Gone
<1> QED BY <1>1, <1>2

\* What a user may do is permissions, of roles that are there.
LEMMA ResolvedTypes ==
    ASSUME RbacAssumption, StoreTypes, NEW names
    PROVE  Resolved(names) \in Permissions
<1>1. \A r \in DOMAIN roles : roles[r] \in Permissions
  BY DocsAreTyped DEF RbacAssumption, Permissions
<1> QED BY <1>1 DEF Resolved, Permissions

LEMMA NowGivenTypes ==
    ASSUME RbacAssumption, NEW us, NEW rs \in RoleDocs
    PROVE  NowGiven(us, rs) \in [User -> Permissions]
<1>1. DOMAIN rs \subseteq Role /\ rs \in [DOMAIN rs -> Grants]
  BY PartialIsFunction DEF RoleDocs
<1>2. \A r \in DOMAIN rs : rs[r] \in Permissions
  BY <1>1 DEF RbacAssumption, Permissions
<1>3. ASSUME NEW u \in User, u \in DOMAIN us
      PROVE  UNION {rs[r] : r \in us[u].roles \intersect DOMAIN rs} \in Permissions
  BY <1>2, <1>3 DEF Permissions
<1>4. {} \in Permissions
  BY DEF Permissions
<1> QED BY <1>3, <1>4 DEF NowGiven

LEMMA GivenTypes ==
    ASSUME RbacAssumption, ClientTypes, roles' \in RoleDocs, Given
    PROVE  given' \in [User -> Permissions]
<1>1. NowGiven(users', roles') \in [User -> Permissions]
  BY NowGivenTypes
<1>2. \A u \in User : given[u] \union NowGiven(users', roles')[u] \in Permissions
  BY <1>1 DEF ClientTypes, Permissions
<1> QED BY <1>2 DEF Given

LEMMA RevokedTypes ==
    ASSUME ClientTypes, NEW u
    PROVE  Revoked(u) \in [Client -> Sessions \union {NoSession}]
BY DEF ClientTypes, Revoked

LEMMA TypesAdmin ==
    ASSUME RbacAssumption, Types,
           \/ \E r \in Role, g \in Grants : CreateRole(r, g)
           \/ \E u \in User, rs \in SUBSET Role : CreateUser(u, rs) \/ SetUserRoles(u, rs)
           \/ \E u \in User : ChangePassword(u) \/ DeleteUser(u)
           \/ \E r \in Role : DeleteRole(r)
           \/ ResetAuth
    PROVE  Types'
<1> USE DEF Types
<1>1. ASSUME NEW r \in Role, NEW g \in Grants, CreateRole(r, g)
      PROVE  Types'
  <2>1. /\ roles' \in RoleDocs
        /\ DOMAIN roles' = DOMAIN roles \union {r}
    <3>1. roles \in Partial(Role, Grants) /\ roles' = With(roles, r, g)
      BY <1>1 DEF CreateRole, StoreTypes, RoleDocs
    <3> QED BY <3>1, WithPartial DEF RoleDocs
  <2>2. r \in Name /\ Mutated(r)
    BY <1>1 DEF CreateRole, Name
  <2>3. StoreTypes'
    <3>1. (flush' = NoFlush \/ flush' \in Flushes) /\ flush'.on = flush.on
      BY <2>2, MutatedTypes
    <3>2. dirty' = dirty \union {r} /\ exists' = exists \union {"roles"}
      BY <1>1 DEF CreateRole, Mutated
    <3>3. r \notin DOMAIN users
      BY DocsAreTyped DEF RbacAssumption
    <3>4. UNCHANGED <<users, cold, dels, undeleted, file, saved>>
      BY <1>1 DEF CreateRole, Admin
    <3> QED BY <2>1, <3>1, <3>2, <3>3, <3>4 DEF StoreTypes, Colls
  <2>4. ClientTypes'
    BY <1>1, <2>1, GivenTypes, BudgetSpent DEF CreateRole, Admin, ClientTypes, clients
  <2> QED BY <2>3, <2>4
<1>2. ASSUME NEW u \in User, NEW rs \in SUBSET Role, CreateUser(u, rs)
      PROVE  Types'
  <2>1. [pw |-> NewPassword, roles |-> rs] \in UserDoc
    BY <1>2, BudgetSpent DEF CreateUser, Admin, NewPassword, UserDoc
  <2>2. /\ users' \in UserDocs
        /\ DOMAIN users' = DOMAIN users \union {u}
    <3>1. /\ users \in Partial(User, UserDoc)
          /\ users' = With(users, u, [pw |-> NewPassword, roles |-> rs])
      BY <1>2 DEF CreateUser, StoreTypes, UserDocs
    <3> QED BY <2>1, <3>1, WithPartial DEF UserDocs
  <2>3. u \in Name /\ Mutated(u)
    BY <1>2 DEF CreateUser, Name
  <2>4. StoreTypes'
    BY <1>2, <2>2, <2>3, MutatedTypes, DocsAreTyped
       DEF CreateUser, Admin, StoreTypes, Mutated, Colls, RbacAssumption, Name
  <2>5. ClientTypes'
    <3>1. roles' \in RoleDocs
      BY <1>2 DEF CreateUser, StoreTypes
    <3> QED BY <1>2, <3>1, GivenTypes, BudgetSpent DEF CreateUser, Admin, ClientTypes, clients
  <2> QED BY <2>4, <2>5
<1>3. ASSUME NEW u \in User, NEW rs \in SUBSET Role, SetUserRoles(u, rs)
      PROVE  Types'
  <2>1. users[u] \in UserDoc
    BY <1>3, DocsAreTyped DEF SetUserRoles
  <2>2. [users[u] EXCEPT !.roles = rs] \in UserDoc
    BY <2>1 DEF UserDoc
  <2>3. users' = [users EXCEPT ![u] = [users[u] EXCEPT !.roles = rs]] /\ u \in DOMAIN users
    BY <1>3 DEF SetUserRoles
  <2>4. users' \in UserDocs /\ DOMAIN users' = DOMAIN users
    <3>1. users \in UserDocs
      BY DEF StoreTypes
    <3> QED BY <2>2, <2>3, <3>1, UserChanged
  <2>5. u \in Name /\ Mutated(u)
    BY <1>3 DEF SetUserRoles, Name
  <2>6. StoreTypes'
    BY <1>3, <2>4, <2>5, MutatedTypes, DocsAreTyped
       DEF SetUserRoles, Admin, StoreTypes, Mutated, Name
  <2>7. ClientTypes'
    <3>1. roles' \in RoleDocs
      BY <1>3 DEF SetUserRoles, StoreTypes
    <3> QED BY <1>3, <3>1, GivenTypes, BudgetSpent DEF SetUserRoles, Admin, ClientTypes, clients
  <2> QED BY <2>6, <2>7
<1>4. ASSUME NEW u \in User, ChangePassword(u)
      PROVE  Types'
  <2>1. users[u] \in UserDoc
    BY <1>4, DocsAreTyped DEF ChangePassword
  <2>2. [users[u] EXCEPT !.pw = NewPassword] \in UserDoc
    BY <1>4, <2>1, BudgetSpent DEF ChangePassword, Admin, NewPassword, UserDoc
  <2>3. users' = [users EXCEPT ![u] = [users[u] EXCEPT !.pw = NewPassword]] /\ u \in DOMAIN users
    BY <1>4 DEF ChangePassword
  <2>4. users' \in UserDocs /\ DOMAIN users' = DOMAIN users
    <3>1. users \in UserDocs
      BY DEF StoreTypes
    <3> QED BY <2>2, <2>3, <3>1, UserChanged
  <2>5. u \in Name /\ Mutated(u)
    BY <1>4 DEF ChangePassword, Name
  <2>6. StoreTypes'
    BY <1>4, <2>4, <2>5, MutatedTypes, DocsAreTyped
       DEF ChangePassword, Admin, StoreTypes, Mutated, Name
  <2>7. ClientTypes'
    <3>1. roles' \in RoleDocs
      BY <1>4 DEF ChangePassword, StoreTypes
    <3>2. sess' \in [Client -> Sessions \union {NoSession}]
      BY <1>4, RevokedTypes DEF ChangePassword
    <3> QED BY <1>4, <3>1, <3>2, GivenTypes, BudgetSpent DEF ChangePassword, Admin, ClientTypes
  <2> QED BY <2>6, <2>7
<1>5. ASSUME NEW u \in User, DeleteUser(u)
      PROVE  Types'
  <2>1. users' \in UserDocs /\ DOMAIN users' = DOMAIN users \ {u}
    <3>1. users \in Partial(User, UserDoc) /\ users' = Without(users, u)
      BY <1>5 DEF DeleteUser, StoreTypes, UserDocs
    <3> QED BY <3>1, WithoutPartial DEF UserDocs
  <2>2. u \in Name /\ Gone(u)
    BY <1>5 DEF DeleteUser, Name
  <2>3. StoreTypes'
    BY <1>5, <2>1, <2>2, GoneTypes DEF DeleteUser, Admin, StoreTypes, Gone
  <2>4. ClientTypes'
    <3>1. roles' \in RoleDocs
      BY <1>5 DEF DeleteUser, StoreTypes
    <3> QED BY <1>5, <3>1, GivenTypes, BudgetSpent DEF DeleteUser, Admin, ClientTypes, clients
  <2> QED BY <2>3, <2>4
<1>6. ASSUME NEW r \in Role, DeleteRole(r)
      PROVE  Types'
  <2>1. roles' \in RoleDocs /\ DOMAIN roles' = DOMAIN roles \ {r}
    <3>1. roles \in Partial(Role, Grants) /\ roles' = Without(roles, r)
      BY <1>6 DEF DeleteRole, StoreTypes, RoleDocs
    <3> QED BY <3>1, WithoutPartial DEF RoleDocs
  <2>2. r \in Name /\ Gone(r)
    BY <1>6 DEF DeleteRole, Name
  <2>3. StoreTypes'
    BY <1>6, <2>1, <2>2, GoneTypes DEF DeleteRole, Admin, StoreTypes, Gone
  <2>4. ClientTypes'
    BY <1>6, <2>1, GivenTypes, BudgetSpent DEF DeleteRole, Admin, ClientTypes, clients
  <2> QED BY <2>3, <2>4
<1>7. ASSUME ResetAuth
      PROVE  Types'
  <2>1. /\ users' \in UserDocs /\ DOMAIN users' = {}
        /\ roles' \in RoleDocs /\ DOMAIN roles' = {}
    BY <1>7, EmptyPartial DEF ResetAuth, UserDocs, RoleDocs
  <2> DEFINE names == DOMAIN users \union DOMAIN roles
  <2>2. names \subseteq Name
    BY DocsAreTyped
  <2>3. /\ flush' = NoFlush \/ flush' \in Flushes
        /\ flush'.on = flush.on
    <3>1. CASE flush.on
      <4>1. flush \in Flushes
        BY <3>1, FlushIsTyped DEF StoreTypes
      <4>2. flush' = [flush EXCEPT !.names = @ \ names, !.clean = FALSE,
                                   !.reset = @ \union names]
        BY <1>7, <3>1 DEF ResetAuth
      <4> HIDE DEF names
      <4> QED BY <2>2, <4>1, <4>2 DEF Flushes
    <3>2. CASE ~flush.on
      BY <1>7, <3>2 DEF StoreTypes, ResetAuth
    <3> QED BY <3>1, <3>2
  <2>4. dels' \subseteq Name /\ (dels' # {} => file.saw \/ flush.on)
    BY <1>7, <2>2 DEF ResetAuth, Queued, StoreTypes
  <2>5. StoreTypes'
    BY <1>7, <2>1, <2>3, <2>4 DEF ResetAuth, Admin, StoreTypes
  <2>6. sess' \in [Client -> Sessions \union {NoSession}]
    BY <1>7 DEF ResetAuth
  <2>7. ClientTypes'
    BY <1>7, <2>1, <2>6, GivenTypes, BudgetSpent DEF ResetAuth, Admin, ClientTypes
  <2> QED BY <2>5, <2>7
<1> QED BY <1>1, <1>2, <1>3, <1>4, <1>5, <1>6, <1>7

LEMMA TypesClient ==
    ASSUME RbacAssumption, Types,
           \/ \E u \in User : VerifyFails(u) \/ Evict(u)
           \/ \E c \in Client, u \in User : Verify(c, u)
           \/ \E c \in Client : Resolve(c) \/ Register(c) \/ Expire(c) \/ Revoke(c)
           \/ \E c \in Client : WriteWaits(c) \/ WriteAtOnce(c) \/ WriteResumes(c)
    PROVE  Types'
<1> USE DEF Types, Still
<1>1. ASSUME NEW u \in User, VerifyFails(u) \/ Evict(u)
      PROVE  Types'
  BY <1>1 DEF VerifyFails, Evict, StoreTypes, ClientTypes, clients
<1>2. ASSUME NEW c \in Client, NEW u \in User, Verify(c, u)
      PROVE  Types'
  <2>1. users[u] \in UserDoc
    BY <1>2, DocsAreTyped DEF Verify
  <2>2. [pc |-> "verified", user |-> u, pw |-> users[u].pw,
         roles |-> users[u].roles, grants |-> {}] \in Logins
    BY <2>1 DEF Logins, Permissions, UserDoc
  <2>3. ClientTypes'
    BY <1>2, <2>2, BudgetSpent DEF Verify, ClientTypes
  <2> QED BY <1>2, <2>3 DEF Verify, StoreTypes
<1>3. ASSUME NEW c \in Client, Resolve(c)
      PROVE  Types'
  <2>1. login[c] \in Logins
    BY <1>3 DEF Resolve, ClientTypes, NoLogin
  <2>2. [login[c] EXCEPT !.pc = "resolved", !.grants = Resolved(login[c].roles)] \in Logins
    BY <2>1, ResolvedTypes DEF Logins
  <2>3. login' = [login EXCEPT ![c] =
            [login[c] EXCEPT !.pc = "resolved", !.grants = Resolved(login[c].roles)]]
    BY <1>3, <2>1 DEF Resolve, ClientTypes
  <2>4. ClientTypes'
    BY <1>3, <2>2, <2>3 DEF Resolve, ClientTypes
  <2> QED BY <1>3, <2>4 DEF Resolve, StoreTypes, ents
<1>4. ASSUME NEW c \in Client, Register(c)
      PROVE  Types'
  <2>1. login[c] \in Logins
    BY <1>4 DEF Register, ClientTypes, NoLogin
  <2>2. [user |-> login[c].user, pw |-> login[c].pw,
         grants |-> login[c].grants, expired |-> FALSE] \in Sessions
    BY <2>1 DEF Logins, Sessions
  <2>3. sess' \in [Client -> Sessions \union {NoSession}]
    BY <1>4, <2>2 DEF Register, ClientTypes
  <2>4. ClientTypes'
    BY <1>4, <2>3 DEF Register, ClientTypes
  <2> QED BY <1>4, <2>4 DEF Register, StoreTypes, ents
<1>5. ASSUME NEW c \in Client, Expire(c)
      PROVE  Types'
  <2>1. sess[c] \in Sessions
    BY <1>5 DEF Expire, Registered, ClientTypes
  <2>2. [sess[c] EXCEPT !.expired = TRUE] \in Sessions
    BY <2>1 DEF Sessions
  <2>3. sess' = [sess EXCEPT ![c] = [sess[c] EXCEPT !.expired = TRUE]]
    BY <1>5 DEF Expire
  <2>4. ClientTypes'
    BY <1>5, <2>2, <2>3 DEF Expire, ClientTypes
  <2> QED BY <1>5, <2>4 DEF Expire, StoreTypes, ents
<1>6. ASSUME NEW c \in Client, Revoke(c)
      PROVE  Types'
  BY <1>6 DEF Revoke, StoreTypes, ClientTypes, ents
<1>7. ASSUME NEW c \in Client, WriteWaits(c) \/ WriteAtOnce(c) \/ WriteResumes(c)
      PROVE  Types'
  BY <1>7 DEF WriteWaits, WriteAtOnce, WriteResumes, StoreTypes, ClientTypes, ents
<1> QED BY <1>1, <1>2, <1>3, <1>4, <1>5, <1>6, <1>7

\* What FlushEnd leaves on file, and Open of it in memory.
LEMMA FileAfterFlush ==
    ASSUME StoreTypes, FlushEnd
    PROVE  /\ flush \in Flushes
           /\ file' \in [saw : {TRUE}, users : UserDocs, roles : RoleDocs, colls : SUBSET Colls]
           /\ file'.users = IF flush.full THEN flush.users ELSE Merged(file.users, flush.users)
           /\ file'.roles = IF flush.full THEN flush.roles ELSE Merged(file.roles, flush.roles)
           /\ file'.colls = flush.colls
<1>1. flush \in Flushes
  BY FlushIsTyped DEF StoreTypes, FlushEnd
<1>2. /\ flush.users \in UserDocs /\ flush.roles \in RoleDocs /\ flush.colls \subseteq Colls
      /\ file.users \in UserDocs /\ file.roles \in RoleDocs
  BY <1>1 DEF StoreTypes, Flushes
<1>3. Merged(file.users, flush.users) \in UserDocs
  BY <1>2, MergedPartial DEF UserDocs
<1>4. Merged(file.roles, flush.roles) \in RoleDocs
  BY <1>2, MergedPartial DEF RoleDocs
<1>5. CASE flush.full
  BY <1>1, <1>2, <1>5 DEF FlushEnd
<1>6. CASE ~flush.full
  BY <1>1, <1>2, <1>3, <1>4, <1>6 DEF FlushEnd
<1> QED BY <1>5, <1>6

LEMMA MemoryAfterOpen ==
    ASSUME StoreTypes, Reopen
    PROVE  /\ users' \in UserDocs /\ roles' \in RoleDocs
           /\ IF "users" \in file.colls THEN users' = file.users ELSE DOMAIN users' = {}
           /\ IF "roles" \in file.colls THEN roles' = file.roles ELSE DOMAIN roles' = {}
<1>1. file.users \in UserDocs /\ file.roles \in RoleDocs
  BY DEF StoreTypes
<1>2. Empty \in UserDocs /\ Empty \in RoleDocs /\ DOMAIN Empty = {}
  BY EmptyPartial DEF UserDocs, RoleDocs
<1> QED BY <1>1, <1>2 DEF Reopen, Gated

LEMMA TypesFile ==
    ASSUME RbacAssumption, Types,
           \/ \E compact, others \in BOOLEAN : FlushBegin(compact, others)
           \/ FlushEnd
           \/ Reopen
    PROVE  Types'
<1> USE DEF Types
<1>1. ASSUME NEW compact \in BOOLEAN, NEW others \in BOOLEAN, FlushBegin(compact, others)
      PROVE  Types'
  <2>1. flush' \in Flushes
    <3>1. /\ users \in UserDocs /\ roles \in RoleDocs /\ exists \subseteq Colls
          /\ dirty \subseteq Name /\ dels \subseteq Name /\ file.saw \in BOOLEAN
      BY DocsAreTyped DEF StoreTypes
    <3> QED BY <1>1, <3>1 DEF FlushBegin, Flushes
  <2>2. flush'.on = TRUE
    BY <2>1 DEF Flushes
  <2>3. StoreTypes'
    BY <1>1, <2>1, <2>2 DEF FlushBegin, StoreTypes, ents
  <2>4. ClientTypes'
    BY <1>1, BudgetSpent DEF FlushBegin, ClientTypes, clients
  <2> QED BY <2>3, <2>4
<1>2. ASSUME FlushEnd
      PROVE  Types'
  <2>1. file' \in [saw : BOOLEAN, users : UserDocs, roles : RoleDocs, colls : SUBSET Colls]
        /\ file'.saw = TRUE /\ flush \in Flushes
    BY <1>2, FileAfterFlush
  <2>2. saved' \in [users : UserDocs, roles : RoleDocs]
    BY <1>2, <2>1 DEF FlushEnd, Flushes
  <2>3. OnFile(file') \subseteq Name
    <3>1. file'.users \in UserDocs /\ file'.roles \in RoleDocs
      BY <2>1
    <3>2. DOMAIN file'.users \subseteq User
      BY <3>1, PartialIsFunction DEF UserDocs
    <3>3. DOMAIN file'.roles \subseteq Role
      BY <3>1, PartialIsFunction DEF RoleDocs
    <3> QED BY <3>2, <3>3 DEF OnFile, Name
  <2>4. undeleted' \subseteq Name
    BY <1>2, <2>3 DEF FlushEnd
  <2>5. dels' \subseteq Name /\ dirty' \subseteq dirty
    BY <1>2 DEF FlushEnd, KeptDels, StoreTypes
  <2>6. StoreTypes'
    BY <1>2, <2>1, <2>2, <2>4, <2>5 DEF FlushEnd, StoreTypes
  <2>7. ClientTypes'
    BY <1>2 DEF FlushEnd, ClientTypes, clients
  <2> QED BY <2>6, <2>7
<1>3. ASSUME Reopen
      PROVE  Types'
  <2>1. StoreTypes'
    BY <1>3, MemoryAfterOpen DEF Reopen, StoreTypes
  <2>2. ClientTypes'
    BY <1>3, MemoryAfterOpen, GivenTypes, BudgetSpent DEF Reopen, ClientTypes
  <2> QED BY <2>1, <2>2
<1> QED BY <1>1, <1>2, <1>3

LEMMA TypesNext ==
    ASSUME RbacAssumption, Types, [Next]_vars
    PROVE  Types'
<1>1. CASE UNCHANGED vars
  BY <1>1 DEF vars, ents, clients, Types, StoreTypes, ClientTypes
<1>2. CASE Next
  BY <1>2, TypesAdmin, TypesClient, TypesFile DEF Next
<1> QED BY <1>1, <1>2

LEMMA TypesInit ==
    ASSUME RbacAssumption, Init
    PROVE  Types
<1>1. Empty \in UserDocs /\ Empty \in RoleDocs /\ DOMAIN Empty = {}
  BY EmptyPartial DEF UserDocs, RoleDocs
<1>2. StoreTypes
  BY <1>1 DEF Init, StoreTypes
<1>3. ClientTypes
  BY DEF Init, ClientTypes, RbacAssumption, Permissions
<1> QED BY <1>2, <1>3 DEF Types

-----------------------------------------------------------------------------
(* What the file gives back                                                *)

\* A call during a flush changes what the flush will make clean, no more.
SnapshotStays ==
    /\ flush'.on = flush.on
    /\ flush.on =>
          /\ flush'.full = flush.full /\ flush'.some = flush.some
          /\ flush'.dels = flush.dels /\ flush'.wrote = flush.wrote
          /\ flush'.users = flush.users /\ flush'.roles = flush.roles
          /\ flush'.colls = flush.colls

LEMMA MutatedFlush ==
    ASSUME StoreTypes, NEW n, Mutated(n)
    PROVE  /\ SnapshotStays
           /\ flush.on => /\ flush'.names = flush.names \ {n}
                          /\ flush'.gone = flush.gone
                          /\ flush'.reset = flush.reset
<1>1. CASE flush.on
  <2>1. flush \in Flushes
    BY <1>1, FlushIsTyped DEF StoreTypes
  <2>2. flush' = [flush EXCEPT !.names = @ \ {n}, !.clean = FALSE]
    BY <1>1 DEF Mutated
  <2> QED BY <2>1, <2>2 DEF Flushes, SnapshotStays
<1>2. CASE ~flush.on
  BY <1>2 DEF Mutated, SnapshotStays
<1> QED BY <1>1, <1>2

LEMMA GoneFlush ==
    ASSUME StoreTypes, NEW n, Gone(n)
    PROVE  /\ SnapshotStays
           /\ flush.on => /\ flush'.names = flush.names \ {n}
                          /\ flush'.gone = flush.gone \union {n}
                          /\ flush'.reset = flush.reset
<1>1. CASE flush.on
  <2>1. flush \in Flushes
    BY <1>1, FlushIsTyped DEF StoreTypes
  <2>2. flush' = [flush EXCEPT !.names = @ \ {n}, !.clean = FALSE, !.gone = @ \union {n}]
    BY <1>1 DEF Gone
  <2> QED BY <2>1, <2>2 DEF Flushes, SnapshotStays
<1>2. CASE ~flush.on
  BY <1>2 DEF Gone, SnapshotStays
<1> QED BY <1>1, <1>2

\* The calls that create or change an entry.
LEMMA FileInvMutated ==
    ASSUME Types, FileInv, NEW n, Mutated(n),
           UNCHANGED <<file, saved, dels, undeleted>>,
           DOMAIN users' = DOMAIN users \union (DOMAIN users' \intersect {n}),
           \A x \in DOMAIN users \ {n} : users'[x] = users[x],
           DOMAIN roles' = DOMAIN roles \union (DOMAIN roles' \intersect {n}),
           \A x \in DOMAIN roles \ {n} : roles'[x] = roles[x],
           DOMAIN users' # {} => "users" \in exists',
           DOMAIN roles' # {} => "roles" \in exists'
    PROVE  FileInv'
<1> USE DEF FileInv
<1>1. /\ SnapshotStays
      /\ flush.on => /\ flush'.names = flush.names \ {n}
                     /\ flush'.gone = flush.gone
                     /\ flush'.reset = flush.reset
      /\ dirty' = dirty \union {n}
  BY MutatedFlush DEF Mutated, Types
<1>2. CleanIsOnFile(users, file.users)' /\ CleanIsOnFile(roles, file.roles)'
  BY <1>1 DEF CleanIsOnFile, SnapshotStays
<1>3. CleanIsKept(flush.users, file.users)' /\ CleanIsKept(flush.roles, file.roles)'
  BY <1>1 DEF CleanIsKept, SnapshotStays
<1>4. CleanIsSnapshot(users, flush.users)' /\ CleanIsSnapshot(roles, flush.roles)'
  BY <1>1 DEF CleanIsSnapshot, SnapshotStays
<1>5. RestIsDeleted(users, file.users)' /\ RestIsDeleted(roles, file.roles)'
  BY <1>1 DEF RestIsDeleted, SnapshotStays
<1>6. /\ RestIsTaken(users, flush.users, file.users)'
      /\ RestIsTaken(roles, flush.roles, file.roles)'
  BY <1>1 DEF RestIsTaken, SnapshotStays
<1>7. SavedIsOnFile(saved.users, file.users)' /\ SavedIsOnFile(saved.roles, file.roles)'
  BY DEF SavedIsOnFile
<1>8. DelsAreRewritten'
  BY <1>1 DEF DelsAreRewritten, SnapshotStays
<1>9. CollsExist'
  BY <1>1 DEF CollsExist, SnapshotStays
<1> QED BY <1>2, <1>3, <1>4, <1>5, <1>6, <1>7, <1>8, <1>9

\* The calls that remove an entry without a DEL.
LEMMA FileInvGone ==
    ASSUME Types, FileInv, NEW n, Gone(n),
           UNCHANGED <<file, saved, dels, exists>>,
           DOMAIN users' = DOMAIN users \ {n},
           \A x \in DOMAIN users \ {n} : users'[x] = users[x],
           DOMAIN roles' = DOMAIN roles \ {n},
           \A x \in DOMAIN roles \ {n} : roles'[x] = roles[x]
    PROVE  FileInv'
<1> USE DEF FileInv
<1>1. /\ SnapshotStays
      /\ flush.on => /\ flush'.names = flush.names \ {n}
                     /\ flush'.gone = flush.gone \union {n}
                     /\ flush'.reset = flush.reset
      /\ dirty' = dirty \ {n}
      /\ undeleted' = undeleted \union {n}
  BY GoneFlush DEF Gone, Types
<1>2. CleanIsOnFile(users, file.users)' /\ CleanIsOnFile(roles, file.roles)'
  BY <1>1 DEF CleanIsOnFile, SnapshotStays
<1>3. CleanIsKept(flush.users, file.users)' /\ CleanIsKept(flush.roles, file.roles)'
  BY <1>1 DEF CleanIsKept, SnapshotStays
<1>4. CleanIsSnapshot(users, flush.users)' /\ CleanIsSnapshot(roles, flush.roles)'
  BY <1>1 DEF CleanIsSnapshot, SnapshotStays
<1>5. RestIsDeleted(users, file.users)' /\ RestIsDeleted(roles, file.roles)'
  BY <1>1 DEF RestIsDeleted, SnapshotStays
<1>6. /\ RestIsTaken(users, flush.users, file.users)'
      /\ RestIsTaken(roles, flush.roles, file.roles)'
  BY <1>1 DEF RestIsTaken, SnapshotStays
<1>7. SavedIsOnFile(saved.users, file.users)' /\ SavedIsOnFile(saved.roles, file.roles)'
  BY <1>1 DEF SavedIsOnFile
<1>8. DelsAreRewritten'
  BY <1>1 DEF DelsAreRewritten, SnapshotStays
<1>9. CollsExist'
  BY <1>1 DEF CollsExist, SnapshotStays
<1> QED BY <1>2, <1>3, <1>4, <1>5, <1>6, <1>7, <1>8, <1>9

LEMMA FileInvReset ==
    ASSUME Types, FileInv, ResetAuth
    PROVE  FileInv'
<1> USE DEF FileInv
<1> DEFINE names == DOMAIN users \union DOMAIN roles
<1>1. /\ DOMAIN users' = {} /\ DOMAIN roles' = {}
      /\ UNCHANGED <<file, saved, undeleted>>
      /\ dels' = IF file.saw \/ flush.on THEN dels \union names ELSE dels
  BY EmptyPartial DEF ResetAuth, Admin, Queued
<1>2. /\ SnapshotStays
      /\ flush.on => /\ flush'.names = flush.names \ names
                     /\ flush'.gone = flush.gone
                     /\ flush'.reset = flush.reset \union names
  <2>1. CASE flush.on
    <3>1. flush \in Flushes
      BY <2>1, FlushIsTyped DEF Types, StoreTypes
    <3>2. flush' = [flush EXCEPT !.names = @ \ names, !.clean = FALSE,
                                 !.reset = @ \union names]
      BY <2>1 DEF ResetAuth
    <3> HIDE DEF names
    <3> QED BY <3>1, <3>2 DEF Flushes, SnapshotStays
  <2>2. CASE ~flush.on
    BY <2>2 DEF ResetAuth, SnapshotStays
  <2> QED BY <2>1, <2>2
<1>3. CleanIsOnFile(users, file.users)' /\ CleanIsOnFile(roles, file.roles)'
  BY <1>1 DEF CleanIsOnFile
<1>4. CleanIsKept(flush.users, file.users)' /\ CleanIsKept(flush.roles, file.roles)'
  BY <1>1, <1>2 DEF CleanIsKept, SnapshotStays
<1>5. CleanIsSnapshot(users, flush.users)' /\ CleanIsSnapshot(roles, flush.roles)'
  BY <1>1 DEF CleanIsSnapshot
<1>6. RestIsDeleted(users, file.users)' /\ RestIsDeleted(roles, file.roles)'
  BY <1>1, <1>2 DEF RestIsDeleted, SnapshotStays
<1>7. /\ RestIsTaken(users, flush.users, file.users)'
      /\ RestIsTaken(roles, flush.roles, file.roles)'
  BY <1>1, <1>2 DEF RestIsTaken, SnapshotStays
<1>8. SavedIsOnFile(saved.users, file.users)' /\ SavedIsOnFile(saved.roles, file.roles)'
  BY <1>1 DEF SavedIsOnFile
<1>9. DelsAreRewritten'
  BY <1>1 DEF DelsAreRewritten
<1>10. CollsExist'
  BY <1>1, <1>2 DEF CollsExist, SnapshotStays
<1> QED BY <1>3, <1>4, <1>5, <1>6, <1>7, <1>8, <1>9, <1>10

\* The snapshot is what memory holds, and what of it is clean is on file.
LEMMA FileInvBegin ==
    ASSUME Types, FileInv, NEW compact \in BOOLEAN, NEW others \in BOOLEAN,
           FlushBegin(compact, others)
    PROVE  FileInv'
<1> USE DEF FileInv
<1>1. /\ ~flush.on /\ flush'.on = TRUE
      /\ flush'.full = (compact \/ ~file.saw)
      /\ flush'.dels = IF compact \/ ~file.saw THEN {} ELSE dels
      /\ flush'.some = (~(compact \/ ~file.saw) /\ (dels # {} \/ others))
      /\ flush'.users = users /\ flush'.roles = roles /\ flush'.colls = exists
      /\ flush'.wrote = dirty
  BY DEF FlushBegin
<1>2. UNCHANGED <<users, roles, exists, dirty, dels, undeleted, file, saved>>
  BY DEF FlushBegin, ents
<1>3. CleanIsOnFile(users, file.users)' /\ CleanIsOnFile(roles, file.roles)'
  BY <1>1 DEF CleanIsOnFile
<1>4. CleanIsKept(flush.users, file.users)' /\ CleanIsKept(flush.roles, file.roles)'
  <2>1. CASE compact \/ ~file.saw
    BY <1>1, <2>1 DEF CleanIsKept
  <2>2. CASE ~compact /\ file.saw
    <3>1. flush'.dels = dels
      BY <1>1, <2>2
    <3>2. ASSUME NEW u \in DOMAIN users \ dirty
          PROVE  u \in DOMAIN file.users \ dels /\ file.users[u] = users[u]
      BY <1>1, <2>2 DEF CleanIsOnFile, DelsAreRewritten
    <3>3. ASSUME NEW r \in DOMAIN roles \ dirty
          PROVE  r \in DOMAIN file.roles \ dels /\ file.roles[r] = roles[r]
      BY <1>1, <2>2 DEF CleanIsOnFile, DelsAreRewritten
    <3> QED BY <1>1, <1>2, <3>1, <3>2, <3>3 DEF CleanIsKept
  <2> QED BY <2>1, <2>2 DEF Types, StoreTypes
<1>5. CleanIsSnapshot(users, flush.users)' /\ CleanIsSnapshot(roles, flush.roles)'
  BY <1>1, <1>2 DEF CleanIsSnapshot
<1>6. RestIsDeleted(users, file.users)' /\ RestIsDeleted(roles, file.roles)'
  BY <1>1 DEF RestIsDeleted
<1>7. /\ RestIsTaken(users, flush.users, file.users)'
      /\ RestIsTaken(roles, flush.roles, file.roles)'
  BY <1>1, <1>2 DEF RestIsTaken, RestIsDeleted
<1>8. SavedIsOnFile(saved.users, file.users)' /\ SavedIsOnFile(saved.roles, file.roles)'
  BY <1>2 DEF SavedIsOnFile
<1>9. DelsAreRewritten'
  BY <1>1, <1>2 DEF DelsAreRewritten
<1>10. CollsExist'
  BY <1>1, <1>2 DEF CollsExist
<1> QED BY <1>3, <1>4, <1>5, <1>6, <1>7, <1>8, <1>9, <1>10

\* What the file holds when a flush ends: all of the snapshot, and of the rest
\* what no DEL of the flush took.
LEMMA SnapshotLands ==
    ASSUME Types, FileInv, FlushEnd
    PROVE  /\ \A u \in DOMAIN flush.users :
                  u \in DOMAIN file'.users /\ file'.users[u] = flush.users[u]
           /\ \A r \in DOMAIN flush.roles :
                  r \in DOMAIN file'.roles /\ file'.roles[r] = flush.roles[r]
           /\ DOMAIN file'.users \subseteq DOMAIN flush.users \union undeleted
           /\ DOMAIN file'.roles \subseteq DOMAIN flush.roles \union undeleted
<1> USE DEF FileInv, Types
<1>1. /\ flush \in Flushes /\ flush.on
      /\ file'.users = IF flush.full THEN flush.users ELSE Merged(file.users, flush.users)
      /\ file'.roles = IF flush.full THEN flush.roles ELSE Merged(file.roles, flush.roles)
  BY FileAfterFlush DEF FlushEnd
<1>2. CASE flush.full
  BY <1>1, <1>2
<1>3. CASE ~flush.full
  <2>1. file'.users = Merged(file.users, flush.users)
        /\ file'.roles = Merged(file.roles, flush.roles)
    BY <1>1, <1>3
  <2>2. /\ DOMAIN file'.users = (DOMAIN file.users \ flush.dels)
                                 \union (DOMAIN flush.users \intersect flush.wrote)
        /\ \A n \in DOMAIN flush.users \intersect flush.wrote :
               file'.users[n] = flush.users[n]
        /\ \A n \in (DOMAIN file.users \ flush.dels)
                     \ (DOMAIN flush.users \intersect flush.wrote) :
               file'.users[n] = file.users[n]
    BY <2>1 DEF Merged
  <2>3. /\ DOMAIN file'.roles = (DOMAIN file.roles \ flush.dels)
                                 \union (DOMAIN flush.roles \intersect flush.wrote)
        /\ \A n \in DOMAIN flush.roles \intersect flush.wrote :
               file'.roles[n] = flush.roles[n]
        /\ \A n \in (DOMAIN file.roles \ flush.dels)
                     \ (DOMAIN flush.roles \intersect flush.wrote) :
               file'.roles[n] = file.roles[n]
    BY <2>1 DEF Merged
  <2>4. /\ \A u \in DOMAIN flush.users :
               u \in DOMAIN file'.users /\ file'.users[u] = flush.users[u]
        /\ DOMAIN file'.users \subseteq DOMAIN flush.users \union undeleted
    BY <1>1, <1>3, <2>2 DEF CleanIsKept, RestIsTaken
  <2>5. /\ \A r \in DOMAIN flush.roles :
               r \in DOMAIN file'.roles /\ file'.roles[r] = flush.roles[r]
        /\ DOMAIN file'.roles \subseteq DOMAIN flush.roles \union undeleted
    BY <1>1, <1>3, <2>3 DEF CleanIsKept, RestIsTaken
  <2> QED BY <2>4, <2>5
<1> QED BY <1>2, <1>3

LEMMA FileInvEnd ==
    ASSUME RbacAssumption, Types, FileInv, FlushEnd
    PROVE  FileInv'
<1> USE DEF FileInv, Types
<1> DEFINE lost == flush.reset \ KeptDels
           snapshot == DOMAIN flush.users \union DOMAIN flush.roles
<1>1. /\ flush \in Flushes /\ flush.on /\ ~flush'.on
      /\ saved'.users = flush.users /\ saved'.roles = flush.roles
      /\ dirty' = dirty \ flush.names /\ dels' = KeptDels
      /\ file'.colls = flush.colls
      /\ UNCHANGED <<users, roles, exists>>
  BY FileAfterFlush DEF FlushEnd, NoFlush
<1>2. undeleted' = {n \in (undeleted \union lost) \intersect OnFile(file') :
                        n \in snapshot => n \in flush.gone \union lost}
  BY DEF FlushEnd
<1>3. /\ DOMAIN flush.users \subseteq User /\ DOMAIN flush.roles \subseteq Role
      /\ DOMAIN file'.users \subseteq User /\ DOMAIN file'.roles \subseteq Role
      /\ User \intersect Role = {}
  <2>1. /\ flush.users \in Partial(User, UserDoc) /\ flush.roles \in Partial(Role, Grants)
        /\ file'.users \in Partial(User, UserDoc) /\ file'.roles \in Partial(Role, Grants)
    BY <1>1, FileAfterFlush DEF Flushes, UserDocs, RoleDocs
  <2> QED BY <2>1, PartialIsFunction DEF RbacAssumption
<1>4. CleanIsOnFile(users, file.users)' /\ CleanIsOnFile(roles, file.roles)'
  BY <1>1, SnapshotLands DEF CleanIsOnFile, CleanIsSnapshot
<1>5. CleanIsKept(flush.users, file.users)' /\ CleanIsKept(flush.roles, file.roles)'
  BY <1>1 DEF CleanIsKept
<1>6. CleanIsSnapshot(users, flush.users)' /\ CleanIsSnapshot(roles, flush.roles)'
  BY <1>1 DEF CleanIsSnapshot
<1>7. /\ DOMAIN file'.users \ DOMAIN flush.users \subseteq undeleted'
      /\ DOMAIN file'.roles \ DOMAIN flush.roles \subseteq undeleted'
  BY <1>2, <1>3, SnapshotLands DEF OnFile
<1>8. RestIsDeleted(users, file.users)' /\ RestIsDeleted(roles, file.roles)'
  <2>1. ASSUME NEW u \in DOMAIN flush.users, u \notin DOMAIN users
        PROVE  u \in undeleted' \union dels'
    <3>1. u \in OnFile(file')
      BY SnapshotLands DEF OnFile
    <3>2. u \in undeleted \intersect flush.gone \/ u \in flush.reset
      BY <1>1, <2>1 DEF RestIsTaken
    <3> QED BY <1>1, <1>2, <3>1, <3>2
  <2>2. ASSUME NEW r \in DOMAIN flush.roles, r \notin DOMAIN roles
        PROVE  r \in undeleted' \union dels'
    <3>1. r \in OnFile(file')
      BY SnapshotLands DEF OnFile
    <3>2. r \in undeleted \intersect flush.gone \/ r \in flush.reset
      BY <1>1, <2>2 DEF RestIsTaken
    <3> QED BY <1>1, <1>2, <3>1, <3>2
  <2> QED BY <1>1, <1>7, <2>1, <2>2 DEF RestIsDeleted
<1>9. /\ RestIsTaken(users, flush.users, file.users)'
      /\ RestIsTaken(roles, flush.roles, file.roles)'
  BY <1>1 DEF RestIsTaken
<1>10. SavedIsOnFile(saved.users, file.users)' /\ SavedIsOnFile(saved.roles, file.roles)'
  BY <1>1, <1>7, SnapshotLands DEF SavedIsOnFile
<1>11. DelsAreRewritten'
  BY <1>1 DEF DelsAreRewritten, KeptDels
<1>12. CollsExist'
  BY <1>1 DEF CollsExist
<1> QED BY <1>4, <1>5, <1>6, <1>8, <1>9, <1>10, <1>11, <1>12

LEMMA FileInvOpen ==
    ASSUME Types, FileInv, Reopen
    PROVE  FileInv'
<1> USE DEF FileInv, Types
<1>1. /\ ~flush'.on /\ dirty' = {} /\ dels' = {} /\ exists' = file.colls
      /\ UNCHANGED <<file, saved, undeleted>>
      /\ IF "users" \in file.colls THEN users' = file.users ELSE DOMAIN users' = {}
      /\ IF "roles" \in file.colls THEN roles' = file.roles ELSE DOMAIN roles' = {}
  BY MemoryAfterOpen DEF Reopen, NoFlush
<1>2. CleanIsOnFile(users, file.users)' /\ CleanIsOnFile(roles, file.roles)'
  BY <1>1 DEF CleanIsOnFile
<1>3. CleanIsKept(flush.users, file.users)' /\ CleanIsKept(flush.roles, file.roles)'
  BY <1>1 DEF CleanIsKept
<1>4. CleanIsSnapshot(users, flush.users)' /\ CleanIsSnapshot(roles, flush.roles)'
  BY <1>1 DEF CleanIsSnapshot
<1>5. RestIsDeleted(users, file.users)' /\ RestIsDeleted(roles, file.roles)'
  BY <1>1 DEF RestIsDeleted, SavedIsOnFile, CollsExist
<1>6. /\ RestIsTaken(users, flush.users, file.users)'
      /\ RestIsTaken(roles, flush.roles, file.roles)'
  BY <1>1 DEF RestIsTaken
<1>7. SavedIsOnFile(saved.users, file.users)' /\ SavedIsOnFile(saved.roles, file.roles)'
  BY <1>1 DEF SavedIsOnFile
<1>8. DelsAreRewritten'
  BY <1>1 DEF DelsAreRewritten
<1>9. CollsExist'
  BY <1>1 DEF CollsExist
<1> QED BY <1>2, <1>3, <1>4, <1>5, <1>6, <1>7, <1>8, <1>9

\* The entries after each of the calls.
LEMMA CreatedRole ==
    ASSUME NEW r \in Role, NEW g \in Grants, CreateRole(r, g)
    PROVE  /\ DOMAIN roles' = DOMAIN roles \union {r}
           /\ \A x \in DOMAIN roles \ {r} : roles'[x] = roles[x]
<1>1. roles' = With(roles, r, g)
  BY DEF CreateRole
<1> QED BY <1>1 DEF With

LEMMA CreatedUser ==
    ASSUME NEW u \in User, NEW rs \in SUBSET Role, CreateUser(u, rs)
    PROVE  /\ DOMAIN users' = DOMAIN users \union {u}
           /\ users'[u].roles = rs
           /\ \A x \in DOMAIN users \ {u} : users'[x] = users[x]
<1> DEFINE d == [pw |-> NewPassword, roles |-> rs]
<1>1. users' = With(users, u, d)
  BY DEF CreateUser
<1>2. d.roles = rs
  OBVIOUS
<1> HIDE DEF d
<1>3. /\ DOMAIN users' = DOMAIN users \union {u}
      /\ users'[u] = d
      /\ \A x \in DOMAIN users \ {u} : users'[x] = users[x]
  BY <1>1 DEF With
<1> QED BY <1>2, <1>3

LEMMA ChangedRoles ==
    ASSUME StoreTypes, NEW u \in User, NEW rs \in SUBSET Role, SetUserRoles(u, rs)
    PROVE  /\ u \in DOMAIN users /\ DOMAIN users' = DOMAIN users
           /\ users'[u].pw = users[u].pw /\ users'[u].roles = rs
           /\ \A x \in DOMAIN users \ {u} : users'[x] = users[x]
<1>1. users[u] \in UserDoc
  BY DocsAreTyped DEF SetUserRoles
<1>2. users' = [users EXCEPT ![u] = [users[u] EXCEPT !.roles = rs]] /\ u \in DOMAIN users
  BY DEF SetUserRoles
<1> QED BY <1>1, <1>2 DEF UserDoc

LEMMA ChangedPassword ==
    ASSUME StoreTypes, NEW u \in User, ChangePassword(u)
    PROVE  /\ u \in DOMAIN users /\ DOMAIN users' = DOMAIN users
           /\ users'[u].roles = users[u].roles
           /\ \A x \in DOMAIN users \ {u} : users'[x] = users[x]
<1>1. users[u] \in UserDoc
  BY DocsAreTyped DEF ChangePassword
<1>2. /\ users' = [users EXCEPT ![u] = [users[u] EXCEPT !.pw = NewPassword]]
      /\ u \in DOMAIN users
  BY DEF ChangePassword
<1> QED BY <1>1, <1>2 DEF UserDoc

LEMMA FileInvAdmin ==
    ASSUME RbacAssumption, Types, FileInv,
           \/ \E r \in Role, g \in Grants : CreateRole(r, g)
           \/ \E u \in User, rs \in SUBSET Role : CreateUser(u, rs) \/ SetUserRoles(u, rs)
           \/ \E u \in User : ChangePassword(u) \/ DeleteUser(u)
           \/ \E r \in Role : DeleteRole(r)
           \/ ResetAuth
    PROVE  FileInv'
<1> USE DEF Types, Admin
<1>0. CollsExist /\ StoreTypes
  BY DEF FileInv
<1>1. ASSUME NEW r \in Role, NEW g \in Grants, CreateRole(r, g)
      PROVE  FileInv'
  <2>1. r \notin DOMAIN users
    BY DocsAreTyped DEF RbacAssumption
  <2>2. /\ DOMAIN roles' = DOMAIN roles \union {r}
        /\ \A x \in DOMAIN roles \ {r} : roles'[x] = roles[x]
    BY <1>1, CreatedRole
  <2>3. /\ UNCHANGED <<users, file, saved, dels, undeleted>>
        /\ Mutated(r) /\ exists' = exists \union {"roles"}
    BY <1>1 DEF CreateRole
  <2> QED BY <1>0, <2>1, <2>2, <2>3, FileInvMutated DEF CollsExist
<1>2. ASSUME NEW u \in User, NEW rs \in SUBSET Role, CreateUser(u, rs)
      PROVE  FileInv'
  <2>1. u \notin DOMAIN roles
    BY DocsAreTyped DEF RbacAssumption
  <2>2. /\ DOMAIN users' = DOMAIN users \union {u}
        /\ \A x \in DOMAIN users \ {u} : users'[x] = users[x]
    BY <1>2, CreatedUser
  <2>3. /\ UNCHANGED <<roles, file, saved, dels, undeleted>>
        /\ Mutated(u) /\ exists' = exists \union {"users"}
    BY <1>2 DEF CreateUser
  <2> QED BY <1>0, <2>1, <2>2, <2>3, FileInvMutated DEF CollsExist
<1>3. ASSUME NEW u \in User, NEW rs \in SUBSET Role, SetUserRoles(u, rs) \/ ChangePassword(u)
      PROVE  FileInv'
  <2>1. u \notin DOMAIN roles
    BY DocsAreTyped DEF RbacAssumption
  <2>2. /\ u \in DOMAIN users /\ DOMAIN users' = DOMAIN users
        /\ \A x \in DOMAIN users \ {u} : users'[x] = users[x]
    BY <1>3, ChangedRoles, ChangedPassword
  <2>3. /\ UNCHANGED <<roles, exists, file, saved, dels, undeleted>>
        /\ Mutated(u)
    BY <1>3 DEF SetUserRoles, ChangePassword
  <2> QED BY <1>0, <2>1, <2>2, <2>3, FileInvMutated DEF CollsExist
<1>4. ASSUME NEW u \in User, DeleteUser(u)
      PROVE  FileInv'
  <2>1. u \notin DOMAIN roles
    BY DocsAreTyped DEF RbacAssumption
  <2>2. /\ users' = Without(users, u) /\ Gone(u)
        /\ UNCHANGED <<roles, exists, file, saved, dels>>
    BY <1>4 DEF DeleteUser
  <2>3. /\ DOMAIN users' = DOMAIN users \ {u}
        /\ \A x \in DOMAIN users \ {u} : users'[x] = users[x]
    BY <2>2 DEF Without
  <2> QED BY <2>1, <2>2, <2>3, FileInvGone
<1>5. ASSUME NEW r \in Role, DeleteRole(r)
      PROVE  FileInv'
  <2>1. r \notin DOMAIN users
    BY DocsAreTyped DEF RbacAssumption
  <2>2. /\ roles' = Without(roles, r) /\ Gone(r)
        /\ UNCHANGED <<users, exists, file, saved, dels>>
    BY <1>5 DEF DeleteRole
  <2>3. /\ DOMAIN roles' = DOMAIN roles \ {r}
        /\ \A x \in DOMAIN roles \ {r} : roles'[x] = roles[x]
    BY <2>2 DEF Without
  <2> QED BY <2>1, <2>2, <2>3, FileInvGone
<1>6. CASE ResetAuth
  BY <1>6, FileInvReset
<1> QED BY <1>1, <1>2, <1>3, <1>4, <1>5, <1>6

LEMMA FileInvSame ==
    ASSUME FileInv,
           UNCHANGED <<users, roles, exists, dirty, dels, undeleted, file, flush, saved>>
    PROVE  FileInv'
BY DEF FileInv, CleanIsOnFile, CleanIsKept, CleanIsSnapshot, RestIsDeleted, RestIsTaken,
       SavedIsOnFile, DelsAreRewritten, CollsExist

LEMMA FileInvNext ==
    ASSUME RbacAssumption, Types, FileInv, [Next]_vars
    PROVE  FileInv'
<1>1. CASE UNCHANGED vars
  BY <1>1, FileInvSame DEF vars, ents
<1>2. ASSUME NEW u \in User, VerifyFails(u) \/ Evict(u)
      PROVE  FileInv'
  BY <1>2, FileInvSame DEF VerifyFails, Evict, Still
<1>3. ASSUME NEW c \in Client, NEW u \in User, Verify(c, u)
      PROVE  FileInv'
  BY <1>3, FileInvSame DEF Verify, Still
<1>4. ASSUME NEW c \in Client, Resolve(c) \/ Register(c) \/ Expire(c) \/ Revoke(c)
      PROVE  FileInv'
  BY <1>4, FileInvSame DEF Resolve, Register, Expire, Revoke, Still, ents
<1>5. ASSUME NEW c \in Client, WriteWaits(c) \/ WriteAtOnce(c) \/ WriteResumes(c)
      PROVE  FileInv'
  BY <1>5, FileInvSame DEF WriteWaits, WriteAtOnce, WriteResumes, Still, ents
<1> QED BY <1>1, <1>2, <1>3, <1>4, <1>5, FileInvAdmin, FileInvBegin, FileInvEnd, FileInvOpen
           DEF Next

LEMMA FileInvInit ==
    ASSUME Init
    PROVE  FileInv
<1>1. DOMAIN Empty = {}
  BY EmptyPartial
<1> QED BY <1>1 DEF Init, NoFlush, FileInv, CleanIsOnFile, CleanIsKept, CleanIsSnapshot,
           RestIsDeleted, RestIsTaken, SavedIsOnFile, DelsAreRewritten, CollsExist

-----------------------------------------------------------------------------
(* Sessions, roles and permissions                                         *)

LEMMA TypesGiveTypeOK ==
    ASSUME Types
    PROVE  TypeOK
<1>1. StoreTypes
  BY DEF Types
<1>2. \A c \in Client : Registered(c) => sess[c].user \in User
  BY DEF Types, ClientTypes, Registered, Sessions
<1>3. \A u \in DOMAIN users : users[u].roles \subseteq Role
  BY <1>1, DocsAreTyped DEF UserDoc
<1> QED BY <1>1, <1>2, <1>3, DocsAreTyped DEF StoreTypes, TypeOK, Colls

\* A fault that the store has run into is not forgotten.
LEMMA ExposedGrows ==
    ASSUME [Next]_vars
    PROVE  exposed \subseteq exposed'
<1>1. CASE UNCHANGED vars
  BY <1>1 DEF vars
<1>2. CASE Next
  <2>1. ASSUME NEW r \in Role, NEW g \in Grants, CreateRole(r, g)
        PROVE  exposed \subseteq exposed'
    BY <2>1 DEF CreateRole
  <2>2. ASSUME NEW u \in User, NEW rs \in SUBSET Role, CreateUser(u, rs) \/ SetUserRoles(u, rs)
        PROVE  exposed \subseteq exposed'
    BY <2>2 DEF CreateUser, SetUserRoles
  <2>3. ASSUME NEW u \in User,
               ChangePassword(u) \/ DeleteUser(u) \/ VerifyFails(u) \/ Evict(u)
        PROVE  exposed \subseteq exposed'
    BY <2>3 DEF ChangePassword, DeleteUser, VerifyFails, Evict
  <2>4. ASSUME NEW r \in Role, DeleteRole(r)
        PROVE  exposed \subseteq exposed'
    BY <2>4 DEF DeleteRole
  <2>5. ASSUME NEW c \in Client, NEW u \in User, Verify(c, u)
        PROVE  exposed \subseteq exposed'
    BY <2>5 DEF Verify
  <2>6. ASSUME NEW c \in Client, Resolve(c) \/ Register(c) \/ Expire(c) \/ Revoke(c)
        PROVE  exposed \subseteq exposed'
    BY <2>6 DEF Resolve, Register, Expire, Revoke
  <2>7. ASSUME NEW c \in Client, WriteWaits(c) \/ WriteAtOnce(c) \/ WriteResumes(c)
        PROVE  exposed \subseteq exposed'
    BY <2>7 DEF WriteWaits, WriteAtOnce, WriteResumes
  <2>8. ASSUME NEW compact \in BOOLEAN, NEW others \in BOOLEAN, FlushBegin(compact, others)
        PROVE  exposed \subseteq exposed'
    BY <2>8 DEF FlushBegin
  <2>9. ASSUME ResetAuth \/ FlushEnd \/ Reopen
        PROVE  exposed \subseteq exposed'
    BY <2>9 DEF ResetAuth, FlushEnd, Reopen
  <2> QED BY <1>2, <2>1, <2>2, <2>3, <2>4, <2>5, <2>6, <2>7, <2>8, <2>9 DEF Next
<1> QED BY <1>1, <1>2

\* A session is closed, or its user keeps the password.
LEMMA PasswordsNext ==
    ASSUME Types, SessionsMatchPasswords, [Next]_vars,
           exposed' \intersect {"late", "outlived"} = {},
           NEW c \in Client, Registered(c)'
    PROVE  /\ sess'[c].user \in DOMAIN users'
           /\ sess'[c].pw = users'[sess'[c].user].pw
<1> USE DEF Types
<1>1. \A d \in Client : Registered(d) =>
          sess[d].user \in DOMAIN users /\ sess[d].pw = users[sess[d].user].pw
  BY ExposedGrows DEF SessionsMatchPasswords
<1>2. UNCHANGED <<users, sess>> => 
          /\ sess'[c].user \in DOMAIN users'
          /\ sess'[c].pw = users'[sess'[c].user].pw
  BY <1>1 DEF Registered
<1>3. ASSUME NEW u \in User, NEW rs \in SUBSET Role, CreateUser(u, rs)
      PROVE  /\ sess'[c].user \in DOMAIN users'
             /\ sess'[c].pw = users'[sess'[c].user].pw
  <2>1. sess' = sess /\ u \notin DOMAIN users
    BY <1>3 DEF CreateUser, clients
  <2>2. sess[c].user \in DOMAIN users /\ sess[c].pw = users[sess[c].user].pw
    BY <1>1, <2>1 DEF Registered
  <2>3. sess[c].user \in DOMAIN users' /\ users'[sess[c].user] = users[sess[c].user]
    BY <1>3, <2>1, <2>2, CreatedUser
  <2> QED BY <2>1, <2>2, <2>3
<1>4. ASSUME NEW u \in User, NEW rs \in SUBSET Role, SetUserRoles(u, rs)
      PROVE  /\ sess'[c].user \in DOMAIN users'
             /\ sess'[c].pw = users'[sess'[c].user].pw
  <2>1. sess' = sess
    BY <1>4 DEF SetUserRoles, clients
  <2> QED BY <1>1, <1>4, <2>1, ChangedRoles DEF Registered
<1>5. ASSUME NEW u \in User, ChangePassword(u)
      PROVE  /\ sess'[c].user \in DOMAIN users'
             /\ sess'[c].pw = users'[sess'[c].user].pw
  <2>1. sess'[c] = sess[c] /\ Registered(c) /\ sess[c].user # u
    BY <1>5 DEF ChangePassword, Revoked, Registered
  <2> QED BY <1>1, <1>5, <2>1, ChangedPassword
<1>6. ASSUME NEW u \in User, DeleteUser(u)
      PROVE  /\ sess'[c].user \in DOMAIN users'
             /\ sess'[c].pw = users'[sess'[c].user].pw
  <2>1. sess' = sess /\ users' = Without(users, u)
    BY <1>6 DEF DeleteUser, clients
  <2>2. sess[c].user # u
    BY <1>6 DEF DeleteUser
  <2> QED BY <1>1, <2>1, <2>2 DEF Without, Registered
<1>7. ASSUME ResetAuth \/ Reopen
      PROVE  FALSE
  BY <1>7 DEF ResetAuth, Reopen, Registered
<1>8. ASSUME NEW d \in Client, Register(d)
      PROVE  /\ sess'[c].user \in DOMAIN users'
             /\ sess'[c].pw = users'[sess'[c].user].pw
  <2>1. users' = users
    BY <1>8 DEF Register, ents
  <2>2. CASE c = d
    <3>1. login[d].user \in DOMAIN users /\ users[login[d].user].pw = login[d].pw
      BY <1>8 DEF Register
    <3>2. sess'[c].user = login[d].user /\ sess'[c].pw = login[d].pw
      BY <1>8, <2>2 DEF Register
    <3> QED BY <2>1, <3>1, <3>2
  <2>3. CASE c # d
    <3>1. sess'[c] = sess[c] /\ Registered(c)
      BY <1>8, <2>3 DEF Register, Registered
    <3> QED BY <1>1, <2>1, <3>1
  <2> QED BY <2>2, <2>3
<1>9. ASSUME NEW d \in Client, Expire(d)
      PROVE  /\ sess'[c].user \in DOMAIN users'
             /\ sess'[c].pw = users'[sess'[c].user].pw
  <2>1. users' = users
    BY <1>9 DEF Expire, ents
  <2>2. /\ Registered(c)
        /\ sess'[c].user = sess[c].user /\ sess'[c].pw = sess[c].pw
    <3>1. sess[d] \in Sessions
      BY <1>9 DEF Expire, Registered, ClientTypes
    <3>2. sess' = [sess EXCEPT ![d] = [sess[d] EXCEPT !.expired = TRUE]]
      BY <1>9 DEF Expire
    <3>3. CASE c = d
      BY <1>9, <3>1, <3>2, <3>3 DEF Expire, Sessions, ClientTypes
    <3>4. CASE c # d
      BY <3>2, <3>4 DEF ClientTypes, Registered
    <3> QED BY <3>3, <3>4
  <2> QED BY <1>1, <2>1, <2>2
<1>10. ASSUME NEW d \in Client, Revoke(d)
      PROVE  /\ sess'[c].user \in DOMAIN users'
             /\ sess'[c].pw = users'[sess'[c].user].pw
  <2>1. users' = users /\ sess'[c] = sess[c] /\ Registered(c)
    BY <1>10 DEF Revoke, ents, Registered, ClientTypes
  <2> QED BY <1>1, <2>1
<1>11. CASE UNCHANGED vars
  BY <1>2, <1>11 DEF vars, ents, clients
<1>12. ASSUME NEW r \in Role, (\E g \in Grants : CreateRole(r, g)) \/ DeleteRole(r)
       PROVE  UNCHANGED <<users, sess>>
  BY <1>12 DEF CreateRole, DeleteRole, clients
<1>13. ASSUME NEW u \in User, VerifyFails(u) \/ Evict(u) \/ \E d \in Client : Verify(d, u)
       PROVE  UNCHANGED <<users, sess>>
  BY <1>13 DEF VerifyFails, Evict, Verify, clients
<1>14. ASSUME NEW d \in Client,
              Resolve(d) \/ WriteWaits(d) \/ WriteAtOnce(d) \/ WriteResumes(d)
       PROVE  UNCHANGED <<users, sess>>
  BY <1>14 DEF Resolve, WriteWaits, WriteAtOnce, WriteResumes, ents
<1>15. ASSUME FlushEnd \/ \E compact, others \in BOOLEAN : FlushBegin(compact, others)
       PROVE  UNCHANGED <<users, sess>>
  BY <1>15 DEF FlushEnd, FlushBegin, ents, clients
<1> QED BY <1>2, <1>3, <1>4, <1>5, <1>6, <1>7, <1>8, <1>9, <1>10, <1>11, <1>12, <1>13,
           <1>14, <1>15 DEF Next

\* The snapshot of the flush that runs, and what was saved, are not touched by a call.
LEMMA SnapshotsStay ==
    ASSUME Types,
           \/ \E r \in Role, g \in Grants : CreateRole(r, g)
           \/ \E u \in User, rs \in SUBSET Role : CreateUser(u, rs) \/ SetUserRoles(u, rs)
           \/ \E u \in User : ChangePassword(u) \/ DeleteUser(u)
           \/ \E r \in Role : DeleteRole(r)
           \/ ResetAuth
    PROVE  SnapshotStays /\ saved' = saved
<1> USE DEF Admin, Types
<1>1. ASSUME NEW r \in Role, NEW g \in Grants, CreateRole(r, g) \/ DeleteRole(r)
      PROVE  SnapshotStays /\ saved' = saved
  BY <1>1, MutatedFlush, GoneFlush DEF CreateRole, DeleteRole
<1>2. ASSUME NEW r \in Role, DeleteRole(r)
      PROVE  SnapshotStays /\ saved' = saved
  BY <1>2, GoneFlush DEF DeleteRole
<1>3. ASSUME NEW u \in User, NEW rs \in SUBSET Role, CreateUser(u, rs) \/ SetUserRoles(u, rs)
      PROVE  SnapshotStays /\ saved' = saved
  BY <1>3, MutatedFlush DEF CreateUser, SetUserRoles
<1>4. ASSUME NEW u \in User, ChangePassword(u) \/ DeleteUser(u)
      PROVE  SnapshotStays /\ saved' = saved
  BY <1>4, MutatedFlush, GoneFlush DEF ChangePassword, DeleteUser
<1>5. ASSUME ResetAuth
      PROVE  SnapshotStays /\ saved' = saved
  <2>1. CASE flush.on
    <3>1. flush \in Flushes
      BY <2>1, FlushIsTyped DEF StoreTypes
    <3>2. flush' = [flush EXCEPT !.names = @ \ (DOMAIN users \union DOMAIN roles),
                                 !.clean = FALSE,
                                 !.reset = @ \union (DOMAIN users \union DOMAIN roles)]
      BY <1>5, <2>1 DEF ResetAuth
    <3>3. SnapshotStays
      BY <3>1, <3>2 DEF Flushes, SnapshotStays
    <3> QED BY <1>5, <3>3 DEF ResetAuth
  <2>2. CASE ~flush.on
    BY <1>5, <2>2 DEF ResetAuth, SnapshotStays
  <2> QED BY <2>1, <2>2
<1> QED BY <1>1, <1>2, <1>3, <1>4, <1>5

\* What Open makes of a file whose records all have their DELs.
LEMMA OpenIsSaved ==
    ASSUME Types, FileInv, Reopen
    PROVE  /\ \A u \in DOMAIN saved.users : u \in DOMAIN users' /\ users'[u] = saved.users[u]
           /\ \A r \in DOMAIN saved.roles : r \in DOMAIN roles' /\ roles'[r] = saved.roles[r]
           /\ DOMAIN users' \subseteq DOMAIN saved.users \union undeleted
           /\ DOMAIN roles' \subseteq DOMAIN saved.roles \union undeleted
<1>1. /\ IF "users" \in file.colls THEN users' = file.users ELSE DOMAIN users' = {}
      /\ IF "roles" \in file.colls THEN roles' = file.roles ELSE DOMAIN roles' = {}
  BY MemoryAfterOpen DEF Types
<1>2. /\ SavedIsOnFile(saved.users, file.users)
      /\ SavedIsOnFile(saved.roles, file.roles)
      /\ CollsExist
  BY DEF FileInv
<1> QED BY <1>1, <1>2 DEF SavedIsOnFile, CollsExist

LEMMA RolesNext ==
    ASSUME Types, FileInv, RolesEverywhere, [Next]_vars
    PROVE  RolesEverywhere'
<1> SUFFICES ASSUME exposed' \intersect {"cold", "back"} = {}
             PROVE  /\ Closed(users, roles)'
                    /\ flush'.on => Closed(flush.users, flush.roles)'
                    /\ Closed(saved.users, saved.roles)'
  BY DEF RolesEverywhere
<1>0. /\ Closed(users, roles)
      /\ flush.on => Closed(flush.users, flush.roles)
      /\ Closed(saved.users, saved.roles)
  BY ExposedGrows DEF RolesEverywhere
<1> DEFINE R == /\ Closed(users, roles)'
                /\ flush'.on => Closed(flush.users, flush.roles)'
                /\ Closed(saved.users, saved.roles)'
<1>1. SnapshotStays /\ saved' = saved =>
          /\ flush'.on => Closed(flush.users, flush.roles)'
          /\ Closed(saved.users, saved.roles)'
  BY <1>0 DEF SnapshotStays, Closed
<1>2. UNCHANGED <<users, roles, flush, saved>> => R
  BY <1>0 DEF Closed
<1>3. ASSUME NEW r \in Role, NEW g \in Grants, CreateRole(r, g)
      PROVE  R
  <2>1. users' = users /\ DOMAIN roles' = DOMAIN roles \union {r}
    BY <1>3, CreatedRole DEF CreateRole
  <2>2. Closed(users, roles)'
    BY <1>0, <2>1 DEF Closed
  <2> QED BY <1>1, <1>3, <2>2, SnapshotsStay
<1>4. ASSUME NEW u \in User, NEW rs \in SUBSET Role, CreateUser(u, rs) \/ SetUserRoles(u, rs)
      PROVE  R
  <2>1. /\ roles' = roles /\ rs \subseteq DOMAIN roles
        /\ DOMAIN users' = DOMAIN users \union {u}
        /\ users'[u].roles = rs
        /\ \A x \in DOMAIN users \ {u} : users'[x] = users[x]
    <3>1. roles' = roles /\ rs \subseteq DOMAIN roles
      BY <1>4 DEF CreateUser, SetUserRoles, RolesAreThere
    <3>2. CASE CreateUser(u, rs)
      BY <3>1, <3>2, CreatedUser
    <3>3. CASE SetUserRoles(u, rs)
      BY <3>1, <3>3, ChangedRoles DEF Types
    <3> QED BY <1>4, <3>2, <3>3
  <2>2. Closed(users, roles)'
    BY <1>0, <2>1 DEF Closed
  <2> QED BY <1>1, <1>4, <2>2, SnapshotsStay
<1>5. ASSUME NEW u \in User, ChangePassword(u)
      PROVE  R
  <2>1. roles' = roles
    BY <1>5 DEF ChangePassword
  <2>2. Closed(users, roles)'
    BY <1>0, <1>5, <2>1, ChangedPassword DEF Closed, Types
  <2> QED BY <1>1, <1>5, <2>2, SnapshotsStay
<1>6. ASSUME NEW u \in User, DeleteUser(u)
      PROVE  R
  <2>1. roles' = roles /\ users' = Without(users, u)
    BY <1>6 DEF DeleteUser
  <2>2. Closed(users, roles)'
    BY <1>0, <2>1 DEF Closed, Without
  <2> QED BY <1>1, <1>6, <2>2, SnapshotsStay
<1>7. ASSUME NEW r \in Role, DeleteRole(r)
      PROVE  R
  <2>1. users' = users /\ roles' = Without(roles, r)
    BY <1>7 DEF DeleteRole
  <2>2. \A u \in DOMAIN users : r \notin users[u].roles
    BY <1>7 DEF DeleteRole
  <2>3. Closed(users, roles)'
    BY <1>0, <2>1, <2>2 DEF Closed, Without
  <2> QED BY <1>1, <1>7, <2>3, SnapshotsStay
<1>8. ASSUME ResetAuth
      PROVE  R
  <2>1. Closed(users, roles)'
    BY <1>8, EmptyPartial DEF ResetAuth, Closed
  <2> QED BY <1>1, <1>8, <2>1, SnapshotsStay
<1>9. ASSUME \E compact, others \in BOOLEAN : FlushBegin(compact, others)
      PROVE  R
  <2>1. /\ flush'.users = users /\ flush'.roles = roles
        /\ UNCHANGED <<users, roles, saved>>
    BY <1>9 DEF FlushBegin, ents
  <2> QED BY <1>0, <2>1 DEF Closed
<1>10. ASSUME FlushEnd
       PROVE  R
  <2>1. /\ flush.on /\ ~flush'.on
        /\ saved'.users = flush.users /\ saved'.roles = flush.roles
        /\ UNCHANGED <<users, roles>>
    BY <1>10 DEF FlushEnd, NoFlush
  <2> QED BY <1>0, <2>1 DEF Closed
<1>11. ASSUME Reopen
       PROVE  R
  <2>1. ~flush'.on /\ saved' = saved
    BY <1>11 DEF Reopen, NoFlush
  <2>2. (DOMAIN users' \union DOMAIN roles') \intersect undeleted = {}
    BY <1>11 DEF Reopen
  <2>3. /\ \A u \in DOMAIN users' : u \in DOMAIN saved.users /\ users'[u] = saved.users[u]
        /\ DOMAIN saved.roles \subseteq DOMAIN roles'
    BY <1>11, <2>2, OpenIsSaved
  <2> QED BY <1>0, <2>1, <2>3 DEF Closed
<1>12. ASSUME UNCHANGED vars
       PROVE  R
  BY <1>2, <1>12 DEF vars, ents
<1>13. ASSUME NEW u \in User, VerifyFails(u) \/ Evict(u) \/ \E d \in Client : Verify(d, u)
       PROVE  R
  BY <1>2, <1>13 DEF VerifyFails, Evict, Verify, Still
<1>14. ASSUME NEW d \in Client, Resolve(d) \/ Register(d) \/ Expire(d) \/ Revoke(d)
       PROVE  R
  BY <1>2, <1>14 DEF Resolve, Register, Expire, Revoke, Still, ents
<1>15. ASSUME NEW d \in Client, WriteWaits(d) \/ WriteAtOnce(d) \/ WriteResumes(d)
       PROVE  R
  BY <1>2, <1>15 DEF WriteWaits, WriteAtOnce, WriteResumes, Still, ents
<1> HIDE DEF R
<1>16. R
  BY <1>3, <1>4, <1>5, <1>6, <1>7, <1>8, <1>9, <1>10, <1>11, <1>12, <1>13,
     <1>14, <1>15 DEF Next
<1> QED BY <1>16 DEF R

\* What a user may do now was given, and what a session may do is what its user
\* may do when Authenticate resolves it.
LEMMA GrantsNext ==
    ASSUME Types, GrantsEverywhere, GrantsWereGiven, [Next]_vars
    PROVE  GrantsEverywhere' /\ GrantsWereGiven'
<1> USE DEF Types
<1> DEFINE Resolutions ==
               \A c \in Client : login'[c].pc = "resolved" =>
                   login'[c].grants \subseteq given'[login'[c].user]
           SessionsKept ==
               \A c \in Client : Registered(c)' =>
                   /\ Registered(c)
                   /\ sess'[c].user = sess[c].user /\ sess'[c].grants = sess[c].grants
           SessionsGiven ==
               \A c \in Client : Registered(c)' =>
                   sess'[c].grants \subseteq given'[sess'[c].user]
<1>1. Given \/ UNCHANGED <<users, roles, given>>
  BY DEF Next, vars, ents, CreateRole, CreateUser, SetUserRoles, ChangePassword, DeleteUser,
         VerifyFails, Evict, DeleteRole, ResetAuth, Verify, Resolve, Register, Expire,
         Revoke, WriteWaits, WriteAtOnce, WriteResumes, FlushBegin, FlushEnd, Reopen
<1>2. \A u \in User : given[u] \subseteq given'[u]
  BY <1>1 DEF Given
<1>3. \A u \in User : NowGiven(users', roles')[u] \subseteq given'[u]
  <2>1. CASE Given
    BY <2>1 DEF Given
  <2>2. CASE UNCHANGED <<users, roles, given>>
    BY <2>2 DEF GrantsEverywhere
  <2> QED BY <1>1, <2>1, <2>2
<1>4. ASSUME "mixed" \notin exposed'
      PROVE  "mixed" \notin exposed
  BY <1>4, ExposedGrows
<1>5. ASSUME "mixed" \notin exposed', login' = login
      PROVE  Resolutions
  BY <1>2, <1>4, <1>5 DEF GrantsEverywhere, ClientTypes, Logins, NoLogin
<1>6. ASSUME "mixed" \notin exposed', SessionsKept
      PROVE  SessionsGiven
  BY <1>2, <1>4, <1>6 DEF GrantsWereGiven, ClientTypes, Sessions, Registered
<1>7. ASSUME "mixed" \notin exposed', NEW c \in Client, NEW u \in User, Verify(c, u)
      PROVE  Resolutions /\ SessionsKept
  <2>1. /\ login'[c].pc = "verified"
        /\ \A d \in Client \ {c} : login'[d] = login[d]
        /\ sess' = sess
    BY <1>7 DEF Verify, ClientTypes
  <2>2. Resolutions
    BY <1>2, <1>4, <1>7, <2>1 DEF GrantsEverywhere, ClientTypes, Logins, NoLogin
  <2> QED BY <2>1, <2>2 DEF Registered
<1>8. ASSUME "mixed" \notin exposed', NEW c \in Client, Resolve(c)
      PROVE  Resolutions /\ SessionsKept
  <2>1. login[c] \in Logins
    BY <1>8 DEF Resolve, ClientTypes, NoLogin
  <2>2. /\ login'[c].user = login[c].user /\ login'[c].grants = Resolved(login[c].roles)
        /\ \A d \in Client \ {c} : login'[d] = login[d]
        /\ sess' = sess
    <3>1. login' = [login EXCEPT ![c] =
              [login[c] EXCEPT !.pc = "resolved", !.grants = Resolved(login[c].roles)]]
      BY <1>8, <2>1 DEF Resolve, ClientTypes
    <3> QED BY <1>8, <2>1, <3>1 DEF Resolve, ClientTypes, Logins
  <2>3. /\ login[c].user \in User /\ login[c].user \in DOMAIN users
        /\ users[login[c].user].roles = login[c].roles
    BY <1>8, <2>1 DEF Resolve, Logins
  <2>4. Resolved(login[c].roles) = NowGiven(users, roles)[login[c].user]
    BY <2>3 DEF Resolved, NowGiven
  <2>5. login'[c].grants \subseteq given'[login'[c].user]
    BY <1>2, <2>2, <2>3, <2>4 DEF GrantsEverywhere
  <2>6. Resolutions
    BY <1>2, <1>4, <1>8, <2>2, <2>5 DEF GrantsEverywhere, ClientTypes, Logins, NoLogin
  <2> QED BY <2>2, <2>6 DEF Registered
<1>9. ASSUME "mixed" \notin exposed', NEW c \in Client, Register(c)
      PROVE  Resolutions /\ SessionsGiven
  <2>1. login[c] \in Logins /\ login[c].pc = "resolved"
    BY <1>9 DEF Register, ClientTypes, NoLogin
  <2>2. /\ login'[c].pc = "idle"
        /\ \A d \in Client \ {c} : login'[d] = login[d]
    BY <1>9 DEF Register, ClientTypes, NoLogin
  <2>3. Resolutions
    BY <1>2, <1>4, <1>9, <2>2 DEF GrantsEverywhere, ClientTypes, Logins, NoLogin
  <2>4. sess'[c].user = login[c].user /\ sess'[c].grants = login[c].grants
    BY <1>9 DEF Register
  <2>5. sess'[c].grants \subseteq given'[sess'[c].user]
    BY <1>2, <1>4, <1>9, <2>1, <2>4 DEF GrantsEverywhere, Logins
  <2>6. \A d \in Client \ {c} : Registered(d)' => Registered(d) /\ sess'[d] = sess[d]
    BY <1>9 DEF Register, Registered
  <2>7. SessionsGiven
    BY <1>2, <1>4, <1>9, <2>5, <2>6 DEF GrantsWereGiven, ClientTypes, Sessions, Registered
  <2> QED BY <2>3, <2>7
<1>10. ASSUME NEW c \in Client, Expire(c)
       PROVE  login' = login /\ SessionsKept
  <2>1. sess[c] \in Sessions
    BY <1>10 DEF Expire, Registered, ClientTypes
  <2>2. sess' = [sess EXCEPT ![c] = [sess[c] EXCEPT !.expired = TRUE]]
    BY <1>10 DEF Expire
  <2>3. /\ sess'[c].user = sess[c].user /\ sess'[c].grants = sess[c].grants
        /\ \A d \in Client \ {c} : sess'[d] = sess[d]
    BY <2>1, <2>2 DEF Sessions, ClientTypes
  <2> QED BY <1>10, <2>3 DEF Expire, Registered
<1>11. ASSUME NEW c \in Client, Revoke(c)
       PROVE  login' = login /\ SessionsKept
  BY <1>11 DEF Revoke, Registered, ClientTypes
<1>12. ASSUME NEW u \in User, ChangePassword(u)
       PROVE  login' = login /\ SessionsKept
  BY <1>12 DEF ChangePassword, Revoked, Registered
<1>13. ASSUME ResetAuth
       PROVE  login' = login /\ SessionsKept
  BY <1>13 DEF ResetAuth, Registered
<1>14. ASSUME Reopen
       PROVE  Resolutions /\ SessionsKept
  BY <1>14 DEF Reopen, Registered, NoLogin
<1>15. ASSUME UNCHANGED <<login, sess>>
       PROVE  login' = login /\ SessionsKept
  BY <1>15 DEF Registered
<1>16. \/ UNCHANGED <<login, sess>>
       \/ \E c \in Client, u \in User : Verify(c, u)
       \/ \E c \in Client : Resolve(c) \/ Register(c) \/ Expire(c) \/ Revoke(c)
       \/ \E u \in User : ChangePassword(u)
       \/ ResetAuth
       \/ Reopen
  BY DEF Next, vars, clients, CreateRole, CreateUser, SetUserRoles, DeleteUser, VerifyFails,
         Evict, DeleteRole, WriteWaits, WriteAtOnce, WriteResumes, FlushBegin, FlushEnd
<1> HIDE DEF Resolutions, SessionsKept, SessionsGiven
<1>17. ASSUME "mixed" \notin exposed'
       PROVE  Resolutions /\ SessionsGiven
  BY <1>5, <1>6, <1>7, <1>8, <1>9, <1>10, <1>11, <1>12, <1>13, <1>14, <1>15, <1>16, <1>17
<1> QED BY <1>3, <1>17 DEF GrantsEverywhere, GrantsWereGiven, Resolutions, SessionsGiven

-----------------------------------------------------------------------------
(* The theorems                                                            *)

LEMMA RInvInit ==
    Init => RInv
<1> SUFFICES ASSUME Init PROVE RInv
  OBVIOUS
<1>1. Types /\ FileInv
  BY RbacAssumption, TypesInit, FileInvInit
<1>2. DOMAIN Empty = {}
  BY EmptyPartial
<1>3. SessionsMatchPasswords
  BY <1>1, TypesGiveTypeOK DEF Init, SessionsMatchPasswords, Registered
<1>4. RolesEverywhere
  BY <1>2 DEF Init, RolesEverywhere, Closed, NoFlush
<1>5. GrantsEverywhere /\ GrantsWereGiven
  BY <1>2 DEF Init, GrantsEverywhere, GrantsWereGiven, NowGiven, Registered, NoLogin
<1> QED BY <1>1, <1>3, <1>4, <1>5 DEF RInv

LEMMA RInvNext ==
    RInv /\ [Next]_vars => RInv'
<1> SUFFICES ASSUME RInv, [Next]_vars PROVE RInv'
  OBVIOUS
<1> USE DEF RInv
<1>1. Types'
  BY RbacAssumption, TypesNext
<1>2. FileInv'
  BY RbacAssumption, FileInvNext
<1>3. TypeOK'
  BY <1>1, TypesGiveTypeOK, PTL
<1>4. SessionsMatchPasswords'
  BY <1>3, PasswordsNext DEF SessionsMatchPasswords
<1>5. RolesEverywhere'
  BY RolesNext
<1>6. GrantsEverywhere' /\ GrantsWereGiven'
  BY GrantsNext
<1> QED BY <1>1, <1>2, <1>4, <1>5, <1>6

\* RInv is what every reachable state has.
LEMMA RInvAlways ==
    Spec => []RInv
BY RInvInit, RInvNext, PTL DEF Spec

\* A session in s.sessions carries the password its user has now, whatever
\* ChangePassword, DeleteUser, ResetAuth, Authenticate and Open did in between,
\* but for the two faults that SessionsMatchPasswords names.
THEOREM SessionsAreCurrent ==
    Spec => []SessionsMatchPasswords
<1>1. RInv => SessionsMatchPasswords
  BY DEF RInv
<1> QED BY <1>1, RInvAlways, PTL

\* No user names a role that is gone, in memory or after Open, but for the two
\* faults that RolesOfUsersExist names.
THEOREM RolesAreNeverLost ==
    Spec => []RolesOfUsersExist
<1>1. RInv => RolesOfUsersExist
  BY DEF RInv, RolesEverywhere, RolesOfUsersExist, Closed
<1> QED BY <1>1, RInvAlways, PTL

\* A session never has a permission its user never had, unless Authenticate
\* mixed a user with roles that were made later.
THEOREM NoGrantFromNowhere ==
    Spec => []GrantsWereGiven
<1>1. RInv => GrantsWereGiven
  BY DEF RInv
<1> QED BY <1>1, RInvAlways, PTL

\* checkWriteLocked lets a write through only for a user who is there with the
\* password of the session, or when there are no users.
THEOREM OnlyCurrentWrites ==
    Spec => WritesAreCurrent
<1> DEFINE Current == \A c \in Client : wrote'[c] # wrote[c] =>
               \/ exposed' \intersect {"late", "outlived", "waited"} # {}
               \/ users = Empty
               \/ Registered(c) /\ sess[c].user \in DOMAIN users /\ sess[c].pw = users[sess[c].user].pw
<1>1. ASSUME RInv, Next
      PROVE  Current
  <2> SUFFICES ASSUME NEW c \in Client, wrote'[c] # wrote[c],
                      exposed' \intersect {"late", "outlived", "waited"} = {},
                      users # Empty
               PROVE  /\ Registered(c) /\ sess[c].user \in DOMAIN users
                      /\ sess[c].pw = users[sess[c].user].pw
    OBVIOUS
  <2>1. \E d \in Client : WriteAtOnce(d) \/ WriteResumes(d)
    BY <1>1 DEF Next, CreateRole, CreateUser, SetUserRoles, ChangePassword, DeleteUser,
           VerifyFails, Evict, DeleteRole, ResetAuth, Verify, Resolve, Register, Expire,
           Revoke, WriteWaits, FlushBegin, FlushEnd, Reopen, clients
  <2>2. WriteAtOnce(c) \/ WriteResumes(c)
    BY <1>1, <2>1 DEF WriteAtOnce, WriteResumes, RInv, Types, ClientTypes
  <2>3. CheckWrite(c)
    BY <2>2 DEF WriteAtOnce, WriteResumes
  <2>4. Registered(c)
    BY <2>3 DEF CheckWrite, AuthActive
  <2>5. exposed \intersect {"late", "outlived"} = {}
    BY <1>1, ExposedGrows
  <2> QED BY <1>1, <2>4, <2>5 DEF RInv, SessionsMatchPasswords
<1>2. RInv /\ [Next]_vars => [Current]_vars
  BY <1>1
<1> QED BY <1>2, RInvAlways, PTL DEF Spec, WritesAreCurrent

\* Open gives back the users and roles of the last flush as they were, and
\* nothing that a DEL followed.
THEOREM OpenGivesSaved ==
    Spec => OpenGivesWhatWasSaved
<1> DEFINE Gives ==
        /\ \A u \in DOMAIN saved.users : u \in DOMAIN users' /\ users'[u] = saved.users[u]
        /\ \A r \in DOMAIN saved.roles : r \in DOMAIN roles' /\ roles'[r] = saved.roles[r]
        /\ DOMAIN users' \subseteq DOMAIN saved.users \union undeleted
        /\ DOMAIN roles' \subseteq DOMAIN saved.roles \union undeleted
<1>1. ASSUME RInv, Next, left'.open # left.open
      PROVE  Gives
  <2>1. left \in [{"admin", "login", "write", "flush", "open"} -> Nat]
    BY <1>1 DEF RInv, Types, ClientTypes
  <2>2. Reopen
    BY <1>1, <2>1 DEF Next, Admin, Spend, CreateRole, CreateUser, SetUserRoles,
           ChangePassword, DeleteUser, VerifyFails, Evict, DeleteRole, ResetAuth, Verify,
           Resolve, Register, Expire, Revoke, WriteWaits, WriteAtOnce, WriteResumes,
           FlushBegin, FlushEnd
  <2> QED BY <1>1, <2>2, OpenIsSaved DEF RInv
<1>2. RInv /\ [Next]_vars => [left'.open # left.open => Gives]_vars
  BY <1>1
<1> QED BY <1>2, RInvAlways, PTL DEF Spec, OpenGivesWhatWasSaved
=============================================================================
