-------------------------------- MODULE Rbac --------------------------------
(***************************************************************************)
(* Users, roles and sessions of a Store (db/auth.go): the administration   *)
(* calls, the three steps of Authenticate, a session's writes, and what    *)
(* flush, Compact, a crash and Open (db/filev2.go, db/file.go) make of     *)
(* the _users and _roles collections.                                      *)
(*                                                                         *)
(* A password is a number that no other password has. The file is what its *)
(* records come to: the last DOC of each name that no DEL follows, and the *)
(* collections of the last META, without which Open reads no document.     *)
(***************************************************************************)
EXTENDS Integers, SequencesExt

CONSTANTS
    User, Role,   \* names
    Client,       \* callers of Authenticate and of the data API
    Grants,       \* the permissions a role may be created with
    Budgets       \* bounds: how many calls of each kind an instance looks at

ASSUME RbacAssumption ==
    /\ User \intersect Role = {}
    /\ Grants \subseteq SUBSET {"read", "write"}
    /\ Budgets \subseteq [{"admin", "login", "write", "flush", "open"} -> Nat]

VARIABLES
    users,     \* s.collections["_users"].entries: password and roles
    roles,     \* s.collections["_roles"].entries: permissions
    exists,    \* which of the two collections are in s.collections
    cold,      \* users whose document is not in memory
    dirty,     \* entries mutated since they were last on file
    dels,      \* s.pendingDels
    unsaved,   \* s.dirty
    file,      \* the file, and whether there is one (s.sawFile)
    flush,     \* the flush that runs
    login,     \* where each client's Authenticate stands
    sess,      \* s.sessions: each client's registered session
    call,      \* each client's write that waits for backpressure
    wrote,     \* how many writes of each client were applied
    left,      \* what is left of the bounds
    saved,     \* the users and roles when they were last saved
    undeleted, \* names that were removed, whose DOC no DEL follows
    given,     \* the permissions each user has had at some time
    exposed    \* known faults of the code this store has run into

ents == <<users, roles, exists, cold, dirty, dels, unsaved, undeleted>>
clients == <<login, sess, call, wrote>>
vars == <<ents, clients, file, flush, left, saved, given, exposed>>

Empty == <<>>
NoFlush == [on |-> FALSE]
NoLogin == [pc |-> "idle"]
NoSession == [user |-> "none"]

Registered(c) == sess[c] # NoSession

With(f, k, v) == [x \in DOMAIN f \union {k} |-> IF x = k THEN v ELSE f[x]]
Without(f, k) == [x \in DOMAIN f \ {k} |-> f[x]]

-----------------------------------------------------------------------------
(* The permissions of a user *)

\* Mutant of Resolved: the names are not looked at.
ResolvedAll(names) == UNION {roles[r] : r \in DOMAIN roles}

\* resolveRolePerms: names that are no role are passed over.
Resolved(names) == UNION {roles[r] : r \in names \intersect DOMAIN roles}

\* What each user may do with these users and roles.
NowGiven(us, rs) ==
    [u \in User |->
        IF u \in DOMAIN us
        THEN UNION {rs[r] : r \in us[u].roles \intersect DOMAIN rs} ELSE {}]

Given == given' = [u \in User |-> given[u] \union NowGiven(users', roles')[u]]

\* authActiveLocked
AuthActive == users # Empty

\* checkWriteLocked for a data collection, with validLocked.
CheckWrite(c) ==
    \/ ~AuthActive /\ ~Registered(c) /\ login[c].pc = "idle"
    \/ Registered(c) /\ ~sess[c].expired /\ "write" \in sess[c].grants

-----------------------------------------------------------------------------
(* Administration: each call is one step under s.mu *)

Spend(what) == left[what] > 0 /\ left' = [left EXCEPT ![what] = @ - 1]

Admin ==
    /\ Spend("admin")
    /\ unsaved' = TRUE
    /\ UNCHANGED <<file, saved>>

NewPassword == left.admin

\* markEntryMutated: the flush that runs does not make the entry clean.
Mutated(n) ==
    /\ dirty' = dirty \union {n}
    /\ flush' = IF flush.on THEN [flush EXCEPT !.names = @ \ {n}, !.clean = FALSE]
                ELSE flush

\* markDirty, for an entry that is gone from its collection. Its record stays
\* on file, or gets there with the flush that runs, and no DEL is queued.
Gone(n) ==
    /\ dirty' = dirty \ {n}
    /\ flush' = IF flush.on THEN [flush EXCEPT !.names = @ \ {n}, !.clean = FALSE,
                                              !.gone = @ \union {n}]
                ELSE flush
    /\ undeleted' = undeleted \union {n}

CreateRole(r, g) ==
    /\ Admin
    /\ r \notin DOMAIN roles
    /\ exists' = exists \union {"roles"}
    /\ roles' = With(roles, r, g)
    /\ Mutated(r)
    /\ UNCHANGED <<users, cold, dels, undeleted, clients, exposed>>
    /\ Given

\* Mutant of RolesAreThere: the names are taken as they come.
AnyRoles(rs) == TRUE

\* The check of createUser and SetUserRoles.
RolesAreThere(rs) == rs \subseteq DOMAIN roles

CreateUser(u, rs) ==
    /\ Admin
    /\ RolesAreThere(rs)
    /\ u \notin DOMAIN users
    /\ exists' = exists \union {"users"}
    /\ users' = With(users, u, [pw |-> NewPassword, roles |-> rs])
    /\ cold' = cold \ {u}
    /\ Mutated(u)
    /\ UNCHANGED <<roles, dels, undeleted, clients, exposed>>
    /\ Given

SetUserRoles(u, rs) ==
    /\ Admin
    /\ RolesAreThere(rs)
    /\ u \in DOMAIN users /\ users[u].roles # rs
    /\ users' = [users EXCEPT ![u].roles = rs]
    /\ cold' = cold \ {u}
    /\ Mutated(u)
    /\ UNCHANGED <<roles, exists, dels, undeleted, clients, exposed>>
    /\ Given

\* Mutant of Revoked: the sessions stay.
StillRegistered(u) == sess

Revoked(u) == [c \in Client |-> IF sess[c].user = u THEN NoSession ELSE sess[c]]

ChangePassword(u) ==
    /\ Admin
    /\ u \in DOMAIN users
    /\ users' = [users EXCEPT ![u].pw = NewPassword]
    /\ cold' = cold \ {u}
    /\ Mutated(u)
    /\ sess' = Revoked(u)
    /\ UNCHANGED <<roles, exists, dels, undeleted, login, call, wrote, exposed>>
    /\ Given

\* DeleteUser: no DEL is queued, and the user's sessions stay.
DeleteUser(u) ==
    /\ Admin
    /\ u \in DOMAIN users
    /\ users' = Without(users, u)
    /\ cold' = cold \ {u}
    /\ Gone(u)
    /\ exposed' = IF \E c \in Client : sess[c].user = u
                  THEN exposed \union {"outlived"} ELSE exposed
    /\ UNCHANGED <<roles, exists, dels, clients>>
    /\ Given

\* DeleteRole asks the documents in memory: a cold user looks role-less.
DeleteRole(r) ==
    /\ Admin
    /\ r \in DOMAIN roles
    /\ \A u \in DOMAIN users \ cold : r \notin users[u].roles
    /\ roles' = Without(roles, r)
    /\ Gone(r)
    /\ exposed' = IF \E u \in DOMAIN users : r \in users[u].roles
                  THEN exposed \union {"cold"} ELSE exposed
    /\ UNCHANGED <<users, exists, cold, dels, clients>>
    /\ Given

\* Mutant of Queued: the records are only taken from memory.
QueuedNothing(names) == dels

\* deleteRecordLocked, of every user and role
Queued(names) == IF file.saw \/ flush.on THEN dels \union names ELSE dels

ResetAuth ==
    /\ Admin
    /\ AuthActive
    /\ LET names == DOMAIN users \union DOMAIN roles IN
       /\ dels' = Queued(names)
       /\ flush' = IF flush.on
                   THEN [flush EXCEPT !.names = @ \ names, !.clean = FALSE,
                                     !.reset = @ \union names]
                   ELSE flush
    /\ users' = Empty /\ roles' = Empty
    /\ exists' = {} /\ cold' = {} /\ dirty' = {}
    /\ sess' = [c \in Client |-> NoSession]
    /\ UNCHANGED <<undeleted, login, call, wrote, exposed>>
    /\ Given

-----------------------------------------------------------------------------
(* Authenticate, and what a session does *)

Still == UNCHANGED <<file, flush, saved>>

\* Authenticate with a wrong password: the document is loaded, no more.
VerifyFails(u) ==
    /\ u \in cold
    /\ cold' = cold \ {u}
    /\ Still
    /\ UNCHANGED <<users, roles, exists, dirty, dels, unsaved, undeleted,
                   clients, left, given, exposed>>

\* The document is read under RLock and the password verified against it
\* with no lock.
Verify(c, u) ==
    /\ Spend("login")
    /\ login[c] = NoLogin /\ call[c] = "none"
    /\ Registered(c) => sess[c].expired
    /\ u \in DOMAIN users
    /\ login' = [login EXCEPT ![c] =
                   [pc |-> "verified", user |-> u, pw |-> users[u].pw,
                    roles |-> users[u].roles, grants |-> {}]]
    /\ cold' = cold \ {u}
    /\ Still
    /\ UNCHANGED <<users, roles, exists, dirty, dels, unsaved, undeleted,
                   sess, call, wrote, given, exposed>>

\* resolveRolePerms takes the lock again: the roles may be others by now.
Resolve(c) ==
    /\ login[c].pc = "verified"
    /\ login' = [login EXCEPT ![c].pc = "resolved",
                              ![c].grants = Resolved(login[c].roles)]
    /\ exposed' = IF /\ login[c].user \in DOMAIN users
                     /\ users[login[c].user].roles = login[c].roles
                  THEN exposed ELSE exposed \union {"mixed"}
    /\ Still
    /\ UNCHANGED <<ents, sess, call, wrote, left, given>>

\* The session is registered under Lock, whatever has become of the user.
Register(c) ==
    /\ login[c].pc = "resolved"
    /\ LET u == login[c].user IN
       /\ sess' = [d \in Client |->
              IF d = c THEN [user |-> u, pw |-> login[c].pw,
                             grants |-> login[c].grants, expired |-> FALSE]
              ELSE IF Registered(d) /\ sess[d].expired THEN NoSession  \* purgeExpiredLocked
              ELSE sess[d]]
       /\ exposed' = IF u \in DOMAIN users /\ users[u].pw = login[c].pw
                     THEN exposed ELSE exposed \union {"late"}
    /\ login' = [login EXCEPT ![c] = NoLogin]
    /\ Still
    /\ UNCHANGED <<ents, call, wrote, left, given>>

Expire(c) ==
    /\ Registered(c) /\ ~sess[c].expired
    /\ sess' = [sess EXCEPT ![c].expired = TRUE]
    /\ Still
    /\ UNCHANGED <<ents, login, call, wrote, left, given, exposed>>

Revoke(c) ==
    /\ Registered(c)
    /\ sess' = [sess EXCEPT ![c] = NoSession]
    /\ Still
    /\ UNCHANGED <<ents, login, call, wrote, left, given, exposed>>

\* A write of a data collection passes its check and waits for backpressure,
\* which releases s.mu, or is applied at once.
WriteWaits(c) ==
    /\ wrote[c] < left.write
    /\ call[c] = "none"
    /\ CheckWrite(c)
    /\ call' = [call EXCEPT ![c] = "waits"]
    /\ Still
    /\ UNCHANGED <<ents, login, sess, wrote, left, given, exposed>>

WriteAtOnce(c) ==
    /\ wrote[c] < left.write
    /\ call[c] = "none"
    /\ CheckWrite(c)
    /\ wrote' = [wrote EXCEPT ![c] = @ + 1]
    /\ Still
    /\ UNCHANGED <<ents, login, sess, call, left, given, exposed>>

\* After the wait the permission is not asked again.
WriteResumes(c) ==
    /\ call[c] = "waits"
    /\ call' = [call EXCEPT ![c] = "none"]
    /\ wrote' = [wrote EXCEPT ![c] = @ + 1]
    /\ exposed' = IF CheckWrite(c) THEN exposed ELSE exposed \union {"waited"}
    /\ Still
    /\ UNCHANGED <<ents, login, sess, left, given>>

-----------------------------------------------------------------------------
(* The file *)

\* prepareFlush: a snapshot of the whole store under s.mu. "others" says
\* that documents of data collections were deleted too.
FlushBegin(compact, others) ==
    /\ ~flush.on
    /\ unsaved \/ compact
    /\ Spend("flush")
    /\ flush' = [on |-> TRUE, full |-> compact \/ ~file.saw,
                 dels |-> IF compact \/ ~file.saw THEN {} ELSE dels,
                 some |-> ~(compact \/ ~file.saw) /\ (dels # {} \/ others),
                 users |-> users, roles |-> roles, colls |-> exists,
                 names |-> dirty, wrote |-> dirty, gone |-> {}, reset |-> {},
                 clean |-> TRUE]
    /\ UNCHANGED <<ents, clients, file, saved, given, exposed>>

\* The records of the flush take the place of the older ones of their names.
Merged(old, new) ==
    [n \in (DOMAIN old \ flush.dels) \union (DOMAIN new \intersect flush.wrote) |->
        IF n \in DOMAIN new \intersect flush.wrote THEN new[n] ELSE old[n]]

\* applyFlushed: the DELs of ResetAuth have generation 0, so a flush that
\* wrote any DEL forgets those that were queued while it ran.
KeptDels == IF flush.full \/ flush.some THEN {} ELSE dels

OnFile(f) == DOMAIN f.users \union DOMAIN f.roles

FlushEnd ==
    /\ flush.on
    /\ file' = IF flush.full
               THEN [saw |-> TRUE, users |-> flush.users, roles |-> flush.roles,
                     colls |-> flush.colls]
               ELSE [saw |-> TRUE, users |-> Merged(file.users, flush.users),
                     roles |-> Merged(file.roles, flush.roles), colls |-> flush.colls]
    /\ saved' = [users |-> flush.users, roles |-> flush.roles]
    /\ dels' = KeptDels
    /\ LET lost == flush.reset \ KeptDels
           snapshot == DOMAIN flush.users \union DOMAIN flush.roles IN
       undeleted' = {n \in (undeleted \union lost) \intersect OnFile(file') :
                       n \in snapshot => n \in flush.gone \union lost}
    /\ dirty' = dirty \ flush.names
    /\ unsaved' = (unsaved /\ ~flush.clean)
    /\ flush' = NoFlush
    /\ UNCHANGED <<users, roles, exists, cold, clients, left, given, exposed>>

\* PageCache: a clean user may be evicted.
Evict(u) ==
    /\ u \in (DOMAIN users \ dirty) \ cold
    /\ u \in DOMAIN file.users
    /\ cold' = cold \union {u}
    /\ Still
    /\ UNCHANGED <<users, roles, exists, dirty, dels, unsaved, undeleted,
                   clients, left, given, exposed>>

\* openV2: the documents of a collection that META lacks are passed over.
Gated(coll, docs) == IF coll \in file.colls THEN docs ELSE Empty

\* The program ends, at any step of a flush, and the file is opened again.
Reopen ==
    /\ file.saw
    /\ Spend("open")
    /\ users' = Gated("users", file.users)
    /\ roles' = Gated("roles", file.roles)
    /\ exists' = file.colls
    /\ cold' = DOMAIN users'
    /\ dirty' = {} /\ dels' = {} /\ unsaved' = FALSE
    /\ flush' = NoFlush
    /\ login' = [c \in Client |-> NoLogin]
    /\ sess' = [c \in Client |-> NoSession]
    /\ call' = [c \in Client |-> "none"]
    /\ exposed' = IF (DOMAIN users' \union DOMAIN roles') \intersect undeleted # {}
                  THEN exposed \union {"back"} ELSE exposed
    /\ Given
    /\ UNCHANGED <<file, saved, undeleted, wrote>>

-----------------------------------------------------------------------------
Init ==
    /\ users = Empty /\ roles = Empty
    /\ exists = {} /\ cold = {} /\ dirty = {} /\ dels = {}
    /\ unsaved = TRUE
    /\ file = [saw |-> FALSE, users |-> Empty, roles |-> Empty, colls |-> {}]
    /\ flush = NoFlush
    /\ login = [c \in Client |-> NoLogin]
    /\ sess = [c \in Client |-> NoSession]
    /\ call = [c \in Client |-> "none"]
    /\ left \in Budgets
    /\ wrote = [c \in Client |-> 0]
    /\ saved = [users |-> Empty, roles |-> Empty]
    /\ undeleted = {}
    /\ given = [u \in User |-> {}]
    /\ exposed = {}

Next ==
    \/ \E r \in Role, g \in Grants : CreateRole(r, g)
    \/ \E u \in User, rs \in SUBSET Role : CreateUser(u, rs) \/ SetUserRoles(u, rs)
    \/ \E u \in User : ChangePassword(u) \/ DeleteUser(u) \/ VerifyFails(u) \/ Evict(u)
    \/ \E r \in Role : DeleteRole(r)
    \/ ResetAuth
    \/ \E c \in Client, u \in User : Verify(c, u)
    \/ \E c \in Client : Resolve(c) \/ Register(c) \/ Expire(c) \/ Revoke(c)
    \/ \E c \in Client : WriteWaits(c) \/ WriteAtOnce(c) \/ WriteResumes(c)
    \/ \E compact, others \in BOOLEAN : FlushBegin(compact, others)
    \/ FlushEnd
    \/ Reopen

Spec == Init /\ [][Next]_vars
-----------------------------------------------------------------------------
(* Properties *)

\* Entries name users and roles, a dirty entry is in memory, a DEL is queued
\* only when a file may hold the record (newDocEntry, markEntryMutated,
\* deleteRecordLocked).
TypeOK ==
    /\ DOMAIN users \subseteq User /\ \A u \in DOMAIN users : users[u].roles \subseteq Role
    /\ DOMAIN roles \subseteq Role /\ \A r \in DOMAIN roles : roles[r] \in Grants
    /\ exists \subseteq {"users", "roles"}
    /\ cold \subseteq DOMAIN users \ dirty
    /\ dirty \subseteq DOMAIN users \union DOMAIN roles
    /\ dels # {} => file.saw \/ flush.on
    /\ \A c \in Client : Registered(c) => sess[c].user \in User

\* A session in s.sessions was opened with the password its user has now:
\* ChangePassword and ResetAuth removed every other. Known exceptions: an
\* Authenticate that verified the password before it was changed registers
\* afterwards (auth.go:718-763), and DeleteUser leaves the sessions (auth.go:563).
\* The types hold as well.
SessionsMatchPasswords ==
    /\ TypeOK
    /\ exposed \intersect {"late", "outlived"} = {} =>
          \A c \in Client : Registered(c) =>
              sess[c].user \in DOMAIN users /\ sess[c].pw = users[sess[c].user].pw

\* Every role that a user names is there: CreateUser and SetUserRoles ask for
\* it, DeleteRole refuses one that is in use, and the file keeps the two
\* collections together. Known exceptions: DeleteRole takes a user that is not
\* in memory to have no roles (auth.go:640), and what was removed without a DEL
\* is back after Open (auth.go:563-587, 635-664).
RolesOfUsersExist ==
    exposed \intersect {"cold", "back"} = {} =>
        \A u \in DOMAIN users : users[u].roles \subseteq DOMAIN roles

\* A session may do only what its user could do at some time. Known exception:
\* Authenticate reads the user and the roles under two locks, and resolves
\* names the user no longer has to roles made in between (auth.go:722-743).
GrantsWereGiven ==
    "mixed" \notin exposed =>
        \A c \in Client : Registered(c) => sess[c].grants \subseteq given[sess[c].user]

\* A write is applied for a client without a session only while there are no
\* users, and else for a user who exists and whose password is still the one
\* the session was opened with. Known exceptions: those of the sessions, and a
\* write that waited for backpressure is not checked again (store.go:371).
WritesAreCurrent ==
    [][\A c \in Client : wrote'[c] # wrote[c] =>
        \/ exposed' \intersect {"late", "outlived", "waited"} # {}
        \/ users = Empty
        \/ Registered(c) /\ sess[c].user \in DOMAIN users /\ sess[c].pw = users[sess[c].user].pw]_vars

\* Open gives back every user and role of the last flush, as they were, and of
\* the others at most those whose record no DEL follows: removed by DeleteUser
\* or DeleteRole, or by a ResetAuth during a flush that dropped its DELs
\* (file.go:593-605). What ResetAuth deleted does not return (auth.go:510-513).
OpenGivesWhatWasSaved ==
    [][left'.open # left.open =>
        /\ \A u \in DOMAIN saved.users : u \in DOMAIN users' /\ users'[u] = saved.users[u]
        /\ \A r \in DOMAIN saved.roles : r \in DOMAIN roles' /\ roles'[r] = saved.roles[r]
        /\ DOMAIN users' \subseteq DOMAIN saved.users \union undeleted
        /\ DOMAIN roles' \subseteq DOMAIN saved.roles \union undeleted]_vars
=============================================================================
