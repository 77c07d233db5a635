-------------------------------- MODULE Wire --------------------------------
(***************************************************************************)
(* The wire server (wire/server.go, scram.go, cursor.go, commands.go): its *)
(* life cycle, the goroutine of each connection, SCRAM, the commands that  *)
(* find and then write, and the cursors that all connections share.        *)
(*                                                                         *)
(* One step of a command ends with its next call of the store or of the    *)
(* cursor registry, the places where the goroutines meet. The store is one *)
(* collection and what its calls promise; Documents models the store.      *)
(* Queries ask for equality or for one of the conditions of MatchElement.  *)
(***************************************************************************)
EXTENDS Aggregate

CONSTANTS Conns,          \* connections
          IdOrder,        \* the _ids, in their order
          NewIds,         \* those that the store makes up, never twice
          Starts,         \* where a behaviour may start, and what happens in it
          MaxBatchBytes,  \* maxBatchBytes
          DefaultBatch    \* defaultBatchSize

\* A command has statements; a delete removes, an update has an expression; insert,
\* update and delete may have several.
CommandFits(cmd) ==
    /\ cmd.name \in {"insert", "update", "delete", "findAndModify",
                    "find", "getMore", "killCursors"}
    /\ cmd.ordered \in BOOLEAN
    /\ cmd.stmts # <<>> /\ cmd.stmts \in Seq(ToSet(cmd.stmts))
    /\ cmd.name = "delete" => \A i \in DOMAIN cmd.stmts : cmd.stmts[i].remove
    /\ cmd.name \notin {"insert", "update", "delete"} => Len(cmd.stmts) = 1
    /\ cmd.name \in {"update", "findAndModify"} => \A i \in DOMAIN cmd.stmts : ExprFits(cmd.stmts[i].u)
    /\ cmd.name = "find" => cmd.stmts[1].limit \in Int
    /\ cmd.name \in {"find", "getMore"} => cmd.stmts[1].batch \in Int

\* A start: whether the connections have been accepted already; the documents, each
\* with a string as its _id; the commands that arrive, each once; whether AuthUser is
\* set; and how many SASL messages, changes of the users, hang-ups, cursors that grow
\* too old, and calls of Close there may be.
StartFits(st) ==
    /\ DOMAIN st = {"up", "docs", "cmds", "auth", "sasl", "rbac", "hangs", "ticks", "close"}
    /\ \A i \in DOMAIN st.docs : Is(st.docs[i], "doc") /\ Field(st.docs[i], "_id") = Str(i)
    /\ st.cmds \in Seq(ToSet(st.cmds)) /\ \A k \in DOMAIN st.cmds : CommandFits(st.cmds[k])
    /\ {st.sasl, st.rbac, st.hangs, st.ticks, st.close} \subseteq Nat

ASSUME WireAssumption ==
    /\ IdOrder \in Seq(ToSet(IdOrder))
    /\ MaxBatchBytes \in Nat /\ DefaultBatch \in Nat \ {0}
    /\ \A i \in DOMAIN Starts : StartFits(Starts[i])

VARIABLES
    start,      \* the number of the start
    left,       \* its commands that have not arrived, and what else may happen
    coll,       \* the documents by _id
    rbac,       \* the users of the store: "off", "knows" AuthUser, "refuses" it
    serve,      \* the goroutine of Serve
    ln,         \* its listener: "none", "open", "shut"
    closing,    \* Close: "no", "set", "wait", "done"
    tracked,    \* wg: the connections it counts
    conn,       \* conn[c]: [life, sock, listed, scram, authed, session]
    run,        \* run[c]: the command the goroutine of c runs
    cursors,    \* cursorRegistry.m
    next,       \* cursorRegistry.next
    replies,    \* by command: how it was answered, and what it did
    streams,    \* by find: its documents, those sent, and the cursor (history)
    inserted    \* how often each _id was inserted (history)

netVars  == <<serve, ln, closing, tracked>>
dataVars == <<coll, cursors, next, streams, inserted>>
vars == <<start, left, coll, rbac, serve, ln, closing, tracked, conn, run, cursors, next,
          replies, streams, inserted>>

NoOp == [ph |-> "idle", k |-> 0, i |-> 0, todo |-> <<>>, n |-> 0, mod |-> 0, did |-> 0,
         errs |-> {}]

NewConn == [life |-> "new", sock |-> "open", listed |-> FALSE, scram |-> "nil",
            authed |-> FALSE, session |-> "none", proved |-> FALSE]

Auth      == Starts[start].auth
Cmds      == Starts[start].cmds
Cmd(c)    == Cmds[run[c].k]
Stmt(c)   == Cmd(c).stmts[run[c].i]
Closed    == closing # "no"
Running(c, ph) == run[c].ph = ph

-----------------------------------------------------------------------------
(* What the store promises *)

\* checkReadLocked and checkWriteLocked, for the session of the connection.
Refused(c) ==
    \/ conn[c].session = "none" /\ rbac # "off"
    \/ conn[c].session = "stale"

Meets(d, q) ==
    \A k \in DOMAIN q :
        IF HasDollar(q[k]) THEN MatchElement(Field(d, k), q[k]) ELSE Field(d, k) = q[k]

\* Find: by _id.
Found(q) ==
    LET docs[n \in 0..Len(IdOrder)] ==
            IF n = 0 THEN <<>>
            ELSE IF IdOrder[n] \in DOMAIN coll /\ Meets(coll[IdOrder[n]], q)
            THEN Append(docs[n - 1], coll[IdOrder[n]])
            ELSE docs[n - 1]
    IN  docs[Len(IdOrder)]

\* Insert gives a document without an _id a new one.
Unused == SelectSeq(NewIds, LAMBDA i : inserted[i] = 0)
Identified(d) ==
    IF Field(d, "_id") \in {Absent, Null} THEN WithField(d, "_id", Str(Unused[1])) ELSE d
IdOf(d) == Field(d, "_id")[2]

Put(id, d) ==
    coll' = [i \in DOMAIN coll \union {id} |-> IF i = id THEN d ELSE coll[i]]

\* Mutant of RemoveFails: a document that is gone counts as removed.
RemoveForgives(c, id) == Refused(c)

InsertFails(c, id) == Refused(c) \/ id \in DOMAIN coll
UpdateFails(c, id) == Refused(c) \/ id \notin DOMAIN coll
RemoveFails(c, id) == Refused(c) \/ id \notin DOMAIN coll

-----------------------------------------------------------------------------
(* The life cycle: Serve, serveConn, Close *)

ServeBegin ==
    /\ serve = "off"
    /\ IF Closed THEN serve' = "ended" /\ UNCHANGED ln
       ELSE serve' = "accept" /\ ln' = "open"
    /\ UNCHANGED <<start, left, rbac, closing, tracked, conn, run, replies>>
    /\ UNCHANGED dataVars

Accept(c) ==
    /\ serve = "accept" /\ ln = "open" /\ conn[c].life = "new"
    /\ serve' = "hold"
    /\ conn' = [conn EXCEPT ![c].life = "accepted"]
    /\ UNCHANGED <<start, left, rbac, ln, closing, tracked, run, replies>>
    /\ UNCHANGED dataVars

AcceptFails ==
    /\ serve = "accept" /\ ln = "shut"
    /\ serve' = "ended"
    /\ UNCHANGED <<start, left, rbac, ln, closing, tracked, conn, run, replies>>
    /\ UNCHANGED dataVars

\* Under s.mu: a connection that comes too late is closed.
TooLate == Closed

Enlist(c) ==
    /\ conn[c].life = "accepted"
    /\ IF TooLate
       THEN /\ conn' = [conn EXCEPT ![c].life = "gone", ![c].sock = "shut"]
            /\ serve' = "ended"
       ELSE /\ conn' = [conn EXCEPT ![c].life = "listed", ![c].listed = TRUE]
            /\ UNCHANGED serve
    /\ UNCHANGED <<start, left, rbac, ln, closing, tracked, run, replies>>
    /\ UNCHANGED dataVars

\* wg.Add and go: after s.mu was given back.
Spawn(c) ==
    /\ conn[c].life = "listed"
    /\ conn' = [conn EXCEPT ![c].life = "serving"]
    /\ tracked' = tracked \union {c}
    /\ serve' = "accept"
    /\ UNCHANGED <<start, left, rbac, ln, closing, run, replies>>
    /\ UNCHANGED dataVars

\* readMessage fails, or what was written did not arrive.
EndConn(c) ==
    /\ conn[c].life = "serving" /\ Running(c, "idle") /\ conn[c].sock # "open"
    /\ conn' = [conn EXCEPT ![c].life = "gone", ![c].sock = "shut", ![c].listed = FALSE]
    /\ tracked' = tracked \ {c}
    /\ UNCHANGED <<start, left, rbac, serve, ln, closing, run, replies>>
    /\ UNCHANGED dataVars

\* The client goes away. What it had sent may still be read.
HangUp(c) ==
    /\ conn[c].life = "serving" /\ conn[c].sock = "open" /\ left.hangs > 0
    /\ left' = [left EXCEPT !.hangs = @ - 1]
    /\ conn' = [conn EXCEPT ![c].sock = "peer"]
    /\ UNCHANGED <<start, rbac, run, replies>>
    /\ UNCHANGED netVars /\ UNCHANGED dataVars

CloseBegin ==
    /\ closing = "no" /\ left.close > 0
    /\ left' = [left EXCEPT !.close = @ - 1]
    /\ closing' = "set"
    /\ UNCHANGED <<start, rbac, serve, ln, tracked, conn, run, replies>>
    /\ UNCHANGED dataVars

\* Mutant of Shut: the connections that are counted, for those that are listed.
ShutCounted(c) == c \in tracked

\* What Close shuts: conns.
Shut(c) == conn[c].listed

CloseAll ==
    /\ closing = "set"
    /\ closing' = "wait"
    /\ ln' = IF ln = "open" THEN "shut" ELSE ln
    /\ conn' = [c \in Conns |-> IF Shut(c) THEN [conn[c] EXCEPT !.sock = "shut"]
                                ELSE conn[c]]
    /\ UNCHANGED <<start, left, rbac, serve, tracked, run, replies>>
    /\ UNCHANGED dataVars

CloseEnd ==
    /\ closing = "wait" /\ tracked = {}
    /\ closing' = "done"
    /\ UNCHANGED <<start, left, rbac, serve, ln, tracked, conn, run, replies>>
    /\ UNCHANGED dataVars

-----------------------------------------------------------------------------
(* SCRAM *)

Reads(c) == conn[c].life = "serving" /\ Running(c, "idle") /\ conn[c].sock # "shut"

Sasl == left.sasl > 0 /\ left' = [left EXCEPT !.sasl = @ - 1]

\* cmdSaslStart, for AuthUser and with a nonce; skip is skipEmptyExchange.
SaslStart(c, skip) ==
    /\ Auth /\ Reads(c) /\ Sasl
    /\ conn' = [conn EXCEPT ![c].scram = IF skip THEN "skips" ELSE "asked"]
    /\ UNCHANGED <<start, rbac, run, replies>>
    /\ UNCHANGED netVars /\ UNCHANGED dataVars

\* Mutant of Authenticated: the proof is not looked at.
AuthenticatedUnproved(k, right) == k.scram \in {"asked", "skips"}

\* The client proves that it knows the password.
Authenticated(k, right) == right /\ k.scram \in {"asked", "skips"}

\* cmdSaslContinue. What is wrong changes nothing, and may be tried again; a
\* store that does not know AuthUser ends the conversation.
Continued(k, right) ==
    IF k.scram = "proved" THEN [k EXCEPT !.scram = "nil"]
    ELSE IF ~Authenticated(k, right) THEN k
    ELSE IF rbac = "refuses" THEN [k EXCEPT !.authed = FALSE, !.scram = "nil"]
    ELSE [k EXCEPT !.authed = TRUE,
                   !.scram = IF @ = "skips" THEN "nil" ELSE "proved",
                   !.session = IF rbac = "knows" THEN "live" ELSE @]

SaslContinue(c, right) ==
    /\ Auth /\ Reads(c) /\ Sasl
    /\ conn[c].scram # "nil"
    /\ LET k == Continued(conn[c], right)
           proves == right /\ conn[c].scram # "proved"
       IN  conn' = [conn EXCEPT ![c] = [k EXCEPT !.proved = @ \/ proves]]
    /\ UNCHANGED <<start, rbac, run, replies>>
    /\ UNCHANGED netVars /\ UNCHANGED dataVars

\* The users of the store change under the server. When they all go, the
\* sessions go with them.
RbacChange(r) ==
    /\ left.rbac > 0 /\ r # rbac
    /\ left' = [left EXCEPT !.rbac = @ - 1]
    /\ rbac' = r
    /\ conn' = [c \in Conns |-> IF r # "knows" /\ conn[c].session = "live"
                                THEN [conn[c] EXCEPT !.session = "stale"] ELSE conn[c]]
    /\ UNCHANGED <<start, run, replies>>
    /\ UNCHANGED netVars /\ UNCHANGED dataVars

-----------------------------------------------------------------------------
(* Commands *)

FirstPhase(name) ==
    CASE name = "insert"      -> "insert"
      [] name = "find"        -> "query"
      [] name = "getMore"     -> "more"
      [] name = "killCursors" -> "kill"
      [] OTHER                -> "find"

\* runCommand: what needs authentication is not run without it.
Gate(c) == ~Auth \/ conn[c].authed

Swept == [id \in {i \in DOMAIN cursors : ~cursors[i].late} |-> cursors[id]]

\* A message is read: the cursors are swept, and the command begins.
Begin(c, k) ==
    /\ Reads(c) /\ k \in left.cmds
    /\ left' = [left EXCEPT !.cmds = @ \ {k}]
    /\ cursors' = Swept
    /\ run' = IF Gate(c) THEN [run EXCEPT ![c] = [NoOp EXCEPT !.ph = FirstPhase(Cmds[k].name),
                                                            !.k = k, !.i = 1]]
             ELSE run
    /\ UNCHANGED <<start, coll, rbac, conn, next, replies, streams, inserted>>
    /\ UNCHANGED netVars

Answer(c, o, value) ==
    /\ run' = [run EXCEPT ![c] = NoOp]
    /\ replies' = [replies EXCEPT ![o.k] =
          [done |-> TRUE, n |-> o.n, mod |-> o.mod, errs |-> o.errs, upto |-> o.i,
           did |-> o.did, value |-> value]]

\* Mutant of Stops: an error never ends the batch.
StopsNever(o, cmd) == o.i = Len(cmd.stmts)

\* The batch ends: with its last statement, or with an error if it is ordered.
Stops(o, cmd) == o.i = Len(cmd.stmts) \/ (o.errs # {} /\ cmd.ordered)

\* A statement is done with.
Advance(c, o, value) ==
    IF Stops(o, Cmd(c)) THEN Answer(c, o, value)
    ELSE /\ run' = [run EXCEPT ![c] = [o EXCEPT !.i = @ + 1, !.todo = <<>>,
                                             !.ph = FirstPhase(Cmd(c).name)]]
         /\ UNCHANGED replies

Erred(o) == [o EXCEPT !.errs = @ \union {o.i}]
Done(o)  == [o EXCEPT !.n = @ + 1, !.did = @ + 1]
Goes(c, o) == run' = [run EXCEPT ![c] = o] /\ UNCHANGED replies

NoCursor == UNCHANGED <<cursors, next, streams>>
OwnStep  == UNCHANGED <<start, left, rbac, conn>> /\ UNCHANGED netVars

\* cmdInsert: one document.
InsertOne(c) ==
    /\ Running(c, "insert")
    /\ LET d  == NormalizeDocID(Stmt(c).doc)
           id == IdOf(Identified(d))
           o  == run[c]
       IN  IF d = Failed
           THEN Advance(c, Erred(o), Absent) /\ UNCHANGED <<coll, inserted>>
           ELSE IF InsertFails(c, id)
           THEN Advance(c, Erred(o), Absent) /\ UNCHANGED <<coll, inserted>>
           ELSE /\ Put(id, Identified(d))
                /\ inserted' = [inserted EXCEPT ![id] = @ + 1]
                /\ Advance(c, Done(o), Absent)
    /\ NoCursor /\ OwnStep

\* The document that an upsert inserts.
Upserts(s) ==
    LET base == NormalizeDocID(EqualityFields(s.q)) IN
    IF base = Failed THEN {Failed}
    ELSE {IF d = Failed THEN Failed ELSE NormalizeDocID(d) :
              d \in ApplyUpdateExpr(base, s.u, TRUE)}

\* The find that update, delete and findAndModify begin with.
StatementFind(c) ==
    /\ Running(c, "find")
    /\ LET s == Stmt(c)
           o == run[c]
           m == Found(s.q)
       IN  IF Refused(c) THEN Advance(c, Erred(o), Absent)
           ELSE IF m = <<>> /\ s.upsert /\ ~s.remove
           THEN \E d \in Upserts(s) :
                   IF d = Failed THEN Advance(c, Erred(o), Absent)
                   ELSE Goes(c, [o EXCEPT !.ph = "upsert", !.todo = <<d>>])
           ELSE IF m = <<>> THEN Advance(c, o, Absent)
           ELSE Goes(c, [o EXCEPT !.ph = "each", !.todo = IF s.multi THEN m ELSE <<m[1]>>])
    /\ UNCHANGED <<coll, inserted>>
    /\ NoCursor /\ OwnStep

\* findAndModify answers with the new document if that was asked for.
StatementUpsert(c) ==
    /\ Running(c, "upsert") /\ ~Stmt(c).remove
    /\ LET d  == Identified(run[c].todo[1])
           id == IdOf(d)
           o  == run[c]
       IN  IF InsertFails(c, id)
           THEN Advance(c, Erred(o), Absent) /\ UNCHANGED <<coll, inserted>>
           ELSE /\ Put(id, d)
                /\ inserted' = [inserted EXCEPT ![id] = @ + 1]
                /\ Advance(c, Done(o), IF Cmd(c).name = "findAndModify" /\ Stmt(c).new THEN d ELSE Absent)
    /\ NoCursor /\ OwnStep

\* The next of the documents found: another step, or the end of the statement.
OnWith(c, o, value) ==
    IF Len(o.todo) > 1 THEN Goes(c, [o EXCEPT !.todo = Tail(@)]) ELSE Advance(c, o, value)

StatementRemove(c) ==
    /\ Running(c, "each") /\ Stmt(c).remove
    /\ LET o  == run[c]
           id == IdOf(o.todo[1])
       IN  IF RemoveFails(c, id) THEN Advance(c, Erred(o), Absent) /\ UNCHANGED coll
           ELSE /\ coll' = [i \in DOMAIN coll \ {id} |-> coll[i]]
                /\ OnWith(c, Done(o), o.todo[1])
    /\ UNCHANGED inserted
    /\ NoCursor /\ OwnStep

\* applyUpdateExpr on the document as it was found, and its patch on the document
\* as it is. nModified counts the patches.
StatementUpdate(c) ==
    /\ Running(c, "each") /\ ~Stmt(c).remove
    /\ LET o   == run[c]
           doc == o.todo[1]
           id  == IdOf(doc)
       IN  \E fresh \in ApplyUpdateExpr(doc, Stmt(c).u, FALSE) :
              IF fresh = Failed THEN Advance(c, Erred(o), Absent) /\ UNCHANGED coll
              ELSE LET p == DiffTopLevel(doc, fresh) IN
                   IF DOMAIN p.patch = {} /\ p.remove = {}
                   THEN OnWith(c, [o EXCEPT !.n = @ + 1], doc) /\ UNCHANGED coll
                   ELSE IF UpdateFails(c, id)
                   THEN Advance(c, Erred(o), Absent) /\ UNCHANGED coll
                   ELSE /\ Put(id, Patched(coll[id], p))
                        /\ OnWith(c, [o EXCEPT !.n = @ + 1, !.mod = @ + 1, !.did = @ + 1],
                                  IF Stmt(c).new THEN fresh ELSE doc)
    /\ UNCHANGED inserted
    /\ NoCursor /\ OwnStep

-----------------------------------------------------------------------------
(* Cursors *)

\* A negative number stands for its absolute value, and a negative limit asks for
\* a single batch.
Magnitude(n) == IF n < 0 THEN -n ELSE n
SingleBatch(s) == s.single \/ s.limit < 0

\* cmdFind calls Find; no document means no cursor.
QueryFind(c) ==
    /\ Running(c, "query")
    /\ LET s    == Stmt(c)
           docs == Found(s.q)
           most == Magnitude(s.limit)
           o    == run[c]
       IN  IF Refused(c) THEN Answer(c, Erred(o), Absent)
           ELSE Goes(c, [o EXCEPT !.ph = "cursor",
                            !.todo = IF most > 0 /\ most < Len(docs)
                                     THEN SubSeq(docs, 1, most) ELSE docs])
    /\ UNCHANGED <<coll, inserted>>
    /\ NoCursor /\ OwnStep

\* The bytes of a document grow with its fields.
Bytes(docs) == FoldLeft(LAMBDA n, d : n + Cardinality(DOMAIN d[2]), 0, docs)

\* How many documents a batch keeps: the last ones go back, one by one, while it
\* is too long, but for the first.
Kept(batch) ==
    Max({n \in 0..Len(batch) : n <= 1 \/ Bytes(SubSeq(batch, 1, n)) <= MaxBatchBytes})

\* A batch has at most n documents, unless it is the only one.
CutAt(docs, n, single) == IF Len(docs) > n /\ ~single THEN n ELSE Len(docs)

\* Mutant of Split: what goes back goes behind what was not in the batch.
SplitBehind(docs, n, single) ==
    LET cut  == CutAt(docs, n, single)
        kept == Kept(SubSeq(docs, 1, cut))
    IN  <<SubSeq(docs, 1, kept), SubSeq(docs, cut + 1, Len(docs)) \o SubSeq(docs, kept + 1, cut)>>

\* The first batch, and what is left for later.
Split(docs, n, single) ==
    LET kept == Kept(SubSeq(docs, 1, CutAt(docs, n, single)))
    IN  <<SubSeq(docs, 1, kept), SubSeq(docs, kept + 1, Len(docs))>>

BatchSize(n) == IF n <= 0 THEN DefaultBatch ELSE n

\* cursorRegistry.register
Registered(docs) ==
    [id \in DOMAIN cursors \union {next} |->
        IF id = next THEN [docs |-> docs, pos |-> 0, late |-> FALSE] ELSE cursors[id]]

\* cursorReply: the first batch, and a cursor for the rest.
QueryReply(c) ==
    /\ Running(c, "cursor")
    /\ LET docs == run[c].todo
           cut  == Split(docs, BatchSize(Magnitude(Stmt(c).batch)), SingleBatch(Stmt(c)))
           more == cut[2] # <<>>
       IN  /\ cursors' = IF more THEN Registered(cut[2])
                         ELSE cursors
           /\ next' = IF more THEN next + 1 ELSE next
           /\ streams' = Append(streams, [all |-> docs, sent |-> cut[1], over |-> ~more,
                                          cursor |-> IF more THEN next ELSE 0])
    /\ Answer(c, run[c], Absent)
    /\ UNCHANGED <<coll, inserted>>
    /\ OwnStep

Without(id) == [i \in DOMAIN cursors \ {id} |-> cursors[i]]

\* cursorRegistry.batch, for any of the cursors there have been.
GetMore(c, id) ==
    /\ Running(c, "more") /\ id \in 1..next
    /\ IF id \notin DOMAIN cursors
       THEN UNCHANGED <<cursors, streams>> /\ Answer(c, Erred(run[c]), Absent)
       ELSE IF cursors[id].late
       THEN cursors' = Without(id) /\ UNCHANGED streams /\ Answer(c, Erred(run[c]), Absent)
       ELSE LET k   == cursors[id]
                end == Least(k.pos + BatchSize(Stmt(c).batch), Len(k.docs))
            IN  /\ cursors' = IF end = Len(k.docs) THEN Without(id)
                              ELSE [cursors EXCEPT ![id].pos = end]
                /\ streams' = [s \in DOMAIN streams |->
                      IF streams[s].cursor # id THEN streams[s]
                      ELSE [streams[s] EXCEPT !.sent = @ \o SubSeq(k.docs, k.pos + 1, end),
                                              !.over = end = Len(k.docs)]]
                /\ Answer(c, run[c], Absent)
    /\ UNCHANGED <<coll, next, inserted>>
    /\ OwnStep

\* cursorRegistry.kill, of one cursor; n counts the killed.
KillCursors(c, id) ==
    /\ Running(c, "kill") /\ id \in 1..next
    /\ cursors' = Without(id)
    /\ Answer(c, [run[c] EXCEPT !.n = IF id \in DOMAIN cursors THEN 1 ELSE 0], Absent)
    /\ UNCHANGED <<coll, next, streams, inserted>>
    /\ OwnStep

\* Ten minutes pass without a getMore.
Expire(id) ==
    /\ left.ticks > 0 /\ id \in DOMAIN cursors /\ ~cursors[id].late
    /\ left' = [left EXCEPT !.ticks = @ - 1]
    /\ cursors' = [cursors EXCEPT ![id].late = TRUE]
    /\ UNCHANGED <<start, coll, rbac, conn, run, next, replies, streams, inserted>>
    /\ UNCHANGED netVars

-----------------------------------------------------------------------------

NoReply == [done |-> FALSE, n |-> 0, mod |-> 0, errs |-> {}, upto |-> 0, did |-> 0,
            value |-> Absent]

Init ==
    /\ start \in DOMAIN Starts
    /\ left = [cmds |-> DOMAIN Cmds, sasl |-> Starts[start].sasl, rbac |-> Starts[start].rbac,
               hangs |-> Starts[start].hangs, ticks |-> Starts[start].ticks,
               close |-> Starts[start].close]
    /\ coll = Starts[start].docs
    /\ rbac = "off"
    /\ closing = "no"
    /\ IF Starts[start].up
       THEN /\ serve = "accept" /\ ln = "open" /\ tracked = Conns
            /\ conn = [c \in Conns |-> [NewConn EXCEPT !.life = "serving", !.listed = TRUE]]
       ELSE /\ serve = "off" /\ ln = "none" /\ tracked = {}
            /\ conn = [c \in Conns |-> NewConn]
    /\ run = [c \in Conns |-> NoOp]
    /\ cursors = << >> /\ next = 1 /\ streams = <<>>
    /\ replies = [k \in DOMAIN Cmds |-> NoReply]
    /\ inserted = [i \in ToSet(IdOrder) |-> IF i \in DOMAIN coll THEN 1 ELSE 0]

CommandStep(c) ==
    \/ InsertOne(c) \/ StatementFind(c) \/ StatementUpsert(c) \/ StatementRemove(c)
    \/ StatementUpdate(c) \/ QueryFind(c) \/ QueryReply(c)
    \/ \E id \in 1..next : GetMore(c, id) \/ KillCursors(c, id)

Next ==
    \/ ServeBegin \/ AcceptFails \/ CloseBegin \/ CloseAll \/ CloseEnd
    \/ \E c \in Conns :
          \/ Accept(c) \/ Enlist(c) \/ Spawn(c) \/ EndConn(c) \/ HangUp(c)
          \/ \E b \in BOOLEAN : SaslStart(c, b) \/ SaslContinue(c, b)
          \/ \E k \in left.cmds : Begin(c, k)
          \/ CommandStep(c)
    \/ \E r \in {"off", "knows", "refuses"} : RbacChange(r)
    \/ \E id \in DOMAIN cursors : Expire(id)

Spec == Init /\ [][Next]_vars

-----------------------------------------------------------------------------
(* Properties *)

\* The values the variables take; a connection is counted exactly while its
\* goroutine runs (server.go:92-95, 219-249), and every command has one of the
\* phases of its kind.
TypeOK ==
    /\ start \in DOMAIN Starts /\ left.cmds \subseteq DOMAIN Cmds
    /\ \A i \in DOMAIN coll : Is(coll[i], "doc") /\ Field(coll[i], "_id") = Str(i)
    /\ rbac \in {"off", "knows", "refuses"}
    /\ serve \in {"off", "accept", "hold", "ended"} /\ ln \in {"none", "open", "shut"}
    /\ closing \in {"no", "set", "wait", "done"}
    /\ tracked = {c \in Conns : conn[c].life = "serving"}
    /\ \A c \in Conns :
          /\ conn[c].life \in {"new", "accepted", "listed", "serving", "gone"}
          /\ conn[c].sock \in {"open", "peer", "shut"}
          /\ conn[c].scram \in {"nil", "asked", "skips", "proved"}
          /\ conn[c].session \in {"none", "live", "stale"}
          /\ run[c].ph # "idle" => run[c].i \in DOMAIN Cmd(c).stmts
    /\ \A id \in DOMAIN cursors : id < next /\ cursors[id].pos < Len(cursors[id].docs)

\* Close ends the service and waits for no client (server.go:86-121;
\* tools/mls-server/main.go:127-169): once it has closed what it knows, no
\* goroutine that it waits for, or that Serve is about to start, may be left
\* reading from a client that keeps silent, and when it has returned no command
\* runs. Serve counts a connection only after it has given s.mu back, so Close
\* may not wait for it. The types hold as well.
ClosedIsQuiet ==
    /\ TypeOK
    /\ closing \in {"wait", "done"} =>
          \A c \in Conns : conn[c].life \in {"listed", "serving"} => conn[c].sock = "shut"
    /\ closing = "done" => \A c \in Conns : run[c].ph = "idle" /\ ~Reads(c)

\* With AuthUser set only a connection whose client has proved that it knows the
\* password runs commands (server.go:481, scram.go:124-220), through whatever
\* conversations, wrong proofs and changes of the users it got there.
OnlyTheProvedAct ==
    Auth => \A c \in Conns : run[c].ph # "idle" \/ conn[c].authed => conn[c].proved

\* The batches of a find, of whatever connection and size, put one after the other
\* are its documents, each once and in order; what has not been sent is in the
\* cursor, unless that was killed or grew too old (cursor.go:41-67,
\* commands.go:216-255).
BatchesTile ==
    \A s \in DOMAIN streams :
        LET st == streams[s] IN
        /\ st.sent = SubSeq(st.all, 1, Len(st.sent))
        /\ st.over => st.sent = st.all
        /\ st.cursor \in DOMAIN cursors =>
              LET k == cursors[st.cursor]
              IN  st.sent \o SubSeq(k.docs, k.pos + 1, Len(k.docs)) = st.all

\* What a command has counted is what it did to the store; an ordered batch has
\* one error at most, and nothing after it; an unordered one goes to its end
\* (commands.go:12-61, 461-571, 573-631).
RepliesAreTrue ==
    \A k \in DOMAIN replies :
        LET r == replies[k] IN
        r.done /\ Cmds[k].name \in {"insert", "update", "delete", "findAndModify"} =>
          /\ r.mod <= r.did /\ r.did <= r.n
          /\ Cmds[k].name \in {"insert", "delete"} => r.n = r.did
          /\ Cmds[k].name = "insert" => r.n + Cardinality(r.errs) = r.upto
          /\ IF Cmds[k].ordered THEN r.errs \in {{}, {r.upto}} ELSE r.upto = Len(Cmds[k].stmts)
          /\ r.errs = {} => r.upto = Len(Cmds[k].stmts)

\* Clients that take documents away with findAndModify never get one that
\* another has got (commands.go:654-700): find and delete are two calls of the
\* store, and the second may come too late.
TakenOnce ==
    \A i \in DOMAIN inserted :
        Cardinality({k \in DOMAIN replies :
            /\ replies[k].done /\ replies[k].errs = {} /\ replies[k].value # Absent
            /\ Cmds[k].name = "findAndModify" /\ Cmds[k].stmts[1].remove
            /\ IdOf(replies[k].value) = i}) <= inserted[i]

\* The fields an expression names, at the top level.
Named(u) ==
    {x.path[1] : x \in u.ops} \union {x.val[2][1] : x \in {y \in u.ops : y.op = "$rename"}}

\* An update with operators changes no field but those it names, although it
\* was worked out from the document as it was found: what other clients have
\* written since stays (update.go:577-598, commands.go:461-571).
OthersFieldsStay ==
    [][\A c \in Conns :
         run[c] # run'[c] /\ run[c].ph = "each" /\ ~Stmt(c).remove /\ Stmt(c).u.kind = "ops" =>
            \A i \in DOMAIN coll : \A f \in DOMAIN coll[i][2] \union DOMAIN coll'[i][2] :
               Field(coll[i], f) # Field(coll'[i], f) => f \in Named(Stmt(c).u)]_vars

\* Expressions whose paths have nothing to do with each other.
Apart(p, q) == \E i \in DOMAIN p \cap DOMAIN q : p[i] # q[i]
Paths(x) == IF x.op = "$rename" THEN {x.path, x.val[2]} ELSE {x.path}
AllApart(e) == \A x, y \in e : x # y => \A p \in Paths(x), q \in Paths(y) : Apart(p, q)

Exprs == {Cmds[k].stmts[i].u : k \in {k \in DOMAIN Cmds : Cmds[k].name \in {"update", "findAndModify"}},
                               i \in {1}}

Orderly(doc) ==
    \A u \in Exprs :
        \A results \in {ApplyUpdateExpr(doc, u, FALSE)} :
        /\ u.kind = "ops" /\ AllApart(u.ops) => Cardinality(results) = 1
        /\ \A d \in results \ {Failed} :
              LET p == Patched(doc, DiffTopLevel(doc, d))
              IN  \A f \in (DOMAIN p[2] \union DOMAIN d[2]) \ {"_id"} : Field(p, f) = Field(d, f)

\* Go walks the operators of an expression and their paths in any order: if no
\* path leads through another the document does not depend on it
\* (update.go:149-194), and its patch makes of the old document the new one.
OrderIsNoMatter == [][\A i \in DOMAIN coll' :
                      (i \in DOMAIN coll => coll[i] # coll'[i]) => \A d \in {coll'[i]} : Orderly(d)]_coll

Everything == Found([f \in {} |-> Null])

Agreeing(docs) ==
    LET a == <<"a">> b == <<"b">> IN
    /\ \A dir \in {-1, 1} : PageIsFind(docs, <<a, dir>>, 0, 2) /\ PageIsFind(docs, <<a, dir>>, 1, 1)
    /\ UnwindUndoesGroup(docs, a, b) /\ UnwindUndoesGroup(docs, b, a)
    /\ DistinctIsGroups(docs, a)

\* The pages of a pipeline are Find's where Find sorts right (agg.go:109-138,
\* store.go:894-983), its stages undo each other (agg.go:179-408) and agree with
\* distinct (commands.go:395-435), whatever documents the commands have left.
StagesAgree == (\A c \in Conns : run[c].ph = "idle") => Agreeing(Everything)
=============================================================================
