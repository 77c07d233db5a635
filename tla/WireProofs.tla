----------------------------- MODULE WireProofs -----------------------------
(***************************************************************************)
(* Proofs about Wire, for any commands, documents and number of            *)
(* connections: closing leaves nothing behind, only the proved act, the    *)
(* batches of a cursor tile its find, a reply tells what was done, no      *)
(* document is taken twice, and an update leaves the fields it does not    *)
(* name alone.                                                             *)
(*                                                                         *)
(* WInv is the inductive invariant. Its parts: the connections and Close   *)
(* (Net), who has proved the password (OnlyTheProvedAct), which command    *)
(* runs where and what it has counted (Books), the replies                 *)
(* (RepliesAreTrue), the documents and how often each was taken (Store),   *)
(* what has been sent of each find (Tiles), and what a command has at      *)
(* hand (Todos).                                                           *)
(***************************************************************************)
EXTENDS Wire, SequenceTheorems, FiniteSetTheorems, WellFoundedInduction, TLAPS

-----------------------------------------------------------------------------
(* The inductive invariant *)

ASequence(s) == s \in Seq(ToSet(s))

ConnType ==
    [life : {"new", "accepted", "listed", "serving", "gone"},
     sock : {"open", "peer", "shut"}, listed : BOOLEAN,
     scram : {"nil", "asked", "skips", "proved"}, authed : BOOLEAN,
     session : {"none", "live", "stale"}, proved : BOOLEAN]

\* Who is listed can be shut, and after Close has shut them all nobody reads.
Net ==
    /\ start \in DOMAIN Starts
    /\ conn \in [Conns -> ConnType]
    /\ rbac \in {"off", "knows", "refuses"}
    /\ serve \in {"off", "accept", "hold", "ended"} /\ ln \in {"none", "open", "shut"}
    /\ closing \in {"no", "set", "wait", "done"}
    /\ tracked = {c \in Conns : conn[c].life = "serving"}
    /\ \A c \in Conns : conn[c].life \in {"listed", "serving"} => conn[c].listed
    /\ \A c \in Conns : run[c].ph # "idle" => conn[c].life = "serving"
    /\ closing \in {"wait", "done"} =>
          \A c \in Conns : conn[c].life \in {"listed", "serving"} => conn[c].sock = "shut"
    /\ closing = "done" => \A c \in Conns : run[c].ph = "idle"

\* The phases a command of a name goes through.
Phases(name) ==
    CASE name = "insert"      -> {"insert"}
      [] name = "find"        -> {"query", "cursor"}
      [] name = "getMore"     -> {"more"}
      [] name = "killCursors" -> {"kill"}
      [] OTHER                -> {"find", "upsert", "each"}

RunFits(o) ==
    /\ DOMAIN o = {"ph", "k", "i", "todo", "n", "mod", "did", "errs"}
    /\ {o.n, o.mod, o.did} \subseteq Nat

\* What has been counted when upto statements of a command are behind it.
Counted(o, cmd, upto) ==
    /\ o.mod <= o.did /\ o.did <= o.n
    /\ cmd.name \in {"insert", "delete"} => o.n = o.did
    /\ o.errs \subseteq 1..upto
    /\ cmd.name = "insert" => o.n + Cardinality(o.errs) = upto

Books ==
    /\ left \in [cmds : SUBSET DOMAIN Cmds, sasl : Nat, rbac : Nat, hangs : Nat,
                 ticks : Nat, close : Nat]
    /\ DOMAIN run = Conns /\ \A c \in Conns : RunFits(run[c])
    /\ DOMAIN replies = DOMAIN Cmds
    /\ \A k \in left.cmds : ~replies[k].done
    /\ \A c \in Conns : run[c].ph # "idle" =>
          /\ run[c].k \in DOMAIN Cmds \ left.cmds /\ ~replies[run[c].k].done
          /\ run[c].i \in DOMAIN Cmd(c).stmts
          /\ run[c].ph \in Phases(Cmd(c).name)
          /\ Counted(run[c], Cmd(c), run[c].i - 1)
          /\ Cmd(c).ordered => run[c].errs = {}
          /\ \A d \in Conns : run[d].ph # "idle" /\ run[d].k = run[c].k => d = c

\* The commands that have taken the document i.
Takers(i) ==
    {k \in DOMAIN replies :
        /\ replies[k].done /\ replies[k].errs = {} /\ replies[k].value # Absent
        /\ Cmds[k].name = "findAndModify" /\ Cmds[k].stmts[1].remove
        /\ IdOf(replies[k].value) = i}

\* A document is there as often as it was inserted and not been taken.
Store ==
    /\ \A i \in DOMAIN coll : Is(coll[i], "doc") /\ Field(coll[i], "_id") = Str(i)
    /\ DOMAIN inserted = ToSet(IdOrder)
    /\ \A i \in DOMAIN inserted :
          /\ inserted[i] \in Nat
          /\ Cardinality(Takers(i)) + (IF i \in DOMAIN coll THEN 1 ELSE 0) <= inserted[i]

\* What a cursor has not sent yet.
Unsent(k) == SubSeq(k.docs, k.pos + 1, Len(k.docs))

CursorFits(k) ==
    /\ DOMAIN k = {"docs", "pos", "late"}
    /\ ASequence(k.docs) /\ k.pos \in Nat /\ k.pos < Len(k.docs)

\* The batches sent, and what the cursor has not sent, are the documents found.
StreamFits(st, reg, nxt) ==
    /\ DOMAIN st = {"all", "sent", "over", "cursor"}
    /\ ASequence(st.all) /\ ASequence(st.sent)
    /\ st.cursor \in 0..(nxt - 1)
    /\ Len(st.sent) <= Len(st.all) /\ st.sent = SubSeq(st.all, 1, Len(st.sent))
    /\ st.over => st.sent = st.all
    /\ st.cursor \in DOMAIN reg => st.sent \o Unsent(reg[st.cursor]) = st.all

Tiles ==
    /\ next \in Nat \ {0}
    /\ DOMAIN cursors \subseteq 1..(next - 1)
    /\ \A id \in DOMAIN cursors : CursorFits(cursors[id])
    /\ ASequence(streams) /\ \A s \in DOMAIN streams : StreamFits(streams[s], cursors, next)

\* A document that the store can take: it has no _id yet, or a string.
Storable(d) ==
    Field(d, "_id") = Absent \/ (Is(d, "doc") /\ Field(d, "_id") = Str(IdOf(d)))

\* What a command has at hand for its next call.
Todos ==
    \A c \in Conns :
        /\ run[c].ph = "cursor" => ASequence(run[c].todo)
        /\ run[c].ph = "upsert" => Storable(run[c].todo[1])

WInv == Net /\ OnlyTheProvedAct /\ Books /\ RepliesAreTrue /\ Store /\ Tiles /\ Todos

-----------------------------------------------------------------------------
(* Sequences *)

LEMMA AsASeq ==
    ASSUME NEW S, NEW s \in Seq(S)
    PROVE  ASequence(s)
<1>1. s \in [1..Len(s) -> ToSet(s)] /\ Len(s) \in Nat
  BY DEF ToSet
<1>. QED BY <1>1 DEF ASequence

LEMMA SeqFacts ==
    ASSUME NEW s, ASequence(s)
    PROVE  Len(s) \in Nat /\ DOMAIN s = 1..Len(s)
BY DEF ASequence

LEMMA SamePoints ==
    ASSUME NEW s, NEW t, ASequence(s), ASequence(t), Len(s) = Len(t),
           \A i \in 1..Len(s) : s[i] = t[i]
    PROVE  s = t
<1> DEFINE S == ToSet(s) \union ToSet(t)
<1>1. s \in Seq(S) /\ t \in Seq(S)
  BY DEF ASequence
<1>. HIDE DEF S
<1>. QED BY <1>1, SeqEqual

LEMMA FunctionsAreSeqs ==
    ASSUME NEW n \in Nat, NEW s, s = [i \in 1..n |-> s[i]]
    PROVE  ASequence(s) /\ Len(s) = n
<1>1. s \in [1..n -> ToSet(s)] /\ DOMAIN s = 1..n
  BY DEF ToSet
<1>2. s \in Seq(ToSet(s))
  BY <1>1
<1>. QED BY <1>1, <1>2 DEF ASequence

LEMMA Beginnings ==
    ASSUME NEW s, ASequence(s), NEW e \in Nat, e <= Len(s)
    PROVE  /\ ASequence(SubSeq(s, 1, e)) /\ Len(SubSeq(s, 1, e)) = e
           /\ \A i \in 1..e : SubSeq(s, 1, e)[i] = s[i]
<1> DEFINE S == ToSet(s)
           u == SubSeq(s, 1, e)
<1>1. s \in Seq(S) /\ Len(s) \in Nat
  BY DEF ASequence
<1>. HIDE DEF S
<1>2. u \in Seq(S) /\ Len(u) = e /\ \A i \in 1..e : u[i] = s[i]
  BY <1>1
<1>. HIDE DEF u
<1>3. ASequence(u)
  BY <1>2, AsASeq
<1>4. ASequence(u) /\ Len(u) = e /\ \A i \in 1..e : u[i] = s[i]
  BY <1>2, <1>3
<1>. QED BY <1>4 DEF u

LEMMA Slices ==
    ASSUME NEW s, ASequence(s), NEW p \in Nat, NEW e \in Nat, p <= e, e <= Len(s)
    PROVE  /\ ASequence(SubSeq(s, p + 1, e)) /\ Len(SubSeq(s, p + 1, e)) = e - p
           /\ \A i \in 1..(e - p) : SubSeq(s, p + 1, e)[i] = s[p + i]
<1> DEFINE S == ToSet(s)
           u == SubSeq(s, p + 1, e)
<1>1. s \in Seq(S) /\ Len(s) \in Nat
  BY DEF ASequence
<1>. HIDE DEF S
<1>2. u \in Seq(S) /\ Len(u) = e - p /\ \A i \in 1..(e - p) : u[i] = s[p + i]
  BY <1>1
<1>. HIDE DEF u
<1>3. ASequence(u)
  BY <1>2, AsASeq
<1>4. ASequence(u) /\ Len(u) = e - p /\ \A i \in 1..(e - p) : u[i] = s[p + i]
  BY <1>2, <1>3
<1>. QED BY <1>4 DEF u

LEMMA WholeSeq ==
    ASSUME NEW s, ASequence(s)
    PROVE  SubSeq(s, 1, Len(s)) = s
<1> DEFINE u == SubSeq(s, 1, Len(s))
<1>1. Len(s) \in Nat
  BY SeqFacts
<1>2. ASequence(u) /\ Len(u) = Len(s) /\ \A i \in 1..Len(s) : u[i] = s[i]
  BY <1>1, Beginnings
<1>. HIDE DEF u
<1>3. u = s
  BY <1>2, SamePoints
<1>. QED BY <1>3 DEF u

LEMMA Concats ==
    ASSUME NEW s, NEW t, ASequence(s), ASequence(t)
    PROVE  /\ ASequence(s \o t)
           /\ Len(s \o t) = Len(s) + Len(t)
           /\ \A i \in 1..(Len(s) + Len(t)) :
                 (s \o t)[i] = IF i <= Len(s) THEN s[i] ELSE t[i - Len(s)]
<1> DEFINE S == ToSet(s) \union ToSet(t)
<1>1. s \in Seq(S) /\ t \in Seq(S)
  BY DEF ASequence
<1>. HIDE DEF S
<1>2. s \o t \in Seq(S)
  BY <1>1
<1>3. ASequence(s \o t)
  BY <1>2, AsASeq
<1>. QED BY <1>1, <1>3, ConcatProperties

\* Two pieces next to each other are one.
LEMMA PiecesMeet ==
    ASSUME NEW d, ASequence(d), NEW p \in Nat, NEW e \in Nat, p <= e, e <= Len(d)
    PROVE  SubSeq(d, p + 1, e) \o SubSeq(d, e + 1, Len(d)) = SubSeq(d, p + 1, Len(d))
<1> DEFINE n == Len(d)
           u == SubSeq(d, p + 1, e)
           v == SubSeq(d, e + 1, n)
           w == SubSeq(d, p + 1, n)
<1>1. n \in Nat
  BY SeqFacts
<1>2. ASequence(u) /\ Len(u) = e - p /\ \A i \in 1..(e - p) : u[i] = d[p + i]
  BY <1>1, Slices
<1>3. ASequence(v) /\ Len(v) = n - e /\ \A i \in 1..(n - e) : v[i] = d[e + i]
  BY <1>1, Slices
<1>4. ASequence(w) /\ Len(w) = n - p /\ \A i \in 1..(n - p) : w[i] = d[p + i]
  BY <1>1, Slices
<1>. HIDE DEF n, u, v, w
<1>5. /\ ASequence(u \o v) /\ Len(u \o v) = n - p
      /\ \A i \in 1..(n - p) : (u \o v)[i] = IF i <= e - p THEN u[i] ELSE v[i - (e - p)]
  <2>1. Len(u) + Len(v) = n - p
    BY <1>1, <1>2, <1>3
  <2>2. /\ ASequence(u \o v) /\ Len(u \o v) = Len(u) + Len(v)
        /\ \A i \in 1..(Len(u) + Len(v)) :
              (u \o v)[i] = IF i <= Len(u) THEN u[i] ELSE v[i - Len(u)]
    BY <1>2, <1>3, Concats
  <2>. QED BY <1>2, <2>1, <2>2
<1>6. ASSUME NEW i \in 1..(n - p) PROVE (u \o v)[i] = w[i]
  <2>1. CASE i <= e - p
    <3>1. i \in 1..(e - p)
      BY <1>1, <1>6, <2>1
    <3>. QED BY <1>2, <1>4, <1>5, <2>1, <3>1
  <2>2. CASE ~(i <= e - p)
    <3>1. i - (e - p) \in 1..(n - e) /\ e + (i - (e - p)) = p + i
      BY <1>1, <2>2, <1>6
    <3>. QED BY <1>3, <1>4, <1>5, <2>2, <3>1
  <2>. QED BY <2>1, <2>2
<1>7. u \o v = w
  BY <1>4, <1>5, <1>6, SamePoints
<1>. QED BY <1>7 DEF n, u, v, w

LEMMA TwoHalves ==
    ASSUME NEW d, ASequence(d), NEW e \in Nat, e <= Len(d)
    PROVE  SubSeq(d, 1, e) \o SubSeq(d, e + 1, Len(d)) = d
<1> DEFINE one == 0 + 1
<1>1. one = 1
  OBVIOUS
<1>2. SubSeq(d, one, e) \o SubSeq(d, e + 1, Len(d)) = SubSeq(d, one, Len(d))
  <2>1. 0 \in Nat /\ 0 <= e
    OBVIOUS
  <2>. QED BY <2>1, PiecesMeet
<1>. HIDE DEF one
<1>3. SubSeq(d, 1, Len(d)) = d
  BY WholeSeq
<1>. QED BY <1>1, <1>2, <1>3, Zenon

LEMMA AppendedTo ==
    ASSUME NEW s, ASequence(s), NEW e
    PROVE  /\ ASequence(Append(s, e)) /\ DOMAIN Append(s, e) = 1..(Len(s) + 1)
           /\ Append(s, e)[Len(s) + 1] = e
           /\ \A i \in 1..Len(s) : Append(s, e)[i] = s[i]
<1> DEFINE S == ToSet(s) \union {e}
<1>1. s \in Seq(S) /\ e \in S
  BY DEF ASequence
<1>. HIDE DEF S
<1>2. Append(s, e) \in Seq(S)
  BY <1>1
<1>3. ASequence(Append(s, e))
  BY <1>2, AsASeq
<1>. QED BY <1>1, <1>3, AppendProperties

LEMMA ThreePieces ==
    ASSUME NEW u, NEW v, NEW w, ASequence(u), ASequence(v), ASequence(w)
    PROVE  (u \o v) \o w = u \o (v \o w)
<1> DEFINE S == ToSet(u) \union ToSet(v) \union ToSet(w)
<1>1. u \in Seq(S) /\ v \in Seq(S) /\ w \in Seq(S)
  BY DEF ASequence
<1>. HIDE DEF S
<1>. QED BY <1>1, ConcatAssociative

\* The first of two pieces is where their whole begins.
LEMMA FirstPiece ==
    ASSUME NEW u, NEW v, ASequence(u), ASequence(v)
    PROVE  /\ Len(u) <= Len(u \o v)
           /\ u = SubSeq(u \o v, 1, Len(u))
           /\ v = <<>> => u \o v = u
<1>1. Len(u) \in Nat /\ Len(v) \in Nat
  BY SeqFacts
<1> DEFINE d == u \o v
           w == SubSeq(d, 1, Len(u))
<1>2. /\ ASequence(d) /\ Len(d) = Len(u) + Len(v)
      /\ \A i \in 1..(Len(u) + Len(v)) : d[i] = IF i <= Len(u) THEN u[i] ELSE v[i - Len(u)]
  BY Concats
<1>. HIDE DEF d
<1>3. Len(u) <= Len(d) /\ \A i \in 1..Len(u) : d[i] = u[i]
  BY <1>1, <1>2
<1>4. ASequence(w) /\ Len(w) = Len(u) /\ \A i \in 1..Len(u) : w[i] = d[i]
  BY <1>1, <1>2, <1>3, Beginnings
<1>. HIDE DEF w
<1>5. Len(w) = Len(u) /\ \A i \in 1..Len(u) : w[i] = u[i]
  BY <1>3, <1>4
<1>6. w = u
  BY <1>4, <1>5, SamePoints
<1>7. v = <<>> => d = u
  <2>. SUFFICES ASSUME v = <<>> PROVE d = u
    OBVIOUS
  <2>1. Len(v) = 0
    OBVIOUS
  <2>2. Len(d) = Len(u)
    BY <1>1, <1>2, <2>1
  <2>. QED BY <1>2, <1>3, <2>2, SamePoints
<1>. QED BY <1>3, <1>6, <1>7 DEF d, w

-----------------------------------------------------------------------------
(* Commands, and what is not touched *)

LEMMA CmdsFit ==
    ASSUME start \in DOMAIN Starts
    PROVE  /\ Cmds \in Seq(ToSet(Cmds)) /\ IsFiniteSet(DOMAIN Cmds)
           /\ \A k \in DOMAIN Cmds : CommandFits(Cmds[k])
<1>1. Cmds \in Seq(ToSet(Cmds)) /\ \A k \in DOMAIN Cmds : CommandFits(Cmds[k])
  BY WireAssumption DEF StartFits, Cmds
<1> DEFINE n == Len(Cmds)
<1>2. DOMAIN Cmds = 1..n /\ n \in Nat
  BY <1>1
<1>3. IsFiniteSet(1..n)
  <2>. HIDE DEF n
  <2>. QED BY <1>2, FS_Interval
<1>. QED BY <1>1, <1>2, <1>3

LEMMA StmtsFit ==
    ASSUME NEW cmd, CommandFits(cmd)
    PROVE  /\ Len(cmd.stmts) \in Nat /\ 1 <= Len(cmd.stmts)
           /\ DOMAIN cmd.stmts = 1..Len(cmd.stmts)
           /\ cmd.name \notin {"insert", "update", "delete"} => DOMAIN cmd.stmts = {1}
<1> DEFINE s == cmd.stmts
           S == ToSet(cmd.stmts)
<1>1. s \in Seq(S) /\ s # <<>>
  BY DEF CommandFits
<1>2. cmd.name \notin {"insert", "update", "delete"} => Len(s) = 1
  BY DEF CommandFits
<1>. HIDE DEF s, S
<1>3. Len(s) \in Nat /\ 1 <= Len(s) /\ DOMAIN s = 1..Len(s)
  BY <1>1
<1>4. cmd.name \notin {"insert", "update", "delete"} => DOMAIN s = {1}
  BY <1>2, <1>3
<1>. QED BY <1>3, <1>4 DEF s

\* A step that runs no command and leaves the documents and cursors alone.
LEMMA NothingRuns ==
    ASSUME Books, RepliesAreTrue, Store, Tiles, Todos,
           UNCHANGED <<start, run, replies>>, UNCHANGED dataVars,
           left'.cmds = left.cmds,
           left' \in [cmds : SUBSET DOMAIN Cmds, sasl : Nat, rbac : Nat, hangs : Nat,
                      ticks : Nat, close : Nat]
    PROVE  Books' /\ RepliesAreTrue' /\ Store' /\ Tiles' /\ Todos'
<1>. USE DEF dataVars
<1>1. Cmds' = Cmds /\ \A c \in Conns : Cmd(c)' = Cmd(c)
  BY DEF Cmds, Cmd
<1>2. Books'
  BY <1>1 DEF Books, RunFits, Counted
<1>3. RepliesAreTrue'
  BY <1>1 DEF RepliesAreTrue
<1>4. Store'
  <2>1. \A i : Takers(i)' = Takers(i)
    BY <1>1 DEF Takers
  <2>. QED BY <2>1 DEF Store
<1>5. Tiles'
  BY DEF Tiles
<1>6. Todos'
  BY DEF Todos
<1>. QED BY <1>2, <1>3, <1>4, <1>5, <1>6

-----------------------------------------------------------------------------
(* The life cycle and SCRAM *)

LEMMA LeftStays ==
    ASSUME Books, UNCHANGED left
    PROVE  /\ left'.cmds = left.cmds
           /\ left' \in [cmds : SUBSET DOMAIN Cmds, sasl : Nat, rbac : Nat, hangs : Nat,
                         ticks : Nat, close : Nat]
BY DEF Books

LEMMA ServeBeginKeeps ==
    ASSUME WInv, ServeBegin
    PROVE  WInv'
<1>. USE DEF ServeBegin
<1>1. Net'
  BY DEF WInv, Net
<1>2. OnlyTheProvedAct'
  BY DEF WInv, OnlyTheProvedAct, Auth
<1>3. Books' /\ RepliesAreTrue' /\ Store' /\ Tiles' /\ Todos'
  BY LeftStays, NothingRuns DEF WInv
<1>. QED BY <1>1, <1>2, <1>3 DEF WInv

LEMMA AcceptFailsKeeps ==
    ASSUME WInv, AcceptFails
    PROVE  WInv'
<1>. USE DEF AcceptFails
<1>1. Net'
  BY DEF WInv, Net
<1>2. OnlyTheProvedAct'
  BY DEF WInv, OnlyTheProvedAct, Auth
<1>3. Books' /\ RepliesAreTrue' /\ Store' /\ Tiles' /\ Todos'
  BY LeftStays, NothingRuns DEF WInv
<1>. QED BY <1>1, <1>2, <1>3 DEF WInv

LEMMA AcceptKeeps ==
    ASSUME WInv, NEW c \in Conns, Accept(c)
    PROVE  WInv'
<1>. USE DEF Accept
<1>1. Net'
  BY DEF WInv, Net, ConnType
<1>2. OnlyTheProvedAct'
  BY DEF WInv, Net, ConnType, OnlyTheProvedAct, Auth
<1>3. Books' /\ RepliesAreTrue' /\ Store' /\ Tiles' /\ Todos'
  BY LeftStays, NothingRuns DEF WInv
<1>. QED BY <1>1, <1>2, <1>3 DEF WInv

LEMMA EnlistKeeps ==
    ASSUME WInv, NEW c \in Conns, Enlist(c)
    PROVE  WInv'
<1>. USE DEF Enlist, TooLate, Closed
<1>1. Net'
  BY DEF WInv, Net, ConnType
<1>2. OnlyTheProvedAct'
  BY DEF WInv, Net, ConnType, OnlyTheProvedAct, Auth
<1>3. Books' /\ RepliesAreTrue' /\ Store' /\ Tiles' /\ Todos'
  BY LeftStays, NothingRuns DEF WInv
<1>. QED BY <1>1, <1>2, <1>3 DEF WInv

LEMMA SpawnKeeps ==
    ASSUME WInv, NEW c \in Conns, Spawn(c)
    PROVE  WInv'
<1>. USE DEF Spawn
<1>1. Net'
  BY DEF WInv, Net, ConnType
<1>2. OnlyTheProvedAct'
  BY DEF WInv, Net, ConnType, OnlyTheProvedAct, Auth
<1>3. Books' /\ RepliesAreTrue' /\ Store' /\ Tiles' /\ Todos'
  BY LeftStays, NothingRuns DEF WInv
<1>. QED BY <1>1, <1>2, <1>3 DEF WInv

LEMMA EndConnKeeps ==
    ASSUME WInv, NEW c \in Conns, EndConn(c)
    PROVE  WInv'
<1>. USE DEF EndConn, Running
<1>1. Net'
  BY DEF WInv, Net, ConnType
<1>2. OnlyTheProvedAct'
  BY DEF WInv, Net, ConnType, OnlyTheProvedAct, Auth
<1>3. Books' /\ RepliesAreTrue' /\ Store' /\ Tiles' /\ Todos'
  BY LeftStays, NothingRuns DEF WInv
<1>. QED BY <1>1, <1>2, <1>3 DEF WInv

LEMMA HangUpKeeps ==
    ASSUME WInv, NEW c \in Conns, HangUp(c)
    PROVE  WInv'
<1>. USE DEF HangUp, netVars
<1>1. Net'
  BY DEF WInv, Net, ConnType
<1>2. OnlyTheProvedAct'
  BY DEF WInv, Net, ConnType, OnlyTheProvedAct, Auth
<1>3. Books' /\ RepliesAreTrue' /\ Store' /\ Tiles' /\ Todos'
  <2>1. /\ left'.cmds = left.cmds
        /\ left' \in [cmds : SUBSET DOMAIN Cmds, sasl : Nat, rbac : Nat, hangs : Nat,
                      ticks : Nat, close : Nat]
    BY DEF WInv, Books
  <2>. QED BY <2>1, NothingRuns DEF WInv
<1>. QED BY <1>1, <1>2, <1>3 DEF WInv

LEMMA CloseBeginKeeps ==
    ASSUME WInv, CloseBegin
    PROVE  WInv'
<1>. USE DEF CloseBegin
<1>1. Net'
  BY DEF WInv, Net
<1>2. OnlyTheProvedAct'
  BY DEF WInv, OnlyTheProvedAct, Auth
<1>3. Books' /\ RepliesAreTrue' /\ Store' /\ Tiles' /\ Todos'
  <2>1. /\ left'.cmds = left.cmds
        /\ left' \in [cmds : SUBSET DOMAIN Cmds, sasl : Nat, rbac : Nat, hangs : Nat,
                      ticks : Nat, close : Nat]
    BY DEF WInv, Books
  <2>. QED BY <2>1, NothingRuns DEF WInv
<1>. QED BY <1>1, <1>2, <1>3 DEF WInv

\* All that are listed are shut, and so are all that are about to be served.
LEMMA CloseAllKeeps ==
    ASSUME WInv, CloseAll
    PROVE  WInv'
<1>. USE DEF CloseAll, Shut
<1>1. conn' \in [Conns -> ConnType]
  BY DEF WInv, Net, ConnType
<1>2. \A c \in Conns :
         /\ conn'[c].life = conn[c].life /\ conn'[c].listed = conn[c].listed
         /\ conn'[c].authed = conn[c].authed /\ conn'[c].proved = conn[c].proved
         /\ conn[c].listed => conn'[c].sock = "shut"
  BY DEF WInv, Net, ConnType
<1>3. Net'
  BY <1>1, <1>2 DEF WInv, Net
<1>4. OnlyTheProvedAct'
  BY <1>2 DEF WInv, OnlyTheProvedAct, Auth
<1>5. Books' /\ RepliesAreTrue' /\ Store' /\ Tiles' /\ Todos'
  BY LeftStays, NothingRuns DEF WInv
<1>. QED BY <1>3, <1>4, <1>5 DEF WInv

LEMMA CloseEndKeeps ==
    ASSUME WInv, CloseEnd
    PROVE  WInv'
<1>. USE DEF CloseEnd
<1>1. Net'
  BY DEF WInv, Net
<1>2. OnlyTheProvedAct'
  BY DEF WInv, OnlyTheProvedAct, Auth
<1>3. Books' /\ RepliesAreTrue' /\ Store' /\ Tiles' /\ Todos'
  BY LeftStays, NothingRuns DEF WInv
<1>. QED BY <1>1, <1>2, <1>3 DEF WInv

LEMMA SaslSpent ==
    ASSUME Books, Sasl
    PROVE  /\ left'.cmds = left.cmds
           /\ left' \in [cmds : SUBSET DOMAIN Cmds, sasl : Nat, rbac : Nat, hangs : Nat,
                         ticks : Nat, close : Nat]
BY DEF Books, Sasl

LEMMA SaslStartKeeps ==
    ASSUME WInv, NEW c \in Conns, NEW skip \in BOOLEAN, SaslStart(c, skip)
    PROVE  WInv'
<1>. USE DEF SaslStart, netVars
<1>1. Net'
  BY DEF WInv, Net, ConnType
<1>2. OnlyTheProvedAct'
  BY DEF WInv, Net, ConnType, OnlyTheProvedAct, Auth
<1>3. Books' /\ RepliesAreTrue' /\ Store' /\ Tiles' /\ Todos'
  BY SaslSpent, NothingRuns DEF WInv
<1>. QED BY <1>1, <1>2, <1>3 DEF WInv

\* A conversation moves nothing of a connection but what it is about.
LEMMA ContinuedFits ==
    ASSUME NEW k \in ConnType, NEW right \in BOOLEAN
    PROVE  /\ Continued(k, right) \in ConnType
           /\ Continued(k, right).life = k.life /\ Continued(k, right).sock = k.sock
           /\ Continued(k, right).listed = k.listed
           /\ Continued(k, right).proved = k.proved
           /\ Continued(k, right).authed => k.authed \/ (right /\ k.scram # "proved")
<1> DEFINE Fits(o) ==
              /\ o \in ConnType /\ o.life = k.life /\ o.sock = k.sock /\ o.listed = k.listed
              /\ o.proved = k.proved /\ (o.authed => k.authed \/ (right /\ k.scram # "proved"))
<1>1. Fits([k EXCEPT !.scram = "nil"]) /\ Fits(k)
      /\ Fits([k EXCEPT !.authed = FALSE, !.scram = "nil"])
  BY DEF ConnType
<1>2. CASE k.scram = "proved"
  BY <1>1, <1>2, Zenon DEF Continued
<1>3. CASE k.scram # "proved" /\ ~Authenticated(k, right)
  BY <1>1, <1>3, Zenon DEF Continued
<1>4. CASE k.scram # "proved" /\ Authenticated(k, right) /\ rbac = "refuses"
  BY <1>1, <1>4, Zenon DEF Continued
<1>5. CASE k.scram # "proved" /\ Authenticated(k, right) /\ rbac # "refuses"
  <2> DEFINE o == [k EXCEPT !.authed = TRUE,
                            !.scram = IF @ = "skips" THEN "nil" ELSE "proved",
                            !.session = IF rbac = "knows" THEN "live" ELSE @]
  <2>1. right
    BY <1>5, Zenon DEF Authenticated
  <2>2. o \in ConnType /\ o.life = k.life /\ o.sock = k.sock /\ o.listed = k.listed
        /\ o.proved = k.proved
    BY DEF ConnType
  <2>3. Continued(k, right) = o
    BY <1>5, Zenon DEF Continued
  <2>. HIDE DEF o
  <2>. QED BY <1>5, <2>1, <2>2, <2>3, Zenon
<1>. QED BY <1>2, <1>3, <1>4, <1>5, Zenon

LEMMA SaslContinueKeeps ==
    ASSUME WInv, NEW c \in Conns, NEW right \in BOOLEAN, SaslContinue(c, right)
    PROVE  WInv'
<1> DEFINE k == Continued(conn[c], right)
           after == [k EXCEPT !.proved = @ \/ (right /\ conn[c].scram # "proved")]
<1>1. conn \in [Conns -> ConnType] /\ conn[c] \in ConnType
  BY DEF WInv, Net
<1>2. /\ k \in ConnType
      /\ k.life = conn[c].life /\ k.sock = conn[c].sock /\ k.listed = conn[c].listed
      /\ k.proved = conn[c].proved
      /\ k.authed => conn[c].authed \/ (right /\ conn[c].scram # "proved")
  BY <1>1, ContinuedFits, Zenon
<1>3. conn' = [conn EXCEPT ![c] = after]
  BY DEF SaslContinue
<1>. HIDE DEF k
<1>4. /\ after \in ConnType
      /\ after.life = conn[c].life /\ after.sock = conn[c].sock
      /\ after.listed = conn[c].listed
      /\ after.authed => after.proved \/ conn[c].authed
      /\ conn[c].proved => after.proved
  BY <1>2 DEF ConnType
<1>. HIDE DEF after
<1>5. /\ conn' \in [Conns -> ConnType]
      /\ \A d \in Conns :
            /\ conn'[d].life = conn[d].life /\ conn'[d].sock = conn[d].sock
            /\ conn'[d].listed = conn[d].listed
            /\ conn'[d].authed => conn'[d].proved \/ conn[d].authed
            /\ conn[d].proved => conn'[d].proved
  BY <1>1, <1>3, <1>4
<1>6. UNCHANGED <<start, rbac, run, replies, serve, ln, closing, tracked>>
  BY DEF SaslContinue, netVars
<1>7. Net'
  BY <1>5, <1>6 DEF WInv, Net
<1>8. OnlyTheProvedAct'
  BY <1>5, <1>6 DEF WInv, OnlyTheProvedAct, Auth
<1>9. Books' /\ RepliesAreTrue' /\ Store' /\ Tiles' /\ Todos'
  BY SaslSpent, NothingRuns DEF WInv, SaslContinue
<1>. QED BY <1>7, <1>8, <1>9 DEF WInv

LEMMA RbacChangeKeeps ==
    ASSUME WInv, NEW r \in {"off", "knows", "refuses"}, RbacChange(r)
    PROVE  WInv'
<1>. USE DEF RbacChange
<1>1. conn' \in [Conns -> ConnType]
  BY DEF WInv, Net, ConnType
<1>2. \A c \in Conns :
         /\ conn'[c].life = conn[c].life /\ conn'[c].listed = conn[c].listed
         /\ conn'[c].authed = conn[c].authed /\ conn'[c].proved = conn[c].proved
         /\ conn'[c].sock = conn[c].sock
  BY DEF WInv, Net, ConnType
<1>3. Net'
  BY <1>1, <1>2 DEF WInv, Net, netVars
<1>4. OnlyTheProvedAct'
  BY <1>2 DEF WInv, OnlyTheProvedAct, Auth
<1>5. Books' /\ RepliesAreTrue' /\ Store' /\ Tiles' /\ Todos'
  <2>1. /\ left'.cmds = left.cmds
        /\ left' \in [cmds : SUBSET DOMAIN Cmds, sasl : Nat, rbac : Nat, hangs : Nat,
                      ticks : Nat, close : Nat]
    BY DEF WInv, Books
  <2>. QED BY <2>1, NothingRuns DEF WInv
<1>. QED BY <1>3, <1>4, <1>5 DEF WInv

-----------------------------------------------------------------------------
(* A command begins; a cursor grows too old *)

\* Cursors that are gone leave what was sent as it is.
LEMMA CursorsGo ==
    ASSUME Tiles, UNCHANGED <<next, streams>>, NEW G,
           cursors' = [id \in DOMAIN cursors \ G |-> cursors[id]]
    PROVE  Tiles'
<1>1. /\ DOMAIN cursors' \subseteq DOMAIN cursors
      /\ \A id \in DOMAIN cursors' : cursors'[id] = cursors[id]
  OBVIOUS
<1>2. \A s \in DOMAIN streams : StreamFits(streams[s], cursors, next) =>
                                  StreamFits(streams[s], cursors', next)
  BY <1>1 DEF StreamFits
<1>. QED BY <1>1, <1>2 DEF Tiles

LEMMA BeginKeeps ==
    ASSUME WInv, NEW c \in Conns, NEW k \in left.cmds, Begin(c, k)
    PROVE  WInv'
<1> DEFINE o == [NoOp EXCEPT !.ph = FirstPhase(Cmds[k].name), !.k = k, !.i = 1]
<1>1. k \in DOMAIN Cmds /\ CommandFits(Cmds[k]) /\ start \in DOMAIN Starts
  BY CmdsFit DEF WInv, Net, Books
<1>2. 1 \in DOMAIN Cmds[k].stmts
  BY <1>1, StmtsFit
<1>3. Cmds' = Cmds /\ \A d \in Conns : run'[d] = run[d] => Cmd(d)' = Cmd(d)
  BY DEF Begin, Cmds, Cmd
<1>4. /\ run[c].ph = "idle" /\ conn[c].life = "serving" /\ conn[c].sock # "shut"
      /\ UNCHANGED <<start, coll, rbac, conn, next, replies, streams, inserted>>
      /\ UNCHANGED <<serve, ln, closing, tracked>>
      /\ left' = [left EXCEPT !.cmds = @ \ {k}]
      /\ run' = (IF Gate(c) THEN [run EXCEPT ![c] = o] ELSE run)
  BY DEF Begin, Reads, Running, netVars
<1>5. /\ RunFits(o)
      /\ o.k = k /\ o.i = 1 /\ o.n = 0 /\ o.mod = 0 /\ o.did = 0 /\ o.errs = {}
      /\ o.ph = FirstPhase(Cmds[k].name)
  BY DEF NoOp, RunFits
<1>5a. /\ o.ph \in Phases(Cmds[k].name) /\ o.ph \notin {"idle", "cursor", "upsert"}
       /\ Counted(o, Cmds[k], 0)
  <2>. HIDE DEF o
  <2>1. Cardinality({}) = 0
    BY FS_EmptySet
  <2>2. Counted(o, Cmds[k], 0)
    BY <1>5, <2>1 DEF Counted
  <2>. QED BY <1>5, <2>2 DEF FirstPhase, Phases
<1>. HIDE DEF o
<1>6. DOMAIN run = Conns
  BY DEF WInv, Books
<1>7. Net'
  BY <1>4, <1>6 DEF WInv, Net
<1>8. OnlyTheProvedAct'
  BY <1>4, <1>6 DEF WInv, OnlyTheProvedAct, Gate, Auth
<1>9. Books'
  <2>1. left' \in [cmds : SUBSET DOMAIN Cmds, sasl : Nat, rbac : Nat, hangs : Nat,
                   ticks : Nat, close : Nat]
        /\ left'.cmds = left.cmds \ {k}
    BY <1>4 DEF WInv, Books
  <2>2. CASE Gate(c)
    <3>1. run' = [run EXCEPT ![c] = o] /\ \A d \in Conns \ {c} : run'[d] = run[d]
      BY <1>4, <1>6, <2>2
    <3>2. run'[c] = o /\ Cmd(c)' = Cmds[k] /\ DOMAIN run' = Conns
      BY <1>3, <1>5, <1>6, <3>1 DEF Cmd
    <3>3. \A d \in Conns : RunFits(run'[d])
      <4>2. \A d \in Conns : RunFits(run[d])
        BY DEF WInv, Books
      <4>. QED BY <1>5, <3>1, <3>2, <4>2
    <3>4. ~replies[k].done /\ \A d \in Conns \ {c} : run[d].ph # "idle" => run[d].k # k
      BY DEF WInv, Books
    <3>5. ASSUME NEW d \in Conns, run'[d].ph # "idle"
          PROVE  /\ run'[d].k \in DOMAIN Cmds' \ left'.cmds /\ ~replies'[run'[d].k].done
                 /\ run'[d].i \in DOMAIN Cmd(d)'.stmts
                 /\ run'[d].ph \in Phases(Cmd(d)'.name)
                 /\ Counted(run'[d], Cmd(d)', run'[d].i - 1)
                 /\ Cmd(d)'.ordered => run'[d].errs = {}
                 /\ \A e \in Conns : run'[e].ph # "idle" /\ run'[e].k = run'[d].k => e = d
      <4>1. CASE d = c
        <5>1. Counted(o, Cmds[k], o.i - 1)
          <6>1. o.i - 1 = 0
            BY <1>5
          <6>. QED BY <1>5a, <6>1
        <5>. QED BY <1>1, <1>2, <1>3, <1>4, <1>5, <1>5a, <2>1, <3>1, <3>2, <3>4, <4>1, <5>1
      <4>2. CASE d # c
        <5>. QED BY <1>3, <1>4, <1>5, <2>1, <3>1, <3>2, <3>4, <3>5, <4>2 DEF WInv, Books
      <4>. QED BY <4>1, <4>2
    <3>. QED BY <1>3, <1>4, <2>1, <3>2, <3>3, <3>5 DEF WInv, Books
  <2>3. CASE ~Gate(c)
    <3>1. run' = run
      BY <1>4, <2>3
    <3>. QED BY <1>3, <1>4, <2>1, <3>1 DEF WInv, Books, RunFits, Counted
  <2>. QED BY <2>2, <2>3
<1>10. RepliesAreTrue'
  BY <1>3, <1>4 DEF WInv, RepliesAreTrue
<1>11. Store'
  <2>1. \A i : Takers(i)' = Takers(i)
    BY <1>3, <1>4 DEF Takers
  <2>. QED BY <1>4, <2>1 DEF WInv, Store
<1>12. Tiles'
  <2> DEFINE G == {i \in DOMAIN cursors : cursors[i].late}
  <2>1. cursors' = [id \in DOMAIN cursors \ G |-> cursors[id]]
    <3>1. {i \in DOMAIN cursors : ~cursors[i].late} = DOMAIN cursors \ G
      OBVIOUS
    <3>. QED BY <3>1 DEF Begin, Swept
  <2>. HIDE DEF G
  <2>. QED BY <1>4, <2>1, CursorsGo DEF WInv
<1>13. Todos'
  BY <1>4, <1>5a, <1>6 DEF WInv, Todos
<1>. QED BY <1>7, <1>8, <1>9, <1>10, <1>11, <1>12, <1>13 DEF WInv

LEMMA ExpireKeeps ==
    ASSUME WInv, NEW id \in DOMAIN cursors, Expire(id)
    PROVE  WInv'
<1>1. /\ UNCHANGED <<start, coll, rbac, conn, run, next, replies, streams, inserted>>
      /\ UNCHANGED <<serve, ln, closing, tracked>>
      /\ cursors' = [cursors EXCEPT ![id].late = TRUE]
      /\ left' = [left EXCEPT !.ticks = @ - 1] /\ left.ticks > 0
  BY DEF Expire, netVars
<1>2. Cmds' = Cmds /\ \A c \in Conns : Cmd(c)' = Cmd(c)
  BY <1>1 DEF Cmds, Cmd
<1>3. Net'
  BY <1>1 DEF WInv, Net
<1>4. OnlyTheProvedAct'
  BY <1>1 DEF WInv, OnlyTheProvedAct, Auth
<1>5. Books'
  <2>1. /\ left'.cmds = left.cmds
        /\ left' \in [cmds : SUBSET DOMAIN Cmds, sasl : Nat, rbac : Nat, hangs : Nat,
                      ticks : Nat, close : Nat]
    BY <1>1 DEF WInv, Books
  <2>. QED BY <1>1, <1>2, <2>1 DEF WInv, Books, RunFits, Counted
<1>6. RepliesAreTrue'
  BY <1>1, <1>2 DEF WInv, RepliesAreTrue
<1>7. Store'
  <2>1. \A i : Takers(i)' = Takers(i)
    BY <1>1, <1>2 DEF Takers
  <2>. QED BY <1>1, <2>1 DEF WInv, Store
<1>8. Tiles'
  <2> DEFINE k == cursors[id]
             old == [k EXCEPT !.late = TRUE]
  <2>1. DOMAIN k = {"docs", "pos", "late"}
    BY DEF WInv, Tiles, CursorFits
  <2>2. DOMAIN old = {"docs", "pos", "late"}
    BY <2>1
  <2>3. cursors' = [cursors EXCEPT ![id] = old]
    BY <1>1
  <2>4. old.docs = k.docs /\ old.pos = k.pos
    BY <2>1
  <2>5. CursorFits(k)
    BY DEF WInv, Tiles
  <2>6. CursorFits(old)
    BY <2>2, <2>4, <2>5 DEF CursorFits
  <2>7. Unsent(old) = Unsent(k)
    BY <2>4 DEF Unsent
  <2>. HIDE DEF old
  <2>8. /\ DOMAIN cursors' = DOMAIN cursors
        /\ \A i \in DOMAIN cursors : CursorFits(cursors'[i]) /\ Unsent(cursors'[i]) = Unsent(cursors[i])
    BY <2>3, <2>6, <2>7 DEF WInv, Tiles
  <2>9. \A s \in DOMAIN streams : StreamFits(streams[s], cursors, next) =>
                                  StreamFits(streams[s], cursors', next)
    BY <1>1, <2>8 DEF StreamFits
  <2>. QED BY <1>1, <2>8, <2>9 DEF WInv, Tiles
<1>9. Todos'
  BY <1>1 DEF WInv, Todos
<1>. QED BY <1>3, <1>4, <1>5, <1>6, <1>7, <1>8, <1>9 DEF WInv

-----------------------------------------------------------------------------
(* What a command has counted *)

\* What a step of the command of c leaves of the books.
Stays(c) ==
    /\ Books' /\ RepliesAreTrue'
    /\ \A d \in Conns \ {c} : run'[d] = run[d]
    /\ run'[c].ph \notin {"cursor", "upsert"}

\* It has not answered, or with these errors and this value.
Replied(c, errs, value) ==
    \/ UNCHANGED replies
    \/ \E r : /\ r.errs = errs /\ r.value = value
              /\ replies' = [replies EXCEPT ![run[c].k] = r]

\* A command of c that has got so far.
Fits(c, o, upto) ==
    /\ RunFits(o) /\ o.k = run[c].k /\ o.i = run[c].i
    /\ Counted(o, Cmd(c), upto)

Writing == {"insert", "update", "delete", "findAndModify"}

LEMMA CommandOf ==
    ASSUME WInv, NEW c \in Conns, run[c].ph # "idle"
    PROVE  /\ CommandFits(Cmd(c)) /\ run[c].k \in DOMAIN Cmds
           /\ run[c].i \in Nat /\ 1 <= run[c].i /\ run[c].i <= Len(Cmd(c).stmts)
           /\ Len(Cmd(c).stmts) \in Nat
           /\ Cmd(c).name \notin {"insert", "update", "delete"} => run[c].i = 1
           /\ run[c].ph \in Phases(Cmd(c).name)
           /\ Fits(c, run[c], run[c].i - 1)
           /\ Cmd(c).ordered => run[c].errs = {}
<1>1. /\ run[c].k \in DOMAIN Cmds /\ run[c].i \in DOMAIN Cmd(c).stmts
      /\ run[c].ph \in Phases(Cmd(c).name)
      /\ Counted(run[c], Cmd(c), run[c].i - 1)
      /\ Cmd(c).ordered => run[c].errs = {}
      /\ RunFits(run[c])
  BY DEF WInv, Books
<1>2. CommandFits(Cmd(c))
  BY <1>1, CmdsFit DEF WInv, Net, Cmd
<1>3. /\ Len(Cmd(c).stmts) \in Nat /\ DOMAIN Cmd(c).stmts = 1..Len(Cmd(c).stmts)
      /\ Cmd(c).name \notin {"insert", "update", "delete"} => DOMAIN Cmd(c).stmts = {1}
  BY <1>2, StmtsFit
<1>. QED BY <1>1, <1>2, <1>3 DEF Fits

LEMMA WritesOnly ==
    ASSUME NEW cmd, CommandFits(cmd), NEW ph, ph \in Phases(cmd.name)
    PROVE  /\ ph \in {"insert", "find", "upsert", "each"} => cmd.name \in Writing
           /\ ph = "insert" <=> cmd.name = "insert"
           /\ ph \in {"query", "cursor"} => cmd.name = "find"
           /\ ph = "more" => cmd.name = "getMore"
           /\ ph = "kill" => cmd.name = "killCursors"
           /\ ph \in {"find", "upsert", "each"} =>
                 cmd.name \in {"update", "delete", "findAndModify"}
BY DEF CommandFits, Phases, Writing

\* Nobody else's command is touched, and the one of c stays what it was.
LEMMA CommandNet ==
    ASSUME Net, OnlyTheProvedAct, OwnStep, NEW c \in Conns, run[c].ph # "idle",
           \A d \in Conns \ {c} : run'[d] = run[d]
    PROVE  Net' /\ OnlyTheProvedAct'
<1>1. UNCHANGED <<start, left, rbac, conn, serve, ln, closing, tracked>>
  BY DEF OwnStep, netVars
<1>2. Net'
  BY <1>1 DEF Net
<1>3. OnlyTheProvedAct'
  BY <1>1 DEF OnlyTheProvedAct, Auth
<1>. QED BY <1>2, <1>3

LEMMA UpToFinite ==
    ASSUME NEW i \in Nat
    PROVE  IsFiniteSet(1..(i - 1))
<1> DEFINE m == i - 1
<1>1. m \in Int
  OBVIOUS
<1>. HIDE DEF m
<1>2. IsFiniteSet(1..m)
  BY <1>1, FS_Interval
<1>. QED BY <1>2 DEF m

LEMMA FirstPhases ==
    ASSUME NEW name
    PROVE  FirstPhase(name) \in Phases(name) \ {"idle", "cursor", "upsert"}
BY DEF FirstPhase, Phases

LEMMA ErredFits ==
    ASSUME NEW c, NEW o, Fits(c, o, o.i - 1), o.i \in Nat, 1 <= o.i,
           Cmd(c).ordered => o.errs = {}
    PROVE  /\ Fits(c, Erred(o), o.i) /\ Erred(o).errs # {}
           /\ Cmd(c).ordered => Erred(o).errs \subseteq {o.i}
<1> DEFINE e == Erred(o)
<1>1. /\ RunFits(e) /\ e.k = o.k /\ e.i = o.i /\ e.n = o.n /\ e.mod = o.mod /\ e.did = o.did
      /\ e.errs = o.errs \union {o.i}
  BY DEF Erred, Fits, RunFits
<1>. HIDE DEF e
<1>2. o.errs \subseteq 1..(o.i - 1) /\ IsFiniteSet(1..(o.i - 1)) /\ o.i \notin o.errs
  <2>2. IsFiniteSet(1..(o.i - 1))
    BY UpToFinite
  <2>. QED BY <2>2 DEF Fits, Counted
<1>3. Cardinality(e.errs) = Cardinality(o.errs) + 1 /\ Cardinality(o.errs) \in Nat
  <2>1. IsFiniteSet(o.errs)
    BY <1>2, FS_Subset
  <2>2. Cardinality(o.errs \union {o.i}) = Cardinality(o.errs) + 1
    BY <1>2, <2>1, FS_AddElement
  <2>3. Cardinality(o.errs) \in Nat
    BY <2>1, FS_CardinalityType
  <2>. QED BY <1>1, <2>2, <2>3
<1>4. Counted(e, Cmd(c), o.i)
  <2>1. e.errs \subseteq 1..o.i
    BY <1>1, <1>2
  <2>2. o.n \in Nat /\ (Cmd(c).name = "insert" => o.n + Cardinality(o.errs) = o.i - 1)
    BY DEF Fits, Counted, RunFits
  <2>3. Cmd(c).name = "insert" => e.n + Cardinality(e.errs) = o.i
    BY <1>1, <1>3, <2>2
  <2>. QED BY <1>1, <2>1, <2>3 DEF Fits, Counted
<1>5. Fits(c, e, o.i)
  BY <1>1, <1>4 DEF Fits
<1>. QED BY <1>1, <1>5 DEF e

\* One more is done.
LEMMA DoneFits ==
    ASSUME NEW c, NEW o, Fits(c, o, o.i - 1), o.i \in Nat, 1 <= o.i
    PROVE  /\ Fits(c, Done(o), o.i)
           /\ Done(o).errs = o.errs /\ Done(o).ph = o.ph /\ Done(o).todo = o.todo
           /\ Cmd(c).name # "insert" => Fits(c, Done(o), o.i - 1)
<1> DEFINE p == Done(o)
<1>1. /\ RunFits(p) /\ p.k = o.k /\ p.i = o.i /\ p.n = o.n + 1 /\ p.mod = o.mod
      /\ p.did = o.did + 1 /\ p.errs = o.errs /\ p.ph = o.ph /\ p.todo = o.todo
  BY DEF Fits, RunFits, Done
<1>. HIDE DEF p
<1>2. IsFiniteSet(o.errs) /\ Cardinality(o.errs) \in Nat
  <2>1. IsFiniteSet(1..(o.i - 1))
    BY UpToFinite
  <2>2. IsFiniteSet(o.errs)
    BY <2>1, FS_Subset DEF Fits, Counted
  <2>. QED BY <2>2, FS_CardinalityType
<1>3. {o.n, o.mod, o.did} \subseteq Nat /\ o.errs \subseteq 1..(o.i - 1)
  BY DEF Fits, RunFits, Counted
<1>4. Counted(p, Cmd(c), o.i)
  <2>1. o.errs \subseteq 1..o.i
    BY <1>3
  <2>. QED BY <1>1, <1>2, <1>3, <2>1 DEF Fits, Counted
<1>5. Cmd(c).name # "insert" => Counted(p, Cmd(c), o.i - 1)
  BY <1>1, <1>3 DEF Fits, Counted
<1>6. /\ Fits(c, p, o.i) /\ p.errs = o.errs /\ p.ph = o.ph /\ p.todo = o.todo
      /\ Cmd(c).name # "insert" => Fits(c, p, o.i - 1)
  BY <1>1, <1>4, <1>5 DEF Fits
<1>. QED BY <1>6 DEF p

\* A statement that has gone through its documents.
LEMMA ThroughFits ==
    ASSUME NEW c, NEW o, Fits(c, o, o.i - 1), o.i \in Nat, 1 <= o.i, Cmd(c).name # "insert"
    PROVE  Fits(c, o, o.i)
<1>1. o.errs \subseteq 1..o.i
  BY DEF Fits, Counted
<1>. QED BY <1>1 DEF Fits, Counted

-----------------------------------------------------------------------------
(* The steps of a command: it answers, goes on, or stays with its statement *)

LEMMA AnswerBooks ==
    ASSUME WInv, NEW c \in Conns, run[c].ph # "idle", UNCHANGED <<start, left>>,
           NEW o, o.k = run[c].k, NEW value, Answer(c, o, value)
    PROVE  /\ Books' /\ \A d \in Conns \ {c} : run'[d] = run[d]
           /\ run'[c].ph = "idle" /\ Replied(c, o.errs, value)
<1> DEFINE r == [done |-> TRUE, n |-> o.n, mod |-> o.mod, errs |-> o.errs, upto |-> o.i,
                 did |-> o.did, value |-> value]
<1>1. /\ replies' = [replies EXCEPT ![run[c].k] = r]
      /\ r.errs = o.errs /\ r.value = value
      /\ run' = [run EXCEPT ![c] = NoOp]
  BY DEF Answer
<1>2. RunFits(NoOp) /\ NoOp.ph = "idle"
  BY DEF RunFits, NoOp
<1>. HIDE DEF r
<1>3. Books
  BY DEF WInv
<1>4. /\ DOMAIN run' = Conns /\ run'[c] = NoOp
      /\ \A d \in Conns \ {c} : run'[d] = run[d]
  BY <1>1, <1>3 DEF Books
<1>5. /\ DOMAIN replies' = DOMAIN replies
      /\ \A k \in DOMAIN replies : k # run[c].k => replies'[k] = replies[k]
  BY <1>1
<1>6. run[c].k \in DOMAIN Cmds \ left.cmds
      /\ \A d \in Conns : run[d].ph # "idle" /\ run[d].k = run[c].k => d = c
  BY <1>3 DEF Books
<1>7. Cmds' = Cmds /\ \A d \in Conns \ {c} : Cmd(d)' = Cmd(d)
  BY <1>4 DEF Cmds, Cmd
<1>8. Books'
  <2>1. left' = left /\ left \in [cmds : SUBSET DOMAIN Cmds, sasl : Nat, rbac : Nat,
                                  hangs : Nat, ticks : Nat, close : Nat]
    BY <1>3 DEF Books
  <2>2. \A d \in Conns : RunFits(run'[d])
    BY <1>2, <1>3, <1>4 DEF Books
  <2>3. DOMAIN replies' = DOMAIN Cmds /\ \A k \in left.cmds : ~replies'[k].done
    BY <1>3, <1>5, <1>6, <2>1 DEF Books
  <2>4. ASSUME NEW d \in Conns, run'[d].ph # "idle"
        PROVE  /\ run'[d].k \in DOMAIN Cmds \ left.cmds /\ ~replies'[run'[d].k].done
               /\ run'[d].i \in DOMAIN Cmd(d)'.stmts
               /\ run'[d].ph \in Phases(Cmd(d)'.name)
               /\ Counted(run'[d], Cmd(d)', run'[d].i - 1)
               /\ Cmd(d)'.ordered => run'[d].errs = {}
               /\ \A e \in Conns : run'[e].ph # "idle" /\ run'[e].k = run'[d].k => e = d
    <3>1. d # c /\ run'[d] = run[d] /\ run[d].k # run[c].k
      BY <1>2, <1>4, <1>6, <2>4
    <3>. QED BY <1>2, <1>3, <1>4, <1>5, <1>7, <2>4, <3>1 DEF Books
  <2>. QED BY <1>4, <1>7, <2>1, <2>2, <2>3, <2>4 DEF Books
<1>9. Replied(c, o.errs, value)
  BY <1>1 DEF Replied
<1>. QED BY <1>2, <1>4, <1>8, <1>9

LEMMA RunsOn ==
    ASSUME WInv, NEW c \in Conns, run[c].ph # "idle", UNCHANGED <<start, left, replies>>,
           NEW o, RunFits(o), o.k = run[c].k, o.i \in DOMAIN Cmd(c).stmts,
           o.ph \in Phases(Cmd(c).name), Counted(o, Cmd(c), o.i - 1),
           Cmd(c).ordered => o.errs = {}, run' = [run EXCEPT ![c] = o]
    PROVE  /\ Books' /\ RepliesAreTrue' /\ \A d \in Conns \ {c} : run'[d] = run[d]
           /\ run'[c] = o
<1>1. Books /\ RepliesAreTrue
  BY DEF WInv
<1>2. /\ DOMAIN run' = Conns /\ run'[c] = o
      /\ \A d \in Conns \ {c} : run'[d] = run[d]
  BY <1>1 DEF Books
<1>3. Cmds' = Cmds /\ \A d \in Conns : Cmd(d)' = Cmd(d)
  BY <1>2 DEF Cmds, Cmd
<1>4. RepliesAreTrue'
  BY <1>1, <1>3 DEF RepliesAreTrue
<1>5. run[c].k \in DOMAIN Cmds \ left.cmds /\ ~replies[run[c].k].done
      /\ \A d \in Conns : run[d].ph # "idle" /\ run[d].k = run[c].k => d = c
  BY <1>1 DEF Books
<1>6. ASSUME NEW d \in Conns, run'[d].ph # "idle"
      PROVE  /\ run'[d].k \in DOMAIN Cmds \ left.cmds /\ ~replies[run'[d].k].done
             /\ run'[d].i \in DOMAIN Cmd(d).stmts
             /\ run'[d].ph \in Phases(Cmd(d).name)
             /\ Counted(run'[d], Cmd(d), run'[d].i - 1)
             /\ Cmd(d).ordered => run'[d].errs = {}
             /\ \A e \in Conns : run'[e].ph # "idle" /\ run'[e].k = run'[d].k => e = d
  <2>1. CASE d = c
    BY <1>2, <1>5, <2>1
  <2>2. CASE d # c
    BY <1>1, <1>2, <1>5, <1>6, <2>2 DEF Books
  <2>. QED BY <2>1, <2>2
<1>7. \A d \in Conns : RunFits(run'[d])
  BY <1>1, <1>2 DEF Books
<1>8. Books'
  BY <1>1, <1>2, <1>3, <1>6, <1>7 DEF Books
<1>. QED BY <1>2, <1>4, <1>8

\* Nothing is counted of a command that does not write.
LEMMA SilentReply ==
    ASSUME WInv, NEW c \in Conns, run[c].ph # "idle", UNCHANGED start,
           Cmd(c).name \notin Writing, NEW o, o.k = run[c].k, NEW value, Answer(c, o, value)
    PROVE  RepliesAreTrue'
<1>1. Cmds' = Cmds /\ Cmds[run[c].k].name \notin Writing
  BY DEF Cmds, Cmd
<1>2. /\ DOMAIN replies' = DOMAIN replies
      /\ \A k \in DOMAIN replies : k # run[c].k => replies'[k] = replies[k]
  BY DEF Answer
<1>3. \A k \in DOMAIN replies : Cmds[k].name \in Writing => k # run[c].k
  BY <1>1
<1>. QED BY <1>1, <1>2, <1>3 DEF WInv, RepliesAreTrue, Writing

\* The command is still at its statement.
LEMMA GoesKeeps ==
    ASSUME WInv, NEW c \in Conns, run[c].ph # "idle", UNCHANGED <<start, left>>,
           NEW o, Fits(c, o, o.i - 1), o.ph \in Phases(Cmd(c).name),
           Cmd(c).ordered => o.errs = {}, Goes(c, o)
    PROVE  /\ Books' /\ RepliesAreTrue' /\ \A d \in Conns \ {c} : run'[d] = run[d]
           /\ run'[c] = o /\ UNCHANGED replies
<1>1. /\ RunFits(o) /\ o.k = run[c].k /\ o.i = run[c].i /\ Counted(o, Cmd(c), o.i - 1)
  BY DEF Fits
<1>2. run[c].i \in DOMAIN Cmd(c).stmts
  BY DEF WInv, Books
<1>3. run' = [run EXCEPT ![c] = o] /\ UNCHANGED replies
  BY DEF Goes
<1>. QED BY <1>1, <1>2, <1>3, RunsOn

\* The statement is done with, and the command ends or turns to the next.
LEMMA AdvanceKeeps ==
    ASSUME WInv, NEW c \in Conns, run[c].ph # "idle", UNCHANGED <<start, left>>,
           Cmd(c).name \in Writing,
           NEW o, Fits(c, o, o.i), Cmd(c).ordered => o.errs \subseteq {o.i},
           NEW value, Advance(c, o, value)
    PROVE  Stays(c) /\ Replied(c, o.errs, value)
<1>1. /\ CommandFits(Cmd(c)) /\ o.i \in Nat /\ 1 <= o.i /\ o.i <= Len(Cmd(c).stmts)
      /\ Len(Cmd(c).stmts) \in Nat /\ DOMAIN Cmd(c).stmts = 1..Len(Cmd(c).stmts)
      /\ run[c].k \in DOMAIN Cmds
  <2>1. DOMAIN Cmd(c).stmts = 1..Len(Cmd(c).stmts)
    BY CommandOf, StmtsFit
  <2>. QED BY <2>1, CommandOf DEF Fits
<1>2. RunFits(o) /\ o.k = run[c].k /\ Counted(o, Cmd(c), o.i)
  BY DEF Fits
<1>3. CASE Stops(o, Cmd(c))
  <2>1. Answer(c, o, value)
    BY <1>3 DEF Advance
  <2>2. /\ Books' /\ \A d \in Conns \ {c} : run'[d] = run[d]
        /\ run'[c].ph = "idle" /\ Replied(c, o.errs, value)
    BY <1>2, <2>1, AnswerBooks
  <2>3. RepliesAreTrue'
    <3> DEFINE r == [done |-> TRUE, n |-> o.n, mod |-> o.mod, errs |-> o.errs, upto |-> o.i,
                     did |-> o.did, value |-> value]
    <3>1. /\ replies' = [replies EXCEPT ![run[c].k] = r]
          /\ r.n = o.n /\ r.mod = o.mod /\ r.did = o.did /\ r.errs = o.errs /\ r.upto = o.i
      BY <1>2, <2>1 DEF Answer
    <3>2. Cmds' = Cmds
      BY DEF Cmds
    <3>. HIDE DEF r
    <3>3. /\ r.mod <= r.did /\ r.did <= r.n
          /\ Cmd(c).name \in {"insert", "delete"} => r.n = r.did
          /\ Cmd(c).name = "insert" => r.n + Cardinality(r.errs) = r.upto
      BY <1>2, <3>1 DEF Counted
    <3>4. /\ IF Cmd(c).ordered THEN r.errs \in {{}, {r.upto}}
             ELSE r.upto = Len(Cmd(c).stmts)
          /\ r.errs = {} => r.upto = Len(Cmd(c).stmts)
      <4>1. o.errs \subseteq {o.i} => o.errs \in {{}, {o.i}}
        OBVIOUS
      <4>. QED BY <1>3, <3>1, <4>1 DEF Stops
    <3>5. ASSUME NEW k \in DOMAIN replies', replies'[k].done, Cmds[k].name \in Writing
          PROVE  /\ replies'[k].mod <= replies'[k].did /\ replies'[k].did <= replies'[k].n
                 /\ Cmds[k].name \in {"insert", "delete"} => replies'[k].n = replies'[k].did
                 /\ Cmds[k].name = "insert" =>
                       replies'[k].n + Cardinality(replies'[k].errs) = replies'[k].upto
                 /\ IF Cmds[k].ordered THEN replies'[k].errs \in {{}, {replies'[k].upto}}
                    ELSE replies'[k].upto = Len(Cmds[k].stmts)
                 /\ replies'[k].errs = {} => replies'[k].upto = Len(Cmds[k].stmts)
      <4>1. CASE k = run[c].k
        <5>1. replies'[k] = r /\ Cmds[k] = Cmd(c)
          BY <3>1, <3>5, <4>1 DEF Cmd
        <5>. QED BY <3>3, <3>4, <5>1
      <4>2. CASE k # run[c].k
        <5>1. k \in DOMAIN replies /\ replies'[k] = replies[k]
          BY <3>1, <3>5, <4>2
        <5>. QED BY <3>5, <5>1 DEF WInv, RepliesAreTrue, Writing
      <4>. QED BY <4>1, <4>2
    <3>. QED BY <3>2, <3>5 DEF RepliesAreTrue, Writing
  <2>. QED BY <2>2, <2>3 DEF Stays
<1>4. CASE ~Stops(o, Cmd(c))
  <2> DEFINE p == [o EXCEPT !.i = @ + 1, !.todo = <<>>, !.ph = FirstPhase(Cmd(c).name)]
  <2>1. run' = [run EXCEPT ![c] = p] /\ UNCHANGED replies
    BY <1>4 DEF Advance
  <2>2. /\ RunFits(p) /\ p.k = o.k /\ p.i = o.i + 1 /\ p.n = o.n /\ p.mod = o.mod
        /\ p.did = o.did /\ p.errs = o.errs /\ p.ph = FirstPhase(Cmd(c).name)
    BY <1>2 DEF RunFits
  <2>. HIDE DEF p
  <2>3. o.i # Len(Cmd(c).stmts) /\ (Cmd(c).ordered => o.errs = {})
    BY <1>4 DEF Stops
  <2>4. p.i \in DOMAIN Cmd(c).stmts /\ p.i - 1 = o.i
    BY <1>1, <2>2, <2>3
  <2>5. Counted(p, Cmd(c), p.i - 1)
    BY <1>2, <2>2, <2>4 DEF Counted
  <2>6. p.ph \in Phases(Cmd(c).name) /\ p.ph \notin {"cursor", "upsert"}
    <3>1. FirstPhase(Cmd(c).name) \in Phases(Cmd(c).name) \ {"idle", "cursor", "upsert"}
      BY FirstPhases, Zenon
    <3>. QED BY <2>2, <3>1
  <2>7. /\ Books' /\ RepliesAreTrue' /\ \A d \in Conns \ {c} : run'[d] = run[d]
        /\ run'[c] = p
    <3>1. /\ UNCHANGED <<start, left, replies>> /\ RunFits(p) /\ p.k = run[c].k
          /\ (Cmd(c).ordered => p.errs = {}) /\ p.ph \in Phases(Cmd(c).name)
      BY <1>2, <2>1, <2>2, <2>3, <2>6
    <3>. QED BY <2>1, <2>4, <2>5, <3>1, RunsOn
  <2>. QED BY <2>1, <2>6, <2>7 DEF Stays, Replied
<1>. QED BY <1>3, <1>4

LEMMA OnWithKeeps ==
    ASSUME WInv, NEW c \in Conns, run[c].ph # "idle", UNCHANGED <<start, left>>,
           Cmd(c).name \in Writing \ {"insert"},
           NEW o, Fits(c, o, o.i - 1), o.ph = "each", Cmd(c).ordered => o.errs = {},
           NEW value, OnWith(c, o, value)
    PROVE  Stays(c) /\ Replied(c, o.errs, value)
<1>1. o.i \in Nat /\ 1 <= o.i
  BY CommandOf DEF Fits
<1>2. CASE Len(o.todo) > 1
  <2> DEFINE p == [o EXCEPT !.todo = Tail(@)]
  <2>1. Goes(c, p)
    BY <1>2 DEF OnWith
  <2>2. /\ RunFits(p) /\ p.k = o.k /\ p.i = o.i /\ p.n = o.n /\ p.mod = o.mod
        /\ p.did = o.did /\ p.errs = o.errs /\ p.ph = o.ph
    BY DEF Fits, RunFits
  <2>. HIDE DEF p
  <2>3. Fits(c, p, p.i - 1)
    BY <2>2 DEF Fits, Counted
  <2>4. p.ph \in Phases(Cmd(c).name) /\ p.ph \notin {"cursor", "upsert"}
    BY <2>2 DEF Phases, Writing
  <2>5. /\ Books' /\ RepliesAreTrue' /\ \A d \in Conns \ {c} : run'[d] = run[d]
        /\ run'[c] = p /\ UNCHANGED replies
    BY <2>1, <2>2, <2>3, <2>4, GoesKeeps
  <2>. QED BY <2>4, <2>5 DEF Stays, Replied
<1>3. CASE ~(Len(o.todo) > 1)
  <2>1. Advance(c, o, value)
    BY <1>3 DEF OnWith
  <2>2. Fits(c, o, o.i)
    BY <1>1, ThroughFits
  <2>. QED BY <2>1, <2>2, AdvanceKeeps
<1>. QED BY <1>2, <1>3

-----------------------------------------------------------------------------
(* The documents *)

\* Who has answered before is not the one that answers.
LEMMA TakersAre ==
    ASSUME WInv, NEW c \in Conns, run[c].ph # "idle", UNCHANGED start,
           NEW errs, NEW value, Replied(c, errs, value), NEW i
    PROVE  /\ Takers(i)' \subseteq Takers(i) \union {run[c].k}
           /\ run[c].k \in Takers(i)' =>
                 /\ errs = {} /\ value # Absent /\ IdOf(value) = i
                 /\ Cmd(c).name = "findAndModify" /\ Cmd(c).stmts[1].remove
<1> DEFINE key == run[c].k
<1>1. Cmds' = Cmds /\ Cmds[key] = Cmd(c)
  BY DEF Cmds, Cmd
<1>2. key \in DOMAIN replies /\ ~replies[key].done
  BY DEF WInv, Books
<1>3. CASE UNCHANGED replies
  <2>1. Takers(i)' = Takers(i)
    BY <1>1, <1>3 DEF Takers
  <2>2. key \notin Takers(i)
    BY <1>2 DEF Takers
  <2>. QED BY <2>1, <2>2
<1>4. ASSUME NEW r, r.errs = errs, r.value = value, replies' = [replies EXCEPT ![key] = r]
      PROVE  /\ Takers(i)' \subseteq Takers(i) \union {key}
             /\ key \in Takers(i)' =>
                   /\ errs = {} /\ value # Absent /\ IdOf(value) = i
                   /\ Cmd(c).name = "findAndModify" /\ Cmd(c).stmts[1].remove
  <2>1. DOMAIN replies' = DOMAIN replies /\ replies'[key] = r
        /\ \A k \in DOMAIN replies : k # key => replies'[k] = replies[k]
    BY <1>2, <1>4
  <2>2. Takers(i)' \subseteq Takers(i) \union {key}
    BY <1>1, <2>1 DEF Takers
  <2>3. key \in Takers(i)' =>
           /\ errs = {} /\ value # Absent /\ IdOf(value) = i
           /\ Cmd(c).name = "findAndModify" /\ Cmd(c).stmts[1].remove
    BY <1>1, <1>4, <2>1 DEF Takers
  <2>. QED BY <2>2, <2>3
<1>. QED BY <1>3, <1>4 DEF Replied

LEMMA NothingTaken ==
    ASSUME WInv, NEW c \in Conns, run[c].ph # "idle", UNCHANGED start,
           NEW errs, NEW value, Replied(c, errs, value),
           \/ errs # {} \/ value = Absent
           \/ ~(Cmd(c).name = "findAndModify" /\ Cmd(c).stmts[1].remove)
    PROVE  \A i : Takers(i)' \subseteq Takers(i)
<1>. SUFFICES ASSUME NEW i PROVE Takers(i)' \subseteq Takers(i)
  OBVIOUS
<1>1. /\ Takers(i)' \subseteq Takers(i) \union {run[c].k}
      /\ run[c].k \in Takers(i)' =>
            /\ errs = {} /\ value # Absent /\ IdOf(value) = i
            /\ Cmd(c).name = "findAndModify" /\ Cmd(c).stmts[1].remove
  BY TakersAre
<1>. QED BY <1>1

LEMMA TakersFinite ==
    ASSUME WInv, NEW i
    PROVE  IsFiniteSet(Takers(i)) /\ Cardinality(Takers(i)) \in Nat
<1>1. Takers(i) \subseteq DOMAIN Cmds
  BY DEF WInv, Books, Takers
<1>2. IsFiniteSet(DOMAIN Cmds)
  BY CmdsFit DEF WInv, Net
<1>. QED BY <1>1, <1>2, FS_Subset, FS_CardinalityType

LEMMA FewerTakers ==
    ASSUME WInv, NEW i, Takers(i)' \subseteq Takers(i)
    PROVE  Cardinality(Takers(i)') \in Nat /\ Cardinality(Takers(i)') <= Cardinality(Takers(i))
<1>1. IsFiniteSet(Takers(i))
  BY TakersFinite
<1>2. /\ IsFiniteSet(Takers(i)')
      /\ Cardinality(Takers(i)') <= Cardinality(Takers(i))
  BY <1>1, FS_Subset
<1>. QED BY <1>2, FS_CardinalityType

LEMMA StoreStays ==
    ASSUME WInv, UNCHANGED <<coll, inserted>>, \A i : Takers(i)' \subseteq Takers(i)
    PROVE  Store'
<1>1. \A i : /\ Cardinality(Takers(i))' \in Nat
             /\ Cardinality(Takers(i))' <= Cardinality(Takers(i))
             /\ Cardinality(Takers(i)) \in Nat
  BY FewerTakers, TakersFinite
<1>. QED BY <1>1 DEF WInv, Store

LEMMA StoreGrows ==
    ASSUME WInv, \A i : Takers(i)' \subseteq Takers(i),
           NEW id, NEW d, id \notin DOMAIN coll, Put(id, d),
           Is(d, "doc"), Field(d, "_id") = Str(id),
           inserted' = [inserted EXCEPT ![id] = @ + 1]
    PROVE  Store'
<1>1. \A i : /\ Cardinality(Takers(i))' \in Nat
             /\ Cardinality(Takers(i))' <= Cardinality(Takers(i))
             /\ Cardinality(Takers(i)) \in Nat
  BY FewerTakers, TakersFinite
<1>2. /\ DOMAIN coll' = DOMAIN coll \union {id} /\ coll'[id] = d
      /\ \A i \in DOMAIN coll : coll'[i] = coll[i]
  BY DEF Put
<1>3. \A i \in DOMAIN coll' : Is(coll'[i], "doc") /\ Field(coll'[i], "_id") = Str(i)
  BY <1>2 DEF WInv, Store
<1>4. /\ DOMAIN inserted' = DOMAIN inserted
      /\ \A i \in DOMAIN inserted : inserted'[i] = IF i = id THEN inserted[i] + 1 ELSE inserted[i]
  OBVIOUS
<1>5. ASSUME NEW i \in DOMAIN inserted
      PROVE  /\ inserted'[i] \in Nat
             /\ Cardinality(Takers(i))' + (IF i \in DOMAIN coll' THEN 1 ELSE 0) <= inserted'[i]
  <2>1. /\ inserted[i] \in Nat
        /\ Cardinality(Takers(i)) + (IF i \in DOMAIN coll THEN 1 ELSE 0) <= inserted[i]
    BY DEF WInv, Store
  <2>2. /\ Cardinality(Takers(i))' \in Nat /\ Cardinality(Takers(i)) \in Nat
        /\ Cardinality(Takers(i))' <= Cardinality(Takers(i))
    BY <1>1
  <2>. QED BY <1>2, <1>4, <2>1, <2>2
<1>. QED BY <1>3, <1>4, <1>5 DEF WInv, Store

LEMMA StoreChanges ==
    ASSUME WInv, \A i : Takers(i)' \subseteq Takers(i), UNCHANGED inserted,
           NEW id \in DOMAIN coll, NEW d, Put(id, d),
           Is(d, "doc"), Field(d, "_id") = Str(id)
    PROVE  Store'
<1>1. \A i : /\ Cardinality(Takers(i))' \in Nat
             /\ Cardinality(Takers(i))' <= Cardinality(Takers(i))
             /\ Cardinality(Takers(i)) \in Nat
  BY FewerTakers, TakersFinite
<1>2. /\ DOMAIN coll' = DOMAIN coll /\ coll'[id] = d
      /\ \A i \in DOMAIN coll \ {id} : coll'[i] = coll[i]
  BY DEF Put
<1>3. \A i \in DOMAIN coll' : Is(coll'[i], "doc") /\ Field(coll'[i], "_id") = Str(i)
  BY <1>2 DEF WInv, Store
<1>. QED BY <1>1, <1>2, <1>3 DEF WInv, Store

\* Who takes a document is the only one that takes this one.
LEMMA StoreLoses ==
    ASSUME WInv, NEW c \in Conns, run[c].ph # "idle", UNCHANGED <<start, inserted>>,
           NEW errs, NEW value, Replied(c, errs, value), IdOf(value) \in DOMAIN coll,
           coll' = [i \in DOMAIN coll \ {IdOf(value)} |-> coll[i]]
    PROVE  Store'
<1> DEFINE id == IdOf(value)
<1>1. \A i : i # id => Takers(i)' \subseteq Takers(i)
  <2>. SUFFICES ASSUME NEW i, i # id PROVE Takers(i)' \subseteq Takers(i)
    OBVIOUS
  <2>1. /\ Takers(i)' \subseteq Takers(i) \union {run[c].k}
        /\ run[c].k \in Takers(i)' =>
              /\ errs = {} /\ value # Absent /\ IdOf(value) = i
              /\ Cmd(c).name = "findAndModify" /\ Cmd(c).stmts[1].remove
    BY TakersAre
  <2>. QED BY <2>1
<1>2. Takers(id)' \subseteq Takers(id) \union {run[c].k}
  BY TakersAre
<1>3. /\ DOMAIN coll' = DOMAIN coll \ {id}
      /\ \A i \in DOMAIN coll' : coll'[i] = coll[i]
  OBVIOUS
<1>4. /\ Cardinality(Takers(id))' \in Nat /\ Cardinality(Takers(id)) \in Nat
      /\ Cardinality(Takers(id))' <= Cardinality(Takers(id)) + 1
  <2>1. IsFiniteSet(Takers(id)) /\ Cardinality(Takers(id)) \in Nat
    BY TakersFinite
  <2>2. /\ IsFiniteSet(Takers(id) \union {run[c].k})
        /\ Cardinality(Takers(id) \union {run[c].k}) =
              IF run[c].k \in Takers(id) THEN Cardinality(Takers(id))
              ELSE Cardinality(Takers(id)) + 1
    BY <2>1, FS_AddElement
  <2>3. /\ IsFiniteSet(Takers(id)')
        /\ Cardinality(Takers(id)') <= Cardinality(Takers(id) \union {run[c].k})
    BY <1>2, <2>2, FS_Subset
  <2>4. Cardinality(Takers(id)') \in Nat
    BY <2>3, FS_CardinalityType
  <2>. QED BY <2>1, <2>2, <2>3, <2>4
<1>5. \A i : i # id => /\ Cardinality(Takers(i))' \in Nat /\ Cardinality(Takers(i)) \in Nat
                       /\ Cardinality(Takers(i))' <= Cardinality(Takers(i))
  BY <1>1, FewerTakers, TakersFinite
<1>. HIDE DEF id
<1>6. id \in DOMAIN coll
  BY DEF id
<1>7. ASSUME NEW i \in DOMAIN inserted
      PROVE  Cardinality(Takers(i))' + (IF i \in DOMAIN coll' THEN 1 ELSE 0) <= inserted[i]
  <2>1. /\ inserted[i] \in Nat
        /\ Cardinality(Takers(i)) + (IF i \in DOMAIN coll THEN 1 ELSE 0) <= inserted[i]
    BY DEF WInv, Store
  <2>2. CASE i = id
    BY <1>3, <1>4, <1>6, <2>1, <2>2
  <2>3. CASE i # id
    <3>1. /\ Cardinality(Takers(i))' \in Nat /\ Cardinality(Takers(i)) \in Nat
          /\ Cardinality(Takers(i))' <= Cardinality(Takers(i))
      BY <1>5, <2>3
    <3>. QED BY <1>3, <2>1, <2>3, <3>1
  <2>. QED BY <2>2, <2>3
<1>. QED BY <1>3, <1>7 DEF WInv, Store

\* A normalized document has no _id, or a string.
LEMMA NormalizedFits ==
    ASSUME NEW x, NormalizeDocID(x) # Failed
    PROVE  Storable(NormalizeDocID(x))
<1> DEFINE id == NormalizeIDValue(Field(x, "_id"))
<1>1. CASE Field(x, "_id") = Absent
  BY <1>1 DEF NormalizeDocID, Storable
<1>2. CASE Field(x, "_id") # Absent
  <2>1. id # Failed /\ NormalizeDocID(x) = WithField(x, "_id", id)
    BY <1>2 DEF NormalizeDocID
  <2>2. PICK v : id = Str(v)
    BY <2>1 DEF NormalizeIDValue
  <2>3. Is(WithField(x, "_id", id), "doc") /\ Field(WithField(x, "_id", id), "_id") = id
    BY DEF WithField, Is, Field, Doc
  <2>4. IdOf(WithField(x, "_id", id)) = v
    BY <2>2, <2>3 DEF IdOf, Str
  <2>. QED BY <2>1, <2>2, <2>3, <2>4 DEF Storable
<1>. QED BY <1>1, <1>2

LEMMA IdentifiedFits ==
    ASSUME NEW d, Storable(d)
    PROVE  Is(Identified(d), "doc") /\ Field(Identified(d), "_id") = Str(IdOf(Identified(d)))
<1>1. CASE Field(d, "_id") \in {Absent, Null}
  <2> DEFINE e == WithField(d, "_id", Str(Unused[1]))
  <2>1. Identified(d) = e
    BY <1>1 DEF Identified
  <2>2. Is(e, "doc") /\ Field(e, "_id") = Str(Unused[1])
    BY DEF WithField, Is, Field, Doc
  <2>3. IdOf(e) = Unused[1]
    BY <2>2 DEF IdOf, Str
  <2>. QED BY <2>1, <2>2, <2>3
<1>2. CASE Field(d, "_id") \notin {Absent, Null}
  BY <1>2 DEF Identified, Storable
<1>. QED BY <1>1, <1>2

\* A patch leaves the _id alone.
LEMMA PatchedFits ==
    ASSUME NEW doc, NEW id, Field(doc, "_id") = Str(id), NEW old, NEW fresh
    PROVE  /\ Is(Patched(doc, DiffTopLevel(old, fresh)), "doc")
           /\ Field(Patched(doc, DiffTopLevel(old, fresh)), "_id") = Str(id)
<1> DEFINE p == DiffTopLevel(old, fresh)
<1>1. "_id" \notin DOMAIN p.patch /\ "_id" \notin p.remove
  BY DEF DiffTopLevel
<1>2. "_id" \in DOMAIN doc[2] /\ doc[2]["_id"] = Str(id)
  BY DEF Field, Absent, Str
<1>. HIDE DEF p
<1>3. /\ Is(Patched(doc, p), "doc")
      /\ "_id" \in DOMAIN Patched(doc, p)[2] /\ Patched(doc, p)[2]["_id"] = doc[2]["_id"]
  BY <1>1, <1>2 DEF Patched, Is, Doc
<1>. QED BY <1>2, <1>3 DEF p, Field

-----------------------------------------------------------------------------
(* The commands that write *)

LEMMA TilesStay ==
    ASSUME WInv, NoCursor
    PROVE  Tiles'
BY DEF WInv, Tiles, NoCursor

LEMMA CommandKeeps ==
    ASSUME WInv, NEW c \in Conns, run[c].ph # "idle", OwnStep, NoCursor, Stays(c), Store'
    PROVE  WInv'
<1>1. Net' /\ OnlyTheProvedAct'
  BY CommandNet DEF WInv, Stays
<1>2. Tiles'
  BY TilesStay
<1>3. Todos'
  BY DEF WInv, Todos, Stays
<1>. QED BY <1>1, <1>2, <1>3 DEF WInv, Stays

\* An error: nothing is written.
LEMMA ErrorKeeps ==
    ASSUME WInv, NEW c \in Conns, run[c].ph # "idle", OwnStep, NoCursor,
           Cmd(c).name \in Writing, Advance(c, Erred(run[c]), Absent), UNCHANGED <<coll, inserted>>
    PROVE  WInv'
<1> DEFINE o == run[c]
           e == Erred(o)
<1>1. /\ Fits(c, o, o.i - 1) /\ o.i \in Nat /\ 1 <= o.i
      /\ Cmd(c).ordered => o.errs = {}
  BY CommandOf
<1>2. Fits(c, e, o.i) /\ e.errs # {} /\ (Cmd(c).ordered => e.errs \subseteq {o.i})
  BY <1>1, ErredFits
<1>3. e.i = o.i
  BY <1>2 DEF Fits
<1>4. UNCHANGED <<start, left>>
  BY DEF OwnStep
<1>. HIDE DEF e
<1>5. Stays(c) /\ Replied(c, e.errs, Absent)
  <2>1. Advance(c, e, Absent) /\ Fits(c, e, e.i) /\ (Cmd(c).ordered => e.errs \subseteq {e.i})
    BY <1>2, <1>3 DEF e
  <2>. QED BY <1>4, <2>1, AdvanceKeeps
<1>6. Store'
  <2>1. \A i : Takers(i)' \subseteq Takers(i)
    BY <1>4, <1>5, NothingTaken
  <2>. QED BY <2>1, StoreStays
<1>. QED BY <1>5, <1>6, CommandKeeps

\* A document is inserted.
LEMMA StoredKeeps ==
    ASSUME WInv, NEW c \in Conns, run[c].ph # "idle", OwnStep, NoCursor,
           Cmd(c).name \in Writing, NEW d, Storable(d),
           ~InsertFails(c, IdOf(Identified(d))),
           Put(IdOf(Identified(d)), Identified(d)),
           inserted' = [inserted EXCEPT ![IdOf(Identified(d))] = @ + 1],
           NEW value, Advance(c, Done(run[c]), value),
           \/ value = Absent
           \/ ~(Cmd(c).name = "findAndModify" /\ Cmd(c).stmts[1].remove)
    PROVE  WInv'
<1> DEFINE o == run[c]
           p == Done(o)
           e == Identified(d)
           id == IdOf(e)
<1>1. /\ Fits(c, o, o.i - 1) /\ o.i \in Nat /\ 1 <= o.i
      /\ Cmd(c).ordered => o.errs = {}
  BY CommandOf
<1>2. Fits(c, p, o.i) /\ p.errs = o.errs
  BY <1>1, DoneFits
<1>3. p.i = o.i
  BY <1>2 DEF Fits
<1>4. UNCHANGED <<start, left>>
  BY DEF OwnStep
<1>5. Advance(c, p, value)
  OBVIOUS
<1>6. Is(e, "doc") /\ Field(e, "_id") = Str(id)
  BY IdentifiedFits
<1>7. id \notin DOMAIN coll /\ Put(id, e) /\ inserted' = [inserted EXCEPT ![id] = @ + 1]
  BY DEF InsertFails
<1>. HIDE DEF p, id, e
<1>8. Stays(c) /\ Replied(c, p.errs, value)
  BY <1>1, <1>2, <1>3, <1>4, <1>5, AdvanceKeeps
<1>9. Store'
  <2>1. \A i : Takers(i)' \subseteq Takers(i)
    BY <1>4, <1>8, NothingTaken
  <2>. QED BY <1>6, <1>7, <2>1, StoreGrows
<1>. QED BY <1>8, <1>9, CommandKeeps

LEMMA InsertOneKeeps ==
    ASSUME WInv, NEW c \in Conns, InsertOne(c)
    PROVE  WInv'
<1> DEFINE d == NormalizeDocID(Stmt(c).doc)
           id == IdOf(Identified(d))
<1>1. run[c].ph = "insert" /\ NoCursor /\ OwnStep
  BY DEF InsertOne, Running
<1>2. Cmd(c).name \in Writing
  BY <1>1, CommandOf, WritesOnly
<1>3. CASE d = Failed \/ InsertFails(c, id)
  <2>1. Advance(c, Erred(run[c]), Absent) /\ UNCHANGED <<coll, inserted>>
    BY <1>3 DEF InsertOne
  <2>. QED BY <1>1, <1>2, <2>1, ErrorKeeps
<1>4. CASE d # Failed /\ ~InsertFails(c, id)
  <2>1. /\ Put(id, Identified(d)) /\ inserted' = [inserted EXCEPT ![id] = @ + 1]
        /\ Advance(c, Done(run[c]), Absent)
    BY <1>4 DEF InsertOne
  <2>2. Storable(d)
    BY <1>4, NormalizedFits
  <2>. HIDE DEF d
  <2>. QED BY <1>1, <1>2, <1>4, <2>1, <2>2, StoredKeeps
<1>. QED BY <1>3, <1>4

LEMMA StatementUpsertKeeps ==
    ASSUME WInv, NEW c \in Conns, StatementUpsert(c)
    PROVE  WInv'
<1> DEFINE d == run[c].todo[1]
           id == IdOf(Identified(d))
           value == IF Cmd(c).name = "findAndModify" /\ Stmt(c).new
                    THEN Identified(d) ELSE Absent
<1>1. run[c].ph = "upsert" /\ NoCursor /\ OwnStep /\ ~Stmt(c).remove
  BY DEF StatementUpsert, Running
<1>2. Cmd(c).name \in Writing
  BY <1>1, CommandOf, WritesOnly
<1>3. CASE InsertFails(c, id)
  <2>1. Advance(c, Erred(run[c]), Absent) /\ UNCHANGED <<coll, inserted>>
    BY <1>3 DEF StatementUpsert
  <2>. QED BY <1>1, <1>2, <2>1, ErrorKeeps
<1>4. CASE ~InsertFails(c, id)
  <2>1. /\ Put(id, Identified(d)) /\ inserted' = [inserted EXCEPT ![id] = @ + 1]
        /\ Advance(c, Done(run[c]), value)
    BY <1>4 DEF StatementUpsert
  <2>2. Storable(d)
    BY <1>1 DEF WInv, Todos
  <2>3. ~(Cmd(c).name = "findAndModify" /\ Cmd(c).stmts[1].remove)
    <3>1. Cmd(c).name \notin {"insert", "update", "delete"} => run[c].i = 1
      BY <1>1, CommandOf
    <3>2. ~Cmd(c).stmts[run[c].i].remove
      BY <1>1 DEF Stmt
    <3>. QED BY <3>1, <3>2
  <2>. HIDE DEF d, value
  <2>. QED BY <1>1, <1>2, <1>4, <2>1, <2>2, <2>3, StoredKeeps
<1>. QED BY <1>3, <1>4

\* What an upsert will insert was normalized.
LEMMA UpsertsFit ==
    ASSUME NEW s, NEW d \in Upserts(s), d # Failed
    PROVE  Storable(d)
<1>1. \E x : d = NormalizeDocID(x)
  BY DEF Upserts
<1>. QED BY <1>1, NormalizedFits

LEMMA StatementFindKeeps ==
    ASSUME WInv, NEW c \in Conns, StatementFind(c)
    PROVE  WInv'
<1> DEFINE s == Stmt(c)
           o == run[c]
           m == Found(s.q)
<1>1. run[c].ph = "find" /\ NoCursor /\ OwnStep /\ UNCHANGED <<coll, inserted>>
  BY DEF StatementFind, Running
<1>2. UNCHANGED <<start, left>>
  BY <1>1 DEF OwnStep
<1>3. Cmd(c).name \in Writing \ {"insert"}
  BY <1>1, CommandOf, WritesOnly DEF Writing
<1>4. /\ Fits(c, o, o.i - 1) /\ o.i \in Nat /\ 1 <= o.i
      /\ Cmd(c).ordered => o.errs = {}
  BY <1>1, CommandOf
<1>5. /\ Refused(c) => Advance(c, Erred(o), Absent)
      /\ ~Refused(c) =>
            \/ \E d \in Upserts(s) :
                  IF d = Failed THEN Advance(c, Erred(o), Absent)
                  ELSE Goes(c, [o EXCEPT !.ph = "upsert", !.todo = <<d>>])
            \/ Advance(c, o, Absent)
            \/ Goes(c, [o EXCEPT !.ph = "each", !.todo = IF s.multi THEN m ELSE <<m[1]>>])
  BY DEF StatementFind
<1>6. ASSUME Advance(c, Erred(o), Absent) PROVE WInv'
  BY <1>1, <1>3, <1>6, ErrorKeeps
<1>7. ASSUME Advance(c, o, Absent) PROVE WInv'
  <2>1. Fits(c, o, o.i)
    BY <1>3, <1>4, ThroughFits
  <2>2. Stays(c) /\ Replied(c, o.errs, Absent)
    BY <1>1, <1>2, <1>3, <1>4, <1>7, <2>1, AdvanceKeeps
  <2>3. \A i : Takers(i)' \subseteq Takers(i)
    BY <1>1, <1>2, <2>2, NothingTaken
  <2>. QED BY <1>1, <2>2, <2>3, StoreStays, CommandKeeps
<1>8. ASSUME NEW p, NEW ph \in {"upsert", "each"}, NEW todo,
             p = [o EXCEPT !.ph = ph, !.todo = todo], Goes(c, p),
             ph = "upsert" => Storable(todo[1])
      PROVE  WInv'
  <2>1. /\ RunFits(p) /\ p.k = o.k /\ p.i = o.i /\ p.n = o.n /\ p.mod = o.mod
        /\ p.did = o.did /\ p.errs = o.errs /\ p.ph = ph /\ p.todo = todo
    BY <1>4, <1>8 DEF Fits, RunFits
  <2>2. Fits(c, p, p.i - 1)
    BY <1>4, <2>1 DEF Fits, Counted
  <2>3. p.ph \in Phases(Cmd(c).name)
    BY <1>3, <2>1 DEF Phases, Writing
  <2>4. /\ Books' /\ RepliesAreTrue' /\ \A d \in Conns \ {c} : run'[d] = run[d]
        /\ run'[c] = p /\ UNCHANGED replies
    BY <1>1, <1>2, <1>4, <1>8, <2>1, <2>2, <2>3, GoesKeeps
  <2>5. Net' /\ OnlyTheProvedAct'
    BY <1>1, <2>4, CommandNet DEF WInv
  <2>6. Store'
    <3>1. Replied(c, {}, Absent)
      BY <2>4 DEF Replied
    <3>2. \A i : Takers(i)' \subseteq Takers(i)
      BY <1>1, <1>2, <3>1, NothingTaken
    <3>. QED BY <1>1, <3>2, StoreStays
  <2>7. Tiles'
    BY <1>1, TilesStay
  <2>8. Todos'
    BY <1>8, <2>1, <2>4 DEF WInv, Todos
  <2>. QED BY <2>4, <2>5, <2>6, <2>7, <2>8 DEF WInv
<1>9. ASSUME NEW d \in Upserts(s), d # Failed,
             Goes(c, [o EXCEPT !.ph = "upsert", !.todo = <<d>>])
      PROVE  WInv'
  <2> DEFINE todo == <<d>>
             p == [o EXCEPT !.ph = "upsert", !.todo = todo]
  <2>1. Storable(todo[1])
    BY <1>9, UpsertsFit
  <2>2. Goes(c, p)
    BY <1>9
  <2>. HIDE DEF todo
  <2>. QED BY <1>8, <2>1, <2>2
<1>10. ASSUME Goes(c, [o EXCEPT !.ph = "each", !.todo = IF s.multi THEN m ELSE <<m[1]>>])
       PROVE  WInv'
  BY <1>8, <1>10
<1>. QED BY <1>5, <1>6, <1>7, <1>9, <1>10

LEMMA StatementRemoveKeeps ==
    ASSUME WInv, NEW c \in Conns, StatementRemove(c)
    PROVE  WInv'
<1> DEFINE o == run[c]
           doc == o.todo[1]
           p == Done(o)
<1>1. run[c].ph = "each" /\ NoCursor /\ OwnStep /\ UNCHANGED inserted
  BY DEF StatementRemove, Running
<1>2. UNCHANGED <<start, left>>
  BY <1>1 DEF OwnStep
<1>3. Cmd(c).name \in Writing \ {"insert"}
  BY <1>1, CommandOf, WritesOnly DEF Writing
<1>4. /\ Fits(c, o, o.i - 1) /\ o.i \in Nat /\ 1 <= o.i
      /\ Cmd(c).ordered => o.errs = {}
  BY <1>1, CommandOf
<1>5. CASE RemoveFails(c, IdOf(doc))
  <2>1. Advance(c, Erred(o), Absent) /\ UNCHANGED coll
    BY <1>5 DEF StatementRemove
  <2>. QED BY <1>1, <1>3, <2>1, ErrorKeeps
<1>6. CASE ~RemoveFails(c, IdOf(doc))
  <2>1. /\ coll' = [i \in DOMAIN coll \ {IdOf(doc)} |-> coll[i]] /\ OnWith(c, p, doc)
        /\ IdOf(doc) \in DOMAIN coll
    BY <1>6 DEF StatementRemove, RemoveFails
  <2>2. Fits(c, p, o.i - 1) /\ p.errs = o.errs /\ p.ph = o.ph /\ p.i = o.i
    <3>1. Fits(c, p, o.i - 1) /\ p.errs = o.errs /\ p.ph = o.ph
      BY <1>3, <1>4, DoneFits
    <3>. QED BY <3>1 DEF Fits
  <2>. HIDE DEF p, doc
  <2>3. Stays(c) /\ Replied(c, p.errs, doc)
    BY <1>1, <1>2, <1>3, <1>4, <2>1, <2>2, OnWithKeeps
  <2>4. Store'
    BY <1>1, <1>2, <2>1, <2>3, StoreLoses
  <2>. QED BY <1>1, <2>3, <2>4, CommandKeeps
<1>. QED BY <1>5, <1>6

LEMMA StatementUpdateKeeps ==
    ASSUME WInv, NEW c \in Conns, StatementUpdate(c)
    PROVE  WInv'
<1> DEFINE o == run[c]
           doc == o.todo[1]
           id == IdOf(doc)
<1>1. run[c].ph = "each" /\ NoCursor /\ OwnStep /\ UNCHANGED inserted /\ ~Stmt(c).remove
  BY DEF StatementUpdate, Running
<1>2. UNCHANGED <<start, left>>
  BY <1>1 DEF OwnStep
<1>3. /\ Fits(c, o, o.i - 1) /\ o.i \in Nat /\ 1 <= o.i
      /\ Cmd(c).ordered => o.errs = {}
  BY <1>1, CommandOf
<1>4. /\ Cmd(c).name \in Writing \ {"insert", "delete"}
      /\ ~(Cmd(c).name = "findAndModify" /\ Cmd(c).stmts[1].remove)
  <2>1. /\ CommandFits(Cmd(c)) /\ o.i \in 1..Len(Cmd(c).stmts)
        /\ Cmd(c).name \notin {"insert", "update", "delete"} => o.i = 1
    BY <1>1, CommandOf
  <2>2. DOMAIN Cmd(c).stmts = 1..Len(Cmd(c).stmts)
    BY <2>1, StmtsFit
  <2>3. ~Cmd(c).stmts[o.i].remove
    BY <1>1 DEF Stmt
  <2>4. Cmd(c).name # "delete"
    BY <2>1, <2>2, <2>3 DEF CommandFits
  <2>5. Cmd(c).name \in {"update", "delete", "findAndModify"}
    BY <1>1, CommandOf, WritesOnly
  <2>. QED BY <2>1, <2>3, <2>4, <2>5 DEF Writing
<1>5. PICK fresh \in ApplyUpdateExpr(doc, Stmt(c).u, FALSE) :
         LET p == DiffTopLevel(doc, fresh) IN
         IF fresh = Failed THEN Advance(c, Erred(o), Absent) /\ UNCHANGED coll
         ELSE IF DOMAIN p.patch = {} /\ p.remove = {}
         THEN OnWith(c, [o EXCEPT !.n = @ + 1], doc) /\ UNCHANGED coll
         ELSE IF UpdateFails(c, id)
         THEN Advance(c, Erred(o), Absent) /\ UNCHANGED coll
         ELSE /\ Put(id, Patched(coll[id], p))
              /\ OnWith(c, [o EXCEPT !.n = @ + 1, !.mod = @ + 1, !.did = @ + 1],
                        IF Stmt(c).new THEN fresh ELSE doc)
  BY DEF StatementUpdate
<1> DEFINE p == DiffTopLevel(doc, fresh)
           seen == [o EXCEPT !.n = @ + 1]
           written == [o EXCEPT !.n = @ + 1, !.mod = @ + 1, !.did = @ + 1]
           new == IF Stmt(c).new THEN fresh ELSE doc
<1>6. \/ Advance(c, Erred(o), Absent) /\ UNCHANGED coll
      \/ OnWith(c, seen, doc) /\ UNCHANGED coll
      \/ ~UpdateFails(c, id) /\ Put(id, Patched(coll[id], p)) /\ OnWith(c, written, new)
  BY <1>5
<1>7. CASE Advance(c, Erred(o), Absent) /\ UNCHANGED coll
  BY <1>1, <1>4, <1>7, ErrorKeeps
<1>8. /\ Fits(c, seen, o.i - 1) /\ seen.i = o.i /\ seen.ph = o.ph /\ seen.errs = o.errs
      /\ Fits(c, written, o.i - 1) /\ written.i = o.i /\ written.ph = o.ph
      /\ written.errs = o.errs
  <2>1. /\ RunFits(seen) /\ seen.k = o.k /\ seen.i = o.i /\ seen.n = o.n + 1
        /\ seen.mod = o.mod /\ seen.did = o.did /\ seen.errs = o.errs /\ seen.ph = o.ph
    BY <1>3 DEF Fits, RunFits
  <2>2. /\ RunFits(written) /\ written.k = o.k /\ written.i = o.i /\ written.n = o.n + 1
        /\ written.mod = o.mod + 1 /\ written.did = o.did + 1 /\ written.errs = o.errs
        /\ written.ph = o.ph
    BY <1>3 DEF Fits, RunFits
  <2>. HIDE DEF seen, written
  <2>3. {o.n, o.mod, o.did} \subseteq Nat
    BY <1>3 DEF Fits, RunFits
  <2>4. Counted(seen, Cmd(c), o.i - 1) /\ Counted(written, Cmd(c), o.i - 1)
    BY <1>3, <1>4, <2>1, <2>2, <2>3 DEF Fits, Counted
  <2>. QED BY <1>3, <2>1, <2>2, <2>4 DEF Fits
<1>. HIDE DEF seen, written, new
<1>9. CASE OnWith(c, seen, doc) /\ UNCHANGED coll
  <2>1. Stays(c) /\ Replied(c, seen.errs, doc)
    BY <1>1, <1>2, <1>3, <1>4, <1>8, <1>9, OnWithKeeps
  <2>2. \A i : Takers(i)' \subseteq Takers(i)
    BY <1>1, <1>2, <1>4, <2>1, NothingTaken
  <2>3. Store'
    BY <1>1, <1>9, <2>2, StoreStays
  <2>. QED BY <1>1, <2>1, <2>3, CommandKeeps
<1>10. CASE ~UpdateFails(c, id) /\ Put(id, Patched(coll[id], p)) /\ OnWith(c, written, new)
  <2>1. Stays(c) /\ Replied(c, written.errs, new)
    BY <1>1, <1>2, <1>3, <1>4, <1>8, <1>10, OnWithKeeps
  <2>2. \A i : Takers(i)' \subseteq Takers(i)
    BY <1>1, <1>2, <1>4, <2>1, NothingTaken
  <2> DEFINE d == Patched(coll[id], p)
  <2>3. id \in DOMAIN coll /\ Field(coll[id], "_id") = Str(id)
    BY <1>10 DEF UpdateFails, WInv, Store
  <2>4. Is(d, "doc") /\ Field(d, "_id") = Str(id)
    BY <2>3, PatchedFits
  <2>5. Put(id, d)
    BY <1>10
  <2>. HIDE DEF d, id
  <2>6. Store'
    BY <1>1, <2>2, <2>3, <2>4, <2>5, StoreChanges
  <2>. QED BY <1>1, <2>1, <2>6, CommandKeeps
<1>. QED BY <1>6, <1>7, <1>9, <1>10

-----------------------------------------------------------------------------
(* What a find gives, and how it is cut *)

LEMMA LeastExists ==
    ASSUME NEW S \in SUBSET Nat, S # {}
    PROVE  \E m \in S : \A k \in S : m <= k
<1> DEFINE R == OpToRel(<, Nat)
<1>1. PICK m \in S : \A k \in S : <<k, m>> \notin R
  <2>1. IsWellFoundedOn(R, Nat)
    BY NatLessThanWellFounded
  <2>. QED BY <2>1, WFMin, Zenon
<1>2. \A k \in S : ~ (k < m)
  BY <1>1 DEF OpToRel
<1>. QED BY <1>2

\* The loop of Found after n of the ids, if out tells of those before.
Round(out, q, n) ==
    IF n = 0 THEN <<>>
    ELSE IF IdOrder[n] \in DOMAIN coll /\ Meets(coll[IdOrder[n]], q)
    THEN Append(out[n - 1], coll[IdOrder[n]])
    ELSE out[n - 1]

\* The documents there are.
Docs == {coll[i] : i \in DOMAIN coll}

LEMMA FoundRounds ==
    ASSUME NEW q
    PROVE  \E out : out = [n \in 0..Len(IdOrder) |-> Round(out, q, n)]
<1> DEFINE Runs(m, n) == /\ m \in [0..n -> Seq(Docs)]
                         /\ \A i \in 0..n : m[i] = Round(m, q, i)
           Fails == {n \in 0..Len(IdOrder) : ~ \E m : Runs(m, n)}
<1>0. Len(IdOrder) \in Nat
  BY WireAssumption
<1>1. Fails = {}
  <2>1. SUFFICES ASSUME Fails # {} PROVE FALSE
    OBVIOUS
  <2>2. PICK n \in Fails : \A k \in Fails : n <= k
    <3>. Fails \in SUBSET Nat OBVIOUS
    <3>. HIDE DEF Fails
    <3>. QED BY <2>1, LeastExists
  <2>3. n # 0
    <3>1. SUFFICES ASSUME n = 0 PROVE FALSE
      OBVIOUS
    <3> DEFINE m == [i \in 0..0 |-> <<>>]
    <3>2. m \in [0..0 -> Seq(Docs)]
      OBVIOUS
    <3>3. \A i \in 0..0 : m[i] = Round(m, q, i)
      BY DEF Round
    <3>. QED BY <3>1, <3>2, <3>3, <2>2
  <2>4. n - 1 \in 0..Len(IdOrder) /\ n - 1 \notin Fails
    <3>1. n \in 0..Len(IdOrder)
      OBVIOUS
    <3>. HIDE DEF Fails
    <3>. QED BY <1>0, <3>1, <2>2, <2>3
  <2>5. PICK m : Runs(m, n - 1)
    <3>. HIDE DEF Runs
    <3>. QED BY <2>4
  <2> DEFINE last == Round(m, q, n)
             longer == [i \in 0..n |-> IF i = n THEN last ELSE m[i]]
  <2>6. last \in Seq(Docs)
    <3>1. m[n - 1] \in Seq(Docs)
      BY <1>0, <2>2, <2>3, <2>5
    <3>2. IdOrder[n] \in DOMAIN coll => coll[IdOrder[n]] \in Docs
      BY DEF Docs
    <3>3. IdOrder[n] \in DOMAIN coll => Append(m[n - 1], coll[IdOrder[n]]) \in Seq(Docs)
      BY <3>1, <3>2
    <3>. QED BY <2>3, <3>1, <3>3 DEF Round
  <2>7. longer \in [0..n -> Seq(Docs)]
    <3>. HIDE DEF last
    <3>. QED BY <2>6, <2>5, <2>2, <1>0
  <2>8. ASSUME NEW i \in 0..n PROVE longer[i] = Round(longer, q, i)
    <3>1. i # 0 => longer[i - 1] = m[i - 1]
      BY <2>2, <1>0
    <3>2. longer[i] = Round(m, q, i)
      BY <2>2, <2>3, <2>5, <1>0
    <3>. HIDE DEF longer
    <3>. QED BY <3>1, <3>2 DEF Round
  <2>. QED BY <2>2, <2>7, <2>8
<1>2. PICK m : Runs(m, Len(IdOrder))
  <2>1. Len(IdOrder) \in 0..Len(IdOrder)
    BY <1>0
  <2>2. Len(IdOrder) \notin Fails
    <3>. HIDE DEF Fails
    <3>. QED BY <1>1
  <2>. QED BY <2>1, <2>2, Zenon
<1>3. m = [n \in 0..Len(IdOrder) |-> Round(m, q, n)]
  BY <1>2
<1>. QED BY <1>3

LEMMA FoundIsSeq ==
    ASSUME NEW q
    PROVE  ASequence(Found(q))
<1> DEFINE out == CHOOSE out : out = [n \in 0..Len(IdOrder) |-> Round(out, q, n)]
<1>1. out = [n \in 0..Len(IdOrder) |-> Round(out, q, n)]
  <2>1. \E m : m = [n \in 0..Len(IdOrder) |-> Round(m, q, n)]
    BY FoundRounds
  <2>. QED BY <2>1, Zenon
<1>2. Found(q) = out[Len(IdOrder)]
  BY Zenon DEF Found, Round
<1>. HIDE DEF out
<1>3. Len(IdOrder) \in Nat
  BY WireAssumption
<1> DEFINE Fails == {n \in 0..Len(IdOrder) : out[n] \notin Seq(Docs)}
<1>4. Fails = {}
  <2>1. SUFFICES ASSUME Fails # {} PROVE FALSE
    OBVIOUS
  <2>2. PICK n \in Fails : \A k \in Fails : n <= k
    <3>. Fails \in SUBSET Nat OBVIOUS
    <3>. HIDE DEF Fails
    <3>. QED BY <2>1, LeastExists
  <2>3. out[n] = Round(out, q, n)
    BY <1>1, <2>2
  <2>4. n \in 0..Len(IdOrder) /\ out[n] \notin Seq(Docs)
    OBVIOUS
  <2>5. n # 0
    <3>1. <<>> \in Seq(Docs)
      OBVIOUS
    <3>. QED BY <2>3, <2>4, <3>1, Zenon DEF Round
  <2>6. out[n - 1] \in Seq(Docs)
    BY <1>3, <2>2, <2>5
  <2>7. IdOrder[n] \in DOMAIN coll => Append(out[n - 1], coll[IdOrder[n]]) \in Seq(Docs)
    <3>1. IdOrder[n] \in DOMAIN coll => coll[IdOrder[n]] \in Docs
      BY DEF Docs
    <3>. QED BY <2>6, <3>1
  <2>. QED BY <2>3, <2>4, <2>5, <2>6, <2>7, Zenon DEF Round
<1>5. Found(q) \in Seq(Docs)
  BY <1>2, <1>3, <1>4
<1>. QED BY <1>5, AsASeq

LEMMA KeptFits ==
    ASSUME NEW batch, Len(batch) \in Nat
    PROVE  Kept(batch) \in 0..Len(batch)
<1> DEFINE n == Len(batch)
           T == {i \in 0..n : i <= 1 \/ Bytes(SubSeq(batch, 1, i)) <= MaxBatchBytes}
           G == {g \in 0..n : n - g \in T}
<1>1. Kept(batch) = Max(T)
  BY DEF Kept
<1>2. 0 \in T
  OBVIOUS
<1>3. T \subseteq 0..n
  OBVIOUS
<1>. HIDE DEF T, n
<1>4. n \in Nat
  BY DEF n
<1>5. n \in G /\ G \in SUBSET Nat
  BY <1>2, <1>4
<1>. HIDE DEF G
<1>6. PICK g \in G : \A k \in G : g <= k
  BY <1>5, LeastExists
<1>7. n - g \in T /\ \A y \in T : n - g >= y
  <2>1. g \in 0..n /\ n - g \in T
    BY <1>6 DEF G
  <2>2. ASSUME NEW y \in T PROVE n - g >= y
    <3>1. y \in 0..n
      BY <1>3
    <3>2. n - y \in G
      BY <1>4, <3>1 DEF G
    <3>3. g <= n - y
      BY <1>6, <3>2
    <3>. QED BY <1>4, <2>1, <3>1, <3>3
  <2>. QED BY <2>1, <2>2
<1>8. Max(T) \in T
  <2>1. \E x \in T : \A y \in T : x >= y
    BY <1>7
  <2>2. Max(T) \in T /\ \A y \in T : Max(T) >= y
    BY <2>1, Zenon DEF Max
  <2>. QED BY <2>2
<1>. QED BY <1>1, <1>3, <1>8 DEF n

\* The two parts of a split make up the whole.
LEMMA SplitFits ==
    ASSUME NEW docs, ASequence(docs), NEW n \in Nat, NEW single
    PROVE  \E kept \in 0..Len(docs) :
              /\ Split(docs, n, single)[1] = SubSeq(docs, 1, kept)
              /\ Split(docs, n, single)[2] = SubSeq(docs, kept + 1, Len(docs))
<1> DEFINE cut == CutAt(docs, n, single)
           kept == Kept(SubSeq(docs, 1, cut))
<1>1. Len(docs) \in Nat
  BY SeqFacts
<1>2. cut \in 0..Len(docs)
  BY <1>1 DEF CutAt
<1>3. Split(docs, n, single) = <<SubSeq(docs, 1, kept), SubSeq(docs, kept + 1, Len(docs))>>
  BY DEF Split
<1>. HIDE DEF cut
<1>4. Len(SubSeq(docs, 1, cut)) = cut
  BY <1>1, <1>2, Beginnings
<1>5. kept \in 0..cut
  <2> DEFINE batch == SubSeq(docs, 1, cut)
  <2>1. Len(batch) \in Nat
    BY <1>1, <1>2, <1>4
  <2>. HIDE DEF batch
  <2>2. Kept(batch) \in 0..Len(batch)
    BY <2>1, KeptFits
  <2>. QED BY <1>4, <2>2 DEF batch
<1>. HIDE DEF kept
<1>6. kept \in 0..Len(docs)
  BY <1>1, <1>2, <1>5
<1>. QED BY <1>3, <1>6

-----------------------------------------------------------------------------
(* Finds, cursors *)

\* A command of cursors has answered.
LEMMA CursorKeeps ==
    ASSUME WInv, NEW c \in Conns, run[c].ph # "idle", OwnStep, UNCHANGED <<coll, inserted>>,
           Cmd(c).name \notin Writing, NEW o, o.k = run[c].k, Answer(c, o, Absent), Tiles'
    PROVE  WInv'
<1>1. UNCHANGED <<start, left>>
  BY DEF OwnStep
<1>2. /\ Books' /\ \A d \in Conns \ {c} : run'[d] = run[d]
      /\ run'[c].ph = "idle" /\ Replied(c, o.errs, Absent)
  BY <1>1, AnswerBooks
<1>3. RepliesAreTrue'
  BY <1>1, SilentReply
<1>4. Net' /\ OnlyTheProvedAct'
  BY <1>2, CommandNet DEF WInv
<1>5. Store'
  <2>1. \A i : Takers(i)' \subseteq Takers(i)
    BY <1>1, <1>2, NothingTaken
  <2>. QED BY <2>1, StoreStays
<1>6. Todos'
  BY <1>2 DEF WInv, Todos
<1>. QED BY <1>2, <1>3, <1>4, <1>5, <1>6 DEF WInv

LEMMA QueryFindKeeps ==
    ASSUME WInv, NEW c \in Conns, QueryFind(c)
    PROVE  WInv'
<1> DEFINE s == Stmt(c)
           o == run[c]
           docs == Found(s.q)
           most == Magnitude(s.limit)
           todo == IF most > 0 /\ most < Len(docs) THEN SubSeq(docs, 1, most) ELSE docs
<1>1. run[c].ph = "query" /\ NoCursor /\ OwnStep /\ UNCHANGED <<coll, inserted>>
  BY DEF QueryFind, Running
<1>2. UNCHANGED <<start, left>>
  BY <1>1 DEF OwnStep
<1>3. /\ CommandFits(Cmd(c)) /\ Cmd(c).name = "find" /\ s = Cmd(c).stmts[1]
      /\ Fits(c, o, o.i - 1) /\ o.i = 1
      /\ Cmd(c).ordered => o.errs = {}
  BY <1>1, CommandOf, WritesOnly DEF Stmt
<1>4. CASE Refused(c)
  <2>1. Answer(c, Erred(o), Absent)
    BY <1>4 DEF QueryFind
  <2>2. Erred(o).k = run[c].k
    BY <1>3 DEF Erred, Fits, RunFits
  <2>3. Cmd(c).name \notin Writing
    BY <1>3 DEF Writing
  <2>4. Tiles'
    BY <1>1, TilesStay
  <2>. HIDE DEF o
  <2>. QED BY <1>1, <2>1, <2>2, <2>3, <2>4, CursorKeeps
<1>5. CASE ~Refused(c)
  <2> DEFINE p == [o EXCEPT !.ph = "cursor", !.todo = todo]
  <2>1. Goes(c, p)
    BY <1>5 DEF QueryFind
  <2>2. /\ RunFits(p) /\ p.k = o.k /\ p.i = o.i /\ p.n = o.n /\ p.mod = o.mod
        /\ p.did = o.did /\ p.errs = o.errs /\ p.ph = "cursor" /\ p.todo = todo
    BY <1>3 DEF Fits, RunFits
  <2>3. ASequence(todo)
    <3>1. ASequence(docs) /\ Len(docs) \in Nat
      BY FoundIsSeq, SeqFacts
    <3>2. most \in Int
      BY <1>3 DEF CommandFits, Magnitude
    <3>. HIDE DEF docs, most
    <3>3. most > 0 /\ most < Len(docs) => ASequence(SubSeq(docs, 1, most))
      <4>. SUFFICES ASSUME most > 0 /\ most < Len(docs)
                    PROVE  ASequence(SubSeq(docs, 1, most))
        OBVIOUS
      <4>1. most \in Nat /\ most <= Len(docs)
        BY <3>1, <3>2
      <4>. QED BY <3>1, <4>1, Beginnings
    <3>. QED BY <3>1, <3>3
  <2>. HIDE DEF p, todo
  <2>4. Fits(c, p, p.i - 1)
    BY <1>3, <2>2 DEF Fits, Counted
  <2>5. p.ph \in Phases(Cmd(c).name)
    BY <1>3, <2>2 DEF Phases
  <2>6. /\ Books' /\ RepliesAreTrue' /\ \A d \in Conns \ {c} : run'[d] = run[d]
        /\ run'[c] = p /\ UNCHANGED replies
    BY <1>1, <1>2, <1>3, <2>1, <2>2, <2>4, <2>5, GoesKeeps
  <2>7. Net' /\ OnlyTheProvedAct'
    BY <1>1, <2>6, CommandNet DEF WInv
  <2>8. Store'
    <3>1. Replied(c, {}, Absent)
      BY <2>6 DEF Replied
    <3>2. \A i : Takers(i)' \subseteq Takers(i)
      BY <1>1, <1>2, <3>1, NothingTaken
    <3>. QED BY <1>1, <3>2, StoreStays
  <2>9. Tiles'
    BY <1>1, TilesStay
  <2>10. Todos'
    BY <2>2, <2>3, <2>6 DEF WInv, Todos
  <2>. QED BY <2>6, <2>7, <2>8, <2>9, <2>10 DEF WInv
<1>. QED BY <1>4, <1>5

\* The first batch, and a cursor for the rest.
LEMMA QueryReplyKeeps ==
    ASSUME WInv, NEW c \in Conns, QueryReply(c)
    PROVE  WInv'
<1> DEFINE docs == run[c].todo
           size == BatchSize(Magnitude(Stmt(c).batch))
           cut  == Split(docs, size, SingleBatch(Stmt(c)))
           more == cut[2] # <<>>
           st   == [all |-> docs, sent |-> cut[1], over |-> ~more,
                    cursor |-> IF more THEN next ELSE 0]
<1>1. /\ run[c].ph = "cursor" /\ OwnStep /\ UNCHANGED <<coll, inserted>>
      /\ Answer(c, run[c], Absent)
      /\ cursors' = (IF more THEN Registered(cut[2]) ELSE cursors)
      /\ next' = (IF more THEN next + 1 ELSE next)
      /\ streams' = Append(streams, st)
  BY DEF QueryReply, Running
<1>2. CommandFits(Cmd(c)) /\ Cmd(c).name = "find" /\ Stmt(c) = Cmd(c).stmts[1]
  BY <1>1, CommandOf, WritesOnly DEF Stmt
<1>3. size \in Nat
  BY <1>2, WireAssumption DEF CommandFits, BatchSize, Magnitude
<1>4. ASequence(docs) /\ Len(docs) \in Nat
  BY <1>1, SeqFacts DEF WInv, Todos
<1>. HIDE DEF size, docs
<1>5. PICK kept \in 0..Len(docs) :
         cut[1] = SubSeq(docs, 1, kept) /\ cut[2] = SubSeq(docs, kept + 1, Len(docs))
  BY <1>3, <1>4, SplitFits
<1>. HIDE DEF cut
<1>6. /\ ASequence(cut[1]) /\ Len(cut[1]) = kept /\ ASequence(cut[2])
      /\ cut[1] \o cut[2] = docs /\ cut[1] = SubSeq(docs, 1, kept)
  <2>1. kept \in Nat /\ kept <= Len(docs)
    BY <1>4, <1>5
  <2>2. ASequence(cut[1]) /\ Len(cut[1]) = kept
    BY <1>4, <1>5, <2>1, Beginnings
  <2>3. ASequence(cut[2])
    BY <1>4, <1>5, <2>1, Slices
  <2>4. cut[1] \o cut[2] = docs
    <3>1. SubSeq(docs, 1, kept) \o SubSeq(docs, kept + 1, Len(docs)) = docs
      BY <1>4, <2>1, TwoHalves
    <3>. QED BY <1>5, <3>1
  <2>. QED BY <1>5, <2>2, <2>3, <2>4
<1>7. Len(cut[2]) \in Nat /\ SubSeq(cut[2], 0 + 1, Len(cut[2])) = cut[2]
      /\ (Len(cut[2]) = 0 => cut[2] = <<>>) /\ (cut[2] = <<>> => cut[1] = docs)
  <2>1. Len(cut[2]) \in Nat /\ SubSeq(cut[2], 1, Len(cut[2])) = cut[2]
    BY <1>6, SeqFacts, WholeSeq
  <2>2. Len(cut[2]) = 0 => cut[2] = <<>>
    <3>1. cut[2] \in Seq(ToSet(cut[2]))
      BY <1>6 DEF ASequence
    <3>. QED BY <3>1, EmptySeq
  <2>3. cut[2] = <<>> => cut[1] = docs
    BY <1>6, FirstPiece
  <2>. QED BY <2>1, <2>2, <2>3
<1>8. Tiles'
  <2>1. /\ next \in Nat \ {0} /\ DOMAIN cursors \subseteq 1..(next - 1)
        /\ \A id \in DOMAIN cursors : CursorFits(cursors[id])
        /\ ASequence(streams) /\ \A s \in DOMAIN streams : StreamFits(streams[s], cursors, next)
    BY DEF WInv, Tiles
  <2>2. /\ DOMAIN st = {"all", "sent", "over", "cursor"}
        /\ st.all = docs /\ st.sent = cut[1] /\ st.over = ~more
        /\ st.cursor = (IF more THEN next ELSE 0)
    OBVIOUS
  <2>. HIDE DEF st
  <2>3. /\ next' \in Nat \ {0} /\ DOMAIN cursors' \subseteq 1..(next' - 1)
        /\ next \notin DOMAIN cursors
        /\ \A id \in DOMAIN cursors : id \in DOMAIN cursors' /\ cursors'[id] = cursors[id]
        /\ \A id \in DOMAIN cursors' : id \in DOMAIN cursors \/ (more /\ id = next)
        /\ next <= next' /\ (more => next < next')
    BY <1>1, <2>1 DEF Registered
  <2>4. more => /\ next \in DOMAIN cursors' /\ DOMAIN cursors'[next] = {"docs", "pos", "late"}
                /\ cursors'[next].docs = cut[2] /\ cursors'[next].pos = 0
    BY <1>1 DEF Registered
  <2>5. \A id \in DOMAIN cursors' : CursorFits(cursors'[id])
    <3>1. more => CursorFits(cursors'[next])
      BY <1>6, <1>7, <2>4 DEF CursorFits
    <3>. QED BY <2>1, <2>3, <3>1
  <2>6. \A s \in DOMAIN streams : StreamFits(streams[s], cursors', next')
    <3>. SUFFICES ASSUME NEW s \in DOMAIN streams
                  PROVE  StreamFits(streams[s], cursors', next')
      OBVIOUS
    <3>1. StreamFits(streams[s], cursors, next)
      BY <2>1
    <3>2. streams[s].cursor \in DOMAIN cursors' =>
             /\ streams[s].cursor \in DOMAIN cursors
             /\ cursors'[streams[s].cursor] = cursors[streams[s].cursor]
      BY <2>1, <2>3, <3>1 DEF StreamFits
    <3>3. streams[s].cursor \in 0..(next' - 1)
      BY <2>1, <2>3, <3>1 DEF StreamFits
    <3>. QED BY <3>1, <3>2, <3>3 DEF StreamFits
  <2>7. StreamFits(st, cursors', next')
    <3>1. st.cursor \in 0..(next' - 1)
      BY <1>1, <2>1, <2>2
    <3>2. st.cursor \in DOMAIN cursors' => more /\ st.cursor = next
      BY <2>1, <2>2, <2>3
    <3>3. more => cut[1] \o Unsent(cursors'[next]) = docs
      BY <1>6, <1>7, <2>4 DEF Unsent
    <3>4. Len(cut[1]) <= Len(docs) /\ (~more => cut[1] = docs)
      <4>1. kept <= Len(docs) /\ Len(cut[1]) = kept
        BY <1>4, <1>6
      <4>2. ~more => cut[1] = docs
        BY <1>7, Zenon
      <4>. QED BY <4>1, <4>2, Zenon
    <3>. HIDE DEF more
    <3>5. /\ DOMAIN st = {"all", "sent", "over", "cursor"}
          /\ ASequence(st.all) /\ ASequence(st.sent)
          /\ Len(st.sent) <= Len(st.all) /\ st.sent = SubSeq(st.all, 1, Len(st.sent))
          /\ (st.over => st.sent = st.all)
      BY <1>4, <1>6, <2>2, <3>4
    <3>6. st.cursor \in DOMAIN cursors' => st.sent \o Unsent(cursors'[st.cursor]) = st.all
      BY <2>2, <3>2, <3>3
    <3>. QED BY <3>1, <3>5, <3>6 DEF StreamFits
  <2>8. /\ ASequence(streams')
        /\ \A s \in DOMAIN streams' : streams'[s] = st \/ (s \in DOMAIN streams /\ streams'[s] = streams[s])
    <3>1. /\ ASequence(streams') /\ DOMAIN streams' = 1..(Len(streams) + 1)
          /\ streams'[Len(streams) + 1] = st
          /\ \A i \in 1..Len(streams) : streams'[i] = streams[i]
      BY <1>1, <2>1, AppendedTo
    <3>2. DOMAIN streams = 1..Len(streams) /\ Len(streams) \in Nat
      BY <2>1, SeqFacts
    <3>. QED BY <3>1, <3>2
  <2>. QED BY <2>3, <2>5, <2>6, <2>7, <2>8 DEF Tiles
<1>9. Cmd(c).name \notin Writing
  BY <1>2 DEF Writing
<1>. QED BY <1>1, <1>8, <1>9, CursorKeeps

LEMMA GetMoreKeeps ==
    ASSUME WInv, NEW c \in Conns, NEW id \in 1..next, GetMore(c, id)
    PROVE  WInv'
<1>1. /\ run[c].ph = "more" /\ OwnStep /\ UNCHANGED <<coll, inserted, next>>
  BY DEF GetMore, Running
<1>2. CommandFits(Cmd(c)) /\ Cmd(c).name = "getMore" /\ Stmt(c) = Cmd(c).stmts[1]
      /\ RunFits(run[c])
  BY <1>1, CommandOf, WritesOnly DEF Stmt, Fits
<1>3. Cmd(c).name \notin Writing
  BY <1>2 DEF Writing
<1>4. Erred(run[c]).k = run[c].k
  BY <1>2 DEF Erred, RunFits
<1>5. CASE id \notin DOMAIN cursors
  <2>1. UNCHANGED <<cursors, streams>> /\ Answer(c, Erred(run[c]), Absent)
    BY <1>5 DEF GetMore
  <2>2. Tiles'
    BY <1>1, <2>1, TilesStay DEF NoCursor
  <2>. QED BY <1>1, <1>3, <1>4, <2>1, <2>2, CursorKeeps
<1>6. CASE id \in DOMAIN cursors /\ cursors[id].late
  <2>1. cursors' = Without(id) /\ UNCHANGED streams /\ Answer(c, Erred(run[c]), Absent)
    BY <1>6 DEF GetMore
  <2>2. Tiles'
    BY <1>1, <2>1, CursorsGo DEF Without, WInv
  <2>. QED BY <1>1, <1>3, <1>4, <2>1, <2>2, CursorKeeps
<1>7. CASE id \in DOMAIN cursors /\ ~cursors[id].late
  <2> DEFINE k == cursors[id]
             end == Least(k.pos + BatchSize(Stmt(c).batch), Len(k.docs))
             batch == SubSeq(k.docs, k.pos + 1, end)
             rest == SubSeq(k.docs, end + 1, Len(k.docs))
  <2>1. /\ cursors' = (IF end = Len(k.docs) THEN Without(id) ELSE [cursors EXCEPT ![id].pos = end])
        /\ streams' = [s \in DOMAIN streams |->
              IF streams[s].cursor # id THEN streams[s]
              ELSE [streams[s] EXCEPT !.sent = @ \o batch, !.over = end = Len(k.docs)]]
        /\ Answer(c, run[c], Absent)
    BY <1>7 DEF GetMore
  <2>2. /\ next \in Nat \ {0} /\ DOMAIN cursors \subseteq 1..(next - 1)
        /\ \A i \in DOMAIN cursors : CursorFits(cursors[i])
        /\ ASequence(streams) /\ \A s \in DOMAIN streams : StreamFits(streams[s], cursors, next)
    BY DEF WInv, Tiles
  <2>3. /\ DOMAIN k = {"docs", "pos", "late"} /\ ASequence(k.docs) /\ k.pos \in Nat
        /\ k.pos < Len(k.docs) /\ Len(k.docs) \in Nat
    BY <1>7, <2>2, SeqFacts DEF CursorFits
  <2>4. BatchSize(Stmt(c).batch) \in Nat \ {0}
    BY <1>2, WireAssumption DEF CommandFits, BatchSize
  <2>5. end \in Nat /\ k.pos <= end /\ end <= Len(k.docs)
    BY <2>3, <2>4 DEF Least
  <2>. HIDE DEF end
  <2>6. ASequence(batch) /\ ASequence(rest) /\ ASequence(Unsent(k)) /\ batch \o rest = Unsent(k)
    <3>1. ASequence(batch)
      BY <2>3, <2>5, Slices
    <3>2. ASequence(rest)
      <4>1. Len(k.docs) <= Len(k.docs)
        BY <2>3
      <4>. QED BY <2>3, <2>5, <4>1, Slices
    <3>3. batch \o rest = Unsent(k)
      BY <2>3, <2>5, PiecesMeet DEF Unsent
    <3>4. ASequence(batch \o rest)
      BY <3>1, <3>2, Concats
    <3>. QED BY <3>1, <3>2, <3>3, <3>4
  <2>7. end = Len(k.docs) => rest = <<>>
    <3>. SUFFICES ASSUME end = Len(k.docs) PROVE rest = <<>>
      OBVIOUS
    <3>1. Len(k.docs) + 1 \in Int /\ Len(k.docs) \in Int /\ Len(k.docs) < Len(k.docs) + 1
      BY <2>3
    <3>. QED BY <3>1, SubSeqEmpty
  <2>8. /\ DOMAIN cursors' \subseteq DOMAIN cursors
        /\ \A i \in DOMAIN cursors' : i # id => cursors'[i] = cursors[i]
        /\ id \in DOMAIN cursors' =>
              /\ end # Len(k.docs) /\ DOMAIN cursors'[id] = {"docs", "pos", "late"}
              /\ cursors'[id].docs = k.docs /\ cursors'[id].pos = end
    <3>1. CASE end = Len(k.docs)
      BY <2>1, <3>1 DEF Without
    <3>2. CASE end # Len(k.docs)
      BY <2>1, <2>3, <3>2
    <3>. QED BY <3>1, <3>2
  <2>. HIDE DEF batch, rest
  <2>9. \A i \in DOMAIN cursors' : CursorFits(cursors'[i])
    <3>1. id \in DOMAIN cursors' => CursorFits(cursors'[id])
      BY <2>3, <2>5, <2>8 DEF CursorFits
    <3>. QED BY <2>2, <2>8, <3>1
  <2>10. ASequence(streams') /\ DOMAIN streams' = DOMAIN streams
    <3>1. DOMAIN streams = 1..Len(streams) /\ Len(streams) \in Nat
      BY <2>2, SeqFacts
    <3>2. streams' = [i \in 1..Len(streams) |-> streams'[i]]
      BY <2>1, <3>1
    <3>. QED BY <3>1, <3>2, FunctionsAreSeqs
  <2>11. ASSUME NEW s \in DOMAIN streams
         PROVE  StreamFits(streams'[s], cursors', next)
    <3> DEFINE st == streams[s]
    <3>1. StreamFits(st, cursors, next)
      BY <2>2
    <3>2. CASE st.cursor # id
      <4>1. streams'[s] = st
        BY <2>1, <3>2
      <4>. QED BY <2>8, <3>1, <3>2, <4>1 DEF StreamFits
    <3>3. CASE st.cursor = id
      <4> DEFINE new == [st EXCEPT !.sent = @ \o batch, !.over = end = Len(k.docs)]
      <4>1. streams'[s] = new
        BY <2>1, <3>3
      <4>2. /\ DOMAIN new = {"all", "sent", "over", "cursor"} /\ new.all = st.all
            /\ new.sent = st.sent \o batch /\ new.over = (end = Len(k.docs))
            /\ new.cursor = id
        BY <3>1, <3>3 DEF StreamFits
      <4>. HIDE DEF new
      <4>3. /\ ASequence(st.sent) /\ ASequence(st.all) /\ st.sent \o Unsent(k) = st.all
            /\ id \in 0..(next - 1)
        BY <1>7, <3>1, <3>3 DEF StreamFits
      <4>. HIDE DEF st, k
      <4>4. ASequence(new.sent) /\ new.sent \o rest = st.all
        <5>1. ASequence(st.sent \o batch)
          BY <2>6, <4>3, Concats
        <5>2. (st.sent \o batch) \o rest = st.sent \o (batch \o rest)
          <6> DEFINE sent == st.sent
          <6>1. ASequence(sent) /\ ASequence(batch) /\ ASequence(rest)
            BY <2>6, <4>3
          <6>. HIDE DEF sent
          <6>2. (sent \o batch) \o rest = sent \o (batch \o rest)
            BY <6>1, ThreePieces
          <6>. QED BY <6>2 DEF sent
        <5>. QED BY <2>6, <4>2, <4>3, <5>1, <5>2
      <4>5. /\ Len(new.sent) <= Len(st.all) /\ new.sent = SubSeq(st.all, 1, Len(new.sent))
            /\ rest = <<>> => new.sent = st.all
        <5> DEFINE sent == new.sent
        <5>1. /\ Len(sent) <= Len(sent \o rest) /\ sent = SubSeq(sent \o rest, 1, Len(sent))
              /\ rest = <<>> => sent \o rest = sent
          <6>. HIDE DEF sent
          <6>. QED BY <2>6, <4>4, FirstPiece DEF sent
        <5>. QED BY <4>4, <5>1
      <4>6. id \in DOMAIN cursors' => new.sent \o Unsent(cursors'[id]) = st.all
        BY <2>8, <4>4 DEF Unsent, rest
      <4>. QED BY <2>7, <4>1, <4>2, <4>3, <4>4, <4>5, <4>6 DEF StreamFits
    <3>. QED BY <3>2, <3>3
  <2>12. Tiles'
    BY <1>1, <2>2, <2>8, <2>9, <2>10, <2>11 DEF Tiles
  <2>13. run[c].k = run[c].k
    OBVIOUS
  <2>. QED BY <1>1, <1>3, <2>1, <2>12, <2>13, CursorKeeps
<1>. QED BY <1>5, <1>6, <1>7

LEMMA KillCursorsKeeps ==
    ASSUME WInv, NEW c \in Conns, NEW id \in 1..next, KillCursors(c, id)
    PROVE  WInv'
<1> DEFINE o == [run[c] EXCEPT !.n = IF id \in DOMAIN cursors THEN 1 ELSE 0]
<1>1. /\ run[c].ph = "kill" /\ OwnStep /\ UNCHANGED <<coll, inserted, next, streams>>
      /\ cursors' = Without(id) /\ Answer(c, o, Absent)
  BY DEF KillCursors, Running
<1>2. Cmd(c).name = "killCursors" /\ RunFits(run[c])
  BY <1>1, CommandOf, WritesOnly DEF Fits
<1>3. Cmd(c).name \notin Writing
  BY <1>2 DEF Writing
<1>4. o.k = run[c].k
  BY <1>2 DEF RunFits
<1>5. Tiles'
  BY <1>1, CursorsGo DEF Without, WInv
<1>. HIDE DEF o
<1>. QED BY <1>1, <1>3, <1>4, <1>5, CursorKeeps


-----------------------------------------------------------------------------
(* The invariant holds *)

LEMMA WInit ==
    ASSUME Init
    PROVE  WInv
<1>1. start \in DOMAIN Starts /\ StartFits(Starts[start])
  BY WireAssumption DEF Init
<1>2. /\ left.cmds = DOMAIN Cmds /\ coll = Starts[start].docs
      /\ run = [c \in Conns |-> NoOp] /\ closing = "no" /\ rbac = "off"
      /\ cursors = << >> /\ next = 1 /\ streams = <<>>
      /\ replies = [k \in DOMAIN Cmds |-> NoReply]
      /\ inserted = [i \in ToSet(IdOrder) |-> IF i \in DOMAIN coll THEN 1 ELSE 0]
  BY DEF Init
<1>3. \A c \in Conns : run[c].ph = "idle" /\ RunFits(run[c])
  BY <1>2 DEF NoOp, RunFits
<1>4. Net /\ \A c \in Conns : ~conn[c].authed
  <2>1. CASE Starts[start].up
    <3>1. /\ serve = "accept" /\ ln = "open" /\ tracked = Conns
          /\ conn = [c \in Conns |-> [NewConn EXCEPT !.life = "serving", !.listed = TRUE]]
      BY <2>1 DEF Init
    <3>. QED BY <1>1, <1>2, <1>3, <3>1 DEF Net, ConnType, NewConn
  <2>2. CASE ~Starts[start].up
    <3>1. /\ serve = "off" /\ ln = "none" /\ tracked = {}
          /\ conn = [c \in Conns |-> NewConn]
      BY <2>2 DEF Init
    <3>. QED BY <1>1, <1>2, <1>3, <3>1 DEF Net, ConnType, NewConn
  <2>. QED BY <2>1, <2>2
<1>5. OnlyTheProvedAct
  BY <1>3, <1>4 DEF OnlyTheProvedAct
<1>6. Books
  <2>1. left \in [cmds : SUBSET DOMAIN Cmds, sasl : Nat, rbac : Nat, hangs : Nat,
                  ticks : Nat, close : Nat]
    BY <1>1 DEF Init, StartFits
  <2>2. \A k \in DOMAIN Cmds : ~replies[k].done
    BY <1>2 DEF NoReply
  <2>. QED BY <1>2, <1>3, <2>1, <2>2 DEF Books
<1>7. RepliesAreTrue
  BY <1>2 DEF RepliesAreTrue, NoReply
<1>8. Store
  <2>1. \A i \in DOMAIN coll : Is(coll[i], "doc") /\ Field(coll[i], "_id") = Str(i)
    BY <1>1, <1>2 DEF StartFits
  <2>2. \A i : Takers(i) = {}
    BY <1>2 DEF Takers, NoReply
  <2>3. Cardinality({}) = 0
    BY FS_EmptySet
  <2>4. DOMAIN inserted = ToSet(IdOrder)
        /\ \A i \in DOMAIN inserted : inserted[i] = IF i \in DOMAIN coll THEN 1 ELSE 0
    BY <1>2
  <2>5. \A i : Cardinality(Takers(i)) = 0
    BY <2>2, <2>3
  <2>. QED BY <2>1, <2>4, <2>5 DEF Store
<1>9. Tiles
  <2>1. DOMAIN cursors = {} /\ DOMAIN streams = {}
    BY <1>2
  <2>2. ASequence(streams)
    BY <1>2 DEF ASequence
  <2>. QED BY <1>2, <2>1, <2>2 DEF Tiles
<1>10. Todos
  BY <1>3 DEF Todos
<1>. QED BY <1>4, <1>5, <1>6, <1>7, <1>8, <1>9, <1>10 DEF WInv

LEMMA CommandStepKeeps ==
    ASSUME WInv, NEW c \in Conns, CommandStep(c)
    PROVE  WInv'
<1>1. CASE InsertOne(c)
  BY <1>1, InsertOneKeeps
<1>2. CASE StatementFind(c)
  BY <1>2, StatementFindKeeps
<1>3. CASE StatementUpsert(c)
  BY <1>3, StatementUpsertKeeps
<1>4. CASE StatementRemove(c)
  BY <1>4, StatementRemoveKeeps
<1>5. CASE StatementUpdate(c)
  BY <1>5, StatementUpdateKeeps
<1>6. CASE QueryFind(c)
  BY <1>6, QueryFindKeeps
<1>7. CASE QueryReply(c)
  BY <1>7, QueryReplyKeeps
<1>8. CASE \E id \in 1..next : GetMore(c, id)
  BY <1>8, GetMoreKeeps
<1>9. CASE \E id \in 1..next : KillCursors(c, id)
  BY <1>9, KillCursorsKeeps
<1>. QED BY <1>1, <1>2, <1>3, <1>4, <1>5, <1>6, <1>7, <1>8, <1>9 DEF CommandStep

LEMMA StutterKeeps ==
    ASSUME WInv, UNCHANGED vars
    PROVE  WInv'
<1>. USE DEF vars
<1>1. Net'
  BY DEF WInv, Net
<1>2. OnlyTheProvedAct'
  BY DEF WInv, OnlyTheProvedAct, Auth
<1>3. Books' /\ RepliesAreTrue' /\ Store' /\ Tiles' /\ Todos'
  BY LeftStays, NothingRuns DEF WInv, dataVars
<1>. QED BY <1>1, <1>2, <1>3 DEF WInv

LEMMA WNext ==
    ASSUME WInv, [Next]_vars
    PROVE  WInv'
<1>1. CASE ServeBegin
  BY <1>1, ServeBeginKeeps
<1>2. CASE AcceptFails
  BY <1>2, AcceptFailsKeeps
<1>3. CASE CloseBegin
  BY <1>3, CloseBeginKeeps
<1>4. CASE CloseAll
  BY <1>4, CloseAllKeeps
<1>5. CASE CloseEnd
  BY <1>5, CloseEndKeeps
<1>6. ASSUME NEW c \in Conns, Accept(c) PROVE WInv'
  BY <1>6, AcceptKeeps
<1>7. ASSUME NEW c \in Conns, Enlist(c) PROVE WInv'
  BY <1>7, EnlistKeeps
<1>8. ASSUME NEW c \in Conns, Spawn(c) PROVE WInv'
  BY <1>8, SpawnKeeps
<1>9. ASSUME NEW c \in Conns, EndConn(c) PROVE WInv'
  BY <1>9, EndConnKeeps
<1>10. ASSUME NEW c \in Conns, HangUp(c) PROVE WInv'
  BY <1>10, HangUpKeeps
<1>11. ASSUME NEW c \in Conns, NEW b \in BOOLEAN, SaslStart(c, b) PROVE WInv'
  BY <1>11, SaslStartKeeps
<1>12. ASSUME NEW c \in Conns, NEW b \in BOOLEAN, SaslContinue(c, b) PROVE WInv'
  BY <1>12, SaslContinueKeeps
<1>13. ASSUME NEW c \in Conns, NEW k \in left.cmds, Begin(c, k) PROVE WInv'
  BY <1>13, BeginKeeps
<1>14. ASSUME NEW c \in Conns, CommandStep(c) PROVE WInv'
  BY <1>14, CommandStepKeeps
<1>15. ASSUME NEW r \in {"off", "knows", "refuses"}, RbacChange(r) PROVE WInv'
  BY <1>15, RbacChangeKeeps
<1>16. ASSUME NEW id \in DOMAIN cursors, Expire(id) PROVE WInv'
  BY <1>16, ExpireKeeps
<1>17. CASE UNCHANGED vars
  BY <1>17, StutterKeeps
<1>. QED
  BY <1>1, <1>2, <1>3, <1>4, <1>5, <1>6, <1>7, <1>8, <1>9, <1>10, <1>11, <1>12, <1>13,
     <1>14, <1>15, <1>16, <1>17 DEF Next

LEMMA WInvHolds == Spec => []WInv
<1>1. Init => WInv
  BY WInit
<1>2. WInv /\ [Next]_vars => WInv'
  BY WNext
<1>. QED BY <1>1, <1>2, PTL DEF Spec

-----------------------------------------------------------------------------
(* What an update leaves alone *)

\* What holds at 0 and goes from each number to the next holds up to L.
LEMMA AllTheWay ==
    ASSUME NEW L \in Nat, NEW T, 0 \in T,
           \A n \in 0..L : n # 0 /\ n - 1 \in T => n \in T
    PROVE  0..L \subseteq T
<1> DEFINE Fails == {n \in 0..L : n \notin T}
<1>1. SUFFICES ASSUME Fails # {} PROVE FALSE
  OBVIOUS
<1>2. PICK n \in Fails : \A k \in Fails : n <= k
  <2>. Fails \in SUBSET Nat OBVIOUS
  <2>. HIDE DEF Fails
  <2>. QED BY <1>1, LeastExists
<1>3. n \in 0..L /\ n \notin T
  OBVIOUS
<1>4. n # 0
  BY <1>3
<1>5. n - 1 \in 0..L
  BY <1>3, <1>4
<1>6. n - 1 \notin Fails
  BY <1>2, <1>3, <1>5
<1>7. n - 1 \in T
  BY <1>5, <1>6
<1>. QED BY <1>3, <1>4, <1>7

\* The document d has at f what old has.
SameAt(d, old, f) ==
    /\ f \in DOMAIN d[2] <=> f \in DOMAIN old[2]
    /\ f \in DOMAIN old[2] => d[2][f] = old[2][f]

\* What became of old: an error, or a document that differs in these fields only.
Leaves(d, old, fields) == d = Failed \/ \A f : f \notin fields => SameAt(d, old, f)

LEMMA SetField ==
    ASSUME NEW m, NEW k, NEW v, NEW f, f # k
    PROVE  SameAt(WithField(m, k, v), m, f)
BY DEF SameAt, WithField, Doc

LEMMA DropField ==
    ASSUME NEW m, NEW k, NEW f, f # k
    PROVE  SameAt(NoField(m, k), m, f)
BY DEF SameAt, NoField, Doc

\* The walks, position by position: to document i from the one before, and to
\* document i from what becomes of the one behind.
ToSetAt(at, m, p, i) ==
    IF i = 1 THEN m
    ELSE IF Is(at[i - 1], "doc") THEN Child(at[i - 1], p[i - 1]) ELSE Failed
ToDrop(at, m, p, i) ==
    IF i = 1 THEN m
    ELSE IF Is(at[i - 1], "doc") THEN Field(at[i - 1], p[i - 1]) ELSE Absent
Back(to, way, p, last, i) ==
    IF i = Len(p) THEN last ELSE WithField(way[i], p[i], to[i + 1])

\* A function that takes all the turns.
SetsAlong(at, m, p, L)        == at = [i \in 1..L |-> ToSetAt(at, m, p, i)]
DropsAlong(at, m, p, L)       == at = [i \in 1..L |-> ToDrop(at, m, p, i)]
BacksUp(to, way, p, last, L)  == to = [i \in 1..L |-> Back(to, way, p, last, i)]

LEMMA SetWay ==
    ASSUME NEW m, NEW p, NEW L \in Nat
    PROVE  \E at : SetsAlong(at, m, p, L)
<1> DEFINE Way(at, n) == at = [i \in 1..n |-> ToSetAt(at, m, p, i)]
           T == {n \in 0..L : \E at : Way(at, n)}
<1>1. 0 \in T
  <2> DEFINE e == [i \in 1..0 |-> 0]
  <2>1. Way(e, 0)
    OBVIOUS
  <2>. HIDE DEF Way, e
  <2>. QED BY <2>1
<1>2. ASSUME NEW n \in 0..L, n # 0, n - 1 \in T PROVE n \in T
  <2>1. PICK g : Way(g, n - 1)
    <3>. HIDE DEF Way
    <3>. QED BY <1>2
  <2> DEFINE last == ToSetAt(g, m, p, n)
             h == [i \in 1..n |-> IF i < n THEN g[i] ELSE last]
  <2>2. ASSUME NEW i \in 1..n PROVE h[i] = ToSetAt(h, m, p, i)
    <3>1. i # 1 => i - 1 \in 1..n /\ i - 1 < n
      OBVIOUS
    <3>. HIDE DEF last
    <3>2. i # 1 => h[i - 1] = g[i - 1]
      BY <3>1
    <3>3. h[i] = ToSetAt(g, m, p, i)
      <4>1. CASE i < n
        <5>1. i \in 1..(n - 1)
          BY <4>1
        <5>. QED BY <2>1, <4>1, <5>1
      <4>2. CASE i = n
        BY <4>2 DEF last
      <4>. QED BY <4>1, <4>2
    <3>. HIDE DEF h
    <3>. QED BY <3>2, <3>3 DEF ToSetAt
  <2>3. h = [i \in 1..n |-> h[i]]
    <3>. HIDE DEF last
    <3>. QED OBVIOUS
  <2>4. Way(h, n)
    <3>. HIDE DEF h
    <3>. QED BY <2>2, <2>3
  <2>. HIDE DEF Way, h
  <2>. QED BY <2>4
<1>3. L \in T
  <2>. HIDE DEF T
  <2>1. 0..L \subseteq T
    BY <1>1, <1>2, AllTheWay
  <2>. QED BY <2>1
<1>. QED BY <1>3 DEF SetsAlong

LEMMA DropWay ==
    ASSUME NEW m, NEW p, NEW L \in Nat
    PROVE  \E at : DropsAlong(at, m, p, L)
<1> DEFINE Way(at, n) == at = [i \in 1..n |-> ToDrop(at, m, p, i)]
           T == {n \in 0..L : \E at : Way(at, n)}
<1>1. 0 \in T
  <2> DEFINE e == [i \in 1..0 |-> 0]
  <2>1. Way(e, 0)
    OBVIOUS
  <2>. HIDE DEF Way, e
  <2>. QED BY <2>1
<1>2. ASSUME NEW n \in 0..L, n # 0, n - 1 \in T PROVE n \in T
  <2>1. PICK g : Way(g, n - 1)
    <3>. HIDE DEF Way
    <3>. QED BY <1>2
  <2> DEFINE last == ToDrop(g, m, p, n)
             h == [i \in 1..n |-> IF i < n THEN g[i] ELSE last]
  <2>2. ASSUME NEW i \in 1..n PROVE h[i] = ToDrop(h, m, p, i)
    <3>1. i # 1 => i - 1 \in 1..n /\ i - 1 < n
      OBVIOUS
    <3>. HIDE DEF last
    <3>2. i # 1 => h[i - 1] = g[i - 1]
      BY <3>1
    <3>3. h[i] = ToDrop(g, m, p, i)
      <4>1. CASE i < n
        <5>1. i \in 1..(n - 1)
          BY <4>1
        <5>. QED BY <2>1, <4>1, <5>1
      <4>2. CASE i = n
        BY <4>2 DEF last
      <4>. QED BY <4>1, <4>2
    <3>. HIDE DEF h
    <3>. QED BY <3>2, <3>3 DEF ToDrop
  <2>3. h = [i \in 1..n |-> h[i]]
    <3>. HIDE DEF last
    <3>. QED OBVIOUS
  <2>4. Way(h, n)
    <3>. HIDE DEF h
    <3>. QED BY <2>2, <2>3
  <2>. HIDE DEF Way, h
  <2>. QED BY <2>4
<1>3. L \in T
  <2>. HIDE DEF T
  <2>1. 0..L \subseteq T
    BY <1>1, <1>2, AllTheWay
  <2>. QED BY <2>1
<1>. QED BY <1>3 DEF DropsAlong

LEMMA WayBack ==
    ASSUME NEW way, NEW p, NEW last, NEW L \in Nat, L = Len(p)
    PROVE  \E to : BacksUp(to, way, p, last, L)
<1> DEFINE Way(to, n) == to = [i \in (L - n + 1)..L |-> Back(to, way, p, last, i)]
           T == {n \in 0..L : \E to : Way(to, n)}
<1>1. 0 \in T
  <2> DEFINE e == [i \in (L + 1)..L |-> 0]
  <2>1. Way(e, 0)
    <3>1. L - 0 + 1 = L + 1
      OBVIOUS
    <3>2. (L + 1)..L = {}
      OBVIOUS
    <3>. QED BY <3>1, <3>2
  <2>. HIDE DEF Way, e
  <2>. QED BY <2>1
<1>2. ASSUME NEW n \in 0..L, n # 0, n - 1 \in T PROVE n \in T
  <2>1. PICK g : Way(g, n - 1)
    <3>. HIDE DEF Way
    <3>. QED BY <1>2
  <2> DEFINE k == L - n + 1
             first == Back(g, way, p, last, k)
             h == [i \in k..L |-> IF i > k THEN g[i] ELSE first]
  <2>0. k \in 1..L /\ L - (n - 1) + 1 = k + 1
    BY <1>2
  <2>a. g = [i \in (k + 1)..L |-> Back(g, way, p, last, i)]
    BY <2>0, <2>1
  <2>2. ASSUME NEW i \in k..L PROVE h[i] = Back(h, way, p, last, i)
    <3>. HIDE DEF first, k
    <3>1. i # L => i + 1 \in k..L /\ i + 1 > k
      BY <2>0
    <3>2. i # L => h[i + 1] = g[i + 1]
      BY <3>1
    <3>3. h[i] = Back(g, way, p, last, i)
      <4>1. CASE i > k
        <5>1. i \in (k + 1)..L
          BY <2>0, <4>1
        <5>. QED BY <2>a, <4>1, <5>1
      <4>2. CASE i = k
        BY <4>2 DEF first
      <4>. QED BY <2>0, <4>1, <4>2
    <3>. HIDE DEF h
    <3>. QED BY <3>2, <3>3 DEF Back
  <2>3. h = [i \in k..L |-> h[i]]
    <3>. HIDE DEF first, k
    <3>. QED OBVIOUS
  <2>4. Way(h, n)
    <3>. HIDE DEF h
    <3>. QED BY <2>2, <2>3
  <2>. HIDE DEF Way, h
  <2>. QED BY <2>4
<1>3. L \in T
  <2>. HIDE DEF T
  <2>1. 0..L \subseteq T
    BY <1>1, <1>2, AllTheWay
  <2>. QED BY <2>1
<1>4. L - L + 1 = 1
  OBVIOUS
<1>. QED BY <1>3, <1>4 DEF BacksUp

\* What is rebuilt differs from the first document on the way in one field.
LEMMA RebuiltIs ==
    ASSUME NEW way, NEW p, PathFits(p), NEW last
    PROVE  /\ Len(p) = 1 => Rebuilt(way, p, last) = last
           /\ Len(p) # 1 => \E x : Rebuilt(way, p, last) = WithField(way[1], p[1], x)
<1> DEFINE L == Len(p)
           to == CHOOSE to : to = [i \in DOMAIN p |-> Back(to, way, p, last, i)]
<1>1. L \in Nat /\ DOMAIN p = 1..L /\ 1 \in 1..L
  BY DEF PathFits
<1>2. Rebuilt(way, p, last) = to[1]
  BY Zenon DEF Rebuilt, Back
<1>3. to = [i \in DOMAIN p |-> Back(to, way, p, last, i)]
  <2>1. \E g : BacksUp(g, way, p, last, L)
    BY <1>1, WayBack
  <2>2. \E g : g = [i \in DOMAIN p |-> Back(g, way, p, last, i)]
    BY <1>1, <2>1 DEF BacksUp
  <2>. QED BY <2>2, Zenon
<1>. HIDE DEF to, L
<1>4. to[1] = Back(to, way, p, last, 1)
  BY <1>1, <1>3
<1>5. to[1] = IF L = 1 THEN last ELSE WithField(way[1], p[1], to[1 + 1])
  BY <1>4 DEF Back, L
<1>. QED BY <1>2, <1>5 DEF L

LEMMA SetAtLeaves ==
    ASSUME NEW m, NEW p, PathFits(p), NEW v
    PROVE  Leaves(SetAt(m, p, v), m, {p[1]})
<1> DEFINE L == Len(p)
           at == CHOOSE at : at = [i \in 1..L |-> ToSetAt(at, m, p, i)]
           last == WithField(at[L], p[L], v)
<1>1. L \in Nat /\ 1 \in 1..L
  BY DEF PathFits
<1>2. SetAt(m, p, v) = IF Is(at[L], "doc") THEN Rebuilt(at, p, last) ELSE Failed
  BY Zenon DEF SetAt, ToSetAt
<1>3. at = [i \in 1..L |-> ToSetAt(at, m, p, i)]
  <2>1. \E g : SetsAlong(g, m, p, L)
    BY <1>1, SetWay
  <2>. QED BY <2>1, Zenon DEF SetsAlong
<1>. HIDE DEF at
<1>4. at[1] = m
  BY <1>1, <1>3 DEF ToSetAt
<1>5. \E x : Rebuilt(at, p, last) = WithField(m, p[1], x)
  <2>1. CASE L = 1
    <3>1. last = WithField(m, p[1], v)
      BY <1>4, <2>1
    <3>. HIDE DEF last
    <3>. QED BY <2>1, <3>1, RebuiltIs
  <2>2. CASE L # 1
    <3>. HIDE DEF last
    <3>. QED BY <1>4, <2>2, RebuiltIs
  <2>. QED BY <2>1, <2>2
<1>. HIDE DEF last
<1>6. PICK x : Rebuilt(at, p, last) = WithField(m, p[1], x)
  BY <1>5
<1>7. ASSUME NEW f, f \notin {p[1]} PROVE SameAt(WithField(m, p[1], x), m, f)
  BY <1>7, SetField
<1>. QED BY <1>2, <1>6, <1>7 DEF Leaves

LEMMA RemovePathLeaves ==
    ASSUME NEW m, NEW p, PathFits(p), NEW f, f # p[1]
    PROVE  SameAt(RemovePath(m, p), m, f)
<1> DEFINE L == Len(p)
           at == CHOOSE at : at = [i \in 1..L |-> ToDrop(at, m, p, i)]
           last == NoField(at[L], p[L])
<1>1. L \in Nat /\ 1 \in 1..L
  BY DEF PathFits
<1>2. RemovePath(m, p) = IF Is(at[L], "doc") THEN Rebuilt(at, p, last) ELSE m
  BY Zenon DEF RemovePath, ToDrop
<1>3. at = [i \in 1..L |-> ToDrop(at, m, p, i)]
  <2>1. \E g : DropsAlong(g, m, p, L)
    BY <1>1, DropWay
  <2>. QED BY <2>1, Zenon DEF DropsAlong
<1>. HIDE DEF at
<1>4. at[1] = m
  BY <1>1, <1>3 DEF ToDrop
<1>5. SameAt(Rebuilt(at, p, last), m, f)
  <2>1. CASE L = 1
    <3>1. last = NoField(m, p[1])
      BY <1>4, <2>1
    <3>2. Rebuilt(at, p, last) = last
      BY <2>1, RebuiltIs
    <3>3. SameAt(NoField(m, p[1]), m, f)
      BY DropField
    <3>. HIDE DEF last
    <3>. QED BY <3>1, <3>2, <3>3
  <2>2. CASE L # 1
    <3>. HIDE DEF last
    <3>1. PICK x : Rebuilt(at, p, last) = WithField(m, p[1], x)
      BY <1>4, <2>2, RebuiltIs
    <3>2. SameAt(WithField(m, p[1], x), m, f)
      BY SetField
    <3>. QED BY <3>1, <3>2
  <2>. QED BY <2>1, <2>2
<1>6. SameAt(m, m, f)
  BY DEF SameAt
<1>. QED BY <1>2, <1>5, <1>6

LEMMA SetPathLeaves ==
    ASSUME NEW m, NEW p, PathFits(p), NEW v
    PROVE  Leaves(SetPath(m, p, v), m, {p[1]})
BY SetAtLeaves DEF SetPath, Leaves

\* Errors and documents that stay as they are.
LEMMA Untouched ==
    ASSUME NEW m, NEW fields
    PROVE  Leaves(Failed, m, fields) /\ Leaves(m, m, fields)
BY DEF Leaves, SameAt

LEMMA LeavesThrough ==
    ASSUME NEW a, NEW b, NEW c, NEW fields, NEW more, a # Failed,
           Leaves(a, b, fields), Leaves(c, a, more)
    PROVE  Leaves(c, b, fields \union more)
<1>1. CASE c = Failed
  BY <1>1 DEF Leaves
<1>2. CASE c # Failed
  <2>1. ASSUME NEW f, f \notin fields \union more PROVE SameAt(c, b, f)
    <3>1. SameAt(c, a, f) /\ SameAt(a, b, f)
      BY <1>2, <2>1 DEF Leaves
    <3>. QED BY <3>1 DEF SameAt
  <2>. QED BY <2>1 DEF Leaves
<1>. QED BY <1>1, <1>2

\* The top-level fields that one operator names.
Names(u) == {u.path[1]} \union {x.val[2][1] : x \in {y \in {u} : y.op = "$rename"}}

LEMMA RenameLeaves ==
    ASSUME NEW m, NEW p, PathFits(p), NEW val, Is(val, "path") => PathFits(val[2])
    PROVE  Leaves(Rename(m, p, val), m, {p[1], val[2][1]})
<1> DEFINE r == RemovePath(m, p)
           s == SetPath(r, val[2], LookupPath(m, p))
<1>1. Rename(m, p, val) \in {Failed, m} \/ (Is(val, "path") /\ Rename(m, p, val) = s)
  BY Zenon DEF Rename
<1>2. CASE Rename(m, p, val) \in {Failed, m}
  BY <1>2, Untouched
<1>3. CASE Is(val, "path") /\ Rename(m, p, val) = s
  <2>1. Leaves(s, r, {val[2][1]})
    <3>. HIDE DEF r
    <3>. QED BY <1>3, SetPathLeaves
  <2>2. ASSUME NEW f, f # p[1] PROVE SameAt(r, m, f)
    BY <2>2, RemovePathLeaves
  <2>. HIDE DEF r, s
  <2>3. ASSUME NEW f, f \notin {p[1], val[2][1]}, s # Failed PROVE SameAt(s, m, f)
    <3>1. SameAt(s, r, f)
      BY <2>1, <2>3 DEF Leaves
    <3>2. SameAt(r, m, f)
      BY <2>2, <2>3
    <3>. QED BY <3>1, <3>2 DEF SameAt
  <2>4. Leaves(s, m, {p[1], val[2][1]})
    BY <2>3 DEF Leaves
  <2>. QED BY <1>3, <2>4
<1>. QED BY <1>1, <1>2, <1>3

LEMMA ArrayOpLeaves ==
    ASSUME NEW m, NEW p, PathFits(p), NEW val, NEW all
    PROVE  /\ Leaves(Push(m, p, val), m, {p[1]})
           /\ Leaves(AddToSet(m, p, val), m, {p[1]})
           /\ Leaves(Pop(m, p, val), m, {p[1]})
           /\ Leaves(Pull(m, p, val, all), m, {p[1]})
<1>1. \A v : Leaves(SetAt(m, p, v), m, {p[1]})
  BY SetAtLeaves
<1>2. Leaves(Failed, m, {p[1]}) /\ Leaves(m, m, {p[1]})
  BY Untouched
<1>3. Push(m, p, val) = Failed \/ \E v : Push(m, p, val) = SetAt(m, p, v)
  BY Zenon DEF Push, OnArray
<1>4. AddToSet(m, p, val) = Failed \/ \E v : AddToSet(m, p, val) = SetAt(m, p, v)
  BY Zenon DEF AddToSet, OnArray
<1>5. Pop(m, p, val) \in {Failed, m} \/ \E v : Pop(m, p, val) = SetAt(m, p, v)
  BY Zenon DEF Pop
<1>6. Pull(m, p, val, all) = Failed \/ \E v : Pull(m, p, val, all) = SetAt(m, p, v)
  BY Zenon DEF Pull, OnArray
<1>. QED BY <1>1, <1>2, <1>3, <1>4, <1>5, <1>6

LEMMA OpLeaves ==
    ASSUME NEW m, NEW e, ExprFits(e), e.kind = "ops", NEW u \in e.ops
    PROVE  Leaves(ApplyUpdateOp(m, u.op, u.path, u.val), m, Names(u))
<1> DEFINE p == u.path
           r == ApplyUpdateOp(m, u.op, p, u.val)
<1>1. /\ u.op \in UpdateOps /\ PathFits(p)
      /\ u.op = "$rename" /\ Is(u.val, "path") => PathFits(u.val[2])
  BY DEF ExprFits
<1>2. /\ p[1] \in Names(u)
      /\ u.op = "$rename" => u.val[2][1] \in Names(u)
  BY DEF Names
<1>3. ASSUME NEW S, Leaves(r, m, S), S \subseteq Names(u) PROVE Leaves(r, m, Names(u))
  BY <1>3 DEF Leaves
<1>4. \A v : Leaves(SetPath(m, p, v), m, {p[1]})
  BY <1>1, SetPathLeaves
<1>5. Leaves(Failed, m, {p[1]}) /\ Leaves(m, m, {p[1]})
  BY Untouched
<1>6. ASSUME u.op # "$rename" PROVE Leaves(r, m, {p[1]})
  <2>1. CASE u.op \in {"$set", "$setOnInsert"}
    <3>1. r = SetPath(m, p, u.val)
      BY <2>1 DEF ApplyUpdateOp
    <3>. QED BY <1>4, <3>1
  <2>2. CASE u.op = "$unset"
    <3>1. r = RemovePath(m, p)
      BY <2>2 DEF ApplyUpdateOp
    <3>. HIDE DEF r, p
    <3>. QED BY <1>1, <3>1, RemovePathLeaves DEF Leaves
  <2>3. CASE u.op \in {"$inc", "$mul"}
    <3>1. r = Arith(m, u.op, p, u.val)
      BY <2>3 DEF ApplyUpdateOp
    <3>2. r = Failed \/ \E v : r = SetPath(m, p, v)
      <4>. HIDE DEF r, p
      <4>. QED BY <3>1, Zenon DEF Arith
    <3>. QED BY <1>4, <1>5, <3>2
  <2>4. CASE u.op \in {"$min", "$max"}
    <3>1. r = MinMax(m, u.op, p, u.val)
      BY <2>4 DEF ApplyUpdateOp
    <3>2. r = m \/ \E v : r = SetPath(m, p, v)
      <4>. HIDE DEF r, p
      <4>. QED BY <3>1, Zenon DEF MinMax
    <3>. QED BY <1>4, <1>5, <3>2
  <2>5. CASE u.op \in {"$push", "$addToSet", "$pop", "$pull", "$pullAll"}
    <3>1. \/ r = Push(m, p, u.val) \/ r = AddToSet(m, p, u.val) \/ r = Pop(m, p, u.val)
          \/ r = Pull(m, p, u.val, FALSE) \/ r = Pull(m, p, u.val, TRUE)
      <4>1. u.op = "$push" => r = Push(m, p, u.val)
        BY DEF ApplyUpdateOp
      <4>2. u.op = "$addToSet" => r = AddToSet(m, p, u.val)
        BY DEF ApplyUpdateOp
      <4>3. u.op = "$pop" => r = Pop(m, p, u.val)
        BY DEF ApplyUpdateOp
      <4>4. u.op = "$pull" => r = Pull(m, p, u.val, FALSE)
        BY DEF ApplyUpdateOp
      <4>5. u.op = "$pullAll" => r = Pull(m, p, u.val, TRUE)
        BY DEF ApplyUpdateOp
      <4>. QED BY <2>5, <4>1, <4>2, <4>3, <4>4, <4>5
    <3>. HIDE DEF r, p
    <3>. QED BY <1>1, <3>1, ArrayOpLeaves
  <2>. QED BY <1>1, <1>6, <2>1, <2>2, <2>3, <2>4, <2>5 DEF UpdateOps
<1>7. ASSUME u.op = "$rename" PROVE Leaves(r, m, {p[1], u.val[2][1]})
  <2>1. r = Rename(m, p, u.val)
    BY <1>7 DEF ApplyUpdateOp
  <2>. HIDE DEF r, p
  <2>. QED BY <1>1, <1>7, <2>1, RenameLeaves
<1>8. CASE u.op = "$rename"
  <2>1. {p[1], u.val[2][1]} \subseteq Names(u)
    BY <1>2, <1>8
  <2>. QED BY <1>3, <1>7, <1>8, <2>1
<1>9. CASE u.op # "$rename"
  <2>1. {p[1]} \subseteq Names(u)
    BY <1>2
  <2>. QED BY <1>3, <1>6, <1>9, <2>1
<1>. QED BY <1>8, <1>9

\* One turn of the loop over the operators.
Turn(after, old, ops, n) ==
    IF n = 0 THEN old
    ELSE IF after[n - 1] = Failed THEN Failed
    ELSE ApplyUpdateOp(after[n - 1], ops[n].op, ops[n].path, ops[n].val)

TurnsOver(after, old, ops, L) == after = [n \in 0..L |-> Turn(after, old, ops, n)]

LEMMA Turns ==
    ASSUME NEW old, NEW ops, NEW L \in Nat
    PROVE  \E after : TurnsOver(after, old, ops, L)
<1> DEFINE Way(g, k) == g = [n \in 0..k |-> Turn(g, old, ops, n)]
           T == {k \in 0..L : \E g : Way(g, k)}
<1>1. 0 \in T
  <2> DEFINE e == [n \in 0..0 |-> old]
  <2>1. Way(e, 0)
    <3>1. \A n \in 0..0 : n = 0
      OBVIOUS
    <3>. QED BY <3>1 DEF Turn
  <2>. HIDE DEF Way, e
  <2>. QED BY <2>1
<1>2. ASSUME NEW k \in 0..L, k # 0, k - 1 \in T PROVE k \in T
  <2>1. PICK g : Way(g, k - 1)
    <3>. HIDE DEF Way
    <3>. QED BY <1>2
  <2> DEFINE last == Turn(g, old, ops, k)
             h == [n \in 0..k |-> IF n < k THEN g[n] ELSE last]
  <2>2. ASSUME NEW n \in 0..k PROVE h[n] = Turn(h, old, ops, n)
    <3>1. n # 0 => n - 1 \in 0..k /\ n - 1 < k
      OBVIOUS
    <3>. HIDE DEF last
    <3>2. n # 0 => h[n - 1] = g[n - 1]
      BY <3>1
    <3>3. h[n] = Turn(g, old, ops, n)
      <4>1. CASE n < k
        <5>1. n \in 0..(k - 1)
          BY <4>1
        <5>. QED BY <2>1, <4>1, <5>1
      <4>2. CASE n = k
        BY <4>2 DEF last
      <4>. QED BY <4>1, <4>2
    <3>. HIDE DEF h
    <3>. QED BY <3>2, <3>3 DEF Turn
  <2>3. h = [n \in 0..k |-> h[n]]
    <3>. HIDE DEF last
    <3>. QED OBVIOUS
  <2>4. Way(h, k)
    <3>. HIDE DEF h
    <3>. QED BY <2>2, <2>3
  <2>. HIDE DEF Way, h
  <2>. QED BY <2>4
<1>3. L \in T
  <2>. HIDE DEF T
  <2>1. 0..L \subseteq T
    BY <1>1, <1>2, AllTheWay
  <2>. QED BY <2>1
<1>. QED BY <1>3 DEF TurnsOver

\* An order of operators is a list of them.
LEMMA OrdersAre ==
    ASSUME NEW S, IsFiniteSet(S), NEW s \in Orders(S)
    PROVE  Len(s) \in Nat /\ \A n \in 1..Len(s) : s[n] \in S
<1> DEFINE c == Cardinality(S)
           D == 1..c
<1>1. c \in Nat
  BY FS_CardinalityType
<1>2. s \in SetToSeqs(S)
  BY DEF Orders
<1>3. s \in [D -> S]
  BY <1>2, Zenon DEF SetToSeqs
<1>4. s \in Seq(S)
  <2>. HIDE DEF c
  <2>. QED BY <1>1, <1>3
<1>. QED BY <1>4

\* However the operators are walked, the fields they do not name stay.
LEMMA ExprLeaves ==
    ASSUME NEW old, NEW e, ExprFits(e), e.kind = "ops", NEW up \in BOOLEAN,
           NEW d \in ApplyUpdateExpr(old, e, up)
    PROVE  Leaves(d, old, Named(e))
<1> DEFINE live == {u \in e.ops : u.op = "$setOnInsert" => up}
<1>1. PICK s \in Orders(live) : d = ApplyOps(old, s)
  BY DEF ApplyUpdateExpr
<1>2. IsFiniteSet(live) /\ live \subseteq e.ops
  <2>1. IsFiniteSet(e.ops)
    BY DEF ExprFits
  <2>2. live \in SUBSET e.ops
    OBVIOUS
  <2>. HIDE DEF live
  <2>. QED BY <2>1, <2>2, FS_Subset
<1>. HIDE DEF live
<1> DEFINE L == Len(s)
           after == CHOOSE after : after = [n \in 0..L |-> Turn(after, old, s, n)]
<1>3. L \in Nat /\ \A n \in 1..L : s[n] \in e.ops
  BY <1>2, OrdersAre
<1>4. d = after[L]
  BY <1>1, Zenon DEF ApplyOps, Turn
<1>5. after = [n \in 0..L |-> Turn(after, old, s, n)]
  <2>1. \E g : TurnsOver(g, old, s, L)
    BY <1>3, Turns
  <2>. QED BY <2>1, Zenon DEF TurnsOver
<1>. HIDE DEF after, L
<1> DEFINE T == {n \in 0..L : Leaves(after[n], old, Named(e))}
<1>6. 0 \in T
  <2>1. after[0] = old
    BY <1>3, <1>5 DEF Turn
  <2>. QED BY <1>3, <2>1, Untouched
<1>7. ASSUME NEW n \in 0..L, n # 0, n - 1 \in T PROVE n \in T
  <2>1. after[n] = Turn(after, old, s, n)
    BY <1>5
  <2>2. n \in 1..L /\ n - 1 \in 0..L
    BY <1>3, <1>7
  <2>3. CASE after[n - 1] = Failed
    <3>1. after[n] = Failed
      BY <1>7, <2>1, <2>3 DEF Turn
    <3>. QED BY <3>1, Untouched
  <2>4. CASE after[n - 1] # Failed
    <3> DEFINE u == s[n]
               a == after[n - 1]
               r == ApplyUpdateOp(a, u.op, u.path, u.val)
    <3>1. after[n] = r
      BY <1>7, <2>1, <2>4 DEF Turn
    <3>2. u \in e.ops
      BY <1>3, <2>2
    <3>. HIDE DEF u, a
    <3>3. Leaves(r, a, Names(u))
      BY <3>2, OpLeaves
    <3>4. Names(u) \subseteq Named(e)
      BY <3>2 DEF Names, Named
    <3>5. Leaves(a, old, Named(e)) /\ a # Failed
      BY <1>7, <2>4 DEF a
    <3>. HIDE DEF r
    <3>6. Leaves(r, old, Named(e) \union Names(u))
      BY <3>3, <3>5, LeavesThrough
    <3>7. Named(e) \union Names(u) = Named(e)
      BY <3>4
    <3>. QED BY <3>1, <3>6, <3>7
  <2>. QED BY <2>3, <2>4
<1>8. L \in T
  <2>. HIDE DEF T
  <2>1. 0..L \subseteq T
    BY <1>3, <1>6, <1>7, AllTheWay
  <2>. QED BY <1>3, <2>1
<1>. QED BY <1>4, <1>8

\* What c does changes no other run.
LEMMA OwnRun ==
    ASSUME NEW c, CommandStep(c)
    PROVE  \E o : run' = [run EXCEPT ![c] = o]
<1> DEFINE Own == \E o : run' = [run EXCEPT ![c] = o]
<1>1. ASSUME NEW o, NEW v, Answer(c, o, v) PROVE Own
  BY <1>1 DEF Answer
<1>2. ASSUME NEW o, Goes(c, o) PROVE Own
  BY <1>2 DEF Goes
<1>3. ASSUME NEW o, NEW v, Advance(c, o, v) PROVE Own
  BY <1>1, <1>3 DEF Advance
<1>4. ASSUME NEW o, NEW v, OnWith(c, o, v) PROVE Own
  BY <1>2, <1>3, <1>4 DEF OnWith
<1>. HIDE DEF Own
<1>5. InsertOne(c) => Own
  BY <1>3, Zenon DEF InsertOne
<1>6. StatementFind(c) => Own
  BY <1>2, <1>3, Zenon DEF StatementFind
<1>7. StatementUpsert(c) => Own
  BY <1>3, Zenon DEF StatementUpsert
<1>8. StatementRemove(c) => Own
  BY <1>3, <1>4, Zenon DEF StatementRemove
<1>9. StatementUpdate(c) => Own
  BY <1>3, <1>4, Zenon DEF StatementUpdate
<1>10. QueryFind(c) => Own
  BY <1>1, <1>2, Zenon DEF QueryFind
<1>11. QueryReply(c) => Own
  BY <1>1, Zenon DEF QueryReply
<1>12. ASSUME NEW id, GetMore(c, id) PROVE Own
  BY <1>1, <1>12, Zenon DEF GetMore
<1>13. ASSUME NEW id, KillCursors(c, id) PROVE Own
  BY <1>1, <1>13, Zenon DEF KillCursors
<1>14. Own
  BY <1>5, <1>6, <1>7, <1>8, <1>9, <1>10, <1>11, <1>12, <1>13, Zenon DEF CommandStep
<1>. QED BY <1>14 DEF Own

\* A command that is at its documents and removes none goes on by updating one.
LEMMA ByUpdating ==
    ASSUME WInv, [Next]_vars, NEW c \in Conns, run'[c] # run[c], run[c].ph = "each",
           ~Stmt(c).remove
    PROVE  StatementUpdate(c)
<1>1. DOMAIN run = Conns
  BY DEF WInv, Books
<1>2. ~UNCHANGED run
  OBVIOUS
<1>3. ASSUME NEW d \in Conns, CommandStep(d) PROVE d = c
  <2>1. PICK o : run' = [run EXCEPT ![d] = o]
    BY <1>3, OwnRun
  <2>. QED BY <1>1, <2>1
<1>4. ASSUME NEW d \in Conns, NEW k \in left.cmds, Begin(d, k) PROVE FALSE
  <2>1. run[d].ph = "idle"
    BY <1>4 DEF Begin, Reads, Running
  <2>2. run'[c] = run[c] \/ d = c
    BY <1>1, <1>4 DEF Begin
  <2>. QED BY <2>1, <2>2
<1>5. /\ ~ServeBegin /\ ~AcceptFails /\ ~CloseBegin /\ ~CloseAll /\ ~CloseEnd
      /\ ~UNCHANGED vars
  BY <1>2 DEF ServeBegin, AcceptFails, CloseBegin, CloseAll, CloseEnd, vars
<1>6. \A d \in Conns : ~Accept(d) /\ ~Enlist(d) /\ ~Spawn(d) /\ ~EndConn(d) /\ ~HangUp(d)
  BY <1>2 DEF Accept, Enlist, Spawn, EndConn, HangUp
<1>7. \A d \in Conns, b \in BOOLEAN : ~SaslStart(d, b) /\ ~SaslContinue(d, b)
  BY <1>2 DEF SaslStart, SaslContinue
<1>8. \A r : ~RbacChange(r)
  BY <1>2 DEF RbacChange
<1>9. \A id : ~Expire(id)
  BY <1>2 DEF Expire
<1>10. CommandStep(c)
  BY <1>3, <1>4, <1>5, <1>6, <1>7, <1>8, <1>9, Zenon DEF Next
<1>11. ~InsertOne(c) /\ ~StatementFind(c) /\ ~StatementUpsert(c) /\ ~StatementRemove(c)
  BY DEF InsertOne, StatementFind, StatementUpsert, StatementRemove, Running
<1>12. ~QueryFind(c) /\ ~QueryReply(c)
  BY DEF QueryFind, QueryReply, Running
<1>13. \A id : ~GetMore(c, id) /\ ~KillCursors(c, id)
  BY DEF GetMore, KillCursors, Running
<1>. QED BY <1>10, <1>11, <1>12, <1>13, Zenon DEF CommandStep

\* A patch changes what became another in the document it was worked out on.
LEMMA PatchChanges ==
    ASSUME NEW x, NEW old, NEW fresh, NEW f, SameAt(fresh, old, f)
    PROVE  Field(Patched(x, DiffTopLevel(old, fresh)), f) = Field(x, f)
<1> DEFINE p == DiffTopLevel(old, fresh)
<1>1. f \notin DOMAIN p.patch
  BY DEF DiffTopLevel, SameAt, Field
<1>2. f \notin p.remove
  BY DEF DiffTopLevel, SameAt
<1>. HIDE DEF p
<1>3. /\ f \in DOMAIN Patched(x, p)[2] <=> f \in DOMAIN x[2]
      /\ f \in DOMAIN x[2] => Patched(x, p)[2][f] = x[2][f]
  BY <1>1, <1>2 DEF Patched, Doc
<1>. QED BY <1>3 DEF Field, p

LEMMA UpdateStays ==
    ASSUME WInv, NEW c \in Conns, StatementUpdate(c), Stmt(c).u.kind = "ops",
           NEW i \in DOMAIN coll, NEW f, Field(coll[i], f) # Field(coll'[i], f)
    PROVE  f \in Named(Stmt(c).u)
<1> DEFINE o == run[c]
           doc == o.todo[1]
           id == IdOf(doc)
           u == Stmt(c).u
<1>1. run[c].ph = "each" /\ ~Stmt(c).remove
  BY DEF StatementUpdate, Running
<1>2. ExprFits(u)
  <2>1. /\ CommandFits(Cmd(c)) /\ o.i \in 1..Len(Cmd(c).stmts)
    BY <1>1, CommandOf
  <2>2. DOMAIN Cmd(c).stmts = 1..Len(Cmd(c).stmts)
    BY <2>1, StmtsFit
  <2>3. ~Cmd(c).stmts[o.i].remove
    BY <1>1 DEF Stmt
  <2>4. Cmd(c).name # "delete"
    BY <2>1, <2>2, <2>3 DEF CommandFits
  <2>5. Cmd(c).name \in {"update", "delete", "findAndModify"}
    BY <1>1, CommandOf, WritesOnly
  <2>. QED BY <2>1, <2>2, <2>4, <2>5 DEF CommandFits, Stmt
<1>3. PICK fresh \in ApplyUpdateExpr(doc, u, FALSE) :
         \/ UNCHANGED coll
         \/ fresh # Failed /\ Put(id, Patched(coll[id], DiffTopLevel(doc, fresh)))
  BY DEF StatementUpdate
<1>4. Leaves(fresh, doc, Named(u))
  BY <1>2, ExprLeaves
<1>. HIDE DEF doc, u
<1>5. CASE UNCHANGED coll
  BY <1>5
<1>6. CASE fresh # Failed /\ Put(id, Patched(coll[id], DiffTopLevel(doc, fresh)))
  <2> DEFINE d == Patched(coll[id], DiffTopLevel(doc, fresh))
  <2>1. coll' = [j \in DOMAIN coll \union {id} |-> IF j = id THEN d ELSE coll[j]]
    BY <1>6 DEF Put
  <2>2. SUFFICES ASSUME f \notin Named(u) PROVE FALSE
    BY DEF u
  <2>3. SameAt(fresh, doc, f)
    BY <1>4, <1>6, <2>2 DEF Leaves
  <2>4. Field(d, f) = Field(coll[id], f)
    BY <2>3, PatchChanges
  <2>. HIDE DEF d, id
  <2>. QED BY <2>1, <2>4
<1>. QED BY <1>3, <1>5, <1>6

-----------------------------------------------------------------------------
(* The theorems *)

\* Close ends the service and waits for no client (server.go:86-121): once it has
\* shut what is listed nobody reads from a client any more, also who is yet to be
\* counted, and when it has returned no command runs; the types hold as well.
THEOREM CloseIsQuiet == Spec => []ClosedIsQuiet
<1>1. WInv => ClosedIsQuiet
  <2>. SUFFICES ASSUME WInv PROVE ClosedIsQuiet
    OBVIOUS
  <2>1. TypeOK
    <3>1. start \in DOMAIN Starts /\ left.cmds \subseteq DOMAIN Cmds
      BY DEF WInv, Net, Books
    <3>2. \A i \in DOMAIN coll : Is(coll[i], "doc") /\ Field(coll[i], "_id") = Str(i)
      BY DEF WInv, Store
    <3>3. /\ rbac \in {"off", "knows", "refuses"}
          /\ serve \in {"off", "accept", "hold", "ended"} /\ ln \in {"none", "open", "shut"}
          /\ closing \in {"no", "set", "wait", "done"}
          /\ tracked = {c \in Conns : conn[c].life = "serving"}
      BY DEF WInv, Net
    <3>4. ASSUME NEW c \in Conns
          PROVE  /\ conn[c].life \in {"new", "accepted", "listed", "serving", "gone"}
                 /\ conn[c].sock \in {"open", "peer", "shut"}
                 /\ conn[c].scram \in {"nil", "asked", "skips", "proved"}
                 /\ conn[c].session \in {"none", "live", "stale"}
                 /\ run[c].ph # "idle" => run[c].i \in DOMAIN Cmd(c).stmts
      <4>1. conn[c] \in ConnType
        BY DEF WInv, Net
      <4>2. run[c].ph # "idle" => run[c].i \in DOMAIN Cmd(c).stmts
        BY DEF WInv, Books
      <4>. QED BY <4>1, <4>2 DEF ConnType
    <3>5. \A id \in DOMAIN cursors : id < next /\ cursors[id].pos < Len(cursors[id].docs)
      BY DEF WInv, Tiles, CursorFits
    <3>. QED BY <3>1, <3>2, <3>3, <3>4, <3>5 DEF TypeOK
  <2>2. closing \in {"wait", "done"} =>
           \A c \in Conns : conn[c].life \in {"listed", "serving"} => conn[c].sock = "shut"
    BY DEF WInv, Net
  <2>3. closing = "done" => \A c \in Conns : run[c].ph = "idle" /\ ~Reads(c)
    BY <2>2 DEF WInv, Net, Reads
  <2>. QED BY <2>1, <2>2, <2>3 DEF ClosedIsQuiet
<1>. QED BY <1>1, WInvHolds, PTL

\* With AuthUser set no connection runs a command before its client has proved that
\* it knows the password (server.go:481, scram.go:124-220).
THEOREM OnlyProvedActs == Spec => []OnlyTheProvedAct
<1>1. WInv => OnlyTheProvedAct
  BY DEF WInv
<1>. QED BY <1>1, WInvHolds, PTL

\* The batches of a find and what its cursor still holds are its documents, each
\* once and in order, whoever asks for them, in whatever sizes (cursor.go:41-67,
\* commands.go:216-255).
THEOREM BatchesAlwaysTile == Spec => []BatchesTile
<1>1. WInv => BatchesTile
  BY DEF WInv, Tiles, StreamFits, Unsent, BatchesTile
<1>. QED BY <1>1, WInvHolds, PTL

\* A reply counts what was done to the store, and says which of the statements
\* failed and how far a batch got (commands.go:12-61, 461-571, 573-631).
THEOREM RepliesAlwaysTrue == Spec => []RepliesAreTrue
<1>1. WInv => RepliesAreTrue
  BY DEF WInv
<1>. QED BY <1>1, WInvHolds, PTL

\* No two clients take the same document away (commands.go:654-700).
THEOREM NeverTakenTwice == Spec => []TakenOnce
<1>1. WInv => TakenOnce
  <2>. SUFFICES ASSUME WInv, NEW i \in DOMAIN inserted
                PROVE  Cardinality(Takers(i)) <= inserted[i]
    BY Zenon DEF TakenOnce, Takers
  <2>1. /\ inserted[i] \in Nat
        /\ Cardinality(Takers(i)) + (IF i \in DOMAIN coll THEN 1 ELSE 0) <= inserted[i]
    BY DEF WInv, Store
  <2>2. Cardinality(Takers(i)) \in Nat
    <3>1. IsFiniteSet(DOMAIN Cmds) /\ DOMAIN replies = DOMAIN Cmds
      BY CmdsFit DEF WInv, Net, Books
    <3>2. Takers(i) \subseteq DOMAIN replies
      BY DEF Takers
    <3>. QED BY <3>1, <3>2, FS_Subset, FS_CardinalityType
  <2>. QED BY <2>1, <2>2
<1>. QED BY <1>1, WInvHolds, PTL

\* An update with operators changes no field but those it names, whatever others
\* have written since it found its document (update.go:577-598,
\* commands.go:461-571).
THEOREM OthersStay == Spec => OthersFieldsStay
<1>1. WInv /\ [Next]_vars =>
         [\A c \in Conns :
            run[c] # run'[c] /\ run[c].ph = "each" /\ ~Stmt(c).remove /\ Stmt(c).u.kind = "ops" =>
               \A i \in DOMAIN coll : \A f \in DOMAIN coll[i][2] \union DOMAIN coll'[i][2] :
                  Field(coll[i], f) # Field(coll'[i], f) => f \in Named(Stmt(c).u)]_vars
  BY ByUpdating, UpdateStays
<1>. QED BY <1>1, WInvHolds, PTL DEF Spec, OthersFieldsStay
=============================================================================
