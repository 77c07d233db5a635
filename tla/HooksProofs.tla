----------------------------- MODULE HooksProofs -----------------------------
(***************************************************************************)
(* Proofs about Hooks, for any hooks, triggers and documents, any number   *)
(* of callers and any depth and queue: WaitAsyncHooks returns when the     *)
(* hooks queued before it have run, the triggers hooked in are those       *)
(* stored, and an Update that was applied has the document it asked for.   *)
(*                                                                         *)
(* HInv is the inductive invariant. Its parts: what the variables hold and *)
(* what each pc of a mutation says of its frame (Types), which worker is   *)
(* busy with what (Busy), the one queue there is until Close (OneQueue),   *)
(* where each job and each barrier is (NoneLost, Barriers, Passed), and    *)
(* how the hooks go with _triggers while trigMu is held (Ids, Hooking).    *)
(***************************************************************************)
EXTENDS Hooks, SequenceTheorems, WellFoundedInduction, TLAPS

-----------------------------------------------------------------------------
(* The inductive invariant *)

Nested(chain) == Len(chain) <= MaxHookDepth /\ IsInjective(chain)

FrameType ==
    [op : Op, coll : Coll, val : Doc, asked : Doc, chain : Seq(Nat),
     pc : {"start", "before", "in before", "vetoed", "apply", "fire", "after",
           "in after", "queue", "send"},
     todo : Seq(Reg), old : Doc, q : Nat]

\* A mutation that is not a delete has a value until it is applied, except for
\* the update whose patch is empty: it asks for what was previewed. One in a
\* hook, or about to queue it, has that hook first in todo. A sender has a
\* queue that was made.
FrameFits(f, n) ==
    /\ Nested(f.chain)
    /\ f.pc \in {"start", "before", "in before"} /\ f.val = None => f.op = "delete"
    /\ f.pc = "start" => f.asked = f.val
    /\ f.pc = "apply" /\ f.op = "update" =>
          (f.val # None /\ f.val = f.asked) \/ (f.val = None /\ f.asked = f.old)
    /\ f.pc \in {"in before", "in after", "queue", "send"} => f.todo # <<>>
    /\ f.pc = "send" => f.q \in 1..n

Frames(n) == {f \in FrameType : FrameFits(f, n)}

InHook(f) == f.pc \in {"in before", "in after"}

\* All but the innermost mutation are in a hook.
Stacks(n) ==
    {s \in Seq(Frames(n)) : \A i \in 1..(Len(s) - 1) : InHook(s[i])}

JobType == [n : Nat \ {0}, reg : Reg, coll : Coll, doc : Doc, old : Doc,
            op : Op, chain : Seq(Nat)]

BarrierType == [n : {None}, for : Caller]

\* What a queue may hold when m jobs were sent.
Queued(m) == {j \in JobType : j.n <= m /\ Nested(j.chain)} \union BarrierType

WorkerType(m) == [q : Seq(Queued(m)), stop : BOOLEAN, on : BOOLEAN]

WaitingType(m) == [pc : {"no", "send", "barrier", "passed"}, q : Nat, owed : SUBSET (1..m)]

Types ==
    /\ docs \in [Coll -> Doc]
    /\ hooks \in Seq(Reg)
    /\ stack \in [Thread -> Stacks(Len(workers))]
    /\ hookQ \in 0..Len(workers)
    /\ workers \in Seq(WorkerType(sent))
    /\ Len(workers) <= MaxWorkers
    /\ \A w \in DOMAIN workers : Len(workers[w].q) <= HookQueueSize
    /\ job \in [Worker -> 0..sent]
    /\ waiting \in [Caller -> WaitingType(sent)]
    /\ \A c \in Caller : waiting[c].pc = "send" => waiting[c].q \in DOMAIN workers
    /\ sent \in Nat
    /\ finished \subseteq 1..sent

\* A worker has a job as long as the mutation of a hook is on its stack.
Busy == \A w \in Worker : job[w] = None <=> stack[w] = <<>>

\* The queue that is open has a worker that goes on; before Close it is the
\* only one there was.
OneQueue ==
    /\ hookQ # None => workers[hookQ].on /\ ~workers[hookQ].stop
    /\ close.pc = "open" => Len(workers) = hookQ /\ hookQ \in {None, 1}
    /\ close.pc = "open" /\ hookQ = None => sent = 0

\* Whether job n is being run, or queued among the first k.
Ahead(n, k) == job[1] = n \/ \E i \in 1..k : workers[1].q[i].n = n

NoneLost ==
    close.pc = "open" /\ hookQ # None =>
        \A n \in 1..sent : n \in finished \/ Ahead(n, Len(workers[1].q))

\* A barrier is the only one of a caller that waits at it, and lies behind
\* what the caller is owed.
Barriers ==
    close.pc = "open" /\ hookQ # None =>
        LET q == workers[1].q IN
        \A i \in DOMAIN q : IsBarrier(q[i]) =>
            /\ waiting[q[i].for].pc = "barrier"
            /\ \A n \in waiting[q[i].for].owed : n \in finished \/ Ahead(n, i - 1)
            /\ \A k \in DOMAIN q : IsBarrier(q[k]) /\ q[k].for = q[i].for => k = i

Passed ==
    close.pc = "open" =>
        \A c \in Caller : waiting[c].pc = "passed" => waiting[c].owed \subseteq finished

\* No two hooks have the same id.
Ids == \A i, j \in DOMAIN hooks : hooks[i].id = hooks[j].id => i = j

\* The holder of trigMu has written its trigger and not registered it yet.
Hooking ==
    /\ trigs \subseteq Triggers
    /\ trigOp = NoOp \/ trigOp \in [pc : {"create", "delete"}, r : Triggers]
    /\ \A r \in Triggers :
          IF trigOp # NoOp /\ trigOp.r = r
          THEN /\ r \in trigs <=> trigOp.pc = "create"
               /\ r.id \in Hooked <=> trigOp.pc = "delete" /\ r \notin Disabled
          ELSE r \in trigs \ Disabled <=> r.id \in Hooked

HInv ==
    /\ Types /\ Busy /\ OneQueue /\ NoneLost /\ Barriers /\ Passed
    /\ Ids /\ Hooking

-----------------------------------------------------------------------------
(* Sequences *)

LEMMA FrontAndLast ==
    ASSUME NEW S, NEW s \in Seq(S), s # <<>>
    PROVE  /\ Len(s) \in Nat \ {0}
           /\ Last(s) \in S
           /\ Front(s) \in Seq(S) /\ Len(Front(s)) = Len(s) - 1
           /\ \A i \in 1..(Len(s) - 1) : Front(s)[i] = s[i]
           /\ Front(s) # <<>> => Last(Front(s)) = s[Len(s) - 1]
<1>1. Len(s) \in Nat \ {0} /\ \A i \in 1..Len(s) : s[i] \in S
  OBVIOUS
<1>2. /\ Front(s) \in Seq(S)
      /\ Len(Front(s)) = Len(s) - 1
      /\ \A i \in 1..(Len(s) - 1) : Front(s)[i] = s[i]
  <2> DEFINE n == Len(s) - 1
  <2>1. n \in Nat /\ \A i \in 1..n : s[i] \in S
    BY <1>1
  <2>2. \A k \in Nat : (\A i \in 1..k : s[i] \in S) =>
            /\ SubSeq(s, 1, k) \in Seq(S)
            /\ Len(SubSeq(s, 1, k)) = k
            /\ \A i \in 1..k : SubSeq(s, 1, k)[i] = s[i]
    <3>. SUFFICES ASSUME NEW k \in Nat, \A i \in 1..k : s[i] \in S
                  PROVE  /\ SubSeq(s, 1, k) \in Seq(S)
                         /\ Len(SubSeq(s, 1, k)) = k
                         /\ \A i \in 1..k : SubSeq(s, 1, k)[i] = s[i]
      OBVIOUS
    <3>1. /\ SubSeq(s, 1, k) \in Seq(S)
          /\ Len(SubSeq(s, 1, k)) = IF 1 <= k THEN k - 1 + 1 ELSE 0
          /\ \A i \in 1..(k - 1 + 1) : SubSeq(s, 1, k)[i] = s[1 + i - 1]
      BY SubSeqProperties
    <3> DEFINE u == SubSeq(s, 1, k)
    <3>2. Len(u) = k
      BY <3>1
    <3>3. \A i \in 1..k : 1 + i - 1 = i /\ i \in 1..(k - 1 + 1)
      OBVIOUS
    <3>. HIDE DEF u
    <3>4. \A i \in 1..k : u[i] = s[i]
      <4>1. \A i \in 1..(k - 1 + 1) : u[i] = s[1 + i - 1]
        BY <3>1 DEF u
      <4>. QED BY <3>3, <4>1
    <3>. QED BY <3>1, <3>2, <3>4, Zenon DEF u
  <2>. HIDE DEF n
  <2>3. SubSeq(s, 1, n) = Front(s)
    BY Zenon DEF Front, n
  <2>. QED BY <2>1, <2>2, <2>3, Zenon DEF n
<1>3. Last(s) = s[Len(s)] /\ (Front(s) # <<>> => Last(Front(s)) = s[Len(s) - 1])
  BY <1>1, <1>2 DEF Last
<1>. QED BY <1>1, <1>2, <1>3

LEMMA OneMore ==
    ASSUME NEW S, NEW s \in Seq(S), NEW f \in S
    PROVE  /\ s \o <<f>> \in Seq(S) /\ Len(s \o <<f>>) = Len(s) + 1
           /\ \A i \in 1..Len(s) : (s \o <<f>>)[i] = s[i]
           /\ (s \o <<f>>)[Len(s) + 1] = f
OBVIOUS

LEMMA TwoMore ==
    ASSUME NEW S, NEW s \in Seq(S), NEW f \in S, NEW g \in S
    PROVE  /\ s \o <<f, g>> \in Seq(S) /\ Len(s \o <<f, g>>) = Len(s) + 2
           /\ \A i \in 1..Len(s) : (s \o <<f, g>>)[i] = s[i]
           /\ (s \o <<f, g>>)[Len(s) + 1] = f
OBVIOUS

LEMMA SeqGrows ==
    ASSUME NEW S, NEW T, S \subseteq T
    PROVE  Seq(S) \subseteq Seq(T)
OBVIOUS

LEMMA OneReplaced ==
    ASSUME NEW S, NEW s \in Seq(S), NEW i \in DOMAIN s, NEW x \in S
    PROVE  /\ [s EXCEPT ![i] = x] \in Seq(S)
           /\ Len([s EXCEPT ![i] = x]) = Len(s)
           /\ DOMAIN [s EXCEPT ![i] = x] = DOMAIN s
           /\ [s EXCEPT ![i] = x][i] = x
           /\ \A k \in DOMAIN s : k # i => [s EXCEPT ![i] = x][k] = s[k]
OBVIOUS
LEMMA LeastExists ==
    ASSUME NEW S \in SUBSET Nat, S # {}
    PROVE  \E m \in S : \A k \in S : m <= k
<1> DEFINE R == OpToRel(<, Nat)
<1>1. PICK m \in S : \A k \in S : <<k, m>> \notin R
  <2>1. IsWellFoundedOn(R, Nat)  BY NatLessThanWellFounded
  <2>. QED BY <2>1, WFMin, Zenon
<1>2. \A k \in S : ~ (k < m)
  BY <1>1 DEF OpToRel
<1>. QED BY <1>2

\* The loop of matchHooks after i rounds, if out tells of the rounds before.
Round(out, event, coll, i) ==
    IF i = 0 THEN <<>>
    ELSE IF hooks[i].event = event /\ hooks[i].coll \in {"*", coll}
    THEN Append(out[i - 1], hooks[i])
    ELSE out[i - 1]

LEMMA MatchingRounds ==
    ASSUME hooks \in Seq(Reg), NEW event, NEW coll
    PROVE  \E out : out = [i \in 0..Len(hooks) |-> Round(out, event, coll, i)]
<1> DEFINE Runs(m, n) == /\ m \in [0..n -> Seq(Reg)]
                         /\ \A i \in 0..n : m[i] = Round(m, event, coll, i)
           Fails == {n \in 0..Len(hooks) : ~ \E m : Runs(m, n)}
<1>1. Fails = {}
  <2>1. SUFFICES ASSUME Fails # {} PROVE FALSE
    OBVIOUS
  <2>2. PICK n \in Fails : \A k \in Fails : n <= k
    <3>. Fails \in SUBSET Nat OBVIOUS
    <3>. HIDE DEF Fails
    <3>. QED BY <2>1, LeastExists
  <2>3. n # 0
    <3>1. SUFFICES ASSUME n = 0 PROVE FALSE
      OBVIOUS
    <3> DEFINE m == [i \in 0..0 |-> <<>>]
    <3>2. m \in [0..0 -> Seq(Reg)]
      OBVIOUS
    <3>3. \A i \in 0..0 : m[i] = Round(m, event, coll, i)
      BY DEF Round
    <3>. QED BY <3>1, <3>2, <3>3, <2>2
  <2>4. n - 1 \in 0..Len(hooks) /\ n - 1 \notin Fails
    <3>1. n \in 0..Len(hooks)
      OBVIOUS
    <3>. HIDE DEF Fails
    <3>. QED BY <3>1, <2>2, <2>3
  <2>5. PICK m : Runs(m, n - 1)
    <3>. HIDE DEF Runs
    <3>. QED BY <2>4
  <2> DEFINE next == Round(m, event, coll, n)
             longer == [i \in 0..n |-> IF i = n THEN next ELSE m[i]]
  <2>6. next \in Seq(Reg)
    BY <2>2, <2>3, <2>5 DEF Round
  <2>7. longer \in [0..n -> Seq(Reg)]
    <3>. HIDE DEF next
    <3>. QED BY <2>6, <2>5, <2>2
  <2>8. ASSUME NEW i \in 0..n PROVE longer[i] = Round(longer, event, coll, i)
    <3>1. i # 0 => longer[i - 1] = m[i - 1]
      BY <2>2
    <3>2. longer[i] = Round(m, event, coll, i)
      BY <2>2, <2>3, <2>5
    <3>. HIDE DEF longer
    <3>. QED BY <3>1, <3>2 DEF Round
  <2>. QED BY <2>2, <2>7, <2>8
<1>2. PICK m : Runs(m, Len(hooks))
  <2>1. Len(hooks) \in 0..Len(hooks)
    OBVIOUS
  <2>2. Len(hooks) \notin Fails
    <3>. HIDE DEF Fails
    <3>. QED BY <1>1
  <2>. QED BY <2>1, <2>2, Zenon
<1>3. m = [i \in 0..Len(hooks) |-> Round(m, event, coll, i)]
  BY <1>2
<1>. QED BY <1>3

LEMMA MatchingType ==
    ASSUME hooks \in Seq(Reg), NEW event, NEW coll
    PROVE  Matching(event, coll) \in Seq(Reg)
<1> DEFINE out == CHOOSE out : out = [i \in 0..Len(hooks) |-> Round(out, event, coll, i)]
<1>1. out = [i \in 0..Len(hooks) |-> Round(out, event, coll, i)]
  <2>. \E m : m = [i \in 0..Len(hooks) |-> Round(m, event, coll, i)]
    BY MatchingRounds
  <2>. QED BY Zenon
<1>0. Matching(event, coll) = out[Len(hooks)]
  BY Zenon DEF Matching, Round
<1>. HIDE DEF out
<1> DEFINE Fails == {n \in 0..Len(hooks) : out[n] \notin Seq(Reg)}
<1>2. Fails = {}
  <2>1. SUFFICES ASSUME Fails # {} PROVE FALSE
    OBVIOUS
  <2>2. PICK n \in Fails : \A k \in Fails : n <= k
    <3>. Fails \in SUBSET Nat OBVIOUS
    <3>. HIDE DEF Fails
    <3>. QED BY <2>1, LeastExists
  <2>3. out[n] = Round(out, event, coll, n)
    BY <1>1, <2>2
  <2>4. n \in 0..Len(hooks) /\ out[n] \notin Seq(Reg)
    OBVIOUS
  <2>5. n # 0
    <3>1. <<>> \in Seq(Reg)
      OBVIOUS
    <3>. QED BY <2>3, <2>4, <3>1, Zenon DEF Round
  <2>6. out[n - 1] \in Seq(Reg)
    BY <2>2, <2>5
  <2>7. hooks[n] \in Reg /\ Append(out[n - 1], hooks[n]) \in Seq(Reg)
    BY <2>4, <2>5, <2>6
  <2>. QED BY <2>3, <2>4, <2>5, <2>6, <2>7, Zenon DEF Round
<1>. QED BY <1>0, <1>2

-----------------------------------------------------------------------------
(* Frames and stacks *)

\* Mutations that a hook or a caller may ask for.
Asked == {c \in [op : Op, coll : Coll, val : Doc] : c.val = None => c.op = "delete"}

\* A stack without its top, with another top, and with one more on top of it,
\* is a stack.
LEMMA StackOps ==
    ASSUME NEW n \in Nat, NEW s \in Stacks(n), s # <<>>
    PROVE  /\ Last(s) \in Frames(n)
           /\ Front(s) \in Stacks(n)
           /\ Len(Front(s)) = Len(s) - 1
           /\ Front(s) # <<>> => InHook(Last(Front(s)))
           /\ \A f \in Frames(n) : Front(s) \o <<f>> \in Stacks(n) /\ Front(s) \o <<f>> # <<>>
           /\ \A f, g \in Frames(n) : InHook(f) =>
                 Front(s) \o <<f, g>> \in Stacks(n) /\ Front(s) \o <<f, g>> # <<>>
<1> DEFINE F == Frames(n)
<1>1. s \in Seq(F) /\ \A i \in 1..(Len(s) - 1) : InHook(s[i])
  BY DEF Stacks
<1>2. \A u \in Seq(F) : (\A i \in 1..(Len(u) - 1) : InHook(u[i]))
                            => u \in Stacks(n)
  BY DEF Stacks
<1>. HIDE DEF F
<1>3. /\ Len(s) \in Nat \ {0}
      /\ Last(s) \in F
      /\ Front(s) \in Seq(F) /\ Len(Front(s)) = Len(s) - 1
      /\ \A i \in 1..(Len(s) - 1) : Front(s)[i] = s[i]
      /\ Front(s) # <<>> => Last(Front(s)) = s[Len(s) - 1]
  BY <1>1, FrontAndLast
<1> DEFINE u == Front(s)
<1>4. u \in Stacks(n)
  <2>1. \A i \in 1..(Len(u) - 1) : InHook(u[i])
    BY <1>1, <1>3
  <2>. QED BY <1>2, <1>3, <2>1
<1>5. Front(s) # <<>> => InHook(Last(Front(s)))
  <2>1. Front(s) # <<>> => Len(s) - 1 \in 1..(Len(s) - 1)
    BY <1>3
  <2>. QED BY <1>1, <1>3, <2>1
<1>6. ASSUME NEW f \in F
      PROVE  u \o <<f>> \in Stacks(n) /\ u \o <<f>> # <<>>
  <2> DEFINE v == u \o <<f>>
  <2>1. /\ v \in Seq(F) /\ Len(v) = Len(u) + 1
        /\ \A i \in 1..Len(u) : v[i] = u[i]
    BY <1>3, OneMore
  <2>. HIDE DEF v
  <2>2. \A i \in 1..(Len(v) - 1) : InHook(v[i])
    BY <1>1, <1>3, <2>1
  <2>3. v # <<>>
    BY <1>3, <2>1
  <2>. QED BY <1>2, <2>1, <2>2, <2>3 DEF v
<1>7. ASSUME NEW f \in F, NEW g \in F, InHook(f)
      PROVE  u \o <<f, g>> \in Stacks(n) /\ u \o <<f, g>> # <<>>
  <2> DEFINE v == u \o <<f, g>>
  <2>1. /\ v \in Seq(F) /\ Len(v) = Len(u) + 2
        /\ \A i \in 1..Len(u) : v[i] = u[i]
        /\ v[Len(u) + 1] = f
    BY <1>3, TwoMore
  <2>. HIDE DEF v
  <2>2. \A i \in 1..(Len(v) - 1) : InHook(v[i])
    BY <1>1, <1>3, <1>7, <2>1
  <2>3. v # <<>>
    BY <1>3, <2>1
  <2>. QED BY <1>2, <2>1, <2>2, <2>3 DEF v
<1>. QED BY <1>3, <1>4, <1>5, <1>6, <1>7 DEF F

\* A frame stays one, and a stack a stack, when queues are made.
LEMMA StacksGrow ==
    ASSUME NEW m \in Nat, NEW n \in Nat, m <= n
    PROVE  Frames(m) \subseteq Frames(n) /\ Stacks(m) \subseteq Stacks(n)
<1>1. ASSUME NEW f \in Frames(m) PROVE f \in Frames(n)
  <2>1. f \in FrameType /\ FrameFits(f, m)
    BY DEF Frames
  <2>2. f.q \in 1..m => f.q \in 1..n
    OBVIOUS
  <2>3. FrameFits(f, n)
    BY <2>1, <2>2, Zenon DEF FrameFits
  <2>. QED BY <2>1, <2>3 DEF Frames
<1>2. ASSUME NEW s \in Stacks(m) PROVE s \in Stacks(n)
  <2>1. s \in Seq(Frames(m)) /\ \A i \in 1..(Len(s) - 1) : InHook(s[i])
    BY DEF Stacks
  <2>2. s \in Seq(Frames(n))
    BY <1>1, <2>1, SeqGrows, Zenon
  <2>. QED BY <2>1, <2>2 DEF Stacks
<1>. QED BY <1>1, <1>2

LEMMA OneFrame ==
    ASSUME NEW n \in Nat, NEW f \in Frames(n)
    PROVE  <<f>> \in Stacks(n) /\ <<f>> # <<>>
<1> DEFINE F == Frames(n)
<1>1. <<f>> \in Seq(F) /\ Len(<<f>>) = 1 /\ <<f>> # <<>>
  <2>. f \in F OBVIOUS
  <2>. HIDE DEF F
  <2>. QED OBVIOUS
<1>2. \A i \in 1..(Len(<<f>>) - 1) : InHook(<<f>>[i])
  BY <1>1
<1>. QED BY <1>1, <1>2 DEF Stacks

LEMMA NestedMore ==
    ASSUME NEW chain \in Seq(Nat), Nested(chain), NEW r \in Reg, MayBegin(chain, r)
    PROVE  Append(chain, r.id) \in Seq(Nat) /\ Nested(Append(chain, r.id))
<1> DEFINE more == Append(chain, r.id)
<1>1. r.id \in Nat
  BY DEF Reg
<1>2. more \in Seq(Nat) /\ Len(more) = Len(chain) + 1
  BY <1>1
<1>3. /\ \A i \in 1..Len(chain) : more[i] = chain[i] /\ chain[i] # r.id
      /\ more[Len(chain) + 1] = r.id
  BY <1>1 DEF MayBegin, ToSet
<1>4. \A i, j \in 1..Len(chain) : chain[i] = chain[j] => i = j
  BY DEF Nested, IsInjective
<1>5. Len(more) <= MaxHookDepth
  BY <1>2, HooksAssumption DEF MayBegin
<1>6. IsInjective(more)
  <2>. SUFFICES ASSUME NEW i \in 1..(Len(chain) + 1), NEW j \in 1..(Len(chain) + 1),
                       more[i] = more[j]
                PROVE  i = j
    BY <1>2 DEF IsInjective
  <2>. HIDE DEF more
  <2>. QED BY <1>3, <1>4
<1>. QED BY <1>2, <1>5, <1>6 DEF Nested

LEMMA NewFrame ==
    ASSUME NEW n \in Nat, NEW call \in Asked, NEW chain \in Seq(Nat), Nested(chain)
    PROVE  Frame(call, chain) \in Frames(n)
<1>1. call.op \in Op /\ call.coll \in Coll /\ call.val \in Doc
  BY DEF Asked
<1>2. Frame(call, chain) \in FrameType
  BY <1>1 DEF FrameType, Frame, None, Doc
<1>3. FrameFits(Frame(call, chain), n)
  BY DEF FrameFits, Frame, Asked
<1>. QED BY <1>2, <1>3 DEF Frames

LEMMA HooksAsk ==
    ASSUME NEW r \in Reg, NEW coll \in Coll, NEW doc \in Doc, r.act \in {"set", "call"}
    PROVE  CallOf(r, coll, doc) \in Asked
<1>1. r.val \in Value /\ r.call.op \in Op /\ r.call.coll \in Coll /\ r.call.val \in {None} \union Value
  BY DEF Reg, Mutation
<1>2. None \notin Value
  BY HooksAssumption
<1>. QED BY <1>1, <1>2 DEF CallOf, Asked, Doc, None, Null, Op

LEMMA CallsAsk == Calls \subseteq Asked
BY HooksAssumption DEF Asked, Mutation, Doc

LEMMA AdvanceFits ==
    ASSUME NEW n \in Nat, NEW f \in Frames(n), f.todo # <<>>
    PROVE  /\ Advanced(f, "after") \in Frames(n)
           /\ [Advanced(f, "after") EXCEPT !.q = None] \in Frames(n)
           /\ f.pc \in {"before", "in before"} =>
                 /\ Advanced(f, "before") \in Frames(n)
                 /\ \A v \in Value : [Advanced(f, "before") EXCEPT !.val = v] \in Frames(n)
<1>1. f \in FrameType /\ FrameFits(f, n)
  BY DEF Frames
<1>2. Tail(f.todo) \in Seq(Reg)
  <2>1. f.todo \in Seq(Reg)
    BY <1>1 DEF FrameType
  <2>. QED BY <2>1, HeadTailProperties
<1> DEFINE a == Advanced(f, "after")
           b == Advanced(f, "before")
<1>3. a \in FrameType /\ [a EXCEPT !.q = None] \in FrameType
  BY <1>1, <1>2 DEF FrameType, Advanced, None
<1>4. /\ a.chain = f.chain /\ a.pc = "after"
      /\ [a EXCEPT !.q = None].chain = f.chain /\ [a EXCEPT !.q = None].pc = "after"
  BY <1>1 DEF FrameType, Advanced
<1>5. b \in FrameType /\ \A v \in Value : [b EXCEPT !.val = v] \in FrameType
  BY <1>1, <1>2 DEF FrameType, Advanced, Doc
<1>6. /\ b.chain = f.chain /\ b.pc = "before" /\ b.val = f.val /\ b.op = f.op
      /\ \A v \in Value : LET g == [b EXCEPT !.val = v] IN
            g.chain = f.chain /\ g.pc = "before" /\ g.val = v
  BY <1>1 DEF FrameType, Advanced
<1>7. a \in Frames(n) /\ [a EXCEPT !.q = None] \in Frames(n)
  <2>. HIDE DEF a
  <2>. QED BY <1>1, <1>3, <1>4 DEF Frames, FrameFits
<1>8. f.pc \in {"before", "in before"} =>
          b \in Frames(n) /\ \A v \in Value : [b EXCEPT !.val = v] \in Frames(n)
  <2>1. None \notin Value
    BY HooksAssumption
  <2>. HIDE DEF b
  <2>. QED BY <1>1, <1>5, <1>6, <2>1 DEF Frames, FrameFits
<1>. QED BY <1>7, <1>8

LEMMA TopFits ==
    ASSUME Types, NEW t \in Thread, NEW pc, In(t, pc)
    PROVE  /\ Len(workers) \in Nat
           /\ stack[t] \in Stacks(Len(workers)) /\ stack[t] # <<>>
           /\ Top(t) \in Frames(Len(workers)) /\ Top(t).pc = pc
<1>1. /\ Len(workers) \in Nat
      /\ stack[t] \in Stacks(Len(workers)) /\ stack[t] # <<>>
      /\ Top(t).pc = pc
  BY DEF Types, In
<1>2. Last(stack[t]) \in Frames(Len(workers))
  BY <1>1, StackOps
<1>. QED BY <1>1, <1>2 DEF Top

\* What the mutation below is left with when the top one returns.
LEMMA ReturnedFits ==
    ASSUME Types, NEW t \in Thread, stack[t] # <<>>, NEW ok \in BOOLEAN
    PROVE  /\ Returned(t, ok) \in Stacks(Len(workers))
           /\ Returned(t, ok) = <<>> <=> Len(stack[t]) = 1
           /\ Returned(t, ok) # <<>> => Last(Returned(t, ok)).pc # "fire"
<1> DEFINE n == Len(workers)
           under == Front(stack[t])
           f == Last(under)
           g == IF f.pc = "in after" THEN Advanced(f, "after")
                ELSE IF ok THEN Advanced(f, "before") ELSE [f EXCEPT !.pc = "vetoed"]
<1>1. n \in Nat /\ stack[t] \in Stacks(n)
  BY DEF Types
<1>2. /\ under \in Stacks(n) /\ Len(under) = Len(stack[t]) - 1
      /\ under # <<>> => InHook(Last(under))
  BY <1>1, StackOps
<1>3. Len(stack[t]) \in Nat /\ (under = <<>> <=> Len(under) = 0)
  <2> DEFINE F == Frames(n)
  <2>1. stack[t] \in Seq(F) /\ under \in Seq(F)
    BY <1>1, <1>2 DEF Stacks
  <2>. HIDE DEF F, under
  <2>. QED BY <2>1
<1>4. CASE under = <<>>
  <2>1. Returned(t, ok) = <<>>
    BY <1>4, Zenon DEF Returned
  <2>2. <<>> \in Stacks(n)
    BY <1>2, <1>4
  <2>3. Len(stack[t]) = 1
    BY <1>2, <1>3, <1>4
  <2>. QED BY <2>1, <2>2, <2>3
<1>5. CASE under # <<>>
  <2>1. f \in Frames(n) /\ f.pc \in {"in before", "in after"}
    BY <1>1, <1>2, <1>5, StackOps DEF InHook
  <2>2. f \in FrameType /\ FrameFits(f, n) /\ f.todo # <<>>
    BY <2>1 DEF Frames, FrameFits
  <2>3. [f EXCEPT !.pc = "vetoed"] \in Frames(n) /\ [f EXCEPT !.pc = "vetoed"].pc = "vetoed"
    <3>. HIDE DEF f
    <3>. QED BY <2>2 DEF Frames, FrameFits, FrameType
  <2>4. g \in Frames(n) /\ g.pc # "fire"
    <3>1. /\ Advanced(f, "after").pc = "after" /\ Advanced(f, "before").pc = "before"
      <4>. HIDE DEF f
      <4>. QED BY <2>2 DEF Advanced, FrameType
    <3>. HIDE DEF f
    <3>. QED BY <2>1, <2>2, <2>3, <3>1, <1>1, AdvanceFits
  <2>5. Returned(t, ok) = Front(under) \o <<g>>
    BY <1>5, Zenon DEF Returned
  <2>. HIDE DEF g
  <2>6. Front(under) \o <<g>> \in Stacks(n) /\ Front(under) \o <<g>> # <<>>
    BY <1>1, <1>2, <1>5, <2>4, StackOps
  <2>7. Last(Front(under) \o <<g>>) = g
    <3>1. under \in Seq(Frames(n))
      BY <1>2 DEF Stacks
    <3>2. Front(under) \in Seq(Frames(n))
      BY <1>5, <3>1, FrontAndLast
    <3> DEFINE F == Frames(n)
               u == Front(under)
    <3>3. u \in Seq(F) /\ g \in F
      BY <3>2, <2>4
    <3>. HIDE DEF F, u
    <3>4. (u \o <<g>>)[Len(u) + 1] = g /\ Len(u \o <<g>>) = Len(u) + 1
      BY <3>3, OneMore
    <3>. QED BY <3>4 DEF Last, u
  <2>8. Len(stack[t]) # 1
    BY <1>2, <1>3, <1>5
  <2>. QED BY <2>4, <2>5, <2>6, <2>7, <2>8
<1>. QED BY <1>4, <1>5

-----------------------------------------------------------------------------
(* The steps that leave the queues and the triggers alone *)

\* The thread goes on with another stack, which is not empty, or returns.
Moves(t) ==
    /\ stack[t] # <<>>
    /\ \/ /\ \E s \in Stacks(Len(workers)) : s # <<>> /\ stack' = [stack EXCEPT ![t] = s]
          /\ UNCHANGED <<job, finished>>
       \/ \E ok \in BOOLEAN : Return(t, ok)

LEMMA SetTopMoves ==
    ASSUME Types, NEW t \in Thread, stack[t] # <<>>,
           NEW f \in Frames(Len(workers)), SetTop(t, f), UNCHANGED <<job, finished>>
    PROVE  Moves(t)
<1>1. Len(workers) \in Nat /\ stack[t] \in Stacks(Len(workers))
  BY DEF Types
<1>2. Front(stack[t]) \o <<f>> \in Stacks(Len(workers)) /\ Front(stack[t]) \o <<f>> # <<>>
  BY <1>1, StackOps
<1>3. stack' = [stack EXCEPT ![t] = Front(stack[t]) \o <<f>>]
  BY DEF SetTop
<1>. QED BY <1>2, <1>3, Zenon DEF Moves

LEMMA PushMoves ==
    ASSUME Types, NEW t \in Thread, stack[t] # <<>>,
           NEW f \in Frames(Len(workers)), InHook(f), NEW call \in Asked,
           NEW chain \in Seq(Nat), Nested(chain),
           Push(t, f, call, chain), UNCHANGED <<job, finished>>
    PROVE  Moves(t)
<1>1. Len(workers) \in Nat /\ stack[t] \in Stacks(Len(workers))
  BY DEF Types
<1> DEFINE g == Frame(call, chain)
<1>2. g \in Frames(Len(workers))
  BY <1>1, NewFrame
<1>3. stack' = [stack EXCEPT ![t] = Front(stack[t]) \o <<f, g>>]
  BY DEF Push
<1>. HIDE DEF g
<1>4. Front(stack[t]) \o <<f, g>> \in Stacks(Len(workers)) /\ Front(stack[t]) \o <<f, g>> # <<>>
  BY <1>1, <1>2, StackOps
<1>. QED BY <1>3, <1>4, Zenon DEF Moves

LEMMA BeginMoves ==
    ASSUME Types, NEW t \in Thread, Begin(t)
    PROVE  Moves(t)
<1> DEFINE f == Top(t)
           n == Len(workers)
           regs == Matching(Before(f.op), f.coll)
           there == docs[f.coll] # None
           g == [f EXCEPT !.pc = "apply"]
           h == [f EXCEPT !.pc = "before", !.todo = regs,
                          !.old = IF f.op = "insert" THEN None ELSE docs[f.coll]]
<1>1. n \in Nat /\ f \in Frames(n) /\ f.pc = "start" /\ stack[t] # <<>>
  BY TopFits DEF Begin
<1>2. f \in FrameType /\ FrameFits(f, n)
  BY <1>1 DEF Frames
<1>3. regs \in Seq(Reg) /\ docs[f.coll] \in Doc
  BY <1>2, MatchingType DEF Types, FrameType
<1>4. g \in Frames(n)
  <2>. HIDE DEF f
  <2>1. g \in FrameType /\ g.chain = f.chain /\ g.pc = "apply" /\ g.val = f.val
        /\ g.asked = f.asked /\ g.op = f.op
    BY <1>2 DEF FrameType
  <2>2. g.op = "update" => g.val # None
    BY <1>1, <1>2, <2>1 DEF FrameFits
  <2>. HIDE DEF g
  <2>. QED BY <1>1, <1>2, <2>1, <2>2 DEF Frames, FrameFits
<1>5. h \in Frames(n)
  <2>. HIDE DEF f, regs
  <2>1. h \in FrameType /\ h.chain = f.chain /\ h.pc = "before" /\ h.val = f.val /\ h.op = f.op
    BY <1>2, <1>3 DEF FrameType, Doc
  <2>. HIDE DEF h
  <2>. QED BY <1>1, <1>2, <2>1 DEF Frames, FrameFits
<1>6. \/ SetTop(t, g) /\ UNCHANGED <<finished, job>>
      \/ Return(t, FALSE)
      \/ SetTop(t, h) /\ UNCHANGED <<finished, job>>
  BY Zenon DEF Begin
<1>. HIDE DEF f, g, h
<1>. QED BY <1>1, <1>4, <1>5, <1>6, SetTopMoves DEF Moves

LEMMA RunBeforeMoves ==
    ASSUME Types, NEW t \in Thread, RunBefore(t)
    PROVE  Moves(t)
<1> DEFINE f == Top(t)
           n == Len(workers)
           r == Head(f.todo)
           doc == IF f.op = "delete" THEN None ELSE f.val
           g == [f EXCEPT !.pc = "apply", !.val = Patch(f), !.asked = f.val]
           h == [Advanced(f, "before") EXCEPT !.val = r.val]
           i == [f EXCEPT !.pc = "in before"]
<1>1. n \in Nat /\ f \in Frames(n) /\ f.pc = "before" /\ stack[t] # <<>>
  BY TopFits DEF RunBefore
<1>2. f \in FrameType /\ FrameFits(f, n)
  BY <1>1 DEF Frames
<1>3. g \in Frames(n)
  <2>. HIDE DEF f
  <2>1. Patch(f) \in Doc
    BY <1>2 DEF Patch, FrameType, Doc
  <2>2. g \in FrameType /\ g.chain = f.chain /\ g.pc = "apply" /\ g.val = Patch(f)
        /\ g.asked = f.val /\ g.op = f.op /\ g.old = f.old
    BY <1>2, <2>1 DEF FrameType
  <2>3. g.op = "update" => (g.val # None /\ g.val = g.asked) \/ (g.val = None /\ g.asked = g.old)
    BY <1>1, <1>2, <2>2 DEF FrameFits, Patch
  <2>. HIDE DEF g
  <2>. QED BY <1>2, <2>2, <2>3 DEF Frames, FrameFits
<1>4. \/ SetTop(t, g) /\ UNCHANGED <<finished, job>>
      \/ Return(t, FALSE)
      \/ /\ f.todo # <<>> /\ UNCHANGED <<finished, job>>
         /\ \/ SetTop(t, Advanced(f, "before"))
            \/ SetTop(t, h)
            \/ /\ MayBegin(f.chain, r) /\ r.act # "note" /\ r.act # "veto" /\ r.act # "set"
               /\ Push(t, i, CallOf(r, f.coll, doc), Append(f.chain, r.id))
  BY Zenon DEF RunBefore
<1>5. ASSUME f.todo # <<>>
      PROVE  /\ r \in Reg
             /\ Advanced(f, "before") \in Frames(n) /\ h \in Frames(n)
             /\ i \in Frames(n) /\ InHook(i)
  <2>1. r \in Reg
    <3>1. f.todo \in Seq(Reg)
      BY <1>2 DEF FrameType
    <3>. QED BY <1>5, <3>1, HeadTailProperties
  <2>2. r.val \in Value
    BY <2>1 DEF Reg
  <2>3. Advanced(f, "before") \in Frames(n) /\ h \in Frames(n)
    BY <1>1, <1>5, <2>2, AdvanceFits
  <2>4. i \in Frames(n) /\ InHook(i)
    <3>. HIDE DEF f
    <3>1. i \in FrameType /\ i.chain = f.chain /\ i.pc = "in before" /\ i.val = f.val
          /\ i.op = f.op /\ i.todo = f.todo
      BY <1>2 DEF FrameType
    <3>. HIDE DEF i
    <3>. QED BY <1>1, <1>2, <1>5, <3>1 DEF Frames, FrameFits, InHook
  <2>. QED BY <2>1, <2>3, <2>4
<1>6. ASSUME f.todo # <<>>, UNCHANGED <<finished, job>>,
             MayBegin(f.chain, r), r.act # "note", r.act # "veto", r.act # "set",
             Push(t, i, CallOf(r, f.coll, doc), Append(f.chain, r.id))
      PROVE  Moves(t)
  <2>1. r \in Reg /\ i \in Frames(n) /\ InHook(i)
    BY <1>5, <1>6
  <2>2. r.act = "call"
    BY <1>6, <2>1 DEF Reg
  <2>3. f.coll \in Coll /\ doc \in Doc /\ f.chain \in Seq(Nat) /\ Nested(f.chain)
    BY <1>2 DEF FrameType, FrameFits, Doc
  <2>. HIDE DEF f, r, i, doc
  <2>4. CallOf(r, f.coll, doc) \in Asked
    BY <2>1, <2>2, <2>3, HooksAsk
  <2>5. Append(f.chain, r.id) \in Seq(Nat) /\ Nested(Append(f.chain, r.id))
    BY <1>6, <2>1, <2>3, NestedMore
  <2> DEFINE c == CallOf(r, f.coll, doc)
             m == Append(f.chain, r.id)
  <2>. HIDE DEF c, m
  <2>. QED BY <1>1, <1>6, <2>1, <2>4, <2>5, PushMoves DEF c, m
<1>. HIDE DEF f, r, g, h, i, doc
<1>7. CASE SetTop(t, g) /\ UNCHANGED <<finished, job>>
  BY <1>1, <1>3, <1>7, SetTopMoves
<1>8. CASE Return(t, FALSE)
  BY <1>1, <1>8 DEF Moves
<1>9. CASE f.todo # <<>> /\ UNCHANGED <<finished, job>> /\ SetTop(t, Advanced(f, "before"))
  <2> DEFINE a == Advanced(f, "before")
  <2>1. a \in Frames(n)
    BY <1>5, <1>9
  <2>. HIDE DEF a
  <2>. QED BY <1>1, <1>9, <2>1, SetTopMoves DEF a
<1>10. CASE f.todo # <<>> /\ UNCHANGED <<finished, job>> /\ SetTop(t, h)
  BY <1>1, <1>5, <1>10, SetTopMoves
<1>. QED BY <1>4, <1>6, <1>7, <1>8, <1>9, <1>10, Zenon

LEMMA VetoedMoves ==
    ASSUME NEW t \in Thread, Vetoed(t)
    PROVE  Moves(t)
BY DEF Vetoed, Moves, In

LEMMA ApplyMoves ==
    ASSUME Types, NEW t \in Thread, Apply(t)
    PROVE  Moves(t) /\ docs' \in [Coll -> Doc]
<1> DEFINE f == Top(t)
           n == Len(workers)
           g == [f EXCEPT !.pc = "fire"]
           d == IF f.op = "delete" THEN None
                ELSE IF f.val = None THEN docs[f.coll] ELSE f.val
<1>1. n \in Nat /\ f \in Frames(n) /\ f.pc = "apply" /\ stack[t] # <<>>
  BY TopFits DEF Apply
<1>2. f \in FrameType /\ FrameFits(f, n)
  BY <1>1 DEF Frames
<1>3. g \in Frames(n)
  <2>. HIDE DEF f
  <2>1. g \in FrameType /\ g.chain = f.chain /\ g.pc = "fire"
    BY <1>2 DEF FrameType
  <2>. HIDE DEF g
  <2>. QED BY <1>2, <2>1 DEF Frames, FrameFits
<1>4. f.coll \in Coll /\ d \in Doc /\ docs \in [Coll -> Doc]
  BY <1>2 DEF FrameType, Types, Doc
<1>5. \/ Return(t, FALSE) /\ docs' = docs
      \/ /\ docs' = [docs EXCEPT ![f.coll] = d]
         /\ SetTop(t, g) /\ UNCHANGED <<finished, job>>
  BY Zenon DEF Apply
<1>. HIDE DEF f, g, d
<1>6. docs' \in [Coll -> Doc]
  BY <1>4, <1>5
<1>. QED BY <1>1, <1>3, <1>5, <1>6, SetTopMoves DEF Moves

LEMMA FireMoves ==
    ASSUME Types, NEW t \in Thread, Fire(t)
    PROVE  Moves(t)
<1> DEFINE f == Top(t)
           n == Len(workers)
           regs == Matching(After(f.op), f.coll)
           doc == IF f.op = "update" /\ docs[f.coll] # None THEN docs[f.coll] ELSE f.val
           v == IF f.op = "delete" THEN None ELSE IF doc = None THEN Null ELSE doc
           g == [f EXCEPT !.pc = "after", !.todo = regs, !.val = v]
<1>1. n \in Nat /\ f \in Frames(n) /\ stack[t] # <<>>
  BY TopFits DEF Fire
<1>2. f \in FrameType /\ FrameFits(f, n)
  BY <1>1 DEF Frames
<1>3. regs \in Seq(Reg) /\ docs[f.coll] \in Doc /\ f.val \in Doc
  BY <1>2, MatchingType DEF Types, FrameType
<1>4. v \in Doc
  BY <1>3 DEF Doc
<1>5. g \in Frames(n)
  <2>. HIDE DEF f, v, regs
  <2>1. g \in FrameType /\ g.chain = f.chain /\ g.pc = "after"
    BY <1>2, <1>3, <1>4 DEF FrameType
  <2>. HIDE DEF g
  <2>. QED BY <1>2, <2>1 DEF Frames, FrameFits
<1>6. SetTop(t, g) /\ UNCHANGED <<finished, job>>
  BY Zenon DEF Fire, queues
<1>. HIDE DEF f, g
<1>. QED BY <1>1, <1>5, <1>6, SetTopMoves

LEMMA RunAfterMoves ==
    ASSUME Types, NEW t \in Thread, RunAfter(t)
    PROVE  Moves(t)
<1> DEFINE f == Top(t)
           n == Len(workers)
           r == Head(f.todo)
           i == [f EXCEPT !.pc = "in after"]
<1>1. n \in Nat /\ f \in Frames(n) /\ f.pc = "after" /\ stack[t] # <<>>
  BY TopFits DEF RunAfter
<1>2. f \in FrameType /\ FrameFits(f, n)
  BY <1>1 DEF Frames
<1>3. \/ Return(t, TRUE)
      \/ /\ f.todo # <<>> /\ UNCHANGED <<finished, job>>
         /\ \/ SetTop(t, Advanced(f, "after"))
            \/ /\ MayBegin(f.chain, r) /\ CallsOn(r, f.val, f.old)
               /\ Push(t, i, CallOf(r, f.coll, f.val), Append(f.chain, r.id))
  BY Zenon DEF RunAfter
<1>4. ASSUME f.todo # <<>>
      PROVE  /\ r \in Reg
             /\ Advanced(f, "after") \in Frames(n)
             /\ i \in Frames(n) /\ InHook(i)
  <2>1. r \in Reg
    <3>1. f.todo \in Seq(Reg)
      BY <1>2 DEF FrameType
    <3>. QED BY <1>4, <3>1, HeadTailProperties
  <2>2. Advanced(f, "after") \in Frames(n)
    BY <1>1, <1>4, AdvanceFits
  <2>3. i \in Frames(n) /\ InHook(i)
    <3>. HIDE DEF f
    <3>1. i \in FrameType /\ i.chain = f.chain /\ i.pc = "in after" /\ i.todo = f.todo
      BY <1>2 DEF FrameType
    <3>. HIDE DEF i
    <3>. QED BY <1>2, <1>4, <3>1 DEF Frames, FrameFits, InHook
  <2>. QED BY <2>1, <2>2, <2>3
<1>5. ASSUME f.todo # <<>>, UNCHANGED <<finished, job>>,
             MayBegin(f.chain, r), CallsOn(r, f.val, f.old),
             Push(t, i, CallOf(r, f.coll, f.val), Append(f.chain, r.id))
      PROVE  Moves(t)
  <2>1. r \in Reg /\ i \in Frames(n) /\ InHook(i)
    BY <1>4, <1>5
  <2>2. r.act \in {"set", "call"}
    BY <1>5 DEF CallsOn
  <2>3. f.coll \in Coll /\ f.val \in Doc /\ f.chain \in Seq(Nat) /\ Nested(f.chain)
    BY <1>2 DEF FrameType, FrameFits
  <2>. HIDE DEF f, r, i
  <2> DEFINE c == CallOf(r, f.coll, f.val)
             m == Append(f.chain, r.id)
  <2>4. c \in Asked
    BY <2>1, <2>2, <2>3, HooksAsk
  <2>5. m \in Seq(Nat) /\ Nested(m)
    BY <1>5, <2>1, <2>3, NestedMore
  <2>. HIDE DEF c, m
  <2>. QED BY <1>1, <1>5, <2>1, <2>4, <2>5, PushMoves DEF c, m
<1>. HIDE DEF f, r, i
<1>6. CASE Return(t, TRUE)
  BY <1>1, <1>6 DEF Moves
<1>7. CASE f.todo # <<>> /\ UNCHANGED <<finished, job>> /\ SetTop(t, Advanced(f, "after"))
  <2> DEFINE a == Advanced(f, "after")
  <2>1. a \in Frames(n)
    BY <1>4, <1>7
  <2>. HIDE DEF a
  <2>. QED BY <1>1, <1>7, <2>1, SetTopMoves DEF a
<1>. QED BY <1>3, <1>5, <1>6, <1>7, Zenon

LEMMA TakeQueueMoves ==
    ASSUME Types, NEW t \in Thread, TakeQueue(t)
    PROVE  Moves(t)
<1> DEFINE f == Top(t)
           n == Len(workers)
           g == [f EXCEPT !.pc = "send", !.q = hookQ]
<1>1. n \in Nat /\ f \in Frames(n) /\ f.pc = "queue" /\ stack[t] # <<>>
  BY TopFits DEF TakeQueue
<1>2. f \in FrameType /\ FrameFits(f, n) /\ hookQ \in 0..n
  BY <1>1 DEF Frames, Types
<1>3. ASSUME hookQ # None PROVE g \in Frames(n)
  <2>1. hookQ \in 1..n /\ hookQ \in Nat
    BY <1>1, <1>2, <1>3 DEF None
  <2>. HIDE DEF f, n
  <2>2. ASSUME NEW k \in Nat
        PROVE  LET e == [f EXCEPT !.pc = "send", !.q = k] IN
               e \in FrameType /\ e.chain = f.chain /\ e.pc = "send" /\ e.q = k /\ e.todo = f.todo
    BY <1>2 DEF FrameType
  <2>3. g \in FrameType /\ g.chain = f.chain /\ g.pc = "send" /\ g.q = hookQ /\ g.todo = f.todo
    BY <2>1, <2>2, Zenon
  <2>. HIDE DEF g
  <2>. QED BY <1>1, <1>2, <2>1, <2>3 DEF Frames, FrameFits
<1>4. \/ Return(t, TRUE)
      \/ hookQ # None /\ SetTop(t, g) /\ UNCHANGED <<finished, job>>
  BY Zenon DEF TakeQueue
<1>. HIDE DEF f, g
<1>. QED BY <1>1, <1>3, <1>4, SetTopMoves DEF Moves

LEMMA SendStoppedMoves ==
    ASSUME NEW t \in Thread, SendStopped(t)
    PROVE  Moves(t)
BY DEF SendStopped, Moves, In

\* What a move does to the stacks and the jobs: only the thread's own stack
\* changes, and a worker whose stack runs out has finished its job.
LEMMA MovesGive ==
    ASSUME Types, Busy, NEW t \in Thread, Moves(t)
    PROVE  /\ stack' \in [Thread -> Stacks(Len(workers))]
           /\ \A u \in Thread : u # t => stack'[u] = stack[u]
           /\ \/ (t \in Worker => stack'[t] # <<>>) /\ UNCHANGED <<job, finished>>
              \/ /\ t \in Worker /\ stack'[t] = <<>>
                 /\ job[t] \in 1..sent
                 /\ finished' = finished \union {job[t]}
                 /\ job' = [job EXCEPT ![t] = None]
<1> DEFINE S == Stacks(Len(workers))
<1>1. stack \in [Thread -> S] /\ stack[t] # <<>>
  BY DEF Types, Moves
<1>2. CASE /\ \E s \in S : s # <<>> /\ stack' = [stack EXCEPT ![t] = s]
           /\ UNCHANGED <<job, finished>>
  <2>. PICK s \in S : s # <<>> /\ stack' = [stack EXCEPT ![t] = s]
    BY <1>2
  <2>. HIDE DEF S
  <2>1. stack' \in [Thread -> S] /\ stack'[t] = s /\ \A u \in Thread : u # t => stack'[u] = stack[u]
    BY <1>1
  <2>. QED BY <1>2, <2>1 DEF S
<1>3. CASE \E ok \in BOOLEAN : Return(t, ok)
  <2> PICK ok \in BOOLEAN : Return(t, ok)
    BY <1>3
  <2> DEFINE s == Returned(t, ok)
  <2>1. s \in S /\ (s = <<>> <=> Len(stack[t]) = 1)
    BY <1>1, ReturnedFits
  <2>2. /\ stack' = [stack EXCEPT ![t] = s]
        /\ \/ /\ t \in Worker /\ Len(stack[t]) = 1
              /\ finished' = finished \union {job[t]}
              /\ job' = [job EXCEPT ![t] = None]
           \/ ~(t \in Worker /\ Len(stack[t]) = 1) /\ UNCHANGED <<finished, job>>
    BY Zenon DEF Return
  <2>3. t \in Worker => job[t] \in 1..sent
    <3>1. t \in Worker => job[t] # None /\ job[t] \in 0..sent
      BY <1>1 DEF Busy, Types
    <3>. QED BY <3>1 DEF None, Types
  <2>. HIDE DEF S, s
  <2>4. stack' \in [Thread -> S] /\ stack'[t] = s /\ \A u \in Thread : u # t => stack'[u] = stack[u]
    BY <1>1, <2>1, <2>2
  <2>. QED BY <2>1, <2>2, <2>3, <2>4 DEF S
<1>. QED BY <1>2, <1>3 DEF Moves

\* A move and the queues: a job that was finished stays so, and one that was
\* ahead is ahead or finished.
LEMMA MovesFinish ==
    ASSUME Types, Busy, NEW t \in Thread, Moves(t)
    PROVE  /\ finished \subseteq finished'
           /\ \A n : job[1] = n => n \in finished' \/ job'[1] = n
           /\ sent' = sent => job' \in [Worker -> 0..sent'] /\ finished' \subseteq 1..sent'
           /\ Busy'
<1>1. /\ job \in [Worker -> 0..sent] /\ finished \subseteq 1..sent /\ sent \in Nat
      /\ 1 \in Worker /\ Worker \subseteq Thread
  BY HooksAssumption DEF Types, Worker, Thread
<1>2. CASE (t \in Worker => stack'[t] # <<>>) /\ UNCHANGED <<job, finished>>
  <2>1. Busy'
    <3>. SUFFICES ASSUME NEW w \in Worker PROVE job'[w] = None <=> stack'[w] = <<>>
      BY DEF Busy, Worker
    <3>1. w # t => stack'[w] = stack[w]
      BY <1>1, MovesGive
    <3>2. job'[w] = job[w] /\ (job[w] = None <=> stack[w] = <<>>)
      BY <1>2 DEF Busy
    <3>3. w = t => stack'[w] # <<>> /\ stack[w] # <<>>
      BY <1>2 DEF Moves
    <3>. QED BY <3>1, <3>2, <3>3
  <2>. QED BY <1>1, <1>2, <2>1
<1>3. CASE /\ t \in Worker /\ stack'[t] = <<>>
           /\ job[t] \in 1..sent
           /\ finished' = finished \union {job[t]}
           /\ job' = [job EXCEPT ![t] = None]
  <2>0. 0 \in 0..sent
    BY <1>1
  <2>1. /\ job'[t] = None /\ \A w \in Worker : w # t => job'[w] = job[w]
        /\ job' \in [Worker -> 0..sent]
    BY <1>1, <1>3, <2>0 DEF None
  <2>2. Busy'
    <3>. SUFFICES ASSUME NEW w \in Worker PROVE job'[w] = None <=> stack'[w] = <<>>
      BY DEF Busy, Worker
    <3>1. w # t => stack'[w] = stack[w]
      BY <1>1, MovesGive
    <3>. QED BY <1>3, <2>1, <3>1 DEF Busy
  <2>3. \A n : job[1] = n => n \in finished' \/ job'[1] = n
    BY <1>1, <1>3, <2>1
  <2>. QED BY <1>1, <1>3, <2>1, <2>2, <2>3
<1>. QED BY <1>2, <1>3, MovesGive

LEMMA TriggersStay ==
    ASSUME Ids, Hooking, UNCHANGED <<hooks, trigs, trigOp>>
    PROVE  Ids' /\ Hooking'
BY DEF Ids, Hooking, Hooked

\* The queues as long as they stay as they are, whoever finishes a job.
LEMMA QueuesStay ==
    ASSUME OneQueue, NoneLost, Barriers, Passed,
           UNCHANGED <<hookQ, workers, sent, waiting, close>>,
           finished \subseteq finished',
           \A n : job[1] = n => n \in finished' \/ job'[1] = n
    PROVE  OneQueue' /\ NoneLost' /\ Barriers' /\ Passed'
<1>1. \A n, k : n \in finished \/ Ahead(n, k) => n \in finished' \/ Ahead(n, k)'
  BY DEF Ahead
<1>2. OneQueue'
  BY DEF OneQueue
<1>3. NoneLost'
  BY <1>1 DEF NoneLost
<1>4. Barriers'
  BY <1>1 DEF Barriers, IsBarrier
<1>5. Passed'
  BY DEF Passed
<1>. QED BY <1>2, <1>3, <1>4, <1>5

LEMMA MovesKeep ==
    ASSUME HInv, NEW t \in Thread, Moves(t), docs' \in [Coll -> Doc],
           UNCHANGED <<hooks, trigs, trigOp, hookQ, workers, sent, waiting, close>>
    PROVE  HInv'
<1>1. Types /\ Busy /\ OneQueue /\ NoneLost /\ Barriers /\ Passed /\ Ids /\ Hooking
  BY DEF HInv
<1>2. /\ stack' \in [Thread -> Stacks(Len(workers))]
      /\ finished \subseteq finished'
      /\ \A n : job[1] = n => n \in finished' \/ job'[1] = n
      /\ job' \in [Worker -> 0..sent'] /\ finished' \subseteq 1..sent'
      /\ Busy'
  BY <1>1, MovesGive, MovesFinish
<1>3. Types'
  BY <1>1, <1>2 DEF Types, Thread, Worker
<1>4. OneQueue' /\ NoneLost' /\ Barriers' /\ Passed'
  BY <1>1, <1>2, QueuesStay
<1>5. Ids' /\ Hooking'
  BY <1>1, TriggersStay
<1>. QED BY <1>2, <1>3, <1>4, <1>5 DEF HInv

-----------------------------------------------------------------------------
(* The steps of the queues *)

LEMMA QueuedGrow ==
    ASSUME NEW m \in Nat, NEW n \in Nat, m <= n
    PROVE  /\ Queued(m) \subseteq Queued(n)
           /\ Seq(WorkerType(m)) \subseteq Seq(WorkerType(n))
           /\ WaitingType(m) \subseteq WaitingType(n)
<1>1. Queued(m) \subseteq Queued(n)
  <2>. SUFFICES ASSUME NEW j \in JobType, j.n <= m PROVE j.n <= n
    BY DEF Queued
  <2>. QED BY DEF JobType
<1>2. Seq(Queued(m)) \subseteq Seq(Queued(n))
  BY <1>1, SeqGrows, Zenon
<1>3. WorkerType(m) \subseteq WorkerType(n)
  BY <1>2 DEF WorkerType
<1>4. Seq(WorkerType(m)) \subseteq Seq(WorkerType(n))
  BY <1>3, SeqGrows, Zenon
<1>5. WaitingType(m) \subseteq WaitingType(n)
  <2>1. 1..m \subseteq 1..n
    OBVIOUS
  <2>. QED BY <2>1 DEF WaitingType
<1>. QED BY <1>1, <1>4, <1>5

\* A worker's queue replaced by another one.
WithQueue(ws, w, q) == [ws EXCEPT ![w].q = q]

LEMMA QueueFits ==
    ASSUME NEW m \in Nat, NEW ws \in Seq(WorkerType(m)), NEW w \in DOMAIN ws,
           NEW q \in Seq(Queued(m))
    PROVE  /\ WithQueue(ws, w, q) \in Seq(WorkerType(m))
           /\ Len(WithQueue(ws, w, q)) = Len(ws)
           /\ DOMAIN WithQueue(ws, w, q) = DOMAIN ws
           /\ WithQueue(ws, w, q)[w].q = q
           /\ \A v \in DOMAIN ws : v # w => WithQueue(ws, w, q)[v] = ws[v]
           /\ \A v \in DOMAIN ws : /\ WithQueue(ws, w, q)[v].on = ws[v].on
                                   /\ WithQueue(ws, w, q)[v].stop = ws[v].stop
<1> DEFINE W == WorkerType(m)
           x == [ws[w] EXCEPT !.q = q]
           after == [ws EXCEPT ![w] = x]
<1>1. x \in W /\ x.q = q /\ x.on = ws[w].on /\ x.stop = ws[w].stop
  <2>1. ws[w] \in W
    BY ElementOfSeq
  <2>. QED BY <2>1 DEF WorkerType
<1>2. after \in Seq(W) /\ Len(after) = Len(ws) /\ DOMAIN after = DOMAIN ws
      /\ after[w] = x /\ \A v \in DOMAIN ws : v # w => after[v] = ws[v]
  <2>. HIDE DEF W, x
  <2>1. ws \in Seq(W)
    BY DEF W
  <2>. QED BY <1>1, <2>1
<1>3. after = WithQueue(ws, w, q)
  BY DEF WithQueue
<1>. HIDE DEF x
<1>4. \A v \in DOMAIN ws : after[v].on = ws[v].on /\ after[v].stop = ws[v].stop
  BY <1>1, <1>2
<1>. HIDE DEF after
<1>. QED BY <1>1, <1>2, <1>3, <1>4, Zenon

\* A job or a barrier put at the end of a queue that has room.
LEMMA EnqueueFits ==
    ASSUME Types, NEW m \in Nat, sent <= m, NEW w \in DOMAIN workers, HasRoom(w),
           NEW j \in Queued(m), workers' = [workers EXCEPT ![w].q = Append(@, j)]
    PROVE  /\ workers' \in Seq(WorkerType(m)) /\ Len(workers') = Len(workers)
           /\ DOMAIN workers' = DOMAIN workers
           /\ workers[w].q \in Seq(Queued(m))
           /\ Len(workers'[w].q) = Len(workers[w].q) + 1
           /\ \A i \in DOMAIN workers[w].q : workers'[w].q[i] = workers[w].q[i]
           /\ workers'[w].q[Len(workers[w].q) + 1] = j
           /\ \A v \in DOMAIN workers : workers'[v].on = workers[v].on /\ workers'[v].stop = workers[v].stop
           /\ \A v \in DOMAIN workers : Len(workers'[v].q) <= HookQueueSize
<1> DEFINE Q == Queued(m)
           q == workers[w].q
           r == Append(q, j)
<1>1. workers \in Seq(WorkerType(m)) /\ \A v \in DOMAIN workers : Len(workers[v].q) <= HookQueueSize
  BY QueuedGrow DEF Types
<1>2. q \in Seq(Q)
  <2>1. workers[w] \in WorkerType(m)
    BY <1>1, ElementOfSeq
  <2>. QED BY <2>1 DEF WorkerType
<1>3. /\ r \in Seq(Q) /\ Len(r) = Len(q) + 1
      /\ \A i \in DOMAIN q : r[i] = q[i]
      /\ r[Len(q) + 1] = j
  <2>. HIDE DEF Q, q
  <2>1. j \in Q
    BY DEF Q
  <2>. QED BY <1>2, <2>1
<1>4. workers' = [workers EXCEPT ![w].q = r]
  OBVIOUS
<1>. HIDE DEF r
<1>5. /\ workers' \in Seq(WorkerType(m)) /\ Len(workers') = Len(workers)
      /\ DOMAIN workers' = DOMAIN workers
      /\ workers'[w].q = r
      /\ \A v \in DOMAIN workers : v # w => workers'[v] = workers[v]
      /\ \A v \in DOMAIN workers : workers'[v].on = workers[v].on /\ workers'[v].stop = workers[v].stop
  <2>1. workers \in Seq(WorkerType(m)) /\ m \in Nat /\ r \in Seq(Queued(m))
    BY <1>1, <1>3
  <2>2. workers' = WithQueue(workers, w, r)
    BY <1>4 DEF WithQueue
  <2> DEFINE after == WithQueue(workers, w, r)
  <2>3. /\ after \in Seq(WorkerType(m)) /\ Len(after) = Len(workers)
        /\ DOMAIN after = DOMAIN workers
        /\ after[w].q = r
        /\ \A v \in DOMAIN workers : v # w => after[v] = workers[v]
        /\ \A v \in DOMAIN workers : after[v].on = workers[v].on /\ after[v].stop = workers[v].stop
    BY <2>1, QueueFits
  <2>. HIDE DEF after
  <2>4. workers' = after
    BY <2>2 DEF after
  <2>. QED BY <2>3, <2>4, Zenon
<1>6. Len(r) <= HookQueueSize
  <2>1. Len(q) < HookQueueSize /\ Len(q) \in Nat /\ HookQueueSize \in Nat
    BY <1>2, HooksAssumption DEF HasRoom
  <2>. QED BY <1>3, <2>1
<1>7. \A v \in DOMAIN workers : Len(workers'[v].q) <= HookQueueSize
  BY <1>1, <1>5, <1>6
<1>. QED BY <1>2, <1>3, <1>5, <1>7

LEMMA CallKeeps ==
    ASSUME HInv, NEW c \in Caller, NEW call \in Calls, Call(c, call)
    PROVE  HInv'
<1> DEFINE n == Len(workers)
           s == <<Frame(call, <<>>)>>
<1>1. Types /\ Busy /\ OneQueue /\ NoneLost /\ Barriers /\ Passed /\ Ids /\ Hooking
  BY DEF HInv
<1>2. n \in Nat /\ stack \in [Thread -> Stacks(n)] /\ c \in Thread /\ c \notin Worker
  BY <1>1, HooksAssumption DEF Types, Thread
<1>3. s \in Stacks(n)
  <2>1. <<>> \in Seq(Nat) /\ Nested(<<>>)
    BY HooksAssumption DEF Nested, IsInjective
  <2>2. Frame(call, <<>>) \in Frames(n)
    BY <1>2, <2>1, CallsAsk, NewFrame
  <2>. QED BY <1>2, <2>2, OneFrame
<1>4. stack' = [stack EXCEPT ![c] = s]
  BY DEF Call
<1>5. UNCHANGED <<docs, hooks, trigs, trigOp, hookQ, workers, job, sent, finished, waiting, close>>
  BY DEF Call, queues, others
<1>. HIDE DEF s
<1>6. stack' \in [Thread -> Stacks(n)] /\ \A w \in Worker : stack'[w] = stack[w]
  BY <1>2, <1>3, <1>4 DEF Thread
<1>7. Types'
  BY <1>1, <1>5, <1>6 DEF Types, Thread, Worker
<1>8. Busy'
  BY <1>1, <1>5, <1>6 DEF Busy, Worker
<1>9. OneQueue' /\ NoneLost' /\ Barriers' /\ Passed'
  BY <1>1, <1>5, QueuesStay
<1>10. Ids' /\ Hooking'
  BY <1>1, <1>5, TriggersStay
<1>. QED BY <1>7, <1>8, <1>9, <1>10 DEF HInv

LEMMA EnsureKeeps ==
    ASSUME HInv, NEW t \in Thread, EnsureHookWorker(t)
    PROVE  HInv'
<1> DEFINE f == Top(t)
           n == Len(workers)
           g == [f EXCEPT !.pc = "queue"]
<1>1. Types /\ Busy /\ OneQueue /\ NoneLost /\ Barriers /\ Passed /\ Ids /\ Hooking
  BY DEF HInv
<1>2. n \in Nat /\ f \in Frames(n) /\ stack[t] # <<>> /\ f.todo # <<>>
  BY <1>1, TopFits DEF EnsureHookWorker
<1>3. f \in FrameType /\ FrameFits(f, n)
  BY <1>2 DEF Frames
<1>4. g \in Frames(n)
  <2>. HIDE DEF f
  <2>1. g \in FrameType /\ g.chain = f.chain /\ g.pc = "queue" /\ g.todo = f.todo
    BY <1>3 DEF FrameType
  <2>. HIDE DEF g
  <2>. QED BY <1>2, <1>3, <2>1 DEF Frames, FrameFits
<1>5. SetTop(t, g) /\ UNCHANGED <<docs, hooks, trigs, trigOp, job, sent, finished, waiting, close>>
  BY DEF EnsureHookWorker, others
<1>. HIDE DEF f, g
<1>6. Moves(t)
  BY <1>1, <1>2, <1>4, <1>5, SetTopMoves
<1>7. CASE UNCHANGED <<hookQ, workers>>
  <2>1. docs' \in [Coll -> Doc]
    BY <1>1, <1>5 DEF Types
  <2>. QED BY <1>5, <1>6, <1>7, <2>1, MovesKeep
<1>8. CASE /\ hookQ = None /\ n < MaxWorkers
           /\ workers' = Append(workers, NewWorker) /\ hookQ' = n + 1
  <2>1. NewWorker \in WorkerType(sent) /\ NewWorker.q = <<>> /\ NewWorker.on /\ ~NewWorker.stop
    BY DEF NewWorker, WorkerType
  <2>2. /\ workers' \in Seq(WorkerType(sent)) /\ Len(workers') = n + 1
        /\ \A w \in DOMAIN workers : workers'[w] = workers[w]
        /\ workers'[n + 1] = NewWorker
        /\ DOMAIN workers' = 1..(n + 1) /\ DOMAIN workers = 1..n
    <3> DEFINE W == WorkerType(sent)
    <3>1. workers \in Seq(W) /\ NewWorker \in W
      BY <1>1, <2>1 DEF Types
    <3>. HIDE DEF W
    <3>2. /\ workers' \in Seq(W) /\ Len(workers') = Len(workers) + 1
          /\ \A w \in DOMAIN workers : workers'[w] = workers[w]
          /\ workers'[Len(workers) + 1] = NewWorker
      BY <1>8, <3>1, AppendProperties
    <3>3. DOMAIN workers' = 1..(Len(workers) + 1) /\ DOMAIN workers = 1..Len(workers)
      BY <3>1, <3>2
    <3>. QED BY <3>2, <3>3 DEF W
  <2>3. /\ stack' \in [Thread -> Stacks(n)] /\ Busy'
        /\ job' \in [Worker -> 0..sent'] /\ finished' \subseteq 1..sent'
    BY <1>1, <1>5, <1>6, MovesGive, MovesFinish
  <2>4. stack' \in [Thread -> Stacks(n + 1)]
    <3>1. Stacks(n) \subseteq Stacks(n + 1)
      BY <1>2, StacksGrow
    <3>. QED BY <2>3, <3>1
  <2>5. MaxWorkers \in Nat /\ HookQueueSize \in Nat
    BY HooksAssumption
  <2>6. Types'
    <3>1. \A w \in DOMAIN workers' : Len(workers'[w].q) <= HookQueueSize
      <4>. SUFFICES ASSUME NEW w \in 1..(n + 1) PROVE Len(workers'[w].q) <= HookQueueSize
        BY <2>2
      <4>1. CASE w = n + 1
        <5>1. workers'[w].q = <<>>
          BY <2>1, <2>2, <4>1
        <5>. QED BY <5>1, <2>5
      <4>2. CASE w # n + 1
        <5>1. w \in DOMAIN workers
          BY <1>2, <2>2, <4>2
        <5>. QED BY <1>1, <2>2, <5>1 DEF Types
      <4>. QED BY <4>1, <4>2
    <3>2. \A c \in Caller : waiting'[c].pc = "send" => waiting'[c].q \in DOMAIN workers'
      <4>1. DOMAIN workers \subseteq DOMAIN workers'
        BY <1>2, <2>2
      <4>. QED BY <1>1, <1>5, <4>1 DEF Types
    <3>3. hookQ' \in 0..Len(workers') /\ Len(workers') <= MaxWorkers
      BY <1>2, <1>8, <2>2, <2>5
    <3>. QED BY <1>1, <1>5, <2>2, <2>3, <2>4, <3>1, <3>2, <3>3 DEF Types, Thread, Worker
  <2>7. workers'[hookQ'].on /\ ~workers'[hookQ'].stop /\ workers'[hookQ'].q = <<>>
    BY <1>8, <2>1, <2>2
  <2>8. close.pc = "open" => n = 0 /\ sent = 0
    BY <1>1, <1>8 DEF OneQueue, None
  <2>9. OneQueue'
    BY <1>2, <1>5, <1>8, <2>2, <2>7, <2>8 DEF OneQueue, None
  <2>10. NoneLost'
    BY <1>5, <2>8 DEF NoneLost
  <2>11. Barriers'
    <3>1. close'.pc = "open" => workers'[1].q = <<>>
      BY <1>5, <1>8, <2>7, <2>8
    <3>. QED BY <3>1 DEF Barriers
  <2>12. Passed' /\ Ids' /\ Hooking'
    BY <1>1, <1>5, TriggersStay DEF Passed
  <2>. QED BY <2>3, <2>6, <2>9, <2>10, <2>11, <2>12 DEF HInv
<1>. QED BY <1>7, <1>8, Zenon DEF EnsureHookWorker

\* Before Close the one queue is the first.
LEMMA FirstQueue ==
    ASSUME Types, OneQueue, close.pc = "open", NEW w \in DOMAIN workers
    PROVE  w = 1 /\ hookQ = 1 /\ hookQ # None /\ Len(workers) = 1
<1>1. Len(workers) \in Nat /\ w \in 1..Len(workers)
  BY DEF Types
<1>. QED BY <1>1 DEF OneQueue, None

\* What the end of a queue does not change.
LEMMA AheadStays ==
    ASSUME NEW len \in Nat, UNCHANGED <<job, finished>>,
           \A i \in 1..len : workers'[1].q[i] = workers[1].q[i]
    PROVE  \A n : \A k \in 0..len :
               n \in finished \/ Ahead(n, k) => n \in finished' \/ Ahead(n, k)'
<1>. SUFFICES ASSUME NEW n, NEW k \in 0..len, Ahead(n, k) PROVE Ahead(n, k)'
  OBVIOUS
<1>1. CASE job[1] = n
  BY <1>1 DEF Ahead
<1>2. CASE \E i \in 1..k : workers[1].q[i].n = n
  BY <1>2 DEF Ahead
<1>. QED BY <1>1, <1>2 DEF Ahead

LEMMA SendKeeps ==
    ASSUME HInv, NEW t \in Thread, Send(t)
    PROVE  HInv'
<1> DEFINE f == Top(t)
           w == f.q
           len == Len(workers)
           g == [Advanced(f, "after") EXCEPT !.q = None]
           j == [n |-> sent + 1, reg |-> Head(f.todo), coll |-> f.coll, doc |-> f.val,
                 old |-> f.old, op |-> f.op, chain |-> f.chain]
<1>1. Types /\ Busy /\ OneQueue /\ NoneLost /\ Barriers /\ Passed /\ Ids /\ Hooking
  BY DEF HInv
<1>2. len \in Nat /\ f \in Frames(len) /\ f.pc = "send" /\ stack[t] # <<>> /\ sent \in Nat
  BY <1>1, TopFits DEF Send, Types
<1>3. f \in FrameType /\ FrameFits(f, len)
  BY <1>2 DEF Frames
<1>4. w \in DOMAIN workers /\ f.todo # <<>>
  BY <1>1, <1>2, <1>3 DEF FrameFits, Types
<1>5. g \in Frames(len)
  BY <1>2, <1>4, AdvanceFits
<1>6. /\ HasRoom(w) /\ sent' = sent + 1
      /\ workers' = [workers EXCEPT ![w].q = Append(@, j)]
      /\ SetTop(t, g)
      /\ UNCHANGED <<docs, hooks, hookQ, job, finished, trigs, trigOp, waiting, close>>
  BY DEF Send, others
<1>7. j \in Queued(sent + 1) /\ j.n = sent + 1
  <2>1. Head(f.todo) \in Reg
    <3>1. f.todo \in Seq(Reg)
      BY <1>3 DEF FrameType
    <3>. QED BY <1>4, <3>1, HeadTailProperties
  <2>2. Nested(f.chain)
    BY <1>3 DEF FrameFits
  <2>3. f.coll \in Coll /\ f.val \in Doc /\ f.old \in Doc /\ f.op \in Op /\ f.chain \in Seq(Nat)
    BY <1>3 DEF FrameType
  <2>. HIDE DEF f
  <2>4. j \in JobType /\ j.n = sent + 1 /\ j.chain = f.chain
    BY <1>2, <2>1, <2>3 DEF JobType
  <2>. HIDE DEF j
  <2>. QED BY <1>2, <2>2, <2>4 DEF Queued
<1>. HIDE DEF f, g, j, w
<1> DEFINE q == workers[w].q
           r == workers'[w].q
<1>8. /\ workers' \in Seq(WorkerType(sent + 1)) /\ Len(workers') = len
      /\ DOMAIN workers' = DOMAIN workers
      /\ q \in Seq(Queued(sent + 1)) /\ Len(r) = Len(q) + 1
      /\ \A i \in DOMAIN q : r[i] = q[i]
      /\ r[Len(q) + 1] = j
      /\ \A v \in DOMAIN workers : workers'[v].on = workers[v].on /\ workers'[v].stop = workers[v].stop
      /\ \A v \in DOMAIN workers : Len(workers'[v].q) <= HookQueueSize
  <2>1. sent + 1 \in Nat /\ sent <= sent + 1
    BY <1>2
  <2>. QED BY <1>1, <1>4, <1>6, <1>7, <2>1, EnqueueFits
<1>9. Len(q) \in Nat /\ DOMAIN q = 1..Len(q) /\ r \in Seq(Queued(sent + 1)) /\ DOMAIN r = 1..(Len(q) + 1)
  <2>1. workers'[w] \in WorkerType(sent + 1)
    BY <1>4, <1>8, ElementOfSeq
  <2>2. r \in Seq(Queued(sent + 1))
    BY <2>1 DEF WorkerType
  <2> DEFINE Q == Queued(sent + 1)
  <2>3. q \in Seq(Q) /\ r \in Seq(Q)
    BY <1>8, <2>2
  <2>. HIDE DEF Q, q, r
  <2>4. Len(q) \in Nat /\ DOMAIN q = 1..Len(q) /\ DOMAIN r = 1..Len(r)
    BY <2>3
  <2>5. DOMAIN r = 1..(Len(q) + 1)
    BY <1>8, <2>4
  <2>. QED BY <2>2, <2>4, <2>5
<1>. HIDE DEF q, r
<1>10. Moves(t)
  BY <1>1, <1>2, <1>5, <1>6, SetTopMoves
<1>11. /\ stack' \in [Thread -> Stacks(len)] /\ Busy'
  BY <1>1, <1>10, MovesGive, MovesFinish
<1>12. Types'
  <2>1. job' \in [Worker -> 0..(sent + 1)] /\ finished' \subseteq 1..(sent + 1)
    <3>1. 0..sent \subseteq 0..(sent + 1) /\ 1..sent \subseteq 1..(sent + 1)
      BY <1>2
    <3>2. job \in [Worker -> 0..sent] /\ finished \subseteq 1..sent
      BY <1>1 DEF Types
    <3>. QED BY <1>6, <3>1, <3>2
  <2>2. waiting' \in [Caller -> WaitingType(sent + 1)]
    <3>1. WaitingType(sent) \subseteq WaitingType(sent + 1)
      BY <1>2, QueuedGrow
    <3>2. waiting \in [Caller -> WaitingType(sent)]
      BY <1>1 DEF Types
    <3>. QED BY <1>6, <3>1, <3>2
  <2>3. sent' \in Nat
    BY <1>2, <1>6
  <2>4. \A c \in Caller : waiting'[c].pc = "send" => waiting'[c].q \in DOMAIN workers'
    BY <1>1, <1>6, <1>8 DEF Types
  <2>5. docs' \in [Coll -> Doc] /\ hooks' \in Seq(Reg) /\ hookQ' \in 0..Len(workers')
        /\ Len(workers') <= MaxWorkers
    BY <1>1, <1>6, <1>8 DEF Types
  <2>6. stack' \in [Thread -> Stacks(Len(workers'))] /\ sent' = sent + 1
    BY <1>6, <1>8, <1>11
  <2>. QED BY <1>8, <2>1, <2>2, <2>3, <2>4, <2>5, <2>6 DEF Types, Thread, Worker
<1>13. OneQueue'
  <2>1. hookQ # None => hookQ \in DOMAIN workers
    BY <1>1 DEF Types, None
  <2>2. close.pc = "open" => hookQ # None
    BY <1>1, <1>4, FirstQueue
  <2>. QED BY <1>1, <1>6, <1>8, <2>1, <2>2 DEF OneQueue
<1>14. PICK l \in Nat : l = Len(q)
  BY <1>9
<1>15. ASSUME close.pc = "open"
       PROVE  /\ w = 1 /\ Len(workers[1].q) = l /\ Len(workers'[1].q) = l + 1
              /\ \A i \in 1..l : workers'[1].q[i] = workers[1].q[i]
              /\ workers'[1].q[l + 1] = j
              /\ DOMAIN workers[1].q = 1..l /\ DOMAIN workers'[1].q = 1..(l + 1)
              /\ \A n : \A k \in 0..l :
                     n \in finished \/ Ahead(n, k) => n \in finished' \/ Ahead(n, k)'
  <2>1. w = 1
    BY <1>1, <1>4, <1>15, FirstQueue
  <2>2. /\ Len(workers[1].q) = l /\ Len(workers'[1].q) = l + 1
        /\ \A i \in 1..l : workers'[1].q[i] = workers[1].q[i]
        /\ workers'[1].q[l + 1] = j
        /\ DOMAIN workers[1].q = 1..l /\ DOMAIN workers'[1].q = 1..(l + 1)
    BY <1>8, <1>9, <1>14, <2>1 DEF q, r
  <2>. QED BY <1>6, <2>1, <2>2, AheadStays
<1>16. NoneLost'
  <2>. SUFFICES ASSUME close.pc = "open", hookQ # None, NEW n \in 1..(sent + 1)
                PROVE  n \in finished' \/ Ahead(n, Len(workers[1].q))'
    BY <1>6 DEF NoneLost
  <2>1. CASE n = sent + 1
    <3>1. workers'[1].q[l + 1].n = n /\ l + 1 \in 1..(l + 1)
      BY <1>7, <1>15, <2>1
    <3>. QED BY <1>15, <3>1 DEF Ahead
  <2>2. CASE n # sent + 1
    <3>1. n \in 1..sent
      BY <1>2, <2>2
    <3>2. n \in finished \/ Ahead(n, l)
      BY <1>1, <1>15, <3>1 DEF NoneLost
    <3>3. n \in finished' \/ Ahead(n, l)'
      BY <1>15, <3>2
    <3>4. Ahead(n, l)' => Ahead(n, Len(workers[1].q))'
      <4>1. CASE job'[1] = n
        BY <4>1 DEF Ahead
      <4>2. CASE \E i \in 1..l : workers'[1].q[i].n = n
        <5>1. 1..l \subseteq 1..(l + 1)
          OBVIOUS
        <5>. QED BY <1>15, <4>2, <5>1 DEF Ahead
      <4>. QED BY <4>1, <4>2 DEF Ahead
    <3>. QED BY <3>3, <3>4
  <2>. QED BY <2>1, <2>2
<1>17. Barriers'
  <2>1. j.n # None
    BY <1>2, <1>7 DEF None
  <2>. SUFFICES ASSUME close.pc = "open", hookQ # None,
                       NEW i \in DOMAIN workers'[1].q, IsBarrier(workers'[1].q[i])
                PROVE  /\ waiting[workers'[1].q[i].for].pc = "barrier"
                       /\ \A n \in waiting[workers'[1].q[i].for].owed :
                             n \in finished' \/ Ahead(n, i - 1)'
                       /\ \A k \in DOMAIN workers'[1].q :
                             IsBarrier(workers'[1].q[k])
                                 /\ workers'[1].q[k].for = workers'[1].q[i].for => k = i
    BY <1>6 DEF Barriers, IsBarrier
  <2>2. \A k \in 1..(l + 1) : IsBarrier(workers'[1].q[k]) =>
            k \in 1..l /\ workers'[1].q[k] = workers[1].q[k]
    <3>. SUFFICES ASSUME NEW k \in 1..(l + 1), IsBarrier(workers'[1].q[k])
                  PROVE  k \in 1..l /\ workers'[1].q[k] = workers[1].q[k]
      OBVIOUS
    <3>1. k # l + 1
      BY <1>15, <2>1 DEF IsBarrier
    <3>. QED BY <1>15, <3>1
  <2>3. i \in 1..l /\ workers'[1].q[i] = workers[1].q[i] /\ i - 1 \in 0..l
    BY <1>15, <2>2
  <2>4. /\ waiting[workers[1].q[i].for].pc = "barrier"
        /\ \A n \in waiting[workers[1].q[i].for].owed : n \in finished \/ Ahead(n, i - 1)
        /\ \A k \in DOMAIN workers[1].q :
              IsBarrier(workers[1].q[k]) /\ workers[1].q[k].for = workers[1].q[i].for => k = i
    BY <1>1, <1>15, <2>3 DEF Barriers
  <2>5. \A n \in waiting[workers'[1].q[i].for].owed : n \in finished' \/ Ahead(n, i - 1)'
    BY <1>15, <2>3, <2>4
  <2>. QED BY <1>15, <2>2, <2>3, <2>4, <2>5
<1>18. Passed' /\ Ids' /\ Hooking'
  BY <1>1, <1>6, TriggersStay DEF Passed
<1>. QED BY <1>11, <1>12, <1>13, <1>16, <1>17, <1>18 DEF HInv

LEMMA BarrierFor ==
    ASSUME NEW m \in Nat, NEW j \in Queued(m)
    PROVE  /\ IsBarrier(j) => j.for \in Caller
           /\ ~IsBarrier(j) => j \in JobType /\ j.n <= m /\ Nested(j.chain)
BY DEF Queued, BarrierType, JobType, IsBarrier, None

\* The callers in WaitAsyncHooks where nothing else changes.
LEMMA WaitersKeep ==
    ASSUME HInv, NEW c \in Caller, NEW x \in WaitingType(sent), x.pc # "barrier",
           waiting[c].pc # "barrier",
           x.pc = "send" => x.q \in DOMAIN workers,
           x.pc # "passed",
           waiting' = [waiting EXCEPT ![c] = x],
           UNCHANGED <<docs, hooks, trigs, trigOp, stack, queues, close>>
    PROVE  HInv'
<1>1. Types /\ Busy /\ OneQueue /\ NoneLost /\ Barriers /\ Passed /\ Ids /\ Hooking
  BY DEF HInv
<1>2. UNCHANGED <<hookQ, workers, job, sent, finished>>
  BY DEF queues
<1>3. /\ waiting' \in [Caller -> WaitingType(sent)]
      /\ waiting'[c] = x
      /\ \A d \in Caller : d # c => waiting'[d] = waiting[d]
  BY <1>1 DEF Types
<1>4. Types'
  <2>1. \A d \in Caller : waiting'[d].pc = "send" => waiting'[d].q \in DOMAIN workers
    BY <1>1, <1>3 DEF Types
  <2>. QED BY <1>1, <1>2, <1>3, <2>1 DEF Types, Thread, Worker
<1>5. Busy' /\ OneQueue'
  BY <1>1, <1>2 DEF Busy, OneQueue, Worker
<1>6. NoneLost'
  BY <1>1, <1>2 DEF NoneLost, Ahead
<1>7. Barriers'
  <2>. SUFFICES ASSUME close.pc = "open", hookQ # None,
                       NEW i \in DOMAIN workers[1].q, IsBarrier(workers[1].q[i])
                PROVE  LET b == workers[1].q[i].for IN waiting'[b] = waiting[b]
    <3>1. \A n, k : Ahead(n, k) <=> Ahead(n, k)'
      BY <1>2 DEF Ahead
    <3>. QED BY <1>1, <1>2, <3>1 DEF Barriers, IsBarrier
  <2>1. waiting[workers[1].q[i].for].pc = "barrier"
    BY <1>1 DEF Barriers
  <2>. QED BY <1>1, <1>3, <2>1 DEF Types
<1>8. Passed'
  BY <1>1, <1>2, <1>3 DEF Passed
<1>9. Ids' /\ Hooking'
  BY <1>1, TriggersStay
<1>. QED BY <1>4, <1>5, <1>6, <1>7, <1>8, <1>9 DEF HInv

LEMMA WaitKeeps ==
    ASSUME HInv, NEW c \in Caller, Wait(c)
    PROVE  HInv'
<1> DEFINE x == IF hookQ = None THEN NotWaiting
                ELSE [pc |-> "send", q |-> hookQ, owed |-> (1..sent) \ finished]
<1>1. Types
  BY DEF HInv
<1>2. x \in WaitingType(sent) /\ x.pc \in {"no", "send"} /\ (x.pc = "send" => x.q \in DOMAIN workers)
  <2>1. /\ hookQ \in 0..Len(workers) /\ Len(workers) \in Nat /\ DOMAIN workers = 1..Len(workers)
        /\ sent \in Nat
    BY <1>1 DEF Types
  <2>2. hookQ \in Nat /\ (hookQ # None => hookQ \in DOMAIN workers)
    BY <2>1 DEF None
  <2>. QED BY <2>2 DEF WaitingType, NotWaiting, None
<1>3. /\ waiting' = [waiting EXCEPT ![c] = x]
      /\ waiting[c].pc = "no"
      /\ UNCHANGED <<docs, hooks, trigs, trigOp, stack, queues, close>>
  BY Zenon DEF Wait
<1>. HIDE DEF x
<1>. QED BY <1>2, <1>3, WaitersKeep

LEMMA NotWaitingFits ==
    ASSUME NEW m
    PROVE  NotWaiting \in WaitingType(m) /\ NotWaiting.pc = "no"
BY DEF NotWaiting, WaitingType, None

LEMMA WaitStoppedKeeps ==
    ASSUME HInv, NEW c \in Caller, WaitStopped(c)
    PROVE  HInv'
<1>1. NotWaiting \in WaitingType(sent) /\ NotWaiting.pc = "no"
  BY NotWaitingFits
<1>2. /\ waiting' = [waiting EXCEPT ![c] = NotWaiting]
      /\ waiting[c].pc = "send"
      /\ UNCHANGED <<docs, hooks, trigs, trigOp, stack, queues, close>>
  BY DEF WaitStopped
<1>. QED BY <1>1, <1>2, WaitersKeep

LEMMA WaitEndKeeps ==
    ASSUME HInv, NEW c \in Caller, WaitEnd(c)
    PROVE  HInv'
<1>1. NotWaiting \in WaitingType(sent) /\ NotWaiting.pc = "no"
  BY NotWaitingFits
<1>2. /\ waiting' = [waiting EXCEPT ![c] = NotWaiting]
      /\ waiting[c].pc = "passed"
      /\ UNCHANGED <<docs, hooks, trigs, trigOp, stack, queues, close>>
  BY DEF WaitEnd
<1>. QED BY <1>1, <1>2, WaitersKeep

LEMMA WaitSendKeeps ==
    ASSUME HInv, NEW c \in Caller, WaitSend(c)
    PROVE  HInv'
<1> DEFINE w == waiting[c].q
           b == [n |-> None, for |-> c]
           q == workers[w].q
           r == workers'[w].q
<1>1. Types /\ Busy /\ OneQueue /\ NoneLost /\ Barriers /\ Passed /\ Ids /\ Hooking
  BY DEF HInv
<1>2. /\ waiting[c].pc = "send" /\ w \in DOMAIN workers /\ HasRoom(w)
      /\ workers' = [workers EXCEPT ![w].q = Append(@, b)]
      /\ waiting' = [waiting EXCEPT ![c].pc = "barrier"]
      /\ UNCHANGED <<docs, hooks, stack, hookQ, job, sent, finished, trigs, trigOp, close>>
  BY <1>1 DEF WaitSend, Types
<1>3. b \in Queued(sent) /\ IsBarrier(b) /\ b.for = c /\ sent \in Nat
  BY <1>1 DEF Queued, BarrierType, IsBarrier, Types
<1>. HIDE DEF b, w
<1>4. /\ workers' \in Seq(WorkerType(sent)) /\ Len(workers') = Len(workers)
      /\ DOMAIN workers' = DOMAIN workers
      /\ q \in Seq(Queued(sent)) /\ Len(r) = Len(q) + 1
      /\ \A i \in DOMAIN q : r[i] = q[i]
      /\ r[Len(q) + 1] = b
      /\ \A v \in DOMAIN workers : workers'[v].on = workers[v].on /\ workers'[v].stop = workers[v].stop
      /\ \A v \in DOMAIN workers : Len(workers'[v].q) <= HookQueueSize
  <2>1. sent <= sent
    BY <1>3
  <2>. QED BY <1>1, <1>2, <1>3, <2>1, EnqueueFits
<1>5. Len(q) \in Nat /\ DOMAIN q = 1..Len(q) /\ DOMAIN r = 1..(Len(q) + 1)
  <2>1. workers'[w] \in WorkerType(sent)
    BY <1>2, <1>4, ElementOfSeq
  <2>2. r \in Seq(Queued(sent))
    BY <2>1 DEF WorkerType
  <2> DEFINE Q == Queued(sent)
  <2>3. q \in Seq(Q) /\ r \in Seq(Q)
    BY <1>4, <2>2
  <2>. HIDE DEF Q, q, r
  <2>4. Len(q) \in Nat /\ DOMAIN q = 1..Len(q) /\ DOMAIN r = 1..Len(r)
    BY <2>3
  <2>. QED BY <1>4, <2>4
<1>6. /\ waiting' \in [Caller -> WaitingType(sent)]
      /\ waiting'[c].pc = "barrier" /\ waiting'[c].owed = waiting[c].owed
      /\ waiting[c].owed \subseteq 1..sent
      /\ \A d \in Caller : d # c => waiting'[d] = waiting[d]
  <2> DEFINE x == [waiting[c] EXCEPT !.pc = "barrier"]
  <2>1. waiting \in [Caller -> WaitingType(sent)] /\ waiting[c] \in WaitingType(sent)
    BY <1>1 DEF Types
  <2>2. x \in WaitingType(sent) /\ x.pc = "barrier" /\ x.owed = waiting[c].owed
        /\ waiting[c].owed \subseteq 1..sent
    BY <2>1 DEF WaitingType
  <2>3. waiting' = [waiting EXCEPT ![c] = x]
    BY <1>2
  <2>. HIDE DEF x
  <2>. QED BY <2>1, <2>2, <2>3
<1>. HIDE DEF q, r
<1>7. Types'
  <2>1. \A d \in Caller : waiting'[d].pc = "send" => waiting'[d].q \in DOMAIN workers'
    BY <1>1, <1>4, <1>6 DEF Types
  <2>2. docs' \in [Coll -> Doc] /\ hooks' \in Seq(Reg) /\ hookQ' \in 0..Len(workers')
        /\ Len(workers') <= MaxWorkers
    BY <1>1, <1>2, <1>4 DEF Types
  <2>3. stack' \in [Thread -> Stacks(Len(workers'))] /\ job' \in [Worker -> 0..sent]
        /\ finished' \subseteq 1..sent
    BY <1>1, <1>2, <1>4 DEF Types
  <2>. QED BY <1>2, <1>3, <1>4, <1>6, <2>1, <2>2, <2>3 DEF Types, Thread, Worker
<1>8. Busy'
  BY <1>1, <1>2 DEF Busy, Worker
<1>9. OneQueue'
  <2>1. hookQ # None => hookQ \in DOMAIN workers
    BY <1>1 DEF Types, None
  <2>. QED BY <1>1, <1>2, <1>4, <2>1 DEF OneQueue
<1>10. PICK l \in Nat : l = Len(q)
  BY <1>5
<1>11. ASSUME close.pc = "open"
       PROVE  /\ w = 1 /\ Len(workers[1].q) = l /\ Len(workers'[1].q) = l + 1
              /\ \A i \in 1..l : workers'[1].q[i] = workers[1].q[i]
              /\ workers'[1].q[l + 1] = b
              /\ DOMAIN workers[1].q = 1..l /\ DOMAIN workers'[1].q = 1..(l + 1)
              /\ \A n : \A k \in 0..l :
                     n \in finished \/ Ahead(n, k) => n \in finished' \/ Ahead(n, k)'
  <2>1. w = 1
    BY <1>1, <1>2, <1>11, FirstQueue
  <2>2. /\ Len(workers[1].q) = l /\ Len(workers'[1].q) = l + 1
        /\ \A i \in 1..l : workers'[1].q[i] = workers[1].q[i]
        /\ workers'[1].q[l + 1] = b
        /\ DOMAIN workers[1].q = 1..l /\ DOMAIN workers'[1].q = 1..(l + 1)
    BY <1>4, <1>5, <1>10, <2>1 DEF q, r
  <2>. QED BY <1>2, <2>1, <2>2, AheadStays
<1>12. ASSUME close.pc = "open", hookQ # None
       PROVE  \A n \in 1..sent : n \in finished' \/ Ahead(n, l)'
  BY <1>1, <1>11, <1>12 DEF NoneLost
<1>13. NoneLost'
  <2>. SUFFICES ASSUME close.pc = "open", hookQ # None, NEW n \in 1..sent
                PROVE  n \in finished' \/ Ahead(n, Len(workers[1].q))'
    BY <1>2 DEF NoneLost
  <2>1. Ahead(n, l)' => Ahead(n, Len(workers[1].q))'
    <3>1. CASE job'[1] = n
      BY <3>1 DEF Ahead
    <3>2. CASE \E i \in 1..l : workers'[1].q[i].n = n
      <4>1. 1..l \subseteq 1..(l + 1)
        OBVIOUS
      <4>. QED BY <1>11, <3>2, <4>1 DEF Ahead
    <3>. QED BY <3>1, <3>2 DEF Ahead
  <2>. QED BY <1>12, <2>1
<1>14. Barriers'
  <2>. SUFFICES ASSUME close.pc = "open", hookQ # None,
                       NEW i \in DOMAIN workers'[1].q, IsBarrier(workers'[1].q[i])
                PROVE  /\ waiting'[workers'[1].q[i].for].pc = "barrier"
                       /\ \A n \in waiting'[workers'[1].q[i].for].owed :
                             n \in finished' \/ Ahead(n, i - 1)'
                       /\ \A k \in DOMAIN workers'[1].q :
                             IsBarrier(workers'[1].q[k])
                                 /\ workers'[1].q[k].for = workers'[1].q[i].for => k = i
    BY <1>2 DEF Barriers, IsBarrier
  <2>1. \A k \in 1..l : IsBarrier(workers[1].q[k]) =>
            /\ workers[1].q[k].for \in Caller \ {c}
            /\ waiting[workers[1].q[k].for].pc = "barrier"
            /\ \A n \in waiting[workers[1].q[k].for].owed : n \in finished \/ Ahead(n, k - 1)
            /\ \A m \in 1..l :
                  IsBarrier(workers[1].q[m]) /\ workers[1].q[m].for = workers[1].q[k].for => m = k
    <3>. SUFFICES ASSUME NEW k \in 1..l, IsBarrier(workers[1].q[k])
                  PROVE  /\ workers[1].q[k].for \in Caller \ {c}
                         /\ waiting[workers[1].q[k].for].pc = "barrier"
                         /\ \A n \in waiting[workers[1].q[k].for].owed :
                               n \in finished \/ Ahead(n, k - 1)
                         /\ \A m \in 1..l :
                               IsBarrier(workers[1].q[m])
                                   /\ workers[1].q[m].for = workers[1].q[k].for => m = k
      OBVIOUS
    <3>1. workers[1].q[k] \in Queued(sent)
      <4>1. workers[1].q \in Seq(Queued(sent)) /\ k \in 1..Len(workers[1].q)
        BY <1>4, <1>11 DEF q
      <4>. QED BY <4>1, ElementOfSeq
    <3>2. workers[1].q[k].for \in Caller
      BY <1>3, <3>1, BarrierFor
    <3>3. /\ waiting[workers[1].q[k].for].pc = "barrier"
          /\ \A n \in waiting[workers[1].q[k].for].owed : n \in finished \/ Ahead(n, k - 1)
          /\ \A m \in 1..l :
                IsBarrier(workers[1].q[m]) /\ workers[1].q[m].for = workers[1].q[k].for => m = k
      BY <1>1, <1>11 DEF Barriers
    <3>4. workers[1].q[k].for # c
      BY <1>2, <3>3
    <3>. QED BY <3>2, <3>3, <3>4
  <2>2. i \in 1..(l + 1)
    BY <1>11
  <2>3. CASE i = l + 1
    <3>1. workers'[1].q[i] = b /\ i - 1 = l
      BY <1>11, <2>3
    <3>2. \A n \in waiting'[c].owed : n \in finished' \/ Ahead(n, l)'
      BY <1>6, <1>12
    <3>3. \A k \in 1..(l + 1) :
              IsBarrier(workers'[1].q[k]) /\ workers'[1].q[k].for = c => k = l + 1
      <4>. SUFFICES ASSUME NEW k \in 1..l, IsBarrier(workers'[1].q[k])
                    PROVE  workers'[1].q[k].for # c
        OBVIOUS
      <4>1. workers'[1].q[k] = workers[1].q[k]
        BY <1>11
      <4>. QED BY <2>1, <4>1
    <3>. QED BY <1>3, <1>6, <1>11, <2>3, <3>1, <3>2, <3>3
  <2>4. CASE i # l + 1
    <3>1. i \in 1..l /\ i - 1 \in 0..l /\ workers'[1].q[i] = workers[1].q[i]
      BY <1>11, <2>2, <2>4
    <3> DEFINE d == workers[1].q[i].for
    <3>2. /\ d \in Caller \ {c} /\ waiting[d].pc = "barrier"
          /\ \A n \in waiting[d].owed : n \in finished \/ Ahead(n, i - 1)
          /\ \A m \in 1..l : IsBarrier(workers[1].q[m]) /\ workers[1].q[m].for = d => m = i
      BY <2>1, <3>1
    <3>3. waiting'[d] = waiting[d]
      BY <1>6, <3>2
    <3>4. \A n \in waiting'[d].owed : n \in finished' \/ Ahead(n, i - 1)'
      BY <1>11, <3>1, <3>2, <3>3
    <3>5. \A k \in 1..(l + 1) : IsBarrier(workers'[1].q[k]) /\ workers'[1].q[k].for = d => k = i
      <4>. SUFFICES ASSUME NEW k \in 1..(l + 1), IsBarrier(workers'[1].q[k]),
                           workers'[1].q[k].for = d
                    PROVE  k = i
        OBVIOUS
      <4>1. k # l + 1
        BY <1>3, <1>11, <3>2
      <4>2. k \in 1..l /\ workers'[1].q[k] = workers[1].q[k]
        BY <1>11, <4>1
      <4>. QED BY <3>2, <4>2
    <3>. QED BY <1>11, <3>1, <3>2, <3>3, <3>4, <3>5
  <2>. QED BY <2>3, <2>4
<1>15. Passed'
  BY <1>1, <1>2, <1>6 DEF Passed
<1>16. Ids' /\ Hooking'
  BY <1>1, <1>2, TriggersStay
<1>. QED BY <1>7, <1>8, <1>9, <1>13, <1>14, <1>15, <1>16 DEF HInv

\* The head of a worker's queue taken away.
LEMMA DequeueFits ==
    ASSUME Types, NEW w \in DOMAIN workers, workers[w].q # <<>>,
           workers' = [workers EXCEPT ![w].q = Tail(@)]
    PROVE  /\ workers' \in Seq(WorkerType(sent)) /\ Len(workers') = Len(workers)
           /\ DOMAIN workers' = DOMAIN workers
           /\ Head(workers[w].q) \in Queued(sent) /\ Head(workers[w].q) = workers[w].q[1]
           /\ workers[w].q \in Seq(Queued(sent))
           /\ \E l \in Nat :
                 /\ Len(workers[w].q) = l + 1 /\ Len(workers'[w].q) = l
                 /\ DOMAIN workers[w].q = 1..(l + 1) /\ DOMAIN workers'[w].q = 1..l
                 /\ \A i \in 1..l : workers'[w].q[i] = workers[w].q[i + 1]
           /\ \A v \in DOMAIN workers : workers'[v].on = workers[v].on /\ workers'[v].stop = workers[v].stop
           /\ \A v \in DOMAIN workers : Len(workers'[v].q) <= HookQueueSize
<1> DEFINE Q == Queued(sent)
           q == workers[w].q
           r == Tail(q)
<1>1. /\ workers \in Seq(WorkerType(sent)) /\ sent \in Nat /\ HookQueueSize \in Nat
      /\ \A v \in DOMAIN workers : Len(workers[v].q) <= HookQueueSize
  BY HooksAssumption DEF Types
<1>2. q \in Seq(Q) /\ q # <<>>
  <2>1. workers[w] \in WorkerType(sent)
    BY <1>1, ElementOfSeq
  <2>. QED BY <2>1 DEF WorkerType
<1>3. /\ r \in Seq(Q) /\ Len(r) = Len(q) - 1 /\ \A i \in 1..Len(r) : r[i] = q[i + 1]
      /\ Head(q) \in Q /\ Head(q) = q[1]
      /\ Len(q) \in Nat \ {0} /\ DOMAIN q = 1..Len(q) /\ DOMAIN r = 1..Len(r)
  <2>. HIDE DEF Q, q
  <2>1. /\ r \in Seq(Q) /\ Len(r) = Len(q) - 1 /\ \A i \in 1..Len(r) : r[i] = q[i + 1]
        /\ Head(q) \in Q
    BY <1>2, HeadTailProperties
  <2>. HIDE DEF r
  <2>. QED BY <1>2, <2>1
<1>4. workers' = WithQueue(workers, w, r)
  BY DEF WithQueue
<1> DEFINE after == WithQueue(workers, w, r)
<1>5. /\ after \in Seq(WorkerType(sent)) /\ Len(after) = Len(workers)
      /\ DOMAIN after = DOMAIN workers
      /\ after[w].q = r
      /\ \A v \in DOMAIN workers : v # w => after[v] = workers[v]
      /\ \A v \in DOMAIN workers : after[v].on = workers[v].on /\ after[v].stop = workers[v].stop
  <2>. HIDE DEF r
  <2>. QED BY <1>1, <1>3, QueueFits
<1>. HIDE DEF after, r
<1>6. workers' = after
  BY <1>4 DEF after
<1>. HIDE DEF q
<1>7. PICK l \in Nat : l = Len(q) - 1
  BY <1>3
<1>8. /\ Len(q) = l + 1 /\ Len(r) = l /\ DOMAIN q = 1..(l + 1) /\ DOMAIN r = 1..l
      /\ \A i \in 1..l : r[i] = q[i + 1]
  BY <1>3, <1>7
<1>9. \A v \in DOMAIN workers : Len(workers'[v].q) <= HookQueueSize
  <2>1. Len(r) <= HookQueueSize
    <3>1. Len(q) <= HookQueueSize
      BY <1>1 DEF q
    <3>. QED BY <1>1, <1>8, <3>1
  <2>. QED BY <1>1, <1>5, <1>6, <2>1
<1>10. \E m \in Nat :
         /\ Len(workers[w].q) = m + 1 /\ Len(workers'[w].q) = m
         /\ DOMAIN workers[w].q = 1..(m + 1) /\ DOMAIN workers'[w].q = 1..m
         /\ \A i \in 1..m : workers'[w].q[i] = workers[w].q[i + 1]
  BY <1>5, <1>6, <1>8 DEF q
<1>. QED BY <1>2, <1>3, <1>5, <1>6, <1>9, <1>10 DEF q

\* What TakeJob does, case by case.
LEMMA TakeJobGives ==
    ASSUME Types, Busy, NEW w \in Worker, TakeJob(w)
    PROVE  LET j == Head(workers[w].q) IN
           /\ w \in DOMAIN workers /\ workers[w].q # <<>> /\ stack[w] = <<>> /\ job[w] = None
           /\ workers' = [workers EXCEPT ![w].q = Tail(@)]
           /\ \/ /\ IsBarrier(j) /\ UNCHANGED <<stack, job, finished>>
                 /\ waiting' = [waiting EXCEPT ![j.for].pc = "passed"]
              \/ /\ ~IsBarrier(j) /\ UNCHANGED waiting
                 /\ stack' \in [Thread -> Stacks(Len(workers))] /\ Busy'
                 /\ \A v \in Worker : v # w => job'[v] = job[v]
                 /\ job' \in [Worker -> 0..sent] /\ finished' \subseteq 1..sent
                 /\ finished \subseteq finished'
                 /\ j.n \in finished' \/ job'[w] = j.n
<1> DEFINE j == Head(workers[w].q)
<1>1. /\ w \in DOMAIN workers /\ workers[w].q # <<>> /\ stack[w] = <<>> /\ job[w] = None
      /\ workers' = [workers EXCEPT ![w].q = Tail(@)]
  <2>1. w <= Len(workers) /\ w \in Nat \ {0}
    BY HooksAssumption DEF TakeJob, Idle, Started, Worker
  <2>2. w \in DOMAIN workers
    BY <2>1 DEF Types
  <2>. QED BY <2>2 DEF TakeJob, Idle, Busy
<1>2. j \in Queued(sent) /\ sent \in Nat /\ Len(workers) \in Nat /\ finished \subseteq 1..sent
      /\ w \in Thread
  <2>1. Head(workers[w].q) \in Queued(sent)
    BY <1>1, DequeueFits
  <2>. QED BY <2>1 DEF Types, Thread
<1> DEFINE call == CallOf(j.reg, j.coll, j.doc)
           chain == Append(j.chain, j.reg.id)
           f == Frame(call, chain)
<1>3. \/ /\ IsBarrier(j) /\ UNCHANGED <<stack, job, finished>>
         /\ waiting' = [waiting EXCEPT ![j.for].pc = "passed"]
      \/ /\ ~IsBarrier(j) /\ UNCHANGED waiting
         /\ MayBegin(j.chain, j.reg) /\ CallsOn(j.reg, j.doc, j.old)
         /\ stack' = [stack EXCEPT ![w] = <<f>>]
         /\ job' = [job EXCEPT ![w] = j.n] /\ UNCHANGED finished
      \/ /\ ~IsBarrier(j) /\ UNCHANGED waiting
         /\ finished' = finished \union {j.n} /\ UNCHANGED <<stack, job>>
  BY Zenon DEF TakeJob
<1>. HIDE DEF j
<1>4. ~IsBarrier(j) => j.n \in 1..sent
  BY <1>2, BarrierFor DEF JobType
<1>5. CASE /\ ~IsBarrier(j)
           /\ MayBegin(j.chain, j.reg) /\ CallsOn(j.reg, j.doc, j.old)
           /\ stack' = [stack EXCEPT ![w] = <<f>>]
           /\ job' = [job EXCEPT ![w] = j.n] /\ UNCHANGED finished
  <2>1. j \in JobType /\ Nested(j.chain)
    BY <1>2, <1>5, BarrierFor
  <2>2. /\ j.reg \in Reg /\ j.coll \in Coll /\ j.doc \in Doc /\ j.chain \in Seq(Nat)
        /\ j.reg.act \in {"set", "call"}
    BY <1>5, <2>1 DEF JobType, CallsOn
  <2>3. call \in Asked
    BY <2>2, HooksAsk
  <2>4. chain \in Seq(Nat) /\ Nested(chain)
    BY <1>5, <2>1, <2>2, NestedMore
  <2>. HIDE DEF call, chain
  <2>5. f \in Frames(Len(workers))
    BY <1>2, <2>3, <2>4, NewFrame
  <2>6. <<f>> \in Stacks(Len(workers)) /\ <<f>> # <<>>
    BY <1>2, <2>5, OneFrame
  <2> DEFINE s == <<f>>
  <2>. HIDE DEF f, s
  <2>7. /\ stack' \in [Thread -> Stacks(Len(workers))] /\ stack'[w] = s
        /\ \A t \in Thread : t # w => stack'[t] = stack[t]
    BY <1>2, <1>5, <2>6 DEF Types, s
  <2>8. /\ job' \in [Worker -> 0..sent] /\ job'[w] = j.n
        /\ \A v \in Worker : v # w => job'[v] = job[v]
    <3>1. j.n \in 0..sent
      BY <1>2, <1>4, <1>5
    <3>. QED BY <1>5, <3>1 DEF Types
  <2>9. Busy'
    <3>. SUFFICES ASSUME NEW v \in Worker PROVE job'[v] = None <=> stack'[v] = <<>>
      BY DEF Busy, Worker
    <3>1. CASE v = w
      <4>1. job'[v] # None
        BY <1>2, <1>4, <1>5, <2>8, <3>1 DEF None
      <4>2. stack'[v] # <<>>
        BY <2>6, <2>7, <3>1 DEF s
      <4>. QED BY <4>1, <4>2
    <3>2. CASE v # w
      BY <2>7, <2>8, <3>2 DEF Busy, Thread
    <3>. QED BY <3>1, <3>2
  <2>10. finished \subseteq finished' /\ finished' \subseteq 1..sent
    BY <1>2, <1>5
  <2>. QED BY <1>1, <1>3, <1>5, <2>7, <2>8, <2>9, <2>10 DEF j
<1>6. CASE ~IsBarrier(j) /\ finished' = finished \union {j.n} /\ UNCHANGED <<stack, job>>
  <2>1. Busy'
    BY <1>6 DEF Busy, Worker
  <2>2. finished' \subseteq 1..sent
    BY <1>2, <1>4, <1>6
  <2>. QED BY <1>1, <1>3, <1>6, <2>1, <2>2 DEF Types, j
<1>. QED BY <1>1, <1>3, <1>5, <1>6 DEF j

LEMMA TakeJobKeeps ==
    ASSUME HInv, NEW w \in Worker, TakeJob(w)
    PROVE  HInv'
<1> DEFINE j == Head(workers[w].q)
<1>1. Types /\ Busy /\ OneQueue /\ NoneLost /\ Barriers /\ Passed /\ Ids /\ Hooking
  BY DEF HInv
<1>2. /\ w \in DOMAIN workers /\ workers[w].q # <<>> /\ stack[w] = <<>> /\ job[w] = None
      /\ workers' = [workers EXCEPT ![w].q = Tail(@)]
      /\ \/ /\ IsBarrier(j) /\ UNCHANGED <<stack, job, finished>>
            /\ waiting' = [waiting EXCEPT ![j.for].pc = "passed"]
         \/ /\ ~IsBarrier(j) /\ UNCHANGED waiting
            /\ stack' \in [Thread -> Stacks(Len(workers))] /\ Busy'
            /\ \A v \in Worker : v # w => job'[v] = job[v]
            /\ job' \in [Worker -> 0..sent] /\ finished' \subseteq 1..sent
            /\ finished \subseteq finished'
            /\ j.n \in finished' \/ job'[w] = j.n
  BY <1>1, TakeJobGives, Zenon
<1>3. UNCHANGED <<docs, hooks, trigs, trigOp, close, hookQ, sent>>
  BY DEF TakeJob
<1>4. /\ workers' \in Seq(WorkerType(sent)) /\ Len(workers') = Len(workers)
      /\ DOMAIN workers' = DOMAIN workers
      /\ j \in Queued(sent) /\ j = workers[w].q[1]
      /\ workers[w].q \in Seq(Queued(sent))
      /\ \A v \in DOMAIN workers : workers'[v].on = workers[v].on /\ workers'[v].stop = workers[v].stop
      /\ \A v \in DOMAIN workers : Len(workers'[v].q) <= HookQueueSize
  BY <1>1, <1>2, DequeueFits
<1>5. PICK l \in Nat :
         /\ Len(workers[w].q) = l + 1 /\ Len(workers'[w].q) = l
         /\ DOMAIN workers[w].q = 1..(l + 1) /\ DOMAIN workers'[w].q = 1..l
         /\ \A i \in 1..l : workers'[w].q[i] = workers[w].q[i + 1]
  BY <1>1, <1>2, DequeueFits
<1>6. sent \in Nat /\ waiting \in [Caller -> WaitingType(sent)]
  BY <1>1 DEF Types
<1>. HIDE DEF j
<1>7. IsBarrier(j) =>
         /\ j.for \in Caller
         /\ waiting' \in [Caller -> WaitingType(sent)]
         /\ waiting'[j.for].pc = "passed" /\ waiting'[j.for].owed = waiting[j.for].owed
         /\ \A d \in Caller : d # j.for => waiting'[d] = waiting[d]
  <2>. SUFFICES ASSUME IsBarrier(j)
                PROVE  /\ j.for \in Caller
                       /\ waiting' \in [Caller -> WaitingType(sent)]
                       /\ waiting'[j.for].pc = "passed" /\ waiting'[j.for].owed = waiting[j.for].owed
                       /\ \A d \in Caller : d # j.for => waiting'[d] = waiting[d]
    OBVIOUS
  <2>1. j.for \in Caller
    BY <1>4, <1>6, BarrierFor
  <2> DEFINE x == [waiting[j.for] EXCEPT !.pc = "passed"]
  <2>2. x \in WaitingType(sent) /\ x.pc = "passed" /\ x.owed = waiting[j.for].owed
    <3>1. waiting[j.for] \in WaitingType(sent)
      BY <1>6, <2>1
    <3>. QED BY <3>1 DEF WaitingType
  <2>3. waiting' = [waiting EXCEPT ![j.for] = x]
    BY <1>2
  <2>. HIDE DEF x
  <2>. QED BY <1>6, <2>1, <2>2, <2>3
<1>8. /\ stack' \in [Thread -> Stacks(Len(workers))] /\ Busy'
      /\ job' \in [Worker -> 0..sent] /\ finished' \subseteq 1..sent
      /\ finished \subseteq finished'
      /\ \A v \in Worker : v # w => job'[v] = job[v]
      /\ IsBarrier(j) \/ j.n \in finished' \/ job'[w] = j.n
      /\ waiting' \in [Caller -> WaitingType(sent)]
  <2>1. CASE IsBarrier(j)
    <3>1. UNCHANGED <<stack, job, finished>>
      BY <1>2, <2>1
    <3>2. Busy'
      BY <1>1, <3>1 DEF Busy, Worker
    <3>. QED BY <1>1, <1>7, <2>1, <3>1, <3>2 DEF Types
  <2>2. CASE ~IsBarrier(j)
    BY <1>2, <1>6, <2>2
  <2>. QED BY <2>1, <2>2
<1>9. Types'
  <2>1. \A d \in Caller : waiting'[d].pc = "send" => waiting'[d].q \in DOMAIN workers'
    <3>1. \A d \in Caller : waiting[d].pc = "send" => waiting[d].q \in DOMAIN workers
      BY <1>1 DEF Types
    <3>2. CASE IsBarrier(j)
      BY <1>4, <1>7, <3>1, <3>2
    <3>3. CASE ~IsBarrier(j)
      BY <1>2, <1>4, <3>1, <3>3
    <3>. QED BY <3>2, <3>3
  <2>2. docs' \in [Coll -> Doc] /\ hooks' \in Seq(Reg) /\ hookQ' \in 0..Len(workers')
        /\ Len(workers') <= MaxWorkers
    BY <1>1, <1>3, <1>4 DEF Types
  <2>. QED BY <1>3, <1>4, <1>6, <1>8, <2>1, <2>2 DEF Types, Thread, Worker
<1>10. OneQueue'
  <2>1. hookQ # None => hookQ \in DOMAIN workers
    BY <1>1 DEF Types, None
  <2>. QED BY <1>1, <1>3, <1>4, <2>1 DEF OneQueue
\* Before Close, w is the worker of the one queue, and its jobs move up by one.
<1>11. ASSUME close.pc = "open"
       PROVE  /\ w = 1 /\ hookQ # None
              /\ \A n \in 1..sent : \A k \in 1..(l + 1) :
                     n \in finished \/ Ahead(n, k) => n \in finished' \/ Ahead(n, k - 1)'
  <2>1. w = 1 /\ hookQ # None
    BY <1>1, <1>2, <1>11, FirstQueue
  <2>. SUFFICES ASSUME NEW n \in 1..sent, NEW k \in 1..(l + 1), Ahead(n, k)
                PROVE  n \in finished' \/ Ahead(n, k - 1)'
    BY <1>8, <2>1
  <2>2. job[1] # n
    BY <1>2, <1>6, <2>1 DEF None
  <2>3. PICK i \in 1..k : workers[1].q[i].n = n
    BY <2>2 DEF Ahead
  <2>4. CASE i = 1
    <3>1. j.n = n
      BY <1>4, <2>1, <2>3, <2>4
    <3>2. ~IsBarrier(j)
      BY <3>1, <1>6 DEF IsBarrier, None
    <3>. QED BY <1>8, <2>1, <3>1, <3>2 DEF Ahead
  <2>5. CASE i # 1
    <3>1. i - 1 \in 1..(k - 1) /\ i - 1 \in 1..l /\ (i - 1) + 1 = i
      BY <2>5
    <3>2. workers'[1].q[i - 1].n = n
      BY <1>5, <2>1, <2>3, <3>1
    <3>. QED BY <3>1, <3>2 DEF Ahead
  <2>. QED BY <2>4, <2>5
<1>12. NoneLost'
  <2>. SUFFICES ASSUME close.pc = "open", hookQ # None, NEW n \in 1..sent
                PROVE  n \in finished' \/ Ahead(n, Len(workers[1].q))'
    BY <1>3 DEF NoneLost
  <2>1. w = 1
    BY <1>11
  <2>2. n \in finished \/ Ahead(n, l + 1)
    BY <1>1, <1>5, <2>1 DEF NoneLost
  <2>3. n \in finished' \/ Ahead(n, l + 1 - 1)'
    BY <1>11, <2>2
  <2>4. Len(workers'[1].q) = l + 1 - 1
    BY <1>5, <2>1
  <2>. QED BY <2>3, <2>4 DEF Ahead
<1>13. ASSUME close.pc = "open", hookQ # None, NEW i \in 1..(l + 1), IsBarrier(workers[1].q[i])
       PROVE  /\ workers[1].q[i].for \in Caller
              /\ waiting[workers[1].q[i].for].pc = "barrier"
              /\ \A n \in waiting[workers[1].q[i].for].owed :
                    n \in 1..sent /\ (n \in finished \/ Ahead(n, i - 1))
              /\ \A k \in 1..(l + 1) :
                    IsBarrier(workers[1].q[k]) /\ workers[1].q[k].for = workers[1].q[i].for => k = i
  <2>1. w = 1
    BY <1>11, <1>13
  <2>2. workers[1].q[i] \in Queued(sent)
    <3>1. workers[1].q \in Seq(Queued(sent)) /\ i \in 1..Len(workers[1].q)
      BY <1>4, <1>5, <2>1
    <3>. QED BY <3>1, ElementOfSeq
  <2>3. workers[1].q[i].for \in Caller
    BY <1>6, <1>13, <2>2, BarrierFor
  <2>4. waiting[workers[1].q[i].for].owed \subseteq 1..sent
    BY <1>6, <2>3 DEF WaitingType
  <2>. QED BY <1>1, <1>5, <1>13, <2>1, <2>3, <2>4 DEF Barriers
<1>14. Barriers'
  <2>. SUFFICES ASSUME close.pc = "open", hookQ # None,
                       NEW i \in DOMAIN workers'[1].q, IsBarrier(workers'[1].q[i])
                PROVE  /\ waiting'[workers'[1].q[i].for].pc = "barrier"
                       /\ \A n \in waiting'[workers'[1].q[i].for].owed :
                             n \in finished' \/ Ahead(n, i - 1)'
                       /\ \A k \in DOMAIN workers'[1].q :
                             IsBarrier(workers'[1].q[k])
                                 /\ workers'[1].q[k].for = workers'[1].q[i].for => k = i
    BY <1>3 DEF Barriers, IsBarrier
  <2>1. w = 1
    BY <1>11
  <2>2. i \in 1..l /\ i + 1 \in 1..(l + 1) /\ workers'[1].q[i] = workers[1].q[i + 1]
    BY <1>5, <2>1
  <2> DEFINE d == workers[1].q[i + 1].for
  <2>3. /\ d \in Caller /\ waiting[d].pc = "barrier"
        /\ \A n \in waiting[d].owed : n \in 1..sent /\ (n \in finished \/ Ahead(n, i + 1 - 1))
        /\ \A k \in 1..(l + 1) : IsBarrier(workers[1].q[k]) /\ workers[1].q[k].for = d => k = i + 1
    BY <1>13, <2>2
  <2>. HIDE DEF d
  <2>4. waiting'[d] = waiting[d]
    <3>1. CASE IsBarrier(j)
      <4>1. j.for # d
        <5>1. 1 \in 1..(l + 1) /\ 1 # i + 1 /\ j = workers[1].q[1]
          BY <1>4, <2>1, <2>2
        <5>. QED BY <2>3, <3>1, <5>1
      <4>. QED BY <1>7, <2>3, <3>1, <4>1
    <3>2. CASE ~IsBarrier(j)
      BY <1>2, <3>2
    <3>. QED BY <3>1, <3>2
  <2>5. \A n \in waiting'[d].owed : n \in finished' \/ Ahead(n, i - 1)'
    <3>. SUFFICES ASSUME NEW n \in waiting[d].owed
                  PROVE  n \in finished' \/ Ahead(n, i - 1)'
      BY <2>4
    <3>1. i + 1 - 1 = i /\ i \in 1..(l + 1)
      BY <2>2
    <3>2. n \in 1..sent /\ (n \in finished \/ Ahead(n, i))
      BY <2>3, <3>1
    <3>. QED BY <1>11, <3>1, <3>2
  <2>6. \A k \in 1..l : IsBarrier(workers'[1].q[k]) /\ workers'[1].q[k].for = d => k = i
    <3>. SUFFICES ASSUME NEW k \in 1..l, IsBarrier(workers'[1].q[k]), workers'[1].q[k].for = d
                  PROVE  k = i
      OBVIOUS
    <3>1. workers'[1].q[k] = workers[1].q[k + 1] /\ k + 1 \in 1..(l + 1)
      BY <1>5, <2>1
    <3>2. k + 1 = i + 1
      BY <2>3, <3>1
    <3>. QED BY <2>2, <3>2
  <2>. QED BY <1>5, <2>1, <2>2, <2>3, <2>4, <2>5, <2>6 DEF d
<1>15. Passed'
  <2>. SUFFICES ASSUME close.pc = "open", NEW c \in Caller, waiting'[c].pc = "passed"
                PROVE  waiting'[c].owed \subseteq finished'
    BY <1>3 DEF Passed
  <2>1. CASE IsBarrier(j) /\ c = j.for
    <3>1. w = 1 /\ hookQ # None /\ 1 \in 1..(l + 1) /\ j = workers[1].q[1]
      BY <1>4, <1>11
    <3>2. \A n \in waiting[c].owed : n \in 1..sent /\ (n \in finished \/ Ahead(n, 1 - 1))
      BY <1>13, <2>1, <3>1
    <3>3. \A n \in 1..sent : ~Ahead(n, 1 - 1)
      <4>1. 1..(1 - 1) = {}
        OBVIOUS
      <4>2. job[1] = 0
        BY <1>2, <3>1 DEF None
      <4>. QED BY <4>1, <4>2 DEF Ahead
    <3>. QED BY <1>7, <1>8, <2>1, <3>2, <3>3
  <2>2. CASE ~(IsBarrier(j) /\ c = j.for)
    <3>1. waiting'[c] = waiting[c]
      BY <1>2, <1>7, <2>2
    <3>. QED BY <1>1, <1>8, <3>1 DEF Passed
  <2>. QED BY <2>1, <2>2
<1>16. Ids' /\ Hooking'
  BY <1>1, <1>3, TriggersStay
<1>. QED BY <1>8, <1>9, <1>10, <1>12, <1>14, <1>15, <1>16 DEF HInv

LEMMA EndWorkerKeeps ==
    ASSUME HInv, NEW w \in Worker, EndWorker(w)
    PROVE  HInv'
<1>1. Types /\ Busy /\ OneQueue /\ NoneLost /\ Barriers /\ Passed /\ Ids /\ Hooking
  BY DEF HInv
<1>2. /\ w \in DOMAIN workers /\ workers[w].stop
      /\ workers' = [workers EXCEPT ![w].on = FALSE]
      /\ UNCHANGED <<docs, hooks, stack, trigs, trigOp, waiting, close, hookQ, job, sent, finished>>
  <2>1. w <= Len(workers) /\ w \in Nat \ {0}
    BY HooksAssumption DEF EndWorker, Idle, Started, Worker
  <2>2. w \in DOMAIN workers
    BY <1>1, <2>1 DEF Types
  <2>. QED BY <2>2 DEF EndWorker, MayEnd, others
<1>3. /\ workers' \in Seq(WorkerType(sent)) /\ Len(workers') = Len(workers)
      /\ DOMAIN workers' = DOMAIN workers
      /\ \A v \in DOMAIN workers : workers'[v].q = workers[v].q
      /\ \A v \in DOMAIN workers : v # w => workers'[v] = workers[v]
  <2> DEFINE W == WorkerType(sent)
             x == [workers[w] EXCEPT !.on = FALSE]
  <2>1. workers \in Seq(W) /\ workers[w] \in W
    <3>1. workers \in Seq(W)
      BY <1>1 DEF Types
    <3>. QED BY <1>2, <3>1, ElementOfSeq
  <2>2. x \in W /\ x.q = workers[w].q
    BY <2>1 DEF WorkerType
  <2>3. workers' = [workers EXCEPT ![w] = x]
    BY <1>2
  <2> DEFINE after == [workers EXCEPT ![w] = x]
  <2>. HIDE DEF W, x
  <2>4. after \in Seq(W) /\ Len(after) = Len(workers) /\ DOMAIN after = DOMAIN workers
        /\ after[w] = x /\ \A v \in DOMAIN workers : v # w => after[v] = workers[v]
    BY <1>2, <2>1, <2>2, OneReplaced
  <2>5. workers' = after
    BY <2>3
  <2>. HIDE DEF after
  <2>. QED BY <2>2, <2>4, <2>5 DEF W
<1>4. Types'
  BY <1>1, <1>2, <1>3 DEF Types, Thread, Worker
<1>5. Busy'
  BY <1>1, <1>2 DEF Busy, Worker
<1>6. hookQ # None => hookQ \in DOMAIN workers /\ hookQ # w
  BY <1>1, <1>2 DEF OneQueue, Types, None
<1>7. close.pc # "open"
  <2>. SUFFICES ASSUME close.pc = "open" PROVE FALSE
    OBVIOUS
  <2>1. w = 1 /\ hookQ = 1 /\ hookQ # None
    BY <1>1, <1>2, FirstQueue
  <2>. QED BY <1>6, <2>1
<1>8. OneQueue'
  BY <1>1, <1>2, <1>3, <1>6, <1>7 DEF OneQueue
<1>9. NoneLost' /\ Barriers' /\ Passed'
  BY <1>2, <1>7 DEF NoneLost, Barriers, Passed
<1>10. Ids' /\ Hooking'
  BY <1>1, <1>2, TriggersStay
<1>. QED BY <1>4, <1>5, <1>8, <1>9, <1>10 DEF HInv

LEMMA CloseKeeps ==
    ASSUME HInv, Close
    PROVE  HInv'
<1>1. Types /\ Busy /\ OneQueue /\ NoneLost /\ Barriers /\ Passed /\ Ids /\ Hooking
  BY DEF HInv
<1>2. /\ hookQ' = None /\ close'.pc # "open"
      /\ UNCHANGED <<docs, hooks, stack, job, sent, finished, trigs, trigOp, waiting>>
  BY DEF Close
<1>3. /\ workers' \in Seq(WorkerType(sent)) /\ Len(workers') = Len(workers)
      /\ DOMAIN workers' = DOMAIN workers
      /\ \A v \in DOMAIN workers : workers'[v].q = workers[v].q
  <2>1. CASE hookQ = None
    BY <1>1, <2>1 DEF Close, Types
  <2>2. CASE hookQ # None
    <3> DEFINE W == WorkerType(sent)
               x == [workers[hookQ] EXCEPT !.stop = TRUE]
    <3>1. workers \in Seq(W) /\ hookQ \in DOMAIN workers
      BY <1>1, <2>2 DEF Types, None
    <3>2. workers[hookQ] \in W
      BY <3>1, ElementOfSeq
    <3>3. x \in W /\ x.q = workers[hookQ].q
      BY <3>2 DEF WorkerType
    <3>4. workers' = [workers EXCEPT ![hookQ] = x]
      BY <2>2 DEF Close
    <3>. HIDE DEF W, x
    <3>5. workers' \in Seq(W) /\ Len(workers') = Len(workers) /\ DOMAIN workers' = DOMAIN workers
          /\ workers'[hookQ] = x /\ \A v \in DOMAIN workers : v # hookQ => workers'[v] = workers[v]
      BY <3>1, <3>3, <3>4
    <3>. QED BY <3>3, <3>5 DEF W
  <2>. QED BY <2>1, <2>2
<1>4. Types'
  <2>1. hookQ' \in 0..Len(workers')
    BY <1>1, <1>2, <1>3 DEF Types, None
  <2>. QED BY <1>1, <1>2, <1>3, <2>1 DEF Types, Thread, Worker
<1>5. Busy'
  BY <1>1, <1>2 DEF Busy, Worker
<1>6. OneQueue' /\ NoneLost' /\ Barriers' /\ Passed'
  BY <1>2 DEF OneQueue, NoneLost, Barriers, Passed
<1>7. Ids' /\ Hooking'
  BY <1>1, <1>2, TriggersStay
<1>. QED BY <1>4, <1>5, <1>6, <1>7 DEF HInv

LEMMA CloseJoinedKeeps ==
    ASSUME HInv, CloseJoined
    PROVE  HInv'
<1>1. Types /\ Busy /\ OneQueue /\ NoneLost /\ Barriers /\ Passed /\ Ids /\ Hooking
  BY DEF HInv
<1>2. /\ close.pc # "open" /\ close'.pc # "open"
      /\ UNCHANGED <<docs, hooks, stack, hookQ, workers, job, sent, finished, trigs, trigOp, waiting>>
  BY DEF CloseJoined, queues
<1>3. Types'
  BY <1>1, <1>2 DEF Types, Thread, Worker
<1>4. Busy'
  BY <1>1, <1>2 DEF Busy, Worker
<1>5. OneQueue' /\ NoneLost' /\ Barriers' /\ Passed'
  BY <1>1, <1>2 DEF OneQueue, NoneLost, Barriers, Passed
<1>6. Ids' /\ Hooking'
  BY <1>1, <1>2, TriggersStay
<1>. QED BY <1>3, <1>4, <1>5, <1>6 DEF HInv

-----------------------------------------------------------------------------
(* The triggers *)

LEMMA RemovedAt ==
    ASSUME NEW S, NEW s \in Seq(S), NEW at \in DOMAIN s
    PROVE  /\ RemoveAt(s, at) \in Seq(S)
           /\ Len(RemoveAt(s, at)) = Len(s) - 1
           /\ \A i \in 1..(Len(s) - 1) : RemoveAt(s, at)[i] = s[IF i < at THEN i ELSE i + 1]
<1> DEFINE n == Len(s)
           u == SubSeq(s, 1, at - 1)
           v == SubSeq(s, at + 1, n)
<1>1. n \in Nat /\ at \in 1..n /\ \A i \in 1..n : s[i] \in S
  OBVIOUS
<1>2. u \in Seq(S) /\ Len(u) = at - 1 /\ \A i \in 1..(at - 1) : u[i] = s[i]
  <2>1. \A i \in 1..(at - 1) : s[i] \in S
    BY <1>1
  <2>2. /\ u \in Seq(S)
        /\ Len(u) = IF 1 <= at - 1 THEN at - 1 - 1 + 1 ELSE 0
        /\ \A i \in 1..(at - 1 - 1 + 1) : u[i] = s[1 + i - 1]
    BY <1>1, <2>1, SubSeqProperties
  <2>. HIDE DEF u
  <2>3. at - 1 - 1 + 1 = at - 1 /\ \A i \in 1..(at - 1) : 1 + i - 1 = i
    BY <1>1
  <2>. QED BY <1>1, <2>2, <2>3
<1>3. v \in Seq(S) /\ Len(v) = n - at /\ \A i \in 1..(n - at) : v[i] = s[at + i]
  <2>1. \A i \in (at + 1)..n : s[i] \in S
    BY <1>1
  <2>2. /\ v \in Seq(S)
        /\ Len(v) = IF at + 1 <= n THEN n - (at + 1) + 1 ELSE 0
        /\ \A i \in 1..(n - (at + 1) + 1) : v[i] = s[at + 1 + i - 1]
    BY <1>1, <2>1, SubSeqProperties
  <2>. HIDE DEF v
  <2>3. n - (at + 1) + 1 = n - at /\ \A i \in 1..(n - at) : at + 1 + i - 1 = at + i
    BY <1>1
  <2>. QED BY <1>1, <2>2, <2>3
<1>4. RemoveAt(s, at) = u \o v
  BY DEF RemoveAt
<1>. HIDE DEF n, u, v
<1>5. /\ u \o v \in Seq(S) /\ Len(u \o v) = Len(u) + Len(v)
      /\ \A i \in 1..(Len(u) + Len(v)) :
            (u \o v)[i] = IF i <= Len(u) THEN u[i] ELSE v[i - Len(u)]
  BY <1>2, <1>3, ConcatProperties
<1>6. Len(u) + Len(v) = n - 1
  BY <1>1, <1>2, <1>3
<1>7. ASSUME NEW i \in 1..(n - 1)
      PROVE  (u \o v)[i] = s[IF i < at THEN i ELSE i + 1]
  <2>1. CASE i < at
    <3>1. i <= Len(u) /\ i \in 1..(at - 1)
      BY <1>1, <1>2, <2>1
    <3>. QED BY <1>2, <1>5, <1>6, <2>1, <3>1
  <2>2. CASE ~(i < at)
    <3>1. ~(i <= Len(u)) /\ i - Len(u) \in 1..(n - at) /\ at + (i - Len(u)) = i + 1
      BY <1>1, <1>2, <2>2
    <3>. QED BY <1>3, <1>5, <1>6, <2>2, <3>1
  <2>. QED BY <2>1, <2>2
<1>. QED BY <1>4, <1>5, <1>6, <1>7 DEF n

\* Off cuts out a hook of that id if there is one.
LEMMA OffRemoves ==
    ASSUME hooks \in Seq(Reg), NEW id
    PROVE  \/ id \notin Hooked /\ Off(id) = hooks
           \/ \E at \in DOMAIN hooks : hooks[at].id = id /\ Off(id) = RemoveAt(hooks, at)
<1> DEFINE I == {i \in 1..Len(hooks) : hooks[i].id = id}
           at == IF I # {} THEN Min(I) ELSE 0
<1>1. Len(hooks) \in Nat /\ DOMAIN hooks = 1..Len(hooks)
  OBVIOUS
<1>2. Off(id) = IF at = 0 THEN hooks ELSE RemoveAt(hooks, at)
  BY Zenon DEF Off, SelectInSeq
<1>3. CASE I = {}
  <2>1. id \notin Hooked
    BY <1>1, <1>3 DEF Hooked
  <2>. QED BY <1>2, <1>3, <2>1
<1>4. CASE I # {}
  <2>1. I \in SUBSET Nat
    BY <1>1
  <2>. HIDE DEF I
  <2>2. \E m \in I : \A k \in I : m <= k
    BY <1>4, <2>1, LeastExists
  <2>3. Min(I) \in I
    BY <2>2, Zenon DEF Min
  <2>4. at = Min(I)
    BY <1>4
  <2>5. at \in 1..Len(hooks) /\ hooks[at].id = id
    BY <2>3, <2>4 DEF I
  <2>. HIDE DEF at
  <2>6. at # 0 /\ at \in DOMAIN hooks
    BY <1>1, <2>5
  <2>. QED BY <1>2, <2>5, <2>6
<1>. QED BY <1>3, <1>4

LEMMA OffUnhooks ==
    ASSUME hooks \in Seq(Reg), Ids, NEW id, hooks' = Off(id)
    PROVE  hooks' \in Seq(Reg) /\ Ids' /\ Hooked' = Hooked \ {id}
<1>1. CASE id \notin Hooked /\ hooks' = hooks
  BY <1>1 DEF Ids, Hooked
<1>2. CASE \E at \in DOMAIN hooks : hooks[at].id = id /\ hooks' = RemoveAt(hooks, at)
  <2>1. PICK at \in DOMAIN hooks : hooks[at].id = id /\ hooks' = RemoveAt(hooks, at)
    BY <1>2
  <2>2. PICK n \in Nat : Len(hooks) = n + 1 /\ DOMAIN hooks = 1..(n + 1) /\ at \in 1..(n + 1)
    <3>1. Len(hooks) \in Nat /\ DOMAIN hooks = 1..Len(hooks) /\ at \in 1..Len(hooks)
      OBVIOUS
    <3>2. Len(hooks) - 1 \in Nat /\ Len(hooks) = (Len(hooks) - 1) + 1
      BY <3>1
    <3>. QED BY <3>1, <3>2
  <2> DEFINE From(i) == IF i < at THEN i ELSE i + 1
  <2>3. /\ RemoveAt(hooks, at) \in Seq(Reg)
        /\ Len(RemoveAt(hooks, at)) = Len(hooks) - 1
        /\ \A i \in 1..(Len(hooks) - 1) : RemoveAt(hooks, at)[i] = hooks[From(i)]
    BY RemovedAt
  <2>4. /\ hooks' \in Seq(Reg) /\ Len(hooks') = n
        /\ \A i \in 1..n : hooks'[i] = hooks[From(i)]
    BY <2>1, <2>2, <2>3
  <2>5. DOMAIN hooks' = 1..n
    BY <2>4
  <2>6. /\ \A i \in 1..n : From(i) \in 1..(n + 1) /\ From(i) # at
        /\ \A i, k \in 1..n : From(i) = From(k) => i = k
        /\ \A k \in 1..(n + 1) : k # at => \E i \in 1..n : From(i) = k
    <3>1. \A i \in 1..n : From(i) \in 1..(n + 1) /\ From(i) # at
      BY <2>2
    <3>2. \A i, k \in 1..n : From(i) = From(k) => i = k
      BY <2>2
    <3>3. ASSUME NEW k \in 1..(n + 1), k # at
          PROVE  \E i \in 1..n : From(i) = k
      <4>1. CASE k < at
        <5>1. k \in 1..n /\ From(k) = k
          BY <2>2, <4>1
        <5>. QED BY <5>1
      <4>2. CASE ~(k < at)
        <5>1. k - 1 \in 1..n /\ From(k - 1) = k
          BY <2>2, <3>3, <4>2
        <5>. QED BY <5>1
      <4>. QED BY <4>1, <4>2
    <3>. QED BY <3>1, <3>2, <3>3
  <2>. HIDE DEF From
  <2>7. Ids'
    <3>. SUFFICES ASSUME NEW i \in 1..n, NEW k \in 1..n, hooks'[i].id = hooks'[k].id
                  PROVE  i = k
      BY <2>5 DEF Ids
    <3>1. hooks[From(i)].id = hooks[From(k)].id
      BY <2>4
    <3>2. From(i) = From(k)
      BY <2>2, <2>6, <3>1 DEF Ids
    <3>. QED BY <2>6, <3>2
  <2>8. Hooked' = {hooks[From(i)].id : i \in 1..n}
    BY <2>4, <2>5 DEF Hooked
  <2>9. {hooks[From(i)].id : i \in 1..n} = Hooked \ {id}
    <3>1. ASSUME NEW i \in 1..n PROVE hooks[From(i)].id \in Hooked \ {id}
      <4>1. From(i) \in DOMAIN hooks /\ From(i) # at
        BY <2>2, <2>6
      <4>2. hooks[From(i)].id # id
        BY <2>1, <4>1 DEF Ids
      <4>. QED BY <4>1, <4>2 DEF Hooked
    <3>2. ASSUME NEW k \in DOMAIN hooks, hooks[k].id # id
          PROVE  \E i \in 1..n : hooks[k].id = hooks[From(i)].id
      <4>1. k \in 1..(n + 1) /\ k # at
        BY <2>1, <2>2, <3>2
      <4>2. PICK i \in 1..n : From(i) = k
        BY <2>6, <4>1
      <4>. QED BY <4>2
    <3>3. \A x : x \in {hooks[From(i)].id : i \in 1..n} => x \in Hooked \ {id}
      BY <3>1
    <3>4. \A x : x \in Hooked \ {id} => x \in {hooks[From(i)].id : i \in 1..n}
      BY <3>2 DEF Hooked
    <3>. QED BY <3>3, <3>4
  <2>. QED BY <2>4, <2>7, <2>8, <2>9
<1>. QED BY <1>1, <1>2, OffRemoves

\* The steps of the triggers leave all else alone.
TrigParts == UNCHANGED <<docs, stack, queues, waiting, close>>

LEMMA OthersStay ==
    ASSUME HInv, TrigParts, hooks' \in Seq(Reg)
    PROVE  Types' /\ Busy' /\ OneQueue' /\ NoneLost' /\ Barriers' /\ Passed'
<1>1. Types /\ Busy /\ OneQueue /\ NoneLost /\ Barriers /\ Passed
  BY DEF HInv
<1>2. UNCHANGED <<docs, stack, hookQ, workers, job, sent, finished, waiting, close>>
  BY DEF TrigParts, queues
<1>3. Types'
  BY <1>1, <1>2 DEF Types, Thread, Worker
<1>4. Busy'
  BY <1>1, <1>2 DEF Busy, Worker
<1>. QED BY <1>1, <1>2, <1>3, <1>4, QueuesStay

LEMMA TriggerKeeps ==
    ASSUME HInv, NEW r \in Triggers, CreateTrigger(r) \/ DeleteTrigger(r)
    PROVE  HInv'
<1>1. Ids /\ Hooking /\ hooks \in Seq(Reg)
  BY DEF HInv, Types
<1>2. TrigParts /\ hooks' = hooks /\ trigOp = NoOp
  BY DEF CreateTrigger, DeleteTrigger, TrigParts
<1>3. Ids'
  BY <1>1, <1>2 DEF Ids
<1>4. Hooked' = Hooked
  BY <1>2 DEF Hooked
<1>5. ASSUME NEW pc \in {"create", "delete"}
      PROVE  LET op == [pc |-> pc, r |-> r] IN
             op # NoOp /\ op.r = r /\ op.pc = pc /\ op \in [pc : {"create", "delete"}, r : Triggers]
  <2> DEFINE op == [pc |-> pc, r |-> r]
  <2>1. op.r = r /\ op.pc = pc /\ op \in [pc : {"create", "delete"}, r : Triggers]
    OBVIOUS
  <2>2. NoOp.pc = "free"
    BY DEF NoOp
  <2>. HIDE DEF op
  <2>3. op # NoOp
    BY <2>1, <2>2
  <2>. QED BY <2>1, <2>3 DEF op
<1>6. Hooking'
  <2>1. CASE CreateTrigger(r)
    <3>1. trigs' = trigs \union {r} /\ r \notin trigs /\ trigOp' = [pc |-> "create", r |-> r]
      BY <2>1 DEF CreateTrigger
    <3>2. /\ trigOp' # NoOp /\ trigOp'.r = r /\ trigOp'.pc = "create"
          /\ trigOp' \in [pc : {"create", "delete"}, r : Triggers]
      BY <1>5, <3>1
    <3>. QED BY <1>1, <1>2, <1>4, <3>1, <3>2 DEF Hooking
  <2>2. CASE DeleteTrigger(r)
    <3>1. trigs' = trigs \ {r} /\ r \in trigs /\ trigOp' = [pc |-> "delete", r |-> r]
      BY <2>2 DEF DeleteTrigger
    <3>2. /\ trigOp' # NoOp /\ trigOp'.r = r /\ trigOp'.pc = "delete"
          /\ trigOp' \in [pc : {"create", "delete"}, r : Triggers]
      BY <1>5, <3>1
    <3>. QED BY <1>1, <1>2, <1>4, <3>1, <3>2 DEF Hooking
  <2>. QED BY <2>1, <2>2
<1>. QED BY <1>1, <1>2, <1>3, <1>6, OthersStay DEF HInv

LEMMA RegisterKeeps ==
    ASSUME HInv, Register
    PROVE  HInv'
<1>1. Ids /\ Hooking /\ hooks \in Seq(Reg)
  BY DEF HInv, Types
<1>2. /\ TrigParts /\ trigs' = trigs /\ trigOp # NoOp /\ trigOp' = NoOp
      /\ hooks' = IF trigOp.pc = "create" THEN Registered(trigOp.r) ELSE Off(trigOp.r.id)
  BY DEF Register, TrigParts
<1>3. PICK r \in Triggers : r = trigOp.r
  BY <1>1, <1>2 DEF Hooking
<1>4. r \in Reg /\ trigOp.pc \in {"create", "delete"}
  BY <1>1, <1>2, HooksAssumption DEF Hooking
\* Only this trigger is hooked or unhooked: no other has its id.
<1>5. \A q \in Triggers : q.id = r.id => q = r
  BY HooksAssumption
<1>6. /\ trigs \subseteq Triggers
      /\ r \in trigs <=> trigOp.pc = "create"
      /\ r.id \in Hooked <=> trigOp.pc = "delete" /\ r \notin Disabled
      /\ \A q \in Triggers : q # r => (q \in trigs \ Disabled <=> q.id \in Hooked)
  BY <1>1, <1>2, <1>3 DEF Hooking
<1>7. CASE trigOp.pc = "create" /\ r \in Disabled
  <2>1. hooks' = hooks
    BY <1>2, <1>3, <1>7 DEF Registered
  <2>2. Ids' /\ Hooked' = Hooked
    BY <1>1, <2>1 DEF Ids, Hooked
  <2>3. Hooking'
    BY <1>2, <1>5, <1>6, <1>7, <2>2 DEF Hooking
  <2>. QED BY <1>1, <1>2, <2>1, <2>2, <2>3, OthersStay DEF HInv
<1>8. CASE trigOp.pc = "create" /\ r \notin Disabled
  <2>1. hooks' = Append(hooks, r) /\ r.id \notin Hooked
    BY <1>2, <1>3, <1>6, <1>8 DEF Registered
  <2>2. /\ hooks' \in Seq(Reg) /\ Len(hooks) \in Nat /\ Len(hooks') = Len(hooks) + 1
        /\ \A i \in 1..Len(hooks) : hooks'[i] = hooks[i]
        /\ hooks'[Len(hooks) + 1] = r
        /\ DOMAIN hooks = 1..Len(hooks)
    BY <1>1, <1>4, <2>1
  <2>3. DOMAIN hooks' = 1..(Len(hooks) + 1)
    BY <2>2
  <2>4. Hooked' = Hooked \union {r.id}
    <3>1. Hooked' = {hooks'[i].id : i \in 1..(Len(hooks) + 1)}
      BY <2>3 DEF Hooked
    <3>2. \A x : x \in Hooked' => x \in Hooked \union {r.id}
      BY <2>2, <3>1 DEF Hooked
    <3>3. \A x : x \in Hooked \union {r.id} => x \in Hooked'
      BY <2>2, <3>1 DEF Hooked
    <3>. QED BY <3>2, <3>3
  <2>5. Ids'
    <3>. SUFFICES ASSUME NEW i \in 1..(Len(hooks) + 1), NEW k \in 1..(Len(hooks) + 1),
                         hooks'[i].id = hooks'[k].id
                  PROVE  i = k
      BY <2>3 DEF Ids
    <3>1. \A m \in 1..Len(hooks) : hooks[m].id # r.id
      BY <2>1, <2>2 DEF Hooked
    <3>2. CASE i \in 1..Len(hooks) /\ k \in 1..Len(hooks)
      BY <1>1, <2>2, <3>2 DEF Ids
    <3>3. CASE i = Len(hooks) + 1 \/ k = Len(hooks) + 1
      BY <2>2, <3>1, <3>3
    <3>. QED BY <2>2, <3>2, <3>3
  <2>6. Hooking'
    BY <1>2, <1>5, <1>6, <1>8, <2>4 DEF Hooking
  <2>. QED BY <1>2, <2>2, <2>5, <2>6, OthersStay DEF HInv
<1>9. CASE trigOp.pc = "delete"
  <2>1. hooks' = Off(r.id)
    BY <1>2, <1>3, <1>9
  <2>2. hooks' \in Seq(Reg) /\ Ids' /\ Hooked' = Hooked \ {r.id}
    BY <1>1, <2>1, OffUnhooks
  <2>3. Hooking'
    BY <1>2, <1>5, <1>6, <1>9, <2>2 DEF Hooking
  <2>. QED BY <1>2, <2>2, <2>3, OthersStay DEF HInv
<1>. QED BY <1>4, <1>7, <1>8, <1>9

-----------------------------------------------------------------------------
(* The theorems *)

LEMMA HooksInit ==
    Init => HInv
<1>. SUFFICES ASSUME Init PROVE HInv
  OBVIOUS
<1>1. PICK st \in Starts : docs = st.docs /\ hooks = st.hooks
  BY DEF Init
<1>2. /\ docs \in [Coll -> Doc] /\ hooks \in Seq(Reg)
      /\ \A i, j \in DOMAIN hooks : hooks[i].id = hooks[j].id => i = j
      /\ \A i \in DOMAIN hooks, r \in Triggers : hooks[i].id # r.id
  BY <1>1, HooksAssumption
<1>3. /\ trigs = {} /\ trigOp = NoOp
      /\ stack = [t \in Thread |-> <<>>]
      /\ hookQ = 0 /\ workers = <<>>
      /\ job = [w \in Worker |-> 0]
      /\ waiting = [c \in Caller |-> NotWaiting]
      /\ close.pc = "open"
      /\ sent = 0 /\ finished = {}
  BY DEF Init, None
<1>4. MaxWorkers \in Nat
  BY HooksAssumption
<1>5. Types
  <2>1. <<>> \in Stacks(Len(workers))
    <3>1. <<>> \in Seq(Frames(0)) /\ Len(workers) = 0 /\ Len(<<>>) = 0
      BY <1>3
    <3>. QED BY <3>1 DEF Stacks
  <2>2. stack \in [Thread -> Stacks(Len(workers))]
    BY <1>3, <2>1
  <2>3. NotWaiting \in WaitingType(sent) /\ NotWaiting.pc = "no"
    BY NotWaitingFits
  <2>4. /\ waiting \in [Caller -> WaitingType(sent)]
        /\ \A c \in Caller : waiting[c].pc # "send"
    BY <1>3, <2>3
  <2>5. workers \in Seq(WorkerType(sent)) /\ Len(workers) = 0 /\ DOMAIN workers = {}
    BY <1>3
  <2>6. job \in [Worker -> 0..sent]
    BY <1>3
  <2>. QED BY <1>2, <1>3, <1>4, <2>2, <2>4, <2>5, <2>6 DEF Types
<1>6. Busy
  <2>1. Worker \subseteq Thread
    BY DEF Thread
  <2>. QED BY <1>3, <2>1 DEF Busy, None
<1>7. OneQueue /\ NoneLost /\ Barriers
  <2>1. Len(workers) = 0
    BY <1>3
  <2>. QED BY <1>3, <2>1 DEF OneQueue, NoneLost, Barriers, None
<1>8. Passed
  BY <1>3, NotWaitingFits DEF Passed, NotWaiting
<1>9. Ids /\ Hooking
  BY <1>2, <1>3 DEF Ids, Hooking, Hooked
<1>. QED BY <1>5, <1>6, <1>7, <1>8, <1>9 DEF HInv

LEMMA MutatingKeeps ==
    ASSUME HInv, NEW t \in Thread, Mutating(t)
    PROVE  HInv'
<1>1. Types /\ docs \in [Coll -> Doc]
  BY DEF HInv, Types
<1>2. CASE Begin(t)
  BY <1>1, <1>2, BeginMoves, MovesKeep DEF Begin, others
<1>3. CASE RunBefore(t)
  BY <1>1, <1>3, RunBeforeMoves, MovesKeep DEF RunBefore, others
<1>4. CASE Vetoed(t)
  BY <1>1, <1>4, VetoedMoves, MovesKeep DEF Vetoed, others
<1>5. CASE Apply(t)
  <2>1. UNCHANGED <<hooks, trigs, trigOp, hookQ, workers, sent, waiting, close>>
    BY <1>5 DEF Apply, others
  <2>. QED BY <1>1, <1>5, <2>1, ApplyMoves, MovesKeep
<1>6. CASE Fire(t)
  BY <1>1, <1>6, FireMoves, MovesKeep DEF Fire, queues, others
<1>7. CASE RunAfter(t)
  BY <1>1, <1>7, RunAfterMoves, MovesKeep DEF RunAfter, others
<1>8. CASE EnsureHookWorker(t)
  BY <1>8, EnsureKeeps
<1>9. CASE TakeQueue(t)
  BY <1>1, <1>9, TakeQueueMoves, MovesKeep DEF TakeQueue, others
<1>10. CASE Send(t)
  BY <1>10, SendKeeps
<1>11. CASE SendStopped(t)
  BY <1>1, <1>11, SendStoppedMoves, MovesKeep DEF SendStopped, others
<1>. QED BY <1>2, <1>3, <1>4, <1>5, <1>6, <1>7, <1>8, <1>9, <1>10, <1>11 DEF Mutating

LEMMA HooksStutter ==
    ASSUME HInv, UNCHANGED vars
    PROVE  HInv'
<1>1. /\ TrigParts /\ hooks' = hooks /\ trigs' = trigs /\ trigOp' = trigOp
      /\ Types /\ Ids /\ Hooking
  BY DEF vars, others, TrigParts, HInv
<1>2. hooks' \in Seq(Reg)
  BY <1>1 DEF Types
<1>. QED BY <1>1, <1>2, OthersStay, TriggersStay DEF HInv

LEMMA HooksNext ==
    HInv /\ [Next]_vars => HInv'
<1>. SUFFICES ASSUME HInv, [Next]_vars PROVE HInv'
  OBVIOUS
<1>1. CASE \E c \in Caller, call \in Calls : Call(c, call)
  BY <1>1, CallKeeps
<1>2. CASE \E t \in Thread : Mutating(t)
  BY <1>2, MutatingKeeps
<1>3. CASE \E c \in Caller : Wait(c) \/ Waiting(c)
  BY <1>3, WaitKeeps, WaitSendKeeps, WaitStoppedKeeps, WaitEndKeeps DEF Waiting
<1>4. CASE \E w \in Worker : Working(w)
  BY <1>4, TakeJobKeeps, EndWorkerKeeps DEF Working
<1>5. CASE Close \/ CloseJoined
  BY <1>5, CloseKeeps, CloseJoinedKeeps
<1>6. CASE \E r \in Triggers : CreateTrigger(r) \/ DeleteTrigger(r)
  BY <1>6, TriggerKeeps
<1>7. CASE Register
  BY <1>7, RegisterKeeps
<1>8. CASE UNCHANGED vars
  BY <1>8, HooksStutter
<1>. QED BY <1>1, <1>2, <1>3, <1>4, <1>5, <1>6, <1>7, <1>8 DEF Next

\* HInv is what every reachable state has.
LEMMA HInvAlways ==
    Spec => []HInv
BY HooksInit, HooksNext, PTL DEF Spec

\* A caller that WaitAsyncHooks lets go at its barrier is owed no hook that was
\* queued before, unless Close came; nested hooks stay within maxHookDepth and
\* name none twice, and no queue holds more than hookQueueSize.
THEOREM WaitIsDone ==
    Spec => []WaitMeansDone
<1>1. HInv => WaitMeansDone
  <2>. SUFFICES ASSUME HInv PROVE WaitMeansDone
    OBVIOUS
  <2>1. Types /\ OneQueue /\ Passed
    BY DEF HInv
  <2>2. ASSUME NEW t \in Thread, NEW i \in DOMAIN stack[t]
        PROVE  Len(stack[t][i].chain) <= MaxHookDepth /\ IsInjective(stack[t][i].chain)
    <3> DEFINE F == Frames(Len(workers))
    <3>1. stack[t] \in Seq(F)
      BY <2>1 DEF Types, Stacks
    <3>. HIDE DEF F
    <3>2. stack[t][i] \in F
      BY <2>2, <3>1, ElementOfSeq
    <3>. QED BY <3>2 DEF F, Frames, FrameFits, Nested
  <2>3. TypeOK
    BY <2>1, <2>2 DEF Types, OneQueue, TypeOK
  <2>4. \A c \in Caller : waiting[c].pc = "passed" =>
            waiting[c].owed \subseteq finished \/ close.pc # "open"
    BY <2>1 DEF Passed
  <2>. QED BY <2>3, <2>4 DEF WaitMeansDone
<1>. QED BY <1>1, HInvAlways, PTL

\* While nobody holds trigMu, s.hooks has the hook of a trigger just when the
\* trigger is in _triggers and enabled, whatever CreateTrigger and
\* DeleteTrigger did.
THEOREM TriggersStayHooked ==
    Spec => []TriggersAreHooked
<1>1. HInv => TriggersAreHooked
  BY DEF HInv, Hooking, TriggersAreHooked
<1>. QED BY <1>1, HInvAlways, PTL

\* An update in Apply leaves its document as asked, or what was previewed has
\* changed; if it is refused the mutation below is not one that was applied.
LEMMA ApplyTakesEffect ==
    ASSUME HInv, NEW t \in Thread, Apply(t), Top(t).op = "update", Applied(t)
    PROVE  "stale" \in exposed' \/ docs'[Top(t).coll] = Top(t).asked
<1> DEFINE f == Top(t)
           n == Len(workers)
<1>1. Types
  BY DEF HInv
<1>2. n \in Nat /\ f \in Frames(n) /\ f.pc = "apply" /\ stack[t] # <<>>
  BY <1>1, TopFits DEF Apply
<1>3. f \in FrameType /\ FrameFits(f, n)
  BY <1>2 DEF Frames
<1>4. f.coll \in Coll /\ docs \in [Coll -> Doc] /\ stack \in [Thread -> Stacks(n)]
  BY <1>1, <1>3 DEF FrameType, Types
<1>5. (f.val # None /\ f.val = f.asked) \/ (f.val = None /\ f.asked = f.old)
  BY <1>2, <1>3 DEF FrameFits
<1>6. ~Return(t, FALSE)
  <2>. SUFFICES ASSUME Return(t, FALSE) PROVE FALSE
    OBVIOUS
  <2> DEFINE s == Returned(t, FALSE)
  <2>1. s \in Stacks(n) /\ (s # <<>> => Last(s).pc # "fire")
    BY <1>1, <1>2, ReturnedFits
  <2>2. stack' = [stack EXCEPT ![t] = s]
    BY DEF Return
  <2>. HIDE DEF s
  <2>3. stack'[t] = s
    BY <1>4, <2>2
  <2>. QED BY <2>1, <2>3 DEF Applied
<1>7. /\ docs' = [docs EXCEPT ![f.coll] = IF f.op = "delete" THEN None
                                          ELSE IF f.val = None THEN docs[f.coll] ELSE f.val]
      /\ exposed' = IF f.val = None /\ f.op = "update" /\ f.old # docs[f.coll]
                    THEN exposed \union {"stale"} ELSE exposed
  BY <1>6, Zenon DEF Apply
<1>8. f.op = "update"
  OBVIOUS
<1>. HIDE DEF f
<1>9. docs'[f.coll] = IF f.val = None THEN docs[f.coll] ELSE f.val
  BY <1>4, <1>7, <1>8
<1>10. "stale" \in exposed' \/ docs'[f.coll] = f.asked
  BY <1>5, <1>7, <1>8, <1>9
<1>. QED BY <1>10 DEF f

\* No other step applies a mutation.
LEMMA OnlyApplyApplies ==
    ASSUME HInv, Next, NEW t \in Thread, In(t, "apply"), Applied(t)
    PROVE  Apply(t)
<1>1. Types /\ Busy /\ stack \in [Thread -> Stacks(Len(workers))]
  BY DEF HInv, Types
<1>2. stack[t] # <<>> /\ Last(stack[t]).pc = "apply"
  BY DEF In, Top
<1>3. ASSUME NEW u \in Thread, u # t, NEW s, stack' = [stack EXCEPT ![u] = s]
      PROVE  stack'[t] = stack[t]
  BY <1>1, <1>3
<1>4. stack'[t] # stack[t]
  BY <1>2 DEF Applied
<1>5. CASE \E c \in Caller, call \in Calls : Call(c, call)
  <2>1. PICK c \in Caller, call \in Calls : Call(c, call)
    BY <1>5
  <2>2. stack[c] = <<>> /\ stack' = [stack EXCEPT ![c] = <<Frame(call, <<>>)>>] /\ c \in Thread
    BY <2>1 DEF Call, Thread
  <2>. QED BY <1>2, <1>3, <1>4, <2>2
<1>6. CASE \E u \in Thread : Mutating(u)
  <2>1. PICK u \in Thread : Mutating(u)
    BY <1>6
  <2>2. CASE u # t
    <3>1. CASE EnsureHookWorker(u) \/ Send(u)
      <4>1. \E s : stack' = [stack EXCEPT ![u] = s]
        BY <3>1 DEF EnsureHookWorker, Send, SetTop
      <4>. QED BY <1>3, <1>4, <2>2, <4>1
    <3>2. CASE ~(EnsureHookWorker(u) \/ Send(u))
      <4>1. Moves(u)
        BY <1>1, <2>1, <3>2, BeginMoves, RunBeforeMoves, VetoedMoves, ApplyMoves, FireMoves,
           RunAfterMoves, TakeQueueMoves, SendStoppedMoves DEF Mutating
      <4>. QED BY <1>1, <1>4, <2>2, <4>1, MovesGive
    <3>. QED BY <3>1, <3>2
  <2>3. CASE u = t
    <3>1. Top(t).pc = "apply"
      BY DEF In
    <3>. QED BY <2>1, <2>3, <3>1 DEF Mutating, In, Begin, RunBefore, Vetoed, Fire, RunAfter,
                EnsureHookWorker, TakeQueue, Send, SendStopped
  <2>. QED BY <2>2, <2>3
<1>7. CASE \E w \in Worker : Working(w)
  <2>1. PICK w \in Worker : Working(w)
    BY <1>7
  <2>2. stack[w] = <<>> /\ w \in Thread
    BY <2>1 DEF Working, TakeJob, EndWorker, Idle, Thread
  <2>3. stack' = stack \/ \E s : stack' = [stack EXCEPT ![w] = s]
    BY <2>1, Zenon DEF Working, TakeJob, EndWorker
  <2>. QED BY <1>2, <1>3, <1>4, <2>2, <2>3
<1>8. CASE \E c \in Caller : Wait(c) \/ Waiting(c)
  BY <1>4, <1>8 DEF Wait, Waiting, WaitSend, WaitStopped, WaitEnd
<1>9. CASE Close \/ CloseJoined \/ Register
  BY <1>4, <1>9 DEF Close, CloseJoined, Register
<1>10. CASE \E r \in Triggers : CreateTrigger(r) \/ DeleteTrigger(r)
  BY <1>4, <1>10 DEF CreateTrigger, DeleteTrigger
<1>. QED BY <1>5, <1>6, <1>7, <1>8, <1>9, <1>10 DEF Next

\* An Update that is applied leaves its document as the caller and the hooks
\* before it asked, for any hooks, unless the document previewed has changed.
THEOREM UpdatesTakeEffect ==
    Spec => UpdateTakesEffect
<1> DEFINE TakesEffect ==
        \A t \in Thread :
            In(t, "apply") /\ Top(t).op = "update" /\ Applied(t)
                => "stale" \in exposed' \/ docs'[Top(t).coll] = Top(t).asked
<1>1. ASSUME HInv, Next
      PROVE  TakesEffect
  BY <1>1, OnlyApplyApplies, ApplyTakesEffect
<1>2. HInv /\ [Next]_vars => [TakesEffect]_vars
  BY <1>1
<1>. QED BY <1>2, HInvAlways, PTL DEF Spec, UpdateTakesEffect
=============================================================================
