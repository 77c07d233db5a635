------------------------------- MODULE Hooks -------------------------------
(***************************************************************************)
(* Hooks and triggers of a Store: the mutations that run them before and   *)
(* after they are applied (db/store.go), the bounded queue and the worker  *)
(* of the asynchronous ones (db/hooks.go), and the declarative triggers    *)
(* that are kept in _triggers and hooked in (db/triggers.go).              *)
(*                                                                         *)
(* A thread is a caller or a worker, and its stack holds the mutations it  *)
(* is in: a hook may call the next one. A document is the value of its one *)
(* field, a collection holds one document, and permissions are in Rbac. A  *)
(* hook does one thing: "note" leaves the Store alone, "veto" returns an    *)
(* error, "set" is a trigger's set, "call" a mutation.                      *)
(***************************************************************************)
EXTENDS Integers, SequencesExt

CONSTANTS
    Coll,         \* collections, each of one document
    Value,        \* values of its field
    Caller,       \* goroutines that call the Store
    Calls,        \* the mutations they may call
    Starts,       \* what an instance begins with: hooks, documents, and bounds on the calls
    Triggers,     \* the triggers that may be created: hooks
    Disabled,     \* those of them whose Enabled is false
    MaxHookDepth, \* maxHookDepth
    HookQueueSize,\* hookQueueSize
    MaxWorkers    \* bound: workers started

None == 0   \* no document, or nil
Null == -1  \* the document without its field

Doc == {None, Null} \union Value

Worker == 1..MaxWorkers

Op == {"insert", "upsert", "update", "delete"}
Mutation == [op : Op, coll : Coll, val : {None} \union Value]

\* On and OnAsync, and a trigger's filter and action. The ids are those of
\* s.hookSeq.
Reg == [id : Nat, event : {"before", "after"} \X Op, coll : Coll \union {"*"},
        async : BOOLEAN, filter : SUBSET Value,
        act : {"note", "veto", "set", "call"}, val : Value, call : Mutation]

ASSUME HooksAssumption ==
    /\ Value \cap {None, Null} = {}
    /\ {MaxHookDepth, HookQueueSize, MaxWorkers} \subseteq Nat \ {0}
    /\ Caller \cap Worker = {}
    /\ Calls \subseteq Mutation
    /\ \A call \in Calls : call.val = None => call.op = "delete"
    /\ Triggers \subseteq Reg /\ Disabled \subseteq Triggers
    /\ \A r1, r2 \in Triggers : r1.id = r2.id => r1 = r2
    /\ \A st \in Starts :
          /\ st.docs \in [Coll -> Doc]
          /\ st.left \in [{"calls", "waits", "closes", "trigs"} -> Nat]
          /\ st.hooks \in Seq(Reg)
          /\ \A i, j \in DOMAIN st.hooks : st.hooks[i].id = st.hooks[j].id => i = j
          /\ \A i \in DOMAIN st.hooks, r \in Triggers : st.hooks[i].id # r.id

Thread == Caller \union Worker

VARIABLES
    docs,     \* the documents
    hooks,    \* s.hooks
    trigs,    \* the triggers in _triggers
    trigOp,   \* the CreateTrigger or DeleteTrigger that holds trigMu
    stack,    \* the mutations each thread is in
    hookQ,    \* s.hookQ: the worker whose queue it is, or None
    workers,  \* the queue of each worker, and whether it was stopped and has ended
    job,      \* the job each worker runs
    waiting,  \* the callers in WaitAsyncHooks
    close,    \* Close
    sent, finished, \* how many jobs were queued, and which have run
    left,     \* what is left of the bounds
    exposed   \* known faults of the code this store has run into

queues == <<hookQ, workers, job, sent, finished>>
others == <<trigs, trigOp, waiting, close>>
vars == <<docs, hooks, stack, queues, others, left, exposed>>

-----------------------------------------------------------------------------
(* Hooks *)

Before(op) == <<"before", op>>
After(op) == <<"after", op>>

\* matchHooks: its loop over s.hooks
Matching(event, coll) ==
    LET out[i \in 0..Len(hooks)] ==
            IF i = 0 THEN <<>>
            ELSE IF hooks[i].event = event /\ hooks[i].coll \in {"*", coll}
            THEN Append(out[i - 1], hooks[i])
            ELSE out[i - 1]
    IN out[Len(hooks)]

\* beginHookErr: the depth, and the hooks this one is nested in.
MayBegin(chain, r) ==
    /\ Len(chain) < MaxHookDepth
    /\ r.id \notin ToSet(chain)

\* runTrigger: a filter is asked of the document, or else of the old one; if
\* there is neither, the trigger does nothing.
Target(doc, old) == IF doc # None THEN doc ELSE old

Passes(r, doc, old) == r.filter = {} \/ Target(doc, old) \in r.filter

\* After an event an error is ignored, so a veto does nothing.
CallsOn(r, doc, old) == Passes(r, doc, old) /\ r.act \in {"call", "set"}

\* The mutation a hook calls. A "set" after the event updates the document.
CallOf(r, coll, doc) ==
    IF r.act = "set" THEN [op |-> "update", coll |-> coll, val |-> r.val]
    ELSE [op |-> r.call.op, coll |-> r.call.coll,
          val |-> IF r.call.val # None THEN r.call.val   \* else {"$get": ...}
                  ELSE IF doc = None THEN Null ELSE doc]

Frame(call, chain) ==
    [op |-> call.op, coll |-> call.coll, val |-> call.val, asked |-> call.val,
     chain |-> chain, pc |-> "start", todo |-> <<>>, old |-> None, q |-> None]

-----------------------------------------------------------------------------
(* A thread's mutations *)

Top(t) == Last(stack[t])
In(t, pc) == stack[t] # <<>> /\ Top(t).pc = pc

SetTop(t, f) == stack' = [stack EXCEPT ![t] = Front(@) \o <<f>>]

\* The hook of the frame is done and the next one is up.
Advanced(f, pc) == [f EXCEPT !.todo = Tail(@), !.pc = pc]

Push(t, parent, call, chain) ==
    stack' = [stack EXCEPT ![t] = Front(@) \o <<parent, Frame(call, chain)>>]

\* The mutation returns to the hook that called it, which returns the error:
\* before an event that is a veto, after it the error is ignored.
Returned(t, ok) ==
    LET under == Front(stack[t]) IN
    IF under = <<>> THEN <<>>
    ELSE LET f == Last(under) IN
         Front(under) \o
            <<IF f.pc = "in after" THEN Advanced(f, "after")
              ELSE IF ok THEN Advanced(f, "before") ELSE [f EXCEPT !.pc = "vetoed"]>>

\* A worker whose job is done with goes on to the next one.
Return(t, ok) ==
    /\ stack' = [stack EXCEPT ![t] = Returned(t, ok)]
    /\ IF t \in Worker /\ Len(stack[t]) = 1
       THEN /\ finished' = finished \union {job[t]}
            /\ job' = [job EXCEPT ![t] = None]
       ELSE UNCHANGED <<finished, job>>

Call(c, call) ==
    /\ left.calls > 0
    /\ left' = [left EXCEPT !.calls = @ - 1]
    /\ stack[c] = <<>> /\ waiting[c].pc = "no"
    /\ stack' = [stack EXCEPT ![c] = <<Frame(call, <<>>)>>]
    /\ UNCHANGED <<docs, hooks, queues, others, exposed>>

\* insertDocFrame, upsertDocFrame, updateDocFrame, deleteDocFrame: with hooks
\* before the event, the document is previewed under RLock.
Begin(t) ==
    /\ In(t, "start")
    /\ LET f == Top(t)
           regs == Matching(Before(f.op), f.coll)
           there == docs[f.coll] # None IN
       IF regs = <<>>
       THEN SetTop(t, [f EXCEPT !.pc = "apply"]) /\ UNCHANGED <<finished, job>>
       ELSE IF (f.op = "insert" /\ there) \/ (f.op \in {"update", "delete"} /\ ~there)
       THEN Return(t, FALSE)
       ELSE /\ SetTop(t, [f EXCEPT !.pc = "before", !.todo = regs,
                                   !.old = IF f.op = "insert" THEN None ELSE docs[f.coll]])
            /\ UNCHANGED <<finished, job>>
    /\ UNCHANGED <<docs, hooks, hookQ, workers, sent, others, left, exposed>>

\* Mutant of Patch: what a hook has set is dropped.
PatchForgets(f) == IF f.op = "update" /\ f.val # f.asked THEN None ELSE f.val

\* updateDocFrame: what the merged document changes of the one previewed, so
\* None if it is the same. (equalJSON, which panics on arrays and objects,
\* store.go:1530, compares the one scalar that a document has here.)
Patch(f) == IF f.op = "update" /\ f.val = f.old THEN None ELSE f.val

\* runBeforeHooks
RunBefore(t) ==
    /\ In(t, "before")
    /\ LET f == Top(t) IN
       IF f.todo = <<>>
       THEN /\ SetTop(t, [f EXCEPT !.pc = "apply", !.val = Patch(f), !.asked = f.val])
            /\ UNCHANGED <<finished, job>>
       ELSE LET r == Head(f.todo)
                doc == IF f.op = "delete" THEN None ELSE f.val IN
            IF ~MayBegin(f.chain, r) THEN Return(t, FALSE)
            ELSE IF ~Passes(r, doc, f.old) \/ r.act = "note" \/ (r.act = "set" /\ doc = None)
            THEN SetTop(t, Advanced(f, "before")) /\ UNCHANGED <<finished, job>>
            ELSE IF r.act = "veto" THEN Return(t, FALSE)
            ELSE /\ IF r.act = "set"
                    THEN SetTop(t, [Advanced(f, "before") EXCEPT !.val = r.val])
                    ELSE Push(t, [f EXCEPT !.pc = "in before"],
                              CallOf(r, f.coll, doc), Append(f.chain, r.id))
                 /\ UNCHANGED <<finished, job>>
    /\ UNCHANGED <<docs, hooks, hookQ, workers, sent, others, left, exposed>>

Vetoed(t) ==
    /\ In(t, "vetoed")
    /\ Return(t, FALSE)
    /\ UNCHANGED <<docs, hooks, hookQ, workers, sent, others, left, exposed>>

\* insertApply, upsertApply, updateApply, deleteApply: all is asked again
\* under s.mu, but an update is the patch of the document that was previewed.
Apply(t) ==
    /\ In(t, "apply")
    /\ LET f == Top(t)
           there == docs[f.coll] # None IN
       IF (f.op = "insert" /\ there) \/ (f.op \in {"update", "delete"} /\ ~there)
       THEN Return(t, FALSE) /\ UNCHANGED <<docs, exposed>>
       ELSE /\ docs' = [docs EXCEPT ![f.coll] = IF f.op = "delete" THEN None
                                                ELSE IF f.val = None THEN @ ELSE f.val]
            /\ exposed' = IF f.val = None /\ f.op = "update" /\ f.old # docs[f.coll]
                          THEN exposed \union {"stale"} ELSE exposed
            /\ SetTop(t, [f EXCEPT !.pc = "fire"])
            /\ UNCHANGED <<finished, job>>
    /\ UNCHANGED <<hooks, hookQ, workers, sent, others, left>>

\* queueAfterHook; the hooks of an update get the document as it is by now, or
\* the patch if it is gone.
Fire(t) ==
    /\ In(t, "fire")
    /\ LET f == Top(t)
           regs == Matching(After(f.op), f.coll)
           doc == IF f.op = "update" /\ docs[f.coll] # None THEN docs[f.coll] ELSE f.val IN
       SetTop(t, [f EXCEPT !.pc = "after", !.todo = regs,
                           !.val = IF f.op = "delete" THEN None
                                   ELSE IF doc = None THEN Null ELSE doc])
    /\ UNCHANGED <<docs, hooks, queues, others, left, exposed>>

\* runAfterHooksInline
RunAfter(t) ==
    /\ In(t, "after")
    /\ LET f == Top(t) IN
       IF f.todo = <<>> THEN Return(t, TRUE)
       ELSE LET r == Head(f.todo) IN
            /\ ~r.async
            /\ IF MayBegin(f.chain, r) /\ CallsOn(r, f.val, f.old)
               THEN Push(t, [f EXCEPT !.pc = "in after"],
                         CallOf(r, f.coll, f.val), Append(f.chain, r.id))
               ELSE SetTop(t, Advanced(f, "after"))
            /\ UNCHANGED <<finished, job>>
    /\ UNCHANGED <<docs, hooks, hookQ, workers, sent, others, left, exposed>>

-----------------------------------------------------------------------------
(* The queue *)

NewWorker == [q |-> <<>>, stop |-> FALSE, on |-> TRUE]

Started(w) == w <= Len(workers)

\* ensureHookWorker: a worker is started if there is none, after Close too.
EnsureHookWorker(t) ==
    /\ In(t, "after") /\ Top(t).todo # <<>> /\ Head(Top(t).todo).async
    /\ IF hookQ # None THEN UNCHANGED <<hookQ, workers>>
       ELSE /\ Len(workers) < MaxWorkers
            /\ workers' = Append(workers, NewWorker)
            /\ hookQ' = Len(workers) + 1
    /\ SetTop(t, [Top(t) EXCEPT !.pc = "queue"])
    /\ UNCHANGED <<docs, hooks, job, sent, finished, others, left, exposed>>

\* The lock is taken again: the queue may be gone, and the other hooks of the
\* event are passed over then.
TakeQueue(t) ==
    /\ In(t, "queue")
    /\ IF hookQ = None THEN Return(t, TRUE)
       ELSE /\ SetTop(t, [Top(t) EXCEPT !.pc = "send", !.q = hookQ])
            /\ UNCHANGED <<finished, job>>
    /\ UNCHANGED <<docs, hooks, hookQ, workers, sent, others, left, exposed>>

\* Mutant of HasRoom: one place is kept free.
HasRoomBut(w) == Len(workers[w].q) + 1 < HookQueueSize

HasRoom(w) == Len(workers[w].q) < HookQueueSize

\* The select of queueAfterHook: it waits while the queue is full.
Send(t) ==
    /\ In(t, "send")
    /\ LET f == Top(t)
           r == Head(f.todo) IN
       /\ HasRoom(f.q)
       /\ sent' = sent + 1
       /\ workers' = [workers EXCEPT ![f.q].q = Append(@,
              [n |-> sent + 1, reg |-> r, coll |-> f.coll, doc |-> f.val,
               old |-> f.old, op |-> f.op, chain |-> f.chain])]
       /\ SetTop(t, [Advanced(f, "after") EXCEPT !.q = None])
    /\ UNCHANGED <<docs, hooks, hookQ, job, finished, others, left, exposed>>

\* Mutant of SeesStop: the sender only waits for room.
SeesNoStop(w) == FALSE

SeesStop(w) == workers[w].stop

SendStopped(t) ==
    /\ In(t, "send") /\ SeesStop(Top(t).q)
    /\ Return(t, TRUE)
    /\ UNCHANGED <<docs, hooks, hookQ, workers, sent, others, left, exposed>>

\* Mutant of Idle: a job is not waited for.
IdleOrNot(w) == Started(w) /\ workers[w].on

Idle(w) == Started(w) /\ workers[w].on /\ stack[w] = <<>>

IsBarrier(j) == j.n = None

\* hookWorker takes a job. (Go picks either case of the select if the worker
\* was stopped and its queue is not empty.)
TakeJob(w) ==
    /\ Idle(w) /\ workers[w].q # <<>>
    /\ LET j == Head(workers[w].q) IN
       /\ workers' = [workers EXCEPT ![w].q = Tail(@)]
       /\ IF IsBarrier(j)
          THEN /\ waiting' = [waiting EXCEPT ![j.for].pc = "passed"]
               /\ UNCHANGED <<stack, job, finished>>
          ELSE /\ IF MayBegin(j.chain, j.reg) /\ CallsOn(j.reg, j.doc, j.old)
                  THEN /\ stack' = [stack EXCEPT ![w] =
                              <<Frame(CallOf(j.reg, j.coll, j.doc), Append(j.chain, j.reg.id))>>]
                       /\ job' = [job EXCEPT ![w] = j.n]
                       /\ UNCHANGED finished
                  ELSE finished' = finished \union {j.n} /\ UNCHANGED <<stack, job>>
               /\ UNCHANGED waiting
    /\ UNCHANGED <<docs, hooks, trigs, trigOp, close, hookQ, sent, left, exposed>>

\* Mutant of MayEnd: a worker that has nothing to do ends.
MayEndIdle(w) == workers[w].q = <<>>

MayEnd(w) == workers[w].stop

EndWorker(w) ==
    /\ Idle(w) /\ MayEnd(w)
    /\ workers' = [workers EXCEPT ![w].on = FALSE]
    /\ UNCHANGED <<docs, hooks, stack, others, hookQ, job, sent, finished, left, exposed>>

-----------------------------------------------------------------------------
(* WaitAsyncHooks and Close *)

NotWaiting == [pc |-> "no", q |-> None, owed |-> {}]

\* The jobs that are to run when the call begins.
Wait(c) ==
    /\ left.waits > 0
    /\ left' = [left EXCEPT !.waits = @ - 1]
    /\ stack[c] = <<>> /\ waiting[c].pc = "no"
    /\ waiting' = [waiting EXCEPT ![c] =
                     IF hookQ = None THEN NotWaiting
                     ELSE [pc |-> "send", q |-> hookQ, owed |-> (1..sent) \ finished]]
    /\ UNCHANGED <<docs, hooks, stack, queues, trigs, trigOp, close, exposed>>

WaitSend(c) ==
    /\ waiting[c].pc = "send"
    /\ LET w == waiting[c].q IN
       /\ HasRoom(w)
       /\ workers' = [workers EXCEPT ![w].q = Append(@, [n |-> None, for |-> c])]
    /\ waiting' = [waiting EXCEPT ![c].pc = "barrier"]
    /\ UNCHANGED <<docs, hooks, stack, hookQ, job, sent, finished,
                   trigs, trigOp, close, left, exposed>>

WaitStopped(c) ==
    /\ waiting[c].pc = "send" /\ SeesStop(waiting[c].q)
    /\ waiting' = [waiting EXCEPT ![c] = NotWaiting]
    /\ UNCHANGED <<docs, hooks, stack, queues, trigs, trigOp, close, left, exposed>>

\* The barrier was reached.
WaitEnd(c) ==
    /\ waiting[c].pc = "passed"
    /\ waiting' = [waiting EXCEPT ![c] = NotWaiting]
    /\ UNCHANGED <<docs, hooks, stack, queues, trigs, trigOp, close, left, exposed>>

\* stopHookWorker, of Close
Close ==
    /\ left.closes > 0
    /\ left' = [left EXCEPT !.closes = @ - 1]
    /\ close.pc = "open"
    /\ hookQ' = None
    /\ IF hookQ = None
       THEN close' = [pc |-> "closed", w |-> None] /\ UNCHANGED workers
       ELSE /\ workers' = [workers EXCEPT ![hookQ].stop = TRUE]
            /\ close' = [pc |-> "joins", w |-> hookQ]
    /\ UNCHANGED <<docs, hooks, stack, job, sent, finished, trigs, trigOp, waiting, exposed>>

\* It waits for the worker to end; the flush that follows is in StoreFlush.
CloseJoined ==
    /\ close.pc = "joins" /\ ~workers[close.w].on
    /\ close' = [pc |-> "closed", w |-> None]
    /\ UNCHANGED <<docs, hooks, stack, queues, trigs, trigOp, waiting, left, exposed>>

-----------------------------------------------------------------------------
(* Triggers *)

NoOp == [pc |-> "free"]

Hooked == {hooks[i].id : i \in DOMAIN hooks}

\* CreateTrigger: adminInsert, then registerTriggerHook of an enabled one, both
\* under trigMu. (Open has loaded the triggers that were saved: none.)
CreateTrigger(r) ==
    /\ left.trigs > 0
    /\ left' = [left EXCEPT !.trigs = @ - 1]
    /\ trigOp = NoOp
    /\ r \notin trigs
    /\ trigs' = trigs \union {r}
    /\ trigOp' = [pc |-> "create", r |-> r]
    /\ UNCHANGED <<docs, hooks, stack, queues, waiting, close, exposed>>

\* DeleteTrigger: adminDelete, then Off.
DeleteTrigger(r) ==
    /\ left.trigs > 0
    /\ left' = [left EXCEPT !.trigs = @ - 1]
    /\ trigOp = NoOp
    /\ r \in trigs
    /\ trigs' = trigs \ {r}
    /\ trigOp' = [pc |-> "delete", r |-> r]
    /\ UNCHANGED <<docs, hooks, stack, queues, waiting, close, exposed>>

\* Mutant of Registered: Enabled is not asked.
RegisteredAll(r) == Append(hooks, r)

\* t.enabled(), and registerTriggerHook with On or OnAsync.
Registered(r) == IF r \in Disabled THEN hooks ELSE Append(hooks, r)

\* The first hook with that id is cut out; a disabled trigger has none.
Off(id) ==
    LET at == SelectInSeq(hooks, LAMBDA r : r.id = id)
    IN IF at = 0 THEN hooks ELSE RemoveAt(hooks, at)

\* What follows adminInsert or adminDelete.
Register ==
    /\ trigOp # NoOp
    /\ hooks' = IF trigOp.pc = "create" THEN Registered(trigOp.r)
                ELSE Off(trigOp.r.id)
    /\ trigOp' = NoOp
    /\ UNCHANGED <<docs, stack, queues, trigs, waiting, close, left, exposed>>

-----------------------------------------------------------------------------
Init ==
    /\ \E st \in Starts : docs = st.docs /\ hooks = st.hooks /\ left = st.left
    /\ trigs = {} /\ trigOp = NoOp
    /\ stack = [t \in Thread |-> <<>>]
    /\ hookQ = None /\ workers = <<>>
    /\ job = [w \in Worker |-> None]
    /\ waiting = [c \in Caller |-> NotWaiting]
    /\ close = [pc |-> "open", w |-> None]
    /\ sent = 0 /\ finished = {}
    /\ exposed = {}

Mutating(t) ==
    \/ Begin(t) \/ RunBefore(t) \/ Vetoed(t) \/ Apply(t) \/ Fire(t) \/ RunAfter(t)
    \/ EnsureHookWorker(t) \/ TakeQueue(t) \/ Send(t) \/ SendStopped(t)

Waiting(c) == WaitSend(c) \/ WaitStopped(c) \/ WaitEnd(c)

Working(w) == TakeJob(w) \/ EndWorker(w)

Next ==
    \/ \E c \in Caller, call \in Calls : Call(c, call)
    \/ \E t \in Thread : Mutating(t)
    \/ \E c \in Caller : Wait(c) \/ Waiting(c)
    \/ \E w \in Worker : Working(w)
    \/ Close \/ CloseJoined
    \/ \E r \in Triggers : CreateTrigger(r) \/ DeleteTrigger(r)
    \/ Register

\* Go runs every goroutine that can go on; nobody need call anything.
Fairness ==
    /\ \A t \in Thread : WF_vars(Mutating(t))
    /\ \A c \in Caller : WF_vars(Waiting(c))
    /\ \A w \in Worker : WF_vars(Working(w))
    /\ WF_vars(CloseJoined)
    /\ WF_vars(Register)

Spec == Init /\ [][Next]_vars
FairSpec == Spec /\ Fairness

-----------------------------------------------------------------------------
(* Properties *)

\* Nested mutations stay within the depth and name no hook twice, on the
\* stacks and in the queues, which hold no more than the channel has room for
\* (beginHookErr, hooks.go:179-196; the bounded FIFO, hooks.go:22-23).
TypeOK ==
    /\ docs \in [Coll -> Doc]
    /\ \A t \in Thread : \A i \in DOMAIN stack[t] :
          Len(stack[t][i].chain) <= MaxHookDepth /\ IsInjective(stack[t][i].chain)
    /\ \A w \in DOMAIN workers : Len(workers[w].q) <= HookQueueSize
    /\ finished \subseteq 1..sent
    /\ hookQ # None => workers[hookQ].on

Applied(t) == LET after == stack[t]' IN after # <<>> /\ Last(after).pc = "fire"

\* An Update that was applied has left its document as the caller and the
\* hooks before it asked. Known exception: with a hook before it, the patch is
\* what differs from the document previewed, and a mutation in between makes
\* that another document (store.go:520-587).
UpdateTakesEffect ==
    [][\A t \in Thread :
        In(t, "apply") /\ Top(t).op = "update" /\ Applied(t)
            => "stale" \in exposed' \/ docs'[Top(t).coll] = Top(t).asked]_vars

\* When WaitAsyncHooks returns from its barrier, every hook that was queued
\* when it was called has run to its end, the mutations it calls included
\* (hooks.go:319-335). Not so if Close stopped the worker. The types hold as well.
WaitMeansDone ==
    /\ TypeOK
    /\ \A c \in Caller : waiting[c].pc = "passed" =>
          waiting[c].owed \subseteq finished \/ close.pc # "open"

\* While nobody holds trigMu the triggers hooked in are the enabled ones of
\* _triggers (CreateTrigger and DeleteTrigger, triggers.go:52-92).
TriggersAreHooked ==
    trigOp = NoOp => \A r \in Triggers : r \in trigs \ Disabled <=> r.id \in Hooked

\* A worker waits for room in its own queue, which nobody else empties.
BlocksItself == \E w \in Worker : In(w, "send") /\ Top(w).q = w /\ ~HasRoom(w)

\* Every job that is queued runs to its end. Known exceptions: Close discards
\* the jobs (hooks.go:306-317), and a worker that waits for itself runs nothing
\* more (hooks.go:254).
JobsRun == sent > Cardinality(finished) ~> (finished = 1..sent \/ close.pc # "open" \/ BlocksItself)

\* Close ends: the worker it waits for leaves even a queue that it blocks
\* itself, and every thread that waits for room in it goes on (hooks.go:253-257, 307-317).
CloseEnds == close.pc = "joins" ~> close.pc = "closed"

\* WaitAsyncHooks returns. Known exceptions: the worker waits for itself, or
\* Close stops the worker before it comes to the barrier (hooks.go:334).
WaitReturns ==
    \A c \in Caller : waiting[c].pc # "no" ~>
        (waiting[c].pc = "no" \/ close.pc # "open" \/ BlocksItself)
=============================================================================
