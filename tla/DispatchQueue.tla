---------------------------- MODULE DispatchQueue ----------------------------
(***************************************************************************)
(* The queues of libdispatch-84.5.5 (src/queue.c, queue_internal.h,         *)
(* object.c), which the queue experiments of the app are written against:   *)
(* asynchronous, synchronous and barrier submission, target queues,         *)
(* suspension and reference counts.  A queue is a lock-free list with many  *)
(* producers and one drainer, the low bit of do_suspend_cnt says that it is *)
(* on its target's list (or being invoked), dq_running counts what runs: 1  *)
(* for a drainer or a barrier, 2 for each block of a concurrent queue.      *)
(*                                                                          *)
(* A step is one atomic access to memory that other threads write.  A       *)
(* thread is a stack of frames, one for each C function in progress: its    *)
(* field "at" is where that function stands.  The global queue at the root  *)
(* is a sequence that worker threads take from.                             *)
(***************************************************************************)
EXTENDS Integers, Sequences, FiniteSets

CONSTANTS
    Queues,         \* the queues made by dispatch_queue_create
    ROOT,           \* the global queue they target at first
    Clients,        \* threads of the app
    Workers,        \* threads of the global queue's pool
    Calls,          \* the calls of the dispatch API that clients and blocks make
    NULL, LISTLESS, \* DISPATCH_OBJECT_LISTLESS: do_next of what is on no list
    Uses            \* names of ways to use the API, each with what it does

(* A use says what every call does (op) to which queue (q), for a change of *)
(* target to which (to), the calls each block and each client makes in      *)
(* order (body), and dq_width of every queue: 1 for a serial queue, twice   *)
(* its width for another.  No queue targets a concurrent one, the global    *)
(* queue gets asynchronous blocks only, and a call is made once.            *)
Operations == {"async", "barrier_async", "sync", "barrier_sync", "set_target",
               "suspend", "resume", "release", "none"}

IsUse(u) == /\ u.op \in [Calls -> Operations]
            /\ u.q  \in [Calls -> Queues \cup {ROOT}]
            /\ u.to \in [Calls -> Queues \cup {ROOT}]
            /\ u.body \in [Calls \cup Clients -> Seq(Calls)]
            /\ u.width \in [Queues -> {1} \cup {2 * w : w \in 2 .. 64}]
            /\ \A c \in Calls : u.op[c] = "set_target" /\ u.to[c] # ROOT => u.width[u.to[c]] = 1
            /\ \A c \in Calls : u.q[c] = ROOT => u.op[c] \in {"async", "barrier_async", "none"}
            /\ \A x, y \in Calls \cup Clients : \A i \in DOMAIN u.body[x], j \in DOMAIN u.body[y] :
                  u.body[x][i] = u.body[y][j] => x = y /\ i = j

Threads == Clients \cup Workers
Objects == Queues \cup Calls        \* a call stands for its continuation too

ASSUME UsesAssumption == \A n \in DOMAIN Uses : IsUse(Uses[n])
ASSUME RootAssumption == ROOT \notin Queues /\ Queues \cap Calls = {} /\ Clients \cap Calls = {}
ASSUME NullAssumption == NULL \notin Objects /\ LISTLESS \notin Objects \cup {NULL}

VARIABLES
    use,            \* the use of this behaviour, chosen at the start
    items_tail,     \* dq_items_tail
    items_head,     \* dq_items_head
    next,           \* do_next
    running,        \* dq_running
    suspend_cnt,    \* do_suspend_cnt: 2 for each suspension, 1 for the lock
    targetq,        \* do_targetq
    ref_cnt,        \* do_ref_cnt
    xref_cnt,       \* do_xref_cnt
    root,           \* the list of the global queue
    sema,           \* the thread semaphore that a synchronous call waits on
    stack,          \* the frames of each thread, the innermost first
    crashed,        \* the message the process died with, or "no"
    ticket,         \* history: when the call was put on its queue's list
    begun, ended    \* history: the blocks that have begun, and returned

lists  == <<items_tail, items_head, next, root, ticket>>
counts == <<running, suspend_cnt, sema>>
refs   == <<ref_cnt, xref_cnt, targetq>>
blocks == <<begun, ended>>
vars   == <<use, lists, counts, refs, stack, crashed, blocks>>
-----------------------------------------------------------------------------
U == Uses[use]

Frame(at, q, o)       == [at |-> at, q |-> q, o |-> o]
Run(c)                == [at |-> "run", o |-> c, rest |-> U.body[c]]
Drain(at, q, tq, o, n) == [at |-> at, q |-> q, tq |-> tq, o |-> o, n |-> n]

At(t, at) == stack[t] # <<>> /\ Head(stack[t]).at = at
Top(t)    == Head(stack[t])

\* The innermost function of t goes on as, or calls, the frames fs.
Become(t, fs) == stack' = [stack EXCEPT ![t] = fs \o Tail(@)]
Goto(t, at)   == Become(t, <<[Top(t) EXCEPT !.at = at]>>)
Return(t)     == Become(t, <<>>)

Wakeup(q)     == <<Frame("wakeup", q, NULL)>>
Push(q, o)    == <<Frame("push", q, o)>>
Release(q)    == <<Frame("release", q, NULL)>>

\* The thread's value for dispatch_queue_key: the queue whose block or drain it is in.
Current(t) == LET in == SelectSeq(Tail(stack[t]), LAMBDA f :
                  f.at \in {"drain", "drain_next", "running_sub", "unlock", "resume"})
              IN  IF in = <<>> THEN NULL ELSE Head(in).q

Suspended(q)  == suspend_cnt[q] >= 2
Plus(f, q, n) == [f EXCEPT ![q] = @ + n]

\* _dispatch_retain and _dispatch_release do nothing to the global queues.
Retained(q)   == IF q = ROOT THEN ref_cnt ELSE Plus(ref_cnt, q, 1)
Released(q)   == IF q = ROOT THEN <<>> ELSE Release(q)
-----------------------------------------------------------------------------
(* Lists: _dispatch_queue_push and _dispatch_queue_push_list_slow.          *)

PushOnRoot(t) ==
    /\ At(t, "push") /\ Top(t).q = ROOT
    /\ root' = Append(root, Top(t).o)
    /\ next' = [next EXCEPT ![Top(t).o] = NULL]
    /\ Return(t)
    /\ UNCHANGED <<use, items_tail, items_head, ticket, counts, refs, crashed, blocks>>

\* xchg of the tail: the object has its place, nothing leads to it yet.
ExchangeTail(t) ==
    LET q == Top(t).q  o == Top(t).o  prev == items_tail[q] IN
    /\ At(t, "push") /\ q # ROOT
    /\ next' = [next EXCEPT ![o] = NULL]
    /\ items_tail' = [items_tail EXCEPT ![q] = o]
    /\ ticket' = IF o \in Calls
                 THEN [ticket EXCEPT ![o] = 1 + Cardinality({c \in Calls : ticket[c] > 0})]
                 ELSE ticket
    /\ IF prev # NULL THEN Become(t, <<[at |-> "link", prev |-> prev, o |-> o]>>)
                      ELSE Goto(t, "publish")
    /\ UNCHANGED <<use, items_head, root, counts, refs, crashed, blocks>>

LinkPrevious(t) ==
    /\ At(t, "link")
    /\ next' = [next EXCEPT ![Top(t).prev] = Top(t).o]
    /\ Return(t)
    /\ UNCHANGED <<use, items_tail, items_head, root, ticket, counts, refs, crashed, blocks>>

\* The list's reference to its queue; the variant takes none.
NoListReference(q) == ref_cnt
ListReference(q)   == Retained(q)

\* push_list_slow: the reference is taken before the head can be seen.
PublishHead(t) ==
    LET q == Top(t).q IN
    /\ At(t, "publish")
    /\ ref_cnt' = ListReference(q)
    /\ items_head' = [items_head EXCEPT ![q] = Top(t).o]
    /\ Become(t, Wakeup(q) \o Release(q))
    /\ UNCHANGED <<use, items_tail, next, root, ticket, counts, xref_cnt, targetq, crashed, blocks>>
-----------------------------------------------------------------------------
(* _dispatch_wakeup, and what an object does when its count drops.          *)

WakeupUnlessSuspended(t) ==
    /\ At(t, "wakeup")
    /\ IF Suspended(Top(t).q) THEN Return(t) ELSE Goto(t, "wakeup_probe")
    /\ UNCHANGED <<use, lists, counts, refs, crashed, blocks>>

WakeupUnlessEmpty(t) ==
    /\ At(t, "wakeup_probe")
    /\ IF items_tail[Top(t).q] = NULL THEN Return(t) ELSE Goto(t, "wakeup_trylock")
    /\ UNCHANGED <<use, lists, counts, refs, crashed, blocks>>

\* Neither locked nor suspended; the variant asks for the second only.
NotSuspended(q) == ~Suspended(q)
LockIsFree(q)   == suspend_cnt[q] = 0

\* The lock makes the target stable until the queue is invoked.
WakeupTrylock(t) ==
    LET q == Top(t).q IN
    /\ At(t, "wakeup_trylock")
    /\ IF LockIsFree(q)
       THEN /\ suspend_cnt' = [suspend_cnt EXCEPT ![q] = 1]
            /\ ref_cnt' = Retained(q)
            /\ Become(t, Push(targetq[q], q))
       ELSE Return(t) /\ UNCHANGED <<suspend_cnt, ref_cnt>>
    /\ UNCHANGED <<use, lists, running, sema, xref_cnt, targetq, crashed, blocks>>

\* _dispatch_release; the last one disposes of the queue and releases its target.
ReleaseReference(t) ==
    LET q == Top(t).q IN
    /\ At(t, "release")
    /\ ref_cnt' = Plus(ref_cnt, q, -1)
    /\ IF ref_cnt[q] > 1
       THEN Return(t) /\ UNCHANGED crashed
       ELSE /\ crashed' = IF next[q] # LISTLESS THEN "release while enqueued"
                          ELSE IF xref_cnt[q] > 0 THEN "release while external references exist"
                          ELSE IF q = Current(t) THEN "Release of a queue by itself"
                          ELSE IF items_tail[q] # NULL
                               THEN "Release of a queue while items are enqueued"
                          ELSE "no"
            /\ Become(t, Released(targetq[q]))
    /\ UNCHANGED <<use, lists, counts, xref_cnt, targetq, blocks>>
-----------------------------------------------------------------------------
(* The calls a client or a block makes.                                     *)

Calling(t, op) == /\ At(t, "run") /\ Top(t).rest # <<>>
                  /\ U.op[Head(Top(t).rest)] = op

This(t) == Head(Top(t).rest)
Proceed(t, fs) == Become(t, fs \o <<[Top(t) EXCEPT !.rest = Tail(@)]>>)

\* dispatch_async_f and dispatch_barrier_async_f.
dispatch_async_f(t) ==
    /\ Calling(t, "async") \/ Calling(t, "barrier_async")
    /\ Proceed(t, Push(U.q[This(t)], This(t)))
    /\ UNCHANGED <<use, lists, counts, refs, crashed, blocks>>

dispatch_set_target_queue(t) ==
    /\ Calling(t, "set_target")
    /\ ref_cnt' = Retained(U.to[This(t)])
    /\ Proceed(t, Push(U.q[This(t)], This(t)))
    /\ UNCHANGED <<use, lists, counts, xref_cnt, targetq, crashed, blocks>>

\* dispatch_sync_f, for a serial queue dispatch_barrier_sync_f: both first look
\* at the tail.
dispatch_sync_f(t) ==
    LET c == This(t)  q == U.q[c] IN
    /\ Calling(t, "sync") \/ Calling(t, "barrier_sync")
    /\ LET barrier == U.op[c] = "barrier_sync" \/ U.width[q] = 1
           slow    == items_tail[q] # NULL
       IN  Proceed(t, IF slow
                      THEN Push(q, c) \o <<Frame(IF barrier THEN "bsync_wait" ELSE "sync_wait", q, c)>>
                      ELSE <<Frame(IF barrier THEN "bsync" ELSE "sync", q, c)>>)
    /\ UNCHANGED <<use, lists, counts, refs, crashed, blocks>>

dispatch_suspend(t) ==
    /\ Calling(t, "suspend")
    /\ suspend_cnt' = Plus(suspend_cnt, U.q[This(t)], 2)
    /\ Proceed(t, <<>>)
    /\ UNCHANGED <<use, lists, running, sema, refs, crashed, blocks>>

\* dispatch_resume: only the last resume looks for work, and only if no one
\* holds the lock.
WakeupByLast(q) == IF suspend_cnt[q] = 2 THEN Wakeup(q) ELSE <<>>

dispatch_resume(q) ==
    /\ suspend_cnt' = Plus(suspend_cnt, q, -2)
    /\ crashed' = IF suspend_cnt[q] = 0 THEN "Over-resume of an object" ELSE crashed
    /\ UNCHANGED <<use, lists, running, sema, refs, blocks>>

Resume(t) ==
    LET q == U.q[This(t)] IN
    /\ Calling(t, "resume")
    /\ dispatch_resume(q)
    /\ Proceed(t, WakeupByLast(q))

dispatch_release(t) ==
    LET q == U.q[This(t)] IN
    /\ Calling(t, "release")
    /\ xref_cnt' = Plus(xref_cnt, q, -1)
    /\ crashed' = IF Suspended(q) THEN "Release of a suspended object" ELSE crashed
    /\ Proceed(t, Release(q))
    /\ UNCHANGED <<use, lists, counts, ref_cnt, targetq, blocks>>

EndBlock(t) ==
    /\ At(t, "run") /\ Top(t).rest = <<>>
    /\ ended' = ended \cup ({Top(t).o} \cap Calls)
    /\ Return(t)
    /\ UNCHANGED <<use, lists, counts, refs, crashed, begun>>
-----------------------------------------------------------------------------
(* dispatch_sync_f on a concurrent queue, once the tail has been seen NULL. *)

SyncSlow(t) == Become(t, Push(Top(t).q, Top(t).o) \o <<[Top(t) EXCEPT !.at = "sync_wait"]>>)

SyncUnlessSuspended(t) ==
    /\ At(t, "sync")
    /\ IF Suspended(Top(t).q) THEN SyncSlow(t) ELSE Goto(t, "sync_add")
    /\ UNCHANGED <<use, lists, counts, refs, crashed, blocks>>

Begin(t, c, then) == /\ begun' = begun \cup {c}
                     /\ Become(t, <<Run(c)>> \o then)
                     /\ UNCHANGED ended

SyncAdd(t) ==
    LET q == Top(t).q IN
    /\ At(t, "sync_add")
    /\ running' = Plus(running, q, 2)
    /\ IF running[q] % 2 = 1
       THEN Goto(t, "sync_back") /\ UNCHANGED blocks
       ELSE Begin(t, Top(t).o, <<Frame("running_sub", q, NULL)>>)
    /\ UNCHANGED <<use, lists, suspend_cnt, sema, refs, crashed>>

SyncBackOut(t) ==
    LET q == Top(t).q IN
    /\ At(t, "sync_back")
    /\ running' = Plus(running, q, -2)
    /\ Become(t, (IF running[q] = 2 THEN Wakeup(q) ELSE <<>>)
                 \o Push(q, Top(t).o) \o <<[Top(t) EXCEPT !.at = "sync_wait"]>>)
    /\ UNCHANGED <<use, lists, suspend_cnt, sema, refs, crashed, blocks>>

SyncWait(t) ==
    LET c == Top(t).o IN
    /\ At(t, "sync_wait") /\ sema[c] = 1
    /\ sema' = [sema EXCEPT ![c] = 0]
    /\ Begin(t, c, <<Frame("running_sub", Top(t).q, NULL)>>)
    /\ UNCHANGED <<use, lists, running, suspend_cnt, refs, crashed>>

\* The end of dispatch_sync_f and of _dispatch_async_f_redirect2.
RunningSub(t) ==
    LET q == Top(t).q IN
    /\ At(t, "running_sub")
    /\ running' = Plus(running, q, -2)
    /\ Become(t, IF running[q] = 2 THEN Wakeup(q) ELSE <<>>)
    /\ UNCHANGED <<use, lists, suspend_cnt, sema, refs, crashed, blocks>>
-----------------------------------------------------------------------------
(* dispatch_barrier_sync_f.                                                 *)

BarrierSyncSlow(t) == Become(t, Push(Top(t).q, Top(t).o) \o <<[Top(t) EXCEPT !.at = "bsync_wait"]>>)

BarrierSyncUnlessSuspended(t) ==
    /\ At(t, "bsync")
    /\ IF Suspended(Top(t).q) THEN BarrierSyncSlow(t) ELSE Goto(t, "bsync_trylock")
    /\ UNCHANGED <<use, lists, counts, refs, crashed, blocks>>

\* Nothing runs on the queue; the variant overlooks shared blocks.
NoBarrierRuns(q) == running[q] % 2 = 0
NothingRuns(q)   == running[q] = 0

BarrierSyncTrylock(t) ==
    LET q == Top(t).q IN
    /\ At(t, "bsync_trylock")
    /\ IF NothingRuns(q)
       THEN /\ running' = [running EXCEPT ![q] = 1]
            /\ Begin(t, Top(t).o, <<Frame("unlock", q, NULL)>>)
       ELSE BarrierSyncSlow(t) /\ UNCHANGED <<running, blocks>>
    /\ UNCHANGED <<use, lists, suspend_cnt, sema, refs, crashed>>

\* What a drainer or a barrier gives back; the variant gives back a shared block.
GiveBackTwo(q) == Plus(running, q, -2)
GiveBack(q)    == Plus(running, q, -1)

\* _dispatch_queue_unlock
Unlock(t) ==
    LET q == Top(t).q IN
    /\ At(t, "unlock")
    /\ running' = GiveBack(q)
    /\ Become(t, IF running[q] = 1 THEN Wakeup(q) ELSE <<>>)
    /\ UNCHANGED <<use, lists, suspend_cnt, sema, refs, crashed, blocks>>

\* The slow path runs its block on a queue the drainer suspended for it.
BarrierSyncWait(t) ==
    LET c == Top(t).o IN
    /\ At(t, "bsync_wait") /\ sema[c] = 1
    /\ sema' = [sema EXCEPT ![c] = 0]
    /\ Begin(t, c, <<Frame("resume", Top(t).q, NULL)>>)
    /\ UNCHANGED <<use, lists, running, suspend_cnt, refs, crashed>>

BarrierSyncResume(t) ==
    /\ At(t, "resume")
    /\ dispatch_resume(Top(t).q)
    /\ Become(t, WakeupByLast(Top(t).q))
-----------------------------------------------------------------------------
(* Workers: _dispatch_queue_invoke and _dispatch_queue_drain.               *)

\* A worker takes the next object of the global queue: a queue to invoke, a
\* block that a concurrent queue redirected, or a block of its own.
TakeFromRoot(t) ==
    LET o == Head(root) IN
    /\ stack[t] = <<>> /\ root # <<>>
    /\ root' = Tail(root)
    /\ IF o \in Queues
       THEN /\ stack' = [stack EXCEPT ![t] = <<Drain("invoke", o, targetq[o], NULL, NULL)>>]
            /\ UNCHANGED begun
       ELSE /\ stack' = [stack EXCEPT ![t] =
                   <<Run(o)>> \o IF U.q[o] = ROOT THEN <<>>
                                 ELSE <<Frame("running_sub", U.q[o], NULL)>> \o Release(U.q[o])]
            /\ begun' = begun \cup {o}
    /\ UNCHANGED <<use, items_tail, items_head, next, ticket, counts, refs, crashed, ended>>

InvokeUnlessSuspended(t) ==
    /\ At(t, "invoke")
    /\ Goto(t, IF Suspended(Top(t).q) THEN "invoke_drop" ELSE "invoke_trylock")
    /\ UNCHANGED <<use, lists, counts, refs, crashed, blocks>>

InvokeTrylock(t) ==
    LET q == Top(t).q IN
    /\ At(t, "invoke_trylock")
    /\ IF NothingRuns(q)
       THEN running' = [running EXCEPT ![q] = 1] /\ Goto(t, "drain")
       ELSE Goto(t, "invoke_drop") /\ UNCHANGED running
    /\ UNCHANGED <<use, lists, suspend_cnt, sema, refs, crashed, blocks>>

DrainUntilEmpty(t) ==
    /\ At(t, "drain")
    /\ Goto(t, IF items_tail[Top(t).q] = NULL THEN "invoke_unlock" ELSE "drain_head")
    /\ UNCHANGED <<use, lists, counts, refs, crashed, blocks>>

\* Spins until the producer that found the list empty has published its head.
DrainHead(t) ==
    LET q == Top(t).q IN
    /\ At(t, "drain_head") /\ items_head[q] # NULL
    /\ items_head' = [items_head EXCEPT ![q] = NULL]
    /\ Become(t, <<[Top(t) EXCEPT !.at = "drain_next", !.o = items_head[q]]>>)
    /\ UNCHANGED <<use, items_tail, next, root, ticket, counts, refs, crashed, blocks>>

\* Either the next item is linked, or the tail can be reset; spins in between.
DrainNext(t) ==
    LET q == Top(t).q  o == Top(t).o IN
    /\ At(t, "drain_next")
    /\ next[o] # NULL \/ items_tail[q] = o
    /\ items_tail' = IF next[o] # NULL THEN items_tail ELSE [items_tail EXCEPT ![q] = NULL]
    /\ Become(t, <<[Top(t) EXCEPT !.at = "drain_suspended", !.n = next[o]]>>)
    /\ UNCHANGED <<use, items_head, next, root, ticket, counts, refs, crashed, blocks>>

DrainUnlessSuspended(t) ==
    /\ At(t, "drain_suspended")
    /\ Goto(t, IF Suspended(Top(t).q) THEN "undo" ELSE "drain_width")
    /\ UNCHANGED <<use, lists, counts, refs, crashed, blocks>>

DrainUnlessFull(t) ==
    LET q == Top(t).q IN
    /\ At(t, "drain_width")
    /\ Goto(t, IF running[q] > U.width[q] \/ targetq[q] # Top(t).tq THEN "undo" ELSE "drain_pop")
    /\ UNCHANGED <<use, lists, counts, refs, crashed, blocks>>

IsBarrier(c) == \/ U.op[c] \in {"barrier_async", "barrier_sync", "set_target"}
                \/ U.width[U.q[c]] = 1

\* What the drainer does next when it comes back from the item.
Drained(t) == Drain(IF Top(t).n = NULL THEN "drain" ELSE "drain_next",
                    Top(t).q, Top(t).tq, Top(t).n, NULL)

\* A barrier waits for the blocks of its queue that still run.
DrainUnlessShared(t) ==
    LET q == Top(t).q  o == Top(t).o IN
    /\ At(t, "drain_pop") /\ U.width[q] > 1 /\ o \in Calls /\ IsBarrier(o) /\ running[q] > 1
    /\ Goto(t, "undo")
    /\ UNCHANGED <<use, lists, counts, refs, crashed, blocks>>

MayPop(t) == /\ At(t, "drain_pop")
             /\ \/ U.width[Top(t).q] = 1
                \/ Top(t).o \in Calls /\ IsBarrier(Top(t).o) /\ running[Top(t).q] = 1

\* _dispatch_continuation_pop, by what the item is.
PopBlock(t) ==
    LET c == Top(t).o IN
    /\ MayPop(t) /\ c \in Calls /\ U.op[c] \in {"async", "barrier_async"}
    /\ Begin(t, c, <<Drained(t)>>)
    /\ UNCHANGED <<use, lists, counts, refs, crashed>>

PopQueue(t) ==
    LET q == Top(t).o IN
    /\ MayPop(t) /\ q \in Queues
    /\ Become(t, <<Drain("invoke", q, targetq[q], NULL, NULL), Drained(t)>>)
    /\ UNCHANGED <<use, lists, counts, refs, crashed, blocks>>

\* _dispatch_set_target_queue2
PopSetTarget(t) ==
    LET c == Top(t).o  q == Top(t).q IN
    /\ MayPop(t) /\ c \in Calls /\ U.op[c] = "set_target"
    /\ targetq' = [targetq EXCEPT ![q] = U.to[c]]
    /\ Become(t, Released(targetq[q]) \o <<Drained(t)>>)
    /\ begun' = begun \cup {c} /\ ended' = ended \cup {c}
    /\ UNCHANGED <<use, lists, counts, ref_cnt, xref_cnt, crashed>>

\* The queue is suspended for a block another thread runs; the variant goes on.
GoOn(q)     == suspend_cnt
HandOver(q) == Plus(suspend_cnt, q, 2)

\* _dispatch_barrier_sync_f_slow_invoke: suspend, and signal the thread that waits.
PopBarrierSync(t) ==
    LET c == Top(t).o IN
    /\ MayPop(t) /\ c \in Calls /\ U.op[c] \in {"sync", "barrier_sync"}
    /\ suspend_cnt' = HandOver(Top(t).q)
    /\ sema' = [sema EXCEPT ![c] = 1]
    /\ Become(t, <<Drained(t)>>)
    /\ UNCHANGED <<use, lists, running, refs, crashed, blocks>>

\* A redirected block counts as running from now on, and has a reference to its
\* queue; the variants leave out the one or the other.
NotCounted(q)       == running
Counted(q)          == Plus(running, q, 2)
NoBlockReference(q) == ref_cnt
BlockReference(q)   == Retained(q)

\* _dispatch_async_f_redirect: the block goes to the global queue at the root,
\* whatever lies between; a synchronous call is let go at once.
Redirect(t) ==
    LET o == Top(t).o  q == Top(t).q IN
    /\ At(t, "drain_pop") /\ U.width[q] > 1 /\ o \in Calls /\ ~IsBarrier(o)
    /\ running' = Counted(q)
    /\ IF U.op[o] = "sync"
       THEN /\ sema' = [sema EXCEPT ![o] = 1]
            /\ Become(t, <<Drained(t)>>)
            /\ UNCHANGED ref_cnt
       ELSE /\ ref_cnt' = BlockReference(q)
            /\ Become(t, Push(ROOT, o) \o <<Drained(t)>>)
            /\ UNCHANGED sema
    /\ UNCHANGED <<use, lists, suspend_cnt, xref_cnt, targetq, crashed, blocks>>

\* "if this is not a complete drain, we must undo some things"
Undo(t) ==
    LET q == Top(t).q  o == Top(t).o IN
    /\ At(t, "undo")
    /\ IF Top(t).n = NULL /\ items_tail[q] # NULL
       THEN Goto(t, "undo_wait") /\ UNCHANGED items_tail
       ELSE /\ Goto(t, "undo_head")
            /\ items_tail' = IF Top(t).n = NULL THEN [items_tail EXCEPT ![q] = o] ELSE items_tail
    /\ UNCHANGED <<use, items_head, next, root, ticket, counts, refs, crashed, blocks>>

UndoHead(t) ==
    LET q == Top(t).q IN
    /\ At(t, "undo_head")
    /\ items_head' = [items_head EXCEPT ![q] = Top(t).o]
    /\ Goto(t, "invoke_unlock")
    /\ UNCHANGED <<use, items_tail, next, root, ticket, counts, refs, crashed, blocks>>

\* Others were put on the list meanwhile: the item goes in front of them.
UndoInFront(t) ==
    LET q == Top(t).q  o == Top(t).o IN
    /\ At(t, "undo_wait") /\ items_head[q] # NULL
    /\ items_head' = [items_head EXCEPT ![q] = o]
    /\ next' = [next EXCEPT ![o] = items_head[q]]
    /\ Goto(t, "invoke_unlock")
    /\ UNCHANGED <<use, items_tail, root, ticket, counts, refs, crashed, blocks>>

\* Where a queue goes whose target changed; the variant takes the old one.
OldTarget(t) == Top(t).tq
NewTarget(t) == targetq[Top(t).q]

\* A queue with a new target is pushed there, still locked and retained.
InvokeUnlock(t) ==
    LET q == Top(t).q IN
    /\ At(t, "invoke_unlock")
    /\ running' = GiveBack(q)
    /\ IF targetq[q] # Top(t).tq THEN Become(t, Push(NewTarget(t), q)) ELSE Goto(t, "invoke_drop")
    /\ UNCHANGED <<use, lists, suspend_cnt, sema, refs, crashed, blocks>>

InvokeDropLock(t) ==
    LET q == Top(t).q IN
    /\ At(t, "invoke_drop")
    /\ next' = [next EXCEPT ![q] = LISTLESS]
    /\ suspend_cnt' = Plus(suspend_cnt, q, -1)
    /\ IF suspend_cnt[q] = 1 THEN Goto(t, "invoke_idle") ELSE Become(t, Release(q))
    /\ UNCHANGED <<use, items_tail, items_head, root, ticket, running, sema, refs, crashed, blocks>>

\* "verify that the queue is idle": what was listed while the lock was held found it
\* taken.  The variant does not look.
NoLook(q)   == <<>>
LastLook(q) == IF running[q] = 0 THEN Wakeup(q) ELSE <<>>

InvokeVerifyIdle(t) ==
    LET q == Top(t).q IN
    /\ At(t, "invoke_idle")
    /\ Become(t, LastLook(q) \o Release(q))
    /\ UNCHANGED <<use, lists, counts, refs, crashed, blocks>>
-----------------------------------------------------------------------------
Init ==
    /\ use \in DOMAIN Uses
    /\ items_tail = [q \in Queues |-> NULL]
    /\ items_head = [q \in Queues |-> NULL]
    /\ next = [o \in Objects |-> LISTLESS]
    /\ running = [q \in Queues |-> 0]
    /\ suspend_cnt = [q \in Queues |-> 0]
    /\ targetq = [q \in Queues |-> ROOT]
    /\ ref_cnt = [q \in Queues |-> 1]
    /\ xref_cnt = [q \in Queues |-> 1]
    /\ root = <<>>
    /\ sema = [c \in Calls |-> 0]
    /\ stack = [t \in Threads |-> IF t \in Clients THEN <<Run(t)>> ELSE <<>>]
    /\ crashed = "no"
    /\ ticket = [c \in Calls |-> 0]
    /\ begun = {} /\ ended = {}

Submit(t)  == \/ dispatch_async_f(t) \/ dispatch_set_target_queue(t) \/ dispatch_sync_f(t)
              \/ dispatch_suspend(t) \/ Resume(t) \/ dispatch_release(t) \/ EndBlock(t)
Enlist(t)  == \/ PushOnRoot(t) \/ ExchangeTail(t) \/ LinkPrevious(t) \/ PublishHead(t)
              \/ WakeupUnlessSuspended(t) \/ WakeupUnlessEmpty(t) \/ WakeupTrylock(t)
              \/ ReleaseReference(t)
Sync(t)    == \/ SyncUnlessSuspended(t) \/ SyncAdd(t) \/ SyncBackOut(t) \/ SyncWait(t)
              \/ RunningSub(t)
              \/ BarrierSyncUnlessSuspended(t) \/ BarrierSyncTrylock(t) \/ Unlock(t)
              \/ BarrierSyncWait(t) \/ BarrierSyncResume(t)
Invoke(t)  == \/ InvokeUnlessSuspended(t) \/ InvokeTrylock(t)
              \/ DrainUntilEmpty(t) \/ DrainHead(t) \/ DrainNext(t) \/ DrainUnlessSuspended(t)
              \/ DrainUnlessFull(t) \/ DrainUnlessShared(t)
              \/ PopBlock(t) \/ PopQueue(t) \/ PopSetTarget(t) \/ PopBarrierSync(t) \/ Redirect(t)
              \/ Undo(t) \/ UndoHead(t) \/ UndoInFront(t)
              \/ InvokeUnlock(t) \/ InvokeDropLock(t) \/ InvokeVerifyIdle(t)

Step(t) == /\ crashed = "no"
           /\ \/ Submit(t) \/ Enlist(t) \/ Sync(t) \/ Invoke(t)
              \/ t \in Workers /\ TakeFromRoot(t)

Next == \E t \in Threads : Step(t)

\* The system runs every thread that can go on, and the pool has a thread for
\* every object that waits.
Fairness == \A t \in Threads : WF_vars(Step(t))

Spec == Init /\ [][Next]_vars
LiveSpec == Spec /\ Fairness
-----------------------------------------------------------------------------
FrameNames == {"run", "push", "link", "publish", "wakeup", "wakeup_probe", "wakeup_trylock",
               "release", "sync", "sync_add", "sync_back", "sync_wait", "running_sub", "bsync",
               "bsync_trylock", "bsync_wait", "unlock", "resume", "invoke", "invoke_trylock",
               "drain", "drain_head", "drain_next", "drain_suspended", "drain_width",
               "drain_pop", "undo", "undo_wait", "undo_head", "invoke_unlock", "invoke_drop",
               "invoke_idle"}

TypeOK ==
    /\ items_tail \in [Queues -> Objects \cup {NULL}]
    /\ items_head \in [Queues -> Objects \cup {NULL}]
    /\ next \in [Objects -> Objects \cup {NULL, LISTLESS}]
    /\ running \in [Queues -> Nat] /\ suspend_cnt \in [Queues -> Nat]
    /\ targetq \in [Queues -> Queues \cup {ROOT}]
    /\ ref_cnt \in [Queues -> Nat] /\ xref_cnt \in [Queues -> Nat]
    /\ root \in Seq(Objects) /\ sema \in [Calls -> 0 .. 1]
    /\ \A t \in Threads : \A i \in DOMAIN stack[t] : stack[t][i].at \in FrameNames
    /\ ticket \in [Calls -> Nat] /\ ended \subseteq begun /\ begun \subseteq Calls

\* No function in progress still needs a queue that has been disposed of.
NoUseAfterFree ==
    \A t \in Threads : \A i \in DOMAIN stack[t] :
        LET f == stack[t][i] IN
        f.at \notin {"run", "link"} /\ f.q \in Queues => ref_cnt[f.q] > 0

\* Uses that pair every suspend with a resume and release a queue once never
\* meet one of the library's own crashes, nor memory that is gone.
NeverCrashes == crashed = "no" /\ NoUseAfterFree

IsRunning(c) == c \in begun \ ended
OnQueue(q)   == {c \in Calls : U.q[c] = q}
Fast(c)      == U.op[c] \in {"sync", "barrier_sync"} /\ ticket[c] = 0
HandedOver(c) == U.op[c] \in {"sync", "barrier_sync"} /\ ticket[c] > 0

\* "wait for the previously dequeued block to complete before dequeuing the next
\* block": what a serial queue promises of all its blocks.
OneBlockAtATime ==
    \A q \in Queues : U.width[q] = 1 =>
        Cardinality({c \in OnQueue(q) : IsRunning(c)}) <= 1

\* A block that should have its queue to itself, any block of a serial queue or
\* a barrier, overlaps another in one case only: one of the two is a synchronous
\* one that found the queue idle, the other was handed its queue suspended.
OverlapNeedsAHandOver ==
    \A q \in Queues : \A c, d \in OnQueue(q) :
        c # d /\ IsBarrier(c) /\ IsRunning(c) /\ IsRunning(d) =>
            \/ Fast(c) /\ HandedOver(d)
            \/ Fast(d) /\ HandedOver(c)

\* A serial queue begins its listed blocks in the order they were listed, and
\* each after the one before has returned.
SerialIsFifo ==
    \A q \in Queues : U.width[q] = 1 =>
        \A c, d \in OnQueue(q) :
            0 < ticket[c] /\ ticket[c] < ticket[d] /\ d \in begun => c \in ended

\* A barrier of a concurrent queue begins after what was listed before it has
\* returned, and nothing listed after it begins until it has returned.
BarrierIsAFence ==
    \A q \in Queues : U.width[q] > 1 =>
        \A c, d \in OnQueue(q) :
            0 < ticket[c] /\ ticket[c] < ticket[d] /\ (IsBarrier(c) \/ IsBarrier(d))
                /\ d \in begun => c \in ended

\* c was listed on the serial queue h, or on a queue that had been given the
\* target h by then.
IsServedBy(c, h) ==
    /\ U.width[h] = 1 /\ U.op[c] \in {"async", "barrier_async"}
    /\ \/ U.q[c] = h
       \/ /\ U.q[c] \in Queues /\ U.width[U.q[c]] = 1
          /\ \E s \in OnQueue(U.q[c]) : /\ U.op[s] = "set_target" /\ U.to[s] = h
                                          /\ 0 < ticket[s] /\ ticket[s] < ticket[c]

\* Asynchronous blocks of a serial queue and of the serial queues that target
\* it never run two at once.
SharedTargetIsSerial ==
    \A c, d \in Calls : \A h \in Queues :
        c # d /\ IsRunning(c) /\ IsRunning(d) => ~(IsServedBy(c, h) /\ IsServedBy(d, h))

\* The functions through which a thread owns the lock bit of q's suspend count.
Owns(f, q) == \/ f.at \in {"push", "publish", "link"} /\ f.o = q
              \/ f.at \in {"invoke", "invoke_trylock", "drain", "drain_head", "drain_next",
                           "drain_suspended", "drain_width", "drain_pop", "undo", "undo_wait",
                           "undo_head", "invoke_unlock", "invoke_drop"} /\ f.q = q

\* A queue is pushed on its target only by the owner of its lock, so it is
\* never on two lists, nor on one while it is being invoked.
OneOwner ==
    \A q \in Queues :
        LET owners == UNION {{<<t, i>> : i \in {j \in DOMAIN stack[t] : Owns(stack[t][j], q)}} :
                                t \in Threads}
            places == {i \in DOMAIN root : root[i] = q}
        IN  /\ Cardinality(owners) + Cardinality(places) <= 1
            /\ owners # {} \/ places # {} \/ next[q] # LISTLESS => suspend_cnt[q] % 2 = 1

Submitted == {c \in Calls : U.op[c] \in {"async", "barrier_async", "sync", "barrier_sync", "set_target"}}

\* Every block that is submitted runs and every thread comes to rest: no wakeup
\* is lost.
EveryBlockEnds == <>(/\ Submitted \subseteq ended
                     /\ root = <<>> /\ \A t \in Threads : stack[t] = <<>>)
=============================================================================
