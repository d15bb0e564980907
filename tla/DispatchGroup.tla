---------------------------- MODULE DispatchGroup ----------------------------
(***************************************************************************)
(* A dispatch group of libdispatch-84.5.5 (src/semaphore.c): a semaphore    *)
(* created with LONG_MAX permits, of which every member holds one.  Whoever *)
(* finds all of them back wakes the group's waiter and submits the blocks   *)
(* that were registered, from a list that is pushed on without a lock.      *)
(* A semaphore with fewer permits is used as such.                          *)
(***************************************************************************)
EXTENDS DispatchSemaphore

CONSTANTS
    Members,        \* blocks given to dispatch_group_async
    Blocks,         \* blocks given to dispatch_group_notify
    None,           \* NULL
    Uses            \* what clients do with the object: see IsUse

\* A use creates the object with value, calls it from threads with members and blocks,
\* waits for the group on the threads waits, and leaves at most signals wakeups that
\* nobody came for.
IsUse(u) ==
    /\ u.value \in Values /\ u.threads \subseteq Threads
    /\ u.members \subseteq Members /\ u.blocks \subseteq Blocks
    /\ u.waits \subseteq u.threads /\ u.signals \in Nat

ASSUME UsesAssumption == \A u \in Uses : IsUse(u)
ASSUME NoneAssumption == None \notin Members \cup Blocks
ASSUME BlocksAssumption == Members \cap Blocks = {}

VARIABLES
    use,            \* the use this behaviour makes of the object
    member,         \* the state of every member
    dsema_group_waiters,
    dsema_waiter_port,
    dsema_notify_head,
    dsema_notify_tail,
    dsn_next,       \* the next block on the list
    freed,          \* the list's elements that are freed
    submitted,      \* how often each block was submitted
    awaits,         \* what each registered block waits for: the members inside then
    frame           \* what each thread is doing with the group

list      == <<dsema_notify_head, dsema_notify_tail, dsn_next, freed, submitted, awaits>>
waiters   == <<dsema_group_waiters, dsema_waiter_port>>
groupVars == <<use, member, waiters, list, frame>>

\* at: the place in the code.  who: the member that enters or leaves, or the block.
\* block, signals and drop: head, rval and do_rel of _dispatch_group_wake, and in
\* dispatch_group_notify_f block is prev.  timed: dispatch_group_wait has a timeout.
Idle == [at |-> "idle", who |-> None, block |-> None, signals |-> 0,
         drop |-> FALSE, timed |-> FALSE]

IsGroup == dsema_orig = LONG_MAX

\* A variant for the mutant: one member may still be inside.
NearlyAllLeft == dsema_value >= dsema_orig - 1

AllLeft == dsema_value = dsema_orig

GroupWaiting == {"look", "enlist", "recheck", "timedwait", "wait", "undo"}

Free(t)    == pc[t] = "idle" /\ frame[t].at = "idle"
On(t, at)  == pc[t] = "idle" /\ frame[t].at = at
Is(t, new) == frame' = [frame EXCEPT ![t] = new]
Do(t, at)  == frame' = [frame EXCEPT ![t].at = at]

\* The client's call is over; a member that has left still holds its reference.
Return(t) == IF frame[t].who \in Members THEN Do(t, "drop") ELSE Is(t, Idle)

Inside == {m \in Members : member[m] = "in"}

-----------------------------------------------------------------------------
\* dispatch_group_async_f: a reference, then dispatch_group_enter, which is
\* dispatch_semaphore_wait for ever; the push that follows makes a member that runs.
dispatch_group_async(t, m) ==
    /\ held /\ Free(t) /\ member[m] = "out"
    /\ do_ref_cnt' = do_ref_cnt + 1
    /\ member' = [member EXCEPT ![m] = "entering"]
    /\ Is(t, [Idle EXCEPT !.at = "enter", !.who = m])
    /\ UNCHANGED <<use, counters, held, dsema_sent_ksignals, dsema_port, pc, timeout, waiters, list>>

dispatch_group_enter(t) ==
    /\ On(t, "enter")
    /\ dispatch_semaphore_wait(t, "forever")
    /\ Do(t, "push")
    /\ UNCHANGED <<use, member, waiters, list>>

Pushed(t) ==
    /\ On(t, "push")
    /\ member' = [member EXCEPT ![frame[t].who] = "in"]
    /\ Is(t, Idle)
    /\ UNCHANGED <<use, semaVars, waiters, list>>

\* _dispatch_continuation_pop once the member's block has run: dispatch_group_leave,
\* then the reference is dropped.
dispatch_group_leave(t, m) ==
    /\ Free(t) /\ member[m] = "in"
    /\ dispatch_semaphore_signal(t)
    /\ member' = [member EXCEPT ![m] = "left"]
    /\ Is(t, [Idle EXCEPT !.at = "left", !.who = m])
    /\ UNCHANGED <<use, waiters, list>>

LeaverLooks(t) ==
    /\ On(t, "left")
    /\ IF AllLeft THEN Do(t, "wake") ELSE Return(t)
    /\ UNCHANGED <<use, semaVars, member, waiters, list>>

Drop(t) ==
    /\ On(t, "drop")
    /\ do_ref_cnt' = do_ref_cnt - 1
    /\ Is(t, Idle)
    /\ UNCHANGED <<use, counters, held, dsema_sent_ksignals, dsema_port, pc, timeout, member, waiters, list>>
-----------------------------------------------------------------------------
\* _dispatch_group_wake: take the list, take the waiters, signal for each waiter,
\* then submit the list one block at a time.
TakeList(t) ==
    /\ On(t, "wake")
    /\ Is(t, [frame[t] EXCEPT !.at = "take", !.block = dsema_notify_head,
                              !.drop = dsema_notify_head # None])
    /\ dsema_notify_head' = None
    /\ UNCHANGED <<use, semaVars, member, waiters, dsema_notify_tail, dsn_next, freed, submitted, awaits>>

TakeWaiters(t) ==
    /\ On(t, "take")
    /\ Is(t, [frame[t] EXCEPT !.at = "submit", !.signals = dsema_group_waiters])
    /\ dsema_group_waiters' = 0
    /\ UNCHANGED <<use, semaVars, member, dsema_waiter_port, list>>

SignalWaiter(t) ==
    /\ On(t, "submit") /\ frame[t].signals > 0
    /\ frame' = [frame EXCEPT ![t].signals = @ - 1]
    /\ dsema_waiter_port' = dsema_waiter_port + 1
    /\ UNCHANGED <<use, semaVars, member, dsema_group_waiters, list>>

Submit(t) ==
    /\ On(t, "submit") /\ frame[t].signals = 0 /\ frame[t].block # None
    /\ submitted' = [submitted EXCEPT ![frame[t].block] = @ + 1]
    /\ Do(t, "next")
    /\ UNCHANGED <<use, semaVars, member, waiters, dsema_notify_head, dsema_notify_tail, dsn_next, freed, awaits>>

\* What the thread finds when it exchanges the tail for NULL.  The variant for the
\* mutant does not compare.
AnyIsLast(b) == b \in Blocks
IsLast(b)    == dsema_notify_tail = b

\* The next block; or the end, if the tail is still the last one.  Else somebody is
\* about to link a block behind it, and the thread spins.
NextBlock(t) ==
    /\ On(t, "next")
    /\ LET next == dsn_next[frame[t].block]
       IN  /\ next # None \/ IsLast(frame[t].block)
           /\ dsema_notify_tail' = IF next = None THEN None ELSE dsema_notify_tail
           /\ Is(t, [frame[t] EXCEPT !.at = "submit", !.block = next])
    /\ freed' = freed \cup {frame[t].block}
    /\ UNCHANGED <<use, semaVars, member, waiters, dsema_notify_head, dsn_next, submitted, awaits>>

WakeDone(t) ==
    /\ On(t, "submit") /\ frame[t].signals = 0 /\ frame[t].block = None
    /\ do_ref_cnt' = IF frame[t].drop THEN do_ref_cnt - 1 ELSE do_ref_cnt
    /\ Return(t)
    /\ UNCHANGED <<use, counters, held, dsema_sent_ksignals, dsema_port, pc, timeout, member, waiters, list>>

Waking(t) == frame[t].at \in {"wake", "take", "submit", "next"}
-----------------------------------------------------------------------------
\* dispatch_group_notify_f: claim the tail, then link the block behind the one that
\* was the last, or publish it as the head and look whether the group is empty.
dispatch_group_notify(t, b) ==
    /\ held /\ Free(t) /\ awaits[b].state = "new"
    /\ dsema_notify_tail' = b
    /\ Is(t, [Idle EXCEPT !.at = IF dsema_notify_tail = None THEN "retain" ELSE "link",
                          !.who = b, !.block = dsema_notify_tail])
    /\ awaits' = [awaits EXCEPT ![b] =
           [state |-> IF \E u \in Threads : Waking(u) THEN "amid" ELSE "apart", members |-> Inside]]
    /\ UNCHANGED <<use, semaVars, member, waiters, dsema_notify_head, dsn_next, freed, submitted>>

Link(t) ==
    /\ On(t, "link")
    /\ dsn_next' = [dsn_next EXCEPT ![frame[t].block] = frame[t].who]
    /\ Is(t, Idle)
    /\ UNCHANGED <<use, semaVars, member, waiters, dsema_notify_head, dsema_notify_tail, freed, submitted, awaits>>

\* A variant for the mutant: no reference for the blocks on the list.
RetainNothing(t) ==
    /\ On(t, "retain") /\ Do(t, "publish")
    /\ UNCHANGED <<use, semaVars, member, waiters, list>>

RetainGroup(t) ==
    /\ On(t, "retain")
    /\ do_ref_cnt' = do_ref_cnt + 1
    /\ Do(t, "publish")
    /\ UNCHANGED <<use, counters, held, dsema_sent_ksignals, dsema_port, pc, timeout, member, waiters, list>>

Publish(t) ==
    /\ On(t, "publish")
    /\ dsema_notify_head' = frame[t].who
    /\ Do(t, "notified")
    /\ UNCHANGED <<use, semaVars, member, waiters, dsema_notify_tail, dsn_next, freed, submitted, awaits>>

\* A variant for the mutant: it is left to the members to wake the group.
NotifierLeaves(t) ==
    /\ On(t, "notified") /\ Is(t, Idle)
    /\ UNCHANGED <<use, semaVars, member, waiters, list>>

NotifierLooks(t) ==
    /\ On(t, "notified")
    /\ Is(t, IF AllLeft THEN [Idle EXCEPT !.at = "wake"] ELSE Idle)
    /\ UNCHANGED <<use, semaVars, member, waiters, list>>
-----------------------------------------------------------------------------
\* dispatch_group_wait, from one thread at a time (group.h), and
\* _dispatch_group_wait_slow.
dispatch_group_wait(t, to) ==
    /\ held /\ Free(t)
    /\ \A u \in Threads : frame[u].at \notin GroupWaiting
    /\ IF AllLeft \/ to = "now"
       THEN UNCHANGED frame
       ELSE Is(t, [Idle EXCEPT !.at = "look", !.timed = (to = "later")])
    /\ UNCHANGED <<use, semaVars, member, waiters, list>>

WaiterLooks(t) ==
    /\ On(t, "look")
    /\ IF AllLeft THEN Is(t, [Idle EXCEPT !.at = "wake"]) ELSE Do(t, "enlist")
    /\ UNCHANGED <<use, semaVars, member, waiters, list>>

Enlist(t) ==
    /\ On(t, "enlist")
    /\ dsema_group_waiters' = dsema_group_waiters + 1
    /\ Do(t, "recheck")
    /\ UNCHANGED <<use, semaVars, member, dsema_waiter_port, list>>

\* A variant for the mutant: "check the values again" left out.
WaiterSleeps(t) ==
    /\ On(t, "recheck") /\ Do(t, IF frame[t].timed THEN "timedwait" ELSE "wait")
    /\ UNCHANGED <<use, semaVars, member, waiters, list>>

WaiterLooksAgain(t) ==
    /\ On(t, "recheck")
    /\ IF AllLeft THEN Is(t, [Idle EXCEPT !.at = "wake"])
       ELSE Do(t, IF frame[t].timed THEN "timedwait" ELSE "wait")
    /\ UNCHANGED <<use, semaVars, member, waiters, list>>

KernelSignalsWaiter(t) ==
    /\ frame[t].at \in {"timedwait", "wait"} /\ dsema_waiter_port > 0
    /\ dsema_waiter_port' = dsema_waiter_port - 1
    /\ Do(t, "look")
    /\ UNCHANGED <<use, semaVars, member, dsema_group_waiters, list>>

\* For no reason; the waiter then enlists once more.
KernelWakesWaiter(t) ==
    /\ frame[t].at \in {"timedwait", "wait"} /\ dsema_group_waiters < use.signals
    /\ Do(t, "look")
    /\ UNCHANGED <<use, semaVars, member, waiters, list>>

WaiterTimesOut(t) ==
    /\ On(t, "timedwait")
    /\ Do(t, "undo")
    /\ UNCHANGED <<use, semaVars, member, waiters, list>>

\* Whether nobody has taken the waiters since.  The variant for the mutant has no test.
AnyWaiters   == TRUE
StillWaiting == dsema_group_waiters > 0

\* "undo the earlier change to dsema->dsema_group_waiters", or drain the signal.
WaiterUndoes(t) ==
    /\ On(t, "undo")
    /\ IF StillWaiting
       THEN dsema_group_waiters' = dsema_group_waiters - 1 /\ Is(t, Idle)
       ELSE Do(t, "wait") /\ UNCHANGED dsema_group_waiters
    /\ UNCHANGED <<use, semaVars, member, dsema_waiter_port, list>>

\* dispatch_release by the client, outside of its calls; members that run may go on.
ReleaseGroup ==
    /\ held
    /\ \A t \in Threads : frame[t].at = "idle" \/ frame[t].who \in {m \in Members : member[m] = "left"}
    /\ held' = FALSE
    /\ do_ref_cnt' = do_ref_cnt - 1
    /\ UNCHANGED <<counters, dsema_sent_ksignals, dsema_port, pc, timeout, groupVars>>
-----------------------------------------------------------------------------
Init ==
    /\ use \in Uses
    /\ SemaInit /\ dsema_value = use.value
    /\ member = [m \in Members |-> "out"]
    /\ dsema_group_waiters = 0 /\ dsema_waiter_port = 0
    /\ dsema_notify_head = None /\ dsema_notify_tail = None
    /\ dsn_next = [b \in Blocks |-> None]
    /\ freed = {}
    /\ submitted = [b \in Blocks |-> 0]
    /\ awaits = [b \in Blocks |-> [state |-> "new", members |-> {}]]
    /\ frame = [t \in Threads |-> Idle]

GroupContinue(t) ==
    \/ dispatch_group_enter(t) \/ Pushed(t) \/ LeaverLooks(t) \/ Drop(t)
    \/ TakeList(t) \/ TakeWaiters(t) \/ SignalWaiter(t) \/ Submit(t) \/ NextBlock(t) \/ WakeDone(t)
    \/ Link(t) \/ RetainGroup(t) \/ Publish(t) \/ NotifierLooks(t)
    \/ WaiterLooks(t) \/ Enlist(t) \/ WaiterLooksAgain(t) \/ KernelSignalsWaiter(t) \/ WaiterUndoes(t)

\* A thread goes on with its call.
Continue(t) == \/ SemaContinue(t) /\ UNCHANGED groupVars
               \/ IsGroup /\ GroupContinue(t)

Kernel(t) == \/ SemaKernel(t) /\ UNCHANGED groupVars
             \/ KernelWakesWaiter(t) \/ WaiterTimesOut(t)

\* The bounds on signals that no thread has come for.
FewSignals == dsema_port + Cardinality(At({"retain", "count", "signal"})) < use.signals
FewWaits   == dsema_group_waiters + dsema_waiter_port < use.signals

CallSemaphore(t) ==
    /\ ~IsGroup /\ t \in use.threads
    /\ \/ \E to \in Timeouts : dispatch_semaphore_wait(t, to)
       \/ held /\ FewSignals /\ dispatch_semaphore_signal(t)
    /\ UNCHANGED groupVars

CallGroup(t) ==
    /\ IsGroup /\ t \in use.threads
    /\ \/ \E m \in use.members : dispatch_group_async(t, m)
       \/ \E b \in use.blocks : dispatch_group_notify(t, b)
       \/ \E to \in Timeouts : t \in use.waits /\ FewWaits /\ dispatch_group_wait(t, to)

Leave(m) == IsGroup /\ \E t \in use.threads : dispatch_group_leave(t, m)

Next ==
    \/ \E t \in Threads : CallSemaphore(t) \/ CallGroup(t) \/ Continue(t) \/ Kernel(t)
    \/ \E m \in Members : Leave(m)
    \/ ~IsGroup /\ dispatch_release /\ UNCHANGED groupVars
    \/ IsGroup /\ ReleaseGroup

vars == <<semaVars, groupVars>>

Spec == Init /\ [][Next]_vars

\* Threads run, the kernel delivers a signal that it holds, and members end.
LiveSpec == /\ Spec
            /\ \A t \in Threads : WF_vars(Continue(t))
            /\ \A m \in Members : WF_vars(Leave(m))
-----------------------------------------------------------------------------
Places == {"idle", "enter", "push", "left", "drop", "wake", "take", "submit", "next",
           "link", "retain", "publish", "notified"} \cup GroupWaiting

TypeOK ==
    /\ SemaTypeOK
    /\ use \in Uses
    /\ member \in [Members -> {"out", "entering", "in", "left"}]
    /\ dsema_group_waiters \in Nat /\ dsema_waiter_port \in Nat
    /\ {dsema_notify_head, dsema_notify_tail} \subseteq Blocks \cup {None}
    /\ dsn_next \in [Blocks -> Blocks \cup {None}]
    /\ freed \subseteq Blocks
    /\ submitted \in [Blocks -> Nat]
    /\ awaits \in [Blocks -> [state : {"new", "amid", "apart"}, members : SUBSET Members]]
    /\ frame \in [Threads -> [at : Places, who : Members \cup Blocks \cup {None},
                              block : Blocks \cup {None}, signals : Nat, drop : BOOLEAN,
                              timed : BOOLEAN]]

\* A registered block is submitted at most once, and neither end of the list nor the
\* element a thread links behind is one that a waking thread has freed.
ListIsSound ==
    /\ \A b \in Blocks : submitted[b] <= 1 /\ (submitted[b] = 1 => awaits[b].state # "new")
    /\ {dsema_notify_head, dsema_notify_tail} \cap freed = {}
    /\ \A t \in Threads : On(t, "link") => frame[t].block \notin freed

\* "The group will be empty": the members that were inside when a block was registered
\* have left when it is submitted.
AllHaveLeft(b) == submitted[b] > 0 => \A m \in awaits[b].members : member[m] = "left"
NotifyWaitsForMembers == \A b \in Blocks : AllHaveLeft(b)

\* This holds of the blocks that are registered while no thread is in
\* _dispatch_group_wake.
NotifyWaitsUnlessAmidWake == \A b \in Blocks : awaits[b].state = "apart" => AllHaveLeft(b)

\* The group is not disposed of while a thread is in one of its functions, while a
\* block waits to be submitted, or while a member is inside: the references that
\* dispatch_group_async and dispatch_group_notify take stand for the client's.
GroupOutlivesItsUsers ==
    do_ref_cnt = 0 => /\ \A t \in Threads : frame[t].at = "idle"
                      /\ dsema_notify_tail = None
                      /\ dsema_value >= dsema_orig

\* Once its members have left, every block that was registered is submitted.
EveryNotifyHappens ==
    \A b \in Blocks : (awaits[b].state # "new") ~> (submitted[b] > 0)

\* dispatch_group_wait returns once the members have left, with a signal or, if a
\* timeout and a signal meet, having drained the signal.
EveryGroupWaitEnds ==
    \A t \in Threads : (frame[t].at \in GroupWaiting) ~> (frame[t].at \notin GroupWaiting)

\* The threads of a group work on memory that is still there: the elements of its list
\* and the group itself.
MemoryIsThere == ListIsSound /\ GroupOutlivesItsUsers

\* What waits for the group to be empty, a block or a thread, goes on in the end.
EveryWaitEnds == EveryNotifyHappens /\ EveryGroupWaitEnds
=============================================================================
