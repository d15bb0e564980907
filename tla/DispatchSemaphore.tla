-------------------------- MODULE DispatchSemaphore --------------------------
(***************************************************************************)
(* dispatch_semaphore_s of libdispatch-84.5.5 (src/semaphore.c): a counter  *)
(* that callers change with one atomic instruction, and for those who must  *)
(* wait a semaphore of the kernel, which may wake a thread for no reason.   *)
(* dsema_sent_ksignals counts the wakeups that are meant.  A step is one    *)
(* access to memory that other threads write, or one call of the kernel.    *)
(***************************************************************************)
EXTENDS Integers, FiniteSets

CONSTANTS
    Threads,
    Values,         \* what dispatch_semaphore_create may be given
    LONG_MAX        \* the largest long

ASSUME ThreadsAssumption == IsFiniteSet(Threads)
ASSUME ValuesAssumption == LONG_MAX \in Nat /\ Values \subseteq 0 .. LONG_MAX

VARIABLES
    dsema_value,
    dsema_orig,
    dsema_sent_ksignals,
    dsema_port,     \* signals the kernel's semaphore holds
    do_ref_cnt,
    held,           \* the client has not released the semaphore
    pc,             \* where each thread is
    timeout         \* the timeout of the wait it is in

counters == <<dsema_value, dsema_orig>>
lifetime == <<do_ref_cnt, held>>
semaVars == <<counters, lifetime, dsema_sent_ksignals, dsema_port, pc, timeout>>

Timeouts   == {"now", "later", "forever"}
Waiting    == {"again", "undo", "timedwait", "wait"}
Signalling == {"retain", "count", "signal", "release"}
-----------------------------------------------------------------------------
Go(t, to) == pc' = [pc EXCEPT ![t] = to]

StopWaiting(t) == Go(t, "idle") /\ timeout' = [timeout EXCEPT ![t] = "forever"]

At(set) == {t \in Threads : pc[t] \in set}

\* dispatch_semaphore_create, its reference with the client.
dispatch_semaphore_create ==
    /\ dsema_value \in Values /\ dsema_orig = dsema_value
    /\ dsema_sent_ksignals = 0 /\ dsema_port = 0
    /\ do_ref_cnt = 1 /\ held = TRUE

\* dispatch_semaphore_wait: "lock decq", done unless the result is negative.
dispatch_semaphore_wait(t, to) ==
    /\ held /\ pc[t] = "idle"
    /\ dsema_value' = dsema_value - 1
    /\ IF dsema_value > 0
       THEN UNCHANGED <<pc, timeout>>
       ELSE Go(t, "again") /\ timeout' = [timeout EXCEPT ![t] = to]
    /\ UNCHANGED <<dsema_orig, lifetime, dsema_sent_ksignals, dsema_port>>

\* Variants for the mutants: a wakeup is taken and left for the next thread too; a
\* thread goes to the kernel without a look at the wakeups.
TakeAndLeave(t) ==
    /\ pc[t] = "again" /\ dsema_sent_ksignals > 0
    /\ StopWaiting(t)
    /\ UNCHANGED <<counters, lifetime, dsema_sent_ksignals, dsema_port>>

EnterBlindly(t) ==
    /\ pc[t] = "again"
    /\ Go(t, IF timeout[t] = "later" THEN "timedwait" ELSE "wait")
    /\ UNCHANGED <<counters, lifetime, dsema_sent_ksignals, dsema_port, timeout>>

\* _dispatch_semaphore_wait_slow from its label "again": take a wakeup that was
\* sent, or go to the kernel.
TakeWakeup(t) ==
    /\ pc[t] = "again" /\ dsema_sent_ksignals > 0
    /\ dsema_sent_ksignals' = dsema_sent_ksignals - 1
    /\ StopWaiting(t)
    /\ UNCHANGED <<counters, lifetime, dsema_port>>

EnterKernel(t) ==
    /\ pc[t] = "again" /\ dsema_sent_ksignals = 0
    /\ Go(t, CASE timeout[t] = "now"   -> "undo"
               [] timeout[t] = "later" -> "timedwait"
               [] OTHER                -> "wait")
    /\ UNCHANGED <<counters, lifetime, dsema_sent_ksignals, dsema_port, timeout>>

\* semaphore_wait or semaphore_timedwait returns with a signal, or for no reason.
KernelSignals(t) ==
    /\ pc[t] \in {"timedwait", "wait"} /\ dsema_port > 0
    /\ dsema_port' = dsema_port - 1
    /\ Go(t, "again")
    /\ UNCHANGED <<counters, lifetime, dsema_sent_ksignals, timeout>>

KernelWakesForNothing(t) ==
    /\ pc[t] \in {"timedwait", "wait"}
    /\ Go(t, "again")
    /\ UNCHANGED <<counters, lifetime, dsema_sent_ksignals, dsema_port, timeout>>

KernelTimesOut(t) ==
    /\ pc[t] = "timedwait"
    /\ Go(t, "undo")
    /\ UNCHANGED <<counters, lifetime, dsema_sent_ksignals, dsema_port, timeout>>

\* A variant for the mutant: the counter is put back though a signal is on its way.
UndoAlways(t) ==
    /\ pc[t] = "undo"
    /\ dsema_value' = dsema_value + 1 /\ StopWaiting(t)
    /\ UNCHANGED <<dsema_orig, lifetime, dsema_sent_ksignals, dsema_port>>

\* "undo what the fast path did to dsema->dsema_value", possible only while it is
\* negative: else a signal is on its way, and the thread drains it.
Undo(t) ==
    /\ pc[t] = "undo"
    /\ IF dsema_value < 0
       THEN dsema_value' = dsema_value + 1 /\ StopWaiting(t)
       ELSE Go(t, "wait") /\ UNCHANGED <<dsema_value, timeout>>
    /\ UNCHANGED <<dsema_orig, lifetime, dsema_sent_ksignals, dsema_port>>

\* dispatch_semaphore_signal: "lock incq".  Clients signal no more than a long can
\* hold: where it overflows (:307-312) the process ends, and here nothing is done.
dispatch_semaphore_signal(t) ==
    /\ pc[t] = "idle" /\ dsema_value < LONG_MAX
    /\ dsema_value' = dsema_value + 1
    /\ IF dsema_value >= 0 THEN UNCHANGED pc ELSE Go(t, "retain")
    /\ UNCHANGED <<dsema_orig, lifetime, dsema_sent_ksignals, dsema_port, timeout>>

\* Variants for the mutants: no reference is taken; the kernel is not told.
RetainNot(t) ==
    /\ pc[t] = "retain" /\ Go(t, "count")
    /\ UNCHANGED <<counters, lifetime, dsema_sent_ksignals, dsema_port, timeout>>

SignalNobody(t) ==
    /\ pc[t] = "signal" /\ Go(t, "release")
    /\ UNCHANGED <<counters, lifetime, dsema_sent_ksignals, dsema_port, timeout>>

\* _dispatch_semaphore_signal_slow: a reference of its own, for the waiter may return
\* and drop the last one as soon as the wakeup is counted.
Retain(t) ==
    /\ pc[t] = "retain"
    /\ do_ref_cnt' = do_ref_cnt + 1
    /\ Go(t, "count")
    /\ UNCHANGED <<counters, held, dsema_sent_ksignals, dsema_port, timeout>>

CountWakeup(t) ==
    /\ pc[t] = "count"
    /\ dsema_sent_ksignals' = dsema_sent_ksignals + 1
    /\ Go(t, "signal")
    /\ UNCHANGED <<counters, lifetime, dsema_port, timeout>>

SignalKernel(t) ==
    /\ pc[t] = "signal"
    /\ dsema_port' = dsema_port + 1
    /\ Go(t, "release")
    /\ UNCHANGED <<counters, lifetime, dsema_sent_ksignals, timeout>>

Release(t) ==
    /\ pc[t] = "release"
    /\ do_ref_cnt' = do_ref_cnt - 1
    /\ Go(t, "idle")
    /\ UNCHANGED <<counters, held, dsema_sent_ksignals, dsema_port, timeout>>

\* dispatch_release by a client that waits no more and has signalled as often as it
\* waited: with a count below the original _dispatch_semaphore_dispose traps (:480).
dispatch_release ==
    /\ held /\ At(Waiting) = {} /\ dsema_value >= dsema_orig
    /\ held' = FALSE
    /\ do_ref_cnt' = do_ref_cnt - 1
    /\ UNCHANGED <<counters, dsema_sent_ksignals, dsema_port, pc, timeout>>
-----------------------------------------------------------------------------
SemaInit ==
    /\ dispatch_semaphore_create
    /\ pc = [t \in Threads |-> "idle"]
    /\ timeout = [t \in Threads |-> "forever"]

\* What a thread that is inside a call goes on to do, and what the kernel does for it.
SemaContinue(t) == \/ TakeWakeup(t) \/ EnterKernel(t) \/ KernelSignals(t) \/ Undo(t)
                   \/ Retain(t) \/ CountWakeup(t) \/ SignalKernel(t) \/ Release(t)

SemaKernel(t) == KernelWakesForNothing(t) \/ KernelTimesOut(t)

SemaNext ==
    \/ \E t \in Threads :
         \/ \E to \in Timeouts : dispatch_semaphore_wait(t, to)
         \/ held /\ dispatch_semaphore_signal(t)
         \/ SemaContinue(t)
         \/ SemaKernel(t)
    \/ dispatch_release

SemaSpec == SemaInit /\ [][SemaNext]_semaVars
-----------------------------------------------------------------------------
Positive(n) == IF n > 0 THEN n ELSE 0

SemaTypeOK ==
    /\ dsema_value \in Int /\ dsema_value <= LONG_MAX
    /\ dsema_orig \in Values
    /\ dsema_sent_ksignals \in Nat
    /\ dsema_port \in Nat
    /\ do_ref_cnt \in Nat
    /\ held \in BOOLEAN
    /\ pc \in [Threads -> {"idle"} \cup Waiting \cup Signalling]
    /\ timeout \in [Threads -> Timeouts]

\* Wakeups that a signal has promised and not yet counted.
Coming == Cardinality(At({"retain", "count"}))

\* Every wakeup that is counted or coming is for a thread that waits, and the other
\* waiting threads are what the counter is below zero: a wait that times out while
\* it is signalled takes neither somebody else's permit nor leaves one over.
EveryWakeupHasItsWaiter ==
    Cardinality(At(Waiting)) = Positive(-dsema_value) + Coming + dsema_sent_ksignals

\* A counted wakeup is not lost though the kernel wakes threads for nothing and
\* threads give up: a signal in the kernel, or on its way there, or a thread that is
\* about to look stands for it.
NoLostWakeup ==
    dsema_sent_ksignals <= dsema_port + Cardinality(At({"signal"})) + Cardinality(At({"again"}))

\* A semaphore is not disposed of while a thread is in one of its functions, though
\* the waiter may release it before the signal that woke it has returned.
OutlivesItsCalls == At(Waiting \cup Signalling) # {} => do_ref_cnt > 0

\* The permits of the abstract semaphore: those the counter shows, and those that
\* are on their way to a thread that waits.
permits == Positive(dsema_value) + Coming + dsema_sent_ksignals

Abstract == INSTANCE CountingSemaphore WITH waiting <- At(Waiting)

\* dispatch_semaphore_wait and dispatch_semaphore_signal keep what a counting
\* semaphore promises.
KeepsCount == Abstract!Spec

\* Whoever waits while there is a permit is given it.
GrantsPermits == Abstract!Settling
=============================================================================
