-------------------------- MODULE CountingSemaphore --------------------------
(***************************************************************************)
(* What dispatch_semaphore_wait and dispatch_semaphore_signal promise       *)
(* together: permits are neither made nor lost, a caller that need not wait *)
(* leaves a permit to everyone who does, and a wait gives up only while it  *)
(* has no permit coming.                                                    *)
(***************************************************************************)
EXTENDS Naturals, FiniteSets

CONSTANTS
    Threads,
    Values          \* the permits a semaphore may be created with

VARIABLES
    permits,        \* signals that no wait has taken yet
    waiting         \* threads that wait

vars == <<permits, waiting>>

Spare == permits > Cardinality(waiting)

Init == permits \in Values /\ waiting = {}

Signal == permits' = permits + 1 /\ UNCHANGED waiting

TakeAtOnce == Spare /\ permits' = permits - 1 /\ UNCHANGED waiting

Block(t) ==
    /\ ~Spare /\ t \notin waiting
    /\ waiting' = waiting \cup {t}
    /\ UNCHANGED permits

Grant(t) ==
    /\ t \in waiting /\ permits > 0
    /\ permits' = permits - 1
    /\ waiting' = waiting \ {t}

GiveUp(t) ==
    /\ t \in waiting /\ permits < Cardinality(waiting)
    /\ waiting' = waiting \ {t}
    /\ UNCHANGED permits

Next == \/ Signal
        \/ TakeAtOnce
        \/ \E t \in Threads : Block(t) \/ Grant(t) \/ GiveUp(t)

Spec == Init /\ [][Next]_vars

\* A permit that someone waits for is taken, or the wait gives up.
Settling == WF_vars(\E t \in Threads : Grant(t))
=============================================================================
