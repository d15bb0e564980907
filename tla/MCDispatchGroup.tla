--------------------------- MODULE MCDispatchGroup ---------------------------
(***************************************************************************)
(* Uses of semaphores and groups for TLC: two semaphores, and groups with   *)
(* what is raced taken in turn, each combination small.                     *)
(***************************************************************************)
EXTENDS DispatchGroup

CONSTANTS t1, t2, t3, m1, m2, b1, b2

MCThreads == {t1, t2, t3}
MCMembers == {m1, m2}
MCBlocks  == {b1, b2}
MCMax     == 2

\* Threads wait and signal; at zero each may hand a permit to another.
Semaphore(value, threads) ==
    [value |-> value, threads |-> threads, members |-> {}, blocks |-> {},
     waits |-> {}, signals |-> 2]

Group(threads, members, blocks, waits) ==
    [value |-> MCMax, threads |-> threads, members |-> members, blocks |-> blocks,
     waits |-> waits, signals |-> 1]

TwoRegister == Group({t1, t2}, {m1}, MCBlocks, {})       \* two push on the list, one wakes
TwoLeave    == Group(MCThreads, MCMembers, {}, {t1})     \* two leave while one waits
WaitAndTell == Group(MCThreads, {m1}, {b1}, {t1})        \* a waiter, a block, a leaver
Again       == Group({t1, t2}, MCMembers, {b1}, {})      \* the group fills again
WakesOften  == [Group({t1, t2}, {m1}, {}, {t1}) EXCEPT !.signals = 2]  \* for no reason
AgainTwice  == Group({t1, t2}, MCMembers, MCBlocks, {})

MCUses == {Semaphore(0, MCThreads), Semaphore(1, {t1, t2}), TwoRegister, TwoLeave,
           WaitAndTell, Again, WakesOften}

RefillUse == {AgainTwice}
=============================================================================
