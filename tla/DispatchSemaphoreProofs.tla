----------------------- MODULE DispatchSemaphoreProofs -----------------------
(***************************************************************************)
(* Theorems about DispatchSemaphore for every finite set of threads and     *)
(* every initial value.  They rest on one inductive invariant, which counts *)
(* the threads at the places of the code.                                   *)
(***************************************************************************)
EXTENDS DispatchSemaphore, FiniteSetTheorems, TLAPS

One(condition) == IF condition THEN 1 ELSE 0

\* The places from which a signal gives back the reference that it took.
Holding == {"count", "signal", "release"}

\* The part of the invariant that the counter, the wakeups and the kernel's signals make
\* up: it holds whatever else takes references to the object.
CountTypeOK ==
    /\ dsema_value \in Int /\ dsema_value <= LONG_MAX
    /\ dsema_orig \in Values
    /\ dsema_sent_ksignals \in Nat
    /\ dsema_port \in Nat
    /\ do_ref_cnt \in Int
    /\ held \in BOOLEAN
    /\ pc \in [Threads -> {"idle"} \cup Waiting \cup Signalling]
    /\ timeout \in [Threads -> Timeouts]

CountInv == CountTypeOK /\ EveryWakeupHasItsWaiter /\ NoLostWakeup

\* What the references are: the client's, and one of each signal that has taken one.
References ==
    /\ do_ref_cnt = One(held) + Cardinality(At(Holding))
    /\ ~held => At(Waiting) = {}

IInv == CountInv /\ References

\* What a step of a thread does to the references: it keeps all but those of signals, and
\* nobody begins to wait once the client has released the object.
HoldsKept ==
    /\ held' = held
    /\ do_ref_cnt' = do_ref_cnt + (Cardinality(At(Holding)') - Cardinality(At(Holding)))
    /\ ~held /\ At(Waiting) = {} => At(Waiting)' = {}

\* The number of threads at some places is a natural number.
LEMMA AtCount ==
    ASSUME NEW set
    PROVE  /\ IsFiniteSet(At(set)) /\ Cardinality(At(set)) \in Nat
           /\ Cardinality(At(set)) = 0 <=> At(set) = {}
<1>1. At(set) \in SUBSET Threads
  BY DEF At
<1>2. IsFiniteSet(At(set))
  BY <1>1, ThreadsAssumption, FS_Subset
<1> QED
  BY <1>2, FS_CardinalityType, FS_EmptySet

\* A thread that goes to a place changes the number of threads at some places only by
\* itself.
LEMMA GoCount ==
    ASSUME CountTypeOK, NEW t \in Threads, NEW CONSTANT to, Go(t, to), NEW CONSTANT set
    PROVE  /\ At(set)' = IF to \in set THEN At(set) \cup {t} ELSE At(set) \ {t}
           /\ Cardinality(At(set)') = Cardinality(At(set)) + One(to \in set) - One(pc[t] \in set)
<1>1. At(set)' = IF to \in set THEN At(set) \cup {t} ELSE At(set) \ {t}
  BY DEF At, Go, CountTypeOK
<1>2. t \in At(set) <=> pc[t] \in set
  BY DEF At
<1>3. IsFiniteSet(At(set)) /\ Cardinality(At(set)) \in Nat
  BY AtCount
<1>4. Cardinality(At(set)') = IF to \in set
          THEN IF pc[t] \in set THEN Cardinality(At(set)) ELSE Cardinality(At(set)) + 1
          ELSE IF pc[t] \in set THEN Cardinality(At(set)) - 1 ELSE Cardinality(At(set))
  <2>1. Cardinality(At(set) \cup {t}) =
            IF t \in At(set) THEN Cardinality(At(set)) ELSE Cardinality(At(set)) + 1
    BY <1>3, FS_AddElement
  <2>2. Cardinality(At(set) \ {t}) =
            IF t \in At(set) THEN Cardinality(At(set)) - 1 ELSE Cardinality(At(set))
    BY <1>3, FS_RemoveElement
  <2> QED
    BY <1>1, <1>2, <2>1, <2>2
<1> QED
  BY <1>1, <1>3, <1>4 DEF One

\* If no thread goes anywhere, the threads at any place are the same.
LEMMA StayCount ==
    ASSUME UNCHANGED pc, NEW CONSTANT set
    PROVE  At(set)' = At(set)
  BY DEF At

-----------------------------------------------------------------------------
\* The five counts that the invariant is about, before and after a thread goes somewhere.
LEMMA GoCounts ==
    ASSUME CountTypeOK, NEW t \in Threads, NEW CONSTANT to, Go(t, to)
    PROVE  /\ Cardinality(At(Waiting)') =
                Cardinality(At(Waiting)) + One(to \in Waiting) - One(pc[t] \in Waiting)
           /\ Coming' = Coming + One(to \in {"retain", "count"}) - One(pc[t] \in {"retain", "count"})
           /\ Cardinality(At({"signal"})') =
                Cardinality(At({"signal"})) + One(to = "signal") - One(pc[t] = "signal")
           /\ Cardinality(At({"again"})') =
                Cardinality(At({"again"})) + One(to = "again") - One(pc[t] = "again")
           /\ Cardinality(At(Holding)') =
                Cardinality(At(Holding)) + One(to \in Holding) - One(pc[t] \in Holding)
<1>1. ASSUME NEW CONSTANT set
      PROVE  Cardinality(At(set)') = Cardinality(At(set)) + One(to \in set) - One(pc[t] \in set)
  BY GoCount
<1>2. /\ Cardinality(At({"signal"})') =
           Cardinality(At({"signal"})) + One(to \in {"signal"}) - One(pc[t] \in {"signal"})
      /\ Cardinality(At({"again"})') =
           Cardinality(At({"again"})) + One(to \in {"again"}) - One(pc[t] \in {"again"})
  BY <1>1
<1>3. /\ Cardinality(At({"retain", "count"})') = Cardinality(At({"retain", "count"}))
           + One(to \in {"retain", "count"}) - One(pc[t] \in {"retain", "count"})
      /\ Cardinality(At(Waiting)') =
           Cardinality(At(Waiting)) + One(to \in Waiting) - One(pc[t] \in Waiting)
      /\ Cardinality(At(Holding)') =
           Cardinality(At(Holding)) + One(to \in Holding) - One(pc[t] \in Holding)
  BY <1>1
<1> QED
  BY <1>2, <1>3 DEF Coming, One

\* The counts are natural numbers.
LEMMA CountsTyped ==
    /\ Cardinality(At(Waiting)) \in Nat /\ Coming \in Nat
    /\ Cardinality(At({"signal"})) \in Nat /\ Cardinality(At({"again"})) \in Nat
    /\ Cardinality(At(Holding)) \in Nat
  BY AtCount DEF Coming

\* A thread at one of some places is counted there.
LEMMA Present ==
    ASSUME NEW t \in Threads, NEW CONSTANT set, pc[t] \in set
    PROVE  Cardinality(At(set)) >= 1 /\ At(set) # {}
<1>1. At(set) # {}
  BY DEF At
<1> QED
  BY <1>1, AtCount

\* Only a thread that begins to wait adds to those who wait.
LEMMA NobodyBegins ==
    ASSUME CountTypeOK, NEW t \in Threads, NEW CONSTANT to, Go(t, to), to \notin Waiting
    PROVE  At(Waiting) = {} => At(Waiting)' = {}
<1>1. At(Waiting)' = At(Waiting) \ {t}
  BY GoCount
<1> QED
  BY <1>1

-----------------------------------------------------------------------------
\* Each step of a thread that waits, and of one that signals, keeps the invariant.
LEMMA WaitStep ==
    ASSUME CountInv, NEW t \in Threads, NEW to \in Timeouts, dispatch_semaphore_wait(t, to)
    PROVE  CountInv' /\ HoldsKept
<1> USE DEF CountInv
<1>1. CASE dsema_value > 0
  <2>1. UNCHANGED <<pc, timeout, dsema_orig, do_ref_cnt, held, dsema_sent_ksignals, dsema_port>>
        /\ dsema_value' = dsema_value - 1
    BY <1>1 DEF dispatch_semaphore_wait, lifetime
  <2>2. CountTypeOK'
    BY <2>1, ValuesAssumption DEF CountTypeOK
  <2>3. \A set \in {Waiting, Holding, {"signal"}, {"again"}, {"retain", "count"}} :
            At(set)' = At(set)
    BY <2>1, StayCount
  <2>4. EveryWakeupHasItsWaiter'
    BY <1>1, <2>1, <2>3 DEF EveryWakeupHasItsWaiter, Coming, Positive, CountTypeOK
  <2>5. NoLostWakeup' /\ HoldsKept
    BY <2>1, <2>3, CountsTyped DEF NoLostWakeup, HoldsKept, CountTypeOK
  <2> QED
    BY <2>2, <2>4, <2>5
<1>2. CASE ~(dsema_value > 0)
  <2>1. /\ Go(t, "again") /\ timeout' = [timeout EXCEPT ![t] = to]
        /\ UNCHANGED <<dsema_orig, do_ref_cnt, held, dsema_sent_ksignals, dsema_port>>
        /\ dsema_value' = dsema_value - 1
        /\ held /\ pc[t] = "idle"
    BY <1>2 DEF dispatch_semaphore_wait, lifetime
  <2>2. CountTypeOK'
    BY <2>1, ValuesAssumption DEF CountTypeOK, Go, Waiting
  <2>3. /\ Cardinality(At(Waiting)') = Cardinality(At(Waiting)) + 1
        /\ Coming' = Coming
        /\ Cardinality(At({"signal"})') = Cardinality(At({"signal"}))
        /\ Cardinality(At({"again"})') = Cardinality(At({"again"})) + 1
        /\ Cardinality(At(Holding)') = Cardinality(At(Holding))
    BY <2>1, GoCounts, CountsTyped DEF One, Waiting, Holding
  <2>4. EveryWakeupHasItsWaiter'
    BY <1>2, <2>1, <2>3, CountsTyped DEF EveryWakeupHasItsWaiter, Positive, CountTypeOK
  <2>5. NoLostWakeup' /\ HoldsKept
    BY <2>1, <2>3, CountsTyped DEF NoLostWakeup, HoldsKept, CountTypeOK
  <2> QED
    BY <2>2, <2>4, <2>5
<1> QED
  BY <1>1, <1>2

LEMMA TakeStep ==
    ASSUME CountInv, NEW t \in Threads, TakeWakeup(t)
    PROVE  CountInv' /\ HoldsKept
<1> USE DEF CountInv
<1>1. /\ pc[t] = "again" /\ dsema_sent_ksignals > 0
      /\ dsema_sent_ksignals' = dsema_sent_ksignals - 1
      /\ Go(t, "idle") /\ timeout' = [timeout EXCEPT ![t] = "forever"]
      /\ UNCHANGED <<dsema_value, dsema_orig, do_ref_cnt, held, dsema_port>>
  BY DEF TakeWakeup, StopWaiting, counters, lifetime
<1>2. CountTypeOK'
  BY <1>1 DEF CountTypeOK, Go, Timeouts
<1>3. /\ Cardinality(At(Waiting)') = Cardinality(At(Waiting)) - 1
      /\ Coming' = Coming
      /\ Cardinality(At({"signal"})') = Cardinality(At({"signal"}))
      /\ Cardinality(At({"again"})') = Cardinality(At({"again"})) - 1
      /\ Cardinality(At(Holding)') = Cardinality(At(Holding))
  BY <1>1, GoCounts, CountsTyped DEF One, Waiting, Holding
<1>4. EveryWakeupHasItsWaiter' /\ NoLostWakeup'
  BY <1>1, <1>3, CountsTyped DEF EveryWakeupHasItsWaiter, NoLostWakeup, Positive, CountTypeOK
<1>5. HoldsKept
  BY <1>1, <1>3, NobodyBegins, CountsTyped DEF HoldsKept, CountTypeOK, Waiting, One
<1> QED
  BY <1>2, <1>4, <1>5

LEMMA EnterStep ==
    ASSUME CountInv, NEW t \in Threads, EnterKernel(t)
    PROVE  CountInv' /\ HoldsKept
<1> USE DEF CountInv
<1>1. PICK to \in {"undo", "timedwait", "wait"} : Go(t, to)
  BY DEF EnterKernel
<1>2. /\ pc[t] = "again" /\ dsema_sent_ksignals = 0
      /\ UNCHANGED <<dsema_value, dsema_orig, do_ref_cnt, held, dsema_sent_ksignals, dsema_port, timeout>>
  BY DEF EnterKernel, counters, lifetime
<1>3. CountTypeOK'
  BY <1>1, <1>2 DEF CountTypeOK, Go, Waiting
<1>4. /\ Cardinality(At(Waiting)') = Cardinality(At(Waiting))
      /\ Coming' = Coming
      /\ Cardinality(At({"signal"})') = Cardinality(At({"signal"}))
      /\ Cardinality(At({"again"})') = Cardinality(At({"again"})) - 1
      /\ Cardinality(At(Holding)') = Cardinality(At(Holding))
  BY <1>1, <1>2, GoCounts, CountsTyped DEF One, Waiting, Holding
<1>5. Cardinality(At({"again"})) >= 1 /\ At(Waiting) # {}
  BY <1>2, Present DEF Waiting
<1>6. EveryWakeupHasItsWaiter' /\ NoLostWakeup'
  BY <1>2, <1>4, <1>5, CountsTyped DEF EveryWakeupHasItsWaiter, NoLostWakeup, Positive, CountTypeOK
<1>7. HoldsKept
  BY <1>2, <1>4, <1>5, CountsTyped DEF HoldsKept, CountTypeOK, One
<1> QED
  BY <1>3, <1>6, <1>7

\* The kernel's part: it signals, wakes for nothing, or times out.
LEMMA KernelStep ==
    ASSUME CountInv, NEW t \in Threads, KernelSignals(t) \/ SemaKernel(t)
    PROVE  CountInv' /\ HoldsKept
<1> USE DEF CountInv
<1>1. /\ pc[t] \in {"timedwait", "wait"}
      /\ UNCHANGED <<dsema_value, dsema_orig, do_ref_cnt, held, dsema_sent_ksignals, timeout>>
  BY DEF KernelSignals, SemaKernel, KernelWakesForNothing, KernelTimesOut, counters, lifetime
<1>2. \/ Go(t, "again") /\ dsema_port > 0 /\ dsema_port' = dsema_port - 1
      \/ Go(t, "again") /\ dsema_port' = dsema_port
      \/ Go(t, "undo") /\ dsema_port' = dsema_port
  BY DEF KernelSignals, SemaKernel, KernelWakesForNothing, KernelTimesOut
<1>3. CountTypeOK'
  BY <1>1, <1>2 DEF CountTypeOK, Go, Waiting
<1>4. At(Waiting) # {}
  BY <1>1, Present DEF Waiting
<1>5. CASE Go(t, "again")
  <2>1. /\ Cardinality(At(Waiting)') = Cardinality(At(Waiting))
        /\ Coming' = Coming
        /\ Cardinality(At({"signal"})') = Cardinality(At({"signal"}))
        /\ Cardinality(At({"again"})') = Cardinality(At({"again"})) + 1
        /\ Cardinality(At(Holding)') = Cardinality(At(Holding))
    BY <1>1, <1>5, GoCounts, CountsTyped DEF One, Waiting, Holding
  <2>2. dsema_port' >= dsema_port - 1 /\ dsema_port' \in Nat
    BY <1>2, <1>3 DEF CountTypeOK
  <2>3. EveryWakeupHasItsWaiter' /\ NoLostWakeup'
    BY <1>1, <2>1, <2>2, CountsTyped DEF EveryWakeupHasItsWaiter, NoLostWakeup, Positive, CountTypeOK
  <2>4. HoldsKept
    BY <1>1, <1>4, <2>1, CountsTyped DEF HoldsKept, CountTypeOK, One
  <2> QED
    BY <1>3, <2>3, <2>4
<1>6. CASE Go(t, "undo") /\ dsema_port' = dsema_port
  <2>1. /\ Cardinality(At(Waiting)') = Cardinality(At(Waiting))
        /\ Coming' = Coming
        /\ Cardinality(At({"signal"})') = Cardinality(At({"signal"}))
        /\ Cardinality(At({"again"})') = Cardinality(At({"again"}))
        /\ Cardinality(At(Holding)') = Cardinality(At(Holding))
    BY <1>1, <1>6, GoCounts, CountsTyped DEF One, Waiting, Holding
  <2>2. EveryWakeupHasItsWaiter' /\ NoLostWakeup'
    BY <1>1, <1>6, <2>1, CountsTyped DEF EveryWakeupHasItsWaiter, NoLostWakeup, Positive, CountTypeOK
  <2>3. HoldsKept
    BY <1>1, <1>4, <2>1, CountsTyped DEF HoldsKept, CountTypeOK, One
  <2> QED
    BY <1>3, <2>2, <2>3
<1> QED
  BY <1>2, <1>5, <1>6

LEMMA UndoStep ==
    ASSUME CountInv, NEW t \in Threads, Undo(t)
    PROVE  CountInv' /\ HoldsKept
<1> USE DEF CountInv
<1>1. /\ pc[t] = "undo"
      /\ UNCHANGED <<dsema_orig, do_ref_cnt, held, dsema_sent_ksignals, dsema_port>>
  BY DEF Undo, lifetime
<1>2. At(Waiting) # {}
  BY <1>1, Present DEF Waiting
<1>3. CASE dsema_value < 0
  <2>1. /\ dsema_value' = dsema_value + 1 /\ Go(t, "idle")
        /\ timeout' = [timeout EXCEPT ![t] = "forever"]
    BY <1>3 DEF Undo, StopWaiting
  <2>2. CountTypeOK'
    BY <1>1, <1>3, <2>1, ValuesAssumption DEF CountTypeOK, Go, Timeouts
  <2>3. /\ Cardinality(At(Waiting)') = Cardinality(At(Waiting)) - 1
        /\ Coming' = Coming
        /\ Cardinality(At({"signal"})') = Cardinality(At({"signal"}))
        /\ Cardinality(At({"again"})') = Cardinality(At({"again"}))
        /\ Cardinality(At(Holding)') = Cardinality(At(Holding))
    BY <1>1, <2>1, GoCounts, CountsTyped DEF One, Waiting, Holding
  <2>4. EveryWakeupHasItsWaiter' /\ NoLostWakeup'
    BY <1>1, <1>3, <2>1, <2>3, CountsTyped
       DEF EveryWakeupHasItsWaiter, NoLostWakeup, Positive, CountTypeOK
  <2>5. HoldsKept
    BY <1>1, <1>2, <2>3, CountsTyped DEF HoldsKept, CountTypeOK, One
  <2> QED
    BY <2>2, <2>4, <2>5
<1>4. CASE ~(dsema_value < 0)
  <2>1. Go(t, "wait") /\ UNCHANGED <<dsema_value, timeout>>
    BY <1>4 DEF Undo
  <2>2. CountTypeOK'
    BY <1>1, <2>1 DEF CountTypeOK, Go, Waiting
  <2>3. /\ Cardinality(At(Waiting)') = Cardinality(At(Waiting))
        /\ Coming' = Coming
        /\ Cardinality(At({"signal"})') = Cardinality(At({"signal"}))
        /\ Cardinality(At({"again"})') = Cardinality(At({"again"}))
        /\ Cardinality(At(Holding)') = Cardinality(At(Holding))
    BY <1>1, <2>1, GoCounts, CountsTyped DEF One, Waiting, Holding
  <2>4. EveryWakeupHasItsWaiter' /\ NoLostWakeup'
    BY <1>1, <2>1, <2>3, CountsTyped DEF EveryWakeupHasItsWaiter, NoLostWakeup, Positive, CountTypeOK
  <2>5. HoldsKept
    BY <1>1, <1>2, <2>3, CountsTyped DEF HoldsKept, CountTypeOK, One
  <2> QED
    BY <2>2, <2>4, <2>5
<1> QED
  BY <1>3, <1>4

LEMMA SignalStep ==
    ASSUME CountInv, NEW t \in Threads, dispatch_semaphore_signal(t)
    PROVE  CountInv' /\ HoldsKept
<1> USE DEF CountInv
<1>1. /\ pc[t] = "idle" /\ dsema_value < LONG_MAX /\ dsema_value' = dsema_value + 1
      /\ UNCHANGED <<dsema_orig, do_ref_cnt, held, dsema_sent_ksignals, dsema_port, timeout>>
  BY DEF dispatch_semaphore_signal, lifetime
<1>2. CASE dsema_value >= 0
  <2>1. UNCHANGED pc
    BY <1>2 DEF dispatch_semaphore_signal
  <2>2. CountTypeOK'
    BY <1>1, <2>1, ValuesAssumption DEF CountTypeOK
  <2>3. \A set \in {Waiting, Holding, {"signal"}, {"again"}, {"retain", "count"}} :
            At(set)' = At(set)
    BY <2>1, StayCount
  <2>4. EveryWakeupHasItsWaiter'
    BY <1>1, <1>2, <2>3 DEF EveryWakeupHasItsWaiter, Coming, Positive, CountTypeOK
  <2>5. NoLostWakeup' /\ HoldsKept
    BY <1>1, <2>3, CountsTyped DEF NoLostWakeup, HoldsKept, CountTypeOK
  <2> QED
    BY <2>2, <2>4, <2>5
<1>3. CASE ~(dsema_value >= 0)
  <2>1. Go(t, "retain")
    BY <1>3 DEF dispatch_semaphore_signal
  <2>2. CountTypeOK'
    BY <1>1, <2>1, ValuesAssumption DEF CountTypeOK, Go, Signalling
  <2>3. /\ Cardinality(At(Waiting)') = Cardinality(At(Waiting))
        /\ Coming' = Coming + 1
        /\ Cardinality(At({"signal"})') = Cardinality(At({"signal"}))
        /\ Cardinality(At({"again"})') = Cardinality(At({"again"}))
        /\ Cardinality(At(Holding)') = Cardinality(At(Holding))
    BY <1>1, <2>1, GoCounts, CountsTyped DEF One, Waiting, Holding
  <2>4. EveryWakeupHasItsWaiter' /\ NoLostWakeup'
    BY <1>1, <1>3, <2>3, CountsTyped DEF EveryWakeupHasItsWaiter, NoLostWakeup, Positive, CountTypeOK
  <2>5. HoldsKept
    BY <1>1, <2>1, <2>3, NobodyBegins, CountsTyped DEF HoldsKept, CountTypeOK, Waiting
  <2> QED
    BY <2>2, <2>4, <2>5
<1> QED
  BY <1>2, <1>3

LEMMA RetainStep ==
    ASSUME CountInv, NEW t \in Threads, Retain(t)
    PROVE  CountInv' /\ HoldsKept
<1> USE DEF CountInv
<1>1. /\ pc[t] = "retain" /\ Go(t, "count") /\ do_ref_cnt' = do_ref_cnt + 1
      /\ UNCHANGED <<dsema_value, dsema_orig, held, dsema_sent_ksignals, dsema_port, timeout>>
  BY DEF Retain, counters, lifetime
<1>2. /\ Cardinality(At(Waiting)') = Cardinality(At(Waiting))
      /\ Coming' = Coming
      /\ Cardinality(At({"signal"})') = Cardinality(At({"signal"}))
      /\ Cardinality(At({"again"})') = Cardinality(At({"again"}))
      /\ Cardinality(At(Holding)') = Cardinality(At(Holding)) + 1
  BY <1>1, GoCounts, CountsTyped DEF One, Waiting, Holding
<1>3. HoldsKept
  BY <1>1, <1>2, NobodyBegins, CountsTyped DEF HoldsKept, CountTypeOK, Waiting, One
<1>4. CountTypeOK'
  BY <1>1 DEF CountTypeOK, Go, Signalling
<1>5. EveryWakeupHasItsWaiter' /\ NoLostWakeup'
  BY <1>1, <1>2, CountsTyped DEF EveryWakeupHasItsWaiter, NoLostWakeup, Positive, CountTypeOK
<1> QED
  BY <1>3, <1>4, <1>5

LEMMA CountWakeupStep ==
    ASSUME CountInv, NEW t \in Threads, CountWakeup(t)
    PROVE  CountInv' /\ HoldsKept
<1> USE DEF CountInv
<1>1. /\ pc[t] = "count" /\ Go(t, "signal") /\ dsema_sent_ksignals' = dsema_sent_ksignals + 1
      /\ UNCHANGED <<dsema_value, dsema_orig, held, do_ref_cnt, dsema_port, timeout>>
  BY DEF CountWakeup, counters, lifetime
<1>2. /\ Cardinality(At(Waiting)') = Cardinality(At(Waiting))
      /\ Coming' = Coming - 1
      /\ Cardinality(At({"signal"})') = Cardinality(At({"signal"})) + 1
      /\ Cardinality(At({"again"})') = Cardinality(At({"again"}))
      /\ Cardinality(At(Holding)') = Cardinality(At(Holding))
  BY <1>1, GoCounts, CountsTyped DEF One, Waiting, Holding
<1>3. HoldsKept
  BY <1>1, <1>2, NobodyBegins, CountsTyped DEF HoldsKept, CountTypeOK, Waiting, One
<1>4. CountTypeOK'
  BY <1>1 DEF CountTypeOK, Go, Signalling
<1>5. EveryWakeupHasItsWaiter' /\ NoLostWakeup'
  BY <1>1, <1>2, CountsTyped DEF EveryWakeupHasItsWaiter, NoLostWakeup, Positive, CountTypeOK
<1> QED
  BY <1>3, <1>4, <1>5

LEMMA SignalKernelStep ==
    ASSUME CountInv, NEW t \in Threads, SignalKernel(t)
    PROVE  CountInv' /\ HoldsKept
<1> USE DEF CountInv
<1>1. /\ pc[t] = "signal" /\ Go(t, "release") /\ dsema_port' = dsema_port + 1
      /\ UNCHANGED <<dsema_value, dsema_orig, held, do_ref_cnt, dsema_sent_ksignals, timeout>>
  BY DEF SignalKernel, counters, lifetime
<1>2. /\ Cardinality(At(Waiting)') = Cardinality(At(Waiting))
      /\ Coming' = Coming
      /\ Cardinality(At({"signal"})') = Cardinality(At({"signal"})) - 1
      /\ Cardinality(At({"again"})') = Cardinality(At({"again"}))
      /\ Cardinality(At(Holding)') = Cardinality(At(Holding))
  BY <1>1, GoCounts, CountsTyped DEF One, Waiting, Holding
<1>3. HoldsKept
  BY <1>1, <1>2, NobodyBegins, CountsTyped DEF HoldsKept, CountTypeOK, Waiting, One
<1>4. CountTypeOK'
  BY <1>1 DEF CountTypeOK, Go, Signalling
<1>5. EveryWakeupHasItsWaiter' /\ NoLostWakeup'
  BY <1>1, <1>2, CountsTyped DEF EveryWakeupHasItsWaiter, NoLostWakeup, Positive, CountTypeOK
<1> QED
  BY <1>3, <1>4, <1>5

LEMMA ReleaseStep ==
    ASSUME CountInv, NEW t \in Threads, Release(t)
    PROVE  CountInv' /\ HoldsKept
<1> USE DEF CountInv
<1>1. /\ pc[t] = "release" /\ Go(t, "idle") /\ do_ref_cnt' = do_ref_cnt - 1
      /\ UNCHANGED <<dsema_value, dsema_orig, held, dsema_sent_ksignals, dsema_port, timeout>>
  BY DEF Release, counters, lifetime
<1>2. /\ Cardinality(At(Waiting)') = Cardinality(At(Waiting))
      /\ Coming' = Coming
      /\ Cardinality(At({"signal"})') = Cardinality(At({"signal"}))
      /\ Cardinality(At({"again"})') = Cardinality(At({"again"}))
      /\ Cardinality(At(Holding)') = Cardinality(At(Holding)) - 1
  BY <1>1, GoCounts, CountsTyped DEF One, Waiting, Holding
<1>3. HoldsKept
  BY <1>1, <1>2, NobodyBegins, CountsTyped DEF HoldsKept, CountTypeOK, Waiting, One
<1>4. CountTypeOK'
  BY <1>1 DEF CountTypeOK, Go, Signalling
<1>5. EveryWakeupHasItsWaiter' /\ NoLostWakeup'
  BY <1>1, <1>2, CountsTyped DEF EveryWakeupHasItsWaiter, NoLostWakeup, Positive, CountTypeOK
<1> QED
  BY <1>3, <1>4, <1>5

\* The invariant of the references is kept by what keeps the count, and by the client.
LEMMA ReferencesKept == CountInv /\ References /\ HoldsKept => References'
<1> SUFFICES ASSUME CountInv, References, HoldsKept PROVE References'
  OBVIOUS
<1>1. One(held)' = One(held) /\ One(held) \in Nat
  BY DEF HoldsKept, One
<1>2. /\ do_ref_cnt = One(held) + Cardinality(At(Holding))
      /\ do_ref_cnt' = do_ref_cnt + (Cardinality(At(Holding)') - Cardinality(At(Holding)))
  BY DEF References, HoldsKept
<1>3. do_ref_cnt' = One(held)' + Cardinality(At(Holding)')
  <2>1. At(Holding)' \in SUBSET Threads
    BY DEF At
  <2>2. Cardinality(At(Holding)') \in Nat
    BY <2>1, ThreadsAssumption, FS_Subset, FS_CardinalityType
  <2> QED
    BY <1>1, <1>2, <2>2, CountsTyped
<1> QED
  BY <1>3 DEF References, HoldsKept

LEMMA ClientReleaseStep ==
    ASSUME CountInv, dispatch_release
    PROVE  CountInv' /\ (References => References')
<1> USE DEF CountInv
<1>1. /\ held /\ At(Waiting) = {} /\ held' = FALSE /\ do_ref_cnt' = do_ref_cnt - 1
      /\ UNCHANGED <<dsema_value, dsema_orig, dsema_sent_ksignals, dsema_port, pc, timeout>>
  BY DEF dispatch_release, counters
<1>2. \A set \in {Waiting, Holding, {"signal"}, {"again"}, {"retain", "count"}} :
          At(set)' = At(set)
  BY <1>1, StayCount
<1>3. CountTypeOK'
  <2>1. do_ref_cnt' \in Int
    BY <1>1 DEF CountTypeOK
  <2>2. held' \in BOOLEAN
    BY <1>1
  <2> QED
    BY <1>1, <2>1, <2>2 DEF CountTypeOK
<1>4. EveryWakeupHasItsWaiter' /\ NoLostWakeup'
  BY <1>1, <1>2 DEF EveryWakeupHasItsWaiter, NoLostWakeup, Coming
<1>5. References => References'
  BY <1>1, <1>2, CountsTyped DEF References, One, CountTypeOK
<1> QED
  BY <1>3, <1>4, <1>5

-----------------------------------------------------------------------------
LEMMA Initially == SemaInit => IInv
<1> SUFFICES ASSUME SemaInit PROVE IInv
  OBVIOUS
<1>1. CountTypeOK
  BY ValuesAssumption
     DEF SemaInit, dispatch_semaphore_create, CountTypeOK, Timeouts
<1>2. ASSUME NEW CONSTANT set, "idle" \notin set
      PROVE  At(set) = {} /\ Cardinality(At(set)) = 0
  <2>1. At(set) = {}
    BY <1>2 DEF At, SemaInit
  <2> QED
    BY <2>1, FS_EmptySet
<1>3. Cardinality(At(Waiting)) = 0 /\ At(Waiting) = {} /\ Cardinality(At(Holding)) = 0
  BY <1>2 DEF Waiting, Holding
<1>4. Cardinality(At({"signal"})) = 0 /\ Cardinality(At({"again"})) = 0 /\ Coming = 0
  BY <1>2 DEF Coming
<1>5. EveryWakeupHasItsWaiter
  BY <1>3, <1>4, ValuesAssumption DEF EveryWakeupHasItsWaiter, SemaInit, dispatch_semaphore_create, Positive
<1>6. NoLostWakeup /\ References
  BY <1>3, <1>4 DEF NoLostWakeup, References, One, SemaInit, dispatch_semaphore_create
<1> QED
  BY <1>1, <1>5, <1>6 DEF IInv, CountInv

\* What a thread goes on to do in a call, and what the kernel does, keeps the count.
LEMMA ContinueStep ==
    ASSUME CountInv, NEW t \in Threads, SemaContinue(t) \/ SemaKernel(t)
    PROVE  CountInv' /\ HoldsKept
  BY TakeStep, EnterStep, KernelStep, UndoStep, RetainStep, CountWakeupStep, SignalKernelStep,
     ReleaseStep DEF SemaContinue

\* So does a step that leaves the semaphore alone, but for the references to it.
LEMMA CountUntouched ==
    ASSUME CountInv, do_ref_cnt' \in Int, held' \in BOOLEAN,
           UNCHANGED <<counters, dsema_sent_ksignals, dsema_port, pc, timeout>>
    PROVE  CountInv' /\ \A set : At(set)' = At(set)
<1>1. UNCHANGED <<dsema_value, dsema_orig, dsema_sent_ksignals, dsema_port, pc, timeout>>
  BY DEF counters
<1>2. \A set : At(set)' = At(set)
  BY <1>1 DEF At
<1>3. CountInv'
  BY <1>1 DEF CountInv, CountTypeOK, EveryWakeupHasItsWaiter, NoLostWakeup, Coming, At
<1> QED
  BY <1>2, <1>3

LEMMA Step == IInv /\ [SemaNext]_semaVars => IInv'
<1> SUFFICES ASSUME IInv, [SemaNext]_semaVars PROVE IInv'
  OBVIOUS
<1> USE DEF IInv
<1>1. CASE UNCHANGED semaVars
  <2>1. UNCHANGED <<dsema_value, dsema_orig, do_ref_cnt, held, dsema_sent_ksignals, dsema_port, pc, timeout>>
    BY <1>1 DEF semaVars, counters, lifetime
  <2> QED
    BY <2>1 DEF CountInv, CountTypeOK, EveryWakeupHasItsWaiter, NoLostWakeup, References, Coming, At
<1>2. ASSUME NEW t \in Threads, SemaContinue(t) \/ SemaKernel(t) PROVE IInv'
  BY <1>2, ContinueStep, ReferencesKept
<1>3. ASSUME NEW t \in Threads, NEW to \in Timeouts, dispatch_semaphore_wait(t, to) PROVE IInv'
  BY <1>3, WaitStep, ReferencesKept
<1>4. ASSUME NEW t \in Threads, dispatch_semaphore_signal(t) PROVE IInv'
  BY <1>4, SignalStep, ReferencesKept
<1> QED
  BY <1>1, <1>2, <1>3, <1>4, ClientReleaseStep DEF SemaNext

\* The inductive invariant holds.
LEMMA Invariance == SemaSpec => []IInv
  BY Initially, Step, PTL DEF SemaSpec

\* Every variable of a semaphore keeps its type: the counter never exceeds LONG_MAX, and
\* the count of references never falls below zero.
THEOREM TypeCorrect == SemaSpec => []SemaTypeOK
<1>1. IInv => SemaTypeOK
  BY CountsTyped DEF IInv, CountInv, References, One, CountTypeOK, SemaTypeOK
<1> QED
  BY <1>1, Invariance, PTL

\* Whatever the kernel does and whichever waits time out, the threads that wait are those
\* below zero and those whose wakeup is counted or coming.
THEOREM WakeupsMatchWaiters == SemaSpec => []EveryWakeupHasItsWaiter
  BY Invariance, PTL DEF IInv, CountInv

\* A counted wakeup always has a signal in the kernel or a thread that is awake.
THEOREM WakeupsAreNotLost == SemaSpec => []NoLostWakeup
  BY Invariance, PTL DEF IInv, CountInv

\* The semaphore is alive while a thread is in dispatch_semaphore_wait or in
\* dispatch_semaphore_signal's slow path, whoever releases it when.
THEOREM AliveWhileUsed == SemaSpec => []OutlivesItsCalls
<1>1. IInv => OutlivesItsCalls
  <2> SUFFICES ASSUME IInv, NEW t \in At(Waiting \cup Signalling) PROVE do_ref_cnt > 0
    BY DEF OutlivesItsCalls
  <2> USE DEF IInv, CountInv
  <2>1. t \in Threads /\ pc[t] \in Waiting \cup Holding \cup {"retain", "count"}
    BY DEF At, Signalling, Holding
  <2>2. CASE pc[t] \in Waiting
    BY <2>1, <2>2, Present, CountsTyped DEF References, One
  <2>3. CASE pc[t] \in Holding
    BY <2>1, <2>3, Present, CountsTyped DEF References, One
  <2>4. CASE pc[t] \in {"retain", "count"}
    <3>1. Coming >= 1
      BY <2>1, <2>4, Present DEF Coming
    <3>2. Cardinality(At(Waiting)) # 0
      BY <3>1, CountsTyped DEF EveryWakeupHasItsWaiter, Positive, CountTypeOK
    <3>3. At(Waiting) # {}
      BY <3>2, AtCount
    <3> QED
      BY <3>3, CountsTyped DEF References, One
  <2> QED
    BY <2>1, <2>2, <2>3, <2>4
<1> QED
  BY <1>1, Invariance, PTL

-----------------------------------------------------------------------------
\* Who waits after a thread has gone somewhere.
LEMMA WaitingAfter ==
    ASSUME CountTypeOK, NEW t \in Threads, NEW CONSTANT to, Go(t, to)
    PROVE  /\ to \notin Waiting /\ pc[t] \notin Waiting => At(Waiting)' = At(Waiting)
           /\ to \in Waiting /\ pc[t] \in Waiting => At(Waiting)' = At(Waiting)
           /\ to \in Waiting => At(Waiting)' = At(Waiting) \cup {t}
           /\ to \notin Waiting => At(Waiting)' = At(Waiting) \ {t}
<1>1. At(Waiting)' = IF to \in Waiting THEN At(Waiting) \cup {t} ELSE At(Waiting) \ {t}
  BY GoCount
<1>2. t \in At(Waiting) <=> pc[t] \in Waiting
  BY DEF At
<1> QED
  BY <1>1, <1>2

\* What the count of permits is by the invariant.
LEMMA PermitsAre ==
    ASSUME CountInv
    PROVE  /\ permits \in Nat
           /\ dsema_value > 0 => permits = Cardinality(At(Waiting)) + dsema_value
           /\ dsema_value <= 0 => /\ permits = Coming + dsema_sent_ksignals
                                  /\ permits = Cardinality(At(Waiting)) + dsema_value
  BY CountsTyped DEF CountInv, EveryWakeupHasItsWaiter, permits, Positive, CountTypeOK

\* The abstract module counts as this one does.
LEMMA SameCardinality == \A S : Abstract!Cardinality(S) = Cardinality(S)
  BY DEF Abstract!Cardinality, Cardinality

\* Every step is one of the abstract semaphore, or leaves it as it was.
LEMMA AbstractWait ==
    ASSUME CountInv, NEW t \in Threads, NEW to \in Timeouts, dispatch_semaphore_wait(t, to)
    PROVE  Abstract!TakeAtOnce \/ Abstract!Block(t)
<1> USE DEF CountInv
<1>1. CASE dsema_value > 0
  <2>1. UNCHANGED <<pc, dsema_sent_ksignals>> /\ dsema_value' = dsema_value - 1
    BY <1>1 DEF dispatch_semaphore_wait
  <2>2. At(Waiting)' = At(Waiting) /\ Coming' = Coming
    BY <2>1, StayCount DEF Coming
  <2>3. permits' = permits - 1
    BY <1>1, <2>1, <2>2, CountsTyped DEF permits, Positive, CountTypeOK
  <2>4. permits > Cardinality(At(Waiting))
    BY <1>1, PermitsAre, CountsTyped DEF CountTypeOK
  <2> QED
    BY <2>2, <2>3, <2>4, SameCardinality DEF Abstract!TakeAtOnce, Abstract!Spare
<1>2. CASE ~(dsema_value > 0)
  <2>1. /\ Go(t, "again") /\ dsema_sent_ksignals' = dsema_sent_ksignals
        /\ dsema_value' = dsema_value - 1 /\ pc[t] = "idle"
    BY <1>2 DEF dispatch_semaphore_wait
  <2>2. At(Waiting)' = At(Waiting) \cup {t} /\ t \notin At(Waiting)
    BY <2>1, WaitingAfter DEF At, Waiting
  <2>3. Coming' = Coming
    BY <2>1, GoCounts, CountsTyped DEF One
  <2>4. permits' = permits
    BY <1>2, <2>1, <2>3, CountsTyped DEF permits, Positive, CountTypeOK
  <2>5. ~(permits > Cardinality(At(Waiting)))
    BY <1>2, PermitsAre, CountsTyped DEF CountTypeOK
  <2> QED
    BY <2>2, <2>4, <2>5, SameCardinality DEF Abstract!Block, Abstract!Spare
<1> QED
  BY <1>1, <1>2

LEMMA AbstractTake ==
    ASSUME CountInv, NEW t \in Threads, TakeWakeup(t)
    PROVE  Abstract!Grant(t)
<1> USE DEF CountInv
<1>1. /\ Go(t, "idle") /\ pc[t] = "again" /\ dsema_sent_ksignals > 0
      /\ dsema_sent_ksignals' = dsema_sent_ksignals - 1 /\ dsema_value' = dsema_value
  BY DEF TakeWakeup, StopWaiting, counters
<1>2. At(Waiting)' = At(Waiting) \ {t} /\ t \in At(Waiting)
  BY <1>1, WaitingAfter DEF At, Waiting
<1>3. Coming' = Coming
  BY <1>1, GoCounts, CountsTyped DEF One
<1>4. permits' = permits - 1 /\ permits > 0
  BY <1>1, <1>3, CountsTyped DEF permits, Positive, CountTypeOK
<1> QED
  BY <1>2, <1>4 DEF Abstract!Grant

LEMMA AbstractUndo ==
    ASSUME CountInv, NEW t \in Threads, Undo(t)
    PROVE  Abstract!GiveUp(t) \/ UNCHANGED Abstract!vars
<1> USE DEF CountInv
<1>1. pc[t] = "undo" /\ dsema_sent_ksignals' = dsema_sent_ksignals
  BY DEF Undo
<1>2. CASE dsema_value < 0
  <2>1. Go(t, "idle") /\ dsema_value' = dsema_value + 1
    BY <1>2 DEF Undo, StopWaiting
  <2>2. At(Waiting)' = At(Waiting) \ {t} /\ t \in At(Waiting)
    BY <1>1, <2>1, WaitingAfter DEF At, Waiting
  <2>3. Coming' = Coming
    BY <1>1, <2>1, GoCounts, CountsTyped DEF One
  <2>4. permits' = permits
    BY <1>1, <1>2, <2>1, <2>3, CountsTyped DEF permits, Positive, CountTypeOK
  <2>5. permits < Cardinality(At(Waiting))
    BY <1>2, PermitsAre, CountsTyped DEF CountTypeOK
  <2> QED
    BY <2>2, <2>4, <2>5, SameCardinality DEF Abstract!GiveUp
<1>3. CASE ~(dsema_value < 0)
  <2>1. Go(t, "wait") /\ dsema_value' = dsema_value
    BY <1>3 DEF Undo
  <2>2. At(Waiting)' = At(Waiting)
    BY <1>1, <2>1, WaitingAfter DEF Waiting
  <2>3. Coming' = Coming
    BY <1>1, <2>1, GoCounts, CountsTyped DEF One
  <2> QED
    BY <1>1, <2>1, <2>2, <2>3 DEF permits, Abstract!vars
<1> QED
  BY <1>2, <1>3

LEMMA AbstractSignal ==
    ASSUME CountInv, NEW t \in Threads, dispatch_semaphore_signal(t)
    PROVE  Abstract!Signal
<1> USE DEF CountInv
<1>1. /\ pc[t] = "idle" /\ dsema_value' = dsema_value + 1
      /\ dsema_sent_ksignals' = dsema_sent_ksignals
  BY DEF dispatch_semaphore_signal
<1>2. CASE dsema_value >= 0
  <2>1. At(Waiting)' = At(Waiting) /\ Coming' = Coming
    BY <1>2, StayCount DEF dispatch_semaphore_signal, Coming
  <2>2. permits' = permits + 1
    BY <1>1, <1>2, <2>1, CountsTyped DEF permits, Positive, CountTypeOK
  <2> QED
    BY <2>1, <2>2 DEF Abstract!Signal
<1>3. CASE ~(dsema_value >= 0)
  <2>1. Go(t, "retain")
    BY <1>3 DEF dispatch_semaphore_signal
  <2>2. At(Waiting)' = At(Waiting)
    BY <1>1, <2>1, WaitingAfter DEF Waiting
  <2>3. Coming' = Coming + 1
    BY <1>1, <2>1, GoCounts, CountsTyped DEF One
  <2>4. permits' = permits + 1
    BY <1>1, <1>3, <2>3, CountsTyped DEF permits, Positive, CountTypeOK
  <2> QED
    BY <2>2, <2>4 DEF Abstract!Signal
<1> QED
  BY <1>2, <1>3

\* The other steps are between the kernel, the references and a thread's places.
LEMMA AbstractInner ==
    ASSUME CountInv, NEW t \in Threads,
           EnterKernel(t) \/ KernelSignals(t) \/ SemaKernel(t) \/ Retain(t) \/ CountWakeup(t)
             \/ SignalKernel(t) \/ Release(t)
    PROVE  UNCHANGED Abstract!vars
<1> USE DEF CountInv
<1>1. dsema_value' = dsema_value
  BY DEF EnterKernel, KernelSignals, SemaKernel, KernelWakesForNothing, KernelTimesOut, Retain,
         CountWakeup, SignalKernel, Release, counters
<1>2. CASE EnterKernel(t) \/ KernelSignals(t) \/ SemaKernel(t)
  <2>1. PICK to \in Waiting : Go(t, to)
    BY <1>2 DEF EnterKernel, KernelSignals, SemaKernel, KernelWakesForNothing, KernelTimesOut, Waiting
  <2>2. pc[t] \in Waiting /\ dsema_sent_ksignals' = dsema_sent_ksignals
    BY <1>2 DEF EnterKernel, KernelSignals, SemaKernel, KernelWakesForNothing, KernelTimesOut, Waiting
  <2>3. At(Waiting)' = At(Waiting)
    BY <2>1, <2>2, WaitingAfter
  <2>4. Coming' = Coming
    BY <2>1, <2>2, GoCounts, CountsTyped DEF One, Waiting
  <2> QED
    BY <1>1, <2>2, <2>3, <2>4 DEF permits, Abstract!vars
<1>3. CASE Retain(t) \/ SignalKernel(t) \/ Release(t)
  <2>1. PICK to \in {"count", "release", "idle"} : Go(t, to)
    BY <1>3 DEF Retain, SignalKernel, Release
  <2>2. /\ pc[t] \in {"retain", "signal", "release"} /\ dsema_sent_ksignals' = dsema_sent_ksignals
        /\ to = "count" <=> pc[t] = "retain"
    BY <1>3, <2>1 DEF Retain, SignalKernel, Release, Go, CountTypeOK
  <2>3. At(Waiting)' = At(Waiting)
    BY <2>1, <2>2, WaitingAfter DEF Waiting
  <2>4. Coming' = Coming
    BY <2>1, <2>2, GoCounts, CountsTyped DEF One
  <2> QED
    BY <1>1, <2>2, <2>3, <2>4 DEF permits, Abstract!vars
<1>4. CASE CountWakeup(t)
  <2>1. Go(t, "signal") /\ pc[t] = "count" /\ dsema_sent_ksignals' = dsema_sent_ksignals + 1
    BY <1>4 DEF CountWakeup
  <2>2. At(Waiting)' = At(Waiting)
    BY <2>1, WaitingAfter DEF Waiting
  <2>3. Coming' = Coming - 1
    BY <2>1, GoCounts, CountsTyped DEF One
  <2>4. permits' = permits
    BY <1>1, <2>1, <2>3, CountsTyped DEF permits, Positive, CountTypeOK
  <2> QED
    BY <2>2, <2>4 DEF Abstract!vars
<1> QED
  BY <1>2, <1>3, <1>4

\* Every step is one of the abstract semaphore's steps or a stutter.
LEMMA AbstractStep == CountInv /\ [SemaNext]_semaVars => [Abstract!Next]_(Abstract!vars)
<1> SUFFICES ASSUME CountInv, [SemaNext]_semaVars PROVE [Abstract!Next]_(Abstract!vars)
  OBVIOUS
<1>1. CASE UNCHANGED semaVars \/ dispatch_release
  <2>1. UNCHANGED <<pc, dsema_value, dsema_sent_ksignals>>
    BY <1>1 DEF semaVars, dispatch_release, counters
  <2> QED
    BY <2>1, StayCount DEF permits, Coming, Abstract!vars
<1>2. ASSUME NEW t \in Threads, NEW to \in Timeouts, dispatch_semaphore_wait(t, to)
      PROVE  Abstract!Next
  BY <1>2, AbstractWait DEF Abstract!Next
<1>3. ASSUME NEW t \in Threads, dispatch_semaphore_signal(t) PROVE Abstract!Next
  BY <1>3, AbstractSignal DEF Abstract!Next
<1>4. ASSUME NEW t \in Threads, SemaContinue(t) \/ SemaKernel(t)
      PROVE  [Abstract!Next]_(Abstract!vars)
  BY <1>4, AbstractTake, AbstractUndo, AbstractInner DEF Abstract!Next, SemaContinue
<1> QED
  BY <1>1, <1>2, <1>3, <1>4 DEF SemaNext

LEMMA AbstractInit == SemaInit => Abstract!Init
<1> SUFFICES ASSUME SemaInit PROVE Abstract!Init
  OBVIOUS
<1>1. At(Waiting) = {} /\ At({"retain", "count"}) = {}
  BY DEF At, SemaInit, Waiting
<1>2. permits = dsema_value /\ dsema_value \in Values
  BY <1>1, FS_EmptySet, ValuesAssumption
     DEF permits, Coming, Positive, SemaInit, dispatch_semaphore_create
<1> QED
  BY <1>1, <1>2 DEF Abstract!Init

\* dispatch_semaphore_wait and dispatch_semaphore_signal implement a counting semaphore,
\* with any number of threads, timeouts and spurious wakeups.
THEOREM ImplementsCountingSemaphore == SemaSpec => KeepsCount
<1>1. IInv => CountInv
  BY DEF IInv
<1> QED
  BY <1>1, AbstractInit, AbstractStep, Invariance, PTL DEF SemaSpec, KeepsCount, Abstract!Spec
=============================================================================
