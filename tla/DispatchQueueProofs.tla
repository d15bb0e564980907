------------------------- MODULE DispatchQueueProofs -------------------------
(***************************************************************************)
(* Theorems about DispatchQueue for any queues, threads, calls and uses.    *)
(*                                                                          *)
(* An object is in one place at a time: what refers to it, a frame, the     *)
(* head of a list, the do_next of an object on a list or the global queue,  *)
(* is the only thing that does.  Every step hands an object over from one   *)
(* such slot to another, and a new one gets in only where there was none.   *)
(***************************************************************************)
EXTENDS DispatchQueue, SequenceTheorems, FiniteSetTheorems, TLAPS

(* Frames, by their place from the bottom of their thread's stack.          *)

FetchedAts == {"drain_suspended", "drain_width", "drain_pop", "undo", "undo_wait"}
HoldAts    == FetchedAts \cup {"drain_next", "undo_head"}
EmptyAts   == {"invoke", "invoke_trylock", "drain", "drain_head", "invoke_unlock", "invoke_drop"}
FastAts    == {"sync", "sync_add", "sync_back", "bsync", "bsync_trylock"}
WaitAts    == {"sync_wait", "bsync_wait"}
BareAts    == {"wakeup", "wakeup_probe", "wakeup_trylock", "release", "running_sub",
               "unlock", "resume"}

Targets == Queues \cup {ROOT}
Bodies  == Calls \cup Clients
Maybe   == Objects \cup {NULL}

PushFrame    == [at : {"push"}, q : Targets, o : Objects]
PublishFrame == [at : {"publish"}, q : Queues, o : Objects]
LinkFrame    == [at : {"link"}, prev : Objects, o : Objects]
BareFrame    == [at : BareAts, q : Queues, o : {NULL}]
CallFrame    == [at : FastAts \cup WaitAts, q : Queues, o : Calls]
RunFrame     == [at : {"run"}, o : Bodies, rest : Seq(Calls)]
DrainFrame   == [at : EmptyAts \cup {"invoke_idle"} \cup HoldAts, q : Queues, tq : Targets,
                 o : Maybe, n : Maybe]
StackFrame   == PushFrame \cup PublishFrame \cup LinkFrame \cup BareFrame \cup CallFrame
                \cup RunFrame \cup {f \in DrainFrame : f.at \in HoldAts => f.o \in Objects}

Pos     == Threads \X Nat
Up(p)   == <<p[1], p[2] + 1>>
Nothing == [at |-> "none"]
Fr(p)   == IF p[2] < Len(stack[p[1]]) THEN stack[p[1]][Len(stack[p[1]]) - p[2]] ELSE Nothing
TopOf(t) == <<t, Len(stack[t]) - 1>>

(* What a frame has to do with the objects, and with calls still to be made. *)

QOf(f)    == IF f.at \in EmptyAts \cup HoldAts THEN f.q ELSE NULL
OOf(f)    == IF f.at \in {"push", "publish", "link"} \cup HoldAts THEN f.o ELSE NULL
NOf(f)    == IF f.at \in FetchedAts THEN f.n ELSE NULL
PrevOf(f) == IF f.at = "link" THEN f.prev ELSE NULL
CallOf(f) == IF f.at \in FastAts THEN f.o ELSE NULL
RestOf(f) == IF f.at = "run" THEN f.rest ELSE <<>>

Invoked(p) == QOf(Fr(p))            \* the queue it invokes, as the owner of its lock
Held(p)    == OOf(Fr(p))            \* the object it puts somewhere
Behind(p)  == NOf(Fr(p))            \* the object the drainer found behind that one
Before(p)  == PrevOf(Fr(p))         \* the object a producer has to link to its own
Asking(p)  == CallOf(Fr(p))         \* the call it makes, as long as it is on no list
Rest(p)    == RestOf(Fr(p))         \* the calls its block has still to make
Fetched(p) == Fr(p).at \in FetchedAts
Apart(p)   == Fr(p).at \in FetchedAts \cup {"push"}     \* the held object is on no list

\* The slots that may refer to an object, and what is in them when the objects
\* of listed are on lists.
Slot == ({"invoked", "held", "behind"} \X Pos) \cup ({"head"} \X Queues)
        \cup ({"next"} \X Objects) \cup ({"root"} \X (Nat \ {0}))

In(listed, s) ==
    IF s[1] = "invoked" THEN Invoked(s[2])
    ELSE IF s[1] = "held" THEN Held(s[2])
    ELSE IF s[1] = "behind" THEN Behind(s[2])
    ELSE IF s[1] = "head" THEN items_head[s[2]]
    ELSE IF s[1] = "next" THEN IF s[2] \in listed THEN next[s[2]] ELSE NULL
    ELSE IF s[2] <= Len(root) THEN root[s[2]] ELSE NULL

Nowhere(listed, o) == o \notin listed /\ \A s \in Slot : In(listed, s) # o

\* An object is in one slot at most.
OneSlot(listed) ==
    \A r, s \in Slot : In(listed, r) = In(listed, s) /\ In(listed, s) \in Objects => r = s

\* The slots of a list hold what is on a list, the others what is not.
Sides(listed) ==
    /\ \A p \in Pos : /\ Invoked(p) \notin listed
                      /\ Behind(p) \in listed \cup {NULL}
                      /\ Apart(p) => Held(p) \notin listed
                      /\ ~Apart(p) => Held(p) \in listed \cup {NULL}
    /\ \A q \in Queues : items_head[q] \in listed \cup {NULL}
    /\ \A x \in listed : next[x] \in listed \cup {NULL}
    /\ \A i \in 1 .. Len(root) : root[i] \notin listed

\* An item that was taken off still leads to the one behind it.
Fetching == \A p \in Pos : Fetched(p) => next[Held(p)] = Behind(p)

\* The tail of a list is its end; one producer at most has still to link an object.
Ends(listed) ==
    /\ \A q \in Queues : items_tail[q] # NULL =>
          /\ items_tail[q] \in listed /\ next[items_tail[q]] = NULL
          /\ \A p \in Pos : Before(p) # items_tail[q]
          /\ \A r \in Queues : items_tail[r] = items_tail[q] => r = q
    /\ \A p \in Pos : Before(p) # NULL =>
          /\ Before(p) \in listed /\ next[Before(p)] = NULL
          /\ \A r \in Pos : Before(r) = Before(p) => r = p

\* Only a locked queue is in a slot, on a list, or not marked as on none.
Locks(listed) ==
    \A q \in Queues : suspend_cnt[q] % 2 # 1 => next[q] = LISTLESS /\ Nowhere(listed, q)

\* A call that was let go or has begun is in no slot.
Popped(listed) ==
    \A c \in Calls : /\ c \in begun \/ sema[c] = 1 => Nowhere(listed, c)
                     /\ c \in begun => sema[c] = 0

\* The places of a call that has still to be made, or has not got to a list: the frame
\* that makes it, the rest of a block, the body of a block that has not begun.
Turn == ({"asking"} \X Pos) \cup ({"rest"} \X (Pos \X (Nat \ {0})))
        \cup ({"body"} \X (Calls \X (Nat \ {0})))

Due(s) ==
    IF s[1] = "asking" THEN Asking(s[2])
    ELSE IF s[1] = "rest" THEN IF s[2][2] <= Len(Rest(s[2][1])) THEN Rest(s[2][1])[s[2][2]] ELSE NULL
    ELSE IF s[2][1] \notin begun /\ s[2][2] <= Len(U.body[s[2][1]])
         THEN U.body[s[2][1]][s[2][2]] ELSE NULL

\* Such a call is in one of these, and nowhere else.
ToCome(listed) ==
    \A s \in Turn : Due(s) \in Calls =>
        /\ Due(s) \notin begun /\ sema[Due(s)] = 0 /\ next[Due(s)] = LISTLESS
        /\ Nowhere(listed, Due(s))
        /\ \A r \in Turn : Due(r) = Due(s) => r = s

QueueTypes ==
    /\ use \in DOMAIN Uses
    /\ items_tail \in [Queues -> Maybe] /\ items_head \in [Queues -> Maybe]
    /\ next \in [Objects -> Maybe \cup {LISTLESS}]
    /\ suspend_cnt \in [Queues -> Int] /\ targetq \in [Queues -> Targets]
    /\ root \in Seq(Objects) /\ sema \in [Calls -> {0, 1}] /\ begun \subseteq Calls
    /\ stack \in [Threads -> Seq(StackFrame)]

Places(listed) == /\ OneSlot(listed) /\ Sides(listed) /\ Fetching /\ Ends(listed)
                  /\ Locks(listed) /\ Popped(listed) /\ ToCome(listed)

LinearInv == QueueTypes /\ \E listed \in SUBSET Objects : Places(listed)

\* What a step of t makes of the objects on lists: only what its frame puts there is new.
Relists(t, listed, new) ==
    \/ new \subseteq listed
    \/ new = listed \cup {Top(t).o} /\ (ExchangeTail(t) \/ Undo(t) \/ UndoInFront(t))
-----------------------------------------------------------------------------
(* Frames. *)

LEMMA TopFrame ==
    ASSUME QueueTypes, NEW t \in Threads, stack[t] # <<>>
    PROVE  /\ TopOf(t) \in Pos /\ Fr(TopOf(t)) = Top(t) /\ Top(t) \in StackFrame
           /\ Fr(Up(TopOf(t))) = Nothing /\ Fr(Up(Up(TopOf(t)))) = Nothing
<1>1. stack[t] \in Seq(StackFrame) /\ Len(stack[t]) \in Nat /\ Len(stack[t]) > 0
  BY DEF QueueTypes
<1>2. TopOf(t) \in Pos
  BY <1>1 DEF TopOf, Pos
<1>3. TopOf(t)[1] = t /\ TopOf(t)[2] = Len(stack[t]) - 1
  BY DEF TopOf
<1>4. Up(TopOf(t))[1] = t /\ Up(TopOf(t))[2] = Len(stack[t])
  BY <1>1, <1>3 DEF Up
<1>5. Up(Up(TopOf(t)))[1] = t /\ Up(Up(TopOf(t)))[2] = Len(stack[t]) + 1
  BY <1>1, <1>4 DEF Up
<1>6. Fr(TopOf(t)) = stack[t][1]
  <2>1. Len(stack[t]) - (Len(stack[t]) - 1) = 1 /\ Len(stack[t]) - 1 < Len(stack[t])
    BY <1>1
  <2> QED
    BY <2>1, <1>3 DEF Fr
<1>7. Top(t) = stack[t][1] /\ stack[t][1] \in StackFrame
  BY <1>1 DEF Top
<1> QED
  BY <1>1, <1>2, <1>4, <1>5, <1>6, <1>7 DEF Fr

\* What a step makes of the frame at p, of the two above it, and of no other.
Makes(p, f, g, h) ==
    /\ p \in Pos
    /\ Fr(p)' = f /\ Fr(Up(p))' = g /\ Fr(Up(Up(p)))' = h
    /\ \A r \in Pos \ {p, Up(p), Up(Up(p))} : Fr(r)' = Fr(r)

\* A thread's stack from the one at the bottom on, when fs are put on the n lowest frames.
LEMMA StackBecomes ==
    ASSUME QueueTypes, NEW t \in Threads, NEW fs \in Seq(StackFrame), Len(fs) <= 3,
           NEW s \in Seq(StackFrame), NEW n \in Nat, Len(s) = n,
           \A i \in 1 .. n : s[i] = stack[t][Len(stack[t]) - n + i],
           n <= Len(stack[t]), Len(stack[t]) <= n + 1,
           stack' = [stack EXCEPT ![t] = fs \o s]
    PROVE  /\ stack' \in [Threads -> Seq(StackFrame)]
           /\ Makes(<<t, n>>, IF Len(fs) > 0 THEN fs[Len(fs)] ELSE Nothing,
                              IF Len(fs) > 1 THEN fs[Len(fs) - 1] ELSE Nothing,
                              IF Len(fs) > 2 THEN fs[Len(fs) - 2] ELSE Nothing)
<1>1. /\ stack \in [Threads -> Seq(StackFrame)] /\ Len(stack[t]) \in Nat /\ Len(fs) \in Nat
  BY DEF QueueTypes
<1>2. fs \o s \in Seq(StackFrame) /\ Len(fs \o s) = Len(fs) + n
  BY ConcatProperties
<1>3. stack' \in [Threads -> Seq(StackFrame)] /\ stack'[t] = fs \o s
  BY <1>1, <1>2
<1>4. \A i \in 1 .. Len(fs) : (fs \o s)[i] = fs[i]
  BY ConcatProperties
<1>5. \A i \in 1 .. n : (fs \o s)[Len(fs) + i] = s[i]
  BY <1>1
<1>6. \A d \in Nat : Fr(<<t, d>>)' = IF d < Len(fs) + n THEN (fs \o s)[Len(fs) + n - d] ELSE Nothing
  BY <1>2, <1>3 DEF Fr
<1>7. \A d \in Nat : d < n => Fr(<<t, d>>)' = Fr(<<t, d>>)
  <2>1. SUFFICES ASSUME NEW d \in Nat, d < n PROVE Fr(<<t, d>>)' = Fr(<<t, d>>)
    OBVIOUS
  <2>2. n - d \in 1 .. n /\ Len(fs) + n - d = Len(fs) + (n - d)
    BY <2>1, <1>1
  <2>3. Fr(<<t, d>>)' = s[n - d]
    <3>1. d < Len(fs) + n
      BY <2>1, <1>1
    <3>2. Fr(<<t, d>>)' = (fs \o s)[Len(fs) + (n - d)]
      BY <3>1, <2>2, <1>6
    <3> QED
      BY <3>2, <2>2, <1>5
  <2>4. s[n - d] = stack[t][Len(stack[t]) - d]
    BY <2>2, <1>1
  <2>5. d < Len(stack[t])
    BY <2>1, <1>1
  <2> QED
    BY <2>3, <2>4, <2>5 DEF Fr
<1>8. \A d \in Nat : d >= n => Fr(<<t, d>>)' = IF d < Len(fs) + n THEN fs[Len(fs) + n - d] ELSE Nothing
  BY <1>1, <1>4, <1>6
<1>9. \A r \in Pos : r[1] # t => Fr(r)' = Fr(r)
  BY <1>1, <1>3 DEF Fr, Pos
<1>10. \A r \in Pos : r = <<r[1], r[2]>> /\ r[1] \in Threads /\ r[2] \in Nat
  BY DEF Pos
<1>11. <<t, n>> \in Pos /\ Up(<<t, n>>) = <<t, n + 1>> /\ Up(Up(<<t, n>>)) = <<t, n + 2>>
  BY DEF Up, Pos
<1>12. ASSUME NEW r \in Pos \ {<<t, n>>, <<t, n + 1>>, <<t, n + 2>>}
       PROVE  Fr(r)' = Fr(r)
  <2>1. CASE r[1] # t
    BY <2>1, <1>9
  <2>2. CASE r[1] = t /\ r[2] < n
    BY <2>2, <1>7, <1>10
  <2>3. CASE r[1] = t /\ r[2] >= n
    <3>1. r = <<t, r[2]>> /\ r[2] \in Nat
      BY <2>3, <1>10
    <3>2. r[2] # n /\ r[2] # n + 1 /\ r[2] # n + 2
      BY <3>1
    <3>3. \A d \in Nat : d >= n /\ d # n /\ d # n + 1 /\ d # n + 2 => d > n + 2
      OBVIOUS
    <3>4. r[2] > n + 2
      BY <2>3, <3>1, <3>2, <3>3
    <3>5. Fr(r)' = Nothing
      <4>1. r[2] >= n /\ ~(r[2] < Len(fs) + n)
        BY <3>1, <3>4, <1>1
      <4>2. Fr(<<t, r[2]>>)' = Nothing
        BY <4>1, <3>1, <1>8
      <4> QED
        BY <4>2, <3>1
    <3>6. Fr(r) = Nothing
      BY <3>1, <3>4, <1>1, <2>3 DEF Fr
    <3> QED
      BY <3>5, <3>6
  <2> QED
    BY <2>1, <2>2, <2>3, <1>10
<1>13. /\ Fr(<<t, n>>)' = (IF Len(fs) > 0 THEN fs[Len(fs)] ELSE Nothing)
       /\ Fr(<<t, n + 1>>)' = (IF Len(fs) > 1 THEN fs[Len(fs) - 1] ELSE Nothing)
       /\ Fr(<<t, n + 2>>)' = (IF Len(fs) > 2 THEN fs[Len(fs) - 2] ELSE Nothing)
  BY <1>1, <1>8
<1> QED
  BY <1>3, <1>11, <1>12, <1>13 DEF Makes

LEMMA StackMakes ==
    ASSUME QueueTypes, NEW t \in Threads, stack[t] # <<>>, NEW b, b = TopOf(t),
           NEW fs \in Seq(StackFrame), Len(fs) <= 3, Become(t, fs)
    PROVE  /\ stack' \in [Threads -> Seq(StackFrame)]
           /\ Makes(b, IF Len(fs) > 0 THEN fs[Len(fs)] ELSE Nothing,
                       IF Len(fs) > 1 THEN fs[Len(fs) - 1] ELSE Nothing,
                       IF Len(fs) > 2 THEN fs[Len(fs) - 2] ELSE Nothing)
<1>1. stack[t] \in Seq(StackFrame) /\ Len(stack[t]) \in Nat /\ Len(stack[t]) > 0
  BY DEF QueueTypes
<1>2. PICK n \in Nat : n = Len(stack[t]) - 1
  BY <1>1
<1>3. PICK s : s = Tail(stack[t])
  OBVIOUS
<1>4. /\ s \in Seq(StackFrame) /\ Len(s) = n
      /\ \A i \in 1 .. n : s[i] = stack[t][Len(stack[t]) - n + i]
  BY <1>1, <1>2, <1>3, HeadTailProperties
<1>5. stack' = [stack EXCEPT ![t] = fs \o s]
  BY <1>3 DEF Become, QueueTypes
<1>6. n <= Len(stack[t]) /\ Len(stack[t]) <= n + 1 /\ b = <<t, n>>
  BY <1>1, <1>2 DEF TopOf
<1> HIDE <1>2, <1>3
<1>7. /\ stack' \in [Threads -> Seq(StackFrame)]
      /\ Makes(<<t, n>>, IF Len(fs) > 0 THEN fs[Len(fs)] ELSE Nothing,
                         IF Len(fs) > 1 THEN fs[Len(fs) - 1] ELSE Nothing,
                         IF Len(fs) > 2 THEN fs[Len(fs) - 2] ELSE Nothing)
  BY <1>4, <1>5, <1>6, StackBecomes
<1> QED
  BY <1>6, <1>7

\* A worker takes its first frames on an empty stack.
LEMMA StackStarts ==
    ASSUME QueueTypes, NEW t \in Threads, stack[t] = <<>>,
           NEW fs \in Seq(StackFrame), Len(fs) <= 3, stack' = [stack EXCEPT ![t] = fs]
    PROVE  /\ stack' \in [Threads -> Seq(StackFrame)]
           /\ Makes(<<t, 0>>, IF Len(fs) > 0 THEN fs[Len(fs)] ELSE Nothing,
                              IF Len(fs) > 1 THEN fs[Len(fs) - 1] ELSE Nothing,
                              IF Len(fs) > 2 THEN fs[Len(fs) - 2] ELSE Nothing)
           /\ Fr(<<t, 0>>) = Nothing /\ Fr(Up(<<t, 0>>)) = Nothing /\ Fr(Up(Up(<<t, 0>>))) = Nothing
<1>1. PICK s \in Seq(StackFrame) : s = <<>>
  BY EmptySeq
<1>2. Len(s) = 0 /\ fs \o s = fs /\ Len(stack[t]) = 0
  BY <1>1, ConcatEmptySeq
<1>3. PICK n \in Nat : n = 0
  OBVIOUS
<1>4. Len(s) = n /\ n <= Len(stack[t]) /\ Len(stack[t]) <= n + 1
  BY <1>2, <1>3
<1>5. \A i \in 1 .. n : s[i] = stack[t][Len(stack[t]) - n + i]
  BY <1>3
<1>6. stack' = [stack EXCEPT ![t] = fs \o s]
  BY <1>2
<1>7. /\ stack' \in [Threads -> Seq(StackFrame)]
      /\ Makes(<<t, n>>, IF Len(fs) > 0 THEN fs[Len(fs)] ELSE Nothing,
                         IF Len(fs) > 1 THEN fs[Len(fs) - 1] ELSE Nothing,
                         IF Len(fs) > 2 THEN fs[Len(fs) - 2] ELSE Nothing)
  BY <1>4, <1>5, <1>6, StackBecomes
<1>8. Up(<<t, 0>>) = <<t, 1>> /\ Up(Up(<<t, 0>>)) = <<t, 2>>
  BY DEF Up
<1>9. Fr(<<t, 0>>) = Nothing /\ Fr(<<t, 1>>) = Nothing /\ Fr(<<t, 2>>) = Nothing
  BY <1>2 DEF Fr
<1> QED
  BY <1>3, <1>7, <1>8, <1>9

\* The same for the numbers of frames that the steps put in the place of their own.
LEMMA Becoming ==
    ASSUME QueueTypes, NEW t \in Threads, stack[t] # <<>>, NEW b, b = TopOf(t)
    PROVE  /\ b \in Pos /\ Fr(b) = Top(t) /\ Top(t) \in StackFrame
           /\ Fr(Up(b)) = Nothing /\ Fr(Up(Up(b))) = Nothing
           /\ Become(t, <<>>) =>
                 stack' \in [Threads -> Seq(StackFrame)] /\ Makes(b, Nothing, Nothing, Nothing)
           /\ \A f \in StackFrame : Become(t, <<f>>) =>
                 stack' \in [Threads -> Seq(StackFrame)] /\ Makes(b, f, Nothing, Nothing)
           /\ \A f, g \in StackFrame : Become(t, <<g, f>>) =>
                 stack' \in [Threads -> Seq(StackFrame)] /\ Makes(b, f, g, Nothing)
           /\ \A f, g, h \in StackFrame : Become(t, <<h, g, f>>) =>
                 stack' \in [Threads -> Seq(StackFrame)] /\ Makes(b, f, g, h)
<1>1. /\ b \in Pos /\ Fr(b) = Top(t) /\ Top(t) \in StackFrame
      /\ Fr(Up(b)) = Nothing /\ Fr(Up(Up(b))) = Nothing
  BY TopFrame
<1>2. ASSUME Become(t, <<>>)
      PROVE  stack' \in [Threads -> Seq(StackFrame)] /\ Makes(b, Nothing, Nothing, Nothing)
  <2>1. PICK fs \in Seq(StackFrame) : fs = <<>>
    BY EmptySeq
  <2>2. Len(fs) = 0 /\ Len(fs) <= 3 /\ Become(t, fs)
    BY <2>1, <1>2
  <2> HIDE <2>1
  <2>3. /\ stack' \in [Threads -> Seq(StackFrame)]
        /\ Makes(b, IF Len(fs) > 0 THEN fs[Len(fs)] ELSE Nothing,
                    IF Len(fs) > 1 THEN fs[Len(fs) - 1] ELSE Nothing,
                    IF Len(fs) > 2 THEN fs[Len(fs) - 2] ELSE Nothing)
    BY <2>2, StackMakes
  <2> QED
    BY <2>2, <2>3
<1>3. ASSUME NEW f \in StackFrame, Become(t, <<f>>)
      PROVE  stack' \in [Threads -> Seq(StackFrame)] /\ Makes(b, f, Nothing, Nothing)
  <2>0. <<f>> \in Seq(StackFrame)
    OBVIOUS
  <2>1. PICK fs \in Seq(StackFrame) : fs = <<f>>
    BY <2>0
  <2>2. Len(fs) = 1 /\ Len(fs) <= 3 /\ fs[1] = f /\ Become(t, fs)
    BY <2>1, <1>3
  <2> HIDE <2>1
  <2>3. /\ stack' \in [Threads -> Seq(StackFrame)]
        /\ Makes(b, IF Len(fs) > 0 THEN fs[Len(fs)] ELSE Nothing,
                    IF Len(fs) > 1 THEN fs[Len(fs) - 1] ELSE Nothing,
                    IF Len(fs) > 2 THEN fs[Len(fs) - 2] ELSE Nothing)
    BY <2>2, StackMakes
  <2> QED
    BY <2>2, <2>3
<1>4. ASSUME NEW f \in StackFrame, NEW g \in StackFrame, Become(t, <<g, f>>)
      PROVE  stack' \in [Threads -> Seq(StackFrame)] /\ Makes(b, f, g, Nothing)
  <2>0. <<g, f>> \in Seq(StackFrame)
    OBVIOUS
  <2>1. PICK fs \in Seq(StackFrame) : fs = <<g, f>>
    BY <2>0
  <2>2. Len(fs) = 2 /\ Len(fs) <= 3 /\ fs[2] = f /\ fs[1] = g /\ Become(t, fs)
    BY <2>1, <1>4
  <2> HIDE <2>1
  <2>3. /\ stack' \in [Threads -> Seq(StackFrame)]
        /\ Makes(b, IF Len(fs) > 0 THEN fs[Len(fs)] ELSE Nothing,
                    IF Len(fs) > 1 THEN fs[Len(fs) - 1] ELSE Nothing,
                    IF Len(fs) > 2 THEN fs[Len(fs) - 2] ELSE Nothing)
    BY <2>2, StackMakes
  <2> QED
    BY <2>2, <2>3
<1>5. ASSUME NEW f \in StackFrame, NEW g \in StackFrame, NEW h \in StackFrame,
             Become(t, <<h, g, f>>)
      PROVE  stack' \in [Threads -> Seq(StackFrame)] /\ Makes(b, f, g, h)
  <2>0. <<h, g, f>> \in Seq(StackFrame)
    OBVIOUS
  <2>1. PICK fs \in Seq(StackFrame) : fs = <<h, g, f>>
    BY <2>0
  <2>2. Len(fs) = 3 /\ Len(fs) <= 3 /\ fs[3] = f /\ fs[2] = g /\ fs[1] = h /\ Become(t, fs)
    BY <2>1, <1>5
  <2> HIDE <2>1
  <2>3. /\ stack' \in [Threads -> Seq(StackFrame)]
        /\ Makes(b, IF Len(fs) > 0 THEN fs[Len(fs)] ELSE Nothing,
                    IF Len(fs) > 1 THEN fs[Len(fs) - 1] ELSE Nothing,
                    IF Len(fs) > 2 THEN fs[Len(fs) - 2] ELSE Nothing)
    BY <2>2, StackMakes
  <2> QED
    BY <2>2, <2>3
<1> QED
  BY <1>1, <1>2, <1>3, <1>4, <1>5

\* A frame that has nothing to do with objects on the move or calls to be made.
Bare(f) == /\ QOf(f) = NULL /\ OOf(f) = NULL /\ NOf(f) = NULL /\ PrevOf(f) = NULL
           /\ CallOf(f) = NULL /\ RestOf(f) = <<>> /\ f.at \notin FetchedAts \cup {"push"}

Alike(f, g) == /\ QOf(f) = QOf(g) /\ OOf(f) = OOf(g) /\ NOf(f) = NOf(g) /\ PrevOf(f) = PrevOf(g)
               /\ CallOf(f) = CallOf(g) /\ RestOf(f) = RestOf(g)
               /\ (f.at \in FetchedAts <=> g.at \in FetchedAts) /\ (f.at = "push" <=> g.at = "push")

\* What a step leaves alone at r: all that the places of objects depend on, and the
\* calls still to be made.
Steady(r) == /\ Invoked(r)' = Invoked(r) /\ Held(r)' = Held(r) /\ Behind(r)' = Behind(r)
             /\ Before(r)' = Before(r)
             /\ (Fetched(r)' <=> Fetched(r)) /\ (Apart(r)' <=> Apart(r))

Still(r) == Steady(r) /\ Asking(r)' = Asking(r) /\ Rest(r)' = Rest(r)

\* r becomes f.
IsNow(r, f) == /\ Invoked(r)' = QOf(f) /\ Held(r)' = OOf(f) /\ Behind(r)' = NOf(f)
               /\ Before(r)' = PrevOf(f) /\ Asking(r)' = CallOf(f) /\ Rest(r)' = RestOf(f)
               /\ (Fetched(r)' <=> f.at \in FetchedAts)
               /\ (Apart(r)' <=> f.at \in FetchedAts \cup {"push"})

LEMMA NothingIsBare == Bare(Nothing)
BY DEF Bare, Nothing, QOf, OOf, NOf, PrevOf, CallOf, RestOf, FetchedAts, HoldAts, EmptyAts, FastAts

LEMMA BareIsStill ==
    ASSUME NEW r, NEW f, NEW g, Fr(r) = f, Fr(r)' = g, Alike(f, g) \/ (Bare(f) /\ Bare(g))
    PROVE  Still(r)
BY DEF Still, Steady, Alike, Bare, Invoked, Held, Behind, Before, Asking, Rest, Fetched, Apart

LEMMA Making ==
    ASSUME NEW b, NEW f, NEW g, NEW h, Makes(b, f, g, h), Fr(Up(b)) = Nothing, Fr(Up(Up(b))) = Nothing
    PROVE  /\ \A r \in Pos \ {b, Up(b), Up(Up(b))} : Still(r)
           /\ Alike(Fr(b), f) => Still(b)
           /\ Bare(g) => Still(Up(b))
           /\ Bare(h) => Still(Up(Up(b)))
           /\ IsNow(b, f) /\ IsNow(Up(b), g) /\ IsNow(Up(Up(b)), h)
           /\ b \in Pos /\ Up(b) \in Pos /\ Up(Up(b)) \in Pos
           /\ b # Up(b) /\ b # Up(Up(b)) /\ Up(b) # Up(Up(b))
<1>1. \A r \in Pos \ {b, Up(b), Up(Up(b))} : Still(r)
  BY BareIsStill DEF Makes, Alike
<1>2. Alike(Fr(b), f) => Still(b)
  BY BareIsStill DEF Makes
<1>3. /\ Bare(g) => Still(Up(b))
      /\ Bare(h) => Still(Up(Up(b)))
  BY BareIsStill, NothingIsBare DEF Makes
<1>4. IsNow(b, f) /\ IsNow(Up(b), g) /\ IsNow(Up(Up(b)), h)
  BY DEF Makes, IsNow, Invoked, Held, Behind, Before, Asking, Rest, Fetched, Apart
<1>5. /\ b \in Pos /\ Up(b) \in Pos /\ Up(Up(b)) \in Pos
      /\ b # Up(b) /\ b # Up(Up(b)) /\ Up(b) # Up(Up(b))
  BY DEF Makes, Pos, Up
<1> QED
  BY <1>1, <1>2, <1>3, <1>4, <1>5
-----------------------------------------------------------------------------
(* Slots. *)

LEMMA SlotKinds ==
    /\ \A p \in Pos : /\ <<"invoked", p>> \in Slot /\ <<"held", p>> \in Slot /\ <<"behind", p>> \in Slot
    /\ \A q \in Queues : <<"head", q>> \in Slot
    /\ \A x \in Objects : <<"next", x>> \in Slot
    /\ \A i \in Nat \ {0} : <<"root", i>> \in Slot
    /\ \A s \in Slot : \/ \E p \in Pos : s \in {<<"invoked", p>>, <<"held", p>>, <<"behind", p>>}
                       \/ \E q \in Queues : s = <<"head", q>>
                       \/ \E x \in Objects : s = <<"next", x>>
                       \/ \E i \in Nat \ {0} : s = <<"root", i>>
BY DEF Slot

LEMMA SlotValues ==
    ASSUME NEW listed
    PROVE  /\ \A p \in Pos : /\ In(listed, <<"invoked", p>>) = Invoked(p)
                             /\ In(listed, <<"held", p>>) = Held(p)
                             /\ In(listed, <<"behind", p>>) = Behind(p)
           /\ \A q \in Queues : In(listed, <<"head", q>>) = items_head[q]
           /\ \A x \in Objects : In(listed, <<"next", x>>) = IF x \in listed THEN next[x] ELSE NULL
           /\ \A i \in Nat \ {0} : In(listed, <<"root", i>>) = IF i <= Len(root) THEN root[i] ELSE NULL
BY DEF In

LEMMA SlotValuesNext ==
    ASSUME NEW listed
    PROVE  /\ \A p \in Pos : /\ In(listed, <<"invoked", p>>)' = Invoked(p)'
                             /\ In(listed, <<"held", p>>)' = Held(p)'
                             /\ In(listed, <<"behind", p>>)' = Behind(p)'
           /\ \A q \in Queues : In(listed, <<"head", q>>)' = items_head'[q]
           /\ \A x \in Objects : In(listed, <<"next", x>>)' = IF x \in listed THEN next'[x] ELSE NULL
           /\ \A i \in Nat \ {0} : In(listed, <<"root", i>>)' = IF i <= Len(root') THEN root'[i] ELSE NULL
BY DEF In

LEMMA SlotsApart ==
    /\ \A p, r \in Pos : /\ <<"invoked", p>> # <<"held", r>> /\ <<"invoked", p>> # <<"behind", r>>
                         /\ <<"held", p>> # <<"behind", r>>
                         /\ \A k \in STRING : <<k, p>> = <<k, r>> => p = r
    /\ \A p, x \in Pos \cup Queues \cup Objects \cup Nat :
          /\ \A k \in {"invoked", "held", "behind"} : <<k, p>> # <<"head", x>> /\ <<k, p>> # <<"next", x>>
                                                     /\ <<k, p>> # <<"root", x>>
          /\ <<"head", p>> # <<"next", x>> /\ <<"head", p>> # <<"root", x>> /\ <<"next", p>> # <<"root", x>>
          /\ \A k \in STRING : <<k, p>> = <<k, x>> => p = x
OBVIOUS

\* What is in one slot is nowhere else.
LEMMA OnlyThere ==
    ASSUME NEW listed \in SUBSET Objects, OneSlot(listed), NEW s \in Slot,
           NEW o \in Objects, o = In(listed, s)
    PROVE  /\ \A p \in Pos : /\ Invoked(p) = o => s = <<"invoked", p>>
                             /\ Held(p) = o => s = <<"held", p>>
                             /\ Behind(p) = o => s = <<"behind", p>>
           /\ \A q \in Queues : items_head[q] = o => s = <<"head", q>>
           /\ \A x \in listed : next[x] = o => s = <<"next", x>>
           /\ \A i \in 1 .. Len(root) : root[i] = o => s = <<"root", i>>
<1>1. \A r \in Slot : In(listed, r) = o => r = s
  BY DEF OneSlot
<1>2. \A p \in Pos : /\ Invoked(p) = o => s = <<"invoked", p>>
                     /\ Held(p) = o => s = <<"held", p>>
                     /\ Behind(p) = o => s = <<"behind", p>>
  <2>1. ASSUME NEW p \in Pos
        PROVE  /\ Invoked(p) = o => s = <<"invoked", p>>
               /\ Held(p) = o => s = <<"held", p>>
               /\ Behind(p) = o => s = <<"behind", p>>
    <3>1. <<"invoked", p>> \in Slot /\ <<"held", p>> \in Slot /\ <<"behind", p>> \in Slot
      BY SlotKinds
    <3>2. /\ In(listed, <<"invoked", p>>) = Invoked(p) /\ In(listed, <<"held", p>>) = Held(p)
          /\ In(listed, <<"behind", p>>) = Behind(p)
      BY SlotValues
    <3> QED
      BY <1>1, <3>1, <3>2
  <2> QED
    BY <2>1
<1>3. \A q \in Queues : items_head[q] = o => s = <<"head", q>>
  <2>1. \A q \in Queues : <<"head", q>> \in Slot
    BY SlotKinds
  <2>2. \A q \in Queues : In(listed, <<"head", q>>) = items_head[q]
    BY SlotValues
  <2> QED
    BY <1>1, <2>1, <2>2
<1>4. \A x \in listed : next[x] = o => s = <<"next", x>>
  <2>1. \A x \in listed : <<"next", x>> \in Slot
    BY SlotKinds
  <2>2. \A x \in listed : In(listed, <<"next", x>>) = next[x]
    BY SlotValues
  <2> QED
    BY <1>1, <2>1, <2>2
<1>5. ASSUME NEW i \in 1 .. Len(root), root[i] = o
      PROVE  s = <<"root", i>>
  <2>1. i \in Nat \ {0} /\ i <= Len(root)
    OBVIOUS
  <2>2. In(listed, <<"root", i>>) = o /\ <<"root", i>> \in Slot
    BY <2>1, <1>5, SlotKinds, SlotValues
  <2> QED
    BY <2>2, <1>1
<1> QED
  BY <1>2, <1>3, <1>4, <1>5

Out(listed, o) == \A s \in Slot : In(listed, s) # o

\* The slot keeps what it has, or loses it.
Loses(before, after, s) == In(after, s)' = In(before, s) \/ In(after, s)' \notin Objects

LEMMA SlotsLose ==
    ASSUME NEW A, NEW B, OneSlot(A), \A s \in Slot : Loses(A, B, s)
    PROVE  /\ OneSlot(B)'
           /\ \A o \in Objects : Out(A, o) => Out(B, o)'
           /\ \A s \in Slot : \A o \in Objects :
                 In(A, s) = o /\ In(B, s)' \notin Objects => Out(B, o)'
<1>1. OneSlot(B)'
  BY DEF OneSlot, Loses
<1>2. \A o \in Objects : Out(A, o) => Out(B, o)'
  BY DEF Out, Loses
<1>3. \A s \in Slot : \A o \in Objects :
          In(A, s) = o /\ In(B, s)' \notin Objects => Out(B, o)'
  BY DEF OneSlot, Out, Loses
<1> QED
  BY <1>1, <1>2, <1>3

\* An object goes from the slot x to the slot y.
LEMMA SlotMove ==
    ASSUME NEW A, NEW B, OneSlot(A), NEW x \in Slot, NEW y \in Slot, x # y,
           In(B, y)' = In(A, x), In(B, x)' \notin Objects,
           \A s \in Slot \ {x, y} : Loses(A, B, s)
    PROVE  /\ OneSlot(B)'
           /\ \A o \in Objects : Out(A, o) \/ In(A, y) = o => Out(B, o)'
<1>1. OneSlot(B)'
  BY DEF OneSlot, Loses
<1>2. \A o \in Objects : Out(A, o) => Out(B, o)'
  BY DEF Out, Loses
<1>3. \A o \in Objects : In(A, y) = o => Out(B, o)'
  BY DEF OneSlot, Out, Loses
<1> QED
  BY <1>1, <1>2, <1>3

\* One goes from x to y, and the one that was there to z.
LEMMA SlotChain ==
    ASSUME NEW A, NEW B, OneSlot(A), NEW x \in Slot, NEW y \in Slot, NEW z \in Slot,
           x # y, x # z, y # z,
           In(B, z)' = In(A, y), In(B, y)' = In(A, x), In(B, x)' \notin Objects,
           \A s \in Slot \ {x, y, z} : Loses(A, B, s)
    PROVE  /\ OneSlot(B)'
           /\ \A o \in Objects : Out(A, o) => Out(B, o)'
<1>1. OneSlot(B)'
  BY DEF OneSlot, Loses
<1>2. \A o \in Objects : Out(A, o) => Out(B, o)'
  BY DEF Out, Loses
<1> QED
  BY <1>1, <1>2

\* An object that was in no slot gets into y.
LEMMA SlotNew ==
    ASSUME NEW A, NEW B, OneSlot(A), NEW y \in Slot, NEW new \in Objects, Out(A, new),
           In(B, y)' = new, \A s \in Slot \ {y} : Loses(A, B, s)
    PROVE  /\ OneSlot(B)'
           /\ \A o \in Objects \ {new} : Out(A, o) => Out(B, o)'
<1>1. OneSlot(B)'
  BY DEF OneSlot, Loses, Out
<1>2. \A o \in Objects \ {new} : Out(A, o) => Out(B, o)'
  BY DEF Out, Loses
<1> QED
  BY <1>1, <1>2
-----------------------------------------------------------------------------
(* What a step leaves as it was. *)

LEMMA NullIsNone == NULL \notin Objects /\ NULL \notin Calls /\ NULL \notin Queues /\ LISTLESS # NULL
                    /\ LISTLESS \notin Objects
BY NullAssumption DEF Objects

\* Turns stay as they are when no call is made and no block begins.
LEMMA SameTurns ==
    ASSUME UNCHANGED <<use, begun>>,
           \A r \in Pos : Rest(r)' = Rest(r) /\ Asking(r)' \in {Asking(r), NULL}
    PROVE  \A s \in Turn : Due(s)' = Due(s) \/ Due(s)' \notin Calls
<1>1. U' = U
  BY DEF U
<1>2. ASSUME NEW s \in Turn, s[1] = "asking" PROVE Due(s)' = Due(s) \/ Due(s)' \notin Calls
  <2>1. s[2] \in Pos
    BY <1>2 DEF Turn
  <2> QED
    BY <1>2, <2>1, NullIsNone DEF Due
<1>3. ASSUME NEW s \in Turn, s[1] = "rest" PROVE Due(s)' = Due(s)
  <2>1. s[2][1] \in Pos
    BY <1>3 DEF Turn
  <2> QED
    BY <1>3, <2>1 DEF Due
<1>4. ASSUME NEW s \in Turn, s[1] # "asking", s[1] # "rest" PROVE Due(s)' = Due(s)
  BY <1>1, <1>4 DEF Due
<1> QED
  BY <1>2, <1>3, <1>4

\* A call that is still to be made stays so.
LEMMA StillToCome ==
    ASSUME NEW A, NEW B, ToCome(A),
           \A s \in Turn : Due(s)' = Due(s) \/ Due(s)' \notin Calls,
           \A c \in Calls : (\E s \in Turn : Due(s)' = c) /\ Nowhere(A, c) /\ next[c] = LISTLESS
                            /\ c \notin begun /\ sema[c] = 0 =>
               c \notin begun' /\ sema'[c] = 0 /\ next'[c] = LISTLESS /\ Nowhere(B, c)'
    PROVE  ToCome(B)'
<1>1. ASSUME NEW s \in Turn, Due(s)' \in Calls
      PROVE  /\ Due(s)' \notin begun' /\ sema'[Due(s)'] = 0 /\ next'[Due(s)'] = LISTLESS
             /\ Nowhere(B, Due(s))'
             /\ \A r \in Turn : Due(r)' = Due(s)' => r = s
  <2>1. Due(s)' = Due(s)
    BY <1>1
  <2>2. PICK c \in Calls : c = Due(s)'
    BY <1>1
  <2>3. /\ c \notin begun /\ sema[c] = 0 /\ next[c] = LISTLESS /\ Nowhere(A, c)
        /\ \A r \in Turn : Due(r) = c => r = s
    BY <2>1, <2>2 DEF ToCome
  <2>4. c \notin begun' /\ sema'[c] = 0 /\ next'[c] = LISTLESS /\ Nowhere(B, c)'
    BY <2>2, <2>3
  <2>5. Nowhere(B, Due(s))'
    BY <2>2, <2>4 DEF Nowhere
  <2> QED
    BY <2>2, <2>3, <2>4, <2>5
<1> QED
  BY <1>1 DEF ToCome

\* What was nowhere and is nowhere still.
KeepsOut(A, B) == \A o \in Objects : Nowhere(A, o) => Nowhere(B, o)' /\ next'[o] = next[o]

SameLocks == \A q \in Queues : suspend_cnt'[q] % 2 = suspend_cnt[q] % 2

\* A step that moves objects about, but neither begins a block nor lets one go, nor locks.
LEMMA Settled ==
    ASSUME NEW A, NEW B, Places(A), OneSlot(B)', Sides(B)', Fetching', Ends(B)',
           KeepsOut(A, B), SameLocks, UNCHANGED <<use, begun, sema>>,
           \A r \in Pos : Rest(r)' = Rest(r) /\ Asking(r)' \in {Asking(r), NULL}
    PROVE  Places(B)'
<1>1. Locks(B)'
  BY DEF Places, Locks, KeepsOut, SameLocks, Objects
<1>2. Popped(B)'
  BY DEF Places, Popped, KeepsOut, Objects
<1>3. ToCome(B)'
  <2>1. \A s \in Turn : Due(s)' = Due(s) \/ Due(s)' \notin Calls
    BY SameTurns
  <2>2. \A c \in Calls : Nowhere(A, c) /\ next[c] = LISTLESS /\ c \notin begun /\ sema[c] = 0 =>
            c \notin begun' /\ sema'[c] = 0 /\ next'[c] = LISTLESS /\ Nowhere(B, c)'
    BY DEF KeepsOut, Objects
  <2> QED
    BY <2>1, <2>2, StillToCome DEF Places
<1> QED
  BY <1>1, <1>2, <1>3 DEF Places

\* The lists, as far as the places of objects depend on them.
SameLists == UNCHANGED <<items_tail, items_head, next, root>>

LEMMA SteadySlots ==
    ASSUME NEW A, SameLists, \A r \in Pos : Steady(r)
    PROVE  \A s \in Slot : In(A, s)' = In(A, s)
<1>1. \A p \in Pos : /\ In(A, <<"invoked", p>>)' = In(A, <<"invoked", p>>)
                     /\ In(A, <<"held", p>>)' = In(A, <<"held", p>>)
                     /\ In(A, <<"behind", p>>)' = In(A, <<"behind", p>>)
  BY DEF In, Steady
<1>2. /\ \A q \in Queues : In(A, <<"head", q>>)' = In(A, <<"head", q>>)
      /\ \A x \in Objects : In(A, <<"next", x>>)' = In(A, <<"next", x>>)
      /\ \A i \in Nat \ {0} : In(A, <<"root", i>>)' = In(A, <<"root", i>>)
  BY DEF In, SameLists
<1> QED
  BY <1>1, <1>2, SlotKinds

\* The parts of Places that are about lists stay when nothing moves.
LEMMA SteadyLists ==
    ASSUME NEW A \in SUBSET Objects, OneSlot(A), Sides(A), Fetching, Ends(A),
           SameLists, \A r \in Pos : Steady(r)
    PROVE  /\ OneSlot(A)' /\ Sides(A)' /\ Fetching' /\ Ends(A)'
           /\ \A o \in Objects : Nowhere(A, o) <=> Nowhere(A, o)'
<1>1. OneSlot(A)' /\ \A o \in Objects : Nowhere(A, o) <=> Nowhere(A, o)'
  BY SteadySlots DEF OneSlot, Nowhere
<1>2. Sides(A)'
  <2>1. \A p \in Pos : /\ Invoked(p)' \notin A
                       /\ Behind(p)' \in A \cup {NULL}
                       /\ Apart(p)' => Held(p)' \notin A
                       /\ ~Apart(p)' => Held(p)' \in A \cup {NULL}
    BY DEF Sides, Steady
  <2> QED
    BY <2>1 DEF Sides, SameLists
<1>3. Fetching'
  BY DEF Fetching, Steady, SameLists
<1>4. Ends(A)'
  BY DEF Ends, Steady, SameLists
<1> QED
  BY <1>1, <1>2, <1>3, <1>4

\* A step that moves nothing.
LEMMA Quiet ==
    ASSUME NEW A \in SUBSET Objects, Places(A), SameLists, SameLocks, UNCHANGED <<use, begun, sema>>,
           \A r \in Pos : Still(r)
    PROVE  Places(A)'
<1>1. /\ OneSlot(A)' /\ Sides(A)' /\ Fetching' /\ Ends(A)'
      /\ \A o \in Objects : Nowhere(A, o) <=> Nowhere(A, o)'
  BY SteadyLists DEF Places, Still
<1>2. KeepsOut(A, A)
  BY <1>1 DEF KeepsOut, SameLists
<1>3. \A r \in Pos : Rest(r)' = Rest(r) /\ Asking(r)' \in {Asking(r), NULL}
  BY DEF Still
<1> QED
  BY <1>1, <1>2, <1>3, Settled
-----------------------------------------------------------------------------
(* Frames by kind. *)

LEMMA FrameKinds ==
    ASSUME NEW f \in StackFrame
    PROVE  /\ f.at = "push" => f \in PushFrame
           /\ f.at = "publish" => f \in PublishFrame
           /\ f.at = "link" => f \in LinkFrame
           /\ f.at \in BareAts => f \in BareFrame
           /\ f.at \in FastAts \cup WaitAts => f \in CallFrame
           /\ f.at = "run" => f \in RunFrame
           /\ f.at \in EmptyAts \cup {"invoke_idle"} \cup HoldAts =>
                 f \in DrainFrame /\ (f.at \in HoldAts => f.o \in Objects)
BY DEF StackFrame, PushFrame, PublishFrame, LinkFrame, BareFrame, CallFrame, RunFrame, DrainFrame,
       BareAts, FastAts, WaitAts, EmptyAts, HoldAts, FetchedAts

LEMMA BareFrames ==
    ASSUME NEW at \in BareAts, NEW q \in Queues
    PROVE  Frame(at, q, NULL) \in StackFrame /\ Bare(Frame(at, q, NULL))
<1>1. Frame(at, q, NULL) \in BareFrame
  BY DEF Frame, BareFrame
<1>2. Frame(at, q, NULL).at = at
  BY DEF Frame
<1>3. Bare(Frame(at, q, NULL))
  BY <1>2 DEF Bare, BareAts, QOf, OOf, NOf, PrevOf, CallOf, RestOf, FetchedAts, HoldAts, EmptyAts, FastAts
<1> QED
  BY <1>1, <1>3 DEF StackFrame

LEMMA PushFrames ==
    ASSUME NEW q \in Targets, NEW o \in Objects
    PROVE  /\ Frame("push", q, o) \in StackFrame
           /\ QOf(Frame("push", q, o)) = NULL /\ OOf(Frame("push", q, o)) = o
           /\ NOf(Frame("push", q, o)) = NULL /\ PrevOf(Frame("push", q, o)) = NULL
           /\ CallOf(Frame("push", q, o)) = NULL /\ RestOf(Frame("push", q, o)) = <<>>
           /\ Frame("push", q, o).at = "push"
<1>1. Frame("push", q, o) \in PushFrame /\ Frame("push", q, o).at = "push" /\ Frame("push", q, o).o = o
  BY DEF Frame, PushFrame
<1> QED
  BY <1>1 DEF StackFrame, QOf, OOf, NOf, PrevOf, CallOf, RestOf, FetchedAts, HoldAts, EmptyAts, FastAts

LEMMA CallFrames ==
    ASSUME NEW at \in FastAts \cup WaitAts, NEW q \in Queues, NEW c \in Calls
    PROVE  /\ Frame(at, q, c) \in StackFrame
           /\ at \in WaitAts => Bare(Frame(at, q, c))
           /\ QOf(Frame(at, q, c)) = NULL /\ OOf(Frame(at, q, c)) = NULL
           /\ NOf(Frame(at, q, c)) = NULL /\ PrevOf(Frame(at, q, c)) = NULL
           /\ at \in FastAts => CallOf(Frame(at, q, c)) = c
           /\ RestOf(Frame(at, q, c)) = <<>>
           /\ Frame(at, q, c).at = at /\ at \notin FetchedAts \cup {"push"}
<1>1. Frame(at, q, c) \in CallFrame /\ Frame(at, q, c).at = at /\ Frame(at, q, c).o = c
  BY DEF Frame, CallFrame
<1> QED
  BY <1>1 DEF StackFrame, Bare, QOf, OOf, NOf, PrevOf, CallOf, RestOf, FetchedAts, HoldAts, EmptyAts, FastAts, WaitAts

\* A frame that waits for a call or makes it goes on to another place.
LEMMA CallGoesOn ==
    ASSUME NEW f \in CallFrame, NEW at \in FastAts \cup WaitAts
    PROVE  [f EXCEPT !.at = at] = Frame(at, f.q, f.o) /\ f.q \in Queues /\ f.o \in Calls
BY DEF CallFrame, Frame

LEMMA DrainGoesOn ==
    ASSUME NEW f \in DrainFrame, NEW at \in EmptyAts \cup {"invoke_idle"} \cup HoldAts,
           at \in HoldAts => f.o \in Objects
    PROVE  /\ [f EXCEPT !.at = at] \in StackFrame
           /\ [f EXCEPT !.at = at].at = at /\ [f EXCEPT !.at = at].q = f.q
           /\ [f EXCEPT !.at = at].o = f.o /\ [f EXCEPT !.at = at].n = f.n
           /\ f.q \in Queues /\ f.tq \in Targets /\ f.o \in Maybe /\ f.n \in Maybe
<1>1. [f EXCEPT !.at = at] \in DrainFrame
  BY DEF DrainFrame
<1>2. /\ [f EXCEPT !.at = at].at = at /\ [f EXCEPT !.at = at].q = f.q
      /\ [f EXCEPT !.at = at].o = f.o /\ [f EXCEPT !.at = at].n = f.n
      /\ f.q \in Queues /\ f.tq \in Targets /\ f.o \in Maybe /\ f.n \in Maybe
  BY DEF DrainFrame
<1> QED
  BY <1>1, <1>2 DEF StackFrame

\* The attributes of a drainer's frame.
LEMMA DrainFrames ==
    ASSUME NEW f, f.at \in EmptyAts \cup {"invoke_idle"} \cup HoldAts
    PROVE  /\ QOf(f) = IF f.at = "invoke_idle" THEN NULL ELSE f.q
           /\ OOf(f) = IF f.at \in HoldAts THEN f.o ELSE NULL
           /\ NOf(f) = IF f.at \in FetchedAts THEN f.n ELSE NULL
           /\ PrevOf(f) = NULL /\ CallOf(f) = NULL /\ RestOf(f) = <<>> /\ f.at # "push"
BY DEF QOf, OOf, NOf, PrevOf, CallOf, RestOf, FetchedAts, HoldAts, EmptyAts, FastAts

LEMMA BareIsAlike ==
    ASSUME NEW f, NEW g, Bare(f), Bare(g)
    PROVE  Alike(f, g)
BY DEF Bare, Alike

LEMMA BareTop ==
    ASSUME NEW f \in StackFrame, f.at \in BareAts \cup WaitAts \cup {"invoke_idle"}
    PROVE  Bare(f)
BY DEF Bare, QOf, OOf, NOf, PrevOf, CallOf, RestOf, FetchedAts, HoldAts, EmptyAts, FastAts, BareAts, WaitAts
-----------------------------------------------------------------------------
(* Steps that move nothing. *)

LEMMA QuietStep ==
    ASSUME QueueTypes, NEW A \in SUBSET Objects, Places(A), NEW t \in Threads, stack[t] # <<>>,
           SameLists, SameLocks, UNCHANGED <<use, begun, sema>>,
           \/ Become(t, <<>>) /\ Bare(Top(t))
           \/ \E f \in StackFrame : Become(t, <<f>>) /\ Alike(Top(t), f)
           \/ \E f, g \in StackFrame : Become(t, <<g, f>>) /\ Alike(Top(t), f) /\ Bare(g)
    PROVE  stack' \in [Threads -> Seq(StackFrame)] /\ Places(A)'
<1>1. PICK b : b = TopOf(t)
  OBVIOUS
<1>2. /\ b \in Pos /\ Fr(b) = Top(t) /\ Fr(Up(b)) = Nothing /\ Fr(Up(Up(b))) = Nothing
  BY <1>1, Becoming
<1>3. ASSUME NEW f, NEW g, Makes(b, f, g, Nothing), Alike(Top(t), f), Bare(g)
      PROVE  Places(A)'
  <2>1. \A r \in Pos : Still(r)
    BY <1>2, <1>3, Making, NothingIsBare
  <2> QED
    BY <2>1, Quiet
<1>4. ASSUME Become(t, <<>>), Bare(Top(t))
      PROVE  stack' \in [Threads -> Seq(StackFrame)] /\ Places(A)'
  <2>1. stack' \in [Threads -> Seq(StackFrame)] /\ Makes(b, Nothing, Nothing, Nothing)
    BY <1>1, <1>4, Becoming
  <2> QED
    BY <2>1, <1>3, <1>4, BareIsAlike, NothingIsBare
<1>5. ASSUME NEW f \in StackFrame, Become(t, <<f>>), Alike(Top(t), f)
      PROVE  stack' \in [Threads -> Seq(StackFrame)] /\ Places(A)'
  <2>1. stack' \in [Threads -> Seq(StackFrame)] /\ Makes(b, f, Nothing, Nothing)
    BY <1>1, <1>5, Becoming
  <2> QED
    BY <2>1, <1>3, <1>5, NothingIsBare
<1>6. ASSUME NEW f \in StackFrame, NEW g \in StackFrame,
             Become(t, <<g, f>>), Alike(Top(t), f), Bare(g)
      PROVE  stack' \in [Threads -> Seq(StackFrame)] /\ Places(A)'
  <2>1. stack' \in [Threads -> Seq(StackFrame)] /\ Makes(b, f, g, Nothing)
    BY <1>1, <1>6, Becoming
  <2> QED
    BY <2>1, <1>3, <1>6
<1> QED
  BY <1>4, <1>5, <1>6

LEMMA UseTypes == QueueTypes => IsUse(U)
BY UsesAssumption DEF QueueTypes, U

LEMMA AtTop ==
    ASSUME NEW t, NEW at, At(t, at)
    PROVE  stack[t] # <<>> /\ Top(t).at = at
BY DEF At, Top

LEMMA BareStep ==
    ASSUME QueueTypes, NEW A \in SUBSET Objects, Places(A), NEW t \in Threads,
           stack[t] # <<>>, Top(t).at \in BareAts,
           SameLists, SameLocks, UNCHANGED <<use, begun, sema>>,
           \/ Become(t, <<>>)
           \/ \E at \in BareAts, q \in Queues : Become(t, <<Frame(at, q, NULL)>>)
    PROVE  stack' \in [Threads -> Seq(StackFrame)] /\ Places(A)'
<1>1. Bare(Top(t))
  BY BareTop, TopFrame
<1>2. CASE Become(t, <<>>)
  BY <1>1, <1>2, QuietStep
<1>3. ASSUME NEW at \in BareAts, NEW q \in Queues, Become(t, <<Frame(at, q, NULL)>>)
      PROVE  stack' \in [Threads -> Seq(StackFrame)] /\ Places(A)'
  <2>1. Frame(at, q, NULL) \in StackFrame /\ Alike(Top(t), Frame(at, q, NULL))
    BY <1>1, BareFrames, BareIsAlike
  <2> QED
    BY <1>3, <2>1, QuietStep
<1> QED
  BY <1>2, <1>3

\* A drainer looks at something and goes on.
LEMMA DrainStep ==
    ASSUME QueueTypes, NEW A \in SUBSET Objects, Places(A), NEW t \in Threads, NEW at,
           stack[t] # <<>>, Goto(t, at),
           \/ Top(t).at \in EmptyAts /\ at \in EmptyAts
           \/ Top(t).at \in FetchedAts /\ at \in FetchedAts,
           SameLists, SameLocks, UNCHANGED <<use, begun, sema>>
    PROVE  stack' \in [Threads -> Seq(StackFrame)] /\ Places(A)'
<1>1. PICK f : f = Top(t)
  OBVIOUS
<1>2. f \in StackFrame
  BY <1>1, TopFrame
<1>3. PICK g : g = [f EXCEPT !.at = at]
  OBVIOUS
<1>4. f \in DrainFrame /\ (at \in HoldAts => f.o \in Objects) /\ at \in EmptyAts \cup HoldAts
  BY <1>1, <1>2, FrameKinds DEF HoldAts, EmptyAts, FetchedAts
<1>5. g \in StackFrame /\ g.at = at /\ g.q = f.q /\ g.o = f.o /\ g.n = f.n
  BY <1>3, <1>4, DrainGoesOn
<1>6. Alike(f, g)
  BY <1>1, <1>4, <1>5, DrainFrames DEF Alike, HoldAts, EmptyAts, FetchedAts
<1>7. Become(t, <<g>>)
  BY <1>1, <1>3 DEF Goto
<1> QED
  BY <1>1, <1>5, <1>6, <1>7, QuietStep

LEMMA SameTypes ==
    ASSUME QueueTypes, SameLists, suspend_cnt' \in [Queues -> Int], targetq' \in [Queues -> Targets],
           UNCHANGED <<use, begun, sema>>, stack' \in [Threads -> Seq(StackFrame)]
    PROVE  QueueTypes'
BY DEF QueueTypes, SameLists

\* Plus keeps the type of the counts; twos do not touch the lock.
LEMMA Plusses ==
    ASSUME NEW f \in [Queues -> Int], NEW q \in Queues, NEW n \in {-2, 2}
    PROVE  /\ Plus(f, q, n) \in [Queues -> Int]
           /\ \A r \in Queues : Plus(f, q, n)[r] % 2 = f[r] % 2
<1>1. \A i \in Int : (i + 2) % 2 = i % 2 /\ (i + (-2)) % 2 = i % 2
  OBVIOUS
<1> QED
  BY <1>1 DEF Plus

LEMMA WakeupSteps ==
    ASSUME QueueTypes, NEW A \in SUBSET Objects, Places(A), NEW t \in Threads,
           \/ WakeupUnlessSuspended(t) \/ WakeupUnlessEmpty(t) \/ ReleaseReference(t)
           \/ RunningSub(t) \/ Unlock(t) \/ BarrierSyncResume(t)
    PROVE  QueueTypes' /\ Places(A)'
<1> USE DEF SameLists, SameLocks, lists, counts, refs, blocks
<1>0. stack[t] # <<>> /\ Top(t).at \in BareAts
  BY AtTop DEF WakeupUnlessSuspended, WakeupUnlessEmpty, ReleaseReference, RunningSub, Unlock,
               BarrierSyncResume, BareAts
<1>1. Top(t) \in BareFrame /\ Top(t).q \in Queues
  <2>1. Top(t) \in BareFrame
    BY <1>0, TopFrame, FrameKinds
  <2> QED
    BY <2>1 DEF BareFrame
<1>2. \A at \in BareAts : [Top(t) EXCEPT !.at = at] = Frame(at, Top(t).q, NULL)
  BY <1>1 DEF BareFrame, Frame
<1>3. \A at \in BareAts : Goto(t, at) => Become(t, <<Frame(at, Top(t).q, NULL)>>)
  BY <1>2 DEF Goto
<1>4. CASE WakeupUnlessSuspended(t)
  <2>1. Become(t, <<>>) \/ Become(t, <<Frame("wakeup_probe", Top(t).q, NULL)>>)
    BY <1>3, <1>4 DEF WakeupUnlessSuspended, Return, BareAts
  <2>2. stack' \in [Threads -> Seq(StackFrame)] /\ Places(A)'
    BY <1>0, <1>1, <1>4, <2>1, BareStep DEF WakeupUnlessSuspended, BareAts
  <2> QED
    BY <1>4, <2>2, SameTypes DEF WakeupUnlessSuspended, QueueTypes
<1>5. CASE WakeupUnlessEmpty(t)
  <2>1. Become(t, <<>>) \/ Become(t, <<Frame("wakeup_trylock", Top(t).q, NULL)>>)
    BY <1>3, <1>5 DEF WakeupUnlessEmpty, Return, BareAts
  <2>2. stack' \in [Threads -> Seq(StackFrame)] /\ Places(A)'
    BY <1>0, <1>1, <1>5, <2>1, BareStep DEF WakeupUnlessEmpty, BareAts
  <2> QED
    BY <1>5, <2>2, SameTypes DEF WakeupUnlessEmpty, QueueTypes
<1>6. CASE ReleaseReference(t)
  <2>1. Become(t, <<>>) \/ Become(t, Released(targetq[Top(t).q]))
    BY <1>6 DEF ReleaseReference, Return
  <2>2. targetq[Top(t).q] \in Targets
    BY <1>1 DEF QueueTypes
  <2>3. Become(t, <<>>) \/ \E q \in Queues : Become(t, <<Frame("release", q, NULL)>>)
    BY <2>1, <2>2 DEF Released, Release, Targets
  <2>4. stack' \in [Threads -> Seq(StackFrame)] /\ Places(A)'
    BY <1>0, <1>6, <2>3, BareStep DEF ReleaseReference, BareAts
  <2> QED
    BY <1>6, <2>4, SameTypes DEF ReleaseReference, QueueTypes
<1>7. CASE RunningSub(t) \/ Unlock(t)
  <2>1. Become(t, <<>>) \/ Become(t, <<Frame("wakeup", Top(t).q, NULL)>>)
    BY <1>7 DEF RunningSub, Unlock, Wakeup
  <2>2. stack' \in [Threads -> Seq(StackFrame)] /\ Places(A)'
    BY <1>0, <1>1, <1>7, <2>1, BareStep DEF RunningSub, Unlock, BareAts
  <2> QED
    BY <1>7, <2>2, SameTypes DEF RunningSub, Unlock, QueueTypes
<1>8. CASE BarrierSyncResume(t)
  <2>1. Become(t, <<>>) \/ Become(t, <<Frame("wakeup", Top(t).q, NULL)>>)
    BY <1>8 DEF BarrierSyncResume, WakeupByLast, Wakeup
  <2>2. suspend_cnt' = Plus(suspend_cnt, Top(t).q, -2)
    BY <1>8 DEF BarrierSyncResume, dispatch_resume
  <2>3. suspend_cnt' \in [Queues -> Int] /\ SameLocks
    BY <1>1, <2>2, Plusses DEF QueueTypes
  <2>4. stack' \in [Threads -> Seq(StackFrame)] /\ Places(A)'
    BY <1>0, <1>1, <1>8, <2>1, <2>3, BareStep DEF BarrierSyncResume, dispatch_resume, BareAts
  <2> QED
    BY <1>8, <2>3, <2>4, SameTypes DEF BarrierSyncResume, dispatch_resume, QueueTypes
<1> QED
  BY <1>4, <1>5, <1>6, <1>7, <1>8

LEMMA DrainLooks ==
    ASSUME QueueTypes, NEW A \in SUBSET Objects, Places(A), NEW t \in Threads,
           \/ InvokeUnlessSuspended(t) \/ InvokeTrylock(t) \/ DrainUntilEmpty(t)
           \/ DrainUnlessSuspended(t) \/ DrainUnlessFull(t) \/ DrainUnlessShared(t)
    PROVE  QueueTypes' /\ Places(A)'
<1> USE DEF SameLists, SameLocks, lists, counts, refs, blocks
<1>1. CASE InvokeUnlessSuspended(t) \/ InvokeTrylock(t) \/ DrainUntilEmpty(t)
  <2>1. stack[t] # <<>> /\ Top(t).at \in EmptyAts
    BY <1>1, AtTop DEF InvokeUnlessSuspended, InvokeTrylock, DrainUntilEmpty, EmptyAts
  <2>2. PICK at \in EmptyAts \cup {"drain_head"} : Goto(t, at)
    BY <1>1 DEF InvokeUnlessSuspended, InvokeTrylock, DrainUntilEmpty, EmptyAts
  <2>3. at \in EmptyAts
    BY DEF EmptyAts
  <2>4. stack' \in [Threads -> Seq(StackFrame)] /\ Places(A)'
    BY <1>1, <2>1, <2>2, <2>3, DrainStep DEF InvokeUnlessSuspended, InvokeTrylock, DrainUntilEmpty
  <2> QED
    BY <1>1, <2>4, SameTypes DEF InvokeUnlessSuspended, InvokeTrylock, DrainUntilEmpty, QueueTypes
<1>2. CASE DrainUnlessSuspended(t) \/ DrainUnlessFull(t) \/ DrainUnlessShared(t)
  <2>1. stack[t] # <<>> /\ Top(t).at \in FetchedAts
    BY <1>2, AtTop DEF DrainUnlessSuspended, DrainUnlessFull, DrainUnlessShared, FetchedAts
  <2>2. PICK at \in FetchedAts : Goto(t, at)
    BY <1>2 DEF DrainUnlessSuspended, DrainUnlessFull, DrainUnlessShared, FetchedAts
  <2>3. stack' \in [Threads -> Seq(StackFrame)] /\ Places(A)'
    BY <1>2, <2>1, <2>2, DrainStep DEF DrainUnlessSuspended, DrainUnlessFull, DrainUnlessShared
  <2> QED
    BY <1>2, <2>3, SameTypes DEF DrainUnlessSuspended, DrainUnlessFull, DrainUnlessShared, QueueTypes
<1> QED
  BY <1>1, <1>2
-----------------------------------------------------------------------------
(* Calls are made. *)

LEMMA TurnKinds ==
    /\ \A r \in Pos : <<"asking", r>> \in Turn
    /\ \A r \in Pos, i \in Nat \ {0} : <<"rest", <<r, i>>>> \in Turn
    /\ \A x \in Calls, i \in Nat \ {0} : <<"body", <<x, i>>>> \in Turn
    /\ \A s \in Turn : \/ \E r \in Pos : s = <<"asking", r>>
                       \/ \E r \in Pos, i \in Nat \ {0} : s = <<"rest", <<r, i>>>>
                       \/ \E x \in Calls, i \in Nat \ {0} : s = <<"body", <<x, i>>>>
BY DEF Turn

LEMMA DueValues ==
    /\ \A r \in Pos : Due(<<"asking", r>>) = Asking(r)
    /\ \A r \in Pos, i \in Nat \ {0} :
          Due(<<"rest", <<r, i>>>>) = IF i <= Len(Rest(r)) THEN Rest(r)[i] ELSE NULL
    /\ \A x \in Calls, i \in Nat \ {0} :
          Due(<<"body", <<x, i>>>>) = IF x \notin begun /\ i <= Len(U.body[x]) THEN U.body[x][i] ELSE NULL
BY DEF Due

LEMMA DueValuesNext ==
    /\ \A r \in Pos : Due(<<"asking", r>>)' = Asking(r)'
    /\ \A r \in Pos, i \in Nat \ {0} :
          Due(<<"rest", <<r, i>>>>)' = IF i <= Len(Rest(r)') THEN Rest(r)'[i] ELSE NULL
    /\ \A x \in Calls, i \in Nat \ {0} :
          Due(<<"body", <<x, i>>>>)' = IF x \notin begun' /\ i <= Len(U'.body[x])
                                       THEN U'.body[x][i] ELSE NULL
BY DEF Due

\* The frame b makes its next call, c; perhaps the frame y goes on with it.
LEMMA CallTurns ==
    ASSUME NEW A, NEW B, ToCome(A), UNCHANGED <<use, begun>>, NEW b \in Pos, NEW c,
           Rest(b) \in Seq(Calls), Rest(b) # <<>>, c = Head(Rest(b)), Rest(b)' = Tail(Rest(b)),
           \A r \in Pos \ {b} : Rest(r)' = Rest(r),
           NEW y \in Pos, \A r \in Pos \ {y} : Asking(r)' = Asking(r),
           Asking(y)' \in {c, Asking(y)},
           \A d \in Calls : (d = c => Asking(y)' = c) /\ Nowhere(A, d) /\ next[d] = LISTLESS
                            /\ d \notin begun /\ sema[d] = 0 =>
               d \notin begun' /\ sema'[d] = 0 /\ next'[d] = LISTLESS /\ Nowhere(B, d)'
    PROVE  ToCome(B)'
<1>1. /\ c \in Calls /\ c = Rest(b)[1] /\ Len(Rest(b)) \in Nat /\ Len(Rest(b)) >= 1
      /\ Len(Rest(b)') = Len(Rest(b)) - 1
      /\ \A i \in Nat \ {0} : i <= Len(Rest(b)') => Rest(b)'[i] = Rest(b)[i + 1]
  OBVIOUS
<1>2. Due(<<"rest", <<b, 1>>>>) = c /\ <<"rest", <<b, 1>>>> \in Turn
  BY <1>1, TurnKinds, DueValues
<1>3. U' = U
  BY DEF U
<1> DEFINE From(s, r) ==
              IF \E i \in Nat \ {0} : s = <<"rest", <<b, i>>>>
              THEN \E i \in Nat \ {0} : s = <<"rest", <<b, i>>>> /\ r = <<"rest", <<b, i + 1>>>>
              ELSE IF s = <<"asking", y>> /\ Asking(y)' = c THEN r = <<"rest", <<b, 1>>>>
              ELSE r = s
<1>4. ASSUME NEW s \in Turn, Due(s)' \in Calls
      PROVE  \E r \in Turn : From(s, r) /\ Due(r) = Due(s)'
  <2>1. ASSUME NEW r \in Pos, s = <<"asking", r>>
        PROVE  \E r1 \in Turn : From(s, r1) /\ Due(r1) = Due(s)'
    <3>1. \A i \in Nat \ {0} : s # <<"rest", <<b, i>>>>
      BY <2>1
    <3>2. Due(s)' = Asking(r)' /\ Due(s) = Asking(r)
      BY <2>1, DueValues, DueValuesNext
    <3>3. CASE r = y /\ Asking(y)' = c
      BY <2>1, <3>1, <3>2, <3>3, <1>2
    <3>4. CASE ~(r = y /\ Asking(y)' = c)
      BY <2>1, <3>1, <3>2, <3>4
    <3> QED
      BY <3>3, <3>4
  <2>2. ASSUME NEW r \in Pos, NEW i \in Nat \ {0}, s = <<"rest", <<r, i>>>>
        PROVE  \E r1 \in Turn : From(s, r1) /\ Due(r1) = Due(s)'
    <3>1. s # <<"asking", y>>
      BY <2>2
    <3>2. CASE r = b
      <4>1. i <= Len(Rest(b)') /\ Due(s)' = Rest(b)'[i]
        BY <2>2, <3>2, <1>4, DueValuesNext, NullIsNone
      <4>2. i + 1 \in Nat \ {0} /\ i + 1 <= Len(Rest(b))
        BY <4>1, <1>1
      <4>3. Due(<<"rest", <<b, i + 1>>>>) = Rest(b)[i + 1] /\ <<"rest", <<b, i + 1>>>> \in Turn
        BY <4>2, DueValues, TurnKinds
      <4>4. Due(s)' = Rest(b)[i + 1]
        BY <4>1, <1>1
      <4>5. From(s, <<"rest", <<b, i + 1>>>>)
        BY <2>2, <3>2
      <4> HIDE DEF From
      <4> QED
        BY <4>3, <4>4, <4>5
    <3>3. CASE r # b
      <4>1. \A j \in Nat \ {0} : s # <<"rest", <<b, j>>>>
        BY <2>2, <3>3
      <4>2. Due(s)' = Due(s)
        BY <2>2, <3>3, DueValues, DueValuesNext
      <4> QED
        BY <3>1, <4>1, <4>2
    <3> QED
      BY <3>2, <3>3
  <2>3. ASSUME NEW x \in Calls, NEW i \in Nat \ {0}, s = <<"body", <<x, i>>>>
        PROVE  \E r1 \in Turn : From(s, r1) /\ Due(r1) = Due(s)'
    <3>1. s # <<"asking", y>> /\ \A j \in Nat \ {0} : s # <<"rest", <<b, j>>>>
      BY <2>3
    <3>2. Due(s)' = Due(s)
      BY <2>3, <1>3, DueValues, DueValuesNext
    <3> QED
      BY <3>1, <3>2
  <2> HIDE DEF From
  <2> QED
    BY <2>1, <2>2, <2>3, TurnKinds
<1>5. ASSUME NEW r \in Turn, NEW s \in Turn, NEW z, From(r, z), From(s, z)
      PROVE  r = s
  <2>1. CASE \E i \in Nat \ {0} : r = <<"rest", <<b, i>>>>
    <3>1. PICK i \in Nat \ {0} : r = <<"rest", <<b, i>>>> /\ z = <<"rest", <<b, i + 1>>>>
      BY <2>1, <1>5
    <3>2. CASE \E j \in Nat \ {0} : s = <<"rest", <<b, j>>>>
      <4>1. PICK j \in Nat \ {0} : s = <<"rest", <<b, j>>>> /\ z = <<"rest", <<b, j + 1>>>>
        BY <3>2, <1>5
      <4>2. i + 1 = j + 1
        BY <3>1, <4>1
      <4> QED
        BY <3>1, <4>1, <4>2
    <3>3. CASE ~\E j \in Nat \ {0} : s = <<"rest", <<b, j>>>>
      <4>1. z = <<"rest", <<b, 1>>>> \/ z = s
        BY <3>3, <1>5
      <4>2. i + 1 # 1 /\ i + 1 \in Nat \ {0}
        OBVIOUS
      <4> QED
        BY <3>1, <3>3, <4>1, <4>2
    <3> QED
      BY <3>2, <3>3
  <2>2. CASE ~\E i \in Nat \ {0} : r = <<"rest", <<b, i>>>>
    <3>1. CASE \E j \in Nat \ {0} : s = <<"rest", <<b, j>>>>
      <4>1. PICK j \in Nat \ {0} : s = <<"rest", <<b, j>>>> /\ z = <<"rest", <<b, j + 1>>>>
        BY <3>1, <1>5
      <4>2. z = <<"rest", <<b, 1>>>> \/ z = r
        BY <2>2, <1>5
      <4>3. j + 1 # 1 /\ j + 1 \in Nat \ {0}
        OBVIOUS
      <4> QED
        BY <2>2, <4>1, <4>2, <4>3
    <3>2. CASE ~\E j \in Nat \ {0} : s = <<"rest", <<b, j>>>>
      <4>1. z = (IF r = <<"asking", y>> /\ Asking(y)' = c THEN <<"rest", <<b, 1>>>> ELSE r)
        BY <2>2, <1>5
      <4>2. z = (IF s = <<"asking", y>> /\ Asking(y)' = c THEN <<"rest", <<b, 1>>>> ELSE s)
        BY <3>2, <1>5
      <4>3. r # <<"rest", <<b, 1>>>> /\ s # <<"rest", <<b, 1>>>>
        BY <2>2, <3>2
      <4> QED
        BY <4>1, <4>2, <4>3
    <3> QED
      BY <3>1, <3>2
  <2> QED
    BY <2>1, <2>2
<1>6. ASSUME NEW s \in Turn, From(s, <<"rest", <<b, 1>>>>), Due(s)' \in Calls
      PROVE  Asking(y)' = c
  <2>1. \A i \in Nat \ {0} : <<"rest", <<b, 1>>>> # <<"rest", <<b, i + 1>>>>
    <3>1. \A i \in Nat \ {0} : i + 1 # 1
      OBVIOUS
    <3> QED
      BY <3>1
  <2>2. CASE \E i \in Nat \ {0} : s = <<"rest", <<b, i>>>>
    BY <2>1, <2>2, <1>6
  <2>3. CASE ~\E i \in Nat \ {0} : s = <<"rest", <<b, i>>>>
    <3>1. s # <<"rest", <<b, 1>>>>
      BY <2>3
    <3> QED
      BY <2>3, <3>1, <1>6
  <2> QED
    BY <2>2, <2>3
<1> HIDE DEF From
<1>7. ASSUME NEW s \in Turn, Due(s)' \in Calls
      PROVE  /\ Due(s)' \notin begun' /\ sema'[Due(s)'] = 0 /\ next'[Due(s)'] = LISTLESS
             /\ Nowhere(B, Due(s))'
             /\ \A r \in Turn : Due(r)' = Due(s)' => r = s
  <2>1. PICK z \in Turn : From(s, z) /\ Due(z) = Due(s)'
    BY <1>4, <1>7
  <2>2. PICK d \in Calls : d = Due(s)'
    BY <1>7
  <2>3. /\ d \notin begun /\ sema[d] = 0 /\ next[d] = LISTLESS /\ Nowhere(A, d)
        /\ \A r \in Turn : Due(r) = d => r = z
    BY <2>1, <2>2 DEF ToCome
  <2>4. d = c => Asking(y)' = c
    BY <2>1, <2>2, <2>3, <1>2, <1>6, <1>7
  <2>5. d \notin begun' /\ sema'[d] = 0 /\ next'[d] = LISTLESS /\ Nowhere(B, d)'
    BY <2>3, <2>4
  <2>6. Nowhere(B, Due(s))'
    BY <2>2, <2>5 DEF Nowhere
  <2>7. \A r \in Turn : Due(r)' = Due(s)' => r = s
    BY <2>1, <2>2, <2>3, <1>4, <1>5
  <2> QED
    BY <2>2, <2>5, <2>6, <2>7
<1> QED
  BY <1>7 DEF ToCome

\* An object that was nowhere is about to be pushed.
LEMMA PushAppears ==
    ASSUME NEW A \in SUBSET Objects, OneSlot(A), Sides(A), Fetching, Ends(A), SameLists,
           NEW y \in Pos, NEW o \in Objects, Nowhere(A, o),
           Invoked(y)' \in {Invoked(y), NULL}, Held(y)' = o, Behind(y)' = NULL, Before(y)' = NULL,
           Apart(y)', ~Fetched(y)',
           \A r \in Pos \ {y} : Steady(r)
    PROVE  /\ OneSlot(A)' /\ Sides(A)' /\ Fetching' /\ Ends(A)'
           /\ \A x \in Objects \ {o} : Nowhere(A, x) => Nowhere(A, x)'
<1>1. \A p \in Pos : /\ Loses(A, A, <<"invoked", p>>)
                     /\ p # y => Loses(A, A, <<"held", p>>)
                     /\ Loses(A, A, <<"behind", p>>)
  BY NullIsNone DEF In, Loses, Steady
<1>2. /\ \A q \in Queues : Loses(A, A, <<"head", q>>)
      /\ \A x \in Objects : Loses(A, A, <<"next", x>>)
      /\ \A i \in Nat \ {0} : Loses(A, A, <<"root", i>>)
  BY DEF In, SameLists, Loses
<1>3. <<"held", y>> \in Slot /\ In(A, <<"held", y>>)' = o
  BY SlotKinds, SlotValuesNext
<1>4. \A s \in Slot \ {<<"held", y>>} : Loses(A, A, s)
  BY <1>1, <1>2, SlotKinds
<1>5. Out(A, o)
  BY DEF Nowhere, Out
<1>6. OneSlot(A)' /\ \A x \in Objects \ {o} : Out(A, x) => Out(A, x)'
  BY <1>3, <1>4, <1>5, SlotNew
<1>7. \A x \in Objects \ {o} : Nowhere(A, x) => Nowhere(A, x)'
  BY <1>6 DEF Nowhere, Out
<1>8. Sides(A)'
  <2>1. \A p \in Pos \ {y} : /\ Invoked(p)' \notin A
                             /\ Behind(p)' \in A \cup {NULL}
                             /\ Apart(p)' => Held(p)' \notin A
                             /\ ~Apart(p)' => Held(p)' \in A \cup {NULL}
    BY DEF Sides, Steady
  <2>2. /\ Invoked(y)' \notin A
        /\ Behind(y)' \in A \cup {NULL}
        /\ Apart(y)' => Held(y)' \notin A
        /\ ~Apart(y)' => Held(y)' \in A \cup {NULL}
    BY NullIsNone DEF Sides, Nowhere
  <2> QED
    BY <2>1, <2>2 DEF Sides, SameLists
<1>9. Fetching'
  BY DEF Fetching, Steady, SameLists
<1>10. Ends(A)'
  <2>1. \A r \in Pos : Before(r)' = Before(r) \/ Before(r)' = NULL
    BY DEF Steady
  <2>2. \A q \in Queues : items_tail'[q] # NULL =>
            /\ items_tail'[q] \in A /\ next'[items_tail'[q]] = NULL
            /\ \A p \in Pos : Before(p)' # items_tail'[q]
            /\ \A r \in Queues : items_tail'[r] = items_tail'[q] => r = q
    BY <2>1 DEF Ends, SameLists
  <2>3. \A p \in Pos : Before(p)' # NULL =>
            /\ Before(p)' \in A /\ next'[Before(p)'] = NULL
            /\ \A r \in Pos : Before(r)' = Before(p)' => r = p
    BY <2>1 DEF Ends, SameLists
  <2> QED
    BY <2>2, <2>3 DEF Ends
<1> QED
  BY <1>6, <1>7, <1>8, <1>9, <1>10

\* A run frame without its first call, as a frame and by its attributes.
LEMMA RunGoesOn ==
    ASSUME NEW f \in RunFrame, f.rest # <<>>, NEW g, g = [f EXCEPT !.rest = Tail(@)]
    PROVE  /\ g \in StackFrame
           /\ RestOf(f) = f.rest /\ RestOf(f) \in Seq(Calls) /\ RestOf(g) = Tail(f.rest)
           /\ QOf(g) = QOf(f) /\ OOf(g) = OOf(f) /\ NOf(g) = NOf(f) /\ PrevOf(g) = PrevOf(f)
           /\ CallOf(g) = CallOf(f) /\ CallOf(f) = NULL
           /\ f.at \notin FetchedAts \cup {"push"} /\ g.at \notin FetchedAts \cup {"push"}
<1>1. f.at = "run" /\ f.rest \in Seq(Calls)
  BY DEF RunFrame
<1>2. g.at = "run" /\ g.rest = Tail(f.rest)
  BY DEF RunFrame
<1>3. Tail(f.rest) \in Seq(Calls)
  BY <1>1
<1>4. g \in RunFrame
  BY <1>3 DEF RunFrame
<1> QED
  BY <1>1, <1>2, <1>4 DEF StackFrame, QOf, OOf, NOf, PrevOf, CallOf, RestOf, FetchedAts, HoldAts, EmptyAts, FastAts

\* A block makes its next call: c is pushed, or asked for at once, or changes no list.
LEMMA CallMade ==
    ASSUME QueueTypes, NEW A \in SUBSET Objects, Places(A), SameLists, SameLocks,
           UNCHANGED <<use, begun, sema>>,
           NEW b, NEW f, NEW g, NEW h, Makes(b, f, g, h),
           Fr(Up(b)) = Nothing, Fr(Up(Up(b))) = Nothing,
           Fr(b) \in RunFrame, Fr(b).rest # <<>>, f = [Fr(b) EXCEPT !.rest = Tail(@)],
           NEW c, c = Head(Fr(b).rest),
           \/ Bare(g) /\ Bare(h)
           \/ (\E q \in Targets : g = Frame("push", q, c)) /\ Bare(h)
           \/ Bare(g) /\ \E q \in Targets : h = Frame("push", q, c)
           \/ (\E at \in FastAts, q \in Queues : g = Frame(at, q, c)) /\ Bare(h)
    PROVE  Places(A)'
<1>1. /\ b \in Pos /\ Up(b) \in Pos /\ Up(Up(b)) \in Pos
      /\ b # Up(b) /\ b # Up(Up(b)) /\ Up(b) # Up(Up(b))
      /\ \A r \in Pos \ {b, Up(b), Up(Up(b))} : Still(r)
      /\ IsNow(b, f) /\ IsNow(Up(b), g) /\ IsNow(Up(Up(b)), h)
      /\ Bare(g) => Still(Up(b))
      /\ Bare(h) => Still(Up(Up(b)))
  BY Making
<1>2. /\ Rest(b) = Fr(b).rest /\ Rest(b) \in Seq(Calls) /\ Rest(b)' = Tail(Rest(b)) /\ Steady(b)
      /\ Asking(b)' = Asking(b)
  BY <1>1, RunGoesOn DEF IsNow, Steady, Rest, Invoked, Held, Behind, Before, Asking, Fetched, Apart
<1>3. /\ Asking(Up(b)) = NULL /\ Rest(Up(b)) = <<>> /\ Asking(Up(Up(b))) = NULL /\ Rest(Up(Up(b))) = <<>>
      /\ Invoked(Up(b)) = NULL /\ Held(Up(b)) = NULL /\ Behind(Up(b)) = NULL /\ Before(Up(b)) = NULL
      /\ ~Fetched(Up(b)) /\ ~Apart(Up(b))
  BY NothingIsBare DEF Bare, Asking, Rest, Invoked, Held, Behind, Before, Fetched, Apart
<1>4. /\ c \in Calls /\ c = Head(Rest(b)) /\ c = Rest(b)[1] /\ 1 <= Len(Rest(b)) /\ Rest(b) # <<>>
  BY <1>2
<1>5. Due(<<"rest", <<b, 1>>>>) = c /\ <<"rest", <<b, 1>>>> \in Turn
  BY <1>1, <1>4, TurnKinds, DueValues
<1>6. c \notin begun /\ sema[c] = 0 /\ next[c] = LISTLESS /\ Nowhere(A, c)
  BY <1>4, <1>5 DEF Places, ToCome
<1>7. c \in Objects /\ c \notin Queues
  BY <1>4, RootAssumption DEF Objects
<1>8. ASSUME OneSlot(A)', Sides(A)', Fetching', Ends(A)',
             \A x \in Objects \ {c} : Nowhere(A, x) => Nowhere(A, x)',
             NEW y \in Pos, \A r \in Pos \ {y} : Asking(r)' = Asking(r),
             Asking(y)' \in {c, Asking(y)}, Asking(y)' = c => Nowhere(A, c)',
             \A r \in Pos \ {b} : Rest(r)' = Rest(r)
      PROVE  Places(A)'
  <2>1. Locks(A)'
    BY <1>7, <1>8 DEF Places, Locks, SameLocks, SameLists, Objects
  <2>2. Popped(A)'
    BY <1>6, <1>8 DEF Places, Popped, Objects
  <2>3. \A d \in Calls : (d = c => Asking(y)' = c) /\ Nowhere(A, d) /\ next[d] = LISTLESS
                         /\ d \notin begun /\ sema[d] = 0 =>
            d \notin begun' /\ sema'[d] = 0 /\ next'[d] = LISTLESS /\ Nowhere(A, d)'
    BY <1>8 DEF SameLists, Objects
  <2>4. ToCome(A)'
    BY <1>1, <1>2, <1>4, <1>8, <2>3, CallTurns DEF Places
  <2> QED
    BY <1>8, <2>1, <2>2, <2>4 DEF Places
<1>9. CASE Bare(g) /\ Bare(h)
  <2>1. \A r \in Pos : Steady(r) /\ Asking(r)' = Asking(r)
    BY <1>1, <1>2, <1>9 DEF Still
  <2>2. /\ OneSlot(A)' /\ Sides(A)' /\ Fetching' /\ Ends(A)'
        /\ \A o \in Objects : Nowhere(A, o) <=> Nowhere(A, o)'
    BY <2>1, SteadyLists DEF Places
  <2>3. \A r \in Pos \ {b} : Rest(r)' = Rest(r)
    BY <1>1, <1>9 DEF Still
  <2> QED
    BY <1>1, <1>6, <1>7, <1>8, <2>1, <2>2, <2>3
<1>10. ASSUME NEW y \in {Up(b), Up(Up(b))}, NEW q \in Targets, IsNow(y, Frame("push", q, c)),
              \A r \in Pos \ {b, y} : Still(r),
              Rest(y) = <<>>, Asking(y) = NULL
       PROVE  Places(A)'
  <2>1. /\ y \in Pos /\ y # b
        /\ Invoked(y)' = NULL /\ Held(y)' = c /\ Behind(y)' = NULL /\ Before(y)' = NULL
        /\ Apart(y)' /\ ~Fetched(y)' /\ Rest(y)' = <<>> /\ Asking(y)' = NULL
    BY <1>1, <1>7, <1>10, PushFrames DEF IsNow, FetchedAts
  <2>2. \A r \in Pos \ {y} : Steady(r)
    BY <1>2, <1>10 DEF Still
  <2>3. /\ OneSlot(A)' /\ Sides(A)' /\ Fetching' /\ Ends(A)'
        /\ \A x \in Objects \ {c} : Nowhere(A, x) => Nowhere(A, x)'
    BY <1>6, <1>7, <2>1, <2>2, PushAppears DEF Places
  <2>4. \A r \in Pos \ {b} : Rest(r)' = Rest(r)
    BY <1>10, <2>1 DEF Still
  <2>5. \A r \in Pos : Asking(r)' = Asking(r)
    BY <1>2, <1>10, <2>1 DEF Still
  <2>6. Asking(y)' # c
    BY <2>1, <1>4, NullIsNone
  <2> QED
    BY <1>8, <2>1, <2>3, <2>4, <2>5, <2>6
<1>11. CASE (\E q \in Targets : g = Frame("push", q, c)) /\ Bare(h)
  BY <1>1, <1>3, <1>10, <1>11
<1>12. CASE Bare(g) /\ \E q \in Targets : h = Frame("push", q, c)
  BY <1>1, <1>3, <1>10, <1>12
<1>13. CASE (\E at \in FastAts, q \in Queues : g = Frame(at, q, c)) /\ Bare(h)
  <2>1. PICK at \in FastAts, q \in Queues : g = Frame(at, q, c)
    BY <1>13
  <2>2. /\ Invoked(Up(b))' = NULL /\ Held(Up(b))' = NULL /\ Behind(Up(b))' = NULL /\ Before(Up(b))' = NULL
        /\ ~Fetched(Up(b))' /\ ~Apart(Up(b))' /\ Rest(Up(b))' = <<>> /\ Asking(Up(b))' = c
    BY <1>1, <1>4, <2>1, CallFrames DEF IsNow
  <2>3. \A r \in Pos : Steady(r)
    BY <1>1, <1>2, <1>3, <1>13, <2>2 DEF Still, Steady
  <2>4. /\ OneSlot(A)' /\ Sides(A)' /\ Fetching' /\ Ends(A)'
        /\ \A o \in Objects : Nowhere(A, o) <=> Nowhere(A, o)'
    BY <2>3, SteadyLists DEF Places
  <2>5. \A r \in Pos \ {Up(b)} : Asking(r)' = Asking(r)
    BY <1>1, <1>2, <1>13 DEF Still
  <2>6. \A r \in Pos \ {b} : Rest(r)' = Rest(r)
    BY <1>1, <1>3, <1>13, <2>2 DEF Still
  <2> QED
    BY <1>1, <1>6, <1>7, <1>8, <2>2, <2>4, <2>5, <2>6
<1> QED
  BY <1>9, <1>11, <1>12, <1>13

LEMMA Concatenations ==
    /\ \A x, y : <<x>> \o <<y>> = <<x, y>>
    /\ \A x, y, z : <<x, y>> \o <<z>> = <<x, y, z>>
    /\ \A x : <<>> \o <<x>> = <<x>> /\ <<x>> \o <<>> = <<x>>
    /\ \A x, y, z : <<x>> \o <<y, z>> = <<x, y, z>>
<1>1. ASSUME NEW x, NEW y PROVE <<x>> \o <<y>> = <<x, y>>
  <2>1. <<x>> \in Seq({x, y}) /\ <<y>> \in Seq({x, y}) /\ <<x, y>> \in Seq({x, y})
    OBVIOUS
  <2>2. Len(<<x>>) = 1 /\ Len(<<y>>) = 1 /\ Len(<<x, y>>) = 2
    OBVIOUS
  <2>3. <<x>> \o <<y>> \in Seq({x, y}) /\ Len(<<x>> \o <<y>>) = 2
    BY <2>1, <2>2, ConcatProperties
  <2>4. (<<x>> \o <<y>>)[1] = x /\ (<<x>> \o <<y>>)[2] = y
    BY <2>1, <2>2, ConcatProperties
  <2>5. \A i \in 1 .. 2 : (<<x>> \o <<y>>)[i] = <<x, y>>[i]
    BY <2>4
  <2> QED
    BY <2>1, <2>2, <2>3, <2>5, SeqEqual
<1>2. ASSUME NEW x, NEW y, NEW z PROVE <<x, y>> \o <<z>> = <<x, y, z>>
  <2> DEFINE S == {x, y, z}
  <2>1. <<x, y>> \in Seq(S) /\ <<z>> \in Seq(S) /\ <<x, y, z>> \in Seq(S)
    OBVIOUS
  <2>2. Len(<<x, y>>) = 2 /\ Len(<<z>>) = 1 /\ Len(<<x, y, z>>) = 3
    OBVIOUS
  <2>3. <<x, y>> \o <<z>> \in Seq(S) /\ Len(<<x, y>> \o <<z>>) = 3
    BY <2>1, <2>2, ConcatProperties
  <2>4. (<<x, y>> \o <<z>>)[1] = x /\ (<<x, y>> \o <<z>>)[2] = y /\ (<<x, y>> \o <<z>>)[3] = z
    BY <2>1, <2>2, ConcatProperties
  <2>5. \A i \in 1 .. 3 : (<<x, y>> \o <<z>>)[i] = <<x, y, z>>[i]
    BY <2>4
  <2> QED
    BY <2>1, <2>2, <2>3, <2>5, SeqEqual
<1>3. ASSUME NEW x PROVE <<>> \o <<x>> = <<x>> /\ <<x>> \o <<>> = <<x>>
  <2>1. <<x>> \in Seq({x})
    OBVIOUS
  <2> QED
    BY <2>1, ConcatEmptySeq
<1>4. ASSUME NEW x, NEW y, NEW z PROVE <<x>> \o <<y, z>> = <<x, y, z>>
  <2> DEFINE S == {x, y, z}
  <2>1. <<x>> \in Seq(S) /\ <<y, z>> \in Seq(S) /\ <<x, y, z>> \in Seq(S)
    OBVIOUS
  <2>2. Len(<<x>>) = 1 /\ Len(<<y, z>>) = 2 /\ Len(<<x, y, z>>) = 3
    OBVIOUS
  <2>3. <<x>> \o <<y, z>> \in Seq(S) /\ Len(<<x>> \o <<y, z>>) = 3
    BY <2>1, <2>2, ConcatProperties
  <2>4. (<<x>> \o <<y, z>>)[1] = x /\ (<<x>> \o <<y, z>>)[2] = y /\ (<<x>> \o <<y, z>>)[3] = z
    BY <2>1, <2>2, ConcatProperties
  <2>5. \A i \in 1 .. 3 : (<<x>> \o <<y, z>>)[i] = <<x, y, z>>[i]
    BY <2>4
  <2> QED
    BY <2>1, <2>2, <2>3, <2>5, SeqEqual
<1> QED
  BY <1>1, <1>2, <1>3, <1>4

LEMMA Submits ==
    ASSUME QueueTypes, NEW A \in SUBSET Objects, Places(A), NEW t \in Threads, Submit(t)
    PROVE  QueueTypes' /\ Places(A)'
<1> USE DEF SameLists, SameLocks, lists, counts, refs, blocks
<1>1. PICK b : b = TopOf(t)
  OBVIOUS
<1>2. stack[t] # <<>> /\ Top(t).at = "run"
  BY AtTop DEF Submit, Calling, dispatch_async_f, dispatch_set_target_queue, dispatch_sync_f,
               dispatch_suspend, Resume, dispatch_release, EndBlock
<1>3. /\ Fr(b) = Top(t) /\ Top(t) \in StackFrame
      /\ Fr(Up(b)) = Nothing /\ Fr(Up(Up(b))) = Nothing
  BY <1>1, <1>2, Becoming
<1>4. Top(t) \in RunFrame
  BY <1>2, <1>3, FrameKinds
<1>5. CASE EndBlock(t)
  <2>1. Bare(Top(t))
    BY <1>4, <1>5 DEF EndBlock, RunFrame, Bare, QOf, OOf, NOf, PrevOf, CallOf, RestOf,
                      FetchedAts, HoldAts, EmptyAts, FastAts
  <2>2. stack' \in [Threads -> Seq(StackFrame)] /\ Places(A)'
    BY <1>2, <1>5, <2>1, QuietStep DEF EndBlock, Return
  <2> QED
    BY <1>5, <2>2, SameTypes DEF EndBlock, QueueTypes
<1>6. ASSUME Top(t).rest # <<>>, NEW f, f = [Top(t) EXCEPT !.rest = Tail(@)],
             NEW c, c = This(t)
      PROVE  /\ f \in StackFrame /\ c \in Calls /\ c = Head(Fr(b).rest) /\ Fr(b).rest # <<>>
             /\ f = [Fr(b) EXCEPT !.rest = Tail(@)]
             /\ U.op[c] \in Operations /\ U.q[c] \in Targets /\ U.to[c] \in Targets
             /\ U.op[c] \in {"sync", "barrier_sync", "suspend", "resume", "release", "set_target"} =>
                   U.q[c] \in Queues
  <2>1. Top(t).rest \in Seq(Calls)
    BY <1>4 DEF RunFrame
  <2>2. c \in Calls
    BY <2>1, <1>6 DEF This
  <2>3. f \in StackFrame
    BY <1>4, <1>6, RunGoesOn
  <2>4. IsUse(U)
    BY UseTypes
  <2>5. U.op[c] \in Operations /\ U.q[c] \in Targets /\ U.to[c] \in Targets
    BY <2>2, <2>4 DEF IsUse, Targets
  <2>6. U.q[c] = ROOT => U.op[c] \in {"async", "barrier_async", "none"}
    BY <2>2, <2>4 DEF IsUse
  <2> QED
    BY <1>3, <1>6, <2>2, <2>3, <2>5, <2>6 DEF This, Targets
<1>7. ASSUME dispatch_async_f(t) \/ dispatch_set_target_queue(t)
      PROVE  QueueTypes' /\ Places(A)'
  <2>1. PICK c : c = This(t)
    OBVIOUS
  <2>2. PICK f : f = [Top(t) EXCEPT !.rest = Tail(@)]
    OBVIOUS
  <2>3. Top(t).rest # <<>> /\ Become(t, Push(U.q[c], c) \o <<f>>)
    BY <1>7, <2>1, <2>2 DEF dispatch_async_f, dispatch_set_target_queue, Calling, Proceed
  <2>4. PICK g : g = Frame("push", U.q[c], c)
    OBVIOUS
  <2>5. c \in Calls /\ c \in Objects /\ U.q[c] \in Targets /\ f \in StackFrame
    BY <1>6, <2>1, <2>2, <2>3 DEF Objects
  <2>6. g \in StackFrame
    BY <2>4, <2>5, PushFrames
  <2>7. Become(t, <<g, f>>)
    BY <2>3, <2>4, Concatenations DEF Push
  <2>8. stack' \in [Threads -> Seq(StackFrame)] /\ Makes(b, f, g, Nothing)
    BY <1>1, <1>2, <2>5, <2>6, <2>7, Becoming
  <2>9. SameLists /\ SameLocks /\ UNCHANGED <<use, begun, sema, suspend_cnt, targetq>>
    BY <1>7 DEF dispatch_async_f, dispatch_set_target_queue
  <2>10. Places(A)'
    BY <1>3, <1>4, <1>6, <2>1, <2>2, <2>3, <2>4, <2>5, <2>8, <2>9, CallMade, NothingIsBare
  <2> QED
    BY <2>8, <2>9, <2>10, SameTypes DEF QueueTypes
<1>8. ASSUME dispatch_sync_f(t)
      PROVE  QueueTypes' /\ Places(A)'
  <2>1. PICK c : c = This(t)
    OBVIOUS
  <2>2. PICK f : f = [Top(t) EXCEPT !.rest = Tail(@)]
    OBVIOUS
  <2>3. PICK q : q = U.q[c]
    OBVIOUS
  <2>4. /\ Top(t).rest # <<>> /\ U.op[c] \in {"sync", "barrier_sync"}
        /\ \/ \E at \in WaitAts : Become(t, (Push(q, c) \o <<Frame(at, q, c)>>) \o <<f>>)
           \/ \E at \in FastAts : Become(t, <<Frame(at, q, c)>> \o <<f>>)
    <3>1. /\ Top(t).rest # <<>> /\ U.op[c] \in {"sync", "barrier_sync"}
          /\ Proceed(t, IF items_tail[q] # NULL
                        THEN Push(q, c) \o <<Frame(IF U.op[c] = "barrier_sync" \/ U.width[q] = 1
                                                   THEN "bsync_wait" ELSE "sync_wait", q, c)>>
                        ELSE <<Frame(IF U.op[c] = "barrier_sync" \/ U.width[q] = 1
                                     THEN "bsync" ELSE "sync", q, c)>>)
      BY <1>8, <2>1, <2>3 DEF dispatch_sync_f, Calling, This
    <3>2. CASE items_tail[q] # NULL
      BY <3>1, <3>2, <2>2 DEF Proceed, WaitAts
    <3>3. CASE items_tail[q] = NULL
      BY <3>1, <3>3, <2>2 DEF Proceed, FastAts
    <3> QED
      BY <3>1, <3>2, <3>3
  <2>5. c \in Calls /\ c \in Objects /\ q \in Queues /\ q \in Targets /\ f \in StackFrame
    BY <1>6, <2>1, <2>2, <2>3, <2>4 DEF Objects, Targets
  <2>6. SameLists /\ SameLocks /\ UNCHANGED <<use, begun, sema, suspend_cnt, targetq>>
    BY <1>8 DEF dispatch_sync_f
  <2>7. ASSUME NEW at \in WaitAts, Become(t, (Push(q, c) \o <<Frame(at, q, c)>>) \o <<f>>)
        PROVE  QueueTypes' /\ Places(A)'
    <3>1. PICK g : g = Frame(at, q, c)
      OBVIOUS
    <3>2. PICK h : h = Frame("push", q, c)
      OBVIOUS
    <3>3. Become(t, <<h, g, f>>)
      <4>1. <<h>> \o <<g>> = <<h, g>> /\ <<h, g>> \o <<f>> = <<h, g, f>>
        BY Concatenations
      <4>2. Become(t, (<<h>> \o <<g>>) \o <<f>>)
        BY <2>7, <3>1, <3>2 DEF Push
      <4> QED
        BY <4>1, <4>2
    <3>4. g \in StackFrame /\ h \in StackFrame /\ Bare(g)
      BY <2>5, <3>1, <3>2, CallFrames, PushFrames
    <3>5. stack' \in [Threads -> Seq(StackFrame)] /\ Makes(b, f, g, h)
      BY <1>1, <1>2, <2>5, <3>3, <3>4, Becoming
    <3>6. /\ Fr(b) \in RunFrame /\ Fr(b).rest # <<>> /\ f = [Fr(b) EXCEPT !.rest = Tail(@)]
          /\ c = Head(Fr(b).rest)
      BY <1>3, <1>4, <1>6, <2>1, <2>2, <2>4
    <3>7. Bare(g) /\ \E r \in Targets : h = Frame("push", r, c)
      BY <2>5, <3>2, <3>4
    <3>8. Places(A)'
      BY <1>3, <2>6, <3>5, <3>6, <3>7, CallMade
    <3> QED
      BY <2>6, <3>5, <3>8, SameTypes DEF QueueTypes
  <2>8. ASSUME NEW at \in FastAts, Become(t, <<Frame(at, q, c)>> \o <<f>>)
        PROVE  QueueTypes' /\ Places(A)'
    <3>1. PICK g : g = Frame(at, q, c)
      OBVIOUS
    <3>2. Become(t, <<g, f>>)
      BY <2>8, <3>1, Concatenations
    <3>3. g \in StackFrame
      BY <2>5, <3>1, CallFrames
    <3>4. stack' \in [Threads -> Seq(StackFrame)] /\ Makes(b, f, g, Nothing)
      BY <1>1, <1>2, <2>5, <3>2, <3>3, Becoming
    <3>5. /\ Fr(b) \in RunFrame /\ Fr(b).rest # <<>> /\ f = [Fr(b) EXCEPT !.rest = Tail(@)]
          /\ c = Head(Fr(b).rest)
      BY <1>3, <1>4, <1>6, <2>1, <2>2, <2>4
    <3>6. (\E a \in FastAts, r \in Queues : g = Frame(a, r, c)) /\ Bare(Nothing)
      BY <2>5, <3>1, NothingIsBare
    <3>7. Places(A)'
      BY <1>3, <2>6, <3>4, <3>5, <3>6, CallMade
    <3> QED
      BY <2>6, <3>4, <3>7, SameTypes DEF QueueTypes
  <2> QED
    BY <2>4, <2>7, <2>8
<1>9. ASSUME dispatch_suspend(t) \/ Resume(t) \/ dispatch_release(t)
      PROVE  QueueTypes' /\ Places(A)'
  <2>1. PICK c : c = This(t)
    OBVIOUS
  <2>2. PICK f : f = [Top(t) EXCEPT !.rest = Tail(@)]
    OBVIOUS
  <2>3. PICK q : q = U.q[c]
    OBVIOUS
  <2>4. /\ Top(t).rest # <<>> /\ U.op[c] \in {"suspend", "resume", "release"}
        /\ \/ Become(t, <<>> \o <<f>>)
           \/ \E at \in BareAts : Become(t, <<Frame(at, q, NULL)>> \o <<f>>)
    <3>1. CASE dispatch_suspend(t)
      BY <3>1, <2>1, <2>2 DEF dispatch_suspend, Calling, Proceed, This
    <3>2. CASE Resume(t)
      <4>1. /\ Top(t).rest # <<>> /\ U.op[c] = "resume"
            /\ Become(t, WakeupByLast(q) \o <<f>>)
        BY <3>2, <2>1, <2>2, <2>3 DEF Resume, Calling, Proceed, This
      <4>2. WakeupByLast(q) \in {<<>>, <<Frame("wakeup", q, NULL)>>}
        BY DEF WakeupByLast, Wakeup
      <4> QED
        BY <4>1, <4>2 DEF BareAts
    <3>3. CASE dispatch_release(t)
      BY <3>3, <2>1, <2>2, <2>3 DEF dispatch_release, Calling, Proceed, This, Release, BareAts
    <3> QED
      BY <1>9, <3>1, <3>2, <3>3
  <2>5. q \in Queues /\ f \in StackFrame
    BY <1>6, <2>1, <2>2, <2>3, <2>4
  <2>6. suspend_cnt' \in {suspend_cnt, Plus(suspend_cnt, q, 2), Plus(suspend_cnt, q, -2)}
    BY <1>9, <2>1, <2>3 DEF dispatch_suspend, Resume, dispatch_release, dispatch_resume
  <2>7. suspend_cnt' \in [Queues -> Int] /\ SameLocks
    <3>1. suspend_cnt \in [Queues -> Int]
      BY DEF QueueTypes
    <3>2. \A n \in {-2, 2} : /\ Plus(suspend_cnt, q, n) \in [Queues -> Int]
                             /\ \A r \in Queues : Plus(suspend_cnt, q, n)[r] % 2 = suspend_cnt[r] % 2
      BY <2>5, <3>1, Plusses
    <3>3. CASE suspend_cnt' = suspend_cnt
      BY <3>1, <3>3
    <3>4. ASSUME NEW n \in {-2, 2}, suspend_cnt' = Plus(suspend_cnt, q, n)
          PROVE  suspend_cnt' \in [Queues -> Int] /\ SameLocks
      BY <3>2, <3>4
    <3> QED
      BY <2>6, <3>3, <3>4
  <2>8. SameLists /\ UNCHANGED <<use, begun, sema, targetq>>
    BY <1>9 DEF dispatch_suspend, Resume, dispatch_release, dispatch_resume
  <2>9. ASSUME Become(t, <<>> \o <<f>>)
        PROVE  QueueTypes' /\ Places(A)'
    <3>1. Become(t, <<f>>)
      BY <2>9, Concatenations
    <3>2. stack' \in [Threads -> Seq(StackFrame)] /\ Makes(b, f, Nothing, Nothing)
      BY <1>1, <1>2, <2>5, <3>1, Becoming
    <3>3. Places(A)'
      BY <1>3, <1>4, <1>6, <2>1, <2>2, <2>4, <2>7, <2>8, <3>2, CallMade, NothingIsBare
    <3> QED
      BY <2>7, <2>8, <3>2, <3>3, SameTypes DEF QueueTypes
  <2>10. ASSUME NEW at \in BareAts, Become(t, <<Frame(at, q, NULL)>> \o <<f>>)
        PROVE  QueueTypes' /\ Places(A)'
    <3>1. PICK g : g = Frame(at, q, NULL)
      OBVIOUS
    <3>2. g \in StackFrame /\ Bare(g)
      BY <2>5, <3>1, BareFrames
    <3>3. Become(t, <<g, f>>)
      BY <2>10, <3>1, Concatenations
    <3>4. stack' \in [Threads -> Seq(StackFrame)] /\ Makes(b, f, g, Nothing)
      BY <1>1, <1>2, <2>5, <3>2, <3>3, Becoming
    <3>5. Places(A)'
      BY <1>3, <1>4, <1>6, <2>1, <2>2, <2>4, <2>7, <2>8, <3>2, <3>4, CallMade, NothingIsBare
    <3> QED
      BY <2>7, <2>8, <3>4, <3>5, SameTypes DEF QueueTypes
  <2> QED
    BY <2>4, <2>9, <2>10
<1> QED
  BY <1>5, <1>7, <1>8, <1>9 DEF Submit
-----------------------------------------------------------------------------
(* Synchronous calls. *)

\* A call that found its queue busy goes on its list after all.
LEMMA AskerWaits ==
    ASSUME QueueTypes, NEW A \in SUBSET Objects, Places(A), SameLists, SameLocks,
           UNCHANGED <<use, begun, sema>>,
           NEW b, NEW f, NEW g, NEW h, Makes(b, f, g, h),
           Fr(Up(b)) = Nothing, Fr(Up(Up(b))) = Nothing,
           Fr(b) \in CallFrame, Fr(b).at \in FastAts, NEW c, c = Fr(b).o,
           Bare(f), NEW q \in Targets, g = Frame("push", q, c), Bare(h)
    PROVE  Places(A)'
<1>1. /\ b \in Pos /\ Up(b) \in Pos /\ Up(Up(b)) \in Pos
      /\ b # Up(b) /\ b # Up(Up(b)) /\ Up(b) # Up(Up(b))
      /\ \A r \in Pos \ {b, Up(b), Up(Up(b))} : Still(r)
      /\ IsNow(b, f) /\ IsNow(Up(b), g)
      /\ Still(Up(Up(b)))
  BY Making
<1>2. c \in Calls /\ c \in Objects /\ c \notin Queues
  BY RootAssumption DEF CallFrame, Objects
<1>3. /\ Asking(b) = c /\ Rest(b) = <<>>
      /\ Invoked(b) = NULL /\ Held(b) = NULL /\ Behind(b) = NULL /\ Before(b) = NULL
      /\ ~Fetched(b) /\ ~Apart(b)
  BY DEF Asking, Rest, Invoked, Held, Behind, Before, Fetched, Apart,
         QOf, OOf, NOf, PrevOf, CallOf, RestOf, FetchedAts, HoldAts, EmptyAts, FastAts
<1>4. Steady(b) /\ Asking(b)' = NULL /\ Rest(b)' = <<>>
  BY <1>1, <1>3 DEF Bare, IsNow, Steady
<1>5. Asking(Up(b)) = NULL /\ Rest(Up(b)) = <<>>
  BY NothingIsBare DEF Bare, Asking, Rest
<1>6. /\ Invoked(Up(b))' = NULL /\ Held(Up(b))' = c /\ Behind(Up(b))' = NULL /\ Before(Up(b))' = NULL
      /\ Apart(Up(b))' /\ ~Fetched(Up(b))' /\ Rest(Up(b))' = <<>> /\ Asking(Up(b))' = NULL
  BY <1>1, <1>2, PushFrames DEF IsNow, FetchedAts
<1>7. Due(<<"asking", b>>) = c /\ <<"asking", b>> \in Turn /\ Due(<<"asking", b>>)' = NULL
  BY <1>1, <1>3, <1>4, TurnKinds, DueValues, DueValuesNext
<1>8. /\ c \notin begun /\ sema[c] = 0 /\ next[c] = LISTLESS /\ Nowhere(A, c)
      /\ \A s \in Turn : Due(s) = c => s = <<"asking", b>>
  BY <1>2, <1>7 DEF Places, ToCome
<1>9. \A r \in Pos \ {Up(b)} : Steady(r)
  BY <1>1, <1>4 DEF Still
<1>10. /\ OneSlot(A)' /\ Sides(A)' /\ Fetching' /\ Ends(A)'
       /\ \A x \in Objects \ {c} : Nowhere(A, x) => Nowhere(A, x)'
  BY <1>1, <1>2, <1>6, <1>8, <1>9, PushAppears DEF Places
<1>11. Locks(A)'
  BY <1>2, <1>10 DEF Places, Locks, SameLocks, SameLists, Objects
<1>12. Popped(A)'
  BY <1>8, <1>10 DEF Places, Popped, Objects
<1>13. \A r \in Pos : Rest(r)' = Rest(r) /\ Asking(r)' \in {Asking(r), NULL}
  BY <1>1, <1>3, <1>4, <1>5, <1>6 DEF Still
<1>14. \A s \in Turn : Due(s)' = Due(s) \/ Due(s)' \notin Calls
  BY <1>13, SameTurns
<1>15. \A s \in Turn : Due(s)' # c
  BY <1>2, <1>7, <1>8, <1>14, NullIsNone
<1>16. ToCome(A)'
  <2>1. \A d \in Calls : (\E s \in Turn : Due(s)' = d) /\ Nowhere(A, d) /\ next[d] = LISTLESS
                         /\ d \notin begun /\ sema[d] = 0 =>
            d \notin begun' /\ sema'[d] = 0 /\ next'[d] = LISTLESS /\ Nowhere(A, d)'
    BY <1>10, <1>15 DEF SameLists, Objects
  <2> QED
    BY <1>14, <2>1, StillToCome DEF Places
<1> QED
  BY <1>10, <1>11, <1>12, <1>16 DEF Places

\* The block c begins in the frame y.
LEMMA BeginTurns ==
    ASSUME NEW A, NEW B, ToCome(A), UNCHANGED use,
           NEW c \in Calls, c \notin begun, begun' = begun \cup {c},
           NEW y \in Pos, Rest(y) = <<>>, Rest(y)' = U.body[c],
           \A r \in Pos \ {y} : Rest(r)' = Rest(r),
           \A r \in Pos : Asking(r)' \in {Asking(r), NULL},
           \A s \in Turn : Due(s) = c => \E r \in Pos : s = <<"asking", r>> /\ Asking(r)' = NULL,
           \A d \in Calls \ {c} : Nowhere(A, d) /\ next[d] = LISTLESS /\ d \notin begun /\ sema[d] = 0 =>
               sema'[d] = 0 /\ next'[d] = LISTLESS /\ Nowhere(B, d)'
    PROVE  ToCome(B)'
<1>1. U' = U
  BY DEF U
<1> DEFINE From(s, r) == \/ \E i \in Nat \ {0} : s = <<"rest", <<y, i>>>> /\ r = <<"body", <<c, i>>>>
                         \/ r = s /\ \A i \in Nat \ {0} : s # <<"rest", <<y, i>>>> /\ s # <<"body", <<c, i>>>>
<1>2. ASSUME NEW s \in Turn, Due(s)' \in Calls
      PROVE  Due(s)' # c /\ \E r \in Turn : From(s, r) /\ Due(r) = Due(s)'
  <2>1. ASSUME NEW r \in Pos, s = <<"asking", r>>
        PROVE  Due(s)' # c /\ \E r1 \in Turn : From(s, r1) /\ Due(r1) = Due(s)'
    <3>1. Due(s)' = Asking(r)' /\ Due(s) = Asking(r)
      BY <2>1, DueValues, DueValuesNext
    <3>2. Due(s)' = Due(s)
      BY <3>1, <1>2, NullIsNone
    <3>3. Due(s) # c
      <4>1. SUFFICES ASSUME Due(s) = c PROVE FALSE
        OBVIOUS
      <4>2. PICK p \in Pos : s = <<"asking", p>> /\ Asking(p)' = NULL
        BY <4>1
      <4>3. p = r
        BY <4>2, <2>1
      <4> QED
        BY <4>2, <4>3, <3>1, <1>2, NullIsNone
    <3>4. From(s, s)
      BY <2>1
    <3> HIDE DEF From
    <3> QED
      BY <3>2, <3>3, <3>4
  <2>2. ASSUME NEW r \in Pos, NEW i \in Nat \ {0}, s = <<"rest", <<r, i>>>>
        PROVE  Due(s)' # c /\ \E r1 \in Turn : From(s, r1) /\ Due(r1) = Due(s)'
    <3>1. CASE r = y
      <4>1. i <= Len(U.body[c]) /\ Due(s)' = U.body[c][i]
        BY <2>2, <3>1, <1>2, DueValuesNext, NullIsNone
      <4>2. Due(<<"body", <<c, i>>>>) = U.body[c][i] /\ <<"body", <<c, i>>>> \in Turn
        BY <4>1, DueValues, TurnKinds
      <4>3. From(s, <<"body", <<c, i>>>>)
        BY <2>2, <3>1
      <4>4. Due(<<"body", <<c, i>>>>) # c
        <5>1. \A p \in Pos : <<"body", <<c, i>>>> # <<"asking", p>>
          OBVIOUS
        <5> QED
          BY <4>2, <5>1
      <4> HIDE DEF From
      <4> QED
        BY <4>1, <4>2, <4>3, <4>4
    <3>2. CASE r # y
      <4>1. Due(s)' = Due(s)
        BY <2>2, <3>2, DueValues, DueValuesNext
      <4>2. From(s, s)
        BY <2>2, <3>2
      <4>3. Due(s) # c
        <5>1. \A p \in Pos : s # <<"asking", p>>
          BY <2>2
        <5> QED
          BY <5>1
      <4> HIDE DEF From
      <4> QED
        BY <4>1, <4>2, <4>3
    <3> QED
      BY <3>1, <3>2
  <2>3. ASSUME NEW x \in Calls, NEW i \in Nat \ {0}, s = <<"body", <<x, i>>>>
        PROVE  Due(s)' # c /\ \E r1 \in Turn : From(s, r1) /\ Due(r1) = Due(s)'
    <3>1. x \notin begun' /\ Due(s)' = Due(s)
      BY <2>3, <1>1, <1>2, DueValues, DueValuesNext, NullIsNone
    <3>2. x # c
      BY <3>1
    <3>3. From(s, s)
      BY <2>3, <3>2
    <3>4. Due(s) # c
      <4>1. \A p \in Pos : s # <<"asking", p>>
        BY <2>3
      <4> QED
        BY <4>1
    <3> HIDE DEF From
    <3> QED
      BY <3>1, <3>3, <3>4
  <2> HIDE DEF From
  <2> QED
    BY <2>1, <2>2, <2>3, TurnKinds
<1>3. ASSUME NEW r \in Turn, NEW s \in Turn, NEW z, From(r, z), From(s, z)
      PROVE  r = s
  <2>1. CASE \E i \in Nat \ {0} : r = <<"rest", <<y, i>>>> /\ z = <<"body", <<c, i>>>>
    <3>1. PICK i \in Nat \ {0} : r = <<"rest", <<y, i>>>> /\ z = <<"body", <<c, i>>>>
      BY <2>1
    <3>2. ~(z = s /\ \A j \in Nat \ {0} : s # <<"rest", <<y, j>>>> /\ s # <<"body", <<c, j>>>>)
      BY <3>1
    <3>3. PICK j \in Nat \ {0} : s = <<"rest", <<y, j>>>> /\ z = <<"body", <<c, j>>>>
      BY <3>2, <1>3
    <3>4. i = j
      BY <3>1, <3>3
    <3> QED
      BY <3>1, <3>3, <3>4
  <2>2. CASE z = r /\ \A i \in Nat \ {0} : r # <<"rest", <<y, i>>>> /\ r # <<"body", <<c, i>>>>
    <3>1. ~\E j \in Nat \ {0} : s = <<"rest", <<y, j>>>> /\ z = <<"body", <<c, j>>>>
      BY <2>2
    <3>2. z = s
      BY <3>1, <1>3
    <3> QED
      BY <2>2, <3>2
  <2> QED
    BY <2>1, <2>2, <1>3
<1> HIDE DEF From
<1>4. ASSUME NEW s \in Turn, Due(s)' \in Calls
      PROVE  /\ Due(s)' \notin begun' /\ sema'[Due(s)'] = 0 /\ next'[Due(s)'] = LISTLESS
             /\ Nowhere(B, Due(s))'
             /\ \A r \in Turn : Due(r)' = Due(s)' => r = s
  <2>1. PICK z \in Turn : From(s, z) /\ Due(z) = Due(s)'
    BY <1>2, <1>4
  <2>2. PICK d \in Calls : d = Due(s)'
    BY <1>4
  <2>3. /\ d \notin begun /\ sema[d] = 0 /\ next[d] = LISTLESS /\ Nowhere(A, d)
        /\ \A r \in Turn : Due(r) = d => r = z
    BY <2>1, <2>2 DEF ToCome
  <2>4. d # c
    BY <1>2, <1>4, <2>2
  <2>5. d \notin begun' /\ sema'[d] = 0 /\ next'[d] = LISTLESS /\ Nowhere(B, d)'
    BY <2>3, <2>4
  <2>6. Nowhere(B, Due(s))'
    BY <2>2, <2>5 DEF Nowhere
  <2>7. \A r \in Turn : Due(r)' = Due(s)' => r = s
    BY <2>1, <2>2, <2>3, <1>2, <1>3
  <2> QED
    BY <2>2, <2>5, <2>6, <2>7
<1> QED
  BY <1>4 DEF ToCome

LEMMA RunFrames ==
    ASSUME QueueTypes, NEW c \in Calls
    PROVE  /\ Run(c) \in StackFrame /\ RestOf(Run(c)) = U.body[c]
           /\ QOf(Run(c)) = NULL /\ OOf(Run(c)) = NULL /\ NOf(Run(c)) = NULL /\ PrevOf(Run(c)) = NULL
           /\ CallOf(Run(c)) = NULL /\ Run(c).at \notin FetchedAts \cup {"push"}
<1>1. U.body[c] \in Seq(Calls)
  BY UseTypes DEF IsUse
<1>2. Run(c) \in RunFrame /\ Run(c).at = "run" /\ Run(c).rest = U.body[c]
  BY <1>1 DEF Run, RunFrame, Bodies
<1> QED
  BY <1>2 DEF StackFrame, QOf, OOf, NOf, PrevOf, CallOf, RestOf, FetchedAts, HoldAts, EmptyAts, FastAts

\* The block of a synchronous call begins: at once, or when the call was let go.
LEMMA CallBegins ==
    ASSUME QueueTypes, NEW A \in SUBSET Objects, Places(A), SameLists, SameLocks, UNCHANGED use,
           NEW b, NEW f, NEW g, Makes(b, f, g, Nothing),
           Fr(Up(b)) = Nothing, Fr(Up(Up(b))) = Nothing,
           Fr(b) \in CallFrame, NEW c, c = Fr(b).o, Bare(f), g = Run(c),
           begun' = begun \cup {c},
           \/ Fr(b).at \in FastAts /\ sema' = sema
           \/ Fr(b).at \in WaitAts /\ sema[c] = 1 /\ sema' = [sema EXCEPT ![c] = 0]
    PROVE  Places(A)'
<1>1. /\ b \in Pos /\ Up(b) \in Pos /\ Up(Up(b)) \in Pos /\ b # Up(b)
      /\ \A r \in Pos \ {b, Up(b), Up(Up(b))} : Still(r)
      /\ IsNow(b, f) /\ IsNow(Up(b), g)
      /\ Still(Up(Up(b)))
  BY Making, NothingIsBare
<1>2. c \in Calls /\ c \in Objects /\ c \notin Queues
  BY RootAssumption DEF CallFrame, Objects
<1>3. /\ Rest(b) = <<>> /\ (Fr(b).at \in FastAts => Asking(b) = c)
      /\ Invoked(b) = NULL /\ Held(b) = NULL /\ Behind(b) = NULL /\ Before(b) = NULL
      /\ ~Fetched(b) /\ ~Apart(b)
  BY DEF CallFrame, Asking, Rest, Invoked, Held, Behind, Before, Fetched, Apart,
         QOf, OOf, NOf, PrevOf, CallOf, RestOf, FetchedAts, HoldAts, EmptyAts, FastAts, WaitAts
<1>4. Steady(b) /\ Asking(b)' = NULL /\ Rest(b)' = <<>>
  BY <1>1, <1>3 DEF Bare, IsNow, Steady
<1>5. /\ Asking(Up(b)) = NULL /\ Rest(Up(b)) = <<>>
      /\ Invoked(Up(b)) = NULL /\ Held(Up(b)) = NULL /\ Behind(Up(b)) = NULL /\ Before(Up(b)) = NULL
      /\ ~Fetched(Up(b)) /\ ~Apart(Up(b))
  BY NothingIsBare DEF Bare, Asking, Rest, Invoked, Held, Behind, Before, Fetched, Apart
<1>6. Steady(Up(b)) /\ Asking(Up(b))' = NULL /\ Rest(Up(b))' = U.body[c]
  BY <1>1, <1>2, <1>5, RunFrames DEF IsNow, Steady
<1>7. \A r \in Pos : Steady(r)
  BY <1>1, <1>4, <1>6 DEF Still
<1>8. /\ OneSlot(A)' /\ Sides(A)' /\ Fetching' /\ Ends(A)'
      /\ \A o \in Objects : Nowhere(A, o) <=> Nowhere(A, o)'
  BY <1>7, SteadyLists DEF Places
<1>9. /\ c \notin begun /\ Nowhere(A, c) /\ sema'[c] = 0
      /\ \A d \in Calls \ {c} : sema'[d] = sema[d]
      /\ \A s \in Turn : Due(s) = c => \E r \in Pos : s = <<"asking", r>> /\ Asking(r)' = NULL
  <2>1. CASE Fr(b).at \in FastAts /\ sema' = sema
    <3>1. Due(<<"asking", b>>) = c /\ <<"asking", b>> \in Turn
      BY <1>1, <1>3, <2>1, TurnKinds, DueValues
    <3>2. /\ c \notin begun /\ sema[c] = 0 /\ Nowhere(A, c)
          /\ \A s \in Turn : Due(s) = c => s = <<"asking", b>>
      BY <1>2, <3>1 DEF Places, ToCome
    <3> QED
      BY <1>1, <1>4, <2>1, <3>2
  <2>2. CASE sema[c] = 1 /\ sema' = [sema EXCEPT ![c] = 0]
    <3>1. c \notin begun /\ Nowhere(A, c)
      BY <1>2, <2>2 DEF Places, Popped
    <3>2. \A s \in Turn : Due(s) # c
      BY <1>2, <2>2 DEF Places, ToCome
    <3>3. sema \in [Calls -> {0, 1}]
      BY DEF QueueTypes
    <3> QED
      BY <1>2, <2>2, <3>1, <3>2, <3>3
  <2> QED
    BY <2>1, <2>2
<1>10. Locks(A)'
  BY <1>8 DEF Places, Locks, SameLocks, SameLists, Objects
<1>11. Popped(A)'
  BY <1>8, <1>9 DEF Places, Popped, Objects
<1>12. ToCome(A)'
  <2>1. \A d \in Calls \ {c} : Nowhere(A, d) /\ next[d] = LISTLESS /\ d \notin begun /\ sema[d] = 0 =>
            sema'[d] = 0 /\ next'[d] = LISTLESS /\ Nowhere(A, d)'
    BY <1>8, <1>9 DEF SameLists, Objects
  <2>2. \A r \in Pos \ {Up(b)} : Rest(r)' = Rest(r)
    BY <1>1, <1>3, <1>4 DEF Still
  <2>3. \A r \in Pos : Asking(r)' \in {Asking(r), NULL}
    BY <1>1, <1>4, <1>6 DEF Still
  <2> QED
    BY <1>1, <1>2, <1>5, <1>6, <1>9, <2>1, <2>2, <2>3, BeginTurns DEF Places
<1> QED
  BY <1>8, <1>10, <1>11, <1>12 DEF Places

LEMMA BegunTypes ==
    ASSUME QueueTypes, SameLists, NEW c \in Calls,
           suspend_cnt' \in [Queues -> Int], targetq' \in [Queues -> Targets],
           UNCHANGED use, begun' = begun \cup {c}, sema' \in [Calls -> {0, 1}],
           stack' \in [Threads -> Seq(StackFrame)]
    PROVE  QueueTypes'
BY DEF QueueTypes, SameLists

LEMMA Syncs ==
    ASSUME QueueTypes, NEW A \in SUBSET Objects, Places(A), NEW t \in Threads,
           \/ SyncUnlessSuspended(t) \/ SyncAdd(t) \/ SyncBackOut(t) \/ SyncWait(t)
           \/ BarrierSyncUnlessSuspended(t) \/ BarrierSyncTrylock(t) \/ BarrierSyncWait(t)
    PROVE  QueueTypes' /\ Places(A)'
<1> USE DEF SameLists, SameLocks, lists, counts, refs, blocks
<1>1. PICK b : b = TopOf(t)
  OBVIOUS
<1>2. stack[t] # <<>> /\ Top(t).at \in FastAts \cup WaitAts
  BY AtTop DEF SyncUnlessSuspended, SyncAdd, SyncBackOut, SyncWait,
               BarrierSyncUnlessSuspended, BarrierSyncTrylock, BarrierSyncWait, FastAts, WaitAts
<1>3. /\ Fr(b) = Top(t) /\ Top(t) \in StackFrame /\ Top(t) \in CallFrame
      /\ Fr(Up(b)) = Nothing /\ Fr(Up(Up(b))) = Nothing
  BY <1>1, <1>2, Becoming, FrameKinds
<1>4. PICK q, c : q = Top(t).q /\ c = Top(t).o
  OBVIOUS
<1>5. /\ q \in Queues /\ q \in Targets /\ c \in Calls /\ c \in Objects /\ c = Fr(b).o
      /\ Fr(b) \in CallFrame
  BY <1>3, <1>4 DEF CallFrame, Targets, Objects
<1>6. \A at \in FastAts \cup WaitAts : [Top(t) EXCEPT !.at = at] = Frame(at, q, c)
  BY <1>3, <1>4, CallGoesOn
<1>7. ASSUME Top(t).at \in FastAts, NEW at \in FastAts, Goto(t, at),
             SameLists, SameLocks, UNCHANGED <<use, begun, sema, suspend_cnt, targetq>>
      PROVE  QueueTypes' /\ Places(A)'
  <2>1. PICK f : f = Frame(at, q, c)
    OBVIOUS
  <2>2. f \in StackFrame
    BY <1>5, <2>1, CallFrames
  <2>3. Become(t, <<f>>)
    BY <1>6, <1>7, <2>1 DEF Goto
  <2>4. Alike(Top(t), f)
    BY <1>3, <1>4, <1>5, <1>7, <2>1, CallFrames
       DEF Alike, QOf, OOf, NOf, PrevOf, CallOf, RestOf, FetchedAts, HoldAts, EmptyAts, FastAts
  <2>5. stack' \in [Threads -> Seq(StackFrame)] /\ Places(A)'
    BY <1>2, <1>7, <2>2, <2>3, <2>4, QuietStep
  <2> QED
    BY <1>7, <2>5, SameTypes DEF QueueTypes
<1>8. ASSUME Top(t).at \in FastAts, NEW at \in WaitAts,
             SameLists, SameLocks, UNCHANGED <<use, begun, sema, suspend_cnt, targetq>>,
             \/ Become(t, Push(q, c) \o <<Frame(at, q, c)>>)
             \/ Become(t, (Wakeup(q) \o Push(q, c)) \o <<Frame(at, q, c)>>)
      PROVE  QueueTypes' /\ Places(A)'
  <2>1. PICK f : f = Frame(at, q, c)
    OBVIOUS
  <2>2. PICK g : g = Frame("push", q, c)
    OBVIOUS
  <2>3. PICK h : h = Frame("wakeup", q, NULL)
    OBVIOUS
  <2>4. f \in StackFrame /\ Bare(f) /\ g \in StackFrame /\ h \in StackFrame /\ Bare(h)
    BY <1>5, <2>1, <2>2, <2>3, CallFrames, PushFrames, BareFrames DEF BareAts
  <2>5. Become(t, <<g, f>>) \/ Become(t, <<h, g, f>>)
    <3>1. <<g>> \o <<f>> = <<g, f>> /\ <<h>> \o <<g>> = <<h, g>> /\ <<h, g>> \o <<f>> = <<h, g, f>>
      BY Concatenations
    <3>2. Become(t, <<g>> \o <<f>>) \/ Become(t, (<<h>> \o <<g>>) \o <<f>>)
      BY <1>8, <2>1, <2>2, <2>3 DEF Push, Wakeup
    <3> QED
      BY <3>1, <3>2
  <2>6. /\ stack' \in [Threads -> Seq(StackFrame)]
        /\ Makes(b, f, g, Nothing) \/ Makes(b, f, g, h)
    BY <1>1, <1>2, <2>4, <2>5, Becoming
  <2>7. Places(A)'
    BY <1>3, <1>5, <1>8, <2>2, <2>4, <2>6, AskerWaits, NothingIsBare
  <2> QED
    BY <1>8, <2>6, <2>7, SameTypes DEF QueueTypes
<1>9. ASSUME NEW at \in BareAts, Begin(t, c, <<Frame(at, q, NULL)>>),
             SameLists, UNCHANGED <<use, suspend_cnt, targetq>>,
             \/ Fr(b).at \in FastAts /\ sema' = sema
             \/ Fr(b).at \in WaitAts /\ sema[c] = 1 /\ sema' = [sema EXCEPT ![c] = 0]
      PROVE  QueueTypes' /\ Places(A)'
  <2>1. PICK f : f = Frame(at, q, NULL)
    OBVIOUS
  <2>2. PICK g : g = Run(c)
    OBVIOUS
  <2>3. f \in StackFrame /\ Bare(f) /\ g \in StackFrame
    BY <1>5, <2>1, <2>2, BareFrames, RunFrames
  <2>4. Become(t, <<g, f>>) /\ begun' = begun \cup {c}
    <3>1. <<g>> \o <<f>> = <<g, f>>
      BY Concatenations
    <3>2. Become(t, <<g>> \o <<f>>) /\ begun' = begun \cup {c}
      BY <1>9, <2>1, <2>2 DEF Begin
    <3> QED
      BY <3>1, <3>2
  <2>5. stack' \in [Threads -> Seq(StackFrame)] /\ Makes(b, f, g, Nothing)
    BY <1>1, <1>2, <2>3, <2>4, Becoming
  <2>6. SameLocks
    BY <1>9
  <2>7. Places(A)'
    BY <1>3, <1>5, <1>9, <2>2, <2>3, <2>4, <2>5, <2>6, CallBegins
  <2>8. sema' \in [Calls -> {0, 1}]
    BY <1>9 DEF QueueTypes
  <2>9. suspend_cnt' \in [Queues -> Int] /\ targetq' \in [Queues -> Targets]
    BY <1>9 DEF QueueTypes
  <2> QED
    BY <1>5, <1>9, <2>4, <2>5, <2>7, <2>8, <2>9, BegunTypes
<1>10. CASE SyncUnlessSuspended(t)
  <2>1. Top(t).at \in FastAts
    BY <1>10, AtTop DEF SyncUnlessSuspended, FastAts
  <2>2. Become(t, Push(q, c) \o <<Frame("sync_wait", q, c)>>) \/ Goto(t, "sync_add")
    BY <1>4, <1>6, <1>10 DEF SyncUnlessSuspended, SyncSlow, WaitAts
  <2> QED
    BY <1>7, <1>8, <1>10, <2>1, <2>2 DEF SyncUnlessSuspended, FastAts, WaitAts
<1>11. CASE SyncAdd(t)
  <2>1. Top(t).at \in FastAts
    BY <1>11, AtTop DEF SyncAdd, FastAts
  <2>2. CASE Goto(t, "sync_back") /\ UNCHANGED blocks
    BY <1>7, <1>11, <2>1, <2>2 DEF SyncAdd, FastAts
  <2>3. CASE Begin(t, c, <<Frame("running_sub", q, NULL)>>)
    BY <1>3, <1>9, <1>11, <2>1, <2>3 DEF SyncAdd, BareAts
  <2> QED
    BY <1>4, <1>11, <2>2, <2>3 DEF SyncAdd
<1>12. CASE SyncBackOut(t)
  <2>1. Top(t).at \in FastAts
    BY <1>12, AtTop DEF SyncBackOut, FastAts
  <2>2. \/ Become(t, <<>> \o Push(q, c) \o <<Frame("sync_wait", q, c)>>)
        \/ Become(t, Wakeup(q) \o Push(q, c) \o <<Frame("sync_wait", q, c)>>)
    BY <1>4, <1>6, <1>12 DEF SyncBackOut, WaitAts
  <2>3. <<>> \o Push(q, c) = Push(q, c)
    BY Concatenations DEF Push
  <2>4. \/ Become(t, Push(q, c) \o <<Frame("sync_wait", q, c)>>)
        \/ Become(t, (Wakeup(q) \o Push(q, c)) \o <<Frame("sync_wait", q, c)>>)
    BY <2>2, <2>3
  <2> QED
    BY <1>8, <1>12, <2>1, <2>4 DEF SyncBackOut, WaitAts
<1>13. CASE SyncWait(t)
  <2>1. Top(t).at \in WaitAts
    BY <1>13, AtTop DEF SyncWait, WaitAts
  <2>2. Begin(t, c, <<Frame("running_sub", q, NULL)>>) /\ sema[c] = 1 /\ sema' = [sema EXCEPT ![c] = 0]
    BY <1>4, <1>13 DEF SyncWait
  <2> QED
    BY <1>3, <1>9, <1>13, <2>1, <2>2 DEF SyncWait, BareAts
<1>14. CASE BarrierSyncUnlessSuspended(t)
  <2>1. Top(t).at \in FastAts
    BY <1>14, AtTop DEF BarrierSyncUnlessSuspended, FastAts
  <2>2. Become(t, Push(q, c) \o <<Frame("bsync_wait", q, c)>>) \/ Goto(t, "bsync_trylock")
    BY <1>4, <1>6, <1>14 DEF BarrierSyncUnlessSuspended, BarrierSyncSlow, WaitAts
  <2> QED
    BY <1>7, <1>8, <1>14, <2>1, <2>2 DEF BarrierSyncUnlessSuspended, FastAts, WaitAts
<1>15. CASE BarrierSyncTrylock(t)
  <2>1. Top(t).at \in FastAts
    BY <1>15, AtTop DEF BarrierSyncTrylock, FastAts
  <2>2. CASE Begin(t, c, <<Frame("unlock", q, NULL)>>)
    BY <1>3, <1>9, <1>15, <2>1, <2>2 DEF BarrierSyncTrylock, BareAts
  <2>3. CASE BarrierSyncSlow(t) /\ UNCHANGED blocks
    <3>1. Become(t, Push(q, c) \o <<Frame("bsync_wait", q, c)>>)
      BY <1>4, <1>6, <2>3 DEF BarrierSyncSlow, WaitAts
    <3> QED
      BY <1>8, <1>15, <2>1, <2>3, <3>1 DEF BarrierSyncTrylock, WaitAts
  <2> QED
    BY <1>4, <1>15, <2>2, <2>3 DEF BarrierSyncTrylock
<1>16. CASE BarrierSyncWait(t)
  <2>1. Top(t).at \in WaitAts
    BY <1>16, AtTop DEF BarrierSyncWait, WaitAts
  <2>2. Begin(t, c, <<Frame("resume", q, NULL)>>) /\ sema[c] = 1 /\ sema' = [sema EXCEPT ![c] = 0]
    BY <1>4, <1>16 DEF BarrierSyncWait
  <2> QED
    BY <1>3, <1>9, <1>16, <2>1, <2>2 DEF BarrierSyncWait, BareAts
<1> QED
  BY <1>10, <1>11, <1>12, <1>13, <1>14, <1>15, <1>16
-----------------------------------------------------------------------------
(* Objects are put on lists. *)

\* r is f.
Is(r, f) == /\ Invoked(r) = QOf(f) /\ Held(r) = OOf(f) /\ Behind(r) = NOf(f)
            /\ Before(r) = PrevOf(f) /\ Asking(r) = CallOf(f) /\ Rest(r) = RestOf(f)
            /\ (Fetched(r) <=> f.at \in FetchedAts)
            /\ (Apart(r) <=> f.at \in FetchedAts \cup {"push"})

LEMMA Attributes ==
    ASSUME NEW f
    PROVE  /\ f.at \in {"push", "publish", "link"} =>
                 /\ QOf(f) = NULL /\ OOf(f) = f.o /\ NOf(f) = NULL
                 /\ CallOf(f) = NULL /\ RestOf(f) = <<>> /\ f.at \notin FetchedAts
           /\ f.at \in {"push", "publish"} => PrevOf(f) = NULL
           /\ f.at = "link" => PrevOf(f) = f.prev
           /\ f.at \in {"publish", "link"} => f.at # "push"
BY DEF QOf, OOf, NOf, PrevOf, CallOf, RestOf, FetchedAts, HoldAts, EmptyAts, FastAts

\* A step that changes one frame, to g, and puts nothing but a bare one on it.
LEMMA OneFrame ==
    ASSUME QueueTypes, NEW t \in Threads, stack[t] # <<>>, NEW b, b = TopOf(t), NEW f, f = Top(t),
           NEW g,
           \/ g = Nothing /\ Become(t, <<>>)
           \/ g \in StackFrame /\ Become(t, <<g>>)
           \/ g \in StackFrame /\ \E w \in StackFrame : Bare(w) /\ Become(t, <<w, g>>)
    PROVE  /\ stack' \in [Threads -> Seq(StackFrame)]
           /\ b \in Pos /\ f \in StackFrame /\ Is(b, f) /\ IsNow(b, g)
           /\ \A r \in Pos \ {b} : Still(r)
<1>1. /\ b \in Pos /\ Fr(b) = f /\ f \in StackFrame
      /\ Fr(Up(b)) = Nothing /\ Fr(Up(Up(b))) = Nothing
  BY Becoming
<1>2. Is(b, f)
  BY <1>1 DEF Is, Invoked, Held, Behind, Before, Asking, Rest, Fetched, Apart
<1>3. ASSUME NEW w, Bare(w), Makes(b, g, w, Nothing)
      PROVE  IsNow(b, g) /\ \A r \in Pos \ {b} : Still(r)
  BY <1>1, <1>3, Making, NothingIsBare
<1>4. CASE g = Nothing /\ Become(t, <<>>)
  <2>1. stack' \in [Threads -> Seq(StackFrame)] /\ Makes(b, g, Nothing, Nothing)
    BY <1>4, Becoming
  <2> QED
    BY <1>1, <1>2, <1>3, <2>1, NothingIsBare
<1>5. CASE g \in StackFrame /\ Become(t, <<g>>)
  <2>1. stack' \in [Threads -> Seq(StackFrame)] /\ Makes(b, g, Nothing, Nothing)
    BY <1>5, Becoming
  <2> QED
    BY <1>1, <1>2, <1>3, <2>1, NothingIsBare
<1>6. ASSUME g \in StackFrame, NEW w \in StackFrame, Bare(w), Become(t, <<w, g>>)
      PROVE  /\ stack' \in [Threads -> Seq(StackFrame)]
             /\ IsNow(b, g) /\ \A r \in Pos \ {b} : Still(r)
  <2>1. stack' \in [Threads -> Seq(StackFrame)] /\ Makes(b, g, w, Nothing)
    BY <1>6, Becoming
  <2> QED
    BY <1>3, <1>6, <2>1
<1> QED
  BY <1>1, <1>2, <1>4, <1>5, <1>6

\* A step that moves objects from slot to slot, and perhaps puts some on a list.
LEMMA Moved ==
    ASSUME NEW A \in SUBSET Objects, NEW B \in SUBSET Objects, Places(A), OneSlot(B)',
           \A o \in Objects : Out(A, o) => Out(B, o)',
           \A o \in B \ A : ~Out(A, o),
           \A o \in Objects : Nowhere(A, o) => next'[o] = next[o],
           Sides(B)', Fetching', Ends(B)', SameLocks, UNCHANGED <<use, begun, sema>>,
           \A r \in Pos : Rest(r)' = Rest(r) /\ Asking(r)' \in {Asking(r), NULL}
    PROVE  Places(B)'
<1>1. KeepsOut(A, B)
  BY DEF KeepsOut, Nowhere, Out
<1> QED
  BY <1>1, Settled

LEMMA Elsewhere ==
    ASSUME NEW A \in SUBSET Objects, OneSlot(A), NEW p \in Pos, Held(p) \in Objects
    PROVE  /\ \A r \in Pos \ {p} : Held(r) # Held(p)
           /\ \A r \in Pos : Invoked(r) # Held(p) /\ Behind(r) # Held(p)
           /\ \A q \in Queues : items_head[q] # Held(p)
           /\ \A x \in A : next[x] # Held(p)
           /\ \A i \in 1 .. Len(root) : root[i] # Held(p)
           /\ ~Out(A, Held(p))
<1>1. <<"held", p>> \in Slot /\ In(A, <<"held", p>>) = Held(p)
  BY SlotKinds, SlotValues
<1>2. /\ \A r \in Pos : /\ Invoked(r) = Held(p) => <<"held", p>> = <<"invoked", r>>
                        /\ Held(r) = Held(p) => <<"held", p>> = <<"held", r>>
                        /\ Behind(r) = Held(p) => <<"held", p>> = <<"behind", r>>
      /\ \A q \in Queues : items_head[q] = Held(p) => <<"held", p>> = <<"head", q>>
      /\ \A x \in A : next[x] = Held(p) => <<"held", p>> = <<"next", x>>
      /\ \A i \in 1 .. Len(root) : root[i] = Held(p) => <<"held", p>> = <<"root", i>>
  BY <1>1, OnlyThere
<1> QED
  BY <1>1, <1>2 DEF Out

LEMMA PushesOnRoot ==
    ASSUME QueueTypes, NEW A \in SUBSET Objects, Places(A), NEW t \in Threads, PushOnRoot(t)
    PROVE  QueueTypes' /\ Places(A)'
<1> USE DEF SameLists, SameLocks, lists, counts, refs, blocks
<1>1. PICK b, f, o : b = TopOf(t) /\ f = Top(t) /\ o = f.o
  OBVIOUS
<1>2. stack[t] # <<>> /\ f.at = "push" /\ Become(t, <<>>)
  BY <1>1, AtTop DEF PushOnRoot, Return
<1>3. /\ stack' \in [Threads -> Seq(StackFrame)]
      /\ b \in Pos /\ f \in StackFrame /\ Is(b, f) /\ IsNow(b, Nothing)
      /\ \A r \in Pos \ {b} : Still(r)
  BY <1>1, <1>2, OneFrame
<1>4. o \in Objects
  BY <1>1, <1>2, <1>3, FrameKinds DEF PushFrame
<1>5. /\ Invoked(b) = NULL /\ Held(b) = o /\ Behind(b) = NULL /\ Before(b) = NULL
      /\ Asking(b) = NULL /\ Rest(b) = <<>> /\ ~Fetched(b) /\ Apart(b)
  BY <1>1, <1>2, <1>3, Attributes DEF Is
<1>6. /\ Invoked(b)' = NULL /\ Held(b)' = NULL /\ Behind(b)' = NULL /\ Before(b)' = NULL
      /\ Asking(b)' = NULL /\ Rest(b)' = <<>> /\ ~Fetched(b)' /\ ~Apart(b)'
  BY <1>3, NothingIsBare DEF IsNow, Bare
<1>7. /\ OneSlot(A) /\ Sides(A) /\ Fetching /\ Ends(A)
  BY DEF Places
<1>8. o \notin A
  BY <1>3, <1>5, <1>7 DEF Sides
<1>9. PICK n \in Nat : n = Len(root)
  BY DEF QueueTypes
<1>10. /\ root' \in Seq(Objects) /\ Len(root') = n + 1 /\ root'[n + 1] = o
       /\ \A i \in 1 .. n : root'[i] = root[i]
  BY <1>1, <1>4, <1>9 DEF PushOnRoot, QueueTypes
<1>11. /\ next' \in [Objects -> Maybe \cup {LISTLESS}] /\ next'[o] = NULL
       /\ \A x \in Objects \ {o} : next'[x] = next[x]
  BY <1>1, <1>4 DEF PushOnRoot, QueueTypes, Maybe
<1>12. UNCHANGED <<use, items_tail, items_head, suspend_cnt, targetq, sema, begun>>
  BY DEF PushOnRoot
<1>13. QueueTypes'
  BY <1>3, <1>10, <1>11, <1>12 DEF QueueTypes
<1>14. /\ \A r \in Pos \ {b} : Held(r) # o
       /\ ~Out(A, o)
  BY <1>3, <1>4, <1>5, <1>7, Elsewhere
<1>15. OneSlot(A)' /\ \A x \in Objects : Out(A, x) => Out(A, x)'
  <2>0. n + 1 \in Nat \ {0} /\ n + 1 <= Len(root')
    BY <1>10
  <2>1. /\ <<"held", b>> \in Slot /\ <<"root", n + 1>> \in Slot
        /\ <<"held", b>> # <<"root", n + 1>>
    BY <1>3, <2>0, SlotKinds
  <2>2. In(A, <<"root", n + 1>>)' = In(A, <<"held", b>>) /\ In(A, <<"held", b>>)' \notin Objects
    <3>1. In(A, <<"root", n + 1>>)' = o
      BY <1>10, <2>0, SlotValuesNext
    <3>2. In(A, <<"held", b>>) = o
      BY <1>3, <1>5, SlotValues
    <3>3. In(A, <<"held", b>>)' = NULL
      BY <1>3, <1>6, SlotValuesNext
    <3> QED
      BY <3>1, <3>2, <3>3, NullIsNone
  <2>3. \A p \in Pos : /\ Loses(A, A, <<"invoked", p>>)
                       /\ p # b => Loses(A, A, <<"held", p>>)
                       /\ Loses(A, A, <<"behind", p>>)
    BY <1>3, <1>5, <1>6 DEF In, Loses, Still, Steady
  <2>4. /\ \A q \in Queues : Loses(A, A, <<"head", q>>)
        /\ \A x \in Objects : Loses(A, A, <<"next", x>>)
    BY <1>8, <1>11, <1>12 DEF In, Loses
  <2>5. \A i \in Nat \ {0} : i # n + 1 => Loses(A, A, <<"root", i>>)
    <3>1. SUFFICES ASSUME NEW i \in Nat \ {0}, i # n + 1 PROVE Loses(A, A, <<"root", i>>)
      OBVIOUS
    <3>2. CASE i <= n
      BY <3>2, <1>9, <1>10 DEF In, Loses
    <3>3. CASE ~(i <= n)
      BY <3>1, <3>3, <1>9, <1>10 DEF In, Loses
    <3> QED
      BY <3>2, <3>3
  <2>6. \A s \in Slot \ {<<"held", b>>, <<"root", n + 1>>} : Loses(A, A, s)
    BY <2>3, <2>4, <2>5, SlotKinds
  <2> QED
    BY <1>7, <2>1, <2>2, <2>6, SlotMove
<1>16. Sides(A)'
  <2>1. \A p \in Pos : /\ Invoked(p)' \notin A
                       /\ Behind(p)' \in A \cup {NULL}
                       /\ Apart(p)' => Held(p)' \notin A
                       /\ ~Apart(p)' => Held(p)' \in A \cup {NULL}
    BY <1>3, <1>6, <1>7, NullIsNone DEF Sides, Still, Steady
  <2>2. \A x \in A : next'[x] \in A \cup {NULL}
    BY <1>7, <1>8, <1>11 DEF Sides
  <2>3. \A i \in 1 .. Len(root') : root'[i] \notin A
    BY <1>7, <1>8, <1>9, <1>10 DEF Sides
  <2>4. \A q \in Queues : items_head'[q] \in A \cup {NULL}
    BY <1>7, <1>12 DEF Sides
  <2> QED
    BY <2>1, <2>2, <2>3, <2>4 DEF Sides
<1>17. Fetching'
  <2>1. ASSUME NEW p \in Pos, Fetched(p)' PROVE next'[Held(p)'] = Behind(p)'
    <3>1. p # b /\ Fetched(p) /\ Held(p)' = Held(p) /\ Behind(p)' = Behind(p)
      BY <1>3, <1>6, <2>1 DEF Still, Steady
    <3>2. Held(p) # o /\ next[Held(p)] = Behind(p)
      BY <1>7, <1>14, <3>1 DEF Fetching
    <3> QED
      BY <1>1, <3>1, <3>2 DEF PushOnRoot, QueueTypes
  <2> QED
    BY <2>1 DEF Fetching
<1>18. Ends(A)'
  <2>1. \A p \in Pos : Before(p)' = Before(p)
    BY <1>3, <1>5, <1>6 DEF Still, Steady
  <2> QED
    BY <1>7, <1>8, <1>11, <1>12, <2>1 DEF Ends
<1>19. \A r \in Pos : Rest(r)' = Rest(r) /\ Asking(r)' \in {Asking(r), NULL}
  BY <1>3, <1>5, <1>6 DEF Still
<1>20. \A x \in Objects : Nowhere(A, x) => next'[x] = next[x]
  BY <1>11, <1>14 DEF Nowhere, Out
<1> QED
  BY <1>7, <1>12, <1>13, <1>15, <1>16, <1>17, <1>18, <1>19, <1>20, Moved

LEMMA ExchangesTail ==
    ASSUME QueueTypes, NEW A \in SUBSET Objects, Places(A), NEW t \in Threads, ExchangeTail(t)
    PROVE  QueueTypes' /\ \E B \in SUBSET Objects : Relists(t, A, B) /\ Places(B)'
<1> USE DEF SameLists, SameLocks, lists, counts, refs, blocks
<1>1. PICK b, f, o, q : b = TopOf(t) /\ f = Top(t) /\ o = f.o /\ q = f.q
  OBVIOUS
<1>2. PICK prev : prev = items_tail[q]
  OBVIOUS
<1>3. stack[t] # <<>> /\ f.at = "push" /\ q # ROOT
  BY <1>1, AtTop DEF ExchangeTail
<1>4. f \in StackFrame /\ f \in PushFrame /\ o \in Objects /\ q \in Queues
  <2>1. f \in StackFrame
    BY <1>1, <1>3, TopFrame
  <2>2. f \in PushFrame
    BY <1>3, <2>1, FrameKinds
  <2> QED
    BY <1>1, <1>3, <2>1, <2>2 DEF PushFrame, Targets
<1>5. prev \in Maybe
  BY <1>2, <1>4 DEF QueueTypes
<1>6. PICK g \in StackFrame : /\ Become(t, <<g>>) /\ QOf(g) = NULL /\ OOf(g) = o /\ NOf(g) = NULL
                              /\ PrevOf(g) = prev /\ CallOf(g) = NULL /\ RestOf(g) = <<>>
                              /\ g.at \notin FetchedAts \cup {"push"}
  <2>1. CASE prev # NULL
    <3>1. PICK g : g = [at |-> "link", prev |-> prev, o |-> o]
      OBVIOUS
    <3>2. Become(t, <<g>>)
      BY <1>1, <1>2, <2>1, <3>1 DEF ExchangeTail
    <3>3. g \in LinkFrame /\ g.at = "link" /\ g.o = o /\ g.prev = prev
      BY <1>4, <1>5, <2>1, <3>1 DEF LinkFrame, Maybe
    <3>4. g \in StackFrame
      BY <3>3 DEF StackFrame
    <3> QED
      BY <3>2, <3>3, <3>4, Attributes
  <2>2. CASE prev = NULL
    <3>1. PICK g : g = [f EXCEPT !.at = "publish"]
      OBVIOUS
    <3>2. Become(t, <<g>>)
      BY <1>1, <1>2, <2>2, <3>1 DEF ExchangeTail, Goto
    <3>3. g \in PublishFrame /\ g.at = "publish" /\ g.o = o
      BY <1>1, <1>3, <1>4, <3>1 DEF PushFrame, PublishFrame
    <3>4. g \in StackFrame
      BY <3>3 DEF StackFrame
    <3> QED
      BY <2>2, <3>2, <3>3, <3>4, Attributes
  <2> QED
    BY <2>1, <2>2
<1>7. /\ stack' \in [Threads -> Seq(StackFrame)]
      /\ b \in Pos /\ Is(b, f) /\ IsNow(b, g)
      /\ \A r \in Pos \ {b} : Still(r)
  BY <1>1, <1>3, <1>6, OneFrame
<1>8. /\ Invoked(b) = NULL /\ Held(b) = o /\ Behind(b) = NULL /\ Before(b) = NULL
      /\ Asking(b) = NULL /\ Rest(b) = <<>> /\ ~Fetched(b) /\ Apart(b)
  BY <1>1, <1>3, <1>7, Attributes DEF Is
<1>9. /\ Invoked(b)' = NULL /\ Held(b)' = o /\ Behind(b)' = NULL /\ Before(b)' = prev
      /\ Asking(b)' = NULL /\ Rest(b)' = <<>> /\ ~Fetched(b)' /\ ~Apart(b)'
  BY <1>6, <1>7 DEF IsNow
<1>10. /\ OneSlot(A) /\ Sides(A) /\ Fetching /\ Ends(A)
  BY DEF Places
<1>11. o \notin A /\ o # NULL
  BY <1>4, <1>7, <1>8, <1>10, NullIsNone DEF Sides
<1>12. /\ next' \in [Objects -> Maybe \cup {LISTLESS}] /\ next'[o] = NULL
       /\ \A x \in Objects \ {o} : next'[x] = next[x]
  BY <1>1, <1>4 DEF ExchangeTail, QueueTypes, Maybe
<1>13. /\ items_tail' \in [Queues -> Maybe] /\ items_tail'[q] = o
       /\ \A r \in Queues \ {q} : items_tail'[r] = items_tail[r]
  BY <1>1, <1>4 DEF ExchangeTail, QueueTypes, Maybe
<1>14. UNCHANGED <<use, items_head, root, suspend_cnt, targetq, sema, begun>>
  BY DEF ExchangeTail
<1>15. QueueTypes'
  BY <1>7, <1>12, <1>13, <1>14 DEF QueueTypes
<1>16. /\ \A r \in Pos \ {b} : Held(r) # o
       /\ \A r \in Pos : Invoked(r) # o
       /\ \A i \in 1 .. Len(root) : root[i] # o
       /\ ~Out(A, o)
  BY <1>4, <1>7, <1>8, <1>10, Elsewhere
<1>17. PICK B \in SUBSET Objects : B = A \cup {o}
  BY <1>4
<1>18. OneSlot(B)' /\ \A x \in Objects : Out(A, x) => Out(B, x)'
  <2>1. \A p \in Pos : /\ Loses(A, B, <<"invoked", p>>)
                       /\ Loses(A, B, <<"held", p>>)
                       /\ Loses(A, B, <<"behind", p>>)
    BY <1>7, <1>8, <1>9 DEF In, Loses, Still, Steady
  <2>2. /\ \A r \in Queues : Loses(A, B, <<"head", r>>)
        /\ \A i \in Nat \ {0} : Loses(A, B, <<"root", i>>)
    BY <1>14 DEF In, Loses
  <2>3. \A x \in Objects : Loses(A, B, <<"next", x>>)
    BY <1>11, <1>12, <1>17, NullIsNone DEF In, Loses
  <2>4. \A s \in Slot : Loses(A, B, s)
    BY <2>1, <2>2, <2>3, SlotKinds
  <2> QED
    BY <1>10, <2>4, SlotsLose
<1>19. Sides(B)'
  <2>1. \A p \in Pos \ {b} : /\ Invoked(p)' \notin B
                             /\ Behind(p)' \in B \cup {NULL}
                             /\ Apart(p)' => Held(p)' \notin B
                             /\ ~Apart(p)' => Held(p)' \in B \cup {NULL}
    BY <1>7, <1>10, <1>16, <1>17 DEF Sides, Still, Steady
  <2>2. /\ Invoked(b)' \notin B
        /\ Behind(b)' \in B \cup {NULL}
        /\ Apart(b)' => Held(b)' \notin B
        /\ ~Apart(b)' => Held(b)' \in B \cup {NULL}
    BY <1>9, <1>17, NullIsNone
  <2>3. \A x \in B : next'[x] \in B \cup {NULL}
    BY <1>10, <1>12, <1>17 DEF Sides
  <2>4. \A i \in 1 .. Len(root') : root'[i] \notin B
    BY <1>10, <1>14, <1>16, <1>17 DEF Sides
  <2>5. \A r \in Queues : items_head'[r] \in B \cup {NULL}
    BY <1>10, <1>14, <1>17 DEF Sides
  <2> QED
    BY <2>1, <2>2, <2>3, <2>4, <2>5 DEF Sides
<1>20. Fetching'
  <2>1. ASSUME NEW p \in Pos, Fetched(p)' PROVE next'[Held(p)'] = Behind(p)'
    <3>1. p # b /\ Fetched(p) /\ Held(p)' = Held(p) /\ Behind(p)' = Behind(p)
      BY <1>7, <1>9, <2>1 DEF Still, Steady
    <3>2. Held(p) # o /\ next[Held(p)] = Behind(p)
      BY <1>10, <1>16, <3>1 DEF Fetching
    <3> QED
      BY <1>1, <3>1, <3>2 DEF ExchangeTail, QueueTypes
  <2> QED
    BY <2>1 DEF Fetching
<1>21. Ends(B)'
  <2>1. \A p \in Pos \ {b} : Before(p)' = Before(p)
    BY <1>7 DEF Still, Steady
  <2>2. \A r \in Queues : items_tail[r] \in A \cup {NULL} /\ items_tail[r] # o
    BY <1>10, <1>11 DEF Ends
  <2>3. \A p \in Pos : Before(p) \in A \cup {NULL} /\ Before(p) # o
    BY <1>10, <1>11 DEF Ends
  <2>4. prev \in A \cup {NULL} /\ prev # o
    BY <1>2, <1>4, <2>2
  <2>5. ASSUME NEW r \in Queues, items_tail'[r] # NULL
        PROVE  /\ items_tail'[r] \in B /\ next'[items_tail'[r]] = NULL
               /\ \A p \in Pos : Before(p)' # items_tail'[r]
               /\ \A s \in Queues : items_tail'[s] = items_tail'[r] => s = r
    <3>1. CASE r = q
      BY <1>9, <1>12, <1>13, <1>17, <2>1, <2>2, <2>3, <2>4, <3>1
    <3>2. CASE r # q
      <4>1. items_tail'[r] = items_tail[r] /\ items_tail[r] \in A /\ items_tail[r] \in Objects
        BY <1>13, <2>2, <2>5, <3>2
      <4>2. next'[items_tail[r]] = NULL
        BY <1>10, <1>12, <2>2, <4>1, <2>5 DEF Ends
      <4>3. \A p \in Pos : Before(p)' # items_tail[r]
        <5>1. prev # items_tail[r]
          BY <1>2, <1>4, <1>10, <2>5, <3>2, <4>1 DEF Ends
        <5> QED
          BY <1>9, <1>10, <2>1, <2>5, <4>1, <5>1 DEF Ends
      <4>4. \A s \in Queues : items_tail'[s] = items_tail[r] => s = r
        BY <1>10, <1>13, <2>2, <2>5, <4>1 DEF Ends
      <4> QED
        BY <1>17, <4>1, <4>2, <4>3, <4>4
    <3> QED
      BY <3>1, <3>2
  <2>6. ASSUME NEW p \in Pos, Before(p)' # NULL
        PROVE  /\ Before(p)' \in B /\ next'[Before(p)'] = NULL
               /\ \A r \in Pos : Before(r)' = Before(p)' => r = p
    <3>1. CASE p = b
      <4>1. prev \in A /\ prev \in Objects /\ next[prev] = NULL /\ \A r \in Pos : Before(r) # prev
        BY <1>2, <1>4, <1>9, <1>10, <2>4, <2>6, <3>1 DEF Ends
      <4> QED
        BY <1>9, <1>12, <1>17, <2>1, <2>4, <3>1, <4>1
    <3>2. CASE p # b
      <4>1. /\ Before(p)' = Before(p) /\ Before(p) \in A /\ Before(p) \in Objects /\ next[Before(p)] = NULL
            /\ \A r \in Pos : Before(r) = Before(p) => r = p
        BY <1>10, <2>1, <2>3, <2>6, <3>2 DEF Ends
      <4>2. prev # Before(p)
        BY <1>2, <1>4, <1>10, <4>1, <2>6 DEF Ends
      <4>3. next'[Before(p)] = NULL
        BY <1>12, <2>3, <4>1
      <4> QED
        BY <1>9, <1>17, <2>1, <4>1, <4>2, <4>3
    <3> QED
      BY <3>1, <3>2
  <2> QED
    BY <2>5, <2>6 DEF Ends
<1>22. \A r \in Pos : Rest(r)' = Rest(r) /\ Asking(r)' \in {Asking(r), NULL}
  BY <1>7, <1>8, <1>9 DEF Still
<1>23. \A x \in Objects : Nowhere(A, x) => next'[x] = next[x]
  BY <1>12, <1>16 DEF Nowhere, Out
<1>24. \A x \in B \ A : ~Out(A, x)
  BY <1>16, <1>17
<1>25. Places(B)'
  BY <1>14, <1>18, <1>19, <1>20, <1>21, <1>22, <1>23, <1>24, Moved
<1> QED
  BY <1>1, <1>15, <1>17, <1>25 DEF Relists

LEMMA LinksPrevious ==
    ASSUME QueueTypes, NEW A \in SUBSET Objects, Places(A), NEW t \in Threads, LinkPrevious(t)
    PROVE  QueueTypes' /\ Places(A)'
<1> USE DEF SameLists, SameLocks, lists, counts, refs, blocks
<1>1. PICK b, f, o, prev : b = TopOf(t) /\ f = Top(t) /\ o = f.o /\ prev = f.prev
  OBVIOUS
<1>2. stack[t] # <<>> /\ f.at = "link" /\ Become(t, <<>>)
  BY <1>1, AtTop DEF LinkPrevious, Return
<1>3. /\ stack' \in [Threads -> Seq(StackFrame)]
      /\ b \in Pos /\ f \in StackFrame /\ Is(b, f) /\ IsNow(b, Nothing)
      /\ \A r \in Pos \ {b} : Still(r)
  BY <1>1, <1>2, OneFrame
<1>4. o \in Objects /\ prev \in Objects
  <2>1. f \in LinkFrame
    BY <1>2, <1>3, FrameKinds
  <2> QED
    BY <1>1, <2>1 DEF LinkFrame
<1>5. /\ Invoked(b) = NULL /\ Held(b) = o /\ Behind(b) = NULL /\ Before(b) = prev
      /\ Asking(b) = NULL /\ Rest(b) = <<>> /\ ~Fetched(b) /\ ~Apart(b)
  BY <1>1, <1>2, <1>3, Attributes DEF Is
<1>6. /\ Invoked(b)' = NULL /\ Held(b)' = NULL /\ Behind(b)' = NULL /\ Before(b)' = NULL
      /\ Asking(b)' = NULL /\ Rest(b)' = <<>> /\ ~Fetched(b)' /\ ~Apart(b)'
  BY <1>3, NothingIsBare DEF IsNow, Bare
<1>7. /\ OneSlot(A) /\ Sides(A) /\ Fetching /\ Ends(A)
  BY DEF Places
<1>8. o \in A
  BY <1>3, <1>4, <1>5, <1>7, NullIsNone DEF Sides
<1>9. /\ prev \in A /\ prev # NULL /\ next[prev] = NULL
      /\ \A r \in Pos : Before(r) = prev => r = b
      /\ \A q \in Queues : items_tail[q] # prev
  BY <1>3, <1>4, <1>5, <1>7, NullIsNone DEF Ends
<1>10. /\ next' \in [Objects -> Maybe \cup {LISTLESS}] /\ next'[prev] = o
       /\ \A x \in Objects \ {prev} : next'[x] = next[x]
  BY <1>1, <1>4 DEF LinkPrevious, QueueTypes, Maybe
<1>11. UNCHANGED <<use, items_tail, items_head, root, suspend_cnt, targetq, sema, begun>>
  BY DEF LinkPrevious
<1>12. QueueTypes'
  BY <1>3, <1>10, <1>11 DEF QueueTypes
<1>13. OneSlot(A)' /\ \A x \in Objects : Out(A, x) => Out(A, x)'
  <2>1. <<"held", b>> \in Slot /\ <<"next", prev>> \in Slot /\ <<"held", b>> # <<"next", prev>>
    BY <1>3, <1>4, SlotKinds
  <2>2. In(A, <<"next", prev>>)' = In(A, <<"held", b>>) /\ In(A, <<"held", b>>)' \notin Objects
    <3>1. In(A, <<"next", prev>>)' = o
      BY <1>4, <1>9, <1>10, SlotValuesNext
    <3>2. In(A, <<"held", b>>) = o
      BY <1>3, <1>5, SlotValues
    <3>3. In(A, <<"held", b>>)' = NULL
      BY <1>3, <1>6, SlotValuesNext
    <3> QED
      BY <3>1, <3>2, <3>3, NullIsNone
  <2>3. \A p \in Pos : /\ Loses(A, A, <<"invoked", p>>)
                       /\ p # b => Loses(A, A, <<"held", p>>)
                       /\ Loses(A, A, <<"behind", p>>)
    BY <1>3, <1>5, <1>6 DEF In, Loses, Still, Steady
  <2>4. /\ \A q \in Queues : Loses(A, A, <<"head", q>>)
        /\ \A i \in Nat \ {0} : Loses(A, A, <<"root", i>>)
    BY <1>11 DEF In, Loses
  <2>5. \A x \in Objects \ {prev} : Loses(A, A, <<"next", x>>)
    BY <1>10 DEF In, Loses
  <2>6. \A s \in Slot \ {<<"held", b>>, <<"next", prev>>} : Loses(A, A, s)
    BY <2>3, <2>4, <2>5, SlotKinds
  <2> QED
    BY <1>7, <2>1, <2>2, <2>6, SlotMove
<1>14. Sides(A)'
  <2>1. \A p \in Pos : /\ Invoked(p)' \notin A
                       /\ Behind(p)' \in A \cup {NULL}
                       /\ Apart(p)' => Held(p)' \notin A
                       /\ ~Apart(p)' => Held(p)' \in A \cup {NULL}
    BY <1>3, <1>6, <1>7, NullIsNone DEF Sides, Still, Steady
  <2>2. \A x \in A : next'[x] \in A \cup {NULL}
    BY <1>7, <1>8, <1>10 DEF Sides
  <2> QED
    BY <1>7, <1>11, <2>1, <2>2 DEF Sides
<1>15. Fetching'
  <2>1. ASSUME NEW p \in Pos, Fetched(p)' PROVE next'[Held(p)'] = Behind(p)'
    <3>1. p # b /\ Fetched(p) /\ Held(p)' = Held(p) /\ Behind(p)' = Behind(p)
      BY <1>3, <1>6, <2>1 DEF Still, Steady
    <3>2. Held(p) # prev /\ next[Held(p)] = Behind(p)
      BY <1>7, <1>9, <3>1 DEF Fetching, Sides, Apart, Fetched
    <3> QED
      BY <1>1, <3>1, <3>2 DEF LinkPrevious, QueueTypes
  <2> QED
    BY <2>1 DEF Fetching
<1>16. Ends(A)'
  <2>1. \A p \in Pos \ {b} : Before(p)' = Before(p) /\ Before(p) # prev
    BY <1>3, <1>9 DEF Still, Steady
  <2>2. ASSUME NEW r \in Queues, items_tail'[r] # NULL
        PROVE  /\ items_tail'[r] \in A /\ next'[items_tail'[r]] = NULL
               /\ \A p \in Pos : Before(p)' # items_tail'[r]
               /\ \A s \in Queues : items_tail'[s] = items_tail'[r] => s = r
    BY <1>6, <1>7, <1>9, <1>10, <1>11, <2>1, <2>2 DEF Ends
  <2>3. ASSUME NEW p \in Pos, Before(p)' # NULL
        PROVE  /\ Before(p)' \in A /\ next'[Before(p)'] = NULL
               /\ \A r \in Pos : Before(r)' = Before(p)' => r = p
    BY <1>6, <1>7, <1>10, <2>1, <2>3 DEF Ends
  <2> QED
    BY <2>2, <2>3 DEF Ends
<1>17. \A r \in Pos : Rest(r)' = Rest(r) /\ Asking(r)' \in {Asking(r), NULL}
  BY <1>3, <1>5, <1>6 DEF Still
<1>18. \A x \in Objects : Nowhere(A, x) => next'[x] = next[x]
  BY <1>9, <1>10 DEF Nowhere
<1> QED
  BY <1>11, <1>12, <1>13, <1>14, <1>15, <1>16, <1>17, <1>18, Moved

LEMMA PublishesHead ==
    ASSUME QueueTypes, NEW A \in SUBSET Objects, Places(A), NEW t \in Threads, PublishHead(t)
    PROVE  QueueTypes' /\ Places(A)'
<1> USE DEF SameLists, SameLocks, lists, counts, refs, blocks
<1>1. PICK b, f, o, q : b = TopOf(t) /\ f = Top(t) /\ o = f.o /\ q = f.q
  OBVIOUS
<1>2. stack[t] # <<>> /\ f.at = "publish"
  BY <1>1, AtTop DEF PublishHead
<1>3. o \in Objects /\ q \in Queues
  <2>1. f \in PublishFrame
    BY <1>1, <1>2, TopFrame, FrameKinds
  <2> QED
    BY <1>1, <2>1 DEF PublishFrame
<1>4. PICK g \in StackFrame : Bare(g) /\ \E w \in StackFrame : Bare(w) /\ Become(t, <<w, g>>)
  <2>1. PICK g, w : g = Frame("release", q, NULL) /\ w = Frame("wakeup", q, NULL)
    OBVIOUS
  <2>2. g \in StackFrame /\ Bare(g) /\ w \in StackFrame /\ Bare(w)
    BY <1>3, <2>1, BareFrames DEF BareAts
  <2>3. <<w>> \o <<g>> = <<w, g>>
    BY Concatenations
  <2>4. Become(t, <<w>> \o <<g>>)
    BY <1>1, <2>1 DEF PublishHead, Wakeup, Release
  <2> QED
    BY <2>2, <2>3, <2>4
<1>5. /\ stack' \in [Threads -> Seq(StackFrame)]
      /\ b \in Pos /\ f \in StackFrame /\ Is(b, f) /\ IsNow(b, g)
      /\ \A r \in Pos \ {b} : Still(r)
  BY <1>1, <1>2, <1>4, OneFrame
<1>6. /\ Invoked(b) = NULL /\ Held(b) = o /\ Behind(b) = NULL /\ Before(b) = NULL
      /\ Asking(b) = NULL /\ Rest(b) = <<>> /\ ~Fetched(b) /\ ~Apart(b)
  BY <1>1, <1>2, <1>5, Attributes DEF Is
<1>7. /\ Invoked(b)' = NULL /\ Held(b)' = NULL /\ Behind(b)' = NULL /\ Before(b)' = NULL
      /\ Asking(b)' = NULL /\ Rest(b)' = <<>> /\ ~Fetched(b)' /\ ~Apart(b)'
  BY <1>4, <1>5 DEF IsNow, Bare
<1>8. /\ OneSlot(A) /\ Sides(A) /\ Fetching /\ Ends(A)
  BY DEF Places
<1>9. o \in A
  BY <1>3, <1>5, <1>6, <1>8, NullIsNone DEF Sides
<1>10. /\ items_head' \in [Queues -> Maybe] /\ items_head'[q] = o
       /\ \A r \in Queues \ {q} : items_head'[r] = items_head[r]
  BY <1>1, <1>3 DEF PublishHead, QueueTypes, Maybe
<1>11. UNCHANGED <<use, items_tail, next, root, suspend_cnt, targetq, sema, begun>>
  BY DEF PublishHead
<1>12. QueueTypes'
  BY <1>5, <1>10, <1>11 DEF QueueTypes
<1>13. OneSlot(A)' /\ \A x \in Objects : Out(A, x) => Out(A, x)'
  <2>1. <<"held", b>> \in Slot /\ <<"head", q>> \in Slot /\ <<"held", b>> # <<"head", q>>
    BY <1>3, <1>5, SlotKinds
  <2>2. In(A, <<"head", q>>)' = In(A, <<"held", b>>) /\ In(A, <<"held", b>>)' \notin Objects
    <3>1. In(A, <<"head", q>>)' = o
      BY <1>3, <1>10, SlotValuesNext
    <3>2. In(A, <<"held", b>>) = o
      BY <1>5, <1>6, SlotValues
    <3>3. In(A, <<"held", b>>)' = NULL
      BY <1>5, <1>7, SlotValuesNext
    <3> QED
      BY <3>1, <3>2, <3>3, NullIsNone
  <2>3. \A p \in Pos : /\ Loses(A, A, <<"invoked", p>>)
                       /\ p # b => Loses(A, A, <<"held", p>>)
                       /\ Loses(A, A, <<"behind", p>>)
    BY <1>5, <1>6, <1>7 DEF In, Loses, Still, Steady
  <2>4. /\ \A r \in Queues \ {q} : Loses(A, A, <<"head", r>>)
        /\ \A x \in Objects : Loses(A, A, <<"next", x>>)
        /\ \A i \in Nat \ {0} : Loses(A, A, <<"root", i>>)
    BY <1>10, <1>11 DEF In, Loses
  <2>5. \A s \in Slot \ {<<"held", b>>, <<"head", q>>} : Loses(A, A, s)
    BY <2>3, <2>4, SlotKinds
  <2> QED
    BY <1>8, <2>1, <2>2, <2>5, SlotMove
<1>14. Sides(A)'
  <2>1. \A p \in Pos : /\ Invoked(p)' \notin A
                       /\ Behind(p)' \in A \cup {NULL}
                       /\ Apart(p)' => Held(p)' \notin A
                       /\ ~Apart(p)' => Held(p)' \in A \cup {NULL}
    BY <1>5, <1>7, <1>8, NullIsNone DEF Sides, Still, Steady
  <2>2. \A r \in Queues : items_head'[r] \in A \cup {NULL}
    BY <1>8, <1>9, <1>10 DEF Sides
  <2> QED
    BY <1>8, <1>11, <2>1, <2>2 DEF Sides
<1>15. Fetching'
  BY <1>5, <1>7, <1>8, <1>11 DEF Fetching, Still, Steady
<1>16. Ends(A)'
  <2>1. \A p \in Pos : Before(p)' = Before(p)
    BY <1>5, <1>6, <1>7 DEF Still, Steady
  <2> QED
    BY <1>8, <1>11, <2>1 DEF Ends
<1>17. \A r \in Pos : Rest(r)' = Rest(r) /\ Asking(r)' \in {Asking(r), NULL}
  BY <1>5, <1>6, <1>7 DEF Still
<1> QED
  BY <1>8, <1>11, <1>12, <1>13, <1>14, <1>15, <1>16, <1>17, Moved

\* A queue that takes part in nothing is locked and pushed.
LEMMA WakeupLocks ==
    ASSUME QueueTypes, NEW A \in SUBSET Objects, Places(A), NEW t \in Threads, WakeupTrylock(t)
    PROVE  QueueTypes' /\ Places(A)'
<1> USE DEF SameLists, SameLocks, lists, counts, refs, blocks
<1>1. PICK b, f, q : b = TopOf(t) /\ f = Top(t) /\ q = f.q
  OBVIOUS
<1>2. stack[t] # <<>> /\ f.at = "wakeup_trylock" /\ f.at \in BareAts
  BY <1>1, AtTop DEF WakeupTrylock, BareAts
<1>3. q \in Queues /\ q \in Objects /\ q \notin Calls
  <2>1. f \in BareFrame
    BY <1>1, <1>2, TopFrame, FrameKinds
  <2> QED
    BY <1>1, <2>1, RootAssumption DEF BareFrame, Objects
<1>4. SameLists /\ UNCHANGED <<use, begun, sema, targetq>>
  BY DEF WakeupTrylock
<1>5. CASE ~LockIsFree(q)
  <2>1. Become(t, <<>>) /\ suspend_cnt' = suspend_cnt
    BY <1>1, <1>5 DEF WakeupTrylock, Return
  <2>2. stack' \in [Threads -> Seq(StackFrame)] /\ Places(A)'
    BY <1>1, <1>2, <1>4, <2>1, BareStep
  <2> QED
    BY <1>4, <2>1, <2>2, SameTypes DEF QueueTypes
<1>6. CASE LockIsFree(q)
  <2>1. PICK g : g = Frame("push", targetq[q], q)
    OBVIOUS
  <2>2. /\ Become(t, <<g>>) /\ suspend_cnt' = [suspend_cnt EXCEPT ![q] = 1]
    BY <1>1, <1>6, <2>1 DEF WakeupTrylock, Push
  <2>3. /\ g \in StackFrame
        /\ QOf(g) = NULL /\ OOf(g) = q /\ NOf(g) = NULL /\ PrevOf(g) = NULL
        /\ CallOf(g) = NULL /\ RestOf(g) = <<>> /\ g.at = "push" /\ g.at \notin FetchedAts
    <3>1. targetq[q] \in Targets
      BY <1>3 DEF QueueTypes
    <3> QED
      BY <1>3, <2>1, <3>1, PushFrames DEF FetchedAts
  <2>4. /\ stack' \in [Threads -> Seq(StackFrame)]
        /\ b \in Pos /\ f \in StackFrame /\ Is(b, f) /\ IsNow(b, g)
        /\ \A r \in Pos \ {b} : Still(r)
    BY <1>1, <1>2, <2>2, <2>3, OneFrame
  <2>5. /\ Invoked(b) = NULL /\ Held(b) = NULL /\ Behind(b) = NULL /\ Before(b) = NULL
        /\ Asking(b) = NULL /\ Rest(b) = <<>>
    BY <1>2, <2>4, BareTop DEF Is, Bare
  <2>6. /\ Invoked(b)' = NULL /\ Held(b)' = q /\ Behind(b)' = NULL /\ Before(b)' = NULL
        /\ Asking(b)' = NULL /\ Rest(b)' = <<>> /\ ~Fetched(b)' /\ Apart(b)'
    BY <2>3, <2>4 DEF IsNow
  <2>7. suspend_cnt[q] = 0
    BY <1>6 DEF LockIsFree
  <2>8. Nowhere(A, q)
    BY <1>3, <2>7 DEF Places, Locks
  <2>9. \A r \in Pos \ {b} : Steady(r)
    BY <2>4 DEF Still
  <2>10. /\ OneSlot(A)' /\ Sides(A)' /\ Fetching' /\ Ends(A)'
         /\ \A x \in Objects \ {q} : Nowhere(A, x) => Nowhere(A, x)'
    BY <1>3, <1>4, <2>4, <2>5, <2>6, <2>8, <2>9, PushAppears DEF Places
  <2>11. suspend_cnt' \in [Queues -> Int] /\ suspend_cnt'[q] % 2 = 1
    BY <1>3, <2>2 DEF QueueTypes
  <2>12. Locks(A)'
    <3>1. \A r \in Queues \ {q} : suspend_cnt'[r] = suspend_cnt[r]
      BY <2>2 DEF QueueTypes
    <3> QED
      BY <1>4, <2>10, <2>11, <3>1 DEF Places, Locks, Objects
  <2>13. Popped(A)'
    BY <1>3, <1>4, <2>10 DEF Places, Popped, Objects
  <2>14. ToCome(A)'
    <3>1. \A r \in Pos : Rest(r)' = Rest(r) /\ Asking(r)' \in {Asking(r), NULL}
      BY <2>4, <2>5, <2>6 DEF Still
    <3>2. \A s \in Turn : Due(s)' = Due(s) \/ Due(s)' \notin Calls
      BY <1>4, <3>1, SameTurns
    <3>3. \A c \in Calls : Nowhere(A, c) /\ next[c] = LISTLESS /\ c \notin begun /\ sema[c] = 0 =>
              c \notin begun' /\ sema'[c] = 0 /\ next'[c] = LISTLESS /\ Nowhere(A, c)'
      BY <1>3, <1>4, <2>10 DEF Objects
    <3> QED
      BY <3>2, <3>3, StillToCome DEF Places
  <2> QED
    BY <1>4, <2>4, <2>10, <2>11, <2>12, <2>13, <2>14 DEF Places, QueueTypes
<1> QED
  BY <1>5, <1>6
-----------------------------------------------------------------------------
(* Workers. *)

\* The first object of the global queue is taken, and perhaps invoked at b.
LEMMA RootTaken ==
    ASSUME QueueTypes, NEW A \in SUBSET Objects, OneSlot(A), Sides(A), Fetching, Ends(A),
           root # <<>>, NEW o, o = Head(root), root' = Tail(root),
           UNCHANGED <<items_tail, items_head, next>>,
           NEW b \in Pos, Invoked(b)' \in {NULL, o},
           \A r \in Pos \ {b} : Invoked(r)' = Invoked(r),
           \A r \in Pos : /\ Held(r)' = Held(r) /\ Behind(r)' = Behind(r) /\ Before(r)' = Before(r)
                          /\ (Fetched(r)' <=> Fetched(r)) /\ (Apart(r)' <=> Apart(r))
    PROVE  /\ OneSlot(A)' /\ Sides(A)' /\ Fetching' /\ Ends(A)'
           /\ \A x \in Objects : Out(A, x) => Out(A, x)'
           /\ Invoked(b)' # o => Out(A, o)'
           /\ o \in Objects /\ ~Out(A, o) /\ root' \in Seq(Objects)
<1>0. root' \in Seq(Objects) /\ Len(root') \in Nat
  BY HeadTailProperties DEF QueueTypes
<1>1. PICK n \in Nat : n = Len(root')
  BY <1>0
<1>2. /\ root \in Seq(Objects) /\ root' \in Seq(Objects) /\ Len(root) = n + 1 /\ o = root[1]
      /\ \A i \in 1 .. n : root'[i] = root[i + 1]
  BY <1>1, HeadTailProperties DEF QueueTypes
<1>3. o \in Objects /\ o \notin A
  BY <1>2 DEF Sides
<1>4. <<"root", 1>> \in Slot /\ In(A, <<"root", 1>>) = o
  BY <1>2, SlotKinds, SlotValues
<1> DEFINE From(s, r) ==
              IF \E i \in Nat \ {0} : s = <<"root", i>>
              THEN \E i \in Nat \ {0} : s = <<"root", i>> /\ r = <<"root", i + 1>>
              ELSE IF s = <<"invoked", b>> THEN r = <<"root", 1>> ELSE r = s
<1>5. ASSUME NEW s \in Slot, In(A, s)' \in Objects
      PROVE  \E r \in Slot : From(s, r) /\ In(A, r) = In(A, s)'
  <2>1. ASSUME NEW i \in Nat \ {0}, s = <<"root", i>>
        PROVE  \E r \in Slot : From(s, r) /\ In(A, r) = In(A, s)'
    <3>1. i <= n /\ In(A, s)' = root'[i]
      BY <1>1, <1>5, <2>1, SlotValuesNext, NullIsNone
    <3>2. i + 1 \in Nat \ {0} /\ i + 1 <= Len(root) /\ root'[i] = root[i + 1]
      BY <1>2, <3>1
    <3>3. <<"root", i + 1>> \in Slot /\ In(A, <<"root", i + 1>>) = root[i + 1]
      BY <3>2, SlotKinds, SlotValues
    <3>4. From(s, <<"root", i + 1>>)
      BY <2>1
    <3> HIDE DEF From
    <3> QED
      BY <3>1, <3>2, <3>3, <3>4
  <2>2. CASE s = <<"invoked", b>>
    <3>1. From(s, <<"root", 1>>)
      BY <2>2
    <3>2. In(A, s)' = Invoked(b)'
      BY <2>2, SlotValuesNext
    <3> HIDE DEF From
    <3> QED
      BY <1>4, <1>5, <3>1, <3>2, NullIsNone
  <2>3. CASE s # <<"invoked", b>> /\ \A i \in Nat \ {0} : s # <<"root", i>>
    <3>1. From(s, s)
      BY <2>3
    <3>2. \A p \in Pos : s = <<"invoked", p>> => In(A, s)' = In(A, s)
      BY <2>3 DEF In
    <3>3. \A p \in Pos : s \in {<<"held", p>>, <<"behind", p>>} => In(A, s)' = In(A, s)
      BY DEF In
    <3>4. (\E q \in Queues : s = <<"head", q>>) \/ (\E x \in Objects : s = <<"next", x>>) =>
              In(A, s)' = In(A, s)
      BY DEF In
    <3>5. In(A, s)' = In(A, s)
      BY <2>3, <3>2, <3>3, <3>4, SlotKinds
    <3> HIDE DEF From
    <3> QED
      BY <3>1, <3>5
  <2> QED
    BY <2>1, <2>2, <2>3
<1>6. ASSUME NEW r \in Slot, NEW s \in Slot, NEW z, From(r, z), From(s, z)
      PROVE  r = s
  <2>1. CASE \E i \in Nat \ {0} : r = <<"root", i>>
    <3>1. PICK i \in Nat \ {0} : r = <<"root", i>> /\ z = <<"root", i + 1>>
      BY <2>1, <1>6
    <3>2. CASE \E j \in Nat \ {0} : s = <<"root", j>>
      <4>1. PICK j \in Nat \ {0} : s = <<"root", j>> /\ z = <<"root", j + 1>>
        BY <3>2, <1>6
      <4>2. i + 1 = j + 1
        BY <3>1, <4>1
      <4> QED
        BY <3>1, <4>1, <4>2
    <3>3. CASE ~\E j \in Nat \ {0} : s = <<"root", j>>
      <4>1. z = <<"root", 1>> \/ z = s
        BY <3>3, <1>6
      <4>2. i + 1 # 1 /\ i + 1 \in Nat \ {0}
        OBVIOUS
      <4> QED
        BY <3>1, <3>3, <4>1, <4>2
    <3> QED
      BY <3>2, <3>3
  <2>2. CASE ~\E i \in Nat \ {0} : r = <<"root", i>>
    <3>1. CASE \E j \in Nat \ {0} : s = <<"root", j>>
      <4>1. PICK j \in Nat \ {0} : s = <<"root", j>> /\ z = <<"root", j + 1>>
        BY <3>1, <1>6
      <4>2. z = <<"root", 1>> \/ z = r
        BY <2>2, <1>6
      <4>3. j + 1 # 1 /\ j + 1 \in Nat \ {0}
        OBVIOUS
      <4> QED
        BY <2>2, <4>1, <4>2, <4>3
    <3>2. CASE ~\E j \in Nat \ {0} : s = <<"root", j>>
      <4>1. z = (IF r = <<"invoked", b>> THEN <<"root", 1>> ELSE r)
        BY <2>2, <1>6
      <4>2. z = (IF s = <<"invoked", b>> THEN <<"root", 1>> ELSE s)
        BY <3>2, <1>6
      <4>3. r # <<"root", 1>> /\ s # <<"root", 1>>
        BY <2>2, <3>2
      <4> QED
        BY <4>1, <4>2, <4>3
    <3> QED
      BY <3>1, <3>2
  <2> QED
    BY <2>1, <2>2
<1>7. ASSUME NEW s \in Slot, From(s, <<"root", 1>>), In(A, s)' \in Objects PROVE s = <<"invoked", b>>
  <2>1. \A i \in Nat \ {0} : <<"root", 1>> # <<"root", i + 1>>
    <3>1. \A i \in Nat \ {0} : i + 1 # 1
      OBVIOUS
    <3> QED
      BY <3>1
  <2>2. CASE \E i \in Nat \ {0} : s = <<"root", i>>
    BY <2>1, <2>2, <1>7
  <2>3. CASE ~\E i \in Nat \ {0} : s = <<"root", i>>
    <3>1. s # <<"root", 1>>
      BY <2>3
    <3> QED
      BY <2>3, <3>1, <1>7
  <2> QED
    BY <2>2, <2>3
<1> HIDE DEF From
<1>8. OneSlot(A)'
  <2>1. ASSUME NEW r \in Slot, NEW s \in Slot, In(A, r)' = In(A, s)', In(A, s)' \in Objects
        PROVE  r = s
    <3>1. PICK y \in Slot : From(r, y) /\ In(A, y) = In(A, r)'
      BY <1>5, <2>1
    <3>2. PICK z \in Slot : From(s, z) /\ In(A, z) = In(A, s)'
      BY <1>5, <2>1
    <3>3. y = z
      BY <2>1, <3>1, <3>2 DEF OneSlot
    <3> QED
      BY <1>6, <3>1, <3>2, <3>3
  <2> QED
    BY <2>1 DEF OneSlot
<1>9. \A x \in Objects : Out(A, x) => Out(A, x)'
  BY <1>5 DEF Out
<1>10. ASSUME Invoked(b)' # o PROVE Out(A, o)'
  <2>1. SUFFICES ASSUME NEW s \in Slot, In(A, s)' = o PROVE FALSE
    BY DEF Out
  <2>2. PICK z \in Slot : From(s, z) /\ In(A, z) = o
    BY <1>3, <1>5, <2>1
  <2>3. z = <<"root", 1>>
    BY <1>3, <1>4, <2>2 DEF OneSlot
  <2>4. s = <<"invoked", b>>
    BY <1>3, <1>7, <2>1, <2>2, <2>3
  <2>5. In(A, s)' = Invoked(b)'
    BY <2>4, SlotValuesNext
  <2> QED
    BY <1>10, <2>1, <2>5
<1>11. Sides(A)'
  <2>1. \A p \in Pos : /\ Invoked(p)' \notin A
                       /\ Behind(p)' \in A \cup {NULL}
                       /\ Apart(p)' => Held(p)' \notin A
                       /\ ~Apart(p)' => Held(p)' \in A \cup {NULL}
    BY <1>3, NullIsNone DEF Sides
  <2>2. ASSUME NEW i \in 1 .. Len(root') PROVE root'[i] \notin A
    <3>1. i \in 1 .. n /\ i + 1 \in 1 .. Len(root)
      BY <1>1, <1>2
    <3> QED
      BY <1>2, <3>1 DEF Sides
  <2> QED
    BY <2>1, <2>2 DEF Sides
<1>12. Fetching' /\ Ends(A)'
  BY DEF Fetching, Ends
<1>13. ~Out(A, o)
  BY <1>4 DEF Out
<1> QED
  BY <1>2, <1>3, <1>8, <1>9, <1>10, <1>11, <1>12, <1>13

LEMMA TakesFromRoot ==
    ASSUME QueueTypes, NEW A \in SUBSET Objects, Places(A), NEW t \in Threads, TakeFromRoot(t)
    PROVE  QueueTypes' /\ Places(A)'
<1> USE DEF SameLists, SameLocks, lists, counts, refs, blocks
<1>1. PICK b, o : b = <<t, 0>> /\ o = Head(root)
  OBVIOUS
<1>2. /\ stack[t] = <<>> /\ root # <<>> /\ root' = Tail(root) /\ b \in Pos
      /\ UNCHANGED <<use, items_tail, items_head, next, suspend_cnt, targetq, sema>>
  BY <1>1 DEF TakeFromRoot, Pos
<1>3. /\ OneSlot(A) /\ Sides(A) /\ Fetching /\ Ends(A)
  BY DEF Places
<1>4. o \in Objects
  BY <1>1, <1>2 DEF QueueTypes
<1>5. CASE o \in Queues
  <2>1. PICK g : g = Drain("invoke", o, targetq[o], NULL, NULL)
    OBVIOUS
  <2>2. g \in DrainFrame /\ g.at = "invoke" /\ g.q = o /\ g \in StackFrame
    <3>1. targetq[o] \in Targets
      BY <1>5 DEF QueueTypes
    <3>2. g \in DrainFrame /\ g.at = "invoke" /\ g.q = o
      BY <1>5, <2>1, <3>1 DEF Drain, DrainFrame, EmptyAts, Maybe
    <3> QED
      BY <3>2 DEF StackFrame, HoldAts, FetchedAts
  <2>3. stack' = [stack EXCEPT ![t] = <<g>>] /\ begun' = begun
    BY <1>1, <1>5, <2>1 DEF TakeFromRoot
  <2>4. /\ stack' \in [Threads -> Seq(StackFrame)] /\ Makes(b, g, Nothing, Nothing)
        /\ Fr(b) = Nothing /\ Fr(Up(b)) = Nothing /\ Fr(Up(Up(b))) = Nothing
    <3>0. <<g>> \in Seq(StackFrame)
      BY <2>2
    <3>1. PICK fs \in Seq(StackFrame) : fs = <<g>>
      BY <3>0
    <3>2. Len(fs) = 1 /\ Len(fs) <= 3 /\ fs[1] = g /\ stack' = [stack EXCEPT ![t] = fs]
      BY <2>3, <3>1
    <3> HIDE <3>1
    <3>3. /\ stack' \in [Threads -> Seq(StackFrame)]
          /\ Makes(<<t, 0>>, IF Len(fs) > 0 THEN fs[Len(fs)] ELSE Nothing,
                             IF Len(fs) > 1 THEN fs[Len(fs) - 1] ELSE Nothing,
                             IF Len(fs) > 2 THEN fs[Len(fs) - 2] ELSE Nothing)
          /\ Fr(<<t, 0>>) = Nothing /\ Fr(Up(<<t, 0>>)) = Nothing /\ Fr(Up(Up(<<t, 0>>))) = Nothing
      BY <1>2, <3>2, StackStarts
    <3> QED
      BY <1>1, <3>2, <3>3
  <2>5. /\ \A r \in Pos \ {b} : Still(r)
        /\ IsNow(b, g)
    BY <2>4, Making, NothingIsBare
  <2>6. /\ Invoked(b) = NULL /\ Held(b) = NULL /\ Behind(b) = NULL /\ Before(b) = NULL
        /\ Asking(b) = NULL /\ Rest(b) = <<>> /\ ~Fetched(b) /\ ~Apart(b)
    BY <2>4, NothingIsBare DEF Bare, Asking, Rest, Invoked, Held, Behind, Before, Fetched, Apart
  <2>7. /\ Invoked(b)' = o /\ Held(b)' = NULL /\ Behind(b)' = NULL /\ Before(b)' = NULL
        /\ Asking(b)' = NULL /\ Rest(b)' = <<>> /\ ~Fetched(b)' /\ ~Apart(b)'
    BY <2>2, <2>5, DrainFrames DEF IsNow, EmptyAts, HoldAts, FetchedAts
  <2>8. /\ \A r \in Pos \ {b} : Invoked(r)' = Invoked(r)
        /\ \A r \in Pos : /\ Held(r)' = Held(r) /\ Behind(r)' = Behind(r) /\ Before(r)' = Before(r)
                          /\ (Fetched(r)' <=> Fetched(r)) /\ (Apart(r)' <=> Apart(r))
    BY <2>5, <2>6, <2>7 DEF Still, Steady
  <2>9. /\ OneSlot(A)' /\ Sides(A)' /\ Fetching' /\ Ends(A)'
        /\ \A x \in Objects : Out(A, x) => Out(A, x)'
        /\ root' \in Seq(Objects)
    BY <1>1, <1>2, <1>3, <2>7, <2>8, RootTaken
  <2>10. \A r \in Pos : Rest(r)' = Rest(r) /\ Asking(r)' \in {Asking(r), NULL}
    BY <2>5, <2>6, <2>7 DEF Still
  <2>11. Places(A)'
    BY <1>2, <2>3, <2>9, <2>10, Moved
  <2> QED
    BY <1>2, <2>3, <2>4, <2>9, <2>11 DEF QueueTypes
<1>6. CASE o \notin Queues
  <2>1. o \in Calls
    BY <1>4, <1>6 DEF Objects
  <2>2. PICK e, g, h : e = Run(o) /\ g = Frame("running_sub", U.q[o], NULL)
                       /\ h = Frame("release", U.q[o], NULL)
    OBVIOUS
  <2>3. /\ begun' = begun \cup {o}
        /\ \/ U.q[o] = ROOT /\ stack' = [stack EXCEPT ![t] = <<e>>]
           \/ U.q[o] # ROOT /\ stack' = [stack EXCEPT ![t] = <<e, g, h>>]
    <3>1. <<e>> \o <<>> = <<e>> /\ <<e>> \o <<g, h>> = <<e, g, h>> /\ <<g>> \o <<h>> = <<g, h>>
      BY Concatenations
    <3>2. /\ begun' = begun \cup {o}
          /\ stack' = [stack EXCEPT ![t] = <<e>> \o IF U.q[o] = ROOT THEN <<>> ELSE <<g>> \o <<h>>]
      BY <1>1, <1>6, <2>2 DEF TakeFromRoot, Release
    <3> QED
      BY <3>1, <3>2
  <2>4. e \in StackFrame /\ RestOf(e) = U.body[o]
    BY <2>1, <2>2, RunFrames
  <2>5. PICK y \in Pos : /\ stack' \in [Threads -> Seq(StackFrame)]
                         /\ \A r \in Pos \ {y} : Still(r)
                         /\ IsNow(y, e)
                         /\ Fr(y) = Nothing
    <3>1. CASE U.q[o] = ROOT /\ stack' = [stack EXCEPT ![t] = <<e>>]
      <4>0. <<e>> \in Seq(StackFrame)
        BY <2>4
      <4>1. PICK fs \in Seq(StackFrame) : fs = <<e>>
        BY <4>0
      <4>2. Len(fs) = 1 /\ Len(fs) <= 3 /\ fs[1] = e /\ stack' = [stack EXCEPT ![t] = fs]
        BY <3>1, <4>1
      <4> HIDE <4>1
      <4>3. /\ stack' \in [Threads -> Seq(StackFrame)]
            /\ Makes(<<t, 0>>, IF Len(fs) > 0 THEN fs[Len(fs)] ELSE Nothing,
                               IF Len(fs) > 1 THEN fs[Len(fs) - 1] ELSE Nothing,
                               IF Len(fs) > 2 THEN fs[Len(fs) - 2] ELSE Nothing)
            /\ Fr(<<t, 0>>) = Nothing /\ Fr(Up(<<t, 0>>)) = Nothing /\ Fr(Up(Up(<<t, 0>>))) = Nothing
        BY <1>2, <4>2, StackStarts
      <4>4. /\ stack' \in [Threads -> Seq(StackFrame)] /\ Makes(b, e, Nothing, Nothing)
            /\ Fr(b) = Nothing /\ Fr(Up(b)) = Nothing /\ Fr(Up(Up(b))) = Nothing
        BY <1>1, <4>2, <4>3
      <4>5. (\A r \in Pos \ {b} : Still(r)) /\ IsNow(b, e)
        BY <4>4, Making, NothingIsBare
      <4> QED
        BY <1>2, <4>4, <4>5
    <3>2. CASE U.q[o] # ROOT /\ stack' = [stack EXCEPT ![t] = <<e, g, h>>]
      <4>1. U.q[o] \in Queues
        BY <2>1, <3>2, UseTypes DEF IsUse
      <4>2. g \in StackFrame /\ Bare(g) /\ h \in StackFrame /\ Bare(h)
        BY <2>2, <4>1, BareFrames DEF BareAts
      <4>3. <<e, g, h>> \in Seq(StackFrame)
        BY <2>4, <4>2
      <4>4. PICK fs \in Seq(StackFrame) : fs = <<e, g, h>>
        BY <4>3
      <4>5. Len(fs) = 3 /\ Len(fs) <= 3 /\ fs[1] = e /\ fs[2] = g /\ fs[3] = h
            /\ stack' = [stack EXCEPT ![t] = fs]
        BY <3>2, <4>4
      <4> HIDE <4>4
      <4>6. /\ stack' \in [Threads -> Seq(StackFrame)]
            /\ Makes(<<t, 0>>, IF Len(fs) > 0 THEN fs[Len(fs)] ELSE Nothing,
                               IF Len(fs) > 1 THEN fs[Len(fs) - 1] ELSE Nothing,
                               IF Len(fs) > 2 THEN fs[Len(fs) - 2] ELSE Nothing)
            /\ Fr(<<t, 0>>) = Nothing /\ Fr(Up(<<t, 0>>)) = Nothing /\ Fr(Up(Up(<<t, 0>>))) = Nothing
        BY <1>2, <4>5, StackStarts
      <4>7. /\ stack' \in [Threads -> Seq(StackFrame)] /\ Makes(b, h, g, e)
            /\ Fr(b) = Nothing /\ Fr(Up(b)) = Nothing /\ Fr(Up(Up(b))) = Nothing
        BY <1>1, <4>5, <4>6
      <4>8. /\ \A r \in Pos \ {b, Up(b), Up(Up(b))} : Still(r)
            /\ Still(Up(b))
            /\ IsNow(Up(Up(b)), e) /\ Up(Up(b)) \in Pos
        BY <4>2, <4>7, Making
      <4>9. Still(b)
        BY <4>2, <4>7, BareIsStill, NothingIsBare DEF Makes
      <4> QED
        BY <4>7, <4>8, <4>9
    <3> QED
      BY <2>3, <3>1, <3>2
  <2>6. /\ Invoked(y) = NULL /\ Held(y) = NULL /\ Behind(y) = NULL /\ Before(y) = NULL
        /\ Asking(y) = NULL /\ Rest(y) = <<>> /\ ~Fetched(y) /\ ~Apart(y)
    BY <2>5, NothingIsBare DEF Bare, Asking, Rest, Invoked, Held, Behind, Before, Fetched, Apart
  <2>7. /\ Invoked(y)' = NULL /\ Held(y)' = NULL /\ Behind(y)' = NULL /\ Before(y)' = NULL
        /\ Asking(y)' = NULL /\ Rest(y)' = U.body[o] /\ ~Fetched(y)' /\ ~Apart(y)'
    BY <2>1, <2>2, <2>5, RunFrames DEF IsNow
  <2>8. /\ \A r \in Pos \ {y} : Invoked(r)' = Invoked(r)
        /\ \A r \in Pos : /\ Held(r)' = Held(r) /\ Behind(r)' = Behind(r) /\ Before(r)' = Before(r)
                          /\ (Fetched(r)' <=> Fetched(r)) /\ (Apart(r)' <=> Apart(r))
    BY <2>5, <2>6, <2>7 DEF Still, Steady
  <2>9. Invoked(y)' # o
    BY <2>1, <2>7, NullIsNone
  <2>10. /\ OneSlot(A)' /\ Sides(A)' /\ Fetching' /\ Ends(A)'
         /\ \A x \in Objects : Out(A, x) => Out(A, x)'
         /\ Out(A, o)' /\ ~Out(A, o) /\ root' \in Seq(Objects)
    BY <1>1, <1>2, <1>3, <2>7, <2>8, <2>9, RootTaken
  <2>11. o \notin A
    <3>1. 1 \in 1 .. Len(root) /\ root[1] = o
      BY <1>1, <1>2 DEF QueueTypes
    <3> QED
      BY <1>3, <3>1 DEF Sides
  <2>12. Nowhere(A, o)' /\ \A x \in Objects : Nowhere(A, x) => Nowhere(A, x)'
    BY <2>10, <2>11 DEF Nowhere, Out
  <2>13. o \notin begun /\ sema[o] # 1
    <3>1. ~Nowhere(A, o)
      BY <2>10 DEF Nowhere, Out
    <3> QED
      BY <2>1, <3>1 DEF Places, Popped
  <2>14. sema[o] = 0
    BY <2>1, <2>13 DEF QueueTypes
  <2>15. Locks(A)'
    BY <1>2, <2>12 DEF Places, Locks, Objects
  <2>16. Popped(A)'
    BY <1>2, <2>3, <2>12, <2>14 DEF Places, Popped, Objects
  <2>17. ToCome(A)'
    <3>1. \A d \in Calls \ {o} : Nowhere(A, d) /\ next[d] = LISTLESS /\ d \notin begun /\ sema[d] = 0 =>
              sema'[d] = 0 /\ next'[d] = LISTLESS /\ Nowhere(A, d)'
      BY <1>2, <2>12 DEF Objects
    <3>2. \A r \in Pos \ {y} : Rest(r)' = Rest(r)
      BY <2>5 DEF Still
    <3>3. \A r \in Pos : Asking(r)' \in {Asking(r), NULL}
      BY <2>5, <2>7 DEF Still
    <3>4. \A s \in Turn : Due(s) # o
      <4>1. ~Nowhere(A, o)
        BY <2>10 DEF Nowhere, Out
      <4> QED
        BY <2>1, <4>1 DEF Places, ToCome
    <3> QED
      BY <1>2, <2>1, <2>3, <2>6, <2>7, <2>13, <3>1, <3>2, <3>3, <3>4, BeginTurns DEF Places
  <2> QED
    BY <1>2, <2>1, <2>3, <2>5, <2>10, <2>15, <2>16, <2>17 DEF Places, QueueTypes
<1> QED
  BY <1>5, <1>6
-----------------------------------------------------------------------------
(* A drainer takes an item off its list. *)

LEMMA DrainsHead ==
    ASSUME QueueTypes, NEW A \in SUBSET Objects, Places(A), NEW t \in Threads, DrainHead(t)
    PROVE  QueueTypes' /\ Places(A)'
<1> USE DEF SameLists, SameLocks, lists, counts, refs, blocks
<1>1. PICK b, f, q, o : b = TopOf(t) /\ f = Top(t) /\ q = f.q /\ o = items_head[q]
  OBVIOUS
<1>2. PICK g : g = [f EXCEPT !.at = "drain_next", !.o = o]
  OBVIOUS
<1>3. stack[t] # <<>> /\ f.at = "drain_head" /\ o # NULL /\ Become(t, <<g>>)
  BY <1>1, <1>2, AtTop DEF DrainHead
<1>4. f \in DrainFrame /\ q \in Queues
  <2>1. f \in DrainFrame
    BY <1>1, <1>3, TopFrame, FrameKinds DEF EmptyAts
  <2> QED
    BY <1>1, <2>1 DEF DrainFrame
<1>5. o \in Objects
  BY <1>1, <1>3, <1>4 DEF QueueTypes, Maybe
<1>6. g \in StackFrame /\ g.at = "drain_next" /\ g.q = q /\ g.o = o
  <2>1. g \in DrainFrame /\ g.at = "drain_next" /\ g.q = q /\ g.o = o
    BY <1>1, <1>2, <1>4, <1>5 DEF DrainFrame, Maybe, HoldAts
  <2> QED
    BY <1>5, <2>1 DEF StackFrame
<1>7. /\ stack' \in [Threads -> Seq(StackFrame)]
      /\ b \in Pos /\ f \in StackFrame /\ Is(b, f) /\ IsNow(b, g)
      /\ \A r \in Pos \ {b} : Still(r)
  BY <1>1, <1>3, <1>6, OneFrame
<1>8. /\ Invoked(b) = q /\ Held(b) = NULL /\ Behind(b) = NULL /\ Before(b) = NULL
      /\ Asking(b) = NULL /\ Rest(b) = <<>> /\ ~Fetched(b) /\ ~Apart(b)
  BY <1>1, <1>3, <1>7, DrainFrames DEF Is, EmptyAts, HoldAts, FetchedAts
<1>9. /\ Invoked(b)' = q /\ Held(b)' = o /\ Behind(b)' = NULL /\ Before(b)' = NULL
      /\ Asking(b)' = NULL /\ Rest(b)' = <<>> /\ ~Fetched(b)' /\ ~Apart(b)'
  BY <1>6, <1>7, DrainFrames DEF IsNow, EmptyAts, HoldAts, FetchedAts
<1>10. /\ OneSlot(A) /\ Sides(A) /\ Fetching /\ Ends(A)
  BY DEF Places
<1>11. o \in A
  BY <1>1, <1>3, <1>4, <1>10 DEF Sides
<1>12. /\ items_head' \in [Queues -> Maybe] /\ items_head'[q] = NULL
       /\ \A r \in Queues \ {q} : items_head'[r] = items_head[r]
  BY <1>1, <1>4 DEF DrainHead, QueueTypes, Maybe
<1>13. UNCHANGED <<use, items_tail, next, root, suspend_cnt, targetq, sema, begun>>
  BY DEF DrainHead
<1>14. QueueTypes'
  BY <1>7, <1>12, <1>13 DEF QueueTypes
<1>15. OneSlot(A)' /\ \A x \in Objects : Out(A, x) => Out(A, x)'
  <2>1. <<"head", q>> \in Slot /\ <<"held", b>> \in Slot /\ <<"head", q>> # <<"held", b>>
    BY <1>4, <1>7, SlotKinds
  <2>2. In(A, <<"held", b>>)' = In(A, <<"head", q>>) /\ In(A, <<"head", q>>)' \notin Objects
    <3>1. In(A, <<"head", q>>)' = NULL
      BY <1>4, <1>12, SlotValuesNext
    <3>2. In(A, <<"head", q>>) = o
      BY <1>1, <1>4, SlotValues
    <3>3. In(A, <<"held", b>>)' = o
      BY <1>7, <1>9, SlotValuesNext
    <3> QED
      BY <3>1, <3>2, <3>3, NullIsNone
  <2>3. \A p \in Pos : /\ Loses(A, A, <<"invoked", p>>)
                       /\ p # b => Loses(A, A, <<"held", p>>)
                       /\ Loses(A, A, <<"behind", p>>)
    BY <1>7, <1>8, <1>9 DEF In, Loses, Still, Steady
  <2>4. /\ \A r \in Queues \ {q} : Loses(A, A, <<"head", r>>)
        /\ \A x \in Objects : Loses(A, A, <<"next", x>>)
        /\ \A i \in Nat \ {0} : Loses(A, A, <<"root", i>>)
    BY <1>12, <1>13 DEF In, Loses
  <2>5. \A s \in Slot \ {<<"head", q>>, <<"held", b>>} : Loses(A, A, s)
    BY <2>3, <2>4, SlotKinds
  <2> QED
    BY <1>10, <2>1, <2>2, <2>5, SlotMove
<1>16. Sides(A)'
  <2>1. \A p \in Pos : /\ Invoked(p)' \notin A
                       /\ Behind(p)' \in A \cup {NULL}
                       /\ Apart(p)' => Held(p)' \notin A
                       /\ ~Apart(p)' => Held(p)' \in A \cup {NULL}
    BY <1>7, <1>8, <1>9, <1>10, <1>11 DEF Sides, Still, Steady
  <2>2. \A r \in Queues : items_head'[r] \in A \cup {NULL}
    BY <1>10, <1>12 DEF Sides
  <2> QED
    BY <1>10, <1>13, <2>1, <2>2 DEF Sides
<1>17. Fetching'
  BY <1>7, <1>9, <1>10, <1>13 DEF Fetching, Still, Steady
<1>18. Ends(A)'
  <2>1. \A p \in Pos : Before(p)' = Before(p)
    BY <1>7, <1>8, <1>9 DEF Still, Steady
  <2> QED
    BY <1>10, <1>13, <2>1 DEF Ends
<1>19. \A r \in Pos : Rest(r)' = Rest(r) /\ Asking(r)' \in {Asking(r), NULL}
  BY <1>7, <1>8, <1>9 DEF Still
<1> QED
  BY <1>10, <1>13, <1>14, <1>15, <1>16, <1>17, <1>18, <1>19, Moved

LEMMA DrainsNext ==
    ASSUME QueueTypes, NEW A \in SUBSET Objects, Places(A), NEW t \in Threads, DrainNext(t)
    PROVE  QueueTypes' /\ \E B \in SUBSET Objects : Relists(t, A, B) /\ Places(B)'
<1> USE DEF SameLists, SameLocks, lists, counts, refs, blocks
<1>1. PICK b, f, q, o, n : b = TopOf(t) /\ f = Top(t) /\ q = f.q /\ o = f.o /\ n = next[o]
  OBVIOUS
<1>2. PICK g : g = [f EXCEPT !.at = "drain_suspended", !.n = n]
  OBVIOUS
<1>3. /\ stack[t] # <<>> /\ f.at = "drain_next" /\ Become(t, <<g>>)
      /\ \/ n # NULL /\ items_tail' = items_tail
         \/ n = NULL /\ items_tail[q] = o /\ items_tail' = [items_tail EXCEPT ![q] = NULL]
  BY <1>1, <1>2, AtTop DEF DrainNext
<1>4. f \in DrainFrame /\ q \in Queues /\ o \in Objects
  <2>1. f \in DrainFrame /\ o \in Objects
    BY <1>1, <1>3, TopFrame, FrameKinds DEF HoldAts
  <2> QED
    BY <1>1, <2>1 DEF DrainFrame
<1>5. /\ OneSlot(A) /\ Sides(A) /\ Fetching /\ Ends(A)
  BY DEF Places
<1>6. b \in Pos /\ f \in StackFrame /\ Is(b, f)
  BY <1>1, <1>3, Becoming DEF Is, Invoked, Held, Behind, Before, Asking, Rest, Fetched, Apart
<1>7. /\ Invoked(b) = q /\ Held(b) = o /\ Behind(b) = NULL /\ Before(b) = NULL
      /\ Asking(b) = NULL /\ Rest(b) = <<>> /\ ~Fetched(b) /\ ~Apart(b)
  BY <1>1, <1>3, <1>6, DrainFrames DEF Is, EmptyAts, HoldAts, FetchedAts
<1>8. /\ o \in A /\ n \in A \cup {NULL} /\ n \in Maybe /\ n # o
      /\ \A r \in Pos \ {b} : Held(r) # o
      /\ \A r \in Pos : Behind(r) # o
      /\ \A r \in Queues : items_head[r] # o
      /\ \A x \in A : next[x] # o
  <2>1. o \in A
    BY <1>4, <1>5, <1>6, <1>7, NullIsNone DEF Sides
  <2>2. /\ \A r \in Pos \ {b} : Held(r) # o
        /\ \A r \in Pos : Behind(r) # o
        /\ \A r \in Queues : items_head[r] # o
        /\ \A x \in A : next[x] # o
    BY <1>4, <1>5, <1>6, <1>7, Elsewhere
  <2> QED
    BY <1>1, <1>5, <2>1, <2>2 DEF Sides, Maybe
<1>9. g \in StackFrame /\ g.at = "drain_suspended" /\ g.q = q /\ g.o = o /\ g.n = n
  <2>1. g \in DrainFrame /\ g.at = "drain_suspended" /\ g.q = q /\ g.o = o /\ g.n = n
    BY <1>1, <1>2, <1>4, <1>8 DEF DrainFrame, Maybe, HoldAts, FetchedAts
  <2> QED
    BY <1>4, <2>1 DEF StackFrame
<1>10. /\ stack' \in [Threads -> Seq(StackFrame)]
       /\ IsNow(b, g)
       /\ \A r \in Pos \ {b} : Still(r)
  BY <1>1, <1>3, <1>9, OneFrame
<1>11. /\ Invoked(b)' = q /\ Held(b)' = o /\ Behind(b)' = n /\ Before(b)' = NULL
       /\ Asking(b)' = NULL /\ Rest(b)' = <<>> /\ Fetched(b)' /\ Apart(b)'
  BY <1>9, <1>10, DrainFrames DEF IsNow, EmptyAts, HoldAts, FetchedAts
<1>12. /\ items_tail' \in [Queues -> Maybe]
       /\ \A r \in Queues : items_tail'[r] # NULL => items_tail'[r] = items_tail[r] /\ items_tail[r] # o
       /\ \A p \in Pos : Before(p) # o
  <2>1. CASE n # NULL /\ items_tail' = items_tail
    <3>1. items_tail' \in [Queues -> Maybe]
      BY <2>1 DEF QueueTypes
    <3>2. \A r \in Queues : items_tail[r] # NULL => items_tail[r] # o
      BY <1>1, <1>5, <2>1 DEF Ends
    <3>3. \A p \in Pos : Before(p) # o
      BY <1>1, <1>4, <1>5, <2>1, NullIsNone DEF Ends
    <3> QED
      BY <2>1, <3>1, <3>2, <3>3
  <2>2. CASE n = NULL /\ items_tail[q] = o /\ items_tail' = [items_tail EXCEPT ![q] = NULL]
    <3>1. /\ items_tail' \in [Queues -> Maybe] /\ items_tail'[q] = NULL
          /\ \A r \in Queues \ {q} : items_tail'[r] = items_tail[r]
      BY <1>4, <2>2 DEF QueueTypes, Maybe
    <3>2. \A p \in Pos : Before(p) # o
      BY <1>4, <1>5, <2>2, NullIsNone DEF Ends
    <3>3. \A r \in Queues \ {q} : items_tail[r] # o
      BY <1>4, <1>5, <2>2, NullIsNone DEF Ends
    <3> QED
      BY <3>1, <3>2, <3>3
  <2> QED
    BY <1>3, <2>1, <2>2
<1>13. UNCHANGED <<use, items_head, next, root, suspend_cnt, targetq, sema, begun>>
  BY DEF DrainNext
<1>14. QueueTypes'
  BY <1>10, <1>12, <1>13 DEF QueueTypes
<1>15. PICK B \in SUBSET Objects : B = A \ {o}
  OBVIOUS
<1>16. OneSlot(B)' /\ \A x \in Objects : Out(A, x) => Out(B, x)'
  <2>1. <<"next", o>> \in Slot /\ <<"behind", b>> \in Slot /\ <<"next", o>> # <<"behind", b>>
    BY <1>4, <1>6, SlotKinds
  <2>2. In(B, <<"behind", b>>)' = In(A, <<"next", o>>) /\ In(B, <<"next", o>>)' \notin Objects
    <3>1. In(B, <<"next", o>>)' = NULL
      BY <1>4, <1>15, SlotValuesNext
    <3>2. In(A, <<"next", o>>) = n
      BY <1>1, <1>4, <1>8, SlotValues
    <3>3. In(B, <<"behind", b>>)' = n
      BY <1>6, <1>11, SlotValuesNext
    <3> QED
      BY <3>1, <3>2, <3>3, NullIsNone
  <2>3. \A p \in Pos : /\ Loses(A, B, <<"invoked", p>>)
                       /\ Loses(A, B, <<"held", p>>)
                       /\ p # b => Loses(A, B, <<"behind", p>>)
    BY <1>7, <1>10, <1>11 DEF In, Loses, Still, Steady
  <2>4. /\ \A r \in Queues : Loses(A, B, <<"head", r>>)
        /\ \A x \in Objects \ {o} : Loses(A, B, <<"next", x>>)
        /\ \A i \in Nat \ {0} : Loses(A, B, <<"root", i>>)
    BY <1>13, <1>15 DEF In, Loses
  <2>5. \A s \in Slot \ {<<"next", o>>, <<"behind", b>>} : Loses(A, B, s)
    BY <2>3, <2>4, SlotKinds
  <2> QED
    BY <1>5, <2>1, <2>2, <2>5, SlotMove
<1>17. Sides(B)'
  <2>1. \A p \in Pos \ {b} : /\ Invoked(p)' \notin B
                             /\ Behind(p)' \in B \cup {NULL}
                             /\ Apart(p)' => Held(p)' \notin B
                             /\ ~Apart(p)' => Held(p)' \in B \cup {NULL}
    BY <1>5, <1>8, <1>10, <1>15 DEF Sides, Still, Steady
  <2>2. /\ Invoked(b)' \notin B
        /\ Behind(b)' \in B \cup {NULL}
        /\ Apart(b)' => Held(b)' \notin B
        /\ ~Apart(b)' => Held(b)' \in B \cup {NULL}
    BY <1>5, <1>6, <1>7, <1>8, <1>11, <1>15 DEF Sides
  <2>3. \A x \in B : next'[x] \in B \cup {NULL}
    BY <1>5, <1>8, <1>13, <1>15 DEF Sides
  <2>4. \A r \in Queues : items_head'[r] \in B \cup {NULL}
    BY <1>5, <1>8, <1>13, <1>15 DEF Sides
  <2>5. \A i \in 1 .. Len(root') : root'[i] \notin B
    BY <1>5, <1>13, <1>15 DEF Sides
  <2> QED
    BY <2>1, <2>2, <2>3, <2>4, <2>5 DEF Sides
<1>18. Fetching'
  BY <1>1, <1>5, <1>10, <1>11, <1>13 DEF Fetching, Still, Steady
<1>19. Ends(B)'
  <2>1. \A p \in Pos : Before(p)' = Before(p)
    BY <1>7, <1>10, <1>11 DEF Still, Steady
  <2>2. ASSUME NEW r \in Queues, items_tail'[r] # NULL
        PROVE  /\ items_tail'[r] \in B /\ next'[items_tail'[r]] = NULL
               /\ \A p \in Pos : Before(p)' # items_tail'[r]
               /\ \A s \in Queues : items_tail'[s] = items_tail'[r] => s = r
    <3>1. items_tail'[r] = items_tail[r] /\ items_tail[r] # o
      BY <1>12, <2>2
    <3>2. /\ items_tail[r] \in A /\ next[items_tail[r]] = NULL
          /\ \A p \in Pos : Before(p) # items_tail[r]
          /\ \A s \in Queues : items_tail[s] = items_tail[r] => s = r
      BY <1>5, <2>2, <3>1 DEF Ends
    <3>3. \A s \in Queues : items_tail'[s] = items_tail[r] => s = r
      BY <1>12, <2>2, <3>1, <3>2
    <3> QED
      BY <1>13, <1>15, <2>1, <3>1, <3>2, <3>3
  <2>3. ASSUME NEW p \in Pos, Before(p)' # NULL
        PROVE  /\ Before(p)' \in B /\ next'[Before(p)'] = NULL
               /\ \A r \in Pos : Before(r)' = Before(p)' => r = p
    BY <1>5, <1>12, <1>13, <1>15, <2>1, <2>3 DEF Ends
  <2> QED
    BY <2>2, <2>3 DEF Ends
<1>20. \A r \in Pos : Rest(r)' = Rest(r) /\ Asking(r)' \in {Asking(r), NULL}
  BY <1>7, <1>10, <1>11 DEF Still
<1>21. \A x \in B \ A : ~Out(A, x)
  BY <1>15
<1>22. Places(B)'
  BY <1>13, <1>16, <1>17, <1>18, <1>19, <1>20, <1>21, Moved
<1> QED
  BY <1>14, <1>15, <1>22 DEF Relists
-----------------------------------------------------------------------------
(* A drainer puts the item back. *)

LEMMA Undoes ==
    ASSUME QueueTypes, NEW A \in SUBSET Objects, Places(A), NEW t \in Threads, Undo(t)
    PROVE  QueueTypes' /\ \E B \in SUBSET Objects : Relists(t, A, B) /\ Places(B)'
<1> USE DEF SameLists, SameLocks, lists, counts, refs, blocks
<1>1. PICK b, f, q, o, n : b = TopOf(t) /\ f = Top(t) /\ q = f.q /\ o = f.o /\ n = f.n
  OBVIOUS
<1>2. /\ stack[t] # <<>> /\ f.at = "undo" /\ f.at \in FetchedAts
      /\ UNCHANGED <<use, items_head, next, root, suspend_cnt, targetq, sema, begun>>
  BY <1>1, AtTop DEF Undo, FetchedAts
<1>3. CASE n = NULL /\ items_tail[q] # NULL
  <2>1. Goto(t, "undo_wait") /\ items_tail' = items_tail
    BY <1>1, <1>3 DEF Undo
  <2>2. stack' \in [Threads -> Seq(StackFrame)] /\ Places(A)'
    BY <1>1, <1>2, <2>1, DrainStep DEF FetchedAts
  <2>3. QueueTypes'
    BY <1>2, <2>1, <2>2, SameTypes DEF QueueTypes
  <2> QED
    BY <2>2, <2>3 DEF Relists
<1>4. CASE ~(n = NULL /\ items_tail[q] # NULL)
  <2>1. PICK g : g = [f EXCEPT !.at = "undo_head"]
    OBVIOUS
  <2>2. /\ Become(t, <<g>>)
        /\ items_tail' = IF n = NULL THEN [items_tail EXCEPT ![q] = o] ELSE items_tail
    BY <1>1, <1>4, <2>1 DEF Undo, Goto
  <2>3. f \in DrainFrame /\ q \in Queues /\ o \in Objects
    <3>1. f \in DrainFrame /\ o \in Objects
      BY <1>1, <1>2, TopFrame, FrameKinds DEF HoldAts
    <3> QED
      BY <1>1, <3>1 DEF DrainFrame
  <2>4. g \in StackFrame /\ g.at = "undo_head" /\ g.q = q /\ g.o = o
    BY <1>1, <2>1, <2>3, DrainGoesOn DEF HoldAts
  <2>5. /\ stack' \in [Threads -> Seq(StackFrame)]
        /\ b \in Pos /\ f \in StackFrame /\ Is(b, f) /\ IsNow(b, g)
        /\ \A r \in Pos \ {b} : Still(r)
    BY <1>1, <1>2, <2>2, <2>4, OneFrame
  <2>6. /\ Invoked(b) = q /\ Held(b) = o /\ Behind(b) = n /\ Before(b) = NULL
        /\ Asking(b) = NULL /\ Rest(b) = <<>> /\ Fetched(b) /\ Apart(b)
    BY <1>1, <1>2, <2>5, DrainFrames DEF Is, HoldAts
  <2>7. /\ Invoked(b)' = q /\ Held(b)' = o /\ Behind(b)' = NULL /\ Before(b)' = NULL
        /\ Asking(b)' = NULL /\ Rest(b)' = <<>> /\ ~Fetched(b)' /\ ~Apart(b)'
    BY <2>4, <2>5, DrainFrames DEF IsNow, HoldAts, FetchedAts
  <2>8. /\ OneSlot(A) /\ Sides(A) /\ Fetching /\ Ends(A)
    BY DEF Places
  <2>9. o \notin A /\ o # NULL /\ next[o] = n /\ n \in A \cup {NULL}
    BY <2>3, <2>5, <2>6, <2>8, NullIsNone DEF Sides, Fetching
  <2>10. /\ \A r \in Pos \ {b} : Held(r) # o
         /\ \A r \in Pos : Invoked(r) # o
         /\ \A i \in 1 .. Len(root) : root[i] # o
         /\ ~Out(A, o)
    BY <2>3, <2>5, <2>6, <2>8, Elsewhere
  <2>11. /\ items_tail' \in [Queues -> Maybe]
         /\ \A r \in Queues : \/ items_tail'[r] = items_tail[r]
                              \/ r = q /\ items_tail'[r] = o /\ n = NULL
    BY <2>2, <2>3 DEF QueueTypes, Maybe
  <2>12. QueueTypes'
    BY <1>2, <2>5, <2>11 DEF QueueTypes
  <2>13. PICK B \in SUBSET Objects : B = A \cup {o}
    BY <2>3
  <2>14. OneSlot(B)' /\ \A x \in Objects : Out(A, x) => Out(B, x)'
    <3>1. <<"behind", b>> \in Slot /\ <<"next", o>> \in Slot /\ <<"behind", b>> # <<"next", o>>
      BY <2>3, <2>5, SlotKinds
    <3>2. In(B, <<"next", o>>)' = In(A, <<"behind", b>>) /\ In(B, <<"behind", b>>)' \notin Objects
      <4>1. In(B, <<"next", o>>)' = n
        BY <1>2, <2>3, <2>9, <2>13, SlotValuesNext
      <4>2. In(A, <<"behind", b>>) = n
        BY <2>5, <2>6, SlotValues
      <4>3. In(B, <<"behind", b>>)' = NULL
        BY <2>5, <2>7, SlotValuesNext
      <4> QED
        BY <4>1, <4>2, <4>3, NullIsNone
    <3>3. \A p \in Pos : /\ Loses(A, B, <<"invoked", p>>)
                         /\ Loses(A, B, <<"held", p>>)
                         /\ p # b => Loses(A, B, <<"behind", p>>)
      BY <2>5, <2>6, <2>7 DEF In, Loses, Still, Steady
    <3>4. /\ \A r \in Queues : Loses(A, B, <<"head", r>>)
          /\ \A x \in Objects \ {o} : Loses(A, B, <<"next", x>>)
          /\ \A i \in Nat \ {0} : Loses(A, B, <<"root", i>>)
      BY <1>2, <2>13 DEF In, Loses
    <3>5. \A s \in Slot \ {<<"behind", b>>, <<"next", o>>} : Loses(A, B, s)
      BY <3>3, <3>4, SlotKinds
    <3> QED
      BY <2>8, <3>1, <3>2, <3>5, SlotMove
  <2>15. Sides(B)'
    <3>1. \A p \in Pos \ {b} : /\ Invoked(p)' \notin B
                               /\ Behind(p)' \in B \cup {NULL}
                               /\ Apart(p)' => Held(p)' \notin B
                               /\ ~Apart(p)' => Held(p)' \in B \cup {NULL}
      BY <2>5, <2>8, <2>10, <2>13 DEF Sides, Still, Steady
    <3>2. /\ Invoked(b)' \notin B
          /\ Behind(b)' \in B \cup {NULL}
          /\ Apart(b)' => Held(b)' \notin B
          /\ ~Apart(b)' => Held(b)' \in B \cup {NULL}
      BY <2>5, <2>6, <2>7, <2>8, <2>10, <2>13 DEF Sides
    <3>3. \A x \in B : next'[x] \in B \cup {NULL}
      BY <1>2, <2>8, <2>9, <2>13 DEF Sides
    <3>4. \A r \in Queues : items_head'[r] \in B \cup {NULL}
      BY <1>2, <2>8, <2>13 DEF Sides
    <3>5. \A i \in 1 .. Len(root') : root'[i] \notin B
      BY <1>2, <2>8, <2>10, <2>13 DEF Sides
    <3> QED
      BY <3>1, <3>2, <3>3, <3>4, <3>5 DEF Sides
  <2>16. Fetching'
    BY <1>2, <2>5, <2>7, <2>8 DEF Fetching, Still, Steady
  <2>17. Ends(B)'
    <3>1. \A p \in Pos : Before(p)' = Before(p)
      BY <2>5, <2>6, <2>7 DEF Still, Steady
    <3>2. \A p \in Pos : Before(p) # o
      BY <2>8, <2>9 DEF Ends
    <3>3. \A r \in Queues : items_tail[r] # o
      BY <2>8, <2>9 DEF Ends
    <3>4. ASSUME NEW r \in Queues, items_tail'[r] # NULL
          PROVE  /\ items_tail'[r] \in B /\ next'[items_tail'[r]] = NULL
                 /\ \A p \in Pos : Before(p)' # items_tail'[r]
                 /\ \A s \in Queues : items_tail'[s] = items_tail'[r] => s = r
      <4>1. CASE items_tail'[r] = items_tail[r]
        <5>1. /\ items_tail[r] \in A /\ next[items_tail[r]] = NULL
              /\ \A p \in Pos : Before(p) # items_tail[r]
              /\ \A s \in Queues : items_tail[s] = items_tail[r] => s = r
          BY <2>8, <3>4, <4>1 DEF Ends
        <5>2. \A s \in Queues : items_tail'[s] = items_tail[r] => s = r
          BY <2>11, <3>3, <5>1
        <5> QED
          BY <1>2, <2>13, <3>1, <4>1, <5>1, <5>2
      <4>2. CASE r = q /\ items_tail'[r] = o /\ n = NULL
        <5>1. \A s \in Queues : items_tail'[s] = o => s = r
          BY <2>11, <3>3, <4>2
        <5> QED
          BY <1>2, <2>9, <2>13, <3>1, <3>2, <4>2, <5>1
      <4> QED
        BY <2>11, <4>1, <4>2
    <3>5. ASSUME NEW p \in Pos, Before(p)' # NULL
          PROVE  /\ Before(p)' \in B /\ next'[Before(p)'] = NULL
                 /\ \A r \in Pos : Before(r)' = Before(p)' => r = p
      BY <1>2, <2>8, <2>13, <3>1, <3>5 DEF Ends
    <3> QED
      BY <3>4, <3>5 DEF Ends
  <2>18. \A r \in Pos : Rest(r)' = Rest(r) /\ Asking(r)' \in {Asking(r), NULL}
    BY <2>5, <2>6, <2>7 DEF Still
  <2>19. \A x \in B \ A : ~Out(A, x)
    BY <2>10, <2>13
  <2>20. Places(B)'
    BY <1>2, <2>14, <2>15, <2>16, <2>17, <2>18, <2>19, Moved
  <2> QED
    BY <1>1, <2>12, <2>13, <2>20 DEF Relists
<1> QED
  BY <1>3, <1>4

LEMMA UndoesHead ==
    ASSUME QueueTypes, NEW A \in SUBSET Objects, Places(A), NEW t \in Threads, UndoHead(t)
    PROVE  QueueTypes' /\ Places(A)'
<1> USE DEF SameLists, SameLocks, lists, counts, refs, blocks
<1>1. PICK b, f, q, o : b = TopOf(t) /\ f = Top(t) /\ q = f.q /\ o = f.o
  OBVIOUS
<1>2. PICK g : g = [f EXCEPT !.at = "invoke_unlock"]
  OBVIOUS
<1>3. stack[t] # <<>> /\ f.at = "undo_head" /\ Become(t, <<g>>)
  BY <1>1, <1>2, AtTop DEF UndoHead, Goto
<1>4. f \in DrainFrame /\ q \in Queues /\ o \in Objects
  <2>1. f \in DrainFrame /\ o \in Objects
    BY <1>1, <1>3, TopFrame, FrameKinds DEF HoldAts
  <2> QED
    BY <1>1, <2>1 DEF DrainFrame
<1>5. g \in StackFrame /\ g.at = "invoke_unlock" /\ g.q = q
  BY <1>1, <1>2, <1>4, DrainGoesOn DEF EmptyAts
<1>6. /\ stack' \in [Threads -> Seq(StackFrame)]
      /\ b \in Pos /\ f \in StackFrame /\ Is(b, f) /\ IsNow(b, g)
      /\ \A r \in Pos \ {b} : Still(r)
  BY <1>1, <1>3, <1>5, OneFrame
<1>7. /\ Invoked(b) = q /\ Held(b) = o /\ Behind(b) = NULL /\ Before(b) = NULL
      /\ Asking(b) = NULL /\ Rest(b) = <<>> /\ ~Fetched(b) /\ ~Apart(b)
  BY <1>1, <1>3, <1>6, DrainFrames DEF Is, HoldAts, FetchedAts
<1>8. /\ Invoked(b)' = q /\ Held(b)' = NULL /\ Behind(b)' = NULL /\ Before(b)' = NULL
      /\ Asking(b)' = NULL /\ Rest(b)' = <<>> /\ ~Fetched(b)' /\ ~Apart(b)'
  BY <1>5, <1>6, DrainFrames DEF IsNow, EmptyAts, HoldAts, FetchedAts
<1>9. /\ OneSlot(A) /\ Sides(A) /\ Fetching /\ Ends(A)
  BY DEF Places
<1>10. o \in A
  BY <1>4, <1>6, <1>7, <1>9, NullIsNone DEF Sides
<1>11. /\ items_head' \in [Queues -> Maybe] /\ items_head'[q] = o
       /\ \A r \in Queues \ {q} : items_head'[r] = items_head[r]
  BY <1>1, <1>4 DEF UndoHead, QueueTypes, Maybe
<1>12. UNCHANGED <<use, items_tail, next, root, suspend_cnt, targetq, sema, begun>>
  BY DEF UndoHead
<1>13. QueueTypes'
  BY <1>6, <1>11, <1>12 DEF QueueTypes
<1>14. OneSlot(A)' /\ \A x \in Objects : Out(A, x) => Out(A, x)'
  <2>1. <<"held", b>> \in Slot /\ <<"head", q>> \in Slot /\ <<"held", b>> # <<"head", q>>
    BY <1>4, <1>6, SlotKinds
  <2>2. In(A, <<"head", q>>)' = In(A, <<"held", b>>) /\ In(A, <<"held", b>>)' \notin Objects
    <3>1. In(A, <<"head", q>>)' = o
      BY <1>4, <1>11, SlotValuesNext
    <3>2. In(A, <<"held", b>>) = o
      BY <1>6, <1>7, SlotValues
    <3>3. In(A, <<"held", b>>)' = NULL
      BY <1>6, <1>8, SlotValuesNext
    <3> QED
      BY <3>1, <3>2, <3>3, NullIsNone
  <2>3. \A p \in Pos : /\ Loses(A, A, <<"invoked", p>>)
                       /\ p # b => Loses(A, A, <<"held", p>>)
                       /\ Loses(A, A, <<"behind", p>>)
    BY <1>6, <1>7, <1>8 DEF In, Loses, Still, Steady
  <2>4. /\ \A r \in Queues \ {q} : Loses(A, A, <<"head", r>>)
        /\ \A x \in Objects : Loses(A, A, <<"next", x>>)
        /\ \A i \in Nat \ {0} : Loses(A, A, <<"root", i>>)
    BY <1>11, <1>12 DEF In, Loses
  <2>5. \A s \in Slot \ {<<"held", b>>, <<"head", q>>} : Loses(A, A, s)
    BY <2>3, <2>4, SlotKinds
  <2> QED
    BY <1>9, <2>1, <2>2, <2>5, SlotMove
<1>15. Sides(A)'
  <2>1. \A p \in Pos : /\ Invoked(p)' \notin A
                       /\ Behind(p)' \in A \cup {NULL}
                       /\ Apart(p)' => Held(p)' \notin A
                       /\ ~Apart(p)' => Held(p)' \in A \cup {NULL}
    BY <1>6, <1>7, <1>8, <1>9 DEF Sides, Still, Steady
  <2>2. \A r \in Queues : items_head'[r] \in A \cup {NULL}
    BY <1>9, <1>10, <1>11 DEF Sides
  <2> QED
    BY <1>9, <1>12, <2>1, <2>2 DEF Sides
<1>16. Fetching'
  BY <1>6, <1>8, <1>9, <1>12 DEF Fetching, Still, Steady
<1>17. Ends(A)'
  <2>1. \A p \in Pos : Before(p)' = Before(p)
    BY <1>6, <1>7, <1>8 DEF Still, Steady
  <2> QED
    BY <1>9, <1>12, <2>1 DEF Ends
<1>18. \A r \in Pos : Rest(r)' = Rest(r) /\ Asking(r)' \in {Asking(r), NULL}
  BY <1>6, <1>7, <1>8 DEF Still
<1> QED
  BY <1>9, <1>12, <1>13, <1>14, <1>15, <1>16, <1>17, <1>18, Moved

LEMMA UndoesInFront ==
    ASSUME QueueTypes, NEW A \in SUBSET Objects, Places(A), NEW t \in Threads, UndoInFront(t)
    PROVE  QueueTypes' /\ \E B \in SUBSET Objects : Relists(t, A, B) /\ Places(B)'
<1> USE DEF SameLists, SameLocks, lists, counts, refs, blocks
<1>1. PICK b, f, q, o, h : b = TopOf(t) /\ f = Top(t) /\ q = f.q /\ o = f.o /\ h = items_head[q]
  OBVIOUS
<1>2. PICK g : g = [f EXCEPT !.at = "invoke_unlock"]
  OBVIOUS
<1>3. stack[t] # <<>> /\ f.at = "undo_wait" /\ f.at \in FetchedAts /\ h # NULL /\ Become(t, <<g>>)
  BY <1>1, <1>2, AtTop DEF UndoInFront, Goto, FetchedAts
<1>4. f \in DrainFrame /\ q \in Queues /\ o \in Objects
  <2>1. f \in DrainFrame /\ o \in Objects
    BY <1>1, <1>3, TopFrame, FrameKinds DEF HoldAts
  <2> QED
    BY <1>1, <2>1 DEF DrainFrame
<1>5. g \in StackFrame /\ g.at = "invoke_unlock" /\ g.q = q
  BY <1>1, <1>2, <1>4, DrainGoesOn DEF EmptyAts
<1>6. /\ stack' \in [Threads -> Seq(StackFrame)]
      /\ b \in Pos /\ f \in StackFrame /\ Is(b, f) /\ IsNow(b, g)
      /\ \A r \in Pos \ {b} : Still(r)
  BY <1>1, <1>3, <1>5, OneFrame
<1>7. /\ Invoked(b) = q /\ Held(b) = o /\ Before(b) = NULL
      /\ Asking(b) = NULL /\ Rest(b) = <<>> /\ Fetched(b) /\ Apart(b)
  BY <1>1, <1>3, <1>6, DrainFrames DEF Is, HoldAts
<1>8. /\ Invoked(b)' = q /\ Held(b)' = NULL /\ Behind(b)' = NULL /\ Before(b)' = NULL
      /\ Asking(b)' = NULL /\ Rest(b)' = <<>> /\ ~Fetched(b)' /\ ~Apart(b)'
  BY <1>5, <1>6, DrainFrames DEF IsNow, EmptyAts, HoldAts, FetchedAts
<1>9. /\ OneSlot(A) /\ Sides(A) /\ Fetching /\ Ends(A)
  BY DEF Places
<1>10. o \notin A /\ o # NULL /\ h \in A /\ h \in Objects
  BY <1>1, <1>3, <1>4, <1>6, <1>7, <1>9, NullIsNone DEF Sides
<1>11. /\ \A r \in Pos \ {b} : Held(r) # o
       /\ \A r \in Pos : Invoked(r) # o
       /\ \A i \in 1 .. Len(root) : root[i] # o
       /\ ~Out(A, o)
  BY <1>4, <1>6, <1>7, <1>9, Elsewhere
<1>12. /\ items_head' \in [Queues -> Maybe] /\ items_head'[q] = o
       /\ \A r \in Queues \ {q} : items_head'[r] = items_head[r]
  BY <1>1, <1>4 DEF UndoInFront, QueueTypes, Maybe
<1>13. /\ next' \in [Objects -> Maybe \cup {LISTLESS}] /\ next'[o] = h
       /\ \A x \in Objects \ {o} : next'[x] = next[x]
  BY <1>1, <1>4, <1>10 DEF UndoInFront, QueueTypes, Maybe
<1>14. UNCHANGED <<use, items_tail, root, suspend_cnt, targetq, sema, begun>>
  BY DEF UndoInFront
<1>15. QueueTypes'
  BY <1>6, <1>12, <1>13, <1>14 DEF QueueTypes
<1>16. PICK B \in SUBSET Objects : B = A \cup {o}
  BY <1>4
<1>17. OneSlot(B)' /\ \A x \in Objects : Out(A, x) => Out(B, x)'
  <2>1. /\ <<"held", b>> \in Slot /\ <<"head", q>> \in Slot /\ <<"next", o>> \in Slot
        /\ <<"held", b>> # <<"head", q>> /\ <<"held", b>> # <<"next", o>> /\ <<"head", q>> # <<"next", o>>
    BY <1>4, <1>6, SlotKinds
  <2>2. In(B, <<"next", o>>)' = In(A, <<"head", q>>)
    <3>1. In(B, <<"next", o>>)' = h
      BY <1>4, <1>13, <1>16, SlotValuesNext
    <3> QED
      BY <1>1, <1>4, <3>1, SlotValues
  <2>3. In(B, <<"head", q>>)' = In(A, <<"held", b>>)
    <3>1. In(B, <<"head", q>>)' = o
      BY <1>4, <1>12, SlotValuesNext
    <3> QED
      BY <1>6, <1>7, <3>1, SlotValues
  <2>4. In(B, <<"held", b>>)' \notin Objects
    <3>1. In(B, <<"held", b>>)' = NULL
      BY <1>6, <1>8, SlotValuesNext
    <3> QED
      BY <3>1, NullIsNone
  <2>5. \A p \in Pos : /\ Loses(A, B, <<"invoked", p>>)
                       /\ p # b => Loses(A, B, <<"held", p>>)
                       /\ Loses(A, B, <<"behind", p>>)
    BY <1>6, <1>7, <1>8, NullIsNone DEF In, Loses, Still, Steady
  <2>6. /\ \A r \in Queues \ {q} : Loses(A, B, <<"head", r>>)
        /\ \A x \in Objects \ {o} : Loses(A, B, <<"next", x>>)
        /\ \A i \in Nat \ {0} : Loses(A, B, <<"root", i>>)
    BY <1>12, <1>13, <1>14, <1>16 DEF In, Loses
  <2>7. \A s \in Slot \ {<<"held", b>>, <<"head", q>>, <<"next", o>>} : Loses(A, B, s)
    BY <2>5, <2>6, SlotKinds
  <2> QED
    BY <1>9, <2>1, <2>2, <2>3, <2>4, <2>7, SlotChain
<1>18. Sides(B)'
  <2>1. \A p \in Pos \ {b} : /\ Invoked(p)' \notin B
                             /\ Behind(p)' \in B \cup {NULL}
                             /\ Apart(p)' => Held(p)' \notin B
                             /\ ~Apart(p)' => Held(p)' \in B \cup {NULL}
    BY <1>6, <1>9, <1>11, <1>16 DEF Sides, Still, Steady
  <2>2. /\ Invoked(b)' \notin B
        /\ Behind(b)' \in B \cup {NULL}
        /\ Apart(b)' => Held(b)' \notin B
        /\ ~Apart(b)' => Held(b)' \in B \cup {NULL}
    BY <1>6, <1>7, <1>8, <1>9, <1>11, <1>16 DEF Sides
  <2>3. \A x \in B : next'[x] \in B \cup {NULL}
    BY <1>9, <1>10, <1>13, <1>16 DEF Sides
  <2>4. \A r \in Queues : items_head'[r] \in B \cup {NULL}
    BY <1>9, <1>12, <1>16 DEF Sides
  <2>5. \A i \in 1 .. Len(root') : root'[i] \notin B
    BY <1>9, <1>11, <1>14, <1>16 DEF Sides
  <2> QED
    BY <2>1, <2>2, <2>3, <2>4, <2>5 DEF Sides
<1>19. Fetching'
  <2>1. ASSUME NEW p \in Pos, Fetched(p)' PROVE next'[Held(p)'] = Behind(p)'
    <3>1. p # b /\ Fetched(p) /\ Held(p)' = Held(p) /\ Behind(p)' = Behind(p)
      BY <1>6, <1>8, <2>1 DEF Still, Steady
    <3>2. Held(p) # o /\ next[Held(p)] = Behind(p)
      BY <1>9, <1>11, <3>1 DEF Fetching
    <3> QED
      BY <1>1, <3>1, <3>2 DEF UndoInFront, QueueTypes
  <2> QED
    BY <2>1 DEF Fetching
<1>20. Ends(B)'
  <2>1. \A p \in Pos : Before(p)' = Before(p)
    BY <1>6, <1>7, <1>8 DEF Still, Steady
  <2>2. ASSUME NEW r \in Queues, items_tail'[r] # NULL
        PROVE  /\ items_tail'[r] \in B /\ next'[items_tail'[r]] = NULL
               /\ \A p \in Pos : Before(p)' # items_tail'[r]
               /\ \A s \in Queues : items_tail'[s] = items_tail'[r] => s = r
    BY <1>9, <1>10, <1>13, <1>14, <1>16, <2>1, <2>2 DEF Ends
  <2>3. ASSUME NEW p \in Pos, Before(p)' # NULL
        PROVE  /\ Before(p)' \in B /\ next'[Before(p)'] = NULL
               /\ \A r \in Pos : Before(r)' = Before(p)' => r = p
    BY <1>9, <1>10, <1>13, <1>16, <2>1, <2>3 DEF Ends
  <2> QED
    BY <2>2, <2>3 DEF Ends
<1>21. \A r \in Pos : Rest(r)' = Rest(r) /\ Asking(r)' \in {Asking(r), NULL}
  BY <1>6, <1>7, <1>8 DEF Still
<1>22. \A x \in Objects : Nowhere(A, x) => next'[x] = next[x]
  BY <1>11, <1>13 DEF Nowhere, Out
<1>23. \A x \in B \ A : ~Out(A, x)
  BY <1>11, <1>16
<1>24. Places(B)'
  BY <1>14, <1>17, <1>18, <1>19, <1>20, <1>21, <1>22, <1>23, Moved
<1> QED
  BY <1>1, <1>15, <1>16, <1>24 DEF Relists
-----------------------------------------------------------------------------
(* The end of an invocation. *)

LEMMA InvokeUnlocks ==
    ASSUME QueueTypes, NEW A \in SUBSET Objects, Places(A), NEW t \in Threads, InvokeUnlock(t)
    PROVE  QueueTypes' /\ Places(A)'
<1> USE DEF SameLists, SameLocks, lists, counts, refs, blocks
<1>1. PICK b, f, q : b = TopOf(t) /\ f = Top(t) /\ q = f.q
  OBVIOUS
<1>2. /\ stack[t] # <<>> /\ f.at = "invoke_unlock" /\ f.at \in EmptyAts
      /\ SameLists /\ UNCHANGED <<use, suspend_cnt, targetq, sema, begun>>
  BY <1>1, AtTop DEF InvokeUnlock, EmptyAts
<1>3. q \in Queues /\ q \in Objects
  <2>1. f \in DrainFrame
    BY <1>1, <1>2, TopFrame, FrameKinds
  <2> QED
    BY <1>1, <2>1 DEF DrainFrame, Objects
<1>4. CASE Goto(t, "invoke_drop")
  <2>1. stack' \in [Threads -> Seq(StackFrame)] /\ Places(A)'
    BY <1>1, <1>2, <1>4, DrainStep DEF EmptyAts
  <2> QED
    BY <1>2, <2>1, SameTypes DEF QueueTypes
<1>5. CASE Become(t, Push(NewTarget(t), q))
  <2>1. PICK g : g = Frame("push", targetq[q], q)
    OBVIOUS
  <2>2. Become(t, <<g>>)
    BY <1>1, <1>5, <2>1 DEF Push, NewTarget
  <2>3. /\ g \in StackFrame
        /\ QOf(g) = NULL /\ OOf(g) = q /\ NOf(g) = NULL /\ PrevOf(g) = NULL
        /\ CallOf(g) = NULL /\ RestOf(g) = <<>> /\ g.at = "push" /\ g.at \notin FetchedAts
    <3>1. targetq[q] \in Targets
      BY <1>3 DEF QueueTypes
    <3> QED
      BY <1>3, <2>1, <3>1, PushFrames DEF FetchedAts
  <2>4. /\ stack' \in [Threads -> Seq(StackFrame)]
        /\ b \in Pos /\ f \in StackFrame /\ Is(b, f) /\ IsNow(b, g)
        /\ \A r \in Pos \ {b} : Still(r)
    BY <1>1, <1>2, <2>2, <2>3, OneFrame
  <2>5. /\ Invoked(b) = q /\ Held(b) = NULL /\ Behind(b) = NULL /\ Before(b) = NULL
        /\ Asking(b) = NULL /\ Rest(b) = <<>> /\ ~Fetched(b) /\ ~Apart(b)
    BY <1>1, <1>2, <2>4, DrainFrames DEF Is, EmptyAts, HoldAts, FetchedAts
  <2>6. /\ Invoked(b)' = NULL /\ Held(b)' = q /\ Behind(b)' = NULL /\ Before(b)' = NULL
        /\ Asking(b)' = NULL /\ Rest(b)' = <<>> /\ ~Fetched(b)' /\ Apart(b)'
    BY <2>3, <2>4 DEF IsNow
  <2>7. /\ OneSlot(A) /\ Sides(A) /\ Fetching /\ Ends(A)
    BY DEF Places
  <2>8. q \notin A
    BY <2>4, <2>5, <2>7 DEF Sides
  <2>9. OneSlot(A)' /\ \A x \in Objects : Out(A, x) => Out(A, x)'
    <3>1. <<"invoked", b>> \in Slot /\ <<"held", b>> \in Slot /\ <<"invoked", b>> # <<"held", b>>
      BY <2>4, SlotKinds
    <3>2. In(A, <<"held", b>>)' = In(A, <<"invoked", b>>) /\ In(A, <<"invoked", b>>)' \notin Objects
      <4>1. In(A, <<"held", b>>)' = q /\ In(A, <<"invoked", b>>)' = NULL
        BY <2>4, <2>6, SlotValuesNext
      <4>2. In(A, <<"invoked", b>>) = q
        BY <2>4, <2>5, SlotValues
      <4> QED
        BY <4>1, <4>2, NullIsNone
    <3>3. \A p \in Pos : /\ p # b => Loses(A, A, <<"invoked", p>>)
                         /\ p # b => Loses(A, A, <<"held", p>>)
                         /\ Loses(A, A, <<"behind", p>>)
      BY <2>4, <2>5, <2>6 DEF In, Loses, Still, Steady
    <3>4. /\ \A r \in Queues : Loses(A, A, <<"head", r>>)
          /\ \A x \in Objects : Loses(A, A, <<"next", x>>)
          /\ \A i \in Nat \ {0} : Loses(A, A, <<"root", i>>)
      BY <1>2 DEF In, Loses
    <3>5. \A s \in Slot \ {<<"invoked", b>>, <<"held", b>>} : Loses(A, A, s)
      BY <3>3, <3>4, SlotKinds
    <3> QED
      BY <2>7, <3>1, <3>2, <3>5, SlotMove
  <2>10. Sides(A)'
    <3>1. \A p \in Pos : /\ Invoked(p)' \notin A
                         /\ Behind(p)' \in A \cup {NULL}
                         /\ Apart(p)' => Held(p)' \notin A
                         /\ ~Apart(p)' => Held(p)' \in A \cup {NULL}
      BY <2>4, <2>6, <2>7, <2>8, NullIsNone DEF Sides, Still, Steady
    <3> QED
      BY <1>2, <2>7, <3>1 DEF Sides
  <2>11. Fetching'
    BY <1>2, <2>4, <2>6, <2>7 DEF Fetching, Still, Steady
  <2>12. Ends(A)'
    <3>1. \A p \in Pos : Before(p)' = Before(p)
      BY <2>4, <2>5, <2>6 DEF Still, Steady
    <3> QED
      BY <1>2, <2>7, <3>1 DEF Ends
  <2>13. \A r \in Pos : Rest(r)' = Rest(r) /\ Asking(r)' \in {Asking(r), NULL}
    BY <2>4, <2>5, <2>6 DEF Still
  <2>14. Places(A)'
    BY <1>2, <2>9, <2>10, <2>11, <2>12, <2>13, Moved
  <2>15. QueueTypes'
    BY <1>2, <2>4, SameTypes DEF QueueTypes
  <2> QED
    BY <2>14, <2>15
<1> QED
  BY <1>1, <1>4, <1>5 DEF InvokeUnlock

\* The queue takes part in nothing any more.
LEMMA InvokeDropsLock ==
    ASSUME QueueTypes, NEW A \in SUBSET Objects, Places(A), NEW t \in Threads, InvokeDropLock(t)
    PROVE  QueueTypes' /\ Places(A)'
<1> USE DEF SameLists, SameLocks, lists, counts, refs, blocks
<1>1. PICK b, f, q : b = TopOf(t) /\ f = Top(t) /\ q = f.q
  OBVIOUS
<1>2. /\ stack[t] # <<>> /\ f.at = "invoke_drop"
      /\ UNCHANGED <<use, items_tail, items_head, root, targetq, sema, begun>>
  BY <1>1, AtTop DEF InvokeDropLock
<1>3. f \in DrainFrame /\ q \in Queues /\ q \in Objects /\ q \notin Calls
  <2>1. f \in DrainFrame
    BY <1>1, <1>2, TopFrame, FrameKinds DEF EmptyAts
  <2> QED
    BY <1>1, <2>1, RootAssumption DEF DrainFrame, Objects
<1>4. PICK g \in StackFrame : Become(t, <<g>>) /\ Bare(g)
  <2>1. CASE suspend_cnt[q] = 1
    <3>1. PICK g : g = [f EXCEPT !.at = "invoke_idle"]
      OBVIOUS
    <3>2. g \in StackFrame /\ g.at = "invoke_idle"
      BY <1>3, <3>1, DrainGoesOn DEF HoldAts, FetchedAts
    <3>3. Become(t, <<g>>)
      BY <1>1, <2>1, <3>1 DEF InvokeDropLock, Goto
    <3> QED
      BY <3>2, <3>3, BareTop
  <2>2. CASE suspend_cnt[q] # 1
    <3>1. Become(t, <<Frame("release", q, NULL)>>)
      BY <1>1, <2>2 DEF InvokeDropLock, Release
    <3> QED
      BY <1>3, <3>1, BareFrames DEF BareAts
  <2> QED
    BY <2>1, <2>2
<1>5. /\ stack' \in [Threads -> Seq(StackFrame)]
      /\ b \in Pos /\ f \in StackFrame /\ Is(b, f) /\ IsNow(b, g)
      /\ \A r \in Pos \ {b} : Still(r)
  BY <1>1, <1>2, <1>4, OneFrame
<1>6. /\ Invoked(b) = q /\ Held(b) = NULL /\ Behind(b) = NULL /\ Before(b) = NULL
      /\ Asking(b) = NULL /\ Rest(b) = <<>> /\ ~Fetched(b) /\ ~Apart(b)
  BY <1>1, <1>2, <1>5, DrainFrames DEF Is, EmptyAts, HoldAts, FetchedAts
<1>7. /\ Invoked(b)' = NULL /\ Held(b)' = NULL /\ Behind(b)' = NULL /\ Before(b)' = NULL
      /\ Asking(b)' = NULL /\ Rest(b)' = <<>> /\ ~Fetched(b)' /\ ~Apart(b)'
  BY <1>4, <1>5 DEF IsNow, Bare
<1>8. /\ OneSlot(A) /\ Sides(A) /\ Fetching /\ Ends(A)
  BY DEF Places
<1>9. q \notin A /\ \A p \in Pos : Held(p) # q
  <2>1. q \notin A
    BY <1>5, <1>6, <1>8 DEF Sides
  <2>2. <<"invoked", b>> \in Slot /\ In(A, <<"invoked", b>>) = q
    BY <1>5, <1>6, SlotKinds, SlotValues
  <2>3. \A p \in Pos : Held(p) = q => <<"invoked", b>> = <<"held", p>>
    BY <1>3, <1>8, <2>2, OnlyThere
  <2> QED
    BY <2>1, <2>3
<1>10. /\ next' \in [Objects -> Maybe \cup {LISTLESS}] /\ next'[q] = LISTLESS
       /\ \A x \in Objects \ {q} : next'[x] = next[x]
  BY <1>1, <1>3 DEF InvokeDropLock, QueueTypes
<1>11. suspend_cnt' \in [Queues -> Int] /\ \A r \in Queues \ {q} : suspend_cnt'[r] = suspend_cnt[r]
  BY <1>1, <1>3 DEF InvokeDropLock, Plus, QueueTypes
<1>12. QueueTypes'
  BY <1>2, <1>5, <1>10, <1>11 DEF QueueTypes
<1>13. OneSlot(A)' /\ Out(A, q)' /\ \A x \in Objects : Out(A, x) => Out(A, x)'
  <2>1. \A p \in Pos : /\ Loses(A, A, <<"invoked", p>>)
                       /\ Loses(A, A, <<"held", p>>)
                       /\ Loses(A, A, <<"behind", p>>)
    BY <1>5, <1>6, <1>7, NullIsNone DEF In, Loses, Still, Steady
  <2>2. /\ \A r \in Queues : Loses(A, A, <<"head", r>>)
        /\ \A x \in Objects : Loses(A, A, <<"next", x>>)
        /\ \A i \in Nat \ {0} : Loses(A, A, <<"root", i>>)
    BY <1>2, <1>9, <1>10 DEF In, Loses
  <2>3. \A s \in Slot : Loses(A, A, s)
    BY <2>1, <2>2, SlotKinds
  <2>4. <<"invoked", b>> \in Slot /\ In(A, <<"invoked", b>>) = q
    BY <1>5, <1>6, SlotKinds, SlotValues
  <2>5. In(A, <<"invoked", b>>)' = NULL
    BY <1>5, <1>7, SlotValuesNext
  <2>6. In(A, <<"invoked", b>>)' \notin Objects
    BY <2>5, NullIsNone
  <2> QED
    BY <1>3, <1>8, <2>3, <2>4, <2>6, SlotsLose
<1>14. Nowhere(A, q)' /\ \A x \in Objects : Nowhere(A, x) => Nowhere(A, x)'
  BY <1>9, <1>13 DEF Nowhere, Out
<1>15. Sides(A)'
  <2>1. \A p \in Pos : /\ Invoked(p)' \notin A
                       /\ Behind(p)' \in A \cup {NULL}
                       /\ Apart(p)' => Held(p)' \notin A
                       /\ ~Apart(p)' => Held(p)' \in A \cup {NULL}
    BY <1>5, <1>7, <1>8, NullIsNone DEF Sides, Still, Steady
  <2>2. \A x \in A : next'[x] \in A \cup {NULL}
    BY <1>8, <1>9, <1>10 DEF Sides
  <2> QED
    BY <1>2, <1>8, <2>1, <2>2 DEF Sides
<1>16. Fetching'
  <2>1. ASSUME NEW p \in Pos, Fetched(p)' PROVE next'[Held(p)'] = Behind(p)'
    <3>1. p # b /\ Fetched(p) /\ Held(p)' = Held(p) /\ Behind(p)' = Behind(p)
      BY <1>5, <1>7, <2>1 DEF Still, Steady
    <3>2. Held(p) # q /\ next[Held(p)] = Behind(p)
      BY <1>8, <1>9, <3>1 DEF Fetching
    <3> QED
      BY <1>1, <3>1, <3>2 DEF InvokeDropLock, QueueTypes
  <2> QED
    BY <2>1 DEF Fetching
<1>17. Ends(A)'
  <2>1. \A p \in Pos : Before(p)' = Before(p)
    BY <1>5, <1>6, <1>7 DEF Still, Steady
  <2> QED
    BY <1>2, <1>8, <1>9, <1>10, <2>1 DEF Ends
<1>18. Locks(A)'
  <2>1. ASSUME NEW r \in Queues, suspend_cnt'[r] % 2 # 1 PROVE next'[r] = LISTLESS /\ Nowhere(A, r)'
    <3>1. CASE r = q
      BY <1>10, <1>14, <3>1 DEF Nowhere
    <3>2. CASE r # q
      BY <1>10, <1>11, <1>14, <2>1, <3>2 DEF Places, Locks, Objects
    <3> QED
      BY <3>1, <3>2
  <2> QED
    BY <2>1 DEF Locks
<1>19. Popped(A)'
  BY <1>2, <1>14 DEF Places, Popped, Objects
<1>20. ToCome(A)'
  <2>1. \A r \in Pos : Rest(r)' = Rest(r) /\ Asking(r)' \in {Asking(r), NULL}
    BY <1>5, <1>6, <1>7 DEF Still
  <2>2. \A s \in Turn : Due(s)' = Due(s) \/ Due(s)' \notin Calls
    BY <1>2, <2>1, SameTurns
  <2>3. \A c \in Calls : Nowhere(A, c) /\ next[c] = LISTLESS /\ c \notin begun /\ sema[c] = 0 =>
            c \notin begun' /\ sema'[c] = 0 /\ next'[c] = LISTLESS /\ Nowhere(A, c)'
    BY <1>2, <1>3, <1>10, <1>14 DEF Objects
  <2> QED
    BY <2>2, <2>3, StillToCome DEF Places
<1> QED
  BY <1>12, <1>13, <1>15, <1>16, <1>17, <1>18, <1>19, <1>20 DEF Places

LEMMA InvokeLooksOnceMore ==
    ASSUME QueueTypes, NEW A \in SUBSET Objects, Places(A), NEW t \in Threads, InvokeVerifyIdle(t)
    PROVE  QueueTypes' /\ Places(A)'
<1> USE DEF SameLists, SameLocks, lists, counts, refs, blocks
<1>1. PICK f, q : f = Top(t) /\ q = f.q
  OBVIOUS
<1>2. /\ stack[t] # <<>> /\ f.at = "invoke_idle" /\ f \in StackFrame
      /\ SameLists /\ UNCHANGED <<use, suspend_cnt, targetq, sema, begun>>
  BY <1>1, AtTop, TopFrame DEF InvokeVerifyIdle
<1>3. q \in Queues /\ Bare(f)
  <2>1. f \in DrainFrame
    BY <1>2, FrameKinds
  <2> QED
    BY <1>1, <1>2, <2>1, BareTop DEF DrainFrame
<1>4. PICK g, w : g = Frame("release", q, NULL) /\ w = Frame("wakeup", q, NULL)
  OBVIOUS
<1>5. g \in StackFrame /\ Bare(g) /\ w \in StackFrame /\ Bare(w) /\ Alike(f, g)
  BY <1>3, <1>4, BareFrames, BareIsAlike DEF BareAts
<1>6. Become(t, <<g>>) \/ Become(t, <<w, g>>)
  <2>1. Become(t, <<w>> \o <<g>>) \/ Become(t, <<>> \o <<g>>)
    BY <1>1, <1>4 DEF InvokeVerifyIdle, LastLook, Wakeup, Release
  <2>2. <<w>> \o <<g>> = <<w, g>> /\ <<>> \o <<g>> = <<g>>
    BY Concatenations
  <2> QED
    BY <2>1, <2>2
<1>7. stack' \in [Threads -> Seq(StackFrame)] /\ Places(A)'
  BY <1>1, <1>2, <1>5, <1>6, QuietStep
<1> QED
  BY <1>2, <1>7, SameTypes DEF QueueTypes
-----------------------------------------------------------------------------
(* A drainer deals with the item. *)

\* The drainer at b comes back to the item behind, n, and has done with o, or o is
\* invoked or pushed on top of it.
LEMMA ItemGoes ==
    ASSUME NEW A \in SUBSET Objects, OneSlot(A), Sides(A), Fetching, Ends(A), SameLists,
           NEW b \in Pos, NEW y \in Pos, b # y, NEW o \in Objects, NEW n,
           Held(b) = o, Behind(b) = n, Before(b) = NULL, Apart(b),
           Invoked(b)' = Invoked(b), Held(b)' = n, Behind(b)' = NULL, Before(b)' = NULL,
           ~Fetched(b)', ~Apart(b)',
           Invoked(y) = NULL, Held(y) = NULL, Behind(y) = NULL, Before(y) = NULL,
           Behind(y)' = NULL, Before(y)' = NULL, ~Fetched(y)',
           \/ Invoked(y)' = NULL /\ Held(y)' = NULL /\ ~Apart(y)'
           \/ Invoked(y)' = o /\ Held(y)' = NULL /\ ~Apart(y)'
           \/ Invoked(y)' = NULL /\ Held(y)' = o /\ Apart(y)',
           \A r \in Pos \ {b, y} : Steady(r)
    PROVE  /\ OneSlot(A)' /\ Sides(A)' /\ Fetching' /\ Ends(A)'
           /\ \A x \in Objects : Out(A, x) => Out(A, x)'
           /\ Invoked(y)' # o /\ Held(y)' # o => Out(A, o)'
           /\ o \notin A /\ ~Out(A, o)
<1>1. o \notin A /\ n \in A \cup {NULL} /\ ~Out(A, o)
  BY Elsewhere DEF Sides
<1>2. /\ <<"behind", b>> \in Slot /\ <<"held", b>> \in Slot
      /\ <<"invoked", y>> \in Slot /\ <<"held", y>> \in Slot
      /\ <<"behind", b>> # <<"held", b>> /\ <<"behind", b>> # <<"invoked", y>>
      /\ <<"behind", b>> # <<"held", y>> /\ <<"held", b>> # <<"invoked", y>>
      /\ <<"held", b>> # <<"held", y>>
  BY SlotKinds
<1>3. /\ In(A, <<"behind", b>>) = n /\ In(A, <<"held", b>>) = o
      /\ In(A, <<"invoked", y>>) = NULL /\ In(A, <<"held", y>>) = NULL
  <2>1. In(A, <<"behind", b>>) = n
    BY SlotValues
  <2>2. In(A, <<"held", b>>) = o
    BY SlotValues
  <2>3. In(A, <<"invoked", y>>) = NULL
    BY SlotValues
  <2>4. In(A, <<"held", y>>) = NULL
    BY SlotValues
  <2> QED
    BY <2>1, <2>2, <2>3, <2>4
<1>4. /\ In(A, <<"behind", b>>)' = NULL /\ In(A, <<"held", b>>)' = n
      /\ In(A, <<"invoked", y>>)' = Invoked(y)' /\ In(A, <<"held", y>>)' = Held(y)'
  BY SlotValuesNext
<1>5. \A s \in Slot \ {<<"behind", b>>, <<"held", b>>, <<"invoked", y>>, <<"held", y>>} : Loses(A, A, s)
  <2>1. \A p \in Pos : /\ p # y => Loses(A, A, <<"invoked", p>>)
                       /\ p # b /\ p # y => Loses(A, A, <<"held", p>>)
                       /\ p # b => Loses(A, A, <<"behind", p>>)
    BY NullIsNone DEF In, Loses, Steady
  <2>2. /\ \A r \in Queues : Loses(A, A, <<"head", r>>)
        /\ \A x \in Objects : Loses(A, A, <<"next", x>>)
        /\ \A i \in Nat \ {0} : Loses(A, A, <<"root", i>>)
    BY DEF In, Loses, SameLists
  <2>3. ASSUME NEW p \in Pos, NEW s \in {<<"invoked", p>>, <<"held", p>>, <<"behind", p>>},
               s \notin {<<"behind", b>>, <<"held", b>>, <<"invoked", y>>, <<"held", y>>}
        PROVE  Loses(A, A, s)
    <3>1. CASE s = <<"invoked", p>>
      BY <2>1, <2>3, <3>1
    <3>2. CASE s = <<"held", p>>
      BY <2>1, <2>3, <3>2
    <3>3. CASE s = <<"behind", p>>
      BY <2>1, <2>3, <3>3
    <3> QED
      BY <2>3, <3>1, <3>2, <3>3
  <2>4. ASSUME NEW s \in Slot, \A p \in Pos : s \notin {<<"invoked", p>>, <<"held", p>>, <<"behind", p>>}
        PROVE  Loses(A, A, s)
    BY <2>2, <2>4, SlotKinds
  <2> QED
    BY <2>3, <2>4
<1>6. NULL \notin Objects
  BY NullIsNone
<1>7. /\ OneSlot(A)'
      /\ \A x \in Objects : Out(A, x) => Out(A, x)'
      /\ Invoked(y)' # o /\ Held(y)' # o => Out(A, o)'
  <2>1. CASE Invoked(y)' = NULL /\ Held(y)' = NULL
    <3>1. Loses(A, A, <<"invoked", y>>) /\ Loses(A, A, <<"held", y>>)
      BY <1>3, <1>4, <2>1 DEF Loses
    <3>2. \A s \in Slot \ {<<"behind", b>>, <<"held", b>>} : Loses(A, A, s)
      BY <1>5, <3>1
    <3>3. /\ OneSlot(A)'
          /\ \A x \in Objects : Out(A, x) \/ In(A, <<"held", b>>) = x => Out(A, x)'
      BY <1>2, <1>3, <1>4, <1>6, <3>2, SlotMove
    <3> QED
      BY <1>3, <3>3
  <2>2. CASE Invoked(y)' = o /\ Held(y)' = NULL
    <3>1. Loses(A, A, <<"held", y>>)
      BY <1>3, <1>4, <2>2 DEF Loses
    <3>2. \A s \in Slot \ {<<"behind", b>>, <<"held", b>>, <<"invoked", y>>} : Loses(A, A, s)
      BY <1>5, <3>1
    <3>3. OneSlot(A)' /\ \A x \in Objects : Out(A, x) => Out(A, x)'
      BY <1>2, <1>3, <1>4, <1>6, <2>2, <3>2, SlotChain
    <3> QED
      BY <2>2, <3>3
  <2>3. CASE Invoked(y)' = NULL /\ Held(y)' = o
    <3>1. Loses(A, A, <<"invoked", y>>)
      BY <1>3, <1>4, <2>3 DEF Loses
    <3>2. \A s \in Slot \ {<<"behind", b>>, <<"held", b>>, <<"held", y>>} : Loses(A, A, s)
      BY <1>5, <3>1
    <3>3. OneSlot(A)' /\ \A x \in Objects : Out(A, x) => Out(A, x)'
      BY <1>2, <1>3, <1>4, <1>6, <2>3, <3>2, SlotChain
    <3> QED
      BY <2>3, <3>3
  <2> QED
    BY <2>1, <2>2, <2>3
<1>8. Sides(A)'
  <2>1. \A p \in Pos \ {b, y} : /\ Invoked(p)' \notin A
                                /\ Behind(p)' \in A \cup {NULL}
                                /\ Apart(p)' => Held(p)' \notin A
                                /\ ~Apart(p)' => Held(p)' \in A \cup {NULL}
    BY DEF Sides, Steady
  <2>2. /\ Invoked(b)' \notin A
        /\ Behind(b)' \in A \cup {NULL}
        /\ Apart(b)' => Held(b)' \notin A
        /\ ~Apart(b)' => Held(b)' \in A \cup {NULL}
    BY <1>1 DEF Sides
  <2>3. /\ Invoked(y)' \notin A
        /\ Behind(y)' \in A \cup {NULL}
        /\ Apart(y)' => Held(y)' \notin A
        /\ ~Apart(y)' => Held(y)' \in A \cup {NULL}
    BY <1>1, <1>6
  <2> QED
    BY <2>1, <2>2, <2>3 DEF Sides, SameLists
<1>9. Fetching'
  BY DEF Fetching, Steady, SameLists
<1>10. Ends(A)'
  <2>1. \A p \in Pos : Before(p)' = Before(p)
    BY DEF Steady
  <2> QED
    BY <2>1 DEF Ends, SameLists
<1> QED
  BY <1>1, <1>7, <1>8, <1>9, <1>10

\* The frame of the drainer, and the one it goes on as.
LEMMA Drains ==
    ASSUME QueueTypes, NEW t \in Threads, At(t, "drain_pop"),
           NEW b, b = TopOf(t), NEW d, d = Drained(t), NEW o, o = Top(t).o, NEW n, n = Top(t).n
    PROVE  /\ stack[t] # <<>> /\ Top(t).q \in Queues /\ o \in Objects
           /\ b \in Pos /\ Up(b) \in Pos /\ b # Up(b)
           /\ d \in StackFrame /\ Alike(d, d)
           /\ Held(b) = o /\ Behind(b) = n /\ Before(b) = NULL /\ Fetched(b) /\ Apart(b)
           /\ Asking(b) = NULL /\ Rest(b) = <<>>
           /\ IsNow(b, d) =>
                 /\ Invoked(b)' = Invoked(b) /\ Held(b)' = n /\ Behind(b)' = NULL /\ Before(b)' = NULL
                 /\ ~Fetched(b)' /\ ~Apart(b)' /\ Asking(b)' = NULL /\ Rest(b)' = <<>>
           /\ Invoked(Up(b)) = NULL /\ Held(Up(b)) = NULL /\ Behind(Up(b)) = NULL
           /\ Before(Up(b)) = NULL /\ Asking(Up(b)) = NULL /\ Rest(Up(b)) = <<>>
           /\ ~Fetched(Up(b)) /\ ~Apart(Up(b))
<1>1. PICK f : f = Top(t)
  OBVIOUS
<1>2. stack[t] # <<>> /\ f.at = "drain_pop" /\ f.at \in FetchedAts
  BY <1>1, AtTop DEF FetchedAts
<1>3. /\ b \in Pos /\ Fr(b) = f /\ f \in StackFrame
      /\ Fr(Up(b)) = Nothing
  BY <1>1, <1>2, Becoming
<1>4. f \in DrainFrame /\ o \in Objects
  BY <1>1, <1>2, <1>3, FrameKinds DEF HoldAts
<1>5. f.q \in Queues /\ f.tq \in Targets /\ n \in Maybe
  BY <1>1, <1>4 DEF DrainFrame
<1>6. /\ Invoked(b) = f.q /\ Held(b) = o /\ Behind(b) = n /\ Before(b) = NULL /\ Fetched(b) /\ Apart(b)
      /\ Asking(b) = NULL /\ Rest(b) = <<>>
  BY <1>1, <1>2, <1>3, DrainFrames
     DEF HoldAts, Invoked, Held, Behind, Before, Asking, Rest, Fetched, Apart
<1>7. /\ d \in DrainFrame /\ d.q = f.q /\ d.o = n
      /\ \/ d.at = "drain" /\ n = NULL
         \/ d.at = "drain_next" /\ n \in Objects
  BY <1>1, <1>5 DEF Drained, Drain, DrainFrame, EmptyAts, HoldAts, Maybe
<1>8. /\ QOf(d) = f.q /\ OOf(d) = n /\ NOf(d) = NULL /\ PrevOf(d) = NULL
      /\ CallOf(d) = NULL /\ RestOf(d) = <<>> /\ d.at \notin FetchedAts \cup {"push"}
  BY <1>7, DrainFrames DEF EmptyAts, HoldAts, FetchedAts
<1>9. d \in StackFrame
  BY <1>7 DEF StackFrame, HoldAts, FetchedAts
<1>10. IsNow(b, d) =>
           /\ Invoked(b)' = Invoked(b) /\ Held(b)' = n /\ Behind(b)' = NULL /\ Before(b)' = NULL
           /\ ~Fetched(b)' /\ ~Apart(b)' /\ Asking(b)' = NULL /\ Rest(b)' = <<>>
  BY <1>6, <1>8 DEF IsNow
<1>11. /\ Invoked(Up(b)) = NULL /\ Held(Up(b)) = NULL /\ Behind(Up(b)) = NULL
       /\ Before(Up(b)) = NULL /\ Asking(Up(b)) = NULL /\ Rest(Up(b)) = <<>>
       /\ ~Fetched(Up(b)) /\ ~Apart(Up(b))
  BY <1>3, NothingIsBare DEF Bare, Asking, Rest, Invoked, Held, Behind, Before, Fetched, Apart
<1>12. Up(b) \in Pos /\ b # Up(b)
  BY <1>3 DEF Pos, Up
<1> QED
  BY <1>1, <1>2, <1>3, <1>4, <1>5, <1>6, <1>9, <1>10, <1>11, <1>12 DEF Alike

\* The drainer goes on, alone or with one frame on top, e, that invokes the item or
\* pushes it, or does not know it.
LEMMA Popping ==
    ASSUME QueueTypes, NEW A \in SUBSET Objects, Places(A), NEW t \in Threads, At(t, "drain_pop"),
           SameLists, NEW b, b = TopOf(t), NEW d, d = Drained(t), NEW o, o = Top(t).o,
           NEW y, y = Up(b), NEW e,
           \/ e = Nothing /\ Become(t, <<d>>)
           \/ e \in StackFrame /\ Become(t, <<e, d>>),
           NOf(e) = NULL, PrevOf(e) = NULL, CallOf(e) = NULL, e.at \notin FetchedAts,
           \/ QOf(e) = NULL /\ OOf(e) = NULL /\ e.at # "push"
           \/ QOf(e) = o /\ OOf(e) = NULL /\ e.at # "push"
           \/ QOf(e) = NULL /\ OOf(e) = o /\ e.at = "push"
    PROVE  /\ stack' \in [Threads -> Seq(StackFrame)]
           /\ OneSlot(A)' /\ Sides(A)' /\ Fetching' /\ Ends(A)'
           /\ \A x \in Objects : Out(A, x) => Out(A, x)'
           /\ \A x \in Objects : Nowhere(A, x) => Nowhere(A, x)'
           /\ QOf(e) = NULL /\ OOf(e) = NULL => Nowhere(A, o)'
           /\ o \in Objects /\ ~Nowhere(A, o)
           /\ y \in Pos /\ Rest(y) = <<>> /\ Rest(y)' = RestOf(e)
           /\ \A r \in Pos \ {y} : Rest(r)' = Rest(r)
           /\ \A r \in Pos : Asking(r)' \in {Asking(r), NULL}
<1>1. PICK n : n = Top(t).n
  OBVIOUS
<1>2. /\ stack[t] # <<>> /\ o \in Objects
      /\ b \in Pos /\ y \in Pos /\ b # y
      /\ d \in StackFrame
      /\ Held(b) = o /\ Behind(b) = n /\ Before(b) = NULL /\ Apart(b)
      /\ Asking(b) = NULL /\ Rest(b) = <<>>
      /\ IsNow(b, d) =>
            /\ Invoked(b)' = Invoked(b) /\ Held(b)' = n /\ Behind(b)' = NULL /\ Before(b)' = NULL
            /\ ~Fetched(b)' /\ ~Apart(b)' /\ Asking(b)' = NULL /\ Rest(b)' = <<>>
      /\ Invoked(y) = NULL /\ Held(y) = NULL /\ Behind(y) = NULL
      /\ Before(y) = NULL /\ Asking(y) = NULL /\ Rest(y) = <<>>
      /\ ~Fetched(y) /\ ~Apart(y)
  BY <1>1, Drains
<1>3. /\ Fr(Up(b)) = Nothing /\ Fr(Up(Up(b))) = Nothing
      /\ stack' \in [Threads -> Seq(StackFrame)] /\ Makes(b, d, e, Nothing)
  BY <1>2, Becoming
<1>4. /\ \A r \in Pos \ {b, y} : Still(r)
      /\ IsNow(b, d) /\ IsNow(y, e)
  <2>1. /\ \A r \in Pos \ {b, Up(b), Up(Up(b))} : Still(r)
        /\ Still(Up(Up(b))) /\ IsNow(b, d) /\ IsNow(Up(b), e)
    BY <1>3, Making, NothingIsBare
  <2> QED
    BY <2>1
<1>5. /\ Invoked(b)' = Invoked(b) /\ Held(b)' = n /\ Behind(b)' = NULL /\ Before(b)' = NULL
      /\ ~Fetched(b)' /\ ~Apart(b)' /\ Asking(b)' = NULL /\ Rest(b)' = <<>>
  BY <1>2, <1>4
<1>6. /\ Invoked(y)' = QOf(e) /\ Held(y)' = OOf(e) /\ Behind(y)' = NULL /\ Before(y)' = NULL
      /\ ~Fetched(y)' /\ (Apart(y)' <=> e.at = "push") /\ Asking(y)' = NULL /\ Rest(y)' = RestOf(e)
  BY <1>4 DEF IsNow
<1>7. /\ OneSlot(A) /\ Sides(A) /\ Fetching /\ Ends(A)
  BY DEF Places
<1>8. \A r \in Pos \ {b, y} : Steady(r)
  BY <1>4 DEF Still
<1>9. \/ Invoked(y)' = NULL /\ Held(y)' = NULL /\ ~Apart(y)'
      \/ Invoked(y)' = o /\ Held(y)' = NULL /\ ~Apart(y)'
      \/ Invoked(y)' = NULL /\ Held(y)' = o /\ Apart(y)'
  BY <1>6
<1>10. /\ OneSlot(A)' /\ Sides(A)' /\ Fetching' /\ Ends(A)'
       /\ \A x \in Objects : Out(A, x) => Out(A, x)'
       /\ Invoked(y)' # o /\ Held(y)' # o => Out(A, o)'
       /\ o \notin A /\ ~Out(A, o)
  BY <1>2, <1>5, <1>6, <1>7, <1>8, <1>9, ItemGoes
<1>11. \A x \in Objects : Nowhere(A, x) => Nowhere(A, x)'
  BY <1>10 DEF Nowhere, Out
<1>12. ~Nowhere(A, o)
  BY <1>10 DEF Nowhere, Out
<1>13. QOf(e) = NULL /\ OOf(e) = NULL => Nowhere(A, o)'
  <2>1. o # NULL
    BY <1>2, NullIsNone
  <2> QED
    BY <1>6, <1>10, <2>1 DEF Nowhere, Out
<1>14. /\ \A r \in Pos \ {y} : Rest(r)' = Rest(r)
       /\ \A r \in Pos : Asking(r)' \in {Asking(r), NULL}
  BY <1>2, <1>4, <1>5, <1>6 DEF Still
<1> QED
  BY <1>2, <1>3, <1>6, <1>10, <1>11, <1>12, <1>13, <1>14

\* The item is in no slot any more: its call was let go, or has begun.
LEMMA IsGone ==
    ASSUME NEW A \in SUBSET Objects, Places(A), NEW o \in Calls,
           OneSlot(A)', Sides(A)', Fetching', Ends(A)', ~Nowhere(A, o), Nowhere(A, o)',
           \A x \in Objects : Nowhere(A, x) => Nowhere(A, x)',
           SameLists, SameLocks, UNCHANGED use,
           begun' \in {begun, begun \cup {o}}, \A c \in Calls \ {o} : sema'[c] = sema[c],
           o \in begun' => sema'[o] = 0, ToCome(A)'
    PROVE  Places(A)'
<1>1. Locks(A)'
  BY DEF Places, Locks, SameLists, SameLocks, Objects
<1>2. Popped(A)'
  BY DEF Places, Popped, Objects
<1> QED
  BY <1>1, <1>2 DEF Places

LEMMA TurnsWithoutIt ==
    ASSUME NEW A \in SUBSET Objects, Places(A), NEW o \in Calls, ~Nowhere(A, o),
           \A x \in Objects : Nowhere(A, x) => Nowhere(A, x)',
           SameLists, UNCHANGED use,
           begun' \in {begun, begun \cup {o}}, \A c \in Calls \ {o} : sema'[c] = sema[c],
           \A r \in Pos : Rest(r)' = Rest(r) /\ Asking(r)' \in {Asking(r), NULL}
    PROVE  ToCome(A)'
<1>1. ASSUME NEW s \in Turn PROVE Due(s)' = Due(s) \/ Due(s)' \notin Calls
  <2>1. CASE \E r \in Pos : s = <<"asking", r>>
    BY <2>1, NullIsNone DEF Due
  <2>2. CASE \E r \in Pos, i \in Nat \ {0} : s = <<"rest", <<r, i>>>>
    BY <2>2 DEF Due
  <2>3. CASE \E c \in Calls, i \in Nat \ {0} : s = <<"body", <<c, i>>>>
    BY <2>3, NullIsNone DEF Due, U
  <2> QED
    BY <2>1, <2>2, <2>3 DEF Turn
<1>2. ToCome(A)
  BY DEF Places
<1>3. ASSUME NEW c \in Calls, Nowhere(A, c), next[c] = LISTLESS, c \notin begun, sema[c] = 0
      PROVE  c \notin begun' /\ sema'[c] = 0 /\ next'[c] = LISTLESS /\ Nowhere(A, c)'
  <2>1. c # o
    BY <1>3
  <2> QED
    BY <1>3, <2>1 DEF SameLists, Objects
<1> QED
  BY <1>1, <1>2, <1>3, StillToCome

\* What the drainer goes on as is a frame; a frame on top of it is put there as one.
LEMMA PopsQueue ==
    ASSUME QueueTypes, NEW A \in SUBSET Objects, Places(A), NEW t \in Threads, PopQueue(t)
    PROVE  QueueTypes' /\ Places(A)'
<1> USE DEF SameLists, SameLocks, lists, counts, refs, blocks
<1>1. PICK b, d, o, y : b = TopOf(t) /\ d = Drained(t) /\ o = Top(t).o /\ y = Up(b)
  OBVIOUS
<1>2. At(t, "drain_pop") /\ o \in Queues /\ UNCHANGED <<use, lists, counts, refs, blocks>>
  BY <1>1 DEF PopQueue, MayPop
<1>3. PICK e : e = Drain("invoke", o, targetq[o], NULL, NULL)
  OBVIOUS
<1>4. e \in DrainFrame /\ e.at = "invoke" /\ e.q = o /\ e \in StackFrame
  <2>1. targetq[o] \in Targets
    BY <1>2 DEF QueueTypes
  <2>2. e \in DrainFrame /\ e.at = "invoke" /\ e.q = o
    BY <1>2, <1>3, <2>1 DEF Drain, DrainFrame, EmptyAts, Maybe
  <2> QED
    BY <2>2 DEF StackFrame, HoldAts, FetchedAts
<1>5. Become(t, <<e, d>>)
  BY <1>1, <1>3 DEF PopQueue
<1>6. /\ QOf(e) = o /\ OOf(e) = NULL /\ NOf(e) = NULL /\ PrevOf(e) = NULL /\ CallOf(e) = NULL
      /\ RestOf(e) = <<>> /\ e.at \notin FetchedAts /\ e.at # "push"
  BY <1>4, DrainFrames DEF EmptyAts, HoldAts, FetchedAts
<1>7. SameLists
  BY <1>2
<1>8. /\ \/ e = Nothing /\ Become(t, <<d>>)
         \/ e \in StackFrame /\ Become(t, <<e, d>>)
      /\ \/ QOf(e) = NULL /\ OOf(e) = NULL /\ e.at # "push"
         \/ QOf(e) = o /\ OOf(e) = NULL /\ e.at # "push"
         \/ QOf(e) = NULL /\ OOf(e) = o /\ e.at = "push"
  BY <1>4, <1>5, <1>6
<1>9. /\ stack' \in [Threads -> Seq(StackFrame)]
      /\ OneSlot(A)' /\ Sides(A)' /\ Fetching' /\ Ends(A)'
      /\ \A x \in Objects : Out(A, x) => Out(A, x)'
      /\ Rest(y) = <<>> /\ Rest(y)' = <<>>
      /\ \A r \in Pos \ {y} : Rest(r)' = Rest(r)
      /\ \A r \in Pos : Asking(r)' \in {Asking(r), NULL}
  BY <1>1, <1>2, <1>6, <1>7, <1>8, Popping
<1>10. Places(A)'
  BY <1>2, <1>9, Moved
<1> QED
  BY <1>2, <1>9, <1>10, SameTypes DEF QueueTypes

LEMMA PopsBlock ==
    ASSUME QueueTypes, NEW A \in SUBSET Objects, Places(A), NEW t \in Threads, PopBlock(t)
    PROVE  QueueTypes' /\ Places(A)'
<1> USE DEF SameLists, SameLocks, lists, counts, refs, blocks
<1>1. PICK b, d, o, y : b = TopOf(t) /\ d = Drained(t) /\ o = Top(t).o /\ y = Up(b)
  OBVIOUS
<1>2. At(t, "drain_pop") /\ o \in Calls /\ UNCHANGED <<use, lists, counts, refs>>
  BY <1>1 DEF PopBlock, MayPop
<1>3. PICK e : e = Run(o)
  OBVIOUS
<1>4. /\ e \in StackFrame /\ RestOf(e) = U.body[o]
      /\ QOf(e) = NULL /\ OOf(e) = NULL /\ NOf(e) = NULL /\ PrevOf(e) = NULL
      /\ CallOf(e) = NULL /\ e.at \notin FetchedAts \cup {"push"}
  BY <1>2, <1>3, RunFrames
<1>5. Become(t, <<e, d>>) /\ begun' = begun \cup {o}
  <2>1. <<e>> \o <<d>> = <<e, d>>
    BY Concatenations
  <2>2. Become(t, <<e>> \o <<d>>) /\ begun' = begun \cup {o}
    BY <1>1, <1>3 DEF PopBlock, Begin
  <2> QED
    BY <2>1, <2>2
<1>6. SameLists
  BY <1>2
<1>7. /\ \/ e = Nothing /\ Become(t, <<d>>)
         \/ e \in StackFrame /\ Become(t, <<e, d>>)
      /\ QOf(e) = NULL /\ OOf(e) = NULL /\ e.at # "push" /\ e.at \notin FetchedAts
  BY <1>4, <1>5
<1>8. /\ stack' \in [Threads -> Seq(StackFrame)]
      /\ OneSlot(A)' /\ Sides(A)' /\ Fetching' /\ Ends(A)'
      /\ \A x \in Objects : Nowhere(A, x) => Nowhere(A, x)'
      /\ Nowhere(A, o)' /\ ~Nowhere(A, o)
      /\ y \in Pos /\ Rest(y) = <<>> /\ Rest(y)' = U.body[o]
      /\ \A r \in Pos \ {y} : Rest(r)' = Rest(r)
      /\ \A r \in Pos : Asking(r)' \in {Asking(r), NULL}
  BY <1>1, <1>2, <1>4, <1>6, <1>7, Popping
<1>9. o \notin begun /\ sema[o] = 0
  <2>1. o \notin begun /\ sema[o] # 1
    BY <1>2, <1>8 DEF Places, Popped
  <2> QED
    BY <1>2, <2>1 DEF QueueTypes
<1>10. ToCome(A)'
  <2>1. \A c \in Calls \ {o} : Nowhere(A, c) /\ next[c] = LISTLESS /\ c \notin begun /\ sema[c] = 0 =>
            sema'[c] = 0 /\ next'[c] = LISTLESS /\ Nowhere(A, c)'
    BY <1>2, <1>8 DEF Objects
  <2>2. \A s \in Turn : Due(s) # o
    BY <1>2, <1>8 DEF Places, ToCome
  <2>3. ToCome(A) /\ UNCHANGED use
    BY <1>2 DEF Places
  <2> QED
    BY <1>2, <1>5, <1>8, <1>9, <2>1, <2>2, <2>3, BeginTurns
<1>11. \A c \in Calls : sema'[c] = sema[c]
  BY <1>2
<1>12. SameLocks
  BY <1>2
<1>13. Places(A)'
  BY <1>2, <1>5, <1>6, <1>8, <1>9, <1>10, <1>11, <1>12, IsGone
<1> QED
  BY <1>2, <1>5, <1>8, <1>13 DEF QueueTypes

\* A call is let go, and its thread will run its block.
LEMMA LetsGo ==
    ASSUME QueueTypes, NEW A \in SUBSET Objects, Places(A), NEW t \in Threads, At(t, "drain_pop"),
           SameLists, SameLocks, UNCHANGED <<use, begun, targetq>>,
           suspend_cnt' \in [Queues -> Int],
           NEW o \in Calls, o = Top(t).o, sema' = [sema EXCEPT ![o] = 1], Become(t, <<Drained(t)>>)
    PROVE  QueueTypes' /\ Places(A)'
<1>1. PICK b, d, y, e : b = TopOf(t) /\ d = Drained(t) /\ y = Up(b) /\ e = Nothing
  OBVIOUS
<1>2. /\ QOf(e) = NULL /\ OOf(e) = NULL /\ NOf(e) = NULL /\ PrevOf(e) = NULL
      /\ CallOf(e) = NULL /\ RestOf(e) = <<>> /\ e.at \notin FetchedAts \cup {"push"}
  BY <1>1, NothingIsBare DEF Bare
<1>3. /\ stack' \in [Threads -> Seq(StackFrame)]
      /\ OneSlot(A)' /\ Sides(A)' /\ Fetching' /\ Ends(A)'
      /\ \A x \in Objects : Nowhere(A, x) => Nowhere(A, x)'
      /\ Nowhere(A, o)' /\ ~Nowhere(A, o)
      /\ \A r \in Pos : Rest(r)' = Rest(r) /\ Asking(r)' \in {Asking(r), NULL}
  <2>1. \/ e = Nothing /\ Become(t, <<d>>)
        \/ e \in StackFrame /\ Become(t, <<e, d>>)
    BY <1>1
  <2>2. /\ stack' \in [Threads -> Seq(StackFrame)]
        /\ OneSlot(A)' /\ Sides(A)' /\ Fetching' /\ Ends(A)'
        /\ \A x \in Objects : Nowhere(A, x) => Nowhere(A, x)'
        /\ Nowhere(A, o)' /\ ~Nowhere(A, o)
        /\ y \in Pos /\ Rest(y) = <<>> /\ Rest(y)' = <<>>
        /\ \A r \in Pos \ {y} : Rest(r)' = Rest(r)
        /\ \A r \in Pos : Asking(r)' \in {Asking(r), NULL}
    BY <1>1, <1>2, <2>1, Popping
  <2> QED
    BY <2>2
<1>4. /\ \A c \in Calls \ {o} : sema'[c] = sema[c]
      /\ sema' \in [Calls -> {0, 1}]
  BY DEF QueueTypes
<1>5. o \notin begun
  BY <1>3 DEF Places, Popped
<1>6. ToCome(A)'
  BY <1>3, <1>4, TurnsWithoutIt
<1>7. Places(A)'
  BY <1>3, <1>4, <1>5, <1>6, IsGone
<1> QED
  BY <1>3, <1>4, <1>7 DEF QueueTypes, SameLists

LEMMA PopsBarrierSync ==
    ASSUME QueueTypes, NEW A \in SUBSET Objects, Places(A), NEW t \in Threads, PopBarrierSync(t)
    PROVE  QueueTypes' /\ Places(A)'
<1>1. PICK q, o : q = Top(t).q /\ o = Top(t).o
  OBVIOUS
<1>2. /\ At(t, "drain_pop") /\ o \in Calls /\ UNCHANGED <<use, lists, refs, blocks>>
      /\ suspend_cnt' = Plus(suspend_cnt, q, 2) /\ sema' = [sema EXCEPT ![o] = 1]
      /\ Become(t, <<Drained(t)>>)
  BY <1>1 DEF PopBarrierSync, MayPop, HandOver
<1>3. q \in Queues
  BY <1>1, <1>2, Drains
<1>4. suspend_cnt' \in [Queues -> Int] /\ SameLocks
  BY <1>2, <1>3, Plusses DEF QueueTypes, SameLocks
<1>5. SameLists /\ UNCHANGED <<use, begun, targetq>>
  BY <1>2 DEF SameLists, lists, refs, blocks
<1> QED
  BY <1>1, <1>2, <1>4, <1>5, LetsGo

LEMMA Redirects ==
    ASSUME QueueTypes, NEW A \in SUBSET Objects, Places(A), NEW t \in Threads, Redirect(t)
    PROVE  QueueTypes' /\ Places(A)'
<1> USE DEF SameLists, SameLocks, lists, counts, refs, blocks
<1>1. PICK b, d, o, y : b = TopOf(t) /\ d = Drained(t) /\ o = Top(t).o /\ y = Up(b)
  OBVIOUS
<1>2. /\ At(t, "drain_pop") /\ o \in Calls /\ o \in Objects
      /\ UNCHANGED <<use, lists, suspend_cnt, targetq, blocks>>
  BY <1>1 DEF Redirect, Objects
<1>3. SameLists /\ SameLocks /\ suspend_cnt' \in [Queues -> Int]
  BY <1>2 DEF QueueTypes
<1>4. CASE U.op[o] = "sync"
  <2>1. sema' = [sema EXCEPT ![o] = 1] /\ Become(t, <<Drained(t)>>)
    BY <1>1, <1>4 DEF Redirect
  <2> QED
    BY <1>1, <1>2, <1>3, <2>1, LetsGo
<1>5. CASE U.op[o] # "sync"
  <2>1. PICK e : e = Frame("push", ROOT, o)
    OBVIOUS
  <2>2. e \in StackFrame /\ QOf(e) = NULL /\ OOf(e) = o /\ NOf(e) = NULL /\ PrevOf(e) = NULL
        /\ CallOf(e) = NULL /\ RestOf(e) = <<>> /\ e.at = "push" /\ e.at \notin FetchedAts
    BY <1>2, <2>1, PushFrames DEF Targets, FetchedAts
  <2>3. Become(t, <<e, d>>) /\ sema' = sema
    <3>1. <<e>> \o <<d>> = <<e, d>>
      BY Concatenations
    <3>2. Become(t, <<e>> \o <<d>>) /\ sema' = sema
      BY <1>1, <1>5, <2>1 DEF Redirect, Push
    <3> QED
      BY <3>1, <3>2
  <2>4. /\ \/ e = Nothing /\ Become(t, <<d>>)
           \/ e \in StackFrame /\ Become(t, <<e, d>>)
        /\ \/ QOf(e) = NULL /\ OOf(e) = NULL /\ e.at # "push"
           \/ QOf(e) = o /\ OOf(e) = NULL /\ e.at # "push"
           \/ QOf(e) = NULL /\ OOf(e) = o /\ e.at = "push"
    BY <2>2, <2>3
  <2>5. /\ stack' \in [Threads -> Seq(StackFrame)]
        /\ OneSlot(A)' /\ Sides(A)' /\ Fetching' /\ Ends(A)'
        /\ \A x \in Objects : Out(A, x) => Out(A, x)'
        /\ Rest(y) = <<>> /\ Rest(y)' = <<>>
        /\ \A r \in Pos \ {y} : Rest(r)' = Rest(r)
        /\ \A r \in Pos : Asking(r)' \in {Asking(r), NULL}
    BY <1>1, <1>2, <1>3, <2>2, <2>4, Popping
  <2>6. Places(A)'
    BY <1>2, <1>3, <2>3, <2>5, Moved
  <2> QED
    BY <1>2, <1>3, <2>3, <2>5, <2>6, SameTypes DEF QueueTypes
<1> QED
  BY <1>4, <1>5

LEMMA PopsSetTarget ==
    ASSUME QueueTypes, NEW A \in SUBSET Objects, Places(A), NEW t \in Threads, PopSetTarget(t)
    PROVE  QueueTypes' /\ Places(A)'
<1> USE DEF SameLists, SameLocks, lists, counts, refs
<1>1. PICK b, d, o, y, q : b = TopOf(t) /\ d = Drained(t) /\ o = Top(t).o /\ y = Up(b) /\ q = Top(t).q
  OBVIOUS
<1>2. /\ At(t, "drain_pop") /\ o \in Calls
      /\ UNCHANGED <<use, lists, counts>>
      /\ begun' = begun \cup {o} /\ targetq' = [targetq EXCEPT ![q] = U.to[o]]
      /\ Become(t, Released(targetq[q]) \o <<d>>)
  BY <1>1 DEF PopSetTarget, MayPop
<1>3. q \in Queues
  BY <1>1, <1>2, Drains
<1>4. U.to[o] \in Targets /\ targetq' \in [Queues -> Targets] /\ targetq[q] \in Targets
  <2>1. U.to[o] \in Targets
    BY <1>2, UseTypes DEF IsUse, Targets
  <2> QED
    BY <1>2, <1>3, <2>1 DEF QueueTypes
<1>5. PICK e : /\ \/ e = Nothing /\ Become(t, <<d>>)
                  \/ e \in StackFrame /\ Become(t, <<e, d>>)
               /\ Bare(e)
  <2>1. CASE targetq[q] = ROOT
    <3>1. <<>> \o <<d>> = <<d>>
      BY Concatenations
    <3>2. Become(t, <<>> \o <<d>>)
      BY <1>2, <2>1 DEF Released
    <3> QED
      BY <3>1, <3>2, NothingIsBare
  <2>2. CASE targetq[q] # ROOT
    <3>1. PICK e : e = Frame("release", targetq[q], NULL)
      OBVIOUS
    <3>2. e \in StackFrame /\ Bare(e)
      BY <1>4, <2>2, <3>1, BareFrames DEF Targets, BareAts
    <3>3. <<e>> \o <<d>> = <<e, d>>
      BY Concatenations
    <3>4. Become(t, <<e>> \o <<d>>)
      BY <1>2, <2>2, <3>1 DEF Released, Release
    <3> QED
      BY <3>2, <3>3, <3>4
  <2> QED
    BY <2>1, <2>2
<1>6. /\ QOf(e) = NULL /\ OOf(e) = NULL /\ NOf(e) = NULL /\ PrevOf(e) = NULL
      /\ CallOf(e) = NULL /\ RestOf(e) = <<>> /\ e.at \notin FetchedAts \cup {"push"}
  BY <1>5 DEF Bare
<1>7. SameLists /\ SameLocks
  BY <1>2
<1>8. /\ stack' \in [Threads -> Seq(StackFrame)]
      /\ OneSlot(A)' /\ Sides(A)' /\ Fetching' /\ Ends(A)'
      /\ \A x \in Objects : Nowhere(A, x) => Nowhere(A, x)'
      /\ Nowhere(A, o)' /\ ~Nowhere(A, o)
      /\ y \in Pos /\ Rest(y) = <<>> /\ Rest(y)' = <<>>
      /\ \A r \in Pos \ {y} : Rest(r)' = Rest(r)
      /\ \A r \in Pos : Asking(r)' \in {Asking(r), NULL}
  BY <1>1, <1>2, <1>5, <1>6, <1>7, Popping
<1>9. \A r \in Pos : Rest(r)' = Rest(r)
  BY <1>8
<1>10. \A c \in Calls : sema'[c] = sema[c]
  BY <1>2
<1>11. sema'[o] = 0
  <2>1. sema[o] # 1
    BY <1>2, <1>8 DEF Places, Popped
  <2> QED
    BY <1>2, <1>10, <2>1 DEF QueueTypes
<1>12. ToCome(A)'
  BY <1>2, <1>7, <1>8, <1>9, <1>10, TurnsWithoutIt
<1>13. Places(A)'
  BY <1>2, <1>7, <1>8, <1>10, <1>11, <1>12, IsGone
<1> QED
  BY <1>2, <1>4, <1>8, <1>13 DEF QueueTypes
-----------------------------------------------------------------------------
(* The beginning, and every step. *)

LEMMA InitTypes == Init => QueueTypes
<1> SUFFICES ASSUME Init PROVE QueueTypes
  OBVIOUS
<1>1. IsUse(U)
  BY UsesAssumption DEF Init, U
<1>2. \A t \in Threads : stack[t] \in Seq(StackFrame)
  <2>1. ASSUME NEW t \in Clients PROVE <<Run(t)>> \in Seq(StackFrame)
    <3>1. Run(t) \in RunFrame
      BY <1>1 DEF IsUse, Run, RunFrame, Bodies
    <3> QED
      BY <3>1 DEF StackFrame
  <2>2. ASSUME NEW t \in Threads PROVE stack[t] \in Seq(StackFrame)
    <3>1. CASE t \in Clients
      <4>1. stack[t] = <<Run(t)>>
        BY <3>1 DEF Init, Threads
      <4> QED
        BY <2>1, <3>1, <4>1
    <3>2. CASE t \notin Clients
      BY <3>2, EmptySeq DEF Init
    <3> QED
      BY <3>1, <3>2
  <2> QED
    BY <2>2
<1>3. stack \in [Threads -> Seq(StackFrame)]
  BY <1>2 DEF Init
<1>4. root \in Seq(Objects)
  BY EmptySeq DEF Init
<1> QED
  BY <1>3, <1>4 DEF Init, QueueTypes, Maybe, Targets

\* At first every client has its own calls before it, and no object is anywhere.
LEMMA InitFrames ==
    ASSUME Init, NEW p \in Pos
    PROVE  /\ Invoked(p) = NULL /\ Held(p) = NULL /\ Behind(p) = NULL /\ Before(p) = NULL
           /\ Asking(p) = NULL /\ ~Fetched(p) /\ ~Apart(p)
           /\ \/ Rest(p) = <<>>
              \/ p[1] \in Clients /\ p[2] = 0 /\ Rest(p) = U.body[p[1]]
           /\ Fr(p) = Nothing \/ (Fr(p).at = "run" /\ p[2] = 0)
<1>1. PICK t \in Threads, k \in Nat : p = <<t, k>>
  BY DEF Pos
<1>2. CASE t \in Clients /\ k = 0
  <2>1. stack[t] = <<Run(t)>>
    BY <1>2 DEF Init, Threads
  <2>2. Fr(p) = Run(t)
    <3>1. PICK f : f = Run(t)
      OBVIOUS
    <3>2. stack[t] = <<f>>
      BY <2>1, <3>1
    <3>3. Len(stack[t]) = 1 /\ stack[t][1] = f
      BY <3>2
    <3>4. p[1] = t /\ p[2] = 0
      BY <1>1, <1>2
    <3> QED
      BY <3>1, <3>3, <3>4 DEF Fr
  <2> QED
    BY <1>1, <1>2, <2>2
       DEF Run, Invoked, Held, Behind, Before, Asking, Rest, Fetched, Apart,
           QOf, OOf, NOf, PrevOf, CallOf, RestOf, FetchedAts, HoldAts, EmptyAts, FastAts
<1>3. CASE ~(t \in Clients /\ k = 0)
  <2>1. Fr(p) = Nothing
    <3>1. CASE t \in Clients
      <4>1. stack[t] = <<Run(t)>>
        BY <3>1 DEF Init, Threads
      <4>2. PICK f : f = Run(t)
        OBVIOUS
      <4>3. stack[t] = <<f>>
        BY <4>1, <4>2
      <4>4. Len(stack[t]) = 1
        BY <4>3
      <4>5. p[1] = t /\ p[2] = k /\ k > 0
        BY <1>1, <1>3, <3>1
      <4>6. ~(k < Len(stack[t]))
        <5>1. k \in Nat /\ k > 0
          BY <1>1, <4>5
        <5>2. ~(k < 1)
          BY <5>1
        <5> QED
          BY <4>4, <5>2
      <4>7. ~(p[2] < Len(stack[p[1]]))
        BY <4>5, <4>6
      <4> QED
        BY <4>7 DEF Fr
    <3>2. CASE t \notin Clients
      <4>1. stack[t] = <<>>
        BY <3>2 DEF Init
      <4> QED
        BY <1>1, <4>1 DEF Fr
    <3> QED
      BY <3>1, <3>2
  <2> QED
    BY <2>1, NothingIsBare DEF Bare, Invoked, Held, Behind, Before, Asking, Rest, Fetched, Apart
<1> QED
  BY <1>2, <1>3

LEMMA InitPlaces == Init => QueueTypes /\ Places({})
<1> SUFFICES ASSUME Init PROVE Places({})
  BY InitTypes
<1> DEFINE A == {}
<1>1. QueueTypes /\ IsUse(U)
  BY InitTypes, UseTypes
<1>2. \A s \in Slot : In(A, s) = NULL
  <2>1. \A p \in Pos : /\ In(A, <<"invoked", p>>) = NULL /\ In(A, <<"held", p>>) = NULL
                       /\ In(A, <<"behind", p>>) = NULL
    BY InitFrames DEF In
  <2>2. \A q \in Queues : In(A, <<"head", q>>) = NULL
    BY DEF In, Init
  <2>3. \A x \in Objects : In(A, <<"next", x>>) = NULL
    BY DEF In
  <2>4. \A i \in Nat \ {0} : In(A, <<"root", i>>) = NULL
    BY DEF In, Init
  <2> QED
    BY <2>1, <2>2, <2>3, <2>4, SlotKinds
<1>3. \A o \in Objects : Nowhere(A, o)
  BY <1>2, NullIsNone DEF Nowhere
<1>4. OneSlot(A)
  BY <1>2, NullIsNone DEF OneSlot
<1>5. Sides(A)
  BY InitFrames DEF Sides, Init
<1>6. Fetching
  BY InitFrames DEF Fetching
<1>7. Ends(A)
  BY InitFrames DEF Ends, Init
<1>8. Locks(A) /\ Popped(A)
  BY <1>3 DEF Locks, Popped, Init, Objects
<1>9. ASSUME NEW s \in Turn, Due(s) \in Calls
      PROVE  \/ /\ \E p \in Pos, i \in Nat \ {0} : s = <<"rest", <<p, i>>>>
                /\ s[2][1][1] \in Clients /\ s[2][1][2] = 0
                /\ s[2][2] \in DOMAIN U.body[s[2][1][1]] /\ Due(s) = U.body[s[2][1][1]][s[2][2]]
             \/ /\ \E c \in Calls, i \in Nat \ {0} : s = <<"body", <<c, i>>>>
                /\ s[2][2] \in DOMAIN U.body[s[2][1]] /\ Due(s) = U.body[s[2][1]][s[2][2]]
  <2>1. CASE \E p \in Pos : s = <<"asking", p>>
    BY <1>9, <2>1, InitFrames, NullIsNone DEF Due
  <2>2. CASE \E p \in Pos, i \in Nat \ {0} : s = <<"rest", <<p, i>>>>
    <3>1. PICK p \in Pos, i \in Nat \ {0} : s = <<"rest", <<p, i>>>>
      BY <2>2
    <3>2. i <= Len(Rest(p)) /\ Due(s) = Rest(p)[i]
      BY <1>9, <3>1, NullIsNone DEF Due
    <3>3. p[1] \in Clients /\ p[2] = 0 /\ Rest(p) = U.body[p[1]]
      BY <3>2, InitFrames
    <3>4. U.body[p[1]] \in Seq(Calls)
      BY <1>1, <3>3 DEF IsUse
    <3>5. i \in DOMAIN U.body[p[1]]
      BY <3>2, <3>3, <3>4
    <3> QED
      BY <3>1, <3>2, <3>3, <3>5
  <2>3. CASE \E c \in Calls, i \in Nat \ {0} : s = <<"body", <<c, i>>>>
    <3>1. PICK c \in Calls, i \in Nat \ {0} : s = <<"body", <<c, i>>>>
      BY <2>3
    <3>2. i <= Len(U.body[c]) /\ Due(s) = U.body[c][i]
      BY <1>9, <3>1, NullIsNone DEF Due
    <3>3. U.body[c] \in Seq(Calls)
      BY <1>1 DEF IsUse
    <3>4. i \in DOMAIN U.body[c]
      BY <3>2, <3>3
    <3> QED
      BY <3>1, <3>2, <3>4
  <2> QED
    BY <2>1, <2>2, <2>3 DEF Turn
<1>10. ASSUME NEW r \in Turn, NEW s \in Turn, Due(r) = Due(s), Due(s) \in Calls
       PROVE  r = s
  <2>1. \A x, y \in Calls \cup Clients : \A i \in DOMAIN U.body[x], j \in DOMAIN U.body[y] :
            U.body[x][i] = U.body[y][j] => x = y /\ i = j
    BY <1>1 DEF IsUse
  <2>2. CASE /\ \E p \in Pos, i \in Nat \ {0} : r = <<"rest", <<p, i>>>>
             /\ \E p \in Pos, i \in Nat \ {0} : s = <<"rest", <<p, i>>>>
    <3>1. PICK p \in Pos, i \in Nat \ {0}, w \in Pos, j \in Nat \ {0} :
               r = <<"rest", <<p, i>>>> /\ s = <<"rest", <<w, j>>>>
      BY <2>2
    <3>2. /\ p[1] \in Clients /\ p[2] = 0 /\ i \in DOMAIN U.body[p[1]] /\ Due(r) = U.body[p[1]][i]
          /\ w[1] \in Clients /\ w[2] = 0 /\ j \in DOMAIN U.body[w[1]] /\ Due(s) = U.body[w[1]][j]
      BY <1>9, <1>10, <3>1
    <3>3. p[1] = w[1] /\ i = j
      <4>1. PICK x, z \in Calls \cup Clients : x = p[1] /\ z = w[1]
        BY <3>2
      <4>2. i \in DOMAIN U.body[x] /\ j \in DOMAIN U.body[z] /\ U.body[x][i] = U.body[z][j]
        BY <1>10, <3>2, <4>1
      <4>3. x = z /\ i = j
        BY <2>1, <4>2
      <4> QED
        BY <4>1, <4>3
    <3>4. p = w
      BY <3>2, <3>3 DEF Pos
    <3> QED
      BY <3>1, <3>3, <3>4
  <2>3. CASE /\ \E c \in Calls, i \in Nat \ {0} : r = <<"body", <<c, i>>>>
             /\ \E c \in Calls, i \in Nat \ {0} : s = <<"body", <<c, i>>>>
    <3>1. PICK c \in Calls, i \in Nat \ {0}, e \in Calls, j \in Nat \ {0} :
               r = <<"body", <<c, i>>>> /\ s = <<"body", <<e, j>>>>
      BY <2>3
    <3>2. /\ i \in DOMAIN U.body[c] /\ Due(r) = U.body[c][i]
          /\ j \in DOMAIN U.body[e] /\ Due(s) = U.body[e][j]
      BY <1>9, <1>10, <3>1
    <3>3. c = e /\ i = j
      BY <1>10, <2>1, <3>2
    <3> QED
      BY <3>1, <3>3
  <2>4. ASSUME NEW p \in Pos, NEW i \in Nat \ {0}, NEW c \in Calls, NEW j \in Nat \ {0},
               {r, s} = {<<"rest", <<p, i>>>>, <<"body", <<c, j>>>>}
        PROVE  FALSE
    <3>1. /\ p[1] \in Clients /\ i \in DOMAIN U.body[p[1]] /\ Due(s) = U.body[p[1]][i]
          /\ j \in DOMAIN U.body[c] /\ Due(s) = U.body[c][j]
      <4>1. CASE r = <<"rest", <<p, i>>>> /\ s = <<"body", <<c, j>>>>
        BY <1>9, <1>10, <4>1
      <4>2. CASE s = <<"rest", <<p, i>>>> /\ r = <<"body", <<c, j>>>>
        BY <1>9, <1>10, <4>2
      <4> QED
        BY <2>4, <4>1, <4>2
    <3>2. p[1] = c
      <4>1. PICK x, z \in Calls \cup Clients : x = p[1] /\ z = c
        BY <3>1
      <4>2. i \in DOMAIN U.body[x] /\ j \in DOMAIN U.body[z] /\ U.body[x][i] = U.body[z][j]
        BY <3>1, <4>1
      <4>3. x = z
        BY <2>1, <4>2
      <4> QED
        BY <4>1, <4>3
    <3> QED
      BY <3>1, <3>2, RootAssumption
  <2>5. ASSUME NEW x \in {r, s}
        PROVE  \/ \E p \in Pos, i \in Nat \ {0} : x = <<"rest", <<p, i>>>>
               \/ \E c \in Calls, i \in Nat \ {0} : x = <<"body", <<c, i>>>>
    <3>1. Due(x) \in Calls /\ x \in Turn
      BY <1>10, <2>5
    <3> QED
      BY <1>9, <3>1
  <2>6. CASE /\ \E p \in Pos, i \in Nat \ {0} : r = <<"rest", <<p, i>>>>
             /\ \E c \in Calls, i \in Nat \ {0} : s = <<"body", <<c, i>>>>
    BY <2>4, <2>6
  <2>7. CASE /\ \E c \in Calls, i \in Nat \ {0} : r = <<"body", <<c, i>>>>
             /\ \E p \in Pos, i \in Nat \ {0} : s = <<"rest", <<p, i>>>>
    <3>1. PICK c \in Calls, j \in Nat \ {0}, p \in Pos, i \in Nat \ {0} :
               r = <<"body", <<c, j>>>> /\ s = <<"rest", <<p, i>>>>
      BY <2>7
    <3>2. {r, s} = {<<"rest", <<p, i>>>>, <<"body", <<c, j>>>>}
      BY <3>1
    <3> QED
      BY <2>4, <3>2
  <2> QED
    BY <2>2, <2>3, <2>5, <2>6, <2>7
<1>11. ToCome(A)
  BY <1>3, <1>10 DEF ToCome, Init, Objects
<1> QED
  BY <1>4, <1>5, <1>6, <1>7, <1>8, <1>11 DEF Places

LEMMA EveryStep ==
    ASSUME QueueTypes, NEW A \in SUBSET Objects, Places(A), NEW t \in Threads, Step(t)
    PROVE  QueueTypes' /\ \E B \in SUBSET Objects : Relists(t, A, B) /\ Places(B)'
<1>1. Relists(t, A, A)
  BY DEF Relists
<1>3. CASE Submit(t)
  BY <1>1, <1>3, Submits
<1>4. CASE Enlist(t)
  <2>1. CASE PushOnRoot(t)
    BY <1>1, <2>1, PushesOnRoot
  <2>2. CASE ExchangeTail(t)
    BY <1>1, <2>2, ExchangesTail
  <2>3. CASE LinkPrevious(t)
    BY <1>1, <2>3, LinksPrevious
  <2>4. CASE PublishHead(t)
    BY <1>1, <2>4, PublishesHead
  <2>5. CASE WakeupTrylock(t)
    BY <1>1, <2>5, WakeupLocks
  <2>6. CASE WakeupUnlessSuspended(t) \/ WakeupUnlessEmpty(t) \/ ReleaseReference(t)
    BY <1>1, <2>6, WakeupSteps
  <2> QED
    BY <1>4, <2>1, <2>2, <2>3, <2>4, <2>5, <2>6 DEF Enlist
<1>5. CASE Sync(t)
  <2>1. CASE \/ SyncUnlessSuspended(t) \/ SyncAdd(t) \/ SyncBackOut(t) \/ SyncWait(t)
             \/ BarrierSyncUnlessSuspended(t) \/ BarrierSyncTrylock(t) \/ BarrierSyncWait(t)
    BY <1>1, <2>1, Syncs
  <2>2. CASE RunningSub(t) \/ Unlock(t) \/ BarrierSyncResume(t)
    BY <1>1, <2>2, WakeupSteps
  <2> QED
    BY <1>5, <2>1, <2>2 DEF Sync
<1>6. CASE Invoke(t)
  <2>1. CASE \/ InvokeUnlessSuspended(t) \/ InvokeTrylock(t) \/ DrainUntilEmpty(t)
             \/ DrainUnlessSuspended(t) \/ DrainUnlessFull(t) \/ DrainUnlessShared(t)
    BY <1>1, <2>1, DrainLooks
  <2>2. CASE DrainHead(t)
    BY <1>1, <2>2, DrainsHead
  <2>3. CASE DrainNext(t)
    BY <1>1, <2>3, DrainsNext
  <2>4. CASE PopBlock(t)
    BY <1>1, <2>4, PopsBlock
  <2>5. CASE PopQueue(t)
    BY <1>1, <2>5, PopsQueue
  <2>6. CASE PopSetTarget(t)
    BY <1>1, <2>6, PopsSetTarget
  <2>7. CASE PopBarrierSync(t)
    BY <1>1, <2>7, PopsBarrierSync
  <2>8. CASE Redirect(t)
    BY <1>1, <2>8, Redirects
  <2>9. CASE Undo(t)
    BY <1>1, <2>9, Undoes
  <2>10. CASE UndoHead(t)
    BY <1>1, <2>10, UndoesHead
  <2>11. CASE UndoInFront(t)
    BY <1>1, <2>11, UndoesInFront
  <2>12. CASE InvokeUnlock(t)
    BY <1>1, <2>12, InvokeUnlocks
  <2>13. CASE InvokeDropLock(t)
    BY <1>1, <2>13, InvokeDropsLock
  <2>14. CASE InvokeVerifyIdle(t)
    BY <1>1, <2>14, InvokeLooksOnceMore
  <2> QED
    BY <1>6, <2>1, <2>2, <2>3, <2>4, <2>5, <2>6, <2>7, <2>8, <2>9, <2>10, <2>11, <2>12, <2>13, <2>14
       DEF Invoke
<1>7. CASE t \in Workers /\ TakeFromRoot(t)
  BY <1>1, <1>7, TakesFromRoot
<1> QED
  BY <1>3, <1>4, <1>5, <1>6, <1>7 DEF Step

LEMMA Stutters ==
    ASSUME QueueTypes, NEW A \in SUBSET Objects, Places(A), UNCHANGED vars
    PROVE  QueueTypes' /\ Places(A)'
<1>1. UNCHANGED <<use, items_tail, items_head, next, root, suspend_cnt, sema, targetq, stack, begun>>
  BY DEF vars, lists, counts, refs, blocks
<1>2. SameLists /\ SameLocks
  BY <1>1 DEF SameLists, SameLocks
<1>3. \A r \in Pos : Still(r)
  <2>1. \A r \in Pos : Fr(r)' = Fr(r)
    BY <1>1 DEF Fr
  <2> QED
    BY <2>1 DEF Still, Steady, Invoked, Held, Behind, Before, Asking, Rest, Fetched, Apart
<1>4. Places(A)'
  BY <1>1, <1>2, <1>3, Quiet
<1>5. QueueTypes'
  BY <1>1 DEF QueueTypes
<1> QED
  BY <1>4, <1>5

\* Every object is in one place at most, and what is on no list and in no function's
\* hands may be put somewhere: _dispatch_queue_push and the functions of the drain.
THEOREM EveryObjectInOnePlace == Spec => []LinearInv
<1>1. Init => LinearInv
  BY InitPlaces DEF LinearInv
<1>2. LinearInv /\ [Next]_vars => LinearInv'
  <2>1. SUFFICES ASSUME QueueTypes, NEW A \in SUBSET Objects, Places(A), [Next]_vars
                 PROVE  LinearInv'
    BY DEF LinearInv
  <2>2. CASE UNCHANGED vars
    BY <2>1, <2>2, Stutters DEF LinearInv
  <2>3. CASE Next
    BY <2>1, <2>3, EveryStep DEF Next, LinearInv
  <2> QED
    BY <2>1, <2>2, <2>3
<1> QED
  BY <1>1, <1>2, PTL DEF Spec
-----------------------------------------------------------------------------
(* Who owns a queue. *)

\* The slot through which a frame owns q.
LEMMA OwnersSlot ==
    ASSUME QueueTypes, NEW A, NEW q \in Queues, NEW t \in Threads, NEW i \in DOMAIN stack[t],
           Owns(stack[t][i], q)
    PROVE  \E k \in {"held", "invoked"} :
               /\ <<k, <<t, Len(stack[t]) - i>>>> \in Slot
               /\ In(A, <<k, <<t, Len(stack[t]) - i>>>>) = q
<1>1. PICK n, f, p : n = Len(stack[t]) /\ f = stack[t][i] /\ p = <<t, n - i>>
  OBVIOUS
<1>2. stack[t] \in Seq(StackFrame)
  BY DEF QueueTypes
<1>3. n \in Nat /\ i \in 1 .. n
  BY <1>1, <1>2
<1>4. p \in Pos /\ Fr(p) = f
  <2>1. n - i \in Nat /\ n - i < n /\ n - (n - i) = i
    BY <1>3
  <2>2. p \in Pos /\ p[1] = t /\ p[2] = n - i
    BY <1>1, <2>1 DEF Pos
  <2> QED
    BY <1>1, <2>1, <2>2 DEF Fr
<1>5. CASE f.at \in {"push", "publish", "link"} /\ f.o = q
  <2>1. Held(p) = q
    BY <1>4, <1>5, Attributes DEF Held
  <2> QED
    BY <1>1, <1>4, <2>1, SlotKinds, SlotValues
<1>6. CASE f.at \in EmptyAts \cup HoldAts /\ f.q = q
  <2>1. Invoked(p) = q
    BY <1>4, <1>6 DEF Invoked, QOf
  <2> QED
    BY <1>1, <1>4, <2>1, SlotKinds, SlotValues
<1> QED
  BY <1>1, <1>5, <1>6 DEF Owns, EmptyAts, HoldAts, FetchedAts

LEMMA OneOwnerInPlaces ==
    ASSUME QueueTypes, NEW A \in SUBSET Objects, Places(A)
    PROVE  OneOwner
<1> SUFFICES ASSUME NEW q \in Queues, NEW owners, NEW places,
                    owners = UNION {{<<t, i>> : i \in {j \in DOMAIN stack[t] : Owns(stack[t][j], q)}} :
                                        t \in Threads},
                    places = {i \in DOMAIN root : root[i] = q}
             PROVE  /\ Cardinality(owners) + Cardinality(places) <= 1
                    /\ owners # {} \/ places # {} \/ next[q] # LISTLESS => suspend_cnt[q] % 2 = 1
  BY DEF OneOwner
<1>1. q \in Objects
  BY DEF Objects
<1>2. OneSlot(A)
  BY DEF Places
<1>3. ASSUME NEW x \in owners
      PROVE  \E t \in Threads, i \in Nat, k \in {"held", "invoked"} :
                 /\ x = <<t, i>>
                 /\ <<k, <<t, Len(stack[t]) - i>>>> \in Slot
                 /\ In(A, <<k, <<t, Len(stack[t]) - i>>>>) = q
  <2>1. PICK t \in Threads : \E i \in DOMAIN stack[t] : x = <<t, i>> /\ Owns(stack[t][i], q)
    BY <1>3
  <2>2. PICK i \in DOMAIN stack[t] : x = <<t, i>> /\ Owns(stack[t][i], q)
    BY <2>1
  <2>3. i \in Nat
    <3>1. stack[t] \in Seq(StackFrame)
      BY DEF QueueTypes
    <3> QED
      BY <3>1
  <2> QED
    BY <2>2, <2>3, OwnersSlot
<1>4. ASSUME NEW i \in places
      PROVE  i \in Nat \ {0} /\ <<"root", i>> \in Slot /\ In(A, <<"root", i>>) = q
  <2>1. i \in Nat \ {0} /\ i <= Len(root) /\ root[i] = q
    BY <1>4 DEF QueueTypes
  <2> QED
    BY <2>1, SlotKinds, SlotValues
<1>5. ASSUME NEW x \in owners, NEW y \in owners PROVE x = y
  <2>1. PICK t \in Threads, i \in Nat, k \in {"held", "invoked"} :
             /\ x = <<t, i>>
             /\ <<k, <<t, Len(stack[t]) - i>>>> \in Slot
             /\ In(A, <<k, <<t, Len(stack[t]) - i>>>>) = q
    BY <1>3
  <2>2. PICK u \in Threads, j \in Nat, l \in {"held", "invoked"} :
             /\ y = <<u, j>>
             /\ <<l, <<u, Len(stack[u]) - j>>>> \in Slot
             /\ In(A, <<l, <<u, Len(stack[u]) - j>>>>) = q
    BY <1>3
  <2>3. <<k, <<t, Len(stack[t]) - i>>>> = <<l, <<u, Len(stack[u]) - j>>>>
    BY <1>1, <1>2, <2>1, <2>2 DEF OneSlot
  <2>4. t = u /\ Len(stack[t]) - i = Len(stack[t]) - j
    BY <2>3
  <2>5. Len(stack[t]) \in Nat
    BY DEF QueueTypes
  <2>6. i = j
    BY <2>1, <2>2, <2>4, <2>5
  <2> QED
    BY <2>1, <2>2, <2>4, <2>6
<1>6. ASSUME NEW i \in places, NEW j \in places PROVE i = j
  <2>1. /\ <<"root", i>> \in Slot /\ In(A, <<"root", i>>) = q
        /\ <<"root", j>> \in Slot /\ In(A, <<"root", j>>) = q
    BY <1>4
  <2>2. <<"root", i>> = <<"root", j>>
    BY <1>1, <1>2, <2>1 DEF OneSlot
  <2> QED
    BY <2>2
<1>7. ASSUME NEW x \in owners, NEW i \in places PROVE FALSE
  <2>1. PICK t \in Threads, j \in Nat, k \in {"held", "invoked"} :
             /\ <<k, <<t, Len(stack[t]) - j>>>> \in Slot
             /\ In(A, <<k, <<t, Len(stack[t]) - j>>>>) = q
    BY <1>3
  <2>2. <<"root", i>> \in Slot /\ In(A, <<"root", i>>) = q
    BY <1>4
  <2>3. <<k, <<t, Len(stack[t]) - j>>>> = <<"root", i>>
    BY <1>1, <1>2, <2>1, <2>2 DEF OneSlot
  <2> QED
    BY <2>3
<1>8. owners = {} \/ \E x : owners = {x}
  BY <1>5
<1>9. places = {} \/ \E i : places = {i}
  BY <1>6
<1>10. Cardinality({}) = 0 /\ \A x : Cardinality({x}) = 1
  BY FS_EmptySet, FS_Singleton
<1>11. Cardinality(owners) + Cardinality(places) <= 1
  <2>1. \/ Cardinality(owners) = 0 /\ Cardinality(places) = 0
        \/ Cardinality(owners) = 0 /\ Cardinality(places) = 1
        \/ Cardinality(owners) = 1 /\ Cardinality(places) = 0
    BY <1>7, <1>8, <1>9, <1>10
  <2> QED
    BY <2>1
<1>12. owners # {} \/ places # {} => \E s \in Slot : In(A, s) = q
  <2>1. ASSUME NEW x \in owners PROVE \E s \in Slot : In(A, s) = q
    <3>1. PICK t \in Threads, j \in Nat, k \in {"held", "invoked"} :
               /\ <<k, <<t, Len(stack[t]) - j>>>> \in Slot
               /\ In(A, <<k, <<t, Len(stack[t]) - j>>>>) = q
      BY <1>3, <2>1
    <3> QED
      BY <3>1
  <2>2. ASSUME NEW i \in places PROVE \E s \in Slot : In(A, s) = q
    BY <1>4, <2>2
  <2> QED
    BY <2>1, <2>2
<1>13. owners # {} \/ places # {} \/ next[q] # LISTLESS => suspend_cnt[q] % 2 = 1
  BY <1>12 DEF Places, Locks, Nowhere
<1> QED
  BY <1>11, <1>13

\* A queue is on one list at most, its target's, or in the hands of one function that
\* pushes or invokes it, and then the lock bit of its suspend count is set, however the
\* threads interleave: _dispatch_wakeup, _dispatch_queue_invoke, _dispatch_queue_push.
THEOREM OneOwnerHolds == Spec => []OneOwner
<1>1. LinearInv => OneOwner
  BY OneOwnerInPlaces DEF LinearInv
<1> QED
  BY <1>1, EveryObjectInOnePlace, PTL
=============================================================================
