------------------------ MODULE DispatchOverlapProofs ------------------------
(***************************************************************************)
(* Theorems about DispatchQueue: what dq_running counts, and which blocks   *)
(* of a queue may run at the same time.                                     *)
(*                                                                          *)
(* A frame at certain places stands for a share of its queue: the drainer   *)
(* and a barrier that found the queue idle have it to themselves, a shared  *)
(* block has a part, and a thread that was let go by the drainer holds a    *)
(* suspension of the queue.  A call that has been let go and whose thread   *)
(* or worker has not come for it holds the same share on its behalf.        *)
(***************************************************************************)
EXTENDS DispatchQueueProofs

SyncOps    == {"sync", "barrier_sync"}
SyncAts    == {"sync", "sync_add", "sync_back", "sync_wait"}
BarrierAts == {"bsync", "bsync_trylock", "bsync_wait"}
SharedAts  == {"running_sub", "sync_back"}
OwnerAts   == {"drain", "drain_head", "drain_next", "drain_suspended", "drain_width", "drain_pop",
               "undo", "undo_wait", "undo_head", "invoke_unlock", "unlock"}
MarkAts    == SharedAts \cup OwnerAts \cup {"resume"}

(* Every object is on the list it belongs to.                               *)

\* The queue on whose list an object belongs: that of its call, or the target.
Home(o) == IF o \in Calls THEN U.q[o] ELSE targetq[o]

\* A call that may get to the global queue: its own, or one that is no barrier.
Free(c) == U.q[c] = ROOT \/ ~IsBarrier(c)

Fits(f) ==
    /\ f.at \in FastAts \cup WaitAts => U.q[f.o] = f.q
    /\ f.at \in SyncAts => U.op[f.o] = "sync" /\ ~IsBarrier(f.o)
    /\ f.at \in BarrierAts => U.op[f.o] \in SyncOps /\ IsBarrier(f.o)
    /\ f.at = "push" => Home(f.o) = f.q \/ (f.q = ROOT /\ f.o \in Calls /\ Free(f.o))
    /\ f.at = "publish" => Home(f.o) = f.q
    /\ f.at = "link" => Home(f.prev) = Home(f.o)
    /\ f.at \in HoldAts => Home(f.o) = f.q
    /\ f.at \in FetchedAts => /\ f.n # NULL => Home(f.n) = f.q
                              /\ f.o \in Calls => ticket[f.o] > 0
    /\ f.at \in SharedAts => U.width[f.q] > 1

AllFit == \A p \in Pos : Fits(Fr(p))

\* A list of a queue has what belongs there, the root's list only free calls; a call
\* has a ticket once it was put on a list, and before it is let go.
Lists(listed) ==
    /\ \A q \in Queues : /\ items_head[q] # NULL => Home(items_head[q]) = q
                         /\ items_tail[q] # NULL => Home(items_tail[q]) = q
    /\ \A x \in listed : next[x] # NULL => Home(next[x]) = Home(x)
    /\ \A i \in 1 .. Len(root) : root[i] \in Calls => Free(root[i])

Tickets(listed) ==
    /\ ticket \in [Calls -> Nat] /\ IsFiniteSet({c \in Calls : ticket[c] > 0})
    /\ \A x \in listed \cap Calls : ticket[x] > 0
    /\ \A c \in Calls : /\ next[c] = LISTLESS => ticket[c] = 0
                        /\ sema[c] = 1 => ticket[c] > 0

Listed(listed) == AllFit /\ Lists(listed) /\ Tickets(listed)

(* A block runs on top of the frame that holds its share.                   *)

Runs(p) == Fr(Up(p)).at = "run"
Block(p) == Fr(Up(p)).o

Beneath(f, c) ==
    /\ c \in begun /\ f.q \in Queues /\ U.q[c] = f.q
    /\ \/ f.at = "running_sub" /\ ~IsBarrier(c)
       \/ f.at = "unlock" /\ U.op[c] \in SyncOps /\ ticket[c] = 0
       \/ f.at = "resume" /\ U.op[c] \in SyncOps /\ ticket[c] > 0
       \/ f.at \in {"drain", "drain_next"}

RunInv ==
    /\ \A p \in Pos : Runs(p) => Beneath(Fr(p), Block(p))
    /\ \A c \in begun \ ended : U.q[c] \in Queues => \E p \in Pos : Runs(p) /\ Block(p) = c

(* The shares of a queue.                                                   *)

Marked(ats, q) == {p \in Pos : Fr(p).at \in ats /\ Fr(p).q = q}
Sharing(q)  == Marked(SharedAts, q)
Owning(q)   == Marked(OwnerAts, q)
Resuming(q) == Marked({"resume"}, q)

\* A call on its way to the root's list, on it, or let go.
Pushed(c) == \E p \in Pos : Fr(p).at = "push" /\ Fr(p).q = ROOT /\ Fr(p).o = c
Rooted(c) == \E i \in 1 .. Len(root) : root[i] = c
LetGo(c)  == sema[c] = 1 \/ Rooted(c) \/ Pushed(c)

Letting(q) == {c \in Calls : U.q[c] = q /\ ~IsBarrier(c) /\ LetGo(c)}
Handed(q)  == {c \in Calls : U.q[c] = q /\ IsBarrier(c) /\ sema[c] = 1}

Both(frames, calls) == ({"at"} \X frames) \cup ({"of"} \X calls)
Shares(q) == Both(Sharing(q), Letting(q))
Hands(q)  == Both(Resuming(q), Handed(q))

\* dq_running is two for each shared block, and one for the owner, if there is one.
CountOf(q) ==
    /\ IsFiniteSet(Shares(q))
    /\ running[q] = 2 * Cardinality(Shares(q)) + (IF Owning(q) = {} THEN 0 ELSE 1)
    /\ \A p, r \in Owning(q) : p = r

CountInv == \A q \in Queues : CountOf(q)

(* Hand-overs.                                                              *)

\* A queue whose blocks some call waits for.
WaitedFor(q) == \E c \in Calls : U.q[c] = q /\ U.op[c] \in SyncOps

\* Synchronous calls may look at the queue, but no shared block runs.
OnlyLooks(q) == Letting(q) = {} /\ \A p \in Sharing(q) : Fr(p).at = "sync_back"

\* The shared blocks that run were not listed.
OnlyFast(q) == /\ Letting(q) = {}
               /\ \A p \in Sharing(q) : Fr(p).at = "running_sub" /\ Runs(p) => Fast(Block(p))

\* The owner is about to take an item off, or runs one that it took off.
Busy(p) == \/ Fr(p).at \in {"drain_width", "drain_pop"}
           \/ (Fr(p).at # "unlock" /\ Runs(p))

HandOf(q) ==
    /\ WaitedFor(q) => suspend_cnt[q] >= 0
    /\ \A x, y \in Hands(q) : x = y
    /\ \A p \in Owning(q) : Runs(p) => OnlyLooks(q)
    /\ Hands(q) # {} => /\ WaitedFor(q) /\ suspend_cnt[q] >= 2 /\ OnlyFast(q)
                        /\ \A p \in Owning(q) : ~Busy(p)

HandInv == \A q \in Queues : HandOf(q)
-----------------------------------------------------------------------------
(* Shares as a set of frames and a set of calls. *)

LEMMA BothSets ==
    ASSUME NEW F, NEW C
    PROVE  /\ \A p : (<<"at", p>> \in Both(F, C) <=> p \in F)
           /\ \A c : (<<"of", c>> \in Both(F, C) <=> c \in C)
           /\ (Both(F, C) = {} <=> F = {} /\ C = {})
<1>1. \A s : s \in Both(F, C) <=> \/ \E p \in F : s = <<"at", p>>
                                  \/ \E c \in C : s = <<"of", c>>
  BY DEF Both
<1>2. (\A p : <<"at", p>> \in Both(F, C) <=> p \in F) /\ (\A c : <<"of", c>> \in Both(F, C) <=> c \in C)
  BY DEF Both
<1>3. (Both(F, C) = {} <=> F = {} /\ C = {})
  BY <1>1
<1> QED
  BY <1>2, <1>3

\* The frames and calls among the shares that frames F and calls C make up, one by one.
LEMMA BothAlike ==
    ASSUME NEW F, NEW C, \A x, y \in Both(F, C) : x = y
    PROVE  /\ \A p, r \in F : p = r
           /\ \A c, d \in C : c = d
           /\ \A p \in F, c \in C : FALSE
<1>1. \A p \in F : <<"at", p>> \in Both(F, C)
  BY BothSets
<1>2. \A c \in C : <<"of", c>> \in Both(F, C)
  BY BothSets
<1>3. \A p, r \in F : <<"at", p>> = <<"at", r>>
  BY <1>1
<1>4. \A c, d \in C : <<"of", c>> = <<"of", d>>
  BY <1>2
<1>5. \A p \in F, c \in C : <<"at", p>> = <<"of", c>>
  BY <1>1, <1>2
<1> QED
  BY <1>3, <1>4, <1>5

\* Numbers of shares.
LEMMA ShareCounts ==
    ASSUME NEW S, IsFiniteSet(S), NEW x
    PROVE  /\ Cardinality(S) \in Nat /\ (Cardinality(S) = 0 <=> S = {})
           /\ IsFiniteSet(S \cup {x}) /\ IsFiniteSet(S \ {x})
           /\ x \notin S => Cardinality(S \cup {x}) = Cardinality(S) + 1
           /\ x \in S => Cardinality(S \ {x}) = Cardinality(S) - 1
BY FS_CardinalityType, FS_EmptySet, FS_AddElement, FS_RemoveElement
-----------------------------------------------------------------------------
(* What a step leaves alone. *)

\* The frame at p, and what runs on it.
Same(p) == Fr(p)' = Fr(p) /\ (Runs(p)' => Runs(p) /\ Block(p)' = Block(p))

\* p has no share, before and after, and nothing runs on it.
Blank(p) == Fr(p).at \notin MarkAts /\ Fr(p)'.at \notin MarkAts /\ ~Runs(p)'

Around(m) == \A p \in Pos \ {m} : Same(p) \/ Blank(p)

LEMMA UpApart ==
    ASSUME NEW p \in Pos, NEW r \in Pos
    PROVE  /\ Up(p) \in Pos /\ Up(p) # p /\ Up(Up(p)) # p /\ Up(Up(p)) # Up(p)
           /\ Up(p) = Up(r) => p = r
           /\ Up(p)[2] # 0
<1>1. p = <<p[1], p[2]>> /\ r = <<r[1], r[2]>> /\ p[2] \in Nat /\ r[2] \in Nat /\ p[1] \in Threads
  BY DEF Pos
<1>2. Up(p) = <<p[1], p[2] + 1>> /\ Up(r) = <<r[1], r[2] + 1>> /\ Up(Up(p)) = <<p[1], p[2] + 1 + 1>>
  BY DEF Up
<1> QED
  BY <1>1, <1>2 DEF Pos

\* A step of a thread on its innermost frame.
LEMMA AroundTop ==
    ASSUME RunInv, NEW b, NEW f, NEW g, NEW h, Makes(b, f, g, h),
           Fr(Up(b)) = Nothing, Fr(Up(Up(b))) = Nothing,
           f.at = "run" => (Fr(b).at = "run" /\ f.o = Fr(b).o) \/ b[2] = 0,
           h.at \notin MarkAts
    PROVE  /\ g.at \notin MarkAts /\ h.at # "run" => Around(b)
           /\ Fr(b).at \notin MarkAts /\ f.at \notin MarkAts /\ g.at # "run" => Around(Up(b))
           /\ (Runs(b)' <=> g.at = "run")
           /\ (Runs(Up(b))' <=> h.at = "run")
           /\ Block(b)' = g.o /\ Block(Up(b))' = h.o
           /\ ~Runs(b) /\ ~Runs(Up(b))
<1>1. /\ b \in Pos /\ Up(b) \in Pos /\ Up(Up(b)) \in Pos /\ Up(Up(Up(b))) \in Pos
      /\ b # Up(b) /\ b # Up(Up(b)) /\ Up(b) # Up(Up(b))
      /\ Up(Up(Up(b))) \notin {b, Up(b), Up(Up(b))}
  BY DEF Makes, Pos, Up
<1>2. /\ Fr(b)' = f /\ Fr(Up(b))' = g /\ Fr(Up(Up(b)))' = h
      /\ \A r \in Pos \ {b, Up(b), Up(Up(b))} : Fr(r)' = Fr(r)
  BY DEF Makes
<1>3. /\ (Runs(b)' <=> g.at = "run")
      /\ (Runs(Up(b))' <=> h.at = "run")
      /\ Block(b)' = g.o /\ Block(Up(b))' = h.o
      /\ ~Runs(b) /\ ~Runs(Up(b))
  BY <1>2 DEF Runs, Block, Nothing
<1>4. ~Runs(Up(Up(b))) /\ ~Runs(Up(Up(b)))'
  <2>1. ~Runs(Up(Up(b)))
    BY <1>1 DEF RunInv, Beneath, Nothing
  <2> QED
    BY <1>1, <1>2, <2>1 DEF Runs
<1>5. ASSUME NEW p \in Pos \ {b, Up(b), Up(Up(b))} PROVE Same(p)
  <2>1. Fr(p)' = Fr(p) /\ Up(p) \in Pos
    BY <1>2, UpApart
  <2>2. CASE Up(p) = b
    <3>1. b[2] # 0
      BY <2>2, UpApart
    <3>2. Runs(p)' => Runs(p) /\ Block(p)' = Block(p)
      BY <1>2, <2>2, <3>1 DEF Runs, Block
    <3> QED
      BY <2>1, <3>2 DEF Same
  <2>3. CASE Up(p) # b
    <3>1. Up(p) \notin {b, Up(b), Up(Up(b))}
      BY <1>1, <2>3, UpApart
    <3>2. Fr(Up(p))' = Fr(Up(p))
      BY <1>2, <2>1, <3>1
    <3> QED
      BY <2>1, <3>2 DEF Same, Runs, Block
  <2> QED
    BY <2>2, <2>3
<1>6. Nothing.at = "none"
  BY DEF Nothing
<1>7. "none" \notin MarkAts
  BY DEF MarkAts, SharedAts, OwnerAts
<1>8. Blank(Up(Up(b)))
  BY <1>2, <1>4, <1>6, <1>7 DEF Blank
<1>9. ASSUME g.at \notin MarkAts, h.at # "run" PROVE Around(b)
  <2>1. Blank(Up(b))
    BY <1>2, <1>3, <1>6, <1>7, <1>9 DEF Blank
  <2> QED
    BY <1>5, <1>8, <2>1 DEF Around
<1>10. ASSUME Fr(b).at \notin MarkAts, f.at \notin MarkAts, g.at # "run" PROVE Around(Up(b))
  <2>1. Blank(b)
    BY <1>2, <1>3, <1>10 DEF Blank
  <2> QED
    BY <1>5, <1>8, <2>1 DEF Around
<1> QED
  BY <1>3, <1>9, <1>10

\* A block that was running on a frame still is, unless it is the block that ends.
LEMMA RunsPersist ==
    ASSUME NEW b, NEW f, NEW g, NEW h, Makes(b, f, g, h),
           Fr(Up(b)) = Nothing, Fr(Up(Up(b))) = Nothing,
           NEW p \in Pos, Runs(p),
           Up(p) = b => f.at = "run" /\ f.o = Fr(b).o
    PROVE  Runs(p)' /\ Block(p)' = Block(p)
<1>1. Up(p) \in Pos /\ Fr(Up(p)).at = "run" /\ Nothing.at = "none"
  BY UpApart DEF Runs, Nothing
<1>2. Up(p) # Up(b) /\ Up(p) # Up(Up(b))
  BY <1>1
<1>3. Up(p) # b => Fr(Up(p))' = Fr(Up(p))
  BY <1>1, <1>2 DEF Makes
<1> QED
  BY <1>1, <1>3 DEF Makes, Runs, Block
-----------------------------------------------------------------------------
(* The shares around the frame that a step is about. *)

\* A step that is about the frame at m and about the calls in C: it leaves the other frames
\* and calls of the queues alone.
StepsAt(m, C) ==
    /\ m \in Pos /\ use' = use /\ Around(m)
    /\ begun \subseteq begun' /\ begun \subseteq Calls /\ \A c \in begun : ticket'[c] = ticket[c]
    /\ \A c \in Calls \ C : U.q[c] \in Queues => (LetGo(c)' <=> LetGo(c)) /\ sema'[c] = sema[c]

LEMMA SameUse == use' = use => U' = U /\ \A c : (IsBarrier(c)' <=> IsBarrier(c))
BY DEF U, IsBarrier

\* What has no mark is not among the shares.
LEMMA MarksOnly ==
    /\ SharedAts \subseteq MarkAts /\ OwnerAts \subseteq MarkAts /\ {"resume"} \subseteq MarkAts
    /\ \A q : /\ Sharing(q) \subseteq Marked(MarkAts, q) /\ Owning(q) \subseteq Marked(MarkAts, q)
              /\ Resuming(q) \subseteq Marked(MarkAts, q)
BY DEF MarkAts, Sharing, Owning, Resuming, Marked

LEMMA MarksNext ==
    ASSUME NEW q
    PROVE  /\ Sharing(q)' \subseteq Marked(MarkAts, q)' /\ Owning(q)' \subseteq Marked(MarkAts, q)'
           /\ Resuming(q)' \subseteq Marked(MarkAts, q)'
BY DEF MarkAts, Sharing, Owning, Resuming, Marked

LEMMA MarksAround ==
    ASSUME NEW m, NEW C, StepsAt(m, C), NEW q
    PROVE  /\ \A p \in Pos \ {m} : /\ (p \in Sharing(q)' <=> p \in Sharing(q))
                                   /\ (p \in Owning(q)' <=> p \in Owning(q))
                                   /\ (p \in Resuming(q)' <=> p \in Resuming(q))
                                   /\ p \in Marked(MarkAts, q) => Same(p)
           /\ Sharing(q)' \subseteq Pos /\ Owning(q)' \subseteq Pos /\ Resuming(q)' \subseteq Pos
           /\ Sharing(q) \subseteq Pos /\ Owning(q) \subseteq Pos /\ Resuming(q) \subseteq Pos
<1>1. ASSUME NEW p \in Pos \ {m}
      PROVE  /\ (p \in Sharing(q)' <=> p \in Sharing(q))
             /\ (p \in Owning(q)' <=> p \in Owning(q))
             /\ (p \in Resuming(q)' <=> p \in Resuming(q))
             /\ p \in Marked(MarkAts, q) => Same(p)
  <2>1. CASE Same(p)
    BY <2>1 DEF Same, Sharing, Owning, Resuming, Marked
  <2>2. CASE Blank(p)
    BY <2>2, MarksOnly DEF Blank, Sharing, Owning, Resuming, Marked
  <2> QED
    BY <2>1, <2>2 DEF StepsAt, Around
<1> QED
  BY <1>1 DEF Sharing, Owning, Resuming, Marked

LEMMA CallsAround ==
    ASSUME NEW m, NEW C, StepsAt(m, C), NEW q \in Queues
    PROVE  /\ \A c \in Calls \ C : /\ (c \in Letting(q)' <=> c \in Letting(q))
                                   /\ (c \in Handed(q)' <=> c \in Handed(q))
           /\ Letting(q)' \subseteq Calls /\ Handed(q)' \subseteq Calls
           /\ Letting(q) \subseteq Calls /\ Handed(q) \subseteq Calls
           /\ (WaitedFor(q)' <=> WaitedFor(q))
<1>1. U' = U /\ \A c : (IsBarrier(c)' <=> IsBarrier(c))
  BY SameUse DEF StepsAt
<1>2. ASSUME NEW c \in Calls \ C
      PROVE  /\ (c \in Letting(q)' <=> c \in Letting(q))
             /\ (c \in Handed(q)' <=> c \in Handed(q))
  <2>1. U.q[c] = q => (LetGo(c)' <=> LetGo(c)) /\ sema'[c] = sema[c]
    BY <1>2 DEF StepsAt
  <2>2. (c \in Letting(q)' <=> c \in Letting(q))
    BY <1>1, <2>1 DEF Letting
  <2>3. (c \in Handed(q)' <=> c \in Handed(q))
    BY <1>1, <2>1 DEF Handed
  <2> QED
    BY <2>2, <2>3
<1>3. (WaitedFor(q)' <=> WaitedFor(q))
  BY <1>1 DEF WaitedFor
<1> QED
  BY <1>2, <1>3 DEF Letting, Handed

\* A set of frames whose other elements stay.
LEMMA OneElement ==
    ASSUME NEW S, NEW T, NEW P, S \subseteq P, T \subseteq P, NEW m \in P,
           \A p \in P \ {m} : (p \in T <=> p \in S)
    PROVE  /\ (m \in S <=> m \in T) => T = S
           /\ m \notin S /\ m \in T => T = S \cup {m}
           /\ m \in S /\ m \notin T => T = S \ {m}
OBVIOUS

LEMMA FramesChange ==
    ASSUME NEW m, NEW C, StepsAt(m, C), NEW q
    PROVE  /\ (m \in Sharing(q) <=> m \in Sharing(q)') => Sharing(q)' = Sharing(q)
           /\ m \notin Sharing(q) /\ m \in Sharing(q)' => Sharing(q)' = Sharing(q) \cup {m}
           /\ m \in Sharing(q) /\ m \notin Sharing(q)' => Sharing(q)' = Sharing(q) \ {m}
           /\ (m \in Owning(q) <=> m \in Owning(q)') => Owning(q)' = Owning(q)
           /\ m \notin Owning(q) /\ m \in Owning(q)' => Owning(q)' = Owning(q) \cup {m}
           /\ m \in Owning(q) /\ m \notin Owning(q)' => Owning(q)' = Owning(q) \ {m}
           /\ (m \in Resuming(q) <=> m \in Resuming(q)') => Resuming(q)' = Resuming(q)
           /\ m \notin Resuming(q) /\ m \in Resuming(q)' => Resuming(q)' = Resuming(q) \cup {m}
           /\ m \in Resuming(q) /\ m \notin Resuming(q)' => Resuming(q)' = Resuming(q) \ {m}
<1>1. PICK P : P = Pos
  OBVIOUS
<1>2. m \in P
  BY <1>1 DEF StepsAt
<1>3. \A p \in P \ {m} : /\ (p \in Sharing(q)' <=> p \in Sharing(q))
                          /\ (p \in Owning(q)' <=> p \in Owning(q))
                          /\ (p \in Resuming(q)' <=> p \in Resuming(q))
  BY <1>1, MarksAround
<1>4. /\ Sharing(q)' \subseteq P /\ Owning(q)' \subseteq P /\ Resuming(q)' \subseteq P
      /\ Sharing(q) \subseteq P /\ Owning(q) \subseteq P /\ Resuming(q) \subseteq P
  BY <1>1, MarksAround
<1>5. PICK S, T : S = Sharing(q) /\ T = Sharing(q)'
  OBVIOUS
<1>6. PICK V, W : V = Owning(q) /\ W = Owning(q)'
  OBVIOUS
<1>7. PICK X, Y : X = Resuming(q) /\ Y = Resuming(q)'
  OBVIOUS
<1>8. /\ (m \in S <=> m \in T) => T = S
      /\ m \notin S /\ m \in T => T = S \cup {m}
      /\ m \in S /\ m \notin T => T = S \ {m}
  <2>1. /\ S \subseteq P /\ T \subseteq P
        /\ \A p \in P \ {m} : (p \in T <=> p \in S)
    BY <1>3, <1>4, <1>5
  <2> QED
    BY <1>2, <2>1, OneElement
<1>9. /\ (m \in V <=> m \in W) => W = V
      /\ m \notin V /\ m \in W => W = V \cup {m}
      /\ m \in V /\ m \notin W => W = V \ {m}
  <2>1. /\ V \subseteq P /\ W \subseteq P
        /\ \A p \in P \ {m} : (p \in W <=> p \in V)
    BY <1>3, <1>4, <1>6
  <2> QED
    BY <1>2, <2>1, OneElement
<1>10. /\ (m \in X <=> m \in Y) => Y = X
       /\ m \notin X /\ m \in Y => Y = X \cup {m}
       /\ m \in X /\ m \notin Y => Y = X \ {m}
  <2>1. /\ X \subseteq P /\ Y \subseteq P
        /\ \A p \in P \ {m} : (p \in Y <=> p \in X)
    BY <1>3, <1>4, <1>7
  <2> QED
    BY <1>2, <2>1, OneElement
<1> QED
  BY <1>5, <1>6, <1>7, <1>8, <1>9, <1>10

LEMMA CallsChange ==
    ASSUME NEW m, NEW c \in Calls, StepsAt(m, {c}), NEW q \in Queues
    PROVE  /\ (c \in Letting(q) <=> c \in Letting(q)') => Letting(q)' = Letting(q)
           /\ c \notin Letting(q) /\ c \in Letting(q)' => Letting(q)' = Letting(q) \cup {c}
           /\ c \in Letting(q) /\ c \notin Letting(q)' => Letting(q)' = Letting(q) \ {c}
           /\ (c \in Handed(q) <=> c \in Handed(q)') => Handed(q)' = Handed(q)
           /\ c \notin Handed(q) /\ c \in Handed(q)' => Handed(q)' = Handed(q) \cup {c}
           /\ c \in Handed(q) /\ c \notin Handed(q)' => Handed(q)' = Handed(q) \ {c}
           /\ (WaitedFor(q)' <=> WaitedFor(q))
<1>1. \A d \in Calls \ {c} : /\ (d \in Letting(q)' <=> d \in Letting(q))
                              /\ (d \in Handed(q)' <=> d \in Handed(q))
  BY CallsAround
<1>2. /\ Letting(q)' \subseteq Calls /\ Handed(q)' \subseteq Calls
      /\ Letting(q) \subseteq Calls /\ Handed(q) \subseteq Calls
  BY DEF Letting, Handed
<1>3. PICK S, T : S = Letting(q) /\ T = Letting(q)'
  OBVIOUS
<1>4. PICK V, W : V = Handed(q) /\ W = Handed(q)'
  OBVIOUS
<1>5. /\ (c \in S <=> c \in T) => T = S
      /\ c \notin S /\ c \in T => T = S \cup {c}
      /\ c \in S /\ c \notin T => T = S \ {c}
  <2>1. /\ S \subseteq Calls /\ T \subseteq Calls
        /\ \A p \in Calls \ {c} : (p \in T <=> p \in S)
    BY <1>1, <1>2, <1>3
  <2> QED
    BY <2>1, OneElement
<1>6. /\ (c \in V <=> c \in W) => W = V
      /\ c \notin V /\ c \in W => W = V \cup {c}
      /\ c \in V /\ c \notin W => W = V \ {c}
  <2>1. /\ V \subseteq Calls /\ W \subseteq Calls
        /\ \A p \in Calls \ {c} : (p \in W <=> p \in V)
    BY <1>1, <1>2, <1>4
  <2> QED
    BY <2>1, OneElement
<1> QED
  BY <1>3, <1>4, <1>5, <1>6, CallsAround

LEMMA CallsStay ==
    ASSUME NEW m, NEW C, StepsAt(m, C), NEW q \in Queues, \A c \in C : U.q[c] # q
    PROVE  Letting(q)' = Letting(q) /\ Handed(q)' = Handed(q) /\ (WaitedFor(q)' <=> WaitedFor(q))
<1>1. \A c \in C : c \notin Letting(q) /\ c \notin Handed(q)
  BY DEF Letting, Handed
<1>2. \A c \in C : c \notin Letting(q)' /\ c \notin Handed(q)'
  BY SameUse DEF Letting, Handed, StepsAt
<1>3. /\ Letting(q)' \subseteq Calls /\ Handed(q)' \subseteq Calls
      /\ Letting(q) \subseteq Calls /\ Handed(q) \subseteq Calls
  BY DEF Letting, Handed
<1>4. Letting(q)' = Letting(q)
  BY <1>1, <1>2, <1>3, CallsAround
<1>5. Handed(q)' = Handed(q)
  BY <1>1, <1>2, <1>3, CallsAround
<1> QED
  BY <1>4, <1>5, CallsAround

\* What a block's frame says stays true of blocks that go on.
LEMMA FastStays ==
    ASSUME RunInv, NEW m, NEW C, StepsAt(m, C), NEW p \in Pos, Same(p), Runs(p)'
    PROVE  Runs(p) /\ Block(p)' = Block(p) /\ (Fast(Block(p)) => Fast(Block(p))')
<1>1. Runs(p) /\ Block(p)' = Block(p)
  BY DEF Same
<1>2. PICK c : c = Block(p)
  OBVIOUS
<1>3. c \in begun
  BY <1>1, <1>2 DEF RunInv, Beneath
<1>4. ticket'[c] = ticket[c] /\ U' = U
  BY <1>3, SameUse DEF StepsAt
<1>5. Block(p)' = c
  BY <1>1, <1>2
<1> QED
  BY <1>1, <1>2, <1>4, <1>5 DEF Fast

SuspendedEnough(q) ==
    \/ suspend_cnt'[q] = suspend_cnt[q]
    \/ /\ WaitedFor(q) => suspend_cnt'[q] >= 0
       /\ Hands(q) # {} => suspend_cnt'[q] >= 2

\* A queue that the step is not about.
LEMMA QueueRests ==
    ASSUME RunInv, NEW m, NEW C, StepsAt(m, C), NEW q \in Queues,
           m \notin Marked(MarkAts, q), m \notin Marked(MarkAts, q)',
           \A c \in C : U.q[c] # q
    PROVE  /\ CountOf(q) /\ running'[q] = running[q] => CountOf(q)'
           /\ HandOf(q) /\ SuspendedEnough(q) => HandOf(q)'
<1>1. Sharing(q)' = Sharing(q) /\ Owning(q)' = Owning(q) /\ Resuming(q)' = Resuming(q)
  BY MarksAround, MarksOnly, MarksNext
<1>2. Letting(q)' = Letting(q) /\ Handed(q)' = Handed(q)
  BY CallsStay
<1>3. Shares(q)' = Shares(q) /\ Hands(q)' = Hands(q)
  BY <1>1, <1>2 DEF Shares, Hands
<1>4. CountOf(q) /\ running'[q] = running[q] => CountOf(q)'
  BY <1>1, <1>3 DEF CountOf
<1>5. ASSUME HandOf(q), SuspendedEnough(q)
      PROVE  HandOf(q)'
  <2>1. \A p \in Marked(MarkAts, q) : p \in Pos /\ Same(p)
    BY MarksAround DEF Marked
  <2>2. \A p \in Owning(q) \cup Sharing(q) : p \in Pos /\ Same(p)
    BY <2>1, MarksOnly
  <2>3. (WaitedFor(q)' <=> WaitedFor(q))
    BY CallsAround
  <2>4. /\ WaitedFor(q) => suspend_cnt'[q] >= 0
        /\ Hands(q) # {} => suspend_cnt'[q] >= 2
    BY <1>5 DEF HandOf, SuspendedEnough
  <2>5. OnlyLooks(q) => OnlyLooks(q)'
    BY <1>1, <1>2, <2>2 DEF OnlyLooks, Same
  <2>6. OnlyFast(q) => OnlyFast(q)'
    BY <1>1, <1>2, <2>2, FastStays DEF OnlyFast, Same
  <2>7. \A p \in Owning(q) : Busy(p)' => Busy(p)
    BY <2>2 DEF Busy, Same
  <2>8. \A p \in Owning(q) : Runs(p)' => Runs(p)
    BY <2>2 DEF Same
  <2>9. \A p \in Owning(q)' : Runs(p)' => OnlyLooks(q)'
    BY <1>1, <1>5, <2>5, <2>8 DEF HandOf
  <2>10. Hands(q)' # {} => /\ WaitedFor(q)' /\ suspend_cnt'[q] >= 2 /\ OnlyFast(q)'
                           /\ \A p \in Owning(q)' : ~Busy(p)'
    BY <1>1, <1>3, <1>5, <2>3, <2>4, <2>6, <2>7 DEF HandOf
  <2>11. \A x, y \in Hands(q)' : x = y
    BY <1>3, <1>5 DEF HandOf
  <2> QED
    BY <2>3, <2>4, <2>9, <2>10, <2>11 DEF HandOf
<1> QED
  BY <1>4, <1>5

\* The blocks that run, when at most one begins or ends.
LEMMA RunsGoOn ==
    ASSUME RunInv, NEW m, NEW C, StepsAt(m, C),
           Runs(m)' => Beneath(Fr(m), Block(m))',
           \A c \in begun' \ ended' : U.q[c] \in Queues =>
              \/ c \in begun \ ended /\ \A p \in Pos : Runs(p) /\ Block(p) = c => Runs(p)' /\ Block(p)' = c
              \/ Runs(m)' /\ Block(m)' = c
    PROVE  RunInv'
<1>1. U' = U /\ (\A c : IsBarrier(c)' <=> IsBarrier(c)) /\ m \in Pos
  BY SameUse DEF StepsAt
<1>2. ASSUME NEW p \in Pos, Runs(p)' PROVE Beneath(Fr(p), Block(p))'
  <2>1. CASE p = m
    BY <1>2, <2>1
  <2>2. CASE p # m
    <3>1. Same(p)
      BY <1>2, <2>2 DEF StepsAt, Around, Blank
    <3>2. Fr(p)' = Fr(p) /\ Runs(p) /\ Block(p)' = Block(p)
      BY <1>2, <3>1 DEF Same
    <3>3. PICK f, c : f = Fr(p) /\ c = Block(p)
      OBVIOUS
    <3>4. Beneath(f, c)
      BY <3>2, <3>3 DEF RunInv
    <3>5. c \in begun /\ c \in begun' /\ ticket'[c] = ticket[c]
      BY <3>4 DEF Beneath, StepsAt
    <3>6. Beneath(f, c)'
      BY <1>1, <3>4, <3>5 DEF Beneath
    <3>7. Fr(p)' = f /\ Block(p)' = c
      BY <3>2, <3>3
    <3> QED
      BY <3>6, <3>7 DEF Beneath
  <2> QED
    BY <2>1, <2>2
<1>3. ASSUME NEW c \in begun' \ ended', U'.q[c] \in Queues
      PROVE  \E p \in Pos : Runs(p)' /\ Block(p)' = c
  BY <1>1, <1>3 DEF RunInv
<1> QED
  BY <1>2, <1>3 DEF RunInv
-----------------------------------------------------------------------------
(* The shares of the queue that a step is about. *)

LEMMA LooksStay ==
    ASSUME RunInv, NEW m, NEW C, StepsAt(m, C), NEW q \in Queues, Letting(q)' \subseteq Letting(q)
    PROVE  /\ OnlyLooks(q) /\ (m \in Sharing(q)' => Fr(m)'.at = "sync_back") => OnlyLooks(q)'
           /\ OnlyFast(q) /\ (m \in Sharing(q)' /\ Fr(m)'.at = "running_sub" /\ Runs(m)' => Fast(Block(m))')
                 => OnlyFast(q)'
<1>1. \A p \in Sharing(q)' : p # m => p \in Sharing(q) /\ p \in Pos /\ Same(p)
  BY MarksAround, MarksOnly
<1>2. ASSUME OnlyLooks(q), m \in Sharing(q)' => Fr(m)'.at = "sync_back"
      PROVE  OnlyLooks(q)'
  BY <1>1, <1>2 DEF OnlyLooks, Same
<1>3. ASSUME OnlyFast(q),
             m \in Sharing(q)' /\ Fr(m)'.at = "running_sub" /\ Runs(m)' => Fast(Block(m))'
      PROVE  OnlyFast(q)'
  <2>1. ASSUME NEW p \in Sharing(q)', Fr(p)'.at = "running_sub", Runs(p)', p # m
        PROVE  Fast(Block(p))'
    <3>1. p \in Sharing(q) /\ p \in Pos /\ Same(p)
      BY <1>1, <2>1
    <3>2. Fr(p).at = "running_sub" /\ Runs(p) /\ (Fast(Block(p)) => Fast(Block(p))')
      BY <2>1, <3>1, FastStays DEF Same
    <3> QED
      BY <1>3, <3>1, <3>2 DEF OnlyFast
  <2>2. Letting(q)' = {}
    BY <1>3 DEF OnlyFast
  <2> QED
    BY <1>3, <2>1, <2>2 DEF OnlyFast
<1> QED
  BY <1>2, <1>3

\* The owner goes on: an item it takes off and runs is alone.
LEMMA OwnerGoesOn ==
    ASSUME RunInv, NEW m, NEW C, StepsAt(m, C), NEW q \in Queues, \A c \in C : U.q[c] # q,
           m \in Owning(q), m \in Owning(q)', m \notin Sharing(q)', m \notin Resuming(q)',
           m \notin Sharing(q), m \notin Resuming(q),
           running'[q] = running[q], suspend_cnt'[q] = suspend_cnt[q], suspend_cnt[q] \in Int,
           Busy(m)' => Busy(m) \/ suspend_cnt[q] < 2,
           Runs(m)' => Shares(q) = {}
    PROVE  /\ CountOf(q) => CountOf(q)'
           /\ CountOf(q) /\ HandOf(q) => HandOf(q)'
<1>1. Sharing(q)' = Sharing(q) /\ Owning(q)' = Owning(q) /\ Resuming(q)' = Resuming(q)
  BY FramesChange
<1>2. Letting(q)' = Letting(q) /\ Handed(q)' = Handed(q) /\ (WaitedFor(q)' <=> WaitedFor(q))
  BY CallsStay
<1>3. Shares(q)' = Shares(q) /\ Hands(q)' = Hands(q)
  BY <1>1, <1>2 DEF Shares, Hands
<1>4. CountOf(q) => CountOf(q)'
  BY <1>1, <1>3 DEF CountOf
<1>5. ASSUME CountOf(q), HandOf(q)
      PROVE  HandOf(q)'
  <2>1. \A p \in Owning(q) : p = m
    BY <1>5 DEF CountOf
  <2>2. OnlyFast(q) => OnlyFast(q)'
    BY <1>1, <1>2, LooksStay
  <2>3. Runs(m)' => OnlyLooks(q)'
    <3>1. Shares(q) = {} => Sharing(q)' = {} /\ Letting(q)' = {}
      BY <1>1, <1>2, BothSets DEF Shares
    <3> QED
      BY <3>1 DEF OnlyLooks
  <2>4. Hands(q) # {} => ~Busy(m)'
    BY <1>5 DEF HandOf
  <2>5. \A p \in Owning(q)' : Runs(p)' => OnlyLooks(q)'
    BY <1>1, <2>1, <2>3
  <2>6. Hands(q)' # {} => /\ WaitedFor(q)' /\ suspend_cnt'[q] >= 2 /\ OnlyFast(q)'
                          /\ \A p \in Owning(q)' : ~Busy(p)'
    BY <1>1, <1>2, <1>3, <1>5, <2>1, <2>2, <2>4 DEF HandOf
  <2>7. /\ WaitedFor(q)' => suspend_cnt'[q] >= 0
        /\ \A x, y \in Hands(q)' : x = y
    BY <1>2, <1>3, <1>5 DEF HandOf
  <2> QED
    BY <2>5, <2>6, <2>7 DEF HandOf
<1> QED
  BY <1>4, <1>5

\* A drainer or a barrier gets the queue, which has been found idle.
LEMMA OwnerComes ==
    ASSUME RunInv, NEW m, StepsAt(m, {}), NEW q \in Queues,
           m \notin Marked(MarkAts, q), m \in Owning(q)', m \notin Sharing(q)', m \notin Resuming(q)',
           running[q] = 0, running'[q] = 1, suspend_cnt'[q] = suspend_cnt[q], ~Busy(m)'
    PROVE  /\ CountOf(q) => CountOf(q)'
           /\ CountOf(q) /\ HandOf(q) => HandOf(q)'
<1>1. Sharing(q)' = Sharing(q) /\ Owning(q)' = Owning(q) \cup {m} /\ Resuming(q)' = Resuming(q)
  BY FramesChange, MarksOnly
<1>2. Letting(q)' = Letting(q) /\ Handed(q)' = Handed(q) /\ (WaitedFor(q)' <=> WaitedFor(q))
  BY CallsStay
<1>3. Shares(q)' = Shares(q) /\ Hands(q)' = Hands(q)
  BY <1>1, <1>2 DEF Shares, Hands
<1>4. ASSUME CountOf(q)
      PROVE  Owning(q) = {} /\ Shares(q) = {}
  <2>1. Cardinality(Shares(q)) \in Nat /\ (Cardinality(Shares(q)) = 0 <=> Shares(q) = {})
    BY <1>4, ShareCounts DEF CountOf
  <2>2. PICK n \in Nat : n = Cardinality(Shares(q))
    BY <2>1
  <2>3. 0 = 2 * n + (IF Owning(q) = {} THEN 0 ELSE 1)
    BY <1>4, <2>2 DEF CountOf
  <2>4. n = 0 /\ Owning(q) = {}
    BY <2>3
  <2> QED
    BY <2>1, <2>2, <2>4
<1>5. CountOf(q) => CountOf(q)'
  <2>1. SUFFICES ASSUME CountOf(q) PROVE CountOf(q)'
    OBVIOUS
  <2>2. Owning(q)' = {m} /\ Shares(q)' = {}
    BY <1>1, <1>3, <1>4, <2>1
  <2>3. IsFiniteSet(Shares(q)') /\ Cardinality(Shares(q)') = 0
    BY <2>2, FS_EmptySet
  <2> QED
    BY <2>2, <2>3 DEF CountOf
<1>6. ASSUME CountOf(q), HandOf(q)
      PROVE  HandOf(q)'
  <2>1. Owning(q)' = {m} /\ Sharing(q)' = {} /\ Letting(q)' = {}
    BY <1>1, <1>2, <1>4, <1>6, BothSets DEF Shares
  <2>2. OnlyLooks(q)' /\ OnlyFast(q)'
    BY <2>1 DEF OnlyLooks, OnlyFast
  <2> QED
    BY <1>2, <1>3, <1>6, <2>1, <2>2 DEF HandOf
<1> QED
  BY <1>5, <1>6

\* The owner gives the queue back.
LEMMA OwnerGoes ==
    ASSUME RunInv, NEW m, StepsAt(m, {}), NEW q \in Queues,
           m \in Owning(q), m \notin Sharing(q), m \notin Resuming(q), m \notin Marked(MarkAts, q)',
           running'[q] = running[q] - 1, suspend_cnt'[q] = suspend_cnt[q]
    PROVE  /\ CountOf(q) => CountOf(q)'
           /\ CountOf(q) /\ HandOf(q) => HandOf(q)'
<1>0. m \notin Sharing(q)' /\ m \notin Owning(q)' /\ m \notin Resuming(q)' /\ m \in Pos
  BY MarksNext DEF StepsAt
<1>1. Sharing(q)' = Sharing(q) /\ Owning(q)' = Owning(q) \ {m} /\ Resuming(q)' = Resuming(q)
  BY <1>0, FramesChange
<1>2. Letting(q)' = Letting(q) /\ Handed(q)' = Handed(q) /\ (WaitedFor(q)' <=> WaitedFor(q))
  BY CallsStay
<1>3. Shares(q)' = Shares(q) /\ Hands(q)' = Hands(q)
  BY <1>1, <1>2 DEF Shares, Hands
<1>4. ASSUME CountOf(q)
      PROVE  CountOf(q)' /\ Owning(q)' = {}
  <2>1. Owning(q)' = {} /\ Owning(q) # {}
    BY <1>1, <1>4 DEF CountOf
  <2>2. PICK n : n = Cardinality(Shares(q))
    OBVIOUS
  <2>3. n \in Nat
    BY <1>4, <2>2, ShareCounts DEF CountOf
  <2>4. running[q] = 2 * n + 1
    BY <1>4, <2>1, <2>2 DEF CountOf
  <2>5. running'[q] = 2 * n
    BY <2>3, <2>4
  <2>6. running'[q] = 2 * Cardinality(Shares(q)') + (IF Owning(q)' = {} THEN 0 ELSE 1)
    BY <1>3, <2>1, <2>2, <2>3, <2>5
  <2> QED
    BY <1>3, <1>4, <2>1, <2>6 DEF CountOf
<1>5. ASSUME CountOf(q), HandOf(q)
      PROVE  HandOf(q)'
  <2>1. OnlyFast(q) => OnlyFast(q)'
    BY <1>0, <1>2, LooksStay
  <2> QED
    BY <1>2, <1>3, <1>4, <1>5, <2>1 DEF HandOf
<1> QED
  BY <1>4, <1>5

\* How the shares and the hand-overs of a queue change with its frames and calls.
LEMMA SharesChange ==
    ASSUME NEW q
    PROVE  /\ \A p : (<<"at", p>> \in Shares(q) <=> p \in Sharing(q))
           /\ \A c : (<<"of", c>> \in Shares(q) <=> c \in Letting(q))
           /\ \A p : Sharing(q)' = Sharing(q) \cup {p} /\ Letting(q)' = Letting(q)
                       => Shares(q)' = Shares(q) \cup {<<"at", p>>}
           /\ \A p : Sharing(q)' = Sharing(q) \ {p} /\ Letting(q)' = Letting(q)
                       => Shares(q)' = Shares(q) \ {<<"at", p>>}
           /\ \A c : Sharing(q)' = Sharing(q) /\ Letting(q)' = Letting(q) \cup {c}
                       => Shares(q)' = Shares(q) \cup {<<"of", c>>}
           /\ \A p, c : Sharing(q)' = Sharing(q) \cup {p} /\ Letting(q)' = Letting(q) \ {c}
                       => Shares(q)' = (Shares(q) \ {<<"of", c>>}) \cup {<<"at", p>>}
<1>1. PICK F, C : F = Sharing(q) /\ C = Letting(q)
  OBVIOUS
<1>2. PICK S : S = Shares(q)
  OBVIOUS
<1>3. S = Both(F, C)
  BY <1>1, <1>2 DEF Shares
<1>4. \A G, D : Sharing(q)' = G /\ Letting(q)' = D => Shares(q)' = Both(G, D)
  BY DEF Shares
<1>5. (\A p : (<<"at", p>> \in S <=> p \in F)) /\ (\A c : (<<"of", c>> \in S <=> c \in C))
  BY <1>3, BothSets
<1>6. \A p : Sharing(q)' = F \cup {p} /\ Letting(q)' = C => Shares(q)' = S \cup {<<"at", p>>}
  BY <1>3, <1>4 DEF Both
<1>7. \A p : Sharing(q)' = F \ {p} /\ Letting(q)' = C => Shares(q)' = S \ {<<"at", p>>}
  BY <1>3, <1>4 DEF Both
<1>8. \A c : Sharing(q)' = F /\ Letting(q)' = C \cup {c} => Shares(q)' = S \cup {<<"of", c>>}
  BY <1>3, <1>4 DEF Both
<1>9. \A p, c : Sharing(q)' = F \cup {p} /\ Letting(q)' = C \ {c}
                   => Shares(q)' = (S \ {<<"of", c>>}) \cup {<<"at", p>>}
  <2>1. ASSUME NEW p, NEW c
        PROVE  Both(F \cup {p}, C \ {c}) = Both(F, C \ {c}) \cup {<<"at", p>>}
    BY DEF Both
  <2>2. ASSUME NEW c PROVE Both(F, C \ {c}) = S \ {<<"of", c>>}
    BY <1>3 DEF Both
  <2>3. ASSUME NEW p, NEW c PROVE Both(F \cup {p}, C \ {c}) = (S \ {<<"of", c>>}) \cup {<<"at", p>>}
    BY <2>1, <2>2
  <2> QED
    BY <1>4, <2>3
<1> QED
  BY <1>1, <1>2, <1>5, <1>6, <1>7, <1>8, <1>9

LEMMA HandsChange ==
    ASSUME NEW q
    PROVE  /\ \A p : (<<"at", p>> \in Hands(q) <=> p \in Resuming(q))
           /\ \A c : (<<"of", c>> \in Hands(q) <=> c \in Handed(q))
           /\ \A p : Resuming(q)' = Resuming(q) \ {p} /\ Handed(q)' = Handed(q)
                       => Hands(q)' = Hands(q) \ {<<"at", p>>}
           /\ \A c : Resuming(q)' = Resuming(q) /\ Handed(q)' = Handed(q) \cup {c}
                       => Hands(q)' = Hands(q) \cup {<<"of", c>>}
           /\ \A p, c : Resuming(q)' = Resuming(q) \cup {p} /\ Handed(q)' = Handed(q) \ {c}
                       => Hands(q)' = (Hands(q) \ {<<"of", c>>}) \cup {<<"at", p>>}
<1>1. PICK F, C : F = Resuming(q) /\ C = Handed(q)
  OBVIOUS
<1>2. PICK S : S = Hands(q)
  OBVIOUS
<1>3. S = Both(F, C)
  BY <1>1, <1>2 DEF Hands
<1>4. \A G, D : Resuming(q)' = G /\ Handed(q)' = D => Hands(q)' = Both(G, D)
  BY DEF Hands
<1>5. (\A p : (<<"at", p>> \in S <=> p \in F)) /\ (\A c : (<<"of", c>> \in S <=> c \in C))
  BY <1>3, BothSets
<1>6. \A p : Resuming(q)' = F \ {p} /\ Handed(q)' = C => Hands(q)' = S \ {<<"at", p>>}
  BY <1>3, <1>4 DEF Both
<1>7. \A c : Resuming(q)' = F /\ Handed(q)' = C \cup {c} => Hands(q)' = S \cup {<<"of", c>>}
  BY <1>3, <1>4 DEF Both
<1>8. \A p, c : Resuming(q)' = F \cup {p} /\ Handed(q)' = C \ {c}
                   => Hands(q)' = (S \ {<<"of", c>>}) \cup {<<"at", p>>}
  <2>1. ASSUME NEW p, NEW c
        PROVE  Both(F \cup {p}, C \ {c}) = Both(F, C \ {c}) \cup {<<"at", p>>}
    BY DEF Both
  <2>2. ASSUME NEW c PROVE Both(F, C \ {c}) = S \ {<<"of", c>>}
    BY <1>3 DEF Both
  <2>3. ASSUME NEW p, NEW c PROVE Both(F \cup {p}, C \ {c}) = (S \ {<<"of", c>>}) \cup {<<"at", p>>}
    BY <2>1, <2>2
  <2> QED
    BY <1>4, <2>3
<1> QED
  BY <1>1, <1>2, <1>5, <1>6, <1>7, <1>8

\* What is handed over stays so, when its queue's owner does not move.
LEMMA HandStays ==
    ASSUME NEW m, NEW C, StepsAt(m, C), NEW q \in Queues,
           m \notin Owning(q), Owning(q)' = Owning(q), Hands(q)' = Hands(q),
           suspend_cnt'[q] = suspend_cnt[q], WaitedFor(q)' <=> WaitedFor(q),
           OnlyLooks(q) /\ Owning(q) # {} => OnlyLooks(q)',
           OnlyFast(q) => OnlyFast(q)'
    PROVE  HandOf(q) => HandOf(q)'
<1>1. \A p \in Owning(q) : p \in Pos /\ Same(p)
  BY MarksAround, MarksOnly
<1>2. \A p \in Owning(q) : (Runs(p)' => Runs(p)) /\ (Busy(p)' => Busy(p))
  BY <1>1 DEF Same, Busy
<1>3. SUFFICES ASSUME HandOf(q) PROVE HandOf(q)'
  OBVIOUS
<1>4. \A p \in Owning(q)' : Runs(p)' => OnlyLooks(q)'
  BY <1>2, <1>3 DEF HandOf
<1>5. Hands(q)' # {} => /\ WaitedFor(q)' /\ suspend_cnt'[q] >= 2 /\ OnlyFast(q)'
                        /\ \A p \in Owning(q)' : ~Busy(p)'
  BY <1>2, <1>3 DEF HandOf
<1>6. /\ WaitedFor(q)' => suspend_cnt'[q] >= 0
      /\ \A x, y \in Hands(q)' : x = y
  BY <1>3 DEF HandOf
<1> QED
  BY <1>4, <1>5, <1>6 DEF HandOf

\* A synchronous call adds itself to those that run.
LEMMA ShareTaken ==
    ASSUME RunInv, NEW m, StepsAt(m, {}), NEW q \in Queues,
           m \notin Marked(MarkAts, q), m \in Sharing(q)', m \notin Owning(q)', m \notin Resuming(q)',
           running'[q] = running[q] + 2, suspend_cnt'[q] = suspend_cnt[q],
           running[q] % 2 = 0 \/ Fr(m)'.at = "sync_back",
           Fr(m)'.at = "running_sub" /\ Runs(m)' => Fast(Block(m))'
    PROVE  /\ CountOf(q) => CountOf(q)'
           /\ CountOf(q) /\ HandOf(q) => HandOf(q)'
<1>1. Sharing(q)' = Sharing(q) \cup {m} /\ Owning(q)' = Owning(q) /\ Resuming(q)' = Resuming(q)
  BY FramesChange, MarksOnly
<1>2. Letting(q)' = Letting(q) /\ Handed(q)' = Handed(q) /\ (WaitedFor(q)' <=> WaitedFor(q))
  BY CallsStay
<1>3. Shares(q)' = Shares(q) \cup {<<"at", m>>} /\ Hands(q)' = Hands(q) /\ <<"at", m>> \notin Shares(q)
  <2>1. Hands(q)' = Hands(q)
    BY <1>1, <1>2 DEF Hands
  <2>2. m \notin Sharing(q)
    BY MarksOnly
  <2> QED
    BY <1>1, <1>2, <2>1, <2>2, SharesChange
<1>4. SUFFICES ASSUME CountOf(q) PROVE CountOf(q)' /\ (HandOf(q) => HandOf(q)')
  OBVIOUS
<1>5. PICK n, o : n = Cardinality(Shares(q)) /\ o = IF Owning(q) = {} THEN 0 ELSE 1
  OBVIOUS
<1>6. n \in Nat /\ running[q] = 2 * n + o /\ o \in {0, 1}
  BY <1>4, <1>5, ShareCounts DEF CountOf
<1>7. IsFiniteSet(Shares(q)') /\ Cardinality(Shares(q)') = n + 1
  BY <1>3, <1>4, <1>5, ShareCounts DEF CountOf
<1>8. running'[q] = 2 * (n + 1) + o
  BY <1>6
<1>9. CountOf(q)'
  BY <1>1, <1>4, <1>5, <1>7, <1>8 DEF CountOf
<1>10. Owning(q) # {} => Fr(m)'.at = "sync_back"
  <2>1. Owning(q) # {} => running[q] % 2 = 1
    BY <1>5, <1>6
  <2> QED
    BY <2>1
<1>11. /\ OnlyLooks(q) /\ Owning(q) # {} => OnlyLooks(q)'
       /\ OnlyFast(q) => OnlyFast(q)'
  BY <1>2, <1>10, LooksStay
<1>12. HandOf(q) => HandOf(q)'
  BY <1>1, <1>2, <1>3, <1>11, HandStays, MarksOnly
<1> QED
  BY <1>9, <1>12

\* A shared block has returned, or a synchronous call backs out.
LEMMA ShareLeft ==
    ASSUME RunInv, NEW m, StepsAt(m, {}), NEW q \in Queues,
           m \in Sharing(q), m \notin Owning(q), m \notin Resuming(q), m \notin Marked(MarkAts, q)',
           running'[q] = running[q] - 2, suspend_cnt'[q] = suspend_cnt[q]
    PROVE  /\ CountOf(q) => CountOf(q)'
           /\ CountOf(q) /\ HandOf(q) => HandOf(q)'
<1>0. m \notin Sharing(q)' /\ m \notin Owning(q)' /\ m \notin Resuming(q)'
  BY MarksNext
<1>1. Sharing(q)' = Sharing(q) \ {m} /\ Owning(q)' = Owning(q) /\ Resuming(q)' = Resuming(q)
  BY <1>0, FramesChange
<1>2. Letting(q)' = Letting(q) /\ Handed(q)' = Handed(q) /\ (WaitedFor(q)' <=> WaitedFor(q))
  BY CallsStay
<1>3. Shares(q)' = Shares(q) \ {<<"at", m>>} /\ Hands(q)' = Hands(q) /\ <<"at", m>> \in Shares(q)
  <2>1. Hands(q)' = Hands(q)
    BY <1>1, <1>2 DEF Hands
  <2> QED
    BY <1>1, <1>2, <2>1, SharesChange
<1>4. SUFFICES ASSUME CountOf(q) PROVE CountOf(q)' /\ (HandOf(q) => HandOf(q)')
  OBVIOUS
<1>5. PICK n, o : n = Cardinality(Shares(q)) /\ o = IF Owning(q) = {} THEN 0 ELSE 1
  OBVIOUS
<1>6. n \in Nat /\ running[q] = 2 * n + o /\ o \in {0, 1}
  BY <1>4, <1>5, ShareCounts DEF CountOf
<1>7. IsFiniteSet(Shares(q)') /\ Cardinality(Shares(q)') = n - 1
  BY <1>3, <1>4, <1>5, ShareCounts DEF CountOf
<1>8. running'[q] = 2 * (n - 1) + o
  BY <1>6
<1>9. CountOf(q)'
  BY <1>1, <1>4, <1>5, <1>7, <1>8 DEF CountOf
<1>10. /\ OnlyLooks(q) => OnlyLooks(q)'
       /\ OnlyFast(q) => OnlyFast(q)'
  BY <1>0, <1>2, LooksStay
<1>11. HandOf(q) => HandOf(q)'
  BY <1>1, <1>2, <1>3, <1>10, HandStays
<1> QED
  BY <1>9, <1>11

\* The thread or the worker that runs a call comes for it, which has its share already.
LEMMA CallTakes ==
    ASSUME RunInv, NEW m, NEW c \in Calls, StepsAt(m, {c}), NEW q \in Queues,
           m \notin Marked(MarkAts, q), m \in Sharing(q)', m \notin Owning(q)', m \notin Resuming(q)',
           c \in Letting(q), c \notin Letting(q)', c \notin Handed(q), c \notin Handed(q)',
           running'[q] = running[q], suspend_cnt'[q] = suspend_cnt[q]
    PROVE  /\ CountOf(q) => CountOf(q)'
           /\ CountOf(q) /\ HandOf(q) => HandOf(q)'
<1>1. Sharing(q)' = Sharing(q) \cup {m} /\ Owning(q)' = Owning(q) /\ Resuming(q)' = Resuming(q)
  BY FramesChange, MarksOnly
<1>2. Letting(q)' = Letting(q) \ {c} /\ Handed(q)' = Handed(q) /\ (WaitedFor(q)' <=> WaitedFor(q))
  BY CallsChange
<1>3. /\ Shares(q)' = (Shares(q) \ {<<"of", c>>}) \cup {<<"at", m>>} /\ Hands(q)' = Hands(q)
      /\ <<"of", c>> \in Shares(q) /\ <<"at", m>> \notin Shares(q)
  <2>1. Hands(q)' = Hands(q)
    BY <1>1, <1>2 DEF Hands
  <2>2. m \notin Sharing(q)
    BY MarksOnly
  <2> QED
    BY <1>1, <1>2, <2>1, <2>2, SharesChange
<1>4. SUFFICES ASSUME CountOf(q) PROVE CountOf(q)' /\ (HandOf(q) => HandOf(q)')
  OBVIOUS
<1>5. PICK S, n : S = Shares(q) \ {<<"of", c>>} /\ n = Cardinality(Shares(q))
  OBVIOUS
<1>6. n \in Nat /\ IsFiniteSet(S) /\ Cardinality(S) = n - 1
  BY <1>3, <1>4, <1>5, ShareCounts DEF CountOf
<1>7. <<"at", m>> \notin S
  BY <1>3, <1>5
<1>8. IsFiniteSet(S \cup {<<"at", m>>}) /\ Cardinality(S \cup {<<"at", m>>}) = n - 1 + 1
  BY <1>6, <1>7, ShareCounts
<1>9. IsFiniteSet(Shares(q)') /\ Cardinality(Shares(q)') = n
  BY <1>3, <1>5, <1>6, <1>8
<1>10. CountOf(q)'
  BY <1>1, <1>4, <1>5, <1>9 DEF CountOf
<1>11. ~OnlyLooks(q) /\ ~OnlyFast(q)
  BY DEF OnlyLooks, OnlyFast
<1>12. HandOf(q) => HandOf(q)'
  BY <1>1, <1>2, <1>3, <1>11, HandStays, MarksOnly
<1> QED
  BY <1>10, <1>12

\* The owner lets a call go that is no barrier, and counts it.
LEMMA CallLetGo ==
    ASSUME RunInv, NEW m, NEW c \in Calls, StepsAt(m, {c}), NEW q \in Queues,
           m \in Owning(q), m \in Owning(q)', m \notin Sharing(q)', m \notin Resuming(q)',
           m \notin Sharing(q), m \notin Resuming(q),
           c \notin Letting(q), c \in Letting(q)', c \notin Handed(q), c \notin Handed(q)',
           running'[q] = running[q] + 2, suspend_cnt'[q] = suspend_cnt[q],
           Busy(m), ~Busy(m)', ~Runs(m)'
    PROVE  /\ CountOf(q) => CountOf(q)'
           /\ CountOf(q) /\ HandOf(q) => HandOf(q)'
<1>1. Sharing(q)' = Sharing(q) /\ Owning(q)' = Owning(q) /\ Resuming(q)' = Resuming(q)
  BY FramesChange
<1>2. Letting(q)' = Letting(q) \cup {c} /\ Handed(q)' = Handed(q) /\ (WaitedFor(q)' <=> WaitedFor(q))
  BY CallsChange
<1>3. /\ Shares(q)' = Shares(q) \cup {<<"of", c>>} /\ Hands(q)' = Hands(q)
      /\ <<"of", c>> \notin Shares(q)
  <2>1. Hands(q)' = Hands(q)
    BY <1>1, <1>2 DEF Hands
  <2> QED
    BY <1>1, <1>2, <2>1, SharesChange
<1>4. SUFFICES ASSUME CountOf(q) PROVE CountOf(q)' /\ (HandOf(q) => HandOf(q)')
  OBVIOUS
<1>5. PICK n : n = Cardinality(Shares(q))
  OBVIOUS
<1>6. n \in Nat /\ running[q] = 2 * n + 1 /\ \A p \in Owning(q) : p = m
  BY <1>4, <1>5, ShareCounts DEF CountOf
<1>7. IsFiniteSet(Shares(q)') /\ Cardinality(Shares(q)') = n + 1
  BY <1>3, <1>4, <1>5, ShareCounts DEF CountOf
<1>8. running'[q] = 2 * (n + 1) + 1
  BY <1>6
<1>9. CountOf(q)'
  BY <1>1, <1>4, <1>7, <1>8 DEF CountOf
<1>10. HandOf(q) => HandOf(q)'
  BY <1>1, <1>2, <1>3, <1>6 DEF HandOf
<1> QED
  BY <1>9, <1>10

\* The owner suspends the queue and lets a barrier go, which is alone.
LEMMA HandedOverTo ==
    ASSUME RunInv, NEW m, NEW c \in Calls, StepsAt(m, {c}), NEW q \in Queues,
           m \in Owning(q), m \in Owning(q)', m \notin Sharing(q)', m \notin Resuming(q)',
           m \notin Sharing(q), m \notin Resuming(q),
           c \notin Letting(q), c \notin Letting(q)', c \notin Handed(q), c \in Handed(q)',
           running'[q] = running[q], suspend_cnt'[q] = suspend_cnt[q] + 2, suspend_cnt[q] \in Int,
           WaitedFor(q), Shares(q) = {}, Busy(m), ~Busy(m)', ~Runs(m)'
    PROVE  /\ CountOf(q) => CountOf(q)'
           /\ CountOf(q) /\ HandOf(q) => HandOf(q)'
<1>1. Sharing(q)' = Sharing(q) /\ Owning(q)' = Owning(q) /\ Resuming(q)' = Resuming(q)
  BY FramesChange
<1>2. Letting(q)' = Letting(q) /\ Handed(q)' = Handed(q) \cup {c} /\ (WaitedFor(q)' <=> WaitedFor(q))
  BY CallsChange
<1>3. Shares(q)' = Shares(q) /\ Hands(q)' = Hands(q) \cup {<<"of", c>>}
  <2>1. Shares(q)' = Shares(q)
    BY <1>1, <1>2 DEF Shares
  <2> QED
    BY <1>1, <1>2, <2>1, HandsChange
<1>4. CountOf(q) => CountOf(q)'
  BY <1>1, <1>3 DEF CountOf
<1>5. ASSUME CountOf(q), HandOf(q)
      PROVE  HandOf(q)'
  <2>1. \A p \in Owning(q) : p = m
    BY <1>5 DEF CountOf
  <2>2. Hands(q) = {} /\ suspend_cnt[q] >= 0
    BY <1>5 DEF HandOf
  <2>3. OnlyFast(q)'
    <3>1. Sharing(q)' = {} /\ Letting(q)' = {}
      BY <1>1, <1>2, BothSets DEF Shares
    <3> QED
      BY <3>1 DEF OnlyFast
  <2>4. suspend_cnt'[q] >= 2
    BY <2>2
  <2> QED
    BY <1>1, <1>2, <1>3, <2>1, <2>2, <2>3, <2>4 DEF HandOf
<1> QED
  BY <1>4, <1>5

\* The thread that waits for a barrier comes for it.
LEMMA HandTaken ==
    ASSUME RunInv, NEW m, NEW c \in Calls, StepsAt(m, {c}), NEW q \in Queues,
           m \notin Marked(MarkAts, q), m \notin Sharing(q)', m \notin Owning(q)', m \in Resuming(q)',
           c \notin Letting(q), c \notin Letting(q)', c \in Handed(q), c \notin Handed(q)',
           running'[q] = running[q], suspend_cnt'[q] = suspend_cnt[q]
    PROVE  /\ CountOf(q) => CountOf(q)'
           /\ CountOf(q) /\ HandOf(q) => HandOf(q)'
<1>1. Sharing(q)' = Sharing(q) /\ Owning(q)' = Owning(q) /\ Resuming(q)' = Resuming(q) \cup {m}
  BY FramesChange, MarksOnly
<1>2. Letting(q)' = Letting(q) /\ Handed(q)' = Handed(q) \ {c} /\ (WaitedFor(q)' <=> WaitedFor(q))
  BY CallsChange
<1>3. /\ Shares(q)' = Shares(q) /\ <<"of", c>> \in Hands(q)
      /\ Hands(q)' = (Hands(q) \ {<<"of", c>>}) \cup {<<"at", m>>}
  <2>1. Shares(q)' = Shares(q)
    BY <1>1, <1>2 DEF Shares
  <2> QED
    BY <1>1, <1>2, <2>1, HandsChange
<1>4. CountOf(q) => CountOf(q)'
  BY <1>1, <1>3 DEF CountOf
<1>5. ASSUME HandOf(q)
      PROVE  HandOf(q)'
  <2>1. Hands(q)' = {<<"at", m>>}
    BY <1>3, <1>5 DEF HandOf
  <2>2. /\ OnlyLooks(q) => OnlyLooks(q)'
        /\ OnlyFast(q) => OnlyFast(q)'
    BY <1>2, LooksStay
  <2>3. \A p \in Owning(q) : p \in Pos /\ Same(p)
    BY MarksAround, MarksOnly
  <2>4. \A p \in Owning(q) : (Runs(p)' => Runs(p)) /\ (Busy(p)' => Busy(p))
    BY <2>3 DEF Same, Busy
  <2>5. \A p \in Owning(q)' : (Runs(p)' => OnlyLooks(q)') /\ ~Busy(p)'
    BY <1>1, <1>3, <1>5, <2>2, <2>4 DEF HandOf
  <2>6. WaitedFor(q)' /\ suspend_cnt'[q] >= 2 /\ OnlyFast(q)'
    BY <1>2, <1>3, <1>5, <2>2 DEF HandOf
  <2>7. suspend_cnt'[q] >= 0
    BY <1>5, <1>2, <2>6 DEF HandOf
  <2> QED
    BY <2>1, <2>5, <2>6, <2>7 DEF HandOf
<1> QED
  BY <1>4, <1>5

\* The barrier has returned and its thread resumes the queue.
LEMMA HandBack ==
    ASSUME RunInv, NEW m, StepsAt(m, {}), NEW q \in Queues,
           m \notin Sharing(q), m \notin Owning(q), m \in Resuming(q), m \notin Marked(MarkAts, q)',
           running'[q] = running[q], suspend_cnt'[q] = suspend_cnt[q] - 2, suspend_cnt[q] \in Int
    PROVE  /\ CountOf(q) => CountOf(q)'
           /\ CountOf(q) /\ HandOf(q) => HandOf(q)'
<1>0. m \notin Sharing(q)' /\ m \notin Owning(q)' /\ m \notin Resuming(q)'
  BY MarksNext
<1>1. Sharing(q)' = Sharing(q) /\ Owning(q)' = Owning(q) /\ Resuming(q)' = Resuming(q) \ {m}
  BY <1>0, FramesChange
<1>2. Letting(q)' = Letting(q) /\ Handed(q)' = Handed(q) /\ (WaitedFor(q)' <=> WaitedFor(q))
  BY CallsStay
<1>3. /\ Shares(q)' = Shares(q) /\ <<"at", m>> \in Hands(q)
      /\ Hands(q)' = Hands(q) \ {<<"at", m>>}
  <2>1. Shares(q)' = Shares(q)
    BY <1>1, <1>2 DEF Shares
  <2> QED
    BY <1>1, <1>2, <2>1, HandsChange
<1>4. CountOf(q) => CountOf(q)'
  BY <1>1, <1>3 DEF CountOf
<1>5. ASSUME HandOf(q)
      PROVE  HandOf(q)'
  <2>1. Hands(q)' = {}
    BY <1>3, <1>5 DEF HandOf
  <2>2. OnlyLooks(q) => OnlyLooks(q)'
    BY <1>0, <1>2, LooksStay
  <2>3. \A p \in Owning(q) : p \in Pos /\ Same(p)
    BY MarksAround, MarksOnly
  <2>4. \A p \in Owning(q)' : Runs(p)' => OnlyLooks(q)'
    BY <1>1, <1>5, <2>2, <2>3 DEF HandOf, Same
  <2>5. suspend_cnt'[q] >= 0
    BY <1>3, <1>5 DEF HandOf
  <2> QED
    BY <2>1, <2>4, <2>5 DEF HandOf
<1> QED
  BY <1>4, <1>5

\* A step about the frame at m, which is of queue q.
LEMMA OneQueue ==
    ASSUME RunInv, CountInv, NEW m, NEW C, StepsAt(m, C), NEW q \in Queues, \A c \in C : U.q[c] = q,
           \A r \in Queues \ {q} : /\ m \notin Marked(MarkAts, r) /\ m \notin Marked(MarkAts, r)'
                                   /\ running'[r] = running[r] /\ suspend_cnt'[r] = suspend_cnt[r],
           CountOf(q) => CountOf(q)',
           CountOf(q) /\ HandOf(q) => HandOf(q)'
    PROVE  CountInv' /\ (HandInv => HandInv')
<1>1. ASSUME NEW r \in Queues \ {q}
      PROVE  CountOf(r)' /\ (HandOf(r) => HandOf(r)')
  <2>1. CountOf(r) /\ \A c \in C : U.q[c] # r
    BY <1>1 DEF CountInv
  <2>2. SuspendedEnough(r)
    BY DEF SuspendedEnough
  <2> QED
    BY <2>1, <2>2, QueueRests
<1>2. CountOf(q)
  BY DEF CountInv
<1>3. \A r \in Queues : CountOf(r)' /\ (HandOf(r) => HandOf(r)')
  BY <1>1, <1>2 DEF HandInv
<1> QED
  BY <1>2, <1>3 DEF CountInv, HandInv
-----------------------------------------------------------------------------
(* What a step does to the frames of its thread. *)

\* The innermost frame e, at b, becomes f, and g and h are put on it.
Steps(b, e, f, g, h) ==
    Fr(b) = e /\ Fr(Up(b)) = Nothing /\ Fr(Up(Up(b))) = Nothing /\ Makes(b, f, g, h)

LEMMA FramesOfStack ==
    ASSUME NEW T, NEW r \in Seq(T), NEW s \in Seq(StackFrame), r \o s \in Seq(StackFrame)
    PROVE  r \in Seq(StackFrame)
<1>1. PICK S : S = StackFrame \cup T
  OBVIOUS
<1>2. r \in Seq(S) /\ s \in Seq(S)
  BY <1>1, SeqMonotonic
<1>3. Len(r \o s) = Len(r) + Len(s) /\ \A i \in 1 .. Len(r) : (r \o s)[i] = r[i]
  BY <1>2, ConcatProperties
<1>4. Len(r) \in Nat /\ Len(s) \in Nat
  BY <1>2
<1>5. \A i \in 1 .. Len(r) : i \in 1 .. Len(r \o s) /\ r[i] \in StackFrame
  BY <1>3, <1>4
<1> QED
  BY <1>2, <1>4, <1>5

\* The frames that a thread goes on with.
LEMMA Innermost ==
    ASSUME QueueTypes, QueueTypes', NEW t \in Threads, stack[t] # <<>>, NEW b, b = TopOf(t)
    PROVE  /\ b \in Pos /\ Fr(b) = Top(t) /\ Top(t) \in StackFrame
           /\ Become(t, <<>>) => Steps(b, Top(t), Nothing, Nothing, Nothing)
           /\ \A f : Become(t, <<f>>) => Steps(b, Top(t), f, Nothing, Nothing)
           /\ \A f, g : Become(t, <<g, f>>) => Steps(b, Top(t), f, g, Nothing)
           /\ \A f, g, h : Become(t, <<h, g, f>>) => Steps(b, Top(t), f, g, h)
<1>1. /\ b \in Pos /\ Fr(b) = Top(t) /\ Top(t) \in StackFrame
      /\ Fr(Up(b)) = Nothing /\ Fr(Up(Up(b))) = Nothing
      /\ Become(t, <<>>) => Makes(b, Nothing, Nothing, Nothing)
      /\ \A f \in StackFrame : Become(t, <<f>>) => Makes(b, f, Nothing, Nothing)
      /\ \A f, g \in StackFrame : Become(t, <<g, f>>) => Makes(b, f, g, Nothing)
      /\ \A f, g, h \in StackFrame : Become(t, <<h, g, f>>) => Makes(b, f, g, h)
  BY Becoming
<1>2. PICK s : s = Tail(stack[t])
  OBVIOUS
<1>3. s \in Seq(StackFrame)
  BY <1>2 DEF QueueTypes
<1>4. ASSUME NEW r, NEW T, r \in Seq(T), Become(t, r)
      PROVE  r \in Seq(StackFrame)
  <2>1. stack'[t] = r \o s
    BY <1>2, <1>4 DEF Become, QueueTypes
  <2>2. stack'[t] \in Seq(StackFrame)
    BY DEF QueueTypes
  <2> QED
    BY <1>3, <1>4, <2>1, <2>2, FramesOfStack
<1>5. ASSUME NEW f, Become(t, <<f>>) PROVE f \in StackFrame
  <2>1. PICK r : r = <<f>>
    OBVIOUS
  <2>2. r \in Seq({f}) /\ Become(t, r) /\ Len(r) = 1 /\ r[1] = f
    BY <1>5, <2>1
  <2> HIDE <2>1
  <2>3. r \in Seq(StackFrame)
    BY <1>4, <2>2
  <2> QED
    BY <2>2, <2>3
<1>6. ASSUME NEW f, NEW g, Become(t, <<g, f>>) PROVE f \in StackFrame /\ g \in StackFrame
  <2>1. PICK r : r = <<g, f>>
    OBVIOUS
  <2>2. r \in Seq({f, g}) /\ Become(t, r) /\ Len(r) = 2 /\ r[1] = g /\ r[2] = f
    BY <1>6, <2>1
  <2> HIDE <2>1
  <2>3. r \in Seq(StackFrame)
    BY <1>4, <2>2
  <2> QED
    BY <2>2, <2>3
<1>7. ASSUME NEW f, NEW g, NEW h, Become(t, <<h, g, f>>)
      PROVE  f \in StackFrame /\ g \in StackFrame /\ h \in StackFrame
  <2>1. PICK r : r = <<h, g, f>>
    OBVIOUS
  <2>2. r \in Seq({f, g, h}) /\ Become(t, r) /\ Len(r) = 3 /\ r[1] = h /\ r[2] = g /\ r[3] = f
    BY <1>7, <2>1
  <2> HIDE <2>1
  <2>3. r \in Seq(StackFrame)
    BY <1>4, <2>2
  <2>4. \A i \in 1 .. Len(r) : r[i] \in StackFrame
    BY <2>3
  <2>5. 1 \in 1 .. Len(r) /\ 2 \in 1 .. Len(r) /\ 3 \in 1 .. Len(r)
    BY <2>2
  <2> QED
    BY <2>2, <2>4, <2>5
<1>8. \A f : Become(t, <<f>>) => Steps(b, Top(t), f, Nothing, Nothing)
  BY <1>1, <1>5 DEF Steps
<1>9. \A f, g : Become(t, <<g, f>>) => Steps(b, Top(t), f, g, Nothing)
  BY <1>1, <1>6 DEF Steps
<1>10. \A f, g, h : Become(t, <<h, g, f>>) => Steps(b, Top(t), f, g, h)
  BY <1>1, <1>7 DEF Steps
<1>11. Become(t, <<>>) => Steps(b, Top(t), Nothing, Nothing, Nothing)
  BY <1>1 DEF Steps
<1> QED
  BY <1>1, <1>8, <1>9, <1>10, <1>11

\* A call that is not the one pushed stays let go, or not.
LEMMA LetGoStays ==
    ASSUME NEW b, NEW e, NEW f, NEW g, NEW h, Steps(b, e, f, g, h), NEW c,
           sema'[c] = sema[c], Rooted(c)' <=> Rooted(c),
           \A x \in {e, f, g, h} : x.at = "push" => x.q # ROOT \/ x.o # c
    PROVE  LetGo(c)' <=> LetGo(c)
<1>1. /\ Fr(b) = e /\ Fr(Up(b)) = Nothing /\ Fr(Up(Up(b))) = Nothing
      /\ Fr(b)' = f /\ Fr(Up(b))' = g /\ Fr(Up(Up(b)))' = h
      /\ \A r \in Pos \ {b, Up(b), Up(Up(b))} : Fr(r)' = Fr(r)
  BY DEF Steps, Makes
<1>2. Nothing.at # "push"
  BY DEF Nothing
<1>3. ASSUME NEW p \in Pos
      PROVE  (Fr(p).at = "push" /\ Fr(p).q = ROOT /\ Fr(p).o = c)'
                <=> (Fr(p).at = "push" /\ Fr(p).q = ROOT /\ Fr(p).o = c)
  <2>1. CASE p \in {b, Up(b), Up(Up(b))}
    BY <1>1, <1>2, <2>1
  <2>2. CASE p \notin {b, Up(b), Up(Up(b))}
    BY <1>1, <2>2
  <2> QED
    BY <2>1, <2>2
<1>4. Pushed(c)' <=> Pushed(c)
  BY <1>3 DEF Pushed
<1> QED
  BY <1>4 DEF LetGo

LEMMA StepsAtTop ==
    ASSUME QueueTypes, RunInv, NEW b, NEW e, NEW f, NEW g, NEW h, Steps(b, e, f, g, h), NEW C,
           use' = use, begun \subseteq begun', \A c \in begun : ticket'[c] = ticket[c],
           f.at = "run" => (e.at = "run" /\ f.o = e.o) \/ b[2] = 0,
           h.at \notin MarkAts,
           \A c \in Calls \ C : U.q[c] \in Queues => (LetGo(c)' <=> LetGo(c)) /\ sema'[c] = sema[c]
    PROVE  /\ g.at \notin MarkAts /\ h.at # "run" => StepsAt(b, C)
           /\ e.at \notin MarkAts /\ f.at \notin MarkAts /\ g.at # "run" => StepsAt(Up(b), C)
           /\ (Runs(b)' <=> g.at = "run") /\ (Runs(Up(b))' <=> h.at = "run")
           /\ Block(b)' = g.o /\ Block(Up(b))' = h.o
           /\ ~Runs(b) /\ ~Runs(Up(b))
           /\ b \in Pos /\ Up(b) \in Pos
<1>1. /\ Makes(b, f, g, h) /\ Fr(b) = e /\ Fr(Up(b)) = Nothing /\ Fr(Up(Up(b))) = Nothing
  BY DEF Steps
<1>2. /\ g.at \notin MarkAts /\ h.at # "run" => Around(b)
      /\ e.at \notin MarkAts /\ f.at \notin MarkAts /\ g.at # "run" => Around(Up(b))
      /\ (Runs(b)' <=> g.at = "run") /\ (Runs(Up(b))' <=> h.at = "run")
      /\ Block(b)' = g.o /\ Block(Up(b))' = h.o
      /\ ~Runs(b) /\ ~Runs(Up(b))
  BY <1>1, AroundTop
<1>3. b \in Pos /\ Up(b) \in Pos /\ begun \subseteq Calls
  BY <1>1, UpApart DEF Makes, QueueTypes
<1> QED
  BY <1>2, <1>3 DEF StepsAt

\* The frames of a queue at b, and at the place above it.
LEMMA MarksAtTop ==
    ASSUME NEW b, NEW e, NEW f, NEW g, NEW h, Steps(b, e, f, g, h), NEW ats, NEW q
    PROVE  /\ (b \in Marked(ats, q) <=> e.at \in ats /\ e.q = q)
           /\ (b \in Marked(ats, q)' <=> f.at \in ats /\ f.q = q)
           /\ "none" \notin ats => Up(b) \notin Marked(ats, q)
           /\ (Up(b) \in Marked(ats, q)' <=> g.at \in ats /\ g.q = q)
<1>1. b \in Pos /\ Up(b) \in Pos
  BY UpApart DEF Steps, Makes
<1>2. Fr(b) = e /\ Fr(Up(b)) = Nothing /\ Fr(b)' = f /\ Fr(Up(b))' = g
  BY DEF Steps, Makes
<1>3. Nothing.at = "none"
  BY DEF Nothing
<1> QED
  BY <1>1, <1>2, <1>3 DEF Marked

\* The blocks that run when none begins: one may have returned.
LEMMA NoneBegins ==
    ASSUME QueueTypes, RunInv, NEW b, NEW e, NEW f, NEW g, NEW h, Steps(b, e, f, g, h),
           NEW C, NEW m \in {b, Up(b)}, StepsAt(m, C), g.at # "run", h.at # "run",
           f.at = "run" => (e.at = "run" /\ f.o = e.o) \/ b[2] = 0,
           h.at \notin MarkAts,
           e.at = "run" => (f.at = "run" /\ f.o = e.o) \/ e.o \in ended' \/ e.o \notin Calls,
           ended \subseteq ended', \A c \in begun' \ begun : c \in ended' \/ U.q[c] \notin Queues
    PROVE  RunInv'
<1>1. /\ Makes(b, f, g, h) /\ Fr(b) = e /\ Fr(Up(b)) = Nothing /\ Fr(Up(Up(b))) = Nothing
  BY DEF Steps
<1>2. ~Runs(m)'
  BY <1>1, AroundTop
<1>3. ASSUME NEW c \in begun' \ ended', U.q[c] \in Queues
      PROVE  c \in begun \ ended /\ \A p \in Pos : Runs(p) /\ Block(p) = c => Runs(p)' /\ Block(p)' = c
  <2>1. c \in begun \ ended /\ c \in Calls
    BY <1>3 DEF QueueTypes
  <2>2. ASSUME NEW p \in Pos, Runs(p), Block(p) = c
        PROVE  Runs(p)' /\ Block(p)' = c
    <3>1. Up(p) = b => e.at = "run" /\ e.o = c
      BY <1>1, <2>2 DEF Runs, Block
    <3>2. Up(p) = b => f.at = "run" /\ f.o = Fr(b).o
      BY <1>1, <1>3, <2>1, <3>1
    <3> QED
      BY <1>1, <2>2, <3>2, RunsPersist
  <2> QED
    BY <2>1, <2>2
<1> QED
  BY <1>2, <1>3, RunsGoOn

\* A block begins on the frame at m.
LEMMA OneBegins ==
    ASSUME QueueTypes, RunInv, NEW b, NEW e, NEW f, NEW g, NEW h, Steps(b, e, f, g, h),
           NEW C, NEW m, StepsAt(m, C), NEW c, Runs(m)', Block(m)' = c,
           Beneath(Fr(m), c)', e.at # "run",
           ended' = ended, begun' = begun \cup {c}
    PROVE  RunInv'
<1>1. /\ Makes(b, f, g, h) /\ Fr(b) = e /\ Fr(Up(b)) = Nothing /\ Fr(Up(Up(b))) = Nothing
  BY DEF Steps
<1>2. Beneath(Fr(m), Block(m))'
  BY DEF Beneath
<1>3. ASSUME NEW d \in begun' \ ended', d # c
      PROVE  d \in begun \ ended /\ \A p \in Pos : Runs(p) /\ Block(p) = d => Runs(p)' /\ Block(p)' = d
  <2>1. d \in begun \ ended
    BY <1>3
  <2>2. ASSUME NEW p \in Pos, Runs(p), Block(p) = d
        PROVE  Runs(p)' /\ Block(p)' = d
    <3>1. Up(p) # b
      BY <1>1, <2>2 DEF Runs
    <3> QED
      BY <1>1, <2>2, <3>1, RunsPersist
  <2> QED
    BY <2>1, <2>2
<1>4. \A d \in begun' \ ended' : U.q[d] \in Queues =>
              \/ d \in begun \ ended /\ \A p \in Pos : Runs(p) /\ Block(p) = d => Runs(p)' /\ Block(p)' = d
              \/ Runs(m)' /\ Block(m)' = d
  BY <1>3
<1> QED
  BY <1>2, <1>4, RunsGoOn

\* A step that is about no share, nor about a call that has one.
LEMMA Idles ==
    ASSUME QueueTypes, RunInv, CountInv, NEW b, NEW e, NEW f, NEW g, NEW h, Steps(b, e, f, g, h),
           e.at \notin MarkAts, f.at \notin MarkAts, g.at \notin MarkAts, h.at \notin MarkAts,
           g.at # "run", h.at # "run",
           f.at = "run" => (e.at = "run" /\ f.o = e.o) \/ b[2] = 0,
           e.at = "run" => (f.at = "run" /\ f.o = e.o) \/ e.o \in ended' \/ e.o \notin Calls,
           use' = use, begun \subseteq begun', \A c \in begun : ticket'[c] = ticket[c],
           ended \subseteq ended', \A c \in begun' \ begun : c \in ended' \/ U.q[c] \notin Queues,
           running' = running, sema' = sema,
           \A c \in Calls : U.q[c] \in Queues => (LetGo(c)' <=> LetGo(c)),
           \A q \in Queues : HandOf(q) => SuspendedEnough(q)
    PROVE  RunInv' /\ CountInv' /\ (HandInv => HandInv')
<1>1. StepsAt(b, {})
  BY StepsAtTop
<1>2. RunInv'
  BY <1>1, NoneBegins
<1>3. \A q \in Queues : b \notin Marked(MarkAts, q) /\ b \notin Marked(MarkAts, q)'
  BY MarksAtTop
<1>4. \A q \in Queues : /\ CountOf(q) => CountOf(q)'
                        /\ HandOf(q) => HandOf(q)'
  BY <1>1, <1>3, QueueRests
<1> QED
  BY <1>2, <1>4 DEF CountInv, HandInv
-----------------------------------------------------------------------------
(* Where objects belong. *)

\* Frames that say nothing of it, and have no share.
PlainAts == {"none", "run", "wakeup", "wakeup_probe", "wakeup_trylock", "release",
             "invoke", "invoke_trylock", "invoke_drop", "invoke_idle"}

LEMMA PlainFits == \A x : x.at \in PlainAts => Fits(x) /\ x.at \notin MarkAts /\ x.at # "push"
BY DEF PlainAts, Fits, FastAts, WaitAts, SyncAts, BarrierAts, HoldAts, FetchedAts, SharedAts,
       MarkAts, OwnerAts

\* A drainer's frame that holds nothing.
LEMMA EmptyFits ==
    \A x : x.at \in EmptyAts \cup {"invoke_idle", "unlock", "resume"} => Fits(x) /\ x.at # "push"
BY DEF EmptyAts, Fits, FastAts, WaitAts, SyncAts, BarrierAts, HoldAts, FetchedAts, SharedAts

LEMMA NothingIsPlain == Nothing.at \in PlainAts /\ Nothing.at = "none"
BY DEF Nothing, PlainAts

LEMMA FitsStill ==
    ASSUME NEW x, Fits(x), use' = use, targetq' = targetq,
           \A c \in Calls : ticket[c] > 0 => ticket'[c] > 0
    PROVE  Fits(x)'
<1>1. U' = U /\ (\A c : (IsBarrier(c)' <=> IsBarrier(c))) /\ \A o : Home(o)' = Home(o)
  BY SameUse DEF Home
<1>2. \A c : Free(c)' <=> Free(c)
  BY <1>1 DEF Free
<1> QED
  BY <1>1, <1>2 DEF Fits

LEMMA FramesFit ==
    ASSUME AllFit, NEW b, NEW e, NEW f, NEW g, NEW h, Steps(b, e, f, g, h),
           use' = use, targetq' = targetq, \A c \in Calls : ticket[c] > 0 => ticket'[c] > 0,
           Fits(f), Fits(g), Fits(h)
    PROVE  AllFit'
<1>1. Fits(f)' /\ Fits(g)' /\ Fits(h)'
  BY FitsStill
<1>2. ASSUME NEW p \in Pos PROVE Fits(Fr(p))'
  <2>1. CASE p \in {b, Up(b), Up(Up(b))}
    <3>1. Fr(p)' = f \/ Fr(p)' = g \/ Fr(p)' = h
      BY <2>1 DEF Steps, Makes
    <3> QED
      BY <1>1, <3>1 DEF Fits
  <2>2. CASE p \notin {b, Up(b), Up(Up(b))}
    <3>1. PICK x : x = Fr(p)
      OBVIOUS
    <3>2. Fr(p)' = x
      BY <2>2, <3>1 DEF Steps, Makes
    <3>3. Fits(x)'
      BY <3>1, FitsStill DEF AllFit
    <3> QED
      BY <3>2, <3>3 DEF Fits
  <2> QED
    BY <2>1, <2>2
<1> QED
  BY <1>2 DEF AllFit

\* A step that does not touch the lists.
LEMMA ListedStill ==
    ASSUME NEW A, NEW B, Listed(A), B \subseteq A, NEW b, NEW e, NEW f, NEW g, NEW h,
           Steps(b, e, f, g, h),
           use' = use, targetq' = targetq, ticket' = ticket, SameLists,
           Fits(f), Fits(g), Fits(h),
           \A c \in Calls : sema'[c] = 1 => sema[c] = 1 \/ ticket[c] > 0
    PROVE  Listed(B)'
<1>1. AllFit'
  BY FramesFit DEF Listed
<1>2. (\A o : Home(o)' = Home(o)) /\ \A c : (Free(c)' <=> Free(c))
  BY SameUse DEF Home, Free
<1>3. Lists(B)'
  BY <1>2 DEF Listed, Lists, SameLists
<1>4. Tickets(B)'
  BY DEF Listed, Tickets, SameLists
<1> QED
  BY <1>1, <1>3, <1>4 DEF Listed
-----------------------------------------------------------------------------
(* Steps. *)

\* A queue that is waited for is resumed by who suspended it only.
OwnResumes ==
    \A t \in Threads : Calling(t, "resume") =>
        LET q == U.q[This(t)] IN
        WaitedFor(q) => suspend_cnt[q] >= IF Hands(q) = {} THEN 2 ELSE 4

RunningType == running \in [Queues -> Int]

Good(listed)  == /\ QueueTypes /\ RunningType /\ Places(listed)
                 /\ Listed(listed) /\ RunInv /\ CountInv
Stays(listed) == Listed(listed)' /\ RunInv' /\ CountInv' /\ (HandInv /\ OwnResumes => HandInv')

\* A function goes on at another place.
LEMMA Goes ==
    ASSUME QueueTypes, QueueTypes', NEW t \in Threads, stack[t] # <<>>, NEW b, b = TopOf(t),
           Top(t).at \notin {"run", "link"}, NEW at, Goto(t, at)
    PROVE  \E f : /\ Steps(b, Top(t), f, Nothing, Nothing)
                  /\ f.at = at /\ f.q = Top(t).q /\ f.o = Top(t).o
                  /\ Top(t).at \in EmptyAts \cup HoldAts => f.n = Top(t).n /\ f.tq = Top(t).tq
<1>1. PICK f : f = [Top(t) EXCEPT !.at = at]
  OBVIOUS
<1>2. PICK e : e = Top(t)
  OBVIOUS
<1>3. e \in StackFrame
  BY <1>2, Innermost
<1>4. /\ f.at = at /\ f.q = e.q /\ f.o = e.o
      /\ e.at \in EmptyAts \cup HoldAts => f.n = e.n /\ f.tq = e.tq
  <2>1. CASE e \in PushFrame \cup PublishFrame \cup BareFrame \cup CallFrame
    BY <1>1, <1>2, <2>1 DEF PushFrame, PublishFrame, BareFrame, CallFrame,
       EmptyAts, HoldAts, FetchedAts, BareAts, FastAts, WaitAts
  <2>2. CASE e \in DrainFrame
    BY <1>1, <1>2, <2>2 DEF DrainFrame
  <2> QED
    BY <1>2, <1>3, <2>1, <2>2 DEF StackFrame, LinkFrame, RunFrame
<1>5. Steps(b, Top(t), f, Nothing, Nothing)
  BY <1>1, Innermost DEF Goto
<1> QED
  BY <1>2, <1>4, <1>5

\* A step that has to do with neither lists nor shares.
LEMMA PlainSteps ==
    ASSUME NEW A \in SUBSET Objects, Good(A), NEW B \in SUBSET A,
           NEW b, NEW e, NEW f, NEW g, Steps(b, e, f, g, Nothing),
           e.at \notin MarkAts \cup {"run", "push"}, f.at \in PlainAts \ {"run"}, g.at \in PlainAts \ {"run"},
           SameLists, UNCHANGED <<use, targetq, ticket, running, suspend_cnt, sema, begun, ended>>
    PROVE  Stays(B)
<1>1. Listed(B)'
  BY ListedStill, PlainFits, NothingIsPlain DEF Good
<1>2. \A c \in Calls : LetGo(c)' <=> LetGo(c)
  <2>1. \A c : Rooted(c)' <=> Rooted(c)
    BY DEF Rooted, SameLists
  <2>2. \A x \in {e, f, g, Nothing} : x.at # "push"
    BY PlainFits, NothingIsPlain
  <2> QED
    BY <2>1, <2>2, LetGoStays
<1>3. RunInv' /\ CountInv' /\ (HandInv => HandInv')
  <2>1. /\ e.at \notin MarkAts /\ f.at \notin MarkAts /\ g.at \notin MarkAts /\ Nothing.at \notin MarkAts
        /\ g.at # "run" /\ Nothing.at # "run"
    BY PlainFits, NothingIsPlain
  <2>2. \A q \in Queues : SuspendedEnough(q)
    BY DEF SuspendedEnough
  <2> QED
    BY <1>2, <2>1, <2>2, Idles DEF Good
<1> QED
  BY <1>1, <1>3 DEF Stays

LEMMA PlainActions ==
    ASSUME NEW A \in SUBSET Objects, Good(A), QueueTypes', NEW B \in SUBSET A, NEW t \in Threads,
           \/ WakeupUnlessSuspended(t) \/ WakeupUnlessEmpty(t) \/ ReleaseReference(t)
           \/ InvokeUnlessSuspended(t) \/ InvokeVerifyIdle(t)
    PROVE  Stays(B)
<1> USE DEF SameLists, lists, counts, refs, blocks
<1>1. PICK b, e : b = TopOf(t) /\ e = Top(t)
  OBVIOUS
<1>2. /\ stack[t] # <<>> /\ e.at \notin MarkAts \cup {"run", "push", "link"}
      /\ SameLists /\ UNCHANGED <<use, targetq, ticket, running, suspend_cnt, sema, begun, ended>>
  <2>1. stack[t] # <<>> /\ e.at \in {"wakeup", "wakeup_probe", "release", "invoke", "invoke_idle"}
    BY <1>1, AtTop DEF WakeupUnlessSuspended, WakeupUnlessEmpty, ReleaseReference,
       InvokeUnlessSuspended, InvokeVerifyIdle
  <2>2. e.at \notin MarkAts \cup {"run", "push", "link"}
    BY <2>1 DEF MarkAts, SharedAts, OwnerAts
  <2>3. SameLists /\ UNCHANGED <<use, targetq, ticket, running, suspend_cnt, sema, begun, ended>>
    BY DEF WakeupUnlessSuspended, WakeupUnlessEmpty, ReleaseReference,
       InvokeUnlessSuspended, InvokeVerifyIdle
  <2> QED
    BY <2>1, <2>2, <2>3
<1>3. ASSUME NEW at \in PlainAts \ {"run"}, Goto(t, at)
      PROVE  Stays(B)
  <2>1. PICK f : Steps(b, e, f, Nothing, Nothing) /\ f.at = at
    BY <1>1, <1>2, <1>3, Goes DEF Good
  <2> QED
    BY <1>2, <1>3, <2>1, PlainSteps, NothingIsPlain
<1>4. ASSUME Become(t, <<>>)
      PROVE  Stays(B)
  <2>1. Steps(b, e, Nothing, Nothing, Nothing)
    BY <1>1, <1>2, <1>4, Innermost DEF Good
  <2> QED
    BY <1>2, <2>1, PlainSteps, NothingIsPlain
<1>5. ASSUME NEW q, Become(t, Wakeup(q) \o Release(q)) \/ Become(t, <<>> \o Release(q)) \/ Become(t, Release(q))
      PROVE  Stays(B)
  <2>1. PICK f, g : f = Frame("release", q, NULL) /\ g = Frame("wakeup", q, NULL)
    OBVIOUS
  <2>2. f.at = "release" /\ g.at = "wakeup"
    BY <2>1 DEF Frame
  <2>3. Become(t, <<g, f>>) \/ Become(t, <<f>>)
    <3>1. <<g>> \o <<f>> = <<g, f>> /\ <<>> \o <<f>> = <<f>>
      BY Concatenations
    <3> QED
      BY <1>5, <2>1, <3>1 DEF Wakeup, Release
  <2>4. Steps(b, e, f, g, Nothing) \/ Steps(b, e, f, Nothing, Nothing)
    BY <1>1, <1>2, <2>3, Innermost DEF Good
  <2> QED
    BY <1>2, <2>2, <2>4, PlainSteps, NothingIsPlain DEF PlainAts
<1>6. \/ \E at \in PlainAts \ {"run"} : Goto(t, at)
      \/ Become(t, <<>>)
      \/ \E q : Become(t, Wakeup(q) \o Release(q)) \/ Become(t, <<>> \o Release(q)) \/ Become(t, Release(q))
  <2>1. CASE WakeupUnlessSuspended(t) \/ WakeupUnlessEmpty(t) \/ InvokeUnlessSuspended(t)
    BY <2>1 DEF WakeupUnlessSuspended, WakeupUnlessEmpty, InvokeUnlessSuspended, Return, PlainAts
  <2>2. CASE ReleaseReference(t)
    BY <2>2 DEF ReleaseReference, Return, Released
  <2>3. CASE InvokeVerifyIdle(t)
    BY <2>3 DEF InvokeVerifyIdle, LastLook
  <2> QED
    BY <2>1, <2>2, <2>3
<1> QED
  BY <1>3, <1>4, <1>5, <1>6

\* A client or a block makes a call.
LEMMA MakesACall ==
    ASSUME NEW A \in SUBSET Objects, Good(A), NEW B \in SUBSET A,
           NEW b, NEW e, NEW f, NEW g, NEW h, Steps(b, e, f, g, h),
           e.at = "run", f.at = "run", f.o = e.o,
           g.at \notin MarkAts \cup {"run"}, h.at \notin MarkAts \cup {"run"}, Fits(g), Fits(h),
           \A x \in {g, h} : x.at = "push" /\ x.q = ROOT => U.q[x.o] = ROOT,
           SameLists, UNCHANGED <<use, targetq, ticket, running, sema, begun, ended>>,
           OwnResumes => \A q \in Queues : HandOf(q) => SuspendedEnough(q)
    PROVE  Stays(B)
<1>0. /\ e.at \notin MarkAts \cup {"push"} /\ f.at \notin MarkAts \cup {"push"} /\ Fits(f)
      /\ f.at = "run" /\ "run" \notin MarkAts
  BY PlainFits DEF PlainAts
<1>1. Listed(B)'
  BY <1>0, ListedStill DEF Good
<1>2. \A c \in Calls : U.q[c] \in Queues => (LetGo(c)' <=> LetGo(c))
  <2>1. \A c : Rooted(c)' <=> Rooted(c)
    BY DEF Rooted, SameLists
  <2>2. ASSUME NEW c \in Calls, U.q[c] \in Queues, NEW x \in {e, f, g, h}, x.at = "push"
        PROVE  x.q # ROOT \/ x.o # c
    BY <1>0, <2>2, RootAssumption
  <2> QED
    BY <2>1, <2>2, LetGoStays
<1>3. RunInv' /\ CountInv'
  <2>1. StepsAt(b, {})
    BY <1>0, <1>2, StepsAtTop DEF Good
  <2>2. \A q \in Queues : b \notin Marked(MarkAts, q) /\ b \notin Marked(MarkAts, q)'
    BY <1>0, MarksAtTop
  <2>3. \A q \in Queues : CountOf(q) => CountOf(q)'
    BY <2>1, <2>2, QueueRests DEF Good
  <2>4. RunInv'
    BY <1>0, <2>1, NoneBegins DEF Good
  <2> QED
    BY <2>3, <2>4 DEF Good, CountInv
<1>4. HandInv /\ OwnResumes => HandInv'
  BY <1>0, <1>2, Idles DEF Good
<1> QED
  BY <1>1, <1>3, <1>4 DEF Stays

\* What the frame that makes a call goes on as, and what it calls.
LEMMA Calls1 ==
    ASSUME QueueTypes, QueueTypes', NEW t \in Threads, NEW b, b = TopOf(t), NEW e, e = Top(t),
           e.at = "run", stack[t] # <<>>, e.rest # <<>>, NEW c, c = This(t)
    PROVE  /\ c \in Calls /\ U.q[c] \in Targets
           /\ U.op[c] \in {"sync", "barrier_sync", "suspend", "resume", "release", "set_target"} =>
                   U.q[c] \in Queues
           /\ \E f : /\ f.at = "run" /\ f.o = e.o
                     /\ Proceed(t, <<>>) => Steps(b, e, f, Nothing, Nothing)
                     /\ \A g : Proceed(t, <<g>>) => Steps(b, e, f, g, Nothing)
                     /\ \A g, h : Proceed(t, <<h>> \o <<g>>) => Steps(b, e, f, g, h)
<1>1. e \in StackFrame
  BY Innermost
<1>2. e \in RunFrame
  BY <1>1, FrameKinds
<1>3. c \in Calls
  BY <1>2 DEF RunFrame, This
<1>4. IsUse(U)
  BY UseTypes
<1>5. U.op[c] \in Operations /\ U.q[c] \in Targets
  BY <1>3, <1>4 DEF IsUse, Targets
<1>6. U.q[c] = ROOT => U.op[c] \in {"async", "barrier_async", "none"}
  BY <1>3, <1>4 DEF IsUse
<1>7. PICK f : f = [e EXCEPT !.rest = Tail(@)]
  OBVIOUS
<1>8. f.at = "run" /\ f.o = e.o
  BY <1>2, <1>7 DEF RunFrame
<1>9. /\ <<>> \o <<f>> = <<f>> /\ \A g : <<g>> \o <<f>> = <<g, f>>
      /\ \A g, h : (<<h>> \o <<g>>) \o <<f>> = <<h, g, f>>
  <2>1. \A g, h : <<h>> \o <<g>> = <<h, g>>
    BY Concatenations
  <2>2. \A g, h : <<h, g>> \o <<f>> = <<h, g, f>>
    BY Concatenations
  <2>3. <<>> \o <<f>> = <<f>> /\ \A g : <<g>> \o <<f>> = <<g, f>>
    BY Concatenations
  <2>4. \A g, h : (<<h>> \o <<g>>) \o <<f>> = <<h, g>> \o <<f>>
    BY <2>1
  <2> QED
    BY <2>2, <2>3, <2>4
<1>10. /\ Proceed(t, <<>>) => Steps(b, e, f, Nothing, Nothing)
       /\ \A g : Proceed(t, <<g>>) => Steps(b, e, f, g, Nothing)
       /\ \A g, h : Proceed(t, <<h>> \o <<g>>) => Steps(b, e, f, g, h)
  <2>1. \A r : Proceed(t, r) => Become(t, r \o <<f>>)
    BY <1>7 DEF Proceed
  <2>2. Proceed(t, <<>>) => Become(t, <<f>>)
    BY <1>9, <2>1
  <2>3. \A g : Proceed(t, <<g>>) => Become(t, <<g, f>>)
    BY <1>9, <2>1
  <2>4. ASSUME NEW g, NEW h, Proceed(t, <<h>> \o <<g>>)
        PROVE  Become(t, <<h, g, f>>)
    <3>1. Become(t, (<<h>> \o <<g>>) \o <<f>>)
      BY <2>1, <2>4
    <3> QED
      BY <1>9, <3>1
  <2>5. Proceed(t, <<>>) => Steps(b, e, f, Nothing, Nothing)
    BY <2>2, Innermost
  <2>6. \A g : Proceed(t, <<g>>) => Steps(b, e, f, g, Nothing)
    BY <2>3, Innermost
  <2>7. \A g, h : Proceed(t, <<h>> \o <<g>>) => Steps(b, e, f, g, h)
    BY <2>4, Innermost
  <2> QED
    BY <2>5, <2>6, <2>7
<1> QED
  BY <1>3, <1>5, <1>6, <1>8, <1>10 DEF Targets

\* Frames that make a call, or wait for it.
LEMMA CallFits ==
    ASSUME NEW q \in Queues, NEW c \in Calls, U.q[c] = q
    PROVE  /\ Fits(Frame("push", q, c))
           /\ U.op[c] = "sync" /\ ~IsBarrier(c) =>
                 \A at \in {"sync", "sync_add", "sync_wait"} : Fits(Frame(at, q, c))
           /\ U.op[c] = "sync" /\ ~IsBarrier(c) /\ U.width[q] > 1 => Fits(Frame("sync_back", q, c))
           /\ U.op[c] \in SyncOps /\ IsBarrier(c) => \A at \in BarrierAts : Fits(Frame(at, q, c))
BY DEF Frame, Fits, Home, FastAts, WaitAts, SyncAts, BarrierAts, HoldAts, FetchedAts, SharedAts

\* A synchronous call is a barrier or not, as its op and the width of its queue say.
LEMMA SyncKinds ==
    ASSUME NEW c, U.op[c] \in SyncOps
    PROVE  IsBarrier(c) <=> U.op[c] = "barrier_sync" \/ U.width[U.q[c]] = 1
BY DEF IsBarrier, SyncOps

LEMMA CallActions ==
    ASSUME NEW A \in SUBSET Objects, Good(A), QueueTypes', NEW B \in SUBSET A, NEW t \in Threads,
           Submit(t), ~EndBlock(t)
    PROVE  Stays(B)
<1> USE DEF SameLists, lists, counts, refs, blocks
<1>1. PICK b, e, c, q : b = TopOf(t) /\ e = Top(t) /\ c = This(t) /\ q = U.q[c]
  OBVIOUS
<1>2. stack[t] # <<>> /\ e.at = "run" /\ e.rest # <<>>
  <2>1. \E op \in Operations : Calling(t, op)
    BY DEF Submit, dispatch_async_f, dispatch_set_target_queue, dispatch_sync_f,
           dispatch_suspend, Resume, dispatch_release, Operations
  <2> QED
    BY <1>1, <2>1, AtTop DEF Calling
<1>3. PICK f : /\ c \in Calls /\ q \in Targets
               /\ U.op[c] \in {"sync", "barrier_sync", "suspend", "resume", "release", "set_target"} =>
                       q \in Queues
               /\ f.at = "run" /\ f.o = e.o
               /\ Proceed(t, <<>>) => Steps(b, e, f, Nothing, Nothing)
               /\ \A g : Proceed(t, <<g>>) => Steps(b, e, f, g, Nothing)
               /\ \A g, h : Proceed(t, <<h>> \o <<g>>) => Steps(b, e, f, g, h)
  BY <1>1, <1>2, Calls1 DEF Good
<1>4. /\ Nothing.at \notin MarkAts \cup {"run", "push"} /\ Fits(Nothing)
      /\ \A x : x.at \in {"wakeup", "release"} => x.at \notin MarkAts \cup {"run", "push"} /\ Fits(x)
  BY PlainFits, NothingIsPlain DEF PlainAts
<1>5. CASE dispatch_async_f(t) \/ dispatch_set_target_queue(t)
  <2>1. PICK g : g = Frame("push", q, c)
    OBVIOUS
  <2>2. g.at = "push" /\ g.q = q /\ g.o = c
    BY <2>1 DEF Frame
  <2>3. Fits(g)
    BY <1>1, <1>3, <2>1
       DEF Frame, Fits, Home, FastAts, WaitAts, SyncAts, BarrierAts, HoldAts, FetchedAts, SharedAts
  <2>4. Steps(b, e, f, g, Nothing)
    BY <1>1, <1>3, <1>5, <2>1 DEF dispatch_async_f, dispatch_set_target_queue, Push
  <2>5. SameLists /\ UNCHANGED <<use, targetq, ticket, running, suspend_cnt, sema, begun, ended>>
    BY <1>5 DEF dispatch_async_f, dispatch_set_target_queue
  <2>6. "push" \notin MarkAts
    BY DEF MarkAts, SharedAts, OwnerAts
  <2>7. \A r \in Queues : SuspendedEnough(r)
    BY <2>5 DEF SuspendedEnough
  <2> QED
    BY <1>1, <1>2, <1>3, <1>4, <2>2, <2>3, <2>4, <2>5, <2>6, <2>7, MakesACall
<1>6. CASE dispatch_sync_f(t)
  <2>1. /\ U.op[c] \in SyncOps /\ q \in Queues
        /\ \/ \E at \in {"bsync_wait", "sync_wait"} :
                 /\ Proceed(t, Push(q, c) \o <<Frame(at, q, c)>>)
                 /\ at = IF IsBarrier(c) THEN "bsync_wait" ELSE "sync_wait"
           \/ \E at \in {"bsync", "sync"} :
                 /\ Proceed(t, <<Frame(at, q, c)>>)
                 /\ at = IF IsBarrier(c) THEN "bsync" ELSE "sync"
    <3>1. U.op[c] \in SyncOps
      BY <1>1, <1>6 DEF dispatch_sync_f, Calling, This, SyncOps
    <3>2. IsBarrier(c) <=> U.op[c] = "barrier_sync" \/ U.width[q] = 1
      BY <1>1, <3>1, SyncKinds
    <3>3. q \in Queues
      BY <1>3, <3>1 DEF SyncOps
    <3>4. Proceed(t, IF items_tail[q] # NULL
                     THEN Push(q, c) \o <<Frame(IF U.op[c] = "barrier_sync" \/ U.width[q] = 1
                                                THEN "bsync_wait" ELSE "sync_wait", q, c)>>
                     ELSE <<Frame(IF U.op[c] = "barrier_sync" \/ U.width[q] = 1
                                  THEN "bsync" ELSE "sync", q, c)>>)
      BY <1>1, <1>6 DEF dispatch_sync_f
    <3> QED
      BY <3>1, <3>2, <3>3, <3>4
  <2>2. SameLists /\ UNCHANGED <<use, targetq, ticket, running, suspend_cnt, sema, begun, ended>>
    BY <1>6 DEF dispatch_sync_f
  <2>3. \A r \in Queues : SuspendedEnough(r)
    BY <2>2 DEF SuspendedEnough
  <2>4. U.op[c] # "sync" => IsBarrier(c)
    BY <2>1 DEF SyncOps, IsBarrier
  <2>5. ASSUME NEW at \in {"bsync_wait", "sync_wait", "bsync", "sync"},
               at \in {"bsync_wait", "bsync"} <=> IsBarrier(c)
        PROVE  Fits(Frame(at, q, c)) /\ Frame(at, q, c).at \notin MarkAts \cup {"run", "push"}
    <3>1. Frame(at, q, c).at = at /\ at \notin MarkAts \cup {"run", "push"}
      BY DEF Frame, MarkAts, SharedAts, OwnerAts
    <3>2. CASE IsBarrier(c)
      <4>1. at \in BarrierAts
        BY <2>5, <3>2 DEF BarrierAts
      <4> QED
        BY <1>1, <1>3, <2>1, <3>1, <3>2, <4>1, CallFits
    <3>3. CASE ~IsBarrier(c)
      <4>1. at \in {"sync", "sync_add", "sync_wait"}
        BY <2>5, <3>3
      <4> QED
        BY <1>1, <1>3, <2>1, <2>4, <3>1, <3>3, <4>1, CallFits
    <3> QED
      BY <3>2, <3>3
  <2>6. ASSUME NEW at \in {"bsync_wait", "sync_wait"}, Proceed(t, Push(q, c) \o <<Frame(at, q, c)>>),
               at = IF IsBarrier(c) THEN "bsync_wait" ELSE "sync_wait"
        PROVE  Stays(B)
    <3>1. PICK g, h : g = Frame(at, q, c) /\ h = Frame("push", q, c)
      OBVIOUS
    <3>2. h.at = "push" /\ h.q = q /\ h.o = c /\ Fits(h) /\ h.at \notin MarkAts \cup {"run"}
      BY <1>1, <1>3, <2>1, <3>1, CallFits DEF Frame, MarkAts, SharedAts, OwnerAts
    <3>3. g.at \notin MarkAts \cup {"run", "push"} /\ Fits(g)
      BY <2>5, <2>6, <3>1
    <3>4. Steps(b, e, f, g, h)
      BY <1>3, <2>6, <3>1 DEF Push
    <3> QED
      BY <1>1, <1>2, <1>3, <1>4, <2>2, <2>3, <3>2, <3>3, <3>4, MakesACall
  <2>7. ASSUME NEW at \in {"bsync", "sync"}, Proceed(t, <<Frame(at, q, c)>>),
               at = IF IsBarrier(c) THEN "bsync" ELSE "sync"
        PROVE  Stays(B)
    <3>1. PICK g : g = Frame(at, q, c)
      OBVIOUS
    <3>2. g.at \notin MarkAts \cup {"run", "push"} /\ Fits(g)
      BY <2>5, <2>7, <3>1
    <3>3. Steps(b, e, f, g, Nothing)
      BY <1>3, <2>7, <3>1
    <3> QED
      BY <1>1, <1>2, <1>3, <1>4, <2>2, <2>3, <3>2, <3>3, MakesACall
  <2> QED
    BY <2>1, <2>6, <2>7
<1>7. CASE dispatch_suspend(t) \/ Resume(t) \/ dispatch_release(t)
  <2>1. \/ Proceed(t, <<>>)
        \/ \E at \in {"wakeup", "release"} : Proceed(t, <<Frame(at, q, NULL)>>)
    BY <1>1, <1>7 DEF dispatch_suspend, Resume, dispatch_release, WakeupByLast, Wakeup, Release
  <2>2. PICK g : /\ g.at \notin MarkAts \cup {"run", "push"} /\ Fits(g)
                 /\ Steps(b, e, f, g, Nothing)
    <3>1. ASSUME NEW at \in {"wakeup", "release"}, Proceed(t, <<Frame(at, q, NULL)>>)
          PROVE  \E g : /\ g.at \notin MarkAts \cup {"run", "push"} /\ Fits(g)
                        /\ Steps(b, e, f, g, Nothing)
      <4>1. Frame(at, q, NULL).at = at
        BY DEF Frame
      <4> QED
        BY <1>3, <1>4, <3>1, <4>1
    <3>2. ASSUME Proceed(t, <<>>)
          PROVE  \E g : /\ g.at \notin MarkAts \cup {"run", "push"} /\ Fits(g)
                        /\ Steps(b, e, f, g, Nothing)
      BY <1>3, <1>4, <3>2
    <3> QED
      BY <2>1, <3>1, <3>2
  <2>3. SameLists /\ UNCHANGED <<use, targetq, ticket, running, sema, begun, ended>>
    BY <1>7 DEF dispatch_suspend, Resume, dispatch_release, dispatch_resume
  <2>4. q \in Queues
    BY <1>1, <1>3, <1>7 DEF dispatch_suspend, Resume, dispatch_release, Calling, This
  <2>5. ASSUME OwnResumes, NEW r \in Queues, HandOf(r)
        PROVE  SuspendedEnough(r)
    <3>1. suspend_cnt \in [Queues -> Int]
      BY DEF Good, QueueTypes
    <3>2. CASE dispatch_suspend(t)
      <4>1. suspend_cnt' = Plus(suspend_cnt, q, 2)
        BY <1>1, <3>2 DEF dispatch_suspend
      <4>2. suspend_cnt'[r] = suspend_cnt[r] \/ suspend_cnt'[r] = suspend_cnt[r] + 2
        BY <3>1, <4>1 DEF Plus
      <4>3. (WaitedFor(r) => suspend_cnt[r] >= 0) /\ (Hands(r) # {} => suspend_cnt[r] >= 2)
        BY <2>5 DEF HandOf
      <4> QED
        BY <3>1, <4>2, <4>3 DEF SuspendedEnough
    <3>3. CASE Resume(t)
      <4>1. suspend_cnt' = Plus(suspend_cnt, q, -2) /\ Calling(t, "resume")
        BY <1>1, <3>3 DEF Resume, dispatch_resume
      <4>2. WaitedFor(q) => suspend_cnt[q] >= IF Hands(q) = {} THEN 2 ELSE 4
        BY <1>1, <2>5, <4>1 DEF OwnResumes
      <4>3. CASE r # q
        BY <3>1, <4>1, <4>3 DEF Plus, SuspendedEnough
      <4>4. CASE r = q
        <5>1. suspend_cnt'[r] = suspend_cnt[r] - 2 /\ suspend_cnt[r] \in Int
          BY <3>1, <4>1, <4>4 DEF Plus
        <5>2. Hands(r) # {} => WaitedFor(r)
          BY <2>5 DEF HandOf
        <5> QED
          BY <4>2, <4>4, <5>1, <5>2 DEF SuspendedEnough
      <4> QED
        BY <4>3, <4>4
    <3>4. CASE dispatch_release(t)
      BY <3>4 DEF dispatch_release, SuspendedEnough
    <3> QED
      BY <1>7, <3>2, <3>3, <3>4
  <2> QED
    BY <1>1, <1>2, <1>3, <1>4, <2>2, <2>3, <2>5, MakesACall
<1> QED
  BY <1>5, <1>6, <1>7 DEF Submit

LEMMA EndActions ==
    ASSUME NEW A \in SUBSET Objects, Good(A), QueueTypes', NEW B \in SUBSET A, NEW t \in Threads,
           EndBlock(t)
    PROVE  Stays(B)
<1> USE DEF SameLists, lists, counts, refs, blocks
<1>1. PICK b, e : b = TopOf(t) /\ e = Top(t)
  OBVIOUS
<1>2. stack[t] # <<>> /\ e.at = "run"
  BY <1>1, AtTop DEF EndBlock
<1>3. Steps(b, e, Nothing, Nothing, Nothing)
  BY <1>1, <1>2, Innermost DEF EndBlock, Return, Good
<1>4. /\ Nothing.at \notin MarkAts \cup {"run", "push"} /\ Fits(Nothing)
      /\ e.at \notin MarkAts \cup {"push"}
  BY <1>2, PlainFits, NothingIsPlain DEF PlainAts
<1>5. SameLists /\ UNCHANGED <<use, targetq, ticket, running, suspend_cnt, sema, begun>>
  BY DEF EndBlock
<1>6. Listed(B)'
  BY <1>3, <1>4, <1>5, ListedStill DEF Good
<1>7. \A c \in Calls : LetGo(c)' <=> LetGo(c)
  <2>1. \A c : Rooted(c)' <=> Rooted(c)
    BY <1>5 DEF Rooted
  <2> QED
    BY <1>3, <1>4, <1>5, <2>1, LetGoStays
<1>8. ended \subseteq ended' /\ (e.o \in ended' \/ e.o \notin Calls)
  BY <1>1 DEF EndBlock
<1>9. \A q \in Queues : SuspendedEnough(q)
  BY <1>5 DEF SuspendedEnough
<1>10. RunInv' /\ CountInv' /\ (HandInv => HandInv')
  BY <1>3, <1>4, <1>5, <1>7, <1>8, <1>9, Idles DEF Good
<1> QED
  BY <1>6, <1>10 DEF Stays
-----------------------------------------------------------------------------
(* Steps that list objects, or find a queue taken. *)

LEMMA IdleStep ==
    ASSUME NEW A, Good(A), NEW b, NEW e, NEW f, NEW g, Steps(b, e, f, g, Nothing),
           e.at \notin MarkAts \cup {"run"}, f.at \notin MarkAts \cup {"run"},
           g.at \notin MarkAts \cup {"run"},
           UNCHANGED <<use, running, sema, begun, ended>>,
           \A c \in begun : ticket'[c] = ticket[c],
           \A c \in Calls : U.q[c] \in Queues => (LetGo(c)' <=> LetGo(c)),
           \A q \in Queues : HandOf(q) => SuspendedEnough(q)
    PROVE  RunInv' /\ CountInv' /\ (HandInv => HandInv')
<1>1. Nothing.at \notin MarkAts \cup {"run"}
  BY NothingIsPlain, PlainFits
<1> QED
  BY <1>1, Idles DEF Good

\* The lists after a step, by what belonged where before.
LEMMA ListsNow ==
    ASSUME NEW B, use' = use, targetq' = targetq,
           \A q \in Queues : items_head'[q] # NULL => Home(items_head'[q]) = q,
           \A q \in Queues : items_tail'[q] # NULL => Home(items_tail'[q]) = q,
           \A x \in B : next'[x] # NULL => Home(next'[x]) = Home(x),
           \A i \in 1 .. Len(root') : root'[i] \in Calls => Free(root'[i])
    PROVE  Lists(B)'
BY DEF Lists, Home, Free, U, IsBarrier

\* A call that a function is to put on a list has not begun.
LEMMA HeldIsNew ==
    ASSUME NEW A \in SUBSET Objects, Good(A), NEW p \in Pos, Held(p) \in Calls
    PROVE  Held(p) \notin begun /\ sema[Held(p)] # 1
<1>1. ~Nowhere(A, Held(p))
  <2>1. Held(p) \in Objects /\ OneSlot(A)
    BY DEF Good, Places, Objects
  <2>2. ~Out(A, Held(p))
    BY <2>1, Elsewhere
  <2> QED
    BY <2>2 DEF Nowhere, Out
<1> QED
  BY <1>1 DEF Good, Places, Popped

LEMMA Appended ==
    ASSUME root \in Seq(Objects), NEW o \in Objects, root' = Append(root, o)
    PROVE  /\ \A c : Rooted(c)' <=> Rooted(c) \/ c = o
           /\ \A i \in 1 .. Len(root') : root'[i] = o \/ \E j \in 1 .. Len(root) : root'[i] = root[j]
<1>1. /\ Len(root) \in Nat /\ Len(root') = Len(root) + 1
      /\ root'[Len(root) + 1] = o /\ \A i \in 1 .. Len(root) : root'[i] = root[i]
  BY AppendProperties
<1>2. \A i : i \in 1 .. Len(root') <=> i \in 1 .. Len(root) \/ i = Len(root) + 1
  BY <1>1
<1> QED
  BY <1>1, <1>2 DEF Rooted

LEMMA PushOnRootStays ==
    ASSUME NEW A \in SUBSET Objects, Good(A), QueueTypes', NEW B \in SUBSET A, NEW t \in Threads,
           PushOnRoot(t)
    PROVE  Stays(B)
<1> USE DEF lists, counts, refs, blocks
<1>1. PICK b, e, o : b = TopOf(t) /\ e = Top(t) /\ o = e.o
  OBVIOUS
<1>2. stack[t] # <<>> /\ e.at = "push" /\ e.q = ROOT
  BY <1>1, AtTop DEF PushOnRoot
<1>3. b \in Pos /\ Fr(b) = e /\ e \in StackFrame /\ Steps(b, e, Nothing, Nothing, Nothing)
  BY <1>1, <1>2, Innermost DEF PushOnRoot, Return, Good
<1>4. o \in Objects
  BY <1>1, <1>2, <1>3, FrameKinds DEF PushFrame
<1>5. /\ root' = Append(root, o) /\ next' = [next EXCEPT ![o] = NULL]
      /\ UNCHANGED <<use, items_tail, items_head, ticket, running, suspend_cnt, sema, targetq, begun, ended>>
  BY <1>1 DEF PushOnRoot
<1>6. /\ \A x \in Objects : next'[x] = IF x = o THEN NULL ELSE next[x]
      /\ next \in [Objects -> Maybe \cup {LISTLESS}]
  BY <1>5 DEF Good, QueueTypes
<1>7. o \in Calls => Free(o)
  <2>1. Fits(e)
    BY <1>3 DEF Good, Listed, AllFit
  <2> QED
    BY <1>1, <1>2, <2>1 DEF Fits, Home, Free
<1>8. /\ \A c : Rooted(c)' <=> Rooted(c) \/ c = o
      /\ \A i \in 1 .. Len(root') : root'[i] = o \/ \E j \in 1 .. Len(root) : root'[i] = root[j]
  BY <1>4, <1>5, Appended DEF Good, QueueTypes
<1>9. Listed(B)'
  <2>1. AllFit'
    BY <1>3, <1>5, FramesFit, PlainFits, NothingIsPlain DEF Good, Listed
  <2>3. Lists(A)
    BY DEF Good, Listed
  <2>4. \A i \in 1 .. Len(root') : root'[i] \in Calls => Free(root'[i])
    BY <1>7, <1>8, <2>3 DEF Lists
  <2>5. \A x \in B : next'[x] # NULL => Home(next'[x]) = Home(x)
    BY <1>6, <2>3 DEF Lists
  <2>6. Lists(B)'
    <3>1. \A q \in Queues : /\ items_head'[q] # NULL => Home(items_head'[q]) = q
                            /\ items_tail'[q] # NULL => Home(items_tail'[q]) = q
      BY <1>5, <2>3 DEF Lists
    <3> QED
      BY <1>5, <2>4, <2>5, <3>1, ListsNow
  <2>7. Tickets(B)'
    <3>1. Tickets(A)
      BY DEF Good, Listed
    <3>2. \A c \in Calls : next'[c] = LISTLESS => next[c] = LISTLESS
      BY <1>6, NullIsNone DEF Objects
    <3> QED
      BY <1>5, <3>1, <3>2 DEF Tickets
  <2> QED
    BY <2>1, <2>6, <2>7 DEF Listed
<1>10. \A c \in Calls : LetGo(c)' <=> LetGo(c)
  <2>1. ASSUME NEW c \in Calls, c # o
        PROVE  LetGo(c)' <=> LetGo(c)
    <3>1. (Rooted(c)' <=> Rooted(c)) /\ sema'[c] = sema[c]
      BY <1>5, <1>8, <2>1
    <3>2. \A x \in {e, Nothing} : x.at = "push" => x.o # c
      BY <1>1, <2>1, NothingIsPlain, PlainFits
    <3> QED
      BY <1>3, <3>1, <3>2, LetGoStays
  <2>2. Pushed(o)
    BY <1>1, <1>2, <1>3 DEF Pushed
  <2> QED
    BY <1>8, <2>1, <2>2 DEF LetGo
<1>11. RunInv' /\ CountInv' /\ (HandInv => HandInv')
  <2>1. e.at \notin MarkAts \cup {"run"} /\ Nothing.at \notin MarkAts \cup {"run"}
    BY <1>2, NothingIsPlain, PlainFits DEF MarkAts, SharedAts, OwnerAts
  <2>2. \A q \in Queues : SuspendedEnough(q)
    BY <1>5 DEF SuspendedEnough
  <2> QED
    BY <1>3, <1>5, <1>10, <2>1, <2>2, IdleStep
<1> QED
  BY <1>9, <1>11 DEF Stays

LEMMA ExchangeTailStays ==
    ASSUME NEW A \in SUBSET Objects, Good(A), QueueTypes', NEW B \in SUBSET Objects, NEW t \in Threads,
           ExchangeTail(t), B \subseteq A \cup {Top(t).o}
    PROVE  Stays(B)
<1> USE DEF lists, counts, refs, blocks
<1>1. PICK b, e, o, q : b = TopOf(t) /\ e = Top(t) /\ o = e.o /\ q = e.q
  OBVIOUS
<1>2. stack[t] # <<>> /\ e.at = "push" /\ q # ROOT
  BY <1>1, AtTop DEF ExchangeTail
<1>3. b \in Pos /\ Fr(b) = e /\ e \in StackFrame
  BY <1>1, <1>2, Innermost DEF Good
<1>4. o \in Objects /\ q \in Queues
  BY <1>1, <1>2, <1>3, FrameKinds DEF PushFrame, Targets
<1>5. PICK k : k = 1 + Cardinality({c \in Calls : ticket[c] > 0})
  OBVIOUS
<1>6. /\ next' = [next EXCEPT ![o] = NULL] /\ items_tail' = [items_tail EXCEPT ![q] = o]
      /\ ticket' = IF o \in Calls THEN [ticket EXCEPT ![o] = k] ELSE ticket
      /\ UNCHANGED <<use, items_head, root, running, suspend_cnt, sema, targetq, begun, ended>>
  BY <1>1, <1>5 DEF ExchangeTail
<1>7. /\ \A x \in Objects : next'[x] = IF x = o THEN NULL ELSE next[x]
      /\ \A r \in Queues : items_tail'[r] = IF r = q THEN o ELSE items_tail[r]
  BY <1>6 DEF Good, QueueTypes
<1>8. Home(o) = q
  <2>1. Fits(e)
    BY <1>3 DEF Good, Listed, AllFit
  <2> QED
    BY <1>1, <1>2, <2>1 DEF Fits
<1>9. Tickets(A) /\ Lists(A)
  BY DEF Good, Listed
<1>10. k \in Nat /\ k > 0
  <2>1. Cardinality({c \in Calls : ticket[c] > 0}) \in Nat
    BY <1>9, FS_CardinalityType DEF Tickets
  <2> QED
    BY <1>5, <2>1
<1>11. \A c \in Calls : ticket'[c] = IF c = o THEN k ELSE ticket[c]
  BY <1>6, <1>9 DEF Tickets
<1>12. PICK f : /\ Steps(b, e, f, Nothing, Nothing) /\ Fits(f)
                /\ f.at \in {"link", "publish"}
  <2>1. PICK prev : prev = items_tail[q]
    OBVIOUS
  <2>2. CASE prev # NULL
    <3>1. PICK f : f = [at |-> "link", prev |-> prev, o |-> o]
      OBVIOUS
    <3>2. f.at = "link" /\ f.prev = prev /\ f.o = o
      BY <3>1
    <3>3. Home(prev) = q
      BY <1>4, <1>9, <2>1, <2>2 DEF Lists
    <3>4. Fits(f)
      BY <1>8, <3>2, <3>3
         DEF Fits, FastAts, WaitAts, SyncAts, BarrierAts, HoldAts, FetchedAts, SharedAts
    <3>5. Become(t, <<f>>)
      BY <1>1, <2>1, <2>2, <3>1 DEF ExchangeTail
    <3>6. Steps(b, e, f, Nothing, Nothing)
      BY <1>1, <1>2, <3>5, Innermost DEF Good
    <3> QED
      BY <3>2, <3>4, <3>6
  <2>3. CASE prev = NULL
    <3>1. Goto(t, "publish")
      BY <1>1, <2>1, <2>3 DEF ExchangeTail
    <3>2. PICK f : Steps(b, e, f, Nothing, Nothing) /\ f.at = "publish" /\ f.q = q /\ f.o = o
      BY <1>1, <1>2, <3>1, Goes DEF Good
    <3>3. Fits(f)
      BY <1>8, <3>2
         DEF Fits, FastAts, WaitAts, SyncAts, BarrierAts, HoldAts, FetchedAts, SharedAts
    <3> QED
      BY <3>2, <3>3
  <2> QED
    BY <2>2, <2>3
<1>13. Listed(B)'
  <2>1. AllFit'
    <3>1. Fits(Nothing)
      BY PlainFits, NothingIsPlain
    <3>2. \A c \in Calls : ticket[c] > 0 => ticket'[c] > 0
      BY <1>10, <1>11
    <3>3. use' = use /\ targetq' = targetq
      BY <1>6
    <3> QED
      BY <1>12, <3>1, <3>2, <3>3, FramesFit DEF Good, Listed
  <2>3. \A x \in B : next'[x] # NULL => Home(next'[x]) = Home(x)
    BY <1>1, <1>7, <1>9 DEF Lists
  <2>4. \A r \in Queues : /\ items_head'[r] # NULL => Home(items_head'[r]) = r
                          /\ items_tail'[r] # NULL => Home(items_tail'[r]) = r
    BY <1>6, <1>7, <1>8, <1>9 DEF Lists
  <2>5. Lists(B)'
    BY <1>6, <1>9, <2>3, <2>4, ListsNow DEF Lists
  <2>6. Tickets(B)'
    <3>1. ticket' \in [Calls -> Nat]
      BY <1>6, <1>9, <1>10 DEF Tickets
    <3>2. IsFiniteSet({c \in Calls : ticket'[c] > 0})
      <4>1. PICK S : S = {c \in Calls : ticket[c] > 0}
        OBVIOUS
      <4>2. IsFiniteSet(S)
        BY <1>9, <4>1 DEF Tickets
      <4>3. IsFiniteSet(S \cup {o})
        BY <4>2, FS_AddElement
      <4>4. {c \in Calls : ticket'[c] > 0} \subseteq S \cup {o}
        BY <1>11, <4>1
      <4> QED
        BY <4>3, <4>4, FS_Subset
    <3>3. \A x \in B \cap Calls : ticket'[x] > 0
      BY <1>1, <1>9, <1>10, <1>11 DEF Tickets
    <3>4. ASSUME NEW c \in Calls
          PROVE  /\ next'[c] = LISTLESS => ticket'[c] = 0
                 /\ sema'[c] = 1 => ticket'[c] > 0
      <4>1. /\ next[c] = LISTLESS => ticket[c] = 0
            /\ sema[c] = 1 => ticket[c] > 0
        BY <1>9 DEF Tickets
      <4>2. c = o => next'[c] # LISTLESS /\ ticket'[c] = k
        BY <1>4, <1>7, <1>11, NullIsNone
      <4>3. c # o => next'[c] = next[c] /\ ticket'[c] = ticket[c]
        BY <1>7, <1>11 DEF Objects
      <4> QED
        BY <1>6, <1>10, <4>1, <4>2, <4>3
    <3> QED
      BY <3>1, <3>2, <3>3, <3>4 DEF Tickets
  <2> QED
    BY <2>1, <2>5, <2>6 DEF Listed
<1>14. \A c \in Calls : LetGo(c)' <=> LetGo(c)
  <2>1. \A c : Rooted(c)' <=> Rooted(c)
    BY <1>6 DEF Rooted
  <2>2. \A x \in {e, f, Nothing} : x.at = "push" => x.q # ROOT
    BY <1>1, <1>2, <1>12, NothingIsPlain
  <2> QED
    BY <1>6, <1>12, <2>1, <2>2, LetGoStays
<1>15. \A c \in begun : ticket'[c] = ticket[c]
  <2>1. o \notin begun
    <3>1. Held(b) = o
      BY <1>1, <1>2, <1>3 DEF Held, OOf
    <3>2. begun \subseteq Calls
      BY DEF Good, QueueTypes
    <3> QED
      BY <1>3, <3>1, <3>2, HeldIsNew
  <2> QED
    BY <1>11, <2>1 DEF Good, QueueTypes
<1>16. RunInv' /\ CountInv' /\ (HandInv => HandInv')
  <2>1. /\ e.at \notin MarkAts \cup {"run"} /\ f.at \notin MarkAts \cup {"run"}
        /\ Nothing.at \notin MarkAts \cup {"run"}
    BY <1>2, <1>12, NothingIsPlain, PlainFits DEF MarkAts, SharedAts, OwnerAts
  <2>2. \A r \in Queues : SuspendedEnough(r)
    BY <1>6 DEF SuspendedEnough
  <2> QED
    BY <1>6, <1>12, <1>14, <1>15, <2>1, <2>2, IdleStep
<1> QED
  BY <1>13, <1>16 DEF Stays

LEMMA LinkPreviousStays ==
    ASSUME NEW A \in SUBSET Objects, Good(A), QueueTypes', NEW B \in SUBSET A, NEW t \in Threads,
           LinkPrevious(t)
    PROVE  Stays(B)
<1> USE DEF lists, counts, refs, blocks
<1>1. PICK b, e, o, x : b = TopOf(t) /\ e = Top(t) /\ o = e.o /\ x = e.prev
  OBVIOUS
<1>2. stack[t] # <<>> /\ e.at = "link"
  BY <1>1, AtTop DEF LinkPrevious
<1>3. b \in Pos /\ Fr(b) = e /\ e \in StackFrame /\ Steps(b, e, Nothing, Nothing, Nothing)
  BY <1>1, <1>2, Innermost DEF LinkPrevious, Return, Good
<1>4. o \in Objects /\ x \in Objects
  BY <1>1, <1>2, <1>3, FrameKinds DEF LinkFrame
<1>5. /\ next' = [next EXCEPT ![x] = o]
      /\ UNCHANGED <<use, items_tail, items_head, root, ticket, running, suspend_cnt, sema, targetq,
                     begun, ended>>
  BY <1>1 DEF LinkPrevious
<1>6. \A y \in Objects : next'[y] = IF y = x THEN o ELSE next[y]
  BY <1>5 DEF Good, QueueTypes
<1>7. Home(o) = Home(x)
  <2>1. Fits(e)
    BY <1>3 DEF Good, Listed, AllFit
  <2> QED
    BY <1>1, <1>2, <2>1 DEF Fits
<1>8. Lists(A) /\ Tickets(A)
  BY DEF Good, Listed
<1>9. Listed(B)'
  <2>1. AllFit'
    BY <1>3, <1>5, FramesFit, PlainFits, NothingIsPlain DEF Good, Listed
  <2>2. \A y \in B : next'[y] # NULL => Home(next'[y]) = Home(y)
    BY <1>6, <1>7, <1>8 DEF Lists
  <2>3. Lists(B)'
    BY <1>5, <1>8, <2>2, ListsNow DEF Lists
  <2>4. \A c \in Calls : next'[c] = LISTLESS => next[c] = LISTLESS
    BY <1>4, <1>6, NullAssumption DEF Objects
  <2>5. Tickets(B)'
    BY <1>5, <1>8, <2>4 DEF Tickets
  <2> QED
    BY <2>1, <2>3, <2>5 DEF Listed
<1>10. \A c \in Calls : LetGo(c)' <=> LetGo(c)
  <2>1. \A c : Rooted(c)' <=> Rooted(c)
    BY <1>5 DEF Rooted
  <2>2. \A y \in {e, Nothing} : y.at # "push"
    BY <1>2, NothingIsPlain
  <2> QED
    BY <1>3, <1>5, <2>1, <2>2, LetGoStays
<1>11. RunInv' /\ CountInv' /\ (HandInv => HandInv')
  <2>1. e.at \notin MarkAts \cup {"run"} /\ Nothing.at \notin MarkAts \cup {"run"}
    BY <1>2, NothingIsPlain, PlainFits DEF MarkAts, SharedAts, OwnerAts
  <2>2. \A q \in Queues : SuspendedEnough(q)
    BY <1>5 DEF SuspendedEnough
  <2> QED
    BY <1>3, <1>5, <1>10, <2>1, <2>2, IdleStep
<1> QED
  BY <1>9, <1>11 DEF Stays

LEMMA PublishHeadStays ==
    ASSUME NEW A \in SUBSET Objects, Good(A), QueueTypes', NEW B \in SUBSET A, NEW t \in Threads,
           PublishHead(t)
    PROVE  Stays(B)
<1> USE DEF lists, counts, refs, blocks
<1>1. PICK b, e, o, q : b = TopOf(t) /\ e = Top(t) /\ o = e.o /\ q = e.q
  OBVIOUS
<1>2. stack[t] # <<>> /\ e.at = "publish"
  BY <1>1, AtTop DEF PublishHead
<1>3. b \in Pos /\ Fr(b) = e /\ e \in StackFrame
  BY <1>1, <1>2, Innermost DEF Good
<1>4. q \in Queues
  BY <1>1, <1>2, <1>3, FrameKinds DEF PublishFrame
<1>5. /\ items_head' = [items_head EXCEPT ![q] = o]
      /\ UNCHANGED <<use, items_tail, next, root, ticket, running, suspend_cnt, sema, targetq,
                     begun, ended>>
  BY <1>1 DEF PublishHead
<1>6. \A r \in Queues : items_head'[r] = IF r = q THEN o ELSE items_head[r]
  BY <1>5 DEF Good, QueueTypes
<1>7. Home(o) = q
  <2>1. Fits(e)
    BY <1>3 DEF Good, Listed, AllFit
  <2> QED
    BY <1>1, <1>2, <2>1 DEF Fits
<1>8. Lists(A) /\ Tickets(A)
  BY DEF Good, Listed
<1>9. PICK f, g : f.at = "release" /\ g.at = "wakeup" /\ Steps(b, e, f, g, Nothing)
  <2>1. PICK f, g : f = Frame("release", q, NULL) /\ g = Frame("wakeup", q, NULL)
    OBVIOUS
  <2>2. f.at = "release" /\ g.at = "wakeup" /\ <<g>> \o <<f>> = <<g, f>>
    BY <2>1, Concatenations DEF Frame
  <2>3. Become(t, <<g, f>>)
    BY <1>1, <2>1, <2>2 DEF PublishHead, Wakeup, Release
  <2> QED
    BY <1>1, <1>2, <2>2, <2>3, Innermost DEF Good
<1>10. /\ e.at \notin MarkAts \cup {"run", "push"} /\ f.at \notin MarkAts \cup {"run", "push"}
       /\ g.at \notin MarkAts \cup {"run", "push"} /\ Fits(f) /\ Fits(g) /\ Fits(Nothing)
  BY <1>2, <1>9, PlainFits, NothingIsPlain DEF PlainAts, MarkAts, SharedAts, OwnerAts
<1>11. Listed(B)'
  <2>1. AllFit'
    BY <1>5, <1>9, <1>10, FramesFit DEF Good, Listed
  <2>2. \A r \in Queues : items_head'[r] # NULL => Home(items_head'[r]) = r
    BY <1>6, <1>7, <1>8 DEF Lists
  <2>3. Lists(B)'
    BY <1>5, <1>8, <2>2, ListsNow DEF Lists
  <2>4. Tickets(B)'
    BY <1>5, <1>8 DEF Tickets
  <2> QED
    BY <2>1, <2>3, <2>4 DEF Listed
<1>12. \A c \in Calls : LetGo(c)' <=> LetGo(c)
  <2>1. \A c : Rooted(c)' <=> Rooted(c)
    BY <1>5 DEF Rooted
  <2>2. \A y \in {e, f, g, Nothing} : y.at # "push"
    BY <1>10, NothingIsPlain
  <2> QED
    BY <1>5, <1>9, <2>1, <2>2, LetGoStays
<1>13. RunInv' /\ CountInv' /\ (HandInv => HandInv')
  <2>1. \A r \in Queues : SuspendedEnough(r)
    BY <1>5 DEF SuspendedEnough
  <2> QED
    BY <1>5, <1>9, <1>10, <1>12, <2>1, IdleStep
<1> QED
  BY <1>11, <1>13 DEF Stays

\* A step that touches neither the lists nor the shares, and may call a function that lists something.
LEMMA FrameSteps ==
    ASSUME NEW A \in SUBSET Objects, Good(A), NEW B \in SUBSET A,
           NEW b, NEW e, NEW f, NEW g, Steps(b, e, f, g, Nothing),
           e.at \notin MarkAts \cup {"run", "push"}, f.at \notin MarkAts \cup {"run"},
           g.at \notin MarkAts \cup {"run"}, Fits(f), Fits(g),
           \A x \in {f, g} : x.at = "push" => x.o \notin Calls \/ U.q[x.o] \notin Queues \/ x.q # ROOT,
           SameLists, UNCHANGED <<use, targetq, ticket, running, sema, begun, ended>>,
           \A q \in Queues : HandOf(q) => SuspendedEnough(q)
    PROVE  Stays(B)
<1>1. Listed(B)'
  BY ListedStill, PlainFits, NothingIsPlain DEF Good
<1>2. ASSUME NEW c \in Calls, U.q[c] \in Queues
      PROVE  LetGo(c)' <=> LetGo(c)
  <2>1. Rooted(c)' <=> Rooted(c)
    BY DEF Rooted, SameLists
  <2>2. \A x \in {e, f, g, Nothing} : x.at = "push" => x.q # ROOT \/ x.o # c
    BY <1>2, PlainFits, NothingIsPlain
  <2> QED
    BY <2>1, <2>2, LetGoStays
<1>3. RunInv' /\ CountInv' /\ (HandInv => HandInv')
  BY <1>2, IdleStep
<1> QED
  BY <1>1, <1>3 DEF Stays

LEMMA WakeupTrylockStays ==
    ASSUME NEW A \in SUBSET Objects, Good(A), QueueTypes', NEW B \in SUBSET A, NEW t \in Threads,
           WakeupTrylock(t)
    PROVE  Stays(B)
<1> USE DEF lists, counts, refs, blocks
<1>1. PICK b, e, q : b = TopOf(t) /\ e = Top(t) /\ q = e.q
  OBVIOUS
<1>2. stack[t] # <<>> /\ e.at = "wakeup_trylock"
  BY <1>1, AtTop DEF WakeupTrylock
<1>3. b \in Pos /\ Fr(b) = e /\ e \in StackFrame
  BY <1>1, <1>2, Innermost DEF Good
<1>4. q \in Queues /\ q \notin Calls
  BY <1>1, <1>2, <1>3, FrameKinds, RootAssumption DEF BareFrame, BareAts
<1>5. SameLists /\ UNCHANGED <<use, targetq, ticket, running, sema, begun, ended>>
  BY DEF WakeupTrylock, SameLists
<1>6. \A r \in Queues : HandOf(r) => SuspendedEnough(r)
  <2>1. CASE UNCHANGED suspend_cnt
    BY <2>1 DEF SuspendedEnough
  <2>2. CASE suspend_cnt[q] = 0 /\ suspend_cnt' = [suspend_cnt EXCEPT ![q] = 1]
    <3>1. \A r \in Queues \ {q} : suspend_cnt'[r] = suspend_cnt[r]
      BY <2>2 DEF Good, QueueTypes
    <3>2. suspend_cnt'[q] = 1
      BY <1>4, <2>2 DEF Good, QueueTypes
    <3>3. HandOf(q) => Hands(q) = {}
      BY <2>2 DEF HandOf
    <3> QED
      BY <3>1, <3>2, <3>3 DEF SuspendedEnough
  <2> QED
    BY <1>1, <2>1, <2>2 DEF WakeupTrylock, LockIsFree
<1>7. PICK f : /\ Steps(b, e, f, Nothing, Nothing) /\ Fits(f) /\ f.at \in {"push", "none"}
               /\ f.at = "push" => f.o = q
  <2>1. CASE Become(t, <<>>)
    BY <1>1, <1>2, <2>1, Innermost, PlainFits, NothingIsPlain DEF Good
  <2>2. CASE Become(t, Push(targetq[q], q))
    <3>1. PICK f : f = Frame("push", targetq[q], q)
      OBVIOUS
    <3>2. f.at = "push" /\ f.q = targetq[q] /\ f.o = q
      BY <3>1 DEF Frame
    <3>3. Fits(f)
      BY <1>4, <3>2
         DEF Home, Fits, FastAts, WaitAts, SyncAts, BarrierAts, HoldAts, FetchedAts, SharedAts
    <3>4. Steps(b, e, f, Nothing, Nothing)
      BY <1>1, <1>2, <2>2, <3>1, Innermost DEF Good, Push
    <3> QED
      BY <3>2, <3>3, <3>4
  <2> QED
    BY <1>1, <2>1, <2>2 DEF WakeupTrylock, Return
<1>8. /\ e.at \notin MarkAts \cup {"run", "push"} /\ f.at \notin MarkAts \cup {"run"}
      /\ Nothing.at \notin MarkAts \cup {"run", "push"} /\ Fits(Nothing)
  BY <1>2, <1>7, PlainFits, NothingIsPlain DEF MarkAts, SharedAts, OwnerAts
<1> QED
  BY <1>4, <1>5, <1>6, <1>7, <1>8, FrameSteps

LEMMA InvokeDropLockStays ==
    ASSUME NEW A \in SUBSET Objects, Good(A), QueueTypes', NEW B \in SUBSET A, NEW t \in Threads,
           InvokeDropLock(t)
    PROVE  Stays(B)
<1> USE DEF lists, counts, refs, blocks
<1>1. PICK b, e, q : b = TopOf(t) /\ e = Top(t) /\ q = e.q
  OBVIOUS
<1>2. stack[t] # <<>> /\ e.at = "invoke_drop"
  BY <1>1, AtTop DEF InvokeDropLock
<1>3. b \in Pos /\ Fr(b) = e /\ e \in StackFrame
  BY <1>1, <1>2, Innermost DEF Good
<1>4. q \in Queues /\ q \notin Calls
  BY <1>1, <1>2, <1>3, FrameKinds, RootAssumption DEF DrainFrame, EmptyAts
<1>5. /\ next' = [next EXCEPT ![q] = LISTLESS] /\ suspend_cnt' = Plus(suspend_cnt, q, -1)
      /\ UNCHANGED <<use, items_tail, items_head, root, ticket, running, sema, targetq, begun, ended>>
  BY <1>1 DEF InvokeDropLock
<1>6. /\ \A x \in Objects : next'[x] = IF x = q THEN LISTLESS ELSE next[x]
      /\ \A r \in Queues : suspend_cnt'[r] = IF r = q THEN suspend_cnt[q] - 1 ELSE suspend_cnt[r]
      /\ suspend_cnt[q] \in Int
  BY <1>4, <1>5 DEF Good, QueueTypes, Plus
<1>7. q \notin A /\ suspend_cnt[q] % 2 = 1
  <2>1. Invoked(b) = q
    BY <1>1, <1>2, <1>3 DEF Invoked, QOf, EmptyAts
  <2>2. q \notin A
    BY <1>3, <2>1 DEF Good, Places, Sides
  <2>3. <<"invoked", b>> \in Slot /\ In(A, <<"invoked", b>>) = q
    BY <1>3, <2>1, SlotKinds, SlotValues
  <2> QED
    BY <1>4, <2>2, <2>3 DEF Good, Places, Locks, Nowhere
<1>8. Lists(A) /\ Tickets(A)
  BY DEF Good, Listed
<1>9. PICK f : Steps(b, e, f, Nothing, Nothing) /\ f.at \in {"invoke_idle", "release"}
  <2>1. CASE Goto(t, "invoke_idle")
    BY <1>1, <1>2, <2>1, Goes DEF Good
  <2>2. CASE Become(t, Release(q))
    BY <1>1, <1>2, <2>2, Innermost DEF Good, Release, Frame
  <2> QED
    BY <1>1, <2>1, <2>2 DEF InvokeDropLock
<1>10. /\ e.at \notin MarkAts \cup {"run", "push"} /\ f.at \notin MarkAts \cup {"run", "push"}
       /\ Nothing.at \notin MarkAts \cup {"run", "push"} /\ Fits(f) /\ Fits(Nothing)
  BY <1>2, <1>9, PlainFits, NothingIsPlain DEF PlainAts, MarkAts, SharedAts, OwnerAts
<1>11. Listed(B)'
  <2>1. AllFit'
    BY <1>5, <1>9, <1>10, FramesFit DEF Good, Listed
  <2>2. \A y \in B : next'[y] # NULL => Home(next'[y]) = Home(y)
    BY <1>6, <1>7, <1>8 DEF Lists
  <2>3. Lists(B)'
    BY <1>5, <1>8, <2>2, ListsNow DEF Lists
  <2>4. \A c \in Calls : next'[c] = next[c]
    BY <1>4, <1>6 DEF Objects
  <2>5. Tickets(B)'
    BY <1>5, <1>8, <2>4 DEF Tickets
  <2> QED
    BY <2>1, <2>3, <2>5 DEF Listed
<1>12. \A c \in Calls : LetGo(c)' <=> LetGo(c)
  <2>1. \A c : Rooted(c)' <=> Rooted(c)
    BY <1>5 DEF Rooted
  <2>2. \A y \in {e, f, Nothing} : y.at # "push"
    BY <1>10
  <2> QED
    BY <1>5, <1>9, <2>1, <2>2, LetGoStays
<1>13. ASSUME NEW r \in Queues, HandOf(r)
       PROVE  SuspendedEnough(r)
  <2>1. CASE r # q
    BY <1>6, <2>1 DEF SuspendedEnough
  <2>2. CASE r = q
    <3>1. \A i \in Int : i % 2 = 1 => (i >= 0 => i - 1 >= 0) /\ (i >= 2 => i - 1 >= 2)
      OBVIOUS
    <3> QED
      BY <1>4, <1>6, <1>7, <1>13, <2>2, <3>1 DEF SuspendedEnough, HandOf
  <2> QED
    BY <2>1, <2>2
<1>14. RunInv' /\ CountInv' /\ (HandInv => HandInv')
  BY <1>5, <1>9, <1>10, <1>12, <1>13, IdleStep
<1> QED
  BY <1>11, <1>14 DEF Stays

\* A call that goes on, or is put on the list of its queue and waits.
LEMMA CallGoes ==
    ASSUME NEW A \in SUBSET Objects, Good(A), QueueTypes', NEW t \in Threads, stack[t] # <<>>,
           NEW b, b = TopOf(t), NEW e, e = Top(t), e.at \in FastAts \cup WaitAts
    PROVE  /\ b \in Pos /\ Fr(b) = e /\ e.o \in Calls /\ e.q \in Queues /\ U.q[e.o] = e.q
           /\ Fits(e)
           /\ \A at : Goto(t, at) /\ at \in FastAts \cup WaitAts =>
                 Steps(b, e, Frame(at, e.q, e.o), Nothing, Nothing)
           /\ \A at : Become(t, Push(e.q, e.o) \o <<[e EXCEPT !.at = at]>>) /\ at \in WaitAts =>
                 Steps(b, e, Frame(at, e.q, e.o), Frame("push", e.q, e.o), Nothing)
           /\ Fits(Frame("push", e.q, e.o)) /\ e.at \notin {"run", "push", "link"}
<1>1. b \in Pos /\ Fr(b) = e /\ e \in StackFrame
  BY Innermost DEF Good
<1>2. e \in CallFrame
  BY <1>1, FrameKinds
<1>3. e.o \in Calls /\ e.q \in Queues
  BY <1>2 DEF CallFrame
<1>4. Fits(e)
  BY <1>1 DEF Good, Listed, AllFit
<1>5. U.q[e.o] = e.q
  BY <1>4 DEF Fits
<1>6. \A at \in FastAts \cup WaitAts : [e EXCEPT !.at = at] = Frame(at, e.q, e.o)
  BY <1>2, CallGoesOn
<1>7. ASSUME NEW at, Goto(t, at), at \in FastAts \cup WaitAts
      PROVE  Steps(b, e, Frame(at, e.q, e.o), Nothing, Nothing)
  <2>1. Become(t, <<Frame(at, e.q, e.o)>>)
    BY <1>6, <1>7 DEF Goto
  <2> QED
    BY <2>1, Innermost DEF Good
<1>8. ASSUME NEW at, Become(t, Push(e.q, e.o) \o <<[e EXCEPT !.at = at]>>), at \in WaitAts
      PROVE  Steps(b, e, Frame(at, e.q, e.o), Frame("push", e.q, e.o), Nothing)
  <2>1. PICK f, g : f = Frame(at, e.q, e.o) /\ g = Frame("push", e.q, e.o)
    OBVIOUS
  <2>2. <<g>> \o <<f>> = <<g, f>>
    BY Concatenations
  <2>3. Become(t, <<g, f>>)
    BY <1>6, <1>8, <2>1, <2>2 DEF Push
  <2> QED
    BY <2>1, <2>3, Innermost DEF Good
<1>9. e.at \notin {"run", "push", "link"}
  BY DEF FastAts, WaitAts
<1>10. Fits(Frame("push", e.q, e.o))
  BY <1>3, <1>5, CallFits
<1> QED
  BY <1>1, <1>3, <1>4, <1>5, <1>7, <1>8, <1>9, <1>10

LEMMA WaitActions ==
    ASSUME NEW A \in SUBSET Objects, Good(A), QueueTypes', NEW B \in SUBSET A, NEW t \in Threads,
           \/ SyncUnlessSuspended(t) \/ BarrierSyncUnlessSuspended(t)
           \/ BarrierSyncTrylock(t) /\ running[Top(t).q] # 0
    PROVE  Stays(B)
<1> USE DEF lists, counts, refs, blocks
<1>1. PICK b, e, c, q : b = TopOf(t) /\ e = Top(t) /\ c = e.o /\ q = e.q
  OBVIOUS
<1>2. stack[t] # <<>> /\ e.at \in {"sync", "bsync", "bsync_trylock"}
  BY <1>1, AtTop DEF SyncUnlessSuspended, BarrierSyncUnlessSuspended, BarrierSyncTrylock
<1>3. /\ SameLists
      /\ UNCHANGED <<use, targetq, ticket, running, suspend_cnt, sema, begun, ended>>
  <2>1. CASE SyncUnlessSuspended(t) \/ BarrierSyncUnlessSuspended(t)
    BY <2>1 DEF SyncUnlessSuspended, BarrierSyncUnlessSuspended, SameLists
  <2>2. CASE BarrierSyncTrylock(t) /\ running[Top(t).q] # 0
    BY <2>2 DEF BarrierSyncTrylock, NothingRuns, SameLists
  <2> QED
    BY <2>1, <2>2
<1>4. PICK to : /\ \/ e.at = "sync" /\ to \in {"sync_add", "sync_wait"}
                   \/ e.at # "sync" /\ to \in {"bsync_trylock", "bsync_wait"}
                /\ \/ Goto(t, to)
                   \/ to \in WaitAts /\ Become(t, Push(q, c) \o <<[e EXCEPT !.at = to]>>)
  <2>1. CASE SyncUnlessSuspended(t)
    BY <1>1, <2>1, AtTop DEF SyncUnlessSuspended, SyncSlow, WaitAts
  <2>2. CASE BarrierSyncUnlessSuspended(t)
    <3>1. e.at = "bsync"
      BY <1>1, <2>2, AtTop DEF BarrierSyncUnlessSuspended
    <3> QED
      BY <1>1, <2>2, <3>1 DEF BarrierSyncUnlessSuspended, BarrierSyncSlow, WaitAts
  <2>3. CASE BarrierSyncTrylock(t) /\ running[Top(t).q] # 0
    <3>1. e.at = "bsync_trylock"
      BY <1>1, <2>3, AtTop DEF BarrierSyncTrylock
    <3>2. Become(t, Push(q, c) \o <<[e EXCEPT !.at = "bsync_wait"]>>)
      BY <1>1, <2>3 DEF BarrierSyncTrylock, NothingRuns, BarrierSyncSlow
    <3> QED
      BY <3>1, <3>2 DEF WaitAts
  <2> QED
    BY <2>1, <2>2, <2>3
<1>5. PICK f, p : f = Frame(to, q, c) /\ p = Frame("push", q, c)
  OBVIOUS
<1>6. to \in FastAts \cup WaitAts /\ e.at \in FastAts \cup WaitAts
  BY <1>2, <1>4 DEF FastAts, WaitAts
<1>7. /\ c \in Calls /\ q \in Queues /\ U.q[c] = q /\ Fits(e) /\ Fits(p)
      /\ \/ Steps(b, e, f, Nothing, Nothing)
         \/ Steps(b, e, f, p, Nothing)
  BY <1>1, <1>2, <1>4, <1>5, <1>6, CallGoes
<1>8. Fits(f)
  <2>1. CASE e.at = "sync"
    <3>1. U.op[c] = "sync" /\ ~IsBarrier(c)
      BY <1>1, <1>7, <2>1 DEF Fits, SyncAts
    <3>2. to \in {"sync", "sync_add", "sync_wait"}
      BY <1>4, <2>1
    <3> QED
      BY <1>5, <1>7, <3>1, <3>2, CallFits
  <2>2. CASE e.at # "sync"
    <3>1. e.at \in BarrierAts /\ to \in BarrierAts
      BY <1>2, <1>4, <2>2 DEF BarrierAts
    <3>2. U.op[c] \in SyncOps /\ IsBarrier(c)
      BY <1>1, <1>7, <3>1 DEF Fits
    <3> QED
      BY <1>5, <1>7, <3>1, <3>2, CallFits
  <2> QED
    BY <2>1, <2>2
<1>9. /\ f.at = to /\ p.at = "push" /\ p.q = q
      /\ to \notin MarkAts \cup {"run", "push"} /\ e.at \notin MarkAts \cup {"run", "push"}
  BY <1>2, <1>4, <1>5 DEF Frame, MarkAts, SharedAts, OwnerAts
<1>10. p.at \notin MarkAts \cup {"run"} /\ q # ROOT
  BY <1>7, <1>9, RootAssumption DEF MarkAts, SharedAts, OwnerAts
<1>11. Fits(Nothing) /\ Nothing.at \notin MarkAts \cup {"run", "push"}
  BY NothingIsPlain, PlainFits
<1>12. \A r \in Queues : SuspendedEnough(r)
  BY <1>3 DEF SuspendedEnough
<1> QED
  BY <1>3, <1>7, <1>8, <1>9, <1>10, <1>11, <1>12, FrameSteps
-----------------------------------------------------------------------------
(* Steps of the drainer that has the queue. *)

LEMMA OwnerAlone ==
    \A at \in OwnerAts : at \notin SharedAts /\ at # "resume" /\ at \in MarkAts /\ at \notin {"run", "push", "none"}
BY DEF OwnerAts, SharedAts, MarkAts

\* The owner's frame, and the other queues.
LEMMA OwnerSteps ==
    ASSUME NEW A, Good(A), NEW b, NEW e, NEW f, NEW g, Steps(b, e, f, g, Nothing),
           NEW q \in Queues, e.q = q, f.q = q, e.at \in OwnerAts, f.at \in OwnerAts, g.at \notin MarkAts,
           UNCHANGED <<use, running, suspend_cnt, sema>>, begun \subseteq begun',
           \A c \in begun : ticket'[c] = ticket[c],
           \A c \in Calls : U.q[c] \in Queues => (LetGo(c)' <=> LetGo(c)),
           Busy(b)' => Busy(b) \/ suspend_cnt[q] < 2,
           Runs(b)' => Shares(q) = {}
    PROVE  StepsAt(b, {}) /\ CountInv' /\ (HandInv => HandInv')
<1>1. Nothing.at \notin MarkAts \cup {"run"}
  BY NothingIsPlain, PlainFits
<1>2. /\ e.at \notin SharedAts /\ e.at # "resume" /\ f.at \notin SharedAts /\ f.at # "resume"
      /\ f.at # "run"
  BY OwnerAlone
<1>3. StepsAt(b, {})
  BY <1>1, <1>2, StepsAtTop DEF Good
<1>4. /\ b \in Owning(q) /\ b \in Owning(q)' /\ b \notin Sharing(q) /\ b \notin Sharing(q)'
      /\ b \notin Resuming(q) /\ b \notin Resuming(q)'
  BY <1>2, MarksAtTop DEF Owning, Sharing, Resuming
<1>5. \A r \in Queues \ {q} : b \notin Marked(MarkAts, r) /\ b \notin Marked(MarkAts, r)'
  BY MarksAtTop
<1>6. suspend_cnt[q] \in Int
  BY DEF Good, QueueTypes
<1>7. /\ CountOf(q) => CountOf(q)'
      /\ CountOf(q) /\ HandOf(q) => HandOf(q)'
  BY <1>3, <1>4, <1>6, OwnerGoesOn DEF Good
<1> QED
  BY <1>3, <1>5, <1>7, OneQueue DEF Good

\* The owner goes on, and no block begins.
LEMMA OwnerStays ==
    ASSUME NEW A, Good(A), NEW B, NEW b, NEW e, NEW f, NEW g, Steps(b, e, f, g, Nothing), Listed(B)',
           NEW q \in Queues, e.q = q, f.q = q, e.at \in OwnerAts, f.at \in OwnerAts,
           g.at \notin MarkAts \cup {"run"}, g.at = "push" => g.o \notin Calls,
           UNCHANGED <<use, running, suspend_cnt, sema, ticket, root>>,
           begun \subseteq begun', ended \subseteq ended', \A c \in begun' \ begun : c \in ended',
           \/ f.at \notin {"drain_width", "drain_pop"} \/ e.at \in {"drain_width", "drain_pop"}
           \/ suspend_cnt[q] < 2
    PROVE  Stays(B)
<1>1. /\ e.at \notin {"run", "push", "none"} /\ f.at \notin {"run", "push", "none"}
      /\ Nothing.at \notin MarkAts \cup {"run", "push"}
  BY OwnerAlone, NothingIsPlain, PlainFits
<1>2. \A c \in Calls : LetGo(c)' <=> LetGo(c)
  <2>1. \A c : Rooted(c)' <=> Rooted(c)
    BY DEF Rooted
  <2>2. \A c \in Calls : \A x \in {e, f, g, Nothing} : x.at = "push" => x.o # c
    BY <1>1
  <2> QED
    BY <1>1, <2>1, <2>2, LetGoStays
<1>3. Fr(b) = e /\ Fr(b)' = f /\ Fr(Up(b))' = g
  BY DEF Steps, Makes
<1>4. ~Runs(b)'
  BY <1>3 DEF Runs
<1>5. Busy(b)' => Busy(b) \/ suspend_cnt[q] < 2
  BY <1>3, <1>4 DEF Busy
<1>6. StepsAt(b, {}) /\ CountInv' /\ (HandInv => HandInv')
  BY <1>2, <1>4, <1>5, OwnerSteps
<1>7. RunInv'
  BY <1>1, <1>6, NoneBegins DEF Good
<1> QED
  BY <1>6, <1>7 DEF Stays

\* What the drainer took off belongs to the queue, wherever the function stands.
LEMMA HoldFits ==
    ASSUME NEW f, f.at \in HoldAts
    PROVE  Fits(f) <=> /\ Home(f.o) = f.q
                       /\ f.at \in FetchedAts => /\ f.n # NULL => Home(f.n) = f.q
                                                 /\ f.o \in Calls => ticket[f.o] > 0
BY DEF Fits, HoldAts, FetchedAts, FastAts, WaitAts, SyncAts, BarrierAts, SharedAts

LEMMA OwnerTop ==
    ASSUME NEW A \in SUBSET Objects, Good(A), QueueTypes', NEW t \in Threads, stack[t] # <<>>,
           NEW b, b = TopOf(t), NEW e, e = Top(t), e.at \in EmptyAts \cup {"invoke_idle"} \cup HoldAts
    PROVE  /\ b \in Pos /\ Fr(b) = e /\ e.q \in Queues /\ e.tq \in Targets /\ Fits(e)
           /\ e.n \in Maybe /\ (e.at \in HoldAts => e.o \in Objects /\ Held(b) = e.o /\ e.o # NULL)
           /\ e \in DrainFrame
<1>1. b \in Pos /\ Fr(b) = e /\ e \in StackFrame
  BY Innermost DEF Good
<1>2. e \in DrainFrame /\ (e.at \in HoldAts => e.o \in Objects)
  BY <1>1, FrameKinds
<1>3. Fits(e)
  BY <1>1 DEF Good, Listed, AllFit
<1>4. e.at \in HoldAts => Held(b) = e.o
  BY <1>1 DEF Held, OOf
<1> QED
  BY <1>1, <1>2, <1>3, <1>4, NullIsNone DEF DrainFrame

LEMMA DrainActions ==
    ASSUME NEW A \in SUBSET Objects, Good(A), QueueTypes', NEW B \in SUBSET A, NEW t \in Threads,
           \/ DrainUntilEmpty(t) \/ DrainUnlessSuspended(t) \/ DrainUnlessFull(t) \/ DrainUnlessShared(t)
    PROVE  Stays(B)
<1> USE DEF lists, counts, refs, blocks
<1>1. PICK b, e, q : b = TopOf(t) /\ e = Top(t) /\ q = e.q
  OBVIOUS
<1>2. /\ SameLists
      /\ UNCHANGED <<use, targetq, ticket, root, running, suspend_cnt, sema, begun, ended>>
  BY DEF DrainUntilEmpty, DrainUnlessSuspended, DrainUnlessFull, DrainUnlessShared, SameLists
<1>3. stack[t] # <<>> /\ e.at \in {"drain", "drain_suspended", "drain_width", "drain_pop"}
  BY <1>1, AtTop DEF DrainUntilEmpty, DrainUnlessSuspended, DrainUnlessFull, DrainUnlessShared
<1>4. PICK at : /\ Goto(t, at)
                /\ \/ e.at = "drain" /\ at \in {"invoke_unlock", "drain_head"}
                   \/ e.at \in FetchedAts /\ at = "undo"
                   \/ e.at \in FetchedAts /\ at = "drain_width" /\ ~Suspended(q)
                   \/ e.at = "drain_width" /\ at = "drain_pop"
  <2>1. CASE DrainUntilEmpty(t)
    BY <1>1, <2>1, AtTop DEF DrainUntilEmpty
  <2>2. CASE DrainUnlessSuspended(t)
    BY <1>1, <2>2, AtTop DEF DrainUnlessSuspended, FetchedAts
  <2>3. CASE DrainUnlessFull(t)
    BY <1>1, <2>3, AtTop DEF DrainUnlessFull, FetchedAts
  <2>4. CASE DrainUnlessShared(t)
    BY <1>1, <2>4, AtTop DEF DrainUnlessShared, FetchedAts
  <2> QED
    BY <2>1, <2>2, <2>3, <2>4
<1>5. e.at \in EmptyAts \cup HoldAts /\ e.at \notin {"run", "link"}
  BY <1>3 DEF EmptyAts, HoldAts, FetchedAts
<1>6. PICK f : /\ Steps(b, e, f, Nothing, Nothing)
               /\ f.at = at /\ f.q = e.q /\ f.o = e.o /\ f.n = e.n
  BY <1>1, <1>3, <1>4, <1>5, Goes DEF Good
<1>7. b \in Pos /\ q \in Queues /\ Fits(e)
  BY <1>1, <1>3, <1>5, OwnerTop
<1>8. Fits(f)
  <2>1. CASE at \in EmptyAts
    BY <1>6, <2>1, EmptyFits
  <2>2. CASE at \notin EmptyAts
    <3>1. e.at \in FetchedAts /\ at \in FetchedAts
      BY <1>4, <2>2 DEF EmptyAts, FetchedAts
    <3>2. e.at \in HoldAts /\ at \in HoldAts
      BY <3>1 DEF HoldAts
    <3> QED
      BY <1>6, <1>7, <3>1, <3>2, HoldFits
  <2> QED
    BY <2>1, <2>2
<1>9. Nothing.at \notin MarkAts \cup {"run", "push"} /\ Fits(Nothing)
  BY NothingIsPlain, PlainFits
<1>10. Listed(B)'
  BY <1>2, <1>6, <1>8, <1>9, ListedStill DEF Good
<1>11. e.at \in OwnerAts /\ f.at \in OwnerAts
  BY <1>3, <1>4, <1>6 DEF OwnerAts
<1>12. \/ f.at \notin {"drain_width", "drain_pop"} \/ e.at \in {"drain_width", "drain_pop"}
       \/ suspend_cnt[q] < 2
  <2>1. suspend_cnt[q] \in Int
    BY <1>7 DEF Good, QueueTypes
  <2> QED
    BY <1>4, <1>6, <2>1 DEF Suspended
<1> QED
  BY <1>1, <1>2, <1>6, <1>7, <1>9, <1>10, <1>11, <1>12, OwnerStays

LEMMA DrainHeadStays ==
    ASSUME NEW A \in SUBSET Objects, Good(A), QueueTypes', NEW B \in SUBSET A, NEW t \in Threads,
           DrainHead(t)
    PROVE  Stays(B)
<1> USE DEF lists, counts, refs, blocks
<1>1. PICK b, e, q, o : b = TopOf(t) /\ e = Top(t) /\ q = e.q /\ o = items_head[q]
  OBVIOUS
<1>2. stack[t] # <<>> /\ e.at = "drain_head" /\ o # NULL
  BY <1>1, AtTop DEF DrainHead
<1>3. b \in Pos /\ q \in Queues /\ e \in DrainFrame
  BY <1>1, <1>2, OwnerTop DEF EmptyAts
<1>4. /\ items_head' = [items_head EXCEPT ![q] = NULL]
      /\ UNCHANGED <<use, items_tail, next, root, ticket, running, suspend_cnt, sema, targetq,
                     begun, ended>>
  BY <1>1 DEF DrainHead
<1>5. Lists(A) /\ Tickets(A)
  BY DEF Good, Listed
<1>6. PICK f : f = [e EXCEPT !.at = "drain_next", !.o = o]
  OBVIOUS
<1>7. f.at = "drain_next" /\ f.q = q /\ f.o = o
  BY <1>1, <1>3, <1>6 DEF DrainFrame
<1>8. Steps(b, e, f, Nothing, Nothing)
  <2>1. Become(t, <<f>>)
    BY <1>1, <1>6 DEF DrainHead
  <2> QED
    BY <1>1, <1>2, <2>1, Innermost DEF Good
<1>9. Home(o) = q
  BY <1>1, <1>2, <1>3, <1>5 DEF Lists
<1>10. Fits(f) /\ Fits(Nothing) /\ Nothing.at \notin MarkAts \cup {"run", "push"}
  <2>1. f.at \in HoldAts /\ f.at \notin FetchedAts
    BY <1>7 DEF HoldAts, FetchedAts
  <2> QED
    BY <1>7, <1>9, <2>1, HoldFits, PlainFits, NothingIsPlain
<1>11. Listed(B)'
  <2>1. AllFit'
    BY <1>4, <1>8, <1>10, FramesFit DEF Good, Listed
  <2>2. \A r \in Queues : items_head'[r] # NULL => Home(items_head'[r]) = r
    BY <1>4, <1>5 DEF Lists, Good, QueueTypes
  <2>3. Lists(B)'
    BY <1>4, <1>5, <2>2, ListsNow DEF Lists
  <2>4. Tickets(B)'
    BY <1>4, <1>5 DEF Tickets
  <2> QED
    BY <2>1, <2>3, <2>4 DEF Listed
<1>12. e.at \in OwnerAts /\ f.at \in OwnerAts
  BY <1>2, <1>7 DEF OwnerAts
<1> QED
  BY <1>1, <1>3, <1>4, <1>7, <1>8, <1>10, <1>11, <1>12, OwnerStays

LEMMA DrainNextStays ==
    ASSUME NEW A \in SUBSET Objects, Good(A), QueueTypes', NEW B \in SUBSET A, NEW t \in Threads,
           DrainNext(t)
    PROVE  Stays(B)
<1> USE DEF lists, counts, refs, blocks
<1>1. PICK b, e, q, o : b = TopOf(t) /\ e = Top(t) /\ q = e.q /\ o = e.o
  OBVIOUS
<1>2. stack[t] # <<>> /\ e.at = "drain_next" /\ e.at \in HoldAts
  BY <1>1, AtTop DEF DrainNext, HoldAts
<1>3. b \in Pos /\ Fr(b) = e /\ q \in Queues /\ e \in DrainFrame /\ Fits(e) /\ o \in Objects /\ Held(b) = o
  BY <1>1, <1>2, OwnerTop
<1>4. /\ items_tail' = (IF next[o] # NULL THEN items_tail ELSE [items_tail EXCEPT ![q] = NULL])
      /\ UNCHANGED <<use, items_head, next, root, ticket, running, suspend_cnt, sema, targetq,
                     begun, ended>>
  BY <1>1 DEF DrainNext
<1>5. Lists(A) /\ Tickets(A)
  BY DEF Good, Listed
<1>6. o \in A
  <2>1. ~Apart(b)
    BY <1>2, <1>3 DEF Apart, FetchedAts
  <2> QED
    BY <1>3, <2>1, NullIsNone DEF Good, Places, Sides
<1>7. PICK n, f : n = next[o] /\ f = [e EXCEPT !.at = "drain_suspended", !.n = n]
  OBVIOUS
<1>8. f.at = "drain_suspended" /\ f.q = q /\ f.o = o /\ f.n = n
  BY <1>1, <1>3, <1>7 DEF DrainFrame
<1>9. Steps(b, e, f, Nothing, Nothing)
  <2>1. Become(t, <<f>>)
    BY <1>1, <1>7 DEF DrainNext
  <2> QED
    BY <1>1, <1>2, <2>1, Innermost DEF Good
<1>10. Fits(f) /\ Fits(Nothing) /\ Nothing.at \notin MarkAts \cup {"run", "push"}
  <2>1. f.at \in HoldAts
    BY <1>8 DEF HoldAts, FetchedAts
  <2>2. Home(o) = q
    BY <1>1, <1>2, <1>3, HoldFits
  <2>3. n # NULL => Home(n) = q
    BY <1>5, <1>6, <1>7, <2>2 DEF Lists
  <2>4. o \in Calls => ticket[o] > 0
    BY <1>5, <1>6 DEF Tickets
  <2>5. Fits(f)
    BY <1>8, <2>1, <2>2, <2>3, <2>4, HoldFits
  <2> QED
    BY <2>5, PlainFits, NothingIsPlain
<1>11. Listed(B)'
  <2>1. AllFit'
    BY <1>4, <1>9, <1>10, FramesFit DEF Good, Listed
  <2>2. \A r \in Queues : items_tail'[r] # NULL => Home(items_tail'[r]) = r
    BY <1>4, <1>5 DEF Lists, Good, QueueTypes
  <2>3. Lists(B)'
    BY <1>4, <1>5, <2>2, ListsNow DEF Lists
  <2>4. Tickets(B)'
    BY <1>4, <1>5 DEF Tickets
  <2> QED
    BY <2>1, <2>3, <2>4 DEF Listed
<1>12. e.at \in OwnerAts /\ f.at \in OwnerAts
  BY <1>2, <1>8 DEF OwnerAts
<1> QED
  BY <1>1, <1>3, <1>4, <1>8, <1>9, <1>10, <1>11, <1>12, OwnerStays

\* An item is put back at the front of its list.
LEMMA PutBack ==
    ASSUME NEW A \in SUBSET Objects, Good(A), QueueTypes', NEW t \in Threads, stack[t] # <<>>,
           NEW b, b = TopOf(t), NEW e, e = Top(t), NEW q, q = e.q, NEW o, o = e.o, e.at \in HoldAts,
           NEW B \in SUBSET Objects, B \subseteq A \cup {o}, o \in A \/ e.at \in FetchedAts,
           NEW f, Steps(b, e, f, Nothing, Nothing), Fits(f), f.q = q, e.at \in OwnerAts,
           f.at \in OwnerAts \ {"drain_width", "drain_pop"},
           \A r \in Queues : items_tail'[r] = items_tail[r] \/ (r = q /\ items_tail'[r] = o),
           \A r \in Queues : items_head'[r] = items_head[r] \/ (r = q /\ items_head'[r] = o),
           \A x \in Objects : next'[x] = next[x] \/ (x = o /\ items_head[q] # NULL /\ next'[x] = items_head[q]),
           UNCHANGED <<use, root, ticket, running, suspend_cnt, sema, targetq, begun, ended>>
    PROVE  Stays(B)
<1>1. b \in Pos /\ Fr(b) = e /\ q \in Queues /\ Fits(e) /\ o \in Objects /\ Held(b) = o
  BY OwnerTop
<1>2. Lists(A) /\ Tickets(A) /\ Home(o) = q
  BY <1>1, HoldFits DEF Good, Listed
<1>3. o \notin A /\ next[o] # NULL => Home(next[o]) = q
  <2>1. ASSUME o \notin A, next[o] # NULL
        PROVE  Home(next[o]) = q
    <3>1. e.at \in FetchedAts
      BY <2>1
    <3>2. next[o] = e.n
      BY <1>1, <3>1 DEF Good, Places, Fetching, Fetched, Behind, NOf
    <3> QED
      BY <1>1, <2>1, <3>1, <3>2 DEF Fits
  <2> QED
    BY <2>1
<1>4. Fits(Nothing) /\ Nothing.at \notin MarkAts \cup {"run", "push"}
  BY PlainFits, NothingIsPlain
<1>5. AllFit'
  BY <1>4, FramesFit DEF Good, Listed
<1>6. Lists(B)'
  <2>1. \A r \in Queues : /\ items_head'[r] # NULL => Home(items_head'[r]) = r
                          /\ items_tail'[r] # NULL => Home(items_tail'[r]) = r
    BY <1>2 DEF Lists
  <2>2. ASSUME NEW x \in B, next'[x] # NULL
        PROVE  Home(next'[x]) = Home(x)
    <3>1. CASE next'[x] = next[x] /\ x \in A
      BY <1>2, <2>2, <3>1 DEF Lists
    <3>2. CASE next'[x] = next[x] /\ x = o /\ o \notin A
      BY <1>2, <1>3, <2>2, <3>2
    <3>3. CASE x = o /\ items_head[q] # NULL /\ next'[x] = items_head[q]
      BY <1>1, <1>2, <3>3 DEF Lists
    <3> QED
      BY <2>2, <3>1, <3>2, <3>3
  <2>3. \A i \in 1 .. Len(root') : root'[i] \in Calls => Free(root'[i])
    BY <1>2 DEF Lists
  <2> QED
    BY <2>1, <2>2, <2>3, ListsNow
<1>7. Tickets(B)'
  <2>1. \A x \in B \cap Calls : ticket[x] > 0
    <3>1. o \in Calls => ticket[o] > 0
      BY <1>1, <1>2 DEF Fits, Tickets
    <3> QED
      BY <1>2, <3>1 DEF Tickets
  <2>2. \A c \in Calls : next'[c] = LISTLESS => next[c] = LISTLESS
    <3>1. \A r \in Queues : items_head[r] # LISTLESS
      BY NullAssumption DEF Good, QueueTypes, Maybe
    <3> QED
      BY <1>1, <3>1 DEF Objects
  <2> QED
    BY <1>2, <2>1, <2>2 DEF Tickets
<1>8. Listed(B)'
  BY <1>5, <1>6, <1>7 DEF Listed
<1> QED
  BY <1>1, <1>4, <1>8, OwnerStays

LEMMA UndoActions ==
    ASSUME NEW A \in SUBSET Objects, Good(A), QueueTypes', NEW t \in Threads,
           NEW B \in SUBSET Objects, B \subseteq A \cup {Top(t).o},
           UndoHead(t) => B \subseteq A,
           Undo(t) \/ UndoHead(t) \/ UndoInFront(t)
    PROVE  Stays(B)
<1> USE DEF lists, counts, refs, blocks
<1>1. PICK b, e, q, o : b = TopOf(t) /\ e = Top(t) /\ q = e.q /\ o = e.o
  OBVIOUS
<1>2. stack[t] # <<>> /\ e.at \in {"undo", "undo_head", "undo_wait"}
  BY <1>1, AtTop DEF Undo, UndoHead, UndoInFront
<1>3. e.at \in HoldAts /\ e.at \in OwnerAts /\ e.at \notin {"run", "link"}
  BY <1>2 DEF HoldAts, FetchedAts, OwnerAts
<1>4. /\ b \in Pos /\ Fr(b) = e /\ q \in Queues /\ Fits(e) /\ o \in Objects /\ Held(b) = o /\ o # NULL
  BY <1>1, <1>2, <1>3, OwnerTop
<1>5. UNCHANGED <<use, root, ticket, running, suspend_cnt, sema, targetq, begun, ended>>
  BY DEF Undo, UndoHead, UndoInFront
<1>6. PICK at : /\ Goto(t, at)
                /\ \/ e.at = "undo" /\ at \in {"undo_wait", "undo_head"}
                   \/ e.at \in {"undo_head", "undo_wait"} /\ at = "invoke_unlock"
  <2>1. CASE Undo(t)
    BY <1>1, <2>1, AtTop DEF Undo
  <2>2. CASE UndoHead(t)
    BY <1>1, <2>2, AtTop DEF UndoHead
  <2>3. CASE UndoInFront(t)
    BY <1>1, <2>3, AtTop DEF UndoInFront
  <2> QED
    BY <2>1, <2>2, <2>3
<1>7. PICK f : /\ Steps(b, e, f, Nothing, Nothing)
               /\ f.at = at /\ f.q = e.q /\ f.o = e.o /\ f.n = e.n
  BY <1>1, <1>2, <1>3, <1>6, Goes DEF Good
<1>8. Fits(f)
  <2>1. CASE at = "invoke_unlock"
    BY <1>7, <2>1, EmptyFits DEF EmptyAts
  <2>2. CASE at \in {"undo_wait", "undo_head"}
    <3>1. e.at \in FetchedAts /\ at \in HoldAts
      BY <1>6, <2>2 DEF FetchedAts, HoldAts
    <3> QED
      BY <1>3, <1>4, <1>7, <3>1, HoldFits
  <2> QED
    BY <1>6, <2>1, <2>2
<1>9. f.at \in OwnerAts \ {"drain_width", "drain_pop"}
  BY <1>6, <1>7 DEF OwnerAts
<1>10. o \in A \/ e.at \in FetchedAts
  <2>1. CASE e.at = "undo_head"
    <3>1. ~Apart(b)
      BY <1>4, <2>1 DEF Apart, FetchedAts
    <3> QED
      BY <1>4, <3>1 DEF Good, Places, Sides
  <2>2. CASE e.at # "undo_head"
    BY <1>2, <2>2 DEF FetchedAts
  <2> QED
    BY <2>1, <2>2
<1>11. /\ \A r \in Queues : items_tail'[r] = items_tail[r] \/ (r = q /\ items_tail'[r] = o)
       /\ \A r \in Queues : items_head'[r] = items_head[r] \/ (r = q /\ items_head'[r] = o)
       /\ \A x \in Objects : \/ next'[x] = next[x]
                             \/ (x = o /\ items_head[q] # NULL /\ next'[x] = items_head[q])
  <2>1. /\ items_tail \in [Queues -> Maybe] /\ items_head \in [Queues -> Maybe]
        /\ next \in [Objects -> Maybe \cup {LISTLESS}]
    BY DEF Good, QueueTypes
  <2>2. CASE Undo(t)
    BY <1>1, <2>1, <2>2 DEF Undo
  <2>3. CASE UndoHead(t)
    BY <1>1, <2>1, <2>3 DEF UndoHead
  <2>4. CASE UndoInFront(t)
    <3>1. /\ items_head[q] # NULL /\ items_head' = [items_head EXCEPT ![q] = o]
          /\ next' = [next EXCEPT ![o] = items_head[q]] /\ items_tail' = items_tail
      BY <1>1, <2>4 DEF UndoInFront
    <3> QED
      BY <2>1, <3>1
  <2> QED
    BY <2>2, <2>3, <2>4
<1> QED
  BY <1>1, <1>2, <1>3, <1>5, <1>7, <1>8, <1>9, <1>10, <1>11, PutBack

\* Where the drainer stands when it comes back from an item.
LEMMA DrainedFits ==
    ASSUME NEW A \in SUBSET Objects, Good(A), QueueTypes', NEW t \in Threads, At(t, "drain_pop"),
           NEW b, b = TopOf(t), NEW e, e = Top(t)
    PROVE  /\ stack[t] # <<>> /\ b \in Pos /\ Fr(b) = e /\ e.at = "drain_pop" /\ e.q \in Queues
           /\ Fits(e) /\ e.o \in Objects /\ Held(b) = e.o
           /\ Home(e.o) = e.q /\ (e.o \in Calls => U.q[e.o] = e.q /\ ticket[e.o] > 0)
           /\ Drained(t).at \in {"drain", "drain_next"} /\ Drained(t).q = e.q
           /\ Drained(t).o = e.n /\ (e.n = NULL => Drained(t).at = "drain")
           /\ Fits(Drained(t))
           /\ b \in Owning(e.q)
<1>1. stack[t] # <<>> /\ e.at = "drain_pop" /\ e.at \in HoldAts /\ e.at \in FetchedAts /\ e.at \in OwnerAts
  BY AtTop DEF HoldAts, FetchedAts, OwnerAts
<1>2. b \in Pos /\ Fr(b) = e /\ e.q \in Queues /\ Fits(e) /\ e.o \in Objects /\ Held(b) = e.o
  BY <1>1, OwnerTop
<1>3. Home(e.o) = e.q /\ (e.o \in Calls => U.q[e.o] = e.q /\ ticket[e.o] > 0)
  BY <1>1, <1>2 DEF Fits, Home
<1>4. PICK f : f = Drained(t)
  OBVIOUS
<1>5. f.q = e.q /\ f.o = e.n /\ f.at = IF e.n = NULL THEN "drain" ELSE "drain_next"
  BY <1>4 DEF Drained, Drain
<1>6. Fits(f)
  <2>1. CASE e.n = NULL
    <3>1. f.at \in EmptyAts
      BY <1>5, <2>1 DEF EmptyAts
    <3> QED
      BY <3>1, EmptyFits
  <2>2. CASE e.n # NULL
    <3>1. f.at \in HoldAts /\ f.at \notin FetchedAts
      BY <1>5, <2>2 DEF HoldAts, FetchedAts
    <3>2. Home(f.o) = f.q
      BY <1>1, <1>2, <1>5, <2>2, HoldFits
    <3> QED
      BY <3>1, <3>2, HoldFits
  <2> QED
    BY <2>1, <2>2
<1> QED
  BY <1>1, <1>2, <1>3, <1>4, <1>5, <1>6 DEF Owning, Marked

\* What the drainer may run itself it runs alone.
LEMMA PopsAlone ==
    ASSUME NEW A \in SUBSET Objects, Good(A), QueueTypes', NEW t \in Threads, MayPop(t),
           NEW q, q = Top(t).q
    PROVE  Shares(q) = {}
<1>1. At(t, "drain_pop")
  BY DEF MayPop
<1>2. q \in Queues /\ Owning(q) # {}
  BY <1>1, DrainedFits
<1>3. CASE U.width[q] = 1
  <2>1. Sharing(q) = {}
    BY <1>3 DEF Good, Listed, AllFit, Fits, Sharing, Marked
  <2>2. Letting(q) = {}
    BY <1>3 DEF Letting, IsBarrier
  <2> QED
    BY <2>1, <2>2, BothSets DEF Shares
<1>4. CASE running[q] = 1
  <2>1. IsFiniteSet(Shares(q)) /\ running[q] = 2 * Cardinality(Shares(q)) + 1
    BY <1>2 DEF Good, CountInv, CountOf
  <2>2. PICK n : n = Cardinality(Shares(q))
    OBVIOUS
  <2>3. n \in Nat /\ (n = 0 <=> Shares(q) = {})
    BY <2>1, <2>2, ShareCounts
  <2> QED
    BY <1>4, <2>1, <2>2, <2>3
<1> QED
  BY <1>3, <1>4 DEF MayPop

\* A queue whose target changes is on no list.
LEMMA FitsElsewhere ==
    ASSUME NEW x, x \in StackFrame \cup {Nothing}, Fits(x), NEW q \in Queues, NEW to,
           use' = use, ticket' = ticket, targetq' = [targetq EXCEPT ![q] = to],
           targetq \in [Queues -> Targets],
           OOf(x) # q, NOf(x) # q, PrevOf(x) # q
    PROVE  Fits(x)'
<1>1. \A o \in Objects : o # q => Home(o)' = Home(o)
  BY SameUse DEF Home, Objects
<1>2. U' = U /\ \A c : (IsBarrier(c)' <=> IsBarrier(c))
  BY SameUse
<1>3. \A c : Free(c)' <=> Free(c)
  BY <1>2 DEF Free
<1>4. x.at \in {"push", "publish", "link"} \cup HoldAts => Home(x.o)' = Home(x.o)
  <2>1. ASSUME x.at \in {"push", "publish", "link"} \cup HoldAts
        PROVE  x.o \in Objects /\ x.o # q
    <3>1. x \in StackFrame
      BY <2>1 DEF Nothing, HoldAts, FetchedAts
    <3>2. x.o \in Objects
      BY <2>1, <3>1, FrameKinds DEF PushFrame, PublishFrame, LinkFrame
    <3> QED
      BY <2>1, <3>2 DEF OOf
  <2> QED
    BY <1>1, <2>1
<1>5. x.at = "link" => Home(x.prev)' = Home(x.prev)
  <2>1. ASSUME x.at = "link"
        PROVE  x.prev \in Objects /\ x.prev # q
    <3>1. x \in StackFrame
      BY <2>1 DEF Nothing
    <3>2. x.prev \in Objects
      BY <2>1, <3>1, FrameKinds DEF LinkFrame
    <3> QED
      BY <2>1, <3>2 DEF PrevOf
  <2> QED
    BY <1>1, <2>1
<1>6. x.at \in FetchedAts /\ x.n # NULL => Home(x.n)' = Home(x.n)
  <2>1. ASSUME x.at \in FetchedAts, x.n # NULL
        PROVE  x.n \in Objects /\ x.n # q
    <3>1. x \in StackFrame /\ x.at \in HoldAts
      BY <2>1 DEF Nothing, HoldAts, FetchedAts
    <3>2. x.n \in Maybe
      BY <3>1, FrameKinds DEF DrainFrame
    <3> QED
      BY <2>1, <3>2 DEF NOf, Maybe
  <2> QED
    BY <1>1, <2>1
<1>7. /\ x.at = "push" => Home(x.o)' = x.q \/ (x.q = ROOT /\ x.o \in Calls /\ Free(x.o)')
      /\ x.at = "publish" => Home(x.o)' = x.q
      /\ x.at = "link" => Home(x.prev)' = Home(x.o)'
      /\ x.at \in HoldAts => Home(x.o)' = x.q
  <2>1. /\ x.at = "push" => Home(x.o) = x.q \/ (x.q = ROOT /\ x.o \in Calls /\ Free(x.o))
        /\ x.at = "publish" => Home(x.o) = x.q
        /\ x.at = "link" => Home(x.prev) = Home(x.o)
        /\ x.at \in HoldAts => Home(x.o) = x.q
    BY DEF Fits
  <2> QED
    BY <1>3, <1>4, <1>5, <2>1
<1>8. x.at \in FetchedAts => /\ x.n # NULL => Home(x.n)' = x.q
                             /\ x.o \in Calls => ticket[x.o] > 0
  BY <1>6 DEF Fits
<1> QED
  BY <1>2, <1>7, <1>8 DEF Fits

LEMMA PopSetTargetStays ==
    ASSUME NEW A \in SUBSET Objects, Good(A), QueueTypes', NEW B \in SUBSET A, NEW t \in Threads,
           PopSetTarget(t)
    PROVE  Stays(B)
<1> USE DEF lists, counts, refs, blocks
<1>1. PICK b, e, q, c, f : b = TopOf(t) /\ e = Top(t) /\ q = e.q /\ c = e.o /\ f = Drained(t)
  OBVIOUS
<1>2. At(t, "drain_pop") /\ c \in Calls
  BY <1>1 DEF PopSetTarget, MayPop
<1>3. /\ stack[t] # <<>> /\ b \in Pos /\ Fr(b) = e /\ e.at = "drain_pop" /\ q \in Queues
      /\ f.at \in {"drain", "drain_next"} /\ f.q = q /\ Fits(f)
  BY <1>1, <1>2, DrainedFits
<1>4. /\ SameLists
      /\ UNCHANGED <<use, items_tail, items_head, next, root, ticket, running, suspend_cnt, sema>>
      /\ targetq' = [targetq EXCEPT ![q] = U.to[c]]
      /\ begun' = begun \cup {c} /\ ended' = ended \cup {c}
  BY <1>1 DEF PopSetTarget, SameLists
<1>5. PICK g : Steps(b, e, f, g, Nothing) /\ g.at \in {"release", "none"}
  <2>1. CASE Become(t, <<f>>)
    BY <1>1, <1>3, <2>1, Innermost DEF Good, Nothing
  <2>2. ASSUME NEW g, g = Frame("release", targetq[q], NULL), Become(t, <<g, f>>)
        PROVE  Steps(b, e, f, g, Nothing) /\ g.at = "release"
    BY <1>1, <1>3, <2>2, Innermost DEF Good, Frame
  <2>3. PICK g : g = Frame("release", targetq[q], NULL)
    OBVIOUS
  <2>4. <<g>> \o <<f>> = <<g, f>> /\ <<>> \o <<f>> = <<f>>
    BY Concatenations
  <2>5. Become(t, <<f>>) \/ Become(t, <<g, f>>)
    BY <1>1, <2>3, <2>4 DEF PopSetTarget, Released, Release
  <2> QED
    BY <2>1, <2>2, <2>3, <2>5
<1>6. Fits(g) /\ g.at \notin MarkAts \cup {"run", "push"} /\ Fits(Nothing)
  BY <1>5, PlainFits, NothingIsPlain DEF PlainAts
<1>7. Invoked(b) = q /\ q \notin A /\ OneSlot(A)
  <2>1. Invoked(b) = q
    BY <1>1, <1>3 DEF Invoked, QOf, HoldAts, FetchedAts
  <2> QED
    BY <1>3, <2>1 DEF Good, Places, Sides
<1>8. \A p \in Pos : Held(p) # q /\ Behind(p) # q /\ Before(p) # q
  <2>1. q \in Objects /\ <<"invoked", b>> \in Slot /\ In(A, <<"invoked", b>>) = q
    BY <1>3, <1>7, SlotKinds, SlotValues DEF Objects
  <2>2. ASSUME NEW p \in Pos, Held(p) = q
        PROVE  FALSE
    <3>1. <<"held", p>> \in Slot /\ In(A, <<"held", p>>) = q
      BY <2>2, SlotKinds, SlotValues
    <3>2. <<"held", p>> = <<"invoked", b>>
      BY <1>7, <2>1, <3>1 DEF OneSlot
    <3> QED
      BY <3>2
  <2>3. ASSUME NEW p \in Pos PROVE Behind(p) # q /\ Before(p) # q
    <3>1. Behind(p) \in A \cup {NULL}
      BY DEF Good, Places, Sides
    <3>2. Before(p) # NULL => Before(p) \in A
      BY DEF Good, Places, Ends
    <3> QED
      BY <1>3, <1>7, <3>1, <3>2, NullIsNone
  <2> QED
    BY <2>2, <2>3
<1>9. targetq \in [Queues -> Targets]
  BY DEF Good, QueueTypes
<1>10. AllFit'
  <2>1. Fits(f)' /\ Fits(g)' /\ Fits(Nothing)'
    <3>1. f.at \in EmptyAts \cup HoldAts
      BY <1>3 DEF EmptyAts, HoldAts
    <3>2. f.at \in HoldAts => f.o = e.n /\ e.n # NULL /\ Home(e.n) = q
      <4>1. f.o = e.n /\ (e.n = NULL => f.at = "drain")
        BY <1>1, <1>2, DrainedFits
      <4> QED
        BY <1>3, <4>1, HoldFits DEF HoldAts, FetchedAts
    <3>3. e.n \in Maybe /\ e.n # q
      <4>1. e.n \in Maybe
        BY <1>1, <1>3, OwnerTop DEF HoldAts, FetchedAts
      <4>2. Behind(b) = e.n
        BY <1>3 DEF Behind, NOf, FetchedAts
      <4> QED
        BY <1>3, <1>8, <4>1, <4>2
    <3>4. f.at \in HoldAts => Home(e.n)' = q
      BY <1>4, <1>9, <3>2, <3>3, SameUse DEF Home, Maybe, Objects
    <3>5. Fits(f)'
      <4>1. CASE f.at = "drain"
        BY <4>1 DEF Fits, FastAts, WaitAts, SyncAts, BarrierAts, HoldAts, FetchedAts, SharedAts
      <4>2. CASE f.at = "drain_next"
        <5>1. f.at \in HoldAts
          BY <4>2 DEF HoldAts
        <5>2. Home(f.o)' = f.q
          BY <1>3, <3>2, <3>4, <5>1
        <5> QED
          BY <4>2, <5>2 DEF Fits, FastAts, WaitAts, SyncAts, BarrierAts, FetchedAts, SharedAts
      <4> QED
        BY <1>3, <4>1, <4>2
    <3>6. Fits(g)' /\ Fits(Nothing)'
      BY <1>5, NothingIsPlain DEF Fits, FastAts, WaitAts, SyncAts, BarrierAts, HoldAts, FetchedAts, SharedAts
    <3> QED
      BY <3>5, <3>6
  <2>2. ASSUME NEW p \in Pos PROVE Fits(Fr(p))'
    <3>1. CASE p \in {b, Up(b), Up(Up(b))}
      <4>1. Fr(p)' = f \/ Fr(p)' = g \/ Fr(p)' = Nothing
        BY <1>5, <3>1 DEF Steps, Makes
      <4> QED
        BY <2>1, <4>1 DEF Fits
    <3>2. CASE p \notin {b, Up(b), Up(Up(b))}
      <4>1. PICK x : x = Fr(p)
        OBVIOUS
      <4>2. Fr(p)' = x
        BY <1>5, <3>2, <4>1 DEF Steps, Makes
      <4>3. x \in StackFrame \cup {Nothing}
        <5>1. /\ p[1] \in Threads /\ p[2] \in Nat
              /\ stack[p[1]] \in Seq(StackFrame)
          BY DEF Pos, Good, QueueTypes
        <5>2. p[2] < Len(stack[p[1]]) => Len(stack[p[1]]) - p[2] \in 1 .. Len(stack[p[1]])
          BY <5>1
        <5> QED
          BY <4>1, <5>1, <5>2 DEF Fr
      <4>4. OOf(x) # q /\ NOf(x) # q /\ PrevOf(x) # q
        BY <1>8, <4>1 DEF Held, Behind, Before
      <4>5. Fits(x)
        BY <4>1 DEF Good, Listed, AllFit
      <4>6. Fits(x)'
        BY <1>3, <1>4, <1>9, <4>3, <4>4, <4>5, FitsElsewhere
      <4> QED
        BY <4>2, <4>6 DEF Fits
    <3> QED
      BY <3>1, <3>2
  <2> QED
    BY <2>2 DEF AllFit
<1>11. Lists(B)'
  <2>1. /\ \A o \in A : Home(o)' = Home(o)
        /\ \A d \in Calls : (Free(d)' <=> Free(d))
    BY <1>4, <1>7, <1>9, SameUse DEF Home, Free, Objects
  <2>2. /\ \A r \in Queues : /\ items_head[r] # NULL => items_head[r] \in A
                             /\ items_tail[r] # NULL => items_tail[r] \in A
        /\ \A x \in A : next[x] # NULL => next[x] \in A
    BY DEF Good, Places, Sides, Ends
  <2>3. Lists(A)
    BY DEF Good, Listed
  <2>4. \A r \in Queues : /\ items_head[r] # NULL => Home(items_head[r])' = r
                          /\ items_tail[r] # NULL => Home(items_tail[r])' = r
    BY <1>4, <2>1, <2>2, <2>3 DEF Lists
  <2>5. \A x \in B : next[x] # NULL => Home(next[x])' = Home(x)'
    BY <1>4, <2>1, <2>2, <2>3 DEF Lists
  <2>6. \A i \in 1 .. Len(root) : root[i] \in Calls => Free(root[i])'
    BY <1>4, <2>1, <2>3 DEF Lists
  <2> QED
    BY <1>4, <2>4, <2>5, <2>6 DEF Lists
<1>12. Tickets(B)'
  BY <1>4 DEF Good, Listed, Tickets
<1>13. Listed(B)'
  BY <1>10, <1>11, <1>12 DEF Listed
<1>14. e.at \in OwnerAts /\ f.at \in OwnerAts /\ f.at \notin {"drain_width", "drain_pop"}
  BY <1>3 DEF OwnerAts
<1> QED
  BY <1>1, <1>3, <1>4, <1>5, <1>6, <1>13, <1>14, OwnerStays

LEMMA PopQueueStays ==
    ASSUME NEW A \in SUBSET Objects, Good(A), QueueTypes', NEW B \in SUBSET A, NEW t \in Threads,
           PopQueue(t)
    PROVE  Stays(B)
<1> USE DEF lists, counts, refs, blocks
<1>1. PICK b, e, q, f, g : /\ b = TopOf(t) /\ e = Top(t) /\ q = e.q /\ f = Drained(t)
                           /\ g = Drain("invoke", e.o, targetq[e.o], NULL, NULL)
  OBVIOUS
<1>2. At(t, "drain_pop")
  BY <1>1 DEF PopQueue, MayPop
<1>3. /\ stack[t] # <<>> /\ b \in Pos /\ Fr(b) = e /\ e.at = "drain_pop" /\ q \in Queues
      /\ f.at \in {"drain", "drain_next"} /\ f.q = q /\ Fits(f)
  BY <1>1, <1>2, DrainedFits
<1>4. /\ SameLists
      /\ UNCHANGED <<use, targetq, root, ticket, running, suspend_cnt, sema, begun, ended>>
  BY <1>1 DEF PopQueue, SameLists
<1>5. Steps(b, e, f, g, Nothing)
  <2>1. Become(t, <<g, f>>)
    BY <1>1 DEF PopQueue
  <2> QED
    BY <1>1, <1>3, <2>1, Innermost DEF Good
<1>6. g.at = "invoke" /\ g.at \notin MarkAts \cup {"run", "push"} /\ Fits(g) /\ Fits(Nothing)
  <2>1. g.at = "invoke"
    BY <1>1 DEF Drain
  <2> QED
    BY <2>1, PlainFits, NothingIsPlain DEF PlainAts
<1>7. Listed(B)'
  BY <1>3, <1>4, <1>5, <1>6, ListedStill DEF Good
<1>8. e.at \in OwnerAts /\ f.at \in OwnerAts /\ f.at \notin {"drain_width", "drain_pop"}
  BY <1>3 DEF OwnerAts
<1> QED
  BY <1>1, <1>3, <1>4, <1>5, <1>6, <1>7, <1>8, OwnerStays

LEMMA PopBlockStays ==
    ASSUME NEW A \in SUBSET Objects, Good(A), QueueTypes', NEW B \in SUBSET A, NEW t \in Threads,
           PopBlock(t)
    PROVE  Stays(B)
<1> USE DEF lists, counts, refs, blocks
<1>1. PICK b, e, q, c, f, g : /\ b = TopOf(t) /\ e = Top(t) /\ q = e.q /\ c = e.o /\ f = Drained(t)
                              /\ g = Run(c)
  OBVIOUS
<1>2. MayPop(t) /\ At(t, "drain_pop") /\ c \in Calls
  BY <1>1 DEF PopBlock, MayPop
<1>3. /\ stack[t] # <<>> /\ b \in Pos /\ Fr(b) = e /\ e.at = "drain_pop" /\ q \in Queues
      /\ f.at \in {"drain", "drain_next"} /\ f.q = q /\ Fits(f) /\ U.q[c] = q
  BY <1>1, <1>2, DrainedFits
<1>4. /\ SameLists /\ begun' = begun \cup {c}
      /\ UNCHANGED <<use, targetq, root, ticket, running, suspend_cnt, sema, ended>>
  BY <1>1 DEF PopBlock, Begin, SameLists
<1>5. Steps(b, e, f, g, Nothing)
  <2>1. <<g>> \o <<f>> = <<g, f>>
    BY Concatenations
  <2>2. Become(t, <<g, f>>)
    BY <1>1, <2>1 DEF PopBlock, Begin
  <2> QED
    BY <1>1, <1>3, <2>2, Innermost DEF Good
<1>6. g.at = "run" /\ g.o = c /\ g.at \notin MarkAts \cup {"push"} /\ Fits(g) /\ Fits(Nothing)
      /\ Nothing.at \notin MarkAts \cup {"run", "push"}
  <2>1. g.at = "run" /\ g.o = c
    BY <1>1 DEF Run
  <2> QED
    BY <2>1, PlainFits, NothingIsPlain DEF PlainAts
<1>7. Listed(B)'
  BY <1>3, <1>4, <1>5, <1>6, ListedStill DEF Good
<1>8. e.at \in OwnerAts /\ f.at \in OwnerAts /\ e.at # "run" /\ e.at # "push" /\ f.at # "push"
  BY <1>3 DEF OwnerAts
<1>9. Shares(q) = {}
  BY <1>1, <1>2, PopsAlone
<1>10. \A d \in Calls : LetGo(d)' <=> LetGo(d)
  <2>1. \A d : Rooted(d)' <=> Rooted(d)
    BY <1>4 DEF Rooted
  <2>2. \A x \in {e, f, g, Nothing} : x.at # "push"
    BY <1>6, <1>8
  <2> QED
    BY <1>4, <1>5, <2>1, <2>2, LetGoStays
<1>11. Busy(b)
  BY <1>3 DEF Busy
<1>12. StepsAt(b, {}) /\ CountInv' /\ (HandInv => HandInv')
  BY <1>1, <1>3, <1>4, <1>5, <1>6, <1>8, <1>9, <1>10, <1>11, OwnerSteps
<1>13. RunInv'
  <2>1. Fr(b)' = f /\ Fr(Up(b))' = g
    BY <1>5 DEF Steps, Makes
  <2>2. Runs(b)' /\ Block(b)' = c
    BY <1>6, <2>1 DEF Runs, Block
  <2>3. Beneath(f, c)'
    BY <1>2, <1>3, <1>4, SameUse DEF Beneath
  <2>4. Beneath(Fr(b), c)'
    BY <2>1, <2>3 DEF Beneath
  <2> QED
    BY <1>4, <1>5, <1>8, <1>12, <2>2, <2>4, OneBegins DEF Good
<1> QED
  BY <1>7, <1>12, <1>13 DEF Stays

\* A call in a function's hands has not been let go, unless it is being put on the root's list.
LEMMA HeldBack ==
    ASSUME NEW A \in SUBSET Objects, Good(A), NEW p \in Pos, Held(p) \in Calls, Fr(p).at # "push"
    PROVE  ~LetGo(Held(p)) /\ sema[Held(p)] = 0
<1>1. PICK c : c = Held(p)
  OBVIOUS
<1>2. c \in Objects /\ OneSlot(A)
  BY <1>1 DEF Good, Places, Objects
<1>3. sema[c] = 0
  <2>1. sema[c] # 1
    BY <1>1, HeldIsNew
  <2>2. sema[c] \in {0, 1}
    BY <1>1 DEF Good, QueueTypes
  <2> QED
    BY <2>1, <2>2
<1>4. ~Rooted(c) /\ \A r \in Pos \ {p} : Held(r) # c
  BY <1>1, <1>2, Elsewhere DEF Rooted
<1>5. ~Pushed(c)
  BY <1>4 DEF Pushed, Held, OOf
<1> QED
  BY <1>1, <1>3, <1>4, <1>5 DEF LetGo

LEMMA PopBarrierSyncStays ==
    ASSUME NEW A \in SUBSET Objects, Good(A), QueueTypes', NEW B \in SUBSET A, NEW t \in Threads,
           PopBarrierSync(t)
    PROVE  Stays(B)
<1> USE DEF lists, counts, refs, blocks
<1>1. PICK b, e, q, c, f : b = TopOf(t) /\ e = Top(t) /\ q = e.q /\ c = e.o /\ f = Drained(t)
  OBVIOUS
<1>2. MayPop(t) /\ At(t, "drain_pop") /\ c \in Calls /\ U.op[c] \in SyncOps
  BY <1>1 DEF PopBarrierSync, MayPop, SyncOps
<1>3. /\ stack[t] # <<>> /\ b \in Pos /\ Fr(b) = e /\ e.at = "drain_pop" /\ q \in Queues
      /\ f.at \in {"drain", "drain_next"} /\ f.q = q /\ Fits(f) /\ U.q[c] = q /\ ticket[c] > 0
      /\ Held(b) = c
  BY <1>1, <1>2, DrainedFits
<1>4. /\ SameLists /\ sema' = [sema EXCEPT ![c] = 1] /\ suspend_cnt' = Plus(suspend_cnt, q, 2)
      /\ UNCHANGED <<use, targetq, root, ticket, running, begun, ended>>
  BY <1>1 DEF PopBarrierSync, SameLists, HandOver
<1>5. Steps(b, e, f, Nothing, Nothing)
  BY <1>1, <1>3, Innermost DEF Good, PopBarrierSync
<1>6. /\ Fits(Nothing) /\ Nothing.at \notin MarkAts \cup {"run", "push"}
      /\ e.at \notin {"run", "push"} /\ f.at \notin {"run", "push"}
  BY <1>3, PlainFits, NothingIsPlain
<1>7. /\ sema \in [Calls -> {0, 1}] /\ suspend_cnt \in [Queues -> Int]
  BY DEF Good, QueueTypes
<1>8. Listed(B)'
  <2>1. \A d \in Calls : sema'[d] = 1 => sema[d] = 1 \/ ticket[d] > 0
    BY <1>3, <1>4, <1>7
  <2> QED
    BY <1>3, <1>4, <1>5, <1>6, <2>1, ListedStill DEF Good
<1>9. \A d \in Calls \ {c} : (LetGo(d)' <=> LetGo(d)) /\ sema'[d] = sema[d]
  <2>1. \A d : Rooted(d)' <=> Rooted(d)
    BY <1>4 DEF Rooted
  <2>2. \A d \in Calls \ {c} : sema'[d] = sema[d]
    BY <1>4, <1>7
  <2> QED
    BY <1>5, <1>6, <2>1, <2>2, LetGoStays
<1>10. StepsAt(b, {c}) /\ ~Runs(b)'
  BY <1>4, <1>5, <1>6, <1>9, StepsAtTop DEF Good
<1>11. /\ b \in Owning(q) /\ b \in Owning(q)' /\ b \notin Sharing(q) /\ b \notin Sharing(q)'
       /\ b \notin Resuming(q) /\ b \notin Resuming(q)'
       /\ \A r \in Queues \ {q} : b \notin Marked(MarkAts, r) /\ b \notin Marked(MarkAts, r)'
  <2>1. e.at \in OwnerAts /\ f.at \in OwnerAts /\ e.q = q
    BY <1>1, <1>3 DEF OwnerAts
  <2>2. e.at \notin SharedAts /\ f.at \notin SharedAts /\ e.at # "resume" /\ f.at # "resume"
    BY <2>1, OwnerAlone
  <2> QED
    BY <1>3, <1>5, <2>1, <2>2, MarksAtTop DEF Owning, Sharing, Resuming
<1>12. IsBarrier(c) /\ (IsBarrier(c))'
  <2>1. IsBarrier(c)
    BY <1>1, <1>2, <1>3 DEF MayPop, IsBarrier
  <2> QED
    BY <1>4, <2>1, SameUse
<1>13. /\ c \notin Letting(q) /\ c \notin Letting(q)' /\ c \notin Handed(q) /\ c \in Handed(q)'
  <2>1. sema[c] = 0
    BY <1>2, <1>3, HeldBack
  <2>2. sema'[c] = 1
    BY <1>2, <1>4, <1>7
  <2> QED
    BY <1>2, <1>3, <1>4, <1>12, <2>1, <2>2, SameUse DEF Letting, Handed
<1>14. /\ suspend_cnt'[q] = suspend_cnt[q] + 2 /\ suspend_cnt[q] \in Int
       /\ \A r \in Queues \ {q} : suspend_cnt'[r] = suspend_cnt[r]
  BY <1>3, <1>4, <1>7 DEF Plus
<1>15. WaitedFor(q) /\ Shares(q) = {} /\ Busy(b) /\ ~Busy(b)'
  <2>1. Shares(q) = {}
    BY <1>1, <1>2, PopsAlone
  <2>2. Fr(b)' = f
    BY <1>5 DEF Steps, Makes
  <2>3. Busy(b) /\ ~Busy(b)'
    BY <1>3, <1>10, <2>2 DEF Busy
  <2> QED
    BY <1>2, <1>3, <2>1, <2>3 DEF WaitedFor
<1>16. /\ CountOf(q) => CountOf(q)'
       /\ CountOf(q) /\ HandOf(q) => HandOf(q)'
  BY <1>2, <1>3, <1>4, <1>10, <1>11, <1>13, <1>14, <1>15, HandedOverTo DEF Good
<1>17. CountInv' /\ (HandInv => HandInv')
  BY <1>3, <1>4, <1>10, <1>11, <1>14, <1>16, OneQueue DEF Good
<1>18. RunInv'
  BY <1>4, <1>5, <1>6, <1>10, NoneBegins DEF Good
<1> QED
  BY <1>8, <1>17, <1>18 DEF Stays

LEMMA RedirectStays ==
    ASSUME NEW A \in SUBSET Objects, Good(A), QueueTypes', NEW B \in SUBSET A, NEW t \in Threads,
           Redirect(t)
    PROVE  Stays(B)
<1> USE DEF lists, counts, refs, blocks
<1>1. PICK b, e, q, c, f : b = TopOf(t) /\ e = Top(t) /\ q = e.q /\ c = e.o /\ f = Drained(t)
  OBVIOUS
<1>2. At(t, "drain_pop") /\ c \in Calls /\ ~IsBarrier(c)
  BY <1>1 DEF Redirect
<1>3. /\ stack[t] # <<>> /\ b \in Pos /\ Fr(b) = e /\ e.at = "drain_pop" /\ q \in Queues
      /\ f.at \in {"drain", "drain_next"} /\ f.q = q /\ Fits(f) /\ U.q[c] = q /\ ticket[c] > 0
      /\ Held(b) = c
  BY <1>1, <1>2, DrainedFits
<1>4. /\ SameLists /\ running' = Plus(running, q, 2)
      /\ UNCHANGED <<use, targetq, root, ticket, suspend_cnt, begun, ended>>
  BY <1>1 DEF Redirect, SameLists, Counted
<1>5. PICK g : /\ Steps(b, e, f, g, Nothing)
               /\ \/ g = Nothing /\ sema' = [sema EXCEPT ![c] = 1]
                  \/ g.at = "push" /\ g.q = ROOT /\ g.o = c /\ sema' = sema
  <2>1. CASE U.op[c] = "sync"
    <3>1. Become(t, <<f>>) /\ sema' = [sema EXCEPT ![c] = 1]
      BY <1>1, <2>1 DEF Redirect
    <3> QED
      BY <1>1, <1>3, <3>1, Innermost DEF Good
  <2>2. CASE U.op[c] # "sync"
    <3>1. PICK g : g = Frame("push", ROOT, c)
      OBVIOUS
    <3>2. g.at = "push" /\ g.q = ROOT /\ g.o = c
      BY <3>1 DEF Frame
    <3>3. <<g>> \o <<f>> = <<g, f>>
      BY Concatenations
    <3>4. Become(t, <<g, f>>) /\ sema' = sema
      BY <1>1, <2>2, <3>1, <3>3 DEF Redirect, Push
    <3> QED
      BY <1>1, <1>3, <3>2, <3>4, Innermost DEF Good
  <2> QED
    BY <2>1, <2>2
<1>6. /\ Fits(Nothing) /\ Nothing.at \notin MarkAts \cup {"run", "push"}
      /\ e.at \notin {"run", "push"} /\ f.at \notin {"run", "push"}
      /\ g.at \notin MarkAts \cup {"run"}
  <2>1. "push" \notin MarkAts
    BY DEF MarkAts, SharedAts, OwnerAts
  <2> QED
    BY <1>3, <1>5, <2>1, PlainFits, NothingIsPlain
<1>7. Fits(g)
  <2>1. CASE g = Nothing
    BY <1>6, <2>1
  <2>2. CASE g.at = "push" /\ g.q = ROOT /\ g.o = c
    <3>1. Free(c)
      BY <1>2 DEF Free
    <3> QED
      BY <1>2, <2>2, <3>1
         DEF Fits, FastAts, WaitAts, SyncAts, BarrierAts, HoldAts, FetchedAts, SharedAts
  <2> QED
    BY <1>5, <2>1, <2>2
<1>8. sema \in [Calls -> {0, 1}]
  BY DEF Good, QueueTypes
<1>9. Listed(B)'
  <2>1. \A d \in Calls : sema'[d] = 1 => sema[d] = 1 \/ ticket[d] > 0
    BY <1>3, <1>5, <1>8
  <2> QED
    BY <1>3, <1>4, <1>5, <1>6, <1>7, <2>1, ListedStill DEF Good
<1>10. \A d \in Calls \ {c} : (LetGo(d)' <=> LetGo(d)) /\ sema'[d] = sema[d]
  <2>1. \A d : Rooted(d)' <=> Rooted(d)
    BY <1>4 DEF Rooted
  <2>2. \A d \in Calls \ {c} : sema'[d] = sema[d]
    BY <1>5, <1>8
  <2>3. ASSUME NEW d \in Calls \ {c}
        PROVE  \A x \in {e, f, g, Nothing} : x.at = "push" => x.o # d
    BY <1>5, <1>6, <2>3
  <2> QED
    BY <1>5, <2>1, <2>2, <2>3, LetGoStays
<1>11. StepsAt(b, {c}) /\ ~Runs(b)'
  BY <1>4, <1>5, <1>6, <1>10, StepsAtTop DEF Good
<1>12. /\ b \in Owning(q) /\ b \in Owning(q)' /\ b \notin Sharing(q) /\ b \notin Sharing(q)'
       /\ b \notin Resuming(q) /\ b \notin Resuming(q)'
       /\ \A r \in Queues \ {q} : b \notin Marked(MarkAts, r) /\ b \notin Marked(MarkAts, r)'
  <2>1. e.at \in OwnerAts /\ f.at \in OwnerAts /\ e.q = q
    BY <1>1, <1>3 DEF OwnerAts
  <2>2. e.at \notin SharedAts /\ f.at \notin SharedAts /\ e.at # "resume" /\ f.at # "resume"
    BY <2>1, OwnerAlone
  <2> QED
    BY <1>3, <1>5, <2>1, <2>2, MarksAtTop DEF Owning, Sharing, Resuming
<1>13. LetGo(c)' /\ ~LetGo(c)
  <2>1. ~LetGo(c)
    BY <1>2, <1>3, HeldBack
  <2>2. CASE sema' = [sema EXCEPT ![c] = 1]
    BY <1>2, <1>8, <2>1, <2>2 DEF LetGo
  <2>3. CASE g.at = "push" /\ g.q = ROOT /\ g.o = c
    <3>1. Up(b) \in Pos /\ Fr(Up(b))' = g
      BY <1>3, <1>5, UpApart DEF Steps, Makes
    <3>2. Pushed(c)'
      BY <2>3, <3>1 DEF Pushed
    <3> QED
      BY <2>1, <3>2 DEF LetGo
  <2> QED
    BY <1>5, <2>2, <2>3
<1>14. /\ c \notin Letting(q) /\ c \in Letting(q)' /\ c \notin Handed(q) /\ c \notin Handed(q)'
  <2>1. U' = U /\ (IsBarrier(c)' <=> IsBarrier(c))
    BY <1>4, SameUse
  <2> QED
    BY <1>2, <1>3, <1>13, <2>1 DEF Letting, Handed
<1>15. running'[q] = running[q] + 2 /\ \A r \in Queues \ {q} : running'[r] = running[r]
  <2>1. running \in [Queues -> Int]
    BY DEF Good, RunningType
  <2> QED
    BY <1>3, <1>4, <2>1 DEF Plus
<1>16. Busy(b) /\ ~Busy(b)'
  <2>1. Fr(b)' = f
    BY <1>5 DEF Steps, Makes
  <2> QED
    BY <1>3, <1>11, <2>1 DEF Busy
<1>17. /\ CountOf(q) => CountOf(q)'
       /\ CountOf(q) /\ HandOf(q) => HandOf(q)'
  BY <1>2, <1>3, <1>4, <1>11, <1>12, <1>14, <1>15, <1>16, CallLetGo DEF Good
<1>18. CountInv' /\ (HandInv => HandInv')
  BY <1>3, <1>4, <1>11, <1>12, <1>15, <1>17, OneQueue DEF Good
<1>19. RunInv'
  BY <1>4, <1>5, <1>6, <1>11, NoneBegins DEF Good
<1> QED
  BY <1>9, <1>18, <1>19 DEF Stays
-----------------------------------------------------------------------------
(* Steps that begin a shared block, or end one. *)

\* A block that has begun has not been let go again.
LEMMA BegunGone ==
    ASSUME QueueTypes', NEW B, Places(B)', NEW c \in Calls, c \in begun'
    PROVE  ~LetGo(c)'
<1>1. sema'[c] = 0 /\ c \notin B /\ \A s \in Slot : In(B, s)' # c
  BY DEF Places, Popped, Nowhere
<1>2. ~Rooted(c)'
  <2>1. ASSUME NEW i \in 1 .. Len(root')
        PROVE  root'[i] # c
    <3>1. i \in Nat \ {0} /\ i <= Len(root')
      BY DEF QueueTypes
    <3>2. <<"root", i>> \in Slot /\ In(B, <<"root", i>>)' = root'[i]
      BY <3>1, SlotKinds, SlotValuesNext
    <3> QED
      BY <1>1, <3>2
  <2> QED
    BY <2>1 DEF Rooted
<1>3. ~Pushed(c)'
  <2>1. ASSUME NEW p \in Pos, Fr(p)'.at = "push"
        PROVE  Fr(p)'.o # c
    <3>1. <<"held", p>> \in Slot /\ In(B, <<"held", p>>)' = Held(p)'
      BY SlotKinds, SlotValuesNext
    <3>2. Held(p)' = Fr(p)'.o
      BY <2>1 DEF Held, OOf
    <3> QED
      BY <1>1, <3>1, <3>2
  <2> QED
    BY <2>1 DEF Pushed
<1> QED
  BY <1>1, <1>2, <1>3 DEF LetGo

\* A call that its thread still tries to make without the list has no ticket.
LEMMA AskedIsNew ==
    ASSUME NEW A \in SUBSET Objects, Good(A), NEW b \in Pos, Fr(b).at \in FastAts, Fr(b).o \in Calls
    PROVE  ticket[Fr(b).o] = 0 /\ Fr(b).o \notin begun
<1>1. PICK c \in Calls : c = Fr(b).o
  OBVIOUS
<1>2. <<"asking", b>> \in Turn /\ Due(<<"asking", b>>) = c
  BY <1>1, TurnKinds, DueValues DEF Asking, CallOf
<1>3. next[c] = LISTLESS /\ c \notin begun
  BY <1>2 DEF Good, Places, ToCome
<1>4. ticket[c] = 0
  BY <1>3 DEF Good, Listed, Tickets
<1> QED
  BY <1>1, <1>3, <1>4

LEMMA SyncAddStays ==
    ASSUME NEW A \in SUBSET Objects, Good(A), QueueTypes', NEW B \in SUBSET A, NEW t \in Threads,
           SyncAdd(t)
    PROVE  Stays(B)
<1> USE DEF lists, counts, refs, blocks
<1>1. PICK b, e, c, q : b = TopOf(t) /\ e = Top(t) /\ c = e.o /\ q = e.q
  OBVIOUS
<1>2. stack[t] # <<>> /\ e.at = "sync_add"
  BY <1>1, AtTop DEF SyncAdd
<1>3. /\ SameLists /\ running' = Plus(running, q, 2)
      /\ UNCHANGED <<use, targetq, root, ticket, suspend_cnt, sema, ended>>
  BY <1>1 DEF SyncAdd, SameLists, Begin
<1>4. /\ b \in Pos /\ Fr(b) = e /\ c \in Calls /\ q \in Queues /\ U.q[c] = q /\ Fits(e)
      /\ Goto(t, "sync_back") => Steps(b, e, Frame("sync_back", q, c), Nothing, Nothing)
  BY <1>1, <1>2, CallGoes DEF FastAts
<1>5. U.op[c] = "sync" /\ ~IsBarrier(c) /\ U.width[q] > 1
  <2>1. U.op[c] = "sync" /\ ~IsBarrier(c)
    BY <1>1, <1>2, <1>4 DEF Fits, SyncAts
  <2>2. U.width[q] # 1
    BY <1>4, <2>1 DEF IsBarrier
  <2>3. U.width[q] \in {1} \cup {2 * w : w \in 2 .. 64}
    BY <1>4, UseTypes DEF Good, IsUse
  <2> QED
    BY <2>1, <2>2, <2>3
<1>6. /\ running'[q] = running[q] + 2 /\ running[q] \in Int
      /\ \A r \in Queues \ {q} : running'[r] = running[r]
  BY <1>3, <1>4 DEF Good, RunningType, Plus
<1>7. ticket[c] = 0
  BY <1>1, <1>2, <1>4, AskedIsNew DEF FastAts
<1>8. PICK f, g : /\ Steps(b, e, f, g, Nothing)
                  /\ f.at \in SharedAts /\ f.q = q /\ Fits(f)
                  /\ \/ f.at = "sync_back" /\ g = Nothing /\ begun' = begun
                     \/ /\ f.at = "running_sub" /\ g.at = "run" /\ g.o = c /\ begun' = begun \cup {c}
                        /\ running[q] % 2 = 0
  <2>1. CASE running[q] % 2 = 1
    <3>1. PICK f : f = Frame("sync_back", q, c)
      OBVIOUS
    <3>2. f.at = "sync_back" /\ f.q = q
      BY <3>1 DEF Frame
    <3>3. Fits(f)
      BY <1>4, <1>5, <3>1, CallFits
    <3>4. Goto(t, "sync_back") /\ begun' = begun
      BY <1>1, <2>1 DEF SyncAdd
    <3> QED
      BY <1>4, <3>1, <3>2, <3>3, <3>4 DEF SharedAts
  <2>2. CASE running[q] % 2 # 1
    <3>1. PICK f, g : f = Frame("running_sub", q, NULL) /\ g = Run(c)
      OBVIOUS
    <3>2. f.at = "running_sub" /\ f.q = q /\ g.at = "run" /\ g.o = c
      BY <3>1 DEF Frame, Run
    <3>3. Fits(f)
      BY <1>5, <3>2
         DEF Fits, FastAts, WaitAts, SyncAts, BarrierAts, HoldAts, FetchedAts, SharedAts
    <3>4. <<g>> \o <<f>> = <<g, f>>
      BY Concatenations
    <3>5. Become(t, <<g, f>>) /\ begun' = begun \cup {c}
      BY <1>1, <2>2, <3>1, <3>4 DEF SyncAdd, Begin
    <3>6. Steps(b, e, f, g, Nothing)
      BY <1>1, <1>2, <3>5, Innermost DEF Good
    <3>7. running[q] % 2 = 0
      BY <1>6, <2>2
    <3> QED
      BY <3>2, <3>3, <3>5, <3>6, <3>7 DEF SharedAts
  <2> QED
    BY <2>1, <2>2
<1>9. /\ e.at \notin MarkAts \cup {"run", "push"} /\ f.at \notin {"run", "push"}
      /\ g.at \notin MarkAts \cup {"push"} /\ Fits(g) /\ g.at \in {"none", "run"}
      /\ Nothing.at \notin MarkAts \cup {"run", "push"} /\ Fits(Nothing)
  <2>1. e.at \notin MarkAts \cup {"run", "push"} /\ f.at \notin {"run", "push"}
    BY <1>2, <1>8 DEF MarkAts, SharedAts, OwnerAts
  <2>2. g.at \in {"none", "run"}
    BY <1>8, NothingIsPlain
  <2> QED
    BY <2>1, <2>2, PlainFits, NothingIsPlain DEF PlainAts
<1>10. Listed(B)'
  BY <1>3, <1>8, <1>9, ListedStill DEF Good
<1>11. \A d \in Calls : LetGo(d)' <=> LetGo(d)
  <2>1. \A d : Rooted(d)' <=> Rooted(d)
    BY <1>3 DEF Rooted
  <2> QED
    BY <1>3, <1>8, <1>9, <2>1, LetGoStays
<1>12. /\ StepsAt(b, {}) /\ (Runs(b)' <=> g.at = "run") /\ Block(b)' = g.o
  BY <1>3, <1>8, <1>9, <1>11, StepsAtTop DEF Good
<1>13. /\ b \notin Marked(MarkAts, q) /\ b \in Sharing(q)' /\ b \notin Owning(q)'
       /\ b \notin Resuming(q)'
       /\ \A r \in Queues \ {q} : b \notin Marked(MarkAts, r) /\ b \notin Marked(MarkAts, r)'
  <2>1. f.at \notin OwnerAts /\ f.at # "resume"
    BY <1>8 DEF SharedAts, OwnerAts
  <2> QED
    BY <1>8, <1>9, <2>1, MarksAtTop DEF Owning, Sharing, Resuming
<1>14. Fr(b)' = f /\ b \in Pos
  BY <1>8 DEF Steps, Makes
<1>15. running[q] % 2 = 0 \/ Fr(b)'.at = "sync_back"
  BY <1>8, <1>14
<1>16. Fr(b)'.at = "running_sub" /\ Runs(b)' => Fast(Block(b))'
  <2>1. ASSUME f.at = "running_sub" PROVE Block(b)' = c
    BY <1>8, <1>12, <2>1
  <2>2. Fast(c)'
    BY <1>3, <1>5, <1>7, SameUse DEF Fast
  <2> QED
    BY <1>14, <2>1, <2>2 DEF Fast
<1>17. /\ CountOf(q) => CountOf(q)'
       /\ CountOf(q) /\ HandOf(q) => HandOf(q)'
  BY <1>3, <1>4, <1>6, <1>12, <1>13, <1>15, <1>16, ShareTaken DEF Good
<1>18. CountInv' /\ (HandInv => HandInv')
  BY <1>3, <1>4, <1>6, <1>12, <1>13, <1>17, OneQueue DEF Good
<1>19. RunInv'
  <2>1. CASE g.at # "run"
    <3>1. begun' = begun
      BY <1>8, <2>1
    <3> QED
      BY <1>3, <1>8, <1>9, <1>12, <2>1, <3>1, NoneBegins DEF Good
  <2>2. CASE g.at = "run"
    <3>1. f.at = "running_sub" /\ g.o = c /\ begun' = begun \cup {c}
      BY <1>8, <2>2, NothingIsPlain
    <3>2. Beneath(f, c)'
      BY <1>3, <1>4, <1>5, <1>8, <3>1, SameUse DEF Beneath
    <3>3. Beneath(Fr(b), c)'
      BY <1>14, <3>2 DEF Beneath
    <3> QED
      BY <1>3, <1>8, <1>9, <1>12, <2>2, <3>1, <3>3, OneBegins DEF Good
  <2> QED
    BY <2>1, <2>2
<1> QED
  BY <1>10, <1>18, <1>19 DEF Stays

\* A shared block has returned, or a synchronous call lets it be.
LEMMA ShareEnds ==
    ASSUME NEW A \in SUBSET Objects, Good(A), NEW B \in SUBSET A,
           NEW b, NEW e, NEW f, NEW g, NEW h, Steps(b, e, f, g, h),
           NEW q \in Queues, e.at \in SharedAts, e.q = q,
           f.at \notin MarkAts \cup {"run", "push"}, g.at \notin MarkAts \cup {"run"},
           h.at \notin MarkAts \cup {"run", "push"}, Fits(f), Fits(g), Fits(h),
           g.at = "push" => g.q # ROOT,
           SameLists, running' = Plus(running, q, -2),
           UNCHANGED <<use, targetq, root, ticket, suspend_cnt, sema, begun, ended>>
    PROVE  Stays(B)
<1>1. Listed(B)'
  BY ListedStill DEF Good
<1>2. e.at \notin OwnerAts \cup {"run", "push", "resume"} /\ e.at \in MarkAts
  BY DEF SharedAts, OwnerAts, MarkAts
<1>3. \A d \in Calls : LetGo(d)' <=> LetGo(d)
  <2>1. \A d : Rooted(d)' <=> Rooted(d)
    BY DEF Rooted
  <2> QED
    BY <1>2, <2>1, LetGoStays
<1>4. StepsAt(b, {})
  BY <1>2, <1>3, StepsAtTop DEF Good
<1>5. /\ running'[q] = running[q] - 2 /\ running[q] \in Int
      /\ \A r \in Queues \ {q} : running'[r] = running[r]
  BY DEF Good, RunningType, Plus
<1>6. /\ b \notin Marked(MarkAts, q)' /\ b \in Sharing(q) /\ b \notin Owning(q) /\ b \notin Resuming(q)
      /\ \A r \in Queues \ {q} : b \notin Marked(MarkAts, r) /\ b \notin Marked(MarkAts, r)'
  BY <1>2, MarksAtTop DEF Owning, Sharing, Resuming
<1>7. /\ CountOf(q) => CountOf(q)'
      /\ CountOf(q) /\ HandOf(q) => HandOf(q)'
  BY <1>4, <1>5, <1>6, ShareLeft DEF Good
<1>8. CountInv' /\ (HandInv => HandInv')
  BY <1>4, <1>5, <1>6, <1>7, OneQueue DEF Good
<1>9. RunInv'
  BY <1>2, <1>4, NoneBegins DEF Good
<1> QED
  BY <1>1, <1>8, <1>9 DEF Stays

LEMMA SyncBackOutStays ==
    ASSUME NEW A \in SUBSET Objects, Good(A), QueueTypes', NEW B \in SUBSET A, NEW t \in Threads,
           SyncBackOut(t)
    PROVE  Stays(B)
<1> USE DEF lists, counts, refs, blocks
<1>1. PICK b, e, c, q : b = TopOf(t) /\ e = Top(t) /\ c = e.o /\ q = e.q
  OBVIOUS
<1>2. stack[t] # <<>> /\ e.at = "sync_back"
  BY <1>1, AtTop DEF SyncBackOut
<1>3. /\ SameLists /\ running' = Plus(running, q, -2)
      /\ UNCHANGED <<use, targetq, root, ticket, suspend_cnt, sema, begun, ended>>
  BY <1>1 DEF SyncBackOut, SameLists
<1>4. /\ b \in Pos /\ Fr(b) = e /\ c \in Calls /\ q \in Queues /\ U.q[c] = q /\ Fits(e) /\ q # ROOT
      /\ Fits(Frame("push", q, c))
  BY <1>1, <1>2, CallGoes, RootAssumption DEF FastAts
<1>5. U.op[c] = "sync" /\ ~IsBarrier(c)
  BY <1>1, <1>2, <1>4 DEF Fits, SyncAts
<1>6. PICK f, g, w : f = Frame("sync_wait", q, c) /\ g = Frame("push", q, c)
                     /\ w = Frame("wakeup", q, NULL)
  OBVIOUS
<1>7. f.at = "sync_wait" /\ g.at = "push" /\ g.q = q /\ w.at = "wakeup"
  BY <1>6 DEF Frame
<1>8. Fits(f) /\ Fits(g) /\ Fits(w) /\ Fits(Nothing)
  <2>1. Fits(f)
    BY <1>4, <1>5, <1>6, CallFits
  <2> QED
    BY <1>4, <1>6, <1>7, <2>1, PlainFits, NothingIsPlain DEF PlainAts
<1>9. [e EXCEPT !.at = "sync_wait"] = f
  <2>1. e \in CallFrame
    BY <1>1, <1>2, Innermost, FrameKinds DEF Good, FastAts
  <2> QED
    BY <1>1, <1>6, <2>1, CallGoesOn DEF WaitAts
<1>10. Become(t, <<w, g, f>>) \/ Become(t, <<g, f>>)
  <2>1. Become(t, ((IF running[q] = 2 THEN <<w>> ELSE <<>>) \o <<g>>) \o <<f>>)
    BY <1>1, <1>6, <1>9 DEF SyncBackOut, Wakeup, Push
  <2>2. <<w>> \o <<g>> = <<w, g>> /\ <<w, g>> \o <<f>> = <<w, g, f>>
    BY Concatenations
  <2>3. <<>> \o <<g>> = <<g>> /\ <<g>> \o <<f>> = <<g, f>>
    BY Concatenations
  <2> QED
    BY <2>1, <2>2, <2>3
<1>11. Steps(b, e, f, g, w) \/ Steps(b, e, f, g, Nothing)
  BY <1>1, <1>2, <1>10, Innermost DEF Good
<1>12. /\ f.at \notin MarkAts \cup {"run", "push"} /\ g.at \notin MarkAts \cup {"run"}
       /\ w.at \notin MarkAts \cup {"run", "push"} /\ Nothing.at \notin MarkAts \cup {"run", "push"}
  <2>1. \A at \in {"sync_wait", "push", "wakeup", "none"} : at \notin MarkAts \cup {"run"}
    BY DEF MarkAts, SharedAts, OwnerAts
  <2> QED
    BY <1>7, <2>1, NothingIsPlain
<1>13. e.at \in SharedAts
  BY <1>2 DEF SharedAts
<1> QED
  BY <1>1, <1>3, <1>4, <1>7, <1>8, <1>11, <1>12, <1>13, ShareEnds

LEMMA RunningSubStays ==
    ASSUME NEW A \in SUBSET Objects, Good(A), QueueTypes', NEW B \in SUBSET A, NEW t \in Threads,
           RunningSub(t)
    PROVE  Stays(B)
<1> USE DEF lists, counts, refs, blocks
<1>1. PICK b, e, q : b = TopOf(t) /\ e = Top(t) /\ q = e.q
  OBVIOUS
<1>2. stack[t] # <<>> /\ e.at = "running_sub"
  BY <1>1, AtTop DEF RunningSub
<1>3. /\ SameLists /\ running' = Plus(running, q, -2)
      /\ UNCHANGED <<use, targetq, root, ticket, suspend_cnt, sema, begun, ended>>
  BY <1>1 DEF RunningSub, SameLists
<1>4. q \in Queues
  BY <1>1, <1>2, Innermost, FrameKinds DEF Good, BareFrame, BareAts
<1>5. PICK w : w = Frame("wakeup", q, NULL)
  OBVIOUS
<1>6. w.at = "wakeup"
  BY <1>5 DEF Frame
<1>7. Become(t, <<w>>) \/ Become(t, <<>>)
  BY <1>1, <1>5 DEF RunningSub, Wakeup
<1>8. Steps(b, e, w, Nothing, Nothing) \/ Steps(b, e, Nothing, Nothing, Nothing)
  BY <1>1, <1>2, <1>7, Innermost DEF Good
<1>9. /\ w.at \notin MarkAts \cup {"run", "push"} /\ Nothing.at \notin MarkAts \cup {"run", "push"}
      /\ Fits(w) /\ Fits(Nothing)
  BY <1>6, PlainFits, NothingIsPlain DEF PlainAts
<1>10. e.at \in SharedAts
  BY <1>2 DEF SharedAts
<1> QED
  BY <1>1, <1>3, <1>4, <1>8, <1>9, <1>10, ShareEnds

\* A block begins for a call that was let go: on its thread, or a worker's.
LEMMA LetGoBegins ==
    ASSUME NEW A \in SUBSET Objects, Good(A), NEW B, Listed(B)',
           NEW b, NEW e, NEW f, NEW g, NEW h, Steps(b, e, f, g, h), NEW m,
           NEW c \in Calls, NEW q \in Queues, U.q[c] = q, ~IsBarrier(c),
           StepsAt(m, {c}), m \notin Marked(MarkAts, q), Runs(m)', Block(m)' = c,
           Fr(m)'.at = "running_sub", Fr(m)'.q = q,
           \A r \in Queues \ {q} : m \notin Marked(MarkAts, r),
           LetGo(c), ~LetGo(c)', e.at # "run",
           begun' = begun \cup {c}, UNCHANGED <<use, ticket, running, suspend_cnt, ended>>
    PROVE  Stays(B)
<1>1. m \in Pos
  BY DEF StepsAt
<1>2. /\ m \in Sharing(q)' /\ m \notin Owning(q)' /\ m \notin Resuming(q)'
      /\ \A r \in Queues \ {q} : m \notin Marked(MarkAts, r)'
  BY <1>1 DEF Marked, Sharing, Owning, Resuming, SharedAts, OwnerAts, MarkAts
<1>3. c \in Letting(q) /\ c \notin Letting(q)' /\ c \notin Handed(q) /\ c \notin Handed(q)'
  <2>1. U' = U /\ (IsBarrier(c)' <=> IsBarrier(c))
    BY SameUse
  <2> QED
    BY <2>1 DEF Letting, Handed
<1>4. /\ CountOf(q) => CountOf(q)'
      /\ CountOf(q) /\ HandOf(q) => HandOf(q)'
  BY <1>2, <1>3, CallTakes DEF Good
<1>5. CountInv' /\ (HandInv => HandInv')
  BY <1>2, <1>4, OneQueue DEF Good
<1>6. RunInv'
  <2>1. Beneath(Fr(m), c)'
    BY SameUse DEF Beneath
  <2> QED
    BY <2>1, OneBegins DEF Good
<1> QED
  BY <1>5, <1>6 DEF Stays

LEMMA SyncWaitStays ==
    ASSUME NEW A \in SUBSET Objects, Good(A), QueueTypes', NEW B \in SUBSET A, Places(B)',
           NEW t \in Threads, SyncWait(t)
    PROVE  Stays(B)
<1> USE DEF lists, counts, refs, blocks
<1>1. PICK b, e, c, q : b = TopOf(t) /\ e = Top(t) /\ c = e.o /\ q = e.q
  OBVIOUS
<1>2. stack[t] # <<>> /\ e.at = "sync_wait" /\ sema[c] = 1
  BY <1>1, AtTop DEF SyncWait
<1>3. /\ SameLists /\ sema' = [sema EXCEPT ![c] = 0] /\ begun' = begun \cup {c}
      /\ UNCHANGED <<use, targetq, root, ticket, running, suspend_cnt, ended>>
  BY <1>1 DEF SyncWait, SameLists, Begin
<1>4. /\ b \in Pos /\ Fr(b) = e /\ c \in Calls /\ q \in Queues /\ U.q[c] = q /\ Fits(e)
  BY <1>1, <1>2, CallGoes DEF WaitAts
<1>5. U.op[c] = "sync" /\ ~IsBarrier(c) /\ U.width[q] > 1
  <2>1. U.op[c] = "sync" /\ ~IsBarrier(c)
    BY <1>1, <1>2, <1>4 DEF Fits, SyncAts
  <2>2. U.width[q] # 1
    BY <1>4, <2>1 DEF IsBarrier
  <2>3. U.width[q] \in {1} \cup {2 * w : w \in 2 .. 64}
    BY <1>4, UseTypes DEF Good, IsUse
  <2> QED
    BY <2>1, <2>2, <2>3
<1>6. PICK f, g : f = Frame("running_sub", q, NULL) /\ g = Run(c)
  OBVIOUS
<1>7. f.at = "running_sub" /\ f.q = q /\ g.at = "run" /\ g.o = c
  BY <1>6 DEF Frame, Run
<1>8. Steps(b, e, f, g, Nothing)
  <2>1. <<g>> \o <<f>> = <<g, f>>
    BY Concatenations
  <2>2. Become(t, <<g, f>>)
    BY <1>1, <1>6, <2>1 DEF SyncWait, Begin
  <2> QED
    BY <1>1, <1>2, <2>2, Innermost DEF Good
<1>9. /\ e.at \notin MarkAts \cup {"run", "push"} /\ f.at \notin {"run", "push"}
      /\ g.at \notin MarkAts \cup {"push"} /\ Fits(g)
      /\ Nothing.at \notin MarkAts \cup {"run", "push"} /\ Fits(Nothing)
  <2>1. e.at \notin MarkAts \cup {"run", "push"}
    BY <1>2 DEF MarkAts, SharedAts, OwnerAts
  <2> QED
    BY <1>7, <2>1, PlainFits, NothingIsPlain DEF PlainAts
<1>10. Fits(f)
  BY <1>5, <1>7 DEF Fits, FastAts, WaitAts, SyncAts, BarrierAts, HoldAts, FetchedAts, SharedAts
<1>11. sema \in [Calls -> {0, 1}]
  BY DEF Good, QueueTypes
<1>12. Listed(B)'
  <2>1. \A d \in Calls : sema'[d] = 1 => sema[d] = 1
    BY <1>3, <1>11
  <2> QED
    BY <1>3, <1>8, <1>9, <1>10, <2>1, ListedStill DEF Good
<1>13. \A d \in Calls \ {c} : (LetGo(d)' <=> LetGo(d)) /\ sema'[d] = sema[d]
  <2>1. \A d : Rooted(d)' <=> Rooted(d)
    BY <1>3 DEF Rooted
  <2>2. \A d \in Calls \ {c} : sema'[d] = sema[d]
    BY <1>3, <1>11
  <2> QED
    BY <1>8, <1>9, <2>1, <2>2, LetGoStays
<1>14. StepsAt(b, {c}) /\ Runs(b)' /\ Block(b)' = c
  BY <1>3, <1>7, <1>8, <1>9, <1>13, StepsAtTop DEF Good
<1>15. \A r \in Queues : b \notin Marked(MarkAts, r)
  BY <1>8, <1>9, MarksAtTop
<1>16. LetGo(c) /\ ~LetGo(c)'
  <2>1. c \in begun'
    BY <1>3
  <2> QED
    BY <1>2, <1>4, <2>1, BegunGone DEF LetGo
<1>17. Fr(b)'.at = "running_sub" /\ Fr(b)'.q = q
  BY <1>7, <1>8 DEF Steps, Makes
<1> QED
  BY <1>3, <1>4, <1>5, <1>8, <1>9, <1>12, <1>14, <1>15, <1>16, <1>17, LetGoBegins

\* A worker begins.
LEMMA Starts ==
    ASSUME QueueTypes, QueueTypes', NEW t \in Threads, stack[t] = <<>>, NEW b, b = <<t, 0>>
    PROVE  /\ b \in Pos /\ b[2] = 0
           /\ \A f : stack' = [stack EXCEPT ![t] = <<f>>] => Steps(b, Nothing, f, Nothing, Nothing)
           /\ \A f, g, h : stack' = [stack EXCEPT ![t] = <<h, g, f>>] => Steps(b, Nothing, f, g, h)
<1>1. b \in Pos /\ b[2] = 0
  BY DEF Pos
<1>2. \A fs : stack' = [stack EXCEPT ![t] = fs] => stack'[t] = fs /\ fs \in Seq(StackFrame)
  BY DEF QueueTypes
<1>3. ASSUME NEW f, stack' = [stack EXCEPT ![t] = <<f>>]
      PROVE  Steps(b, Nothing, f, Nothing, Nothing)
  <2>1. <<f>> \in Seq(StackFrame)
    BY <1>2, <1>3
  <2>2. PICK fs \in Seq(StackFrame) : fs = <<f>>
    BY <2>1
  <2>3. Len(fs) = 1 /\ Len(fs) <= 3 /\ fs[1] = f /\ stack' = [stack EXCEPT ![t] = fs]
    BY <1>3, <2>2
  <2> HIDE <2>2
  <2>4. /\ Makes(<<t, 0>>, IF Len(fs) > 0 THEN fs[Len(fs)] ELSE Nothing,
                           IF Len(fs) > 1 THEN fs[Len(fs) - 1] ELSE Nothing,
                           IF Len(fs) > 2 THEN fs[Len(fs) - 2] ELSE Nothing)
        /\ Fr(<<t, 0>>) = Nothing /\ Fr(Up(<<t, 0>>)) = Nothing /\ Fr(Up(Up(<<t, 0>>))) = Nothing
    BY <2>3, StackStarts
  <2>5. Makes(<<t, 0>>, f, Nothing, Nothing)
    BY <2>3, <2>4
  <2> QED
    BY <2>4, <2>5 DEF Steps
<1>4. ASSUME NEW f, NEW g, NEW h, stack' = [stack EXCEPT ![t] = <<h, g, f>>]
      PROVE  Steps(b, Nothing, f, g, h)
  <2>1. <<h, g, f>> \in Seq(StackFrame)
    BY <1>2, <1>4
  <2>2. PICK fs \in Seq(StackFrame) : fs = <<h, g, f>>
    BY <2>1
  <2>3. /\ Len(fs) = 3 /\ Len(fs) <= 3 /\ fs[1] = h /\ fs[2] = g /\ fs[3] = f
        /\ stack' = [stack EXCEPT ![t] = fs]
    BY <1>4, <2>2
  <2> HIDE <2>2
  <2>4. /\ Makes(<<t, 0>>, IF Len(fs) > 0 THEN fs[Len(fs)] ELSE Nothing,
                           IF Len(fs) > 1 THEN fs[Len(fs) - 1] ELSE Nothing,
                           IF Len(fs) > 2 THEN fs[Len(fs) - 2] ELSE Nothing)
        /\ Fr(<<t, 0>>) = Nothing /\ Fr(Up(<<t, 0>>)) = Nothing /\ Fr(Up(Up(<<t, 0>>))) = Nothing
    BY <2>3, StackStarts
  <2>5. Makes(<<t, 0>>, f, g, h)
    BY <2>3, <2>4
  <2> QED
    BY <2>4, <2>5 DEF Steps
<1> QED
  BY <1>1, <1>3, <1>4

\* What is left on the global queue's list.
LEMMA Taken ==
    ASSUME root \in Seq(Objects), root # <<>>, NEW o, o = Head(root), root' = Tail(root)
    PROVE  /\ \A c : c # o => (Rooted(c)' <=> Rooted(c))
           /\ Rooted(o) /\ o \in Objects /\ 1 \in 1 .. Len(root) /\ root[1] = o
           /\ \A i \in 1 .. Len(root') : \E j \in 1 .. Len(root) : root'[i] = root[j]
<1>1. /\ Len(root) \in Nat /\ Len(root) >= 1 /\ Len(root') = Len(root) - 1 /\ root[1] = o
      /\ \A i \in 1 .. Len(root') : root'[i] = root[i + 1]
  BY HeadTailProperties
<1>2. \A i \in 1 .. Len(root') : i + 1 \in 1 .. Len(root)
  BY <1>1
<1>3. ASSUME NEW c, c # o, NEW i \in 1 .. Len(root), root[i] = c
      PROVE  i - 1 \in 1 .. Len(root') /\ root'[i - 1] = c
  <2>1. i # 1 /\ i \in Nat
    BY <1>1, <1>3
  <2>2. i - 1 \in 1 .. Len(root') /\ i - 1 + 1 = i
    BY <1>1, <1>3, <2>1
  <2> QED
    BY <1>1, <1>3, <2>2
<1>4. ASSUME NEW c, c # o PROVE Rooted(c)' <=> Rooted(c)
  <2>1. ASSUME NEW i \in 1 .. Len(root'), root'[i] = c
        PROVE  \E j \in 1 .. Len(root) : root[j] = c
    BY <1>1, <1>2, <2>1
  <2>2. ASSUME NEW j \in 1 .. Len(root), root[j] = c
        PROVE  \E i \in 1 .. Len(root') : root'[i] = c
    BY <1>3, <1>4, <2>2
  <2> QED
    BY <2>1, <2>2 DEF Rooted
<1>5. 1 \in 1 .. Len(root)
  BY <1>1
<1> QED
  BY <1>1, <1>2, <1>4, <1>5 DEF Rooted

LEMMA TakeFromRootStays ==
    ASSUME NEW A \in SUBSET Objects, Good(A), QueueTypes', NEW B \in SUBSET A, Places(B)',
           NEW t \in Threads, TakeFromRoot(t)
    PROVE  Stays(B)
<1> USE DEF lists, counts, refs, blocks
<1>1. PICK b, o : b = <<t, 0>> /\ o = Head(root)
  OBVIOUS
<1>2. /\ stack[t] = <<>> /\ root # <<>> /\ root' = Tail(root)
      /\ UNCHANGED <<use, items_tail, items_head, next, ticket, running, suspend_cnt, sema, targetq, ended>>
  BY DEF TakeFromRoot
<1>3. /\ \A c : c # o => (Rooted(c)' <=> Rooted(c))
      /\ Rooted(o) /\ o \in Objects /\ 1 \in 1 .. Len(root) /\ root[1] = o
      /\ \A i \in 1 .. Len(root') : \E j \in 1 .. Len(root) : root'[i] = root[j]
  BY <1>1, <1>2, Taken DEF Good, QueueTypes
<1>4. /\ b \in Pos /\ b[2] = 0
      /\ \A f : stack' = [stack EXCEPT ![t] = <<f>>] => Steps(b, Nothing, f, Nothing, Nothing)
      /\ \A f, g, h : stack' = [stack EXCEPT ![t] = <<h, g, f>>] => Steps(b, Nothing, f, g, h)
  BY <1>1, <1>2, Starts DEF Good
<1>5. Lists(A) /\ Tickets(A) /\ AllFit
  BY DEF Good, Listed
<1>6. Lists(B)' /\ Tickets(B)'
  <2>1. \A i \in 1 .. Len(root') : root'[i] \in Calls => Free(root'[i])
    BY <1>3, <1>5 DEF Lists
  <2>2. Lists(B)'
    BY <1>2, <1>5, <2>1, ListsNow DEF Lists
  <2>3. Tickets(B)'
    BY <1>2, <1>5 DEF Tickets
  <2> QED
    BY <2>2, <2>3
<1>7. ASSUME NEW f, NEW g, NEW h, Steps(b, Nothing, f, g, h), Fits(f), Fits(g), Fits(h)
      PROVE  Listed(B)'
  BY <1>2, <1>5, <1>6, <1>7, FramesFit DEF Listed
<1>8. ASSUME NEW f, NEW g, NEW h, Steps(b, Nothing, f, g, h), NEW c \in Calls, c # o,
             f.at # "push", g.at # "push", h.at # "push"
      PROVE  LetGo(c)' <=> LetGo(c)
  BY <1>2, <1>3, <1>8, NothingIsPlain, LetGoStays
<1>9. Nothing.at = "none" /\ Nothing.at \notin MarkAts \cup {"run", "push"} /\ Fits(Nothing)
  BY PlainFits, NothingIsPlain
<1>10. CASE o \in Queues
  <2>1. PICK f : f = Drain("invoke", o, targetq[o], NULL, NULL)
    OBVIOUS
  <2>2. f.at = "invoke" /\ stack' = [stack EXCEPT ![t] = <<f>>] /\ begun' = begun
    BY <1>1, <1>10, <2>1 DEF TakeFromRoot, Drain
  <2>3. Steps(b, Nothing, f, Nothing, Nothing)
    BY <1>4, <2>2
  <2>4. f.at \notin MarkAts \cup {"run", "push"} /\ Fits(f)
    BY <2>2, PlainFits DEF PlainAts
  <2>5. \A c \in Calls : LetGo(c)' <=> LetGo(c)
    BY <1>8, <1>9, <1>10, <2>3, <2>4, RootAssumption
  <2>6. \A q \in Queues : SuspendedEnough(q)
    BY <1>2 DEF SuspendedEnough
  <2>7. RunInv' /\ CountInv' /\ (HandInv => HandInv')
    BY <1>2, <1>9, <2>2, <2>3, <2>4, <2>5, <2>6, IdleStep
  <2> QED
    BY <1>7, <1>9, <2>3, <2>4, <2>7 DEF Stays
<1>11. CASE o \notin Queues /\ U.q[o] = ROOT
  <2>1. o \in Calls
    BY <1>3, <1>11 DEF Objects
  <2>2. PICK f : f = Run(o)
    OBVIOUS
  <2>3. f.at = "run" /\ f.o = o
    BY <2>2 DEF Run
  <2>4. stack' = [stack EXCEPT ![t] = <<f>>] /\ begun' = begun \cup {o}
    <3>1. <<f>> \o <<>> = <<f>>
      BY Concatenations
    <3> QED
      BY <1>1, <1>11, <2>2, <3>1 DEF TakeFromRoot
  <2>5. Steps(b, Nothing, f, Nothing, Nothing)
    BY <1>4, <2>4
  <2>6. f.at \notin MarkAts \cup {"push"} /\ Fits(f)
    BY <2>3, PlainFits DEF PlainAts
  <2>7. \A c \in Calls : U.q[c] \in Queues => (LetGo(c)' <=> LetGo(c))
    BY <1>8, <1>9, <1>11, <2>5, <2>6, RootAssumption
  <2>8. \A q \in Queues : SuspendedEnough(q)
    BY <1>2 DEF SuspendedEnough
  <2>9. begun \subseteq begun' /\ \A c \in begun' \ begun : U.q[c] \notin Queues
    BY <1>11, <2>4, RootAssumption
  <2>10. RunInv' /\ CountInv' /\ (HandInv => HandInv')
    BY <1>2, <1>4, <1>9, <2>5, <2>6, <2>7, <2>8, <2>9, Idles DEF Good
  <2> QED
    BY <1>7, <1>9, <2>5, <2>6, <2>10 DEF Stays
<1>12. CASE o \notin Queues /\ U.q[o] # ROOT
  <2>1. PICK q : q = U.q[o]
    OBVIOUS
  <2>2. o \in Calls /\ q \in Queues
    <3>1. o \in Calls
      BY <1>3, <1>12 DEF Objects
    <3> QED
      BY <1>12, <2>1, <3>1, UseTypes DEF Good, IsUse
  <2>3. ~IsBarrier(o) /\ U.width[q] > 1
    <3>1. ~IsBarrier(o)
      BY <1>3, <1>5, <1>12, <2>2 DEF Lists, Free
    <3>2. U.width[q] # 1
      BY <2>1, <3>1 DEF IsBarrier
    <3>3. U.width[q] \in {1} \cup {2 * w : w \in 2 .. 64}
      BY <2>2, UseTypes DEF Good, IsUse
    <3> QED
      BY <3>1, <3>2, <3>3
  <2>4. PICK f, g, h : f = Frame("release", q, NULL) /\ g = Frame("running_sub", q, NULL) /\ h = Run(o)
    OBVIOUS
  <2>5. f.at = "release" /\ g.at = "running_sub" /\ g.q = q /\ h.at = "run" /\ h.o = o
    BY <2>4 DEF Frame, Run
  <2>6. stack' = [stack EXCEPT ![t] = <<h, g, f>>] /\ begun' = begun \cup {o}
    <3>1. <<h>> \o <<g, f>> = <<h, g, f>> /\ <<g>> \o <<f>> = <<g, f>>
      BY Concatenations
    <3>2. /\ begun' = begun \cup {o}
          /\ stack' = [stack EXCEPT ![t] = <<h>> \o (<<g>> \o <<f>>)]
      BY <1>1, <1>12, <2>1, <2>4 DEF TakeFromRoot, Release
    <3> QED
      BY <3>1, <3>2
  <2>7. Steps(b, Nothing, f, g, h)
    BY <1>4, <2>6
  <2>8. f.at \notin MarkAts \cup {"run", "push"} /\ Fits(f) /\ h.at \notin MarkAts \cup {"push"} /\ Fits(h)
    BY <2>5, PlainFits DEF PlainAts
  <2>9. Fits(g)
    BY <2>3, <2>5 DEF Fits, FastAts, WaitAts, SyncAts, BarrierAts, HoldAts, FetchedAts, SharedAts
  <2>10. Listed(B)'
    BY <1>7, <2>7, <2>8, <2>9
  <2>11. \A c \in Calls \ {o} : (LetGo(c)' <=> LetGo(c)) /\ sema'[c] = sema[c]
    BY <1>2, <1>8, <2>5, <2>7, <2>8
  <2>12. StepsAt(Up(b), {o}) /\ Runs(Up(b))' /\ Block(Up(b))' = o
    <3>1. begun \subseteq begun' /\ \A c \in begun : ticket'[c] = ticket[c]
      BY <1>2, <2>6
    <3> QED
      BY <1>2, <1>9, <2>5, <2>7, <2>8, <2>11, <3>1, StepsAtTop DEF Good
  <2>13. \A r \in Queues : Up(b) \notin Marked(MarkAts, r)
    BY <1>9, <2>7, MarksAtTop
  <2>14. LetGo(o) /\ ~LetGo(o)'
    <3>1. o \in begun'
      BY <2>6
    <3> QED
      BY <1>3, <2>2, <3>1, BegunGone DEF LetGo
  <2>15. Fr(Up(b))'.at = "running_sub" /\ Fr(Up(b))'.q = q
    BY <2>5, <2>7 DEF Steps, Makes
  <2> QED
    BY <1>2, <1>9, <2>1, <2>2, <2>3, <2>6, <2>7, <2>10, <2>12, <2>13, <2>14, <2>15, LetGoBegins
<1> QED
  BY <1>10, <1>11, <1>12
-----------------------------------------------------------------------------
(* Steps that find a queue idle, or give it back. *)

LEMMA OwnerStarts ==
    ASSUME NEW A \in SUBSET Objects, Good(A), NEW B \in SUBSET A,
           NEW b, NEW e, NEW f, NEW g, Steps(b, e, f, g, Nothing),
           NEW q \in Queues, e.at \notin MarkAts \cup {"run", "push"}, f.q = q,
           running[q] = 0, running' = [running EXCEPT ![q] = 1],
           \/ f.at = "drain" /\ g = Nothing /\ begun' = begun
           \/ /\ f.at = "unlock" /\ g.at = "run" /\ begun' = begun \cup {g.o}
              /\ g.o \in Calls /\ U.q[g.o] = q /\ U.op[g.o] \in SyncOps /\ ticket[g.o] = 0,
           SameLists, UNCHANGED <<use, targetq, root, ticket, suspend_cnt, sema, ended>>
    PROVE  Stays(B)
<1>1. /\ f.at \in OwnerAts /\ f.at \notin SharedAts \cup {"run", "push", "resume"} /\ Fits(f)
      /\ f.at \in {"drain", "unlock"}
  BY EmptyFits DEF OwnerAts, SharedAts, EmptyAts
<1>2. /\ Nothing.at \notin MarkAts \cup {"run", "push"} /\ Fits(Nothing) /\ Nothing.at = "none"
      /\ g.at \notin MarkAts \cup {"push"} /\ Fits(g)
  BY PlainFits, NothingIsPlain DEF PlainAts
<1>3. Listed(B)'
  BY <1>1, <1>2, ListedStill DEF Good
<1>4. \A d \in Calls : LetGo(d)' <=> LetGo(d)
  <2>1. \A d : Rooted(d)' <=> Rooted(d)
    BY DEF Rooted
  <2> QED
    BY <1>1, <1>2, <2>1, LetGoStays
<1>5. StepsAt(b, {}) /\ (Runs(b)' <=> g.at = "run") /\ Block(b)' = g.o
  <2>1. begun \subseteq begun'
    OBVIOUS
  <2> QED
    BY <1>1, <1>2, <1>4, <2>1, StepsAtTop DEF Good
<1>6. /\ running'[q] = 1 /\ \A r \in Queues \ {q} : running'[r] = running[r]
  BY DEF Good, RunningType
<1>7. /\ b \notin Marked(MarkAts, q) /\ b \in Owning(q)' /\ b \notin Sharing(q)' /\ b \notin Resuming(q)'
      /\ \A r \in Queues \ {q} : b \notin Marked(MarkAts, r) /\ b \notin Marked(MarkAts, r)'
  BY <1>1, MarksAtTop DEF Owning, Sharing, Resuming
<1>8. Fr(b)' = f
  BY DEF Steps, Makes
<1>9. ~Busy(b)'
  <2>1. f.at = "unlock" \/ ~Runs(b)'
    BY <1>2, <1>5
  <2> QED
    BY <1>1, <1>8, <2>1 DEF Busy
<1>10. /\ CountOf(q) => CountOf(q)'
       /\ CountOf(q) /\ HandOf(q) => HandOf(q)'
  BY <1>5, <1>6, <1>7, <1>9, OwnerComes DEF Good
<1>11. CountInv' /\ (HandInv => HandInv')
  BY <1>5, <1>6, <1>7, <1>10, OneQueue DEF Good
<1>12. RunInv'
  <2>1. CASE g = Nothing /\ begun' = begun
    BY <1>1, <1>2, <1>5, <2>1, NoneBegins DEF Good
  <2>2. CASE /\ f.at = "unlock" /\ g.at = "run" /\ begun' = begun \cup {g.o}
             /\ g.o \in Calls /\ U.q[g.o] = q /\ U.op[g.o] \in SyncOps /\ ticket[g.o] = 0
    <3>1. PICK c : c = g.o
      OBVIOUS
    <3>2. Beneath(f, c)'
      BY <2>2, <3>1, SameUse DEF Beneath
    <3>3. Beneath(Fr(b), c)' /\ Runs(b)' /\ Block(b)' = c
      BY <1>5, <1>8, <2>2, <3>1, <3>2 DEF Beneath
    <3> QED
      BY <1>5, <2>2, <3>1, <3>3, OneBegins DEF Good
  <2> QED
    BY <2>1, <2>2
<1> QED
  BY <1>3, <1>11, <1>12 DEF Stays

LEMMA InvokeTrylockStays ==
    ASSUME NEW A \in SUBSET Objects, Good(A), QueueTypes', NEW B \in SUBSET A, NEW t \in Threads,
           InvokeTrylock(t)
    PROVE  Stays(B)
<1> USE DEF lists, counts, refs, blocks
<1>1. PICK b, e, q : b = TopOf(t) /\ e = Top(t) /\ q = e.q
  OBVIOUS
<1>2. stack[t] # <<>> /\ e.at = "invoke_trylock"
  BY <1>1, AtTop DEF InvokeTrylock
<1>3. SameLists /\ UNCHANGED <<use, targetq, root, ticket, suspend_cnt, sema, begun, ended>>
  BY DEF InvokeTrylock, SameLists
<1>4. q \in Queues /\ e.at \notin MarkAts \cup {"run", "push", "link"}
  <2>1. q \in Queues
    BY <1>1, <1>2, OwnerTop DEF EmptyAts
  <2> QED
    BY <1>2, <2>1 DEF MarkAts, SharedAts, OwnerAts
<1>5. CASE running[q] = 0
  <2>1. running' = [running EXCEPT ![q] = 1] /\ Goto(t, "drain")
    BY <1>1, <1>5 DEF InvokeTrylock, NothingRuns
  <2>2. PICK f : Steps(b, e, f, Nothing, Nothing) /\ f.at = "drain" /\ f.q = q
    BY <1>1, <1>2, <1>4, <2>1, Goes DEF Good
  <2> QED
    BY <1>3, <1>4, <1>5, <2>1, <2>2, OwnerStarts
<1>6. CASE running[q] # 0
  <2>1. running' = running /\ Goto(t, "invoke_drop")
    BY <1>1, <1>6 DEF InvokeTrylock, NothingRuns
  <2>2. PICK f : Steps(b, e, f, Nothing, Nothing) /\ f.at = "invoke_drop"
    BY <1>1, <1>2, <1>4, <2>1, Goes DEF Good
  <2> QED
    BY <1>3, <1>4, <2>1, <2>2, PlainSteps, NothingIsPlain DEF PlainAts
<1> QED
  BY <1>5, <1>6

LEMMA BarrierSyncTrylockStays ==
    ASSUME NEW A \in SUBSET Objects, Good(A), QueueTypes', NEW B \in SUBSET A, NEW t \in Threads,
           BarrierSyncTrylock(t), running[Top(t).q] = 0
    PROVE  Stays(B)
<1> USE DEF lists, counts, refs, blocks
<1>1. PICK b, e, c, q : b = TopOf(t) /\ e = Top(t) /\ c = e.o /\ q = e.q
  OBVIOUS
<1>2. stack[t] # <<>> /\ e.at = "bsync_trylock"
  BY <1>1, AtTop DEF BarrierSyncTrylock
<1>3. PICK f, g : f = Frame("unlock", q, NULL) /\ g = Run(c)
  OBVIOUS
<1>4. f.at = "unlock" /\ f.q = q /\ g.at = "run" /\ g.o = c
  BY <1>3 DEF Frame, Run
<1>5. /\ SameLists /\ running' = [running EXCEPT ![q] = 1] /\ begun' = begun \cup {c}
      /\ UNCHANGED <<use, targetq, root, ticket, suspend_cnt, sema, ended>>
      /\ Become(t, <<g>> \o <<f>>)
  BY <1>1, <1>3 DEF BarrierSyncTrylock, NothingRuns, SameLists, Begin
<1>6. Steps(b, e, f, g, Nothing)
  <2>1. <<g>> \o <<f>> = <<g, f>>
    BY Concatenations
  <2>2. Become(t, <<g, f>>)
    BY <1>5, <2>1
  <2> QED
    BY <1>1, <1>2, <2>2, Innermost DEF Good
<1>7. /\ b \in Pos /\ Fr(b) = e /\ c \in Calls /\ q \in Queues /\ U.q[c] = q /\ Fits(e)
  BY <1>1, <1>2, CallGoes DEF FastAts
<1>8. U.op[c] \in SyncOps
  BY <1>1, <1>2, <1>7 DEF Fits, BarrierAts
<1>9. ticket[c] = 0
  BY <1>1, <1>2, <1>7, AskedIsNew DEF FastAts
<1>10. e.at \notin MarkAts \cup {"run", "push"} /\ running[q] = 0
  BY <1>1, <1>2 DEF MarkAts, SharedAts, OwnerAts
<1> QED
  BY <1>4, <1>5, <1>6, <1>7, <1>8, <1>9, <1>10, OwnerStarts

LEMMA OwnerEnds ==
    ASSUME NEW A \in SUBSET Objects, Good(A), NEW B \in SUBSET A,
           NEW b, NEW e, NEW f, Steps(b, e, f, Nothing, Nothing),
           NEW q \in Queues, e.at \in OwnerAts, e.q = q,
           f.at \notin MarkAts \cup {"run"}, Fits(f), f.at = "push" => f.o \notin Calls,
           SameLists, running' = Plus(running, q, -1),
           UNCHANGED <<use, targetq, root, ticket, suspend_cnt, sema, begun, ended>>
    PROVE  Stays(B)
<1>1. /\ Nothing.at \notin MarkAts \cup {"run", "push"} /\ Fits(Nothing)
      /\ e.at \notin SharedAts \cup {"run", "push", "resume"}
  BY PlainFits, NothingIsPlain, OwnerAlone
<1>2. Listed(B)'
  BY <1>1, ListedStill DEF Good
<1>3. \A d \in Calls : LetGo(d)' <=> LetGo(d)
  <2>1. \A d : Rooted(d)' <=> Rooted(d)
    BY DEF Rooted
  <2>2. \A d \in Calls : \A x \in {e, f, Nothing} : x.at = "push" => x.o # d
    BY <1>1
  <2> QED
    BY <2>1, <2>2, LetGoStays
<1>4. StepsAt(b, {})
  BY <1>1, <1>3, StepsAtTop DEF Good
<1>5. /\ running'[q] = running[q] - 1 /\ \A r \in Queues \ {q} : running'[r] = running[r]
  BY DEF Good, RunningType, Plus
<1>6. /\ b \notin Marked(MarkAts, q)' /\ b \in Owning(q) /\ b \notin Sharing(q) /\ b \notin Resuming(q)
      /\ \A r \in Queues \ {q} : b \notin Marked(MarkAts, r) /\ b \notin Marked(MarkAts, r)'
  BY <1>1, MarksAtTop DEF Owning, Sharing, Resuming
<1>7. /\ CountOf(q) => CountOf(q)'
      /\ CountOf(q) /\ HandOf(q) => HandOf(q)'
  BY <1>4, <1>5, <1>6, OwnerGoes DEF Good
<1>8. CountInv' /\ (HandInv => HandInv')
  BY <1>4, <1>5, <1>6, <1>7, OneQueue DEF Good
<1>9. RunInv'
  BY <1>1, <1>4, NoneBegins DEF Good
<1> QED
  BY <1>2, <1>8, <1>9 DEF Stays

LEMMA UnlockStays ==
    ASSUME NEW A \in SUBSET Objects, Good(A), QueueTypes', NEW B \in SUBSET A, NEW t \in Threads,
           Unlock(t)
    PROVE  Stays(B)
<1> USE DEF lists, counts, refs, blocks
<1>1. PICK b, e, q : b = TopOf(t) /\ e = Top(t) /\ q = e.q
  OBVIOUS
<1>2. stack[t] # <<>> /\ e.at = "unlock"
  BY <1>1, AtTop DEF Unlock
<1>3. /\ SameLists /\ running' = Plus(running, q, -1)
      /\ UNCHANGED <<use, targetq, root, ticket, suspend_cnt, sema, begun, ended>>
  BY <1>1 DEF Unlock, GiveBack, SameLists
<1>4. q \in Queues
  BY <1>1, <1>2, Innermost, FrameKinds DEF Good, BareFrame, BareAts
<1>5. PICK w : w = Frame("wakeup", q, NULL)
  OBVIOUS
<1>6. w.at = "wakeup"
  BY <1>5 DEF Frame
<1>7. Become(t, <<w>>) \/ Become(t, <<>>)
  BY <1>1, <1>5 DEF Unlock, Wakeup
<1>8. Steps(b, e, w, Nothing, Nothing) \/ Steps(b, e, Nothing, Nothing, Nothing)
  BY <1>1, <1>2, <1>7, Innermost DEF Good
<1>9. /\ w.at \notin MarkAts \cup {"run", "push"} /\ Nothing.at \notin MarkAts \cup {"run", "push"}
      /\ Fits(w) /\ Fits(Nothing)
  BY <1>6, PlainFits, NothingIsPlain DEF PlainAts
<1>10. e.at \in OwnerAts
  BY <1>2 DEF OwnerAts
<1> QED
  BY <1>1, <1>3, <1>4, <1>8, <1>9, <1>10, OwnerEnds

LEMMA InvokeUnlockStays ==
    ASSUME NEW A \in SUBSET Objects, Good(A), QueueTypes', NEW B \in SUBSET A, NEW t \in Threads,
           InvokeUnlock(t)
    PROVE  Stays(B)
<1> USE DEF lists, counts, refs, blocks
<1>1. PICK b, e, q : b = TopOf(t) /\ e = Top(t) /\ q = e.q
  OBVIOUS
<1>2. stack[t] # <<>> /\ e.at = "invoke_unlock"
  BY <1>1, AtTop DEF InvokeUnlock
<1>3. /\ SameLists /\ running' = Plus(running, q, -1)
      /\ UNCHANGED <<use, targetq, root, ticket, suspend_cnt, sema, begun, ended>>
  BY <1>1 DEF InvokeUnlock, GiveBack, SameLists
<1>4. q \in Queues /\ q \notin Calls
  BY <1>1, <1>2, OwnerTop, RootAssumption DEF EmptyAts
<1>5. e.at \in OwnerAts /\ e.at \notin {"run", "link"}
  BY <1>2 DEF OwnerAts
<1>6. PICK f : /\ Steps(b, e, f, Nothing, Nothing) /\ Fits(f)
               /\ f.at \notin MarkAts \cup {"run"} /\ (f.at = "push" => f.o = q)
  <2>1. CASE Goto(t, "invoke_drop")
    <3>1. PICK f : Steps(b, e, f, Nothing, Nothing) /\ f.at = "invoke_drop"
      BY <1>1, <1>2, <1>5, <2>1, Goes DEF Good
    <3> QED
      BY <3>1, PlainFits DEF PlainAts
  <2>2. CASE Become(t, Push(targetq[q], q))
    <3>1. PICK f : f = Frame("push", targetq[q], q)
      OBVIOUS
    <3>2. f.at = "push" /\ f.q = targetq[q] /\ f.o = q
      BY <3>1 DEF Frame
    <3>3. Fits(f)
      BY <1>4, <3>2
         DEF Home, Fits, FastAts, WaitAts, SyncAts, BarrierAts, HoldAts, FetchedAts, SharedAts
    <3>4. Steps(b, e, f, Nothing, Nothing)
      BY <1>1, <1>2, <2>2, <3>1, Innermost DEF Good, Push
    <3> QED
      BY <3>2, <3>3, <3>4 DEF MarkAts, SharedAts, OwnerAts
  <2> QED
    BY <1>1, <2>1, <2>2 DEF InvokeUnlock, NewTarget
<1> QED
  BY <1>1, <1>3, <1>4, <1>5, <1>6, OwnerEnds

LEMMA BarrierSyncWaitStays ==
    ASSUME NEW A \in SUBSET Objects, Good(A), QueueTypes', NEW B \in SUBSET A, Places(B)',
           NEW t \in Threads, BarrierSyncWait(t)
    PROVE  Stays(B)
<1> USE DEF lists, counts, refs, blocks
<1>1. PICK b, e, c, q : b = TopOf(t) /\ e = Top(t) /\ c = e.o /\ q = e.q
  OBVIOUS
<1>2. stack[t] # <<>> /\ e.at = "bsync_wait" /\ sema[c] = 1
  BY <1>1, AtTop DEF BarrierSyncWait
<1>3. /\ SameLists /\ sema' = [sema EXCEPT ![c] = 0] /\ begun' = begun \cup {c}
      /\ UNCHANGED <<use, targetq, root, ticket, running, suspend_cnt, ended>>
  BY <1>1 DEF BarrierSyncWait, SameLists, Begin
<1>4. /\ b \in Pos /\ Fr(b) = e /\ c \in Calls /\ q \in Queues /\ U.q[c] = q /\ Fits(e)
  BY <1>1, <1>2, CallGoes DEF WaitAts
<1>5. U.op[c] \in SyncOps /\ IsBarrier(c) /\ ticket[c] > 0
  <2>1. U.op[c] \in SyncOps /\ IsBarrier(c)
    BY <1>1, <1>2, <1>4 DEF Fits, BarrierAts
  <2> QED
    BY <1>2, <1>4, <2>1 DEF Good, Listed, Tickets
<1>6. PICK f, g : f = Frame("resume", q, NULL) /\ g = Run(c)
  OBVIOUS
<1>7. f.at = "resume" /\ f.q = q /\ g.at = "run" /\ g.o = c
  BY <1>6 DEF Frame, Run
<1>8. Steps(b, e, f, g, Nothing)
  <2>1. <<g>> \o <<f>> = <<g, f>>
    BY Concatenations
  <2>2. Become(t, <<g, f>>)
    BY <1>1, <1>6, <2>1 DEF BarrierSyncWait, Begin
  <2> QED
    BY <1>1, <1>2, <2>2, Innermost DEF Good
<1>9. /\ e.at \notin MarkAts \cup {"run", "push"} /\ f.at \notin {"run", "push"} /\ Fits(f)
      /\ g.at \notin MarkAts \cup {"push"} /\ Fits(g)
      /\ Nothing.at \notin MarkAts \cup {"run", "push"} /\ Fits(Nothing)
  <2>1. e.at \notin MarkAts \cup {"run", "push"}
    BY <1>2 DEF MarkAts, SharedAts, OwnerAts
  <2> QED
    BY <1>7, <2>1, PlainFits, EmptyFits, NothingIsPlain DEF PlainAts
<1>10. sema \in [Calls -> {0, 1}]
  BY DEF Good, QueueTypes
<1>11. Listed(B)'
  <2>1. \A d \in Calls : sema'[d] = 1 => sema[d] = 1
    BY <1>3, <1>10
  <2> QED
    BY <1>3, <1>8, <1>9, <2>1, ListedStill DEF Good
<1>12. (\A d \in Calls \ {c} : (LetGo(d)' <=> LetGo(d)) /\ sema'[d] = sema[d]) /\ sema'[c] = 0
  <2>1. \A d : Rooted(d)' <=> Rooted(d)
    BY <1>3 DEF Rooted
  <2>2. (\A d \in Calls \ {c} : sema'[d] = sema[d]) /\ sema'[c] = 0
    BY <1>3, <1>4, <1>10
  <2> QED
    BY <1>8, <1>9, <2>1, <2>2, LetGoStays
<1>13. StepsAt(b, {c}) /\ Runs(b)' /\ Block(b)' = c
  BY <1>3, <1>7, <1>8, <1>9, <1>12, StepsAtTop DEF Good
<1>14. Fr(b)' = f
  BY <1>8 DEF Steps, Makes
<1>15. /\ b \notin Marked(MarkAts, q) /\ b \notin Sharing(q)' /\ b \notin Owning(q)' /\ b \in Resuming(q)'
       /\ \A r \in Queues \ {q} : b \notin Marked(MarkAts, r) /\ b \notin Marked(MarkAts, r)'
  <2>1. "resume" \notin SharedAts \cup OwnerAts
    BY DEF SharedAts, OwnerAts
  <2> QED
    BY <1>7, <1>8, <1>9, <2>1, MarksAtTop DEF Owning, Sharing, Resuming
<1>16. /\ c \notin Letting(q) /\ c \notin Letting(q)' /\ c \in Handed(q) /\ c \notin Handed(q)'
  <2>1. U' = U /\ (IsBarrier(c)' <=> IsBarrier(c))
    BY <1>3, SameUse
  <2> QED
    BY <1>2, <1>4, <1>5, <1>12, <2>1 DEF Letting, Handed
<1>17. /\ CountOf(q) => CountOf(q)'
       /\ CountOf(q) /\ HandOf(q) => HandOf(q)'
  BY <1>3, <1>4, <1>13, <1>15, <1>16, HandTaken DEF Good
<1>18. CountInv' /\ (HandInv => HandInv')
  BY <1>3, <1>4, <1>13, <1>15, <1>17, OneQueue DEF Good
<1>19. RunInv'
  <2>1. Beneath(f, c)'
    BY <1>3, <1>4, <1>5, <1>7, SameUse DEF Beneath
  <2>2. Beneath(Fr(b), c)'
    BY <1>14, <2>1 DEF Beneath
  <2> QED
    BY <1>3, <1>8, <1>9, <1>13, <2>2, OneBegins DEF Good
<1> QED
  BY <1>11, <1>18, <1>19 DEF Stays

LEMMA BarrierSyncResumeStays ==
    ASSUME NEW A \in SUBSET Objects, Good(A), QueueTypes', NEW B \in SUBSET A, NEW t \in Threads,
           BarrierSyncResume(t)
    PROVE  Stays(B)
<1> USE DEF lists, counts, refs, blocks
<1>1. PICK b, e, q : b = TopOf(t) /\ e = Top(t) /\ q = e.q
  OBVIOUS
<1>2. stack[t] # <<>> /\ e.at = "resume"
  BY <1>1, AtTop DEF BarrierSyncResume
<1>3. /\ SameLists /\ suspend_cnt' = Plus(suspend_cnt, q, -2)
      /\ UNCHANGED <<use, targetq, root, ticket, running, sema, begun, ended>>
  BY <1>1 DEF BarrierSyncResume, dispatch_resume, SameLists
<1>4. q \in Queues
  BY <1>1, <1>2, Innermost, FrameKinds DEF Good, BareFrame, BareAts
<1>5. PICK f : Steps(b, e, f, Nothing, Nothing) /\ f.at \in {"wakeup", "none"}
  <2>1. PICK w : w = Frame("wakeup", q, NULL)
    OBVIOUS
  <2>2. w.at = "wakeup"
    BY <2>1 DEF Frame
  <2>3. Become(t, <<w>>) \/ Become(t, <<>>)
    BY <1>1, <2>1 DEF BarrierSyncResume, WakeupByLast, Wakeup
  <2> QED
    BY <1>1, <1>2, <2>2, <2>3, Innermost, NothingIsPlain DEF Good
<1>6. /\ f.at \notin MarkAts \cup {"run", "push"} /\ Nothing.at \notin MarkAts \cup {"run", "push"}
      /\ Fits(f) /\ Fits(Nothing) /\ e.at \notin {"run", "push"} /\ e.at \notin SharedAts \cup OwnerAts
  BY <1>2, <1>5, PlainFits, NothingIsPlain DEF PlainAts, SharedAts, OwnerAts
<1>7. Listed(B)'
  BY <1>3, <1>5, <1>6, ListedStill DEF Good
<1>8. \A d \in Calls : LetGo(d)' <=> LetGo(d)
  <2>1. \A d : Rooted(d)' <=> Rooted(d)
    BY <1>3 DEF Rooted
  <2> QED
    BY <1>3, <1>5, <1>6, <2>1, LetGoStays
<1>9. StepsAt(b, {})
  BY <1>3, <1>5, <1>6, <1>8, StepsAtTop DEF Good
<1>10. /\ suspend_cnt'[q] = suspend_cnt[q] - 2 /\ suspend_cnt[q] \in Int
       /\ \A r \in Queues \ {q} : suspend_cnt'[r] = suspend_cnt[r]
  BY <1>3, <1>4 DEF Good, QueueTypes, Plus
<1>11. /\ b \notin Marked(MarkAts, q)' /\ b \notin Owning(q) /\ b \notin Sharing(q) /\ b \in Resuming(q)
       /\ \A r \in Queues \ {q} : b \notin Marked(MarkAts, r) /\ b \notin Marked(MarkAts, r)'
  BY <1>1, <1>2, <1>5, <1>6, MarksAtTop DEF Owning, Sharing, Resuming
<1>12. /\ CountOf(q) => CountOf(q)'
       /\ CountOf(q) /\ HandOf(q) => HandOf(q)'
  BY <1>3, <1>4, <1>9, <1>10, <1>11, HandBack DEF Good
<1>13. CountInv' /\ (HandInv => HandInv')
  BY <1>3, <1>4, <1>9, <1>10, <1>11, <1>12, OneQueue DEF Good
<1>14. RunInv'
  BY <1>3, <1>5, <1>6, <1>9, NoneBegins DEF Good
<1> QED
  BY <1>7, <1>13, <1>14 DEF Stays
-----------------------------------------------------------------------------
(* Every step, and the start. *)

LEMMA CountsAreNumbers ==
    ASSUME RunningType, NEW t \in Threads, Step(t)
    PROVE  RunningType'
<1> USE DEF counts
<1>1. \A q \in Queues, n \in Int : Plus(running, q, n) \in [Queues -> Int]
  BY DEF Plus, RunningType
<1>2. \A q \in Queues : [running EXCEPT ![q] = 1] \in [Queues -> Int]
  BY DEF RunningType
<1>3. \A q : q \notin Queues => /\ [running EXCEPT ![q] = 1] = running
                               /\ \A n \in Int : Plus(running, q, n) = running
  BY DEF Plus, RunningType
<1>4. \/ running' = running
      \/ \E q, n : n \in Int /\ running' = Plus(running, q, n)
      \/ \E q : running' = [running EXCEPT ![q] = 1]
  <2>1. CASE Submit(t)
    BY <2>1 DEF Submit, dispatch_async_f, dispatch_set_target_queue, dispatch_sync_f,
                dispatch_suspend, Resume, dispatch_resume, dispatch_release, EndBlock
  <2>2. CASE Enlist(t)
    BY <2>2 DEF Enlist, PushOnRoot, ExchangeTail, LinkPrevious, PublishHead,
                WakeupUnlessSuspended, WakeupUnlessEmpty, WakeupTrylock, ReleaseReference
  <2>3. CASE Sync(t)
    <3>1. CASE SyncAdd(t) \/ SyncBackOut(t) \/ RunningSub(t) \/ Unlock(t)
      BY <3>1 DEF SyncAdd, SyncBackOut, RunningSub, Unlock, GiveBack
    <3>2. CASE BarrierSyncTrylock(t)
      BY <3>2 DEF BarrierSyncTrylock
    <3>3. CASE SyncUnlessSuspended(t) \/ SyncWait(t) \/ BarrierSyncUnlessSuspended(t)
               \/ BarrierSyncWait(t) \/ BarrierSyncResume(t)
      BY <3>3 DEF SyncUnlessSuspended, SyncWait, BarrierSyncUnlessSuspended, BarrierSyncWait,
                  BarrierSyncResume, dispatch_resume
    <3> QED
      BY <2>3, <3>1, <3>2, <3>3 DEF Sync
  <2>4. CASE Invoke(t)
    <3>1. CASE InvokeTrylock(t)
      BY <3>1 DEF InvokeTrylock
    <3>2. CASE Redirect(t) \/ InvokeUnlock(t)
      BY <3>2 DEF Redirect, Counted, InvokeUnlock, GiveBack
    <3>3. CASE \/ InvokeUnlessSuspended(t) \/ DrainUntilEmpty(t) \/ DrainHead(t) \/ DrainNext(t)
               \/ DrainUnlessSuspended(t) \/ DrainUnlessFull(t) \/ DrainUnlessShared(t)
      BY <3>3 DEF InvokeUnlessSuspended, DrainUntilEmpty, DrainHead, DrainNext,
                  DrainUnlessSuspended, DrainUnlessFull, DrainUnlessShared
    <3>4. CASE \/ PopBlock(t) \/ PopQueue(t) \/ PopSetTarget(t) \/ PopBarrierSync(t) \/ Undo(t)
               \/ UndoHead(t) \/ UndoInFront(t) \/ InvokeDropLock(t) \/ InvokeVerifyIdle(t)
      BY <3>4 DEF PopBlock, PopQueue, PopSetTarget, PopBarrierSync, Undo, UndoHead, UndoInFront,
                  InvokeDropLock, InvokeVerifyIdle
    <3> QED
      BY <2>4, <3>1, <3>2, <3>3, <3>4 DEF Invoke
  <2>5. CASE TakeFromRoot(t)
    BY <2>5 DEF TakeFromRoot
  <2> QED
    BY <2>1, <2>2, <2>3, <2>4, <2>5 DEF Step
<1>5. CASE running' = running
  BY <1>5 DEF RunningType
<1>6. ASSUME NEW q, NEW n \in Int, running' = Plus(running, q, n)
      PROVE  RunningType'
  <2>1. CASE q \in Queues
    BY <1>1, <1>6, <2>1 DEF RunningType
  <2>2. CASE q \notin Queues
    BY <1>3, <1>6, <2>2 DEF RunningType
  <2> QED
    BY <2>1, <2>2
<1>7. ASSUME NEW q, running' = [running EXCEPT ![q] = 1]
      PROVE  RunningType'
  <2>1. CASE q \in Queues
    BY <1>2, <1>7, <2>1 DEF RunningType
  <2>2. CASE q \notin Queues
    BY <1>3, <1>7, <2>2 DEF RunningType
  <2> QED
    BY <2>1, <2>2
<1> QED
  BY <1>4, <1>5, <1>6, <1>7

LEMMA AtFirst == Init => Good({}) /\ HandInv
<1> SUFFICES ASSUME Init PROVE Good({}) /\ HandInv
  OBVIOUS
<1>1. QueueTypes /\ Places({}) /\ RunningType
  BY InitPlaces DEF RunningType, Init
<1>2. \A p \in Pos : Fr(p).at \in {"none", "run"} /\ (p[2] # 0 => Fr(p).at = "none")
  BY InitFrames, NothingIsPlain
<1>3. \A ats, q : ats \cap {"none", "run"} = {} => Marked(ats, q) = {}
  BY <1>2 DEF Marked
<1>4. \A q : Sharing(q) = {} /\ Owning(q) = {} /\ Resuming(q) = {}
  <2>1. SharedAts \cap {"none", "run"} = {} /\ OwnerAts \cap {"none", "run"} = {}
        /\ {"resume"} \cap {"none", "run"} = {}
    BY DEF SharedAts, OwnerAts
  <2> QED
    BY <1>3, <2>1 DEF Sharing, Owning, Resuming
<1>5. \A c \in Calls : sema[c] = 0 /\ ticket[c] = 0 /\ ~LetGo(c)
  <2>1. \A c : ~Rooted(c)
    BY DEF Rooted, Init
  <2>2. \A c : ~Pushed(c)
    BY <1>2 DEF Pushed
  <2> QED
    BY <2>1, <2>2 DEF LetGo, Init
<1>6. \A q : Letting(q) = {} /\ Handed(q) = {}
  BY <1>5 DEF Letting, Handed
<1>7. \A q : Shares(q) = {} /\ Hands(q) = {}
  BY <1>4, <1>6 DEF Shares, Hands, Both
<1>8. Listed({})
  <2>1. \A p \in Pos : Fr(p).at \in PlainAts
    BY <1>2, NothingIsPlain DEF PlainAts
  <2>2. AllFit
    BY <2>1, PlainFits DEF AllFit
  <2>3. Lists({})
    BY DEF Lists, Init
  <2>4. Tickets({})
    <3>1. {c \in Calls : ticket[c] > 0} = {}
      BY <1>5
    <3>2. IsFiniteSet({c \in Calls : ticket[c] > 0})
      BY <3>1, FS_EmptySet
    <3>3. ticket \in [Calls -> Nat]
      BY DEF Init
    <3> QED
      BY <1>5, <3>2, <3>3 DEF Tickets
  <2> QED
    BY <2>2, <2>3, <2>4 DEF Listed
<1>9. RunInv
  <2>1. \A p \in Pos : ~Runs(p)
    BY <1>2, UpApart DEF Runs
  <2> QED
    BY <2>1 DEF RunInv, Init
<1>10. CountInv
  <2>1. IsFiniteSet({}) /\ Cardinality({}) = 0
    BY FS_EmptySet
  <2>2. \A q \in Queues : running[q] = 0
    BY DEF Init
  <2> QED
    BY <1>4, <1>7, <2>1, <2>2 DEF CountInv, CountOf
<1>11. HandInv
  <2>1. \A q \in Queues : suspend_cnt[q] = 0
    BY DEF Init
  <2> QED
    BY <1>4, <1>7, <2>1 DEF HandInv, HandOf
<1> QED
  BY <1>1, <1>8, <1>9, <1>10, <1>11 DEF Good

LEMMA StepStays ==
    ASSUME NEW A \in SUBSET Objects, Good(A), NEW t \in Threads, Step(t)
    PROVE  \E B \in SUBSET Objects : Good(B)' /\ (HandInv /\ OwnResumes => HandInv')
<1>1. QueueTypes' /\ \E B \in SUBSET Objects : Relists(t, A, B) /\ Places(B)'
  BY EveryStep DEF Good
<1>2. PICK B \in SUBSET Objects : Relists(t, A, B) /\ Places(B)'
  BY <1>1
<1>3. ASSUME NEW at, At(t, at), at \notin {"push", "undo", "undo_wait"} PROVE B \in SUBSET A
  BY <1>2, <1>3 DEF Relists, ExchangeTail, Undo, UndoInFront, At
<1>4. RunningType'
  BY CountsAreNumbers DEF Good
<1>5. Stays(B)
  <2>1. CASE Submit(t)
    <3>1. B \in SUBSET A
      BY <1>3, <2>1 DEF Submit, dispatch_async_f, dispatch_set_target_queue, dispatch_sync_f,
                        dispatch_suspend, Resume, dispatch_release, EndBlock, Calling
    <3>2. CASE EndBlock(t)
      BY <1>1, <3>1, <3>2, EndActions
    <3>3. CASE ~EndBlock(t)
      BY <1>1, <2>1, <3>1, <3>3, CallActions
    <3> QED
      BY <3>2, <3>3
  <2>2. CASE Enlist(t)
    <3>1. CASE PushOnRoot(t)
      <4>1. B \in SUBSET A
        BY <1>2, <3>1 DEF Relists, PushOnRoot, ExchangeTail, Undo, UndoInFront, At
      <4> QED
        BY <1>1, <3>1, <4>1, PushOnRootStays
    <3>2. CASE ExchangeTail(t)
      <4>1. B \subseteq A \cup {Top(t).o}
        BY <1>2 DEF Relists
      <4> QED
        BY <1>1, <3>2, <4>1, ExchangeTailStays
    <3>3. CASE LinkPrevious(t)
      <4>1. B \in SUBSET A
        BY <1>3, <3>3 DEF LinkPrevious
      <4> QED
        BY <1>1, <3>3, <4>1, LinkPreviousStays
    <3>4. CASE PublishHead(t)
      <4>1. B \in SUBSET A
        BY <1>3, <3>4 DEF PublishHead
      <4> QED
        BY <1>1, <3>4, <4>1, PublishHeadStays
    <3>5. CASE WakeupTrylock(t)
      <4>1. B \in SUBSET A
        BY <1>3, <3>5 DEF WakeupTrylock
      <4> QED
        BY <1>1, <3>5, <4>1, WakeupTrylockStays
    <3>6. CASE WakeupUnlessSuspended(t) \/ WakeupUnlessEmpty(t) \/ ReleaseReference(t)
      <4>1. B \in SUBSET A
        BY <1>3, <3>6 DEF WakeupUnlessSuspended, WakeupUnlessEmpty, ReleaseReference
      <4> QED
        BY <1>1, <3>6, <4>1, PlainActions
    <3> QED
      BY <2>2, <3>1, <3>2, <3>3, <3>4, <3>5, <3>6 DEF Enlist
  <2>3. CASE Sync(t)
    <3>1. B \in SUBSET A
      BY <1>3, <2>3 DEF Sync, SyncUnlessSuspended, SyncAdd, SyncBackOut, SyncWait, RunningSub,
                        BarrierSyncUnlessSuspended, BarrierSyncTrylock, Unlock, BarrierSyncWait,
                        BarrierSyncResume
    <3>2. CASE SyncAdd(t) \/ SyncBackOut(t) \/ RunningSub(t)
      BY <1>1, <3>1, <3>2, SyncAddStays, SyncBackOutStays, RunningSubStays
    <3>3. CASE SyncWait(t) \/ BarrierSyncWait(t)
      BY <1>1, <1>2, <3>1, <3>3, SyncWaitStays, BarrierSyncWaitStays
    <3>4. CASE BarrierSyncTrylock(t) /\ running[Top(t).q] = 0
      BY <1>1, <3>1, <3>4, BarrierSyncTrylockStays
    <3>5. CASE \/ SyncUnlessSuspended(t) \/ BarrierSyncUnlessSuspended(t)
               \/ BarrierSyncTrylock(t) /\ running[Top(t).q] # 0
      BY <1>1, <3>1, <3>5, WaitActions
    <3>6. CASE Unlock(t) \/ BarrierSyncResume(t)
      BY <1>1, <3>1, <3>6, UnlockStays, BarrierSyncResumeStays
    <3> QED
      BY <2>3, <3>2, <3>3, <3>4, <3>5, <3>6 DEF Sync
  <2>4. CASE Invoke(t)
    <3>1. CASE Undo(t) \/ UndoHead(t) \/ UndoInFront(t)
      <4>1. B \subseteq A \cup {Top(t).o}
        BY <1>2 DEF Relists
      <4>2. UndoHead(t) => B \subseteq A
        BY <1>3 DEF UndoHead
      <4> QED
        BY <1>1, <3>1, <4>1, <4>2, UndoActions
    <3>2. CASE \/ InvokeUnlessSuspended(t) \/ InvokeTrylock(t) \/ InvokeUnlock(t)
               \/ InvokeDropLock(t) \/ InvokeVerifyIdle(t)
      <4>1. B \in SUBSET A
        BY <1>3, <3>2 DEF InvokeUnlessSuspended, InvokeTrylock, InvokeUnlock, InvokeDropLock,
                          InvokeVerifyIdle
      <4>2. CASE InvokeUnlessSuspended(t) \/ InvokeVerifyIdle(t)
        BY <1>1, <4>1, <4>2, PlainActions
      <4>3. CASE InvokeTrylock(t) \/ InvokeUnlock(t) \/ InvokeDropLock(t)
        BY <1>1, <4>1, <4>3, InvokeTrylockStays, InvokeUnlockStays, InvokeDropLockStays
      <4> QED
        BY <3>2, <4>2, <4>3
    <3>3. CASE \/ DrainUntilEmpty(t) \/ DrainHead(t) \/ DrainNext(t) \/ DrainUnlessSuspended(t)
               \/ DrainUnlessFull(t) \/ DrainUnlessShared(t)
      <4>1. B \in SUBSET A
        BY <1>3, <3>3 DEF DrainUntilEmpty, DrainHead, DrainNext, DrainUnlessSuspended,
                          DrainUnlessFull, DrainUnlessShared
      <4> QED
        BY <1>1, <3>3, <4>1, DrainActions, DrainHeadStays, DrainNextStays
    <3>4. CASE PopBlock(t) \/ PopQueue(t) \/ PopSetTarget(t) \/ PopBarrierSync(t) \/ Redirect(t)
      <4>1. B \in SUBSET A
        BY <1>3, <3>4 DEF PopBlock, PopQueue, PopSetTarget, PopBarrierSync, Redirect, MayPop
      <4> QED
        BY <1>1, <3>4, <4>1, PopBlockStays, PopQueueStays, PopSetTargetStays, PopBarrierSyncStays,
           RedirectStays
    <3> QED
      BY <2>4, <3>1, <3>2, <3>3, <3>4 DEF Invoke
  <2>5. CASE TakeFromRoot(t)
    <3>1. B \in SUBSET A
      BY <1>2, <2>5 DEF Relists, TakeFromRoot, ExchangeTail, Undo, UndoInFront, At
    <3> QED
      BY <1>1, <1>2, <2>5, <3>1, TakeFromRootStays
  <2> QED
    BY <2>1, <2>2, <2>3, <2>4, <2>5 DEF Step
<1>6. Good(B)'
  BY <1>1, <1>2, <1>4, <1>5 DEF Good, Stays
<1>7. HandInv /\ OwnResumes => HandInv'
  BY <1>5 DEF Stays
<1> QED
  BY <1>6, <1>7

LEMMA StutterStays ==
    ASSUME NEW A \in SUBSET Objects, Good(A), UNCHANGED vars
    PROVE  Good(A)' /\ (HandInv => HandInv')
<1>1. /\ UNCHANGED <<use, items_tail, items_head, next, root, ticket, running, suspend_cnt, sema>>
      /\ UNCHANGED <<targetq, stack, begun, ended>>
  BY DEF vars, lists, counts, refs, blocks
<1>2. QueueTypes' /\ Places(A)' /\ RunningType'
  BY <1>1, Stutters DEF Good, RunningType
<1>3. U' = U /\ \A p : Fr(p)' = Fr(p)
  BY <1>1 DEF U, Fr
<1>4. Listed(A)'
  <2>1. (\A o : Home(o)' = Home(o)) /\ \A c : (Free(c)' <=> Free(c))
    BY <1>1, <1>3 DEF Home, Free, IsBarrier
  <2>2. \A p \in Pos : Fits(Fr(p))'
    BY <1>1, <1>3 DEF Good, Listed, AllFit, Fits, Home, Free, IsBarrier
  <2>3. AllFit'
    BY <2>2 DEF AllFit
  <2>4. Lists(A)'
    BY <1>1, <2>1 DEF Good, Listed, Lists
  <2>5. Tickets(A)'
    BY <1>1 DEF Good, Listed, Tickets
  <2> QED
    BY <2>3, <2>4, <2>5 DEF Listed
<1>5. /\ \A p : (Runs(p)' <=> Runs(p)) /\ Block(p)' = Block(p)
      /\ \A c : (IsBarrier(c)' <=> IsBarrier(c))
  BY <1>3 DEF Runs, Block, IsBarrier
<1>6. RunInv'
  <2>1. \A p, c : Beneath(Fr(p), c) => Beneath(Fr(p), c)'
    BY <1>1, <1>3, <1>5 DEF Beneath
  <2> QED
    BY <1>1, <1>3, <1>5, <2>1 DEF Good, RunInv
<1>7. \A ats, q : Marked(ats, q)' = Marked(ats, q)
  BY <1>3 DEF Marked
<1>8. \A q : Sharing(q)' = Sharing(q) /\ Owning(q)' = Owning(q) /\ Resuming(q)' = Resuming(q)
  BY <1>7 DEF Sharing, Owning, Resuming
<1>9. \A c : (LetGo(c)' <=> LetGo(c))
  BY <1>1, <1>3 DEF LetGo, Pushed, Rooted
<1>10. \A q : Letting(q)' = Letting(q) /\ Handed(q)' = Handed(q)
  BY <1>1, <1>3, <1>5, <1>9 DEF Letting, Handed
<1>11. \A q : Shares(q)' = Shares(q) /\ Hands(q)' = Hands(q)
  BY <1>8, <1>10 DEF Shares, Hands
<1>12. CountInv'
  BY <1>1, <1>8, <1>11 DEF Good, CountInv, CountOf
<1>13. HandInv => HandInv'
  <2>1. \A q : WaitedFor(q)' <=> WaitedFor(q)
    BY <1>3 DEF WaitedFor
  <2>2. \A q : (OnlyLooks(q)' <=> OnlyLooks(q))
    BY <1>3, <1>8, <1>10 DEF OnlyLooks
  <2>3. \A q : (OnlyFast(q)' <=> OnlyFast(q))
    BY <1>1, <1>3, <1>5, <1>8, <1>10 DEF OnlyFast, Fast
  <2>4. \A p : (Busy(p)' <=> Busy(p))
    BY <1>3, <1>5 DEF Busy
  <2> QED
    BY <1>1, <1>5, <1>8, <1>11, <2>1, <2>2, <2>3, <2>4 DEF HandInv, HandOf
<1> QED
  BY <1>2, <1>4, <1>6, <1>12, <1>13 DEF Good
-----------------------------------------------------------------------------
(* What follows. *)

LEMMA SharesKeepApart ==
    ASSUME RunInv, CountInv, HandInv
    PROVE  OverlapNeedsAHandOver
<1> SUFFICES ASSUME NEW q \in Queues, NEW c \in OnQueue(q), NEW d \in OnQueue(q),
                    c # d, IsBarrier(c), IsRunning(c), IsRunning(d)
             PROVE  \/ Fast(c) /\ HandedOver(d)
                    \/ Fast(d) /\ HandedOver(c)
  BY DEF OverlapNeedsAHandOver
<1>1. c \in Calls /\ d \in Calls /\ U.q[c] = q /\ U.q[d] = q
  BY DEF OnQueue
<1>2. PICK p \in Pos : Runs(p) /\ Block(p) = c
  BY <1>1 DEF RunInv, IsRunning
<1>3. PICK r \in Pos : Runs(r) /\ Block(r) = d
  BY <1>1 DEF RunInv, IsRunning
<1>4. p # r
  BY <1>2, <1>3
<1>5. Beneath(Fr(p), c) /\ Beneath(Fr(r), d)
  BY <1>2, <1>3 DEF RunInv
<1>6. Fr(p).q = q /\ Fr(r).q = q
  BY <1>1, <1>5 DEF Beneath
<1>7. HandOf(q) /\ \A s, v \in Owning(q) : s = v
  BY DEF HandInv, CountInv, CountOf
<1>8. /\ \/ p \in Owning(q) /\ (Fr(p).at = "unlock" => Fast(c))
         \/ p \in Resuming(q) /\ HandedOver(c)
      /\ \/ r \in Owning(q) /\ (Fr(r).at = "unlock" => Fast(d))
         \/ r \in Resuming(q) /\ HandedOver(d)
         \/ r \in Sharing(q) /\ Fr(r).at = "running_sub"
  BY <1>5, <1>6
     DEF Beneath, Owning, Resuming, Sharing, Marked, OwnerAts, SharedAts, SyncOps, Fast, HandedOver
<1>9. \A s \in Resuming(q) : <<"at", s>> \in Hands(q)
  BY BothSets DEF Hands
<1>10. (p \in Resuming(q) \/ r \in Resuming(q)) =>
          OnlyFast(q) /\ \A s \in Owning(q) : ~Busy(s)
  BY <1>7, <1>9 DEF HandOf
<1>11. \A s \in Owning(q) : Runs(s) /\ ~Busy(s) => Fr(s).at = "unlock"
  BY DEF Busy
<1>12. CASE p \in Owning(q) /\ (Fr(p).at = "unlock" => Fast(c))
  <2>1. OnlyLooks(q)
    BY <1>2, <1>7, <1>12 DEF HandOf
  <2>2. ~(r \in Sharing(q) /\ Fr(r).at = "running_sub") /\ r \notin Owning(q)
    BY <1>4, <1>7, <1>12, <2>1 DEF OnlyLooks
  <2>3. r \in Resuming(q) /\ HandedOver(d)
    BY <1>8, <2>2
  <2> QED
    BY <1>2, <1>10, <1>11, <1>12, <2>3
<1>13. CASE p \in Resuming(q) /\ HandedOver(c)
  <2>1. r \notin Resuming(q)
    BY <1>4, <1>7, <1>9, <1>13 DEF HandOf
  <2>2. CASE r \in Owning(q) /\ (Fr(r).at = "unlock" => Fast(d))
    BY <1>3, <1>10, <1>11, <1>13, <2>2
  <2>3. CASE r \in Sharing(q) /\ Fr(r).at = "running_sub"
    BY <1>3, <1>10, <1>13, <2>3 DEF OnlyFast
  <2> QED
    BY <1>8, <2>1, <2>2, <2>3
<1> QED
  BY <1>8, <1>12, <1>13

\* Some objects are where they belong, and dq_running counts who shares its queue.
SharesInv == \E listed \in SUBSET Objects : Good(listed)

LEMMA SharesStep ==
    ASSUME SharesInv, [Next]_vars
    PROVE  SharesInv' /\ (HandInv /\ OwnResumes => HandInv')
<1>1. PICK A \in SUBSET Objects : Good(A)
  BY DEF SharesInv
<1>2. CASE UNCHANGED vars
  BY <1>1, <1>2, StutterStays DEF SharesInv
<1>3. CASE Next
  <2>1. PICK t \in Threads : Step(t)
    BY <1>3 DEF Next
  <2>2. \E B \in SUBSET Objects : Good(B)' /\ (HandInv /\ OwnResumes => HandInv')
    BY <1>1, <2>1, StepStays
  <2> QED
    BY <2>2 DEF SharesInv
<1> QED
  BY <1>2, <1>3

LEMMA SharesAlways == Spec => []SharesInv
<1>1. Init => SharesInv
  BY AtFirst DEF SharesInv
<1>2. SharesInv /\ [Next]_vars => SharesInv'
  BY SharesStep
<1> QED
  BY <1>1, <1>2, PTL DEF Spec

\* dq_running is twice the number of blocks that share the queue, one more when a
\* drainer or a barrier has it, of which there is one at most; the blocks that run are
\* those of a share.  It is what SyncAdd, Redirect and their counterparts keep up.
THEOREM RunningCountsShares == Spec => [](RunInv /\ CountInv)
<1>1. SharesInv => RunInv /\ CountInv
  BY DEF SharesInv, Good
<1> QED
  BY <1>1, SharesAlways, PTL

\* dq_running, from which threads subtract what they think they added, is never
\* less than nothing.
THEOREM RunningNeverNegative == Spec => [](running \in [Queues -> Nat])
<1>1. SharesInv => running \in [Queues -> Nat]
  <2>1. SUFFICES ASSUME NEW A \in SUBSET Objects, Good(A)
                 PROVE  running \in [Queues -> Nat]
    BY DEF SharesInv
  <2>2. ASSUME NEW q \in Queues
        PROVE  running[q] \in Nat
    <3>1. CountOf(q)
      BY <2>1 DEF Good, CountInv
    <3>2. Cardinality(Shares(q)) \in Nat
      BY <3>1, FS_CardinalityType DEF CountOf
    <3> QED
      BY <3>1, <3>2 DEF CountOf
  <2> QED
    BY <2>1, <2>2 DEF Good, RunningType
<1> QED
  BY <1>1, SharesAlways, PTL

\* A block that should have its queue to itself overlaps another only when one found the
\* queue idle and the other was handed it, as long as a queue that is waited for is
\* resumed by who suspended it: dispatch_barrier_sync_f and the drain.
THEOREM OverlapsAreHandOvers == Spec /\ []OwnResumes => []OverlapNeedsAHandOver
<1>1. Init => SharesInv /\ HandInv
  BY AtFirst DEF SharesInv
<1>2. SharesInv /\ HandInv /\ OwnResumes /\ [Next]_vars => SharesInv' /\ HandInv'
  BY SharesStep
<1>3. SharesInv /\ HandInv => OverlapNeedsAHandOver
  BY SharesKeepApart DEF SharesInv, Good
<1> QED
  BY <1>1, <1>2, <1>3, PTL DEF Spec

\* No use resumes a queue that a call of it waits for.
ResumesApart ==
    \A n \in DOMAIN Uses : \A c, d \in Calls :
        Uses[n].op[c] = "resume" /\ Uses[n].op[d] \in SyncOps => Uses[n].q[c] # Uses[n].q[d]

\* The same for uses that never resume a queue whose blocks are waited for: nothing is
\* asked of what their threads do, or when.
THEOREM OverlapsWithoutResumes ==
    ASSUME ResumesApart
    PROVE  Spec => []OverlapNeedsAHandOver
<1>1. SharesInv => OwnResumes
  <2>1. SUFFICES ASSUME NEW A \in SUBSET Objects, Good(A), NEW t \in Threads, Calling(t, "resume"),
                        WaitedFor(U.q[This(t)])
                 PROVE  FALSE
    BY DEF SharesInv, OwnResumes
  <2>2. use \in DOMAIN Uses
    BY <2>1 DEF Good, QueueTypes
  <2>3. PICK d \in Calls : U.q[d] = U.q[This(t)] /\ U.op[d] \in SyncOps
    BY <2>1 DEF WaitedFor
  <2>4. This(t) \in Calls /\ U.op[This(t)] = "resume"
    <3>1. stack[t] # <<>> /\ Top(t).at = "run" /\ Top(t).rest # <<>> /\ U.op[This(t)] = "resume"
      BY <2>1, AtTop DEF Calling, This
    <3>2. Top(t) \in RunFrame
      BY <2>1, <3>1, TopFrame, FrameKinds DEF Good
    <3> QED
      BY <3>1, <3>2 DEF RunFrame, This
  <2> QED
    BY <2>2, <2>3, <2>4 DEF ResumesApart, U
<1> QED
  BY <1>1, SharesAlways, OverlapsAreHandOvers, PTL

\* No use waits for a block.
NoneWaits == \A n \in DOMAIN Uses : \A c \in Calls : Uses[n].op[c] \notin SyncOps

\* A serial queue whose blocks are all asynchronous runs one of them at a time, whatever
\* suspends, resumes, releases or redirects it: the promise that waiting calls break.
THEOREM OneAtATimeWithoutWaiting ==
    ASSUME NoneWaits
    PROVE  Spec => []OneBlockAtATime
<1>1. Spec => []OverlapNeedsAHandOver
  BY OverlapsWithoutResumes DEF NoneWaits, ResumesApart
<1>2. SharesInv /\ OverlapNeedsAHandOver => OneBlockAtATime
  <2>1. SUFFICES ASSUME NEW A \in SUBSET Objects, Good(A), OverlapNeedsAHandOver,
                        NEW q \in Queues, U.width[q] = 1
                 PROVE  Cardinality({c \in OnQueue(q) : IsRunning(c)}) <= 1
    BY DEF SharesInv, OneBlockAtATime
  <2>2. \A c \in Calls : U.op[c] \notin SyncOps
    BY <2>1 DEF Good, QueueTypes, NoneWaits, U
  <2>3. \A c \in OnQueue(q) : c \in Calls /\ IsBarrier(c)
    BY <2>1 DEF OnQueue, IsBarrier
  <2>4. ASSUME NEW c \in OnQueue(q), NEW d \in OnQueue(q), IsRunning(c), IsRunning(d)
        PROVE  c = d
    BY <2>1, <2>2, <2>3, <2>4 DEF OverlapNeedsAHandOver, Fast, SyncOps
  <2>5. CASE {c \in OnQueue(q) : IsRunning(c)} = {}
    BY <2>5, FS_EmptySet
  <2>6. ASSUME NEW c \in OnQueue(q), IsRunning(c)
        PROVE  Cardinality({d \in OnQueue(q) : IsRunning(d)}) <= 1
    <3>1. {d \in OnQueue(q) : IsRunning(d)} = {c}
      BY <2>4, <2>6
    <3>2. Cardinality({c}) = 1
      BY FS_Singleton
    <3> QED
      BY <3>1, <3>2
  <2> QED
    BY <2>5, <2>6
<1> QED
  BY <1>1, <1>2, SharesAlways, PTL
=============================================================================
