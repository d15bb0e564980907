-------------------------- MODULE DispatchGroupProofs --------------------------
(***************************************************************************)
(* Theorems about DispatchGroup for any finite set of threads, any members, *)
(* blocks and uses.                                                        *)
(***************************************************************************)
EXTENDS DispatchGroup, DispatchSemaphoreProofs

Frame == [at : Places, who : Members \cup Blocks \cup {None}, block : Blocks \cup {None},
          signals : Nat, drop : BOOLEAN, timed : BOOLEAN]

GroupTypeOK ==
    /\ use \in Uses
    /\ member \in [Members -> {"out", "entering", "in", "left"}]
    /\ dsema_group_waiters \in Nat /\ dsema_waiter_port \in Nat
    /\ {dsema_notify_head, dsema_notify_tail} \subseteq Blocks \cup {None}
    /\ dsn_next \in [Blocks -> Blocks \cup {None}]
    /\ freed \subseteq Blocks
    /\ submitted \in [Blocks -> Nat]
    /\ awaits \in [Blocks -> [state : {"new", "amid", "apart"}, members : SUBSET Members]]
    /\ frame \in [Threads -> Frame]

\* The places of dispatch_group_notify_f, and of a thread that holds a part of the list.
Notifying == {"link", "retain", "publish", "notified"}
Consuming == {"take", "submit", "next"}

\* Who is where: a member enters or leaves in one thread's frame, and a block is
\* registered in one; a thread is inside the semaphore only while it enters or leaves.
Roles ==
    /\ \A t, u \in Threads : frame[t].who = frame[u].who /\ frame[t].who # None => t = u
    /\ \A t \in Threads :
          /\ frame[t].who \in Members =>
                \/ frame[t].at \in {"enter", "push"} /\ member[frame[t].who] = "entering"
                \/ /\ frame[t].at \in {"left", "drop", "wake"} \cup Consuming
                   /\ member[frame[t].who] = "left"
          /\ frame[t].who \in Blocks => frame[t].at \in Notifying /\ awaits[frame[t].who].state # "new"
          /\ frame[t].at \in {"enter", "push", "left", "drop"} => frame[t].who \in Members
          /\ frame[t].at \in Notifying => frame[t].who \in Blocks
          /\ frame[t].at \in {"link", "next"} => frame[t].block \in Blocks

\* A semaphore's threads have no part in a group; a group's wait for ever in its semaphore.
Modes ==
    /\ ~IsGroup => \A t \in Threads : frame[t].at = "idle"
    /\ IsGroup => \A t \in Threads :
          /\ pc[t] # "idle" => frame[t].at \in {"push", "left"}
          /\ pc[t] \notin {"undo", "timedwait"} /\ timeout[t] = "forever"

\* Once the client has let go of the object only members that leave are in its functions.
Released ==
    ~held => /\ \A t \in Threads : frame[t].at = "idle"
                   \/ (frame[t].who \in Members /\ member[frame[t].who] = "left")
             /\ ~IsGroup => At(Waiting) = {} /\ dsema_value >= dsema_orig

\* The members that hold a permit: from the time they have taken it.
Permitted == {m \in Members : \/ member[m] = "in"
                              \/ member[m] = "entering" /\ \E t \in Threads : frame[t].at = "push" /\ frame[t].who = m}

PermitsOut ==
    IsGroup => IsFiniteSet(Permitted) /\ dsema_value = dsema_orig - Cardinality(Permitted)

\* The references: the client's, and those of members, of the list until it is taken and
\* of the thread that took it, and of signals.
Referring  == {m \in Members : member[m] \in {"entering", "in"} \/ \E t \in Threads : frame[t].who = m}
Publishing == {t \in Threads : frame[t].at = "publish"}
Dropping   == {t \in Threads : frame[t].at \in Consuming /\ frame[t].drop}

GroupReferences ==
    /\ IsFiniteSet(Referring)
    /\ do_ref_cnt = One(held) + Cardinality(At(Holding)) + Cardinality(Referring)
                      + Cardinality(Publishing) + Cardinality(Dropping) + One(dsema_notify_head # None)

\* The list is in one thread's hands or published: its first element is held by the thread
\* that is about to publish it, is the head, or is what the waking thread has come to.
Publishes(t, b) == frame[t].at \in {"retain", "publish"} /\ frame[t].who = b
Consumes(t, b)  == frame[t].at \in Consuming /\ frame[t].block = b
Holds(t, b)     == Publishes(t, b) \/ Consumes(t, b)
First(b)        == dsema_notify_head = b \/ \E t \in Threads : Holds(t, b)

OneList ==
    /\ \A t, u \in Threads, a, b \in Blocks : Holds(t, a) /\ Holds(u, b) => t = u
    /\ \A t \in Threads, b \in Blocks : Holds(t, b) => dsema_notify_head = None
    /\ dsema_notify_tail = None <=> \A b \in Blocks : ~First(b)

\* The element behind which a thread links its block has no next one, is not the last any
\* more, and is still there; the block is on no list yet.
Links(t, a, b) == frame[t].at = "link" /\ frame[t].block = a /\ frame[t].who = b

Linking ==
    /\ \A t \in Threads, a, b \in Blocks : Links(t, a, b) =>
          /\ dsn_next[a] = None /\ dsema_notify_tail # a /\ a \notin freed /\ awaits[a].state # "new"
          /\ b \notin freed /\ ~First(b) /\ \A c \in Blocks : dsn_next[c] # b
    /\ \A t, u \in Threads, a, b, c \in Blocks : Links(t, a, b) /\ Links(u, a, c) => t = u

\* What is on the list: each element once, in front of those that are not freed.
Linked ==
    /\ \A a, b \in Blocks : dsn_next[a] = dsn_next[b] /\ dsn_next[a] # None => a = b
    /\ \A a, b \in Blocks : dsn_next[a] = b /\ (b \in freed \/ First(b)) => a \in freed
    /\ \A b \in Blocks : First(b) => b \notin freed
    /\ \A b \in Blocks : dsema_notify_tail = b => b \notin freed /\ dsn_next[b] = None

\* A block that nobody has registered is nowhere.
Unregistered ==
    \A b \in Blocks : awaits[b].state = "new" =>
        /\ b \notin freed /\ dsema_notify_tail # b /\ ~First(b) /\ submitted[b] = 0
        /\ dsn_next[b] = None /\ \A a \in Blocks : dsn_next[a] # b

\* A block is submitted once, just before its element is freed.
HasSubmitted(t, b) == frame[t].at = "next" /\ frame[t].block = b

SubmittedOnce ==
    \A b \in Blocks :
        /\ submitted[b] <= 1
        /\ submitted[b] = 1 => b \in freed \/ \E t \in Threads : HasSubmitted(t, b)

ListInv == OneList /\ Linking /\ Linked /\ Unregistered /\ SubmittedOnce

\* The members that were inside when a block was registered have left once a thread has
\* begun to wake the group, if none had then.
AwaitInv ==
    \A b \in Blocks : awaits[b].state = "apart" =>
        /\ \A m \in awaits[b].members : member[m] \in {"in", "left"}
        /\ (\E t \in Threads : Waking(t)) \/ submitted[b] > 0 =>
               \A m \in awaits[b].members : member[m] = "left"
-----------------------------------------------------------------------------
\* What a thread's step makes of its own frame; it leaves the others alone.
Becomes(t, at, who, block, drop) ==
    /\ frame' \in [Threads -> Frame]
    /\ frame'[t].at = at /\ frame'[t].who = who /\ frame'[t].block = block /\ frame'[t].drop = drop
    /\ \A u \in Threads : u # t => frame'[u] = frame[u]

BecomesIdle(t) == Becomes(t, "idle", None, None, FALSE)

MovesTo(t, at) == Becomes(t, at, frame[t].who, frame[t].block, frame[t].drop)

LEMMA IdleTyped ==
    /\ Idle \in Frame /\ Idle.at = "idle" /\ Idle.who = None /\ Idle.block = None /\ Idle.drop = FALSE
    /\ \A at \in Places, who \in Members \cup Blocks \cup {None}, block \in Blocks \cup {None} :
          /\ [Idle EXCEPT !.at = at, !.who = who, !.block = block] \in Frame
          /\ [Idle EXCEPT !.at = at, !.who = who] \in Frame
          /\ [Idle EXCEPT !.at = at] \in Frame
    /\ \A timed \in BOOLEAN : [Idle EXCEPT !.at = "look", !.timed = timed] \in Frame
  BY DEF Idle, Frame, Places, GroupWaiting

LEMMA Framed ==
    ASSUME GroupTypeOK, NEW t \in Threads, NEW CONSTANT new \in Frame, Is(t, new)
    PROVE  Becomes(t, new.at, new.who, new.block, new.drop)
  BY DEF Is, GroupTypeOK, Becomes

LEMMA Moved ==
    ASSUME GroupTypeOK, NEW t \in Threads, NEW at \in Places, Do(t, at)
    PROVE  MovesTo(t, at)
<1>1. frame' = [frame EXCEPT ![t] = [frame[t] EXCEPT !.at = at]]
  BY DEF Do
<1>2. [frame[t] EXCEPT !.at = at] \in Frame
  BY DEF GroupTypeOK, Frame
<1>3. Becomes(t, at, frame[t].who, frame[t].block, frame[t].drop)
  <2>1. /\ frame' \in [Threads -> Frame] /\ frame'[t] = [frame[t] EXCEPT !.at = at]
        /\ \A u \in Threads : u # t => frame'[u] = frame[u]
    BY <1>1, <1>2 DEF GroupTypeOK
  <2>2. frame[t] \in Frame
    BY DEF GroupTypeOK
  <2> QED
    BY <2>1, <2>2 DEF Becomes, Frame
<1> QED
  BY <1>3 DEF MovesTo

LEMMA WentIdle ==
    ASSUME GroupTypeOK, NEW t \in Threads, Is(t, Idle)
    PROVE  BecomesIdle(t)
  BY Framed, IdleTyped DEF BecomesIdle

-----------------------------------------------------------------------------
\* The frame of a member that enters or leaves.
LEMMA MemberFrames ==
    ASSUME GroupTypeOK, Roles, NEW t \in Threads
    PROVE  /\ \A m \in Members : dispatch_group_async(t, m) => Becomes(t, "enter", m, None, FALSE)
           /\ dispatch_group_enter(t) => MovesTo(t, "push")
           /\ Pushed(t) => BecomesIdle(t)
           /\ \A m \in Members : dispatch_group_leave(t, m) => Becomes(t, "left", m, None, FALSE)
           /\ LeaverLooks(t) => MovesTo(t, IF AllLeft THEN "wake" ELSE "drop")
           /\ Drop(t) => BecomesIdle(t)
<1> DEFINE enter(m) == [Idle EXCEPT !.at = "enter", !.who = m]
           left(m)  == [Idle EXCEPT !.at = "left", !.who = m]
<1>1. \A m \in Members :
          /\ enter(m) \in Frame /\ enter(m).at = "enter" /\ enter(m).who = m
          /\ enter(m).block = None /\ enter(m).drop = FALSE
          /\ left(m) \in Frame /\ left(m).at = "left" /\ left(m).who = m
          /\ left(m).block = None /\ left(m).drop = FALSE
  BY DEF Idle, Frame, Places
<1>2. /\ \A m \in Members : dispatch_group_async(t, m) => Is(t, enter(m))
      /\ \A m \in Members : dispatch_group_leave(t, m) => Is(t, left(m))
  BY DEF dispatch_group_async, dispatch_group_leave
<1> HIDE DEF enter, left
<1>3. ASSUME NEW m \in Members, Is(t, enter(m)) PROVE Becomes(t, "enter", m, None, FALSE)
  <2>1. Becomes(t, enter(m).at, enter(m).who, enter(m).block, enter(m).drop)
    BY <1>1, <1>3, Framed
  <2> QED
    BY <1>1, <2>1
<1>4. ASSUME NEW m \in Members, Is(t, left(m)) PROVE Becomes(t, "left", m, None, FALSE)
  <2>1. Becomes(t, left(m).at, left(m).who, left(m).block, left(m).drop)
    BY <1>1, <1>4, Framed
  <2> QED
    BY <1>1, <2>1
<1>5. LeaverLooks(t) => MovesTo(t, IF AllLeft THEN "wake" ELSE "drop")
  <2>1. LeaverLooks(t) => frame[t].who \in Members
    BY DEF LeaverLooks, On, Roles
  <2>2. LeaverLooks(t) => Do(t, IF AllLeft THEN "wake" ELSE "drop")
    BY <2>1 DEF LeaverLooks, Return
  <2> QED
    BY <2>2, Moved DEF Places
<1>6. dispatch_group_enter(t) => MovesTo(t, "push")
  BY Moved DEF dispatch_group_enter, Places
<1>7. Pushed(t) \/ Drop(t) => BecomesIdle(t)
  BY WentIdle DEF Pushed, Drop
<1> QED
  BY <1>2, <1>3, <1>4, <1>5, <1>6, <1>7

\* The frame of a thread in _dispatch_group_wake.
LEMMA WakerFrames ==
    ASSUME GroupTypeOK, Roles, NEW t \in Threads
    PROVE  /\ TakeList(t) =>
                 Becomes(t, "take", frame[t].who, dsema_notify_head, dsema_notify_head # None)
           /\ TakeWaiters(t) \/ SignalWaiter(t) => MovesTo(t, "submit")
           /\ Submit(t) => MovesTo(t, "next")
           /\ NextBlock(t) =>
                 Becomes(t, "submit", frame[t].who, dsn_next[frame[t].block], frame[t].drop)
           /\ WakeDone(t) => IF frame[t].who \in Members THEN MovesTo(t, "drop") ELSE BecomesIdle(t)
<1>a. frame[t] \in Frame
  BY DEF GroupTypeOK
<1>1. ASSUME TakeList(t)
      PROVE  Becomes(t, "take", frame[t].who, dsema_notify_head, dsema_notify_head # None)
  <2> DEFINE some == dsema_notify_head # None
             new == [frame[t] EXCEPT !.at = "take", !.block = dsema_notify_head, !.drop = some]
  <2>1. some \in BOOLEAN /\ Is(t, new)
    BY <1>1 DEF TakeList
  <2> HIDE DEF some
  <2>2. /\ new \in Frame /\ new.at = "take" /\ new.who = frame[t].who
        /\ new.block = dsema_notify_head /\ new.drop = some
    BY <1>a, <2>1 DEF Frame, Places, GroupTypeOK
  <2> HIDE DEF new
  <2>3. Becomes(t, "take", frame[t].who, dsema_notify_head, some)
    BY <2>1, <2>2, Framed
  <2> QED
    BY <2>3 DEF some
<1>2. ASSUME TakeWaiters(t) PROVE MovesTo(t, "submit")
  <2> DEFINE new == [frame[t] EXCEPT !.at = "submit", !.signals = dsema_group_waiters]
  <2>1. /\ new \in Frame /\ new.at = "submit" /\ new.who = frame[t].who
        /\ new.block = frame[t].block /\ new.drop = frame[t].drop
    BY <1>a DEF Frame, Places, GroupTypeOK
  <2>2. Is(t, new)
    BY <1>2 DEF TakeWaiters
  <2> HIDE DEF new
  <2> QED
    BY <2>1, <2>2, Framed DEF MovesTo
<1>3. ASSUME SignalWaiter(t) PROVE MovesTo(t, "submit")
  <2> DEFINE new == [frame[t] EXCEPT !.signals = frame[t].signals - 1]
  <2>1. frame[t].signals > 0 /\ frame[t].at = "submit"
    BY <1>3 DEF SignalWaiter, On
  <2>2. frame[t].signals - 1 \in Nat
    BY <1>a, <2>1 DEF Frame
  <2>3. /\ new \in Frame /\ new.at = "submit" /\ new.who = frame[t].who
        /\ new.block = frame[t].block /\ new.drop = frame[t].drop
    BY <1>a, <2>1, <2>2 DEF Frame
  <2>4. Is(t, new)
    BY <1>3 DEF SignalWaiter, Is
  <2> HIDE DEF new
  <2> QED
    BY <2>3, <2>4, Framed DEF MovesTo
<1>4. Submit(t) => MovesTo(t, "next")
  BY Moved DEF Submit, Places
<1>5. ASSUME NextBlock(t)
      PROVE  Becomes(t, "submit", frame[t].who, dsn_next[frame[t].block], frame[t].drop)
  <2> DEFINE next == dsn_next[frame[t].block]
             new == [frame[t] EXCEPT !.at = "submit", !.block = next]
  <2>1. next \in Blocks \cup {None} /\ Is(t, new)
    BY <1>5 DEF NextBlock, On, Roles, GroupTypeOK
  <2> HIDE DEF next
  <2>2. /\ new \in Frame /\ new.at = "submit" /\ new.who = frame[t].who
        /\ new.block = next /\ new.drop = frame[t].drop
    BY <1>a, <2>1 DEF Frame, Places
  <2> HIDE DEF new
  <2>3. Becomes(t, "submit", frame[t].who, next, frame[t].drop)
    BY <2>1, <2>2, Framed
  <2> QED
    BY <2>3 DEF next
<1>6. WakeDone(t) => IF frame[t].who \in Members THEN MovesTo(t, "drop") ELSE BecomesIdle(t)
  BY Moved, WentIdle DEF WakeDone, Return, Places
<1> QED
  BY <1>1, <1>2, <1>3, <1>4, <1>5, <1>6

\* The frame of a thread that registers a block.
LEMMA NotifierFrames ==
    ASSUME GroupTypeOK, NEW t \in Threads
    PROVE  /\ \A b \in Blocks : dispatch_group_notify(t, b) =>
                 Becomes(t, IF dsema_notify_tail = None THEN "retain" ELSE "link",
                         b, dsema_notify_tail, FALSE)
           /\ Link(t) => BecomesIdle(t)
           /\ RetainGroup(t) => MovesTo(t, "publish")
           /\ Publish(t) => MovesTo(t, "notified")
           /\ NotifierLooks(t) => IF AllLeft THEN Becomes(t, "wake", None, None, FALSE) ELSE BecomesIdle(t)
<1>1. ASSUME NEW b \in Blocks, dispatch_group_notify(t, b)
      PROVE  Becomes(t, IF dsema_notify_tail = None THEN "retain" ELSE "link",
                     b, dsema_notify_tail, FALSE)
  <2> DEFINE place == IF dsema_notify_tail = None THEN "retain" ELSE "link"
             new == [Idle EXCEPT !.at = place, !.who = b, !.block = dsema_notify_tail]
  <2>1. Is(t, new) /\ place \in Places
    BY <1>1 DEF dispatch_group_notify, Places
  <2> HIDE DEF place
  <2>2. /\ new \in Frame /\ new.at = place /\ new.who = b
        /\ new.block = dsema_notify_tail /\ new.drop = FALSE
    BY <2>1 DEF Idle, Frame, GroupTypeOK
  <2> HIDE DEF new
  <2>3. Becomes(t, place, b, dsema_notify_tail, FALSE)
    BY <2>1, <2>2, Framed
  <2> QED
    BY <2>3 DEF place
<1>2. Link(t) => BecomesIdle(t)
  BY WentIdle DEF Link
<1>3. /\ RetainGroup(t) => MovesTo(t, "publish")
      /\ Publish(t) => MovesTo(t, "notified")
  BY Moved DEF RetainGroup, Publish, Places
<1>4. NotifierLooks(t) => IF AllLeft THEN Becomes(t, "wake", None, None, FALSE) ELSE BecomesIdle(t)
  <2> DEFINE new == [Idle EXCEPT !.at = "wake"]
  <2>1. /\ new \in Frame /\ new.at = "wake" /\ new.who = None
        /\ new.block = None /\ new.drop = FALSE
    BY DEF Idle, Frame, Places
  <2>2. NotifierLooks(t) => IF AllLeft THEN Is(t, new) ELSE Is(t, Idle)
    BY DEF NotifierLooks
  <2> HIDE DEF new
  <2>3. Is(t, new) => Becomes(t, "wake", None, None, FALSE)
    <3>1. Is(t, new) => Becomes(t, new.at, new.who, new.block, new.drop)
      BY <2>1, Framed
    <3> QED
      BY <2>1, <3>1
  <2> QED
    BY <2>2, <2>3, WentIdle
<1> QED
  BY <1>1, <1>2, <1>3, <1>4

\* The steps of a thread in dispatch_group_wait.
WaiterSteps(t) ==
    \/ WaiterLooks(t) \/ Enlist(t) \/ WaiterLooksAgain(t) \/ KernelSignalsWaiter(t)
    \/ KernelWakesWaiter(t) \/ WaiterTimesOut(t) \/ WaiterUndoes(t)

\* Its frame names no member and no block; it goes on waiting, returns, or wakes the group.
LEMMA WaiterFrames ==
    ASSUME GroupTypeOK, Roles, NEW t \in Threads
    PROVE  /\ WaiterSteps(t) =>
                 /\ frame[t].at \in GroupWaiting /\ frame[t].who = None
                 /\ UNCHANGED <<use, semaVars, member, list>>
                 /\ \E at \in GroupWaiting \cup {"idle", "wake"}, block \in Blocks \cup {None},
                       drop \in BOOLEAN :
                       Becomes(t, at, None, block, drop) /\ (at = "wake" => AllLeft)
           /\ \A to \in Timeouts : dispatch_group_wait(t, to) =>
                 /\ UNCHANGED <<use, semaVars, member, list>>
                 /\ UNCHANGED frame \/ Becomes(t, "look", None, None, FALSE)
<1>a. frame[t] \in Frame
  BY DEF GroupTypeOK
<1>b. frame[t].at \in GroupWaiting => frame[t].who = None
  BY <1>a DEF Roles, GroupWaiting, Notifying, Consuming, Frame
<1> DEFINE wake == [Idle EXCEPT !.at = "wake"]
<1>1. /\ wake \in Frame /\ wake.at = "wake" /\ wake.who = None
      /\ wake.block = None /\ wake.drop = FALSE
  BY DEF Idle, Frame, Places
<1>2. \A timed \in BOOLEAN : LET look == [Idle EXCEPT !.at = "look", !.timed = timed] IN
          /\ look \in Frame /\ look.at = "look" /\ look.who = None
          /\ look.block = None /\ look.drop = FALSE
  BY DEF Idle, Frame, Places, GroupWaiting
<1>3. WaiterSteps(t) =>
          /\ frame[t].at \in GroupWaiting
          /\ UNCHANGED <<use, semaVars, member, list>>
          /\ \/ Is(t, wake) /\ AllLeft
             \/ Is(t, Idle)
             \/ \E at \in GroupWaiting : Do(t, at)
  BY DEF WaiterSteps, WaiterLooks, Enlist, WaiterLooksAgain, KernelSignalsWaiter, KernelWakesWaiter,
         WaiterTimesOut, WaiterUndoes, On, GroupWaiting
<1> HIDE DEF wake
<1>4. Is(t, wake) => Becomes(t, "wake", None, None, FALSE)
  <2>1. Is(t, wake) => Becomes(t, wake.at, wake.who, wake.block, wake.drop)
    BY <1>1, Framed
  <2> QED
    BY <1>1, <2>1
<1>5. Is(t, Idle) => Becomes(t, "idle", None, None, FALSE)
  BY WentIdle DEF BecomesIdle
<1>6. ASSUME NEW at \in GroupWaiting, Do(t, at)
      PROVE  Becomes(t, at, frame[t].who, frame[t].block, frame[t].drop)
  BY <1>6, Moved DEF MovesTo, Places
<1>7. frame[t].block \in Blocks \cup {None} /\ frame[t].drop \in BOOLEAN
  BY <1>a DEF Frame
<1>8. WaiterSteps(t) => \E at \in GroupWaiting \cup {"idle", "wake"}, block \in Blocks \cup {None},
                             drop \in BOOLEAN :
                             Becomes(t, at, None, block, drop) /\ (at = "wake" => AllLeft)
  <2> SUFFICES ASSUME WaiterSteps(t)
               PROVE  \E at \in GroupWaiting \cup {"idle", "wake"}, block \in Blocks \cup {None},
                          drop \in BOOLEAN :
                          Becomes(t, at, None, block, drop) /\ (at = "wake" => AllLeft)
    OBVIOUS
  <2>1. CASE Is(t, wake) /\ AllLeft
    BY <1>4, <2>1
  <2>2. CASE Is(t, Idle)
    <3>1. Becomes(t, "idle", None, None, FALSE) /\ "idle" # "wake"
      BY <1>5, <2>2
    <3> QED
      BY <3>1, Zenon
  <2>3. ASSUME NEW at \in GroupWaiting, Do(t, at)
        PROVE  Becomes(t, at, None, frame[t].block, frame[t].drop) /\ at # "wake"
    BY <1>3, <1>6, <1>b, <2>3 DEF GroupWaiting
  <2> QED
    BY <1>3, <1>7, <2>1, <2>2, <2>3
<1>9. ASSUME NEW to \in Timeouts, dispatch_group_wait(t, to)
      PROVE  /\ UNCHANGED <<use, semaVars, member, list>>
             /\ UNCHANGED frame \/ Becomes(t, "look", None, None, FALSE)
  <2> DEFINE later == to = "later"
             look == [Idle EXCEPT !.at = "look", !.timed = later]
  <2>1. UNCHANGED frame \/ Is(t, look)
    BY <1>9 DEF dispatch_group_wait
  <2>2. later \in BOOLEAN
    OBVIOUS
  <2> HIDE DEF later
  <2>3. /\ look \in Frame /\ look.at = "look" /\ look.who = None
        /\ look.block = None /\ look.drop = FALSE
    BY <1>2, <2>2
  <2> HIDE DEF look
  <2>4. Is(t, look) => Becomes(t, look.at, look.who, look.block, look.drop)
    BY <2>3, Framed
  <2>5. Is(t, look) => Becomes(t, "look", None, None, FALSE)
    BY <2>3, <2>4
  <2>6. UNCHANGED <<use, semaVars, member, list>>
    BY <1>9 DEF dispatch_group_wait
  <2> QED
    BY <2>1, <2>5, <2>6
<1> QED
  BY <1>3, <1>8, <1>9, <1>b

-----------------------------------------------------------------------------
\* The steps of a group's threads, by what they are part of, and those of the semaphore.
Enters(t) == (\E m \in Members : dispatch_group_async(t, m)) \/ dispatch_group_enter(t) \/ Pushed(t)
Leaves(t) == (\E m \in Members : dispatch_group_leave(t, m)) \/ LeaverLooks(t) \/ Drop(t)
Wakes(t)  == \/ TakeList(t) \/ TakeWaiters(t) \/ SignalWaiter(t)
             \/ Submit(t) \/ NextBlock(t) \/ WakeDone(t)
Notifies(t) == \/ \E b \in Blocks : dispatch_group_notify(t, b)
               \/ Link(t) \/ RetainGroup(t) \/ Publish(t) \/ NotifierLooks(t)
Waits(t) == (\E to \in Timeouts : dispatch_group_wait(t, to)) \/ WaiterSteps(t)

SemaphoreStep ==
    \/ \E t \in Threads : SemaContinue(t) \/ SemaKernel(t)
    \/ /\ ~IsGroup
       /\ \/ \E t \in Threads, to \in Timeouts : dispatch_semaphore_wait(t, to)
          \/ held /\ \E t \in Threads : dispatch_semaphore_signal(t)
          \/ dispatch_release

LEMMA NextCases ==
    ASSUME GroupTypeOK, Roles, Modes, Next
    PROVE  \/ SemaphoreStep /\ UNCHANGED groupVars
           \/ /\ IsGroup
              /\ \/ ReleaseGroup
                 \/ \E t \in Threads : Enters(t) \/ Leaves(t) \/ Wakes(t) \/ Notifies(t) \/ Waits(t)
<1>1. use.threads \subseteq Threads /\ use.members \subseteq Members /\ use.blocks \subseteq Blocks
  BY UsesAssumption DEF GroupTypeOK, IsUse
<1>2. ASSUME NEW t \in Threads, CallSemaphore(t) PROVE SemaphoreStep /\ UNCHANGED groupVars
  BY <1>2 DEF CallSemaphore, SemaphoreStep
<1>3. ASSUME NEW t \in Threads, CallGroup(t) PROVE IsGroup /\ (Enters(t) \/ Notifies(t) \/ Waits(t))
  BY <1>1, <1>3 DEF CallGroup, Enters, Notifies, Waits
<1>4. ASSUME NEW t \in Threads, Continue(t)
      PROVE  \/ SemaphoreStep /\ UNCHANGED groupVars
             \/ IsGroup /\ (Enters(t) \/ Leaves(t) \/ Wakes(t) \/ Notifies(t) \/ Waits(t))
  BY <1>4 DEF Continue, GroupContinue, SemaphoreStep, Enters, Leaves, Wakes, Notifies, Waits, WaiterSteps
<1>5. ASSUME NEW t \in Threads, Kernel(t)
      PROVE  \/ SemaphoreStep /\ UNCHANGED groupVars
             \/ IsGroup /\ Waits(t)
  <2>1. KernelWakesWaiter(t) \/ WaiterTimesOut(t) => IsGroup
    BY DEF KernelWakesWaiter, WaiterTimesOut, On, Modes
  <2> QED
    BY <1>5, <2>1 DEF Kernel, SemaphoreStep, Waits, WaiterSteps
<1>6. ASSUME NEW m \in Members, Leave(m)
      PROVE  IsGroup /\ \E t \in Threads : Leaves(t)
  BY <1>1, <1>6 DEF Leave, Leaves
<1>7. ~IsGroup /\ dispatch_release /\ UNCHANGED groupVars => SemaphoreStep /\ UNCHANGED groupVars
  BY DEF SemaphoreStep
<1> QED
  BY <1>2, <1>3, <1>4, <1>5, <1>6, <1>7 DEF Next

-----------------------------------------------------------------------------
\* Only the head, the tail and the elements of the list hold blocks, and only blocks.
LEMMA GroupTypes ==
    ASSUME GroupTypeOK, Roles, Modes, [Next]_vars
    PROVE  GroupTypeOK'
<1> USE DEF GroupTypeOK
<1>1. CASE UNCHANGED groupVars
  BY <1>1 DEF groupVars, waiters, list
<1>2. CASE ReleaseGroup
  BY <1>2 DEF ReleaseGroup, groupVars, waiters, list
<1>3. ASSUME NEW t \in Threads, Enters(t) \/ Leaves(t) PROVE GroupTypeOK'
  <2>1. frame' \in [Threads -> Frame]
    BY <1>3, MemberFrames DEF Becomes, BecomesIdle, MovesTo, Enters, Leaves
  <2>2. member' \in [Members -> {"out", "entering", "in", "left"}]
    BY <1>3 DEF Enters, dispatch_group_async, dispatch_group_enter, Pushed,
                Leaves, dispatch_group_leave, LeaverLooks, Drop
  <2>3. UNCHANGED <<use, waiters, list>>
    BY <1>3 DEF Enters, dispatch_group_async, dispatch_group_enter, Pushed,
                Leaves, dispatch_group_leave, LeaverLooks, Drop
  <2> QED
    BY <2>1, <2>2, <2>3 DEF waiters, list
<1>4. ASSUME NEW t \in Threads, Wakes(t) PROVE GroupTypeOK'
  <2>1. frame' \in [Threads -> Frame]
    BY <1>4, WakerFrames DEF Wakes, Becomes, BecomesIdle, MovesTo
  <2>2. CASE TakeList(t) \/ TakeWaiters(t) \/ SignalWaiter(t) \/ WakeDone(t)
    BY <2>1, <2>2 DEF TakeList, TakeWaiters, SignalWaiter, WakeDone, waiters, list
  <2>3. CASE Submit(t)
    <3>1. frame[t].block \in Blocks
      BY <2>3 DEF Submit, Frame
    <3> QED
      BY <2>1, <2>3, <3>1 DEF Submit, waiters
  <2>4. CASE NextBlock(t)
    <3>1. frame[t].block \in Blocks
      BY <2>4 DEF NextBlock, On, Roles
    <3> QED
      BY <2>1, <2>4, <3>1 DEF NextBlock, waiters
  <2> QED
    BY <1>4, <2>2, <2>3, <2>4 DEF Wakes
<1>5. ASSUME NEW t \in Threads, Notifies(t) PROVE GroupTypeOK'
  <2>1. frame' \in [Threads -> Frame]
    BY <1>5, NotifierFrames DEF Notifies, Becomes, BecomesIdle, MovesTo
  <2>2. ASSUME NEW b \in Blocks, dispatch_group_notify(t, b) PROVE GroupTypeOK'
    <3>1. Inside \in SUBSET Members
      BY DEF Inside
    <3> QED
      BY <2>1, <2>2, <3>1 DEF dispatch_group_notify, waiters
  <2>3. CASE Link(t) \/ Publish(t)
    <3>1. frame[t].who \in Blocks
      BY <2>3 DEF Link, Publish, On, Roles, Notifying
    <3> QED
      BY <2>1, <2>3, <3>1 DEF Link, Publish, waiters
  <2>4. CASE RetainGroup(t) \/ NotifierLooks(t)
    BY <2>1, <2>4 DEF RetainGroup, NotifierLooks, waiters, list
  <2> QED
    BY <1>5, <2>2, <2>3, <2>4 DEF Notifies
<1>6. ASSUME NEW t \in Threads, Waits(t) PROVE GroupTypeOK'
  <2>1. frame' \in [Threads -> Frame] /\ UNCHANGED <<use, member, list>>
    BY <1>6, WaiterFrames DEF Waits, Becomes
  <2>2. dsema_group_waiters' \in Nat /\ dsema_waiter_port' \in Nat
    <3>1. CASE WaiterUndoes(t) \/ KernelSignalsWaiter(t) \/ Enlist(t)
      BY <3>1 DEF WaiterUndoes, StillWaiting, KernelSignalsWaiter, Enlist
    <3>2. CASE ~(WaiterUndoes(t) \/ KernelSignalsWaiter(t) \/ Enlist(t))
      BY <1>6, <3>2 DEF Waits, dispatch_group_wait, WaiterSteps, WaiterLooks, WaiterLooksAgain,
                        KernelWakesWaiter, WaiterTimesOut, waiters
    <3> QED
      BY <3>1, <3>2
  <2> QED
    BY <2>1, <2>2 DEF list
<1> QED
  BY <1>1, <1>2, <1>3, <1>4, <1>5, <1>6, NextCases DEF vars

\* A thread that wakes the group keeps its member until it drops the member's reference.
LEMMA WakesFrames ==
    ASSUME GroupTypeOK, Roles, NEW t \in Threads, Wakes(t)
    PROVE  /\ UNCHANGED <<member, awaits>> /\ frame[t].at \in {"wake"} \cup Consuming
           /\ frame' \in [Threads -> Frame] /\ \A u \in Threads : u # t => frame'[u] = frame[u]
           /\ \/ frame'[t].who = frame[t].who /\ frame'[t].at \in {"take", "submit"}
              \/ frame'[t].who = frame[t].who /\ frame[t].who \in Members /\ frame'[t].at = "drop"
              \/ frame'[t].who = frame[t].who /\ frame'[t].at = "next" /\ frame'[t].block \in Blocks
              \/ frame'[t].who = None /\ frame'[t].at = "idle"
<1>a. frame[t] \in Frame
  BY DEF GroupTypeOK
<1>1. UNCHANGED <<member, awaits>> /\ frame[t].at \in {"wake"} \cup Consuming
  BY DEF Wakes, TakeList, TakeWaiters, SignalWaiter, Submit, NextBlock, WakeDone, On, list, Consuming
<1>2. /\ frame' \in [Threads -> Frame] /\ \A u \in Threads : u # t => frame'[u] = frame[u]
      /\ \/ frame'[t].who = frame[t].who /\ frame'[t].at \in {"take", "submit"}
         \/ frame'[t].who = frame[t].who /\ frame[t].who \in Members /\ frame'[t].at = "drop"
         \/ frame'[t].who = frame[t].who /\ frame'[t].at = "next" /\ frame'[t].block \in Blocks
         \/ frame'[t].who = None /\ frame'[t].at = "idle"
  <2>1. Submit(t) => frame[t].block \in Blocks
    BY <1>a DEF Frame, Submit
  <2>2. CASE TakeList(t)
    BY <2>2, WakerFrames DEF Becomes
  <2>3. CASE TakeWaiters(t) \/ SignalWaiter(t)
    BY <2>3, WakerFrames DEF MovesTo, Becomes
  <2>4. CASE Submit(t)
    BY <2>1, <2>4, WakerFrames DEF MovesTo, Becomes
  <2>5. CASE NextBlock(t)
    BY <2>5, WakerFrames DEF Becomes
  <2>6. CASE WakeDone(t)
    BY <2>6, WakerFrames DEF MovesTo, BecomesIdle, Becomes
  <2> QED
    BY <2>2, <2>3, <2>4, <2>5, <2>6 DEF Wakes
<1> QED
  BY <1>1, <1>2

-----------------------------------------------------------------------------
\* A member or a block is in one frame at a time, and where its state says.
LEMMA RolesKept ==
    ASSUME GroupTypeOK, Roles, Modes, [Next]_vars
    PROVE  Roles'
<1> USE DEF GroupTypeOK, Roles
<1>a. \A t \in Threads : frame[t] \in Frame
  OBVIOUS
<1>1. CASE UNCHANGED groupVars \/ ReleaseGroup
  BY <1>1 DEF ReleaseGroup, groupVars, waiters, list
<1>2. ASSUME NEW t \in Threads, Enters(t) PROVE Roles'
  <2>1. ASSUME NEW m \in Members, dispatch_group_async(t, m) PROVE Roles'
    <3>1. /\ member[m] = "out" /\ member' = [member EXCEPT ![m] = "entering"] /\ awaits' = awaits
          /\ Becomes(t, "enter", m, None, FALSE)
      BY <2>1, MemberFrames DEF dispatch_group_async, list
    <3> QED
      BY <3>1, NoneAssumption, BlocksAssumption DEF Becomes, Notifying, Consuming
  <2>2. CASE dispatch_group_enter(t)
    <3>1. frame[t].at = "enter" /\ UNCHANGED <<member, awaits>> /\ MovesTo(t, "push")
      BY <2>2, MemberFrames DEF dispatch_group_enter, On, list
    <3> QED
      BY <3>1, NoneAssumption, BlocksAssumption DEF MovesTo, Becomes, Notifying, Consuming
  <2>3. CASE Pushed(t)
    <3>1. /\ frame[t].at = "push" /\ member' = [member EXCEPT ![frame[t].who] = "in"]
          /\ awaits' = awaits /\ BecomesIdle(t)
      BY <2>3, MemberFrames DEF Pushed, On, list
    <3> QED
      BY <3>1, NoneAssumption, BlocksAssumption DEF BecomesIdle, Becomes, Notifying, Consuming
  <2> QED
    BY <1>2, <2>1, <2>2, <2>3 DEF Enters
<1>3. ASSUME NEW t \in Threads, Leaves(t) PROVE Roles'
  <2>1. ASSUME NEW m \in Members, dispatch_group_leave(t, m) PROVE Roles'
    <3>1. /\ member[m] = "in" /\ member' = [member EXCEPT ![m] = "left"] /\ awaits' = awaits
          /\ Becomes(t, "left", m, None, FALSE)
      BY <2>1, MemberFrames DEF dispatch_group_leave, list
    <3> QED
      BY <3>1, NoneAssumption, BlocksAssumption DEF Becomes, Notifying, Consuming
  <2>2. CASE LeaverLooks(t)
    <3>1. /\ frame[t].at = "left" /\ UNCHANGED <<member, awaits>>
          /\ MovesTo(t, "wake") \/ MovesTo(t, "drop")
      BY <2>2, MemberFrames DEF LeaverLooks, On, list
    <3> QED
      BY <3>1, NoneAssumption, BlocksAssumption DEF MovesTo, Becomes, Notifying, Consuming
  <2>3. CASE Drop(t)
    <3>1. UNCHANGED <<member, awaits>> /\ BecomesIdle(t)
      BY <2>3, MemberFrames DEF Drop, list
    <3> QED
      BY <3>1, NoneAssumption, BlocksAssumption DEF BecomesIdle, Becomes, Notifying, Consuming
  <2> QED
    BY <1>3, <2>1, <2>2, <2>3 DEF Leaves
<1>4. ASSUME NEW t \in Threads, Wakes(t) PROVE Roles'
  <2>1. UNCHANGED <<member, awaits>> /\ frame[t].at \in {"wake"} \cup Consuming
    BY <1>4, WakesFrames
  <2>2. /\ frame' \in [Threads -> Frame] /\ \A u \in Threads : u # t => frame'[u] = frame[u]
        /\ \/ frame'[t].who = frame[t].who /\ frame'[t].at \in {"take", "submit"}
           \/ frame'[t].who = frame[t].who /\ frame[t].who \in Members /\ frame'[t].at = "drop"
           \/ frame'[t].who = frame[t].who /\ frame'[t].at = "next" /\ frame'[t].block \in Blocks
           \/ frame'[t].who = None /\ frame'[t].at = "idle"
    BY <1>4, WakesFrames
  <2> QED
    BY <2>1, <2>2, NoneAssumption, BlocksAssumption DEF Notifying, Consuming
<1>5. ASSUME NEW t \in Threads, Notifies(t) PROVE Roles'
  <2>1. ASSUME NEW b \in Blocks, dispatch_group_notify(t, b) PROVE Roles'
    <3>1. /\ awaits[b].state = "new" /\ member' = member
          /\ \A c \in Blocks : c # b => awaits'[c] = awaits[c]
          /\ awaits'[b].state # "new"
      BY <2>1 DEF dispatch_group_notify
    <3>2. /\ frame' \in [Threads -> Frame] /\ \A u \in Threads : u # t => frame'[u] = frame[u]
          /\ frame'[t].who = b /\ frame'[t].at \in {"retain", "link"}
          /\ frame'[t].at = "link" => frame'[t].block \in Blocks
      BY <2>1, NotifierFrames DEF Becomes
    <3>3. \A u \in Threads : frame[u].who # b
      BY <3>1
    <3>4. \A u, v \in Threads : frame'[u].who = frame'[v].who /\ frame'[u].who # None => u = v
      BY <3>2, <3>3
    <3>5. \A u \in Threads : u # t /\ frame[u].who \in Blocks => awaits'[frame[u].who].state # "new"
      BY <3>1, <3>3
    <3> QED
      BY <3>1, <3>2, <3>4, <3>5, NoneAssumption, BlocksAssumption DEF Notifying
  <2>2. CASE Link(t)
    <3>1. UNCHANGED <<member, awaits>> /\ BecomesIdle(t)
      BY <2>2, NotifierFrames DEF Link
    <3> QED
      BY <3>1, NoneAssumption, BlocksAssumption DEF BecomesIdle, Becomes, Notifying, Consuming
  <2>3. CASE RetainGroup(t) \/ Publish(t)
    <3>1. /\ frame[t].at \in {"retain", "publish"} /\ UNCHANGED <<member, awaits>>
          /\ MovesTo(t, "publish") \/ MovesTo(t, "notified")
      BY <2>3, NotifierFrames DEF RetainGroup, Publish, On, list
    <3> QED
      BY <3>1, NoneAssumption, BlocksAssumption DEF MovesTo, Becomes, Notifying, Consuming
  <2>4. CASE NotifierLooks(t)
    <3>1. UNCHANGED <<member, awaits>> /\ (Becomes(t, "wake", None, None, FALSE) \/ BecomesIdle(t))
      BY <2>4, NotifierFrames DEF NotifierLooks, list
    <3> QED
      BY <3>1, NoneAssumption, BlocksAssumption DEF BecomesIdle, Becomes, Notifying, Consuming
  <2> QED
    BY <1>5, <2>1, <2>2, <2>3, <2>4 DEF Notifies
<1>6. ASSUME NEW t \in Threads, Waits(t) PROVE Roles'
  <2>1. /\ UNCHANGED <<member, awaits>>
        /\ \/ UNCHANGED frame
           \/ \E at \in GroupWaiting \cup {"idle", "wake"}, block \in Blocks \cup {None}, drop \in BOOLEAN :
                  Becomes(t, at, None, block, drop)
    BY <1>6, WaiterFrames DEF Waits, list, GroupWaiting
  <2> QED
    BY <2>1, NoneAssumption, BlocksAssumption DEF Becomes, Notifying, Consuming, GroupWaiting
<1> QED
  BY <1>1, <1>2, <1>3, <1>4, <1>5, <1>6, NextCases DEF vars

-----------------------------------------------------------------------------
\* Of a group's steps only those of dispatch_group_enter and dispatch_group_leave change
\* more of the semaphore than the references to it.
LEMMA SemaphoreUntouched ==
    ASSUME CountInv, GroupTypeOK, Roles, NEW t \in Threads,
           Enters(t) \/ Leaves(t) \/ Wakes(t) \/ Notifies(t) \/ Waits(t),
           ~dispatch_group_enter(t), ~ \E m \in Members : dispatch_group_leave(t, m)
    PROVE  /\ UNCHANGED <<counters, dsema_sent_ksignals, dsema_port, pc, timeout>>
           /\ held' = held /\ do_ref_cnt' \in Int
<1>a. do_ref_cnt \in Int /\ (UNCHANGED semaVars =>
          /\ UNCHANGED <<counters, dsema_sent_ksignals, dsema_port, pc, timeout>>
          /\ held' = held /\ do_ref_cnt' = do_ref_cnt)
  BY DEF CountInv, CountTypeOK, semaVars, lifetime
<1>1. CASE Enters(t)
  <2>1. ASSUME NEW m \in Members, dispatch_group_async(t, m)
        PROVE  /\ UNCHANGED <<counters, dsema_sent_ksignals, dsema_port, pc, timeout, held>>
               /\ do_ref_cnt' = do_ref_cnt + 1
    BY <2>1 DEF dispatch_group_async
  <2>2. Pushed(t) => UNCHANGED semaVars
    BY DEF Pushed
  <2> QED
    BY <1>1, <1>a, <2>1, <2>2 DEF Enters
<1>2. CASE Leaves(t)
  BY <1>2, <1>a DEF Leaves, LeaverLooks, Drop
<1>3. CASE Wakes(t)
  BY <1>3, <1>a DEF Wakes, TakeList, TakeWaiters, SignalWaiter, Submit, NextBlock, WakeDone
<1>4. CASE Notifies(t)
  <2>1. RetainGroup(t) =>
            /\ UNCHANGED <<counters, dsema_sent_ksignals, dsema_port, pc, timeout, held>>
            /\ do_ref_cnt' = do_ref_cnt + 1
    BY DEF RetainGroup
  <2>2. ~RetainGroup(t) => UNCHANGED semaVars
    BY <1>4 DEF Notifies, dispatch_group_notify, Link, Publish, NotifierLooks
  <2> QED
    BY <1>a, <2>1, <2>2
<1>5. CASE Waits(t)
  BY <1>5, <1>a, WaiterFrames DEF Waits
<1> QED
  BY <1>1, <1>2, <1>3, <1>4, <1>5

\* The semaphore inside keeps what a semaphore keeps.
LEMMA CountKept ==
    ASSUME CountInv, GroupTypeOK, Roles, Modes, [Next]_vars
    PROVE  CountInv'
<1>1. CASE UNCHANGED vars
  <2>1. /\ UNCHANGED <<counters, dsema_sent_ksignals, dsema_port, pc, timeout>>
        /\ held' = held /\ do_ref_cnt' = do_ref_cnt
    BY <1>1 DEF vars, semaVars, lifetime
  <2> QED
    BY <2>1, CountUntouched DEF CountInv, CountTypeOK
<1>2. CASE SemaphoreStep
  BY <1>2, ContinueStep, WaitStep, SignalStep, ClientReleaseStep DEF SemaphoreStep
<1>3. CASE ReleaseGroup
  <2>1. /\ UNCHANGED <<counters, dsema_sent_ksignals, dsema_port, pc, timeout>>
        /\ held' \in BOOLEAN /\ do_ref_cnt' = do_ref_cnt - 1
    BY <1>3 DEF ReleaseGroup
  <2>2. do_ref_cnt' \in Int
    BY <2>1 DEF CountInv, CountTypeOK
  <2> QED
    BY <2>1, <2>2, CountUntouched
<1>4. ASSUME NEW t \in Threads, Enters(t) \/ Leaves(t) \/ Wakes(t) \/ Notifies(t) \/ Waits(t)
      PROVE  CountInv'
  <2>1. CASE dispatch_group_enter(t)
    BY <2>1, WaitStep DEF dispatch_group_enter, Timeouts
  <2>2. CASE \E m \in Members : dispatch_group_leave(t, m)
    BY <2>2, SignalStep DEF dispatch_group_leave
  <2>3. CASE ~dispatch_group_enter(t) /\ ~ \E m \in Members : dispatch_group_leave(t, m)
    <3>1. /\ UNCHANGED <<counters, dsema_sent_ksignals, dsema_port, pc, timeout>>
          /\ held' = held /\ do_ref_cnt' \in Int
      BY <1>4, <2>3, SemaphoreUntouched
    <3>2. held' \in BOOLEAN
      BY <3>1 DEF CountInv, CountTypeOK
    <3> QED
      BY <3>1, <3>2, CountUntouched
  <2> QED
    BY <2>1, <2>2, <2>3
<1> QED
  BY <1>1, <1>2, <1>3, <1>4, NextCases

\* What the object was created with never changes.
LEMMA OrigKept == ASSUME CountInv, GroupTypeOK, Roles, Modes, [Next]_vars PROVE dsema_orig' = dsema_orig
<1>1. CASE UNCHANGED vars \/ ReleaseGroup
  BY <1>1 DEF vars, semaVars, counters, ReleaseGroup
<1>2. CASE SemaphoreStep
  BY <1>2 DEF SemaphoreStep, SemaContinue, SemaKernel, TakeWakeup, EnterKernel, KernelSignals, Undo,
              Retain, CountWakeup, SignalKernel, Release, KernelWakesForNothing, KernelTimesOut,
              dispatch_semaphore_wait, dispatch_semaphore_signal, dispatch_release, counters
<1>3. ASSUME NEW t \in Threads, Enters(t) \/ Leaves(t) \/ Wakes(t) \/ Notifies(t) \/ Waits(t)
      PROVE  dsema_orig' = dsema_orig
  <2>1. dispatch_group_enter(t) \/ (\E m \in Members : dispatch_group_leave(t, m)) => dsema_orig' = dsema_orig
    BY DEF dispatch_group_enter, dispatch_group_leave, dispatch_semaphore_wait, dispatch_semaphore_signal
  <2> QED
    BY <1>3, <2>1, SemaphoreUntouched DEF counters
<1> QED
  BY <1>1, <1>2, <1>3, NextCases

\* What a thread inside the semaphore of a group does: it never gives up its wait.
LEMMA InnerPlaces ==
    ASSUME CountInv, Modes, IsGroup, NEW t \in Threads, SemaContinue(t) \/ SemaKernel(t)
    PROVE  /\ pc[t] # "idle" /\ pc'[t] \notin {"undo", "timedwait"} /\ timeout'[t] = "forever"
           /\ \A u \in Threads : u # t => pc'[u] = pc[u] /\ timeout'[u] = timeout[u]
<1>1. pc[t] \notin {"undo", "timedwait"} /\ timeout[t] = "forever"
  BY DEF Modes
<1>2. pc \in [Threads -> {"idle"} \cup Waiting \cup Signalling] /\ timeout \in [Threads -> Timeouts]
  BY DEF CountInv, CountTypeOK
<1>3. CASE TakeWakeup(t)
  BY <1>2, <1>3 DEF TakeWakeup, StopWaiting, Go
<1>4. CASE EnterKernel(t)
  BY <1>1, <1>2, <1>4 DEF EnterKernel, Go
<1>5. CASE KernelSignals(t) \/ SemaKernel(t)
  BY <1>1, <1>2, <1>5 DEF KernelSignals, SemaKernel, KernelWakesForNothing, KernelTimesOut, Go
<1>6. CASE Retain(t) \/ CountWakeup(t) \/ SignalKernel(t) \/ Release(t)
  BY <1>1, <1>2, <1>6 DEF Retain, CountWakeup, SignalKernel, Release, Go
<1>7. ~Undo(t)
  BY <1>1 DEF Undo
<1> QED
  BY <1>3, <1>4, <1>5, <1>6, <1>7 DEF SemaContinue

\* A semaphore stays a semaphore and a group a group.
LEMMA ModesKept ==
    ASSUME CountInv, GroupTypeOK, Roles, Modes, [Next]_vars
    PROVE  Modes'
<1>1. IsGroup' <=> IsGroup
  BY OrigKept DEF IsGroup
<1>2. CASE UNCHANGED vars \/ ReleaseGroup
  BY <1>1, <1>2 DEF vars, semaVars, groupVars, ReleaseGroup, Modes
<1>3. CASE SemaphoreStep /\ UNCHANGED groupVars
  <2>1. frame' = frame
    BY <1>3 DEF groupVars
  <2>2. CASE ~IsGroup
    BY <1>1, <2>1, <2>2 DEF Modes
  <2>3. CASE IsGroup
    <3>1. PICK t \in Threads : SemaContinue(t) \/ SemaKernel(t)
      BY <1>3, <2>3 DEF SemaphoreStep
    <3> QED
      BY <1>1, <2>1, <2>3, <3>1, InnerPlaces DEF Modes
  <2> QED
    BY <2>2, <2>3
<1>4. ASSUME IsGroup, NEW t \in Threads,
             Enters(t) \/ Leaves(t) \/ Wakes(t) \/ Notifies(t) \/ Waits(t)
      PROVE  Modes'
  <2>a. pc \in [Threads -> {"idle"} \cup Waiting \cup Signalling] /\ timeout \in [Threads -> Timeouts]
    BY DEF CountInv, CountTypeOK
  <2>1. CASE dispatch_group_enter(t)
    <3>1. /\ MovesTo(t, "push")
          /\ \/ UNCHANGED <<pc, timeout>>
             \/ Go(t, "again") /\ timeout' = [timeout EXCEPT ![t] = "forever"]
      BY <2>1, MemberFrames DEF dispatch_group_enter, dispatch_semaphore_wait
    <3> QED
      BY <1>1, <1>4, <2>a, <3>1 DEF Modes, MovesTo, Becomes, Go
  <2>2. ASSUME NEW m \in Members, dispatch_group_leave(t, m) PROVE Modes'
    <3>1. /\ Becomes(t, "left", m, None, FALSE)
          /\ timeout' = timeout /\ (pc' = pc \/ Go(t, "retain"))
      BY <2>2, MemberFrames DEF dispatch_group_leave, dispatch_semaphore_signal
    <3> QED
      BY <1>1, <1>4, <2>a, <3>1 DEF Modes, Becomes, Go
  <2>3. CASE ~dispatch_group_enter(t) /\ ~ \E m \in Members : dispatch_group_leave(t, m)
    <3>1. UNCHANGED <<pc, timeout>>
      BY <1>4, <2>3, SemaphoreUntouched
    <3>2. pc[t] = "idle"
      <4>1. CASE Enters(t) \/ Leaves(t)
        BY <2>3, <4>1 DEF Enters, Leaves, dispatch_group_async, Pushed, LeaverLooks, Drop, Free, On
      <4>2. CASE Wakes(t)
        BY <4>2 DEF Wakes, TakeList, TakeWaiters, SignalWaiter, Submit, NextBlock, WakeDone, On
      <4>3. CASE Notifies(t)
        BY <4>3 DEF Notifies, dispatch_group_notify, Link, RetainGroup, Publish, NotifierLooks, Free, On
      <4>4. CASE Waits(t)
        BY <1>4, <4>4, WaiterFrames DEF Waits, dispatch_group_wait, Free, Modes, GroupWaiting
      <4> QED
        BY <1>4, <4>1, <4>2, <4>3, <4>4
    <3>3. \A u \in Threads : u # t => frame'[u] = frame[u]
      BY <1>4, MemberFrames, WakerFrames, NotifierFrames, WaiterFrames
         DEF Enters, Leaves, Wakes, Notifies, Waits, Becomes, BecomesIdle, MovesTo
    <3> QED
      BY <1>1, <1>4, <3>1, <3>2, <3>3 DEF Modes
  <2> QED
    BY <2>1, <2>2, <2>3
<1> QED
  BY <1>2, <1>3, <1>4, NextCases

-----------------------------------------------------------------------------
\* After the client's release only members that leave are in the group's functions.
LEMMA ReleasedKept ==
    ASSUME CountInv, GroupTypeOK, Roles, Modes, Released, [Next]_vars
    PROVE  Released'
<1>a. IsGroup' <=> IsGroup
  BY OrigKept DEF IsGroup
<1>1. CASE UNCHANGED vars
  BY <1>1 DEF vars, semaVars, groupVars, counters, lifetime, Released, IsGroup, At
<1>2. CASE SemaphoreStep /\ UNCHANGED groupVars /\ IsGroup
  <2>1. PICK t \in Threads : SemaContinue(t) \/ SemaKernel(t)
    BY <1>2 DEF SemaphoreStep
  <2>2. held' = held
    BY <2>1, ContinueStep DEF HoldsKept
  <2> QED
    BY <1>a, <1>2, <2>2 DEF groupVars, Released
<1>3. CASE SemaphoreStep /\ UNCHANGED groupVars /\ ~IsGroup
  <2>1. SUFFICES ASSUME ~held' PROVE At(Waiting)' = {} /\ dsema_value' >= dsema_orig'
    BY <1>a, <1>3 DEF groupVars, Released, Modes
  <2>2. CASE dispatch_release
    <3>1. At(Waiting)' = At(Waiting) /\ At(Waiting) = {} /\ dsema_value >= dsema_orig
          /\ dsema_value' = dsema_value /\ dsema_orig' = dsema_orig
      BY <2>2, StayCount DEF dispatch_release, counters
    <3> QED
      BY <3>1
  <2>3. ASSUME NEW t \in Threads, SemaContinue(t) \/ SemaKernel(t)
        PROVE  At(Waiting)' = {} /\ dsema_value' >= dsema_orig'
    <3>1. held' = held /\ (~held /\ At(Waiting) = {} => At(Waiting)' = {})
      BY <2>3, ContinueStep DEF HoldsKept
    <3>2. At(Waiting) = {} /\ dsema_value >= dsema_orig
      BY <1>3, <2>1, <3>1 DEF Released
    <3>3. ~Undo(t)
      BY <3>2, Present DEF Undo, Waiting
    <3>4. dsema_value' = dsema_value /\ dsema_orig' = dsema_orig
      BY <2>3, <3>3 DEF SemaContinue, SemaKernel, TakeWakeup, EnterKernel, KernelSignals,
              Retain, CountWakeup, SignalKernel, Release, KernelWakesForNothing, KernelTimesOut, counters
    <3> QED
      BY <2>1, <3>1, <3>2, <3>4
  <2>4. ASSUME NEW t \in Threads, NEW to \in Timeouts, dispatch_semaphore_wait(t, to) PROVE FALSE
    BY <2>1, <2>4 DEF dispatch_semaphore_wait, lifetime
  <2>5. ASSUME NEW t \in Threads, held, dispatch_semaphore_signal(t) PROVE FALSE
    BY <2>1, <2>5 DEF dispatch_semaphore_signal, lifetime
  <2> QED
    BY <1>3, <2>2, <2>3, <2>4, <2>5 DEF SemaphoreStep
<1>4. CASE ReleaseGroup /\ IsGroup
  BY <1>a, <1>4 DEF ReleaseGroup, Released, groupVars
<1>5. ASSUME IsGroup, NEW t \in Threads,
             Enters(t) \/ Leaves(t) \/ Wakes(t) \/ Notifies(t) \/ Waits(t)
      PROVE  Released'
  <2>a. held' = held
    <3>1. dispatch_group_enter(t) \/ (\E m \in Members : dispatch_group_leave(t, m)) => held' = held
      BY DEF dispatch_group_enter, dispatch_group_leave, dispatch_semaphore_wait,
             dispatch_semaphore_signal, lifetime
    <3> QED
      BY <1>5, <3>1, SemaphoreUntouched
  <2>1. SUFFICES ASSUME ~held
                 PROVE  \A u \in Threads : frame'[u].at = "idle"
                            \/ (frame'[u].who \in Members /\ member'[frame'[u].who] = "left")
    BY <1>a, <1>5, <2>a DEF Released
  <2>2. \A u \in Threads : frame[u].at = "idle" \/ (frame[u].who \in Members /\ member[frame[u].who] = "left")
    BY <2>1 DEF Released
  <2>3. CASE Enters(t)
    BY <2>1, <2>2, <2>3
       DEF Enters, dispatch_group_async, dispatch_group_enter, Pushed, On, Roles, dispatch_semaphore_wait, Consuming
  <2>4. CASE Leaves(t)
    <3>1. ASSUME NEW m \in Members, dispatch_group_leave(t, m)
          PROVE  \A u \in Threads : frame'[u].at = "idle"
                     \/ (frame'[u].who \in Members /\ member'[frame'[u].who] = "left")
      <4>1. Becomes(t, "left", m, None, FALSE) /\ member' = [member EXCEPT ![m] = "left"]
        BY <3>1, MemberFrames DEF dispatch_group_leave
      <4>2. member \in [Members -> {"out", "entering", "in", "left"}]
        BY DEF GroupTypeOK
      <4>3. frame'[t].who = m /\ member'[m] = "left"
        BY <4>1, <4>2 DEF Becomes
      <4>4. \A x \in Members : member[x] = "left" => member'[x] = "left"
        BY <4>1, <4>2
      <4>5. \A u \in Threads : u # t => frame'[u] = frame[u]
        BY <4>1 DEF Becomes
      <4> QED
        BY <2>2, <4>3, <4>4, <4>5
    <3>2. CASE LeaverLooks(t) \/ Drop(t)
      <4>1. /\ member' = member
            /\ MovesTo(t, "wake") \/ MovesTo(t, "drop") \/ BecomesIdle(t)
            /\ frame[t].at # "idle"
        BY <3>2, MemberFrames DEF LeaverLooks, Drop, On
      <4> QED
        BY <2>2, <4>1 DEF MovesTo, BecomesIdle, Becomes
    <3> QED
      BY <2>4, <3>1, <3>2 DEF Leaves
  <2>5. CASE Wakes(t)
    BY <2>2, <2>5, WakesFrames DEF Consuming
  <2>6. CASE Notifies(t)
    BY <2>1, <2>2, <2>6, BlocksAssumption
       DEF Notifies, dispatch_group_notify, Link, RetainGroup, Publish, NotifierLooks, On, Roles, Notifying
  <2>7. CASE Waits(t)
    BY <2>1, <2>2, <2>7, WaiterFrames, NoneAssumption DEF Waits, dispatch_group_wait, GroupWaiting
  <2> QED
    BY <1>5, <2>3, <2>4, <2>5, <2>6, <2>7
<1> QED
  BY <1>1, <1>2, <1>3, <1>4, <1>5, NextCases

-----------------------------------------------------------------------------
\* A group is empty when all its permits are back.
LEMMA NobodyInside ==
    ASSUME CountInv, PermitsOut, IsGroup, AllLeft
    PROVE  Permitted = {} /\ \A m \in Members : member[m] # "in"
<1>1. dsema_orig \in Int
  BY ValuesAssumption DEF CountInv, CountTypeOK
<1>2. IsFiniteSet(Permitted) /\ dsema_orig = dsema_orig - Cardinality(Permitted)
  BY DEF PermitsOut, AllLeft
<1>3. Cardinality(Permitted) \in Nat
  BY <1>2, FS_CardinalityType
<1>4. Permitted = {}
  BY <1>1, <1>2, <1>3, FS_EmptySet
<1> QED
  BY <1>4 DEF Permitted

\* Who holds a permit does not change with a frame that is not of dispatch_group_enter.
LEMMA PermittedStay ==
    ASSUME NEW t \in Threads, member' = member,
           \A u \in Threads : u # t => frame'[u] = frame[u],
           frame[t].at # "push", frame'[t].at # "push"
    PROVE  Permitted' = Permitted
  BY DEF Permitted

\* Every member that is inside, or about to be, holds one of the permits.
LEMMA PermitsKept ==
    ASSUME CountInv, GroupTypeOK, Roles, Modes, PermitsOut, [Next]_vars
    PROVE  PermitsOut'
<1>a. dsema_orig' = dsema_orig /\ (IsGroup' <=> IsGroup)
  BY OrigKept DEF IsGroup
<1>b. member \in [Members -> {"out", "entering", "in", "left"}]
  BY DEF GroupTypeOK
<1>c. dsema_value \in Int /\ dsema_orig \in Int
  BY ValuesAssumption DEF CountInv, CountTypeOK
<1>1. CASE UNCHANGED vars \/ ReleaseGroup
  <2>1. Permitted' = Permitted
    BY <1>1 DEF vars, groupVars, ReleaseGroup, Permitted
  <2>2. dsema_value' = dsema_value
    BY <1>1 DEF vars, semaVars, counters, ReleaseGroup
  <2> QED
    BY <1>a, <2>1, <2>2 DEF PermitsOut
<1>2. CASE SemaphoreStep /\ UNCHANGED groupVars
  <2>1. Permitted' = Permitted
    BY <1>2 DEF groupVars, Permitted
  <2>2. IsGroup => dsema_value' = dsema_value
    <3> SUFFICES ASSUME IsGroup PROVE dsema_value' = dsema_value
      OBVIOUS
    <3>1. PICK t \in Threads : SemaContinue(t) \/ SemaKernel(t)
      BY <1>2 DEF SemaphoreStep
    <3>2. ~Undo(t)
      BY DEF Undo, Modes
    <3> QED
      BY <3>1, <3>2 DEF SemaContinue, SemaKernel, TakeWakeup, EnterKernel, KernelSignals,
              Retain, CountWakeup, SignalKernel, Release, KernelWakesForNothing, KernelTimesOut, counters
  <2> QED
    BY <1>a, <2>1, <2>2 DEF PermitsOut
<1>3. ASSUME IsGroup, NEW t \in Threads, Enters(t) PROVE PermitsOut'
  <2>1. ASSUME NEW m \in Members, dispatch_group_async(t, m) PROVE PermitsOut'
    <3>1. /\ member[m] = "out" /\ member' = [member EXCEPT ![m] = "entering"]
          /\ Becomes(t, "enter", m, None, FALSE) /\ frame[t].at = "idle"
          /\ dsema_value' = dsema_value
      BY <2>1, MemberFrames DEF dispatch_group_async, Free, counters
    <3>2. \A u \in Threads : frame[u].who # m
      BY <3>1 DEF Roles
    <3>3. Permitted' = Permitted
      BY <1>b, <3>1, <3>2 DEF Permitted, Becomes
    <3> QED
      BY <1>a, <3>1, <3>3 DEF PermitsOut
  <2>2. CASE dispatch_group_enter(t)
    <3> DEFINE m == frame[t].who
    <3>1. /\ frame[t].at = "enter" /\ MovesTo(t, "push") /\ member' = member
          /\ dsema_value' = dsema_value - 1
      BY <2>2, MemberFrames DEF dispatch_group_enter, dispatch_semaphore_wait, On
    <3>2. m \in Members /\ member[m] = "entering"
      BY <3>1, NoneAssumption, BlocksAssumption DEF Roles, Consuming
    <3>3. \A u \in Threads : frame[u].who = m => u = t
      BY <3>2, NoneAssumption DEF Roles
    <3>4. m \notin Permitted /\ Permitted' = Permitted \cup {m}
      BY <3>1, <3>2, <3>3 DEF Permitted, MovesTo, Becomes
    <3> HIDE DEF m
    <3>5. IsFiniteSet(Permitted)
      BY <1>3 DEF PermitsOut
    <3>6. IsFiniteSet(Permitted') /\ Cardinality(Permitted') = Cardinality(Permitted) + 1
      BY <3>4, <3>5, FS_AddElement
    <3>7. Cardinality(Permitted) \in Nat /\ dsema_value = dsema_orig - Cardinality(Permitted)
      BY <1>3, <3>5, FS_CardinalityType DEF PermitsOut
    <3> QED
      BY <1>a, <1>c, <3>1, <3>6, <3>7 DEF PermitsOut
  <2>3. CASE Pushed(t)
    <3>1. /\ frame[t].at = "push" /\ BecomesIdle(t) /\ member' = [member EXCEPT ![frame[t].who] = "in"]
          /\ dsema_value' = dsema_value
      BY <2>3, MemberFrames DEF Pushed, On, semaVars, counters
    <3>2. frame[t].who \in Members /\ member[frame[t].who] = "entering"
      BY <3>1, NoneAssumption, BlocksAssumption DEF Roles, Consuming
    <3>3. Permitted' = Permitted
      BY <1>b, <3>1, <3>2 DEF Permitted, BecomesIdle, Becomes
    <3> QED
      BY <1>a, <3>1, <3>3 DEF PermitsOut
  <2> QED
    BY <1>3, <2>1, <2>2, <2>3 DEF Enters
<1>4. ASSUME IsGroup, NEW t \in Threads, NEW m \in Members, dispatch_group_leave(t, m) PROVE PermitsOut'
  <2>1. /\ member[m] = "in" /\ member' = [member EXCEPT ![m] = "left"]
        /\ Becomes(t, "left", m, None, FALSE) /\ frame[t].at = "idle"
        /\ dsema_value' = dsema_value + 1
    BY <1>4, MemberFrames DEF dispatch_group_leave, dispatch_semaphore_signal, Free
  <2>2. m \in Permitted /\ Permitted' = Permitted \ {m}
    BY <1>b, <2>1 DEF Permitted, Becomes
  <2>3. IsFiniteSet(Permitted)
    BY <1>4 DEF PermitsOut
  <2>4. IsFiniteSet(Permitted') /\ Cardinality(Permitted') = Cardinality(Permitted) - 1
    BY <2>2, <2>3, FS_RemoveElement
  <2>5. Cardinality(Permitted) \in Nat /\ dsema_value = dsema_orig - Cardinality(Permitted)
    BY <1>4, <2>3, FS_CardinalityType DEF PermitsOut
  <2> QED
    BY <1>a, <1>c, <2>1, <2>4, <2>5 DEF PermitsOut
<1>5. ASSUME IsGroup, NEW t \in Threads, LeaverLooks(t) \/ Drop(t) \/ Wakes(t) \/ Notifies(t) \/ Waits(t)
      PROVE  PermitsOut'
  <2>1. /\ ~dispatch_group_enter(t) /\ ~ \E m \in Members : dispatch_group_leave(t, m)
        /\ frame[t].at # "push" /\ member' = member
    <3>1. frame[t].at \notin {"enter", "push"} /\ member' = member
      <4>1. CASE LeaverLooks(t) \/ Drop(t) \/ Notifies(t)
        BY <4>1 DEF LeaverLooks, Drop, Notifies, dispatch_group_notify, Link, RetainGroup, Publish,
                    NotifierLooks, On, Free
      <4>2. CASE Wakes(t)
        BY <4>2, WakesFrames DEF Consuming
      <4>3. CASE Waits(t)
        BY <4>3, WaiterFrames DEF Waits, dispatch_group_wait, Free, GroupWaiting
      <4> QED
        BY <1>5, <4>1, <4>2, <4>3
    <3>2. ~ \E m \in Members : dispatch_group_leave(t, m)
      BY <1>b, <3>1 DEF dispatch_group_leave
    <3> QED
      BY <3>1, <3>2 DEF dispatch_group_enter, On
  <2>2. frame'[t].at # "push" /\ \A u \in Threads : u # t => frame'[u] = frame[u]
    BY <1>5, <2>1, MemberFrames, WakesFrames, NotifierFrames, WaiterFrames
       DEF Notifies, Waits, BecomesIdle, MovesTo, Becomes, GroupWaiting
  <2>3. dsema_value' = dsema_value
    BY <1>5, <2>1, SemaphoreUntouched DEF Leaves, counters
  <2>4. Permitted' = Permitted
    BY <2>1, <2>2, PermittedStay
  <2> QED
    BY <1>a, <2>3, <2>4 DEF PermitsOut
<1> QED
  BY <1>1, <1>2, <1>3, <1>4, <1>5, NextCases DEF Leaves

-----------------------------------------------------------------------------
\* A step that registers nothing keeps what registered blocks wait for, if it makes nobody
\* enter who was recorded and nobody wake the group whose members are inside.
LEMMA AwaitedStay ==
    ASSUME GroupTypeOK, AwaitInv, awaits' = awaits,
           \A b \in Blocks : submitted'[b] > 0 => submitted[b] > 0 \/ \E t \in Threads : Waking(t),
           \A m \in Members : /\ member[m] \in {"in", "left"} => member'[m] \in {"in", "left"}
                              /\ member[m] = "left" => member'[m] = "left",
           (\E t \in Threads : Waking(t)') =>
               (\E t \in Threads : Waking(t)) \/ \A m \in Members : member[m] # "in"
    PROVE  AwaitInv'
<1> SUFFICES ASSUME NEW b \in Blocks, awaits[b].state = "apart"
             PROVE  /\ \A m \in awaits[b].members : member'[m] \in {"in", "left"}
                    /\ (\E t \in Threads : Waking(t)') \/ submitted'[b] > 0 =>
                           \A m \in awaits[b].members : member'[m] = "left"
  BY DEF AwaitInv
<1>1. \A m \in awaits[b].members : m \in Members /\ member[m] \in {"in", "left"}
  BY DEF AwaitInv, GroupTypeOK
<1>2. (\E t \in Threads : Waking(t)') \/ submitted'[b] > 0 => \A m \in awaits[b].members : member[m] = "left"
  BY <1>1 DEF AwaitInv
<1>3. /\ \A m \in awaits[b].members : member'[m] \in {"in", "left"}
      /\ \A m \in awaits[b].members : member[m] = "left" => member'[m] = "left"
  BY <1>1
<1> QED
  BY <1>2, <1>3

LEMMA AwaitKept ==
    ASSUME CountInv, GroupTypeOK, Roles, Modes, PermitsOut, Unregistered, AwaitInv, [Next]_vars
    PROVE  AwaitInv'
<1>a. member \in [Members -> {"out", "entering", "in", "left"}] /\ submitted \in [Blocks -> Nat]
  BY DEF GroupTypeOK
<1>1. CASE UNCHANGED groupVars \/ ReleaseGroup
  BY <1>1 DEF groupVars, ReleaseGroup, list, AwaitInv, Waking
<1>2. ASSUME NEW t \in Threads, Enters(t) PROVE AwaitInv'
  <2>1. UNCHANGED <<awaits, submitted>>
    BY <1>2 DEF Enters, dispatch_group_async, dispatch_group_enter, Pushed, list
  <2>2. frame'[t].at \in {"enter", "push", "idle"} /\ \A u \in Threads : u # t => frame'[u] = frame[u]
    BY <1>2, MemberFrames DEF Enters, Becomes, BecomesIdle, MovesTo
  <2>3. \A m \in Members : member[m] \in {"in", "left"} => member'[m] = member[m]
    <3>1. ASSUME NEW m \in Members, dispatch_group_async(t, m)
          PROVE  \A x \in Members : member[x] \in {"in", "left"} => member'[x] = member[x]
      BY <1>a, <3>1 DEF dispatch_group_async
    <3>2. CASE dispatch_group_enter(t)
      BY <3>2 DEF dispatch_group_enter
    <3>3. CASE Pushed(t)
      <4>1. member[frame[t].who] = "entering" /\ member' = [member EXCEPT ![frame[t].who] = "in"]
        BY <3>3, NoneAssumption, BlocksAssumption DEF Pushed, On, Roles, Consuming
      <4> QED
        BY <1>a, <4>1
    <3> QED
      BY <1>2, <3>1, <3>2, <3>3 DEF Enters
  <2>4. \A u \in Threads : Waking(u)' => Waking(u)
    BY <2>2 DEF Waking
  <2> QED
    BY <2>1, <2>3, <2>4, AwaitedStay
<1>3. ASSUME IsGroup, NEW t \in Threads, Leaves(t) PROVE AwaitInv'
  <2>1. UNCHANGED <<awaits, submitted>>
    BY <1>3 DEF Leaves, dispatch_group_leave, LeaverLooks, Drop, list
  <2>2. \A m \in Members : /\ member[m] \in {"in", "left"} => member'[m] \in {"in", "left"}
                           /\ member[m] = "left" => member'[m] = "left"
    <3>1. member' = member \/ \E m \in Members : member' = [member EXCEPT ![m] = "left"]
      BY <1>3 DEF Leaves, dispatch_group_leave, LeaverLooks, Drop
    <3> QED
      BY <1>a, <3>1
  <2>3. /\ frame'[t].at \in {"left", "drop", "idle"} \/ AllLeft
        /\ \A u \in Threads : u # t => frame'[u] = frame[u]
    BY <1>3, MemberFrames DEF Leaves, Becomes, BecomesIdle, MovesTo
  <2>4. AllLeft => \A m \in Members : member[m] # "in"
    BY <1>3, NobodyInside
  <2> QED
    BY <2>1, <2>2, <2>3, <2>4, AwaitedStay DEF Waking
<1>4. ASSUME NEW t \in Threads, Wakes(t) PROVE AwaitInv'
  <2>1. UNCHANGED <<member, awaits>> /\ Waking(t)
    BY <1>4, WakesFrames DEF Waking, Consuming
  <2> QED
    BY <2>1, AwaitedStay
<1>5. ASSUME NEW t \in Threads, NEW b \in Blocks, dispatch_group_notify(t, b) PROVE AwaitInv'
  <2>1. /\ awaits[b].state = "new" /\ UNCHANGED <<member, submitted>>
        /\ awaits' = [awaits EXCEPT ![b] =
               [state |-> IF \E u \in Threads : Waking(u) THEN "amid" ELSE "apart", members |-> Inside]]
    BY <1>5 DEF dispatch_group_notify
  <2>2. frame'[t].at \in {"retain", "link"} /\ \A u \in Threads : u # t => frame'[u] = frame[u]
    BY <1>5, NotifierFrames DEF Becomes
  <2>3. \A u \in Threads : Waking(u)' => Waking(u)
    BY <2>2 DEF Waking
  <2>4. ASSUME NEW c \in Blocks, c # b, awaits'[c].state = "apart"
        PROVE  /\ \A m \in awaits'[c].members : member'[m] \in {"in", "left"}
               /\ (\E u \in Threads : Waking(u)') \/ submitted'[c] > 0 =>
                      \A m \in awaits'[c].members : member'[m] = "left"
    BY <2>1, <2>3, <2>4 DEF AwaitInv, GroupTypeOK
  <2>5. awaits'[b] = [state |-> IF \E u \in Threads : Waking(u) THEN "amid" ELSE "apart", members |-> Inside]
    BY <2>1 DEF GroupTypeOK
  <2>6. ASSUME awaits'[b].state = "apart"
        PROVE  /\ \A m \in awaits'[b].members : member'[m] \in {"in", "left"}
               /\ ~ \E u \in Threads : Waking(u)'
               /\ ~(submitted'[b] > 0)
    <3>1. ~ \E u \in Threads : Waking(u)
      BY <2>5, <2>6
    <3>2. submitted[b] = 0
      BY <2>1 DEF Unregistered
    <3> QED
      BY <2>1, <2>3, <2>5, <3>1, <3>2 DEF Inside
  <2> QED
    BY <2>4, <2>6 DEF AwaitInv
<1>6. ASSUME IsGroup, NEW t \in Threads, Notifies(t), ~ \E b \in Blocks : dispatch_group_notify(t, b)
      PROVE  AwaitInv'
  <2>1. UNCHANGED <<awaits, submitted, member>>
    BY <1>6 DEF Notifies, Link, RetainGroup, Publish, NotifierLooks, list
  <2>2. /\ frame'[t].at \in {"publish", "notified", "idle"} \/ AllLeft
        /\ \A u \in Threads : u # t => frame'[u] = frame[u]
    BY <1>6, NotifierFrames DEF Notifies, Becomes, BecomesIdle, MovesTo
  <2>3. AllLeft => \A m \in Members : member[m] # "in"
    BY <1>6, NobodyInside
  <2> QED
    BY <2>1, <2>2, <2>3, AwaitedStay DEF Waking
<1>7. ASSUME IsGroup, NEW t \in Threads, Waits(t) PROVE AwaitInv'
  <2>1. /\ UNCHANGED <<awaits, submitted, member>>
        /\ \/ frame' = frame
           \/ /\ frame'[t].at \in GroupWaiting \cup {"idle"} \/ AllLeft
              /\ \A u \in Threads : u # t => frame'[u] = frame[u]
    BY <1>7, WaiterFrames DEF Waits, Becomes, list, GroupWaiting
  <2>2. AllLeft => \A m \in Members : member[m] # "in"
    BY <1>7, NobodyInside
  <2> QED
    BY <2>1, <2>2, AwaitedStay DEF Waking, GroupWaiting
<1> QED
  BY <1>1, <1>2, <1>3, <1>4, <1>5, <1>6, <1>7, NextCases DEF vars

-----------------------------------------------------------------------------
\* What a thread holds of the list depends on its own frame.
LEMMA OthersHold ==
    ASSUME NEW t \in Threads, \A u \in Threads : u # t => frame'[u] = frame[u]
    PROVE  \A u \in Threads, a, b \in Blocks : u # t =>
               /\ Holds(u, b)' <=> Holds(u, b)
               /\ Links(u, a, b)' <=> Links(u, a, b)
               /\ HasSubmitted(u, b)' <=> HasSubmitted(u, b)
  BY DEF Holds, Publishes, Consumes, Links, HasSubmitted

\* A step that moves nothing of the list from where it is keeps the list.
LEMMA ListStays ==
    ASSUME ListInv, UNCHANGED list,
           \A u \in Threads, a, b \in Blocks :
               /\ Holds(u, b)' <=> Holds(u, b)
               /\ Links(u, a, b)' <=> Links(u, a, b)
               /\ HasSubmitted(u, b)' <=> HasSubmitted(u, b)
    PROVE  ListInv'
<1>1. UNCHANGED <<dsema_notify_head, dsema_notify_tail, dsn_next, freed, submitted, awaits>>
  BY DEF list
<1>2. \A b \in Blocks : First(b)' <=> First(b)
  BY <1>1 DEF First
<1>3. OneList'
  BY <1>1, <1>2 DEF ListInv, OneList
<1>4. Linking'
  BY <1>1, <1>2 DEF ListInv, Linking
<1>5. Linked' /\ Unregistered' /\ SubmittedOnce'
  BY <1>1, <1>2 DEF ListInv, Linked, Unregistered, SubmittedOnce
<1> QED
  BY <1>3, <1>4, <1>5 DEF ListInv

\* The waking thread takes the published list.
LEMMA TakeListKeeps ==
    ASSUME GroupTypeOK, Roles, ListInv, NEW t \in Threads, TakeList(t)
    PROVE  ListInv'
<1>1. /\ UNCHANGED <<dsema_notify_tail, dsn_next, freed, submitted, awaits>>
      /\ dsema_notify_head' = None /\ frame[t].at = "wake"
  BY DEF TakeList, On
<1>2. Becomes(t, "take", frame[t].who, dsema_notify_head, dsema_notify_head # None)
  BY WakerFrames
<1>3. \A u \in Threads, a, b \in Blocks :
          /\ Holds(u, b)' <=> (IF u = t THEN dsema_notify_head = b ELSE Holds(u, b))
          /\ Links(u, a, b)' <=> Links(u, a, b)
          /\ HasSubmitted(u, b)' <=> HasSubmitted(u, b)
          /\ ~Holds(t, b)
  <2>1. \A b \in Blocks : /\ Holds(t, b)' <=> dsema_notify_head = b
                          /\ ~Holds(t, b)
    BY <1>1, <1>2 DEF Becomes, Holds, Publishes, Consumes, Consuming
  <2>2. \A a, b \in Blocks : /\ ~Links(t, a, b)' /\ ~Links(t, a, b)
                             /\ ~HasSubmitted(t, b)' /\ ~HasSubmitted(t, b)
    BY <1>1, <1>2 DEF Becomes, Links, HasSubmitted
  <2>3. \A u \in Threads : u # t => frame'[u] = frame[u]
    BY <1>2 DEF Becomes
  <2> QED
    BY <2>1, <2>2, <2>3, OthersHold
<1>4. \A b \in Blocks : First(b)' <=> First(b)
  BY <1>1, <1>3, NoneAssumption DEF First
<1>5. OneList'
  <2>1. \A u, v \in Threads, a, b \in Blocks : Holds(u, a)' /\ Holds(v, b)' => u = v
    <3>1. \A u \in Threads, a, b \in Blocks : dsema_notify_head = a => ~Holds(u, b)
      BY NoneAssumption DEF ListInv, OneList
    <3>2. \A u, v \in Threads, a, b \in Blocks : Holds(u, a) /\ Holds(v, b) => u = v
      BY DEF ListInv, OneList
    <3> QED
      BY <1>3, <3>1, <3>2
  <2>2. dsema_notify_tail' = None <=> \A b \in Blocks : ~First(b)'
    BY <1>1, <1>4 DEF ListInv, OneList
  <2> QED
    BY <1>1, <2>1, <2>2 DEF OneList
<1>6. Linking'
  BY <1>1, <1>3, <1>4 DEF ListInv, Linking
<1>7. Linked' /\ Unregistered' /\ SubmittedOnce'
  BY <1>1, <1>3, <1>4 DEF ListInv, Linked, Unregistered, SubmittedOnce
<1> QED
  BY <1>5, <1>6, <1>7 DEF ListInv

\* The thread that found no last element publishes its own.
LEMMA PublishKeeps ==
    ASSUME GroupTypeOK, Roles, ListInv, NEW t \in Threads, Publish(t)
    PROVE  ListInv'
<1> DEFINE w == frame[t].who
<1>1. /\ UNCHANGED <<dsema_notify_tail, dsn_next, freed, submitted, awaits>>
      /\ dsema_notify_head' = w /\ frame[t].at = "publish"
  BY DEF Publish, On
<1>2. MovesTo(t, "notified") /\ w \in Blocks
  BY <1>1, NotifierFrames DEF Roles, Notifying
<1>3. \A u \in Threads, a, b \in Blocks :
          /\ Holds(u, b)' <=> u # t /\ Holds(u, b)
          /\ Links(u, a, b)' <=> Links(u, a, b)
          /\ HasSubmitted(u, b)' <=> HasSubmitted(u, b)
          /\ Holds(t, b) <=> b = w
  <2>1. \A b \in Blocks : /\ ~Holds(t, b)'
                          /\ Holds(t, b) <=> b = w
    BY <1>1, <1>2 DEF MovesTo, Becomes, Holds, Publishes, Consumes, Consuming
  <2>2. \A a, b \in Blocks : /\ ~Links(t, a, b)' /\ ~Links(t, a, b)
                             /\ ~HasSubmitted(t, b)' /\ ~HasSubmitted(t, b)
    BY <1>1, <1>2 DEF MovesTo, Becomes, Links, HasSubmitted
  <2>3. \A u \in Threads : u # t => frame'[u] = frame[u]
    BY <1>2 DEF MovesTo, Becomes
  <2> QED
    BY <2>1, <2>2, <2>3, OthersHold
<1> HIDE DEF w
<1>4. dsema_notify_head = None /\ \A u \in Threads, b \in Blocks : Holds(u, b) => u = t
  BY <1>2, <1>3 DEF ListInv, OneList
<1>5. \A b \in Blocks : First(b)' <=> First(b)
  BY <1>1, <1>2, <1>3, <1>4, NoneAssumption DEF First
<1>6. OneList'
  BY <1>1, <1>3, <1>4, <1>5 DEF ListInv, OneList
<1>7. Linking'
  BY <1>1, <1>3, <1>5 DEF ListInv, Linking
<1>8. Linked' /\ Unregistered' /\ SubmittedOnce'
  BY <1>1, <1>3, <1>5 DEF ListInv, Linked, Unregistered, SubmittedOnce
<1> QED
  BY <1>6, <1>7, <1>8 DEF ListInv

\* A block is submitted when the waking thread has come to it, and was not before.
LEMMA SubmitKeeps ==
    ASSUME GroupTypeOK, Roles, ListInv, NEW t \in Threads, Submit(t)
    PROVE  ListInv'
<1> DEFINE c == frame[t].block
<1>1. /\ UNCHANGED <<dsema_notify_head, dsema_notify_tail, dsn_next, freed, awaits>>
      /\ submitted' = [submitted EXCEPT ![c] = submitted[c] + 1] /\ frame[t].at = "submit"
  BY DEF Submit, On
<1>2. MovesTo(t, "next") /\ c \in Blocks
  BY WakerFrames DEF Submit, GroupTypeOK, Frame
<1>3. \A u \in Threads, a, b \in Blocks :
          /\ Holds(u, b)' <=> Holds(u, b)
          /\ Links(u, a, b)' <=> Links(u, a, b)
          /\ HasSubmitted(u, b)' <=> (IF u = t THEN b = c ELSE HasSubmitted(u, b))
          /\ Holds(t, b) <=> b = c
  <2>1. \A b \in Blocks : /\ Holds(t, b)' <=> b = c
                          /\ Holds(t, b) <=> b = c
                          /\ HasSubmitted(t, b)' <=> b = c
    BY <1>1, <1>2 DEF MovesTo, Becomes, Holds, Publishes, Consumes, Consuming, HasSubmitted
  <2>2. \A a, b \in Blocks : ~Links(t, a, b)' /\ ~Links(t, a, b)
    BY <1>1, <1>2 DEF MovesTo, Becomes, Links
  <2>3. \A u \in Threads : u # t => frame'[u] = frame[u]
    BY <1>2 DEF MovesTo, Becomes
  <2> QED
    BY <2>1, <2>2, <2>3, OthersHold
<1>a. \A u \in Threads, b \in Blocks : HasSubmitted(u, b) => Holds(u, b) /\ u # t
  BY <1>1 DEF HasSubmitted, Holds, Consumes, Consuming
<1> HIDE DEF c
<1>4. \A b \in Blocks : First(b)' <=> First(b)
  BY <1>1, <1>3 DEF First
<1>5. First(c) /\ c \notin freed /\ awaits[c].state # "new"
  BY <1>2, <1>3 DEF First, ListInv, Linked, Unregistered
<1>6. submitted[c] = 0 /\ submitted'[c] = 1 /\ \A b \in Blocks : b # c => submitted'[b] = submitted[b]
  <2>1. \A u \in Threads : ~HasSubmitted(u, c)
    BY <1>2, <1>3, <1>a DEF ListInv, OneList
  <2>2. submitted[c] \in Nat /\ submitted[c] <= 1 /\ submitted[c] # 1
    BY <1>2, <1>5, <2>1 DEF ListInv, SubmittedOnce, GroupTypeOK
  <2>3. submitted \in [Blocks -> Nat]
    BY DEF GroupTypeOK
  <2>4. submitted'[c] = submitted[c] + 1 /\ \A b \in Blocks : b # c => submitted'[b] = submitted[b]
    BY <1>1, <1>2, <2>3
  <2> QED
    BY <2>2, <2>4
<1>7. OneList'
  BY <1>1, <1>3, <1>4 DEF ListInv, OneList
<1>8. Linking' /\ Linked'
  BY <1>1, <1>3, <1>4 DEF ListInv, Linking, Linked
<1>9. Unregistered'
  BY <1>1, <1>2, <1>4, <1>5, <1>6 DEF ListInv, Unregistered
<1>10. SubmittedOnce'
  BY <1>1, <1>2, <1>3, <1>6, <1>a DEF ListInv, SubmittedOnce
<1> QED
  BY <1>7, <1>8, <1>9, <1>10 DEF ListInv
\* The waking thread goes on to the next block, or takes the tail away and has no more.
LEMMA NextBlockKeeps ==
    ASSUME GroupTypeOK, Roles, ListInv, NEW t \in Threads, NextBlock(t)
    PROVE  ListInv'
<1> DEFINE c == frame[t].block
           n == dsn_next[c]
<1>1. /\ UNCHANGED <<dsema_notify_head, dsn_next, submitted, awaits>>
      /\ freed' = freed \cup {c} /\ frame[t].at = "next"
      /\ n # None \/ dsema_notify_tail = c
      /\ dsema_notify_tail' = IF n = None THEN None ELSE dsema_notify_tail
  BY DEF NextBlock, On, IsLast
<1>2. Becomes(t, "submit", frame[t].who, n, frame[t].drop) /\ c \in Blocks
  BY <1>1, WakerFrames DEF Roles
<1>3. \A u \in Threads, a, b \in Blocks :
          /\ Holds(u, b)' <=> (IF u = t THEN b = n ELSE Holds(u, b))
          /\ Links(u, a, b)' <=> Links(u, a, b)
          /\ HasSubmitted(u, b)' <=> u # t /\ HasSubmitted(u, b)
          /\ Holds(t, b) <=> b = c
          /\ HasSubmitted(t, b) <=> b = c
  <2>1. \A b \in Blocks : /\ Holds(t, b)' <=> b = n
                          /\ Holds(t, b) <=> b = c
                          /\ HasSubmitted(t, b) <=> b = c
                          /\ ~HasSubmitted(t, b)'
    BY <1>1, <1>2 DEF Becomes, Holds, Publishes, Consumes, Consuming, HasSubmitted
  <2>2. \A a, b \in Blocks : ~Links(t, a, b)' /\ ~Links(t, a, b)
    BY <1>1, <1>2 DEF Becomes, Links
  <2>3. \A u \in Threads : u # t => frame'[u] = frame[u]
    BY <1>2 DEF Becomes
  <2> QED
    BY <2>1, <2>2, <2>3, OthersHold
<1>a. n \in Blocks \cup {None}
  BY <1>2 DEF GroupTypeOK
<1>b. \A b \in Blocks : dsn_next'[b] = dsn_next[b]
  BY <1>1
<1>c. dsn_next[c] = n
  OBVIOUS
<1> HIDE DEF n, c
<1>4. dsema_notify_head = None /\ \A u \in Threads, b \in Blocks : Holds(u, b) => u = t
  BY <1>2, <1>3 DEF ListInv, OneList
<1>5. \A b \in Blocks : First(b) <=> b = c
  BY <1>3, <1>4, NoneAssumption DEF First
<1>6. \A b \in Blocks : First(b)' <=> b = n
  BY <1>1, <1>3, <1>4, NoneAssumption DEF First
<1>7. c \notin freed /\ n \notin freed' /\ dsema_notify_tail # None /\ awaits[c].state # "new"
  <2>1. c \notin freed /\ dsema_notify_tail # None /\ awaits[c].state # "new"
    BY <1>2, <1>5 DEF ListInv, OneList, Linked, Unregistered
  <2>2. n \in Blocks => n \notin freed /\ n # c
    BY <1>2, <1>5, <1>c, <2>1 DEF ListInv, Linked
  <2>3. n = None => n \notin freed'
    BY <1>1, <1>2, NoneAssumption DEF GroupTypeOK
  <2> QED
    BY <1>1, <1>a, <2>1, <2>2, <2>3
<1>8. OneList'
  <2>1. \A u, v \in Threads, a, b \in Blocks : Holds(u, a)' /\ Holds(v, b)' => u = v
    BY <1>3, <1>4
  <2>2. dsema_notify_tail' = None <=> \A b \in Blocks : ~First(b)'
    BY <1>1, <1>6, <1>7, <1>a, NoneAssumption
  <2> QED
    BY <1>1, <1>4, <2>1, <2>2 DEF OneList
<1>9. Linking'
  <2>1. ASSUME NEW u \in Threads, NEW a \in Blocks, NEW b \in Blocks, Links(u, a, b)
        PROVE  /\ dsn_next'[a] = None /\ dsema_notify_tail' # a /\ a \notin freed' /\ awaits'[a].state # "new"
               /\ b \notin freed' /\ ~First(b)' /\ \A x \in Blocks : dsn_next'[x] # b
    <3>1. /\ dsn_next[a] = None /\ dsema_notify_tail # a /\ a \notin freed /\ awaits[a].state # "new"
          /\ b \notin freed /\ ~First(b) /\ \A x \in Blocks : dsn_next[x] # b
      BY <2>1 DEF ListInv, Linking
    <3>2. a # c /\ b # c /\ b # n
      BY <1>1, <1>2, <1>5, <1>c, <3>1
    <3> QED
      BY <1>1, <1>6, <3>1, <3>2, NoneAssumption
  <2>2. \A u, v \in Threads, a, x, b \in Blocks : Links(u, a, x) /\ Links(v, a, b) => u = v
    BY DEF ListInv, Linking
  <2> QED
    BY <1>3, <2>1, <2>2 DEF Linking
<1>10. Linked'
  <2>1. \A a, b \in Blocks : dsn_next[a] = dsn_next[b] /\ dsn_next[a] # None => a = b
    BY DEF ListInv, Linked
  <2>2. ASSUME NEW a \in Blocks, NEW b \in Blocks, dsn_next[a] = b, b \in freed' \/ b = n
        PROVE  a \in freed'
    <3>1. CASE b \in freed \/ b = c
      BY <1>1, <1>5, <2>2, <3>1 DEF ListInv, Linked
    <3>2. CASE b = n
      BY <1>1, <1>2, <1>c, <2>1, <2>2, <3>2, NoneAssumption
    <3> QED
      BY <1>1, <2>2, <3>1, <3>2
  <2>3. ASSUME NEW b \in Blocks, dsema_notify_tail' = b PROVE b \notin freed' /\ dsn_next[b] = None
    <3>1. n # None /\ dsema_notify_tail = b
      BY <1>1, <2>3, NoneAssumption
    <3>2. b \notin freed /\ dsn_next[b] = None
      BY <3>1 DEF ListInv, Linked
    <3> QED
      BY <1>1, <1>c, <3>1, <3>2
  <2> QED
    BY <1>b, <1>6, <1>7, <2>1, <2>2, <2>3 DEF Linked
<1>11. Unregistered'
  BY <1>1, <1>2, <1>5, <1>6, <1>7, <1>c, NoneAssumption DEF ListInv, Unregistered
<1>12. SubmittedOnce'
  BY <1>1, <1>3 DEF ListInv, SubmittedOnce
<1> QED
  BY <1>8, <1>9, <1>10, <1>11, <1>12 DEF ListInv

\* A thread claims the tail for a block: the only one of an empty list, or the one that it
\* will link behind the last.
LEMMA NotifyKeeps ==
    ASSUME GroupTypeOK, Roles, ListInv, NEW t \in Threads, NEW w \in Blocks, dispatch_group_notify(t, w)
    PROVE  ListInv'
<1> DEFINE p == dsema_notify_tail
<1>1. /\ UNCHANGED <<dsema_notify_head, dsn_next, freed, submitted>>
      /\ dsema_notify_tail' = w /\ frame[t].at = "idle" /\ awaits[w].state = "new"
      /\ awaits' = [awaits EXCEPT ![w] =
             [state |-> IF \E u \in Threads : Waking(u) THEN "amid" ELSE "apart", members |-> Inside]]
  BY DEF dispatch_group_notify, Free
<1>2. Becomes(t, IF p = None THEN "retain" ELSE "link", w, p, FALSE)
  BY NotifierFrames
<1>3. awaits'[w].state # "new" /\ \A b \in Blocks : b # w => awaits'[b] = awaits[b]
  BY <1>1 DEF GroupTypeOK
<1>4. \A u \in Threads, a, b \in Blocks :
          /\ Holds(u, b)' <=> (IF u = t THEN p = None /\ b = w ELSE Holds(u, b))
          /\ Links(u, a, b)' <=> (IF u = t THEN p = a /\ b = w ELSE Links(u, a, b))
          /\ HasSubmitted(u, b)' <=> HasSubmitted(u, b)
          /\ ~Holds(t, b) /\ ~Links(t, a, b)
  <2>1. \A b \in Blocks : /\ Holds(t, b)' <=> p = None /\ b = w
                          /\ ~Holds(t, b) /\ ~HasSubmitted(t, b) /\ ~HasSubmitted(t, b)'
    BY <1>1, <1>2 DEF Becomes, Holds, Publishes, Consumes, Consuming, HasSubmitted
  <2>2. \A a, b \in Blocks : /\ Links(t, a, b)' <=> p = a /\ b = w
                             /\ ~Links(t, a, b)
    BY <1>1, <1>2, NoneAssumption DEF Becomes, Links
  <2>3. \A u \in Threads : u # t => frame'[u] = frame[u]
    BY <1>2 DEF Becomes
  <2> QED
    BY <2>1, <2>2, <2>3, OthersHold
<1>5. /\ w \notin freed /\ p # w /\ ~First(w) /\ submitted[w] = 0 /\ dsn_next[w] = None
      /\ \A a \in Blocks : dsn_next[a] # w
  BY <1>1 DEF ListInv, Unregistered
<1>a. p \in Blocks \cup {None} /\ dsema_notify_head \in Blocks \cup {None}
  BY DEF GroupTypeOK
<1>6. \A b \in Blocks : First(b)' <=> First(b) \/ (p = None /\ b = w)
  BY <1>1, <1>4 DEF First
<1>7. p = None => dsema_notify_head = None /\ \A u \in Threads, b \in Blocks : ~Holds(u, b)
  BY <1>a DEF ListInv, OneList, First
<1>8. OneList'
  <2>1. \A u, v \in Threads, a, b \in Blocks : Holds(u, a)' /\ Holds(v, b)' => u = v
    BY <1>4, <1>7 DEF ListInv, OneList
  <2>2. \A u \in Threads, b \in Blocks : Holds(u, b)' => dsema_notify_head' = None
    BY <1>1, <1>4, <1>7 DEF ListInv, OneList
  <2>3. dsema_notify_tail' # None /\ \E b \in Blocks : First(b)'
    <3>1. CASE p = None
      BY <1>1, <1>6, <3>1, NoneAssumption
    <3>2. CASE p # None
      BY <1>1, <1>6, <3>2, NoneAssumption DEF ListInv, OneList
    <3> QED
      BY <3>1, <3>2
  <2> QED
    BY <2>1, <2>2, <2>3 DEF OneList
<1>9. Linking'
  <2>1. ASSUME NEW u \in Threads, NEW a \in Blocks, NEW b \in Blocks, Links(u, a, b)'
        PROVE  /\ dsn_next'[a] = None /\ dsema_notify_tail' # a /\ a \notin freed' /\ awaits'[a].state # "new"
               /\ b \notin freed' /\ ~First(b)' /\ \A x \in Blocks : dsn_next'[x] # b
    <3>1. CASE u = t
      <4>1. p = a /\ b = w /\ p # None
        BY <1>4, <2>1, <3>1, NoneAssumption
      <4>2. dsn_next[a] = None /\ a \notin freed /\ awaits[a].state # "new"
        BY <4>1 DEF ListInv, Linked, Unregistered
      <4> QED
        BY <1>1, <1>3, <1>5, <1>6, <4>1, <4>2
    <3>2. CASE u # t
      <4>1. Links(u, a, b)
        BY <1>4, <2>1, <3>2
      <4>2. /\ dsn_next[a] = None /\ a \notin freed /\ awaits[a].state # "new"
            /\ b \notin freed /\ ~First(b) /\ \A x \in Blocks : dsn_next[x] # b
        BY <4>1 DEF ListInv, Linking
      <4>3. awaits[b].state # "new"
        BY <4>1 DEF Roles, Links
      <4> QED
        BY <1>1, <1>3, <1>6, <4>2, <4>3
    <3> QED
      BY <3>1, <3>2
  <2>2. ASSUME NEW u \in Threads, NEW v \in Threads, NEW a \in Blocks, NEW x \in Blocks, NEW b \in Blocks,
               Links(u, a, x)', Links(v, a, b)'
        PROVE  u = v
    <3>1. \A s \in Threads, y \in Blocks : Links(s, a, y) => p # a
      BY DEF ListInv, Linking
    <3>2. \A s, r \in Threads, y, z \in Blocks : Links(s, a, y) /\ Links(r, a, z) => s = r
      BY DEF ListInv, Linking
    <3> QED
      BY <1>4, <2>2, <3>1, <3>2
  <2> QED
    BY <2>1, <2>2 DEF Linking
<1>10. Linked'
  BY <1>1, <1>5, <1>6 DEF ListInv, Linked
<1>11. Unregistered'
  BY <1>1, <1>3, <1>6 DEF ListInv, Unregistered
<1>12. SubmittedOnce'
  BY <1>1, <1>4 DEF ListInv, SubmittedOnce
<1> QED
  BY <1>8, <1>9, <1>10, <1>11, <1>12 DEF ListInv

\* A thread links its block behind the one that was the last.
LEMMA LinkKeeps ==
    ASSUME GroupTypeOK, Roles, ListInv, NEW t \in Threads, Link(t)
    PROVE  ListInv'
<1> DEFINE p == frame[t].block
           w == frame[t].who
<1>1. /\ UNCHANGED <<dsema_notify_head, dsema_notify_tail, freed, submitted, awaits>>
      /\ dsn_next' = [dsn_next EXCEPT ![p] = w] /\ frame[t].at = "link"
  BY DEF Link, On
<1>2. BecomesIdle(t) /\ p \in Blocks /\ w \in Blocks
  BY <1>1, NotifierFrames DEF Roles, Notifying
<1>3. \A u \in Threads, a, b \in Blocks :
          /\ Holds(u, b)' <=> Holds(u, b)
          /\ Links(u, a, b)' <=> u # t /\ Links(u, a, b)
          /\ HasSubmitted(u, b)' <=> HasSubmitted(u, b)
  <2>1. \A b \in Blocks : /\ ~Holds(t, b) /\ ~Holds(t, b)'
                          /\ ~HasSubmitted(t, b) /\ ~HasSubmitted(t, b)'
    BY <1>1, <1>2 DEF BecomesIdle, Becomes, Holds, Publishes, Consumes, Consuming, HasSubmitted
  <2>2. \A a, b \in Blocks : ~Links(t, a, b)'
    BY <1>1, <1>2 DEF BecomesIdle, Becomes, Links
  <2>3. \A u \in Threads : u # t => frame'[u] = frame[u]
    BY <1>2 DEF BecomesIdle, Becomes
  <2> QED
    BY <2>1, <2>2, <2>3, OthersHold
<1>4. Links(t, p, w) /\ awaits[w].state # "new"
  BY <1>1, <1>2 DEF Links, Roles
<1>5. \A u \in Threads, a, b \in Blocks : Links(u, a, b) /\ u # t => a # p /\ b # w
  <2>1. \A u \in Threads, a, b \in Blocks : Links(u, a, b) /\ u # t => a # p
    BY <1>2, <1>4 DEF ListInv, Linking
  <2>2. \A u \in Threads, a, b \in Blocks : Links(u, a, b) /\ u # t => b # w
    BY <1>2, NoneAssumption DEF Roles, Links
  <2> QED
    BY <2>1, <2>2
<1>6. dsn_next'[p] = w /\ \A b \in Blocks : b # p => dsn_next'[b] = dsn_next[b]
  BY <1>1, <1>2 DEF GroupTypeOK
<1> HIDE DEF p, w
<1>7. /\ dsn_next[p] = None /\ dsema_notify_tail # p /\ p \notin freed /\ awaits[p].state # "new"
      /\ w \notin freed /\ ~First(w) /\ \A c \in Blocks : dsn_next[c] # w
  BY <1>2, <1>4 DEF ListInv, Linking
<1>8. \A b \in Blocks : First(b)' <=> First(b)
  BY <1>1, <1>3 DEF First
<1>9. OneList'
  BY <1>1, <1>3, <1>8 DEF ListInv, OneList
<1>10. Linking'
  <2>1. ASSUME NEW u \in Threads, NEW a \in Blocks, NEW b \in Blocks, Links(u, a, b)'
        PROVE  /\ dsn_next'[a] = None /\ dsema_notify_tail' # a /\ a \notin freed' /\ awaits'[a].state # "new"
               /\ b \notin freed' /\ ~First(b)' /\ \A x \in Blocks : dsn_next'[x] # b
    <3>1. Links(u, a, b) /\ a # p /\ b # w
      BY <1>3, <1>5, <2>1
    <3>2. /\ dsn_next[a] = None /\ dsema_notify_tail # a /\ a \notin freed /\ awaits[a].state # "new"
          /\ b \notin freed /\ ~First(b) /\ \A x \in Blocks : dsn_next[x] # b
      BY <3>1 DEF ListInv, Linking
    <3> QED
      BY <1>1, <1>6, <1>8, <3>1, <3>2
  <2>2. \A u, v \in Threads, a, x, b \in Blocks : Links(u, a, x) /\ Links(v, a, b) => u = v
    BY DEF ListInv, Linking
  <2> QED
    BY <1>3, <2>1, <2>2 DEF Linking
<1>11. Linked'
  <2>1. \A a, b \in Blocks : dsn_next'[a] = dsn_next'[b] /\ dsn_next'[a] # None => a = b
    BY <1>6, <1>7 DEF ListInv, Linked
  <2>2. \A a, b \in Blocks : dsn_next'[a] = b /\ (b \in freed \/ First(b)) => a \in freed
    BY <1>6, <1>7 DEF ListInv, Linked
  <2>3. \A b \in Blocks : dsema_notify_tail = b => b \notin freed /\ dsn_next'[b] = None
    BY <1>6, <1>7 DEF ListInv, Linked
  <2> QED
    BY <1>1, <1>8, <2>1, <2>2, <2>3 DEF ListInv, Linked
<1>12. Unregistered'
  BY <1>1, <1>4, <1>6, <1>7, <1>8 DEF ListInv, Unregistered
<1>13. SubmittedOnce'
  BY <1>1, <1>3 DEF ListInv, SubmittedOnce
<1> QED
  BY <1>9, <1>10, <1>11, <1>12, <1>13 DEF ListInv

\* A step whose thread has the same of the list in hand afterwards.
LEMMA NothingMoves ==
    ASSUME ListInv, UNCHANGED list, NEW t \in Threads, \A u \in Threads : u # t => frame'[u] = frame[u],
           \A a, b \in Blocks : /\ Holds(t, b)' <=> Holds(t, b)
                                /\ Links(t, a, b)' <=> Links(t, a, b)
                                /\ HasSubmitted(t, b)' <=> HasSubmitted(t, b)
    PROVE  ListInv'
<1>1. \A u \in Threads, a, b \in Blocks :
          /\ Holds(u, b)' <=> Holds(u, b)
          /\ Links(u, a, b)' <=> Links(u, a, b)
          /\ HasSubmitted(u, b)' <=> HasSubmitted(u, b)
  BY OthersHold
<1> QED
  BY <1>1, ListStays

\* A thread that is at none of the places of the list has nothing of it in hand.
Elsewhere == {"idle", "enter", "push", "left", "drop", "wake", "notified"} \cup GroupWaiting

LEMMA EmptyHanded ==
    ASSUME NEW t \in Threads, frame[t].at \in Elsewhere
    PROVE  \A a, b \in Blocks : ~Holds(t, b) /\ ~Links(t, a, b) /\ ~HasSubmitted(t, b)
  BY DEF Elsewhere, GroupWaiting, Holds, Publishes, Consumes, Consuming, Links, HasSubmitted

LEMMA EmptyHandedAfter ==
    ASSUME NEW t \in Threads, frame'[t].at \in Elsewhere
    PROVE  \A a, b \in Blocks : ~Holds(t, b)' /\ ~Links(t, a, b)' /\ ~HasSubmitted(t, b)'
  BY DEF Elsewhere, GroupWaiting, Holds, Publishes, Consumes, Consuming, Links, HasSubmitted

\* The list keeps its shape whatever thread pushes on it or takes it.
LEMMA ListKept ==
    ASSUME GroupTypeOK, Roles, Modes, ListInv, [Next]_vars
    PROVE  ListInv'
<1>1. CASE UNCHANGED groupVars \/ ReleaseGroup
  <2>1. UNCHANGED list /\ frame' = frame
    BY <1>1 DEF groupVars, ReleaseGroup, list
  <2>2. \A u \in Threads, a, b \in Blocks :
            /\ Holds(u, b)' <=> Holds(u, b)
            /\ Links(u, a, b)' <=> Links(u, a, b)
            /\ HasSubmitted(u, b)' <=> HasSubmitted(u, b)
    BY <2>1 DEF Holds, Publishes, Consumes, Links, HasSubmitted
  <2> QED
    BY <2>1, <2>2, ListStays
<1>2. ASSUME NEW t \in Threads, Enters(t) \/ Leaves(t) PROVE ListInv'
  <2>1. UNCHANGED list
    BY <1>2 DEF Enters, dispatch_group_async, dispatch_group_enter, Pushed,
                Leaves, dispatch_group_leave, LeaverLooks, Drop
  <2>2. frame[t].at \in Elsewhere
    BY <1>2 DEF Enters, dispatch_group_async, dispatch_group_enter, Pushed,
                Leaves, dispatch_group_leave, LeaverLooks, Drop, On, Free, Elsewhere
  <2>3. frame'[t].at \in Elsewhere /\ \A u \in Threads : u # t => frame'[u] = frame[u]
    BY <1>2, MemberFrames DEF Enters, Leaves, Becomes, BecomesIdle, MovesTo, Elsewhere
  <2> QED
    BY <2>1, <2>2, <2>3, EmptyHanded, EmptyHandedAfter, NothingMoves
<1>3. ASSUME NEW t \in Threads, TakeWaiters(t) \/ SignalWaiter(t) PROVE ListInv'
  <2>1. UNCHANGED list /\ frame[t].at \in {"take", "submit"}
    BY <1>3 DEF TakeWaiters, SignalWaiter, On
  <2>2. MovesTo(t, "submit")
    BY <1>3, WakerFrames
  <2>3. \A a, b \in Blocks : /\ Holds(t, b)' <=> Holds(t, b)
                             /\ Links(t, a, b)' <=> Links(t, a, b)
                             /\ HasSubmitted(t, b)' <=> HasSubmitted(t, b)
    BY <2>1, <2>2 DEF MovesTo, Becomes, Holds, Publishes, Consumes, Consuming, Links, HasSubmitted
  <2> QED
    BY <2>1, <2>2, <2>3, NothingMoves DEF MovesTo, Becomes
<1>4. ASSUME NEW t \in Threads, WakeDone(t) PROVE ListInv'
  <2>1. UNCHANGED list /\ frame[t].at = "submit" /\ frame[t].block = None
    BY <1>4 DEF WakeDone, On
  <2>2. \A a, b \in Blocks : ~Holds(t, b) /\ ~Links(t, a, b) /\ ~HasSubmitted(t, b)
    BY <2>1, NoneAssumption DEF Holds, Publishes, Consumes, Links, HasSubmitted
  <2>3. frame'[t].at \in Elsewhere /\ \A u \in Threads : u # t => frame'[u] = frame[u]
    BY <1>4, WakerFrames DEF Becomes, BecomesIdle, MovesTo, Elsewhere
  <2> QED
    BY <2>1, <2>2, <2>3, EmptyHandedAfter, NothingMoves
<1>5. ASSUME NEW t \in Threads, Wakes(t) PROVE ListInv'
  BY <1>3, <1>4, <1>5, TakeListKeeps, SubmitKeeps, NextBlockKeeps DEF Wakes
<1>6. ASSUME NEW t \in Threads, RetainGroup(t) PROVE ListInv'
  <2>1. UNCHANGED list /\ frame[t].at = "retain" /\ MovesTo(t, "publish")
    BY <1>6, NotifierFrames DEF RetainGroup, On
  <2>2. \A a, b \in Blocks : /\ Holds(t, b)' <=> Holds(t, b)
                             /\ Links(t, a, b)' <=> Links(t, a, b)
                             /\ HasSubmitted(t, b)' <=> HasSubmitted(t, b)
    BY <2>1 DEF MovesTo, Becomes, Holds, Publishes, Consumes, Consuming, Links, HasSubmitted
  <2> QED
    BY <2>1, <2>2, NothingMoves DEF MovesTo, Becomes
<1>7. ASSUME NEW t \in Threads, NotifierLooks(t) PROVE ListInv'
  <2>1. UNCHANGED list /\ frame[t].at \in Elsewhere
    BY <1>7 DEF NotifierLooks, On, Elsewhere
  <2>2. frame'[t].at \in Elsewhere /\ \A u \in Threads : u # t => frame'[u] = frame[u]
    BY <1>7, NotifierFrames DEF Becomes, BecomesIdle, Elsewhere
  <2> QED
    BY <2>1, <2>2, EmptyHanded, EmptyHandedAfter, NothingMoves
<1>8. ASSUME NEW t \in Threads, Notifies(t) PROVE ListInv'
  BY <1>6, <1>7, <1>8, NotifyKeeps, LinkKeeps, PublishKeeps DEF Notifies
<1>9. ASSUME NEW t \in Threads, Waits(t) PROVE ListInv'
  <2>1. UNCHANGED list /\ frame[t].at \in Elsewhere
    BY <1>9, WaiterFrames DEF Waits, dispatch_group_wait, Free, Elsewhere
  <2>2. frame'[t].at \in Elsewhere /\ \A u \in Threads : u # t => frame'[u] = frame[u]
    <3>1. ASSUME NEW to \in Timeouts, dispatch_group_wait(t, to)
          PROVE  frame'[t].at \in Elsewhere /\ \A u \in Threads : u # t => frame'[u] = frame[u]
      BY <2>1, <3>1, WaiterFrames DEF Becomes, Elsewhere, GroupWaiting
    <3>2. CASE WaiterSteps(t)
      BY <3>2, WaiterFrames DEF Becomes, Elsewhere, GroupWaiting
    <3> QED
      BY <1>9, <3>1, <3>2 DEF Waits
  <2> QED
    BY <2>1, <2>2, EmptyHanded, EmptyHandedAfter, NothingMoves
<1> QED
  BY <1>1, <1>2, <1>5, <1>8, <1>9, NextCases DEF vars

-----------------------------------------------------------------------------
\* The counts that the references are, before and after a step.
LEMMA ReferenceCounts ==
    /\ Cardinality(At(Holding)) \in Nat /\ Cardinality(At(Holding)') \in Nat
    /\ IsFiniteSet(Publishing) /\ Cardinality(Publishing) \in Nat /\ Cardinality(Publishing') \in Nat
    /\ IsFiniteSet(Dropping) /\ Cardinality(Dropping) \in Nat /\ Cardinality(Dropping') \in Nat
    /\ One(held) \in Nat /\ One(held') \in Nat
    /\ One(dsema_notify_head # None) \in Nat /\ One(dsema_notify_head' # None) \in Nat
<1>1. \A S \in SUBSET Threads : IsFiniteSet(S) /\ Cardinality(S) \in Nat
  BY ThreadsAssumption, FS_Subset, FS_CardinalityType
<1>2. At(Holding) \in SUBSET Threads /\ At(Holding)' \in SUBSET Threads
  BY DEF At
<1>3. Publishing \in SUBSET Threads /\ Publishing' \in SUBSET Threads
  BY DEF Publishing
<1>4. Dropping \in SUBSET Threads /\ Dropping' \in SUBSET Threads
  BY DEF Dropping
<1>5. /\ One(held) \in Nat /\ One(held') \in Nat
      /\ One(dsema_notify_head # None) \in Nat /\ One(dsema_notify_head' # None) \in Nat
  BY DEF One
<1> QED
  BY <1>1, <1>2, <1>3, <1>4, <1>5

\* What a thread's frame counts for is changed by its own steps only.
LEMMA OthersRefer ==
    ASSUME NEW t \in Threads, \A u \in Threads : u # t => frame'[u] = frame[u]
    PROVE  /\ member' = member /\ (\A m \in Members : frame'[t].who = m <=> frame[t].who = m)
                  => Referring' = Referring
           /\ Publishing' = IF frame'[t].at = "publish" THEN Publishing \cup {t} ELSE Publishing \ {t}
           /\ Dropping' = IF frame'[t].at \in Consuming /\ frame'[t].drop
                          THEN Dropping \cup {t} ELSE Dropping \ {t}
<1>1. member' = member /\ (\A m \in Members : frame'[t].who = m <=> frame[t].who = m)
          => Referring' = Referring
  BY DEF Referring
<1>2. Publishing' = IF frame'[t].at = "publish" THEN Publishing \cup {t} ELSE Publishing \ {t}
  BY DEF Publishing
<1>3. Dropping' = IF frame'[t].at \in Consuming /\ frame'[t].drop
                  THEN Dropping \cup {t} ELSE Dropping \ {t}
  BY DEF Dropping
<1> QED
  BY <1>1, <1>2, <1>3

\* A step of a thread that has no part of the list, before or after it.
LEMMA NoListReference ==
    ASSUME NEW t \in Threads, \A u \in Threads : u # t => frame'[u] = frame[u],
           frame[t].at \notin {"publish"} \cup Consuming, frame'[t].at \notin {"publish"} \cup Consuming
    PROVE  Publishing' = Publishing /\ Dropping' = Dropping
<1>1. t \notin Publishing /\ t \notin Dropping
  BY DEF Publishing, Dropping
<1>2. Publishing' = Publishing \ {t}
  BY OthersRefer
<1>3. Dropping' = Dropping \ {t}
  BY Zenon DEF Dropping
<1> QED
  BY <1>1, <1>2, <1>3

\* The references of a group stay the same if nothing that has one changes.
LEMMA SameReferences ==
    ASSUME GroupReferences, pc' = pc, held' = held, do_ref_cnt' = do_ref_cnt,
           dsema_notify_head' = dsema_notify_head,
           Referring' = Referring, Publishing' = Publishing, Dropping' = Dropping
    PROVE  GroupReferences'
<1>1. At(Holding)' = At(Holding)
  BY StayCount
<1> QED
  BY <1>1 DEF GroupReferences

\* dispatch_group_enter and dispatch_group_leave: the semaphore's references change.
LEMMA InnerReferences ==
    ASSUME GroupReferences, HoldsKept, dsema_notify_head' = dsema_notify_head, do_ref_cnt \in Int,
           Referring' = Referring, Publishing' = Publishing, Dropping' = Dropping
    PROVE  GroupReferences'
<1>1. /\ held' = held
      /\ do_ref_cnt' = do_ref_cnt + (Cardinality(At(Holding)') - Cardinality(At(Holding)))
  BY DEF HoldsKept
<1>2. One(held') = One(held) /\ One(dsema_notify_head' # None) = One(dsema_notify_head # None)
  BY <1>1
<1>3. /\ Cardinality(Referring') = Cardinality(Referring) /\ Cardinality(Publishing') = Cardinality(Publishing)
      /\ Cardinality(Dropping') = Cardinality(Dropping) /\ IsFiniteSet(Referring')
  BY DEF GroupReferences
<1>4. Cardinality(Referring) \in Nat
  BY FS_CardinalityType DEF GroupReferences
<1>5. do_ref_cnt' = One(held') + Cardinality(At(Holding)') + Cardinality(Referring')
                        + Cardinality(Publishing') + Cardinality(Dropping') + One(dsema_notify_head' # None)
  BY <1>1, <1>2, <1>3, <1>4, ReferenceCounts DEF GroupReferences
<1> QED
  BY <1>3, <1>5 DEF GroupReferences

\* A member has a reference from dispatch_group_async until it has left.
LEMMA MemberReferences ==
    ASSUME CountInv, GroupTypeOK, Roles, GroupReferences, NEW t \in Threads, Enters(t) \/ Leaves(t)
    PROVE  GroupReferences'
<1>a. member \in [Members -> {"out", "entering", "in", "left"}] /\ do_ref_cnt \in Int
  BY DEF GroupTypeOK, CountInv, CountTypeOK
<1>b. frame[t].at \notin {"publish"} \cup Consuming /\ dsema_notify_head' = dsema_notify_head
  BY DEF Enters, dispatch_group_async, dispatch_group_enter, Pushed,
         Leaves, dispatch_group_leave, LeaverLooks, Drop, On, Free, Consuming, list
<1>c. frame'[t].at \notin {"publish"} \cup Consuming /\ \A u \in Threads : u # t => frame'[u] = frame[u]
  BY MemberFrames DEF Enters, Leaves, Becomes, BecomesIdle, MovesTo, Consuming
<1>d. Publishing' = Publishing /\ Dropping' = Dropping
  BY <1>b, <1>c, NoListReference
<1>e. frame[t].at = "idle" => frame[t].who \notin Members
  BY DEF Roles, Consuming
<1>f. IsFiniteSet(Referring) /\ Cardinality(Referring) \in Nat
  BY FS_CardinalityType DEF GroupReferences
<1>1. ASSUME NEW m \in Members, dispatch_group_async(t, m) PROVE GroupReferences'
  <2>1. /\ member[m] = "out" /\ member' = [member EXCEPT ![m] = "entering"] /\ frame[t].at = "idle"
        /\ do_ref_cnt' = do_ref_cnt + 1 /\ pc' = pc /\ held' = held
    BY <1>1 DEF dispatch_group_async, Free
  <2>2. Becomes(t, "enter", m, None, FALSE)
    BY <1>1, MemberFrames
  <2>3. m \notin Referring
    BY <2>1 DEF Referring, Roles
  <2>4. Referring' = Referring \cup {m}
    BY <1>a, <1>e, <2>1, <2>2 DEF Referring, Becomes
  <2>5. IsFiniteSet(Referring') /\ Cardinality(Referring') = Cardinality(Referring) + 1
    BY <1>f, <2>3, <2>4, FS_AddElement
  <2>6. At(Holding)' = At(Holding)
    BY <2>1, StayCount
  <2> QED
    BY <1>a, <1>b, <1>d, <1>f, <2>1, <2>5, <2>6, ReferenceCounts DEF GroupReferences
<1>2. CASE dispatch_group_enter(t)
  <2>1. member' = member /\ MovesTo(t, "push")
    BY <1>2, MemberFrames DEF dispatch_group_enter
  <2>2. Referring' = Referring
    BY <2>1, OthersRefer DEF MovesTo, Becomes
  <2>3. HoldsKept
    BY <1>2, WaitStep DEF dispatch_group_enter, Timeouts
  <2> QED
    BY <1>a, <1>b, <1>d, <2>2, <2>3, InnerReferences
<1>3. CASE Pushed(t)
  <2>1. /\ frame[t].at = "push" /\ member' = [member EXCEPT ![frame[t].who] = "in"] /\ BecomesIdle(t)
        /\ UNCHANGED <<pc, held, do_ref_cnt>>
    BY <1>3, MemberFrames DEF Pushed, On, semaVars, lifetime
  <2>2. frame[t].who \in Members /\ member[frame[t].who] = "entering"
    BY <2>1, NoneAssumption, BlocksAssumption DEF Roles, Consuming
  <2>3. Referring' = Referring
    BY <1>a, <2>1, <2>2, NoneAssumption DEF Referring, BecomesIdle, Becomes
  <2> QED
    BY <1>b, <1>d, <2>1, <2>3, SameReferences
<1>4. ASSUME NEW m \in Members, dispatch_group_leave(t, m) PROVE GroupReferences'
  <2>1. /\ member[m] = "in" /\ member' = [member EXCEPT ![m] = "left"] /\ frame[t].at = "idle"
        /\ Becomes(t, "left", m, None, FALSE)
    BY <1>4, MemberFrames DEF dispatch_group_leave, Free
  <2>2. Referring' = Referring
    BY <1>a, <1>e, <2>1 DEF Referring, Becomes
  <2>3. HoldsKept
    BY <1>4, SignalStep DEF dispatch_group_leave
  <2> QED
    BY <1>a, <1>b, <1>d, <2>2, <2>3, InnerReferences
<1>5. CASE LeaverLooks(t)
  <2>1. member' = member /\ UNCHANGED <<pc, held, do_ref_cnt>>
    BY <1>5 DEF LeaverLooks, semaVars, lifetime
  <2>2. Referring' = Referring
    BY <1>5, <2>1, MemberFrames, OthersRefer DEF MovesTo, Becomes
  <2> QED
    BY <1>b, <1>d, <2>1, <2>2, SameReferences
<1>6. CASE Drop(t)
  <2> DEFINE m == frame[t].who
  <2>1. /\ frame[t].at = "drop" /\ member' = member /\ BecomesIdle(t)
        /\ do_ref_cnt' = do_ref_cnt - 1 /\ pc' = pc /\ held' = held
    BY <1>6, MemberFrames DEF Drop, On
  <2>2. m \in Members /\ member[m] = "left"
    BY <2>1, NoneAssumption, BlocksAssumption DEF Roles, Consuming
  <2>3. \A u \in Threads : frame[u].who = m => u = t
    BY <2>2, NoneAssumption DEF Roles
  <2>4. m \in Referring /\ Referring' = Referring \ {m}
    BY <2>1, <2>2, <2>3, NoneAssumption DEF Referring, BecomesIdle, Becomes
  <2> HIDE DEF m
  <2>5. IsFiniteSet(Referring') /\ Cardinality(Referring') = Cardinality(Referring) - 1
    BY <1>f, <2>4, FS_RemoveElement
  <2>6. At(Holding)' = At(Holding)
    BY <2>1, StayCount
  <2> QED
    BY <1>a, <1>b, <1>d, <1>f, <2>1, <2>5, <2>6, ReferenceCounts DEF GroupReferences
<1> QED
  BY <1>1, <1>2, <1>3, <1>4, <1>5, <1>6 DEF Enters, Leaves

\* The thread that takes the list has the list's reference until it has submitted the blocks.
LEMMA WakeReferences ==
    ASSUME CountInv, GroupTypeOK, Roles, GroupReferences, NEW t \in Threads, Wakes(t)
    PROVE  GroupReferences'
<1>a. do_ref_cnt \in Int /\ frame[t] \in Frame
  BY DEF GroupTypeOK, CountInv, CountTypeOK
<1>b. /\ UNCHANGED <<member, pc, held>> /\ frame[t].at \in {"wake"} \cup Consuming
      /\ \A u \in Threads : u # t => frame'[u] = frame[u]
  <2>1. UNCHANGED <<pc, held>>
    BY DEF Wakes, TakeList, TakeWaiters, SignalWaiter, Submit, NextBlock, WakeDone, semaVars, lifetime
  <2> QED
    BY <2>1, WakesFrames
<1>c. Referring' = Referring
  <2>1. frame'[t].who = frame[t].who \/ (frame'[t].who = None /\ frame[t].who \notin Members)
    BY WakerFrames DEF Wakes, Becomes, BecomesIdle, MovesTo
  <2> QED
    BY <1>b, <2>1, OthersRefer, NoneAssumption
<1>d. Publishing' = Publishing
  <2>1. t \notin Publishing /\ frame'[t].at # "publish"
    BY <1>b, WakesFrames DEF Publishing, Consuming
  <2> QED
    BY <1>b, <2>1, OthersRefer
<1>e. At(Holding)' = At(Holding) /\ One(held') = One(held)
  BY <1>b, StayCount
<1>f. IsFiniteSet(Referring) /\ Cardinality(Referring) \in Nat
  BY FS_CardinalityType DEF GroupReferences
<1>1. CASE TakeList(t)
  <2>1. /\ Becomes(t, "take", frame[t].who, dsema_notify_head, dsema_notify_head # None)
        /\ frame[t].at = "wake" /\ dsema_notify_head' = None /\ do_ref_cnt' = do_ref_cnt
    BY <1>1, WakerFrames DEF TakeList, On, semaVars, lifetime
  <2>2. t \notin Dropping
    BY <2>1 DEF Dropping, Consuming
  <2>3. CASE dsema_notify_head = None
    <3>1. Dropping' = Dropping
      <4>1. ~frame'[t].drop
        BY <2>1, <2>3 DEF Becomes
      <4>2. t \notin Dropping'
        BY <4>1 DEF Dropping
      <4> QED
        BY <1>b, <2>2, <4>2 DEF Dropping
    <3> QED
      BY <1>b, <1>c, <1>d, <2>1, <2>3, <3>1, SameReferences
  <2>4. CASE dsema_notify_head # None
    <3>1. frame'[t].drop /\ frame'[t].at \in Consuming
      BY <2>1, <2>4 DEF Becomes, Consuming
    <3>2. Dropping' = Dropping \cup {t}
      BY <1>b, <3>1 DEF Dropping
    <3>3. Cardinality(Dropping') = Cardinality(Dropping) + 1
      BY <2>2, <3>2, ReferenceCounts, FS_AddElement
    <3>4. One(dsema_notify_head # None) = 1 /\ One(dsema_notify_head' # None) = 0
      BY <2>1, <2>4 DEF One
    <3> QED
      BY <1>a, <1>c, <1>d, <1>e, <1>f, <2>1, <3>3, <3>4, ReferenceCounts DEF GroupReferences
  <2> QED
    BY <2>3, <2>4
<1>2. CASE TakeWaiters(t) \/ SignalWaiter(t) \/ Submit(t) \/ NextBlock(t)
  <2>1. /\ frame[t].at \in Consuming /\ frame'[t].at \in Consuming /\ frame'[t].drop = frame[t].drop
        /\ dsema_notify_head' = dsema_notify_head /\ do_ref_cnt' = do_ref_cnt
    <3>1. frame'[t].at \in Consuming /\ frame'[t].drop = frame[t].drop
      BY <1>2, WakerFrames DEF MovesTo, Becomes, Consuming
    <3>2. /\ frame[t].at \in Consuming /\ dsema_notify_head' = dsema_notify_head
          /\ do_ref_cnt' = do_ref_cnt
      BY <1>2 DEF TakeWaiters, SignalWaiter, Submit, NextBlock, On, Consuming, list, semaVars, lifetime
    <3> QED
      BY <3>1, <3>2
  <2>2. Dropping' = Dropping
    BY <1>b, <2>1, Zenon DEF Dropping
  <2> QED
    BY <1>b, <1>c, <1>d, <2>1, <2>2, SameReferences
<1>3. CASE WakeDone(t)
  <2>1. /\ frame[t].at \in Consuming /\ frame'[t].at \notin Consuming
        /\ dsema_notify_head' = dsema_notify_head
        /\ do_ref_cnt' = IF frame[t].drop THEN do_ref_cnt - 1 ELSE do_ref_cnt
    BY <1>3, WakerFrames DEF WakeDone, On, MovesTo, BecomesIdle, Becomes, Consuming, list
  <2>2. t \notin Dropping'
    BY <2>1 DEF Dropping
  <2>3. Dropping' = Dropping \ {t}
    BY <1>b, <2>2 DEF Dropping
  <2>4. CASE frame[t].drop
    <3>1. t \in Dropping
      BY <2>1, <2>4 DEF Dropping
    <3>2. Cardinality(Dropping') = Cardinality(Dropping) - 1
      BY <2>3, <3>1, ReferenceCounts, FS_RemoveElement
    <3>3. do_ref_cnt' = do_ref_cnt - 1
      BY <2>1, <2>4
    <3>4. One(dsema_notify_head' # None) = One(dsema_notify_head # None)
      BY <2>1
    <3> QED
      BY <1>a, <1>c, <1>d, <1>e, <1>f, <3>2, <3>3, <3>4, ReferenceCounts DEF GroupReferences
  <2>5. CASE ~frame[t].drop
    <3>1. t \notin Dropping
      BY <2>5 DEF Dropping
    <3>2. Dropping' = Dropping /\ do_ref_cnt' = do_ref_cnt
      BY <2>1, <2>3, <2>5, <3>1
    <3> QED
      BY <1>b, <1>c, <1>d, <2>1, <3>2, SameReferences
  <2> QED
    BY <2>4, <2>5
<1> QED
  BY <1>1, <1>2, <1>3 DEF Wakes

\* The thread that publishes a block takes a reference for the list.
LEMMA NotifyReferences ==
    ASSUME CountInv, GroupTypeOK, Roles, OneList, GroupReferences, NEW t \in Threads, Notifies(t)
    PROVE  GroupReferences'
<1>a. do_ref_cnt \in Int
  BY DEF CountInv, CountTypeOK
<1>b. /\ UNCHANGED <<member, pc, held>>
      /\ \A u \in Threads : u # t => frame'[u] = frame[u]
  <2>1. UNCHANGED <<member, pc, held>>
    BY DEF Notifies, dispatch_group_notify, Link, RetainGroup, Publish, NotifierLooks, semaVars, lifetime
  <2> QED
    BY <2>1, NotifierFrames DEF Notifies, Becomes, BecomesIdle, MovesTo
<1>c. Referring' = Referring
  <2>1. frame[t].who \notin Members
    BY BlocksAssumption DEF Notifies, dispatch_group_notify, Link, RetainGroup, Publish, NotifierLooks,
          On, Free, Roles, Notifying, Consuming
  <2>2. frame'[t].who \notin Members
    BY <2>1, NotifierFrames, NoneAssumption, BlocksAssumption DEF Notifies, Becomes, BecomesIdle, MovesTo
  <2> QED
    BY <1>b, <2>1, <2>2, OthersRefer
<1>d. Dropping' = Dropping
  <2>1. frame[t].at \notin Consuming
    BY DEF Notifies, dispatch_group_notify, Link, RetainGroup, Publish, NotifierLooks, On, Free, Consuming
  <2>2. frame'[t].at \notin Consuming
    BY NotifierFrames DEF Notifies, Becomes, BecomesIdle, MovesTo, Consuming
  <2>3. t \notin Dropping /\ t \notin Dropping'
    BY <2>1, <2>2 DEF Dropping
  <2> QED
    BY <1>b, <2>3 DEF Dropping
<1>e. At(Holding)' = At(Holding) /\ One(held') = One(held)
  BY <1>b, StayCount
<1>f. IsFiniteSet(Referring) /\ Cardinality(Referring) \in Nat
  BY FS_CardinalityType DEF GroupReferences
<1>1. CASE (\E b \in Blocks : dispatch_group_notify(t, b)) \/ Link(t) \/ NotifierLooks(t)
  <2>1. /\ frame[t].at # "publish" /\ dsema_notify_head' = dsema_notify_head
        /\ do_ref_cnt' = do_ref_cnt
    BY <1>1 DEF dispatch_group_notify, Link, NotifierLooks, On, Free, list, semaVars, lifetime
  <2>2. frame'[t].at # "publish"
    BY <1>1, NotifierFrames DEF Becomes, BecomesIdle
  <2>3. Publishing' = Publishing
    BY <1>b, <2>1, <2>2, OthersRefer DEF Publishing
  <2> QED
    BY <1>b, <1>c, <1>d, <2>1, <2>3, SameReferences
<1>2. CASE RetainGroup(t)
  <2>1. /\ frame[t].at = "retain" /\ frame'[t].at = "publish" /\ do_ref_cnt' = do_ref_cnt + 1
        /\ dsema_notify_head' = dsema_notify_head
    BY <1>2, NotifierFrames DEF RetainGroup, On, MovesTo, Becomes, list
  <2>2. t \notin Publishing /\ Publishing' = Publishing \cup {t}
    BY <1>b, <2>1 DEF Publishing
  <2>3. Cardinality(Publishing') = Cardinality(Publishing) + 1
    BY <2>2, ReferenceCounts, FS_AddElement
  <2>4. One(dsema_notify_head' # None) = One(dsema_notify_head # None)
    BY <2>1
  <2> QED
    BY <1>a, <1>c, <1>d, <1>e, <1>f, <2>1, <2>3, <2>4, ReferenceCounts DEF GroupReferences
<1>3. CASE Publish(t)
  <2>1. /\ frame[t].at = "publish" /\ frame'[t].at = "notified" /\ do_ref_cnt' = do_ref_cnt
        /\ dsema_notify_head' = frame[t].who /\ frame[t].who \in Blocks
    BY <1>3, NotifierFrames DEF Publish, On, MovesTo, Becomes, semaVars, lifetime, Roles, Notifying
  <2>2. t \in Publishing /\ Publishing' = Publishing \ {t}
    BY <1>b, <2>1 DEF Publishing
  <2>3. Cardinality(Publishing') = Cardinality(Publishing) - 1
    BY <2>2, ReferenceCounts, FS_RemoveElement
  <2>4. dsema_notify_head = None
    BY <2>1 DEF OneList, Holds, Publishes
  <2>5. One(dsema_notify_head' # None) = 1 /\ One(dsema_notify_head # None) = 0
    BY <2>1, <2>4, NoneAssumption DEF One
  <2> QED
    BY <1>a, <1>c, <1>d, <1>e, <1>f, <2>1, <2>3, <2>5, ReferenceCounts DEF GroupReferences
<1> QED
  BY <1>1, <1>2, <1>3 DEF Notifies

\* The references are those of the client, the signals, the members and the list.
LEMMA GroupReferencesKept ==
    ASSUME CountInv, GroupTypeOK, Roles, Modes, OneList, GroupReferences, [Next]_vars
    PROVE  GroupReferences'
<1>a. do_ref_cnt \in Int
  BY DEF CountInv, CountTypeOK
<1>b. frame' = frame /\ member' = member
      => Referring' = Referring /\ Publishing' = Publishing /\ Dropping' = Dropping
  BY DEF Referring, Publishing, Dropping
<1>f. IsFiniteSet(Referring) /\ Cardinality(Referring) \in Nat
  BY FS_CardinalityType DEF GroupReferences
<1>1. CASE UNCHANGED vars
  BY <1>1, <1>b, SameReferences DEF vars, semaVars, groupVars, lifetime, list
<1>2. CASE SemaphoreStep /\ UNCHANGED groupVars /\ ~dispatch_release
  <2>1. HoldsKept
    BY <1>2, ContinueStep, WaitStep, SignalStep DEF SemaphoreStep
  <2>2. Referring' = Referring /\ Publishing' = Publishing /\ Dropping' = Dropping
        /\ dsema_notify_head' = dsema_notify_head
    BY <1>2, <1>b DEF groupVars, list
  <2> QED
    BY <1>a, <2>1, <2>2, InnerReferences
<1>3. CASE (dispatch_release /\ UNCHANGED groupVars) \/ ReleaseGroup
  <2>1. /\ held /\ ~held' /\ do_ref_cnt' = do_ref_cnt - 1 /\ pc' = pc
        /\ frame' = frame /\ member' = member /\ dsema_notify_head' = dsema_notify_head
    BY <1>3 DEF dispatch_release, ReleaseGroup, groupVars, list
  <2>2. One(held) = 1 /\ One(held') = 0
    BY <2>1 DEF One
  <2>3. Referring' = Referring /\ Publishing' = Publishing /\ Dropping' = Dropping
    BY <1>b, <2>1
  <2>4. At(Holding)' = At(Holding)
    BY <2>1, StayCount
  <2>5. do_ref_cnt' = do_ref_cnt - 1 /\ One(dsema_notify_head' # None) = One(dsema_notify_head # None)
    BY <2>1
  <2> QED
    BY <1>a, <1>f, <2>2, <2>3, <2>4, <2>5, ReferenceCounts DEF GroupReferences
<1>4. ASSUME NEW t \in Threads, Waits(t) PROVE GroupReferences'
  <2>1. UNCHANGED <<semaVars, member, list>> /\ frame[t].who \notin Members
        /\ frame[t].at \notin {"publish"} \cup Consuming
    <3>1. UNCHANGED <<semaVars, member, list>> /\ frame[t].at \in GroupWaiting \cup {"idle"}
      BY <1>4, WaiterFrames DEF Waits, dispatch_group_wait, Free
    <3>2. frame[t].who \notin Members
      BY <3>1 DEF Roles, GroupWaiting, Consuming
    <3> QED
      BY <3>1, <3>2 DEF GroupWaiting, Consuming
  <2>2. \/ frame' = frame
        \/ /\ frame'[t].who \notin Members /\ frame'[t].at \notin {"publish"} \cup Consuming
           /\ \A u \in Threads : u # t => frame'[u] = frame[u]
    <3>1. ASSUME NEW to \in Timeouts, dispatch_group_wait(t, to)
          PROVE  \/ frame' = frame
                 \/ /\ frame'[t].who \notin Members /\ frame'[t].at \notin {"publish"} \cup Consuming
                    /\ \A u \in Threads : u # t => frame'[u] = frame[u]
      BY <3>1, WaiterFrames, NoneAssumption DEF Becomes, Consuming
    <3>2. CASE WaiterSteps(t)
      BY <3>2, WaiterFrames, NoneAssumption DEF Becomes, GroupWaiting, Consuming
    <3> QED
      BY <1>4, <3>1, <3>2 DEF Waits
  <2>3. Referring' = Referring /\ Publishing' = Publishing /\ Dropping' = Dropping
    <3>1. CASE frame' = frame
      BY <1>b, <2>1, <3>1
    <3>2. CASE frame' # frame
      BY <2>1, <2>2, <3>2, OthersRefer, NoListReference
    <3> QED
      BY <3>1, <3>2
  <2> QED
    BY <2>1, <2>3, SameReferences DEF semaVars, lifetime, list
<1> QED
  BY <1>1, <1>2, <1>3, <1>4, NextCases, MemberReferences, WakeReferences, NotifyReferences

-----------------------------------------------------------------------------
\* What every reachable state of a semaphore or a group has in common.
GInv == /\ CountInv /\ GroupTypeOK /\ Roles /\ Modes /\ Released
        /\ PermitsOut /\ GroupReferences /\ ListInv /\ AwaitInv

LEMMA GroupInitially == Init => GInv
<1> SUFFICES ASSUME Init PROVE GInv
  OBVIOUS
<1>1. CountInv /\ do_ref_cnt = One(held) + Cardinality(At(Holding))
  BY Initially DEF Init, IInv, References
<1>2. GroupTypeOK
  BY IdleTyped DEF Init, GroupTypeOK
<1>3. /\ \A t \in Threads : /\ frame[t].at = "idle" /\ frame[t].who = None /\ frame[t].block = None
                            /\ pc[t] = "idle" /\ timeout[t] = "forever"
      /\ held /\ dsema_value = dsema_orig /\ dsema_orig \in Int
      /\ dsema_notify_head = None /\ dsema_notify_tail = None /\ freed = {}
      /\ \A m \in Members : member[m] = "out"
      /\ \A b \in Blocks : /\ dsn_next[b] = None /\ submitted[b] = 0 /\ awaits[b].state = "new"
  <2>1. \A t \in Threads : /\ frame[t].at = "idle" /\ frame[t].who = None /\ frame[t].block = None
                          /\ pc[t] = "idle" /\ timeout[t] = "forever"
    BY IdleTyped DEF Init, SemaInit
  <2>2. held
    BY DEF Init, SemaInit, dispatch_semaphore_create
  <2>3. dsema_value = dsema_orig /\ dsema_orig \in Int
    BY ValuesAssumption DEF Init, SemaInit, dispatch_semaphore_create
  <2>4. /\ dsema_notify_head = None /\ dsema_notify_tail = None /\ freed = {}
        /\ \A m \in Members : member[m] = "out"
        /\ \A b \in Blocks : /\ dsn_next[b] = None /\ submitted[b] = 0 /\ awaits[b].state = "new"
    BY DEF Init
  <2> QED
    BY <2>1, <2>2, <2>3, <2>4
<1>4. Roles
  BY <1>3, NoneAssumption DEF Roles, Notifying
<1>5. Modes /\ Released
  BY <1>3 DEF Modes, Released
<1>6. Permitted = {} /\ Referring = {} /\ Publishing = {} /\ Dropping = {}
  BY <1>3, NoneAssumption DEF Permitted, Referring, Publishing, Dropping, Consuming
<1>7. PermitsOut
  BY <1>3, <1>6, FS_EmptySet DEF PermitsOut
<1>8. GroupReferences
  <2>1. One(dsema_notify_head # None) = 0
    BY <1>3 DEF One
  <2> QED
    BY <1>1, <1>6, <2>1, FS_EmptySet, ReferenceCounts DEF GroupReferences
<1>9. \A t \in Threads, a, b \in Blocks : ~Holds(t, b) /\ ~Links(t, a, b) /\ ~HasSubmitted(t, b)
  BY <1>3, EmptyHanded DEF Elsewhere
<1>10. \A b \in Blocks : ~First(b)
  BY <1>3, <1>9, NoneAssumption DEF First
<1>11. OneList /\ Linking
  BY <1>3, <1>9, <1>10 DEF OneList, Linking
<1>12. Linked /\ Unregistered /\ SubmittedOnce
  BY <1>3, <1>10, NoneAssumption DEF Linked, Unregistered, SubmittedOnce
<1>13. AwaitInv
  BY <1>3 DEF AwaitInv
<1> QED
  BY <1>1, <1>2, <1>4, <1>5, <1>7, <1>8, <1>11, <1>12, <1>13 DEF GInv, ListInv

LEMMA GroupStep == GInv /\ [Next]_vars => GInv'
<1> SUFFICES ASSUME GInv, [Next]_vars PROVE GInv'
  OBVIOUS
<1> USE DEF GInv
<1>1. CountInv' /\ GroupTypeOK' /\ Roles' /\ Modes' /\ Released'
  BY CountKept, GroupTypes, RolesKept, ModesKept, ReleasedKept
<1>2. PermitsOut' /\ AwaitInv'
  BY PermitsKept, AwaitKept DEF ListInv
<1>3. GroupReferences' /\ ListInv'
  BY GroupReferencesKept, ListKept DEF ListInv
<1> QED
  BY <1>1, <1>2, <1>3

LEMMA GroupInvariance == Spec => []GInv
  BY GroupInitially, GroupStep, PTL DEF Spec

\* Every variable of a group keeps its type: its list holds only registered blocks, and the
\* count of references never falls below zero.
THEOREM GroupTypeCorrect == Spec => []TypeOK
<1>1. GInv => TypeOK
  <2> SUFFICES ASSUME GInv PROVE TypeOK
    OBVIOUS
  <2>1. do_ref_cnt \in Nat
    BY ReferenceCounts, FS_CardinalityType DEF GInv, GroupReferences
  <2>2. SemaTypeOK
    BY <2>1 DEF GInv, CountInv, CountTypeOK, SemaTypeOK
  <2> QED
    BY <2>2 DEF GInv, GroupTypeOK, Frame, TypeOK
<1> QED
  BY <1>1, GroupInvariance, PTL

\* The semaphore inside a group matches wakeups with waiters as any semaphore does.
THEOREM GroupWakeupsMatchWaiters == Spec => []EveryWakeupHasItsWaiter
  BY GroupInvariance, PTL DEF GInv, CountInv

\* It loses no wakeup either.
THEOREM GroupWakeupsAreNotLost == Spec => []NoLostWakeup
  BY GroupInvariance, PTL DEF GInv, CountInv

\* The object is alive while a thread is inside its semaphore, as a semaphore's client holds
\* it while anyone waits and a group's members hold it while they enter and leave.
THEOREM GroupAliveWhileUsed == Spec => []OutlivesItsCalls
<1>1. GInv => OutlivesItsCalls
  <2> SUFFICES ASSUME GInv, NEW t \in At(Waiting \cup Signalling) PROVE do_ref_cnt > 0
    BY DEF OutlivesItsCalls
  <2> USE DEF GInv
  <2>1. t \in Threads /\ pc[t] \in Waiting \cup Holding \cup {"retain", "count"} /\ pc[t] # "idle"
    BY DEF At, Signalling, Holding, Waiting
  <2>a. IsFiniteSet(Referring) /\ Cardinality(Referring) \in Nat
    BY FS_CardinalityType DEF GroupReferences
  <2>2. CASE IsGroup
    <3>1. frame[t].at \in {"push", "left"}
      BY <2>1, <2>2 DEF Modes
    <3>2. Referring # {}
      BY <2>1, <3>1 DEF Roles, Referring
    <3>3. Cardinality(Referring) # 0
      BY <2>a, <3>2, FS_EmptySet
    <3> QED
      BY <2>a, <3>3, ReferenceCounts DEF GroupReferences
  <2>3. CASE ~IsGroup
    <3>1. CASE At(Waiting) # {}
      <4>1. held
        BY <2>3, <3>1 DEF Released
      <4>2. One(held) = 1
        BY <4>1 DEF One
      <4> QED
        BY <2>a, <4>2, ReferenceCounts DEF GroupReferences
    <3>2. CASE pc[t] \in Holding
      <4>1. Cardinality(At(Holding)) >= 1
        BY <2>1, <3>2, Present
      <4> QED
        BY <2>a, <4>1, ReferenceCounts DEF GroupReferences
    <3>3. pc[t] \in Waiting => At(Waiting) # {}
      BY <2>1 DEF At
    <3>4. pc[t] \in {"retain", "count"} => At(Waiting) # {}
      <4>1. pc[t] \in {"retain", "count"} => Coming >= 1
        BY <2>1, Present DEF Coming
      <4>2. Coming >= 1 => Cardinality(At(Waiting)) # 0
        BY CountsTyped DEF CountInv, EveryWakeupHasItsWaiter, Positive, CountTypeOK
      <4> QED
        BY <4>1, <4>2, AtCount
    <3> QED
      BY <2>1, <3>1, <3>2, <3>3, <3>4
  <2> QED
    BY <2>2, <2>3
<1> QED
  BY <1>1, GroupInvariance, PTL

\* A registered block is submitted at most once, no thread links a block behind an element
\* that is freed, and a group that is disposed of has no thread in its functions, no block
\* on its list and no member inside.
THEOREM GroupMemoryIsThere == Spec => []MemoryIsThere
<1>1. GInv => ListIsSound
  <2> SUFFICES ASSUME GInv PROVE ListIsSound
    OBVIOUS
  <2> USE DEF GInv, ListInv
  <2>1. \A b \in Blocks : submitted[b] <= 1 /\ (submitted[b] = 1 => awaits[b].state # "new")
    BY DEF SubmittedOnce, Unregistered
  <2>2. {dsema_notify_head, dsema_notify_tail} \cap freed = {}
    <3>1. freed \subseteq Blocks
      BY DEF GroupTypeOK
    <3>2. \A b \in Blocks : dsema_notify_head = b => b \notin freed
      BY DEF Linked, First
    <3>3. \A b \in Blocks : dsema_notify_tail = b => b \notin freed
      BY DEF Linked
    <3> QED
      BY <3>1, <3>2, <3>3
  <2>3. \A t \in Threads : On(t, "link") => frame[t].block \notin freed
    <3> SUFFICES ASSUME NEW t \in Threads, frame[t].at = "link" PROVE frame[t].block \notin freed
      BY DEF On
    <3>1. frame[t].block \in Blocks /\ frame[t].who \in Blocks
      BY DEF Roles, Notifying
    <3>2. Links(t, frame[t].block, frame[t].who)
      BY DEF Links
    <3> QED
      BY <3>1, <3>2 DEF Linking
  <2> QED
    BY <2>1, <2>2, <2>3 DEF ListIsSound
<1>2. GInv => GroupOutlivesItsUsers
  <2> SUFFICES ASSUME GInv, do_ref_cnt = 0
               PROVE  /\ \A t \in Threads : frame[t].at = "idle"
                      /\ dsema_notify_tail = None
                      /\ dsema_value >= dsema_orig
    BY DEF GroupOutlivesItsUsers
  <2> USE DEF GInv, ListInv
  <2>a. IsFiniteSet(Referring) /\ Cardinality(Referring) \in Nat
    BY FS_CardinalityType DEF GroupReferences
  <2>1. One(held) = 0 /\ Cardinality(Referring) = 0 /\ One(dsema_notify_head # None) = 0
    BY <2>a, ReferenceCounts DEF GroupReferences
  <2>2. ~held /\ Referring = {} /\ dsema_notify_head = None
    <3>1. ~held
      BY <2>1 DEF One
    <3>2. dsema_notify_head = None
      BY <2>1 DEF One
    <3>3. Referring = {}
      BY <2>a, <2>1, FS_EmptySet
    <3> QED
      BY <3>1, <3>2, <3>3
  <2>3. \A t \in Threads : frame[t].at = "idle"
    BY <2>2 DEF Released, Referring
  <2>4. dsema_notify_tail = None
    <3>1. \A t \in Threads, b \in Blocks : ~Holds(t, b)
      BY <2>3, EmptyHanded DEF Elsewhere
    <3>2. \A b \in Blocks : ~First(b)
      BY <2>2, <3>1, NoneAssumption DEF First
    <3> QED
      BY <3>2 DEF OneList
  <2>5. dsema_value >= dsema_orig
    <3>1. CASE IsGroup
      <4>1. Permitted = {}
        BY <2>2 DEF Permitted, Referring
      <4> QED
        BY <3>1, <4>1, FS_EmptySet, ValuesAssumption DEF PermitsOut, CountInv, CountTypeOK
    <3>2. CASE ~IsGroup
      BY <2>2, <3>2 DEF Released
    <3> QED
      BY <3>1, <3>2
  <2> QED
    BY <2>3, <2>4, <2>5
<1> QED
  BY <1>1, <1>2, GroupInvariance, PTL DEF MemoryIsThere

\* A block that is registered while no thread is in _dispatch_group_wake is not submitted
\* before every member that was inside has left.
THEOREM NotifyWaits == Spec => []NotifyWaitsUnlessAmidWake
<1>1. GInv => NotifyWaitsUnlessAmidWake
  BY DEF GInv, AwaitInv, NotifyWaitsUnlessAmidWake, AllHaveLeft
<1> QED
  BY <1>1, GroupInvariance, PTL

\* A step of a semaphore or a group is one of the abstract semaphore's steps or a stutter.
LEMMA GroupAbstractStep == GInv /\ [Next]_vars => [Abstract!Next]_(Abstract!vars)
<1> SUFFICES ASSUME GInv, [Next]_vars PROVE [Abstract!Next]_(Abstract!vars)
  OBVIOUS
<1> USE DEF GInv
<1>1. UNCHANGED <<pc, dsema_value, dsema_sent_ksignals>> => UNCHANGED Abstract!vars
  BY StayCount DEF permits, Coming, Abstract!vars
<1>2. CASE UNCHANGED vars \/ ReleaseGroup \/ dispatch_release
  BY <1>1, <1>2 DEF vars, semaVars, counters, ReleaseGroup, dispatch_release
<1>3. ASSUME NEW t \in Threads, NEW to \in Timeouts, dispatch_semaphore_wait(t, to)
      PROVE  Abstract!Next
  BY <1>3, AbstractWait DEF Abstract!Next
<1>4. ASSUME NEW t \in Threads, dispatch_semaphore_signal(t) PROVE Abstract!Next
  BY <1>4, AbstractSignal DEF Abstract!Next
<1>5. ASSUME NEW t \in Threads, SemaContinue(t) \/ SemaKernel(t)
      PROVE  [Abstract!Next]_(Abstract!vars)
  BY <1>5, AbstractTake, AbstractUndo, AbstractInner DEF Abstract!Next, SemaContinue
<1>6. CASE SemaphoreStep
  BY <1>2, <1>3, <1>4, <1>5, <1>6 DEF SemaphoreStep
<1>7. ASSUME NEW t \in Threads, Enters(t) \/ Leaves(t) \/ Wakes(t) \/ Notifies(t) \/ Waits(t)
      PROVE  [Abstract!Next]_(Abstract!vars)
  <2>1. CASE dispatch_group_enter(t)
    BY <1>3, <2>1 DEF dispatch_group_enter, Timeouts
  <2>2. CASE \E m \in Members : dispatch_group_leave(t, m)
    BY <1>4, <2>2 DEF dispatch_group_leave
  <2>3. CASE ~dispatch_group_enter(t) /\ ~ \E m \in Members : dispatch_group_leave(t, m)
    BY <1>1, <1>7, <2>3, SemaphoreUntouched DEF counters
  <2> QED
    BY <2>1, <2>2, <2>3
<1> QED
  BY <1>2, <1>6, <1>7, NextCases

\* A group's semaphore is a counting semaphore too: dispatch_group_enter and
\* dispatch_group_leave neither make nor lose a permit.
THEOREM GroupImplementsCountingSemaphore == Spec => KeepsCount
<1>1. Init => SemaInit
  BY DEF Init
<1> QED
  BY <1>1, AbstractInit, GroupAbstractStep, GroupInvariance, PTL DEF Spec, KeepsCount, Abstract!Spec
=============================================================================
