------------------------------- MODULE LinkList -------------------------------
(***************************************************************************)
(* The exercises on singly linked lists of LinkListViewController.  A state *)
(* is a heap of nodes and one call that has been made on it: the call, what *)
(* it returned and the heap it left.  A loop of the code is a recursive     *)
(* operator over the pointers it moves.                                     *)
(***************************************************************************)
EXTENDS Exercise

CONSTANTS
    Node,      \* addresses of nodes
    Order      \* what the field value of a node holds

ASSUME NodeAssumption == Node \cap {NULL, Crash, Endless} = {} /\ Order \subseteq Int

VARIABLE next      \* the field next of each node

vars == <<next, call, result>>

Heap == [Node -> Node \cup {NULL}]
-----------------------------------------------------------------------------
(* Reference definitions.                                                  *)

RECURSIVE Walk(_, _, _)
Walk(h, n, seen) ==
    IF n = NULL \/ n \in seen THEN <<>> ELSE <<n>> \o Walk(h, h[n], seen \cup {n})

\* The nodes reached from n in h, each once, in order.
Nodes(h, n) == Walk(h, n, {})
Reached(h, n) == {Nodes(h, n)[i] : i \in DOMAIN Nodes(h, n)}
Acyclic(h, n) == n = NULL \/ \E m \in Reached(h, n) : h[m] = NULL
-----------------------------------------------------------------------------
(* The functions.                                                          *)

\* p->next
Next(h, p) == IF p \in Node THEN h[p] ELSE Crash

RECURSIVE getNodeNum(_, _)
getNodeNum(h, p) == IF p = NULL THEN 0 ELSE 1 + getNodeNum(h, h[p])

\* lastKNode: one pointer k nodes ahead of the other; the variant is one short.
RECURSIVE Ahead(_, _, _), Together(_, _, _)
Ahead(h, p, k) == IF p = NULL \/ k = 0 THEN <<p, k>> ELSE Ahead(h, h[p], k - 1)
Together(h, p, q) == IF p = NULL THEN q ELSE Together(h, h[p], Next(h, q))
lastKNodeShort(h, p, k) ==
    IF k < 0 \/ p = NULL THEN NULL
    ELSE LET a == Ahead(h, p, IF k = 0 THEN 0 ELSE k - 1)
         IN  IF a[2] > 0 THEN NULL ELSE Together(h, a[1], p)
lastKNode(h, p, k) ==
    IF k < 0 \/ p = NULL THEN NULL
    ELSE LET a == Ahead(h, p, k)
         IN  IF a[2] > 0 THEN NULL ELSE Together(h, a[1], p)

\* middleNode: before makes two steps for each step of behind, from the head on;
\* in the variant it has made one already.
RECURSIVE Halve(_, _, _)
Halve(h, before, behind) ==
    IF before \notin Node THEN Crash
    ELSE IF h[before] = NULL THEN behind
    ELSE Halve(h, Next(h, h[before]), Next(h, behind))
SlowFirst(h, p) == Halve(h, h[p], p)
BothFirst(h, p) == Halve(h, p, p)
middleNode(h, p) ==
    IF p = NULL THEN NULL
    ELSE IF h[p] = NULL \/ h[h[p]] = NULL THEN p
    ELSE BothFirst(h, p)

\* The loop that nodeHasCircle and circleStartNode share: the node where the two
\* pointers meet, "none" if before runs off the list.
RECURSIVE Chase(_, _, _)
Chase(h, before, behind) ==
    IF before = NULL THEN "none"
    ELSE LET one == h[before]
             two == IF one = NULL THEN NULL ELSE h[one]
         IN  IF two = h[behind] THEN two ELSE Chase(h, two, h[behind])
Meet(h, p) == Chase(h, p, p)

nodeHasCircle(h, p) == p # NULL /\ Meet(h, p) # "none"

RECURSIVE Entry(_, _, _)
Entry(h, start, meet) ==
    IF start \in {NULL, meet} THEN start
    ELSE IF meet \notin Node THEN Crash
    ELSE Entry(h, h[start], h[meet])
\* The variant takes the node where the pointers meet for the start.
circleMeetNode(h, p) ==
    IF p = NULL \/ Meet(h, p) = "none" THEN NULL ELSE Meet(h, p)
circleStartNode(h, p) ==
    IF p = NULL \/ Meet(h, p) = "none" THEN NULL ELSE Entry(h, p, Meet(h, p))

RECURSIVE Last(_, _)
Last(h, p) == IF h[p] = NULL THEN p ELSE Last(h, h[p])
nodeCross(h, p, q) == p # NULL /\ q # NULL /\ Last(h, p) = Last(h, q)

\* crossNode: the pointer of the longer list moves ahead by the difference, then
\* both move on until they meet.  The variant does not let it move ahead.
RECURSIVE Common(_, _, _), Skip(_, _, _)
Common(h, p, q) ==
    IF p = NULL \/ q = NULL THEN NULL
    ELSE IF p = q THEN p ELSE Common(h, h[p], h[q])
Skip(h, p, k) == IF k = 0 THEN p ELSE Skip(h, h[p], k - 1)
SameStart(h, p, q) == Common(h, p, q)
Aligned(h, p, q) ==
    LET len1 == getNodeNum(h, p)
        len2 == getNodeNum(h, q)
    IN  IF len2 > len1 THEN Common(h, p, Skip(h, q, len2 - len1))
                       ELSE Common(h, Skip(h, p, len1 - len2), q)
crossNode(h, p, q) == IF p = NULL \/ q = NULL THEN NULL ELSE Aligned(h, p, q)

\* invertListNode: a node is linked to the one before, then the pointer follows that
\* link.  The variant is the code commented out above it, which moves first.
RECURSIVE Invert(_, _, _)
Invert(h, current, new) ==
    IF current = NULL THEN h
    ELSE LET g == [h EXCEPT ![current] = new] IN Invert(g, g[current], current)
RECURSIVE MoveFirst(_, _, _)
MoveFirst(h, current, new) ==
    IF current = NULL THEN h
    ELSE MoveFirst([h EXCEPT ![current] = new], h[current], current)
invertMoving(h, p)   == MoveFirst(h, p, NULL)
invertListNode(h, p) == IF p = NULL \/ h[p] = NULL THEN h ELSE Invert(h, p, NULL)

\* mergeTwoSortList: the smaller node goes to the end of the new list while both lists
\* have a node after this one.  <<heap, header>>; v are the values of the nodes.
RestOfFirst(h, temp, p, q) == [h EXCEPT ![temp] = p]
AttachRest(h, temp, p, q)  == [h EXCEPT ![temp] = IF q # NULL THEN q ELSE p]

Link(h, temp, p) == [h EXCEPT ![temp] = p]
LinkBoth(h, temp, p, q) == [h EXCEPT ![temp] = p, ![p] = q]

RECURSIVE Merge(_, _, _, _, _, _, _)
Merge(h, v, header, temp, p, q, seen) ==
    IF p = NULL \/ (h[p] # NULL /\ q = NULL) THEN <<h, Crash>>
    ELSE IF h[p] = NULL \/ h[q] = NULL THEN <<AttachRest(h, temp, p, q), header>>
    ELSE IF <<h, temp, p, q>> \in seen THEN <<h, Endless>>
    ELSE LET g == IF v[p] < v[q] THEN Link(h, temp, p)
                  ELSE IF v[p] > v[q] THEN Link(h, temp, q) ELSE LinkBoth(h, temp, p, q)
             afterP == Link(h, temp, p)[p]
             all    == seen \cup {<<h, temp, p, q>>}
         IN  CASE v[p] < v[q] -> Merge(g, v, header, p, g[p], q, all)
               [] v[p] > v[q] -> Merge(g, v, header, q, p, g[q], all)
               [] v[p] = v[q] -> Merge(g, v, header, q, afterP, g[q], all)

\* The first node is taken before the loop; header1 of two equal ones is linked to
\* header2 before it moves.
mergeTwoSortList(h, v, p, q) ==
    IF p = NULL THEN <<h, q>>
    ELSE IF q = NULL THEN <<h, p>>
    ELSE CASE v[p] < v[q] -> Merge(h, v, p, p, h[p], q, {})
           [] v[p] > v[q] -> Merge(h, v, q, q, p, h[q], {})
           [] v[p] = v[q] -> Merge(Link(h, p, q), v, p, p, q, h[q], {})

\* printLinkListWithOppositeSort on the stack of Stack.c, which links the nodes of the
\* list through their own field next; pop leaves top where it is.
push(h, top, node)  == IF top = NULL THEN h ELSE [h EXCEPT ![node] = top]
empty(top, bottom)  == top = bottom
RECURSIVE PushAll(_, _, _, _)
PushAll(h, top, node, seen) ==
    IF node = NULL THEN top
    ELSE IF <<h, top, node>> \in seen THEN Endless
    ELSE LET g == push(h, top, node)
         IN  PushAll(g, node, g[node], seen \cup {<<h, top, node>>})
printLinkListWithOppositeSort(h, p) ==
    IF p = NULL \/ empty(PushAll(h, NULL, p, {}), p) THEN <<>> ELSE Endless

RECURSIVE PrintFirst(_, _), recursivlyprint(_, _)
PrintFirst(h, p) == IF p = NULL THEN <<>> ELSE <<p>> \o PrintFirst(h, h[p])
recursivlyprint(h, p) == IF p = NULL THEN <<>> ELSE recursivlyprint(h, h[p]) \o <<p>>
-----------------------------------------------------------------------------
(* One call on any heap.                                                   *)

ListInit == next \in Heap /\ NoCallYet

\* The functions that are asked of a list that ends.
CallOnList(p) ==
    /\ Acyclic(next, p)
    /\ UNCHANGED next
    /\ \/ Called("getNodeNum", <<p>>, getNodeNum(next, p))
       \/ \E k \in -1 .. Cardinality(Node) + 1 :
             Called("lastKNode", <<p, k>>, lastKNode(next, p, k))
       \/ Called("middleNode", <<p>>, middleNode(next, p))
       \/ Called("printLinkListWithOppositeSort", <<p>>, printLinkListWithOppositeSort(next, p))
       \/ Called("recursivlyprint", <<p>>, recursivlyprint(next, p))

\* Those that are asked of a list that may have a circle.
CallOnAny(p) ==
    /\ UNCHANGED next
    /\ \/ Called("nodeHasCircle", <<p>>, nodeHasCircle(next, p))
       \/ Called("circleStartNode", <<p>>, circleStartNode(next, p))

CallOnTwo(p, q) ==
    /\ Acyclic(next, p) /\ Acyclic(next, q)
    /\ UNCHANGED next
    /\ \/ Called("nodeCross", <<p, q>>, nodeCross(next, p, q))
       \/ Called("crossNode", <<p, q>>, crossNode(next, p, q))

\* Those that change the list; the call is recorded with the nodes it was made on.
CallInvert(p) ==
    /\ Acyclic(next, p)
    /\ next' = invertListNode(next, p)
    /\ Called("invertListNode", <<Nodes(next, p)>>, NULL)

Ascending(h, v, p) == \A m \in Reached(h, p) : h[m] # NULL => v[m] <= v[h[m]]
CallMerge(p, q) ==
    /\ Acyclic(next, p) /\ Acyclic(next, q)
    /\ Reached(next, p) \cap Reached(next, q) = {}
    /\ \E v \in [Reached(next, p) \cup Reached(next, q) -> Order] :
          /\ Ascending(next, v, p) /\ Ascending(next, v, q)
          /\ LET m == mergeTwoSortList(next, v, p, q)
             IN  /\ next' = m[1]
                 /\ Called("mergeTwoSortList", <<Nodes(next, p), Nodes(next, q), v>>, m[2])

ListStep ==
    /\ call = <<>>
    /\ \/ \E p \in Node \cup {NULL} : CallOnList(p) \/ CallOnAny(p) \/ CallInvert(p)
       \/ \E p, q \in Node \cup {NULL} : CallOnTwo(p, q) \/ CallMerge(p, q)
-----------------------------------------------------------------------------
(* Properties: what each function should return.                           *)

\* lastKNode returns the k-th node from the end, none if there are fewer; and
\* getNodeNum counts them (:225, :227).
LastKNodeIsKthFromEnd ==
    /\ Answered("getNodeNum") => result = Len(Nodes(next, call[2]))
    /\ Answered("lastKNode") =>
          LET nodes == Nodes(next, call[2])
          IN  result = IF call[3] \in 1 .. Len(nodes) THEN nodes[Len(nodes) + 1 - call[3]]
                       ELSE NULL

\* crossNode returns the first node of the one list that is on the other, and
\* nodeCross tells whether there is one (:232, :233).
CrossNodeIsFirstShared ==
    Answered("crossNode") \/ Answered("nodeCross") =>
      LET nodes  == Nodes(next, call[2])
          shared == {i \in DOMAIN nodes : nodes[i] \in Reached(next, call[3])}
          first  == IF shared = {} THEN NULL
                    ELSE nodes[CHOOSE i \in shared : \A j \in shared : i <= j]
      IN  result = IF call[1] = "crossNode" THEN first ELSE first # NULL

\* Where the two pointers of nodeHasCircle meet, and whether they do, tells if
\* there is a circle and where it starts (:231, :234).  On a list of a single node they
\* meet at NULL: it is said to have a circle, and looking for its start crashes.
CircleIsFound ==
    Answered("nodeHasCircle") \/ Answered("circleStartNode") =>
      LET p     == call[2]
          asked == call[1] = "nodeHasCircle"
          entry == IF Acyclic(next, p) THEN NULL
                   ELSE next[Nodes(next, p)[Len(Nodes(next, p))]]
      IN  result = IF p # NULL /\ next[p] = NULL THEN IF asked THEN TRUE ELSE Crash
                   ELSE IF asked THEN entry # NULL ELSE entry

\* If middleNode returns, it is with the first of the one or two nodes in the
\* middle (:228); in a list of an even number of nodes, four or more, its fast
\* pointer runs off the end instead.
MiddleNodeIsInTheMiddle ==
    Answered("middleNode") /\ call[2] # NULL =>
      LET nodes == Nodes(next, call[2]) IN
      /\ result # Crash => result = nodes[(Len(nodes) + 1) \div 2]
      /\ result = Crash <=> Len(nodes) > 2 /\ Len(nodes) % 2 = 0

\* invertListNode leaves the header without a successor and links no other node anew,
\* so that what viewDidLoad asks of the list next is asked of one node (:226, :41).
InvertCutsTheList ==
    Answered("invertListNode") =>
      LET nodes == call[2] IN
      \A i \in DOMAIN nodes :
          next[nodes[i]] = IF i = 1 \/ i = Len(nodes) THEN NULL ELSE nodes[i + 1]

\* mergeTwoSortList of two lists with different first values, if it gets to its end,
\* returns a sorted list that has every node of the second list, and the last node of
\* the first only when each list had one; it follows NULL when the list with the
\* smaller header had one node and the other was the second, or had more (:230).
MergeLosesTheEndOfTheFirst ==
    Answered("mergeTwoSortList") =>
      LET a == call[2]
          b == call[3]
          v == call[4]
          On(n) == n \in Reached(next, result)
      IN  a # <<>> /\ b # <<>> /\ v[a[1]] # v[b[1]] =>
            /\ result # Endless
            /\ result = Crash <=> IF v[a[1]] < v[b[1]] THEN Len(a) = 1
                                  ELSE Len(b) = 1 /\ Len(a) > 1
            /\ result # Crash =>
                  /\ Acyclic(next, result) /\ Ascending(next, v, result)
                  /\ \A i \in DOMAIN b : On(b[i])
                  /\ On(a[Len(a)]) <=> Len(a) = 1 /\ Len(b) = 1

\* The recursive function prints every node, the last first; the one with a stack
\* prints none, and does not return from a list of two nodes or more (:192, :193).
PrintsBackwards ==
    /\ Answered("recursivlyprint") =>
          LET nodes == Nodes(next, call[2])
          IN  result = [i \in DOMAIN nodes |-> nodes[Len(nodes) + 1 - i]]
    /\ Answered("printLinkListWithOppositeSort") =>
          result = IF Len(Nodes(next, call[2])) <= 1 THEN <<>> ELSE Endless

-----------------------------------------------------------------------------
\* What the functions that only walk over lists find, by two pointers that start apart
\* or move at different speeds: none stops a node early or late, but for the lists of a
\* single node of CircleIsFound and the crashes of MiddleNodeIsInTheMiddle.
WalksFindTheirNode ==
    /\ LastKNodeIsKthFromEnd
    /\ CrossNodeIsFirstShared
    /\ CircleIsFound
    /\ MiddleNodeIsInTheMiddle

\* What is left of a list by the functions that write links, or push the nodes on a
\* stack that links them through the same field.
LinksAreRewritten ==
    /\ InvertCutsTheList
    /\ MergeLosesTheEndOfTheFirst
    /\ PrintsBackwards
=============================================================================
