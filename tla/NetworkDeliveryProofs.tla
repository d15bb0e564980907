-------------------------- MODULE NetworkDeliveryProofs --------------------------
(***************************************************************************)
(* Theorems about what NetworkRequest delivers to its clients, for every    *)
(* set of requests and clients and whatever the order of stores.           *)
(***************************************************************************)
EXTENDS NetworkRequestProofs

\* What a block is called with when the task of q ended as it did.
Delivered(q) == CallbackArguments(Completion(outcome[q]))

\* The handler of q has passed on its outcome.
PassedOn(q) == handler[q] \in {"returning", "released"}

\* A block on the main queue carries the outcome of its request, whose handler has
\* run and whose client's block is there and has not been called.
WaitsForMain(m) ==
    /\ PassedOn(m.req) /\ outcome[m.req] # "none"
    /\ m.args = Delivered(m.req)
    /\ received[m.req] = <<>>
    /\ responseBlock[m.req]
    /\ callback[m.req] = "none"

\* Of each request there is one such block at most.
OneForEach == \A i, j \in DOMAIN mainQueue : mainQueue[i].req = mainQueue[j].req => i = j

\* A client's block that was called was called once, after the handler.
CalledOnce(q) ==
    /\ received[q] # <<>> =>
          PassedOn(q) /\ outcome[q] # "none" /\ received[q] = <<Delivered(q)>>
    /\ callback[q] # "none" => received[q] # <<>>

DeliveryInv ==
    /\ LifeInv
    /\ \A i \in DOMAIN mainQueue : WaitsForMain(mainQueue[i])
    /\ OneForEach
    /\ \A q \in Request : CalledOnce(q)

LEMMA DeliveryInit == Init => DeliveryInv
  BY LifeInit DEF Init, DeliveryInv, OneForEach, CalledOnce

\* The requests on the main queue are requests.
LEMMA MainQueueTyped ==
    ASSUME TypeOK
    PROVE  \A i \in DOMAIN mainQueue : mainQueue[i].req \in Request
<1>1. \A i \in DOMAIN mainQueue : mainQueue[i] \in MainBlock
  BY DEF TypeOK
<1>2. \A m \in MainBlock : m.req \in Request
  BY DEF MainBlock
<1> QED
  BY <1>1, <1>2

\* A step other than those of the main thread's queue disturbs nothing of a request
\* that has passed on its outcome.
LEMMA QuietStep ==
    ASSUME LifeInv, [Next]_vars, NEW q \in Request, outcome[q] # "none"
    PROVE  /\ outcome'[q] = outcome[q]
           /\ PassedOn(q) => PassedOn(q)'
           /\ ~CallBlock => received'[q] = received[q]
           /\ callback[q] = "none" /\ ~CallBlock => callback'[q] = "none"
           /\ callback[q] = "none" => responseBlock'[q] = responseBlock[q]
<1> USE DEF TypeOK, PassedOn, confVars, netVars, taskVars, cancelVars, handlerVars, mainVars
<1>0. TypeOK /\ task[q] = "completed" /\ TaskStored(q)
  BY DEF LifeInv, TaskEnds
<1>a. outcome'[q] = outcome[q]
  BY OutcomeStays
<1> USE <1>0, <1>a
<1>1. ASSUME NEW r \in Request, NEW c \in Calls, NEW block \in BOOLEAN, response(r, c, block)
      PROVE  UNCHANGED <<handler, received, callback>> /\ responseBlock'[q] = responseBlock[q]
  BY <1>1 DEF response, TaskStored, NetStep
<1>2. ASSUME NEW r \in Request,
             \/ SetCallbackWhenCancelled(r) \/ CancelFlag(r) \/ Drop(r)
             \/ CancelTask(r) \/ StoreVisible(r) \/ NetworkStep(r)
      PROVE  UNCHANGED <<handler, received, callback, responseBlock>>
  BY <1>2 DEF SetCallbackWhenCancelled, CancelFlag, Drop, CancelTask, StoreVisible,
              ShouldCancelVisible, SessionTaskVisible, NetworkStep, Config,
              CreateTask, CheckShouldCancel, Resume
<1>3. ASSUME NEW r \in Request, TaskCompletes(r) \/ HandleCompletion(r) \/ ReleaseHandler(r)
      PROVE  /\ PassedOn(q) => PassedOn(q)'
             /\ UNCHANGED <<received, callback, responseBlock>>
  BY <1>3 DEF TaskCompletes, HandleCompletion, ReleaseHandler
<1>4. ASSUME NEW r \in Request, ClearBlock(r)
      PROVE  /\ UNCHANGED <<handler, received>>
             /\ callback[q] = "none" => callback'[q] = "none" /\ responseBlock'[q] = responseBlock[q]
  BY <1>4 DEF ClearBlock
<1>5. CASE CallBlock
  BY <1>5 DEF CallBlock
<1>6. CASE UNCHANGED vars
  BY <1>6 DEF vars
<1> QED
  BY <1>1, <1>2, <1>3, <1>4, <1>5, <1>6 DEF Next

\* What a step other than CallBlock keeps.
LEMMA DeliveryStepQuiet ==
    ASSUME DeliveryInv, [Next]_vars, ~CallBlock
    PROVE  DeliveryInv'
<1> USE DEF DeliveryInv
<1>0. LifeInv' /\ TypeOK /\ TypeOK'
  BY LifeStep DEF LifeInv
<1>1. ASSUME NEW q \in Request PROVE CalledOnce(q)'
  <2>1. CASE received[q] # <<>>
    <3>1. outcome[q] # "none" /\ PassedOn(q) /\ received[q] = <<Delivered(q)>>
      BY <2>1 DEF CalledOnce
    <3>2. outcome'[q] = outcome[q] /\ PassedOn(q)' /\ received'[q] = received[q]
      BY <3>1, QuietStep
    <3> QED
      BY <3>1, <3>2 DEF CalledOnce, Delivered, PassedOn
  <2>2. CASE received[q] = <<>>
    <3>1. callback[q] = "none"
      BY <2>2 DEF CalledOnce
    <3>2. received' = received
      BY <1>0 DEF Next, response, SetCallbackWhenCancelled, Drop, CancelFlag,
           CancelTask, StoreVisible, ShouldCancelVisible, SessionTaskVisible, NetworkStep, Config,
           CreateTask, CheckShouldCancel, Resume, TaskCompletes, HandleCompletion,
           ReleaseHandler, ClearBlock, mainVars, vars
    <3>3. callback'[q] = "none"
      <4>1. ASSUME NEW r \in Request, ClearBlock(r) PROVE callback'[q] = callback[q]
        BY <1>0, <3>1, <4>1 DEF ClearBlock, TypeOK
      <4>2. ASSUME \A r \in Request : ~ClearBlock(r) PROVE callback' = callback
        BY <4>2 DEF Next, response, SetCallbackWhenCancelled, Drop, CancelFlag,
             CancelTask, StoreVisible, ShouldCancelVisible, SessionTaskVisible, NetworkStep, Config,
             CreateTask, CheckShouldCancel, Resume, TaskCompletes, HandleCompletion,
             ReleaseHandler, mainVars, vars
      <4> QED
        BY <3>1, <4>1, <4>2
    <3> QED
      BY <2>2, <3>2, <3>3 DEF CalledOnce
  <2> QED
    BY <2>1, <2>2
<1>2. ASSUME NEW i \in DOMAIN mainQueue, NEW q \in Request, mainQueue[i].req = q
      PROVE  /\ PassedOn(q)' /\ outcome'[q] # "none" /\ mainQueue[i].args = Delivered(q)'
             /\ received'[q] = <<>> /\ responseBlock'[q] /\ callback'[q] = "none"
  <2>1. WaitsForMain(mainQueue[i])
    OBVIOUS
  <2>2. /\ PassedOn(q) /\ outcome[q] # "none" /\ mainQueue[i].args = Delivered(q)
        /\ received[q] = <<>> /\ responseBlock[q] /\ callback[q] = "none"
    BY <1>2, <2>1 DEF WaitsForMain, PassedOn, Delivered
  <2>3. /\ outcome'[q] = outcome[q] /\ PassedOn(q)' /\ received'[q] = received[q]
        /\ callback'[q] = "none" /\ responseBlock'[q] = responseBlock[q]
    BY <2>2, QuietStep
  <2> QED
    BY <2>2, <2>3 DEF Delivered
<1>2a. ASSUME NEW i \in DOMAIN mainQueue, i \in DOMAIN mainQueue', mainQueue'[i] = mainQueue[i]
       PROVE  WaitsForMain(mainQueue[i])'
  <2>1. PICK q \in Request : mainQueue[i].req = q
    BY <1>0, MainQueueTyped
  <2> QED
    BY <1>2, <1>2a, <2>1 DEF WaitsForMain, PassedOn, Delivered
<1>3. CASE mainQueue' = mainQueue
  <2>1. OneForEach'
    BY <1>3 DEF OneForEach
  <2>2. \A i \in DOMAIN mainQueue' : WaitsForMain(mainQueue[i])'
    BY <1>2a, <1>3
  <2> QED
    BY <1>0, <1>1, <2>1, <2>2
<1>4. ASSUME NEW r \in Request, HandleCompletion(r), mainQueue' # mainQueue
      PROVE  DeliveryInv'
  <2>0. PICK last : last = Len(mainQueue) + 1
    OBVIOUS
  <2>1. /\ CallsBack(r) /\ handler[r] = "queued"
        /\ handler' = [handler EXCEPT ![r] = "returning"]
        /\ UNCHANGED <<outcome, received, responseBlock, callback>>
        /\ mainQueue' = Append(mainQueue, [req |-> r, args |-> Delivered(r)])
    BY <1>4 DEF HandleCompletion, taskVars, Delivered
  <2>2. /\ mainQueue'[last].req = r /\ mainQueue'[last].args = Delivered(r)
        /\ \A i \in DOMAIN mainQueue : mainQueue'[i] = mainQueue[i]
        /\ DOMAIN mainQueue' = DOMAIN mainQueue \cup {last}
    BY <1>0, <2>0, <2>1 DEF TypeOK
  <2>3. ~PassedOn(r) /\ outcome[r] # "none" /\ responseBlock[r]
    BY <2>1 DEF PassedOn, CallsBack, LifeInv, TaskEnds
  <2>4. received[r] = <<>> /\ callback[r] = "none"
    BY <2>3 DEF CalledOnce
  <2>5. \A i \in DOMAIN mainQueue : mainQueue[i].req # r
    BY <2>3 DEF WaitsForMain
  <2>6. OneForEach'
    BY <2>2, <2>5 DEF OneForEach
  <2>7. WaitsForMain(mainQueue[last])'
    <3>1. handler'[r] = "returning"
      BY <1>0, <2>1 DEF TypeOK
    <3> QED
      BY <2>1, <2>2, <2>3, <2>4, <3>1 DEF WaitsForMain, PassedOn, Delivered
  <2>8. \A i \in DOMAIN mainQueue' : WaitsForMain(mainQueue[i])'
    BY <1>2a, <2>2, <2>7
  <2> QED
    BY <1>0, <1>1, <2>6, <2>8
<1>5. ASSUME NEW r \in Request,
             \/ \E c \in Calls, block \in BOOLEAN : response(r, c, block)
             \/ SetCallbackWhenCancelled(r) \/ Drop(r) \/ CancelFlag(r) \/ CancelTask(r)
             \/ StoreVisible(r) \/ NetworkStep(r) \/ TaskCompletes(r)
             \/ ReleaseHandler(r) \/ ClearBlock(r)
      PROVE  mainQueue' = mainQueue
  BY <1>5 DEF response, SetCallbackWhenCancelled, Drop, CancelFlag, CancelTask, StoreVisible,
              ShouldCancelVisible, SessionTaskVisible, NetworkStep, Config, CreateTask,
              CheckShouldCancel, Resume, TaskCompletes, ReleaseHandler, ClearBlock, mainVars
<1> QED
  BY <1>3, <1>4, <1>5 DEF Next, vars, mainVars

\* CallBlock takes the first block of the main queue and calls the client's, which has
\* not been called before.
LEMMA DeliveryStepCall ==
    ASSUME DeliveryInv, CallBlock
    PROVE  DeliveryInv'
<1> USE DEF DeliveryInv, taskVars, handlerVars
<1>n. Next
  BY DEF Next
<1>0. LifeInv' /\ TypeOK /\ TypeOK'
  BY <1>n, LifeStep DEF LifeInv
<1> DEFINE m == Head(mainQueue)
<1>1. /\ mainQueue # <<>> /\ 1 \in DOMAIN mainQueue /\ m = mainQueue[1]
      /\ \A i \in DOMAIN mainQueue' : i \in Nat /\ i + 1 \in DOMAIN mainQueue /\ i + 1 # 1
                                      /\ mainQueue'[i] = mainQueue[i + 1]
  <2>1. mainQueue \in Seq(MainBlock) /\ mainQueue # <<>> /\ mainQueue' = Tail(mainQueue)
    BY <1>0 DEF CallBlock, TypeOK
  <2> QED
    BY <2>1
<1>2. m.req \in Request /\ WaitsForMain(m)
  BY <1>0, <1>1, MainQueueTyped
<1>3. UNCHANGED <<outcome, handler, responseBlock>>
  BY DEF CallBlock
<1>4. \A q \in Request \ {m.req} : received'[q] = received[q] /\ callback'[q] = callback[q]
  BY <1>0 DEF CallBlock, TypeOK
<1>5. ASSUME NEW i \in DOMAIN mainQueue' PROVE mainQueue'[i].req \in Request \ {m.req}
  <2>1. mainQueue[i + 1].req # mainQueue[1].req
    BY <1>1 DEF OneForEach
  <2> QED
    BY <1>0, <1>1, <2>1, MainQueueTyped
<1>6. ASSUME NEW i \in DOMAIN mainQueue' PROVE WaitsForMain(mainQueue[i])'
  <2>1. WaitsForMain(mainQueue[i + 1])
    BY <1>1
  <2> QED
    BY <1>1, <1>3, <1>4, <1>5, <2>1 DEF WaitsForMain, PassedOn, Delivered
<1>7. OneForEach'
  <2> SUFFICES ASSUME NEW i \in DOMAIN mainQueue', NEW j \in DOMAIN mainQueue',
                      mainQueue'[i].req = mainQueue'[j].req
               PROVE  i = j
    BY DEF OneForEach
  <2>1. i + 1 = j + 1
    BY <1>1 DEF OneForEach
  <2> QED
    BY <1>1, <2>1
<1>8. ASSUME NEW q \in Request PROVE CalledOnce(q)'
  <2>1. CASE q # m.req
    BY <1>3, <1>4, <2>1 DEF CalledOnce, PassedOn, Delivered
  <2>2. CASE q = m.req
    <3>1. CASE crashed' = crashed
      <4>1. received'[q] = Append(<<>>, Delivered(q))
        BY <1>0, <1>2, <2>2, <3>1 DEF CallBlock, TypeOK, WaitsForMain, MainQueueIdle, MainThreadFree
      <4> QED
        BY <1>2, <1>3, <2>2, <4>1 DEF CalledOnce, WaitsForMain, PassedOn, Delivered
    <3>2. CASE crashed' # crashed
      BY <1>3, <3>2 DEF CallBlock, CalledOnce, PassedOn, Delivered
    <3> QED
      BY <3>1, <3>2
  <2> QED
    BY <2>1, <2>2
<1> QED
  BY <1>0, <1>6, <1>7, <1>8

LEMMA DeliveryStep == DeliveryInv /\ [Next]_vars => DeliveryInv'
  BY DeliveryStepQuiet, DeliveryStepCall

\* A client's block is called at most once, with what the task ended with: for any
\* number of requests that share the queues.
THEOREM DeliversOnce == Spec => []CalledOnceWithTheOutcome
<1>1. DeliveryInv => CalledOnceWithTheOutcome
  <2> SUFFICES ASSUME DeliveryInv, NEW r \in Request
               PROVE  /\ Len(received[r]) <= 1
                      /\ \A i \in DOMAIN received[r] :
                            /\ (received[r][i].object = "JSON") <=> (outcome[r] = "ok")
                            /\ received[r][i].error = "nil"
    BY DEF CalledOnceWithTheOutcome
  <2>1. CASE received[r] = <<>>
    BY <2>1
  <2>2. CASE received[r] # <<>>
    <3>1. received[r] = <<Delivered(r)>>
      BY <2>2 DEF DeliveryInv, CalledOnce
    <3>2. Delivered(r).error = "nil" /\ (Delivered(r).object = "JSON" <=> outcome[r] = "ok")
      BY DEF Delivered, CallbackArguments, Completion
    <3> HIDE DEF Delivered
    <3> QED
      BY <3>1, <3>2
  <2> QED
    BY <2>1, <2>2
<1> QED
  BY <1>1, DeliveryInit, DeliveryStep, PTL DEF Spec
-----------------------------------------------------------------------------
(* Clients that keep their requests and submit what can be configured.      *)

Raises(c) == c.requestType = "json" /\ JSONException(c)

\* What a request was submitted with.
Submitted(q) == net[q] # "new" => conf[q] \in Calls

KeptInv ==
    /\ DeliveryInv
    /\ crashed = "no"
    /\ \A q \in Request : held[q] /\ Submitted(q)

\* A step that does not configure a request or call a block raises nothing.
LEMMA KeptStep ==
    ASSUME Keepers = Request, \A c \in Calls : ~Raises(c)
    PROVE  KeptInv /\ [Next]_vars => KeptInv'
<1> SUFFICES ASSUME KeptInv, [Next]_vars PROVE KeptInv'
  OBVIOUS
<1>0. DeliveryInv' /\ TypeOK
  BY DeliveryStep DEF KeptInv, DeliveryInv, LifeInv
<1> DEFINE Good == crashed = "no" /\ \A q \in Request : held[q] /\ Submitted(q)
<1>g. Good
  BY DEF KeptInv
<1> USE <1>0, <1>g DEF Submitted, TypeOK, confVars, netVars, taskVars, cancelVars, handlerVars, mainVars
<1>1. ASSUME NEW r \in Request, NEW c \in Calls, NEW block \in BOOLEAN, response(r, c, block)
      PROVE  Good'
  BY <1>1 DEF response
<1>2. ASSUME NEW r \in Request,
             \/ SetCallbackWhenCancelled(r) \/ CancelFlag(r) \/ CancelTask(r) \/ StoreVisible(r)
             \/ TaskCompletes(r) \/ HandleCompletion(r) \/ ReleaseHandler(r) \/ ClearBlock(r)
      PROVE  Good'
  BY <1>2 DEF SetCallbackWhenCancelled, CancelFlag, CancelTask, StoreVisible, ShouldCancelVisible,
              SessionTaskVisible, TaskCompletes, HandleCompletion, ReleaseHandler, ClearBlock
<1>3. ASSUME NEW r \in Request, Drop(r) PROVE FALSE
  BY <1>3 DEF Drop
<1>4. ASSUME NEW r \in Request, Config(r) PROVE Good'
  <2>1. conf[r] \in Calls
    BY <1>4 DEF Config, RunsOnNetwork
  <2>2. ~(conf[r].requestType = "json" /\ JSONException(conf[r]))
    BY <2>1 DEF Raises
  <2>3. net' = [net EXCEPT ![r] = "configured"] /\ UNCHANGED <<conf, held, crashed>>
    BY <1>4, <2>2 DEF Config
  <2> QED
    BY <1>4, <2>1, <2>3
<1>5. ASSUME NEW r \in Request, CreateTask(r) \/ CheckShouldCancel(r) \/ Resume(r) PROVE Good'
  <2>1. /\ net[r] # "new" /\ UNCHANGED <<conf, held, crashed>>
        /\ \E step \in NetStep : net' = [net EXCEPT ![r] = step]
    BY <1>5 DEF CreateTask, CheckShouldCancel, Resume, RunsOnNetwork, NetStep
  <2> QED
    BY <2>1
<1>6. ASSUME CallBlock PROVE Good'
  <2> DEFINE r == Head(mainQueue).req
  <2>1. 1 \in DOMAIN mainQueue /\ Head(mainQueue) = mainQueue[1]
    BY <1>6 DEF CallBlock
  <2>2. r \in Request /\ responseBlock[r]
    BY <2>1, MainQueueTyped DEF KeptInv, DeliveryInv, WaitsForMain
  <2>3. crashed' = crashed
    BY <1>6, <2>2 DEF CallBlock, Alive
  <2>4. UNCHANGED <<conf, net, held>>
    BY <1>6 DEF CallBlock
  <2> QED
    BY <2>3, <2>4
<1>7. ASSUME UNCHANGED vars PROVE Good'
  BY <1>7 DEF vars
<1> HIDE DEF Good
<1>8. Good'
  BY <1>1, <1>2, <1>3, <1>4, <1>5, <1>6, <1>7 DEF Next, NetworkStep
<1> QED
  BY <1>0, <1>8 DEF KeptInv, Good

LEMMA KeptInit == Init => KeptInv
  BY DeliveryInit DEF Init, KeptInv, Submitted

\* Clients that keep their requests, and whose chains end in a configuration that does
\* not raise, never die of a nil block: NetworkRequest.m:369 is reached with the block
\* in place, whatever is cancelled and however the queues interleave.
THEOREM KeptRequestsDoNotCrash ==
    ASSUME Keepers = Request, \A c \in Calls : ~Raises(c)
    PROVE  Spec => []NeverCrashes
<1>1. KeptInv => NeverCrashes
  BY DEF KeptInv, NeverCrashes
<1> QED
  BY <1>1, KeptInit, KeptStep, PTL DEF Spec
-----------------------------------------------------------------------------
(* Each step is one of CallbackOnce, or leaves what clients see alone.      *)

\* Where CallbackOnce has a request, and whether it is excused: the mapping of Promise.
NoneQueued(q) == \A i \in DOMAIN mainQueue : mainQueue[i].req # q
Status(q)  == IF net[q] = "new" THEN "idle"
              ELSE IF received[q] # <<>> THEN "delivered"
              ELSE IF PassedOn(q) /\ NoneQueued(q) THEN "silent"
              ELSE "pending"
Excused(q) == net[q] # "new" /\ (cancel[q] # "none" \/ ~responseBlock[q])

\* Only the client's cancel sets the flag, cancels the task and ends it so.
CancelSeen(q) ==
    /\ shouldCancel[q] \/ <<"shouldCancel", q>> \in pending => cancel[q] # "none"
    /\ task[q] = "canceling" => cancel[q] # "none"
    /\ outcome[q] = "cancelled" => cancel[q] # "none"

PromiseInv == KeptInv /\ \A q \in Request : CancelSeen(q)

LEMMA CancelSeenStep ==
    ASSUME PromiseInv, [Next]_vars, NEW q \in Request
    PROVE  CancelSeen(q)'
<1> USE DEF TypeOK, confVars, netVars, taskVars, cancelVars, handlerVars, mainVars
<1>0. TypeOK /\ CancelSeen(q)
  BY DEF PromiseInv, KeptInv, DeliveryInv, LifeInv
<1> USE <1>0 DEF CancelSeen
<1>1. ASSUME NEW r \in Request,
             \/ \E c \in Calls, block \in BOOLEAN : response(r, c, block)
             \/ SetCallbackWhenCancelled(r) \/ Drop(r) \/ Config(r)
             \/ HandleCompletion(r) \/ ReleaseHandler(r) \/ ClearBlock(r)
      PROVE  CancelSeen(q)'
  BY <1>1 DEF response, SetCallbackWhenCancelled, Drop, Config, HandleCompletion, ReleaseHandler,
              ClearBlock
<1>2. ASSUME NEW r \in Request, CancelFlag(r) PROVE CancelSeen(q)'
  BY <1>2 DEF CancelFlag
<1>3. ASSUME NEW r \in Request, CancelTask(r) PROVE CancelSeen(q)'
  BY <1>3 DEF CancelTask
<1>4. ASSUME NEW r \in Request, StoreVisible(r) PROVE CancelSeen(q)'
  BY <1>4 DEF StoreVisible, ShouldCancelVisible, SessionTaskVisible
<1>5. ASSUME NEW r \in Request, CreateTask(r) PROVE CancelSeen(q)'
  BY <1>5 DEF CreateTask
<1>6. ASSUME NEW r \in Request, CheckShouldCancel(r) PROVE CancelSeen(q)'
  BY <1>6 DEF CheckShouldCancel, TaskAfterCheck
<1>7. ASSUME NEW r \in Request, Resume(r) PROVE CancelSeen(q)'
  BY <1>7 DEF Resume
<1>8. ASSUME NEW r \in Request, TaskCompletes(r) PROVE CancelSeen(q)'
  <2>1. PICK o \in Outcomes(r) : outcome' = [outcome EXCEPT ![r] = o]
    BY <1>8 DEF TaskCompletes
  <2>2. o = "cancelled" => task[r] = "canceling"
    BY <2>1 DEF Outcomes, Outcome
  <2> QED
    BY <1>8, <2>1, <2>2 DEF TaskCompletes
<1>9. CASE CallBlock \/ UNCHANGED vars
  BY <1>9 DEF CallBlock, vars
<1> QED
  BY <1>1, <1>2, <1>3, <1>4, <1>5, <1>6, <1>7, <1>8, <1>9 DEF Next, NetworkStep

\* A step of CallbackOnce is one that changes a single request as it may.
LEMMA OneRequestMoves ==
    ASSUME NEW r \in Request,
           \A q \in Request \ {r} : Status(q)' = Status(q) /\ Excused(q)' = Excused(q),
           \/ Status(r) = "idle" /\ Status(r)' = "pending"
           \/ Status(r) # "idle" /\ Status(r)' = Status(r) /\ Excused(r)'
           \/ /\ Status(r) = "pending" /\ Status(r)' \in {"delivered", "silent"}
              /\ Status(r)' = "silent" => Excused(r)
              /\ Excused(r)' = Excused(r)
           \/ Status(r)' = Status(r) /\ Excused(r)' = Excused(r)
    PROVE  [Promise!Next]_(Promise!vars)
<1> DEFINE S == [q \in Request |-> Status(q)]
           E == [q \in Request |-> Excused(q)]
<1>1. CASE Status(r) = "idle" /\ Status(r)' = "pending"
  <2>1. S' = [S EXCEPT ![r] = "pending"] /\ E' = [E EXCEPT ![r] = Excused(r)'] /\ Excused(r)' \in BOOLEAN
    BY <1>1 DEF Excused
  <2>2. Promise!Submit(r)
    BY <1>1, <2>1 DEF Promise!Submit, Status, Excused, PassedOn, NoneQueued
  <2> QED
    BY <2>2 DEF Promise!Next
<1>2. CASE Status(r) # "idle" /\ Status(r)' = Status(r) /\ Excused(r)'
  <2>1. S' = S /\ E' = [E EXCEPT ![r] = TRUE]
    BY <1>2 DEF Excused
  <2>2. Promise!Excuse(r)
    BY <1>2, <2>1 DEF Promise!Excuse, Status, Excused, PassedOn, NoneQueued
  <2> QED
    BY <2>2 DEF Promise!Next
<1>3. CASE /\ Status(r) = "pending" /\ Status(r)' \in {"delivered", "silent"}
           /\ Status(r)' = "silent" => Excused(r)
           /\ Excused(r)' = Excused(r)
  <2>1. E' = E /\ \E how \in {"delivered", "silent"} :
                     how = Status(r)' /\ S' = [S EXCEPT ![r] = how]
    BY <1>3
  <2>2. Promise!Answer(r, "delivered") \/ Promise!Answer(r, "silent")
    BY <1>3, <2>1 DEF Promise!Answer, Status, Excused, PassedOn, NoneQueued
  <2> QED
    BY <2>2 DEF Promise!Next, Promise!Settle
<1>4. CASE Status(r)' = Status(r) /\ Excused(r)' = Excused(r)
  <2>1. E' = E /\ S' = S
    BY <1>4
  <2> QED
    BY <2>1 DEF Promise!vars, Status, Excused, PassedOn, NoneQueued
<1> QED
  BY <1>1, <1>2, <1>3, <1>4

\* A step that leaves these things of every request alone is a stutter of CallbackOnce.
LEMMA NothingMoves ==
    ASSUME UNCHANGED <<received, mainQueue, responseBlock>>,
           \A q \in Request : /\ net'[q] = "new" <=> net[q] = "new"
                              /\ cancel'[q] = "none" <=> cancel[q] = "none"
                              /\ PassedOn(q)' <=> PassedOn(q)
    PROVE  [Promise!Next]_(Promise!vars)
<1>1. \A q \in Request : Status(q)' = Status(q) /\ Excused(q)' = Excused(q)
  BY DEF Status, Excused, NoneQueued
<1>2. /\ [q \in Request |-> Status(q)]' = [q \in Request |-> Status(q)]
      /\ [q \in Request |-> Excused(q)]' = [q \in Request |-> Excused(q)]
  BY <1>1
<1> QED
  BY <1>2 DEF Promise!vars, Status, Excused, PassedOn, NoneQueued

LEMMA PromiseStep ==
    ASSUME PromiseInv, PromiseInv', [Next]_vars
    PROVE  [Promise!Next]_(Promise!vars)
<1> USE DEF confVars, netVars, taskVars, cancelVars, handlerVars, mainVars
<1>0. /\ TypeOK /\ TypeOK' /\ LifeInv /\ DeliveryInv
      /\ \A q \in Request : TaskStored(q) /\ TaskEnds(q) /\ CalledOnce(q)
  BY DEF PromiseInv, KeptInv, DeliveryInv, LifeInv
<1>1. ASSUME NEW r \in Request, NEW c \in Calls, NEW block \in BOOLEAN, response(r, c, block)
      PROVE  [Promise!Next]_(Promise!vars)
  <2>1. /\ net[r] = "new" /\ net'[r] = "queued" /\ received' = received /\ handler' = handler
        /\ cancel' = cancel /\ mainQueue' = mainQueue
        /\ \A q \in Request \ {r} : net'[q] = net[q] /\ responseBlock'[q] = responseBlock[q]
    BY <1>0, <1>1 DEF response, TypeOK
  <2>2. ~PassedOn(r) /\ received[r] = <<>>
    BY <1>0, <2>1 DEF TaskStored, TaskEnds, CalledOnce, PassedOn
  <2>3. Status(r) = "idle" /\ Status(r)' = "pending"
    BY <2>1, <2>2 DEF Status, PassedOn
  <2>4. \A q \in Request \ {r} : Status(q)' = Status(q) /\ Excused(q)' = Excused(q)
    BY <2>1 DEF Status, Excused, PassedOn, NoneQueued
  <2> QED
    BY <2>3, <2>4, OneRequestMoves
<1>2. ASSUME NEW r \in Request,
             SetCallbackWhenCancelled(r) \/ Drop(r) \/ CancelTask(r) \/ StoreVisible(r)
      PROVE  [Promise!Next]_(Promise!vars)
  <2>1. /\ UNCHANGED <<received, mainQueue, responseBlock, net, handler>>
        /\ \A q \in Request : cancel'[q] = "none" <=> cancel[q] = "none"
    BY <1>0, <1>2 DEF SetCallbackWhenCancelled, Drop, CancelTask, StoreVisible,
                      ShouldCancelVisible, SessionTaskVisible, TypeOK
  <2> QED
    BY <2>1, NothingMoves DEF PassedOn
<1>3. ASSUME NEW r \in Request, CancelFlag(r) PROVE [Promise!Next]_(Promise!vars)
  <2>1. /\ UNCHANGED <<received, mainQueue, responseBlock, net, handler>> /\ net[r] # "new"
        /\ cancel'[r] = "flagged" /\ \A q \in Request \ {r} : cancel'[q] = cancel[q]
    BY <1>0, <1>3 DEF CancelFlag, TypeOK
  <2>2. Status(r) # "idle" /\ Status(r)' = Status(r) /\ Excused(r)'
    BY <2>1 DEF Status, Excused, PassedOn, NoneQueued
  <2>3. \A q \in Request \ {r} : Status(q)' = Status(q) /\ Excused(q)' = Excused(q)
    BY <2>1 DEF Status, Excused, PassedOn, NoneQueued
  <2> QED
    BY <2>2, <2>3, OneRequestMoves
<1>4. ASSUME NEW r \in Request, NetworkStep(r) PROVE [Promise!Next]_(Promise!vars)
  <2>1. UNCHANGED <<received, mainQueue, responseBlock, cancel, handler>>
    BY <1>4 DEF NetworkStep, Config, CreateTask, CheckShouldCancel, Resume
  <2>2. CASE Config(r)
    <3>1. \/ net' = net
          \/ net[r] = "queued" /\ net' = [net EXCEPT ![r] = "configured"]
      <4> DEFINE raises == conf[r].requestType = "json" /\ JSONException(conf[r])
      <4>1. IF raises THEN net' = net ELSE net' = [net EXCEPT ![r] = "configured"]
        BY <2>2 DEF Config
      <4>2. net[r] = "queued"
        BY <2>2 DEF Config, RunsOnNetwork
      <4> HIDE DEF raises
      <4> QED
        BY <4>1, <4>2
    <3>2. \A q \in Request : net'[q] = "new" <=> net[q] = "new"
      BY <1>0, <3>1 DEF TypeOK
    <3> QED
      BY <2>1, <3>2, NothingMoves DEF PassedOn
  <2>3. CASE CreateTask(r) \/ CheckShouldCancel(r) \/ Resume(r)
    <3>1. \A q \in Request : net'[q] = "new" <=> net[q] = "new"
      BY <1>0, <2>3 DEF CreateTask, CheckShouldCancel, Resume, RunsOnNetwork, TypeOK
    <3> QED
      BY <2>1, <3>1, NothingMoves DEF PassedOn
  <2> QED
    BY <1>4, <2>2, <2>3 DEF NetworkStep
<1>5. ASSUME NEW r \in Request, TaskCompletes(r) PROVE [Promise!Next]_(Promise!vars)
  <2>1. /\ UNCHANGED <<received, mainQueue, responseBlock, cancel, net>>
        /\ handler[r] = "none" /\ handler' = [handler EXCEPT ![r] = "queued"]
    BY <1>0, <1>5 DEF TaskCompletes, TaskEnds, TypeOK
  <2>2. \A q \in Request : PassedOn(q)' <=> PassedOn(q)
    BY <1>0, <2>1 DEF PassedOn, TypeOK
  <2> QED
    BY <2>1, <2>2, NothingMoves
<1>6. ASSUME NEW r \in Request, ReleaseHandler(r) PROVE [Promise!Next]_(Promise!vars)
  <2>1. /\ UNCHANGED <<received, mainQueue, responseBlock, cancel, net>>
        /\ handler[r] = "returning" /\ handler' = [handler EXCEPT ![r] = "released"]
    BY <1>6 DEF ReleaseHandler
  <2>2. \A q \in Request : PassedOn(q)' <=> PassedOn(q)
    BY <1>0, <2>1 DEF PassedOn, TypeOK
  <2> QED
    BY <2>1, <2>2, NothingMoves
<1>7. ASSUME NEW r \in Request, HandleCompletion(r) PROVE [Promise!Next]_(Promise!vars)
  <2>1. /\ UNCHANGED <<received, responseBlock, cancel, net, outcome, callbackWhenCancelled>>
        /\ handler[r] = "queued" /\ handler'[r] = "returning"
        /\ \A q \in Request \ {r} : handler'[q] = handler[q]
    BY <1>0, <1>7 DEF HandleCompletion, TypeOK
  <2>2. /\ ~PassedOn(r) /\ received[r] = <<>> /\ PassedOn(r)'
        /\ net[r] # "new" /\ Status(r) = "pending"
    BY <1>0, <2>1 DEF PassedOn, CalledOnce, TaskEnds, TaskStored, Status
  <2>3. \A i \in DOMAIN mainQueue : mainQueue[i].req # r
    BY <1>0, <2>2 DEF DeliveryInv, WaitsForMain
  <2>4. CASE CallsBack(r)
    <3>0. PICK b : b.req = r /\ mainQueue' = Append(mainQueue, b)
      BY <1>7, <2>4 DEF HandleCompletion
    <3>1. /\ DOMAIN mainQueue' = DOMAIN mainQueue \cup {Len(mainQueue) + 1}
          /\ \A i \in DOMAIN mainQueue : mainQueue'[i] = mainQueue[i]
          /\ mainQueue'[Len(mainQueue) + 1].req = r
      <4>1. mainQueue \in Seq(MainBlock)
        BY <1>0 DEF TypeOK
      <4> QED
        BY <3>0, <4>1
    <3>2. ~NoneQueued(r)' /\ \A q \in Request \ {r} : NoneQueued(q)' <=> NoneQueued(q)
      BY <3>1 DEF NoneQueued
    <3>3. \A q \in Request \ {r} : Status(q)' = Status(q) /\ Excused(q)' = Excused(q)
      BY <2>1, <3>2 DEF Status, Excused, PassedOn
    <3>4. Status(r)' = Status(r) /\ Excused(r)' = Excused(r)
      BY <2>1, <2>2, <3>2 DEF Status, Excused
    <3> QED
      BY <3>3, <3>4, OneRequestMoves
  <2>5. CASE ~CallsBack(r)
    <3>1. mainQueue' = mainQueue
      BY <1>7, <2>5 DEF HandleCompletion
    <3>2. Excused(r) /\ Excused(r)'
      BY <1>0, <2>1, <2>2, <2>5 DEF CallsBack, Silenced, Excused, PromiseInv, CancelSeen
    <3>3. Status(r)' = "silent"
      BY <2>1, <2>2, <2>3, <3>1 DEF Status, NoneQueued
    <3>4. \A q \in Request \ {r} : Status(q)' = Status(q) /\ Excused(q)' = Excused(q)
      BY <2>1, <3>1 DEF Status, Excused, PassedOn, NoneQueued
    <3> QED
      BY <2>2, <3>2, <3>3, <3>4, OneRequestMoves
  <2> QED
    BY <2>4, <2>5
<1>8. ASSUME NEW r \in Request, ClearBlock(r) PROVE [Promise!Next]_(Promise!vars)
  <2>1. /\ UNCHANGED <<received, mainQueue, cancel, net, handler>>
        /\ callback[r] = "running" /\ ~responseBlock'[r]
        /\ \A q \in Request \ {r} : responseBlock'[q] = responseBlock[q]
    BY <1>0, <1>8 DEF ClearBlock, TypeOK
  <2>2. net[r] # "new"
    BY <1>0, <2>1 DEF CalledOnce, TaskEnds, TaskStored
  <2>3. Status(r) # "idle" /\ Status(r)' = Status(r) /\ Excused(r)'
    BY <2>1, <2>2 DEF Status, Excused, PassedOn, NoneQueued
  <2>4. \A q \in Request \ {r} : Status(q)' = Status(q) /\ Excused(q)' = Excused(q)
    BY <2>1 DEF Status, Excused, PassedOn, NoneQueued
  <2> QED
    BY <2>3, <2>4, OneRequestMoves
<1>9. ASSUME CallBlock PROVE [Promise!Next]_(Promise!vars)
  <2>0. PICK r : r = Head(mainQueue).req
    OBVIOUS
  <2>1. /\ mainQueue # <<>> /\ 1 \in DOMAIN mainQueue /\ r = mainQueue[1].req
        /\ \A i \in DOMAIN mainQueue' : i + 1 \in DOMAIN mainQueue /\ mainQueue'[i] = mainQueue[i + 1]
        /\ \A i \in DOMAIN mainQueue : i # 1 => i - 1 \in DOMAIN mainQueue'
    <3>1. mainQueue \in Seq(MainBlock) /\ mainQueue # <<>> /\ mainQueue' = Tail(mainQueue)
      BY <1>0, <1>9 DEF CallBlock, TypeOK
    <3> QED
      BY <2>0, <3>1
  <2>2. r \in Request /\ received[r] = <<>> /\ outcome[r] # "none"
    BY <1>0, <2>1, MainQueueTyped DEF DeliveryInv, WaitsForMain
  <2>3. crashed' = "no"
    BY DEF PromiseInv, KeptInv
  <2>4. /\ UNCHANGED <<net, handler, cancel, responseBlock>>
        /\ received' = [received EXCEPT ![r] = Append(received[r], Head(mainQueue).args)]
    BY <1>9, <2>0, <2>3 DEF CallBlock
  <2>5. received'[r] # <<>> /\ \A q \in Request \ {r} : received'[q] = received[q]
    BY <1>0, <2>2, <2>4 DEF TypeOK
  <2>6. \A q \in Request \ {r} : NoneQueued(q)' <=> NoneQueued(q)
    <3> SUFFICES ASSUME NEW q \in Request \ {r} PROVE NoneQueued(q)' <=> NoneQueued(q)
      OBVIOUS
    <3>1. NoneQueued(q) => NoneQueued(q)'
      BY <2>1 DEF NoneQueued
    <3>2. ASSUME NEW i \in DOMAIN mainQueue, mainQueue[i].req = q
          PROVE  mainQueue'[i - 1].req = q /\ i - 1 \in DOMAIN mainQueue'
      <4>1. i # 1 /\ i \in Nat
        BY <1>0, <2>1, <3>2 DEF TypeOK
      <4>2. i - 1 \in DOMAIN mainQueue' /\ (i - 1) + 1 = i
        BY <2>1, <4>1
      <4> QED
        BY <2>1, <3>2, <4>2
    <3> QED
      BY <3>1, <3>2 DEF NoneQueued
  <2>7. \A q \in Request \ {r} : Status(q)' = Status(q) /\ Excused(q)' = Excused(q)
    BY <2>4, <2>5, <2>6 DEF Status, Excused, PassedOn
  <2>8. net[r] # "new" /\ ~NoneQueued(r)
    BY <1>0, <2>1, <2>2 DEF TaskEnds, TaskStored, NoneQueued
  <2>9. Status(r) = "pending" /\ Status(r)' = "delivered" /\ Excused(r)' = Excused(r)
    BY <2>2, <2>4, <2>5, <2>8 DEF Status, Excused
  <2> QED
    BY <2>2, <2>7, <2>9, OneRequestMoves
<1>10. ASSUME UNCHANGED vars PROVE [Promise!Next]_(Promise!vars)
  BY <1>10, NothingMoves DEF vars, PassedOn
<1> QED
  BY <1>1, <1>2, <1>3, <1>4, <1>5, <1>6, <1>7, <1>8, <1>9, <1>10 DEF Next

\* Clients that keep their requests get what CallbackOnce promises: each request
\* settles once, by one call or, if it was cancelled or has no block, by none.
THEOREM ImplementsCallbackOnce ==
    ASSUME Keepers = Request, \A c \in Calls : ~Raises(c)
    PROVE  Spec => Promise!Init /\ [][Promise!Next]_(Promise!vars)
<1>1. Init => PromiseInv /\ Promise!Init
  <2> SUFFICES ASSUME Init PROVE PromiseInv /\ Promise!Init
    OBVIOUS
  <2>1. PromiseInv
    BY KeptInit DEF Init, PromiseInv, CancelSeen
  <2> QED
    BY <2>1 DEF Init, Promise!Init
<1>2. PromiseInv /\ [Next]_vars => PromiseInv'
  BY KeptStep, CancelSeenStep DEF PromiseInv
<1>3. PromiseInv /\ PromiseInv' /\ [Next]_vars => [Promise!Next]_(Promise!vars)
  BY PromiseStep
<1> QED
  BY <1>1, <1>2, <1>3, PTL DEF Spec
=============================================================================
