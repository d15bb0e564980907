-------------------------- MODULE NetworkRequestProofs --------------------------
(***************************************************************************)
(* Theorems about NetworkRequest for every set of requests and clients.    *)
(***************************************************************************)
EXTENDS NetworkRequest, SequenceTheorems, TLAPS

\* What the handler passes on is a pair of arguments of a ResponseBlock.
LEMMA ArgumentsTyped ==
    \A o \in Outcome \cup {"none"} : CallbackArguments(Completion(o)) \in Response
  BY DEF CallbackArguments, Completion, Response, Outcome

\* What a URL request is after jsonRequestConfig.
LEMMA URLRequestTyped ==
    \A c \in Configuration : jsonRequestConfig(c) \in URLRequest
  BY DEF Configuration, jsonRequestConfig, URLRequest, HTTPMethods

\* Cancelling a task leaves it in one of the session's states.
LEMMA AfterCancelTyped ==
    \A s \in TaskState : AfterCancel(s) \in TaskState
  BY DEF AfterCancel, TaskState

\* Each variable keeps its type: the type invariant of NetworkRequest.
LEMMA TypeStep == TypeOK /\ [Next]_vars => TypeOK'
<1> SUFFICES ASSUME TypeOK, [Next]_vars PROVE TypeOK'
  OBVIOUS
<1> USE DEF TypeOK, confVars, netVars, taskVars, cancelVars, handlerVars, mainVars
<1>1. ASSUME NEW r \in Request, NEW c \in Calls, NEW block \in BOOLEAN, response(r, c, block)
      PROVE  TypeOK'
  BY <1>1, CallsAssumption DEF response, NetStep
<1>2. ASSUME NEW r \in Request, SetCallbackWhenCancelled(r) PROVE TypeOK'
  BY <1>2 DEF SetCallbackWhenCancelled
<1>3. ASSUME NEW r \in Request, Drop(r) PROVE TypeOK'
  BY <1>3 DEF Drop
<1>4. ASSUME NEW r \in Request, CancelFlag(r) PROVE TypeOK'
  BY <1>4 DEF CancelFlag
<1>5. ASSUME NEW r \in Request, CancelTask(r) PROVE TypeOK'
  BY <1>5, AfterCancelTyped DEF CancelTask, TaskAfterCancel
<1>6. ASSUME NEW r \in Request, ShouldCancelVisible(r) PROVE TypeOK'
  BY <1>6 DEF ShouldCancelVisible
<1>7. ASSUME NEW r \in Request, SessionTaskVisible(r) PROVE TypeOK'
  BY <1>7 DEF SessionTaskVisible
<1>8. ASSUME NEW r \in Request, Config(r) PROVE TypeOK'
  <2>1. CASE conf[r].requestType = "json" /\ JSONException(conf[r])
    BY <1>8, <2>1 DEF Config
  <2>2. CASE ~(conf[r].requestType = "json" /\ JSONException(conf[r]))
    <3>1. jsonRequestConfig(conf[r]) \in URLRequest
      BY URLRequestTyped
    <3>2. urlRequest' \in [Request -> URLRequest \cup {NoURLRequest}]
      BY <1>8, <2>2, <3>1 DEF Config
    <3> QED
      BY <1>8, <2>2, <3>2 DEF Config, NetStep
  <2> QED
    BY <2>1, <2>2
<1>9. ASSUME NEW r \in Request, CreateTask(r) PROVE TypeOK'
  BY <1>9 DEF CreateTask, NetStep, TaskState
<1>10. ASSUME NEW r \in Request, CheckShouldCancel(r) PROVE TypeOK'
  BY <1>10, AfterCancelTyped DEF CheckShouldCancel, TaskAfterCheck, NetStep
<1>11. ASSUME NEW r \in Request, Resume(r) PROVE TypeOK'
  BY <1>11 DEF Resume, RunsOnNetwork, NetStep, TaskState
<1>12. ASSUME NEW r \in Request, TaskCompletes(r) PROVE TypeOK'
  <2>1. Outcomes(r) \subseteq Outcome
    BY DEF Outcomes, Outcome
  <2> QED
    BY <1>12, <2>1 DEF TaskCompletes, TaskState
<1>13. ASSUME NEW r \in Request, HandleCompletion(r) PROVE TypeOK'
  <2>1. [req |-> r, args |-> CallbackArguments(Completion(outcome[r]))] \in MainBlock
    BY ArgumentsTyped DEF MainBlock
  <2>2. mainQueue' \in Seq(MainBlock)
    <3>1. CASE CallsBack(r)
      <4>1. mainQueue' = Append(mainQueue,
                [req |-> r, args |-> CallbackArguments(Completion(outcome[r]))])
        BY <1>13, <3>1 DEF HandleCompletion
      <4> QED
        BY <2>1, <4>1, AppendProperties
    <3>2. CASE ~CallsBack(r)
      BY <1>13, <3>2 DEF HandleCompletion
    <3> QED
      BY <3>1, <3>2
  <2> QED
    BY <1>13, <2>2 DEF HandleCompletion
<1>14. ASSUME NEW r \in Request, ReleaseHandler(r) PROVE TypeOK'
  BY <1>14 DEF ReleaseHandler
<1>15. ASSUME NEW r \in Request, ClearBlock(r) PROVE TypeOK'
  BY <1>15 DEF ClearBlock
<1>16. CASE CallBlock
  <2>1. Head(mainQueue) \in MainBlock /\ mainQueue' \in Seq(MainBlock)
    BY <1>16, HeadTailProperties DEF CallBlock
  <2>2. Head(mainQueue).req \in Request /\ Head(mainQueue).args \in Response
    BY <2>1 DEF MainBlock
  <2> DEFINE q == Head(mainQueue).req
  <2>3. received' \in [Request -> Seq(Response)]
    <3>1. Append(received[q], Head(mainQueue).args) \in Seq(Response)
      BY <2>2, AppendProperties
    <3>2. \/ received' = received
          \/ received' = [received EXCEPT ![q] = Append(received[q], Head(mainQueue).args)]
      BY <1>16 DEF CallBlock
    <3> QED
      BY <2>2, <3>1, <3>2
  <2> QED
    BY <1>16, <2>1, <2>2, <2>3 DEF CallBlock
<1>17. CASE UNCHANGED vars
  BY <1>17 DEF vars
<1> QED
  BY <1>1, <1>2, <1>3, <1>4, <1>5, <1>6, <1>7, <1>8, <1>9, <1>10, <1>11, <1>12, <1>13,
     <1>14, <1>15, <1>16, <1>17 DEF Next, NetworkStep, StoreVisible

\* The type invariant holds in every state, for any requests and clients.
THEOREM TypeCorrect == Spec => []TypeOK
<1>1. Init => TypeOK
  BY DEF Init, TypeOK, NewRequest, Configuration, ParamKind, RequestType, HTTPMethods, NetStep, TaskState
<1> QED
  BY <1>1, TypeStep, PTL DEF Spec
-----------------------------------------------------------------------------
(* No cancel is lost but to a store that lingers, in whatever order the two  *)
(* threads' stores become visible.                                         *)

\* The task exists once the network block has stored it, and not before.
TaskStored(r) == net[r] \in {"stored", "checked", "done"} <=> task[r] # "none"

\* The flag that cancel stored is pending or visible; once cancel has looked for the
\* task, a flag that did not linger is visible.
FlagStored(r) ==
    /\ cancel[r] = "flagged" => shouldCancel[r] \/ <<"shouldCancel", r>> \in pending
    /\ CancelledInOrder(r) => shouldCancel[r]

\* So is the task that setSessionTask: stored; past resume it is visible.
TaskVisible(r) ==
    /\ net[r] \in {"stored", "checked"} => sessionTask[r] \/ <<"sessionTask", r>> \in pending
    /\ net[r] = "done" => sessionTask[r]

CancelInv ==
    /\ TypeOK
    /\ \A r \in Request : TaskStored(r) /\ FlagStored(r) /\ TaskVisible(r)
    /\ CancelNotLost

LEMMA CancelInit == Init => CancelInv
  BY DEF Init, CancelInv, TypeOK, NewRequest, Configuration, ParamKind, RequestType, HTTPMethods,
         NetStep, TaskState, TaskStored, FlagStored, TaskVisible, CancelledInOrder, CancelNotLost

\* Each step keeps the three facts and the property: unless a store lingers, whichever
\* of the two loads comes second sees the other thread's store.
LEMMA CancelStep == CancelInv /\ [Next]_vars => CancelInv'
<1> SUFFICES ASSUME CancelInv, [Next]_vars PROVE CancelInv'
  OBVIOUS
<1>0. TypeOK /\ TypeOK'
  BY TypeStep DEF CancelInv
<1> DEFINE Good(r) == /\ TaskStored(r) /\ FlagStored(r) /\ TaskVisible(r)
                      /\ CancelledInOrder(r) /\ net[r] \in {"checked", "done"}
                            => task[r] \in {"canceling", "completed"}
<1> SUFFICES ASSUME NEW q \in Request PROVE Good(q)'
  BY <1>0 DEF CancelInv, CancelNotLost
<1>q. Good(q)
  BY DEF CancelInv, CancelNotLost
<1> USE <1>0, <1>q
        DEF TaskStored, FlagStored, TaskVisible, CancelledInOrder, TypeOK, NetStep, TaskState,
            confVars, netVars, taskVars, cancelVars, handlerVars, mainVars
<1> HIDE DEF CancelInv
<1>1. ASSUME NEW r \in Request, NEW c \in Calls, NEW block \in BOOLEAN, response(r, c, block)
      PROVE  Good(q)'
  BY <1>1 DEF response
<1>2. ASSUME NEW r \in Request, SetCallbackWhenCancelled(r) \/ Drop(r) PROVE Good(q)'
  BY <1>2 DEF SetCallbackWhenCancelled, Drop
<1>3. ASSUME NEW r \in Request, CancelFlag(r) PROVE Good(q)'
  BY <1>3 DEF CancelFlag
<1>4. ASSUME NEW r \in Request, CancelTask(r) PROVE Good(q)'
  <2>1. CASE r # q
    BY <1>4, <2>1 DEF CancelTask
  <2>2. CASE r = q
    <3>1. task'[q] = IF sessionTask[q] THEN AfterCancel(task[q]) ELSE task[q]
      BY <1>4, <2>2 DEF CancelTask, TaskAfterCancel
    <3>2. cancel'[q] = "returned" /\ UNCHANGED <<net, sessionTask, shouldCancel, pending>>
      BY <1>4, <2>2 DEF CancelTask
    <3>3. CASE StoreLingers(q)
      <4>1. q \in lingered'
        BY <1>4, <2>2, <3>3 DEF CancelTask
      <4>2. TaskStored(q)'
        BY <1>4, <3>1, <3>2 DEF AfterCancel
      <4> QED
        BY <3>2, <4>1, <4>2
    <3>4. CASE ~StoreLingers(q)
      <4>1. shouldCancel[q]
        BY <1>4, <2>2, <3>4 DEF CancelTask, StoreLingers
      <4>2. net[q] \in {"checked", "done"} => sessionTask[q]
        BY <3>4 DEF StoreLingers
      <4>3. TaskStored(q)'
        BY <1>4, <3>1, <3>2 DEF AfterCancel
      <4>4. net[q] \in {"checked", "done"} => task'[q] \in {"canceling", "completed"}
        BY <3>1, <4>2 DEF AfterCancel
      <4> QED
        BY <3>2, <4>1, <4>3, <4>4
    <3> QED
      BY <3>3, <3>4
  <2> QED
    BY <2>1, <2>2
<1>5. ASSUME NEW r \in Request, ShouldCancelVisible(r) PROVE Good(q)'
  BY <1>5 DEF ShouldCancelVisible
<1>6. ASSUME NEW r \in Request, SessionTaskVisible(r) PROVE Good(q)'
  BY <1>6 DEF SessionTaskVisible
<1>7. ASSUME NEW r \in Request, Config(r) PROVE Good(q)'
  BY <1>7 DEF Config, RunsOnNetwork
<1>8. ASSUME NEW r \in Request, CreateTask(r) PROVE Good(q)'
  BY <1>8 DEF CreateTask, RunsOnNetwork
<1>9. ASSUME NEW r \in Request, CheckShouldCancel(r) PROVE Good(q)'
  <2>1. CASE r # q
    BY <1>9, <2>1 DEF CheckShouldCancel
  <2>2. CASE r = q
    <3>1. task'[q] = IF shouldCancel[q] THEN AfterCancel(task[q]) ELSE task[q]
      BY <1>9, <2>2 DEF CheckShouldCancel, TaskAfterCheck
    <3>2. net[q] = "stored" /\ net'[q] = "checked"
      BY <1>9, <2>2 DEF CheckShouldCancel, RunsOnNetwork
    <3> QED
      BY <1>9, <3>1, <3>2 DEF CheckShouldCancel, AfterCancel
  <2> QED
    BY <2>1, <2>2
<1>10. ASSUME NEW r \in Request, Resume(r) PROVE Good(q)'
  <2>1. CASE r # q
    BY <1>10, <2>1 DEF Resume
  <2>2. CASE r = q
    <3>1. /\ net[q] = "checked" /\ net'[q] = "done" /\ <<"sessionTask", q>> \notin pending
          /\ task'[q] = IF task[q] = "suspended" THEN "running" ELSE task[q]
          /\ UNCHANGED <<cancelVars, lingered>>
      BY <1>10, <2>2 DEF Resume, RunsOnNetwork
    <3>2. sessionTask[q] /\ TaskVisible(q)'
      BY <3>1
    <3>3. TaskStored(q)' /\ FlagStored(q)'
      BY <3>1
    <3> QED
      BY <3>1, <3>2, <3>3
  <2> QED
    BY <2>1, <2>2
<1>11. ASSUME NEW r \in Request, TaskCompletes(r) PROVE Good(q)'
  BY <1>11 DEF TaskCompletes
<1>12. ASSUME NEW r \in Request, HandleCompletion(r) \/ ReleaseHandler(r) \/ ClearBlock(r)
       PROVE  Good(q)'
  BY <1>12 DEF HandleCompletion, ReleaseHandler, ClearBlock
<1>13. CASE CallBlock
  BY <1>13 DEF CallBlock
<1>14. CASE UNCHANGED vars
  BY <1>14 DEF vars
<1> HIDE DEF Good
<1> QED
  BY <1>1, <1>2, <1>3, <1>4, <1>5, <1>6, <1>7, <1>8, <1>9, <1>10, <1>11, <1>12, <1>13, <1>14
     DEF Next, NetworkStep, StoreVisible

\* Cancel is lost only to a store that lingers: any other request whose cancel returned
\* and whose setSessionTask: has checked the flag has a cancelled or complete task.
THEOREM CancelIsNotLost == Spec => []CancelNotLost
<1>1. CancelInv => CancelNotLost
  BY DEF CancelInv
<1> QED
  BY <1>1, CancelInit, CancelStep, PTL DEF Spec

\* A request whose cancel has returned starts to load only if a store lingered.
THEOREM NoStartAfterCancel == Spec => NeverStartsAfterCancel
<1>1. CancelInv /\ [Next]_vars => [StartsUncancelled]_vars
  <2> SUFFICES ASSUME CancelInv, Next, NEW q \in Request,
                      task[q] = "suspended", task'[q] = "running"
               PROVE  ~CancelledInOrder(q)
    BY DEF StartsUncancelled
  <2>1. TypeOK
    BY DEF CancelInv
  <2>2. ASSUME NEW r \in Request, ~Resume(r),
               \/ \E c \in Calls, block \in BOOLEAN : response(r, c, block)
               \/ SetCallbackWhenCancelled(r) \/ Drop(r) \/ CancelFlag(r) \/ CancelTask(r)
               \/ StoreVisible(r) \/ NetworkStep(r) \/ TaskCompletes(r)
               \/ HandleCompletion(r) \/ ReleaseHandler(r) \/ ClearBlock(r)
        PROVE  FALSE
    BY <2>1, <2>2 DEF TypeOK, TaskState, response, SetCallbackWhenCancelled, Drop,
         CancelFlag, CancelTask, AfterCancel, TaskAfterCancel, TaskAfterCheck, StoreVisible, ShouldCancelVisible,
         SessionTaskVisible, NetworkStep, Config, CreateTask, CheckShouldCancel,
         TaskCompletes, HandleCompletion, ReleaseHandler, ClearBlock, taskVars
  <2>3. ~CallBlock
    BY DEF CallBlock, taskVars
  <2>4. PICK r \in Request : Resume(r)
    BY <2>2, <2>3 DEF Next
  <2>5. r = q /\ net[q] = "checked"
    BY <2>1, <2>4 DEF Resume, RunsOnNetwork, TypeOK, TaskState
  <2> QED
    BY <2>5 DEF CancelInv, CancelNotLost
<1> QED
  BY <1>1, CancelInit, CancelStep, PTL DEF Spec, NeverStartsAfterCancel
-----------------------------------------------------------------------------
(* A request that is cancelled in time stays silent.                        *)

\* Only a task that was resumed runs, one that ended has an outcome, and only an
\* ended one has a handler to run.
TaskEnds(r) ==
    /\ task[r] = "running" => net[r] = "done"
    /\ outcome[r] # "none" <=> task[r] = "completed"
    /\ handler[r] # "none" => outcome[r] # "none"

\* What is queued on the main thread for a cancelled task was asked for.
QueuedOnlyIfAsked(m) ==
    /\ outcome[m.req] # "none"
    /\ outcome[m.req] = "cancelled" => callbackWhenCancelled[m.req]

LifeInv == TypeOK /\ \A r \in Request : TaskStored(r) /\ TaskEnds(r)

SilentInv ==
    /\ CancelInv
    /\ LifeInv
    /\ \A i \in DOMAIN mainQueue : QueuedOnlyIfAsked(mainQueue[i])

LEMMA LifeInit == Init => LifeInv
  BY CancelInit DEF Init, LifeInv, CancelInv, TaskEnds

LEMMA SilentInit == Init => SilentInv
  BY CancelInit, LifeInit DEF Init, SilentInv

\* Each step keeps what LifeInv says of the tasks, whatever the order of stores.
LEMMA TaskEndsStep ==
    ASSUME LifeInv, [Next]_vars, NEW q \in Request
    PROVE  TaskStored(q)' /\ TaskEnds(q)'
<1> DEFINE Good == TaskStored(q) /\ TaskEnds(q)
<1> SUFFICES Good'
  OBVIOUS
<1> USE DEF TaskEnds, TypeOK, NetStep, TaskState, Outcome,
            confVars, netVars, taskVars, cancelVars, handlerVars, mainVars
<1>0. TypeOK /\ TaskEnds(q) /\ TaskStored(q)
  BY DEF LifeInv
<1> USE <1>0 DEF TaskStored
<1>1. ASSUME NEW r \in Request, NEW c \in Calls, NEW block \in BOOLEAN, response(r, c, block)
      PROVE  Good'
  BY <1>1 DEF response
<1>2. ASSUME NEW r \in Request,
             \/ SetCallbackWhenCancelled(r) \/ Drop(r) \/ CancelFlag(r)
             \/ ShouldCancelVisible(r) \/ SessionTaskVisible(r)
             \/ ReleaseHandler(r) \/ ClearBlock(r)
      PROVE  Good'
  BY <1>2 DEF SetCallbackWhenCancelled, Drop, CancelFlag, ShouldCancelVisible,
              SessionTaskVisible, ReleaseHandler, ClearBlock
<1>3. ASSUME NEW r \in Request, CancelTask(r) PROVE Good'
  BY <1>3 DEF CancelTask, TaskAfterCancel, AfterCancel
<1>4. ASSUME NEW r \in Request, Config(r) PROVE Good'
  BY <1>4 DEF Config, RunsOnNetwork
<1>5. ASSUME NEW r \in Request, CreateTask(r) PROVE Good'
  BY <1>5 DEF CreateTask, RunsOnNetwork
<1>6. ASSUME NEW r \in Request, CheckShouldCancel(r) PROVE Good'
  BY <1>6 DEF CheckShouldCancel, RunsOnNetwork, TaskAfterCheck, AfterCancel
<1>7. ASSUME NEW r \in Request, Resume(r) PROVE Good'
  BY <1>7 DEF Resume, RunsOnNetwork
<1>8. ASSUME NEW r \in Request, TaskCompletes(r) PROVE Good'
  BY <1>8 DEF TaskCompletes, Outcomes
<1>9. ASSUME NEW r \in Request, HandleCompletion(r) PROVE Good'
  BY <1>9 DEF HandleCompletion
<1>10. CASE CallBlock
  BY <1>10 DEF CallBlock
<1>11. CASE UNCHANGED vars
  BY <1>11 DEF vars
<1> HIDE DEF Good
<1> QED
  BY <1>1, <1>2, <1>3, <1>4, <1>5, <1>6, <1>7, <1>8, <1>9, <1>10, <1>11
     DEF Next, NetworkStep, StoreVisible

LEMMA LifeStep == LifeInv /\ [Next]_vars => LifeInv'
  BY TypeStep, TaskEndsStep DEF LifeInv

\* An outcome does not change and callbackWhenCancelled is not taken back.
LEMMA OutcomeStays ==
    ASSUME LifeInv, [Next]_vars, NEW q \in Request, outcome[q] # "none"
    PROVE  outcome'[q] = outcome[q] /\ (callbackWhenCancelled[q] => callbackWhenCancelled'[q])
<1> USE DEF TypeOK, confVars, netVars, taskVars, cancelVars, handlerVars, mainVars
<1>0. TypeOK /\ task[q] = "completed"
  BY DEF LifeInv, TaskEnds
<1>0a. TypeOK' /\ TaskStored(q)
  BY TypeStep DEF LifeInv
<1> USE <1>0
<1>1. ASSUME NEW r \in Request, NEW c \in Calls, NEW block \in BOOLEAN, response(r, c, block)
      PROVE  outcome' = outcome /\ (callbackWhenCancelled[q] => callbackWhenCancelled'[q])
  BY <1>0a, <1>1 DEF response, TaskStored, NetStep
<1>2. ASSUME NEW r \in Request, SetCallbackWhenCancelled(r) \/ CancelFlag(r) \/ Drop(r)
      PROVE  outcome' = outcome /\ (callbackWhenCancelled[q] => callbackWhenCancelled'[q])
  BY <1>2 DEF SetCallbackWhenCancelled, CancelFlag, Drop
<1>3. ASSUME NEW r \in Request,
             \/ CancelTask(r) \/ StoreVisible(r) \/ NetworkStep(r)
             \/ HandleCompletion(r) \/ ReleaseHandler(r) \/ ClearBlock(r)
      PROVE  UNCHANGED <<outcome, callbackWhenCancelled>>
  BY <1>3 DEF CancelTask, StoreVisible, ShouldCancelVisible, SessionTaskVisible, NetworkStep, Config,
              CreateTask, CheckShouldCancel, Resume, HandleCompletion, ReleaseHandler, ClearBlock
<1>4. ASSUME NEW r \in Request, TaskCompletes(r)
      PROVE  outcome'[q] = outcome[q] /\ UNCHANGED callbackWhenCancelled
  BY <1>4 DEF TaskCompletes
<1>5. CASE CallBlock \/ UNCHANGED vars
  BY <1>5 DEF CallBlock, vars
<1> QED
  BY <1>1, <1>2, <1>3, <1>4, <1>5 DEF Next

\* Each step keeps what SilentInv says of the main queue: a block is added by
\* the handler, which has seen that the client asked for it.
LEMMA QueueStep ==
    ASSUME SilentInv, [Next]_vars
    PROVE  \A i \in DOMAIN mainQueue' : QueuedOnlyIfAsked(mainQueue[i])'
<1> USE DEF confVars, netVars, taskVars, cancelVars, handlerVars, mainVars
<1>0. TypeOK
  BY DEF SilentInv, CancelInv
<1>1. \A i \in DOMAIN mainQueue : mainQueue[i].req \in Request
  <2>1. \A i \in DOMAIN mainQueue : mainQueue[i] \in MainBlock
    BY <1>0 DEF TypeOK
  <2>2. \A m \in MainBlock : m.req \in Request
    BY DEF MainBlock
  <2> QED
    BY <2>1, <2>2
<1>2. \A i \in DOMAIN mainQueue : /\ outcome'[mainQueue[i].req] # "none"
                                  /\ outcome'[mainQueue[i].req] = "cancelled"
                                        => callbackWhenCancelled'[mainQueue[i].req]
  <2> SUFFICES ASSUME NEW i \in DOMAIN mainQueue
               PROVE  /\ outcome'[mainQueue[i].req] # "none"
                      /\ outcome'[mainQueue[i].req] = "cancelled"
                            => callbackWhenCancelled'[mainQueue[i].req]
    OBVIOUS
  <2>1. QueuedOnlyIfAsked(mainQueue[i])
    BY DEF SilentInv
  <2> QED
    BY <1>1, <2>1, OutcomeStays DEF QueuedOnlyIfAsked, SilentInv
<1>3. CASE mainQueue' = mainQueue
  BY <1>2, <1>3 DEF QueuedOnlyIfAsked
<1>4. CASE CallBlock
  <2>1. mainQueue \in Seq(MainBlock) /\ mainQueue # <<>> /\ mainQueue' = Tail(mainQueue)
    BY <1>0, <1>4 DEF CallBlock, TypeOK
  <2>2. \A i \in DOMAIN mainQueue' : i + 1 \in DOMAIN mainQueue /\ mainQueue'[i] = mainQueue[i + 1]
    BY <2>1
  <2> QED
    BY <1>2, <2>2 DEF QueuedOnlyIfAsked
<1>5. ASSUME NEW r \in Request, HandleCompletion(r), mainQueue' # mainQueue
      PROVE  \A i \in DOMAIN mainQueue' : QueuedOnlyIfAsked(mainQueue[i])'
  <2> DEFINE b == [req |-> r, args |-> CallbackArguments(Completion(outcome[r]))]
  <2>1. mainQueue' = Append(mainQueue, b) /\ CallsBack(r) /\ handler[r] = "queued"
    BY <1>5 DEF HandleCompletion
  <2>2. \A i \in DOMAIN mainQueue' :
           \/ i \in DOMAIN mainQueue /\ mainQueue'[i] = mainQueue[i]
           \/ mainQueue'[i] = b
    BY <1>0, <2>1 DEF TypeOK
  <2>3. outcome[r] # "none" /\ (outcome[r] = "cancelled" => callbackWhenCancelled[r])
    BY <2>1 DEF SilentInv, LifeInv, TaskEnds, CallsBack, Silenced
  <2>4. outcome' = outcome /\ callbackWhenCancelled' = callbackWhenCancelled
    BY <1>5 DEF HandleCompletion
  <2> HIDE DEF b
  <2>5. b.req = r
    BY DEF b
  <2> QED
    BY <1>2, <2>2, <2>3, <2>4, <2>5 DEF QueuedOnlyIfAsked
<1>6. ASSUME NEW r \in Request,
             \/ \E c \in Calls, block \in BOOLEAN : response(r, c, block)
             \/ SetCallbackWhenCancelled(r) \/ Drop(r) \/ CancelFlag(r) \/ CancelTask(r)
             \/ StoreVisible(r) \/ NetworkStep(r) \/ TaskCompletes(r)
             \/ ReleaseHandler(r) \/ ClearBlock(r)
      PROVE  mainQueue' = mainQueue
  BY <1>6 DEF response, SetCallbackWhenCancelled, Drop, CancelFlag, CancelTask, StoreVisible,
              ShouldCancelVisible, SessionTaskVisible, NetworkStep, Config, CreateTask,
              CheckShouldCancel, Resume, TaskCompletes, ReleaseHandler, ClearBlock
<1>7. CASE UNCHANGED vars
  BY <1>3, <1>7 DEF vars
<1> QED
  BY <1>3, <1>4, <1>5, <1>6, <1>7 DEF Next

LEMMA SilentStep == SilentInv /\ [Next]_vars => SilentInv'
  BY CancelStep, LifeStep, QueueStep DEF SilentInv

\* A request cancelled while its task had not ended otherwise, with no store lingering,
\* stays silent: the task ends as cancelled and the block is called only if that was
\* asked for.
THEOREM SilentOnceCancelled == Spec => SilentIfCancelledInTime
<1>1. SilentInv /\ [Next]_vars => [StaysSilent]_vars
  <2> SUFFICES ASSUME SilentInv, Next, NEW q \in Request, CancelledInTime(q)
               PROVE  /\ outcome'[q] \in {"none", "cancelled"}
                      /\ received'[q] = received[q] \/ callbackWhenCancelled[q]
    BY DEF StaysSilent
  <2>0. TypeOK /\ TaskEnds(q) /\ LifeInv
    BY DEF SilentInv, LifeInv
  <2>1. outcome'[q] \in {"none", "cancelled"}
    <3>1. CASE outcome[q] # "none"
      BY <2>0, <3>1, OutcomeStays DEF CancelledInTime
    <3>2. CASE outcome[q] = "none" /\ TaskCompletes(q)
      <4>1. task[q] # "running"
        BY <2>0 DEF TaskEnds, SilentInv, CancelInv, CancelNotLost, CancelledInTime
      <4> QED
        <5>1. task[q] = "canceling"
          BY <3>2, <4>1 DEF TaskCompletes
        <5>2. Outcomes(q) = {"cancelled"}
          BY <5>1 DEF Outcomes
        <5> HIDE DEF Outcomes
        <5>3. PICK o \in Outcomes(q) : outcome' = [outcome EXCEPT ![q] = o]
          BY <3>2 DEF TaskCompletes
        <5> QED
          BY <2>0, <5>2, <5>3 DEF TypeOK
    <3>3. CASE outcome[q] = "none" /\ ~TaskCompletes(q)
      <4>1. ASSUME NEW r \in Request, TaskCompletes(r) PROVE outcome'[q] = outcome[q]
        BY <2>0, <3>3, <4>1 DEF TaskCompletes, TypeOK
      <4>2. ASSUME \A r \in Request : ~TaskCompletes(r) PROVE outcome' = outcome
        BY <4>2 DEF Next, response, SetCallbackWhenCancelled, Drop, CancelFlag,
             CancelTask, StoreVisible, ShouldCancelVisible, SessionTaskVisible, NetworkStep, Config,
             CreateTask, CheckShouldCancel, Resume, HandleCompletion,
             ReleaseHandler, ClearBlock, CallBlock, taskVars
      <4> QED
        BY <3>3, <4>1, <4>2
    <3> QED
      BY <3>1, <3>2, <3>3
  <2>2. CASE CallBlock
    <3> DEFINE m == Head(mainQueue)
    <3>1. mainQueue # <<>> /\ 1 \in DOMAIN mainQueue /\ m = mainQueue[1]
      BY <2>0, <2>2 DEF CallBlock, TypeOK
    <3>2. QueuedOnlyIfAsked(m)
      BY <3>1 DEF SilentInv
    <3>3. ASSUME m.req = q PROVE callbackWhenCancelled[q]
      BY <3>2, <3>3 DEF QueuedOnlyIfAsked, CancelledInTime
    <3>4. ASSUME m.req # q PROVE received'[q] = received[q]
      <4>1. \/ received' = received
            \/ received' = [received EXCEPT ![m.req] = Append(received[m.req], m.args)]
        BY <2>2 DEF CallBlock
      <4> QED
        BY <2>0, <3>4, <4>1 DEF TypeOK
    <3> QED
      BY <2>1, <3>3, <3>4
  <2>3. CASE ~CallBlock
    <3>1. received' = received
      BY <2>3 DEF Next, response, SetCallbackWhenCancelled, Drop, CancelFlag,
           CancelTask, StoreVisible, ShouldCancelVisible, SessionTaskVisible, NetworkStep, Config,
           CreateTask, CheckShouldCancel, Resume, TaskCompletes, HandleCompletion,
           ReleaseHandler, ClearBlock, mainVars
    <3> QED
      BY <2>1, <3>1
  <2> QED
    BY <2>2, <2>3
<1> QED
  BY <1>1, SilentInit, SilentStep, PTL DEF Spec, SilentIfCancelledInTime
=============================================================================
