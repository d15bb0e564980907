---------------------------- MODULE NetworkRequest ----------------------------
(***************************************************************************)
(* The life of NetworkRequest objects (functionalProgram/network): a client *)
(* on the main thread builds a request with chained calls, `response`       *)
(* submits it to the serial network queue, the block that runs there        *)
(* configures it and resumes a session task, the session's delegate queue   *)
(* runs the completion handler, and a block on the main queue calls the     *)
(* client's block.  `cancel` runs on the main thread and races with the     *)
(* network queue.  NSURLSession, the dispatch queues and ARC are external:  *)
(* they are modelled as the code uses them.                                 *)
(*                                                                          *)
(* A request is submitted once, as every method of APIRequest does.         *)
(***************************************************************************)
EXTENDS Naturals, Sequences, FiniteSets

CONSTANTS
    Request,        \* the NetworkRequest objects
    Keepers,        \* those whose client keeps a strong reference for good
    Cancellers,     \* those whose client may cancel or ask for the callback then
    Calls           \* what clients submit: the configurations their chains end in

ASSUME ClientsAssumption == Keepers \subseteq Request /\ Cancellers \subseteq Request

VARIABLES
    conf,           \* what the chained calls have set
    callbackWhenCancelled,
    net,            \* progress of the request's block on the network queue
    netQueue,       \* network_queue(): its head is the block that runs
    urlRequest,     \* self.urlRequest, or NoURLRequest for nil
    task,           \* state of the task the session made for it
    outcome,        \* how the task ended
    sessionTask,    \* is _sessionTask non-nil in memory?
    shouldCancel,   \* _shouldCancel in memory
    pending,        \* stores to those two that are not visible yet: the ivars are
                    \* plain, and a store may linger past its thread's next load
    lingered,       \* history: the cancelled requests for which one did
    cancel,         \* progress of the client's call of cancel
    sessionQueue,   \* the session's delegate queue: its head is the handler that runs
    handler,        \* progress of the completion handler
    mainQueue,      \* blocks dispatched to the main queue
    responseBlock,  \* is self.responseBlock non-nil?
    callback,       \* progress of the client's block
    received,       \* the arguments the client's block was called with
    held,           \* does the client hold the request strongly?
    crashed         \* "no", or the exception that ended the process

confVars    == <<conf, callbackWhenCancelled>>
netVars     == <<net, netQueue, urlRequest>>
taskVars    == <<task, outcome>>
cancelVars  == <<sessionTask, shouldCancel, pending, lingered, cancel>>
handlerVars == <<sessionQueue, handler>>
mainVars    == <<mainQueue, responseBlock, callback, received>>
vars == <<confVars, netVars, taskVars, cancelVars, handlerVars, mainVars, held, crashed>>
-----------------------------------------------------------------------------
RequestType == {"json", "upload", "download"}
HTTPMethods == {"none", "GET", "POST"}
Outcome     == {"ok", "error", "noData", "badJSON", "cancelled"}

\* What goes on the wire: the method, and whether the parameters are in the
\* query or in the body.
URLRequest   == [method : HTTPMethods, query : BOOLEAN, body : BOOLEAN]
NoURLRequest == [method |-> "nil"]

\* The two arguments of a ResponseBlock.
Response == [error : {"nil", "error"}, object : {"nil", "JSON"}]

\* A block on the main queue, with the request it refers to weakly.
MainBlock == [req : Request, args : Response]

\* Where a request's network block is, and the states of a session's task.
NetStep   == {"new", "queued", "configured", "stored", "checked", "done"}
TaskState == {"none", "suspended", "running", "canceling", "completed"}

(* The chained calls: each sets ivars of the receiver and returns it.  A chain
   runs to its end on the main thread before anyone else sees the request.  *)

NewRequest == [requestType |-> "json", httpMethod |-> "none", params |-> "none",
               URL |-> FALSE]

GET(c)      == [c EXCEPT !.requestType = "json", !.httpMethod = "GET"]
POST(c)     == [c EXCEPT !.requestType = "json", !.httpMethod = "POST"]
upload(c)   == [c EXCEPT !.requestType = "upload"]
download(c) == [c EXCEPT !.requestType = "download"]
HTTPMethod(c, method) == [c EXCEPT !.httpMethod = method]

\* Parameters: none (or an empty dictionary), values that JSON can hold, or others.
ParamKind == {"none", "json", "other"}

\* An empty string and nil parameters change nothing.
URL(c, nonEmpty) == [c EXCEPT !.URL = @ \/ nonEmpty]
params(c, given) == [c EXCEPT !.params = IF given = "none" THEN @ ELSE given]

Configuration == [requestType : RequestType, httpMethod : HTTPMethods,
                  params : ParamKind, URL : BOOLEAN]

ASSUME CallsAssumption == Calls \subseteq Configuration

Init ==
    /\ conf = [r \in Request |-> NewRequest]
    /\ callbackWhenCancelled = [r \in Request |-> FALSE]
    /\ net = [r \in Request |-> "new"]
    /\ netQueue = <<>>
    /\ urlRequest = [r \in Request |-> NoURLRequest]
    /\ task = [r \in Request |-> "none"]
    /\ outcome = [r \in Request |-> "none"]
    /\ sessionTask = [r \in Request |-> FALSE]
    /\ shouldCancel = [r \in Request |-> FALSE]
    /\ pending = {}
    /\ lingered = {}
    /\ cancel = [r \in Request |-> "none"]
    /\ sessionQueue = <<>>
    /\ handler = [r \in Request |-> "none"]
    /\ mainQueue = <<>>
    /\ responseBlock = [r \in Request |-> FALSE]
    /\ callback = [r \in Request |-> "none"]
    /\ received = [r \in Request |-> <<>>]
    /\ held = [r \in Request |-> TRUE]
    /\ crashed = "no"

\* ARC: who still holds a strong reference.  The block on the network queue and
\* the completion handler capture selfStrong; the block on the main queue holds
\* it only while it runs.  In the variant the request and its task retain each
\* other for good.
RetainCycle(r) == held[r] \/ net[r] \notin {"new", "done"} \/ task[r] # "none"
Alive(r) ==
    \/ held[r]
    \/ net[r] \notin {"new", "done"}
    \/ task[r] # "none" /\ handler[r] # "released"
    \/ callback[r] = "running"

\* The main thread is not in the middle of cancel, and the flag it stored there is
\* visible, as whatever it does next retains, releases or dispatches.  It may be in
\* a client's block, which may itself use the requests.
MainThreadFree ==
    /\ crashed = "no"
    /\ \A r \in Request : cancel[r] # "flagged" /\ <<"shouldCancel", r>> \notin pending
MainQueueIdle  == MainThreadFree /\ \A r \in Request : callback[r] # "running"
-----------------------------------------------------------------------------
(* The client, on the main thread.                                         *)

\* A chain that ends in .response(block): keep the client's block, which may be
\* nil, then dispatch to the network queue a block that retains the request.
response(r, c, block) ==
    /\ MainThreadFree
    /\ net[r] = "new"
    /\ conf' = [conf EXCEPT ![r] = c]
    /\ responseBlock' = [responseBlock EXCEPT ![r] = block]
    /\ net' = [net EXCEPT ![r] = "queued"]
    /\ netQueue' = Append(netQueue, r)
    /\ UNCHANGED <<callbackWhenCancelled, urlRequest, taskVars, cancelVars, handlerVars,
                   mainQueue, callback, received, held, crashed>>

\* The client sets callbackWhenCancelled on the request response returned.
SetCallbackWhenCancelled(r) ==
    /\ MainThreadFree
    /\ r \in Cancellers
    /\ net[r] # "new" /\ Alive(r)
    /\ callbackWhenCancelled' = [callbackWhenCancelled EXCEPT ![r] = TRUE]
    /\ UNCHANGED <<conf, netVars, taskVars, cancelVars, handlerVars, mainVars, held, crashed>>

\* A client that keeps no strong reference lets go once response returned.
Drop(r) ==
    /\ MainThreadFree
    /\ r \notin Keepers
    /\ net[r] # "new" /\ held[r]
    /\ held' = [held EXCEPT ![r] = FALSE]
    /\ UNCHANGED <<confVars, netVars, taskVars, cancelVars, handlerVars, mainVars, crashed>>
-----------------------------------------------------------------------------
(* cancel, in two steps: it stores the flag, then loads sessionTask.       *)

\* Nothing orders a store and the load after it, here or in setSessionTask:.  Does the
\* flag linger past the load of the task, or the task past that of the flag?
StoreLingers(r) ==
    \/ <<"shouldCancel", r>> \in pending
    \/ <<"sessionTask", r>> \in pending /\ net[r] = "checked"

\* What -[NSURLSessionTask cancel] does to a task in state s.
AfterCancel(s) == IF s \in {"suspended", "running"} THEN "canceling" ELSE s

CancelFlag(r) ==
    /\ MainThreadFree
    /\ r \in Cancellers
    /\ net[r] # "new" /\ Alive(r)
    /\ cancel[r] = "none"
    /\ cancel' = [cancel EXCEPT ![r] = "flagged"]
    /\ pending' = pending \cup {<<"shouldCancel", r>>}
    /\ UNCHANGED <<confVars, netVars, taskVars, sessionTask, shouldCancel, lingered,
                   handlerVars, mainVars, held, crashed>>

\* [self.sessionTask cancel], if there is a task to cancel; the variant sets the
\* flag and leaves the task to setSessionTask:.
FlagOnly(r)        == task[r]
TaskAfterCancel(r) == IF sessionTask[r] THEN AfterCancel(task[r]) ELSE task[r]

CancelTask(r) ==
    /\ crashed = "no"
    /\ cancel[r] = "flagged"
    /\ lingered' = IF StoreLingers(r) THEN lingered \cup {r} ELSE lingered
    /\ cancel' = [cancel EXCEPT ![r] = "returned"]
    /\ task' = [task EXCEPT ![r] = TaskAfterCancel(r)]
    /\ UNCHANGED <<confVars, netVars, outcome, sessionTask, shouldCancel, pending,
                   handlerVars, mainVars, held, crashed>>

\* A store reaches memory.
ShouldCancelVisible(r) ==
    /\ crashed = "no"
    /\ <<"shouldCancel", r>> \in pending
    /\ pending' = pending \ {<<"shouldCancel", r>>}
    /\ shouldCancel' = [shouldCancel EXCEPT ![r] = TRUE]
    /\ UNCHANGED <<confVars, netVars, taskVars, sessionTask, lingered, cancel, handlerVars,
                   mainVars, held, crashed>>

SessionTaskVisible(r) ==
    /\ crashed = "no"
    /\ <<"sessionTask", r>> \in pending
    /\ pending' = pending \ {<<"sessionTask", r>>}
    /\ sessionTask' = [sessionTask EXCEPT ![r] = TRUE]
    /\ UNCHANGED <<confVars, netVars, taskVars, shouldCancel, lingered, cancel, handlerVars,
                   mainVars, held, crashed>>

StoreVisible(r) == ShouldCancelVisible(r) \/ SessionTaskVisible(r)
-----------------------------------------------------------------------------
(* The block on the serial network queue.                                  *)

RunsOnNetwork(r, step) ==
    /\ crashed = "no"
    /\ netQueue # <<>>
    /\ Head(netQueue) = r
    /\ net[r] = step

\* jsonRequestConfig.  The body is set on the request that is about to be
\* replaced (nil for a request that was never submitted), so the new request
\* has none.  What raises: _buildGetRequestUrlString cuts the "?" it starts from
\* at length minus two, out of range when there are no parameters;
\* NSJSONSerialization writes only JSON values; NSURL takes no nil.
JSONException(c) ==
    \/ c.httpMethod = "GET" /\ c.params = "none"
    \/ c.httpMethod # "GET" /\ c.params = "other"
    \/ ~c.URL

jsonRequestConfig(c) ==
    [method |-> c.httpMethod, query |-> c.httpMethod = "GET" /\ c.params # "none", body |-> FALSE]

\* _configBeforeRequest.  uploadRequestConfig and downloadRequestConfig do nothing.
Config(r) ==
    /\ RunsOnNetwork(r, "queued")
    /\ IF conf[r].requestType = "json" /\ JSONException(conf[r])
       THEN /\ crashed' = "config"
            /\ UNCHANGED <<net, urlRequest>>
       ELSE /\ net' = [net EXCEPT ![r] = "configured"]
            /\ urlRequest' = [urlRequest EXCEPT ![r] =
                  IF conf[r].requestType = "json" THEN jsonRequestConfig(conf[r]) ELSE @]
            /\ UNCHANGED crashed
    /\ UNCHANGED <<confVars, netQueue, taskVars, cancelVars, handlerVars, mainVars, held>>

\* dataTaskWithRequest:completionHandler: and the store of setSessionTask:.
CreateTask(r) ==
    /\ RunsOnNetwork(r, "configured")
    /\ net' = [net EXCEPT ![r] = "stored"]
    /\ task' = [task EXCEPT ![r] = "suspended"]
    /\ pending' = pending \cup {<<"sessionTask", r>>}
    /\ UNCHANGED <<confVars, netQueue, urlRequest, outcome, sessionTask, shouldCancel,
                   lingered, cancel, handlerVars, mainVars, held, crashed>>

\* The rest of setSessionTask:, which loads shouldCancel; the variant is the
\* setter that only stores.
StoreOnly(r)      == task[r]
TaskAfterCheck(r) == IF shouldCancel[r] THEN AfterCancel(task[r]) ELSE task[r]

CheckShouldCancel(r) ==
    /\ RunsOnNetwork(r, "stored")
    /\ net' = [net EXCEPT ![r] = "checked"]
    /\ task' = [task EXCEPT ![r] = TaskAfterCheck(r)]
    /\ UNCHANGED <<confVars, netQueue, urlRequest, outcome, cancelVars, handlerVars,
                   mainVars, held, crashed>>

\* [self.sessionTask resume], which a cancelled task ignores; the block ends and
\* lets go of the request.  Both go through locks, which no earlier store outlasts.
Resume(r) ==
    /\ RunsOnNetwork(r, "checked")
    /\ <<"sessionTask", r>> \notin pending
    /\ net' = [net EXCEPT ![r] = "done"]
    /\ netQueue' = Tail(netQueue)
    /\ task' = [task EXCEPT ![r] = IF @ = "suspended" THEN "running" ELSE @]
    /\ UNCHANGED <<confVars, urlRequest, outcome, cancelVars, handlerVars, mainVars,
                   held, crashed>>

NetworkStep(r) == Config(r) \/ CreateTask(r) \/ CheckShouldCancel(r) \/ Resume(r)
-----------------------------------------------------------------------------
(* The session and its serial delegate queue.                              *)

\* How a task may end.  A session cannot load a nil request.
Outcomes(r) ==
    IF task[r] = "canceling" THEN {"cancelled"}
    ELSE IF urlRequest[r] = NoURLRequest THEN {"error"}
    ELSE Outcome \ {"cancelled"}

\* The task ends: by an answer, by an error (10 seconds without data is one), or
\* by its cancellation.
TaskCompletes(r) ==
    /\ crashed = "no"
    /\ task[r] \in {"running", "canceling"}
    /\ \E o \in Outcomes(r) : outcome' = [outcome EXCEPT ![r] = o]
    /\ task' = [task EXCEPT ![r] = "completed"]
    /\ handler' = [handler EXCEPT ![r] = "queued"]
    /\ sessionQueue' = Append(sessionQueue, r)
    /\ UNCHANGED <<confVars, netVars, cancelVars, mainVars, held, crashed>>

\* What the handler given to the task passes on; the variant lacks the return
\* after a JSON error.
FallsThrough(o) ==
    IF o \in {"ok", "badJSON"} THEN [error |-> "nil", object |-> "JSON"]
                               ELSE [error |-> "error", object |-> "nil"]
Completion(o) ==
    IF o = "ok" THEN [error |-> "nil", object |-> "JSON"]
                ELSE [error |-> "error", object |-> "nil"]

\* What _handleAfterRequestCompletion passes on: it drops the error.  The
\* variant has the arguments in the wrong order.
Swapped(c)           == [error |-> c.object, object |-> c.error]
CallbackArguments(c) == [error |-> "nil", object |-> c.object]

\* _handleAfterRequestCompletion returns here for a cancelled task unless the
\* client asked for the callback; the variant does so for any error.
SilencedByAnyError(r) == outcome[r] # "ok" /\ ~callbackWhenCancelled[r]
Silenced(r) == outcome[r] = "cancelled" /\ ~callbackWhenCancelled[r]

\* Is there a block to call?  One variant does not ask, the other asks nothing else.
NotSilenced(r) == ~Silenced(r)
HasBlock(r)    == responseBlock[r]
CallsBack(r)   == ~Silenced(r) /\ responseBlock[r]

HandleCompletion(r) ==
    /\ crashed = "no"
    /\ sessionQueue # <<>> /\ Head(sessionQueue) = r
    /\ handler[r] = "queued"
    /\ handler' = [handler EXCEPT ![r] = "returning"]
    /\ IF CallsBack(r)
       THEN mainQueue' = Append(mainQueue,
               [req |-> r, args |-> CallbackArguments(Completion(outcome[r]))])
       ELSE UNCHANGED mainQueue
    /\ UNCHANGED <<confVars, netVars, taskVars, cancelVars, sessionQueue,
                   responseBlock, callback, received, held, crashed>>

\* The handler has returned: the session releases it, and with it the request.
ReleaseHandler(r) ==
    /\ crashed = "no"
    /\ sessionQueue # <<>> /\ Head(sessionQueue) = r
    /\ handler[r] = "returning"
    /\ handler' = [handler EXCEPT ![r] = "released"]
    /\ sessionQueue' = Tail(sessionQueue)
    /\ UNCHANGED <<confVars, netVars, taskVars, cancelVars, mainVars, held, crashed>>
-----------------------------------------------------------------------------
(* The main queue.                                                         *)

\* The block dispatched by _callbackReponseBlockInMainThread: selfStrong is nil
\* when the request is gone, and calling a nil block ends the process.
CallBlock ==
    /\ MainQueueIdle
    /\ mainQueue # <<>>
    /\ mainQueue' = Tail(mainQueue)
    /\ LET r == Head(mainQueue).req IN
       IF Alive(r) /\ responseBlock[r]
       THEN /\ callback' = [callback EXCEPT ![r] = "running"]
            /\ received' = [received EXCEPT ![r] = Append(@, Head(mainQueue).args)]
            /\ UNCHANGED crashed
       ELSE /\ crashed' = "nilBlock"
            /\ UNCHANGED <<callback, received>>
    /\ UNCHANGED <<confVars, netVars, taskVars, cancelVars, handlerVars,
                   responseBlock, held>>

\* The client's block has returned: selfStrong.responseBlock = nil.
ClearBlock(r) ==
    /\ MainThreadFree
    /\ callback[r] = "running"
    /\ callback' = [callback EXCEPT ![r] = "returned"]
    /\ responseBlock' = [responseBlock EXCEPT ![r] = FALSE]
    /\ UNCHANGED <<confVars, netVars, taskVars, cancelVars, handlerVars, mainQueue,
                   received, held, crashed>>
-----------------------------------------------------------------------------
Next ==
    \/ \E r \in Request :
          \/ \E c \in Calls, block \in BOOLEAN : response(r, c, block)
          \/ SetCallbackWhenCancelled(r)
          \/ Drop(r)
          \/ CancelFlag(r)
          \/ CancelTask(r)
          \/ StoreVisible(r)
          \/ NetworkStep(r)
          \/ TaskCompletes(r)
          \/ HandleCompletion(r)
          \/ ReleaseHandler(r)
          \/ ClearBlock(r)
    \/ CallBlock

\* The queues run what is enqueued, a thread that has begun goes on, stores
\* become visible, and the session's timeout ends every task.  Clients owe
\* nothing, but one that lets go does so.
Fairness ==
    /\ \A r \in Request :
          /\ WF_vars(NetworkStep(r))
          /\ WF_vars(TaskCompletes(r))
          /\ WF_vars(HandleCompletion(r) \/ ReleaseHandler(r))
          /\ WF_vars(CancelTask(r))
          /\ WF_vars(StoreVisible(r))
          /\ WF_vars(ClearBlock(r))
          /\ WF_vars(Drop(r))
    /\ WF_vars(CallBlock)

Spec == Init /\ [][Next]_vars /\ Fairness
-----------------------------------------------------------------------------
(* Properties.                                                             *)

\* Every variable has its type.
TypeOK ==
    /\ conf \in [Request -> Configuration]
    /\ callbackWhenCancelled \in [Request -> BOOLEAN]
    /\ net \in [Request -> NetStep]
    /\ netQueue \in Seq(Request)
    /\ urlRequest \in [Request -> URLRequest \cup {NoURLRequest}]
    /\ task \in [Request -> TaskState]
    /\ outcome \in [Request -> Outcome \cup {"none"}]
    /\ sessionTask \in [Request -> BOOLEAN]
    /\ shouldCancel \in [Request -> BOOLEAN]
    /\ pending \subseteq {"shouldCancel", "sessionTask"} \X Request
    /\ lingered \subseteq Request
    /\ cancel \in [Request -> {"none", "flagged", "returned"}]
    /\ sessionQueue \in Seq(Request)
    /\ handler \in [Request -> {"none", "queued", "returning", "released"}]
    /\ mainQueue \in Seq(MainBlock)
    /\ responseBlock \in [Request -> BOOLEAN]
    /\ callback \in [Request -> {"none", "running", "returned"}]
    /\ received \in [Request -> Seq(Response)]
    /\ held \in [Request -> BOOLEAN]
    /\ crashed \in {"no", "config", "nilBlock"}

\* The client's cancel has returned, and neither of the two stores lingered then.
CancelledInOrder(r) == cancel[r] = "returned" /\ r \notin lingered

\* A cancel is lost between the two threads only through a store that lingers past
\* the next load of its own thread: otherwise, once cancel has returned and
\* setSessionTask: has made its check, whichever came first, the task is
\* cancelled or was already complete (cancel :208-213, setSessionTask: :376-381).
CancelNotLost ==
    \A r \in Request :
        CancelledInOrder(r) /\ net[r] \in {"checked", "done"}
            => task[r] \in {"canceling", "completed"}

\* A request whose cancel has returned starts to load only if a store lingered so:
\* `resume` comes after the check of the flag, and a task that is cancelled ignores it.
StartsUncancelled ==
    \A r \in Request :
        task[r] = "suspended" /\ task'[r] = "running" => ~CancelledInOrder(r)
NeverStartsAfterCancel == [][StartsUncancelled]_vars

\* The process never dies: the block the main queue calls is never nil and the
\* configuration of a request never raises.
NeverCrashes == crashed = "no"

\* What clients are promised: each submitted request calls its block exactly
\* once, or never, and never only if it was cancelled or had no block.
Promise == INSTANCE CallbackOnce WITH
    status <- [r \in Request |->
        IF net[r] = "new" THEN "idle"
        ELSE IF received[r] # <<>> THEN "delivered"
        ELSE IF /\ handler[r] \in {"returning", "released"}
                /\ \A i \in DOMAIN mainQueue : mainQueue[i].req # r THEN "silent"
        ELSE "pending"],
    excused <- [r \in Request |->
        net[r] # "new" /\ (cancel[r] # "none" \/ ~responseBlock[r])]

KeepsPromise == Promise!Spec

\* The block is called at most once, and what it is given is what the task
\* ended with: an object for an answer that parsed, none for any other end, and an
\* error for none (:361).
CalledOnceWithTheOutcome ==
    \A r \in Request :
        /\ Len(received[r]) <= 1
        /\ \A i \in DOMAIN received[r] :
              /\ (received[r][i].object = "JSON") <=> (outcome[r] = "ok")
              /\ received[r][i].error = "nil"

\* No retain cycle survives the request: one whose client lets go is freed,
\* though it holds its task and the task's handler holds it.
EveryDroppedRequestIsFreed ==
    \A r \in Request \ Keepers : net[r] # "new" ~> ~Alive(r) \/ crashed # "no"

\* A request whose cancel returned while its task had not ended otherwise, and no
\* store lingered: the task never ends but as cancelled, and the block is not called
\* unless callbackWhenCancelled is set (NetworkRequest.h:32).  One that was answered
\* before calls its block all the same (:367).
CancelledInTime(r) == CancelledInOrder(r) /\ outcome[r] \in {"none", "cancelled"}
StaysSilent ==
    \A r \in Request :
        CancelledInTime(r) =>
            /\ outcome'[r] \in {"none", "cancelled"}
            /\ received'[r] = received[r] \/ callbackWhenCancelled[r]
SilentIfCancelledInTime == [][StaysSilent]_vars
=============================================================================
