# iOSLearningDemo: specification, model checking and proofs

iOSLearningDemo is a collection of experiments around one app: a small network layer, an HTML to PDF
converter, a lunar calendar, exercises on lists, arrays and strings, and view controllers that show
how UIKit, GCD and the runtime behave, with the source of the libraries they are about kept beside
them. This directory holds TLA+ modules that model its own logic and the part of libdispatch that
its queue experiments study, TLC configurations that check them, and TLAPS proofs. Paths below are
relative to `src/iOSLearnigDemo/`; *network/* stands for
`iOSLearnigDemo/iOS/Objective-C/functionalProgram/network/`, *dispatch/* for
`底层源码/libdispatch-84.5.5/src/`, and a bare `:n` is a line of the file last named.

Contents: 1 the system · 2 plan · 3 the modules · 4 runs and bounds · 5 fairness ·
6 proofs · 7 known deviations · 8 what is not modelled · 9 how to run it

## 1. The system

Most view controllers of the app are straight-line calls that log something. What carries state, or
an algorithm that can be wrong, is listed first.

| Part | State | Operations | Talks to | What is hard | Correct when |
|---|---|---|---|---|---|
| Network requests (`network/NetworkRequest.m`, `APIRequest.m`, `NetworkRequsetTestController.m`) | configuration, session task, cancel flag, client's block | chained setters, `response`, `cancel`, the block on the network queue, the completion handler, the block on the main queue | a serial queue, `NSURLSession`, the main queue | three threads; weak and strong references; cancel against task creation; timeouts | a block is called once with the outcome, a cancel is lost to nothing but a store that lingers, nothing leaks, nothing crashes |
| HTML to PDF (`General/Lib/htmlToPdf/BNHtmlPdfKit.m`, `iOSLearnigDemo/iOS/UI/htmlToPdf/HtmlToPdfViewController.m`) | current web view, output file, pending one second timer | three ways to start a job, delegate messages, `_timeout`, `_savePdf` | `UIWebView`, the run loop, a global queue that reads the file | several messages per page; the timer of one job in the next; blocks called in the middle of a save | one report per job, each file has the PDF of its job, no torn read |
| libdispatch queues (`dispatch/queue.c`, `object.c`), with the app's experiments (`iOSLearnigDemo/iOS/Opt/opt_battery/OPTBatteryViewController.m`, `iOSLearnigDemo/iOS/thread/GCDViewController.m`) | of each queue its list, running count, suspend count with the lock bit, target, reference counts | asynchronous, synchronous and barrier submission, set target, suspend, resume, release; wakeup, invoke, drain | the global queue's worker threads, other queues as targets | lock-free list with many producers and one drainer; separate tests of fields that change together; hand-over of a queue to a waiting thread; last reference | serial order, barriers, one drainer, every block runs, nothing is used after it is freed |
| libdispatch semaphores and groups (`dispatch/semaphore.c`) | counter, counted wakeups, the kernel's signals, references; of a group its waiters and its list of blocks | wait, signal, release; enter, leave, notify, wait for the group | a semaphore of the kernel that may wake threads for nothing | timeout against signal; a group that fills again while it is woken; releases in flight | a counting semaphore; a notification after its members have left |
| Linked lists (`iOSLearnigDemo/algo/LinkListViewController.m`, `algo/dataStructure/Stack.c`) | heap of nodes | count, k-th from the end, middle, circle, first shared node, invert, merge, printing backwards | the stack links the list's own nodes | shared tails, circles, ends reached one step early, links overwritten | each returns what its title says |
| Sorting, array and string exercises (`algo/SortViewController.m`, `StringArrayViewController.m`, `StringViewController.m`) | arrays | quickSort, sortAges, smalletItem, Fibonacci, matrix search, blanks in place, strToInt | – | loop bounds, in-place rewriting, the ends of the integers | sorted permutation, value found, nearest integer |
| Lunar calendar (`General/Lib/LunarCore/LunarCore.m`) | tables of 1890 to 2100, memory cache of one year's solar terms | `solarToLunar`, `lunarToSolar`, `calendar` | `FSCalendar` page, `NSCalendar` | two tables that must agree; dates before New Year counted backwards; leap months; one cache for a page with days of two years | days run on without a gap, the two directions are inverse, the cache never serves another year |
| Group selector, tab selector (`iOSLearnigDemo/iOS/UI/groupSelectorTest/groupSelector/`) | selected index, reused cells | click, scroll, set index | collection view | highlight set from three places | not modelled, section 8 |
| Screen recording (`General/Lib/ReplayKit/FJReplayKit.m`) | button title | start, stop | ReplayKit | order of answers | not modelled; the app never starts it |

The other parts (run loop, timer, memory, language, runtime and architecture experiments, animation
and collection view pages, menus, categories, the video source, the backtrace logger, the vendored
pods and the other copies of system source) have no state machine of their own; `PROJECT.json` lists
each with the reason. It also lists every hazard found in the code, with its line and the properties
that would catch it.

### How the modelled parts interact

* A client on the **main thread** builds a `NetworkRequest` and ends the chain with `response`. That
  dispatches a block to the **network queue** (`network_queue()`, serial). The block configures the
  request, makes a task and resumes it. The **session's delegate queue** runs the completion handler,
  which dispatches a block to the **main queue**, which calls the client's block. `cancel` is called
  on the main thread at any time and races with the network queue through two plain ivars,
  `_shouldCancel` and `_sessionTask`.
* `BNHtmlPdfKit` lives on the main thread alone, but one save is several of its steps: the client's
  blocks are called first, with the kit in the middle of its work. `HtmlToPdfViewController` uses
  that block to start a read of the file on a **global queue** while the main thread is still to
  write it.
* A **queue** is a list that any thread pushes on and that one drainer takes from. Whoever finds
  work on an idle queue takes its lock bit and pushes the queue itself on its **target**, in the end
  on the global queue, whose **workers** invoke it. A thread that calls `dispatch_sync` on a busy
  queue puts an item on the list and waits on a semaphore of its own; the drainer suspends the queue
  for it and goes on, and the thread resumes the queue when its block has returned.
* A **group** is a semaphore with `LONG_MAX` permits. A member holds one from `enter` to `leave`;
  whoever finds all of them back takes the list of registered blocks and the number of waiting
  threads, and submits and signals them. `dispatch_group_async` gives its members to a queue.
* `calendar` calls `solarToLunar` once per cell of a page; each call may change the year of the one
  memory cache.

## 2. Plan

Modules in the order of their importance.

| # | Module(s) | Composes / refines | State |
|---|---|---|---|
| 1 | `NetworkRequest`, `APIRequest`, `MCNetworkRequest` | implements `CallbackOnce` (abstract promise to clients) | done |
| 2 | `NetworkRequestProofs`, `NetworkDeliveryProofs` | types, cancellation, silence, delivery, absence of crashes, the steps of `CallbackOnce` | done |
| 3 | `HtmlPdfKit`, `HtmlToPdf`, `MCHtmlPdfKit`, `HtmlPdfKitProofs`, `HtmlToPdfProofs` | `HtmlToPdf` composes the kit with its client and a reader | done |
| 4 | `DispatchQueue`, `MCDispatchQueue`, `DispatchQueueProofs`, `DispatchOverlapProofs` | – | done |
| 5 | `DispatchSemaphore`, `DispatchGroup`, `MCDispatchGroup`, `DispatchSemaphoreProofs`, `DispatchGroupProofs` | implements `CountingSemaphore`; the group extends the semaphore | done |
| 6 | `Exercise`, `LinkList`, `ArrayExercises`, `MCExercises` | the two modules share the record of a call | done |
| 7 | `LunarCore`, `LunarTables` | – | done |

What could come next: that a queue's list keeps its order, as an invariant beside `LinearInv` and
`SharesInv`, from which `SerialIsFifo` would follow; the pool of worker threads and the root queue's
mediator (`queue.c:377`), `dispatch_apply`.

## 3. The modules

### NetworkRequest, APIRequest, CallbackOnce

| Code (`network/NetworkRequest.m`) | Model |
|---|---|
| `GET` … `params` `:109-160` | operators on a configuration record; `APIRequest.tla` has the chains of `APIRequest.m` |
| `response` `:162-174` | `response(r, c, block)`: a whole chain, its block possibly nil; `net[r]` goes to "queued" |
| block on the network queue `:241-249` | `Config`, `CreateTask`, `CheckShouldCancel`, `Resume`, one action per point where another thread may come in between; the head of `netQueue` is the one that runs |
| `jsonRequestConfig` `:270-300`, query `:302-320` | `jsonRequestConfig`, `JSONException`: which configurations raise; the bytes of URL and body are left out |
| `setSessionTask:` `:376-381` | the store in `CreateTask`, the check in `CheckShouldCancel` |
| `cancel` `:206-215` | `CancelFlag`, then `CancelTask` |
| plain ivars `_shouldCancel`, `_sessionTask` | `pending`: stores that have been made and are not visible yet. A store may linger past its own thread's next load, and no further than what the thread then does through a lock (`Resume`, `MainThreadFree`). `lingered` is history: the cancelled requests for which one did (`StoreLingers`) |
| session | `TaskCompletes`, with every way a task may end |
| completion handler and `_handleAfterRequestCompletion` `:322-362` | `HandleCompletion`, then `ReleaseHandler`, when the session lets go of it |
| `_callbackReponseBlockInMainThread` `:364-373` | an entry of `mainQueue`; `CallBlock` (weak self, nil check or not), `ClearBlock` |
| retain counts | `held`, and the derived `Alive(r)`: the client, the queued block, the task's handler or the running block holds the request |

The client's other actions are `SetCallbackWhenCancelled` and `Drop`. Constants say which clients
keep their request (`Keepers`) and which may cancel (`Cancellers`). Exceptions set `crashed`, after
which nothing runs.

`CallbackOnce` is the promise without threads: a submitted request is settled exactly once, by one
call of its block or, if it was cancelled or has no block, by none. `KeepsPromise` is its `Spec`,
fairness included, under the mapping in `NetworkRequest`.

### HtmlPdfKit and HtmlToPdf

| Code (`BNHtmlPdfKit.m`) | Model |
|---|---|
| `saveHtmlAsPdf`, `saveUrlAsPdf` `:355-387` | `saveUrlAsPdf`: a new web view with 1 to `Frames` frames to load |
| `saveWebViewAsPdf` `:389-401` | the action of that name; the web view is the client's (`External`) and may be loaded already; it alone cancels the timer |
| `webViewDidFinishLoad:` `:405-416` | the action: once per frame; the document may be complete with the last one or later (`PageCompletes`) |
| `didFailLoadWithError:` `:418-430` | the action, and `EndFailure` when the client's block has returned; the page fails, or one frame of it, after which a web view the client keeps sends on |
| `_timeout` `:434-436` | `_timeout` |
| `_savePdf` `:438-490` | `NothingToSave` (the early return), `BeginSave` (render, call the blocks), `BeginWrite` (load `outputFile` anew), `EndWrite` (the file is written, `didSavePdfFile:` is called), `EndSave` (let go of the web view). Between them `busy` says what the main thread is in the middle of |

`HtmlToPdf` adds the view controller: its success block puts a read of the file on a global queue
(`Read`), which runs at any time, and what it read is shown on the main queue (`Show`). The file may
hold the PDF of an earlier launch at the start. A client starts jobs one after the other
(`Overlap = FALSE`), during others (`Overlap`) or inside a block or a delegate's method that the kit
calls, before the write, after it or on a failure (`Reentrant`).

### DispatchQueue

| Code (`dispatch/queue.c`) | Model |
|---|---|
| `dq_items_tail`, `dq_items_head`, `do_next`, `dq_running`, `do_suspend_cnt`, `do_targetq`, `do_ref_cnt`, `do_xref_cnt` | `items_tail` … `xref_cnt`, a function of the queues (`next` also of the items) |
| functions in progress on a thread | `stack[t]`, a stack of frames; the innermost one's `at` is where it stands. One step is one access to a field that other threads write |
| `_dispatch_queue_push` (`queue_internal.h:87`), `push_list_slow` `:602-614` | `ExchangeTail`, `LinkPrevious`, `PublishHead` |
| `_dispatch_wakeup` `:1078-1101` | three tests as three steps: `WakeupUnlessSuspended`, `WakeupUnlessEmpty`, `WakeupTrylock`, the last of which takes the lock bit and pushes the queue on its target |
| `dispatch_sync_f`, `dispatch_barrier_sync_f` `:800-920` | the tests of the tail, the suspend count and `dq_running` as separate steps (`SyncUnless…`, `SyncAdd`, `BarrierSyncTrylock`), the slow path that waits for `sema[c]` |
| `_dispatch_queue_invoke` `:1261-1292`, `_dispatch_queue_drain` `:1362-1426` | `InvokeTrylock`, the `Drain…` and `Pop…` actions, `Redirect`, the three ways to put an item back (`Undo…`), `InvokeUnlock`, `InvokeDropLock`, `InvokeVerifyIdle` |
| `dispatch_suspend`, `dispatch_resume`, `dispatch_release` (`object.c`) | actions of the same names; a trap of the library sets `crashed` |
| the root queue and its pool | `root`, a sequence from which every worker may take the first |

What clients and blocks call is a **use**: for each call its operation, queue and target, and for each
client and block the calls it makes in order. A block is its call and the calls in its body; it may
take any number of steps. `ticket`, `begun` and `ended` are history for the properties.

### CountingSemaphore, DispatchSemaphore, DispatchGroup

| Code (`dispatch/semaphore.c`) | Model |
|---|---|
| `dispatch_semaphore_wait` `:228-255`, `_wait_slow` `:142-193` | the decrement, then `TakeWakeup`, `EnterKernel`, `Undo`; the kernel's semaphore is `dsema_port` |
| the kernel | `KernelSignals` while it holds a signal, `KernelWakesForNothing` and `KernelTimesOut` at any time |
| `dispatch_semaphore_signal` `:296-324`, `_signal_slow` `:258-280` | the increment, then `Retain`, `CountWakeup`, `SignalKernel`, `Release` |
| `dispatch_group_async_f`, `enter`, `leave` | `dispatch_group_async`, `dispatch_group_enter`, `Pushed`; `dispatch_group_leave`, `LeaverLooks`, `Drop` |
| `_dispatch_group_wake` `:328-357` | `TakeList`, `TakeWaiters`, `SignalWaiter`, `Submit`, `NextBlock`, `WakeDone` |
| `dispatch_group_notify_f` `:447-474` | the claim of the tail, `Link`, or `RetainGroup`, `Publish`, `NotifierLooks` |
| `dispatch_group_wait`, `_wait_slow` `:360-436` | `WaiterLooks`, `Enlist`, `WaiterLooksAgain`, `KernelSignalsWaiter`, `WaiterUndoes` |

`CountingSemaphore` is what a semaphore promises: permits and the threads that wait, each of which is
granted a permit or leaves. `KeepsCount` is its safety under the mapping in `DispatchSemaphore`
(permits: those the counter shows and those that are on their way), `GrantsPermits` its liveness.
A thread inside a group's function is in one of the semaphore's as well, so `DispatchGroup` extends
the semaphore's module and runs its actions within its own.

### Exercise, LinkList, ArrayExercises

The exercises are functions called once, so a behaviour is one call on one input: `call` and
`result`, declared in `Exercise`. A state of `LinkList` is any heap, among them lists that share
tails or run in circles. Functions that do not terminate on a circle are asked of lists that end.
Reading through NULL or in front of an array gives `Crash`, a loop that does not end `Endless`; what
rewrites the list changes the heap in the same step. `ArrayExercises` takes arrays, strings and
numbers of small length; `INT_MAX` is small, so that both ends of the integers are within a few digits.

### LunarCore and LunarTables

The state is the day asked last, the answer, the memory cache and the page. `NextDay` asks for the
next day, as the calendar does when it scrolls; `ShowMonth` draws a page, which asks for 42 days and
moves the cache along. `LunarTables` is the two tables row by row. Weekdays and differences of dates
are `NSCalendar`'s and computed from day numbers. Festivals other than New Year's Eve, working days
and the dates of the solar terms are lookups by a key and left out; a list of terms is represented
by the year it was made for, which is what the cache can get wrong.

## 4. Runs and bounds

| Run | States | Question | Result |
|---|---|---|---|
| `network_lifecycle` | 259,339 | two requests on shared queues, one cancelled at any point, each with a GET, a POST or an upload that raises nothing, with or without a block | types, no crash, at most one call, with the outcome; no cancel lost and no start after cancel but through a store that lingers; silence if cancelled in time; implements `CallbackOnce` |
| `network_dropped` | 84,317 | one request that is kept, and one whose client keeps no reference and may cancel | the request is freed in the end |
| `network_weakClient` | – | the client of `NetworkRequsetTestController.m:25` | **violated**: a nil block is called |
| `pdf_overlap` | 147,869 | three jobs that overlap, one in a web view the client keeps, two files | each file has the PDF of its own job |
| `pdf_shown` | 10,464 | the view controller's jobs in turn, with its reader | one report each, in the end; no torn read; half-loaded pages only after their own second |
| `pdf_early_report` | – | does the read started by the success block find the PDF? | **violated** |
| `dispatch_queue` | 137,431 | six uses of one or two queues, every interleaving of their clients and two workers | no crash, no use after free; order, barriers and a shared serial target hold; one owner of the lock; every block ends; blocks of a serial queue overlap only as in the next run |
| `dispatch_overlap` | – | does a serial queue run one block at a time? | **violated**: two synchronous blocks at once |
| `dispatch_group` | 57,772 | two semaphores and five uses of a group by up to three threads | wakeups match waiters, none is lost, the abstract semaphore; the list, the references, the notifications, the waits that end |
| `dispatch_group_refill` | – | is the group empty when a block is submitted? | **violated** by a group that fills again while it is woken |
| `exercise_calls` | 57,594 | every exercise on every heap of five nodes, every short array, string and number | what each returns; where it falls short of its title, the property says exactly where |
| `lunar_days` | 69,413 | every day from 1917 to 2100 and the page of each month | days, months and years run on; tables agree; inverse; cache; lengths of months |

A property such as `WalksFindTheirNode`, `LinksAreRewritten`, `LoopsReachTheirEnds`,
`StringsAreConverted`, `CalendarRunsOn`, `PageShowsItsDays`, `MemoryIsThere` or `EveryWaitEnds` is the
conjunction of named parts that answer one question; each part has its own comment beside it.

Why the bounds are enough:

* **Two requests.** Requests interact only through the order of the three queues and through the main
  thread, so a second one shows what waiting behind, overtaking and interrupting another can do; the
  theorems hold for any number. The three chains of `SafeCalls` are a GET, a
  POST and an upload, one of each outcome of configuration that does not raise; those that raise are in
  section 7.
* **Three jobs, two files, up to three frames.** A late message or timer involves the job it belongs
  to, the one it hits and one of a foreign web view; two files (or none) are enough to tell right
  from wrong; two frames give a message before the last, three a message while the timer of an
  earlier one is pending. `FilesHoldTheirJobs` and `JobsAreReportedOnce` are proved for any number.
* **Six uses of two queues.** A race on a queue is between its drainer, a producer, a thread that
  waits and one that runs a shared block: up to two clients and two workers are all of these at once. Two
  queues give a target and what targets it. The uses are two clients that wait for blocks of a serial
  queue; one client whose block is waited for between two that are not; a barrier that is waited for,
  behind a reader; a writer between two readers, the last of which releases the queue while the client
  that listed it has still to wake it; a queue that is retargeted; and a queue that is suspended twice
  and resumed by blocks of its target. The last two and the first barrier follow the app's experiments
  on a smaller scale: `test_barrier_async` (`GCDViewController.m:29`) submits three blocks before the
  barrier, which is commented out there, and one more at the end; `testSet_target_queue`
  (`OPTBatteryViewController.m:126`) gives the target a concurrent queue as well, whose blocks go past
  it (section 7), and submits nothing to the target itself; `testGCD_PrioryQueue` (`:166`) suspends after
  it has submitted. With all of that there are some million states, in the same actions.
  `dispatch_overlap` has a use of its own, with both kinds of submission from two clients.
* **Up to three threads, `LONG_MAX` = 2.** A timed out wait races with a signal meant for another
  waiter: three threads. A group is told from a semaphore by its original value alone, so the smallest
  value above the number of permits in use serves. Threads are alike: a use names those that may wait
  (`waits`), and where one of three does, which one makes no difference. `signals` in a use bounds the
  wakeups nobody has come for; two let a thread find one more than it was promised. The theorems about
  the semaphore have neither bound.
* **Five nodes** give a circle with a tail before it of every small length, two lists of unequal
  length with a shared tail, and even and odd lengths on both sides of the early returns of
  `middleNode` (two and fewer nodes). Nodes are interchangeable, so symmetry is sound; the properties
  are invariants. **Five cells** with five values give every order of distinct elements, repeats, and
  each position of a pivot; five characters are two digits more than `INT_MAX` has, with blanks and
  signs in front.
* **1917–2100** is checked day by day, so nothing is sampled. Before 1917 the tables disagree with
  each other (section 7).
* In `HtmlPdfKit_overlap.cfg` the jobs that make their own web view and the files are symmetric; the
  run has invariants only. Runs with liveness use no symmetry.

`CHECK_DEADLOCK FALSE` is used throughout: each of these systems stops when its clients ask nothing
more. That they do not stop early is what `EveryBlockEnds`, `EveryWaitEnds`, `EveryJobIsReported`
and `KeepsPromise` say.

Each property is paired with a change of the code that breaks it (a definition marked "Variant" or
"the variant" stands beside the one it alters).

## 5. Fairness

| Assumed | Why the code justifies it |
|---|---|
| `WF(NetworkStep(r))` | a serial queue runs its head; none of these steps waits for anything |
| `WF(TaskCompletes(r))` | the session has a 10 s timeout (`NetworkRequest.m:222`), a cancelled task ends with an error |
| `WF(HandleCompletion ∨ ReleaseHandler)`, `WF(CallBlock)`, `WF(ClearBlock(r))` | the delegate and main queues run what was put on them; clients' blocks return |
| `WF(CancelTask(r))` | a call that has begun goes on |
| `WF(StoreVisible(r))` | a store reaches the other core in the end |
| `WF(Drop(r))` | only for clients declared to keep no reference: their local variable goes out of scope |
| `WF(LoadEvent(j))` | each frame of a page loads or fails |
| `WF(_timeout)`, `WF(BeginWrite)`, `WF(EndWrite)`, `WF(EndSave)`, `WF(EndFailure)` | the run loop fires due timers, the main thread finishes what it began |
| `WF(Step(t))` in `DispatchQueue` | the system runs a thread that can go on, and the pool has a thread for what is on the root's list; a thread that spins for a link (`queue.c:1376`, `:1384`) has no step until it is there |
| `WF(Continue(t))` in `DispatchGroup` | threads run; the kernel delivers a signal that it holds to a thread that waits |
| `WF(Leave(m))` | the block of a member returns |

Clients owe nothing: neither submitting, cancelling, waiting, signalling nor starting a job is fair,
and nor are the kernel's spurious wakeups and timeouts. In `DispatchQueue` a client is a program with
a given list of calls, so its next call is a step of its thread. `PageCompletes` is
not fair either: the timer saves a page that never becomes complete. `HtmlToPdf` assumes nothing of its
reader, as its properties there are safety. Each is weak fairness; no strong fairness is needed.

## 6. Proofs

Eight modules hold theorems for every value of the constants.

| Module | Theorem | Statement | Assumes |
|---|---|---|---|
| `NetworkRequestProofs` | `TypeCorrect` | `Spec => []TypeOK` | – |
| | `CancelIsNotLost` | `Spec => []CancelNotLost` | – |
| | `NoStartAfterCancel` | `Spec => NeverStartsAfterCancel` | – |
| | `SilentOnceCancelled` | `Spec => SilentIfCancelledInTime` | – |
| `NetworkDeliveryProofs` | `DeliversOnce` | `Spec => []CalledOnceWithTheOutcome` | – |
| | `KeptRequestsDoNotCrash` | `Spec => []NeverCrashes` | clients keep their requests, no chain raises |
| | `ImplementsCallbackOnce` | `Spec` implies the initial states and steps of `CallbackOnce` | the same |
| `HtmlPdfKitProofs` | `TypeCorrect` | `Spec => []TypeOK` | – |
| | `FilesHoldTheirJobs` | `Spec => []FileHoldsItsJob` | `~Reentrant` |
| | `JobsAreReportedOnce` | `Spec => []OneReportPerJob` | `External = {}` |
| | `PagesGetTheirSecond` | `Spec => NoPrematureSave` | `External = {}`, `~Overlap`, `~Reentrant` |
| `HtmlToPdfProofs` | `ShownIsWhole` | `Spec => []NeverShowsATornFile` | – |
| `DispatchQueueProofs` | `EveryObjectInOnePlace` | `Spec => []LinearInv` | – |
| | `OneOwnerHolds` | `Spec => []OneOwner` | – |
| `DispatchOverlapProofs` | `RunningCountsShares` | `Spec => [](RunInv /\ CountInv)` | – |
| | `RunningNeverNegative` | `Spec => [](running \in [Queues -> Nat])` | – |
| | `OverlapsAreHandOvers` | `Spec /\ []OwnResumes => []OverlapNeedsAHandOver` | – |
| | `OverlapsWithoutResumes` | `Spec => []OverlapNeedsAHandOver` | `ResumesApart` |
| | `OneAtATimeWithoutWaiting` | `Spec => []OneBlockAtATime` | `NoneWaits` |
| `DispatchSemaphoreProofs` | `TypeCorrect` | `SemaSpec => []SemaTypeOK` | – |
| | `WakeupsMatchWaiters` | `SemaSpec => []EveryWakeupHasItsWaiter` | – |
| | `WakeupsAreNotLost` | `SemaSpec => []NoLostWakeup` | – |
| | `AliveWhileUsed` | `SemaSpec => []OutlivesItsCalls` | – |
| | `ImplementsCountingSemaphore` | `SemaSpec => KeepsCount` | – |
| `DispatchGroupProofs` | `GroupTypeCorrect` | `Spec => []TypeOK` | – |
| | `GroupWakeupsMatchWaiters` | `Spec => []EveryWakeupHasItsWaiter` | – |
| | `GroupWakeupsAreNotLost` | `Spec => []NoLostWakeup` | – |
| | `GroupAliveWhileUsed` | `Spec => []OutlivesItsCalls` | – |
| | `GroupMemoryIsThere` | `Spec => []MemoryIsThere` | – |
| | `NotifyWaits` | `Spec => []NotifyWaitsUnlessAmidWake` | – |
| | `GroupImplementsCountingSemaphore` | `Spec => KeepsCount` | – |

Besides these only the named `ASSUME`s of the modules are used: sizes and sets of constants, a
marker (`nil`, `None`, `torn`) that is none of the values it stands beside, finitely many threads for a
semaphore, for the group that a block is no member, and for the queue that a use is one: queues,
calls and clients are apart, the root gets asynchronous blocks only, and each call stands in one place of
one body (`IsUse`: two calls of a program are two calls, even of the same block). Section 7 says what TLC finds without
clients that keep their requests, and with `External`, `Overlap` or `Reentrant` jobs.

**Cancellation.** `CancelNotLost` is not inductive: it says nothing until both threads have made
their check. `CancelInv` adds where the evidence is meanwhile: a task exists from the moment the
network block has stored it (`TaskStored`); the store of the flag, and that of the task, is pending or
visible once made, and visible once the thread that made it has gone past its check, unless it lingered
(`FlagStored`, `TaskVisible`). Whichever thread checks second then sees the other's
store: the argument of Dekker's and Peterson's algorithms. That argument fails when a store lingers
past its thread's next load, as nothing in the code prevents, and then only: the theorems are about every
order of the stores, and `lingered` names the requests that are the exception.
`NeverStartsAfterCancel` follows from the same invariant for the step
`Resume`. `SilentInv` adds that what waits on the main queue for a cancelled task was asked for, and,
from `LifeInv`, that a task has an outcome exactly when it has ended; silence is then a property of
the step that calls the block.

**Delivery.** `DeliveryInv` says of each entry of the main queue that its request's handler has run,
its block has not, and its arguments are those of the outcome (`WaitsForMain`), that a request has one
entry at most (`OneForEach`), and that what a block received is the one call that came of such an
entry (`CalledOnce`). It needs nothing of the clients. With clients that keep
their request (`KeptInv`) the weak `self` of the last block is still there and the client's block
is not nil. The steps then map to `CallbackOnce`: the call settles the request with its block, the
handler settles it without one when it has no block or was cancelled (`CancelSeen`: a task ends
so only when the client's cancel has begun), and every other step stutters.

**Files, reports, the second.** `FileHoldsItsJob` needs that `outputFile` is the file of the job in
the web view, at all times (`ViewHasItsFile`: the two are assigned together by every start), that the
PDF in memory is of the job whose file is about to be written (`SavesToItsFile`: no job may start
between rendering and writing, which is what `~Reentrant` says), and that files hold only PDFs of jobs
that were started (`FilesOfStartedJobs`: a job that starts later does not change the file of an old
one). `ReportInv` says that a job which was reported is in the web view only while the main thread is still
in the save or the failure that reported it; a web view that has been let go of is never listened to
again. `TimerInv` says that a pending timer is of the page in the web view.

**What a reader sees.** `NeverShowsATornFile` is about the reader's past; `ReaderInv` says why it
holds: the PDF in memory is of one job, complete or not (`pdf` is never a part of one), and a file
holds nothing, what was there before, or such a PDF, because the file is written in one step
(`WholeFiles`). What is read from a file is then one of these (`WholeReads`).

**Queue.** `OneOwner` is about queues only and says nothing of the blocks, the links between them or
what a drainer has taken off, so no step could keep it alone. `LinearInv` treats every reference as a
**slot**: what a frame invokes, holds or has found behind what it holds, the head of a list, `do_next`
of a listed object, an entry of the root's list. For some set of objects (those that are on a list)
it says:

- `OneSlot`: an object is in one slot at most. A step passes objects from slot to slot (`SlotMove`,
  `SlotChain`), brings one in that was in none, when a call is made or a lock taken (`SlotNew`), or
  empties a slot, when a block begins or a lock is dropped (`SlotsLose`);
- `Sides`: the slots of lists hold what is listed, the others what is not, so an item that was taken
  off is not reached from the list again;
- `Fetching`: an item a drainer took off still leads to the one behind it, which is what putting it
  back (`Undo…`) relies on;
- `Ends`: the tail is listed and leads nowhere, no two lists have the same, and one producer at most
  still has to link something behind an object: two exchanges of the tail return different objects;
- `Locks`: a queue whose lock bit is clear is nowhere and marked as on no list, so the thread that
  takes the lock may push it. Only the thread with the queue in its hands drops the lock;
- `Popped`, `ToCome`: the same for blocks, whose "lock" is that their call is made once. A call that has still
  to be made is in one frame's or body's rest and in no slot; one that has begun or was let go is in
  none either, and so no block begins twice.

There is one lemma for each action or group of like actions. Suspension, `dq_running` and references
have no part in the argument: the lock bit alone keeps a queue in one place.

**Overlap.** What runs at the same time on a queue is a matter of `dq_running` and of suspension, and
of which block stands on which function's frame. `SharesInv` takes the objects' places from `LinearInv`
and adds, for the same set of listed objects:

- `Listed`: what is on a queue's list, or in a function's hands on the way to it, belongs to that queue
  (`Home`), and a call has a ticket from when it is listed on; so a drainer runs blocks of its own queue,
  and a synchronous block that was let go is never taken for one that found the queue idle;
- `RunInv`: a block that runs stands on a frame of its queue, and what that frame is says how the block
  came to run: a shared one, the owner of an idle queue, one that was handed the queue, or the drainer's
  own. A block begins on one frame only;
- `CountInv`: `dq_running` is two for each share and one for the owner, where a share is a frame between
  its add and its subtraction, or a call that the drainer counted and that its thread or a worker has
  not yet come for. So a trylock that finds zero finds no share and no owner, and a drainer that reads
  one finds no share but itself.

These hold in every use. That the drainer's suspension keeps others out is a fourth part, `HandInv`:
at most one block of a queue is handed over, from the signal until its thread has resumed the queue;
while it is, the queue stays suspended, no listed block begins, and the owner is about none. It fails
when a client resumes a queue once more than it suspended it, as it would then resume the drainer's
suspension. `OwnResumes` (in `DispatchOverlapProofs`) rules that out and nothing else: whoever resumes a queue that some call waits
for finds a suspension beside the drainer's. The theorem
`OverlapsAreHandOvers` has it as a hypothesis about behaviours, since whether resumes follow their
suspends depends on what the threads do; `ResumesApart` (no use resumes a queue that a call waits for,
true of every use in the runs, the app's experiments among them) implies it from the constants alone.
What `HandInv` does not exclude is the trylock by a thread that saw the queue not suspended before the
hand-over: that is the overlap the property names and the run `dispatch_overlap` shows. With no waiting
calls (`NoneWaits`) there is no hand-over and a serial queue keeps its promise.

**Semaphore.** The inductive invariant is `IInv`: types, `EveryWakeupHasItsWaiter`, `NoLostWakeup`,
and `References` (the count is the client's reference and one for each thread between `Retain` and
`Release`, and the client has let go only of a semaphore that no thread waits for). The middle two are
relations between the counters and the numbers of threads at places, so lemmas say how a thread that
goes from one place to another changes those numbers (`GoCounts`); the rest is arithmetic. The same
invariant gives the refinement: a step of the counter is a step of the abstract permits, one of the
kernel or of the references a stutter.

**Group.** `GInv` keeps the counters' part of the semaphore's invariant (`CountInv`) and adds, for any
number of threads, members and blocks:

- `Roles`, `Modes`, `Released`: a member enters or leaves in one thread, a block is registered in one,
  a thread is inside the semaphore only while it enters or leaves, and nobody else is anywhere once
  the client has let go of the group;
- `PermitsOut`: the semaphore's value is its original one less one for each member that is in or about
  to be, so a group is empty exactly when nobody is;
- `GroupReferences`: the count of references is the client's, one for each thread between retain and
  release, one for each member, and one for the list, wherever the list's reference is at the moment;
- `ListInv`: the list of blocks is one chain. A thread that has exchanged the tail but not linked it,
  or has not published the head, leaves a gap that only it can close, and a thread that has taken the
  list stops at the gap; so no block is lost, none is submitted twice, and no node is read after it
  was freed (`MemoryIsThere`);
- `AwaitInv`: a block registered apart from every wake is with a wake only when all members it awaits
  have left. A block registered amid a wake may go with that wake; section 7 has the run.

`ListInv` is what makes the rest hold: the wake of the last leaver and the registration of the next
block race on the head and the tail of this list.

Only model-checked: everything under fairness (`KeepsPromise` as a whole, `GrantsPermits`, the
`Every…` properties) and `EveryDroppedRequestIsFreed`; of `DispatchQueue`, `SerialIsFifo`,
`BarrierIsAFence` and `SharedTargetIsSerial`, which follow the order of a list from tail to head, and
`TypeOK` and `NeverCrashes`, which rest on uses that pair each suspend with its resume and release a
queue once (`RunningNeverNegative` proves the part of `TypeOK` about `dq_running`); the exercises
(recursive operators, which the prover does not take); and `LunarCore`, whose properties are about the
contents of the tables, so they are checked for every row.

## 7. Known deviations

Shown by a run (`findings` in `PROJECT.json` quotes the text each contradicts):

1. `NetworkRequest.m:369` a nil block is called when no one keeps the request.
2. `BNHtmlPdfKit.m:473` success is reported before the file is written.
3. `dispatch/queue.c:807` two synchronous blocks of a serial queue run at once: one has found the queue
   not suspended, the drainer suspends it for the other and lets go of `dq_running`, and the first
   takes that for an idle queue.
4. `dispatch/semaphore.c:289` a group that fills again on its way to be woken submits a block with a
   member inside.

Stated exactly by a property that holds:

* `NetworkRequest.m:361` the error of a failed request never reaches its block
  (`CalledOnceWithTheOutcome`); `SilentIfCancelledInTime` says when a cancelled request stays silent.
* `LunarCore.m:692` months of 1892, 1893, 1926, 1935, 1945 and 2007 are shifted by one place: the loop
  that puts zeros back in front runs half way (`MonthsAsInTheTable`, from 1917 on).
* `LinkListViewController.m:314` `middleNode` reads through NULL for an even number of nodes, four or
  more; `:387` a single node is said to have a circle, and looking for its start (`:501`) crashes; `:276` `invertListNode` cuts the list; `:347`
  `mergeTwoSortList` drops the end of a list or reads past it; `Stack.c:29` relinks the list's own
  nodes, so that printing backwards never ends.
* `SortViewController.m:54`, `:73` `quickSort` reads in front of the array or leaves it unsorted;
  `:105` `sortAges` forgets the oldest; `:126` `smalletItem` returns the index before the smallest, or
  does not return; `:155` Fibonacci is two numbers behind; `StringArrayViewController.m:46` the search
  misses the first column.

Visible in the model or the code, without a property:

* `NetworkRequest.m:287` the body is set on the object that is then replaced: every POST goes out
  without its parameters (`jsonRequestConfig` has `body |-> FALSE`).
* `:316` a GET without parameters raises (`requestCloudUpdate`), `:285` parameters that are not JSON
  raise (`uploadImages`): `JSONException`. The runs submit neither, so as not to be cut short by them.
* `:209`, `:376` the two ivars are plain, so a cancel may be lost: either thread's store lingers past its
  load of the other's, both find nothing, and the request goes on (`CancelNotLost` without its exception
  for `lingered` is violated in a few steps). A barrier after each store would order them.
* `:364` a cancel between the dispatch to the main queue and the block that runs there is not looked at
  again: the block is called with the answer.
* `BNHtmlPdfKit.m:418` a web view the client keeps may fail in one frame after it was saved: with an
  `External` job `OneReportPerJob` is violated. `:393` one that was loaded already sends no message:
  such a job is never reported.
* `:481` a job started inside a success block, as no client here does, gives its file name to the PDF being saved: with
  `Reentrant = TRUE` `FileHoldsItsJob` is violated.
* `:355`, `:371` unlike `saveWebViewAsPdf`, the other two do not cancel `_timeout`: with
  `Overlap = TRUE` the timer of an abandoned job may save the next page early.
* A `dispatch_sync` inside a block of its own queue deadlocks, which `dispatch/queue.h:192` forbids;
  such a use is left out. `queue.c:1335` a concurrent queue's blocks go to the root
  whatever its target is, so a serial target does not serialise them; and a synchronous call that
  finds its queue idle runs at once without regard to the target. `SharedTargetIsSerial` is therefore
  about asynchronous blocks of serial queues. `object.c:178` one resume too many is not noticed
  while the lock bit is set.
* `LunarCore.m:776` a date early in 1890 is accepted and reads the table at index -1; `:1000`
  festivals repeat in a leap month; the tables disagree about New Year of 1896, 1900 and 1916, and
  the month lengths of 1899 and 1900 add up to 355 and 384 days where the New Years are 354 and 385
  apart. Hence the walk starts in 1917.

## 8. What is not modelled

* Request: the progress and upload blocks are stored and never used; a second `response` on one
  request, which no client makes.
* Kit: page sizes, margins and the renderer; they depend on nothing that changes.
* Lunar calendar: solar and week festivals, working days, dates of the terms, the correction for
  Japanese and Buddhist locales, two threads in the cache (its one caller uses the main thread).
* Exercises: building a list and logging; `mergeTwoSortArray` always goes on to the cell in front of
  an array and `construnctCore` writes through pointers that are never set, so neither has a behaviour;
  `equal` compares doubles; `lenth` and `clear` of the stack are never called.
* Queues: the pool of worker threads and its wakeups (the root is a first-in first-out list that two
  workers take from), the main and the manager queue, a change of width after creation, finalizers,
  `dispatch_apply`, sources, timers and `dispatch_once`; the processor's order of plain loads and
  stores (the accesses modelled are atomic instructions or surrounded by them).
* Semaphores: the cache of one semaphore per thread (`semaphore.c:46`), the queue a block goes to
  once the group submits it, and the library's two traps: a counter that overflows (`:307-312`) and a
  semaphore freed in use (`:480`). Clients signal and release so that neither is met.
* Group and tab selector: a selected index and the colours of the cells a collection view keeps. With
  the three titles the app shows all cells are visible and none is reused; the container's scroll
  handler is empty, so a click is the one event.
* ReplayKit: its call in `AppDelegate.m:34` is commented out.
* The parts of section 1 without state of their own.

The modelled lines are a small share of the tree, which is mostly other people's source kept for
reading: two libdispatch versions, CoreFoundation, the runtime, vendored pods, and C++ files the
compiler wrote (`main.cpp`, `TestClass.cpp`, `AutoReleaseObj.cpp`, `WeakObject.cpp`). Of the
libraries, only the version of libdispatch whose queues the app's experiments show has modules.

## 9. Running

In this directory, with TLC and TLAPS on the path:

    tlc -workers 2 -config NetworkRequest_lifecycle.cfg MCNetworkRequest
    tlapm NetworkRequestProofs.tla

Each configuration's module is named in `PROJECT.json` under `runs`. The longest runs take
less than a minute, the longest proofs a few minutes.
