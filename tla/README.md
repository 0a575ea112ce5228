# A verification project for BlinKit

BlinKit is a headless crawler engine in C++: it loads a page over HTTP, builds
its DOM with a reduced Blink, runs its scripts in Duktape and calls the embedder
back when the document is ready.  This directory holds TLA+ models of its
concurrent and event-driven parts, the TLC runs that check them on small
instances, and TLAPS proofs for every instance.

Paths below are relative to `src/` of the repository unless they start with
`src/` or `sdk/`; *blink/* abbreviates
`src/chromium/third_party/blink/renderer/`.  In that tree the `.cpp` files are
BlinKit's own rewrites and are in scope; the `.cc` files are Chromium's,
unchanged, and are used as a library.

## 1. Inventory

| Component | Code | State | Operations |
|---|---|---|---|
| App lifecycle | `src/blinkit/app/*`, `blink/platform/exported/platform.cpp` | the process-wide `Platform`, the app's mode and client | `BkInitialize`, `BkRunApp`, `BkExitApp`, `BkFinalize`, `BkAppExecute` |
| Main loop (POSIX) | `src/blinkit/posix/task_loop.cpp`, `blink_impl/posix_task_runner.cpp` | task queue, exit code, mutex, condition variable, delay threads | post now, post delayed, run, exit, destroy |
| App and task runner of Windows | `src/blinkit/app/win_app.cpp`, `blink_impl/win_single_thread_task_runner.cpp` | message queue of the app's thread, timers by id, handle of the background thread | post, take a message, fire a timer, run, exit, finalize |
| Task runner of Apple | `blink_impl/apple_task_runner.cpp` | none: Grand Central Dispatch | post |
| HTTP requests (curl) | `src/blinkit/http/curl_request.cpp`, `request_impl.cpp` | reference count, response, worker thread | perform, release |
| HTTP requests of Windows | `src/blinkit/http/win_request.cpp`, `request_controller_impl.h`, `src/blinkit/win/inet.cpp` | next worker, signal event, cancel event, error code, reference count | perform, seven workers, status callback, cancel, release |
| HTTP requests of Apple | `src/blinkit/http/apple_request.mm` | a response | forwarded to NSURLSession |
| HTTP load | `blink_impl/url_loader_impl.cpp`, `loader_tasks/*` | task, response, `m_callingCrawler`, `m_cancel` | load, hijack, request complete/failed, continue, cancel |
| Crawler | `src/blinkit/crawler/crawler_impl.cpp` | the frame, the client's callbacks | create, run, destroy, client callbacks |
| Fetching | `blink/platform/loader/fetch/*.cpp` | loaders in flight, resources with status, clients and finish observers | start, receive, finish, fail, cancel |
| Navigation | `blink/core/loader/frame_loader.cpp`, `document_loader.cpp`, `navigation_scheduler` | provisional and committed document loader, states | start navigation, commit, finish, stop, detach |
| Document load | `blink/core/dom/document.cpp` | ready state, load-event progress, delay count, timer | open, finish parsing, check completed, implicit close |
| Parsing | `blink/core/html/parser/*` | tokenizer, tree, pending script | feed, pump, resume after a script, finish |
| Script execution | `blink/core/script/*` | pending scripts by kind, runner queues | prepare, notify, execute |
| Timers, scheduler | `blink/platform/timer.*`, `blink/platform/scheduler/*` | next fire time, posted closure | start, stop, fire |
| DOM tree | `blink/core/dom/*.cpp` | parent, children | insert, remove, replace |
| Events | `blink/core/dom/events/*`, `blink/bindings/core/duk/duk_event_listener.cpp`, `duk_event_target.cpp` | listeners by target and type, native listeners, their hidden properties, iterators of the dispatch under way | add, remove, dispatch, remove all |
| GC pool | `blink/platform/bindings/gc_pool.cpp`, `script_wrappers.cpp`, `blink/core/dom/container_node.cpp` | nodes that belong neither to a tree nor to script; the flags `m_contextRetained`, `m_inGCPool` of each | save, restore, finalize a wrapper, collect at `DidFinishLoad` |
| JS binding | `src/blinkit/js/*`, `blink/bindings/core/duk/*` | Duktape heap, wrappers | evaluate, call, wrap |
| CSS selectors, editing, WTF, URL, net | `blink/core/css`, ... | none that outlives a call | pure functions |

**How they meet.**  Everything of the page runs on the main thread, as closures
of the main loop.  The other threads are one per curl request and one per delayed
task; they touch the main thread's objects only by posting, with two exceptions
the models keep: `HTTPLoaderTask::RequestFailed` deletes its task on the thread of
the request, and `TaskLoop::Run` reads the exit code outside its mutex.  A
load goes `FrameLoader / ResourceFetcher -> ResourceLoader ->
URLLoaderImpl::LoadAsynchronously -> HTTPLoaderTask -> CURLRequest`, and its
result comes back as closures `ErrorWorker`, `ProcessRequestComplete` or
`DoContinue`.  The embedder is called from these closures and may call back into
the engine from there.

**What is hard.**  Threads posting to a loop that is waiting, exiting or gone;
objects that delete themselves on whichever thread is last; a client that may
answer now, later or never; three independent conditions (parser, requests,
scripts) that must together announce the document exactly once; re-entrant
cancellation; containers that listeners change while they are walked.  The list of hazards, each at its line, is in `PROJECT.json`.

**What makes each part correct.**
*Main loop*: tasks start in push order, once; nothing is lost to a missed wakeup;
after exit nothing new starts and `Run` returns the code.
*HTTP load*: exactly one outcome per load; no object used after its deletion; the
page is handed on only with consent.
*Fetching*: each loader leaves its set once; finish observers are told once.
*Navigation*: at most one provisional loader; a cancelled navigation commits
nothing.  *Document load*: `DocumentReady` once, after parser, scripts and
blocking requests, and it does come.  *Timers*: a start fires once.
*Windows requests*: one signal ends the right wait, the last holder frees the
request, the client hears of one end.  *Windows app*: undelayed tasks in order,
delays kept, exit ends the loop.  *GC pool*: no node has two owners that would delete it, only
the fragments `innerHTML` parses into have none, and nothing in the document or retained by script
is deleted.
*Events*: a dispatch calls what was registered when it came and was not removed; a native
listener lives as long as it is registered or called.
*App lifecycle*: no call reaches a finalized app.

## 2. Modules

| Module | What it models |
|---|---|
| `TaskQueue` | the abstract promise of the main loop: accept, start in order, close |
| `TaskLoop` | `TaskLoop`, `PosixTaskRunner`, `PosixApp` |
| `TaskLoopProofs` | theorems about `TaskLoop`, for all constants |
| `LoadContract` | the abstract promise of a load: one end, after the answer of the client if it is a page |
| `HttpLoad` | URL loader, HTTP loader task, curl request thread, crawler client's answer |
| `LoadBarrier` | the abstract promise of a page load: tell the client once, when nothing holds the page back |
| `PageLoad` | parser, script runner, document completion, delay timer, blocking requests of one page |
| `PageLoadProofs` | theorems about `PageLoad`, for any finite set of scripts |
| `PageBarrierProofs` | the end of the parser, the checks, that no page stalls, and the refinement of `LoadBarrier`, on top of `PageLoadProofs` |
| `HttpLoadProofs` | theorems about `HttpLoad`, for any set of loads |
| `HttpRequest` | the abstract promise of a request: one end at most, told while it is performed |
| `WinRequest` | `WinRequest`, `RequestControllerImpl`, the WinINet operations |
| `WinRequestProofs` | theorems about `WinRequest`, for any length of response |
| `WinApp` | `WinApp`, `WinSingleThreadTaskRunner`, the SDK calls that start and end the app |
| `WinAppProofs` | theorems about `WinApp`, for all tasks, threads and delays |
| `NodeHeap` | who owns a DOM node: tree, script, `GCPool` or nobody |
| `NodeHeapProofs` | theorems about `NodeHeap`, for any sets of nodes and fragments |
| `ListenerList` | the abstract promise of an event target: whom a dispatch calls |
| `EventTarget` | `EventTarget`, `EventListenerMap`, `DukEventListener`, the walk of `EventDispatcher` |
| `EventTargetProofs` | theorems about `EventTarget`, for any targets, functions and listeners |
| `MCTaskLoop`, `MCHttpLoad`, `MCPageLoad`, `MCWinRequest`, `MCWinApp`, `MCNodeHeap`, `MCEventTarget` | the instances TLC checks |

The modules meet at the main loop.  `HttpLoad` and `PageLoad` each keep it as a
sequence of closures taken from the front one at a time, which is what `TaskLoop`
is proved to implement (`TaskQueue`).  `WinApp` implements the same `TaskQueue`
with the message queue of Windows, so the closures may rest on it there too.  An answer of the network in `PageLoad`
(`MainResourceAnswers`, `AsyncScriptAnswers`, `BlockingScriptAnswers`) is one
finished load of `HttpLoad`.

### TaskLoop

A critical section under `m_mutex` is one step.  What the code does outside it is
a step of its own, so every interleaving with posting threads is there: the wait
(`WaitForWork`; `SpuriousWakeup` because POSIX allows it), the pop (`PopFront`),
the test of `m_exitCode` after the unlock, the run of the task
(`StartTask` .. `FinishTask`), `ReturnCode`, `Destroy`.  `mpc` is the main
thread's place in `Run`.  The unlocked test races with `Exit`; `ExitTests` lets
it yield the value at the unlock or the present one, which are the outcomes the
`-O0` build of `projects/posix` can produce.  Delay threads post in any order
(`DelayThread`); a failed `pthread_create` takes the path of the release build,
where `ASSERT(false)` is off: `DelayThreadFails`, then `RefusePost`.  A post
after the destruction is recorded as `"lost"` and its effect, which is
undefined, is not modelled further.

`posted`, `started`, `refused` and `exitBound` are history variables: no guard
reads them.  Each task is posted once: two posts of one `std::function` are two
tasks.

`TaskQueue` is refined with `pending` = the queue, the popped task in front of it,
while `Run` is open, and `<<>>` afterwards: a task counts as pending until its
function is called, so leaving the loop with a task in hand drops that task
with the others.

### HttpLoad

One record of state per load, on both threads.  The main loop is the queue
`TaskLoop` implements: a sequence of closures, dispatched one at a time
(`Dispatch`) and dropped by `CloseLoop`.  The thread of the request is `worker`:
`RequestComplete` or `RequestFailed` then `DeleteFailedTask`, then
`ReleaseRequest`; each is a step of its own because the main thread may run in
between.  The release build is modelled where it differs: `PerformFails`
deletes twice, `DoCancel` does nothing.  After the double deletion the model
goes on with the error path; what a corrupted heap does is not modelled.

`LoadContract` is what is left of a load for its callers: new, loading, asked,
dropped or over (`Stage`), the last word of the crawler client and the ends that
were told.  A page is told of as finished only from the stage asked and with
`"continue"` as that word, a page that was asked about does not fail any more, and
a dropped one is told of nothing.  `TaskEndsWithLoad` adds what the contract leaves
open: a load that has not ended is in somebody's hands, the thread of its request,
a closure of the loop or the client's controller, unless it was cancelled.

Assumed of the embedder: it uses the controller on the main thread only
(`DoContinue` asserts it), answers at most once after its callback returned, and
destroys the crawler in its Exit callback as `projects/posix/BkTest.cpp` does.

### PageLoad

Everything of a page is on the main thread, so there is no concurrency but much
re-entrance: the engine calls JavaScript and listeners, which call the engine.
`stack` holds the calls under way, innermost first.  A closure of the loop
(`Dispatch`) or an answer of the network starts only when it is empty; after that
each micro-step replaces the innermost frame by the calls it makes.  A frame
`"listener"` is foreign code with no insertion point (asynchronous scripts,
listeners, the DocumentReady callback), a frame `"script"` is one the parser runs,
which may also write to the document: reading a token inside it starts a nested
pump.  Both may insert scripts (`InsertScript`), between any two steps of the
engine that a real script could come between.

| Definition | Code |
|---|---|
| `loading` | `m_loaders` of `ResourceFetcher`; `BlockingRequestCount` |
| `soon`, `streamed`, `extraTasks` | `m_asyncScriptsToExecuteSoon`, a `ScriptStreamer` was made, `m_numberOfExtraTasks` |
| `delayCount`, `timerActive` | `m_loadEventDelayCount`, `m_loadEventDelayTimer` |
| `parser`, `blocking`, `endDelayed`, `unread` | the `HTMLDocumentParser`, `HTMLParserScriptRunner`'s blocking script, `end_was_delayed_`, the input |
| `parsing`, `ready`, `progress`, `sent` | `Document`'s parsing state, ready state, load-event progress, the loader's `SentDidFinishLoad` |

The initial state is the one after `BkRunCrawler`: the page is requested and the
initial empty document, whose ready state is complete, is still there.  An
asynchronous script that comes over HTTP is streamed: `ScriptStreamer` posts a
second `ExecuteTask`, and the runner counts it as an extra task that may find
nothing; whether a script comes over HTTP is a choice of the model.  `unread` is kept when a pump returns inside another one, so
that `ParserEndsClean` is not satisfied by a nested pump reading the text of
`document.write`.

What the model leaves out of this component: `document.write` with no insertion
point (it reaches `Document::open`, a stub); stylesheets (they never block in a
crawler); preloading (off); deferred, in-order and module scripts (the branches of
`PrepareScript` that make them are compiled out or unreachable for the elements
inserted here); a second `BkRunCrawler`, stop and abort (section 7);
a pending location change, which `NavigationScheduler` never has at this commit.
Two early returns of `NotifyScriptLoaded` (parser stopped, parser detached) have no
action: `ParserEndsClean` shows that no state reaches them.

`LoadBarrier` has three variables.  `blockers` are the scripts that have been asked
for and not executed, and the main resource until the page is parsed; `closing`
is the ready state complete of the new document; `told` is what the client heard.
It may begin to close only with no blocker and tell once after that; blockers may
still appear while it closes, because listeners insert scripts, and the
announcement then does not wait for them.

### WinRequest

The thread of a request runs workers one after the other; between two of them, and
inside `SendRequest` and `ReceiveData`, it waits for `m_hEvent`.  `pc` is its place:
a worker, one of the three waits, or the way out.  `next` is `m_nextWorker`, `io` the
operation WinINet has not completed.  Each WinINet call may be done at once
(`OperationDone`), be pending (`OperationPends`) or be refused (`OperationFails`).  A
pending one is completed by `StatusCallback`, on a thread of WinINet: it stores the
error and then signals.  `FirstWorker` is the rest of `Perform` after
`CreateThread`, which the thread may already be waiting for.

`controller` is the `BkWorkController`.  `GetController`, `ReleaseController`, `Cancel`
and `DeleteController` count references as the code does; `Cancel` may come between
any two steps.  It takes the reference the controller has, and the destructor takes
the thread's: once the request is freed, no step that would use it is taken
(`freed` in the guards), because what it would do is undefined.  `told` and
`declined` are history.

`HttpRequest` is the abstract request: it is created, performs or is over, and tells
its client once at most and only while it performs.  `WinRequest` maps `caller` and `pc`
to that phase (`Phase`).

### WinApp

`messages` is the queue of the app's thread, in which tasks and `WM_QUIT` travel.
The loop takes the oldest (`Take`); the hook runs an undelayed task (`ProcessTask`)
and sets a timer for a delayed one (`ProcessDelayedTask`), or `GetMessage` returns
`FALSE` (`TakeQuit`).  A timer of the thread's own (`PostTimer`) needs no message.
`Tick` is a tick of the clock: `age` counts since the post, `left` until the timer; both
stop at `MaxDelay`.  `WM_TIMER` is made by Windows only when no other message waits
(`ProcessTimer`), and its timer is killed before the task runs: a task may let messages
be taken no more than the loop does, so none starts inside another (`TasksRunOnce`).

In background mode the thread is made by `CreateBackgroundThread`, its handle
stored by `StoreHandle`; `StartBackgroundApp` reads what is there and so may find
no handle (`joinable`).  `Exit` posts `WM_QUIT`; the caller then reads the
app's handle (`ReadHandle`), possibly of an app already deleted, and waits
(`Joined`).  On the app's own thread both are one step, after which it waits for
itself.  The app counts as gone when `RunAndFinalize` deletes it.

Assumed of the program: each caller exits once, posts only while the app is there
or its thread has ended, and a `std::function` is posted once.

### NodeHeap

Nodes are not reference-counted.  `parent` is the tree; `retained` is
`m_contextRetained`, `pooled` is membership in the pool (and `m_inGCPool`), `wrapped`
is `m_contextObject # nullptr`, `held` what script can still reach.  An operation of
script is one step with the push of its result (`Push`), since both happen in one
call from Duktape.  `Finalize` is separate from `Drop`: Duktape finalizes some time
later, or never.  `CollectGarbage` comes at any time, which is more often than
`DispatchDidFinishLoad` calls it.  `Below` is defined as a least set so that the
proofs need no recursion; TLC evaluates it on six nodes.  Sibling order is left
out: no owner depends on it.

`SetInnerHTML` is an assignment of `innerHTML` that is not empty:
`CreateFragmentForInnerOuterHTML` makes a `DocumentFragment` and parses into it
(`serialization.cpp:69`), then the old children go to the pool and those of the
fragment to the element (`ReplaceChildrenWithFragment`).  The fragment itself stays
behind.  `Document::createDocumentFragment` saves the fragments it makes to the pool;
this one nobody saves, wraps or deletes.  The history variable `parsed` has these
fragments.  `RemoveChildren` is the case without a fragment: `textContent` and
`innerHTML` set to the empty string (any other `textContent` of an element is an
`ASSERT(false)` at this commit).

Two properties speak of whole subtrees, as the code does when it deletes one.
`OnlyParsedFragmentsLeak`: the live nodes that are below neither the document nor a
retained node nor a pooled one, so that nobody will delete them, are exactly
`parsed`.  It says that the code leaks, one node for each assignment of `innerHTML`
and that one for ever, and that this is all: the nodes such a fragment brought have
an owner, and so has what they replaced.  `NothingInUseIsDeleted`: no step deletes
what is below the document or a retained node.  `OneOwner` says of each single node
that it has one owner, or is in `parsed` and has none; the proofs rest on it.

### EventTarget

A call of `addEventListener` makes a native object, a `DukEventListener`; the entry of
the vector owns it (`shared_ptr`).  Its key is the target, the type and the function.  The
constructor writes a hidden property of that name on the global object, with a raw pointer
back (`Create`); the destructor deletes it (`Destroy`); `removeEventListener` looks there.
`key`, `native` and `listeners` are these three, and `Natives` are addresses, which are
used again.

| Definition | Code |
|---|---|
| `stops`, `event` | the targets `EventDispatcher` has yet to come to, with the phase; the type |
| `iterator`, `end` | `i` and `size` of `FireEventListeners`, which the `FiringEventIterator` refers to |
| `freed` | the vector the loop refers to was deleted with its last entry |
| `running` | the listener in `handleEvent`, held by the loop's copy of the entry |
| `dismissed` | history: what script removed from the vector being walked |

Script runs between dispatches and inside a listener (`Scripting`); each call it makes is a
step, so a listener may do any number of them.  The dispatches are those of a crawler
(`Dispatch`): `load` and `error` of a script element, `readystatechange` and
`DOMContentLoaded` of the document, `load` and `unload` of the window.  A path is chosen
when the dispatch begins, as `EventPath` does, so a script element may be in the document
or out of it.  No dispatch starts inside another: script has no `dispatchEvent`, and each of
these starts in a closure, in the parser or in an answer.  No listener is `once` or passive
and none stops an event, because the binding offers script neither.

`ListenerList` has the listeners of each slot, the slot under way and the set of those
still due, with no index: `Call` takes the first that is due, `Unregister` takes one out
of the list and out of the set.  That the two numbers of the loop amount to this set while
the vector changes is the refinement.

## 3. Runs

| Run | Instance | Shows |
|---|---|---|
| `taskloop` | main thread, 1 worker, 3 tasks, 2 codes | the safety properties, refinement of `TaskQueue`, and under fairness that queued tasks start and exit ends `Run` |
| `httpload` | 2 loads of any kinds | refinement of `LoadContract`, no use after deletion, no task or load forgotten; under fairness loads end and continued pages arrive |
| `pageload` | a page with 3 scripts of any kinds | the invariants of delay count, closures and parser, refinement of `LoadBarrier`, and under fairness that every page is reported and every script runs |
| `winrequest` | responses of up to 2 reads, with and without body, one controller | signals match waits, the last holder frees, refinement of `HttpRequest`, and under fairness that requests end |
| `winapp` | app thread and 1 other, 2 tasks, delays of 0 to 2 ticks, both modes | no task runs twice or inside another, refinement of `TaskQueue`, and under fairness that tasks start and exits end, unless the app waits for itself |
| `nodeheap` | 3 nodes and 2 fragments | the live nodes that nothing would delete are the fragments of `innerHTML`, and nothing in use is deleted |
| `events` | 2 functions, 3 native listeners, a script element, listeners of the window for `DOMContentLoaded` and `unload` | no deleted vector or listener is used, refinement of `ListenerList`, and under fairness that dispatches end |
| `refusedtask` | 2 tasks, 1 code | violation: a task refused with `false` runs |
| `detachloads` | 2 loads | violation: destroying the crawler leaves requests performing |
| `requestdelete` | 2 loads | violation: a request that cannot start is deleted twice |
| `windelay` | 2 tasks, delays of 0 to 2 ticks | violation: a delayed task of another thread starts before its delay is over |
| `removedlistener` | 2 functions, 3 native listeners, `DOMContentLoaded` of the window | violation: a listener removed during a dispatch is called in it |

**Bounds.**  Three tasks are enough for one in hand, one queued and one being
pushed, the situations the lock distinguishes; one worker and the main thread are
two posters besides the delay threads, which are one per task.  Two codes show
that the last one stays.  The proofs lift these bounds for safety.  Loads share
only the loop, the callback and the controller set, so two of them meet in every
way three would pairwise.  Three scripts let one block the parser while another is
asynchronous and a third is inserted by either, which is the least with which the
orders of answers, closures and checks all occur; everything else of `PageLoad`
is bounded by them, since each script is prepared once.  A response of two reads has a first, a middle and
a last turn of `ReceiveData`, each of which may pend.  Redirections are not bounded: a
request that is redirected is again in a state it was in.  Two tasks in `WinApp` are
one undelayed and one delayed, two delayed or two undelayed; with delays of up to two
ticks a message may wait for less time than its delay, or more.  In `NodeHeap` three
nodes make a chain below the document or a fragment, or a tree and a node apart; of two
fragments one can be of script and one of `innerHTML`, or both of the same kind.
In `events` three native listeners let one run, one be behind
it and one before it in the vector, and one function be registered twice; the window sees
`DOMContentLoaded` on the way down and on the way up, so a listener is passed in one phase
and called in the other, and two types tell the vectors of one target apart.

**Symmetry** of nodes, tasks, workers and loads is used by runs of safety only: the
violation runs and `nodeheap`.

**Deadlock** is off in all runs: a program whose loop has returned, and one whose
embedder does nothing more, stops.

**Fairness.**  `TaskLoop!Fairness`: a thread of the operating system that can run
does; `nanosleep` returns; a posted function returns.  Not assumed: that anybody
posts, enters `Run` or exits; that a spurious wakeup comes.  `HttpLoad!FairSpec`:
`curl_easy_perform` ends (the code sets `CURLOPT_TIMEOUT_MS`), the loop runs
what is posted, the callback returns.  The crawler client is never fair: it may
keep the controller for ever, and the liveness properties say so.
`PageLoad!FairSpec`: the main thread goes on and runs what is posted, JavaScript
returns, and every request is answered, which is `HttpLoad`'s `LoadsEnd` for a
client that does not keep or cancel the page.  Nobody is made to insert a script.
`WinRequest!FairSpec`: the thread runs, `Perform` returns, and WinINet completes what
is pending (`OpenSession`, `SendRequest` and `QueryRequest` set its timeouts); the holder
of the controller owes nothing.  `WinApp!FairSpec`: the app's thread runs and its
tasks end, the clock goes on, and threads inside `BkInitialize` and `BkExitApp` run;
nobody is made to post, to enter the loop or to exit.  `EventTarget!FairSpec`: the engine
goes on and functions return; script is never made to call anything, nor to stop adding
listeners.

Every property of a passing run has a mutant: the definition above the mapped one
marked *Variant* in its comment, the code with one plausible mistake, with which
TLC finds the property violated.

## 4. Proofs

`TaskLoopProofs` proves, for every set of workers, tasks and codes:

- `TypeCorrect`: `Spec => []TypeOK`
- `StartsInOrder`: `Spec => []Fifo`
- `NoAssertFails`: `Spec => []AssertsHold`
- `ExitStopsStarts`: `Spec => []ExitIsPrompt`
- `NoWakeupIsLost`: `Spec => []SleepsOnlyIdle`
- `TasksAreAccounted`: `Spec => []NoTaskVanishes`
- `QueueMovesUp`: `Spec => [][QueueAdvances]_vars`
- `ExitIsNear`: `Spec => [][ExitAdvances]_vars`
- `LoopIsAQueue`: `Spec => Implements`, the refinement of `TaskQueue`

from two assumptions: `Main` is not a worker, `None` is neither a task nor a code.

The inductive invariant `IInv` has five parts.  `TypeOK` is inductive by itself.
`Control` relates the place in `Run` to what it holds: with nothing in hand the
test was taken with a code set under the mutex; this is what makes the unlocked
test safe.  `Bounded` strengthens `ExitIsPrompt` by leaving room for the one
turn that had unlocked before the code came.  `Accounted` says that a pushed task
is never fresh again, wherever it is, and that a held task belongs to one
sleeping caller; without it a task could be pushed twice and order would be
meaningless.  `Fifo` needs `Accounted` (no push of a pushed task) and `Control`
(nothing in hand when the front is popped).  Each part has one lemma with one
step per action.  The refinement follows from the same invariant: a push is
`Submit` because a fresh task is neither pending nor started, the start is
`Start`, leaving or destroying an open loop is `Close`, all else stutters.

`SleepsOnlyIdle` and `NoTaskVanishes` are defined with the proofs.  The first is what
the liveness properties come down to: while `Run` waits on `m_cond` the queue is empty
and there is no exit code, so no post and no exit was slept through.  The second ties
the status of each task to the place that holds it (the queue, `taskData`, the started
ones) and bounds what is lost: one task at most, popped in the turn that sees the exit
code, and what the destructor discards.  It needs `Fifo`, by which the queue of an open
loop holds no task twice.

`QueueAdvances` and `ExitAdvances`, defined with the proofs too, are measures.  With each move
of `Run` a queued task keeps its place while `Run` comes nearer to its next pop (`Stage`), or
moves up by one place, or is in hand; only the end of the loop loses it.  Once there is an exit
code each move of `Run` is one of the six that can be left (`MovesLeft`).  Both rest on
`SleepsOnlyIdle`: otherwise a wakeup would be a move that leads nowhere.

`PageLoadProofs` proves, for every finite set of scripts:

- `TypeCorrect`: `Spec => []TypeOK`
- `DelayIsExact`: `Spec => []DelayCountExact`
- `ClosuresAreMatched`: `Spec => []ClosuresMatch`
- `NoAssertFails`: `Spec => []AssertsHold`

from one assumption: the set of script elements is finite, and `Main` and `None`
are not in it.  The type invariant is not inductive here: two of its variables are
counters that are decremented, and that they stay natural numbers is what the
other parts say.  `IInv` adds three parts to `TypeOK`, `DelayCountExact` and
`ClosuresMatch`.  `RunnerInOrder`: what is queued as ready is ready and queued once;
without it `ExecuteTask` might run a script a second time and the count would be
decremented for a script that is not in it.  `Known`: a script that is new is not
streamed, so preparing it adds an extra task exactly if it adds a streamed script,
and the parser's blocking script is in the state blocking.  `OneRuns`: the call that
decrements is the outermost of the stack and is there exactly while a script is
running, so each decrement takes one script from the count, although anything may
be called in between.  Most actions leave the script runner alone; `QuietStep`
deals with them, and each of the others has a lemma of its own.  The last assertion
needs a second invariant, `EndIsNext`: nothing but a listener can come between
`PrepareToStopParsing` and `end()`.

`PageBarrierProofs` proves, under the same assumption:

- `ParserEnds`: `Spec => []ParserEndsClean`
- `ChecksAreKept`: `Spec => []NoLostCheck`
- `PageNeverStalls`: `Spec => []NeverStalls`
- `TurnsAdvance`: `Spec => [][TurnAdvances]_vars`
- `PagesAdvance`: `Spec => [][PageAdvances]_vars`
- `PageIsABarrier`: `Spec => IsABarrier`, the refinement of `LoadBarrier`

What is true of the parser and the document depends on the calls under way, and a
frame may be anywhere in `stack`.  `UnderWay(stack)` is the set of frames in it,
and `PageInv` says what each of them means.  `FinishShape` and `ClosedShape` say which
frames can be below the one that finishes the document; `StopsClean` and `AfterStop`,
that the parser stops with nothing to read and nothing of it goes on afterwards;
`ReadyInOrder`, that the ready state follows the parser; `Unfinished`, `NotYet` and
`ToldOnce`, that a closing document is told of once, by the call that closed it;
`Arrives` and `OnlyBlocking`, that a request in flight has somebody who waits for it;
`CheckComes`, that a document nothing holds back has a check under way or in the
delay timer.  In the simulation preparing a script is `Block`, its end or the failure of its request
`Release`, `ParsingIsFinished` is `Release(Main)`, the check that finds the exact
delay count at zero is `Close`, and the announcement is `Announce`; all else stutters.

`NeverStalls`, `TurnAdvances` and `PageAdvances`, defined with the proofs, are the parts of `PageIsReported`
that need no fairness.  The first says that an idle main thread that has not told the client
has a request under way or a closure to run.  It follows from all of the above and from two
more invariants: `ScriptsAreComing`, that a script waited for has a loader and a ready one is
queued, and `CallsGoOn`, that a parser that has not stopped is about to be finished, paused,
or in a pump session that will end it (`ParserGoesOn`, with `ScriptShape`: script that the
parser runs returns to a pump), and that a document hears of the end of its parser and of its
load event (`EndComes`, `CloseComes`).  The second is a measure for a turn of the loop: each
step uses up a script element or ends a call, and what the call goes on with is of a lower
rank.  The third puts the turns together: each step answers the main resource (`Unanswered`),
or a script makes one of its four moves, from new to done (`Work`), or the loop has a closure
less, or the turn goes on as the second says, and what comes later in this list may only grow
when something before it shrinks.  A check may set the delay timer, whose closure checks again:
that this is no circle is in the order of the list, as the timer is set only when a script's
move brought the delay count to zero.  That the measures order tuples of naturals, so that no
page can go on for ever unless script does, is not stated in TLA+.

`HttpLoadProofs` proves, for every set of loads:

- `TypeCorrect`: `Spec => []TypeOK`
- `OneOutcome`: `Spec => []AtMostOneOutcome`
- `NoUseAfterDelete`: `Spec => []LiveWhenUsed`
- `ConsentFirst`: `Spec => []PageNeedsConsent`
- `NoTaskLeft`: `Spec => []TaskEndsWithLoad`
- `EveryLoadAdvances`: `Spec => [][LoadsAdvance]_vars`
- `LoadsKeepTheContract`: `Spec => Implements`, the refinement of `LoadContract`

from two assumptions: `None` is neither a load nor a Boolean nor an answer (it stands
for a flag nobody has written).  No property is inductive, because each says what is true of a
load at one place of its life.  `IInv` says in whose hands a load is: untouched
(`Untouched`), with the thread of its request (`InThread`), in one closure of the loop
(`InQueue`, and `OneClosure`: never two), with the crawler's client (`WithCrawler`), or
over (`Ended`), and what its task, request and answer are there.  Each action moves one
load from one pair of hands to the next and leaves the others alone; the lemmas about
`Append` and `Tail` say what that does to a queue that holds each load once.  The
stage of a load in `LoadContract` follows from whose hands it is in (`StageOf`).  Each
action that moves a load is one step of the contract, or stutters when it moves the load
between two places of the same stage (a thread, a closure); giving an answer inside the
callback is `Answer`, what the engine does with it afterwards is `HandOn` or `Drop`.
`OneOutcome` and `ConsentFirst` say the same of the state, without the contract.
`LoadsAdvance`, defined with the proofs, is a measure of whose hands a load still has to go
through (`Left`): no step raises it for any load, and each lowers it for one, but for the
end of the loop or of the crawler and for an answer that the client gives in its callback and
may still change there.

`WinRequestProofs` proves, for every `MaxParts`:

- `TypeCorrect`: `Spec => []TypeOK`
- `SignalsMatchWaits`: `Spec => []OneSignalPerWait`
- `LastHolderFrees`: `Spec => []FreedByTheLastHolder`
- `NoRequestEndsInSilence`: `Spec => []NoSilentEnd`
- `RequestsAdvance`: `Spec => [][RequestAdvances]_vars`
- `RequestKeepsItsPromise`: `Spec => Implements`

`IInv` adds four parts to `TypeOK` and `OneSignalPerWait`: `Counted` is the reference
count at each place of thread and controller; `QuietBefore` says that nothing is
signalled or pending before the thread starts; `NoErrorInWorkers`, that no worker starts
with an error stored, without which a response could be followed by a failure;
`ToldAtEnd`, that what the client heard is known from the place of the thread.
`NoSilentEnd` and `RequestAdvances`, defined with the proofs, are what `RequestsEnd` comes down
to.  When the thread lets go of the request the client was told or has refused a redirection,
and only a cancel frees the request before that; `LastWait` is the strengthening it needs: a
wait that no worker is to follow comes after the last word.  And each step uses up a call of the
SDK, a worker, a part of the body or a notification, except for the redirection, which starts
the request anew and has no limit in the code.

`WinAppProofs` proves, for every set of tasks and threads and every `MaxDelay`:

- `TypeCorrect`: `Spec => []TypeOK`
- `EachTaskRunsOnce`: `Spec => []TasksRunOnce`
- `AppLosesNothing`: `Spec => []NothingIsLost`
- `MessagesMoveUp`: `Spec => [][MessagesAdvance]_vars`
- `AppIsAQueue`: `Spec => Implements`, the refinement of `TaskQueue`

from three assumptions: `App` is none of the other threads, `Quit` is no task, `MaxDelay`
is a natural number.  `IInv` adds four parts.  `Queued`: a task is in the message queue once, and only while
it is posted and neither timed nor started, so a message and a timer never hold the same task.
`Started` ties what has started to the task the app's thread is in, and
`RunsOnAppThread` says that a task is run from the loop and nowhere else.
`TimedIsDelayed`, that only a task with a delay has a timer, keeps timers out of the
queue that `AppIsAQueue` maps to.  That queue is selected from the messages: the
undelayed tasks before `Quit`.  The selection is a recursive function of the length of
the sequence, and that a selection of `Append(s, x)` or of `Tail(s)` is what one expects
needs an induction; `NatIsInductive` states it about a set of numbers instead of a
predicate, and follows from the library's `WFMin` (every set of numbers that is not
empty has a least one).  `NothingIsLost`, defined with the proofs, is what `TasksStart` and
`ExitEndsUnblockedApp` come down to: every task is where its status says, a task that was
refused came after the end of the thread, the `WM_QUIT` of a `BkExitApp` is in the queue until
the loop takes it, and the app's thread is in a task that can end unless it waits for itself.
`MessagesAdvance` is for its messages what `QueueAdvances` is for the POSIX queue: each keeps
its place while the thread comes nearer to `GetMessage` or to its end, or moves up; neither a
post nor a timer that is due goes before it.

`NodeHeapProofs` proves, for all sets of nodes and fragments:

- `TypeCorrect`: `Spec => []TypeOK`
- `OnlyParsedFragmentsAreUnowned`: `Spec => []OneOwner`
- `LeaksAreParsedFragments`: `Spec => []OnlyParsedFragmentsLeak`
- `CollectionsSpareWhatIsUsed`: `Spec => NothingInUseIsDeleted`

from the assumptions that fragments are nodes and that `Document` and `None` are no nodes
and not the same.  The conjunction of the first two with `FreshAreAlone` and
`ParsedAreAlone` is inductive: neither a node that was not made yet nor a fragment of
`innerHTML` has a parent or a child, and such a fragment has no wrapper, so that script can
walk to none (`ParsedIsNotReached`).  With it `NothingElseLeaks` is inductive, that every live
node but these fragments is below a root with an owner; `LeaksAreParsed` joins the two to
`OnlyParsedFragmentsLeak`.  The lemmas about `Below` say that it contains its
roots and is closed under children, which is what keeps a node that survives a
collection from hanging from one that did not.  `NothingElseLeaks` speaks of two forests, the
one before a step and the one after, so the lemmas take the parent function as a
parameter: `Under(up, R)` is the least set closed under children in the forest `up`.
`UnderApart` is that nothing is below two roots of different owners.  `MoveReaches` is the
heart of it: if nodes are moved to a new parent that is not below them, what could be
reached still can.  Here the guard against making a node the child of its own descendant
is used, without which a cycle would be below nothing.

`EventTargetProofs` proves, for all targets, types, paths, functions and native listeners:

- `TypeCorrect`: `Spec => []TypeOK`
- `NoDeletedVectorIsRead`: `Spec => []VectorIsThere`
- `NativesAreSoundAlways`: `Spec => []NativesAreSound`, with its parts `NativesAreOwned`
  and `PropertyIsAlive`
- `DispatchesAdvance`: `Spec => [][Advances]_vars`
- `DispatchCallsTheListeners`: `Spec => Implements`, the refinement of `ListenerList`

from four assumptions about the constants: paths are sequences of nodes and not empty,
slots are targets with types, the window is no node, and `None` is none of the others.
The conjunction of these invariants with `Control`, which says where the walk is when it
is in a vector, is inductive.  The types need `VectorIsThere`: what the loop reads is an
entry only if its index is in the vector.  The lemmas `Remaining`, `OneLess` and `OneMore`
say what taking an entry out and appending one do to indices and to who is registered.
In the simulation an entry is due if it is `Pending`, at an index the loop has yet to come
to; `RemoveDue` is the case of a removal, before the index, between it and the end, or
behind the end, and uses that a native listener has one entry (`NativesAreOwned`) to know
that no other entry equal to the removed one is left.  `Advances`, defined with the
proofs, is the part of `DispatchEnds` that needs no fairness: while an event is dispatched
every step of the engine brings the end nearer, in the order of the targets left, the vector
entered and the entries left in it, and no step of a listener puts it off.

Every safety invariant and every refinement that a passing run checks is proved, and so is
`NothingInUseIsDeleted`.  Only model-checked: `RemovedNotFired`, which the run that checks it
refutes, as the other violation runs do theirs, and the liveness properties
(`QueuedTasksStart`, `ExitEndsRun`, `LoadsEnd`, `ContinuedPagesFinish`, `PageIsReported`,
`ScriptsRun`, `RequestsEnd`, `TasksStart`, `ExitEndsUnblockedApp`, `DispatchEnds`), as fairness
and `ENABLED` are out of the prover's reach.  What safety has to say about them is proved where
it says much: `NoWakeupIsLost`, `NoTaskLeft`, `ChecksAreKept`, `SignalsMatchWaits`,
`AppLosesNothing`, `NoRequestEndsInSilence` and `PageNeverStalls` say that nothing is left
waiting for what does not come; `QueueMovesUp`, `ExitIsNear`, `EveryLoadAdvances`,
`TurnsAdvance`, `PagesAdvance`, `RequestsAdvance`, `MessagesMoveUp` and `DispatchesAdvance`
that what comes brings the end nearer.  No module declares a `RECURSIVE` operator; `WinApp`
has one recursive function.

## 5. Findings

1. `base/task_runner.h:28` promises that a task refused with `false` will not run;
   `PosixTaskRunner` posts it and returns `false` (run `refusedtask`).
2. `resource_fetcher.cpp:75` says that only keepalive requests go on after a detach;
   all do (run `detachloads`).
3. `HTTPLoaderTask::Run` deletes a request that `Perform` already deleted (run
   `requestdelete`).
4. `base/task_runner.h:36` promises that a delayed task runs after its delay; the
   Windows runner times a task of another thread for the time since its post, so
   it runs at once (run `windelay`).
5. `event_target.cpp:179` says that listeners removed during a dispatch are not fired, and
   `event_listener_map.cpp:59` that duplicates are refused; each `addEventListener` makes a
   new native listener, so a function added twice is registered twice, and removing it
   removes the later one only (run `removedlistener`).

Seen while modelling, with no run because what follows is undefined or no document
says otherwise: `RequestControllerImpl::CancelWork` releases a request twice
(`request_controller_impl.h:44`); a proxy that was never set is assigned through an
empty `optional` (`request_impl.cpp:54`); the `DocumentFragment` of `innerHTML` is never
deleted (`serialization.cpp:69`; the model has it, and `OnlyParsedFragmentsLeak` says that nothing
else is left behind); `g_platform` is never cleared (`platform.cpp:86`); the
task popped in the turn that sees the exit code is neither run nor deleted
(`task_loop.cpp:94`, the status `"leaked"` of `TaskLoop`), though `sdk/include/bk_app.h:43`
promises cleaning up; `BkExitApp` on the app's thread in background mode waits for itself
(`win_app.cpp:100`), which line 99 asserts nobody does; once a function added twice has been
removed, nothing keeps it from being collected while its first registration is still called
(`duk_event_listener.cpp:100`).

## 6. Plan

In this order, by what matters most to the embedder:

1. *done* `TaskQueue`, `TaskLoop`, `TaskLoopProofs`: everything else is a closure of
   this loop.
2. *done* `HttpLoad`: the only other place with threads.
3. *done* `LoadBarrier`, `PageLoad`: when a document is ready is what a crawler is for.
4. *done* `HttpRequest`, `WinRequest`, `WinRequestProofs`: the request with the most
   threads.
5. *done* `WinApp`: the other implementation of the loop, with delays and exit.
6. *done* `NodeHeap`, `NodeHeapProofs`: who deletes a node.
7. *done* `HttpLoadProofs`, `PageBarrierProofs`, `WinAppProofs`.
8. *done* `ListenerList`, `EventTarget`, `EventTargetProofs`: the container that script
   changes while the engine walks it.
9. *done* `LoadContract`; the refinement of `TaskQueue` by `WinApp`; subtrees in `NodeHeap`.

Left to prove: a measure for the timers of `WinApp`, whose order of firing Windows does not
promise.
Left to model, in this order: `Fetch` (clients and finish observers of a `Resource` that change
during a notification); `Navigation`, once stopping a load does something in the code.

## 7. Not modelled

Pure functions (CSS matching, URL and MIME parsing, string and number formatting,
entity tables) have no state.  The tokenizer and tree builder are Chromium's
unchanged code and appear in `PageLoad` as the script elements they meet.  Duktape
is external.  `src/blinkit/view/*`, `clipboard_impl`, `cookie_jar_impl`,
`scheduler_impl` and the loader tasks for files, resources and errors belong to the
full engine (`projects/win/BlinKit`); none of the crawler builds compiles them, and
they include headers this tree does not have.

*Undefined behaviour* is modelled up to the step that causes it: a request freed by
a cancel, a post to a destroyed loop, a wrapper of a node that was collected, an
iterator into a container that changed (`gc_pool.cpp:25`,
`win_single_thread_task_runner.cpp:87`), calls on an app that is gone.

*Windows*: the ids of its timers, failing `CreateEvent`, `SetTimer` and
`SetWindowsHookEx`, a failing `CreateThread` of the background app (`win_app.cpp:200`), a message loop the program runs by itself with `BkFinalize`, a second
`BkPerformRequest` on one request.  *Apple*: the request and the task runner
forward to the system and keep no state of their own.

*Events*: default handlers, attributes such as `onload`, `once` and passive listeners and
stopped events, none of which script can reach through the binding; events of input and
layout, which a crawler has not.  Nor the deletion of a node's `EventTargetData` with the
node (`~Node`): nodes are deleted by collections, which run outside a dispatch.

*Navigation*: `StopFetching` and `NavigationScheduler` are stubs at this commit, so a
second navigation and an abort would be models of code that does nothing.  *Fetch*:
`Resource`'s clients change inside one call of the main thread; `PageLoad` has the
order in which they hear.

Most of `src/` is Chromium's code (strings, URLs, numeric conversions, Unicode tables,
parser tables) that BlinKit uses as a library, and the full engine's code that no
crawler build compiles; the modules cover what BlinKit itself wrote with state that
outlives a call.
