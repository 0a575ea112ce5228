------------------------------- MODULE WinApp --------------------------------
(***************************************************************************)
(* The app of the Windows build and its message loop: WinApp               *)
(* (blinkit/app/win_app.cpp), the WinSingleThreadTaskRunner it runs tasks  *)
(* with (blinkit/blink_impl/win_single_thread_task_runner.cpp), and the    *)
(* calls of the SDK that start, use and end it (blinkit/app/app_impl.cpp). *)
(*                                                                         *)
(* Tasks travel as thread messages and, when delayed, by way of a timer;   *)
(* BkExitApp posts WM_QUIT among them.  In background mode the app lives   *)
(* on a thread of its own and BkExitApp waits for that thread to end.      *)
(* Windows (external) keeps the messages in order, and makes a timer       *)
(* message only when the queue is empty.                                   *)
(***************************************************************************)
EXTENDS Naturals, Sequences, SequencesExt

CONSTANTS
    App,       \* the thread of the app, where its loop runs
    Others,    \* every other thread
    Tasks,     \* one element for each std::function that is posted
    Quit,      \* WM_QUIT
    MaxDelay   \* bound: the longest delay, in ticks; time is counted up to it

ASSUME AppAssumption == App \notin Others
ASSUME QuitAssumption == Quit \notin Tasks
ASSUME MaxDelayAssumption == MaxDelay \in Nat

Callers == {App} \cup Others

VARIABLES
    mode,         \* BK_APP_MAINTHREAD_MODE or BK_APP_BACKGROUND_MODE
    delay,        \* the delay each task is posted with
    handleStored, \* data.hThread of InitializeBackgroundInstance
    app,          \* the WinApp: "none", "up" or "deleted"
    joinable,     \* m_backgroundThread is not null
    apc,          \* where the app's thread is
    messages,     \* its message queue, oldest first
    status,       \* what became of each task
    age,          \* ticks since a task was posted, up to MaxDelay
    left,         \* ticks until the timer of a task
    exiting,      \* where a caller of BkExitApp is
    started       \* history: the tasks whose function was called, in order

vars == <<mode, delay, handleStored, app, joinable, apc, messages, status, age,
          left, exiting, started>>

fixed == <<mode, delay>>
lifecycle == <<handleStored, app, joinable>>

(***************************************************************************)
(* "outside": before BkRunApp; "starting": the background thread was       *)
(* created; "idle": in GetMessage; "running": in a task; "joining": in     *)
(* BkExitApp, waiting for itself; "leaving": WM_QUIT was taken.            *)
(***************************************************************************)
AppPC == {"unborn", "outside", "starting", "idle", "running", "joining", "leaving",
          "ended"}

Init ==
    /\ mode \in {"main", "background"}
    /\ delay \in [Tasks -> 0..MaxDelay]
    /\ handleStored = FALSE
    /\ app = "none"
    /\ joinable = FALSE
    /\ apc = "unborn"
    /\ messages = <<>>
    /\ status = [t \in Tasks |-> "new"]
    /\ age = [t \in Tasks |-> 0]
    /\ left = [t \in Tasks |-> 0]
    /\ exiting = [c \in Callers |-> "out"]
    /\ started = <<>>

-----------------------------------------------------------------------------
(* BkInitialize. *)

InitializeMain ==
    /\ mode = "main" /\ apc = "unborn"
    /\ app' = "up"
    /\ apc' = "outside"
    /\ UNCHANGED <<fixed, handleStored, joinable, messages, status, age, left,
                   exiting, started>>

(* InitializeBackgroundInstance creates the thread ... *)
CreateBackgroundThread ==
    /\ mode = "background" /\ apc = "unborn"
    /\ apc' = "starting"
    /\ UNCHANGED <<fixed, lifecycle, messages, status, age, left, exiting, started>>

(* ... and stores its handle, which the thread may have read before. *)
StoreHandle ==
    /\ mode = "background" /\ apc # "unborn" /\ ~handleStored
    /\ handleStored' = TRUE
    /\ UNCHANGED <<fixed, app, joinable, apc, messages, status, age, left,
                   exiting, started>>

(* BackgroundThread makes the app with the handle it finds. *)
StartBackgroundApp ==
    /\ apc = "starting"
    /\ app' = "up"
    /\ joinable' = handleStored
    /\ apc' = "idle"
    /\ UNCHANGED <<fixed, handleStored, messages, status, age, left, exiting, started>>

(***************************************************************************)
(* Who may call: the app's thread before its loop and from a task, another *)
(* thread once BkInitialize returned, unless it is inside BkExitApp.       *)
(***************************************************************************)
Calls(c) ==
    /\ exiting[c] \in {"out", "returned"}
    /\ IF c = App
       THEN apc \in {"outside", "running"}
       ELSE app # "none" /\ (mode = "background" => handleStored)

-----------------------------------------------------------------------------
(* WinSingleThreadTaskRunner::PostDelayedTask. *)

(* PostThreadMessage fails when the thread has ended. *)
ThreadGone == mode = "background" /\ apc = "ended"

(* Variant: WM_QUIT is overtaken by what is posted after it. *)
SendFirst(m) == messages' = <<m>> \o messages

SendMessage(m) == messages' = Append(messages, m)

PostMessage(c, t) ==
    /\ Calls(c)
    /\ status[t] = "new"
    /\ c = App => delay[t] = 0
    /\ IF ThreadGone
       THEN status' = [status EXCEPT ![t] = "refused"] /\ UNCHANGED messages
       ELSE status' = [status EXCEPT ![t] = "posted"] /\ SendMessage(t)
    /\ UNCHANGED <<fixed, lifecycle, apc, age, left, exiting, started>>

(* SetTimer; Windows raises a short delay to ten milliseconds, under a tick. *)
SetTimer(t, ticks) ==
    /\ status' = [status EXCEPT ![t] = "timed"]
    /\ left' = [left EXCEPT ![t] = ticks]

(* On the thread of the runner a delay needs no message. *)
PostTimer(t) ==
    /\ Calls(App)
    /\ status[t] = "new"
    /\ delay[t] > 0
    /\ SetTimer(t, delay[t])
    /\ UNCHANGED <<fixed, lifecycle, apc, messages, age, exiting, started>>

-----------------------------------------------------------------------------
(* The message loop: RunAndFinalize with HookProc. *)

(* BkRunApp. *)
RunApp ==
    /\ mode = "main" /\ apc = "outside"
    /\ apc' = "idle"
    /\ UNCHANGED <<fixed, lifecycle, messages, status, age, left, exiting, started>>

Take(m) ==
    /\ apc = "idle"
    /\ messages # <<>>
    /\ Head(messages) = m
    /\ messages' = Tail(messages)

Run(t) ==
    /\ apc' = "running"
    /\ status' = [status EXCEPT ![t] = "running"]
    /\ started' = Append(started, t)

(* ProcessMessage, from the hook: a task without delay runs inside it. *)
ProcessTask(t) ==
    /\ Take(t)
    /\ delay[t] = 0
    /\ Run(t)
    /\ UNCHANGED <<fixed, lifecycle, age, left, exiting>>

(* Variant: timed for the delay on top of the time on its way. *)
DelayAgain(t) ==
    /\ Take(t)
    /\ delay[t] > 0
    /\ SetTimer(t, delay[t] + age[t])
    /\ UNCHANGED <<fixed, lifecycle, apc, age, exiting, started>>

(* Variant: the message of a delayed task is dropped. *)
ForgetDelayed(t) ==
    /\ Take(t)
    /\ delay[t] > 0
    /\ UNCHANGED <<fixed, lifecycle, apc, status, age, left, exiting, started>>

(* A delayed task is timed for as long as it has been on its way. *)
ProcessDelayedTask(t) ==
    /\ Take(t)
    /\ delay[t] > 0
    /\ SetTimer(t, age[t])
    /\ UNCHANGED <<fixed, lifecycle, apc, age, exiting, started>>

(* Variant: the timer is not killed, and fires again. *)
FireAgain(t) ==
    /\ apc = "idle" /\ messages = <<>>
    /\ status[t] \in {"timed", "done"} /\ delay[t] > 0 /\ left[t] = 0
    /\ Run(t)
    /\ UNCHANGED <<fixed, lifecycle, messages, age, left, exiting>>

(* ProcessTimer: WM_TIMER comes when there is no other message. *)
ProcessTimer(t) ==
    /\ apc = "idle" /\ messages = <<>>
    /\ status[t] = "timed" /\ left[t] = 0
    /\ Run(t)
    /\ UNCHANGED <<fixed, lifecycle, messages, age, left, exiting>>

EndTask(t) ==
    /\ apc = "running"
    /\ status[t] = "running"
    /\ apc' = "idle"
    /\ status' = [status EXCEPT ![t] = "done"]
    /\ UNCHANGED <<fixed, lifecycle, messages, age, left, exiting, started>>

(* GetMessage returns FALSE for WM_QUIT. *)
TakeQuit ==
    /\ Take(Quit)
    /\ apc' = "leaving"
    /\ UNCHANGED <<fixed, lifecycle, status, age, left, exiting, started>>

(* `delete this` at the end of RunAndFinalize closes the thread's handle. *)
DeleteApp ==
    /\ apc = "leaving" /\ app = "up"
    /\ app' = "deleted"
    /\ UNCHANGED <<fixed, handleStored, joinable, apc, messages, status, age, left,
                   exiting, started>>

EndThread ==
    /\ apc = "leaving" /\ app = "deleted"
    /\ apc' = "ended"
    /\ UNCHANGED <<fixed, lifecycle, messages, status, age, left, exiting, started>>

(* BkFinalize, by a program that never called BkRunApp. *)
Finalize ==
    /\ mode = "main" /\ apc = "outside"
    /\ app' = "deleted"
    /\ apc' = "ended"
    /\ UNCHANGED <<fixed, handleStored, joinable, messages, status, age, left,
                   exiting, started>>

-----------------------------------------------------------------------------
(* BkExitApp: WinApp::Exit.  Each caller calls it once. *)

(* Variant: WM_QUIT is not sent. *)
ExitSilently(c) ==
    /\ Calls(c)
    /\ exiting[c] = "out" /\ app = "up"
    /\ exiting' = [exiting EXCEPT ![c] = "posted"]
    /\ UNCHANGED <<fixed, lifecycle, apc, messages, status, age, left, started>>

Exit(c) ==
    /\ Calls(c)
    /\ exiting[c] = "out" /\ app = "up"
    /\ SendMessage(Quit)
    /\ IF c # App
       THEN exiting' = [exiting EXCEPT ![c] = "posted"] /\ UNCHANGED apc
       ELSE /\ exiting' = [exiting EXCEPT ![c] = IF joinable THEN "joining" ELSE "returned"]
            /\ apc' = IF joinable THEN "joining" ELSE apc
    /\ UNCHANGED <<fixed, lifecycle, status, age, left, started>>

(***************************************************************************)
(* The caller then looks at m_backgroundThread of an app that may have     *)
(* been deleted: it finds anything, and to wait for it ends at once.       *)
(***************************************************************************)
ReadHandle(c) ==
    /\ exiting[c] = "posted"
    /\ exiting' = [exiting EXCEPT ![c] =
                      IF app = "up" /\ joinable THEN "joining" ELSE "returned"]
    /\ UNCHANGED <<fixed, lifecycle, apc, messages, status, age, left, started>>

(* The wait ends with the thread, or when the app closes the handle. *)
Joined(c) ==
    /\ c # App
    /\ exiting[c] = "joining"
    /\ app = "deleted"
    /\ exiting' = [exiting EXCEPT ![c] = "returned"]
    /\ UNCHANGED <<fixed, lifecycle, apc, messages, status, age, left, started>>

-----------------------------------------------------------------------------
(* A tick of the clock. *)
Older(t) == IF status[t] \in {"posted", "timed"} /\ age[t] < MaxDelay THEN age[t] + 1 ELSE age[t]

Nearer(t) == IF left[t] > 0 THEN left[t] - 1 ELSE 0

Tick ==
    /\ age' = [t \in Tasks |-> Older(t)]
    /\ left' = [t \in Tasks |-> Nearer(t)]
    /\ UNCHANGED <<fixed, lifecycle, apc, messages, status, exiting, started>>

Initialize ==
    InitializeMain \/ CreateBackgroundThread \/ StoreHandle \/ StartBackgroundApp

Loop ==
    \/ \E t \in Tasks : \/ ProcessTask(t) \/ ProcessDelayedTask(t)
                        \/ ProcessTimer(t) \/ EndTask(t)
    \/ TakeQuit \/ DeleteApp \/ EndThread

Post == \E t \in Tasks : PostTimer(t) \/ \E c \in Callers : PostMessage(c, t)

Exits == \E c \in Callers : Exit(c) \/ ReadHandle(c) \/ Joined(c)

Next == Initialize \/ RunApp \/ Finalize \/ Loop \/ Post \/ Exits \/ Tick

Spec == Init /\ [][Next]_vars

(***************************************************************************)
(* The app's thread runs (tasks end), time passes, and so do the threads   *)
(* inside BkInitialize and BkExitApp.  Nothing obliges anyone to post, to  *)
(* call BkRunApp or to exit.                                               *)
(***************************************************************************)
FairSpec ==
    /\ Spec
    /\ WF_vars(Initialize) /\ WF_vars(Loop) /\ WF_vars(Tick)
    /\ \A c \in Others : WF_vars(ReadHandle(c) \/ Joined(c))

-----------------------------------------------------------------------------
(* Properties. *)

(* The type invariant. *)
TypeOK ==
    /\ mode \in {"main", "background"}
    /\ delay \in [Tasks -> 0..MaxDelay]
    /\ handleStored \in BOOLEAN
    /\ app \in {"none", "up", "deleted"}
    /\ joinable \in BOOLEAN
    /\ apc \in AppPC
    /\ messages \in Seq(Tasks \cup {Quit})
    /\ status \in [Tasks -> {"new", "posted", "timed", "running", "done", "refused"}]
    /\ age \in [Tasks -> 0..MaxDelay]
    /\ left \in [Tasks -> 0..MaxDelay]
    /\ exiting \in [Callers -> {"out", "posted", "joining", "returned"}]
    /\ started \in Seq(Tasks)

(***************************************************************************)
(* Whether it came as a message or by way of a timer, from whichever       *)
(* thread, no task is run twice and none inside another                    *)
(* (win_single_thread_task_runner.cpp:70 and 85: a timer that was not      *)
(* killed would fire again).                                               *)
(***************************************************************************)
TasksRunOnce ==
    /\ \A i, j \in 1..Len(started) : started[i] = started[j] => i = j
    /\ \A t, u \in Tasks : status[t] = "running" /\ status[u] = "running" => t = u

(* The members of S in s, in their order. *)
Selected(s, S) ==
    LET chosen[i \in 0..Len(s)] ==
            IF i = 0 THEN <<>>
            ELSE IF s[i] \in S THEN Append(chosen[i - 1], s[i]) ELSE chosen[i - 1]
    IN  chosen[Len(s)]

Undelayed(s) == Selected(s, {t \in Tasks : delay[t] = 0})

Open == apc \notin {"leaving", "ended"}

(* The part of q before the first m, which is all of q if m is not in it. *)
Before(m, q) ==
    IF Contains(q, m) THEN SubSeq(q, 1, SelectInSeq(q, LAMBDA e : e = m) - 1) ELSE q

(* What is on its way before the first WM_QUIT. *)
BeforeQuit == Before(Quit, messages)

(***************************************************************************)
(* For tasks without delay the loop is the TaskQueue that the POSIX loop   *)
(* implements: in order, once each, one at a time, until it closes.  It    *)
(* rests on tasks and WM_QUIT sharing one message queue                    *)
(* (win_single_thread_task_runner.cpp:51, win_app.cpp:96).  Unlike there,  *)
(* what was accepted before the exit still runs.                           *)
(***************************************************************************)
TQ == INSTANCE TaskQueue WITH
    pending <- IF Open THEN Undelayed(BeforeQuit) ELSE <<>>,
    started <- Undelayed(started),
    phase <- IF Open THEN "open" ELSE "closed"

Implements == TQ!Spec

InLoop == apc \in {"idle", "running"}

Blocked == apc = "joining"

(***************************************************************************)
(* Under FairSpec, once the loop was entered, a task that was accepted     *)
(* before WM_QUIT runs, and one that is delayed runs unless WM_QUIT comes  *)
(* first, but not while the app waits for itself.                          *)
(***************************************************************************)
TasksStart ==
    \A t \in Tasks :
        /\ InLoop /\ t \in Range(BeforeQuit) /\ delay[t] = 0
              ~> t \in Range(started) \/ Blocked
        /\ InLoop /\ status[t] \in {"posted", "timed"} /\ delay[t] > 0
              ~> t \in Range(started) \/ Blocked \/ Quit \in Range(messages) \/ ~Open

(***************************************************************************)
(* "BkExitApp exits the message loop which created by BkRunApp or in       *)
(* backgound mode" (bk_app.h:50): under FairSpec the app is gone and the   *)
(* call has returned in the end, once the loop was entered, whichever      *)
(* thread called, unless it is the app's own in background mode, which     *)
(* then waits for itself (win_app.cpp:99).                                 *)
(***************************************************************************)
ExitEndsUnblockedApp ==
    \A c \in Callers :
        exiting[c] # "out" /\ apc # "outside"
            ~> \/ app = "deleted" /\ exiting[c] = "returned"
               \/ Blocked

(***************************************************************************)
(* "Like PostTask, but tries to run the posted task only after |delay_ms|  *)
(* has passed" (base/task_runner.h:36).  ProcessMessage times the task for *)
(* what has passed since it was posted instead of for what is left.        *)
(***************************************************************************)
DelaysKept ==
    [][\A t \in Tasks :
          status[t] # "running" /\ status'[t] = "running" => age[t] >= delay[t]]_vars

=============================================================================
