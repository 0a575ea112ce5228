------------------------------ MODULE TaskLoop -------------------------------
(***************************************************************************)
(* The message loop of the POSIX build: BlinKit::TaskLoop                  *)
(* (blinkit/posix/task_loop.cpp), the PosixTaskRunner that posts to it     *)
(* (blinkit/blink_impl/posix_task_runner.cpp) and the calls of PosixApp    *)
(* and of the SDK that start it, end it and destroy it.                    *)
(*                                                                         *)
(* The critical sections under m_mutex are single steps.  What the code    *)
(* does outside the mutex is a step of its own: the wait on m_cond, the    *)
(* test of m_exitCode after the unlock (a data race with Exit), the run of *)
(* a task, the return of the code, the destruction.                        *)
(***************************************************************************)
EXTENDS Integers, Sequences, Functions

CONSTANTS
    Main,      \* the thread that created the app and runs the loop
    Workers,   \* every other thread that posts: request threads, the embedder's
    Tasks,     \* one element for each std::function that is posted
    Codes,     \* the exit codes BkExitApp is called with
    None

ASSUME MainAssumption == Main \notin Workers
ASSUME NoneAssumption == None \notin Tasks \cup Codes

Callers == {Main} \cup Workers

VARIABLES
    mpc,       \* where the main thread is, in or outside Run
    queue,     \* m_taskQueue, oldest first
    exitCode,  \* m_exitCode, None while it has no value
    sawExit,   \* what m_exitCode said when Run last unlocked m_mutex
    inHand,    \* taskData of Run: the task popped or running
    status,    \* what became of each task
    sleeper,   \* the task a caller is held up with in PostDelayedTask
    result,    \* what Run returned
    posted,    \* history: every task pushed to m_taskQueue, in order
    started,   \* history: every task whose function was called, in order
    refused,   \* history: the tasks PostDelayedTask returned false for
    exitBound  \* history: how many tasks may have started once Exit was called

vars == <<mpc, queue, exitCode, sawExit, inHand, status, sleeper, result,
          posted, started, refused, exitBound>>

MainPC == {"idle", "locking", "waiting", "popped", "running", "returning",
           "returned", "destroyed"}

(***************************************************************************)
(* "new": not posted; "delayed": its delay thread sleeps; "held": its      *)
(* poster sleeps, no thread could be made; "queued"; "inhand": popped;     *)
(* "running"; "done"; "leaked": popped and never deleted; "discarded":     *)
(* deleted unrun by ~TaskLoop; "lost": posted to a loop that is gone.      *)
(***************************************************************************)
Status == {"new", "delayed", "held", "queued", "inhand", "running", "done",
           "leaked", "discarded", "lost"}

Alive == mpc # "destroyed"

Init ==
    /\ mpc = "idle"
    /\ queue = <<>>
    /\ exitCode = None
    /\ sawExit = FALSE
    /\ inHand = None
    /\ status = [t \in Tasks |-> "new"]
    /\ sleeper = [c \in Callers |-> None]
    /\ result = None
    /\ posted = <<>>
    /\ started = <<>>
    /\ refused = {}
    /\ exitBound = 0

(***************************************************************************)
(* A thread makes calls when it is not inside PostDelayedTask.  The main   *)
(* thread does so before it enters Run and from the tasks that Run runs.   *)
(***************************************************************************)
Calls(c) ==
    /\ sleeper[c] = None
    /\ c = Main => mpc \in {"idle", "running"}

(* Variant: the critical section ends without a signal. *)
NoSignal == UNCHANGED mpc

(* pthread_cond_signal: only the main thread ever waits on m_cond. *)
Signal == mpc' = IF mpc = "waiting" THEN "locking" ELSE mpc

(* Variant: the newest task goes to the front. *)
PostInFront(t) ==
    \/ /\ Alive
       /\ queue' = <<t>> \o queue
       /\ posted' = Append(posted, t)
       /\ status' = [status EXCEPT ![t] = "queued"]
       /\ Signal
    \/ /\ ~Alive
       /\ status' = [status EXCEPT ![t] = "lost"]
       /\ UNCHANGED <<mpc, queue, posted>>

(***************************************************************************)
(* The poster GetTaskRunner makes.  It holds the TaskLoop by a raw pointer *)
(* and is called by threads that may outlive the loop.                     *)
(***************************************************************************)
TaskPoster(t) ==
    \/ /\ Alive
       /\ queue' = Append(queue, t)
       /\ posted' = Append(posted, t)
       /\ status' = [status EXCEPT ![t] = "queued"]
       /\ Signal
    \/ /\ ~Alive
       /\ status' = [status EXCEPT ![t] = "lost"]
       /\ UNCHANGED <<mpc, queue, posted>>

-----------------------------------------------------------------------------
(* Posting.  Each task is posted by one call. *)

(* PostDelayedTask with a zero delay, or PostTask. *)
PostNow(c, t) ==
    /\ Calls(c)
    /\ status[t] = "new"
    /\ TaskPoster(t)
    /\ UNCHANGED <<exitCode, sawExit, inHand, sleeper, result, started,
                   refused, exitBound>>

(* PostDelayedTask with a delay: a detached thread sleeps, then posts. *)
PostDelayed(c, t) ==
    /\ Calls(c)
    /\ status[t] = "new"
    /\ status' = [status EXCEPT ![t] = "delayed"]
    /\ UNCHANGED <<mpc, queue, exitCode, sawExit, inHand, sleeper, result,
                   posted, started, refused, exitBound>>

(* The delay thread wakes, in no order known to the posters. *)
DelayThread(t) ==
    /\ status[t] = "delayed"
    /\ TaskPoster(t)
    /\ UNCHANGED <<exitCode, sawExit, inHand, sleeper, result, started,
                   refused, exitBound>>

(* pthread_create failed: `delete delayData` sleeps in the caller's thread. *)
DelayThreadFails(c, t) ==
    /\ Calls(c)
    /\ status[t] = "new"
    /\ status' = [status EXCEPT ![t] = "held"]
    /\ sleeper' = [sleeper EXCEPT ![c] = t]
    /\ UNCHANGED <<mpc, queue, exitCode, sawExit, inHand, result, posted,
                   started, refused, exitBound>>

(* ... and ~DelayData posts the task before PostDelayedTask returns false. *)
RefusePost(c) ==
    LET t == sleeper[c] IN
    /\ t # None
    /\ TaskPoster(t)
    /\ sleeper' = [sleeper EXCEPT ![c] = None]
    /\ refused' = refused \cup {t}
    /\ UNCHANGED <<exitCode, sawExit, inHand, result, started, exitBound>>

-----------------------------------------------------------------------------
(* The loop. *)

(* BkRunApp enters TaskLoop::Run. *)
EnterRun ==
    /\ mpc = "idle"
    /\ Calls(Main)
    /\ mpc' = "locking"
    /\ UNCHANGED <<queue, exitCode, sawExit, inHand, status, sleeper, result,
                   posted, started, refused, exitBound>>

(* Variant: the wait looks at the queue alone. *)
WaitWhileEmpty ==
    /\ mpc = "locking"
    /\ queue = <<>>
    /\ mpc' = "waiting"
    /\ UNCHANGED <<queue, exitCode, sawExit, inHand, status, sleeper, result,
                   posted, started, refused, exitBound>>

(* Lock, find nothing to do, wait: m_mutex is released with the wait. *)
WaitForWork ==
    /\ mpc = "locking"
    /\ queue = <<>> /\ exitCode = None
    /\ mpc' = "waiting"
    /\ UNCHANGED <<queue, exitCode, sawExit, inHand, status, sleeper, result,
                   posted, started, refused, exitBound>>

(* pthread_cond_wait may return without a signal. *)
SpuriousWakeup ==
    /\ mpc = "waiting"
    /\ mpc' = "locking"
    /\ UNCHANGED <<queue, exitCode, sawExit, inHand, status, sleeper, result,
                   posted, started, refused, exitBound>>

(* Variant: `if` instead of `while` around pthread_cond_wait. *)
PopWithoutRecheck ==
    /\ mpc = "locking"
    /\ \/ /\ queue # <<>>
          /\ inHand' = Head(queue)
          /\ queue' = Tail(queue)
          /\ status' = [status EXCEPT ![Head(queue)] = "inhand"]
       \/ /\ queue = <<>>
          /\ UNCHANGED <<inHand, queue, status>>
    /\ sawExit' = (exitCode # None)
    /\ mpc' = "popped"
    /\ UNCHANGED <<exitCode, sleeper, result, posted, started, refused,
                   exitBound>>

(* Variant: m_taskQueue.front() without the pop(). *)
PeekFront ==
    /\ mpc = "locking"
    /\ queue # <<>> \/ exitCode # None
    /\ \/ /\ queue # <<>>
          /\ inHand' = Head(queue)
          /\ status' = [status EXCEPT ![Head(queue)] = "inhand"]
       \/ /\ queue = <<>>
          /\ UNCHANGED <<inHand, status>>
    /\ sawExit' = (exitCode # None)
    /\ mpc' = "popped"
    /\ UNCHANGED <<queue, exitCode, sleeper, result, posted, started, refused,
                   exitBound>>

(* Lock, pop the oldest task if there is one, unlock. *)
PopFront ==
    /\ mpc = "locking"
    /\ queue # <<>> \/ exitCode # None
    /\ \/ /\ queue # <<>>
          /\ inHand' = Head(queue)
          /\ queue' = Tail(queue)
          /\ status' = [status EXCEPT ![Head(queue)] = "inhand"]
       \/ /\ queue = <<>>
          /\ UNCHANGED <<inHand, queue, status>>
    /\ sawExit' = (exitCode # None)
    /\ mpc' = "popped"
    /\ UNCHANGED <<exitCode, sleeper, result, posted, started, refused,
                   exitBound>>

(* Variant: a task in hand is run whatever m_exitCode says. *)
DrainFirst == IF inHand # None THEN {FALSE} ELSE {sawExit, exitCode # None}

(***************************************************************************)
(* m_exitCode is tested after the unlock.  A read that races with Exit may *)
(* still return what the mutex last made visible, so the test yields       *)
(* either that value or the present one.                                   *)
(***************************************************************************)
ExitTests == {sawExit, exitCode # None}

(* The test fails: `delete taskData` calls the task. *)
StartTask ==
    /\ mpc = "popped"
    /\ FALSE \in ExitTests
    /\ inHand # None
    /\ mpc' = "running"
    /\ status' = [status EXCEPT ![inHand] = "running"]
    /\ started' = Append(started, inHand)
    /\ UNCHANGED <<queue, exitCode, sawExit, inHand, sleeper, result, posted,
                   refused, exitBound>>

(* The task returns and ~TaskData is over. *)
FinishTask ==
    /\ mpc = "running"
    /\ sleeper[Main] = None
    /\ mpc' = "locking"
    /\ status' = [status EXCEPT ![inHand] = "done"]
    /\ inHand' = None
    /\ UNCHANGED <<queue, exitCode, sawExit, sleeper, result, posted, started,
                   refused, exitBound>>

(* The test succeeds: Run breaks out and forgets the task it popped. *)
LeaveLoop ==
    /\ mpc = "popped"
    /\ TRUE \in ExitTests
    /\ mpc' = "returning"
    /\ status' = [t \in Tasks |-> IF t = inHand THEN "leaked" ELSE status[t]]
    /\ inHand' = None
    /\ UNCHANGED <<queue, exitCode, sawExit, sleeper, result, posted, started,
                   refused, exitBound>>

(* Variant: has_value() returned in the place of value(). *)
ReturnHasValue ==
    /\ mpc = "returning"
    /\ mpc' = "returned"
    /\ result' = (exitCode # None)
    /\ UNCHANGED <<queue, exitCode, sawExit, inHand, status, sleeper, posted,
                   started, refused, exitBound>>

(* `return m_exitCode.value()`, read again and still without the mutex. *)
ReturnCode ==
    /\ mpc = "returning"
    /\ mpc' = "returned"
    /\ result' = exitCode
    /\ UNCHANGED <<queue, exitCode, sawExit, inHand, status, sleeper, posted,
                   started, refused, exitBound>>

(* BkExitApp, from any thread, as often as it likes: the last code stays. *)
Exit(c, code) ==
    /\ Calls(c)
    /\ Alive
    /\ exitCode' = code
    /\ Signal
    /\ exitBound' = IF exitCode # None THEN exitBound
                    ELSE IF mpc = "popped" THEN Len(started) + 1
                    ELSE Len(started)
    /\ UNCHANGED <<queue, sawExit, inHand, status, sleeper, result, posted,
                   started, refused>>

(***************************************************************************)
(* `delete this` of RunAndFinalize, or BkFinalize by an embedder that runs *)
(* a loop of its own: ~TaskLoop discards what is still queued.             *)
(***************************************************************************)
Destroy ==
    /\ mpc = "returned" \/ (mpc = "idle" /\ Calls(Main))
    /\ mpc' = "destroyed"
    /\ status' = [t \in Tasks |->
                    IF t \in Range(queue) THEN "discarded" ELSE status[t]]
    /\ queue' = <<>>
    /\ UNCHANGED <<exitCode, sawExit, inHand, sleeper, result, posted,
                   started, refused, exitBound>>

-----------------------------------------------------------------------------
Posting ==
    \/ \E c \in Callers, t \in Tasks :
          PostNow(c, t) \/ PostDelayed(c, t) \/ DelayThreadFails(c, t)
    \/ \E t \in Tasks : DelayThread(t)
    \/ \E c \in Callers : RefusePost(c)

Looping ==
    \/ EnterRun \/ WaitForWork \/ SpuriousWakeup \/ PopFront
    \/ StartTask \/ FinishTask \/ LeaveLoop \/ ReturnCode

Next ==
    \/ Posting
    \/ Looping
    \/ \E c \in Callers, code \in Codes : Exit(c, code)
    \/ Destroy

(***************************************************************************)
(* Fairness: a thread that can run does run, nanosleep returns, a task     *)
(* returns.  Nothing is assumed of the embedder: it may never post, never  *)
(* enter Run, never call BkExitApp; nor of spurious wakeups.               *)
(***************************************************************************)
Fairness ==
    /\ WF_vars(WaitForWork)
    /\ WF_vars(PopFront)
    /\ WF_vars(StartTask \/ LeaveLoop)
    /\ WF_vars(FinishTask)
    /\ WF_vars(ReturnCode)
    /\ \A t \in Tasks : WF_vars(DelayThread(t))
    /\ \A c \in Callers : WF_vars(RefusePost(c))

Spec == Init /\ [][Next]_vars

FairSpec == Spec /\ Fairness

-----------------------------------------------------------------------------
(* Properties. *)

(* The type invariant. *)
TypeOK ==
    /\ mpc \in MainPC
    /\ queue \in Seq(Tasks)
    /\ exitCode \in Codes \cup {None}
    /\ sawExit \in BOOLEAN
    /\ inHand \in Tasks \cup {None}
    /\ status \in [Tasks -> Status]
    /\ sleeper \in [Callers -> Tasks \cup {None}]
    /\ result \in Codes \cup {None}
    /\ posted \in Seq(Tasks)
    /\ started \in Seq(Tasks)
    /\ refused \in SUBSET Tasks
    /\ exitBound \in Nat

(* Run can still start a task: it has not yet decided to leave. *)
Open == mpc \notin {"returning", "returned", "destroyed"}

(* What was pushed and did not start, the popped task first. *)
Pending ==
    IF mpc = "popped" /\ inHand # None THEN <<inHand>> \o queue ELSE queue

(***************************************************************************)
(* Tasks start in the order they were pushed, none twice and none skipped: *)
(* as long as the loop is open the pushes are the started tasks followed   *)
(* by the pending ones, and afterwards the started tasks stay the oldest   *)
(* pushes.  It rests on the pop and the push sharing m_mutex and on the    *)
(* order of TaskLoop::Run (task_loop.cpp:83-97).                           *)
(***************************************************************************)
Fifo ==
    /\ Open => posted = started \o Pending
    /\ Len(started) <= Len(posted)
    /\ \A i \in 1..Len(started) : started[i] = posted[i]
    /\ \A i, j \in 1..Len(posted) : posted[i] = posted[j] => i = j

(***************************************************************************)
(* The two ASSERTs of Run (task_loop.cpp:96 and 100) hold although         *)
(* m_exitCode is tested outside the mutex: whenever the test can fail      *)
(* there is a task in hand, and whenever Run is on its way out there is a  *)
(* code to return.                                                         *)
(***************************************************************************)
AssertsHold ==
    /\ mpc = "popped" /\ FALSE \in ExitTests => inHand # None
    /\ mpc \in {"returning", "returned"} => exitCode # None

(***************************************************************************)
(* BkExitApp stops the loop at once: from its call on no task starts but   *)
(* the one Run had already popped, however many are queued and whichever   *)
(* thread called it (the test at task_loop.cpp:93 comes before the delete  *)
(* at line 97 in every turn).                                              *)
(***************************************************************************)
ExitIsPrompt == exitCode # None => Len(started) <= exitBound

(***************************************************************************)
(* The loop implements TaskQueue: the popped task still counts as pending, *)
(* and the loop closes when Run breaks out or when BkFinalize destroys it. *)
(***************************************************************************)
TQ == INSTANCE TaskQueue WITH
        pending <- IF Open THEN Pending ELSE <<>>,
        phase <- IF Open THEN "open" ELSE "closed"

Implements == TQ!Spec

(***************************************************************************)
(* No wakeup is lost: under FairSpec a queued task leaves the queue once   *)
(* Run was entered, by starting unless the app is exiting                  *)
(* (pthread_cond_signal at task_loop.cpp:71 against the wait at 85).       *)
(***************************************************************************)
QueuedTasksStart ==
    \A t \in Tasks :
        status[t] = "queued" /\ mpc # "idle"
            ~> t \in Range(started) \/ exitCode # None

(***************************************************************************)
(* BkExitApp ends Run (bk_app.h:50): under FairSpec, once a code is set    *)
(* and Run is entered, Run returns, were it waiting or busy at the call.   *)
(***************************************************************************)
ExitEndsRun ==
    exitCode # None /\ mpc # "idle" ~> result # None \/ mpc = "destroyed"

(***************************************************************************)
(* PostDelayedTask returns "false if the task definitely will not be run"  *)
(* (base/task_runner.h:28).  PosixTaskRunner breaks this: when it cannot   *)
(* create the delay thread it posts the task and returns false.            *)
(***************************************************************************)
RefusedNeverRuns == \A t \in refused : t \notin Range(started)

=============================================================================
