---------------------------- MODULE WinAppProofs -----------------------------
(***************************************************************************)
(* What WinApp guarantees for any number of threads and tasks and any      *)
(* bound on the delays, proved with TLAPS: its types, that no task is run  *)
(* twice or inside another, by whichever way it came, that none is lost    *)
(* and no message overtaken, and that for tasks without delay the app is a *)
(* TaskQueue, as the POSIX loop is.  The                                   *)
(* mapping selects those tasks from the message queue: what selection      *)
(* does is proved by induction on the length of the queue.                 *)
(***************************************************************************)
EXTENDS WinApp, SequenceTheorems, WellFoundedInduction, TLAPS

-----------------------------------------------------------------------------
(* The inductive invariant. *)

(* A task in the message queue is there once, and was not taken before. *)
Queued ==
    /\ \A i \in 1..Len(messages) : messages[i] \in Tasks => status[messages[i]] = "posted"
    /\ \A i, j \in 1..Len(messages) :
          messages[i] \in Tasks /\ messages[i] = messages[j] => i = j

(* A task that was started is running or done. *)
Started == \A i \in 1..Len(started) : status[started[i]] \in {"running", "done"}

(* The app's thread is in the task that is running. *)
RunsOnAppThread ==
    \A t \in Tasks : status[t] = "running" => apc \in {"running", "joining"}

(* A timer is only set for a task with a delay. *)
TimedIsDelayed == \A t \in Tasks : status[t] = "timed" => delay[t] > 0

IInv ==
    /\ TypeOK
    /\ Queued
    /\ Started
    /\ TimedIsDelayed
    /\ RunsOnAppThread
    /\ TasksRunOnce

-----------------------------------------------------------------------------
(* Types. *)

(* A message more, a message less. *)
LEMMA Messages ==
    ASSUME NEW S, NEW q \in Seq(S)
    PROVE  /\ \A m \in S : Append(q, m) \in Seq(S)
           /\ q # <<>> => Tail(q) \in Seq(S)
BY AppendProperties, HeadTailProperties

(* One step per group of actions. *)
LEMMA TypesKept == TypeOK /\ [Next]_vars => TypeOK'
<1> SUFFICES ASSUME TypeOK, [Next]_vars PROVE TypeOK'
  OBVIOUS
<1> USE DEF fixed, lifecycle, AppPC
<1>1. CASE Initialize
  BY <1>1 DEF TypeOK, Initialize, InitializeMain, CreateBackgroundThread, StoreHandle,
     StartBackgroundApp
<1>2. CASE RunApp \/ Finalize
  BY <1>2 DEF TypeOK, RunApp, Finalize
<1>3. ASSUME NEW t \in Tasks, NEW c \in Callers, PostMessage(c, t) PROVE TypeOK'
  <2>1. messages \in Seq(Tasks \cup {Quit}) /\ t \in Tasks \cup {Quit} BY DEF TypeOK
  <2>2. Append(messages, t) \in Seq(Tasks \cup {Quit}) BY <2>1, Messages
  <2>3. messages' = messages \/ messages' = Append(messages, t)
    BY <1>3 DEF PostMessage, SendMessage
  <2>4. messages' \in Seq(Tasks \cup {Quit}) BY <2>1, <2>2, <2>3
  <2> QED BY <1>3, <2>4 DEF TypeOK, PostMessage
<1>4. ASSUME NEW t \in Tasks, PostTimer(t) PROVE TypeOK'
  BY <1>4, MaxDelayAssumption DEF TypeOK, PostTimer, SetTimer
<1>5. ASSUME NEW t \in Tasks, ProcessTask(t) \/ ProcessDelayedTask(t) PROVE TypeOK'
  <2>1. messages' \in Seq(Tasks \cup {Quit}) /\ Append(started, t) \in Seq(Tasks)
    BY <1>5, Messages
       DEF TypeOK, ProcessTask, ProcessDelayedTask, Take
  <2> QED BY <1>5, <2>1 DEF TypeOK, ProcessTask, ProcessDelayedTask, Run, SetTimer
<1>6. ASSUME NEW t \in Tasks, ProcessTimer(t) \/ EndTask(t) PROVE TypeOK'
  <2>1. Append(started, t) \in Seq(Tasks) BY Messages DEF TypeOK
  <2> QED BY <1>6, <2>1 DEF TypeOK, ProcessTimer, EndTask, Run
<1>7. CASE TakeQuit
  <2>1. messages' \in Seq(Tasks \cup {Quit})
    BY <1>7, Messages DEF TypeOK, TakeQuit, Take
  <2> QED BY <1>7, <2>1 DEF TypeOK, TakeQuit
<1>8. CASE DeleteApp \/ EndThread
  BY <1>8 DEF TypeOK, DeleteApp, EndThread
<1>9. ASSUME NEW c \in Callers, Exit(c) PROVE TypeOK'
  <2>1. messages' \in Seq(Tasks \cup {Quit})
    BY <1>9, Messages DEF TypeOK, Exit, SendMessage
  <2> QED BY <1>9, <2>1 DEF TypeOK, Exit
<1>10. ASSUME NEW c \in Callers, ReadHandle(c) \/ Joined(c) PROVE TypeOK'
  BY <1>10 DEF TypeOK, ReadHandle, Joined
<1>11. CASE Tick
  BY <1>11, MaxDelayAssumption DEF TypeOK, Tick, Older, Nearer
<1>12. CASE UNCHANGED vars
  BY <1>12 DEF TypeOK, vars
<1> QED
  BY <1>1, <1>2, <1>3, <1>4, <1>5, <1>6, <1>7, <1>8, <1>9, <1>10, <1>11, <1>12
     DEF Next, Post, Loop, Exits

-----------------------------------------------------------------------------
(* Messages. *)

(* A message that is not a queued task is posted. *)
LEMMA PostKeepsOrder ==
    ASSUME TypeOK, Queued, NEW m \in Tasks \cup {Quit}, SendMessage(m),
           m \in Tasks => status[m] = "new" /\ status' = [status EXCEPT ![m] = "posted"],
           m \notin Tasks => status' = status
    PROVE  Queued'
<1>1. /\ Len(messages') = Len(messages) + 1 /\ Len(messages) \in Nat
      /\ \A i \in 1..Len(messages) : messages'[i] = messages[i]
      /\ messages'[Len(messages) + 1] = m
      /\ \A i \in 1..Len(messages) : messages[i] \in Tasks \cup {Quit}
  BY AppendProperties, LenProperties, ElementOfSeq DEF TypeOK, SendMessage
<1>2. \A i \in 1..Len(messages) : messages[i] \in Tasks => messages[i] # m
  BY DEF Queued
<1>3. ASSUME NEW i \in 1..Len(messages'), messages'[i] \in Tasks
      PROVE  status'[messages'[i]] = "posted"
  <2>1. CASE i \in 1..Len(messages)
    <3>1. /\ messages'[i] = messages[i] /\ messages[i] \in Tasks /\ messages[i] # m
          /\ status[messages[i]] = "posted"
      BY <1>1, <1>2, <1>3, <2>1 DEF Queued
    <3> QED BY <3>1 DEF TypeOK
  <2>2. CASE i = Len(messages) + 1 BY <1>1, <1>3, <2>2 DEF TypeOK
  <2> QED BY <1>1, <2>1, <2>2
<1>4. ASSUME NEW i \in 1..Len(messages'), NEW j \in 1..Len(messages'),
             messages'[i] \in Tasks, messages'[i] = messages'[j]
      PROVE  i = j
  BY <1>1, <1>2, <1>4 DEF Queued
<1> QED BY <1>3, <1>4 DEF Queued

(* The first message is taken: it is not in the queue any more. *)
LEMMA TakeKeepsOrder ==
    ASSUME TypeOK, Queued, NEW m, Take(m)
    PROVE  /\ \A i \in 1..Len(messages') : /\ messages'[i] \in Tasks => messages'[i] # m
                                           /\ messages'[i] \in Tasks => status[messages'[i]] = "posted"
           /\ \A i, j \in 1..Len(messages') :
                 messages'[i] \in Tasks /\ messages'[i] = messages'[j] => i = j
           /\ m \in Tasks => status[m] = "posted"
<1>1. /\ Len(messages') = Len(messages) - 1 /\ Len(messages) \in Nat /\ Len(messages) >= 1
      /\ \A i \in 1..Len(messages') : messages'[i] = messages[i + 1]
      /\ m = messages[1]
  BY HeadTailProperties, LenProperties, EmptySeq DEF TypeOK, Take
<1>2. ASSUME NEW i \in 1..Len(messages')
      PROVE  i + 1 \in 1..Len(messages) /\ i + 1 # 1 /\ messages'[i] = messages[i + 1]
  BY <1>1
<1>3. ASSUME NEW i \in 1..Len(messages'), NEW j \in 1..Len(messages'),
             messages'[i] \in Tasks, messages'[i] = messages'[j]
      PROVE  i = j
  <2>1. i + 1 = j + 1 BY <1>2, <1>3 DEF Queued
  <2> QED BY <2>1
<1>4. 1 \in 1..Len(messages) BY <1>1
<1>5. ASSUME NEW i \in 1..Len(messages'), messages'[i] \in Tasks
      PROVE  messages'[i] # m /\ status[messages'[i]] = "posted"
  <2>1. i + 1 \in 1..Len(messages) /\ i + 1 # 1 /\ messages'[i] = messages[i + 1]
    BY <1>2
  <2>2. messages[i + 1] \in Tasks => status[messages[i + 1]] = "posted"
    BY ONLY <2>1, Queued DEF Queued
  <2>3. messages[i + 1] \in Tasks => messages[i + 1] # messages[1]
    BY ONLY <1>4, <2>1, Queued DEF Queued
  <2> QED BY ONLY <1>1, <1>5, <2>1, <2>2, <2>3
<1> QED BY <1>1, <1>3, <1>4, <1>5 DEF Queued

-----------------------------------------------------------------------------
(* The invariant is kept. *)

(* A task that is not started becomes the one that runs. *)
LEMMA RunKeeps ==
    ASSUME IInv, NEW t \in Tasks, apc = "idle", Run(t), status[t] \in {"posted", "timed"}
    PROVE  Started' /\ RunsOnAppThread' /\ TasksRunOnce'
<1>1. TypeOK /\ \A u \in Tasks : status[u] # "running"
  BY DEF IInv, RunsOnAppThread
<1>2. /\ Len(started') = Len(started) + 1 /\ Len(started) \in Nat
      /\ \A i \in 1..Len(started) : started'[i] = started[i]
      /\ started'[Len(started) + 1] = t
      /\ \A i \in 1..Len(started) : started[i] \in Tasks
  BY <1>1, AppendProperties, LenProperties, ElementOfSeq DEF TypeOK, Run
<1>3. \A i \in 1..Len(started) : started[i] # t BY DEF IInv, Started
<1>4. \A u \in Tasks : status'[u] = IF u = t THEN "running" ELSE status[u]
  BY <1>1 DEF TypeOK, Run
<1>5. ASSUME NEW i \in 1..Len(started')
      PROVE  status'[started'[i]] \in {"running", "done"}
  <2>1. CASE i \in 1..Len(started) BY <1>2, <1>4, <2>1 DEF IInv, Started
  <2>2. CASE i = Len(started) + 1 BY <1>2, <1>4, <2>2
  <2> QED BY <1>2, <2>1, <2>2
<1>6. \A i, j \in 1..Len(started') : started'[i] = started'[j] => i = j
  BY <1>2, <1>3 DEF IInv, TasksRunOnce
<1>7. RunsOnAppThread' BY DEF RunsOnAppThread, Run
<1>8. \A u, v \in Tasks : status'[u] = "running" /\ status'[v] = "running" => u = v
  BY <1>1, <1>4
<1> QED BY <1>5, <1>6, <1>7, <1>8 DEF Started, TasksRunOnce

(* One task changes its state, and is neither started nor running after. *)
LEMMA OtherStep ==
    ASSUME IInv, UNCHANGED <<started, apc>>, NEW t \in Tasks,
           NEW v \in {"posted", "timed", "refused"}, status[t] \in {"new", "posted"},
           status' = [status EXCEPT ![t] = v]
    PROVE  Started' /\ RunsOnAppThread' /\ TasksRunOnce'
<1>1. TypeOK /\ \A i \in 1..Len(started) : started[i] \in Tasks /\ started[i] # t
  BY ElementOfSeq DEF IInv, TypeOK, Started
<1>2. \A u \in Tasks : status'[u] = IF u = t THEN v ELSE status[u]
  BY <1>1 DEF TypeOK
<1> QED BY <1>1, <1>2 DEF IInv, Started, RunsOnAppThread, TasksRunOnce

(* Tasks and messages are left alone, and so is a task that runs. *)
LEMMA QuietStep ==
    ASSUME IInv, UNCHANGED <<messages, status, started>>,
           apc' = apc \/ apc \notin {"running", "joining"} \/ apc' = "joining"
    PROVE  Queued' /\ Started' /\ RunsOnAppThread' /\ TasksRunOnce'
BY DEF IInv, Queued, Started, RunsOnAppThread, TasksRunOnce

(* A timer is set for a task whose delay was looked at before, and the delay *)
(* of a task does not change.                                                *)
LEMMA TimersKept == IInv /\ [Next]_vars => TimedIsDelayed'
<1> SUFFICES ASSUME IInv, [Next]_vars PROVE TimedIsDelayed'
  OBVIOUS
<1> USE DEF fixed
<1>1. TypeOK BY DEF IInv
<1>2. delay' = delay
  BY DEF vars, Next, Initialize, Loop, Post, Exits, InitializeMain,
     CreateBackgroundThread, StoreHandle, StartBackgroundApp, RunApp, Finalize,
     ProcessTask, ProcessDelayedTask, ProcessTimer, EndTask, TakeQuit, DeleteApp,
     EndThread, PostTimer, PostMessage, Exit, ReadHandle, Joined, Tick
<1>3. ASSUME NEW t \in Tasks,
             \/ status' = [status EXCEPT ![t] = "posted"]
             \/ status' = [status EXCEPT ![t] = "refused"]
             \/ status' = [status EXCEPT ![t] = "running"]
             \/ status' = [status EXCEPT ![t] = "done"]
             \/ status' = [status EXCEPT ![t] = "timed"] /\ delay[t] > 0
      PROVE  TimedIsDelayed'
  BY <1>1, <1>2, <1>3 DEF IInv, TypeOK, TimedIsDelayed
<1>4. CASE UNCHANGED status BY <1>2, <1>4 DEF IInv, TimedIsDelayed
<1>5. CASE Initialize \/ RunApp \/ Finalize \/ Exits \/ Tick \/ UNCHANGED vars
  BY <1>4, <1>5 DEF vars, Initialize, Exits, InitializeMain, CreateBackgroundThread,
     StoreHandle, StartBackgroundApp, RunApp, Finalize, Exit, ReadHandle, Joined, Tick
<1>6. CASE Loop
  BY <1>3, <1>4, <1>6 DEF Loop, ProcessTask, ProcessDelayedTask, ProcessTimer, EndTask,
     TakeQuit, DeleteApp, EndThread, Run, SetTimer
<1>7. CASE Post
  BY <1>3, <1>7 DEF Post, PostTimer, PostMessage, SetTimer
<1> QED BY <1>5, <1>6, <1>7 DEF Next

(* One step per action. *)
LEMMA Inductive == IInv /\ [Next]_vars => IInv'
<1> SUFFICES ASSUME IInv, [Next]_vars PROVE IInv'
  OBVIOUS
<1> USE DEF fixed, lifecycle
<1>1. TypeOK /\ TypeOK' BY TypesKept DEF IInv
<1> DEFINE Rest == Queued' /\ Started' /\ RunsOnAppThread' /\ TasksRunOnce'
<1> SUFFICES Rest BY <1>1, TimersKept DEF IInv
<1>2. CASE Initialize \/ RunApp \/ Finalize
  BY <1>2, QuietStep DEF Initialize, InitializeMain, CreateBackgroundThread,
     StoreHandle, StartBackgroundApp, RunApp, Finalize
<1>3. ASSUME NEW t \in Tasks, NEW c \in Callers, PostMessage(c, t) PROVE Rest
  <2>1. Started' /\ RunsOnAppThread' /\ TasksRunOnce'
    BY <1>3, OtherStep DEF PostMessage
  <2>2. CASE ThreadGone
    <3>1. UNCHANGED messages /\ status[t] = "new" /\ status' = [status EXCEPT ![t] = "refused"]
      BY <1>3, <2>2 DEF PostMessage
    <3> QED BY <1>1, <2>1, <3>1 DEF IInv, Queued, TypeOK
  <2>3. CASE ~ThreadGone
    <3>1. Queued'
      BY <1>1, <1>3, <2>3, PostKeepsOrder DEF PostMessage, IInv
    <3> QED BY <2>1, <3>1
  <2> QED BY <2>2, <2>3
<1>4. ASSUME NEW t \in Tasks, PostTimer(t) PROVE Rest
  <2>1. /\ UNCHANGED <<messages, started, apc>> /\ status[t] = "new"
        /\ status' = [status EXCEPT ![t] = "timed"]
    BY <1>4 DEF PostTimer, SetTimer
  <2>2. Queued' BY <1>1, <2>1 DEF IInv, Queued, TypeOK
  <2> QED BY <2>1, <2>2, OtherStep
<1>5. ASSUME NEW t \in Tasks, ProcessTask(t) PROVE Rest
  <2>1. Take(t) /\ Run(t) /\ apc = "idle" BY <1>5 DEF ProcessTask, Take
  <2>2. status[t] = "posted" /\ Queued'
    BY <1>1, <2>1, TakeKeepsOrder DEF IInv, Queued, Run, TypeOK
  <2> QED BY <2>1, <2>2, RunKeeps
<1>6. ASSUME NEW t \in Tasks, ProcessDelayedTask(t) PROVE Rest
  <2>1. /\ Take(t) /\ UNCHANGED <<started, apc>>
        /\ status' = [status EXCEPT ![t] = "timed"]
    BY <1>6 DEF ProcessDelayedTask, SetTimer
  <2>2. /\ \A i \in 1..Len(messages') :
              messages'[i] \in Tasks => messages'[i] # t /\ status[messages'[i]] = "posted"
        /\ \A i, j \in 1..Len(messages') :
              messages'[i] \in Tasks /\ messages'[i] = messages'[j] => i = j
        /\ status[t] = "posted"
    BY <1>1, <2>1, TakeKeepsOrder DEF IInv
  <2>3. \A u \in Tasks : u # t => status'[u] = status[u] BY <1>1, <2>1 DEF TypeOK
  <2>4. Queued' BY <2>2, <2>3 DEF Queued
  <2> QED BY <2>1, <2>2, <2>4, OtherStep
<1>7. ASSUME NEW t \in Tasks, ProcessTimer(t) PROVE Rest
  <2>1. Run(t) /\ apc = "idle" /\ messages = <<>> /\ messages' = <<>> /\ status[t] = "timed"
    BY <1>7 DEF ProcessTimer
  <2>2. Queued' BY <2>1 DEF Queued
  <2> QED BY <2>1, <2>2, RunKeeps
<1>8. ASSUME NEW t \in Tasks, EndTask(t) PROVE Rest
  <2>1. /\ status[t] = "running" /\ status' = [status EXCEPT ![t] = "done"]
        /\ apc' = "idle" /\ UNCHANGED <<messages, started>>
    BY <1>8 DEF EndTask
  <2>2. \A u \in Tasks : status'[u] = IF u = t THEN "done" ELSE status[u]
    BY <1>1, <2>1 DEF TypeOK
  <2>3. \A i \in 1..Len(started) : started[i] \in Tasks
    BY <1>1, ElementOfSeq DEF TypeOK
  <2>4. Queued' BY <2>1, <2>2 DEF IInv, Queued
  <2>5. Started' BY <2>1, <2>2, <2>3 DEF IInv, Started
  <2>6. RunsOnAppThread' /\ TasksRunOnce'
    BY <2>1, <2>2 DEF IInv, RunsOnAppThread, TasksRunOnce
  <2> QED BY <2>4, <2>5, <2>6
<1>9. CASE TakeQuit
  <2>1. Take(Quit) /\ UNCHANGED <<status, started>> /\ apc = "idle"
    BY <1>9 DEF TakeQuit, Take
  <2>2. Queued' BY <1>1, <2>1, TakeKeepsOrder DEF IInv, Queued
  <2>3. Started' /\ RunsOnAppThread' /\ TasksRunOnce'
    BY <2>1 DEF IInv, Started, RunsOnAppThread, TasksRunOnce
  <2> QED BY <2>2, <2>3
<1>10. CASE DeleteApp \/ EndThread
  BY <1>10, QuietStep DEF DeleteApp, EndThread
<1>11. ASSUME NEW c \in Callers, Exit(c) PROVE Rest
  <2>1. /\ SendMessage(Quit) /\ UNCHANGED <<status, started>>
        /\ apc' = apc \/ apc' = "joining"
    BY <1>11 DEF Exit
  <2>2. Queued' BY <1>1, <2>1, PostKeepsOrder, QuitAssumption DEF IInv
  <2>3. Started' /\ RunsOnAppThread' /\ TasksRunOnce'
    BY <2>1 DEF IInv, Started, RunsOnAppThread, TasksRunOnce
  <2> QED BY <2>2, <2>3
<1>12. ASSUME NEW c \in Callers, ReadHandle(c) \/ Joined(c) PROVE Rest
  BY <1>12, QuietStep DEF ReadHandle, Joined
<1>13. CASE Tick BY <1>13, QuietStep DEF Tick
<1>14. CASE UNCHANGED vars BY <1>14, QuietStep DEF vars
<1> QED
  BY <1>2, <1>3, <1>4, <1>5, <1>6, <1>7, <1>8, <1>9, <1>10, <1>11, <1>12, <1>13,
     <1>14 DEF Next, Post, Loop, Exits

(***************************************************************************)
(* The queue and the states of the tasks agree at every moment             *)
(* (WinSingleThreadTaskRunner::ProcessMessage and ProcessTimer).           *)
(***************************************************************************)
THEOREM AppInvariant == Spec => []IInv
<1>1. Init => TypeOK
  <2>1. <<>> \in Seq(Tasks \cup {Quit}) /\ <<>> \in Seq(Tasks) BY EmptySeq
  <2>2. 0 \in 0..MaxDelay BY MaxDelayAssumption
  <2> QED BY <2>1, <2>2 DEF Init, TypeOK, AppPC
<1>2. Init => Queued /\ Started /\ TimedIsDelayed /\ RunsOnAppThread /\ TasksRunOnce
  BY DEF Init, Queued, Started, TimedIsDelayed, RunsOnAppThread, TasksRunOnce
<1> QED BY <1>1, <1>2, Inductive, PTL DEF Spec, IInv

-----------------------------------------------------------------------------
(* Induction, over sets: the theorems of the library that take a predicate  *)
(* cannot be instantiated by the provers, those about a set can.            *)

(* A set of natural numbers that is not empty has a least element. *)
LEMMA LeastNat ==
    ASSUME NEW N \in SUBSET Nat, N # {}
    PROVE  \E n \in N : \A m \in N : n <= m
<1>1. PICK n \in N : \A m \in N : <<m, n>> \notin OpToRel(<, Nat)
  BY WFMin, NatLessThanWellFounded
<1>2. ASSUME NEW m \in N PROVE n <= m
  <2>1. m \in Nat /\ n \in Nat OBVIOUS
  <2>2. m < n => <<m, n>> \in OpToRel(<, Nat) BY <2>1 DEF OpToRel
  <2>3. ~(m < n) BY <1>1, <2>2, Zenon
  <2> QED BY <2>1, <2>3
<1> QED BY <1>2

(* A set that holds 0 and n + 1 with every n holds all of Nat. *)
LEMMA NatIsInductive ==
    ASSUME NEW S, 0 \in S, \A n \in Nat : n \in S => n + 1 \in S
    PROVE  Nat \subseteq S
<1>1. SUFFICES ASSUME Nat \ S # {} PROVE FALSE
  OBVIOUS
<1>2. PICK x \in Nat \ S : \A y \in Nat \ S : x <= y
  <2>1. Nat \ S \in SUBSET Nat OBVIOUS
  <2> QED BY <1>1, <2>1, LeastNat
<1>3. x # 0 /\ x - 1 \in Nat /\ (x - 1) + 1 = x
  BY <1>2
<1>4. x - 1 \in Nat \ S
  BY <1>2, <1>3
<1> QED BY <1>2, <1>3, <1>4

-----------------------------------------------------------------------------
(* Selecting from a sequence. *)

(* c is the function Selected defines, up to the n-th element of s. *)
Selects(c, s, S, n) ==
    c = [i \in 0..n |->
            IF i = 0 THEN <<>>
            ELSE IF s[i] \in S THEN Append(c[i - 1], s[i]) ELSE c[i - 1]]

LEMMA SelectsSteps ==
    ASSUME NEW c, NEW s, NEW S, NEW n \in Nat, Selects(c, s, S, n)
    PROVE  /\ c[0] = <<>>
           /\ \A i \in 1..n :
                 c[i] = IF s[i] \in S THEN Append(c[i - 1], s[i]) ELSE c[i - 1]
<1>1. 0 \in 0..n /\ \A i \in 1..n : i \in 0..n /\ i # 0
  OBVIOUS
<1>2. \A i \in 0..n :
         c[i] = IF i = 0 THEN <<>>
                ELSE IF s[i] \in S THEN Append(c[i - 1], s[i]) ELSE c[i - 1]
  BY DEF Selects
<1> QED BY <1>1, <1>2

(* There is such a function, by induction on n. *)
LEMMA SelectsExists ==
    ASSUME NEW s, NEW S, NEW k \in Nat
    PROVE  \E c : Selects(c, s, S, k)
<1> DEFINE Defined == {n \in Nat : \E c : Selects(c, s, S, n)}
<1>1. 0 \in Defined
  <2>1. Selects([i \in 0..0 |-> <<>>], s, S, 0) BY DEF Selects
  <2> QED BY <2>1
<1>2. ASSUME NEW n \in Nat, n \in Defined PROVE n + 1 \in Defined
  <2>1. PICK c : Selects(c, s, S, n) BY <1>2
  <2> DEFINE next == IF s[n + 1] \in S THEN Append(c[n], s[n + 1]) ELSE c[n]
             d == [i \in 0..(n + 1) |-> IF i <= n THEN c[i] ELSE next]
  <2>2. ASSUME NEW i \in 0..(n + 1)
        PROVE  d[i] = IF i = 0 THEN <<>>
                      ELSE IF s[i] \in S THEN Append(d[i - 1], s[i]) ELSE d[i - 1]
    <3>1. CASE i = 0 BY <2>1, <3>1, SelectsSteps
    <3>2. CASE i \in 1..n
      <4>1. i - 1 \in 0..(n + 1) /\ i - 1 <= n /\ i <= n BY <3>2
      <4>2. d[i] = c[i] /\ d[i - 1] = c[i - 1] BY <4>1
      <4> QED BY <2>1, <3>2, <4>2, SelectsSteps
    <3>3. CASE i = n + 1 BY <3>3
    <3> QED BY <3>1, <3>2, <3>3
  <2>3. d = [i \in 0..(n + 1) |-> d[i]] OBVIOUS
  <2> HIDE DEF d
  <2>4. Selects(d, s, S, n + 1) BY <2>2, <2>3 DEF Selects
  <2> QED BY <2>4
<1> QED BY <1>1, <1>2, NatIsInductive

LEMMA SelectedIs ==
    ASSUME NEW s, NEW S, Len(s) \in Nat
    PROVE  \E c : Selects(c, s, S, Len(s)) /\ Selected(s, S) = c[Len(s)]
<1> DEFINE c == CHOOSE c : Selects(c, s, S, Len(s))
<1>1. Selects(c, s, S, Len(s)) BY SelectsExists
<1>2. Selected(s, S) = c[Len(s)] BY DEF Selected, Selects
<1> QED BY <1>1, <1>2

(* It depends on no more of s than it has come to. *)
LEMMA SelectsAgree ==
    ASSUME NEW c, NEW d, NEW s, NEW t, NEW S, NEW m \in Nat, NEW n \in Nat, m <= n,
           Selects(c, s, S, m), Selects(d, t, S, n), \A i \in 1..m : s[i] = t[i]
    PROVE  c[m] = d[m]
<1> DEFINE Agree == {k \in Nat : k <= m => c[k] = d[k]}
<1>1. 0 \in Agree BY SelectsSteps
<1>2. ASSUME NEW k \in Nat, k \in Agree PROVE k + 1 \in Agree
  <2>1. SUFFICES ASSUME k + 1 <= m PROVE c[k + 1] = d[k + 1]
    OBVIOUS
  <2>2. /\ k + 1 \in 1..m /\ k + 1 \in 1..n /\ (k + 1) - 1 = k
        /\ c[k] = d[k] /\ s[k + 1] = t[k + 1]
    BY <1>2, <2>1
  <2>3. c[k + 1] = IF s[k + 1] \in S THEN Append(c[k], s[k + 1]) ELSE c[k]
    BY <2>2, SelectsSteps
  <2>4. d[k + 1] = IF t[k + 1] \in S THEN Append(d[k], t[k + 1]) ELSE d[k]
    BY <2>2, SelectsSteps
  <2> QED BY <2>2, <2>3, <2>4
<1>3. Nat \subseteq Agree BY <1>1, <1>2, NatIsInductive
<1> QED BY <1>3

(* Nothing is selected from nothing. *)
LEMMA SelectedFromEmpty ==
    ASSUME NEW S
    PROVE  Selected(<<>>, S) = <<>>
<1>1. Len(<<>>) = 0 OBVIOUS
<1>2. PICK c : Selects(c, <<>>, S, Len(<<>>)) /\ Selected(<<>>, S) = c[Len(<<>>)]
  BY <1>1, SelectedIs
<1> QED BY <1>1, <1>2, SelectsSteps

(* What is appended is selected last, if at all. *)
LEMMA SelectedFromAppend ==
    ASSUME NEW T, NEW s \in Seq(T), NEW x \in T, NEW S
    PROVE  Selected(Append(s, x), S) =
              IF x \in S THEN Append(Selected(s, S), x) ELSE Selected(s, S)
<1> DEFINE t == Append(s, x)
           n == Len(s)
<1>1. /\ n \in Nat /\ Len(t) = n + 1 /\ t[n + 1] = x
      /\ \A i \in 1..n : s[i] = t[i]
  BY AppendProperties, LenProperties
<1>2. PICK c : Selects(c, s, S, n) /\ Selected(s, S) = c[n]
  BY <1>1, SelectedIs
<1> HIDE DEF t, n
<1>3. PICK d : Selects(d, t, S, n + 1) /\ Selected(t, S) = d[n + 1]
  BY <1>1, SelectedIs
<1>4. c[n] = d[n]
  <2>1. n + 1 \in Nat /\ n <= n + 1 BY <1>1
  <2> QED BY <1>1, <1>2, <1>3, <2>1, SelectsAgree
<1>5. n + 1 \in 1..(n + 1) /\ (n + 1) - 1 = n
  BY <1>1
<1>6. d[n + 1] = IF t[n + 1] \in S THEN Append(d[n], t[n + 1]) ELSE d[n]
  BY <1>1, <1>3, <1>5, SelectsSteps
<1>7. Selected(t, S) = IF x \in S THEN Append(Selected(s, S), x) ELSE Selected(s, S)
  BY <1>1, <1>2, <1>3, <1>4, <1>6
<1> QED BY <1>7 DEF t

(* What is selected is in the sequence and in the set. *)
LEMMA SelectedType ==
    ASSUME NEW T, NEW s \in Seq(T), NEW S
    PROVE  Selected(s, S) \in Seq(T \cap S)
<1> DEFINE n == Len(s)
<1>1. n \in Nat /\ \A i \in 1..n : s[i] \in T
  BY LenProperties, ElementOfSeq
<1>2. PICK c : Selects(c, s, S, n) /\ Selected(s, S) = c[n]
  BY <1>1, SelectedIs
<1> HIDE DEF n
<1>3. /\ c[0] = <<>>
      /\ \A i \in 1..n : c[i] = IF s[i] \in S THEN Append(c[i - 1], s[i]) ELSE c[i - 1]
  BY <1>1, <1>2, SelectsSteps
<1> DEFINE Typed == {k \in Nat : k <= n => c[k] \in Seq(T \cap S)}
<1>4. 0 \in Typed
  <2>1. <<>> \in Seq(T \cap S) BY EmptySeq
  <2> QED BY <1>3, <2>1
<1>5. ASSUME NEW k \in Nat, k \in Typed PROVE k + 1 \in Typed
  <2>1. SUFFICES ASSUME k + 1 <= n PROVE c[k + 1] \in Seq(T \cap S)
    OBVIOUS
  <2>2. k + 1 \in 1..n /\ (k + 1) - 1 = k /\ c[k] \in Seq(T \cap S)
    BY <1>1, <1>5, <2>1
  <2>3. c[k + 1] = IF s[k + 1] \in S THEN Append(c[k], s[k + 1]) ELSE c[k]
    BY <1>3, <2>2
  <2>4. s[k + 1] \in T BY <1>1, <2>2
  <2>5. s[k + 1] \in S => Append(c[k], s[k + 1]) \in Seq(T \cap S)
    BY <2>2, <2>4, AppendProperties
  <2> QED BY <2>2, <2>3, <2>5
<1>6. Nat \subseteq Typed BY <1>4, <1>5, NatIsInductive
<1> QED BY <1>1, <1>2, <1>6

(* The first element is selected first, if at all. *)
LEMMA SelectedFromTail ==
    ASSUME NEW T, NEW s \in Seq(T), s # <<>>, NEW S
    PROVE  /\ Head(s) \notin S => Selected(s, S) = Selected(Tail(s), S)
           /\ Head(s) \in S => /\ Selected(s, S) # <<>>
                               /\ Head(Selected(s, S)) = Head(s)
                               /\ Tail(Selected(s, S)) = Selected(Tail(s), S)
<1> DEFINE t == Tail(s)
           n == Len(t)
           h == Head(s)
<1>1. /\ n \in Nat /\ Len(s) = n + 1 /\ s[1] = h /\ t \in Seq(T)
      /\ \A i \in 1..n : t[i] = s[i + 1]
      /\ \A i \in 1..(n + 1) : s[i] \in T
  BY HeadTailProperties, LenProperties, ElementOfSeq, EmptySeq
<1>2. PICK d : Selects(d, t, S, n) /\ Selected(t, S) = d[n]
  BY <1>1, SelectedIs
<1>3. PICK c : Selects(c, s, S, n + 1) /\ Selected(s, S) = c[n + 1]
  BY <1>1, SelectedIs
<1> HIDE DEF t, n, h
<1>4. /\ c[0] = <<>>
      /\ \A i \in 1..(n + 1) :
            c[i] = IF s[i] \in S THEN Append(c[i - 1], s[i]) ELSE c[i - 1]
  <2>1. n + 1 \in Nat BY <1>1
  <2> QED BY <1>3, <2>1, SelectsSteps
<1>5. /\ d[0] = <<>>
       /\ \A i \in 1..n : d[i] = IF t[i] \in S THEN Append(d[i - 1], t[i]) ELSE d[i - 1]
  BY <1>1, <1>2, SelectsSteps
<1>6. c[1] = IF h \in S THEN Append(<<>>, h) ELSE <<>>
  <2>1. 1 \in 1..(n + 1) /\ 1 - 1 = 0 BY <1>1
  <2> QED BY <1>1, <1>4, <2>1
<1> DEFINE Follows(k) == IF h \in S
                         THEN /\ c[k + 1] \in Seq(T) /\ c[k + 1] # <<>>
                              /\ Head(c[k + 1]) = h /\ Tail(c[k + 1]) = d[k]
                         ELSE c[k + 1] = d[k]
           Good == {k \in Nat : k <= n => Follows(k)}
<1>7. 0 \in Good
  <2>1. d[0] = <<>> BY <1>5
  <2>2. h \in T BY <1>1
  <2>3. /\ Append(<<>>, h) = <<h>> /\ Append(<<>>, h) \in Seq(T)
        /\ Head(<<h>>) = h /\ Tail(<<h>>) = <<>> /\ <<h>> # <<>>
    BY <2>2
  <2>4. c[0 + 1] = c[1] OBVIOUS
  <2>5. Follows(0) BY <1>6, <2>1, <2>3, <2>4
  <2> QED BY <2>5
<1>8. ASSUME NEW k \in Nat, k \in Good PROVE k + 1 \in Good
  <2>1. SUFFICES ASSUME k + 1 <= n PROVE Follows(k + 1)
    OBVIOUS
  <2> DEFINE x == t[k + 1]
  <2>2. /\ k + 1 \in 1..n /\ (k + 1) + 1 \in 1..(n + 1) /\ Follows(k)
        /\ (k + 1) - 1 = k /\ ((k + 1) + 1) - 1 = k + 1
    BY <1>1, <1>8, <2>1
  <2>3. x = s[(k + 1) + 1] /\ x \in T
    BY <1>1, <2>2
  <2>4. d[k + 1] = IF x \in S THEN Append(d[k], x) ELSE d[k]
    BY <1>5, <2>2
  <2>5. c[(k + 1) + 1] = IF x \in S THEN Append(c[k + 1], x) ELSE c[k + 1]
    BY <1>4, <2>2, <2>3
  <2> HIDE DEF x
  <2>6. CASE h \notin S BY <2>2, <2>4, <2>5, <2>6
  <2>7. CASE h \in S
    <3>1. c[k + 1] \in Seq(T) /\ c[k + 1] # <<>> /\ Head(c[k + 1]) = h
          /\ Tail(c[k + 1]) = d[k]
      BY <2>2, <2>7
    <3>2. Head(Append(c[k + 1], x)) = h /\ Tail(Append(c[k + 1], x)) = Append(d[k], x)
      BY <3>1, HeadTailAppend
    <3>3. Append(c[k + 1], x) \in Seq(T) /\ Append(c[k + 1], x) # <<>>
      BY <2>3, <3>1, AppendProperties
    <3> QED BY <2>4, <2>5, <2>7, <3>1, <3>2, <3>3
  <2> QED BY <2>6, <2>7
<1>9. Nat \subseteq Good BY <1>7, <1>8, NatIsInductive
<1>10. Follows(n) BY <1>1, <1>9
<1> QED BY <1>2, <1>3, <1>10 DEF t, n, h

-----------------------------------------------------------------------------
(* The part of a sequence before an element. *)

(* b is the part of q before the first m. *)
IsBefore(b, m, q) ==
    /\ Len(b) <= Len(q)
    /\ \A i \in 1..Len(b) : b[i] = q[i] /\ q[i] # m
    /\ Len(b) < Len(q) => q[Len(b) + 1] = m

LEMMA BeforeIsBefore ==
    ASSUME NEW T, NEW q \in Seq(T), NEW m
    PROVE  Before(m, q) \in Seq(T) /\ IsBefore(Before(m, q), m, q)
<1> DEFINE I == {i \in 1..Len(q) : q[i] = m}
<1>1. Len(q) \in Nat BY LenProperties
<1>2. CASE I = {}
  <2>1. Before(m, q) = q BY <1>2 DEF Before, Contains
  <2>2. \A i \in 1..Len(q) : q[i] # m BY <1>2
  <2> QED BY <1>1, <2>1, <2>2 DEF IsBefore
<1>3. CASE I # {}
  <2> DEFINE k == CHOOSE i \in I : \A j \in I : i <= j
  <2>1. k \in I /\ \A j \in I : k <= j
    <3>1. I \in SUBSET Nat BY <1>1
    <3>2. \E i \in I : \A j \in I : i <= j BY <1>3, <3>1, LeastNat
    <3> QED BY <3>2
  <2>2. SelectInSeq(q, LAMBDA e : e = m) = k
    BY <1>3 DEF SelectInSeq, Min
  <2>3. Before(m, q) = SubSeq(q, 1, k - 1)
    BY <1>3, <2>2 DEF Before, Contains
  <2> HIDE DEF k
  <2>4. k \in 1..Len(q) /\ q[k] = m /\ \A j \in 1..(k - 1) : q[j] # m
    BY <1>1, <2>1
  <2> DEFINE b == SubSeq(q, 1, k - 1)
  <2>5. b \in Seq(T) /\ Len(b) = k - 1 /\ \A i \in 1..(k - 1) : b[i] = q[i]
    <3>1. 1 \in Int /\ k - 1 \in Int /\ \A i \in 1..(k - 1) : i \in 1..Len(q)
      BY <1>1, <2>4
    <3> QED BY <1>1, <2>4, <3>1, SubSeqProperties
  <2> HIDE DEF b
  <2>6. Len(b) + 1 = k BY <1>1, <2>4, <2>5
  <2>7. IsBefore(b, m, q) BY <1>1, <2>4, <2>5, <2>6 DEF IsBefore
  <2> QED BY <2>3, <2>5, <2>7 DEF b
<1> QED BY <1>2, <1>3

(* There is one such part. *)
LEMMA BeforeIsUnique ==
    ASSUME NEW T, NEW q \in Seq(T), NEW m, NEW b \in Seq(T), IsBefore(b, m, q)
    PROVE  Before(m, q) = b
<1> DEFINE a == Before(m, q)
<1>1. a \in Seq(T) /\ IsBefore(a, m, q) BY BeforeIsBefore
<1> HIDE DEF a
<1>2. Len(a) \in Nat /\ Len(b) \in Nat /\ Len(q) \in Nat BY <1>1, LenProperties
<1>3. ASSUME Len(a) < Len(b) PROVE FALSE
  <2>1. Len(a) + 1 \in 1..Len(b) BY <1>2, <1>3
  <2>2. q[Len(a) + 1] = m BY <1>1, <1>2, <1>3 DEF IsBefore
  <2> QED BY <2>1, <2>2 DEF IsBefore
<1>4. ASSUME Len(b) < Len(a) PROVE FALSE
  <2>1. Len(b) + 1 \in 1..Len(a) BY <1>2, <1>4
  <2>2. q[Len(b) + 1] = m BY <1>1, <1>2, <1>4 DEF IsBefore
  <2> QED BY <1>1, <2>1, <2>2 DEF IsBefore
<1>5. Len(a) = Len(b) BY <1>2, <1>3, <1>4
<1>6. \A i \in 1..Len(a) : a[i] = b[i] BY <1>1, <1>5 DEF IsBefore
<1>7. a = b BY <1>1, <1>5, <1>6, SeqEqual
<1> QED BY <1>7 DEF a

(* Appending to a sequence that holds m changes nothing before it. *)
LEMMA BeforeAppend ==
    ASSUME NEW T, NEW q \in Seq(T), NEW m, NEW x \in T
    PROVE  /\ Before(m, Append(q, x)) = IF Contains(q, m) \/ x = m THEN Before(m, q)
                                        ELSE Append(Before(m, q), x)
           /\ ~Contains(q, m) => Before(m, q) = q
<1> DEFINE b == Before(m, q)
           p == Append(q, x)
<1>1. b \in Seq(T) /\ IsBefore(b, m, q) /\ p \in Seq(T)
  BY BeforeIsBefore, AppendProperties
<1>2. /\ Len(q) \in Nat /\ Len(b) \in Nat /\ Len(p) = Len(q) + 1 /\ p[Len(q) + 1] = x
      /\ \A i \in 1..Len(q) : p[i] = q[i]
  BY <1>1, AppendProperties, LenProperties
<1>3. ~Contains(q, m) => b = q BY DEF Before
<1> HIDE DEF b, p
<1>4. CASE Contains(q, m)
  <2>1. Len(b) < Len(q)
    <3>1. PICK i \in 1..Len(q) : q[i] = m BY <1>4 DEF Contains
    <3> QED BY <1>1, <1>2, <3>1 DEF IsBefore
  <2>2. Len(b) + 1 \in 1..Len(q) /\ 1..Len(b) \subseteq 1..Len(q) BY <1>2, <2>1
  <2>3. Len(b) <= Len(p) /\ p[Len(b) + 1] = q[Len(b) + 1] BY <1>2, <2>1, <2>2
  <2>4. \A i \in 1..Len(b) : p[i] = q[i] BY <1>2, <2>2
  <2>5. IsBefore(b, m, p) BY <1>1, <2>1, <2>3, <2>4 DEF IsBefore
  <2> QED BY <1>1, <1>3, <1>4, <2>5, BeforeIsUnique DEF b, p
<1>5. CASE ~Contains(q, m) /\ x = m
  <2>1. \A i \in 1..Len(q) : q[i] # m BY <1>5 DEF Contains
  <2>2. IsBefore(b, m, p) BY <1>1, <1>2, <1>3, <1>5, <2>1 DEF IsBefore
  <2> QED BY <1>1, <1>3, <1>5, <2>2, BeforeIsUnique DEF b, p
<1>6. CASE ~Contains(q, m) /\ x # m
  <2>1. \A i \in 1..Len(q) : q[i] # m BY <1>6 DEF Contains
  <2>2. IsBefore(p, m, p) BY <1>2, <1>6, <2>1 DEF IsBefore
  <2>3. Before(m, p) = p BY <1>1, <2>2, BeforeIsUnique
  <2> QED BY <1>3, <1>6, <2>3 DEF b, p
<1> QED BY <1>4, <1>5, <1>6

(* Taking the first element, when it is not m, takes it from the part before m. *)
LEMMA BeforeTail ==
    ASSUME NEW T, NEW q \in Seq(T), q # <<>>, NEW m, Head(q) # m
    PROVE  /\ Before(m, q) # <<>>
           /\ Head(Before(m, q)) = Head(q)
           /\ Before(m, Tail(q)) = Tail(Before(m, q))
<1> DEFINE b == Before(m, q)
           p == Tail(q)
<1>1. b \in Seq(T) /\ IsBefore(b, m, q)
  BY BeforeIsBefore
<1>2. /\ p \in Seq(T) /\ Len(q) \in Nat /\ Len(q) >= 1 /\ Len(p) = Len(q) - 1
      /\ Head(q) = q[1] /\ \A i \in 1..Len(p) : p[i] = q[i + 1]
  BY HeadTailProperties, LenProperties, EmptySeq
<1> HIDE DEF b, p
<1>3. Len(b) \in Nat BY <1>1, LenProperties
<1>4. Len(b) >= 1 /\ b # <<>>
  <2>1. Len(b) = 0 => q[1] = m BY <1>1, <1>2 DEF IsBefore
  <2>2. Len(b) # 0 BY <1>2, <2>1
  <2> QED BY <1>3, <2>2
<1> DEFINE c == Tail(b)
<1>5. /\ c \in Seq(T) /\ Len(c) = Len(b) - 1 /\ Head(b) = b[1]
      /\ \A i \in 1..Len(c) : c[i] = b[i + 1]
  BY <1>1, <1>4, HeadTailProperties
<1> HIDE DEF c
<1>6. Head(b) = Head(q)
  BY <1>1, <1>2, <1>3, <1>4, <1>5 DEF IsBefore
<1>7. IsBefore(c, m, p)
  <2>1. Len(c) <= Len(p) BY <1>1, <1>2, <1>3, <1>5 DEF IsBefore
  <2>2. ASSUME NEW i \in 1..Len(c) PROVE c[i] = p[i] /\ p[i] # m
    <3>1. i + 1 \in 1..Len(b) /\ i \in 1..Len(p)
      BY <1>2, <1>3, <1>5, <2>1
    <3> QED BY <1>1, <1>2, <1>5, <3>1 DEF IsBefore
  <2>3. ASSUME Len(c) < Len(p) PROVE p[Len(c) + 1] = m
    <3>1. /\ Len(c) + 1 \in 1..Len(p) /\ (Len(c) + 1) + 1 = Len(b) + 1
          /\ Len(b) < Len(q)
      BY <1>2, <1>3, <1>4, <1>5, <2>3
    <3>2. p[Len(c) + 1] = q[(Len(c) + 1) + 1] BY <1>2, <3>1
    <3> QED BY <1>1, <3>1, <3>2 DEF IsBefore
  <2> QED BY <2>1, <2>2, <2>3 DEF IsBefore
<1>8. Before(m, p) = c BY <1>2, <1>5, <1>7, BeforeIsUnique
<1> QED BY <1>4, <1>6, <1>8 DEF b, c, p

-----------------------------------------------------------------------------
(* Refinement: each step of the app is a step of TaskQueue or none.  The   *)
(* tasks pending are the undelayed ones before WM_QUIT, while Open.        *)

Waiting == Undelayed(BeforeQuit)

Ran == Undelayed(started)

(* A step that changes neither what is pending nor what started. *)
LEMMA Stutters ==
    ASSUME Ran' = Ran, Open' = Open, Open => Waiting' = Waiting
    PROVE  UNCHANGED TQ!vars
BY DEF TQ!vars, Waiting, Ran

LEMMA QuietRefines ==
    ASSUME UNCHANGED <<delay, messages, started>>, Open' = Open
    PROVE  UNCHANGED TQ!vars
BY Stutters DEF Ran, Waiting, Undelayed, BeforeQuit

(* The loop is left, or never entered. *)
LEMMA CloseRefines ==
    ASSUME Open, ~Open', UNCHANGED <<delay, started>>
    PROVE  TQ!Close
BY DEF TQ!Close, Undelayed

(* The undelayed tasks, and the parts of the queue the mapping is made of. *)
LEMMA MappingTypes ==
    ASSUME TypeOK
    PROVE  /\ messages \in Seq(Tasks \cup {Quit}) /\ started \in Seq(Tasks)
           /\ BeforeQuit \in Seq(Tasks \cup {Quit})
           /\ IsBefore(BeforeQuit, Quit, messages)
BY BeforeIsBefore DEF TypeOK, BeforeQuit

(* A task that was not posted is neither pending nor started. *)
LEMMA NewIsUnseen ==
    ASSUME IInv, NEW t \in Tasks, status[t] = "new"
    PROVE  t \notin Range(Waiting) \cup Range(Ran)
<1> DEFINE S == {u \in Tasks : delay[u] = 0}
<1>1. TypeOK BY DEF IInv
<1>2. /\ BeforeQuit \in Seq(Tasks \cup {Quit}) /\ started \in Seq(Tasks)
      /\ IsBefore(BeforeQuit, Quit, messages)
  BY <1>1, MappingTypes
<1>3. t \notin Range(BeforeQuit)
  <2>1. \A i \in 1..Len(messages) : messages[i] # t BY DEF IInv, Queued
  <2>2. Len(BeforeQuit) \in Nat /\ Len(messages) \in Nat
    BY <1>1, <1>2, LenProperties DEF TypeOK
  <2>3. \A i \in 1..Len(BeforeQuit) : BeforeQuit[i] # t
    BY <1>2, <2>1, <2>2 DEF IsBefore
  <2> QED BY <1>2, <2>3, RangeEquality
<1>4. t \notin Range(started)
  <2>1. \A i \in 1..Len(started) : started[i] # t BY DEF IInv, Started
  <2> QED BY <1>2, <2>1, RangeEquality
<1>5. \A q \in {BeforeQuit, started} : Range(Selected(q, S)) \subseteq Range(q)
  <2>1. SUFFICES ASSUME NEW q \in {BeforeQuit, started}
                 PROVE  Range(Selected(q, S)) \subseteq Range(q)
    OBVIOUS
  <2>2. q \in Seq(Range(q)) BY <1>2, SeqOfRange
  <2>3. Selected(q, S) \in Seq(Range(q) \cap S) BY <2>2, SelectedType
  <2> QED BY <2>3, RangeOfSeq
<1> QED BY <1>3, <1>4, <1>5 DEF Waiting, Ran, Undelayed

(* A message goes to the end of the queue. *)
LEMMA SendRefines ==
    ASSUME IInv, NEW m \in Tasks \cup {Quit}, SendMessage(m),
           m \in Tasks => status[m] = "new",
           UNCHANGED <<delay, started>>, Open' = Open
    PROVE  TQ!Next \/ UNCHANGED TQ!vars
<1> DEFINE S == {u \in Tasks : delay[u] = 0}
<1>1. TypeOK BY DEF IInv
<1>2. BeforeQuit \in Seq(Tasks \cup {Quit}) /\ messages \in Seq(Tasks \cup {Quit})
  BY <1>1, MappingTypes
<1>3. Ran' = Ran BY DEF Ran, Undelayed
<1>4. BeforeQuit' = IF Contains(messages, Quit) \/ m = Quit THEN BeforeQuit
                    ELSE Append(BeforeQuit, m)
  BY <1>2, BeforeAppend DEF SendMessage, BeforeQuit
<1>5. CASE BeforeQuit' = BeforeQuit
  <2>1. Waiting' = Waiting BY <1>5 DEF Waiting, Undelayed
  <2> QED BY <1>3, <2>1, Stutters
<1>6. CASE BeforeQuit' = Append(BeforeQuit, m) /\ m # Quit
  <2>1. m \in Tasks BY <1>6
  <2>2. Waiting' = Selected(Append(BeforeQuit, m), S)
    BY <1>6 DEF Waiting, Undelayed
  <2>3. Waiting' = IF m \in S THEN Append(Waiting, m) ELSE Waiting
    <3>1. Selected(Append(BeforeQuit, m), S) =
             IF m \in S THEN Append(Selected(BeforeQuit, S), m) ELSE Selected(BeforeQuit, S)
      BY ONLY <1>2, m \in Tasks \cup {Quit}, SelectedFromAppend
    <3>2. Waiting = Selected(BeforeQuit, S) BY DEF Waiting, Undelayed
    <3> QED BY ONLY <2>2, <3>1, <3>2
  <2>4. CASE m \in S /\ Open
    <3>1. Waiting' = Append(Waiting, m) BY <2>3, <2>4
    <3>2. m \notin Range(Waiting) \cup Range(Ran) BY <2>1, NewIsUnseen
    <3>3. TQ!Submit(m)
      BY <1>3, <2>4, <3>1, <3>2 DEF TQ!Submit, TQ!Range, Range, Waiting, Ran
    <3> QED BY <2>1, <3>3 DEF TQ!Next
  <2>5. CASE m \notin S \/ ~Open
    BY <1>3, <2>3, <2>5, Stutters
  <2> QED BY <2>4, <2>5
<1> QED BY <1>4, <1>5, <1>6

(* What is taken from the queue was the first before WM_QUIT. *)
LEMMA TakeFirst ==
    ASSUME IInv, NEW t \in Tasks, Take(t), UNCHANGED delay
    PROVE  /\ delay[t] = 0 => /\ Waiting # <<>> /\ Head(Waiting) = t
                              /\ Waiting' = Tail(Waiting)
           /\ delay[t] > 0 => Waiting' = Waiting
<1> DEFINE S == {u \in Tasks : delay[u] = 0}
<1>1. TypeOK BY DEF IInv
<1>2. BeforeQuit \in Seq(Tasks \cup {Quit}) /\ messages \in Seq(Tasks \cup {Quit})
  BY <1>1, MappingTypes
<1>3. messages # <<>> /\ Head(messages) = t /\ t # Quit /\ messages' = Tail(messages)
  BY QuitAssumption DEF Take
<1>4. /\ BeforeQuit # <<>> /\ Head(BeforeQuit) = t
      /\ BeforeQuit' = Tail(BeforeQuit)
  BY <1>2, <1>3, BeforeTail DEF BeforeQuit
<1>5. Waiting' = Selected(Tail(BeforeQuit), S)
  BY <1>4 DEF Waiting, Undelayed
<1>6. /\ t \notin S => Waiting = Waiting'
      /\ t \in S => /\ Waiting # <<>> /\ Head(Waiting) = t
                    /\ Tail(Waiting) = Waiting'
  BY <1>2, <1>4, <1>5, SelectedFromTail DEF Waiting, Undelayed
<1>7. delay[t] \in Nat BY <1>1, MaxDelayAssumption DEF TypeOK
<1> QED BY <1>6, <1>7

(* What is started is started last. *)
LEMMA RunLast ==
    ASSUME IInv, NEW t \in Tasks, Run(t), UNCHANGED delay
    PROVE  Ran' = IF delay[t] = 0 THEN Append(Ran, t) ELSE Ran
<1> DEFINE S == {u \in Tasks : delay[u] = 0}
<1>1. started \in Seq(Tasks) BY DEF IInv, TypeOK
<1>2. Ran' = Selected(Append(started, t), S) BY DEF Run, Ran, Undelayed
<1> QED BY <1>1, <1>2, SelectedFromAppend DEF Ran, Undelayed

(* One step per action. *)
LEMMA StepRefines == IInv /\ [Next]_vars => [TQ!Next]_(TQ!vars)
<1> SUFFICES ASSUME IInv, [Next]_vars PROVE TQ!Next \/ UNCHANGED TQ!vars
  OBVIOUS
<1> USE DEF fixed, lifecycle
<1>1. CASE Initialize \/ RunApp
  <2>1. UNCHANGED <<delay, messages, started>> /\ Open' = Open
    BY <1>1 DEF Initialize, InitializeMain, CreateBackgroundThread, StoreHandle,
       StartBackgroundApp, RunApp, Open
  <2> QED BY <2>1, QuietRefines
<1>2. CASE Finalize
  <2>1. Open /\ ~Open' /\ UNCHANGED <<delay, started>> BY <1>2 DEF Finalize, Open
  <2> QED BY <2>1, CloseRefines DEF TQ!Next
<1>3. ASSUME NEW t \in Tasks, NEW c \in Callers, PostMessage(c, t)
      PROVE  TQ!Next \/ UNCHANGED TQ!vars
  <2>1. UNCHANGED <<delay, started>> /\ Open' = Open /\ status[t] = "new"
    BY <1>3 DEF PostMessage, Open
  <2>2. CASE UNCHANGED messages BY <2>1, <2>2, QuietRefines
  <2>3. CASE SendMessage(t) BY <2>1, <2>3, SendRefines
  <2> QED BY <1>3, <2>2, <2>3 DEF PostMessage
<1>4. ASSUME NEW t \in Tasks, PostTimer(t) PROVE UNCHANGED TQ!vars
  BY <1>4, QuietRefines DEF PostTimer, Open
<1>5. ASSUME NEW t \in Tasks, ProcessTask(t) PROVE TQ!Next
  <2>1. /\ Take(t) /\ Run(t) /\ UNCHANGED delay /\ delay[t] = 0
        /\ apc = "idle" /\ apc' = "running"
    BY <1>5 DEF ProcessTask, Take, Run
  <2>2. Waiting # <<>> /\ Head(Waiting) = t /\ Waiting' = Tail(Waiting)
    BY <2>1, TakeFirst
  <2>3. Ran' = Append(Ran, t) BY <2>1, RunLast
  <2>4. TQ!Start BY <2>1, <2>2, <2>3 DEF TQ!Start, Open, Waiting, Ran
  <2> QED BY <2>4 DEF TQ!Next
<1>6. ASSUME NEW t \in Tasks, ProcessDelayedTask(t) PROVE UNCHANGED TQ!vars
  <2>1. /\ Take(t) /\ UNCHANGED <<delay, started, apc>> /\ delay[t] > 0
    BY <1>6 DEF ProcessDelayedTask
  <2>2. Waiting' = Waiting BY <2>1, TakeFirst
  <2> QED BY <2>1, <2>2, Stutters DEF Open, Ran, Undelayed
<1>7. ASSUME NEW t \in Tasks, ProcessTimer(t) PROVE UNCHANGED TQ!vars
  <2>1. /\ Run(t) /\ UNCHANGED <<delay, messages>> /\ status[t] = "timed"
        /\ apc = "idle" /\ apc' = "running"
    BY <1>7 DEF ProcessTimer, Run
  <2>2. delay[t] > 0 BY <2>1 DEF IInv, TimedIsDelayed
  <2>3. Ran' = Ran BY <2>1, <2>2, RunLast
  <2> QED BY <2>1, <2>3, Stutters DEF Open, Waiting, Undelayed, BeforeQuit
<1>8. ASSUME NEW t \in Tasks, EndTask(t) PROVE UNCHANGED TQ!vars
  BY <1>8, QuietRefines DEF EndTask, Open
<1>9. CASE TakeQuit
  <2>1. Open /\ ~Open' /\ UNCHANGED <<delay, started>>
    BY <1>9 DEF TakeQuit, Take, Open
  <2> QED BY <2>1, CloseRefines DEF TQ!Next
<1>10. CASE DeleteApp \/ EndThread
  BY <1>10, QuietRefines DEF DeleteApp, EndThread, Open
<1>11. ASSUME NEW c \in Callers, Exit(c) PROVE TQ!Next \/ UNCHANGED TQ!vars
  <2>1. SendMessage(Quit) /\ UNCHANGED <<delay, started>> BY <1>11 DEF Exit
  <2>2. Open' = Open BY <1>11 DEF Exit, Calls, Open
  <2> QED BY <2>1, <2>2, SendRefines, QuitAssumption
<1>12. ASSUME NEW c \in Callers, ReadHandle(c) \/ Joined(c) PROVE UNCHANGED TQ!vars
  BY <1>12, QuietRefines DEF ReadHandle, Joined, Open
<1>13. CASE Tick BY <1>13, QuietRefines DEF Tick, Open
<1>14. CASE UNCHANGED vars BY <1>14, QuietRefines DEF vars, Open
<1> QED
  BY <1>1, <1>2, <1>3, <1>4, <1>5, <1>6, <1>7, <1>8, <1>9, <1>10, <1>11, <1>12,
     <1>13, <1>14 DEF Next, Post, Loop, Exits

-----------------------------------------------------------------------------
(* Theorems. *)

(***************************************************************************)
(* Every variable of the app and its loop keeps its type: no timer counts  *)
(* below zero or past the longest delay, and only tasks and WM_QUIT are    *)
(* ever in the queue (win_single_thread_task_runner.cpp:51 and 75).        *)
(***************************************************************************)
THEOREM TypeCorrect == Spec => []TypeOK
<1>1. IInv => TypeOK BY DEF IInv
<1> QED BY <1>1, AppInvariant, PTL

(***************************************************************************)
(* No task is run twice and none inside another, whether it came as a      *)
(* message or by a timer and whichever thread posted it                    *)
(* (win_single_thread_task_runner.cpp:70 and 85).                          *)
(***************************************************************************)
THEOREM EachTaskRunsOnce == Spec => []TasksRunOnce
<1>1. IInv => TasksRunOnce BY DEF IInv
<1> QED BY <1>1, AppInvariant, PTL

(***************************************************************************)
(* For tasks without delay, the thread messages, timers and WM_QUIT of the *)
(* Windows app implement the TaskQueue that the POSIX loop implements, for *)
(* any number of threads and tasks: in the order of the posts, each once,  *)
(* and none once WM_QUIT was taken (win_single_thread_task_runner.cpp:51,  *)
(* win_app.cpp:96).                                                        *)
(***************************************************************************)
THEOREM AppIsAQueue == Spec => Implements
<1>1. Init => TQ!Init
  <2>1. ASSUME Init PROVE ~Contains(<<>>, Quit)
    BY DEF Contains
  <2>2. Init => BeforeQuit = <<>> BY <2>1 DEF Init, BeforeQuit, Before
  <2> QED BY <2>2, SelectedFromEmpty DEF Init, TQ!Init, Open, Undelayed
<1> QED BY <1>1, StepRefines, AppInvariant, PTL DEF Spec, Implements, TQ!Spec

-----------------------------------------------------------------------------
(* Nothing on its way to the loop is lost. *)

(* Where each task is: in the queue, with a timer, or started. *)
Located ==
    /\ \A t \in Tasks : status[t] = "posted" <=> t \in Range(messages)
    /\ \A t \in Tasks : status[t] \in {"running", "done"} <=> t \in Range(started)
    /\ \A t \in Tasks : status[t] = "refused" => ThreadGone

(* While the loop goes on, the WM_QUIT of whoever called BkExitApp waits. *)
ExitWaits == (\E c \in Callers : exiting[c] # "out") /\ Open => Quit \in Range(messages)

(***************************************************************************)
(* The app's thread is in one place: in a task that can end, or waiting    *)
(* for itself, which takes BkExitApp of its own in background mode.        *)
(***************************************************************************)
OwnWaits ==
    /\ apc = "running" => \E t \in Tasks : status[t] = "running"
    /\ apc = "joining" => mode = "background" /\ exiting[App] = "joining"
    /\ joinable \/ apc = "starting" => mode = "background"

NothingIsLost == Located /\ ExitWaits /\ OwnWaits

LEMMA RangeAppend ==
    ASSUME NEW S, NEW s \in Seq(S), NEW x \in S
    PROVE  Range(Append(s, x)) = Range(s) \cup {x}
<1>1. /\ DOMAIN s = 1..Len(s) /\ Len(s) \in Nat
      /\ DOMAIN Append(s, x) = 1..(Len(s) + 1)
      /\ Append(s, x)[Len(s) + 1] = x
      /\ \A i \in 1..Len(s) : Append(s, x)[i] = s[i]
  BY AppendProperties, LenProperties
<1>2. 1..(Len(s) + 1) = (1..Len(s)) \cup {Len(s) + 1}
  BY <1>1
<1> QED BY <1>1, <1>2, Zenon DEF Range

LEMMA RangeTail ==
    ASSUME NEW S, NEW s \in Seq(S), s # <<>>
    PROVE  Range(s) = Range(Tail(s)) \cup {Head(s)}
<1>1. /\ Head(s) = s[1] /\ Tail(s) \in Seq(S)
      /\ Len(s) \in Nat /\ Len(s) > 0 /\ Len(Tail(s)) = Len(s) - 1
      /\ DOMAIN s = 1..Len(s) /\ DOMAIN Tail(s) = 1..Len(Tail(s))
      /\ \A i \in 1..Len(Tail(s)) : Tail(s)[i] = s[i + 1]
  BY HeadTailProperties, LenProperties, EmptySeq
<1>2. ASSUME NEW x \in Range(s) PROVE x \in Range(Tail(s)) \cup {Head(s)}
  <2>1. PICK i \in 1..Len(s) : x = s[i] BY <1>1 DEF Range
  <2>2. CASE i = 1 BY <1>1, <2>1, <2>2
  <2>3. CASE i # 1
    <3>1. i - 1 \in 1..Len(Tail(s)) /\ s[(i - 1) + 1] = x BY <1>1, <2>1, <2>3
    <3> QED BY <1>1, <3>1 DEF Range
  <2> QED BY <2>2, <2>3
<1>3. ASSUME NEW x \in Range(Tail(s)) \cup {Head(s)} PROVE x \in Range(s)
  <2>1. CASE x = Head(s)
    <3>1. 1 \in 1..Len(s) BY <1>1
    <3> QED BY <1>1, <2>1, <3>1 DEF Range
  <2>2. CASE x \in Range(Tail(s))
    <3>1. PICK i \in 1..Len(Tail(s)) : x = Tail(s)[i] BY <1>1, <2>2 DEF Range
    <3>2. i + 1 \in 1..Len(s) BY <1>1
    <3> QED BY <1>1, <3>1, <3>2 DEF Range
  <2> QED BY <2>1, <2>2
<1> QED BY <1>2, <1>3

(* What the queue holds after a post and after a message was taken. *)
LEMMA SentIsHeld ==
    ASSUME TypeOK, NEW m \in Tasks \cup {Quit}, SendMessage(m)
    PROVE  Range(messages') = Range(messages) \cup {m}
<1>1. messages \in Seq(Tasks \cup {Quit}) BY DEF TypeOK
<1> QED BY <1>1, RangeAppend DEF SendMessage

LEMMA TakenIsGone ==
    ASSUME TypeOK, Queued, NEW m, Take(m)
    PROVE  /\ Range(messages) = Range(messages') \cup {m}
           /\ m \in Tasks => m \notin Range(messages')
<1>1. messages \in Seq(Tasks \cup {Quit}) /\ messages # <<>>
      /\ m = Head(messages) /\ messages' = Tail(messages)
  BY DEF TypeOK, Take
<1>2. Range(messages) = Range(messages') \cup {m} BY <1>1, RangeTail
<1>3. messages' \in Seq(Tasks \cup {Quit}) BY <1>1, HeadTailProperties
<1>4. DOMAIN messages' = 1..Len(messages') BY <1>3, LenProperties
<1>5. ASSUME m \in Tasks, m \in Range(messages') PROVE FALSE
  <2>1. PICK i \in 1..Len(messages') : messages'[i] = m
    BY <1>4, <1>5 DEF Range
  <2> QED BY <1>5, <2>1, TakeKeepsOrder
<1> QED BY <1>2, <1>5

(* The app's thread goes where it goes; tasks and messages stay. *)
LEMMA MovesOnly ==
    ASSUME NothingIsLost, UNCHANGED <<mode, messages, status, started, exiting>>,
           Open' => Open, ThreadGone => ThreadGone',
           apc' = "running" => apc = "running",
           apc' = "joining" => apc = "joining",
           joinable' \/ apc' = "starting" => mode = "background"
    PROVE  NothingIsLost'
BY DEF NothingIsLost, Located, ExitWaits, OwnWaits

(* A task starts: apc, status and started say so together. *)
LEMMA RunIsLocated ==
    ASSUME TypeOK, NothingIsLost, NEW t \in Tasks, apc = "idle", Run(t),
           UNCHANGED <<mode, exiting, joinable>>,
           status[t] \in {"posted", "timed"},
           \A u \in Tasks : u # t => (u \in Range(messages') <=> u \in Range(messages)),
           t \notin Range(messages'),
           Quit \in Range(messages) => Quit \in Range(messages')
    PROVE  NothingIsLost'
<1>1. /\ apc' = "running" /\ status' = [status EXCEPT ![t] = "running"]
      /\ started' = Append(started, t) /\ started \in Seq(Tasks)
  BY DEF Run, TypeOK
<1>2. Range(started') = Range(started) \cup {t} BY <1>1, RangeAppend
<1>3. \A u \in Tasks : status'[u] = IF u = t THEN "running" ELSE status[u]
  BY <1>1 DEF TypeOK
<1>4. ~ThreadGone BY DEF ThreadGone
<1>5. Located' BY <1>2, <1>3, <1>4 DEF NothingIsLost, Located
<1>6. ExitWaits' BY DEF NothingIsLost, ExitWaits, Open
<1>7. OwnWaits' BY <1>1, <1>3 DEF NothingIsLost, OwnWaits
<1> QED BY <1>5, <1>6, <1>7 DEF NothingIsLost

LEMMA LosesNothing == IInv /\ NothingIsLost /\ [Next]_vars => NothingIsLost'
<1> SUFFICES ASSUME IInv, NothingIsLost, [Next]_vars PROVE NothingIsLost'
  OBVIOUS
<1> USE DEF fixed, lifecycle
<1>0. TypeOK /\ Queued BY DEF IInv
<1>1. CASE Initialize
  <2>1. /\ UNCHANGED <<mode, messages, status, started, exiting>>
        /\ ThreadGone => ThreadGone'
        /\ Open' => Open
        /\ apc' = "running" => apc = "running"
        /\ apc' = "joining" => apc = "joining"
    BY <1>1 DEF Initialize, InitializeMain, CreateBackgroundThread, StoreHandle,
       StartBackgroundApp, ThreadGone, Open
  <2>2. joinable' \/ apc' = "starting" => mode = "background"
    BY <1>1 DEF Initialize, InitializeMain, CreateBackgroundThread, StoreHandle,
       StartBackgroundApp, NothingIsLost, OwnWaits
  <2> QED BY <2>1, <2>2, MovesOnly
<1>2. CASE RunApp \/ Finalize \/ DeleteApp \/ EndThread
  <2>1. /\ UNCHANGED <<mode, messages, status, started, exiting, joinable>>
        /\ ThreadGone => ThreadGone'
        /\ Open' => Open
        /\ apc' \notin {"running", "joining"}
        /\ apc' # "starting"
    BY <1>2 DEF RunApp, Finalize, DeleteApp, EndThread, ThreadGone, Open
  <2>2. joinable' \/ apc' = "starting" => mode = "background"
    BY <2>1 DEF NothingIsLost, OwnWaits
  <2> QED BY <2>1, <2>2, MovesOnly
<1>3. ASSUME NEW t \in Tasks, NEW c \in Callers, PostMessage(c, t)
      PROVE  NothingIsLost'
  <2>1. /\ UNCHANGED <<mode, apc, started, exiting, joinable>> /\ status[t] = "new"
    BY <1>3 DEF PostMessage
  <2>2. ThreadGone' = ThreadGone /\ Open' = Open BY <2>1 DEF ThreadGone, Open
  <2>3. CASE ThreadGone
    <3>1. UNCHANGED messages /\ status' = [status EXCEPT ![t] = "refused"]
      BY <1>3, <2>3 DEF PostMessage
    <3>2. Located' BY <1>0, <2>1, <2>2, <2>3, <3>1 DEF NothingIsLost, Located, TypeOK
    <3>3. ExitWaits' BY <2>1, <2>2, <3>1 DEF NothingIsLost, ExitWaits
    <3>4. OwnWaits' BY <1>0, <2>1, <3>1 DEF NothingIsLost, OwnWaits, TypeOK
    <3> QED BY <3>2, <3>3, <3>4 DEF NothingIsLost
  <2>4. CASE ~ThreadGone
    <3>1. SendMessage(t) /\ status' = [status EXCEPT ![t] = "posted"]
      BY <1>3, <2>4 DEF PostMessage
    <3>2. Range(messages') = Range(messages) \cup {t} BY <1>0, <3>1, SentIsHeld
    <3>3. Located' BY <1>0, <2>1, <2>2, <3>1, <3>2 DEF NothingIsLost, Located, TypeOK
    <3>4. ExitWaits' BY <2>1, <2>2, <3>2 DEF NothingIsLost, ExitWaits
    <3>5. OwnWaits' BY <1>0, <2>1, <3>1 DEF NothingIsLost, OwnWaits, TypeOK
    <3> QED BY <3>3, <3>4, <3>5 DEF NothingIsLost
  <2> QED BY <2>3, <2>4
<1>4. ASSUME NEW t \in Tasks, PostTimer(t) PROVE NothingIsLost'
  <2>1. /\ UNCHANGED <<mode, apc, messages, started, exiting, joinable>>
        /\ status[t] = "new" /\ status' = [status EXCEPT ![t] = "timed"]
    BY <1>4 DEF PostTimer, SetTimer
  <2>2. ThreadGone' = ThreadGone /\ Open' = Open BY <2>1 DEF ThreadGone, Open
  <2>3. Located' BY <1>0, <2>1, <2>2 DEF NothingIsLost, Located, TypeOK
  <2>4. ExitWaits' BY <2>1, <2>2 DEF NothingIsLost, ExitWaits
  <2>5. OwnWaits' BY <1>0, <2>1 DEF NothingIsLost, OwnWaits, TypeOK
  <2> QED BY <2>3, <2>4, <2>5 DEF NothingIsLost
<1>5. ASSUME NEW t \in Tasks, ProcessTask(t) PROVE NothingIsLost'
  <2>1. /\ Take(t) /\ Run(t) /\ apc = "idle" /\ UNCHANGED <<mode, exiting, joinable>>
    BY <1>5 DEF ProcessTask, Take
  <2>2. /\ Range(messages) = Range(messages') \cup {t}
        /\ t \notin Range(messages') /\ status[t] = "posted"
    BY <1>0, <2>1, TakenIsGone, TakeKeepsOrder
  <2> QED BY <1>0, <2>1, <2>2, RunIsLocated, QuitAssumption
<1>6. ASSUME NEW t \in Tasks, ProcessTimer(t) PROVE NothingIsLost'
  <2>1. /\ Run(t) /\ apc = "idle" /\ UNCHANGED <<mode, exiting, joinable, messages>>
        /\ status[t] = "timed"
    BY <1>6 DEF ProcessTimer
  <2>2. t \notin Range(messages) BY <2>1 DEF NothingIsLost, Located
  <2> QED BY <1>0, <2>1, <2>2, RunIsLocated
<1>7. ASSUME NEW t \in Tasks, ProcessDelayedTask(t) PROVE NothingIsLost'
  <2>1. /\ Take(t) /\ apc = "idle"
        /\ UNCHANGED <<mode, apc, started, exiting, joinable>>
        /\ status' = [status EXCEPT ![t] = "timed"]
    BY <1>7 DEF ProcessDelayedTask, Take, SetTimer
  <2>2. /\ Range(messages) = Range(messages') \cup {t}
        /\ t \notin Range(messages') /\ status[t] = "posted"
    BY <1>0, <2>1, TakenIsGone, TakeKeepsOrder
  <2>3. ThreadGone' = ThreadGone /\ Open' = Open BY <2>1 DEF ThreadGone, Open
  <2>4. Located' BY <1>0, <2>1, <2>2, <2>3 DEF NothingIsLost, Located, TypeOK
  <2>5. ExitWaits'
    BY <2>1, <2>2, <2>3, QuitAssumption DEF NothingIsLost, ExitWaits
  <2>6. OwnWaits' BY <2>1 DEF NothingIsLost, OwnWaits
  <2> QED BY <2>4, <2>5, <2>6 DEF NothingIsLost
<1>8. ASSUME NEW t \in Tasks, EndTask(t) PROVE NothingIsLost'
  <2>1. /\ UNCHANGED <<mode, messages, started, exiting, joinable>>
        /\ apc = "running" /\ apc' = "idle" /\ status[t] = "running"
        /\ status' = [status EXCEPT ![t] = "done"]
    BY <1>8 DEF EndTask
  <2>2. ~ThreadGone' /\ ~ThreadGone /\ Open' = Open BY <2>1 DEF ThreadGone, Open
  <2>3. Located' BY <1>0, <2>1, <2>2 DEF NothingIsLost, Located, TypeOK
  <2>4. ExitWaits' BY <2>1, <2>2 DEF NothingIsLost, ExitWaits
  <2>5. OwnWaits' BY <2>1 DEF NothingIsLost, OwnWaits
  <2> QED BY <2>3, <2>4, <2>5 DEF NothingIsLost
<1>9. CASE TakeQuit
  <2>1. /\ Take(Quit) /\ apc = "idle" /\ apc' = "leaving"
        /\ UNCHANGED <<mode, status, started, exiting, joinable>>
    BY <1>9 DEF TakeQuit, Take
  <2>2. Range(messages) = Range(messages') \cup {Quit}
    BY <1>0, <2>1, TakenIsGone
  <2>3. ~ThreadGone /\ ~Open' BY <2>1 DEF ThreadGone, Open
  <2>4. Located' BY <2>1, <2>2, <2>3, QuitAssumption DEF NothingIsLost, Located
  <2>5. ExitWaits' BY <2>3 DEF ExitWaits
  <2>6. OwnWaits' BY <2>1 DEF NothingIsLost, OwnWaits
  <2> QED BY <2>4, <2>5, <2>6 DEF NothingIsLost
<1>10. ASSUME NEW c \in Callers, Exit(c) PROVE NothingIsLost'
  <2>1. /\ SendMessage(Quit) /\ UNCHANGED <<mode, status, started, joinable>>
        /\ apc' = apc \/ (apc' = "joining" /\ joinable /\ exiting'[App] = "joining")
        /\ apc' # apc => apc \in {"outside", "running"}
    BY <1>0, <1>10 DEF Exit, Calls, TypeOK, Callers
  <2>2. Range(messages') = Range(messages) \cup {Quit}
    BY <1>0, <2>1, SentIsHeld
  <2>3. ThreadGone' = ThreadGone BY <2>1 DEF ThreadGone
  <2>4. Located' BY <2>1, <2>2, <2>3, QuitAssumption DEF NothingIsLost, Located
  <2>5. ExitWaits' BY <2>2 DEF ExitWaits
  <2>6. apc = "joining" => apc' = "joining" /\ exiting'[App] = exiting[App]
    BY <1>0, <1>10, AppAssumption DEF Exit, Calls, TypeOK, Callers
  <2>7. OwnWaits' BY <2>1, <2>6 DEF NothingIsLost, OwnWaits
  <2> QED BY <2>4, <2>5, <2>7 DEF NothingIsLost
<1>11. ASSUME NEW c \in Callers, ReadHandle(c) \/ Joined(c) PROVE NothingIsLost'
  <2>1. /\ UNCHANGED <<mode, apc, messages, status, started, joinable>>
        /\ exiting[c] # "out"
        /\ exiting[App] = "joining" => exiting'[App] = "joining"
    BY <1>0, <1>11, AppAssumption DEF ReadHandle, Joined, TypeOK, Callers
  <2>2. ThreadGone' = ThreadGone /\ Open' = Open BY <2>1 DEF ThreadGone, Open
  <2>3. Located' BY <2>1, <2>2 DEF NothingIsLost, Located
  <2>4. ExitWaits' BY <2>1, <2>2 DEF NothingIsLost, ExitWaits
  <2>5. OwnWaits' BY <2>1 DEF NothingIsLost, OwnWaits
  <2> QED BY <2>3, <2>4, <2>5 DEF NothingIsLost
<1>12. CASE Tick \/ UNCHANGED vars
  <2>1. UNCHANGED <<mode, apc, messages, status, started, exiting, joinable>>
    BY <1>12 DEF Tick, vars
  <2> QED BY <2>1 DEF NothingIsLost, Located, ExitWaits, OwnWaits, ThreadGone, Open
<1> QED
  BY <1>1, <1>2, <1>3, <1>4, <1>5, <1>6, <1>7, <1>8, <1>9, <1>10, <1>11, <1>12
     DEF Next, Post, Loop, Exits

(***************************************************************************)
(* The safety half of TasksStart and ExitEndsUnblockedApp, for any number  *)
(* of threads and tasks: a task that was accepted is in the queue, has a   *)
(* timer or was started; the WM_QUIT of a BkExitApp is in the queue until  *)
(* the loop has taken it; and nothing but BkExitApp on its own thread in   *)
(* background mode makes the app wait for itself (win_app.cpp:96).         *)
(***************************************************************************)
THEOREM AppLosesNothing == Spec => []NothingIsLost
<1>1. Init => NothingIsLost
  BY DEF Init, NothingIsLost, Located, ExitWaits, OwnWaits, Range
<1> QED BY <1>1, AppInvariant, LosesNothing, PTL DEF Spec

-----------------------------------------------------------------------------
(* The messages come to their turn. *)

(* How far the app's thread is on its way through and out of its loop. *)
Stage ==
    IF apc = "unborn" THEN 6 ELSE IF apc \in {"outside", "starting"} THEN 5
    ELSE IF apc = "running" THEN 4 ELSE IF apc = "idle" THEN 3
    ELSE IF apc = "joining" THEN 2 ELSE IF apc = "leaving" THEN 1 ELSE 0

(***************************************************************************)
(* The first message is taken: WM_QUIT ends the loop, a task is started or *)
(* gets its timer.                                                         *)
(***************************************************************************)
TakesFirst ==
    /\ messages' = Tail(messages)
    /\ IF messages[1] = Quit THEN apc' = "leaving"
                             ELSE status'[messages[1]] \in {"timed", "running"}

(***************************************************************************)
(* Every message comes nearer to its turn: it keeps its place while the    *)
(* app's thread comes nearer to GetMessage or to its end, and moves up     *)
(* when the first is taken.  Neither a post from another thread nor a      *)
(* timer that is due goes before it, and WM_QUIT is a message like the     *)
(* others (win_app.cpp:96 and 136, win_single_thread_task_runner.cpp:51    *)
(* and 85).                                                                *)
(***************************************************************************)
MessagesAdvance ==
    \A i \in 1..Len(messages) :
        \/ /\ i <= Len(messages)' /\ messages'[i] = messages[i]
           /\ UNCHANGED apc \/ Stage' < Stage
        \/ i = 1 /\ TakesFirst
        \/ i > 1 /\ i - 1 <= Len(messages)' /\ messages'[i - 1] = messages[i]

(* A message that is sent goes behind the others. *)
LEMMA SentIsLast ==
    ASSUME TypeOK, NEW m \in Tasks \cup {Quit},
           SendMessage(m) \/ UNCHANGED messages,
           UNCHANGED apc \/ Stage' < Stage
    PROVE  MessagesAdvance
<1>1. messages \in Seq(Tasks \cup {Quit}) /\ Len(messages) \in Nat
  BY LenProperties DEF TypeOK
<1>2. /\ Len(Append(messages, m)) = Len(messages) + 1
      /\ \A i \in 1..Len(messages) : Append(messages, m)[i] = messages[i]
  BY <1>1, AppendProperties
<1>3. messages' = messages \/ messages' = Append(messages, m) BY DEF SendMessage
<1>4. \A i \in 1..Len(messages) : i <= Len(messages)' /\ messages'[i] = messages[i]
  BY ONLY <1>1, <1>2, <1>3
<1> QED BY ONLY <1>4, UNCHANGED apc \/ Stage' < Stage DEF MessagesAdvance

(* The message that is taken makes room for the others. *)
LEMMA TakenIsFirst ==
    ASSUME TypeOK, NEW m \in Tasks \cup {Quit}, Take(m),
           IF m = Quit THEN apc' = "leaving" ELSE status'[m] \in {"timed", "running"}
    PROVE  MessagesAdvance
<1>1. messages \in Seq(Tasks \cup {Quit}) /\ Len(messages) \in Nat
      /\ messages # <<>> /\ Head(messages) = m /\ messages' = Tail(messages)
  BY LenProperties DEF TypeOK, Take
<1>2. /\ messages[1] = m /\ Len(Tail(messages)) = Len(messages) - 1
      /\ \A j \in 1..(Len(messages) - 1) : Tail(messages)[j] = messages[j + 1]
  BY <1>1, HeadTailProperties
<1>3. TakesFirst BY <1>1, <1>2 DEF TakesFirst
<1>4. ASSUME NEW i \in 1..Len(messages), i > 1
      PROVE  i - 1 <= Len(messages)' /\ messages'[i - 1] = messages[i]
  <2>1. i - 1 \in 1..(Len(messages) - 1) /\ (i - 1) + 1 = i BY ONLY <1>1, <1>4
  <2>2. Len(messages)' = Len(messages) - 1 BY <1>1, <1>2
  <2> QED BY ONLY <1>1, <1>2, <2>1, <2>2
<1>5. \A i \in 1..Len(messages) : i = 1 \/ i > 1 BY ONLY <1>1
<1> QED BY ONLY <1>3, <1>4, <1>5 DEF MessagesAdvance

LEMMA StepAdvances == TypeOK /\ [Next]_vars => [MessagesAdvance]_vars
<1> SUFFICES ASSUME TypeOK, Next PROVE MessagesAdvance
  OBVIOUS
<1> USE DEF fixed, lifecycle
<1>1. ASSUME UNCHANGED messages, UNCHANGED apc \/ Stage' < Stage PROVE MessagesAdvance
  BY ONLY TypeOK, <1>1, SentIsLast
<1>2. CASE Initialize \/ RunApp \/ Finalize
  <2>1. UNCHANGED messages
    BY <1>2 DEF Initialize, InitializeMain, CreateBackgroundThread, StoreHandle,
       StartBackgroundApp, RunApp, Finalize
  <2>2. \/ UNCHANGED apc
        \/ apc = "unborn" /\ apc' \in {"outside", "starting"}
        \/ apc \in {"outside", "starting"} /\ apc' \in {"idle", "ended"}
    BY <1>2 DEF Initialize, InitializeMain, CreateBackgroundThread, StoreHandle,
       StartBackgroundApp, RunApp, Finalize
  <2>3. UNCHANGED apc \/ Stage' < Stage BY ONLY <2>2 DEF Stage
  <2> QED BY ONLY <1>1, <2>1, <2>3
<1>3. ASSUME NEW t \in Tasks, ProcessTask(t) \/ ProcessDelayedTask(t)
      PROVE  MessagesAdvance
  <2>1. Take(t) /\ status'[t] \in {"timed", "running"}
    BY <1>3 DEF ProcessTask, ProcessDelayedTask, Run, SetTimer, TypeOK
  <2>2. t # Quit BY QuitAssumption
  <2> QED BY ONLY TypeOK, <2>1, <2>2, TakenIsFirst
<1>4. ASSUME NEW t \in Tasks, ProcessTimer(t) PROVE MessagesAdvance
  <2>1. messages = <<>> BY <1>4 DEF ProcessTimer
  <2> QED BY <2>1 DEF MessagesAdvance
<1>5. CASE TakeQuit
  <2>1. Take(Quit) /\ apc' = "leaving" BY <1>5 DEF TakeQuit
  <2> QED BY ONLY TypeOK, <2>1, TakenIsFirst
<1>6. CASE (\E t \in Tasks : EndTask(t)) \/ DeleteApp \/ EndThread
  <2>1. UNCHANGED messages BY <1>6 DEF EndTask, DeleteApp, EndThread
  <2>2. \/ UNCHANGED apc
        \/ apc = "running" /\ apc' = "idle"
        \/ apc = "leaving" /\ apc' = "ended"
    BY <1>6 DEF EndTask, DeleteApp, EndThread
  <2>3. UNCHANGED apc \/ Stage' < Stage BY ONLY <2>2 DEF Stage
  <2> QED BY ONLY <1>1, <2>1, <2>3
<1>7. ASSUME NEW t \in Tasks, PostTimer(t) \/ \E c \in Callers : PostMessage(c, t)
      PROVE  MessagesAdvance
  <2>1. (SendMessage(t) \/ UNCHANGED messages) /\ UNCHANGED apc
    BY <1>7 DEF PostTimer, PostMessage
  <2> QED BY ONLY TypeOK, <2>1, SentIsLast
<1>8. ASSUME NEW c \in Callers, Exit(c) PROVE MessagesAdvance
  <2>1. SendMessage(Quit) BY <1>8 DEF Exit
  <2>2. UNCHANGED apc \/ (apc \in {"outside", "running"} /\ apc' = "joining")
    BY <1>8 DEF Exit, Calls
  <2>3. UNCHANGED apc \/ Stage' < Stage BY ONLY <2>2 DEF Stage
  <2> QED BY ONLY TypeOK, <2>1, <2>3, SentIsLast
<1>9. ASSUME NEW c \in Callers, ReadHandle(c) \/ Joined(c) PROVE MessagesAdvance
  BY <1>1, <1>9 DEF ReadHandle, Joined
<1>10. CASE Tick BY <1>1, <1>10 DEF Tick
<1> QED BY <1>2, <1>3, <1>4, <1>5, <1>6, <1>7, <1>8, <1>9, <1>10
        DEF Next, Loop, Post, Exits

(***************************************************************************)
(* No message is overtaken, for any number of threads and tasks.  With     *)
(* AppLosesNothing it is all of TasksStart, for tasks without delay, and   *)
(* of the way of WM_QUIT in ExitEndsUnblockedApp, but the fairness         *)
(* (win_app.cpp:96 and 136, win_single_thread_task_runner.cpp:51 and 85).  *)
(***************************************************************************)
THEOREM MessagesMoveUp == Spec => [][MessagesAdvance]_vars
BY StepAdvances, TypeCorrect, PTL DEF Spec

=============================================================================
