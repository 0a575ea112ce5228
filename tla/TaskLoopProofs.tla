--------------------------- MODULE TaskLoopProofs ----------------------------
(***************************************************************************)
(* What TaskLoop guarantees for any number of threads, tasks and exit      *)
(* codes, proved with TLAPS: the type invariant, the five-part inductive   *)
(* invariant and the safety properties that follow from it, measures of    *)
(* how far a task is from its start and Run from its end, and that the     *)
(* loop implements the abstract queue of TaskQueue.                        *)
(***************************************************************************)
EXTENDS TaskLoop, SequenceTheorems, TLAPS

-----------------------------------------------------------------------------
(* Sequences. *)

(* Pushing to the queue pushes behind the task in hand as well. *)
LEMMA AppendToConcat ==
    ASSUME NEW S, NEW s \in Seq(S), NEW t \in Seq(S), NEW x \in S
    PROVE  s \o Append(t, x) = Append(s \o t, x)
<1>1. /\ s \o Append(t, x) \in Seq(S) /\ Append(s \o t, x) \in Seq(S)
      /\ Len(s \o Append(t, x)) = Len(Append(s \o t, x))
  BY ConcatProperties
<1>2. ASSUME NEW i \in 1..Len(s \o Append(t, x))
      PROVE  (s \o Append(t, x))[i] = Append(s \o t, x)[i]
  <2>1. CASE i <= Len(s) BY <2>1, ConcatProperties
  <2>2. CASE i > Len(s) /\ i <= Len(s) + Len(t) BY <2>2, ConcatProperties
  <2>3. CASE i = Len(s) + Len(t) + 1 BY <2>3, ConcatProperties
  <2> QED BY <2>1, <2>2, <2>3, ConcatProperties
<1> QED BY <1>1, <1>2, SeqEqual

(* Starting a task moves it from the pending ones to the started ones. *)
LEMMA ConcatMovesHead ==
    ASSUME NEW S, NEW s \in Seq(S), NEW t \in Seq(S), NEW x \in S
    PROVE  s \o (<<x>> \o t) = Append(s, x) \o t
<1>1. <<x>> \in Seq(S) OBVIOUS
<1>2. s \o <<x>> = Append(s, x)
  <2>1. s \o <<x>> \in Seq(S) /\ Append(s, x) \in Seq(S)
    BY <1>1, ConcatProperties
  <2>2. Len(s \o <<x>>) = Len(Append(s, x))
    BY <1>1, ConcatProperties
  <2>3. \A i \in 1..Len(s \o <<x>>) : (s \o <<x>>)[i] = Append(s, x)[i]
    BY <1>1, ConcatProperties
  <2> QED BY <2>1, <2>2, <2>3, SeqEqual
<1>3. (s \o <<x>>) \o t = s \o (<<x>> \o t)
  BY <1>1, ConcatAssociative
<1> QED BY <1>2, <1>3

(* Popping the front of the queue loses nothing. *)
LEMMA HeadConcatTail ==
    ASSUME NEW S, NEW s \in Seq(S), s # <<>>
    PROVE  <<Head(s)>> \o Tail(s) = s
<1>1. Head(s) \in S /\ Tail(s) \in Seq(S) /\ Len(Tail(s)) = Len(s) - 1
      /\ \A i \in 1..Len(Tail(s)) : Tail(s)[i] = s[i + 1]
  BY HeadTailProperties
<1>2. <<Head(s)>> \in Seq(S) /\ Len(<<Head(s)>>) = 1 /\ Head(s) = s[1]
  BY <1>1
<1>3. \A i \in 1..Len(s) : (<<Head(s)>> \o Tail(s))[i] = s[i]
  BY <1>1, <1>2, ConcatProperties
<1>4. <<Head(s)>> \o Tail(s) \in Seq(S) /\ Len(<<Head(s)>> \o Tail(s)) = Len(s)
  BY <1>1, <1>2, ConcatProperties
<1> QED BY <1>3, <1>4, SeqEqual

-----------------------------------------------------------------------------
(* Types. *)

LEMMA TypeInit == Init => TypeOK
<1> SUFFICES ASSUME Init PROVE TypeOK
  OBVIOUS
<1>1. <<>> \in Seq(Tasks)
  BY EmptySeq
<1> QED BY <1>1 DEF Init, TypeOK, MainPC, Status

LEMMA PosterTypes ==
    ASSUME TypeOK, NEW t \in Tasks, TaskPoster(t)
    PROVE  /\ mpc' \in MainPC
           /\ queue' \in Seq(Tasks) /\ posted' \in Seq(Tasks)
           /\ status' \in [Tasks -> Status]
<1>1. CASE Alive
  <2>1. Append(queue, t) \in Seq(Tasks) /\ Append(posted, t) \in Seq(Tasks)
    BY DEF TypeOK
  <2>2. mpc' \in MainPC
    BY <1>1 DEF TaskPoster, Signal, TypeOK, MainPC
  <2> QED BY <1>1, <2>1, <2>2 DEF TaskPoster, TypeOK, Status
<1>2. CASE ~Alive
  BY <1>2 DEF TaskPoster, TypeOK, Status
<1> QED BY <1>1, <1>2

LEMMA TypeNext == TypeOK /\ [Next]_vars => TypeOK'
<1> SUFFICES ASSUME TypeOK, [Next]_vars PROVE TypeOK'
  OBVIOUS
<1>1. ASSUME NEW c \in Callers, NEW t \in Tasks, PostNow(c, t) PROVE TypeOK'
  BY <1>1, PosterTypes DEF PostNow, TypeOK
<1>2. ASSUME NEW c \in Callers, NEW t \in Tasks, PostDelayed(c, t) PROVE TypeOK'
  BY <1>2 DEF PostDelayed, TypeOK, Status
<1>3. ASSUME NEW t \in Tasks, DelayThread(t) PROVE TypeOK'
  BY <1>3, PosterTypes DEF DelayThread, TypeOK
<1>4. ASSUME NEW c \in Callers, NEW t \in Tasks, DelayThreadFails(c, t)
      PROVE  TypeOK'
  BY <1>4 DEF DelayThreadFails, TypeOK, Status
<1>5. ASSUME NEW c \in Callers, RefusePost(c) PROVE TypeOK'
  <2>1. sleeper[c] \in Tasks BY <1>5 DEF RefusePost, TypeOK
  <2> QED BY <1>5, <2>1, PosterTypes DEF RefusePost, TypeOK
<1>6. CASE EnterRun BY <1>6 DEF EnterRun, TypeOK, MainPC
<1>7. CASE WaitForWork BY <1>7 DEF WaitForWork, TypeOK, MainPC
<1>8. CASE SpuriousWakeup BY <1>8 DEF SpuriousWakeup, TypeOK, MainPC
<1>9. CASE PopFront
  <2>1. mpc' \in MainPC /\ sawExit' \in BOOLEAN
    BY <1>9 DEF PopFront, MainPC
  <2>2. /\ queue' \in Seq(Tasks) /\ inHand' \in Tasks \cup {None}
        /\ status' \in [Tasks -> Status]
    <3>1. CASE queue # <<>>
      <4>1. Head(queue) \in Tasks /\ Tail(queue) \in Seq(Tasks)
        BY <3>1, HeadTailProperties DEF TypeOK
      <4> QED BY <1>9, <3>1, <4>1 DEF PopFront, TypeOK, Status
    <3>2. CASE queue = <<>>
      BY <1>9, <3>2 DEF PopFront, TypeOK
    <3> QED BY <3>1, <3>2
  <2> QED BY <1>9, <2>1, <2>2 DEF PopFront, TypeOK
<1>10. CASE StartTask
  BY <1>10 DEF StartTask, TypeOK, MainPC, Status
<1>11. CASE FinishTask BY <1>11 DEF FinishTask, TypeOK, MainPC, Status
<1>12. CASE LeaveLoop BY <1>12 DEF LeaveLoop, TypeOK, MainPC, Status
<1>13. CASE ReturnCode BY <1>13 DEF ReturnCode, TypeOK, MainPC
<1>14. ASSUME NEW c \in Callers, NEW code \in Codes, Exit(c, code) PROVE TypeOK'
  BY <1>14 DEF Exit, Signal, TypeOK, MainPC
<1>15. CASE Destroy BY <1>15 DEF Destroy, TypeOK, MainPC, Status
<1>16. CASE UNCHANGED vars BY <1>16 DEF vars, TypeOK
<1> QED
  BY <1>1, <1>2, <1>3, <1>4, <1>5, <1>6, <1>7, <1>8, <1>9, <1>10, <1>11, <1>12,
     <1>13, <1>14, <1>15, <1>16 DEF Next, Posting, Looping

(***************************************************************************)
(* Every variable of the loop keeps its type: in particular Run returns a  *)
(* code some BkExitApp was called with, never another value.               *)
(***************************************************************************)
THEOREM TypeCorrect == Spec => []TypeOK
BY TypeInit, TypeNext, PTL DEF Spec

-----------------------------------------------------------------------------
(* The inductive invariant. *)

(***************************************************************************)
(* Where Run is says what it holds: outside the mutex there is a task in   *)
(* hand unless Run saw an exit code with the mutex held, and no turn ends  *)
(* with a task in hand.                                                    *)
(***************************************************************************)
Control ==
    /\ mpc \notin {"popped", "running"} => inHand = None
    /\ mpc = "running" => inHand # None
    /\ mpc = "popped" /\ inHand = None => sawExit
    /\ mpc = "popped" /\ sawExit => exitCode # None
    /\ mpc \in {"returning", "returned"} => exitCode # None

(***************************************************************************)
(* Once there is an exit code only a turn that had unlocked before it      *)
(* came can start a task, and the bound leaves room for that one.          *)
(***************************************************************************)
Bounded ==
    exitCode # None =>
        /\ Len(started) <= exitBound
        /\ mpc = "popped" /\ ~sawExit => Len(started) + 1 <= exitBound

(* A task no thread has pushed yet. *)
Fresh == {"new", "delayed", "held"}

(***************************************************************************)
(* A task that was pushed is never fresh again, wherever it is now; a      *)
(* held one belongs to the one caller that sleeps on it.                   *)
(***************************************************************************)
Accounted ==
    /\ \A i \in 1..Len(posted) : status[posted[i]] \notin Fresh
    /\ \A i \in 1..Len(queue) : status[queue[i]] \notin Fresh
    /\ inHand # None => status[inHand] \notin Fresh
    /\ \A c \in Callers : sleeper[c] # None => status[sleeper[c]] = "held"
    /\ \A c, d \in Callers :
          sleeper[c] # None /\ sleeper[c] = sleeper[d] => c = d

IInv == TypeOK /\ Control /\ Bounded /\ Accounted /\ Fifo

-----------------------------------------------------------------------------
(* Control and exit code. *)

LEMMA ControlNext == TypeOK /\ Control /\ [Next]_vars => Control'
<1> SUFFICES ASSUME TypeOK, Control, [Next]_vars PROVE Control'
  OBVIOUS
<1>0. ASSUME NEW t \in Tasks, TaskPoster(t),
             UNCHANGED <<exitCode, sawExit, inHand>>
      PROVE  Control'
  BY <1>0 DEF TaskPoster, Signal, Control
<1>1. ASSUME NEW c \in Callers, NEW t \in Tasks, PostNow(c, t) PROVE Control'
  BY <1>0, <1>1 DEF PostNow
<1>2. ASSUME NEW c \in Callers, NEW t \in Tasks, PostDelayed(c, t)
      PROVE  Control'
  BY <1>2 DEF PostDelayed, Control
<1>3. ASSUME NEW t \in Tasks, DelayThread(t) PROVE Control'
  BY <1>0, <1>3 DEF DelayThread
<1>4. ASSUME NEW c \in Callers, NEW t \in Tasks, DelayThreadFails(c, t)
      PROVE  Control'
  BY <1>4 DEF DelayThreadFails, Control
<1>5. ASSUME NEW c \in Callers, RefusePost(c) PROVE Control'
  <2>1. sleeper[c] \in Tasks BY <1>5 DEF RefusePost, TypeOK
  <2> QED BY <1>0, <1>5, <2>1 DEF RefusePost
<1>6. CASE EnterRun BY <1>6 DEF EnterRun, Control
<1>7. CASE WaitForWork BY <1>7 DEF WaitForWork, Control
<1>8. CASE SpuriousWakeup BY <1>8 DEF SpuriousWakeup, Control
<1>9. CASE PopFront
  <2>1. CASE queue # <<>>
    <3>1. inHand' \in Tasks
      BY <1>9, <2>1, HeadTailProperties DEF PopFront, TypeOK
    <3> QED BY <1>9, <3>1, NoneAssumption DEF PopFront, Control
  <2>2. CASE queue = <<>> BY <1>9, <2>2 DEF PopFront, Control
  <2> QED BY <2>1, <2>2
<1>10. CASE StartTask BY <1>10 DEF StartTask, Control
<1>11. CASE FinishTask BY <1>11 DEF FinishTask, Control
<1>12. CASE LeaveLoop BY <1>12 DEF LeaveLoop, ExitTests, Control
<1>13. CASE ReturnCode BY <1>13 DEF ReturnCode, Control
<1>14. ASSUME NEW c \in Callers, NEW code \in Codes, Exit(c, code)
       PROVE  Control'
  <2>1. code # None BY NoneAssumption
  <2> QED BY <1>14, <2>1 DEF Exit, Signal, Control
<1>15. CASE Destroy BY <1>15 DEF Destroy, Control
<1>16. CASE UNCHANGED vars BY <1>16 DEF vars, Control
<1> QED
  BY <1>1, <1>2, <1>3, <1>4, <1>5, <1>6, <1>7, <1>8, <1>9, <1>10, <1>11, <1>12,
     <1>13, <1>14, <1>15, <1>16 DEF Next, Posting, Looping

LEMMA BoundedNext == TypeOK /\ Control /\ Bounded /\ [Next]_vars => Bounded'
<1> SUFFICES ASSUME TypeOK, Control, Bounded, [Next]_vars PROVE Bounded'
  OBVIOUS
<1>a. Len(started) \in Nat BY LenProperties DEF TypeOK
<1>0. ASSUME NEW t \in Tasks, TaskPoster(t),
             UNCHANGED <<exitCode, sawExit, started, exitBound>>
      PROVE  Bounded'
  BY <1>0 DEF TaskPoster, Signal, Bounded
<1>1. ASSUME NEW c \in Callers, NEW t \in Tasks, PostNow(c, t) PROVE Bounded'
  BY <1>0, <1>1 DEF PostNow
<1>2. ASSUME NEW c \in Callers, NEW t \in Tasks, PostDelayed(c, t)
      PROVE  Bounded'
  BY <1>2 DEF PostDelayed, Bounded
<1>3. ASSUME NEW t \in Tasks, DelayThread(t) PROVE Bounded'
  BY <1>0, <1>3 DEF DelayThread
<1>4. ASSUME NEW c \in Callers, NEW t \in Tasks, DelayThreadFails(c, t)
      PROVE  Bounded'
  BY <1>4 DEF DelayThreadFails, Bounded
<1>5. ASSUME NEW c \in Callers, RefusePost(c) PROVE Bounded'
  <2>1. sleeper[c] \in Tasks BY <1>5 DEF RefusePost, TypeOK
  <2> QED BY <1>0, <1>5, <2>1 DEF RefusePost
<1>6. CASE EnterRun BY <1>6 DEF EnterRun, Bounded
<1>7. CASE WaitForWork BY <1>7 DEF WaitForWork, Bounded
<1>8. CASE SpuriousWakeup BY <1>8 DEF SpuriousWakeup, Bounded
<1>9. CASE PopFront BY <1>9 DEF PopFront, Bounded
<1>10. CASE StartTask
  <2>1. Len(started') = Len(started) + 1
    BY <1>10 DEF StartTask, TypeOK
  <2>2. exitCode # None => ~sawExit
    BY <1>10 DEF StartTask, ExitTests, TypeOK
  <2> QED BY <1>a, <1>10, <2>1, <2>2 DEF StartTask, Bounded
<1>11. CASE FinishTask BY <1>11 DEF FinishTask, Bounded
<1>12. CASE LeaveLoop BY <1>12 DEF LeaveLoop, Bounded
<1>13. CASE ReturnCode BY <1>13 DEF ReturnCode, Bounded
<1>14. ASSUME NEW c \in Callers, NEW code \in Codes, Exit(c, code)
       PROVE  Bounded'
  <2>1. mpc' = "popped" => mpc = "popped" BY <1>14 DEF Exit, Signal
  <2>2. CASE exitCode # None BY <1>14, <2>1, <2>2 DEF Exit, Bounded
  <2>3. CASE exitCode = None BY <1>14, <1>a, <2>1, <2>3 DEF Exit, Bounded
  <2> QED BY <2>2, <2>3
<1>15. CASE Destroy BY <1>15 DEF Destroy, Bounded
<1>16. CASE UNCHANGED vars BY <1>16 DEF vars, Bounded
<1> QED
  BY <1>1, <1>2, <1>3, <1>4, <1>5, <1>6, <1>7, <1>8, <1>9, <1>10, <1>11, <1>12,
     <1>13, <1>14, <1>15, <1>16 DEF Next, Posting, Looping

-----------------------------------------------------------------------------
(* What becomes of the tasks. *)

(* A push makes one fresh task that nobody sleeps on a queued one. *)
LEMMA PosterAccounts ==
    ASSUME TypeOK, Accounted, NEW t \in Tasks, status[t] \in Fresh,
           TaskPoster(t), inHand' = inHand,
           \A c \in Callers : sleeper'[c] # None => sleeper'[c] = sleeper[c],
           \A c \in Callers : sleeper'[c] # t
    PROVE  Accounted'
<1>1. status'[t] \notin Fresh /\ \A u \in Tasks : u # t => status'[u] = status[u]
  BY DEF TaskPoster, TypeOK, Fresh
<1>2. \A u \in Tasks : status[u] \notin Fresh => status'[u] \notin Fresh
  BY <1>1
<1>3. \A i \in 1..Len(posted') : status'[posted'[i]] \notin Fresh
  <2>1. CASE posted' = Append(posted, t) BY <1>1, <1>2, <2>1 DEF Accounted, TypeOK
  <2>2. CASE posted' = posted BY <1>2, <2>2, ElementOfSeq DEF Accounted, TypeOK
  <2> QED BY <2>1, <2>2 DEF TaskPoster
<1>4. \A i \in 1..Len(queue') : status'[queue'[i]] \notin Fresh
  <2>1. CASE queue' = Append(queue, t) BY <1>1, <1>2, <2>1 DEF Accounted, TypeOK
  <2>2. CASE queue' = queue BY <1>2, <2>2, ElementOfSeq DEF Accounted, TypeOK
  <2> QED BY <2>1, <2>2 DEF TaskPoster
<1>5. inHand' # None => status'[inHand'] \notin Fresh
  BY <1>2 DEF Accounted, TypeOK
<1>6. \A c \in Callers : sleeper'[c] # None => status'[sleeper'[c]] = "held"
  BY <1>1 DEF Accounted, TypeOK
<1>7. \A c, d \in Callers :
         sleeper'[c] # None /\ sleeper'[c] = sleeper'[d] => c = d
  BY DEF Accounted
<1> QED BY <1>3, <1>4, <1>5, <1>6, <1>7 DEF Accounted

(* Moving tasks that were pushed already disturbs no fresh task. *)
LEMMA MoveAccounts ==
    ASSUME TypeOK, Accounted, UNCHANGED <<posted, sleeper>>,
           \A u \in Tasks : status[u] \notin Fresh => status'[u] \notin Fresh,
           \A u \in Tasks : status[u] \in Fresh => status'[u] = status[u],
           \A i \in 1..Len(queue') : \E j \in 1..Len(queue) : queue'[i] = queue[j],
           inHand' \notin {None, inHand}
              => inHand' \in Tasks /\ status[inHand'] \notin Fresh
    PROVE  Accounted'
<1>1. \A i \in 1..Len(posted) : posted[i] \in Tasks
  BY ElementOfSeq DEF TypeOK
<1>2. \A i \in 1..Len(queue) : queue[i] \in Tasks
  BY ElementOfSeq DEF TypeOK
<1>3. \A i \in 1..Len(posted') : status'[posted'[i]] \notin Fresh
  BY <1>1 DEF Accounted
<1>4. \A i \in 1..Len(queue') : status'[queue'[i]] \notin Fresh
  BY <1>2 DEF Accounted
<1>5. inHand' # None => status'[inHand'] \notin Fresh
  BY DEF Accounted, TypeOK
<1>6. \A c \in Callers : sleeper'[c] # None => status'[sleeper'[c]] = "held"
  BY DEF Accounted, TypeOK, Fresh
<1>7. \A c, d \in Callers :
         sleeper'[c] # None /\ sleeper'[c] = sleeper'[d] => c = d
  BY DEF Accounted
<1> QED BY <1>3, <1>4, <1>5, <1>6, <1>7 DEF Accounted

LEMMA AccountedNext == TypeOK /\ Control /\ Accounted /\ [Next]_vars => Accounted'
<1> SUFFICES ASSUME TypeOK, Control, Accounted, [Next]_vars PROVE Accounted'
  OBVIOUS
<1>a. \A c \in Callers, t \in Tasks :
         status[t] \in {"new", "delayed"} => sleeper[c] # t
  BY NoneAssumption DEF Accounted, TypeOK
<1>1. ASSUME NEW c \in Callers, NEW t \in Tasks, PostNow(c, t) PROVE Accounted'
  BY <1>a, <1>1, PosterAccounts DEF PostNow, Fresh
<1>2. ASSUME NEW c \in Callers, NEW t \in Tasks, PostDelayed(c, t)
      PROVE  Accounted'
  BY <1>a, <1>2, ElementOfSeq DEF PostDelayed, Accounted, Fresh, TypeOK
<1>3. ASSUME NEW t \in Tasks, DelayThread(t) PROVE Accounted'
  BY <1>a, <1>3, PosterAccounts DEF DelayThread, Fresh
<1>4. ASSUME NEW c \in Callers, NEW t \in Tasks, DelayThreadFails(c, t)
      PROVE  Accounted'
  <2>1. status[t] = "new" /\ status' = [status EXCEPT ![t] = "held"]
        /\ sleeper' = [sleeper EXCEPT ![c] = t] /\ UNCHANGED <<posted, queue, inHand>>
    BY <1>4 DEF DelayThreadFails
  <2>2. \A i \in 1..Len(posted') : status'[posted'[i]] \notin Fresh
    BY <2>1, ElementOfSeq DEF Accounted, TypeOK, Fresh
  <2>3. \A i \in 1..Len(queue') : status'[queue'[i]] \notin Fresh
    BY <2>1, ElementOfSeq DEF Accounted, TypeOK, Fresh
  <2>4. inHand' # None => status'[inHand'] \notin Fresh
    BY <2>1 DEF Accounted, TypeOK, Fresh
  <2>5. \A d \in Callers : sleeper'[d] # None => status'[sleeper'[d]] = "held"
    BY <2>1 DEF Accounted, TypeOK
  <2>6. \A b, d \in Callers :
           sleeper'[b] # None /\ sleeper'[b] = sleeper'[d] => b = d
    BY <1>a, <2>1 DEF Accounted, TypeOK
  <2> QED BY <2>2, <2>3, <2>4, <2>5, <2>6 DEF Accounted
<1>5. ASSUME NEW c \in Callers, RefusePost(c) PROVE Accounted'
  <2>1. PICK t \in Tasks : t = sleeper[c] /\ TaskPoster(t)
    BY <1>5 DEF RefusePost, TypeOK
  <2>2. status[t] \in Fresh BY <2>1, NoneAssumption DEF Accounted, Fresh
  <2>3. sleeper' = [sleeper EXCEPT ![c] = None] /\ inHand' = inHand
    BY <1>5 DEF RefusePost
  <2>4. \A d \in Callers : sleeper'[d] # None => sleeper'[d] = sleeper[d]
    BY <2>3 DEF TypeOK
  <2>5. \A d \in Callers : sleeper'[d] # t
    BY <2>1, <2>3, NoneAssumption DEF Accounted, TypeOK
  <2> QED BY <2>1, <2>2, <2>3, <2>4, <2>5, PosterAccounts
<1>6. CASE EnterRun BY <1>6 DEF EnterRun, Accounted
<1>7. CASE WaitForWork BY <1>7 DEF WaitForWork, Accounted
<1>8. CASE SpuriousWakeup BY <1>8 DEF SpuriousWakeup, Accounted
<1>9. CASE PopFront
  <2>1. CASE queue # <<>>
    <3>1. /\ Head(queue) \in Tasks /\ Head(queue) = queue[1] /\ 1 \in 1..Len(queue)
          /\ Len(Tail(queue)) = Len(queue) - 1 /\ Len(queue) \in Nat
          /\ \A i \in 1..Len(Tail(queue)) : Tail(queue)[i] = queue[i + 1]
      BY <2>1, HeadTailProperties, EmptySeq DEF TypeOK
    <3>2. status[Head(queue)] \notin Fresh BY <3>1 DEF Accounted
    <3>3. /\ status' = [status EXCEPT ![Head(queue)] = "inhand"]
          /\ queue' = Tail(queue) /\ inHand' = Head(queue)
          /\ UNCHANGED <<posted, sleeper>>
      BY <1>9, <2>1 DEF PopFront
    <3>4. \A u \in Tasks : status[u] \notin Fresh => status'[u] \notin Fresh
      BY <3>3 DEF TypeOK, Fresh
    <3>5. \A u \in Tasks : status[u] \in Fresh => status'[u] = status[u]
      BY <3>2, <3>3 DEF TypeOK
    <3>6. \A i \in 1..Len(queue') : \E j \in 1..Len(queue) : queue'[i] = queue[j]
      <4>1. ASSUME NEW i \in 1..Len(queue')
            PROVE  i + 1 \in 1..Len(queue) /\ queue'[i] = queue[i + 1]
        BY <3>1, <3>3
      <4> QED BY <4>1
    <3> QED BY <3>1, <3>2, <3>3, <3>4, <3>5, <3>6, MoveAccounts
  <2>2. CASE queue = <<>> BY <1>9, <2>2 DEF PopFront, Accounted
  <2> QED BY <2>1, <2>2
<1>10. CASE StartTask
  <2>1. inHand \in Tasks /\ status[inHand] \notin Fresh
    BY <1>10 DEF StartTask, Accounted, TypeOK
  <2> QED BY <1>10, <2>1, MoveAccounts DEF StartTask, TypeOK, Fresh
<1>11. CASE FinishTask
  <2>1. inHand \in Tasks /\ status[inHand] \notin Fresh
    BY <1>11 DEF FinishTask, Control, Accounted, TypeOK
  <2> QED BY <1>11, <2>1, MoveAccounts DEF FinishTask, TypeOK, Fresh
<1>12. CASE LeaveLoop
  BY <1>12, MoveAccounts, NoneAssumption DEF LeaveLoop, Accounted, TypeOK, Fresh
<1>13. CASE ReturnCode BY <1>13 DEF ReturnCode, Accounted
<1>14. ASSUME NEW c \in Callers, NEW code \in Codes, Exit(c, code)
       PROVE  Accounted'
  BY <1>14 DEF Exit, Accounted
<1>15. CASE Destroy
  <2>1. \A u \in Range(queue) : status[u] \notin Fresh
    BY DEF Range, Accounted, TypeOK
  <2>2. /\ status' = [t \in Tasks |->
                        IF t \in Range(queue) THEN "discarded" ELSE status[t]]
        /\ queue' = <<>> /\ UNCHANGED <<posted, sleeper, inHand>>
    BY <1>15 DEF Destroy
  <2>3. \A u \in Tasks : status[u] \notin Fresh => status'[u] \notin Fresh
    BY <2>2 DEF Fresh
  <2>4. \A u \in Tasks : status[u] \in Fresh => status'[u] = status[u]
    BY <2>1, <2>2
  <2>5. 1..Len(queue') = {} BY <2>2
  <2> QED BY <2>2, <2>3, <2>4, <2>5, MoveAccounts
<1>16. CASE UNCHANGED vars BY <1>16 DEF vars, Accounted
<1> QED
  BY <1>1, <1>2, <1>3, <1>4, <1>5, <1>6, <1>7, <1>8, <1>9, <1>10, <1>11, <1>12,
     <1>13, <1>14, <1>15, <1>16 DEF Next, Posting, Looping

-----------------------------------------------------------------------------
(* Order. *)

LEMMA PendingType == TypeOK => Pending \in Seq(Tasks)
<1> SUFFICES ASSUME TypeOK PROVE Pending \in Seq(Tasks)
  OBVIOUS
<1>1. CASE mpc = "popped" /\ inHand # None
  <2>1. <<inHand>> \in Seq(Tasks) BY <1>1 DEF TypeOK
  <2> QED BY <1>1, <2>1, ConcatProperties DEF Pending, TypeOK
<1>2. CASE ~(mpc = "popped" /\ inHand # None)
  BY <1>2 DEF Pending, TypeOK
<1> QED BY <1>1, <1>2

(* The started tasks, then the pending ones, were pushed in that order. *)
Ordered == Open => posted = started \o Pending

(* The started tasks are the oldest pushes, no task is pushed twice. *)
OldestStart ==
    /\ Len(started) <= Len(posted)
    /\ \A i \in 1..Len(started) : started[i] = posted[i]

PushedOnce == \A i, j \in 1..Len(posted) : posted[i] = posted[j] => i = j

LEMMA FifoParts == Fifo <=> Ordered /\ OldestStart /\ PushedOnce
BY DEF Fifo, Ordered, OldestStart, PushedOnce

(* A push goes behind what is pending, also while Run has a task in hand. *)
LEMMA PushPending ==
    ASSUME TypeOK, NEW t \in Tasks, TaskPoster(t), Alive, inHand' = inHand
    PROVE  Pending' = Append(Pending, t) /\ posted' = Append(posted, t)
           /\ Open' = Open
<1>1. /\ queue' = Append(queue, t) /\ posted' = Append(posted, t)
      /\ mpc' = IF mpc = "waiting" THEN "locking" ELSE mpc
  BY DEF TaskPoster, Signal
<1>2. CASE mpc = "popped" /\ inHand # None
  <2>1. <<inHand>> \in Seq(Tasks) BY <1>2 DEF TypeOK
  <2>2. <<inHand>> \o Append(queue, t) = Append(<<inHand>> \o queue, t)
    BY <2>1, AppendToConcat DEF TypeOK
  <2> QED BY <1>1, <1>2, <2>2 DEF Pending, Open
<1>3. CASE ~(mpc = "popped" /\ inHand # None)
  BY <1>1, <1>3 DEF Pending, Open
<1> QED BY <1>2, <1>3

LEMMA PushFifo ==
    ASSUME TypeOK, Accounted, Fifo, NEW t \in Tasks, status[t] \in Fresh,
           TaskPoster(t), UNCHANGED <<inHand, started>>
    PROVE  Fifo'
<1>1. CASE Alive
  <2>1. posted' = Append(posted, t) BY <1>1 DEF TaskPoster
  <2>2. Ordered'
    <3>1. SUFFICES ASSUME Open PROVE posted' = started \o Pending'
      BY <1>1, PushPending DEF Ordered
    <3>2. posted = started \o Pending BY <3>1 DEF Fifo
    <3>3. started \o Append(Pending, t) = Append(started \o Pending, t)
      BY PendingType, AppendToConcat DEF TypeOK
    <3> QED BY <1>1, <3>2, <3>3, PushPending
  <2>3. OldestStart'
    BY <2>1 DEF Fifo, OldestStart, TypeOK
  <2>4. PushedOnce'
    <3>1. \A i \in 1..Len(posted) : posted[i] # t BY DEF Accounted
    <3> QED BY <2>1, <3>1 DEF Fifo, PushedOnce, TypeOK
  <2> QED BY <2>2, <2>3, <2>4, FifoParts DEF Fifo, Ordered, OldestStart, PushedOnce
<1>2. CASE ~Alive
  BY <1>2 DEF TaskPoster, Fifo, Alive, Open, Pending
<1> QED BY <1>1, <1>2

(* Starting takes the oldest pending task. *)
LEMMA StartPending ==
    ASSUME TypeOK, StartTask
    PROVE  /\ Open /\ Open' /\ inHand \in Tasks
           /\ Pending = <<inHand>> \o queue /\ Pending' = queue
           /\ started' = Append(started, inHand)
BY DEF StartTask, Open, Pending, TypeOK

LEMMA StartFifo ==
    ASSUME TypeOK, Fifo, StartTask
    PROVE  Fifo'
<1>1. posted' = posted BY DEF StartTask
<1>2. posted = started \o (<<inHand>> \o queue)
  BY StartPending DEF Fifo
<1>3. posted = Append(started, inHand) \o queue
  BY <1>2, StartPending, ConcatMovesHead DEF TypeOK
<1>4. Append(started, inHand) \in Seq(Tasks)
  BY StartPending DEF TypeOK
<1>5. Ordered' BY <1>1, <1>3, StartPending DEF Ordered
<1>6. OldestStart'
  <2> DEFINE s == Append(started, inHand)
  <2> HIDE DEF s
  <2>1. s \in Seq(Tasks) /\ queue \in Seq(Tasks) /\ posted = s \o queue
    BY <1>3, <1>4 DEF s, TypeOK
  <2>2. Len(s) <= Len(posted) BY <2>1, ConcatProperties, LenProperties
  <2>3. \A i \in 1..Len(s) : s[i] = posted[i]
    BY <2>1, ConcatProperties, LenProperties
  <2>4. started' = s BY StartPending DEF s
  <2> QED BY <1>1, <2>2, <2>3, <2>4 DEF OldestStart
<1>7. PushedOnce' BY <1>1 DEF Fifo, PushedOnce
<1> QED BY <1>5, <1>6, <1>7 DEF Fifo, Ordered, OldestStart, PushedOnce

(* The pop keeps what is pending: the popped task is the first of it. *)
LEMMA PopPending ==
    ASSUME TypeOK, Control, PopFront
    PROVE  Open /\ Open' /\ Pending' = Pending
<1>1. Open /\ Open' /\ Pending = queue BY DEF PopFront, Open, Pending
<1>2. CASE queue # <<>>
  <2>1. Head(queue) # None
    BY <1>2, HeadTailProperties, NoneAssumption DEF TypeOK
  <2>2. <<Head(queue)>> \o Tail(queue) = queue
    BY <1>2, HeadConcatTail DEF TypeOK
  <2>3. Pending' = queue BY <1>2, <2>1, <2>2 DEF PopFront, Pending
  <2> QED BY <1>1, <2>3
<1>3. CASE queue = <<>>
  <2>1. inHand' = None BY <1>3 DEF PopFront, Control
  <2> QED BY <1>1, <1>3, <2>1 DEF PopFront, Pending
<1> QED BY <1>2, <1>3

LEMMA FifoNext ==
    TypeOK /\ Control /\ Accounted /\ Fifo /\ [Next]_vars => Fifo'
<1> SUFFICES ASSUME TypeOK, Control, Accounted, Fifo, [Next]_vars PROVE Fifo'
  OBVIOUS
<1>0. ASSUME UNCHANGED <<posted, started>>, Open' => Open,
             Open' => Pending' = Pending
      PROVE  Fifo'
  BY <1>0 DEF Fifo
<1>1. ASSUME NEW c \in Callers, NEW t \in Tasks, PostNow(c, t) PROVE Fifo'
  BY <1>1, PushFifo DEF PostNow, Fresh
<1>2. ASSUME NEW c \in Callers, NEW t \in Tasks, PostDelayed(c, t) PROVE Fifo'
  BY <1>0, <1>2 DEF PostDelayed, Open, Pending
<1>3. ASSUME NEW t \in Tasks, DelayThread(t) PROVE Fifo'
  BY <1>3, PushFifo DEF DelayThread, Fresh
<1>4. ASSUME NEW c \in Callers, NEW t \in Tasks, DelayThreadFails(c, t) PROVE Fifo'
  BY <1>0, <1>4 DEF DelayThreadFails, Open, Pending
<1>5. ASSUME NEW c \in Callers, RefusePost(c) PROVE Fifo'
  <2>1. PICK t \in Tasks : t = sleeper[c] /\ TaskPoster(t)
    BY <1>5 DEF RefusePost, TypeOK
  <2>2. status[t] \in Fresh BY <2>1, NoneAssumption DEF Accounted, Fresh
  <2> QED BY <1>5, <2>1, <2>2, PushFifo DEF RefusePost
<1>6. CASE EnterRun BY <1>0, <1>6 DEF EnterRun, Open, Pending
<1>7. CASE WaitForWork BY <1>0, <1>7 DEF WaitForWork, Open, Pending
<1>8. CASE SpuriousWakeup BY <1>0, <1>8 DEF SpuriousWakeup, Open, Pending
<1>9. CASE PopFront BY <1>0, <1>9, PopPending DEF PopFront
<1>10. CASE StartTask BY <1>10, StartFifo
<1>11. CASE FinishTask BY <1>0, <1>11 DEF FinishTask, Open, Pending
<1>12. CASE LeaveLoop BY <1>0, <1>12 DEF LeaveLoop, Open
<1>13. CASE ReturnCode BY <1>0, <1>13 DEF ReturnCode, Open
<1>14. ASSUME NEW c \in Callers, NEW code \in Codes, Exit(c, code) PROVE Fifo'
  BY <1>0, <1>14 DEF Exit, Signal, Open, Pending
<1>15. CASE Destroy BY <1>0, <1>15 DEF Destroy, Open
<1>16. CASE UNCHANGED vars BY <1>0, <1>16 DEF vars, Open, Pending
<1> QED
  BY <1>1, <1>2, <1>3, <1>4, <1>5, <1>6, <1>7, <1>8, <1>9, <1>10, <1>11, <1>12,
     <1>13, <1>14, <1>15, <1>16 DEF Next, Posting, Looping

-----------------------------------------------------------------------------
(* The theorems. *)

LEMMA InvInit == Init => IInv
<1> SUFFICES ASSUME Init PROVE IInv
  OBVIOUS
<1>1. TypeOK BY TypeInit
<1>2. Control /\ Bounded /\ Accounted BY DEF Init, Control, Bounded, Accounted
<1>3. Fifo
  <2>1. <<>> \o <<>> = <<>> BY ConcatEmptySeq, EmptySeq
  <2> QED BY <2>1 DEF Init, Fifo, Open, Pending
<1> QED BY <1>1, <1>2, <1>3 DEF IInv

LEMMA InvNext == IInv /\ [Next]_vars => IInv'
BY TypeNext, ControlNext, BoundedNext, AccountedNext, FifoNext DEF IInv

LEMMA Invariance == Spec => []IInv
BY InvInit, InvNext, PTL DEF Spec

(***************************************************************************)
(* Tasks start in the order they were pushed, none twice, none skipped,    *)
(* whichever threads push them and however their pushes interleave with    *)
(* the critical sections of TaskLoop::Run.                                 *)
(***************************************************************************)
THEOREM StartsInOrder == Spec => []Fifo
<1>1. IInv => Fifo BY DEF IInv
<1> QED BY <1>1, Invariance, PTL

(***************************************************************************)
(* The ASSERTs of Run hold in spite of the test outside the mutex.         *)
(***************************************************************************)
THEOREM NoAssertFails == Spec => []AssertsHold
<1>1. IInv => AssertsHold
  BY DEF IInv, TypeOK, Control, AssertsHold, ExitTests
<1> QED BY <1>1, Invariance, PTL

(***************************************************************************)
(* After BkExitApp no task starts but the one Run had in hand.             *)
(***************************************************************************)
THEOREM ExitStopsStarts == Spec => []ExitIsPrompt
<1>1. IInv => ExitIsPrompt BY DEF IInv, Bounded, ExitIsPrompt
<1> QED BY <1>1, Invariance, PTL

-----------------------------------------------------------------------------
(* Waiting, and where each task is. *)

(***************************************************************************)
(* Run waits on m_cond only while there is nothing for it to do: the test  *)
(* and the wait are under m_mutex, and every push and every Exit signals.  *)
(***************************************************************************)
SleepsOnlyIdle == mpc = "waiting" => queue = <<>> /\ exitCode = None

(***************************************************************************)
(* Where each task is: in the queue, in Run's hand, or in the history of   *)
(* the started ones.  A task that was pushed and is in none of them was    *)
(* forgotten by the turn that broke out of Run, which was one task at the  *)
(* most and followed a BkExitApp, or was deleted with the loop.            *)
(***************************************************************************)
Located ==
    /\ \A t \in Tasks : status[t] = "queued" <=> t \in Range(queue)
    /\ \A t \in Tasks : status[t] = "inhand" <=> mpc = "popped" /\ t = inHand
    /\ \A t \in Tasks : status[t] = "running" <=> mpc = "running" /\ t = inHand
    /\ \A t \in Tasks : status[t] \in {"running", "done"} <=> t \in Range(started)

Forgotten ==
    /\ \A t \in Tasks : status[t] = "leaked" => ~Open /\ exitCode # None
    /\ \A t, u \in Tasks : status[t] = "leaked" /\ status[u] = "leaked" => t = u
    /\ \A t \in Tasks : status[t] \in {"discarded", "lost"} => ~Alive

NoTaskVanishes == Located /\ Forgotten

LEMMA SleepsNext == SleepsOnlyIdle /\ [Next]_vars => SleepsOnlyIdle'
<1> SUFFICES ASSUME SleepsOnlyIdle, [Next]_vars PROVE SleepsOnlyIdle'
  OBVIOUS
<1>1. ASSUME NEW t, TaskPoster(t), exitCode' = exitCode PROVE SleepsOnlyIdle'
  BY <1>1 DEF TaskPoster, Signal, Alive, SleepsOnlyIdle
<1>2. CASE Posting
  BY <1>1, <1>2 DEF Posting, PostNow, PostDelayed, DelayThread,
                    DelayThreadFails, RefusePost, SleepsOnlyIdle
<1>3. CASE Looping
  BY <1>3 DEF Looping, EnterRun, WaitForWork, SpuriousWakeup, PopFront,
              StartTask, FinishTask, LeaveLoop, ReturnCode, SleepsOnlyIdle
<1>4. ASSUME NEW c \in Callers, NEW code \in Codes, Exit(c, code)
      PROVE  SleepsOnlyIdle'
  BY <1>4 DEF Exit, Signal, SleepsOnlyIdle
<1>5. CASE Destroy BY <1>5 DEF Destroy, SleepsOnlyIdle
<1>6. CASE UNCHANGED vars BY <1>6 DEF vars, SleepsOnlyIdle
<1> QED BY <1>2, <1>3, <1>4, <1>5, <1>6 DEF Next

(* What a sequence holds after a push, and before and after a pop. *)
LEMMA RangeAppend ==
    ASSUME NEW S, NEW s \in Seq(S), NEW x \in S
    PROVE  Range(Append(s, x)) = Range(s) \cup {x}
<1>1. /\ DOMAIN s = 1..Len(s) /\ Len(s) \in Nat
      /\ DOMAIN Append(s, x) = 1..(Len(s) + 1)
      /\ Append(s, x)[Len(s) + 1] = x
      /\ \A i \in 1..Len(s) : Append(s, x)[i] = s[i]
  BY AppendProperties, LenProperties
<1>2. 1..(Len(s) + 1) = (1..Len(s)) \cup {Len(s) + 1}
  BY <1>1
<1> QED BY <1>1, <1>2, Zenon DEF Range

LEMMA RangeHeadTail ==
    ASSUME NEW S, NEW s \in Seq(S), s # <<>>,
           \A i, j \in 1..Len(s) : s[i] = s[j] => i = j
    PROVE  /\ Head(s) \in S /\ Head(s) \notin Range(Tail(s))
           /\ Range(s) = Range(Tail(s)) \cup {Head(s)}
<1>1. /\ Head(s) \in S /\ Head(s) = s[1] /\ Tail(s) \in Seq(S)
      /\ Len(s) \in Nat /\ Len(s) > 0 /\ Len(Tail(s)) = Len(s) - 1
      /\ DOMAIN s = 1..Len(s) /\ DOMAIN Tail(s) = 1..Len(Tail(s))
      /\ \A i \in 1..Len(Tail(s)) : Tail(s)[i] = s[i + 1]
  BY HeadTailProperties, LenProperties, EmptySeq
<1>2. ASSUME NEW i \in 1..Len(Tail(s)) PROVE s[1] # s[i + 1] /\ i + 1 \in 1..Len(s)
  BY <1>1
<1>3. Head(s) \notin Range(Tail(s))
  BY <1>1, <1>2 DEF Range
<1>4. ASSUME NEW x \in Range(s) PROVE x \in Range(Tail(s)) \cup {Head(s)}
  <2>1. PICK i \in 1..Len(s) : x = s[i] BY <1>1 DEF Range
  <2>2. CASE i = 1 BY <1>1, <2>1, <2>2
  <2>3. CASE i # 1
    <3>1. i - 1 \in 1..Len(Tail(s)) /\ s[(i - 1) + 1] = x BY <1>1, <2>1, <2>3
    <3> QED BY <1>1, <3>1 DEF Range
  <2> QED BY <2>2, <2>3
<1>5. ASSUME NEW x \in Range(Tail(s)) \cup {Head(s)} PROVE x \in Range(s)
  <2>1. CASE x = Head(s)
    <3>1. 1 \in 1..Len(s) BY <1>1
    <3> QED BY <1>1, <2>1, <3>1 DEF Range
  <2>2. CASE x \in Range(Tail(s))
    <3>1. PICK i \in 1..Len(Tail(s)) : x = Tail(s)[i] BY <1>1, <2>2 DEF Range
    <3> QED BY <1>1, <1>2, <3>1 DEF Range
  <2> QED BY <2>1, <2>2
<1> QED BY <1>1, <1>3, <1>4, <1>5

(* The queue of an open loop holds no task twice. *)
LEMMA QueueHasNoTwins ==
    ASSUME TypeOK, Fifo, mpc = "locking"
    PROVE  \A i, j \in 1..Len(queue) : queue[i] = queue[j] => i = j
<1>1. posted = started \o queue BY DEF Fifo, Open, Pending
<1>2. /\ Len(started) \in Nat /\ Len(queue) \in Nat
      /\ Len(posted) = Len(started) + Len(queue)
      /\ \A i \in 1..Len(queue) : posted[Len(started) + i] = queue[i]
  BY <1>1, ConcatProperties, LenProperties DEF TypeOK
<1>3. ASSUME NEW i \in 1..Len(queue), NEW j \in 1..Len(queue), queue[i] = queue[j]
      PROVE  i = j
  <2>1. /\ Len(started) + i \in 1..Len(posted) /\ Len(started) + j \in 1..Len(posted)
        /\ posted[Len(started) + i] = posted[Len(started) + j]
    BY <1>2, <1>3
  <2> QED BY <1>2, <2>1 DEF Fifo
<1> QED BY <1>3

(* A push puts a fresh task into the queue, or loses it with the loop. *)
LEMMA PosterLocates ==
    ASSUME TypeOK, NoTaskVanishes, NEW t \in Tasks, status[t] \in Fresh,
           TaskPoster(t), UNCHANGED <<exitCode, inHand, started>>
    PROVE  NoTaskVanishes'
<1>0. /\ mpc' = "popped" <=> mpc = "popped"
      /\ mpc' = "running" <=> mpc = "running"
      /\ Open' = Open /\ Alive' = Alive
  BY DEF TaskPoster, Signal, Open, Alive
<1>1. CASE Alive
  <2>1. /\ status' = [status EXCEPT ![t] = "queued"]
        /\ Range(queue') = Range(queue) \cup {t}
    <3>1. status' = [status EXCEPT ![t] = "queued"] /\ queue' = Append(queue, t)
      BY <1>1 DEF TaskPoster
    <3>2. queue \in Seq(Tasks) BY DEF TypeOK
    <3>3. Range(Append(queue, t)) = Range(queue) \cup {t}
      BY <3>2, RangeAppend
    <3> QED BY <3>1, <3>3
  <2>2. Located' BY <1>0, <2>1 DEF NoTaskVanishes, Located, Fresh, TypeOK
  <2>3. Forgotten' BY <1>0, <2>1 DEF NoTaskVanishes, Forgotten, TypeOK
  <2> QED BY <2>2, <2>3 DEF NoTaskVanishes
<1>2. CASE ~Alive
  <2>1. status' = [status EXCEPT ![t] = "lost"] /\ queue' = queue
    BY <1>2 DEF TaskPoster
  <2>2. Located' BY <1>0, <2>1 DEF NoTaskVanishes, Located, Fresh, TypeOK
  <2>3. Forgotten' BY <1>0, <1>2, <2>1 DEF NoTaskVanishes, Forgotten, TypeOK
  <2> QED BY <2>2, <2>3 DEF NoTaskVanishes
<1> QED BY <1>1, <1>2

LEMMA VanishNext ==
    IInv /\ NoTaskVanishes /\ [Next]_vars => NoTaskVanishes'
<1> SUFFICES ASSUME IInv, NoTaskVanishes, [Next]_vars PROVE NoTaskVanishes'
  OBVIOUS
<1> USE DEF IInv
<1>0. ASSUME UNCHANGED <<queue, exitCode, inHand, status, started>>,
             (mpc' = "popped") = (mpc = "popped"),
             (mpc' = "running") = (mpc = "running"),
             Open' => Open, Alive' = Alive
      PROVE  NoTaskVanishes'
  BY <1>0 DEF NoTaskVanishes, Located, Forgotten
<1>1. ASSUME NEW c \in Callers, NEW t \in Tasks, PostNow(c, t)
      PROVE  NoTaskVanishes'
  BY <1>1, PosterLocates DEF PostNow, Fresh
<1>2. ASSUME NEW c \in Callers, NEW t \in Tasks, PostDelayed(c, t)
      PROVE  NoTaskVanishes'
  BY <1>2 DEF PostDelayed, NoTaskVanishes, Located, Forgotten, TypeOK, Open, Alive
<1>3. ASSUME NEW t \in Tasks, DelayThread(t) PROVE NoTaskVanishes'
  BY <1>3, PosterLocates DEF DelayThread, Fresh
<1>4. ASSUME NEW c \in Callers, NEW t \in Tasks, DelayThreadFails(c, t)
      PROVE  NoTaskVanishes'
  BY <1>4 DEF DelayThreadFails, NoTaskVanishes, Located, Forgotten, TypeOK, Open, Alive
<1>5. ASSUME NEW c \in Callers, RefusePost(c) PROVE NoTaskVanishes'
  <2>1. PICK t \in Tasks : t = sleeper[c] /\ TaskPoster(t)
    BY <1>5 DEF RefusePost, TypeOK
  <2>2. status[t] \in Fresh BY <2>1, NoneAssumption DEF Accounted, Fresh
  <2> QED BY <1>5, <2>1, <2>2, PosterLocates DEF RefusePost
<1>6. CASE EnterRun BY <1>0, <1>6 DEF EnterRun, Open, Alive
<1>7. CASE WaitForWork BY <1>0, <1>7 DEF WaitForWork, Open, Alive
<1>8. CASE SpuriousWakeup BY <1>0, <1>8 DEF SpuriousWakeup, Open, Alive
<1>9. CASE PopFront
  <2>0. Open /\ Open' /\ Alive /\ Alive' /\ UNCHANGED <<exitCode, started>>
        /\ mpc = "locking" /\ mpc' = "popped" /\ inHand = None
    BY <1>9 DEF PopFront, Open, Alive, Control
  <2>1. CASE queue # <<>>
    <3> DEFINE h == Head(queue)
    <3>1. /\ h \in Tasks /\ h \notin Range(Tail(queue))
          /\ Range(queue) = Range(Tail(queue)) \cup {h}
      <4>1. queue \in Seq(Tasks) BY DEF TypeOK
      <4>2. \A i, j \in 1..Len(queue) : queue[i] = queue[j] => i = j
        BY <2>0, QueueHasNoTwins
      <4> QED BY <2>1, <4>1, <4>2, RangeHeadTail
    <3>2. /\ status' = [status EXCEPT ![h] = "inhand"]
          /\ queue' = Tail(queue) /\ inHand' = h
      BY <1>9, <2>1 DEF PopFront
    <3> HIDE DEF h
    <3>3. Located' BY <2>0, <3>1, <3>2 DEF NoTaskVanishes, Located, TypeOK
    <3>4. Forgotten' BY <2>0, <3>1, <3>2 DEF NoTaskVanishes, Forgotten, TypeOK
    <3> QED BY <3>3, <3>4 DEF NoTaskVanishes
  <2>2. CASE queue = <<>>
    <3>1. UNCHANGED <<queue, inHand, status>> BY <1>9, <2>2 DEF PopFront
    <3> QED BY <2>0, <3>1, NoneAssumption DEF NoTaskVanishes, Located, Forgotten
  <2> QED BY <2>1, <2>2
<1>10. CASE StartTask
  <2>1. /\ inHand \in Tasks /\ UNCHANGED <<queue, exitCode, inHand>>
        /\ mpc = "popped" /\ mpc' = "running" /\ Open /\ Open' /\ Alive /\ Alive'
        /\ status' = [status EXCEPT ![inHand] = "running"]
        /\ Range(started') = Range(started) \cup {inHand}
    <3>1. /\ inHand \in Tasks /\ UNCHANGED <<queue, exitCode, inHand>>
          /\ mpc = "popped" /\ mpc' = "running" /\ Open /\ Open' /\ Alive /\ Alive'
          /\ status' = [status EXCEPT ![inHand] = "running"]
          /\ started' = Append(started, inHand)
      BY <1>10 DEF StartTask, TypeOK, Open, Alive
    <3>2. started \in Seq(Tasks) BY DEF TypeOK
    <3>3. Range(Append(started, inHand)) = Range(started) \cup {inHand}
      BY <3>1, <3>2, RangeAppend
    <3> QED BY <3>1, <3>3
  <2>2. Located' BY <2>1 DEF NoTaskVanishes, Located, TypeOK
  <2>3. Forgotten' BY <2>1 DEF NoTaskVanishes, Forgotten, TypeOK
  <2> QED BY <2>2, <2>3 DEF NoTaskVanishes
<1>11. CASE FinishTask
  <2>1. /\ inHand \in Tasks /\ UNCHANGED <<queue, exitCode, started>>
        /\ inHand' = None
        /\ mpc = "running" /\ mpc' = "locking" /\ Open /\ Open' /\ Alive /\ Alive'
        /\ status' = [status EXCEPT ![inHand] = "done"]
    BY <1>11 DEF FinishTask, Control, TypeOK, Open, Alive
  <2>2. Located' BY <2>1 DEF NoTaskVanishes, Located, TypeOK
  <2>3. Forgotten' BY <2>1 DEF NoTaskVanishes, Forgotten, TypeOK
  <2> QED BY <2>2, <2>3 DEF NoTaskVanishes
<1>12. CASE LeaveLoop
  <2>1. /\ UNCHANGED <<queue, exitCode, started>>
        /\ mpc = "popped" /\ mpc' = "returning" /\ Open /\ ~Open' /\ Alive /\ Alive'
        /\ status' = [t \in Tasks |-> IF t = inHand THEN "leaked" ELSE status[t]]
        /\ exitCode # None
    BY <1>12 DEF LeaveLoop, ExitTests, Control, Open, Alive
  <2>2. Located' BY <2>1 DEF NoTaskVanishes, Located
  <2>3. Forgotten' BY <2>1 DEF NoTaskVanishes, Forgotten
  <2> QED BY <2>2, <2>3 DEF NoTaskVanishes
<1>13. CASE ReturnCode BY <1>0, <1>13 DEF ReturnCode, Open, Alive
<1>14. ASSUME NEW c \in Callers, NEW code \in Codes, Exit(c, code)
       PROVE  NoTaskVanishes'
  <2>1. /\ UNCHANGED <<queue, inHand, status, started>> /\ exitCode' # None
        /\ (mpc' = "popped") = (mpc = "popped")
        /\ (mpc' = "running") = (mpc = "running")
        /\ Open' = Open /\ Alive' = Alive
    BY <1>14, NoneAssumption DEF Exit, Signal, Open, Alive
  <2> QED BY <2>1 DEF NoTaskVanishes, Located, Forgotten
<1>15. CASE Destroy
  <2>1. /\ UNCHANGED <<exitCode, inHand, started>> /\ queue' = <<>>
        /\ mpc \in {"returned", "idle"} /\ mpc' = "destroyed"
        /\ ~Open' /\ ~Alive' /\ Alive
        /\ status' = [t \in Tasks |->
                        IF t \in Range(queue) THEN "discarded" ELSE status[t]]
    BY <1>15 DEF Destroy, Open, Alive
  <2>2. Range(queue') = {} BY <2>1 DEF Range
  <2>3. Located' BY <2>1, <2>2 DEF NoTaskVanishes, Located
  <2>4. Forgotten' BY <2>1 DEF NoTaskVanishes, Forgotten
  <2> QED BY <2>3, <2>4 DEF NoTaskVanishes
<1>16. CASE UNCHANGED vars BY <1>0, <1>16 DEF vars, Open, Alive
<1> QED
  BY <1>1, <1>2, <1>3, <1>4, <1>5, <1>6, <1>7, <1>8, <1>9, <1>10, <1>11, <1>12,
     <1>13, <1>14, <1>15, <1>16 DEF Next, Posting, Looping

(***************************************************************************)
(* The safety half of QueuedTasksStart and ExitEndsRun: no wakeup is lost, *)
(* for any number of threads.  While Run waits on m_cond the queue is      *)
(* empty and nobody has called BkExitApp (task_loop.cpp:60, 71 and 84).    *)
(***************************************************************************)
THEOREM NoWakeupIsLost == Spec => []SleepsOnlyIdle
<1>1. Init => SleepsOnlyIdle BY DEF Init, SleepsOnlyIdle
<1> QED BY <1>1, SleepsNext, PTL DEF Spec

(***************************************************************************)
(* A task that was pushed is queued, in hand or started, each exactly when *)
(* its place says so, but for the one the turn that saw the exit code had  *)
(* popped (task_loop.cpp:93) and those deleted with the loop (line 41).    *)
(***************************************************************************)
THEOREM TasksAreAccounted == Spec => []NoTaskVanishes
<1>1. Init => NoTaskVanishes
  BY NoneAssumption DEF Init, NoTaskVanishes, Located, Forgotten, Range
<1> QED BY <1>1, Invariance, VanishNext, InvInit, InvNext, PTL DEF Spec

-----------------------------------------------------------------------------
(* The loop comes to its next task, and to its end.                        *)

(* How far Run is from the pop of its next task. *)
Stage ==
    IF mpc = "idle" THEN 4 ELSE IF mpc = "popped" THEN 3
    ELSE IF mpc = "running" THEN 2 ELSE 1

(***************************************************************************)
(* Every queued task comes nearer to its start with every step of Run: it  *)
(* keeps its place while Run comes nearer to its pop, which moves it up by *)
(* one place or puts it in hand.  No post and no other thread puts it back *)
(* or keeps Run from its turn, and only the end of the loop loses it       *)
(* (task_loop.cpp:69 against 79-97).                                       *)
(***************************************************************************)
QueueAdvances ==
    \A i \in 1..Len(queue) :
        \/ ~Open' /\ (exitCode # None \/ mpc = "idle")
        \/ /\ i <= Len(queue)' /\ queue'[i] = queue[i]
           /\ UNCHANGED mpc \/ Stage' < Stage
        \/ i = 1 /\ inHand' = queue[1]
        \/ i > 1 /\ i - 1 <= Len(queue)' /\ queue'[i - 1] = queue[i]

(* How many moves Run has left once there is an exit code. *)
MovesLeft ==
    IF mpc \in {"returned", "destroyed"} THEN 0
    ELSE IF mpc = "returning" THEN 1
    ELSE IF mpc = "popped" /\ sawExit THEN 2
    ELSE IF mpc = "locking" THEN 3
    ELSE IF mpc = "running" THEN 4
    ELSE IF mpc = "popped" THEN 5 ELSE 6

(***************************************************************************)
(* After BkExitApp every move of Run is one of at most six that are left,  *)
(* or the deletion of the loop: a full queue, a busy poster or a race with *)
(* the test of m_exitCode cannot keep it running (task_loop.cpp:84-100).   *)
(***************************************************************************)
ExitAdvances ==
    exitCode # None =>
        \/ UNCHANGED <<mpc, sawExit>> \/ MovesLeft' < MovesLeft
        \/ mpc = "returned" /\ mpc' = "destroyed"

(* A post adds behind the queue and wakes nobody but a loop without work. *)
LEMMA PosterAdvances ==
    ASSUME TypeOK, SleepsOnlyIdle, NEW t \in Tasks, TaskPoster(t), UNCHANGED sawExit
    PROVE  QueueAdvances /\ ExitAdvances
<1>1. Len(queue) \in Nat BY LenProperties DEF TypeOK
<1>2. queue # <<>> \/ exitCode # None => UNCHANGED mpc
  BY DEF TaskPoster, Signal, SleepsOnlyIdle
<1>3. ASSUME NEW i \in 1..Len(queue) PROVE i <= Len(queue)' /\ queue'[i] = queue[i]
  <2>1. queue' = queue \/ queue' = Append(queue, t) BY DEF TaskPoster
  <2>2. Len(Append(queue, t)) = Len(queue) + 1 /\ Append(queue, t)[i] = queue[i]
    BY <1>1, AppendProperties DEF TypeOK
  <2> QED BY ONLY <1>1, <1>3, <2>1, <2>2
<1>4. queue = <<>> => 1..Len(queue) = {} OBVIOUS
<1> QED BY ONLY <1>2, <1>3, <1>4, UNCHANGED sawExit DEF QueueAdvances, ExitAdvances

(* The pop moves every task up by one place. *)
LEMMA PopAdvances ==
    ASSUME TypeOK, PopFront
    PROVE  QueueAdvances /\ ExitAdvances
<1>1. queue \in Seq(Tasks) /\ Len(queue) \in Nat BY LenProperties DEF TypeOK
<1>2. ASSUME NEW i \in 1..Len(queue)
      PROVE  \/ i = 1 /\ inHand' = queue[1]
             \/ i > 1 /\ i - 1 <= Len(queue)' /\ queue'[i - 1] = queue[i]
  <2>1. queue # <<>> BY <1>2
  <2>2. inHand' = Head(queue) /\ queue' = Tail(queue) BY <2>1 DEF PopFront
  <2>3. /\ Head(queue) = queue[1] /\ Len(Tail(queue)) = Len(queue) - 1
        /\ \A j \in 1..(Len(queue) - 1) : Tail(queue)[j] = queue[j + 1]
    BY <1>1, <2>1, HeadTailProperties
  <2>4. Len(queue)' = Len(queue) - 1 BY <2>2, <2>3
  <2>5. CASE i = 1 BY ONLY <2>2, <2>3, <2>5
  <2>6. CASE i > 1
    <3>1. i - 1 \in 1..(Len(queue) - 1) /\ (i - 1) + 1 = i BY ONLY <1>1, <1>2, <2>6
    <3> QED BY ONLY <1>1, <2>2, <2>3, <2>4, <2>6, <3>1
  <2> QED BY ONLY <1>2, <2>5, <2>6
<1>3. mpc = "locking" /\ mpc' = "popped" /\ (exitCode # None => sawExit')
  BY DEF PopFront
<1>4. exitCode # None => MovesLeft' < MovesLeft
  BY ONLY <1>3 DEF MovesLeft
<1> QED BY ONLY <1>2, <1>4 DEF QueueAdvances, ExitAdvances

LEMMA LoopAdvances ==
    ASSUME IInv, SleepsOnlyIdle, Next
    PROVE  QueueAdvances /\ ExitAdvances
<1> DEFINE Kept == UNCHANGED queue
<1>1. TypeOK /\ Control BY DEF IInv
<1>2. Len(queue) \in Nat BY <1>1, LenProperties DEF TypeOK
<1>3. ASSUME Kept, UNCHANGED mpc \/ Stage' < Stage PROVE QueueAdvances
  BY ONLY <1>2, <1>3 DEF QueueAdvances
<1>4. CASE Posting
  <2>1. ASSUME NEW t \in Tasks, TaskPoster(t), UNCHANGED sawExit
        PROVE  QueueAdvances /\ ExitAdvances
    BY <1>1, <2>1, PosterAdvances
  <2>2. ASSUME NEW c \in Callers, NEW t \in Tasks, PostDelayed(c, t) \/ DelayThreadFails(c, t)
        PROVE  QueueAdvances /\ ExitAdvances
    BY <1>3, <2>2 DEF PostDelayed, DelayThreadFails, ExitAdvances
  <2>3. \A c \in Callers : RefusePost(c) => sleeper[c] \in Tasks
    BY <1>1 DEF RefusePost, TypeOK
  <2> QED BY <1>4, <2>1, <2>2, <2>3 DEF Posting, PostNow, DelayThread, RefusePost
<1>5. CASE EnterRun \/ WaitForWork \/ SpuriousWakeup \/ StartTask \/ FinishTask
  <2>1. \/ mpc = "idle" /\ mpc' = "locking"
        \/ mpc = "popped" /\ mpc' = "running"
        \/ mpc = "running" /\ mpc' = "locking"
        \/ (mpc = "locking" \/ mpc = "waiting") /\ queue = <<>> /\ exitCode = None
    BY <1>5 DEF EnterRun, WaitForWork, SpuriousWakeup, StartTask, FinishTask, SleepsOnlyIdle
  <2>2. Kept BY <1>5 DEF EnterRun, WaitForWork, SpuriousWakeup, StartTask, FinishTask
  <2>3. queue = <<>> => QueueAdvances BY DEF QueueAdvances
  <2>4. queue = <<>> \/ Stage' < Stage BY ONLY <2>1 DEF Stage
  <2>5. mpc = "popped" /\ mpc' = "running" => ~sawExit \/ exitCode = None
    BY <1>1, <1>5 DEF StartTask, EnterRun, WaitForWork, SpuriousWakeup, FinishTask,
       ExitTests, Control, TypeOK
  <2>6. ExitAdvances BY ONLY <2>1, <2>5 DEF ExitAdvances, MovesLeft
  <2> QED BY ONLY <1>3, <2>2, <2>3, <2>4, <2>6
<1>6. CASE PopFront BY <1>1, <1>6, PopAdvances
<1>7. CASE LeaveLoop \/ ReturnCode
  <2>1. \/ mpc = "popped" /\ mpc' = "returning"
        \/ mpc = "returning" /\ mpc' = "returned"
    BY <1>7 DEF LeaveLoop, ReturnCode
  <2>2. exitCode # None
    BY <1>1, <1>7 DEF LeaveLoop, ReturnCode, ExitTests, Control, TypeOK
  <2>3. ~Open' BY ONLY <2>1 DEF Open
  <2>4. MovesLeft' < MovesLeft BY ONLY <2>1 DEF MovesLeft
  <2> QED BY ONLY <2>2, <2>3, <2>4 DEF QueueAdvances, ExitAdvances
<1>8. ASSUME NEW c \in Callers, NEW code \in Codes, Exit(c, code)
      PROVE  QueueAdvances /\ ExitAdvances
  <2>1. Kept /\ UNCHANGED sawExit BY <1>8 DEF Exit
  <2>2. queue = <<>> => QueueAdvances BY DEF QueueAdvances
  <2>3. (queue = <<>> /\ exitCode = None) \/ UNCHANGED mpc
    BY <1>8 DEF Exit, Signal, SleepsOnlyIdle
  <2> QED BY ONLY <1>3, <2>1, <2>2, <2>3 DEF ExitAdvances
<1>9. CASE Destroy
  <2>1. /\ mpc = "returned" \/ mpc = "idle"
        /\ mpc' = "destroyed" /\ (mpc = "returned" => exitCode # None)
    BY <1>1, <1>9 DEF Destroy, Control
  <2>2. ~Open' BY ONLY <2>1 DEF Open
  <2>3. mpc = "idle" => MovesLeft' < MovesLeft BY ONLY <2>1 DEF MovesLeft
  <2> QED BY ONLY <2>1, <2>2, <2>3 DEF QueueAdvances, ExitAdvances
<1> QED BY <1>4, <1>5, <1>6, <1>7, <1>8, <1>9 DEF Next, Looping

LEMMA StepAdvances ==
    IInv /\ SleepsOnlyIdle /\ [Next]_vars => [QueueAdvances /\ ExitAdvances]_vars
BY LoopAdvances

(***************************************************************************)
(* A queued task is overtaken by none and only waits for those before it:  *)
(* place and stage together go down until it starts, for any number of     *)
(* threads and tasks, which with NoWakeupIsLost is all of QueuedTasksStart *)
(* but the fairness (task_loop.cpp:69 and 79-97).                          *)
(***************************************************************************)
THEOREM QueueMovesUp == Spec => [][QueueAdvances]_vars
BY StepAdvances, Invariance, NoWakeupIsLost, PTL DEF Spec

(***************************************************************************)
(* Run has at most six moves left after BkExitApp, one task among them at  *)
(* most, which with NoWakeupIsLost is all of ExitEndsRun but the fairness  *)
(* (task_loop.cpp:84-100).                                                 *)
(***************************************************************************)
THEOREM ExitIsNear == Spec => [][ExitAdvances]_vars
BY StepAdvances, Invariance, NoWakeupIsLost, PTL DEF Spec

-----------------------------------------------------------------------------
(* Refinement: each step of the loop is a step of TaskQueue or none.       *)

(* While the loop is open, what it pends and starts was pushed. *)
LEMMA FreshIsNew ==
    ASSUME IInv, Open, NEW t \in Tasks, status[t] \in Fresh
    PROVE  t \notin Range(Pending) \cup Range(started)
<1>1. posted = started \o Pending /\ started \in Seq(Tasks) /\ Pending \in Seq(Tasks)
  BY PendingType DEF IInv, TypeOK, Fifo
<1>2. \A i \in 1..Len(posted) : posted[i] # t BY DEF IInv, Accounted
<1>3. \A i \in 1..Len(started) : started[i] # t
  BY <1>1, <1>2, ConcatProperties, LenProperties
<1>4. ASSUME NEW i \in 1..Len(Pending) PROVE Pending[i] # t
  <2>1. /\ Len(started) + i \in 1..Len(posted)
        /\ posted[Len(started) + i] = Pending[i]
    BY <1>1, ConcatProperties, LenProperties
  <2> QED BY <1>2, <2>1
<1> QED BY <1>1, <1>3, <1>4, LenProperties DEF Range

(* A step that changes neither what is pending nor what started. *)
LEMMA Stutters ==
    ASSUME started' = started, Open' = Open, Open => Pending' = Pending
    PROVE  UNCHANGED TQ!vars
BY DEF TQ!vars

LEMMA PushRefines ==
    ASSUME IInv, NEW t \in Tasks, status[t] \in Fresh, TaskPoster(t),
           UNCHANGED <<inHand, started>>
    PROVE  TQ!Submit(t) \/ UNCHANGED TQ!vars
<1>1. CASE Alive /\ Open
  <2>1. Pending' = Append(Pending, t) /\ Open'
    BY <1>1, PushPending DEF IInv
  <2> QED BY <1>1, <2>1, FreshIsNew DEF TQ!Submit, TQ!Range, Range
<1>2. CASE Alive /\ ~Open
  BY <1>2, PushPending, Stutters DEF IInv
<1>3. CASE ~Alive
  BY <1>3, Stutters DEF TaskPoster, Alive, Open
<1> QED BY <1>1, <1>2, <1>3

LEMMA StartRefines ==
    ASSUME IInv, StartTask
    PROVE  TQ!Start
<1>1. /\ Open /\ Open' /\ inHand \in Tasks /\ queue \in Seq(Tasks)
      /\ Pending = <<inHand>> \o queue /\ Pending' = queue
      /\ started' = Append(started, inHand)
  BY StartPending DEF IInv, TypeOK
<1>2. /\ Pending # <<>> /\ Head(Pending) = inHand /\ Tail(Pending) = queue
  <2> DEFINE s == <<inHand>>
  <2>1. s \in Seq(Tasks) /\ Len(s) = 1 /\ s[1] = inHand BY <1>1
  <2>2. /\ s \o queue \in Seq(Tasks) /\ Len(s \o queue) = 1 + Len(queue)
        /\ (s \o queue)[1] = inHand
        /\ \A i \in 1..Len(queue) : (s \o queue)[i + 1] = queue[i]
    <3> HIDE DEF s
    <3>1. Len(queue) \in Nat BY <1>1, LenProperties
    <3>2. /\ s \o queue \in Seq(Tasks) /\ Len(s \o queue) = 1 + Len(queue)
          /\ \A i \in 1..(1 + Len(queue)) : (s \o queue)[i] =
                IF i <= 1 THEN s[i] ELSE queue[i - 1]
      <4>1. /\ s \o queue \in Seq(Tasks)
            /\ Len(s \o queue) = Len(s) + Len(queue)
            /\ \A i \in 1..(Len(s) + Len(queue)) : (s \o queue)[i] =
                  IF i <= Len(s) THEN s[i] ELSE queue[i - Len(s)]
        BY <1>1, <2>1, ConcatProperties
      <4>2. Len(s) = 1 BY <2>1
      <4> QED BY <4>1, <4>2, Zenon
    <3>3. (s \o queue)[1] = inHand BY <2>1, <3>1, <3>2
    <3>4. ASSUME NEW i \in 1..Len(queue) PROVE (s \o queue)[i + 1] = queue[i]
      <4>1. i + 1 \in 1..(1 + Len(queue)) /\ ~(i + 1 <= 1) /\ (i + 1) - 1 = i
        BY <3>1
      <4> QED BY <3>2, <4>1
    <3> QED BY <3>2, <3>3, <3>4
  <2> HIDE DEF s
  <2>3. s \o queue # <<>> BY <1>1, <2>2, LenProperties
  <2>4. Head(s \o queue) = inHand BY <2>2
  <2>5. Tail(s \o queue) = queue
    BY <1>1, <2>2, <2>3, HeadTailProperties, LenProperties, SeqEqual
  <2> QED BY <1>1, <2>3, <2>4, <2>5 DEF s
<1> QED BY <1>1, <1>2 DEF TQ!Start

LEMMA StepRefines == IInv /\ [Next]_vars => [TQ!Next]_(TQ!vars)
<1> SUFFICES ASSUME IInv, [Next]_vars PROVE TQ!Next \/ UNCHANGED TQ!vars
  OBVIOUS
<1>1. ASSUME NEW c \in Callers, NEW t \in Tasks, PostNow(c, t)
      PROVE  TQ!Next \/ UNCHANGED TQ!vars
  BY <1>1, PushRefines DEF PostNow, Fresh, TQ!Next
<1>2. ASSUME NEW c \in Callers, NEW t \in Tasks, PostDelayed(c, t)
      PROVE  UNCHANGED TQ!vars
  BY <1>2, Stutters DEF PostDelayed, Open, Pending
<1>3. ASSUME NEW t \in Tasks, DelayThread(t)
      PROVE  TQ!Next \/ UNCHANGED TQ!vars
  BY <1>3, PushRefines DEF DelayThread, Fresh, TQ!Next
<1>4. ASSUME NEW c \in Callers, NEW t \in Tasks, DelayThreadFails(c, t)
      PROVE  UNCHANGED TQ!vars
  BY <1>4, Stutters DEF DelayThreadFails, Open, Pending
<1>5. ASSUME NEW c \in Callers, RefusePost(c)
      PROVE  TQ!Next \/ UNCHANGED TQ!vars
  <2>1. PICK t \in Tasks : t = sleeper[c] /\ TaskPoster(t)
    BY <1>5 DEF RefusePost, IInv, TypeOK
  <2>2. status[t] \in Fresh BY <2>1, NoneAssumption DEF IInv, Accounted, Fresh
  <2> QED BY <1>5, <2>1, <2>2, PushRefines DEF RefusePost, TQ!Next
<1>6. CASE EnterRun BY <1>6, Stutters DEF EnterRun, Open, Pending
<1>7. CASE WaitForWork BY <1>7, Stutters DEF WaitForWork, Open, Pending
<1>8. CASE SpuriousWakeup BY <1>8, Stutters DEF SpuriousWakeup, Open, Pending
<1>9. CASE PopFront BY <1>9, PopPending, Stutters DEF PopFront, IInv
<1>10. CASE StartTask BY <1>10, StartRefines DEF TQ!Next
<1>11. CASE FinishTask BY <1>11, Stutters DEF FinishTask, Open, Pending
<1>12. CASE LeaveLoop
  <2>1. TQ!Close BY <1>12 DEF LeaveLoop, TQ!Close, Open
  <2> QED BY <2>1 DEF TQ!Next
<1>13. CASE ReturnCode BY <1>13, Stutters DEF ReturnCode, Open
<1>14. ASSUME NEW c \in Callers, NEW code \in Codes, Exit(c, code)
       PROVE  UNCHANGED TQ!vars
  BY <1>14, Stutters DEF Exit, Signal, Open, Pending
<1>15. CASE Destroy
  <2>1. CASE mpc = "returned" BY <1>15, <2>1, Stutters DEF Destroy, Open
  <2>2. CASE mpc = "idle"
    <3>1. TQ!Close BY <1>15, <2>2 DEF Destroy, TQ!Close, Open
    <3> QED BY <3>1 DEF TQ!Next
  <2> QED BY <1>15, <2>1, <2>2 DEF Destroy
<1>16. CASE UNCHANGED vars BY <1>16, Stutters DEF vars, Open, Pending
<1> QED
  BY <1>1, <1>2, <1>3, <1>4, <1>5, <1>6, <1>7, <1>8, <1>9, <1>10, <1>11, <1>12,
     <1>13, <1>14, <1>15, <1>16 DEF Next, Posting, Looping

(***************************************************************************)
(* Mutex, condition variable, delay threads and the racy test of the exit  *)
(* code implement the plain queue of TaskQueue, for any number of threads  *)
(* and tasks.                                                              *)
(***************************************************************************)
THEOREM LoopIsAQueue == Spec => Implements
<1>1. Init => TQ!Init
  BY DEF Init, TQ!Init, Open, Pending
<1> QED BY <1>1, StepRefines, Invariance, PTL DEF Spec, Implements, TQ!Spec

=============================================================================
