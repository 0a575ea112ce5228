---------------------------- MODULE HttpLoadProofs ----------------------------
(***************************************************************************)
(* Proofs about HttpLoad, for any number of loads of any kind: types, one  *)
(* outcome at most, no use of a deleted object, no page without consent,   *)
(* no load forgotten and none put off; and that HttpLoad implements        *)
(* LoadContract.                                                           *)
(*                                                                         *)
(* The inductive invariant says of one load in whose hands it is: its      *)
(* thread's, a queued closure's, the callback's or the controller's        *)
(* holder's, never two at once (Hands), and what each hand finds.  Of the  *)
(* queue it needs to know only that no load is queued twice (OneClosure).  *)
(***************************************************************************)
EXTENDS HttpLoad, SequenceTheorems, TLAPS

OneClosure ==
    \A i, j \in 1..Len(queue) : queue[i].load = queue[j].load => i = j

(* Nothing has happened to a load before LoadAsynchronously. *)
Untouched(l) ==
    l \notin issued =>
        /\ task[l] = "none" /\ freed[l] = 0 /\ refs[l] = 0
        /\ worker[l] = "none" /\ outcome[l] = <<>>
        /\ cancel[l] = None /\ answer[l] = None
        /\ l \notin controller /\ ~Pending(l)

(* The thread of the request, before and after it reports a failure. *)
InThread(l) ==
    /\ worker[l] \in {"performing", "failing"} =>
          /\ task[l] = "live" /\ l \notin controller
          /\ answer[l] = None /\ cancel[l] = None
    /\ worker[l] = "performing" => outcome[l] = <<>> /\ ~Pending(l)
    /\ worker[l] = "failing" =>
          outcome[l] # <<>> \/ Queued("ErrorWorker", l) \/ ~open
    /\ worker[l] \in {"performing", "failing", "releasing"} =>
          refs[l] = 1 /\ freed[l] = 0
    /\ worker[l] \in {"none", "done"} => refs[l] = 0

(* A closure on its way to the main thread. *)
InQueue(l) ==
    /\ Pending(l) =>
          /\ outcome[l] = <<>> /\ l \notin controller
          /\ answer[l] = None /\ cancel[l] = None
    /\ Queued("DoContinue", l) \/ Queued("ProcessRequestComplete", l) =>
          /\ task[l] = "live" /\ response[l]
          /\ worker[l] \notin {"performing", "failing"}
    /\ Queued("DoContinue", l) => kind[l] = "Script"
    /\ Queued("ErrorWorker", l) =>
          task[l] # "live" \/ worker[l] = "failing" \/ freed[l] = 2

(* The callback and the holder of the controller. *)
WithCrawler(l) ==
    /\ asking = l => l \in controller /\ open
    /\ calling[l] <=> asking = l
    /\ l \in controller =>
          /\ kind[l] = "MainHTML" /\ outcome[l] = <<>>
          /\ task[l] = "live" /\ response[l]
          /\ asking # l => cancel[l] = None
          /\ cancel[l] = None => answer[l] = None
          /\ cancel[l] = FALSE => answer[l] = "continue"
          /\ cancel[l] = TRUE => answer[l] = "cancel"

(* After the load. *)
Ended(l) ==
    /\ outcome[l] \in {<<>>, <<"finished">>, <<"failed">>}
    /\ kind[l] = "MainHTML" /\ outcome[l] = <<"finished">> => answer[l] = "continue"
    /\ outcome[l] # <<>> =>
          task[l] # "live" \/ worker[l] = "failing" \/ freed[l] = 2
    /\ task[l] = "deleted" =>
          outcome[l] # <<>> \/ Queued("ErrorWorker", l) \/ ~open
    /\ l \in issued /\ outcome[l] = <<>> /\ open =>
          \/ worker[l] = "performing" \/ Pending(l)
          \/ l \in controller \/ answer[l] = "cancel"

LoadInv(l) ==
    Untouched(l) /\ InThread(l) /\ InQueue(l) /\ WithCrawler(l) /\ Ended(l)

IInv == TypeOK /\ OneClosure /\ \A l \in Loads : LoadInv(l)

-----------------------------------------------------------------------------
(* The queue. *)

(* The three things an action does to it, seen from one closure. *)
Posted(fn, l) ==
    \A f \in Fns, m \in Loads : Queued(f, m)' <=> Queued(f, m) \/ (open /\ f = fn /\ m = l)

Taken(fn, l) ==
    /\ Queued(fn, l)
    /\ \A f \in Fns, m \in Loads : Queued(f, m)' <=> Queued(f, m) /\ m # l

Kept == \A f \in Fns, m \in Loads : Queued(f, m)' <=> Queued(f, m)

(* A posted closure is the only one of its load if there was none. *)
LEMMA PostQueue ==
    ASSUME queue \in Seq(Closures), OneClosure,
           NEW fn \in Fns, NEW l \in Loads, Post(fn, l), ~Pending(l)
    PROVE  queue' \in Seq(Closures) /\ OneClosure' /\ Posted(fn, l)
  <1> DEFINE c == [fn |-> fn, load |-> l]
  <1>1. CASE ~open
    BY <1>1 DEF Post, OneClosure, Posted, Queued, Contains
  <1>2. CASE open
    <2>1. c \in Closures /\ queue' = Append(queue, c)
      BY <1>2 DEF Post, Closures, Fns
    <2>2. /\ queue' \in Seq(Closures) /\ Len(queue') = Len(queue) + 1
          /\ \A i \in 1..Len(queue) : queue'[i] = queue[i]
          /\ queue'[Len(queue) + 1] = c
      BY <2>1, AppendProperties
    <2>3. \A i \in 1..Len(queue) : queue[i].load # l
      <3>1. SUFFICES ASSUME NEW i \in 1..Len(queue), queue[i].load = l PROVE FALSE
        OBVIOUS
      <3>2. queue[i] \in Closures
        BY ElementOfSeq
      <3>3. queue[i].fn \in Fns /\ queue[i] = [fn |-> queue[i].fn, load |-> l]
        BY <3>1, <3>2 DEF Closures, Fns
      <3> QED
        BY <3>3 DEF Pending, Queued, Contains
    <2>4. OneClosure'
      BY <2>2, <2>3 DEF OneClosure
    <2>5. ASSUME NEW f \in Fns, NEW m \in Loads
          PROVE  Queued(f, m)' <=> Queued(f, m) \/ (f = fn /\ m = l)
      <3> DEFINE d == [fn |-> f, load |-> m]
      <3>1. c = d <=> f = fn /\ m = l
        OBVIOUS
      <3>2. Queued(f, m)' <=> \E i \in 1..(Len(queue) + 1) : queue'[i] = d
        BY <2>2 DEF Queued, Contains
      <3>3. Queued(f, m) <=> \E i \in 1..Len(queue) : queue[i] = d
        BY DEF Queued, Contains
      <3> HIDE DEF c, d
      <3> QED
        BY <2>2, <3>1, <3>2, <3>3
    <2> QED
      BY <1>2, <2>2, <2>4, <2>5 DEF Posted
  <1> QED
    BY <1>1, <1>2

(* The closure that is taken was the only one of its load. *)
LEMMA DispatchQueue ==
    ASSUME queue \in Seq(Closures), OneClosure,
           NEW fn \in Fns, NEW l \in Loads, Dispatch(fn, l)
    PROVE  queue' \in Seq(Closures) /\ OneClosure' /\ Taken(fn, l)
  <1> DEFINE c == [fn |-> fn, load |-> l]
  <1>1. /\ queue # <<>> /\ queue' = Tail(queue) /\ Head(queue) = c
    BY DEF Dispatch
  <1>2. /\ queue' \in Seq(Closures) /\ Len(queue') = Len(queue) - 1
        /\ \A i \in 1..Len(queue') : queue'[i] = queue[i + 1]
        /\ queue[1] = c
    BY <1>1, HeadTailProperties
  <1>3. Len(queue) \in Nat \ {0}
    BY <1>1, EmptySeq, LenProperties
  <1>4. OneClosure'
    BY <1>2, <1>3 DEF OneClosure
  <1>5. Queued(fn, l)
    BY <1>2, <1>3 DEF Queued, Contains
  <1>6. ASSUME NEW f \in Fns, NEW m \in Loads
        PROVE  Queued(f, m)' <=> Queued(f, m) /\ m # l
    <2> DEFINE d == [fn |-> f, load |-> m]
    <2>1. c.load = l /\ d.load = m
      OBVIOUS
    <2>2. Queued(f, m)' <=> \E i \in 1..Len(queue') : queue[i + 1] = d
      BY <1>2 DEF Queued, Contains
    <2>3. Queued(f, m) <=> \E i \in 1..Len(queue) : queue[i] = d
      BY DEF Queued, Contains
    <2> HIDE DEF c, d
    <2>4. ASSUME NEW i \in 1..Len(queue'), queue[i + 1] = d
          PROVE  Queued(f, m) /\ m # l
      <3>1. i + 1 \in 1..Len(queue) /\ i + 1 # 1 /\ 1 \in 1..Len(queue)
        BY <1>2, <1>3
      <3> QED
        BY <3>1, <1>2, <2>1, <2>3, <2>4 DEF OneClosure
    <2>5. ASSUME Queued(f, m), m # l
          PROVE  Queued(f, m)'
      <3>1. PICK i \in 1..Len(queue) : queue[i] = d
        BY <2>3, <2>5
      <3>2. i # 1
        BY <1>2, <2>1, <2>5, <3>1
      <3>3. i - 1 \in 1..Len(queue') /\ queue[(i - 1) + 1] = d
        BY <1>2, <1>3, <3>1, <3>2
      <3> QED
        BY <2>2, <3>3
    <2> QED
      BY <2>2, <2>4, <2>5
  <1> QED
    BY <1>2, <1>4, <1>5, <1>6 DEF Taken

LEMMA SameQueue ==
    ASSUME queue' = queue, OneClosure
    PROVE  OneClosure' /\ Kept
  BY DEF OneClosure, Kept, Queued, Contains

-----------------------------------------------------------------------------
(* One load does not disturb another. *)

Same(m) ==
    /\ open' = open /\ kind'[m] = kind[m]
    /\ m \in issued' <=> m \in issued
    /\ task'[m] = task[m] /\ response'[m] = response[m]
    /\ calling'[m] = calling[m] /\ cancel'[m] = cancel[m]
    /\ asking' = m <=> asking = m
    /\ m \in controller' <=> m \in controller
    /\ refs'[m] = refs[m] /\ freed'[m] = freed[m] /\ worker'[m] = worker[m]
    /\ outcome'[m] = outcome[m] /\ answer'[m] = answer[m]
    /\ \A f \in Fns : Queued(f, m)' <=> Queued(f, m)

LEMMA Frame ==
    ASSUME NEW m \in Loads, LoadInv(m), Same(m)
    PROVE  LoadInv(m)'
  <1>1. /\ Pending(m)' <=> Pending(m)
        /\ Queued("DoContinue", m)' <=> Queued("DoContinue", m)
        /\ Queued("ProcessRequestComplete", m)' <=> Queued("ProcessRequestComplete", m)
        /\ Queued("ErrorWorker", m)' <=> Queued("ErrorWorker", m)
    BY DEF Same, Pending, Fns
  <1>2. Untouched(m)'
    BY <1>1 DEF Same, LoadInv, Untouched
  <1>3. InThread(m)'
    BY <1>1 DEF Same, LoadInv, InThread
  <1>4. InQueue(m)'
    BY <1>1 DEF Same, LoadInv, InQueue
  <1>5. WithCrawler(m)'
    BY <1>1 DEF Same, LoadInv, WithCrawler
  <1>6. Ended(m)'
    BY <1>1 DEF Same, LoadInv, Ended
  <1> QED
    BY <1>2, <1>3, <1>4, <1>5, <1>6 DEF LoadInv

LEMMA OthersKept ==
    ASSUME IInv, NEW l \in Loads, TypeOK', OneClosure', LoadInv(l)',
           \A m \in Loads : m # l => Same(m)
    PROVE  IInv'
  <1>1. ASSUME NEW m \in Loads PROVE LoadInv(m)'
    <2>1. CASE m = l
      BY <2>1
    <2>2. CASE m # l
      BY <2>2, Frame DEF IInv
    <2> QED
      BY <2>1, <2>2
  <1> QED
    BY <1>1 DEF IInv

LEMMA InitHolds == Init => IInv
  <1> SUFFICES ASSUME Init PROVE IInv
    OBVIOUS
  <1>1. queue = <<>> /\ Len(queue) = 0 /\ queue \in Seq(Closures)
    BY EmptySeq DEF Init
  <1>2. OneClosure /\ \A f \in Fns, l \in Loads : ~Queued(f, l)
    BY <1>1 DEF OneClosure, Queued, Contains
  <1>3. TypeOK
    <2>1. <<>> \in Seq({"finished", "failed"})
      BY EmptySeq
    <2> QED
      BY <1>1, <2>1 DEF Init, TypeOK, WorkerPC
  <1>4. ASSUME NEW l \in Loads PROVE LoadInv(l)
    BY <1>2, NoLoadAssumption
       DEF Init, LoadInv, Untouched, InThread, InQueue, WithCrawler, Ended, Pending, Fns
  <1> QED
    BY <1>2, <1>3, <1>4 DEF IInv

USE NoLoadAssumption, UnsetAssumption DEF taskVars, requestVars, fixed, WorkerPC

-----------------------------------------------------------------------------
(* LoadAsynchronously. *)

LEMMA LoadOtherSchemeKeeps ==
    ASSUME IInv, NEW l \in Loads, LoadOtherScheme(l)
    PROVE  IInv'
  <1>1. queue \in Seq(Closures) /\ OneClosure /\ LoadInv(l)
    BY DEF IInv, TypeOK
  <1>2. Post("ErrorWorker", l) /\ ~Pending(l)
    BY <1>1 DEF LoadOtherScheme, Issue, LoadInv, Untouched, InThread
  <1>3. queue' \in Seq(Closures) /\ OneClosure' /\ Posted("ErrorWorker", l)
    BY <1>1, <1>2, PostQueue DEF Fns
  <1>4. UNCHANGED outcome
    BY DEF LoadOtherScheme, Issue
  <1>5. TypeOK'
    BY <1>1, <1>3, <1>4 DEF IInv, TypeOK, LoadOtherScheme, Issue, LoadInv,
       Untouched, InThread
  <1>6. LoadInv(l)'
    <2>1. Untouched(l)'
      BY <1>1, <1>3, <1>4 DEF LoadOtherScheme, Issue, Posted, IInv, TypeOK,
         LoadInv, Untouched
    <2>2. InThread(l)'
      BY <1>1, <1>3, <1>4 DEF LoadOtherScheme, Issue, Posted, IInv, TypeOK,
         LoadInv, Untouched, InThread, Pending, Fns
    <2>3. InQueue(l)'
      BY <1>1, <1>3, <1>4 DEF LoadOtherScheme, Issue, Posted, IInv, TypeOK,
         LoadInv, Untouched, InQueue, Pending, Fns
    <2>4. WithCrawler(l)'
      BY <1>1, <1>3, <1>4 DEF LoadOtherScheme, Issue, Posted, IInv, TypeOK,
         LoadInv, WithCrawler
    <2>5. Ended(l)'
      BY <1>1, <1>3, <1>4 DEF LoadOtherScheme, Issue, Posted, IInv, TypeOK,
         LoadInv, Ended, Pending, Fns
    <2> QED
      BY <2>1, <2>2, <2>3, <2>4, <2>5 DEF LoadInv
  <1>7. ASSUME NEW m \in Loads, m # l PROVE Same(m)
    BY <1>1, <1>3, <1>4, <1>7 DEF LoadOtherScheme, Issue, Posted, IInv, TypeOK, Same
  <1> QED
    BY <1>3, <1>5, <1>6, <1>7, OthersKept

LEMMA LoadHijackedKeeps ==
    ASSUME IInv, NEW l \in Loads, LoadHijacked(l)
    PROVE  IInv'
  <1>1. queue \in Seq(Closures) /\ OneClosure /\ LoadInv(l)
    BY DEF IInv, TypeOK
  <1>2. Post("DoContinue", l) /\ ~Pending(l)
    BY <1>1 DEF LoadHijacked, Issue, LoadInv, Untouched, InThread
  <1>3. queue' \in Seq(Closures) /\ OneClosure' /\ Posted("DoContinue", l)
    BY <1>1, <1>2, PostQueue DEF Fns
  <1>4. UNCHANGED outcome
    BY DEF LoadHijacked, Issue
  <1>5. TypeOK'
    BY <1>1, <1>3, <1>4 DEF IInv, TypeOK, LoadHijacked, Issue, LoadInv, Untouched,
       InThread
  <1>6. LoadInv(l)'
    <2>1. Untouched(l)'
      BY <1>1, <1>3, <1>4 DEF LoadHijacked, Issue, Posted, IInv, TypeOK, LoadInv,
         Untouched
    <2>2. InThread(l)'
      BY <1>1, <1>3, <1>4 DEF LoadHijacked, Issue, Posted, IInv, TypeOK, LoadInv,
         Untouched, InThread, Pending, Fns
    <2>3. InQueue(l)'
      BY <1>1, <1>3, <1>4 DEF LoadHijacked, Issue, Posted, IInv, TypeOK, LoadInv,
         Untouched, InQueue, Pending, Fns
    <2>4. WithCrawler(l)'
      BY <1>1, <1>3, <1>4 DEF LoadHijacked, Issue, Posted, IInv, TypeOK, LoadInv,
         WithCrawler
    <2>5. Ended(l)'
      BY <1>1, <1>3, <1>4 DEF LoadHijacked, Issue, Posted, IInv, TypeOK, LoadInv,
         Untouched, Ended, Pending, Fns
    <2> QED
      BY <2>1, <2>2, <2>3, <2>4, <2>5 DEF LoadInv
  <1>7. ASSUME NEW m \in Loads, m # l PROVE Same(m)
    BY <1>1, <1>3, <1>4, <1>7 DEF LoadHijacked, Issue, Posted, IInv, TypeOK, Same
  <1> QED
    BY <1>3, <1>5, <1>6, <1>7, OthersKept

LEMMA LoadFromNetworkKeeps ==
    ASSUME IInv, NEW l \in Loads, LoadFromNetwork(l)
    PROVE  IInv'
  <1>1. queue \in Seq(Closures) /\ OneClosure /\ LoadInv(l)
    BY DEF IInv, TypeOK
  <1>2. queue' = queue
    BY DEF LoadFromNetwork, Issue
  <1>3. queue' \in Seq(Closures) /\ OneClosure' /\ Kept
    BY <1>1, <1>2, SameQueue
  <1>4. UNCHANGED outcome
    BY DEF LoadFromNetwork, Issue
  <1>5. TypeOK'
    BY <1>1, <1>3, <1>4 DEF IInv, TypeOK, LoadFromNetwork, Issue, LoadInv,
       Untouched, InThread
  <1>6. LoadInv(l)'
    <2>1. Untouched(l)'
      BY <1>1, <1>3, <1>4 DEF LoadFromNetwork, Issue, Kept, IInv, TypeOK, LoadInv,
         Untouched
    <2>2. InThread(l)'
      BY <1>1, <1>3, <1>4 DEF LoadFromNetwork, Issue, Kept, IInv, TypeOK, LoadInv,
         Untouched, InThread, Pending, Fns
    <2>3. InQueue(l)'
      BY <1>1, <1>3, <1>4 DEF LoadFromNetwork, Issue, Kept, IInv, TypeOK, LoadInv,
         Untouched, InQueue, Pending, Fns
    <2>4. WithCrawler(l)'
      BY <1>1, <1>3, <1>4 DEF LoadFromNetwork, Issue, Kept, IInv, TypeOK, LoadInv,
         WithCrawler
    <2>5. Ended(l)'
      BY <1>1, <1>3, <1>4 DEF LoadFromNetwork, Issue, Kept, IInv, TypeOK, LoadInv,
         Untouched, Ended, Pending, Fns
    <2> QED
      BY <2>1, <2>2, <2>3, <2>4, <2>5 DEF LoadInv
  <1>7. ASSUME NEW m \in Loads, m # l PROVE Same(m)
    BY <1>1, <1>3, <1>4, <1>7 DEF LoadFromNetwork, Issue, Kept, IInv, TypeOK, Same
  <1> QED
    BY <1>3, <1>5, <1>6, <1>7, OthersKept

LEMMA PerformFailsKeeps ==
    ASSUME IInv, NEW l \in Loads, PerformFails(l)
    PROVE  IInv'
  <1>1. queue \in Seq(Closures) /\ OneClosure /\ LoadInv(l)
    BY DEF IInv, TypeOK
  <1>2. Post("ErrorWorker", l) /\ ~Pending(l)
    BY <1>1 DEF PerformFails, Issue, LoadInv, Untouched, InThread
  <1>3. queue' \in Seq(Closures) /\ OneClosure' /\ Posted("ErrorWorker", l)
    BY <1>1, <1>2, PostQueue DEF Fns
  <1>4. UNCHANGED outcome
    BY DEF PerformFails, Issue
  <1>5. TypeOK'
    BY <1>1, <1>3, <1>4 DEF IInv, TypeOK, PerformFails, Issue, LoadInv, Untouched,
       InThread
  <1>6. LoadInv(l)'
    <2>1. Untouched(l)'
      BY <1>1, <1>3, <1>4 DEF PerformFails, Issue, Posted, IInv, TypeOK, LoadInv,
         Untouched
    <2>2. InThread(l)'
      BY <1>1, <1>3, <1>4 DEF PerformFails, Issue, Posted, IInv, TypeOK, LoadInv,
         Untouched, InThread, Pending, Fns
    <2>3. InQueue(l)'
      BY <1>1, <1>3, <1>4 DEF PerformFails, Issue, Posted, IInv, TypeOK, LoadInv,
         Untouched, InQueue, Pending, Fns
    <2>4. WithCrawler(l)'
      BY <1>1, <1>3, <1>4 DEF PerformFails, Issue, Posted, IInv, TypeOK, LoadInv,
         WithCrawler
    <2>5. Ended(l)'
      BY <1>1, <1>3, <1>4 DEF PerformFails, Issue, Posted, IInv, TypeOK, LoadInv,
         Untouched, Ended, Pending, Fns
    <2> QED
      BY <2>1, <2>2, <2>3, <2>4, <2>5 DEF LoadInv
  <1>7. ASSUME NEW m \in Loads, m # l PROVE Same(m)
    BY <1>1, <1>3, <1>4, <1>7 DEF PerformFails, Issue, Posted, IInv, TypeOK, Same
  <1> QED
    BY <1>3, <1>5, <1>6, <1>7, OthersKept

-----------------------------------------------------------------------------
(* The thread of the request. *)

LEMMA RequestCompleteKeeps ==
    ASSUME IInv, NEW l \in Loads, RequestComplete(l)
    PROVE  IInv'
  <1>1. queue \in Seq(Closures) /\ OneClosure /\ LoadInv(l)
    BY DEF IInv, TypeOK
  <1>2. Post("ProcessRequestComplete", l) /\ ~Pending(l)
    BY <1>1 DEF RequestComplete, LoadInv, Untouched, InThread
  <1>3. queue' \in Seq(Closures) /\ OneClosure' /\ Posted("ProcessRequestComplete", l)
    BY <1>1, <1>2, PostQueue DEF Fns
  <1>4. UNCHANGED outcome
    BY DEF RequestComplete
  <1>5. TypeOK'
    BY <1>1, <1>3, <1>4 DEF IInv, TypeOK, RequestComplete, LoadInv, Untouched, InThread
  <1>6. LoadInv(l)'
    <2>1. Untouched(l)'
      BY <1>1, <1>3, <1>4 DEF RequestComplete, Posted, IInv, TypeOK, LoadInv,
         Untouched
    <2>2. InThread(l)'
      BY <1>1, <1>3, <1>4 DEF RequestComplete, Posted, IInv, TypeOK, LoadInv,
         InThread
    <2>3. InQueue(l)'
      BY <1>1, <1>3, <1>4 DEF RequestComplete, Posted, IInv, TypeOK, LoadInv,
         InThread, InQueue, Pending, Fns
    <2>4. WithCrawler(l)'
      BY <1>1, <1>3, <1>4 DEF RequestComplete, Posted, IInv, TypeOK, LoadInv,
         WithCrawler
    <2>5. Ended(l)'
      BY <1>1, <1>3, <1>4 DEF RequestComplete, Posted, IInv, TypeOK, LoadInv,
         Ended, Pending, Fns
    <2> QED
      BY <2>1, <2>2, <2>3, <2>4, <2>5 DEF LoadInv
  <1>7. ASSUME NEW m \in Loads, m # l PROVE Same(m)
    BY <1>1, <1>3, <1>4, <1>7 DEF RequestComplete, Posted, IInv, TypeOK, Same
  <1> QED
    BY <1>3, <1>5, <1>6, <1>7, OthersKept

LEMMA RequestFailedKeeps ==
    ASSUME IInv, NEW l \in Loads, RequestFailed(l)
    PROVE  IInv'
  <1>1. queue \in Seq(Closures) /\ OneClosure /\ LoadInv(l)
    BY DEF IInv, TypeOK
  <1>2. Post("ErrorWorker", l) /\ ~Pending(l)
    BY <1>1 DEF RequestFailed, LoadInv, Untouched, InThread
  <1>3. queue' \in Seq(Closures) /\ OneClosure' /\ Posted("ErrorWorker", l)
    BY <1>1, <1>2, PostQueue DEF Fns
  <1>4. UNCHANGED outcome
    BY DEF RequestFailed
  <1>5. TypeOK'
    BY <1>1, <1>3, <1>4 DEF IInv, TypeOK, RequestFailed, LoadInv, Untouched, InThread
  <1>6. LoadInv(l)'
    <2>1. Untouched(l)'
      BY <1>1, <1>3, <1>4 DEF RequestFailed, Posted, IInv, TypeOK, LoadInv,
         Untouched
    <2>2. InThread(l)'
      BY <1>1, <1>3, <1>4 DEF RequestFailed, Posted, IInv, TypeOK, LoadInv,
         InThread, Pending, Fns
    <2>3. InQueue(l)'
      BY <1>1, <1>3, <1>4 DEF RequestFailed, Posted, IInv, TypeOK, LoadInv,
         InThread, InQueue, Pending, Fns
    <2>4. WithCrawler(l)'
      BY <1>1, <1>3, <1>4 DEF RequestFailed, Posted, IInv, TypeOK, LoadInv,
         WithCrawler
    <2>5. Ended(l)'
      BY <1>1, <1>3, <1>4 DEF RequestFailed, Posted, IInv, TypeOK, LoadInv, Ended,
         Pending, Fns
    <2> QED
      BY <2>1, <2>2, <2>3, <2>4, <2>5 DEF LoadInv
  <1>7. ASSUME NEW m \in Loads, m # l PROVE Same(m)
    BY <1>1, <1>3, <1>4, <1>7 DEF RequestFailed, Posted, IInv, TypeOK, Same
  <1> QED
    BY <1>3, <1>5, <1>6, <1>7, OthersKept

LEMMA DeleteFailedTaskKeeps ==
    ASSUME IInv, NEW l \in Loads, DeleteFailedTask(l)
    PROVE  IInv'
  <1>1. queue \in Seq(Closures) /\ OneClosure /\ LoadInv(l)
    BY DEF IInv, TypeOK
  <1>2. queue' = queue
    BY DEF DeleteFailedTask
  <1>3. queue' \in Seq(Closures) /\ OneClosure' /\ Kept
    BY <1>1, <1>2, SameQueue
  <1>4. UNCHANGED outcome
    BY DEF DeleteFailedTask
  <1>5. TypeOK'
    BY <1>1, <1>3, <1>4 DEF IInv, TypeOK, DeleteFailedTask, LoadInv, Untouched, InThread
  <1>6. LoadInv(l)'
    <2>1. Untouched(l)'
      BY <1>1, <1>3, <1>4 DEF DeleteFailedTask, Kept, IInv, TypeOK, LoadInv,
         Untouched
    <2>2. InThread(l)'
      BY <1>1, <1>3, <1>4 DEF DeleteFailedTask, Kept, IInv, TypeOK, LoadInv,
         InThread
    <2>3. InQueue(l)'
      BY <1>1, <1>3, <1>4 DEF DeleteFailedTask, Kept, IInv, TypeOK, LoadInv,
         InQueue, Pending, Fns
    <2>4. WithCrawler(l)'
      BY <1>1, <1>3, <1>4 DEF DeleteFailedTask, Kept, IInv, TypeOK, LoadInv,
         InThread, WithCrawler, Pending, Fns
    <2>5. Ended(l)'
      BY <1>1, <1>3, <1>4 DEF DeleteFailedTask, Kept, IInv, TypeOK, LoadInv,
         InThread, Ended, Pending, Fns
    <2> QED
      BY <2>1, <2>2, <2>3, <2>4, <2>5 DEF LoadInv
  <1>7. ASSUME NEW m \in Loads, m # l PROVE Same(m)
    BY <1>1, <1>3, <1>4, <1>7 DEF DeleteFailedTask, Kept, IInv, TypeOK, Same
  <1> QED
    BY <1>3, <1>5, <1>6, <1>7, OthersKept

LEMMA ReleaseRequestKeeps ==
    ASSUME IInv, NEW l \in Loads, ReleaseRequest(l)
    PROVE  IInv'
  <1>1. queue \in Seq(Closures) /\ OneClosure /\ LoadInv(l)
    BY DEF IInv, TypeOK
  <1>2. queue' = queue
    BY DEF ReleaseRequest
  <1>3. queue' \in Seq(Closures) /\ OneClosure' /\ Kept
    BY <1>1, <1>2, SameQueue
  <1>4. UNCHANGED outcome
    BY DEF ReleaseRequest
  <1>5. TypeOK'
    BY <1>1, <1>3, <1>4 DEF IInv, TypeOK, ReleaseRequest, LoadInv, Untouched, InThread
  <1>6. LoadInv(l)'
    <2>1. Untouched(l)'
      BY <1>1, <1>3, <1>4 DEF ReleaseRequest, Kept, IInv, TypeOK, LoadInv,
         Untouched
    <2>2. InThread(l)'
      BY <1>1, <1>3, <1>4 DEF ReleaseRequest, Kept, IInv, TypeOK, LoadInv, InThread
    <2>3. InQueue(l)'
      BY <1>1, <1>3, <1>4 DEF ReleaseRequest, Kept, IInv, TypeOK, LoadInv,
         InThread, InQueue, Pending, Fns
    <2>4. WithCrawler(l)'
      BY <1>1, <1>3, <1>4 DEF ReleaseRequest, Kept, IInv, TypeOK, LoadInv,
         WithCrawler
    <2>5. Ended(l)'
      BY <1>1, <1>3, <1>4 DEF ReleaseRequest, Kept, IInv, TypeOK, LoadInv,
         InThread, Ended, Pending, Fns
    <2> QED
      BY <2>1, <2>2, <2>3, <2>4, <2>5 DEF LoadInv
  <1>7. ASSUME NEW m \in Loads, m # l PROVE Same(m)
    BY <1>1, <1>3, <1>4, <1>7 DEF ReleaseRequest, Kept, IInv, TypeOK, Same
  <1> QED
    BY <1>3, <1>5, <1>6, <1>7, OthersKept

-----------------------------------------------------------------------------
(* The main thread and the crawler client. *)

LEMMA ErrorWorkerKeeps ==
    ASSUME IInv, NEW l \in Loads, ErrorWorker(l)
    PROVE  IInv'
  <1>1. queue \in Seq(Closures) /\ OneClosure /\ LoadInv(l)
    BY DEF IInv, TypeOK
  <1>2. Dispatch("ErrorWorker", l)
    BY DEF ErrorWorker
  <1>3. queue' \in Seq(Closures) /\ OneClosure' /\ Taken("ErrorWorker", l)
    BY <1>1, <1>2, DispatchQueue DEF Fns
  <1>4. /\ outcome[l] = <<>> /\ outcome'[l] = <<"failed">>
        /\ outcome' \in [Loads -> Seq({"finished", "failed"})]
    <2>1. outcome[l] = <<>>
      BY <1>1, <1>3 DEF ErrorWorker, Dispatch, Taken, LoadInv, InQueue,
         WithCrawler, Pending, Fns
    <2> QED
      BY <2>1 DEF ErrorWorker, IInv, TypeOK
  <1>5. TypeOK'
    BY <1>1, <1>3, <1>4 DEF IInv, TypeOK, ErrorWorker, Dispatch, LoadInv,
       Untouched, InThread
  <1>6. LoadInv(l)'
    <2>1. Untouched(l)'
      BY <1>1, <1>3, <1>4 DEF ErrorWorker, Taken, Dispatch, IInv, TypeOK, LoadInv,
         Untouched, Pending, Fns
    <2>2. InThread(l)'
      BY <1>1, <1>3, <1>4 DEF ErrorWorker, Taken, Dispatch, IInv, TypeOK, LoadInv,
         InThread, Pending, Fns
    <2>3. InQueue(l)'
      BY <1>1, <1>3, <1>4 DEF ErrorWorker, Taken, Dispatch, IInv, TypeOK, LoadInv,
         InQueue, Pending, Fns
    <2>4. WithCrawler(l)'
      BY <1>1, <1>3, <1>4 DEF ErrorWorker, Taken, Dispatch, IInv, TypeOK, LoadInv,
         InQueue, WithCrawler, Pending, Fns
    <2>5. Ended(l)'
      BY <1>1, <1>3, <1>4 DEF ErrorWorker, Taken, Dispatch, IInv, TypeOK, LoadInv,
         InQueue, Ended, Pending, Fns
    <2> QED
      BY <2>1, <2>2, <2>3, <2>4, <2>5 DEF LoadInv
  <1>7. ASSUME NEW m \in Loads, m # l PROVE Same(m)
    BY <1>1, <1>3, <1>4, <1>7 DEF ErrorWorker, Dispatch, Taken, IInv, TypeOK, Same
  <1> QED
    BY <1>3, <1>5, <1>6, <1>7, OthersKept

LEMMA ContinueHijackedKeeps ==
    ASSUME IInv, NEW l \in Loads, ContinueHijacked(l)
    PROVE  IInv'
  <1>1. queue \in Seq(Closures) /\ OneClosure /\ LoadInv(l)
    BY DEF IInv, TypeOK
  <1>2. Dispatch("DoContinue", l)
    BY DEF ContinueHijacked, DoContinue
  <1>3. queue' \in Seq(Closures) /\ OneClosure' /\ Taken("DoContinue", l)
    BY <1>1, <1>2, DispatchQueue DEF Fns
  <1>4. /\ outcome[l] = <<>> /\ outcome'[l] = <<"finished">>
        /\ outcome' \in [Loads -> Seq({"finished", "failed"})]
    <2>1. outcome[l] = <<>>
      BY <1>1, <1>3 DEF ContinueHijacked, DoContinue, Dispatch, Taken, LoadInv,
         InQueue, WithCrawler, Pending, Fns
    <2> QED
      BY <2>1 DEF ContinueHijacked, DoContinue, IInv, TypeOK
  <1>5. TypeOK'
    BY <1>1, <1>3, <1>4 DEF IInv, TypeOK, ContinueHijacked, DoContinue, Dispatch,
       LoadInv, Untouched, InThread
  <1>6. LoadInv(l)'
    <2>1. Untouched(l)'
      BY <1>1, <1>3, <1>4 DEF ContinueHijacked, DoContinue, Taken, Dispatch, IInv,
         TypeOK, LoadInv, Untouched, Pending, Fns
    <2>2. InThread(l)'
      BY <1>1, <1>3, <1>4 DEF ContinueHijacked, DoContinue, Taken, Dispatch, IInv,
         TypeOK, LoadInv, InQueue, InThread, Pending, Fns
    <2>3. InQueue(l)'
      BY <1>1, <1>3, <1>4 DEF ContinueHijacked, DoContinue, Taken, Dispatch, IInv,
         TypeOK, LoadInv, InQueue, Pending, Fns
    <2>4. WithCrawler(l)'
      BY <1>1, <1>3, <1>4 DEF ContinueHijacked, DoContinue, Taken, Dispatch, IInv,
         TypeOK, LoadInv, InQueue, WithCrawler, Pending, Fns
    <2>5. Ended(l)'
      BY <1>1, <1>3, <1>4 DEF ContinueHijacked, DoContinue, Taken, Dispatch, IInv,
         TypeOK, LoadInv, InQueue, Ended, Pending, Fns
    <2> QED
      BY <2>1, <2>2, <2>3, <2>4, <2>5 DEF LoadInv
  <1>7. ASSUME NEW m \in Loads, m # l PROVE Same(m)
    BY <1>1, <1>3, <1>4, <1>7 DEF ContinueHijacked, DoContinue, Dispatch, Taken,
       IInv, TypeOK, Same
  <1> QED
    BY <1>3, <1>5, <1>6, <1>7, OthersKept

LEMMA ProcessSubresourceKeeps ==
    ASSUME IInv, NEW l \in Loads, ProcessSubresource(l)
    PROVE  IInv'
  <1>1. queue \in Seq(Closures) /\ OneClosure /\ LoadInv(l)
    BY DEF IInv, TypeOK
  <1>2. Dispatch("ProcessRequestComplete", l)
    BY DEF ProcessSubresource, DoContinue
  <1>3. queue' \in Seq(Closures) /\ OneClosure' /\ Taken("ProcessRequestComplete", l)
    BY <1>1, <1>2, DispatchQueue DEF Fns
  <1>4. /\ outcome[l] = <<>> /\ outcome'[l] = <<"finished">>
        /\ outcome' \in [Loads -> Seq({"finished", "failed"})]
    <2>1. outcome[l] = <<>>
      BY <1>1, <1>3 DEF ProcessSubresource, DoContinue, Dispatch, Taken, LoadInv,
         InQueue, WithCrawler, Pending, Fns
    <2> QED
      BY <2>1 DEF ProcessSubresource, DoContinue, IInv, TypeOK
  <1>5. TypeOK'
    BY <1>1, <1>3, <1>4 DEF IInv, TypeOK, ProcessSubresource, DoContinue, Dispatch,
       LoadInv, Untouched, InThread
  <1>6. LoadInv(l)'
    <2>1. Untouched(l)'
      BY <1>1, <1>3, <1>4 DEF ProcessSubresource, DoContinue, Taken, Dispatch,
         IInv, TypeOK, LoadInv, Untouched, Pending, Fns
    <2>2. InThread(l)'
      BY <1>1, <1>3, <1>4 DEF ProcessSubresource, DoContinue, Taken, Dispatch,
         IInv, TypeOK, LoadInv, InQueue, InThread, Pending, Fns
    <2>3. InQueue(l)'
      BY <1>1, <1>3, <1>4 DEF ProcessSubresource, DoContinue, Taken, Dispatch,
         IInv, TypeOK, LoadInv, InQueue, Pending, Fns
    <2>4. WithCrawler(l)'
      BY <1>1, <1>3, <1>4 DEF ProcessSubresource, DoContinue, Taken, Dispatch,
         IInv, TypeOK, LoadInv, WithCrawler
    <2>5. Ended(l)'
      BY <1>1, <1>3, <1>4 DEF ProcessSubresource, DoContinue, Taken, Dispatch,
         IInv, TypeOK, LoadInv, Ended
    <2> QED
      BY <2>1, <2>2, <2>3, <2>4, <2>5 DEF LoadInv
  <1>7. ASSUME NEW m \in Loads, m # l PROVE Same(m)
    BY <1>1, <1>3, <1>4, <1>7 DEF ProcessSubresource, DoContinue, Dispatch, Taken,
       IInv, TypeOK, Same
  <1> QED
    BY <1>3, <1>5, <1>6, <1>7, OthersKept

LEMMA AskCrawlerKeeps ==
    ASSUME IInv, NEW l \in Loads, AskCrawler(l)
    PROVE  IInv'
  <1>1. queue \in Seq(Closures) /\ OneClosure /\ LoadInv(l)
    BY DEF IInv, TypeOK
  <1>2. Dispatch("ProcessRequestComplete", l)
    BY DEF AskCrawler
  <1>3. queue' \in Seq(Closures) /\ OneClosure' /\ Taken("ProcessRequestComplete", l)
    BY <1>1, <1>2, DispatchQueue DEF Fns
  <1>4. UNCHANGED outcome
    BY DEF AskCrawler
  <1>5. TypeOK'
    BY <1>1, <1>3, <1>4 DEF IInv, TypeOK, AskCrawler, Dispatch, LoadInv, Untouched,
       InThread
  <1>6. LoadInv(l)'
    <2>1. Untouched(l)'
      BY <1>1, <1>3, <1>4 DEF AskCrawler, Taken, Dispatch, IInv, TypeOK, LoadInv,
         Untouched, Pending, Fns
    <2>2. InThread(l)'
      BY <1>1, <1>3, <1>4 DEF AskCrawler, Taken, Dispatch, IInv, TypeOK, LoadInv,
         InQueue, InThread, Pending, Fns
    <2>3. InQueue(l)'
      BY <1>1, <1>3, <1>4 DEF AskCrawler, Taken, Dispatch, IInv, TypeOK, LoadInv,
         InQueue, Pending, Fns
    <2>4. WithCrawler(l)'
      <3>1. /\ cancel'[l] = None /\ answer'[l] = None /\ outcome'[l] = <<>>
            /\ task'[l] = "live" /\ response'[l] /\ kind'[l] = "MainHTML"
        BY <1>1, <1>3, <1>4 DEF AskCrawler, Taken, LoadInv, InQueue, Pending, Fns
      <3>2. asking' = l /\ calling'[l] /\ l \in controller' /\ open'
        BY DEF AskCrawler, Dispatch, IInv, TypeOK
      <3> QED
        BY <3>1, <3>2 DEF WithCrawler
    <2>5. Ended(l)'
      BY <1>1, <1>3, <1>4 DEF AskCrawler, Taken, Dispatch, IInv, TypeOK, LoadInv,
         InQueue, Ended, Pending, Fns
    <2> QED
      BY <2>1, <2>2, <2>3, <2>4, <2>5 DEF LoadInv
  <1>7. ASSUME NEW m \in Loads, m # l PROVE Same(m)
    BY <1>1, <1>3, <1>4, <1>7 DEF AskCrawler, Dispatch, Taken, IInv, TypeOK, Same
  <1> QED
    BY <1>3, <1>5, <1>6, <1>7, OthersKept

LEMMA CancelWorkKeeps ==
    ASSUME IInv, NEW l \in Loads, CancelWork(l)
    PROVE  IInv'
  <1>1. queue \in Seq(Closures) /\ OneClosure /\ LoadInv(l)
    BY DEF IInv, TypeOK
  <1>2. queue' = queue
    BY DEF CancelWork
  <1>3. queue' \in Seq(Closures) /\ OneClosure' /\ Kept
    BY <1>1, <1>2, SameQueue
  <1>4. UNCHANGED outcome
    BY DEF CancelWork
  <1>5. TypeOK'
    BY <1>1, <1>3, <1>4 DEF IInv, TypeOK, CancelWork, LoadInv, Untouched, InThread
  <1>6. LoadInv(l)'
    <2>1. Untouched(l)'
      BY <1>1, <1>3, <1>4 DEF CancelWork, Kept, IInv, TypeOK, LoadInv, Untouched
    <2>2. InThread(l)'
      BY <1>1, <1>3, <1>4 DEF CancelWork, Kept, IInv, TypeOK, LoadInv, InThread
    <2>3. InQueue(l)'
      BY <1>1, <1>3, <1>4 DEF CancelWork, Kept, IInv, TypeOK, LoadInv, InQueue,
         Pending, Fns
    <2>4. WithCrawler(l)'
      <3>1. /\ WithCrawler(l) /\ l \in controller
            /\ UNCHANGED <<open, asking, calling, kind, outcome, task, response>>
            /\ answer'[l] = "cancel"
            /\ calling[l] => controller' = controller /\ cancel'[l] = TRUE
            /\ ~calling[l] => l \notin controller'
        BY <1>1, <1>4 DEF CancelWork, IInv, TypeOK, LoadInv, fixed, requestVars
      <3>2. TRUE # None /\ TRUE # FALSE BY UnsetAssumption
      <3> QED BY ONLY <3>1, <3>2 DEF WithCrawler
    <2>5. Ended(l)'
      BY <1>1, <1>3, <1>4 DEF CancelWork, Kept, IInv, TypeOK, LoadInv, Untouched,
         InThread, InQueue, WithCrawler, Ended, Pending, Fns
    <2> QED
      BY <2>1, <2>2, <2>3, <2>4, <2>5 DEF LoadInv
  <1>7. ASSUME NEW m \in Loads, m # l PROVE Same(m)
    BY <1>1, <1>3, <1>4, <1>7 DEF CancelWork, Kept, IInv, TypeOK, Same
  <1> QED
    BY <1>3, <1>5, <1>6, <1>7, OthersKept

LEMMA CallbackGoesOn ==
    ASSUME IInv, NEW l \in Loads, CallbackReturns(l), cancel[l] = FALSE
    PROVE  IInv'
  <1>1. queue \in Seq(Closures) /\ OneClosure /\ LoadInv(l)
    BY DEF IInv, TypeOK
  <1>2. queue' = queue
    BY DEF CallbackReturns, DoContinue
  <1>3. queue' \in Seq(Closures) /\ OneClosure' /\ Kept
    BY <1>1, <1>2, SameQueue
  <1>4. /\ outcome[l] = <<>> /\ outcome'[l] = <<"finished">>
        /\ outcome' \in [Loads -> Seq({"finished", "failed"})]
    <2>1. outcome[l] = <<>>
      BY <1>1, <1>3 DEF CallbackReturns, DoContinue, Taken, LoadInv, InQueue,
         WithCrawler, Pending, Fns
    <2>2. DoContinue(l)
      BY DEF CallbackReturns
    <2> QED
      BY <2>1, <2>2 DEF DoContinue, IInv, TypeOK
  <1>5. TypeOK'
    BY <1>1, <1>3, <1>4 DEF IInv, TypeOK, CallbackReturns, DoContinue, LoadInv,
       Untouched, InThread
  <1>6. LoadInv(l)'
    <2>1. Untouched(l)'
      BY <1>1, <1>3, <1>4 DEF CallbackReturns, DoContinue, Kept, IInv, TypeOK,
         LoadInv, Untouched
    <2>2. InThread(l)'
      BY <1>1, <1>3, <1>4 DEF CallbackReturns, DoContinue, Kept, IInv, TypeOK,
         LoadInv, InThread
    <2>3. InQueue(l)'
      BY <1>1, <1>3, <1>4 DEF CallbackReturns, DoContinue, Kept, IInv, TypeOK,
         LoadInv, InQueue, Pending, Fns
    <2>4. WithCrawler(l)'
      BY <1>1, <1>3, <1>4 DEF CallbackReturns, DoContinue, Kept, IInv, TypeOK,
         LoadInv, WithCrawler
    <2>5. Ended(l)'
      BY <1>1, <1>3, <1>4 DEF CallbackReturns, DoContinue, Kept, IInv, TypeOK,
         LoadInv, Untouched, InThread, InQueue, WithCrawler, Ended, Pending, Fns
    <2> QED
      BY <2>1, <2>2, <2>3, <2>4, <2>5 DEF LoadInv
  <1>7. ASSUME NEW m \in Loads, m # l PROVE Same(m)
    BY <1>1, <1>3, <1>4, <1>7 DEF CallbackReturns, DoContinue, Kept, IInv, TypeOK, Same
  <1> QED
    BY <1>3, <1>5, <1>6, <1>7, OthersKept

LEMMA CallbackStops ==
    ASSUME IInv, NEW l \in Loads, CallbackReturns(l), cancel[l] # FALSE
    PROVE  IInv'
  <1>1. queue \in Seq(Closures) /\ OneClosure /\ LoadInv(l)
    BY DEF IInv, TypeOK
  <1>2. queue' = queue
    BY DEF CallbackReturns
  <1>3. queue' \in Seq(Closures) /\ OneClosure' /\ Kept
    BY <1>1, <1>2, SameQueue
  <1>4. UNCHANGED outcome
    BY DEF CallbackReturns
  <1>5. TypeOK'
    BY <1>1, <1>3, <1>4 DEF IInv, TypeOK, CallbackReturns, LoadInv, Untouched, InThread
  <1>6. LoadInv(l)'
    <2>1. Untouched(l)'
      BY <1>1, <1>3, <1>4 DEF CallbackReturns, Kept, IInv, TypeOK, LoadInv,
         Untouched, Pending, Fns
    <2>2. InThread(l)'
      BY <1>1, <1>3, <1>4 DEF CallbackReturns, Kept, IInv, TypeOK, LoadInv,
         InThread, Pending, Fns
    <2>3. InQueue(l)'
      BY <1>1, <1>3, <1>4 DEF CallbackReturns, Kept, IInv, TypeOK, LoadInv,
         InQueue, Pending, Fns
    <2>4. WithCrawler(l)'
      BY <1>1, <1>3, <1>4 DEF CallbackReturns, Kept, IInv, TypeOK, LoadInv,
         WithCrawler
    <2>5. Ended(l)'
      BY <1>1, <1>3, <1>4 DEF CallbackReturns, Kept, IInv, TypeOK, LoadInv,
         WithCrawler, Ended, Pending, Fns
    <2> QED
      BY <2>1, <2>2, <2>3, <2>4, <2>5 DEF LoadInv
  <1>7. ASSUME NEW m \in Loads, m # l PROVE Same(m)
    BY <1>1, <1>3, <1>4, <1>7 DEF CallbackReturns, Kept, IInv, TypeOK, Same
  <1> QED
    BY <1>3, <1>5, <1>6, <1>7, OthersKept

LEMMA ContinueInCallback ==
    ASSUME IInv, NEW l \in Loads, ContinueWorking(l), calling[l]
    PROVE  IInv'
  <1>1. queue \in Seq(Closures) /\ OneClosure /\ LoadInv(l)
    BY DEF IInv, TypeOK
  <1>2. queue' = queue
    BY DEF ContinueWorking
  <1>3. queue' \in Seq(Closures) /\ OneClosure' /\ Kept
    BY <1>1, <1>2, SameQueue
  <1>4. UNCHANGED outcome
    BY DEF ContinueWorking
  <1>5. TypeOK'
    BY <1>1, <1>3, <1>4 DEF IInv, TypeOK, ContinueWorking, LoadInv, Untouched, InThread
  <1>6. LoadInv(l)'
    <2>1. Untouched(l)'
      BY <1>1, <1>3, <1>4 DEF ContinueWorking, Kept, IInv, TypeOK, LoadInv,
         Untouched
    <2>2. InThread(l)'
      BY <1>1, <1>3, <1>4 DEF ContinueWorking, Kept, IInv, TypeOK, LoadInv,
         InThread
    <2>3. InQueue(l)'
      BY <1>1, <1>3, <1>4 DEF ContinueWorking, Kept, IInv, TypeOK, LoadInv,
         InQueue, Pending, Fns
    <2>4. WithCrawler(l)'
      <3>1. /\ WithCrawler(l) /\ l \in controller /\ calling[l]
            /\ UNCHANGED <<open, asking, calling, kind, outcome, task, response, controller>>
            /\ answer'[l] = "continue" /\ cancel'[l] = FALSE
        BY <1>1, <1>4 DEF ContinueWorking, IInv, TypeOK, LoadInv, fixed, requestVars
      <3>2. FALSE # None /\ TRUE # FALSE BY UnsetAssumption
      <3> QED BY ONLY <3>1, <3>2 DEF WithCrawler
    <2>5. Ended(l)'
      BY <1>1, <1>3, <1>4 DEF ContinueWorking, Kept, IInv, TypeOK, LoadInv, Ended,
         Pending, Fns
    <2> QED
      BY <2>1, <2>2, <2>3, <2>4, <2>5 DEF LoadInv
  <1>7. ASSUME NEW m \in Loads, m # l PROVE Same(m)
    BY <1>1, <1>3, <1>4, <1>7 DEF ContinueWorking, Kept, IInv, TypeOK, Same
  <1> QED
    BY <1>3, <1>5, <1>6, <1>7, OthersKept

LEMMA ContinueLater ==
    ASSUME IInv, NEW l \in Loads, ContinueWorking(l), ~calling[l]
    PROVE  IInv'
  <1>1. queue \in Seq(Closures) /\ OneClosure /\ LoadInv(l)
    BY DEF IInv, TypeOK
  <1>2. queue' = queue
    BY DEF ContinueWorking, DoContinue
  <1>3. queue' \in Seq(Closures) /\ OneClosure' /\ Kept
    BY <1>1, <1>2, SameQueue
  <1>4. /\ outcome[l] = <<>> /\ outcome'[l] = <<"finished">>
        /\ outcome' \in [Loads -> Seq({"finished", "failed"})]
    <2>1. outcome[l] = <<>>
      BY <1>1, <1>3 DEF ContinueWorking, DoContinue, Taken, LoadInv, InQueue,
         WithCrawler, Pending, Fns
    <2>2. DoContinue(l)
      BY DEF ContinueWorking
    <2> QED
      BY <2>1, <2>2 DEF DoContinue, IInv, TypeOK
  <1>5. TypeOK'
    BY <1>1, <1>3, <1>4 DEF IInv, TypeOK, ContinueWorking, DoContinue, LoadInv,
       Untouched, InThread
  <1>6. LoadInv(l)'
    <2>1. Untouched(l)'
      BY <1>1, <1>3, <1>4 DEF ContinueWorking, DoContinue, Kept, IInv, TypeOK,
         LoadInv, Untouched
    <2>2. InThread(l)'
      BY <1>1, <1>3, <1>4 DEF ContinueWorking, DoContinue, Kept, IInv, TypeOK,
         LoadInv, InThread
    <2>3. InQueue(l)'
      BY <1>1, <1>3, <1>4 DEF ContinueWorking, DoContinue, Kept, IInv, TypeOK,
         LoadInv, InQueue, Pending, Fns
    <2>4. WithCrawler(l)'
      BY <1>1, <1>3, <1>4 DEF ContinueWorking, DoContinue, Kept, IInv, TypeOK,
         LoadInv, WithCrawler
    <2>5. Ended(l)'
      BY <1>1, <1>3, <1>4 DEF ContinueWorking, DoContinue, Kept, IInv, TypeOK,
         LoadInv, Ended
    <2> QED
      BY <2>1, <2>2, <2>3, <2>4, <2>5 DEF LoadInv
  <1>7. ASSUME NEW m \in Loads, m # l PROVE Same(m)
    BY <1>1, <1>3, <1>4, <1>7 DEF ContinueWorking, DoContinue, Kept, IInv, TypeOK, Same
  <1> QED
    BY <1>3, <1>5, <1>6, <1>7, OthersKept

-----------------------------------------------------------------------------
(* The loop closes; the crawler goes. *)

LEMMA CloseLoopKeeps ==
    ASSUME IInv, CloseLoop
    PROVE  IInv'
  <1>1. queue' = <<>> /\ Len(queue') = 0 /\ queue' \in Seq(Closures)
    BY EmptySeq DEF CloseLoop
  <1>2. OneClosure' /\ \A f \in Fns, l \in Loads : ~Queued(f, l)'
    BY <1>1 DEF OneClosure, Queued, Contains
  <1>3. TypeOK'
    BY <1>1 DEF IInv, TypeOK, CloseLoop
  <1>4. ASSUME NEW l \in Loads PROVE LoadInv(l)'
    <2>1. LoadInv(l) /\ asking # l
      BY DEF IInv, CloseLoop
    <2>2. Untouched(l)' /\ InThread(l)' /\ InQueue(l)'
      BY <1>2, <2>1 DEF CloseLoop, LoadInv, Untouched, InThread, InQueue, Pending, Fns
    <2>3. WithCrawler(l)' /\ Ended(l)'
      BY <1>2, <2>1 DEF CloseLoop, LoadInv, WithCrawler, Ended, Fns
    <2> QED
      BY <2>2, <2>3 DEF LoadInv
  <1> QED
    BY <1>2, <1>3, <1>4 DEF IInv

LEMMA StutterKeeps ==
    ASSUME IInv, DestroyCrawler \/ UNCHANGED vars
    PROVE  IInv'
  <1>1. /\ UNCHANGED <<kind, issued, queue, open, taskVars, requestVars, outcome, answer>>
        /\ crawler' \in BOOLEAN
    BY DEF DestroyCrawler, vars, IInv, TypeOK
  <1>2. OneClosure' /\ Kept
    BY <1>1, SameQueue DEF IInv
  <1>3. TypeOK'
    BY <1>1 DEF IInv, TypeOK
  <1>4. ASSUME NEW m \in Loads PROVE LoadInv(m)'
    <2>1. Same(m)
      BY <1>1, <1>2 DEF Same, Kept
    <2> QED
      BY <2>1, Frame DEF IInv
  <1> QED
    BY <1>2, <1>3, <1>4 DEF IInv

LEMMA NextKeeps == IInv /\ [Next]_vars => IInv'
  <1> SUFFICES ASSUME IInv, [Next]_vars PROVE IInv'
    OBVIOUS
  <1>1. ASSUME NEW l \in Loads, Start(l) PROVE IInv'
    BY <1>1, LoadOtherSchemeKeeps, LoadHijackedKeeps, LoadFromNetworkKeeps,
       PerformFailsKeeps DEF Start
  <1>2. ASSUME NEW l \in Loads, Thread(l) PROVE IInv'
    BY <1>2, RequestCompleteKeeps, RequestFailedKeeps, DeleteFailedTaskKeeps,
       ReleaseRequestKeeps DEF Thread
  <1>3. ASSUME NEW l \in Loads, MainThread(l) PROVE IInv'
    BY <1>3, ErrorWorkerKeeps, ContinueHijackedKeeps, ProcessSubresourceKeeps,
       AskCrawlerKeeps, CallbackGoesOn, CallbackStops DEF MainThread
  <1>4. ASSUME NEW l \in Loads, ContinueWorking(l) \/ CancelWork(l) PROVE IInv'
    BY <1>4, ContinueInCallback, ContinueLater, CancelWorkKeeps
  <1>5. CASE CloseLoop
    BY <1>5, CloseLoopKeeps
  <1>6. CASE DestroyCrawler \/ UNCHANGED vars
    BY <1>6, StutterKeeps
  <1> QED
    BY <1>1, <1>2, <1>3, <1>4, <1>5, <1>6 DEF Next

-----------------------------------------------------------------------------
(***************************************************************************)
(* Refinement: each step of a load is one of LoadContract or none, because *)
(* the hand that makes it fixes the stage the load is in.                  *)
(***************************************************************************)

Stages == [l \in Loads |-> Stage(l)]

(* Nothing that the stages of m depend on has changed. *)
Unmoved(m) ==
    /\ UNCHANGED <<outcome[m], answer[m], open>>
    /\ m \in controller' <=> m \in controller
    /\ m \in issued' <=> m \in issued

LEMMA UnmovedStage ==
    ASSUME NEW m \in Loads, Unmoved(m)
    PROVE  Stage(m)' = Stage(m)
  BY DEF Unmoved, Stage

LEMMA StageStutters ==
    ASSUME UNCHANGED <<kind, outcome, answer>>, \A m \in Loads : Unmoved(m), open' = open
    PROVE  UNCHANGED LC!vars
  BY UnmovedStage DEF LC!vars

(* One load moves. *)
LEMMA StageMoves ==
    ASSUME NEW l \in Loads, \A m \in Loads \ {l} : Unmoved(m),
           open, UNCHANGED <<kind, open>>
    PROVE  LC!Move(l, Stage(l), Stage(l)')
  <1>1. \A m \in Loads \ {l} : Stage(m)' = Stage(m)
    BY UnmovedStage
  <1>2. Stages' = [Stages EXCEPT ![l] = Stage(l)']
    BY <1>1 DEF Stages
  <1> QED
    BY <1>2 DEF LC!Move, Stages

(* What the invariant says of the stage of a load that someone has. *)
LEMMA StageOf ==
    ASSUME IInv, NEW l \in Loads
    PROVE  /\ l \notin issued => Stage(l) = "new"
           /\ Pending(l) => Stage(l) = "loading"
           /\ l \in controller => Stage(l) = "asked" /\ kind[l] = "MainHTML"
           /\ calling[l] /\ cancel[l] = FALSE => answer[l] = "continue"
           /\ calling[l] /\ cancel[l] = TRUE => answer[l] = "cancel"
           /\ l \in controller /\ ~calling[l] => answer[l] = None
           /\ asking = l => l \in controller /\ calling[l] /\ open
           /\ cancel[l] \in {None, TRUE, FALSE}
           /\ Queued("DoContinue", l) => kind[l] # "MainHTML"
  <1>1. LoadInv(l) /\ cancel[l] \in {None, TRUE, FALSE}
    BY DEF IInv, TypeOK
  <1>2. l \notin issued => Stage(l) = "new"
    BY <1>1 DEF LoadInv, Untouched, Stage
  <1>3. Pending(l) => Stage(l) = "loading"
    BY <1>1 DEF LoadInv, Untouched, InQueue, Stage
  <1>4. /\ l \in controller => Stage(l) = "asked" /\ kind[l] = "MainHTML"
        /\ l \in controller /\ ~calling[l] => answer[l] = None
        /\ asking = l => l \in controller /\ calling[l] /\ open
    BY <1>1 DEF LoadInv, WithCrawler, Stage
  <1>5. /\ calling[l] /\ cancel[l] = FALSE => answer[l] = "continue"
        /\ calling[l] /\ cancel[l] = TRUE => answer[l] = "cancel"
    BY <1>1 DEF LoadInv, WithCrawler
  <1>6. Queued("DoContinue", l) => kind[l] # "MainHTML"
    BY <1>1 DEF LoadInv, InQueue
  <1> QED
    BY <1>1, <1>2, <1>3, <1>4, <1>5, <1>6

(* LoadAsynchronously. *)
LEMMA StartRefines ==
    ASSUME IInv, NEW l \in Loads, Start(l)
    PROVE  LC!Load(l)
  <1>1. /\ open /\ l \notin issued /\ issued' = issued \cup {l}
        /\ UNCHANGED <<kind, open, outcome, answer, controller>>
    BY DEF Start, LoadOtherScheme, LoadHijacked, LoadFromNetwork, PerformFails, Issue
  <1>2. outcome[l] = <<>> /\ answer[l] = None /\ l \notin controller /\ Stage(l) = "new"
    BY <1>1, StageOf DEF IInv, LoadInv, Untouched
  <1>3. Stage(l)' = "loading"
    BY <1>1, <1>2 DEF Stage
  <1>4. \A m \in Loads \ {l} : Unmoved(m)
    BY <1>1 DEF Unmoved
  <1> QED
    BY <1>1, <1>2, <1>3, <1>4, StageMoves DEF LC!Load

(* The thread of the request shows nothing of what it does. *)
LEMMA ThreadRefines ==
    ASSUME IInv, NEW l \in Loads, Thread(l)
    PROVE  UNCHANGED LC!vars
  <1>1. UNCHANGED <<kind, open, outcome, answer, controller, issued>>
    BY DEF Thread, RequestComplete, RequestFailed, DeleteFailedTask, ReleaseRequest
  <1> QED
    BY <1>1, StageStutters DEF Unmoved

(* A load ends: its client is told, and nobody has it any more. *)
LEMMA EndRefines ==
    ASSUME IInv, NEW l \in Loads, NEW end \in {"finished", "failed"}, open,
           outcome' = [outcome EXCEPT ![l] = Append(@, end)],
           UNCHANGED <<kind, open, issued>>,
           \A m \in Loads \ {l} : answer'[m] = answer[m] /\ (m \in controller' <=> m \in controller)
    PROVE  LC!Move(l, Stage(l), "over") /\ LC!Tell(l, end)
  <1>1. \A m \in Loads \ {l} : Unmoved(m)
    BY DEF Unmoved, IInv, TypeOK
  <1>2. outcome'[l] # <<>>
    <2>1. outcome[l] \in Seq({"finished", "failed"}) /\ outcome'[l] = Append(outcome[l], end)
      BY DEF IInv, TypeOK
    <2> QED
      BY <2>1, AppendProperties
  <1>3. Stage(l)' = "over"
    BY <1>2 DEF Stage
  <1> QED
    BY <1>1, <1>3, StageMoves DEF LC!Tell

(* The closures and the callback. *)
LEMMA MainThreadRefines ==
    ASSUME IInv, NEW l \in Loads, MainThread(l)
    PROVE  LC!Next \/ UNCHANGED LC!vars
  <1>1. ASSUME NEW fn \in Fns, Dispatch(fn, l)
        PROVE  open /\ Queued(fn, l) /\ Stage(l) = "loading"
    <2>1. queue \in Seq(Closures) /\ OneClosure
      BY DEF IInv, TypeOK
    <2>2. Queued(fn, l)
      BY <1>1, <2>1, DispatchQueue DEF Taken
    <2> QED
      BY <1>1, <2>2, StageOf DEF Dispatch, Pending
  <1>2. CASE ErrorWorker(l)
    <2>1. open /\ Stage(l) = "loading"
      BY <1>1, <1>2 DEF ErrorWorker, Fns
    <2>2. LC!Move(l, "loading", "over") /\ LC!Tell(l, "failed")
      BY <1>2, <2>1, EndRefines DEF ErrorWorker
    <2>3. LC!Fail(l)
      BY <1>2, <2>2 DEF ErrorWorker, LC!Fail
    <2> QED
      BY <2>3 DEF LC!Next
  <1>3. CASE ContinueHijacked(l) \/ ProcessSubresource(l)
    <2>1. open /\ Stage(l) = "loading" /\ kind[l] # "MainHTML"
      BY <1>1, <1>3, StageOf DEF ContinueHijacked, ProcessSubresource, Fns
    <2>2. LC!Move(l, "loading", "over") /\ LC!Tell(l, "finished")
      BY <1>3, <2>1, EndRefines DEF ContinueHijacked, ProcessSubresource, DoContinue
    <2>3. LC!Finish(l)
      BY <1>3, <2>1, <2>2 DEF ContinueHijacked, ProcessSubresource, LC!Finish
    <2> QED
      BY <2>3 DEF LC!Next
  <1>4. CASE AskCrawler(l)
    <2>1. /\ open /\ Stage(l) = "loading" /\ kind[l] = "MainHTML"
          /\ controller' = controller \cup {l}
          /\ UNCHANGED <<kind, open, issued, outcome, answer>>
      BY <1>1, <1>4 DEF AskCrawler, Fns
    <2>2. Stage(l)' = "asked"
      BY <2>1 DEF Stage
    <2>3. LC!Move(l, "loading", "asked")
      BY <2>1, <2>2, StageMoves DEF Unmoved
    <2>4. LC!Ask(l)
      BY <2>1, <2>3 DEF LC!Ask
    <2> QED
      BY <2>4 DEF LC!Next
  <1>5. CASE CallbackReturns(l)
    <2>1. /\ asking = l /\ open /\ Stage(l) = "asked" /\ calling[l]
          /\ UNCHANGED <<kind, open, issued, answer>>
      BY <1>5, StageOf DEF CallbackReturns
    <2>2. CASE cancel[l] = FALSE
      <3>1. /\ answer[l] = "continue" /\ DoContinue(l) /\ controller' = controller \ {l}
        BY <1>5, <2>1, <2>2, StageOf DEF CallbackReturns
      <3>2. LC!Move(l, "asked", "over") /\ LC!Tell(l, "finished")
        BY <2>1, <3>1, EndRefines DEF DoContinue
      <3>3. answer' = [answer EXCEPT ![l] = "continue"] /\ answer[l] # "cancel"
        BY <2>1, <3>1 DEF IInv, TypeOK
      <3>4. LC!HandOn(l)
        BY <3>2, <3>3 DEF LC!HandOn
      <3> QED
        BY <3>4 DEF LC!Next
    <2>3. CASE cancel[l] = TRUE
      <3>1. /\ answer[l] = "cancel" /\ UNCHANGED outcome /\ controller' = controller \ {l}
        BY <1>5, <2>1, <2>3, StageOf DEF CallbackReturns
      <3>2. Stage(l)' = "dropped"
        <4>1. outcome[l] = <<>>
          BY <2>1 DEF Stage
        <4> QED
          BY <2>1, <3>1, <4>1 DEF Stage
      <3>3. LC!Move(l, "asked", "dropped")
        BY <2>1, <3>1, <3>2, StageMoves DEF Unmoved
      <3>4. answer' = [answer EXCEPT ![l] = "cancel"] /\ answer[l] # "continue"
        BY <2>1, <3>1 DEF IInv, TypeOK
      <3>5. LC!Drop(l)
        BY <3>1, <3>3, <3>4 DEF LC!Drop
      <3> QED
        BY <3>5 DEF LC!Next
    <2>4. CASE cancel[l] = None
      <3>1. UNCHANGED <<kind, open, issued, outcome, answer, controller>>
        BY <1>5, <2>1, <2>4 DEF CallbackReturns
      <3> QED
        BY <3>1, StageStutters DEF Unmoved
    <2> QED
      BY <2>2, <2>3, <2>4, StageOf
  <1> QED
    BY <1>2, <1>3, <1>4, <1>5 DEF MainThread

(* The crawler client answers, in the callback or after it. *)
LEMMA AnswerRefines ==
    ASSUME IInv, NEW l \in Loads, ContinueWorking(l) \/ CancelWork(l)
    PROVE  LC!Next
  <1>1. /\ open /\ Stage(l) = "asked" /\ UNCHANGED <<kind, open, issued>>
        /\ outcome[l] = <<>> /\ l \in controller
    BY StageOf DEF ContinueWorking, CancelWork, Stage, IInv, LoadInv, WithCrawler
  <1>2. ASSUME NEW word \in {"continue", "cancel"}, calling[l],
               answer' = [answer EXCEPT ![l] = word], UNCHANGED <<outcome, controller>>
        PROVE  LC!Next
    <2>1. Stage(l)' = "asked"
      BY <1>1, <1>2 DEF Stage
    <2>2. LC!Move(l, "asked", "asked")
      <3>1. \A m \in Loads \ {l} : Unmoved(m)
        BY <1>1, <1>2 DEF Unmoved, IInv, TypeOK
      <3> QED
        BY <1>1, <2>1, <3>1, StageMoves
    <2>3. LC!Answer(l, word)
      BY <1>2, <2>2 DEF LC!Answer
    <2> QED
      BY <2>3 DEF LC!Next
  <1>3. CASE ContinueWorking(l) /\ ~calling[l]
    <2>1. /\ answer[l] = None /\ DoContinue(l) /\ controller' = controller \ {l}
          /\ answer' = [answer EXCEPT ![l] = "continue"]
      BY <1>1, <1>3, StageOf DEF ContinueWorking
    <2>2. LC!Move(l, "asked", "over") /\ LC!Tell(l, "finished")
      <3>1. \A m \in Loads \ {l} : answer'[m] = answer[m] /\ (m \in controller' <=> m \in controller)
        BY <2>1 DEF IInv, TypeOK
      <3> QED
        BY <1>1, <2>1, <3>1, EndRefines DEF DoContinue
    <2>3. LC!HandOn(l)
      BY <2>1, <2>2 DEF LC!HandOn
    <2> QED
      BY <2>3 DEF LC!Next
  <1>4. CASE CancelWork(l) /\ ~calling[l]
    <2>1. /\ answer[l] = None /\ UNCHANGED outcome /\ controller' = controller \ {l}
          /\ answer' = [answer EXCEPT ![l] = "cancel"]
      BY <1>1, <1>4, StageOf DEF CancelWork
    <2>2. answer'[l] = "cancel"
      BY <2>1 DEF IInv, TypeOK
    <2>3. Stage(l)' = "dropped"
      BY <1>1, <2>1, <2>2 DEF Stage
    <2>4. \A m \in Loads \ {l} : Unmoved(m)
      BY <1>1, <2>1 DEF Unmoved, IInv, TypeOK
    <2>5. LC!Move(l, "asked", "dropped")
      BY <1>1, <2>3, <2>4, StageMoves
    <2>6. LC!Drop(l)
      BY <2>1, <2>5 DEF LC!Drop
    <2> QED
      BY <2>6 DEF LC!Next
  <1> QED
    BY <1>2, <1>3, <1>4 DEF ContinueWorking, CancelWork

LEMMA StepRefines == IInv /\ [Next]_vars => [LC!Next]_LC!vars
  <1> SUFFICES ASSUME IInv, [Next]_vars PROVE LC!Next \/ UNCHANGED LC!vars
    OBVIOUS
  <1>1. ASSUME NEW l \in Loads, Start(l) PROVE LC!Next
    BY <1>1, StartRefines DEF LC!Next
  <1>2. ASSUME NEW l \in Loads, Thread(l) PROVE UNCHANGED LC!vars
    BY <1>2, ThreadRefines
  <1>3. ASSUME NEW l \in Loads, MainThread(l) PROVE LC!Next \/ UNCHANGED LC!vars
    BY <1>3, MainThreadRefines
  <1>4. ASSUME NEW l \in Loads, ContinueWorking(l) \/ CancelWork(l) PROVE LC!Next
    BY <1>4, AnswerRefines
  <1>5. CASE CloseLoop
    <2>1. \A l \in Loads : Stage(l)' = Stage(l)
      BY <1>5 DEF CloseLoop, Stage
    <2>2. LC!Close
      BY <1>5, <2>1 DEF CloseLoop, LC!Close
    <2> QED
      BY <2>2 DEF LC!Next
  <1>6. CASE DestroyCrawler \/ UNCHANGED vars
    <2>1. UNCHANGED <<kind, open, issued, outcome, answer, controller>>
      BY <1>6 DEF DestroyCrawler, vars
    <2> QED
      BY <2>1, StageStutters DEF Unmoved
  <1> QED
    BY <1>1, <1>2, <1>3, <1>4, <1>5, <1>6 DEF Next

-----------------------------------------------------------------------------
(* Theorems. *)

(* Every load is in one pair of hands, and these find what they need. *)
THEOREM Hands == Spec => []IInv
  <1> QED
    BY InitHolds, NextKeeps, PTL DEF Spec

(* The variables of HttpLoad keep their types: a request is deleted twice  *)
(* at most (http_loader_task.cpp:200 after curl_request.cpp's Perform).    *)
THEOREM TypeCorrect == Spec => []TypeOK
  <1>1. IInv => TypeOK
    BY DEF IInv
  <1> QED
    BY <1>1, Hands, PTL

(***************************************************************************)
(* The client of a load hears of one end at most (http_loader_task.cpp:69, *)
(* loader_task.cpp:33).                                                    *)
(***************************************************************************)
THEOREM OneOutcome == Spec => []AtMostOneOutcome
  <1>1. ASSUME IInv, NEW l \in Loads PROVE Len(outcome[l]) <= 1
    <2>1. outcome[l] \in {<<>>, <<"finished">>, <<"failed">>}
      BY <1>1 DEF IInv, LoadInv, Ended
    <2>2. CASE outcome[l] = <<>>
      BY <2>2
    <2>3. CASE outcome[l] = <<"finished">>
      BY <2>3
    <2>4. CASE outcome[l] = <<"failed">>
      BY <2>4
    <2> QED
      BY <2>1, <2>2, <2>3, <2>4
  <1>2. IInv => AtMostOneOutcome
    BY <1>1 DEF AtMostOneOutcome
  <1> QED
    BY <1>2, Hands, PTL

(***************************************************************************)
(* `delete this` on two threads never takes a task from a thread, closure, *)
(* callback or controller that will use it (http_loader_task.cpp:70, 169). *)
(***************************************************************************)
THEOREM NoUseAfterDelete == Spec => []LiveWhenUsed
  <1>1. ASSUME IInv, NEW l \in Loads
        PROVE  /\ worker[l] \in {"performing", "failing"} => task[l] = "live"
               /\ worker[l] \in {"performing", "failing", "releasing"}
                     => refs[l] = 1 /\ freed[l] = 0
               /\ \/ Queued("DoContinue", l) \/ Queued("ProcessRequestComplete", l)
                  \/ asking = l \/ l \in controller
                     => task[l] = "live" /\ response[l]
    BY <1>1 DEF IInv, LoadInv, InThread, InQueue, WithCrawler
  <1>2. IInv => LiveWhenUsed
    BY <1>1 DEF LiveWhenUsed
  <1> QED
    BY <1>2, Hands, PTL

(* No page is handed on unless the crawler client's last word on it was to *)
(* continue (http_loader_task.cpp:145).                                    *)
THEOREM ConsentFirst == Spec => []PageNeedsConsent
  <1>1. IInv => PageNeedsConsent
    BY DEF IInv, LoadInv, Ended, PageNeedsConsent
  <1> QED
    BY <1>1, Hands, PTL

(***************************************************************************)
(* A task goes away with its load, and not before the client of the load   *)
(* is told or the loop is closed; until then curl, a closure or the        *)
(* crawler client has the load, unless it was cancelled                    *)
(* (http_loader_task.cpp:55, 70 and 169).  LoadsEnd follows from this when *)
(* curl returns and the main loop runs.                                    *)
(***************************************************************************)
THEOREM NoTaskLeft == Spec => []TaskEndsWithLoad
  <1>1. ASSUME IInv, NEW l \in Loads
        PROVE  /\ outcome[l] # <<>>
                     => task[l] # "live" \/ worker[l] = "failing" \/ freed[l] = 2
               /\ task[l] = "deleted"
                     => outcome[l] # <<>> \/ Queued("ErrorWorker", l) \/ ~open
               /\ l \in issued /\ outcome[l] = <<>> /\ open
                     => \/ worker[l] = "performing" \/ Pending(l)
                        \/ l \in controller \/ answer[l] = "cancel"
    BY <1>1 DEF IInv, LoadInv, Ended
  <1>2. IInv => TaskEndsWithLoad
    BY <1>1 DEF TaskEndsWithLoad
  <1> QED
    BY <1>2, Hands, PTL

(***************************************************************************)
(* For its client and the crawler client a load is what LoadContract says, *)
(* for any number of loads: one end, pages only with consent, and nothing  *)
(* after the loop closed (http_loader_task.cpp:37-71 and 134-170).         *)
(***************************************************************************)
THEOREM LoadsKeepTheContract == Spec => Implements
  <1>1. ASSUME Init PROVE LC!Init
    <2>1. \A l \in Loads : Stage(l) = "new"
      BY <1>1 DEF Init, Stage
    <2> QED
      BY <1>1, <2>1 DEF Init, LC!Init
  <1> QED
    BY <1>1, StepRefines, Hands, PTL DEF Spec, Implements, LC!Spec

-----------------------------------------------------------------------------
(* Every load comes to an end. *)

(* What the thread of a request still does. *)
ThreadLeft(l) ==
    CASE worker[l] = "performing" -> 5
      [] worker[l] = "failing" -> 2
      [] worker[l] = "releasing" -> 1
      [] OTHER -> 0

(* What the main thread and the crawler client still do. *)
LoopLeft(l) ==
    IF Queued("ProcessRequestComplete", l) THEN 3
    ELSE IF asking = l THEN 2
    ELSE IF Queued("DoContinue", l) \/ Queued("ErrorWorker", l) \/ l \in controller THEN 1
    ELSE 0

Left(l) == IF l \notin issued THEN 6 ELSE ThreadLeft(l) + LoopLeft(l)

(* In its callback the crawler client may change its mind. *)
AnswersInCallback(l) ==
    asking = l /\ cancel'[l] # None /\ UNCHANGED <<asking, queue, worker>>

(***************************************************************************)
(* No step takes a load further from its end, and each takes one nearer to *)
(* it: from its thread to a closure, to the callback, to the holder of its *)
(* controller.  The exceptions are the end of the loop, that of the        *)
(* crawler and answers given inside the callback                           *)
(* (http_loader_task.cpp:37-71, curl_request.cpp, request_impl.cpp:36).    *)
(***************************************************************************)
LoadsAdvance ==
    /\ \A l \in Loads : Left(l)' <= Left(l)
    /\ \/ \E l \in Loads : Left(l)' < Left(l)
       \/ open' # open \/ crawler' # crawler
       \/ \E l \in Loads : AnswersInCallback(l)

(* Nothing that Left depends on changes for the loads but l. *)
Beside(l) ==
    \A m \in Loads \ {l} :
        /\ worker'[m] = worker[m]
        /\ m \in issued' <=> m \in issued
        /\ m \in controller' <=> m \in controller
        /\ asking' = m <=> asking = m
        /\ \A f \in Fns : Queued(f, m)' <=> Queued(f, m)

LEMMA LeftIsNat == \A l \in Loads : Left(l) \in 0..8 /\ Left(l)' \in 0..8
BY DEF Left, ThreadLeft, LoopLeft

LEMMA LeftBeside ==
    ASSUME NEW l \in Loads, Beside(l), NEW m \in Loads \ {l}
    PROVE  Left(m)' = Left(m)
<1>1. /\ Queued("ProcessRequestComplete", m)' <=> Queued("ProcessRequestComplete", m)
      /\ Queued("DoContinue", m)' <=> Queued("DoContinue", m)
      /\ Queued("ErrorWorker", m)' <=> Queued("ErrorWorker", m)
  BY DEF Beside, Fns
<1>2. ThreadLeft(m)' = ThreadLeft(m) BY DEF Beside, ThreadLeft
<1>3. LoopLeft(m)' = LoopLeft(m) BY <1>1 DEF Beside, LoopLeft
<1> QED BY <1>2, <1>3 DEF Beside, Left

LEMMA OneNearer ==
    ASSUME NEW l \in Loads, Beside(l), Left(l)' < Left(l)
    PROVE  LoadsAdvance
<1>1. \A m \in Loads : Left(m) \in Int /\ Left(m)' \in Int BY LeftIsNat
<1>2. \A m \in Loads \ {l} : Left(m)' = Left(m) BY LeftBeside
<1> HIDE DEF Left
<1>3. \A m \in Loads : Left(m)' <= Left(m)
  <2> TAKE m \in Loads
  <2>1. CASE m = l
    <3>1. Left(l)' < Left(l) /\ Left(l) \in Int /\ Left(l)' \in Int BY <1>1
    <3> QED BY ONLY <2>1, <3>1
  <2>2. CASE m # l
    <3>1. Left(m)' = Left(m) /\ Left(m) \in Int BY <1>1, <1>2, <2>2
    <3> QED BY ONLY <3>1
  <2> QED BY <2>1, <2>2
<1> QED BY <1>3 DEF LoadsAdvance

(* Nobody has a load before it is asked for, and its thread has it alone. *)
LEMMA OneHand ==
    ASSUME IInv, NEW l \in Loads
    PROVE  /\ l \notin issued \/ worker[l] = "performing" =>
                 ~Pending(l) /\ l \notin controller /\ asking # l
           /\ l \notin issued => worker[l] = "none"
           /\ Pending(l) => l \notin controller /\ asking # l
           /\ worker[l] \in {"failing", "releasing"} \/ Pending(l) \/ l \in controller
                 => l \in issued
           /\ asking = l => l \in controller
           /\ asking \in Loads \cup {None}
<1>1. LoadInv(l) /\ TypeOK BY DEF IInv
<1>2. l \notin issued => worker[l] = "none" /\ ~Pending(l) /\ l \notin controller
  BY ONLY <1>1 DEF LoadInv, Untouched
<1>3. asking = l => l \in controller BY ONLY <1>1 DEF LoadInv, WithCrawler
<1>4. worker[l] = "performing" => ~Pending(l) /\ l \notin controller
  BY ONLY <1>1 DEF LoadInv, InThread
<1>5. Pending(l) => l \notin controller BY ONLY <1>1 DEF LoadInv, InQueue
<1>6. asking \in Loads \cup {None} BY ONLY <1>1 DEF TypeOK
<1> QED BY ONLY <1>2, <1>3, <1>4, <1>5, <1>6

(* A load is handed to the main thread. *)
LEMMA PostAdvances ==
    ASSUME IInv, NEW l \in Loads, NEW fn \in Fns, Post(fn, l), ~Pending(l),
           UNCHANGED <<controller, asking>>, asking # l, l \notin controller,
           \A m \in Loads \ {l} : worker'[m] = worker[m] /\ (m \in issued' <=> m \in issued),
           l \in issued',
           (IF fn = "ProcessRequestComplete" THEN 3 ELSE 1) + ThreadLeft(l)' < Left(l)
    PROVE  LoadsAdvance
<1>1. Posted(fn, l) BY PostQueue DEF IInv, TypeOK
<1>2. Beside(l) BY <1>1 DEF Posted, Beside
<1>3. LoopLeft(l)' <= IF fn = "ProcessRequestComplete" THEN 3 ELSE 1
  <2>1. \A f \in Fns : Queued(f, l)' => f = fn BY <1>1 DEF Posted, Pending
  <2>2. asking' # l /\ l \notin controller' OBVIOUS
  <2>3. /\ Queued("ProcessRequestComplete", l)' => fn = "ProcessRequestComplete"
    BY <2>1 DEF Fns
  <2> QED BY ONLY <2>2, <2>3 DEF LoopLeft
<1>4. Left(l)' = ThreadLeft(l)' + LoopLeft(l)' BY DEF Left
<1>5. Left(l)' < Left(l)
  <2>1. LoopLeft(l)' \in 0..3 /\ ThreadLeft(l)' \in 0..5 BY DEF LoopLeft, ThreadLeft
  <2>2. Left(l) \in Int BY LeftIsNat
  <2> HIDE DEF Left, LoopLeft, ThreadLeft
  <2> QED BY <1>3, <1>4, <2>1, <2>2
<1> QED BY ONLY <1>2, <1>5, OneNearer

LEMMA StartAdvances ==
    ASSUME IInv, NEW l \in Loads, Start(l)
    PROVE  LoadsAdvance
<1>1. /\ l \notin issued /\ issued' = issued \cup {l} /\ UNCHANGED <<controller, asking>>
      /\ ~Pending(l) /\ asking # l /\ l \notin controller /\ worker[l] = "none"
  BY OneHand DEF Start, LoadOtherScheme, LoadHijacked, LoadFromNetwork, PerformFails, Issue
<1>2. Left(l) = 6 BY <1>1 DEF Left
<1>3. CASE LoadFromNetwork(l)
  <2>1. worker' = [worker EXCEPT ![l] = "performing"] /\ queue' = queue
    BY <1>3 DEF LoadFromNetwork, Issue
  <2>2. Kept BY <2>1, SameQueue DEF IInv
  <2>3. \A m \in Loads \ {l} : worker'[m] = worker[m] BY <2>1 DEF IInv, TypeOK
  <2>4. Beside(l) BY <1>1, <2>2, <2>3 DEF Kept, Beside
  <2>5. ThreadLeft(l)' = 5
    <3>1. worker'[l] = "performing" BY <2>1 DEF IInv, TypeOK
    <3> QED BY ONLY <3>1 DEF ThreadLeft
  <2>6. LoopLeft(l)' = 0
    <3>1. \A f \in Fns : ~Queued(f, l)' BY <1>1, <2>2 DEF Kept, Pending
    <3> QED BY ONLY <1>1, <3>1 DEF LoopLeft, Fns
  <2>7. Left(l)' = 5 BY ONLY <1>1, <2>5, <2>6 DEF Left
  <2> QED BY ONLY <1>2, <2>4, <2>7, OneNearer
<1>4. CASE LoadOtherScheme(l) \/ LoadHijacked(l) \/ PerformFails(l)
  <2>1. PICK fn \in {"ErrorWorker", "DoContinue"} : Post(fn, l)
    BY <1>4 DEF LoadOtherScheme, LoadHijacked, PerformFails
  <2>2. worker' = worker BY <1>4 DEF LoadOtherScheme, LoadHijacked, PerformFails
  <2>3. ThreadLeft(l)' = 0 BY ONLY <1>1, <2>2 DEF ThreadLeft
  <2>4. fn \in Fns /\ (IF fn = "ProcessRequestComplete" THEN 3 ELSE 1) + ThreadLeft(l)' < Left(l)
    BY ONLY <1>2, <2>1, <2>3 DEF Fns
  <2> QED BY ONLY IInv, <1>1, <2>1, <2>2, <2>4, PostAdvances
<1> QED BY <1>3, <1>4 DEF Start

LEMMA ThreadAdvances ==
    ASSUME IInv, NEW l \in Loads, Thread(l)
    PROVE  LoadsAdvance
<1>1. /\ worker[l] \in {"performing", "failing", "releasing"}
      /\ UNCHANGED <<issued, controller, asking>>
  BY DEF Thread, RequestComplete, RequestFailed, DeleteFailedTask, ReleaseRequest
<1>2. \A m \in Loads \ {l} : worker'[m] = worker[m]
  BY DEF Thread, RequestComplete, RequestFailed, DeleteFailedTask, ReleaseRequest, IInv, TypeOK
<1>3. l \in issued BY <1>1, OneHand
<1>4. Left(l) = ThreadLeft(l) + LoopLeft(l) /\ Left(l)' = ThreadLeft(l)' + LoopLeft(l)'
  BY ONLY <1>1, <1>3 DEF Left
<1>5. CASE RequestComplete(l) \/ RequestFailed(l)
  <2>1. PICK fn \in {"ErrorWorker", "ProcessRequestComplete"} :
           Post(fn, l) /\ worker'[l] = IF fn = "ErrorWorker" THEN "failing" ELSE "releasing"
    BY <1>5 DEF RequestComplete, RequestFailed, IInv, TypeOK
  <2>2. worker[l] = "performing" BY <1>5 DEF RequestComplete, RequestFailed
  <2>3. ~Pending(l) /\ asking # l /\ l \notin controller BY <2>2, OneHand
  <2>4. fn \in Fns /\ (IF fn = "ProcessRequestComplete" THEN 3 ELSE 1) + ThreadLeft(l)' < Left(l)
    <3>1. ThreadLeft(l)' = IF fn = "ErrorWorker" THEN 2 ELSE 1
      BY ONLY <2>1 DEF ThreadLeft
    <3>2. ThreadLeft(l) = 5 BY ONLY <2>2 DEF ThreadLeft
    <3>3. LoopLeft(l) \in 0..3 BY ONLY DEF LoopLeft
    <3> QED BY ONLY <1>4, <2>1, <3>1, <3>2, <3>3 DEF Fns
  <2> QED BY ONLY IInv, <1>1, <1>2, <1>3, <2>1, <2>3, <2>4, PostAdvances
<1>6. CASE DeleteFailedTask(l) \/ ReleaseRequest(l)
  <2>1. /\ queue' = queue
        /\ \/ worker[l] = "failing" /\ worker'[l] = "releasing"
           \/ worker[l] = "releasing" /\ worker'[l] = "done"
    BY <1>6 DEF DeleteFailedTask, ReleaseRequest, IInv, TypeOK
  <2>2. Kept BY <2>1, SameQueue DEF IInv
  <2>3. Beside(l) BY ONLY <1>1, <1>2, <2>2 DEF Kept, Beside
  <2>4. LoopLeft(l)' = LoopLeft(l) BY ONLY <1>1, <2>2 DEF Kept, LoopLeft, Fns
  <2>5. ThreadLeft(l)' < ThreadLeft(l) /\ ThreadLeft(l) \in Int /\ ThreadLeft(l)' \in Int
    BY ONLY <2>1 DEF ThreadLeft
  <2>6. LoopLeft(l) \in 0..3 BY ONLY DEF LoopLeft
  <2>7. Left(l)' < Left(l) BY ONLY <1>4, <2>4, <2>5, <2>6
  <2> QED BY ONLY <2>3, <2>7, OneNearer
<1> QED BY <1>5, <1>6 DEF Thread

(* The main thread takes a load on, and its thread does not notice. *)
LEMMA LoopAdvances ==
    ASSUME IInv, NEW l \in Loads, l \in issued, UNCHANGED <<worker, issued>>, Beside(l),
           LoopLeft(l)' < LoopLeft(l)
    PROVE  LoadsAdvance
<1>1. ThreadLeft(l)' = ThreadLeft(l) BY ONLY UNCHANGED worker DEF ThreadLeft
<1>2. ThreadLeft(l) \in 0..5 /\ LoopLeft(l) \in 0..3 /\ LoopLeft(l)' \in 0..3
  BY ONLY DEF ThreadLeft, LoopLeft
<1>3. Left(l) = ThreadLeft(l) + LoopLeft(l) /\ Left(l)' = ThreadLeft(l)' + LoopLeft(l)'
  BY DEF Left
<1>4. Left(l)' < Left(l) BY ONLY <1>1, <1>2, <1>3, LoopLeft(l)' < LoopLeft(l)
<1> QED BY ONLY <1>4, Beside(l), OneNearer

LEMMA MainThreadAdvances ==
    ASSUME IInv, NEW l \in Loads, MainThread(l)
    PROVE  LoadsAdvance
<1>1. UNCHANGED <<worker, issued>>
  BY DEF MainThread, ErrorWorker, ContinueHijacked, ProcessSubresource, AskCrawler,
     CallbackReturns
<1>2. CASE ErrorWorker(l) \/ ContinueHijacked(l) \/ ProcessSubresource(l) \/ AskCrawler(l)
  <2>1. PICK fn \in Fns : Dispatch(fn, l) /\ (AskCrawler(l) => fn = "ProcessRequestComplete")
    BY <1>2 DEF ErrorWorker, ContinueHijacked, ProcessSubresource, AskCrawler, Fns
  <2>2. Taken(fn, l) BY <2>1, DispatchQueue DEF IInv, TypeOK
  <2>3. asking = None BY <2>1 DEF Dispatch
  <2>4. \/ UNCHANGED <<asking, controller>>
        \/ asking' = l /\ controller' = controller \cup {l} /\ AskCrawler(l)
    BY <1>2 DEF ErrorWorker, ContinueHijacked, ProcessSubresource, AskCrawler
  <2>5. Pending(l) /\ l \in issued /\ l \notin controller
    BY <2>2, OneHand DEF Taken, Pending
  <2>6. Beside(l)
    BY <1>1, <2>2, <2>3, <2>4 DEF Taken, Beside
  <2>7. ~Queued("ProcessRequestComplete", l)' /\ ~Queued("DoContinue", l)' /\ ~Queued("ErrorWorker", l)'
    BY <2>2 DEF Taken, Fns
  <2>8. LoopLeft(l)' < LoopLeft(l)
    <3>1. LoopLeft(l)' = IF asking' = l THEN 2 ELSE IF l \in controller' THEN 1 ELSE 0
      BY ONLY <2>7 DEF LoopLeft
    <3>2. \/ Queued("ProcessRequestComplete", l) \/ Queued("DoContinue", l)
          \/ Queued("ErrorWorker", l)
      BY ONLY <2>5 DEF Pending, Fns
    <3>6. LoopLeft(l) >= 1 /\ (Queued("ProcessRequestComplete", l) => LoopLeft(l) = 3)
      BY ONLY <3>2 DEF LoopLeft
    <3>3. LoopLeft(l) \in 0..3 BY ONLY DEF LoopLeft
    <3>4. CASE UNCHANGED <<asking, controller>>
      BY <2>3, <2>5, <3>1, <3>6, <3>3, <3>4
    <3>5. CASE asking' = l /\ AskCrawler(l)
      BY <2>1, <2>2, <3>1, <3>6, <3>5 DEF Taken
    <3> QED BY <2>4, <3>4, <3>5
  <2> QED BY ONLY IInv, <1>1, <2>5, <2>6, <2>8, LoopAdvances
<1>3. CASE CallbackReturns(l)
  <2>1. /\ asking = l /\ asking' = None /\ queue' = queue
        /\ controller' \in {controller, controller \ {l}}
    BY <1>3 DEF CallbackReturns
  <2>2. Kept BY <2>1, SameQueue DEF IInv
  <2>3. Beside(l) BY <1>1, <2>1, <2>2 DEF Kept, Beside
  <2>4. l \in controller /\ l \in issued /\ ~Pending(l) BY <2>1, OneHand
  <2>5. LoopLeft(l) = 2
    <3>1. ~Queued("ProcessRequestComplete", l) BY ONLY <2>4 DEF Pending, Fns
    <3> QED BY ONLY <2>1, <3>1 DEF LoopLeft
  <2>6. ~Queued("ProcessRequestComplete", l)' BY <2>2, <2>4 DEF Kept, Pending, Fns
  <2>7. asking' # l BY <2>1
  <2>8. LoopLeft(l)' \in 0..1 BY ONLY <2>6, <2>7 DEF LoopLeft
  <2>9. LoopLeft(l)' < LoopLeft(l) BY ONLY <2>5, <2>8
  <2> QED BY ONLY IInv, <1>1, <2>3, <2>4, <2>9, LoopAdvances
<1> QED BY <1>2, <1>3 DEF MainThread

LEMMA AnswerAdvances ==
    ASSUME IInv, NEW l \in Loads, ContinueWorking(l) \/ CancelWork(l)
    PROVE  LoadsAdvance
<1>1. /\ l \in controller /\ UNCHANGED <<worker, issued, asking>> /\ queue' = queue
  BY DEF ContinueWorking, CancelWork
<1>2. Kept BY <1>1, SameQueue DEF IInv
<1>3. l \in issued /\ ~Pending(l) BY <1>1, OneHand
<1>4. calling[l] <=> asking = l BY DEF IInv, LoadInv, WithCrawler
<1>5. CASE calling[l]
  <2>1. UNCHANGED controller /\ cancel'[l] # None
    <3>1. UNCHANGED controller
          /\ (cancel' = [cancel EXCEPT ![l] = FALSE] \/ cancel' = [cancel EXCEPT ![l] = TRUE])
      BY <1>5 DEF ContinueWorking, CancelWork
    <3>2. cancel \in [Loads -> BOOLEAN \cup {None}] BY DEF IInv, TypeOK
    <3>3. cancel'[l] = FALSE \/ cancel'[l] = TRUE BY ONLY <3>1, <3>2
    <3> QED BY ONLY <3>1, <3>3, UnsetAssumption
  <2>2. AnswersInCallback(l) BY ONLY <1>1, <1>4, <1>5, <2>1 DEF AnswersInCallback
  <2>3. \A m \in Loads : Left(m)' = Left(m)
    <3> TAKE m \in Loads
    <3>1. /\ Queued("ProcessRequestComplete", m)' <=> Queued("ProcessRequestComplete", m)
          /\ Queued("DoContinue", m)' <=> Queued("DoContinue", m)
          /\ Queued("ErrorWorker", m)' <=> Queued("ErrorWorker", m)
      BY <1>2 DEF Kept, Fns
    <3>2. ThreadLeft(m)' = ThreadLeft(m) /\ LoopLeft(m)' = LoopLeft(m)
      BY ONLY <1>1, <2>1, <3>1 DEF ThreadLeft, LoopLeft
    <3> QED BY ONLY <1>1, <3>2 DEF Left
  <2>4. \A m \in Loads : Left(m) \in Int BY LeftIsNat
  <2>5. \A m \in Loads : Left(m)' <= Left(m)
    <3> HIDE DEF Left
    <3> QED BY ONLY <2>3, <2>4
  <2> QED BY ONLY <2>2, <2>5 DEF LoadsAdvance
<1>6. CASE ~calling[l]
  <2>1. controller' = controller \ {l} BY <1>6 DEF ContinueWorking, CancelWork
  <2>2. Beside(l) BY <1>1, <1>2, <2>1 DEF Kept, Beside
  <2>3. \A f \in Fns : ~Queued(f, l) /\ ~Queued(f, l)' BY <1>2, <1>3 DEF Kept, Pending
  <2>4. asking # l /\ asking' # l BY <1>1, <1>4, <1>6
  <2>5. LoopLeft(l) = 1 /\ LoopLeft(l)' = 0
    BY ONLY <1>1, <2>1, <2>3, <2>4 DEF LoopLeft, Fns
  <2>6. LoopLeft(l)' < LoopLeft(l) BY ONLY <2>5
  <2> QED BY ONLY IInv, <1>1, <1>3, <2>2, <2>6, LoopAdvances
<1> QED BY <1>5, <1>6

(* The end of the loop takes closures away, that of the crawler nothing. *)
LEMMA EndAdvances ==
    ASSUME IInv, CloseLoop \/ DestroyCrawler
    PROVE  LoadsAdvance
<1>1. UNCHANGED <<worker, issued, asking, controller>> /\ (open' # open \/ crawler' # crawler)
  BY DEF CloseLoop, DestroyCrawler
<1>2. \A f \in Fns, l \in Loads : Queued(f, l)' => Queued(f, l)
  <2>1. CASE CloseLoop
    <3>1. Len(queue') = 0 BY <2>1, EmptySeq DEF CloseLoop
    <3> QED BY <3>1 DEF Queued, Contains
  <2>2. CASE DestroyCrawler BY <2>2 DEF DestroyCrawler, Queued, Contains
  <2> QED BY <2>1, <2>2
<1>3. ASSUME NEW l \in Loads PROVE Left(l)' <= Left(l)
  <2>1. LoopLeft(l)' <= LoopLeft(l) /\ LoopLeft(l) \in 0..3 /\ LoopLeft(l)' \in 0..3
    <3>1. /\ Queued("ProcessRequestComplete", l)' => Queued("ProcessRequestComplete", l)
          /\ Queued("DoContinue", l)' => Queued("DoContinue", l)
          /\ Queued("ErrorWorker", l)' => Queued("ErrorWorker", l)
      BY <1>2 DEF Fns
    <3> QED BY ONLY <1>1, <3>1 DEF LoopLeft
  <2>2. ThreadLeft(l)' = ThreadLeft(l) /\ ThreadLeft(l) \in 0..5 BY ONLY <1>1 DEF ThreadLeft
  <2> QED BY ONLY <1>1, <2>1, <2>2 DEF Left
<1> QED BY ONLY <1>1, <1>3 DEF LoadsAdvance

(***************************************************************************)
(* For any number of loads, each makes finitely many steps: Left is a      *)
(* natural number.  With NoTaskLeft, by which a load without an outcome is *)
(* in somebody's hands, this is what safety has to say of LoadsEnd.        *)
(***************************************************************************)
THEOREM EveryLoadAdvances == Spec => [][LoadsAdvance]_vars
<1>1. IInv /\ [Next]_vars => LoadsAdvance \/ UNCHANGED vars
  BY StartAdvances, ThreadAdvances, MainThreadAdvances, AnswerAdvances, EndAdvances DEF Next
<1> QED BY <1>1, Hands, PTL DEF Spec

=============================================================================
