-------------------------- MODULE WinRequestProofs ---------------------------
(***************************************************************************)
(* Proofs about WinRequest, for a response body of any number of parts:    *)
(* types, one signal for each wait, the last holder frees the request, the *)
(* request implements HttpRequest, does not end in silence and comes       *)
(* nearer to its end with every step but a redirection.                    *)
(*                                                                         *)
(* The strengthening says who has how many references (Counted), that      *)
(* nothing is signalled or pending before Perform has handed over the      *)
(* first worker (QuietBefore), that a worker runs only while no error is   *)
(* kept (NoErrorInWorkers), and that after the last word the thread only   *)
(* has to find out that there is no next worker (ToldAtEnd).               *)
(***************************************************************************)
EXTENDS WinRequest, TLAPS

ThreadRefs == IF pc = "done" THEN 0 ELSE 1

ControllerRefs ==
    IF controller = "held" THEN 1
    ELSE IF controller = "gone" /\ cancelEvent = "set" THEN -1 ELSE 0

Counted ==
    /\ refs = ThreadRefs + ControllerRefs
    /\ cancelEvent = "set" => controller \in {"cancelling", "gone"}
    /\ controller = "cancelling" => cancelEvent = "set"
    /\ controller = "none" <=> cancelEvent = "null"
    /\ cancelEvent # "set" => (freed <=> refs = 0)

QuietBefore ==
    /\ caller # "started" => ~event /\ io = "none"
    /\ caller \in {"new", "refused"} => pc = "none" /\ told = <<>>
    /\ pc = "none" => caller \in {"new", "refused"}
    /\ caller = "starting" => pc \in {"waiting", "absent", "failing", "releasing", "done"}

NoErrorInWorkers == pc \in Workers => error = "none"

ToldAtEnd ==
    \/ told = <<>>
    \/ pc \in {"releasing", "done"}
    \/ pc = "waiting" /\ next = "none" /\ event /\ io = "none" /\ error = "none"

IInv ==
    /\ TypeOK /\ Counted /\ QuietBefore
    /\ OneSignalPerWait /\ NoErrorInWorkers /\ ToldAtEnd

USE MaxPartsAssumption DEF IInv, Workers, Waits, ThreadPC, holders, client,
        threadOnly, At, Continue, Proceed, Fail, Release

LEMMA InitHolds == Init => IInv
  <1> SUFFICES ASSUME Init PROVE IInv
    OBVIOUS
  <1>1. event \in BOOLEAN /\ freed \in BOOLEAN /\ declined \in BOOLEAN
    BY DEF Init
  <1>2. TypeOK
    BY <1>1 DEF Init, TypeOK
  <1>3. Counted
    BY DEF Init, Counted, ThreadRefs, ControllerRefs
  <1> QED
    BY <1>2, <1>3 DEF Init, QuietBefore, OneSignalPerWait, NoErrorInWorkers, ToldAtEnd

-----------------------------------------------------------------------------
(* The caller of BkPerformRequest. *)

LEMMA GetControllerKeeps ==
    ASSUME IInv, GetController
    PROVE  IInv'
  <1>1. Counted'
    <2>1. ThreadRefs = 1 /\ ThreadRefs' = 1
      BY DEF GetController, QuietBefore, ThreadRefs
    <2>2. ControllerRefs = 0 /\ ControllerRefs' = 1
      BY DEF GetController, ControllerRefs
    <2> QED
      BY <2>1, <2>2 DEF GetController, Counted, TypeOK
  <1>2. TypeOK'
    <2>1. refs' \in -1..2
      BY <1>1 DEF Counted, ThreadRefs, ControllerRefs
    <2> QED
      BY <2>1 DEF GetController, TypeOK
  <1>3. QuietBefore'
    BY DEF GetController, QuietBefore, TypeOK
  <1>4. OneSignalPerWait'
    BY DEF GetController, OneSignalPerWait, QuietBefore
  <1>5. NoErrorInWorkers'
    BY DEF GetController, NoErrorInWorkers, OneSignalPerWait
  <1>6. ToldAtEnd'
    BY DEF GetController, ToldAtEnd, QuietBefore, OneSignalPerWait
  <1> QED
    BY <1>1, <1>2, <1>3, <1>4, <1>5, <1>6

LEMMA PerformFailsKeeps ==
    ASSUME IInv, PerformFails
    PROVE  IInv'
  <1>1. Counted'
    BY DEF PerformFails, Counted, TypeOK, ThreadRefs, ControllerRefs
  <1>2. TypeOK'
    BY DEF PerformFails, TypeOK
  <1>3. QuietBefore'
    BY DEF PerformFails, QuietBefore, TypeOK
  <1>4. OneSignalPerWait'
    BY DEF PerformFails, OneSignalPerWait, QuietBefore
  <1>5. NoErrorInWorkers'
    BY DEF PerformFails, NoErrorInWorkers, OneSignalPerWait
  <1>6. ToldAtEnd'
    BY DEF PerformFails, ToldAtEnd, QuietBefore, OneSignalPerWait
  <1> QED
    BY <1>1, <1>2, <1>3, <1>4, <1>5, <1>6

LEMMA StartWorkThreadKeeps ==
    ASSUME IInv, StartWorkThread
    PROVE  IInv'
  <1>1. Counted'
    <2>1. ThreadRefs = 1 /\ ThreadRefs' = 1
      BY DEF StartWorkThread, QuietBefore, ThreadRefs
    <2>2. ControllerRefs' = ControllerRefs
      BY DEF StartWorkThread, ControllerRefs
    <2> QED
      BY <2>1, <2>2 DEF StartWorkThread, Counted
  <1>2. TypeOK'
    BY DEF StartWorkThread, TypeOK
  <1>3. QuietBefore'
    BY DEF StartWorkThread, QuietBefore, TypeOK
  <1>4. OneSignalPerWait'
    BY DEF StartWorkThread, OneSignalPerWait, QuietBefore
  <1>5. NoErrorInWorkers'
    BY DEF StartWorkThread, NoErrorInWorkers, OneSignalPerWait
  <1>6. ToldAtEnd'
    BY DEF StartWorkThread, ToldAtEnd, QuietBefore, OneSignalPerWait
  <1> QED
    BY <1>1, <1>2, <1>3, <1>4, <1>5, <1>6

LEMMA FirstWorkerKeeps ==
    ASSUME IInv, FirstWorker
    PROVE  IInv'
  <1>1. Counted'
    BY DEF FirstWorker, Counted, TypeOK, ThreadRefs, ControllerRefs
  <1>2. TypeOK'
    BY DEF FirstWorker, TypeOK
  <1>3. QuietBefore'
    BY DEF FirstWorker, QuietBefore, TypeOK
  <1>4. OneSignalPerWait'
    BY DEF FirstWorker, OneSignalPerWait, QuietBefore
  <1>5. NoErrorInWorkers'
    BY DEF FirstWorker, NoErrorInWorkers, OneSignalPerWait
  <1>6. ToldAtEnd'
    BY DEF FirstWorker, ToldAtEnd, QuietBefore, OneSignalPerWait
  <1> QED
    BY <1>1, <1>2, <1>3, <1>4, <1>5, <1>6

-----------------------------------------------------------------------------
(* The three ways an operation of a worker goes. *)

LEMMA FailsKeeps ==
    ASSUME IInv, NEW w \in Workers,
           NEW r \in {"network", "unknown"}, OperationFails(w, r)
    PROVE  IInv'
  <1>1. Counted'
    BY DEF OperationFails, Counted, TypeOK, ThreadRefs, ControllerRefs
  <1>2. TypeOK'
    BY DEF OperationFails, TypeOK
  <1>3. QuietBefore'
    BY DEF OperationFails, QuietBefore, TypeOK
  <1>4. OneSignalPerWait'
    BY DEF OperationFails, OneSignalPerWait, QuietBefore
  <1>5. NoErrorInWorkers'
    BY DEF OperationFails, NoErrorInWorkers, OneSignalPerWait
  <1>6. ToldAtEnd'
    BY DEF OperationFails, ToldAtEnd, QuietBefore, OneSignalPerWait
  <1> QED
    BY <1>1, <1>2, <1>3, <1>4, <1>5, <1>6

LEMMA DoneKeeps ==
    ASSUME IInv, NEW w \in Workers, NEW then \in Workers, OperationDone(w, then)
    PROVE  IInv'
  <1>1. Counted'
    BY DEF OperationDone, Counted, TypeOK, ThreadRefs, ControllerRefs
  <1>2. TypeOK'
    BY DEF OperationDone, TypeOK
  <1>3. QuietBefore'
    BY DEF OperationDone, QuietBefore, TypeOK
  <1>4. OneSignalPerWait'
    BY DEF OperationDone, OneSignalPerWait, QuietBefore
  <1>5. NoErrorInWorkers'
    BY DEF OperationDone, NoErrorInWorkers, OneSignalPerWait
  <1>6. ToldAtEnd'
    BY DEF OperationDone, ToldAtEnd, QuietBefore, OneSignalPerWait
  <1> QED
    BY <1>1, <1>2, <1>3, <1>4, <1>5, <1>6

LEMMA PendsKeeps ==
    ASSUME IInv, NEW w \in Workers \ {"ReceiveData"}, NEW then \in Workers,
           OperationPends(w, then)
    PROVE  IInv'
  <1>1. Counted'
    BY DEF OperationPends, Counted, TypeOK, ThreadRefs, ControllerRefs
  <1>2. TypeOK'
    BY DEF OperationPends, TypeOK
  <1>3. QuietBefore'
    BY DEF OperationPends, QuietBefore, TypeOK
  <1>4. OneSignalPerWait'
    BY DEF OperationPends, OneSignalPerWait, QuietBefore
  <1>5. NoErrorInWorkers'
    BY DEF OperationPends, NoErrorInWorkers, OneSignalPerWait
  <1>6. ToldAtEnd'
    BY DEF OperationPends, ToldAtEnd, QuietBefore, OneSignalPerWait
  <1> QED
    BY <1>1, <1>2, <1>3, <1>4, <1>5, <1>6

(* The workers and the waits of the thread. *)

LEMMA CancelledKeeps ==
    ASSUME IInv, NEW wait \in Waits, Cancelled(wait)
    PROVE  IInv'
  <1>1. Counted'
    BY DEF Cancelled, CancelSeen, Counted, TypeOK, ThreadRefs, ControllerRefs
  <1>2. TypeOK'
    BY DEF Cancelled, CancelSeen, TypeOK
  <1>3. QuietBefore'
    BY DEF Cancelled, CancelSeen, QuietBefore, TypeOK
  <1>4. OneSignalPerWait'
    BY DEF Cancelled, CancelSeen, OneSignalPerWait, QuietBefore
  <1>5. NoErrorInWorkers'
    BY DEF Cancelled, CancelSeen, NoErrorInWorkers, OneSignalPerWait
  <1>6. ToldAtEnd'
    BY DEF Cancelled, CancelSeen, ToldAtEnd, QuietBefore, OneSignalPerWait
  <1> QED
    BY <1>1, <1>2, <1>3, <1>4, <1>5, <1>6

LEMMA NextWorkerKeeps ==
    ASSUME IInv, NextWorker
    PROVE  IInv'
  <1>1. Counted'
    BY DEF NextWorker, Counted, TypeOK, ThreadRefs, ControllerRefs
  <1>2. TypeOK'
    <2>1. event' \in BOOLEAN
      BY DEF NextWorker, TypeOK
    <2> QED
      BY <2>1 DEF NextWorker, TypeOK
  <1>3. QuietBefore'
    BY DEF NextWorker, QuietBefore, TypeOK
  <1>4. OneSignalPerWait'
    <2>1. CASE error # "none"
      BY <2>1 DEF NextWorker, OneSignalPerWait, QuietBefore
    <2>2. CASE error = "none" /\ next = "none"
      BY <2>2 DEF NextWorker, OneSignalPerWait, QuietBefore
    <2>3. CASE error = "none" /\ next # "none"
      BY <2>3 DEF NextWorker, OneSignalPerWait, QuietBefore, TypeOK
    <2> QED
      BY <2>1, <2>2, <2>3
  <1>5. NoErrorInWorkers'
    BY DEF NextWorker, NoErrorInWorkers, OneSignalPerWait
  <1>6. ToldAtEnd'
    BY DEF NextWorker, ToldAtEnd, QuietBefore, OneSignalPerWait
  <1> QED
    BY <1>1, <1>2, <1>3, <1>4, <1>5, <1>6

LEMMA SendRequestKeeps ==
    ASSUME IInv, SendRequest
    PROVE  IInv'
  <1>1. CASE OperationFails("SendRequest", "network")
    BY <1>1, FailsKeeps
  <1>2. CASE OperationDone("SendRequest", AfterSend)
    BY <1>2, DoneKeeps DEF AfterSend
  <1>3. CASE /\ At("SendRequest") /\ io' = "SendRequest" /\ pc' = "sending"
             /\ UNCHANGED <<next, event, error, threadOnly>>
    <2>1. Counted'
      BY <1>3 DEF Counted, TypeOK, ThreadRefs, ControllerRefs
    <2>2. TypeOK'
      BY <1>3 DEF TypeOK
    <2>3. QuietBefore'
      BY <1>3 DEF QuietBefore, TypeOK
    <2>4. OneSignalPerWait'
      BY <1>3 DEF OneSignalPerWait, QuietBefore
    <2>5. NoErrorInWorkers'
      BY <1>3 DEF NoErrorInWorkers, OneSignalPerWait
    <2>6. ToldAtEnd'
      BY <1>3 DEF ToldAtEnd, QuietBefore, OneSignalPerWait
    <2> QED
      BY <2>1, <2>2, <2>3, <2>4, <2>5, <2>6
  <1> QED
    BY <1>1, <1>2, <1>3 DEF SendRequest

LEMMA SentKeeps ==
    ASSUME IInv, Sent
    PROVE  IInv'
  <1>1. Counted'
    BY DEF Sent, AfterSend, Counted, TypeOK, ThreadRefs, ControllerRefs
  <1>2. TypeOK'
    <2>1. event' \in BOOLEAN
      BY DEF Sent, AfterSend, TypeOK
    <2> QED
      BY <2>1 DEF Sent, AfterSend, TypeOK
  <1>3. QuietBefore'
    BY DEF Sent, AfterSend, QuietBefore, TypeOK
  <1>4. OneSignalPerWait'
    BY DEF Sent, AfterSend, OneSignalPerWait, QuietBefore
  <1>5. NoErrorInWorkers'
    BY DEF Sent, AfterSend, NoErrorInWorkers, OneSignalPerWait
  <1>6. ToldAtEnd'
    BY DEF Sent, AfterSend, ToldAtEnd, QuietBefore, OneSignalPerWait
  <1> QED
    BY <1>1, <1>2, <1>3, <1>4, <1>5, <1>6

LEMMA SendBodyKeeps ==
    ASSUME IInv, SendBody
    PROVE  IInv'
  BY FailsKeeps, DoneKeeps, PendsKeeps DEF SendBody

LEMMA EndRequestKeeps ==
    ASSUME IInv, EndRequest
    PROVE  IInv'
  BY FailsKeeps, DoneKeeps, PendsKeeps DEF EndRequest

LEMMA QueryRequestKeeps ==
    ASSUME IInv, QueryRequest
    PROVE  IInv'
  <1>1. CASE OperationFails("QueryRequest", "unknown")
    BY <1>1, FailsKeeps
  <1>2. CASE /\ At("QueryRequest") /\ Proceed("ReceiveData", TRUE)
             /\ parts' \in 0..MaxParts
             /\ UNCHANGED <<body, caller, io, error, holders, client>>
    <2>1. Counted'
      BY <1>2 DEF Counted, TypeOK, ThreadRefs, ControllerRefs
    <2>2. TypeOK'
      BY <1>2 DEF TypeOK
    <2>3. QuietBefore'
      BY <1>2 DEF QuietBefore, TypeOK
    <2>4. OneSignalPerWait'
      BY <1>2 DEF OneSignalPerWait, QuietBefore
    <2>5. NoErrorInWorkers'
      BY <1>2 DEF NoErrorInWorkers, OneSignalPerWait
    <2>6. ToldAtEnd'
      BY <1>2 DEF ToldAtEnd, QuietBefore, OneSignalPerWait
    <2> QED
      BY <2>1, <2>2, <2>3, <2>4, <2>5, <2>6
  <1> QED
    BY <1>1, <1>2 DEF QueryRequest

LEMMA ReceiveDataKeeps ==
    ASSUME IInv, ReceiveData
    PROVE  IInv'
  <1>1. CASE OperationFails("ReceiveData", "network")
    BY <1>1, FailsKeeps
  <1>2. CASE /\ At("ReceiveData") /\ NextPart
             /\ UNCHANGED <<body, caller, io, error, holders, client>>
    <2>1. Counted'
      BY <1>2 DEF NextPart, Counted, TypeOK, ThreadRefs, ControllerRefs
    <2>2. TypeOK'
      <3>1. event' \in BOOLEAN
        BY <1>2 DEF NextPart, TypeOK
      <3> QED
        BY <1>2, <3>1 DEF NextPart, TypeOK
    <2>3. QuietBefore'
      BY <1>2 DEF NextPart, QuietBefore, TypeOK
    <2>4. OneSignalPerWait'
      BY <1>2 DEF NextPart, OneSignalPerWait, QuietBefore
    <2>5. NoErrorInWorkers'
      BY <1>2 DEF NextPart, NoErrorInWorkers, OneSignalPerWait
    <2>6. ToldAtEnd'
      BY <1>2 DEF NextPart, ToldAtEnd, QuietBefore, OneSignalPerWait
    <2> QED
      BY <2>1, <2>2, <2>3, <2>4, <2>5, <2>6
  <1>3. CASE /\ At("ReceiveData") /\ io' = "ReceiveData" /\ pc' = "reading"
             /\ UNCHANGED <<next, event, error, threadOnly>>
    <2>1. Counted'
      BY <1>3 DEF Counted, TypeOK, ThreadRefs, ControllerRefs
    <2>2. TypeOK'
      BY <1>3 DEF TypeOK
    <2>3. QuietBefore'
      BY <1>3 DEF QuietBefore, TypeOK
    <2>4. OneSignalPerWait'
      BY <1>3 DEF OneSignalPerWait, QuietBefore
    <2>5. NoErrorInWorkers'
      BY <1>3 DEF NoErrorInWorkers, OneSignalPerWait
    <2>6. ToldAtEnd'
      BY <1>3 DEF ToldAtEnd, QuietBefore, OneSignalPerWait
    <2> QED
      BY <2>1, <2>2, <2>3, <2>4, <2>5, <2>6
  <1> QED
    BY <1>1, <1>2, <1>3 DEF ReceiveData

LEMMA ReceivedKeeps ==
    ASSUME IInv, Received
    PROVE  IInv'
  <1>1. Counted'
    BY DEF Received, NextPart, Counted, TypeOK, ThreadRefs, ControllerRefs
  <1>2. TypeOK'
    <2>1. event' \in BOOLEAN
      BY DEF Received, NextPart, TypeOK
    <2> QED
      BY <2>1 DEF Received, NextPart, TypeOK
  <1>3. QuietBefore'
    BY DEF Received, NextPart, QuietBefore, TypeOK
  <1>4. OneSignalPerWait'
    BY DEF Received, NextPart, OneSignalPerWait, QuietBefore
  <1>5. NoErrorInWorkers'
    BY DEF Received, NextPart, NoErrorInWorkers, OneSignalPerWait
  <1>6. ToldAtEnd'
    BY DEF Received, NextPart, ToldAtEnd, QuietBefore, OneSignalPerWait
  <1> QED
    BY <1>1, <1>2, <1>3, <1>4, <1>5, <1>6

LEMMA RequestCompleteKeeps ==
    ASSUME IInv, RequestComplete
    PROVE  IInv'
  <1>1. Counted'
    BY DEF RequestComplete, Counted, TypeOK, ThreadRefs, ControllerRefs
  <1>2. TypeOK'
    <2>1. event' \in BOOLEAN /\ declined' \in BOOLEAN
      BY DEF RequestComplete, TypeOK
    <2> QED
      BY <2>1 DEF RequestComplete, TypeOK
  <1>3. QuietBefore'
    BY DEF RequestComplete, QuietBefore, TypeOK
  <1>4. OneSignalPerWait'
    BY DEF RequestComplete, OneSignalPerWait, QuietBefore
  <1>5. NoErrorInWorkers'
    BY DEF RequestComplete, NoErrorInWorkers, OneSignalPerWait
  <1>6. ToldAtEnd'
    <2>1. io' = "none" /\ error' = "none"
      BY DEF RequestComplete, OneSignalPerWait, NoErrorInWorkers
    <2>2. told = <<>>
      BY DEF RequestComplete, ToldAtEnd
    <2>3. CASE next' = "none" /\ event'
      BY <2>1, <2>3 DEF RequestComplete, ToldAtEnd
    <2>4. CASE told' = told
      BY <2>2, <2>4 DEF ToldAtEnd
    <2> QED
      BY <2>3, <2>4 DEF RequestComplete
  <1> QED
    BY <1>1, <1>2, <1>3, <1>4, <1>5, <1>6

LEMMA RedirectKeeps ==
    ASSUME IInv, RequestRedirect
    PROVE  IInv'
  BY FailsKeeps, DoneKeeps DEF RequestRedirect

LEMMA ReportFailureKeeps ==
    ASSUME IInv, ReportFailure
    PROVE  IInv'
  <1>1. Counted'
    BY DEF ReportFailure, Counted, TypeOK, ThreadRefs, ControllerRefs
  <1>2. TypeOK'
    BY DEF ReportFailure, TypeOK
  <1>3. QuietBefore'
    BY DEF ReportFailure, QuietBefore, TypeOK
  <1>4. OneSignalPerWait'
    BY DEF ReportFailure, OneSignalPerWait, QuietBefore
  <1>5. NoErrorInWorkers'
    BY DEF ReportFailure, NoErrorInWorkers, OneSignalPerWait
  <1>6. ToldAtEnd'
    BY DEF ReportFailure, ToldAtEnd, QuietBefore, OneSignalPerWait
  <1> QED
    BY <1>1, <1>2, <1>3, <1>4, <1>5, <1>6

LEMMA ThreadReleasesKeeps ==
    ASSUME IInv, ThreadReleases
    PROVE  IInv'
  <1>1. Counted'
    <2>1. ThreadRefs = 1 /\ ThreadRefs' = 0
      BY DEF ThreadReleases, ThreadRefs
    <2>2. ControllerRefs' = ControllerRefs /\ ControllerRefs \in {-1, 0, 1}
      BY DEF ThreadReleases, ControllerRefs
    <2>3. refs = 1 + ControllerRefs /\ refs' = ControllerRefs
      BY <2>1, <2>2 DEF ThreadReleases, Counted
    <2>4. freed' <=> refs = 1
      BY Zenon DEF ThreadReleases
    <2> QED
      BY <2>1, <2>2, <2>3, <2>4 DEF ThreadReleases, Counted
  <1>2. TypeOK'
    <2>1. refs' \in -1..2
      BY <1>1 DEF Counted, ThreadRefs, ControllerRefs
    <2> QED
      BY <2>1 DEF ThreadReleases, TypeOK
  <1>3. QuietBefore'
    BY DEF ThreadReleases, QuietBefore, TypeOK
  <1>4. OneSignalPerWait'
    BY DEF ThreadReleases, OneSignalPerWait, QuietBefore
  <1>5. NoErrorInWorkers'
    BY DEF ThreadReleases, NoErrorInWorkers, OneSignalPerWait
  <1>6. ToldAtEnd'
    BY DEF ThreadReleases, ToldAtEnd, QuietBefore, OneSignalPerWait
  <1> QED
    BY <1>1, <1>2, <1>3, <1>4, <1>5, <1>6

-----------------------------------------------------------------------------
(* WinINet and the holder of the controller. *)

LEMMA StatusCallbackKeeps ==
    ASSUME IInv, StatusCallback
    PROVE  IInv'
  <1>1. Counted'
    BY DEF StatusCallback, Counted, TypeOK, ThreadRefs, ControllerRefs
  <1>2. TypeOK'
    BY DEF StatusCallback, TypeOK
  <1>3. QuietBefore'
    BY DEF StatusCallback, QuietBefore, TypeOK
  <1>4. OneSignalPerWait'
    BY DEF StatusCallback, OneSignalPerWait, QuietBefore
  <1>5. NoErrorInWorkers'
    BY DEF StatusCallback, NoErrorInWorkers, OneSignalPerWait
  <1>6. ToldAtEnd'
    BY DEF StatusCallback, ToldAtEnd, QuietBefore, OneSignalPerWait
  <1> QED
    BY <1>1, <1>2, <1>3, <1>4, <1>5, <1>6

LEMMA ReleaseControllerKeeps ==
    ASSUME IInv, ReleaseController
    PROVE  IInv'
  <1>1. Counted'
    <2>1. ThreadRefs' = ThreadRefs /\ ThreadRefs \in {0, 1}
      BY DEF ReleaseController, ThreadRefs
    <2>2. ControllerRefs = 1 /\ ControllerRefs' = 0 /\ cancelEvent # "set"
      BY DEF ReleaseController, Counted, ControllerRefs
    <2>3. refs = ThreadRefs + 1 /\ refs' = ThreadRefs
      BY <2>1, <2>2 DEF ReleaseController, Counted
    <2>4. ~freed
      BY <2>1, <2>2, <2>3 DEF Counted, TypeOK
    <2>5. freed' <=> refs = 1
      BY <2>4, Zenon DEF ReleaseController
    <2> QED
      BY <2>1, <2>2, <2>3, <2>5 DEF ReleaseController, Counted
  <1>2. TypeOK'
    <2>1. refs' \in -1..2
      BY <1>1 DEF Counted, ThreadRefs, ControllerRefs
    <2> QED
      BY <2>1 DEF ReleaseController, TypeOK
  <1>3. QuietBefore'
    BY DEF ReleaseController, QuietBefore, TypeOK
  <1>4. OneSignalPerWait'
    BY DEF ReleaseController, OneSignalPerWait, QuietBefore
  <1>5. NoErrorInWorkers'
    BY DEF ReleaseController, NoErrorInWorkers, OneSignalPerWait
  <1>6. ToldAtEnd'
    BY DEF ReleaseController, ToldAtEnd, QuietBefore, OneSignalPerWait
  <1> QED
    BY <1>1, <1>2, <1>3, <1>4, <1>5, <1>6

LEMMA CancelKeeps ==
    ASSUME IInv, Cancel
    PROVE  IInv'
  <1>1. Counted'
    BY DEF Cancel, Counted, TypeOK, ThreadRefs, ControllerRefs
  <1>2. TypeOK'
    <2>1. refs' \in -1..2
      BY <1>1 DEF Counted, ThreadRefs, ControllerRefs
    <2> QED
      BY <2>1 DEF Cancel, TypeOK
  <1>3. QuietBefore'
    BY DEF Cancel, QuietBefore, TypeOK
  <1>4. OneSignalPerWait'
    BY DEF Cancel, OneSignalPerWait, QuietBefore
  <1>5. NoErrorInWorkers'
    BY DEF Cancel, NoErrorInWorkers, OneSignalPerWait
  <1>6. ToldAtEnd'
    BY DEF Cancel, ToldAtEnd, QuietBefore, OneSignalPerWait
  <1> QED
    BY <1>1, <1>2, <1>3, <1>4, <1>5, <1>6

LEMMA DeleteControllerKeeps ==
    ASSUME IInv, DeleteController
    PROVE  IInv'
  <1>1. Counted'
    BY DEF DeleteController, Counted, TypeOK, ThreadRefs, ControllerRefs
  <1>2. TypeOK'
    <2>1. refs' \in -1..2
      BY <1>1 DEF Counted, ThreadRefs, ControllerRefs
    <2> QED
      BY <2>1 DEF DeleteController, TypeOK
  <1>3. QuietBefore'
    BY DEF DeleteController, QuietBefore, TypeOK
  <1>4. OneSignalPerWait'
    BY DEF DeleteController, OneSignalPerWait, QuietBefore
  <1>5. NoErrorInWorkers'
    BY DEF DeleteController, NoErrorInWorkers, OneSignalPerWait
  <1>6. ToldAtEnd'
    BY DEF DeleteController, ToldAtEnd, QuietBefore, OneSignalPerWait
  <1> QED
    BY <1>1, <1>2, <1>3, <1>4, <1>5, <1>6

-----------------------------------------------------------------------------
LEMMA NextKeeps == IInv /\ [Next]_vars => IInv'
  <1> SUFFICES ASSUME IInv, [Next]_vars PROVE IInv'
    OBVIOUS
  <1>1. CASE Caller \/ FirstWorker
    BY <1>1, GetControllerKeeps, PerformFailsKeeps, StartWorkThreadKeeps,
       FirstWorkerKeeps DEF Caller
  <1>2. CASE Thread
    BY <1>2, NextWorkerKeeps, SendRequestKeeps, SentKeeps, SendBodyKeeps, EndRequestKeeps,
       QueryRequestKeeps, ReceiveDataKeeps, ReceivedKeeps, RequestCompleteKeeps,
       RedirectKeeps, ReportFailureKeeps, ThreadReleasesKeeps, CancelledKeeps DEF Thread
  <1>3. CASE StatusCallback \/ Controller
    BY <1>3, StatusCallbackKeeps, ReleaseControllerKeeps, CancelKeeps,
       DeleteControllerKeeps DEF Controller
  <1>4. CASE UNCHANGED vars
    BY <1>4 DEF vars, TypeOK, Counted, ThreadRefs, ControllerRefs, QuietBefore,
                OneSignalPerWait, NoErrorInWorkers, ToldAtEnd
  <1> QED
    BY <1>1, <1>2, <1>3, <1>4 DEF Next

(* The invariant of the request: signals, references and what was told.    *)
THEOREM Invariance == Spec => []IInv
  <1> QED
    BY InitHolds, NextKeeps, PTL DEF Spec

(* The variables of WinRequest keep their types; a reference count of two  *)
(* is enough for every order of Perform, Cancel and Release.               *)
THEOREM TypeCorrect == Spec => []TypeOK
  <1>1. IInv => TypeOK
    BY DEF IInv
  <1> QED
    BY <1>1, Invariance, PTL

(***************************************************************************)
(* No worker starts with an operation pending or with a signal that was    *)
(* meant for an earlier one, and no wait is without a signal to come       *)
(* (win_request.cpp, DoThreadWork, Continue and StatusCallback).           *)
(***************************************************************************)
THEOREM SignalsMatchWaits == Spec => []OneSignalPerWait
  <1>1. IInv => OneSignalPerWait
    BY DEF IInv
  <1> QED
    BY <1>1, Invariance, PTL

(***************************************************************************)
(* Without a cancel the request is deleted by the thread or by the holder  *)
(* of the controller, whoever lets go last (request_impl.cpp:34).          *)
(***************************************************************************)
THEOREM LastHolderFrees == Spec => []FreedByTheLastHolder
  <1>1. IInv => FreedByTheLastHolder
    BY DEF TypeOK, Counted, ThreadRefs, ControllerRefs, FreedByTheLastHolder
  <1> QED
    BY <1>1, Invariance, PTL

-----------------------------------------------------------------------------
(* Refinement: each step of the request is a step of HttpRequest or none.  *)

LEMMA Stutters ==
    ASSUME UNCHANGED <<caller, told>>, pc # "done", pc' # "done"
    PROVE  UNCHANGED Request!vars
  BY DEF Request!vars, Phase

LEMMA CallerRefines ==
    ASSUME IInv, Caller \/ FirstWorker
    PROVE  [Request!Next]_(Request!vars)
  <1>1. CASE GetController
    BY <1>1 DEF GetController, Request!vars, Phase
  <1>2. CASE PerformFails
    <2>1. Request!Refuse
      BY <1>2 DEF PerformFails, Request!Refuse, Phase
    <2> QED
      BY <2>1 DEF Request!Next
  <1>3. CASE StartWorkThread
    <2>1. Request!Perform
      BY <1>3 DEF StartWorkThread, Request!Perform, Phase
    <2> QED
      BY <2>1 DEF Request!Next
  <1>4. CASE FirstWorker
    BY <1>4 DEF FirstWorker, Request!vars, Phase
  <1> QED
    BY <1>1, <1>2, <1>3, <1>4 DEF Caller

LEMMA ThreadRefines ==
    ASSUME IInv, Thread
    PROVE  [Request!Next]_(Request!vars)
  <1>0. pc \notin {"none", "done"} /\ UNCHANGED caller
    BY DEF Thread, NextWorker, SendRequest, Sent, SendBody, EndRequest, QueryRequest,
           ReceiveData, Received, RequestComplete, RequestRedirect, ReportFailure,
           ThreadReleases, Cancelled, OperationFails, OperationDone, OperationPends
  <1>1. caller \notin {"new", "refused"}
    BY <1>0 DEF QuietBefore
  <1>2. ASSUME NEW end \in {"complete", "failed"}, pc \in {"RequestComplete", "failing"},
               told' = Append(told, end), pc' # "done"
        PROVE  Request!Tell(end)
    <2>1. told = <<>>
      BY <1>2 DEF ToldAtEnd
    <2>2. told' = <<end>>
      BY <1>2, <2>1
    <2> QED
      BY <1>0, <1>1, <1>2, <2>1, <2>2 DEF Request!Tell, Phase
  <1>3. CASE RequestComplete
    <2>1. CASE told' = Append(told, "complete")
      BY <1>2, <1>3, <2>1 DEF RequestComplete, Request!Next
    <2>2. CASE told' = told
      BY <1>0, <1>3, <2>2, Stutters DEF RequestComplete
    <2> QED
      BY <1>3, <2>1, <2>2 DEF RequestComplete
  <1>4. CASE ReportFailure
    BY <1>2, <1>4 DEF ReportFailure, Request!Next
  <1>5. CASE ThreadReleases
    <2>1. Request!Finish
      BY <1>0, <1>1, <1>5 DEF ThreadReleases, Request!Finish, Phase
    <2> QED
      BY <2>1 DEF Request!Next
  <1>6. CASE ~(RequestComplete \/ ReportFailure \/ ThreadReleases)
    <2>1. pc' # "done" /\ UNCHANGED told
      BY <1>6, <1>0
         DEF Thread, NextWorker, SendRequest, Sent, SendBody, EndRequest, QueryRequest,
             ReceiveData, Received, RequestRedirect, Cancelled, OperationFails,
             OperationDone, OperationPends, NextPart, AfterSend, TypeOK
    <2> QED
      BY <1>0, <2>1, Stutters
  <1> QED
    BY <1>3, <1>4, <1>5, <1>6

LEMMA OthersRefine ==
    ASSUME StatusCallback \/ Controller \/ UNCHANGED vars
    PROVE  UNCHANGED Request!vars
  BY DEF StatusCallback, Controller, ReleaseController, Cancel, DeleteController, vars,
         Request!vars, Phase

(***************************************************************************)
(* The client of a request hears of one end at most, from its thread and   *)
(* while that runs, whatever the events, WinINet and a cancel do.          *)
(***************************************************************************)
THEOREM RequestKeepsItsPromise == Spec => Implements
  <1>1. Init => Request!Init
    BY DEF Init, Request!Init, Phase
  <1>2. IInv /\ [Next]_vars => [Request!Next]_(Request!vars)
    BY CallerRefines, ThreadRefines, OthersRefine DEF Next
  <1> QED
    BY <1>1, <1>2, Invariance, PTL DEF Spec, Implements, Request!Spec

-----------------------------------------------------------------------------
(* A request comes to its end. *)

(***************************************************************************)
(* The thread does not end in silence: when it lets go of the request, the *)
(* client was told or has refused a redirection, and nothing else lets the *)
(* request go before that but a cancel (win_request.cpp:71, 249 and 403).  *)
(***************************************************************************)
NoSilentEnd ==
    /\ pc \in {"releasing", "done"} => told # <<>> \/ declined
    /\ freed => pc = "done" \/ cancelEvent = "set"

(* A wait for no worker is the one after the last word, or before the first. *)
LastWait ==
    pc = "waiting" /\ next = "none" /\ caller # "starting" => told # <<>> \/ declined

(* A history that grows is not empty. *)
LEMMA ToldGrows ==
    ASSUME NEW s \in Seq({"complete", "failed"}), NEW e \in {"complete", "failed"}
    PROVE  Append(s, e) # <<>>
OBVIOUS

LEMMA EndsKeepTold ==
    ASSUME IInv, NoSilentEnd, LastWait, [Next]_vars
    PROVE  NoSilentEnd' /\ LastWait'
<1> USE DEF NoSilentEnd, LastWait
<1>1. CASE Caller \/ FirstWorker
  BY <1>1 DEF Caller, GetController, PerformFails, StartWorkThread, FirstWorker,
     QuietBefore, Counted
<1>2. CASE NextWorker
  BY <1>2 DEF NextWorker, QuietBefore, OneSignalPerWait, TypeOK
<1>3. CASE ReportFailure \/ RequestComplete
  BY <1>3, ToldGrows DEF ReportFailure, RequestComplete, TypeOK
<1>4. CASE ThreadReleases
  BY <1>4 DEF ThreadReleases
<1>5. CASE Sent \/ SendRequest \/ SendBody \/ EndRequest \/ QueryRequest
  BY <1>5 DEF Sent, SendRequest, SendBody, EndRequest, QueryRequest, AfterSend,
     OperationFails, OperationDone, OperationPends
<1>6. CASE ReceiveData \/ Received \/ RequestRedirect
  BY <1>6 DEF ReceiveData, Received, NextPart, RequestRedirect,
     OperationFails, OperationDone
<1>7. CASE \E wait \in Waits : Cancelled(wait)
  BY <1>7 DEF Cancelled
<1>8. CASE StatusCallback
  BY <1>8 DEF StatusCallback
<1>9. CASE Controller
  BY <1>9, NextKeeps
     DEF Controller, ReleaseController, Cancel, DeleteController, Counted, ThreadRefs,
         ControllerRefs, TypeOK
<1>10. CASE UNCHANGED vars
  BY <1>10 DEF vars
<1> QED BY <1>1, <1>2, <1>3, <1>4, <1>5, <1>6, <1>7, <1>8, <1>9, <1>10 DEF Next, Thread

(***************************************************************************)
(* No request ends without a word to its client, for any length of the     *)
(* response and whatever WinINet, the events and the controller do.        *)
(***************************************************************************)
THEOREM NoRequestEndsInSilence == Spec => []NoSilentEnd
<1>1. Init => NoSilentEnd /\ LastWait BY DEF Init, NoSilentEnd, LastWait
<1> QED BY <1>1, EndsKeepTold, Invariance, PTL DEF Spec

(* How far the thread has to go, in the order of its workers. *)
WorkersLeft(w) ==
    CASE w = "SendRequest" -> 7
      [] w = "SendBody" -> 6
      [] w = "EndRequest" -> 5
      [] w = "QueryRequest" -> 4
      [] w = "ReceiveData" -> 3
      [] w = "RequestComplete" -> 2
      [] w = "RequestRedirect" -> 1
      [] OTHER -> 0

Stage ==
    CASE pc = "waiting" -> 3 * WorkersLeft(next) + 5
      [] pc \in Workers -> 3 * WorkersLeft(pc) + 4
      [] pc = "sending" -> 24
      [] pc = "reading" -> 13
      [] pc = "failing" -> 2
      [] pc = "releasing" -> 1
      [] OTHER -> 0

(* What is left to do where it is: to read, and to hear from WinINet. *)
Moves == (IF pc = "ReceiveData" THEN 2 ELSE 0) + (IF io # "none" THEN 1 ELSE 0)

(* What the callers of the SDK can still do. *)
CallsLeft ==
    (CASE caller = "new" -> 2 [] caller = "starting" -> 1 [] OTHER -> 0)
    + (CASE controller = "none" -> 3 [] controller = "held" -> 2
         [] controller = "cancelling" -> 1 [] OTHER -> 0)

(***************************************************************************)
(* Every step of a request brings its end nearer, but for the one that     *)
(* starts anew after a redirection, which has no limit                     *)
(* (win_request.cpp:262): calls, workers, parts of the body and            *)
(* notifications of WinINet are used up, in that order.                    *)
(***************************************************************************)
RequestAdvances ==
    \/ CallsLeft' < CallsLeft
    \/ /\ CallsLeft' = CallsLeft
       /\ \/ pc = "RequestRedirect" /\ pc' = "waiting"
          \/ Stage' < Stage
          \/ Stage' = Stage /\ parts' < parts
          \/ Stage' = Stage /\ parts' = parts /\ Moves' < Moves

LEMMA CallsAdvance ==
    ASSUME TypeOK, Caller \/ FirstWorker \/ Controller
    PROVE  RequestAdvances
BY DEF TypeOK, Caller, FirstWorker, Controller, GetController, PerformFails, StartWorkThread,
   ReleaseController, Cancel, DeleteController, RequestAdvances, CallsLeft

LEMMA ThreadAdvances ==
    ASSUME TypeOK, Thread \/ StatusCallback
    PROVE  RequestAdvances
<1> USE DEF TypeOK, RequestAdvances
<1>1. CallsLeft' = CallsLeft
  BY DEF Thread, StatusCallback, NextWorker, SendRequest, Sent, SendBody, EndRequest,
     QueryRequest, ReceiveData, Received, RequestComplete, RequestRedirect, ReportFailure,
     ThreadReleases, Cancelled, OperationFails, OperationDone, OperationPends, CallsLeft
<1>2. CASE NextWorker
  BY <1>1, <1>2 DEF NextWorker, Stage, WorkersLeft
<1>3. CASE SendRequest \/ Sent \/ SendBody
  BY <1>1, <1>3 DEF SendRequest, Sent, SendBody, OperationFails, OperationDone,
     OperationPends, AfterSend, Stage, WorkersLeft
<1>4. CASE EndRequest \/ QueryRequest
  BY <1>1, <1>4 DEF EndRequest, QueryRequest, OperationFails, OperationDone,
     OperationPends, Stage, WorkersLeft
<1>5. CASE ReceiveData \/ Received
  BY <1>1, <1>5 DEF ReceiveData, Received, NextPart, OperationFails, Stage, WorkersLeft, Moves
<1>6. CASE RequestComplete
  BY <1>1, <1>6 DEF RequestComplete, Stage, WorkersLeft
<1>7. CASE RequestRedirect
  BY <1>1, <1>7 DEF RequestRedirect, OperationFails, OperationDone, Stage, WorkersLeft
<1>8. CASE ReportFailure \/ ThreadReleases
  BY <1>1, <1>8 DEF ReportFailure, ThreadReleases, Stage
<1>9. CASE \E wait \in Waits : Cancelled(wait)
  BY <1>1, <1>9 DEF Cancelled, Stage, WorkersLeft
<1>10. CASE StatusCallback
  BY <1>1, <1>10 DEF StatusCallback, Stage, Moves
<1> QED BY <1>2, <1>3, <1>4, <1>5, <1>6, <1>7, <1>8, <1>9, <1>10 DEF Thread

(***************************************************************************)
(* Between two redirections a request makes finitely many steps, for any   *)
(* length of the response: the measure is a tuple of naturals.  With       *)
(* SignalsMatchWaits, by which no wait is for nothing, it is what safety   *)
(* has to say of RequestsEnd.                                              *)
(***************************************************************************)
THEOREM RequestsAdvance == Spec => [][RequestAdvances]_vars
<1>1. IInv /\ [Next]_vars => RequestAdvances \/ UNCHANGED vars
  BY CallsAdvance, ThreadAdvances DEF Next
<1> QED BY <1>1, Invariance, PTL DEF Spec

=============================================================================
