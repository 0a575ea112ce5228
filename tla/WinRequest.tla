----------------------------- MODULE WinRequest ------------------------------
(***************************************************************************)
(* An HTTP request of the Windows build: WinRequest                        *)
(* (blinkit/http/win_request.cpp), its RequestControllerImpl, and the      *)
(* asynchronous WinINet operations of blinkit/win/inet.cpp.                *)
(*                                                                         *)
(* A thread of its own runs one worker after the other and waits before    *)
(* each.  One auto-reset event ends every wait: a worker signals it itself *)
(* when its operation was done at once, the status callback signals it     *)
(* when the operation had to wait.  The controller may cancel from any     *)
(* thread at any time; what runs after that has freed a request in use is  *)
(* undefined and not modelled.                                             *)
(***************************************************************************)
EXTENDS Integers, Sequences

CONSTANT
    MaxParts   \* bound: reads a response body takes (every body ends)

ASSUME MaxPartsAssumption == MaxParts \in Nat

VARIABLES
    body,        \* m_body is not empty
    caller,      \* BkPerformRequest: "new", "starting", "started", "refused"
    pc,          \* where DoThreadWork is
    next,        \* m_nextWorker, "none" when null
    event,       \* m_hEvent is signalled
    cancelEvent, \* m_hEventCancel: "null", "unset" or "set"
    io,          \* the operation WinINet has not completed, "none"
    error,       \* m_errorCode of the response
    parts,       \* reads until the end of the response body
    controller,  \* the BkWorkController: "none", "held", "cancelling", "gone"
    refs,        \* m_refCount
    freed,       \* the WinRequest was deleted
    told,        \* history: the final notifications the client got
    declined     \* history: the client refused a redirection

vars == <<body, caller, pc, next, event, cancelEvent, io, error, parts,
          controller, refs, freed, told, declined>>

holders == <<cancelEvent, controller, refs, freed>>
client == <<told, declined>>

Workers == {"SendRequest", "SendBody", "EndRequest", "QueryRequest",
            "ReceiveData", "RequestComplete", "RequestRedirect"}

(* WaitForIOPending is called between workers and inside two of them. *)
Waits == {"waiting", "sending", "reading"}

(* "absent": CreateThread failed and nobody looked. *)
ThreadPC == {"none", "absent", "failing", "releasing", "done"} \cup Workers \cup Waits

Init ==
    /\ body \in BOOLEAN
    /\ caller = "new"
    /\ pc = "none"
    /\ next = "none"
    /\ event = FALSE
    /\ cancelEvent = "null"
    /\ io = "none"
    /\ error = "none"
    /\ parts = 0
    /\ controller = "none"
    /\ refs = 1
    /\ freed = FALSE
    /\ told = <<>>
    /\ declined = FALSE

-----------------------------------------------------------------------------
(* The caller of BkPerformRequest. *)

(* Variant: a second controller is handed out. *)
GetControllerAgain ==
    /\ caller = "new"
    /\ controller' = "held"
    /\ cancelEvent' = "unset"
    /\ refs' = refs + 1
    /\ UNCHANGED <<body, caller, pc, next, event, io, error, parts, freed, client>>

(* The caller wants a controller: before Perform, and with a reference. *)
GetController ==
    /\ caller = "new" /\ controller = "none"
    /\ controller' = "held"
    /\ cancelEvent' = "unset"
    /\ refs' = refs + 1
    /\ UNCHANGED <<body, caller, pc, next, event, io, error, parts, freed, client>>

(* No session or no request handle: an error for the caller, no thread. *)
PerformFails ==
    /\ caller = "new"
    /\ caller' = "refused"
    /\ UNCHANGED <<body, pc, next, event, io, error, parts, holders, client>>

(* StartWorkThread; the reference Perform was called with is the thread's. *)
StartWorkThread ==
    /\ caller = "new"
    /\ caller' = "starting"
    /\ pc' \in {"waiting", "absent"}
    /\ UNCHANGED <<body, next, event, io, error, parts, holders, client>>

(* Continue, without and with the signal. *)
Continue(worker, signal) ==
    /\ next' = worker
    /\ event' = (event \/ signal)

(* Perform hands the thread its first worker. *)
FirstWorker ==
    /\ caller = "starting" /\ ~freed
    /\ caller' = "started"
    /\ Continue("SendRequest", TRUE)
    /\ UNCHANGED <<body, pc, io, error, parts, holders, client>>

-----------------------------------------------------------------------------
(* The thread of the request: DoThreadWork and its workers. *)

threadOnly == <<body, caller, parts, holders, client>>

At(p) == pc = p /\ ~freed

(* A worker returns r: the code is kept for the client. *)
Fail(r) ==
    /\ error' = r
    /\ pc' = "failing"

(* A worker returns what Continue returns: back to the wait of the loop. *)
Proceed(worker, signal) ==
    /\ Continue(worker, signal)
    /\ pc' = "waiting"

(* Variant: m_hEventCancel before m_hEvent. *)
CancelFirst == cancelEvent = "set"

(* WaitForMultipleObjects reports m_hEvent first when both are signalled. *)
CancelSeen == ~event /\ cancelEvent = "set"

Cancelled(wait) ==
    /\ At(wait) /\ CancelSeen
    /\ Fail("cancelled")
    /\ UNCHANGED <<next, event, io, threadOnly>>

(* The wait between two workers ends; a null worker ends the thread. *)
NextWorker ==
    /\ At("waiting") /\ event
    /\ event' = FALSE
    /\ IF error # "none"
       THEN pc' = "failing" /\ UNCHANGED next
       ELSE /\ pc' = IF next = "none" THEN "releasing" ELSE next
            /\ next' = "none"
    /\ UNCHANGED <<io, error, threadOnly>>

(* An operation WinINet refuses at once. *)
OperationFails(worker, r) ==
    /\ At(worker)
    /\ Fail(r)
    /\ UNCHANGED <<next, event, io, threadOnly>>

(* An operation that completes at once: its worker signals for it. *)
OperationDone(worker, then) ==
    /\ At(worker)
    /\ Proceed(then, TRUE)
    /\ UNCHANGED <<io, error, threadOnly>>

(* An operation that has to wait, in its worker or in the loop. *)
OperationPends(worker, then) ==
    /\ At(worker)
    /\ io' = worker
    /\ Proceed(then, FALSE)
    /\ UNCHANGED <<error, threadOnly>>

AfterSend == IF body THEN "SendBody" ELSE "EndRequest"

SendRequest ==
    \/ OperationFails("SendRequest", "network")
    \/ OperationDone("SendRequest", AfterSend)
    \/ /\ At("SendRequest")
       /\ io' = "SendRequest"
       /\ pc' = "sending"
       /\ UNCHANGED <<next, event, error, threadOnly>>

(* The wait inside SendRequest ends. *)
Sent ==
    /\ At("sending") /\ event
    /\ IF error # "none"
       THEN pc' = "failing" /\ event' = FALSE /\ UNCHANGED next
       ELSE Proceed(AfterSend, TRUE)
    /\ UNCHANGED <<io, error, threadOnly>>

(* Variant: SendBody signals although the write is pending. *)
SendBodySignals ==
    \/ OperationFails("SendBody", "network")
    \/ OperationDone("SendBody", "EndRequest")
    \/ /\ At("SendBody")
       /\ io' = "SendBody"
       /\ Proceed("EndRequest", TRUE)
       /\ UNCHANGED <<error, threadOnly>>

SendBody ==
    \/ OperationFails("SendBody", "network")
    \/ OperationDone("SendBody", "EndRequest")
    \/ OperationPends("SendBody", "EndRequest")

(* Variant: EndRequest leaves the signal to a callback that never comes. *)
EndRequestNoSignal ==
    \/ OperationFails("EndRequest", "unknown")
    \/ /\ At("EndRequest")
       /\ Proceed("QueryRequest", FALSE)
       /\ UNCHANGED <<io, error, threadOnly>>
    \/ OperationPends("EndRequest", "QueryRequest")

EndRequest ==
    \/ OperationFails("EndRequest", "unknown")
    \/ OperationDone("EndRequest", "QueryRequest")
    \/ OperationPends("EndRequest", "QueryRequest")

(* The headers of the response, and how much will follow them. *)
QueryRequest ==
    \/ OperationFails("QueryRequest", "unknown")
    \/ /\ At("QueryRequest")
       /\ Proceed("ReceiveData", TRUE)
       /\ parts' \in 0..MaxParts
       /\ UNCHANGED <<body, caller, io, error, holders, client>>

(***************************************************************************)
(* ReceiveData reads until a read returns nothing, and waits with its      *)
(* buffer on the stack when a read is pending.                             *)
(***************************************************************************)
NextPart ==
    IF parts = 0
    THEN Proceed("RequestComplete", TRUE) /\ UNCHANGED parts
    ELSE /\ parts' = parts - 1
         /\ pc' = "ReceiveData"
         /\ event' = FALSE
         /\ UNCHANGED next

ReceiveData ==
    \/ OperationFails("ReceiveData", "network")
    \/ /\ At("ReceiveData")
       /\ NextPart
       /\ UNCHANGED <<body, caller, io, error, holders, client>>
    \/ /\ At("ReceiveData")
       /\ io' = "ReceiveData"
       /\ pc' = "reading"
       /\ UNCHANGED <<next, event, error, threadOnly>>

(* The wait inside ReceiveData ends. *)
Received ==
    /\ At("reading") /\ event
    /\ IF error # "none"
       THEN pc' = "failing" /\ event' = FALSE /\ UNCHANGED <<next, parts>>
       ELSE NextPart
    /\ UNCHANGED <<body, caller, io, error, holders, client>>

(* The client gets the response, or is asked about a redirection. *)
RequestComplete ==
    /\ At("RequestComplete")
    /\ \/ /\ told' = Append(told, "complete")
          /\ Proceed("none", TRUE)
          /\ UNCHANGED declined
       \/ /\ Proceed("RequestRedirect", TRUE)
          /\ UNCHANGED client
       \/ /\ declined' = TRUE
          /\ Proceed("none", TRUE)
          /\ UNCHANGED told
    /\ UNCHANGED <<body, caller, io, error, parts, holders>>

(* Handles and response are renewed, and everything starts again. *)
RequestRedirect ==
    \/ OperationFails("RequestRedirect", "network")
    \/ OperationDone("RequestRedirect", "SendRequest")

(* The client is told of the code the thread stopped with. *)
ReportFailure ==
    /\ At("failing")
    /\ told' = Append(told, "failed")
    /\ pc' = "releasing"
    /\ UNCHANGED <<body, caller, next, event, io, error, parts, holders, declined>>

(* RequestImpl::Release: the last one deletes the request. *)
Release ==
    /\ refs' = refs - 1
    /\ freed' = (freed \/ refs = 1)

(* Variant: the thread deletes the request when it is done. *)
ThreadDeletes ==
    /\ At("releasing")
    /\ freed' = TRUE
    /\ refs' = refs - 1
    /\ pc' = "done"
    /\ UNCHANGED <<body, caller, next, event, cancelEvent, io, error, parts,
                   controller, client>>

ThreadReleases ==
    /\ At("releasing")
    /\ Release
    /\ pc' = "done"
    /\ UNCHANGED <<body, caller, next, event, cancelEvent, io, error, parts,
                   controller, client>>

-----------------------------------------------------------------------------
(***************************************************************************)
(* WinINet (external) completes what is pending, with success or not, and  *)
(* calls StatusCallback: the error first, then the signal.                 *)
(***************************************************************************)
StatusCallback ==
    /\ io # "none" /\ ~freed
    /\ io' = "none"
    /\ error' \in {error, "network"}
    /\ event' = TRUE
    /\ UNCHANGED <<body, caller, pc, next, parts, holders, client>>

(* The holder of the controller: BkReleaseController ... *)
ReleaseController ==
    /\ controller = "held" /\ caller # "new"
    /\ controller' = "gone"
    /\ Release
    /\ UNCHANGED <<body, caller, pc, next, event, cancelEvent, io, error, parts, client>>

(* ... or BkControllerCancelWork, which lets go of the request twice: *)
Cancel ==
    /\ controller = "held" /\ caller # "new"
    /\ controller' = "cancelling"
    /\ cancelEvent' = "set"
    /\ Release
    /\ UNCHANGED <<body, caller, pc, next, event, io, error, parts, client>>

(* once in WinRequest::Cancel and once when the controller is deleted. *)
DeleteController ==
    /\ controller = "cancelling"
    /\ controller' = "gone"
    /\ Release
    /\ UNCHANGED <<body, caller, pc, next, event, cancelEvent, io, error, parts, client>>

-----------------------------------------------------------------------------
Caller == GetController \/ PerformFails \/ StartWorkThread

Thread ==
    \/ NextWorker \/ SendRequest \/ Sent \/ SendBody \/ EndRequest \/ QueryRequest
    \/ ReceiveData \/ Received \/ RequestComplete \/ RequestRedirect
    \/ ReportFailure \/ ThreadReleases
    \/ \E wait \in Waits : Cancelled(wait)

Controller == ReleaseController \/ Cancel \/ DeleteController

Next == Caller \/ FirstWorker \/ Thread \/ StatusCallback \/ Controller

Spec == Init /\ [][Next]_vars

(***************************************************************************)
(* The thread runs, Perform returns, and WinINet completes every operation *)
(* (OpenSession, SendRequest and QueryRequest set its timeouts).  Nothing  *)
(* obliges the holder of the controller.                                   *)
(***************************************************************************)
FairSpec ==
    /\ Spec
    /\ WF_vars(FirstWorker) /\ WF_vars(Thread) /\ WF_vars(StatusCallback)

-----------------------------------------------------------------------------
(* Properties. *)

(* The type invariant. *)
TypeOK ==
    /\ body \in BOOLEAN
    /\ caller \in {"new", "starting", "started", "refused"}
    /\ pc \in ThreadPC
    /\ next \in Workers \cup {"none"}
    /\ event \in BOOLEAN
    /\ cancelEvent \in {"null", "unset", "set"}
    /\ io \in Workers \cup {"none"}
    /\ error \in {"none", "network", "unknown", "cancelled"}
    /\ parts \in 0..MaxParts
    /\ controller \in {"none", "held", "cancelling", "gone"}
    /\ refs \in -1..2
    /\ freed \in BOOLEAN
    /\ told \in Seq({"complete", "failed"})
    /\ declined \in BOOLEAN

(***************************************************************************)
(* One signal for each wait (win_request.cpp:55, 387 and 403).  A worker   *)
(* runs with no operation pending and no signal left over from an earlier  *)
(* one; a waiting thread has a signal, or exactly one that will come; and  *)
(* a pending read finds its buffer, on the stack of ReceiveData, unless    *)
(* the request is being cancelled.                                         *)
(***************************************************************************)
OneSignalPerWait ==
    /\ ~(event /\ io # "none")
    /\ pc \in Workers => ~event /\ io = "none"
    /\ pc \in Waits => event \/ io # "none" \/ caller = "starting"
    /\ io = "ReceiveData" => pc = "reading" \/ cancelEvent = "set"

(***************************************************************************)
(* Without a cancel, the request goes away when both the thread and the    *)
(* holder of the controller have let go of it, whichever is last           *)
(* (request_impl.cpp:36): never before, and always then.                   *)
(***************************************************************************)
FreedByTheLastHolder ==
    cancelEvent # "set" => (freed <=> pc = "done" /\ controller # "held")

(***************************************************************************)
(* The client hears of one end at most, from the thread, between Perform   *)
(* and the end of the thread: not of a failure after the response although *)
(* the cancel event may be set in the last wait (win_request.cpp:71 and    *)
(* 403).                                                                   *)
(***************************************************************************)
Phase ==
    IF caller = "new" THEN "created"
    ELSE IF caller = "refused" \/ pc = "done" THEN "over" ELSE "performing"

Request == INSTANCE HttpRequest WITH phase <- Phase

Implements == Request!Spec

(***************************************************************************)
(* Under FairSpec every started request reaches its client, unless the     *)
(* thread could not be made, the client refused a redirection (it is told  *)
(* nothing, win_request.cpp:249), a cancel freed the request, or the       *)
(* server redirects for ever (there is no limit, win_request.cpp:262).     *)
(***************************************************************************)
RequestsEnd ==
    []<>(pc = "RequestRedirect")
    \/ (caller = "started" ~> \/ told # <<>> \/ declined \/ pc = "absent"
                              \/ freed /\ cancelEvent = "set")

=============================================================================
