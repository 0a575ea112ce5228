------------------------------ MODULE HttpLoad -------------------------------
(***************************************************************************)
(* The life of an HTTP load of the POSIX build, from                       *)
(* URLLoaderImpl::LoadAsynchronously to the one notification its client    *)
(* waits for: HTTPLoaderTask (blinkit/loader_tasks/http_loader_task.cpp)   *)
(* on the main thread, CURLRequest (blinkit/http/curl_request.cpp) with a  *)
(* thread of its own, and the crawler client that is asked before the main *)
(* HTML is handed on and may answer then, later or never.                  *)
(*                                                                         *)
(* The main loop is the queue TaskLoop is proved to implement: closures    *)
(* run one at a time, oldest first, and are dropped when it closes.        *)
(***************************************************************************)
EXTENDS Naturals, Sequences, SequencesExt

CONSTANTS
    Loads,     \* one element for each call of LoadAsynchronously
    None

ASSUME NoLoadAssumption == None \notin Loads
ASSUME UnsetAssumption ==
    None \notin BOOLEAN /\ None \notin {"continue", "cancel"}

(* HijackType: the page itself, a script of it, anything else. *)
Kinds == {"MainHTML", "Script", "Other"}

VARIABLES
    kind,       \* m_hijackType of each load
    issued,     \* the loads LoadAsynchronously was called for
    queue,      \* closures posted to the main thread, oldest first
    open,       \* the main loop still runs closures
    crawler,    \* the CrawlerImpl exists
    task,       \* the HTTPLoaderTask: "none", "live" or "deleted"
    response,   \* its m_response is set
    calling,    \* its m_callingCrawler
    cancel,     \* its m_cancel, None without a value
    asking,     \* the load whose callback RequestComplete is on the stack
    controller, \* the loads whose controller the crawler client may use
    refs,       \* m_refCount of the CURLRequest
    freed,      \* how often the CURLRequest was deleted
    worker,     \* where the thread of the CURLRequest is
    outcome,    \* history: the final notifications the loader's client got
    answer      \* history: the last word of the crawler client

vars == <<kind, issued, queue, open, crawler, task, response, calling, cancel,
          asking, controller, refs, freed, worker, outcome, answer>>

taskVars == <<task, response, calling, cancel, asking, controller>>
requestVars == <<refs, freed, worker>>
fixed == <<kind, open, crawler>>

Fns == {"DoContinue", "ProcessRequestComplete", "ErrorWorker"}

Closures == [fn : Fns, load : Loads]

WorkerPC == {"none", "performing", "failing", "releasing", "done"}

Init ==
    /\ kind \in [Loads -> Kinds]
    /\ issued = {}
    /\ queue = <<>>
    /\ open = TRUE
    /\ crawler = TRUE
    /\ task = [l \in Loads |-> "none"]
    /\ response = [l \in Loads |-> FALSE]
    /\ calling = [l \in Loads |-> FALSE]
    /\ cancel = [l \in Loads |-> None]
    /\ asking = None
    /\ controller = {}
    /\ refs = [l \in Loads |-> 0]
    /\ freed = [l \in Loads |-> 0]
    /\ worker = [l \in Loads |-> "none"]
    /\ outcome = [l \in Loads |-> <<>>]
    /\ answer = [l \in Loads |-> None]

(* PostTask; what it does once the loop is gone is TaskLoop's subject. *)
Post(fn, l) ==
    queue' = IF open THEN Append(queue, [fn |-> fn, load |-> l]) ELSE queue

-----------------------------------------------------------------------------
(***************************************************************************)
(* URLLoaderImpl::LoadAsynchronously and HTTPLoaderTask::Run, called from  *)
(* whatever the main thread is doing, the callback of another load too.    *)
(***************************************************************************)

Issue(l) ==
    /\ open
    /\ l \notin issued
    /\ issued' = issued \cup {l}

(***************************************************************************)
(* No task for a scheme other than HTTP(S): the error is reported at once. *)
(* CrawlerImpl::Run refuses such a URL for the page itself.                *)
(***************************************************************************)
LoadOtherScheme(l) ==
    /\ Issue(l)
    /\ kind[l] # "MainHTML"
    /\ Post("ErrorWorker", l)
    /\ UNCHANGED <<fixed, taskVars, requestVars, outcome, answer>>

(* The crawler client supplies a script itself: no request is made. *)
LoadHijacked(l) ==
    /\ Issue(l)
    /\ kind[l] = "Script"
    /\ task' = [task EXCEPT ![l] = "live"]
    /\ response' = [response EXCEPT ![l] = TRUE]
    /\ Post("DoContinue", l)
    /\ UNCHANGED <<fixed, calling, cancel, asking, controller, requestVars,
                   outcome, answer>>

(* Variant: the new thread takes a reference on top of the first one. *)
RetainForThread(l) ==
    /\ Issue(l)
    /\ task' = [task EXCEPT ![l] = "live"]
    /\ refs' = [refs EXCEPT ![l] = 2]
    /\ worker' = [worker EXCEPT ![l] = "performing"]
    /\ UNCHANGED <<fixed, queue, response, calling, cancel, asking, controller,
                   freed, outcome, answer>>

(* CURLRequest::Perform starts its thread. *)
LoadFromNetwork(l) ==
    /\ Issue(l)
    /\ task' = [task EXCEPT ![l] = "live"]
    /\ refs' = [refs EXCEPT ![l] = 1]
    /\ worker' = [worker EXCEPT ![l] = "performing"]
    /\ UNCHANGED <<fixed, queue, response, calling, cancel, asking, controller,
                   freed, outcome, answer>>

(***************************************************************************)
(* CURLRequest::Perform cannot start its thread: it deletes the request    *)
(* and fails, Run deletes the request once more, LoadAsynchronously        *)
(* reports the error and forgets the task.                                 *)
(***************************************************************************)
PerformFails(l) ==
    /\ Issue(l)
    /\ task' = [task EXCEPT ![l] = "live"]
    /\ freed' = [freed EXCEPT ![l] = @ + 2]
    /\ Post("ErrorWorker", l)
    /\ UNCHANGED <<fixed, response, calling, cancel, asking, controller, refs,
                   worker, outcome, answer>>

-----------------------------------------------------------------------------
(* The thread of the request: CURLRequest::DoThreadWork. *)

(* curl succeeded: HTTPLoaderTask::RequestComplete. *)
RequestComplete(l) ==
    /\ worker[l] = "performing"
    /\ response' = [response EXCEPT ![l] = TRUE]
    /\ Post("ProcessRequestComplete", l)
    /\ worker' = [worker EXCEPT ![l] = "releasing"]
    /\ UNCHANGED <<fixed, issued, task, calling, cancel, asking, controller,
                   refs, freed, outcome, answer>>

(* Variant: `delete this` before the error is reported. *)
DeleteBeforeReport(l) ==
    /\ worker[l] = "performing"
    /\ task' = [task EXCEPT ![l] = "deleted"]
    /\ Post("ErrorWorker", l)
    /\ worker' = [worker EXCEPT ![l] = "failing"]
    /\ UNCHANGED <<fixed, issued, response, calling, cancel, asking, controller,
                   refs, freed, outcome, answer>>

(* Variant: the failure is not reported. *)
FailSilently(l) ==
    /\ worker[l] = "performing"
    /\ worker' = [worker EXCEPT ![l] = "failing"]
    /\ UNCHANGED <<fixed, issued, queue, taskVars, refs, freed, outcome, answer>>

(* curl failed: HTTPLoaderTask::RequestFailed reports ... *)
RequestFailed(l) ==
    /\ worker[l] = "performing"
    /\ Post("ErrorWorker", l)
    /\ worker' = [worker EXCEPT ![l] = "failing"]
    /\ UNCHANGED <<fixed, issued, taskVars, refs, freed, outcome, answer>>

(* ... and deletes the task, still on the thread of the request. *)
DeleteFailedTask(l) ==
    /\ worker[l] = "failing"
    /\ task' = [task EXCEPT ![l] = "deleted"]
    /\ worker' = [worker EXCEPT ![l] = "releasing"]
    /\ UNCHANGED <<fixed, issued, queue, response, calling, cancel, asking,
                   controller, refs, freed, outcome, answer>>

(* RequestImpl::Release by the thread when it is done. *)
ReleaseRequest(l) ==
    /\ worker[l] = "releasing"
    /\ refs' = [refs EXCEPT ![l] = @ - 1]
    /\ freed' = [freed EXCEPT ![l] = IF refs[l] = 1 THEN @ + 1 ELSE @]
    /\ worker' = [worker EXCEPT ![l] = "done"]
    /\ UNCHANGED <<fixed, issued, queue, taskVars, outcome, answer>>

-----------------------------------------------------------------------------
(* The main thread. *)

(* The main loop takes the oldest closure. *)
Dispatch(fn, l) ==
    /\ open /\ asking = None
    /\ queue # <<>>
    /\ Head(queue) = [fn |-> fn, load |-> l]
    /\ queue' = Tail(queue)

(* Variant: DoContinue leaves the task alone when it is done. *)
ContinueWithoutDelete(l) ==
    /\ outcome' = [outcome EXCEPT ![l] = Append(@, "finished")]
    /\ UNCHANGED task

(* HTTPLoaderTask::DoContinue: response, data, end; then `delete this`. *)
DoContinue(l) ==
    /\ outcome' = [outcome EXCEPT ![l] = Append(@, "finished")]
    /\ task' = [task EXCEPT ![l] = "deleted"]

ErrorWorker(l) ==
    /\ Dispatch("ErrorWorker", l)
    /\ outcome' = [outcome EXCEPT ![l] = Append(@, "failed")]
    /\ UNCHANGED <<fixed, issued, taskVars, requestVars, answer>>

ContinueHijacked(l) ==
    /\ Dispatch("DoContinue", l)
    /\ DoContinue(l)
    /\ UNCHANGED <<fixed, issued, response, calling, cancel, asking, controller,
                   requestVars, answer>>

(* ProcessRequestComplete of a subresource: HijackResponse, DoContinue. *)
ProcessSubresource(l) ==
    /\ Dispatch("ProcessRequestComplete", l)
    /\ kind[l] # "MainHTML"
    /\ DoContinue(l)
    /\ UNCHANGED <<fixed, issued, response, calling, cancel, asking, controller,
                   requestVars, answer>>

(* ProcessRequestComplete of the page: the crawler client is called. *)
AskCrawler(l) ==
    /\ Dispatch("ProcessRequestComplete", l)
    /\ kind[l] = "MainHTML"
    /\ calling' = [calling EXCEPT ![l] = TRUE]
    /\ asking' = l
    /\ controller' = controller \cup {l}
    /\ UNCHANGED <<fixed, issued, task, response, cancel, requestVars, outcome,
                   answer>>

(* Variant: no answer is taken for a yes. *)
SilenceContinues(l) ==
    /\ asking = l
    /\ asking' = None
    /\ calling' = [calling EXCEPT ![l] = FALSE]
    /\ IF cancel[l] # TRUE THEN DoContinue(l) ELSE UNCHANGED <<task, outcome>>
    /\ controller' = IF cancel[l] = None THEN controller ELSE controller \ {l}
    /\ UNCHANGED <<fixed, issued, queue, response, cancel, requestVars, answer>>

(* Variant: m_callingCrawler is not reset. *)
ReturnStillCalling(l) ==
    /\ asking = l
    /\ asking' = None
    /\ IF cancel[l] = FALSE THEN DoContinue(l) ELSE UNCHANGED <<task, outcome>>
    /\ controller' = IF cancel[l] = None THEN controller ELSE controller \ {l}
    /\ UNCHANGED <<fixed, issued, queue, response, calling, cancel, requestVars,
                   answer>>

(***************************************************************************)
(* The callback returns: go on if it said so, wait for a later answer if   *)
(* it said nothing.  DoCancel does nothing in a release build.             *)
(***************************************************************************)
CallbackReturns(l) ==
    /\ asking = l
    /\ asking' = None
    /\ calling' = [calling EXCEPT ![l] = FALSE]
    /\ IF cancel[l] = FALSE THEN DoContinue(l) ELSE UNCHANGED <<task, outcome>>
    /\ controller' = IF cancel[l] = None THEN controller ELSE controller \ {l}
    /\ UNCHANGED <<fixed, issued, queue, response, cancel, requestVars, answer>>

(***************************************************************************)
(* The crawler client, on the main thread, from the callback or later.     *)
(* Inside the callback it may change its mind; once the callback is over,  *)
(* it answers only if it did not before.                                   *)
(***************************************************************************)
ContinueWorking(l) ==
    /\ open /\ l \in controller
    /\ answer' = [answer EXCEPT ![l] = "continue"]
    /\ IF calling[l]
       THEN /\ cancel' = [cancel EXCEPT ![l] = FALSE]
            /\ UNCHANGED <<task, outcome, controller>>
       ELSE /\ DoContinue(l)
            /\ controller' = controller \ {l}
            /\ UNCHANGED cancel
    /\ UNCHANGED <<fixed, issued, queue, response, calling, asking, requestVars>>

(* CancelWork, and Release which is the same; DoCancel does nothing. *)
CancelWork(l) ==
    /\ open /\ l \in controller
    /\ answer' = [answer EXCEPT ![l] = "cancel"]
    /\ IF calling[l]
       THEN /\ cancel' = [cancel EXCEPT ![l] = TRUE]
            /\ UNCHANGED controller
       ELSE /\ controller' = controller \ {l}
            /\ UNCHANGED cancel
    /\ UNCHANGED <<fixed, issued, queue, task, response, calling, asking,
                   requestVars, outcome>>

(* BkExitApp took effect: Run left the loop and the queue is discarded. *)
CloseLoop ==
    /\ open /\ asking = None
    /\ open' = FALSE
    /\ queue' = <<>>
    /\ UNCHANGED <<kind, issued, crawler, taskVars, requestVars, outcome, answer>>

(***************************************************************************)
(* BkDestroyCrawler from the Exit callback of the app, as BkTest.cpp does. *)
(* Frame::Detach leads to StopFetching, which stops nothing.               *)
(***************************************************************************)
DestroyCrawler ==
    /\ ~open /\ crawler
    /\ crawler' = FALSE
    /\ UNCHANGED <<kind, issued, queue, open, taskVars, requestVars, outcome,
                   answer>>

-----------------------------------------------------------------------------
Start(l) ==
    LoadOtherScheme(l) \/ LoadHijacked(l) \/ LoadFromNetwork(l) \/ PerformFails(l)

Thread(l) ==
    RequestComplete(l) \/ RequestFailed(l) \/ DeleteFailedTask(l) \/ ReleaseRequest(l)

MainThread(l) ==
    \/ ErrorWorker(l) \/ ContinueHijacked(l) \/ ProcessSubresource(l)
    \/ AskCrawler(l) \/ CallbackReturns(l)

Next ==
    \/ \E l \in Loads :
          \/ Start(l) \/ Thread(l) \/ MainThread(l)
          \/ ContinueWorking(l) \/ CancelWork(l)
    \/ CloseLoop
    \/ DestroyCrawler

Spec == Init /\ [][Next]_vars

(***************************************************************************)
(* curl_easy_perform ends by itself or by CURLOPT_TIMEOUT_MS, the main     *)
(* loop runs what is posted, the callback returns.  The crawler client is  *)
(* not fair: it may keep the controller for ever.                          *)
(***************************************************************************)
FairSpec ==
    /\ Spec
    /\ \A l \in Loads : WF_vars(Thread(l)) /\ WF_vars(MainThread(l))

-----------------------------------------------------------------------------
(* Properties. *)

(* The type invariant. *)
TypeOK ==
    /\ kind \in [Loads -> Kinds]
    /\ issued \in SUBSET Loads
    /\ queue \in Seq(Closures)
    /\ open \in BOOLEAN /\ crawler \in BOOLEAN
    /\ task \in [Loads -> {"none", "live", "deleted"}]
    /\ response \in [Loads -> BOOLEAN]
    /\ calling \in [Loads -> BOOLEAN]
    /\ cancel \in [Loads -> BOOLEAN \cup {None}]
    /\ asking \in Loads \cup {None}
    /\ controller \in SUBSET Loads
    /\ refs \in [Loads -> 0..1]
    /\ freed \in [Loads -> 0..2]
    /\ worker \in [Loads -> WorkerPC]
    /\ outcome \in [Loads -> Seq({"finished", "failed"})]
    /\ answer \in [Loads -> {"continue", "cancel", None}]

Queued(fn, l) == Contains(queue, [fn |-> fn, load |-> l])

Pending(l) == \E fn \in Fns : Queued(fn, l)

(***************************************************************************)
(* The client of a load hears of its end at most once, be it through       *)
(* DoContinue, the error of the request or the error of Run                *)
(* (http_loader_task.cpp:69, loader_task.cpp:33).                          *)
(***************************************************************************)
AtMostOneOutcome == \A l \in Loads : Len(outcome[l]) <= 1

(***************************************************************************)
(* Whoever will still use an object finds it: the thread of the request    *)
(* its task and the reference it releases, a queued closure, the callback  *)
(* and the holder of a controller the task and its response.  `delete      *)
(* this` happens on two threads (http_loader_task.cpp:70 and 169) and no   *)
(* lock orders them.                                                       *)
(***************************************************************************)
LiveWhenUsed ==
    \A l \in Loads :
        /\ worker[l] \in {"performing", "failing"} => task[l] = "live"
        /\ worker[l] \in {"performing", "failing", "releasing"}
              => refs[l] = 1 /\ freed[l] = 0
        /\ \/ Queued("DoContinue", l) \/ Queued("ProcessRequestComplete", l)
           \/ asking = l \/ l \in controller
              => task[l] = "live" /\ response[l]

(***************************************************************************)
(* The page is handed on only with the consent of the crawler client: its  *)
(* last word on the controller was to continue (http_loader_task.cpp:145). *)
(***************************************************************************)
PageNeedsConsent ==
    \A l \in Loads :
        kind[l] = "MainHTML" /\ outcome[l] = <<"finished">>
            => answer[l] = "continue"

(***************************************************************************)
(* A task and its outcome go together: a load that ended leaves no task    *)
(* behind unless Perform failed, no task goes away without its client      *)
(* being told or the loop being closed, and until then a load that was not *)
(* cancelled is in somebody's hands: curl's, a closure's or the crawler    *)
(* client's (http_loader_task.cpp:55, 70 and 169).                         *)
(***************************************************************************)
TaskEndsWithLoad ==
    \A l \in Loads :
        /\ outcome[l] # <<>>
              => task[l] # "live" \/ worker[l] = "failing" \/ freed[l] = 2
        /\ task[l] = "deleted"
              => outcome[l] # <<>> \/ Queued("ErrorWorker", l) \/ ~open
        /\ l \in issued /\ outcome[l] = <<>> /\ open
              => \/ worker[l] = "performing" \/ Pending(l)
                 \/ l \in controller \/ answer[l] = "cancel"

(***************************************************************************)
(* For its client and the crawler client a load is what LoadContract says, *)
(* over two threads, the closures between them and answers in or after the *)
(* callback (http_loader_task.cpp:37-71 and 134-170).                      *)
(***************************************************************************)
Stage(l) ==
    CASE outcome[l] # <<>> -> "over"
      [] outcome[l] = <<>> /\ l \in controller -> "asked"
      [] outcome[l] = <<>> /\ l \notin controller /\ answer[l] = "cancel" -> "dropped"
      [] OTHER -> IF l \in issued THEN "loading" ELSE "new"

LC == INSTANCE LoadContract WITH
    pages <- {l \in Loads : kind[l] = "MainHTML"},
    stage <- [l \in Loads |-> Stage(l)],
    closed <- ~open

Implements == LC!Spec

(***************************************************************************)
(* Every load comes to an end, under FairSpec, unless the loop closes, the *)
(* crawler client keeps the controller, or it cancels: DoCancel tells      *)
(* nobody (http_loader_task.cpp:55).                                       *)
(***************************************************************************)
LoadsEnd ==
    \A l \in Loads :
        l \in issued ~> \/ outcome[l] # <<>> \/ ~open
                        \/ l \in controller \/ answer[l] = "cancel"

(***************************************************************************)
(* A page the client let through arrives, whether the client answered in   *)
(* the callback or after it (http_loader_task.cpp:46-53 and 141-154),      *)
(* unless it took the answer back or the loop closes.                      *)
(***************************************************************************)
ContinuedPagesFinish ==
    \A l \in Loads :
        answer[l] = "continue"
            ~> outcome[l] = <<"finished">> \/ ~open \/ answer[l] = "cancel"

(***************************************************************************)
(* "Make sure the only requests still going are keepalive requests"        *)
(* (resource_fetcher.cpp:75), of which this code has none: once the        *)
(* crawler is gone no load of it is under way.  StopFetching returns       *)
(* without stopping anything, so loads run on.                             *)
(***************************************************************************)
DetachStopsLoads ==
    ~crawler => \A l \in Loads : worker[l] \notin {"performing", "failing"}

(***************************************************************************)
(* HTTPLoaderTask::Run asserts that Perform succeeds and, where assertions *)
(* are off, deletes the request it is left with (http_loader_task.cpp:199  *)
(* and 200).  CURLRequest::Perform has deleted it already.                 *)
(***************************************************************************)
RequestDeletedOnce == \A l \in Loads : freed[l] <= 1

=============================================================================
