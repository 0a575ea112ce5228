------------------------------ MODULE PageLoad -------------------------------
(***************************************************************************)
(* One page, from the request of its main resource to DocumentReady: the   *)
(* HTML parser with its parser-blocking script, the ScriptRunner with the  *)
(* asynchronous ones, the ResourceFetcher's blocking requests and the      *)
(* Document that puts them together (load-event delay count, ready state,  *)
(* load event, delay timer).                                               *)
(*                                                                         *)
(* All of it runs on the main thread.  A closure of the main loop or an    *)
(* answer of the network starts when the call stack is empty; what it      *)
(* calls then runs in small steps, because JavaScript runs in between and  *)
(* may insert scripts or write to the document.                            *)
(***************************************************************************)
EXTENDS Integers, Sequences, FiniteSets

CONSTANTS
    Scripts,   \* the script elements the page may come to have
    Main,      \* the main resource
    None

ASSUME NamesAssumption ==
    IsFiniteSet(Scripts) /\ Main \notin Scripts /\ None \notin Scripts

VARIABLES
    loading,     \* m_loaders of the ResourceFetcher
    script,      \* what became of each script element
    streamed,    \* the scripts a ScriptStreamer was made for
    soon,        \* m_asyncScriptsToExecuteSoon
    tasks,       \* closures posted to the main loop, oldest first
    extraTasks,  \* m_numberOfExtraTasks
    delayCount,  \* m_loadEventDelayCount
    timerActive, \* m_loadEventDelayTimer
    parser,      \* state of the HTMLDocumentParser, "none" before the commit
    unread,      \* its input stream has not been read to the end
    blocking,    \* its parser_blocking_script_, or None
    endDelayed,  \* its end_was_delayed_
    parsing,     \* m_parsingState
    ready,       \* m_readyState
    progress,    \* m_loadEventProgress
    sent,        \* the DocumentLoader's SentDidFinishLoad
    stack,       \* the calls under way, innermost first
    told         \* history: what the crawler client was told

fetchVars == <<loading, script, streamed>>
runnerVars == <<soon, tasks, extraTasks, delayCount, timerActive>>
parserVars == <<parser, unread, blocking, endDelayed>>
documentVars == <<parsing, ready, progress, sent>>
vars == <<fetchVars, runnerVars, parserVars, documentVars, stack, told>>

(***************************************************************************)
(* A script is new until it is prepared.  An asynchronous one is pending   *)
(* until its file has come, then soon, running, done; a parser-blocking    *)
(* one blocks until its file has come; an inline one runs at once.         *)
(***************************************************************************)
ScriptStates == {"new", "pending", "soon", "running", "blocking", "done"}

(***************************************************************************)
(* The frames.  "script" is JavaScript the parser runs and that has an     *)
(* insertion point; "listener" is any other: an asynchronous script, an    *)
(* event listener, the DocumentReady callback.                             *)
(***************************************************************************)
Frames == {"pump", "script", "listener", "finish", "end", "parsed",
           "stopParsing", "checkCompleted", "close", "closed", "announce",
           "decrement"}

(* The page was requested: BkRunCrawler, FrameLoader::StartNavigation. *)
Init ==
    /\ loading = {Main}
    /\ script = [s \in Scripts |-> "new"]
    /\ streamed = {}
    /\ soon = <<>> /\ tasks = <<>> /\ extraTasks = 0
    /\ delayCount = 0 /\ timerActive = FALSE
    /\ parser = "none" /\ unread = FALSE /\ blocking = None /\ endDelayed = FALSE
    /\ parsing = "finished" /\ ready = "complete" /\ progress = "completed"
    /\ sent = FALSE
    /\ stack = <<>>
    /\ told = <<>>

-----------------------------------------------------------------------------
(* Calls. *)

Idle == stack = <<>>
In(frame) == stack # <<>> /\ Head(stack) = frame
InJavaScript == In("script") \/ In("listener")

(* The running call goes on with the given ones and then returns. *)
GoOnWith(frames) == stack' = frames \o Tail(stack)

(* The running call makes the given ones and goes on after them. *)
Call(frames) == stack' = frames \o stack

-----------------------------------------------------------------------------
(* The ScriptRunner. *)

(* Variant: a script delays the load event unless one does already. *)
QueueWithoutDelay(s) ==
    /\ delayCount' = IF delayCount = 0 THEN 1 ELSE delayCount
    /\ \E http \in BOOLEAN :
          /\ streamed' = IF http THEN streamed \cup {s} ELSE streamed
          /\ extraTasks' = IF http THEN extraTasks + 1 ELSE extraTasks
    /\ UNCHANGED <<soon, tasks, timerActive>>

(***************************************************************************)
(* ScriptRunner::QueueScriptForExecution: delays the load event and starts *)
(* streaming if the script comes over HTTP(S).                             *)
(***************************************************************************)
QueueScriptForExecution(s) ==
    /\ delayCount' = delayCount + 1
    /\ \E http \in BOOLEAN :
          /\ streamed' = IF http THEN streamed \cup {s} ELSE streamed
          /\ extraTasks' = IF http THEN extraTasks + 1 ELSE extraTasks
    /\ UNCHANGED <<soon, tasks, timerActive>>

(* An external script without an insertion point is asynchronous. *)
PrepareAsyncScript(s) ==
    /\ script[s] = "new"
    /\ script' = [script EXCEPT ![s] = "pending"]
    /\ loading' = loading \cup {s}
    /\ QueueScriptForExecution(s)

(* Variant: one closure executes all the scripts that are ready. *)
PostIfFirst(s) ==
    tasks' = IF soon = <<>> THEN Append(tasks, "ExecuteTask") ELSE tasks

(* Variant: a streamed script is left to the streamer's closure. *)
PostOnce(s) ==
    tasks' = Append(tasks, "ExecuteTask")

(* Variant: every script is taken for a streamed one. *)
PostTwice(s) ==
    tasks' = tasks \o <<"ExecuteTask", "ExecuteTask">>

(***************************************************************************)
(* ScriptRunner::NotifyScriptReady posts a closure; for a streamed script, *)
(* NotifyScriptStreamerFinished then posts another one, the extra task.    *)
(***************************************************************************)
PostExecuteTasks(s) ==
    tasks' = tasks \o [i \in 1..(IF s \in streamed THEN 2 ELSE 1) |-> "ExecuteTask"]

(***************************************************************************)
(* The file of an asynchronous script has come, or an error for it.        *)
(* ResourceFetcher::HandleLoaderFinish: the loader goes, the script        *)
(* becomes ready, then DidLoadResource checks.                             *)
(***************************************************************************)
AsyncScriptAnswers(s) ==
    /\ Idle
    /\ script[s] = "pending"
    /\ loading' = loading \ {s}
    /\ script' = [script EXCEPT ![s] = "soon"]
    /\ soon' = Append(soon, s)
    /\ PostExecuteTasks(s)
    /\ Call(<<"checkCompleted">>)
    /\ UNCHANGED <<streamed, extraTasks, delayCount, timerActive, parserVars,
                   documentVars, told>>

(* The main loop runs the oldest closure. *)
Dispatch(task) ==
    /\ Idle
    /\ tasks # <<>> /\ Head(tasks) = task
    /\ tasks' = Tail(tasks)

(* ScriptRunner::ExecuteTask takes the first script that is ready ... *)
ExecuteAsyncTask ==
    /\ Dispatch("ExecuteTask")
    /\ soon # <<>>
    /\ script' = [script EXCEPT ![Head(soon)] = "running"]
    /\ soon' = Tail(soon)
    /\ Call(<<"listener", "decrement">>)
    /\ UNCHANGED <<loading, streamed, extraTasks, delayCount, timerActive,
                   parserVars, documentVars, told>>

(* ... or finds that an earlier closure has taken it. *)
ExecuteExtraTask ==
    /\ Dispatch("ExecuteTask")
    /\ soon = <<>>
    /\ extraTasks' = extraTasks - 1
    /\ UNCHANGED <<fetchVars, soon, delayCount, timerActive, parserVars,
                   documentVars, stack, told>>

(* Document::CheckLoadEventSoon. *)
CheckLoadEventSoon ==
    IF timerActive
    THEN UNCHANGED <<tasks, timerActive>>
    ELSE /\ tasks' = Append(tasks, "LoadEventDelayTimer")
         /\ timerActive' = TRUE

(* Variant: the count is tested before it is decremented. *)
DecrementAfterTest ==
    /\ In("decrement")
    /\ script' = [s \in Scripts |-> IF script[s] = "running" THEN "done"
                                                             ELSE script[s]]
    /\ delayCount' = delayCount - 1
    /\ IF delayCount = 0
       THEN CheckLoadEventSoon
       ELSE UNCHANGED <<tasks, timerActive>>
    /\ GoOnWith(<<>>)
    /\ UNCHANGED <<loading, streamed, soon, extraTasks, parserVars,
                   documentVars, told>>

(* Document::DecrementLoadEventDelayCount, when the script has run. *)
DecrementLoadEventDelayCount ==
    /\ In("decrement")
    /\ script' = [s \in Scripts |-> IF script[s] = "running" THEN "done"
                                                             ELSE script[s]]
    /\ delayCount' = delayCount - 1
    /\ IF delayCount = 1
       THEN CheckLoadEventSoon
       ELSE UNCHANGED <<tasks, timerActive>>
    /\ GoOnWith(<<>>)
    /\ UNCHANGED <<loading, streamed, soon, extraTasks, parserVars,
                   documentVars, told>>

(* Document::LoadEventDelayTimerFired. *)
LoadEventDelayTimerFired ==
    /\ Dispatch("LoadEventDelayTimer")
    /\ timerActive' = FALSE
    /\ Call(<<"checkCompleted">>)
    /\ UNCHANGED <<fetchVars, soon, extraTasks, delayCount, parserVars,
                   documentVars, told>>

-----------------------------------------------------------------------------
(* The HTMLDocumentParser and its HTMLParserScriptRunner. *)

(* IsPaused: there is a parser-blocking script. *)
IsPaused == blocking # None

(* ShouldDelayEnd; the running call has left its own pump session. *)
ShouldDelayEnd ==
    IsPaused \/ \E i \in 2..Len(stack) : stack[i] \in {"pump", "script"}

(***************************************************************************)
(* The main resource arrives: HTTPLoaderTask::DoContinue delivers          *)
(* response, data and end in one closure.  DocumentLoader::CommitData      *)
(* commits (ImplicitOpen) and appends the data, FinishedLoading follows.   *)
(***************************************************************************)
MainResourceAnswers ==
    /\ Idle
    /\ Main \in loading
    /\ parser' = "parsing" /\ unread' = TRUE
    /\ parsing' = "parsing" /\ ready' = "loading" /\ progress' = "notRun"
    /\ Call(<<"pump", "finish", "checkCompleted">>)
    /\ UNCHANGED <<fetchVars, runnerVars, blocking, endDelayed, sent, told>>

(* DocumentLoader::LoadFailed while the navigation is provisional. *)
MainResourceFails ==
    /\ Idle
    /\ Main \in loading
    /\ loading' = loading \ {Main}
    /\ told' = Append(told, "failed")
    /\ UNCHANGED <<script, streamed, runnerVars, parserVars, documentVars, stack>>

(***************************************************************************)
(* The tokenizer is about to read a script element, from the text of the   *)
(* page or, in a nested pump, from what a script writes (Document::write). *)
(* calls is what processing the element leads to.                          *)
(***************************************************************************)
CanTakeNextToken == (In("pump") \/ In("script")) /\ ~IsPaused

ReadScript(s, calls) ==
    /\ CanTakeNextToken
    /\ script[s] = "new"
    /\ stack' = calls \o (IF In("pump") THEN stack ELSE <<"pump">> \o stack)

(* ProcessScriptElement of an inline script runs it. *)
InlineScript(s) ==
    /\ ReadScript(s, <<"script">>)
    /\ script' = [script EXCEPT ![s] = "done"]
    /\ UNCHANGED <<loading, streamed, runnerVars, parserVars, documentVars, told>>

(* RequestParsingBlockingScript: the parser pauses. *)
BlockingScript(s) ==
    /\ ReadScript(s, <<>>)
    /\ script' = [script EXCEPT ![s] = "blocking"]
    /\ loading' = loading \cup {s}
    /\ blocking' = s
    /\ UNCHANGED <<streamed, runnerVars, parser, unread, endDelayed,
                   documentVars, told>>

(* A script with the async attribute. *)
AsyncScript(s) ==
    /\ ReadScript(s, <<>>)
    /\ PrepareAsyncScript(s)
    /\ UNCHANGED <<parserVars, documentVars, told>>

(***************************************************************************)
(* PrepareToStopParsing: the ready state becomes interactive, its event is *)
(* dispatched, then AttemptToRunDeferredScriptsAndEnd, with no deferred    *)
(* scripts, ends the parser.                                               *)
(***************************************************************************)
PrepareToStopParsing(rest) ==
    /\ parser' = "stopping"
    /\ ready' = "interactive"
    /\ endDelayed' = FALSE
    /\ GoOnWith(<<"listener", "end">> \o rest)

(* PumpTokenizer stops at a parser-blocking script. *)
PumpStops ==
    /\ In("pump") /\ IsPaused
    /\ GoOnWith(<<>>)
    /\ UNCHANGED <<fetchVars, runnerVars, parserVars, documentVars, told>>

(* It comes to the end of what it may read; EndIfDelayed. *)
PumpEnds ==
    /\ In("pump") /\ ~IsPaused
    /\ unread' = (unread /\ ShouldDelayEnd)
    /\ IF endDelayed /\ ~ShouldDelayEnd
       THEN PrepareToStopParsing(<<>>)
       ELSE /\ GoOnWith(<<>>)
            /\ UNCHANGED <<parser, ready, endDelayed>>
    /\ UNCHANGED <<fetchVars, runnerVars, blocking, parsing, progress, sent, told>>

(* Variant: Finish ends the parser at once. *)
FinishWithoutWaiting ==
    /\ In("finish")
    /\ loading' = loading \ {Main}
    /\ PrepareToStopParsing(<<>>)
    /\ UNCHANGED <<script, streamed, runnerVars, unread, blocking, parsing,
                   progress, sent, told>>

(* HandleLoaderFinish of the main resource, HTMLDocumentParser::Finish. *)
Finish ==
    /\ In("finish")
    /\ loading' = loading \ {Main}
    /\ IF ShouldDelayEnd
       THEN /\ endDelayed' = TRUE
            /\ GoOnWith(<<>>)
            /\ UNCHANGED <<parser, ready>>
       ELSE PrepareToStopParsing(<<>>)
    /\ UNCHANGED <<script, streamed, runnerVars, unread, blocking, parsing,
                   progress, sent, told>>

(* Variant: the parser is not resumed after the script. *)
BlockingScriptRuns(s) ==
    /\ Idle
    /\ blocking = s
    /\ loading' = loading \ {s}
    /\ script' = [script EXCEPT ![s] = "done"]
    /\ blocking' = None
    /\ Call(<<"script", "checkCompleted">>)
    /\ UNCHANGED <<streamed, runnerVars, parser, unread, endDelayed,
                   documentVars, told>>

(***************************************************************************)
(* The file of the parser-blocking script has come, or an error for it:    *)
(* NotifyScriptLoaded runs the script and resumes the parser unless the    *)
(* script left another one, then DidLoadResource checks.                   *)
(***************************************************************************)
BlockingScriptAnswers(s) ==
    /\ Idle
    /\ blocking = s
    /\ loading' = loading \ {s}
    /\ script' = [script EXCEPT ![s] = "done"]
    /\ blocking' = None
    /\ Call(<<"script", "pump", "checkCompleted">>)
    /\ UNCHANGED <<streamed, runnerVars, parser, unread, endDelayed,
                   documentVars, told>>

(* end(), Document::FinishedParsing: DOMContentLoaded ... *)
FinishedParsing ==
    /\ In("end")
    /\ parsing' = "inDOMContentLoaded"
    /\ GoOnWith(<<"listener", "parsed">>)
    /\ UNCHANGED <<fetchVars, runnerVars, parserVars, ready, progress, sent, told>>

(* ... FrameLoader::FinishedParsing ... *)
ParsingIsFinished ==
    /\ In("parsed")
    /\ parsing' = "finished"
    /\ GoOnWith(<<"checkCompleted", "stopParsing">>)
    /\ UNCHANGED <<fetchVars, runnerVars, parserVars, ready, progress, sent, told>>

(* ... and DocumentParser::StopParsing, detached or not. *)
StopParsing ==
    /\ In("stopParsing")
    /\ parser' = "stopped"
    /\ GoOnWith(<<>>)
    /\ UNCHANGED <<fetchVars, runnerVars, unread, blocking, endDelayed,
                   documentVars, told>>

-----------------------------------------------------------------------------
(* JavaScript. *)

(* It inserts a script element, or the client does through a task of its own. *)
InsertScript(s) ==
    /\ InJavaScript \/ (Idle /\ parser # "none")
    /\ PrepareAsyncScript(s)
    /\ UNCHANGED <<parserVars, documentVars, stack, told>>

JavaScriptReturns ==
    /\ InJavaScript
    /\ GoOnWith(<<>>)
    /\ UNCHANGED <<fetchVars, runnerVars, parserVars, documentVars, told>>

-----------------------------------------------------------------------------
(* The Document's checks. *)

(* Variant: scripts that are no longer loading do not count. *)
CompleteWithoutScripts ==
    /\ parsing = "finished"
    /\ loading = {}
    /\ progress # "inProgress"

ShouldComplete ==
    /\ parsing = "finished"
    /\ loading = {}            \* BlockingRequestCount
    /\ delayCount = 0          \* IsDelayingLoadEvent
    /\ progress # "inProgress"

(* CheckCompletedInternal: SetReadyState, and its event if it changes ... *)
CheckCompleted ==
    /\ In("checkCompleted")
    /\ IF ShouldComplete
       THEN /\ ready' = "complete"
            /\ GoOnWith(IF ready = "complete" THEN <<"close">>
                                              ELSE <<"listener", "close">>)
       ELSE GoOnWith(<<>>) /\ UNCHANGED ready
    /\ UNCHANGED <<fetchVars, runnerVars, parserVars, parsing, progress, sent, told>>

(* ... then ImplicitClose, once: detach the parser, dispatch load ... *)
ImplicitClose ==
    /\ In("close")
    /\ IF progress = "notRun"
       THEN /\ progress' = "inProgress"
            /\ parser' = "detached"
            /\ GoOnWith(<<"listener", "closed", "announce">>)
       ELSE GoOnWith(<<"announce">>) /\ UNCHANGED <<progress, parser>>
    /\ UNCHANGED <<fetchVars, runnerVars, unread, blocking, endDelayed, parsing,
                   ready, sent, told>>

LoadEventIsOver ==
    /\ In("closed")
    /\ progress' = "completed"
    /\ GoOnWith(<<>>)
    /\ UNCHANGED <<fetchVars, runnerVars, parserVars, parsing, ready, sent, told>>

(* ... and DispatchDidFinishLoad, once: the client's DocumentReady. *)
DispatchDidFinishLoad ==
    /\ In("announce")
    /\ sent' = TRUE
    /\ IF sent
       THEN GoOnWith(<<>>) /\ UNCHANGED told
       ELSE GoOnWith(<<"listener">>) /\ told' = Append(told, "ready")
    /\ UNCHANGED <<fetchVars, runnerVars, parserVars, parsing, ready, progress>>

-----------------------------------------------------------------------------
MainThread ==
    \/ \E s \in Scripts : InlineScript(s) \/ BlockingScript(s) \/ AsyncScript(s)
    \/ PumpStops \/ PumpEnds \/ Finish
    \/ FinishedParsing \/ ParsingIsFinished \/ StopParsing
    \/ JavaScriptReturns
    \/ DecrementLoadEventDelayCount
    \/ CheckCompleted \/ ImplicitClose \/ LoadEventIsOver
    \/ DispatchDidFinishLoad

DispatchTask == ExecuteAsyncTask \/ ExecuteExtraTask \/ LoadEventDelayTimerFired

MainAnswers == MainResourceAnswers \/ MainResourceFails

ScriptAnswers(s) == AsyncScriptAnswers(s) \/ BlockingScriptAnswers(s)

Next ==
    \/ MainThread \/ DispatchTask \/ MainAnswers
    \/ \E s \in Scripts : ScriptAnswers(s) \/ InsertScript(s)

Spec == Init /\ [][Next]_vars

(***************************************************************************)
(* The main thread goes on with what it does and runs what is posted       *)
(* (TaskLoop), every request is answered (HttpLoad, so the crawler client  *)
(* neither keeps nor cancels the page).  Nobody has to insert a script.    *)
(***************************************************************************)
FairSpec ==
    /\ Spec
    /\ WF_vars(MainThread) /\ WF_vars(DispatchTask) /\ WF_vars(MainAnswers)
    /\ \A s \in Scripts : WF_vars(ScriptAnswers(s))

-----------------------------------------------------------------------------
(* Properties. *)

(* The type invariant. *)
TypeOK ==
    /\ loading \subseteq Scripts \cup {Main}
    /\ script \in [Scripts -> ScriptStates]
    /\ streamed \subseteq Scripts
    /\ soon \in Seq(Scripts)
    /\ tasks \in Seq({"ExecuteTask", "LoadEventDelayTimer"})
    /\ extraTasks \in Nat
    /\ delayCount \in Nat
    /\ timerActive \in BOOLEAN
    /\ parser \in {"none", "parsing", "stopping", "stopped", "detached"}
    /\ unread \in BOOLEAN
    /\ blocking \in Scripts \cup {None}
    /\ endDelayed \in BOOLEAN
    /\ parsing \in {"parsing", "inDOMContentLoaded", "finished"}
    /\ ready \in {"loading", "interactive", "complete"}
    /\ progress \in {"notRun", "inProgress", "completed"}
    /\ sent \in BOOLEAN
    /\ stack \in Seq(Frames)
    /\ told \in Seq({"ready", "failed"})

InState(states) == {s \in Scripts : script[s] \in states}

(***************************************************************************)
(* The load event is delayed by exactly the asynchronous scripts that have *)
(* not been executed, whatever order they come in, fail in, or insert each *)
(* other in (script_runner.cpp:195 and 110, document.cpp:642).             *)
(***************************************************************************)
DelayCountExact ==
    delayCount = Cardinality(InState({"pending", "soon", "running"}))

Posted(task) == Cardinality({i \in DOMAIN tasks : tasks[i] = task})

(***************************************************************************)
(* The closures posted are those the runner and the timer count on: one    *)
(* for each script that is ready, the extra ones of the streamers that     *)
(* have finished, and one if the timer is active (script_runner.cpp:131    *)
(* and 183, document.cpp:532).  One too few leaves a script waiting for    *)
(* ever, and the page with it.                                             *)
(***************************************************************************)
ClosuresMatch ==
    /\ Posted("ExecuteTask") + Cardinality(streamed \cap InState({"pending"}))
          = Len(soon) + extraTasks
    /\ Posted("LoadEventDelayTimer") = IF timerActive THEN 1 ELSE 0

(***************************************************************************)
(* The assertions on the way: a closure that finds no script was announced *)
(* as an extra one (script_runner.cpp:146), the count is positive when it  *)
(* is decremented (document.cpp:644), a document that finished parsing is  *)
(* past loading and its parser past parsing (document.cpp:768).            *)
(***************************************************************************)
AssertsHold ==
    /\ Idle /\ tasks # <<>> /\ Head(tasks) = "ExecuteTask" /\ soon = <<>>
          => extraTasks > 0
    /\ In("decrement") => delayCount > 0
    /\ In("end") => parser = "stopping" /\ ready # "loading"

(***************************************************************************)
(* A parser that stops has read all its input and waits for no script, so  *)
(* it may stop neither while a script it asked for is under way nor inside *)
(* a script or a nested pump (html_document_parser.cc:184 and 204,         *)
(* NotifyScriptLoaded's early returns are then never taken).               *)
(***************************************************************************)
ParserEndsClean ==
    parser \in {"stopping", "stopped", "detached"} => ~unread /\ blocking = None

(***************************************************************************)
(* No check is lost: when nothing holds the page back any more and the     *)
(* main thread is idle, the client has been told or the delay timer will   *)
(* check (document.cpp:642-649).  No other closure would.                  *)
(***************************************************************************)
NoLostCheck ==
    Idle /\ parser # "none" /\ ShouldComplete /\ told = <<>> => timerActive

(***************************************************************************)
(* The page is a LoadBarrier: the client is told once, and the document is *)
(* closed only at a moment when the page is parsed and all scripts known   *)
(* so far have been executed (document.cpp:477-528, 1377).                 *)
(***************************************************************************)
Barrier == INSTANCE LoadBarrier WITH
    blockers <- InState({"pending", "soon", "running", "blocking"}) \cup
                (IF parser = "none" \/ parsing # "finished" THEN {Main} ELSE {}),
    closing <- parser # "none" /\ ready = "complete"

IsABarrier == Barrier!Spec

(***************************************************************************)
(* The client hears of every page, under FairSpec: parser, scripts and     *)
(* requests never wait for each other in a circle.                         *)
(***************************************************************************)
PageIsReported == <>(told # <<>>)

(***************************************************************************)
(* Every script that is asked for is executed, whenever it was inserted.   *)
(***************************************************************************)
ScriptsRun ==
    \A s \in Scripts : script[s] \in {"pending", "blocking"} ~> script[s] = "done"

=============================================================================
