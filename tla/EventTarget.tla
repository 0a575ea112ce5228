----------------------------- MODULE EventTarget ------------------------------
(***************************************************************************)
(* Listeners of JavaScript: how they are kept by the event targets         *)
(* (core/dom/events/event_target.cpp, event_listener_map.cpp) and by the   *)
(* binding (bindings/core/duk/duk_event_listener.cpp), and how a dispatch  *)
(* walks the targets of an event while its listeners add and remove        *)
(* others.                                                                 *)
(*                                                                         *)
(* A call of addEventListener makes a DukEventListener, a native object    *)
(* owned by its entry in the vector of the target and type.  The global    *)
(* object of the script has a hidden property for each target, type and    *)
(* function, the key, by which removeEventListener finds the native object.*)
(*                                                                         *)
(* No event is dispatched inside another: script cannot dispatch, and what *)
(* the engine dispatches starts in a closure, in the parser or in an       *)
(* answer of the network.  No listener is "once" or passive and no event   *)
(* is stopped: the binding offers script neither.                          *)
(***************************************************************************)
EXTENDS SequencesExt

CONSTANTS
    Elements,   \* the script elements
    Document,
    Window,
    Paths,      \* what a node and its ancestors may be, the node first
    Types,      \* the event types that occur
    Slots,      \* the targets and types for which script has listeners
    Functions,  \* functions of script
    Natives,    \* addresses of DukEventListener objects; bounds their number
    None

Nodes == Elements \cup {Document}

Targets == Nodes \cup {Window}

Keys == Slots \X Functions

ASSUME PathsAssumption == Paths \subseteq Seq(Nodes) \ {<<>>}
ASSUME SlotsAssumption == Slots \subseteq Targets \X Types
ASSUME WindowAssumption == Window \notin Nodes /\ Document \notin Elements
ASSUME NoneAssumption == None \notin Natives \cup Keys \cup (Targets \X Types)

VARIABLES
    key,        \* m_key of a native object; None if there is no object
    native,     \* nativeListener of the hidden property; None without property
    listeners,  \* EventListenerMap: the vector of each target and type
    pc,         \* of the dispatch: none, between two targets, in a vector
    event,      \* the type of the event dispatched
    stops,      \* the targets it has yet to visit, each with its phase
    iterator,   \* the FiringEventIterator: entries passed
    end,        \* and where to stop
    freed,      \* the vector iterated has been deleted
    running,    \* the native object whose handleEvent is on the stack, or None
    dismissed   \* history: removed by script from the vector being iterated

script == <<key, native, listeners>>
walk == <<pc, event, stops>>
vars == <<key, native, listeners, pc, event, stops, iterator, end, freed, running, dismissed>>

Init ==
    /\ key = [n \in Natives |-> None]
    /\ native = [k \in Keys |-> None]
    /\ listeners = [s \in Slots |-> <<>>]
    /\ pc = "none" /\ event = None /\ stops = <<>>
    /\ iterator = 0 /\ end = 0 /\ freed = FALSE
    /\ running = None
    /\ dismissed = {}

(* The target and type whose vector is being looked at. *)
Place == <<Head(stops).target, event>>

HasListeners == Place \in Slots /\ listeners[Place] # <<>>

(* The vector of s is being iterated. *)
At(s) == pc = "listeners" /\ s = Place

(* JavaScript is running, in a listener or otherwise. *)
Scripting == pc = "none" \/ running # None

Registered(n) == \E s \in Slots : \E i \in 1..Len(listeners[s]) : listeners[s][i].listener = n

(* ~DukEventListener deletes the property of its key, whatever is in it. *)
Destroy(S) ==
    /\ key' = [n \in Natives |-> IF n \in S THEN None ELSE key[n]]
    /\ native' = [k \in Keys |-> IF \E n \in S : key[n] = k THEN None ELSE native[k]]

-----------------------------------------------------------------------------
(* The constructor of DukEventListener takes the property of its key over. *)
Create(n, k) ==
    /\ key[n] = None
    /\ key' = [key EXCEPT ![n] = k]
    /\ native' = [native EXCEPT ![k] = n]

(* EventListenerMap::Add.  Its search for a duplicate compares addresses and
   so finds none. *)
AddEntry(s, n, capture) ==
    listeners' = [listeners EXCEPT ![s] = Append(@, [listener |-> n, capture |-> capture])]

(* Variant: what is added is called in the same dispatch. *)
AddDue(s, f, capture) ==
    /\ Scripting
    /\ \E n \in Natives : Create(n, <<s, f>>) /\ AddEntry(s, n, capture)
    /\ dismissed' = IF At(s) THEN dismissed \ {<<f, capture>>} ELSE dismissed
    /\ end' = IF At(s) THEN end + 1 ELSE end
    /\ UNCHANGED <<walk, iterator, freed, running>>

(* addEventListener. *)
AddListener(s, f, capture) ==
    /\ Scripting
    /\ \E n \in Natives : Create(n, <<s, f>>) /\ AddEntry(s, n, capture)
    /\ dismissed' = IF At(s) THEN dismissed \ {<<f, capture>>} ELSE dismissed
    /\ UNCHANGED <<walk, iterator, end, freed, running>>

(* The entry of a slot that Matches(), if there is one. *)
Found(s, n, capture) ==
    {i \in 1..Len(listeners[s]) : listeners[s][i] = [listener |-> n, capture |-> capture]}

(* Variant: the end moves only for listeners that were passed. *)
AdvanceIterators(s, i) ==
    IF At(s) /\ i <= iterator
    THEN iterator' = iterator - 1 /\ end' = end - 1
    ELSE UNCHANGED <<iterator, end>>

(* Variant: the type of the event is not compared. *)
AdjustAllTypes(s, i) ==
    IF pc = "listeners" /\ s[1] = Place[1] /\ i <= end
    THEN /\ end' = end - 1
         /\ iterator' = IF i <= iterator THEN iterator - 1 ELSE iterator
    ELSE UNCHANGED <<iterator, end>>

(* Variant: the iterator stays where it is. *)
AdjustEndOnly(s, i) ==
    /\ end' = IF At(s) /\ i <= end THEN end - 1 ELSE end
    /\ UNCHANGED iterator

(***************************************************************************)
(* The notification of the firing iterators in RemoveEventListenerInternal.*)
(* The iterator names the listener that comes next.                        *)
(***************************************************************************)
AdjustIterator(s, i) ==
    IF At(s) /\ i <= end
    THEN /\ end' = end - 1
         /\ iterator' = IF i <= iterator THEN iterator - 1 ELSE iterator
    ELSE UNCHANGED <<iterator, end>>

(***************************************************************************)
(* EventListenerMap::Remove and what follows.  The vector goes with its    *)
(* last entry; the native object goes with the entry, unless the loop of   *)
(* FireEventListeners still holds it.                                      *)
(***************************************************************************)
RemoveEntry(s, i) ==
    /\ listeners' = [listeners EXCEPT ![s] = RemoveAt(@, i)]
    /\ freed' = (freed \/ (At(s) /\ Len(listeners[s]) = 1))
    /\ AdjustIterator(s, i)
    /\ Destroy({listeners[s][i].listener} \ {running})

(* removeEventListener: nothing happens if the key leads to no entry. *)
RemoveListener(s, f, capture) ==
    LET found == Found(s, native[<<s, f>>], capture) IN
    /\ Scripting
    /\ \/ found = {} /\ UNCHANGED <<script, iterator, end, freed>>
       \/ \E i \in found : RemoveEntry(s, i)
    /\ dismissed' = IF At(s) THEN dismissed \cup {<<f, capture>>} ELSE dismissed
    /\ UNCHANGED <<walk, running>>

-----------------------------------------------------------------------------
Visits(targets, phase) ==
    [i \in 1..Len(targets) |-> [target |-> targets[i], phase |-> phase]]

(* WindowEventContext: load is not passed on to the window. *)
WindowOf(type, path) ==
    IF type # "load" /\ Last(path) = Document THEN <<Window>> ELSE <<>>

(***************************************************************************)
(* EventDispatcher::Dispatch: down to the node, at it, and up again if the *)
(* event bubbles.  The path is fixed before the first listener is called.  *)
(***************************************************************************)
Stops(type, bubbles, path) ==
    LET up == Tail(path)
        window == WindowOf(type, path)
    IN Visits(window \o Reverse(up), "capturing")
         \o Visits(<<Head(path)>>, "target")
         \o (IF bubbles THEN Visits(up \o window, "bubbling") ELSE <<>>)

BeginDispatch(type, st) ==
    /\ pc = "none" /\ type \in Types
    /\ pc' = "between" /\ event' = type /\ stops' = st
    /\ UNCHANGED <<script, iterator, end, freed, running, dismissed>>

(* DispatchLoadEvent and DispatchErrorEvent of a script element. *)
DispatchScriptEvent(type) ==
    \E path \in Paths :
        /\ Head(path) \in Elements
        /\ BeginDispatch(type, Stops(type, FALSE, path))

SetReadyState == BeginDispatch("readystatechange", Stops("readystatechange", FALSE, <<Document>>))

FinishedParsing == BeginDispatch("DOMContentLoaded", Stops("DOMContentLoaded", TRUE, <<Document>>))

(* LocalDOMWindow::DispatchEvent has no path. *)
DispatchWindowEvent(type) == BeginDispatch(type, Visits(<<Window>>, "target"))

(* FireEventListeners finds no vector. *)
PassTarget ==
    /\ pc = "between" /\ stops # <<>>
    /\ ~HasListeners
    /\ stops' = Tail(stops)
    /\ UNCHANGED <<script, pc, event, iterator, end, freed, running, dismissed>>

(* It finds one, and takes its size. *)
EnterTarget ==
    /\ pc = "between" /\ stops # <<>>
    /\ HasListeners
    /\ pc' = "listeners"
    /\ iterator' = 0
    /\ end' = Len(listeners[Place])
    /\ freed' = FALSE
    /\ UNCHANGED <<script, event, stops, running, dismissed>>

ShouldFire(e) ==
    CASE Head(stops).phase = "capturing" -> e.capture
      [] Head(stops).phase = "bubbling" -> ~e.capture
      [] OTHER -> TRUE

(* One turn of the loop of FireEventListeners, up to handleEvent. *)
NextListener ==
    /\ pc = "listeners" /\ running = None
    /\ iterator < end
    /\ iterator' = iterator + 1
    /\ LET e == listeners[Place][iterator + 1]
       IN running' = IF ShouldFire(e) THEN e.listener ELSE None
    /\ UNCHANGED <<script, walk, end, freed, dismissed>>

(* Variant: nobody deletes what was removed while it ran. *)
ReturnOnly ==
    /\ running # None
    /\ running' = None
    /\ UNCHANGED <<script, walk, iterator, end, freed, dismissed>>

(* handleEvent returns and the turn lets go of its copy of the entry. *)
Return ==
    /\ running # None
    /\ running' = None
    /\ Destroy({n \in {running} : ~Registered(n)})
    /\ UNCHANGED <<listeners, walk, iterator, end, freed, dismissed>>

LeaveTarget ==
    /\ pc = "listeners" /\ running = None
    /\ iterator >= end
    /\ pc' = "between" /\ stops' = Tail(stops)
    /\ iterator' = 0 /\ end' = 0 /\ freed' = FALSE
    /\ dismissed' = {}
    /\ UNCHANGED <<script, event, running>>

(***************************************************************************)
(* After "unload" the document removes all listeners, unless it is the     *)
(* transitional one whose window is kept.                                  *)
(***************************************************************************)
RemoveAllEventListeners ==
    /\ listeners' = [s \in Slots |-> <<>>]
    /\ Destroy({n \in Natives : Registered(n)})

EndDispatch ==
    /\ pc = "between" /\ stops = <<>>
    /\ pc' = "none" /\ event' = None
    /\ \/ UNCHANGED script
       \/ event = "unload" /\ RemoveAllEventListeners
    /\ UNCHANGED <<stops, iterator, end, freed, running, dismissed>>

-----------------------------------------------------------------------------
ScriptStep ==
    \E s \in Slots, f \in Functions, capture \in BOOLEAN :
        \/ AddListener(s, f, capture)
        \/ RemoveListener(s, f, capture)

Dispatch ==
    \/ \E type \in {"load", "error"} : DispatchScriptEvent(type)
    \/ SetReadyState
    \/ FinishedParsing
    \/ \E type \in {"load", "unload"} : DispatchWindowEvent(type)

Engine ==
    \/ PassTarget \/ EnterTarget
    \/ NextListener \/ Return \/ LeaveTarget
    \/ EndDispatch

Next == ScriptStep \/ Dispatch \/ Engine

Spec == Init /\ [][Next]_vars

(* The engine goes on, and functions of script return. *)
FairSpec == Spec /\ WF_vars(Engine)

-----------------------------------------------------------------------------
(***************************************************************************)
(* The variables have their types, and an iterator does not pass its end.  *)
(***************************************************************************)
Entry == [listener : Natives, capture : BOOLEAN]

Visit == [target : Targets, phase : {"capturing", "target", "bubbling"}]

TypeOK ==
    /\ key \in [Natives -> Keys \cup {None}]
    /\ native \in [Keys -> Natives \cup {None}]
    /\ listeners \in [Slots -> Seq(Entry)]
    /\ pc \in {"none", "between", "listeners"}
    /\ event \in Types \cup {None}
    /\ stops \in Seq(Visit)
    /\ iterator \in Nat /\ end \in Nat /\ iterator <= end
    /\ freed \in BOOLEAN
    /\ running \in Natives \cup {None}
    /\ dismissed \subseteq Functions \X BOOLEAN

(***************************************************************************)
(* FireEventListeners keeps a reference to the vector while listeners may  *)
(* delete it with its last entry: it never reads a deleted vector, nor     *)
(* beyond the end of the present one (event_target.cpp, the loop).         *)
(***************************************************************************)
VectorIsThere ==
    pc = "listeners" /\ iterator < end => ~freed /\ end <= Len(listeners[Place])

(***************************************************************************)
(* The native objects and what leads to them.  One is there exactly as     *)
(* long as it is needed: it is the one being called or it has one entry,   *)
(* in the vector of its key; none is called, or has an entry, that was     *)
(* deleted (event_target.cpp).  The pointer in a hidden property, which    *)
(* removeEventListener uses unseen, is that of a native object that is     *)
(* there and has this key (DukEventListener::From).                        *)
(***************************************************************************)
NativesAreOwned ==
    /\ \A n \in Natives : key[n] # None <=> n = running \/ Registered(n)
    /\ \A s, t \in Slots : \A i \in 1..Len(listeners[s]), j \in 1..Len(listeners[t]) :
          /\ key[listeners[s][i].listener][1] = s
          /\ listeners[s][i].listener = listeners[t][j].listener => s = t /\ i = j

PropertyIsAlive == \A k \in Keys : native[k] # None => key[native[k]] = k

NativesAreSound == NativesAreOwned /\ PropertyIsAlive

(***************************************************************************)
(* A dispatch calls, in order, what was registered when it came to the     *)
(* target and has not been removed since (the comment and the loop of      *)
(* FireEventListeners, and the iterators RemoveEventListenerInternal moves).*)
(***************************************************************************)
Calling == IF pc = "listeners" THEN Place ELSE None

Due ==
    IF pc = "listeners"
    THEN {listeners[Place][i] : i \in {j \in (iterator + 1)..end : ShouldFire(listeners[Place][j])}}
    ELSE {}

Abstract == INSTANCE ListenerList WITH
    registered <- listeners,
    place <- Calling,
    due <- Due,
    running <- running

Implements == Abstract!Spec

(***************************************************************************)
(* Every dispatch ends, although its listeners may add others all the time *)
(* (FireEventListeners takes the size of the vector before its loop).      *)
(***************************************************************************)
DispatchEnds == pc # "none" ~> pc = "none"

(***************************************************************************)
(* "Don't fire listeners removed during event dispatch" (event_target.cpp):*)
(* what script has removed from a target since the dispatch came to it,    *)
(* and not added again, is not called there.                               *)
(***************************************************************************)
RemovedNotFired ==
    [][running = None /\ running' # None =>
          <<key[running'][2], listeners[Place][iterator + 1].capture>> \notin dismissed]_vars

=============================================================================
