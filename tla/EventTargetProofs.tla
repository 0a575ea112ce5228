-------------------------- MODULE EventTargetProofs ---------------------------
(***************************************************************************)
(* What EventTarget guarantees for all targets, functions and addresses,   *)
(* proved with TLAPS: its types, that no deleted vector is read, that a    *)
(* native object is there as long as it is needed, that the pointer of the *)
(* hidden property is good, and that a dispatch calls what ListenerList    *)
(* promises.                                                               *)
(***************************************************************************)
EXTENDS EventTarget, SequenceTheorems, TLAPS

-----------------------------------------------------------------------------
(* The inductive invariant. *)

(* Where the walk is when it is in a vector, and that only then is a *)
(* listener called. *)
Control ==
    /\ pc = "listeners" => stops # <<>> /\ Place \in Slots
    /\ pc # "listeners" => running = None
    /\ pc # "none" => event \in Types

IInv ==
    /\ TypeOK
    /\ Control
    /\ VectorIsThere
    /\ NativesAreOwned
    /\ PropertyIsAlive

-----------------------------------------------------------------------------
(* Sequences. *)

LEMMA RemoveAtProperties ==
    ASSUME NEW S, NEW q \in Seq(S), NEW i \in 1..Len(q)
    PROVE  /\ RemoveAt(q, i) \in Seq(S)
           /\ Len(RemoveAt(q, i)) = Len(q) - 1
           /\ \A j \in 1..(Len(q) - 1) :
                 RemoveAt(q, i)[j] = IF j < i THEN q[j] ELSE q[j + 1]
<1> DEFINE front == SubSeq(q, 1, i - 1)
           back == SubSeq(q, i + 1, Len(q))
<1>1. /\ front \in Seq(S) /\ Len(front) = i - 1
      /\ \A j \in 1..(i - 1) : front[j] = q[j]
  BY SubSeqProperties
<1>2. /\ back \in Seq(S) /\ Len(back) = Len(q) - i
      /\ \A j \in 1..(Len(q) - i) : back[j] = q[i + j]
  BY SubSeqProperties
<1>3. RemoveAt(q, i) = front \o back
  BY DEF RemoveAt
<1> HIDE DEF front, back
<1>4. /\ front \o back \in Seq(S)
      /\ Len(front \o back) = Len(q) - 1
      /\ \A j \in 1..(Len(q) - 1) :
            (front \o back)[j] = IF j <= i - 1 THEN front[j] ELSE back[j - (i - 1)]
  BY <1>1, <1>2, ConcatProperties
<1>5. ASSUME NEW j \in 1..(Len(q) - 1)
      PROVE  (front \o back)[j] = IF j < i THEN q[j] ELSE q[j + 1]
  <2>1. CASE j < i
    BY <1>1, <1>4, <2>1
  <2>2. CASE ~(j < i)
    <3>1. j - (i - 1) \in 1..(Len(q) - i) /\ i + (j - (i - 1)) = j + 1
      BY <2>2
    <3> QED BY <1>2, <1>4, <2>2, <3>1
  <2> QED BY <2>1, <2>2
<1> QED BY <1>3, <1>4, <1>5

LEMMA Vectors ==
    ASSUME TypeOK, NEW s \in Slots
    PROVE  /\ listeners[s] \in Seq(Entry) /\ Len(listeners[s]) \in Nat
           /\ \A i \in 1..Len(listeners[s]) :
                 /\ listeners[s][i] \in Entry
                 /\ listeners[s][i].listener \in Natives
<1>1. listeners[s] \in Seq(Entry)
  BY DEF TypeOK
<1>2. Len(listeners[s]) \in Nat /\ \A i \in 1..Len(listeners[s]) : listeners[s][i] \in Entry
  BY <1>1, ElementOfSeq, LenProperties
<1> QED BY <1>1, <1>2 DEF Entry

(* What is left of a vector without its entry i. *)
LEMMA Shorter ==
    ASSUME TypeOK, NEW s \in Slots, NEW i \in 1..Len(listeners[s]),
           listeners' = [listeners EXCEPT ![s] = RemoveAt(@, i)]
    PROVE  /\ listeners' \in [Slots -> Seq(Entry)]
           /\ \A t \in Slots \ {s} : listeners'[t] = listeners[t]
           /\ Len(listeners'[s]) = Len(listeners[s]) - 1
           /\ \A j \in 1..(Len(listeners[s]) - 1) :
                 listeners'[s][j] = IF j < i THEN listeners[s][j] ELSE listeners[s][j + 1]
<1>1. listeners[s] \in Seq(Entry) /\ listeners \in [Slots -> Seq(Entry)]
  BY Vectors DEF TypeOK
<1>2. listeners'[s] = RemoveAt(listeners[s], i)
  BY <1>1
<1> QED BY <1>1, <1>2, RemoveAtProperties

LEMMA Longer ==
    ASSUME TypeOK, NEW s \in Slots, NEW e \in Entry,
           listeners' = [listeners EXCEPT ![s] = Append(@, e)]
    PROVE  /\ listeners' \in [Slots -> Seq(Entry)]
           /\ \A t \in Slots \ {s} : listeners'[t] = listeners[t]
           /\ Len(listeners'[s]) = Len(listeners[s]) + 1
           /\ \A j \in 1..Len(listeners[s]) : listeners'[s][j] = listeners[s][j]
           /\ listeners'[s][Len(listeners[s]) + 1] = e
<1>1. listeners[s] \in Seq(Entry) /\ listeners \in [Slots -> Seq(Entry)]
  BY Vectors DEF TypeOK
<1>2. listeners'[s] = Append(listeners[s], e)
  BY <1>1
<1> QED BY <1>1, <1>2, AppendProperties

-----------------------------------------------------------------------------
(* Types. *)

(* The stops of a dispatch are targets with a phase. *)
LEMMA VisitsTyped ==
    ASSUME NEW q \in Seq(Targets), NEW phase \in {"capturing", "target", "bubbling"}
    PROVE  Visits(q, phase) \in Seq(Visit)
<1>1. Len(q) \in Nat /\ \A i \in 1..Len(q) : q[i] \in Targets
  BY ElementOfSeq, LenProperties
<1>2. \A i \in 1..Len(q) : [target |-> q[i], phase |-> phase] \in Visit
  BY <1>1 DEF Visit
<1> QED BY <1>1, <1>2, IsASeq DEF Visits

LEMMA StopsTyped ==
    ASSUME NEW type, NEW bubbles \in BOOLEAN, NEW path \in Seq(Nodes), path # <<>>
    PROVE  Stops(type, bubbles, path) \in Seq(Visit)
<1> DEFINE up == Tail(path)
           window == WindowOf(type, path)
<1>1. up \in Seq(Targets) /\ <<Head(path)>> \in Seq(Targets)
  <2>1. up \in Seq(Nodes) /\ Head(path) \in Nodes
    BY HeadTailProperties
  <2> QED BY <2>1 DEF Targets
<1>2. window \in Seq(Targets)
  <2>1. Window \in Targets /\ <<Window>> \in Seq(Targets) /\ <<>> \in Seq(Targets)
    BY DEF Targets
  <2>2. window = <<Window>> \/ window = <<>>
    BY DEF WindowOf
  <2> QED BY <2>1, <2>2
<1> HIDE DEF up, window
<1>3. Reverse(up) \in Seq(Targets)
  <2>1. Len(up) \in Nat /\ \A i \in 1..Len(up) : up[i] \in Targets
    BY <1>1, ElementOfSeq, LenProperties
  <2>2. \A i \in 1..Len(up) : up[Len(up) - i + 1] \in Targets
    BY <2>1
  <2> QED BY <2>1, <2>2, IsASeq DEF Reverse
<1>4. window \o Reverse(up) \in Seq(Targets) /\ up \o window \in Seq(Targets)
  BY <1>1, <1>2, <1>3, ConcatProperties
<1>5. /\ Visits(window \o Reverse(up), "capturing") \in Seq(Visit)
      /\ Visits(<<Head(path)>>, "target") \in Seq(Visit)
      /\ Visits(up \o window, "bubbling") \in Seq(Visit)
  BY <1>1, <1>4, VisitsTyped
<1>6. (IF bubbles THEN Visits(up \o window, "bubbling") ELSE <<>>) \in Seq(Visit)
  BY <1>5
<1> QED BY <1>5, <1>6, ConcatProperties DEF Stops, up, window

LEMMA DispatchTyped ==
    ASSUME TypeOK, Dispatch PROVE stops' \in Seq(Visit) /\ event' \in Types
<1>1. ASSUME NEW type \in {"load", "error"}, DispatchScriptEvent(type)
      PROVE  stops' \in Seq(Visit) /\ event' \in Types
  BY <1>1, StopsTyped, PathsAssumption DEF DispatchScriptEvent, BeginDispatch
<1>2. <<Document>> \in Seq(Nodes) /\ <<Document>> # <<>>
  BY DEF Nodes
<1>3. CASE SetReadyState \/ FinishedParsing
  BY <1>2, <1>3, StopsTyped DEF SetReadyState, FinishedParsing, BeginDispatch
<1>4. ASSUME NEW type \in {"load", "unload"}, DispatchWindowEvent(type)
      PROVE  stops' \in Seq(Visit) /\ event' \in Types
  <2>1. <<Window>> \in Seq(Targets)
    BY DEF Targets
  <2> QED BY <1>4, <2>1, VisitsTyped DEF DispatchWindowEvent, BeginDispatch
<1> QED BY <1>1, <1>3, <1>4 DEF Dispatch

(* What every step but those of script leaves alone, or clears. *)
LEMMA DestroyTyped ==
    ASSUME TypeOK, NEW S, Destroy(S)
    PROVE  /\ key' \in [Natives -> Keys \cup {None}]
           /\ native' \in [Keys -> Natives \cup {None}]
BY DEF TypeOK, Destroy

LEMMA TypesKept == TypeOK /\ Control /\ VectorIsThere /\ [Next]_vars => TypeOK'
<1> SUFFICES ASSUME TypeOK, Control, VectorIsThere, [Next]_vars PROVE TypeOK'
  OBVIOUS
<1>1. ASSUME NEW s \in Slots, NEW f \in Functions, NEW capture \in BOOLEAN,
             AddListener(s, f, capture)
      PROVE  TypeOK'
  <2>1. PICK n \in Natives :
           /\ key' = [key EXCEPT ![n] = <<s, f>>]
           /\ native' = [native EXCEPT ![<<s, f>>] = n]
           /\ listeners' = [listeners EXCEPT ![s] =
                              Append(@, [listener |-> n, capture |-> capture])]
    BY <1>1 DEF AddListener, Create, AddEntry
  <2>2. <<s, f>> \in Keys /\ [listener |-> n, capture |-> capture] \in Entry
    BY DEF Keys, Entry
  <2>3. listeners' \in [Slots -> Seq(Entry)]
    BY <2>1, <2>2, Longer
  <2> QED BY <1>1, <2>1, <2>2, <2>3 DEF TypeOK, AddListener, walk
<1>2. ASSUME NEW s \in Slots, NEW f \in Functions, NEW capture \in BOOLEAN,
             RemoveListener(s, f, capture)
      PROVE  TypeOK'
  <2>1. ASSUME NEW i \in Found(s, native[<<s, f>>], capture), RemoveEntry(s, i)
        PROVE  TypeOK'
    <3>1. i \in 1..Len(listeners[s])
      BY DEF Found
    <3>2. listeners' \in [Slots -> Seq(Entry)]
      BY <2>1, <3>1, Shorter DEF RemoveEntry
    <3>3. iterator' \in Nat /\ end' \in Nat /\ iterator' <= end'
      BY <2>1, <3>1, Vectors DEF TypeOK, RemoveEntry, AdjustIterator
    <3> QED BY <1>2, <2>1, <3>2, <3>3, DestroyTyped
           DEF TypeOK, RemoveListener, RemoveEntry, walk
  <2>2. CASE UNCHANGED <<script, iterator, end, freed>>
    BY <1>2, <2>2 DEF TypeOK, RemoveListener, script, walk
  <2> QED BY <1>2, <2>1, <2>2 DEF RemoveListener
<1>3. CASE Dispatch
  <2>1. pc' = "between" /\ UNCHANGED <<script, iterator, end, freed, running, dismissed>>
    BY <1>3 DEF Dispatch, DispatchScriptEvent, SetReadyState, FinishedParsing,
       DispatchWindowEvent, BeginDispatch
  <2> QED BY <1>3, <2>1, DispatchTyped DEF TypeOK, script
<1>4. CASE PassTarget \/ LeaveTarget
  <2>1. stops # <<>>
    BY <1>4 DEF PassTarget, LeaveTarget, Control
  <2>2. stops \in Seq(Visit)
    BY DEF TypeOK
  <2>3. Tail(stops) \in Seq(Visit)
    BY <2>1, <2>2, HeadTailProperties
  <2>4. stops' \in Seq(Visit) /\ UNCHANGED <<key, native, listeners, event, running>>
    BY <1>4, <2>3 DEF PassTarget, LeaveTarget, script
  <2>5. CASE PassTarget
    BY <2>4, <2>5 DEF TypeOK, PassTarget
  <2>6. CASE LeaveTarget
    <3>1. pc' = "between" /\ iterator' = 0 /\ end' = 0 /\ freed' = FALSE /\ dismissed' = {}
      BY <2>6 DEF LeaveTarget
    <3>2. iterator' \in Nat /\ end' \in Nat /\ iterator' <= end'
      BY <3>1
    <3> QED BY ONLY TypeOK, <2>4, <3>1, <3>2 DEF TypeOK
  <2> QED BY <1>4, <2>5, <2>6
<1>5. CASE EnterTarget
  <2>1. Len(listeners[Place]) \in Nat
    BY <1>5, Vectors DEF EnterTarget, HasListeners
  <2>2. /\ UNCHANGED <<key, native, listeners, event, stops, running, dismissed>>
        /\ pc' = "listeners" /\ iterator' = 0 /\ end' = Len(listeners[Place])
        /\ freed' = FALSE
    BY <1>5 DEF EnterTarget, script
  <2>3. iterator' \in Nat /\ end' \in Nat /\ iterator' <= end'
    BY <2>1, <2>2
  <2> QED BY ONLY TypeOK, <2>2, <2>3 DEF TypeOK
<1>6. CASE NextListener
  <2>1. iterator + 1 \in 1..Len(listeners[Place]) /\ Place \in Slots
    BY <1>6, Vectors DEF NextListener, VectorIsThere, Control, TypeOK
  <2>2. running' \in Natives \cup {None}
    BY <1>6, <2>1, Vectors DEF NextListener
  <2>3. /\ UNCHANGED <<key, native, listeners, pc, event, stops, end, freed, dismissed>>
        /\ iterator < end /\ iterator' = iterator + 1
    BY <1>6 DEF NextListener, script, walk
  <2> QED BY <2>2, <2>3 DEF TypeOK
<1>7. CASE Return
  BY <1>7, DestroyTyped DEF TypeOK, Return, walk
<1>8. CASE EndDispatch
  <2>1. CASE RemoveAllEventListeners
    <3>1. listeners' \in [Slots -> Seq(Entry)]
      BY <2>1 DEF RemoveAllEventListeners
    <3> QED BY <1>8, <2>1, <3>1, DestroyTyped DEF TypeOK, EndDispatch, RemoveAllEventListeners
  <2>2. CASE UNCHANGED script
    BY <1>8, <2>2 DEF TypeOK, EndDispatch, script
  <2> QED BY <1>8, <2>1, <2>2 DEF EndDispatch
<1>9. CASE UNCHANGED vars
  BY <1>9 DEF TypeOK, vars
<1> QED
  BY <1>1, <1>2, <1>3, <1>4, <1>5, <1>6, <1>7, <1>8, <1>9 DEF Next, ScriptStep, Engine

-----------------------------------------------------------------------------
(* The walk and the vector it is in. *)

LEMMA ControlKept == TypeOK /\ Control /\ [Next]_vars => Control'
<1> SUFFICES ASSUME TypeOK, Control, [Next]_vars PROVE Control'
  OBVIOUS
<1>1. CASE UNCHANGED <<walk, running>>
  BY <1>1 DEF Control, Place, walk
<1>2. CASE Dispatch
  <2>1. pc = "none" /\ pc' = "between" /\ UNCHANGED running
    BY <1>2 DEF Dispatch, DispatchScriptEvent, SetReadyState, FinishedParsing,
       DispatchWindowEvent, BeginDispatch
  <2> QED BY <1>2, <2>1, DispatchTyped DEF Control
<1>3. CASE PassTarget
  BY <1>3 DEF Control, PassTarget
<1>4. CASE EnterTarget
  BY <1>4 DEF Control, EnterTarget, HasListeners, Place
<1>5. CASE NextListener
  BY <1>5 DEF Control, NextListener, walk, Place
<1>6. CASE Return
  BY <1>6 DEF Control, Return, walk, Place
<1>7. CASE LeaveTarget
  BY <1>7 DEF Control, LeaveTarget
<1>8. CASE EndDispatch
  BY <1>8 DEF Control, EndDispatch
<1>9. ScriptStep \/ UNCHANGED vars => UNCHANGED <<walk, running>>
  BY DEF ScriptStep, AddListener, RemoveListener, vars, walk
<1> QED
  BY <1>1, <1>2, <1>3, <1>4, <1>5, <1>6, <1>7, <1>8, <1>9 DEF Next, Engine

LEMMA MoreThanOne == \A n \in Nat : n > 1 => n # 1
OBVIOUS

LEMMA VectorKept == TypeOK /\ Control /\ VectorIsThere /\ [Next]_vars => VectorIsThere'
<1> SUFFICES ASSUME TypeOK, Control, VectorIsThere, [Next]_vars,
                    pc' = "listeners", iterator' < end'
             PROVE  ~freed' /\ end' <= Len((listeners[Place])')
  BY DEF VectorIsThere
<1>1. ASSUME UNCHANGED walk, pc = "listeners"
      PROVE  Place' = Place /\ Place \in Slots /\ Len(listeners[Place]) \in Nat
  BY <1>1, Vectors DEF Place, walk, Control
<1>2. ASSUME NEW s \in Slots, NEW f \in Functions, NEW capture \in BOOLEAN,
             AddListener(s, f, capture)
      PROVE  ~freed' /\ end' <= Len((listeners[Place])')
  <2>1. PICK n \in Natives : listeners' = [listeners EXCEPT ![s] =
                               Append(@, [listener |-> n, capture |-> capture])]
    BY <1>2 DEF AddListener, Create, AddEntry
  <2>2. UNCHANGED <<walk, pc, iterator, end, freed>>
    BY <1>2 DEF AddListener, walk
  <2>3. [listener |-> n, capture |-> capture] \in Entry
    BY DEF Entry
  <2>4. Len(listeners'[Place]) >= Len(listeners[Place])
    <3>1. Place \in Slots /\ Len(listeners[Place]) \in Nat
      BY <1>1, <2>2
    <3>2. CASE s = Place
      BY <2>1, <2>3, <3>1, <3>2, Longer
    <3>3. CASE s # Place
      BY <2>1, <2>3, <3>1, <3>3, Longer
    <3> QED BY <3>2, <3>3
  <2> QED BY <1>1, <2>2, <2>4, Vectors DEF VectorIsThere, TypeOK
<1>3. ASSUME NEW s \in Slots, NEW f \in Functions, NEW capture \in BOOLEAN,
             RemoveListener(s, f, capture)
      PROVE  ~freed' /\ end' <= Len((listeners[Place])')
  <2>1. UNCHANGED <<walk, pc>>
    BY <1>3 DEF RemoveListener, walk
  <2>2. ASSUME NEW i \in Found(s, native[<<s, f>>], capture), RemoveEntry(s, i)
        PROVE  ~freed' /\ end' <= Len(listeners'[Place])
    <3>1. i \in 1..Len(listeners[s]) /\ Len(listeners[s]) \in Nat
      BY Vectors DEF Found
    <3>2. /\ \A t \in Slots \ {s} : listeners'[t] = listeners[t]
          /\ Len(listeners'[s]) = Len(listeners[s]) - 1
      BY <2>2, <3>1, Shorter DEF RemoveEntry
    <3>3. Place \in Slots /\ iterator \in Nat /\ end \in Nat /\ iterator <= end
      BY <1>1, <2>1 DEF TypeOK
    <3>4. CASE s = Place
      <4>1. At(s) /\ pc = "listeners"
        BY <2>1, <3>4 DEF At
      <4>2. CASE i <= end
        <5>1. /\ end' = end - 1
              /\ iterator' = IF i <= iterator THEN iterator - 1 ELSE iterator
          BY <2>2, <4>1, <4>2 DEF RemoveEntry, AdjustIterator
        <5>2. iterator < end
          BY <3>1, <3>3, <5>1
        <5>3. ~freed /\ end <= Len(listeners[s])
          BY <3>4, <4>1, <5>2 DEF VectorIsThere
        <5>4. Len(listeners[s]) > 1
          BY <3>1, <3>3, <4>2, <5>1, <5>2, <5>3
        <5>5. ~freed'
          <6>1. freed' = (freed \/ (At(s) /\ Len(listeners[s]) = 1))
            BY <2>2 DEF RemoveEntry
          <6>2. ~(Len(listeners[s]) = 1)
            BY <3>1, <5>4, MoreThanOne, Zenon
          <6> QED BY ONLY <5>3, <6>1, <6>2, Zenon
        <5> QED BY <3>1, <3>2, <3>3, <3>4, <5>1, <5>3, <5>5
      <4>3. CASE ~(i <= end)
        <5>1. end' = end /\ iterator' = iterator
          BY <2>2, <4>3 DEF RemoveEntry, AdjustIterator
        <5>2. ~freed /\ end <= Len(listeners[s])
          BY <3>4, <4>1, <5>1 DEF VectorIsThere
        <5>3. Len(listeners[s]) > 1 /\ end <= Len(listeners[s]) - 1
          BY <3>1, <3>3, <4>3, <5>1, <5>2
        <5>4. ~freed'
          <6>1. freed' = (freed \/ (At(s) /\ Len(listeners[s]) = 1))
            BY <2>2 DEF RemoveEntry
          <6>2. ~(Len(listeners[s]) = 1)
            BY <3>1, <5>3, MoreThanOne, Zenon
          <6> QED BY ONLY <5>2, <6>1, <6>2, Zenon
        <5> QED BY <3>2, <3>4, <5>1, <5>3, <5>4
      <4> QED BY <4>2, <4>3
    <3>5. CASE s # Place
      <4>1. ~At(s)
        BY <3>5 DEF At
      <4> QED BY <2>1, <2>2, <3>2, <3>3, <3>5, <4>1
             DEF RemoveEntry, AdjustIterator, VectorIsThere
    <3> QED BY <3>4, <3>5
  <2>3. ASSUME UNCHANGED <<script, iterator, end, freed>>
        PROVE  ~freed' /\ end' <= Len(listeners'[Place])
    <3>1. UNCHANGED <<listeners, iterator, end, freed>>
      BY <2>3 DEF script
    <3> QED BY <2>1, <3>1 DEF VectorIsThere
  <2>4. ~freed' /\ end' <= Len(listeners'[Place])
    BY <1>3, <2>2, <2>3 DEF RemoveListener
  <2> QED BY <1>1, <2>1, <2>4
<1>4. CASE EnterTarget
  <2>1. Place' = Place /\ Place \in Slots
    BY <1>4 DEF EnterTarget, HasListeners, Place
  <2>2. ~freed' /\ end' = Len(listeners[Place]) /\ listeners' = listeners
    BY <1>4 DEF EnterTarget, script
  <2> QED BY <2>1, <2>2, Vectors
<1>5. CASE NextListener
  <2>1. /\ UNCHANGED <<walk, pc, listeners, end, freed>>
        /\ iterator < end
    BY <1>5 DEF NextListener, script, walk
  <2> QED BY <1>1, <2>1 DEF VectorIsThere
<1>6. CASE Return \/ UNCHANGED vars
  <2>1. UNCHANGED <<walk, pc, listeners, iterator, end, freed>>
    BY <1>6 DEF Return, walk, vars
  <2> QED BY <1>1, <2>1 DEF VectorIsThere
<1>7. ~(Dispatch \/ PassTarget \/ LeaveTarget \/ EndDispatch)
  BY DEF Dispatch, DispatchScriptEvent, SetReadyState, FinishedParsing,
     DispatchWindowEvent, BeginDispatch, PassTarget, LeaveTarget, EndDispatch
<1> QED
  BY <1>2, <1>3, <1>4, <1>5, <1>6, <1>7 DEF Next, ScriptStep, Engine

-----------------------------------------------------------------------------
(* The native objects. *)

(* Where an entry was before entry i of s was taken out. *)
Before(t, j, s, i) == IF t = s /\ j >= i THEN j + 1 ELSE j

LEMMA Remaining ==
    ASSUME TypeOK, NEW s \in Slots, NEW i \in 1..Len(listeners[s]),
           listeners' = [listeners EXCEPT ![s] = RemoveAt(@, i)]
    PROVE  /\ \A t \in Slots : \A j \in 1..Len(listeners'[t]) :
                 /\ Before(t, j, s, i) \in 1..Len(listeners[t])
                 /\ listeners'[t][j] = listeners[t][Before(t, j, s, i)]
                 /\ t = s => Before(t, j, s, i) # i
           /\ \A t \in Slots : \A k \in 1..Len(listeners[t]) :
                 t # s \/ k # i =>
                    \E j \in 1..Len(listeners'[t]) : listeners'[t][j] = listeners[t][k]
<1>1. Len(listeners[s]) \in Nat
  BY Vectors
<1>2. /\ \A t \in Slots \ {s} : listeners'[t] = listeners[t]
      /\ Len(listeners'[s]) = Len(listeners[s]) - 1
      /\ \A j \in 1..(Len(listeners[s]) - 1) :
            listeners'[s][j] = IF j < i THEN listeners[s][j] ELSE listeners[s][j + 1]
  BY Shorter
<1>3. ASSUME NEW t \in Slots, NEW j \in 1..Len(listeners'[t])
      PROVE  /\ Before(t, j, s, i) \in 1..Len(listeners[t])
             /\ listeners'[t][j] = listeners[t][Before(t, j, s, i)]
             /\ t = s => Before(t, j, s, i) # i
  <2>1. CASE t # s
    BY <1>2, <2>1 DEF Before
  <2>2. CASE t = s
    <3>1. j \in 1..(Len(listeners[s]) - 1)
      BY <1>2, <2>2
    <3>2. CASE j < i
      BY <1>1, <1>2, <2>2, <3>1, <3>2 DEF Before
    <3>3. CASE ~(j < i)
      BY <1>1, <1>2, <2>2, <3>1, <3>3 DEF Before
    <3> QED BY <3>2, <3>3
  <2> QED BY <2>1, <2>2
<1>4. ASSUME NEW t \in Slots, NEW k \in 1..Len(listeners[t]), t # s \/ k # i
      PROVE  \E j \in 1..Len(listeners'[t]) : listeners'[t][j] = listeners[t][k]
  <2>1. CASE t # s
    BY <1>2, <2>1
  <2>2. CASE t = s /\ k < i
    <3>1. k \in 1..(Len(listeners[s]) - 1)
      BY <1>1, <2>2
    <3> QED BY <1>2, <2>2, <3>1
  <2>3. CASE t = s /\ k > i
    <3>1. k - 1 \in 1..(Len(listeners[s]) - 1) /\ ~(k - 1 < i) /\ (k - 1) + 1 = k
      BY <1>1, <2>3
    <3>2. listeners'[s][k - 1] = listeners[s][k]
      BY <1>2, <3>1
    <3>3. k - 1 \in 1..Len(listeners'[t]) /\ listeners'[t][k - 1] = listeners[t][k]
      BY <1>2, <2>3, <3>1, <3>2
    <3> QED BY <3>3
  <2> QED BY <1>1, <1>4, <2>1, <2>2, <2>3
<1> QED BY <1>3, <1>4

(* One entry less: its listener, and no other, has no entry any more. *)
LEMMA OneLess ==
    ASSUME TypeOK, NativesAreOwned, NEW s \in Slots, NEW i \in 1..Len(listeners[s]),
           listeners' = [listeners EXCEPT ![s] = RemoveAt(@, i)]
    PROVE  /\ \A n \in Natives : Registered(n)' <=> Registered(n) /\ n # listeners[s][i].listener
           /\ \A t, u \in Slots :
                 \A j \in 1..Len(listeners'[t]), k \in 1..Len(listeners'[u]) :
                    listeners'[t][j].listener = listeners'[u][k].listener => t = u /\ j = k
<1>1. /\ \A t \in Slots : \A j \in 1..Len(listeners'[t]) :
            /\ Before(t, j, s, i) \in 1..Len(listeners[t])
            /\ listeners'[t][j] = listeners[t][Before(t, j, s, i)]
            /\ t = s => Before(t, j, s, i) # i
      /\ \A t \in Slots : \A k \in 1..Len(listeners[t]) :
            t # s \/ k # i =>
               \E j \in 1..Len(listeners'[t]) : listeners'[t][j] = listeners[t][k]
  BY Remaining
<1>2. \A t, u \in Slots : \A j \in 1..Len(listeners[t]), k \in 1..Len(listeners[u]) :
         listeners[t][j].listener = listeners[u][k].listener => t = u /\ j = k
  BY DEF NativesAreOwned
<1>3. ASSUME NEW n \in Natives, Registered(n)'
      PROVE  Registered(n) /\ n # listeners[s][i].listener
  <2>1. PICK t \in Slots : \E j \in 1..Len(listeners'[t]) : listeners'[t][j].listener = n
    BY <1>3 DEF Registered
  <2>2. PICK j \in 1..Len(listeners'[t]) : listeners'[t][j].listener = n
    BY <2>1
  <2>3. /\ Before(t, j, s, i) \in 1..Len(listeners[t])
        /\ listeners[t][Before(t, j, s, i)].listener = n
        /\ t = s => Before(t, j, s, i) # i
    BY <1>1, <2>2
  <2> QED BY <1>2, <2>3 DEF Registered
<1>4. ASSUME NEW n \in Natives, Registered(n), n # listeners[s][i].listener
      PROVE  Registered(n)'
  <2>1. PICK t \in Slots : \E k \in 1..Len(listeners[t]) : listeners[t][k].listener = n
    BY <1>4 DEF Registered
  <2>2. PICK k \in 1..Len(listeners[t]) : listeners[t][k].listener = n
    BY <2>1
  <2>3. t # s \/ k # i
    BY <1>4, <2>2
  <2>4. PICK j \in 1..Len(listeners'[t]) : listeners'[t][j] = listeners[t][k]
    BY <1>1, <2>3
  <2> QED BY <2>2, <2>4 DEF Registered
<1>5. ASSUME NEW t \in Slots, NEW u \in Slots,
             NEW j \in 1..Len(listeners'[t]), NEW k \in 1..Len(listeners'[u]),
             listeners'[t][j].listener = listeners'[u][k].listener
      PROVE  t = u /\ j = k
  <2> DEFINE b == Before(t, j, s, i)
             c == Before(u, k, s, i)
  <2>1. b \in 1..Len(listeners[t]) /\ listeners'[t][j] = listeners[t][b]
    BY <1>1
  <2>2. c \in 1..Len(listeners[u]) /\ listeners'[u][k] = listeners[u][c]
    BY <1>1
  <2>3. (t = s => b # i) /\ (u = s => c # i)
    BY <1>1
  <2>4. t = u /\ b = c
    <3> HIDE DEF b, c
    <3> QED BY <1>2, <1>5, <2>1, <2>2
  <2>5. j \in Int /\ k \in Int
    OBVIOUS
  <2> QED BY <2>3, <2>4, <2>5 DEF Before
<1> QED BY <1>3, <1>4, <1>5

(* One entry more, for a listener that had none. *)
LEMMA OneMore ==
    ASSUME TypeOK, NativesAreOwned, NEW s \in Slots, NEW e \in Entry,
           ~Registered(e.listener),
           listeners' = [listeners EXCEPT ![s] = Append(@, e)]
    PROVE  /\ \A n \in Natives : Registered(n)' <=> Registered(n) \/ n = e.listener
           /\ \A t \in Slots : \A j \in 1..Len(listeners'[t]) :
                 \/ j \in 1..Len(listeners[t]) /\ listeners'[t][j] = listeners[t][j]
                 \/ t = s /\ listeners'[t][j] = e
           /\ \A t, u \in Slots :
                 \A j \in 1..Len(listeners'[t]), k \in 1..Len(listeners'[u]) :
                    listeners'[t][j].listener = listeners'[u][k].listener => t = u /\ j = k
<1>1. Len(listeners[s]) \in Nat
  BY Vectors
<1>2. /\ \A t \in Slots \ {s} : listeners'[t] = listeners[t]
      /\ Len(listeners'[s]) = Len(listeners[s]) + 1
      /\ \A j \in 1..Len(listeners[s]) : listeners'[s][j] = listeners[s][j]
      /\ listeners'[s][Len(listeners[s]) + 1] = e
  BY Longer
<1>3. ASSUME NEW t \in Slots, NEW j \in 1..Len(listeners'[t])
      PROVE  \/ j \in 1..Len(listeners[t]) /\ listeners'[t][j] = listeners[t][j]
             \/ t = s /\ j = Len(listeners[s]) + 1 /\ listeners'[t][j] = e
  <2>1. CASE t # s
    BY <1>2, <2>1
  <2>2. CASE t = s
    <3>1. j \in 1..Len(listeners[s]) \/ j = Len(listeners[s]) + 1
      BY <1>1, <1>2, <2>2
    <3> QED BY <1>2, <2>2, <3>1
  <2> QED BY <2>1, <2>2
<1>4. \A t \in Slots : \A j \in 1..Len(listeners[t]) :
         j \in 1..Len(listeners'[t]) /\ listeners'[t][j] = listeners[t][j]
  BY <1>1, <1>2
<1>5. Len(listeners[s]) + 1 \in 1..Len(listeners'[s])
  BY <1>1, <1>2
<1>6. ASSUME NEW n \in Natives PROVE Registered(n)' <=> Registered(n) \/ n = e.listener
  <2>1. Registered(n)' => Registered(n) \/ n = e.listener
    BY <1>3 DEF Registered
  <2>2. Registered(n) => Registered(n)'
    BY <1>4 DEF Registered
  <2>3. n = e.listener => Registered(n)'
    BY <1>2, <1>5 DEF Registered
  <2> QED BY <2>1, <2>2, <2>3
<1>7. ASSUME NEW t \in Slots, NEW u \in Slots,
             NEW j \in 1..Len(listeners'[t]), NEW k \in 1..Len(listeners'[u]),
             listeners'[t][j].listener = listeners'[u][k].listener
      PROVE  t = u /\ j = k
  <2>1. \A v \in Slots : \A l \in 1..Len(listeners[v]) : listeners[v][l].listener # e.listener
    BY DEF Registered
  <2> QED BY <1>3, <1>7, <2>1 DEF NativesAreOwned
<1> QED BY <1>3, <1>6, <1>7

(* What is registered is a native object, as is what is being called. *)
LEMMA ListenersAreNatives ==
    ASSUME TypeOK, NativesAreOwned, NEW s \in Slots, NEW i \in 1..Len(listeners[s])
    PROVE  /\ listeners[s][i].listener \in Natives
           /\ Registered(listeners[s][i].listener)
           /\ key[listeners[s][i].listener] # None
<1>1. listeners[s][i].listener \in Natives
  BY Vectors
<1>2. Registered(listeners[s][i].listener)
  BY DEF Registered
<1> QED BY <1>1, <1>2 DEF NativesAreOwned

LEMMA AddOwned ==
    ASSUME TypeOK, NativesAreOwned,
           NEW s \in Slots, NEW f \in Functions, NEW capture \in BOOLEAN,
           AddListener(s, f, capture)
    PROVE  NativesAreOwned'
<1>1. PICK n \in Natives :
         /\ key[n] = None
         /\ key' = [key EXCEPT ![n] = <<s, f>>]
         /\ listeners' = [listeners EXCEPT ![s] =
                            Append(@, [listener |-> n, capture |-> capture])]
  BY DEF AddListener, Create, AddEntry
<1> DEFINE e == [listener |-> n, capture |-> capture]
<1>2. /\ e \in Entry /\ e.listener = n
      /\ listeners' = [listeners EXCEPT ![s] = Append(@, e)]
  BY <1>1 DEF Entry
<1> HIDE DEF e
<1>3. n # running /\ ~Registered(n)
  BY <1>1 DEF NativesAreOwned
<1>4. /\ \A m \in Natives : Registered(m)' <=> Registered(m) \/ m = n
      /\ \A t \in Slots : \A j \in 1..Len(listeners'[t]) :
            \/ j \in 1..Len(listeners[t]) /\ listeners'[t][j] = listeners[t][j]
            \/ t = s /\ listeners'[t][j] = e
      /\ \A t, u \in Slots :
            \A j \in 1..Len(listeners'[t]), k \in 1..Len(listeners'[u]) :
               listeners'[t][j].listener = listeners'[u][k].listener => t = u /\ j = k
  BY <1>1, <1>2, <1>3, OneMore
<1>5. <<s, f>> # None
  BY NoneAssumption DEF Keys
<1>6. /\ key'[n] = <<s, f>>
      /\ \A m \in Natives \ {n} : key'[m] = key[m]
      /\ running' = running
  BY <1>1 DEF AddListener, TypeOK
<1>7. ASSUME NEW m \in Natives PROVE key'[m] # None <=> m = running' \/ Registered(m)'
  <2>1. key[m] # None <=> m = running \/ Registered(m)
    BY DEF NativesAreOwned
  <2>2. CASE m = n
    BY <1>4, <1>5, <1>6, <2>2
  <2>3. CASE m # n
    BY <1>4, <1>6, <2>1, <2>3
  <2> QED BY <2>2, <2>3
<1>8. ASSUME NEW t \in Slots, NEW j \in 1..Len(listeners'[t])
      PROVE  key'[listeners'[t][j].listener][1] = t
  <2>1. CASE j \in 1..Len(listeners[t]) /\ listeners'[t][j] = listeners[t][j]
    <3>1. listeners[t][j].listener \in Natives \ {n}
      BY <1>1, <2>1, ListenersAreNatives
    <3> QED BY <1>6, <2>1, <3>1 DEF NativesAreOwned
  <2>2. CASE t = s /\ listeners'[t][j] = e
    BY <1>2, <1>6, <2>2
  <2> QED BY <1>4, <2>1, <2>2
<1> QED BY <1>4, <1>7, <1>8 DEF NativesAreOwned

LEMMA RemoveOwned ==
    ASSUME TypeOK, NativesAreOwned, NEW s \in Slots, NEW i \in 1..Len(listeners[s]),
           RemoveEntry(s, i), UNCHANGED running
    PROVE  NativesAreOwned'
<1> DEFINE n == listeners[s][i].listener
<1>1. listeners' = [listeners EXCEPT ![s] = RemoveAt(@, i)]
  BY DEF RemoveEntry
<1>2. /\ \A m \in Natives : Registered(m)' <=> Registered(m) /\ m # n
      /\ \A t, u \in Slots :
            \A j \in 1..Len(listeners'[t]), k \in 1..Len(listeners'[u]) :
               listeners'[t][j].listener = listeners'[u][k].listener => t = u /\ j = k
  BY <1>1, OneLess
<1>3. \A m \in Natives : key'[m] = IF m \in {n} \ {running} THEN None ELSE key[m]
  BY DEF RemoveEntry, Destroy
<1>4. n \in Natives /\ Registered(n) /\ key[n] # None
  BY ListenersAreNatives
<1> HIDE DEF n
<1>5. ASSUME NEW m \in Natives PROVE key'[m] # None <=> m = running' \/ Registered(m)'
  <2>1. key[m] # None <=> m = running \/ Registered(m)
    BY DEF NativesAreOwned
  <2> QED BY <1>2, <1>3, <1>4, <2>1
<1>6. \A t \in Slots : \A j \in 1..Len(listeners'[t]) :
         /\ Before(t, j, s, i) \in 1..Len(listeners[t])
         /\ listeners'[t][j] = listeners[t][Before(t, j, s, i)]
         /\ t = s => Before(t, j, s, i) # i
  BY <1>1, Remaining
<1>7. ASSUME NEW t \in Slots, NEW j \in 1..Len(listeners'[t])
      PROVE  key'[listeners'[t][j].listener][1] = t
  <2> DEFINE b == Before(t, j, s, i)
  <2>1. /\ b \in 1..Len(listeners[t]) /\ listeners'[t][j] = listeners[t][b]
        /\ t = s => b # i
    BY <1>6
  <2> HIDE DEF b
  <2>2. listeners[t][b].listener \in Natives /\ key[listeners[t][b].listener][1] = t
    BY <2>1, ListenersAreNatives DEF NativesAreOwned
  <2>3. listeners[t][b].listener # n
    BY <2>1 DEF n, NativesAreOwned
  <2> QED BY <1>3, <2>1, <2>2, <2>3
<1> QED BY <1>2, <1>5, <1>7 DEF NativesAreOwned

LEMMA OwnedKept ==
    TypeOK /\ Control /\ VectorIsThere /\ NativesAreOwned /\ [Next]_vars => NativesAreOwned'
<1> SUFFICES ASSUME TypeOK, Control, VectorIsThere, NativesAreOwned, [Next]_vars
             PROVE  NativesAreOwned'
  OBVIOUS
<1>1. CASE UNCHANGED <<key, listeners, running>>
  BY <1>1 DEF NativesAreOwned, Registered
<1>2. ASSUME NEW s \in Slots, NEW f \in Functions, NEW capture \in BOOLEAN,
             RemoveListener(s, f, capture)
      PROVE  NativesAreOwned'
  <2>1. UNCHANGED running
    BY <1>2 DEF RemoveListener
  <2>2. ASSUME NEW i \in Found(s, native[<<s, f>>], capture), RemoveEntry(s, i)
        PROVE  NativesAreOwned'
    BY <2>1, <2>2, RemoveOwned DEF Found
  <2>3. CASE UNCHANGED script
    BY <1>1, <2>1, <2>3 DEF script
  <2> QED BY <1>2, <2>2, <2>3 DEF RemoveListener
<1>3. CASE NextListener
  <2> DEFINE e == listeners[Place][iterator + 1]
  <2>1. Place \in Slots /\ iterator + 1 \in 1..Len(listeners[Place])
    BY <1>3, Vectors DEF NextListener, VectorIsThere, Control, TypeOK
  <2>2. e.listener \in Natives /\ Registered(e.listener)
    BY <2>1, ListenersAreNatives
  <2> HIDE DEF e
  <2>3. /\ UNCHANGED <<key, listeners>> /\ running = None
        /\ running' = e.listener \/ running' = None
    BY <1>3 DEF NextListener, script, e
  <2>4. ASSUME NEW m \in Natives PROVE key[m] # None <=> m = running' \/ Registered(m)
    BY <2>2, <2>3, NoneAssumption DEF NativesAreOwned
  <2> QED BY <2>3, <2>4 DEF NativesAreOwned, Registered
<1>4. CASE Return
  <2>1. /\ UNCHANGED listeners /\ running' = None
        /\ \A m \in Natives :
              key'[m] = IF m = running /\ ~Registered(m) THEN None ELSE key[m]
    BY <1>4 DEF Return, Destroy
  <2>2. \A m \in Natives : Registered(m)' <=> Registered(m)
    BY <2>1 DEF Registered
  <2>3. ASSUME NEW m \in Natives PROVE key'[m] # None <=> m = running' \/ Registered(m)'
    BY <2>1, <2>2, NoneAssumption DEF NativesAreOwned
  <2>4. ASSUME NEW t \in Slots, NEW j \in 1..Len(listeners[t])
        PROVE  key'[listeners[t][j].listener] = key[listeners[t][j].listener]
    BY <2>1, ListenersAreNatives
  <2> QED BY <2>1, <2>3, <2>4 DEF NativesAreOwned
<1>5. CASE EndDispatch
  <2>1. running = None /\ running' = None
    BY <1>5 DEF EndDispatch, Control
  <2>2. CASE RemoveAllEventListeners
    <3>1. \A t \in Slots : listeners'[t] = <<>> /\ 1..Len(listeners'[t]) = {}
      BY <2>2 DEF RemoveAllEventListeners
    <3>2. \A m \in Natives : key'[m] = IF Registered(m) THEN None ELSE key[m]
      BY <2>2 DEF RemoveAllEventListeners, Destroy
    <3>3. ASSUME NEW m \in Natives PROVE key'[m] = None /\ ~Registered(m)' /\ m # None
      BY <2>1, <3>1, <3>2, NoneAssumption DEF NativesAreOwned, Registered
    <3> QED BY <2>1, <3>1, <3>3 DEF NativesAreOwned
  <2>3. CASE UNCHANGED script
    BY <1>1, <2>1, <2>3 DEF script
  <2> QED BY <1>5, <2>2, <2>3 DEF EndDispatch
<1>6. CASE Dispatch \/ PassTarget \/ EnterTarget \/ LeaveTarget \/ UNCHANGED vars
  <2>1. UNCHANGED <<key, listeners, running>>
    BY <1>6 DEF Dispatch, DispatchScriptEvent, SetReadyState, FinishedParsing,
       DispatchWindowEvent, BeginDispatch, PassTarget, EnterTarget, LeaveTarget, script, vars
  <2> QED BY <1>1, <2>1
<1> QED
  BY <1>2, <1>3, <1>4, <1>5, <1>6, AddOwned DEF Next, ScriptStep, Engine

(* The pointers of the properties. *)
LEMMA DestroyAlive ==
    ASSUME TypeOK, PropertyIsAlive, NEW S, Destroy(S) PROVE PropertyIsAlive'
<1> SUFFICES ASSUME NEW k \in Keys, native'[k] # None PROVE key'[native'[k]] = k
  BY DEF PropertyIsAlive
<1>1. native'[k] = native[k] /\ \A n \in S : key[n] # k
  BY DEF Destroy, TypeOK
<1>2. native[k] \in Natives /\ key[native[k]] = k
  BY <1>1 DEF TypeOK, PropertyIsAlive
<1> QED BY <1>1, <1>2 DEF Destroy

LEMMA PropertyKept == TypeOK /\ PropertyIsAlive /\ [Next]_vars => PropertyIsAlive'
<1> SUFFICES ASSUME TypeOK, PropertyIsAlive, [Next]_vars PROVE PropertyIsAlive'
  OBVIOUS
<1>1. CASE UNCHANGED <<key, native>>
  BY <1>1 DEF PropertyIsAlive
<1>2. ASSUME NEW s \in Slots, NEW f \in Functions, NEW capture \in BOOLEAN,
             AddListener(s, f, capture)
      PROVE  PropertyIsAlive'
  <2>1. PICK n \in Natives :
           /\ key[n] = None
           /\ key' = [key EXCEPT ![n] = <<s, f>>]
           /\ native' = [native EXCEPT ![<<s, f>>] = n]
    BY <1>2 DEF AddListener, Create, AddEntry
  <2> SUFFICES ASSUME NEW k \in Keys, native'[k] # None PROVE key'[native'[k]] = k
    BY DEF PropertyIsAlive
  <2>2. CASE k = <<s, f>>
    BY <2>1, <2>2 DEF TypeOK
  <2>3. CASE k # <<s, f>>
    <3>1. native'[k] = native[k] /\ native[k] \in Natives /\ key[native[k]] = k
      BY <2>1, <2>3 DEF TypeOK, PropertyIsAlive
    <3>2. native[k] # n
      BY <2>1, <3>1, NoneAssumption
    <3> QED BY <2>1, <3>1, <3>2 DEF TypeOK
  <2> QED BY <2>2, <2>3
<1>3. ASSUME NEW s \in Slots, NEW f \in Functions, NEW capture \in BOOLEAN,
             RemoveListener(s, f, capture)
      PROVE  PropertyIsAlive'
  <2>1. UNCHANGED script \/ \E S : Destroy(S)
    BY <1>3 DEF RemoveListener, RemoveEntry
  <2> QED BY <1>1, <2>1, DestroyAlive DEF script
<1>4. CASE Return
  BY <1>4, DestroyAlive DEF Return
<1>5. CASE EndDispatch
  <2>1. UNCHANGED script \/ \E S : Destroy(S)
    BY <1>5 DEF EndDispatch, RemoveAllEventListeners
  <2> QED BY <1>1, <2>1, DestroyAlive DEF script
<1>6. CASE Dispatch \/ PassTarget \/ EnterTarget \/ NextListener \/ LeaveTarget \/ UNCHANGED vars
  <2>1. UNCHANGED <<key, native>>
    BY <1>6 DEF Dispatch, DispatchScriptEvent, SetReadyState, FinishedParsing,
       DispatchWindowEvent, BeginDispatch, PassTarget, EnterTarget, NextListener,
       LeaveTarget, script, vars
  <2> QED BY <1>1, <2>1
<1> QED
  BY <1>2, <1>3, <1>4, <1>5, <1>6 DEF Next, ScriptStep, Engine

-----------------------------------------------------------------------------
(* The invariant. *)

LEMMA InitIInv == Init => IInv
<1> SUFFICES ASSUME Init PROVE IInv
  OBVIOUS
<1>1. TypeOK
  <2>1. <<>> \in Seq(Entry) /\ <<>> \in Seq(Visit)
    OBVIOUS
  <2>2. /\ key \in [Natives -> Keys \cup {None}]
        /\ native \in [Keys -> Natives \cup {None}]
        /\ listeners \in [Slots -> Seq(Entry)]
    BY <2>1 DEF Init
  <2>3. iterator \in Nat /\ end \in Nat /\ iterator <= end
    BY DEF Init
  <2>4. dismissed \subseteq Functions \X BOOLEAN
    BY DEF Init
  <2> QED BY <2>1, <2>2, <2>3, <2>4 DEF Init, TypeOK
<1>2. Control /\ VectorIsThere /\ PropertyIsAlive
  BY DEF Init, Control, VectorIsThere, PropertyIsAlive
<1>3. \A s \in Slots : 1..Len(listeners[s]) = {}
  BY DEF Init
<1>4. NativesAreOwned
  BY <1>3, NoneAssumption DEF Init, NativesAreOwned, Registered
<1> QED BY <1>1, <1>2, <1>4 DEF IInv

LEMMA Invariance == Spec => []IInv
<1>1. IInv /\ [Next]_vars => IInv'
  BY TypesKept, ControlKept, VectorKept, OwnedKept, PropertyKept DEF IInv
<1> QED BY <1>1, InitIInv, PTL DEF Spec

(* The variables have their types, and an iterator does not pass its end. *)
THEOREM TypeCorrect == Spec => []TypeOK
<1>1. IInv => TypeOK
  BY DEF IInv
<1> QED BY <1>1, Invariance, PTL

(* FireEventListeners never reads a vector that a listener made           *)
(* removeEventListener delete, nor past its end.                          *)
THEOREM NoDeletedVectorIsRead == Spec => []VectorIsThere
<1>1. IInv => VectorIsThere
  BY DEF IInv
<1> QED BY <1>1, Invariance, PTL

(* A DukEventListener is there while it is registered or called, and no   *)
(* longer, it has one entry at most, and the pointer DukEventListener::From*)
(* takes from a hidden property is that of one with this key.             *)
THEOREM NativesAreSoundAlways == Spec => []NativesAreSound
<1>1. IInv => NativesAreSound
  BY DEF IInv, NativesAreSound
<1> QED BY <1>1, Invariance, PTL

-----------------------------------------------------------------------------
(* The refinement of ListenerList. *)

(* x is an entry the iterator has yet to come to, of the right phase. *)
Pending(x) ==
    \E j \in (iterator + 1)..end : listeners[Place][j] = x /\ ShouldFire(x)

LEMMA DueIsPending ==
    /\ pc = "listeners" => Calling = Place /\ \A x : x \in Due <=> Pending(x)
    /\ pc # "listeners" => Calling = None /\ Due = {}
    /\ pc' = "listeners" => Calling' = Place' /\ \A x : x \in Due' <=> Pending(x)'
    /\ pc' # "listeners" => Calling' = None /\ Due' = {}
<1>1. pc = "listeners" => \A x : x \in Due <=> Pending(x)
  BY DEF Due, Pending
<1>2. pc' = "listeners" => \A x : x \in Due' <=> Pending(x)'
  BY DEF Due, Pending
<1>3. (pc # "listeners" => Due = {}) /\ (pc' # "listeners" => Due' = {})
  BY DEF Due
<1> QED BY <1>1, <1>2, <1>3 DEF Calling

(* Nothing changes for a walk that stays where it is in the same vector. *)
LEMMA SameDue ==
    ASSUME UNCHANGED walk, UNCHANGED <<iterator, end>>,
           pc = "listeners" => \A j \in (iterator + 1)..end :
                                  listeners'[Place][j] = listeners[Place][j]
    PROVE  UNCHANGED <<Calling, Due>>
<1>1. /\ pc' = pc /\ stops' = stops /\ Place' = Place
      /\ \A x : ShouldFire(x)' <=> ShouldFire(x)
  BY DEF walk, Place, ShouldFire
<1>2. CASE pc = "listeners"
  <2>1. ASSUME NEW x PROVE Pending(x)' <=> Pending(x)
    BY <1>1, <1>2 DEF Pending
  <2>2. \A x : x \in Due' <=> x \in Due
    BY <1>1, <1>2, <2>1, DueIsPending
  <2> QED BY <1>1, <1>2, <2>2, DueIsPending
<1>3. CASE pc # "listeners"
  BY <1>1, <1>3, DueIsPending
<1> QED BY <1>2, <1>3

(* The indices the iterator has yet to come to are indices of the vector. *)
LEMMA PendingIndices ==
    ASSUME TypeOK, Control, VectorIsThere, pc = "listeners", NEW j \in (iterator + 1)..end
    PROVE  Place \in Slots /\ j \in 1..Len(listeners[Place])
<1>1. Place \in Slots /\ Len(listeners[Place]) \in Nat
  BY Vectors DEF Control
<1>2. iterator \in Nat /\ end \in Nat /\ iterator < end
  BY DEF TypeOK
<1> QED BY <1>1, <1>2 DEF VectorIsThere

LEMMA RemoveDue ==
    ASSUME TypeOK, Control, VectorIsThere, VectorIsThere', NativesAreOwned,
           NEW s \in Slots, NEW i \in 1..Len(listeners[s]),
           RemoveEntry(s, i), UNCHANGED walk
    PROVE  /\ UNCHANGED Calling
           /\ Due' = IF s = Calling THEN Due \ {listeners[s][i]} ELSE Due
<1>1. /\ \A t \in Slots \ {s} : listeners'[t] = listeners[t]
      /\ Len(listeners'[s]) = Len(listeners[s]) - 1
      /\ \A j \in 1..(Len(listeners[s]) - 1) :
            listeners'[s][j] = IF j < i THEN listeners[s][j] ELSE listeners[s][j + 1]
  BY Shorter DEF RemoveEntry
<1>2. /\ pc' = pc /\ stops' = stops /\ Place' = Place
      /\ \A x : ShouldFire(x)' <=> ShouldFire(x)
  BY DEF walk, Place, ShouldFire
<1>3. CASE At(s)
  <2>1. pc = "listeners" /\ s = Place
    BY <1>3 DEF At
  <2>2. /\ iterator \in Nat /\ end \in Nat /\ i \in Nat /\ i >= 1
        /\ Len(listeners[s]) \in Nat
        /\ i <= Len(listeners[s])
    BY Vectors DEF TypeOK
  <2>3. /\ end' = IF i <= end THEN end - 1 ELSE end
        /\ iterator' = IF i <= end /\ i <= iterator THEN iterator - 1 ELSE iterator
    BY <1>3 DEF RemoveEntry, AdjustIterator
  <2>4. iterator <= end
    BY DEF TypeOK
  <2>5. ASSUME NEW x, Pending(x)' PROVE Pending(x) /\ x # listeners[s][i]
    <3>1. PICK j \in (iterator' + 1)..end' : listeners'[s][j] = x /\ ShouldFire(x)
      BY <1>2, <2>1, <2>5 DEF Pending
    <3>2. j \in 1..(Len(listeners[s]) - 1)
      <4>1. iterator' \in Int /\ iterator' >= 0 /\ end' \in Int /\ iterator' < end'
        BY <2>2, <2>3
      <4>2. end' <= Len(listeners'[s])
        BY <1>2, <2>1, <4>1 DEF VectorIsThere
      <4>3. j \in Int /\ j >= 1 /\ j <= end'
        BY <2>2, <2>3, <2>4
      <4>4. end' <= Len(listeners[s]) - 1
        BY <1>1, <4>2
      <4> QED BY ONLY <2>2, <4>1, <4>3, <4>4
    <3>3. CASE j < i
      <4>1. listeners[s][j] = x
        BY <1>1, <3>1, <3>2, <3>3
      <4>2. j \in (iterator + 1)..end
        BY <2>2, <2>3, <2>4, <3>2, <3>3
      <4>3. j \in 1..Len(listeners[s]) /\ j # i
        BY <2>2, <3>2, <3>3
      <4> QED BY <2>1, <3>1, <4>1, <4>2, <4>3 DEF Pending, NativesAreOwned
    <3>4. CASE ~(j < i)
      <4>1. listeners[s][j + 1] = x
        BY <1>1, <3>1, <3>2, <3>4
      <4>2. j + 1 \in (iterator + 1)..end
        BY <2>2, <2>3, <2>4, <3>2, <3>4
      <4>3. j + 1 \in 1..Len(listeners[s]) /\ j + 1 # i
        BY <2>2, <3>2, <3>4
      <4> QED BY <2>1, <3>1, <4>1, <4>2, <4>3 DEF Pending, NativesAreOwned
    <3> QED BY <3>3, <3>4
  <2>6. ASSUME NEW x, Pending(x), x # listeners[s][i] PROVE Pending(x)'
    <3>1. PICK j \in (iterator + 1)..end : listeners[s][j] = x /\ ShouldFire(x)
      BY <2>1, <2>6 DEF Pending
    <3>2. j \in 1..Len(listeners[s]) /\ j # i
      BY <2>1, <2>6, <3>1, PendingIndices
    <3>3. CASE j < i
      <4>1. j \in 1..(Len(listeners[s]) - 1) /\ listeners'[s][j] = x
        BY <1>1, <2>2, <3>1, <3>2, <3>3
      <4>2. j \in (iterator' + 1)..end'
        BY <2>2, <2>3, <2>4, <3>2, <3>3
      <4> QED BY <1>2, <2>1, <3>1, <4>1, <4>2 DEF Pending
    <3>4. CASE j > i
      <4>1. /\ j - 1 \in 1..(Len(listeners[s]) - 1)
            /\ ~(j - 1 < i) /\ (j - 1) + 1 = j
        BY <2>2, <3>2, <3>4
      <4>2. listeners'[s][j - 1] = x
        BY <1>1, <3>1, <4>1
      <4>3. j - 1 \in (iterator' + 1)..end'
        BY <2>2, <2>3, <2>4, <3>2, <3>4
      <4> QED BY <1>2, <2>1, <3>1, <4>2, <4>3 DEF Pending
    <3> QED BY <2>2, <3>2, <3>3, <3>4
  <2>7. \A x : x \in Due' <=> x \in Due \ {listeners[s][i]}
    BY <1>2, <2>1, <2>5, <2>6, DueIsPending
  <2> QED BY <1>2, <2>1, <2>7, DueIsPending
<1>4. CASE ~At(s)
  <2>1. UNCHANGED <<iterator, end>>
    BY <1>4 DEF RemoveEntry, AdjustIterator
  <2>2. pc = "listeners" => Place \in Slots /\ s # Place
    BY <1>4 DEF At, Control
  <2>3. s # Calling
    BY <2>2, NoneAssumption, SlotsAssumption DEF Calling
  <2> QED BY <1>1, <2>1, <2>2, <2>3, SameDue
<1> QED BY <1>3, <1>4

LEMMA AddRefines ==
    ASSUME IInv, NEW s \in Slots, NEW f \in Functions, NEW capture \in BOOLEAN,
           AddListener(s, f, capture)
    PROVE  Abstract!Next
<1>1. PICK n \in Natives :
         /\ key[n] = None
         /\ listeners' = [listeners EXCEPT ![s] =
                            Append(@, [listener |-> n, capture |-> capture])]
  BY DEF AddListener, Create, AddEntry
<1> DEFINE e == [listener |-> n, capture |-> capture]
<1>2. /\ e \in Entry /\ e.listener = n
      /\ listeners' = [listeners EXCEPT ![s] = Append(@, e)]
  BY <1>1 DEF Entry
<1> HIDE DEF e
<1>3. n # running /\ ~Registered(n)
  BY <1>1 DEF IInv, NativesAreOwned
<1>4. UNCHANGED walk /\ UNCHANGED <<iterator, end, running>>
  BY DEF AddListener, walk
<1>5. ASSUME pc = "listeners", NEW j \in (iterator + 1)..end
      PROVE  listeners'[Place][j] = listeners[Place][j]
  <2>1. Place \in Slots /\ j \in 1..Len(listeners[Place])
    BY <1>5, PendingIndices DEF IInv
  <2> QED BY <1>2, <2>1, Longer DEF IInv
<1>6. UNCHANGED <<Calling, Due>>
  BY <1>4, <1>5, SameDue
<1>7. \A t \in Slots : \A j \in 1..Len(listeners[t]) : listeners[t][j].listener # n
  BY <1>3 DEF Registered
<1>8. Abstract!Register(s, e)
  BY <1>2, <1>3, <1>4, <1>6, <1>7 DEF Abstract!Register
<1>9. e \in Abstract!Entry
  BY <1>2 DEF Entry, Abstract!Entry
<1> QED BY <1>8, <1>9 DEF Abstract!Next

LEMMA RemoveRefines ==
    ASSUME IInv, IInv', NEW s \in Slots, NEW f \in Functions, NEW capture \in BOOLEAN,
           RemoveListener(s, f, capture)
    PROVE  Abstract!Next \/ UNCHANGED Abstract!vars
<1>1. UNCHANGED walk /\ UNCHANGED running
  BY DEF RemoveListener
<1>2. ASSUME NEW i \in Found(s, native[<<s, f>>], capture), RemoveEntry(s, i)
      PROVE  Abstract!Next
  <2>1. i \in 1..Len(listeners[s])
    BY DEF Found
  <2>2. /\ UNCHANGED Calling
        /\ Due' = IF s = Calling THEN Due \ {listeners[s][i]} ELSE Due
    BY <1>1, <1>2, <2>1, RemoveDue DEF IInv
  <2>3. Abstract!Unregister(s, i)
    BY <1>1, <1>2, <2>2 DEF Abstract!Unregister, Abstract!RemoveAt, RemoveAt, RemoveEntry
  <2> QED BY <2>1, <2>3 DEF Abstract!Next
<1>3. ASSUME UNCHANGED <<script, iterator, end, freed>>
      PROVE  UNCHANGED Abstract!vars
  <2>1. UNCHANGED <<listeners, iterator, end>>
    BY <1>3 DEF script
  <2> QED BY <1>1, <2>1, SameDue DEF Abstract!vars
<1> QED BY <1>2, <1>3 DEF RemoveListener

LEMMA EnterRefines ==
    ASSUME IInv, EnterTarget PROVE Abstract!Next
<1> DEFINE phase == Head(stops).phase
<1>1. /\ pc = "between" /\ pc' = "listeners" /\ stops # <<>>
      /\ Place' = Place /\ Place \in Slots
      /\ iterator' = 0 /\ end' = Len(listeners[Place])
      /\ UNCHANGED <<listeners, stops, running>>
  BY DEF EnterTarget, HasListeners, Place, script
<1>2. phase \in {"capturing", "target", "bubbling"}
  <2>1. stops \in Seq(Visit) /\ Head(stops) \in Visit
    BY <1>1, HeadTailProperties DEF IInv, TypeOK
  <2> QED BY <2>1 DEF Visit
<1>3. running = None /\ Calling = None /\ Calling' = Place
  BY <1>1, DueIsPending DEF IInv, Control
<1>4. \A x : ShouldFire(x)' <=> Abstract!Matches(x, phase)
  BY <1>1, <1>2 DEF ShouldFire, Abstract!Matches
<1> HIDE DEF phase
<1>5. \A x : x \in Due' <=> \E j \in 1..Len(listeners[Place]) :
                               listeners[Place][j] = x /\ Abstract!Matches(x, phase)
  BY <1>1, <1>4, DueIsPending DEF Pending
<1>6. Due' = {listeners[Place][j] : j \in {k \in 1..Len(listeners[Place]) :
                                             Abstract!Matches(listeners[Place][k], phase)}}
  BY <1>5
<1>7. Abstract!Begin(Place, phase)
  BY <1>1, <1>3, <1>6 DEF Abstract!Begin
<1> QED BY <1>1, <1>2, <1>7 DEF Abstract!Next

LEMMA NextListenerRefines ==
    ASSUME IInv, NextListener PROVE Abstract!Next \/ UNCHANGED Abstract!vars
<1> DEFINE i == iterator + 1
           e == listeners[Place][i]
<1>1. /\ pc = "listeners" /\ running = None /\ iterator < end
      /\ iterator' = i
      /\ running' = IF ShouldFire(e) THEN e.listener ELSE None
      /\ UNCHANGED <<pc, stops, listeners, end>> /\ Place' = Place
  BY DEF NextListener, script, walk, Place
<1>2. iterator \in Nat /\ end \in Nat /\ i \in (iterator + 1)..end
  BY <1>1 DEF IInv, TypeOK
<1>3. Place \in Slots /\ i \in 1..Len(listeners[Place])
  BY <1>1, <1>2, PendingIndices DEF IInv
<1>4. UNCHANGED Calling /\ Calling = Place
  BY <1>1, DueIsPending
<1>5. \A x : ShouldFire(x)' <=> ShouldFire(x)
  BY <1>1 DEF ShouldFire
<1>6. \A j, k \in 1..Len(listeners[Place]) : listeners[Place][j] = listeners[Place][k] => j = k
  BY <1>3 DEF IInv, NativesAreOwned
<1>7. \A j \in (iterator + 1)..end : j \in 1..Len(listeners[Place])
  BY <1>1, PendingIndices DEF IInv
<1>8. \A x : Pending(x)' <=> \E j \in (i + 1)..end : listeners[Place][j] = x /\ ShouldFire(x)
  BY <1>1, <1>5 DEF Pending
<1>9. ASSUME NEW x PROVE x \in Due' <=> x \in Due \ {e}
  <2>1. Pending(x)' => Pending(x) /\ x # e
    <3> SUFFICES ASSUME NEW j \in (i + 1)..end, listeners[Place][j] = x, ShouldFire(x)
                 PROVE  Pending(x) /\ x # e
      BY <1>8
    <3>1. j \in (iterator + 1)..end /\ j # i
      BY <1>2
    <3> QED BY <1>3, <1>6, <1>7, <3>1 DEF Pending
  <2>2. Pending(x) /\ x # e => Pending(x)'
    <3> SUFFICES ASSUME NEW j \in (iterator + 1)..end, listeners[Place][j] = x,
                        ShouldFire(x), x # e
                 PROVE  \E k \in (i + 1)..end : listeners[Place][k] = x /\ ShouldFire(x)
      BY <1>8 DEF Pending
    <3>1. j # i
      OBVIOUS
    <3>2. j \in (i + 1)..end
      BY <1>2, <3>1
    <3> QED BY <3>2
  <2> QED BY <1>1, <2>1, <2>2, DueIsPending
<1>10. Due' = Due \ {e}
  BY <1>9
<1>11. CASE ShouldFire(e)
  <2>1. e \in Due
    BY <1>1, <1>2, <1>11, DueIsPending DEF Pending
  <2>2. ASSUME NEW j \in 1..(i - 1) PROVE listeners[Place][j] \notin Due
    <3> SUFFICES ASSUME NEW k \in (iterator + 1)..end, listeners[Place][k] = listeners[Place][j]
                 PROVE  FALSE
      BY <1>1, DueIsPending DEF Pending
    <3>1. j \in 1..Len(listeners[Place]) /\ j # k
      BY <1>2, <1>3
    <3> QED BY <1>6, <1>7, <3>1
  <2>3. Abstract!Call(Place, i)
    <3> HIDE DEF i
    <3> QED BY <1>1, <1>4, <1>10, <1>11, <2>1, <2>2 DEF Abstract!Call
  <2> QED BY <1>3, <2>3 DEF Abstract!Next
<1>12. CASE ~ShouldFire(e)
  <2>1. e \notin Due
    BY <1>1, <1>12, DueIsPending DEF Pending
  <2>2. Due' = Due
    BY <1>10, <2>1
  <2> QED BY <1>1, <1>4, <1>12, <2>2 DEF Abstract!vars
<1> QED BY <1>11, <1>12

LEMMA StepRefines == IInv /\ IInv' /\ [Next]_vars => [Abstract!Next]_(Abstract!vars)
<1> SUFFICES ASSUME IInv, IInv', [Next]_vars
             PROVE  Abstract!Next \/ UNCHANGED Abstract!vars
  OBVIOUS
<1>1. CASE Dispatch \/ PassTarget
  <2>1. pc # "listeners" /\ pc' # "listeners" /\ UNCHANGED <<listeners, running>>
    BY <1>1 DEF Dispatch, DispatchScriptEvent, SetReadyState, FinishedParsing,
       DispatchWindowEvent, BeginDispatch, PassTarget, script
  <2> QED BY <2>1, DueIsPending DEF Abstract!vars
<1>2. CASE Return
  <2>1. /\ UNCHANGED walk /\ UNCHANGED <<iterator, end, listeners>>
        /\ running # None /\ running' = None
    BY <1>2 DEF Return
  <2>2. UNCHANGED <<Calling, Due>>
    BY <2>1, SameDue
  <2> QED BY <2>1, <2>2 DEF Abstract!Return, Abstract!Next
<1>3. CASE LeaveTarget
  <2>1. /\ pc = "listeners" /\ pc' = "between" /\ running = None /\ iterator >= end
        /\ UNCHANGED <<listeners, running>>
    BY <1>3 DEF LeaveTarget, script
  <2>2. (iterator + 1)..end = {}
    BY <2>1 DEF IInv, TypeOK
  <2>3. Due = {} /\ Due' = {} /\ Calling' = None
    BY <2>1, <2>2, DueIsPending DEF Pending
  <2>4. Calling # None
    BY <2>1, DueIsPending, NoneAssumption, SlotsAssumption DEF IInv, Control
  <2> QED BY <2>1, <2>3, <2>4 DEF Abstract!End, Abstract!Next
<1>4. CASE EndDispatch
  <2>1. pc # "listeners" /\ pc' # "listeners" /\ UNCHANGED running
    BY <1>4 DEF EndDispatch
  <2>2. Calling = None /\ Calling' = None /\ Due = {} /\ Due' = {}
    BY <2>1, DueIsPending
  <2>3. CASE UNCHANGED script
    BY <2>1, <2>2, <2>3 DEF script, Abstract!vars
  <2>4. CASE RemoveAllEventListeners
    <3>1. Abstract!UnregisterAll
      BY <2>1, <2>2, <2>4 DEF RemoveAllEventListeners, Abstract!UnregisterAll
    <3> QED BY <3>1 DEF Abstract!Next
  <2> QED BY <1>4, <2>3, <2>4 DEF EndDispatch
<1>5. CASE UNCHANGED vars
  <2>1. UNCHANGED walk /\ UNCHANGED <<iterator, end, listeners, running>>
    BY <1>5 DEF vars, walk
  <2> QED BY <2>1, SameDue DEF Abstract!vars
<1> QED
  BY <1>1, <1>2, <1>3, <1>4, <1>5, AddRefines, RemoveRefines, EnterRefines,
     NextListenerRefines
  DEF Next, ScriptStep, Engine

(* The walk of FireEventListeners over a vector that changes under it      *)
(* calls the listeners that ListenerList calls, in the same order.         *)
THEOREM DispatchCallsTheListeners == Spec => Implements
<1>1. Init => Abstract!Init
  BY DueIsPending DEF Init, Abstract!Init
<1> QED BY <1>1, StepRefines, Invariance, PTL DEF Spec, Implements, Abstract!Spec

-----------------------------------------------------------------------------
(* Why a dispatch ends. *)

(* What is left to do in the vector: entries, and the call on the stack. *)
Left == 2 * (end - iterator) + (IF running # None THEN 1 ELSE 0)

(* A step towards the end: a target less, a vector entered, a call less. *)
Nearer ==
    \/ pc' = "none"
    \/ Len(stops') < Len(stops)
    \/ stops' = stops /\ pc = "between" /\ pc' = "listeners"
    \/ UNCHANGED <<stops, pc>> /\ Left' < Left

(* A step of script: it may do some of the work, and makes no more of it. *)
NotFarther == ScriptStep /\ UNCHANGED <<stops, pc>> /\ Left' <= Left

Advances == pc # "none" => Nearer \/ NotFarther

LEMMA LeftIsNatural == TypeOK => Left \in Nat
BY DEF TypeOK, Left

LEMMA TwiceMonotonic ==
    ASSUME NEW a \in Int, NEW b \in Int, NEW c \in Int, NEW d \in Int,
           NEW e \in {0, 1}, a - b <= c - d
    PROVE  2 * (a - b) + e <= 2 * (c - d) + e
OBVIOUS

LEMMA StepAdvances == IInv /\ Next => Advances
<1> SUFFICES ASSUME IInv, Next, pc # "none" PROVE Nearer \/ NotFarther
  BY DEF Advances
<1> USE DEF IInv
<1>1. ASSUME NEW s \in Slots, NEW f \in Functions, NEW capture \in BOOLEAN,
             AddListener(s, f, capture)
      PROVE  NotFarther
  <2>1. UNCHANGED <<stops, pc, iterator, end, running>>
    BY <1>1 DEF AddListener, walk
  <2>2. Left' = Left BY <2>1 DEF Left
  <2> QED BY <1>1, <2>1, <2>2, LeftIsNatural DEF NotFarther, ScriptStep
<1>2. ASSUME NEW s \in Slots, NEW f \in Functions, NEW capture \in BOOLEAN,
             RemoveListener(s, f, capture)
      PROVE  NotFarther
  <2>1. UNCHANGED <<stops, pc, running>>
    BY <1>2 DEF RemoveListener, walk
  <2>2. CASE UNCHANGED <<iterator, end>>
    <3>1. Left' = Left BY <2>1, <2>2 DEF Left
    <3> QED BY <1>2, <2>1, <3>1, LeftIsNatural DEF NotFarther, ScriptStep
  <2>3. ASSUME NEW i \in 1..Len(listeners[s]), AdjustIterator(s, i)
        PROVE  NotFarther
    <3> DEFINE busy == IF running # None THEN 1 ELSE 0
    <3>1. end' - iterator' <= end - iterator
      BY <2>3 DEF AdjustIterator, TypeOK
    <3>2. end' \in Int /\ iterator' \in Int /\ end \in Int /\ iterator \in Int
      BY <2>3 DEF AdjustIterator, TypeOK
    <3>3. 2 * (end' - iterator') + busy <= 2 * (end - iterator) + busy
      BY <3>1, <3>2, TwiceMonotonic
    <3>4. Left' <= Left BY <2>1, <3>3 DEF Left
    <3> QED BY <1>2, <2>1, <3>4 DEF NotFarther, ScriptStep
  <2>4. \/ UNCHANGED <<iterator, end>>
        \/ \E i \in 1..Len(listeners[s]) : AdjustIterator(s, i)
    BY <1>2 DEF RemoveListener, RemoveEntry, Found
  <2> QED BY <2>2, <2>3, <2>4
<1>3. ~Dispatch
  BY DEF Dispatch, DispatchScriptEvent, SetReadyState, FinishedParsing,
         DispatchWindowEvent, BeginDispatch
<1>4. CASE PassTarget
  BY <1>4, HeadTailProperties, LenProperties DEF PassTarget, Nearer, TypeOK
<1>5. CASE EnterTarget
  BY <1>5 DEF EnterTarget, Nearer
<1>6. CASE NextListener
  <2>1. /\ UNCHANGED <<stops, pc, end>> /\ iterator' = iterator + 1
        /\ running = None
    BY <1>6 DEF NextListener, walk
  <2>2. Left' < Left BY <2>1 DEF Left, TypeOK
  <2> QED BY <2>1, <2>2 DEF Nearer
<1>7. CASE Return
  <2>1. /\ UNCHANGED <<stops, pc, end, iterator>>
        /\ running # None /\ running' = None
    BY <1>7 DEF Return, walk
  <2>2. Left' < Left BY <2>1 DEF Left, TypeOK
  <2> QED BY <2>1, <2>2 DEF Nearer
<1>8. CASE LeaveTarget
  BY <1>8, HeadTailProperties, LenProperties DEF LeaveTarget, Nearer, Control, TypeOK
<1>9. CASE EndDispatch BY <1>9 DEF EndDispatch, Nearer
<1> QED
  BY <1>1, <1>2, <1>3, <1>4, <1>5, <1>6, <1>7, <1>8, <1>9
  DEF Next, ScriptStep, Engine

(***************************************************************************)
(* The safety half of DispatchEnds, for all targets and listeners: while   *)
(* an event is dispatched every step of the engine brings its end nearer   *)
(* in the order of targets, vectors and calls, and no listener, whatever   *)
(* it adds or removes, puts it off: the size of the vector is taken before *)
(* the loop (event_target.cpp:189).                                        *)
(***************************************************************************)
THEOREM DispatchesAdvance == Spec => [][Advances]_vars
<1>1. IInv /\ [Next]_vars => [Advances]_vars BY StepAdvances
<1> QED BY <1>1, Invariance, PTL DEF Spec

=============================================================================
