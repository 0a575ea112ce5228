--------------------------- MODULE PageLoadProofs ----------------------------
(***************************************************************************)
(* What PageLoad guarantees for any finite number of script elements,      *)
(* proved with TLAPS: the type invariant, that the load-event delay count  *)
(* is exact, that the posted closures match what is waiting for them, and  *)
(* that the code's assertions hold.                                        *)
(***************************************************************************)
EXTENDS PageLoad, SequenceTheorems, FiniteSetTheorems, TLAPS

-----------------------------------------------------------------------------
(* Sequences. *)

Places(q, t) == {i \in DOMAIN q : q[i] = t}

(* A sequence has finitely many places. *)
LEMMA PlacesFinite ==
    ASSUME NEW S, NEW q \in Seq(S), NEW t
    PROVE  IsFiniteSet(Places(q, t)) /\ Cardinality(Places(q, t)) \in Nat
<1>1. IsFiniteSet(1..Len(q)) BY FS_Interval, LenProperties
<1>2. Places(q, t) \subseteq 1..Len(q) BY LenProperties DEF Places
<1> QED BY <1>1, <1>2, FS_Subset, FS_CardinalityType

(* Posting a closure adds one to those like it and none to the others. *)
LEMMA PlacesAppend ==
    ASSUME NEW S, NEW q \in Seq(S), NEW x \in S, NEW t
    PROVE  Cardinality(Places(Append(q, x), t)) =
           Cardinality(Places(q, t)) + (IF x = t THEN 1 ELSE 0)
<1>1. /\ Append(q, x) \in Seq(S) /\ Len(Append(q, x)) = Len(q) + 1
      /\ \A i \in 1..Len(q) : Append(q, x)[i] = q[i]
      /\ Append(q, x)[Len(q) + 1] = x
  BY AppendProperties
<1>2. DOMAIN q = 1..Len(q) /\ DOMAIN Append(q, x) = 1..(Len(q) + 1) /\ Len(q) \in Nat
  BY <1>1, LenProperties
<1>3. CASE x = t
  <2>1. Places(Append(q, x), t) = Places(q, t) \cup {Len(q) + 1}
    BY <1>1, <1>2, <1>3 DEF Places
  <2>2. Len(q) + 1 \notin Places(q, t) BY <1>2 DEF Places
  <2> QED BY <2>1, <2>2, <1>3, PlacesFinite, FS_AddElement
<1>4. CASE x # t
  <2>1. Places(Append(q, x), t) = Places(q, t)
    BY <1>1, <1>2, <1>4 DEF Places
  <2> QED BY <2>1, <1>4, PlacesFinite
<1> QED BY <1>3, <1>4

(* Taking the first closure removes one of its kind and none of the others. *)
LEMMA PlacesTail ==
    ASSUME NEW S, NEW q \in Seq(S), q # <<>>, NEW t
    PROVE  Cardinality(Places(Tail(q), t)) =
           Cardinality(Places(q, t)) - (IF Head(q) = t THEN 1 ELSE 0)
<1>1. /\ Tail(q) \in Seq(S) /\ Len(Tail(q)) = Len(q) - 1 /\ Head(q) = q[1]
      /\ \A i \in 1..Len(Tail(q)) : Tail(q)[i] = q[i + 1]
      /\ Len(q) \in Nat /\ Len(q) >= 1
  BY HeadTailProperties, LenProperties, EmptySeq
<1>2. DOMAIN q = 1..Len(q) /\ DOMAIN Tail(q) = 1..(Len(q) - 1)
  BY <1>1, LenProperties
<1> DEFINE Later == Places(q, t) \ {1}
           f == [i \in Places(Tail(q), t) |-> i + 1]
<1>3. f \in Bijection(Places(Tail(q), t), Later)
  <2>1. f \in [Places(Tail(q), t) -> Later]
    BY <1>1, <1>2 DEF Places
  <2>2. \A i, j \in Places(Tail(q), t) : f[i] = f[j] => i = j
    BY <1>1, <1>2 DEF Places
  <2>3. \A j \in Later : \E i \in Places(Tail(q), t) : f[i] = j
    <3> TAKE j \in Later
    <3>1. j - 1 \in Places(Tail(q), t) BY <1>1, <1>2 DEF Places
    <3> QED BY <3>1, <1>2 DEF Places
  <2> QED BY <2>1, <2>2, <2>3 DEF Bijection, Injection, Surjection, IsInjective
<1>4. /\ IsFiniteSet(Places(q, t)) /\ Cardinality(Places(q, t)) \in Nat
      /\ IsFiniteSet(Places(Tail(q), t))
  BY <1>1, PlacesFinite
<1>5. Cardinality(Places(Tail(q), t)) = Cardinality(Later)
  <2>1. ExistsBijection(Places(Tail(q), t), Later)
    BY <1>3 DEF ExistsBijection
  <2> HIDE DEF Later, f
  <2> QED BY <2>1, <1>4, FS_Bijection
<1>6. 1 \in Places(q, t) <=> Head(q) = t
  BY <1>1, <1>2 DEF Places
<1>7. Cardinality(Later) = Cardinality(Places(q, t)) - (IF 1 \in Places(q, t) THEN 1 ELSE 0)
  <2>1. Cardinality(Later) = IF 1 \in Places(q, t) THEN Cardinality(Places(q, t)) - 1
                                                  ELSE Cardinality(Places(q, t))
    BY <1>4, FS_RemoveElement
  <2> HIDE DEF Later
  <2> QED BY <1>4, <2>1
<1> HIDE DEF Later, f
<1> QED BY <1>5, <1>6, <1>7

(* One or two closures of a kind. *)
LEMMA PostOneOrTwo ==
    ASSUME NEW S, NEW q \in Seq(S), NEW x \in S, NEW n \in {1, 2}
    PROVE  q \o [i \in 1..n |-> x] =
           IF n = 1 THEN Append(q, x) ELSE Append(Append(q, x), x)
<1> DEFINE r == [i \in 1..n |-> x]
<1>1. r \in Seq(S) /\ Len(r) = n /\ \A i \in 1..n : r[i] = x
  <2>1. n \in Nat OBVIOUS
  <2>2. r \in [1..n -> S] OBVIOUS
  <2> QED BY <2>1, <2>2, SeqDef, LenProperties
<1> HIDE DEF r
<1>2. q \o r \in Seq(S) /\ Len(q \o r) = Len(q) + n /\ Len(q) \in Nat
      /\ \A i \in 1..(Len(q) + n) : (q \o r)[i] = IF i <= Len(q) THEN q[i] ELSE x
  BY <1>1, ConcatProperties, LenProperties
<1>3. CASE n = 1
  <2>1. Append(q, x) \in Seq(S) /\ Len(Append(q, x)) = Len(q) + 1
        /\ \A i \in 1..(Len(q) + 1) : Append(q, x)[i] = IF i <= Len(q) THEN q[i] ELSE x
    BY <1>2, AppendProperties
  <2> QED BY <1>2, <1>3, <2>1, SeqEqual DEF r
<1>4. CASE n = 2
  <2> DEFINE a == Append(q, x)
             b == Append(a, x)
  <2>1. a \in Seq(S) /\ Len(a) = Len(q) + 1
        /\ \A i \in 1..(Len(q) + 1) : a[i] = IF i <= Len(q) THEN q[i] ELSE x
    BY <1>2, AppendProperties
  <2>2. b \in Seq(S) /\ Len(b) = Len(q) + 2
        /\ \A i \in 1..(Len(q) + 2) : b[i] = IF i <= Len(q) THEN q[i] ELSE x
    <3> HIDE DEF a
    <3> QED BY <1>2, <2>1, AppendProperties
  <2> HIDE DEF a, b
  <2>3. q \o r = b BY <1>2, <1>4, <2>2, SeqEqual
  <2> QED BY <2>3, <1>4 DEF r, a, b
<1> QED BY <1>3, <1>4

-----------------------------------------------------------------------------
(* The inductive invariant. *)

(* The scripts that are ready are queued, each once. *)
RunnerInOrder ==
    /\ \A i \in 1..Len(soon) : script[soon[i]] = "soon"
    /\ \A i, j \in 1..Len(soon) : soon[i] = soon[j] => i = j

(* Only a script that was asked for is streamed or blocks the parser. *)
Known ==
    /\ \A s \in streamed : script[s] # "new"
    /\ blocking # None => script[blocking] = "blocking"

(* The decrement is the outermost call. *)
Outermost(st) == \A i \in 1..Len(st) : st[i] = "decrement" => i = Len(st)
Decrements(st) == \E i \in 1..Len(st) : st[i] = "decrement"

(* An asynchronous script is running exactly while a decrement is due. *)
OneRuns ==
    /\ Outermost(stack)
    /\ \A r, s \in InState({"running"}) : r = s
    /\ InState({"running"}) # {} <=> Decrements(stack)

IInv ==
    /\ TypeOK
    /\ DelayCountExact
    /\ ClosuresMatch
    /\ RunnerInOrder
    /\ Known
    /\ OneRuns

-----------------------------------------------------------------------------
(* Counting scripts. *)

(* The sets of scripts are finite. *)
LEMMA InStateFinite ==
    ASSUME NEW W
    PROVE  IsFiniteSet(InState(W)) /\ Cardinality(InState(W)) \in Nat
<1>1. InState(W) \subseteq Scripts BY DEF InState
<1> QED BY <1>1, NamesAssumption, FS_Subset, FS_CardinalityType

(* One script changes its state: who counts it before, who after. *)
LEMMA CountAfter ==
    ASSUME TypeOK, NEW s \in Scripts, NEW v, NEW W,
           script' = [script EXCEPT ![s] = v]
    PROVE  Cardinality(InState(W)') =
           Cardinality(InState(W)) + (IF v \in W THEN 1 ELSE 0)
                                   - (IF script[s] \in W THEN 1 ELSE 0)
<1>1. IsFiniteSet(InState(W)) /\ Cardinality(InState(W)) \in Nat
  BY InStateFinite
<1>2. s \in InState(W) <=> script[s] \in W
  BY DEF InState
<1>3. CASE v \in W
  <2>1. InState(W)' = InState(W) \cup {s}
    BY <1>3 DEF InState, TypeOK
  <2>2. Cardinality(InState(W) \cup {s}) =
        IF s \in InState(W) THEN Cardinality(InState(W))
                            ELSE Cardinality(InState(W)) + 1
    BY <1>1, FS_AddElement
  <2> QED BY <1>1, <1>2, <1>3, <2>1, <2>2
<1>4. CASE v \notin W
  <2>1. InState(W)' = InState(W) \ {s}
    BY <1>4 DEF InState, TypeOK
  <2>2. Cardinality(InState(W) \ {s}) =
        IF s \in InState(W) THEN Cardinality(InState(W)) - 1
                            ELSE Cardinality(InState(W))
    BY <1>1, FS_RemoveElement
  <2> QED BY <1>1, <1>2, <1>4, <2>1, <2>2
<1> QED BY <1>3, <1>4

(* Posted counts places of the loop's queue. *)
LEMMA PostedCounts ==
    ASSUME TypeOK, NEW t
    PROVE  Posted(t) = Cardinality(Places(tasks, t)) /\ Posted(t) \in Nat
<1>1. tasks \in Seq({"ExecuteTask", "LoadEventDelayTimer"}) BY DEF TypeOK
<1>2. Posted(t) = Cardinality(Places(tasks, t)) BY DEF Posted, Places
<1> QED BY <1>1, <1>2, PlacesFinite

-----------------------------------------------------------------------------
(* The call stack. *)

Plain(fr) == fr \in Seq(Frames \ {"decrement"})

(* Calls among which there is no decrement. *)
LEMMA PlainCalls ==
    /\ Plain(<<>>) /\ Plain(<<"pump">>) /\ Plain(<<"script">>)
    /\ Plain(<<"checkCompleted">>) /\ Plain(<<"close">>) /\ Plain(<<"announce">>)
    /\ Plain(<<"listener">>) /\ Plain(<<"listener", "end">>)
    /\ Plain(<<"listener", "parsed">>) /\ Plain(<<"listener", "close">>)
    /\ Plain(<<"checkCompleted", "stopParsing">>) /\ Plain(<<"script", "pump">>)
    /\ Plain(<<"listener", "closed", "announce">>)
    /\ Plain(<<"pump", "finish", "checkCompleted">>)
    /\ Plain(<<"script", "pump", "checkCompleted">>)
BY DEF Plain, Frames

(* Calls on top of others leave the outermost one where it is. *)
LEMMA Calls ==
    ASSUME NEW st \in Seq(Frames), Outermost(st), NEW fr, Plain(fr)
    PROVE  /\ fr \o st \in Seq(Frames) /\ Outermost(fr \o st)
           /\ Decrements(fr \o st) <=> Decrements(st)
<1>1. fr \in Seq(Frames) /\ Len(fr) \in Nat /\ Len(st) \in Nat
      /\ \A i \in 1..Len(fr) : fr[i] # "decrement"
  <2>1. fr \in Seq(Frames \ {"decrement"}) BY DEF Plain
  <2>2. \A i \in 1..Len(fr) : fr[i] \in Frames \ {"decrement"}
    BY <2>1, ElementOfSeq
  <2> QED BY <2>1, <2>2, LenProperties
<1>2. fr \o st \in Seq(Frames) /\ Len(fr \o st) = Len(fr) + Len(st)
      /\ \A i \in 1..(Len(fr) + Len(st)) :
            (fr \o st)[i] = IF i <= Len(fr) THEN fr[i] ELSE st[i - Len(fr)]
  BY <1>1, ConcatProperties
<1>3. ASSUME NEW i \in 1..Len(fr \o st), (fr \o st)[i] = "decrement"
      PROVE  i - Len(fr) \in 1..Len(st) /\ st[i - Len(fr)] = "decrement"
  BY <1>1, <1>2, <1>3
<1>4. Outermost(fr \o st)
  BY <1>1, <1>2, <1>3 DEF Outermost
<1>5. Decrements(fr \o st) => Decrements(st)
  BY <1>3 DEF Decrements
<1>6. ASSUME NEW i \in 1..Len(st), st[i] = "decrement"
      PROVE  Decrements(fr \o st)
  <2>1. i + Len(fr) \in 1..Len(fr \o st) /\ (fr \o st)[i + Len(fr)] = st[i]
    BY <1>1, <1>2
  <2> QED BY <1>6, <2>1 DEF Decrements
<1> QED BY <1>2, <1>4, <1>5, <1>6 DEF Decrements

(* So does the return of a call that is not the decrement. *)
LEMMA Returns ==
    ASSUME NEW st \in Seq(Frames), Outermost(st), st # <<>>,
           Head(st) # "decrement"
    PROVE  /\ Tail(st) \in Seq(Frames) /\ Outermost(Tail(st))
           /\ Decrements(Tail(st)) <=> Decrements(st)
<1>1. /\ Tail(st) \in Seq(Frames) /\ Len(Tail(st)) = Len(st) - 1
      /\ \A i \in 1..Len(Tail(st)) : Tail(st)[i] = st[i + 1]
      /\ Len(st) \in Nat /\ Len(st) >= 1 /\ Head(st) = st[1]
  BY HeadTailProperties, LenProperties, EmptySeq
<1>2. Outermost(Tail(st))
  <2> SUFFICES ASSUME NEW i \in 1..Len(Tail(st)), Tail(st)[i] = "decrement"
               PROVE  i = Len(Tail(st))
    BY DEF Outermost
  <2>1. i + 1 \in 1..Len(st) /\ st[i + 1] = "decrement" /\ i \in Int
    BY <1>1
  <2>2. i + 1 = Len(st) BY <2>1 DEF Outermost
  <2>3. Len(Tail(st)) = Len(st) - 1 /\ Len(st) \in Int BY <1>1
  <2> QED BY <2>1, <2>2, <2>3
<1>3. Decrements(Tail(st)) => Decrements(st)
  BY <1>1 DEF Decrements
<1>4. ASSUME NEW i \in 1..Len(st), st[i] = "decrement"
      PROVE  Decrements(Tail(st))
  <2>1. i - 1 \in 1..Len(Tail(st)) /\ Tail(st)[i - 1] = st[i]
    BY <1>1, <1>4
  <2> QED BY <1>4, <2>1 DEF Decrements
<1> QED BY <1>1, <1>2, <1>3, <1>4 DEF Decrements

(* What GoOnWith and Call make of it. *)
LEMMA StackGoesOn ==
    ASSUME TypeOK, Outermost(stack), NEW fr, Plain(fr),
           \/ GoOnWith(fr) /\ stack # <<>> /\ Head(stack) # "decrement"
           \/ Call(fr)
    PROVE  /\ stack' \in Seq(Frames) /\ Outermost(stack')
           /\ Decrements(stack') <=> Decrements(stack)
<1>1. stack \in Seq(Frames) BY DEF TypeOK
<1>2. CASE GoOnWith(fr) /\ stack # <<>> /\ Head(stack) # "decrement"
  <2>1. /\ Tail(stack) \in Seq(Frames) /\ Outermost(Tail(stack))
        /\ Decrements(Tail(stack)) <=> Decrements(stack)
    BY <1>1, <1>2, Returns
  <2> QED BY <1>2, <2>1, Calls DEF GoOnWith
<1>3. CASE Call(fr)
  BY <1>1, <1>3, Calls DEF Call
<1> QED BY <1>2, <1>3

-----------------------------------------------------------------------------
(* Steps that leave the ScriptRunner alone. *)

(* The types of what such a step may change. *)
PageTypes ==
    /\ loading \subseteq Scripts \cup {Main}
    /\ parser \in {"none", "parsing", "stopping", "stopped", "detached"}
    /\ unread \in BOOLEAN
    /\ endDelayed \in BOOLEAN
    /\ parsing \in {"parsing", "inDOMContentLoaded", "finished"}
    /\ ready \in {"loading", "interactive", "complete"}
    /\ progress \in {"notRun", "inProgress", "completed"}
    /\ sent \in BOOLEAN
    /\ told \in Seq({"ready", "failed"})

(* Such a step keeps the invariant, whatever it calls. *)
LEMMA QuietStep ==
    ASSUME IInv, PageTypes', NEW fr, Plain(fr),
           \/ GoOnWith(fr) /\ stack # <<>> /\ Head(stack) # "decrement"
           \/ Call(fr),
           UNCHANGED <<script, streamed, runnerVars, blocking>>
    PROVE  IInv'
<1>1. /\ stack' \in Seq(Frames) /\ Outermost(stack')
      /\ Decrements(stack') <=> Decrements(stack)
  BY StackGoesOn DEF IInv, OneRuns
<1>2. TypeOK'
  BY <1>1 DEF IInv, TypeOK, PageTypes, runnerVars
<1>3. \A W : InState(W)' = InState(W)
  BY DEF InState
<1>4. DelayCountExact'
  BY <1>3 DEF IInv, DelayCountExact, runnerVars
<1>5. ClosuresMatch'
  BY <1>3 DEF IInv, ClosuresMatch, Posted, runnerVars
<1>6. RunnerInOrder' /\ Known'
  BY DEF IInv, RunnerInOrder, Known, runnerVars
<1>7. OneRuns'
  BY <1>1, <1>3 DEF IInv, OneRuns
<1> QED BY <1>2, <1>4, <1>5, <1>6, <1>7 DEF IInv

(* The end of the parser, PrepareToStopParsing, from a pump or from Finish. *)
LEMMA ParserStops ==
    ASSUME PrepareToStopParsing(<<>>)
    PROVE  /\ parser' = "stopping" /\ ready' = "interactive" /\ endDelayed' = FALSE
           /\ GoOnWith(<<"listener", "end">>) /\ Plain(<<"listener", "end">>)
<1>1. <<"listener", "end">> \o <<>> = <<"listener", "end">> OBVIOUS
<1> QED BY <1>1, PlainCalls DEF PrepareToStopParsing

(* The parser's steps are such steps ... *)
LEMMA ParserIsQuiet ==
    ASSUME IInv,
           \/ PumpStops \/ PumpEnds \/ Finish \/ FinishedParsing
           \/ ParsingIsFinished \/ StopParsing \/ MainResourceAnswers
           \/ MainResourceFails
    PROVE  IInv'
<1> USE DEF In, fetchVars, runnerVars, parserVars, documentVars
<1> TypeOK BY DEF IInv
<1>1. CASE PumpStops
  <2>1. PageTypes' BY <1>1 DEF PumpStops, TypeOK, PageTypes
  <2> QED BY <1>1, <2>1, PlainCalls, QuietStep DEF PumpStops
<1>2. CASE PumpEnds
  <2>1. CASE PrepareToStopParsing(<<>>)
    <3>1. PageTypes' BY <1>2, <2>1, ParserStops DEF PumpEnds, TypeOK, PageTypes
    <3> QED BY <1>2, <2>1, <3>1, ParserStops, PlainCalls, QuietStep DEF PumpEnds
  <2>2. CASE GoOnWith(<<>>) /\ UNCHANGED <<parser, ready, endDelayed>>
    <3>1. PageTypes' BY <1>2, <2>2 DEF PumpEnds, TypeOK, PageTypes
    <3> QED BY <1>2, <2>2, <3>1, PlainCalls, QuietStep DEF PumpEnds
  <2> QED BY <1>2, <2>1, <2>2 DEF PumpEnds
<1>3. CASE Finish
  <2>1. CASE PrepareToStopParsing(<<>>)
    <3>1. PageTypes' BY <1>3, <2>1, ParserStops DEF Finish, TypeOK, PageTypes
    <3> QED BY <1>3, <2>1, <3>1, ParserStops, PlainCalls, QuietStep DEF Finish
  <2>2. CASE GoOnWith(<<>>) /\ endDelayed' = TRUE /\ UNCHANGED <<parser, ready>>
    <3>1. PageTypes' BY <1>3, <2>2 DEF Finish, TypeOK, PageTypes
    <3> QED BY <1>3, <2>2, <3>1, PlainCalls, QuietStep DEF Finish
  <2> QED BY <1>3, <2>1, <2>2 DEF Finish
<1>4. CASE FinishedParsing
  <2>1. PageTypes' BY <1>4 DEF FinishedParsing, TypeOK, PageTypes
  <2> QED BY <1>4, <2>1, PlainCalls, QuietStep DEF FinishedParsing
<1>5. CASE ParsingIsFinished
  <2>1. PageTypes' BY <1>5 DEF ParsingIsFinished, TypeOK, PageTypes
  <2> QED BY <1>5, <2>1, PlainCalls, QuietStep DEF ParsingIsFinished
<1>6. CASE StopParsing
  <2>1. PageTypes' BY <1>6 DEF StopParsing, TypeOK, PageTypes
  <2> QED BY <1>6, <2>1, PlainCalls, QuietStep DEF StopParsing
<1>7. CASE MainResourceAnswers
  <2>1. PageTypes' BY <1>7 DEF MainResourceAnswers, TypeOK, PageTypes
  <2> QED BY <1>7, <2>1, PlainCalls, QuietStep DEF MainResourceAnswers
<1>8. CASE MainResourceFails
  <2>1. told' \in Seq({"ready", "failed"})
    BY <1>8 DEF MainResourceFails, TypeOK
  <2>2. PageTypes' BY <1>8, <2>1 DEF MainResourceFails, TypeOK, PageTypes
  <2>3. Call(<<>>)
    BY <1>8 DEF MainResourceFails, Call, TypeOK
  <2> QED BY <1>8, <2>2, <2>3, PlainCalls, QuietStep DEF MainResourceFails
<1> QED BY <1>1, <1>2, <1>3, <1>4, <1>5, <1>6, <1>7, <1>8

(* ... and so are the document's. *)
LEMMA DocumentIsQuiet ==
    ASSUME IInv,
           \/ JavaScriptReturns \/ CheckCompleted \/ ImplicitClose
           \/ LoadEventIsOver \/ DispatchDidFinishLoad
    PROVE  IInv'
<1> USE DEF In, fetchVars, runnerVars, parserVars, documentVars
<1> TypeOK BY DEF IInv
<1>1. CASE JavaScriptReturns
  <2>1. PageTypes' BY <1>1 DEF JavaScriptReturns, TypeOK, PageTypes
  <2> QED BY <1>1, <2>1, PlainCalls, QuietStep DEF JavaScriptReturns, InJavaScript
<1>2. CASE CheckCompleted
  <2>1. PageTypes' BY <1>2 DEF CheckCompleted, TypeOK, PageTypes
  <2>2. \/ GoOnWith(<<>>) \/ GoOnWith(<<"close">>) \/ GoOnWith(<<"listener", "close">>)
    BY <1>2 DEF CheckCompleted
  <2> QED BY <1>2, <2>1, <2>2, PlainCalls, QuietStep DEF CheckCompleted
<1>3. CASE ImplicitClose
  <2>1. PageTypes' BY <1>3 DEF ImplicitClose, TypeOK, PageTypes
  <2>2. GoOnWith(<<"announce">>) \/ GoOnWith(<<"listener", "closed", "announce">>)
    BY <1>3 DEF ImplicitClose
  <2> QED BY <1>3, <2>1, <2>2, PlainCalls, QuietStep DEF ImplicitClose
<1>4. CASE LoadEventIsOver
  <2>1. PageTypes' BY <1>4 DEF LoadEventIsOver, TypeOK, PageTypes
  <2> QED BY <1>4, <2>1, PlainCalls, QuietStep DEF LoadEventIsOver
<1>5. CASE DispatchDidFinishLoad
  <2>1. told' \in Seq({"ready", "failed"})
    <3>1. told \in Seq({"ready", "failed"}) BY DEF TypeOK
    <3>2. told' = told \/ told' = Append(told, "ready")
      BY <1>5 DEF DispatchDidFinishLoad
    <3> QED BY <3>1, <3>2
  <2>2. PageTypes' BY <1>5, <2>1 DEF DispatchDidFinishLoad, TypeOK, PageTypes
  <2>3. GoOnWith(<<>>) \/ GoOnWith(<<"listener">>)
    BY <1>5 DEF DispatchDidFinishLoad
  <2> QED BY <1>5, <2>2, <2>3, PlainCalls, QuietStep DEF DispatchDidFinishLoad
<1> QED BY <1>1, <1>2, <1>3, <1>4, <1>5

-----------------------------------------------------------------------------
(* Steps of the ScriptRunner. *)

(* One script changes its state and is not asynchronous before or after. *)
LEMMA OtherScriptStep ==
    ASSUME IInv, PageTypes', NEW fr, Plain(fr), Call(fr),
           NEW s \in Scripts, NEW v \in {"blocking", "done"},
           script[s] \in {"new", "blocking"},
           script' = [script EXCEPT ![s] = v],
           blocking' \in Scripts \cup {None}, Known',
           UNCHANGED <<streamed, runnerVars>>
    PROVE  IInv'
<1> USE DEF runnerVars
<1> TypeOK BY DEF IInv
<1>1. /\ stack' \in Seq(Frames) /\ Outermost(stack')
      /\ Decrements(stack') <=> Decrements(stack)
  BY StackGoesOn DEF IInv, OneRuns
<1>2. script' \in [Scripts -> ScriptStates]
  BY DEF TypeOK, ScriptStates
<1>3. TypeOK'
  BY <1>1, <1>2 DEF TypeOK, PageTypes
<1>4. ASSUME NEW W, {"new", "blocking", "done"} \cap W = {}
      PROVE  InState(W)' = InState(W)
  BY <1>4 DEF InState, TypeOK
<1>5. /\ InState({"pending", "soon", "running"})' = InState({"pending", "soon", "running"})
      /\ InState({"pending"})' = InState({"pending"})
      /\ InState({"running"})' = InState({"running"})
  BY <1>4
<1>6. DelayCountExact'
  BY <1>5 DEF IInv, DelayCountExact
<1>7. ClosuresMatch'
  BY <1>5 DEF IInv, ClosuresMatch, Posted
<1>8. RunnerInOrder'
  <2>1. \A i \in 1..Len(soon) : soon[i] # s
    BY DEF IInv, RunnerInOrder
  <2>2. \A i \in 1..Len(soon) : soon[i] \in Scripts
    BY ElementOfSeq DEF TypeOK
  <2> QED BY <2>1, <2>2 DEF IInv, RunnerInOrder, TypeOK
<1>9. OneRuns'
  BY <1>1, <1>5 DEF IInv, OneRuns
<1> QED BY <1>3, <1>6, <1>7, <1>8, <1>9 DEF IInv

(* InlineScript, BlockingScript and BlockingScriptAnswers are such steps. *)
LEMMA ParserRunsScripts ==
    ASSUME IInv, NEW s \in Scripts,
           InlineScript(s) \/ BlockingScript(s) \/ BlockingScriptAnswers(s)
    PROVE  IInv'
<1> USE DEF fetchVars, parserVars, documentVars
<1> TypeOK BY DEF IInv
<1>1. ASSUME NEW calls, calls = <<>> \/ calls = <<"script">>, ReadScript(s, calls)
      PROVE  \E fr : Plain(fr) /\ Call(fr)
  <2>1. CASE In("pump")
    BY <1>1, <2>1, PlainCalls DEF ReadScript, Call
  <2>2. CASE ~In("pump")
    <3>1. stack' = calls \o (<<"pump">> \o stack)
      BY <1>1, <2>2 DEF ReadScript
    <3>2. stack' \in {<<"pump">> \o stack, <<"script", "pump">> \o stack}
      <4>1. stack \in Seq(Frames) BY DEF TypeOK
      <4>2. CASE calls = <<>>
        <5>1. <<"pump">> \o stack \in Seq(Frames)
          BY <4>1, PlainCalls, ConcatProperties DEF Frames
        <5> QED BY <3>1, <4>2, <5>1, ConcatEmptySeq
      <4>3. CASE calls = <<"script">>
        <5>1. <<"script">> \in Seq(Frames) /\ <<"pump">> \in Seq(Frames)
          BY DEF Frames
        <5>2. <<"script">> \o <<"pump">> = <<"script", "pump">>
          <6>1. Append(<<"script">>, "pump") = <<"script">> \o <<"pump">>
            BY <5>1, AppendIsConcat DEF Frames
          <6>2. Append(<<"script">>, "pump") = <<"script", "pump">>
            <7> DEFINE a == Append(<<"script">>, "pump")
                       b == <<"script", "pump">>
            <7>1. b \in Seq(Frames) /\ Len(b) = 2 /\ b[1] = "script" /\ b[2] = "pump"
              BY DEF Frames
            <7>2. a \in Seq(Frames) /\ Len(a) = 2 /\ a[1] = "script" /\ a[2] = "pump"
              BY <5>1, AppendProperties DEF Frames
            <7> HIDE DEF a, b
            <7>3. \A i \in 1..Len(a) : a[i] = b[i] BY <7>1, <7>2
            <7>4. a = b BY <7>1, <7>2, <7>3, SeqEqual
            <7> QED BY <7>4 DEF a, b
          <6> QED BY <6>1, <6>2
        <5> QED BY <3>1, <4>1, <4>3, <5>1, <5>2, ConcatAssociative
      <4> QED BY <1>1, <4>2, <4>3
    <3> QED BY <3>2, PlainCalls DEF Call
  <2> QED BY <2>1, <2>2
<1>2. CASE InlineScript(s)
  <2>1. PageTypes' BY <1>2 DEF InlineScript, TypeOK, PageTypes
  <2>2. script[s] = "new" BY <1>2 DEF InlineScript, ReadScript
  <2>3. Known'
    BY <1>2, <2>2 DEF InlineScript, IInv, Known, TypeOK
  <2>4. PICK fr : Plain(fr) /\ Call(fr) BY <1>1, <1>2 DEF InlineScript
  <2> QED BY <1>2, <2>1, <2>2, <2>3, <2>4, OtherScriptStep DEF InlineScript, TypeOK
<1>3. CASE BlockingScript(s)
  <2>1. PageTypes' BY <1>3 DEF BlockingScript, TypeOK, PageTypes
  <2>2. script[s] = "new" BY <1>3 DEF BlockingScript, ReadScript
  <2>3. Known'
    BY <1>3, <2>2 DEF BlockingScript, IInv, Known, TypeOK
  <2>4. PICK fr : Plain(fr) /\ Call(fr) BY <1>1, <1>3 DEF BlockingScript
  <2> QED BY <1>3, <2>1, <2>2, <2>3, <2>4, OtherScriptStep DEF BlockingScript
<1>4. CASE BlockingScriptAnswers(s)
  <2>1. PageTypes' BY <1>4 DEF BlockingScriptAnswers, TypeOK, PageTypes
  <2>2. script[s] = "blocking"
    BY <1>4, NamesAssumption DEF BlockingScriptAnswers, IInv, Known
  <2>3. Known'
    BY <1>4 DEF BlockingScriptAnswers, IInv, Known, TypeOK
  <2> QED BY <1>4, <2>1, <2>2, <2>3, PlainCalls, OtherScriptStep
          DEF BlockingScriptAnswers
<1> QED BY <1>2, <1>3, <1>4

(* An asynchronous script is prepared: it is counted, and so is its extra task. *)
LEMMA PreparedScript ==
    ASSUME IInv, PageTypes', NEW fr, Plain(fr), Call(fr),
           NEW s \in Scripts, PrepareAsyncScript(s), UNCHANGED blocking
    PROVE  IInv'
<1> TypeOK BY DEF IInv
<1> USE DEF PrepareAsyncScript, QueueScriptForExecution
<1>1. /\ stack' \in Seq(Frames) /\ Outermost(stack')
      /\ Decrements(stack') <=> Decrements(stack)
  BY StackGoesOn DEF IInv, OneRuns
<1>2. script' \in [Scripts -> ScriptStates]
  BY DEF TypeOK, ScriptStates
<1>3. PICK http \in BOOLEAN :
         /\ streamed' = IF http THEN streamed \cup {s} ELSE streamed
         /\ extraTasks' = IF http THEN extraTasks + 1 ELSE extraTasks
  OBVIOUS
<1>4. TypeOK'
  BY <1>1, <1>2, <1>3 DEF TypeOK, PageTypes
<1>5. Cardinality(InState({"pending", "soon", "running"})') =
      Cardinality(InState({"pending", "soon", "running"})) + 1
  <2> DEFINE W == {"pending", "soon", "running"}
  <2>1. /\ "pending" \in W /\ script[s] \notin W
        /\ script' = [script EXCEPT ![s] = "pending"]
    OBVIOUS
  <2> HIDE DEF W
  <2>2. Cardinality(InState(W)') = Cardinality(InState(W)) + 1 - 0
    BY <2>1, CountAfter
  <2>3. Cardinality(InState(W)) \in Nat BY InStateFinite
  <2>4. Cardinality(InState(W)') = Cardinality(InState(W)) + 1 BY <2>2, <2>3
  <2> QED BY <2>4 DEF W
<1>6. DelayCountExact'
  BY <1>5 DEF IInv, DelayCountExact
<1>7. ClosuresMatch'
  <2> DEFINE Waiting == streamed \cap InState({"pending"})
  <2>1. IsFiniteSet(Waiting) /\ Cardinality(Waiting) \in Nat
    BY InStateFinite, FS_Subset, FS_CardinalityType
  <2>2. InState({"pending"})' = InState({"pending"}) \cup {s}
    BY DEF InState, TypeOK
  <2>3. s \notin Waiting /\ s \notin streamed
    BY DEF InState, IInv, Known
  <2>4. Waiting' = IF http THEN Waiting \cup {s} ELSE Waiting
    BY <1>3, <2>2, <2>3
  <2>5. Cardinality(Waiting') = Cardinality(Waiting) + (IF http THEN 1 ELSE 0)
    <3>1. Cardinality(Waiting \cup {s}) = Cardinality(Waiting) + 1
      BY <2>1, <2>3, FS_AddElement
    <3> HIDE DEF Waiting
    <3> QED BY <2>1, <2>4, <3>1
  <2>6. /\ Posted("ExecuteTask") \in Nat /\ extraTasks \in Nat /\ Len(soon) \in Nat
    BY PostedCounts, LenProperties DEF TypeOK
  <2>7. /\ Posted("ExecuteTask") + Cardinality(Waiting) = Len(soon) + extraTasks
        /\ Posted("LoadEventDelayTimer") = IF timerActive THEN 1 ELSE 0
    BY DEF IInv, ClosuresMatch
  <2>8. UNCHANGED <<tasks, soon, timerActive>>
    OBVIOUS
  <2>9. Posted("ExecuteTask")' + Cardinality(Waiting') = Len(soon)' + extraTasks'
    <3>1. Posted("ExecuteTask")' = Posted("ExecuteTask") BY <2>8 DEF Posted
    <3> HIDE DEF Waiting
    <3> QED BY <1>3, <2>1, <2>5, <2>6, <2>7, <2>8, <3>1
  <2> QED BY <2>7, <2>8, <2>9 DEF ClosuresMatch, Posted
<1>8. RunnerInOrder'
  <2>1. \A i \in 1..Len(soon) : soon[i] # s /\ soon[i] \in Scripts
    BY ElementOfSeq DEF IInv, RunnerInOrder, TypeOK
  <2> QED BY <2>1 DEF IInv, RunnerInOrder, TypeOK
<1>9. Known'
  <2>1. \A t \in streamed' : script'[t] # "new"
    BY <1>3 DEF IInv, Known, TypeOK
  <2>2. blocking # None => blocking # s
    BY DEF IInv, Known
  <2> QED BY <2>1, <2>2 DEF IInv, Known, TypeOK
<1>10. InState({"running"})' = InState({"running"})
  BY DEF InState, TypeOK
<1>11. OneRuns'
  BY <1>1, <1>10 DEF IInv, OneRuns
<1> QED BY <1>4, <1>6, <1>7, <1>8, <1>9, <1>11 DEF IInv

(* The parser meets an asynchronous script, or JavaScript inserts one. *)
LEMMA ScriptIsPrepared ==
    ASSUME IInv, NEW s \in Scripts, AsyncScript(s) \/ InsertScript(s)
    PROVE  IInv'
<1> USE DEF parserVars, documentVars
<1> TypeOK BY DEF IInv
<1>1. PageTypes'
  BY DEF AsyncScript, InsertScript, PrepareAsyncScript, TypeOK, PageTypes
<1>2. stack \in Seq(Frames) BY DEF TypeOK
<1>3. CASE AsyncScript(s)
  <2>1. Call(<<>>) \/ Call(<<"pump">>)
    <3>1. CASE In("pump")
      BY <1>2, <1>3, <3>1 DEF AsyncScript, ReadScript, Call
    <3>2. CASE ~In("pump")
      <4>1. <<"pump">> \o stack \in Seq(Frames)
        BY <1>2, ConcatProperties DEF Frames
      <4> QED BY <1>3, <3>2, <4>1, ConcatEmptySeq DEF AsyncScript, ReadScript, Call
    <3> QED BY <3>1, <3>2
  <2> QED BY <1>1, <1>3, <2>1, PlainCalls, PreparedScript DEF AsyncScript
<1>4. CASE InsertScript(s)
  <2>1. Call(<<>>) BY <1>2, <1>4, ConcatEmptySeq DEF InsertScript, Call
  <2> QED BY <1>1, <1>4, <2>1, PlainCalls, PreparedScript DEF InsertScript
<1> QED BY <1>3, <1>4

-----------------------------------------------------------------------------
(* Steps of the main loop's closures. *)

TaskNames == {"ExecuteTask", "LoadEventDelayTimer"}

(* What a post and a dispatch do to the closures counted. *)
LEMMA PostedAfterPost ==
    ASSUME TypeOK, NEW x \in TaskNames, NEW t, tasks' = Append(tasks, x)
    PROVE  /\ tasks' \in Seq(TaskNames)
           /\ Posted(t)' = Posted(t) + (IF x = t THEN 1 ELSE 0)
<1>1. tasks \in Seq(TaskNames) BY DEF TypeOK, TaskNames
<1>2. Posted(t) = Cardinality(Places(tasks, t)) BY PostedCounts
<1>3. Posted(t)' = Cardinality(Places(tasks', t)) BY DEF Posted, Places
<1> HIDE DEF TaskNames
<1> QED BY <1>1, <1>2, <1>3, PlacesAppend, AppendProperties

LEMMA PostedAfterDispatch ==
    ASSUME TypeOK, NEW x, Dispatch(x), NEW t
    PROVE  /\ tasks' \in Seq(TaskNames)
           /\ Posted(t)' = Posted(t) - (IF x = t THEN 1 ELSE 0)
           /\ Posted(t)' \in Nat
<1>1. tasks \in Seq(TaskNames) /\ tasks # <<>> /\ tasks' = Tail(tasks) /\ Head(tasks) = x
  BY DEF TypeOK, TaskNames, Dispatch
<1>2. Posted(t) = Cardinality(Places(tasks, t)) BY PostedCounts
<1>3. Posted(t)' = Cardinality(Places(tasks', t)) BY DEF Posted, Places
<1>4. tasks' \in Seq(TaskNames) BY <1>1, HeadTailProperties
<1>5. Cardinality(Places(tasks', t)) =
      Cardinality(Places(tasks, t)) - (IF Head(tasks) = t THEN 1 ELSE 0)
  BY <1>1, PlacesTail
<1>6. Cardinality(Places(tasks', t)) \in Nat BY <1>4, PlacesFinite
<1> QED BY <1>1, <1>2, <1>3, <1>4, <1>5, <1>6

(* The one closure of the timer goes when the timer becomes inactive. *)
LEMMA TimerFires ==
    ASSUME IInv, LoadEventDelayTimerFired
    PROVE  IInv'
<1> USE DEF LoadEventDelayTimerFired, fetchVars, parserVars, documentVars
<1> TypeOK BY DEF IInv
<1>1. /\ stack' \in Seq(Frames) /\ Outermost(stack')
      /\ Decrements(stack') <=> Decrements(stack)
  BY PlainCalls, StackGoesOn DEF IInv, OneRuns
<1>2. /\ tasks' \in Seq(TaskNames)
      /\ Posted("ExecuteTask")' = Posted("ExecuteTask")
      /\ Posted("LoadEventDelayTimer")' = Posted("LoadEventDelayTimer") - 1
      /\ Posted("LoadEventDelayTimer")' \in Nat
      /\ Posted("ExecuteTask") \in Nat /\ Posted("LoadEventDelayTimer") \in Nat
  BY PostedAfterDispatch, PostedCounts
<1>3. TypeOK'
  <2>1. /\ TypeOK /\ timerActive' \in BOOLEAN /\ stack' \in Seq(Frames)
        /\ tasks' \in Seq({"ExecuteTask", "LoadEventDelayTimer"})
        /\ UNCHANGED <<loading, script, streamed, soon, extraTasks, delayCount, parser,
                       unread, blocking, endDelayed, parsing, ready, progress, sent, told>>
    BY <1>1, <1>2 DEF TaskNames
  <2> QED BY ONLY <2>1 DEF TypeOK
<1>4. \A W : InState(W)' = InState(W) BY DEF InState
<1>5. ClosuresMatch'
  <2>1. Posted("LoadEventDelayTimer") = IF timerActive THEN 1 ELSE 0
    BY DEF IInv, ClosuresMatch
  <2>2. Posted("LoadEventDelayTimer")' = 0 /\ timerActive' = FALSE
    BY <1>2, <2>1
  <2>3. UNCHANGED <<streamed, soon, extraTasks>> /\ InState({"pending"})' = InState({"pending"})
    BY <1>4
  <2> QED BY <1>2, <2>2, <2>3 DEF IInv, ClosuresMatch
<1>6. DelayCountExact' /\ RunnerInOrder' /\ Known'
  BY <1>4 DEF IInv, DelayCountExact, RunnerInOrder, Known
<1>7. OneRuns' BY <1>1, <1>4 DEF IInv, OneRuns
<1> QED BY <1>3, <1>5, <1>6, <1>7 DEF IInv

(* A closure that finds no script is one of those counted as extra. *)
LEMMA ExtraTaskRuns ==
    ASSUME IInv, ExecuteExtraTask
    PROVE  IInv' /\ extraTasks > 0
<1> USE DEF ExecuteExtraTask, fetchVars, parserVars, documentVars
<1> TypeOK BY DEF IInv
<1>1. /\ tasks' \in Seq(TaskNames)
      /\ Posted("ExecuteTask")' = Posted("ExecuteTask") - 1
      /\ Posted("LoadEventDelayTimer")' = Posted("LoadEventDelayTimer")
      /\ Posted("ExecuteTask")' \in Nat
      /\ Posted("ExecuteTask") \in Nat /\ Posted("LoadEventDelayTimer") \in Nat
  BY PostedAfterDispatch, PostedCounts
<1>2. \A W : InState(W)' = InState(W) BY DEF InState
<1> DEFINE waiting == Cardinality(streamed \cap InState({"pending"}))
<1>3. waiting \in Nat /\ waiting' = waiting
  BY <1>2, InStateFinite, FS_Subset, FS_CardinalityType
<1>4. Posted("ExecuteTask") + waiting = Len(soon) + extraTasks
  BY DEF IInv, ClosuresMatch
<1>5. Len(soon) = 0 /\ extraTasks \in Nat /\ soon' = soon /\ extraTasks' = extraTasks - 1
  BY DEF TypeOK
<1> HIDE DEF waiting
<1>6. extraTasks > 0 /\ extraTasks' \in Nat
      /\ Posted("ExecuteTask")' + waiting' = Len(soon)' + extraTasks'
  BY <1>1, <1>3, <1>4, <1>5
<1>7. TypeOK' BY <1>1, <1>6 DEF TypeOK, TaskNames
<1>8. ClosuresMatch' BY <1>1, <1>6 DEF IInv, ClosuresMatch, waiting
<1>9. DelayCountExact' /\ RunnerInOrder' /\ Known' /\ OneRuns'
  BY <1>2 DEF IInv, DelayCountExact, RunnerInOrder, Known, OneRuns
<1> QED BY <1>6, <1>7, <1>8, <1>9 DEF IInv

(* A closure takes the first script that is ready; nothing else is running. *)
LEMMA AsyncTaskRuns ==
    ASSUME IInv, ExecuteAsyncTask
    PROVE  IInv'
<1> USE DEF ExecuteAsyncTask, parserVars, documentVars
<1> TypeOK BY DEF IInv
<1> DEFINE s == Head(soon)
<1>1. /\ soon \in Seq(Scripts) /\ s \in Scripts /\ Tail(soon) \in Seq(Scripts)
      /\ Len(soon) \in Nat /\ Len(soon) >= 1 /\ s = soon[1]
      /\ Len(soon') = Len(soon) - 1
      /\ \A i \in 1..Len(soon') : soon'[i] = soon[i + 1]
  BY HeadTailProperties, LenProperties, EmptySeq DEF TypeOK
<1>2. script[s] = "soon" BY <1>1 DEF IInv, RunnerInOrder
<1>3. script' = [script EXCEPT ![s] = "running"] OBVIOUS
<1> HIDE DEF s
<1>4. stack = <<>> /\ stack' = <<"listener", "decrement">> \o stack
  BY DEF Dispatch, Idle, Call
<1>5. stack' = <<"listener", "decrement">>
  BY <1>4
<1>6. stack' \in Seq(Frames) /\ Outermost(stack') /\ Decrements(stack')
  BY <1>5 DEF Frames, Outermost, Decrements
<1>7. InState({"running"}) = {}
  BY <1>4 DEF IInv, OneRuns, Decrements
<1>8. InState({"running"})' = {s}
  BY <1>1, <1>3, <1>7 DEF InState, TypeOK
<1>9. OneRuns' BY <1>6, <1>8 DEF OneRuns
<1>10. /\ tasks' \in Seq(TaskNames)
       /\ Posted("ExecuteTask")' = Posted("ExecuteTask") - 1
       /\ Posted("LoadEventDelayTimer")' = Posted("LoadEventDelayTimer")
       /\ Posted("ExecuteTask") \in Nat /\ Posted("LoadEventDelayTimer") \in Nat
  BY PostedAfterDispatch, PostedCounts
<1>11. TypeOK'
  BY <1>1, <1>3, <1>6, <1>10 DEF TypeOK, TaskNames, ScriptStates
<1>12. /\ InState({"pending", "soon", "running"})' = InState({"pending", "soon", "running"})
       /\ InState({"pending"})' = InState({"pending"})
  BY <1>1, <1>2, <1>3 DEF InState, TypeOK
<1>13. DelayCountExact' BY <1>12 DEF IInv, DelayCountExact
<1>14. ClosuresMatch'
  <2> DEFINE waiting == Cardinality(streamed \cap InState({"pending"}))
  <2>1. waiting \in Nat /\ waiting' = waiting
    BY <1>12, InStateFinite, FS_Subset, FS_CardinalityType
  <2>2. Posted("ExecuteTask") + waiting = Len(soon) + extraTasks /\ extraTasks \in Nat
    BY DEF IInv, ClosuresMatch, TypeOK
  <2>3. extraTasks' = extraTasks OBVIOUS
  <2>4. Len(soon') = Len(soon) - 1 /\ Len(soon) \in Nat BY <1>1
  <2>5. /\ Posted("ExecuteTask")' = Posted("ExecuteTask") - 1
        /\ Posted("ExecuteTask") \in Nat
    BY <1>10
  <2> HIDE DEF waiting
  <2>6. Posted("ExecuteTask")' + waiting' = Len(soon') + extraTasks'
    BY <2>1, <2>2, <2>3, <2>4, <2>5
  <2> QED BY <1>10, <2>6 DEF IInv, ClosuresMatch, waiting
<1>15. RunnerInOrder'
  <2>1. \A i \in 1..Len(soon') : i + 1 \in 1..Len(soon) /\ i + 1 # 1 /\ i \in Int
    BY <1>1
  <2>2. \A i \in 1..Len(soon') : soon'[i] # s /\ soon'[i] \in Scripts
    <3> TAKE i \in 1..Len(soon')
    <3>1. soon[i + 1] # soon[1] BY <1>1, <2>1 DEF IInv, RunnerInOrder
    <3>2. soon[i + 1] \in Scripts BY <1>1, <2>1, ElementOfSeq
    <3> QED BY <1>1, <3>1, <3>2
  <2>3. \A i \in 1..Len(soon') : script'[soon'[i]] = "soon"
    BY <1>1, <1>3, <2>1, <2>2 DEF IInv, RunnerInOrder, TypeOK
  <2>4. ASSUME NEW i \in 1..Len(soon'), NEW j \in 1..Len(soon'), soon'[i] = soon'[j]
        PROVE  i = j
    <3>1. i + 1 = j + 1 BY <1>1, <2>1, <2>4 DEF IInv, RunnerInOrder
    <3> QED BY <2>1, <3>1
  <2> QED BY <2>3, <2>4 DEF RunnerInOrder
<1>16. Known'
  BY <1>1, <1>2, <1>3 DEF IInv, Known, TypeOK
<1> QED BY <1>9, <1>11, <1>13, <1>14, <1>15, <1>16 DEF IInv

(* A script that comes gets a closure, a streamed one the extra one as well. *)
LEMMA AsyncScriptComes ==
    ASSUME IInv, NEW s \in Scripts, AsyncScriptAnswers(s)
    PROVE  IInv'
<1> USE DEF AsyncScriptAnswers, parserVars, documentVars
<1> TypeOK BY DEF IInv
<1> DEFINE n == IF s \in streamed THEN 2 ELSE 1
           once == Append(tasks, "ExecuteTask")
           twice == Append(once, "ExecuteTask")
<1>1. /\ stack' \in Seq(Frames) /\ Outermost(stack')
      /\ Decrements(stack') <=> Decrements(stack)
  BY PlainCalls, StackGoesOn DEF IInv, OneRuns
<1>2. tasks \in Seq(TaskNames) /\ "ExecuteTask" \in TaskNames
      /\ "ExecuteTask" # "LoadEventDelayTimer" /\ n \in {1, 2}
  BY DEF TypeOK, TaskNames
<1>3. tasks' = IF n = 1 THEN once ELSE twice
  BY <1>2, PostOneOrTwo DEF PostExecuteTasks
<1>4. once \in Seq(TaskNames) /\ twice \in Seq(TaskNames)
  BY <1>2, AppendProperties
<1>5. ASSUME NEW t
      PROVE  /\ Cardinality(Places(once, t)) =
                Cardinality(Places(tasks, t)) + (IF "ExecuteTask" = t THEN 1 ELSE 0)
             /\ Cardinality(Places(twice, t)) =
                Cardinality(Places(once, t)) + (IF "ExecuteTask" = t THEN 1 ELSE 0)
  <2> HIDE DEF n, once
  <2> USE DEF twice
  <2>1. Cardinality(Places(twice, t)) =
        Cardinality(Places(once, t)) + (IF "ExecuteTask" = t THEN 1 ELSE 0)
    BY <1>2, <1>4, PlacesAppend
  <2>2. Cardinality(Places(once, t)) =
        Cardinality(Places(tasks, t)) + (IF "ExecuteTask" = t THEN 1 ELSE 0)
    BY <1>2, PlacesAppend DEF once
  <2> QED BY <2>1, <2>2
<1> HIDE DEF n, once, twice
<1>6. /\ Posted("ExecuteTask") \in Nat /\ Posted("LoadEventDelayTimer") \in Nat
      /\ Posted("ExecuteTask") = Cardinality(Places(tasks, "ExecuteTask"))
      /\ Posted("LoadEventDelayTimer") = Cardinality(Places(tasks, "LoadEventDelayTimer"))
      /\ Posted("ExecuteTask")' = Cardinality(Places(tasks', "ExecuteTask"))
      /\ Posted("LoadEventDelayTimer")' = Cardinality(Places(tasks', "LoadEventDelayTimer"))
  BY PostedCounts DEF Posted, Places
<1>7. Posted("ExecuteTask")' = Posted("ExecuteTask") + n
  <2>1. CASE n = 1 BY <1>3, <1>5, <1>6, <2>1
  <2>2. CASE n = 2 BY <1>3, <1>5, <1>6, <2>2
  <2> QED BY <1>2, <2>1, <2>2
<1>8. Posted("LoadEventDelayTimer")' = Posted("LoadEventDelayTimer")
  BY <1>2, <1>3, <1>5, <1>6
<1>9. script[s] = "pending" /\ script' = [script EXCEPT ![s] = "soon"]
  OBVIOUS
<1>10. soon \in Seq(Scripts) /\ Len(soon) \in Nat
       /\ soon' \in Seq(Scripts) /\ Len(soon') = Len(soon) + 1
       /\ \A i \in 1..Len(soon) : soon'[i] = soon[i] /\ soon[i] \in Scripts
       /\ soon'[Len(soon) + 1] = s
  BY AppendProperties, LenProperties, ElementOfSeq DEF TypeOK
<1>11. TypeOK'
  BY <1>1, <1>3, <1>4, <1>9, <1>10 DEF TypeOK, TaskNames, ScriptStates
<1>12. /\ InState({"pending", "soon", "running"})' = InState({"pending", "soon", "running"})
       /\ InState({"running"})' = InState({"running"})
       /\ InState({"pending"})' = InState({"pending"}) \ {s}
  BY <1>9 DEF InState, TypeOK
<1>13. DelayCountExact' BY <1>12 DEF IInv, DelayCountExact
<1>14. OneRuns' BY <1>1, <1>12 DEF IInv, OneRuns
<1>15. ClosuresMatch'
  <2> DEFINE Waiting == streamed \cap InState({"pending"})
             waiting == Cardinality(Waiting)
  <2>1. IsFiniteSet(Waiting) /\ waiting \in Nat
    BY InStateFinite, FS_Subset, FS_CardinalityType
  <2>2. s \in Waiting <=> n = 2
    BY <1>9 DEF InState, n
  <2>3. Waiting' = Waiting \ {s}
    BY <1>12
  <2>4. Posted("ExecuteTask") + waiting = Len(soon) + extraTasks
        /\ extraTasks \in Nat /\ extraTasks' = extraTasks
    BY DEF IInv, ClosuresMatch, TypeOK
  <2>5. waiting' = waiting + 1 - n
    <3>1. waiting' = Cardinality(Waiting \ {s}) BY <2>3
    <3>2. Cardinality(Waiting \ {s}) =
          IF s \in Waiting THEN Cardinality(Waiting) - 1 ELSE Cardinality(Waiting)
      BY <2>1, FS_RemoveElement
    <3>3. CASE n = 2
      <4>1. waiting' = waiting - 1 BY <2>2, <3>1, <3>2, <3>3
      <4> HIDE DEF waiting
      <4> QED BY <2>1, <3>3, <4>1
    <3>4. CASE n = 1
      <4>1. waiting' = waiting BY <2>2, <3>1, <3>2, <3>4
      <4> HIDE DEF waiting
      <4> QED BY <2>1, <3>4, <4>1
    <3> QED BY <1>2, <3>3, <3>4
  <2> HIDE DEF waiting
  <2>6. Posted("ExecuteTask")' + waiting' = Len(soon') + extraTasks'
    BY <1>2, <1>6, <1>7, <1>10, <2>1, <2>4, <2>5
  <2> QED BY <1>8, <2>6 DEF IInv, ClosuresMatch, waiting
<1>16. RunnerInOrder'
  <2>1. \A i \in 1..Len(soon) : soon[i] # s
    BY <1>9 DEF IInv, RunnerInOrder
  <2>2. \A i \in 1..Len(soon') : i = Len(soon) + 1 \/ i \in 1..Len(soon)
    BY <1>10
  <2>3. \A i \in 1..Len(soon') : script'[soon'[i]] = "soon"
    BY <1>9, <1>10, <2>1, <2>2 DEF IInv, RunnerInOrder, TypeOK
  <2>4. \A i, j \in 1..Len(soon') : soon'[i] = soon'[j] => i = j
    BY <1>10, <2>1, <2>2 DEF IInv, RunnerInOrder
  <2> QED BY <2>3, <2>4 DEF RunnerInOrder
<1>17. Known' BY <1>9 DEF IInv, Known, TypeOK
<1> QED BY <1>11, <1>13, <1>14, <1>15, <1>16, <1>17 DEF IInv

(* When the decrement is due, the one script that has run is still counted. *)
LEMMA DecrementIsDue ==
    ASSUME IInv, In("decrement")
    PROVE  /\ delayCount > 0 /\ Len(stack) = 1
           /\ \E r \in Scripts : InState({"running"}) = {r}
<1> TypeOK BY DEF IInv
<1>1. Len(stack) \in Nat /\ Len(stack) >= 1 /\ stack[1] = "decrement"
  BY HeadTailProperties, LenProperties, EmptySeq DEF TypeOK, In
<1>2. Len(stack) = 1 /\ Decrements(stack)
  <2>1. 1 \in 1..Len(stack) BY <1>1
  <2>2. Outermost(stack) BY DEF IInv, OneRuns
  <2> QED BY <1>1, <2>1, <2>2 DEF Outermost, Decrements
<1>3. PICK r \in Scripts : InState({"running"}) = {r}
  BY <1>2 DEF IInv, OneRuns, InState
<1> DEFINE W == InState({"pending", "soon", "running"})
<1>4. r \in W BY <1>3 DEF InState
<1>5. IsFiniteSet(W) /\ Cardinality(W) \in Nat BY InStateFinite
<1>6. Cardinality(W) # 0
  <2> HIDE DEF W
  <2> QED BY <1>4, <1>5, FS_EmptySet
<1>7. delayCount > 0 BY <1>5, <1>6 DEF IInv, DelayCountExact
<1> QED BY <1>2, <1>3, <1>7

(* The decrement takes it from the count and may start the delay timer. *)
LEMMA ScriptIsDone ==
    ASSUME IInv, DecrementLoadEventDelayCount
    PROVE  IInv'
<1> USE DEF DecrementLoadEventDelayCount, parserVars, documentVars
<1> TypeOK BY DEF IInv
<1>1. delayCount > 0 /\ Len(stack) = 1 BY DecrementIsDue
<1>2. PICK r \in Scripts : InState({"running"}) = {r} BY DecrementIsDue
<1>3. script[r] = "running" /\ script' = [script EXCEPT ![r] = "done"]
  <2>1. \A s \in Scripts : script[s] = "running" <=> s = r
    BY <1>2 DEF InState
  <2> QED BY <2>1 DEF TypeOK
<1>4. stack' \in Seq(Frames) /\ Outermost(stack') /\ ~Decrements(stack')
  <2>1. stack \in Seq(Frames) /\ stack # <<>> BY DEF TypeOK, In
  <2>2. Tail(stack) \in Seq(Frames) /\ Len(Tail(stack)) = 0
    BY <1>1, <2>1, HeadTailProperties
  <2>3. stack' = Tail(stack) BY <2>2, ConcatEmptySeq DEF GoOnWith
  <2> QED BY <2>2, <2>3 DEF Outermost, Decrements
<1>5. InState({"running"})' = {}
  BY <1>2, <1>3 DEF InState, TypeOK
<1>6. OneRuns' BY <1>4, <1>5 DEF OneRuns
<1>7. DelayCountExact'
  <2> DEFINE W == {"pending", "soon", "running"}
  <2>1. "done" \notin W /\ script[r] \in W BY <1>3
  <2>2. delayCount = Cardinality(InState(W)) /\ delayCount \in Nat
    BY DEF IInv, DelayCountExact, TypeOK
  <2> HIDE DEF W
  <2>3. Cardinality(InState(W)') = Cardinality(InState(W)) + 0 - 1
    BY <1>3, <2>1, CountAfter
  <2>4. delayCount' = Cardinality(InState(W)') BY <2>2, <2>3
  <2> QED BY <2>4 DEF DelayCountExact, W
<1>8. InState({"pending"})' = InState({"pending"})
  BY <1>3 DEF InState, TypeOK
<1>9. /\ tasks' \in Seq(TaskNames) /\ timerActive' \in BOOLEAN
      /\ Posted("ExecuteTask")' = Posted("ExecuteTask")
      /\ Posted("LoadEventDelayTimer")' = IF timerActive' THEN 1 ELSE 0
  <2>1. Posted("LoadEventDelayTimer") = IF timerActive THEN 1 ELSE 0
    BY DEF IInv, ClosuresMatch
  <2>2. CASE UNCHANGED <<tasks, timerActive>>
    BY <2>1, <2>2 DEF Posted, TypeOK, TaskNames
  <2>3. CASE ~timerActive /\ timerActive' = TRUE
             /\ tasks' = Append(tasks, "LoadEventDelayTimer")
    <3>1. /\ tasks' \in Seq(TaskNames)
          /\ Posted("LoadEventDelayTimer")' = Posted("LoadEventDelayTimer") + 1
          /\ Posted("ExecuteTask")' = Posted("ExecuteTask") + 0
          /\ Posted("ExecuteTask") \in Nat
      BY <2>3, PostedAfterPost, PostedCounts DEF TaskNames
    <3> QED BY <2>1, <2>3, <3>1
  <2> QED BY <2>2, <2>3 DEF CheckLoadEventSoon
<1>10. ClosuresMatch' BY <1>8, <1>9 DEF IInv, ClosuresMatch
<1>11. TypeOK'
  <2>1. delayCount' \in Nat BY <1>1 DEF TypeOK
  <2> QED BY <1>3, <1>4, <1>9, <2>1 DEF TypeOK, TaskNames, ScriptStates
<1>12. RunnerInOrder'
  <2>1. \A i \in 1..Len(soon) : soon[i] # r /\ soon[i] \in Scripts
    BY <1>3, ElementOfSeq DEF IInv, RunnerInOrder, TypeOK
  <2> QED BY <1>3, <2>1 DEF IInv, RunnerInOrder, TypeOK
<1>13. Known' BY <1>3 DEF IInv, Known, TypeOK
<1> QED BY <1>6, <1>7, <1>10, <1>11, <1>12, <1>13 DEF IInv

-----------------------------------------------------------------------------
(* The invariant holds. *)

(* A page that was only requested satisfies it. *)
LEMMA Initially == Init => IInv
<1> SUFFICES ASSUME Init PROVE IInv
  OBVIOUS
<1>1. TypeOK
  BY EmptySeq DEF Init, TypeOK, ScriptStates
<1>2. \A W : "new" \notin W => InState(W) = {}
  BY DEF Init, InState
<1>3. /\ InState({"pending", "soon", "running"}) = {}
      /\ InState({"pending"}) = {} /\ InState({"running"}) = {}
  BY <1>2
<1>4. DelayCountExact
  BY <1>3, FS_EmptySet DEF Init, DelayCountExact
<1>5. ClosuresMatch
  <2>1. \A t : {i \in DOMAIN tasks : tasks[i] = t} = {}
    BY DEF Init
  <2> QED BY <1>3, <2>1, FS_EmptySet DEF Init, ClosuresMatch, Posted
<1>6. RunnerInOrder /\ Known
  BY DEF Init, RunnerInOrder, Known
<1>7. OneRuns
  BY <1>3 DEF Init, OneRuns, Outermost, Decrements
<1> QED BY <1>1, <1>4, <1>5, <1>6, <1>7 DEF IInv

(* Every step preserves it. *)
LEMMA Inductive == IInv /\ [Next]_vars => IInv'
<1> SUFFICES ASSUME IInv, [Next]_vars PROVE IInv'
  OBVIOUS
<1>1. CASE MainThread
  <2>1. ASSUME NEW s \in Scripts, InlineScript(s) \/ BlockingScript(s) PROVE IInv'
    BY <2>1, ParserRunsScripts
  <2>2. ASSUME NEW s \in Scripts, AsyncScript(s) PROVE IInv'
    BY <2>2, ScriptIsPrepared
  <2>3. CASE \/ PumpStops \/ PumpEnds \/ Finish
             \/ FinishedParsing \/ ParsingIsFinished \/ StopParsing
    BY <2>3, ParserIsQuiet
  <2>4. CASE \/ JavaScriptReturns \/ CheckCompleted \/ ImplicitClose
             \/ LoadEventIsOver \/ DispatchDidFinishLoad
    BY <2>4, DocumentIsQuiet
  <2>5. CASE DecrementLoadEventDelayCount
    BY <2>5, ScriptIsDone
  <2> QED BY <1>1, <2>1, <2>2, <2>3, <2>4, <2>5 DEF MainThread
<1>2. CASE DispatchTask
  BY <1>2, AsyncTaskRuns, ExtraTaskRuns, TimerFires DEF DispatchTask
<1>3. CASE MainAnswers
  BY <1>3, ParserIsQuiet DEF MainAnswers
<1>4. ASSUME NEW s \in Scripts, ScriptAnswers(s) PROVE IInv'
  BY <1>4, AsyncScriptComes, ParserRunsScripts DEF ScriptAnswers
<1>5. ASSUME NEW s \in Scripts, InsertScript(s) PROVE IInv'
  BY <1>5, ScriptIsPrepared
<1>6. CASE UNCHANGED vars
  <2> USE <1>6 DEF vars, fetchVars, runnerVars, parserVars, documentVars
  <2>1. TypeOK' BY DEF IInv, TypeOK
  <2>2. \A W : InState(W)' = InState(W) BY DEF InState
  <2>3. DelayCountExact' /\ ClosuresMatch'
    BY <2>2 DEF IInv, DelayCountExact, ClosuresMatch, Posted
  <2>4. RunnerInOrder' /\ Known' /\ OneRuns'
    BY <2>2 DEF IInv, RunnerInOrder, Known, OneRuns
  <2> QED BY <2>1, <2>3, <2>4 DEF IInv
<1> QED BY <1>1, <1>2, <1>3, <1>4, <1>5, <1>6 DEF Next

(***************************************************************************)
(* Counts, closures, ready scripts and the outermost call of the main      *)
(* thread agree at every moment of a page load (ScriptRunner and the load  *)
(* event of Document).                                                     *)
(***************************************************************************)
THEOREM PageInvariant == Spec => []IInv
BY Initially, Inductive, PTL DEF Spec

-----------------------------------------------------------------------------
(* The end of the parser. *)

(* end() is the next call but for a listener, and the parser waits for it. *)
EndIsNext ==
    \A i \in 1..Len(stack) : stack[i] = "end" =>
        /\ i = 1 \/ (i = 2 /\ stack[1] = "listener")
        /\ parser = "stopping" /\ ready # "loading"

Endless(fr) == fr \in Seq(Frames \ {"end"})

(* Calls among which there is no end(). *)
LEMMA EndlessCalls ==
    /\ Endless(<<>>) /\ Endless(<<"pump">>) /\ Endless(<<"script">>)
    /\ Endless(<<"checkCompleted">>) /\ Endless(<<"close">>) /\ Endless(<<"announce">>)
    /\ Endless(<<"listener">>) /\ Endless(<<"listener", "decrement">>)
    /\ Endless(<<"listener", "parsed">>) /\ Endless(<<"listener", "close">>)
    /\ Endless(<<"checkCompleted", "stopParsing">>)
    /\ Endless(<<"listener", "closed", "announce">>)
    /\ Endless(<<"pump", "finish", "checkCompleted">>)
    /\ Endless(<<"script", "pump", "checkCompleted">>)
BY DEF Endless, Frames

(* No call but a listener has end() behind it. *)
LEMMA NoEndBehind ==
    ASSUME TypeOK, EndIsNext, stack # <<>>, Head(stack) # "listener"
    PROVE  Endless(Tail(stack))
<1>1. /\ Tail(stack) \in Seq(Frames) /\ Len(Tail(stack)) = Len(stack) - 1
      /\ \A i \in 1..Len(Tail(stack)) : Tail(stack)[i] = stack[i + 1]
      /\ Len(stack) \in Nat /\ Head(stack) = stack[1]
  BY HeadTailProperties, LenProperties DEF TypeOK
<1>2. ASSUME NEW i \in 1..Len(Tail(stack)) PROVE Tail(stack)[i] \in Frames \ {"end"}
  <2>1. i + 1 \in 1..Len(stack) /\ i + 1 # 1 BY <1>1
  <2>2. stack[i + 1] # "end" BY <1>1, <2>1 DEF EndIsNext
  <2> QED BY <1>1, <2>2, ElementOfSeq
<1> DEFINE rest == Tail(stack)
<1>3. rest \in Seq(Frames) /\ \A i \in 1..Len(rest) : rest[i] \in Frames \ {"end"}
  BY <1>1, <1>2
<1> HIDE DEF rest
<1>4. rest \in [1..Len(rest) -> Frames \ {"end"}] /\ Len(rest) \in Nat
  BY <1>3, LenProperties
<1>5. Endless(rest) BY <1>4, SeqDef DEF Endless
<1> QED BY <1>5 DEF rest

(* Nothing is claimed of a stack without end(). *)
LEMMA EndlessStack ==
    ASSUME Endless(stack') PROVE EndIsNext'
<1>1. \A i \in 1..Len(stack') : stack'[i] \in Frames \ {"end"}
  BY ElementOfSeq DEF Endless
<1> QED BY <1>1 DEF EndIsNext

(* A call other than a listener goes on without end(). *)
LEMMA EndGoesOn ==
    ASSUME TypeOK, EndIsNext, NEW fr, Endless(fr),
           \/ GoOnWith(fr) /\ stack # <<>> /\ Head(stack) # "listener"
           \/ Call(fr) /\ stack = <<>>
    PROVE  EndIsNext'
<1>1. CASE GoOnWith(fr) /\ stack # <<>> /\ Head(stack) # "listener"
  <2>1. Endless(Tail(stack)) BY <1>1, NoEndBehind
  <2>2. Endless(stack')
    BY <1>1, <2>1, ConcatProperties DEF Endless, GoOnWith
  <2> QED BY <2>2, EndlessStack
<1>2. CASE Call(fr) /\ stack = <<>>
  <2>1. stack' = fr BY <1>2, ConcatEmptySeq DEF Call, Endless
  <2> QED BY <2>1, EndlessStack
<1> QED BY <1>1, <1>2

(* PrepareToStopParsing calls a listener and then end(). *)
LEMMA EndIsPrepared ==
    ASSUME TypeOK, EndIsNext, stack # <<>>, Head(stack) # "listener",
           PrepareToStopParsing(<<>>)
    PROVE  EndIsNext'
<1> DEFINE fr == <<"listener", "end">>
           rest == Tail(stack)
<1>1. /\ fr \in Seq(Frames) /\ Len(fr) = 2 /\ fr[1] = "listener"
  BY DEF Frames
<1>2. Endless(rest) BY NoEndBehind
<1>3. rest \in Seq(Frames) /\ Len(rest) \in Nat
  BY HeadTailProperties, LenProperties DEF TypeOK
<1>4. \A i \in 1..Len(rest) : rest[i] # "end"
  BY <1>2, ElementOfSeq DEF Endless
<1>5. stack' = fr \o rest /\ parser' = "stopping" /\ ready' = "interactive"
  BY ParserStops DEF GoOnWith
<1> HIDE DEF fr, rest
<1>6. /\ Len(stack') = 2 + Len(rest) /\ stack'[1] = "listener"
      /\ \A i \in 1..(2 + Len(rest)) : i > 2 => stack'[i] = rest[i - 2]
  <2>1. /\ Len(fr \o rest) = Len(fr) + Len(rest)
        /\ \A i \in 1..(Len(fr) + Len(rest)) :
              (fr \o rest)[i] = IF i <= Len(fr) THEN fr[i] ELSE rest[i - Len(fr)]
    BY <1>1, <1>3, ConcatProperties
  <2>2. stack' = fr \o rest BY <1>5
  <2> QED BY <1>1, <1>3, <2>1, <2>2
<1>7. ASSUME NEW i \in 1..Len(stack'), stack'[i] = "end" PROVE i = 2
  <2>1. i \in Int /\ i >= 1 /\ i <= 2 + Len(rest) BY <1>3, <1>6
  <2>2. CASE i > 2
    <3>1. i - 2 \in 1..Len(rest) BY <1>3, <2>1, <2>2
    <3> QED BY <1>4, <1>6, <1>7, <2>2, <3>1
  <2> QED BY <1>6, <1>7, <2>1, <2>2
<1> QED BY <1>5, <1>6, <1>7 DEF EndIsNext

(* One step per action. *)
LEMMA EndStaysNext ==
    ASSUME TypeOK, EndIsNext, [Next]_vars
    PROVE  EndIsNext'
<1> USE EndlessCalls DEF In, fetchVars, runnerVars, parserVars, documentVars
<1>1. ASSUME NEW calls, calls = <<>> \/ calls = <<"script">>,
             NEW s \in Scripts, ReadScript(s, calls)
      PROVE  EndIsNext'
  <2>1. stack # <<>> /\ Head(stack) \in {"pump", "script"} /\ stack \in Seq(Frames)
    BY <1>1 DEF ReadScript, CanTakeNextToken, TypeOK
  <2>2. Endless(stack)
    <3>1. \A i \in 1..Len(stack) : stack[i] \in Frames \ {"end"}
      <4>1. Head(stack) = stack[1] BY <2>1, HeadTailProperties
      <4> QED BY <2>1, <4>1, ElementOfSeq DEF EndIsNext
    <3>2. stack \in [1..Len(stack) -> Frames \ {"end"}] /\ Len(stack) \in Nat
      BY <2>1, <3>1, LenProperties
    <3> QED BY <3>2, SeqDef DEF Endless
  <2>3. Endless(calls) BY <1>1
  <2>4. Endless(stack')
    BY <1>1, <2>2, <2>3, ConcatProperties DEF ReadScript, Endless
  <2> QED BY <2>4, EndlessStack
<1>2. ASSUME NEW s \in Scripts,
             InlineScript(s) \/ BlockingScript(s) \/ AsyncScript(s)
      PROVE  EndIsNext'
  BY <1>1, <1>2 DEF InlineScript, BlockingScript, AsyncScript
<1>3. CASE PumpStops BY <1>3, EndGoesOn DEF PumpStops
<1>4. CASE PumpEnds
  BY <1>4, EndGoesOn, EndIsPrepared DEF PumpEnds
<1>5. CASE Finish
  BY <1>5, EndGoesOn, EndIsPrepared DEF Finish
<1>6. CASE FinishedParsing BY <1>6, EndGoesOn DEF FinishedParsing
<1>7. CASE ParsingIsFinished BY <1>7, EndGoesOn DEF ParsingIsFinished
<1>8. CASE StopParsing BY <1>8, EndGoesOn DEF StopParsing
<1>9. CASE JavaScriptReturns
  <2>1. stack \in Seq(Frames) /\ stack # <<>>
        /\ UNCHANGED <<parser, ready>>
    BY <1>9 DEF JavaScriptReturns, InJavaScript, TypeOK
  <2>2. /\ Tail(stack) \in Seq(Frames) /\ Len(Tail(stack)) = Len(stack) - 1
        /\ \A i \in 1..Len(Tail(stack)) : Tail(stack)[i] = stack[i + 1]
        /\ Len(stack) \in Nat
    BY <2>1, HeadTailProperties, LenProperties
  <2>3. stack' = Tail(stack)
    BY <1>9, <2>2, ConcatEmptySeq DEF JavaScriptReturns, GoOnWith
  <2>4. ASSUME NEW i \in 1..Len(stack'), stack'[i] = "end"
        PROVE  i = 1 /\ parser = "stopping" /\ ready # "loading"
    <3>1. i + 1 \in 1..Len(stack) /\ stack[i + 1] = "end" /\ i \in Int /\ i >= 1
      BY <2>2, <2>3, <2>4
    <3>2. (i + 1 = 1 \/ i + 1 = 2) /\ parser = "stopping" /\ ready # "loading"
      BY <3>1 DEF EndIsNext
    <3> QED BY <3>1, <3>2
  <2> QED BY <2>1, <2>4 DEF EndIsNext
<1>10. CASE DecrementLoadEventDelayCount
  BY <1>10, EndGoesOn DEF DecrementLoadEventDelayCount
<1>11. CASE CheckCompleted BY <1>11, EndGoesOn DEF CheckCompleted
<1>12. CASE ImplicitClose BY <1>12, EndGoesOn DEF ImplicitClose
<1>13. CASE LoadEventIsOver BY <1>13, EndGoesOn DEF LoadEventIsOver
<1>14. CASE DispatchDidFinishLoad BY <1>14, EndGoesOn DEF DispatchDidFinishLoad
<1>15. CASE ExecuteAsyncTask
  BY <1>15, EndGoesOn DEF ExecuteAsyncTask, Dispatch, Idle
<1>16. CASE LoadEventDelayTimerFired
  BY <1>16, EndGoesOn DEF LoadEventDelayTimerFired, Dispatch, Idle
<1>17. CASE MainResourceAnswers
  BY <1>17, EndGoesOn DEF MainResourceAnswers, Idle
<1>18. ASSUME NEW s \in Scripts, ScriptAnswers(s) PROVE EndIsNext'
  BY <1>18, EndGoesOn DEF ScriptAnswers, AsyncScriptAnswers, BlockingScriptAnswers, Idle
<1>19. CASE UNCHANGED <<stack, parser, ready>>
  BY <1>19 DEF EndIsNext
<1>20. ASSUME NEW s \in Scripts, InsertScript(s) PROVE EndIsNext'
  BY <1>19, <1>20 DEF InsertScript
<1>21. CASE ExecuteExtraTask \/ MainResourceFails \/ UNCHANGED vars
  BY <1>19, <1>21 DEF ExecuteExtraTask, MainResourceFails, vars
<1> QED
  BY <1>2, <1>3, <1>4, <1>5, <1>6, <1>7, <1>8, <1>9, <1>10, <1>11, <1>12, <1>13,
     <1>14, <1>15, <1>16, <1>17, <1>18, <1>20, <1>21
     DEF Next, MainThread, DispatchTask, MainAnswers

(***************************************************************************)
(* Between PrepareToStopParsing and end() nothing but a readystatechange   *)
(* listener runs (html_document_parser.cc:184).                            *)
(***************************************************************************)
THEOREM EndInvariant == Spec => []EndIsNext
<1>1. Init => EndIsNext BY DEF Init, EndIsNext
<1>2. IInv /\ EndIsNext /\ [Next]_vars => EndIsNext'
  BY EndStaysNext DEF IInv
<1> QED BY <1>1, <1>2, PageInvariant, PTL DEF Spec

-----------------------------------------------------------------------------
(* Theorems. *)

(***************************************************************************)
(* Every variable of a page keeps its type.  For m_loadEventDelayCount and *)
(* m_numberOfExtraTasks, which are decremented, this is that they never    *)
(* become negative (document.cpp:642, script_runner.cpp:131).              *)
(***************************************************************************)
THEOREM TypeCorrect == Spec => []TypeOK
<1>1. IInv => TypeOK BY DEF IInv
<1> QED BY <1>1, PageInvariant, PTL

(***************************************************************************)
(* The load event is delayed by exactly the asynchronous scripts that have *)
(* not been executed (document.cpp:642, script_runner.cpp:195 and 110).    *)
(***************************************************************************)
THEOREM DelayIsExact == Spec => []DelayCountExact
<1>1. IInv => DelayCountExact BY DEF IInv
<1> QED BY <1>1, PageInvariant, PTL

(***************************************************************************)
(* Each ready script has a closure that will execute it, each closure has  *)
(* a script or was announced as extra, and the delay timer has one closure *)
(* exactly while it is active (script_runner.cpp:131, document.cpp:530).   *)
(***************************************************************************)
THEOREM ClosuresAreMatched == Spec => []ClosuresMatch
<1>1. IInv => ClosuresMatch BY DEF IInv
<1> QED BY <1>1, PageInvariant, PTL

(* The invariants imply the assertions. *)
LEMMA AssertsFollow == IInv /\ EndIsNext => AssertsHold
<1> SUFFICES ASSUME IInv, EndIsNext PROVE AssertsHold
  OBVIOUS
<1> TypeOK BY DEF IInv
<1>1. ASSUME tasks # <<>>, Head(tasks) = "ExecuteTask", soon = <<>>
      PROVE  extraTasks > 0
  <2> DEFINE waiting == Cardinality(streamed \cap InState({"pending"}))
             left == Cardinality(Places(Tail(tasks), "ExecuteTask"))
  <2>1. tasks \in Seq(TaskNames) BY DEF TypeOK, TaskNames
  <2>2. left \in Nat BY <1>1, <2>1, HeadTailProperties, PlacesFinite
  <2>3. left = Posted("ExecuteTask") - 1
    BY <1>1, <2>1, PlacesTail, PostedCounts
  <2>4. Posted("ExecuteTask") \in Nat BY PostedCounts
  <2>5. waiting \in Nat
    BY InStateFinite, FS_Subset, FS_CardinalityType
  <2>6. Posted("ExecuteTask") + waiting = extraTasks /\ extraTasks \in Nat
    BY <1>1 DEF IInv, ClosuresMatch, TypeOK
  <2> HIDE DEF waiting, left
  <2> QED BY <2>2, <2>3, <2>4, <2>5, <2>6
<1>2. In("decrement") => delayCount > 0 BY DecrementIsDue
<1>3. ASSUME In("end") PROVE parser = "stopping" /\ ready # "loading"
  <2>1. 1 \in 1..Len(stack) /\ stack[1] = "end"
    BY <1>3, HeadTailProperties, LenProperties, EmptySeq DEF In, TypeOK
  <2> QED BY <2>1 DEF EndIsNext
<1> QED BY <1>1, <1>2, <1>3 DEF AssertsHold

(***************************************************************************)
(* The assertions on the way to the load event hold: ExecuteTask finds a   *)
(* script or an extra task to account for it, the delay count is positive  *)
(* when it is decremented, and a document that finishes parsing has a      *)
(* parser that stops (script_runner.cpp:146, document.cpp:644 and 768).    *)
(***************************************************************************)
THEOREM NoAssertFails == Spec => []AssertsHold
BY AssertsFollow, PageInvariant, EndInvariant, PTL

=============================================================================
