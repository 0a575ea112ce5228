-------------------------- MODULE PageBarrierProofs --------------------------
(***************************************************************************)
(* A page of PageLoad is a LoadBarrier, whatever its scripts do and in     *)
(* whatever order the network answers: it ends its parser clean, loses no  *)
(* check, tells the client once and closes the document only when all it   *)
(* waits for is done; it does not stall, and every step brings it nearer   *)
(* to its end.  The invariant relates the calls under way to the state of  *)
(* the parser and of the document.                                         *)
(***************************************************************************)
EXTENDS PageLoadProofs

-----------------------------------------------------------------------------
(* The calls under way. *)

UnderWay(st) == {st[i] : i \in 1..Len(st)}

(***************************************************************************)
(* The main resource has arrived and is not finished: Finish is called     *)
(* last but for a check, and a pump session comes before it as long as     *)
(* there is input that the parser could read.                              *)
(***************************************************************************)
FinishShape(st, busy) ==
    \A i \in 1..Len(st) : st[i] = "finish" =>
        /\ i + 1 = Len(st) /\ st[i + 1] = "checkCompleted"
        /\ busy => i > 1 /\ st[i - 1] = "pump"

(* When the load event is over, the announcement comes next. *)
ClosedShape(st) ==
    \A i \in 1..Len(st) : st[i] = "closed" =>
        i < Len(st) /\ st[i + 1] = "announce"

(* The calls that are made. *)
LEMMA CallsMade ==
    /\ UnderWay(<<>>) = {} /\ UnderWay(<<"pump">>) = {"pump"}
    /\ UnderWay(<<"script">>) = {"script"} /\ UnderWay(<<"close">>) = {"close"}
    /\ UnderWay(<<"checkCompleted">>) = {"checkCompleted"}
    /\ UnderWay(<<"announce">>) = {"announce"}
    /\ UnderWay(<<"listener">>) = {"listener"}
    /\ UnderWay(<<"listener", "end">>) = {"listener", "end"}
    /\ UnderWay(<<"listener", "decrement">>) = {"listener", "decrement"}
    /\ UnderWay(<<"listener", "parsed">>) = {"listener", "parsed"}
    /\ UnderWay(<<"listener", "close">>) = {"listener", "close"}
    /\ UnderWay(<<"checkCompleted", "stopParsing">>) = {"checkCompleted", "stopParsing"}
    /\ UnderWay(<<"listener", "closed", "announce">>) = {"listener", "closed", "announce"}
    /\ UnderWay(<<"pump", "finish", "checkCompleted">>) = {"pump", "finish", "checkCompleted"}
    /\ UnderWay(<<"script", "pump", "checkCompleted">>) = {"script", "pump", "checkCompleted"}
BY DEF UnderWay

(* All of them are frames. *)
LEMMA CallsAreFrames ==
    ASSUME NEW fr, Plain(fr) \/ fr = <<"listener", "decrement">>
    PROVE  fr \in Seq(Frames)
<1>1. CASE Plain(fr)
  <2>1. \A i \in 1..Len(fr) : fr[i] \in Frames
    BY <1>1, ElementOfSeq DEF Plain
  <2>2. fr \in [1..Len(fr) -> Frames] /\ Len(fr) \in Nat
    BY <1>1, <2>1, LenProperties DEF Plain
  <2> QED BY <2>2, SeqDef
<1>2. CASE fr = <<"listener", "decrement">> BY <1>2 DEF Frames
<1> QED BY <1>1, <1>2

(* Calls on top of others. *)
LEMMA UnderWayConcat ==
    ASSUME NEW fr \in Seq(Frames), NEW st \in Seq(Frames)
    PROVE  UnderWay(fr \o st) = UnderWay(fr) \cup UnderWay(st)
<1>1. /\ Len(fr \o st) = Len(fr) + Len(st) /\ Len(fr) \in Nat /\ Len(st) \in Nat
      /\ \A i \in 1..(Len(fr) + Len(st)) :
            (fr \o st)[i] = IF i <= Len(fr) THEN fr[i] ELSE st[i - Len(fr)]
  BY ConcatProperties, LenProperties
<1>2. ASSUME NEW i \in 1..Len(fr \o st)
      PROVE  (fr \o st)[i] \in UnderWay(fr) \cup UnderWay(st)
  <2>1. CASE i <= Len(fr) BY <1>1, <2>1 DEF UnderWay
  <2>2. CASE i > Len(fr)
    <3>1. i - Len(fr) \in 1..Len(st) BY <1>1, <2>2
    <3> QED BY <1>1, <2>2, <3>1 DEF UnderWay
  <2> QED BY <1>1, <2>1, <2>2
<1>3. ASSUME NEW i \in 1..Len(fr) PROVE fr[i] \in UnderWay(fr \o st)
  <2>1. i \in 1..Len(fr \o st) /\ (fr \o st)[i] = fr[i] BY <1>1
  <2> QED BY <2>1 DEF UnderWay
<1>4. ASSUME NEW i \in 1..Len(st) PROVE st[i] \in UnderWay(fr \o st)
  <2>1. i + Len(fr) \in 1..Len(fr \o st) /\ (fr \o st)[i + Len(fr)] = st[i] BY <1>1
  <2> QED BY <2>1 DEF UnderWay
<1>5. UnderWay(fr \o st) \subseteq UnderWay(fr) \cup UnderWay(st)
  BY <1>2 DEF UnderWay
<1>6. UnderWay(fr) \subseteq UnderWay(fr \o st) BY <1>3 DEF UnderWay
<1>7. UnderWay(st) \subseteq UnderWay(fr \o st) BY <1>4 DEF UnderWay
<1> QED BY <1>5, <1>6, <1>7

LEMMA ShapesConcat ==
    ASSUME NEW fr \in Seq(Frames), NEW st \in Seq(Frames), NEW busy,
           FinishShape(st, busy), ClosedShape(st),
           "finish" \notin UnderWay(fr), ClosedShape(fr)
    PROVE  FinishShape(fr \o st, busy) /\ ClosedShape(fr \o st)
<1>1. /\ Len(fr \o st) = Len(fr) + Len(st) /\ Len(fr) \in Nat /\ Len(st) \in Nat
      /\ \A i \in 1..(Len(fr) + Len(st)) :
            (fr \o st)[i] = IF i <= Len(fr) THEN fr[i] ELSE st[i - Len(fr)]
  BY ConcatProperties, LenProperties
<1>2. FinishShape(fr \o st, busy)
  <2> SUFFICES ASSUME NEW i \in 1..Len(fr \o st), (fr \o st)[i] = "finish"
               PROVE  /\ i + 1 = Len(fr \o st) /\ (fr \o st)[i + 1] = "checkCompleted"
                      /\ busy => i > 1 /\ (fr \o st)[i - 1] = "pump"
    BY DEF FinishShape
  <2> DEFINE j == i - Len(fr)
  <2>1. j \in 1..Len(st) /\ st[j] = "finish" BY <1>1 DEF UnderWay
  <2>2. /\ j + 1 = Len(st) /\ st[j + 1] = "checkCompleted"
        /\ busy => j > 1 /\ st[j - 1] = "pump"
    BY <2>1 DEF FinishShape
  <2> QED BY <1>1, <2>1, <2>2
<1>3. ClosedShape(fr \o st)
  <2> SUFFICES ASSUME NEW i \in 1..Len(fr \o st), (fr \o st)[i] = "closed"
               PROVE  i < Len(fr \o st) /\ (fr \o st)[i + 1] = "announce"
    BY DEF ClosedShape
  <2> DEFINE j == i - Len(fr)
  <2>1. CASE i <= Len(fr)
    <3>1. i < Len(fr) /\ fr[i + 1] = "announce" BY <1>1, <2>1 DEF ClosedShape
    <3> QED BY <1>1, <3>1
  <2>2. CASE i > Len(fr)
    <3>1. j \in 1..Len(st) /\ st[j] = "closed" BY <1>1, <2>2
    <3>2. j < Len(st) /\ st[j + 1] = "announce" BY <3>1 DEF ClosedShape
    <3> QED BY <1>1, <3>1, <3>2
  <2> QED BY <1>1, <2>1, <2>2
<1> QED BY <1>2, <1>3

(* The running call and those behind it. *)
LEMMA Behind ==
    ASSUME NEW st \in Seq(Frames), st # <<>>
    PROVE  /\ Tail(st) \in Seq(Frames) /\ Len(Tail(st)) = Len(st) - 1
           /\ Len(st) \in Nat /\ Len(st) >= 1 /\ Head(st) = st[1]
           /\ \A i \in 1..Len(Tail(st)) : Tail(st)[i] = st[i + 1]
           /\ \A i \in 2..Len(st) : i - 1 \in 1..Len(Tail(st)) /\ st[i] = Tail(st)[i - 1]
BY HeadTailProperties, LenProperties, EmptySeq

LEMMA UnderWayTail ==
    ASSUME NEW st \in Seq(Frames), st # <<>>
    PROVE  /\ UnderWay(st) = {Head(st)} \cup UnderWay(Tail(st))
           /\ \A F : (\E i \in 2..Len(st) : st[i] \in F) <=> UnderWay(Tail(st)) \cap F # {}
<1>1. ASSUME NEW i \in 1..Len(st) PROVE st[i] \in {Head(st)} \cup UnderWay(Tail(st))
  <2>1. CASE i = 1 BY <2>1, Behind
  <2>2. CASE i # 1
    <3>1. i \in 2..Len(st) BY <2>2
    <3>2. i - 1 \in 1..Len(Tail(st)) /\ st[i] = Tail(st)[i - 1] BY <3>1, Behind
    <3> QED BY <3>2 DEF UnderWay
  <2> QED BY <2>1, <2>2
<1>2. ASSUME NEW i \in 1..Len(Tail(st))
      PROVE  i + 1 \in 2..Len(st) /\ Tail(st)[i] = st[i + 1]
  BY Behind
<1>3. 1 \in 1..Len(st) /\ Head(st) = st[1] BY Behind
<1>4. Head(st) \in UnderWay(st) BY <1>3 DEF UnderWay
<1>5. UnderWay(Tail(st)) \subseteq UnderWay(st)
  <2>1. \A i \in 1..Len(Tail(st)) : i + 1 \in 1..Len(st) /\ Tail(st)[i] = st[i + 1]
    BY <1>2
  <2> QED BY <2>1 DEF UnderWay
<1>6. UnderWay(st) \subseteq {Head(st)} \cup UnderWay(Tail(st))
  BY <1>1 DEF UnderWay
<1>7. ASSUME NEW F PROVE (\E i \in 2..Len(st) : st[i] \in F) <=> UnderWay(Tail(st)) \cap F # {}
  <2>1. ASSUME NEW i \in 2..Len(st), st[i] \in F PROVE UnderWay(Tail(st)) \cap F # {}
    <3>1. i - 1 \in 1..Len(Tail(st)) /\ st[i] = Tail(st)[i - 1] BY Behind
    <3> QED BY <2>1, <3>1 DEF UnderWay
  <2>2. ASSUME NEW i \in 1..Len(Tail(st)), Tail(st)[i] \in F
        PROVE  \E j \in 2..Len(st) : st[j] \in F
    BY <1>2, <2>2
  <2> QED BY <2>1, <2>2 DEF UnderWay
<1> QED BY <1>4, <1>5, <1>6, <1>7

(* What the shapes say when the running call returns. *)
LEMMA ShapesTail ==
    ASSUME NEW st \in Seq(Frames), st # <<>>, NEW busy \in BOOLEAN,
           FinishShape(st, busy), ClosedShape(st)
    PROVE  /\ FinishShape(Tail(st), busy /\ Head(st) # "pump") /\ ClosedShape(Tail(st))
           /\ UnderWay(Tail(st)) \cap {"pump", "script"} # {} => FinishShape(Tail(st), busy)
           /\ Head(st) = "finish" => ~busy /\ UnderWay(Tail(st)) = {"checkCompleted"}
           /\ Head(st) = "closed" => "announce" \in UnderWay(Tail(st))
<1> DEFINE t == Tail(st)
<1>1. /\ t \in Seq(Frames) /\ Len(t) = Len(st) - 1
      /\ Len(st) \in Nat /\ Len(st) >= 1 /\ Head(st) = st[1]
      /\ \A i \in 1..Len(t) : t[i] = st[i + 1]
  BY Behind
<1> HIDE DEF t
<1>2. ASSUME NEW i \in 1..Len(t), t[i] = "finish"
      PROVE  /\ i + 1 = Len(t) /\ t[i + 1] = "checkCompleted"
             /\ busy => IF i = 1 THEN Head(st) = "pump" ELSE t[i - 1] = "pump"
  <2>1. i + 1 \in 1..Len(st) /\ st[i + 1] = "finish" BY <1>1, <1>2
  <2>2. /\ (i + 1) + 1 = Len(st) /\ st[(i + 1) + 1] = "checkCompleted"
        /\ busy => i + 1 > 1 /\ st[(i + 1) - 1] = "pump"
    BY <2>1 DEF FinishShape
  <2>3. i + 1 = Len(t) /\ t[i + 1] = "checkCompleted" BY <1>1, <2>1, <2>2
  <2>4. (i + 1) - 1 = i BY <1>1
  <2>5. i # 1 => i - 1 \in 1..Len(t) /\ t[i - 1] = st[i] BY <1>1
  <2> QED BY <1>1, <2>2, <2>3, <2>4, <2>5
<1>3. FinishShape(t, busy /\ Head(st) # "pump")
  BY <1>1, <1>2 DEF FinishShape
<1>4. ASSUME UnderWay(t) \cap {"pump", "script"} # {} PROVE FinishShape(t, busy)
  <2>1. PICK k \in 1..Len(t) : t[k] \in {"pump", "script"} BY <1>4 DEF UnderWay
  <2>2. ASSUME NEW i \in 1..Len(t), t[i] = "finish" PROVE i # 1
    <3>1. i + 1 = Len(t) /\ t[i + 1] = "checkCompleted" BY <1>2, <2>2
    <3> QED BY <1>1, <2>1, <2>2, <3>1
  <2> QED BY <1>1, <1>2, <2>2 DEF FinishShape
<1>5. ClosedShape(t)
  <2> SUFFICES ASSUME NEW i \in 1..Len(t), t[i] = "closed"
               PROVE  i < Len(t) /\ t[i + 1] = "announce"
    BY DEF ClosedShape
  <2>1. i + 1 \in 1..Len(st) /\ st[i + 1] = "closed" BY <1>1
  <2>2. i + 1 < Len(st) /\ st[(i + 1) + 1] = "announce" BY <2>1 DEF ClosedShape
  <2> QED BY <1>1, <2>1, <2>2
<1>6. ASSUME Head(st) = "finish" PROVE ~busy /\ UnderWay(t) = {"checkCompleted"}
  <2>1. 1 \in 1..Len(st) /\ st[1] = "finish" BY <1>1, <1>6
  <2>2. /\ 1 + 1 = Len(st) /\ st[1 + 1] = "checkCompleted"
        /\ busy => 1 > 1 /\ st[1 - 1] = "pump"
    BY <2>1 DEF FinishShape
  <2>3. 1 + 1 = Len(st) BY <2>2
  <2>4. Len(t) = Len(st) - 1 /\ Len(st) \in Int BY <1>1
  <2>5. Len(t) = 1 BY <2>3, <2>4
  <2>6. t[1] = st[1 + 1] BY <1>1, <2>5
  <2>7. UnderWay(t) = {"checkCompleted"} BY <2>2, <2>5, <2>6 DEF UnderWay
  <2> QED BY <2>2, <2>7
<1>7. ASSUME Head(st) = "closed" PROVE "announce" \in UnderWay(t)
  <2>1. 1 \in 1..Len(st) /\ st[1] = "closed" BY <1>1, <1>7
  <2>2. 1 < Len(st) /\ st[1 + 1] = "announce" BY <2>1 DEF ClosedShape
  <2>3. 1 \in 1..Len(t) /\ t[1] = "announce" BY <1>1, <2>2
  <2> QED BY <2>3 DEF UnderWay
<1> QED BY <1>3, <1>4, <1>5, <1>6, <1>7 DEF t

(* No call is made with a finish under way but the page's, and closed is paired. *)
LEMMA CallsInShape ==
    /\ ClosedShape(<<>>) /\ ClosedShape(<<"pump">>) /\ ClosedShape(<<"script">>)
    /\ ClosedShape(<<"checkCompleted">>) /\ ClosedShape(<<"close">>)
    /\ ClosedShape(<<"announce">>) /\ ClosedShape(<<"listener">>)
    /\ ClosedShape(<<"listener", "end">>) /\ ClosedShape(<<"listener", "decrement">>)
    /\ ClosedShape(<<"listener", "parsed">>) /\ ClosedShape(<<"listener", "close">>)
    /\ ClosedShape(<<"checkCompleted", "stopParsing">>)
    /\ ClosedShape(<<"listener", "closed", "announce">>)
    /\ ClosedShape(<<"script", "pump", "checkCompleted">>)
    /\ ClosedShape(<<"pump", "finish", "checkCompleted">>)
    /\ \A busy : FinishShape(<<"pump", "finish", "checkCompleted">>, busy)
BY DEF ClosedShape, FinishShape

-----------------------------------------------------------------------------
(* The invariant. *)

Stops == {"stopping", "stopped", "detached"}

(* A parser that stops has nothing left to read, to run or to wait for. *)
StopsClean ==
    parser \in Stops =>
        ~unread /\ blocking = None /\ UnderWay(stack) \cap {"pump", "script"} = {}

(* What comes after the end of the parser comes after it. *)
AfterStop ==
    /\ UnderWay(stack) \cap {"end", "parsed", "stopParsing", "close"} # {}
          => parser \in Stops
    /\ parsing = "finished" => parser \in Stops \cup {"none"}

(* The ready state is behind neither the parser nor the document's checks. *)
ReadyInOrder ==
    /\ parser = "parsing" => ready = "loading"
    /\ UnderWay(stack) \cap {"close", "announce"} # {} => ready = "complete"

(* Parsing is not finished before the end() of the parser. *)
Unfinished ==
    parser = "parsing" \/ "end" \in UnderWay(stack) => parsing = "parsing"

(* Before the commit there is nothing but the request. *)
NotYet ==
    parser = "none" =>
        /\ stack = <<>> /\ tasks = <<>> /\ blocking = None /\ parsing = "finished"
        /\ \A s \in Scripts : script[s] = "new"
        /\ ~sent

Busy == unread /\ blocking = None

(* The main resource is finished in the closure that delivers it. *)
Arrives ==
    /\ FinishShape(stack, Busy)
    /\ "finish" \in UnderWay(stack) => Main \in loading /\ parser = "parsing"
    /\ Main \in loading /\ parser # "none" => "finish" \in UnderWay(stack)
    /\ endDelayed => Main \notin loading

(* What the client was told. *)
ToldOnce ==
    told = IF sent THEN <<"ready">>
           ELSE IF parser = "none" /\ Main \notin loading THEN <<"failed">> ELSE <<>>

(* No script but the parser's blocks it. *)
OnlyBlocking == \A s \in Scripts : script[s] = "blocking" => blocking = s

(* A page that nothing holds back is about to be checked or announced. *)
CheckComes ==
    /\ ClosedShape(stack)
    /\ parser # "none" /\ ShouldComplete /\ told = <<>> =>
          \/ timerActive
          \/ UnderWay(stack) \cap {"checkCompleted", "close", "announce"} # {}

PageInv ==
    /\ StopsClean /\ AfterStop /\ ReadyInOrder /\ Unfinished /\ NotYet
    /\ Arrives /\ ToldOnce /\ OnlyBlocking /\ CheckComes

-----------------------------------------------------------------------------
(* Calls and returns. *)

(* The running call makes others. *)
LEMMA CallStep ==
    ASSUME TypeOK, Arrives, CheckComes, NEW fr, Call(fr),
           Plain(fr) \/ fr = <<"listener", "decrement">>,
           "finish" \notin UnderWay(fr), ClosedShape(fr)
    PROVE  /\ UnderWay(stack') = UnderWay(fr) \cup UnderWay(stack)
           /\ FinishShape(stack', Busy) /\ ClosedShape(stack')
<1>1. fr \in Seq(Frames) /\ stack \in Seq(Frames)
  BY CallsAreFrames DEF TypeOK
<1> QED BY <1>1, UnderWayConcat, ShapesConcat DEF Call, Arrives, CheckComes

(* The running call f goes on with others, or just returns. *)
LEMMA ReturnStep ==
    ASSUME TypeOK, Arrives, CheckComes, NEW f, In(f),
           NEW fr, GoOnWith(fr), Plain(fr), "finish" \notin UnderWay(fr), ClosedShape(fr)
    PROVE  LET B == UnderWay(Tail(stack)) IN
           /\ UnderWay(stack) = {f} \cup B
           /\ UnderWay(stack') = UnderWay(fr) \cup B
           /\ ClosedShape(stack')
           /\ f # "pump" \/ B \cap {"pump", "script"} # {} => FinishShape(stack', Busy)
           /\ FinishShape(stack', FALSE)
           /\ f = "finish" => ~Busy /\ B = {"checkCompleted"}
           /\ f = "closed" => "announce" \in B
           /\ ShouldDelayEnd <=> blocking # None \/ B \cap {"pump", "script"} # {}
<1> DEFINE t == Tail(stack)
<1>1. fr \in Seq(Frames) /\ stack \in Seq(Frames) /\ stack # <<>> /\ Head(stack) = f
  BY CallsAreFrames DEF TypeOK, In
<1>2. t \in Seq(Frames) BY <1>1, Behind
<1>3. Busy \in BOOLEAN BY DEF Busy, TypeOK
<1>4. /\ FinishShape(t, Busy /\ f # "pump") /\ ClosedShape(t)
      /\ UnderWay(t) \cap {"pump", "script"} # {} => FinishShape(t, Busy)
      /\ f = "finish" => ~Busy /\ UnderWay(t) = {"checkCompleted"}
      /\ f = "closed" => "announce" \in UnderWay(t)
  BY <1>1, <1>3, ShapesTail DEF Arrives, CheckComes
<1>5. /\ UnderWay(stack) = {f} \cup UnderWay(t)
      /\ (\E i \in 2..Len(stack) : stack[i] \in {"pump", "script"})
            <=> UnderWay(t) \cap {"pump", "script"} # {}
  BY <1>1, UnderWayTail
<1>6. stack' = fr \o t BY DEF GoOnWith
<1>7. UnderWay(stack') = UnderWay(fr) \cup UnderWay(t)
  BY <1>1, <1>2, <1>6, UnderWayConcat
<1>8. \A b : FinishShape(t, b) => FinishShape(stack', b) /\ ClosedShape(stack')
  BY <1>1, <1>2, <1>4, <1>6, ShapesConcat
<1>9. f # "pump" => FinishShape(t, Busy) BY <1>4 DEF FinishShape
<1>10. FinishShape(t, FALSE) BY <1>4 DEF FinishShape
<1> HIDE DEF t
<1>11. ClosedShape(stack') /\ FinishShape(stack', FALSE) BY <1>8, <1>10
<1>12. f # "pump" \/ UnderWay(t) \cap {"pump", "script"} # {} => FinishShape(stack', Busy)
  BY <1>4, <1>8, <1>9
<1>13. ShouldDelayEnd <=> blocking # None \/ UnderWay(t) \cap {"pump", "script"} # {}
  BY <1>5 DEF ShouldDelayEnd, IsPaused
<1> QED BY <1>4, <1>5, <1>7, <1>11, <1>12, <1>13 DEF t

(* The tokenizer reads a script element. *)
LEMMA ReadStep ==
    ASSUME TypeOK, PageInv, NEW s \in Scripts, NEW calls, ReadScript(s, calls),
           calls = <<>> \/ calls = <<"script">>
    PROVE  /\ UnderWay(stack) \subseteq UnderWay(stack')
           /\ UnderWay(stack') \subseteq UnderWay(stack) \cup {"pump", "script"}
           /\ FinishShape(stack', Busy) /\ ClosedShape(stack')
           /\ parser = "parsing" /\ blocking = None /\ script[s] = "new"
<1> DEFINE pumps == IF In("pump") THEN stack ELSE <<"pump">> \o stack
<1>1. calls \in Seq(Frames) /\ <<"pump">> \in Seq(Frames) /\ stack \in Seq(Frames)
      /\ stack # <<>> /\ Head(stack) \in {"pump", "script"}
  <2>1. Plain(calls) /\ Plain(<<"pump">>) BY PlainCalls
  <2> QED BY <2>1, CallsAreFrames DEF TypeOK, ReadScript, CanTakeNextToken, In
<1>2. UnderWay(calls) \subseteq {"script"} /\ UnderWay(<<"pump">>) = {"pump"}
      /\ ClosedShape(calls) /\ ClosedShape(<<"pump">>)
  BY CallsMade, CallsInShape
<1>3. FinishShape(stack, Busy) /\ ClosedShape(stack)
  BY DEF PageInv, Arrives, CheckComes
<1>4. /\ pumps \in Seq(Frames)
      /\ UnderWay(stack) \subseteq UnderWay(pumps)
      /\ UnderWay(pumps) \subseteq UnderWay(stack) \cup {"pump"}
      /\ FinishShape(pumps, Busy) /\ ClosedShape(pumps)
  <2>1. CASE In("pump") BY <1>1, <1>3, <2>1
  <2>2. CASE ~In("pump")
    <3>1. /\ UnderWay(<<"pump">> \o stack) = UnderWay(<<"pump">>) \cup UnderWay(stack)
          /\ <<"pump">> \o stack \in Seq(Frames)
      BY <1>1, UnderWayConcat, ConcatProperties
    <3>2. "finish" \notin UnderWay(<<"pump">>) BY <1>2
    <3>3. FinishShape(<<"pump">> \o stack, Busy) /\ ClosedShape(<<"pump">> \o stack)
      BY <1>1, <1>2, <1>3, <3>2, ShapesConcat
    <3> QED BY <1>2, <2>2, <3>1, <3>3
  <2> QED BY <2>1, <2>2
<1>5. stack' = calls \o pumps BY DEF ReadScript
<1> HIDE DEF pumps
<1>6. UnderWay(stack') = UnderWay(calls) \cup UnderWay(pumps)
  BY <1>1, <1>4, <1>5, UnderWayConcat
<1>7. FinishShape(stack', Busy) /\ ClosedShape(stack')
  <2>1. "finish" \notin UnderWay(calls) BY <1>2
  <2> QED BY <1>1, <1>2, <1>4, <1>5, <2>1, ShapesConcat
<1>8. parser = "parsing"
  <2>1. UnderWay(stack) = {Head(stack)} \cup UnderWay(Tail(stack)) BY <1>1, UnderWayTail
  <2>2. parser \notin Stops BY <1>1, <2>1 DEF PageInv, StopsClean
  <2>3. parser # "none" BY <1>1 DEF PageInv, NotYet
  <2> QED BY <2>2, <2>3 DEF TypeOK, Stops
<1>9. blocking = None /\ script[s] = "new"
  BY DEF ReadScript, CanTakeNextToken, IsPaused
<1> QED BY <1>2, <1>4, <1>6, <1>7, <1>8, <1>9

-----------------------------------------------------------------------------
(* The invariant is kept. *)

(* No second end() waits behind the first, nor behind what follows it. *)
LEMMA EndAtHead ==
    ASSUME TypeOK, EndIsNext, NEW f, In(f), f # "listener"
    PROVE  /\ "end" \notin UnderWay(Tail(stack))
           /\ f = "end" => parser = "stopping"
<1>1. Endless(Tail(stack)) BY NoEndBehind DEF In
<1>2. \A i \in 1..Len(Tail(stack)) : Tail(stack)[i] # "end"
  BY <1>1, ElementOfSeq DEF Endless
<1>3. 1 \in 1..Len(stack) /\ stack[1] = f
  BY Behind DEF TypeOK, In
<1> QED BY <1>2, <1>3 DEF UnderWay, EndIsNext

(* An inline script is run. *)
LEMMA InlineScriptKeeps ==
    ASSUME IInv, EndIsNext, PageInv, NEW s \in Scripts, InlineScript(s)
    PROVE  PageInv'
<1> USE DEF InlineScript, fetchVars, runnerVars, parserVars, documentVars
<1>1. TypeOK /\ Known BY DEF IInv
<1>2. ReadScript(s, <<"script">>)
  OBVIOUS
<1>3. /\ UnderWay(stack) \subseteq UnderWay(stack')
      /\ UnderWay(stack') \subseteq UnderWay(stack) \cup {"pump", "script"}
      /\ FinishShape(stack', Busy) /\ ClosedShape(stack')
      /\ parser = "parsing" /\ blocking = None /\ script[s] = "new"
  BY <1>1, <1>2, ReadStep
<1>4. StopsClean' /\ AfterStop' /\ ReadyInOrder' /\ Unfinished'
  BY <1>1, <1>2, <1>3 DEF TypeOK, PageInv, StopsClean, AfterStop, ReadyInOrder,
     Unfinished, NotYet, Stops
<1>5. NotYet' /\ ToldOnce' /\ OnlyBlocking'
  BY <1>1, <1>2, <1>3 DEF TypeOK, PageInv, NotYet, ToldOnce, OnlyBlocking,
     Arrives
<1>6. Arrives'
  BY <1>1, <1>2, <1>3 DEF TypeOK, PageInv, Arrives, StopsClean, NotYet, Busy,
     Stops
<1>7. CheckComes'
  BY <1>1, <1>2, <1>3 DEF TypeOK, PageInv, CheckComes, NotYet, ToldOnce,
     ShouldComplete
<1> QED BY <1>4, <1>5, <1>6, <1>7 DEF PageInv

(* The parser pauses for a script. *)
LEMMA BlockingScriptKeeps ==
    ASSUME IInv, EndIsNext, PageInv, NEW s \in Scripts, BlockingScript(s)
    PROVE  PageInv'
<1> USE DEF BlockingScript, fetchVars, runnerVars, parserVars, documentVars
<1>1. TypeOK /\ Known BY DEF IInv
<1>2. ReadScript(s, <<>>)
  OBVIOUS
<1>3. /\ UnderWay(stack) \subseteq UnderWay(stack')
      /\ UnderWay(stack') \subseteq UnderWay(stack) \cup {"pump", "script"}
      /\ FinishShape(stack', Busy) /\ ClosedShape(stack')
      /\ parser = "parsing" /\ blocking = None /\ script[s] = "new"
  BY <1>1, <1>2, ReadStep
<1>4. s # Main /\ s # None /\ FinishShape(stack', Busy')
  BY <1>3, NamesAssumption DEF Busy, FinishShape
<1>5. StopsClean' /\ AfterStop' /\ ReadyInOrder' /\ Unfinished'
  BY <1>1, <1>2, <1>3, <1>4 DEF TypeOK, PageInv, StopsClean, AfterStop,
     ReadyInOrder, Unfinished, NotYet, Stops
<1>6. NotYet' /\ ToldOnce' /\ OnlyBlocking'
  BY <1>1, <1>2, <1>3, <1>4, NamesAssumption DEF TypeOK, PageInv, NotYet,
     ToldOnce, OnlyBlocking, Arrives
<1>7. Arrives'
  BY <1>1, <1>2, <1>3, <1>4 DEF TypeOK, PageInv, Arrives, StopsClean, NotYet,
     Busy, Stops
<1>8. CheckComes'
  BY <1>1, <1>2, <1>3, <1>4 DEF TypeOK, PageInv, CheckComes, NotYet, ToldOnce,
     ShouldComplete
<1> QED BY <1>5, <1>6, <1>7, <1>8 DEF PageInv

(* The parser starts an asynchronous script. *)
LEMMA AsyncScriptKeeps ==
    ASSUME IInv, EndIsNext, PageInv, NEW s \in Scripts, AsyncScript(s)
    PROVE  PageInv'
<1> USE DEF AsyncScript, PrepareAsyncScript, QueueScriptForExecution,
   fetchVars, runnerVars, parserVars, documentVars
<1>1. TypeOK /\ Known BY DEF IInv
<1>2. ReadScript(s, <<>>)
  OBVIOUS
<1>3. /\ UnderWay(stack) \subseteq UnderWay(stack')
      /\ UnderWay(stack') \subseteq UnderWay(stack) \cup {"pump", "script"}
      /\ FinishShape(stack', Busy) /\ ClosedShape(stack')
      /\ parser = "parsing" /\ blocking = None /\ script[s] = "new"
  BY <1>1, <1>2, ReadStep
<1>4. s # Main
  BY NamesAssumption
<1>5. StopsClean' /\ AfterStop' /\ ReadyInOrder' /\ Unfinished'
  BY <1>1, <1>2, <1>3, <1>4 DEF TypeOK, PageInv, StopsClean, AfterStop,
     ReadyInOrder, Unfinished, NotYet, Stops
<1>6. NotYet' /\ ToldOnce' /\ OnlyBlocking'
  BY <1>1, <1>2, <1>3, <1>4 DEF TypeOK, PageInv, NotYet, ToldOnce,
     OnlyBlocking, Arrives
<1>7. Arrives'
  BY <1>1, <1>2, <1>3, <1>4 DEF TypeOK, PageInv, Arrives, StopsClean, NotYet,
     Busy, Stops
<1>8. CheckComes'
  BY <1>1, <1>2, <1>3, <1>4 DEF TypeOK, PageInv, CheckComes, NotYet, ToldOnce,
     ShouldComplete
<1> QED BY <1>5, <1>6, <1>7, <1>8 DEF PageInv

(* A script is inserted that is not the parser's. *)
LEMMA InsertScriptKeeps ==
    ASSUME IInv, EndIsNext, PageInv, NEW s \in Scripts, InsertScript(s)
    PROVE  PageInv'
<1> USE DEF InsertScript, PrepareAsyncScript, QueueScriptForExecution,
   fetchVars, runnerVars, parserVars, documentVars
<1>1. TypeOK /\ Known BY DEF IInv
<1>2. s # Main /\ parser # "none"
  BY NamesAssumption DEF InJavaScript, In, PageInv, NotYet
<1>3. StopsClean' /\ AfterStop' /\ ReadyInOrder' /\ Unfinished'
  BY <1>1, <1>2 DEF TypeOK, PageInv, StopsClean, AfterStop, ReadyInOrder,
     Unfinished, NotYet, Stops
<1>4. NotYet' /\ ToldOnce' /\ OnlyBlocking'
  BY <1>1, <1>2 DEF TypeOK, PageInv, NotYet, ToldOnce, OnlyBlocking, Arrives
<1>5. Arrives'
  BY <1>1, <1>2 DEF TypeOK, PageInv, Arrives, StopsClean, NotYet, Busy, Stops
<1>6. CheckComes'
  BY <1>1, <1>2 DEF TypeOK, PageInv, CheckComes, NotYet, ToldOnce,
     ShouldComplete
<1> QED BY <1>3, <1>4, <1>5, <1>6 DEF PageInv

(* A pump session stops at a parser-blocking script. *)
LEMMA PumpStopsKeeps ==
    ASSUME IInv, EndIsNext, PageInv, PumpStops
    PROVE  PageInv'
<1> USE DEF PumpStops, IsPaused, fetchVars, runnerVars, parserVars,
   documentVars
<1>1. TypeOK /\ Known BY DEF IInv
<1>2. /\ In("pump") /\ GoOnWith(<<>>) /\ Plain(<<>>)
      /\ UnderWay(<<>>) = {} /\ ClosedShape(<<>>)
  BY CallsMade, CallsInShape, PlainCalls
<1>3. /\ UnderWay(stack) = {"pump"} \cup UnderWay(Tail(stack))
      /\ UnderWay(stack') = {} \cup UnderWay(Tail(stack))
      /\ ClosedShape(stack') /\ FinishShape(stack', FALSE)
  BY <1>1, <1>2, ReturnStep DEF PageInv
<1>4. parser # "none"
  BY <1>2 DEF In, PageInv, NotYet
<1>5. StopsClean' /\ AfterStop' /\ ReadyInOrder' /\ Unfinished'
  BY <1>1, <1>2, <1>3, <1>4 DEF TypeOK, PageInv, StopsClean, AfterStop,
     ReadyInOrder, Unfinished, NotYet, Stops
<1>6. NotYet' /\ ToldOnce' /\ OnlyBlocking'
  BY <1>1, <1>2, <1>3, <1>4 DEF TypeOK, PageInv, NotYet, ToldOnce,
     OnlyBlocking, Arrives
<1>7. Arrives'
  BY <1>1, <1>2, <1>3, <1>4 DEF TypeOK, PageInv, Arrives, StopsClean, NotYet,
     Busy, Stops
<1>8. CheckComes'
  BY <1>1, <1>2, <1>3, <1>4 DEF TypeOK, PageInv, CheckComes, NotYet, ToldOnce,
     ShouldComplete
<1> QED BY <1>5, <1>6, <1>7, <1>8 DEF PageInv

(* end() has dispatched its event. *)
LEMMA ParsingIsFinishedKeeps ==
    ASSUME IInv, EndIsNext, PageInv, ParsingIsFinished
    PROVE  PageInv'
<1> USE DEF ParsingIsFinished, fetchVars, runnerVars, parserVars, documentVars
<1>1. TypeOK /\ Known BY DEF IInv
<1>2. /\ In("parsed") /\ GoOnWith(<<"checkCompleted", "stopParsing">>) /\ Plain(<<"checkCompleted", "stopParsing">>)
      /\ UnderWay(<<"checkCompleted", "stopParsing">>) = {"checkCompleted", "stopParsing"} /\ ClosedShape(<<"checkCompleted", "stopParsing">>)
  BY CallsMade, CallsInShape, PlainCalls
<1>3. /\ UnderWay(stack) = {"parsed"} \cup UnderWay(Tail(stack))
      /\ UnderWay(stack') = {"checkCompleted", "stopParsing"} \cup UnderWay(Tail(stack))
      /\ ClosedShape(stack') /\ FinishShape(stack', FALSE)
      /\ FinishShape(stack', Busy)
  BY <1>1, <1>2, ReturnStep DEF PageInv
<1>4. parser # "none"
  BY <1>2 DEF In, PageInv, NotYet
<1>5. "end" \notin UnderWay(Tail(stack))
  BY <1>1, <1>2, EndAtHead
<1>6. StopsClean' /\ AfterStop' /\ ReadyInOrder' /\ Unfinished'
  BY <1>1, <1>2, <1>3, <1>4, <1>5 DEF TypeOK, PageInv, StopsClean, AfterStop,
     ReadyInOrder, Unfinished, NotYet, Stops
<1>7. NotYet' /\ ToldOnce' /\ OnlyBlocking'
  BY <1>1, <1>2, <1>3, <1>4, <1>5 DEF TypeOK, PageInv, NotYet, ToldOnce,
     OnlyBlocking, Arrives
<1>8. Arrives'
  BY <1>1, <1>2, <1>3, <1>4, <1>5 DEF TypeOK, PageInv, Arrives, StopsClean,
     NotYet, Busy, Stops
<1>9. CheckComes'
  BY <1>1, <1>2, <1>3, <1>4, <1>5 DEF TypeOK, PageInv, CheckComes, NotYet,
     ToldOnce, ShouldComplete
<1> QED BY <1>6, <1>7, <1>8, <1>9 DEF PageInv

(* JavaScript returns. *)
LEMMA JavaScriptReturnsKeeps ==
    ASSUME IInv, EndIsNext, PageInv, JavaScriptReturns
    PROVE  PageInv'
<1> USE DEF JavaScriptReturns, fetchVars, runnerVars, parserVars, documentVars
<1>1. TypeOK /\ Known BY DEF IInv
<1>2. PICK f \in {"script", "listener"} : In(f)
  BY DEF InJavaScript
<1>3. /\ GoOnWith(<<>>) /\ Plain(<<>>) /\ UnderWay(<<>>) = {} /\ ClosedShape(<<>>)
  BY CallsMade, CallsInShape, PlainCalls
<1>4. /\ UnderWay(stack) = {f} \cup UnderWay(Tail(stack))
      /\ UnderWay(stack') = UnderWay(Tail(stack))
      /\ ClosedShape(stack') /\ FinishShape(stack', Busy)
  <2>1. Arrives /\ CheckComes /\ "finish" \notin UnderWay(<<>>) /\ f # "pump"
    BY <1>3 DEF PageInv
  <2>2. /\ UnderWay(stack) = {f} \cup UnderWay(Tail(stack))
        /\ UnderWay(stack') = UnderWay(<<>>) \cup UnderWay(Tail(stack))
        /\ ClosedShape(stack') /\ FinishShape(stack', Busy)
    BY ONLY <1>1, <1>2, <1>3, <2>1, ReturnStep
  <2> QED BY <1>3, <2>2
<1>5. parser # "none"
  BY <1>2 DEF In, PageInv, NotYet
<1>6. StopsClean' /\ AfterStop' /\ ReadyInOrder' /\ Unfinished'
  BY <1>1, <1>2, <1>3, <1>4, <1>5 DEF TypeOK, PageInv, StopsClean, AfterStop,
     ReadyInOrder, Unfinished, NotYet, Stops
<1>7. NotYet' /\ ToldOnce' /\ OnlyBlocking'
  BY <1>1, <1>2, <1>3, <1>4, <1>5 DEF TypeOK, PageInv, NotYet, ToldOnce,
     OnlyBlocking, Arrives
<1>8. Arrives'
  BY <1>1, <1>2, <1>3, <1>4, <1>5 DEF TypeOK, PageInv, Arrives, StopsClean,
     NotYet, Busy, Stops
<1>9. CheckComes'
  BY <1>1, <1>2, <1>3, <1>4, <1>5 DEF TypeOK, PageInv, CheckComes, NotYet,
     ToldOnce, ShouldComplete
<1> QED BY <1>6, <1>7, <1>8, <1>9 DEF PageInv

(* end() begins. *)
LEMMA FinishedParsingKeeps ==
    ASSUME IInv, EndIsNext, PageInv, FinishedParsing
    PROVE  PageInv'
<1> USE DEF FinishedParsing, fetchVars, runnerVars, parserVars, documentVars
<1>1. TypeOK /\ Known BY DEF IInv
<1>2. /\ In("end") /\ GoOnWith(<<"listener", "parsed">>) /\ Plain(<<"listener", "parsed">>)
      /\ UnderWay(<<"listener", "parsed">>) = {"listener", "parsed"} /\ ClosedShape(<<"listener", "parsed">>)
  BY CallsMade, CallsInShape, PlainCalls
<1>3. /\ UnderWay(stack) = {"end"} \cup UnderWay(Tail(stack))
      /\ UnderWay(stack') = {"listener", "parsed"} \cup UnderWay(Tail(stack))
      /\ ClosedShape(stack') /\ FinishShape(stack', FALSE)
      /\ FinishShape(stack', Busy)
  BY <1>1, <1>2, ReturnStep DEF PageInv
<1>4. parser # "none"
  BY <1>2 DEF In, PageInv, NotYet
<1>5. "end" \notin UnderWay(Tail(stack)) /\ parser = "stopping"
  BY <1>1, <1>2, EndAtHead
<1>6. StopsClean' /\ AfterStop' /\ ReadyInOrder' /\ Unfinished'
  BY <1>1, <1>2, <1>3, <1>4, <1>5 DEF TypeOK, PageInv, StopsClean, AfterStop,
     ReadyInOrder, Unfinished, NotYet, Stops
<1>7. NotYet' /\ ToldOnce' /\ OnlyBlocking'
  BY <1>1, <1>2, <1>3, <1>4, <1>5 DEF TypeOK, PageInv, NotYet, ToldOnce,
     OnlyBlocking, Arrives
<1>8. Arrives'
  BY <1>1, <1>2, <1>3, <1>4, <1>5 DEF TypeOK, PageInv, Arrives, StopsClean,
     NotYet, Busy, Stops
<1>9. CheckComes'
  BY <1>1, <1>2, <1>3, <1>4, <1>5 DEF TypeOK, PageInv, CheckComes, NotYet,
     ToldOnce, ShouldComplete
<1> QED BY <1>6, <1>7, <1>8, <1>9 DEF PageInv

(* The parser has stopped. *)
LEMMA StopParsingKeeps ==
    ASSUME IInv, EndIsNext, PageInv, StopParsing
    PROVE  PageInv'
<1> USE DEF StopParsing, fetchVars, runnerVars, parserVars, documentVars
<1>1. TypeOK /\ Known BY DEF IInv
<1>2. /\ In("stopParsing") /\ GoOnWith(<<>>) /\ Plain(<<>>)
      /\ UnderWay(<<>>) = {} /\ ClosedShape(<<>>)
  BY CallsMade, CallsInShape, PlainCalls
<1>3. /\ UnderWay(stack) = {"stopParsing"} \cup UnderWay(Tail(stack))
      /\ UnderWay(stack') = {} \cup UnderWay(Tail(stack))
      /\ ClosedShape(stack') /\ FinishShape(stack', FALSE)
      /\ FinishShape(stack', Busy)
  BY <1>1, <1>2, ReturnStep DEF PageInv
<1>4. parser # "none"
  BY <1>2 DEF In, PageInv, NotYet
<1>5. StopsClean' /\ AfterStop' /\ ReadyInOrder' /\ Unfinished'
  BY <1>1, <1>2, <1>3, <1>4 DEF TypeOK, PageInv, StopsClean, AfterStop,
     ReadyInOrder, Unfinished, NotYet, Stops
<1>6. NotYet' /\ ToldOnce' /\ OnlyBlocking'
  BY <1>1, <1>2, <1>3, <1>4 DEF TypeOK, PageInv, NotYet, ToldOnce,
     OnlyBlocking, Arrives
<1>7. Arrives'
  BY <1>1, <1>2, <1>3, <1>4 DEF TypeOK, PageInv, Arrives, StopsClean, NotYet,
     Busy, Stops
<1>8. CheckComes'
  BY <1>1, <1>2, <1>3, <1>4 DEF TypeOK, PageInv, CheckComes, NotYet, ToldOnce,
     ShouldComplete
<1> QED BY <1>5, <1>6, <1>7, <1>8 DEF PageInv

(* An asynchronous script has run. *)
LEMMA DecrementKeeps ==
    ASSUME IInv, EndIsNext, PageInv, DecrementLoadEventDelayCount
    PROVE  PageInv'
<1> USE DEF DecrementLoadEventDelayCount, CheckLoadEventSoon, fetchVars,
   runnerVars, parserVars, documentVars
<1>1. TypeOK /\ Known BY DEF IInv
<1>2. /\ In("decrement") /\ GoOnWith(<<>>) /\ Plain(<<>>)
      /\ UnderWay(<<>>) = {} /\ ClosedShape(<<>>)
  BY CallsMade, CallsInShape, PlainCalls
<1>3. /\ UnderWay(stack) = {"decrement"} \cup UnderWay(Tail(stack))
      /\ UnderWay(stack') = {} \cup UnderWay(Tail(stack))
      /\ ClosedShape(stack') /\ FinishShape(stack', FALSE)
      /\ FinishShape(stack', Busy)
  BY <1>1, <1>2, ReturnStep DEF PageInv
<1>4. parser # "none"
  BY <1>2 DEF In, PageInv, NotYet
<1>5. StopsClean' /\ AfterStop' /\ ReadyInOrder' /\ Unfinished'
  BY <1>1, <1>2, <1>3, <1>4 DEF TypeOK, PageInv, StopsClean, AfterStop,
     ReadyInOrder, Unfinished, NotYet, Stops
<1>6. NotYet' /\ ToldOnce' /\ OnlyBlocking'
  BY <1>1, <1>2, <1>3, <1>4 DEF TypeOK, PageInv, NotYet, ToldOnce,
     OnlyBlocking, Arrives
<1>7. Arrives'
  BY <1>1, <1>2, <1>3, <1>4 DEF TypeOK, PageInv, Arrives, StopsClean, NotYet,
     Busy, Stops
<1>8. CheckComes'
  BY <1>1, <1>2, <1>3, <1>4 DEF TypeOK, PageInv, CheckComes, NotYet, ToldOnce,
     ShouldComplete
<1> QED BY <1>5, <1>6, <1>7, <1>8 DEF PageInv

(* The load event has been dispatched. *)
LEMMA LoadEventIsOverKeeps ==
    ASSUME IInv, EndIsNext, PageInv, LoadEventIsOver
    PROVE  PageInv'
<1> USE DEF LoadEventIsOver, fetchVars, runnerVars, parserVars, documentVars
<1>1. TypeOK /\ Known BY DEF IInv
<1>2. /\ In("closed") /\ GoOnWith(<<>>) /\ Plain(<<>>)
      /\ UnderWay(<<>>) = {} /\ ClosedShape(<<>>)
  BY CallsMade, CallsInShape, PlainCalls
<1>3. /\ UnderWay(stack) = {"closed"} \cup UnderWay(Tail(stack))
      /\ UnderWay(stack') = {} \cup UnderWay(Tail(stack))
      /\ ClosedShape(stack') /\ FinishShape(stack', FALSE)
      /\ FinishShape(stack', Busy)
      /\ "announce" \in UnderWay(Tail(stack))
  BY <1>1, <1>2, ReturnStep DEF PageInv
<1>4. parser # "none"
  BY <1>2 DEF In, PageInv, NotYet
<1>5. StopsClean' /\ AfterStop' /\ ReadyInOrder' /\ Unfinished'
  BY <1>1, <1>2, <1>3, <1>4 DEF TypeOK, PageInv, StopsClean, AfterStop,
     ReadyInOrder, Unfinished, NotYet, Stops
<1>6. NotYet' /\ ToldOnce' /\ OnlyBlocking'
  BY <1>1, <1>2, <1>3, <1>4 DEF TypeOK, PageInv, NotYet, ToldOnce,
     OnlyBlocking, Arrives
<1>7. Arrives'
  BY <1>1, <1>2, <1>3, <1>4 DEF TypeOK, PageInv, Arrives, StopsClean, NotYet,
     Busy, Stops
<1>8. CheckComes'
  BY <1>1, <1>2, <1>3, <1>4 DEF TypeOK, PageInv, CheckComes, NotYet, ToldOnce,
     ShouldComplete
<1> QED BY <1>5, <1>6, <1>7, <1>8 DEF PageInv

(* The delay timer checks. *)
LEMMA TimerFiredKeeps ==
    ASSUME IInv, EndIsNext, PageInv, LoadEventDelayTimerFired
    PROVE  PageInv'
<1> USE DEF LoadEventDelayTimerFired, fetchVars, runnerVars, parserVars,
   documentVars
<1>1. TypeOK /\ Known BY DEF IInv
<1>2. stack = <<>> /\ Call(<<"checkCompleted">>)
  BY DEF Idle, Dispatch
<1>3. /\ UnderWay(stack) = {} /\ UnderWay(stack') = {"checkCompleted"}
      /\ ClosedShape(stack') /\ FinishShape(stack', Busy)
  BY <1>1, <1>2, CallStep, CallsMade, CallsInShape, PlainCalls DEF PageInv
<1>4. parser # "none"
  BY <1>2 DEF Dispatch, PageInv, NotYet
<1>5. StopsClean' /\ AfterStop' /\ ReadyInOrder' /\ Unfinished'
  BY <1>1, <1>2, <1>3, <1>4 DEF TypeOK, PageInv, StopsClean, AfterStop,
     ReadyInOrder, Unfinished, NotYet, Stops
<1>6. NotYet' /\ ToldOnce' /\ OnlyBlocking'
  BY <1>1, <1>2, <1>3, <1>4 DEF TypeOK, PageInv, NotYet, ToldOnce,
     OnlyBlocking, Arrives
<1>7. Arrives'
  BY <1>1, <1>2, <1>3, <1>4 DEF TypeOK, PageInv, Arrives, StopsClean, NotYet,
     Busy, Stops
<1>8. CheckComes'
  BY <1>1, <1>2, <1>3, <1>4 DEF TypeOK, PageInv, CheckComes, NotYet, ToldOnce,
     ShouldComplete
<1> QED BY <1>5, <1>6, <1>7, <1>8 DEF PageInv

(* An asynchronous script begins. *)
LEMMA AsyncTaskKeeps ==
    ASSUME IInv, EndIsNext, PageInv, ExecuteAsyncTask
    PROVE  PageInv'
<1> USE DEF ExecuteAsyncTask, fetchVars, runnerVars, parserVars, documentVars
<1>1. TypeOK /\ Known BY DEF IInv
<1>2. stack = <<>> /\ Call(<<"listener", "decrement">>)
  BY DEF Idle, Dispatch
<1>3. /\ UnderWay(stack) = {} /\ UnderWay(stack') = {"listener", "decrement"}
      /\ ClosedShape(stack') /\ FinishShape(stack', Busy)
  <2>1. /\ UnderWay(stack) = {} /\ ClosedShape(<<"listener", "decrement">>)
        /\ UnderWay(<<"listener", "decrement">>) = {"listener", "decrement"}
    BY <1>2, CallsMade, CallsInShape
  <2>2. Arrives /\ CheckComes /\ "finish" \notin UnderWay(<<"listener", "decrement">>)
    BY <2>1 DEF PageInv
  <2>3. /\ UnderWay(stack') = UnderWay(<<"listener", "decrement">>) \cup UnderWay(stack)
        /\ ClosedShape(stack') /\ FinishShape(stack', Busy)
    BY ONLY <1>1, <1>2, <2>1, <2>2, CallStep
  <2> QED BY <2>1, <2>3
<1>4. parser # "none" /\ Head(soon) \in Scripts
  <2>1. tasks # <<>> /\ soon # <<>> /\ soon \in Seq(Scripts)
    BY <1>1 DEF Dispatch, TypeOK
  <2>2. Head(soon) \in Scripts BY <2>1, HeadTailProperties
  <2> QED BY <2>1, <2>2 DEF PageInv, NotYet
<1>5. StopsClean' /\ AfterStop' /\ ReadyInOrder' /\ Unfinished'
  BY <1>1, <1>2, <1>3, <1>4 DEF TypeOK, PageInv, StopsClean, AfterStop,
     ReadyInOrder, Unfinished, NotYet, Stops
<1>6. NotYet' /\ ToldOnce' /\ OnlyBlocking'
  BY <1>1, <1>2, <1>3, <1>4 DEF TypeOK, PageInv, NotYet, ToldOnce,
     OnlyBlocking, Arrives
<1>7. Arrives'
  BY <1>1, <1>2, <1>3, <1>4 DEF TypeOK, PageInv, Arrives, StopsClean, NotYet,
     Busy, Stops
<1>8. CheckComes'
  BY <1>1, <1>2, <1>3, <1>4 DEF TypeOK, PageInv, CheckComes, NotYet, ToldOnce,
     ShouldComplete
<1> QED BY <1>5, <1>6, <1>7, <1>8 DEF PageInv

(* The file of an asynchronous script comes. *)
LEMMA AsyncAnswerKeeps ==
    ASSUME IInv, EndIsNext, PageInv, NEW s \in Scripts, AsyncScriptAnswers(s)
    PROVE  PageInv'
<1> USE DEF AsyncScriptAnswers, PostExecuteTasks, fetchVars, runnerVars,
   parserVars, documentVars
<1>1. TypeOK /\ Known BY DEF IInv
<1>2. stack = <<>> /\ Call(<<"checkCompleted">>)
  BY DEF Idle
<1>3. /\ UnderWay(stack) = {} /\ UnderWay(stack') = {"checkCompleted"}
      /\ ClosedShape(stack') /\ FinishShape(stack', Busy)
  BY <1>1, <1>2, CallStep, CallsMade, CallsInShape, PlainCalls DEF PageInv
<1>4. s # Main /\ parser # "none"
  BY NamesAssumption DEF PageInv, NotYet
<1>5. StopsClean' /\ AfterStop' /\ ReadyInOrder' /\ Unfinished'
  BY <1>1, <1>2, <1>3, <1>4 DEF TypeOK, PageInv, StopsClean, AfterStop,
     ReadyInOrder, Unfinished, NotYet, Stops
<1>6. NotYet' /\ ToldOnce' /\ OnlyBlocking'
  BY <1>1, <1>2, <1>3, <1>4 DEF TypeOK, PageInv, NotYet, ToldOnce,
     OnlyBlocking, Arrives
<1>7. Arrives'
  BY <1>1, <1>2, <1>3, <1>4 DEF TypeOK, PageInv, Arrives, StopsClean, NotYet,
     Busy, Stops
<1>8. CheckComes'
  BY <1>1, <1>2, <1>3, <1>4 DEF TypeOK, PageInv, CheckComes, NotYet, ToldOnce,
     ShouldComplete
<1> QED BY <1>5, <1>6, <1>7, <1>8 DEF PageInv

(* The file of the parser's script comes. *)
LEMMA BlockingAnswerKeeps ==
    ASSUME IInv, EndIsNext, PageInv, NEW s \in Scripts, BlockingScriptAnswers(s)
    PROVE  PageInv'
<1> USE DEF BlockingScriptAnswers, fetchVars, runnerVars, parserVars,
   documentVars
<1>1. TypeOK /\ Known BY DEF IInv
<1>2. stack = <<>> /\ Call(<<"script", "pump", "checkCompleted">>)
  BY DEF Idle
<1>3. /\ UnderWay(stack) = {} /\ UnderWay(stack') = {"script", "pump", "checkCompleted"}
      /\ ClosedShape(stack') /\ FinishShape(stack', Busy)
  BY <1>1, <1>2, CallStep, CallsMade, CallsInShape, PlainCalls DEF PageInv
<1>4. s # Main /\ parser # "none" /\ parser \notin Stops
  BY NamesAssumption DEF PageInv, NotYet, StopsClean
<1>5. FinishShape(stack', Busy')
  BY <1>1, <1>3 DEF FinishShape, UnderWay, Behind
<1>6. StopsClean' /\ AfterStop' /\ ReadyInOrder' /\ Unfinished'
  BY <1>1, <1>2, <1>3, <1>4, <1>5 DEF TypeOK, PageInv, StopsClean, AfterStop,
     ReadyInOrder, Unfinished, NotYet, Stops
<1>7. NotYet' /\ ToldOnce' /\ OnlyBlocking'
  BY <1>1, <1>2, <1>3, <1>4, <1>5, NamesAssumption DEF TypeOK, PageInv, NotYet,
     ToldOnce, OnlyBlocking, Arrives
<1>8. Arrives'
  BY <1>1, <1>2, <1>3, <1>4, <1>5 DEF TypeOK, PageInv, Arrives, StopsClean,
     NotYet, Busy, Stops
<1>9. CheckComes'
  BY <1>1, <1>2, <1>3, <1>4, <1>5 DEF TypeOK, PageInv, CheckComes, NotYet,
     ToldOnce, ShouldComplete
<1> QED BY <1>6, <1>7, <1>8, <1>9 DEF PageInv

(* A pump session ends, and the parser perhaps with it. *)
LEMMA PumpEndsKeeps ==
    ASSUME IInv, EndIsNext, PageInv, PumpEnds
    PROVE  PageInv'
<1> USE DEF PumpEnds, IsPaused, fetchVars, runnerVars, parserVars, documentVars
<1>1. TypeOK /\ Known BY DEF IInv
<1>2. In("pump") /\ parser # "none"
  BY DEF In, PageInv, NotYet
<1>3. CASE endDelayed /\ ~ShouldDelayEnd
  <2>1. /\ GoOnWith(<<"listener", "end">>) /\ Plain(<<"listener", "end">>)
        /\ UnderWay(<<"listener", "end">>) = {"listener", "end"} /\ ClosedShape(<<"listener", "end">>)
    BY <1>3, ParserStops, CallsMade, CallsInShape, PlainCalls
  <2>2. /\ UnderWay(stack) = {"pump"} \cup UnderWay(Tail(stack))
        /\ UnderWay(stack') = {"listener", "end"} \cup UnderWay(Tail(stack))
        /\ ClosedShape(stack') /\ FinishShape(stack', FALSE)
        /\ ShouldDelayEnd <=> blocking # None \/ UnderWay(Tail(stack)) \cap {"pump", "script"} # {}
    BY <1>1, <1>2, <2>1, ReturnStep DEF PageInv
  <2>3. parser' = "stopping" /\ ready' = "interactive" /\ ~endDelayed'
    BY <1>3, ParserStops
  <2>4. StopsClean' /\ AfterStop' /\ ReadyInOrder' /\ Unfinished'
    BY <1>1, <1>2, <1>3, <2>2, <2>3 DEF TypeOK, PageInv, StopsClean, AfterStop,
       ReadyInOrder, Unfinished, NotYet, Stops
  <2>5. NotYet' /\ ToldOnce' /\ OnlyBlocking'
    BY <1>1, <1>2, <1>3, <2>2, <2>3 DEF TypeOK, PageInv, NotYet, ToldOnce,
       OnlyBlocking, Arrives
  <2>6. Arrives'
    BY <1>1, <1>2, <1>3, <2>2, <2>3 DEF TypeOK, PageInv, Arrives, StopsClean,
       NotYet, Busy, Stops
  <2>7. CheckComes'
    BY <1>1, <1>2, <1>3, <2>2, <2>3 DEF TypeOK, PageInv, CheckComes, NotYet,
       ToldOnce, ShouldComplete
  <2> QED BY <2>4, <2>5, <2>6, <2>7 DEF PageInv
<1>4. CASE ~(endDelayed /\ ~ShouldDelayEnd)
  <2>1. /\ GoOnWith(<<>>) /\ Plain(<<>>)
        /\ UnderWay(<<>>) = {} /\ ClosedShape(<<>>)
    BY <1>4, CallsMade, CallsInShape, PlainCalls
  <2>2. /\ UnderWay(stack) = {"pump"} \cup UnderWay(Tail(stack))
        /\ UnderWay(stack') = {} \cup UnderWay(Tail(stack))
        /\ ClosedShape(stack') /\ FinishShape(stack', FALSE)
        /\ ShouldDelayEnd <=> blocking # None \/ UnderWay(Tail(stack)) \cap {"pump", "script"} # {}
        /\ UnderWay(Tail(stack)) \cap {"pump", "script"} # {} => FinishShape(stack', Busy)
    BY <1>1, <1>2, <2>1, ReturnStep DEF PageInv
  <2>3. UNCHANGED <<parser, ready, endDelayed>> /\ FinishShape(stack', Busy')
    BY <1>1, <1>4, <2>2 DEF IsPaused, Busy
  <2>4. StopsClean' /\ AfterStop' /\ ReadyInOrder' /\ Unfinished'
    BY <1>1, <1>2, <1>4, <2>2, <2>3 DEF TypeOK, PageInv, StopsClean, AfterStop,
       ReadyInOrder, Unfinished, NotYet, Stops
  <2>5. NotYet' /\ ToldOnce' /\ OnlyBlocking'
    BY <1>1, <1>2, <1>4, <2>2, <2>3 DEF TypeOK, PageInv, NotYet, ToldOnce,
       OnlyBlocking, Arrives
  <2>6. Arrives'
    BY <1>1, <1>2, <1>4, <2>2, <2>3 DEF TypeOK, PageInv, Arrives, StopsClean,
       NotYet, Busy, Stops
  <2>7. CheckComes'
    BY <1>1, <1>2, <1>4, <2>2, <2>3 DEF TypeOK, PageInv, CheckComes, NotYet,
       ToldOnce, ShouldComplete
  <2> QED BY <2>4, <2>5, <2>6, <2>7 DEF PageInv
<1> QED BY <1>3, <1>4

(* The main resource is finished, and the parser perhaps with it. *)
LEMMA FinishKeeps ==
    ASSUME IInv, EndIsNext, PageInv, Finish
    PROVE  PageInv'
<1> USE DEF Finish, fetchVars, runnerVars, parserVars, documentVars
<1>1. TypeOK /\ Known BY DEF IInv
<1>2. In("finish") /\ parser # "none"
  BY DEF In, PageInv, NotYet
<1>3. CASE ShouldDelayEnd
  <2>1. /\ GoOnWith(<<>>) /\ Plain(<<>>)
        /\ UnderWay(<<>>) = {} /\ ClosedShape(<<>>)
    BY <1>3, CallsMade, CallsInShape, PlainCalls
  <2>2. /\ UnderWay(stack) = {"finish"} \cup UnderWay(Tail(stack))
        /\ UnderWay(stack') = {} \cup UnderWay(Tail(stack))
        /\ ClosedShape(stack') /\ FinishShape(stack', FALSE)
        /\ FinishShape(stack', Busy)
        /\ ~Busy /\ UnderWay(Tail(stack)) = {"checkCompleted"}
    BY <1>1, <1>2, <2>1, ReturnStep DEF PageInv
  <2>3. StopsClean' /\ AfterStop' /\ ReadyInOrder' /\ Unfinished'
    BY <1>1, <1>2, <1>3, <2>2 DEF TypeOK, PageInv, StopsClean, AfterStop,
       ReadyInOrder, Unfinished, NotYet, Stops
  <2>4. NotYet' /\ ToldOnce' /\ OnlyBlocking'
    BY <1>1, <1>2, <1>3, <2>2 DEF TypeOK, PageInv, NotYet, ToldOnce,
       OnlyBlocking, Arrives
  <2>5. Arrives'
    BY <1>1, <1>2, <1>3, <2>2 DEF TypeOK, PageInv, Arrives, StopsClean, NotYet,
       Busy, Stops
  <2>6. CheckComes'
    BY <1>1, <1>2, <1>3, <2>2 DEF TypeOK, PageInv, CheckComes, NotYet,
       ToldOnce, ShouldComplete
  <2> QED BY <2>3, <2>4, <2>5, <2>6 DEF PageInv
<1>4. CASE ~ShouldDelayEnd
  <2>1. /\ GoOnWith(<<"listener", "end">>) /\ Plain(<<"listener", "end">>)
        /\ UnderWay(<<"listener", "end">>) = {"listener", "end"} /\ ClosedShape(<<"listener", "end">>)
    BY <1>4, ParserStops, CallsMade, CallsInShape, PlainCalls
  <2>2. /\ UnderWay(stack) = {"finish"} \cup UnderWay(Tail(stack))
        /\ UnderWay(stack') = {"listener", "end"} \cup UnderWay(Tail(stack))
        /\ ClosedShape(stack') /\ FinishShape(stack', FALSE)
        /\ ShouldDelayEnd <=> blocking # None \/ UnderWay(Tail(stack)) \cap {"pump", "script"} # {}
        /\ ~Busy /\ UnderWay(Tail(stack)) = {"checkCompleted"}
    BY <1>1, <1>2, <2>1, ReturnStep DEF PageInv
  <2>3. parser' = "stopping" /\ ready' = "interactive" /\ ~endDelayed'
    BY <1>4, ParserStops
  <2>4. ~unread /\ blocking = None /\ parser = "parsing"
    BY <1>4, <2>2 DEF Busy, PageInv, Arrives
  <2>5. StopsClean' /\ AfterStop' /\ ReadyInOrder' /\ Unfinished'
    BY <1>1, <1>2, <1>4, <2>2, <2>3, <2>4 DEF TypeOK, PageInv, StopsClean,
       AfterStop, ReadyInOrder, Unfinished, NotYet, Stops
  <2>6. NotYet' /\ ToldOnce' /\ OnlyBlocking'
    BY <1>1, <1>2, <1>4, <2>2, <2>3, <2>4 DEF TypeOK, PageInv, NotYet,
       ToldOnce, OnlyBlocking, Arrives
  <2>7. Arrives'
    BY <1>1, <1>2, <1>4, <2>2, <2>3, <2>4 DEF TypeOK, PageInv, Arrives,
       StopsClean, NotYet, Busy, Stops
  <2>8. CheckComes'
    BY <1>1, <1>2, <1>4, <2>2, <2>3, <2>4 DEF TypeOK, PageInv, CheckComes,
       NotYet, ToldOnce, ShouldComplete
  <2> QED BY <2>5, <2>6, <2>7, <2>8 DEF PageInv
<1> QED BY <1>3, <1>4

(* The document checks whether it is complete. *)
LEMMA CheckCompletedKeeps ==
    ASSUME IInv, EndIsNext, PageInv, CheckCompleted
    PROVE  PageInv'
<1> USE DEF CheckCompleted, fetchVars, runnerVars, parserVars, documentVars
<1>1. TypeOK /\ Known BY DEF IInv
<1>2. In("checkCompleted") /\ parser # "none"
  BY DEF In, PageInv, NotYet
<1>3. CASE ~ShouldComplete
  <2>1. /\ GoOnWith(<<>>) /\ Plain(<<>>)
        /\ UnderWay(<<>>) = {} /\ ClosedShape(<<>>)
    BY <1>3, CallsMade, CallsInShape, PlainCalls
  <2>2. /\ UnderWay(stack) = {"checkCompleted"} \cup UnderWay(Tail(stack))
        /\ UnderWay(stack') = {} \cup UnderWay(Tail(stack))
        /\ ClosedShape(stack') /\ FinishShape(stack', FALSE)
        /\ FinishShape(stack', Busy)
    BY <1>1, <1>2, <2>1, ReturnStep DEF PageInv
  <2>3. StopsClean' /\ AfterStop' /\ ReadyInOrder' /\ Unfinished'
    BY <1>1, <1>2, <1>3, <2>2 DEF TypeOK, PageInv, StopsClean, AfterStop,
       ReadyInOrder, Unfinished, NotYet, Stops
  <2>4. NotYet' /\ ToldOnce' /\ OnlyBlocking'
    BY <1>1, <1>2, <1>3, <2>2 DEF TypeOK, PageInv, NotYet, ToldOnce,
       OnlyBlocking, Arrives
  <2>5. Arrives'
    BY <1>1, <1>2, <1>3, <2>2 DEF TypeOK, PageInv, Arrives, StopsClean, NotYet,
       Busy, Stops
  <2>6. CheckComes'
    BY <1>1, <1>2, <1>3, <2>2 DEF TypeOK, PageInv, CheckComes, NotYet,
       ToldOnce, ShouldComplete
  <2> QED BY <2>3, <2>4, <2>5, <2>6 DEF PageInv
<1>4. CASE ShouldComplete /\ ready = "complete"
  <2>1. /\ GoOnWith(<<"close">>) /\ Plain(<<"close">>)
        /\ UnderWay(<<"close">>) = {"close"} /\ ClosedShape(<<"close">>)
    BY <1>4, CallsMade, CallsInShape, PlainCalls
  <2>2. /\ UnderWay(stack) = {"checkCompleted"} \cup UnderWay(Tail(stack))
        /\ UnderWay(stack') = {"close"} \cup UnderWay(Tail(stack))
        /\ ClosedShape(stack') /\ FinishShape(stack', FALSE)
        /\ FinishShape(stack', Busy)
    BY <1>1, <1>2, <2>1, ReturnStep DEF PageInv
  <2>3. parser \in Stops
    BY <1>2, <1>4 DEF ShouldComplete, PageInv, AfterStop
  <2>4. StopsClean' /\ AfterStop' /\ ReadyInOrder' /\ Unfinished'
    BY <1>1, <1>2, <1>4, <2>2, <2>3 DEF TypeOK, PageInv, StopsClean, AfterStop,
       ReadyInOrder, Unfinished, NotYet, Stops
  <2>5. NotYet' /\ ToldOnce' /\ OnlyBlocking'
    BY <1>1, <1>2, <1>4, <2>2, <2>3 DEF TypeOK, PageInv, NotYet, ToldOnce,
       OnlyBlocking, Arrives
  <2>6. Arrives'
    BY <1>1, <1>2, <1>4, <2>2, <2>3 DEF TypeOK, PageInv, Arrives, StopsClean,
       NotYet, Busy, Stops
  <2>7. CheckComes'
    BY <1>1, <1>2, <1>4, <2>2, <2>3 DEF TypeOK, PageInv, CheckComes, NotYet,
       ToldOnce, ShouldComplete
  <2> QED BY <2>4, <2>5, <2>6, <2>7 DEF PageInv
<1>5. CASE ShouldComplete /\ ready # "complete"
  <2>1. /\ GoOnWith(<<"listener", "close">>) /\ Plain(<<"listener", "close">>)
        /\ UnderWay(<<"listener", "close">>) = {"listener", "close"} /\ ClosedShape(<<"listener", "close">>)
    BY <1>5, CallsMade, CallsInShape, PlainCalls
  <2>2. /\ UnderWay(stack) = {"checkCompleted"} \cup UnderWay(Tail(stack))
        /\ UnderWay(stack') = {"listener", "close"} \cup UnderWay(Tail(stack))
        /\ ClosedShape(stack') /\ FinishShape(stack', FALSE)
        /\ FinishShape(stack', Busy)
    BY <1>1, <1>2, <2>1, ReturnStep DEF PageInv
  <2>3. parser \in Stops
    BY <1>2, <1>5 DEF ShouldComplete, PageInv, AfterStop
  <2>4. StopsClean' /\ AfterStop' /\ ReadyInOrder' /\ Unfinished'
    BY <1>1, <1>2, <1>5, <2>2, <2>3 DEF TypeOK, PageInv, StopsClean, AfterStop,
       ReadyInOrder, Unfinished, NotYet, Stops
  <2>5. NotYet' /\ ToldOnce' /\ OnlyBlocking'
    BY <1>1, <1>2, <1>5, <2>2, <2>3 DEF TypeOK, PageInv, NotYet, ToldOnce,
       OnlyBlocking, Arrives
  <2>6. Arrives'
    BY <1>1, <1>2, <1>5, <2>2, <2>3 DEF TypeOK, PageInv, Arrives, StopsClean,
       NotYet, Busy, Stops
  <2>7. CheckComes'
    BY <1>1, <1>2, <1>5, <2>2, <2>3 DEF TypeOK, PageInv, CheckComes, NotYet,
       ToldOnce, ShouldComplete
  <2> QED BY <2>4, <2>5, <2>6, <2>7 DEF PageInv
<1> QED BY <1>3, <1>4, <1>5

(* The document is closed, unless it is already. *)
LEMMA ImplicitCloseKeeps ==
    ASSUME IInv, EndIsNext, PageInv, ImplicitClose
    PROVE  PageInv'
<1> USE DEF ImplicitClose, fetchVars, runnerVars, parserVars, documentVars
<1>1. TypeOK /\ Known BY DEF IInv
<1>2. In("close") /\ parser # "none"
  BY DEF In, PageInv, NotYet
<1>3. CASE progress = "notRun"
  <2>1. /\ GoOnWith(<<"listener", "closed", "announce">>) /\ Plain(<<"listener", "closed", "announce">>)
        /\ UnderWay(<<"listener", "closed", "announce">>) = {"listener", "closed", "announce"} /\ ClosedShape(<<"listener", "closed", "announce">>)
    BY <1>3, CallsMade, CallsInShape, PlainCalls
  <2>2. /\ UnderWay(stack) = {"close"} \cup UnderWay(Tail(stack))
        /\ UnderWay(stack') = {"listener", "closed", "announce"} \cup UnderWay(Tail(stack))
        /\ ClosedShape(stack') /\ FinishShape(stack', FALSE)
        /\ FinishShape(stack', Busy)
    BY <1>1, <1>2, <2>1, ReturnStep DEF PageInv
  <2>3. parser \in Stops
    BY <2>2 DEF PageInv, AfterStop
  <2>4. StopsClean' /\ AfterStop' /\ ReadyInOrder' /\ Unfinished'
    BY <1>1, <1>2, <1>3, <2>2, <2>3 DEF TypeOK, PageInv, StopsClean, AfterStop,
       ReadyInOrder, Unfinished, NotYet, Stops
  <2>5. NotYet' /\ ToldOnce' /\ OnlyBlocking'
    BY <1>1, <1>2, <1>3, <2>2, <2>3 DEF TypeOK, PageInv, NotYet, ToldOnce,
       OnlyBlocking, Arrives
  <2>6. Arrives'
    BY <1>1, <1>2, <1>3, <2>2, <2>3 DEF TypeOK, PageInv, Arrives, StopsClean,
       NotYet, Busy, Stops
  <2>7. CheckComes'
    BY <1>1, <1>2, <1>3, <2>2, <2>3 DEF TypeOK, PageInv, CheckComes, NotYet,
       ToldOnce, ShouldComplete
  <2> QED BY <2>4, <2>5, <2>6, <2>7 DEF PageInv
<1>4. CASE progress # "notRun"
  <2>1. /\ GoOnWith(<<"announce">>) /\ Plain(<<"announce">>)
        /\ UnderWay(<<"announce">>) = {"announce"} /\ ClosedShape(<<"announce">>)
    BY <1>4, CallsMade, CallsInShape, PlainCalls
  <2>2. /\ UnderWay(stack) = {"close"} \cup UnderWay(Tail(stack))
        /\ UnderWay(stack') = {"announce"} \cup UnderWay(Tail(stack))
        /\ ClosedShape(stack') /\ FinishShape(stack', FALSE)
        /\ FinishShape(stack', Busy)
    BY <1>1, <1>2, <2>1, ReturnStep DEF PageInv
  <2>3. StopsClean' /\ AfterStop' /\ ReadyInOrder' /\ Unfinished'
    BY <1>1, <1>2, <1>4, <2>2 DEF TypeOK, PageInv, StopsClean, AfterStop,
       ReadyInOrder, Unfinished, NotYet, Stops
  <2>4. NotYet' /\ ToldOnce' /\ OnlyBlocking'
    BY <1>1, <1>2, <1>4, <2>2 DEF TypeOK, PageInv, NotYet, ToldOnce,
       OnlyBlocking, Arrives
  <2>5. Arrives'
    BY <1>1, <1>2, <1>4, <2>2 DEF TypeOK, PageInv, Arrives, StopsClean, NotYet,
       Busy, Stops
  <2>6. CheckComes'
    BY <1>1, <1>2, <1>4, <2>2 DEF TypeOK, PageInv, CheckComes, NotYet,
       ToldOnce, ShouldComplete
  <2> QED BY <2>3, <2>4, <2>5, <2>6 DEF PageInv
<1> QED BY <1>3, <1>4

(* The client is told, unless it was already. *)
LEMMA DidFinishLoadKeeps ==
    ASSUME IInv, EndIsNext, PageInv, DispatchDidFinishLoad
    PROVE  PageInv'
<1> USE DEF DispatchDidFinishLoad, fetchVars, runnerVars, parserVars,
   documentVars
<1>1. TypeOK /\ Known BY DEF IInv
<1>2. In("announce") /\ parser # "none"
  BY DEF In, PageInv, NotYet
<1>3. CASE sent
  <2>1. /\ GoOnWith(<<>>) /\ Plain(<<>>)
        /\ UnderWay(<<>>) = {} /\ ClosedShape(<<>>)
    BY <1>3, CallsMade, CallsInShape, PlainCalls
  <2>2. /\ UnderWay(stack) = {"announce"} \cup UnderWay(Tail(stack))
        /\ UnderWay(stack') = {} \cup UnderWay(Tail(stack))
        /\ ClosedShape(stack') /\ FinishShape(stack', FALSE)
        /\ FinishShape(stack', Busy)
    BY <1>1, <1>2, <2>1, ReturnStep DEF PageInv
  <2>3. told = <<"ready">> /\ told # <<>>
    BY <1>3 DEF PageInv, ToldOnce
  <2>4. StopsClean' /\ AfterStop' /\ ReadyInOrder' /\ Unfinished'
    BY <1>1, <1>2, <1>3, <2>2, <2>3 DEF TypeOK, PageInv, StopsClean, AfterStop,
       ReadyInOrder, Unfinished, NotYet, Stops
  <2>5. NotYet' /\ ToldOnce' /\ OnlyBlocking'
    BY <1>1, <1>2, <1>3, <2>2, <2>3 DEF TypeOK, PageInv, NotYet, ToldOnce,
       OnlyBlocking, Arrives
  <2>6. Arrives'
    BY <1>1, <1>2, <1>3, <2>2, <2>3 DEF TypeOK, PageInv, Arrives, StopsClean,
       NotYet, Busy, Stops
  <2>7. CheckComes'
    BY <1>1, <1>2, <1>3, <2>2, <2>3 DEF TypeOK, PageInv, CheckComes, NotYet,
       ToldOnce, ShouldComplete
  <2> QED BY <2>4, <2>5, <2>6, <2>7 DEF PageInv
<1>4. CASE ~sent
  <2>1. /\ GoOnWith(<<"listener">>) /\ Plain(<<"listener">>)
        /\ UnderWay(<<"listener">>) = {"listener"} /\ ClosedShape(<<"listener">>)
    BY <1>4, CallsMade, CallsInShape, PlainCalls
  <2>2. /\ UnderWay(stack) = {"announce"} \cup UnderWay(Tail(stack))
        /\ UnderWay(stack') = {"listener"} \cup UnderWay(Tail(stack))
        /\ ClosedShape(stack') /\ FinishShape(stack', FALSE)
        /\ FinishShape(stack', Busy)
    BY <1>1, <1>2, <2>1, ReturnStep DEF PageInv
  <2>3. told' = <<"ready">>
    BY <1>2, <1>4 DEF PageInv, ToldOnce, NotYet
  <2>4. StopsClean' /\ AfterStop' /\ ReadyInOrder' /\ Unfinished'
    BY <1>1, <1>2, <1>4, <2>2, <2>3 DEF TypeOK, PageInv, StopsClean, AfterStop,
       ReadyInOrder, Unfinished, NotYet, Stops
  <2>5. NotYet' /\ ToldOnce' /\ OnlyBlocking'
    BY <1>1, <1>2, <1>4, <2>2, <2>3 DEF TypeOK, PageInv, NotYet, ToldOnce,
       OnlyBlocking, Arrives
  <2>6. Arrives'
    BY <1>1, <1>2, <1>4, <2>2, <2>3 DEF TypeOK, PageInv, Arrives, StopsClean,
       NotYet, Busy, Stops
  <2>7. CheckComes'
    BY <1>1, <1>2, <1>4, <2>2, <2>3 DEF TypeOK, PageInv, CheckComes, NotYet,
       ToldOnce, ShouldComplete
  <2> QED BY <2>4, <2>5, <2>6, <2>7 DEF PageInv
<1> QED BY <1>3, <1>4

(* The main resource arrives. *)
LEMMA MainAnswersKeeps ==
    ASSUME IInv, PageInv, MainResourceAnswers
    PROVE  PageInv'
<1> USE DEF MainResourceAnswers, fetchVars, runnerVars, parserVars, documentVars
<1> DEFINE fr == <<"pump", "finish", "checkCompleted">>
<1>1. TypeOK BY DEF IInv
<1>2. /\ fr \in Seq(Frames) /\ UnderWay(fr) = {"pump", "finish", "checkCompleted"}
      /\ ClosedShape(fr) /\ \A busy : FinishShape(fr, busy)
  BY CallsMade, CallsInShape, PlainCalls, CallsAreFrames
<1>3. stack = <<>> /\ stack' = fr
  <2>1. stack' = fr \o <<>> BY DEF Idle, Call
  <2> HIDE DEF fr
  <2> QED BY <1>2, <2>1, ConcatEmptySeq DEF Idle
<1>4. parser = "none"
  BY <1>3, CallsMade DEF PageInv, Arrives
<1>5. FinishShape(stack', Busy') BY <1>2, <1>3
<1> HIDE DEF fr
<1>6. /\ UnderWay(stack') = {"pump", "finish", "checkCompleted"} /\ ClosedShape(stack')
      /\ FinishShape(stack', Busy')
  BY <1>2, <1>3, <1>5
<1>7. /\ parser = "none" /\ parser' = "parsing" /\ parsing' = "parsing"
      /\ ready' = "loading" /\ Main \in loading
      /\ UNCHANGED <<loading, script, tasks, blocking, endDelayed, sent, told>>
  BY <1>4
<1>8. StopsClean' /\ AfterStop' /\ ReadyInOrder' /\ Unfinished'
  BY <1>6, <1>7 DEF StopsClean, AfterStop, ReadyInOrder, Unfinished, Stops
<1>9. NotYet' /\ ToldOnce' /\ OnlyBlocking'
  BY <1>7 DEF PageInv, NotYet, ToldOnce, OnlyBlocking
<1>10. Arrives'
  BY <1>6, <1>7 DEF PageInv, Arrives
<1>11. CheckComes'
  BY <1>6, <1>7 DEF CheckComes, ShouldComplete
<1> QED BY <1>8, <1>9, <1>10, <1>11 DEF PageInv

(* The calls under way are the same. *)
LEMMA StackKeeps ==
    ASSUME IInv, PageInv,
           ExecuteExtraTask \/ MainResourceFails \/ UNCHANGED vars
    PROVE  PageInv'
<1> USE DEF vars, fetchVars, runnerVars, parserVars, documentVars
<1>1. UNCHANGED <<stack, script, parser, unread, blocking, endDelayed, parsing,
                  ready, progress, delayCount, timerActive, sent>>
  BY DEF ExecuteExtraTask, MainResourceFails
<1>2. StopsClean' /\ AfterStop' /\ ReadyInOrder' /\ Unfinished' /\ OnlyBlocking'
  BY <1>1 DEF PageInv, StopsClean, AfterStop, ReadyInOrder, Unfinished, OnlyBlocking
<1>3. CASE ExecuteExtraTask
  <2>1. parser # "none" /\ UNCHANGED <<loading, told>>
    BY <1>3 DEF ExecuteExtraTask, Dispatch, PageInv, NotYet
  <2>2. NotYet' /\ ToldOnce'
    BY <1>1, <2>1 DEF PageInv, NotYet, ToldOnce
  <2>3. Arrives' /\ CheckComes'
    BY <1>1, <2>1 DEF PageInv, Arrives, Busy, CheckComes, ShouldComplete
  <2> QED BY <1>2, <2>2, <2>3 DEF PageInv
<1>4. CASE MainResourceFails
  <2>1. /\ Main \in loading /\ loading' = loading \ {Main} /\ stack = <<>>
        /\ told' = Append(told, "failed") /\ tasks' = tasks
    BY <1>4 DEF MainResourceFails, Idle
  <2>2. parser = "none" /\ ~sent /\ told = <<>>
    BY <2>1, CallsMade DEF PageInv, Arrives, NotYet, ToldOnce
  <2>3. told' = <<"failed">> BY <2>1, <2>2
  <2>4. NotYet' /\ ToldOnce'
    BY <1>1, <2>1, <2>2, <2>3 DEF PageInv, NotYet, ToldOnce
  <2>5. Arrives' /\ CheckComes'
    BY <1>1, <2>1, <2>2, CallsMade DEF PageInv, Arrives, Busy, CheckComes
  <2> QED BY <1>2, <2>4, <2>5 DEF PageInv
<1>5. CASE UNCHANGED vars
  <2>1. NotYet' /\ ToldOnce'
    BY <1>5 DEF PageInv, NotYet, ToldOnce
  <2>2. Arrives' /\ CheckComes'
    BY <1>5 DEF PageInv, Arrives, Busy, CheckComes, ShouldComplete
  <2> QED BY <1>2, <2>1, <2>2 DEF PageInv
<1> QED BY <1>3, <1>4, <1>5

(* One step per action. *)
LEMMA PageInductive == IInv /\ EndIsNext /\ PageInv /\ [Next]_vars => PageInv'
<1> SUFFICES ASSUME IInv, EndIsNext, PageInv, [Next]_vars PROVE PageInv'
  OBVIOUS
<1>1. CASE MainThread
  <2>1. ASSUME NEW s \in Scripts,
               InlineScript(s) \/ BlockingScript(s) \/ AsyncScript(s)
        PROVE  PageInv'
    BY <2>1, InlineScriptKeeps, BlockingScriptKeeps, AsyncScriptKeeps
  <2>2. CASE PumpStops \/ PumpEnds \/ Finish
    BY <2>2, PumpStopsKeeps, PumpEndsKeeps, FinishKeeps
  <2>3. CASE FinishedParsing \/ ParsingIsFinished \/ StopParsing
    BY <2>3, FinishedParsingKeeps, ParsingIsFinishedKeeps, StopParsingKeeps
  <2>4. CASE JavaScriptReturns \/ DecrementLoadEventDelayCount
    BY <2>4, JavaScriptReturnsKeeps, DecrementKeeps
  <2>5. CASE CheckCompleted \/ ImplicitClose
    BY <2>5, CheckCompletedKeeps, ImplicitCloseKeeps
  <2>6. CASE LoadEventIsOver \/ DispatchDidFinishLoad
    BY <2>6, LoadEventIsOverKeeps, DidFinishLoadKeeps
  <2> QED BY <1>1, <2>1, <2>2, <2>3, <2>4, <2>5, <2>6 DEF MainThread
<1>2. CASE DispatchTask
  BY <1>2, AsyncTaskKeeps, StackKeeps, TimerFiredKeeps DEF DispatchTask
<1>3. CASE MainAnswers
  BY <1>3, MainAnswersKeeps, StackKeeps DEF MainAnswers
<1>4. ASSUME NEW s \in Scripts, ScriptAnswers(s) PROVE PageInv'
  BY <1>4, AsyncAnswerKeeps, BlockingAnswerKeeps DEF ScriptAnswers
<1>5. ASSUME NEW s \in Scripts, InsertScript(s) PROVE PageInv'
  BY <1>5, InsertScriptKeeps
<1>6. CASE UNCHANGED vars BY <1>6, StackKeeps
<1> QED BY <1>1, <1>2, <1>3, <1>4, <1>5, <1>6 DEF Next

LEMMA PageInitially == Init => PageInv
<1> SUFFICES ASSUME Init PROVE PageInv
  OBVIOUS
<1>1. UnderWay(stack) = {} /\ ClosedShape(stack) /\ FinishShape(stack, Busy)
  BY CallsMade DEF Init, ClosedShape, FinishShape
<1>2. StopsClean /\ AfterStop /\ ReadyInOrder /\ Unfinished /\ NotYet
  BY <1>1 DEF Init, StopsClean, AfterStop, ReadyInOrder, Unfinished, NotYet, Stops
<1>3. Arrives /\ ToldOnce /\ OnlyBlocking /\ CheckComes
  BY <1>1 DEF Init, Arrives, ToldOnce, OnlyBlocking, CheckComes
<1> QED BY <1>2, <1>3 DEF PageInv

(***************************************************************************)
(* The calls under way agree with the state of the parser, of the document *)
(* and of the main resource's loader (HTMLDocumentParser, Document).       *)
(***************************************************************************)
THEOREM PageCalls == Spec => []PageInv
BY PageInitially, PageInductive, PageInvariant, EndInvariant, PTL DEF Spec

-----------------------------------------------------------------------------
(* Theorems. *)

(***************************************************************************)
(* A parser that stops has read its input and waits for no script, however *)
(* scripts write and nest (html_document_parser.cc:184 and 204).           *)
(***************************************************************************)
THEOREM ParserEnds == Spec => []ParserEndsClean
<1>1. PageInv => ParserEndsClean
  BY DEF PageInv, StopsClean, ParserEndsClean, Stops
<1> QED BY <1>1, PageCalls, PTL

(***************************************************************************)
(* When nothing holds the page back and the main thread is idle, the       *)
(* client has been told or the delay timer will check                      *)
(* (document.cpp:642-649).                                                 *)
(***************************************************************************)
THEOREM ChecksAreKept == Spec => []NoLostCheck
<1>1. PageInv => NoLostCheck
  BY CallsMade DEF PageInv, CheckComes, NoLostCheck, Idle
<1> QED BY <1>1, PageCalls, PTL

-----------------------------------------------------------------------------
(* The page never waits for itself. *)

(***************************************************************************)
(* An idle main thread that has not told the client of its page still has  *)
(* an answer to come or a closure to run: parser, scripts and checks never *)
(* wait for each other in a circle (html_document_parser.cc:639,           *)
(* script_runner.cpp:131, document.cpp:477).                               *)
(***************************************************************************)
NeverStalls == Idle /\ told = <<>> => loading # {} \/ tasks # <<>>

(* A script whose file is waited for has a loader, a ready one is queued. *)
ScriptsAreComing ==
    /\ \A s \in Scripts : script[s] \in {"pending", "blocking"} => s \in loading
    /\ \A s \in Scripts : script[s] = "soon" => \E i \in 1..Len(soon) : soon[i] = s

(* JavaScript that the parser runs returns to a pump session. *)
ScriptShape(st) ==
    \A i \in 1..Len(st) : st[i] = "script" => i < Len(st) /\ st[i + 1] = "pump"

(* A parser that has not stopped will be finished, or ends when it resumes. *)
ParserGoesOn ==
    parser = "parsing" =>
        \/ "finish" \in UnderWay(stack)
        \/ endDelayed /\ (blocking # None \/ "pump" \in UnderWay(stack))

(* The document hears of the end of its parser, and of its load event. *)
EndComes ==
    parser \in Stops /\ parsing # "finished" => UnderWay(stack) \cap {"end", "parsed"} # {}
CloseComes ==
    progress = "inProgress" => "closed" \in UnderWay(stack)

CallsGoOn == ScriptShape(stack) /\ ParserGoesOn /\ EndComes /\ CloseComes

(* The scripts' part of it does not depend on the calls under way. *)
LEMMA ScriptsKeepComing == IInv /\ PageInv /\ ScriptsAreComing /\ [Next]_vars => ScriptsAreComing'
<1> SUFFICES ASSUME IInv, PageInv, ScriptsAreComing, [Next]_vars PROVE ScriptsAreComing'
  OBVIOUS
<1> USE DEF vars, fetchVars, runnerVars, parserVars, documentVars
<1>1. TypeOK /\ \A s \in Scripts : s # Main /\ s # None
  BY NamesAssumption DEF IInv
<1>2. ASSUME NEW s \in Scripts,
             InlineScript(s) \/ BlockingScript(s) \/ AsyncScript(s) \/ InsertScript(s)
      PROVE  ScriptsAreComing'
  <2>1. PICK v \in {"pending", "blocking", "done"} : script' = [script EXCEPT ![s] = v]
    BY <1>2 DEF InlineScript, BlockingScript, AsyncScript, InsertScript, PrepareAsyncScript
  <2>2. /\ loading \subseteq loading' /\ UNCHANGED soon
        /\ v # "done" => s \in loading'
    BY <1>1, <1>2, <2>1 DEF InlineScript, BlockingScript, AsyncScript, InsertScript,
       PrepareAsyncScript, QueueScriptForExecution, TypeOK
  <2> QED BY <1>1, <2>1, <2>2 DEF ScriptsAreComing, TypeOK
<1>3. ASSUME NEW s \in Scripts, AsyncScriptAnswers(s) PROVE ScriptsAreComing'
  <2>1. /\ script' = [script EXCEPT ![s] = "soon"] /\ loading' = loading \ {s}
        /\ soon' = Append(soon, s) /\ soon \in Seq(Scripts)
    BY <1>1, <1>3 DEF AsyncScriptAnswers, TypeOK
  <2>2. /\ Len(soon') = Len(soon) + 1 /\ soon'[Len(soon) + 1] = s /\ Len(soon) \in Nat
        /\ \A i \in 1..Len(soon) : soon'[i] = soon[i]
    BY <2>1, AppendProperties, LenProperties
  <2>3. ASSUME NEW r \in Scripts, script'[r] = "soon"
        PROVE  \E i \in 1..Len(soon') : soon'[i] = r
    <3>1. CASE r = s BY <2>2, <3>1
    <3>2. CASE r # s
      <4>1. script[r] = "soon" BY <1>1, <2>1, <2>3, <3>2 DEF TypeOK
      <4> QED BY <2>2, <4>1 DEF ScriptsAreComing
    <3> QED BY <3>1, <3>2
  <2> QED BY <1>1, <2>1, <2>3 DEF ScriptsAreComing, TypeOK
<1>4. ASSUME NEW s \in Scripts, BlockingScriptAnswers(s) PROVE ScriptsAreComing'
  BY <1>1, <1>4 DEF BlockingScriptAnswers, ScriptsAreComing, TypeOK
<1>5. CASE ExecuteAsyncTask
  <2>1. /\ soon \in Seq(Scripts) /\ soon # <<>> /\ soon' = Tail(soon) /\ UNCHANGED loading
        /\ script' = [script EXCEPT ![Head(soon)] = "running"]
    BY <1>1, <1>5 DEF ExecuteAsyncTask, TypeOK
  <2>2. /\ Len(soon') = Len(soon) - 1 /\ Len(soon) \in Nat
        /\ Head(soon) = soon[1] /\ Head(soon) \in Scripts
        /\ \A i \in 1..Len(soon') : soon'[i] = soon[i + 1]
    BY <2>1, HeadTailProperties, LenProperties
  <2>3. ASSUME NEW r \in Scripts, script'[r] = "soon"
        PROVE  \E i \in 1..Len(soon') : soon'[i] = r
    <3>1. script[r] = "soon" /\ r # soon[1] BY <1>1, <2>1, <2>2, <2>3 DEF TypeOK
    <3>2. PICK i \in 1..Len(soon) : soon[i] = r BY <3>1 DEF ScriptsAreComing
    <3>3. i - 1 \in 1..Len(soon') /\ (i - 1) + 1 = i BY <2>2, <3>1, <3>2
    <3> QED BY <2>2, <3>2, <3>3
  <2> QED BY <1>1, <2>1, <2>2, <2>3 DEF ScriptsAreComing, TypeOK
<1>6. CASE DecrementLoadEventDelayCount
  BY <1>6 DEF DecrementLoadEventDelayCount, ScriptsAreComing
<1>7. ASSUME UNCHANGED <<script, soon>>, loading' = loading \/ loading' = loading \ {Main}
      PROVE  ScriptsAreComing'
  BY <1>1, <1>7 DEF ScriptsAreComing
<1>8. CASE \/ PumpStops \/ PumpEnds \/ Finish \/ FinishedParsing \/ ParsingIsFinished
           \/ StopParsing \/ JavaScriptReturns \/ CheckCompleted \/ ImplicitClose
           \/ LoadEventIsOver \/ DispatchDidFinishLoad
  BY <1>7, <1>8 DEF PumpStops, PumpEnds, Finish, FinishedParsing, ParsingIsFinished,
     StopParsing, JavaScriptReturns, CheckCompleted, ImplicitClose, LoadEventIsOver,
     DispatchDidFinishLoad
<1>9. CASE \/ ExecuteExtraTask \/ LoadEventDelayTimerFired \/ MainResourceAnswers
           \/ MainResourceFails \/ UNCHANGED vars
  BY <1>7, <1>9 DEF ExecuteExtraTask, LoadEventDelayTimerFired, MainResourceAnswers,
     MainResourceFails
<1> QED BY <1>2, <1>3, <1>4, <1>5, <1>6, <1>8, <1>9
        DEF Next, MainThread, DispatchTask, MainAnswers, ScriptAnswers

(* Calls keep the shape if their own scripts return to a pump. *)
LEMMA ScriptShapeConcat ==
    ASSUME NEW fr \in Seq(Frames), NEW st \in Seq(Frames), ScriptShape(st),
           \/ ScriptShape(fr)
           \/ fr = <<"script">> /\ st # <<>> /\ Head(st) = "pump"
    PROVE  ScriptShape(fr \o st)
<1>1. /\ Len(fr \o st) = Len(fr) + Len(st) /\ Len(fr) \in Nat /\ Len(st) \in Nat
      /\ \A i \in 1..(Len(fr) + Len(st)) :
            (fr \o st)[i] = IF i <= Len(fr) THEN fr[i] ELSE st[i - Len(fr)]
  BY ConcatProperties, LenProperties
<1> SUFFICES ASSUME NEW i \in 1..Len(fr \o st), (fr \o st)[i] = "script"
             PROVE  i < Len(fr \o st) /\ (fr \o st)[i + 1] = "pump"
  BY DEF ScriptShape
<1> DEFINE j == i - Len(fr)
<1>2. CASE i <= Len(fr) /\ ScriptShape(fr)
  <2>1. i < Len(fr) /\ fr[i + 1] = "pump" BY <1>1, <1>2 DEF ScriptShape
  <2> QED BY <1>1, <2>1
<1>3. CASE i <= Len(fr) /\ fr = <<"script">> /\ st # <<>> /\ Head(st) = "pump"
  <2>1. i = 1 /\ Len(fr) = 1 BY <1>1, <1>3
  <2>2. Len(st) >= 1 /\ st[1] = "pump" BY <1>3, Behind
  <2>3. 2 \in 1..(Len(fr) + Len(st)) /\ 2 - Len(fr) = 1 /\ ~(2 <= Len(fr)) /\ i + 1 = 2
    BY <1>1, <2>1, <2>2
  <2>4. (fr \o st)[2] = st[1] BY <1>1, <2>3
  <2> QED BY <1>1, <2>1, <2>2, <2>3, <2>4
<1>4. CASE i > Len(fr)
  <2>1. j \in 1..Len(st) /\ st[j] = "script" BY <1>1, <1>4
  <2>2. j < Len(st) /\ st[j + 1] = "pump" BY <2>1 DEF ScriptShape
  <2> QED BY <1>1, <2>1, <2>2
<1> QED BY <1>1, <1>2, <1>3, <1>4

LEMMA ScriptShapeTail ==
    ASSUME NEW st \in Seq(Frames), st # <<>>, ScriptShape(st)
    PROVE  /\ ScriptShape(Tail(st))
           /\ "script" \in UnderWay(Tail(st)) => "pump" \in UnderWay(Tail(st))
<1> DEFINE t == Tail(st)
<1>1. /\ Len(t) = Len(st) - 1 /\ Len(st) \in Nat /\ Len(st) >= 1
      /\ \A i \in 1..Len(t) : t[i] = st[i + 1]
  BY Behind
<1> HIDE DEF t
<1>2. ASSUME NEW i \in 1..Len(t), t[i] = "script"
      PROVE  i < Len(t) /\ t[i + 1] = "pump"
  <2>1. i + 1 \in 1..Len(st) /\ st[i + 1] = "script" BY <1>1, <1>2
  <2>2. i + 1 < Len(st) /\ st[(i + 1) + 1] = "pump" BY <2>1 DEF ScriptShape
  <2> QED BY <1>1, <2>1, <2>2
<1>3. ScriptShape(t) BY <1>2 DEF ScriptShape
<1>4. ASSUME NEW i \in 1..Len(t), t[i] = "script" PROVE "pump" \in UnderWay(t)
  <2>1. i < Len(t) /\ t[i + 1] = "pump" BY <1>2, <1>4
  <2>2. i + 1 \in 1..Len(t) BY <1>1, <2>1
  <2> QED BY <2>1, <2>2 DEF UnderWay
<1>5. "script" \in UnderWay(t) => "pump" \in UnderWay(t) BY <1>4 DEF UnderWay
<1> QED BY <1>3, <1>5 DEF t

(* The calls that are made have it. *)
LEMMA ScriptCalls ==
    /\ ScriptShape(<<>>) /\ ScriptShape(<<"pump">>) /\ ScriptShape(<<"checkCompleted">>)
    /\ ScriptShape(<<"close">>) /\ ScriptShape(<<"announce">>) /\ ScriptShape(<<"listener">>)
    /\ ScriptShape(<<"listener", "end">>) /\ ScriptShape(<<"listener", "decrement">>)
    /\ ScriptShape(<<"listener", "parsed">>) /\ ScriptShape(<<"listener", "close">>)
    /\ ScriptShape(<<"checkCompleted", "stopParsing">>)
    /\ ScriptShape(<<"listener", "closed", "announce">>)
    /\ ScriptShape(<<"pump", "finish", "checkCompleted">>)
    /\ ScriptShape(<<"script", "pump", "checkCompleted">>)
BY DEF ScriptShape

(* A step makes calls, or returns and makes calls. *)
LEMMA ScriptShapeStep ==
    ASSUME TypeOK, ScriptShape(stack), NEW fr, ScriptShape(fr),
           Plain(fr) \/ fr = <<"listener", "decrement">>,
           (GoOnWith(fr) /\ stack # <<>>) \/ Call(fr)
    PROVE  ScriptShape(stack')
<1>1. fr \in Seq(Frames) /\ stack \in Seq(Frames) BY CallsAreFrames DEF TypeOK
<1>2. CASE GoOnWith(fr) /\ stack # <<>>
  <2>1. Tail(stack) \in Seq(Frames) /\ ScriptShape(Tail(stack))
    BY <1>1, <1>2, Behind, ScriptShapeTail
  <2> QED BY <1>1, <1>2, <2>1, ScriptShapeConcat DEF GoOnWith
<1>3. CASE Call(fr) BY <1>1, <1>3, ScriptShapeConcat DEF Call
<1> QED BY <1>2, <1>3

(* A step that takes none of the calls that matter away. *)
LEMMA WayIsKept ==
    ASSUME ParserGoesOn, EndComes, CloseComes,
           UnderWay(stack) \cap {"finish", "pump", "end", "parsed", "closed"}
              \subseteq UnderWay(stack'),
           UNCHANGED <<parsing, endDelayed>>,
           blocking' = blocking \/ blocking' # None,
           parser' = "parsing" => parser = "parsing",
           parser' \in Stops => parser \in Stops,
           progress' = "inProgress" => progress = "inProgress" \/ "closed" \in UnderWay(stack')
    PROVE  ParserGoesOn' /\ EndComes' /\ CloseComes'
BY DEF ParserGoesOn, EndComes, CloseComes

(* The tokenizer reads a script element. *)
LEMMA ReadGoesOn ==
    ASSUME IInv, PageInv, CallsGoOn, NEW s \in Scripts,
           InlineScript(s) \/ BlockingScript(s) \/ AsyncScript(s)
    PROVE  CallsGoOn'
<1> USE DEF fetchVars, runnerVars, parserVars, documentVars
<1>1. TypeOK /\ s # None BY NamesAssumption DEF IInv
<1>2. PICK calls \in {<<>>, <<"script">>} : ReadScript(s, calls)
  BY DEF InlineScript, BlockingScript, AsyncScript
<1> DEFINE pumps == IF In("pump") THEN stack ELSE <<"pump">> \o stack
<1>3. stack \in Seq(Frames) /\ <<"pump">> \in Seq(Frames) /\ calls \in Seq(Frames)
  <2>1. Plain(calls) /\ Plain(<<"pump">>) BY PlainCalls
  <2> QED BY <1>1, <2>1, CallsAreFrames DEF TypeOK
<1>4. pumps \in Seq(Frames) /\ pumps # <<>> /\ Head(pumps) = "pump" /\ ScriptShape(pumps)
  <2>1. CASE In("pump") BY <1>3, <2>1 DEF In, CallsGoOn
  <2>2. CASE ~In("pump")
    <3>1. <<"pump">> \o stack \in Seq(Frames) /\ ScriptShape(<<"pump">> \o stack)
      BY <1>3, ScriptShapeConcat, ScriptCalls, ConcatProperties DEF CallsGoOn
    <3>2. /\ Len(<<"pump">> \o stack) = 1 + Len(stack) /\ Len(stack) \in Nat
          /\ (<<"pump">> \o stack)[1] = "pump"
      BY <1>3, ConcatProperties, LenProperties
    <3> DEFINE p == <<"pump">> \o stack
    <3> HIDE DEF p
    <3>3. p # <<>> /\ Head(p) = p[1]
      <4>1. p \in Seq(Frames) /\ Len(p) = 1 + Len(stack) /\ Len(stack) \in Nat
        BY <3>1, <3>2 DEF p
      <4>2. p # <<>> BY <4>1, EmptySeq
      <4> QED BY <4>1, <4>2, Behind
    <3> QED BY <2>2, <3>1, <3>2, <3>3 DEF p
  <2> QED BY <2>1, <2>2
<1>5. stack' = calls \o pumps BY <1>2 DEF ReadScript
<1> HIDE DEF pumps
<1>6. ScriptShape(stack')
  <2>1. CASE calls = <<>> BY <1>3, <1>4, <1>5, <2>1, ScriptShapeConcat, ScriptCalls
  <2>2. CASE calls = <<"script">> BY <1>3, <1>4, <1>5, <2>2, ScriptShapeConcat
  <2> QED BY <1>2, <2>1, <2>2
<1>7. UnderWay(stack) \subseteq UnderWay(stack') BY <1>1, <1>2, ReadStep
<1>8. UNCHANGED <<parser, parsing, endDelayed, progress>> /\ (blocking' = blocking \/ blocking' # None)
  BY <1>1 DEF InlineScript, BlockingScript, AsyncScript
<1>9. ParserGoesOn' /\ EndComes' /\ CloseComes'
  BY <1>7, <1>8, WayIsKept DEF CallsGoOn
<1> QED BY <1>6, <1>9 DEF CallsGoOn

(* A call that does not matter to the end of the page returns, or makes others. *)
LEMMA PlainReturnGoesOn ==
    ASSUME IInv, PageInv, CallsGoOn,
           NEW f \in {"script", "listener", "stopParsing", "decrement", "checkCompleted",
                      "close", "announce"}, In(f),
           NEW fr, GoOnWith(fr), Plain(fr), "finish" \notin UnderWay(fr),
           ClosedShape(fr), ScriptShape(fr),
           UNCHANGED <<parsing, endDelayed, blocking>>,
           parser' = parser \/ (parser \in Stops /\ parser' # "parsing"),
           progress' = progress \/ "closed" \in UnderWay(fr)
    PROVE  CallsGoOn'
<1>1. TypeOK /\ stack # <<>> BY DEF IInv, In
<1>2. /\ UnderWay(stack) = {f} \cup UnderWay(Tail(stack))
      /\ UnderWay(stack') = UnderWay(fr) \cup UnderWay(Tail(stack))
  BY <1>1, ReturnStep DEF PageInv
<1>3. ScriptShape(stack') BY <1>1, ScriptShapeStep DEF CallsGoOn
<1>4. UnderWay(stack) \cap {"finish", "pump", "end", "parsed", "closed"} \subseteq UnderWay(stack')
  BY <1>2
<1>5. "closed" \in UnderWay(fr) => "closed" \in UnderWay(stack') BY <1>2
<1>6. parser' = "parsing" => parser = "parsing"
  OBVIOUS
<1>7. parser' \in Stops => parser \in Stops
  OBVIOUS
<1>8. progress' = "inProgress" => progress = "inProgress" \/ "closed" \in UnderWay(stack')
  BY <1>5
<1>9. ParserGoesOn' /\ EndComes' /\ CloseComes'
  BY <1>4, <1>6, <1>7, <1>8, WayIsKept DEF CallsGoOn
<1> QED BY <1>3, <1>9 DEF CallsGoOn

(* JavaScript, the ScriptRunner's decrement and the document's checks are such calls. *)
LEMMA DocumentGoesOn ==
    ASSUME IInv, PageInv, CallsGoOn,
           \/ JavaScriptReturns \/ DecrementLoadEventDelayCount \/ StopParsing
           \/ CheckCompleted \/ ImplicitClose \/ DispatchDidFinishLoad
    PROVE  CallsGoOn'
<1> USE CallsMade, CallsInShape, PlainCalls, ScriptCalls
        DEF fetchVars, runnerVars, parserVars, documentVars
<1>1. stack \in Seq(Frames) BY DEF IInv, TypeOK
<1>2. \A f : In(f) => f \in UnderWay(stack) BY <1>1, UnderWayTail DEF In
<1>3. CASE JavaScriptReturns
  <2>1. PICK f \in {"script", "listener"} : In(f)
    BY <1>3 DEF JavaScriptReturns, InJavaScript
  <2>2. GoOnWith(<<>>) /\ UNCHANGED <<parsing, endDelayed, blocking, parser, progress>>
    BY <1>3 DEF JavaScriptReturns
  <2> QED BY <2>1, <2>2, PlainReturnGoesOn
<1>4. CASE DecrementLoadEventDelayCount
  <2>1. /\ In("decrement") /\ GoOnWith(<<>>)
        /\ UNCHANGED <<parsing, endDelayed, blocking, parser, progress>>
    BY <1>4 DEF DecrementLoadEventDelayCount
  <2> QED BY <2>1, PlainReturnGoesOn
<1>5. CASE StopParsing
  <2>1. /\ In("stopParsing") /\ GoOnWith(<<>>) /\ parser' = "stopped"
        /\ UNCHANGED <<parsing, endDelayed, blocking, progress>>
    BY <1>5 DEF StopParsing
  <2>2. parser \in Stops BY <1>2, <2>1 DEF PageInv, AfterStop
  <2> QED BY <2>1, <2>2, PlainReturnGoesOn
<1>6. CASE CheckCompleted
  <2>1. /\ In("checkCompleted")
        /\ UNCHANGED <<parsing, endDelayed, blocking, parser, progress>>
        /\ \/ GoOnWith(<<>>) \/ GoOnWith(<<"close">>) \/ GoOnWith(<<"listener", "close">>)
    BY <1>6 DEF CheckCompleted
  <2> QED BY <2>1, PlainReturnGoesOn
<1>7. CASE ImplicitClose
  <2>1. In("close") /\ UNCHANGED <<parsing, endDelayed, blocking>>
    BY <1>7 DEF ImplicitClose
  <2>2. parser \in Stops BY <1>2, <2>1 DEF PageInv, AfterStop
  <2>3. CASE progress = "notRun"
    <3>1. GoOnWith(<<"listener", "closed", "announce">>) /\ parser' = "detached"
      BY <1>7, <2>3 DEF ImplicitClose
    <3> QED BY <2>1, <2>2, <3>1, PlainReturnGoesOn
  <2>4. CASE progress # "notRun"
    <3>1. GoOnWith(<<"announce">>) /\ UNCHANGED <<parser, progress>>
      BY <1>7, <2>4 DEF ImplicitClose
    <3> QED BY <2>1, <3>1, PlainReturnGoesOn
  <2> QED BY <2>3, <2>4
<1>8. CASE DispatchDidFinishLoad
  <2>1. /\ In("announce")
        /\ UNCHANGED <<parsing, endDelayed, blocking, parser, progress>>
        /\ GoOnWith(<<>>) \/ GoOnWith(<<"listener">>)
    BY <1>8 DEF DispatchDidFinishLoad
  <2> QED BY <2>1, PlainReturnGoesOn
<1> QED BY <1>3, <1>4, <1>5, <1>6, <1>7, <1>8

(* The parser's own steps. *)
LEMMA ParserKeepsGoing ==
    ASSUME IInv, EndIsNext, PageInv, CallsGoOn,
           \/ PumpStops \/ PumpEnds \/ Finish
           \/ FinishedParsing \/ ParsingIsFinished \/ LoadEventIsOver
    PROVE  CallsGoOn'
<1> USE DEF fetchVars, runnerVars, parserVars, documentVars
<1>1. TypeOK /\ stack \in Seq(Frames) BY DEF IInv, TypeOK
<1>2. ASSUME NEW f, In(f), NEW fr, GoOnWith(fr),
             fr \in {<<>>, <<"listener", "end">>, <<"listener", "parsed">>,
                     <<"checkCompleted", "stopParsing">>}
      PROVE  LET B == UnderWay(Tail(stack)) IN
             /\ ScriptShape(stack') /\ UnderWay(stack) = {f} \cup B
             /\ UnderWay(stack') = UnderWay(fr) \cup B
             /\ "script" \in B => "pump" \in B
             /\ f = "finish" => B = {"checkCompleted"}
             /\ ShouldDelayEnd <=> blocking # None \/ B \cap {"pump", "script"} # {}
  <2>1. Plain(fr) /\ ClosedShape(fr) /\ ScriptShape(fr) /\ "finish" \notin UnderWay(fr)
    BY <1>2, PlainCalls, CallsInShape, ScriptCalls, CallsMade
  <2>2. stack # <<>> BY <1>2 DEF In
  <2>3. ScriptShape(stack') BY <1>1, <1>2, <2>1, <2>2, ScriptShapeStep DEF CallsGoOn
  <2>4. "script" \in UnderWay(Tail(stack)) => "pump" \in UnderWay(Tail(stack))
    BY <1>1, <2>2, ScriptShapeTail DEF CallsGoOn
  <2> QED BY <1>1, <1>2, <2>1, <2>3, <2>4, ReturnStep DEF PageInv
<1>0. /\ UnderWay(<<>>) = {} /\ UnderWay(<<"listener", "end">>) = {"listener", "end"}
      /\ UnderWay(<<"listener", "parsed">>) = {"listener", "parsed"}
      /\ UnderWay(<<"checkCompleted", "stopParsing">>) = {"checkCompleted", "stopParsing"}
  BY CallsMade
<1>3. CASE PumpStops
  <2>1. /\ In("pump") /\ GoOnWith(<<>>) /\ blocking # None
        /\ UNCHANGED <<parser, blocking, endDelayed, parsing, progress>>
    BY <1>3 DEF PumpStops, IsPaused
  <2>2. /\ ScriptShape(stack') /\ UnderWay(stack) = {"pump"} \cup UnderWay(Tail(stack))
        /\ UnderWay(stack') = UnderWay(Tail(stack))
    BY <1>2, <2>1, <1>0
  <2> QED BY <2>1, <2>2 DEF CallsGoOn, ParserGoesOn, EndComes, CloseComes
<1>4. CASE PumpEnds
  <2>1. In("pump") /\ blocking = None /\ UNCHANGED <<blocking, parsing, progress>>
    BY <1>4 DEF PumpEnds, IsPaused
  <2>2. CASE endDelayed /\ ~ShouldDelayEnd
    <3>1. parser' = "stopping" /\ GoOnWith(<<"listener", "end">>)
      BY <1>4, <2>2, ParserStops DEF PumpEnds
    <3>2. /\ ScriptShape(stack') /\ UnderWay(stack) = {"pump"} \cup UnderWay(Tail(stack))
          /\ UnderWay(stack') = {"listener", "end"} \cup UnderWay(Tail(stack))
      BY <1>2, <2>1, <3>1, <1>0
    <3> QED BY <2>1, <3>1, <3>2 DEF CallsGoOn, ParserGoesOn, EndComes, CloseComes
  <2>3. CASE ~(endDelayed /\ ~ShouldDelayEnd)
    <3>1. GoOnWith(<<>>) /\ UNCHANGED <<parser, endDelayed>>
      BY <1>4, <2>3 DEF PumpEnds
    <3>2. /\ ScriptShape(stack') /\ UnderWay(stack) = {"pump"} \cup UnderWay(Tail(stack))
          /\ UnderWay(stack') = UnderWay(Tail(stack))
      BY <1>2, <3>1, <2>1, <1>0
    <3>3. endDelayed => UnderWay(Tail(stack)) \cap {"pump", "script"} # {}
      BY <1>2, <2>1, <2>3, <3>1
    <3>4. "script" \in UnderWay(Tail(stack)) => "pump" \in UnderWay(Tail(stack))
      BY <1>2, <2>1, <3>1
    <3> QED BY <2>1, <3>1, <3>2, <3>3, <3>4 DEF CallsGoOn, ParserGoesOn, EndComes, CloseComes
  <2> QED BY <2>2, <2>3
<1>5. CASE Finish
  <2>1. In("finish") /\ UNCHANGED <<blocking, parsing, progress>>
    BY <1>5 DEF Finish
  <2>2. CASE ShouldDelayEnd
    <3>1. GoOnWith(<<>>) /\ endDelayed' /\ UNCHANGED parser BY <1>5, <2>2 DEF Finish
    <3>2. /\ ScriptShape(stack') /\ UnderWay(stack) = {"finish"} \cup UnderWay(Tail(stack))
          /\ UnderWay(stack') = UnderWay(Tail(stack)) /\ blocking # None
      BY <1>2, <2>1, <2>2, <3>1, <1>0
    <3> QED BY <2>1, <3>1, <3>2 DEF CallsGoOn, ParserGoesOn, EndComes, CloseComes
  <2>3. CASE ~ShouldDelayEnd
    <3>1. parser' = "stopping" /\ GoOnWith(<<"listener", "end">>)
      BY <1>5, <2>3, ParserStops DEF Finish
    <3>2. /\ ScriptShape(stack') /\ UnderWay(stack) = {"finish"} \cup UnderWay(Tail(stack))
          /\ UnderWay(stack') = {"listener", "end"} \cup UnderWay(Tail(stack))
      BY <1>2, <2>1, <3>1, <1>0
    <3> QED BY <2>1, <3>1, <3>2 DEF CallsGoOn, ParserGoesOn, EndComes, CloseComes
  <2> QED BY <2>2, <2>3
<1>6. CASE FinishedParsing
  <2>1. /\ In("end") /\ GoOnWith(<<"listener", "parsed">>)
        /\ UNCHANGED <<parser, blocking, endDelayed, progress>>
    BY <1>6 DEF FinishedParsing
  <2>2. /\ ScriptShape(stack') /\ UnderWay(stack) = {"end"} \cup UnderWay(Tail(stack))
        /\ UnderWay(stack') = {"listener", "parsed"} \cup UnderWay(Tail(stack))
    BY <1>2, <2>1, <1>0
  <2> QED BY <2>1, <2>2 DEF CallsGoOn, ParserGoesOn, EndComes, CloseComes
<1>7. CASE ParsingIsFinished
  <2>1. /\ In("parsed") /\ GoOnWith(<<"checkCompleted", "stopParsing">>)
        /\ UNCHANGED <<parser, blocking, endDelayed, progress>> /\ parsing' = "finished"
    BY <1>7 DEF ParsingIsFinished
  <2>2. /\ ScriptShape(stack') /\ UnderWay(stack) = {"parsed"} \cup UnderWay(Tail(stack))
        /\ UnderWay(stack') = {"checkCompleted", "stopParsing"} \cup UnderWay(Tail(stack))
    BY <1>2, <2>1, <1>0
  <2> QED BY <2>1, <2>2 DEF CallsGoOn, ParserGoesOn, EndComes, CloseComes
<1>8. CASE LoadEventIsOver
  <2>1. /\ In("closed") /\ GoOnWith(<<>>) /\ progress' = "completed"
        /\ UNCHANGED <<parser, blocking, endDelayed, parsing>>
    BY <1>8 DEF LoadEventIsOver
  <2>2. /\ ScriptShape(stack') /\ UnderWay(stack) = {"closed"} \cup UnderWay(Tail(stack))
        /\ UnderWay(stack') = UnderWay(Tail(stack))
    BY <1>2, <2>1, <1>0
  <2> QED BY <2>1, <2>2 DEF CallsGoOn, ParserGoesOn, EndComes, CloseComes
<1> QED BY <1>3, <1>4, <1>5, <1>6, <1>7, <1>8

(* Answers and closures, on an idle main thread, and scripts inserted. *)
LEMMA LoopGoesOn ==
    ASSUME IInv, PageInv, CallsGoOn,
           \/ DispatchTask \/ MainAnswers \/ UNCHANGED vars
           \/ \E s \in Scripts : ScriptAnswers(s) \/ InsertScript(s)
    PROVE  CallsGoOn'
<1> USE DEF vars, fetchVars, runnerVars, parserVars, documentVars
<1>1. TypeOK BY DEF IInv
<1>2. ASSUME stack = <<>>, NEW fr, Call(fr), Plain(fr) \/ fr = <<"listener", "decrement">>,
             ScriptShape(fr)
      PROVE  ScriptShape(stack') /\ stack' = fr
  <2>1. fr \in Seq(Frames) BY <1>2, CallsAreFrames
  <2>2. ScriptShape(stack') BY <1>1, <1>2, ScriptShapeStep DEF CallsGoOn
  <2> QED BY <1>2, <2>1, <2>2, ConcatEmptySeq DEF Call
<1>3. ASSUME UNCHANGED <<parser, blocking, endDelayed, parsing, progress>>,
             ScriptShape(stack'), stack = <<>> \/ stack' = stack
      PROVE  CallsGoOn'
  <2>1. UnderWay(stack) \subseteq UnderWay(stack')
    BY <1>3, CallsMade
  <2>2. ParserGoesOn' /\ EndComes' /\ CloseComes'
    BY <1>3, <2>1, WayIsKept DEF CallsGoOn
  <2> QED BY <1>3, <2>2 DEF CallsGoOn
<1>4. CASE ExecuteAsyncTask
  <2>1. stack = <<>> /\ Call(<<"listener", "decrement">>)
    BY <1>4 DEF ExecuteAsyncTask, Dispatch, Idle
  <2> QED BY <1>2, <1>3, <1>4, <2>1, ScriptCalls DEF ExecuteAsyncTask
<1>5. CASE LoadEventDelayTimerFired
  <2>1. stack = <<>> /\ Call(<<"checkCompleted">>)
    BY <1>5 DEF LoadEventDelayTimerFired, Dispatch, Idle
  <2> QED BY <1>2, <1>3, <1>5, <2>1, ScriptCalls, PlainCalls DEF LoadEventDelayTimerFired
<1>6. ASSUME NEW s \in Scripts, AsyncScriptAnswers(s) PROVE CallsGoOn'
  <2>1. stack = <<>> /\ Call(<<"checkCompleted">>)
    BY <1>6 DEF AsyncScriptAnswers, Idle
  <2> QED BY <1>2, <1>3, <1>6, <2>1, ScriptCalls, PlainCalls DEF AsyncScriptAnswers
<1>7. ASSUME \/ ExecuteExtraTask \/ MainResourceFails \/ UNCHANGED vars
             \/ \E s \in Scripts : InsertScript(s)
      PROVE  CallsGoOn'
  <2>1. UNCHANGED <<parser, blocking, endDelayed, parsing, progress, stack>>
    BY <1>7 DEF ExecuteExtraTask, MainResourceFails, InsertScript
  <2> QED BY <1>3, <2>1 DEF CallsGoOn
<1>8. CASE MainResourceAnswers
  <2>1. /\ stack = <<>> /\ Call(<<"pump", "finish", "checkCompleted">>)
        /\ parser' = "parsing" /\ progress' = "notRun"
    BY <1>8 DEF MainResourceAnswers, Idle
  <2>2. ScriptShape(stack') /\ stack' = <<"pump", "finish", "checkCompleted">>
    BY <1>2, <2>1, ScriptCalls, PlainCalls
  <2>3. "finish" \in UnderWay(stack') BY <2>2, CallsMade
  <2> QED BY <2>1, <2>2, <2>3 DEF CallsGoOn, ParserGoesOn, EndComes, CloseComes, Stops
<1>9. ASSUME NEW s \in Scripts, BlockingScriptAnswers(s) PROVE CallsGoOn'
  <2>1. /\ stack = <<>> /\ Call(<<"script", "pump", "checkCompleted">>) /\ blocking = s
        /\ UNCHANGED <<parser, endDelayed, parsing, progress>>
    BY <1>9 DEF BlockingScriptAnswers, Idle
  <2>2. ScriptShape(stack') /\ stack' = <<"script", "pump", "checkCompleted">>
    BY <1>2, <2>1, ScriptCalls, PlainCalls
  <2>3. UnderWay(stack) = {} /\ UnderWay(stack') = {"script", "pump", "checkCompleted"}
    BY <2>1, <2>2, CallsMade
  <2>4. parser \notin Stops BY <2>1, NamesAssumption DEF PageInv, StopsClean
  <2> QED BY <2>1, <2>2, <2>3, <2>4 DEF CallsGoOn, ParserGoesOn, EndComes, CloseComes
<1> QED BY <1>4, <1>5, <1>6, <1>7, <1>8, <1>9 DEF DispatchTask, MainAnswers, ScriptAnswers

LEMMA CallsKeepGoing ==
    IInv /\ EndIsNext /\ PageInv /\ CallsGoOn /\ [Next]_vars => CallsGoOn'
<1> SUFFICES ASSUME IInv, EndIsNext, PageInv, CallsGoOn, [Next]_vars PROVE CallsGoOn'
  OBVIOUS
<1>1. ASSUME MainThread PROVE CallsGoOn'
  BY <1>1, ReadGoesOn, DocumentGoesOn, ParserKeepsGoing DEF MainThread
<1> QED BY <1>1, LoopGoesOn DEF Next

(* On an idle main thread, all of it leaves the page nothing to wait for. *)
LEMMA NothingStalls ==
    ASSUME IInv, PageInv, ScriptsAreComing, CallsGoOn
    PROVE  NeverStalls
<1> SUFFICES ASSUME stack = <<>>, told = <<>>, loading = {}, tasks = <<>> PROVE FALSE
  BY DEF NeverStalls, Idle
<1>1. TypeOK /\ UnderWay(stack) = {} BY CallsMade DEF IInv
<1>2. parser # "none" BY DEF PageInv, ToldOnce
<1>3. Posted("ExecuteTask") = 0 /\ Posted("LoadEventDelayTimer") = 0
  <2>1. \A t : {i \in DOMAIN tasks : tasks[i] = t} = {} OBVIOUS
  <2> QED BY <2>1, FS_EmptySet DEF Posted
<1>4. soon = <<>>
  <2>1. soon \in Seq(Scripts) /\ extraTasks \in Nat BY ONLY <1>1 DEF TypeOK
  <2>2. Len(soon) \in Nat BY ONLY <2>1, LenProperties
  <2>3. streamed \cap InState({"pending"}) = {} BY DEF ScriptsAreComing, InState
  <2>4. Cardinality(streamed \cap InState({"pending"})) = 0 BY ONLY <2>3, FS_EmptySet
  <2>5. Len(soon) + extraTasks
          = Posted("ExecuteTask") + Cardinality(streamed \cap InState({"pending"}))
    BY DEF IInv, ClosuresMatch
  <2>6. Len(soon) = 0 BY ONLY <1>3, <2>1, <2>2, <2>4, <2>5
  <2> QED BY ONLY <2>1, <2>6, EmptySeq
<1>5. InState({"pending", "soon", "running"}) = {}
  <2>1. \A s \in Scripts : script[s] # "soon" BY <1>4 DEF ScriptsAreComing
  <2>2. ~Decrements(stack) BY DEF Decrements
  <2>3. InState({"running"}) = {} BY <2>2 DEF IInv, OneRuns
  <2> QED BY <2>1, <2>3 DEF ScriptsAreComing, InState
<1>6. delayCount = 0 BY <1>5, FS_EmptySet DEF IInv, DelayCountExact
<1>7. blocking = None
  BY <1>1 DEF IInv, Known, ScriptsAreComing, TypeOK
<1>8. parser \in Stops
  BY <1>1, <1>2, <1>7 DEF CallsGoOn, ParserGoesOn, TypeOK, Stops
<1>9. ShouldComplete
  BY <1>1, <1>6, <1>8 DEF CallsGoOn, EndComes, CloseComes, ShouldComplete
<1>10. timerActive BY <1>1, <1>2, <1>9 DEF PageInv, CheckComes
<1> QED BY <1>3, <1>10 DEF IInv, ClosuresMatch

(***************************************************************************)
(* No page stalls: for any number of scripts, in any order, an idle main   *)
(* thread with no closure to run and no request under way has told the     *)
(* client.  Every load event that is put off is therefore put off by an    *)
(* answer or a closure that will come (document.cpp:477 and 642,           *)
(* script_runner.cpp:131, html_document_parser.cc:184 and 639).            *)
(***************************************************************************)
THEOREM PageNeverStalls == Spec => []NeverStalls
<1>1. Init => ScriptsAreComing /\ CallsGoOn
  BY CallsMade, ScriptCalls
     DEF Init, ScriptsAreComing, CallsGoOn, ParserGoesOn, EndComes, CloseComes, Stops
<1> QED BY <1>1, ScriptsKeepComing, CallsKeepGoing, NothingStalls,
        PageInvariant, EndInvariant, PageCalls, PTL DEF Spec

-----------------------------------------------------------------------------
(* A turn of the main thread comes to its end. *)

(* What a call goes on with is of a lower rank. *)
Rank == [f \in Frames |->
    CASE f \in {"pump", "finish"} -> 6
      [] f = "end" -> 5
      [] f = "parsed" -> 4
      [] f = "checkCompleted" -> 3
      [] f = "close" -> 2
      [] f = "announce" -> 1
      [] OTHER -> 0]

Unseen == Cardinality(InState({"new"}))
Calling(f) == Cardinality(Places(stack, f))

(* A call returns, and what it calls instead is of a lower rank. *)
CallsEnd ==
    \E f \in Frames :
        /\ Calling(f)' < Calling(f)
        /\ \A g \in Frames \ {f} : Rank[g] >= Rank[f] => Calling(g)' = Calling(g)

(***************************************************************************)
(* Every step of a turn of the main thread brings the end of the turn      *)
(* nearer: it uses up a script element, or a call returns and what it      *)
(* calls instead is of a lower rank.  So parser, checks and event          *)
(* dispatches cannot keep the loop from its next closure for ever, however *)
(* they nest; only script that does not return can (document.cpp:477,      *)
(* html_document_parser.cc:184 and 639).                                   *)
(***************************************************************************)
TurnAdvances ==
    stack # <<>> =>
        \/ Unseen' < Unseen
        \/ /\ Unseen' = Unseen
           /\ CallsEnd

(* Calls on top of others add none of a frame they do not have. *)
LEMMA PlacesConcat ==
    ASSUME NEW fr \in Seq(Frames), NEW st \in Seq(Frames), NEW g, g \notin UnderWay(fr)
    PROVE  Cardinality(Places(fr \o st, g)) = Cardinality(Places(st, g))
<1>1. /\ Len(fr \o st) = Len(fr) + Len(st) /\ Len(fr) \in Nat /\ Len(st) \in Nat
      /\ DOMAIN (fr \o st) = 1..(Len(fr) + Len(st)) /\ DOMAIN st = 1..Len(st)
      /\ \A i \in 1..(Len(fr) + Len(st)) :
            (fr \o st)[i] = IF i <= Len(fr) THEN fr[i] ELSE st[i - Len(fr)]
      /\ \A i \in 1..Len(fr) : fr[i] # g
  BY ConcatProperties, LenProperties DEF UnderWay
<1> DEFINE below == Places(st, g)
           all == Places(fr \o st, g)
           shift == [i \in below |-> i + Len(fr)]
<1>2. shift \in Bijection(below, all)
  <2>1. shift \in [below -> all] BY <1>1 DEF Places
  <2>2. \A i, j \in below : shift[i] = shift[j] => i = j BY <1>1 DEF Places
  <2>3. \A j \in all : \E i \in below : shift[i] = j
    <3> TAKE j \in all
    <3>1. j - Len(fr) \in below BY <1>1 DEF Places
    <3> QED BY <3>1, <1>1 DEF Places
  <2> QED BY <2>1, <2>2, <2>3 DEF Bijection, Injection, Surjection, IsInjective
<1>3. IsFiniteSet(below) BY PlacesFinite
<1>4. ExistsBijection(below, all) BY <1>2 DEF ExistsBijection
<1> HIDE DEF below, all, shift
<1>5. Cardinality(below) = Cardinality(all) BY <1>3, <1>4, FS_Bijection
<1> QED BY <1>5 DEF below, all

(* What is left of a turn when the running call returns or makes others. *)
LEMMA ReturnAdvances ==
    ASSUME TypeOK, NEW f \in Frames, In(f), NEW fr, GoOnWith(fr), Plain(fr),
           \A g \in UnderWay(fr) : Rank[g] < Rank[f],
           UNCHANGED Unseen
    PROVE  TurnAdvances
<1>1. /\ fr \in Seq(Frames) /\ stack \in Seq(Frames) /\ stack # <<>> /\ Head(stack) = f
      /\ stack' = fr \o Tail(stack) /\ Tail(stack) \in Seq(Frames)
  BY CallsAreFrames, Behind DEF TypeOK, In, GoOnWith
<1>2. Rank \in [Frames -> 0..6] BY DEF Rank
<1>3. ASSUME NEW g \in Frames, Rank[g] >= Rank[f]
      PROVE  Calling(g)' = Calling(g) - (IF g = f THEN 1 ELSE 0)
  <2>1. g \notin UnderWay(fr)
    <3>1. UnderWay(fr) \subseteq Frames BY <1>1, ElementOfSeq DEF UnderWay
    <3> QED BY <1>2, <1>3, <3>1
  <2>2. Cardinality(Places(stack', g)) = Cardinality(Places(Tail(stack), g))
    BY <1>1, <2>1, PlacesConcat
  <2>3. Cardinality(Places(Tail(stack), g)) =
        Cardinality(Places(stack, g)) - (IF f = g THEN 1 ELSE 0)
    BY <1>1, PlacesTail
  <2> QED BY <2>2, <2>3 DEF Calling
<1>4. \A g \in Frames : Calling(g) \in Nat BY <1>1, PlacesFinite DEF Calling
<1>5. Rank[f] >= Rank[f] BY <1>2
<1>6. Calling(f)' < Calling(f)
  <2>1. Calling(f)' = Calling(f) - 1 BY <1>3, <1>5
  <2> HIDE DEF Calling
  <2> QED BY <1>4, <2>1
<1>7. \A g \in Frames \ {f} : Rank[g] >= Rank[f] => Calling(g)' = Calling(g)
  <2> SUFFICES ASSUME NEW g \in Frames \ {f}, Rank[g] >= Rank[f]
               PROVE  Calling(g)' = Calling(g)
    OBVIOUS
  <2>1. Calling(g)' = Calling(g) - 0 BY <1>3
  <2>2. Calling(g) \in Nat BY <1>4
  <2> QED BY <2>1, <2>2
<1> QED BY <1>6, <1>7 DEF TurnAdvances, CallsEnd

(* A script element is used up. *)
LEMMA ScriptAdvances ==
    ASSUME TypeOK, NEW s \in Scripts, NEW v, v # "new", script[s] = "new",
           script' = [script EXCEPT ![s] = v]
    PROVE  Unseen' < Unseen
<1>1. Cardinality(InState({"new"}))' = Cardinality(InState({"new"})) + 0 - 1
  BY CountAfter
<1>2. Cardinality(InState({"new"})) \in Nat BY InStateFinite
<1> QED BY <1>1, <1>2 DEF Unseen

(* What each call goes on with: plain calls of a lower rank. *)
LEMMA CallsGoDown ==
    /\ Plain(<<>>) /\ UnderWay(<<>>) = {}
    /\ {"pump", "finish", "stopParsing", "script", "listener", "closed", "decrement",
        "end", "parsed", "checkCompleted", "close", "announce"} = Frames
    /\ \A fr \in {<<"listener", "end">>} :
          Plain(fr) /\ \A f \in {"pump", "finish"}, g \in UnderWay(fr) : Rank[g] < Rank[f]
    /\ \A fr \in {<<"listener", "parsed">>} :
          Plain(fr) /\ \A g \in UnderWay(fr) : Rank[g] < Rank["end"]
    /\ \A fr \in {<<"checkCompleted", "stopParsing">>} :
          Plain(fr) /\ \A g \in UnderWay(fr) : Rank[g] < Rank["parsed"]
    /\ \A fr \in {<<"close">>, <<"listener", "close">>} :
          Plain(fr) /\ \A g \in UnderWay(fr) : Rank[g] < Rank["checkCompleted"]
    /\ \A fr \in {<<"announce">>, <<"listener", "closed", "announce">>} :
          Plain(fr) /\ \A g \in UnderWay(fr) : Rank[g] < Rank["close"]
    /\ \A fr \in {<<"listener">>} :
          Plain(fr) /\ \A g \in UnderWay(fr) : Rank[g] < Rank["announce"]
<1>1. /\ Rank["pump"] = 6 /\ Rank["finish"] = 6 /\ Rank["end"] = 5 /\ Rank["parsed"] = 4
      /\ Rank["checkCompleted"] = 3 /\ Rank["close"] = 2 /\ Rank["announce"] = 1
      /\ Rank["listener"] = 0 /\ Rank["closed"] = 0 /\ Rank["stopParsing"] = 0
  BY DEF Rank, Frames
<1>2. /\ \A f \in {"pump", "finish"}, g \in {"listener", "end"} : Rank[g] < Rank[f]
      /\ \A g \in {"listener", "parsed"} : Rank[g] < Rank["end"]
      /\ \A g \in {"checkCompleted", "stopParsing"} : Rank[g] < Rank["parsed"]
      /\ \A g \in {"listener", "close"} : Rank[g] < Rank["checkCompleted"]
      /\ \A g \in {"listener", "closed", "announce"} : Rank[g] < Rank["close"]
      /\ Rank["listener"] < Rank["announce"]
  BY ONLY <1>1
<1>3. {"pump", "finish", "stopParsing", "script", "listener", "closed", "decrement",
       "end", "parsed", "checkCompleted", "close", "announce"} = Frames
  BY DEF Frames
<1>4. /\ Plain(<<>>) /\ UnderWay(<<>>) = {}
      /\ Plain(<<"listener", "end">>) /\ Plain(<<"listener", "parsed">>)
      /\ Plain(<<"checkCompleted", "stopParsing">>) /\ Plain(<<"close">>)
      /\ Plain(<<"listener", "close">>) /\ Plain(<<"announce">>)
      /\ Plain(<<"listener", "closed", "announce">>) /\ Plain(<<"listener">>)
  BY PlainCalls, CallsMade
<1>5. /\ UnderWay(<<"listener", "end">>) \subseteq {"listener", "end"}
      /\ UnderWay(<<"listener", "parsed">>) \subseteq {"listener", "parsed"}
      /\ UnderWay(<<"checkCompleted", "stopParsing">>) \subseteq {"checkCompleted", "stopParsing"}
      /\ \A fr \in {<<"close">>, <<"listener", "close">>} : UnderWay(fr) \subseteq {"listener", "close"}
      /\ \A fr \in {<<"announce">>, <<"listener", "closed", "announce">>} :
            UnderWay(fr) \subseteq {"listener", "closed", "announce"}
      /\ UnderWay(<<"listener">>) \subseteq {"listener"}
  BY CallsMade
<1> QED BY ONLY <1>2, <1>3, <1>4, <1>5

LEMMA EveryStepAdvances == IInv /\ [Next]_vars => TurnAdvances \/ UNCHANGED vars
<1> SUFFICES ASSUME IInv, Next PROVE TurnAdvances
  OBVIOUS
<1> USE DEF fetchVars, runnerVars, parserVars, documentVars
<1>1. TypeOK BY DEF IInv
<1>2. UNCHANGED script => UNCHANGED Unseen BY DEF Unseen, InState
<1>3. ASSUME NEW s \in Scripts,
             InlineScript(s) \/ BlockingScript(s) \/ AsyncScript(s) \/ InsertScript(s)
      PROVE  TurnAdvances
  <2>1. PICK v \in {"pending", "blocking", "done"} : script' = [script EXCEPT ![s] = v]
    BY <1>3 DEF InlineScript, BlockingScript, AsyncScript, InsertScript, PrepareAsyncScript
  <2>2. script[s] = "new"
    BY <1>3 DEF InlineScript, BlockingScript, AsyncScript, InsertScript,
       PrepareAsyncScript, ReadScript
  <2> QED BY <1>1, <2>1, <2>2, ScriptAdvances DEF TurnAdvances
<1>4. ASSUME NEW f \in Frames, In(f), NEW fr, GoOnWith(fr), UNCHANGED script,
             Plain(fr), \A g \in UnderWay(fr) : Rank[g] < Rank[f]
      PROVE  TurnAdvances
  BY ONLY <1>1, <1>2, <1>4, ReturnAdvances
<1>5. CASE PumpStops \/ PumpEnds \/ Finish
  <2>1. PICK f \in {"pump", "finish"} : In(f)
    BY <1>5 DEF PumpStops, PumpEnds, Finish
  <2>2. /\ UNCHANGED script
        /\ GoOnWith(<<>>) \/ PrepareToStopParsing(<<>>)
    BY <1>5 DEF PumpStops, PumpEnds, Finish
  <2>3. GoOnWith(<<>>) \/ GoOnWith(<<"listener", "end">>) BY ONLY <2>2, ParserStops
  <2>4. PICK fr \in {<<>>, <<"listener", "end">>} : GoOnWith(fr) BY ONLY <2>3
  <2>5. f \in Frames /\ Plain(fr) /\ \A g \in UnderWay(fr) : Rank[g] < Rank[f]
    BY ONLY <2>1, <2>4, CallsGoDown
  <2> QED BY ONLY <1>4, <2>1, <2>2, <2>4, <2>5
<1>6. CASE FinishedParsing
  <2>1. In("end") /\ UNCHANGED script /\ GoOnWith(<<"listener", "parsed">>)
    BY <1>6 DEF FinishedParsing
  <2> QED BY ONLY <1>4, <2>1, CallsGoDown
<1>7. CASE ParsingIsFinished
  <2>1. In("parsed") /\ UNCHANGED script /\ GoOnWith(<<"checkCompleted", "stopParsing">>)
    BY <1>7 DEF ParsingIsFinished
  <2> QED BY ONLY <1>4, <2>1, CallsGoDown
<1>8. CASE StopParsing \/ JavaScriptReturns \/ LoadEventIsOver
  <2>1. PICK f \in {"stopParsing", "script", "listener", "closed"} : In(f)
    BY <1>8 DEF StopParsing, JavaScriptReturns, InJavaScript, LoadEventIsOver
  <2>2. GoOnWith(<<>>) /\ UNCHANGED script
    BY <1>8 DEF StopParsing, JavaScriptReturns, LoadEventIsOver
  <2> QED BY ONLY <1>4, <2>1, <2>2, CallsGoDown
<1>9. CASE DecrementLoadEventDelayCount
  <2>1. In("decrement") /\ GoOnWith(<<>>)
    BY <1>9 DEF DecrementLoadEventDelayCount
  <2>2. \A s \in Scripts : script'[s] = "new" <=> script[s] = "new"
    BY <1>9 DEF DecrementLoadEventDelayCount
  <2>3. UNCHANGED Unseen BY ONLY <2>2 DEF Unseen, InState
  <2>4. "decrement" \in Frames /\ Plain(<<>>)
        /\ \A g \in UnderWay(<<>>) : Rank[g] < Rank["decrement"]
    BY ONLY CallsGoDown
  <2> QED BY ONLY <1>1, <2>1, <2>3, <2>4, ReturnAdvances
<1>10. CASE CheckCompleted
  <2>1. /\ In("checkCompleted") /\ UNCHANGED script
        /\ \/ GoOnWith(<<>>) \/ GoOnWith(<<"close">>) \/ GoOnWith(<<"listener", "close">>)
    BY <1>10 DEF CheckCompleted
  <2>2. PICK fr \in {<<>>, <<"close">>, <<"listener", "close">>} : GoOnWith(fr)
    BY ONLY <2>1
  <2>3. "checkCompleted" \in Frames /\ Plain(fr)
        /\ \A g \in UnderWay(fr) : Rank[g] < Rank["checkCompleted"]
    BY ONLY <2>2, CallsGoDown
  <2> QED BY ONLY <1>4, <2>1, <2>2, <2>3
<1>11. CASE ImplicitClose
  <2>1. /\ In("close") /\ UNCHANGED script
        /\ GoOnWith(<<"announce">>) \/ GoOnWith(<<"listener", "closed", "announce">>)
    BY <1>11 DEF ImplicitClose
  <2>2. PICK fr \in {<<"announce">>, <<"listener", "closed", "announce">>} : GoOnWith(fr)
    BY ONLY <2>1
  <2>3. "close" \in Frames /\ Plain(fr) /\ \A g \in UnderWay(fr) : Rank[g] < Rank["close"]
    BY ONLY <2>2, CallsGoDown
  <2> QED BY ONLY <1>4, <2>1, <2>2, <2>3
<1>12. CASE DispatchDidFinishLoad
  <2>1. /\ In("announce") /\ UNCHANGED script
        /\ GoOnWith(<<>>) \/ GoOnWith(<<"listener">>)
    BY <1>12 DEF DispatchDidFinishLoad
  <2>2. PICK fr \in {<<>>, <<"listener">>} : GoOnWith(fr) BY ONLY <2>1
  <2>3. "announce" \in Frames /\ Plain(fr)
        /\ \A g \in UnderWay(fr) : Rank[g] < Rank["announce"]
    BY ONLY <2>2, CallsGoDown
  <2> QED BY ONLY <1>4, <2>1, <2>2, <2>3
<1>13. ASSUME Idle PROVE TurnAdvances BY <1>13 DEF Idle, TurnAdvances
<1>14. CASE DispatchTask \/ MainAnswers \/ \E s \in Scripts : ScriptAnswers(s)
  BY <1>13, <1>14 DEF DispatchTask, ExecuteAsyncTask, ExecuteExtraTask,
     LoadEventDelayTimerFired, Dispatch, MainAnswers, MainResourceAnswers,
     MainResourceFails, ScriptAnswers, AsyncScriptAnswers, BlockingScriptAnswers
<1> QED BY <1>3, <1>5, <1>6, <1>7, <1>8, <1>9, <1>10, <1>11, <1>12, <1>14
        DEF Next, MainThread

(***************************************************************************)
(* Every step of a turn lowers the measure: script elements left, then the *)
(* calls under way by rank.  It orders tuples of as many naturals as there *)
(* are ranks, so a turn ends if script returns (document.cpp:477,          *)
(* html_document_parser.cc:184 and 639).                                   *)
(***************************************************************************)
THEOREM TurnsAdvance == Spec => [][TurnAdvances]_vars
BY EveryStepAdvances, PageInvariant, PTL DEF Spec

-----------------------------------------------------------------------------
(* The turns together come to their end. *)

(* The moves the scripts still have to make: asked for, ready, taken, run. *)
Work ==
    Cardinality(InState({"new"}))
    + Cardinality(InState({"new", "pending", "blocking"}))
    + Cardinality(InState({"new", "pending", "blocking", "soon"}))
    + Cardinality(InState({"new", "pending", "blocking", "soon", "running"}))

(* The main resource is still to come. *)
Unanswered == IF parser = "none" /\ Main \in loading THEN 1 ELSE 0

(***************************************************************************)
(* Every step of a page brings its end nearer: the main resource comes, or *)
(* a script makes one of its four moves, or the loop has a closure less,   *)
(* or a turn goes on as it must.  A check posts a closure, a closure       *)
(* starts a turn and a turn adds calls, but never without one of the moves *)
(* above: a page cannot go on for ever between scripts, timer and checks,  *)
(* whatever it does to the order of its scripts (script_runner.cpp:131 and *)
(* 191, document.cpp:477 and 642, html_document_parser.cc:639).            *)
(***************************************************************************)
PageAdvances ==
    \/ Unanswered' < Unanswered
    \/ /\ Unanswered' = Unanswered
       /\ \/ Work' < Work
          \/ Work' = Work /\ Len(tasks)' < Len(tasks)
          \/ Work' = Work /\ Len(tasks)' = Len(tasks) /\ CallsEnd

(* The main resource does not come back. *)
LEMMA StaysAnswered ==
    ASSUME IInv, PageInv, Next
    PROVE  /\ Unanswered' < Unanswered \/ Unanswered' = Unanswered
           /\ MainAnswers => Unanswered' < Unanswered
<1> USE DEF fetchVars, runnerVars, parserVars, documentVars
<1>1. CASE MainAnswers
  <2>1. stack = <<>> /\ Main \in loading
    BY <1>1 DEF MainAnswers, MainResourceAnswers, MainResourceFails, Idle
  <2>2. UnderWay(stack) = {} BY <2>1, CallsMade
  <2>3. parser = "none" BY <2>1, <2>2 DEF PageInv, Arrives
  <2>4. parser' # "none" \/ Main \notin loading'
    BY <1>1 DEF MainAnswers, MainResourceAnswers, MainResourceFails
  <2> QED BY ONLY <2>1, <2>3, <2>4 DEF Unanswered
<1>2. CASE ~MainAnswers
  <2>1. CASE parser # "none"
    <3>1. ASSUME \E s \in Scripts : InlineScript(s) \/ BlockingScript(s) \/ AsyncScript(s)
                                   \/ InsertScript(s) \/ ScriptAnswers(s)
          PROVE  parser' # "none"
      BY <2>1, <3>1 DEF InlineScript, BlockingScript, AsyncScript, InsertScript,
         ScriptAnswers, AsyncScriptAnswers, BlockingScriptAnswers
    <3>2. ASSUME PumpStops \/ PumpEnds \/ Finish \/ FinishedParsing \/ ParsingIsFinished
               \/ StopParsing \/ JavaScriptReturns
          PROVE  parser' # "none"
      BY <2>1, <3>2 DEF PumpStops, PumpEnds, Finish, PrepareToStopParsing, FinishedParsing,
         ParsingIsFinished, StopParsing, JavaScriptReturns
    <3>3. ASSUME DecrementLoadEventDelayCount \/ CheckCompleted \/ ImplicitClose
               \/ LoadEventIsOver \/ DispatchDidFinishLoad \/ DispatchTask
          PROVE  parser' # "none"
      BY <2>1, <3>3 DEF DecrementLoadEventDelayCount, CheckCompleted, ImplicitClose,
         LoadEventIsOver, DispatchDidFinishLoad, DispatchTask, ExecuteAsyncTask,
         ExecuteExtraTask, LoadEventDelayTimerFired
    <3>4. parser' # "none" BY <1>2, <3>1, <3>2, <3>3 DEF Next, MainThread
    <3> QED BY ONLY <1>2, <2>1, <3>4 DEF Unanswered
  <2>2. CASE parser = "none"
    <3>1. /\ stack = <<>> /\ tasks = <<>> /\ blocking = None
          /\ \A s \in Scripts : script[s] = "new"
      BY <2>2 DEF PageInv, NotYet
    <3> QED BY <1>2, <2>2, <3>1, NamesAssumption
        DEF Next, MainThread, In, Idle, CanTakeNextToken, ReadScript, InJavaScript,
            InlineScript, BlockingScript, AsyncScript, InsertScript, PumpStops, PumpEnds,
            Finish, FinishedParsing, ParsingIsFinished, StopParsing, JavaScriptReturns,
            DecrementLoadEventDelayCount, CheckCompleted, ImplicitClose, LoadEventIsOver,
            DispatchDidFinishLoad, DispatchTask, ExecuteAsyncTask, ExecuteExtraTask,
            LoadEventDelayTimerFired, Dispatch, ScriptAnswers, AsyncScriptAnswers,
            BlockingScriptAnswers
  <2> QED BY ONLY <2>1, <2>2
<1> QED BY ONLY <1>1, <1>2

(* A script's move is work done. *)
LEMMA WorkIsDone ==
    ASSUME TypeOK, NEW s \in Scripts, NEW v,
           script' = [script EXCEPT ![s] = v],
           \/ script[s] = "new" /\ v \in {"pending", "blocking", "done"}
           \/ script[s] = "pending" /\ v = "soon"
           \/ script[s] = "soon" /\ v = "running"
           \/ script[s] \in {"running", "blocking"} /\ v = "done"
    PROVE  Work' < Work
<1> DEFINE A == {"new"}
           B == {"new", "pending", "blocking"}
           C == {"new", "pending", "blocking", "soon"}
           D == {"new", "pending", "blocking", "soon", "running"}
           After(W) == (IF v \in W THEN 1 ELSE 0) - (IF script[s] \in W THEN 1 ELSE 0)
<1>1. \A W : /\ Cardinality(InState(W)') = Cardinality(InState(W))
                     + (IF v \in W THEN 1 ELSE 0) - (IF script[s] \in W THEN 1 ELSE 0)
             /\ Cardinality(InState(W)) \in Nat
  BY CountAfter, InStateFinite
<1>2. /\ After(A) \in {-1, 0} /\ After(B) \in {-1, 0}
      /\ After(C) \in {-1, 0} /\ After(D) \in {-1, 0}
      /\ \E W \in {A, B, C, D} : After(W) = -1
  OBVIOUS
<1> QED BY <1>1, <1>2 DEF Work

(* Steps that use up a script's move. *)
LEMMA ScriptsMove ==
    ASSUME IInv, NEW s \in Scripts,
           \/ InlineScript(s) \/ BlockingScript(s) \/ AsyncScript(s) \/ InsertScript(s)
           \/ ScriptAnswers(s)
    PROVE  Work' < Work
<1>1. TypeOK BY DEF IInv
<1>2. CASE InlineScript(s) \/ BlockingScript(s) \/ AsyncScript(s) \/ InsertScript(s)
  <2>1. PICK v \in {"pending", "blocking", "done"} : script' = [script EXCEPT ![s] = v]
    BY <1>2 DEF InlineScript, BlockingScript, AsyncScript, InsertScript, PrepareAsyncScript
  <2>2. script[s] = "new"
    BY <1>2 DEF InlineScript, BlockingScript, AsyncScript, InsertScript,
       PrepareAsyncScript, ReadScript
  <2> QED BY ONLY <1>1, <2>1, <2>2, WorkIsDone
<1>3. CASE AsyncScriptAnswers(s)
  <2>1. script[s] = "pending" /\ script' = [script EXCEPT ![s] = "soon"]
    BY <1>3 DEF AsyncScriptAnswers
  <2> QED BY ONLY <1>1, <2>1, WorkIsDone
<1>4. CASE BlockingScriptAnswers(s)
  <2>1. blocking = s /\ script' = [script EXCEPT ![s] = "done"]
    BY <1>4 DEF BlockingScriptAnswers
  <2>2. script[s] = "blocking" BY <2>1, NamesAssumption DEF IInv, Known
  <2> QED BY ONLY <1>1, <2>1, <2>2, WorkIsDone
<1> QED BY <1>2, <1>3, <1>4 DEF ScriptAnswers

LEMMA RunnerMoves ==
    ASSUME IInv, ExecuteAsyncTask \/ DecrementLoadEventDelayCount
    PROVE  Work' < Work
<1>1. TypeOK BY DEF IInv
<1>2. CASE ExecuteAsyncTask
  <2>1. soon # <<>> /\ script' = [script EXCEPT ![Head(soon)] = "running"]
    BY <1>2 DEF ExecuteAsyncTask
  <2>2. soon \in Seq(Scripts) BY <1>1 DEF TypeOK
  <2>3. Head(soon) = soon[1] /\ Head(soon) \in Scripts /\ Len(soon) \in Nat /\ Len(soon) # 0
    BY ONLY <2>1, <2>2, HeadTailProperties, EmptySeq, LenProperties
  <2>4. script[soon[1]] = "soon" BY <2>3 DEF IInv, RunnerInOrder
  <2> QED BY ONLY <1>1, <2>1, <2>3, <2>4, WorkIsDone
<1>3. CASE DecrementLoadEventDelayCount
  <2>1. In("decrement")
        /\ script' = [s \in Scripts |-> IF script[s] = "running" THEN "done" ELSE script[s]]
    BY <1>3 DEF DecrementLoadEventDelayCount
  <2>2. PICK r \in Scripts : script[r] = "running" /\ InState({"running"}) = {r}
    BY <2>1, DecrementIsDue DEF InState
  <2>3. script' = [script EXCEPT ![r] = "done"]
    BY <1>1, <2>1, <2>2 DEF TypeOK, InState
  <2> QED BY ONLY <1>1, <2>2, <2>3, WorkIsDone
<1> QED BY <1>2, <1>3

(* The other steps of a turn leave scripts and closures alone. *)
LEMMA TurnsGoOn ==
    ASSUME IInv, Next, TurnAdvances,
           \/ PumpStops \/ PumpEnds \/ Finish \/ FinishedParsing \/ ParsingIsFinished
           \/ StopParsing \/ JavaScriptReturns \/ CheckCompleted \/ ImplicitClose
           \/ LoadEventIsOver \/ DispatchDidFinishLoad
    PROVE  Work' = Work /\ Len(tasks)' = Len(tasks) /\ CallsEnd
<1> USE DEF fetchVars, runnerVars
<1>1. UNCHANGED <<script, tasks>> /\ stack # <<>>
  BY DEF PumpStops, PumpEnds, Finish, FinishedParsing, ParsingIsFinished, StopParsing,
     JavaScriptReturns, InJavaScript, CheckCompleted, ImplicitClose, LoadEventIsOver,
     DispatchDidFinishLoad, In
<1>2. \A W : UNCHANGED InState(W) BY <1>1 DEF InState
<1>3. Unseen \in Nat /\ Unseen' = Unseen BY <1>2, InStateFinite DEF Unseen
<1>4. CallsEnd BY ONLY <1>1, <1>3, TurnAdvances DEF TurnAdvances
<1> QED BY <1>1, <1>2, <1>4 DEF Work

(* The closures that run no script. *)
LEMMA ClosuresGo ==
    ASSUME IInv, ExecuteExtraTask \/ LoadEventDelayTimerFired
    PROVE  Work' = Work /\ Len(tasks)' < Len(tasks)
<1> USE DEF fetchVars
<1>1. tasks # <<>> /\ tasks' = Tail(tasks) /\ UNCHANGED script
  BY DEF ExecuteExtraTask, LoadEventDelayTimerFired, Dispatch
<1>2. tasks \in Seq({"ExecuteTask", "LoadEventDelayTimer"}) BY DEF IInv, TypeOK
<1>3. Len(Tail(tasks)) = Len(tasks) - 1 /\ Len(tasks) \in Nat
  BY ONLY <1>1, <1>2, HeadTailProperties, LenProperties
<1>4. Len(tasks)' < Len(tasks)
  <2>1. Len(tasks)' = Len(Tail(tasks)) BY <1>1
  <2> QED BY ONLY <1>3, <2>1
<1>5. \A W : UNCHANGED InState(W) BY <1>1 DEF InState
<1> QED BY <1>4, <1>5 DEF Work

LEMMA EveryPageAdvances == IInv /\ PageInv /\ [Next]_vars => [PageAdvances]_vars
<1> SUFFICES ASSUME IInv, PageInv, Next PROVE PageAdvances \/ UNCHANGED vars
  OBVIOUS
<1>1. /\ Unanswered' < Unanswered \/ Unanswered' = Unanswered
      /\ MainAnswers => Unanswered' < Unanswered
  BY ONLY IInv, PageInv, Next, StaysAnswered
<1>2. ASSUME TurnAdvances PROVE PageAdvances
  <2>1. CASE MainAnswers BY ONLY <1>1, <2>1 DEF PageAdvances
  <2>2. ASSUME NEW s \in Scripts,
               \/ InlineScript(s) \/ BlockingScript(s) \/ AsyncScript(s) \/ InsertScript(s)
               \/ ScriptAnswers(s)
        PROVE  PageAdvances
    <3>1. Work' < Work BY ONLY IInv, <2>2, ScriptsMove
    <3> QED BY ONLY <1>1, <3>1 DEF PageAdvances
  <2>3. CASE ExecuteAsyncTask \/ DecrementLoadEventDelayCount
    <3>1. Work' < Work BY ONLY IInv, <2>3, RunnerMoves
    <3> QED BY ONLY <1>1, <3>1 DEF PageAdvances
  <2>4. CASE ExecuteExtraTask \/ LoadEventDelayTimerFired
    <3>1. Work' = Work /\ Len(tasks)' < Len(tasks) BY ONLY IInv, <2>4, ClosuresGo
    <3> QED BY ONLY <1>1, <3>1 DEF PageAdvances
  <2>5. CASE \/ PumpStops \/ PumpEnds \/ Finish \/ FinishedParsing \/ ParsingIsFinished
             \/ StopParsing \/ JavaScriptReturns \/ CheckCompleted \/ ImplicitClose
             \/ LoadEventIsOver \/ DispatchDidFinishLoad
    <3>1. Work' = Work /\ Len(tasks)' = Len(tasks) /\ CallsEnd
      BY ONLY IInv, Next, <1>2, <2>5, TurnsGoOn
    <3> QED BY ONLY <1>1, <3>1 DEF PageAdvances
  <2> QED BY <2>1, <2>2, <2>3, <2>4, <2>5 DEF Next, MainThread, DispatchTask
<1> QED BY <1>2, EveryStepAdvances

(***************************************************************************)
(* Every step of a page lowers the measure, so it takes finitely many:     *)
(* with PageNeverStalls, a page whose requests are answered, whose         *)
(* closures are run and whose script returns is reported (document.cpp:477 *)
(* and 642, script_runner.cpp:131, html_document_parser.cc:639).           *)
(***************************************************************************)
THEOREM PagesAdvance == Spec => [][PageAdvances]_vars
BY EveryPageAdvances, PageInvariant, PageCalls, PTL DEF Spec

-----------------------------------------------------------------------------
(* The refinement. *)

Waiting == InState({"pending", "soon", "running", "blocking"})
MainBlocks == parser = "none" \/ parsing # "finished"
Blockers == Waiting \cup (IF MainBlocks THEN {Main} ELSE {})
Closing == parser # "none" /\ ready = "complete"

(* The barrier's steps, in the page's terms. *)
LEMMA BarrierSteps ==
    /\ Barrier!Next <=>
         \/ \E s \in Scripts : s \notin Blockers /\ Blockers' = Blockers \cup {s}
                               /\ UNCHANGED <<Closing, told>>
         \/ \E b \in Scripts \cup {Main} : b \in Blockers /\ Blockers' = Blockers \ {b}
                                           /\ UNCHANGED <<Closing, told>>
         \/ Blockers = {} /\ ~Closing /\ Closing' = TRUE /\ UNCHANGED <<Blockers, told>>
         \/ Closing /\ told = <<>> /\ told' = <<"ready">> /\ UNCHANGED <<Blockers, Closing>>
         \/ Blockers = {Main} /\ told = <<>> /\ told' = <<"failed">>
            /\ UNCHANGED <<Blockers, Closing>>
    /\ UNCHANGED Barrier!vars <=> UNCHANGED <<Blockers, Closing, told>>
BY DEF Barrier!Next, Barrier!Block, Barrier!Release, Barrier!Close,
       Barrier!Announce, Barrier!Fail, Barrier!vars,
       Blockers, Waiting, MainBlocks, Closing

(* One script changes its state. *)
LEMMA WaitingAfter ==
    ASSUME TypeOK, NEW s \in Scripts, NEW v, script' = [script EXCEPT ![s] = v]
    PROVE  /\ v \in {"pending", "soon", "running", "blocking"} => Waiting' = Waiting \cup {s}
           /\ v \in {"new", "done"} => Waiting' = Waiting \ {s}
           /\ s \in Waiting <=> script[s] \in {"pending", "soon", "running", "blocking"}
BY DEF TypeOK, Waiting, InState

(* A script is asked for, executed on the spot, or answered. *)
LEMMA ScriptRefines ==
    ASSUME IInv, PageInv, NEW s \in Scripts,
           \/ InlineScript(s) \/ BlockingScript(s) \/ AsyncScript(s)
           \/ InsertScript(s) \/ AsyncScriptAnswers(s) \/ BlockingScriptAnswers(s)
    PROVE  [Barrier!Next]_(Barrier!vars)
<1> USE DEF fetchVars, runnerVars, parserVars, documentVars
<1>1. TypeOK /\ s # Main /\ Main \notin Waiting
  BY NamesAssumption DEF IInv, Waiting, InState
<1>2. UNCHANGED <<parser, parsing, ready, told>>
  BY DEF InlineScript, BlockingScript, AsyncScript, InsertScript,
         AsyncScriptAnswers, BlockingScriptAnswers
<1>3. UNCHANGED <<MainBlocks, Closing, told>>
  BY <1>2 DEF MainBlocks, Closing
<1>4. CASE BlockingScript(s) \/ AsyncScript(s) \/ InsertScript(s)
  <2>1. PICK v \in {"pending", "blocking"} : script' = [script EXCEPT ![s] = v]
    BY <1>4 DEF BlockingScript, AsyncScript, InsertScript, PrepareAsyncScript
  <2>2. script[s] = "new"
    BY <1>4 DEF BlockingScript, AsyncScript, InsertScript, PrepareAsyncScript, ReadScript
  <2>3. s \notin Blockers /\ Blockers' = Blockers \cup {s}
    BY <1>1, <1>3, <2>1, <2>2, WaitingAfter DEF Blockers
  <2> QED BY <1>3, <2>3, BarrierSteps
<1>5. CASE InlineScript(s)
  <2>1. script' = [script EXCEPT ![s] = "done"] /\ script[s] = "new"
    BY <1>5 DEF InlineScript, ReadScript
  <2>2. Blockers' = Blockers
    BY <1>1, <1>3, <2>1, WaitingAfter DEF Blockers
  <2> QED BY <1>3, <2>2, BarrierSteps
<1>6. CASE AsyncScriptAnswers(s)
  <2>1. script' = [script EXCEPT ![s] = "soon"] /\ script[s] = "pending"
    BY <1>6 DEF AsyncScriptAnswers
  <2>2. Blockers' = Blockers
    BY <1>1, <1>3, <2>1, WaitingAfter DEF Blockers
  <2> QED BY <1>3, <2>2, BarrierSteps
<1>7. CASE BlockingScriptAnswers(s)
  <2>1. script' = [script EXCEPT ![s] = "done"] /\ script[s] = "blocking"
    BY <1>7, NamesAssumption DEF BlockingScriptAnswers, IInv, Known
  <2>2. s \in Blockers /\ Blockers' = Blockers \ {s}
    BY <1>1, <1>3, <2>1, WaitingAfter DEF Blockers
  <2> QED BY <1>3, <2>2, BarrierSteps
<1> QED BY <1>4, <1>5, <1>6, <1>7

(* An asynchronous script begins, and ends. *)
LEMMA RunnerRefines ==
    ASSUME IInv, PageInv, ExecuteAsyncTask \/ DecrementLoadEventDelayCount
    PROVE  [Barrier!Next]_(Barrier!vars)
<1> USE DEF fetchVars, runnerVars, parserVars, documentVars
<1>1. TypeOK /\ Main \notin Waiting
  BY NamesAssumption DEF IInv, Waiting, InState
<1>2. UNCHANGED <<parser, parsing, ready, told>>
  BY DEF ExecuteAsyncTask, DecrementLoadEventDelayCount
<1>3. UNCHANGED <<MainBlocks, Closing, told>>
  BY <1>2 DEF MainBlocks, Closing
<1>4. CASE ExecuteAsyncTask
  <2> DEFINE s == Head(soon)
  <2>1. soon \in Seq(Scripts) /\ soon # <<>> BY <1>1, <1>4 DEF ExecuteAsyncTask, TypeOK
  <2>2. s \in Scripts /\ 1 \in 1..Len(soon) /\ s = soon[1]
    BY <2>1, HeadTailProperties, LenProperties, EmptySeq
  <2>3. script' = [script EXCEPT ![s] = "running"] /\ script[s] = "soon"
    BY <1>4, <2>2 DEF ExecuteAsyncTask, IInv, RunnerInOrder
  <2> HIDE DEF s
  <2>4. s \in Waiting /\ Waiting' = Waiting \cup {s}
    BY <1>1, <2>2, <2>3, WaitingAfter
  <2>5. Blockers' = Blockers BY <1>3, <2>4 DEF Blockers
  <2> QED BY <1>3, <2>5, BarrierSteps
<1>5. CASE DecrementLoadEventDelayCount
  <2>1. PICK r \in Scripts : InState({"running"}) = {r}
    BY <1>5, DecrementIsDue DEF DecrementLoadEventDelayCount
  <2>2. \A s \in Scripts : /\ script'[s] = IF s = r THEN "done" ELSE script[s]
                           /\ script[s] = "running" <=> s = r
    BY <1>5, <2>1 DEF DecrementLoadEventDelayCount, InState
  <2>3. r \in Waiting /\ Waiting' = Waiting \ {r}
    BY <2>2 DEF Waiting, InState
  <2>4. r # Main BY NamesAssumption
  <2>5. r \in Blockers /\ Blockers' = Blockers \ {r}
    BY <1>3, <2>3, <2>4 DEF Blockers
  <2> QED BY <1>3, <2>5, BarrierSteps
<1> QED BY <1>4, <1>5

(* The parser: only the end of its parsing releases the page. *)
LEMMA ParserRefines ==
    ASSUME IInv, EndIsNext, PageInv,
           \/ PumpStops \/ PumpEnds \/ Finish
           \/ FinishedParsing \/ ParsingIsFinished \/ StopParsing
    PROVE  [Barrier!Next]_(Barrier!vars)
<1> USE DEF fetchVars, runnerVars, parserVars, documentVars
<1>1. /\ TypeOK /\ Main \notin Waiting /\ Waiting' = Waiting
      /\ stack \in Seq(Frames) /\ UNCHANGED told
  BY NamesAssumption DEF IInv, TypeOK, Waiting, InState, PumpStops, PumpEnds, Finish,
     FinishedParsing, ParsingIsFinished, StopParsing
<1>2. \A f : In(f) => f \in UnderWay(stack) /\ parser # "none"
  BY <1>1, UnderWayTail DEF In, PageInv, NotYet
<1>3. CASE PumpStops \/ StopParsing
  <2>1. parser # "none" /\ parser' # "none" /\ UNCHANGED <<parsing, ready>>
    BY <1>2, <1>3 DEF PumpStops, StopParsing
  <2>2. UNCHANGED <<Blockers, Closing>> BY <1>1, <2>1 DEF Blockers, MainBlocks, Closing
  <2> QED BY <1>1, <2>2, BarrierSteps
<1>4. CASE PumpEnds \/ Finish
  <2>1. parser = "parsing"
    <3>1. CASE PumpEnds
      BY <1>1, <1>2, <3>1 DEF PumpEnds, PageInv, StopsClean, Stops, TypeOK
    <3>2. CASE Finish BY <1>2, <3>2 DEF Finish, PageInv, Arrives
    <3> QED BY <1>4, <3>1, <3>2
  <2>2. ready = "loading" BY <2>1 DEF PageInv, ReadyInOrder
  <2>3. parser' # "none" /\ ready' # "complete" /\ parsing' = parsing
    BY <1>4, <2>1, <2>2, ParserStops DEF PumpEnds, Finish
  <2>4. UNCHANGED <<Blockers, Closing>>
    BY <1>1, <2>1, <2>2, <2>3 DEF Blockers, MainBlocks, Closing
  <2> QED BY <1>1, <2>4, BarrierSteps
<1>5. CASE FinishedParsing
  <2>1. parsing = "parsing" /\ parser # "none"
    BY <1>2, <1>5 DEF FinishedParsing, PageInv, Unfinished
  <2>2. UNCHANGED <<Blockers, Closing>>
    BY <1>1, <1>5, <2>1 DEF FinishedParsing, Blockers, MainBlocks, Closing
  <2> QED BY <1>1, <2>2, BarrierSteps
<1>6. CASE ParsingIsFinished
  <2>1. parser # "none" /\ UNCHANGED <<parser, ready>> /\ parsing' = "finished"
    BY <1>2, <1>6 DEF ParsingIsFinished
  <2>2. UNCHANGED <<Closing, told>> /\ ~MainBlocks'
    BY <1>1, <2>1 DEF Closing, MainBlocks
  <2>3. CASE MainBlocks
    <3>1. Main \in Blockers /\ Blockers' = Blockers \ {Main}
      BY <1>1, <2>2, <2>3 DEF Blockers
    <3> QED BY <2>2, <3>1, BarrierSteps
  <2>4. CASE ~MainBlocks
    <3>1. Blockers' = Blockers BY <1>1, <2>2, <2>4 DEF Blockers
    <3> QED BY <2>2, <3>1, BarrierSteps
  <2> QED BY <2>3, <2>4
<1> QED BY <1>3, <1>4, <1>5, <1>6

(* The document is found complete when nothing blocks it any more. *)
LEMMA NothingBlocks ==
    ASSUME IInv, PageInv, ShouldComplete, parser # "none"
    PROVE  Blockers = {}
<1>1. parser \in Stops /\ blocking = None
  BY DEF ShouldComplete, PageInv, AfterStop, StopsClean
<1>2. InState({"pending", "soon", "running"}) = {}
  <2>1. /\ IsFiniteSet(InState({"pending", "soon", "running"}))
        /\ Cardinality(InState({"pending", "soon", "running"})) = 0
    BY InStateFinite DEF IInv, DelayCountExact, ShouldComplete
  <2> QED BY <2>1, FS_EmptySet
<1>3. \A s \in Scripts : script[s] # "blocking"
  BY <1>1, NamesAssumption DEF PageInv, OnlyBlocking
<1>4. Waiting = {} BY <1>2, <1>3 DEF Waiting, InState
<1> QED BY <1>4 DEF Blockers, MainBlocks, ShouldComplete

(* The document: its check closes the page, its announcement is heard once. *)
LEMMA DocumentRefines ==
    ASSUME IInv, PageInv,
           \/ JavaScriptReturns \/ CheckCompleted \/ ImplicitClose
           \/ LoadEventIsOver \/ DispatchDidFinishLoad
    PROVE  [Barrier!Next]_(Barrier!vars)
<1> USE DEF fetchVars, runnerVars, parserVars, documentVars
<1>1. /\ TypeOK /\ Waiting' = Waiting /\ UNCHANGED parsing /\ stack \in Seq(Frames)
  BY DEF IInv, TypeOK, Waiting, InState, JavaScriptReturns, CheckCompleted,
     ImplicitClose, LoadEventIsOver, DispatchDidFinishLoad
<1>2. \A f : In(f) => f \in UnderWay(stack) /\ parser # "none"
  BY <1>1, UnderWayTail DEF In, PageInv, NotYet
<1>3. CASE JavaScriptReturns \/ ImplicitClose \/ LoadEventIsOver
  <2>1. parser # "none" /\ parser' # "none" /\ UNCHANGED <<ready, told>>
    BY <1>2, <1>3 DEF JavaScriptReturns, InJavaScript, ImplicitClose, LoadEventIsOver
  <2>2. UNCHANGED <<Blockers, Closing>> BY <1>1, <2>1 DEF Blockers, MainBlocks, Closing
  <2> QED BY <2>1, <2>2, BarrierSteps
<1>4. CASE CheckCompleted
  <2>1. parser # "none" /\ UNCHANGED <<parser, told>> BY <1>2, <1>4 DEF CheckCompleted
  <2>2. UNCHANGED Blockers BY <1>1, <2>1 DEF Blockers, MainBlocks
  <2>3. CASE ShouldComplete /\ ready # "complete"
    <3>1. Blockers = {} /\ ~Closing /\ Closing'
      BY <1>4, <2>1, <2>3, NothingBlocks DEF CheckCompleted, Closing
    <3> QED BY <2>1, <2>2, <3>1, BarrierSteps
  <2>4. CASE ~(ShouldComplete /\ ready # "complete")
    <3>1. UNCHANGED ready BY <1>4, <2>4 DEF CheckCompleted
    <3> QED BY <2>1, <2>2, <3>1, BarrierSteps DEF Closing
  <2> QED BY <2>3, <2>4
<1>5. CASE DispatchDidFinishLoad
  <2>1. parser # "none" /\ ready = "complete" /\ UNCHANGED <<parser, ready>>
    BY <1>2, <1>5 DEF DispatchDidFinishLoad, PageInv, ReadyInOrder
  <2>2. UNCHANGED <<Blockers, Closing>> /\ Closing
    BY <1>1, <2>1 DEF Blockers, MainBlocks, Closing
  <2>3. CASE sent
    BY <1>5, <2>2, <2>3, BarrierSteps DEF DispatchDidFinishLoad
  <2>4. CASE ~sent
    <3>1. told = <<>> BY <2>1, <2>4 DEF PageInv, ToldOnce
    <3>2. told' = <<"ready">> BY <1>5, <2>4, <3>1 DEF DispatchDidFinishLoad
    <3> QED BY <2>2, <3>1, <3>2, BarrierSteps
  <2> QED BY <2>3, <2>4
<1> QED BY <1>3, <1>4, <1>5

(* The main resource comes or does not, a closure finds nothing to check. *)
LEMMA ArrivalRefines ==
    ASSUME IInv, PageInv,
           \/ MainResourceAnswers \/ MainResourceFails
           \/ ExecuteExtraTask \/ LoadEventDelayTimerFired \/ UNCHANGED vars
    PROVE  [Barrier!Next]_(Barrier!vars)
<1> USE DEF vars, fetchVars, runnerVars, parserVars, documentVars
<1>1. Waiting' = Waiting
  BY DEF Waiting, InState, MainResourceAnswers, MainResourceFails,
         ExecuteExtraTask, LoadEventDelayTimerFired
<1>2. MainResourceAnswers \/ MainResourceFails => Main \in loading /\ parser = "none"
  BY CallsMade DEF MainResourceAnswers, MainResourceFails, Idle, PageInv, Arrives
<1>3. CASE MainResourceAnswers
  <2>1. parser = "none" /\ parser' # "none" /\ parsing' # "finished"
        /\ ready' # "complete" /\ UNCHANGED told
    BY <1>2, <1>3 DEF MainResourceAnswers
  <2> QED BY <1>1, <2>1, BarrierSteps DEF Blockers, MainBlocks, Closing
<1>4. CASE MainResourceFails
  <2>1. /\ parser = "none" /\ told' = Append(told, "failed")
        /\ UNCHANGED <<parser, parsing, ready>> /\ Main \in loading
    BY <1>2, <1>4 DEF MainResourceFails
  <2>2. told = <<>> /\ Waiting = {}
    BY <2>1 DEF PageInv, ToldOnce, NotYet, Waiting, InState
  <2>3. told' = <<"failed">> BY <2>1, <2>2
  <2>4. Blockers = {Main} /\ UNCHANGED <<Blockers, Closing>>
    BY <1>1, <2>1, <2>2 DEF Blockers, MainBlocks, Closing
  <2> QED BY <2>2, <2>3, <2>4, BarrierSteps
<1>5. CASE ExecuteExtraTask \/ LoadEventDelayTimerFired \/ UNCHANGED vars
  <2>1. UNCHANGED <<parser, parsing, ready, told>>
    BY <1>5 DEF ExecuteExtraTask, LoadEventDelayTimerFired
  <2> QED BY <1>1, <2>1, BarrierSteps DEF Blockers, MainBlocks, Closing
<1> QED BY <1>3, <1>4, <1>5

(* Every step of the page is one of the barrier, or none. *)
LEMMA StepRefines == IInv /\ EndIsNext /\ PageInv /\ [Next]_vars => [Barrier!Next]_(Barrier!vars)
<1> SUFFICES ASSUME IInv, EndIsNext, PageInv, [Next]_vars
             PROVE  [Barrier!Next]_(Barrier!vars)
  OBVIOUS
<1>1. CASE MainThread
  <2>1. ASSUME NEW s \in Scripts,
               InlineScript(s) \/ BlockingScript(s) \/ AsyncScript(s)
        PROVE  [Barrier!Next]_(Barrier!vars)
    BY <2>1, ScriptRefines
  <2>2. CASE \/ PumpStops \/ PumpEnds \/ Finish
             \/ FinishedParsing \/ ParsingIsFinished \/ StopParsing
    BY <2>2, ParserRefines
  <2>3. CASE \/ JavaScriptReturns \/ CheckCompleted \/ ImplicitClose
             \/ LoadEventIsOver \/ DispatchDidFinishLoad
    BY <2>3, DocumentRefines
  <2>4. CASE DecrementLoadEventDelayCount BY <2>4, RunnerRefines
  <2> QED BY <1>1, <2>1, <2>2, <2>3, <2>4 DEF MainThread
<1>2. CASE DispatchTask BY <1>2, RunnerRefines, ArrivalRefines DEF DispatchTask
<1>3. CASE MainAnswers BY <1>3, ArrivalRefines DEF MainAnswers
<1>4. ASSUME NEW s \in Scripts, ScriptAnswers(s) \/ InsertScript(s)
      PROVE  [Barrier!Next]_(Barrier!vars)
  BY <1>4, ScriptRefines DEF ScriptAnswers
<1>5. CASE UNCHANGED vars BY <1>5, ArrivalRefines
<1> QED BY <1>1, <1>2, <1>3, <1>4, <1>5 DEF Next

(***************************************************************************)
(* Every page is a LoadBarrier: for any number of scripts, inserted,       *)
(* written, answered and run in any order, the document is closed only     *)
(* when it is parsed and all scripts known are executed, and the client is *)
(* told once (document.cpp:477-528, 1377).                                 *)
(***************************************************************************)
THEOREM PageIsABarrier == Spec => IsABarrier
<1>1. Init => Barrier!Init
  BY DEF Init, Barrier!Init, InState
<1> QED BY <1>1, StepRefines, PageInvariant, EndInvariant, PageCalls, PTL
        DEF Spec, IsABarrier, Barrier!Spec

=============================================================================
