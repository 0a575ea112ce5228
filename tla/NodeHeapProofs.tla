--------------------------- MODULE NodeHeapProofs ----------------------------
(***************************************************************************)
(* Proofs about NodeHeap, for any set of nodes: no node has two owners,    *)
(* only the fragments of innerHTML have none and leak, and a collection    *)
(* deletes nothing that is in use.                                         *)
(* TypeOK and OneOwner are inductive together with two facts: a node not   *)
(* made yet has no parent and no child, nor has a fragment of innerHTML,   *)
(* which script therefore never gets hold of.  That nothing else leaks     *)
(* says that every other live node hangs, over any number of parents, from *)
(* a root that has an owner: no step cuts a node off and none closes a     *)
(* circle.                                                                 *)
(***************************************************************************)
EXTENDS NodeHeap, TLAPS

Alone(n) == parent[n] = None /\ \A m \in Nodes : parent[m] # n

(* A node that was not made yet is in no tree. *)
FreshAreAlone == \A n \in Fresh : Alone(n)

(* Nor is a fragment of innerHTML, and it has no wrapper. *)
ParsedAreAlone == \A f \in parsed : Alone(f) /\ f \in live /\ f \notin wrapped

IInv == TypeOK /\ OneOwner /\ FreshAreAlone /\ ParsedAreAlone

(* The roots that have an owner. *)
Owned == {Document} \cup retained \cup pooled

(* What is left of OnlyParsedFragmentsLeak when IInv is known. *)
NothingElseLeaks == live \ parsed \subseteq Below(Owned)

-----------------------------------------------------------------------------
(* What lies below a set of nodes, in any forest: up[n] is the parent of n. *)

Keeps(up, S) == \A n \in Nodes : up[n] \in S => n \in S

Under(up, R) == {n \in Nodes : \A S \in SUBSET (Nodes \cup {Document}) :
                                  R \subseteq S /\ Keeps(up, S) => n \in S}

LEMMA BelowIsUnder ==
    /\ \A R : Below(R) = Under(parent, R)
    /\ NothingElseLeaks' <=> live' \ parsed' \subseteq Under(parent', Owned')
  BY DEF Below, Closed, Under, Keeps, NothingElseLeaks

(***************************************************************************)
(* It contains R and the children of what it contains                      *)
(* (ContainerNode::PreCollectGarbage, container_node.cpp:800), and nothing *)
(* that has to be there for another reason.                                *)
(***************************************************************************)
LEMMA UnderIsLeast ==
    ASSUME NEW up, NEW R
    PROVE  /\ Under(up, R) \in SUBSET Nodes
           /\ R \cap Nodes \subseteq Under(up, R)
           /\ \A n \in Nodes : up[n] \in R \cup Under(up, R) => n \in Under(up, R)
           /\ \A S \in SUBSET (Nodes \cup {Document}) :
                 R \subseteq S /\ Keeps(up, S) => Under(up, R) \subseteq S
  <1>1. Under(up, R) \in SUBSET Nodes /\ R \cap Nodes \subseteq Under(up, R)
    BY DEF Under
  <1>2. ASSUME NEW n \in Nodes, up[n] \in R \cup Under(up, R)
        PROVE  n \in Under(up, R)
    <2>1. SUFFICES ASSUME NEW S \in SUBSET (Nodes \cup {Document}),
                          R \subseteq S, Keeps(up, S)
                   PROVE  n \in S
      BY <1>2 DEF Under
    <2>2. up[n] \in S
      BY <1>2, <2>1 DEF Under
    <2> QED
      BY <2>1, <2>2 DEF Keeps
  <1>3. ASSUME NEW S \in SUBSET (Nodes \cup {Document}), R \subseteq S, Keeps(up, S)
        PROVE  Under(up, R) \subseteq S
    BY <1>3 DEF Under
  <1> QED
    BY <1>1, <1>2, <1>3

LEMMA BelowIsClosed ==
    ASSUME NEW R \in SUBSET Nodes
    PROVE  /\ Below(R) \in SUBSET Nodes
           /\ R \subseteq Below(R)
           /\ \A n \in Nodes : parent[n] \in Below(R) => n \in Below(R)
  <1>1. Below(R) = Under(parent, R)
    BY BelowIsUnder
  <1>2. /\ Under(parent, R) \in SUBSET Nodes /\ R \cap Nodes \subseteq Under(parent, R)
        /\ \A n \in Nodes : parent[n] \in R \cup Under(parent, R) => n \in Under(parent, R)
    BY UnderIsLeast
  <1> QED
    BY <1>1, <1>2

(* A node that is there and not in R is there because of its parent. *)
LEMMA UnderComesFrom ==
    ASSUME NEW up, NEW R \in SUBSET (Nodes \cup {Document}),
           NEW n \in Under(up, R), n \notin R
    PROVE  up[n] \in R \cup Under(up, R)
  <1> DEFINE U == Under(up, R)
             S == R \cup {m \in U : up[m] \in R \cup U}
  <1>1. /\ U \in SUBSET Nodes
        /\ \A m \in Nodes : up[m] \in R \cup U => m \in U
        /\ \A T \in SUBSET (Nodes \cup {Document}) :
              R \subseteq T /\ Keeps(up, T) => U \subseteq T
    BY UnderIsLeast
  <1> HIDE DEF U
  <1>2. S \in SUBSET (Nodes \cup {Document}) /\ R \subseteq S
    BY <1>1
  <1>3. Keeps(up, S)
    BY <1>1 DEF Keeps
  <1>4. n \in S
    BY <1>1, <1>2, <1>3 DEF U
  <1> QED
    BY <1>4 DEF U

(* It is what lies below either part of R. *)
LEMMA UnderUnion ==
    ASSUME NEW up, NEW A \in SUBSET Nodes, NEW B \in SUBSET (Nodes \cup {Document})
    PROVE  Under(up, A \cup B) \subseteq Under(up, A) \cup Under(up, B)
  <1> DEFINE T == A \cup B \cup Under(up, A) \cup Under(up, B)
  <1>1. T \in SUBSET (Nodes \cup {Document}) /\ A \cup B \subseteq T
    BY UnderIsLeast
  <1>2. Keeps(up, T)
    <2>1. SUFFICES ASSUME NEW n \in Nodes, up[n] \in T PROVE n \in T
      BY DEF Keeps
    <2>2. up[n] \in A \cup Under(up, A) => n \in Under(up, A)
      BY UnderIsLeast
    <2>3. up[n] \in B \cup Under(up, B) => n \in Under(up, B)
      BY UnderIsLeast
    <2> QED
      BY <2>1, <2>2, <2>3
  <1>3. Under(up, A \cup B) \subseteq T
    BY <1>1, <1>2, UnderIsLeast
  <1>4. /\ Under(up, A \cup B) \in SUBSET Nodes
        /\ A \cap Nodes \subseteq Under(up, A) /\ B \cap Nodes \subseteq Under(up, B)
    BY UnderIsLeast
  <1> QED
    BY <1>3, <1>4

(* Trees whose roots are apart are apart. *)
LEMMA UnderApart ==
    ASSUME NEW up, NEW A \in SUBSET Nodes, NEW B \in SUBSET (Nodes \cup {Document}),
           A \cap B = {}, \A n \in Nodes \cap (A \cup B) : up[n] \notin Nodes \cup {Document}
    PROVE  Under(up, A) \cap Under(up, B) = {}
  <1> DEFINE S == Nodes \ Under(up, B)
  <1>1. Under(up, B) \in SUBSET Nodes /\ S \in SUBSET (Nodes \cup {Document})
    BY UnderIsLeast
  <1>2. A \subseteq S
    <2>1. SUFFICES ASSUME NEW n \in A, n \in Under(up, B) PROVE FALSE
      OBVIOUS
    <2>2. up[n] \in B \cup Under(up, B)
      BY <2>1, UnderComesFrom
    <2> QED
      BY <1>1, <2>2
  <1>3. Keeps(up, S)
    <2>1. SUFFICES ASSUME NEW n \in Nodes, up[n] \in S, n \in Under(up, B) PROVE FALSE
      BY DEF Keeps
    <2>2. CASE n \in B
      BY <2>1, <2>2
    <2>3. CASE n \notin B
      <3>1. up[n] \in B \cup Under(up, B)
        BY <2>1, <2>3, UnderComesFrom
      <3>2. up[n] \in Nodes /\ up[n] \in B
        BY <2>1, <3>1
      <3>3. B \cap Nodes \subseteq Under(up, B)
        BY UnderIsLeast
      <3> QED
        BY <2>1, <3>2, <3>3
    <2> QED
      BY <2>2, <2>3
  <1>4. Under(up, A) \subseteq S
    BY <1>1, <1>2, <1>3, UnderIsLeast
  <1> QED
    BY <1>4

LEMMA InitHolds == Init => IInv
  BY DocumentAssumption
     DEF Init, IInv, FreshAreAlone, ParsedAreAlone, Alone, Fresh, TypeOK, OneOwner

(* A fragment of innerHTML is in no tree but its own. *)
LEMMA ParsedIsBelowNothing ==
    ASSUME IInv, NEW R \in SUBSET (Nodes \cup {Document}), NEW f \in parsed \ R
    PROVE  f \notin Under(parent, R)
  <1>1. SUFFICES ASSUME f \in Under(parent, R) PROVE FALSE
    OBVIOUS
  <1>2. parent[f] \in R \cup Under(parent, R)
    BY <1>1, UnderComesFrom
  <1>3. Under(parent, R) \in SUBSET Nodes /\ parent[f] = None
    BY UnderIsLeast DEF IInv, ParsedAreAlone, Alone
  <1> QED
    BY <1>2, <1>3, DocumentAssumption

(* Nor does anything else leak than they. *)
LEMMA LeaksAreParsed == IInv => (OnlyParsedFragmentsLeak <=> NothingElseLeaks)
  <1> SUFFICES ASSUME IInv PROVE OnlyParsedFragmentsLeak <=> NothingElseLeaks
    OBVIOUS
  <1>1. Below(Owned) = Under(parent, Owned)
    BY BelowIsUnder
  <1>2. Owned \in SUBSET (Nodes \cup {Document}) /\ parsed \subseteq live
        /\ parsed \cap Owned = {}
    BY DocumentAssumption, FragmentsAssumption
       DEF IInv, TypeOK, OneOwner, ParsedAreAlone, Owned
  <1>3. parsed \cap Below(Owned) = {}
    BY <1>1, <1>2, ParsedIsBelowNothing
  <1> QED
    BY <1>2, <1>3 DEF OnlyParsedFragmentsLeak, NothingElseLeaks, Owned

(* Script can walk to no fragment of innerHTML. *)
LEMMA ParsedIsNotReached ==
    ASSUME IInv, NEW f \in parsed
    PROVE  ~Reachable(f)
  <1>1. f \in Nodes /\ f # Document /\ f \notin held
    BY DocumentAssumption, FragmentsAssumption DEF IInv, TypeOK, ParsedAreAlone
  <1>2. ~InDocument(f)
    BY <1>1, BelowIsUnder, ParsedIsBelowNothing DEF InDocument
  <1>3. ASSUME NEW root \in live, f \in Below({root}) PROVE Below({root}) \cap held = {}
    <2>1. root \in Nodes /\ f \in Under(parent, {root})
      BY <1>3, BelowIsUnder DEF IInv, TypeOK
    <2>2. root = f
      BY <2>1, ParsedIsBelowNothing
    <2>3. Keeps(parent, {f})
      BY DEF Keeps, IInv, ParsedAreAlone, Alone
    <2>4. Under(parent, {f}) \subseteq {f}
      BY <1>1, <2>3, UnderIsLeast
    <2> QED
      BY <1>1, <2>2, <2>4, BelowIsUnder
  <1> QED
    BY <1>2, <1>3 DEF Reachable

(* A step that moves others, to others, leaves alone what is alone. *)
LEMMA StayAlone ==
    ASSUME IInv, live \cup deleted \subseteq live' \cup deleted', parsed' = parsed,
           parsed \subseteq live', parsed \cap wrapped' = {},
           \A m \in Nodes : \/ parent'[m] = parent[m]
                            \/ {m, parent'[m]} \cap (Fresh' \cup parsed) = {}
    PROVE  FreshAreAlone' /\ ParsedAreAlone'
  <1>1. Fresh' \subseteq Fresh /\ parsed \in SUBSET Nodes
    BY FragmentsAssumption DEF Fresh, IInv, TypeOK
  <1>2. \A n \in Fresh' \cup parsed : Alone(n)
    BY <1>1 DEF IInv, FreshAreAlone, ParsedAreAlone
  <1>3. \A n \in Fresh' \cup parsed : Alone(n)'
    BY <1>1, <1>2 DEF Alone, Fresh
  <1> QED
    BY <1>3 DEF FreshAreAlone, ParsedAreAlone

-----------------------------------------------------------------------------
(* The calls of script and the parser. *)

LEMMA CreateKeeps ==
    ASSUME IInv, NEW n \in Nodes, NEW kids \in SUBSET Nodes, Create(n, kids)
    PROVE  IInv'
  <1>1. /\ n \in Fresh /\ kids \subseteq Fresh /\ n \notin kids
        /\ live' = live \cup {n} \cup kids /\ UNCHANGED <<deleted, parsed>>
        /\ parent' = [m \in Nodes |-> IF m \in kids THEN n ELSE parent[m]]
    BY DEF Create
  <1>2. /\ wrapped' = wrapped \cup {n} /\ held' = held \cup {n}
        /\ retained' = retained \cup {n} /\ pooled' = pooled \ {n}
    BY DEF Create, Push
  <1>3. /\ n \notin live /\ kids \cap live = {} /\ parent[n] = None
        /\ parsed \subseteq live
    BY <1>1 DEF IInv, FreshAreAlone, ParsedAreAlone, Alone, Fresh
  <1>4. TypeOK'
    BY <1>1, <1>2 DEF IInv, TypeOK
  <1>5. FreshAreAlone' /\ ParsedAreAlone'
    <2>1. parsed \cap wrapped' = {} /\ parsed \subseteq live'
      BY <1>1, <1>2, <1>3 DEF IInv, ParsedAreAlone
    <2>2. {n} \cup kids \subseteq live' /\ ({n} \cup kids) \cap (Fresh' \cup parsed) = {}
      BY <1>1, <1>3 DEF Fresh
    <2> QED
      BY <1>1, <2>1, <2>2, StayAlone
  <1>6. kids \cap (retained' \cup pooled' \cup parsed') = {}
    BY <1>1, <1>2, <1>3 DEF IInv, TypeOK
  <1>7. OneOwner'
    BY <1>1, <1>2, <1>3, <1>6, DocumentAssumption DEF IInv, TypeOK, OneOwner
  <1> QED
    BY <1>4, <1>5, <1>7 DEF IInv

LEMMA ParserAppendKeeps ==
    ASSUME IInv, NEW n \in Nodes, NEW p \in Nodes \cup {Document}, ParserAppendChild(n, p)
    PROVE  IInv'
  <1>1. /\ n \in Fresh /\ p \in live \cup {Document} /\ live' = live \cup {n}
        /\ parent' = [parent EXCEPT ![n] = p]
        /\ UNCHANGED <<deleted, wrapped, held, retained, pooled, parsed>>
    BY DEF ParserAppendChild
  <1>2. n \notin live /\ parsed \subseteq live /\ parent \in [Nodes -> Nodes \cup {Document, None}]
    BY <1>1 DEF Fresh, IInv, ParsedAreAlone, TypeOK
  <1>3. p \notin parsed
    <2>1. SUFFICES ASSUME p \in parsed PROVE FALSE
      OBVIOUS
    <2>2. p # Document
      BY <2>1, DocumentAssumption, FragmentsAssumption DEF IInv, TypeOK
    <2>3. InDocument(p)
      BY <2>2 DEF ParserAppendChild
    <2> QED
      BY <2>1, <2>2, <2>3, BelowIsUnder, ParsedIsBelowNothing DEF InDocument
  <1>4. TypeOK'
    BY <1>1 DEF IInv, TypeOK
  <1>5. FreshAreAlone' /\ ParsedAreAlone'
    <2>1. parsed \cap wrapped' = {} /\ parsed \subseteq live'
      BY <1>1, <1>2 DEF IInv, ParsedAreAlone
    <2>2. {n, p} \cap (Fresh' \cup parsed) = {}
      BY <1>1, <1>2, <1>3, DocumentAssumption DEF Fresh
    <2>3. \A m \in Nodes : parent'[m] = parent[m] \/ (m = n /\ parent'[m] = p)
      BY <1>1, <1>2
    <2> QED
      BY <1>1, <2>1, <2>2, <2>3, StayAlone
  <1>6. OneOwner'
    BY <1>1, <1>2, DocumentAssumption DEF IInv, TypeOK, OneOwner
  <1> QED
    BY <1>4, <1>5, <1>6 DEF IInv

LEMMA GetKeeps ==
    ASSUME IInv, NEW n \in Nodes, Get(n)
    PROVE  IInv'
  <1>1. n \in live \ parsed /\ UNCHANGED <<live, deleted, parent, parsed>>
    BY ParsedIsNotReached DEF Get
  <1>2. /\ wrapped' = wrapped \cup {n} /\ held' = held \cup {n}
        /\ retained' = retained \cup ({n} \cap pooled) /\ pooled' = pooled \ {n}
    BY DEF Get, Push
  <1>3. TypeOK' /\ OneOwner'
    BY <1>1, <1>2 DEF IInv, TypeOK, OneOwner
  <1>4. FreshAreAlone' /\ ParsedAreAlone'
    BY <1>1, <1>2, StayAlone DEF IInv, ParsedAreAlone
  <1> QED
    BY <1>3, <1>4 DEF IInv

LEMMA InsertKeeps ==
    ASSUME IInv, NEW nodes \in SUBSET (live \ parsed), NEW p \in (live \ parsed) \cup {Document},
           Insert(nodes, p), UNCHANGED <<live, deleted, wrapped, held, parsed>>
    PROVE  IInv'
  <1>1. /\ parent' = [m \in Nodes |-> IF m \in nodes THEN p ELSE parent[m]]
        /\ retained' = retained \ nodes /\ pooled' = pooled \ nodes
    BY DEF Insert
  <1>2. TypeOK' /\ OneOwner'
    BY <1>1, DocumentAssumption DEF IInv, TypeOK, OneOwner
  <1>3. (nodes \cup {p}) \cap (Fresh' \cup parsed) = {}
    BY DocumentAssumption, FragmentsAssumption DEF Fresh, IInv, TypeOK
  <1>4. FreshAreAlone' /\ ParsedAreAlone'
    BY <1>1, <1>3, StayAlone DEF IInv, ParsedAreAlone
  <1> QED
    BY <1>2, <1>4 DEF IInv

(* Script has no fragment of innerHTML. *)
LEMMA CallableIsNotParsed ==
    ASSUME IInv, NEW p, Callable(p)
    PROVE  p \in (live \ parsed) \cup {Document} /\ held \cap parsed = {}
  BY DEF IInv, TypeOK, ParsedAreAlone, Callable

LEMMA AppendKeeps ==
    ASSUME IInv, NEW n \in Nodes, NEW p \in Nodes \cup {Document},
           AppendChild(n, p) \/ AppendFragment(n, p)
    PROVE  IInv'
  <1>1. /\ p \in (live \ parsed) \cup {Document} /\ held \cap parsed = {}
        /\ UNCHANGED <<live, deleted, wrapped, held, parsed>>
    BY CallableIsNotParsed DEF AppendChild, AppendFragment
  <1>2. Children(n) \cap parsed = {}
    BY DocumentAssumption DEF Children, IInv, ParsedAreAlone, Alone
  <1>3. \E nodes \in SUBSET (live \ parsed) : Insert(nodes, p)
    BY <1>1, <1>2 DEF AppendChild, AppendFragment, Children
  <1> QED
    BY <1>1, <1>3, InsertKeeps

LEMMA RemoveKeeps ==
    ASSUME IInv, NEW n \in Nodes, RemoveChild(n)
    PROVE  IInv'
  <1>1. /\ n \in (held \cap live) \ parsed /\ UNCHANGED <<live, deleted, parsed>>
        /\ parent' = [parent EXCEPT ![n] = None]
    BY CallableIsNotParsed DEF RemoveChild
  <1>2. /\ wrapped' = wrapped \cup {n} /\ held' = held \cup {n}
        /\ retained' = retained \cup {n} /\ pooled' = pooled \ {n}
    BY DEF RemoveChild, Push
  <1>3. TypeOK' /\ OneOwner'
    BY <1>1, <1>2, DocumentAssumption DEF IInv, TypeOK, OneOwner
  <1>4. {n, None} \cap (Fresh' \cup parsed) = {}
    BY <1>1, DocumentAssumption, FragmentsAssumption DEF Fresh, IInv, TypeOK
  <1>5. \A m \in Nodes : parent'[m] = parent[m] \/ (m = n /\ parent'[m] = None)
    BY <1>1 DEF IInv, TypeOK
  <1>6. FreshAreAlone' /\ ParsedAreAlone'
    BY <1>1, <1>2, <1>4, <1>5, StayAlone DEF IInv, ParsedAreAlone
  <1> QED
    BY <1>3, <1>6 DEF IInv

LEMMA RemoveChildrenKeeps ==
    ASSUME IInv, NEW p \in Nodes, RemoveChildren(p)
    PROVE  IInv'
  <1>1. /\ parent' = [m \in Nodes |-> IF m \in Children(p) THEN None ELSE parent[m]]
        /\ pooled' = pooled \cup (Children(p) \ retained)
        /\ UNCHANGED <<live, deleted, wrapped, held, retained, parsed>>
    BY DEF RemoveChildren, ReplaceChildren
  <1>2. Children(p) \in SUBSET live /\ Children(p) \cap parsed = {}
    BY DocumentAssumption DEF Children, IInv, ParsedAreAlone, Alone
  <1>3. TypeOK' /\ OneOwner'
    BY <1>1, <1>2, DocumentAssumption DEF IInv, TypeOK, OneOwner
  <1>4. (Children(p) \cup {None}) \cap (Fresh' \cup parsed) = {}
    BY <1>1, <1>2, DocumentAssumption, FragmentsAssumption DEF Fresh, IInv, TypeOK
  <1>5. FreshAreAlone' /\ ParsedAreAlone'
    BY <1>1, <1>4, StayAlone DEF IInv, ParsedAreAlone
  <1> QED
    BY <1>3, <1>5 DEF IInv

LEMMA SetInnerHTMLKeeps ==
    ASSUME IInv, NEW p \in Nodes, NEW f \in Fragments, NEW kids \in SUBSET Nodes,
           SetInnerHTML(p, f, kids)
    PROVE  IInv'
  <1> DEFINE old == Children(p)
  <1>1. /\ f \in Fresh /\ kids \subseteq Fresh /\ f \notin kids
        /\ live' = live \cup {f} \cup kids /\ parsed' = parsed \cup {f}
        /\ parent' = [m \in Nodes |-> IF m \in kids THEN p
                                      ELSE IF m \in old THEN None ELSE parent[m]]
        /\ pooled' = pooled \cup (old \ retained)
        /\ UNCHANGED <<deleted, wrapped, held, retained>>
    BY DEF SetInnerHTML, ReplaceChildren
  <1>2. p \in live \ parsed
    BY CallableIsNotParsed DEF SetInnerHTML
  <1>3. /\ parsed \subseteq live /\ f \notin live \cup deleted
        /\ kids \cap (live \cup deleted) = {}
    BY <1>1 DEF Fresh, IInv, ParsedAreAlone
  <1>4. \A n \in Fresh \cup parsed : Alone(n)
    BY DEF IInv, FreshAreAlone, ParsedAreAlone
  <1>5. old \in SUBSET live /\ old \cap parsed = {}
    BY <1>4, DocumentAssumption DEF Children, Alone
  <1>6. TypeOK'
    <2>1. /\ live' \in SUBSET Nodes /\ live \subseteq live' /\ parsed' \in SUBSET Fragments
          /\ pooled' \in SUBSET live'
      BY <1>1, <1>5 DEF Fresh, IInv, TypeOK
    <2>2. parent' \in [Nodes -> Nodes \cup {Document, None}]
      BY <1>1 DEF IInv, TypeOK
    <2> QED
      BY <1>1, <2>1, <2>2 DEF IInv, TypeOK
  <1>7. FreshAreAlone' /\ ParsedAreAlone'
    <2>1. Fresh' \subseteq Fresh /\ parsed' \in SUBSET Nodes
      BY <1>1, <1>6, FragmentsAssumption DEF Fresh, TypeOK
    <2>2. ASSUME NEW n \in Fresh' \cup parsed' PROVE Alone(n)'
      <3>1. n \in Nodes /\ Alone(n) /\ n \notin kids /\ n \notin old /\ n # p /\ n # None
        BY <1>1, <1>2, <1>3, <1>4, <1>5, <2>1, DocumentAssumption DEF Fresh
      <3> QED
        BY <1>1, <3>1 DEF Alone
    <2>3. \A n \in parsed' : n \in live' /\ n \notin wrapped'
      BY <1>1, <1>3 DEF IInv, ParsedAreAlone, TypeOK
    <2> QED
      BY <2>2, <2>3 DEF FreshAreAlone, ParsedAreAlone
  <1>8. OneOwner'
    <2>1. (retained' \cup pooled') \cap (kids \cup {f}) = {}
      BY <1>1, <1>3, <1>5 DEF IInv, TypeOK
    <2>2. retained' \cap pooled' = {} /\ (retained' \cup pooled') \cap parsed' = {}
      BY <1>1, <1>5, <2>1 DEF IInv, OneOwner
    <2>3. ASSUME NEW n \in live'
          PROVE  /\ parent'[n] = None <=> n \in retained' \cup pooled' \cup parsed'
                 /\ parent'[n] \in live' \cup {Document, None}
      <3>1. n \in Nodes
        BY <1>6, <2>3 DEF TypeOK
      <3>2. CASE n \in kids
        BY <1>1, <1>2, <1>3, <2>1, <3>1, <3>2, DocumentAssumption DEF IInv, TypeOK
      <3>3. CASE n = f
        BY <1>1, <1>4, <1>5, <1>3, <3>1, <3>3 DEF Alone
      <3>4. CASE n \in live
        BY <1>1, <1>3, <3>1, <3>4 DEF IInv, OneOwner
      <3> QED
        BY <1>1, <3>2, <3>3, <3>4
    <2> QED
      BY <2>2, <2>3 DEF OneOwner
  <1> QED
    BY <1>6, <1>7, <1>8 DEF IInv

(* The finalizer and the pool. *)

LEMMA DropKeeps ==
    ASSUME IInv, NEW n \in Nodes, Drop(n) \/ Finalize(n)
    PROVE  IInv'
  <1>1. /\ UNCHANGED <<live, deleted, parent, parsed>>
        /\ wrapped' \subseteq wrapped
    BY DEF Drop, Finalize
  <1>2. TypeOK' /\ OneOwner'
    BY DEF IInv, TypeOK, OneOwner, Drop, Finalize
  <1>3. FreshAreAlone' /\ ParsedAreAlone'
    BY <1>1, StayAlone DEF IInv, ParsedAreAlone
  <1> QED
    BY <1>2, <1>3 DEF IInv

LEMMA CollectKeeps ==
    ASSUME IInv, CollectGarbage
    PROVE  IInv'
  <1> DEFINE doomed == Below(pooled) \ (retained \ pooled)
  <1>1. /\ live' = live \ doomed /\ deleted' = deleted \cup doomed
        /\ pooled' = {} /\ UNCHANGED <<parent, wrapped, held, retained, parsed>>
    BY DEF CollectGarbage
  <1>2. pooled \in SUBSET Nodes
    BY DEF IInv, TypeOK
  <1>3. /\ doomed \in SUBSET Nodes /\ pooled \subseteq doomed
        /\ \A n \in Nodes : parent[n] \in doomed => n \in Below(pooled)
    BY <1>2, BelowIsClosed DEF IInv, OneOwner
  <1>4. retained \cap doomed = {} /\ parsed \cap doomed = {}
    BY <1>2, BelowIsUnder, ParsedIsBelowNothing DEF IInv, OneOwner
  <1>5. TypeOK'
    BY <1>1, <1>3, <1>4 DEF IInv, TypeOK
  <1>6. ASSUME NEW n \in live'
        PROVE  /\ parent[n] = None <=> n \in retained \cup parsed
               /\ parent[n] \in live' \cup {Document, None}
    <2>1. n \in live /\ n \notin doomed /\ n \in Nodes
      BY <1>1, <1>6 DEF IInv, TypeOK
    <2>2. parent[n] = None <=> n \in retained \cup parsed
      BY <2>1, <1>3 DEF IInv, OneOwner
    <2>3. parent[n] \notin doomed
      <3>1. SUFFICES ASSUME parent[n] \in doomed PROVE FALSE
        OBVIOUS
      <3>2. n \in retained
        BY <2>1, <3>1, <1>3
      <3> QED
        BY <2>2, <3>1, <3>2, <1>3, DocumentAssumption
    <2> QED
      BY <1>1, <2>1, <2>2, <2>3 DEF IInv, OneOwner
  <1>7. FreshAreAlone' /\ ParsedAreAlone'
    BY <1>1, <1>4, StayAlone DEF IInv, ParsedAreAlone
  <1>8. OneOwner'
    BY <1>1, <1>6 DEF IInv, OneOwner
  <1> QED
    BY <1>5, <1>7, <1>8 DEF IInv

-----------------------------------------------------------------------------
LEMMA NextKeeps == IInv /\ [Next]_vars => IInv'
  <1> SUFFICES ASSUME IInv, [Next]_vars PROVE IInv'
    OBVIOUS
  <1>1. CASE UNCHANGED vars
    BY <1>1 DEF vars, IInv, FreshAreAlone, ParsedAreAlone, Alone, Fresh, TypeOK, OneOwner
  <1>2. CASE \E n \in Nodes : Get(n)
    BY <1>2, GetKeeps
  <1>3. CASE \E n \in Nodes : RemoveChild(n)
    BY <1>3, RemoveKeeps
  <1>4. CASE \E n \in Nodes : Drop(n) \/ Finalize(n)
    BY <1>4, DropKeeps
  <1>5. CASE \E n \in Nodes, kids \in SUBSET Nodes : Create(n, kids)
    BY <1>5, CreateKeeps
  <1>6. CASE \E n \in Nodes : RemoveChildren(n)
    BY <1>6, RemoveChildrenKeeps
  <1>7. CASE \E n \in Nodes, p \in Nodes \cup {Document} : ParserAppendChild(n, p)
    BY <1>7, ParserAppendKeeps
  <1>8. CASE \E n \in Nodes, p \in Nodes \cup {Document} :
                 AppendChild(n, p) \/ AppendFragment(n, p)
    BY <1>8, AppendKeeps
  <1>9. CASE \E n \in Nodes, f \in Fragments, kids \in SUBSET Nodes : SetInnerHTML(n, f, kids)
    BY <1>9, SetInnerHTMLKeeps
  <1>10. CASE CollectGarbage
    BY <1>10, CollectKeeps
  <1> QED
    BY <1>1, <1>2, <1>3, <1>4, <1>5, <1>6, <1>7, <1>8, <1>9, <1>10 DEF Next

-----------------------------------------------------------------------------
(***************************************************************************)
(* Nothing else leaks.  What every step has to show is that a set with the *)
(* owned roots after it, and with the children of what it contains, has    *)
(* all live nodes but the fragments of innerHTML: because the parents      *)
(* before the step keep it as well.                                        *)
(***************************************************************************)

(* To be below R is to be in all that has R and keeps its children. *)
LEMMA UnderIs ==
    ASSUME NEW up, NEW R, NEW L \in SUBSET Nodes,
           \A S \in SUBSET (Nodes \cup {Document}) : R \subseteq S /\ Keeps(up, S) => L \subseteq S
    PROVE  L \subseteq Under(up, R)
  BY DEF Under

(***************************************************************************)
(* Nodes move to p, which is not below them.  What hung from a root that   *)
(* moved hangs from it still, and with it from p.                          *)
(***************************************************************************)
LEMMA MoveReaches ==
    ASSUME NEW up, NEW R \in SUBSET (Nodes \cup {Document}), NEW L \in SUBSET Nodes,
           L \subseteq Under(up, R), Document \in R,
           NEW moved \in SUBSET Nodes, NEW p \in L \cup {Document},
           p \notin Under(up, moved), Document \notin moved
    PROVE  L \subseteq Under([m \in Nodes |-> IF m \in moved THEN p ELSE up[m]], R \ moved)
  <1> DEFINE up1 == [m \in Nodes |-> IF m \in moved THEN p ELSE up[m]]
  <1> SUFFICES ASSUME NEW S \in SUBSET (Nodes \cup {Document}), R \ moved \subseteq S,
                      Keeps(up1, S)
               PROVE  L \subseteq S
    BY UnderIs
  <1>1. \A m \in Nodes : up1[m] = IF m \in moved THEN p ELSE up[m]
    OBVIOUS
  <1> HIDE DEF up1
  <1> DEFINE U == Under(up, moved)
             T == S \cup U
  <1>2. /\ U \in SUBSET Nodes /\ moved \subseteq U
        /\ \A m \in Nodes : up[m] \in U => m \in U
    BY UnderIsLeast
  <1>3. p \notin U
    OBVIOUS
  <1> HIDE DEF U
  <1>4. L \subseteq T
    <2>1. T \in SUBSET (Nodes \cup {Document}) /\ R \subseteq T
      BY <1>2
    <2>2. Keeps(up, T)
      BY <1>1, <1>2 DEF Keeps
    <2> QED
      BY <2>1, <2>2, UnderIsLeast
  <1>5. p \in S
    BY <1>3, <1>4
  <1>6. moved \subseteq S
    BY <1>1, <1>5 DEF Keeps
  <1>7. R \subseteq S /\ Keeps(up, S)
    BY <1>1, <1>6 DEF Keeps
  <1> QED
    BY <1>7, UnderIsLeast

Leakless == IInv /\ NothingElseLeaks

(* What has an owner, or hangs from it. *)
LEMMA LeaklessMeans ==
    ASSUME Leakless
    PROVE  /\ live \ parsed \in SUBSET Nodes /\ live \ parsed \subseteq Under(parent, Owned)
           /\ Owned \in SUBSET (Nodes \cup {Document}) /\ Document \in Owned
           /\ \A n \in Fresh \cup parsed : n \in Nodes /\ Alone(n)
  BY BelowIsUnder, FragmentsAssumption
     DEF Leakless, NothingElseLeaks, Owned, IInv, TypeOK, FreshAreAlone, ParsedAreAlone, Fresh

LEMMA CreateLeaksNothing ==
    ASSUME Leakless, NEW n \in Nodes, NEW kids \in SUBSET Nodes, Create(n, kids)
    PROVE  NothingElseLeaks'
  <1>1. /\ n \in Fresh /\ kids \subseteq Fresh /\ live' = live \cup {n} \cup kids
        /\ parent' = [m \in Nodes |-> IF m \in kids THEN n ELSE parent[m]]
        /\ parsed' = parsed /\ Owned' = Owned \cup {n}
    BY DEF Create, Push, Owned, Leakless, IInv, TypeOK, Fresh
  <1>2. \A m \in kids : parent[m] \notin Nodes \cup {Document}
    BY <1>1, LeaklessMeans, DocumentAssumption DEF Alone
  <1>3. ASSUME NEW S \in SUBSET (Nodes \cup {Document}), Owned' \subseteq S, Keeps(parent', S)
        PROVE  live' \ parsed' \subseteq S
    <2>1. n \in S
      BY <1>1, <1>3
    <2>2. kids \subseteq S
      BY <1>1, <1>3, <2>1 DEF Keeps
    <2>3. Owned \subseteq S /\ Keeps(parent, S)
      BY <1>1, <1>2, <1>3 DEF Keeps
    <2>4. live \ parsed \subseteq S
      BY <2>3, LeaklessMeans, UnderIsLeast
    <2> QED
      BY <1>1, <2>1, <2>2, <2>4
  <1>4. live' \ parsed' \in SUBSET Nodes
    BY <1>1 DEF Leakless, IInv, TypeOK
  <1>5. live' \ parsed' \subseteq Under(parent', Owned')
    BY <1>3, <1>4, UnderIs
  <1> QED
    BY <1>5, BelowIsUnder

LEMMA ParserAppendLeaksNothing ==
    ASSUME Leakless, NEW n \in Nodes, NEW p \in Nodes \cup {Document}, ParserAppendChild(n, p)
    PROVE  NothingElseLeaks'
  <1>1. /\ n \in Fresh /\ live' = live \cup {n}
        /\ parent' = [parent EXCEPT ![n] = p] /\ UNCHANGED parsed /\ Owned' = Owned
    BY DEF ParserAppendChild, Owned
  <1>2. p \in Owned \cup Under(parent, Owned)
    <2>1. p = Document \/ p \in Under(parent, {Document})
      BY BelowIsUnder DEF ParserAppendChild, InDocument
    <2>2. /\ Under(parent, Owned) \in SUBSET (Nodes \cup {Document})
          /\ \A m \in Nodes : parent[m] \in Owned \cup Under(parent, Owned)
                                 => m \in Under(parent, Owned)
      BY UnderIsLeast
    <2>3. Under(parent, {Document}) \subseteq Owned \cup Under(parent, Owned)
      <3> DEFINE T == Owned \cup Under(parent, Owned)
      <3>1. T \in SUBSET (Nodes \cup {Document}) /\ {Document} \subseteq T
        BY <2>2, LeaklessMeans
      <3>2. Keeps(parent, T)
        BY <2>2 DEF Keeps
      <3> QED
        BY <3>1, <3>2, UnderIsLeast
    <2> QED
      BY <2>1, <2>3, LeaklessMeans
  <1>3. parent[n] \notin Nodes \cup {Document}
    BY <1>1, LeaklessMeans, DocumentAssumption DEF Alone
  <1>4. \A m \in Nodes : parent'[m] = IF m = n THEN p ELSE parent[m]
    BY <1>1 DEF Leakless, IInv, TypeOK
  <1>5. ASSUME NEW S \in SUBSET (Nodes \cup {Document}), Owned' \subseteq S, Keeps(parent', S)
        PROVE  live' \ parsed' \subseteq S
    <2>1. Keeps(parent, S) /\ Owned \subseteq S
      BY <1>1, <1>3, <1>4, <1>5 DEF Keeps
    <2>2. Under(parent, Owned) \subseteq S
      BY <2>1, UnderIsLeast
    <2>3. n \in S
      BY <1>2, <1>4, <1>5, <2>1, <2>2 DEF Keeps
    <2> QED
      BY <1>1, <2>2, <2>3, LeaklessMeans
  <1>6. live' \ parsed' \in SUBSET Nodes
    BY <1>1 DEF Leakless, IInv, TypeOK
  <1>7. live' \ parsed' \subseteq Under(parent', Owned')
    BY <1>5, <1>6, UnderIs
  <1> QED
    BY <1>7, BelowIsUnder

LEMMA AppendLeaksNothing ==
    ASSUME Leakless, NEW n \in Nodes, NEW p \in Nodes \cup {Document},
           AppendChild(n, p) \/ AppendFragment(n, p)
    PROVE  NothingElseLeaks'
  <1>1. p \in (live \ parsed) \cup {Document}
    BY CallableIsNotParsed DEF AppendChild, AppendFragment, Leakless
  <1>2. p \notin Under(parent, {n}) /\ UNCHANGED <<live, parsed>>
    BY BelowIsUnder DEF AppendChild, AppendFragment
  <1>3. PICK moved \in SUBSET Nodes : Insert(moved, p) /\ moved \subseteq Under(parent, {n})
    <2>1. CASE AppendChild(n, p)
      <3>1. Insert({n}, p) /\ {n} \subseteq Under(parent, {n})
        BY <2>1, UnderIsLeast DEF AppendChild
      <3> QED
        BY <3>1
    <2>2. CASE AppendFragment(n, p)
      <3>1. Children(n) \in SUBSET Nodes
        BY DEF Children, Leakless, IInv, TypeOK
      <3>2. \A m \in Children(n) : m \in Under(parent, {n})
        BY <3>1, UnderIsLeast DEF Children
      <3>3. Insert(Children(n), p)
        BY <2>2 DEF AppendFragment
      <3> QED
        BY <3>1, <3>2, <3>3
    <2> QED
      BY <2>1, <2>2
  <1>4. p \notin Under(parent, moved)
    <2>1. Under(parent, {n}) \in SUBSET (Nodes \cup {Document}) /\ Keeps(parent, Under(parent, {n}))
      BY UnderIsLeast DEF Keeps
    <2>2. Under(parent, moved) \subseteq Under(parent, {n})
      BY <1>3, <2>1, UnderIsLeast
    <2> QED
      BY <1>2, <2>2
  <1>5. Document \notin moved
    BY DocumentAssumption
  <1>6. /\ parent' = [m \in Nodes |-> IF m \in moved THEN p ELSE parent[m]]
        /\ Owned' = Owned \ moved
    BY <1>3, <1>5 DEF Insert, Owned
  <1>7. live' \ parsed' \subseteq Under(parent', Owned')
    <2> DEFINE L == live \ parsed
    <2>1. /\ Owned \in SUBSET (Nodes \cup {Document}) /\ Document \in Owned
          /\ L \in SUBSET Nodes /\ L \subseteq Under(parent, Owned)
          /\ p \in L \cup {Document} /\ live' \ parsed' = L
      BY <1>1, <1>2, LeaklessMeans
    <2> HIDE DEF L
    <2> QED
      BY <1>4, <1>5, <1>6, <2>1, MoveReaches
  <1> QED
    BY <1>7, BelowIsUnder

(* What is cut off gets an owner of its own. *)
LEMMA CutLeaksNothing ==
    ASSUME Leakless, NEW cut \in SUBSET Nodes, Owned' = Owned \cup cut,
           parent' = [m \in Nodes |-> IF m \in cut THEN None ELSE parent[m]],
           UNCHANGED <<live, parsed>>
    PROVE  NothingElseLeaks'
  <1>1. ASSUME NEW S \in SUBSET (Nodes \cup {Document}), Owned' \subseteq S, Keeps(parent', S)
        PROVE  live' \ parsed' \subseteq S
    <2>1. Keeps(parent, S) /\ Owned \subseteq S
      BY <1>1 DEF Keeps
    <2> QED
      BY <2>1, LeaklessMeans, UnderIsLeast
  <1>2. live' \ parsed' \subseteq Under(parent', Owned')
    BY <1>1, LeaklessMeans, UnderIs
  <1> QED
    BY <1>2, BelowIsUnder

LEMMA RemoveLeaksNothing ==
    ASSUME Leakless, NEW n \in Nodes, RemoveChild(n) \/ RemoveChildren(n)
    PROVE  NothingElseLeaks'
  <1>1. CASE RemoveChild(n)
    <2>1. Owned' = Owned \cup {n} /\ UNCHANGED <<live, parsed>>
      BY <1>1 DEF RemoveChild, Push, Owned
    <2>2. parent' = [m \in Nodes |-> IF m \in {n} THEN None ELSE parent[m]]
      BY <1>1 DEF RemoveChild, Leakless, IInv, TypeOK
    <2> QED
      BY <2>1, <2>2, CutLeaksNothing
  <1>2. CASE RemoveChildren(n)
    <2>1. Owned' = Owned \cup Children(n) /\ UNCHANGED <<live, parsed>>
      BY <1>2 DEF RemoveChildren, ReplaceChildren, Owned
    <2>2. /\ parent' = [m \in Nodes |-> IF m \in Children(n) THEN None ELSE parent[m]]
          /\ Children(n) \in SUBSET Nodes
      BY <1>2 DEF RemoveChildren, ReplaceChildren, Children, Leakless, IInv, TypeOK
    <2> QED
      BY <2>1, <2>2, CutLeaksNothing
  <1> QED
    BY <1>1, <1>2

(* The children that a fragment of innerHTML brought have p for parent. *)
LEMMA SetInnerHTMLLeaksAFragment ==
    ASSUME Leakless, NEW p \in Nodes, NEW f \in Fragments, NEW kids \in SUBSET Nodes,
           SetInnerHTML(p, f, kids)
    PROVE  NothingElseLeaks'
  <1>1. /\ kids \subseteq Fresh /\ live' = live \cup {f} \cup kids /\ parsed' = parsed \cup {f}
        /\ parent' = [m \in Nodes |-> IF m \in kids THEN p
                                      ELSE IF m \in Children(p) THEN None ELSE parent[m]]
        /\ Owned' = Owned \cup Children(p)
    BY DEF SetInnerHTML, ReplaceChildren, Owned
  <1>2. p \in live \ parsed
    BY CallableIsNotParsed DEF SetInnerHTML, Leakless
  <1>3. \A m \in kids : parent[m] \notin Nodes \cup {Document}
    BY <1>1, LeaklessMeans, DocumentAssumption DEF Alone
  <1>4. ASSUME NEW S \in SUBSET (Nodes \cup {Document}), Owned' \subseteq S, Keeps(parent', S)
        PROVE  live' \ parsed' \subseteq S
    <2>1. Keeps(parent, S) /\ Owned \subseteq S
      BY <1>1, <1>3, <1>4 DEF Keeps
    <2>2. live \ parsed \subseteq S
      BY <2>1, LeaklessMeans, UnderIsLeast
    <2>3. kids \subseteq S
      BY <1>1, <1>2, <1>4, <2>2 DEF Keeps
    <2> QED
      BY <1>1, <2>2, <2>3
  <1>5. live' \ parsed' \in SUBSET Nodes
    BY <1>1, FragmentsAssumption DEF Leakless, IInv, TypeOK
  <1>6. live' \ parsed' \subseteq Under(parent', Owned')
    BY <1>4, <1>5, UnderIs
  <1> QED
    BY <1>6, BelowIsUnder

(* Trees and owned roots are left alone, whoever owns them after. *)
LEMMA OwnedLeaksNothing ==
    ASSUME Leakless, UNCHANGED <<live, parent, parsed>>, Owned' = Owned
    PROVE  NothingElseLeaks'
  BY LeaklessMeans, BelowIsUnder

(* What a collection leaves hangs from what is not pooled. *)
LEMMA CollectLeaksNothing ==
    ASSUME Leakless, CollectGarbage
    PROVE  NothingElseLeaks'
  <1> DEFINE kept == {Document} \cup retained
  <1>1. /\ live' = live \ (Under(parent, pooled) \ retained) /\ UNCHANGED <<parent, parsed>>
        /\ Owned' = kept
    BY BelowIsUnder DEF CollectGarbage, Owned, Leakless, IInv, OneOwner
  <1>2. /\ Owned = pooled \cup kept
        /\ pooled \in SUBSET Nodes /\ kept \in SUBSET (Nodes \cup {Document})
        /\ retained \in SUBSET Nodes
    BY DEF Leakless, Owned, IInv, TypeOK
  <1>3. live \ parsed \subseteq Under(parent, pooled) \cup Under(parent, kept)
    BY <1>2, LeaklessMeans, UnderUnion
  <1>4. retained \subseteq Under(parent, kept)
    BY <1>2, UnderIsLeast
  <1>5. live' \ parsed' \subseteq Under(parent', Owned')
    BY <1>1, <1>3, <1>4
  <1> QED
    BY <1>5, BelowIsUnder

LEMMA NextLeaksNothing == Leakless /\ [Next]_vars => NothingElseLeaks'
  <1> SUFFICES ASSUME Leakless, [Next]_vars PROVE NothingElseLeaks'
    OBVIOUS
  <1>1. CASE UNCHANGED vars
    BY <1>1, OwnedLeaksNothing DEF vars, Owned
  <1>2. CASE \E n \in Nodes : Get(n) \/ Drop(n) \/ Finalize(n)
    BY <1>2, OwnedLeaksNothing DEF Get, Push, Drop, Finalize, Owned
  <1>3. CASE \E n \in Nodes : RemoveChild(n) \/ RemoveChildren(n)
    BY <1>3, RemoveLeaksNothing
  <1>4. CASE \E n \in Nodes, kids \in SUBSET Nodes : Create(n, kids)
    BY <1>4, CreateLeaksNothing
  <1>5. CASE \E n \in Nodes, f \in Fragments, kids \in SUBSET Nodes : SetInnerHTML(n, f, kids)
    BY <1>5, SetInnerHTMLLeaksAFragment
  <1>6. CASE \E n \in Nodes, p \in Nodes \cup {Document} : ParserAppendChild(n, p)
    BY <1>6, ParserAppendLeaksNothing
  <1>7. CASE \E n \in Nodes, p \in Nodes \cup {Document} :
                 AppendChild(n, p) \/ AppendFragment(n, p)
    BY <1>7, AppendLeaksNothing
  <1>8. CASE CollectGarbage
    BY <1>8, CollectLeaksNothing
  <1> QED
    BY <1>1, <1>2, <1>3, <1>4, <1>5, <1>6, <1>7, <1>8 DEF Next

(* Only a collection deletes, and only what hangs from a pooled root. *)
LEMMA DeletedWasUnused ==
    ASSUME IInv, [Next]_vars
    PROVE  (deleted' \ deleted) \cap Below({Document} \cup retained) = {}
  <1> DEFINE kept == {Document} \cup retained
  <1>1. CASE CollectGarbage
    <2>1. deleted' \ deleted \subseteq Under(parent, pooled)
      BY <1>1, BelowIsUnder DEF CollectGarbage
    <2>2. /\ pooled \in SUBSET Nodes /\ kept \in SUBSET (Nodes \cup {Document})
          /\ pooled \cap kept = {}
          /\ \A n \in Nodes \cap (pooled \cup kept) : parent[n] \notin Nodes \cup {Document}
      BY DocumentAssumption DEF IInv, TypeOK, OneOwner
    <2>3. Under(parent, pooled) \cap Under(parent, kept) = {}
      BY <2>2, UnderApart
    <2> QED
      BY <2>1, <2>3, BelowIsUnder
  <1>2. CASE UNCHANGED deleted
    BY <1>2
  <1> QED
    BY <1>1, <1>2 DEF Next, vars, Get, RemoveChild, Drop, Finalize, Create,
       RemoveChildren, SetInnerHTML, ReplaceChildren, ParserAppendChild, AppendChild, AppendFragment

-----------------------------------------------------------------------------
(* The invariant of the heap: types and owners, whatever script calls.     *)
THEOREM Owners == Spec => []IInv
  <1> QED
    BY InitHolds, NextKeeps, PTL DEF Spec

(* The variables of NodeHeap keep their types. *)
THEOREM TypeCorrect == Spec => []TypeOK
  <1>1. IInv => TypeOK
    BY DEF IInv
  <1> QED
    BY <1>1, Owners, PTL

(***************************************************************************)
(* Whatever script, parser, finalizers and collections do, no node has two *)
(* owners of parent, script and pool (container_node.cpp:119, 287, 923 and *)
(* 970, gc_pool.cpp:22), and those without one are the fragments that      *)
(* innerHTML parsed into (serialization.cpp:69).                           *)
(***************************************************************************)
THEOREM OnlyParsedFragmentsAreUnowned == Spec => []OneOwner
  <1>1. IInv => OneOwner
    BY DEF IInv
  <1> QED
    BY <1>1, Owners, PTL

(***************************************************************************)
(* The live nodes that are not below the document or a root that script or *)
(* the pool owns are the fragments that innerHTML parsed into: each of     *)
(* them, for ever, and nothing else, for any number of nodes and any depth *)
(* of the trees (serialization.cpp:69, duk_script_object.cpp:64,           *)
(* container_node.cpp:664, 923 and 970).                                   *)
(***************************************************************************)
THEOREM LeaksAreParsedFragments == Spec => []OnlyParsedFragmentsLeak
  <1>1. Init => Leakless
    BY InitHolds DEF Leakless, Init, NothingElseLeaks
  <1>2. Leakless /\ [Next]_vars => Leakless'
    BY NextKeeps, NextLeaksNothing DEF Leakless
  <1>3. Leakless => OnlyParsedFragmentsLeak
    BY LeaksAreParsed DEF Leakless
  <1> QED
    BY <1>1, <1>2, <1>3, PTL DEF Spec

(***************************************************************************)
(* A collection deletes nothing that is in the document or in a tree whose *)
(* root script retained (container_node.cpp:119 and 287, gc_pool.cpp:22).  *)
(***************************************************************************)
THEOREM CollectionsSpareWhatIsUsed == Spec => NothingInUseIsDeleted
  <1>1. IInv /\ [Next]_vars =>
           [(deleted' \ deleted) \cap Below({Document} \cup retained) = {}]_vars
    BY DeletedWasUnused
  <1> QED
    BY <1>1, Owners, PTL DEF Spec, NothingInUseIsDeleted

=============================================================================
