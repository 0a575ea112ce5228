------------------------------ MODULE NodeHeap -------------------------------
(***************************************************************************)
(* Who owns a DOM node: the tree, the script or the pool of the frame.     *)
(* Nodes are not counted.  A node in a tree goes with its root; a root     *)
(* that script got hold of is "retained" until the finalizer of its        *)
(* wrapper runs; every other root waits in the GCPool (platform/bindings/  *)
(* gc_pool.cpp) to be deleted by CollectGarbage when the page has loaded.  *)
(* One kind of root is left out of this: the fragment that innerHTML       *)
(* parses into, which nobody owns.                                         *)
(*                                                                         *)
(* The model has the calls of core/dom/container_node.cpp that script can  *)
(* make, each with the push of its result (script_wrappers.cpp), and the   *)
(* finalizer (bindings/core/duk/duk_script_object.cpp), which Duktape runs *)
(* some time after script dropped a wrapper.  CollectGarbage also deletes  *)
(* nodes whose wrapper script still has; what script does with such a      *)
(* wrapper is undefined and not modelled.                                  *)
(***************************************************************************)
EXTENDS FiniteSets

CONSTANTS
    Nodes,      \* every node there will ever be but the document
    Fragments,  \* those that are document fragments
    Document,
    None

ASSUME FragmentsAssumption == Fragments \subseteq Nodes
ASSUME DocumentAssumption == Document \notin Nodes /\ None \notin Nodes \cup {Document}

VARIABLES
    live,      \* created and not deleted
    deleted,   \* history: deleted by CollectGarbage
    parent,    \* the tree; None for a root
    wrapped,   \* m_contextObject is set: the node has a script object
    held,      \* script can reach that object
    retained,  \* m_contextRetained
    pooled,    \* in m_objects of the GCPool, m_inGCPool
    parsed     \* history: the fragments that innerHTML parsed into

vars == <<live, deleted, parent, wrapped, held, retained, pooled, parsed>>

Init ==
    /\ live = {}
    /\ deleted = {}
    /\ parent = [n \in Nodes |-> None]
    /\ wrapped = {}
    /\ held = {}
    /\ retained = {}
    /\ pooled = {}
    /\ parsed = {}

Fresh == Nodes \ (live \cup deleted)

Children(p) == {n \in live : parent[n] = p}

(* The nodes of R with everything below them. *)
Closed(S) == \A n \in Nodes : parent[n] \in S => n \in S

Below(R) == {n \in Nodes : \A S \in SUBSET (Nodes \cup {Document}) :
                              R \subseteq S /\ Closed(S) => n \in S}

InDocument(n) == n \in Below({Document})

(* Script walks a tree from the document or from a node it holds. *)
Reachable(n) ==
    \/ InDocument(n)
    \/ \E root \in live : /\ parent[root] = None
                          /\ n \in Below({root}) /\ Below({root}) \cap held # {}

(* A call of script on a node, which must still be there. *)
Callable(p) == p = Document \/ p \in held \cap live

-----------------------------------------------------------------------------
(***************************************************************************)
(* PushWrapper: a node whose wrapper goes to script and which the pool had *)
(* is the script's from now on.                                            *)
(***************************************************************************)
Push(n, pool) ==
    /\ wrapped' = wrapped \cup {n}
    /\ held' = held \cup {n}
    /\ retained' = retained \cup ({n} \cap pool)
    /\ pooled' = pool \ {n}

(***************************************************************************)
(* createElement, createDocumentFragment, and cloneNode, which may bring   *)
(* children: saved to the pool, and pushed.                                *)
(***************************************************************************)
Create(n, kids) ==
    /\ n \in Fresh /\ kids \subseteq Fresh \ ({n} \cup Fragments)
    /\ live' = live \cup {n} \cup kids
    /\ parent' = [m \in Nodes |-> IF m \in kids THEN n ELSE parent[m]]
    /\ Push(n, pooled \cup {n})
    /\ UNCHANGED <<deleted, parsed>>

(* The parser appends a node it made to the document or to one in it. *)
ParserAppendChild(n, p) ==
    /\ n \in Fresh \ Fragments
    /\ p = Document \/ (p \in live /\ InDocument(p))
    /\ live' = live \cup {n}
    /\ parent' = [parent EXCEPT ![n] = p]
    /\ UNCHANGED <<deleted, wrapped, held, retained, pooled, parsed>>

(* firstChild, parentNode, querySelector ... : a node goes to script. *)
Get(n) ==
    /\ n \in live /\ Reachable(n)
    /\ Push(n, pooled)
    /\ UNCHANGED <<live, deleted, parent, parsed>>

(* Variant: the pool keeps what is inserted. *)
InsertPooled(nodes, p) ==
    /\ parent' = [m \in Nodes |-> IF m \in nodes THEN p ELSE parent[m]]
    /\ retained' = retained \ nodes
    /\ UNCHANGED pooled

(***************************************************************************)
(* AdoptAndAppendChild and AdoptAndInsertBefore: the tree takes the nodes  *)
(* over from the script or the pool.                                       *)
(***************************************************************************)
Insert(nodes, p) ==
    /\ parent' = [m \in Nodes |-> IF m \in nodes THEN p ELSE parent[m]]
    /\ retained' = retained \ nodes
    /\ pooled' = pooled \ nodes

(* Variant: a node may be put below itself. *)
AppendBelowItself(n, p) ==
    /\ n \in (held \cap live) \ Fragments /\ Callable(p)
    /\ p # n
    /\ Insert({n}, p)
    /\ UNCHANGED <<live, deleted, wrapped, held, parsed>>

(* appendChild and insertBefore; an old parent lets go of the node first. *)
AppendChild(n, p) ==
    /\ n \in (held \cap live) \ Fragments /\ Callable(p)
    /\ p \notin Below({n})
    /\ Insert({n}, p)
    /\ UNCHANGED <<live, deleted, wrapped, held, parsed>>

(* The same for a fragment: its children are moved, it stays. *)
AppendFragment(f, p) ==
    /\ f \in held \cap live \cap Fragments /\ Callable(p)
    /\ p \notin Below({f})
    /\ Children(f) # {}
    /\ Insert(Children(f), p)
    /\ UNCHANGED <<live, deleted, wrapped, held, parsed>>

(* removeChild: saved to the pool, and pushed. *)
RemoveChild(n) ==
    /\ n \in held \cap live /\ parent[n] # None /\ Callable(parent[n])
    /\ parent' = [parent EXCEPT ![n] = None]
    /\ Push(n, pooled \cup {n})
    /\ UNCHANGED <<live, deleted, parsed>>

(***************************************************************************)
(* RemoveChildren saves every child of p to the pool and pushes none,      *)
(* whether it has a wrapper or not.  New children may follow.              *)
(***************************************************************************)
ReplaceChildren(p, kids) ==
    /\ parent' = [m \in Nodes |-> IF m \in kids THEN p
                                  ELSE IF m \in Children(p) THEN None ELSE parent[m]]
    /\ pooled' = pooled \cup (Children(p) \ retained)
    /\ UNCHANGED <<deleted, wrapped, held, retained>>

(* textContent and innerHTML set to "". *)
RemoveChildren(p) ==
    /\ Callable(p) /\ p # Document
    /\ ReplaceChildren(p, {})
    /\ UNCHANGED <<live, parsed>>

(***************************************************************************)
(* innerHTML set to anything else: it is parsed into a fragment made for   *)
(* it, then p gets the children of that fragment, if it has any, for its   *)
(* own.  They go through the pool; the fragment is never saved to it,      *)
(* unlike one of createDocumentFragment, and not pushed.                   *)
(***************************************************************************)
SetInnerHTML(p, f, kids) ==
    /\ Callable(p) /\ p \notin Fragments \cup {Document}
    /\ f \in Fresh \cap Fragments /\ kids \subseteq Fresh \ Fragments
    /\ live' = live \cup {f} \cup kids
    /\ parsed' = parsed \cup {f}
    /\ ReplaceChildren(p, kids)

-----------------------------------------------------------------------------
(* Script forgets a node. *)
Drop(n) ==
    /\ n \in held
    /\ held' = held \ {n}
    /\ UNCHANGED <<live, deleted, parent, wrapped, retained, pooled, parsed>>

(* Variant: not released first, so that Save keeps it out of the pool. *)
FinalizeUnreleased(n) ==
    /\ n \in (wrapped \cap live) \ held
    /\ wrapped' = wrapped \ {n}
    /\ UNCHANGED <<live, deleted, parent, held, retained, pooled, parsed>>

(* DefaultFinalizer: what the script retained goes to the pool. *)
Finalize(n) ==
    /\ n \in (wrapped \cap live) \ held
    /\ wrapped' = wrapped \ {n}
    /\ retained' = retained \ {n}
    /\ pooled' = pooled \cup ({n} \cap retained)
    /\ UNCHANGED <<live, deleted, parent, held, parsed>>

(***************************************************************************)
(* CollectGarbage: PreCollectGarbage saves what is below the pooled nodes, *)
(* then all of it is deleted.  (It inserts into the set it iterates; the   *)
(* iteration is taken to visit every node that was there at the start.)    *)
(***************************************************************************)
CollectGarbage ==
    LET doomed == Below(pooled) \ (retained \ pooled)
    IN  /\ live' = live \ doomed
        /\ deleted' = deleted \cup doomed
        /\ pooled' = {}
        /\ UNCHANGED <<parent, wrapped, held, retained, parsed>>

Next ==
    \/ \E n \in Nodes :
          \/ Get(n) \/ RemoveChild(n) \/ RemoveChildren(n) \/ Drop(n) \/ Finalize(n)
          \/ \E kids \in SUBSET Nodes :
                Create(n, kids) \/ \E f \in Fragments : SetInnerHTML(n, f, kids)
          \/ \E p \in Nodes \cup {Document} :
                ParserAppendChild(n, p) \/ AppendChild(n, p) \/ AppendFragment(n, p)
    \/ CollectGarbage

Spec == Init /\ [][Next]_vars

-----------------------------------------------------------------------------
(* Properties. *)

(* The type invariant. *)
TypeOK ==
    /\ live \in SUBSET Nodes
    /\ deleted \in SUBSET Nodes
    /\ parent \in [Nodes -> Nodes \cup {Document, None}]
    /\ wrapped \in SUBSET (live \cup deleted)
    /\ held \in SUBSET wrapped
    /\ retained \in SUBSET (live \cap wrapped)
    /\ pooled \in SUBSET live
    /\ parsed \in SUBSET Fragments

(***************************************************************************)
(* No node has two owners, and only a fragment of innerHTML has none,      *)
(* whatever script and finalizers do and in whatever order: a node in a    *)
(* tree is neither retained nor pooled; a root is one or the other         *)
(* (container_node.cpp:119 and 287, duk_script_object.cpp:64), unless      *)
(* innerHTML made it (serialization.cpp:69); and no node that is left      *)
(* hangs from a deleted one (container_node.cpp:800).                      *)
(***************************************************************************)
OneOwner ==
    /\ retained \cap pooled = {} /\ (retained \cup pooled) \cap parsed = {}
    /\ \A n \in live :
          /\ parent[n] = None <=> n \in retained \cup pooled \cup parsed
          /\ parent[n] \in live \cup {Document, None}

(***************************************************************************)
(* What leaks is the fragments of innerHTML, each for good, and nothing    *)
(* else (serialization.cpp:69).  Every other live node is below the        *)
(* document, below a node that script retained, whose finalizer passes it  *)
(* on, or below a pooled one, which the next collection deletes with it    *)
(* (duk_script_object.cpp:64, container_node.cpp:923 and 970): also what   *)
(* these fragments brought.  It rests on the tree being one: nodes in a    *)
(* circle would be nobody's (container_node.cpp:664).                      *)
(***************************************************************************)
OnlyParsedFragmentsLeak ==
    live \ Below({Document} \cup retained \cup pooled) = parsed

(***************************************************************************)
(* A collection deletes nothing that is in the document or in a tree whose *)
(* root script retained (container_node.cpp:119 and 287, gc_pool.cpp:22).  *)
(***************************************************************************)
NothingInUseIsDeleted ==
    [][(deleted' \ deleted) \cap Below({Document} \cup retained) = {}]_vars

=============================================================================
