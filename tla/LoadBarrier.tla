----------------------------- MODULE LoadBarrier -----------------------------
(***************************************************************************)
(* What the embedder is promised about a page: it is told once that the    *)
(* document is ready or that the load failed, and the load is closed only  *)
(* at a moment when nothing it waits for is outstanding.  Main stands for  *)
(* the page itself, from the request to the end of its parsing; the other  *)
(* blockers are scripts, which may be added at any time and be gone again. *)
(***************************************************************************)
EXTENDS Sequences

CONSTANTS Scripts, Main

VARIABLES
    blockers,   \* what the load still waits for
    closing,    \* the load is being closed
    told        \* what the embedder has been told

vars == <<blockers, closing, told>>

Init ==
    /\ blockers = {Main}
    /\ closing = FALSE
    /\ told = <<>>

Block(s) ==
    /\ s \notin blockers
    /\ blockers' = blockers \cup {s}
    /\ UNCHANGED <<closing, told>>

Release(b) ==
    /\ b \in blockers
    /\ blockers' = blockers \ {b}
    /\ UNCHANGED <<closing, told>>

(* The decision; what blocks later does not hold it up any more. *)
Close ==
    /\ blockers = {} /\ ~closing
    /\ closing' = TRUE
    /\ UNCHANGED <<blockers, told>>

Announce ==
    /\ closing /\ told = <<>>
    /\ told' = <<"ready">>
    /\ UNCHANGED <<blockers, closing>>

(* The page could not be fetched. *)
Fail ==
    /\ blockers = {Main} /\ told = <<>>
    /\ told' = <<"failed">>
    /\ UNCHANGED <<blockers, closing>>

Next ==
    \/ \E s \in Scripts : Block(s)
    \/ \E b \in Scripts \cup {Main} : Release(b)
    \/ Close
    \/ Announce
    \/ Fail

Spec == Init /\ [][Next]_vars

=============================================================================
