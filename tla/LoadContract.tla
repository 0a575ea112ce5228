----------------------------- MODULE LoadContract ----------------------------
(***************************************************************************)
(* What URLLoaderImpl::LoadAsynchronously promises the client of a load,   *)
(* and the crawler client who is asked about pages, without threads,       *)
(* closures, tasks or requests: a load has one end at most; a page is      *)
(* handed on only after the crawler client was asked and only if its last  *)
(* word was to continue; once it was asked, the page does not fail any     *)
(* more; and when the main loop has closed nobody hears of anything.       *)
(* HttpLoad implements this module (HttpLoad!Implements).                  *)
(***************************************************************************)
EXTENDS Sequences

CONSTANTS Loads, None

VARIABLES
    pages,     \* the loads that are pages
    stage,     \* where each load is
    answer,    \* the last word of the crawler client on it
    outcome,   \* the ends its client was told of
    closed     \* the main loop is gone

vars == <<pages, stage, answer, outcome, closed>>

Init ==
    /\ pages \in SUBSET Loads
    /\ stage = [l \in Loads |-> "new"]
    /\ answer = [l \in Loads |-> None]
    /\ outcome = [l \in Loads |-> <<>>]
    /\ closed = FALSE

(* A load goes from one stage to another, while there is a loop. *)
Move(l, from, to) ==
    /\ ~closed
    /\ stage[l] = from
    /\ stage' = [stage EXCEPT ![l] = to]
    /\ UNCHANGED <<pages, closed>>

Tell(l, end) == outcome' = [outcome EXCEPT ![l] = Append(@, end)]

Load(l) == Move(l, "new", "loading") /\ UNCHANGED <<answer, outcome>>

Fail(l) == Move(l, "loading", "over") /\ Tell(l, "failed") /\ UNCHANGED answer

(* Scripts and other resources arrive without a question. *)
Finish(l) ==
    /\ l \notin pages
    /\ Move(l, "loading", "over")
    /\ Tell(l, "finished")
    /\ UNCHANGED answer

(* The crawler client is asked about a page, and may change its mind. *)
Ask(l) ==
    /\ l \in pages
    /\ Move(l, "loading", "asked")
    /\ UNCHANGED <<answer, outcome>>

Answer(l, word) ==
    /\ Move(l, "asked", "asked")
    /\ answer' = [answer EXCEPT ![l] = word]
    /\ UNCHANGED outcome

(* The answer takes effect, the moment it is given or later. *)
HandOn(l) ==
    /\ Move(l, "asked", "over")
    /\ answer' = [answer EXCEPT ![l] = "continue"]
    /\ answer[l] # "cancel"
    /\ Tell(l, "finished")

Drop(l) ==
    /\ Move(l, "asked", "dropped")
    /\ answer' = [answer EXCEPT ![l] = "cancel"]
    /\ answer[l] # "continue"
    /\ UNCHANGED outcome

Close ==
    /\ ~closed
    /\ closed' = TRUE
    /\ UNCHANGED <<pages, stage, answer, outcome>>

Next ==
    \/ \E l \in Loads :
          \/ Load(l) \/ Fail(l) \/ Finish(l) \/ Ask(l) \/ HandOn(l) \/ Drop(l)
          \/ \E word \in {"continue", "cancel"} : Answer(l, word)
    \/ Close

Spec == Init /\ [][Next]_vars

=============================================================================
