----------------------------- MODULE HttpRequest -----------------------------
(***************************************************************************)
(* What BkPerformRequest promises the client of a request, without thread, *)
(* events, workers or WinINet: a request that could not be started tells   *)
(* its client nothing, one that was started tells it of one end at most,   *)
(* and it tells nothing any more once its thread has let go of it.         *)
(* WinRequest implements this module (WinRequest!Implements).              *)
(***************************************************************************)
EXTENDS Sequences

VARIABLES
    phase,   \* "created", "performing" or "over"
    told     \* the final notifications the client got

vars == <<phase, told>>

Init ==
    /\ phase = "created"
    /\ told = <<>>

Perform ==
    /\ phase = "created"
    /\ phase' = "performing"
    /\ UNCHANGED told

(* BkPerformRequest returns an error. *)
Refuse ==
    /\ phase = "created"
    /\ phase' = "over"
    /\ UNCHANGED told

Tell(end) ==
    /\ phase = "performing"
    /\ told = <<>>
    /\ told' = <<end>>
    /\ UNCHANGED phase

(* With nothing told when the client refused a redirection. *)
Finish ==
    /\ phase = "performing"
    /\ phase' = "over"
    /\ UNCHANGED told

Next ==
    \/ Perform \/ Refuse \/ Finish
    \/ \E end \in {"complete", "failed"} : Tell(end)

Spec == Init /\ [][Next]_vars

=============================================================================
