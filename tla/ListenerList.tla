----------------------------- MODULE ListenerList -----------------------------
(***************************************************************************)
(* What an event target promises about its listeners.  A dispatch at a     *)
(* target calls those that are registered when it begins and match the     *)
(* phase, in the order of their registration; one that is removed before   *)
(* its turn is not called, one that is added meanwhile is not either.      *)
(***************************************************************************)
EXTENDS SequencesExt

CONSTANTS
    Slots,      \* an event target and an event type
    Natives,    \* the listeners
    None

VARIABLES
    registered, \* of each slot, its listeners in order, each with its phase
    place,      \* the slot whose listeners are being called, or None
    due,        \* what of it is still to be called
    running     \* the listener being called, or None

vars == <<registered, place, due, running>>

Entry == [listener : Natives, capture : BOOLEAN]

Matches(e, phase) ==
    \/ phase = "target"
    \/ phase = "capturing" /\ e.capture
    \/ phase = "bubbling" /\ ~e.capture

Init ==
    /\ registered = [s \in Slots |-> <<>>]
    /\ place = None
    /\ due = {}
    /\ running = None

Register(s, e) ==
    /\ e.listener # running
    /\ \A t \in Slots : \A i \in 1..Len(registered[t]) :
          registered[t][i].listener # e.listener
    /\ registered' = [registered EXCEPT ![s] = Append(@, e)]
    /\ UNCHANGED <<place, due, running>>

Unregister(s, i) ==
    /\ registered' = [registered EXCEPT ![s] = RemoveAt(@, i)]
    /\ due' = IF s = place THEN due \ {registered[s][i]} ELSE due
    /\ UNCHANGED <<place, running>>

(* A document that unloads. *)
UnregisterAll ==
    /\ place = None
    /\ registered' = [s \in Slots |-> <<>>]
    /\ UNCHANGED <<place, due, running>>

Begin(s, phase) ==
    /\ place = None /\ running = None
    /\ place' = s
    /\ due' = {registered[s][i] : i \in {j \in 1..Len(registered[s]) :
                                           Matches(registered[s][j], phase)}}
    /\ UNCHANGED <<registered, running>>

(* The first in the list of those that are due. *)
Call(s, i) ==
    /\ place = s /\ running = None
    /\ registered[s][i] \in due
    /\ \A j \in 1..(i - 1) : registered[s][j] \notin due
    /\ running' = registered[s][i].listener
    /\ due' = due \ {registered[s][i]}
    /\ UNCHANGED <<registered, place>>

Return ==
    /\ running # None
    /\ running' = None
    /\ UNCHANGED <<registered, place, due>>

(* All that were due have been called. *)
End ==
    /\ place # None /\ running = None /\ due = {}
    /\ place' = None
    /\ UNCHANGED <<registered, due, running>>

Next ==
    \/ \E s \in Slots, e \in Entry : Register(s, e)
    \/ \E s \in Slots : \E i \in 1..Len(registered[s]) : Unregister(s, i) \/ Call(s, i)
    \/ UnregisterAll
    \/ \E s \in Slots, phase \in {"capturing", "target", "bubbling"} : Begin(s, phase)
    \/ Return
    \/ End

Spec == Init /\ [][Next]_vars

=============================================================================
