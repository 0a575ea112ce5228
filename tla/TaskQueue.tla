------------------------------ MODULE TaskQueue ------------------------------
(***************************************************************************)
(* What BlinKit's main loop promises to the code that posts to it, without *)
(* mutex, condition variable, delay threads or exit code: tasks start at   *)
(* most once, one at a time, in the order the loop accepted them, and once *)
(* the loop has closed nothing starts any more and what is left is         *)
(* dropped.  TaskLoop implements this module (TaskLoop!Implements).        *)
(***************************************************************************)
EXTENDS Sequences, Functions

CONSTANT Tasks

VARIABLES
    pending,   \* accepted and not started, oldest first
    started,   \* every task that started, in the order they did
    phase      \* "open" or "closed"

vars == <<pending, started, phase>>

Init ==
    /\ pending = <<>>
    /\ started = <<>>
    /\ phase = "open"

(* The loop accepts a task it has not seen before. *)
Submit(t) ==
    /\ phase = "open"
    /\ t \notin Range(pending) \cup Range(started)
    /\ pending' = Append(pending, t)
    /\ UNCHANGED <<started, phase>>

(* The oldest accepted task starts. *)
Start ==
    /\ phase = "open"
    /\ pending # <<>>
    /\ started' = Append(started, Head(pending))
    /\ pending' = Tail(pending)
    /\ UNCHANGED phase

(* The loop stops for good; what it had accepted is dropped. *)
Close ==
    /\ phase = "open"
    /\ phase' = "closed"
    /\ pending' = <<>>
    /\ UNCHANGED started

Next == Start \/ Close \/ \E t \in Tasks : Submit(t)

Spec == Init /\ [][Next]_vars

=============================================================================
