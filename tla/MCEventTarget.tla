---------------------------- MODULE MCEventTarget ----------------------------
(* EventTarget on a small instance: one script element, in the document or *)
(* taken out of it. *)
EXTENDS EventTarget, TLC

CONSTANT e1

MCPaths == {<<e1, Document>>, <<e1>>}

(* The window sees "DOMContentLoaded" on the way down and on the way up, and
   "unload" as its target. *)
MCSlots == {<<Window, "DOMContentLoaded">>, <<Window, "unload">>}

MCWindowSlot == {<<Window, "DOMContentLoaded">>}

(* Addresses are interchangeable. *)
Symmetry == Permutations(Natives)

=============================================================================
