----------------------------- MODULE SessionSlot -----------------------------
(***************************************************************************)
(* What a session promises about its turns, "at most 1 running task at a   *)
(* time" (core/src/codex.rs:514): one slot, turns enter it one after the   *)
(* other, and a turn that has left never comes back.                       *)
(***************************************************************************)
EXTENDS Integers

VARIABLES
    slot,       \* the running turn, 0 if there is none
    begun       \* how many turns have begun

Free == 0

Init == slot = Free /\ begun = 0

Begin == slot = Free /\ begun' = begun + 1 /\ slot' = begun + 1

End == slot # Free /\ slot' = Free /\ UNCHANGED begun

Next == Begin \/ End

Spec == Init /\ [][Next]_<<slot, begun>>
=============================================================================
