---------------------------- MODULE LabelPrompt ----------------------------
(***************************************************************************)
(* What the explorer promises to those who talk to it: a label is asked    *)
(* for once the ceiling question of a room is answered, a text is taken    *)
(* for it only while exploring, and only the end or a new start of the     *)
(* exploration withdraws a question.  A mission that merely replaces the   *)
(* exploration leaves the question standing.                               *)
(*                                                                         *)
(* RoomScan implements this; AdminLink puts it opposite the LLM node.      *)
(***************************************************************************)

VARIABLES
    exploring,      \* state = EXPLORING
    label,          \* room_scan_awaiting_label
    ceiling,        \* room_scan_awaiting_ceiling
    alive           \* the node's spin has not been ended by an exception

prompt == <<exploring, label, ceiling, alive>>

Init ==
    /\ exploring = FALSE /\ label = FALSE /\ ceiling = FALSE
    /\ alive = TRUE

\* start_explore, start_room_scan_explore
Start ==
    /\ exploring' = TRUE
    /\ label' = FALSE /\ ceiling' = FALSE
    /\ UNCHANGED alive

\* stop_exploring
End ==
    /\ exploring' = FALSE
    /\ label' = FALSE /\ ceiling' = FALSE
    /\ UNCHANGED alive

\* stop_patrolling, and every other mission
Suspend ==
    /\ exploring' = FALSE
    /\ UNCHANGED <<label, ceiling, alive>>

\* room_scan_request_ceiling_analysis
AskCeiling ==
    /\ exploring /\ ~label /\ ~ceiling
    /\ ceiling' = TRUE
    /\ UNCHANGED <<exploring, label, alive>>

\* on_vlm_observation: whatever the mission
CeilingAnswered ==
    /\ ceiling
    /\ ceiling' = FALSE /\ label' = TRUE
    /\ UNCHANGED <<exploring, alive>>

\* on_room_scan_label
LabelGiven ==
    /\ exploring /\ label
    /\ label' = FALSE
    /\ UNCHANGED <<exploring, ceiling, alive>>

\* An answer for a room that was deleted meanwhile ends the node.
Die ==
    /\ ~exploring /\ ceiling
    /\ ceiling' = FALSE /\ alive' = FALSE
    /\ UNCHANGED <<exploring, label>>

Next ==
    /\ alive
    /\ Start \/ End \/ Suspend \/ AskCeiling \/ CeilingAnswered \/ LabelGiven \/ Die

Spec == Init /\ [][Next]_prompt
=============================================================================
