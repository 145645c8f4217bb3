---------------------------- MODULE MCRoomScan ----------------------------
(* Instances of RoomScan for TLC. *)
EXTENDS RoomScan

\* The commands an exploration needs: it starts, it is stopped, it starts again.
StartStop == {"explore_start", "explore_stop"}

\* Every mission command that touches the explorer's state.
AllCommands == StartStop \cup
    {"patrol_stop", "stop", "go_home", "inspect", "analyze", "explore_map_reset"}

\* Openings are seen straight ahead of heading 1 only.
AheadOfOne == {StepUnits}
=============================================================================
