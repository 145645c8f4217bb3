--------------------------- MODULE MCPatrolDrive ---------------------------
(* Instances of PatrolDrive for TLC. *)
EXTENDS PatrolDrive

\* Teaching routes and going there; a room scan that was stopped for it has left its questions
\* behind.
TeachCommands == {"move", "remember_start", "remember_save", "inspect", "location_delete", "patrol_stop",
                  "explore_start", "analyze", "go_home", "follow_person"}
TeachMoves == {"move_forward"}

\* Exploring for names and going to a named pose, replaced by other missions.
RoamCommands == {"explore_start", "explore_stop", "stop", "inspect", "patrol_start"}
RoamMoves == {"move_forward"}
AllSensors == {"vision", "odom", "depth"}
=============================================================================
