---------------------------- MODULE MCDriveChain ----------------------------
(* DriveChain for TLC.                                                     *)
EXTENDS DriveChain

AllMissions == {"patrolling", "following_person", "pose_goal", "inspecting"}
=============================================================================
