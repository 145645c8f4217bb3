---------------------------- MODULE MCAdminLink ----------------------------
(* Instances of AdminLink for TLC. *)
EXTENDS AdminLink

\* What starts, ends and replaces an exploration, the bare stop, and a room's name.
AllKinds == {"explore_start", "explore_stop", "stop", "go_home", "name"}
=============================================================================
