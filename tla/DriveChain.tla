----------------------------- MODULE DriveChain -----------------------------
(***************************************************************************)
(* From camera to wheels: the navigation nodes read the mission off the    *)
(* patrol node's status and turn frames into orders and obstacle reports,  *)
(* the patrol node's drive_loop turns orders and reports into /cmd_vel,    *)
(* the hardware node turns /cmd_vel into motion.                           *)
(*                                                                         *)
(* Time passes in the periods of drive_loop, as in PatrolDrive.  A message *)
(* takes no time compared with a period, and timers run in the period they *)
(* are due in.  Cameras are free: frames, faulty frames and the lack of    *)
(* frames that the nodes' watchdogs notice may come at any moment.  A      *)
(* navigation node that has ended is one that says nothing more.           *)
(*                                                                         *)
(* Ghosts: `basis` is the age of the frame the motors' command goes back   *)
(* to; `warned` says for how long the last word of the node that watches   *)
(* the way has been that there is an obstacle, since the mission began;    *)
(* `faced` that the last frame the driver drove by showed one.             *)
(***************************************************************************)
EXTENDS Avoidance, Motors

CONSTANTS
    Missions,       \* the missions that are commanded
    Heartbeat,      \* heartbeat_seconds, in periods of drive_loop
    VisionTimeout   \* vision_command_timeout_seconds

VARIABLES
    driver,         \* the node that drives a patrol, by configuration
    patrolUp,       \* the patrol node runs
    mission,        \* its state; "stopped" is STOPPED, where every mission ends
    beat,           \* how long ago it last published its status
    told,           \* the mission in that status: `mode` of the navigation nodes
    vision,         \* the age of last_vision_cmd; `order` is the command itself
    obstacle,       \* what is_obstacle_now reads in last_vision_status
    due,            \* drive_loop's timer has run out
    basis, warned, faced    \* ghosts

patrol == <<patrolUp, mission, beat, told, due>>
seen == <<order, vision, obstacle>>
vars == <<driver, patrol, seen, episode, hardware, basis, warned, faced>>

ASSUME MissionsAssumption == Missions \subseteq {"patrolling", "following_person", "pose_goal", "inspecting"}
ASSUME ChainAssumption == Heartbeat \in Nat \ {0} /\ VisionTimeout \in Nat

Twists == {"still", "turn", "forward"}
ByVision == {"turn", "forward"}
LongestBasis == VisionTimeout + CommandTimeout + 1
LongestWarning == Heartbeat + VisionTimeout + 1

TypeOK ==
    /\ driver \in {"depth", "vision"}
    /\ patrolUp \in BOOLEAN /\ {mission, told} \subseteq Missions \cup {"stopped"}
    /\ beat \in 0..Heartbeat /\ due \in BOOLEAN
    /\ order \in Twists /\ vision \in Ages(VisionTimeout + 1) /\ obstacle \in BOOLEAN
    /\ EpisodeTypeOK /\ HardwareTypeOK
    /\ motors \in Twists \cup {"steer", "cruise"}
    /\ basis \in Ages(LongestBasis + 1) /\ warned \in Ages(LongestWarning + 1) /\ faced \in BOOLEAN

\* robot.yaml lets the depth node drive; by the defaults of the code vision_nav_node does,
\* and depth_nav_node is disabled.
Init ==
    /\ driver \in {"depth", "vision"}
    /\ patrolUp = TRUE /\ mission = "stopped" /\ beat = 0 /\ told = "stopped" /\ due = FALSE
    /\ order = "still" /\ vision = Never /\ obstacle = FALSE
    /\ EpisodeInit /\ HardwareInit
    /\ basis = Never /\ warned = Never /\ faced = FALSE

----------------------------------------------------------------------------
(* The navigation nodes.                                                   *)

\* A twist on /ccai/vision_cmd_vel, for on_vision_cmd_vel; a dead node keeps nothing.
OnVisionCmdVel == vision' = IF patrolUp THEN 0 ELSE vision

\* A report on /ccai/vision_status, for on_vision_status and is_obstacle_now.
OnVisionStatus(blocked) == obstacle' = (patrolUp /\ blocked)

LastWord(blocked) == warned' = IF ~blocked THEN Never ELSE IF warned = Never THEN 0 ELSE warned

\* What the driver does with a frame while it drives.
DriveByFrame(blocked) ==
    /\ IF blocked THEN Sighted ELSE Cleared
    /\ OnVisionCmdVel
    /\ LastWord(blocked) /\ faced' = blocked

OnDepthImage(blocked) ==
    /\ driver = "depth"
    /\ OnVisionStatus(blocked)
    /\ \/ told = "patrolling" /\ DriveByFrame(blocked)
       \/ told # "patrolling" /\ LastWord(blocked) /\ UNCHANGED <<order, vision, episode, faced>>
    /\ UNCHANGED <<driver, patrol, hardware, basis>>

\* A zero order and a status, whoever publishes them.
StopOrder == order' = "still" /\ OnVisionCmdVel /\ OnVisionStatus(FALSE)

\* depth_nav_node's watchdog: its frames have stopped.
DepthWatchdog ==
    /\ driver = "depth" /\ told \in {"patrolling", "pose_goal"}
    /\ StopOrder
    /\ warned' = Never
    /\ UNCHANGED <<driver, patrol, episode, hardware, basis, faced>>

VisionDrives == driver = "vision" /\ told = "patrolling"

\* vision_nav_node's on_image with a valid frame: it drives, it follows, or it only looks.
OnImage(blocked) ==
    /\ \/ /\ VisionDrives
          /\ DriveByFrame(blocked)
          /\ OnVisionStatus(FALSE)
       \/ /\ told = "following_person"
          /\ order' \in Twists
          /\ OnVisionCmdVel /\ OnVisionStatus(FALSE)
          /\ UNCHANGED <<episode, warned, faced>>
    /\ UNCHANGED <<driver, patrol, hardware, basis>>

\* The same with an invalid frame, whatever the mission.
OnInvalidImage ==
    /\ StopOrder
    /\ UNCHANGED <<driver, patrol, episode, hardware, basis, warned, faced>>

\* vision_nav_node's watchdog.
VisionWatchdog ==
    /\ VisionDrives \/ told = "following_person"
    /\ StopOrder
    /\ UNCHANGED <<driver, patrol, episode, hardware, basis, warned, faced>>

\* Either node ends, with a zero order.
NavigationEnds ==
    /\ order' = "still" /\ OnVisionCmdVel
    /\ UNCHANGED <<driver, patrol, obstacle, episode, hardware, basis, warned, faced>>

----------------------------------------------------------------------------
(* patrol_node.                                                            *)

\* twist on /cmd_vel, going back to a frame that is `age` old.
Publish(twist, age) ==
    /\ OnCmdVel(twist)
    /\ basis' = IF hw # "up" THEN basis ELSE IF twist \in ByVision THEN age ELSE Never

StopMotion == Publish("still", Never)

SetState(new) ==
    /\ mission' = new
    /\ warned' = IF new = mission THEN warned ELSE Never

\* A new mission is begun without a command to the motors, an inspection (start_inspect) as
\* well, where the robot is to stand; a stop orders them still.
OnMissionCommand ==
    /\ patrolUp
    /\ \/ \E new \in Missions : SetState(new) /\ UNCHANGED <<hardware, basis>>
       \/ SetState("stopped") /\ StopMotion
    /\ UNCHANGED <<driver, patrolUp, beat, told, due, seen, episode, faced>>

PublishStatus ==
    /\ patrolUp
    /\ told' = mission /\ beat' = 0
    /\ UNCHANGED <<driver, patrolUp, mission, due, seen, episode, hardware, basis, warned, faced>>

MutVisionGated == mission # "pose_goal"
VisionGated == mission \in {"patrolling", "following_person"}

MutUseRecentVisionCmd == vision # Never
UseRecentVisionCmd == vision # Never /\ vision <= VisionTimeout

DriveByVision == VisionGated /\ UseRecentVisionCmd /\ Publish(order, vision)

\* Vision has contributed and went stale.
StopWithoutVision == VisionGated /\ ~UseRecentVisionCmd /\ vision # Never /\ StopMotion

\* Without any vision command so far a patrol follows its pattern, and following stands.
DriveWithoutVision ==
    /\ VisionGated /\ vision = Never
    /\ Publish(IF mission = "patrolling" THEN "cruise" ELSE "still", Never)

\* compute_pose_goal_twist steers or, on arrival, timeout or lost odometry, ends the mission.
DriveToPose ==
    /\ mission = "pose_goal"
    /\ \/ obstacle /\ StopMotion /\ UNCHANGED <<mission, warned>>
       \/ ~obstacle /\ Publish("steer", Never) /\ UNCHANGED <<mission, warned>>
       \/ ~obstacle /\ SetState("stopped") /\ StopMotion

Standing == mission \in {"stopped", "inspecting"}

MutStandStill == Standing /\ UNCHANGED <<hardware, basis>>
\* safe_stop_on_idle, and the branch of an inspection, which leaves the twist at zero.
StandStill == Standing /\ StopMotion

DriveLoop ==
    /\ patrolUp /\ due /\ due' = FALSE
    /\ \/ DriveByVision /\ UNCHANGED <<mission, warned>>
       \/ StopWithoutVision /\ UNCHANGED <<mission, warned>>
       \/ DriveWithoutVision /\ UNCHANGED <<mission, warned>>
       \/ DriveToPose
       \/ StandStill /\ UNCHANGED <<mission, warned>>
    /\ UNCHANGED <<driver, patrolUp, beat, told, seen, episode, faced>>

\* The node ends, with a zero command or, killed, without.  Nobody starts it again.
PatrolEnds ==
    /\ patrolUp /\ patrolUp' = FALSE
    /\ mission' = "stopped" /\ beat' = 0 /\ due' = FALSE
    /\ order' = "still" /\ vision' = Never /\ obstacle' = FALSE /\ warned' = Never
    /\ StopMotion \/ UNCHANGED <<hardware, basis>>
    /\ UNCHANGED <<driver, told, episode, faced>>

----------------------------------------------------------------------------
(* The hardware node, and time.                                            *)

Hardware ==
    /\ \/ HardwareWatchdog /\ basis' = IF hw = "up" THEN Never ELSE basis
       \/ HardwareEnds /\ basis' = IF motors' = "still" THEN Never ELSE basis
       \/ Respawn /\ UNCHANGED basis
    /\ UNCHANGED <<driver, patrol, seen, episode, warned, faced>>

Pass ==
    /\ patrolUp => ~due /\ beat < Heartbeat
    /\ HardwareInTime
    /\ due' = patrolUp
    /\ beat' = IF patrolUp THEN beat + 1 ELSE beat
    /\ vision' = Older(vision, VisionTimeout + 1)
    /\ EpisodeAges /\ HardwareAges
    /\ basis' = Older(basis, LongestBasis + 1)
    /\ warned' = Older(warned, LongestWarning + 1)
    /\ UNCHANGED <<driver, patrolUp, mission, told, order, obstacle, faced>>

Next ==
    \/ \E blocked \in BOOLEAN : OnDepthImage(blocked) \/ OnImage(blocked)
    \/ DepthWatchdog \/ OnInvalidImage \/ VisionWatchdog \/ NavigationEnds
    \/ OnMissionCommand \/ PublishStatus \/ DriveLoop \/ PatrolEnds
    \/ Hardware
    \/ Pass

Spec == Init /\ [][Next]_vars

----------------------------------------------------------------------------
(* Safety.                                                                 *)

\* The motors turn on a lease: without a command for longer than the watchdog allows they
\* stand, unless the node or its bus failed with the motors turning.
MotorsLeased ==
    motors # "still" =>
        \/ command \in 0..(CommandTimeout + 1)
        \/ gone # Never

\* Motors that a failed hardware node left turning are back under command, or still, as soon
\* as the launcher and one period of drive_loop allow.
NobodysMotion ==
    motors # "still" /\ command = Never /\ hw = "up" /\ patrolUp => gone <= RespawnDelay + 1

\* What moves the robot by sight goes back to a recent frame, through both timeouts.
SeesWhereItGoes ==
    hw = "up" /\ command # Never /\ motors \in ByVision => basis \in 0..LongestBasis

\* A robot that is told to stop stands, whatever the cameras go on ordering and whichever node
\* failed.
StopReachesMotors ==
    patrolUp /\ mission = "stopped" /\ hw = "up" /\ command # Never => motors = "still"

\* A patrol does not drive on against an obstacle that its driver keeps reporting, once the
\* driver has had the time to be told of the patrol and the last old order has expired.
PatrolYields ==
    /\ patrolUp /\ mission = "patrolling"
    /\ hw = "up" /\ command # Never
    /\ warned > LongestWarning
    => motors # "forward"

----------------------------------------------------------------------------
(* What comments promise and the code does not do.                         *)

\* "so one noisy 'clear' frame can't let the robot lurch forward into something that's still
\* there" (vision_nav_node.py:448): after a frame with an obstacle, the first clear one does not
\* order the robot forward.
LurchesNot == [][faced /\ ~faced' => order' # "forward"]_vars

\* "it's sensor-only here, so a simple stop is the safety response" (patrol_node.py:1680): on
\* the way to a pose the robot stands while the depth node's last word is an obstacle.
PoseGoalStops ==
    patrolUp /\ mission = "pose_goal" /\ hw = "up" /\ warned > 1 => motors # "steer"
=============================================================================
