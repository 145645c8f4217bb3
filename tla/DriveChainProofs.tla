-------------------------- MODULE DriveChainProofs --------------------------
(***************************************************************************)
(* Types, the leases on the motors and the freshness of what moves the     *)
(* robot, for every length of the timeouts and of the avoidance.           *)
(***************************************************************************)
EXTENDS DriveChain, TLAPS

(***************************************************************************)
(* The strengthening.                                                      *)
(***************************************************************************)

\* The hardware node: its watchdog is in time, and while it is down its motors are nobody's.
Watched ==
    /\ command <= CommandTimeout + 1
    /\ hw = "down" => command = Never /\ gone \in 0..RespawnDelay
    /\ hw = "null" => gone # Never
    /\ motors # "still" => command # Never \/ gone # Never

\* Motors left turning have waited for one run of drive_loop at most since the node is back.
Adrift ==
    motors # "still" /\ command = Never /\ hw = "up" /\ patrolUp
        => gone <= RespawnDelay + (IF due THEN 1 ELSE 0)

\* The frame behind the motors' command was fresh when the command was given.
FreshBasis ==
    hw = "up" /\ command # Never /\ motors \in ByVision
        => basis >= 0 /\ basis <= VisionTimeout + command

Reporting == patrolUp /\ mission = "patrolling" /\ warned # Never

\* The driver is told of the patrol within a heartbeat;
Informed == Reporting /\ told # "patrolling" => warned <= beat

\* whatever still orders the robot forward did so before;
OldOrder ==
    Reporting /\ order = "forward" /\ vision \in 0..VisionTimeout => warned <= vision + Heartbeat

\* and drive_loop obeys it no longer than the timeout.
OldCommand ==
    Reporting /\ motors = "forward" /\ hw = "up" /\ command # Never
        => warned <= Heartbeat + VisionTimeout + (IF due THEN 1 ELSE 0)

Inductive ==
    /\ TypeOK /\ Watched /\ Adrift /\ FreshBasis /\ StopReachesMotors
    /\ Informed /\ OldOrder /\ OldCommand

(***************************************************************************)
(* Lemmas on the constants and on clocks.                                  *)
(***************************************************************************)
LEMMA Numbers ==
    /\ HoldTime \in Nat /\ MaxAvoidance \in Nat /\ ConfirmFrames \in Nat /\ ConfirmFrames > 0
    /\ CommandTimeout \in Nat /\ RespawnDelay \in Nat
    /\ Heartbeat \in Nat /\ Heartbeat > 0 /\ VisionTimeout \in Nat
    /\ LongestBasis \in Nat /\ LongestWarning \in Nat
BY EpisodeAssumption, HardwareAssumption, ChainAssumption DEF LongestBasis, LongestWarning

\* A clock keeps its type and advances by one at most; one that runs is not reset.
LEMMA ClockStep ==
    ASSUME NEW most \in Nat, NEW age \in Ages(most)
    PROVE  /\ Older(age, most) \in Ages(most)
           /\ Older(age, most) <= age + 1 /\ Older(age, most) >= age
           /\ age < most /\ age # Never => Older(age, most) = age + 1
           /\ Older(age, most) = Never <=> age = Never
           /\ age = most => Older(age, most) = most
BY DEF Ages, Older, Never

\* The clock of something that has happened.
LEMMA RunningClock ==
    ASSUME NEW most \in Nat, NEW age \in 0..most
    PROVE  Older(age, most) \in 0..most
BY DEF Older

(***************************************************************************)
(* The navigation nodes.                                                   *)
(***************************************************************************)

LEMMA Ended ==
    ASSUME NoEpisode
    PROVE  EpisodeTypeOK'
<1>1. quiet' \in 0..HoldTime /\ turning' \in 0..(MaxAvoidance + 1) /\ streak' \in 0..(ConfirmFrames - 1)
  BY Numbers DEF NoEpisode
<1>2. avoiding' \in BOOLEAN
  BY DEF NoEpisode
<1> QED
  BY <1>1, <1>2 DEF EpisodeTypeOK

\* A frame with an obstacle never orders the robot forward.
LEMMA SightedStep ==
    ASSUME TypeOK, Sighted
    PROVE  EpisodeTypeOK' /\ order' \in Twists /\ order' # "forward"
<1>1. CASE TurnAway
  <2>1. turning \in 0..(MaxAvoidance + 1) /\ 0 \in 0..(MaxAvoidance + 1)
    BY Numbers DEF TypeOK, EpisodeTypeOK
  <2>2. turning' \in 0..(MaxAvoidance + 1)
    BY <1>1, <2>1 DEF TurnAway
  <2>3. quiet' \in 0..HoldTime /\ streak' \in 0..(ConfirmFrames - 1)
    BY <1>1, Numbers DEF TurnAway
  <2>4. avoiding' \in BOOLEAN /\ order' \in Pulse
    BY <1>1 DEF TurnAway
  <2> QED
    BY <2>2, <2>3, <2>4 DEF EpisodeTypeOK, Pulse, Twists
<1>2. CASE GiveUp
  BY <1>2, Ended DEF GiveUp, Twists
<1> QED
  BY <1>1, <1>2 DEF Sighted

LEMMA ClearedStep ==
    ASSUME TypeOK, Cleared
    PROVE  EpisodeTypeOK' /\ order' \in Twists
<1>1. CASE StillConfirming
  <2>1. streak \in 0..(ConfirmFrames - 1) /\ streak' = IF streak + 1 < ConfirmFrames THEN streak + 1 ELSE streak
    BY <1>1 DEF TypeOK, EpisodeTypeOK, StillConfirming
  <2>2. streak' \in 0..(ConfirmFrames - 1)
    BY <2>1, Numbers
  <2>3. order' \in Pulse /\ UNCHANGED <<avoiding, quiet, turning>>
    BY <1>1 DEF StillConfirming
  <2> QED
    BY <2>2, <2>3 DEF TypeOK, EpisodeTypeOK, Pulse, Twists
<1>2. CASE DriveOn
  BY <1>2, Ended DEF DriveOn, Twists
<1> QED
  BY <1>1, <1>2 DEF Cleared

LEMMA OrderStep ==
    ASSUME TypeOK, OnVisionCmdVel
    PROVE  vision' \in Ages(VisionTimeout + 1) /\ (patrolUp => vision' = 0)
BY Numbers DEF TypeOK, OnVisionCmdVel, Ages

LEMMA ReportStep ==
    ASSUME TypeOK, NEW blocked \in BOOLEAN, LastWord(blocked)
    PROVE  /\ warned' \in Ages(LongestWarning + 1)
           /\ warned' \in {Never, 0, warned}
           /\ ~blocked => warned' = Never
BY Numbers DEF TypeOK, LastWord, Ages, Never

\* What a step of a navigation node may change: whatever orders the robot forward clears the
\* last word about obstacles, or was not told of a patrol.
Ordered ==
    /\ EpisodeTypeOK' /\ order' \in Twists /\ vision' \in Ages(VisionTimeout + 1)
    /\ obstacle' \in BOOLEAN /\ warned' \in Ages(LongestWarning + 1) /\ faced' \in BOOLEAN
    /\ warned' \in {Never, 0, warned}
    /\ \/ UNCHANGED <<order, vision>>
       \/ patrolUp /\ order' = "forward" => warned' = Never \/ (told # "patrolling" /\ vision' = 0)
    /\ UNCHANGED <<driver, patrol, hardware, basis>>

LEMMA DrivenFrame ==
    ASSUME TypeOK, NEW blocked \in BOOLEAN, DriveByFrame(blocked)
    PROVE  /\ EpisodeTypeOK' /\ order' \in Twists /\ vision' \in Ages(VisionTimeout + 1)
           /\ warned' \in Ages(LongestWarning + 1) /\ warned' \in {Never, 0, warned}
           /\ faced' \in BOOLEAN
           /\ order' = "forward" => warned' = Never
<1>1. EpisodeTypeOK' /\ order' \in Twists /\ (blocked => order' # "forward")
  <2>1. CASE blocked
    BY <2>1, SightedStep DEF DriveByFrame
  <2>2. CASE ~blocked
    BY <2>2, ClearedStep DEF DriveByFrame
  <2> QED
    BY <2>1, <2>2
<1>2. OnVisionCmdVel /\ LastWord(blocked) /\ faced' = blocked
  BY DEF DriveByFrame
<1> QED
  BY <1>1, <1>2, OrderStep, ReportStep

LEMMA DepthSees ==
    ASSUME TypeOK, NEW blocked \in BOOLEAN, OnDepthImage(blocked)
    PROVE  Ordered
<1>1. obstacle' \in BOOLEAN /\ UNCHANGED <<driver, patrol, hardware, basis>>
  BY DEF OnDepthImage, OnVisionStatus
<1>2. CASE told = "patrolling" /\ DriveByFrame(blocked)
  BY <1>1, <1>2, DrivenFrame DEF Ordered
<1>3. CASE told # "patrolling" /\ LastWord(blocked) /\ UNCHANGED <<order, vision, episode, faced>>
  BY <1>1, <1>3, ReportStep DEF Ordered, TypeOK, EpisodeTypeOK, episode
<1> QED
  BY <1>2, <1>3 DEF OnDepthImage

LEMMA VisionSees ==
    ASSUME TypeOK, NEW blocked \in BOOLEAN, OnImage(blocked)
    PROVE  Ordered
<1>1. obstacle' \in BOOLEAN /\ UNCHANGED <<driver, patrol, hardware, basis>>
  BY DEF OnImage, OnVisionStatus, VisionDrives
<1>2. CASE VisionDrives /\ DriveByFrame(blocked)
  BY <1>1, <1>2, DrivenFrame DEF Ordered
<1>3. CASE /\ told = "following_person" /\ order' \in Twists /\ OnVisionCmdVel
           /\ UNCHANGED <<episode, warned, faced>>
  <2>1. vision' \in Ages(VisionTimeout + 1) /\ (patrolUp => vision' = 0)
    BY <1>3, OrderStep
  <2>2. EpisodeTypeOK' /\ warned' \in Ages(LongestWarning + 1) /\ faced' \in BOOLEAN
    BY <1>3 DEF TypeOK, EpisodeTypeOK, episode
  <2> QED
    BY <1>1, <1>3, <2>1, <2>2 DEF Ordered
<1> QED
  BY <1>2, <1>3 DEF OnImage

LEMMA StopOrdered ==
    ASSUME TypeOK, DepthWatchdog \/ OnInvalidImage \/ VisionWatchdog \/ NavigationEnds
    PROVE  Ordered
<1>1. order' = "still" /\ OnVisionCmdVel /\ obstacle' \in BOOLEAN
  BY DEF DepthWatchdog, OnInvalidImage, VisionWatchdog, NavigationEnds, StopOrder, OnVisionStatus, TypeOK
<1>2. UNCHANGED <<driver, patrol, episode, hardware, basis, faced>> /\ warned' \in {Never, warned}
  BY DEF DepthWatchdog, OnInvalidImage, VisionWatchdog, NavigationEnds
<1>3. vision' \in Ages(VisionTimeout + 1)
  BY <1>1, OrderStep
<1>4. EpisodeTypeOK' /\ warned' \in Ages(LongestWarning + 1) /\ faced' \in BOOLEAN
  BY <1>2, Numbers DEF TypeOK, EpisodeTypeOK, episode, Ages, Never
<1> QED
  BY <1>1, <1>2, <1>3, <1>4 DEF Ordered, Twists

\* Whatever a navigation node does keeps the invariant.
LEMMA OrderedStep ==
    ASSUME Inductive, Ordered
    PROVE  Inductive'
<1>1. TypeOK'
  BY DEF Inductive, Ordered, TypeOK, HardwareTypeOK, patrol, hardware
<1>2. Watched' /\ Adrift' /\ FreshBasis' /\ StopReachesMotors'
  BY DEF Inductive, Ordered, Watched, Adrift, FreshBasis, StopReachesMotors, patrol, hardware
<1>3. warned \in Int /\ beat \in 0..Heartbeat /\ vision \in Int /\ warned' \in Int
  BY Numbers DEF Inductive, TypeOK, Ordered, Ages, Never
<1>4. Informed'
  BY <1>3 DEF Inductive, Ordered, Informed, Reporting, patrol, Never
<1>5. OldOrder'
  <2> SUFFICES ASSUME Reporting', order' = "forward", vision' \in 0..VisionTimeout
               PROVE  warned' <= vision' + Heartbeat
    BY DEF OldOrder
  <2>1. /\ patrolUp /\ mission = "patrolling" /\ warned' \in {0, warned} /\ warned' # Never
    BY DEF Reporting, Ordered, patrol
  <2>2. CASE UNCHANGED <<order, vision>>
    BY <1>3, <2>1, <2>2, Numbers DEF Inductive, OldOrder, Reporting
  <2>3. CASE told # "patrolling" /\ vision' = 0
    <3>1. warned' <= beat
      BY <1>3, <2>1, <2>3 DEF Inductive, Informed, Reporting
    <3> QED
      BY <1>3, <2>3, <3>1, Numbers
  <2> QED
    BY <2>1, <2>2, <2>3 DEF Ordered
<1>6. OldCommand'
  BY <1>3, Numbers DEF Inductive, Ordered, OldCommand, Reporting, patrol, hardware, Never
<1> QED
  BY <1>1, <1>2, <1>4, <1>5, <1>6 DEF Inductive

(***************************************************************************)
(* The patrol node.                                                        *)
(***************************************************************************)

\* A command on /cmd_vel keeps the hardware's part of the invariant: whatever was adrift is not.
LEMMA Commanded ==
    ASSUME Inductive, NEW twist \in Twists \cup {"steer", "cruise"}, NEW age \in Int, Publish(twist, age),
           twist \in ByVision => age \in 0..VisionTimeout
    PROVE  /\ HardwareTypeOK' /\ motors' \in Twists \cup {"steer", "cruise"}
           /\ basis' \in Ages(LongestBasis + 1)
           /\ Watched' /\ FreshBasis'
           /\ hw = "up" => motors' = twist /\ command' = 0
           /\ hw' = hw
           /\ hw # "up" => UNCHANGED <<motors, gone>>
<1>1. /\ hw \in {"up", "down", "null"} /\ command \in Ages(CommandTimeout + 2)
      /\ gone \in Ages(RespawnDelay + 2) /\ basis \in Ages(LongestBasis + 1)
      /\ motors \in Twists \cup {"steer", "cruise"} /\ Watched /\ FreshBasis
  BY DEF Inductive, TypeOK, HardwareTypeOK
<1>2. CASE hw = "up"
  <2>1. motors' = twist /\ command' = 0 /\ gone' = Never /\ hw' = hw
        /\ basis' = IF twist \in ByVision THEN age ELSE Never
    BY <1>2 DEF Publish, OnCmdVel
  <2>2. basis' \in Ages(LongestBasis + 1)
    BY <2>1, Numbers DEF Ages, Never, LongestBasis
  <2>3. FreshBasis'
    BY <2>1, Numbers DEF FreshBasis
  <2>4. Watched'
    BY <1>2, <2>1, Numbers DEF Watched, Never
  <2>5. HardwareTypeOK'
    BY <1>2, <2>1, Numbers DEF HardwareTypeOK, Ages, Never
  <2> QED
    BY <1>2, <2>1, <2>2, <2>3, <2>4, <2>5
<1>3. CASE hw # "up"
  <2>1. UNCHANGED <<motors, gone, hw, basis>> /\ command' = IF hw = "down" THEN command ELSE 0
    BY <1>3 DEF Publish, OnCmdVel
  <2>2. command' \in Ages(CommandTimeout + 2)
    BY <1>1, <2>1, Numbers DEF Ages
  <2>3. Watched'
    BY <1>1, <2>1, Numbers DEF Watched, Never
  <2>4. FreshBasis'
    BY <1>3, <2>1 DEF FreshBasis
  <2> QED
    BY <1>1, <1>3, <2>1, <2>2, <2>3, <2>4 DEF HardwareTypeOK
<1> QED
  BY <1>2, <1>3

LEMMA Stopped ==
    ASSUME Inductive, StopMotion
    PROVE  /\ HardwareTypeOK' /\ motors' \in Twists \cup {"steer", "cruise"}
           /\ basis' \in Ages(LongestBasis + 1)
           /\ Watched' /\ FreshBasis'
           /\ hw = "up" => motors' = "still" /\ command' = 0
           /\ hw' = hw
           /\ hw # "up" => UNCHANGED <<motors, gone>>
<1>1. "still" \in Twists \cup {"steer", "cruise"} /\ "still" \notin ByVision /\ Never \in Int
  BY DEF Twists, ByVision, Never
<1> QED
  BY <1>1, Commanded DEF StopMotion

\* A mission command.
LEMMA CommandStep ==
    ASSUME Inductive, OnMissionCommand
    PROVE  Inductive'
<1>1. /\ UNCHANGED <<driver, patrolUp, beat, told, due, order, vision, obstacle, episode, faced>>
      /\ patrolUp
  BY DEF OnMissionCommand, seen
<1>2. /\ mission' \in Missions \cup {"stopped"}
      /\ warned' \in {Never, warned} /\ (mission' # mission => warned' = Never)
      /\ warned' \in Ages(LongestWarning + 1)
  BY Numbers DEF OnMissionCommand, SetState, Inductive, TypeOK, Ages, Never
<1>3. /\ HardwareTypeOK' /\ motors' \in Twists \cup {"steer", "cruise"}
      /\ basis' \in Ages(LongestBasis + 1) /\ Watched' /\ FreshBasis'
      /\ hw' = hw
      /\ \/ mission' # "stopped" /\ UNCHANGED <<hardware, basis>>
         \/ /\ hw = "up" => motors' = "still" /\ command' = 0
            /\ hw # "up" => UNCHANGED <<motors, gone>>
  <2>1. CASE StopMotion
    BY <2>1, Stopped
  <2>2. CASE UNCHANGED <<hardware, basis>> /\ \E new \in Missions : SetState(new)
    BY <2>2, MissionsAssumption DEF Inductive, TypeOK, HardwareTypeOK, Watched, FreshBasis, SetState, hardware
  <2> QED
    BY <2>1, <2>2 DEF OnMissionCommand
<1>4. TypeOK'
  BY <1>1, <1>2, <1>3 DEF Inductive, TypeOK, EpisodeTypeOK, episode
<1>5. Adrift'
  BY <1>1, <1>3, Numbers DEF Inductive, Adrift, hardware, Never
<1>6. StopReachesMotors'
  BY <1>1, <1>3 DEF StopReachesMotors
<1>7. Informed' /\ OldOrder'
  BY <1>1, <1>2 DEF Inductive, Informed, OldOrder, Reporting
<1>8. OldCommand'
  BY <1>1, <1>2, <1>3 DEF Inductive, OldCommand, Reporting, hardware
<1> QED
  BY <1>3, <1>4, <1>5, <1>6, <1>7, <1>8 DEF Inductive

LEMMA StatusStep ==
    ASSUME Inductive, PublishStatus
    PROVE  Inductive'
<1>1. UNCHANGED <<driver, patrolUp, mission, due, order, vision, obstacle, episode, hw, motors, command, gone, basis, warned, faced>>
      /\ told' = mission /\ beat' = 0
  BY DEF PublishStatus, seen, hardware
<1>2. TypeOK'
  BY <1>1, Numbers DEF Inductive, TypeOK, EpisodeTypeOK, HardwareTypeOK, episode
<1>3. Watched' /\ Adrift' /\ FreshBasis' /\ StopReachesMotors' /\ OldOrder' /\ OldCommand'
  BY <1>1 DEF Inductive, Watched, Adrift, FreshBasis, StopReachesMotors, OldOrder, OldCommand, Reporting
<1>4. Informed'
  BY <1>1 DEF Informed, Reporting
<1> QED
  BY <1>2, <1>3, <1>4 DEF Inductive

\* What a run of drive_loop does to the hardware, and by whose order.
Looped ==
    /\ HardwareTypeOK' /\ motors' \in Twists \cup {"steer", "cruise"}
    /\ basis' \in Ages(LongestBasis + 1) /\ Watched' /\ FreshBasis' /\ hw' = hw
    /\ hw = "up" => command' = 0
    /\ hw = "up" /\ motors' = "forward" => order = "forward" /\ vision \in 0..VisionTimeout
    /\ hw = "up" /\ mission' = "stopped" => motors' = "still"
    /\ mission' \in {mission, "stopped"} /\ warned' \in {Never, warned}
    /\ mission' # mission => warned' = Never

LEMMA LoopPublishes ==
    ASSUME Inductive, DriveLoop
    PROVE  Looped
<1>1. CASE DriveByVision /\ UNCHANGED <<mission, warned>>
  <2>1. order \in Twists \cup {"steer", "cruise"} /\ vision \in 0..VisionTimeout /\ mission # "stopped"
    BY <1>1, Numbers DEF Inductive, TypeOK, DriveByVision, UseRecentVisionCmd, VisionGated, Ages, Never
  <2>2. vision \in Int /\ Publish(order, vision)
    BY <1>1, <2>1, Numbers DEF DriveByVision
  <2> QED
    BY <1>1, <2>1, <2>2, Commanded DEF Looped
<1>2. CASE StopMotion /\ mission' \in {mission, "stopped"} /\ warned' \in {Never, warned}
           /\ (mission' # mission => warned' = Never)
  BY <1>2, Stopped DEF Looped
<1>3. ASSUME NEW twist \in {"cruise", "steer"}, Publish(twist, Never),
             UNCHANGED <<mission, warned>>, mission # "stopped"
      PROVE  Looped
  <2>1. Never \in Int /\ twist \in Twists \cup {"steer", "cruise"} /\ twist \notin ByVision
    BY DEF Never, ByVision
  <2> QED
    BY <1>3, <2>1, Commanded DEF Looped
<1>4. CASE StopWithoutVision /\ UNCHANGED <<mission, warned>>
  BY <1>2, <1>4 DEF StopWithoutVision
<1>5. CASE DriveWithoutVision /\ UNCHANGED <<mission, warned>>
  <2>1. mission # "stopped" /\ (Publish("cruise", Never) \/ StopMotion)
    BY <1>5 DEF DriveWithoutVision, VisionGated, StopMotion
  <2> QED
    BY <1>2, <1>3, <1>5, <2>1
<1>6. CASE DriveToPose
  BY <1>2, <1>3, <1>6 DEF DriveToPose, SetState
<1>7. CASE StandStill /\ UNCHANGED <<mission, warned>>
  BY <1>2, <1>7 DEF StandStill, Standing
<1> QED
  BY <1>1, <1>4, <1>5, <1>6, <1>7 DEF DriveLoop

LEMMA LoopStep ==
    ASSUME Inductive, DriveLoop
    PROVE  Inductive'
<1>1. /\ UNCHANGED <<driver, patrolUp, beat, told, order, vision, obstacle, episode, faced>>
      /\ patrolUp /\ due' = FALSE /\ Looped
  BY LoopPublishes DEF DriveLoop, seen
<1>2. warned' \in Ages(LongestWarning + 1) /\ vision \in Int
  BY <1>1, Numbers DEF Inductive, TypeOK, Looped, Ages, Never
<1>3. TypeOK'
  BY <1>1, <1>2 DEF Inductive, TypeOK, EpisodeTypeOK, episode, Looped
<1>4. Adrift' /\ StopReachesMotors'
  BY <1>1 DEF Looped, Adrift, StopReachesMotors, Never
<1>5. Informed' /\ OldOrder'
  BY <1>1 DEF Inductive, Looped, Informed, OldOrder, Reporting
<1>6. OldCommand'
  <2> SUFFICES ASSUME Reporting', motors' = "forward", hw' = "up"
               PROVE  warned' <= Heartbeat + VisionTimeout + 0
    BY <1>1 DEF OldCommand
  <2>1. Reporting /\ warned' = warned /\ order = "forward" /\ vision \in 0..VisionTimeout
    BY <1>1 DEF Looped, Reporting
  <2>2. warned <= vision + Heartbeat
    BY <2>1 DEF Inductive, OldOrder
  <2>3. warned \in Int
    BY Numbers DEF Inductive, TypeOK, Ages
  <2> QED
    BY <2>1, <2>2, <2>3, Numbers
<1> QED
  BY <1>1, <1>3, <1>4, <1>5, <1>6 DEF Inductive, Looped

LEMMA EndStep ==
    ASSUME Inductive, PatrolEnds
    PROVE  Inductive'
<1>1. /\ UNCHANGED <<driver, told, episode, faced>> /\ patrolUp' = FALSE /\ mission' = "stopped"
      /\ beat' = 0 /\ due' = FALSE /\ order' = "still" /\ vision' = Never /\ obstacle' = FALSE
      /\ warned' = Never
  BY DEF PatrolEnds
<1>2. /\ HardwareTypeOK' /\ motors' \in Twists \cup {"steer", "cruise"}
      /\ basis' \in Ages(LongestBasis + 1) /\ Watched' /\ FreshBasis'
  <2>1. CASE StopMotion
    BY <2>1, Stopped
  <2>2. CASE UNCHANGED <<hardware, basis>>
    BY <2>2 DEF Inductive, TypeOK, HardwareTypeOK, Watched, FreshBasis, hardware
  <2> QED
    BY <2>1, <2>2 DEF PatrolEnds
<1>3. TypeOK'
  <2>1. EpisodeTypeOK'
    BY <1>1 DEF Inductive, TypeOK, EpisodeTypeOK, episode
  <2>2. beat' \in 0..Heartbeat /\ vision' \in Ages(VisionTimeout + 1)
        /\ warned' \in Ages(LongestWarning + 1)
    BY <1>1, Numbers DEF Ages, Never
  <2>3. {mission', told'} \subseteq Missions \cup {"stopped"}
    BY <1>1 DEF Inductive, TypeOK
  <2> QED
    BY <1>1, <1>2, <2>1, <2>2, <2>3 DEF Inductive, TypeOK, Twists
<1>4. Adrift' /\ StopReachesMotors' /\ Informed' /\ OldOrder' /\ OldCommand'
  BY <1>1 DEF Adrift, StopReachesMotors, Informed, OldOrder, OldCommand, Reporting
<1> QED
  BY <1>2, <1>3, <1>4 DEF Inductive

(***************************************************************************)
(* The hardware node, and time.                                            *)
(***************************************************************************)
LEMMA HardwareStep ==
    ASSUME Inductive, Hardware
    PROVE  Inductive'
<1>1. UNCHANGED <<driver, patrolUp, mission, beat, told, due, order, vision, obstacle, episode, warned, faced>>
  BY DEF Hardware, patrol, seen
<1>2. /\ hw \in {"up", "down", "null"} /\ command \in Ages(CommandTimeout + 2)
      /\ gone \in Ages(RespawnDelay + 2) /\ basis \in Ages(LongestBasis + 1)
      /\ motors \in Twists \cup {"steer", "cruise"}
  BY DEF Inductive, TypeOK, HardwareTypeOK
<1>a. Watched /\ FreshBasis /\ Adrift /\ StopReachesMotors /\ Informed /\ OldOrder /\ OldCommand
  BY DEF Inductive
<1>3. CASE HardwareWatchdog /\ basis' = IF hw = "up" THEN Never ELSE basis
  <2>1. /\ command' = Never /\ UNCHANGED <<hw, gone>> /\ hw # "down"
        /\ motors' = IF hw = "up" THEN "still" ELSE motors
    BY <1>3 DEF HardwareWatchdog
  <2>2. Watched'
    BY <1>2, <1>a, <2>1, Numbers DEF Watched, Never
  <2>3. FreshBasis' /\ StopReachesMotors' /\ OldCommand'
    BY <2>1 DEF FreshBasis, StopReachesMotors, OldCommand
  <2>4. Adrift'
    BY <2>1 DEF Adrift
  <2>5. HardwareTypeOK' /\ basis' \in Ages(LongestBasis + 1) /\ motors' \in Twists \cup {"steer", "cruise"}
    BY <1>2, <1>3, <2>1, Numbers DEF HardwareTypeOK, Ages, Never, Twists
  <2>6. TypeOK'
    BY <1>1, <2>5 DEF Inductive, TypeOK, EpisodeTypeOK, episode
  <2>7. Informed' /\ OldOrder'
    BY <1>1, <1>a DEF Informed, OldOrder, Reporting
  <2> QED
    BY <2>2, <2>3, <2>4, <2>6, <2>7 DEF Inductive
<1>4. CASE HardwareEnds /\ basis' = IF motors' = "still" THEN Never ELSE basis
  <2>1. hw' = "down" /\ motors' \in {"still", motors} /\ command' = Never /\ gone' = 0
    BY <1>4 DEF HardwareEnds
  <2>2. Watched'
    BY <2>1, Numbers DEF Watched, Never
  <2>3. FreshBasis' /\ StopReachesMotors' /\ OldCommand' /\ Adrift'
    BY <2>1 DEF FreshBasis, StopReachesMotors, OldCommand, Adrift
  <2>5. HardwareTypeOK' /\ basis' \in Ages(LongestBasis + 1) /\ motors' \in Twists \cup {"steer", "cruise"}
    BY <1>2, <1>4, <2>1, Numbers DEF HardwareTypeOK, Ages, Never, Twists
  <2>6. TypeOK'
    BY <1>1, <2>5 DEF Inductive, TypeOK, EpisodeTypeOK, episode
  <2>7. Informed' /\ OldOrder'
    BY <1>1, <1>a DEF Informed, OldOrder, Reporting
  <2> QED
    BY <2>2, <2>3, <2>6, <2>7 DEF Inductive
<1>5. CASE Respawn /\ UNCHANGED basis
  <2>1. hw = "down" /\ hw' \in {"up", "null"} /\ UNCHANGED <<motors, command, gone, basis>>
    BY <1>5 DEF Respawn
  <2>2. command' = Never /\ gone' \in 0..RespawnDelay
    BY <1>a, <2>1 DEF Watched
  <2>3. Watched'
    BY <2>1, <2>2, Numbers DEF Watched, Never
  <2>4. FreshBasis' /\ StopReachesMotors' /\ OldCommand'
    BY <2>2 DEF FreshBasis, StopReachesMotors, OldCommand
  <2>5. Adrift'
    <3>1. gone' <= RespawnDelay + 0 /\ gone' <= RespawnDelay + 1
      BY <2>2, Numbers
    <3> QED
      BY <3>1 DEF Adrift
  <2>6. TypeOK'
    BY <1>1, <1>2, <2>1 DEF Inductive, TypeOK, EpisodeTypeOK, HardwareTypeOK, episode
  <2>7. Informed' /\ OldOrder'
    BY <1>1, <1>a DEF Informed, OldOrder, Reporting
  <2> QED
    BY <2>3, <2>4, <2>5, <2>6, <2>7 DEF Inductive
<1> QED
  BY <1>3, <1>4, <1>5 DEF Hardware

\* The types of the clocks after a period.
LEMMA PassTypes ==
    ASSUME Inductive, Pass
    PROVE  TypeOK'
<1>1. /\ UNCHANGED <<driver, patrolUp, mission, told, order, obstacle, avoiding, streak, hw, motors, faced>>
      /\ due' = patrolUp
  BY DEF Pass, EpisodeAges, HardwareAges
<1>2. beat' \in 0..Heartbeat
  <2>1. beat \in 0..Heartbeat /\ beat' = (IF patrolUp THEN beat + 1 ELSE beat) /\ (patrolUp => beat < Heartbeat)
    BY DEF Inductive, TypeOK, Pass
  <2> QED
    BY <2>1, Numbers
<1>3. vision' \in Ages(VisionTimeout + 1) /\ basis' \in Ages(LongestBasis + 1)
      /\ warned' \in Ages(LongestWarning + 1)
  <2>1. /\ vision \in Ages(VisionTimeout + 1) /\ basis \in Ages(LongestBasis + 1)
        /\ warned \in Ages(LongestWarning + 1)
    BY DEF Inductive, TypeOK
  <2>2. VisionTimeout + 1 \in Nat /\ LongestBasis + 1 \in Nat /\ LongestWarning + 1 \in Nat
    BY Numbers
  <2>3. /\ vision' = Older(vision, VisionTimeout + 1) /\ basis' = Older(basis, LongestBasis + 1)
        /\ warned' = Older(warned, LongestWarning + 1)
    BY DEF Pass
  <2> QED
    BY <2>1, <2>2, <2>3, ClockStep
<1>4. HardwareTypeOK'
  <2>1. command \in Ages(CommandTimeout + 2) /\ gone \in Ages(RespawnDelay + 2) /\ hw \in {"up", "down", "null"}
    BY DEF Inductive, TypeOK, HardwareTypeOK
  <2>2. CommandTimeout + 2 \in Nat /\ RespawnDelay + 2 \in Nat
    BY Numbers
  <2>3. command' = Older(command, CommandTimeout + 2) /\ gone' = Older(gone, RespawnDelay + 2)
    BY DEF Pass, HardwareAges
  <2>4. command' \in Ages(CommandTimeout + 2) /\ gone' \in Ages(RespawnDelay + 2)
    BY <2>1, <2>2, <2>3, ClockStep
  <2> QED
    BY <1>1, <2>1, <2>4 DEF HardwareTypeOK
<1>5. EpisodeTypeOK'
  <2>1. quiet \in 0..HoldTime /\ turning \in 0..(MaxAvoidance + 1)
    BY DEF Inductive, TypeOK, EpisodeTypeOK
  <2>2. MaxAvoidance + 1 \in Nat /\ HoldTime \in Nat
    BY Numbers
  <2>3. Older(quiet, HoldTime) \in 0..HoldTime /\ Older(turning, MaxAvoidance + 1) \in 0..(MaxAvoidance + 1)
    BY <2>1, <2>2, RunningClock
  <2>4. quiet' \in {quiet, Older(quiet, HoldTime)} /\ turning' \in {turning, Older(turning, MaxAvoidance + 1)}
    BY DEF Pass, EpisodeAges
  <2>5. quiet' \in 0..HoldTime /\ turning' \in 0..(MaxAvoidance + 1)
    BY <2>1, <2>3, <2>4
  <2> QED
    BY <1>1, <2>5 DEF Inductive, TypeOK, EpisodeTypeOK
<1> QED
  BY <1>1, <1>2, <1>3, <1>4, <1>5 DEF Inductive, TypeOK

LEMMA PassStep ==
    ASSUME Inductive, Pass
    PROVE  Inductive'
<1>1. /\ UNCHANGED <<driver, patrolUp, mission, told, order, obstacle, hw, motors, faced>>
      /\ due' = patrolUp /\ (patrolUp => ~due /\ beat' = beat + 1)
      /\ hw # "down" => command <= CommandTimeout
      /\ hw = "down" => gone < RespawnDelay
  BY DEF Pass, EpisodeAges, HardwareAges, HardwareInTime
<1>2. /\ command \in Ages(CommandTimeout + 2) /\ gone \in Ages(RespawnDelay + 2)
      /\ basis \in Ages(LongestBasis + 1) /\ warned \in Ages(LongestWarning + 1)
      /\ vision \in Ages(VisionTimeout + 1) /\ beat \in 0..Heartbeat
      /\ hw \in {"up", "down", "null"} /\ due \in BOOLEAN /\ patrolUp \in BOOLEAN
  BY DEF Inductive, TypeOK, HardwareTypeOK
<1>n. /\ CommandTimeout + 2 \in Nat /\ RespawnDelay + 2 \in Nat /\ VisionTimeout + 1 \in Nat
      /\ LongestBasis + 1 \in Nat /\ LongestWarning + 1 \in Nat
  BY Numbers
<1>3. /\ command' <= command + 1 /\ (command' = Never <=> command = Never)
      /\ command <= CommandTimeout + 1 /\ command # Never => command' = command + 1
  <2>1. command' = Older(command, CommandTimeout + 2)
    BY DEF Pass, HardwareAges
  <2> QED
    <3>1. CommandTimeout + 1 < CommandTimeout + 2 /\ command \in Int
      BY <1>2, Numbers DEF Ages
    <3>2. command' <= command + 1 /\ (command' = Never <=> command = Never)
          /\ (command < CommandTimeout + 2 /\ command # Never => command' = command + 1)
      BY <1>2, <1>n, <2>1, ClockStep
    <3> QED
      BY <3>1, <3>2, Numbers
<1>4. /\ gone' <= gone + 1 /\ (gone' = Never <=> gone = Never)
      /\ gone' \in Ages(RespawnDelay + 2)
  <2>1. gone' = Older(gone, RespawnDelay + 2)
    BY DEF Pass, HardwareAges
  <2> QED
    BY <1>2, <1>n, <2>1, ClockStep
<1>5. basis' <= basis + 1 /\ basis' >= basis
  <2>1. basis' = Older(basis, LongestBasis + 1)
    BY DEF Pass
  <2> QED
    BY <1>2, <1>n, <2>1, ClockStep
<1>6. warned' <= warned + 1 /\ (warned' = Never <=> warned = Never) /\ warned' \in Ages(LongestWarning + 1)
  <2>1. warned' = Older(warned, LongestWarning + 1)
    BY DEF Pass
  <2> QED
    BY <1>2, <1>n, <2>1, ClockStep
<1>7. /\ vision' \in 0..VisionTimeout => vision \in 0..VisionTimeout /\ vision' = vision + 1
  <2>1. vision' = Older(vision, VisionTimeout + 1)
    BY DEF Pass
  <2> QED
    BY <1>2, <2>1, Numbers DEF Older, Ages
<1>8. TypeOK'
  BY PassTypes
<1>a. Watched /\ FreshBasis /\ Adrift /\ StopReachesMotors /\ Informed /\ OldOrder /\ OldCommand
  BY DEF Inductive
<1>9. Watched'
  <2>1. command' <= CommandTimeout + 1
    BY <1>1, <1>2, <1>3, <1>a, Numbers DEF Watched, Ages, Never
  <2>2. ASSUME hw' = "down" PROVE command' = Never /\ gone' \in 0..RespawnDelay
    BY <1>1, <1>2, <1>3, <1>4, <1>a, <2>2, Numbers DEF Watched, Ages, Never
  <2>3. hw' = "null" => gone' # Never
    BY <1>1, <1>4, <1>a DEF Watched
  <2>4. motors' # "still" => command' # Never \/ gone' # Never
    BY <1>1, <1>3, <1>4, <1>a DEF Watched
  <2> QED
    BY <2>1, <2>2, <2>3, <2>4 DEF Watched
<1>10. Adrift'
  <2> SUFFICES ASSUME motors' # "still", command' = Never, hw' = "up", patrolUp'
               PROVE  gone' <= RespawnDelay + 1
    BY <1>1 DEF Adrift
  <2>1. gone <= RespawnDelay + 0
    BY <1>1, <1>3, <1>a DEF Adrift
  <2> QED
    BY <1>2, <1>4, <2>1, Numbers DEF Ages
<1>11. FreshBasis'
  <2> SUFFICES ASSUME hw' = "up", command' # Never, motors' \in ByVision
               PROVE  basis' >= 0 /\ basis' <= VisionTimeout + command'
    BY DEF FreshBasis
  <2>1. basis >= 0 /\ basis <= VisionTimeout + command
    BY <1>1, <1>3, <1>a DEF FreshBasis
  <2>2. command' = command + 1
    BY <1>3, <1>a DEF Watched
  <2>3. basis' \in Int
    BY <1>8, Numbers DEF TypeOK, Ages
  <2> QED
    BY <1>2, <1>5, <2>1, <2>2, <2>3, Numbers DEF Ages
<1>12. StopReachesMotors'
  BY <1>1, <1>3, <1>a DEF StopReachesMotors
<1>13. Informed'
  <2> SUFFICES ASSUME Reporting', told' # "patrolling"
               PROVE  warned' <= beat'
    BY DEF Informed
  <2>1. warned <= beat /\ beat' = beat + 1
    BY <1>1, <1>6, <1>a DEF Informed, Reporting
  <2> QED
    BY <1>2, <1>6, <2>1, Numbers DEF Ages
<1>14. OldOrder'
  <2> SUFFICES ASSUME Reporting', order' = "forward", vision' \in 0..VisionTimeout
               PROVE  warned' <= vision' + Heartbeat
    BY DEF OldOrder
  <2>1. warned <= vision + Heartbeat /\ vision' = vision + 1
    BY <1>1, <1>6, <1>7, <1>a DEF OldOrder, Reporting
  <2> QED
    BY <1>2, <1>6, <2>1, Numbers DEF Ages
<1>15. OldCommand'
  <2> SUFFICES ASSUME Reporting', motors' = "forward", hw' = "up", command' # Never
               PROVE  warned' <= Heartbeat + VisionTimeout + 1
    BY <1>1 DEF OldCommand, Reporting
  <2>1. warned <= Heartbeat + VisionTimeout + 0
    BY <1>1, <1>3, <1>6, <1>a DEF OldCommand, Reporting
  <2> QED
    BY <1>2, <1>6, <2>1, Numbers DEF Ages
<1> QED
  BY <1>8, <1>9, <1>10, <1>11, <1>12, <1>13, <1>14, <1>15 DEF Inductive

(***************************************************************************)
(* The theorems.                                                           *)
(***************************************************************************)
LEMMA Starts ==
    ASSUME Init
    PROVE  Inductive
<1>1. TypeOK
  <2>1. EpisodeTypeOK /\ HardwareTypeOK
    <3>1. EpisodeTypeOK
      <4>1. 0 \in 0..HoldTime /\ 0 \in 0..(MaxAvoidance + 1) /\ 0 \in 0..(ConfirmFrames - 1)
        BY Numbers
      <4>2. avoiding = FALSE /\ quiet = 0 /\ turning = 0 /\ streak = 0
        BY DEF Init, EpisodeInit
      <4> QED
        BY <4>1, <4>2 DEF EpisodeTypeOK
    <3>2. -1 \in -1..(CommandTimeout + 2) /\ -1 \in -1..(RespawnDelay + 2)
      BY Numbers
    <3>3. hw = "up" /\ command = -1 /\ gone = -1
      BY DEF Init, HardwareInit, Never
    <3> QED
      BY <3>1, <3>2, <3>3 DEF HardwareTypeOK, Ages
  <2>2. vision \in Ages(VisionTimeout + 1) /\ basis \in Ages(LongestBasis + 1)
        /\ warned \in Ages(LongestWarning + 1) /\ beat \in 0..Heartbeat
    BY Numbers DEF Init, Ages, Never
  <2>3. {mission, told} \subseteq Missions \cup {"stopped"}
    BY DEF Init
  <2> QED
    BY <2>1, <2>2, <2>3 DEF Init, HardwareInit, TypeOK, Twists
<1>2. Watched /\ Adrift /\ FreshBasis /\ StopReachesMotors
  BY Numbers DEF Init, HardwareInit, Watched, Adrift, FreshBasis, StopReachesMotors, Never
<1>3. Informed /\ OldOrder /\ OldCommand
  BY DEF Init, Informed, OldOrder, OldCommand, Reporting
<1> QED
  BY <1>1, <1>2, <1>3 DEF Inductive

LEMMA Keeps ==
    ASSUME Inductive, [Next]_vars
    PROVE  Inductive'
<1>1. CASE \E blocked \in BOOLEAN : OnDepthImage(blocked) \/ OnImage(blocked)
  BY <1>1, DepthSees, VisionSees, OrderedStep DEF Inductive
<1>2. CASE DepthWatchdog \/ OnInvalidImage \/ VisionWatchdog \/ NavigationEnds
  BY <1>2, StopOrdered, OrderedStep DEF Inductive
<1>3. CASE OnMissionCommand \/ PublishStatus \/ DriveLoop \/ PatrolEnds
  BY <1>3, CommandStep, StatusStep, LoopStep, EndStep
<1>4. CASE Hardware
  BY <1>4, HardwareStep
<1>5. CASE Pass
  BY <1>5, PassStep
<1>6. CASE UNCHANGED vars
  BY <1>6 DEF vars, patrol, seen, episode, hardware, Inductive, TypeOK, EpisodeTypeOK, HardwareTypeOK,
              Watched, Adrift, FreshBasis, StopReachesMotors, Informed, OldOrder, OldCommand, Reporting
<1> QED
  BY <1>1, <1>2, <1>3, <1>4, <1>5, <1>6 DEF Next

LEMMA Invariance == Spec => []Inductive
BY Starts, Keeps, PTL DEF Spec

\* Every variable of the chain keeps its type.
THEOREM TypeCorrect == Spec => []TypeOK
<1>1. Inductive => TypeOK
  BY DEF Inductive
<1> QED
  BY <1>1, Invariance, PTL

\* hardware node's watchdog: for any timeouts, motors that turn have a recent command behind
\* them, unless the node failed while they turned.
THEOREM MotorsOnLease == Spec => []MotorsLeased
<1>1. Inductive => MotorsLeased
  BY Numbers DEF Inductive, TypeOK, HardwareTypeOK, Watched, MotorsLeased, Ages, Never
<1> QED
  BY <1>1, Invariance, PTL

\* launch file and hardware node: motors that a failed node left turning are back under command
\* within the respawn delay and a period of drive_loop.
THEOREM NobodysMotionEnds == Spec => []NobodysMotion
<1>1. Inductive => NobodysMotion
  BY Numbers DEF Inductive, TypeOK, HardwareTypeOK, Adrift, NobodysMotion, Ages
<1> QED
  BY <1>1, Invariance, PTL

\* use_recent_vision_cmd and the watchdog: motion ordered by a camera goes back to a frame no
\* older than both timeouts and a period.
THEOREM SeesWhereItDrives == Spec => []SeesWhereItGoes
<1>1. Inductive => SeesWhereItGoes
  BY Numbers DEF Inductive, TypeOK, HardwareTypeOK, Watched, FreshBasis, SeesWhereItGoes, LongestBasis, Ages
<1> QED
  BY <1>1, Invariance, PTL

\* drive_loop and stop commands: a stopped robot's motors stand, whatever navigation orders.
THEOREM StopsReachMotors == Spec => []StopReachesMotors
<1>1. Inductive => StopReachesMotors
  BY DEF Inductive
<1> QED
  BY <1>1, Invariance, PTL

\* compute_patrol_command and drive_loop: an obstacle that is reported for longer than a
\* heartbeat and the vision timeout keeps a patrol from driving forward.
THEOREM ObstacleYielded == Spec => []PatrolYields
<1>1. Inductive => PatrolYields
  <2> SUFFICES ASSUME Inductive, patrolUp, mission = "patrolling", hw = "up", command # Never,
                      warned > LongestWarning, motors = "forward"
               PROVE  FALSE
    BY DEF PatrolYields
  <2>1. warned # Never /\ warned \in Int
    BY Numbers DEF Inductive, TypeOK, Ages, Never
  <2>2. warned <= Heartbeat + VisionTimeout + 1
    BY <2>1, Numbers DEF Inductive, OldCommand, Reporting
  <2> QED
    BY <2>1, <2>2, Numbers DEF LongestWarning
<1> QED
  BY <1>1, Invariance, PTL
=============================================================================
