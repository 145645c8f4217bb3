---------------------------- MODULE PatrolDrive ----------------------------
(***************************************************************************)
(* The missions of patrol_node other than the room-scan explorer: manual   *)
(* moves and the recording of them, replaying a taught route, driving to a *)
(* stored pose, patrolling on vision, exploring for names, inspecting.     *)
(*                                                                         *)
(* Callbacks only set the mission; drive_loop, a timer, turns it into the  *)
(* wheels' command, which holds until the next one.  Time passes in the    *)
(* timer's periods, and every clock counts them; callbacks run before or   *)
(* after the timer's in a period.  Speeds, ramps and the geometry of       *)
(* steering are left out: `wheels` says by whose order the robot moves,    *)
(* and whether a target is reached is open.                                *)
(*                                                                         *)
(* Of the room scan, which explores instead where it is switched on, there *)
(* is what the other missions notice: whose answer it waits for, in        *)
(* `scan`, and that its ticks move the robot.  RoomScan has the rest.      *)
(*                                                                         *)
(* `driven` is a ghost: for how many periods the wheels have turned by a   *)
(* move since the replay began, counted up to the time its route takes.    *)
(***************************************************************************)
EXTENDS Integers, FiniteSets, Clocks, LocationStore

CONSTANTS
    Commands,           \* the mission commands that arrive
    Frontier,           \* explore_frontier_mode
    RoomScanModes,      \* what explore_room_scan_mode, which comes first, may be set to
    Sensors,            \* who publishes: "vision" commands, "odom" poses, "depth" obstacles
    MoveTicks,          \* manual_move_seconds, in periods of drive_loop
    TurnTicks,          \* manual_turn_seconds
    VisionTimeout,      \* vision_command_timeout_seconds
    OdomTimeout,        \* odom_timeout_seconds
    GoalTimeout,        \* pose_goal_timeout_seconds
    SubGoalTimeout,     \* explore_subgoal_timeout_seconds
    LabelInterval,      \* explore_label_interval_seconds
    LabelTimeout,       \* explore_label_timeout_seconds
    MaxMoves,           \* bound: moves in a recording
    MaxCaptures         \* bound: feature captures under way

VARIABLES
    state,          \* PatrolState
    since,          \* the age of state_changed_at
    kind,           \* manual_kind
    recording, buffer,      \* record_buffer
    store,          \* location_store
    replay,         \* replay_steps, replay_index, the age of replay_step_started_at
    goal,           \* pose_goal_target and the age of pose_goal_started_at
    naming,         \* awaiting_label and the age of explore_last_label_request_at
    subGoal,        \* the age of explore_sub_goal
    roomScan,       \* explore_room_scan_mode
    scan,           \* what the room scan, under way or left behind, waits for: awaiting_*, await_*
    vision, odom,   \* the ages of last_vision_cmd and of the last odometry pose
    obstacle,       \* is_obstacle_now
    pending,        \* pending_analysis
    captures,       \* capture requests whose results are yet to come
    wheels,         \* by whose order /cmd_vel was last published
    due,            \* drive_loop's timer has run out
    driven          \* ghost

mission == <<state, since, kind>>
teach == <<recording, buffer>>
travel == <<replay, goal, subGoal>>
rooms == <<roomScan, scan>>
sensors == <<vision, odom, obstacle>>
vars == <<mission, teach, store, travel, naming, rooms, sensors, pending, captures, wheels, due, driven>>

States == {"idle", "stopped", "patrolling", "following_person", "returning_home", "inspecting",
           "manual", "manual_drive", "replaying", "pose_goal", "exploring"}
Turns == {"turn_left", "turn_right"}
Directions == {"move_forward", "move_backward"} \cup Turns

ASSUME MovesAssumption == Moves \subseteq Directions
\* A look by the explore VLM; the ceiling VLM's two answers; a label from the admin.
Scans == {"none", "look", "check", "ceiling", "label"}

ASSUME FrontierAssumption == Frontier \in BOOLEAN /\ RoomScanModes \subseteq BOOLEAN
\* A move takes more than one period of drive_loop.
ASSUME TicksAssumption == {MoveTicks, TurnTicks} \subseteq Nat \ {0, 1}
ASSUME TimeoutsAssumption ==
    {VisionTimeout, OdomTimeout, GoalTimeout, SubGoalTimeout, LabelInterval, LabelTimeout} \subseteq Nat
ASSUME BoundsAssumption == MaxMoves \in Nat /\ MaxCaptures \in Nat

Duration(move) == IF move \in Turns THEN TurnTicks ELSE MoveTicks

\* How long the moves of a route take, one after the other.
RouteTicks(steps) ==
    LET turns == {i \in DOMAIN steps : steps[i] \in Turns} IN
    TurnTicks * Cardinality(turns) + MoveTicks * Cardinality(DOMAIN steps \ turns)

\* What times out is told apart until one period after the timer could notice.
Stale(timeout) == timeout + 2
LongestMove == IF MoveTicks > TurnTicks THEN MoveTicks ELSE TurnTicks
LongestNaming == (IF LabelInterval > LabelTimeout THEN LabelInterval ELSE LabelTimeout) + 1

Replays == [steps : Seq(Moves), index : Nat \ {0}, clock : Ages(LongestMove)]
NoReplay == [steps |-> <<>>, index |-> 1, clock |-> 0]

TypeOK ==
    /\ state \in States /\ since \in Ages(LongestMove) /\ kind \in Moves \cup {""}
    /\ recording \in BOOLEAN /\ buffer \in Seq(Moves)
    /\ IsStore(store)
    /\ replay \in Replays
    /\ goal \in Ages(Stale(GoalTimeout)) /\ subGoal \in Ages(Stale(SubGoalTimeout))
    /\ naming \in [asked : BOOLEAN, clock : Ages(LongestNaming)]
    /\ vision \in Ages(Stale(VisionTimeout)) /\ odom \in Ages(Stale(OdomTimeout))
    /\ roomScan \in BOOLEAN /\ scan \in Scans
    /\ {obstacle, pending, due} \subseteq BOOLEAN
    /\ captures \in Seq(Labels)
    /\ wheels \in Moves \cup {"still", "cruise", "vision", "steer", "scan", "left"}
    /\ driven \in Nat

Init ==
    /\ state = "idle" /\ since = 0 /\ kind = ""
    /\ recording = FALSE /\ buffer = <<>>
    /\ store = NoLocations
    /\ replay = NoReplay /\ goal = Never /\ subGoal = Never
    /\ naming = [asked |-> FALSE, clock |-> 0]
    /\ roomScan \in RoomScanModes /\ scan = "none"
    /\ vision = Never /\ odom = Never /\ obstacle = FALSE
    /\ pending = FALSE /\ captures = <<>>
    /\ wheels = "still" /\ due = FALSE
    /\ driven = 0

----------------------------------------------------------------------------
(* Helpers of the node.                                                    *)

SetState(new) == state' = new /\ since' = IF new = state THEN since ELSE 0

StopMotion == wheels' = "still"

HasRecentOdom == odom # Never /\ odom <= OdomTimeout

MutUseRecentVisionCmd == vision # Never
UseRecentVisionCmd == vision # Never /\ vision <= VisionTimeout

RequestAnalysis == pending' = TRUE

RequestFeatureCapture(label) ==
    /\ Len(captures) < MaxCaptures
    /\ captures' = Append(captures, label)

----------------------------------------------------------------------------
(* on_mission_command                                                      *)

StartMission ==
    /\ \/ "patrol_start" \in Commands /\ SetState("patrolling")
       \/ "go_home" \in Commands /\ SetState("returning_home")
       \/ "follow_person" \in Commands /\ SetState("following_person")
    /\ UNCHANGED <<kind, teach, store, travel, naming, rooms, sensors, pending, captures, wheels, due, driven>>

StopPatrolling == SetState("stopped") /\ StopMotion /\ UNCHANGED <<naming, scan>>

StopExploring ==
    /\ SetState("stopped") /\ StopMotion
    /\ naming' = [naming EXCEPT !.asked = FALSE] /\ scan' = "none"

\* A bare stop ends what is running.
Stop ==
    /\ \/ "patrol_stop" \in Commands /\ StopPatrolling
       \/ "explore_stop" \in Commands /\ StopExploring
       \/ "stop" \in Commands /\ IF state = "exploring" THEN StopExploring ELSE StopPatrolling
    /\ UNCHANGED <<kind, teach, store, travel, roomScan, sensors, pending, captures, due, driven>>

MutStartExploreKeepsNaming ==
    /\ "explore_start" \in Commands
    /\ SetState("exploring")
    /\ naming' = [naming EXCEPT !.clock = 0]
    /\ subGoal' = Never
    /\ scan' = IF roomScan THEN "look" ELSE scan
    /\ UNCHANGED <<kind, teach, store, replay, goal, roomScan, sensors, pending, captures, wheels, due, driven>>

StartExplore ==
    /\ "explore_start" \in Commands
    /\ SetState("exploring")
    /\ naming' = [asked |-> FALSE, clock |-> 0]
    /\ subGoal' = Never
    /\ scan' = IF roomScan THEN "look" ELSE scan
    /\ UNCHANGED <<kind, teach, store, replay, goal, roomScan, sensors, pending, captures, wheels, due, driven>>

StartManualMove(move) ==
    /\ "move" \in Commands
    /\ kind' = move
    /\ IF recording
       THEN /\ Len(buffer) < MaxMoves
            /\ buffer' = Append(buffer, move)
            /\ SetState("manual")
       ELSE SetState("manual_drive") /\ UNCHANGED buffer
    /\ UNCHANGED <<recording, store, travel, naming, rooms, sensors, pending, captures, wheels, due, driven>>

RememberStart ==
    /\ "remember_start" \in Commands
    /\ recording' = TRUE /\ buffer' = <<>>
    /\ UNCHANGED <<mission, store, travel, naming, rooms, sensors, pending, captures, wheels, due, driven>>

MutSaveRecordedLocationAlways(label) ==
    /\ "remember_save" \in Commands
    /\ store' = Set(store, label, buffer)
    /\ recording' = FALSE /\ buffer' = <<>>
    /\ RequestFeatureCapture(label)
    /\ UNCHANGED <<mission, travel, naming, rooms, sensors, pending, wheels, due, driven>>

\* A save without recorded moves names the spot and keeps the route the name may have.
SaveRecordedLocation(label) ==
    /\ "remember_save" \in Commands
    /\ store' = IF recording /\ buffer # <<>> THEN Set(store, label, buffer)
                ELSE IF Has(store, label) THEN store ELSE Set(store, label, <<>>)
    /\ recording' = FALSE /\ buffer' = <<>>
    /\ RequestFeatureCapture(label)
    /\ UNCHANGED <<mission, travel, naming, rooms, sensors, pending, wheels, due, driven>>

DeleteLocation(label) ==
    /\ "location_delete" \in Commands
    /\ store' = Delete(store, label)
    /\ UNCHANGED <<mission, teach, travel, naming, rooms, sensors, pending, captures, wheels, due, driven>>

\* analyze
Analyze ==
    /\ "analyze" \in Commands
    /\ RequestAnalysis
    /\ UNCHANGED <<mission, teach, store, travel, naming, rooms, sensors, captures, wheels, due, driven>>

MutStartReplayResumes(label) ==
    /\ Get(store, label).steps # <<>>
    /\ replay' = [replay EXCEPT !.steps = Get(store, label).steps, !.clock = 0]
    /\ SetState("replaying")
    /\ driven' = 0
    /\ UNCHANGED <<goal, pending>>

\* A stored pose first, if the robot knows where it is; then the taught route.
StartPoseGoal(label) ==
    /\ Get(store, label).pose /\ HasRecentOdom
    /\ goal' = 0
    /\ SetState("pose_goal")
    /\ UNCHANGED <<replay, pending, driven>>

StartReplay(label) ==
    /\ Get(store, label).steps # <<>>
    /\ replay' = [steps |-> Get(store, label).steps, index |-> 1, clock |-> 0]
    /\ SetState("replaying")
    /\ driven' = 0
    /\ UNCHANGED <<goal, pending>>

InspectHere == SetState("inspecting") /\ RequestAnalysis /\ UNCHANGED <<replay, goal, driven>>

\* start_inspect; the label may be one the store does not know.
StartInspect(label) ==
    /\ "inspect" \in Commands
    /\ \/ StartPoseGoal(label)
       \/ ~(Get(store, label).pose /\ HasRecentOdom) /\ StartReplay(label)
       \/ /\ ~(Get(store, label).pose /\ HasRecentOdom) /\ Get(store, label).steps = <<>>
          /\ InspectHere
    /\ UNCHANGED <<kind, teach, store, subGoal, naming, rooms, sensors, captures, wheels, due>>

OnMissionCommand ==
    \/ StartMission \/ Stop \/ StartExplore \/ RememberStart \/ Analyze
    \/ \E move \in Moves : StartManualMove(move)
    \/ \E label \in Labels :
         SaveRecordedLocation(label) \/ DeleteLocation(label) \/ StartInspect(label)

----------------------------------------------------------------------------
(* The other callbacks.                                                    *)

Named(label) == IF Has(store, label) THEN store ELSE Set(store, label, <<>>)

\* on_admin_text: the name of the spot, or a word that skips it; a room's label is stored alike
\* (on_room_scan_label).
OnAdminText ==
    /\ state = "exploring"
    /\ \/ scan = "label" /\ scan' = "none" /\ UNCHANGED naming
       \/ /\ scan # "label" /\ naming.asked
          /\ naming' = [asked |-> FALSE, clock |-> 0]
          /\ UNCHANGED scan
    /\ \/ UNCHANGED <<store, captures>>
       \/ \E label \in Labels :
            /\ store' = IF HasRecentOdom THEN SetPose(Named(label), label) ELSE Named(label)
            /\ RequestFeatureCapture(label)
    /\ UNCHANGED <<mission, teach, travel, roomScan, sensors, pending, wheels, due, driven>>

\* The request goes to vision_nav_node, which finds features or fails.
OnLocationFeatureResult ==
    /\ captures # <<>>
    /\ captures' = Tail(captures)
    /\ store' \in {store, SetFeatures(store, Head(captures))}
    /\ UNCHANGED <<mission, teach, travel, naming, rooms, sensors, pending, wheels, due, driven>>

MutAnalysisAnswerNeverEnds ==
    /\ scan \notin {"check", "ceiling"} /\ pending
    /\ UNCHANGED <<mission, wheels, scan>>

\* The answer to request_analysis: the snapshot of an inspection ends it.
AnalysisAnswer ==
    /\ scan \notin {"check", "ceiling"} /\ pending
    /\ IF state = "inspecting" THEN SetState("stopped") /\ StopMotion
                               ELSE UNCHANGED <<state, since, wheels>>
    /\ UNCHANGED <<kind, scan>>

\* on_vlm_observation: whatever comes is taken for the answer the room scan waits for, in every
\* mission, before it is the snapshot of an inspection.
OnVlmObservation ==
    /\ \/ scan = "check" /\ scan' = "none" /\ UNCHANGED <<mission, wheels>>
       \/ scan = "ceiling" /\ scan' = "label" /\ StopMotion /\ UNCHANGED mission
       \/ AnalysisAnswer
    /\ pending' = FALSE
    /\ UNCHANGED <<teach, store, travel, naming, roomScan, sensors, captures, due, driven>>

\* on_vision_cmd_vel, on_odom_pose, on_vision_status
OnSensor ==
    /\ \/ "vision" \in Sensors /\ vision' = 0 /\ UNCHANGED <<odom, obstacle>>
       \/ "odom" \in Sensors /\ odom' = 0 /\ UNCHANGED <<vision, obstacle>>
       \/ "depth" \in Sensors /\ obstacle' = ~obstacle /\ UNCHANGED <<vision, odom>>
    /\ UNCHANGED <<mission, teach, store, travel, naming, rooms, pending, captures, wheels, due, driven>>

----------------------------------------------------------------------------
(* drive_loop                                                              *)

\* A period passes, and the timer runs out.
Pass ==
    /\ ~due /\ due' = TRUE
    /\ since' = Older(since, LongestMove)
    /\ replay' = [replay EXCEPT !.clock = Older(@, LongestMove)]
    /\ goal' = Older(goal, Stale(GoalTimeout)) /\ subGoal' = Older(subGoal, Stale(SubGoalTimeout))
    /\ naming' = [naming EXCEPT !.clock = Older(@, LongestNaming)]
    /\ vision' = Older(vision, Stale(VisionTimeout)) /\ odom' = Older(odom, Stale(OdomTimeout))
    /\ driven' = IF state = "replaying" /\ wheels \in Moves /\ driven < RouteTicks(replay.steps)
                 THEN driven + 1 ELSE driven
    /\ UNCHANGED <<state, kind, teach, store, rooms, obstacle, pending, captures, wheels>>

MutAfterLabelingForever ==
    IF state = "exploring" /\ ~roomScan /\ ~naming.asked /\ naming.clock > LabelInterval
    THEN [asked |-> TRUE, clock |-> 0] ELSE naming

\* tick_explore_labeling: every so often the robot asks for a name, and gives up waiting.  The
\* room scan has a prompt of its own.
AfterLabeling ==
    IF state = "exploring" /\ ~roomScan /\ naming.clock > (IF naming.asked THEN LabelTimeout ELSE LabelInterval)
    THEN [asked |-> ~naming.asked, clock |-> 0]
    ELSE naming

Keep == UNCHANGED <<state, since, replay, goal, subGoal, pending, scan>>

RoomScanning == state = "exploring" /\ roomScan

\* tick_room_scan, by what it waits for: it stands until the answer is in, and the tick that
\* finds a look's answer, or its timeout, orders nothing: right after explore_start the order of
\* the mission before is left standing.  Else it turns, drives or settles, and then asks.
TickRoomScan ==
    /\ RoomScanning
    /\ \/ scan # "none" /\ StopMotion /\ UNCHANGED <<scan, pending>>
       \/ /\ scan = "look" /\ scan' = "none"
          /\ wheels' = IF wheels \in {"still", "scan"} THEN wheels ELSE "left"
          /\ UNCHANGED pending
       \/ /\ scan = "none" /\ wheels' \in {"still", "scan"}
          /\ UNCHANGED <<scan, pending>>
       \/ /\ scan = "none" /\ StopMotion
          /\ \/ scan' = "look" /\ UNCHANGED pending
             \/ scan' \in {"check", "ceiling"} /\ RequestAnalysis
    /\ UNCHANGED <<state, since, replay, goal, subGoal>>

MutFinishPoseGoalStays(success) ==
    /\ StopMotion
    /\ goal' = Never
    /\ IF success THEN RequestAnalysis ELSE UNCHANGED pending
    /\ UNCHANGED <<state, since, replay, subGoal, scan>>

FinishPoseGoal(success) ==
    /\ StopMotion
    /\ goal' = Never
    /\ SetState("stopped")
    /\ IF success THEN RequestAnalysis ELSE UNCHANGED pending
    /\ UNCHANGED <<replay, subGoal, scan>>

\* Drives by its own odometry, and stands while there is an obstacle.
DrivePoseGoal ==
    /\ state = "pose_goal"
    /\ IF obstacle THEN StopMotion /\ Keep
       ELSE IF ~HasRecentOdom \/ goal > GoalTimeout THEN FinishPoseGoal(FALSE)
       ELSE (wheels' = "steer" /\ Keep) \/ FinishPoseGoal(TRUE)

\* compute_explore_twist: a sub-goal that was reached, or not in time, gives way to another.
DriveFrontier ==
    /\ state = "exploring" /\ ~roomScan /\ Frontier /\ ~naming'.asked
    /\ IF obstacle THEN StopMotion /\ subGoal' = Never
       ELSE IF HasRecentOdom
       THEN /\ wheels' = "steer"
            /\ \/ subGoal \in 0..SubGoalTimeout /\ UNCHANGED subGoal
               \/ subGoal' = 0
       ELSE StopMotion /\ UNCHANGED subGoal
    /\ UNCHANGED <<state, since, replay, goal, pending, scan>>

VisionGated ==
    \/ state \in {"patrolling", "following_person"}
    \/ state = "manual_drive" /\ kind = "move_forward"
    \/ state = "exploring" /\ ~roomScan /\ ~Frontier /\ ~naming'.asked

\* Vision drives; once it has, its silence stops the robot.
FollowVision ==
    /\ VisionGated /\ vision # Never
    /\ wheels' = IF UseRecentVisionCmd THEN "vision" ELSE "still"
    /\ Keep

Unguided == ~(VisionGated /\ vision # Never)

MutDriveManualEnds ==
    /\ state = "manual" /\ Unguided
    /\ IF since >= Duration(kind) THEN SetState("stopped") /\ UNCHANGED wheels
                                  ELSE wheels' = kind /\ UNCHANGED <<state, since>>
    /\ UNCHANGED <<replay, goal, subGoal, pending, scan>>

DriveManual ==
    /\ state = "manual" /\ Unguided
    /\ IF since >= Duration(kind) THEN SetState("stopped") /\ StopMotion
                                  ELSE wheels' = kind /\ UNCHANGED <<state, since>>
    /\ UNCHANGED <<replay, goal, subGoal, pending, scan>>

Arrive ==
    /\ StopMotion /\ RequestAnalysis /\ SetState("stopped")
    /\ UNCHANGED <<replay, goal, subGoal, scan>>

DriveReplay ==
    /\ state = "replaying"
    /\ IF replay.index > Len(replay.steps) THEN Arrive
       ELSE LET step == replay.steps[replay.index] IN
            /\ IF replay.clock >= Duration(step)
               THEN /\ replay' = [replay EXCEPT !.index = @ + 1, !.clock = 0]
                    /\ UNCHANGED wheels
               ELSE wheels' = step /\ UNCHANGED replay
            /\ UNCHANGED <<state, since, goal, subGoal, pending, scan>>

\* The simple patterns, and standing still in every other state.
DriveElse ==
    /\ Unguided /\ state \notin {"pose_goal", "manual", "replaying"} /\ ~RoomScanning
    /\ ~(state = "exploring" /\ Frontier /\ ~naming'.asked)
    /\ wheels' = CASE state \in {"patrolling", "returning_home"} -> "cruise"
                   [] state = "manual_drive" -> kind
                   [] OTHER -> "still"
    /\ Keep

DriveLoop ==
    /\ due /\ due' = FALSE
    /\ naming' = AfterLabeling
    /\ \/ TickRoomScan
       \/ DrivePoseGoal \/ DriveFrontier \/ FollowVision \/ DriveManual \/ DriveReplay \/ DriveElse
    /\ UNCHANGED <<kind, teach, store, roomScan, sensors, captures, driven>>

----------------------------------------------------------------------------
Next ==
    \/ OnMissionCommand
    \/ OnAdminText \/ OnLocationFeatureResult \/ OnVlmObservation \/ OnSensor
    \/ Pass \/ DriveLoop

Spec == Init /\ [][Next]_vars

\* The timer runs out again and again, and its callback runs.
FairSpec == Spec /\ WF_vars(Pass) /\ WF_vars(DriveLoop)

\* A stopped robot stands: whichever of the commands, answers, arrivals, timeouts and lost
\* poses ended a mission, none leaves the wheels turning until the next period (stop_motion).
StoppedStands == state = "stopped" => wheels = "still"

\* Nothing moves the robot past its time: vision commands, poses, sub-goals and goals that
\* are too old when the timer runs out stop steering it then, across all changes of mission;
\* but for an order "left" standing by the first tick of a room scan.
SteersInTime ==
    /\ wheels = "vision" => vision <= VisionTimeout + 1
    /\ wheels = "steer" =>
         /\ odom <= OdomTimeout + 1
         /\ state = "exploring" => subGoal <= SubGoalTimeout + 1
         /\ state = "pose_goal" => goal <= GoalTimeout + 1

\* The robot stands where it asks for the name of a spot or of a room, until it has one, gives
\* up, or is sent away.
StandsWhileNaming ==
    state = "exploring" /\ (naming.asked \/ scan = "label") => wheels = "still"

\* An inspection has a snapshot coming, without which it would never end, and keeps it until it
\* ends: only an answer taken for a question that a room scan has left behind robs it of it
\* (on_vlm_observation, start_inspect).
InspectionKeepsSnapshot ==
    [][state' = "inspecting" /\ ~pending' =>
         state = "inspecting" /\ (pending => scan \in {"check", "ceiling"})]_vars

\* A taught route is only lost to a new recording under its name, or with the name: neither
\* a save without moves nor a name given while exploring nor late features empty it.
RouteKept ==
    [][\A label \in DOMAIN store :
         Get(store', label).steps # store[label].steps =>
           \/ DeleteLocation(label)
           \/ recording /\ buffer # <<>> /\ SaveRecordedLocation(label)]_vars

\* A replay that says it has arrived drove every step of its route for the step's time; but for
\* the two periods it may be short of where the answer to a ceiling question that a room scan
\* has left behind stops the robot on its way (room_scan_begin_await_label).
ReplayDrivesRoute ==
    [][state = "replaying" /\ DriveLoop /\ state' = "stopped" =>
         driven >= RouteTicks(replay.steps) - (IF scan = "label" THEN 2 ELSE 0)]_vars

\* The robot does not wait for the name of a spot for ever (for a room's it does).
NamingEnds == state = "exploring" /\ naming.asked ~> ~(state = "exploring" /\ naming.asked)

\* A drive to a stored pose ends: arrived, lost or timed out; unless obstacles keep coming, or
\* the robot is sent there again and again.
PoseGoalEnds ==
    (state = "pose_goal" ~> state # "pose_goal")
      \/ []<>obstacle \/ []<><<\E label \in Labels : StartInspect(label)>>_vars

----------------------------------------------------------------------------
(* What the documentation says and the code does not do.                   *)

\* "INSPECTING had no exit condition at all ... Stop as soon as the single snapshot this state
\* exists to capture is in hand" (patrol_node.py:1611): there always is one to come.
SnapshotComes == state = "inspecting" => pending

\* A recorded route is the timed moves used to get there: a move that stays in the recording
\* was driven for the time it is recorded with.
RecordedAsDriven ==
    [][state = "manual" /\ recording /\ recording' /\ state' # "manual" =>
         since >= Duration(kind) \/ Len(buffer') < Len(buffer)]_vars
=============================================================================
