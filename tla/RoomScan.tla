----------------------------- MODULE RoomScan -----------------------------
(***************************************************************************)
(* The room-scan explorer of patrol_node: the phases of tick_room_scan,    *)
(* the commands and VLM answers that reach the same single-threaded node   *)
(* between two ticks, and the map it builds.                               *)
(*                                                                         *)
(* Time is abstracted: a timed phase may end at any of its ticks.  Angles  *)
(* are integers, StepUnits of them to one heading step, so that the        *)
(* fractional shifts of the code (0.5, 0.25, 0.75, the door nudge) are     *)
(* exact.  The ceiling VLM may deliver an observation at any moment: it    *)
(* also scans on its own every few seconds.  The explore VLM only answers  *)
(* triggers, so it has an answer to give, or to lose, whenever the node is *)
(* waiting for one; whose question it answers is the subject of VlmClient. *)
(*                                                                         *)
(* `facing` and `entry` are ghosts: the direction the robot really faces,  *)
(* from heading 0 of the current room, and the direction, in its parent,   *)
(* through which each room was really entered.                             *)
(***************************************************************************)
EXTENDS Integers, Sequences, FiniteSets

CONSTANTS
    Headings,       \* explore_room_scan_headings (the code forces it to 4 at least)
    StepUnits,      \* angle units per heading step
    Nudge,          \* explore_room_scan_door_nudge_step, in angle units
    MaxNudges,      \* explore_room_scan_max_door_nudges
    MaxOverrides,   \* explore_room_scan_max_obstacle_overrides
    MaxChase,       \* explore_room_scan_max_door_chase
    Commands,       \* the mission commands that arrive
    MaxRooms,       \* bound: rooms in the map
    MaxRoots,       \* bound: missions whose rooms are in the map
    OpenAt          \* bound: the bearings at which the cameras may ever report an opening

ASSUME HeadingsAssumption == Headings \in Nat /\ Headings >= 4
ASSUME UnitsAssumption == StepUnits \in Nat \ {0} /\ StepUnits % 4 = 0
ASSUME NudgeAssumption == Nudge \in 0..StepUnits
ASSUME LimitsAssumption ==
    MaxNudges \in Nat /\ MaxOverrides \in Nat /\ MaxChase \in Nat

Total == Headings * StepUnits
Half == (Headings \div 2) * StepUnits       \* total_steps // 2
Bearing == 0..(Total - 1)

ASSUME BoundsAssumption == MaxRooms \in Nat /\ MaxRoots \in Nat /\ OpenAt \subseteq Bearing

Offsets == <<StepUnits \div 2, StepUnits \div 4, 3 * (StepUnits \div 4)>>

INSTANCE RoomMap WITH Bearings <- Bearing

VARIABLES
    state,      \* PatrolState; "driving" stands for the other moving missions
    phase,      \* room_phase
    next,       \* room_scan_next_phase while rotating, room_scan_settle_next while settling
    delta,      \* room_scan_rotate_delta
    heading,    \* room_scan_heading_step
    sweep,      \* steps_done_this_sweep, is_retry_sweep, root_retry_count
    budget,     \* obstacle_override, door_chase, door_nudge counts, door_nudge_pending
    target,     \* room_scan_pending_doorway_step
    awaiting,   \* room_scan_awaiting_{label,ceiling,room_check}, pending_analysis
    answer,     \* room_scan_vlm_text once room_scan_vlm_ready and until read, else "pending"
    room,       \* room_scan_current_room_id
    rooms,      \* explore_graph
    motion,     \* the last cmd_vel published
    alive,      \* FALSE once an exception has ended the node's spin
    facing,     \* ghost: the bearing the robot faces, in the current room
    entry       \* ghost: entry[r] is the bearing by which room r was entered, in its parent

mission == <<state, alive>>
walk == <<phase, next, delta>>
map == <<room, rooms>>
ghost == <<facing, entry>>
vars == <<mission, walk, heading, sweep, budget, target, awaiting, answer, map, motion, ghost>>

----------------------------------------------------------------------------
States == {"idle", "stopped", "exploring", "inspecting", "driving"}
Phases == {"none", "rotating", "settling", "await_vlm_step", "await_ceiling", "await_label",
           "await_room_check", "await_obstacle_check", "escape_backup",
           "blind_reposition_drive", "advance_doorway", "backtrack_advance"}
AfterRotation == {"await_vlm_step", "await_ceiling", "after_backtrack_correct",
                  "after_escape_turn_around", "advance_doorway", "backtrack_advance"}
AfterSettling == {"vlm_step", "obstacle_check", "room_check", "ceiling"}
Texts == {"DOOR", "FLOOR", "NO", "PASS"}    \* what an explore-VLM answer starts with
TimedOut == "GO:NO"
Motions == {"stop", "rotate", "forward", "backward", "drive"}

NoRetry == [done |-> 0, retry |-> FALSE, round |-> 0]

Sweeps == [done : Nat, retry : BOOLEAN, round : 0..3]
Budgets == [override : Nat, chase : Nat, nudge : Nat, nudging : BOOLEAN]
Flags == [label : BOOLEAN, ceiling : BOOLEAN, check : BOOLEAN, analysis : BOOLEAN]

TypeOK ==
    /\ state \in States
    /\ phase \in Phases
    /\ next \in AfterRotation \cup AfterSettling \cup {"none"}
    /\ delta \in Bearing
    /\ heading \in Bearing
    /\ sweep \in Sweeps
    /\ budget \in Budgets
    /\ target \in Bearing
    /\ awaiting \in Flags
    /\ answer \in Texts \cup {"pending"}
    /\ room \in Nat
    /\ rooms \in RoomMaps
    /\ motion \in Motions
    /\ alive \in BOOLEAN
    /\ facing \in Bearing
    /\ entry \in [1..MaxRooms -> Bearing]

Init ==
    /\ state = "idle" /\ alive = TRUE
    /\ phase = "none" /\ next = "none" /\ delta = 0
    /\ heading = 0 /\ sweep = NoRetry /\ target = 0
    /\ budget = [override |-> 0, chase |-> 0, nudge |-> 0, nudging |-> FALSE]
    /\ awaiting = [label |-> FALSE, ceiling |-> FALSE, check |-> FALSE, analysis |-> FALSE]
    /\ answer = "pending"
    /\ room = NoRoom /\ rooms = <<>>
    /\ motion = "stop"
    /\ facing = 0 /\ entry = [r \in 1..MaxRooms |-> 0]

----------------------------------------------------------------------------
(* Phase changes.  `next` and `delta` are only read while rotating or      *)
(* settling; elsewhere they are cleared.                                   *)

BeginRotate(d, n) == phase' = "rotating" /\ delta' = d /\ next' = n
BeginSettle(n) == phase' = "settling" /\ next' = n /\ delta' = 0
Enter(p) == phase' = p /\ next' = "none" /\ delta' = 0

\* The mutants, here and below, are plausible slips in the code; no behaviour uses them.
MutTurnUnwrapped(from, to) == to - from
MutTurnAbsolute(from, to) == to % Total

\* The robot only turns one way: how far from one bearing to another.
Turn(from, to) == (to - from) % Total

MutWayBackAhead == 0

\* A room's heading 0 is the direction it was entered in: the way back is half a turn from it.
WayBack == Half

MutParentCorrectionWithoutHalf(via) == (-via) % Total

\* Back in the parent the robot faces opposite to the way it left: the turn to its heading 0.
ParentCorrection(via) == (-(via + Half)) % Total

MutSweepOverEarly(s) == s.done + 1 >= Headings

SweepOver(s) == s.done >= Headings

MutNextRoundForever(s) ==
    [done |-> 0, retry |-> TRUE, round |-> (s.round + 1) % Len(Offsets)]

NextRound(s) == [done |-> 0, retry |-> TRUE, round |-> s.round + 1]

RequestVlmStep == Enter("await_vlm_step") /\ answer' = "pending"
RequestObstacleCheck == Enter("await_obstacle_check") /\ answer' = "pending"

\* m, r, h, s: the map, room, heading and sweep as the caller has already updated them.
BeginBacktrackOrFinish(m, r, h, s) ==
    \/ /\ RoomAt(m, r).via = NoStep
       /\ s.round = Len(Offsets)
       /\ sweep' = [s EXCEPT !.round = 0]
       /\ Enter("blind_reposition_drive")
    \/ /\ RoomAt(m, r).via = NoStep
       /\ s.round < Len(Offsets)
       /\ sweep' = NextRound(s)
       /\ BeginRotate(Offsets[s.round + 1], "await_vlm_step")
    \/ /\ RoomAt(m, r).via # NoStep
       /\ sweep' = s
       /\ BeginRotate(Turn(h, WayBack), "backtrack_advance")

AdvanceAfterLabel(m, r, h, s, b) ==
    \/ \E door \in Doorways(m, r) :
         /\ rooms' = MarkTried(m, r, door)
         /\ target' = door
         /\ budget' = [b EXCEPT !.override = 0, !.chase = 0, !.nudge = 0]
         /\ sweep' = s
         /\ BeginRotate(Turn(h, door), "advance_doorway")
    \/ /\ Doorways(m, r) = {}
       /\ rooms' = m
       /\ budget' = b
       /\ UNCHANGED target
       /\ BeginBacktrackOrFinish(m, r, h, s)

AfterBacktrackCorrect(r) ==
    /\ heading' = 0
    /\ \/ \E door \in Doorways(rooms, r) :
            /\ rooms' = MarkTried(rooms, r, door)
            /\ target' = door
            /\ budget' = [budget EXCEPT !.override = 0]
            /\ sweep' = sweep
            /\ BeginRotate(door, "advance_doorway")
       \/ /\ Doorways(rooms, r) = {}
          /\ UNCHANGED <<rooms, budget, target>>
          /\ BeginBacktrackOrFinish(rooms, r, 0, sweep)

----------------------------------------------------------------------------
(* The label prompt, and what becomes of a doorway.                        *)

BeginAwaitLabel(flags) ==
    /\ awaiting' = [flags EXCEPT !.label = TRUE]
    /\ Enter("await_label")
    /\ motion' = "stop"

MutAbortAdvanceUncounted ==
    /\ budget' = IF CategoryOf(rooms, room, target) = "door"
                 THEN [budget EXCEPT !.override = 0, !.nudging = TRUE] ELSE [budget EXCEPT !.nudge = 0]
    /\ heading' = IF CategoryOf(rooms, room, target) = "door" THEN heading ELSE target
    /\ Enter("escape_backup")

AbortAdvance ==
    \/ /\ CategoryOf(rooms, room, target) = "door"
       /\ budget.nudge < MaxNudges
       /\ budget' = [budget EXCEPT !.nudge = @ + 1, !.override = 0, !.nudging = TRUE]
       /\ Enter("escape_backup")
       /\ UNCHANGED heading
    \/ /\ CategoryOf(rooms, room, target) = "door" => budget.nudge >= MaxNudges
       /\ budget' = [budget EXCEPT !.nudge = 0]
       /\ heading' = target
       /\ Enter("escape_backup")

MutBeginObstacleCheckOffByOne ==
    \/ /\ budget.override > MaxOverrides
       /\ AbortAdvance
    \/ /\ budget.override <= MaxOverrides
       /\ BeginSettle("obstacle_check")
       /\ UNCHANGED <<budget, heading>>

BeginObstacleCheck ==
    \/ /\ budget.override >= MaxOverrides
       /\ AbortAdvance
    \/ /\ budget.override < MaxOverrides
       /\ BeginSettle("obstacle_check")
       /\ UNCHANGED <<budget, heading>>

SameRoomContinue ==
    \/ /\ CategoryOf(rooms, room, target) = "door"
       /\ budget.chase < MaxChase
       /\ budget' = [budget EXCEPT !.chase = @ + 1]
       /\ Enter("advance_doorway")
       /\ UNCHANGED <<rooms, target, sweep>>
    \/ /\ CategoryOf(rooms, room, target) = "door" => budget.chase >= MaxChase
       /\ AdvanceAfterLabel(rooms, room, heading, sweep, [budget EXCEPT !.chase = 0])

MutEnterNewRoomAsksAtOnce ==
    /\ Len(rooms) < MaxRooms
    /\ rooms' = StartRoom(rooms, room, target) /\ room' = Len(rooms) + 1
    /\ heading' = 0
    /\ sweep' = NoRetry /\ budget' = [budget EXCEPT !.chase = 0, !.nudge = 0]
    /\ Enter("await_vlm_step")
    /\ entry' = [entry EXCEPT ![Len(rooms) + 1] = facing] /\ facing' = 0

EnterNewRoom ==
    /\ Len(rooms) < MaxRooms
    /\ rooms' = StartRoom(rooms, room, target)
    /\ room' = Len(rooms) + 1
    /\ heading' = 0
    /\ sweep' = NoRetry
    /\ budget' = [budget EXCEPT !.chase = 0, !.nudge = 0]
    /\ BeginSettle("vlm_step")
    /\ entry' = [entry EXCEPT ![Len(rooms) + 1] = facing]
    /\ facing' = 0

----------------------------------------------------------------------------
(* tick_room_scan: one 0.2 s tick of the timer while EXPLORING.            *)

Exploring(p) == state = "exploring" /\ phase = p

\* A tick that changes no phase: it only publishes the phase's velocity.
TickContinue ==
    /\ state = "exploring"
    /\ \/ phase = "rotating" /\ delta > 0 /\ motion' = "rotate"
       \/ /\ phase \in {"settling", "await_ceiling", "await_label", "await_room_check"}
          /\ motion' = "stop"
       \/ /\ phase \in {"await_vlm_step", "await_obstacle_check"} /\ answer = "pending"
          /\ motion' = "stop"
       \/ phase = "escape_backup" /\ motion' = "backward"
       \/ /\ phase \in {"advance_doorway", "backtrack_advance", "blind_reposition_drive"}
          /\ motion' = "forward"
       \/ phase = "backtrack_advance" /\ motion' = "stop"      \* an obstacle: wait
    /\ UNCHANGED <<mission, walk, heading, sweep, budget, target, awaiting, answer, map, ghost>>

RotationDone ==
    /\ Exploring("rotating")
    /\ motion' = "stop"
    /\ facing' = (facing + delta) % Total
    /\ LET turned == (heading + delta) % Total IN
       \/ /\ next \in {"await_vlm_step", "await_ceiling"}
          /\ BeginSettle(IF next = "await_vlm_step" THEN "vlm_step" ELSE "ceiling")
          /\ heading' = turned
          /\ UNCHANGED <<rooms, budget, target, sweep>>
       \/ /\ next \in {"advance_doorway", "backtrack_advance"}
          /\ Enter(next)
          /\ heading' = turned
          /\ UNCHANGED <<rooms, budget, target, sweep>>
       \/ /\ next = "after_escape_turn_around"
          /\ heading' = turned
          /\ AdvanceAfterLabel(rooms, room, turned, sweep, budget)
       \/ /\ next = "after_backtrack_correct"
          /\ AfterBacktrackCorrect(room)
    /\ UNCHANGED <<mission, awaiting, answer, room, entry>>

SettleDone ==
    /\ Exploring("settling")
    /\ motion' = "stop"
    /\ \/ next = "vlm_step" /\ RequestVlmStep /\ UNCHANGED awaiting
       \/ next = "obstacle_check" /\ RequestObstacleCheck /\ UNCHANGED awaiting
       \/ /\ next = "room_check"
          /\ awaiting' = [awaiting EXCEPT !.check = TRUE, !.analysis = TRUE]
          /\ Enter("await_room_check")
          /\ UNCHANGED answer
       \/ /\ next = "ceiling"
          /\ awaiting' = [awaiting EXCEPT !.ceiling = TRUE, !.analysis = TRUE]
          /\ Enter("await_ceiling")
          /\ UNCHANGED answer
    /\ UNCHANGED <<mission, heading, sweep, budget, target, map, ghost>>

\* The category read off an answer.  Depth may veto an opening (a wall closer than
\* explore_room_scan_wall_distance_m); an unexpected text is judged by its keywords.
StepCategory(text) ==
    CASE text = "DOOR" -> {"door", "none"}
      [] text = "FLOOR" -> {"floor", "none"}
      [] text = "PASS" -> Category
      [] OTHER -> {"none"}

\* Once an answer is there, or the timeout (explore_room_scan_vlm_timeout_seconds) stands in.
ReadyText == IF answer = "pending" THEN TimedOut ELSE answer

VlmStepResult ==
    /\ Exploring("await_vlm_step")
    /\ answer' = "pending"
    /\ \E category \in StepCategory(ReadyText) :
         LET m == AddObservation(rooms, room, heading, category)
             s == [sweep EXCEPT !.done = @ + 1]
         IN
         /\ category # "none" => heading \in OpenAt
         /\ \/ /\ ~SweepOver(s)
               /\ BeginRotate(StepUnits, "await_vlm_step")
               /\ rooms' = m /\ sweep' = s
               /\ UNCHANGED <<budget, target>>
            \/ /\ SweepOver(s) /\ s.retry
               /\ AdvanceAfterLabel(m, room, heading, s, budget)
            \/ /\ SweepOver(s) /\ ~s.retry
               /\ BeginRotate(StepUnits, "await_ceiling")
               /\ rooms' = m /\ sweep' = s
               /\ UNCHANGED <<budget, target>>
    /\ UNCHANGED <<mission, heading, awaiting, room, motion, ghost>>

ObstacleCheckResult ==
    /\ Exploring("await_obstacle_check")
    /\ answer' = "pending"
    /\ \/ /\ ReadyText = "PASS"
          /\ budget' = [budget EXCEPT !.override = @ + 1]
          /\ Enter("advance_doorway")
          /\ UNCHANGED heading
       \/ /\ ReadyText # "PASS"
          /\ AbortAdvance
    /\ UNCHANGED <<mission, sweep, target, awaiting, map, motion, ghost>>

BackupDone ==
    /\ Exploring("escape_backup")
    /\ motion' = "stop"
    /\ \/ /\ budget.nudging
          /\ budget' = [budget EXCEPT !.nudging = FALSE]
          /\ BeginRotate(Nudge, "advance_doorway")
       \/ /\ ~budget.nudging
          /\ BeginRotate(Total \div 2, "after_escape_turn_around")
          /\ UNCHANGED budget
    /\ UNCHANGED <<mission, heading, sweep, target, awaiting, answer, map, ghost>>

\* The time is up, or an obstacle is in front.  The direction it ends up facing becomes heading 0.
BlindDriveDone ==
    /\ Exploring("blind_reposition_drive")
    /\ motion' = "stop"
    /\ sweep' = [done |-> 0, retry |-> TRUE, round |-> 0]
    /\ heading' = 0
    /\ BeginSettle("vlm_step")
    /\ facing' = 0
    /\ UNCHANGED <<mission, budget, target, awaiting, answer, map, entry>>

AdvanceBlocked ==
    /\ Exploring("advance_doorway")
    /\ motion' = "stop"
    /\ BeginObstacleCheck
    /\ UNCHANGED <<mission, sweep, target, awaiting, answer, map, ghost>>

AdvanceDone ==
    /\ Exploring("advance_doorway")
    /\ motion' = "stop"
    /\ BeginSettle("room_check")
    /\ UNCHANGED <<mission, heading, sweep, budget, target, awaiting, answer, map, ghost>>

\* room_scan_finish_backtrack: back in the parent, turn to its heading 0 again.
BacktrackDone ==
    LET parent == RoomAt(rooms, room).parent
        correction == ParentCorrection(RoomAt(rooms, room).via)
    IN
    /\ Exploring("backtrack_advance")
    /\ motion' = "stop"
    /\ room' = parent
    /\ \/ /\ correction = 0
          /\ AfterBacktrackCorrect(parent)
       \/ /\ correction # 0
          /\ BeginRotate(correction, "after_backtrack_correct")
          /\ UNCHANGED <<heading, rooms, budget, target, sweep>>
    /\ facing' = (facing + entry[room]) % Total
    /\ UNCHANGED <<mission, awaiting, answer, entry>>

TickProgress ==
    \/ RotationDone \/ SettleDone \/ VlmStepResult \/ ObstacleCheckResult \/ BackupDone
    \/ BlindDriveDone \/ AdvanceBlocked \/ AdvanceDone \/ BacktrackDone

----------------------------------------------------------------------------
(* The other callbacks of the node, which run between two ticks.           *)

\* on_vlm_explore_observation.  Nobody reads a text that comes outside these two phases: the
\* next request clears it.
OnVlmExploreObservation ==
    /\ phase \in {"await_vlm_step", "await_obstacle_check"}
    /\ answer' \in Texts
    /\ UNCHANGED <<mission, walk, heading, sweep, budget, target, awaiting, map, motion, ghost>>

\* on_vlm_observation: whatever the ceiling VLM says is taken as the answer that is awaited,
\* room check first, then ceiling, then the admin's analysis.
RoomCheckAnswer ==
    /\ awaiting.check
    /\ awaiting' = [awaiting EXCEPT !.check = FALSE, !.analysis = FALSE]
    /\ \/ EnterNewRoom /\ UNCHANGED target
       \/ SameRoomContinue /\ UNCHANGED <<room, heading, ghost>>
    /\ UNCHANGED <<mission, answer, motion>>

MutCeilingAnswerKeepsFlag ==
    /\ ~awaiting.check /\ awaiting.ceiling
    /\ room \in DOMAIN rooms
    /\ BeginAwaitLabel([awaiting EXCEPT !.analysis = FALSE])
    /\ UNCHANGED <<mission, heading, sweep, budget, target, answer, map, ghost>>

CeilingAnswer ==
    /\ ~awaiting.check /\ awaiting.ceiling
    /\ room \in DOMAIN rooms
    /\ BeginAwaitLabel([awaiting EXCEPT !.ceiling = FALSE, !.analysis = FALSE])
    /\ UNCHANGED <<mission, heading, sweep, budget, target, answer, map, ghost>>

\* explore_graph.set_ceiling_description raises KeyError for a room that is gone.
CeilingAnswerForGoneRoom ==
    /\ ~awaiting.check /\ awaiting.ceiling
    /\ room \notin DOMAIN rooms
    /\ awaiting' = [awaiting EXCEPT !.ceiling = FALSE, !.analysis = FALSE]
    /\ alive' = FALSE
    /\ UNCHANGED <<state, walk, heading, sweep, budget, target, answer, map, motion, ghost>>

MutAnalysisAnswerStopsAnyMission ==
    /\ ~awaiting.check /\ ~awaiting.ceiling /\ awaiting.analysis
    /\ awaiting' = [awaiting EXCEPT !.analysis = FALSE]
    /\ state' = "stopped" /\ motion' = "stop"
    /\ UNCHANGED <<alive, walk, heading, sweep, budget, target, answer, map, ghost>>

AnalysisAnswer ==
    /\ ~awaiting.check /\ ~awaiting.ceiling /\ awaiting.analysis
    /\ awaiting' = [awaiting EXCEPT !.analysis = FALSE]
    /\ IF state = "inspecting"
       THEN state' = "stopped" /\ motion' = "stop"
       ELSE UNCHANGED <<state, motion>>
    /\ UNCHANGED <<alive, walk, heading, sweep, budget, target, answer, map, ghost>>

OnVlmObservation ==
    RoomCheckAnswer \/ CeilingAnswer \/ CeilingAnswerForGoneRoom \/ AnalysisAnswer

MutOnAdminTextKeepsFlag ==
    /\ state = "exploring" /\ awaiting.label
    /\ AdvanceAfterLabel(rooms, room, heading, sweep, budget)
    /\ UNCHANGED <<mission, heading, awaiting, answer, room, motion, ghost>>

\* on_room_scan_label: a label and a skip continue alike.
OnAdminText ==
    /\ state = "exploring" /\ awaiting.label
    /\ awaiting' = [awaiting EXCEPT !.label = FALSE]
    /\ AdvanceAfterLabel(rooms, room, heading, sweep, budget)
    /\ UNCHANGED <<mission, heading, answer, room, motion, ghost>>

\* start_explore and start_room_scan_explore: a fresh root room, its heading 0 ahead.
StartExplore ==
    /\ "explore_start" \in Commands
    /\ Len(rooms) < MaxRooms
    /\ Cardinality({r \in DOMAIN rooms : rooms[r].via = NoStep}) < MaxRoots
    /\ state' = "exploring"
    /\ rooms' = StartRoom(rooms, NoRoom, NoStep)
    /\ room' = Len(rooms) + 1
    /\ heading' = 0
    /\ sweep' = NoRetry
    /\ budget' = [budget EXCEPT !.chase = 0, !.nudge = 0, !.nudging = FALSE]
    /\ awaiting' = [awaiting EXCEPT !.label = FALSE, !.ceiling = FALSE, !.check = FALSE]
    /\ RequestVlmStep
    /\ facing' = 0 /\ entry' = [r \in 1..MaxRooms |-> 0]
    /\ UNCHANGED <<alive, target, motion>>

StopExploring ==
    /\ state' = "stopped" /\ motion' = "stop"
    /\ Enter("none")
    /\ awaiting' = [awaiting EXCEPT !.label = FALSE, !.ceiling = FALSE, !.check = FALSE]

StopPatrolling ==
    /\ state' = "stopped" /\ motion' = "stop"
    /\ UNCHANGED <<walk, awaiting>>

\* A bare stop gets here only from an operator's terminal: as a routed command its type is
\* normalized to patrol_stop (see AdminLink).
Stop ==
    /\ \/ "explore_stop" \in Commands /\ StopExploring
       \/ "patrol_stop" \in Commands /\ StopPatrolling
       \/ /\ "stop" \in Commands
          /\ IF state = "exploring" THEN StopExploring ELSE StopPatrolling
    /\ UNCHANGED <<alive, heading, sweep, budget, target, answer, map, ghost>>

\* patrol_start, go_home, follow_person, the manual moves, inspect of a taught location:
\* as far as the explorer goes they only change the state.
StartOtherMission ==
    /\ "go_home" \in Commands
    /\ state' = "driving"
    /\ UNCHANGED <<alive, walk, heading, sweep, budget, target, awaiting, answer, map, motion,
                   ghost>>

\* start_inspect of an unknown place, and analyze: request_analysis marks the answer as awaited.
RequestAnalysis ==
    /\ \/ "inspect" \in Commands /\ state' = "inspecting"
       \/ "analyze" \in Commands /\ UNCHANGED state
    /\ awaiting' = [awaiting EXCEPT !.analysis = TRUE]
    /\ UNCHANGED <<alive, walk, heading, sweep, budget, target, answer, map, motion, ghost>>

MutResetExploreMapAnytime ==
    /\ "explore_map_reset" \in Commands
    /\ rooms' = <<>>
    /\ UNCHANGED <<mission, walk, heading, sweep, budget, target, awaiting, answer, room,
                   motion, ghost>>

\* reset_explore_map refuses while exploring; the current room id stays as it is.
ResetExploreMap ==
    /\ "explore_map_reset" \in Commands
    /\ state # "exploring"
    /\ rooms' = <<>>
    /\ UNCHANGED <<mission, walk, heading, sweep, budget, target, awaiting, answer, room,
                   motion, ghost>>

OnMissionCommand ==
    StartExplore \/ Stop \/ StartOtherMission \/ RequestAnalysis \/ ResetExploreMap

\* drive_loop in the other states: another mission moves, or ends by itself (a timed move, a
\* replay or a pose goal that is over; the last two ask for an analysis).
OtherTick ==
    /\ \/ /\ state = "driving"
          /\ motion' \in {"drive", "stop"}
          /\ UNCHANGED <<state, awaiting>>
       \/ /\ state = "driving"
          /\ state' = "stopped" /\ motion' = "stop"
          /\ \E ask \in BOOLEAN : awaiting' = [awaiting EXCEPT !.analysis = @ \/ ask]
       \/ /\ state \in {"idle", "stopped", "inspecting"}
          /\ motion' = "stop"
          /\ UNCHANGED <<state, awaiting>>
    /\ UNCHANGED <<alive, walk, heading, sweep, budget, target, answer, map, ghost>>

Next ==
    /\ alive
    /\ \/ TickContinue \/ TickProgress \/ OtherTick
       \/ OnVlmExploreObservation
       \/ OnVlmObservation \/ OnAdminText \/ OnMissionCommand

Spec == Init /\ [][Next]_vars

\* The 0.2 s timer keeps firing and every timed phase ends; the ceiling VLM goes on reporting.
Fairness == WF_vars(alive /\ TickProgress) /\ WF_vars(alive /\ RoomCheckAnswer)

FairSpec == Spec /\ Fairness

----------------------------------------------------------------------------
(* Properties.                                                             *)

\* After a doorway was chosen and until it is given up or passed, the turns towards it aside.
Pursuing ==
    /\ state = "exploring"
    /\ \/ phase \in {"advance_doorway", "await_obstacle_check", "await_room_check"}
       \/ phase = "settling" /\ next \in {"obstacle_check", "room_check"}

\* With the ways from one attempt to the next: backing off, nudging, turning around, turning to
\* another doorway of the room.
AtDoorways ==
    \/ Pursuing
    \/ /\ state = "exploring"
       /\ \/ phase = "escape_backup"
          \/ phase = "rotating" /\ next \in {"advance_doorway", "after_escape_turn_around"}

\* Turning, settling or looking, on the way round a sweep.
InSweep ==
    \/ phase = "await_vlm_step"
    \/ phase = "rotating" /\ next = "await_vlm_step"
    \/ phase = "settling" /\ next = "vlm_step"

Sweeping == state = "exploring" /\ InSweep

\* While exploring, the current room is in the map and every room of the mission was entered
\* from an earlier one of the same mission: backtracking never reads a room that is not there
\* and always ends at the root (explore_graph lookups by room_scan_current_room_id).
MissionTree ==
    state = "exploring" =>
      room \in DOMAIN rooms /\ InMission(rooms, room) /\ WellParented(rooms)

\* While exploring, the flags by which on_vlm_observation and on_admin_text route what comes
\* agree with the phase tick_room_scan is in, whatever commands and answers came in between:
\* no phase waits for what would be routed elsewhere, and nothing is routed to a phase that is
\* over.  Which question an answer is to, no flag says.
PhaseMatchesFlags ==
    state = "exploring" =>
      /\ awaiting.label <=> phase = "await_label"
      /\ awaiting.ceiling <=> phase = "await_ceiling"
      /\ awaiting.check <=> phase = "await_room_check"

\* The retry counters never pass their limits, through every order of blocked and clear
\* advances, overrides, nudges, same-room verdicts and backtracks; a sweep takes no more
\* than one turn.
WithinBudgets ==
    /\ budget.override <= MaxOverrides
    /\ budget.chase <= MaxChase
    /\ budget.nudge <= MaxNudges
    /\ sweep.done <= Headings

\* While a doorway is pursued the believed heading is the doorway's, give or take the nudges,
\* and the doorway is already marked tried in the room it belongs to.
AimsAtDoorway ==
    Pursuing =>
      /\ heading \in {(target + k * Nudge) % Total : k \in 0..MaxNudges}
      /\ target \in rooms[room].tried

\* The robot goes back to the parent only from a room with no untried opening left
\* (room_scan_begin_backtrack_or_finish).
BacktrackOnlyWhenExhausted ==
    state = "exploring" /\ phase = "backtrack_advance" =>
      rooms[room].via # NoStep /\ UntriedMovable(rooms, room) = {}

\* The ceiling question and the label prompt come after every heading of the circle was
\* looked at from this room (room_scan_process_vlm_step_result).
SweepCoversCircle ==
    state = "exploring" /\ phase \in {"await_ceiling", "await_label"} =>
      \A i \in 0..(Headings - 1) : rooms[room].first[i * StepUnits] # "unseen"

\* Without nudges the dead reckoning is exact: through sweeps, shifted retries, turn-arounds,
\* repositioning, new rooms and backtracks over several rooms, heading_step is where the robot
\* really faces, but for the turn that restores the parent's heading 0, which ends at 0.
TrueHeading ==
    state = "exploring" /\ MaxNudges = 0 =>
      IF phase = "rotating" /\ next = "after_backtrack_correct"
      THEN (facing + delta) % Total = 0
      ELSE facing = heading

\* Driving back to the parent, the robot faces the very opposite of the direction it came in,
\* which is heading 0 here and was `via` there; half a heading short of it where their number
\* is odd (total_steps // 2).
BacktrackReversesEntry ==
    state = "exploring" /\ MaxNudges = 0 /\ phase = "backtrack_advance" =>
      /\ 2 * facing = IF Headings % 2 = 0 THEN Total ELSE Total - StepUnits
      /\ entry[room] = rooms[room].via

\* Nothing but a command ends the exploration: not an empty sweep, not an answer, not an
\* obstacle (the comment in room_scan_begin_backtrack_or_finish).
LeavesExploringOnlyByCommand ==
    [][state = "exploring" /\ state' # "exploring" =>
         Stop \/ StartOtherMission \/ RequestAnalysis]_vars

\* What makes the above inductive.  A mission that merely suspends the exploration leaves its
\* phase, flags and counters as they are, so these hold in every mission state; and only a
\* node that is not exploring can meet an answer for a room that is gone.
Returning == phase = "backtrack_advance" \/ (phase = "rotating" /\ next = "backtrack_advance")

Overriding ==
    phase = "await_obstacle_check" \/ (phase = "settling" /\ next = "obstacle_check")

FlagsFollowPhase ==
    alive =>
      /\ awaiting.label <=> phase = "await_label"
      /\ awaiting.ceiling <=> phase = "await_ceiling"
      /\ awaiting.check <=> phase = "await_room_check"

\* The inductive invariant behind the properties above, in every mission state.
Inductive ==
    /\ TypeOK /\ MissionTree /\ WithinBudgets /\ FlagsFollowPhase
    /\ state = "exploring" => alive
    /\ Len(rooms) <= MaxRooms
    /\ InSweep => sweep.done < Headings
    /\ Overriding => budget.override < MaxOverrides
    /\ state = "exploring" /\ Returning =>
         rooms[room].via # NoStep /\ UntriedMovable(rooms, room) = {}

Asking == {"await_vlm_step", "await_ceiling", "await_room_check", "await_obstacle_check"}

\* But for explore_start itself, the node asks a VLM only out of the settling phase, standing.
AsksOnlyAfterSettling ==
    [][phase' \in Asking /\ phase' # phase =>
         StartExplore \/ (phase = "settling" /\ motion' = "stop")]_vars

\* A sweep, its retries included, comes to an end whatever the explore VLM answers or fails to.
SweepEnds == Sweeping ~> ~Sweeping

\* The doorways of a room are given up or passed in the end: no cycle of overrides, nudges,
\* escapes and same-room verdicts, at one doorway or going from one to another, is taken for
\* ever.  The robot enters a new room, goes back to the parent, or sweeps again.
PursuitEnds == AtDoorways ~> ~AtDoorways

\* The explorer as those who talk to it see it: whatever the walk, the label prompt follows
\* LabelPrompt, which AdminLink puts opposite the LLM node.
Prompt == INSTANCE LabelPrompt WITH
    exploring <- state = "exploring", label <- awaiting.label, ceiling <- awaiting.ceiling

KeepsPrompt == Prompt!Spec

----------------------------------------------------------------------------
(* What comments of the code say and the code does not do.                 *)

\* A node that publishes awaiting_label = True takes the next admin text for a label.
LabelAskedOnlyWhileExploring == awaiting.label => state = "exploring"

\* A room id never points at a deleted room when an answer comes.
NeverWritesToGoneRoom == alive
=============================================================================
