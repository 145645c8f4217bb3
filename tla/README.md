# Verification of the CCAI JetBot patrol robot

TLA+ models of the control logic of `ccai_jetbot_patrol`, the ROS 2 package that lets a
JetBot patrol, explore a flat room by room and obey an admin who writes to it. TLC checks the
models on small instances; TLAPS proves the main results for every value of the constants.

Paths below are relative to `src/ccai_jetbot_patrol/ccai_jetbot_patrol/`.

## The system

Each node is a process with a single-threaded executor: its callbacks (topics, timers) never
overlap, but they come in any order, and a few nodes start threads that run beside them. The
nodes share nothing but topics, which are queues (depth 10, keep last) without any order
between one topic and another, and a few JSON files that one node owns.

| component | state it keeps | operations | what makes it correct |
|---|---|---|---|
| room-scan explorer (`patrol_node.py`, `tick_room_scan`) | phase, heading, sweep and retry counters, pending doorway, awaiting flags, current room | a 0.2 s tick per phase, VLM answers, the label text, start and stop | dead reckoning adds up over rooms; retry limits hold; answers reach the phase that asked; it ends only when told to, and nothing in it goes on for ever |
| topological map (`explore_graph.py`) | rooms, observations, next id, a JSON file | start_room, add_observation, mark_observation_tried, reset, save, load | rooms form a tree; what a crash leaves behind is readable |
| missions and drive loop (`patrol_node.py`) | mission state and its clock, manual move, recording, replay, pose goal, speed | mission commands, drive_loop | one mission moves the robot at a time; a timed move lasts as long as it should |
| mission parser (`mission.py`) | none | text or JSON to a command | a command means the same typed or routed |
| LLM control (`llm_control_node.py`) | awaiting-label belief, threads | admin text, flag, LLM answers | a text is acted on once; commands keep their order |
| VLM clients (`vlm_client_node.py`, two instances) | inflight, triggered, pending question | trigger, frame, analysis thread | one request at a time; no question lost or repeated |
| location store (`locations.py`) | label -> moves, features, pose, in a JSON file | set, delete, set_features, set_pose | a deleted label stays deleted |
| depth and vision navigation (`depth_nav_node.py`, `vision_nav_node.py`) | avoidance direction, its start, frame caches, the mission last told | depth and image frames, mission status, watchdogs | an obstacle that stays in front stops forward motion; orders do not outlive frames |
| hardware (`jetbot_hardware_node.py`) | last command time, motors, motor backend, battery, display | cmd_vel, watchdog timer, respawn | the motors stop when the commands stop, and obey again after a respawn |
| camera (`camera_node.py`) | capture, retry rounds | open, read, reopen | a camera that comes back is used again |
| visual odometry (`visual_odom_node.py`) | pose, the previous frame | colour and depth frames | a pose means a place |
| TensorRT wrapper | engine | frames | numeric, out of reach here |
| web chat | message log | HTTP requests | relays what it gets |
| Telegram bridge (`telegram_bridge_node.py`) | update offset, failures, backoff | polling | no text is lost, none published twice by one run, order is kept |
| OTA agent (`ota_agent_node.py`) | version file, source tree | check, pull, build | a half-done update is taken up again; what is recorded was done |

How they interact: a text from the web page or Telegram goes out on `/ccai/admin_text`, which
both `patrol_node` (as a room label, when it waits for one) and `llm_control_node` (as a
command, when it does not) read; `patrol_node` announces on `/ccai/awaiting_label` which of
the two it is. Commands reach `patrol_node` on `/ccai/mission_command`. While exploring, it
triggers one VLM client per heading and per obstacle, the other one per ceiling and per new
room; the answers come back on two topics, without the question they answer. Navigation nodes
publish obstacles and suggested velocities, and `patrol_node` publishes `/cmd_vel`, which the
hardware node obeys until its watchdog finds it too old.

The hard behaviours: answers that outlive the question or the mission (`patrol_stop` clears
no explorer state), two processes reading one text, modular angle arithmetic over many rooms,
four nested retry counters that reset one another, one-slot buffers between callbacks and
threads, files rewritten in place. `PROJECT.json` lists them line by line as hazards.

## The modules

| module | models | composed with |
|---|---|---|
| `RoomMap` | the map as the explorer reads it back | instance in `RoomScan` |
| `RoomScan` | the explorer: all phases, answers, texts, commands | |
| `MCRoomScan` | sets of commands and bearings for TLC | extends `RoomScan` |
| `LabelPrompt` | abstract: when a label is asked for, given, withdrawn | implemented by `RoomScan` |
| `AdminLink` | an admin's texts, the LLM node, the patrol node, four topics | instance of `LabelPrompt` |
| `MCAdminLink` | kinds of text for TLC | extends `AdminLink` |
| `VlmClient` | one VLM client: trigger, frame, thread, publication | |
| `VlmLink` | the client and the explorer that asks it | extends `VlmClient` |
| `RoomScanProofs` | the inductive invariants of `RoomScan`: tree, budgets, flags; then aim, sweeps, dead reckoning | extends `RoomScan` |
| `LabelPromptProofs` | `RoomScan` implements `LabelPrompt` | extends `RoomScanProofs` |
| `AdminLinkProofs` | the flag told is the patrol node's; order and fate of the texts | extends `AdminLink` |
| `LocationStore` | what is stored under a label, and every operation on it | extended by `PatrolDrive` |
| `PatrolDrive` | the other missions: moves by hand, recording, replay, pose goals, patrols, exploring for names | extends `LocationStore` |
| `MCPatrolDrive` | sets of commands, moves and sensors for TLC | extends `PatrolDrive` |
| `PatrolDriveProofs` | types, standing when stopped or naming, nothing old steers, routes kept and driven | extends `PatrolDrive` |
| `VlmLinkProofs` | one request at a time; no question repeated, no answer used twice | extends `VlmLink` |
| `Clocks` | timestamps as ages | used by `PatrolDrive`, `Avoidance`, `Motors` |
| `Avoidance` | `compute_patrol_command` of both navigation nodes: an episode of avoidance | extended by `DriveChain` |
| `Motors` | the hardware node: command, watchdog, end, respawn | extended by `DriveChain` |
| `DriveChain` | camera, navigation, patrol node, `/cmd_vel`, motors | extends `Avoidance`, `Motors` |
| `MCDriveChain` | the missions for TLC | extends `DriveChain` |
| `DriveChainProofs` | types and all five safety properties of the chain | extends `DriveChain` |
| `KeptFiles` | the two JSON files of `patrol_node`: save, kill, load | extended by `RobotMemory` |
| `Odometry` | which frames count, what a restart forgets | extended by `RobotMemory` |
| `RobotMemory` | rooms and named spots through restarts, with the poses stored for them | extends `KeptFiles`, `Odometry` |
| `RobotMemoryProofs` | a restart at rest loses nothing | extends `RobotMemory` |
| `TelegramBridge` | polling, offset, backoff, and the server's memory | extended by `RemoteServices` |
| `OtaAgent` | check, pull, build, version file | extended by `RemoteServices` |
| `RemoteServices` | both in a container that is restarted at any moment | extends `TelegramBridge`, `OtaAgent` |
| `RemoteProofs` | no text forgotten, once and in order, nothing recorded that was not pulled | extends `RemoteServices` |

### RoomScan and RoomMap

State: `state` is the mission state (`driving` stands for every moving mission but the
exploration), `phase` is `room_phase`, `next` merges `room_scan_next_phase` and
`room_scan_settle_next`, `delta` is `room_scan_rotate_delta`, `sweep`, `budget` and `awaiting`
are records of the counters and flags of the same names, `answer` is `room_scan_vlm_text`
once it is ready, `rooms` is the graph. `motion` is the last velocity published.

One action per place where a tick ends a phase (`RotationDone`, `SettleDone`,
`VlmStepResult`, `ObstacleCheckResult`, `BackupDone`, `BlindDriveDone`, `AdvanceBlocked`,
`AdvanceDone`, `BacktrackDone`), one for a tick that does not (`TickContinue`), one per answer
(`OnVlmExploreObservation`, `RoomCheckAnswer`, `CeilingAnswer`, `CeilingAnswerForGoneRoom`,
`AnalysisAnswer`), one for the label text and one per kind of command. The helpers keep the
names of the methods they translate, and each action is the whole handler, including
everything the methods it calls change.

Abstractions:
- *Time*: a timed phase may end at any of its ticks. This covers every setting of the
  durations and every delay, and loses nothing the properties speak of.
- *Angles* are integers, `StepUnits` to a heading step. The code keeps floats modulo the
  number of headings; its shifts 0.5, 0.25 and 0.75 are exact in both. The nudge (0.15 in the
  code) is an integer too, so the rounding of repeated nudges is not modelled.
- *Observations*: per room and bearing, only the category of the first entry, the categories
  of the untried movable ones and whether one is tried, because the code reads nothing else.
- *Which doorway*: among equals the score mixes the ceiling's hint with a measured distance;
  any may win.
- *VLM answers* may come at any moment; their text is reduced to what is parsed out of it.
- *The map at start-up* is empty, and `explore_room_scan_mode` is on, as in `robot.yaml`.
- A bare stop reaches this node only when an operator types it on the topic: `AdminLink` shows
  why. It stays among the commands.

`PursuitEnds` takes the doorways of a room together (`AtDoorways`): the turn to one, the drive, the
obstacle check, the backup and the nudges between two tries, the new-room check and the next doorway are one
stay, which has to end with the retry sweep, in another room, or on the way back. A cycle of any of them
is one that it would catch.

`facing` and `entry` are ghosts: where the robot really faces, from heading 0 of its room, and
by which bearing it really entered. They follow physical turns only, so that
`TrueHeading` and `BacktrackReversesEntry` compare bookkeeping with geometry.

### LabelPrompt and AdminLink

`LabelPrompt` is what the rest of the system may rely on about label questions, in four
variables. `RoomScan!KeepsPrompt` says that the explorer implements it (checked and proved).
`AdminLink` takes that abstraction instead of the whole explorer and adds what the two nodes
do with texts, flags and commands. Topics are unbounded queues here because at most `MaxTexts`
texts are written, well below their depth of 10. `Operate` is the operator of
`docs/operations.md` who types on `/ccai/mission_command`. `alive` never changes here: no
map reset is among the commands. An LLM may read any command into a text.

ROS orders nothing across topics, so a reply may be read before the flag it follows. That is
not far-fetched: `check_llm` holds the executor of `llm_control_node` for up to 5 s every 30 s,
and of two waiting messages the text is served first, being subscribed to first.

### VlmClient and VlmLink

`VlmClient` has one action per callback and two for the thread, since `inflight = False`
comes after the publication. `due` is `now - last_request_at >= min_interval_seconds`; it
starts either way, because `last_request_at` starts at 0 on a clock that counts from the start
of the machine. Queues lose their oldest message when full. `VlmLink` adds the explorer:
`Ask`, the observation callback that stores whatever comes, and `Conclude`, the tick that
takes it or, after 15 s, gives up. An ambient client (`Ambient = TRUE`) has the behaviours of
the other one and more, so the passing run uses it.

### LocationStore and PatrolDrive

`PatrolDrive` is `drive_loop` and the callbacks that set its mission. `roomScan` is
`explore_room_scan_mode`, off by the defaults of the code and on in `robot.yaml`; where it is on the
room scan takes the place of exploring for names (it has priority over
`explore_frontier_mode`, which is `Frontier`). `RoomScan` has all of it; here it is reduced
to what the other missions notice of it:

- *The room scan* is `scan`: whose answer it waits for, while it is under way and after a
  `patrol_stop` or another mission has left it behind. `OnVlmObservation` has all three branches of the
  code: what arrives is taken for the answer to a room check, then for that to a ceiling question, and
  only then for the snapshot somebody has asked for, and each takes `pending_analysis` away, whatever the
  mission. `TickRoomScan` stands while it waits and moves or asks else. The tick
  that finds a look's answer orders nothing, so that right after `explore_start` an order of the
  mission before stands for one more period: `wheels = "left"`, which `SteersInTime` therefore
  does not speak of.

- *Time* is counted in periods of `drive_loop`'s timer: `Pass` makes every clock one period
  older and the timer run out (`due`), `DriveLoop` is its callback, and any number of other
  callbacks may run before and after it. A clock is the age of a timestamp (`since` of
  `state_changed_at`, `replay.clock` of `replay_step_started_at`, ...), `Never` before it is
  first set, and stops one period past the largest value it is compared with.
- *Driving*: `wheels` is by whose order the last `/cmd_vel` was published: a manual or taught
  move, the vision node's command, steering to a point, the pattern of patrolling without
  vision ("cruise"), the room scan ("scan"), or nobody ("still"). Speed, ramps, the pattern's phases and the geometry
  are left out; whether a target is reached is open.
- *Sensors*: `OnSensor` is a vision command, a pose or a change of the obstacle flag; a run
  says which of them there are. `use_vision_cmd_vel` and `safe_stop_on_idle` are on, as in
  `robot.yaml`.
- *The store* keeps for a label its moves and whether there are features and a pose. `captures`
  are the requests to `vision_nav_node` without a result; a result finds features or fails. The
  match requests on arrival only lead to an event and are left out, as are commands that
  only publish one (`status`, `say`, `location_list`) or set the speed.
- `driven` is a ghost: the periods in which a move turned the wheels since the replay began.
- *An answer left behind* may interfere with a mission that has nothing to do with the room scan. A room
  check takes the snapshot of an inspection (`InspectionKeepsSnapshot` excepts that and nothing
  else), and a ceiling question stops whatever is driving: `room_scan_begin_await_label` calls
  `stop_motion`, and `drive_loop` orders a replay's step again in the next period, or in
  the one after it if the step ends just then. `ReplayDrivesRoute` allows for these two periods
  once such an answer has come, and for none otherwise.

### Clocks, Avoidance, Motors and DriveChain

`DriveChain` follows a frame from the camera to the wheels, through four processes that know
of one another by topics only. `PatrolDrive` looks into the missions and takes vision commands
as an input; here the missions are reduced to the three that the cameras have a say in and an inspection, which
stands, and everything around them is there.

- *Who drives*: `driver` is the node whose frames drive a patrol. `robot.yaml` gives that to
  the depth camera (`drive_enabled: false` for `vision_nav_node`), the defaults of the code and of the
  launch file to the colour camera; both are initial states. Whichever it is,
  `vision_nav_node` follows persons and reports invalid images.
- *Who knows what*: the navigation nodes read the mission off `/ccai/status`, which the patrol
  node publishes on a heartbeat (`PublishStatus`) and after some commands; `told` is the last one
  published, so a patrol that began or ended a moment ago is not known of yet.
- *Time* is counted in periods of `drive_loop`, as in `PatrolDrive`; `Pass` may not overtake a
  timer: `drive_loop`, the heartbeat, the hardware watchdog and the respawn happen in the
  period they are due in. A message takes no time compared with a period. Cameras are free:
  frames, invalid frames and the silence the watchdogs notice come at any moment, or never.
- *Episodes*: `avoiding`, `quiet`, `turning` and `streak` are `obstacle_avoidance_direction`,
  the age of `obstacle_avoidance_until`'s last setting, of `obstacle_avoidance_started_at`, and
  the number of clear frames. The pulse (turn, pause, turn) depends on the clock and is left open.
  Steering and the speed ramp are left out.
- *Ends*: a navigation node that ends sends a zero order and is silent, which a living node may
  be too. The patrol node ends with or without a zero command and nobody starts it again. The
  hardware node ends with the motors stopped or, when the bus fails, turning; it is the one
  node with `respawn=True`. It comes back with its backend or, if the chip does not answer,
  with the one that ignores commands (`hw = "null"`): then nothing stops motors that were left
  turning. The properties say so by asking for `hw = "up"` or a failure (`gone`).
- "stopped" is STOPPED, into which every stop and every arrival goes with a `stop_motion`.
  `start_inspect` enters INSPECTING without one, so an inspection that replaces a patrol stands from the
  next period of `drive_loop` on (`Standing`), and `StopReachesMotors` speaks of "stopped" only.
  Moves by hand and exploring forward follow the same gate as a patrol and are left to
  `PatrolDrive`.

### KeptFiles, Odometry and RobotMemory

`Change` is any setter of `RoomGraph` or `LocationStore` up to the point where `save()` has
emptied the file, `Save` the rest of it. `Ends` may come in between, and leaves the file cut
between two characters, or within one: the labels are Korean and the file is UTF-8 with
`ensure_ascii=False`. `load()` reads the first as an empty file (`JSONDecodeError`), and does
not catch the second (`UnicodeDecodeError`): the node ends at every start, `stuck`, until somebody
removes the file. What `write_text` has closed counts as kept; a power cut that the disk's cache does not
survive is outside.

`Odometry` puts the robot on a line of places, and takes what two matched frames say as exact,
so that what remains is the bookkeeping: a frame is compared with the one before it, whether
that one was matched or not, and a restart begins at zero. `RobotMemory` names spots with such
poses, keeps them in `KeptFiles`, and restarts the nodes. Its properties compare `pose` with
`place`, a ghost.

### TelegramBridge, OtaAgent and RemoteServices

`Write` and `Confirm` are Telegram's server as `poll` uses it: it keeps the updates until a
request asks for those from a later offset on. A request may be lost or its answer
(`PollFails`), each failure doubles the wait, and the exponent has an end: with 1024 failures
in a row, `poll_seconds * 2 ** n` raises an `OverflowError` in the `except` clause and
the node ends; nobody starts it again. `MaxExponent` is that end.

`OtaAgent` is `check_once` and `apply_manifest` with `auto_apply`; each step may fail or be cut
off. Whoever releases a version pushes its commit before naming it in the manifest (`Push`,
`Announce`). `Build` succeeds as a script whether colcon built or not. `OpenVersionFile`
and `WriteVersionFile` are `write_text`, which empties the file first. `RemoteServices` restarts both,
with the container, at any moment.

## The runs

| run | bounds | shows |
|---|---|---|
| `scan_walk` | 4 headings of 4 units, 3 rooms, limits 1, nudges, start and stop | types, budgets, aim, complete sweeps, no early backtrack, no question before settling; sweeps end, and so does what the robot does at a room's doorways |
| `scan_commands` | the same without nudges, all commands, 3 rooms | tree, routing, exact dead reckoning, `LabelPrompt`, exploring ends only by command |
| `admin_link` | 3 texts or operator commands of 5 kinds | flag told without gap, nothing lost while question and mission stand, order of command words |
| `vlm_link` | 3 questions, queues of depth 2, scans of the client's own | one request, no question lost, repeated or overtaken, no answer used twice |
| `drive_teach` | one label, recordings of up to 2 moves of 3 periods, one capture under way, a room scan that may be left behind | a stopped robot stands, routes are kept, a replay drives all of its route |
| `drive_roam` | timeouts of one period, all sensors, frontier mode or room scan | nothing old steers, standing while asking, an inspection keeps its snapshot unless a question left behind takes it; waiting for a name and driving to a pose end |
| `drive_chain` | timeouts of one period, heartbeat 2, episodes of up to 2, both drivers, all missions | motors on a lease, nobody's motion ends, motion by recent frames only, a stopped robot's motors stand, a patrol yields to an obstacle that stays |
| `robot_memory` | 2 places, 2 rooms, one spot, motion lost up to 1 | at rest, files and memory agree, through kills and restarts |
| `remote` | 2 texts, 2 versions, one restart, backoff up to 3 polls, exponents up to 2 | published once and in order, nothing forgotten, recorded means pulled; texts arrive and updates settle |
| `admin_stop`, `odom_place`, `ota_unbuilt` | as above, or smaller | what a comment, document or message says and the code does not do: see below |

Why the bounds are enough: four headings is the least the code allows and what `robot.yaml`
sets; four units per step is what the quarter shifts need; every limit is exercised at its
boundary by one, since the counters are compared with nothing but their limits; three rooms
give a backtrack to a room that is not the root. `OpenAt` keeps the openings the
cameras report to one bearing (shifted sweeps still see or miss it). Three questions let an
answer be late by more than one; two messages overflow the queues. `MaxRoots` counts the
missions whose rooms are on the map. Two moves of three periods make a recording that a
stop or a second move can cut at every place; turns differ from straight moves in nothing but their
duration, which the proofs leave open; a timeout of one period has a moment
before, at and after it, and clocks are compared with nothing else; one label is enough
because no operation looks at two.
In `drive_chain` a heartbeat of two periods lets a status be late by less and by more than a
vision timeout, and two clear frames with a hold of one period let the hold or the count be the
last to end an episode. Two places are one motion to lose and one to find again; two texts can
be in one response or in two, with a restart between; two versions let a manifest change while
the first is being built, and one restart falls on every step.

`CHECK_DEADLOCK FALSE` except for the drive runs, whose timers never stop, and the memory runs,
whose robot can always be moved: elsewhere the node
really may end (an exception in a callback ends
its spin), and the bounds on rooms, texts and questions stop the environment.

Fairness. `scan_walk`: the 0.2 s timer keeps firing, so that a phase that can end does
(`WF TickProgress`; the phases are timed, and the wait for the explore VLM has a timeout, so no
answer of it is assumed); and the ceiling VLM goes on reporting (`WF RoomCheckAnswer`), because
its client scans on its own every 5 s and any observation counts as the answer. The admin is
not assumed to answer. `vlm_link`: frames keep coming, the executor reads triggers, and a
request ends, answered or not, within its timeout. `drive_roam`: the timer runs out and its
callback runs (`WF Pass`, `WF DriveLoop`). No answer, name, pose or vision command is assumed.
`PoseGoalEnds` excepts obstacles that keep coming, since the check for them returns before the
timeout is looked at, and a robot that is sent there again and again. `remote`: the poll timer
runs (`WF Backoff`, `WF TakeUpdate`), and the network, pull and build are only asked not to fail every time they
are tried (`SF Poll`, `SF Pull`, `SF Build`): polls are tried every few seconds and updates every
`check_interval_seconds`, for ever. `TextArrives` excepts a bridge that has ended by the overflow.

The type invariants of the modules that have none among the properties of a run were checked the
same way while they were written, and are proved, but for the one of `RemoteServices`: add
`INVARIANT TypeOK` to `remote.cfg` to check it. So were the inductive invariants of the proofs.

### What the code does not do as its comments say

- `admin_stop`: a routed bare stop is normalized to `patrol_stop` and never ends an exploration
  properly.
- `odom_place`: the odometry "just holds the last pose rather than guessing, so drift
  accumulates only from frames it was actually confident about" (`visual_odom_node.py:43-46`). But
  a frame it cannot match replaces the one before, so the motion across it is lost for good, and
  the robot is elsewhere when the pose says it is back at a named spot. The same happens
  without any such frame when the odometry restarts at zero and `locations.json` does not: the
  poses of an earlier session are driven to as if they were of this one (`patrol_node.py:453`).
- `ota_unbuilt`: "ota built" is reported, and the version recorded, when colcon failed
  (`scripts/container_build.sh:143-149` goes on on purpose). The agent does not try that
  version again; the build at the next start of the container may make up for it.

Stated in the modules as well, without a run of their own; put into the configuration named,
`LurchesNot` and `RecordedAsDriven` as a PROPERTY, the others as an INVARIANT, each shows the behaviour:
- `LabelAskedOnlyWhileExploring` (`scan_commands`): a ceiling answer after `patrol_stop` asks for
  a label nobody will take. The patrol node ignores every text since it is not exploring, the
  LLM node drops every text since a label is awaited, until an operator helps.
- `NeverWritesToGoneRoom` (`scan_commands`): with a map reset in between, the same answer raises
  `KeyError` and ends the node.
- `AnswersItsQuestion` (`vlm_link`): the answer at one heading can be recorded at the next.
- `SnapshotComes` (`drive_roam`): the snapshot of an inspection that interrupts a room check is taken for the
  room check's answer, and the inspection, which has no other end
  (`patrol_node.py:1610-1614`), goes on.
- `RecordedAsDriven` (`drive_teach`): a move that a stop or the next move cuts short stays in the
  recording with its full duration.
- `LurchesNot` (`drive_chain`): after an episode that timed out, the first clear frame orders
  the robot forward, without the confirmation that `vision_nav_node.py:446-451` asks for.
- `PoseGoalStops` (`drive_chain`): on the way to a pose, an invalid colour image reports "no
  obstacle" on the topic on which the depth node has just reported one, and the robot drives on
  (`patrol_node.py:1680` promises a stop).

Seen and not made into a run: a reply that overtakes the flag is both a label and a command;
the answer to a ceiling question left behind stops a replay for a period or two; the shifts of the retry sweeps add up, so that the third
repeats the bearings of the first; `explore_start` asks the VLM at once although the robot may be
moving; a tried bearing becomes a candidate again when a later sweep sees it; after a
backtrack a new doorway inherits the nudges and chases of an earlier one; the time-out of an
avoidance episode stands still for one frame only; a depth camera that dies leaves a drive to a
pose without obstacle reports, after one last "none"; the manifest's commands that
`README.md:97-98` speaks of are fixed in the code; `kabsch` returns the motion of the points,
not the camera's as its comment has it, which the signs in `robot.yaml` may or may not undo;
a patrol node that ends while the hardware node has failed leaves the motors on for ever.

## The proofs

`Inductive` (in `RoomScan`) is the invariant that all other proofs about the explorer rest on. The properties
worth having are not inductive by themselves: an abandoned exploration keeps its phase, flags
and counters and a later command brings them back. So the flags must follow the phase in
*every* mission state (`FlagsFollowPhase`); a sweep under way has a heading left; an
override being asked for has one left in the budget; on the way back, from the turn on, the
room has nothing untried; the bound on the rooms keeps ids inside the ghosts' domain.
`RoomScanProofs` has one lemma per action or group of actions that change the same things,
on top of lemmas about angles (a sum or difference modulo the circle is a bearing) and about
the map (what adding a room, an observation or a tried mark preserves). From `Invariance` follow
`TypeCorrect`, `TreeCorrect`, `BudgetsRespected`, `FlagsCorrect` and `ReturnsExhausted`;
`ExploringEndsByCommand` and `AsksStanding` need the actions only. `MapOnlyGrows` compares the map
before and after a step: apart from the reset, no step takes back what was found out.

A second invariant, `Oriented`, follows the robot's turns and carries the rest. It speaks of `Ahead`, where
the turn in progress will end, so that it holds from the moment a turn is ordered:
- `Aimed`: on the way to a doorway `Ahead` is its bearing plus at most as many nudges as were
  counted, one less while the robot backs up for the next. A nudge that is pending belongs to the
  doorway being pursued, and is never left over for another.
- `Swept`: the first sweep of a room looks at its headings in turn, so that behind it all were
  seen. Retry sweeps only add to that.
- `Reckoned`, for `MaxNudges = 0`: the believed heading is where the robot faces, except between a
  backtrack and its correction, where the turn ordered makes up for the difference. It needs that the entries
  of the mission's rooms are known (`EntriesKnown`), and that giving up a doorway sets the
  heading to what it already is when there was no nudge. With nudges it is false: the code takes
  the doorway's bearing back and not the robot's.

Underneath are lemmas on remainders (`ModAdd`, `TurnReaches`, `CorrectionCloses`) and on headings as
multiples of a step. From it follow `AimsRight`, `CircleCovered`, `HeadingTrue` and
`ReturnsTheWayItCame`. The last one holds for odd numbers of headings too, where `explore_room_scan_headings // 2`
headings are not half a turn: the robot then turns to half a heading short of the very opposite of the
way it came in.

`LabelPromptProofs` shows that each action is a step of `LabelPrompt` or leaves it alone; the
invariant enters where a ceiling question must find no label awaited, and where an answer for a
deleted room must find nobody exploring.

`AdminLinkProofs` shows `FlagTold`: the last flag published, or the last one read when none
is under way, is the patrol node's own; with types it is inductive by itself. `WordsInOrder` needs
`Ordered`: a command word that was obeyed is older than those on the topic of commands, and these
are older than what the LLM node has yet to read, since a word needs no thread. `NoTextLost` needs
that as long as a text is settled everybody agrees (`Agreed`: all flags on their way are the
flag) and that the text waits with the node that will take it, or was acted on (`Kept`).

`VlmLinkProofs` shows `OneAtATime` and needs that no thread is left when `inflight` is false.
Its own `Ordered` says that what waits on the trigger's topic, then in the client's one slot,
then was put, is ever older (`QuestionsPutOnce`: once, and none overtakes another); `Places`, that a question that was put is in one place only: with its thread,
on the observations' topic, in the explorer's hand, or taken (`AnswersServeOnce`).

`PatrolDriveProofs` begins with three parts. `StoppedRobotStands` is inductive, and says of each
command, callback and branch of `drive_loop` that it stills what it stops; `InspectionsEnd` says of
each step that it does not take away the snapshot of an inspection, and needs no invariant. `TypeCorrect` needs that a mission by hand has its
kind. `NothingOldSteers` needs more: `FreshSteering` says with `due` whether the period of
grace has begun, and covers the one branch of `drive_loop` that orders nothing: a replay
whose step has run its time leaves the wheels as the mission before it did, unless, as
the invariant says, it is still in its first step and less than one move old. That is where
`TicksAssumption`, a move lasts more than one period, is used.
`NamingStands` says of each step into or within the waiting for a name what `StoppedRobotStands` says of a
stop; it needs that where rooms are scanned nobody waits for the name of a spot, and where not,
for nothing of a scan (`OnePrompt`). `RoutesKept` rests on lemmas about the store: features and poses come beside a route, and
a recording or a deletion touches one label. `RoutesDriven` counts: the periods driven, give or take the
one the first step may lose, are those of the steps done plus the clock of the step under way
(`Driven`), but for up to two that a stop by a ceiling answer may cost (`Behind`); the periods of the first n steps are a sum over two sets, of turns and of straight moves, not a
recursion, which the prover could not follow.

`DriveChainProofs` proves its five properties from one invariant. Each property speaks of a
moment that several clocks lead to, so the invariant relates the clocks: the frame behind a
vision command is as old as the command, the frame behind the motors as old as both together;
an obstacle reported for longer than a heartbeat has met a driver that knows of the patrol, from when on
no order is "forward"; that order, and the motors with it, follow within a vision timeout and a period. `due`
adds the period of grace, as in `PatrolDrive`. One lemma per action, since each touches a few
of the parts.

`RobotMemoryProofs` needs that a file not being written is whole and says what is in memory
while the node is up, and that what a start loads is then what a next start would load.
`RemoteProofs` shows that a batch follows the updates seen without a gap (`BatchFollows`), so that
the offset, which becomes the server's memory, never passes an unpublished text; and that a
target is not beyond the tree once the pull is done (`PulledFirst`). `RunFollows`, on top of the first, relates
what this run has published to where the server's memory began when it started: the
offset is 0 until the first text, and past all that was forgotten from then on
(`OnceAndInOrder`). All go through a restart at any step.

Assumptions: those the modules state about their constants (at least four headings, units that
a quarter divides, a nudge of at most a step, natural limits, moves longer than a period, a
heartbeat and a confirmation of at least one).

Model-checked only:
- all liveness (`SweepEnds`, `PursuitEnds`, `QuestionServed`, `NamingEnds`, `PoseGoalEnds`,
  `TextArrives`, `UpdateSettles`): fairness is beyond the prover;
- `TypeOK` of `RemoteServices`: that `2 ^ failures` is a natural number takes an induction, which
  the prover cannot do. The theorems of `RemoteProofs` do not need it.

## Plan

Done: the core (explorer, admin link, VLM link, missions), then navigation and hardware
(`DriveChain`), files and restarts (`RobotMemory`), the services to the outside
(`RemoteServices`).

Proved: every invariant and every action property of the passing runs, and that the explorer
implements `LabelPrompt`.

Theorems to come: abstract specifications of what two more components promise, and that they are kept:
`VlmLink` as a desk that serves each question at most once and in order, and
`TelegramBridge` as a relay from the server's memory that may repeat after a restart but never skips.

Then, if a run becomes free: moves by hand and exploring forward in `DriveChain`, with
`PatrolDrive`'s missions in place of its own.

## Not modelled, and why

Image and depth processing and the estimates of the odometry (numeric; what the control logic
sees of them, an obstacle or none, matched or not, is in); GStreamer, I2C and GPIO drivers, YOLO
and TensorRT (I/O); the camera node's retry counters (one process against the hardware, nobody
depends on them); the web page (relays texts); battery, LED and display; the keyword tables of
`mission.py` (data); the separate host updater script; launch file and configuration beyond what
is said above (parameters the constants stand for); wording of events and labels.
