------------------------- MODULE PatrolDriveProofs -------------------------
(***************************************************************************)
(* Whatever ends a mission leaves a robot that stands; an inspection keeps *)
(* its snapshot coming; nothing that is too old steers the robot; it       *)
(* stands where it waits for a name; taught routes are kept, and a replay  *)
(* drives all of its own.                                                  *)
(***************************************************************************)
EXTENDS PatrolDrive, SequenceTheorems, FiniteSetTheorems, TLAPS

(***************************************************************************)
(* The first two hold step by step, without any other invariant.           *)
(***************************************************************************)

\* Every command that stops the robot stills its wheels; every other one starts a mission, or
\* leaves both alone.
LEMMA CommandStops ==
    ASSUME StoppedStands, OnMissionCommand
    PROVE  StoppedStands'
<1>1. CASE StartMission
  BY <1>1 DEF StartMission, SetState, StoppedStands
<1>2. CASE Stop
  BY <1>2 DEF Stop, StopPatrolling, StopExploring, SetState, StopMotion, StoppedStands
<1>3. CASE StartExplore \/ (\E move \in Moves : StartManualMove(move))
  BY <1>3 DEF StartExplore, StartManualMove, SetState, StoppedStands
<1>4. CASE \/ RememberStart \/ Analyze
           \/ \E label \in Labels : SaveRecordedLocation(label) \/ DeleteLocation(label)
  BY <1>4 DEF RememberStart, Analyze, SaveRecordedLocation, DeleteLocation, mission, StoppedStands
<1>5. CASE \E label \in Labels : StartInspect(label)
  BY <1>5 DEF StartInspect, StartPoseGoal, StartReplay, InspectHere, SetState, StoppedStands
<1> QED
  BY <1>1, <1>2, <1>3, <1>4, <1>5 DEF OnMissionCommand

\* Each branch of drive_loop that stops the robot stills it; in a state that is no mission
\* the loop does so again.
LEMMA LoopStops ==
    ASSUME StoppedStands, DriveLoop
    PROVE  StoppedStands'
<1>1. CASE TickRoomScan
  BY <1>1 DEF TickRoomScan, RoomScanning, StoppedStands
<1>2. CASE DrivePoseGoal
  BY <1>2 DEF DrivePoseGoal, FinishPoseGoal, Keep, SetState, StopMotion, StoppedStands
<1>3. CASE DriveFrontier \/ FollowVision
  BY <1>3 DEF DriveFrontier, FollowVision, VisionGated, Keep, StoppedStands
<1>4. CASE DriveManual \/ DriveReplay
  BY <1>4 DEF DriveManual, DriveReplay, Arrive, SetState, StopMotion, StoppedStands
<1>5. CASE DriveElse
  BY <1>5 DEF DriveElse, Keep, StoppedStands
<1> QED
  BY <1>1, <1>2, <1>3, <1>4, <1>5 DEF DriveLoop

LEMMA StepStops ==
    ASSUME StoppedStands, [Next]_vars
    PROVE  StoppedStands'
<1>1. CASE OnAdminText \/ OnLocationFeatureResult \/ OnSensor \/ Pass \/ UNCHANGED vars
  BY <1>1 DEF OnAdminText, OnLocationFeatureResult, OnSensor, Pass, vars, mission, StoppedStands
<1>2. CASE OnVlmObservation
  BY <1>2 DEF OnVlmObservation, AnalysisAnswer, SetState, StopMotion, mission, StoppedStands
<1> QED
  BY <1>1, <1>2, CommandStops, LoopStops DEF Next

\* Whichever command, answer, arrival, timeout or lost pose ended its mission, a stopped robot
\* does not wait for the timer to stand (stop_motion beside every set_state to STOPPED).
THEOREM StoppedRobotStands == Spec => []StoppedStands
<1>1. Init => StoppedStands
  BY DEF Init, StoppedStands
<1> QED
  BY <1>1, StepStops, PTL DEF Spec

SnapshotStep ==
    state' = "inspecting" /\ ~pending' =>
      state = "inspecting" /\ (pending => scan \in {"check", "ceiling"})

\* An inspection with its snapshot coming, or robbed of it before, stays as it is.
LEMMA UntouchedKept == ASSUME UNCHANGED <<state, pending>> PROVE SnapshotStep
  BY DEF SnapshotStep

LEMMA CommandKeepsSnapshot == ASSUME OnMissionCommand PROVE SnapshotStep
<1>1. CASE StartMission \/ Stop \/ StartExplore \/ (\E move \in Moves : StartManualMove(move))
  BY <1>1 DEF StartMission, Stop, StopPatrolling, StopExploring, StartExplore, StartManualMove,
              SetState, SnapshotStep
<1>2. CASE RememberStart \/ (\E label \in Labels : SaveRecordedLocation(label) \/ DeleteLocation(label))
  BY <1>2, UntouchedKept DEF RememberStart, SaveRecordedLocation, DeleteLocation, mission
<1>3. CASE Analyze
  BY <1>3 DEF Analyze, RequestAnalysis, SnapshotStep
<1>4. CASE \E label \in Labels : StartInspect(label)
  BY <1>4 DEF StartInspect, StartPoseGoal, StartReplay, InspectHere, RequestAnalysis, SetState,
              SnapshotStep
<1> QED
  BY <1>1, <1>2, <1>3, <1>4 DEF OnMissionCommand

\* The answer that an inspection takes ends it, if no question of the room scan's comes first.
LEMMA AnswerKeepsSnapshot == ASSUME OnVlmObservation PROVE SnapshotStep
<1>1. CASE scan \in {"check", "ceiling"}
  BY <1>1 DEF OnVlmObservation, AnalysisAnswer, mission, SnapshotStep
<1>2. CASE AnalysisAnswer
  BY <1>2 DEF AnalysisAnswer, SetState, SnapshotStep
<1> QED
  BY <1>1, <1>2 DEF OnVlmObservation

\* drive_loop neither starts an inspection nor takes an answer.
LEMMA LoopKeepsSnapshot == ASSUME DriveLoop PROVE SnapshotStep
<1>1. CASE TickRoomScan
  BY <1>1 DEF TickRoomScan, RoomScanning, SnapshotStep
<1>2. CASE DrivePoseGoal
  BY <1>2 DEF DrivePoseGoal, FinishPoseGoal, Keep, SetState, SnapshotStep
<1>3. CASE DriveFrontier \/ FollowVision \/ DriveElse
  BY <1>3, UntouchedKept DEF DriveFrontier, FollowVision, DriveElse, Keep
<1>4. CASE DriveManual \/ DriveReplay
  BY <1>4 DEF DriveManual, DriveReplay, Arrive, SetState, SnapshotStep
<1> QED
  BY <1>1, <1>2, <1>3, <1>4 DEF DriveLoop

\* Every way into INSPECTING asks for the snapshot that is the way out of it, and the answer
\* that is taken for the snapshot ends it: an inspection is left without one only where the
\* answer goes to a question that a room scan has left behind (start_inspect,
\* on_vlm_observation).
THEOREM InspectionsEnd == Spec => InspectionKeepsSnapshot
<1>1. [Next]_vars => [SnapshotStep]_vars
  <2>1. CASE OnAdminText \/ OnLocationFeatureResult \/ OnSensor \/ Pass
    BY <2>1, UntouchedKept DEF OnAdminText, OnLocationFeatureResult, OnSensor, Pass, mission
  <2> QED
    BY <2>1, CommandKeepsSnapshot, AnswerKeepsSnapshot, LoopKeepsSnapshot DEF Next
<1> QED
  BY <1>1, PTL DEF Spec, InspectionKeepsSnapshot, SnapshotStep


(***************************************************************************)
(* Types.  What a move in progress does to the wheels is only known to be  *)
(* a move because a mission by hand always has its kind.                   *)
(***************************************************************************)
HasKind == state \in {"manual", "manual_drive"} => kind \in Moves

Typed == TypeOK /\ HasKind

LEMMA Bounds ==
    /\ \A move \in Moves : Duration(move) \in Nat /\ Duration(move) > 1
    /\ LongestMove \in Nat /\ LongestNaming \in Nat
    /\ Stale(VisionTimeout) \in Nat /\ Stale(OdomTimeout) \in Nat
    /\ Stale(GoalTimeout) \in Nat /\ Stale(SubGoalTimeout) \in Nat
  BY TicksAssumption, TimeoutsAssumption DEF Duration, LongestMove, LongestNaming, Stale

\* An age that counts a period on keeps its range and grows by one at most.
LEMMA OneOlder ==
    ASSUME NEW most \in Nat, NEW age \in Ages(most)
    PROVE  Older(age, most) \in Ages(most) /\ Older(age, most) <= age + 1
  BY DEF Older, Ages

LEMMA AgeNumber ==
    ASSUME NEW most \in Nat, NEW age \in Ages(most)
    PROVE  age \in Int
  BY DEF Ages

LEMMA FreshAges ==
    ASSUME NEW most \in Nat
    PROVE  0 \in Ages(most) /\ Never \in Ages(most)
  BY DEF Ages, Never

LEMMA GetLocation ==
    ASSUME NEW locations, IsStore(locations), NEW label \in Labels
    PROVE  Get(locations, label) \in Location
  BY EmptySeq DEF Get, Has, IsStore, Location, Unknown

LEMMA PutLocation ==
    ASSUME NEW locations, IsStore(locations), NEW label \in Labels, NEW location \in Location
    PROVE  IsStore(Put(locations, label, location))
  BY DEF Put, IsStore

\* Every operation of the store keeps its form (set, set_features, set_pose, delete).
LEMMA StoreOperations ==
    ASSUME NEW locations, IsStore(locations), NEW label \in Labels, NEW steps \in Seq(Moves)
    PROVE  /\ IsStore(Set(locations, label, steps))
           /\ IsStore(SetFeatures(locations, label))
           /\ IsStore(SetPose(locations, label))
           /\ IsStore(Delete(locations, label))
<1>1. Get(locations, label) \in Location
  BY GetLocation
<1>2. /\ [Get(locations, label) EXCEPT !.steps = steps] \in Location
      /\ [Get(locations, label) EXCEPT !.features = TRUE] \in Location
      /\ [Get(locations, label) EXCEPT !.pose = TRUE] \in Location
  BY <1>1 DEF Location
<1>3. IsStore(Delete(locations, label))
  BY DEF Delete, IsStore
<1> QED
  BY <1>2, <1>3, PutLocation DEF Set, SetFeatures, SetPose


LEMMA TypedInit == Init => Typed
<1>1. IsStore(NoLocations)
  BY DEF IsStore, NoLocations
<1>2. \A S : <<>> \in Seq(S)
  BY EmptySeq
<1>3. NoReplay \in Replays
  BY <1>2, Bounds, FreshAges DEF NoReplay, Replays
<1>4. [asked |-> FALSE, clock |-> 0] \in [asked : BOOLEAN, clock : Ages(LongestNaming)]
  BY Bounds, FreshAges
<1> SUFFICES ASSUME Init PROVE Typed
  OBVIOUS
<1>5. {obstacle, pending, due} \subseteq BOOLEAN /\ recording \in BOOLEAN
  BY Zenon DEF Init
<1>6. /\ goal \in Ages(Stale(GoalTimeout)) /\ subGoal \in Ages(Stale(SubGoalTimeout))
      /\ vision \in Ages(Stale(VisionTimeout)) /\ odom \in Ages(Stale(OdomTimeout))
      /\ since \in Ages(LongestMove)
  BY Bounds, FreshAges DEF Init
<1>7. /\ state \in States /\ kind \in Moves \cup {""} /\ driven \in Nat
      /\ wheels \in Moves \cup {"still", "cruise", "vision", "steer", "scan", "left"} /\ HasKind
  BY DEF Init, States, HasKind
<1>8. roomScan \in BOOLEAN /\ scan \in Scans
  BY FrontierAssumption DEF Init, Scans
<1> QED
  BY <1>1, <1>2, <1>3, <1>4, <1>5, <1>6, <1>7, <1>8, Zenon DEF Init, Typed, TypeOK

\* A change of state keeps or resets its clock.
LEMMA TypedState ==
    ASSUME Typed, NEW new \in States, SetState(new)
    PROVE  state' \in States /\ since' \in Ages(LongestMove)
  BY Bounds, FreshAges DEF Typed, TypeOK, SetState

LEMMA TypedMissionStart ==
    ASSUME Typed, StartMission \/ Stop \/ StartExplore \/ RememberStart \/ Analyze
    PROVE  Typed'
<1>1. CASE StartMission
  BY <1>1, TypedState
     DEF StartMission, Typed, TypeOK, HasKind, States, teach, travel, rooms, sensors, SetState
<1>2. CASE Stop
  BY <1>2, TypedState
     DEF Stop, StopPatrolling, StopExploring, StopMotion, Typed, TypeOK, HasKind, States, SetState,
         Scans, teach, travel, rooms, sensors
<1>3. CASE StartExplore
  BY <1>3, TypedState, Bounds, FreshAges
     DEF StartExplore, Scans, Typed, TypeOK, HasKind, States, teach, rooms, sensors, SetState
<1>4. CASE RememberStart
  BY <1>4, EmptySeq DEF RememberStart, Typed, TypeOK, HasKind, mission, travel, rooms, sensors
<1>5. CASE Analyze
  BY <1>5 DEF Analyze, RequestAnalysis, Typed, TypeOK, HasKind, mission, teach, travel, rooms, sensors
<1> QED
  BY <1>1, <1>2, <1>3, <1>4, <1>5

LEMMA TypedManualMove ==
    ASSUME Typed, NEW move \in Moves, StartManualMove(move)
    PROVE  Typed'
<1>1. state' \in States /\ since' \in Ages(LongestMove)
  BY TypedState DEF StartManualMove, States
<1>2. buffer' \in Seq(Moves)
  <2>1. buffer' = buffer \/ buffer' = Append(buffer, move)
    BY DEF StartManualMove
  <2>2. buffer \in Seq(Moves)
    BY DEF Typed, TypeOK
  <2> QED
    BY <2>1, <2>2, AppendProperties
<1>3. kind' = move /\ UNCHANGED <<recording, store, travel, naming, rooms, sensors, pending, captures,
                                   wheels, due, driven>>
  BY DEF StartManualMove
<1> QED
  BY <1>1, <1>2, <1>3 DEF Typed, TypeOK, HasKind, travel, rooms, sensors

\* A capture that is asked for is for one of the labels.
LEMMA TypedCapture ==
    ASSUME Typed, NEW label \in Labels, RequestFeatureCapture(label)
    PROVE  captures' \in Seq(Labels)
  BY AppendProperties DEF Typed, TypeOK, RequestFeatureCapture

LEMMA TypedStore ==
    ASSUME Typed, NEW label \in Labels, SaveRecordedLocation(label) \/ DeleteLocation(label)
    PROVE  Typed'
<1>1. <<>> \in Seq(Moves) /\ buffer \in Seq(Moves) /\ IsStore(store)
  BY EmptySeq DEF Typed, TypeOK
<1>2. CASE SaveRecordedLocation(label)
  BY <1>1, <1>2, StoreOperations, TypedCapture
     DEF SaveRecordedLocation, Typed, TypeOK, HasKind, mission, travel, rooms, sensors
<1>3. CASE DeleteLocation(label)
  BY <1>1, <1>3, StoreOperations
     DEF DeleteLocation, Typed, TypeOK, HasKind, mission, teach, travel, rooms, sensors
<1> QED
  BY <1>2, <1>3

LEMMA TypedInspect ==
    ASSUME Typed, NEW label \in Labels, StartInspect(label)
    PROVE  Typed'
<1>1. CASE StartPoseGoal(label)
  BY <1>1, TypedState, Bounds, FreshAges
     DEF StartInspect, StartPoseGoal, SetState, Typed, TypeOK, HasKind, States, teach, rooms, sensors
<1>2. CASE StartReplay(label)
  <2>1. Get(store, label).steps \in Seq(Moves)
    BY GetLocation DEF Typed, TypeOK, Location
  <2>2. replay' \in Replays
    BY <1>2, <2>1, Bounds, FreshAges DEF StartReplay, Replays
  <2> QED
    BY <1>2, <2>2, TypedState
       DEF StartInspect, StartReplay, SetState, Typed, TypeOK, HasKind, States, teach, rooms, sensors
<1>3. CASE InspectHere
  BY <1>3, TypedState
     DEF StartInspect, InspectHere, RequestAnalysis, SetState, Typed, TypeOK, HasKind, States,
         teach, rooms, sensors
<1> QED
  BY <1>1, <1>2, <1>3 DEF StartInspect


LEMMA TypedAdminText == ASSUME Typed, OnAdminText PROVE Typed'
<1>1. naming' \in [asked : BOOLEAN, clock : Ages(LongestNaming)]
  <2>1. [asked |-> FALSE, clock |-> 0] \in [asked : BOOLEAN, clock : Ages(LongestNaming)]
    BY Bounds, FreshAges
  <2>2. naming' \in {naming, [asked |-> FALSE, clock |-> 0]}
    BY DEF OnAdminText
  <2> QED
    BY <2>1, <2>2 DEF Typed, TypeOK
<1>4. scan' \in Scans
  BY DEF OnAdminText, Typed, TypeOK, Scans
<1>2. IsStore(store) /\ <<>> \in Seq(Moves)
  BY EmptySeq DEF Typed, TypeOK
<1>3. IsStore(store') /\ captures' \in Seq(Labels)
  <2>1. CASE UNCHANGED <<store, captures>>
    BY <2>1 DEF Typed, TypeOK
  <2>2. ASSUME NEW label \in Labels,
               store' = IF HasRecentOdom THEN SetPose(Named(label), label) ELSE Named(label),
               RequestFeatureCapture(label)
        PROVE  IsStore(store') /\ captures' \in Seq(Labels)
    <3>1. IsStore(Named(label))
      BY <1>2, StoreOperations DEF Named
    <3>2. IsStore(SetPose(Named(label), label))
      BY <1>2, <3>1, StoreOperations
    <3> QED
      BY <2>2, <3>1, <3>2, TypedCapture
  <2> QED
    BY <2>1, <2>2 DEF OnAdminText
<1> QED
  BY <1>1, <1>3, <1>4 DEF OnAdminText, Typed, TypeOK, HasKind, mission, teach, travel, sensors

LEMMA TypedFeatureResult == ASSUME Typed, OnLocationFeatureResult PROVE Typed'
<1>1. captures \in Seq(Labels) /\ captures # <<>> /\ IsStore(store) /\ <<>> \in Seq(Moves)
  BY EmptySeq DEF OnLocationFeatureResult, Typed, TypeOK
<1>2. Head(captures) \in Labels /\ Tail(captures) \in Seq(Labels)
  BY <1>1, HeadTailProperties
<1>3. IsStore(store') /\ captures' \in Seq(Labels)
  BY <1>1, <1>2, StoreOperations DEF OnLocationFeatureResult
<1> QED
  BY <1>3 DEF OnLocationFeatureResult, Typed, TypeOK, HasKind, mission, teach, travel, rooms, sensors

LEMMA TypedObservation == ASSUME Typed, OnVlmObservation \/ OnSensor PROVE Typed'
<1>1. CASE OnVlmObservation
  <2>1. state' \in States /\ since' \in Ages(LongestMove) /\ HasKind'
    BY <1>1, TypedState
       DEF OnVlmObservation, AnalysisAnswer, mission, States, Typed, TypeOK, HasKind, SetState
  <2>2. wheels' \in {wheels, "still"} /\ {obstacle, pending', due} \subseteq BOOLEAN
        /\ kind' = kind /\ scan' \in Scans
    BY <1>1 DEF OnVlmObservation, AnalysisAnswer, mission, StopMotion, Scans, Typed, TypeOK
  <2> QED
    BY <1>1, <2>1, <2>2 DEF OnVlmObservation, Typed, TypeOK, teach, travel, rooms, sensors
<1>2. CASE OnSensor
  <2>1. vision' \in Ages(Stale(VisionTimeout)) /\ odom' \in Ages(Stale(OdomTimeout))
    BY <1>2, Bounds, FreshAges DEF OnSensor, Typed, TypeOK
  <2>2. {obstacle', pending, due} \subseteq BOOLEAN
    BY <1>2 DEF OnSensor, Typed, TypeOK
  <2> QED
    BY <1>2, <2>1, <2>2 DEF OnSensor, Typed, TypeOK, HasKind, mission, teach, travel, rooms
<1> QED
  BY <1>1, <1>2

LEMMA TypedPass == ASSUME Typed, Pass PROVE Typed'
<1>1. since' \in Ages(LongestMove)
  BY Bounds, OneOlder DEF Pass, Typed, TypeOK
<1>2. replay' \in Replays
  <2>1. Older(replay.clock, LongestMove) \in Ages(LongestMove)
    BY Bounds, OneOlder DEF Typed, TypeOK, Replays
  <2> QED
    BY <2>1 DEF Pass, Typed, TypeOK, Replays
<1>3. naming' \in [asked : BOOLEAN, clock : Ages(LongestNaming)]
  <2>1. Older(naming.clock, LongestNaming) \in Ages(LongestNaming)
    BY Bounds, OneOlder DEF Typed, TypeOK
  <2> QED
    BY <2>1 DEF Pass, Typed, TypeOK
<1>4. /\ goal' \in Ages(Stale(GoalTimeout)) /\ subGoal' \in Ages(Stale(SubGoalTimeout))
      /\ vision' \in Ages(Stale(VisionTimeout)) /\ odom' \in Ages(Stale(OdomTimeout))
  BY Bounds, OneOlder DEF Pass, Typed, TypeOK
<1>5. driven' \in Nat
  <2>1. driven' = driven \/ driven' = driven + 1
    BY Zenon DEF Pass
  <2>2. driven \in Nat
    BY DEF Typed, TypeOK
  <2> QED
    BY <2>1, <2>2
<1>6. {obstacle, pending, due'} \subseteq BOOLEAN
  BY DEF Pass, Typed, TypeOK
<1> QED
  BY <1>1, <1>2, <1>3, <1>4, <1>5, <1>6 DEF Pass, Typed, TypeOK, HasKind, teach, rooms


LEMMA NextStep ==
    ASSUME NEW r \in Replays
    PROVE  [r EXCEPT !.index = r.index + 1, !.clock = 0] \in Replays
<1>1. [r EXCEPT !.index = r.index + 1] \in Replays
  BY DEF Replays
<1>2. \A q \in Replays : [q EXCEPT !.clock = 0] \in Replays
  BY Bounds, FreshAges DEF Replays
<1> QED
  BY <1>1, <1>2

\* The wheels only ever get a move from a mission by hand or from a step of the route.
LEMMA TypedDriving ==
    ASSUME Typed, DriveLoop
    PROVE  /\ state' \in States /\ since' \in Ages(LongestMove) /\ HasKind'
           /\ replay' \in Replays
           /\ goal' \in Ages(Stale(GoalTimeout)) /\ subGoal' \in Ages(Stale(SubGoalTimeout))
           /\ pending' \in BOOLEAN
           /\ wheels' \in Moves \cup {"still", "cruise", "vision", "steer", "scan", "left"}
           /\ scan' \in Scans
<1>2. kind' = kind
  BY DEF DriveLoop
<1>1. CASE TickRoomScan
  <2>1. /\ UNCHANGED <<state, since, replay, goal, subGoal>>
        /\ pending' \in {pending, TRUE} /\ scan' \in Scans
        /\ wheels' \in {wheels, "still", "scan", "left"}
    BY <1>1 DEF TickRoomScan, StopMotion, RequestAnalysis, Scans, Typed, TypeOK
  <2> QED
    BY <1>2, <2>1 DEF Typed, TypeOK, HasKind
<1>3. CASE DrivePoseGoal
  <2>1. state' \in States /\ since' \in Ages(LongestMove) /\ HasKind'
    BY <1>2, <1>3, TypedState
       DEF DrivePoseGoal, FinishPoseGoal, Keep, SetState, Typed, TypeOK, HasKind, States
  <2>2. pending' \in BOOLEAN
    BY <1>3 DEF DrivePoseGoal, FinishPoseGoal, Keep, RequestAnalysis, Typed, TypeOK
  <2>3. /\ UNCHANGED <<replay, subGoal, scan>> /\ goal' \in {goal, Never}
        /\ wheels' \in {"still", "steer"}
    BY <1>3 DEF DrivePoseGoal, FinishPoseGoal, Keep, StopMotion
  <2> QED
    BY <2>1, <2>2, <2>3, Bounds, FreshAges DEF Typed, TypeOK
<1>4. CASE DriveFrontier
  <2>1. /\ UNCHANGED <<state, since, replay, goal, pending, scan>>
        /\ subGoal' \in {subGoal, Never, 0} /\ wheels' \in {"still", "steer"}
    BY <1>4 DEF DriveFrontier, StopMotion
  <2> QED
    BY <1>2, <2>1, Bounds, FreshAges DEF Typed, TypeOK, HasKind
<1>5. CASE FollowVision
  BY <1>2, <1>5 DEF FollowVision, Keep, Typed, TypeOK, HasKind
<1>6. CASE DriveManual
  <2>1. state' \in States /\ since' \in Ages(LongestMove) /\ HasKind'
    BY <1>2, <1>6, TypedState DEF DriveManual, SetState, Typed, TypeOK, HasKind, States
  <2>2. wheels' \in {"still", kind} /\ kind \in Moves /\ UNCHANGED <<replay, goal, subGoal, pending, scan>>
    BY <1>6 DEF DriveManual, StopMotion, Typed, HasKind
  <2> QED
    BY <2>1, <2>2 DEF Typed, TypeOK
<1>7. CASE DriveReplay
  <2>1. CASE Arrive
    BY <1>2, <2>1, TypedState
       DEF Arrive, StopMotion, RequestAnalysis, SetState, Typed, TypeOK, HasKind, States
  <2>2. CASE replay.index <= Len(replay.steps)
    <3>1. /\ replay.steps \in Seq(Moves) /\ replay.index \in Nat \ {0}
          /\ replay.clock \in Ages(LongestMove)
      BY DEF Typed, TypeOK, Replays
    <3>2. replay.steps[replay.index] \in Moves
      <4>1. Len(replay.steps) \in Nat
        BY <3>1, LenProperties
      <4>2. replay.index \in 1..Len(replay.steps)
        BY <2>2, <3>1, <4>1
      <4> QED
        BY <3>1, <4>2, ElementOfSeq
    <3>3. /\ UNCHANGED <<state, since, goal, subGoal, pending, scan>>
          /\ \/ wheels' = wheels
             \/ wheels' = replay.steps[replay.index]
      BY <1>7, <2>2, <3>1, LenProperties DEF DriveReplay
    <3>4. \/ replay' = replay
          \/ replay' = [replay EXCEPT !.index = replay.index + 1, !.clock = 0]
      BY <1>7, <2>2, <3>1, LenProperties DEF DriveReplay
    <3>5. replay' \in Replays
      BY <3>4, NextStep DEF Typed, TypeOK
    <3> QED
      BY <1>2, <3>2, <3>3, <3>5 DEF Typed, TypeOK, HasKind
  <2>3. replay.index \in Nat /\ Len(replay.steps) \in Nat
    BY LenProperties DEF Typed, TypeOK, Replays
  <2> QED
    BY <1>7, <2>1, <2>2, <2>3 DEF DriveReplay
<1>8. CASE DriveElse
  BY <1>2, <1>8 DEF DriveElse, Keep, Typed, TypeOK, HasKind
<1> QED
  BY <1>1, <1>3, <1>4, <1>5, <1>6, <1>7, <1>8 DEF DriveLoop

LEMMA TypedDriveLoop == ASSUME Typed, DriveLoop PROVE Typed'
<1>1. naming' \in [asked : BOOLEAN, clock : Ages(LongestNaming)]
  BY Bounds, FreshAges DEF DriveLoop, AfterLabeling, Typed, TypeOK
<1>2. {obstacle, pending', due'} \subseteq BOOLEAN
  BY TypedDriving DEF DriveLoop, Typed, TypeOK
<1> QED
  BY <1>1, <1>2, TypedDriving DEF DriveLoop, Typed, TypeOK, teach, rooms, sensors

LEMMA TypedStep == ASSUME Typed, [Next]_vars PROVE Typed'
<1>1. CASE UNCHANGED vars
  BY <1>1 DEF vars, mission, teach, travel, rooms, sensors, Typed, TypeOK, HasKind
<1>2. CASE OnMissionCommand
  BY <1>2, TypedMissionStart, TypedManualMove, TypedStore, TypedInspect DEF OnMissionCommand
<1> QED
  BY <1>1, <1>2, TypedAdminText, TypedFeatureResult, TypedObservation, TypedPass, TypedDriveLoop
     DEF Next

LEMMA AlwaysTyped == Spec => []Typed
  BY TypedInit, TypedStep, PTL DEF Spec

\* Every variable keeps its type, whatever the durations, timeouts and commands.
THEOREM TypeCorrect == Spec => []TypeOK
<1>1. Typed => TypeOK
  BY DEF Typed
<1> QED
  BY <1>1, AlwaysTyped, PTL


(***************************************************************************)
(* Freshness.  SteersInTime grants one period more than the timeouts, the  *)
(* one in which the timer has yet to notice.  It is inductive when that    *)
(* period is told by `due`, and when a replay that finds the wheels        *)
(* steered is still in its first step, whose first period turns them: a    *)
(* step that has run its time leaves the wheels as they are.               *)
(***************************************************************************)
Lag == IF due THEN 1 ELSE 0

FreshSteering ==
    /\ wheels = "vision" => vision <= VisionTimeout + Lag
    /\ wheels = "steer" =>
         /\ odom <= OdomTimeout + Lag
         /\ state = "exploring" => subGoal <= SubGoalTimeout + Lag
         /\ state = "pose_goal" => goal <= GoalTimeout + Lag
    /\ wheels \in {"vision", "steer"} /\ state = "replaying" =>
         replay.index = 1 /\ replay.steps # <<>> /\ replay.clock <= Lag

LEMMA Numbers ==
    ASSUME Typed
    PROVE  /\ {vision, odom, goal, subGoal, replay.clock} \subseteq Int
           /\ {VisionTimeout, OdomTimeout, GoalTimeout, SubGoalTimeout} \subseteq Nat
           /\ Lag \in {0, 1}
<1>1. {vision, odom, goal, subGoal} \subseteq Int
  BY Bounds, AgeNumber DEF Typed, TypeOK
<1>2. replay.clock \in Int
  BY Bounds, AgeNumber DEF Typed, TypeOK, Replays
<1>3. Lag \in {0, 1}
  BY DEF Lag
<1> QED
  BY <1>1, <1>2, <1>3, TimeoutsAssumption

\* Nothing new steers, and no mission that minds begins.
LEMMA FreshUntouched ==
    ASSUME FreshSteering,
           UNCHANGED <<wheels, vision, odom, goal, subGoal, replay, due>>,
           state' \in {state} \cup (States \ {"exploring", "pose_goal", "replaying"})
    PROVE  FreshSteering'
  BY DEF FreshSteering, Lag

LEMMA FreshStill == ASSUME wheels' \notin {"vision", "steer"} PROVE FreshSteering'
  BY DEF FreshSteering

\* A mission by command finds the wheels as they are, with its own clock at zero.
LEMMA FreshCommand ==
    ASSUME Typed, FreshSteering, OnMissionCommand
    PROVE  FreshSteering'
<1>1. CASE StartMission \/ RememberStart \/ Analyze
  BY <1>1, FreshUntouched
     DEF StartMission, RememberStart, Analyze, SetState, mission, travel, sensors, States
<1>2. CASE Stop
  BY <1>2, FreshStill DEF Stop, StopPatrolling, StopExploring, StopMotion
<1>3. CASE StartExplore
  <2>1. subGoal' = Never /\ state' = "exploring" /\ UNCHANGED <<wheels, vision, odom, due>>
    BY <1>3 DEF StartExplore, SetState, sensors
  <2>2. Never <= SubGoalTimeout + Lag
    BY Numbers DEF Never
  <2> QED
    BY <2>1, <2>2 DEF FreshSteering, Lag
<1>4. ASSUME NEW move \in Moves, StartManualMove(move) PROVE FreshSteering'
  BY <1>4, FreshUntouched DEF StartManualMove, SetState, travel, sensors, States
<1>5. ASSUME NEW label \in Labels, SaveRecordedLocation(label) \/ DeleteLocation(label)
      PROVE  FreshSteering'
  BY <1>5, FreshUntouched DEF SaveRecordedLocation, DeleteLocation, mission, travel, sensors
<1>6. ASSUME NEW label \in Labels, StartInspect(label) PROVE FreshSteering'
  <2>1. UNCHANGED <<wheels, vision, odom, subGoal, due>>
    BY <1>6 DEF StartInspect, sensors
  <2>2. 0 <= GoalTimeout + Lag /\ 0 <= Lag
    BY Numbers
  <2>3. CASE StartPoseGoal(label)
    BY <2>1, <2>2, <2>3 DEF StartPoseGoal, SetState, FreshSteering, Lag
  <2>4. CASE StartReplay(label)
    <3>1. /\ replay'.index = 1 /\ replay'.steps # <<>> /\ replay'.clock = 0
          /\ state' = "replaying" /\ UNCHANGED goal
      BY <2>4 DEF StartReplay, SetState
    <3> QED
      BY <2>1, <2>2, <3>1 DEF FreshSteering, Lag
  <2>5. CASE InspectHere
    BY <2>1, <2>5, FreshUntouched DEF InspectHere, SetState, States
  <2> QED
    BY <1>6, <2>3, <2>4, <2>5 DEF StartInspect
<1> QED
  BY <1>1, <1>2, <1>3, <1>4, <1>5, <1>6 DEF OnMissionCommand

LEMMA FreshCallback ==
    ASSUME Typed, FreshSteering,
           OnAdminText \/ OnLocationFeatureResult \/ OnVlmObservation \/ OnSensor
    PROVE  FreshSteering'
<1>1. CASE OnAdminText \/ OnLocationFeatureResult
  BY <1>1, FreshUntouched
     DEF OnAdminText, OnLocationFeatureResult, mission, travel, sensors
<1>2. CASE OnVlmObservation
  BY <1>2, FreshUntouched, FreshStill
     DEF OnVlmObservation, AnalysisAnswer, StopMotion, mission, travel, sensors
<1>3. CASE OnSensor
  <2>1. 0 <= VisionTimeout + Lag /\ 0 <= OdomTimeout + Lag
    BY Numbers
  <2>2. /\ vision' = vision \/ vision' = 0
        /\ odom' = odom \/ odom' = 0
        /\ UNCHANGED <<wheels, state, goal, subGoal, replay, due>>
    BY <1>3 DEF OnSensor, mission, travel
  <2> QED
    BY <2>1, <2>2 DEF FreshSteering, Lag
<1> QED
  BY <1>1, <1>2, <1>3

\* The period that passes is the one the timer has yet to notice.
LEMMA FreshPass ==
    ASSUME Typed, FreshSteering, Pass
    PROVE  FreshSteering'
<1>1. Lag = 0 /\ Lag' = 1 /\ UNCHANGED <<wheels, state>>
  BY DEF Pass, Lag
<1>2. /\ vision' <= vision + 1 /\ odom' <= odom + 1
      /\ goal' <= goal + 1 /\ subGoal' <= subGoal + 1
      /\ {vision', odom', goal', subGoal'} \subseteq Int
  BY Bounds, OneOlder, AgeNumber DEF Pass, Typed, TypeOK
<1>3. /\ replay'.index = replay.index /\ replay'.steps = replay.steps
      /\ replay'.clock <= replay.clock + 1 /\ replay'.clock \in Int
  <2>1. /\ Older(replay.clock, LongestMove) <= replay.clock + 1
        /\ Older(replay.clock, LongestMove) \in Int
    BY Bounds, OneOlder, AgeNumber DEF Typed, TypeOK, Replays
  <2>2. replay' = [replay EXCEPT !.clock = Older(replay.clock, LongestMove)]
    BY DEF Pass
  <2> QED
    BY <2>1, <2>2 DEF Typed, TypeOK, Replays
<1>4. \A age, older \in Int, most \in Nat : age <= most + 0 /\ older <= age + 1 => older <= most + 1
  OBVIOUS
<1>5. /\ {vision, odom, goal, subGoal, replay.clock} \subseteq Int
      /\ {VisionTimeout, OdomTimeout, GoalTimeout, SubGoalTimeout} \subseteq Nat
  BY Numbers
<1>6. wheels' = "vision" => vision' <= VisionTimeout + Lag'
  BY <1>1, <1>2, <1>4, <1>5 DEF FreshSteering
<1>7. wheels' = "steer" =>
        /\ odom' <= OdomTimeout + Lag'
        /\ state' = "exploring" => subGoal' <= SubGoalTimeout + Lag'
        /\ state' = "pose_goal" => goal' <= GoalTimeout + Lag'
  BY <1>1, <1>2, <1>4, <1>5 DEF FreshSteering
<1>8. wheels' \in {"vision", "steer"} /\ state' = "replaying" =>
        replay'.index = 1 /\ replay'.steps # <<>> /\ replay'.clock <= Lag'
  BY <1>1, <1>3, <1>5 DEF FreshSteering
<1> QED
  BY <1>6, <1>7, <1>8 DEF FreshSteering

\* drive_loop orders the wheels anew in every state but a replay whose step has run its time.
LEMMA FreshLoop ==
    ASSUME Typed, FreshSteering, DriveLoop
    PROVE  FreshSteering'
<1>1. Lag' = 0 /\ UNCHANGED <<vision, odom>>
  BY DEF DriveLoop, Lag, sensors
<1>8. CASE TickRoomScan
  <2>1. CASE wheels' = wheels
    <3>1. wheels \notin {"vision", "steer"}
      BY <1>8, <2>1 DEF TickRoomScan, StopMotion
    <3> QED
      BY <2>1, <3>1, FreshStill
  <2> QED
    BY <1>8, <2>1, FreshStill DEF TickRoomScan, StopMotion
<1>2. CASE DrivePoseGoal
  BY <1>1, <1>2, Numbers, FreshStill
     DEF DrivePoseGoal, FinishPoseGoal, Keep, StopMotion, HasRecentOdom, FreshSteering
<1>3. CASE DriveFrontier
  BY <1>1, <1>3, Numbers, FreshStill
     DEF DriveFrontier, StopMotion, HasRecentOdom, FreshSteering
<1>4. CASE FollowVision
  BY <1>1, <1>4, Numbers, FreshStill
     DEF FollowVision, VisionGated, UseRecentVisionCmd, Keep, FreshSteering
<1>5. CASE DriveManual
  <2>1. wheels' \in {"still", kind} /\ kind \in Moves
    BY <1>5 DEF DriveManual, StopMotion, Typed, HasKind
  <2> QED
    BY <2>1, FreshStill, MovesAssumption DEF Directions, Turns
<1>6. CASE DriveReplay
  <2>1. /\ replay.steps \in Seq(Moves) /\ replay.index \in Nat \ {0} /\ replay.clock \in Int
        /\ Len(replay.steps) \in Nat /\ state = "replaying"
    BY <1>6, Numbers, LenProperties DEF DriveReplay, Typed, TypeOK, Replays
  <2>2. CASE replay.index > Len(replay.steps)
    BY <1>6, <2>2, FreshStill DEF DriveReplay, Arrive, StopMotion
  <2>3. CASE replay.index <= Len(replay.steps)
    <3>1. replay.steps[replay.index] \in Moves
      <4>1. replay.index \in 1..Len(replay.steps)
        BY <2>1, <2>3
      <4> QED
        BY <2>1, <4>1, ElementOfSeq
    <3>2. CASE replay.clock >= Duration(replay.steps[replay.index])
      <4>1. replay.clock > 1
        BY <2>1, <3>1, <3>2, Bounds
      <4>2. wheels \notin {"vision", "steer"}
        BY <2>1, <4>1, Numbers DEF FreshSteering
      <4>3. wheels' = wheels
        BY <1>6, <2>1, <2>3, <3>2 DEF DriveReplay
      <4> QED
        BY <4>2, <4>3, FreshStill
    <3>3. CASE ~(replay.clock >= Duration(replay.steps[replay.index]))
      <4>1. wheels' = replay.steps[replay.index]
        BY <1>6, <2>1, <2>3, <3>3 DEF DriveReplay
      <4> QED
        BY <3>1, <4>1, FreshStill, MovesAssumption DEF Directions, Turns
    <3> QED
      BY <3>2, <3>3
  <2> QED
    BY <2>1, <2>2, <2>3
<1>7. CASE DriveElse
  <2>1. wheels' \in {"cruise", "still"} \/ (wheels' = kind /\ kind \in Moves)
    BY <1>7 DEF DriveElse, Typed, HasKind
  <2> QED
    BY <2>1, FreshStill, MovesAssumption DEF Directions, Turns
<1> QED
  BY <1>2, <1>3, <1>4, <1>5, <1>6, <1>7, <1>8 DEF DriveLoop

LEMMA FreshStep ==
    ASSUME Typed, FreshSteering, [Next]_vars
    PROVE  FreshSteering'
<1>1. CASE UNCHANGED vars
  BY <1>1, FreshUntouched DEF vars, mission, travel, sensors
<1> QED
  BY <1>1, FreshCommand, FreshCallback, FreshPass, FreshLoop DEF Next

\* Vision commands, poses, sub-goals and goals that are too old stop steering the robot at the
\* timer's next run, across all changes of mission and for all timeouts (drive_loop).
THEOREM NothingOldSteers == Spec => []SteersInTime
<1>1. Init => FreshSteering
  BY DEF Init, FreshSteering
<1>2. Typed /\ FreshSteering => SteersInTime
  BY Numbers DEF FreshSteering, SteersInTime
<1> QED
  BY <1>1, <1>2, FreshStep, AlwaysTyped, PTL DEF Spec


(***************************************************************************)
(* Naming.  A robot that waits for a name while exploring has asked for it *)
(* in this exploration: to explore again is to ask anew.  It asks for the  *)
(* names of spots, or of rooms where it scans them, and never of both.     *)
(***************************************************************************)
OnePrompt ==
    /\ ~roomScan => scan = "none"
    /\ roomScan => ~naming.asked

LEMMA OnePromptStep ==
    ASSUME Typed, OnePrompt, [Next]_vars
    PROVE  OnePrompt'
<1>1. roomScan' = roomScan
  BY DEF Next, OnMissionCommand, StartMission, Stop, StartExplore, StartManualMove, RememberStart,
         Analyze, SaveRecordedLocation, DeleteLocation, StartInspect, OnAdminText,
         OnLocationFeatureResult, OnVlmObservation, OnSensor, Pass, DriveLoop, rooms, vars
<1>2. CASE UNCHANGED <<naming, scan>>
  BY <1>1, <1>2 DEF OnePrompt
<1>3. CASE OnMissionCommand
  <2>1. CASE Stop \/ StartExplore
    <3>1. scan' \in {scan, "none"} \/ roomScan
      BY <2>1 DEF Stop, StopPatrolling, StopExploring, StartExplore
    <3>2. \/ naming' \in {naming, [asked |-> FALSE, clock |-> 0]}
          \/ naming' = [naming EXCEPT !.asked = FALSE]
      BY <2>1 DEF Stop, StopPatrolling, StopExploring, StartExplore
    <3>3. ~[asked |-> FALSE, clock |-> 0].asked /\ ~[naming EXCEPT !.asked = FALSE].asked
      BY DEF Typed, TypeOK
    <3>4. naming' = naming \/ ~naming'.asked
      BY <3>2, <3>3, Zenon
    <3> QED
      BY <1>1, <3>1, <3>4 DEF OnePrompt
  <2> QED
    BY <1>2, <1>3, <2>1
       DEF OnMissionCommand, StartMission, StartManualMove, RememberStart, Analyze,
           SaveRecordedLocation, DeleteLocation, StartInspect, rooms
<1>4. CASE OnAdminText \/ OnVlmObservation
  <2>1. /\ scan' \in {scan, "none"} \/ scan # "none"
        /\ naming' = naming \/ ~naming'.asked
    BY <1>4 DEF OnAdminText, OnVlmObservation, AnalysisAnswer
  <2> QED
    BY <1>1, <2>1 DEF OnePrompt
<1>5. CASE Pass
  <2>1. naming'.asked = naming.asked /\ scan' = scan
    BY <1>5 DEF Pass, rooms, Typed, TypeOK
  <2> QED
    BY <1>1, <2>1 DEF OnePrompt
<1>6. CASE DriveLoop
  <2>1. scan' = scan \/ roomScan
    BY <1>6 DEF DriveLoop, TickRoomScan, RoomScanning, DrivePoseGoal, FinishPoseGoal, DriveFrontier,
                FollowVision, DriveManual, DriveReplay, Arrive, DriveElse, Keep
  <2>2. roomScan => naming' = naming
    BY <1>6 DEF DriveLoop, AfterLabeling
  <2>3. ~roomScan => scan' = "none"
    BY <2>1 DEF OnePrompt
  <2> QED
    BY <1>1, <2>2, <2>3 DEF OnePrompt
<1> QED
  BY <1>2, <1>3, <1>4, <1>5, <1>6 DEF Next, OnLocationFeatureResult, OnSensor, rooms, vars

\* The wheels are stilled by the very run of the timer that asks, whichever way the robot was
\* exploring, and are not turned again while it waits.
LEMMA NamingLoop ==
    ASSUME OnePrompt, OnePrompt', DriveLoop
    PROVE  StandsWhileNaming'
<1>1. CASE TickRoomScan
  BY <1>1 DEF TickRoomScan, RoomScanning, StopMotion, OnePrompt, StandsWhileNaming, DriveLoop
<1>2. CASE DrivePoseGoal
  BY <1>2 DEF DrivePoseGoal, FinishPoseGoal, Keep, SetState, StandsWhileNaming
<1>3. CASE DriveFrontier \/ FollowVision
  BY <1>3 DEF DriveFrontier, FollowVision, VisionGated, Keep, OnePrompt, StandsWhileNaming
<1>4. CASE DriveManual \/ DriveReplay
  BY <1>4 DEF DriveManual, DriveReplay, Arrive, SetState, StandsWhileNaming
<1>5. CASE DriveElse
  BY <1>5 DEF DriveElse, Keep, StandsWhileNaming
<1> QED
  BY <1>1, <1>2, <1>3, <1>4, <1>5 DEF DriveLoop

LEMMA NamingCommand ==
    ASSUME OnePrompt', StandsWhileNaming, OnMissionCommand
    PROVE  StandsWhileNaming'
<1>1. CASE StartMission \/ (\E move \in Moves : StartManualMove(move))
  BY <1>1 DEF StartMission, StartManualMove, SetState, StandsWhileNaming
<1>2. CASE Stop
  BY <1>2 DEF Stop, StopPatrolling, StopExploring, StopMotion, StandsWhileNaming
<1>3. CASE StartExplore
  <2>1. ~naming'.asked /\ scan' # "label"
    BY <1>3 DEF StartExplore, OnePrompt
  <2> QED
    BY <2>1 DEF StandsWhileNaming
<1>4. CASE \/ RememberStart \/ Analyze
           \/ \E label \in Labels : SaveRecordedLocation(label) \/ DeleteLocation(label)
  BY <1>4 DEF RememberStart, Analyze, SaveRecordedLocation, DeleteLocation, mission, rooms,
              StandsWhileNaming
<1>5. CASE \E label \in Labels : StartInspect(label)
  BY <1>5 DEF StartInspect, StartPoseGoal, StartReplay, InspectHere, SetState, StandsWhileNaming
<1> QED
  BY <1>1, <1>2, <1>3, <1>4, <1>5 DEF OnMissionCommand

LEMMA NamingStep ==
    ASSUME Typed, OnePrompt, OnePrompt', StandsWhileNaming, [Next]_vars
    PROVE  StandsWhileNaming'
<1>1. CASE OnAdminText
  BY <1>1 DEF OnAdminText, mission, StandsWhileNaming
<1>2. CASE OnVlmObservation
  BY <1>2 DEF OnVlmObservation, AnalysisAnswer, mission, SetState, StopMotion, StandsWhileNaming
<1>3. CASE OnLocationFeatureResult \/ OnSensor \/ UNCHANGED vars
  BY <1>3 DEF OnLocationFeatureResult, OnSensor, vars, mission, rooms, StandsWhileNaming
<1>4. CASE Pass
  <2>1. naming'.asked = naming.asked /\ UNCHANGED <<state, wheels, scan>>
    BY <1>4 DEF Pass, rooms, Typed, TypeOK
  <2> QED
    BY <2>1 DEF StandsWhileNaming
<1> QED
  BY <1>1, <1>2, <1>3, <1>4, NamingCommand, NamingLoop DEF Next

\* The robot stands where it asks for the name of a spot or of a room until it has one, gives
\* up, or is sent away: no vision command, pose, sub-goal or tick of the room scan moves it
\* meanwhile (tick_explore_labeling, room_scan_begin_await_label, drive_loop).
THEOREM NamingStands == Spec => []StandsWhileNaming
<1>1. Init => OnePrompt /\ StandsWhileNaming
  <2>1. ~[asked |-> FALSE, clock |-> 0].asked
    OBVIOUS
  <2>2. Init => scan = "none" /\ state # "exploring" /\ ~naming.asked
    BY <2>1, Zenon DEF Init
  <2> QED
    BY <2>2 DEF OnePrompt, StandsWhileNaming
<1> QED
  BY <1>1, OnePromptStep, NamingStep, AlwaysTyped, PTL DEF Spec


(***************************************************************************)
(* Routes in the store.                                                    *)
(***************************************************************************)
SameSteps(before, after) ==
    \A label \in DOMAIN before : Get(after, label).steps = before[label].steps

\* To put something else about a location under its name leaves all routes alone.
LEMMA PutKeepsRoutes ==
    ASSUME NEW locations, NEW label, NEW location,
           Has(locations, label) => location.steps = locations[label].steps
    PROVE  SameSteps(locations, Put(locations, label, location))
  BY DEF SameSteps, Get, Has, Put

\* Features and poses come beside a route (set_features, set_pose).
LEMMA NotesKeepRoutes ==
    ASSUME NEW locations, IsStore(locations), NEW label \in Labels
    PROVE  /\ SameSteps(locations, SetFeatures(locations, label))
           /\ SameSteps(locations, SetPose(locations, label))
<1> DEFINE l == Get(locations, label)
<1>1. l \in Location
  BY GetLocation
<1>2. /\ [l EXCEPT !.features = TRUE].steps = l.steps
      /\ [l EXCEPT !.pose = TRUE].steps = l.steps
  BY <1>1 DEF Location
<1>3. Has(locations, label) => l = locations[label]
  BY DEF Get
<1> QED
  BY <1>2, <1>3, PutKeepsRoutes DEF SetFeatures, SetPose

\* A new name comes without a route, and takes none away.
LEMMA NameKeepsRoutes ==
    ASSUME NEW label, ~Has(store, label)
    PROVE  SameSteps(store, Set(store, label, <<>>))
  BY PutKeepsRoutes DEF Set

LEMMA NamedKeepsRoutes == ASSUME NEW label \in Labels PROVE SameSteps(store, Named(label))
<1>1. SameSteps(store, store)
  BY DEF SameSteps, Get, Has
<1> QED
  BY <1>1, NameKeepsRoutes DEF Named

LEMMA SaveKeepsRoutes ==
    ASSUME NEW label \in Labels, SaveRecordedLocation(label), ~(recording /\ buffer # <<>>)
    PROVE  SameSteps(store, store')
<1>1. store' = Named(label)
  BY DEF SaveRecordedLocation, Named
<1> QED
  BY <1>1, NamedKeepsRoutes

LEMMA AdminTextKeepsRoutes ==
    ASSUME Typed, OnAdminText
    PROVE  SameSteps(store, store')
<1>1. IsStore(store) /\ <<>> \in Seq(Moves)
  BY EmptySeq DEF Typed, TypeOK
<1>2. CASE UNCHANGED store
  BY <1>2 DEF SameSteps, Get, Has
<1>3. ASSUME NEW label \in Labels,
             store' = IF HasRecentOdom THEN SetPose(Named(label), label) ELSE Named(label)
      PROVE  SameSteps(store, store')
  <2>1. IsStore(Named(label)) /\ SameSteps(store, Named(label))
    BY <1>1, StoreOperations, NamedKeepsRoutes DEF Named
  <2>2. SameSteps(Named(label), SetPose(Named(label), label))
    BY <2>1, NotesKeepRoutes
  <2>3. DOMAIN store \subseteq DOMAIN Named(label)
    BY DEF Named, Set, Put
  <2>4. \A l \in DOMAIN store : Named(label)[l].steps = store[l].steps
    BY <2>1, <2>3 DEF SameSteps, Get, Has
  <2>5. SameSteps(store, SetPose(Named(label), label))
    BY <2>2, <2>3, <2>4 DEF SameSteps
  <2> QED
    BY <1>3, <2>1, <2>5
<1> QED
  BY <1>2, <1>3 DEF OnAdminText

LEMMA FeatureResultKeepsRoutes ==
    ASSUME Typed, OnLocationFeatureResult
    PROVE  SameSteps(store, store')
<1>1. captures \in Seq(Labels) /\ captures # <<>> /\ IsStore(store)
  BY DEF OnLocationFeatureResult, Typed, TypeOK
<1>2. Head(captures) \in Labels
  BY <1>1, HeadTailProperties
<1>3. SameSteps(store, SetFeatures(store, Head(captures)))
  BY <1>1, <1>2, NotesKeepRoutes
<1>4. SameSteps(store, store)
  BY DEF SameSteps, Get, Has
<1> QED
  BY <1>3, <1>4 DEF OnLocationFeatureResult

\* To forget a name takes only its own route.
LEMMA DeleteKeepsOthers ==
    ASSUME NEW label, DeleteLocation(label), NEW other \in DOMAIN store, other # label
    PROVE  Get(store', other).steps = store[other].steps
  BY DEF DeleteLocation, Delete, Get, Has

\* A new recording replaces only the route of its own name.
LEMMA SaveKeepsOthers ==
    ASSUME NEW label, SaveRecordedLocation(label), NEW other \in DOMAIN store, other # label
    PROVE  Get(store', other).steps = store[other].steps
  BY DEF SaveRecordedLocation, Set, Put, Get, Has

RouteStep ==
    \A label \in DOMAIN store :
      Get(store', label).steps # store[label].steps =>
        \/ DeleteLocation(label)
        \/ recording /\ buffer # <<>> /\ SaveRecordedLocation(label)

LEMMA RouteSteps ==
    ASSUME Typed, [Next]_vars
    PROVE  RouteStep
<1>1. CASE UNCHANGED store
  BY <1>1 DEF RouteStep, Get, Has
<1>2. CASE SameSteps(store, store')
  BY <1>2 DEF RouteStep, SameSteps
<1>3. ASSUME NEW label \in Labels, SaveRecordedLocation(label) PROVE RouteStep
  BY <1>2, <1>3, SaveKeepsRoutes, SaveKeepsOthers DEF RouteStep
<1>4. ASSUME NEW label \in Labels, DeleteLocation(label) PROVE RouteStep
  BY <1>4, DeleteKeepsOthers DEF RouteStep
<1>5. CASE OnMissionCommand
  <2>1. CASE StartMission \/ Stop \/ StartExplore \/ RememberStart \/ Analyze
    BY <1>1, <2>1 DEF StartMission, Stop, StartExplore, RememberStart, Analyze
  <2>2. CASE \/ \E move \in Moves : StartManualMove(move)
             \/ \E label \in Labels : StartInspect(label)
    BY <1>1, <2>2 DEF StartManualMove, StartInspect
  <2> QED
    BY <1>3, <1>4, <1>5, <2>1, <2>2 DEF OnMissionCommand
<1>6. CASE OnVlmObservation \/ OnSensor \/ Pass \/ DriveLoop \/ UNCHANGED vars
  BY <1>1, <1>6 DEF OnVlmObservation, OnSensor, Pass, DriveLoop, vars
<1> QED
  BY <1>2, <1>5, <1>6, AdminTextKeepsRoutes, FeatureResultKeepsRoutes DEF Next

\* A taught route is only lost to a new recording under its name or with the name, whatever is
\* saved, named or captured late meanwhile (save_recorded_location, locations.py).
THEOREM RoutesKept == Spec => RouteKept
<1>1. Typed /\ [Next]_vars => [RouteStep]_vars
  BY RouteSteps
<1> QED
  BY <1>1, AlwaysTyped, PTL DEF Spec, RouteKept, RouteStep


(***************************************************************************)
(* Replays.  A replay that has come to a step drove the steps before it in *)
(* full, but for one period that the wheels turn on while the next step    *)
(* begins; only in its first step may it find the wheels without a move.   *)
(* The answer to a ceiling question that a room scan has left behind stops *)
(* the wheels once, until the timer orders them again: for one period, and *)
(* for a second where the first ends the step.                             *)
(***************************************************************************)

\* RouteTicks of the first n steps of a route.
Ticks(steps, n) ==
    LET turns == {i \in 1..n : steps[i] \in Turns} IN
    TurnTicks * Cardinality(turns) + MoveTicks * Cardinality((1..n) \ turns)

\* For how many periods of what the replay has come to the wheels have not turned yet.
Behind == Ticks(replay.steps, replay.index - 1) + replay.clock - driven

Driven ==
    state = "replaying" =>
      /\ replay.steps # <<>> /\ replay.index <= Len(replay.steps) + 1
      /\ replay.clock >= (IF replay.index > 1 THEN Lag ELSE 0)
      /\ wheels \in Moves \/ (replay.index = 1 /\ replay.clock <= Lag) \/ scan = "label"
      /\ \/ driven >= RouteTicks(replay.steps)
         \/ Behind <= 1
         \/ /\ scan = "label" /\ Behind <= 3
            /\ \/ wheels \in Moves
               \/ Behind <= 1 + Lag
               \/ replay.clock <= Lag /\ Behind <= 2 + Lag

LEMMA TicksOfAll ==
    ASSUME NEW steps \in Seq(Moves)
    PROVE  Ticks(steps, Len(steps)) = RouteTicks(steps)
<1>1. DOMAIN steps = 1..Len(steps)
  BY LenProperties
<1> QED
  BY <1>1 DEF Ticks, RouteTicks

LEMMA TicksNumber ==
    ASSUME NEW steps, NEW n \in Nat
    PROVE  Ticks(steps, n) \in Nat
<1> DEFINE turns == {i \in 1..n : steps[i] \in Turns}
<1>1. IsFiniteSet(1..n)
  BY FS_Interval
<1>2. IsFiniteSet(turns) /\ IsFiniteSet((1..n) \ turns)
  BY <1>1, FS_Subset
<1>3. Cardinality(turns) \in Nat /\ Cardinality((1..n) \ turns) \in Nat
  BY <1>2, FS_CardinalityType
<1>4. TurnTicks \in Nat /\ MoveTicks \in Nat
  BY TicksAssumption
<1>5. \A a, b, c, d \in Nat : a * b + c * d \in Nat
  OBVIOUS
<1> QED
  BY <1>3, <1>4, <1>5 DEF Ticks

LEMMA NoTicks == ASSUME NEW steps PROVE Ticks(steps, 0) = 0
<1>1. {i \in 1..0 : steps[i] \in Turns} = {} /\ 1..0 = {}
  OBVIOUS
<1>2. Cardinality({}) = 0
  BY FS_EmptySet
<1>3. TurnTicks * 0 = 0 /\ MoveTicks * 0 = 0
  BY TicksAssumption
<1> QED
  BY <1>1, <1>2, <1>3 DEF Ticks

\* A step more takes its own time more.
LEMMA OneStepMore ==
    ASSUME NEW steps, NEW n \in Nat
    PROVE  Ticks(steps, n + 1) = Ticks(steps, n) + Duration(steps[n + 1])
<1> DEFINE turns(k) == {i \in 1..k : steps[i] \in Turns}
           others(k) == (1..k) \ turns(k)
<1>1. 1..(n + 1) = (1..n) \cup {n + 1} /\ n + 1 \notin 1..n
  OBVIOUS
<1>2. IsFiniteSet(turns(n)) /\ IsFiniteSet(others(n))
  <2>1. IsFiniteSet(1..n)
    BY FS_Interval
  <2>2. turns(n) \subseteq 1..n /\ others(n) \subseteq 1..n
    OBVIOUS
  <2> QED
    BY <2>1, <2>2, FS_Subset
<1>3. Cardinality(turns(n)) \in Nat /\ Cardinality(others(n)) \in Nat
  BY <1>2, FS_CardinalityType
<1>4. TurnTicks \in Nat /\ MoveTicks \in Nat
  BY TicksAssumption
<1>5. \A k : Ticks(steps, k) = TurnTicks * Cardinality(turns(k)) + MoveTicks * Cardinality(others(k))
  BY DEF Ticks
<1>6. \A a, b \in Nat : a * (b + 1) = a * b + a /\ a * b \in Nat
  OBVIOUS
<1> HIDE DEF turns, others
<1>7. CASE steps[n + 1] \in Turns
  <2>1. turns(n + 1) = turns(n) \cup {n + 1} /\ others(n + 1) = others(n) /\ n + 1 \notin turns(n)
    BY <1>1, <1>7 DEF turns, others
  <2>2. Cardinality(turns(n + 1)) = Cardinality(turns(n)) + 1
    BY <1>2, <2>1, FS_AddElement
  <2>3. TurnTicks * Cardinality(turns(n + 1)) = TurnTicks * Cardinality(turns(n)) + TurnTicks
    BY <1>3, <1>4, <1>6, <2>2
  <2>4. /\ TurnTicks * Cardinality(turns(n)) \in Nat
        /\ MoveTicks * Cardinality(others(n)) \in Nat
    BY <1>3, <1>4, <1>6
  <2>5. Duration(steps[n + 1]) = TurnTicks
    BY <1>7 DEF Duration
  <2> QED
    BY <1>4, <1>5, <2>1, <2>3, <2>4, <2>5
<1>8. CASE steps[n + 1] \notin Turns
  <2>1. others(n + 1) = others(n) \cup {n + 1} /\ turns(n + 1) = turns(n) /\ n + 1 \notin others(n)
    BY <1>1, <1>8 DEF turns, others
  <2>2. Cardinality(others(n + 1)) = Cardinality(others(n)) + 1
    BY <1>2, <2>1, FS_AddElement
  <2>3. MoveTicks * Cardinality(others(n + 1)) = MoveTicks * Cardinality(others(n)) + MoveTicks
    BY <1>3, <1>4, <1>6, <2>2
  <2>4. /\ TurnTicks * Cardinality(turns(n)) \in Nat
        /\ MoveTicks * Cardinality(others(n)) \in Nat
    BY <1>3, <1>4, <1>6
  <2>5. Duration(steps[n + 1]) = MoveTicks
    BY <1>8 DEF Duration
  <2> QED
    BY <1>4, <1>5, <2>1, <2>3, <2>4, <2>5
<1> QED
  BY <1>7, <1>8

LEMMA ReplayTypes ==
    ASSUME Typed
    PROVE  /\ replay.steps \in Seq(Moves) /\ Len(replay.steps) \in Nat
           /\ replay.index \in Nat \ {0} /\ replay.clock \in Int /\ driven \in Nat
           /\ RouteTicks(replay.steps) \in Nat /\ Ticks(replay.steps, replay.index - 1) \in Nat
<1>1. /\ replay.steps \in Seq(Moves) /\ Len(replay.steps) \in Nat
      /\ replay.index \in Nat \ {0} /\ replay.clock \in Int /\ driven \in Nat
  BY Numbers, LenProperties DEF Typed, TypeOK, Replays
<1>2. replay.index - 1 \in Nat
  BY <1>1
<1> QED
  BY <1>1, <1>2, TicksOfAll, TicksNumber

\* A replay that nothing touches goes on as it was.
LEMMA DrivenUntouched ==
    ASSUME Driven, UNCHANGED <<wheels, replay, due, driven>>,
           state' # "replaying" \/ (UNCHANGED state /\ (scan # "label" \/ UNCHANGED scan))
    PROVE  Driven'
  BY DEF Driven, Behind, Lag

LEMMA DrivenCommand ==
    ASSUME Typed, Driven, OnMissionCommand
    PROVE  Driven'
<1>1. CASE StartMission \/ Stop \/ StartExplore \/ (\E move \in Moves : StartManualMove(move))
  BY <1>1 DEF StartMission, Stop, StopPatrolling, StopExploring, StartExplore, StartManualMove,
              SetState, Driven
<1>2. CASE \/ RememberStart \/ Analyze
           \/ \E label \in Labels : SaveRecordedLocation(label) \/ DeleteLocation(label)
  BY <1>2, DrivenUntouched
     DEF RememberStart, Analyze, SaveRecordedLocation, DeleteLocation, mission, travel, rooms
<1>3. ASSUME NEW label \in Labels, StartInspect(label) PROVE Driven'
  <2>1. CASE StartPoseGoal(label) \/ InspectHere
    BY <2>1 DEF StartPoseGoal, InspectHere, SetState, Driven
  <2>2. CASE StartReplay(label)
    <3>1. /\ replay'.index = 1 /\ replay'.clock = 0 /\ driven' = 0
          /\ replay'.steps = Get(store, label).steps /\ replay'.steps # <<>>
      BY <2>2 DEF StartReplay
    <3>2. replay'.steps \in Seq(Moves)
      BY <3>1, GetLocation DEF Typed, TypeOK, Location
    <3>3. Len(replay'.steps) \in Nat
      BY <3>2, LenProperties
    <3>4. Ticks(replay'.steps, 1 - 1) = 0
      BY NoTicks
    <3>5. 0 <= Lag' /\ 0 >= 0
      BY DEF Lag
    <3>6. Behind' <= 1
      BY <3>1, <3>4 DEF Behind
    <3> QED
      BY <3>1, <3>3, <3>5, <3>6 DEF Driven
  <2> QED
    BY <1>3, <2>1, <2>2 DEF StartInspect
<1> QED
  BY <1>1, <1>2, <1>3 DEF OnMissionCommand

LEMMA DrivenCallback ==
    ASSUME Typed, Driven, OnAdminText \/ OnLocationFeatureResult \/ OnVlmObservation \/ OnSensor
    PROVE  Driven'
<1>1. CASE OnLocationFeatureResult \/ OnSensor
  BY <1>1, DrivenUntouched DEF OnLocationFeatureResult, OnSensor, mission, travel, rooms
<1>2. CASE OnAdminText
  BY <1>2, DrivenUntouched DEF OnAdminText, mission, travel
<1>3. CASE OnVlmObservation
  <2>1. UNCHANGED <<replay, due, driven>>
    BY <1>3 DEF OnVlmObservation, travel
  <2>2. CASE scan = "ceiling"
    <3>1. UNCHANGED <<state, Lag>> /\ scan' = "label" /\ scan # "label"
      BY <1>3, <2>1, <2>2 DEF OnVlmObservation, AnalysisAnswer, mission, Lag
    <3>2. Behind' = Behind
      BY <2>1 DEF Behind
    <3> QED
      BY <2>1, <3>1, <3>2 DEF Driven
  <2>3. CASE scan # "ceiling"
    <3>1. state' = "stopped" \/ UNCHANGED <<state, wheels>>
      BY <1>3, <2>3 DEF OnVlmObservation, AnalysisAnswer, mission, SetState
    <3>2. scan # "label" \/ UNCHANGED scan
      BY <1>3, <2>3 DEF OnVlmObservation, AnalysisAnswer
    <3> QED
      BY <2>1, <3>1, <3>2, DrivenUntouched DEF Driven
  <2> QED
    BY <2>2, <2>3
<1> QED
  BY <1>1, <1>2, <1>3

\* The clock of the step and the count of the periods driven go on together.
LEMMA DrivenPass ==
    ASSUME Typed, Driven, Pass
    PROVE  Driven'
<1> SUFFICES ASSUME state = "replaying" PROVE Driven'
  BY DEF Driven, Pass
<1>1. UNCHANGED <<state, wheels, scan>> /\ ~due /\ due' /\ Lag = 0 /\ Lag' = 1
  BY DEF Pass, Lag, rooms
<1>2. replay' = [replay EXCEPT !.clock = Older(replay.clock, LongestMove)]
  BY DEF Pass
<1>3. UNCHANGED <<replay.steps, replay.index>> /\ replay'.clock = Older(replay.clock, LongestMove)
  BY <1>2 DEF Typed, TypeOK, Replays
<1>4. /\ replay.clock \in Ages(LongestMove) /\ LongestMove \in Nat /\ LongestMove > 1
  <2>1. LongestMove \in Nat /\ LongestMove > 1
    BY TicksAssumption DEF LongestMove
  <2> QED
    BY <2>1 DEF Typed, TypeOK, Replays
<1>5. replay'.clock \in Int /\ replay'.clock <= replay.clock + 1
  BY <1>3, <1>4, OneOlder, AgeNumber
<1>6. replay'.clock >= 1
  <2>1. replay.clock >= 0
    BY <1>1, Numbers DEF Driven
  <2> QED
    BY <1>3, <1>4, <2>1, AgeNumber DEF Older
<1>7. driven' = IF wheels \in Moves /\ driven < RouteTicks(replay.steps) THEN driven + 1 ELSE driven
  BY DEF Pass
<1> DEFINE before == Ticks(replay.steps, replay.index - 1)
<1>8. /\ Behind = before + replay.clock - driven
      /\ Behind' = before + replay'.clock - driven'
  BY <1>3 DEF Behind
<1>9. wheels' \in Moves \/ (replay'.index = 1 /\ replay'.clock <= Lag') \/ scan' = "label"
  BY <1>1, <1>3, <1>5, ReplayTypes DEF Driven
<1>12. \/ driven' >= RouteTicks(replay.steps)
       \/ Behind' <= 1
       \/ /\ scan = "label" /\ Behind' <= 3
          /\ wheels \in Moves \/ Behind' <= 2 \/ replay'.clock <= 1
  <2>1. CASE driven >= RouteTicks(replay.steps)
    BY <1>7, <2>1, ReplayTypes
  <2>2. CASE wheels \in Moves /\ driven < RouteTicks(replay.steps)
    <3>1. driven' = driven + 1 /\ (Behind <= 1 \/ (scan = "label" /\ Behind <= 3))
      BY <1>7, <2>2, ReplayTypes DEF Driven
    <3>2. Behind' <= Behind
      BY <1>5, <1>8, <3>1, ReplayTypes
    <3> QED
      BY <1>5, <1>8, <2>2, <3>1, <3>2, ReplayTypes
  <2>3. CASE wheels \notin Moves /\ driven < RouteTicks(replay.steps)
    <3>1. driven' = driven /\ Behind' <= Behind + 1
      BY <1>5, <1>7, <1>8, <2>3, ReplayTypes
    <3>2. CASE scan = "label"
      <4>1. Behind <= 1 \/ (replay.clock <= 0 /\ Behind <= 2)
        BY <1>1, <2>3, ReplayTypes DEF Driven
      <4> QED
        BY <1>5, <1>8, <3>1, <3>2, <4>1, ReplayTypes
    <3>3. CASE scan # "label"
      <4>1. replay.index = 1 /\ replay.clock <= 0
        BY <1>1, <2>3, <3>3 DEF Driven
      <4>2. before = 0
        BY <4>1, NoTicks
      <4> QED
        BY <1>5, <1>8, <3>1, <4>1, <4>2, ReplayTypes
    <3> QED
      BY <3>2, <3>3
  <2> QED
    BY <2>1, <2>2, <2>3, ReplayTypes
<1>10. replay'.steps # <<>> /\ replay'.index <= Len(replay'.steps) + 1
  BY <1>3 DEF Driven
<1>11. replay'.clock >= (IF replay'.index > 1 THEN Lag' ELSE 0)
  BY <1>1, <1>5, <1>6
<1> QED
  BY <1>1, <1>3, <1>9, <1>10, <1>11, <1>12 DEF Driven

\* The timer turns the wheels by the step it finds, and counts a step as done when its clock
\* has run the step's time.
LEMMA DrivenReplay ==
    ASSUME Typed, Driven, due, due' = FALSE, driven' = driven, DriveReplay
    PROVE  Driven'
<1>1. Lag = 1 /\ Lag' = 0 /\ state = "replaying" /\ scan' = scan
  BY DEF Lag, DriveReplay, Arrive
<1>2. CASE replay.index > Len(replay.steps)
  BY <1>2 DEF DriveReplay, Arrive, SetState, Driven
<1>3. CASE replay.index <= Len(replay.steps)
  <2> DEFINE step == replay.steps[replay.index]
             before == Ticks(replay.steps, replay.index - 1)
  <2>1. step \in Moves /\ Duration(step) \in Nat /\ Duration(step) > 1
    <3>1. replay.index \in 1..Len(replay.steps)
      BY <1>3, ReplayTypes
    <3> QED
      BY <3>1, ReplayTypes, ElementOfSeq, Bounds
  <2>2. CASE replay.clock >= Duration(step)
    <3>1. /\ replay' = [replay EXCEPT !.index = replay.index + 1, !.clock = 0]
          /\ UNCHANGED wheels
      BY <1>3, <2>2, ReplayTypes DEF DriveReplay
    <3>2. replay'.steps = replay.steps /\ replay'.index = replay.index + 1 /\ replay'.clock = 0
      BY <3>1 DEF Typed, TypeOK, Replays
    <3>3. wheels \in Moves \/ scan = "label"
      BY <1>1, <2>1, <2>2, ReplayTypes DEF Driven
    <3>4. Ticks(replay.steps, replay'.index - 1) = before + Duration(step)
      <4>1. replay.index - 1 \in Nat /\ replay.index - 1 + 1 = replay.index
            /\ replay'.index - 1 = replay.index - 1 + 1
        BY <3>2, ReplayTypes
      <4> QED
        BY <4>1, OneStepMore
    <3>5. Behind' <= Behind /\ Behind \in Int /\ Behind' \in Int
      BY <2>1, <2>2, <3>2, <3>4, ReplayTypes DEF Behind
    <3>6. \/ driven >= RouteTicks(replay.steps)
          \/ Behind' <= 1
          \/ scan = "label" /\ Behind' <= 3 /\ (wheels \in Moves \/ Behind' <= 2)
      BY <1>1, <2>1, <2>2, <3>5, ReplayTypes DEF Driven
    <3>7. replay'.index <= Len(replay'.steps) + 1 /\ replay'.steps # <<>>
      BY <1>1, <1>3, <3>2, ReplayTypes DEF Driven
    <3>8. replay'.clock >= (IF replay'.index > 1 THEN Lag' ELSE 0)
      BY <1>1, <3>2
    <3> QED
      BY <1>1, <3>1, <3>2, <3>3, <3>5, <3>6, <3>7, <3>8 DEF Driven
  <2>3. CASE ~(replay.clock >= Duration(step))
    <3>1. wheels' = step /\ UNCHANGED replay
      BY <1>3, <2>3, ReplayTypes DEF DriveReplay
    <3>2. replay.clock >= 0
      BY <1>1, ReplayTypes DEF Driven
    <3>3. Behind' = Behind /\ Behind \in Int
      BY <3>1, ReplayTypes DEF Behind
    <3> QED
      BY <1>1, <2>1, <3>1, <3>2, <3>3, ReplayTypes DEF Driven
  <2> QED
    BY <2>2, <2>3
<1> QED
  BY <1>2, <1>3, ReplayTypes

LEMMA DrivenStep ==
    ASSUME Typed, Driven, [Next]_vars
    PROVE  Driven'
<1>1. CASE UNCHANGED vars
  BY <1>1, DrivenUntouched DEF vars, mission, travel, rooms
<1>2. CASE DriveLoop
  <2>1. due /\ due' = FALSE /\ driven' = driven
    BY <1>2 DEF DriveLoop
  <2>2. CASE TickRoomScan \/ DrivePoseGoal \/ DriveFrontier \/ FollowVision \/ DriveManual
             \/ DriveElse
    BY <2>2 DEF TickRoomScan, RoomScanning, DrivePoseGoal, FinishPoseGoal, DriveFrontier, FollowVision, VisionGated,
                DriveManual, DriveElse, Keep, SetState, Driven
  <2> QED
    BY <1>2, <2>1, <2>2, DrivenReplay DEF DriveLoop
<1> QED
  BY <1>1, <1>2, DrivenCommand, DrivenCallback, DrivenPass DEF Next

ArrivalStep ==
    state = "replaying" /\ DriveLoop /\ state' = "stopped" =>
      driven >= RouteTicks(replay.steps) - (IF scan = "label" THEN 2 ELSE 0)

\* A replay is over when its last step is: the period that passed since made up for the one the
\* wheels were late at the start.
LEMMA Arrival ==
    ASSUME Typed, Driven
    PROVE  ArrivalStep
<1> SUFFICES ASSUME state = "replaying", DriveLoop, state' = "stopped"
             PROVE  driven >= RouteTicks(replay.steps) - (IF scan = "label" THEN 2 ELSE 0)
  BY DEF ArrivalStep
<1>1. due /\ Lag = 1
  BY DEF DriveLoop, Lag
<1>2. DriveReplay
  BY DEF DriveLoop, TickRoomScan, RoomScanning, DrivePoseGoal, DriveFrontier, FollowVision,
         VisionGated, DriveManual, DriveElse
<1>3. replay.index > Len(replay.steps)
  BY <1>2, ReplayTypes DEF DriveReplay
<1>4. replay.index = Len(replay.steps) + 1 /\ replay.index > 1
  <2>1. replay.steps # <<>> => Len(replay.steps) > 0
    BY ReplayTypes, EmptySeq
  <2> QED
    BY <1>3, <2>1, ReplayTypes DEF Driven
<1>5. replay.clock >= 1
  BY <1>1, <1>4 DEF Driven
<1>6. Ticks(replay.steps, replay.index - 1) = RouteTicks(replay.steps)
  <2>1. replay.index - 1 = Len(replay.steps)
    BY <1>4, ReplayTypes
  <2> QED
    BY <2>1, TicksOfAll, ReplayTypes
<1>7. Behind >= RouteTicks(replay.steps) + 1 - driven
  BY <1>5, <1>6, ReplayTypes DEF Behind
<1>8. driven >= RouteTicks(replay.steps) \/ Behind <= 1 \/ (scan = "label" /\ Behind <= 3)
  BY DEF Driven
<1>9. Behind \in Int
  BY ReplayTypes DEF Behind
<1> QED
  BY <1>7, <1>8, <1>9, ReplayTypes

\* A replay that says it has arrived drove every step of its route for the step's time, however
\* often the route was stopped and started again (drive_replay), but for the two periods at most
\* that a late answer to a ceiling question holds it up (room_scan_begin_await_label).
THEOREM RoutesDriven == Spec => ReplayDrivesRoute
<1>1. Init => Driven
  BY DEF Init, Driven
<1>2. Typed /\ Driven /\ [Next]_vars => [ArrivalStep]_vars
  BY Arrival
<1> QED
  BY <1>1, <1>2, DrivenStep, AlwaysTyped, PTL DEF Spec, ReplayDrivesRoute, ArrivalStep
=============================================================================
