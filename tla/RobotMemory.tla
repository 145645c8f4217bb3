---------------------------- MODULE RobotMemory ----------------------------
(***************************************************************************)
(* What the robot remembers, and what it means after a restart: rooms and  *)
(* named spots in files, the spots with poses of an odometry that forgets  *)
(* where its zero was.  The nodes of the container stop and start          *)
(* together; patrol_node may also end alone, and nobody starts it again.   *)
(***************************************************************************)
EXTENDS Integers, Sequences, KeptFiles, Odometry

CONSTANTS
    MaxRooms,       \* bound: rooms in the map
    MaxLost         \* bound: motion that unmatched frames lost

VARIABLE lost       \* ghost: the motion that `pose` misses, counted for MaxLost

vars == <<kept, odometry, lost>>

ASSUME BoundsAssumption == MaxRooms \in Nat /\ MaxLost \in Nat

NoPose == -Farthest - MaxLost - 1

\* A room is told apart by its number only, a spot by its pose; `place` is a ghost.
Spot(x) == [x |-> x, place |-> seenAt]
Spots == [x : Int, place : Places]

TypeOK ==
    /\ node \in {"up", "down", "stuck"} /\ writing \in Files \cup {NoFile}
    /\ \A m \in {memory, file} :
         /\ DOMAIN m = Files
         /\ m["rooms"] \in Seq(1..MaxRooms) /\ m["locations"] \in Seq(Spots)
    /\ damage \in [Files -> {"none", "cut", "mangled"}]
    /\ {at, seenAt} \subseteq Places /\ previous \in Places \cup {NoFrame}
    /\ {pose, known, lost} \subseteq Int /\ recent \in BOOLEAN

Init == KeptInit /\ OdometryInit /\ lost = 0

Rooms == Len(memory["rooms"])

\* RoomGraph.start_room; the other setters rewrite the file as well.
StartRoom == Rooms < MaxRooms /\ Change("rooms", Append(memory["rooms"], Rooms + 1))

\* RoomGraph.reset
ResetMap == Change("rooms", Nothing)

\* on_admin_text and on_room_scan_label: the label, and its pose when there is one.
NameSpot == Change("locations", IF recent THEN <<Spot(known)>>
                                ELSE IF memory["locations"] # Nothing THEN memory["locations"]
                                ELSE <<Spot(NoPose)>>)

\* LocationStore.delete
DeleteSpot == memory["locations"] # Nothing /\ Change("locations", Nothing)

Patrol ==
    /\ StartRoom \/ ResetMap \/ NameSpot \/ DeleteSpot \/ Save
    /\ UNCHANGED <<odometry, lost>>

See ==
    /\ \/ (Moves \/ FirstFrame \/ MatchedFrame \/ GoesStale) /\ UNCHANGED lost
       \/ /\ UnmatchedFrame
          /\ lost' = lost + at - previous /\ lost' \in (-MaxLost)..MaxLost
    /\ UNCHANGED kept

Stop == Ends /\ UNCHANGED <<odometry, lost>>

\* patrol_node and visual_odom_node are started with the container.
Restart == Starts /\ OdometryRestarts /\ lost' = 0

Next == Patrol \/ See \/ Stop \/ Restart

Spec == Init /\ [][Next]_vars

\* At rest, a restart loses nothing: the files say what the node remembers, through every kill
\* in the middle of a save and every start from what it left.
RestartLosesNothing == AtRest => \A f \in Files : Loaded(f) = memory[f]

----------------------------------------------------------------------------
(* What comments promise and the code does not do.                         *)

\* "drift accumulates only from frames it was actually confident about" (visual_odom_node.py:45)
\* and poses are for "one session" (:47): where the odometry says that the robot is at a named
\* spot, it is, if matched frames are exact.
PoseMeansPlace ==
    AtRest /\ recent /\ memory["locations"] # Nothing =>
        LET spot == memory["locations"][1] IN known = spot.x => seenAt = spot.place
=============================================================================
