------------------------------ MODULE Odometry ------------------------------
(***************************************************************************)
(* visual_odom_node: the pose accumulates the motion between each frame    *)
(* and the one before, and starts from zero with the node.  Places lie on  *)
(* a line, and what two matched frames say of the motion is exact: noise   *)
(* and drift are left out, the signs are taken as set right for the robot. *)
(***************************************************************************)
LOCAL INSTANCE Integers

CONSTANT Farthest       \* the robot is at one of the places 0..Farthest

VARIABLES
    at,             \* where the robot is
    previous,       \* prev_gray and the rest: where the last frame was taken
    pose,           \* x, y, yaw
    known,          \* patrol_node's copy of the pose
    recent,         \* has_recent_odom
    seenAt          \* ghost: where the frame behind `known` was taken

odometry == <<at, previous, pose, known, recent, seenAt>>

ASSUME PlacesAssumption == Farthest \in Nat

NoFrame == -1
Places == 0..Farthest
Poses == (-Farthest)..Farthest

OdometryInit ==
    /\ at \in Places
    /\ previous = NoFrame /\ pose = 0
    /\ known = 0 /\ recent = FALSE /\ seenAt = at

\* The robot drives, or is carried.
Moves == at' \in Places \ {at} /\ UNCHANGED <<previous, pose, known, recent, seenAt>>

\* on_color, the first frame.
FirstFrame ==
    /\ previous = NoFrame
    /\ previous' = at
    /\ UNCHANGED <<at, pose, known, recent, seenAt>>

\* on_color with a frame that estimate_motion can match, and patrol_node's on_odom_pose.
MatchedFrame ==
    /\ previous # NoFrame
    /\ previous' = at
    /\ pose' = pose + at - previous
    /\ known' = pose' /\ recent' = TRUE /\ seenAt' = at
    /\ UNCHANGED at

\* The same with one it cannot: the pose stays, and yet the next frame is compared with this one.
UnmatchedFrame ==
    /\ previous # NoFrame
    /\ previous' = at
    /\ UNCHANGED <<at, pose, known, recent, seenAt>>

\* odom_timeout_seconds without a pose.
GoesStale == recent /\ recent' = FALSE /\ UNCHANGED <<at, previous, pose, known, seenAt>>

\* Both nodes start again.
OdometryRestarts ==
    /\ previous' = NoFrame /\ pose' = 0
    /\ known' = 0 /\ recent' = FALSE
    /\ UNCHANGED <<at, seenAt>>
=============================================================================
