----------------------------- MODULE Avoidance -----------------------------
(***************************************************************************)
(* compute_patrol_command, the same in depth_nav_node and vision_nav_node: *)
(* what the node that drives a patrol orders for a frame with an obstacle  *)
(* in it, and for one without.  An episode of avoidance turns the robot to *)
(* one side, in pulses, until the way has been clear for long enough.      *)
(*                                                                         *)
(* Which side, the steering towards open space and the speed ramp are left *)
(* out.  The pulse is a function of the clock: it may be on or off.        *)
(***************************************************************************)
EXTENDS Integers, Clocks

CONSTANTS
    HoldTime,       \* obstacle_avoidance_hold_seconds, in periods of drive_loop
    MaxAvoidance,   \* obstacle_avoidance_max_seconds
    ConfirmFrames   \* obstacle_clear_confirm_frames, at least 1

VARIABLES
    avoiding,       \* obstacle_avoidance_direction is not 0
    quiet,          \* how long ago obstacle_avoidance_until was last set
    turning,        \* the age of obstacle_avoidance_started_at
    streak,         \* obstacle_clear_streak
    order           \* the last twist published on /ccai/vision_cmd_vel

episode == <<avoiding, quiet, turning, streak>>

ASSUME EpisodeAssumption == {HoldTime, MaxAvoidance} \subseteq Nat /\ ConfirmFrames \in Nat \ {0}

Pulse == {"turn", "still"}

EpisodeTypeOK ==
    /\ avoiding \in BOOLEAN
    /\ quiet \in 0..HoldTime /\ turning \in 0..(MaxAvoidance + 1) /\ streak \in 0..(ConfirmFrames - 1)

EpisodeInit == avoiding = FALSE /\ quiet = 0 /\ turning = 0 /\ streak = 0

\* Outside an episode its counters are written before they are read: they count as 0.
NoEpisode == avoiding' = FALSE /\ quiet' = 0 /\ turning' = 0 /\ streak' = 0

EpisodeAges ==
    /\ quiet' = IF avoiding THEN Older(quiet, HoldTime) ELSE quiet
    /\ turning' = IF avoiding THEN Older(turning, MaxAvoidance + 1) ELSE turning
    /\ UNCHANGED <<avoiding, streak>>

TimedOut == avoiding /\ turning > MaxAvoidance

\* A frame with an obstacle.
TurnAway ==
    /\ ~TimedOut
    /\ avoiding' = TRUE /\ quiet' = 0 /\ streak' = 0
    /\ turning' = IF avoiding THEN turning ELSE 0
    /\ order' \in Pulse

MutGiveUp == TimedOut /\ NoEpisode /\ order' = "forward"
GiveUp == TimedOut /\ NoEpisode /\ order' = "still"

Sighted == TurnAway \/ GiveUp

\* A frame without one.
Confirming == avoiding /\ (quiet < HoldTime \/ streak + 1 < ConfirmFrames)

\* The count goes on beyond ConfirmFrames while the hold lasts: one short of it is enough.
StillConfirming ==
    /\ Confirming
    /\ streak' = IF streak + 1 < ConfirmFrames THEN streak + 1 ELSE streak
    /\ order' \in Pulse
    /\ UNCHANGED <<avoiding, quiet, turning>>

DriveOn == ~Confirming /\ NoEpisode /\ order' = "forward"

Cleared == StillConfirming \/ DriveOn
=============================================================================
