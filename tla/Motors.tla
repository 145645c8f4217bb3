------------------------------- MODULE Motors -------------------------------
(***************************************************************************)
(* jetbot_hardware_node: the last command on /cmd_vel drives the motors    *)
(* until the watchdog finds it too old.  The launch file starts the node   *)
(* again when it ends; the motors are outside the process and keep turning *)
(* as they were last told, unless its last act, to stop them, succeeds.    *)
(***************************************************************************)
EXTENDS Integers, Clocks

CONSTANTS
    CommandTimeout,     \* command_timeout_seconds, in periods of drive_loop
    RespawnDelay        \* respawn_delay and the time the node takes to start

VARIABLES
    hw,         \* "up", "down", or "null": up, with a backend that drives nothing
    motors,     \* the twist the motors were last given
    command,    \* the age of last_command_at
    gone        \* how long ago the node ended, Never once it has driven the motors again

hardware == <<hw, motors, command, gone>>

ASSUME HardwareAssumption == {CommandTimeout, RespawnDelay} \subseteq Nat

HardwareTypeOK ==
    /\ hw \in {"up", "down", "null"}
    /\ command \in Ages(CommandTimeout + 2)
    /\ gone \in Ages(RespawnDelay + 2)

HardwareInit == hw = "up" /\ motors = "still" /\ command = Never /\ gone = Never

\* on_cmd_vel; nobody reads the topic while the node is down.
OnCmdVel(twist) ==
    /\ motors' = IF hw = "up" THEN twist ELSE motors
    /\ command' = IF hw = "down" THEN command ELSE 0
    /\ gone' = IF hw = "up" THEN Never ELSE gone
    /\ UNCHANGED hw

MutHardwareWatchdog ==
    /\ hw # "down" /\ command > CommandTimeout
    /\ command' = Never
    /\ UNCHANGED <<hw, motors, gone>>

HardwareWatchdog ==
    /\ hw # "down" /\ command > CommandTimeout
    /\ motors' = IF hw = "up" THEN "still" ELSE motors
    /\ command' = Never
    /\ UNCHANGED <<hw, gone>>

\* An exception or a signal ends the node; destroy_node stops the motors if the bus lets it.
HardwareEnds ==
    /\ hw # "down"
    /\ hw' = "down"
    /\ motors' \in IF hw = "up" THEN {"still", motors} ELSE {motors}
    /\ command' = Never /\ gone' = 0

\* create_motor_backend sets up the chip without stopping the motors, or falls back to the
\* backend that ignores every command when the bus fails.
Respawn ==
    /\ hw = "down"
    /\ hw' \in {"up", "null"}
    /\ UNCHANGED <<motors, command, gone>>

\* The watchdog runs twice in a period, and the launcher brings the node back.
HardwareInTime ==
    /\ hw # "down" => command <= CommandTimeout
    /\ hw = "down" => gone < RespawnDelay

HardwareAges ==
    /\ command' = Older(command, CommandTimeout + 2)
    /\ gone' = Older(gone, RespawnDelay + 2)
    /\ UNCHANGED <<hw, motors>>
=============================================================================
