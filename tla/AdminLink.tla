----------------------------- MODULE AdminLink -----------------------------
(***************************************************************************)
(* An admin's text reaches two processes at once: patrol_node, which takes *)
(* it for the label it asked for, and llm_control_node, which turns it     *)
(* into a mission command.  patrol_node tells the other on a topic of its  *)
(* own whether it awaits a label.  A topic is a queue per subscriber; ROS  *)
(* gives no order across topics.  The queues are 10 deep in the code and   *)
(* MaxTexts is well below that, so nothing overflows.                      *)
(*                                                                         *)
(* The explorer is seen through LabelPrompt, which RoomScan implements.    *)
(*                                                                         *)
(* `acted`, `settled` and `lastWord` are ghosts: who acted on each text,   *)
(* the texts since which neither the question nor the mission has changed, *)
(* and the last command word obeyed.                                       *)
(***************************************************************************)
EXTENDS Integers, Sequences

CONSTANTS
    Kinds,          \* what an admin writes: a command, or a "name" that is none
    MaxTexts        \* bound: texts written

VARIABLES
    exploring, label, ceiling, alive,
    believed,       \* llm_control_node: robot_awaiting_label
    threads,        \* llm_control_node: texts a resolve_with_llm thread works on
    toPatrol, toLlm,        \* /ccai/admin_text, as each node has yet to read it
    flags,          \* /ccai/awaiting_label
    commands,       \* /ccai/mission_command
    sent,           \* texts written so far
    acted, settled, lastWord    \* ghosts

explorer == <<exploring, label, ceiling, alive>>
llm == <<believed, threads>>
texts == <<toPatrol, toLlm, sent>>
ghost == <<acted, settled, lastWord>>
vars == <<explorer, llm, texts, flags, commands, ghost>>

Prompt == INSTANCE LabelPrompt

DirectTypes == {"explore_start", "explore_stop", "patrol_stop", "stop", "go_home"}
Types == DirectTypes \cup {"say"}

ASSUME KindsAssumption == Kinds \subseteq DirectTypes \cup {"name"}
ASSUME TextsAssumption == MaxTexts \in Nat

Text == [id : 1..MaxTexts, kind : Kinds]

\* A command keeps the text it comes from; an operator's command has no text.
Typed == "typed"
Command == [id : 1..MaxTexts, type : Types, raw : Kinds \cup {Typed}]

TypeOK ==
    /\ {exploring, label, ceiling, alive, believed} \subseteq BOOLEAN
    /\ threads \subseteq Text
    /\ toPatrol \in Seq(Text) /\ toLlm \in Seq(Text)
    /\ flags \in Seq(BOOLEAN)
    /\ commands \in Seq(Command)
    /\ sent \in 0..MaxTexts /\ lastWord \in 0..MaxTexts
    /\ acted \in [1..MaxTexts -> SUBSET {"label", "command"}]
    /\ settled \subseteq 1..MaxTexts

Init ==
    /\ Prompt!Init
    /\ believed = FALSE /\ threads = {}
    /\ toPatrol = <<>> /\ toLlm = <<>> /\ sent = 0
    /\ flags = <<>> /\ commands = <<>>
    /\ lastWord = 0
    /\ acted = [id \in 1..MaxTexts |-> {}]
    /\ settled = {}

\* The two nodes agree, and a label is awaited by a node that would take it.
Quiet == believed = label /\ flags = <<>> /\ (label => exploring)

\* A text stays settled while neither the question nor the mission changes.
Watch ==
    settled' = IF label' = label /\ exploring' = exploring THEN settled ELSE {}

Act(id, as) == acted' = [acted EXCEPT ![id] = @ \cup {as}]

----------------------------------------------------------------------------
(* web_chat_node and telegram_bridge_node publish what an admin writes.    *)

Write ==
    /\ sent < MaxTexts
    /\ sent' = sent + 1
    /\ \E kind \in Kinds :
         LET text == [id |-> sent + 1, kind |-> kind]
         IN  toPatrol' = Append(toPatrol, text) /\ toLlm' = Append(toLlm, text)
    /\ settled' = IF Quiet THEN settled \cup {sent + 1} ELSE settled
    /\ UNCHANGED <<explorer, llm, flags, commands, lastWord, acted>>

\* An operator types a command on /ccai/mission_command itself (docs/operations.md).
Operate ==
    /\ sent < MaxTexts
    /\ sent' = sent + 1
    /\ \E type \in DirectTypes \cap Kinds :
         commands' = Append(commands, [id |-> sent + 1, type |-> type, raw |-> Typed])
    /\ UNCHANGED <<explorer, llm, toPatrol, toLlm, flags, ghost>>

----------------------------------------------------------------------------
(* llm_control_node.                                                       *)

OnAwaitingLabel ==
    /\ flags # <<>>
    /\ believed' = Head(flags)
    /\ flags' = Tail(flags)
    /\ UNCHANGED <<explorer, threads, texts, commands, ghost>>

PublishCommand(text, type) ==
    commands' = Append(commands, [id |-> text.id, type |-> type, raw |-> text.kind])

MutIsDirectRobotCommand(type) == type \in DirectTypes \ {"stop"}

IsDirectRobotCommand(type) == type \in DirectTypes

\* on_admin_text: dropped while a label is awaited; a command the parser knows goes out at
\* once, anything else to a thread of its own.
LlmOnAdminText ==
    /\ toLlm # <<>>
    /\ toLlm' = Tail(toLlm)
    /\ LET text == Head(toLlm) IN
         \/ /\ believed
            /\ UNCHANGED <<commands, threads, acted>>
         \/ /\ ~believed /\ IsDirectRobotCommand(text.kind)
            /\ PublishCommand(text, text.kind)
            /\ Act(text.id, "command")
            /\ UNCHANGED threads
         \/ /\ ~believed /\ ~IsDirectRobotCommand(text.kind)
            /\ threads' = threads \cup {text}
            /\ Act(text.id, "command")
            /\ UNCHANGED commands
    /\ UNCHANGED <<explorer, believed, toPatrol, sent, flags, lastWord, settled>>

\* resolve_with_llm: the LLM may read any command into a text; when it fails, the text is
\* parsed once more, is still no command, and only an event says so.
ResolveWithLlm ==
    \E text \in threads :
      /\ threads' = threads \ {text}
      /\ \/ \E type \in Types : PublishCommand(text, type)
         \/ UNCHANGED commands
      /\ UNCHANGED <<explorer, believed, texts, flags, ghost>>

----------------------------------------------------------------------------
(* patrol_node.                                                            *)

\* publish_awaiting_label_state, after the flag was changed.
Publish(values) == flags' = flags \o values

MutPatrolOnAdminTextFrontierOnly ==
    /\ toPatrol # <<>>
    /\ toPatrol' = Tail(toPatrol)
    /\ UNCHANGED <<explorer, llm, toLlm, sent, flags, commands, ghost>>

\* on_admin_text, on_room_scan_label
PatrolOnAdminText ==
    /\ toPatrol # <<>>
    /\ toPatrol' = Tail(toPatrol)
    /\ \/ /\ Prompt!LabelGiven
          /\ Publish(<<FALSE>>)
          /\ Act(Head(toPatrol).id, "label")
       \/ /\ ~(exploring /\ label)
          /\ UNCHANGED <<explorer, flags, acted>>
    /\ Watch
    /\ UNCHANGED <<llm, toLlm, sent, commands, lastWord>>

\* mission.normalize_command_type, which the JSON of every routed command goes through.
NormalizeCommandType(type) == IF type = "stop" THEN "patrol_stop" ELSE type

ParseMissionCommand(command) ==
    IF command.raw = Typed THEN command.type ELSE NormalizeCommandType(command.type)

\* start_explore publishes the flag before start_room_scan_explore clears and publishes it.
StartExplore == Prompt!Start /\ Publish(<<label, FALSE>>)

MutStopExploringUntold == Prompt!End /\ UNCHANGED flags

StopExploring == Prompt!End /\ Publish(<<FALSE>>)

Obey(type) ==
    \/ type = "explore_start" /\ StartExplore
    \/ type = "explore_stop" /\ StopExploring
    \/ /\ type = "stop"
       /\ IF exploring THEN StopExploring ELSE Prompt!Suspend /\ UNCHANGED flags
    \/ type \in {"patrol_stop", "go_home"} /\ Prompt!Suspend /\ UNCHANGED flags
    \/ type = "say" /\ UNCHANGED <<explorer, flags>>

\* A command word that an admin wrote.
IsWord(command) == command.raw \in DirectTypes

OnMissionCommand ==
    /\ commands # <<>>
    /\ commands' = Tail(commands)
    /\ Obey(ParseMissionCommand(Head(commands)))
    /\ lastWord' = IF IsWord(Head(commands)) THEN Head(commands).id ELSE lastWord
    /\ Watch
    /\ UNCHANGED <<llm, texts, acted>>

\* The explorer's own steps that the other node can notice.
ExplorerStep ==
    /\ \/ Prompt!AskCeiling /\ UNCHANGED flags
       \/ Prompt!CeilingAnswered /\ Publish(<<TRUE>>)
    /\ Watch
    /\ UNCHANGED <<llm, texts, commands, lastWord, acted>>

----------------------------------------------------------------------------
Next ==
    \/ Write \/ Operate
    \/ OnAwaitingLabel \/ LlmOnAdminText \/ ResolveWithLlm
    \/ PatrolOnAdminText \/ OnMissionCommand \/ ExplorerStep

Spec == Init /\ [][Next]_vars

\* The last value the LLM node was told, or is about to be told, is the patrol node's flag:
\* through every start, stop, suspension, question and answer, no change of
\* room_scan_awaiting_label goes unpublished (publish_awaiting_label_state).
LastFlagTold == (IF flags = <<>> THEN believed ELSE flags[Len(flags)]) = label

\* Commands the parser knows by itself are obeyed in the order the admin wrote them: only a
\* command the LLM had to read can come late (on_admin_text publishes the former at once).
CommandWordsInOrder ==
    [][OnMissionCommand /\ IsWord(Head(commands)) => Head(commands).id > lastWord]_vars

\* A text both nodes have read, and nothing about the question or the mission having changed
\* in between, was acted on by one of them at least: the gate of one node covers no more than
\* the other takes.
NoTextLostWhenSettled ==
    \A id \in settled :
      (\A i \in DOMAIN toPatrol : toPatrol[i].id # id) /\ (\A i \in DOMAIN toLlm : toLlm[i].id # id)
        => acted[id] # {}

----------------------------------------------------------------------------
(* What comments of the code say and the code does not do.                 *)

\* A bare stop ends the mission that is running: met exploring, it is an explore_stop.
BareStopEndsExploring ==
    [][OnMissionCommand /\ Head(commands).type = "stop" /\ exploring => ~label' /\ ~ceiling']_vars
=============================================================================
