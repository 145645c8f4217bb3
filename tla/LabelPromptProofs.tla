------------------------- MODULE LabelPromptProofs -------------------------
(***************************************************************************)
(* RoomScan implements LabelPrompt: seen through its mission state and the *)
(* two flags, every step of the explorer is a step of the label prompt or  *)
(* leaves it as it is.  What AdminLink assumes of the patrol node is thus  *)
(* what the explorer does, for every value of the constants.               *)
(***************************************************************************)
EXTENDS RoomScanProofs

\* Nothing of the prompt changes.
PromptUnchanged ==
    /\ state' = state /\ alive' = alive
    /\ awaiting'.label = awaiting.label /\ awaiting'.ceiling = awaiting.ceiling

\* An unchanged state and unchanged flags are a stutter of the prompt.
LEMMA PromptStutters ==
    ASSUME PromptUnchanged
    PROVE  UNCHANGED Prompt!prompt
  BY DEF PromptUnchanged, Prompt!prompt

\* The ticks that walk: none of them touches the mission or a flag.
LEMMA WalkKeepsPrompt ==
    ASSUME TickContinue \/ RotationDone \/ VlmStepResult \/ ObstacleCheckResult \/ BackupDone
             \/ BlindDriveDone \/ AdvanceBlocked \/ AdvanceDone \/ BacktrackDone
             \/ OnVlmExploreObservation \/ ResetExploreMap
    PROVE  UNCHANGED Prompt!prompt
  BY PromptStutters
     DEF PromptUnchanged, TickContinue, RotationDone, VlmStepResult, ObstacleCheckResult,
         BackupDone, BlindDriveDone, AdvanceBlocked, AdvanceDone, BacktrackDone,
         OnVlmExploreObservation, ResetExploreMap, mission

\* After settling the ceiling question may be asked, and then no label is awaited.
LEMMA SettleAsks ==
    ASSUME Inductive, alive, SettleDone
    PROVE  Prompt!AskCeiling \/ UNCHANGED Prompt!prompt
<1>1. awaiting \in Flags /\ ~awaiting.label /\ ~awaiting.ceiling
  BY DEF Inductive, TypeOK, FlagsFollowPhase, SettleDone, Exploring, Flags
<1>2. state' = state /\ alive' = alive /\ state = "exploring"
  BY DEF SettleDone, Exploring, mission
<1>3. CASE next = "ceiling"
  <2>1. awaiting'.label = awaiting.label /\ awaiting'.ceiling = TRUE
    BY <1>1, <1>3 DEF SettleDone, Flags
  <2> QED
    BY <1>1, <1>2, <2>1 DEF Prompt!AskCeiling
<1>4. CASE next # "ceiling"
  <2>1. awaiting'.label = awaiting.label /\ awaiting'.ceiling = awaiting.ceiling
    BY <1>1, <1>4 DEF SettleDone, Flags
  <2> QED
    BY <1>2, <2>1, PromptStutters DEF PromptUnchanged
<1> QED
  BY <1>3, <1>4

\* An answer of the ceiling VLM: only the one to the ceiling question reaches the prompt, and
\* the room it names can be gone only when nobody is exploring.
LEMMA AnswerReaches ==
    ASSUME Inductive, alive, OnVlmObservation
    PROVE  Prompt!CeilingAnswered \/ Prompt!Die \/ Prompt!Suspend \/ UNCHANGED Prompt!prompt
<1>1. awaiting \in Flags
  BY DEF Inductive, TypeOK
<1>2. CASE RoomCheckAnswer
  <2>1. awaiting'.label = awaiting.label /\ awaiting'.ceiling = awaiting.ceiling
    BY <1>1, <1>2 DEF RoomCheckAnswer, Flags
  <2> QED
    BY <1>2, <2>1, PromptStutters DEF RoomCheckAnswer, PromptUnchanged, mission
<1>3. CASE CeilingAnswer
  <2>1. awaiting.ceiling /\ awaiting'.label = TRUE /\ awaiting'.ceiling = FALSE
    BY <1>1, <1>3 DEF CeilingAnswer, BeginAwaitLabel, Flags
  <2> QED
    BY <1>3, <2>1 DEF CeilingAnswer, Prompt!CeilingAnswered, mission
<1>4. CASE CeilingAnswerForGoneRoom
  <2>1. /\ awaiting.ceiling
        /\ awaiting'.label = awaiting.label /\ awaiting'.ceiling = FALSE
    BY <1>1, <1>4 DEF CeilingAnswerForGoneRoom, Flags
  <2>2. state # "exploring"
    BY <1>4 DEF CeilingAnswerForGoneRoom, Inductive, MissionTree
  <2> QED
    BY <1>4, <2>1, <2>2 DEF CeilingAnswerForGoneRoom, Prompt!Die
<1>5. CASE AnalysisAnswer
  <2>1. awaiting'.label = awaiting.label /\ awaiting'.ceiling = awaiting.ceiling
    BY <1>1, <1>5 DEF AnalysisAnswer, Flags
  <2>2. alive' = alive /\ (state' = state \/ (state' = "stopped"))
    BY <1>5 DEF AnalysisAnswer
  <2>3. CASE state' = state
    BY <2>1, <2>2, <2>3, PromptStutters DEF PromptUnchanged
  <2>4. CASE state' = "stopped"
    BY <2>1, <2>2, <2>4 DEF Prompt!Suspend
  <2> QED
    BY <2>2, <2>3, <2>4
<1> QED
  BY <1>2, <1>3, <1>4, <1>5 DEF OnVlmObservation

\* The label is taken only while exploring.
LEMMA LabelTaken == ASSUME Inductive, OnAdminText PROVE Prompt!LabelGiven
<1>1. awaiting'.label = FALSE /\ awaiting'.ceiling = awaiting.ceiling
  BY DEF Inductive, TypeOK, OnAdminText, Flags
<1> QED
  BY <1>1 DEF OnAdminText, Prompt!LabelGiven, mission

\* A new exploration withdraws every question.
LEMMA ExploreStarts == ASSUME Inductive, StartExplore PROVE Prompt!Start
<1>1. awaiting'.label = FALSE /\ awaiting'.ceiling = FALSE
  BY DEF Inductive, TypeOK, StartExplore, Flags
<1> QED
  BY <1>1 DEF StartExplore, Prompt!Start

\* A stop either withdraws the questions or leaves them standing.
LEMMA StopEnds == ASSUME Inductive, Stop PROVE Prompt!End \/ Prompt!Suspend
<1>1. CASE StopExploring
  <2>1. awaiting'.label = FALSE /\ awaiting'.ceiling = FALSE
    BY <1>1 DEF Inductive, TypeOK, StopExploring, Flags
  <2> QED
    BY <1>1, <2>1 DEF Stop, StopExploring, Prompt!End
<1>2. CASE StopPatrolling
  BY <1>2 DEF Stop, StopPatrolling, Prompt!Suspend
<1> QED
  BY <1>1, <1>2 DEF Stop

\* Every other mission suspends the exploration, if there is one.
LEMMA OtherMissionSuspends ==
    ASSUME Inductive, StartOtherMission \/ RequestAnalysis \/ OtherTick
    PROVE  Prompt!Suspend \/ UNCHANGED Prompt!prompt
<1>1. awaiting'.label = awaiting.label /\ awaiting'.ceiling = awaiting.ceiling
  BY DEF Inductive, TypeOK, StartOtherMission, RequestAnalysis, OtherTick, Flags
<1>2. alive' = alive /\ (state' = state \/ state' \in {"driving", "inspecting", "stopped"})
  BY DEF StartOtherMission, RequestAnalysis, OtherTick
<1>3. CASE state' = state
  BY <1>1, <1>2, <1>3, PromptStutters DEF PromptUnchanged
<1>4. CASE state' \in {"driving", "inspecting", "stopped"}
  BY <1>1, <1>2, <1>4 DEF Prompt!Suspend
<1> QED
  BY <1>2, <1>3, <1>4

\* Every step of the explorer is a step of the prompt.
LEMMA StepKeepsPrompt ==
    ASSUME Inductive, [Next]_vars
    PROVE  [Prompt!Next]_(Prompt!prompt)
<1>1. CASE Next
  <2>1. alive
    BY <1>1 DEF Next
  <2> QED
    BY <1>1, <2>1, WalkKeepsPrompt, SettleAsks, AnswerReaches, LabelTaken, ExploreStarts,
       StopEnds, OtherMissionSuspends
       DEF Next, TickProgress, OnMissionCommand, Prompt!Next
<1>2. CASE UNCHANGED vars
  BY <1>2, PromptStutters DEF vars, mission, PromptUnchanged
<1> QED
  BY <1>1, <1>2

\* The explorer implements the label prompt, whatever the map, the limits and the commands.
THEOREM ImplementsLabelPrompt == Spec => KeepsPrompt
<1>1. Init => Prompt!Init
  BY DEF Init, Prompt!Init
<1>2. Inductive /\ [Next]_vars => [Prompt!Next]_(Prompt!prompt)
  BY StepKeepsPrompt
<1> QED
  BY <1>1, <1>2, Invariance, PTL DEF Spec, KeepsPrompt, Prompt!Spec
=============================================================================
