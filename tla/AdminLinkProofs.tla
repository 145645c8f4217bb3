-------------------------- MODULE AdminLinkProofs --------------------------
(***************************************************************************)
(* Whatever is written and however the topics interleave, the last value   *)
(* of the awaiting-label flag on its way to the LLM node is the flag the   *)
(* patrol node has; words of command are obeyed in the order they were     *)
(* written; and no text falls between the two nodes while they agree.      *)
(***************************************************************************)
EXTENDS AdminLink, SequenceTheorems, TLAPS

\* What travels on the flag's topic is Boolean, as is what it is compared with.
FlagTypes == flags \in Seq(BOOLEAN) /\ label \in BOOLEAN

Told == FlagTypes /\ LastFlagTold

\* Publishing ends with the value published last.
LEMMA PublishOne ==
    ASSUME FlagTypes, NEW v \in BOOLEAN, flags' = flags \o <<v>>
    PROVE  flags' \in Seq(BOOLEAN) /\ flags' # <<>> /\ flags'[Len(flags')] = v
  BY DEF FlagTypes

LEMMA PublishTwo ==
    ASSUME FlagTypes, NEW u \in BOOLEAN, NEW v \in BOOLEAN, flags' = flags \o <<u, v>>
    PROVE  flags' \in Seq(BOOLEAN) /\ flags' # <<>> /\ flags'[Len(flags')] = v
  BY DEF FlagTypes

\* A step that touches neither the question nor its topic keeps the invariant.
LEMMA Untouched ==
    ASSUME Told, UNCHANGED <<label, believed, flags>>
    PROVE  Told'
  BY DEF Told, FlagTypes, LastFlagTold

\* A flag that is read was either not the last on its way, or becomes what is believed.
LEMMA FlagRead == ASSUME Told, OnAwaitingLabel PROVE Told'
<1>1. flags \in Seq(BOOLEAN) /\ flags # <<>> /\ label \in BOOLEAN /\ label' = label
  BY DEF Told, FlagTypes, OnAwaitingLabel, explorer
<1>2. flags[Len(flags)] = label
  BY <1>1 DEF Told, LastFlagTold
<1>3. flags' = Tail(flags) /\ believed' = flags[1]
  BY <1>1 DEF OnAwaitingLabel
<1>4. FlagTypes'
  BY <1>1, <1>3 DEF FlagTypes
<1>5. CASE Len(flags) = 1
  BY <1>1, <1>2, <1>3, <1>4, <1>5 DEF Told, LastFlagTold
<1>6. CASE Len(flags) # 1
  <2>1. Len(flags) \in Nat /\ Len(flags) > 1
    <3>1. Len(flags) \in Nat \ {0}
      BY <1>1, EmptySeq, Zenon
    <3>2. \A n \in Nat \ {0} : n # 1 => n > 1
      OBVIOUS
    <3> QED
      BY <1>6, <3>1, <3>2, Zenon
  <2>2. /\ flags' \in Seq(BOOLEAN) /\ Len(flags') = Len(flags) - 1
        /\ \A i \in 1..Len(flags') : flags'[i] = flags[i + 1]
    BY <1>1, <1>3, HeadTailProperties
  <2>3. flags'[Len(flags')] = flags[Len(flags)]
    BY <2>1, <2>2
  <2>4. flags' # <<>>
    BY <2>1, <2>2, EmptySeq
  <2> QED
    BY <1>1, <1>2, <1>4, <2>3, <2>4 DEF Told, LastFlagTold
<1> QED
  BY <1>5, <1>6

\* A published value that is the new flag keeps the invariant.
LEMMA PublishedLast ==
    ASSUME NEW v \in BOOLEAN, label' = v,
           flags' \in Seq(BOOLEAN), flags' # <<>>, flags'[Len(flags')] = v
    PROVE  Told'
  BY DEF Told, FlagTypes, LastFlagTold

LEMMA LabelAnswered == ASSUME Told, PatrolOnAdminText PROVE Told'
<1>1. believed' = believed
  BY DEF PatrolOnAdminText, llm
<1>2. CASE Prompt!LabelGiven /\ Publish(<<FALSE>>)
  BY <1>2, PublishOne, PublishedLast DEF Told, Prompt!LabelGiven, Publish
<1>3. CASE UNCHANGED <<explorer, flags, acted>>
  BY <1>1, <1>3, Untouched DEF explorer
<1> QED
  BY <1>2, <1>3 DEF PatrolOnAdminText

\* A command that ends or restarts the exploration withdraws the question and says so; one
\* that suspends it leaves the question standing.
LEMMA CommandObeyed == ASSUME Told, OnMissionCommand PROVE Told'
<1>1. believed' = believed
  BY DEF OnMissionCommand, llm
<1>2. CASE StartExplore
  <2>1. flags' = flags \o <<label, FALSE>> /\ label' = FALSE /\ label \in BOOLEAN
    BY <1>2 DEF StartExplore, Publish, Prompt!Start, Told, FlagTypes
  <2> QED
    BY <2>1, PublishTwo, PublishedLast DEF Told
<1>3. CASE StopExploring
  <2>1. flags' = flags \o <<FALSE>> /\ label' = FALSE
    BY <1>3 DEF StopExploring, Publish, Prompt!End
  <2> QED
    BY <2>1, PublishOne, PublishedLast DEF Told
<1>4. CASE Prompt!Suspend /\ UNCHANGED flags
  BY <1>1, <1>4, Untouched DEF Prompt!Suspend
<1>5. CASE UNCHANGED <<explorer, flags>>
  BY <1>1, <1>5, Untouched DEF explorer
<1> QED
  BY <1>2, <1>3, <1>4, <1>5 DEF OnMissionCommand, Obey

LEMMA ExplorerSteps == ASSUME Told, ExplorerStep PROVE Told'
<1>1. believed' = believed
  BY DEF ExplorerStep, llm
<1>2. CASE Prompt!AskCeiling /\ UNCHANGED flags
  BY <1>1, <1>2, Untouched DEF Prompt!AskCeiling
<1>3. CASE Prompt!CeilingAnswered /\ Publish(<<TRUE>>)
  <2>1. flags' = flags \o <<TRUE>> /\ label' = TRUE
    BY <1>3 DEF Prompt!CeilingAnswered, Publish
  <2> QED
    BY <2>1, PublishOne, PublishedLast DEF Told
<1> QED
  BY <1>2, <1>3 DEF ExplorerStep

LEMMA StepKeepsTold == ASSUME Told, [Next]_vars PROVE Told'
<1>1. CASE Write \/ Operate \/ LlmOnAdminText \/ ResolveWithLlm \/ UNCHANGED vars
  BY <1>1, Untouched
     DEF Write, Operate, LlmOnAdminText, ResolveWithLlm, vars, explorer, llm
<1> QED
  BY <1>1, FlagRead, LabelAnswered, CommandObeyed, ExplorerSteps DEF Next

\* No change of the flag goes unpublished, for any number of texts and any commands
\* (publish_awaiting_label_state).
THEOREM FlagTold == Spec => []LastFlagTold
<1>1. Init => Told
  BY EmptySeq DEF Init, Prompt!Init, Told, FlagTypes, LastFlagTold
<1>2. Told /\ [Next]_vars => Told'
  BY StepKeepsTold
<1>3. Told => LastFlagTold
  BY DEF Told
<1> QED
  BY <1>1, <1>2, <1>3, PTL DEF Spec


(***************************************************************************)
(* Queues and types.                                                       *)
(***************************************************************************)
LEMMA Appended ==
    ASSUME NEW S, NEW queue \in Seq(S), NEW message \in S
    PROVE  /\ Append(queue, message) \in Seq(S) /\ Len(queue) \in Nat
           /\ DOMAIN queue = 1..Len(queue) /\ DOMAIN Append(queue, message) = 1..(Len(queue) + 1)
           /\ \A i \in DOMAIN queue : Append(queue, message)[i] = queue[i]
           /\ Append(queue, message)[Len(queue) + 1] = message
           /\ \A i \in DOMAIN Append(queue, message) : i \in DOMAIN queue \/ i = Len(queue) + 1
<1>1. DOMAIN queue = 1..Len(queue) /\ Len(queue) \in Nat
  BY LenProperties
<1>2. /\ Append(queue, message) \in Seq(S) /\ Len(Append(queue, message)) = Len(queue) + 1
      /\ \A i \in 1..Len(queue) : Append(queue, message)[i] = queue[i]
      /\ Append(queue, message)[Len(queue) + 1] = message
  BY AppendProperties
<1>3. DOMAIN Append(queue, message) = 1..(Len(queue) + 1)
  BY <1>2, LenProperties
<1>4. \A i \in 1..(Len(queue) + 1) : i \in 1..Len(queue) \/ i = Len(queue) + 1
  BY <1>1
<1> QED
  BY <1>1, <1>2, <1>3, <1>4

LEMMA Behind ==
    ASSUME NEW S, NEW queue \in Seq(S), queue # <<>>
    PROVE  /\ Head(queue) \in S /\ Tail(queue) \in Seq(S)
           /\ 1 \in DOMAIN queue /\ Head(queue) = queue[1]
           /\ \A i \in DOMAIN Tail(queue) :
                i \in Nat \ {0} /\ i + 1 \in DOMAIN queue /\ Tail(queue)[i] = queue[i + 1]
           /\ \A i \in DOMAIN queue :
                i # 1 => i - 1 \in DOMAIN Tail(queue) /\ Tail(queue)[i - 1] = queue[i]
<1>1. DOMAIN queue = 1..Len(queue) /\ Len(queue) \in Nat \ {0} /\ Head(queue) = queue[1]
  BY LenProperties, EmptySeq
<1>2. /\ Head(queue) \in S /\ Tail(queue) \in Seq(S) /\ Len(Tail(queue)) = Len(queue) - 1
      /\ \A i \in 1..Len(Tail(queue)) : Tail(queue)[i] = queue[i + 1]
  BY HeadTailProperties
<1>3. DOMAIN Tail(queue) = 1..(Len(queue) - 1)
  BY <1>2, LenProperties
<1> QED
  BY <1>1, <1>2, <1>3

LEMMA Identifiers ==
    /\ MaxTexts \in Nat
    /\ \A id \in 0..MaxTexts : id < MaxTexts => id + 1 \in 1..MaxTexts
  BY TextsAssumption

\* Who publishes a command gives it a type, and leaves its text as its source.
LEMMA PublishedCommand ==
    ASSUME TypeOK, NEW text \in Text, NEW type \in Types, PublishCommand(text, type)
    PROVE  commands' \in Seq(Command)
<1>1. [id |-> text.id, type |-> type, raw |-> text.kind] \in Command
  BY DEF Text, Command
<1> QED
  BY <1>1, Appended DEF PublishCommand, TypeOK

LEMMA TypedAct ==
    ASSUME TypeOK, NEW id, NEW as \in {"label", "command"}, Act(id, as)
    PROVE  acted' \in [1..MaxTexts -> SUBSET {"label", "command"}]
  BY DEF Act, TypeOK

LEMMA TypedPrompt ==
    ASSUME TypeOK,
           \/ Prompt!Start \/ Prompt!End \/ Prompt!Suspend \/ Prompt!AskCeiling
           \/ Prompt!CeilingAnswered \/ Prompt!LabelGiven \/ UNCHANGED explorer
    PROVE  {exploring', label', ceiling', alive'} \subseteq BOOLEAN
  BY DEF TypeOK, explorer, Prompt!Start, Prompt!End, Prompt!Suspend, Prompt!AskCeiling,
         Prompt!CeilingAnswered, Prompt!LabelGiven

LEMMA TypedPublish ==
    ASSUME TypeOK, NEW values \in Seq(BOOLEAN), Publish(values)
    PROVE  flags' \in Seq(BOOLEAN)
  BY ConcatProperties DEF Publish, TypeOK

LEMMA Values ==
    ASSUME TypeOK
    PROVE  <<FALSE>> \in Seq(BOOLEAN) /\ <<TRUE>> \in Seq(BOOLEAN) /\ <<label, FALSE>> \in Seq(BOOLEAN)
  BY DEF TypeOK

LEMMA TypedWatch == ASSUME TypeOK, Watch PROVE settled' \subseteq 1..MaxTexts
  BY DEF Watch, TypeOK

LEMMA TypedWrite == ASSUME TypeOK, Write \/ Operate PROVE TypeOK'
<1>1. sent + 1 \in 1..MaxTexts /\ sent' = sent + 1 /\ sent' \in 0..MaxTexts
  BY Identifiers DEF Write, Operate, TypeOK
<1>2. CASE Write
  <2>1. PICK kind \in Kinds : /\ toPatrol' = Append(toPatrol, [id |-> sent + 1, kind |-> kind])
                              /\ toLlm' = Append(toLlm, [id |-> sent + 1, kind |-> kind])
    BY <1>2 DEF Write
  <2>2. toPatrol' \in Seq(Text) /\ toLlm' \in Seq(Text)
    BY <1>1, <2>1, Appended DEF TypeOK, Text
  <2> QED
    BY <1>1, <1>2, <2>2 DEF Write, TypeOK, explorer, llm
<1>3. CASE Operate
  <2>1. PICK type \in DirectTypes \cap Kinds :
          commands' = Append(commands, [id |-> sent + 1, type |-> type, raw |-> Typed])
    BY <1>3 DEF Operate
  <2>2. [id |-> sent + 1, type |-> type, raw |-> Typed] \in Command
    BY <1>1 DEF Command, Types
  <2>3. commands' \in Seq(Command)
    BY <2>1, <2>2, Appended DEF TypeOK
  <2> QED
    BY <1>1, <1>3, <2>3 DEF Operate, TypeOK, explorer, llm, ghost
<1> QED
  BY <1>2, <1>3

LEMMA TypedLlm == ASSUME TypeOK, OnAwaitingLabel \/ LlmOnAdminText \/ ResolveWithLlm PROVE TypeOK'
<1>1. CASE OnAwaitingLabel
  <2>1. Head(flags) \in BOOLEAN /\ Tail(flags) \in Seq(BOOLEAN)
    BY <1>1, Behind DEF OnAwaitingLabel, TypeOK
  <2> QED
    BY <1>1, <2>1 DEF OnAwaitingLabel, TypeOK, explorer, texts, ghost
<1>2. CASE LlmOnAdminText
  <2>1. Head(toLlm) \in Text /\ toLlm' \in Seq(Text)
    BY <1>2, Behind DEF LlmOnAdminText, TypeOK
  <2>2. /\ commands' \in Seq(Command) /\ threads' \subseteq Text
        /\ acted' \in [1..MaxTexts -> SUBSET {"label", "command"}]
    <3>1. CASE UNCHANGED <<commands, threads, acted>>
      BY <3>1 DEF TypeOK
    <3>2. CASE /\ IsDirectRobotCommand(Head(toLlm).kind) /\ PublishCommand(Head(toLlm), Head(toLlm).kind)
               /\ Act(Head(toLlm).id, "command") /\ UNCHANGED threads
      <4>1. Head(toLlm).kind \in Types
        BY <3>2 DEF IsDirectRobotCommand, Types
      <4>2. commands' \in Seq(Command)
        BY <2>1, <3>2, <4>1, PublishedCommand
      <4> QED
        BY <3>2, <4>2, TypedAct DEF TypeOK
    <3>3. CASE /\ threads' = threads \cup {Head(toLlm)} /\ Act(Head(toLlm).id, "command")
               /\ UNCHANGED commands
      BY <2>1, <3>3, TypedAct DEF TypeOK
    <3> QED
      BY <1>2, <3>1, <3>2, <3>3 DEF LlmOnAdminText
  <2> QED
    BY <1>2, <2>1, <2>2 DEF LlmOnAdminText, TypeOK, explorer
<1>3. CASE ResolveWithLlm
  <2>1. PICK text \in threads : /\ threads' = threads \ {text}
                                /\ \/ \E type \in Types : PublishCommand(text, type)
                                   \/ UNCHANGED commands
                                /\ UNCHANGED <<explorer, believed, texts, flags, ghost>>
    BY <1>3 DEF ResolveWithLlm
  <2>2. text \in Text
    BY DEF TypeOK
  <2>3. commands' \in Seq(Command)
    BY <2>1, <2>2, PublishedCommand DEF TypeOK
  <2> QED
    BY <2>1, <2>3 DEF TypeOK, explorer, texts, ghost
<1> QED
  BY <1>1, <1>2, <1>3

LEMMA TypedPatrol == ASSUME TypeOK, PatrolOnAdminText \/ OnMissionCommand \/ ExplorerStep PROVE TypeOK'
<1>1. settled' \subseteq 1..MaxTexts
  BY TypedWatch DEF PatrolOnAdminText, OnMissionCommand, ExplorerStep
<1>2. CASE PatrolOnAdminText
  <2>1. toPatrol' \in Seq(Text)
    BY <1>2, Behind DEF PatrolOnAdminText, TypeOK
  <2>2. /\ {exploring', label', ceiling', alive'} \subseteq BOOLEAN /\ flags' \in Seq(BOOLEAN)
        /\ acted' \in [1..MaxTexts -> SUBSET {"label", "command"}]
    <3>1. CASE Prompt!LabelGiven /\ Publish(<<FALSE>>) /\ Act(Head(toPatrol).id, "label")
      BY <3>1, TypedPrompt, TypedPublish, TypedAct, Values
    <3>2. CASE UNCHANGED <<explorer, flags, acted>>
      BY <3>2, TypedPrompt DEF TypeOK
    <3> QED
      BY <1>2, <3>1, <3>2 DEF PatrolOnAdminText
  <2> QED
    BY <1>1, <1>2, <2>1, <2>2 DEF PatrolOnAdminText, TypeOK, llm
<1>3. CASE OnMissionCommand
  <2>1. Head(commands) \in Command /\ commands' \in Seq(Command)
    BY <1>3, Behind DEF OnMissionCommand, TypeOK
  <2>2. lastWord' \in 0..MaxTexts
    <3>1. Head(commands).id \in 0..MaxTexts
      BY <2>1, Identifiers DEF Command
    <3> QED
      BY <1>3, <3>1 DEF OnMissionCommand, TypeOK
  <2>3. {exploring', label', ceiling', alive'} \subseteq BOOLEAN /\ flags' \in Seq(BOOLEAN)
    <3>1. CASE StartExplore \/ StopExploring
      BY <3>1, TypedPrompt, TypedPublish, Values DEF StartExplore, StopExploring
    <3>2. CASE (Prompt!Suspend \/ UNCHANGED explorer) /\ UNCHANGED flags
      BY <3>2, TypedPrompt DEF TypeOK
    <3> QED
      BY <1>3, <3>1, <3>2 DEF OnMissionCommand, Obey
  <2> QED
    BY <1>1, <1>3, <2>1, <2>2, <2>3 DEF OnMissionCommand, TypeOK, llm, texts
<1>4. CASE ExplorerStep
  <2>1. {exploring', label', ceiling', alive'} \subseteq BOOLEAN /\ flags' \in Seq(BOOLEAN)
    <3>1. CASE Prompt!AskCeiling /\ UNCHANGED flags
      BY <3>1, TypedPrompt DEF TypeOK
    <3>2. CASE Prompt!CeilingAnswered /\ Publish(<<TRUE>>)
      BY <3>2, TypedPrompt, TypedPublish, Values
    <3> QED
      BY <1>4, <3>1, <3>2 DEF ExplorerStep
  <2> QED
    BY <1>1, <1>4, <2>1 DEF ExplorerStep, TypeOK, llm, texts
<1> QED
  BY <1>2, <1>3, <1>4

LEMMA TypedStep == ASSUME TypeOK, [Next]_vars PROVE TypeOK'
<1>1. CASE UNCHANGED vars
  BY <1>1 DEF vars, explorer, llm, texts, ghost, TypeOK
<1> QED
  BY <1>1, TypedWrite, TypedLlm, TypedPatrol DEF Next

\* Every variable keeps its type: what is published is always a command the parser knows.
THEOREM TypeCorrect == Spec => []TypeOK
<1>1. Init => TypeOK
  <2>1. \A S : <<>> \in Seq(S)
    BY EmptySeq
  <2>2. 0 \in 0..MaxTexts
    BY Identifiers
  <2> QED
    BY <2>1, <2>2, Zenon DEF Init, Prompt!Init, TypeOK
<1> QED
  BY <1>1, TypedStep, PTL DEF Spec


(***************************************************************************)
(* Order.  A command word that was obeyed is older than those on the topic *)
(* of commands, which come in the order they were written and are older    *)
(* than what the LLM node has yet to read; a text that needed the LLM is   *)
(* no command word.                                                        *)
(***************************************************************************)
Ordered ==
    /\ \A i, j \in DOMAIN toLlm : i < j => toLlm[i].id < toLlm[j].id
    /\ \A i \in DOMAIN toLlm : lastWord < toLlm[i].id /\ toLlm[i].id <= sent
    /\ \A text \in threads : text.kind \notin DirectTypes
    /\ \A i, j \in DOMAIN commands :
         i < j /\ IsWord(commands[i]) /\ IsWord(commands[j]) => commands[i].id < commands[j].id
    /\ \A i \in DOMAIN commands : IsWord(commands[i]) =>
         /\ lastWord < commands[i].id /\ commands[i].id <= sent
         /\ \A k \in DOMAIN toLlm : commands[i].id < toLlm[k].id
    /\ lastWord <= sent

LEMMA LinkTypes ==
    ASSUME TypeOK
    PROVE  /\ DOMAIN toLlm \subseteq Nat /\ DOMAIN commands \subseteq Nat
           /\ \A i \in DOMAIN toLlm : toLlm[i] \in Text /\ toLlm[i].id \in Nat
           /\ \A i \in DOMAIN commands : commands[i] \in Command /\ commands[i].id \in Nat
           /\ sent \in Nat /\ lastWord \in Nat
<1>1. DOMAIN toLlm = 1..Len(toLlm) /\ DOMAIN commands = 1..Len(commands)
  BY LenProperties DEF TypeOK
<1>2. \A i \in DOMAIN toLlm : toLlm[i] \in Text
  BY <1>1, ElementOfSeq DEF TypeOK
<1>3. \A i \in DOMAIN commands : commands[i] \in Command
  BY <1>1, ElementOfSeq DEF TypeOK
<1>4. 1..MaxTexts \subseteq Nat /\ 0..MaxTexts \subseteq Nat
  BY TextsAssumption
<1> QED
  BY <1>1, <1>2, <1>3, <1>4 DEF TypeOK, Text, Command

\* A command that is no word joins the topic without a place in the order.
LEMMA OrderedOther ==
    ASSUME TypeOK, Ordered, NEW command \in Command, ~IsWord(command),
           commands' = Append(commands, command),
           UNCHANGED <<toLlm, lastWord>>, sent' \in {sent, sent + 1}, threads' \subseteq threads
    PROVE  Ordered'
<1>1. /\ \A i \in DOMAIN commands' : i \in DOMAIN commands \/ commands'[i] = command
      /\ \A i \in DOMAIN commands : commands'[i] = commands[i]
  BY Appended DEF TypeOK
<1>2. \A i \in DOMAIN commands' : IsWord(commands'[i]) =>
        i \in DOMAIN commands /\ commands'[i] = commands[i]
  BY <1>1
<1>3. \A n \in Nat : n <= sent => n <= sent'
  BY LinkTypes
<1> QED
  BY <1>2, <1>3, LinkTypes DEF Ordered, IsWord

LEMMA OrderedWrite == ASSUME TypeOK, Ordered, Write PROVE Ordered'
<1>1. PICK kind \in Kinds : toLlm' = Append(toLlm, [id |-> sent + 1, kind |-> kind])
  BY DEF Write
<1>2. sent' = sent + 1 /\ UNCHANGED <<threads, commands, lastWord>>
  BY DEF Write, llm
<1>3. [id |-> sent + 1, kind |-> kind] \in Text
  BY Identifiers DEF Write, TypeOK, Text
<1>4. /\ \A i \in DOMAIN toLlm : toLlm'[i] = toLlm[i]
      /\ \A i \in DOMAIN toLlm' : i \in DOMAIN toLlm \/ (i = Len(toLlm) + 1 /\ toLlm'[i].id = sent + 1)
      /\ DOMAIN toLlm = 1..Len(toLlm) /\ Len(toLlm) \in Nat
  BY <1>1, <1>3, Appended DEF TypeOK
<1>5. \A i \in DOMAIN toLlm' : lastWord < toLlm'[i].id /\ toLlm'[i].id <= sent + 1
  BY <1>4, LinkTypes DEF Ordered
<1>6. \A i, j \in DOMAIN toLlm' : i < j => toLlm'[i].id < toLlm'[j].id
  <2> SUFFICES ASSUME NEW i \in DOMAIN toLlm', NEW j \in DOMAIN toLlm', i < j
               PROVE  toLlm'[i].id < toLlm'[j].id
    OBVIOUS
  <2>1. i \in DOMAIN toLlm
    BY <1>4
  <2>2. CASE j \in DOMAIN toLlm
    BY <1>4, <2>1, <2>2 DEF Ordered
  <2>3. CASE toLlm'[j].id = sent + 1
    BY <1>4, <2>1, <2>3, LinkTypes DEF Ordered
  <2> QED
    BY <1>4, <2>2, <2>3
<1>7. \A i \in DOMAIN commands : IsWord(commands[i]) =>
        commands[i].id <= sent + 1 /\ \A k \in DOMAIN toLlm' : commands[i].id < toLlm'[k].id
  BY <1>4, LinkTypes DEF Ordered
<1> QED
  BY <1>2, <1>5, <1>6, <1>7, LinkTypes DEF Ordered, IsWord

\* A word goes out when it is read, after those read before it.
LEMMA OrderedRead == ASSUME TypeOK, Ordered, LlmOnAdminText PROVE Ordered'
<1> DEFINE text == Head(toLlm)
<1>1. /\ toLlm # <<>> /\ toLlm' = Tail(toLlm) /\ UNCHANGED <<sent, lastWord>>
      /\ text \in Text /\ text = toLlm[1] /\ 1 \in DOMAIN toLlm
      /\ \A i \in DOMAIN toLlm' :
           i \in Nat \ {0} /\ i + 1 \in DOMAIN toLlm /\ toLlm'[i] = toLlm[i + 1]
  BY Behind DEF LlmOnAdminText, TypeOK
<1>2. \A i, j \in DOMAIN toLlm' : i < j => toLlm'[i].id < toLlm'[j].id
  <2>1. \A i, j \in DOMAIN toLlm' : i < j => i + 1 < j + 1
    BY <1>1
  <2> QED
    BY <1>1, <2>1 DEF Ordered
<1>3. \A i \in DOMAIN toLlm' :
        lastWord < toLlm'[i].id /\ toLlm'[i].id <= sent /\ text.id < toLlm'[i].id
  <2>1. \A i \in DOMAIN toLlm' : 1 < i + 1
    BY <1>1
  <2> QED
    BY <1>1, <2>1 DEF Ordered
<1>4. \A i \in DOMAIN commands : IsWord(commands[i]) =>
        commands[i].id < text.id /\ \A k \in DOMAIN toLlm' : commands[i].id < toLlm'[k].id
  BY <1>1 DEF Ordered
<1>5. CASE UNCHANGED <<commands, threads>>
  BY <1>1, <1>2, <1>3, <1>4, <1>5 DEF Ordered, IsWord
<1>6. CASE PublishCommand(text, text.kind) /\ IsDirectRobotCommand(text.kind) /\ UNCHANGED threads
  <2> DEFINE command == [id |-> text.id, type |-> text.kind, raw |-> text.kind]
  <2>1. command \in Command /\ command.id = text.id
    BY <1>1, <1>6 DEF Text, Command, IsDirectRobotCommand, Types
  <2>2. commands' = Append(commands, command)
    BY <1>6 DEF PublishCommand
  <2> HIDE DEF command
  <2>3. /\ \A i \in DOMAIN commands : commands'[i] = commands[i]
        /\ \A i \in DOMAIN commands' :
             i \in DOMAIN commands \/ (i = Len(commands) + 1 /\ commands'[i] = command)
        /\ DOMAIN commands = 1..Len(commands) /\ Len(commands) \in Nat
    BY <2>1, <2>2, Appended DEF TypeOK
  <2>4. \A i \in DOMAIN commands' : IsWord(commands'[i]) =>
          /\ lastWord < commands'[i].id /\ commands'[i].id <= sent
          /\ \A k \in DOMAIN toLlm' : commands'[i].id < toLlm'[k].id
    BY <1>1, <1>3, <1>4, <2>1, <2>3 DEF Ordered
  <2>5. \A i, j \in DOMAIN commands' :
          i < j /\ IsWord(commands'[i]) /\ IsWord(commands'[j]) => commands'[i].id < commands'[j].id
    <3> SUFFICES ASSUME NEW i \in DOMAIN commands', NEW j \in DOMAIN commands', i < j,
                        IsWord(commands'[i]), IsWord(commands'[j])
                 PROVE  commands'[i].id < commands'[j].id
      OBVIOUS
    <3>1. i \in DOMAIN commands
      BY <2>3
    <3>2. CASE j \in DOMAIN commands
      BY <2>3, <3>1, <3>2 DEF Ordered
    <3>3. CASE commands'[j] = command
      BY <1>4, <2>1, <2>3, <3>1, <3>3
    <3> QED
      BY <2>3, <3>2, <3>3
  <2> QED
    BY <1>1, <1>2, <1>3, <1>6, <2>4, <2>5 DEF Ordered, IsWord
<1>7. CASE threads' = threads \cup {text} /\ ~IsDirectRobotCommand(text.kind) /\ UNCHANGED commands
  BY <1>1, <1>2, <1>3, <1>4, <1>7 DEF Ordered, IsDirectRobotCommand, IsWord
<1> QED
  BY <1>5, <1>6, <1>7 DEF LlmOnAdminText

\* What the LLM made of a text is no command word.
LEMMA OrderedResolve == ASSUME TypeOK, Ordered, ResolveWithLlm PROVE Ordered'
<1>1. PICK text \in threads : /\ threads' = threads \ {text}
                              /\ \/ \E type \in Types : PublishCommand(text, type)
                                 \/ UNCHANGED commands
                              /\ UNCHANGED <<explorer, believed, texts, flags, ghost>>
  BY DEF ResolveWithLlm
<1>2. UNCHANGED <<toLlm, sent, lastWord>> /\ text \in Text /\ text.kind \notin DirectTypes
  BY <1>1 DEF texts, ghost, TypeOK, Ordered
<1>3. CASE UNCHANGED commands
  BY <1>1, <1>2, <1>3 DEF Ordered, IsWord
<1>4. ASSUME NEW type \in Types, PublishCommand(text, type) PROVE Ordered'
  <2> DEFINE command == [id |-> text.id, type |-> type, raw |-> text.kind]
  <2>1. command \in Command /\ ~IsWord(command) /\ commands' = Append(commands, command)
    BY <1>2, <1>4 DEF PublishCommand, Text, Command, IsWord
  <2> QED
    BY <1>1, <1>2, <2>1, OrderedOther
<1> QED
  BY <1>1, <1>3, <1>4

LEMMA OrderedOperate == ASSUME TypeOK, Ordered, Operate PROVE Ordered'
<1>1. PICK type \in DirectTypes \cap Kinds :
        commands' = Append(commands, [id |-> sent + 1, type |-> type, raw |-> Typed])
  BY DEF Operate
<1> DEFINE command == [id |-> sent + 1, type |-> type, raw |-> Typed]
<1>2. command \in Command
  BY Identifiers DEF Operate, TypeOK, Command, Types
<1>3. ~IsWord(command)
  BY DEF IsWord, Typed, DirectTypes
<1>4. UNCHANGED <<toLlm, lastWord, threads>> /\ sent' = sent + 1
  BY DEF Operate, llm, ghost
<1> QED
  BY <1>1, <1>2, <1>3, <1>4, OrderedOther

\* The word that is obeyed is the oldest one.
LEMMA OrderedObey == ASSUME TypeOK, Ordered, OnMissionCommand PROVE Ordered'
<1>1. /\ commands # <<>> /\ commands' = Tail(commands) /\ UNCHANGED <<toLlm, sent, threads>>
      /\ lastWord' = IF IsWord(commands[1]) THEN commands[1].id ELSE lastWord
      /\ 1 \in DOMAIN commands
      /\ \A i \in DOMAIN commands' :
           i \in Nat \ {0} /\ i + 1 \in DOMAIN commands /\ commands'[i] = commands[i + 1]
  BY Behind DEF OnMissionCommand, TypeOK, llm, texts
<1>2. \A i, j \in DOMAIN commands' : (i < j => i + 1 < j + 1) /\ 1 < i + 1
  BY <1>1
<1>3. \A i, j \in DOMAIN commands' :
        i < j /\ IsWord(commands'[i]) /\ IsWord(commands'[j]) => commands'[i].id < commands'[j].id
  BY <1>1, <1>2 DEF Ordered
<1>4. \A i \in DOMAIN commands' : IsWord(commands'[i]) =>
        /\ lastWord' < commands'[i].id /\ commands'[i].id <= sent
        /\ \A k \in DOMAIN toLlm : commands'[i].id < toLlm[k].id
  BY <1>1, <1>2 DEF Ordered
<1>5. lastWord' <= sent /\ \A i \in DOMAIN toLlm : lastWord' < toLlm[i].id
  BY <1>1 DEF Ordered
<1> QED
  BY <1>1, <1>3, <1>4, <1>5 DEF Ordered, IsWord

LEMMA OrderedStep == ASSUME TypeOK, Ordered, [Next]_vars PROVE Ordered'
<1>1. CASE UNCHANGED <<toLlm, sent, lastWord, threads, commands>>
  BY <1>1 DEF Ordered, IsWord
<1>2. CASE OnAwaitingLabel \/ PatrolOnAdminText \/ ExplorerStep \/ UNCHANGED vars
  BY <1>1, <1>2
     DEF OnAwaitingLabel, PatrolOnAdminText, ExplorerStep, vars, llm, texts, ghost
<1> QED
  BY <1>2, OrderedWrite, OrderedOperate, OrderedRead, OrderedResolve, OrderedObey DEF Next

\* Commands the parser knows by itself are obeyed in the order the admin wrote them, whatever
\* the LLM makes of the texts between them and whenever (on_admin_text, resolve_with_llm).
THEOREM WordsInOrder == Spec => CommandWordsInOrder
<1>1. Init => Ordered
  <2>1. DOMAIN <<>> = {} /\ 0 <= 0
    OBVIOUS
  <2> QED
    BY <2>1 DEF Init, Ordered
<1>2. TypeOK /\ Ordered => (OnMissionCommand /\ IsWord(Head(commands)) => Head(commands).id > lastWord)
  <2> SUFFICES ASSUME TypeOK, Ordered, OnMissionCommand, IsWord(Head(commands))
               PROVE  Head(commands).id > lastWord
    OBVIOUS
  <2>1. Head(commands) = commands[1] /\ 1 \in DOMAIN commands
    BY Behind DEF OnMissionCommand, TypeOK
  <2> QED
    BY <2>1, LinkTypes DEF Ordered
<1> QED
  BY <1>1, <1>2, OrderedStep, TypeCorrect, PTL DEF Spec, CommandWordsInOrder


(***************************************************************************)
(* Texts while the nodes agree.  As long as a text is settled, all that is *)
(* on the flag's topic is the flag: what the LLM node drops, the patrol    *)
(* node still has to read, and to take it ends the agreement.              *)
(***************************************************************************)
Waits(id, queue) == \E i \in DOMAIN queue : queue[i].id = id

Agreed ==
    settled # {} => /\ believed = label /\ (label => exploring)
                    /\ \A i \in DOMAIN flags : flags[i] = label

Kept ==
    \A id \in settled :
      IF label THEN Waits(id, toPatrol) ELSE Waits(id, toLlm) \/ acted[id] # {}

LEMMA WaitsAppended ==
    ASSUME NEW queue \in Seq(Text), NEW text \in Text
    PROVE  /\ \A id : Waits(id, queue) => Waits(id, Append(queue, text))
           /\ Waits(text.id, Append(queue, text))
<1>1. Len(queue) + 1 \in DOMAIN Append(queue, text) /\ DOMAIN queue \subseteq DOMAIN Append(queue, text)
  BY Appended
<1> QED
  BY <1>1, Appended DEF Waits

\* Only the text that is read stops waiting.
LEMMA WaitsBehind ==
    ASSUME NEW queue \in Seq(Text), queue # <<>>, NEW id, Waits(id, queue)
    PROVE  Waits(id, Tail(queue)) \/ id = Head(queue).id
  BY Behind DEF Waits

LEMMA AgreedWrite == ASSUME TypeOK, Agreed, Kept, Write PROVE Agreed' /\ Kept'
<1>1. PICK kind \in Kinds : /\ toPatrol' = Append(toPatrol, [id |-> sent + 1, kind |-> kind])
                            /\ toLlm' = Append(toLlm, [id |-> sent + 1, kind |-> kind])
  BY DEF Write
<1> DEFINE text == [id |-> sent + 1, kind |-> kind]
<1>2. text \in Text /\ text.id = sent + 1
  BY Identifiers DEF Write, TypeOK, Text
<1>3. /\ settled' \subseteq settled \cup {sent + 1} /\ UNCHANGED <<label, exploring, believed, flags, acted>>
      /\ settled' # {} => settled # {} \/ Quiet
  BY DEF Write, explorer, llm
<1>4. Quiet => Agreed'
  BY <1>3 DEF Quiet, Agreed
<1>5. Agreed'
  BY <1>3, <1>4 DEF Agreed
<1>6. \A id : /\ Waits(id, toPatrol) => Waits(id, toPatrol')
              /\ Waits(id, toLlm) => Waits(id, toLlm')
  BY <1>1, <1>2, WaitsAppended DEF TypeOK
<1>7. Waits(sent + 1, toPatrol') /\ Waits(sent + 1, toLlm')
  BY <1>1, <1>2, WaitsAppended DEF TypeOK
<1>8. \A id \in settled' :
        IF label THEN Waits(id, toPatrol') ELSE Waits(id, toLlm') \/ acted[id] # {}
  BY <1>3, <1>6, <1>7 DEF Kept
<1> QED
  BY <1>3, <1>5, <1>8 DEF Kept, Waits

\* The LLM node drops what it reads exactly while a label is awaited.
LEMMA AgreedRead == ASSUME TypeOK, Agreed, Kept, LlmOnAdminText PROVE Agreed' /\ Kept'
<1>1. /\ toLlm # <<>> /\ toLlm' = Tail(toLlm)
      /\ UNCHANGED <<label, exploring, believed, flags, settled, toPatrol>>
  BY DEF LlmOnAdminText, explorer
<1>2. Agreed'
  BY <1>1 DEF Agreed
<1>3. acted' = acted \/ Act(Head(toLlm).id, "command")
  BY DEF LlmOnAdminText
<1>4. \A id \in 1..MaxTexts : acted[id] # {} => acted'[id] # {}
  BY <1>3 DEF Act, TypeOK
<1>5. Head(toLlm).id \in 1..MaxTexts
  <2>1. Head(toLlm) \in Text
    BY <1>1, Behind DEF TypeOK
  <2> QED
    BY <2>1 DEF Text
<1>6. ~believed => acted'[Head(toLlm).id] # {}
  BY <1>5 DEF LlmOnAdminText, Act, TypeOK
<1>7. \A id : Waits(id, toLlm) => Waits(id, toLlm') \/ id = Head(toLlm).id
  BY <1>1, WaitsBehind DEF TypeOK
<1>8. \A id \in settled :
        IF label THEN Waits(id, toPatrol) ELSE Waits(id, toLlm') \/ acted'[id] # {}
  BY <1>4, <1>6, <1>7 DEF Agreed, Kept, TypeOK
<1> QED
  BY <1>1, <1>2, <1>8 DEF Kept, Waits

\* A change of the question or the mission ends what was agreed.
LEMMA Unsettled ==
    ASSUME Watch, ~(label' = label /\ exploring' = exploring)
    PROVE  Agreed' /\ Kept'
<1>1. settled' = {}
  BY DEF Watch
<1> QED
  BY <1>1 DEF Agreed, Kept

LEMMA AllTheSame ==
    ASSUME NEW v
    PROVE  /\ \A i \in DOMAIN <<v>> : <<v>>[i] = v
           /\ \A i \in DOMAIN <<v, v>> : <<v, v>>[i] = v
  OBVIOUS

\* A step that watches and adds only the flag itself to its topic.
LEMMA AgreedWatch ==
    ASSUME TypeOK, Agreed, Kept, Watch, UNCHANGED <<believed, toPatrol, toLlm, acted>>,
           NEW values \in Seq(BOOLEAN), flags' = flags \o values,
           label' = label => \A i \in DOMAIN values : values[i] = label
    PROVE  Agreed' /\ Kept'
<1>1. CASE label' = label /\ exploring' = exploring
  <2>1. settled' = settled
    BY <1>1 DEF Watch
  <2>2. /\ flags \in Seq(BOOLEAN) /\ flags' \in Seq(BOOLEAN) /\ Len(flags') = Len(flags) + Len(values)
        /\ \A i \in 1..(Len(flags) + Len(values)) :
             flags'[i] = IF i <= Len(flags) THEN flags[i] ELSE values[i - Len(flags)]
    BY ConcatProperties DEF TypeOK
  <2>3. /\ DOMAIN flags = 1..Len(flags) /\ DOMAIN values = 1..Len(values)
        /\ DOMAIN flags' = 1..(Len(flags) + Len(values))
        /\ Len(flags) \in Nat /\ Len(values) \in Nat
    BY <2>2, LenProperties
  <2>4. \A i \in DOMAIN flags' : (i \in DOMAIN flags /\ flags'[i] = flags[i])
                                  \/ (i - Len(flags) \in DOMAIN values /\ flags'[i] = values[i - Len(flags)])
    BY <2>2, <2>3
  <2>5. Agreed'
    BY <1>1, <2>1, <2>4 DEF Agreed
  <2> QED
    BY <1>1, <2>1, <2>5 DEF Kept, Waits
<1>2. CASE ~(label' = label /\ exploring' = exploring)
  BY <1>2, Unsettled
<1> QED
  BY <1>1, <1>2

LEMMA AgreedFlag == ASSUME TypeOK, Agreed, Kept, OnAwaitingLabel PROVE Agreed' /\ Kept'
<1>1. /\ flags # <<>> /\ flags' = Tail(flags) /\ believed' = Head(flags)
      /\ UNCHANGED <<label, exploring, toPatrol, toLlm, acted, settled>>
  BY DEF OnAwaitingLabel, explorer, texts, ghost
<1>2. /\ 1 \in DOMAIN flags /\ believed' = flags[1]
      /\ \A i \in DOMAIN flags' : i + 1 \in DOMAIN flags /\ flags'[i] = flags[i + 1]
  BY <1>1, Behind DEF TypeOK
<1> QED
  BY <1>1, <1>2 DEF Agreed, Kept, Waits

\* Where the patrol node takes no text, there is no agreement, or no label is awaited.
LEMMA AgreedTaken == ASSUME TypeOK, Agreed, Kept, PatrolOnAdminText PROVE Agreed' /\ Kept'
<1>1. Watch /\ UNCHANGED <<believed, toLlm>>
  BY DEF PatrolOnAdminText, llm
<1>2. CASE Prompt!LabelGiven
  <2>1. label' # label
    BY <1>2 DEF Prompt!LabelGiven
  <2> QED
    BY <1>1, <2>1, Unsettled
<1>3. CASE ~(exploring /\ label) /\ UNCHANGED <<explorer, flags, acted>>
  <2>1. settled' = settled /\ UNCHANGED <<exploring, label, flags, acted>>
    BY <1>1, <1>3 DEF Watch, explorer
  <2>2. settled # {} => ~label
    BY <1>3 DEF Agreed
  <2> QED
    BY <1>1, <2>1, <2>2 DEF Agreed, Kept, Waits
<1> QED
  BY <1>2, <1>3 DEF PatrolOnAdminText

\* What a command publishes is the flag it leaves, and the one it found if it is the same.
LEMMA AgreedObey == ASSUME TypeOK, Agreed, Kept, OnMissionCommand PROVE Agreed' /\ Kept'
<1>1. Watch /\ UNCHANGED <<believed, toPatrol, toLlm, acted>>
  BY DEF OnMissionCommand, llm, texts
<1>2. /\ <<label, FALSE>> \in Seq(BOOLEAN) /\ <<FALSE>> \in Seq(BOOLEAN) /\ <<>> \in Seq(BOOLEAN)
      /\ flags = flags \o <<>>
  BY Values, EmptySeq, ConcatEmptySeq DEF TypeOK
<1>3. CASE StartExplore
  <2>1. label' = FALSE /\ flags' = flags \o <<label, FALSE>>
    BY <1>3 DEF StartExplore, Prompt!Start, Publish
  <2>2. label' = label => \A i \in DOMAIN <<label, FALSE>> : <<label, FALSE>>[i] = label
    BY <2>1, AllTheSame, Zenon
  <2> QED
    BY <1>1, <1>2, <2>1, <2>2, AgreedWatch
<1>4. CASE StopExploring
  <2>1. label' = FALSE /\ flags' = flags \o <<FALSE>>
    BY <1>4 DEF StopExploring, Prompt!End, Publish
  <2>2. label' = label => \A i \in DOMAIN <<FALSE>> : <<FALSE>>[i] = label
    BY <2>1, AllTheSame, Zenon
  <2> QED
    BY <1>1, <1>2, <2>1, <2>2, AgreedWatch
<1>5. CASE UNCHANGED flags
  <2>1. flags' = flags \o <<>> /\ \A i \in DOMAIN <<>> : <<>>[i] = label
    BY <1>2, <1>5
  <2> QED
    BY <1>1, <1>2, <2>1, AgreedWatch
<1> QED
  BY <1>3, <1>4, <1>5 DEF OnMissionCommand, Obey

LEMMA AgreedExplorer == ASSUME TypeOK, Agreed, Kept, ExplorerStep PROVE Agreed' /\ Kept'
<1>1. Watch /\ UNCHANGED <<believed, toPatrol, toLlm, acted>>
  BY DEF ExplorerStep, llm, texts
<1>2. /\ <<TRUE>> \in Seq(BOOLEAN) /\ <<>> \in Seq(BOOLEAN) /\ flags = flags \o <<>>
  BY Values, EmptySeq, ConcatEmptySeq DEF TypeOK
<1>3. CASE Prompt!AskCeiling /\ UNCHANGED flags
  <2>1. flags' = flags \o <<>> /\ \A i \in DOMAIN <<>> : <<>>[i] = label
    BY <1>2, <1>3
  <2> QED
    BY <1>1, <1>2, <2>1, AgreedWatch
<1>4. CASE Prompt!CeilingAnswered /\ Publish(<<TRUE>>)
  <2>1. label' = TRUE /\ flags' = flags \o <<TRUE>>
    BY <1>4 DEF Prompt!CeilingAnswered, Publish
  <2>2. label' = label => \A i \in DOMAIN <<TRUE>> : <<TRUE>>[i] = label
    BY <2>1, AllTheSame, Zenon
  <2> QED
    BY <1>1, <1>2, <2>1, <2>2, AgreedWatch
<1> QED
  BY <1>3, <1>4 DEF ExplorerStep

LEMMA AgreedStep == ASSUME TypeOK, Agreed, Kept, [Next]_vars PROVE Agreed' /\ Kept'
<1>1. CASE UNCHANGED <<label, exploring, believed, flags, toPatrol, toLlm, acted, settled>>
  BY <1>1 DEF Agreed, Kept, Waits
<1>2. CASE Operate \/ ResolveWithLlm \/ UNCHANGED vars
  BY <1>1, <1>2 DEF Operate, ResolveWithLlm, vars, explorer, llm, texts, ghost
<1> QED
  BY <1>2, AgreedWrite, AgreedFlag, AgreedRead, AgreedTaken, AgreedObey, AgreedExplorer DEF Next

\* No text falls between the two nodes: while they agree and neither the question nor the
\* mission changes, one of them acts on whatever both have read (on_admin_text of both).
THEOREM NoTextLost == Spec => []NoTextLostWhenSettled
<1>1. Init => Agreed /\ Kept
  BY DEF Init, Agreed, Kept
<1>2. Kept => NoTextLostWhenSettled
  BY DEF Kept, Waits, NoTextLostWhenSettled
<1> QED
  BY <1>1, <1>2, AgreedStep, TypeCorrect, PTL DEF Spec
=============================================================================
