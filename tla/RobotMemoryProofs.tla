-------------------------- MODULE RobotMemoryProofs --------------------------
(***************************************************************************)
(* Types of the robot's memory, and that a restart at rest loses nothing,  *)
(* for any number of places and rooms.                                     *)
(***************************************************************************)
EXTENDS RobotMemory, TLAPS

\* Every file but the one being written says what the node remembers; a node that is not up
\* is writing none.
InStep ==
    /\ node = "up" => \A f \in Files : f # writing => Loaded(f) = memory[f]
    /\ node # "up" => writing = NoFile

Inductive == TypeOK /\ InStep

LEMMA Numbers ==
    /\ Farthest \in Nat /\ MaxRooms \in Nat /\ MaxLost \in Nat /\ NoPose \in Int
    /\ NoFile \notin Files /\ NoFrame \notin Places
BY PlacesAssumption, BoundsAssumption DEF NoPose, NoFile, Files, NoFrame, Places

\* The variables of the odometry, as TypeOK has them.
OdometryTypeOK ==
    /\ {at, seenAt} \subseteq Places /\ previous \in Places \cup {NoFrame}
    /\ {pose, known, lost} \subseteq Int /\ recent \in BOOLEAN

\* A change keeps the invariant: the file it empties is the one being written.
LEMMA ChangeStep ==
    ASSUME Inductive, NEW f \in Files, NEW content, Change(f, content),
           f = "rooms" => content \in Seq(1..MaxRooms),
           f = "locations" => content \in Seq(Spots),
           UNCHANGED <<odometry, lost>>
    PROVE  Inductive'
<1>1. /\ node = "up" /\ writing = NoFile /\ memory' = [memory EXCEPT ![f] = content]
      /\ damage' = [damage EXCEPT ![f] = "cut"] /\ writing' = f /\ UNCHANGED <<node, file>>
  BY DEF Change, AtRest
<1>2. DOMAIN memory = Files /\ DOMAIN file = Files /\ damage \in [Files -> {"none", "cut", "mangled"}]
  BY DEF Inductive, TypeOK
<1>3. InStep'
  <2>1. ASSUME NEW g \in Files, g # f PROVE Loaded(g)' = memory'[g]
    BY <1>1, <1>2, <2>1, Numbers DEF Inductive, InStep, Loaded
  <2> QED
    BY <1>1, <2>1 DEF InStep
<1>4. TypeOK'
  <2>1. DOMAIN memory' = Files /\ memory'["rooms"] \in Seq(1..MaxRooms) /\ memory'["locations"] \in Seq(Spots)
    BY <1>1, <1>2 DEF Inductive, TypeOK, Files
  <2>2. damage' \in [Files -> {"none", "cut", "mangled"}]
    BY <1>1, <1>2
  <2>3. OdometryTypeOK'
    BY DEF Inductive, TypeOK, OdometryTypeOK, odometry
  <2> QED
    BY <1>1, <2>1, <2>2, <2>3 DEF Inductive, TypeOK, OdometryTypeOK
<1> QED
  BY <1>3, <1>4 DEF Inductive

LEMMA SaveStep ==
    ASSUME Inductive, Save, UNCHANGED <<odometry, lost>>
    PROVE  Inductive'
<1>1. /\ node = "up" /\ writing \in Files /\ file' = [file EXCEPT ![writing] = memory[writing]]
      /\ damage' = [damage EXCEPT ![writing] = "none"] /\ writing' = NoFile /\ UNCHANGED <<node, memory>>
  BY DEF Save, Inductive, TypeOK
<1>2. DOMAIN memory = Files /\ DOMAIN file = Files /\ damage \in [Files -> {"none", "cut", "mangled"}]
  BY DEF Inductive, TypeOK
<1>3. InStep'
  <2>1. ASSUME NEW g \in Files PROVE Loaded(g)' = memory'[g]
    <3>1. CASE g = writing
      BY <1>1, <1>2, <3>1 DEF Loaded
    <3>2. CASE g # writing
      BY <1>1, <1>2, <3>2 DEF Inductive, InStep, Loaded
    <3> QED
      BY <3>1, <3>2
  <2> QED
    BY <1>1, <2>1 DEF InStep
<1>4. TypeOK'
  <2>1. DOMAIN file' = Files /\ file'["rooms"] \in Seq(1..MaxRooms) /\ file'["locations"] \in Seq(Spots)
    BY <1>1, <1>2 DEF Inductive, TypeOK, Files
  <2>2. damage' \in [Files -> {"none", "cut", "mangled"}]
    BY <1>1, <1>2
  <2>3. OdometryTypeOK'
    BY DEF Inductive, TypeOK, OdometryTypeOK, odometry
  <2> QED
    BY <1>1, <2>1, <2>2, <2>3 DEF Inductive, TypeOK, OdometryTypeOK
<1> QED
  BY <1>3, <1>4 DEF Inductive

LEMMA PatrolStep ==
    ASSUME Inductive, Patrol
    PROVE  Inductive'
<1>1. memory["rooms"] \in Seq(1..MaxRooms) /\ memory["locations"] \in Seq(Spots)
  BY DEF Inductive, TypeOK
<1>2. "rooms" \in Files /\ "locations" \in Files /\ "rooms" # "locations" /\ UNCHANGED <<odometry, lost>>
  BY DEF Files, Patrol
<1>3. CASE StartRoom
  <2>1. Append(memory["rooms"], Rooms + 1) \in Seq(1..MaxRooms)
    BY <1>1, <1>3, Numbers DEF StartRoom, Rooms
  <2> QED
    BY <1>2, <1>3, <2>1, ChangeStep DEF StartRoom
<1>4. CASE ResetMap
  <2>1. Nothing \in Seq(1..MaxRooms)
    BY DEF Nothing
  <2> QED
    BY <1>2, <1>4, <2>1, ChangeStep DEF ResetMap
<1>5. CASE NameSpot
  <2>1. Spot(known) \in Spots /\ Spot(NoPose) \in Spots
    BY Numbers DEF Inductive, TypeOK, Spot, Spots
  <2>2. \E content \in Seq(Spots) : Change("locations", content)
    <3>1. <<Spot(known)>> \in Seq(Spots) /\ <<Spot(NoPose)>> \in Seq(Spots)
      BY <2>1
    <3>2. CASE recent
      BY <1>5, <3>1, <3>2 DEF NameSpot
    <3>3. CASE ~recent /\ memory["locations"] # Nothing
      BY <1>1, <1>5, <3>3 DEF NameSpot
    <3>4. CASE ~recent /\ memory["locations"] = Nothing
      BY <1>5, <3>1, <3>4 DEF NameSpot
    <3> QED
      BY <3>2, <3>3, <3>4
  <2> QED
    BY <1>2, <2>2, ChangeStep
<1>6. CASE DeleteSpot
  <2>1. Nothing \in Seq(Spots)
    BY DEF Nothing
  <2> QED
    BY <1>2, <1>6, <2>1, ChangeStep DEF DeleteSpot
<1> QED
  BY <1>2, <1>3, <1>4, <1>5, <1>6, SaveStep DEF Patrol

LEMMA SeeStep ==
    ASSUME Inductive, See
    PROVE  Inductive'
<1>1. UNCHANGED <<node, memory, file, damage, writing>>
  BY DEF See, kept
<1>2. OdometryTypeOK
  BY DEF Inductive, TypeOK, OdometryTypeOK
<1>3. OdometryTypeOK'
  <2>1. at \in Int /\ (previous # NoFrame => previous \in Int) /\ Places \subseteq Int
    BY <1>2, Numbers DEF OdometryTypeOK, Places
  <2>2. CASE (Moves \/ FirstFrame \/ GoesStale) /\ UNCHANGED lost
    BY <1>2, <2>2 DEF OdometryTypeOK, Moves, FirstFrame, GoesStale
  <2>3. CASE MatchedFrame /\ UNCHANGED lost
    BY <1>2, <2>1, <2>3 DEF OdometryTypeOK, MatchedFrame
  <2>4. CASE UnmatchedFrame /\ lost' = lost + at - previous
    BY <1>2, <2>1, <2>4 DEF OdometryTypeOK, UnmatchedFrame
  <2> QED
    BY <2>2, <2>3, <2>4 DEF See
<1>4. TypeOK'
  BY <1>1, <1>3 DEF Inductive, TypeOK, OdometryTypeOK
<1>5. InStep'
  BY <1>1 DEF Inductive, InStep, Loaded
<1> QED
  BY <1>4, <1>5 DEF Inductive

LEMMA StopStep ==
    ASSUME Inductive, Stop
    PROVE  Inductive'
<1>1. /\ node' = "down" /\ writing' = NoFile /\ UNCHANGED <<memory, file, odometry, lost>>
      /\ damage' \in [Files -> {"none", "cut", "mangled"}]
  BY DEF Stop, Ends, Inductive, TypeOK
<1>2. OdometryTypeOK'
  BY <1>1 DEF Inductive, TypeOK, OdometryTypeOK, odometry
<1>3. TypeOK'
  BY <1>1, <1>2 DEF Inductive, TypeOK, OdometryTypeOK
<1>4. InStep'
  BY <1>1 DEF InStep
<1> QED
  BY <1>3, <1>4 DEF Inductive

LEMMA RestartStep ==
    ASSUME Inductive, Restart
    PROVE  Inductive'
<1>1. /\ node # "up" /\ UNCHANGED <<file, damage, writing, at, seenAt>>
      /\ previous' = NoFrame /\ pose' = 0 /\ known' = 0 /\ recent' = FALSE /\ lost' = 0
      /\ node' = IF Readable THEN "up" ELSE "stuck"
      /\ memory' = IF Readable THEN [f \in Files |-> Loaded(f)] ELSE memory
  BY DEF Restart, Starts, OdometryRestarts
<1>2. writing = NoFile
  BY <1>1 DEF Inductive, InStep
<1>3. OdometryTypeOK'
  <2>1. {pose', known', lost'} \subseteq Int
    BY <1>1
  <2>2. {at, seenAt} \subseteq Places
    BY DEF Inductive, TypeOK
  <2> QED
    BY <1>1, <2>1, <2>2 DEF OdometryTypeOK
<1>4. DOMAIN memory' = Files /\ memory'["rooms"] \in Seq(1..MaxRooms) /\ memory'["locations"] \in Seq(Spots)
  <2>1. CASE Readable
    <3>1. memory' = [f \in Files |-> Loaded(f)]
      BY <1>1, <2>1
    <3>2. \A f \in Files : Loaded(f) \in {file[f], <<>>}
      BY DEF Loaded, Nothing
    <3>3. file["rooms"] \in Seq(1..MaxRooms) /\ file["locations"] \in Seq(Spots)
      BY DEF Inductive, TypeOK
    <3>4. <<>> \in Seq(1..MaxRooms) /\ <<>> \in Seq(Spots)
      OBVIOUS
    <3>5. memory'["rooms"] \in {file["rooms"], <<>>} /\ memory'["locations"] \in {file["locations"], <<>>}
      BY <3>1, <3>2 DEF Files
    <3> QED
      BY <3>1, <3>3, <3>4, <3>5
  <2>2. CASE ~Readable
    BY <1>1, <2>2 DEF Inductive, TypeOK
  <2> QED
    BY <2>1, <2>2
<1>5. TypeOK'
  BY <1>1, <1>3, <1>4 DEF Inductive, TypeOK, OdometryTypeOK
<1>6. InStep'
  <2>1. ASSUME Readable, NEW f \in Files PROVE Loaded(f)' = memory'[f]
    BY <1>1, <2>1 DEF Loaded
  <2>2. CASE Readable
    BY <1>1, <2>1, <2>2 DEF InStep
  <2>3. CASE ~Readable
    BY <1>1, <1>2, <2>3 DEF InStep
  <2> QED
    BY <2>2, <2>3
<1> QED
  BY <1>5, <1>6 DEF Inductive

LEMMA Invariance == Spec => []Inductive
<1>1. ASSUME Init PROVE Inductive
  <2>1. /\ node = "up" /\ writing = NoFile /\ memory = [f \in Files |-> Nothing] /\ file = memory
        /\ damage = [f \in Files |-> "none"]
    BY <1>1 DEF Init, KeptInit
  <2>2. Nothing \in Seq(1..MaxRooms) /\ Nothing \in Seq(Spots)
    BY DEF Nothing
  <2>3. OdometryTypeOK
    <3>1. /\ at \in Places /\ seenAt = at /\ previous = NoFrame /\ pose = 0 /\ known = 0 /\ lost = 0
          /\ recent = FALSE
      BY <1>1 DEF Init, OdometryInit
    <3>2. {pose, known, lost} \subseteq Int
      BY <3>1
    <3> QED
      BY <3>1, <3>2 DEF OdometryTypeOK
  <2>4. TypeOK
    BY <2>1, <2>2, <2>3 DEF TypeOK, OdometryTypeOK, Files
  <2>5. InStep
    BY <2>1 DEF InStep, Loaded
  <2> QED
    BY <2>4, <2>5 DEF Inductive
<1>2. ASSUME Inductive, [Next]_vars PROVE Inductive'
  <2>1. CASE UNCHANGED vars
    BY <1>2, <2>1 DEF vars, kept, odometry, Inductive, TypeOK, InStep, Loaded
  <2> QED
    BY <1>2, <2>1, PatrolStep, SeeStep, StopStep, RestartStep DEF Next
<1> QED
  BY <1>1, <1>2, PTL DEF Spec

\* Memory, files and odometry keep their types, whatever is killed when.
THEOREM TypeCorrect == Spec => []TypeOK
<1>1. Inductive => TypeOK
  BY DEF Inductive
<1> QED
  BY <1>1, Invariance, PTL

\* save() and load() of both stores: between two saves a restart would load just what the node
\* remembers.
THEOREM NothingLostAtRest == Spec => []RestartLosesNothing
<1>1. Inductive => RestartLosesNothing
  BY Numbers DEF Inductive, InStep, RestartLosesNothing, AtRest
<1> QED
  BY <1>1, Invariance, PTL
=============================================================================
