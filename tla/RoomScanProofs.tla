-------------------------- MODULE RoomScanProofs --------------------------
(***************************************************************************)
(* For every number of headings, every limit and every set of commands:    *)
(* `Inductive` is an invariant of RoomScan, and with it the type, the tree *)
(* of rooms, the retry limits, the agreement of flags and phases, and that *)
(* the robot goes back only from a room it has nothing left to try in.  On *)
(* top of it `Oriented` is an invariant, and with it the aim at a doorway, *)
(* the complete sweeps and the dead reckoning.                             *)
(*                                                                         *)
(* First what the helpers do to angles and to the map, then what the two   *)
(* operators that choose where to go next establish, then one lemma per    *)
(* action.                                                                 *)
(***************************************************************************)
EXTENDS RoomScan, TLAPS

----------------------------------------------------------------------------
(* Angles.                                                                 *)

\* A remainder is in range, for negative angles too.
LEMMA ModRange ==
    ASSUME NEW a \in Int, NEW n \in Nat \ {0}
    PROVE  a % n \in 0..(n - 1)
  BY SMT

\* A circle has at least four heading steps of at least four units.
LEMMA TotalFacts ==
    Total \in Nat \ {0} /\ Total >= 16 /\ StepUnits < Total /\ StepUnits >= 4
  BY SMT, HeadingsAssumption, UnitsAssumption DEF Total

\* Every turn the code makes by a fixed amount is a bearing.
LEMMA FixedTurns ==
    /\ 0 \in Bearing /\ Half \in Bearing /\ StepUnits \in Bearing
    /\ Nudge \in Bearing /\ Total \div 2 \in Bearing
  BY SMT, TotalFacts, HeadingsAssumption, UnitsAssumption, NudgeAssumption
     DEF Total, Half, Bearing

\* The shifts of the retry sweeps are bearings, and there are three of them.
LEMMA OffsetFacts ==
    Len(Offsets) = 3 /\ \A i \in 1..3 : Offsets[i] \in Bearing
  BY SMT, TotalFacts, UnitsAssumption DEF Offsets, Bearing

\* A turn between two bearings is a bearing.
LEMMA TurnRange ==
    ASSUME NEW from \in Bearing, NEW to \in Bearing
    PROVE  Turn(from, to) \in Bearing
<1>1. to - from \in Int
  BY TotalFacts DEF Bearing
<1> QED
  BY <1>1, ModRange, TotalFacts DEF Turn, Bearing

\* The correction after a backtrack is a bearing.
LEMMA CorrectionRange ==
    ASSUME NEW via \in Bearing \cup {NoStep}
    PROVE  ParentCorrection(via) \in Bearing
<1>1. -(via + Half) \in Int
  BY TotalFacts, FixedTurns DEF Bearing, NoStep
<1> QED
  BY <1>1, ModRange, TotalFacts DEF ParentCorrection, Bearing

\* Adding two bearings modulo the circle gives a bearing.
LEMMA SumRange ==
    ASSUME NEW a \in Bearing, NEW b \in Bearing
    PROVE  (a + b) % Total \in Bearing
<1>1. a + b \in Int
  BY TotalFacts DEF Bearing
<1> QED
  BY <1>1, ModRange, TotalFacts DEF Bearing

----------------------------------------------------------------------------
(* The map.                                                                *)

\* n has the rooms of m, with the same parents and doorways.
SameTree(m, n) ==
    /\ DOMAIN n = DOMAIN m
    /\ \A r \in DOMAIN m : n[r].parent = m[r].parent /\ n[r].via = m[r].via

\* A room read back is a room, whether it is there or not.
LEMMA RoomAtType ==
    ASSUME NEW m \in RoomMaps, NEW r \in Nat
    PROVE  RoomAt(m, r) \in Room
<1>1. BlankRoom(NoRoom, NoStep) \in Room
  BY DEF BlankRoom, Room, NoRoom, Category, Openings
<1>2. r \in DOMAIN m => m[r] \in Room
  BY DEF RoomMaps
<1> QED
  BY <1>1, <1>2 DEF RoomAt

\* start_room appends a blank room and touches no other.
LEMMA StartRoomFacts ==
    ASSUME NEW m \in RoomMaps, NEW p \in Nat, NEW via \in Bearing \cup {NoStep}
    PROVE  /\ StartRoom(m, p, via) \in RoomMaps
           /\ Len(StartRoom(m, p, via)) = Len(m) + 1
           /\ \A r \in DOMAIN m : StartRoom(m, p, via)[r] = m[r]
           /\ StartRoom(m, p, via)[Len(m) + 1].parent = p
           /\ StartRoom(m, p, via)[Len(m) + 1].via = via
<1>1. BlankRoom(p, via) \in Room
  BY DEF BlankRoom, Room, Category, Openings
<1> QED
  BY <1>1 DEF StartRoom, RoomMaps, BlankRoom

\* What add_observation and mark_observation_tried do to a room keeps its place in the tree.
LEMMA RoomUpdates ==
    ASSUME NEW rm \in Room, NEW b \in Bearing, NEW c \in Category
    PROVE  /\ Observed(rm, b, c) \in Room /\ Tried(rm, b) \in Room
           /\ Observed(rm, b, c).parent = rm.parent /\ Observed(rm, b, c).via = rm.via
           /\ Tried(rm, b).parent = rm.parent /\ Tried(rm, b).via = rm.via
<1>1. rm.first \in [Bearing -> Category \cup {"unseen"}] /\ rm.open \in [Bearing -> SUBSET Openings]
  BY DEF Room
<1>2. [rm.first EXCEPT ![b] = c] \in [Bearing -> Category \cup {"unseen"}]
  BY <1>1
<1>3. \A x \in SUBSET Openings : [rm.open EXCEPT ![b] = x] \in [Bearing -> SUBSET Openings]
  BY <1>1
<1>4. rm.open[b] \cup ({c} \cap Openings) \in SUBSET Openings /\ {} \in SUBSET Openings
  BY <1>1
<1>5. [rm.open EXCEPT ![b] = @ \cup ({c} \cap Openings)] \in [Bearing -> SUBSET Openings]
  BY <1>3, <1>4
<1> QED
  BY <1>1, <1>2, <1>3, <1>4, <1>5 DEF Observed, Tried, Room

\* Replacing a room by one with the same parent and doorway keeps the tree.
LEMMA ReplaceFacts ==
    ASSUME NEW m \in RoomMaps, NEW r \in DOMAIN m, NEW rm \in Room,
           rm.parent = m[r].parent, rm.via = m[r].via
    PROVE  [m EXCEPT ![r] = rm] \in RoomMaps /\ SameTree(m, [m EXCEPT ![r] = rm])
<1>1. [m EXCEPT ![r] = rm] \in RoomMaps
  BY DEF RoomMaps
<1>2. SameTree(m, [m EXCEPT ![r] = rm])
  BY DEF RoomMaps, SameTree
<1> QED
  BY <1>1, <1>2

\* add_observation keeps the tree.
LEMMA AddObservationFacts ==
    ASSUME NEW m \in RoomMaps, NEW r \in DOMAIN m, NEW b \in Bearing, NEW c \in Category
    PROVE  AddObservation(m, r, b, c) \in RoomMaps /\ SameTree(m, AddObservation(m, r, b, c))
<1>1. m[r] \in Room
  BY DEF RoomMaps
<1> QED
  BY <1>1, RoomUpdates, ReplaceFacts DEF AddObservation

\* mark_observation_tried keeps the tree.
LEMMA MarkTriedFacts ==
    ASSUME NEW m \in RoomMaps, NEW r \in Nat, NEW b \in Bearing
    PROVE  MarkTried(m, r, b) \in RoomMaps /\ SameTree(m, MarkTried(m, r, b))
<1>1. CASE r \in DOMAIN m
  <2>1. m[r] \in Room /\ "none" \in Category
    BY <1>1 DEF RoomMaps, Category
  <2> QED
    BY <1>1, <2>1, RoomUpdates, ReplaceFacts DEF MarkTried
<1>2. CASE r \notin DOMAIN m
  BY <1>2 DEF MarkTried, SameTree
<1> QED
  BY <1>1, <1>2

\* The doorways of a room are bearings; when none is left nothing movable is.
LEMMA DoorwayFacts ==
    ASSUME NEW m, NEW r
    PROVE  /\ Doorways(m, r) \subseteq Bearing
           /\ Doorways(m, r) = {} => UntriedMovable(m, r) = {}
  BY DEF Doorways, UntriedDoors, UntriedMovable

\* SameTree composes, and carries the shape of the tree along.
LEMMA SameTreeFacts ==
    ASSUME NEW m \in RoomMaps, NEW n \in RoomMaps, SameTree(m, n)
    PROVE  /\ Len(n) = Len(m)
           /\ \A r : InMission(n, r) <=> InMission(m, r)
           /\ WellParented(m) => WellParented(n)
<1>1. Len(n) = Len(m)
  BY DEF SameTree, RoomMaps
<1>2. \A r : InMission(n, r) <=> InMission(m, r)
  BY DEF SameTree, InMission
<1>3. ASSUME WellParented(m)
      PROVE  WellParented(n)
  <2>1. SUFFICES ASSUME NEW r \in DOMAIN n, InMission(n, r), n[r].via # NoStep
                 PROVE  n[r].parent \in 1..(r - 1) /\ InMission(n, n[r].parent)
    BY DEF WellParented
  <2>2. r \in DOMAIN m /\ m[r].via # NoStep /\ n[r].parent = m[r].parent
    BY <2>1 DEF SameTree
  <2> QED
    BY <1>2, <1>3, <2>1, <2>2 DEF WellParented
<1> QED
  BY <1>1, <1>2, <1>3

\* start_room after a room of the mission, or as the root of a new one, keeps the shape.
LEMMA StartRoomKeepsTree ==
    ASSUME NEW m \in RoomMaps, NEW p \in Nat, NEW via \in Bearing \cup {NoStep},
           \/ via = NoStep
           \/ p \in DOMAIN m /\ InMission(m, p) /\ WellParented(m)
    PROVE  LET n == StartRoom(m, p, via) IN
           /\ Len(m) + 1 \in DOMAIN n
           /\ InMission(n, Len(m) + 1)
           /\ WellParented(n)
<1> DEFINE n == StartRoom(m, p, via)
           new == Len(m) + 1
<1>1. /\ n \in RoomMaps /\ Len(n) = new
      /\ \A r \in DOMAIN m : n[r] = m[r]
      /\ n[new].parent = p /\ n[new].via = via
  BY StartRoomFacts
<1>2. DOMAIN n = 1..new /\ DOMAIN m = 1..Len(m) /\ Len(m) \in Nat
  BY <1>1 DEF RoomMaps
<1> HIDE DEF n
<1>3. InMission(n, new)
  BY <1>2 DEF InMission
<1>4. CASE via = NoStep
  <2>1. \A r \in DOMAIN n : InMission(n, r) => r = new
    BY <1>1, <1>2, <1>4 DEF InMission
  <2> QED
    BY <1>1, <1>2, <1>3, <1>4, <2>1 DEF WellParented, n
<1>5. CASE via # NoStep
  <2>1. p \in 1..Len(m) /\ InMission(m, p) /\ WellParented(m)
    BY <1>2, <1>5
  <2>2. \A r \in Nat : InMission(n, r) <=> InMission(m, r)
    BY <1>1, <1>2, <1>5 DEF InMission
  <2>3. ASSUME NEW r \in DOMAIN n, InMission(n, r), n[r].via # NoStep
        PROVE  n[r].parent \in 1..(r - 1) /\ InMission(n, n[r].parent)
    <3>1. CASE r = new
      BY <1>1, <1>2, <2>1, <2>2, <3>1
    <3>2. CASE r # new
      <4>1. r \in DOMAIN m /\ n[r] = m[r] /\ InMission(m, r)
        BY <1>1, <1>2, <2>2, <2>3, <3>2
      <4>2. m[r].parent \in 1..(r - 1) /\ InMission(m, m[r].parent)
        BY <2>1, <2>3, <4>1 DEF WellParented
      <4> QED
        BY <1>2, <2>2, <4>1, <4>2
    <3> QED
      BY <3>1, <3>2
  <2> QED
    BY <1>2, <1>3, <2>3 DEF WellParented, n
<1> QED
  BY <1>4, <1>5

----------------------------------------------------------------------------
(* Choosing where to go next.                                              *)

BudgetOK(b) ==
    b \in Budgets /\ b.override <= MaxOverrides /\ b.chase <= MaxChase /\ b.nudge <= MaxNudges

SweepOK(s) == s \in Sweeps /\ s.done <= Headings

\* Whatever comes next from room r of map m: a doorway, a retry sweep, a reposition or the
\* way back; the last only when r has a parent and nothing is left to try in it.
HeadsOff(m, r) ==
    /\ phase' \in {"rotating", "blind_reposition_drive"}
    /\ next' \in {"await_vlm_step", "advance_doorway", "backtrack_advance", "none"}
    /\ delta' \in Bearing
    /\ SweepOK(sweep')
    /\ InSweep' => sweep'.done < Headings
    /\ Returning' => RoomAt(m, r).via # NoStep /\ UntriedMovable(m, r) = {}

\* room_scan_begin_backtrack_or_finish heads off.
LEMMA BacktrackOrFinishHeadsOff ==
    ASSUME NEW m \in RoomMaps, NEW r \in Nat, NEW h \in Bearing, NEW s, SweepOK(s),
           Doorways(m, r) = {}, BeginBacktrackOrFinish(m, r, h, s)
    PROVE  HeadsOff(m, r)
<1>1. UntriedMovable(m, r) = {}
  BY DoorwayFacts
<1>2. s \in Sweeps /\ s.done <= Headings /\ Headings \in Nat /\ Headings >= 4
  BY HeadingsAssumption DEF SweepOK
<1>3. CASE /\ RoomAt(m, r).via = NoStep
           /\ s.round = Len(Offsets)
           /\ sweep' = [s EXCEPT !.round = 0]
           /\ Enter("blind_reposition_drive")
  BY <1>2, <1>3, FixedTurns DEF HeadsOff, Enter, SweepOK, Sweeps, InSweep, Returning
<1>4. CASE /\ RoomAt(m, r).via = NoStep
           /\ s.round < Len(Offsets)
           /\ sweep' = NextRound(s)
           /\ BeginRotate(Offsets[s.round + 1], "await_vlm_step")
  <2>1. s.round + 1 \in 1..3
    BY <1>2, <1>4, OffsetFacts DEF Sweeps
  <2> QED
    BY <1>2, <1>4, <2>1, OffsetFacts
       DEF HeadsOff, BeginRotate, NextRound, SweepOK, Sweeps, InSweep, Returning
<1>5. CASE /\ RoomAt(m, r).via # NoStep
           /\ sweep' = s
           /\ BeginRotate(Turn(h, WayBack), "backtrack_advance")
  <2>1. Turn(h, WayBack) \in Bearing
    BY TurnRange, FixedTurns DEF WayBack
  <2> QED
    BY <1>1, <1>5, <2>1 DEF HeadsOff, BeginRotate, InSweep, Returning
<1> QED
  BY <1>3, <1>4, <1>5 DEF BeginBacktrackOrFinish

\* room_scan_advance_after_label heads off and only marks a doorway in the map.
LEMMA AdvanceHeadsOff ==
    ASSUME NEW m \in RoomMaps, NEW r \in Nat, NEW h \in Bearing, NEW s, SweepOK(s),
           NEW b, BudgetOK(b), target \in Bearing, AdvanceAfterLabel(m, r, h, s, b)
    PROVE  /\ rooms' \in RoomMaps /\ SameTree(m, rooms')
           /\ target' \in Bearing /\ BudgetOK(budget')
           /\ HeadsOff(rooms', r)
<1>1. ASSUME NEW door \in Doorways(m, r),
             rooms' = MarkTried(m, r, door), target' = door,
             budget' = [b EXCEPT !.override = 0, !.chase = 0, !.nudge = 0],
             sweep' = s, BeginRotate(Turn(h, door), "advance_doorway")
      PROVE  /\ rooms' \in RoomMaps /\ SameTree(m, rooms')
             /\ target' \in Bearing /\ BudgetOK(budget')
             /\ HeadsOff(rooms', r)
  <2>1. door \in Bearing
    BY DoorwayFacts
  <2>2. BudgetOK(budget')
    <3>1. b \in Budgets
      BY DEF BudgetOK
    <3>2. budget' = [override |-> 0, chase |-> 0, nudge |-> 0, nudging |-> b.nudging]
      BY <1>1, <3>1 DEF Budgets
    <3> QED
      BY <3>1, <3>2, LimitsAssumption DEF BudgetOK, Budgets
  <2>3. Turn(h, door) \in Bearing
    BY <2>1, TurnRange
  <2>4. HeadsOff(rooms', r)
    BY <1>1, <2>3 DEF HeadsOff, BeginRotate, InSweep, Returning
  <2> QED
    BY <1>1, <2>1, <2>2, <2>4, MarkTriedFacts
<1>2. CASE /\ Doorways(m, r) = {}
           /\ rooms' = m
           /\ budget' = b
           /\ UNCHANGED target
           /\ BeginBacktrackOrFinish(m, r, h, s)
  BY <1>2, BacktrackOrFinishHeadsOff DEF SameTree
<1> QED
  BY <1>1, <1>2 DEF AdvanceAfterLabel

\* room_scan_after_backtrack_correct does the same, from heading 0.
LEMMA CorrectHeadsOff ==
    ASSUME NEW r \in Nat, rooms \in RoomMaps, SweepOK(sweep), BudgetOK(budget),
           target \in Bearing, AfterBacktrackCorrect(r)
    PROVE  /\ rooms' \in RoomMaps /\ SameTree(rooms, rooms')
           /\ target' \in Bearing /\ BudgetOK(budget') /\ heading' \in Bearing
           /\ HeadsOff(rooms', r)
<1>0. heading' \in Bearing
  BY FixedTurns DEF AfterBacktrackCorrect
<1>1. ASSUME NEW door \in Doorways(rooms, r),
             rooms' = MarkTried(rooms, r, door), target' = door,
             budget' = [budget EXCEPT !.override = 0],
             sweep' = sweep, BeginRotate(door, "advance_doorway")
      PROVE  /\ rooms' \in RoomMaps /\ SameTree(rooms, rooms')
             /\ target' \in Bearing /\ BudgetOK(budget')
             /\ HeadsOff(rooms', r)
  <2>1. door \in Bearing
    BY DoorwayFacts
  <2>2. BudgetOK(budget')
    BY <1>1, LimitsAssumption DEF BudgetOK, Budgets
  <2>3. HeadsOff(rooms', r)
    BY <1>1, <2>1 DEF HeadsOff, BeginRotate, InSweep, Returning
  <2> QED
    BY <1>1, <2>1, <2>2, <2>3, MarkTriedFacts
<1>2. CASE /\ Doorways(rooms, r) = {}
           /\ UNCHANGED <<rooms, budget, target>>
           /\ BeginBacktrackOrFinish(rooms, r, 0, sweep)
  BY <1>0, <1>2, BacktrackOrFinishHeadsOff, FixedTurns DEF SameTree
<1> QED
  BY <1>0, <1>1, <1>2 DEF AfterBacktrackCorrect

----------------------------------------------------------------------------
(* Every action keeps the inductive invariant.                             *)

\* What the steps that go on from the current room have in common.
LEMMA GoOnFromRoom ==
    ASSUME Inductive, NEW m \in RoomMaps, SameTree(rooms, m), rooms' = m, room' = room,
           state' = state
    PROVE  /\ MissionTree' /\ Len(rooms') <= MaxRooms
           /\ state = "exploring" => room \in DOMAIN m /\ RoomAt(m, room) = m[room]
<1>1. rooms \in RoomMaps
  BY DEF Inductive, TypeOK
<1>2. /\ Len(m) = Len(rooms)
      /\ InMission(rooms, room) => InMission(m, room)
      /\ WellParented(rooms) => WellParented(m)
  BY <1>1, SameTreeFacts
<1>3. DOMAIN m = DOMAIN rooms
  BY DEF SameTree
<1> QED
  BY <1>2, <1>3 DEF Inductive, MissionTree, RoomAt

\* SameTree composes.
LEMMA SameTreeTransitive ==
    ASSUME NEW m, NEW n, NEW o, SameTree(m, n), SameTree(n, o)
    PROVE  SameTree(m, o)
  BY DEF SameTree

\* Heading off to the next place, by whatever step, keeps everything but the flags, which the
\* step itself accounts for.
LEMMA HeadingOff ==
    ASSUME Inductive, state' = state, alive' = alive, room' = room,
           rooms' \in RoomMaps, SameTree(rooms, rooms'), HeadsOff(rooms', room),
           target' \in Bearing, BudgetOK(budget'), heading' \in Bearing,
           awaiting' \in Flags, answer' \in Texts \cup {"pending"}, motion' \in Motions,
           facing' \in Bearing, entry' = entry,
           ~awaiting'.label, ~awaiting'.ceiling, ~awaiting'.check
    PROVE  Inductive'
<1>1. /\ MissionTree' /\ Len(rooms') <= MaxRooms
      /\ state = "exploring" => RoomAt(rooms', room) = rooms'[room]
  BY GoOnFromRoom
<1>2. TypeOK'
  BY DEF Inductive, TypeOK, HeadsOff, BudgetOK, SweepOK, Phases, AfterRotation, AfterSettling,
         Bearing, RoomMaps, Room
<1>3. WithinBudgets' /\ (InSweep => sweep.done < Headings)'
  BY DEF HeadsOff, BudgetOK, SweepOK, WithinBudgets
<1>4. FlagsFollowPhase' /\ (Overriding => budget.override < MaxOverrides)'
  BY DEF HeadsOff, FlagsFollowPhase, Overriding
<1>5. (state = "exploring" /\ Returning =>
         rooms[room].via # NoStep /\ UntriedMovable(rooms, room) = {})'
  BY <1>1 DEF HeadsOff
<1>6. (state = "exploring" => alive)'
  BY DEF Inductive
<1> QED
  BY <1>1, <1>2, <1>3, <1>4, <1>5, <1>6 DEF Inductive

\* Steps that leave the map, the room and the mission alone.
LEMMA SamePlace ==
    ASSUME Inductive, rooms' = rooms, room' = room, state' = state \/ state' # "exploring"
    PROVE  MissionTree' /\ Len(rooms') <= MaxRooms
  BY DEF Inductive, MissionTree

\* TickContinue publishes a velocity.
LEMMA TickContinueKeeps == ASSUME Inductive, alive, TickContinue PROVE Inductive'
<1>1. motion' \in Motions
  BY DEF TickContinue, Motions
<1> QED
  BY <1>1, SamePlace
     DEF TickContinue, Inductive, TypeOK, WithinBudgets, FlagsFollowPhase, MissionTree, InSweep,
         Overriding, Returning, UntriedMovable, mission, walk, map, ghost

\* RotationDone updates the heading, then settles, drives or chooses where to go.
LEMMA RotationDoneKeeps == ASSUME Inductive, alive, RotationDone PROVE Inductive'
<1> DEFINE turned == (heading + delta) % Total
<1>1. /\ turned \in Bearing /\ facing' \in Bearing /\ 0 \in Bearing
      /\ motion' = "stop" /\ state = "exploring" /\ phase = "rotating"
      /\ UNCHANGED <<state, alive, awaiting, answer, room, entry>>
  BY SumRange, FixedTurns DEF Inductive, TypeOK, RotationDone, Exploring, mission
<1>2. /\ ~awaiting.label /\ ~awaiting.ceiling /\ ~awaiting.check
      /\ SweepOK(sweep) /\ BudgetOK(budget)
      /\ rooms \in RoomMaps /\ room \in Nat /\ target \in Bearing
  BY <1>1 DEF Inductive, TypeOK, WithinBudgets, FlagsFollowPhase, SweepOK, BudgetOK
<1>3. CASE /\ next \in {"await_vlm_step", "await_ceiling"}
           /\ BeginSettle(IF next = "await_vlm_step" THEN "vlm_step" ELSE "ceiling")
           /\ heading' = turned
           /\ UNCHANGED <<rooms, budget, target, sweep>>
  BY <1>1, <1>2, <1>3, SamePlace
     DEF BeginSettle, Inductive, TypeOK, WithinBudgets, FlagsFollowPhase, InSweep, Overriding,
         Returning, Phases, AfterSettling, Motions
<1>4. CASE /\ next \in {"advance_doorway", "backtrack_advance"}
           /\ Enter(next)
           /\ heading' = turned
           /\ UNCHANGED <<rooms, budget, target, sweep>>
  BY <1>1, <1>2, <1>4, SamePlace
     DEF Enter, Inductive, TypeOK, WithinBudgets, FlagsFollowPhase, InSweep, Overriding,
         Returning, Phases, Motions, UntriedMovable
<1>5. CASE /\ next = "after_escape_turn_around"
           /\ heading' = turned
           /\ AdvanceAfterLabel(rooms, room, turned, sweep, budget)
  <2>1. /\ rooms' \in RoomMaps /\ SameTree(rooms, rooms')
        /\ target' \in Bearing /\ BudgetOK(budget')
        /\ HeadsOff(rooms', room)
    BY <1>1, <1>2, <1>5, AdvanceHeadsOff
  <2> QED
    BY <1>1, <1>2, <1>5, <2>1, HeadingOff DEF Inductive, TypeOK, Motions
<1>6. CASE /\ next = "after_backtrack_correct"
           /\ AfterBacktrackCorrect(room)
  <2>1. /\ rooms' \in RoomMaps /\ SameTree(rooms, rooms')
        /\ target' \in Bearing /\ BudgetOK(budget') /\ heading' \in Bearing
        /\ HeadsOff(rooms', room)
    BY <1>2, <1>6, CorrectHeadsOff
  <2> QED
    BY <1>1, <1>2, <2>1, HeadingOff DEF Inductive, TypeOK, Motions
<1> QED
  BY <1>3, <1>4, <1>5, <1>6 DEF RotationDone

\* SettleDone asks the question the robot has settled for.
LEMMA SettleDoneKeeps == ASSUME Inductive, alive, SettleDone PROVE Inductive'
  BY SamePlace, FixedTurns
     DEF SettleDone, Exploring, RequestVlmStep, RequestObstacleCheck, Enter, Inductive, TypeOK,
         WithinBudgets, FlagsFollowPhase, InSweep, Overriding, Returning, Phases, Motions, Flags,
         mission, walk, map, ghost

\* VlmStepResult records the answer, then turns on or, the circle complete, moves on.
LEMMA VlmStepResultKeeps == ASSUME Inductive, alive, VlmStepResult PROVE Inductive'
<1>1. /\ state = "exploring" /\ phase = "await_vlm_step" /\ answer' = "pending"
      /\ UNCHANGED <<state, alive, heading, awaiting, room, motion, facing, entry>>
  BY DEF VlmStepResult, Exploring, mission, ghost
<1>2. /\ ~awaiting.label /\ ~awaiting.ceiling /\ ~awaiting.check
      /\ sweep \in Sweeps /\ sweep.done < Headings /\ BudgetOK(budget)
      /\ rooms \in RoomMaps /\ room \in DOMAIN rooms /\ room \in Nat /\ target \in Bearing
      /\ heading \in Bearing
  BY <1>1 DEF Inductive, TypeOK, WithinBudgets, FlagsFollowPhase, BudgetOK, InSweep, MissionTree
<1>3. PICK category \in StepCategory(ReadyText) :
        LET m == AddObservation(rooms, room, heading, category)
            s == [sweep EXCEPT !.done = @ + 1]
        IN \/ /\ ~SweepOver(s)
              /\ BeginRotate(StepUnits, "await_vlm_step")
              /\ rooms' = m /\ sweep' = s
              /\ UNCHANGED <<budget, target>>
           \/ /\ SweepOver(s) /\ s.retry
              /\ AdvanceAfterLabel(m, room, heading, s, budget)
           \/ /\ SweepOver(s) /\ ~s.retry
              /\ BeginRotate(StepUnits, "await_ceiling")
              /\ rooms' = m /\ sweep' = s
              /\ UNCHANGED <<budget, target>>
  BY DEF VlmStepResult
<1> DEFINE m == AddObservation(rooms, room, heading, category)
           s == [sweep EXCEPT !.done = @ + 1]
<1>4. category \in Category
  BY DEF StepCategory, Category, Openings
<1>5. m \in RoomMaps /\ SameTree(rooms, m)
  BY <1>2, <1>4, AddObservationFacts
<1>6. s \in Sweeps /\ SweepOK(s) /\ (~SweepOver(s) => s.done < Headings)
  BY <1>2, HeadingsAssumption DEF Sweeps, SweepOK, SweepOver
<1> HIDE DEF m, s
<1>7. CASE /\ ~SweepOver(s)
           /\ BeginRotate(StepUnits, "await_vlm_step")
           /\ rooms' = m /\ sweep' = s
           /\ UNCHANGED <<budget, target>>
  <2>1. HeadsOff(rooms', room)
    BY <1>6, <1>7, FixedTurns DEF BeginRotate, HeadsOff, Returning
  <2> QED
    BY <1>1, <1>2, <1>5, <1>7, <2>1, HeadingOff DEF Inductive, TypeOK
<1>8. CASE /\ SweepOver(s) /\ s.retry
           /\ AdvanceAfterLabel(m, room, heading, s, budget)
  <2>1. /\ rooms' \in RoomMaps /\ SameTree(m, rooms')
        /\ target' \in Bearing /\ BudgetOK(budget')
        /\ HeadsOff(rooms', room)
    BY <1>2, <1>5, <1>6, <1>8, AdvanceHeadsOff
  <2>2. SameTree(rooms, rooms')
    BY <1>5, <2>1, SameTreeTransitive
  <2> QED
    BY <1>1, <1>2, <2>1, <2>2, HeadingOff DEF Inductive, TypeOK
<1>9. CASE /\ SweepOver(s) /\ ~s.retry
           /\ BeginRotate(StepUnits, "await_ceiling")
           /\ rooms' = m /\ sweep' = s
           /\ UNCHANGED <<budget, target>>
  BY <1>1, <1>2, <1>5, <1>6, <1>9, GoOnFromRoom, FixedTurns
     DEF BeginRotate, Inductive, TypeOK, WithinBudgets, FlagsFollowPhase, InSweep, Overriding,
         Returning, Phases, AfterRotation, SweepOK
<1> QED
  BY <1>3, <1>7, <1>8, <1>9 DEF m, s

\* Giving a doorway up, or nudging towards it, stays within the limits.
LEMMA AbortFacts ==
    ASSUME BudgetOK(budget), target \in Bearing, heading \in Bearing, AbortAdvance
    PROVE  /\ BudgetOK(budget') /\ heading' \in Bearing
           /\ phase' = "escape_backup" /\ next' = "none" /\ delta' = 0
<1>1. budget \in Budgets /\ budget.override <= MaxOverrides /\ budget.chase <= MaxChase
  BY DEF BudgetOK
<1>2. ASSUME budget.nudge < MaxNudges,
             budget' = [budget EXCEPT !.nudge = @ + 1, !.override = 0, !.nudging = TRUE]
      PROVE  BudgetOK(budget')
  <2>1. budget' = [override |-> 0, chase |-> budget.chase, nudge |-> budget.nudge + 1,
                   nudging |-> TRUE]
    BY <1>1, <1>2 DEF Budgets
  <2>2. budget.nudge + 1 \in Nat /\ budget.nudge + 1 <= MaxNudges /\ budget.chase \in Nat
    BY <1>1, <1>2, LimitsAssumption DEF Budgets
  <2>3. budget' \in Budgets
    BY <2>1, <2>2 DEF Budgets
  <2>4. budget'.override = 0 /\ budget'.chase = budget.chase /\ budget'.nudge = budget.nudge + 1
    BY <2>1
  <2> QED
    BY <1>1, <2>2, <2>3, <2>4, LimitsAssumption DEF BudgetOK
<1>3. ASSUME budget' = [budget EXCEPT !.nudge = 0]
      PROVE  BudgetOK(budget')
  BY <1>1, <1>3, LimitsAssumption DEF BudgetOK, Budgets
<1> QED
  BY <1>2, <1>3 DEF AbortAdvance, Enter

\* Steps of the pursuit of a doorway: no map, no flag and no sweep changes.
LEMMA PursuitStep ==
    ASSUME Inductive, state = "exploring", phase \notin {"await_label", "await_ceiling", "await_room_check"},
           UNCHANGED <<state, alive, sweep, target, awaiting, room, rooms, facing, entry>>,
           BudgetOK(budget'), heading' \in Bearing, delta' \in Bearing,
           answer' \in Texts \cup {"pending"}, motion' \in Motions,
           \/ phase' \in {"escape_backup", "advance_doorway"} /\ next' = "none"
           \/ phase' = "settling" /\ next' = "room_check"
           \/ /\ phase' = "settling" /\ next' = "obstacle_check"
              /\ budget'.override < MaxOverrides
           \/ phase' = "rotating" /\ next' \in {"advance_doorway", "after_escape_turn_around"}
    PROVE  Inductive'
<1>1. MissionTree' /\ Len(rooms') <= MaxRooms
  BY SamePlace
<1>2. TypeOK'
  BY DEF Inductive, TypeOK, Phases, AfterRotation, AfterSettling, BudgetOK
<1> QED
  BY <1>1, <1>2
     DEF Inductive, WithinBudgets, FlagsFollowPhase, InSweep, Overriding, Returning, BudgetOK

\* The verdict on an obstacle, the end of the backup, an obstacle and the end of an advance
\* are such steps.
LEMMA PursuitKeeps ==
    ASSUME Inductive, alive,
           ObstacleCheckResult \/ BackupDone \/ AdvanceBlocked \/ AdvanceDone
    PROVE  Inductive'
<1>1. /\ BudgetOK(budget) /\ budget \in Budgets /\ target \in Bearing /\ heading \in Bearing
      /\ answer \in Texts \cup {"pending"} /\ motion \in Motions /\ "stop" \in Motions
      /\ Overriding => budget.override < MaxOverrides
  BY DEF Inductive, TypeOK, WithinBudgets, BudgetOK, Motions
<1>2. CASE ObstacleCheckResult
  <2>1. CASE /\ budget' = [budget EXCEPT !.override = @ + 1]
             /\ Enter("advance_doorway")
             /\ UNCHANGED heading
    BY <1>1, <1>2, <2>1, PursuitStep, FixedTurns, LimitsAssumption
       DEF ObstacleCheckResult, Exploring, Enter, Overriding, BudgetOK, Budgets, mission, map, ghost
  <2>2. CASE AbortAdvance
    BY <1>1, <1>2, <2>2, AbortFacts, PursuitStep, FixedTurns
       DEF ObstacleCheckResult, Exploring, mission, map, ghost
  <2> QED
    BY <1>2, <2>1, <2>2 DEF ObstacleCheckResult
<1>3. CASE BackupDone
  BY <1>1, <1>3, PursuitStep, FixedTurns
     DEF BackupDone, Exploring, BeginRotate, BudgetOK, Budgets, mission, map, ghost
<1>4. CASE AdvanceBlocked
  <2>1. CASE AbortAdvance
    BY <1>1, <1>4, <2>1, AbortFacts, PursuitStep, FixedTurns
       DEF AdvanceBlocked, Exploring, mission, map, ghost
  <2>2. CASE /\ budget.override < MaxOverrides
             /\ BeginSettle("obstacle_check")
             /\ UNCHANGED <<budget, heading>>
    BY <1>1, <1>4, <2>2, PursuitStep, FixedTurns
       DEF AdvanceBlocked, Exploring, BeginSettle, mission, map, ghost
  <2> QED
    BY <1>4, <2>1, <2>2 DEF AdvanceBlocked, BeginObstacleCheck
<1>5. CASE AdvanceDone
  BY <1>1, <1>5, PursuitStep, FixedTurns
     DEF AdvanceDone, Exploring, BeginSettle, mission, map, ghost
<1> QED
  BY <1>2, <1>3, <1>4, <1>5

\* BlindDriveDone starts a fresh sweep where the robot now stands.
LEMMA BlindDriveDoneKeeps == ASSUME Inductive, alive, BlindDriveDone PROVE Inductive'
  BY SamePlace, FixedTurns, HeadingsAssumption
     DEF BlindDriveDone, Exploring, BeginSettle, Inductive, TypeOK, WithinBudgets,
         FlagsFollowPhase, InSweep, Overriding, Returning, Phases, AfterSettling, Motions, Sweeps,
         mission, map, ghost

\* BacktrackDone: the parent is there, an earlier room of the same mission.
LEMMA BacktrackDoneKeeps == ASSUME Inductive, alive, BacktrackDone PROVE Inductive'
<1> DEFINE parent == RoomAt(rooms, room).parent
           correction == ParentCorrection(RoomAt(rooms, room).via)
<1>1. /\ state = "exploring" /\ phase = "backtrack_advance"
      /\ UNCHANGED <<state, alive, awaiting, answer, entry>>
      /\ room' = parent /\ motion' = "stop" /\ facing' = (facing + entry[room]) % Total
  BY DEF BacktrackDone, Exploring, mission
<1>2. /\ ~awaiting.label /\ ~awaiting.ceiling /\ ~awaiting.check
      /\ SweepOK(sweep) /\ BudgetOK(budget)
      /\ rooms \in RoomMaps /\ room \in Nat /\ target \in Bearing /\ heading \in Bearing
  BY <1>1 DEF Inductive, TypeOK, WithinBudgets, FlagsFollowPhase, SweepOK, BudgetOK
<1>3. /\ room \in DOMAIN rooms /\ rooms[room].via # NoStep
      /\ InMission(rooms, room) /\ WellParented(rooms)
  BY <1>1 DEF Inductive, MissionTree, Returning
<1>4. RoomAt(rooms, room) = rooms[room] /\ rooms[room] \in Room
  BY <1>2, <1>3 DEF RoomAt, RoomMaps
<1>5. DOMAIN rooms = 1..Len(rooms) /\ Len(rooms) \in Nat /\ Len(rooms) <= MaxRooms
  BY <1>2 DEF RoomMaps, Inductive
<1>6. parent \in 1..(room - 1) /\ InMission(rooms, parent)
  BY <1>3, <1>4 DEF WellParented
<1>7. parent \in DOMAIN rooms /\ parent \in Nat
  BY <1>3, <1>5, <1>6
<1>8. facing' \in Bearing
  <2>1. room \in 1..MaxRooms
    BY <1>3, <1>5, BoundsAssumption
  <2>2. facing \in Bearing /\ entry[room] \in Bearing
    BY <2>1 DEF Inductive, TypeOK
  <2> QED
    BY <1>1, <2>2, SumRange
<1>9. correction \in Bearing
  BY <1>4, CorrectionRange DEF Room
<1> HIDE DEF parent, correction
<1>10. CASE AfterBacktrackCorrect(parent)
  <2>1. /\ rooms' \in RoomMaps /\ SameTree(rooms, rooms')
        /\ target' \in Bearing /\ BudgetOK(budget') /\ heading' \in Bearing
        /\ HeadsOff(rooms', parent)
    BY <1>2, <1>7, <1>10, CorrectHeadsOff
  <2>2. /\ Len(rooms') = Len(rooms) /\ InMission(rooms', parent) /\ WellParented(rooms')
        /\ parent \in DOMAIN rooms'
    BY <1>2, <1>3, <1>6, <1>7, <2>1, SameTreeFacts DEF SameTree
  <2>3. MissionTree' /\ Len(rooms') <= MaxRooms
    BY <1>1, <1>5, <2>2 DEF MissionTree
  <2>4. TypeOK'
    BY <1>1, <1>7, <1>8, <2>1
       DEF Inductive, TypeOK, HeadsOff, BudgetOK, SweepOK, Phases, AfterRotation, AfterSettling,
           Motions
  <2>5. (Returning => rooms[room].via # NoStep /\ UntriedMovable(rooms, room) = {})'
    BY <1>1, <2>1, <2>2 DEF HeadsOff, RoomAt
  <2> QED
    BY <1>1, <1>2, <2>1, <2>3, <2>4, <2>5
       DEF Inductive, WithinBudgets, FlagsFollowPhase, Overriding, HeadsOff, BudgetOK, SweepOK
<1>11. CASE /\ BeginRotate(correction, "after_backtrack_correct")
            /\ UNCHANGED <<heading, rooms, budget, target, sweep>>
  <2>1. MissionTree' /\ Len(rooms') <= MaxRooms
    BY <1>1, <1>3, <1>5, <1>6, <1>7, <1>11 DEF MissionTree
  <2> QED
    BY <1>1, <1>2, <1>7, <1>8, <1>9, <1>11, <2>1
       DEF BeginRotate, Inductive, TypeOK, WithinBudgets, FlagsFollowPhase, InSweep, Overriding,
           Returning, Phases, AfterRotation, Motions
<1> QED
  BY <1>10, <1>11 DEF BacktrackDone, parent, correction

\* A text of the explore VLM changes nothing else.
LEMMA ExploreObservationKeeps == ASSUME Inductive, alive, OnVlmExploreObservation PROVE Inductive'
  BY SamePlace
     DEF OnVlmExploreObservation, Inductive, TypeOK, WithinBudgets, FlagsFollowPhase, MissionTree,
         InSweep, Overriding, Returning, UntriedMovable, mission, walk, map, ghost

\* A label, or a skip, moves on from the room.
LEMMA OnAdminTextKeeps == ASSUME Inductive, alive, OnAdminText PROVE Inductive'
<1>1. /\ state = "exploring" /\ awaiting.label
      /\ awaiting' = [awaiting EXCEPT !.label = FALSE]
      /\ UNCHANGED <<state, alive, heading, answer, room, motion, facing, entry>>
  BY DEF OnAdminText, mission, ghost
<1>2. /\ awaiting \in Flags /\ SweepOK(sweep) /\ BudgetOK(budget)
      /\ rooms \in RoomMaps /\ room \in Nat /\ target \in Bearing /\ heading \in Bearing
      /\ phase = "await_label" /\ ~awaiting.ceiling /\ ~awaiting.check
  BY <1>1 DEF Inductive, TypeOK, WithinBudgets, FlagsFollowPhase, SweepOK, BudgetOK
<1>3. /\ rooms' \in RoomMaps /\ SameTree(rooms, rooms')
      /\ target' \in Bearing /\ BudgetOK(budget')
      /\ HeadsOff(rooms', room)
  BY <1>2, AdvanceHeadsOff DEF OnAdminText
<1>4. awaiting' \in Flags /\ ~awaiting'.label /\ ~awaiting'.ceiling /\ ~awaiting'.check
  BY <1>1, <1>2 DEF Flags
<1> QED
  BY <1>1, <1>2, <1>3, <1>4, HeadingOff DEF Inductive, TypeOK

\* The answer of the room check makes a new room, pushes on or moves on; also when the
\* exploration was left meanwhile, whatever became of the room.
LEMMA RoomCheckAnswerKeeps == ASSUME Inductive, alive, RoomCheckAnswer PROVE Inductive'
<1>1. /\ awaiting.check /\ awaiting' = [awaiting EXCEPT !.check = FALSE, !.analysis = FALSE]
      /\ UNCHANGED <<state, alive, answer, motion>>
  BY DEF RoomCheckAnswer, mission
<1>2. /\ awaiting \in Flags /\ SweepOK(sweep) /\ BudgetOK(budget) /\ budget \in Budgets
      /\ rooms \in RoomMaps /\ room \in Nat /\ target \in Bearing /\ heading \in Bearing
      /\ phase = "await_room_check" /\ ~awaiting.ceiling /\ ~awaiting.label
  BY <1>1 DEF Inductive, TypeOK, WithinBudgets, FlagsFollowPhase, SweepOK, BudgetOK
<1>3. awaiting' \in Flags /\ ~awaiting'.label /\ ~awaiting'.ceiling /\ ~awaiting'.check
  BY <1>1, <1>2 DEF Flags
<1>4. CASE EnterNewRoom /\ UNCHANGED target
  <2>1. /\ rooms' = StartRoom(rooms, room, target) /\ room' = Len(rooms) + 1
        /\ heading' = 0 /\ sweep' = NoRetry /\ facing' = 0
        /\ budget' = [budget EXCEPT !.chase = 0, !.nudge = 0]
        /\ phase' = "settling" /\ next' = "vlm_step" /\ delta' = 0
        /\ entry' = [entry EXCEPT ![Len(rooms) + 1] = facing]
        /\ Len(rooms) < MaxRooms
    BY <1>4 DEF EnterNewRoom, BeginSettle
  <2>2. Len(rooms) \in Nat
    BY <1>2 DEF RoomMaps
  <2>3. /\ rooms' \in RoomMaps /\ Len(rooms') = Len(rooms) + 1
    BY <1>2, <2>1, StartRoomFacts
  <2>4. MissionTree'
    <3>1. SUFFICES ASSUME state = "exploring"
                   PROVE  room' \in DOMAIN rooms' /\ InMission(rooms', room') /\ WellParented(rooms')
      BY <1>1 DEF MissionTree
    <3>2. room \in DOMAIN rooms /\ InMission(rooms, room) /\ WellParented(rooms)
      BY <3>1 DEF Inductive, MissionTree
    <3> QED
      BY <1>2, <2>1, <3>2, StartRoomKeepsTree
  <2>5. BudgetOK(budget')
    <3>1. budget' = [override |-> budget.override, chase |-> 0, nudge |-> 0,
                     nudging |-> budget.nudging]
      BY <1>2, <2>1 DEF Budgets
    <3> QED
      BY <1>2, <3>1, LimitsAssumption DEF BudgetOK, Budgets
  <2>6. SweepOK(sweep') /\ sweep'.done < Headings
    BY <2>1, HeadingsAssumption DEF SweepOK, Sweeps, NoRetry
  <2>7. entry' \in [1..MaxRooms -> Bearing]
    BY <2>1 DEF Inductive, TypeOK
  <2>8. TypeOK'
    BY <1>1, <1>2, <1>3, <1>4, <2>1, <2>2, <2>3, <2>5, <2>6, <2>7, FixedTurns
       DEF Inductive, TypeOK, BudgetOK, SweepOK, Phases, AfterSettling
  <2> QED
    BY <1>1, <1>3, <2>1, <2>2, <2>3, <2>4, <2>5, <2>6, <2>8, BoundsAssumption
       DEF Inductive, WithinBudgets, FlagsFollowPhase, BudgetOK, SweepOK, Overriding, Returning
<1>5. CASE SameRoomContinue /\ UNCHANGED <<room, heading, ghost>>
  <2>1. CASE /\ budget.chase < MaxChase
             /\ budget' = [budget EXCEPT !.chase = @ + 1]
             /\ Enter("advance_doorway")
             /\ UNCHANGED <<rooms, target, sweep>>
    <3>1. BudgetOK(budget')
      BY <1>2, <2>1, LimitsAssumption DEF BudgetOK, Budgets
    <3> QED
      BY <1>1, <1>2, <1>3, <1>5, <2>1, <3>1, SamePlace, FixedTurns
         DEF Enter, Inductive, TypeOK, WithinBudgets, FlagsFollowPhase, InSweep, Overriding,
             Returning, Phases, BudgetOK, ghost
  <2>2. CASE AdvanceAfterLabel(rooms, room, heading, sweep, [budget EXCEPT !.chase = 0])
    <3>1. BudgetOK([budget EXCEPT !.chase = 0])
      BY <1>2, LimitsAssumption DEF BudgetOK, Budgets
    <3>2. /\ rooms' \in RoomMaps /\ SameTree(rooms, rooms')
          /\ target' \in Bearing /\ BudgetOK(budget')
          /\ HeadsOff(rooms', room)
      BY <1>2, <2>2, <3>1, AdvanceHeadsOff
    <3> QED
      BY <1>1, <1>2, <1>3, <1>5, <3>2, HeadingOff DEF Inductive, TypeOK, ghost
  <2> QED
    BY <1>5, <2>1, <2>2 DEF SameRoomContinue
<1> QED
  BY <1>4, <1>5 DEF RoomCheckAnswer

\* The ceiling's answer asks for the label; for a room that is gone it ends the node, which
\* is then not exploring.
LEMMA CeilingAnswerKeeps ==
    ASSUME Inductive, alive, CeilingAnswer \/ CeilingAnswerForGoneRoom
    PROVE  Inductive'
<1>1. CASE CeilingAnswer
  BY <1>1, SamePlace, FixedTurns
     DEF CeilingAnswer, BeginAwaitLabel, Enter, Inductive, TypeOK, WithinBudgets,
         FlagsFollowPhase, InSweep, Overriding, Returning, Phases, Motions, Flags,
         mission, map, ghost
<1>2. CASE CeilingAnswerForGoneRoom
  <2>1. state # "exploring"
    BY <1>2 DEF CeilingAnswerForGoneRoom, Inductive, MissionTree
  <2> QED
    BY <1>2, <2>1, SamePlace
       DEF CeilingAnswerForGoneRoom, Inductive, TypeOK, WithinBudgets, FlagsFollowPhase, InSweep,
           Overriding, Flags, walk, map, ghost
<1> QED
  BY <1>1, <1>2

\* StartExplore makes a fresh root, which is the whole mission so far.
LEMMA StartExploreKeeps == ASSUME Inductive, alive, StartExplore PROVE Inductive'
<1>1. /\ state' = "exploring" /\ alive' = alive /\ Len(rooms) < MaxRooms
      /\ rooms' = StartRoom(rooms, NoRoom, NoStep) /\ room' = Len(rooms) + 1
      /\ heading' = 0 /\ sweep' = NoRetry
      /\ budget' = [budget EXCEPT !.chase = 0, !.nudge = 0, !.nudging = FALSE]
      /\ awaiting' = [awaiting EXCEPT !.label = FALSE, !.ceiling = FALSE, !.check = FALSE]
      /\ phase' = "await_vlm_step" /\ next' = "none" /\ delta' = 0 /\ answer' = "pending"
      /\ facing' = 0 /\ entry' = [r \in 1..MaxRooms |-> 0]
      /\ target' = target /\ motion' = motion
  BY DEF StartExplore, RequestVlmStep, Enter
<1>2. /\ rooms \in RoomMaps /\ NoRoom \in Nat /\ Len(rooms) \in Nat /\ budget \in Budgets
      /\ awaiting \in Flags /\ BudgetOK(budget)
  BY DEF Inductive, TypeOK, RoomMaps, NoRoom, WithinBudgets, BudgetOK
<1>3. /\ rooms' \in RoomMaps /\ Len(rooms') = Len(rooms) + 1
  BY <1>1, <1>2, StartRoomFacts
<1>4. MissionTree'
  BY <1>1, <1>2, StartRoomKeepsTree DEF MissionTree
<1>5. BudgetOK(budget')
  <2>1. budget' = [override |-> budget.override, chase |-> 0, nudge |-> 0, nudging |-> FALSE]
    BY <1>1, <1>2 DEF Budgets
  <2> QED
    BY <1>2, <2>1, LimitsAssumption DEF BudgetOK, Budgets
<1>6. SweepOK(sweep') /\ sweep'.done < Headings
  BY <1>1, HeadingsAssumption DEF SweepOK, Sweeps, NoRetry
<1>7. awaiting' \in Flags /\ ~awaiting'.label /\ ~awaiting'.ceiling /\ ~awaiting'.check
  <2>1. awaiting' = [label |-> FALSE, ceiling |-> FALSE, check |-> FALSE,
                     analysis |-> awaiting.analysis]
    BY <1>1, <1>2 DEF Flags
  <2> QED
    BY <1>2, <2>1 DEF Flags
<1>8. TypeOK'
  BY <1>1, <1>2, <1>3, <1>5, <1>6, <1>7, FixedTurns
     DEF Inductive, TypeOK, BudgetOK, SweepOK, States, Phases
<1> QED
  BY <1>1, <1>2, <1>3, <1>4, <1>5, <1>6, <1>7, <1>8, BoundsAssumption
     DEF Inductive, WithinBudgets, FlagsFollowPhase, BudgetOK, SweepOK, Overriding, Returning

\* Steps of other missions that leave the walk and its flags alone.
LEMMA WalkUntouched ==
    ASSUME Inductive,
           UNCHANGED <<alive, walk, heading, sweep, budget, target, answer, map, ghost>>,
           state' \in States, state' = state \/ state' # "exploring", motion' \in Motions,
           awaiting' \in Flags, awaiting'.label = awaiting.label,
           awaiting'.ceiling = awaiting.ceiling, awaiting'.check = awaiting.check
    PROVE  Inductive'
<1>1. MissionTree' /\ Len(rooms') <= MaxRooms
  BY SamePlace DEF map
<1>2. TypeOK' /\ WithinBudgets' /\ FlagsFollowPhase'
  BY DEF Inductive, TypeOK, WithinBudgets, FlagsFollowPhase, walk, map, ghost
<1> QED
  BY <1>1, <1>2 DEF Inductive, InSweep, Overriding, Returning, UntriedMovable, walk, map

\* The other commands and answers, and the other missions, leave the walk alone or, when they
\* end the exploration, clear its phase and flags together.
LEMMA OtherMissionKeeps ==
    ASSUME Inductive, alive,
           AnalysisAnswer \/ Stop \/ StartOtherMission \/ RequestAnalysis \/ OtherTick
    PROVE  Inductive'
<1>0. awaiting \in Flags /\ state \in States /\ motion \in Motions
  BY DEF Inductive, TypeOK
<1>1. CASE AnalysisAnswer
  <2>1. /\ state' \in States /\ (state' = state \/ state' # "exploring") /\ motion' \in Motions
    BY <1>0, <1>1 DEF AnalysisAnswer, States, Motions
  <2>2. /\ awaiting' \in Flags /\ awaiting'.label = awaiting.label
        /\ awaiting'.ceiling = awaiting.ceiling /\ awaiting'.check = awaiting.check
    BY <1>0, <1>1 DEF AnalysisAnswer, Flags
  <2> QED
    BY <1>1, <2>1, <2>2, WalkUntouched DEF AnalysisAnswer
<1>2. CASE Stop
  <2>1. CASE StopExploring
    BY <1>2, <2>1, SamePlace, FixedTurns
       DEF Stop, StopExploring, Enter, Inductive, TypeOK, WithinBudgets, FlagsFollowPhase, InSweep,
           Overriding, Returning, States, Phases, Motions, Flags, map, ghost
  <2>2. CASE StopPatrolling
    BY <1>0, <1>2, <2>2, WalkUntouched DEF Stop, StopPatrolling, States, Motions
  <2> QED
    BY <1>2, <2>1, <2>2 DEF Stop
<1>3. CASE StartOtherMission
  BY <1>0, <1>3, WalkUntouched DEF StartOtherMission, States
<1>4. CASE RequestAnalysis
  <2>1. /\ awaiting' \in Flags /\ awaiting'.label = awaiting.label
        /\ awaiting'.ceiling = awaiting.ceiling /\ awaiting'.check = awaiting.check
    BY <1>0, <1>4 DEF RequestAnalysis, Flags
  <2> QED
    BY <1>0, <1>4, <2>1, WalkUntouched DEF RequestAnalysis, States
<1>5. CASE OtherTick
  <2>1. /\ awaiting' \in Flags /\ awaiting'.label = awaiting.label
        /\ awaiting'.ceiling = awaiting.ceiling /\ awaiting'.check = awaiting.check
    BY <1>0, <1>5 DEF OtherTick, Flags
  <2> QED
    BY <1>0, <1>5, <2>1, WalkUntouched DEF OtherTick, States, Motions
<1> QED
  BY <1>1, <1>2, <1>3, <1>4, <1>5

\* The map is only cleared while nobody explores it.
LEMMA ResetExploreMapKeeps == ASSUME Inductive, alive, ResetExploreMap PROVE Inductive'
<1>1. <<>> \in RoomMaps /\ Len(<<>>) = 0
  BY DEF RoomMaps
<1> QED
  BY <1>1, BoundsAssumption
     DEF ResetExploreMap, Inductive, TypeOK, MissionTree, WithinBudgets, FlagsFollowPhase, InSweep,
         Overriding, mission, walk, ghost

----------------------------------------------------------------------------
(* The theorems.                                                           *)

\* The node starts idle, with nothing explored.
LEMMA InitInductive == ASSUME Init PROVE Inductive
<1>1. <<>> \in RoomMaps /\ Len(<<>>) = 0
  BY DEF RoomMaps
<1>2. TypeOK
  BY <1>1, FixedTurns
     DEF Init, TypeOK, States, Phases, Sweeps, Budgets, Flags, Texts, Motions, NoRetry, NoRoom
<1> QED
  BY <1>1, <1>2, LimitsAssumption, BoundsAssumption, HeadingsAssumption
     DEF Init, Inductive, MissionTree, WithinBudgets, FlagsFollowPhase, InSweep, Overriding,
         Returning, NoRetry

\* Every step of the node keeps Inductive.
LEMMA NextInductive == ASSUME Inductive, [Next]_vars PROVE Inductive'
<1>1. CASE Next
  <2>1. alive
    BY <1>1 DEF Next
  <2> QED
    BY <1>1, <2>1, TickContinueKeeps, RotationDoneKeeps, SettleDoneKeeps, VlmStepResultKeeps,
       PursuitKeeps, BlindDriveDoneKeeps, BacktrackDoneKeeps, ExploreObservationKeeps,
       RoomCheckAnswerKeeps, CeilingAnswerKeeps, OnAdminTextKeeps, StartExploreKeeps,
       OtherMissionKeeps, ResetExploreMapKeeps
       DEF Next, TickProgress, OnVlmObservation, OnMissionCommand
<1>2. CASE UNCHANGED vars
  BY <1>2
     DEF vars, mission, walk, map, ghost, Inductive, TypeOK, MissionTree, WithinBudgets,
         FlagsFollowPhase, InSweep, Overriding, Returning, UntriedMovable
<1> QED
  BY <1>1, <1>2

\* The inductive invariant holds in every behaviour of the explorer.
THEOREM Invariance == Spec => []Inductive
<1>1. Init => Inductive
  BY InitInductive
<1>2. Inductive /\ [Next]_vars => Inductive'
  BY NextInductive
<1> QED
  BY <1>1, <1>2, PTL DEF Spec

\* Every variable has its type: angles wrap, flags and counters stay what they are.
THEOREM TypeCorrect == Spec => []TypeOK
<1>1. Inductive => TypeOK
  BY DEF Inductive
<1> QED
  BY <1>1, Invariance, PTL

\* While exploring, the current room is on the map, and going from parent to parent stays in
\* the mission and leads to its root.
THEOREM TreeCorrect == Spec => []MissionTree
<1>1. Inductive => MissionTree
  BY DEF Inductive
<1> QED
  BY <1>1, Invariance, PTL

\* No order of blocked advances, overrides, nudges and same-room verdicts exceeds a limit.
THEOREM BudgetsRespected == Spec => []WithinBudgets
<1>1. Inductive => WithinBudgets
  BY DEF Inductive
<1> QED
  BY <1>1, Invariance, PTL

\* While exploring the flags that route answers and names agree with the phase, whatever
\* commands and answers came in between (on_vlm_observation, on_admin_text).
THEOREM FlagsCorrect == Spec => []PhaseMatchesFlags
<1>1. Inductive => PhaseMatchesFlags
  BY DEF Inductive, FlagsFollowPhase, PhaseMatchesFlags
<1> QED
  BY <1>1, Invariance, PTL

\* The robot goes back to the parent only when the room has no untried opening left.
THEOREM ReturnsExhausted == Spec => []BacktrackOnlyWhenExhausted
<1>1. Inductive => BacktrackOnlyWhenExhausted
  BY DEF Inductive, Returning, BacktrackOnlyWhenExhausted
<1> QED
  BY <1>1, Invariance, PTL

\* No tick, answer or map command ends an exploration.
THEOREM ExploringEndsByCommand == Spec => LeavesExploringOnlyByCommand
<1>1. ASSUME Next, state = "exploring", state' # "exploring"
      PROVE  Stop \/ StartOtherMission \/ RequestAnalysis
  <2>1. ~TickContinue /\ ~OtherTick /\ ~StartExplore /\ ~ResetExploreMap
    BY <1>1 DEF TickContinue, OtherTick, StartExplore, ResetExploreMap, mission
  <2>2. ~TickProgress
    BY <1>1 DEF TickProgress, RotationDone, SettleDone, VlmStepResult, ObstacleCheckResult,
                BackupDone, BlindDriveDone, AdvanceBlocked, AdvanceDone, BacktrackDone, mission
  <2>3. ~OnVlmExploreObservation /\ ~OnVlmObservation /\ ~OnAdminText
    BY <1>1 DEF OnVlmExploreObservation, OnVlmObservation, RoomCheckAnswer, CeilingAnswer,
                CeilingAnswerForGoneRoom, AnalysisAnswer, OnAdminText, mission
  <2> QED
    BY <1>1, <2>1, <2>2, <2>3 DEF Next, OnMissionCommand
<1>2. [Next]_vars => [state = "exploring" /\ state' # "exploring" =>
                        Stop \/ StartOtherMission \/ RequestAnalysis]_vars
  BY <1>1 DEF vars
<1> QED
  BY <1>2, PTL DEF Spec, LeavesExploringOnlyByCommand

----------------------------------------------------------------------------
(* Where the robot is headed.  The remaining properties relate the believed*)
(* heading to the doorway, to the headings already looked at and to where  *)
(* the robot really faces.  They hold by an invariant of their own, on top *)
(* of `Inductive`; first the arithmetic of the circle it needs.            *)

\* A number is a multiple of the circle and its remainder.
LEMMA ModDecompose ==
    ASSUME NEW a \in Int, NEW n \in Nat \ {0}
    PROVE  \E q \in Int : a = q * n + (a % n) /\ a % n \in 0..(n - 1)
<1>1. a \div n \in Int /\ a = (a \div n) * n + (a % n)
  BY SMT
<1>2. a % n \in 0..(n - 1)
  BY SMT
<1> QED
  BY <1>1, <1>2

\* A positive multiple is at least the number itself.
LEMMA AtLeastOnce == \A d, n \in Int : n > 0 /\ d >= 1 => d * n >= n
  BY SMT

\* Multiplication distributes over a sum.
LEMMA Distributes == \A p, q, n \in Int : (p + q) * n = p * n + q * n
  BY SMT

\* Only one remainder is in range.
LEMMA ModUnique ==
    ASSUME NEW n \in Nat \ {0}, NEW q \in Int, NEW r \in 0..(n - 1)
    PROVE  (q * n + r) % n = r
<1> DEFINE a == q * n + r
<1>1. a \in Int
  OBVIOUS
<1>2. PICK p \in Int : a = p * n + (a % n) /\ a % n \in 0..(n - 1)
  BY <1>1, ModDecompose
<1>3. (p - q) * n = r - (a % n)
  BY <1>2, SMT
<1>4. p - q < 1
  BY <1>2, <1>3, SMT
<1>5. q - p < 1
  BY <1>2, <1>3, SMT
<1>6. p = q
  BY <1>4, <1>5
<1> QED
  BY <1>2, <1>6

\* Wrapping one of the summands first makes no difference.
LEMMA ModAdd ==
    ASSUME NEW a \in Int, NEW b \in Int, NEW n \in Nat \ {0}
    PROVE  ((a % n) + b) % n = (a + b) % n
<1> DEFINE c == (a % n) + b
<1>1. PICK p \in Int : a = p * n + (a % n) /\ a % n \in 0..(n - 1)
  BY ModDecompose
<1>2. c \in Int
  BY <1>1
<1>3. PICK q \in Int : c = q * n + (c % n) /\ c % n \in 0..(n - 1)
  BY <1>2, ModDecompose
<1>4. a + b = (p + q) * n + (c % n)
  <2>1. a + b = p * n + q * n + (c % n)
    BY <1>1, <1>3
  <2> QED
    BY <2>1, Distributes
<1>5. p + q \in Int
  OBVIOUS
<1> QED
  BY <1>3, <1>4, <1>5, ModUnique

\* A bearing is its own remainder.
LEMMA BearingMod ==
    ASSUME NEW x \in Bearing
    PROVE  x % Total = x
<1>1. Total \in Nat \ {0} /\ 0 \in Int /\ x \in 0..(Total - 1)
  BY TotalFacts DEF Bearing
<1>2. (0 * Total + x) % Total = x
  BY <1>1, ModUnique
<1>3. 0 * Total + x = x
  BY <1>1
<1> QED
  BY <1>2, <1>3

\* A turn ends where it was meant to.
LEMMA TurnReaches ==
    ASSUME NEW from \in Bearing, NEW to \in Bearing
    PROVE  (from + Turn(from, to)) % Total = to
<1>1. from \in Int /\ to \in Int /\ to - from \in Int /\ Total \in Nat \ {0}
  BY TotalFacts DEF Bearing
<1>2. (((to - from) % Total) + from) % Total = (to - from + from) % Total
  BY <1>1, ModAdd
<1>3. to - from + from = to /\ to % Total = to
  BY <1>1, BearingMod
<1>4. Turn(from, to) \in Int
  BY TurnRange, TotalFacts DEF Bearing
<1>5. from + Turn(from, to) = ((to - from) % Total) + from
  BY <1>1, <1>4 DEF Turn
<1> QED
  BY <1>2, <1>3, <1>5

\* From half a turn past the way the room was entered, the correction leads to heading 0.
LEMMA CorrectionCloses ==
    ASSUME NEW via \in Bearing
    PROVE  (((Half + via) % Total) + ParentCorrection(via)) % Total = 0
<1> DEFINE out == Half + via
           back == ParentCorrection(via)
<1>1. /\ out \in Int /\ -out \in Int /\ Total \in Nat \ {0}
      /\ via \in Int /\ Half \in Int
  BY TotalFacts, FixedTurns DEF Bearing
<1>2. back \in Int /\ back = (-out) % Total
  <2>1. -(via + Half) = -out
    BY <1>1
  <2>2. back \in Bearing
    BY CorrectionRange
  <2> QED
    BY <1>1, <2>1, <2>2, TotalFacts DEF ParentCorrection, Bearing
<1> HIDE DEF out, back
<1>3. ((out % Total) + back) % Total = (out + back) % Total
  BY <1>1, <1>2, ModAdd
<1>4. (((-out) % Total) + out) % Total = (-out + out) % Total
  BY <1>1, ModAdd
<1>5. -out + out = 0 /\ 0 % Total = 0
  BY <1>1, FixedTurns, BearingMod
<1>6. out + back = ((-out) % Total) + out
  BY <1>1, <1>2
<1> QED
  BY <1>3, <1>4, <1>5, <1>6 DEF out, back

\* No nudge.
LEMMA NudgeNone ==
    ASSUME NEW t \in Bearing
    PROVE  (t + 0 * Nudge) % Total = t
<1>1. t \in Int /\ Nudge \in Int
  BY NudgeAssumption, UnitsAssumption, TotalFacts DEF Bearing
<1>2. t + 0 * Nudge = t
  BY <1>1
<1> QED
  BY <1>2, BearingMod

\* One more nudge.
LEMMA NudgeMore ==
    ASSUME NEW t \in Bearing, NEW k \in Nat
    PROVE  (((t + k * Nudge) % Total) + Nudge) % Total = (t + (k + 1) * Nudge) % Total
<1>1. t \in Int /\ Nudge \in Int /\ Total \in Nat \ {0}
  BY TotalFacts, FixedTurns DEF Bearing
<1>2. k * Nudge \in Int /\ (k + 1) * Nudge = k * Nudge + Nudge
  <2>1. k \in Int /\ 1 \in Int /\ 1 * Nudge = Nudge
    BY <1>1
  <2> QED
    BY <1>1, <2>1, Distributes
<1> DEFINE x == t + k * Nudge
<1>3. x \in Int /\ t + (k + 1) * Nudge = x + Nudge
  BY <1>1, <1>2
<1> HIDE DEF x
<1>4. ((x % Total) + Nudge) % Total = (x + Nudge) % Total
  BY <1>1, <1>3, ModAdd
<1> QED
  BY <1>3, <1>4 DEF x

\* The headings of a sweep are bearings, and one step past a heading but the last is the next.
LEMMA HeadingSteps ==
    ASSUME NEW i \in Nat, i < Headings
    PROVE  /\ i * StepUnits \in Bearing
           /\ i + 1 < Headings => (i * StepUnits + StepUnits) % Total = (i + 1) * StepUnits
<1>1. Headings \in Int /\ StepUnits \in Nat /\ StepUnits > 0 /\ i \in Int
  BY HeadingsAssumption, UnitsAssumption
<1>2. ASSUME NEW j \in Nat, j < Headings
      PROVE  j * StepUnits \in Bearing
  <2>1. j * StepUnits \in Nat
    BY <1>1
  <2>2. (Headings - j) * StepUnits >= StepUnits
    BY <1>1, <1>2, AtLeastOnce
  <2>3. Headings * StepUnits = (Headings - j) * StepUnits + j * StepUnits
    <3>1. (Headings - j) + j = Headings /\ Headings - j \in Int /\ j \in Int
      BY <1>1
    <3> QED
      BY <1>1, <3>1, Distributes
  <2> QED
    BY <1>1, <2>1, <2>2, <2>3 DEF Bearing, Total
<1>3. (i + 1) * StepUnits = i * StepUnits + StepUnits
  <2>1. 1 \in Int /\ 1 * StepUnits = StepUnits
    BY <1>1
  <2> QED
    BY <1>1, <2>1, Distributes
<1> QED
  BY <1>2, <1>3, BearingMod

----------------------------------------------------------------------------
(* The invariant: where the turn in progress, if there is one, will end.   *)

Ahead == (heading + delta) % Total

\* That is the doorway's bearing, give or take at most n nudges.
Aim(n) == \E k \in 0..n : Ahead = (target + k * Nudge) % Total

Approaching == phase = "rotating" /\ next = "advance_doorway"
Nudging == phase = "escape_backup" /\ budget.nudging
Correcting == phase = "rotating" /\ next = "after_backtrack_correct"

\* On the way to the ceiling question and the label, the circle complete.
Circled ==
    \/ phase \in {"await_ceiling", "await_label"}
    \/ phase = "rotating" /\ next = "await_ceiling"
    \/ phase = "settling" /\ next = "ceiling"

Still == phase # "rotating" => delta = 0

\* The nudges spent on a doorway are counted while the robot is on its way to it, the one it is
\* backing up for included; a pending nudge is never left over for another doorway.
Aimed ==
    /\ budget.nudging => phase = "escape_backup" /\ budget.nudge > 0
    /\ Pursuing \/ Approaching => Aim(budget.nudge)
    /\ Nudging => Aim(budget.nudge - 1)
    /\ Pursuing \/ Approaching \/ Nudging => target \in rooms[room].tried

\* The first n headings of the current room have been looked at.
Seen(n) == \A i \in 0..(n - 1) : rooms[room].first[i * StepUnits] # "unseen"

\* The first sweep of a room looks at its headings one after the other, from heading 0.
Swept ==
    /\ InSweep /\ ~sweep.retry => Ahead = sweep.done * StepUnits /\ Seen(sweep.done)
    /\ Circled => Seen(Headings)

\* Every room of the mission was entered where its doorway was recorded.
EntriesKnown ==
    \A r \in DOMAIN rooms : InMission(rooms, r) /\ rooms[r].via # NoStep => entry[r] = rooms[r].via

Reckoned ==
    /\ Correcting => (facing + delta) % Total = 0
    /\ ~Correcting => facing = heading
    /\ Returning => Ahead = Half
    /\ EntriesKnown

Oriented ==
    /\ Still
    /\ state = "exploring" => Aimed /\ Swept
    /\ state = "exploring" /\ MaxNudges = 0 => Reckoned

\* Standing still, the robot faces where it was turned to.
LEMMA AheadStill ==
    ASSUME Inductive, delta = 0
    PROVE  Ahead = heading
<1>1. heading \in Bearing /\ heading + 0 = heading
  BY TotalFacts DEF Inductive, TypeOK, Bearing
<1> QED
  BY <1>1, BearingMod DEF Ahead

\* When the turn is over, the robot is where it was to end.
LEMMA TurnEnds ==
    ASSUME Ahead \in Bearing, heading' = Ahead, delta' = 0
    PROVE  Ahead' = Ahead
<1>1. Ahead + 0 = Ahead
  BY TotalFacts DEF Bearing
<1>2. Ahead' = (Ahead + 0) % Total
  BY DEF Ahead
<1> QED
  BY <1>1, <1>2, BearingMod

\* Outside the exploration only the turn matters.
LEMMA OrientedSuspended ==
    ASSUME state' # "exploring", Still'
    PROVE  Oriented'
  BY DEF Oriented

\* Steps that leave the walk and its map alone.
LEMMA OrientedUntouched ==
    ASSUME Oriented, state' = state \/ state' # "exploring",
           UNCHANGED <<walk, heading, sweep, budget, target, map, ghost>>
    PROVE  Oriented'
<1>1. Still'
  BY DEF Oriented, Still, walk
<1>2. CASE state' # "exploring"
  BY <1>1, <1>2, OrientedSuspended
<1>3. CASE state' = state
  BY <1>1, <1>3
     DEF Oriented, Aimed, Swept, Reckoned, Pursuing, Approaching, Nudging, Correcting, Circled,
         InSweep, Returning, Aim, Seen, Ahead, EntriesKnown, walk, map, ghost
<1> QED
  BY <1>2, <1>3

\* A map with the same tree keeps the record of the entries.
LEMMA EntriesKept ==
    ASSUME rooms \in RoomMaps, rooms' \in RoomMaps, SameTree(rooms, rooms'), entry' = entry,
           EntriesKnown
    PROVE  EntriesKnown'
<1>1. \A r : InMission(rooms', r) <=> InMission(rooms, r)
  BY SameTreeFacts
<1> QED
  BY <1>1 DEF EntriesKnown, SameTree

----------------------------------------------------------------------------
(* What is chosen next.                                                    *)

\* A turn to a doorway now marked tried, a retry sweep, the way back, or a reposition.
Chosen(r) ==
    \/ /\ phase' = "rotating" /\ next' = "advance_doorway"
       /\ Ahead' = target' /\ target' \in Bearing /\ target' \in rooms'[r].tried
    \/ phase' = "rotating" /\ next' = "await_vlm_step" /\ sweep'.retry
    \/ phase' = "rotating" /\ next' = "backtrack_advance" /\ Ahead' = Half
    \/ phase' = "blind_reposition_drive" /\ next' = "none" /\ delta' = 0

\* room_scan_begin_backtrack_or_finish chooses one of the last three.
LEMMA BacktrackOrFinishChooses ==
    ASSUME NEW m, NEW r, NEW h \in Bearing, NEW s, heading' = h,
           BeginBacktrackOrFinish(m, r, h, s)
    PROVE  Chosen(r)
<1>1. ASSUME BeginRotate(Turn(h, WayBack), "backtrack_advance")
      PROVE  Chosen(r)
  <2>1. (h + Turn(h, WayBack)) % Total = Half
    BY TurnReaches, FixedTurns DEF WayBack
  <2> QED
    BY <1>1, <2>1 DEF Chosen, BeginRotate, Ahead
<1> QED
  BY <1>1 DEF BeginBacktrackOrFinish, Chosen, BeginRotate, Enter, NextRound

\* A doorway marked tried is in the tried ones.
LEMMA MarkedTried ==
    ASSUME NEW m \in RoomMaps, NEW r \in DOMAIN m, NEW b
    PROVE  b \in MarkTried(m, r, b)[r].tried
<1>1. MarkTried(m, r, b)[r] = Tried(m[r], b)
  BY DEF MarkTried, RoomMaps
<1> QED
  BY <1>1 DEF Tried

\* room_scan_advance_after_label turns to a doorway, or else chooses likewise.
LEMMA AdvanceChooses ==
    ASSUME NEW m \in RoomMaps, NEW r \in DOMAIN m, NEW h \in Bearing, NEW s,
           NEW b \in Budgets, heading' = h, AdvanceAfterLabel(m, r, h, s, b)
    PROVE  Chosen(r) /\ budget'.nudging = b.nudging
<1>1. ASSUME NEW door \in Doorways(m, r),
             rooms' = MarkTried(m, r, door), target' = door,
             budget' = [b EXCEPT !.override = 0, !.chase = 0, !.nudge = 0],
             BeginRotate(Turn(h, door), "advance_doorway")
      PROVE  Chosen(r) /\ budget'.nudging = b.nudging
  <2>1. door \in Bearing
    BY DoorwayFacts
  <2>2. (h + Turn(h, door)) % Total = door
    BY <2>1, TurnReaches
  <2>3. door \in rooms'[r].tried
    BY <1>1, MarkedTried
  <2>4. budget'.nudging = b.nudging
    BY <1>1 DEF Budgets
  <2> QED
    BY <1>1, <2>1, <2>2, <2>3, <2>4 DEF Chosen, BeginRotate, Ahead
<1>2. CASE budget' = b /\ BeginBacktrackOrFinish(m, r, h, s)
  BY <1>2, BacktrackOrFinishChooses
<1> QED
  BY <1>1, <1>2 DEF AdvanceAfterLabel

\* So does room_scan_after_backtrack_correct.
LEMMA CorrectChooses ==
    ASSUME NEW r \in DOMAIN rooms, rooms \in RoomMaps, budget \in Budgets,
           AfterBacktrackCorrect(r)
    PROVE  Chosen(r) /\ budget'.nudging = budget.nudging /\ heading' = 0
<1>1. heading' = 0 /\ 0 \in Bearing
  BY FixedTurns DEF AfterBacktrackCorrect
<1>2. ASSUME NEW door \in Doorways(rooms, r),
             rooms' = MarkTried(rooms, r, door), target' = door,
             budget' = [budget EXCEPT !.override = 0],
             BeginRotate(door, "advance_doorway")
      PROVE  Chosen(r) /\ budget'.nudging = budget.nudging
  <2>1. door \in Bearing
    BY DoorwayFacts
  <2>2. (0 + door) % Total = door
    BY <2>1, BearingMod, TotalFacts DEF Bearing
  <2>3. door \in rooms'[r].tried
    BY <1>2, MarkedTried
  <2>4. budget'.nudging = budget.nudging
    BY <1>2 DEF Budgets
  <2> QED
    BY <1>1, <1>2, <2>1, <2>2, <2>3, <2>4 DEF Chosen, BeginRotate, Ahead
<1>3. CASE UNCHANGED budget /\ BeginBacktrackOrFinish(rooms, r, 0, sweep)
  BY <1>1, <1>3, BacktrackOrFinishChooses
<1> QED
  BY <1>1, <1>2, <1>3 DEF AfterBacktrackCorrect

\* Whatever was chosen, the robot is oriented for it.
LEMMA ChosenOriented ==
    ASSUME Inductive', Chosen(room'), ~budget'.nudging,
           MaxNudges = 0 => facing' = heading' /\ EntriesKnown'
    PROVE  Oriented'
<1>1. Still'
  BY DEF Chosen, Still
<1>2. /\ ~Pursuing' /\ ~Nudging' /\ ~Circled' /\ ~Correcting'
      /\ InSweep' => sweep'.retry
      /\ Returning' => Ahead' = Half
  BY DEF Chosen, Pursuing, Nudging, Circled, Correcting, InSweep, Returning
<1>3. ASSUME Approaching'
      PROVE  Aim(budget.nudge)' /\ target' \in rooms'[room'].tried
  <2>1. Ahead' = target' /\ target' \in Bearing /\ target' \in rooms'[room'].tried
    BY <1>3 DEF Chosen, Approaching
  <2>2. budget'.nudge \in Nat
    BY DEF Inductive, TypeOK, Budgets
  <2>3. target' = (target' + 0 * Nudge) % Total
    BY <2>1, NudgeNone
  <2> QED
    BY <2>1, <2>2, <2>3 DEF Aim
<1>4. Aimed' /\ Swept'
  BY <1>2, <1>3 DEF Aimed, Swept
<1>5. MaxNudges = 0 => Reckoned'
  BY <1>2 DEF Reckoned
<1> QED
  BY <1>1, <1>4, <1>5 DEF Oriented

----------------------------------------------------------------------------
(* Every action keeps the robot oriented.                                  *)

\* What Oriented says of a robot that stands still.
LEMMA Standing ==
    ASSUME Inductive, Oriented, state = "exploring", phase # "rotating"
    PROVE  /\ delta = 0 /\ Ahead = heading
           /\ Aimed /\ Swept
           /\ MaxNudges = 0 => facing = heading /\ EntriesKnown
<1>1. delta = 0
  BY DEF Oriented, Still
<1> QED
  BY <1>1, AheadStill DEF Oriented, Reckoned, Correcting

\* RotationDone: the turn has ended where it was meant to.
LEMMA RotationDoneOrients ==
    ASSUME Inductive, Oriented, Inductive', RotationDone
    PROVE  Oriented'
<1>1. /\ state = "exploring" /\ state' = "exploring" /\ phase = "rotating"
      /\ room' = room /\ entry' = entry /\ facing' = (facing + delta) % Total
      /\ room \in DOMAIN rooms /\ rooms \in RoomMaps /\ room \in Nat /\ target \in Bearing
      /\ Ahead \in Bearing /\ budget \in Budgets /\ SweepOK(sweep) /\ BudgetOK(budget)
  BY SumRange
     DEF RotationDone, Exploring, Inductive, TypeOK, MissionTree, WithinBudgets, mission, Ahead,
         SweepOK, BudgetOK
<1>2. /\ Aimed /\ Swept /\ ~budget.nudging
      /\ MaxNudges = 0 => Reckoned
      /\ MaxNudges = 0 /\ ~Correcting => facing' = Ahead
  BY <1>1 DEF Oriented, Aimed, Reckoned, Ahead
<1>3. CASE /\ next \in {"await_vlm_step", "await_ceiling"}
           /\ BeginSettle(IF next = "await_vlm_step" THEN "vlm_step" ELSE "ceiling")
           /\ heading' = Ahead
           /\ UNCHANGED <<rooms, budget, target, sweep>>
  <2>1. /\ delta' = 0 /\ Ahead' = Ahead /\ Still'
        /\ ~Pursuing' /\ ~Approaching' /\ ~Nudging' /\ ~Correcting' /\ ~Returning'
    BY <1>1, <1>3, TurnEnds
       DEF BeginSettle, Still, Pursuing, Approaching, Nudging, Correcting, Returning
  <2>2. Aimed'
    BY <1>2, <1>3, <2>1 DEF Aimed
  <2>3. Swept'
    BY <1>1, <1>2, <1>3, <2>1 DEF Swept, InSweep, Circled, Seen, BeginSettle
  <2>4. MaxNudges = 0 => Reckoned'
    BY <1>1, <1>2, <1>3, <2>1 DEF Reckoned, Correcting, EntriesKnown
  <2> QED
    BY <2>1, <2>2, <2>3, <2>4 DEF Oriented
<1>4. CASE /\ next \in {"advance_doorway", "backtrack_advance"}
           /\ Enter(next)
           /\ heading' = Ahead
           /\ UNCHANGED <<rooms, budget, target, sweep>>
  <2>1. /\ delta' = 0 /\ Ahead' = Ahead /\ Still'
        /\ ~Approaching' /\ ~Nudging' /\ ~Correcting' /\ ~InSweep' /\ ~Circled'
    BY <1>1, <1>4, TurnEnds
       DEF Enter, Still, Approaching, Nudging, Correcting, InSweep, Circled
  <2>2. Aimed' /\ Swept'
    BY <1>1, <1>2, <1>4, <2>1 DEF Aimed, Swept, Aim, Pursuing, Approaching, Enter
  <2>3. MaxNudges = 0 => Reckoned'
    BY <1>1, <1>2, <1>4, <2>1 DEF Reckoned, Correcting, EntriesKnown, Returning, Enter
  <2> QED
    BY <2>1, <2>2, <2>3 DEF Oriented
<1>5. CASE /\ next = "after_escape_turn_around"
           /\ heading' = Ahead
           /\ AdvanceAfterLabel(rooms, room, Ahead, sweep, budget)
  <2>1. Chosen(room) /\ budget'.nudging = budget.nudging
    BY <1>1, <1>5, AdvanceChooses
  <2>2. rooms' \in RoomMaps /\ SameTree(rooms, rooms')
    BY <1>1, <1>5, AdvanceHeadsOff
  <2>3. MaxNudges = 0 => facing' = heading' /\ EntriesKnown'
    BY <1>1, <1>2, <1>5, <2>2, EntriesKept DEF Reckoned, Correcting
  <2> QED
    BY <1>1, <1>2, <2>1, <2>3, ChosenOriented
<1>6. CASE next = "after_backtrack_correct" /\ AfterBacktrackCorrect(room)
  <2>1. Chosen(room) /\ budget'.nudging = budget.nudging /\ heading' = 0
    BY <1>1, <1>6, CorrectChooses
  <2>2. rooms' \in RoomMaps /\ SameTree(rooms, rooms')
    BY <1>1, <1>6, CorrectHeadsOff
  <2>3. MaxNudges = 0 => facing' = heading' /\ EntriesKnown'
    BY <1>1, <1>2, <1>6, <2>1, <2>2, EntriesKept DEF Reckoned, Correcting
  <2> QED
    BY <1>1, <1>2, <2>1, <2>3, ChosenOriented
<1> QED
  BY <1>3, <1>4, <1>5, <1>6 DEF RotationDone, Ahead

\* SettleDone: the question is asked standing as the robot has settled.
LEMMA SettleDoneOrients ==
    ASSUME Inductive, Oriented, Inductive', SettleDone
    PROVE  Oriented'
<1>1. /\ state = "exploring" /\ state' = "exploring" /\ phase = "settling"
      /\ UNCHANGED <<heading, sweep, budget, target, room, rooms, facing, entry>>
      /\ delta' = 0 /\ next' = "none"
      /\ \/ next = "vlm_step" /\ phase' = "await_vlm_step"
         \/ next = "obstacle_check" /\ phase' = "await_obstacle_check"
         \/ next = "room_check" /\ phase' = "await_room_check"
         \/ next = "ceiling" /\ phase' = "await_ceiling"
  BY DEF SettleDone, Exploring, RequestVlmStep, RequestObstacleCheck, Enter, mission, map, ghost
<1>2. /\ delta = 0 /\ Ahead = heading /\ Aimed /\ Swept
      /\ MaxNudges = 0 => facing = heading /\ EntriesKnown
  BY <1>1, Standing
<1>3. Ahead' = Ahead /\ Still'
  BY <1>1, <1>2 DEF Ahead, Still
<1>4. Aimed'
  BY <1>1, <1>2, <1>3 DEF Aimed, Pursuing, Approaching, Nudging, Aim
<1>5. Swept'
  BY <1>1, <1>2, <1>3 DEF Swept, InSweep, Circled, Seen
<1>6. MaxNudges = 0 => Reckoned'
  BY <1>1, <1>2, <1>3 DEF Reckoned, Correcting, Returning, EntriesKnown
<1> QED
  BY <1>3, <1>4, <1>5, <1>6 DEF Oriented

\* add_observation sees the heading it is given, and forgets none.
LEMMA ObservationSees ==
    ASSUME NEW m \in RoomMaps, NEW r \in DOMAIN m, NEW b \in Bearing, NEW c \in Category
    PROVE  \A x \in Bearing :
             AddObservation(m, r, b, c)[r].first[x] = "unseen" =>
               x # b /\ m[r].first[x] = "unseen"
<1>1. AddObservation(m, r, b, c)[r] = Observed(m[r], b, c)
  BY DEF AddObservation, RoomMaps
<1>2. m[r].first \in [Bearing -> Category \cup {"unseen"}] /\ c # "unseen"
  <2>1. m[r] \in Room
    BY DEF RoomMaps
  <2> QED
    BY <2>1 DEF Room, Category, Openings
<1> QED
  BY <1>1, <1>2 DEF Observed

\* VlmStepResult: one heading more has been seen.
LEMMA VlmStepResultOrients ==
    ASSUME Inductive, Oriented, Inductive', VlmStepResult
    PROVE  Oriented'
<1>1. /\ state = "exploring" /\ state' = "exploring" /\ phase = "await_vlm_step"
      /\ UNCHANGED <<heading, room, facing, entry>>
      /\ room \in DOMAIN rooms /\ rooms \in RoomMaps /\ room \in Nat /\ target \in Bearing
      /\ heading \in Bearing /\ budget \in Budgets /\ sweep \in Sweeps /\ BudgetOK(budget)
      /\ sweep.done \in Nat /\ sweep.done < Headings
  BY DEF VlmStepResult, Exploring, Inductive, TypeOK, MissionTree, WithinBudgets, InSweep, Sweeps,
         BudgetOK, mission, ghost
<1>2. /\ Ahead = heading /\ Aimed /\ Swept /\ ~budget.nudging
      /\ MaxNudges = 0 => facing = heading /\ EntriesKnown
  BY <1>1, Standing DEF Aimed
<1>3. PICK category \in StepCategory(ReadyText) :
        LET m == AddObservation(rooms, room, heading, category)
            s == [sweep EXCEPT !.done = @ + 1]
        IN \/ /\ ~SweepOver(s)
              /\ BeginRotate(StepUnits, "await_vlm_step")
              /\ rooms' = m /\ sweep' = s
              /\ UNCHANGED <<budget, target>>
           \/ /\ SweepOver(s) /\ s.retry
              /\ AdvanceAfterLabel(m, room, heading, s, budget)
           \/ /\ SweepOver(s) /\ ~s.retry
              /\ BeginRotate(StepUnits, "await_ceiling")
              /\ rooms' = m /\ sweep' = s
              /\ UNCHANGED <<budget, target>>
  BY DEF VlmStepResult
<1> DEFINE m == AddObservation(rooms, room, heading, category)
           s == [sweep EXCEPT !.done = @ + 1]
<1>4. category \in Category
  BY DEF StepCategory, Category, Openings
<1>5. m \in RoomMaps /\ SameTree(rooms, m) /\ room \in DOMAIN m
  BY <1>1, <1>4, AddObservationFacts DEF SameTree
<1>6. /\ s.done = sweep.done + 1 /\ s.retry = sweep.retry
      /\ SweepOver(s) <=> sweep.done + 1 >= Headings
      /\ SweepOK(s)
  BY <1>1, HeadingsAssumption DEF Sweeps, SweepOver, SweepOK
<1>7. ASSUME ~sweep.retry
      PROVE  \A i \in 0..sweep.done : m[room].first[i * StepUnits] # "unseen"
  <2>1. heading = sweep.done * StepUnits /\ Seen(sweep.done)
    BY <1>1, <1>2, <1>7 DEF Swept, InSweep
  <2>2. SUFFICES ASSUME NEW i \in 0..sweep.done, m[room].first[i * StepUnits] = "unseen"
                 PROVE  FALSE
    OBVIOUS
  <2>3. i \in Nat /\ i < Headings /\ i * StepUnits \in Bearing
    BY <1>1, HeadingsAssumption, HeadingSteps
  <2>4. i * StepUnits # heading /\ rooms[room].first[i * StepUnits] = "unseen"
    BY <1>1, <1>4, <2>2, <2>3, ObservationSees
  <2>5. i \in 0..(sweep.done - 1)
    BY <1>1, <2>1, <2>4
  <2> QED
    BY <2>1, <2>4, <2>5 DEF Seen
<1> HIDE DEF m, s
<1>8. CASE /\ \/ ~SweepOver(s) /\ BeginRotate(StepUnits, "await_vlm_step")
              \/ SweepOver(s) /\ ~s.retry /\ BeginRotate(StepUnits, "await_ceiling")
           /\ rooms' = m /\ sweep' = s
           /\ UNCHANGED <<budget, target>>
  <2>1. /\ Still' /\ ~Pursuing' /\ ~Approaching' /\ ~Nudging' /\ ~Correcting' /\ ~Returning'
        /\ InSweep' <=> ~SweepOver(s)
        /\ Circled' => SweepOver(s) /\ ~s.retry
    BY <1>8
       DEF BeginRotate, Still, Pursuing, Approaching, Nudging, Correcting, Returning, InSweep,
           Circled
  <2>2. Aimed'
    BY <1>2, <1>8, <2>1 DEF Aimed
  <2>3. ASSUME ~SweepOver(s), ~s.retry
        PROVE  Ahead' = sweep'.done * StepUnits /\ Seen(sweep.done)'
    <3>1. heading = sweep.done * StepUnits /\ sweep.done + 1 < Headings
      BY <1>1, <1>2, <1>6, <2>3, HeadingsAssumption DEF Swept, InSweep
    <3>2. (heading + StepUnits) % Total = (sweep.done + 1) * StepUnits
      BY <1>1, <3>1, HeadingSteps
    <3>3. delta' = StepUnits
      BY <1>8 DEF BeginRotate
    <3>4. Ahead' = sweep'.done * StepUnits
      BY <1>1, <1>6, <1>8, <3>2, <3>3 DEF Ahead
    <3>5. sweep'.done - 1 = sweep.done
      BY <1>1, <1>6, <1>8
    <3> QED
      BY <1>1, <1>6, <1>7, <1>8, <2>3, <3>4, <3>5 DEF Seen
  <2>4. ASSUME SweepOver(s), ~s.retry
        PROVE  Seen(Headings)'
    <3>1. Headings - 1 = sweep.done
      BY <1>1, <1>6, <2>4, HeadingsAssumption
    <3> QED
      BY <1>1, <1>6, <1>7, <1>8, <2>4, <3>1 DEF Seen
  <2>5. Swept'
    BY <1>8, <2>1, <2>3, <2>4 DEF Swept
  <2>6. MaxNudges = 0 => Reckoned'
    BY <1>1, <1>2, <1>5, <1>8, <2>1, EntriesKept DEF Reckoned
  <2> QED
    BY <2>1, <2>2, <2>5, <2>6 DEF Oriented
<1>9. CASE SweepOver(s) /\ s.retry /\ AdvanceAfterLabel(m, room, heading, s, budget)
  <2>1. Chosen(room) /\ budget'.nudging = budget.nudging
    BY <1>1, <1>5, <1>9, AdvanceChooses
  <2>2. rooms' \in RoomMaps /\ SameTree(m, rooms')
    BY <1>1, <1>5, <1>6, <1>9, AdvanceHeadsOff
  <2>3. SameTree(rooms, rooms')
    BY <1>5, <2>2, SameTreeTransitive
  <2>4. MaxNudges = 0 => facing' = heading' /\ EntriesKnown'
    BY <1>1, <1>2, <2>2, <2>3, EntriesKept
  <2> QED
    BY <1>1, <1>2, <2>1, <2>4, ChosenOriented
<1> QED
  BY <1>3, <1>8, <1>9 DEF m, s

\* Going on towards the same doorway, on the same bearing, changes nothing here.
LEMMA PursuitOrients ==
    ASSUME Inductive, Oriented, state = "exploring", state' = "exploring",
           Pursuing, Pursuing', phase # "rotating", delta' = 0,
           phase' # "await_vlm_step", phase' = "settling" => next' # "vlm_step",
           budget'.nudge = budget.nudge, budget'.nudging = budget.nudging,
           UNCHANGED <<heading, target, room, rooms, facing, entry>>
    PROVE  Oriented'
<1>1. /\ delta = 0 /\ Ahead = heading /\ Aimed
      /\ MaxNudges = 0 => facing = heading /\ EntriesKnown
  BY Standing
<1>2. /\ Still' /\ Ahead' = Ahead
      /\ ~Approaching' /\ ~Nudging' /\ ~Correcting' /\ ~Returning' /\ ~InSweep' /\ ~Circled'
  BY <1>1
     DEF Still, Ahead, Pursuing, Approaching, Nudging, Correcting, Returning, InSweep, Circled
<1>3. Aimed'
  BY <1>1, <1>2 DEF Aimed, Aim, Pursuing
<1>4. Swept'
  BY <1>2 DEF Swept
<1>5. MaxNudges = 0 => Reckoned'
  BY <1>1, <1>2 DEF Reckoned, EntriesKnown
<1> QED
  BY <1>2, <1>3, <1>4, <1>5 DEF Oriented

\* Giving a doorway up, or backing up to nudge; without nudges the heading that is set again
\* on giving up is the heading the robot already had.
LEMMA AbortOrients ==
    ASSUME Inductive, Oriented, state = "exploring", state' = "exploring",
           phase \in {"advance_doorway", "await_obstacle_check"}, AbortAdvance,
           UNCHANGED <<target, room, rooms, facing, entry>>
    PROVE  Oriented'
<1>1. /\ delta = 0 /\ Ahead = heading /\ Aimed /\ ~budget.nudging
      /\ Aim(budget.nudge) /\ target \in rooms[room].tried
      /\ MaxNudges = 0 => facing = heading /\ EntriesKnown
  BY Standing DEF Aimed, Pursuing
<1>2. budget \in Budgets /\ budget.nudge \in Nat /\ budget.nudge <= MaxNudges /\ target \in Bearing
  BY DEF Inductive, TypeOK, WithinBudgets, Budgets
<1>3. phase' = "escape_backup" /\ next' = "none" /\ delta' = 0
  BY DEF AbortAdvance, Enter
<1>4. /\ Still' /\ ~Pursuing' /\ ~Approaching' /\ ~Correcting' /\ ~Returning'
      /\ ~InSweep' /\ ~Circled'
  BY <1>3 DEF Still, Pursuing, Approaching, Correcting, Returning, InSweep, Circled
<1>5. CASE /\ budget' = [budget EXCEPT !.nudge = @ + 1, !.override = 0, !.nudging = TRUE]
           /\ UNCHANGED heading
  <2>1. /\ budget'.nudge = budget.nudge + 1 /\ budget'.nudge > 0
        /\ budget'.nudge - 1 = budget.nudge
    BY <1>2, <1>5 DEF Budgets
  <2>2. Ahead' = Ahead
    BY <1>1, <1>3, <1>5 DEF Ahead
  <2>3. Aimed'
    BY <1>1, <1>3, <1>4, <2>1, <2>2 DEF Aimed, Aim
  <2>4. MaxNudges = 0 => Reckoned'
    BY <1>1, <1>4, <1>5 DEF Reckoned, EntriesKnown
  <2> QED
    BY <1>4, <2>3, <2>4 DEF Oriented, Swept
<1>6. CASE budget' = [budget EXCEPT !.nudge = 0] /\ heading' = target
  <2>1. ~budget'.nudging
    BY <1>1, <1>2, <1>6 DEF Budgets
  <2>2. Aimed'
    BY <1>4, <2>1 DEF Aimed, Nudging
  <2>3. ASSUME MaxNudges = 0
        PROVE  Reckoned'
    <3>1. budget.nudge = 0
      BY <1>2, <2>3
    <3>2. Ahead = (target + 0 * Nudge) % Total
      BY <1>1, <3>1 DEF Aim
    <3>3. heading = target
      BY <1>1, <1>2, <3>2, NudgeNone
    <3> QED
      BY <1>1, <1>4, <1>6, <2>3, <3>3 DEF Reckoned, EntriesKnown
  <2> QED
    BY <1>4, <2>2, <2>3 DEF Oriented, Swept
<1> QED
  BY <1>5, <1>6 DEF AbortAdvance

\* The verdict on an obstacle, an obstacle, and the end of an advance.
LEMMA AdvanceOrients ==
    ASSUME Inductive, Oriented, ObstacleCheckResult \/ AdvanceBlocked \/ AdvanceDone
    PROVE  Oriented'
<1>1. budget \in Budgets
  BY DEF Inductive, TypeOK
<1>2. CASE ObstacleCheckResult
  <2>1. CASE /\ budget' = [budget EXCEPT !.override = @ + 1]
             /\ Enter("advance_doorway")
             /\ UNCHANGED heading
    <3>1. budget'.nudge = budget.nudge /\ budget'.nudging = budget.nudging
      BY <1>1, <2>1 DEF Budgets
    <3> QED
      BY <1>2, <2>1, <3>1, PursuitOrients
         DEF ObstacleCheckResult, Exploring, Enter, Pursuing, mission, map, ghost
  <2>2. CASE AbortAdvance
    BY <1>2, <2>2, AbortOrients DEF ObstacleCheckResult, Exploring, mission, map, ghost
  <2> QED
    BY <1>2, <2>1, <2>2 DEF ObstacleCheckResult
<1>3. CASE AdvanceBlocked
  <2>1. CASE AbortAdvance
    BY <1>3, <2>1, AbortOrients DEF AdvanceBlocked, Exploring, mission, map, ghost
  <2>2. CASE BeginSettle("obstacle_check") /\ UNCHANGED <<budget, heading>>
    BY <1>3, <2>2, PursuitOrients
       DEF AdvanceBlocked, Exploring, BeginSettle, Pursuing, mission, map, ghost
  <2> QED
    BY <1>3, <2>1, <2>2 DEF AdvanceBlocked, BeginObstacleCheck
<1>4. CASE AdvanceDone
  BY <1>4, PursuitOrients DEF AdvanceDone, Exploring, BeginSettle, Pursuing, mission, map, ghost
<1> QED
  BY <1>2, <1>3, <1>4

\* BackupDone turns by the nudge that was counted, or half round.
LEMMA BackupDoneOrients ==
    ASSUME Inductive, Oriented, BackupDone
    PROVE  Oriented'
<1>1. /\ state = "exploring" /\ state' = "exploring" /\ phase = "escape_backup"
      /\ UNCHANGED <<heading, sweep, target, room, rooms, facing, entry>>
  BY DEF BackupDone, Exploring, mission, map, ghost
<1>2. /\ delta = 0 /\ Ahead = heading /\ Aimed
      /\ MaxNudges = 0 => facing = heading /\ EntriesKnown
  BY <1>1, Standing
<1>3. budget \in Budgets /\ budget.nudge \in Nat /\ target \in Bearing
  BY DEF Inductive, TypeOK, Budgets
<1>4. phase' = "rotating" /\ next' \in {"advance_doorway", "after_escape_turn_around"}
  BY DEF BackupDone, BeginRotate
<1>5. /\ Still' /\ ~Pursuing' /\ ~Nudging' /\ ~Correcting' /\ ~Returning' /\ ~InSweep' /\ ~Circled'
  BY <1>4 DEF Still, Pursuing, Nudging, Correcting, Returning, InSweep, Circled
<1>6. MaxNudges = 0 => Reckoned'
  BY <1>1, <1>2, <1>5 DEF Reckoned, EntriesKnown
<1>7. CASE /\ budget.nudging
           /\ budget' = [budget EXCEPT !.nudging = FALSE]
           /\ BeginRotate(Nudge, "advance_doorway")
  <2>1. budget'.nudge = budget.nudge /\ ~budget'.nudging /\ delta' = Nudge
    BY <1>3, <1>7 DEF Budgets, BeginRotate
  <2>2. Aim(budget.nudge - 1) /\ target \in rooms[room].tried
    BY <1>1, <1>2, <1>7 DEF Aimed, Nudging
  <2>3. PICK k \in 0..(budget.nudge - 1) : heading = (target + k * Nudge) % Total
    BY <1>2, <2>2 DEF Aim
  <2>4. k \in Nat /\ k + 1 \in 0..budget.nudge
    BY <1>3, <2>3
  <2>5. Ahead' = (target + (k + 1) * Nudge) % Total
    BY <1>1, <1>3, <2>1, <2>3, <2>4, NudgeMore DEF Ahead
  <2>6. Aim(budget.nudge)'
    BY <1>1, <2>1, <2>4, <2>5 DEF Aim
  <2>7. Aimed'
    BY <1>1, <1>5, <2>1, <2>2, <2>6 DEF Aimed
  <2> QED
    BY <1>5, <1>6, <2>7 DEF Oriented, Swept
<1>8. CASE /\ ~budget.nudging
           /\ BeginRotate(Total \div 2, "after_escape_turn_around")
           /\ UNCHANGED budget
  <2>1. Aimed'
    BY <1>5, <1>8 DEF Aimed, Approaching, BeginRotate
  <2> QED
    BY <1>5, <1>6, <2>1 DEF Oriented, Swept
<1> QED
  BY <1>7, <1>8 DEF BackupDone

\* A fresh heading 0, where the robot now faces, and nothing pursued.
LEMMA FreshOrients ==
    ASSUME heading' = 0, facing' = 0, delta' = 0, ~budget'.nudging,
           \/ phase' = "await_vlm_step" /\ next' = "none"
           \/ phase' = "settling" /\ next' = "vlm_step",
           sweep'.retry \/ sweep'.done = 0,
           MaxNudges = 0 => EntriesKnown'
    PROVE  Oriented'
<1>1. /\ Still' /\ ~Pursuing' /\ ~Approaching' /\ ~Nudging' /\ ~Correcting' /\ ~Returning'
      /\ ~Circled'
  BY DEF Still, Pursuing, Approaching, Nudging, Correcting, Returning, Circled
<1>2. Aimed'
  BY <1>1 DEF Aimed
<1>3. ASSUME sweep'.done = 0
      PROVE  Ahead' = sweep'.done * StepUnits /\ Seen(sweep.done)'
  <2>1. Ahead' = 0
    <3>1. Ahead' = (0 + 0) % Total /\ 0 + 0 = 0
      BY DEF Ahead
    <3> QED
      BY <3>1, FixedTurns, BearingMod
  <2>2. 0 * StepUnits = 0
    BY UnitsAssumption
  <2>3. 0..(sweep'.done - 1) = {}
    BY <1>3
  <2> QED
    BY <1>3, <2>1, <2>2, <2>3 DEF Seen
<1>4. Swept'
  BY <1>1, <1>3 DEF Swept
<1>5. MaxNudges = 0 => Reckoned'
  BY <1>1 DEF Reckoned
<1> QED
  BY <1>1, <1>2, <1>4, <1>5 DEF Oriented

\* BlindDriveDone: where the robot ends up facing is the new heading 0.
LEMMA BlindDriveDoneOrients ==
    ASSUME Inductive, Oriented, BlindDriveDone
    PROVE  Oriented'
<1>1. /\ state = "exploring" /\ phase = "blind_reposition_drive"
      /\ heading' = 0 /\ facing' = 0 /\ delta' = 0
      /\ phase' = "settling" /\ next' = "vlm_step" /\ sweep'.retry
      /\ UNCHANGED <<budget, room, rooms, entry>>
  BY DEF BlindDriveDone, Exploring, BeginSettle, map
<1>2. ~budget.nudging /\ (MaxNudges = 0 => EntriesKnown)
  BY <1>1, Standing DEF Aimed
<1>3. MaxNudges = 0 => EntriesKnown'
  BY <1>1, <1>2 DEF EntriesKnown
<1> QED
  BY <1>1, <1>2, <1>3, FreshOrients

\* BacktrackDone: the turn still to make, from the way the robot came back, closes on the
\* parent's heading 0.
LEMMA BacktrackDoneOrients ==
    ASSUME Inductive, Oriented, Inductive', BacktrackDone
    PROVE  Oriented'
<1> DEFINE parent == RoomAt(rooms, room).parent
           correction == ParentCorrection(RoomAt(rooms, room).via)
<1>1. /\ state = "exploring" /\ state' = "exploring" /\ phase = "backtrack_advance"
      /\ entry' = entry /\ room' = parent /\ facing' = (facing + entry[room]) % Total
      /\ rooms \in RoomMaps /\ room \in DOMAIN rooms /\ InMission(rooms, room)
      /\ rooms[room].via # NoStep /\ WellParented(rooms) /\ room \in Nat
      /\ budget \in Budgets /\ BudgetOK(budget) /\ SweepOK(sweep) /\ target \in Bearing
  BY DEF BacktrackDone, Exploring, Inductive, TypeOK, MissionTree, WithinBudgets, Returning,
         SweepOK, BudgetOK, mission
<1>2. /\ Ahead = heading /\ ~budget.nudging
      /\ MaxNudges = 0 => facing = Half /\ EntriesKnown
  <2>1. /\ Ahead = heading /\ Aimed
        /\ MaxNudges = 0 => facing = heading /\ EntriesKnown
    BY <1>1, Standing
  <2>2. MaxNudges = 0 => Ahead = Half
    BY <1>1 DEF Oriented, Reckoned, Returning
  <2> QED
    BY <1>1, <2>1, <2>2 DEF Aimed
<1>3. RoomAt(rooms, room) = rooms[room] /\ rooms[room].via \in Bearing
  <2>1. rooms[room] \in Room
    BY <1>1 DEF RoomMaps
  <2> QED
    BY <1>1, <2>1 DEF RoomAt, Room
<1>4. parent \in DOMAIN rooms /\ parent \in Nat
  <2>1. parent \in 1..(room - 1)
    BY <1>1, <1>3 DEF WellParented
  <2> QED
    BY <1>1, <2>1 DEF RoomMaps
<1>5. MaxNudges = 0 => (facing' + correction) % Total = 0 /\ facing' \in Bearing
  <2>1. MaxNudges = 0 => facing' = (Half + rooms[room].via) % Total
    BY <1>1, <1>2 DEF EntriesKnown
  <2>2. (Half + rooms[room].via) % Total \in Bearing
    BY <1>3, SumRange, FixedTurns
  <2> QED
    BY <1>3, <2>1, <2>2, CorrectionCloses
<1> HIDE DEF parent, correction
<1>6. CASE correction = 0 /\ AfterBacktrackCorrect(parent)
  <2>1. Chosen(parent) /\ budget'.nudging = budget.nudging /\ heading' = 0
    BY <1>1, <1>4, <1>6, CorrectChooses
  <2>2. rooms' \in RoomMaps /\ SameTree(rooms, rooms')
    BY <1>1, <1>4, <1>6, CorrectHeadsOff
  <2>3. ASSUME MaxNudges = 0
        PROVE  facing' = 0 /\ EntriesKnown'
    <3>1. facing' + 0 = facing'
      BY <1>5, <2>3, TotalFacts DEF Bearing
    <3>2. facing' = 0
      BY <1>5, <1>6, <2>3, <3>1, BearingMod
    <3> QED
      BY <1>1, <1>2, <2>2, <2>3, <3>2, EntriesKept
  <2> QED
    BY <1>1, <1>2, <2>1, <2>3, ChosenOriented
<1>7. CASE /\ BeginRotate(correction, "after_backtrack_correct")
           /\ UNCHANGED <<heading, rooms, budget, target, sweep>>
  <2>1. phase' = "rotating" /\ next' = "after_backtrack_correct" /\ delta' = correction
    BY <1>7 DEF BeginRotate
  <2>2. /\ Still' /\ ~Pursuing' /\ ~Approaching' /\ ~Nudging' /\ Correcting' /\ ~Returning'
        /\ ~InSweep' /\ ~Circled'
    BY <2>1
       DEF Still, Pursuing, Approaching, Nudging, Correcting, Returning, InSweep, Circled
  <2>3. Aimed' /\ Swept'
    BY <1>2, <1>7, <2>2 DEF Aimed, Swept
  <2>4. MaxNudges = 0 => Reckoned'
    BY <1>1, <1>2, <1>5, <1>7, <2>1, <2>2 DEF Reckoned, EntriesKnown
  <2> QED
    BY <2>2, <2>3, <2>4 DEF Oriented
<1> QED
  BY <1>6, <1>7 DEF BacktrackDone, parent, correction

\* The room just entered was entered where the robot faced, which is its doorway.
LEMMA EntryRecorded ==
    ASSUME Inductive, EntriesKnown, Len(rooms) < MaxRooms, facing = target,
           rooms' = StartRoom(rooms, room, target),
           entry' = [entry EXCEPT ![Len(rooms) + 1] = facing]
    PROVE  EntriesKnown'
<1> DEFINE new == Len(rooms) + 1
<1>1. /\ rooms \in RoomMaps /\ room \in Nat /\ target \in Bearing /\ Len(rooms) \in Nat
      /\ entry \in [1..MaxRooms -> Bearing] /\ MaxRooms \in Nat
  BY BoundsAssumption DEF Inductive, TypeOK, RoomMaps
<1>2. /\ rooms' \in RoomMaps /\ Len(rooms') = new
      /\ \A r \in DOMAIN rooms : rooms'[r] = rooms[r]
      /\ rooms'[new].via = target
  <2>1. target \in Bearing \cup {NoStep}
    BY <1>1
  <2>2. /\ StartRoom(rooms, room, target) \in RoomMaps
        /\ Len(StartRoom(rooms, room, target)) = new
        /\ \A r \in DOMAIN rooms : StartRoom(rooms, room, target)[r] = rooms[r]
        /\ StartRoom(rooms, room, target)[new].via = target
    BY <1>1, <2>1, StartRoomFacts
  <2> QED
    BY <2>2
<1>3. DOMAIN rooms' = 1..new /\ DOMAIN rooms = 1..Len(rooms)
  BY <1>1, <1>2 DEF RoomMaps
<1>4. SUFFICES ASSUME NEW r \in DOMAIN rooms', InMission(rooms', r), rooms'[r].via # NoStep
               PROVE  entry'[r] = rooms'[r].via
  BY DEF EntriesKnown
<1>5. CASE r = new
  BY <1>1, <1>2, <1>5
<1>6. CASE r # new
  <2>1. r \in DOMAIN rooms /\ rooms'[r] = rooms[r]
    BY <1>1, <1>2, <1>3, <1>4, <1>6
  <2>2. InMission(rooms, r)
    BY <1>1, <1>2, <1>3, <1>4 DEF InMission
  <2>3. r \in 1..MaxRooms
    BY <1>1, <1>3, <2>1
  <2> QED
    BY <1>1, <1>4, <1>6, <2>1, <2>2, <2>3 DEF EntriesKnown
<1> QED
  BY <1>5, <1>6

\* The answer of the room check: a new room with a heading 0 of its own, the same doorway
\* again, or another choice.
LEMMA RoomCheckAnswerOrients ==
    ASSUME Inductive, Oriented, alive, Inductive', RoomCheckAnswer
    PROVE  Oriented'
<1>1. /\ state' = state /\ phase = "await_room_check" /\ target \in Bearing /\ room \in Nat
      /\ rooms \in RoomMaps /\ heading \in Bearing
      /\ budget \in Budgets /\ BudgetOK(budget) /\ SweepOK(sweep) /\ budget.nudge <= MaxNudges
  BY DEF RoomCheckAnswer, Inductive, TypeOK, FlagsFollowPhase, WithinBudgets, BudgetOK, SweepOK,
         mission
<1>2. CASE state # "exploring"
  <2>1. Still'
    BY <1>1
       DEF RoomCheckAnswer, EnterNewRoom, SameRoomContinue, AdvanceAfterLabel, Still, Enter,
           BeginBacktrackOrFinish, BeginRotate, BeginSettle
  <2> QED
    BY <1>1, <1>2, <2>1, OrientedSuspended
<1>3. CASE state = "exploring"
  <2>1. /\ Ahead = heading /\ Aimed /\ ~budget.nudging
        /\ MaxNudges = 0 => facing = heading /\ EntriesKnown
    BY <1>1, <1>3, Standing DEF Aimed
  <2>2. Pursuing /\ Aim(budget.nudge) /\ target \in rooms[room].tried /\ room \in DOMAIN rooms
    BY <1>1, <1>3, <2>1 DEF Aimed, Pursuing, Inductive, MissionTree
  <2>3. CASE EnterNewRoom
    <3>1. /\ heading' = 0 /\ facing' = 0 /\ sweep'.done = 0 /\ Len(rooms) < MaxRooms
          /\ rooms' = StartRoom(rooms, room, target)
          /\ entry' = [entry EXCEPT ![Len(rooms) + 1] = facing]
          /\ phase' = "settling" /\ next' = "vlm_step" /\ delta' = 0
      BY <2>3 DEF EnterNewRoom, BeginSettle, NoRetry
    <3>2. ~budget'.nudging
      BY <1>1, <2>1, <2>3 DEF EnterNewRoom, Budgets
    <3>3. ASSUME MaxNudges = 0
          PROVE  EntriesKnown'
      <4>1. budget.nudge = 0
        BY <1>1, <3>3 DEF Budgets
      <4>2. Ahead = (target + 0 * Nudge) % Total
        BY <2>2, <4>1 DEF Aim
      <4>3. facing = target
        BY <1>1, <2>1, <3>3, <4>2, NudgeNone
      <4> QED
        BY <2>1, <3>1, <3>3, <4>3, EntryRecorded
    <3> QED
      BY <3>1, <3>2, <3>3, FreshOrients
  <2>4. CASE SameRoomContinue /\ UNCHANGED <<room, heading, ghost>>
    <3>1. CASE /\ budget' = [budget EXCEPT !.chase = @ + 1]
               /\ Enter("advance_doorway")
               /\ UNCHANGED <<rooms, target, sweep>>
      <4>1. budget'.nudge = budget.nudge /\ budget'.nudging = budget.nudging
        BY <1>1, <3>1 DEF Budgets
      <4> QED
        BY <1>1, <1>3, <2>2, <2>4, <3>1, <4>1, PursuitOrients DEF Enter, Pursuing, ghost
    <3>2. CASE AdvanceAfterLabel(rooms, room, heading, sweep, [budget EXCEPT !.chase = 0])
      <4>1. /\ BudgetOK([budget EXCEPT !.chase = 0]) /\ [budget EXCEPT !.chase = 0] \in Budgets
            /\ ~[budget EXCEPT !.chase = 0].nudging
        BY <1>1, <2>1, LimitsAssumption DEF BudgetOK, Budgets
      <4>2. Chosen(room) /\ ~budget'.nudging
        BY <1>1, <2>2, <2>4, <3>2, <4>1, AdvanceChooses
      <4>3. rooms' \in RoomMaps /\ SameTree(rooms, rooms')
        BY <1>1, <3>2, <4>1, AdvanceHeadsOff
      <4>4. MaxNudges = 0 => facing' = heading' /\ EntriesKnown'
        BY <1>1, <2>1, <2>4, <4>3, EntriesKept DEF ghost
      <4> QED
        BY <2>4, <4>2, <4>4, ChosenOriented
    <3> QED
      BY <2>4, <3>1, <3>2 DEF SameRoomContinue
  <2> QED
    BY <2>3, <2>4 DEF RoomCheckAnswer
<1> QED
  BY <1>2, <1>3

\* The ceiling's answer: the label is asked for with the circle complete.
LEMMA CeilingAnswerOrients ==
    ASSUME Inductive, Oriented, alive, CeilingAnswer
    PROVE  Oriented'
<1>1. /\ phase = "await_ceiling" /\ phase' = "await_label" /\ delta' = 0 /\ state' = state
      /\ UNCHANGED <<heading, sweep, budget, target, room, rooms, facing, entry>>
  BY DEF CeilingAnswer, BeginAwaitLabel, Enter, Inductive, FlagsFollowPhase, mission, map, ghost
<1>2. /\ Still' /\ ~Pursuing' /\ ~Approaching' /\ ~Nudging' /\ ~Correcting' /\ ~Returning'
      /\ ~InSweep'
  BY <1>1 DEF Still, Pursuing, Approaching, Nudging, Correcting, Returning, InSweep
<1>3. CASE state = "exploring"
  <2>1. /\ Ahead = heading /\ Aimed /\ Swept
        /\ MaxNudges = 0 => facing = heading /\ EntriesKnown
    BY <1>1, <1>3, Standing
  <2>2. Aimed' /\ Swept'
    BY <1>1, <1>2, <2>1 DEF Aimed, Swept, Circled, Seen
  <2>3. MaxNudges = 0 => Reckoned'
    BY <1>1, <1>2, <2>1 DEF Reckoned, EntriesKnown
  <2> QED
    BY <1>2, <2>2, <2>3 DEF Oriented
<1> QED
  BY <1>1, <1>2, <1>3, OrientedSuspended

\* The label, or a skip, lets the robot choose.
LEMMA OnAdminTextOrients ==
    ASSUME Inductive, Oriented, Inductive', OnAdminText
    PROVE  Oriented'
<1>1. /\ state = "exploring" /\ phase = "await_label" /\ target \in Bearing /\ room \in Nat
      /\ UNCHANGED <<heading, room, facing, entry>>
      /\ rooms \in RoomMaps /\ room \in DOMAIN rooms /\ heading \in Bearing
      /\ budget \in Budgets /\ BudgetOK(budget) /\ SweepOK(sweep)
  BY DEF OnAdminText, Inductive, TypeOK, FlagsFollowPhase, WithinBudgets, MissionTree, BudgetOK,
         SweepOK, ghost
<1>2. ~budget.nudging /\ (MaxNudges = 0 => facing = heading /\ EntriesKnown)
  BY <1>1, Standing DEF Aimed
<1>3. AdvanceAfterLabel(rooms, room, heading, sweep, budget)
  BY DEF OnAdminText
<1>4. Chosen(room) /\ budget'.nudging = budget.nudging
  BY <1>1, <1>3, AdvanceChooses
<1>5. rooms' \in RoomMaps /\ SameTree(rooms, rooms')
  BY <1>1, <1>3, AdvanceHeadsOff
<1>6. MaxNudges = 0 => facing' = heading' /\ EntriesKnown'
  BY <1>1, <1>2, <1>5, EntriesKept
<1> QED
  BY <1>1, <1>2, <1>4, <1>6, ChosenOriented

\* start_explore: a fresh root, the only room of its mission.
LEMMA StartExploreOrients ==
    ASSUME Inductive, StartExplore
    PROVE  Oriented'
<1>1. /\ heading' = 0 /\ facing' = 0 /\ delta' = 0 /\ sweep'.done = 0
      /\ phase' = "await_vlm_step" /\ next' = "none"
      /\ rooms' = StartRoom(rooms, NoRoom, NoStep)
  BY DEF StartExplore, RequestVlmStep, Enter, NoRetry
<1>2. ~budget'.nudging
  BY DEF StartExplore, Inductive, TypeOK, Budgets
<1>3. EntriesKnown'
  <2>1. rooms \in RoomMaps /\ NoRoom \in Nat /\ Len(rooms) \in Nat
    BY DEF Inductive, TypeOK, RoomMaps, NoRoom
  <2>2. rooms' \in RoomMaps /\ Len(rooms') = Len(rooms) + 1 /\ rooms'[Len(rooms) + 1].via = NoStep
    BY <1>1, <2>1, StartRoomFacts
  <2>3. DOMAIN rooms' = 1..(Len(rooms) + 1)
    BY <2>2 DEF RoomMaps
  <2>4. \A r \in DOMAIN rooms' : InMission(rooms', r) => r = Len(rooms) + 1
    BY <2>1, <2>2, <2>3 DEF InMission
  <2> QED
    BY <2>2, <2>4 DEF EntriesKnown
<1> QED
  BY <1>1, <1>2, <1>3, FreshOrients

\* Everything else leaves the walk alone, or the exploration.
LEMMA OthersOrient ==
    ASSUME Oriented,
           \/ TickContinue \/ OtherTick \/ OnVlmExploreObservation \/ AnalysisAnswer
           \/ CeilingAnswerForGoneRoom \/ Stop \/ StartOtherMission \/ RequestAnalysis
           \/ ResetExploreMap
    PROVE  Oriented'
<1>1. CASE \/ TickContinue \/ OtherTick \/ OnVlmExploreObservation \/ AnalysisAnswer
           \/ CeilingAnswerForGoneRoom \/ StartOtherMission \/ RequestAnalysis
  BY <1>1, OrientedUntouched
     DEF TickContinue, OtherTick, OnVlmExploreObservation, AnalysisAnswer,
         CeilingAnswerForGoneRoom, StartOtherMission, RequestAnalysis, mission
<1>2. CASE Stop
  <2>1. state' # "exploring" /\ (delta' = 0 \/ UNCHANGED walk)
    BY <1>2 DEF Stop, StopExploring, StopPatrolling, Enter
  <2>2. Still'
    BY <2>1 DEF Oriented, Still, walk
  <2> QED
    BY <2>1, <2>2, OrientedSuspended
<1>3. CASE ResetExploreMap
  <2>1. state' # "exploring" /\ UNCHANGED walk
    BY <1>3 DEF ResetExploreMap, mission
  <2>2. Still'
    BY <2>1 DEF Oriented, Still, walk
  <2> QED
    BY <2>1, <2>2, OrientedSuspended
<1> QED
  BY <1>1, <1>2, <1>3

\* Every step of the node keeps the robot oriented.
LEMMA NextOriented ==
    ASSUME Inductive, Inductive', Oriented, [Next]_vars
    PROVE  Oriented'
<1>1. CASE Next
  <2>1. alive
    BY <1>1 DEF Next
  <2> QED
    BY <1>1, <2>1, RotationDoneOrients, SettleDoneOrients, VlmStepResultOrients, AdvanceOrients,
       BackupDoneOrients, BlindDriveDoneOrients, BacktrackDoneOrients, RoomCheckAnswerOrients,
       CeilingAnswerOrients, OnAdminTextOrients, StartExploreOrients, OthersOrient
       DEF Next, TickProgress, OnVlmObservation, OnMissionCommand
<1>2. CASE UNCHANGED vars
  BY <1>2, OrientedUntouched DEF vars, mission
<1> QED
  BY <1>1, <1>2

\* The robot is oriented in every state of every behaviour.
LEMMA AlwaysOriented == Spec => [](Inductive /\ Oriented)
<1>1. Init => Oriented
  BY DEF Init, Oriented, Still
<1>2. Inductive /\ Inductive' /\ Oriented /\ [Next]_vars => Oriented'
  BY NextOriented
<1> QED
  BY <1>1, <1>2, Invariance, PTL DEF Spec

\* While a doorway is pursued, through obstacles, overrides, nudges and verdicts, the believed
\* heading is the doorway's, give or take the nudges, and it is marked tried in this room.
THEOREM AimsRight == Spec => []AimsAtDoorway
<1>1. ASSUME Inductive, Oriented, Pursuing
      PROVE  /\ heading \in {(target + k * Nudge) % Total : k \in 0..MaxNudges}
             /\ target \in rooms[room].tried
  <2>1. state = "exploring" /\ phase # "rotating"
    BY <1>1 DEF Pursuing
  <2>2. Ahead = heading /\ Aim(budget.nudge) /\ target \in rooms[room].tried
    BY <1>1, <2>1, Standing DEF Aimed
  <2>3. budget.nudge \in Nat /\ budget.nudge <= MaxNudges
    BY <1>1 DEF Inductive, TypeOK, WithinBudgets, Budgets
  <2>4. PICK k \in 0..budget.nudge : heading = (target + k * Nudge) % Total
    BY <2>2 DEF Aim
  <2>5. k \in 0..MaxNudges
    BY <2>3, <2>4, LimitsAssumption
  <2> QED
    BY <2>2, <2>4, <2>5
<1>2. Inductive /\ Oriented => AimsAtDoorway
  BY <1>1 DEF AimsAtDoorway
<1> QED
  BY <1>2, AlwaysOriented, PTL

\* The ceiling question and the label prompt come after every heading of the circle was looked
\* at from this room, whatever stops, answers and timeouts there were on the way.
THEOREM CircleCovered == Spec => []SweepCoversCircle
<1>1. Inductive /\ Oriented => SweepCoversCircle
  BY DEF Oriented, Swept, Circled, Seen, SweepCoversCircle
<1> QED
  BY <1>1, AlwaysOriented, PTL

\* Without nudges the dead reckoning is exact over any number of rooms and backtracks.
THEOREM HeadingTrue == Spec => []TrueHeading
<1>1. Inductive /\ Oriented => TrueHeading
  BY DEF Oriented, Reckoned, Correcting, TrueHeading
<1> QED
  BY <1>1, AlwaysOriented, PTL

\* total_steps // 2 is half the circle, or half a heading short of it.
LEMMA HalfTurn == 2 * Half = IF Headings % 2 = 0 THEN Total ELSE Total - StepUnits
<1>1. Headings \in Nat /\ StepUnits \in Nat
  BY HeadingsAssumption, UnitsAssumption
<1>2. \A n, u \in Nat : 2 * (n * u) = (2 * n) * u /\ (n + 1) * u - u = n * u
  OBVIOUS
<1>3. Headings \div 2 \in Nat
  BY <1>1
<1>4. CASE Headings % 2 = 0
  <2>1. 2 * (Headings \div 2) = Headings
    BY <1>1, <1>4
  <2> QED
    BY <1>1, <1>2, <1>3, <1>4, <2>1 DEF Half, Total
<1>5. CASE Headings % 2 # 0
  <2>1. 2 * (Headings \div 2) \in Nat /\ Headings = 2 * (Headings \div 2) + 1
    BY <1>1, <1>5
  <2>2. 2 * Half = (2 * (Headings \div 2)) * StepUnits
    BY <1>1, <1>2, <1>3 DEF Half
  <2>3. Total - StepUnits = (2 * (Headings \div 2)) * StepUnits
    BY <1>1, <1>2, <2>1 DEF Total
  <2> QED
    BY <1>5, <2>2, <2>3
<1> QED
  BY <1>4, <1>5

\* Going back, the robot faces the opposite of the direction it really came in by, as near as
\* the headings allow (room_scan_begin_backtrack_or_finish).
THEOREM ReturnsTheWayItCame == Spec => []BacktrackReversesEntry
<1>1. ASSUME Inductive, Oriented, state = "exploring", MaxNudges = 0, phase = "backtrack_advance"
      PROVE  facing = Half /\ entry[room] = rooms[room].via
  <2>1. Ahead = heading /\ facing = heading /\ EntriesKnown
    BY <1>1, Standing
  <2>2. Ahead = Half
    BY <1>1 DEF Oriented, Reckoned, Returning
  <2>3. room \in DOMAIN rooms /\ InMission(rooms, room) /\ rooms[room].via # NoStep
    BY <1>1 DEF Inductive, MissionTree, Returning
  <2> QED
    BY <2>1, <2>2, <2>3 DEF EntriesKnown
<1>2. Inductive /\ Oriented => BacktrackReversesEntry
  BY <1>1, HalfTurn DEF BacktrackReversesEntry
<1> QED
  BY <1>2, AlwaysOriented, PTL

----------------------------------------------------------------------------

\* But for explore_start, a VLM is only ever asked out of the settling phase, with the robot
\* told to stand.
THEOREM AsksStanding == Spec => AsksOnlyAfterSettling
<1>1. ASSUME Next, phase' \in Asking, phase' # phase
      PROVE  StartExplore \/ (phase = "settling" /\ motion' = "stop")
  <2>1. ~TickContinue /\ ~OtherTick /\ ~OnVlmExploreObservation /\ ~Stop /\ ~StartOtherMission
          /\ ~RequestAnalysis /\ ~ResetExploreMap
    BY <1>1
       DEF Asking, TickContinue, OtherTick, OnVlmExploreObservation, Stop, StopExploring,
           StopPatrolling, Enter, StartOtherMission, RequestAnalysis, ResetExploreMap, walk
  <2>2. ~OnVlmObservation /\ ~OnAdminText
    BY <1>1
       DEF Asking, OnVlmObservation, RoomCheckAnswer, EnterNewRoom, SameRoomContinue, CeilingAnswer,
           CeilingAnswerForGoneRoom, AnalysisAnswer, OnAdminText, AdvanceAfterLabel,
           BeginBacktrackOrFinish, BeginAwaitLabel, BeginRotate, BeginSettle, Enter, walk
  <2>3. ~RotationDone
    BY <1>1
       DEF Asking, RotationDone, AdvanceAfterLabel, AfterBacktrackCorrect, BeginBacktrackOrFinish,
           BeginRotate, BeginSettle, Enter
  <2>4. ~VlmStepResult /\ ~ObstacleCheckResult /\ ~BackupDone
    BY <1>1
       DEF Asking, VlmStepResult, ObstacleCheckResult, BackupDone, AbortAdvance, AdvanceAfterLabel,
           BeginBacktrackOrFinish, BeginRotate, Enter
  <2>5. ~BlindDriveDone /\ ~AdvanceBlocked /\ ~AdvanceDone /\ ~BacktrackDone
    BY <1>1
       DEF Asking, BlindDriveDone, AdvanceBlocked, AdvanceDone, BacktrackDone, BeginObstacleCheck,
           AbortAdvance, AfterBacktrackCorrect, BeginBacktrackOrFinish, BeginRotate, BeginSettle,
           Enter
  <2>6. SettleDone => phase = "settling" /\ motion' = "stop"
    BY DEF SettleDone, Exploring
  <2> QED
    BY <1>1, <2>1, <2>2, <2>3, <2>4, <2>5, <2>6 DEF Next, TickProgress, OnMissionCommand
<1>2. [Next]_vars => [phase' \in Asking /\ phase' # phase =>
                        StartExplore \/ (phase = "settling" /\ motion' = "stop")]_vars
  BY <1>1 DEF vars, walk
<1> QED
  BY <1>2, PTL DEF Spec, AsksOnlyAfterSettling

----------------------------------------------------------------------------
(* What the map keeps.                                                     *)

\* Room n is room m later on: entered from the same room by the same doorway, nothing tried is
\* untried again, and what was seen first at a heading stays.
LaterRoom(m, n) ==
    /\ n.parent = m.parent /\ n.via = m.via
    /\ m.tried \subseteq n.tried
    /\ \A b \in Bearing : m.first[b] # "unseen" => n.first[b] = m.first[b]

LaterMap(m, n) ==
    /\ DOMAIN m \subseteq DOMAIN n
    /\ \A r \in DOMAIN m : LaterRoom(m[r], n[r])

LEMMA LaterTransitive ==
    ASSUME NEW m, NEW n, NEW o, LaterMap(m, n), LaterMap(n, o)
    PROVE  LaterMap(m, o)
  BY DEF LaterMap, LaterRoom

LEMMA LaterReflexive == \A m : LaterMap(m, m)
  BY DEF LaterMap, LaterRoom

\* Replacing a room by a later one.
LEMMA ReplaceLater ==
    ASSUME NEW m \in RoomMaps, NEW r \in DOMAIN m, NEW rm, LaterRoom(m[r], rm)
    PROVE  LaterMap(m, [m EXCEPT ![r] = rm])
  BY DEF LaterMap, LaterRoom, RoomMaps

LEMMA AddObservationLater ==
    ASSUME NEW m \in RoomMaps, NEW r \in DOMAIN m, NEW b \in Bearing, NEW c \in Category
    PROVE  LaterMap(m, AddObservation(m, r, b, c))
<1>1. m[r].first \in [Bearing -> Category \cup {"unseen"}]
  <2>1. m[r] \in Room
    BY DEF RoomMaps
  <2> QED
    BY <2>1 DEF Room
<1>2. LaterRoom(m[r], Observed(m[r], b, c))
  BY <1>1 DEF LaterRoom, Observed
<1> QED
  BY <1>2, ReplaceLater DEF AddObservation

LEMMA MarkTriedLater ==
    ASSUME NEW m \in RoomMaps, NEW r, NEW b
    PROVE  LaterMap(m, MarkTried(m, r, b))
<1>1. CASE r \in DOMAIN m
  <2>1. LaterRoom(m[r], Tried(m[r], b))
    BY DEF LaterRoom, Tried
  <2> QED
    BY <1>1, <2>1, ReplaceLater DEF MarkTried
<1>2. CASE r \notin DOMAIN m
  BY <1>2, LaterReflexive DEF MarkTried
<1> QED
  BY <1>1, <1>2

LEMMA StartRoomLater ==
    ASSUME NEW m \in RoomMaps, NEW p \in Nat, NEW via \in Bearing \cup {NoStep}
    PROVE  LaterMap(m, StartRoom(m, p, via))
<1>1. /\ StartRoom(m, p, via) \in RoomMaps
      /\ Len(StartRoom(m, p, via)) = Len(m) + 1
      /\ \A r \in DOMAIN m : StartRoom(m, p, via)[r] = m[r]
  BY StartRoomFacts
<1>2. DOMAIN m \subseteq DOMAIN StartRoom(m, p, via)
  BY <1>1 DEF RoomMaps
<1> QED
  BY <1>1, <1>2 DEF LaterMap, LaterRoom

\* Choosing where to go next only marks a doorway.
LEMMA ChoiceLater ==
    ASSUME NEW m \in RoomMaps, NEW r, NEW h, NEW s, NEW b,
           AdvanceAfterLabel(m, r, h, s, b) \/ (AfterBacktrackCorrect(r) /\ m = rooms)
    PROVE  LaterMap(m, rooms')
<1>1. rooms' = m \/ \E door : rooms' = MarkTried(m, r, door)
  BY DEF AdvanceAfterLabel, AfterBacktrackCorrect
<1> QED
  BY <1>1, MarkTriedLater, LaterReflexive

\* Nothing but the reset takes a room, a tried mark or a first impression back: not a retry
\* sweep that sees something else, not a second answer, not a return, not a new mission.
THEOREM MapOnlyGrows == Spec => [][LaterMap(rooms, rooms') \/ ResetExploreMap]_vars
<1>1. ASSUME Inductive, Next
      PROVE  LaterMap(rooms, rooms') \/ ResetExploreMap
  <2>1. /\ rooms \in RoomMaps /\ room \in Nat /\ target \in Bearing /\ heading \in Bearing
        /\ NoRoom \in Nat
    BY <1>1 DEF Inductive, TypeOK, NoRoom
  <2>2. CASE UNCHANGED rooms
    BY <2>2, LaterReflexive
  <2>3. CASE RotationDone \/ BacktrackDone
    BY <2>1, <2>2, <2>3, ChoiceLater DEF RotationDone, BacktrackDone
  <2>4. CASE OnAdminText
    BY <2>1, <2>4, ChoiceLater DEF OnAdminText
  <2>5. CASE StartExplore
    BY <2>1, <2>5, StartRoomLater DEF StartExplore
  <2>6. CASE RoomCheckAnswer
    BY <2>1, <2>2, <2>6, ChoiceLater, StartRoomLater
       DEF RoomCheckAnswer, EnterNewRoom, SameRoomContinue
  <2>7. CASE VlmStepResult
    <3>1. PICK category \in StepCategory(ReadyText) :
            LET m == AddObservation(rooms, room, heading, category)
                s == [sweep EXCEPT !.done = @ + 1]
            IN rooms' = m \/ AdvanceAfterLabel(m, room, heading, s, budget)
      BY <2>7 DEF VlmStepResult
    <3> DEFINE m == AddObservation(rooms, room, heading, category)
    <3>2. category \in Category /\ room \in DOMAIN rooms
      BY <1>1, <2>7
         DEF StepCategory, Category, Openings, VlmStepResult, Exploring, Inductive, MissionTree
    <3>3. m \in RoomMaps /\ LaterMap(rooms, m)
      BY <2>1, <3>2, AddObservationFacts, AddObservationLater
    <3> HIDE DEF m
    <3>4. rooms' = m \/ LaterMap(m, rooms')
      BY <3>1, <3>3, ChoiceLater DEF m
    <3> QED
      BY <3>3, <3>4, LaterTransitive
  <2>8. CASE \/ TickContinue \/ SettleDone \/ ObstacleCheckResult \/ BackupDone \/ BlindDriveDone
             \/ AdvanceBlocked \/ AdvanceDone
    <3>1. UNCHANGED rooms
      BY <2>8
         DEF TickContinue, SettleDone, ObstacleCheckResult, BackupDone, BlindDriveDone,
             AdvanceBlocked, AdvanceDone, map
    <3> QED
      BY <2>2, <3>1
  <2>9. CASE \/ OtherTick \/ OnVlmExploreObservation \/ CeilingAnswer \/ CeilingAnswerForGoneRoom
             \/ AnalysisAnswer \/ Stop \/ StartOtherMission \/ RequestAnalysis
    <3>1. UNCHANGED rooms
      BY <2>9
         DEF OtherTick, OnVlmExploreObservation, CeilingAnswer, CeilingAnswerForGoneRoom,
             AnalysisAnswer, Stop, StartOtherMission, RequestAnalysis, map
    <3> QED
      BY <2>2, <3>1
  <2> QED
    BY <1>1, <2>3, <2>4, <2>5, <2>6, <2>7, <2>8, <2>9
       DEF Next, TickProgress, OnVlmObservation, OnMissionCommand
<1>2. Inductive /\ [Next]_vars => [LaterMap(rooms, rooms') \/ ResetExploreMap]_vars
  BY <1>1
<1> QED
  BY <1>2, Invariance, PTL DEF Spec

=============================================================================
