------------------------------ MODULE RoomMap ------------------------------
(***************************************************************************)
(* The topological map of the room-scan explorer (explore_graph.RoomGraph) *)
(* as the patrol node can read it back.  The code keeps a list of          *)
(* observations per room; of that list the explorer only ever reads, per   *)
(* heading, the category of the first entry (room_scan_observation_category*)
(* stops at the first match) and the untried movable entries               *)
(* (untried_movable).  A room therefore keeps, per bearing, `first`, `open`*)
(* and whether an entry there is marked tried.  Descriptions, labels and   *)
(* ceiling texts never feed back into control and are left out.            *)
(*                                                                         *)
(* Room ids are "1", "2", ... and only reset() removes rooms, all at once  *)
(* and with the id counter, so a map is the sequence of its rooms.         *)
(***************************************************************************)
EXTENDS Integers, Sequences

CONSTANT Bearings    \* the heading values a sweep can record

NoStep == -1         \* entered_via_step = None
NoRoom == 0          \* parent_room_id = None

Openings == {"door", "floor"}
Category == Openings \cup {"none"}

Room == [parent : Nat, via : Bearings \cup {NoStep},
         first : [Bearings -> Category \cup {"unseen"}],
         open : [Bearings -> SUBSET Openings],
         tried : SUBSET Bearings]

RoomMaps == Seq(Room)

BlankRoom(parent, via) ==
    [parent |-> parent, via |-> via,
     first |-> [b \in Bearings |-> "unseen"],
     open |-> [b \in Bearings |-> {}],
     tried |-> {}]

\* rooms.get(room_id, {}): a room that is not there reads as an empty one.
RoomAt(m, r) == IF r \in DOMAIN m THEN m[r] ELSE BlankRoom(NoRoom, NoStep)

StartRoom(m, parent, via) == Append(m, BlankRoom(parent, via))

\* The category decides `movable`: the caller passes can_go = (category # "none").
Observed(rm, b, category) ==
    [parent |-> rm.parent, via |-> rm.via, tried |-> rm.tried,
     first |-> IF rm.first[b] = "unseen" THEN [rm.first EXCEPT ![b] = category] ELSE rm.first,
     open |-> [rm.open EXCEPT ![b] = @ \cup ({category} \cap Openings)]]

AddObservation(m, r, b, category) == [m EXCEPT ![r] = Observed(@, b, category)]

Tried(rm, b) ==
    [parent |-> rm.parent, via |-> rm.via, tried |-> rm.tried \cup {b},
     first |-> rm.first, open |-> [rm.open EXCEPT ![b] = {}]]

MarkTried(m, r, b) == IF r \in DOMAIN m THEN [m EXCEPT ![r] = Tried(@, b)] ELSE m

UntriedMovable(m, r) == {b \in Bearings : RoomAt(m, r).open[b] # {}}

UntriedDoors(m, r) == {b \in Bearings : "door" \in RoomAt(m, r).open[b]}

\* A mutant: floors are never gone to.
MutDoorwaysOnlyDoors(m, r) == UntriedDoors(m, r)

\* room_scan_pick_doorway: doors whenever there is one.  Among equals the score mixes the
\* ceiling hint with the measured distance, which can favour any of them.
Doorways(m, r) ==
    IF UntriedDoors(m, r) # {} THEN UntriedDoors(m, r) ELSE UntriedMovable(m, r)

\* room_scan_observation_category: the first observation at that step, "floor" if none.
CategoryOf(m, r, b) ==
    LET c == RoomAt(m, r).first[b] IN IF c = "unseen" THEN "floor" ELSE c

\* The rooms added since the last root: the root itself or after it.
InMission(m, r) == \A q \in DOMAIN m : m[q].via = NoStep => q <= r

\* Each of them but the root was entered from an earlier one of them.
WellParented(m) ==
    \A r \in DOMAIN m : InMission(m, r) /\ m[r].via # NoStep =>
        m[r].parent \in 1..(r - 1) /\ InMission(m, m[r].parent)
=============================================================================
