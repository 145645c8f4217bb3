--------------------------- MODULE LocationStore ---------------------------
(***************************************************************************)
(* locations.py: what a robot was taught under a name.  A location has the *)
(* moves that lead to it (none when it was only named), the visual         *)
(* features of the spot, and its pose; of the latter two only whether they *)
(* are there matters.  The JSON file follows every change and is left out. *)
(***************************************************************************)
EXTENDS Sequences

CONSTANTS
    Labels,     \* the names admins give
    Moves       \* the kinds of recorded steps

Location == [steps : Seq(Moves), features : BOOLEAN, pose : BOOLEAN]
Unknown == [steps |-> <<>>, features |-> FALSE, pose |-> FALSE]

IsStore(locations) ==
    DOMAIN locations \subseteq Labels /\ \A label \in DOMAIN locations : locations[label] \in Location
NoLocations == [label \in {} |-> Unknown]

Has(locations, label) == label \in DOMAIN locations
Get(locations, label) == IF Has(locations, label) THEN locations[label] ELSE Unknown

Put(locations, label, location) ==
    [l \in DOMAIN locations \cup {label} |-> IF l = label THEN location ELSE locations[l]]

Set(locations, label, steps) ==
    Put(locations, label, [Get(locations, label) EXCEPT !.steps = steps])

SetFeatures(locations, label) ==
    Put(locations, label, [Get(locations, label) EXCEPT !.features = TRUE])

SetPose(locations, label) ==
    Put(locations, label, [Get(locations, label) EXCEPT !.pose = TRUE])

Delete(locations, label) == [l \in DOMAIN locations \ {label} |-> locations[l]]
=============================================================================
