----------------------------- MODULE KeptFiles -----------------------------
(***************************************************************************)
(* What patrol_node keeps across restarts: explore_graph's rooms and       *)
(* locations' labels, a JSON file each.  Every change of the memory is     *)
(* followed by a save() that empties the file and writes all of it again.  *)
(* The node may be killed in between: then the file is cut short, between  *)
(* two characters or within one, since the texts in it are not ASCII.      *)
(*                                                                         *)
(* What write_text has closed is taken as kept.  Contents are sequences;   *)
(* a missing file reads as an empty one.                                   *)
(***************************************************************************)
LOCAL INSTANCE Sequences

Files == {"rooms", "locations"}
NoFile == "none"
Nothing == <<>>

VARIABLES
    node,       \* "up", "down", or "stuck": it ends every time it is started
    memory,     \* RoomGraph.rooms, LocationStore.locations
    file,       \* what was last written completely
    damage,     \* "none", "cut" between characters, "mangled" within one
    writing     \* the file that save() is writing

kept == <<node, memory, file, damage, writing>>

KeptInit ==
    /\ node = "up" /\ writing = NoFile
    /\ memory = [f \in Files |-> Nothing] /\ file = memory
    /\ damage = [f \in Files |-> "none"]

AtRest == node = "up" /\ writing = NoFile

MutChange(f, content) ==
    /\ AtRest
    /\ memory' = [memory EXCEPT ![f] = content]
    /\ UNCHANGED <<node, file, damage, writing>>

\* Every setter of RoomGraph and LocationStore, to where save() has emptied the file.
Change(f, content) ==
    /\ AtRest
    /\ memory' = [memory EXCEPT ![f] = content]
    /\ damage' = [damage EXCEPT ![f] = "cut"]
    /\ writing' = f
    /\ UNCHANGED <<node, file>>

Save ==
    /\ node = "up" /\ writing # NoFile
    /\ file' = [file EXCEPT ![writing] = memory[writing]]
    /\ damage' = [damage EXCEPT ![writing] = "none"]
    /\ writing' = NoFile
    /\ UNCHANGED <<node, memory>>

\* Killed, without power, or ended by the OSError of a full disk.
Ends ==
    /\ node = "up"
    /\ node' = "down" /\ writing' = NoFile
    /\ \/ writing = NoFile /\ UNCHANGED damage
       \/ writing # NoFile /\ damage' = [damage EXCEPT ![writing] = "mangled"]
       \/ writing # NoFile /\ UNCHANGED damage
    /\ UNCHANGED <<memory, file>>

\* load() takes a file that is no JSON for an empty one; what is no UTF-8 it does not catch.
Loaded(f) == IF damage[f] = "none" THEN file[f] ELSE Nothing
Readable == \A f \in Files : damage[f] # "mangled"

\* __init__ loads both, whatever became of the last node.
Starts ==
    /\ node # "up"
    /\ node' = IF Readable THEN "up" ELSE "stuck"
    /\ memory' = IF Readable THEN [f \in Files |-> Loaded(f)] ELSE memory
    /\ UNCHANGED <<file, damage, writing>>
=============================================================================
