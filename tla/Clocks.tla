------------------------------- MODULE Clocks -------------------------------
(***************************************************************************)
(* Timestamps of the nodes as ages, in periods of drive_loop's timer: the  *)
(* age of what was never stamped is Never, and an age stops counting where *)
(* nothing tells it apart from older ones any more.                        *)
(***************************************************************************)
LOCAL INSTANCE Integers

Never == -1
Older(age, most) == IF age \in 0..(most - 1) THEN age + 1 ELSE age
Ages(most) == -1..most
=============================================================================
