------------------------------ MODULE VlmLink ------------------------------
(***************************************************************************)
(* The explorer of patrol_node and the VLM instance it asks at every       *)
(* heading.  The explorer waits for an answer for 15 s and then goes on;   *)
(* the instance gives the VLM 35 s.  An observation does not say which     *)
(* question it answers: whatever arrives is the answer to the question the *)
(* explorer is waiting for.                                                *)
(***************************************************************************)
EXTENDS VlmClient

VARIABLES
    asked,          \* questions asked so far
    waiting,        \* room_phase is await_vlm_step or await_obstacle_check
    ready,          \* room_scan_vlm_text, by the question it answers, once room_scan_vlm_ready
    taken           \* ghost: per question, the question whose answer was taken for its own

asker == <<asked, waiting, ready, taken>>
vars == <<client, asker>>

Nothing == MaxQuestions + 1     \* no answer is there
TimedOut == MaxQuestions + 2    \* the timeout stood in for it

TypeOK ==
    /\ ClientTypeOK
    /\ asked \in 0..MaxQuestions
    /\ waiting \in BOOLEAN
    /\ ready \in Questions \cup {NoQuestion, Nothing}
    /\ taken \in [Questions -> Questions \cup {NoQuestion, Nothing, TimedOut}]

Init ==
    /\ ClientInit
    /\ asked = 0 /\ waiting = FALSE /\ ready = Nothing
    /\ taken = [q \in Questions |-> Nothing]

MutAskKeepsAnswer ==
    /\ ~waiting /\ asked < MaxQuestions
    /\ asked' = asked + 1 /\ waiting' = TRUE
    /\ triggers' = Deliver(triggers, asked + 1)
    /\ UNCHANGED <<triggered, pending, due, inflight, requests, observations, put, ready, taken>>

\* room_scan_request_vlm_step, room_scan_request_obstacle_check
Ask ==
    /\ ~waiting /\ asked < MaxQuestions
    /\ asked' = asked + 1 /\ waiting' = TRUE
    /\ ready' = Nothing
    /\ triggers' = Deliver(triggers, asked + 1)
    /\ UNCHANGED <<triggered, pending, due, inflight, requests, observations, put, taken>>

\* on_vlm_explore_observation
OnVlmExploreObservation ==
    /\ observations # <<>>
    /\ observations' = Tail(observations)
    /\ ready' = Head(observations)
    /\ UNCHANGED <<triggers, triggered, pending, due, inflight, requests, put,
                   asked, waiting, taken>>

\* tick_room_scan: an answer is there, or explore_room_scan_vlm_timeout_seconds are over.
Conclude ==
    /\ waiting
    /\ waiting' = FALSE
    /\ taken' = [taken EXCEPT ![asked] = IF ready = Nothing THEN TimedOut ELSE ready]
    /\ UNCHANGED <<client, asked, ready>>

Next ==
    \/ ClientNext /\ UNCHANGED asker
    \/ Ask \/ OnVlmExploreObservation \/ Conclude

Spec == Init /\ [][Next]_vars

\* Frames keep coming and callbacks run; a request ends, answered or not, within its timeout.
Fairness ==
    /\ WF_vars(OnTrigger /\ UNCHANGED asker)
    /\ WF_vars(OnImage /\ UNCHANGED asker)
    /\ WF_vars(AnalyzeImage /\ UNCHANGED asker)

FairSpec == Spec /\ Fairness

\* A question is put to the VLM once, and none overtakes another: neither a scan of the client's
\* own nor a later trigger repeats it (pending_question is taken with the frame).
PutOnceInOrder == [][OnImage /\ pending # NoQuestion => \A q \in put : q < pending]_vars

\* No answer serves for two questions (the request clears what came late).
AnswerServesOnce ==
    \A p, q \in Questions : taken[p] = taken[q] /\ taken[p] \in Questions => p = q

\* A question that reached the client is put to the VLM, unless a later one takes its place
\* first: a trigger during a request is kept for the frame after it.
QuestionServed == \A q \in Questions : pending = q ~> q \in put \/ pending > q

----------------------------------------------------------------------------
(* What comments of the code say and the code does not do.                 *)

\* What is recorded at a heading is what the VLM was asked at that heading, not at an earlier one.
AnswersItsQuestion == \A q \in Questions : taken[q] \in Questions => taken[q] = q
=============================================================================
