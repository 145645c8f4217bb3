----------------------------- MODULE VlmClient -----------------------------
(***************************************************************************)
(* vlm_client_node: at most one request to the VLM at a time, each in a    *)
(* thread of its own, started by a camera frame when the minimum interval  *)
(* has passed or a trigger asks for one.  The callbacks run on one         *)
(* executor; the thread runs beside them and ends with `inflight = False`, *)
(* a step later than it publishes.                                         *)
(*                                                                         *)
(* Two instances run: one scans on its own every few seconds, the other    *)
(* has an interval so long that only triggers start it.  The interval is   *)
(* counted from 0 on the clock of the machine, so that a node started long *)
(* after the machine is due at its first frame.                            *)
(*                                                                         *)
(* A topic is a queue that loses its oldest message when it is full.       *)
(***************************************************************************)
EXTENDS Naturals, SequencesExt

CONSTANTS
    MaxQuestions,   \* bound: questions asked
    Depth,          \* the depth of a topic's queue (10 in the code)
    Ambient         \* whether min_interval_seconds ever passes between two requests

ASSUME QuestionsAssumption == MaxQuestions \in Nat
ASSUME DepthAssumption == Depth \in Nat \ {0}
ASSUME AmbientAssumption == Ambient \in BOOLEAN

NoQuestion == 0
Questions == 1..MaxQuestions

VARIABLES
    triggers,       \* the trigger topic, as the node has yet to read it
    triggered,      \* self.triggered
    pending,        \* self.pending_question
    due,            \* min_interval_seconds have passed since last_request_at
    inflight,       \* self.inflight
    requests,       \* the threads, and the question each puts to the VLM
    observations,   \* the observation topic, as the patrol node has yet to read it
    put             \* ghost: the questions put to the VLM so far

client == <<triggers, triggered, pending, due, inflight, requests, observations, put>>

Request == [question : Questions \cup {NoQuestion}, done : BOOLEAN]

ClientTypeOK ==
    /\ triggers \in Seq(Questions) /\ Len(triggers) <= Depth
    /\ {triggered, due, inflight} \subseteq BOOLEAN
    /\ pending \in Questions \cup {NoQuestion}
    /\ requests \in Seq(Request)
    /\ observations \in Seq(Questions \cup {NoQuestion}) /\ Len(observations) <= Depth
    /\ put \subseteq Questions

ClientInit ==
    /\ triggers = <<>> /\ observations = <<>>
    /\ triggered = FALSE /\ pending = NoQuestion
    /\ due \in BOOLEAN
    /\ inflight = FALSE /\ requests = <<>>
    /\ put = {}

\* Reliable, keep last: a full queue makes room for the newest.
Deliver(queue, message) ==
    Append(IF Len(queue) < Depth THEN queue ELSE Tail(queue), message)

OnTrigger ==
    /\ triggers # <<>>
    /\ triggers' = Tail(triggers)
    /\ triggered' = TRUE
    /\ pending' = Head(triggers)
    /\ UNCHANGED <<due, inflight, requests, observations, put>>

\* Starts the thread that analyzes the frame, with the question that is waiting, if any.
Analyze ==
    /\ due' = FALSE
    /\ inflight' = TRUE
    /\ requests' = Append(requests, [question |-> pending, done |-> FALSE])
    /\ put' = put \cup ({pending} \ {NoQuestion})
    /\ UNCHANGED <<triggers, observations>>

MutOnImageBusy ==
    /\ due \/ triggered
    /\ triggered' = FALSE /\ pending' = NoQuestion
    /\ Analyze

MutOnImageKeepsQuestion ==
    /\ ~inflight
    /\ due \/ triggered
    /\ triggered' = FALSE /\ UNCHANGED pending
    /\ Analyze

MutOnImageDropsTrigger ==
    /\ due \/ triggered
    /\ triggered' = FALSE /\ pending' = NoQuestion
    /\ IF inflight THEN UNCHANGED <<triggers, due, inflight, requests, observations, put>>
                   ELSE Analyze

OnImage ==
    /\ ~inflight
    /\ due \/ triggered
    /\ triggered' = FALSE /\ pending' = NoQuestion
    /\ Analyze

\* analyze_image, up to its finally: an answer is published, a failure is only an event.
Answer(i) ==
    /\ ~requests[i].done
    /\ requests' = [requests EXCEPT ![i].done = TRUE]
    /\ \/ observations' = Deliver(observations, requests[i].question)
       \/ UNCHANGED observations
    /\ UNCHANGED <<triggers, triggered, pending, due, inflight, put>>

Finally(i) ==
    /\ requests[i].done
    /\ requests' = RemoveAt(requests, i)
    /\ inflight' = FALSE
    /\ UNCHANGED <<triggers, triggered, pending, due, observations, put>>

AnalyzeImage == \E i \in DOMAIN requests : Answer(i) \/ Finally(i)

Rest ==
    /\ Ambient /\ ~due
    /\ due' = TRUE
    /\ UNCHANGED <<triggers, triggered, pending, inflight, requests, observations, put>>

ClientNext == OnTrigger \/ OnImage \/ AnalyzeImage \/ Rest

\* One request at a time, and `inflight` says so, although a thread clears what the executor
\* tests (on_image, analyze_image).
OneRequest == Len(requests) <= 1 /\ (inflight <=> requests # <<>>)
=============================================================================
