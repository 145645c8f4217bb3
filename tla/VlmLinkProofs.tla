--------------------------- MODULE VlmLinkProofs ---------------------------
(***************************************************************************)
(* The VLM client never has two requests under way, although a thread      *)
(* clears the flag by which the executor decides to start the next one;    *)
(* no question is put to the VLM twice, and no answer serves twice.        *)
(***************************************************************************)
EXTENDS VlmLink, SequenceTheorems, TLAPS

\* The requests under way, at most one, and the flag that says so.
RequestTypes == requests \in Seq(Request) /\ inflight \in BOOLEAN

Single == RequestTypes /\ OneRequest

LEMMA Untouched == ASSUME Single, UNCHANGED <<requests, inflight>> PROVE Single'
  BY DEF Single, RequestTypes, OneRequest

\* A frame starts a request only where there is none.
LEMMA FrameStartsOne ==
    ASSUME Single, pending \in Questions \cup {NoQuestion}, OnImage
    PROVE  Single'
<1>1. requests = <<>>
  BY DEF OnImage, Single, OneRequest
<1>2. requests' = Append(<<>>, [question |-> pending, done |-> FALSE]) /\ inflight' = TRUE
  BY <1>1 DEF OnImage, Analyze
<1>3. [question |-> pending, done |-> FALSE] \in Request
  BY DEF Request
<1> QED
  BY <1>2, <1>3 DEF Single, RequestTypes, OneRequest

\* An answer marks the request; it is still under way.
LEMMA AnswerKeepsOne == ASSUME Single, NEW i \in DOMAIN requests, Answer(i) PROVE Single'
<1>1. requests' = [requests EXCEPT ![i].done = TRUE] /\ inflight' = inflight
  BY DEF Answer
<1>2. requests' \in Seq(Request) /\ Len(requests') = Len(requests) /\ requests' # <<>>
  <2>1. requests \in Seq(Request) /\ DOMAIN requests = 1..Len(requests)
    BY LenProperties DEF Single, RequestTypes
  <2>2. requests[i] \in Request
    BY <2>1, ElementOfSeq
  <2>3. [requests[i] EXCEPT !.done = TRUE] \in Request
    BY <2>2 DEF Request
  <2>4. requests' = [requests EXCEPT ![i] = [requests[i] EXCEPT !.done = TRUE]]
    BY <1>1
  <2>5. requests' \in Seq(Request) /\ Len(requests') = Len(requests)
    BY <2>1, <2>3, <2>4, ExceptSeq
  <2>6. Len(requests) # 0
    BY <2>1
  <2> QED
    BY <2>5, <2>6, EmptySeq
<1>3. inflight = TRUE /\ Len(requests) <= 1
  <2>1. requests # <<>>
    OBVIOUS
  <2> QED
    BY <2>1 DEF Single, RequestTypes, OneRequest
<1> QED
  BY <1>1, <1>2, <1>3 DEF Single, RequestTypes, OneRequest

LEMMA ThreadAlone ==
    ASSUME Single, NEW i \in DOMAIN requests
    PROVE  requests \in Seq(Request) /\ Len(requests) = 1 /\ i = 1
<1>1. requests \in Seq(Request) /\ Len(requests) <= 1
  BY DEF Single, RequestTypes, OneRequest
<1>2. Len(requests) \in Nat /\ i \in 1..Len(requests)
  BY <1>1, LenProperties
<1>3. \A n \in Nat : n <= 1 /\ i \in 1..n => n = 1 /\ i = 1
  OBVIOUS
<1> QED
  BY <1>1, <1>2, <1>3, Zenon

LEMMA ThreadGone == ASSUME Single, NEW i \in DOMAIN requests, Finally(i) PROVE requests' = <<>>
<1>1. requests' = SubSeq(requests, 1, i - 1) \o SubSeq(requests, i + 1, Len(requests))
  BY DEF Finally, RemoveAt
<1>2. SubSeq(requests, 1, i - 1) = <<>> /\ SubSeq(requests, i + 1, Len(requests)) = <<>>
  <2>1. i = 1 /\ Len(requests) = 1
    BY ThreadAlone
  <2> QED
    BY <2>1, SubSeqEmpty
<1> QED
  BY <1>1, <1>2, ConcatEmptySeq, EmptySeq

\* The thread that ends is the only one, so the flag it clears is its own.
LEMMA LastThreadEnds == ASSUME Single, NEW i \in DOMAIN requests, Finally(i) PROVE Single'
<1>1. requests' = <<>> /\ inflight' = FALSE
  BY ThreadGone DEF Finally
<1>2. requests' \in Seq(Request) /\ Len(requests') = 0
  BY <1>1, EmptySeq, Zenon
<1>3. Len(requests') <= 1
  BY <1>2
<1> QED
  BY <1>1, <1>2, <1>3, Zenon DEF Single, RequestTypes, OneRequest

\* The question that waits is one that was asked.
Pending == pending \in Questions \cup {NoQuestion} /\ triggers \in Seq(Questions)
           /\ asked \in 0..MaxQuestions

LEMMA StepKeepsPending == ASSUME Pending, [Next]_vars PROVE Pending'
<1>0. /\ MaxQuestions \in Nat /\ Depth \in Nat \ {0}
      /\ pending \in Questions \cup {NoQuestion} /\ triggers \in Seq(Questions)
      /\ asked \in 0..MaxQuestions
  BY QuestionsAssumption, DepthAssumption DEF Pending
<1>1. CASE OnTrigger /\ UNCHANGED asker
  <2>1. triggers # <<>> /\ triggers' = Tail(triggers) /\ pending' = Head(triggers)
    BY <1>1 DEF OnTrigger
  <2>2. triggers' \in Seq(Questions) /\ pending' \in Questions
    BY <1>0, <2>1
  <2> QED
    BY <1>0, <1>1, <2>2 DEF Pending, asker
<1>2. CASE OnImage /\ UNCHANGED asker
  BY <1>0, <1>2 DEF Pending, asker, OnImage, Analyze
<1>3. CASE (AnalyzeImage \/ Rest) /\ UNCHANGED asker
  BY <1>0, <1>3 DEF Pending, asker, AnalyzeImage, Answer, Finally, Rest
<1>4. CASE Ask
  <2>1. asked' = asked + 1 /\ asked' \in Questions /\ pending' = pending
    BY <1>0, <1>4 DEF Ask, Questions
  <2>2. triggers' = Append(IF Len(triggers) < Depth THEN triggers ELSE Tail(triggers), asked')
    BY <1>4, <2>1 DEF Ask, Deliver
  <2>3. Len(triggers) < Depth \/ triggers # <<>>
    BY <1>0
  <2>4. (IF Len(triggers) < Depth THEN triggers ELSE Tail(triggers)) \in Seq(Questions)
    BY <1>0, <2>3
  <2>5. triggers' \in Seq(Questions)
    BY <2>1, <2>2, <2>4
  <2> QED
    BY <1>0, <2>1, <2>5 DEF Pending, Questions
<1>5. CASE OnVlmExploreObservation \/ Conclude \/ UNCHANGED vars
  BY <1>0, <1>5 DEF Pending, OnVlmExploreObservation, Conclude, vars, client, asker
<1> QED
  BY <1>1, <1>2, <1>3, <1>4, <1>5 DEF Next, ClientNext

LEMMA StepKeepsSingle == ASSUME Single, Pending, [Next]_vars PROVE Single'
<1>1. CASE OnImage
  BY <1>1, FrameStartsOne DEF Pending
<1>2. CASE AnalyzeImage
  BY <1>2, AnswerKeepsOne, LastThreadEnds DEF AnalyzeImage
<1>3. CASE OnTrigger \/ Rest \/ Ask \/ OnVlmExploreObservation \/ Conclude \/ UNCHANGED vars
  BY <1>3, Untouched
     DEF OnTrigger, Rest, Ask, OnVlmExploreObservation, Conclude, vars, client
<1> QED
  BY <1>1, <1>2, <1>3 DEF Next, ClientNext

LEMMA AlwaysSingle == Spec => [](Single /\ Pending)
<1>1. Init => Single /\ Pending
  <2>1. Len(<<>>) = 0 /\ <<>> \in Seq(Request) /\ <<>> \in Seq(Questions)
    BY EmptySeq
  <2>2. 0 <= 1 /\ 0 \in 0..MaxQuestions
    BY QuestionsAssumption
  <2>3. ASSUME Init PROVE Len(requests) <= 1 /\ asked \in 0..MaxQuestions
    <3>1. Len(requests) = 0 /\ asked = 0
      BY <2>1, <2>3, Zenon DEF Init, ClientInit
    <3> QED
      BY <2>2, <3>1
  <2> QED
    BY <2>1, <2>3, Zenon DEF Init, ClientInit, Single, RequestTypes, OneRequest, Pending
<1>2. Single /\ Pending /\ [Next]_vars => (Single /\ Pending)'
  BY StepKeepsSingle, StepKeepsPending
<1> QED
  BY <1>1, <1>2, PTL DEF Spec

\* One request at a time, for every number of questions and every depth of the queues, and
\* although callbacks and threads interleave freely (on_image, analyze_image).
THEOREM OneAtATime == Spec => []OneRequest
<1>1. Single => OneRequest
  BY DEF Single
<1> QED
  BY <1>1, AlwaysSingle, PTL


(***************************************************************************)
(* Queues and types.                                                       *)
(***************************************************************************)

\* What a full queue loses comes first: the others move up, and the message is the last.
Shifted(queue, message, longer) ==
    /\ Len(longer) \in Nat \ {0} /\ DOMAIN longer = 1..Len(longer)
    /\ longer[Len(longer)] = message
    /\ \E lost \in {0, 1} : \A i \in 1..(Len(longer) - 1) :
         i + lost \in DOMAIN queue /\ longer[i] = queue[i + lost]

LEMMA Delivered ==
    ASSUME NEW S, NEW queue \in Seq(S), Len(queue) <= Depth, NEW message \in S
    PROVE  /\ Deliver(queue, message) \in Seq(S)
           /\ Len(Deliver(queue, message)) <= Depth
           /\ Shifted(queue, message, Deliver(queue, message))
<1> DEFINE kept == IF Len(queue) < Depth THEN queue ELSE Tail(queue)
           lost == IF Len(queue) < Depth THEN 0 ELSE 1
<1>1. Depth \in Nat \ {0} /\ Len(queue) \in Nat
  BY DepthAssumption, LenProperties
<1>2. ~(Len(queue) < Depth) => queue # <<>> /\ Len(queue) = Depth
  BY <1>1, EmptySeq
<1>3. /\ kept \in Seq(S) /\ Len(kept) = Len(queue) - lost /\ Len(kept) < Depth
      /\ \A i \in 1..Len(kept) : kept[i] = queue[i + lost]
  BY <1>1, <1>2, HeadTailProperties
<1>4. /\ Append(kept, message) \in Seq(S) /\ Len(Append(kept, message)) = Len(kept) + 1
      /\ \A i \in 1..Len(kept) : Append(kept, message)[i] = kept[i]
      /\ Append(kept, message)[Len(kept) + 1] = message
  BY <1>3, AppendProperties
<1>5. Deliver(queue, message) = Append(kept, message)
  BY DEF Deliver
<1>6. /\ lost \in {0, 1} /\ Len(kept) \in Nat
      /\ \A i \in 1..Len(kept) : i + lost \in DOMAIN queue
  BY <1>3, LenProperties
<1>7. DOMAIN Append(kept, message) = 1..(Len(kept) + 1)
  BY <1>4, LenProperties
<1> HIDE DEF kept, lost
<1>8. Shifted(queue, message, Append(kept, message))
  <2>1. Len(kept) + 1 - 1 = Len(kept) /\ Len(kept) + 1 \in Nat \ {0}
    BY <1>6
  <2>2. \A i \in 1..Len(kept) :
          i + lost \in DOMAIN queue /\ Append(kept, message)[i] = queue[i + lost]
    BY <1>3, <1>4, <1>6
  <2>3. Len(Append(kept, message)) = Len(kept) + 1
    BY <1>4
  <2> QED
    BY <1>4, <1>6, <1>7, <2>1, <2>2, <2>3 DEF Shifted
<1> QED
  BY <1>1, <1>3, <1>4, <1>5, <1>6, <1>8

LEMMA Taken ==
    ASSUME NEW S, NEW queue \in Seq(S), Len(queue) <= Depth, queue # <<>>
    PROVE  /\ Head(queue) \in S /\ Head(queue) = queue[1] /\ 1 \in 1..Len(queue)
           /\ Tail(queue) \in Seq(S) /\ Len(Tail(queue)) <= Depth
           /\ Len(Tail(queue)) = Len(queue) - 1 /\ Len(queue) \in Nat
           /\ \A i \in 1..Len(Tail(queue)) :
                i + 1 \in 1..Len(queue) /\ Tail(queue)[i] = queue[i + 1]
<1>1. /\ Head(queue) \in S /\ Tail(queue) \in Seq(S) /\ Len(Tail(queue)) = Len(queue) - 1
      /\ \A i \in 1..Len(Tail(queue)) : Tail(queue)[i] = queue[i + 1]
  BY HeadTailProperties
<1>2. Len(queue) \in Nat \ {0} /\ Depth \in Nat /\ Head(queue) = queue[1]
  BY DepthAssumption, EmptySeq
<1> QED
  BY <1>1, <1>2

\* What the thread of a request publishes is a question that was asked, or none.
LEMMA RequestOf ==
    ASSUME Single, NEW i \in DOMAIN requests
    PROVE  requests[i].question \in Questions \cup {NoQuestion}
<1>1. requests[i] \in Request
  BY ThreadAlone, ElementOfSeq
<1> QED
  BY <1>1 DEF Request

LEMMA TypedClient ==
    ASSUME TypeOK, Single, Single', Pending', ClientNext
    PROVE  ClientTypeOK'
<1>1. CASE OnTrigger
  BY <1>1, Taken DEF OnTrigger, TypeOK, ClientTypeOK
<1>2. CASE OnImage
  BY <1>2 DEF OnImage, Analyze, TypeOK, ClientTypeOK, Single, RequestTypes, Pending
<1>3. ASSUME NEW i \in DOMAIN requests, Answer(i) PROVE ClientTypeOK'
  <2>1. \/ observations' = observations
        \/ observations' = Deliver(observations, requests[i].question)
    BY <1>3 DEF Answer
  <2>2. /\ observations' \in Seq(Questions \cup {NoQuestion})
        /\ Len(observations') <= Depth
    BY <2>1, RequestOf, Delivered, DepthAssumption DEF TypeOK, ClientTypeOK
  <2> QED
    BY <1>3, <2>2 DEF Answer, TypeOK, ClientTypeOK, Single, RequestTypes
<1>4. ASSUME NEW i \in DOMAIN requests, Finally(i) PROVE ClientTypeOK'
  BY <1>4 DEF Finally, TypeOK, ClientTypeOK, Single, RequestTypes
<1>5. CASE Rest
  BY <1>5 DEF Rest, TypeOK, ClientTypeOK
<1> QED
  BY <1>1, <1>2, <1>3, <1>4, <1>5 DEF ClientNext, AnalyzeImage

LEMMA TypedStep == ASSUME TypeOK, Single, Single', Pending', [Next]_vars PROVE TypeOK'
<1>1. MaxQuestions \in Nat
  BY QuestionsAssumption
<1>2. CASE ClientNext /\ UNCHANGED asker
  BY <1>2, TypedClient DEF TypeOK, asker
<1>3. CASE Ask
  <2>1. asked' = asked + 1 /\ asked + 1 \in Questions /\ asked' \in 0..MaxQuestions
    BY <1>1, <1>3 DEF Ask, Questions, TypeOK
  <2>2. triggers' = Deliver(triggers, asked + 1)
    BY <1>3 DEF Ask
  <2>3. triggers' \in Seq(Questions) /\ Len(triggers') <= Depth
    BY <2>1, <2>2, Delivered, DepthAssumption DEF TypeOK, ClientTypeOK
  <2> QED
    BY <1>3, <2>1, <2>3 DEF Ask, TypeOK, ClientTypeOK
<1>4. CASE OnVlmExploreObservation
  <2>1. observations \in Seq(Questions \cup {NoQuestion}) /\ Len(observations) <= Depth
    BY DEF TypeOK, ClientTypeOK
  <2> QED
    BY <1>4, <2>1, Taken DEF OnVlmExploreObservation, TypeOK, ClientTypeOK
<1>5. CASE Conclude
  BY <1>5 DEF Conclude, client, TypeOK, ClientTypeOK
<1>6. CASE UNCHANGED vars
  BY <1>6 DEF vars, client, asker, TypeOK, ClientTypeOK
<1> QED
  BY <1>2, <1>3, <1>4, <1>5, <1>6 DEF Next

LEMMA AlwaysTyped == Spec => []TypeOK
<1>1. Init => TypeOK
  <2>1. \A S : <<>> \in Seq(S) /\ Len(<<>>) = 0
    BY EmptySeq
  <2>2. 0 <= Depth /\ 0 \in 0..MaxQuestions
    BY DepthAssumption, QuestionsAssumption
  <2> QED
    BY <2>1, <2>2, Zenon DEF Init, ClientInit, TypeOK, ClientTypeOK
<1>2. TypeOK /\ Single /\ Single' /\ Pending' /\ [Next]_vars => TypeOK'
  BY TypedStep
<1> QED
  BY <1>1, <1>2, AlwaysSingle, PTL DEF Spec

\* Every variable of the link keeps its type, and no topic holds more than its depth.
THEOREM TypeCorrect == Spec => []TypeOK
  BY AlwaysTyped


(***************************************************************************)
(* Questions go one way.  Those on the trigger topic come in the order in  *)
(* which they were asked, after the one that waits for a frame, after all  *)
(* that were put to the VLM.                                               *)
(***************************************************************************)
Ordered ==
    /\ \A i, j \in DOMAIN triggers : i < j => triggers[i] < triggers[j]
    /\ \A i \in DOMAIN triggers : pending < triggers[i] /\ triggers[i] <= asked
    /\ \A q \in put :
         /\ q <= asked
         /\ \A i \in DOMAIN triggers : q < triggers[i]
         /\ pending # NoQuestion => q < pending
    /\ pending <= asked

LEMMA LinkTypes ==
    ASSUME TypeOK
    PROVE  /\ triggers \in Seq(Questions) /\ Len(triggers) \in Nat /\ Len(triggers) <= Depth
           /\ DOMAIN triggers = 1..Len(triggers)
           /\ \A i \in DOMAIN triggers : triggers[i] \in Questions
           /\ Questions \subseteq Nat \ {0} /\ put \subseteq Questions
           /\ pending \in Nat /\ asked \in Nat /\ NoQuestion = 0
  BY QuestionsAssumption, LenProperties, ElementOfSeq DEF TypeOK, ClientTypeOK, Questions, NoQuestion

LEMMA OrderedTrigger == ASSUME TypeOK, Ordered, OnTrigger, UNCHANGED asked PROVE Ordered'
<1>1. /\ triggers # <<>> /\ triggers' = Tail(triggers) /\ pending' = triggers[1] /\ put' = put
      /\ 1 \in DOMAIN triggers
  BY Taken, LinkTypes DEF OnTrigger
<1>2. /\ \A i \in DOMAIN triggers' : i + 1 \in DOMAIN triggers /\ triggers'[i] = triggers[i + 1]
      /\ DOMAIN triggers' \subseteq Nat \ {0}
  <2>1. triggers' \in Seq(Questions)
    BY <1>1, LinkTypes, Taken
  <2>2. DOMAIN triggers' = 1..Len(triggers')
    BY <2>1, LenProperties
  <2> QED
    BY <1>1, <2>2, LinkTypes, Taken
<1>3. \A i \in DOMAIN triggers' : triggers[1] < triggers'[i]
  <2>1. \A i \in DOMAIN triggers' : 1 < i + 1
    BY <1>2
  <2> QED
    BY <1>1, <1>2, <2>1 DEF Ordered
<1>4. \A i, j \in DOMAIN triggers' : i < j => triggers'[i] < triggers'[j]
  <2>1. \A i, j \in DOMAIN triggers' : i < j => i + 1 < j + 1
    BY <1>2
  <2> QED
    BY <1>2, <2>1 DEF Ordered
<1>5. \A q \in put : q <= asked /\ q < pending' /\ \A i \in DOMAIN triggers' : q < triggers'[i]
  BY <1>1, <1>2 DEF Ordered
<1> QED
  BY <1>1, <1>2, <1>3, <1>4, <1>5 DEF Ordered

LEMMA OrderedImage == ASSUME TypeOK, Ordered, OnImage, UNCHANGED asked PROVE Ordered'
<1>1. /\ pending' = 0 /\ triggers' = triggers /\ put' \subseteq put \cup {pending}
  BY DEF OnImage, Analyze, NoQuestion
<1>2. \A i \in DOMAIN triggers : 0 < triggers[i]
  BY LinkTypes
<1> QED
  BY <1>1, <1>2, LinkTypes DEF Ordered, NoQuestion

LEMMA OrderedAsk == ASSUME TypeOK, Ordered, Ask PROVE Ordered'
<1>1. /\ triggers' = Deliver(triggers, asked + 1) /\ asked' = asked + 1 /\ asked + 1 \in Questions
      /\ UNCHANGED <<pending, put>>
  BY QuestionsAssumption DEF Ask, Questions, TypeOK
<1> DEFINE last == Len(triggers')
<1>0. Shifted(triggers, asked + 1, triggers')
  BY <1>1, LinkTypes, Delivered
<1>2. last \in Nat \ {0} /\ DOMAIN triggers' = 1..last /\ triggers'[last] = asked + 1
  BY <1>0 DEF Shifted
<1>3. PICK lost \in {0, 1} : \A i \in 1..(last - 1) :
        i + lost \in DOMAIN triggers /\ triggers'[i] = triggers[i + lost]
  BY <1>0 DEF Shifted
<1>4. \A i \in 1..(last - 1) : triggers'[i] <= asked /\ triggers'[i] \in Nat
  BY <1>3, LinkTypes DEF Ordered
<1>5. \A i \in DOMAIN triggers' : i = last \/ i \in 1..(last - 1)
  BY <1>2
<1> HIDE DEF last
<1>6. \A i, j \in DOMAIN triggers' : i < j => triggers'[i] < triggers'[j]
  <2> SUFFICES ASSUME NEW i \in DOMAIN triggers', NEW j \in DOMAIN triggers', i < j
               PROVE  triggers'[i] < triggers'[j]
    OBVIOUS
  <2>1. i \in 1..(last - 1)
    BY <1>2, <1>5
  <2>2. CASE j = last
    BY <1>2, <1>4, <2>1, <2>2, LinkTypes
  <2>3. CASE j \in 1..(last - 1)
    BY <1>3, <2>1, <2>3 DEF Ordered
  <2> QED
    BY <1>5, <2>2, <2>3
<1>7. \A i \in DOMAIN triggers' : pending < triggers'[i] /\ triggers'[i] <= asked + 1
  <2>1. pending < asked + 1 /\ asked + 1 <= asked + 1
    BY LinkTypes DEF Ordered
  <2>2. \A i \in 1..(last - 1) : pending < triggers'[i]
    BY <1>3 DEF Ordered
  <2>3. \A i \in 1..(last - 1) : triggers'[i] <= asked + 1
    BY <1>4, LinkTypes
  <2> QED
    BY <1>2, <1>5, <2>1, <2>2, <2>3
<1>8. \A q \in put : q <= asked + 1 /\ \A i \in DOMAIN triggers' : q < triggers'[i]
  <2>1. \A q \in put : q < asked + 1 /\ q <= asked + 1
    BY LinkTypes DEF Ordered
  <2>2. \A q \in put : \A i \in 1..(last - 1) : q < triggers'[i]
    BY <1>3 DEF Ordered
  <2> QED
    BY <1>2, <1>5, <2>1, <2>2
<1> QED
  BY <1>1, <1>6, <1>7, <1>8, LinkTypes DEF Ordered

LEMMA OrderedStep == ASSUME TypeOK, Ordered, [Next]_vars PROVE Ordered'
<1>1. CASE UNCHANGED <<triggers, pending, put, asked>>
  BY <1>1 DEF Ordered
<1> QED
  BY <1>1, OrderedTrigger, OrderedImage, OrderedAsk
     DEF Next, ClientNext, AnalyzeImage, Answer, Finally, Rest, OnVlmExploreObservation, Conclude,
         vars, client, asker

\* The question a frame is analyzed with was not put to the VLM before.
LEMMA PendingIsNew == ASSUME TypeOK, Ordered PROVE pending \notin put
  BY LinkTypes DEF Ordered

LEMMA AlwaysOrdered == Spec => []Ordered
<1>1. Init => Ordered
  <2>1. DOMAIN <<>> = {} /\ 0 <= 0
    OBVIOUS
  <2> QED
    BY <2>1 DEF Init, ClientInit, Ordered, NoQuestion
<1> QED
  BY <1>1, OrderedStep, AlwaysTyped, PTL DEF Spec

\* A question is put to the VLM once, and none overtakes another, however triggers, frames and
\* scans of the client's own interleave, for all depths of the topics (on_trigger, on_image).
THEOREM QuestionsPutOnce == Spec => PutOnceInOrder
<1>1. Ordered => (OnImage /\ pending # NoQuestion => \A q \in put : q < pending)
  BY DEF Ordered
<1> QED
  BY <1>1, AlwaysOrdered, PTL DEF PutOnceInOrder


(***************************************************************************)
(* Answers.  A question that was put is in one place: with its thread, on  *)
(* the observation topic, in the explorer's hand, or taken.                *)
(***************************************************************************)
Open(q) == q \in Questions => q \in put /\ q # ready /\ \A p \in Questions : taken[p] # q

Places ==
    /\ \A i, j \in DOMAIN observations :
         observations[i] = observations[j] /\ i # j => observations[i] \notin Questions
    /\ \A i \in DOMAIN observations : Open(observations[i])
    /\ \A r \in DOMAIN requests : ~requests[r].done =>
         /\ Open(requests[r].question)
         /\ requests[r].question \in Questions =>
              \A i \in DOMAIN observations : observations[i] # requests[r].question
    /\ ready \in Questions => ready \in put /\ (waiting => \A p \in Questions : taken[p] # ready)
    /\ \A p \in Questions : taken[p] \in Questions => taken[p] \in put

LEMMA ObservationTypes ==
    ASSUME TypeOK
    PROVE  /\ observations \in Seq(Questions \cup {NoQuestion}) /\ Len(observations) <= Depth
           /\ Len(observations) \in Nat /\ DOMAIN observations = 1..Len(observations)
  BY LenProperties DEF TypeOK, ClientTypeOK

\* The request of a new frame has a question that is nowhere else.
LEMMA PlacesImage ==
    ASSUME TypeOK, Single, Ordered, Places, OnImage, UNCHANGED asker
    PROVE  Places'
<1>1. requests' = <<[question |-> pending, done |-> FALSE]>>
  <2>1. requests = <<>>
    BY DEF OnImage, Single, OneRequest
  <2> QED
    BY <2>1 DEF OnImage, Analyze
<1>2. \A r \in DOMAIN requests' : requests'[r].question = pending
  BY <1>1
<1>3. /\ UNCHANGED <<observations, ready, waiting, taken>>
      /\ put \subseteq put' /\ (pending \in Questions => pending \in put')
  BY QuestionsAssumption DEF OnImage, Analyze, asker, Questions, NoQuestion
<1>4. \A q : q = pending => Open(q)'
  BY <1>3, PendingIsNew DEF Places, Open
<1>5. pending \in Questions => \A i \in DOMAIN observations : observations[i] # pending
  BY PendingIsNew DEF Places, Open
<1>6. \A q : Open(q) => Open(q)'
  BY <1>3 DEF Open
<1> QED
  BY <1>2, <1>3, <1>4, <1>5, <1>6 DEF Places, Open

\* An answer moves its question from the thread to the topic, a failure drops it.
LEMMA PlacesAnswer ==
    ASSUME TypeOK, Single, Places, NEW r \in DOMAIN requests, Answer(r), UNCHANGED asker
    PROVE  Places'
<1>1. \A i \in DOMAIN requests' : requests'[i].done
  <2>1. requests' = [requests EXCEPT ![r].done = TRUE] /\ DOMAIN requests = 1..1 /\ r = 1
    BY ThreadAlone, LenProperties DEF Answer
  <2>2. requests[1] \in Request
    BY ThreadAlone, ElementOfSeq
  <2> QED
    BY <2>1, <2>2 DEF Request
<1>2. UNCHANGED <<put, ready, waiting, taken>> /\ ~requests[r].done
  BY DEF Answer, asker
<1>3. \A q : Open(q)' <=> Open(q)
  BY <1>2 DEF Open
<1>4. CASE UNCHANGED observations
  BY <1>1, <1>2, <1>3, <1>4 DEF Places
<1>5. CASE observations' = Deliver(observations, requests[r].question)
  <2> DEFINE last == Len(observations')
             q == requests[r].question
  <2>0. Shifted(observations, q, observations')
    BY <1>5, RequestOf, ObservationTypes, Delivered
  <2>1. last \in Nat \ {0} /\ DOMAIN observations' = 1..last /\ observations'[last] = q
    BY <2>0 DEF Shifted
  <2>2. PICK lost \in {0, 1} : \A i \in 1..(last - 1) :
          i + lost \in DOMAIN observations /\ observations'[i] = observations[i + lost]
    BY <2>0 DEF Shifted
  <2>3. \A i \in DOMAIN observations' : i = last \/ i \in 1..(last - 1)
    BY <2>1
  <2>4. Open(q) /\ (q \in Questions => \A i \in DOMAIN observations : observations[i] # q)
    BY <1>2 DEF Places
  <2> HIDE DEF last, q
  <2>5. \A i \in DOMAIN observations' : Open(observations'[i])
    BY <2>1, <2>2, <2>3, <2>4 DEF Places
  <2>6. \A i, j \in DOMAIN observations' :
          observations'[i] = observations'[j] /\ i # j => observations'[i] \notin Questions
    <3> SUFFICES ASSUME NEW i \in DOMAIN observations', NEW j \in DOMAIN observations', i # j,
                        observations'[i] = observations'[j], observations'[i] \in Questions
                 PROVE  FALSE
      OBVIOUS
    <3>1. CASE i # last /\ j # last
      <4>1. i + lost # j + lost
        BY <2>1, <2>2
      <4> QED
        BY <2>2, <2>3, <3>1, <4>1 DEF Places
    <3>2. CASE i = last \/ j = last
      BY <2>1, <2>2, <2>3, <2>4, <3>2
    <3> QED
      BY <3>1, <3>2
  <2> QED
    BY <1>1, <1>2, <1>3, <2>5, <2>6 DEF Places
<1> QED
  BY <1>4, <1>5 DEF Answer

\* The explorer has the oldest observation in its hand instead of what it held.
LEMMA PlacesObservation ==
    ASSUME TypeOK, Single, Places, OnVlmExploreObservation
    PROVE  Places'
<1>1. /\ observations # <<>> /\ observations' = Tail(observations) /\ ready' = observations[1]
      /\ 1 \in DOMAIN observations /\ UNCHANGED <<requests, put, waiting, taken>>
  BY Taken, ObservationTypes DEF OnVlmExploreObservation
<1>2. /\ \A i \in DOMAIN observations' :
           i + 1 \in DOMAIN observations /\ observations'[i] = observations[i + 1]
      /\ DOMAIN observations' \subseteq Nat \ {0}
  <2>1. observations' \in Seq(Questions \cup {NoQuestion})
    BY <1>1, ObservationTypes, Taken
  <2>2. DOMAIN observations' = 1..Len(observations')
    BY <2>1, LenProperties
  <2> QED
    BY <1>1, <2>2, ObservationTypes, Taken
<1>3. \A q : Open(q) /\ (q \in Questions => q # observations[1]) => Open(q)'
  BY <1>1 DEF Open
<1>4. \A i, j \in DOMAIN observations' : i # j => i + 1 # j + 1 /\ i + 1 # 1
  BY <1>2
<1>5. \A i, j \in DOMAIN observations' :
        observations'[i] = observations'[j] /\ i # j => observations'[i] \notin Questions
  BY <1>2, <1>4 DEF Places
<1>6. \A i \in DOMAIN observations' : \A q : q = observations'[i] => Open(q)'
  <2>1. \A i \in DOMAIN observations' : i + 1 # 1
    BY <1>2
  <2> QED
    BY <1>1, <1>2, <1>3, <2>1 DEF Places
<1>7. \A r \in DOMAIN requests : ~requests[r].done =>
        /\ Open(requests[r].question)'
        /\ requests[r].question \in Questions =>
             \A i \in DOMAIN observations' : observations'[i] # requests[r].question
  BY <1>1, <1>2, <1>3 DEF Places
<1>8. ready' \in Questions => ready' \in put /\ \A p \in Questions : taken[p] # ready'
  BY <1>1 DEF Places, Open
<1> QED
  BY <1>1, <1>5, <1>6, <1>7, <1>8 DEF Places

\* The explorer takes what it holds, and holds it until it asks again.
LEMMA PlacesConclude ==
    ASSUME TypeOK, Single, Places, Conclude
    PROVE  Places'
<1>1. /\ waiting /\ ~waiting' /\ UNCHANGED <<client, asked, ready>>
      /\ \A p \in Questions : taken'[p] \in {taken[p], ready, TimedOut}
      /\ TimedOut \notin Questions
  BY QuestionsAssumption DEF Conclude, TypeOK, TimedOut, Questions
<1>2. UNCHANGED <<requests, observations, put>>
  BY <1>1 DEF client
<1>3. \A q : Open(q) => Open(q)'
  BY <1>1, <1>2 DEF Open
<1>4. \A p \in Questions : taken'[p] \in Questions => taken'[p] \in put
  BY <1>1 DEF Places
<1> QED
  BY <1>1, <1>2, <1>3, <1>4 DEF Places

LEMMA PlacesStep ==
    ASSUME TypeOK, Single, Ordered, Places, [Next]_vars
    PROVE  Places'
<1>1. CASE UNCHANGED <<requests, observations, put, ready, waiting, taken>>
  BY <1>1 DEF Places, Open
<1>2. CASE ((OnTrigger \/ Rest) /\ UNCHANGED asker) \/ UNCHANGED vars
  BY <1>1, <1>2 DEF OnTrigger, Rest, vars, client, asker
<1>3. CASE AnalyzeImage /\ UNCHANGED asker
  <2>1. ASSUME NEW i \in DOMAIN requests, Finally(i) PROVE Places'
    <3>1. DOMAIN requests' = {}
      BY <2>1, ThreadGone
    <3> QED
      BY <1>3, <2>1, <3>1 DEF Finally, asker, Places, Open
  <2> QED
    BY <1>3, <2>1, PlacesAnswer DEF AnalyzeImage
<1>4. CASE Ask
  <2>1. UNCHANGED <<requests, observations, put, taken>> /\ ready' = Nothing /\ Nothing \notin Questions
    BY <1>4, QuestionsAssumption DEF Ask, Nothing, Questions
  <2>2. \A q : Open(q) => Open(q)'
    BY <2>1 DEF Open
  <2> QED
    BY <2>1, <2>2 DEF Places
<1> QED
  BY <1>2, <1>3, <1>4, PlacesImage, PlacesObservation, PlacesConclude DEF Next, ClientNext

\* What the explorer takes while it waits was never taken before.
LEMMA ServesOnceStep ==
    ASSUME TypeOK, Places, AnswerServesOnce, [Next]_vars
    PROVE  AnswerServesOnce'
<1>1. CASE UNCHANGED taken
  BY <1>1 DEF AnswerServesOnce
<1>2. CASE Conclude
  <2>1. /\ taken' = [taken EXCEPT ![asked] = IF ready = Nothing THEN TimedOut ELSE ready]
        /\ TimedOut \notin Questions
    BY <1>2, QuestionsAssumption DEF Conclude, TimedOut, Questions
  <2>2. ready \in Questions => \A p \in Questions : taken[p] # ready
    BY <1>2 DEF Conclude, Places
  <2>3. \A p \in Questions : p # asked => taken'[p] = taken[p]
    BY <2>1 DEF TypeOK
  <2>4. asked \in Questions => taken'[asked] \in {ready, TimedOut}
    BY <2>1 DEF TypeOK
  <2> QED
    BY <2>1, <2>2, <2>3, <2>4 DEF AnswerServesOnce
<1> QED
  BY <1>1, <1>2
     DEF Next, Ask, OnVlmExploreObservation, vars, asker

\* No answer serves for two questions, whatever comes late, fails or is lost: to ask is to drop
\* what is in hand, and no question has two answers (room_scan_request_vlm_step).
THEOREM AnswersServeOnce == Spec => []AnswerServesOnce
<1>1. Init => Places /\ AnswerServesOnce
  <2>1. DOMAIN <<>> = {} /\ Nothing \notin Questions
    BY QuestionsAssumption DEF Nothing, Questions
  <2> QED
    BY <2>1 DEF Init, ClientInit, Places, AnswerServesOnce
<1> QED
  BY <1>1, PlacesStep, ServesOnceStep, AlwaysTyped, AlwaysSingle, AlwaysOrdered, PTL DEF Spec
=============================================================================
