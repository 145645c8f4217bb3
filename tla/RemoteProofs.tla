---------------------------- MODULE RemoteProofs ----------------------------
(***************************************************************************)
(* Three facts about the services, for every number of texts, versions and *)
(* restarts: no text is forgotten unpublished, a run of the bridge         *)
(* publishes each text once and in order, and what the version file names  *)
(* has been pulled.  The bridge and the agent have inductive invariants of *)
(* their own: the two nodes share nothing but the restart.                 *)
(***************************************************************************)
EXTENDS RemoteServices, TLAPS

\* The last update that the next request tells the server to forget, or that it has forgotten.
Seen == IF offset > confirmed THEN offset - 1 ELSE confirmed

\* The batch holds the updates that follow the ones seen, and all of those seen were published.
BatchFollows ==
    /\ offset \in Nat /\ confirmed \in Nat
    /\ allowed \in Seq(BOOLEAN) /\ batch \in Seq(Nat)
    /\ \A i \in 1..Len(batch) : batch[i] = Seen + i
    /\ Seen + Len(batch) <= Len(allowed)
    /\ \A id \in 1..Seen : allowed[id] => id \in delivered

LEMMA EmptyBatch == <<>> \in Seq(Nat) /\ Len(<<>>) = 0
  OBVIOUS

\* The server takes over what the node has seen, and no more.
LEMMA ConfirmKeepsSeen ==
    ASSUME BatchFollows, Confirm, UNCHANGED offset
    PROVE  confirmed' = Seen /\ confirmed' \in Nat /\ Seen' = Seen
  BY DEF BatchFollows, Confirm, Seen

LEMMA BatchFollowsInit == Init => BatchFollows
  <1> SUFFICES ASSUME Init PROVE BatchFollows
    OBVIOUS
  <1>1. Seen = 0
    BY DEF Init, BridgeInit, Seen
  <1> QED
    BY <1>1, EmptyBatch DEF Init, BridgeInit, BatchFollows

LEMMA BatchFollowsNext == BatchFollows /\ [Next]_vars => BatchFollows'
  <1> SUFFICES ASSUME BatchFollows, [Next]_vars PROVE BatchFollows'
    OBVIOUS
  <1>1. CASE Write
    <2>1. PICK ok \in BOOLEAN : allowed' = Append(allowed, ok)
      BY <1>1 DEF Write
    <2>2. /\ allowed' \in Seq(BOOLEAN)
          /\ Len(allowed') = Len(allowed) + 1
          /\ \A id \in 1..Len(allowed) : allowed'[id] = allowed[id]
      BY <2>1 DEF BatchFollows
    <2>3. UNCHANGED <<offset, batch, confirmed, delivered>> /\ Seen' = Seen /\ Seen \in Nat
      BY <1>1 DEF Write, telegram, Seen, BatchFollows
    <2>4. Len(allowed) \in Nat /\ Len(batch) \in Nat /\ Seen + Len(batch) <= Len(allowed)
      BY DEF BatchFollows
    <2>5. \A id \in 1..Seen' : allowed'[id] => id \in delivered'
      <3> SUFFICES ASSUME NEW id \in 1..Seen, allowed'[id] PROVE id \in delivered
        BY <2>3
      <3>1. id \in 1..Len(allowed)
        BY <2>3, <2>4
      <3> QED
        BY <2>2, <3>1 DEF BatchFollows
    <2>6. \A i \in 1..Len(batch') : batch'[i] = Seen' + i
      BY <2>3 DEF BatchFollows
    <2>7. Seen' + Len(batch') <= Len(allowed')
      BY <2>2, <2>3, <2>4
    <2>8. offset' \in Nat /\ confirmed' \in Nat /\ batch' \in Seq(Nat)
      BY <2>3 DEF BatchFollows
    <2> QED
      BY <2>2, <2>5, <2>6, <2>7, <2>8 DEF BatchFollows
  <1>2. CASE Backoff
    BY <1>2 DEF Backoff, BatchFollows, Seen, chat
  <1>3. CASE Poll
    <2>1. UNCHANGED <<offset, allowed, delivered>>
      BY <1>3 DEF Poll
    <2>2. confirmed' = Seen /\ Seen' = Seen /\ Seen \in Nat
      BY <1>3, <2>1, ConfirmKeepsSeen DEF Poll
    <2>3. batch = <<>>
      BY <1>3 DEF Poll, Idle
    <2>4. Len(allowed) - Seen \in Nat
      BY <2>2, <2>3, EmptyBatch DEF BatchFollows
    <2>5. batch' = [i \in 1..(Len(allowed) - Seen) |-> Seen + i]
      BY <1>3, <2>2 DEF Poll
    <2>6. /\ batch' \in Seq(Nat)
          /\ Len(batch') = Len(allowed) - Seen
          /\ \A i \in 1..Len(batch') : batch'[i] = Seen + i
      BY <2>2, <2>4, <2>5
    <2> QED
      BY <2>1, <2>2, <2>4, <2>6 DEF BatchFollows
  <1>4. CASE TakeUpdate
    <2>1. batch \in Seq(Nat) /\ batch # <<>> /\ batch' = Tail(batch)
      BY <1>4 DEF TakeUpdate, BatchFollows
    <2>2. /\ Len(batch) >= 1 /\ Head(batch) = batch[1]
          /\ batch' \in Seq(Nat) /\ Len(batch') = Len(batch) - 1
          /\ \A i \in 1..Len(batch') : batch'[i] = batch[i + 1]
      BY <2>1
    <2>3. Seen \in Nat /\ offset <= Seen + 1 /\ Head(batch) = Seen + 1
      BY <2>2 DEF BatchFollows, Seen
    <2>4. UNCHANGED <<allowed, confirmed>> /\ offset' = Seen + 2
      BY <1>4, <2>3 DEF TakeUpdate, chat, BatchFollows
    <2>5. Seen' = Seen + 1
      BY <2>3, <2>4 DEF Seen, BatchFollows
    <2>6. \A id \in 1..Seen' : allowed'[id] => id \in delivered'
      <3> SUFFICES ASSUME NEW id \in 1..Seen', allowed[id] PROVE id \in delivered'
        BY <2>4
      <3>1. delivered' = IF allowed[Seen + 1] THEN delivered \cup {Seen + 1} ELSE delivered
        BY <1>4, <2>3 DEF TakeUpdate
      <3>2. CASE id = Seen + 1
        BY <3>1, <3>2
      <3>3. CASE id # Seen + 1
        <4>1. id \in 1..Seen
          BY <2>3, <2>5, <3>3
        <4> QED
          BY <3>1, <4>1 DEF BatchFollows
      <3> QED
        BY <3>2, <3>3
    <2>7. \A i \in 1..Len(batch') : batch'[i] = Seen' + i
      <3> SUFFICES ASSUME NEW i \in 1..Len(batch') PROVE batch'[i] = Seen' + i
        OBVIOUS
      <3>1. i + 1 \in 1..Len(batch) /\ i \in Nat
        BY <2>1, <2>2
      <3>2. batch[i + 1] = Seen + (i + 1)
        BY <3>1 DEF BatchFollows
      <3> QED
        BY <2>2, <2>3, <2>5, <3>1, <3>2
    <2>8. Seen' + Len(batch') <= Len(allowed')
      BY <2>1, <2>2, <2>3, <2>4, <2>5 DEF BatchFollows
    <2> QED
      BY <2>2, <2>3, <2>4, <2>6, <2>7, <2>8 DEF BatchFollows
  <1>5. CASE PollFails
    <2>1. UNCHANGED <<offset, batch, allowed, delivered>>
      BY <1>5 DEF PollFails
    <2>2. confirmed' \in Nat /\ Seen' = Seen
      <3>1. CASE Confirm
        BY <2>1, <3>1, ConfirmKeepsSeen
      <3>2. CASE UNCHANGED confirmed
        BY <2>1, <3>2 DEF Seen, BatchFollows
      <3> QED
        BY <1>5, <3>1, <3>2 DEF PollFails
    <2> QED
      BY <2>1, <2>2 DEF BatchFollows
  <1>6. CASE Restart
    <2>1. /\ offset' = 0 /\ batch' = <<>>
          /\ UNCHANGED <<allowed, confirmed, delivered>>
      BY <1>6 DEF Restart, BridgeRestarts, chat
    <2>2. Seen' = confirmed /\ Seen \in Nat /\ confirmed <= Seen
      BY <2>1 DEF Seen, BatchFollows
    <2>3. confirmed <= Len(allowed)
      BY <2>2 DEF BatchFollows
    <2>4. \A id \in 1..confirmed : allowed[id] => id \in delivered
      BY <2>2 DEF BatchFollows
    <2> QED
      BY <2>1, <2>2, <2>3, <2>4, EmptyBatch DEF BatchFollows
  <1>7. CASE UNCHANGED bridgeVars
    BY <1>7 DEF bridgeVars, telegram, chat, BatchFollows, Seen
  <1>8. UNCHANGED vars => UNCHANGED bridgeVars
    BY DEF vars
  <1> QED
    BY <1>1, <1>2, <1>3, <1>4, <1>5, <1>6, <1>7, <1>8 DEF Next, BridgeNext

\* Whatever polls, responses and restarts are lost or come in between, the server is never told
\* to forget a text of the admin that no run of the node has published.
THEOREM NothingForgotten == Spec => []NoneForgotten
  <1>1. BatchFollows => NoneForgotten
    <2> SUFFICES ASSUME BatchFollows PROVE NoneForgotten
      OBVIOUS
    <2>1. confirmed \in Nat /\ Seen \in Nat /\ confirmed <= Seen
      BY DEF BatchFollows, Seen
    <2> QED
      BY <2>1 DEF BatchFollows, NoneForgotten
  <1> QED
    BY BatchFollowsInit, BatchFollowsNext, <1>1, PTL DEF Spec

----------------------------------------------------------------------------
\* The texts published by this run are those from where the server's memory began when it
\* started up to the last one seen: until the first of them the offset is 0, and from then on
\* it is past all that the server has forgotten.
RunFollows ==
    /\ first \in Nat /\ published \in Seq(Nat)
    /\ offset = 0 => confirmed = first
    /\ offset > 0 => first < offset /\ confirmed < offset
    /\ PublishedInOrder

LEMMA RunFollowsInit == Init => RunFollows
  <1> SUFFICES ASSUME Init PROVE RunFollows
    OBVIOUS
  <1>1. /\ offset = 0 /\ first = 0 /\ confirmed = 0 /\ published = <<>> /\ published \in Seq(Nat)
        /\ DOMAIN published = {} /\ (first + 1)..(offset - 1) = {}
    BY EmptyBatch DEF Init, BridgeInit
  <1> QED
    BY <1>1 DEF RunFollows, PublishedInOrder

Increasing(s) == \A i, j \in DOMAIN s : i < j => s[i] < s[j]
Elements(s) == {s[i] : i \in DOMAIN s}

\* A text appended after smaller ones.
LEMMA PublishedNext ==
    ASSUME NEW s \in Seq(Nat), NEW id \in Nat, \A i \in DOMAIN s : s[i] < id, Increasing(s)
    PROVE  /\ Append(s, id) \in Seq(Nat)
           /\ Increasing(Append(s, id))
           /\ Elements(Append(s, id)) = Elements(s) \cup {id}
  <1> DEFINE t == Append(s, id)
  <1>1. /\ t \in Seq(Nat) /\ Len(t) = Len(s) + 1 /\ Len(s) \in Nat
        /\ DOMAIN s = 1..Len(s) /\ DOMAIN t = 1..(Len(s) + 1)
        /\ t[Len(s) + 1] = id /\ \A i \in 1..Len(s) : t[i] = s[i]
    OBVIOUS
  <1> HIDE DEF t
  <1>2. ASSUME NEW i \in DOMAIN t, NEW j \in DOMAIN t, i < j
        PROVE  t[i] < t[j]
    <2>1. i \in 1..Len(s) /\ t[i] = s[i]
      BY <1>1, <1>2
    <2>2. CASE j = Len(s) + 1
      BY <1>1, <2>1, <2>2
    <2>3. CASE j # Len(s) + 1
      BY <1>1, <1>2, <2>1, <2>3 DEF Increasing
    <2> QED
      BY <2>2, <2>3
  <1>3. Elements(t) = Elements(s) \cup {id}
    BY <1>1 DEF Elements
  <1> QED
    BY <1>1, <1>2, <1>3 DEF t, Increasing

LEMMA RunFollowsNext == BatchFollows /\ RunFollows /\ [Next]_vars => RunFollows'
  <1> SUFFICES ASSUME BatchFollows, RunFollows, [Next]_vars PROVE RunFollows'
    OBVIOUS
  <1>1. /\ offset \in Nat /\ confirmed \in Nat /\ Seen \in Nat /\ first \in Nat
        /\ first <= Seen /\ offset <= Seen + 1
        /\ Seen <= Len(allowed) /\ Len(allowed) \in Nat
    <2>1. batch \in Seq(Nat) /\ Len(batch) \in Nat /\ Len(allowed) \in Nat
      BY DEF BatchFollows
    <2> QED
      BY <2>1 DEF BatchFollows, RunFollows, Seen
  <1>2. CASE Write
    <2>1. PICK ok \in BOOLEAN : allowed' = Append(allowed, ok)
      BY <1>2 DEF Write
    <2>2. \A id \in 1..Len(allowed) : allowed'[id] = allowed[id]
      BY <2>1 DEF BatchFollows
    <2>3. UNCHANGED <<offset, confirmed, published, first>>
      BY <1>2 DEF Write, telegram
    <2>4. \A id \in (first + 1)..(offset - 1) : allowed'[id] = allowed[id]
      BY <1>1, <2>2
    <2> QED
      BY <2>3, <2>4 DEF RunFollows, PublishedInOrder
  <1>3. CASE Backoff
    BY <1>3 DEF Backoff, RunFollows, PublishedInOrder, chat
  <1>4. ASSUME UNCHANGED <<offset, allowed, published, first>>, confirmed' \in {confirmed, Seen}
        PROVE  RunFollows'
    BY <1>1, <1>4 DEF RunFollows, PublishedInOrder, Seen
  <1>5. CASE Poll
    <2>1. UNCHANGED <<offset, allowed, published, first>> /\ confirmed' = Seen
      BY <1>5, ConfirmKeepsSeen DEF Poll
    <2> QED
      BY <1>4, <2>1
  <1>6. CASE PollFails
    <2>1. UNCHANGED <<offset, allowed, published, first>> /\ confirmed' \in {confirmed, Seen}
      BY <1>6, ConfirmKeepsSeen DEF PollFails
    <2> QED
      BY <1>4, <2>1
  <1>7. CASE TakeUpdate
    <2>1. Head(batch) = Seen + 1
      <3>1. batch \in Seq(Nat) /\ batch # <<>>
        BY <1>7 DEF TakeUpdate, BatchFollows
      <3>2. Len(batch) >= 1 /\ Head(batch) = batch[1]
        BY <3>1
      <3>3. batch[1] = Seen + 1
        BY <1>1, <3>2 DEF BatchFollows
      <3> QED
        BY <3>2, <3>3
    <2>2. /\ UNCHANGED <<allowed, confirmed, first>> /\ offset' = Seen + 2
          /\ published' = IF allowed[Seen + 1] THEN Append(published, Seen + 1) ELSE published
      BY <1>1, <1>7, <2>1 DEF TakeUpdate, chat
    <2>3. \A i \in DOMAIN published : published[i] \in (first + 1)..(offset - 1)
      BY DEF RunFollows, PublishedInOrder
    <2>4. \A i \in DOMAIN published : published[i] < Seen + 1
      BY <1>1, <2>3
    <2>5. {id \in (first + 1)..(offset' - 1) : allowed[id]} =
            {id \in (first + 1)..(offset - 1) : allowed[id]}
              \cup (IF allowed[Seen + 1] THEN {Seen + 1} ELSE {})
      <3>1. \A id \in Int : id \in (first + 1)..(offset' - 1) <=>
                              id \in (first + 1)..(offset - 1) \/ id = Seen + 1
        BY <1>1, <2>2 DEF Seen, RunFollows
      <3> QED
        BY <1>1, <3>1
    <2>6. PublishedInOrder' /\ published' \in Seq(Nat)
      <3>1. CASE allowed[Seen + 1]
        <4>1. published \in Seq(Nat) /\ Seen + 1 \in Nat /\ Increasing(published)
          BY <1>1 DEF RunFollows, PublishedInOrder, Increasing
        <4>2. published' = Append(published, Seen + 1)
          BY <2>2, <3>1
        <4>3. /\ published' \in Seq(Nat) /\ Increasing(published')
              /\ Elements(published') = Elements(published) \cup {Seen + 1}
          BY <2>4, <4>1, <4>2, PublishedNext
        <4> QED
          BY <2>2, <2>5, <3>1, <4>3 DEF RunFollows, PublishedInOrder, Increasing, Elements
      <3>2. CASE ~allowed[Seen + 1]
        BY <2>2, <2>5, <3>2 DEF RunFollows, PublishedInOrder
      <3> QED
        BY <3>1, <3>2
    <2> QED
      BY <1>1, <2>2, <2>6 DEF RunFollows, Seen
  <1>8. CASE Restart
    <2>1. /\ offset' = 0 /\ published' = <<>> /\ first' = confirmed /\ confirmed' = confirmed
      BY <1>8 DEF Restart, BridgeRestarts, chat
    <2>2. published' \in Seq(Nat) /\ DOMAIN published' = {} /\ (first' + 1)..(offset' - 1) = {}
      BY <1>1, <2>1, EmptyBatch
    <2> QED
      BY <1>1, <2>1, <2>2 DEF RunFollows, PublishedInOrder
  <1>9. CASE UNCHANGED bridgeVars
    BY <1>9 DEF bridgeVars, telegram, chat, RunFollows, PublishedInOrder
  <1>10. UNCHANGED vars => UNCHANGED bridgeVars
    BY DEF vars
  <1> QED
    BY <1>2, <1>3, <1>5, <1>6, <1>7, <1>8, <1>9, <1>10 DEF Next, BridgeNext

\* Each run of the bridge publishes every text of the admin once and in order, beginning where
\* the server's memory did when it started, whatever polls were lost in between.
THEOREM OnceAndInOrder == Spec => []PublishedInOrder
  <1>1. RunFollows => PublishedInOrder
    BY DEF RunFollows
  <1> QED
    BY BatchFollowsInit, BatchFollowsNext, RunFollowsInit, RunFollowsNext, <1>1, PTL DEF Spec

----------------------------------------------------------------------------
\* Once the pull is done the tree has the version about to be recorded, and nothing is named
\* before it is pushed.
PulledFirst ==
    /\ {head, manifest, tree, recorded, target} \subseteq Nat
    /\ manifest <= head /\ tree <= head /\ target <= head
    /\ stage \in {"build", "record", "write"} => target <= tree
    /\ recorded <= tree

LEMMA PulledFirstInit == Init => PulledFirst
  BY DEF Init, OtaInit, PulledFirst, NoVersion

LEMMA PulledFirstNext == PulledFirst /\ [Next]_vars => PulledFirst'
  <1> SUFFICES ASSUME PulledFirst, [Next]_vars PROVE PulledFirst'
    OBVIOUS
  <1> USE DEF PulledFirst, NoVersion
  <1>1. CASE Push
    BY <1>1 DEF Push
  <1>2. CASE Announce
    BY <1>2 DEF Announce
  <1>3. CASE CheckOnce
    BY <1>3 DEF CheckOnce
  <1>4. CASE PullFails
    BY <1>4 DEF PullFails, Fails
  <1>5. CASE Pull
    BY <1>5 DEF Pull
  <1>6. CASE BuildFails
    BY <1>6 DEF BuildFails, Fails
  <1>7. CASE Build
    BY <1>7 DEF Build
  <1>8. CASE OpenVersionFile
    BY <1>8 DEF OpenVersionFile
  <1>9. CASE WriteVersionFile
    BY <1>9 DEF WriteVersionFile
  <1>10. CASE Restart
    BY <1>10 DEF Restart, OtaRestarts
  <1>11. CASE UNCHANGED ota
    BY <1>11 DEF ota
  <1>12. UNCHANGED vars => UNCHANGED ota
    BY DEF vars
  <1> QED
    BY <1>1, <1>2, <1>3, <1>4, <1>5, <1>6, <1>7, <1>8, <1>9, <1>10, <1>11, <1>12
    DEF Next, OtaNext

\* Whichever step of an update fails, and wherever a restart cuts it off, the version file names
\* a version that was pulled.
THEOREM PulledBeforeRecorded == Spec => []TreeHasRecorded
  <1>1. PulledFirst => TreeHasRecorded
    BY DEF PulledFirst, TreeHasRecorded
  <1> QED
    BY PulledFirstInit, PulledFirstNext, <1>1, PTL DEF Spec
=============================================================================
