--------------------------- MODULE TelegramBridge ---------------------------
(***************************************************************************)
(* telegram_bridge_node: polls the chat and publishes what the admin       *)
(* writes.  The server gives a poll the updates from `offset` on and       *)
(* forgets the earlier ones; the node keeps the offset in memory only.     *)
(* Time is counted in runs of the poll timer.                              *)
(***************************************************************************)
EXTENDS Integers, Sequences

CONSTANTS
    MaxUpdates,     \* bound: updates written to the chat
    MaxBackoff,     \* max_backoff_seconds, in polls
    MaxExponent     \* the last exponent at which the product is a float

VARIABLES
    bridge,         \* "up", or "ended"
    offset,         \* the first update it has not seen
    batch,          \* the updates of a response it has yet to go through
    failures,       \* consecutive_poll_failures
    wait,           \* timer runs until next_poll_allowed_at
    allowed,        \* per update written: a text from the allowed chat
    confirmed,      \* the updates the server has forgotten
    published,      \* /ccai/admin_text since the node started
    first,          \* ghost: the updates forgotten when it started
    delivered       \* ghost: all that was ever published

telegram == <<bridge, offset, batch, failures, wait>>
chat == <<allowed, confirmed>>
bridgeVars == <<telegram, chat, published, first, delivered>>

ASSUME BridgeAssumption ==
    {MaxUpdates, MaxExponent} \subseteq Nat /\ MaxBackoff \in Nat \ {0}

BridgeInit ==
    /\ bridge = "up" /\ offset = 0 /\ batch = <<>> /\ failures = 0 /\ wait = 0
    /\ allowed = <<>> /\ confirmed = 0
    /\ published = <<>> /\ first = 0 /\ delivered = {}

\* Somebody writes to the bot; is_allowed and a text, or not.
Write ==
    /\ Len(allowed) < MaxUpdates
    /\ \E ok \in BOOLEAN : allowed' = Append(allowed, ok)
    /\ UNCHANGED <<telegram, confirmed, published, first, delivered>>

\* getUpdates as the server takes it.
Confirm == confirmed' = IF offset > confirmed THEN offset - 1 ELSE confirmed

Idle == bridge = "up" /\ batch = <<>>

MutBackoff == Idle /\ wait > 0 /\ UNCHANGED bridgeVars

\* The timer runs before next_poll_allowed_at.
Backoff ==
    /\ Idle /\ wait > 0
    /\ wait' = wait - 1
    /\ UNCHANGED <<bridge, offset, batch, failures, chat, published, first, delivered>>

Poll ==
    /\ Idle /\ wait = 0
    /\ Confirm
    /\ batch' = [i \in 1..(Len(allowed) - confirmed') |-> confirmed' + i]
    /\ failures' = 0
    /\ UNCHANGED <<bridge, offset, wait, allowed, published, first, delivered>>

MutTakeUpdate ==
    /\ bridge = "up" /\ batch # <<>>
    /\ LET id == Head(batch) IN
         /\ offset' = IF offset > id THEN offset ELSE id
         /\ published' = IF allowed[id] THEN Append(published, id) ELSE published
         /\ delivered' = IF allowed[id] THEN delivered \cup {id} ELSE delivered
    /\ batch' = Tail(batch)
    /\ UNCHANGED <<bridge, failures, wait, chat, first>>

MutTakeUpdateOfMany ==
    /\ bridge = "up" /\ batch # <<>>
    /\ LET id == Head(batch) IN
         /\ offset' = IF offset > batch[Len(batch)] + 1 THEN offset ELSE batch[Len(batch)] + 1
         /\ published' = IF allowed[id] THEN Append(published, id) ELSE published
         /\ delivered' = IF allowed[id] THEN delivered \cup {id} ELSE delivered
    /\ batch' = <<>>
    /\ UNCHANGED <<bridge, failures, wait, chat, first>>

\* The loop over a response; send_message catches what fails in it.
TakeUpdate ==
    /\ bridge = "up" /\ batch # <<>>
    /\ LET id == Head(batch) IN
         /\ offset' = IF offset > id + 1 THEN offset ELSE id + 1
         /\ published' = IF allowed[id] THEN Append(published, id) ELSE published
         /\ delivered' = IF allowed[id] THEN delivered \cup {id} ELSE delivered
    /\ batch' = Tail(batch)
    /\ UNCHANGED <<bridge, failures, wait, chat, first>>

\* poll_seconds * 2 ** failures, which past MaxExponent is no float any more: the exception
\* leaves the except clause, the timer and the node.
PollFails ==
    /\ Idle /\ wait = 0
    /\ Confirm \/ UNCHANGED confirmed       \* the request was lost, or the answer
    /\ failures' = failures + 1
    /\ IF failures' > MaxExponent
       THEN bridge' = "ended" /\ UNCHANGED wait
       ELSE /\ wait' = IF 2 ^ failures' < MaxBackoff THEN 2 ^ failures' ELSE MaxBackoff
            /\ UNCHANGED bridge
    /\ UNCHANGED <<offset, batch, allowed, published, first, delivered>>

BridgeRestarts ==
    /\ bridge' = "up" /\ offset' = 0 /\ batch' = <<>> /\ failures' = 0 /\ wait' = 0
    /\ published' = <<>> /\ first' = confirmed
    /\ UNCHANGED <<chat, delivered>>

BridgeNext == Write \/ Backoff \/ Poll \/ TakeUpdate \/ PollFails

\* The timer runs, and now and then the network lets a poll through.
BridgeFairness ==
    /\ WF_bridgeVars(Backoff) /\ WF_bridgeVars(TakeUpdate) /\ SF_bridgeVars(Poll)

\* Since the node started it has published every text up to its offset once and in order,
\* beginning where the server's memory does.
PublishedInOrder ==
    /\ \A i, j \in DOMAIN published : i < j => published[i] < published[j]
    /\ {published[i] : i \in DOMAIN published} = {id \in (first + 1)..(offset - 1) : allowed[id]}

\* The server forgets no text that was not published, by this node or one before it.
NoneForgotten == \A id \in 1..confirmed : allowed[id] => id \in delivered
=============================================================================
