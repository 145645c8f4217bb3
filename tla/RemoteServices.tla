--------------------------- MODULE RemoteServices ---------------------------
(***************************************************************************)
(* The nodes that talk to the outside, in a container that is restarted at *)
(* any moment: by its operator after an update, or by a power cut.  Only   *)
(* what is on disk or at the other side survives.                          *)
(***************************************************************************)
EXTENDS TelegramBridge, OtaAgent

CONSTANT MaxRestarts    \* bound: restarts of the container

VARIABLE restarts

vars == <<bridgeVars, ota, restarts>>

ASSUME RestartsAssumption == MaxRestarts \in Nat

TypeOK ==
    /\ bridge \in {"up", "ended"} /\ offset \in 0..(MaxUpdates + 1)
    /\ batch \in Seq(1..MaxUpdates) /\ failures \in 0..(MaxExponent + 1) /\ wait \in 0..MaxBackoff
    /\ allowed \in Seq(BOOLEAN) /\ confirmed \in 0..MaxUpdates /\ first \in 0..confirmed
    /\ published \in Seq(1..MaxUpdates) /\ delivered \subseteq 1..MaxUpdates
    /\ {head, manifest, tree, built, recorded, target} \subseteq 0..MaxVersions
    /\ stage \in {"idle", "pull", "build", "record", "write"}
    /\ restarts \in 0..MaxRestarts

Init == BridgeInit /\ OtaInit /\ restarts = 0

Restart ==
    /\ restarts < MaxRestarts /\ restarts' = restarts + 1
    /\ BridgeRestarts /\ OtaRestarts

Next ==
    \/ BridgeNext /\ UNCHANGED <<ota, restarts>>
    \/ OtaNext /\ UNCHANGED <<bridgeVars, restarts>>
    \/ Restart

Spec == Init /\ [][Next]_vars
FairSpec == Spec /\ BridgeFairness /\ OtaFairness

\* A text of the admin is published in the end, through lost polls, backoff and restarts,
\* unless an outage outlasts the exponent.
TextArrives ==
    \A id \in 1..MaxUpdates :
      (id <= Len(allowed) /\ allowed[id]) ~> (id \in delivered \/ bridge = "ended")

\* An announced version is recorded in the end, or a later one is: whichever step failed or was
\* cut off, the next check takes the update up again.
UpdateSettles == manifest # NoVersion ~> recorded = manifest

----------------------------------------------------------------------------
(* What messages promise and the code does not do.                         *)

\* "ota built; restart the container to run the updated code" (ota_agent_node.py:67): a version
\* that is recorded has been built.
RecordedIsBuilt == recorded <= built
=============================================================================
