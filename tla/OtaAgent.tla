------------------------------ MODULE OtaAgent ------------------------------
(***************************************************************************)
(* ota_agent_node with auto_apply, and container_build.sh which it runs:   *)
(* a manifest names a version, the source tree is pulled and built, and    *)
(* the version goes into a file.  Versions count up from 1; whoever        *)
(* publishes one pushes its commit before the manifest names it.           *)
(***************************************************************************)
EXTENDS Integers

CONSTANT MaxVersions    \* bound: versions released

VARIABLES
    head,           \* the newest commit of the remote repository
    manifest,       \* the version in the manifest
    tree,           \* the commit checked out
    built,          \* the commit of what colcon last built
    recorded,       \* the version file, NoVersion when missing or empty
    stage,          \* what apply_manifest does next
    target          \* the version of the manifest it has fetched

ota == <<head, manifest, tree, built, recorded, stage, target>>

ASSUME OtaAssumption == MaxVersions \in Nat

NoVersion == 0

OtaInit ==
    /\ head = 0 /\ manifest = NoVersion /\ tree = 0 /\ built = 0
    /\ recorded = NoVersion /\ stage = "idle" /\ target = NoVersion

Push == head < MaxVersions /\ head' = head + 1 /\ UNCHANGED <<manifest, tree, built, recorded, stage, target>>

Announce == manifest < head /\ manifest' = head /\ UNCHANGED <<head, tree, built, recorded, stage, target>>

MutCheckOnce ==
    /\ stage = "idle" /\ manifest # NoVersion /\ manifest # target
    /\ stage' = "pull" /\ target' = manifest
    /\ UNCHANGED <<head, manifest, tree, built, recorded>>

\* check_once and current_version
CheckOnce ==
    /\ stage = "idle" /\ manifest # NoVersion /\ manifest # recorded
    /\ stage' = "pull" /\ target' = manifest
    /\ UNCHANGED <<head, manifest, tree, built, recorded>>

\* A step that fails or takes too long ends the attempt; the next check starts another.
Fails == stage' = "idle" /\ UNCHANGED <<head, manifest, tree, built, recorded, target>>

MutPullFails == stage = "pull" /\ stage' = "build" /\ UNCHANGED <<head, manifest, tree, built, recorded, target>>
PullFails == stage = "pull" /\ Fails

Pull ==
    /\ stage = "pull" /\ stage' = "build"
    /\ tree' = head
    /\ UNCHANGED <<head, manifest, built, recorded, target>>

BuildFails == stage = "build" /\ Fails

\* container_build.sh: whether colcon succeeds or not, the script does.
Build ==
    /\ stage = "build" /\ stage' = "record"
    /\ built' \in {tree, built}
    /\ UNCHANGED <<head, manifest, tree, recorded, target>>

\* write_text empties the file before it writes it.
OpenVersionFile ==
    /\ stage = "record" /\ stage' = "write"
    /\ recorded' = NoVersion
    /\ UNCHANGED <<head, manifest, tree, built, target>>

WriteVersionFile ==
    /\ stage = "write" /\ stage' = "idle"
    /\ recorded' = target
    /\ UNCHANGED <<head, manifest, tree, built, target>>

\* container_run_patrol.sh builds before it launches.
OtaRestarts ==
    /\ stage' = "idle" /\ target' = NoVersion
    /\ built' \in {tree, built}
    /\ UNCHANGED <<head, manifest, tree, recorded>>

OtaNext ==
    \/ Push \/ Announce
    \/ CheckOnce \/ PullFails \/ Pull \/ BuildFails \/ Build \/ OpenVersionFile \/ WriteVersionFile

\* The timer runs, and now and then the network and the build let a step through.
OtaFairness ==
    /\ WF_ota(CheckOnce) /\ WF_ota(OpenVersionFile) /\ WF_ota(WriteVersionFile)
    /\ SF_ota(Pull) /\ SF_ota(Build)

\* What the version file says was pulled, through failed steps and interrupted attempts.
TreeHasRecorded == recorded <= tree
=============================================================================
