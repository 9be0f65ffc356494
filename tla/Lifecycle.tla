----------------------------- MODULE Lifecycle -----------------------------
(***************************************************************************)
(* The pure decision engine (internal/lifecycle): the identity of the      *)
(* deployed images and the lifecycle decision of one reconcile.            *)
(*                                                                         *)
(* A workload's regular containers are a function from container names to  *)
(* images; a SHA-256 hash of a canonical value is the value itself.        *)
(***************************************************************************)
EXTENDS Integers

CONSTANTS
    None,           \* the nil pointer / empty string of the code
    AllContainers   \* a tracking specification that lists no containers

ASSUME NoneIsNoNumber == None \notin Int

(***************************************************************************)
(* Revision identity (revision.go).                                        *)
(***************************************************************************)

(* selectContainers: the names a tracking specification selects. *)
TrackedNames(containers, tracked) ==
    IF tracked = AllContainers THEN DOMAIN containers ELSE tracked

(* CalculateRevision fails when there is nothing to track or a named       *)
(* container is missing; the reconcile then returns before any write.      *)
Trackable(containers, tracked) ==
    /\ TrackedNames(containers, tracked) # {}
    /\ TrackedNames(containers, tracked) \subseteq DOMAIN containers

(* The hash of the canonical tracking definition: its mode and its names. *)
TrackingSpecHash(containers, tracked) ==
    <<tracked = AllContainers, TrackedNames(containers, tracked)>>

(* The hash of the selected name/image pairs. *)
RevisionHash(containers, tracked) ==
    [n \in TrackedNames(containers, tracked) |-> containers[n]]

(***************************************************************************)
(* The decision (decision.go).  SnapshotReplicas is None for a nil         *)
(* pointer; the reason strings are reduced to the branch that was taken.   *)
(***************************************************************************)

Reasons == {"expired", "deleted", "skipped", "window", "restore", "active"}

Lesser(a, b) == IF a < b THEN a ELSE b

downDecision(currentReplicas, snapshotReplicas, target, reason) ==
    LET baseline == IF snapshotReplicas = None THEN currentReplicas
                                               ELSE snapshotReplicas
        desired == Lesser(target, baseline)
    IN  [desired |-> desired, reason |-> reason,
         needsSnapshot |-> snapshotReplicas = None,
         shouldScale |-> desired # currentReplicas,
         clearSnapshot |-> FALSE, delete |-> FALSE]

NoScaling(currentReplicas, reason) ==
    [desired |-> currentReplicas, reason |-> reason, needsSnapshot |-> FALSE,
     shouldScale |-> FALSE, clearSnapshot |-> FALSE, delete |-> FALSE]

Expired(now, firstSeenAt, maxAge) == now >= firstSeenAt + maxAge

(* Slip: a missing snapshot is not noticed. *)
RestorableUnchecked(snapshot) == TRUE

Restorable(snapshot) == snapshot # None

(* p is the selected policy, scheduledDown whether a down window is open,  *)
(* skipped whether the current window instance is exempted.                *)
Decide(p, now, firstSeenAt, current, snapshot, scheduledDown, skipped) ==
    IF Expired(now, firstSeenAt, p.maxAge)
    THEN IF p.expiredAction = "delete"
         THEN [NoScaling(current, "deleted") EXCEPT !.delete = TRUE]
         ELSE downDecision(current, snapshot, p.expired, "expired")
    ELSE IF scheduledDown
    THEN IF skipped
         THEN NoScaling(current, "skipped")
         ELSE downDecision(current, snapshot, p.scheduledDown, "window")
    ELSE IF Restorable(snapshot)
    THEN [desired |-> snapshot, reason |-> "restore",
          needsSnapshot |-> FALSE,
          shouldScale |-> snapshot # current,
          clearSnapshot |-> TRUE, delete |-> FALSE]
    ELSE NoScaling(current, "active")
=============================================================================
