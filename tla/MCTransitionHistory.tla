------------------------- MODULE MCTransitionHistory -------------------------
(* Constants for model checking TransitionHistory. *)
EXTENDS TransitionHistory

CONSTANTS
    MaxAge,              \* bound: the policies' maxAge, in ticks
    Actions,             \* the expired actions among the policies
    Tracking,            \* the tracking definitions among the policies
    MonTicks, TueTicks   \* the instants of the two window instances

(* Two images of the application, one of its sidecar. *)
MCTemplates ==
    {[app |-> "v1", sidecar |-> "s1"], [app |-> "v2", sidecar |-> "s1"]}

MCWindow == [t \in Times |-> CASE t \in MonTicks -> "mon"
                               [] t \in TueTicks -> "tue"
                               [] OTHER -> None]

MCPolicies ==
    {[maxAge |-> MaxAge, expired |-> 0, scheduledDown |-> 0,
      expiredAction |-> action, tracked |-> tracked, window |-> MCWindow] :
         action \in Actions, tracked \in Tracking}

MCInstances == {"mon", "tue"}

(* The instances satisfy the condition of the proof of ExemptionHolds. *)
ASSUME StretchesAssumption == InstancesAreStretches
=============================================================================
