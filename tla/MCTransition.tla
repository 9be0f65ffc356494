---------------------------- MODULE MCTransition ----------------------------
(* Constants for model checking Transition. *)
EXTENDS Transition

CONSTANTS
    MaxAge,            \* bound: the policies' maxAge, in ticks
    ExpiredTarget, ScheduledTarget,
    Actions,           \* the expired actions among the policies
    Tracking,          \* the tracking definitions among the policies
    MonTicks, TueTicks,  \* the instants of the two window instances
    Busy,              \* the workloads whose owners act
    Guarded            \* whether the policies meet the guarantee's conditions

(* Two images of one application container. *)
MCTemplates == {[app |-> "v1"], [app |-> "v2"]}

MCWindow == [t \in Times |-> CASE t \in MonTicks -> "mon"
                               [] t \in TueTicks -> "tue"
                               [] OTHER -> None]

MCPolicies ==
    {[maxAge |-> MaxAge, expired |-> ExpiredTarget, scheduledDown |-> ScheduledTarget,
      expiredAction |-> action, tracked |-> tracked, window |-> MCWindow] :
         action \in Actions, tracked \in Tracking}

MCInstances == {"mon", "tue"}

(* Bound: all that the owners of the other workloads do is to have them. *)
OthersAreQuiet == \A k \in Keys \ Busy :
    /\ object[k].uid = 1 /\ object[k].phase = "live"
    /\ object[k].containers = [app |-> "v1"]
    /\ chosen[k] = MaxReplicas /\ ~contested[k]

ASSUME GuardedAssumption == Guarded = (TargetsAgree /\ WindowsAreShort)
=============================================================================
