------------------------- MODULE MCTransitionEvents -------------------------
(* Constants for model checking TransitionEvents. *)
EXTENDS TransitionEvents

CONSTANTS
    ScheduledTarget, MaxAge,
    MonTicks, TueTicks   \* the instants of the two window instances

(* Two images of one application container. *)
MCTemplates == {[app |-> "v1"], [app |-> "v2"]}

MCWindow == [t \in Times |-> CASE t \in MonTicks -> "mon"
                               [] t \in TueTicks -> "tue"
                               [] OTHER -> None]

MCPolicies ==
    {[maxAge |-> MaxAge, expired |-> 0, scheduledDown |-> ScheduledTarget,
      expiredAction |-> "scale", tracked |-> AllContainers, window |-> MCWindow]}

MCInstances == {"mon", "tue"}
=============================================================================
