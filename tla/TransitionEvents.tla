--------------------------- MODULE TransitionEvents ---------------------------
(***************************************************************************)
(* Transition fed by the workload watch: Controller.Run reconciles the     *)
(* workload copy a watch event carries, and that copy may have waited in   *)
(* the stream, in its forwarder and in superviseWorkloads' sendRequest     *)
(* while Run reconciled newer ones from a List.  Full reconciliations, of  *)
(* the ticker and of deletion events, remain Start.                        *)
(***************************************************************************)
EXTENDS Transition, Sequences

CONSTANT MaxEvents  \* bound: workload events on their way to Run

ASSUME EventsAssumption == MaxEvents \in Nat

VARIABLE events  \* workload copies on their way, oldest first

evars == <<vars, events>>

Copy(k, o) == [key |-> k, cur |-> [uid |-> o.uid, containers |-> o.containers]]

EInit == Init /\ events = <<>>

(* An added or modified event of every change of an object, unless the     *)
(* watch is down.                                                          *)
Notified(k) ==
    /\ object'[k] # object[k] /\ object'[k].phase # "gone"
    /\ Len(events) < MaxEvents
    /\ events' = Append(events, Copy(k, object'[k]))

(* Run receives the request of superviseWorkloads. *)
StartEvent ==
    /\ pc = "idle" /\ events # <<>>
    /\ pc' = "begin"
    /\ rec' = [key |-> Head(events).key, cur |-> Head(events).cur,
               pol |-> None, now |-> 0, doc |-> [j \in Keys |-> NoState],
               live |-> 0, desired |-> 0, changed |-> FALSE]
    /\ events' = Tail(events)
    /\ UNCHANGED <<clock, object, store, chosen, contested>>

ENext ==
    \/ Next /\ (UNCHANGED events \/ \E k \in Keys : Notified(k))
    \/ StartEvent

ESpec == EInit /\ [][ENext]_evars

(* Nothing is assumed of the watch: events may be lost or late for ever,   *)
(* the ticker's reconciles are enough.                                     *)
EFairSpec == ESpec /\ Fairness

=============================================================================
