------------------------ MODULE TransitionEventsProofs ------------------------
(***************************************************************************)
(* Proofs about TransitionEvents: what survives when reconciles run on     *)
(* copies of a workload that waited in the watch.                          *)
(***************************************************************************)
EXTENDS TransitionEvents, TransitionProofs

Copies == [key : Keys, cur : [uid : UIDs, containers : Templates]]

(* Copies on their way are of objects that there are, or were before. *)
CopiesOK ==
    /\ events \in Seq(Copies)
    /\ \A i \in 1 .. Len(events) : events[i].cur.uid <= object[events[i].key].uid

-----------------------------------------------------------------------------
(***************************************************************************)
(* The copies.                                                             *)
(***************************************************************************)

(* UIDs of objects only grow. *)
LEMMA ObjectsGrow ==
    ASSUME TypeInv, TypeInv', Shaped
    PROVE  \A k \in Keys : object[k].uid <= object'[k].uid
<1>1. \A k \in Keys : object[k].uid \in Int
  BY UIDTypes
<1>2. CASE OutsideShape
  BY <1>1, <1>2 DEF OutsideShape
<1>3. CASE CallShape
  BY <1>1, <1>3 DEF CallShape
<1>4. CASE object' = object
  BY <1>1, <1>4
<1> QED BY <1>2, <1>3, <1>4 DEF Shaped, SaveShape, ForgetShape, ReadShape, Start, Begin

(* Copies stay old while objects change and further copies are sent. *)
LEMMA CopiesNext ==
    ASSUME TypeInv, TypeInv', Shaped, CopiesOK,
           UNCHANGED events \/ \E k \in Keys : Notified(k)
    PROVE  CopiesOK'
<1>1. /\ events \in Seq(Copies)
      /\ \A i \in 1 .. Len(events) :
           /\ events[i] \in Copies
           /\ events[i].cur.uid <= object[events[i].key].uid
  BY DEF CopiesOK
<1>2. \A k \in Keys : object[k].uid \in Int /\ object'[k].uid \in UIDs /\ UIDs \subseteq Int
                      /\ object'[k].containers \in Templates
  BY BoundsAssumption DEF TypeInv, TypeOK, UIDs
<1>3. \A i \in 1 .. Len(events) : events[i].cur.uid <= object'[events[i].key].uid
  <2> SUFFICES ASSUME NEW i \in 1 .. Len(events)
               PROVE  events[i].cur.uid <= object'[events[i].key].uid
    OBVIOUS
  <2>1. events[i].key \in Keys /\ events[i].cur.uid \in UIDs
    BY <1>1 DEF Copies
  <2>2. object[events[i].key].uid <= object'[events[i].key].uid
    BY <2>1, ObjectsGrow
  <2> QED BY <1>1, <1>2, <2>1, <2>2
<1>4. CASE UNCHANGED events
  BY <1>1, <1>3, <1>4 DEF CopiesOK
<1>5. CASE \E k \in Keys : Notified(k)
  <2>1. PICK k \in Keys : Notified(k)
    BY <1>5
  <2> DEFINE c == Copy(k, object'[k])
  <2>2. /\ c \in Copies /\ c.key = k /\ c.cur.uid = object'[k].uid
    BY <1>2 DEF Copy, Copies
  <2> HIDE DEF c
  <2>3. events' = Append(events, c)
    BY <2>1 DEF Notified, c
  <2>4. events' \in Seq(Copies) /\ Len(events') = Len(events) + 1
    BY <1>1, <2>2, <2>3
  <2>5. \A i \in 1 .. Len(events) + 1 :
          events'[i] = IF i = Len(events) + 1 THEN c ELSE events[i]
    BY <1>1, <2>2, <2>3
  <2>6. c.cur.uid <= object'[c.key].uid
    BY <1>2, <2>2
  <2>7. \A i \in 1 .. Len(events') : events'[i].cur.uid <= object'[events'[i].key].uid
    <3> TAKE i \in 1 .. Len(events')
    <3>1. Len(events) \in Nat
      BY <1>1
    <3> QED BY <1>3, <2>4, <2>5, <2>6, <3>1
  <2> QED BY <2>4, <2>7 DEF CopiesOK
<1> QED BY <1>4, <1>5

(* A reconcile of a copy: what it starts with, and what is left. *)
LEMMA StartEventFacts ==
    ASSUME CopiesOK, StartEvent
    PROVE  /\ CopiesOK'
           /\ pc' = "begin" /\ rec'.key \in Keys
           /\ rec'.cur \in [uid : UIDs, containers : Templates]
           /\ rec'.cur.uid <= object[rec'.key].uid
           /\ \E c \in Copies :
                rec' = [key |-> c.key, cur |-> c.cur,
                        pol |-> None, now |-> 0, doc |-> [j \in Keys |-> NoState],
                        live |-> 0, desired |-> 0, changed |-> FALSE]
           /\ UNCHANGED <<clock, object, store, chosen, contested>>
<1>1. /\ events \in Seq(Copies) /\ events # <<>>
      /\ \A i \in 1 .. Len(events) : events[i].cur.uid <= object[events[i].key].uid
  BY DEF CopiesOK, StartEvent
<1>2. Head(events) = events[1] /\ 1 \in 1 .. Len(events) /\ Head(events) \in Copies
  BY <1>1
<1>3. /\ Tail(events) \in Seq(Copies) /\ Len(Tail(events)) = Len(events) - 1
      /\ \A i \in 1 .. Len(events) - 1 : Tail(events)[i] = events[i + 1]
  BY <1>1
<1>4. events' = Tail(events) /\ UNCHANGED object
  BY DEF StartEvent
<1>5. CopiesOK'
  <2>1. Len(events) \in Nat
    BY <1>1
  <2>2. \A i \in 1 .. Len(events) - 1 : i + 1 \in 1 .. Len(events)
    BY <2>1
  <2>3. \A i \in 1 .. Len(events') : events'[i].cur.uid <= object[events'[i].key].uid
    BY <1>1, <1>3, <1>4, <2>2
  <2> QED BY <1>3, <1>4, <2>3 DEF CopiesOK
<1>6. rec'.key = Head(events).key /\ rec'.cur = Head(events).cur
  BY DEF StartEvent
<1>7. /\ rec'.key \in Keys /\ rec'.cur \in [uid : UIDs, containers : Templates]
      /\ rec'.cur.uid <= object[rec'.key].uid
  BY <1>1, <1>2, <1>6 DEF Copies
<1> QED BY <1>2, <1>5, <1>7 DEF StartEvent

(* ... is well typed. *)
LEMMA StartEventTypes ==
    ASSUME TypeInv, CopiesOK, StartEvent
    PROVE  TypeInv'
<1>1. PICK c \in Copies :
        rec' = [key |-> c.key, cur |-> c.cur,
                pol |-> None, now |-> 0, doc |-> [j \in Keys |-> NoState],
                live |-> 0, desired |-> 0, changed |-> FALSE]
  BY StartEventFacts
<1>2. NoState \in WorkloadStates
  BY BoundsAssumption DEF NoState, WorkloadStates, Times
<1>3. rec' \in Reconciles
  BY <1>1, <1>2, BoundsAssumption DEF Reconciles, Copies, Replicas, Times
<1>4. pc' = "begin" /\ UNCHANGED <<clock, object, store, chosen, contested>>
  BY StartEventFacts
<1> QED BY <1>3, <1>4 DEF TypeInv, TypeOK, Calls

-----------------------------------------------------------------------------
(***************************************************************************)
(* What holds however old the copies are.                                  *)
(***************************************************************************)

EventsOwned == OwnedInv /\ CopiesOK

LEMMA EventsOwnedInit == EInit => EventsOwned
<1>1. EInit => events \in Seq(Copies) /\ Len(events) = 0
  BY DEF EInit
<1> QED BY <1>1, OwnedInit DEF EInit, EventsOwned, CopiesOK

LEMMA EventsOwnedNext == EventsOwned /\ [ENext]_evars => EventsOwned'
<1> SUFFICES ASSUME EventsOwned, [ENext]_evars PROVE EventsOwned'
  OBVIOUS
<1>1. OwnedInv /\ CopiesOK /\ TypeInv /\ Owned
  BY DEF EventsOwned, OwnedInv
<1>2. CASE [Next]_vars /\ (UNCHANGED events \/ \E k \in Keys : Notified(k))
  <2>1. OwnedInv' /\ Shaped
    BY <1>1, <1>2, OwnedNext
  <2>2. CopiesOK'
    BY <1>1, <1>2, <2>1, CopiesNext DEF OwnedInv
  <2> QED BY <2>1, <2>2 DEF EventsOwned
<1>3. CASE StartEvent
  <2>1. TypeInv'
    BY <1>1, <1>3, StartEventTypes
  <2>2. /\ CopiesOK' /\ pc' = "begin" /\ rec'.cur.uid <= object[rec'.key].uid
        /\ UNCHANGED <<object, store>>
    BY <1>1, <1>3, StartEventFacts
  <2>3. Owned' /\ CallJustified'
    BY <1>1, <2>2 DEF Owned, OthersCurrent, Attributed, DeletionAccepted, Loaded,
                      CallJustified
  <2> QED BY <2>1, <2>2, <2>3 DEF EventsOwned, OwnedInv
<1> QED BY <1>2, <1>3 DEF ENext, evars

(* Types hold with reconciles of old copies too. *)
THEOREM EventsTypeCorrect == ESpec => []TypeOK
<1>1. EventsOwned => TypeOK
  BY DEF EventsOwned, OwnedInv, TypeInv
<1> QED BY <1>1, EventsOwnedInit, EventsOwnedNext, PTL DEF ESpec

(* A reconcile of an old copy, even of an object that was replaced since,  *)
(* writes the entry of its own workload only, and drops it only when a     *)
(* deletion was accepted (Reconcile, save).                                *)
THEOREM EventsKeepEntries == ESpec => KeyIsolation /\ ForgetsOnlyDeleted
<1> DEFINE Isolated == \A k \in Keys : store'[k] # store[k] => InFlight(k)
           Kept == \A k \in Keys : store[k].uid # NoUID /\ store'[k].uid = NoUID
                     => object[k].phase # "live" \/ object[k].uid # store[k].uid
<1>1. EventsOwned /\ [ENext]_evars => [Isolated]_vars /\ [Kept]_vars
  <2> SUFFICES ASSUME EventsOwned, [ENext]_evars PROVE [Isolated]_vars /\ [Kept]_vars
    OBVIOUS
  <2>1. CASE [Next]_vars
    BY <2>1, OneEntryAtATime, DropsOnlyDeleted DEF EventsOwned
  <2>2. CASE StartEvent
    BY <2>2 DEF StartEvent
  <2> QED BY <2>1, <2>2 DEF ENext, evars
<1> QED BY <1>1, EventsOwnedInit, EventsOwnedNext, PTL DEF ESpec, KeyIsolation, ForgetsOnlyDeleted

-----------------------------------------------------------------------------
(***************************************************************************)
(* The guarantee to owners, where objects are not recreated.               *)
(***************************************************************************)

EventsInductive == Inductive /\ CopiesOK

LEMMA EventsInductiveNext ==
    ASSUME TargetsAgree, WindowsAreShort, MaxUID = 1
    PROVE  EventsOwned /\ EventsInductive /\ [ENext]_evars => EventsInductive'
<1> SUFFICES ASSUME EventsOwned, EventsInductive, [ENext]_evars PROVE EventsInductive'
  OBVIOUS
<1>1. CopiesOK'
  BY EventsOwnedNext DEF EventsOwned
<1>2. CASE [Next]_vars
  BY <1>1, <1>2, InductiveNext DEF EventsInductive
<1>3. CASE StartEvent
  <2>1. /\ pc' = "begin" /\ rec'.key \in Keys /\ rec'.cur.uid \in UIDs
        /\ UNCHANGED <<clock, object, store, chosen, contested>>
    BY <1>3, StartEventFacts DEF EventsInductive
  <2>2. TypeOK'
    BY <1>3, StartEventTypes DEF EventsOwned, OwnedInv, TypeInv
  <2>3. rec'.cur.uid = object[rec'.key].uid /\ object[rec'.key].uid \in Int
    BY <2>1, UIDTypes DEF EventsOwned, OwnedInv, UIDs
  <2> USE DEF EventsInductive, Inductive
  <2>4. UIDsGrow'
    BY <2>1, <2>3 DEF UIDsGrow
  <2>5. DocCurrent' /\ CallFacts'
    BY <2>1 DEF DocCurrent, CallFacts
  <2>6. Recorded'
    BY <2>1 DEF Recorded, HoldsSnapshot
  <2>7. Anchored'
    BY <2>1 DEF Anchored, AnchoredAt
  <2> QED BY <1>1, <2>2, <2>4, <2>5, <2>6, <2>7
<1> QED BY <1>2, <1>3 DEF ENext, evars

(* Reconciles of copies that are older than what Run has reconciled since  *)
(* never lose the owner's replica count, under the conditions on policies  *)
(* of IntentIsRecorded, as long as no workload is recreated under its name *)
(* (superviseWorkloads, Controller.Run, Reconcile).                        *)
THEOREM EventsIntentIsRecorded ==
    ASSUME TargetsAgree, WindowsAreShort, MaxUID = 1
    PROVE  ESpec => []IntentRecorded
<1>1. EInit => EventsOwned /\ EventsInductive
  BY EventsOwnedInit, InductiveInit DEF EInit, EventsInductive, EventsOwned
<1>2. EventsOwned /\ EventsInductive /\ [ENext]_evars => (EventsOwned /\ EventsInductive)'
  BY EventsOwnedNext, EventsInductiveNext
<1>3. EventsOwned /\ EventsInductive => IntentRecorded
  BY DEF EventsInductive, Inductive, Recorded, IntentRecorded, HoldsSnapshot
<1> QED BY <1>1, <1>2, <1>3, PTL DEF ESpec
=============================================================================
