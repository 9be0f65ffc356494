-------------------------- MODULE TransitionProofs --------------------------
(***************************************************************************)
(* Machine-checked proofs about Transition, for every set of keys,         *)
(* templates and policies and every bound.                                 *)
(***************************************************************************)
EXTENDS Transition, TLAPS

-----------------------------------------------------------------------------
(***************************************************************************)
(* The inductive invariant.                                                *)
(***************************************************************************)

(* UIDs only grow: neither the durable entry nor the reconcile in flight   *)
(* is ahead of the object, and when it is behind, the owner recreated the  *)
(* object during the reconcile.                                            *)
UIDsGrow ==
    /\ \A k \in Keys : store[k].uid <= object[k].uid
    /\ pc # "idle" =>
         /\ rec.cur.uid <= object[rec.key].uid
         /\ rec.cur.uid # object[rec.key].uid /\ object[rec.key].phase = "live"
            => contested[rec.key]

(* The document of the reconcile in flight is the durable one, but for the *)
(* entry being reconciled, whose snapshot has not changed since.           *)
DocCurrent ==
    pc \notin {"idle", "begin"} =>
      LET k == rec.key IN
        /\ rec.doc[k].uid = rec.cur.uid
        /\ \A j \in Keys \ {k} : rec.doc[j] = store[j]
        /\ pc = "saveIdentity" =>
             rec.doc[k].snapshot = IF store[k].uid = rec.cur.uid
                                   THEN store[k].snapshot ELSE None
        /\ pc # "saveIdentity" =>
             store[k].uid = rec.cur.uid /\ rec.doc[k].snapshot = store[k].snapshot

(* A live, uncontested workload either holds its owner's count in a        *)
(* snapshot, or runs at that count.                                        *)
Recorded == \A k \in Keys :
    object[k].phase = "live" /\ ~contested[k] =>
      IF HoldsSnapshot(k)
      THEN /\ store[k].snapshot = chosen[k]
           /\ \/ object[k].replicas = chosen[k]
              \/ \A p \in Policies : object[k].replicas <= p.scheduledDown
      ELSE object[k].replicas = chosen[k]

(* What the pending call relies on. *)
CallFacts ==
    pc # "idle" =>
      LET k  == rec.key
          st == rec.doc[k]
          clean == object[k].phase = "live" /\ ~contested[k]
      IN  /\ pc \in {"redeployScale", "scaleDown", "restore", "scale"} => st.snapshot # None
          /\ pc \in {"scaleDown", "scale"} => \A p \in Policies : rec.desired <= p.scheduledDown
          /\ pc = "restore" => rec.desired = st.snapshot
          /\ pc = "saveSnapshot" =>
                /\ st.snapshot = None
                /\ rec.desired # rec.live => \A p \in Policies : rec.desired <= p.scheduledDown
          /\ pc \in {"saveRedeploy", "saveOverride", "saveClear"} /\ clean =>
                object[k].replicas = chosen[k]
          /\ pc \in {"saveOverride", "saveSnapshot"} /\ clean => object[k].replicas = rec.live
          /\ pc = "saveDeleted" => ~clean
          /\ pc \in {"redeployScale", "saveRedeploy"} =>
                /\ rec.pol.window[rec.now] # None
                /\ ~Expired(rec.now, st.firstSeen, rec.pol.maxAge)

(* The window instance in an entry was open at some instant before t, and  *)
(* no later than the entry's revision was first seen if that revision is   *)
(* not the one the window was entered with.                                *)
AnchoredAt(st, t) ==
    st.windowId # None =>
      \E p \in Policies, s \in Times :
        /\ p.window[s] = st.windowId
        /\ s <= t
        /\ st.entryRev # st.revision => s <= st.firstSeen

Anchored ==
    /\ \A k \in Keys : AnchoredAt(store[k], clock)
    /\ pc \notin {"idle", "begin"} =>
         /\ rec.now <= clock
         /\ AnchoredAt(rec.doc[rec.key], rec.now)

Inductive ==
    TypeOK /\ UIDsGrow /\ DocCurrent /\ Recorded /\ CallFacts /\ Anchored

-----------------------------------------------------------------------------
(***************************************************************************)
(* Facts about the decision.                                               *)
(***************************************************************************)

(* What Decide returns: a replica count some owner chose, and which of its *)
(* flags go together.  A recorded skip inside a window leads to no call.   *)
Sound(d, p, now, first, live, snap, down, skipped) ==
    /\ d.desired \in Replicas
    /\ d.delete \in BOOLEAN /\ d.needsSnapshot \in BOOLEAN
    /\ d.clearSnapshot \in BOOLEAN /\ d.shouldScale \in BOOLEAN
    /\ d.needsSnapshot =>
         /\ snap = None
         /\ d.desired # live => d.desired <= p.expired \/ d.desired <= p.scheduledDown
    /\ d.clearSnapshot => snap # None /\ d.desired = snap
    /\ d.shouldScale /\ ~d.clearSnapshot /\ ~d.needsSnapshot =>
         /\ snap # None
         /\ d.desired <= p.expired \/ d.desired <= p.scheduledDown
    /\ ~Expired(now, first, p.maxAge) /\ down /\ skipped =>
         ~d.delete /\ ~d.needsSnapshot /\ ~d.clearSnapshot /\ ~d.shouldScale
    /\ d.delete => Expired(now, first, p.maxAge)
    /\ d.needsSnapshot \/ (d.shouldScale /\ ~d.clearSnapshot) =>
         Expired(now, first, p.maxAge) \/ (down /\ ~skipped)

(* What a decision is, in every case of Decide. *)
LEMMA DecideSound ==
    ASSUME NEW p \in Policies, NEW now \in Times, NEW first \in Times,
           NEW live \in Replicas, NEW snap \in Replicas \cup {None},
           NEW down \in BOOLEAN, NEW skipped \in BOOLEAN
    PROVE  Sound(Decide(p, now, first, live, snap, down, skipped),
                 p, now, first, live, snap, down, skipped)
<1> DEFINE d == Decide(p, now, first, live, snap, down, skipped)
<1> SUFFICES Sound(d, p, now, first, live, snap, down, skipped)
  OBVIOUS
<1> USE DEF Sound
<1> USE NoneIsNoNumber DEF Replicas
<1>1. /\ p.expired \in Nat /\ p.scheduledDown \in Nat
      /\ MaxReplicas \in Nat
  BY BoundsAssumption, PoliciesAssumption
<1>2. ASSUME NEW t \in Nat, NEW reason, d = downDecision(live, snap, t, reason)
      PROVE  /\ d.desired \in Replicas /\ d.desired <= t
             /\ d.delete = FALSE /\ d.needsSnapshot = (snap = None)
             /\ d.clearSnapshot = FALSE /\ d.shouldScale = (d.desired # live)
  BY <1>1, <1>2 DEF downDecision, Lesser
<1>3. ASSUME NEW reason, d = NoScaling(live, reason)
      PROVE  /\ d.desired \in Replicas /\ d.delete = FALSE
             /\ d.needsSnapshot = FALSE /\ d.clearSnapshot = FALSE
             /\ d.shouldScale = FALSE
  BY <1>3 DEF NoScaling
<1>4. CASE Expired(now, first, p.maxAge) /\ p.expiredAction = "delete"
  BY <1>4 DEF Decide, Restorable, NoScaling
<1>5. CASE Expired(now, first, p.maxAge) /\ p.expiredAction # "delete"
  <2>1. d = downDecision(live, snap, p.expired, "expired")
    BY <1>5 DEF Decide, Restorable
  <2> QED BY <1>1, <1>2, <1>5, <2>1
<1>6. CASE ~Expired(now, first, p.maxAge) /\ down /\ skipped
  <2>1. d = NoScaling(live, "skipped")
    BY <1>6 DEF Decide, Restorable
  <2> QED BY <1>3, <1>6, <2>1
<1>7. CASE ~Expired(now, first, p.maxAge) /\ down /\ ~skipped
  <2>1. d = downDecision(live, snap, p.scheduledDown, "window")
    BY <1>7 DEF Decide, Restorable
  <2> QED BY <1>1, <1>2, <1>7, <2>1
<1>8. CASE ~Expired(now, first, p.maxAge) /\ ~down /\ snap # None
  BY <1>8 DEF Decide, Restorable
<1>9. CASE ~Expired(now, first, p.maxAge) /\ ~down /\ snap = None
  <2>1. d = NoScaling(live, "active")
    BY <1>9 DEF Decide, Restorable
  <2> QED BY <1>3, <1>9, <2>1
<1> QED BY <1>4, <1>5, <1>6, <1>7, <1>8, <1>9

(* The call that follows a decision tells which flags it had. *)
LEMMA NextCallFacts ==
    ASSUME NEW d, NEW b \in BOOLEAN,
           d.delete \in BOOLEAN, d.needsSnapshot \in BOOLEAN,
           d.clearSnapshot \in BOOLEAN, d.shouldScale \in BOOLEAN
    PROVE  /\ NextCall(d, b) \in {"delete", "saveSnapshot", "restore", "scale",
                                  "idle", "saveState"}
           /\ NextCall(d, b) = "delete" => d.delete
           /\ NextCall(d, b) = "saveSnapshot" => d.needsSnapshot
           /\ NextCall(d, b) = "restore" => d.clearSnapshot
           /\ NextCall(d, b) = "scale" =>
                d.shouldScale /\ ~d.clearSnapshot /\ ~d.needsSnapshot
           /\ ~d.delete /\ ~d.needsSnapshot /\ ~d.clearSnapshot /\ ~d.shouldScale
              => NextCall(d, b) \in {"idle", "saveState"}
  BY DEF NextCall

-----------------------------------------------------------------------------
(***************************************************************************)
(* Type correctness.  The one fact it needs beyond TypeOK: a reconcile     *)
(* about to restore because of a redeploy has a snapshot to restore.       *)
(***************************************************************************)

TypeInv == TypeOK /\ (pc = "redeployScale" => rec.doc[rec.key].snapshot # None)

(* The local computations of a reconcile yield workload states. *)
LEMMA StatesClosed ==
    ASSUME NEW st \in WorkloadStates, NEW p \in Policies, NEW now \in Times,
           NEW cur \in [uid : UIDs, containers : Templates]
    PROVE  /\ NoState \in WorkloadStates
           /\ reconcileIdentity(st, cur, p, now) \in WorkloadStates
           /\ p.window[now] \in Instances \cup {None}
           /\ EnterWindow(st, p.window[now]) \in WorkloadStates
           /\ EnterWindow(st, p.window[now]).snapshot = st.snapshot
           /\ EnterWindow(st, p.window[now]).uid = st.uid
           /\ EnterWindow(st, p.window[now]).firstSeen = st.firstSeen
           /\ EnterWindow(st, p.window[now]).revision = st.revision
<1>1. NoState \in WorkloadStates
  BY BoundsAssumption DEF NoState, WorkloadStates, Times
<1>2. p.window[now] \in Instances \cup {None}
  BY PoliciesAssumption
<1>3. /\ TrackingSpecHash(cur.containers, p.tracked) \in TrackingHashes
      /\ RevisionHash(cur.containers, p.tracked) \in RevisionHashes
  BY DEF TrackingHashes, RevisionHashes
<1>4. reconcileIdentity(st, cur, p, now) \in WorkloadStates
  BY <1>1, <1>3 DEF reconcileIdentity, WorkloadStates
<1>5. ASSUME NEW id \in Instances \cup {None}
      PROVE  /\ EnterWindow(st, id) \in WorkloadStates
             /\ EnterWindow(st, id).snapshot = st.snapshot
             /\ EnterWindow(st, id).uid = st.uid
             /\ EnterWindow(st, id).firstSeen = st.firstSeen
             /\ EnterWindow(st, id).revision = st.revision
  BY DEF EnterWindow, reconcileWindowCycle, WorkloadStates
<1> QED BY <1>1, <1>2, <1>4, <1>5

(* ... and so do the updates made before a save. *)
LEMMA StateUpdates ==
    ASSUME NEW st \in WorkloadStates, NEW v \in Replicas \cup {None},
           NEW s \in {None, "redeploy", "override"},
           NEW doc \in [Keys -> WorkloadStates], NEW k \in Keys
    PROVE  /\ [st EXCEPT !.snapshot = v, !.skip = s] \in WorkloadStates
           /\ [doc EXCEPT ![k].snapshot = v] \in [Keys -> WorkloadStates]
<1>1. [st EXCEPT !.snapshot = v, !.skip = s] \in WorkloadStates
  BY DEF WorkloadStates
<1>2. \A e \in WorkloadStates : [e EXCEPT !.snapshot = v] \in WorkloadStates
  BY DEF WorkloadStates
<1>3. [doc EXCEPT ![k].snapshot = v] = [doc EXCEPT ![k] = [doc[k] EXCEPT !.snapshot = v]]
  OBVIOUS
<1> QED BY <1>1, <1>2, <1>3

(* Where Proceed leads, with which locals, and what is known there. *)
LEMMA ProceedFacts ==
    ASSUME NEW r \in Reconciles, r.pol \in Policies, NEW st \in WorkloadStates,
           Proceed(r, st)
    PROVE  /\ pc' \in {"delete", "saveSnapshot", "restore", "scale", "idle", "saveState"}
           /\ pc' = "idle" => rec' = None
           /\ pc' # "idle" =>
                /\ rec' \in Reconciles
                /\ rec'.key = r.key /\ rec'.cur = r.cur /\ rec'.pol = r.pol
                /\ rec'.now = r.now /\ rec'.live = r.live
                /\ rec'.doc = [r.doc EXCEPT ![r.key] = st]
           /\ pc' = "saveSnapshot" =>
                /\ st.snapshot = None
                /\ rec'.desired # r.live =>
                     rec'.desired <= r.pol.expired \/ rec'.desired <= r.pol.scheduledDown
           /\ pc' = "restore" => st.snapshot # None /\ rec'.desired = st.snapshot
           /\ pc' = "scale" =>
                /\ st.snapshot # None
                /\ rec'.desired <= r.pol.expired \/ rec'.desired <= r.pol.scheduledDown
           /\ /\ ~Expired(r.now, st.firstSeen, r.pol.maxAge)
              /\ r.pol.window[r.now] # None
              /\ st.skip # None
              => pc' \in {"idle", "saveState"}
           /\ pc' \in {"saveSnapshot", "scale"} =>
                \/ Expired(r.now, st.firstSeen, r.pol.maxAge)
                \/ r.pol.window[r.now] # None /\ st.skip = None
           /\ pc' = "delete" => Expired(r.now, st.firstSeen, r.pol.maxAge)
<1> DEFINE d == DecisionFor(r, st)
           down == r.pol.window[r.now] # None
           skipped == st.skip # None
           next == [r EXCEPT !.doc[r.key] = st, !.desired = d.desired]
<1>1. /\ r.now \in Times /\ st.firstSeen \in Times /\ r.live \in Replicas
      /\ st.snapshot \in Replicas \cup {None} /\ r.changed \in BOOLEAN
      /\ down \in BOOLEAN /\ skipped \in BOOLEAN
  BY DEF Reconciles, WorkloadStates
<1>2. d = Decide(r.pol, r.now, st.firstSeen, r.live, st.snapshot, down, skipped)
  BY DEF DecisionFor
<1>3. Sound(d, r.pol, r.now, st.firstSeen, r.live, st.snapshot, down, skipped)
  <2> HIDE DEF d, down, skipped
  <2> QED BY <1>1, <1>2, DecideSound, ZenonT(30)
<1>4. /\ NextCall(d, r.changed) \in {"delete", "saveSnapshot", "restore", "scale",
                                    "idle", "saveState"}
      /\ NextCall(d, r.changed) = "delete" => d.delete
      /\ NextCall(d, r.changed) = "saveSnapshot" => d.needsSnapshot
      /\ NextCall(d, r.changed) = "restore" => d.clearSnapshot
      /\ NextCall(d, r.changed) = "scale" =>
           d.shouldScale /\ ~d.clearSnapshot /\ ~d.needsSnapshot
      /\ ~d.delete /\ ~d.needsSnapshot /\ ~d.clearSnapshot /\ ~d.shouldScale
           => NextCall(d, r.changed) \in {"idle", "saveState"}
  <2> HIDE DEF d
  <2> QED BY <1>1, <1>3, NextCallFacts DEF Sound
<1>5. /\ next \in Reconciles
      /\ next.key = r.key /\ next.cur = r.cur /\ next.pol = r.pol
      /\ next.now = r.now /\ next.live = r.live
      /\ next.doc = [r.doc EXCEPT ![r.key] = st]
      /\ next.desired = d.desired
  <2> HIDE DEF d
  <2> QED BY <1>3 DEF Reconciles, Sound
<1>6. /\ pc' = NextCall(d, r.changed)
      /\ rec' = IF pc' = "idle" THEN None ELSE next
  BY DEF Proceed
<1>7. ~Expired(r.now, st.firstSeen, r.pol.maxAge) /\ down /\ skipped
      => pc' \in {"idle", "saveState"}
  <2> HIDE DEF d, down, skipped
  <2> QED BY <1>3, <1>4, <1>6 DEF Sound
<1>8. pc' \in {"saveSnapshot", "scale"} =>
        Expired(r.now, st.firstSeen, r.pol.maxAge) \/ (down /\ ~skipped)
  <2> HIDE DEF d, down, skipped
  <2> QED BY <1>3, <1>4, <1>6 DEF Sound
<1>9. pc' = "delete" => Expired(r.now, st.firstSeen, r.pol.maxAge)
  <2> HIDE DEF d, down, skipped
  <2> QED BY <1>3, <1>4, <1>6 DEF Sound
<1> HIDE DEF d, next
<1> QED BY <1>3, <1>4, <1>5, <1>6, <1>7, <1>8, <1>9 DEF Sound

(* Types hold initially. *)
LEMMA TypeInvInit == Init => TypeInv
  BY BoundsAssumption
     DEF Init, TypeInv, TypeOK, NoState, WorkloadStates, Replicas, Times, UIDs, NoUID

(* Every step, of the controller or around it, preserves types. *)
LEMMA TypeInvNext == TypeInv /\ [Next]_vars => TypeInv'
<1> SUFFICES ASSUME TypeInv, [Next]_vars PROVE TypeInv'
  OBVIOUS
<1> USE DEF TypeInv, TypeOK
<1>1. ASSUME NEW k \in Keys, Start(k) PROVE TypeInv'
  <2>1. NoState \in WorkloadStates
    BY BoundsAssumption DEF NoState, WorkloadStates, Times
  <2>2. rec' \in Reconciles
    BY <1>1, <2>1, BoundsAssumption DEF Start, Reconciles, Replicas, Times
  <2> QED BY <1>1, <2>2 DEF Start, Calls
<1>2. ASSUME NEW p \in Policies, Begin(p) PROVE TypeInv'
  <2>1. rec \in Reconciles
    BY <1>2 DEF Begin
  <2>2. reconcileIdentity(store[rec.key], rec.cur, p, clock) \in WorkloadStates
    BY <2>1, StatesClosed DEF Reconciles
  <2>3. rec' \in Reconciles /\ rec'.pol = p
    BY <1>2, <2>1, <2>2 DEF Begin, Reconciles
  <2> QED BY <1>2, <2>3 DEF Begin, Calls
<1>3. CASE SaveIdentity
  BY <1>3 DEF SaveIdentity, Calls, Reconciles
<1>4. CASE ReadScale
  <2> DEFINE id == rec.pol.window[rec.now]
             st == EnterWindow(rec.doc[rec.key], id)
             r  == [rec EXCEPT !.live = object[rec.key].replicas]
  <2>1. rec \in Reconciles /\ rec.pol \in Policies
    BY <1>4 DEF ReadScale
  <2>2. st \in WorkloadStates
    BY <2>1, StatesClosed DEF Reconciles
  <2>3. r \in Reconciles /\ r.pol \in Policies /\ r.key = rec.key
    BY <2>1 DEF Reconciles
  <2>4. /\ [r EXCEPT !.doc[rec.key] = st] \in Reconciles
        /\ [r EXCEPT !.doc[rec.key] = st].pol \in Policies
        /\ [r EXCEPT !.doc[rec.key] = st].key = rec.key
        /\ [r EXCEPT !.doc[rec.key] = st].doc[rec.key] = st
    BY <2>2, <2>3 DEF Reconciles
  <2>5. UNCHANGED <<clock, object, store, chosen, contested>>
    BY <1>4 DEF ReadScale
  <2>6. CASE Redeployed(st, id)
    <3>1. /\ pc' = IF st.snapshot # None THEN "redeployScale" ELSE "saveRedeploy"
          /\ rec' = [r EXCEPT !.doc[rec.key] = st]
      BY <1>4, <2>6 DEF ReadScale, AfterRedeploy
    <3> HIDE DEF st, r
    <3> QED BY <2>4, <2>5, <3>1 DEF Calls
  <2>7. CASE pc' = "saveOverride" /\ rec' = [r EXCEPT !.doc[rec.key] = st]
    <3> HIDE DEF st, r
    <3> QED BY <2>4, <2>5, <2>7 DEF Calls
  <2>8. CASE Proceed(r, st)
    <3> HIDE DEF st, r
    <3> QED BY <2>2, <2>3, <2>5, <2>8, ProceedFacts DEF Calls
  <2> QED BY <1>4, <2>6, <2>7, <2>8 DEF ReadScale
<1>5. CASE RedeployScale
  BY <1>5 DEF RedeployScale, UpdateScale, Calls, Reconciles, WorkloadStates
<1>6. CASE SaveRedeploy
  <2> DEFINE st == [rec.doc[rec.key] EXCEPT !.snapshot = None, !.skip = "redeploy"]
  <2>1. rec \in Reconciles /\ rec.pol \in Policies
    BY <1>6 DEF SaveRedeploy
  <2>2. st \in WorkloadStates
    BY <2>1, BoundsAssumption, StateUpdates DEF Reconciles
  <2>3. store' \in [Keys -> WorkloadStates]
    BY <1>6, <2>1, <2>2 DEF SaveRedeploy, Reconciles
  <2>4. Proceed(rec, st) /\ UNCHANGED <<clock, object, chosen, contested>>
    BY <1>6 DEF SaveRedeploy
  <2> HIDE DEF st
  <2> QED BY <2>1, <2>2, <2>3, <2>4, ProceedFacts DEF Calls
<1>7. CASE SaveOverride
  <2> DEFINE st == [rec.doc[rec.key] EXCEPT !.snapshot = None, !.skip = "override"]
  <2>1. rec \in Reconciles /\ rec.pol \in Policies
    BY <1>7 DEF SaveOverride
  <2>2. st \in WorkloadStates
    BY <2>1, BoundsAssumption, StateUpdates DEF Reconciles
  <2>3. store' \in [Keys -> WorkloadStates] /\ contested' \in [Keys -> BOOLEAN]
    BY <1>7, <2>1, <2>2 DEF SaveOverride, Reconciles
  <2>4. Proceed(rec, st) /\ UNCHANGED <<clock, object, chosen>>
    BY <1>7 DEF SaveOverride
  <2> HIDE DEF st
  <2> QED BY <2>1, <2>2, <2>3, <2>4, ProceedFacts DEF Calls
<1>8. CASE DeleteWorkload
  BY <1>8 DEF DeleteWorkload, Calls, Reconciles
<1>9. CASE SaveDeleted
  <2>1. NoState \in WorkloadStates
    BY BoundsAssumption DEF NoState, WorkloadStates, Times
  <2> QED BY <1>9, <2>1 DEF SaveDeleted, Finish, Reconciles
<1>10. CASE SaveSnapshot
  <2> DEFINE doc == [rec.doc EXCEPT ![rec.key].snapshot = rec.live]
  <2>1. rec \in Reconciles /\ rec.pol \in Policies
    BY <1>10 DEF SaveSnapshot
  <2>2. doc \in [Keys -> WorkloadStates]
    BY <2>1, StateUpdates DEF Reconciles
  <2>3. [rec EXCEPT !.doc = doc] \in Reconciles /\ [rec EXCEPT !.doc = doc].pol \in Policies
    BY <2>1, <2>2 DEF Reconciles
  <2>4. /\ store' = doc /\ UNCHANGED <<clock, object, chosen, contested>>
        /\ \/ pc' = "scaleDown" /\ rec' = [rec EXCEPT !.doc = doc]
           \/ pc' = "idle" /\ rec' = None
    BY <1>10 DEF SaveSnapshot, Finish
  <2> HIDE DEF doc
  <2> QED BY <2>2, <2>3, <2>4 DEF Calls
<1>11. CASE ScaleDown
  BY <1>11 DEF ScaleDown, UpdateScale, Finish, Reconciles
<1>12. CASE Restore
  BY <1>12 DEF Restore, UpdateScale, Calls, Reconciles
<1>13. CASE SaveClear
  <2>1. store' \in [Keys -> WorkloadStates]
    BY <1>13, StateUpdates DEF SaveClear, Reconciles
  <2> QED BY <1>13, <2>1 DEF SaveClear, Finish
<1>14. CASE Scale
  BY <1>14 DEF Scale, UpdateScale, Calls, Reconciles
<1>15. CASE SaveState
  BY <1>15 DEF SaveState, Finish, Reconciles
<1>16. CASE Refused
  BY <1>16 DEF Refused, Finish
<1>17. CASE Abort
  BY <1>17 DEF Abort, Finish
<1>18. CASE Tick
  BY <1>18, BoundsAssumption DEF Tick, Times
<1>19. ASSUME NEW k \in Keys, NEW n \in Replicas, OwnerScales(k, n) PROVE TypeInv'
  BY <1>19 DEF OwnerScales, HasRead, InFlight, HoldsSnapshot
<1>20. ASSUME NEW k \in Keys, NEW c \in Templates, OwnerRedeploys(k, c) PROVE TypeInv'
  BY <1>20 DEF OwnerRedeploys
<1>21. ASSUME NEW k \in Keys, OwnerDeletes(k) \/ Collect(k) PROVE TypeInv'
  BY <1>21 DEF OwnerDeletes, Collect
<1>22. ASSUME NEW k \in Keys, NEW c \in Templates, NEW n \in Replicas,
              OwnerRecreates(k, c, n)
       PROVE  TypeInv'
  BY <1>22, BoundsAssumption DEF OwnerRecreates, InFlight, UIDs
<1>23. CASE UNCHANGED vars
  BY <1>23 DEF vars
<1> QED
  BY <1>1, <1>2, <1>3, <1>4, <1>5, <1>6, <1>7, <1>8, <1>9, <1>10, <1>11, <1>12,
     <1>13, <1>14, <1>15, <1>16, <1>17, <1>18, <1>19, <1>20, <1>21, <1>22, <1>23
     DEF Next, Controller, Call, Environment

(* Every reachable state is well typed: replica counts the controller      *)
(* computes and persists are counts some owner chose, a reconcile in       *)
(* flight has all its locals, and no call is pending without them          *)
(* (Reconcile, applyDecision).                                             *)
THEOREM TypeCorrect == Spec => []TypeOK
<1>1. TypeInv => TypeOK
  BY DEF TypeInv
<1> QED BY <1>1, TypeInvInit, TypeInvNext, PTL DEF Spec

-----------------------------------------------------------------------------
(***************************************************************************)
(* The guarantee to owners.  One lemma per action of a reconcile.          *)
(***************************************************************************)

(* The parts of the invariant other than typing. *)
Guarantee == UIDsGrow /\ DocCurrent /\ Recorded /\ CallFacts /\ Anchored

(* The inductive invariant contains what typing needs. *)
LEMMA InductiveTyped == Inductive => TypeInv
  BY DEF Inductive, TypeInv, TypeOK, CallFacts

(* The inductive invariant holds initially. *)
LEMMA InductiveInit == Init => Inductive
<1> SUFFICES ASSUME Init PROVE Inductive
  OBVIOUS
<1>1. TypeOK
  BY TypeInvInit DEF TypeInv
<1>2. UIDsGrow
  BY <1>1 DEF Init, UIDsGrow, NoState, NoUID
<1>3. DocCurrent /\ CallFacts
  BY DEF Init, DocCurrent, CallFacts
<1>4. Recorded
  BY DEF Init, Recorded, HoldsSnapshot, NoState
<1>5. Anchored
  BY DEF Init, Anchored, AnchoredAt, NoState
<1> QED BY <1>1, <1>2, <1>3, <1>4, <1>5 DEF Inductive

(* A reconcile starts with a current copy of the object. *)
LEMMA StartKeeps ==
    ASSUME Inductive, NEW k \in Keys, Start(k)
    PROVE  Guarantee'
<1> USE DEF Inductive, TypeOK
<1>1. /\ pc' = "begin" /\ rec'.key = k /\ rec'.cur.uid = object[k].uid
      /\ UNCHANGED <<clock, object, store, chosen, contested>>
  BY DEF Start
<1>2. UIDsGrow'
  BY <1>1, BoundsAssumption DEF UIDsGrow, UIDs
<1>3. DocCurrent' /\ CallFacts'
  BY <1>1 DEF DocCurrent, CallFacts
<1>4. Recorded'
  BY <1>1 DEF Recorded, HoldsSnapshot
<1>5. Anchored'
  BY <1>1 DEF Anchored, AnchoredAt
<1> QED BY <1>2, <1>3, <1>4, <1>5 DEF Guarantee

(* A reconcile may stop anywhere: error returns and crashes. *)
LEMMA FinishKeeps ==
    ASSUME Inductive, Finish, UNCHANGED <<clock, object, store, chosen, contested>>
    PROVE  Guarantee'
<1>1. UIDsGrow' /\ DocCurrent' /\ CallFacts'
  BY DEF Inductive, Finish, UIDsGrow, DocCurrent, CallFacts
<1>2. Recorded' /\ Anchored'
  BY DEF Inductive, Finish, Recorded, HoldsSnapshot, Anchored, AnchoredAt
<1> QED BY <1>1, <1>2 DEF Guarantee

(* The loaded document, with a new or kept identity of the workload. *)
LEMMA BeginKeeps ==
    ASSUME Inductive, NEW p \in Policies, Begin(p)
    PROVE  Guarantee'
<1> DEFINE k == rec.key
           e == reconcileIdentity(store[k], rec.cur, p, clock)
<1>1. /\ rec \in Reconciles /\ k \in Keys /\ rec.cur \in [uid : UIDs, containers : Templates]
      /\ store \in [Keys -> WorkloadStates] /\ clock \in Times
  BY DEF Inductive, TypeOK, Begin, Reconciles
<1>2. /\ pc' \in {"saveIdentity", "readScale"}
      /\ pc' = "readScale" => SameIdentity(store[k], rec.cur, p)
      /\ rec'.key = k /\ rec'.cur = rec.cur /\ rec'.now = clock
      /\ rec'.doc = [store EXCEPT ![k] = e]
      /\ UNCHANGED <<clock, object, store, chosen, contested>>
  BY <1>1 DEF Begin, Reconciles
<1>3. /\ e.uid = rec.cur.uid
      /\ e.snapshot = IF store[k].uid = rec.cur.uid THEN store[k].snapshot ELSE None
      /\ SameIdentity(store[k], rec.cur, p) => store[k].uid = rec.cur.uid
  BY <1>1 DEF reconcileIdentity, SameUID, SameIdentity, NoState, NoUID, UIDs
<1>4. AnchoredAt(e, clock)
  <2>1. AnchoredAt(store[k], clock)
    BY <1>1 DEF Inductive, Anchored
  <2>2. CASE SameIdentity(store[k], rec.cur, p)
    <3>1. /\ e.windowId = store[k].windowId /\ e.entryRev = store[k].entryRev
          /\ e.revision = store[k].revision /\ e.firstSeen = store[k].firstSeen
      BY <2>2 DEF reconcileIdentity, SameIdentity
    <3> HIDE DEF e
    <3> QED BY <2>1, <3>1 DEF AnchoredAt
  <2>3. CASE ~SameIdentity(store[k], rec.cur, p)
    <3>1. /\ e.windowId = store[k].windowId \/ e.windowId = None
          /\ e.firstSeen = clock
      BY <2>3 DEF reconcileIdentity, NoState
    <3> HIDE DEF e
    <3> QED BY <2>1, <3>1 DEF AnchoredAt
  <2> QED BY <2>2, <2>3
<1> HIDE DEF e
<1>5. rec'.doc[k] = e /\ \A j \in Keys \ {k} : rec'.doc[j] = store[j]
  BY <1>1, <1>2
<1>6. UIDsGrow'
  BY <1>1, <1>2 DEF Inductive, UIDsGrow, Begin
<1>7. DocCurrent'
  BY <1>1, <1>2, <1>3, <1>5 DEF DocCurrent
<1>8. Recorded'
  BY <1>2 DEF Inductive, Recorded, HoldsSnapshot
<1>9. CallFacts'
  BY <1>2 DEF CallFacts
<1>10. Anchored'
  <2>1. \A j \in Keys : AnchoredAt(store[j], clock)'
    BY <1>2 DEF Inductive, Anchored, AnchoredAt
  <2>2. AnchoredAt(rec.doc[rec.key], rec.now)'
    BY <1>2, <1>4, <1>5 DEF AnchoredAt
  <2>3. clock' \in Times /\ rec'.now <= clock'
    BY <1>1, <1>2 DEF Times
  <2> QED BY <2>1, <2>2, <2>3 DEF Anchored
<1> QED BY <1>6, <1>7, <1>8, <1>9, <1>10 DEF Guarantee

(* What every save has in common: the entry of the reconciled workload is  *)
(* replaced by one with the reconcile's UID, no other entry changes.  The  *)
(* part of the invariant about durable state then only depends on the new  *)
(* entry.                                                                  *)
LEMMA SaveKeeps ==
    ASSUME Inductive, pc \notin {"idle", "begin"}, NEW st \in WorkloadStates,
           store' = [rec.doc EXCEPT ![rec.key] = st],
           UNCHANGED <<clock, object, chosen>>,
           st.uid \in {NoUID, rec.cur.uid}
    PROVE  /\ \A j \in Keys \ {rec.key} : store'[j] = store[j]
           /\ store'[rec.key] = st
           /\ \A j \in Keys : store'[j].uid <= object'[j].uid
           /\ AnchoredAt(st, clock) => \A j \in Keys : AnchoredAt(store[j], clock)'
<1>1. /\ rec \in Reconciles /\ rec.key \in Keys /\ rec.doc \in [Keys -> WorkloadStates]
      /\ rec.cur.uid \in UIDs /\ object[rec.key].uid \in UIDs
  BY DEF Inductive, TypeOK, Reconciles
<1>2. /\ \A j \in Keys \ {rec.key} : store'[j] = store[j]
      /\ store'[rec.key] = st
  BY <1>1 DEF Inductive, DocCurrent
<1>3. \A j \in Keys : store'[j].uid <= object'[j].uid
  BY <1>1, <1>2, BoundsAssumption DEF Inductive, UIDsGrow, NoUID, UIDs
<1>4. AnchoredAt(st, clock) => \A j \in Keys : AnchoredAt(store[j], clock)'
  BY <1>2 DEF Inductive, Anchored, AnchoredAt
<1> QED BY <1>2, <1>3, <1>4

(* An entry anchored at the reconcile's instant is anchored now. *)
LEMMA AnchoredLater ==
    ASSUME Inductive, pc \notin {"idle", "begin"}, NEW st,
           AnchoredAt(st, rec.now)
    PROVE  AnchoredAt(st, clock)
<1>1. rec.now <= clock /\ rec.now \in Times /\ clock \in Times
  BY DEF Inductive, TypeOK, Anchored, Reconciles
<1> QED BY <1>1, BoundsAssumption DEF AnchoredAt, Times

(* A new identity is saved with the snapshot of the same object. *)
LEMMA SaveIdentityKeeps ==
    ASSUME Inductive, SaveIdentity
    PROVE  Guarantee'
<1> DEFINE k == rec.key
<1>1. /\ rec \in Reconciles /\ k \in Keys /\ rec.doc \in [Keys -> WorkloadStates]
      /\ pc = "saveIdentity" /\ pc' = "readScale" /\ store' = rec.doc
      /\ UNCHANGED <<clock, object, rec, chosen, contested>>
  BY DEF Inductive, TypeOK, Reconciles, SaveIdentity
<1>2. /\ rec.doc[k].uid = rec.cur.uid /\ rec.doc[k] \in WorkloadStates
      /\ rec.doc[k].snapshot = IF store[k].uid = rec.cur.uid THEN store[k].snapshot ELSE None
      /\ store' = [rec.doc EXCEPT ![k] = rec.doc[k]]
  BY <1>1 DEF Inductive, DocCurrent
<1>3. AnchoredAt(rec.doc[k], clock)
  BY <1>1, AnchoredLater DEF Inductive, Anchored
<1>4. /\ \A j \in Keys \ {k} : store'[j] = store[j]
      /\ store'[k] = rec.doc[k]
      /\ \A j \in Keys : store'[j].uid <= object'[j].uid
      /\ \A j \in Keys : AnchoredAt(store[j], clock)'
  BY <1>1, <1>2, <1>3, SaveKeeps
<1>5. UIDsGrow'
  BY <1>1, <1>4 DEF Inductive, UIDsGrow
<1>6. DocCurrent'
  BY <1>1, <1>2, <1>4 DEF DocCurrent
<1>7. Recorded'
  BY <1>1, <1>2, <1>4 DEF Inductive, Recorded, HoldsSnapshot, UIDsGrow
<1>8. CallFacts'
  BY <1>1 DEF CallFacts
<1>9. Anchored'
  BY <1>1, <1>4 DEF Inductive, Anchored, AnchoredAt
<1> QED BY <1>5, <1>6, <1>7, <1>8, <1>9 DEF Guarantee

(* A scale write leaves the durable state and the reconcile's view of it   *)
(* alone: what remains to be shown is the count of the one workload.       *)
LEMMA ScaleKeeps ==
    ASSUME Inductive, pc \notin {"idle", "begin"}, NEW n \in Replicas, UpdateScale(n),
           \/ pc' = "idle"
           \/ pc' \notin {"idle", "begin", "saveIdentity"} /\ pc # "saveIdentity" /\ rec' = rec
    PROVE  /\ UIDsGrow' /\ DocCurrent' /\ Anchored'
           /\ object'[rec.key].replicas = n
           /\ object'[rec.key].phase = object[rec.key].phase
           /\ object'[rec.key].uid = object[rec.key].uid
           /\ \A j \in Keys \ {rec.key} : object'[j] = object[j]
           /\ UNCHANGED <<clock, store, chosen, contested>>
<1>1. /\ rec \in Reconciles /\ rec.key \in Keys
      /\ object \in [Keys -> [uid : UIDs, containers : Templates, replicas : Replicas,
                            phase : {"live", "terminating", "gone"}]]
  BY DEF Inductive, TypeOK, Reconciles
<1>2. /\ object'[rec.key].replicas = n
      /\ object'[rec.key].phase = object[rec.key].phase
      /\ object'[rec.key].uid = object[rec.key].uid
      /\ \A j \in Keys \ {rec.key} : object'[j] = object[j]
      /\ UNCHANGED <<clock, store, chosen, contested>>
  BY <1>1 DEF UpdateScale
<1>3. UIDsGrow'
  BY <1>1, <1>2 DEF Inductive, UIDsGrow
<1>4. DocCurrent'
  BY <1>2 DEF Inductive, DocCurrent
<1>5. Anchored'
  BY <1>2 DEF Inductive, Anchored, AnchoredAt
<1> QED BY <1>2, <1>3, <1>4, <1>5

(* With agreeing targets, what a down decision asks for is below every     *)
(* policy's scheduled target.                                              *)
LEMMA BelowTargets ==
    ASSUME TargetsAgree, NEW p \in Policies, NEW n \in Replicas,
           n <= p.expired \/ n <= p.scheduledDown
    PROVE  \A q \in Policies : n <= q.scheduledDown
  BY PoliciesAssumption, BoundsAssumption DEF TargetsAgree, Replicas

(* Entering a window keeps an entry anchored, and a redeploy detected in a *)
(* window is younger than maxAge when windows are short.                   *)
LEMMA WindowAnchored ==
    ASSUME WindowsAreShort, NEW p \in Policies, NEW now \in Times,
           NEW old \in WorkloadStates, AnchoredAt(old, now), NEW st,
           st = EnterWindow(old, p.window[now])
    PROVE  /\ AnchoredAt(st, now)
           /\ Redeployed(st, p.window[now]) =>
                ~Expired(now, st.firstSeen, p.maxAge)
<1> DEFINE id == p.window[now]
<1>1. /\ id \in Instances \cup {None} /\ st \in WorkloadStates
      /\ st.revision = old.revision /\ st.firstSeen = old.firstSeen
      /\ p.maxAge \in Nat /\ now \in Nat /\ st.firstSeen \in Nat
  <2>1. /\ id \in Instances \cup {None} /\ p.maxAge \in Nat
    BY PoliciesAssumption
  <2>2. /\ st \in WorkloadStates
        /\ st.revision = old.revision /\ st.firstSeen = old.firstSeen
    <3>1. /\ reconcileWindowCycle(old, id) \in WorkloadStates
          /\ reconcileWindowCycle(old, id).revision = old.revision
          /\ reconcileWindowCycle(old, id).firstSeen = old.firstSeen
      BY DEF reconcileWindowCycle, WorkloadStates
    <3>2. old.revision \in RevisionHashes \cup {None}
      BY DEF WorkloadStates
    <3> QED BY <2>1, <3>1, <3>2 DEF EnterWindow, WorkloadStates
  <2> QED BY <2>1, <2>2, BoundsAssumption DEF WorkloadStates, Times
<1>2. \/ st.windowId = None
      \/ st.windowId = id /\ id # None /\ st.entryRev = st.revision
      \/ st = old /\ id # None /\ old.windowId = id
  BY <1>1 DEF EnterWindow, reconcileWindowCycle, WorkloadStates
<1>3. CASE st.windowId = None
  <2>1. id = None
    BY <1>1, <1>3 DEF EnterWindow, reconcileWindowCycle, WorkloadStates
  <2> QED BY <1>3, <2>1 DEF AnchoredAt, Redeployed
<1>4. CASE st.windowId = id /\ id # None /\ st.entryRev = st.revision
  <2>1. AnchoredAt(st, now)
    BY <1>1, <1>4 DEF AnchoredAt
  <2> QED BY <1>4, <2>1 DEF Redeployed
<1>5. CASE st = old /\ id # None /\ old.windowId = id
  <2>1. ASSUME Redeployed(st, id) PROVE ~Expired(now, st.firstSeen, p.maxAge)
    <3>1. PICK q \in Policies, s \in Times : q.window[s] = id /\ s <= st.firstSeen
      BY <1>5, <2>1 DEF AnchoredAt, Redeployed
    <3>2. now - s < p.maxAge
      BY <1>5, <3>1 DEF WindowsAreShort
    <3> QED BY <1>1, <3>1, <3>2, BoundsAssumption DEF Expired, Times
  <2> QED BY <1>5, <2>1
<1> QED BY <1>2, <1>3, <1>4, <1>5

(* The scale is read, and with it the next call is decided. *)
LEMMA ReadScaleKeeps ==
    ASSUME TargetsAgree, WindowsAreShort, Inductive, ReadScale
    PROVE  Guarantee'
<1> DEFINE k == rec.key
           id == rec.pol.window[rec.now]
           old == rec.doc[k]
           st == EnterWindow(old, id)
           r  == [rec EXCEPT !.live = object[k].replicas]
<1>1. /\ rec \in Reconciles /\ k \in Keys /\ rec.pol \in Policies /\ rec.now \in Times
      /\ old \in WorkloadStates /\ pc = "readScale"
      /\ object[k].replicas \in Replicas /\ object[k].uid \in UIDs
  BY DEF Inductive, TypeOK, Reconciles, ReadScale
<1>2. /\ st \in WorkloadStates /\ st.snapshot = old.snapshot /\ st.uid = old.uid
  <2>1. rec.cur \in [uid : UIDs, containers : Templates]
    BY <1>1 DEF Reconciles
  <2> HIDE DEF old
  <2> QED BY <1>1, <2>1, StatesClosed
<1>3. /\ AnchoredAt(st, rec.now)
      /\ Redeployed(st, id) => ~Expired(rec.now, st.firstSeen, rec.pol.maxAge)
  <2>1. AnchoredAt(old, rec.now)
    BY <1>1 DEF Inductive, Anchored
  <2> QED BY <1>1, <2>1, WindowAnchored
<1>4. /\ r \in Reconciles /\ r.key = k /\ r.cur = rec.cur /\ r.pol = rec.pol
      /\ r.now = rec.now /\ r.live = object[k].replicas /\ r.doc = rec.doc
  BY <1>1 DEF Reconciles
<1>5. UNCHANGED <<clock, object, store, chosen, contested>>
  BY DEF ReadScale
<1>6. /\ old.uid = rec.cur.uid /\ store[k].uid = rec.cur.uid
      /\ st.snapshot = store[k].snapshot
      /\ \A j \in Keys \ {k} : rec.doc[j] = store[j]
  BY <1>1, <1>2 DEF Inductive, DocCurrent
<1>7. ASSUME object[k].phase = "live", ~contested[k]
      PROVE  /\ st.snapshot = None => object[k].replicas = chosen[k]
             /\ \/ object[k].replicas = chosen[k]
                \/ \A p \in Policies : object[k].replicas <= p.scheduledDown
  <2>1. store[k].uid = object[k].uid
    BY <1>1, <1>6, <1>7 DEF Inductive, UIDsGrow
  <2> QED BY <1>1, <1>6, <1>7, <2>1 DEF Inductive, Recorded, HoldsSnapshot
<1>8. /\ pc' \in Calls \cup {"idle"} /\ pc' \notin {"begin", "saveIdentity"}
      /\ pc' # "idle" =>
           /\ rec' \in Reconciles
           /\ rec'.key = k /\ rec'.cur = rec.cur /\ rec'.pol = rec.pol
           /\ rec'.now = rec.now /\ rec'.live = object[k].replicas
           /\ rec'.doc = [rec.doc EXCEPT ![k] = st]
      /\ pc' \notin {"scaleDown", "saveClear", "saveDeleted"}
      /\ pc' \in {"redeployScale", "saveRedeploy"} => Redeployed(st, id)
      /\ pc' = "redeployScale" => st.snapshot # None
      /\ pc' = "saveRedeploy" => st.snapshot = None
      /\ pc' = "saveOverride" => Overridden(st, id, object[k].replicas, rec.pol)
      /\ pc' = "saveSnapshot" =>
            /\ st.snapshot = None
            /\ rec'.desired # rec'.live => \A p \in Policies : rec'.desired <= p.scheduledDown
      /\ pc' = "restore" => st.snapshot # None /\ rec'.desired = st.snapshot
      /\ pc' = "scale" =>
            st.snapshot # None /\ \A p \in Policies : rec'.desired <= p.scheduledDown
  <2>1. \/ /\ Redeployed(st, id)
           /\ pc' = IF st.snapshot # None THEN "redeployScale" ELSE "saveRedeploy"
           /\ rec' = [r EXCEPT !.doc[k] = st]
        \/ /\ Overridden(st, id, r.live, rec.pol)
           /\ pc' = "saveOverride" /\ rec' = [r EXCEPT !.doc[k] = st]
        \/ Proceed(r, st)
    BY DEF ReadScale, AfterRedeploy
  <2>2. /\ [r EXCEPT !.doc[k] = st] \in Reconciles
        /\ [r EXCEPT !.doc[k] = st].key = k /\ [r EXCEPT !.doc[k] = st].cur = rec.cur
        /\ [r EXCEPT !.doc[k] = st].pol = rec.pol /\ [r EXCEPT !.doc[k] = st].now = rec.now
        /\ [r EXCEPT !.doc[k] = st].live = object[k].replicas
        /\ [r EXCEPT !.doc[k] = st].doc = [rec.doc EXCEPT ![k] = st]
    <3> HIDE DEF st
    <3> QED BY <1>1, <1>2 DEF Reconciles
  <2>3. CASE Proceed(r, st)
    <3> HIDE DEF r, st
    <3>1. pc' \in {"saveSnapshot", "scale"} => rec'.desired \in Replicas
      BY <1>1, <1>2, <1>4, <2>3, ProceedFacts DEF Reconciles
    <3>2. /\ pc' \in {"delete", "saveSnapshot", "restore", "scale", "idle", "saveState"}
          /\ pc' # "idle" =>
               /\ rec' \in Reconciles
               /\ rec'.key = k /\ rec'.cur = rec.cur /\ rec'.pol = rec.pol
               /\ rec'.now = rec.now /\ rec'.live = object[k].replicas
               /\ rec'.doc = [rec.doc EXCEPT ![k] = st]
          /\ pc' = "restore" => st.snapshot # None /\ rec'.desired = st.snapshot
          /\ pc' = "saveSnapshot" => st.snapshot = None
          /\ pc' = "scale" => st.snapshot # None
      BY <1>1, <1>2, <1>4, <2>3, ProceedFacts
    <3>3. /\ pc' = "saveSnapshot" /\ rec'.desired # rec'.live =>
               \A p \in Policies : rec'.desired <= p.scheduledDown
          /\ pc' = "scale" => \A p \in Policies : rec'.desired <= p.scheduledDown
      BY <1>1, <1>2, <1>4, <2>3, <3>1, <3>2, ProceedFacts, BelowTargets
    <3> QED BY <3>2, <3>3 DEF Calls
  <2>4. CASE ~Proceed(r, st)
    <3> HIDE DEF r, st
    <3> QED BY <1>4, <2>1, <2>2, <2>4 DEF Calls
  <2> QED BY <2>3, <2>4
<1> HIDE DEF st, r
<1>9. pc' # "idle" => rec'.doc[k] = st /\ \A j \in Keys \ {k} : rec'.doc[j] = store[j]
  BY <1>1, <1>6, <1>8 DEF Reconciles
<1>10. UIDsGrow'
  BY <1>1, <1>5, <1>8 DEF Inductive, UIDsGrow
<1>11. DocCurrent'
  BY <1>2, <1>5, <1>6, <1>8, <1>9 DEF DocCurrent
<1>12. Recorded'
  BY <1>5 DEF Inductive, Recorded, HoldsSnapshot
<1>13. CallFacts'
  <2>1. pc' = "saveOverride" => object[k].replicas > rec.pol.scheduledDown
    BY <1>8 DEF Overridden
  <2>2. pc' = "saveOverride" /\ object[k].phase = "live" /\ ~contested[k] =>
           object[k].replicas = chosen[k]
    BY <1>1, <1>7, <2>1, PoliciesAssumption, BoundsAssumption DEF Replicas
  <2>3. pc' \in {"redeployScale", "saveRedeploy"} =>
           id # None /\ ~Expired(rec.now, st.firstSeen, rec.pol.maxAge)
    BY <1>3, <1>8 DEF Redeployed
  <2> QED BY <1>5, <1>7, <1>8, <1>9, <2>2, <2>3 DEF CallFacts
<1>14. Anchored'
  <2>1. pc' # "idle" => AnchoredAt(rec.doc[rec.key], rec.now)'
    BY <1>3, <1>8, <1>9 DEF AnchoredAt
  <2>2. (\A j \in Keys : AnchoredAt(store[j], clock)')
    BY <1>5 DEF Inductive, Anchored, AnchoredAt
  <2> QED BY <1>1, <1>5, <1>8, <2>1, <2>2 DEF Inductive, Anchored
<1> QED BY <1>10, <1>11, <1>12, <1>13, <1>14 DEF Guarantee

(* The scale writes of a reconcile: what they write is the owner's count,  *)
(* or below the scheduled target with the owner's count in the snapshot.   *)
LEMMA RestoringKeeps ==
    ASSUME Inductive, RedeployScale \/ Restore
    PROVE  Guarantee'
<1> DEFINE k == rec.key
           n == rec.doc[k].snapshot
<1>1. /\ rec \in Reconciles /\ k \in Keys /\ rec.doc[k] \in WorkloadStates
      /\ pc \in {"redeployScale", "restore"}
  BY DEF Inductive, TypeOK, Reconciles, RedeployScale, Restore
<1>2. n # None /\ n \in Replicas
  BY <1>1 DEF Inductive, CallFacts, WorkloadStates
<1>3. /\ UpdateScale(n) /\ rec' = rec
      /\ pc = "redeployScale" => pc' = "saveRedeploy"
      /\ pc = "restore" => pc' = "saveClear"
  BY <1>1 DEF RedeployScale, Restore, Inductive, CallFacts
<1> HIDE DEF n
<1>4. /\ UIDsGrow' /\ DocCurrent' /\ Anchored'
      /\ object'[k].replicas = n
      /\ object'[k].phase = object[k].phase
      /\ object'[k].uid = object[k].uid
      /\ \A j \in Keys \ {k} : object'[j] = object[j]
      /\ UNCHANGED <<clock, store, chosen, contested>>
  BY <1>1, <1>2, <1>3, ScaleKeeps
<1>5. object[k].phase = "live" /\ ~contested[k] => n = chosen[k]
  <2>1. store[k].snapshot = n /\ store[k].uid = rec.cur.uid
    BY <1>1 DEF Inductive, DocCurrent, n
  <2> QED BY <1>1, <1>2, <2>1 DEF Inductive, UIDsGrow, Recorded, HoldsSnapshot
<1>6. Recorded'
  BY <1>1, <1>4, <1>5 DEF Inductive, Recorded, HoldsSnapshot
<1>7. CallFacts'
  BY <1>1, <1>3, <1>4, <1>5 DEF Inductive, CallFacts
<1> QED BY <1>4, <1>6, <1>7 DEF Guarantee

(* A count is lowered only with the snapshot already saved. *)
LEMMA LoweringKeeps ==
    ASSUME Inductive, ScaleDown \/ Scale
    PROVE  Guarantee'
<1> DEFINE k == rec.key
           n == rec.desired
<1>1. /\ rec \in Reconciles /\ k \in Keys /\ rec.doc[k] \in WorkloadStates
      /\ pc \in {"scaleDown", "scale"} /\ n \in Replicas
  BY DEF Inductive, TypeOK, Reconciles, ScaleDown, Scale
<1>2. rec.doc[k].snapshot # None /\ \A p \in Policies : n <= p.scheduledDown
  BY <1>1 DEF Inductive, CallFacts
<1>3. /\ UpdateScale(n)
      /\ pc' = "idle" \/ (pc' = "saveState" /\ rec' = rec)
  <2>1. CASE ScaleDown
    BY <2>1 DEF ScaleDown, Finish
  <2>2. CASE Scale
    BY <2>2 DEF Scale
  <2> QED BY <2>1, <2>2
<1> HIDE DEF n
<1>4. /\ UIDsGrow' /\ DocCurrent' /\ Anchored'
      /\ object'[k].replicas = n
      /\ object'[k].phase = object[k].phase
      /\ object'[k].uid = object[k].uid
      /\ \A j \in Keys \ {k} : object'[j] = object[j]
      /\ UNCHANGED <<clock, store, chosen, contested>>
  BY <1>1, <1>3, ScaleKeeps
<1>5. object[k].phase = "live" /\ ~contested[k] => HoldsSnapshot(k)
  BY <1>1, <1>2 DEF Inductive, DocCurrent, UIDsGrow, HoldsSnapshot
<1>6. Recorded'
  BY <1>1, <1>2, <1>4, <1>5 DEF Inductive, Recorded, HoldsSnapshot
<1>7. CallFacts'
  BY <1>3 DEF CallFacts
<1> QED BY <1>4, <1>6, <1>7 DEF Guarantee

(* The saves that end a reconcile. *)
LEMMA LastSaveKeeps ==
    ASSUME Inductive, SaveState \/ SaveClear \/ SaveDeleted
    PROVE  Guarantee'
<1> DEFINE k == rec.key
           old == rec.doc[k]
<1>1. /\ rec \in Reconciles /\ k \in Keys /\ rec.doc \in [Keys -> WorkloadStates]
      /\ old \in WorkloadStates /\ rec.cur.uid \in UIDs
      /\ pc \in {"saveState", "saveClear", "saveDeleted"} /\ pc' = "idle"
      /\ UNCHANGED <<clock, object, chosen, contested>>
  BY DEF Inductive, TypeOK, Reconciles, SaveState, SaveClear, SaveDeleted, Finish
<1>2. PICK st \in WorkloadStates :
        /\ store' = [rec.doc EXCEPT ![k] = st]
        /\ st.uid \in {NoUID, rec.cur.uid}
        /\ AnchoredAt(st, clock)
        /\ pc = "saveState" => st = old
        /\ pc = "saveClear" => st.uid = old.uid /\ st.snapshot = None
        /\ pc = "saveDeleted" => st.uid = NoUID
  <2>1. old.uid = rec.cur.uid /\ AnchoredAt(old, clock)
    BY <1>1, AnchoredLater DEF Inductive, DocCurrent, Anchored
  <2>2. CASE SaveState
    BY <1>1, <2>1, <2>2 DEF SaveState
  <2>3. CASE SaveClear
    <3>1. [old EXCEPT !.snapshot = None] \in WorkloadStates
      BY <1>1 DEF WorkloadStates
    <3>2. /\ [old EXCEPT !.snapshot = None].uid = old.uid
          /\ [old EXCEPT !.snapshot = None].snapshot = None
          /\ [old EXCEPT !.snapshot = None].windowId = old.windowId
          /\ [old EXCEPT !.snapshot = None].entryRev = old.entryRev
          /\ [old EXCEPT !.snapshot = None].revision = old.revision
          /\ [old EXCEPT !.snapshot = None].firstSeen = old.firstSeen
      BY <1>1 DEF WorkloadStates
    <3>3. store' = [rec.doc EXCEPT ![k] = [old EXCEPT !.snapshot = None]]
      BY <2>3 DEF SaveClear
    <3>4. AnchoredAt([old EXCEPT !.snapshot = None], clock)
      BY <2>1, <3>2 DEF AnchoredAt
    <3> QED BY <2>1, <2>3, <3>1, <3>2, <3>3, <3>4 DEF SaveClear
  <2>4. CASE SaveDeleted
    <3>1. NoState \in WorkloadStates /\ NoState.uid = NoUID /\ NoState.windowId = None
      BY BoundsAssumption DEF NoState, WorkloadStates, Times
    <3> QED BY <2>4, <3>1 DEF SaveDeleted, AnchoredAt
  <2> QED BY <2>2, <2>3, <2>4
<1>3. /\ \A j \in Keys \ {k} : store'[j] = store[j]
      /\ store'[k] = st
      /\ \A j \in Keys : store'[j].uid <= object'[j].uid
      /\ \A j \in Keys : AnchoredAt(store[j], clock)'
  BY <1>1, <1>2, SaveKeeps
<1>4. UIDsGrow' /\ DocCurrent' /\ CallFacts'
  BY <1>1, <1>3 DEF UIDsGrow, DocCurrent, CallFacts
<1>5. Anchored'
  BY <1>1, <1>3 DEF Anchored
<1>6. Recorded'
  <2>1. store[k].uid = rec.cur.uid /\ old.uid = rec.cur.uid /\ old.snapshot = store[k].snapshot
    BY <1>1 DEF Inductive, DocCurrent
  <2>2. CASE pc = "saveState"
    BY <1>1, <1>2, <1>3, <2>1, <2>2 DEF Inductive, Recorded, HoldsSnapshot
  <2>3. CASE pc \in {"saveClear", "saveDeleted"}
    <3>1. object[k].phase = "live" /\ ~contested[k] => object[k].replicas = chosen[k]
      BY <1>1, <2>3 DEF Inductive, CallFacts
    <3>2. object[k].phase = "live" /\ ~contested[k] => store'[k].snapshot = None
      BY <1>1, <1>2, <1>3, <2>3 DEF Inductive, CallFacts
    <3>3. ASSUME NEW j \in Keys \ {k}
          PROVE  store'[j] = store[j] /\ object'[j] = object[j]
                 /\ chosen'[j] = chosen[j] /\ contested'[j] = contested[j]
      BY <1>1, <1>3
    <3> QED BY <1>1, <3>1, <3>2, <3>3 DEF Inductive, Recorded, HoldsSnapshot
  <2> QED BY <1>1, <2>2, <2>3
<1> QED BY <1>4, <1>5, <1>6 DEF Guarantee

(* Both saves that record a skip clear the snapshot and decide again. *)
LEMMA SkipSaveKeeps ==
    ASSUME TargetsAgree, Inductive, pc \in {"saveRedeploy", "saveOverride"},
           NEW s \in {"redeploy", "override"}, NEW st,
           st = [rec.doc[rec.key] EXCEPT !.snapshot = None, !.skip = s],
           store' = [rec.doc EXCEPT ![rec.key] = st], Proceed(rec, st),
           UNCHANGED <<clock, object, chosen>>
    PROVE  /\ DocCurrent' /\ Anchored'
           /\ \A j \in Keys : store'[j].uid <= object'[j].uid
           /\ \A j \in Keys \ {rec.key} : store'[j] = store[j]
           /\ store'[rec.key].snapshot = None
           /\ st.uid = rec.cur.uid
           /\ pc' \in {"delete", "saveSnapshot", "idle", "saveState"}
           /\ pc' # "idle" => /\ rec'.key = rec.key /\ rec'.cur = rec.cur
                             /\ rec'.live = rec.live
                             /\ rec'.doc[rec.key].snapshot = None
           /\ pc' = "saveSnapshot" /\ rec'.desired # rec'.live =>
                \A p \in Policies : rec'.desired <= p.scheduledDown
           /\ s = "redeploy" /\ pc = "saveRedeploy" => pc' \in {"idle", "saveState"}
<1> DEFINE k == rec.key
           old == rec.doc[k]
<1>1. /\ rec \in Reconciles /\ k \in Keys /\ rec.doc \in [Keys -> WorkloadStates]
      /\ old \in WorkloadStates /\ rec.cur.uid \in UIDs /\ rec.pol \in Policies
  BY DEF Inductive, TypeOK, Reconciles
<1>2. /\ st \in WorkloadStates /\ st.snapshot = None /\ st.uid = old.uid
      /\ st.windowId = old.windowId /\ st.entryRev = old.entryRev
      /\ st.revision = old.revision /\ st.firstSeen = old.firstSeen
      /\ st.skip # None /\ st.skip = s
  BY <1>1, NoneAssumption DEF WorkloadStates
<1>3. st.uid = rec.cur.uid
  BY <1>1, <1>2 DEF Inductive, DocCurrent
<1>4. AnchoredAt(st, rec.now) /\ AnchoredAt(st, clock)
  <2>1. AnchoredAt(old, rec.now)
    BY DEF Inductive, Anchored
  <2>2. AnchoredAt(st, rec.now)
    BY <1>2, <2>1 DEF AnchoredAt
  <2> QED BY <2>2, AnchoredLater
<1>5. /\ \A j \in Keys \ {k} : store'[j] = store[j]
      /\ store'[k] = st
      /\ \A j \in Keys : store'[j].uid <= object'[j].uid
      /\ \A j \in Keys : AnchoredAt(store[j], clock)'
  BY <1>2, <1>3, <1>4, SaveKeeps
<1>6. /\ pc' \in {"delete", "saveSnapshot", "idle", "saveState"}
      /\ pc' # "idle" =>
           /\ rec' \in Reconciles
           /\ rec'.key = k /\ rec'.cur = rec.cur /\ rec'.now = rec.now
           /\ rec'.live = rec.live /\ rec'.doc = [rec.doc EXCEPT ![k] = st]
      /\ pc' = "saveSnapshot" /\ rec'.desired # rec.live =>
           rec'.desired <= rec.pol.expired \/ rec'.desired <= rec.pol.scheduledDown
      /\ /\ ~Expired(rec.now, st.firstSeen, rec.pol.maxAge)
         /\ rec.pol.window[rec.now] # None
         => pc' \in {"idle", "saveState"}
  BY <1>1, <1>2, ProceedFacts
<1>7. pc' # "idle" => rec'.doc[k] = st /\ \A j \in Keys \ {k} : rec'.doc[j] = store[j]
  <2>1. \A j \in Keys \ {k} : rec.doc[j] = store[j]
    BY DEF Inductive, DocCurrent
  <2> QED BY <1>1, <1>6, <2>1
<1>8. DocCurrent'
  <2>1. store'[k].uid = rec.cur.uid /\ store'[k].snapshot = None /\ st.snapshot = None
    BY <1>2, <1>3, <1>5
  <2>2. pc' # "idle" =>
          /\ rec'.key = k /\ rec'.cur = rec.cur /\ rec'.doc[k] = st
          /\ \A j \in Keys \ {k} : rec'.doc[j] = store'[j]
    BY <1>5, <1>6, <1>7
  <2>3. pc' \notin {"begin", "saveIdentity"}
    BY <1>6
  <2> QED BY <1>3, <2>1, <2>2, <2>3 DEF DocCurrent
<1>9. Anchored'
  <2>1. pc' # "idle" => AnchoredAt(rec.doc[rec.key], rec.now)'
    BY <1>4, <1>6, <1>7 DEF AnchoredAt
  <2>2. pc' # "idle" => rec'.now <= clock'
    BY <1>6 DEF Inductive, Anchored
  <2> QED BY <1>5, <2>1, <2>2 DEF Anchored
<1>10. pc' = "saveSnapshot" /\ rec'.desired # rec'.live =>
         \A p \in Policies : rec'.desired <= p.scheduledDown
  <2>1. pc' = "saveSnapshot" => rec'.desired \in Replicas
    BY <1>6 DEF Reconciles
  <2> QED BY <1>1, <1>6, <2>1, BelowTargets
<1>11. pc = "saveRedeploy" => pc' \in {"idle", "saveState"}
  BY <1>2, <1>6 DEF Inductive, CallFacts
<1> QED BY <1>2, <1>3, <1>5, <1>6, <1>7, <1>8, <1>9, <1>10, <1>11

(* A redeploy in a window: the snapshot goes after the restore. *)
LEMMA SaveRedeployKeeps ==
    ASSUME TargetsAgree, Inductive, SaveRedeploy
    PROVE  Guarantee'
<1> DEFINE k == rec.key
           st == [rec.doc[k] EXCEPT !.snapshot = None, !.skip = "redeploy"]
<1>1. /\ rec \in Reconciles /\ k \in Keys /\ pc = "saveRedeploy"
      /\ store' = [rec.doc EXCEPT ![k] = st] /\ Proceed(rec, st)
      /\ UNCHANGED <<clock, object, chosen, contested>>
  BY DEF Inductive, TypeOK, Reconciles, SaveRedeploy
<1> HIDE DEF st
<1>2. /\ DocCurrent' /\ Anchored'
      /\ \A j \in Keys : store'[j].uid <= object'[j].uid
      /\ \A j \in Keys \ {k} : store'[j] = store[j]
      /\ store'[k].snapshot = None
      /\ pc' \in {"idle", "saveState"}
      /\ pc' # "idle" => rec'.key = k /\ rec'.cur = rec.cur
  BY <1>1, SkipSaveKeeps DEF st
<1>3. UIDsGrow'
  BY <1>1, <1>2 DEF Inductive, UIDsGrow
<1>4. Recorded'
  <2>1. object[k].phase = "live" /\ ~contested[k] => object[k].replicas = chosen[k]
    BY <1>1 DEF Inductive, CallFacts
  <2> QED BY <1>1, <1>2, <2>1 DEF Inductive, Recorded, HoldsSnapshot
<1>5. CallFacts'
  BY <1>2 DEF CallFacts
<1> QED BY <1>2, <1>3, <1>4, <1>5 DEF Guarantee

(* An override: the count the owner chose is accepted as it is. *)
LEMMA SaveOverrideKeeps ==
    ASSUME TargetsAgree, Inductive, SaveOverride
    PROVE  Guarantee'
<1> DEFINE k == rec.key
           st == [rec.doc[k] EXCEPT !.snapshot = None, !.skip = "override"]
           accepted == /\ st.uid = object[k].uid
                       /\ object[k].replicas = rec.live
                       /\ chosen[k] = rec.live
<1>1. /\ rec \in Reconciles /\ k \in Keys /\ pc = "saveOverride"
      /\ store' = [rec.doc EXCEPT ![k] = st] /\ Proceed(rec, st)
      /\ UNCHANGED <<clock, object, chosen>>
      /\ contested' = [contested EXCEPT ![k] = @ /\ ~accepted]
      /\ contested \in [Keys -> BOOLEAN]
  BY DEF Inductive, TypeOK, Reconciles, SaveOverride
<1>2. /\ contested'[k] = (contested[k] /\ ~accepted)
      /\ \A j \in Keys \ {k} : contested'[j] = contested[j]
  BY <1>1
<1> HIDE DEF st
<1>3. /\ DocCurrent' /\ Anchored'
      /\ \A j \in Keys : store'[j].uid <= object'[j].uid
      /\ \A j \in Keys \ {k} : store'[j] = store[j]
      /\ store'[k].snapshot = None
      /\ st.uid = rec.cur.uid
      /\ pc' \in {"delete", "saveSnapshot", "idle", "saveState"}
      /\ pc' # "idle" => /\ rec'.key = k /\ rec'.cur = rec.cur
                        /\ rec'.live = rec.live
                        /\ rec'.doc[k].snapshot = None
      /\ pc' = "saveSnapshot" /\ rec'.desired # rec'.live =>
                \A p \in Policies : rec'.desired <= p.scheduledDown
  BY <1>1, SkipSaveKeeps DEF st
<1>4. UIDsGrow'
  BY <1>1, <1>2, <1>3 DEF Inductive, UIDsGrow
<1>5. object[k].phase = "live" /\ ~contested'[k] =>
        object[k].replicas = chosen[k] /\ object[k].replicas = rec.live
  BY <1>1, <1>2 DEF Inductive, CallFacts
<1> HIDE DEF accepted
<1>6. Recorded'
  BY <1>1, <1>2, <1>3, <1>5 DEF Inductive, Recorded, HoldsSnapshot
<1>7. CallFacts'
  BY <1>1, <1>3, <1>5 DEF CallFacts
<1> QED BY <1>3, <1>4, <1>6, <1>7 DEF Guarantee

(* The snapshot saves the owner's count before it is lowered. *)
LEMMA SaveSnapshotKeeps ==
    ASSUME Inductive, SaveSnapshot
    PROVE  Guarantee'
<1> DEFINE k == rec.key
           old == rec.doc[k]
           st == [old EXCEPT !.snapshot = rec.live]
<1>1. /\ rec \in Reconciles /\ k \in Keys /\ rec.doc \in [Keys -> WorkloadStates]
      /\ old \in WorkloadStates /\ rec.live \in Replicas /\ pc = "saveSnapshot"
      /\ UNCHANGED <<clock, object, chosen, contested>>
  BY DEF Inductive, TypeOK, Reconciles, SaveSnapshot
<1>2. /\ store' = [rec.doc EXCEPT ![k] = st]
      /\ \/ /\ rec.desired # rec.live /\ pc' = "scaleDown"
            /\ rec' = [rec EXCEPT !.doc = [rec.doc EXCEPT ![k] = st]]
         \/ pc' = "idle"
  <2>1. [rec.doc EXCEPT ![k].snapshot = rec.live] = [rec.doc EXCEPT ![k] = st]
    OBVIOUS
  <2> QED BY <2>1 DEF SaveSnapshot, Finish
<1>3. /\ st \in WorkloadStates /\ st.snapshot = rec.live /\ st.uid = old.uid
      /\ st.windowId = old.windowId /\ st.entryRev = old.entryRev
      /\ st.revision = old.revision /\ st.firstSeen = old.firstSeen
  BY <1>1 DEF WorkloadStates
<1> HIDE DEF st
<1>4. /\ old.uid = rec.cur.uid /\ store[k].uid = rec.cur.uid /\ store[k].snapshot = None
  BY <1>1 DEF Inductive, DocCurrent, CallFacts
<1>5. AnchoredAt(st, rec.now) /\ AnchoredAt(st, clock)
  <2>1. AnchoredAt(old, rec.now)
    BY <1>1 DEF Inductive, Anchored
  <2>2. AnchoredAt(st, rec.now)
    BY <1>3, <2>1 DEF AnchoredAt
  <2> QED BY <1>1, <2>2, AnchoredLater
<1>6. /\ \A j \in Keys \ {k} : store'[j] = store[j]
      /\ store'[k] = st
      /\ \A j \in Keys : store'[j].uid <= object'[j].uid
      /\ \A j \in Keys : AnchoredAt(store[j], clock)'
  BY <1>1, <1>2, <1>3, <1>4, <1>5, SaveKeeps
<1>7. pc' # "idle" =>
        /\ pc' = "scaleDown" /\ rec.desired # rec.live
        /\ rec'.key = k /\ rec'.cur = rec.cur /\ rec'.now = rec.now
        /\ rec'.desired = rec.desired
        /\ rec'.doc[k] = st /\ \A j \in Keys \ {k} : rec'.doc[j] = store[j]
  <2>1. \A j \in Keys \ {k} : rec.doc[j] = store[j]
    BY <1>1 DEF Inductive, DocCurrent
  <2>2. CASE pc' # "idle"
    <3>1. rec' = [rec EXCEPT !.doc = [rec.doc EXCEPT ![k] = st]]
          /\ pc' = "scaleDown" /\ rec.desired # rec.live
      BY <1>2, <2>2
    <3>2. rec'.doc = [rec.doc EXCEPT ![k] = st]
      BY <1>1, <3>1 DEF Reconciles
    <3> QED BY <1>1, <2>1, <3>1, <3>2 DEF Reconciles
  <2> QED BY <2>2
<1>8. UIDsGrow'
  BY <1>1, <1>6, <1>7 DEF Inductive, UIDsGrow
<1>9. DocCurrent'
  BY <1>3, <1>4, <1>6, <1>7 DEF DocCurrent
<1>10. Recorded'
  <2>1. object[k].phase = "live" /\ ~contested[k] =>
          object[k].replicas = chosen[k] /\ object[k].replicas = rec.live
    BY <1>1, <1>4 DEF Inductive, CallFacts, Recorded, HoldsSnapshot
  <2> QED BY <1>1, <1>3, <1>6, <2>1 DEF Inductive, Recorded, HoldsSnapshot
<1>11. CallFacts'
  <2>1. rec.live # None
    BY <1>1, NoneIsNoNumber, BoundsAssumption DEF Replicas
  <2>2. rec.desired # rec.live => \A p \in Policies : rec.desired <= p.scheduledDown
    BY <1>1 DEF Inductive, CallFacts
  <2> QED BY <1>3, <1>7, <2>1, <2>2 DEF CallFacts
<1>12. Anchored'
  <2>1. pc' # "idle" => AnchoredAt(rec.doc[rec.key], rec.now)'
    BY <1>5, <1>7 DEF AnchoredAt
  <2>2. pc' # "idle" => rec'.now <= clock'
    BY <1>1, <1>7 DEF Inductive, Anchored
  <2> QED BY <1>6, <2>1, <2>2 DEF Anchored
<1> QED BY <1>8, <1>9, <1>10, <1>11, <1>12 DEF Guarantee

(* A workload being deleted is not live any more. *)
LEMMA DeleteWorkloadKeeps ==
    ASSUME Inductive, DeleteWorkload
    PROVE  Guarantee'
<1> DEFINE k == rec.key
<1>1. /\ rec \in Reconciles /\ k \in Keys /\ pc = "delete" /\ pc' = "saveDeleted"
      /\ object'[k].phase = "terminating" /\ object'[k].uid = object[k].uid
      /\ \A j \in Keys \ {k} : object'[j] = object[j]
      /\ UNCHANGED <<clock, store, rec, chosen, contested>>
  BY DEF Inductive, TypeOK, Reconciles, DeleteWorkload
<1>2. UIDsGrow' /\ DocCurrent' /\ CallFacts'
  BY <1>1 DEF Inductive, UIDsGrow, DocCurrent, CallFacts
<1>3. Recorded'
  BY <1>1 DEF Inductive, Recorded, HoldsSnapshot
<1>4. Anchored'
  BY <1>1 DEF Inductive, Anchored, AnchoredAt
<1> QED BY <1>2, <1>3, <1>4 DEF Guarantee

(* Time passes.  What was anchored stays anchored. *)
LEMMA TickKeeps ==
    ASSUME Inductive, Tick
    PROVE  Guarantee'
<1>1. /\ clock \in Times /\ clock' = clock + 1
      /\ UNCHANGED <<object, store, pc, rec, chosen, contested>>
  BY DEF Inductive, TypeOK, Tick
<1>2. UIDsGrow' /\ DocCurrent' /\ Recorded' /\ CallFacts'
  BY <1>1 DEF Inductive, UIDsGrow, DocCurrent, Recorded, HoldsSnapshot, CallFacts
<1>3. Anchored'
  <2>1. ASSUME NEW st, AnchoredAt(st, clock) PROVE AnchoredAt(st, clock + 1)
    BY <1>1, <2>1, BoundsAssumption DEF AnchoredAt, Times
  <2>2. \A j \in Keys : AnchoredAt(store[j], clock)'
    <3>1. \A j \in Keys : AnchoredAt(store[j], clock + 1)
      BY <2>1 DEF Inductive, Anchored
    <3> QED BY <1>1, <3>1 DEF AnchoredAt
  <2>3. pc \notin {"idle", "begin"} =>
          rec'.now <= clock' /\ AnchoredAt(rec.doc[rec.key], rec.now)'
    BY <1>1, BoundsAssumption
       DEF Inductive, TypeOK, Anchored, AnchoredAt, Reconciles, Times
  <2> QED BY <1>1, <2>2, <2>3 DEF Anchored
<1> QED BY <1>2, <1>3 DEF Guarantee

(* An owner's change of one object.  It leaves a live, uncontested object  *)
(* either with the count the owner chose and no snapshot of it, or as it   *)
(* was before.                                                             *)
LEMMA OwnerKeeps ==
    ASSUME Inductive, NEW k \in Keys,
           UNCHANGED <<clock, store, pc, rec>>,
           \A j \in Keys \ {k} : /\ object'[j] = object[j] /\ chosen'[j] = chosen[j]
                                /\ contested'[j] = contested[j],
           object[k].uid <= object'[k].uid, object'[k].uid \in UIDs,
           InFlight(k) /\ object'[k].phase = "live" /\ rec.cur.uid # object'[k].uid
             => contested'[k],
           object'[k].phase = "live" /\ ~contested'[k] =>
             \/ /\ ~HoldsSnapshot(k)' /\ object'[k].replicas = chosen'[k]
                /\ ~HasRead(k)
             \/ /\ object[k].phase = "live" /\ ~contested[k]
                /\ object'[k].uid = object[k].uid
                /\ object'[k].replicas = object[k].replicas /\ chosen'[k] = chosen[k]
    PROVE  Guarantee'
<1>1. /\ object[k].uid \in UIDs /\ store[k].uid \in UIDs \cup {NoUID}
      /\ pc # "idle" => rec.cur.uid \in UIDs /\ rec.key \in Keys
  BY DEF Inductive, TypeOK, Reconciles, WorkloadStates
<1>2. UIDsGrow'
  <2>1. \A j \in Keys : store'[j].uid <= object'[j].uid
    BY <1>1, BoundsAssumption DEF Inductive, UIDsGrow, UIDs, NoUID
  <2>2. pc # "idle" => rec.cur.uid <= object'[rec.key].uid
    BY <1>1, BoundsAssumption DEF Inductive, UIDsGrow, UIDs
  <2>3. pc # "idle" /\ rec.cur.uid # object'[rec.key].uid /\ object'[rec.key].phase = "live"
          => contested'[rec.key]
    BY <1>1 DEF Inductive, UIDsGrow, InFlight
  <2> QED BY <2>1, <2>2, <2>3 DEF UIDsGrow
<1>3. DocCurrent'
  BY DEF Inductive, DocCurrent
<1>4. Recorded'
  <2>1. ASSUME NEW j \in Keys \ {k}, object'[j].phase = "live", ~contested'[j]
        PROVE  IF HoldsSnapshot(j)'
               THEN /\ store'[j].snapshot = chosen'[j]
                    /\ \/ object'[j].replicas = chosen'[j]
                       \/ \A p \in Policies : object'[j].replicas <= p.scheduledDown
               ELSE object'[j].replicas = chosen'[j]
    BY <2>1 DEF Inductive, Recorded, HoldsSnapshot
  <2>2. ASSUME object'[k].phase = "live", ~contested'[k]
        PROVE  IF HoldsSnapshot(k)'
               THEN /\ store'[k].snapshot = chosen'[k]
                    /\ \/ object'[k].replicas = chosen'[k]
                       \/ \A p \in Policies : object'[k].replicas <= p.scheduledDown
               ELSE object'[k].replicas = chosen'[k]
    BY <2>2 DEF Inductive, Recorded, HoldsSnapshot
  <2> QED BY <2>1, <2>2 DEF Recorded
<1>5. CallFacts'
  <2>1. CASE pc # "idle" /\ rec.key = k
    BY <2>1 DEF Inductive, CallFacts, HasRead, InFlight
  <2>2. CASE pc # "idle" /\ rec.key # k
    BY <1>1, <2>2 DEF Inductive, CallFacts
  <2>3. CASE pc = "idle"
    BY <2>3 DEF CallFacts
  <2> QED BY <2>1, <2>2, <2>3
<1>6. Anchored'
  BY DEF Inductive, Anchored, AnchoredAt
<1> QED BY <1>2, <1>3, <1>4, <1>5, <1>6 DEF Guarantee

(* Owners, the garbage collector and time. *)
LEMMA EnvironmentKeeps ==
    ASSUME Inductive, Environment
    PROVE  Guarantee'
<1>1. CASE Tick
  BY <1>1, TickKeeps
<1> SUFFICES ASSUME NEW k \in Keys,
                    \/ \E n \in Replicas : OwnerScales(k, n)
                    \/ \E c \in Templates : OwnerRedeploys(k, c)
                    \/ OwnerDeletes(k)
                    \/ Collect(k)
                    \/ \E c \in Templates, n \in Replicas : OwnerRecreates(k, c, n)
             PROVE  Guarantee'
  BY <1>1 DEF Environment
<1>2. /\ object \in [Keys -> [uid : UIDs, containers : Templates, replicas : Replicas,
                              phase : {"live", "terminating", "gone"}]]
      /\ chosen \in [Keys -> Replicas] /\ contested \in [Keys -> BOOLEAN]
      /\ object[k].uid \in UIDs /\ object[k].uid \in Nat
  BY BoundsAssumption DEF Inductive, TypeOK, UIDs
<1>3. ASSUME NEW n \in Replicas, OwnerScales(k, n) PROVE Guarantee'
  <2>1. /\ object[k].phase = "live"
        /\ object'[k].replicas = n /\ chosen'[k] = n /\ object'[k].uid = object[k].uid
        /\ contested'[k] = (HasRead(k) \/ HoldsSnapshot(k) \/ (contested[k] /\ InFlight(k)))
        /\ \A j \in Keys \ {k} : /\ object'[j] = object[j] /\ chosen'[j] = chosen[j]
                                /\ contested'[j] = contested[j]
        /\ UNCHANGED <<clock, store, pc, rec>>
    BY <1>2, <1>3 DEF OwnerScales
  <2>2. ~HoldsSnapshot(k) => ~HoldsSnapshot(k)'
    BY <2>1 DEF HoldsSnapshot
  <2>3. InFlight(k) /\ rec.cur.uid # object'[k].uid => contested'[k]
    BY <2>1 DEF Inductive, UIDsGrow, InFlight
  <2>4. object[k].uid <= object'[k].uid
    BY <1>2, <2>1
  <2> QED BY <1>2, <2>1, <2>2, <2>3, <2>4, OwnerKeeps
<1>4. ASSUME NEW c \in Templates, OwnerRedeploys(k, c) \/ OwnerDeletes(k) \/ Collect(k)
      PROVE  Guarantee'
  <2>1. /\ object'[k].uid = object[k].uid /\ object'[k].replicas = object[k].replicas
        /\ object'[k].phase = "live" => object[k].phase = "live"
        /\ \A j \in Keys \ {k} : object'[j] = object[j]
        /\ UNCHANGED <<clock, store, pc, rec, chosen, contested>>
    BY <1>2, <1>4 DEF OwnerRedeploys, OwnerDeletes, Collect
  <2>2. InFlight(k) /\ object'[k].phase = "live" /\ rec.cur.uid # object'[k].uid
          => contested'[k]
    BY <2>1 DEF Inductive, UIDsGrow, InFlight
  <2>3. object[k].uid <= object'[k].uid
    BY <1>2, <2>1
  <2> QED BY <1>2, <2>1, <2>2, <2>3, OwnerKeeps
<1>5. ASSUME NEW c \in Templates, NEW n \in Replicas, OwnerRecreates(k, c, n)
      PROVE  Guarantee'
  <2>1. /\ object'[k].uid = object[k].uid + 1 /\ object'[k].uid \in UIDs
        /\ object'[k].replicas = n /\ chosen'[k] = n
        /\ contested'[k] = InFlight(k)
        /\ \A j \in Keys \ {k} : /\ object'[j] = object[j] /\ chosen'[j] = chosen[j]
                                /\ contested'[j] = contested[j]
        /\ UNCHANGED <<clock, store, pc, rec>>
    BY <1>2, <1>5, BoundsAssumption DEF OwnerRecreates, UIDs
  <2>2. ~HoldsSnapshot(k)'
    <3>1. store[k].uid <= object[k].uid /\ store[k].uid \in Int
      BY BoundsAssumption
         DEF Inductive, UIDsGrow, TypeOK, WorkloadStates, UIDs, NoUID
    <3> QED BY <1>2, <2>1, <3>1 DEF HoldsSnapshot
  <2>3. object[k].uid <= object'[k].uid
    BY <1>2, <2>1
  <2>4. HasRead(k) => InFlight(k)
    BY DEF HasRead
  <2> QED BY <2>1, <2>2, <2>3, <2>4, OwnerKeeps
<1>6. ASSUME OwnerDeletes(k) \/ Collect(k) PROVE Guarantee'
  <2>1. object[k].containers \in Templates
    BY <1>2
  <2> QED BY <1>4, <1>6, <2>1
<1> QED BY <1>3, <1>4, <1>5, <1>6

(* Every step preserves the inductive invariant. *)
LEMMA InductiveNext ==
    ASSUME TargetsAgree, WindowsAreShort
    PROVE  Inductive /\ [Next]_vars => Inductive'
<1> SUFFICES ASSUME Inductive, [Next]_vars PROVE Inductive'
  OBVIOUS
<1>1. TypeOK'
  BY InductiveTyped, TypeInvNext DEF TypeInv
<1>2. Guarantee'
  <2>1. CASE \E k \in Keys : Start(k)
    BY <2>1, StartKeeps
  <2>2. CASE \E p \in Policies : Begin(p)
    BY <2>2, BeginKeeps
  <2>3. CASE SaveIdentity
    BY <2>3, SaveIdentityKeeps
  <2>4. CASE ReadScale
    BY <2>4, ReadScaleKeeps
  <2>5. CASE RedeployScale \/ Restore
    BY <2>5, RestoringKeeps
  <2>6. CASE SaveRedeploy
    BY <2>6, SaveRedeployKeeps
  <2>7. CASE SaveOverride
    BY <2>7, SaveOverrideKeeps
  <2>8. CASE DeleteWorkload
    BY <2>8, DeleteWorkloadKeeps
  <2>9. CASE SaveState \/ SaveClear \/ SaveDeleted
    BY <2>9, LastSaveKeeps
  <2>10. CASE SaveSnapshot
    BY <2>10, SaveSnapshotKeeps
  <2>11. CASE ScaleDown \/ Scale
    BY <2>11, LoweringKeeps
  <2>12. CASE Refused \/ Abort
    <3>1. Finish /\ UNCHANGED <<clock, object, store, chosen, contested>>
      BY <2>12 DEF Refused, Abort
    <3> QED BY <3>1, FinishKeeps
  <2>13. CASE Environment
    BY <2>13, EnvironmentKeeps
  <2>14. CASE UNCHANGED vars
    BY <2>14 DEF vars, Inductive, Guarantee, UIDsGrow, DocCurrent, Recorded,
                 HoldsSnapshot, CallFacts, Anchored, AnchoredAt
  <2> QED
    BY <2>1, <2>2, <2>3, <2>4, <2>5, <2>6, <2>7, <2>8, <2>9, <2>10, <2>11, <2>12,
       <2>13, <2>14 DEF Next, Controller, Call
<1> QED BY <1>1, <1>2 DEF Inductive, Guarantee

(* When all policies share one scheduled target, no expired target is      *)
(* above it, and no revision expires inside the window instance that first *)
(* saw it, the owner's replica count is never lost: a live, uncontested    *)
(* workload at another count has it in its durable snapshot, whatever the  *)
(* interleaving of owners, crashes and the calls of a reconcile            *)
(* (applyDecision, handleRedeployDuringWindow, reconcileIdentity).         *)
THEOREM IntentIsRecorded ==
    ASSUME TargetsAgree, WindowsAreShort
    PROVE  Spec => []IntentRecorded
<1>1. Inductive => IntentRecorded
  BY DEF Inductive, Recorded, IntentRecorded, HoldsSnapshot
<1>2. Inductive /\ [Next]_vars => Inductive'
  BY InductiveNext
<1> QED BY <1>1, <1>2, InductiveInit, PTL DEF Spec

-----------------------------------------------------------------------------
(***************************************************************************)
(* The steps, seen from the durable entries.  The properties that do not   *)
(* depend on replica counts follow from a few shapes of steps, and need no *)
(* condition on the policies.                                              *)
(***************************************************************************)

(* A reconcile has its document. *)
Loaded == pc \notin {"idle", "begin"}

TaskKept ==
    /\ Loaded' /\ pc' # "saveIdentity"
    /\ rec'.key = rec.key /\ rec'.cur = rec.cur
    /\ rec'.pol = rec.pol /\ rec'.now = rec.now

(* What a save may change of an entry: the snapshot, and it may add a skip. *)
SameEntry(old, new) ==
    /\ new.uid = old.uid /\ new.tracking = old.tracking /\ new.revision = old.revision
    /\ new.firstSeen = old.firstSeen /\ new.windowId = old.windowId
    /\ new.skip = old.skip \/ new.skip # None

(* A save writes the local document, and the reconcile ends or goes on     *)
(* with what it has written.                                               *)
SaveShape ==
    /\ Loaded
    /\ \E st \in WorkloadStates :
          SameEntry(rec.doc[rec.key], st) /\ store' = [rec.doc EXCEPT ![rec.key] = st]
    /\ pc' = "idle" \/ (TaskKept /\ rec'.doc = store')
    /\ pc' # "saveDeleted"
    /\ UNCHANGED <<clock, object>>

ForgetShape ==
    /\ pc = "saveDeleted" /\ pc' = "idle"
    /\ store' = [rec.doc EXCEPT ![rec.key] = NoState]
    /\ UNCHANGED <<clock, object>>

(* The read of the scale brings the entry's window up to date. *)
ReadShape ==
    /\ pc = "readScale"
    /\ \/ pc' = "idle"
       \/ /\ TaskKept
          /\ rec'.doc = [rec.doc EXCEPT ![rec.key] =
                           EnterWindow(rec.doc[rec.key], rec.pol.window[rec.now])]
    /\ pc' # "saveDeleted"
    /\ UNCHANGED <<clock, object, store>>

(* Calls on the workload, and the ends of a reconcile. *)
CallShape ==
    /\ pc # "idle"
    /\ \/ pc' = "idle"
       \/ Loaded /\ pc # "saveIdentity" /\ TaskKept /\ rec'.doc = rec.doc
    /\ \A j \in Keys :
          /\ object'[j].uid = object[j].uid /\ object'[j].containers = object[j].containers
          /\ \/ object'[j].phase = object[j].phase
             \/ object'[j].phase # "live"
    /\ pc' = "saveDeleted" => object'[rec.key].phase # "live"
    /\ UNCHANGED <<clock, store>>

(* The owner, the garbage collector and time. *)
OutsideShape ==
    /\ clock <= clock'
    /\ \A j \in Keys :
          \/ /\ object'[j].uid = object[j].uid
             /\ object'[j].phase \in {object[j].phase, "gone"}
          \/ object'[j].uid = object[j].uid + 1
    /\ UNCHANGED <<store, pc, rec>>

Shaped ==
    \/ SaveShape \/ ForgetShape \/ ReadShape \/ CallShape \/ OutsideShape
    \/ \E k \in Keys : Start(k)
    \/ \E p \in Policies : Begin(p)

(* The calls that lower a workload are made for an expired revision, or in *)
(* a window that is not skipped; the deletion for an expired revision.     *)
CallJustified ==
    LET st == rec.doc[rec.key]
        expired == Expired(rec.now, st.firstSeen, rec.pol.maxAge)
    IN  /\ pc \in {"saveSnapshot", "scaleDown", "scale"} =>
             expired \/ (rec.pol.window[rec.now] # None /\ st.skip = None)
        /\ pc = "delete" => expired

(* What the lemmas on shapes use of the types. *)
LEMMA LocalTypes ==
    ASSUME TypeInv, pc # "idle"
    PROVE  /\ rec \in Reconciles /\ rec.key \in Keys /\ rec.doc \in [Keys -> WorkloadStates]
           /\ rec.doc[rec.key] \in WorkloadStates /\ rec.now \in Times
           /\ rec.cur \in [uid : UIDs, containers : Templates] /\ rec.live \in Replicas
           /\ pc # "begin" => rec.pol \in Policies
  BY DEF TypeInv, TypeOK, Reconciles

(* The three saves that write the entry as it is, or without a snapshot. *)
LEMMA PlainSaveShape ==
    ASSUME TypeInv, SaveIdentity \/ SaveState \/ SaveClear
    PROVE  SaveShape /\ CallJustified'
<1> DEFINE k == rec.key
           old == rec.doc[k]
<1>1. Loaded /\ k \in Keys /\ rec.doc \in [Keys -> WorkloadStates] /\ old \in WorkloadStates
  BY LocalTypes DEF SaveIdentity, SaveState, SaveClear, Loaded
<1>2. rec.doc = [rec.doc EXCEPT ![k] = old]
  BY <1>1
<1>3. CallJustified'
  BY DEF SaveIdentity, SaveState, SaveClear, Finish, CallJustified
<1>4. SameEntry(old, old)
  BY DEF SameEntry
<1>5. CASE SaveIdentity
  BY <1>1, <1>2, <1>3, <1>4, <1>5 DEF SaveIdentity, SaveShape, TaskKept, Loaded
<1>6. CASE SaveState
  BY <1>1, <1>2, <1>3, <1>4, <1>6 DEF SaveState, Finish, SaveShape
<1>7. CASE SaveClear
  <2> DEFINE st == [old EXCEPT !.snapshot = None]
  <2>1. st \in WorkloadStates /\ SameEntry(old, st)
    BY <1>1 DEF WorkloadStates, SameEntry
  <2>2. store' = [rec.doc EXCEPT ![k] = st] /\ pc' = "idle" /\ UNCHANGED <<clock, object>>
    BY <1>7 DEF SaveClear, Finish
  <2> QED BY <1>1, <1>3, <2>1, <2>2 DEF SaveShape
<1> QED BY <1>5, <1>6, <1>7

(* The save of a snapshot. *)
LEMMA SnapshotShape ==
    ASSUME TypeInv, CallJustified, SaveSnapshot
    PROVE  SaveShape /\ CallJustified'
<1> DEFINE k == rec.key
           old == rec.doc[k]
           st == [old EXCEPT !.snapshot = rec.live]
           doc == [rec.doc EXCEPT ![k] = st]
<1>1. /\ Loaded /\ k \in Keys /\ rec.doc \in [Keys -> WorkloadStates] /\ old \in WorkloadStates
      /\ rec \in Reconciles /\ rec.live \in Replicas /\ pc = "saveSnapshot"
  BY LocalTypes DEF SaveSnapshot, Loaded
<1>2. st \in WorkloadStates /\ SameEntry(old, st) /\ st.skip = old.skip
  BY <1>1 DEF WorkloadStates, SameEntry
<1>3. /\ store' = doc /\ UNCHANGED <<clock, object>>
      /\ pc' = "idle" \/ (pc' = "scaleDown" /\ rec' = [rec EXCEPT !.doc = doc])
  BY DEF SaveSnapshot, Finish
<1>4. CASE pc' = "idle"
  BY <1>1, <1>2, <1>3, <1>4 DEF SaveShape, CallJustified
<1>5. CASE pc' = "scaleDown"
  <2>1. /\ rec'.key = k /\ rec'.cur = rec.cur /\ rec'.pol = rec.pol /\ rec'.now = rec.now
        /\ rec'.doc = doc
    BY <1>1, <1>3, <1>5 DEF Reconciles
  <2>2. doc[k].firstSeen = old.firstSeen /\ doc[k].skip = old.skip
    BY <1>1, <1>2 DEF SameEntry
  <2> HIDE DEF st, doc
  <2>3. CallJustified'
    BY <1>1, <1>5, <2>1, <2>2 DEF CallJustified
  <2> QED BY <1>1, <1>2, <1>3, <1>5, <2>1, <2>3 DEF SaveShape, TaskKept, Loaded, doc
<1> QED BY <1>3, <1>4, <1>5

(* The saves of a skip. *)
LEMMA SkipShape ==
    ASSUME TypeInv, SaveRedeploy \/ SaveOverride
    PROVE  SaveShape /\ CallJustified'
<1> DEFINE k == rec.key
           old == rec.doc[k]
<1>1. /\ Loaded /\ k \in Keys /\ rec.doc \in [Keys -> WorkloadStates] /\ old \in WorkloadStates
      /\ rec \in Reconciles /\ rec.pol \in Policies
  BY LocalTypes DEF SaveRedeploy, SaveOverride, Loaded
<1>2. PICK s \in {"redeploy", "override"} :
        /\ store' = [rec.doc EXCEPT ![k] = [old EXCEPT !.snapshot = None, !.skip = s]]
        /\ Proceed(rec, [old EXCEPT !.snapshot = None, !.skip = s])
        /\ UNCHANGED <<clock, object>>
  BY DEF SaveRedeploy, SaveOverride
<1> DEFINE st == [old EXCEPT !.snapshot = None, !.skip = s]
<1>3. st \in WorkloadStates /\ SameEntry(old, st) /\ st.skip # None
  BY <1>1, NoneAssumption DEF WorkloadStates, SameEntry
<1> HIDE DEF st
<1>4. /\ pc' \in {"delete", "saveSnapshot", "restore", "scale", "idle", "saveState"}
      /\ pc' # "idle" =>
           /\ rec'.key = k /\ rec'.cur = rec.cur /\ rec'.pol = rec.pol
           /\ rec'.now = rec.now /\ rec'.doc = [rec.doc EXCEPT ![k] = st]
      /\ pc' \in {"saveSnapshot", "scale"} =>
           \/ Expired(rec.now, st.firstSeen, rec.pol.maxAge)
           \/ rec.pol.window[rec.now] # None /\ st.skip = None
      /\ pc' = "delete" => Expired(rec.now, st.firstSeen, rec.pol.maxAge)
  BY <1>1, <1>2, <1>3, ProceedFacts DEF st
<1>5. SaveShape
  BY <1>1, <1>2, <1>3, <1>4 DEF SaveShape, TaskKept, Loaded, st
<1>6. [rec.doc EXCEPT ![k] = st][k] = st
  BY <1>1
<1>7. CallJustified'
  BY <1>4, <1>6 DEF CallJustified
<1> QED BY <1>5, <1>7

(* The read of the scale. *)
LEMMA ReadScaleShape ==
    ASSUME TypeInv, ReadScale
    PROVE  ReadShape /\ CallJustified'
<1> DEFINE k == rec.key
           st == EnterWindow(rec.doc[k], rec.pol.window[rec.now])
           r == [rec EXCEPT !.live = object[k].replicas]
<1>1. /\ k \in Keys /\ rec.doc \in [Keys -> WorkloadStates] /\ rec.doc[k] \in WorkloadStates
      /\ rec \in Reconciles /\ rec.pol \in Policies /\ rec.now \in Times
      /\ rec.cur \in [uid : UIDs, containers : Templates]
      /\ object[k].replicas \in Replicas
  BY LocalTypes DEF ReadScale, TypeInv, TypeOK
<1>2. st \in WorkloadStates
  BY <1>1, StatesClosed
<1>3. /\ r \in Reconciles /\ r.key = k /\ r.cur = rec.cur /\ r.pol = rec.pol
      /\ r.now = rec.now /\ r.doc = rec.doc
  BY <1>1 DEF Reconciles
<1>4. /\ [r EXCEPT !.doc[k] = st].key = k /\ [r EXCEPT !.doc[k] = st].cur = rec.cur
      /\ [r EXCEPT !.doc[k] = st].pol = rec.pol /\ [r EXCEPT !.doc[k] = st].now = rec.now
      /\ [r EXCEPT !.doc[k] = st].doc = [rec.doc EXCEPT ![k] = st]
  BY <1>1, <1>3 DEF Reconciles
<1>5. /\ pc = "readScale" /\ UNCHANGED <<clock, object, store>>
      /\ \/ Proceed(r, st)
         \/ /\ pc' \in {"redeployScale", "saveRedeploy", "saveOverride"}
            /\ rec' = [r EXCEPT !.doc[k] = st]
  BY DEF ReadScale, AfterRedeploy
<1> HIDE DEF st, r
<1>6. CASE Proceed(r, st)
  <2>1. /\ pc' \in {"delete", "saveSnapshot", "restore", "scale", "idle", "saveState"}
        /\ pc' # "idle" =>
             /\ rec'.key = k /\ rec'.cur = rec.cur /\ rec'.pol = rec.pol
             /\ rec'.now = rec.now /\ rec'.doc = [rec.doc EXCEPT ![k] = st]
        /\ pc' \in {"saveSnapshot", "scale"} =>
             \/ Expired(rec.now, st.firstSeen, rec.pol.maxAge)
             \/ rec.pol.window[rec.now] # None /\ st.skip = None
        /\ pc' = "delete" => Expired(rec.now, st.firstSeen, rec.pol.maxAge)
    BY <1>1, <1>2, <1>3, <1>6, ProceedFacts
  <2>2. ReadShape
    BY <1>5, <2>1 DEF ReadShape, TaskKept, Loaded, st
  <2>3. [rec.doc EXCEPT ![k] = st][k] = st
    BY <1>1
  <2>4. CallJustified'
    BY <2>1, <2>3 DEF CallJustified
  <2> QED BY <2>2, <2>4
<1>7. CASE /\ pc' \in {"redeployScale", "saveRedeploy", "saveOverride"}
           /\ rec' = [r EXCEPT !.doc[k] = st]
  BY <1>4, <1>5, <1>7 DEF ReadShape, TaskKept, Loaded, CallJustified, st
<1> QED BY <1>5, <1>6, <1>7

(* Calls on the workload, and the ends of a reconcile. *)
LEMMA OtherCallShape ==
    ASSUME TypeInv,
           \/ RedeployScale \/ Restore \/ Scale \/ ScaleDown \/ DeleteWorkload
           \/ Refused \/ Abort
    PROVE  CallShape /\ CallJustified'
<1> USE DEF CallShape, CallJustified, TaskKept, Loaded, Finish
<1>1. object \in [Keys -> [uid : UIDs, containers : Templates, replicas : Replicas,
                           phase : {"live", "terminating", "gone"}]]
  BY DEF TypeInv, TypeOK
<1>2. ASSUME NEW n, UpdateScale(n)
      PROVE  \A j \in Keys :
               /\ object'[j].uid = object[j].uid /\ object'[j].containers = object[j].containers
               /\ object'[j].phase = object[j].phase
  BY <1>1, <1>2 DEF UpdateScale
<1>3. CASE RedeployScale \/ Restore \/ Scale \/ ScaleDown
  BY <1>2, <1>3 DEF RedeployScale, Restore, Scale, ScaleDown, UpdateScale
<1>4. CASE DeleteWorkload
  <2>1. rec.key \in Keys
    BY <1>4, LocalTypes DEF DeleteWorkload
  <2> QED BY <1>1, <1>4, <2>1 DEF DeleteWorkload
<1>5. CASE Refused \/ Abort
  BY <1>5 DEF Refused, Abort
<1> QED BY <1>3, <1>4, <1>5

(* Every step has one of the shapes. *)
LEMMA StepShape ==
    ASSUME TypeInv, CallJustified, [Next]_vars
    PROVE  Shaped /\ CallJustified'
<1>1. CASE SaveIdentity \/ SaveState \/ SaveClear
  BY <1>1, PlainSaveShape DEF Shaped
<1>2. CASE SaveSnapshot
  BY <1>2, SnapshotShape DEF Shaped
<1>3. CASE SaveRedeploy \/ SaveOverride
  BY <1>3, SkipShape DEF Shaped
<1>4. CASE ReadScale
  BY <1>4, ReadScaleShape DEF Shaped
<1>5. CASE \/ RedeployScale \/ Restore \/ Scale \/ ScaleDown \/ DeleteWorkload
           \/ Refused \/ Abort
  BY <1>5, OtherCallShape DEF Shaped
<1>6. CASE SaveDeleted
  BY <1>6 DEF SaveDeleted, Finish, Shaped, ForgetShape, CallJustified
<1>7. CASE \E k \in Keys : Start(k)
  BY <1>7 DEF Start, Shaped, CallJustified
<1>8. CASE \E p \in Policies : Begin(p)
  BY <1>8 DEF Begin, Shaped, CallJustified
<1>9. CASE Environment \/ UNCHANGED vars
  <2>1. UNCHANGED <<store, pc, rec>>
    BY <1>9 DEF Environment, Tick, OwnerScales, OwnerRedeploys, OwnerDeletes, Collect,
                OwnerRecreates, vars
  <2>2. clock \in Int
    BY BoundsAssumption DEF TypeInv, TypeOK, Times
  <2>3. clock <= clock'
    BY <1>9, <2>2 DEF Environment, Tick, OwnerScales, OwnerRedeploys, OwnerDeletes, Collect,
                OwnerRecreates, vars
  <2>4. object \in [Keys -> [uid : UIDs, containers : Templates, replicas : Replicas,
                             phase : {"live", "terminating", "gone"}]]
    BY DEF TypeInv, TypeOK
  <2>5. \A j \in Keys :
          \/ /\ object'[j].uid = object[j].uid
             /\ object'[j].phase \in {object[j].phase, "gone"}
          \/ object'[j].uid = object[j].uid + 1
    BY <1>9, <2>4 DEF Environment, Tick, OwnerScales, OwnerRedeploys, OwnerDeletes, Collect,
                      OwnerRecreates, vars
  <2> QED BY <2>1, <2>3, <2>5 DEF Shaped, OutsideShape, CallJustified
<1> QED BY <1>1, <1>2, <1>3, <1>4, <1>5, <1>6, <1>7, <1>8, <1>9 DEF Next, Controller, Call

-----------------------------------------------------------------------------
(***************************************************************************)
(* Whose entry a reconcile writes, and when it may drop it.                *)
(***************************************************************************)

(* Every other entry of the loaded document is the durable one. *)
OthersCurrent == Loaded => \A j \in Keys \ {rec.key} : rec.doc[j] = store[j]

(* Entries and reconciles are never ahead of the objects, and the entry    *)
(* being reconciled is that of the object the reconcile was started for.   *)
Attributed ==
    /\ \A j \in Keys : store[j].uid <= object[j].uid
    /\ pc # "idle" => rec.cur.uid <= object[rec.key].uid
    /\ Loaded => rec.doc[rec.key].uid = rec.cur.uid
    /\ Loaded /\ pc # "saveIdentity" => store[rec.key].uid = rec.cur.uid

(* A reconcile that drops an entry has had the deletion accepted. *)
DeletionAccepted ==
    pc = "saveDeleted" =>
      object[rec.key].phase # "live" \/ object[rec.key].uid # rec.cur.uid

Owned == OthersCurrent /\ Attributed /\ DeletionAccepted

(* The durable entries a step may change, and how. *)
EntryStep(k) ==
    \/ store'[k] = store[k]
    \/ SaveShape /\ k = rec.key /\ SameEntry(rec.doc[k], store'[k])
    \/ ForgetShape /\ k = rec.key /\ store'[k] = NoState

(* The integers among the types. *)
LEMMA UIDTypes ==
    ASSUME TypeInv
    PROVE  /\ \A j \in Keys : store[j].uid \in Int /\ object[j].uid \in UIDs /\ UIDs \subseteq Int
           /\ NoUID \notin UIDs
           /\ pc # "idle" => rec.key \in Keys /\ rec.cur.uid \in UIDs
<1>1. UIDs \subseteq Int /\ NoUID \notin UIDs /\ NoUID \in Int
  BY BoundsAssumption DEF UIDs, NoUID
<1>2. \A j \in Keys : store[j].uid \in UIDs \cup {NoUID}
  BY DEF TypeInv, TypeOK, WorkloadStates
<1>3. \A j \in Keys : object[j].uid \in UIDs
  BY DEF TypeInv, TypeOK
<1>4. pc # "idle" => rec.key \in Keys /\ rec.cur.uid \in UIDs
  BY DEF TypeInv, TypeOK, Reconciles
<1> QED BY <1>1, <1>2, <1>3, <1>4

(* Saves and the drop of an entry touch the entry of the reconcile only. *)
LEMMA StoreStep ==
    ASSUME TypeInv, OthersCurrent, Shaped, NEW k \in Keys
    PROVE  EntryStep(k)
<1>1. CASE SaveShape
  <2>1. rec.key \in Keys /\ rec.doc \in [Keys -> WorkloadStates]
    BY <1>1, LocalTypes DEF SaveShape, Loaded
  <2> QED BY <1>1, <2>1 DEF SaveShape, EntryStep, OthersCurrent
<1>2. CASE ForgetShape
  <2>1. Loaded /\ rec.key \in Keys /\ rec.doc \in [Keys -> WorkloadStates]
    BY <1>2, LocalTypes DEF ForgetShape, Loaded
  <2> QED BY <1>2, <2>1 DEF ForgetShape, EntryStep, OthersCurrent
<1>3. CASE ReadShape \/ CallShape \/ OutsideShape \/ (\E j \in Keys : Start(j))
           \/ (\E p \in Policies : Begin(p))
  BY <1>3 DEF ReadShape, CallShape, OutsideShape, Start, Begin, EntryStep
<1> QED BY <1>1, <1>2, <1>3 DEF Shaped

(* A save, or the drop of an entry. *)
LEMMA SaveOwned ==
    ASSUME TypeInv, Owned, SaveShape \/ ForgetShape, Shaped
    PROVE  Owned'
<1>1. /\ Loaded /\ rec.key \in Keys /\ rec.doc \in [Keys -> WorkloadStates]
      /\ UNCHANGED object
  BY LocalTypes DEF SaveShape, ForgetShape, Loaded
<1>2. rec.doc[rec.key].uid = rec.cur.uid /\ rec.cur.uid <= object[rec.key].uid
  BY <1>1 DEF Owned, Attributed, Loaded
<1>3. \A j \in Keys : object[j].uid \in Int /\ NoUID <= object[j].uid
  BY UIDTypes, BoundsAssumption DEF UIDs, NoUID
<1>4. \A j \in Keys : store'[j].uid <= object[j].uid
  <2> TAKE j \in Keys
  <2>1. EntryStep(j)
    BY StoreStep DEF Owned
  <2> QED BY <1>2, <1>3, <2>1 DEF EntryStep, SameEntry, NoState, Owned, Attributed
<1>5. CASE pc' = "idle"
  BY <1>1, <1>4, <1>5 DEF Owned, OthersCurrent, Attributed, DeletionAccepted, Loaded
<1>6. CASE pc' # "idle"
  <2>1. /\ SaveShape /\ TaskKept /\ rec'.doc = store'
    BY <1>6 DEF SaveShape, ForgetShape
  <2>2. store'[rec.key].uid = rec.cur.uid
    BY <1>1, <1>2, <2>1 DEF SaveShape, SameEntry
  <2>3. pc' # "saveDeleted"
    BY <1>6 DEF SaveShape, ForgetShape
  <2> QED BY <1>1, <1>2, <1>4, <2>1, <2>2, <2>3
          DEF Owned, OthersCurrent, Attributed, DeletionAccepted, TaskKept
<1> QED BY <1>5, <1>6

(* The start of a reconcile and its load of the document. *)
LEMMA LoadOwned ==
    ASSUME TypeInv, Owned,
           (\E k \in Keys : Start(k)) \/ (\E p \in Policies : Begin(p))
    PROVE  Owned'
<1> USE DEF Owned, OthersCurrent, Attributed, DeletionAccepted, Loaded
<1>1. CASE \E k \in Keys : Start(k)
  <2>1. \A j \in Keys : object[j].uid <= object[j].uid
    BY UIDTypes
  <2> QED BY <1>1, <2>1 DEF Start
<1>2. CASE \E p \in Policies : Begin(p)
  <2>1. PICK p \in Policies : Begin(p)
    BY <1>2
  <2> DEFINE st == reconcileIdentity(store[rec.key], rec.cur, p, clock)
             doc == [store EXCEPT ![rec.key] = st]
  <2>2. rec \in Reconciles /\ rec.key \in Keys /\ store \in [Keys -> WorkloadStates]
    BY <2>1, LocalTypes DEF Begin, TypeInv, TypeOK
  <2>3. /\ pc = "begin" /\ pc' \in {"saveIdentity", "readScale"}
        /\ pc' # "saveIdentity" => SameIdentity(store[rec.key], rec.cur, p)
        /\ rec'.key = rec.key /\ rec'.cur = rec.cur /\ rec'.doc = doc
        /\ UNCHANGED <<object, store>>
    BY <2>1, <2>2 DEF Begin, Reconciles
  <2>4. doc[rec.key].uid = rec.cur.uid /\ \A j \in Keys \ {rec.key} : doc[j] = store[j]
    BY <2>2 DEF reconcileIdentity
  <2> HIDE DEF doc
  <2> QED BY <2>3, <2>4 DEF SameIdentity, SameUID
<1> QED BY <1>1, <1>2

(* Calls on the workload, the read of its scale, and the environment. *)
LEMMA OtherOwned ==
    ASSUME TypeInv, Owned, ReadShape \/ CallShape \/ OutsideShape
    PROVE  Owned'
<1> USE DEF Owned, OthersCurrent, Attributed, DeletionAccepted, Loaded
<1>1. CASE ReadShape
  <2>1. /\ pc = "readScale" /\ rec.key \in Keys /\ rec.doc \in [Keys -> WorkloadStates]
        /\ rec.doc[rec.key] \in WorkloadStates /\ rec.pol \in Policies /\ rec.now \in Times
        /\ rec.cur \in [uid : UIDs, containers : Templates]
    BY <1>1, LocalTypes DEF ReadShape
  <2>2. EnterWindow(rec.doc[rec.key], rec.pol.window[rec.now]).uid = rec.doc[rec.key].uid
    BY <2>1, StatesClosed
  <2> QED BY <1>1, <2>1, <2>2 DEF ReadShape, TaskKept
<1>2. CASE CallShape
  <2>1. rec.key \in Keys
    BY <1>2, LocalTypes DEF CallShape
  <2>2. /\ store' = store /\ pc # "idle"
        /\ \A j \in Keys : object'[j].uid = object[j].uid
        /\ pc' = "saveDeleted" => object'[rec.key].phase # "live"
    BY <1>2 DEF CallShape
  <2>3. CASE pc' = "idle"
    BY <2>2, <2>3
  <2>4. CASE Loaded /\ pc # "saveIdentity" /\ TaskKept /\ rec'.doc = rec.doc
    <3>1. OthersCurrent'
      BY <2>2, <2>4 DEF TaskKept
    <3>2. Attributed'
      BY <2>1, <2>2, <2>4 DEF TaskKept
    <3>3. DeletionAccepted'
      BY <2>2, <2>4 DEF TaskKept
    <3> QED BY <3>1, <3>2, <3>3
  <2> QED BY <1>2, <2>3, <2>4 DEF CallShape
<1>3. CASE OutsideShape
  <2>1. \A j \in Keys : object[j].uid \in Int /\ store[j].uid \in Int
    BY UIDTypes
  <2>2. pc # "idle" => rec.key \in Keys /\ rec.cur.uid \in Int
    BY UIDTypes
  <2>3. \A j \in Keys : object[j].uid <= object'[j].uid
    BY <1>3, <2>1 DEF OutsideShape
  <2>4. \A j \in Keys : object'[j].uid \in Int
    BY <1>3, <2>1 DEF OutsideShape
  <2>5. Attributed' /\ OthersCurrent'
    BY <1>3, <2>1, <2>2, <2>3, <2>4 DEF OutsideShape
  <2>6. DeletionAccepted'
    BY <1>3, <2>1, <2>2 DEF OutsideShape
  <2> QED BY <2>5, <2>6
<1> QED BY <1>1, <1>2, <1>3

(* Entries, reconciles and objects keep belonging together. *)
OwnedInv == TypeInv /\ CallJustified /\ Owned

LEMMA OwnedInit == Init => OwnedInv
<1>1. \A k \in Keys : Init => store[k].uid <= object[k].uid
  BY DEF Init, NoState, NoUID
<1> QED BY <1>1, TypeInvInit DEF OwnedInv, Init, CallJustified, Owned, OthersCurrent,
                                 Attributed, DeletionAccepted, Loaded

LEMMA OwnedNext == OwnedInv /\ [Next]_vars => OwnedInv' /\ Shaped
<1> SUFFICES ASSUME OwnedInv, [Next]_vars PROVE OwnedInv' /\ Shaped
  OBVIOUS
<1>1. Shaped /\ CallJustified' /\ TypeInv'
  BY StepShape, TypeInvNext DEF OwnedInv
<1>2. Owned'
  BY <1>1, SaveOwned, LoadOwned, OtherOwned DEF OwnedInv, Shaped
<1> QED BY <1>1, <1>2 DEF OwnedInv

(* What a step changes of the document, and what it may drop. *)
LEMMA OneEntryAtATime ==
    OwnedInv /\ [Next]_vars => [\A k \in Keys : store'[k] # store[k] => InFlight(k)]_vars
<1> SUFFICES ASSUME OwnedInv, [Next]_vars, NEW k \in Keys, store'[k] # store[k]
             PROVE  InFlight(k)
  OBVIOUS
<1>1. EntryStep(k)
  BY OwnedNext, StoreStep DEF OwnedInv, Owned
<1> QED BY <1>1 DEF EntryStep, SaveShape, ForgetShape, Loaded, InFlight

LEMMA DropsOnlyDeleted ==
    OwnedInv /\ [Next]_vars =>
      [\A k \in Keys : store[k].uid # NoUID /\ store'[k].uid = NoUID
                       => object[k].phase # "live" \/ object[k].uid # store[k].uid]_vars
<1> SUFFICES ASSUME OwnedInv, [Next]_vars, NEW k \in Keys,
                    store[k].uid # NoUID, store'[k].uid = NoUID
             PROVE  object[k].phase # "live" \/ object[k].uid # store[k].uid
  OBVIOUS
<1>1. EntryStep(k) /\ TypeInv
  BY OwnedNext, StoreStep DEF OwnedInv, Owned
<1>2. CASE SaveShape /\ k = rec.key /\ SameEntry(rec.doc[k], store'[k])
  <2>1. store'[k].uid = rec.cur.uid
    BY <1>2 DEF SaveShape, SameEntry, OwnedInv, Owned, Attributed
  <2>2. rec.cur.uid \in UIDs /\ NoUID \notin UIDs
    BY <1>1, <1>2, UIDTypes DEF SaveShape, Loaded
  <2> QED BY <2>1, <2>2
<1>3. CASE ForgetShape /\ k = rec.key
  BY <1>3 DEF ForgetShape, OwnedInv, Owned, Attributed, DeletionAccepted, Loaded
<1> QED BY <1>1, <1>2, <1>3 DEF EntryStep

(* Reconciles of one workload never alter the durable entry of another,    *)
(* although every save writes the whole document that was loaded when the  *)
(* reconcile began (Reconcile, save).                                      *)
THEOREM KeysAreIsolated == Spec => KeyIsolation
  BY OwnedInit, OwnedNext, OneEntryAtATime, PTL DEF Spec, KeyIsolation

(* An entry is dropped only when the deletion of the object it describes   *)
(* was accepted: a crash before or after the deletion, or a successor that *)
(* the owner created meanwhile, never makes the controller forget a        *)
(* workload that is alive (Reconcile's delete branch).                     *)
THEOREM EntriesOutliveObjects == Spec => ForgetsOnlyDeleted
  BY OwnedInit, OwnedNext, DropsOnlyDeleted, PTL DEF Spec, ForgetsOnlyDeleted
=============================================================================
