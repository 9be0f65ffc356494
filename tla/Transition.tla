----------------------------- MODULE Transition -----------------------------
(***************************************************************************)
(* The reconciler (internal/controller/transition.go) against the cluster  *)
(* it manages: one reconcile at a time reads a workload, its durable state *)
(* and its live scale, and writes scale and state back, one API call per   *)
(* action.  Between any two calls the clock advances, owners scale,        *)
(* redeploy, delete and recreate their workloads, and the reconcile may    *)
(* stop for good: an error of the call, a cancelled context and a crash    *)
(* all leave the durable state behind and nothing else (Abort).  A call    *)
(* whose effect took place but whose answer was lost is the call followed  *)
(* by Abort.                                                               *)
(*                                                                         *)
(* Left out: lastSeenAt, capturedAt, policy and reason names (no decision  *)
(* reads them); the HPA rejection and the absence of a matching policy,    *)
(* which end a reconcile before any write, as Abort at "begin" does.  The  *)
(* policy a reconcile runs under is any member of Policies, so policy      *)
(* changes between two reconciles are included.                            *)
(***************************************************************************)
EXTENDS Lifecycle

CONSTANTS
    Keys,         \* workload keys: kind/namespace/name
    Templates,    \* container maps a Pod template may have
    Policies,     \* compiled policies that may be selected for a workload
    Instances,    \* down-window instance identifiers
    MaxReplicas,  \* bound: largest replica count an owner chooses
    MaxTime,      \* bound: last instant of the model's clock
    MaxUID        \* bound: objects ever created under one key

Replicas == 0 .. MaxReplicas
Times    == 0 .. MaxTime
UIDs     == 1 .. MaxUID
NoUID    == 0

ASSUME BoundsAssumption ==
    MaxReplicas \in Nat /\ MaxTime \in Nat /\ MaxUID \in Nat \ {0}

(* What compilePolicy accepts.  window[t] is the instance schedule.Match   *)
(* and WindowInstanceID find open at t, None outside every down window.    *)
ASSUME PoliciesAssumption == \A p \in Policies :
    /\ p.maxAge \in Nat \ {0}
    /\ p.expired \in Nat /\ p.scheduledDown \in Nat
    /\ p.expiredAction \in {"scale", "delete"}
    /\ p.window \in [Times -> Instances \cup {None}]
ASSUME NoneAssumption == None \notin Instances \cup {"redeploy", "override"}

VARIABLES
    clock,      \* the wall clock every component reads
    object,     \* the API server's workload objects, one per key
    store,      \* the durable state document, NoState for an absent entry
    pc,         \* the next API call of the reconcile in flight
    rec,        \* its local variables, None between reconciles
    chosen,     \* observer: the replica count the owner last chose
    contested   \* observer: the owner chose it behind a snapshot or a reconcile

vars == <<clock, object, store, pc, rec, chosen, contested>>

(* The zero WorkloadState a map lookup yields for a missing key. *)
NoState ==
    [uid |-> NoUID, tracking |-> None, revision |-> None, firstSeen |-> 0,
     snapshot |-> None, entryRev |-> None, windowId |-> None, skip |-> None]

Init ==
    /\ clock = 0
    /\ object \in [Keys -> [uid : {1}, containers : Templates,
                            replicas : Replicas, phase : {"live"}]]
    /\ store = [k \in Keys |-> NoState]
    /\ pc = "idle"
    /\ rec = None
    /\ chosen = [k \in Keys |-> object[k].replicas]
    /\ contested = [k \in Keys |-> FALSE]

-----------------------------------------------------------------------------
(***************************************************************************)
(* Local computations of the reconcile.                                    *)
(***************************************************************************)

SameUID(previous, cur) == previous.uid # NoUID /\ previous.uid = cur.uid

(* Slip: only a new object or a new tracking definition resets the age. *)
SameIdentityAnyImage(previous, cur, p) ==
    /\ SameUID(previous, cur)
    /\ previous.tracking = TrackingSpecHash(cur.containers, p.tracked)

SameIdentity(previous, cur, p) ==
    /\ SameUID(previous, cur)
    /\ previous.tracking = TrackingSpecHash(cur.containers, p.tracked)
    /\ previous.revision = RevisionHash(cur.containers, p.tracked)

(* Slip: a new revision does not keep the snapshot. *)
reconcileIdentityNewSnapshot(previous, cur, p, now) ==
    LET kept == IF SameIdentity(previous, cur, p) THEN previous ELSE NoState
    IN  [uid |-> cur.uid,
         tracking |-> TrackingSpecHash(cur.containers, p.tracked),
         revision |-> RevisionHash(cur.containers, p.tracked),
         firstSeen |-> IF SameIdentity(previous, cur, p)
                       THEN previous.firstSeen ELSE now,
         snapshot |-> kept.snapshot, entryRev |-> kept.entryRev,
         windowId |-> kept.windowId, skip |-> kept.skip]

reconcileIdentity(previous, cur, p, now) ==
    LET kept == IF SameUID(previous, cur) THEN previous ELSE NoState
    IN  [uid |-> cur.uid,
         tracking |-> TrackingSpecHash(cur.containers, p.tracked),
         revision |-> RevisionHash(cur.containers, p.tracked),
         firstSeen |-> IF SameIdentity(previous, cur, p)
                       THEN previous.firstSeen ELSE now,
         snapshot |-> kept.snapshot, entryRev |-> kept.entryRev,
         windowId |-> kept.windowId, skip |-> kept.skip]

(* Slip: the window state is reset by every reconcile. *)
reconcileWindowCycleAlways(st, id) ==
    [st EXCEPT !.entryRev = None, !.windowId = None, !.skip = None]

(* reconcileWindowCycle: window and skip state belong to one instance. *)
reconcileWindowCycle(st, id) ==
    IF id = None \/ id # st.windowId
    THEN [st EXCEPT !.entryRev = None, !.windowId = None, !.skip = None]
    ELSE st

(* ... and inside a window the entry revision is always recorded. *)
EnterWindow(st, id) ==
    LET cycled == reconcileWindowCycle(st, id)
    IN  IF id # None /\ cycled.entryRev = None
        THEN [cycled EXCEPT !.entryRev = st.revision, !.windowId = id]
        ELSE cycled

Redeployed(st, id) ==
    id # None /\ st.skip = None /\ st.entryRev # None /\ st.entryRev # st.revision

Overridden(st, id, live, p) ==
    id # None /\ st.skip = None /\ st.snapshot # None /\ live > p.scheduledDown

(* Slip: a window that was entered before counts as skipped. *)
DecisionForEnteredIsSkipped(r, st) ==
    Decide(r.pol, r.now, st.firstSeen, r.live, st.snapshot,
           r.pol.window[r.now] # None, st.windowId # None)

DecisionFor(r, st) ==
    Decide(r.pol, r.now, st.firstSeen, r.live, st.snapshot,
           r.pol.window[r.now] # None, st.skip # None)

AfterRedeploy(st) ==
    IF st.snapshot # None THEN "redeployScale" ELSE "saveRedeploy"

(* Slip: scale before the snapshot is saved. *)
NextCallScaleFirst(d, identitySaved) ==
    IF d.delete THEN "delete"
    ELSE IF d.clearSnapshot THEN "restore"
    ELSE IF d.shouldScale THEN "scale"
    ELSE IF identitySaved THEN "idle"
    ELSE "saveState"

(* The call a decision leads to: the order of Reconcile's delete branch    *)
(* and of applyDecision.  A new identity was already saved, so a decision  *)
(* that scales nothing then ends the reconcile without a write.            *)
NextCall(d, identitySaved) ==
    IF d.delete THEN "delete"
    ELSE IF d.needsSnapshot THEN "saveSnapshot"
    ELSE IF d.clearSnapshot THEN "restore"
    ELSE IF d.shouldScale THEN "scale"
    ELSE IF identitySaved THEN "idle"
    ELSE "saveState"

(* Take the decision for state st and go on with its first call. *)
Proceed(r, st) ==
    LET d    == DecisionFor(r, st)
        next == NextCall(d, r.changed)
    IN  /\ pc' = next
        /\ rec' = IF next = "idle" THEN None
                  ELSE [r EXCEPT !.doc[r.key] = st, !.desired = d.desired]

Finish == pc' = "idle" /\ rec' = None

-----------------------------------------------------------------------------
(***************************************************************************)
(* The calls of a reconcile.                                               *)
(***************************************************************************)

(* The orchestrator hands over an inventory copy of a workload. *)
Start(k) ==
    /\ pc = "idle"
    /\ object[k].phase # "gone"
    /\ pc' = "begin"
    /\ rec' = [key |-> k,
               cur |-> [uid |-> object[k].uid, containers |-> object[k].containers],
               pol |-> None, now |-> 0, doc |-> [j \in Keys |-> NoState],
               live |-> 0, desired |-> 0, changed |-> FALSE]
    /\ UNCHANGED <<clock, object, store, chosen, contested>>

(* Slip: the document is a new one instead of the loaded one. *)
BeginNewDocument(p) ==
    /\ pc = "begin"
    /\ Trackable(rec.cur.containers, p.tracked)
    /\ LET previous == store[rec.key]
           changed  == ~SameIdentity(previous, rec.cur, p)
       IN  /\ pc' = IF changed THEN "saveIdentity" ELSE "readScale"
           /\ rec' = [rec EXCEPT
                !.pol = p, !.now = clock, !.changed = changed,
                !.doc = [@ EXCEPT ![rec.key] =
                           reconcileIdentity(previous, rec.cur, p, clock)]]
    /\ UNCHANGED <<clock, object, store, chosen, contested>>

(* CalculateRevision, clock.Now, store.Load and reconcileIdentity. *)
Begin(p) ==
    /\ pc = "begin"
    /\ Trackable(rec.cur.containers, p.tracked)
    /\ LET previous == store[rec.key]
           changed  == ~SameIdentity(previous, rec.cur, p)
       IN  /\ pc' = IF changed THEN "saveIdentity" ELSE "readScale"
           /\ rec' = [rec EXCEPT
                !.pol = p, !.now = clock, !.changed = changed,
                !.doc = [store EXCEPT ![rec.key] =
                           reconcileIdentity(previous, rec.cur, p, clock)]]
    /\ UNCHANGED <<clock, object, store, chosen, contested>>

SaveIdentity ==
    /\ pc = "saveIdentity"
    /\ store' = rec.doc
    /\ pc' = "readScale"
    /\ UNCHANGED <<clock, object, rec, chosen, contested>>

(* scale.Read by name, then everything up to the next call. *)
ReadScale ==
    /\ pc = "readScale"
    /\ object[rec.key].phase # "gone"
    /\ LET id == rec.pol.window[rec.now]
           st == EnterWindow(rec.doc[rec.key], id)
           r  == [rec EXCEPT !.live = object[rec.key].replicas]
           redeployed == Redeployed(st, id)
           overridden == Overridden(st, id, r.live, rec.pol)
       IN  \/ /\ redeployed
              /\ pc' = AfterRedeploy(st)
              /\ rec' = [r EXCEPT !.doc[rec.key] = st]
           \/ /\ ~redeployed /\ overridden
              /\ pc' = "saveOverride"
              /\ rec' = [r EXCEPT !.doc[rec.key] = st]
           \/ /\ ~redeployed /\ ~overridden
              /\ Proceed(r, st)
    /\ UNCHANGED <<clock, object, store, chosen, contested>>

(* scale.Update by name: a fresh get and an update guarded by its version. *)
UpdateScale(replicas) ==
    /\ object[rec.key].phase # "gone"
    /\ object' = [object EXCEPT ![rec.key].replicas = replicas]
    /\ UNCHANGED <<clock, store, chosen, contested>>

(* handleRedeployDuringWindow: restore first, then persist the skip. *)
RedeployScale ==
    /\ pc = "redeployScale"
    /\ UpdateScale(rec.doc[rec.key].snapshot)
    /\ pc' = "saveRedeploy"
    /\ UNCHANGED rec

SaveRedeploy ==
    /\ pc = "saveRedeploy"
    /\ LET st == [rec.doc[rec.key] EXCEPT !.snapshot = None, !.skip = "redeploy"]
       IN  /\ store' = [rec.doc EXCEPT ![rec.key] = st]
           /\ Proceed(rec, st)
    /\ UNCHANGED <<clock, object, chosen, contested>>

(* An external replica count above the scheduled target is accepted. *)
SaveOverride ==
    /\ pc = "saveOverride"
    /\ LET k  == rec.key
           st == [rec.doc[k] EXCEPT !.snapshot = None, !.skip = "override"]
           accepted == /\ st.uid = object[k].uid
                       /\ object[k].replicas = rec.live
                       /\ chosen[k] = rec.live
       IN  /\ store' = [rec.doc EXCEPT ![k] = st]
           /\ Proceed(rec, st)
           /\ contested' = [contested EXCEPT ![k] = @ /\ ~accepted]
    /\ UNCHANGED <<clock, object, chosen>>

(* Slip: an error of the deletion is not noticed. *)
DeleteWorkloadUnchecked ==
    /\ pc = "delete"
    /\ pc' = "saveDeleted"
    /\ UNCHANGED <<clock, object, store, rec, chosen, contested>>

(* Foreground deletion by name; the object stays until it is collected. *)
DeleteWorkload ==
    /\ pc = "delete"
    /\ object[rec.key].phase # "gone"
    /\ object' = [object EXCEPT ![rec.key].phase = "terminating"]
    /\ pc' = "saveDeleted"
    /\ UNCHANGED <<clock, store, rec, chosen, contested>>

SaveDeleted ==
    /\ pc = "saveDeleted"
    /\ store' = [rec.doc EXCEPT ![rec.key] = NoState]
    /\ Finish
    /\ UNCHANGED <<clock, object, chosen, contested>>

SaveSnapshot ==
    /\ pc = "saveSnapshot"
    /\ LET doc == [rec.doc EXCEPT ![rec.key].snapshot = rec.live]
       IN  /\ store' = doc
           /\ IF rec.desired # rec.live
              THEN pc' = "scaleDown" /\ rec' = [rec EXCEPT !.doc = doc]
              ELSE Finish
    /\ UNCHANGED <<clock, object, chosen, contested>>

ScaleDown ==
    /\ pc = "scaleDown"
    /\ UpdateScale(rec.desired)
    /\ Finish

(* Slip: an error of the restore is not noticed. *)
RestoreUnchecked ==
    /\ pc = "restore"
    /\ pc' = "saveClear"
    /\ UNCHANGED <<clock, object, store, rec, chosen, contested>>

Restore ==
    /\ pc = "restore"
    /\ UpdateScale(rec.desired)
    /\ pc' = "saveClear"
    /\ UNCHANGED rec

SaveClear ==
    /\ pc = "saveClear"
    /\ store' = [rec.doc EXCEPT ![rec.key].snapshot = None]
    /\ Finish
    /\ UNCHANGED <<clock, object, chosen, contested>>

Scale ==
    /\ pc = "scale"
    /\ UpdateScale(rec.desired)
    /\ pc' = "saveState"
    /\ UNCHANGED rec

SaveState ==
    /\ pc = "saveState"
    /\ store' = rec.doc
    /\ Finish
    /\ UNCHANGED <<clock, object, chosen, contested>>

(* The error returns the reconcile cannot avoid: a tracked container is    *)
(* missing, or the object the call names is not there any more.            *)
Refused ==
    /\ \/ pc = "begin" /\ \E p \in Policies : ~Trackable(rec.cur.containers, p.tracked)
       \/ /\ pc \in {"readScale", "redeployScale", "delete", "scaleDown", "restore", "scale"}
          /\ object[rec.key].phase = "gone"
    /\ Finish
    /\ UNCHANGED <<clock, object, store, chosen, contested>>

(* Any other error, a cancelled context or a crash before the next call. *)
Abort ==
    /\ pc # "idle"
    /\ Finish
    /\ UNCHANGED <<clock, object, store, chosen, contested>>

-----------------------------------------------------------------------------
(***************************************************************************)
(* The environment: time, owners and the garbage collector.                *)
(***************************************************************************)

Tick ==
    /\ clock < MaxTime
    /\ clock' = clock + 1
    /\ UNCHANGED <<object, store, pc, rec, chosen, contested>>

InFlight(k) == pc # "idle" /\ rec.key = k

(* A reconcile of k has read the live scale. *)
HasRead(k) == InFlight(k) /\ pc \notin {"begin", "saveIdentity", "readScale"}

HoldsSnapshot(k) == store[k].uid = object[k].uid /\ store[k].snapshot # None

OwnerScales(k, n) ==
    /\ object[k].phase = "live"
    /\ object' = [object EXCEPT ![k].replicas = n]
    /\ chosen' = [chosen EXCEPT ![k] = n]
    /\ contested' = [contested EXCEPT ![k] = HasRead(k) \/ HoldsSnapshot(k)
                                             \/ (@ /\ InFlight(k))]
    /\ UNCHANGED <<clock, store, pc, rec>>

OwnerRedeploys(k, c) ==
    /\ object[k].phase = "live"
    /\ c # object[k].containers
    /\ object' = [object EXCEPT ![k].containers = c]
    /\ UNCHANGED <<clock, store, pc, rec, chosen, contested>>

OwnerDeletes(k) ==
    /\ object[k].phase = "live"
    /\ object' = [object EXCEPT ![k].phase = "gone"]
    /\ UNCHANGED <<clock, store, pc, rec, chosen, contested>>

Collect(k) ==
    /\ object[k].phase = "terminating"
    /\ object' = [object EXCEPT ![k].phase = "gone"]
    /\ UNCHANGED <<clock, store, pc, rec, chosen, contested>>

OwnerRecreates(k, c, n) ==
    /\ object[k].phase = "gone"
    /\ object[k].uid < MaxUID
    /\ object' = [object EXCEPT ![k] = [uid |-> @.uid + 1, containers |-> c,
                                        replicas |-> n, phase |-> "live"]]
    /\ chosen' = [chosen EXCEPT ![k] = n]
    /\ contested' = [contested EXCEPT ![k] = InFlight(k)]
    /\ UNCHANGED <<clock, store, pc, rec>>

-----------------------------------------------------------------------------

Call ==
    \/ \E p \in Policies : Begin(p)
    \/ SaveIdentity \/ ReadScale
    \/ RedeployScale \/ SaveRedeploy \/ SaveOverride
    \/ DeleteWorkload \/ SaveDeleted
    \/ SaveSnapshot \/ ScaleDown
    \/ Restore \/ SaveClear
    \/ Scale \/ SaveState
    \/ Refused

Controller == (\E k \in Keys : Start(k)) \/ Call \/ Abort

Environment ==
    \/ Tick
    \/ \E k \in Keys :
          \/ \E n \in Replicas : OwnerScales(k, n)
          \/ \E c \in Templates : OwnerRedeploys(k, c)
          \/ OwnerDeletes(k)
          \/ Collect(k)
          \/ \E c \in Templates, n \in Replicas : OwnerRecreates(k, c, n)

Next == Controller \/ Environment

Spec == Init /\ [][Next]_vars

(***************************************************************************)
(* The ticker starts reconciles of every workload again and again, since   *)
(* the select of Controller.Run takes each ready case in the end, and a    *)
(* reconcile that was started, also by a late event, goes on.  API errors  *)
(* and crashes may happen any number of times, but not forever; an Abort   *)
(* with the outcome of the call, say of a redundant save, is none.  Time   *)
(* has no fairness: it may stand still inside a window or outside, which   *)
(* stands for a stretch of time longer than any reconcile takes.           *)
(***************************************************************************)
Fairness ==
    /\ \A k \in Keys : SF_vars(Start(k))
    /\ WF_vars(Call)
    /\ <>[][Abort => Call]_vars

-----------------------------------------------------------------------------
(***************************************************************************)
(* Types.                                                                  *)
(***************************************************************************)

RevisionHashes == {RevisionHash(c, p.tracked) : c \in Templates, p \in Policies}
TrackingHashes == {TrackingSpecHash(c, p.tracked) : c \in Templates, p \in Policies}

WorkloadStates ==
    [uid : UIDs \cup {NoUID},
     tracking : TrackingHashes \cup {None}, revision : RevisionHashes \cup {None},
     firstSeen : Times, snapshot : Replicas \cup {None},
     entryRev : RevisionHashes \cup {None}, windowId : Instances \cup {None},
     skip : {None, "redeploy", "override"}]

Calls ==
    {"begin", "saveIdentity", "readScale", "redeployScale", "saveRedeploy",
     "saveOverride", "delete", "saveDeleted", "saveSnapshot", "scaleDown",
     "restore", "saveClear", "scale", "saveState"}

Reconciles ==
    [key : Keys, cur : [uid : UIDs, containers : Templates],
     pol : Policies \cup {None}, now : Times, doc : [Keys -> WorkloadStates],
     live : Replicas, desired : Replicas, changed : BOOLEAN]

(* Every variable has its type: in particular replica counts the           *)
(* controller computes stay within what owners ever chose, and a reconcile *)
(* in flight has its locals.                                               *)
TypeOK ==
    /\ clock \in Times
    /\ object \in [Keys -> [uid : UIDs, containers : Templates, replicas : Replicas,
                            phase : {"live", "terminating", "gone"}]]
    /\ store \in [Keys -> WorkloadStates]
    /\ \/ pc = "idle" /\ rec = None
       \/ pc \in Calls /\ rec \in Reconciles /\ (pc # "begin" => rec.pol \in Policies)
    /\ chosen \in [Keys -> Replicas]
    /\ contested \in [Keys -> BOOLEAN]

(***************************************************************************)
(* Two conditions on the configured policies under which owners get their  *)
(* replicas back.  README.md says what happens without them.               *)
(***************************************************************************)

(* All policies have one scheduled target and no expired target above it.  *)
TargetsAgree == \A p, q \in Policies :
    p.scheduledDown = q.scheduledDown /\ p.expired <= q.scheduledDown

(* No revision expires within the window instance that first saw it.       *)
WindowsAreShort == \A p, q \in Policies, s, t \in Times :
    p.window[s] # None /\ p.window[s] = q.window[t] => t - s < q.maxAge

(***************************************************************************)
(* Properties.                                                             *)
(***************************************************************************)

(* A live workload that runs at another count than its owner chose has     *)
(* that count in its durable snapshot, under its own UID, at every instant *)
(* of every reconcile: snapshot before downscale, restore before clear     *)
(* (applyDecision, handleRedeployDuringWindow), through crashes, redeploys,*)
(* window changes and expiry.  Contested counts are exempt: those the      *)
(* owner chose while a snapshot was held or between a reconcile's read of  *)
(* the scale and its writes, and that of an object recreated while a       *)
(* reconcile of its predecessor is in flight.                              *)
IntentRecorded == \A k \in Keys :
    /\ object[k].phase = "live"
    /\ ~contested[k]
    /\ object[k].replicas # chosen[k]
    => store[k].uid = object[k].uid /\ store[k].snapshot = chosen[k]

(* The durable entry of a workload is dropped only after its deletion was  *)
(* accepted (Reconcile's delete branch): never while the object it         *)
(* describes is alive.                                                     *)
ForgetsOnlyDeleted == [][\A k \in Keys :
    store[k].uid # NoUID /\ store'[k].uid = NoUID
    => object[k].phase # "live" \/ object[k].uid # store[k].uid]_vars

(* Saving a whole document loaded earlier never alters the entry of        *)
(* another workload than the one being reconciled (Reconcile, save).       *)
KeyIsolation == [][\A k \in Keys : store'[k] # store[k] => InFlight(k)]_vars

WindowOpen == \E p \in Policies : p.window[clock] # None
RevisionExpired(k) == \E p \in Policies : Expired(clock, store[k].firstSeen, p.maxAge)

(* While no window opens and nothing expires, an uncontested workload gets *)
(* its owner's count back, however often reconciles failed before, and in  *)
(* whatever state they left it (Decide's restore branch,                   *)
(* handleRedeployDuringWindow).                                            *)
IntentReturned == \A k \in Keys :
    (object[k].phase = "live" /\ ~contested[k] /\ object[k].replicas # chosen[k])
    ~> \/ object[k].replicas = chosen[k]
       \/ contested[k] \/ object[k].phase # "live"
       \/ WindowOpen \/ RevisionExpired(k)

(* While a window stays open a workload is brought down to the scheduled   *)
(* target again and again, unless the instance is skipped for it           *)
(* (Decide's window branch).                                               *)
DownEnforced == \A k \in Keys : []<>
    \/ ~WindowOpen
    \/ object[k].phase # "live"
    \/ store[k].skip # None
    \/ \A p \in Policies : object[k].replicas <= p.scheduledDown
=============================================================================
