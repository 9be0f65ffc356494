-------------------------- MODULE TransitionHistory --------------------------
(***************************************************************************)
(* Transition with two history variables that no action reads: when each   *)
(* template first ran under the current object, and the window instance    *)
(* the controller last exempted a workload from.                           *)
(***************************************************************************)
EXTENDS Transition

VARIABLES
    born,    \* born[k][c]: when the object under k first had template c
    exempt   \* exempt[k]: the instance of the last skip saved for the object

history == <<born, exempt>>
hvars == <<vars, history>>

FirstRun(c, t) == [d \in Templates |-> IF d = c THEN t ELSE None]

HInit ==
    /\ Init
    /\ born = [k \in Keys |-> FirstRun(object[k].containers, 0)]
    /\ exempt = [k \in Keys |-> None]

Replaced(k) == object'[k].uid # object[k].uid

Observed ==
    /\ born' = [k \in Keys |->
          IF Replaced(k) THEN FirstRun(object'[k].containers, clock)
          ELSE [born[k] EXCEPT ![object'[k].containers] = IF @ = None THEN clock ELSE @]]
    /\ exempt' = [k \in Keys |->
          IF Replaced(k) THEN None
          ELSE IF store'[k].uid = object[k].uid /\ store'[k].skip # None
               THEN store'[k].windowId
               ELSE exempt[k]]

HNext == Next /\ Observed

HSpec == HInit /\ [][HNext]_hvars

-----------------------------------------------------------------------------

(* The reconcile in flight works on the object that is there. *)
OnTarget ==
    /\ pc # "idle"
    /\ rec.cur.uid = object[rec.key].uid
    /\ object[rec.key].phase = "live"

RanFor(k, revision, tracked, now) ==
    {now - born[k][c] : c \in {d \in Templates :
        /\ born[k][d] # None
        /\ Trackable(d, tracked)
        /\ RevisionHash(d, tracked) = revision}}

(* A reconcile holds a revision to be expired only if the tracked images   *)
(* first ran under this very object at least maxAge ago: no image and no   *)
(* recreated object inherits the age of its predecessor, whatever          *)
(* reconciles were lost in between (reconcileIdentity, Decide).  A return  *)
(* to an earlier image or tracking definition keeps the age when no        *)
(* reconcile has seen the change, so the age of the current run is not     *)
(* bounded.                                                                *)
ExpiryNeverEarly ==
    OnTarget /\ pc # "begin" =>
        LET st == rec.doc[rec.key]
        IN  Expired(rec.now, st.firstSeen, rec.pol.maxAge) =>
               \E age \in RanFor(rec.key, st.revision, rec.pol.tracked, rec.now) :
                   age >= rec.pol.maxAge

(* A window instance is one stretch of time, and the policies that may be  *)
(* selected agree on it: no policy has it closed, or another one open,     *)
(* between two instants at which one of them has it open.                  *)
InstancesAreStretches == \A p, q, o \in Policies, s, t, u \in Times :
    s <= t /\ t <= u /\ p.window[s] # None /\ p.window[s] = o.window[u]
    => q.window[t] = p.window[s]

(* Once a skip is durable, no reconcile lowers the workload for the        *)
(* schedule in that window instance: the skip survives further redeploys,  *)
(* crashes and restarts until the instance ends (reconcileIdentity,        *)
(* reconcileWindowCycle, Decide).                                          *)
ExemptionHolds ==
    OnTarget /\ pc \in {"saveSnapshot", "scaleDown", "scale"} =>
        LET id == rec.pol.window[rec.now]
        IN  \/ Expired(rec.now, rec.doc[rec.key].firstSeen, rec.pol.maxAge)
            \/ exempt[rec.key] # id

(* The object a delete call removes runs images that have exceeded maxAge. *)
DeletesOnlyExpired == [][
    pc = "delete" /\ pc' = "saveDeleted" =>
        LET k == rec.key
            tracked == rec.pol.tracked
        IN  \E age \in RanFor(k, RevisionHash(object[k].containers, tracked),
                              tracked, clock) : age >= rec.pol.maxAge]_hvars
=============================================================================
