-------------------------- MODULE PolicySetProofs --------------------------
(***************************************************************************)
(* What Decode accepts, its readers can rely on: for every policy text.    *)
(***************************************************************************)
EXTENDS PolicySet, FiniteSetTheorems, TLAPS

(* A list that is not empty has elements. *)
LEMMA HasElements ==
    ASSUME NEW S, NEW list \in Seq(S), list # <<>>
    PROVE  Range(list) # {}
<1>1. Len(list) \in Nat \ {0} /\ DOMAIN list = 1 .. Len(list)
  OBVIOUS
<1>2. 1 \in DOMAIN list
  BY <1>1
<1> QED BY <1>2 DEF Range

(* A valid window is one Window.matches accepts. *)
LEMMA WindowUsable ==
    ASSUME NEW w \in RawWindows, ValidateWindow(w)
    PROVE  ValidWindow(compileWindow(w)) /\ compileWindow(w).name = w.name
<1>1. Range(w.startDays) # {}
  BY HasElements DEF RawWindows, ValidateWindow
<1> QED BY <1>1 DEF RawWindows, ValidateWindow, ValidWindow, compileWindow

(* Defaults and checks of a lifecycle, of replicas and of a schedule. *)
LEMMA LifecycleUsable ==
    ASSUME NEW l \in Optional(RawLifecycles), ValidLifecycle(l)
    PROVE  /\ compileLifecycle(l).maxAge \in Nat \ {0}
           /\ compileLifecycle(l).tracked # {}
           /\ compileLifecycle(l).expiredAction \in {"scale", "delete"}
           /\ compileLifecycle(l).expiredAction = "delete" =>
                l # Unset /\ l.expiredAction = "delete"
<1>1. CASE l = Unset
  BY <1>1, PolicyAssumption DEF compileLifecycle, Default, NoLifecycle
<1>2. CASE l # Unset
  <2>1. l \in RawLifecycles
    BY <1>2 DEF Optional
  <2>2. l.containers # Unset => Range(l.containers) # {}
    BY <1>2, <2>1, HasElements DEF RawLifecycles, Optional, ValidLifecycle
  <2>3. Default(l.maxAge, DefaultMaxAge) \in Nat \ {0}
    <3>1. CASE l.maxAge = Unset
      BY <3>1, PolicyAssumption DEF Default
    <3>2. CASE l.maxAge # Unset
      <4>1. l.maxAge \in Int
        BY <2>1, <3>2 DEF RawLifecycles, Optional
      <4>2. l.maxAge > 0
        BY <1>2, <3>2 DEF ValidLifecycle
      <4> QED BY <3>2, <4>1, <4>2 DEF Default
    <3> QED BY <3>1, <3>2
  <2>4. Default(l, NoLifecycle) = l
    BY <1>2 DEF Default
  <2> QED BY <1>2, <2>2, <2>3, <2>4, PolicyAssumption DEF compileLifecycle, ValidLifecycle
<1> QED BY <1>1, <1>2

LEMMA ReplicasUsable ==
    ASSUME NEW r \in Optional(RawReplicas), ValidReplicas(r)
    PROVE  compileReplicas(r).scheduledDown \in Nat /\ compileReplicas(r).expired \in Nat
  BY DEF Optional, RawReplicas, ValidReplicas, compileReplicas, Default

LEMMA ScheduleUsable ==
    ASSUME NEW s \in Optional(RawSchedules), ValidSchedule(s), s # Unset
    PROVE  /\ compileSchedule(s).timeZone \in TimeZones
           /\ \A w \in compileSchedule(s).downWindows : ValidWindow(w)
           /\ \A v, w \in compileSchedule(s).downWindows : v.name = w.name => v = w
<1> DEFINE dw == s.downWindows
<1>1. dw \in Seq(RawWindows) /\ s.timeZone \in TimeZones
  BY DEF Optional, RawSchedules, ValidSchedule, NonEmpty
<1>2. \A i \in DOMAIN dw : dw[i] \in RawWindows /\ ValidateWindow(dw[i])
  BY <1>1 DEF ValidSchedule, Range
<1>3. \A i, j \in DOMAIN dw : dw[i].name = dw[j].name => i = j
  BY DEF ValidSchedule, Unique, IsInjective
<1>4. compileSchedule(s).downWindows = {compileWindow(w) : w \in Range(dw)}
      /\ compileSchedule(s).timeZone = s.timeZone
  BY DEF compileSchedule
<1> HIDE DEF dw
<1>5. \A w \in compileSchedule(s).downWindows : \E i \in DOMAIN dw : w = compileWindow(dw[i])
  BY <1>4 DEF Range
<1>6. \A i \in DOMAIN dw : ValidWindow(compileWindow(dw[i])) /\ compileWindow(dw[i]).name = dw[i].name
  BY <1>2, WindowUsable
<1>7. \A w \in compileSchedule(s).downWindows : ValidWindow(w)
  BY <1>5, <1>6
<1>8. ASSUME NEW v \in compileSchedule(s).downWindows, NEW w \in compileSchedule(s).downWindows,
             v.name = w.name
      PROVE  v = w
  <2>1. PICK i \in DOMAIN dw : v = compileWindow(dw[i])
    BY <1>5
  <2>2. PICK j \in DOMAIN dw : w = compileWindow(dw[j])
    BY <1>5
  <2>3. dw[i].name = dw[j].name
    BY <1>6, <1>8, <2>1, <2>2
  <2> QED BY <1>3, <2>1, <2>2, <2>3
<1> QED BY <1>1, <1>4, <1>7, <1>8

(* A valid policy is usable, and deletes only if its text says so. *)
LEMMA PolicyUsable ==
    ASSUME NEW p \in RawPolicies, ValidPolicy(p)
    PROVE  /\ Usable(compilePolicy(p))
           /\ compilePolicy(p).name = p.name
           /\ compilePolicy(p).lifecycle.expiredAction = "delete" =>
                p.lifecycle # Unset /\ p.lifecycle.expiredAction = "delete"
<1>1. /\ p.lifecycle \in Optional(RawLifecycles) /\ ValidLifecycle(p.lifecycle)
      /\ p.replicas \in Optional(RawReplicas) /\ ValidReplicas(p.replicas)
      /\ p.schedule \in Optional(RawSchedules) /\ ValidSchedule(p.schedule)
  BY DEF RawPolicies, ValidPolicy
<1>2. /\ compilePolicy(p).lifecycle = compileLifecycle(p.lifecycle)
      /\ compilePolicy(p).replicas = compileReplicas(p.replicas)
      /\ compilePolicy(p).schedule = compileSchedule(p.schedule)
      /\ compilePolicy(p).name = p.name
  BY DEF compilePolicy
<1>3. compilePolicy(p).schedule # Unset => p.schedule # Unset
  BY <1>2 DEF compileSchedule
<1> QED BY <1>1, <1>2, <1>3, LifecycleUsable, ReplicasUsable, ScheduleUsable DEF Usable

(* Accepted policies, one by one. *)
LEMMA Accepted ==
    ASSUME NEW raw \in RawPolicySets \cup {Malformed}, Decode(raw) # Rejected
    PROVE  /\ raw \in RawPolicySets
           /\ raw.policies \in Seq(RawPolicies)
           /\ \A r \in Range(raw.policies) : r \in RawPolicies /\ ValidPolicy(r)
           /\ \A q, r \in Range(raw.policies) : q.name = r.name => q = r
           /\ Decode(raw) = {compilePolicy(r) : r \in Range(raw.policies)}
<1>1. /\ raw \in RawPolicySets /\ raw.policies # Unset
      /\ Decode(raw) = {compilePolicy(r) : r \in Range(raw.policies)}
      /\ \A r \in Range(raw.policies) : ValidPolicy(r)
      /\ Unique([i \in DOMAIN raw.policies |-> raw.policies[i].name])
  BY DEF Decode, compilePolicySet
<1>2. raw.policies \in Seq(RawPolicies)
  BY <1>1 DEF RawPolicySets, Optional
<1>3. \A r \in Range(raw.policies) : r \in RawPolicies
  BY <1>2 DEF Range
<1>4. \A i, j \in DOMAIN raw.policies : raw.policies[i].name = raw.policies[j].name => i = j
  BY <1>1 DEF Unique, IsInjective
<1>5. \A q, r \in Range(raw.policies) : q.name = r.name => q = r
  BY <1>4 DEF Range
<1> QED BY <1>1, <1>2, <1>3, <1>5

(* Every policy set that Decode accepts is sound: its readers meet no      *)
(* invalid duration, target, tracking definition, time zone or window, and *)
(* nothing is deleted by default (compilePolicySet).                       *)
THEOREM AcceptedIsSound ==
    ASSUME NEW raw \in RawPolicySets \cup {Malformed}, Decode(raw) # Rejected
    PROVE  Sound(raw, Decode(raw))
<1>1. \A p \in Decode(raw) : \E r \in Range(raw.policies) :
        /\ p = compilePolicy(r) /\ Usable(p) /\ p.name = r.name
        /\ p.lifecycle.expiredAction = "delete" =>
             r.lifecycle # Unset /\ r.lifecycle.expiredAction = "delete"
  BY Accepted, PolicyUsable
<1>2. \A p, q \in Decode(raw) : p.name = q.name => p = q
  BY <1>1, Accepted
<1> QED BY <1>1, <1>2 DEF Sound

(* The policy Match selects is one of the set, and it matches.             *)
LEMMA MatchSelects ==
    ASSUME NEW policies, NEW w, Match(policies, w) # Unset
    PROVE  /\ Match(policies, w) \in policies
           /\ targetMatches(Match(policies, w).target, w)
<1>1. Cardinality(Winners(policies, w)) = 1
  BY DEF Match
<1>2. Winners(policies, w) # {}
  BY <1>1, FS_EmptySet
<1>3. Match(policies, w) \in Winners(policies, w)
  BY <1>1, <1>2 DEF Match
<1> QED BY <1>3 DEF Winners
=============================================================================
