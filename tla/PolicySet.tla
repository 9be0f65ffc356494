----------------------------- MODULE PolicySet -----------------------------
(***************************************************************************)
(* Policies (internal/policy): decoding, validation and defaults           *)
(* (decode.go, validate.go), and the policy of a workload (matcher.go).    *)
(*                                                                         *)
(* A raw policy is what strict YAML decoding yields, with Unset for an     *)
(* omitted field; text that has no such reading (no YAML or two documents, *)
(* a null, an unknown field, a number out of range) is Malformed.  The     *)
(* selector lists the requirements of matchLabels and matchExpressions.  A *)
(* duration is a number, 0 if it does not parse; HH:MM strings are minutes *)
(* as in Windows.  Compiled lists whose order does not matter are sets.    *)
(***************************************************************************)
EXTENDS Windows, Sequences, FiniteSets, Functions

CONSTANTS
    Unset,           \* an omitted field; after compilation: nil
    Malformed,       \* text that is no policy document
    Rejected,        \* the error Decode returns
    DefaultMaxAge,
    TimeZones,       \* the names time.LoadLocation finds, without ""
    LabelKeys,       \* syntactically valid label keys
    LabelValues,     \* and values
    Regexps,         \* the patterns regexp.Compile accepts
    FullMatch(_, _)  \* an anchored pattern matches a name

ASSUME PolicyAssumption == DefaultMaxAge \in Nat \ {0} /\ Unset # {}

Kinds == {"Deployment", "StatefulSet"}

(* What strict decoding yields. *)
Optional(S) == {Unset} \cup S
RawRequirements == [key : STRING, operator : STRING, values : Optional(Seq(STRING))]
RawTargets ==
    [kinds : Optional(Seq(STRING)), selector : Optional(Seq(RawRequirements)),
     namePatterns : Optional(Seq(STRING))]
RawLifecycles ==
    [maxAge : Optional(Int), source : Optional(STRING), containers : Optional(Seq(STRING)),
     expiredAction : Optional(STRING)]
RawReplicas == [scheduledDown : Optional(Int), expired : Optional(Int)]
RawWindows ==
    [name : Nat, startDays : Seq(Int), allDay : BOOLEAN,
     start : Optional(Int), end : Optional(Int)]
RawSchedules == [timeZone : STRING, downWindows : Optional(Seq(RawWindows))]
RawPolicies ==
    [name : STRING, priority : Optional(Int), target : Optional(RawTargets),
     lifecycle : Optional(RawLifecycles), replicas : Optional(RawReplicas),
     schedule : Optional(RawSchedules)]
RawPolicySets == [supported : BOOLEAN, policies : Optional(Seq(RawPolicies))]

Default(value, default) == IF value = Unset THEN default ELSE value

Unique(list) == IsInjective(list)

-----------------------------------------------------------------------------
(***************************************************************************)
(* Validation.                                                             *)
(***************************************************************************)

NonEmpty(list) == list # Unset /\ list # <<>>

ValidateWindow(w) ==
    /\ w.name # NoWindow
    /\ w.startDays # <<>> /\ Range(w.startDays) \subseteq Days /\ Unique(w.startDays)
    /\ IF w.allDay THEN w.start = Unset /\ w.end = Unset
       ELSE w.start \in Minutes /\ w.end \in Minutes /\ w.start # w.end

(* compileSelector and LabelSelectorAsSelector: In and NotIn need values,  *)
(* which must be label values, the others forbid them.                     *)
ValidRequirement(r) ==
    /\ r.key \in LabelKeys
    /\ \/ /\ r.operator \in {"In", "NotIn"}
          /\ NonEmpty(r.values) /\ Range(r.values) \subseteq LabelValues
       \/ r.operator \in {"Exists", "DoesNotExist"} /\ r.values = Unset

ValidTarget(t) ==
    /\ t # Unset /\ NonEmpty(t.kinds)
    /\ Range(t.kinds) \subseteq Kinds /\ Unique(t.kinds)
    /\ NonEmpty(t.selector) \/ NonEmpty(t.namePatterns)
    /\ NonEmpty(t.selector) => \A r \in Range(t.selector) : ValidRequirement(r)
    /\ NonEmpty(t.namePatterns) => Range(t.namePatterns) \subseteq Regexps \ {""}

ValidLifecycle(l) == l # Unset =>
    /\ l.maxAge # Unset => l.maxAge > 0
    /\ l.source \in {Unset, "ContainerImages"}
    /\ l.containers # Unset =>
         l.containers # <<>> /\ "" \notin Range(l.containers) /\ Unique(l.containers)
    /\ l.expiredAction \in {Unset, "", "scale", "delete"}

(* Slip: only the first of the two targets is checked. *)
ValidReplicasScheduled(r) == r # Unset => Default(r.scheduledDown, 0) >= 0

ValidReplicas(r) == r # Unset =>
    Default(r.scheduledDown, 0) >= 0 /\ Default(r.expired, 0) >= 0

ValidSchedule(s) == s # Unset =>
    /\ s.timeZone \in TimeZones
    /\ NonEmpty(s.downWindows)
    /\ \A w \in Range(s.downWindows) : ValidateWindow(w)
    /\ Unique([i \in DOMAIN s.downWindows |-> s.downWindows[i].name])

ValidPolicy(p) ==
    /\ p.name # "" /\ p.priority # Unset
    /\ ValidTarget(p.target)
    /\ ValidLifecycle(p.lifecycle)
    /\ ValidReplicas(p.replicas)
    /\ ValidSchedule(p.schedule)

-----------------------------------------------------------------------------
(***************************************************************************)
(* Compilation of what is valid.                                           *)
(***************************************************************************)

Elements(list) == IF list = Unset THEN {} ELSE Range(list)

compileTarget(t) ==
    [kinds |-> Range(t.kinds), selector |-> Elements(t.selector),
     namePatterns |-> Elements(t.namePatterns)]

NoLifecycle ==
    [maxAge |-> Unset, source |-> Unset, containers |-> Unset, expiredAction |-> Unset]

compileLifecycle(raw) ==
    LET l == Default(raw, NoLifecycle)
    IN  [maxAge |-> Default(l.maxAge, DefaultMaxAge),
         tracked |-> IF l.containers = Unset THEN Unset ELSE Range(l.containers),
         expiredAction |-> IF l.expiredAction \in {Unset, ""} THEN "scale"
                                                               ELSE l.expiredAction]

compileReplicas(raw) ==
    LET r == Default(raw, [scheduledDown |-> Unset, expired |-> Unset])
    IN  [scheduledDown |-> Default(r.scheduledDown, 0), expired |-> Default(r.expired, 0)]

compileWindow(w) == [w EXCEPT !.startDays = Range(w.startDays)]

compileSchedule(s) ==
    IF s = Unset THEN Unset
    ELSE [timeZone |-> s.timeZone,
          downWindows |-> {compileWindow(w) : w \in Range(s.downWindows)}]

compilePolicy(p) ==
    [name |-> p.name, priority |-> p.priority,
     target |-> compileTarget(p.target), lifecycle |-> compileLifecycle(p.lifecycle),
     replicas |-> compileReplicas(p.replicas), schedule |-> compileSchedule(p.schedule)]

(* One error rejects the whole set. *)
compilePolicySet(raw) ==
    IF /\ raw.supported                     \* apiVersion and kind
       /\ raw.policies # Unset
       /\ \A p \in Range(raw.policies) : ValidPolicy(p)
       /\ Unique([i \in DOMAIN raw.policies |-> raw.policies[i].name])
    THEN {compilePolicy(p) : p \in Range(raw.policies)}
    ELSE Rejected

Decode(data) == IF data = Malformed THEN Rejected ELSE compilePolicySet(data)

(* What the reconciler, the schedule and the revision assume of a policy:  *)
(* no branch of theirs fails on it, and a window is found by its name.     *)
Usable(p) ==
    /\ p.lifecycle.maxAge \in Nat \ {0}
    /\ p.lifecycle.tracked # {} /\ p.lifecycle.expiredAction \in {"scale", "delete"}
    /\ p.replicas.scheduledDown \in Nat /\ p.replicas.expired \in Nat
    /\ p.schedule # Unset =>
         /\ p.schedule.timeZone \in TimeZones
         /\ \A w \in p.schedule.downWindows : ValidWindow(w)
         /\ \A v, w \in p.schedule.downWindows : v.name = w.name => v = w

(* A policy set its readers can rely on: its policies are usable, have     *)
(* distinct names, and delete workloads only if the text says so.          *)
Sound(raw, policies) ==
    /\ \A p \in policies : Usable(p)
    /\ \A p, q \in policies : p.name = q.name => p = q
    /\ \A p \in policies : p.lifecycle.expiredAction = "delete" =>
         \E r \in Range(raw.policies) :
            r.name = p.name /\ r.lifecycle # Unset /\ r.lifecycle.expiredAction = "delete"

-----------------------------------------------------------------------------
(***************************************************************************)
(* Matching.  A workload has a kind, a name and labels: a function from    *)
(* its label keys to values.                                               *)
(***************************************************************************)

(* One requirement of a Kubernetes label selector. *)
Satisfies(labels, r) ==
    CASE r.operator = "In" -> r.key \in DOMAIN labels /\ labels[r.key] \in Range(r.values)
      [] r.operator = "NotIn" -> ~(r.key \in DOMAIN labels /\ labels[r.key] \in Range(r.values))
      [] r.operator = "Exists" -> r.key \in DOMAIN labels
      [] r.operator = "DoesNotExist" -> r.key \notin DOMAIN labels

(* Slip: a target without a selector has one without requirements. *)
selectorMatchesAny(target, labels) == \A r \in target.selector : Satisfies(labels, r)

selectorMatches(target, labels) ==
    target.selector # {} /\ \A r \in target.selector : Satisfies(labels, r)

namePatternMatches(target, name) ==
    name # "" /\ \E pattern \in target.namePatterns : FullMatch(pattern, name)

targetMatches(target, w) ==
    /\ w.kind \in target.kinds
    /\ selectorMatches(target, w.labels) \/ namePatternMatches(target, w.name)

(* The policies of the highest priority among those that match. *)
Winners(policies, w) ==
    LET matches == {p \in policies : targetMatches(p.target, w)}
    IN  {p \in matches : \A q \in matches : q.priority <= p.priority}

(* Exactly one policy wins; no match and a tie select none. *)
Match(policies, w) ==
    IF Cardinality(Winners(policies, w)) = 1
    THEN CHOOSE p \in Winners(policies, w) : TRUE ELSE Unset
=============================================================================
