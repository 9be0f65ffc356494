------------------------- MODULE OrchestratorProofs -------------------------
(***************************************************************************)
(* Proofs about Orchestrator, for any workloads, autoscalers, labels and   *)
(* sequence of policy texts.                                               *)
(***************************************************************************)
EXTENDS Orchestrator, PolicySetProofs

(* The events b of source s are about its objects. *)
ReportedIn(s, b) == \A i \in DOMAIN b :
    b[i].type # "broken" => b[i].obj \in Members(s) /\ b[i].rev \in Revs

Reported == \A s \in Sources : ReportedIn(s, buffer[s])

(* Policy events b come in the order of the changes, none is older than    *)
(* the snapshot m, none newer than the revision last.                      *)
InOrder(b, last, m) ==
    /\ \A i \in DOMAIN b : b[i].type = "set" =>
         b[i].rev \in 1 .. last /\ (m # None => m <= b[i].rev)
    /\ \A i, j \in DOMAIN b :
         i < j /\ b[i].type = "set" /\ b[j].type = "set" => b[i].rev <= b[j].rev

(* The snapshot is a valid text, and what waits is newer. *)
SnapshotInOrder ==
    /\ rev["policies"] \in 1 .. MaxRev("policies")
    /\ manager # None => manager \in 1 .. rev["policies"] /\ Valid(manager)
    /\ InOrder(buffer["policies"], rev["policies"], manager)

Inductive == TypeOK /\ Reported /\ SnapshotInOrder

(* Kinds of objects. *)
LEMMA MembersAreObjects ==
    /\ \A s \in Sources : Members(s) \subseteq Objects
    /\ \A s \in {"deployments", "statefulsets"} : s \in Sources /\ Members(s) \subseteq Keys
    /\ Members("policies") = {"policies"} /\ "policies" \in Objects /\ "policies" \in Sources
    /\ \A s \in Sources \ {"policies"} : "policies" \notin Members(s)
    /\ "hpas" \in Sources
  BY ObjectsAssumption DEF Sources, Members, Objects, Keys

(* The list of kinds and what is left of it. *)
LEMMA InventoryTails ==
    /\ Inventory # <<>> /\ Head(Inventory) = "deployments"
    /\ Tail(Inventory) # <<>> /\ Head(Tail(Inventory)) = "statefulsets"
    /\ Tail(Tail(Inventory)) = <<>>
  BY DEF Inventory

LEMMA InductiveInit == Init => Inductive
<1> SUFFICES ASSUME Init PROVE Inductive
  OBVIOUS
<1>1. buffer = [s \in Sources |-> <<>>] /\ <<>> \in Seq(Events) /\ DOMAIN <<>> = {}
  BY DEF Init
<1>2. ClusterType
  BY DEF Init, ClusterType, Revs
<1>3. StreamsType
  BY <1>1 DEF Init, StreamsType, Revs
<1>4. SupervisorsType
  BY DEF Init, SupervisorsType
<1>5. RunType
  BY DEF Init, RunType
<1>6. Reported
  BY <1>1 DEF Reported, ReportedIn
<1>7. SnapshotInOrder
  BY <1>1, MembersAreObjects, PayloadAssumption DEF Init, SnapshotInOrder, InOrder
<1> QED BY <1>2, <1>3, <1>4, <1>5, <1>6, <1>7 DEF Inductive, TypeOK

-----------------------------------------------------------------------------
(***************************************************************************)
(* Events in a watch.                                                      *)
(***************************************************************************)

LEMMA NoEvents ==
    ASSUME NEW s, NEW last, NEW m
    PROVE  <<>> \in Seq(Events) /\ ReportedIn(s, <<>>) /\ InOrder(<<>>, last, m)
  BY DEF ReportedIn, InOrder

LEMMA AppendReported ==
    ASSUME NEW s, NEW b \in Seq(Events), ReportedIn(s, b), NEW e \in Events,
           e.type # "broken" => e.obj \in Members(s) /\ e.rev \in Revs
    PROVE  Append(b, e) \in Seq(Events) /\ ReportedIn(s, Append(b, e))
  BY DEF ReportedIn

LEMMA AppendInOrder ==
    ASSUME NEW b \in Seq(Events), NEW last \in Nat, NEW now \in Nat, last <= now,
           NEW m \in Revs \cup {None}, m # None => m <= last,
           InOrder(b, last, m), NEW e \in Events,
           e.type = "set" => e.rev = now /\ now > 0
    PROVE  InOrder(Append(b, e), now, m) /\ InOrder(b, now, m)
<1> DEFINE a == Append(b, e)
<1>1. /\ Len(b) \in Nat /\ DOMAIN b = 1 .. Len(b) /\ DOMAIN a = 1 .. Len(b) + 1
      /\ \A i \in DOMAIN b : a[i] = b[i] /\ b[i] \in Events
      /\ a[Len(b) + 1] = e
  OBVIOUS
<1>2. \A i \in DOMAIN b : b[i].rev \in Nat
  BY <1>1 DEF Events
<1> HIDE DEF a
<1>3. InOrder(b, now, m)
  BY <1>1, <1>2 DEF InOrder
<1>4. InOrder(a, now, m)
  BY <1>1, <1>2, SMTT(20) DEF InOrder, Revs
<1> QED BY <1>3, <1>4 DEF a

LEMMA TailReported ==
    ASSUME NEW s, NEW b \in Seq(Events), b # <<>>, ReportedIn(s, b)
    PROVE  /\ Tail(b) \in Seq(Events) /\ ReportedIn(s, Tail(b))
           /\ Head(b) \in Events
           /\ Head(b).type # "broken" => Head(b).obj \in Members(s) /\ Head(b).rev \in Revs
  BY DEF ReportedIn

LEMMA TailInOrder ==
    ASSUME NEW b \in Seq(Events), b # <<>>, NEW last \in Nat, NEW m, InOrder(b, last, m)
    PROVE  /\ InOrder(Tail(b), last, m)
           /\ Head(b).type = "set" =>
                /\ Head(b).rev \in 1 .. last /\ (m # None => m <= Head(b).rev)
                /\ InOrder(Tail(b), last, Head(b).rev)
<1> DEFINE t == Tail(b)
<1>1. /\ Len(b) \in Nat /\ DOMAIN b = 1 .. Len(b) /\ 1 \in DOMAIN b /\ b[1] = Head(b)
      /\ DOMAIN t = 1 .. Len(b) - 1
      /\ \A i \in DOMAIN t : i \in Nat /\ i + 1 \in DOMAIN b /\ 1 < i + 1 /\ t[i] = b[i + 1]
  OBVIOUS
<1> HIDE DEF t
<1>2. \A i, j \in DOMAIN t : i < j => i + 1 < j + 1
  BY <1>1
<1> QED BY <1>1, <1>2 DEF InOrder, t

-----------------------------------------------------------------------------
(***************************************************************************)
(* What the streams have to be, and the steps that touch them.             *)
(***************************************************************************)

StreamsInv == StreamsType /\ Reported /\ SnapshotInOrder

LEMMA ClusterKept ==
    ASSUME ClusterType, UNCHANGED cluster
    PROVE  ClusterType'
  BY DEF ClusterType, cluster

LEMMA StreamsKept ==
    ASSUME StreamsInv, UNCHANGED <<cluster, streams, manager>>
    PROVE  StreamsInv'
  BY DEF StreamsInv, StreamsType, Reported, ReportedIn, SnapshotInOrder, InOrder, Valid,
         cluster, streams

LEMMA RunKept ==
    ASSUME RunType, UNCHANGED <<run, cancelled, done>>
    PROVE  RunType'
  BY DEF RunType, run

LEMMA SupervisorsKept ==
    ASSUME SupervisorsType, UNCHANGED <<sup, req>>
    PROVE  SupervisorsType'
  BY DEF SupervisorsType

(* Only the buffers change, each to one that keeps what is said of it. *)
LEMMA BuffersChange ==
    ASSUME StreamsInv, UNCHANGED <<cluster, manager>>,
           watching' \in [Sources -> BOOLEAN],
           result' \in {None, "reloaded", "rejected", "deleted", "broken"},
           NEW f, buffer' = [s \in Sources |-> f[s]],
           \A s \in Sources : f[s] \in Seq(Events) /\ ReportedIn(s, f[s]),
           InOrder(f["policies"], rev["policies"], manager)
    PROVE  StreamsInv'
<1>1. "policies" \in Sources
  BY DEF Sources
<1>2. buffer' \in [Sources -> Seq(Events)] /\ \A s \in Sources : buffer'[s] = f[s]
  OBVIOUS
<1>3. StreamsType'
  BY <1>2 DEF StreamsInv, StreamsType
<1>4. Reported'
  BY <1>2 DEF Reported, ReportedIn
<1>5. SnapshotInOrder'
  BY <1>1, <1>2 DEF StreamsInv, SnapshotInOrder, InOrder, Valid, cluster
<1> QED BY <1>3, <1>4, <1>5 DEF StreamsInv

LEMMA BuffersNow ==
    ASSUME StreamsInv
    PROVE  /\ \A s \in Sources : buffer[s] \in Seq(Events) /\ ReportedIn(s, buffer[s])
           /\ InOrder(buffer["policies"], rev["policies"], manager)
           /\ rev["policies"] \in Nat \ {0} /\ rev["policies"] \in 1 .. MaxRev("policies")
           /\ manager \in Revs \cup {None} /\ (manager # None => manager <= rev["policies"])
  BY PayloadAssumption
     DEF StreamsInv, StreamsType, Reported, SnapshotInOrder, Revs

LEMMA StopStreams ==
    ASSUME StreamsInv, NEW u, Stop(u), UNCHANGED <<cluster, manager>>
    PROVE  StreamsInv'
<1> DEFINE f == [s \in Sources |-> IF s \in Feeds(u) THEN <<>> ELSE buffer[s]]
<1>1. "policies" \in Sources
  BY DEF Sources
<1>2. \A s \in Sources : f[s] \in Seq(Events) /\ ReportedIn(s, f[s])
  BY BuffersNow, NoEvents
<1>3. InOrder(f["policies"], rev["policies"], manager)
  BY <1>1, BuffersNow, NoEvents
<1>4. buffer' = [s \in Sources |-> f[s]]
  BY DEF Stop
<1>5. /\ watching' \in [Sources -> BOOLEAN]
      /\ result' \in {None, "reloaded", "rejected", "deleted", "broken"}
  BY DEF Stop, StreamsInv, StreamsType
<1> HIDE DEF f
<1> QED BY <1>2, <1>3, <1>4, <1>5, BuffersChange

LEMMA ForwardStreams ==
    ASSUME StreamsInv, NEW s \in Sources, NEW e, Forward(s, e), UNCHANGED <<cluster, manager>>
    PROVE  /\ StreamsInv'
           /\ e \in Events
           /\ e.type # "broken" => e.obj \in Members(s) /\ e.rev \in Revs
<1> DEFINE f == [buffer EXCEPT ![s] = Tail(@)]
<1>1. "policies" \in Sources
  BY DEF Sources
<1>2. buffer \in [Sources -> Seq(Events)] /\ buffer[s] # <<>> /\ e = Head(buffer[s])
  BY DEF Forward, StreamsInv, StreamsType
<1>3. /\ Tail(buffer[s]) \in Seq(Events) /\ ReportedIn(s, Tail(buffer[s]))
      /\ e \in Events
      /\ e.type # "broken" => e.obj \in Members(s) /\ e.rev \in Revs
  BY <1>2, BuffersNow, TailReported
<1>4. \A t \in Sources : f[t] = IF t = s THEN Tail(buffer[s]) ELSE buffer[t]
  BY <1>2
<1>5. \A t \in Sources : f[t] \in Seq(Events) /\ ReportedIn(t, f[t])
  BY <1>3, <1>4, BuffersNow
<1>6. s = "policies" => InOrder(Tail(buffer[s]), rev["policies"], manager)
  BY <1>2, BuffersNow, TailInOrder
<1>7. InOrder(f["policies"], rev["policies"], manager)
  BY <1>1, <1>4, <1>6, BuffersNow
<1>8. buffer' = [t \in Sources |-> f[t]]
  BY <1>2 DEF Forward
<1>9. /\ watching' \in [Sources -> BOOLEAN]
      /\ result' \in {None, "reloaded", "rejected", "deleted", "broken"}
  BY DEF Forward, StreamsInv, StreamsType
<1> HIDE DEF f
<1> QED BY <1>3, <1>5, <1>7, <1>8, <1>9, BuffersChange

(* A watch that is opened reports what is there. *)
LEMMA OpenStreams ==
    ASSUME ClusterType, StreamsInv, NEW s \in Sources, Open(s)
    PROVE  StreamsInv'
<1>1. PICK order \in SetToSeqs({o \in Members(s) : there[o]}) :
        buffer' = [buffer EXCEPT ![s] =
                     [i \in DOMAIN order |-> Event("set", order[i], rev[order[i]])]]
  BY DEF Open
<1> DEFINE b == [i \in DOMAIN order |-> Event("set", order[i], rev[order[i]])]
           f == [buffer EXCEPT ![s] = b]
<1>2. PICK n \in Nat : DOMAIN order = 1 .. n /\ \A i \in 1 .. n : order[i] \in Members(s)
  <2> DEFINE S == {o \in Members(s) : there[o]}
  <2>1. IsFiniteSet(Members(s))
    <3>1. Members(s) \subseteq Keys \cup HPAs \/ Members(s) = {"policies"}
      BY DEF Sources, Members, Keys
    <3>2. Members(s) \in SUBSET (Keys \cup HPAs) => IsFiniteSet(Members(s))
      BY ObjectsAssumption, FS_Subset
    <3>3. IsFiniteSet({"policies"})
      BY FS_Singleton
    <3> QED BY <3>1, <3>2, <3>3
  <2>2. IsFiniteSet(S)
    BY <2>1, FS_Subset
  <2>3. Cardinality(S) \in Nat
    BY <2>2, FS_CardinalityType
  <2>4. order \in [1 .. Cardinality(S) -> S] /\ S \subseteq Members(s)
    BY DEF SetToSeqs
  <2> HIDE DEF S
  <2>5. DOMAIN order = 1 .. Cardinality(S)
    BY <2>4
  <2>6. \A i \in 1 .. Cardinality(S) : order[i] \in Members(s)
    BY <2>4
  <2> QED BY <2>3, <2>5, <2>6
<1>3. \A i \in 1 .. n : /\ order[i] \in Members(s) /\ order[i] \in Objects
                        /\ rev[order[i]] \in Revs /\ rev[order[i]] \in Nat
  BY <1>2, MembersAreObjects DEF ClusterType, Revs
<1>4. /\ DOMAIN b = 1 .. n
      /\ \A i \in 1 .. n : /\ b[i] = [type |-> "set", obj |-> order[i], rev |-> rev[order[i]]]
                           /\ b[i] \in Events
  BY <1>2, <1>3 DEF Event, Events
<1> HIDE DEF b
<1>5. b \in Seq(Events)
  <2>1. b \in [1 .. n -> Events]
    BY <1>2, <1>4 DEF b
  <2> QED BY <2>1
<1>6. ReportedIn(s, b)
  BY <1>3, <1>4 DEF ReportedIn
<1>7. s = "policies" => InOrder(b, rev["policies"], manager)
  <2>1. s = "policies" => \A i \in 1 .. n : order[i] = "policies"
    BY <1>3, MembersAreObjects
  <2>2. s = "policies" => \A i \in 1 .. n : b[i].rev = rev["policies"]
    BY <1>4, <2>1
  <2> QED BY <1>4, <2>2, BuffersNow DEF InOrder
<1>8. buffer \in [Sources -> Seq(Events)]
  BY DEF StreamsInv, StreamsType
<1>9. \A t \in Sources : f[t] = IF t = s THEN b ELSE buffer[t]
  BY <1>8
<1>10. \A t \in Sources : f[t] \in Seq(Events) /\ ReportedIn(t, f[t])
  BY <1>5, <1>6, <1>9, BuffersNow
<1>11. InOrder(f["policies"], rev["policies"], manager)
  BY <1>7, <1>9, BuffersNow, MembersAreObjects
<1>12. buffer' = [t \in Sources |-> f[t]]
  BY <1>1, <1>8 DEF b
<1>13. /\ watching' \in [Sources -> BOOLEAN]
       /\ result' \in {None, "reloaded", "rejected", "deleted", "broken"}
       /\ UNCHANGED <<cluster, manager>>
  BY DEF Open, StreamsInv, StreamsType
<1> HIDE DEF f
<1> QED BY <1>10, <1>11, <1>12, <1>13, BuffersChange

LEMMA BreakStreams ==
    ASSUME StreamsInv, NEW s \in Sources, Break(s)
    PROVE  StreamsInv'
<1> DEFINE e == Event("broken", s, 0)
           f == [buffer EXCEPT ![s] = Append(@, e)]
<1>1. e \in Events /\ e.type = "broken"
  BY DEF Event, Events
<1> HIDE DEF e
<1>2. buffer \in [Sources -> Seq(Events)]
  BY DEF StreamsInv, StreamsType
<1>3. \A t \in Sources : f[t] = IF t = s THEN Append(buffer[s], e) ELSE buffer[t]
  BY <1>2
<1>4. Append(buffer[s], e) \in Seq(Events) /\ ReportedIn(s, Append(buffer[s], e))
  BY <1>1, BuffersNow, AppendReported
<1>5. s = "policies" => InOrder(Append(buffer[s], e), rev["policies"], manager)
  BY <1>1, BuffersNow, AppendInOrder
<1>6. \A t \in Sources : f[t] \in Seq(Events) /\ ReportedIn(t, f[t])
  BY <1>3, <1>4, BuffersNow
<1>7. InOrder(f["policies"], rev["policies"], manager)
  BY <1>3, <1>5, BuffersNow, MembersAreObjects
<1>8. buffer' = [t \in Sources |-> f[t]]
  BY <1>2 DEF Break, e
<1>9. /\ watching' \in [Sources -> BOOLEAN]
      /\ result' \in {None, "reloaded", "rejected", "deleted", "broken"}
      /\ UNCHANGED <<cluster, manager>>
  BY DEF Break, StreamsInv, StreamsType
<1> HIDE DEF f
<1> QED BY <1>6, <1>7, <1>8, <1>9, BuffersChange

(* A change of an object is reported after all earlier ones. *)
LEMMA ChangeStreams ==
    ASSUME ClusterType, StreamsInv, NEW s \in Sources, NEW o \in Members(s), Change(s, o)
    PROVE  ClusterType' /\ StreamsInv'
<1>1. PICK present \in BOOLEAN :
        /\ there' = [there EXCEPT ![o] = present]
        /\ LET e == Event(IF present THEN "set" ELSE "deleted", o, rev[o] + 1)
           IN  buffer' = IF watching[s] THEN [buffer EXCEPT ![s] = Append(@, e)]
                                        ELSE buffer
  BY DEF Change
<1> DEFINE e == Event(IF present THEN "set" ELSE "deleted", o, rev[o] + 1)
           f == IF watching[s] THEN [buffer EXCEPT ![s] = Append(@, e)] ELSE buffer
<1>2. o \in Objects /\ rev[o] \in Revs /\ rev[o] \in Nat
  BY MembersAreObjects DEF ClusterType, Revs
<1>3. ClusterType'
  BY <1>1, <1>2 DEF Change, ClusterType, Revs
<1>4. e \in Events /\ e.obj = o /\ e.rev = rev[o] + 1 /\ e.rev \in Revs
  BY <1>2 DEF Event, Events, Revs
<1>5. /\ o = "policies" => /\ s = "policies"
                           /\ rev'["policies"] = rev["policies"] + 1
                           /\ rev["policies"] < MaxRev("policies")
      /\ o # "policies" => s # "policies" /\ rev'["policies"] = rev["policies"]
  BY <1>2, MembersAreObjects DEF Change, ClusterType
<1> HIDE DEF e
<1>6. buffer \in [Sources -> Seq(Events)]
  BY DEF StreamsInv, StreamsType
<1>7. Append(buffer[s], e) \in Seq(Events) /\ ReportedIn(s, Append(buffer[s], e))
  BY <1>4, BuffersNow, AppendReported
<1>8. \A t \in Sources : f[t] = IF watching[s] /\ t = s THEN Append(buffer[s], e) ELSE buffer[t]
  BY <1>6
<1>9. \A t \in Sources : f[t] \in Seq(Events) /\ ReportedIn(t, f[t])
  BY <1>7, <1>8, BuffersNow
<1>10. InOrder(f["policies"], rev'["policies"], manager)
  <2>1. o = "policies" => /\ InOrder(Append(buffer[s], e), rev'["policies"], manager)
                          /\ InOrder(buffer["policies"], rev'["policies"], manager)
    BY <1>4, <1>5, BuffersNow, AppendInOrder
  <2> QED BY <1>5, <1>8, <2>1, BuffersNow, MembersAreObjects
<1>11. buffer' = [t \in Sources |-> f[t]]
  BY <1>1, <1>6 DEF e
<1> HIDE DEF f
<1>12. \A t \in Sources : buffer'[t] = f[t]
  BY <1>11
<1>13. StreamsType'
  BY <1>9, <1>11 DEF Change, StreamsInv, StreamsType
<1>14. Reported'
  BY <1>9, <1>12 DEF Reported, ReportedIn
<1>15. SnapshotInOrder'
  <2>1. rev'["policies"] \in 1 .. MaxRev("policies") /\ rev["policies"] <= rev'["policies"]
    BY <1>5, BuffersNow, PayloadAssumption
  <2>2. manager' # None => manager' \in 1 .. rev'["policies"] /\ Valid(manager')
    BY <2>1, PayloadAssumption DEF Change, StreamsInv, SnapshotInOrder
  <2>3. InOrder(buffer'["policies"], rev'["policies"], manager')
    BY <1>10, <1>12, MembersAreObjects DEF Change
  <2> QED BY <2>1, <2>2, <2>3 DEF SnapshotInOrder, InOrder, Valid
<1> QED BY <1>3, <1>13, <1>14, <1>15 DEF StreamsInv

(* The forwarder's snapshot is the event it took. *)
LEMMA ConvertStreams ==
    ASSUME StreamsInv, Convert
    PROVE  /\ StreamsInv'
           /\ manager' # manager => Valid(manager') /\ (manager = None \/ manager' > manager)
<1> DEFINE b == buffer["policies"]
           e == Head(b)
<1>1. b \in Seq(Events) /\ b # <<>> /\ buffer \in [Sources -> Seq(Events)]
  BY MembersAreObjects DEF Convert, StreamsInv, StreamsType
<1>2. /\ Tail(b) \in Seq(Events) /\ ReportedIn("policies", Tail(b))
      /\ e \in Events /\ (e.type # "broken" => e.rev \in Revs)
  BY <1>1, BuffersNow, MembersAreObjects, TailReported
<1>3. /\ InOrder(Tail(b), rev["policies"], manager)
      /\ e.type = "set" => /\ e.rev \in 1 .. rev["policies"]
                           /\ manager # None => manager <= e.rev
                           /\ InOrder(Tail(b), rev["policies"], e.rev)
  BY <1>1, BuffersNow, TailInOrder
<1>4. \A t \in Sources : buffer'[t] = IF t = "policies" THEN Tail(b) ELSE buffer[t]
  BY <1>1 DEF Convert
<1>5. /\ manager' = IF e.type = "set" /\ Valid(e.rev) THEN e.rev ELSE manager
      /\ result' \in {"reloaded", "rejected", e.type}
      /\ e.type = "set" => result' \in {"reloaded", "rejected"}
      /\ buffer' = [buffer EXCEPT !["policies"] = Tail(b)]
      /\ UNCHANGED <<rev, watching>>
  BY DEF Convert, cluster
<1>6. e.type \in {"set", "deleted", "broken"}
  BY <1>2 DEF Events
<1> HIDE DEF b, e
<1>7. StreamsType'
  BY <1>1, <1>2, <1>5, <1>6 DEF StreamsInv, StreamsType
<1>8. Reported'
  BY <1>2, <1>4, BuffersNow DEF Reported, ReportedIn
<1>9. SnapshotInOrder'
  <2>1. manager' # None => manager' \in 1 .. rev["policies"] /\ Valid(manager')
    BY <1>3, <1>5 DEF StreamsInv, SnapshotInOrder
  <2>2. InOrder(Tail(b), rev["policies"], manager')
    BY <1>3, <1>5
  <2>3. buffer'["policies"] = Tail(b) /\ rev'["policies"] = rev["policies"]
    BY <1>4, <1>5, MembersAreObjects
  <2>4. rev["policies"] \in 1 .. MaxRev("policies")
    BY BuffersNow
  <2> QED BY <2>1, <2>2, <2>3, <2>4 DEF SnapshotInOrder, Valid
<1>10. manager' # manager => Valid(manager') /\ (manager = None \/ manager' > manager)
  BY <1>2, <1>3, <1>5, BuffersNow DEF Revs
<1> QED BY <1>7, <1>8, <1>9, <1>10 DEF StreamsInv

-----------------------------------------------------------------------------
(***************************************************************************)
(* Supervisors.                                                            *)
(***************************************************************************)

LEMMA SupervisorGoes ==
    ASSUME SupervisorsType, NEW u \in Supervisors, sup[u] # "send",
           NEW next \in {"watch", "watchStatefulSets", "receive", "retry", "done"},
           Goto(u, next), UNCHANGED req
    PROVE  SupervisorsType'
  BY DEF SupervisorsType, Goto

LEMMA SupervisorSends ==
    ASSUME SupervisorsType, NEW u \in Supervisors, NEW request \in Requests,
           SendRequest(u, request)
    PROVE  SupervisorsType'
  BY RequestsAssumption DEF SupervisorsType, Goto, SendRequest

LEMMA SupervisorSent ==
    ASSUME SupervisorsType, NEW u \in Supervisors, NEW next \in {"receive", "done"},
           Goto(u, next), req' = [req EXCEPT ![u] = None]
    PROVE  SupervisorsType'
  BY DEF SupervisorsType, Goto

(* Disconnect stops the stream, and what was there to be sent is gone. *)
LEMMA DisconnectKeeps ==
    ASSUME StreamsInv, SupervisorsType, NEW u \in Supervisors, sup[u] # "send",
           Disconnect(u), UNCHANGED <<cluster, manager>>
    PROVE  StreamsInv' /\ SupervisorsType'
<1>1. Stop(u) /\ Goto(u, "retry") /\ UNCHANGED req
  BY DEF Disconnect
<1> QED BY <1>1, StopStreams, SupervisorGoes

LEMMA WatchKeeps ==
    ASSUME Inductive, NEW u \in Supervisors, Watch(u)
    PROVE  Inductive'
<1> USE DEF Inductive, TypeOK
<1>1. PICK s \in Sources, next \in {"watchStatefulSets", "receive"} :
        Open(s) /\ Goto(u, next) /\ sup[u] # "send"
  BY MembersAreObjects
     DEF Watch, WatchDeployments, WatchStatefulSets, WatchHPAs, WatchPolicies
<1>2. UNCHANGED <<cluster, req, run, cancelled, done>>
  BY <1>1 DEF Open
<1>3. StreamsInv
  BY DEF StreamsInv
<1>4. StreamsInv'
  BY <1>1, <1>3, OpenStreams
<1>5. SupervisorsType'
  BY <1>1, <1>2, SupervisorGoes
<1>6. ClusterType' /\ RunType'
  BY <1>2, ClusterKept, RunKept
<1> QED BY <1>4, <1>5, <1>6 DEF StreamsInv

LEMMA WatchFailsKeeps ==
    ASSUME Inductive, NEW u \in Supervisors, WatchFails(u)
    PROVE  Inductive'
<1> USE DEF Inductive, TypeOK
<1>1. /\ sup[u] # "send" /\ Disconnect(u)
      /\ UNCHANGED <<cluster, manager, run, cancelled, done>>
  BY DEF WatchFails
<1>2. StreamsInv' /\ SupervisorsType'
  BY <1>1, DisconnectKeeps DEF StreamsInv
<1>3. ClusterType' /\ RunType'
  BY <1>1, ClusterKept, RunKept
<1> QED BY <1>2, <1>3 DEF StreamsInv

LEMMA ReceiveKeeps ==
    ASSUME Inductive, NEW u \in Supervisors, Receive(u)
    PROVE  Inductive'
<1> USE DEF Inductive, TypeOK
<1>1. sup[u] # "send" /\ UNCHANGED <<cluster, manager, run, cancelled, done>>
  BY DEF Receive, ReceiveHPA, ReceiveWorkload
<1>2. Full \in Requests
  BY DEF Full, Requests
<1>3. CASE Disconnect(u)
  BY <1>1, <1>3, DisconnectKeeps, ClusterKept, RunKept DEF StreamsInv
<1>4. CASE \E s \in Sources : \E e : Forward(s, e) /\ SendRequest(u, Full)
  <2>1. StreamsInv'
    BY <1>1, <1>4, ForwardStreams DEF StreamsInv
  <2>2. SupervisorsType'
    BY <1>2, <1>4, SupervisorSends
  <2> QED BY <1>1, <2>1, <2>2, ClusterKept, RunKept DEF StreamsInv
<1>5. CASE \E s \in {"deployments", "statefulsets"} : \E e :
             /\ e.type = "set" /\ Forward(s, e)
             /\ SendRequest(u, [full |-> FALSE, workload |-> [key |-> e.obj, rev |-> e.rev]])
  <2>0. PICK s \in {"deployments", "statefulsets"} : \E e :
             /\ e.type = "set" /\ Forward(s, e)
             /\ SendRequest(u, [full |-> FALSE, workload |-> [key |-> e.obj, rev |-> e.rev]])
    BY <1>5
  <2>1. PICK e :
             /\ e.type = "set" /\ Forward(s, e)
             /\ SendRequest(u, [full |-> FALSE, workload |-> [key |-> e.obj, rev |-> e.rev]])
    BY <2>0
  <2>2. StreamsInv' /\ e.obj \in Members(s) /\ e.rev \in Revs
    BY <1>1, <2>1, ForwardStreams, MembersAreObjects DEF StreamsInv
  <2>3. [full |-> FALSE, workload |-> [key |-> e.obj, rev |-> e.rev]] \in Requests
    BY <2>2, MembersAreObjects DEF Requests, Copies
  <2>4. SupervisorsType'
    BY <2>1, <2>3, SupervisorSends
  <2> QED BY <1>1, <2>2, <2>4, ClusterKept, RunKept DEF StreamsInv
<1> QED BY <1>3, <1>4, <1>5, MembersAreObjects DEF Receive, ReceiveHPA, ReceiveWorkload

LEMMA ReceivePolicyKeeps ==
    ASSUME Inductive, ReceivePolicy
    PROVE  Inductive'
<1> USE DEF Inductive, TypeOK
<1>1. /\ "policies" \in Supervisors /\ sup["policies"] # "send"
      /\ UNCHANGED <<cluster, manager, run, cancelled, done>>
  BY DEF ReceivePolicy
<1>2. ClusterType' /\ RunType'
  BY <1>1, ClusterKept, RunKept
<1>3. CASE Disconnect("policies")
  BY <1>1, <1>2, <1>3, DisconnectKeeps DEF StreamsInv
<1>4. CASE result' = None /\ UNCHANGED <<watching, buffer>>
  <2>1. StreamsType' /\ Reported' /\ SnapshotInOrder'
    BY <1>1, <1>4 DEF StreamsType, Reported, ReportedIn, SnapshotInOrder, InOrder, Valid, cluster
  <2>2. Full \in Requests
    BY DEF Full, Requests
  <2>3. UNCHANGED <<sup, req>> \/ SendRequest("policies", Full) \/ Disconnect("policies")
    BY DEF ReceivePolicy
  <2>4. SupervisorsType'
    BY <1>1, <2>2, <2>3, SupervisorsKept, SupervisorSends, SupervisorGoes DEF Disconnect
  <2> QED BY <1>2, <2>1, <2>4
<1> QED BY <1>3, <1>4 DEF ReceivePolicy

LEMMA RetryKeeps ==
    ASSUME Inductive, NEW u \in Supervisors, Retry(u)
    PROVE  Inductive'
<1> USE DEF Inductive, TypeOK
<1>1. /\ sup[u] # "send" /\ Goto(u, "watch") /\ UNCHANGED req
      /\ UNCHANGED <<cluster, streams, manager>> /\ UNCHANGED <<run, cancelled, done>>
  BY DEF Retry
<1>2. SupervisorsType'
  BY <1>1, SupervisorGoes
<1> QED BY <1>1, <1>2, ClusterKept, StreamsKept, RunKept DEF StreamsInv

LEMMA LeaveKeeps ==
    ASSUME Inductive, NEW u \in Supervisors, Leave(u)
    PROVE  Inductive'
<1> USE DEF Inductive, TypeOK
<1>1. /\ Stop(u) /\ Goto(u, "done") /\ req' = [req EXCEPT ![u] = None]
      /\ UNCHANGED <<cluster, manager, run, cancelled, done>>
  BY DEF Leave
<1>2. StreamsInv' /\ SupervisorsType'
  BY <1>1, StopStreams, SupervisorSent DEF StreamsInv
<1> QED BY <1>1, <1>2, ClusterKept, RunKept DEF StreamsInv

-----------------------------------------------------------------------------
(***************************************************************************)
(* Run.                                                                    *)
(***************************************************************************)

(* The policy selected for a copy is compiled from a text that asks for it. *)
LEMMA SelectedIsAskedFor ==
    ASSUME Inductive, NEW c \in Copies, Selected(c) # Unset
    PROVE  /\ manager \in Revs
           /\ \E raw \in Range(Payload(manager).policies) :
                /\ raw.name = Selected(c).name /\ raw.name \in STRING
                /\ AsksFor(raw, WorkloadOf(c))
<1> DEFINE w == WorkloadOf(c)
           text == Payload(manager)
<1>1. manager # None /\ Selected(c) = Match(Policies(manager), w)
  BY DEF Selected
<1>2. manager \in 1 .. MaxRev("policies") /\ Valid(manager) /\ manager \in Revs
  BY <1>1, PayloadAssumption DEF Inductive, SnapshotInOrder, Revs
<1>3. text \in RawPolicySets \cup {Malformed} /\ Decode(text) # Rejected
  BY <1>2, PayloadAssumption DEF Valid, Policies
<1>4. /\ Selected(c) \in Decode(text)
      /\ targetMatches(Selected(c).target, w)
  BY <1>1, MatchSelects DEF Policies
<1> HIDE DEF w, text
<1>5. PICK raw \in Range(text.policies) :
        Selected(c) = compilePolicy(raw) /\ raw \in RawPolicies /\ ValidPolicy(raw)
  BY <1>3, <1>4, Accepted
<1>6. raw.name = Selected(c).name /\ raw.name \in STRING
  BY <1>5 DEF compilePolicy, RawPolicies
<1>7. targetMatches(compileTarget(raw.target), w)
  BY <1>4, <1>5 DEF compilePolicy
<1>8. raw.target # Unset /\ raw.target \in RawTargets /\ raw.target.kinds # Unset
  BY <1>5 DEF RawPolicies, Optional, ValidPolicy, ValidTarget, NonEmpty
<1>9. AsksFor(raw, w)
  BY <1>7, <1>8
     DEF AsksFor, targetMatches, compileTarget, selectorMatches, namePatternMatches
<1> QED BY <1>2, <1>5, <1>6, <1>9 DEF w, text

LEMMA ReconcileKeeps ==
    ASSUME Inductive, NEW c \in items, Reconcile(c)
    PROVE  RunType'
<1>1. c \in Copies /\ c.key \in Keys /\ c.rev \in Revs
  BY DEF Inductive, TypeOK, RunType, Copies
<1>2. Selected(c) # Unset =>
        [rev |-> c.rev, set |-> manager, policy |-> Selected(c).name] \in
          [rev : Revs, set : Revs, policy : STRING]
  BY <1>1, SelectedIsAskedFor
<1>3. done' \in [Keys -> [rev : Revs, set : Revs, policy : STRING] \cup {None}]
  BY <1>1, <1>2 DEF Inductive, TypeOK, RunType, Reconcile
<1> QED BY <1>3 DEF Inductive, TypeOK, RunType, Reconcile

LEMMA BatchKeeps ==
    ASSUME RunType, Batch, UNCHANGED <<cancelled, done>>
    PROVE  RunType'
  BY DEF RunType, Batch

LEMMA ServeKeeps ==
    ASSUME Inductive, NEW u \in Supervisors, Serve(u)
    PROVE  Inductive'
<1> USE DEF Inductive, TypeOK
<1>1. /\ UNCHANGED <<cluster, streams, manager>> /\ UNCHANGED <<cancelled, done>>
      /\ Goto(u, "receive") /\ req' = [req EXCEPT ![u] = None] /\ sup[u] = "send"
  BY DEF Serve
<1>2. req[u] \in Requests
  BY <1>1 DEF SupervisorsType
<1>3. RunType'
  <2>1. CASE req[u].full
    BY <1>1, <2>1, BatchKeeps DEF Serve
  <2>2. CASE ~req[u].full
    <3>1. req[u].workload \in Copies
      BY <1>2, <2>2 DEF Requests
    <3> QED BY <1>1, <2>2, <3>1 DEF Serve, RunType
  <2> QED BY <2>1, <2>2
<1>4. SupervisorsType'
  BY <1>1, SupervisorSent
<1> QED BY <1>1, <1>3, <1>4, ClusterKept, StreamsKept DEF StreamsInv

LEMMA ListKeeps ==
    ASSUME Inductive, List
    PROVE  RunType'
<1>1. kinds \in {Inventory, Tail(Inventory)}
  BY DEF List, Inductive, TypeOK, RunType
<1>2. /\ Head(kinds) \in {"deployments", "statefulsets"}
      /\ Tail(kinds) \in {Tail(Inventory), <<>>}
  BY <1>1, InventoryTails
<1>3. \A k \in Members(Head(kinds)) : k \in Keys /\ rev[k] \in Revs
  BY <1>2, MembersAreObjects DEF Inductive, TypeOK, ClusterType, Objects
<1>4. items' \subseteq Copies
  BY <1>3 DEF List, CopyOf, Copies
<1> QED BY <1>2, <1>4 DEF List, Inductive, TypeOK, RunType

LEMMA ListFailsKeeps ==
    ASSUME RunType, ListFails
    PROVE  RunType'
<1>1. kinds \in {Inventory, Tail(Inventory)}
  BY DEF ListFails, RunType
<1>2. Tail(kinds) \in {Tail(Inventory), <<>>}
  BY <1>1, InventoryTails
<1> QED BY <1>2 DEF ListFails, RunType

(* The steps of the loop other than Serve change nothing but the run. *)
LEMMA LoopKeeps ==
    ASSUME Inductive, Work \/ Tick \/ Finish \/ Cancel \/ ListFails \/ \E c \in items : ReconcileFails(c)
    PROVE  Inductive'
<1> USE DEF Inductive, TypeOK
<1>1. UNCHANGED <<cluster, streams, manager>> /\ UNCHANGED <<sup, req>>
  BY DEF Work, List, Reconcile, EndBatch, Return, Tick, Finish, Cancel, ListFails,
         ReconcileFails
<1>2. RunType'
  <2>1. CASE List
    BY <2>1, ListKeeps
  <2>2. CASE \E c \in items : Reconcile(c)
    BY <2>2, ReconcileKeeps
  <2>3. CASE EndBatch
    BY <2>3 DEF EndBatch, RunType
  <2>4. CASE Return
    BY <2>4 DEF Return, RunType
  <2>5. CASE Tick
    BY <2>5, BatchKeeps DEF Tick
  <2>6. CASE Finish
    BY <2>6 DEF Finish, RunType
  <2>7. CASE Cancel
    BY <2>7 DEF Cancel, RunType, run
  <2>8. CASE ListFails
    BY <2>8, ListFailsKeeps
  <2>9. CASE \E c \in items : ReconcileFails(c)
    BY <2>9 DEF ReconcileFails, RunType
  <2> QED BY <2>1, <2>2, <2>3, <2>4, <2>5, <2>6, <2>7, <2>8, <2>9 DEF Work
<1> QED BY <1>1, <1>2, ClusterKept, StreamsKept, SupervisorsKept DEF StreamsInv

-----------------------------------------------------------------------------

(* Each step keeps the invariant and, if it changes the snapshot, is a     *)
(* Convert; if it changes what was reconciled, a Reconcile.                *)
LEMMA InductiveNext ==
    ASSUME Inductive, [Next]_vars
    PROVE  /\ Inductive'
           /\ manager' # manager => Convert
           /\ done' # done => \E c \in items : Reconcile(c)
<1> USE DEF Inductive, TypeOK
<1>1. CASE \E s \in Sources : \E o \in Members(s) : Change(s, o)
  <2>1. UNCHANGED <<manager, done>> /\ UNCHANGED <<sup, req>> /\ UNCHANGED <<run, cancelled, done>>
    BY <1>1 DEF Change
  <2> QED BY <1>1, <2>1, ChangeStreams, SupervisorsKept, RunKept DEF StreamsInv
<1>2. CASE \E s \in Sources : Break(s)
  <2>1. /\ UNCHANGED <<manager, done>> /\ UNCHANGED cluster /\ UNCHANGED <<sup, req>>
        /\ UNCHANGED <<run, cancelled, done>>
    BY <1>2 DEF Break
  <2> QED BY <1>2, <2>1, BreakStreams, ClusterKept, SupervisorsKept, RunKept DEF StreamsInv
<1>3. CASE \E u \in Supervisors : WatchFails(u)
  BY <1>3, WatchFailsKeeps DEF WatchFails
<1>4. CASE \E u \in Supervisors : Supervise(u) \/ Serve(u)
  <2>1. UNCHANGED <<manager, done>>
    BY <1>4 DEF Supervise, Serve, Watch, WatchDeployments, WatchStatefulSets, WatchHPAs,
       WatchPolicies, Open, Receive, ReceiveHPA, ReceiveWorkload, Retry, Leave
  <2> QED BY <1>4, <2>1, WatchKeeps, ReceiveKeeps, RetryKeeps, LeaveKeeps, ServeKeeps
          DEF Supervise
<1>5. CASE Convert
  <2>1. /\ UNCHANGED done /\ UNCHANGED cluster /\ UNCHANGED <<sup, req>>
        /\ UNCHANGED <<run, cancelled, done>>
    BY <1>5 DEF Convert
  <2> QED BY <1>5, <2>1, ConvertStreams, ClusterKept, SupervisorsKept, RunKept DEF StreamsInv
<1>6. CASE ReceivePolicy
  BY <1>6, ReceivePolicyKeeps DEF ReceivePolicy
<1>7. CASE Work \/ Tick \/ Finish \/ Cancel \/ ListFails \/ \E c \in items : ReconcileFails(c)
  <2>1. UNCHANGED manager /\ (done' # done => \E c \in items : Reconcile(c))
    BY <1>7 DEF Work, List, Reconcile, EndBatch, Return, Tick, Finish, Cancel, ListFails,
       ReconcileFails
  <2> QED BY <1>7, <2>1, LoopKeeps
<1>8. CASE UNCHANGED vars
  <2>1. /\ UNCHANGED <<cluster, streams, manager>> /\ UNCHANGED <<sup, req>>
        /\ UNCHANGED <<run, cancelled, done>>
    BY <1>8 DEF vars
  <2> QED BY <2>1, ClusterKept, StreamsKept, SupervisorsKept, RunKept DEF StreamsInv
<1> QED BY <1>1, <1>2, <1>3, <1>4, <1>5, <1>6, <1>7, <1>8 DEF Next, Failure

THEOREM Invariance == Spec => []Inductive
<1>1. Init => Inductive
  BY InductiveInit
<1>2. Inductive /\ [Next]_vars => Inductive'
  BY InductiveNext
<1> QED BY <1>1, <1>2, PTL DEF Spec

(* Every variable keeps its type: a supervisor that sends has a request,   *)
(* the loop only reconciles workloads, and only under a named policy       *)
(* (Run, the supervisors and their streams).                               *)
THEOREM TypeCorrect == Spec => []TypeOK
<1>1. Inductive => TypeOK
  BY DEF Inductive
<1> QED BY <1>1, Invariance, PTL

(* The snapshot in use is a sound policy set, whatever texts the ConfigMap *)
(* went through (Reload, compilePolicySet).                                *)
THEOREM SnapshotAlwaysSound == Spec => []SnapshotIsSound
<1>1. Inductive => SnapshotIsSound
  <2> SUFFICES ASSUME Inductive, manager # None
               PROVE  Sound(Payload(manager), Policies(manager))
    BY DEF SnapshotIsSound
  <2>1. manager \in 1 .. MaxRev("policies") /\ Valid(manager)
    BY PayloadAssumption DEF Inductive, SnapshotInOrder
  <2>2. Payload(manager) \in RawPolicySets \cup {Malformed}
    BY <2>1, PayloadAssumption
  <2> QED BY <2>1, <2>2, AcceptedIsSound DEF Valid, Policies
<1> QED BY <1>1, Invariance, PTL

(* The snapshot only moves to newer valid texts, across deletions, invalid *)
(* updates, disconnects and restarts of the watch (convert, Reload).       *)
THEOREM PolicyAdvances == Spec => PolicyOnlyAdvances
<1> DEFINE Step == manager' # manager =>
             /\ Valid(manager')
             /\ manager = None \/ manager' > manager
<1>1. Inductive /\ [Next]_vars => [Step]_vars
  <2> SUFFICES ASSUME Inductive, [Next]_vars, manager' # manager PROVE Step
    OBVIOUS
  <2>1. Convert
    BY InductiveNext
  <2> QED BY <2>1, ConvertStreams DEF Inductive, TypeOK, StreamsInv
<1> QED BY <1>1, Invariance, PTL DEF Spec, PolicyOnlyAdvances

(* No workload is reconciled under a policy whose text does not ask for it *)
(* (reconcileOne, Match, selectorMatches).                                 *)
THEOREM AskedFor == Spec => OnlyAskedFor
<1> DEFINE Step == \A k \in Keys : done'[k] # done[k] =>
             \E raw \in Range(Payload(manager).policies) :
                /\ raw.name = done'[k].policy
                /\ AsksFor(raw, WorkloadOf([key |-> k, rev |-> done'[k].rev]))
<1>1. Inductive /\ [Next]_vars => [Step]_vars
  <2> SUFFICES ASSUME Inductive, [Next]_vars, NEW k \in Keys, done'[k] # done[k]
               PROVE  \E raw \in Range(Payload(manager).policies) :
                         /\ raw.name = done'[k].policy
                         /\ AsksFor(raw, WorkloadOf([key |-> k, rev |-> done'[k].rev]))
    OBVIOUS
  <2>1. PICK c \in items : Reconcile(c)
    BY InductiveNext
  <2>2. c \in Copies /\ done \in [Keys -> [rev : Revs, set : Revs, policy : STRING] \cup {None}]
    BY DEF Inductive, TypeOK, RunType
  <2>3. /\ Selected(c) # Unset /\ k = c.key
        /\ done'[k] = [rev |-> c.rev, set |-> manager, policy |-> Selected(c).name]
    BY <2>1, <2>2 DEF Reconcile
  <2>4. c = [key |-> k, rev |-> done'[k].rev]
    BY <2>2, <2>3 DEF Copies
  <2>5. done'[k].policy = Selected(c).name
    BY <2>3
  <2> QED BY <2>2, <2>3, <2>4, <2>5, SelectedIsAskedFor
<1> QED BY <1>1, Invariance, PTL DEF Spec, OnlyAskedFor
=============================================================================
