---------------------------- MODULE Orchestrator ----------------------------
(***************************************************************************)
(* The orchestrator (internal/controller/orchestrator.go) with the watch   *)
(* streams it reads (workload/gateway.go, workload/hpa.go, policy/watch.go)*)
(* and the policy manager: three supervisors turn watch events into        *)
(* requests, which one loop serves together with the ticker.               *)
(*                                                                         *)
(* An object is its revision: a number that grows with every change, and   *)
(* whether the object is there.  Channels without a buffer are rendezvous  *)
(* of sender and receiver.  Taking an event out of a workload or HPA watch *)
(* changes nothing another process sees, so those forwarders are one with  *)
(* the delivery; the policy forwarder reloads the manager before it sends. *)
(* Transition.Reconcile is one step here: it succeeds or it fails.         *)
(***************************************************************************)
EXTENDS PolicySet, SequencesExt

CONSTANTS
    Supervisors,                \* all three in the code; a run may leave one out
    Deployments, StatefulSets,  \* workload keys of the two kinds
    HPAs,                       \* horizontal pod autoscalers
    HPATarget(_, _),            \* the key a revision of an HPA scales
    Labels(_, _),               \* the labels of a revision of a workload
    Payload(_),                 \* the policy text of a revision of the ConfigMap
    None,
    MaxRev(_)                   \* bound: the last revision of an object

Keys    == Deployments \cup StatefulSets
Objects == Keys \cup HPAs \cup {"policies"}
Revs    == Nat \ {0}

Sources == {"deployments", "statefulsets", "hpas", "policies"}
Feeds(u) == CASE u = "workloads" -> {"deployments", "statefulsets"}
              [] u = "hpa"       -> {"hpas"}
              [] u = "policies"  -> {"policies"}
Members(s) == CASE s = "deployments"  -> Deployments
                [] s = "statefulsets" -> StatefulSets
                [] s = "hpas"         -> HPAs
                [] s = "policies"     -> {"policies"}
Inventory == <<"deployments", "statefulsets">>

ASSUME SupervisorsAssumption == Supervisors \subseteq {"workloads", "hpa", "policies"}
ASSUME ObjectsAssumption ==
    /\ IsFiniteSet(Keys \cup HPAs) /\ "policies" \notin Keys \cup HPAs
    /\ None \notin Int
ASSUME PayloadAssumption ==
    /\ MaxRev("policies") \in Nat \ {0}
    /\ \A r \in 1 .. MaxRev("policies") : Payload(r) \in RawPolicySets \cup {Malformed}

VARIABLES
    rev, there,  \* the cluster: revision of each object, and whether it exists
    watching,    \* per source: the API server sends events
    buffer,      \* per source: events sent and not yet taken
    result,      \* the event the policy forwarder is sending, or None
    manager,     \* revision of the current policy snapshot, or None
    sup,         \* per supervisor: what it does next
    req,         \* per supervisor: the request it is sending, or None
    loop,        \* Run: "batch", "select", "wait" or "returned"
    kinds,       \* Run: the kinds reconcileAll has yet to list
    items,       \* Run: the workload copies it has yet to reconcile
    cancelled,   \* the context of Run is done
    done         \* observer: copy and policy of the last reconcile of each key

cluster == <<rev, there>>
streams == <<watching, buffer, result>>
run     == <<loop, kinds, items>>
vars == <<cluster, streams, manager, sup, req, run, cancelled, done>>

(* Workload copies and reconcileRequest. *)
Copies   == [key : Keys, rev : Revs]
Requests == [full : {TRUE}, workload : {None}] \cup [full : {FALSE}, workload : Copies]
Full     == [full |-> TRUE, workload |-> None]
ASSUME RequestsAssumption == None \notin Requests

CopyOf(o) == [key |-> o, rev |-> rev[o]]

(* The policy set of a revision, and whether Decode accepts its text. *)
Policies(r) == Decode(Payload(r))
Valid(r) == Policies(r) # Rejected

(* Run starts the supervisors and the first full reconciliation; the       *)
(* process has loaded the policy before, or has failed to.                 *)
Init ==
    /\ rev = [o \in Objects |-> 1]
    /\ there \in [Objects -> BOOLEAN]
    /\ watching = [s \in Sources |-> FALSE]
    /\ buffer = [s \in Sources |-> <<>>]
    /\ result = None
    /\ manager \in {None} \cup {r \in {1} : Valid(r)}
    /\ sup = [u \in Supervisors |-> "watch"]
    /\ req = [u \in Supervisors |-> None]
    /\ loop = "batch" /\ kinds = Inventory /\ items = {}
    /\ cancelled = FALSE
    /\ done = [k \in Keys |-> None]

-----------------------------------------------------------------------------
(***************************************************************************)
(* The cluster.                                                            *)
(***************************************************************************)

Event(type, o, r) == [type |-> type, obj |-> o, rev |-> r]

(* Any change of an object; a watch that is up reports it. *)
Change(s, o) ==
    /\ rev[o] < MaxRev(o)
    /\ rev' = [rev EXCEPT ![o] = @ + 1]
    /\ \E present \in BOOLEAN :
          /\ present \/ there[o]
          /\ there' = [there EXCEPT ![o] = present]
          /\ LET e == Event(IF present THEN "set" ELSE "deleted", o, rev[o] + 1)
             IN  buffer' = IF watching[s] THEN [buffer EXCEPT ![s] = Append(@, e)]
                                          ELSE buffer
    /\ UNCHANGED <<watching, result, manager, sup, req, run, cancelled, done>>

(* The connection of a watch ends, or an error event does: what is said    *)
(* after this is lost.                                                     *)
Break(s) ==
    /\ watching[s]
    /\ watching' = [watching EXCEPT ![s] = FALSE]
    /\ buffer' = [buffer EXCEPT ![s] = Append(@, Event("broken", s, 0))]
    /\ UNCHANGED <<cluster, result, manager, sup, req, run, cancelled, done>>

(* A signal, or the loss of leadership. *)
Cancel ==
    /\ ~cancelled
    /\ cancelled' = TRUE
    /\ UNCHANGED <<cluster, streams, manager, sup, req, run, done>>

-----------------------------------------------------------------------------
(***************************************************************************)
(* Supervisors and streams.                                                *)
(***************************************************************************)

Goto(u, next) == sup' = [sup EXCEPT ![u] = next]

(* Watch without a resource version: the API server first reports every    *)
(* object there is.                                                        *)
Open(s) ==
    /\ \E order \in SetToSeqs({o \in Members(s) : there[o]}) :
          buffer' = [buffer EXCEPT ![s] =
                       [i \in DOMAIN order |-> Event("set", order[i], rev[order[i]])]]
    /\ watching' = [watching EXCEPT ![s] = TRUE]
    /\ UNCHANGED <<cluster, result, manager, req, run, cancelled, done>>

(* KubernetesGateway.Watch opens two watches, one after the other. *)
WatchDeployments(u) ==
    /\ u = "workloads" /\ sup[u] = "watch" /\ ~cancelled
    /\ Open("deployments") /\ Goto(u, "watchStatefulSets")

WatchStatefulSets(u) ==
    /\ u = "workloads" /\ sup[u] = "watchStatefulSets" /\ ~cancelled
    /\ Open("statefulsets") /\ Goto(u, "receive")

WatchHPAs(u) ==
    /\ u = "hpa" /\ sup[u] = "watch" /\ ~cancelled
    /\ Open("hpas") /\ Goto(u, "receive")

WatchPolicies(u) ==
    /\ u = "policies" /\ sup[u] = "watch" /\ ~cancelled
    /\ Open("policies") /\ Goto(u, "receive")

(* stream.Stop *)
Stop(u) ==
    /\ watching' = [s \in Sources |-> s \notin Feeds(u) /\ watching[s]]
    /\ buffer' = [s \in Sources |-> IF s \in Feeds(u) THEN <<>> ELSE buffer[s]]
    /\ result' = IF u = "policies" THEN None ELSE result

(* Slip: an error or a disconnect is reported and nothing else. *)
DisconnectOnlyReported(u) ==
    /\ buffer' = [s \in Sources |-> IF s \in Feeds(u) THEN <<>> ELSE buffer[s]]
    /\ result' = IF u = "policies" THEN None ELSE result
    /\ UNCHANGED <<watching, sup, req>>

(* After an error or a disconnect the stream is stopped and, after a       *)
(* delay, replaced.                                                        *)
Disconnect(u) == Stop(u) /\ Goto(u, "retry") /\ UNCHANGED req

(* An error ends the attempt; the watch on Deployments, if it is the one   *)
(* on StatefulSets that failed, is stopped again.                          *)
WatchFails(u) ==
    /\ sup[u] \in {"watch", "watchStatefulSets"} /\ ~cancelled
    /\ Disconnect(u)
    /\ UNCHANGED <<cluster, manager, run, cancelled, done>>

SendRequest(u, request) == Goto(u, "send") /\ req' = [req EXCEPT ![u] = request]

(* A forwarder takes the next event of its watch and passes it on. *)
Forward(s, e) ==
    /\ buffer[s] # <<>> /\ e = Head(buffer[s])
    /\ buffer' = [buffer EXCEPT ![s] = Tail(@)]
    /\ UNCHANGED <<watching, result>>

(* superviseWorkloads: a changed workload is reconciled as the event shows *)
(* it; a deletion asks for all.                                            *)
ReceiveWorkload(u, s) ==
    /\ u = "workloads" /\ sup[u] = "receive" /\ buffer[s] # <<>>
    /\ LET e == Head(buffer[s])
       IN  \/ e.type = "broken" /\ Disconnect(u)
           \/ /\ e.type = "set" /\ Forward(s, e)
              /\ SendRequest(u, [full |-> FALSE, workload |-> [key |-> e.obj, rev |-> e.rev]])
           \/ e.type = "deleted" /\ Forward(s, e) /\ SendRequest(u, Full)
    /\ UNCHANGED <<cluster, manager, run, cancelled, done>>

(* superviseHPA: every event asks for all, as an HPA may change its target. *)
ReceiveHPA(u) ==
    /\ u = "hpa" /\ sup[u] = "receive" /\ buffer["hpas"] # <<>>
    /\ LET e == Head(buffer["hpas"])
       IN  \/ e.type = "broken" /\ Disconnect(u)
           \/ e.type # "broken" /\ Forward("hpas", e) /\ SendRequest(u, Full)
    /\ UNCHANGED <<cluster, manager, run, cancelled, done>>

(* Slip: the manager takes the payload before it is known to be valid. *)
ConvertUnchecked ==
    /\ result = None /\ buffer["policies"] # <<>>
    /\ LET e == Head(buffer["policies"])
       IN  /\ manager' = IF e.type = "set" THEN e.rev ELSE manager
           /\ result' = IF e.type # "set" THEN e.type
                        ELSE IF Valid(e.rev) THEN "reloaded" ELSE "rejected"
    /\ buffer' = [buffer EXCEPT !["policies"] = Tail(@)]
    /\ UNCHANGED <<cluster, watching, sup, req, run, cancelled, done>>

(* The policy forwarder: a valid payload replaces the snapshot, anything   *)
(* else leaves it alone.                                                   *)
Convert ==
    /\ result = None /\ buffer["policies"] # <<>>
    /\ LET e == Head(buffer["policies"])
           reloads == e.type = "set" /\ Valid(e.rev)
       IN  /\ manager' = IF reloads THEN e.rev ELSE manager
           /\ result' = IF e.type # "set" THEN e.type
                        ELSE IF reloads THEN "reloaded" ELSE "rejected"
    /\ buffer' = [buffer EXCEPT !["policies"] = Tail(@)]
    /\ UNCHANGED <<cluster, watching, sup, req, run, cancelled, done>>

(* supervisePolicies *)
ReceivePolicy ==
    /\ "policies" \in Supervisors /\ sup["policies"] = "receive" /\ result # None
    /\ \/ result = "broken" /\ Disconnect("policies")
       \/ /\ result \in {"reloaded", "deleted"}
          /\ SendRequest("policies", Full)
          /\ result' = None /\ UNCHANGED <<watching, buffer>>
       \/ /\ result = "rejected"
          /\ result' = None /\ UNCHANGED <<watching, buffer, sup, req>>
    /\ UNCHANGED <<cluster, manager, run, cancelled, done>>

Retry(u) ==
    /\ sup[u] = "retry" /\ ~cancelled
    /\ Goto(u, "watch")
    /\ UNCHANGED <<cluster, streams, manager, req, run, cancelled, done>>

(* Slip: a supervisor that is sending does not look at its context. *)
LeaveUnlessSending(u) ==
    /\ cancelled /\ sup[u] \notin {"done", "send"}
    /\ Stop(u) /\ Goto(u, "done")
    /\ req' = [req EXCEPT ![u] = None]
    /\ UNCHANGED <<cluster, manager, run, cancelled, done>>

(* Wherever a supervisor waits it also waits for its context. *)
Leave(u) ==
    /\ cancelled /\ sup[u] # "done"
    /\ Stop(u) /\ Goto(u, "done")
    /\ req' = [req EXCEPT ![u] = None]
    /\ UNCHANGED <<cluster, manager, run, cancelled, done>>

-----------------------------------------------------------------------------
(***************************************************************************)
(* Run.                                                                    *)
(***************************************************************************)

Batch == loop' = "batch" /\ kinds' = Inventory /\ items' = {}

Tick ==
    /\ loop = "select"
    /\ Batch
    /\ UNCHANGED <<cluster, streams, manager, sup, req, cancelled, done>>

(* Slip: a request for all is taken for a workload. *)
ServeAsWorkload(u) ==
    /\ loop = "select" /\ sup[u] = "send"
    /\ loop' = "batch" /\ kinds' = <<>> /\ items' = {req[u].workload}
    /\ Goto(u, "receive") /\ req' = [req EXCEPT ![u] = None]
    /\ UNCHANGED <<cluster, streams, manager, cancelled, done>>

Serve(u) ==
    /\ loop = "select" /\ sup[u] = "send"
    /\ IF req[u].full THEN Batch
       ELSE loop' = "batch" /\ kinds' = <<>> /\ items' = {req[u].workload}
    /\ Goto(u, "receive") /\ req' = [req EXCEPT ![u] = None]
    /\ UNCHANGED <<cluster, streams, manager, cancelled, done>>

(* reconcileAll lists one kind. *)
List ==
    /\ loop = "batch" /\ items = {} /\ kinds # <<>> /\ ~cancelled
    /\ items' = {CopyOf(k) : k \in {j \in Members(Head(kinds)) : there[j]}}
    /\ kinds' = Tail(kinds)
    /\ UNCHANGED <<cluster, streams, manager, sup, req, loop, cancelled, done>>

(* An error of one kind does not keep the other kind from being listed. *)
ListFails ==
    /\ loop = "batch" /\ items = {} /\ kinds # <<>>
    /\ kinds' = Tail(kinds)
    /\ UNCHANGED <<cluster, streams, manager, sup, req, loop, items, cancelled, done>>

(* What policy.Match sees of a copy. *)
WorkloadOf(c) ==
    [kind   |-> IF c.key \in Deployments THEN "Deployment" ELSE "StatefulSet",
     name   |-> c.key,
     labels |-> Labels(c.key, c.rev)]

(* The policy of a copy under the current snapshot. *)
Selected(c) == IF manager = None THEN Unset ELSE Match(Policies(manager), WorkloadOf(c))

hpaTargetsWorkload(h, k) == HPATarget(h, rev[h]) = k

(* HPAEvaluation: any autoscaler of the workload rejects the reconcile. *)
Evaluate(k) == ~\E h \in HPAs : there[h] /\ hpaTargetsWorkload(h, k)

(* reconcileOne under the snapshot that is current at this moment. *)
Reconcile(c) ==
    /\ loop = "batch" /\ c \in items /\ ~cancelled
    /\ items' = items \ {c}
    /\ done' = IF Selected(c) # Unset /\ Evaluate(c.key)
               THEN [done EXCEPT ![c.key] =
                       [rev |-> c.rev, set |-> manager, policy |-> Selected(c).name]]
               ELSE done
    /\ UNCHANGED <<cluster, streams, manager, sup, req, loop, kinds, cancelled>>

(* A failure affects that workload only. *)
ReconcileFails(c) ==
    /\ loop = "batch" /\ c \in items
    /\ items' = items \ {c}
    /\ UNCHANGED <<cluster, streams, manager, sup, req, loop, kinds, cancelled, done>>

(* The batch is through, or the context is found done between two items. *)
EndBatch ==
    /\ loop = "batch"
    /\ \/ items = {} /\ kinds = <<>>
       \/ items # {} /\ cancelled
    /\ loop' = "select" /\ kinds' = <<>> /\ items' = {}
    /\ UNCHANGED <<cluster, streams, manager, sup, req, cancelled, done>>

(* The deferred cancel and Wait. *)
Finish ==
    /\ loop = "select" /\ cancelled
    /\ loop' = "wait"
    /\ UNCHANGED <<cluster, streams, manager, sup, req, kinds, items, cancelled, done>>

Return ==
    /\ loop = "wait" /\ \A u \in Supervisors : sup[u] = "done"
    /\ loop' = "returned"
    /\ UNCHANGED <<cluster, streams, manager, sup, req, kinds, items, cancelled, done>>

-----------------------------------------------------------------------------

Failure ==
    \/ \E s \in Sources : Break(s)
    \/ \E u \in Supervisors : WatchFails(u)
    \/ ListFails
    \/ \E c \in items : ReconcileFails(c)

Watch(u) == WatchDeployments(u) \/ WatchStatefulSets(u) \/ WatchHPAs(u) \/ WatchPolicies(u)

Receive(u) == ReceiveHPA(u) \/ \E s \in {"deployments", "statefulsets"} : ReceiveWorkload(u, s)

Supervise(u) == Watch(u) \/ Receive(u) \/ Retry(u) \/ Leave(u)

Work == List \/ (\E c \in items : Reconcile(c)) \/ EndBatch \/ Return

Next ==
    \/ \E s \in Sources : \E o \in Members(s) : Change(s, o)
    \/ Cancel
    \/ Failure
    \/ \E u \in Supervisors : Supervise(u) \/ Serve(u)
    \/ Convert \/ ReceivePolicy
    \/ Work \/ Tick \/ Finish

Spec == Init /\ [][Next]_vars

(***************************************************************************)
(* Every goroutine that can go on does; a select that meets a branch ready *)
(* again and again takes it at last, as Go chooses among ready branches at *)
(* random.  Errors end at some time, except those a cancelled context      *)
(* causes; a failure with the outcome of a success is none.                *)
(***************************************************************************)
Fairness ==
    /\ \A u \in Supervisors : WF_vars(Supervise(u)) /\ SF_vars(Serve(u))
    /\ WF_vars(Convert) /\ WF_vars(ReceivePolicy)
    /\ WF_vars(Work) /\ WF_vars(cancelled /\ (ListFails \/ EndBatch))
    /\ SF_vars(Tick) /\ SF_vars(Finish)
    /\ <>[][Failure => cancelled \/ Work]_vars

FairSpec == Spec /\ Fairness

(* For the shutdown it is enough that goroutines look at their context: no *)
(* assumption about events, calls and errors.                              *)
ShutdownFairness ==
    /\ \A u \in Supervisors : WF_vars(Leave(u))
    /\ WF_vars(cancelled /\ (ListFails \/ EndBatch)) /\ WF_vars(Return)
    /\ SF_vars(Finish)

ShutdownSpec == Spec /\ ShutdownFairness

Events == [type : {"set", "deleted", "broken"}, obj : Objects \cup Sources, rev : Nat]

ClusterType == rev \in [Objects -> Revs] /\ there \in [Objects -> BOOLEAN]

StreamsType ==
    /\ watching \in [Sources -> BOOLEAN]
    /\ buffer \in [Sources -> Seq(Events)]
    /\ result \in {None, "reloaded", "rejected", "deleted", "broken"}
    /\ manager \in Revs \cup {None}

SupervisorsType ==
    /\ sup \in [Supervisors -> {"watch", "watchStatefulSets", "receive", "send", "retry", "done"}]
    /\ req \in [Supervisors -> Requests \cup {None}]
    /\ \A u \in Supervisors : sup[u] = "send" <=> req[u] # None

RunType ==
    /\ loop \in {"batch", "select", "wait", "returned"}
    /\ kinds \in {Inventory, Tail(Inventory), <<>>} /\ items \subseteq Copies
    /\ cancelled \in BOOLEAN
    /\ done \in [Keys -> [rev : Revs, set : Revs, policy : STRING] \cup {None}]

(* Every variable has its type, a supervisor that sends has a request, and *)
(* the loop reconciles workloads.                                          *)
TypeOK == ClusterType /\ StreamsType /\ SupervisorsType /\ RunType

-----------------------------------------------------------------------------

(* The policy snapshot is only ever replaced by a valid payload, and never *)
(* by an older one, also across watch restarts: an invalid update, a       *)
(* deletion and a broken watch keep it (convert, Reload).                  *)
PolicyOnlyAdvances == [][manager' # manager =>
    /\ Valid(manager')
    /\ manager = None \/ manager' > manager]_vars

(* A cancelled Run returns, whatever its supervisors, the loop and the     *)
(* streams were waiting for (sendRequest, Run's deferred Wait).            *)
RunReturns == cancelled ~> loop = "returned"

(* Whatever texts the ConfigMap went through, the snapshot in use has only *)
(* policies with which a reconcile cannot fail half way, under distinct    *)
(* names, and one that deletes workloads says so in the text (Reload,      *)
(* compilePolicySet).                                                      *)
SnapshotIsSound == manager # None => Sound(Payload(manager), Policies(manager))

(* The text of a policy asks for workload w: its kind is listed, and its   *)
(* labels meet all of at least one requirement or a pattern is its name.   *)
AsksFor(raw, w) ==
    /\ w.kind \in Range(raw.target.kinds)
    /\ \/ /\ Elements(raw.target.selector) # {}
          /\ \A r \in Elements(raw.target.selector) : Satisfies(w.labels, r)
       \/ \E pattern \in Elements(raw.target.namePatterns) : FullMatch(pattern, w.name)

(* No workload is ever reconciled, from a list or from a stale copy, under *)
(* a policy whose text does not ask for it: an omitted or empty selector   *)
(* asks for none (reconcileOne, Match, selectorMatches).                   *)
OnlyAskedFor == [][\A k \in Keys : done'[k] # done[k] =>
    \E raw \in Range(Payload(manager).policies) :
       /\ raw.name = done'[k].policy
       /\ AsksFor(raw, WorkloadOf([key |-> k, rev |-> done'[k].rev]))]_vars

Settled == \A k \in Keys :
    (* the ConfigMap holds a valid payload with one policy for k *)
    /\ there["policies"] /\ Valid(rev["policies"])
    /\ Match(Policies(rev["policies"]), WorkloadOf(CopyOf(k))) # Unset
    /\ there[k] /\ Evaluate(k)
    => done[k] = [rev |-> rev[k], set |-> rev["policies"],
                  policy |-> Match(Policies(rev["policies"]), WorkloadOf(CopyOf(k))).name]

(* When the cluster stops changing, the last reconcile of every managed    *)
(* workload saw its last revision and used the last policies: events lost  *)
(* with a watch, stale copies in the queue and failed reconciles are made  *)
(* good (supervisors, ticker, reconcileAll).                               *)
Converges == (<>[]~cancelled) => <>[]Settled
=============================================================================
