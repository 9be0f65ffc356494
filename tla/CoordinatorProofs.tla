-------------------------- MODULE CoordinatorProofs --------------------------
(***************************************************************************)
(* Proofs about Coordinator, for any number of replicas and rivals.  What  *)
(* is proved of a process depends on that process only, so the inductive   *)
(* invariant is a condition on one process that holds of all of them.      *)
(***************************************************************************)
EXTENDS Coordinator, TLAPS

-----------------------------------------------------------------------------
(***************************************************************************)
(* The inductive invariant.                                                *)
(***************************************************************************)

Mains == {"select", "stop", "unready", "waitElection", "waitController",
          "waitServer", "waitShutdown", "returned", "down"}
Receipts == {None, "controller", "election", "server"}
Results == SUBSET {"leadership lost", "controller", "election", "server",
                   "timeout", "shutdown"}
Electors == {"acquire", "lead", "release", "released", "stopped", "unready",
             "returned", "down"}
Elections == {None, "error", "nil", "lost"}
Starters == {"none", "spawned", "checked", "marked", "entering", "running",
             "ended", "returned"}
Servers == {"serving", "returned", "down"}
Shutdowns == {"none", "running", "ok", "error"}
Loads == SUBSET Parts
Causes == SUBSET {"election", "renewal", "controller", "server"}

Processes == [
    main      : Mains,
    got       : Receipts,
    result    : Results,
    signalled : BOOLEAN, stopping : BOOLEAN, expired : BOOLEAN,
    lost      : BOOLEAN, started : BOOLEAN,
    elector   : Electors,
    election  : Elections,
    starter   : Starters,
    server    : Servers,
    shutdown  : Shutdowns,
    on        : BOOLEAN,
    loaded    : Loads,
    causes    : Causes,
    overtaken : BOOLEAN]

Stopped(p) == p.signalled \/ p.stopping

(* How far Run is: runCtx is cancelled by the shutdown, which also calls   *)
(* the server's; Run leaves its select without an error on a signal only.  *)
MainInOrder(p) ==
    /\ p.stopping => p.main \notin {"select", "stop"}
    /\ p.main \in {"select", "stop", "unready"} => p.shutdown = "none"
    /\ p.main = "select" => p.result = {} /\ p.got = None
    /\ p.main \notin {"select", "down"} /\ p.result = {} => p.signalled

(* An election that ends while the process is to go on has lost the Lease, *)
(* or has never begun, and then nothing was started.                       *)
ElectionInOrder(p) ==
    /\ p.elector \in {"release", "released", "stopped", "unready"} /\ ~Stopped(p)
         => "renewal" \in p.causes
    /\ p.elector = "returned" => p.election \in {"error", "nil", "lost"}
    /\ p.elector # "returned" => p.election = None
    /\ p.election = "nil" /\ p.elector = "returned" => Stopped(p)
    /\ p.election = "lost" /\ p.elector = "returned" => "renewal" \in p.causes
    /\ p.election = "error" /\ p.elector = "returned" =>
         "election" \in p.causes /\ p.starter = "none"
    /\ p.elector \in {"acquire", "down"} => p.starter = "none"
    /\ p.lost => "renewal" \in p.causes

(* A controller that ends while the process is to go on has failed, or has *)
(* been stopped because the Lease is lost, which is then on record.        *)
StarterInOrder(p) ==
    /\ p.started <=> p.starter \in {"marked", "entering", "running", "ended", "returned"}
    /\ p.on => p.starter \in {"entering", "running"}
    /\ p.starter = "ended" /\ ~Stopped(p) =>
         "controller" \in p.causes \/ p.elector \in {"stopped", "unready", "returned"}
    /\ p.starter = "returned" /\ ~Stopped(p) => "controller" \in p.causes \/ p.lost
    /\ p.got = "controller" => p.starter = "returned"

(* A server that ends before it is told to has failed. *)
ServerInOrder(p) ==
    p.server = "returned" /\ p.shutdown = "none" => "server" \in p.causes

(* What Run will return has happened. *)
ResultIsCause(p) ==
    /\ "leadership lost" \in p.result => "renewal" \in p.causes
    /\ \A part \in {"controller", "election", "server"} :
          part \in p.result => part \in p.causes

(* Run is past its wait for the controller. *)
ControllerAwaited(p) ==
    /\ p.main \in {"waitServer", "waitShutdown", "returned"}
    /\ "timeout" \notin p.result /\ ~p.overtaken
    => p.starter \in {"none", "spawned", "returned"}

(* Once the shutdown has begun the context stays cancelled. *)
WaitsInShutdown(p) == p.main \notin {"select", "stop", "down"} => p.stopping

Good(p) ==
    /\ p \in Processes
    /\ MainInOrder(p) /\ ElectionInOrder(p) /\ StarterInOrder(p) /\ ServerInOrder(p)
    /\ ResultIsCause(p) /\ ControllerAwaited(p) /\ WaitsInShutdown(p)

Inductive ==
    /\ proc \in [Replicas -> Processes]
    /\ \A r \in Replicas : Good(proc[r])

-----------------------------------------------------------------------------

(* A step of one process leaves the others alone. *)
LEMMA OneProcess ==
    ASSUME Inductive, NEW r \in Replicas, Good(proc'[r]),
           proc' = [proc EXCEPT ![r] = proc'[r]]
    PROVE  Inductive'
  BY DEF Inductive, Good

(* A process that main has just started, and one that is down. *)
LEMMA StartedGood ==
    ASSUME NEW loads \in SUBSET Parts
    PROVE  Good(Started(loads)) /\ Good(Down)
  BY ReplicasAssumption
     DEF Good, Started, Down, Processes, Mains, Receipts, Results, Electors, Elections,
         Starters, Servers, Shutdowns, Loads, Causes, MainInOrder, ElectionInOrder,
         StarterInOrder, ServerInOrder, ResultIsCause, ControllerAwaited,
         WaitsInShutdown, Stopped, Parts

(* A process has the fields of Started. *)
Fields == {"main", "got", "result", "signalled", "stopping", "expired", "lost",
           "started", "elector", "election", "starter", "server", "shutdown",
           "on", "loaded", "causes", "overtaken"}

(* The fields of a process. *)
LEMMA ProcessFields ==
    ASSUME NEW p \in Processes
    PROVE  DOMAIN p = Fields
  BY DEF Processes, Fields

(* What the invariant says of one process. *)
LEMMA ProcessFacts ==
    ASSUME Inductive, NEW r \in Replicas
    PROVE  r \in DOMAIN proc /\ proc[r] \in Processes /\ Good(proc[r])
  BY DEF Inductive

(* The elector moves on, notes a loss or a failure, and spawns at most the *)
(* callback; nothing that Run has decided changes.                         *)
LEMMA ElectorGood ==
    ASSUME Inductive, NEW r \in Replicas,
           ElectorFails(r) \/ Acquire(r) \/ RenewFails(r) \/ Elector(r)
    PROVE  Inductive'
<1> DEFINE p == proc[r]
           q == proc'[r]
<1>1. r \in DOMAIN proc /\ p \in Processes
  BY ProcessFacts
<1>2. DOMAIN p = Fields
  BY <1>1, ProcessFields
<1>3. q \in Processes
  <2>1. CASE ElectorFails(r)
    BY <1>1, <2>1 DEF ElectorFails, Processes, Electors, Elections, Causes
  <2>2. CASE Acquire(r)
    BY <1>1, <2>2 DEF Acquire, Processes, Electors, Starters
  <2>3. CASE RenewFails(r)
    BY <1>1, <2>3 DEF RenewFails, Processes, Electors, Causes
  <2>4. CASE proc' = [proc EXCEPT ![r].elector = "stopped"]
    BY <1>1, <2>4 DEF Processes, Electors
  <2>5. CASE proc' = [proc EXCEPT ![r].elector = "release"]
    BY <1>1, <2>5 DEF Processes, Electors
  <2>6. CASE Release(r)
    BY <1>1, <2>6 DEF Release, Processes, Electors
  <2>7. CASE StoppedLeading(r)
    BY <1>1, <2>7 DEF StoppedLeading, Processes, Electors
  <2>8. CASE ReturnElection(r)
    BY <1>1, <2>8 DEF ReturnElection, Processes, Electors, Elections
  <2> QED BY <2>1, <2>2, <2>3, <2>4, <2>5, <2>6, <2>7, <2>8
          DEF Elector, StopElecting, CancelLeader
<1>4. /\ proc' = [proc EXCEPT ![r] = q]
      /\ q.main = p.main /\ q.got = p.got /\ q.result = p.result
      /\ q.signalled = p.signalled /\ q.stopping = p.stopping
      /\ q.started = p.started /\ q.server = p.server /\ q.shutdown = p.shutdown
      /\ q.overtaken = p.overtaken /\ p.causes \subseteq q.causes
  BY <1>1, <1>2 DEF ElectorFails, Acquire, RenewFails, Elector, StopElecting, Release,
       CancelLeader, StoppedLeading, ReturnElection, Fields
<1>5. MainInOrder(q) /\ WaitsInShutdown(q)
  BY <1>4, ProcessFacts DEF Good, MainInOrder, WaitsInShutdown
<1>6. ServerInOrder(q) /\ ResultIsCause(q)
  BY <1>4, ProcessFacts DEF Good, ServerInOrder, ResultIsCause
<1>7. q.starter = p.starter \/ (p.starter = "none" /\ q.starter = "spawned")
  BY <1>1, <1>2, ProcessFacts
     DEF ElectorFails, Acquire, RenewFails, Elector, StopElecting, Release,
       CancelLeader, StoppedLeading, ReturnElection, Fields, Good, ElectionInOrder
<1>8. ControllerAwaited(q)
  BY <1>4, <1>7, ProcessFacts DEF Good, ControllerAwaited
<1>9. ElectionInOrder(p) /\ StarterInOrder(p)
  BY ProcessFacts DEF Good
<1>10. ElectionInOrder(q)
  <2> USE DEF ElectionInOrder, Stopped, Fields
  <2>1. CASE ElectorFails(r)
    BY <1>1, <1>2, <1>9, <2>1 DEF ElectorFails
  <2>2. CASE Acquire(r)
    BY <1>1, <1>2, <1>9, <2>2 DEF Acquire
  <2>3. CASE RenewFails(r)
    BY <1>1, <1>2, <1>9, <2>3 DEF RenewFails
  <2>4. CASE StopElecting(r)
    BY <1>1, <1>2, <1>9, <2>4 DEF StopElecting, RunDone
  <2>5. CASE Release(r)
    BY <1>1, <1>2, <1>9, <2>5 DEF Release
  <2>6. CASE CancelLeader(r)
    BY <1>1, <1>2, <1>9, <2>6 DEF CancelLeader
  <2>7. CASE StoppedLeading(r)
    BY <1>1, <1>2, <1>9, <2>7 DEF StoppedLeading
  <2>8. CASE ReturnElection(r)
    BY <1>1, <1>2, <1>9, <2>8 DEF ReturnElection, RunDone
  <2> QED BY <2>1, <2>2, <2>3, <2>4, <2>5, <2>6, <2>7, <2>8 DEF Elector
<1>11. StarterInOrder(q)
  <2> USE DEF ElectionInOrder, StarterInOrder, Stopped, Fields
  <2>1. CASE ElectorFails(r)
    BY <1>1, <1>2, <1>9, <2>1 DEF ElectorFails
  <2>2. CASE Acquire(r)
    BY <1>1, <1>2, <1>9, <2>2 DEF Acquire
  <2>3. CASE RenewFails(r)
    BY <1>1, <1>2, <1>9, <2>3 DEF RenewFails
  <2>4. CASE StopElecting(r)
    BY <1>1, <1>2, <1>9, <2>4 DEF StopElecting
  <2>5. CASE Release(r)
    BY <1>1, <1>2, <1>9, <2>5 DEF Release
  <2>6. CASE CancelLeader(r)
    BY <1>1, <1>2, <1>9, <2>6 DEF CancelLeader
  <2>7. CASE StoppedLeading(r)
    BY <1>1, <1>2, <1>9, <2>7 DEF StoppedLeading
  <2>8. CASE ReturnElection(r)
    BY <1>1, <1>2, <1>9, <2>8 DEF ReturnElection
  <2> QED BY <2>1, <2>2, <2>3, <2>4, <2>5, <2>6, <2>7, <2>8 DEF Elector
<1> QED BY <1>3, <1>4, <1>5, <1>6, <1>8, <1>10, <1>11, OneProcess DEF Good

(* The callback and the controller do not touch Run, the elector and the   *)
(* server.  Where Run no longer waits they only go back to the start.      *)
LEMMA StarterGood ==
    ASSUME Inductive, NEW r \in Replicas,
           \/ Starter(r) \/ ReloadPolicy(r) \/ ObserveReconcile(r)
           \/ ControllerStopped(r) \/ ControllerFails(r)
    PROVE  Inductive'
<1> DEFINE p == proc[r]
           q == proc'[r]
<1>1. r \in DOMAIN proc /\ p \in Processes
  BY ProcessFacts
<1>2. DOMAIN p = Fields
  BY <1>1, ProcessFields
<1>3. q \in Processes
  <2>1. CASE StartLeading(r)
    BY <1>1, <2>1 DEF StartLeading, Processes, Starters
  <2>2. CASE MarkStarted(r)
    BY <1>1, <2>2 DEF MarkStarted, Processes, Starters
  <2>3. CASE SetReady(r)
    BY <1>1, <2>3 DEF SetReady, Processes, Starters
  <2>4. CASE ControllerStarted(r)
    BY <1>1, <2>4 DEF ControllerStarted, Processes, Starters, Loads, Parts
  <2>5. CASE ReloadPolicy(r)
    BY <1>1, <2>5 DEF ReloadPolicy, Processes, Loads, Parts
  <2>6. CASE ObserveReconcile(r)
    BY <1>1, <2>6 DEF ObserveReconcile, Processes, Loads, Parts
  <2>7. CASE ControllerStopped(r)
    BY <1>1, <2>7 DEF ControllerStopped, Processes, Starters, Causes
  <2>8. CASE ControllerFails(r)
    BY <1>1, <2>8 DEF ControllerFails, Processes, Starters, Causes
  <2>9. CASE ReportController(r)
    BY <1>1, <2>9 DEF ReportController, Processes, Starters
  <2> QED BY <2>1, <2>2, <2>3, <2>4, <2>5, <2>6, <2>7, <2>8, <2>9 DEF Starter
<1>4. /\ proc' = [proc EXCEPT ![r] = q]
      /\ q.main = p.main /\ q.got = p.got /\ q.result = p.result
      /\ q.signalled = p.signalled /\ q.stopping = p.stopping
      /\ q.server = p.server /\ q.shutdown = p.shutdown
      /\ q.elector = p.elector /\ q.election = p.election
      /\ q.overtaken = p.overtaken /\ p.causes \subseteq q.causes
  BY <1>1, <1>2 DEF Starter, StartLeading, MarkStarted, SetReady, ControllerStarted,
       ReloadPolicy, ObserveReconcile, ControllerStopped, ControllerFails,
       ReportController, Fields
<1>5. MainInOrder(q) /\ WaitsInShutdown(q)
  BY <1>4, ProcessFacts DEF Good, MainInOrder, WaitsInShutdown
<1>6. ServerInOrder(q) /\ ResultIsCause(q)
  BY <1>4, ProcessFacts DEF Good, ServerInOrder, ResultIsCause
<1>7. ElectionInOrder(p) /\ StarterInOrder(p) /\ ControllerAwaited(p) /\ WaitsInShutdown(p)
  BY ProcessFacts DEF Good
<1>8. /\ p.starter # "none"
      /\ q.starter # p.starter => \/ p.starter = "spawned" /\ q.starter = "none"
                                  \/ p.starter = "spawned" /\ ~RunDone(r)
                                  \/ p.starter \notin {"spawned", "returned"}
  BY <1>1, <1>2 DEF Starter, StartLeading, MarkStarted, SetReady, ControllerStarted,
       ReloadPolicy, ObserveReconcile, ControllerStopped, ControllerFails,
       ReportController, Running, Fields
<1>9. ControllerAwaited(q)
  BY <1>4, <1>7, <1>8 DEF ControllerAwaited, WaitsInShutdown, RunDone
<1>10. ElectionInOrder(q)
  <2>1. q.lost => p.lost \/ (LeaderDone(r) /\ ~RunDone(r))
    BY <1>1, <1>2 DEF Starter, StartLeading, MarkStarted, SetReady, ControllerStarted,
         ReloadPolicy, ObserveReconcile, ControllerStopped, ControllerFails,
         ReportController, Fields
  <2> QED BY <1>4, <1>7, <1>8, <2>1 DEF ElectionInOrder, Stopped, LeaderDone, RunDone
<1>11. StarterInOrder(q)
  <2> USE DEF StarterInOrder, Stopped, RunDone, Fields
  <2>1. CASE StartLeading(r)
    BY <1>1, <1>2, <1>7, <2>1 DEF StartLeading
  <2>2. CASE MarkStarted(r)
    BY <1>1, <1>2, <1>7, <2>2 DEF MarkStarted
  <2>3. CASE SetReady(r)
    BY <1>1, <1>2, <1>7, <2>3 DEF SetReady
  <2>4. CASE ControllerStarted(r)
    BY <1>1, <1>2, <1>7, <2>4 DEF ControllerStarted
  <2>5. CASE ReloadPolicy(r)
    BY <1>1, <1>2, <1>7, <2>5 DEF ReloadPolicy
  <2>6. CASE ObserveReconcile(r)
    BY <1>1, <1>2, <1>7, <2>6 DEF ObserveReconcile
  <2>7. CASE ControllerStopped(r)
    BY <1>1, <1>2, <1>7, <2>7 DEF ControllerStopped, Running, LeaderDone
  <2>8. CASE ControllerFails(r)
    BY <1>1, <1>2, <1>7, <2>8 DEF ControllerFails, Running
  <2>9. CASE ReportController(r)
    BY <1>1, <1>2, <1>7, <2>9 DEF ReportController, LeaderDone
  <2> QED BY <2>1, <2>2, <2>3, <2>4, <2>5, <2>6, <2>7, <2>8, <2>9 DEF Starter
<1> QED BY <1>3, <1>4, <1>5, <1>6, <1>9, <1>10, <1>11, OneProcess DEF Good

(* The server, its shutdown and a signal. *)
LEMMA ServerGood ==
    ASSUME Inductive, NEW r \in Replicas,
           \/ ServerFails(r) \/ ServerCloses(r) \/ ShutdownReturns(r)
           \/ ShutdownTimeout(r) \/ Signal(r)
    PROVE  Inductive'
<1> DEFINE p == proc[r]
           q == proc'[r]
<1>1. r \in DOMAIN proc /\ p \in Processes
  BY ProcessFacts
<1>2. DOMAIN p = Fields
  BY <1>1, ProcessFields
<1>3. q \in Processes
  <2>1. CASE ServerFails(r)
    BY <1>1, <2>1 DEF ServerFails, Processes, Servers, Causes
  <2>2. CASE ServerCloses(r)
    BY <1>1, <2>2 DEF ServerCloses, Processes, Servers
  <2>3. CASE ShutdownReturns(r)
    <3>1. CASE proc' = [proc EXCEPT ![r].shutdown = "ok"]
      BY <1>1, <3>1 DEF Processes, Shutdowns
    <3>2. CASE proc' = [proc EXCEPT ![r].shutdown = "error"]
      <4>1. q = [p EXCEPT !.shutdown = "error"]
        BY <1>1, <3>2
      <4> QED BY <1>1, <4>1 DEF Processes, Shutdowns
    <3> QED BY <2>3, <3>1, <3>2 DEF ShutdownReturns
  <2>4. CASE ShutdownTimeout(r)
    BY <1>1, <2>4 DEF ShutdownTimeout, Processes
  <2>5. CASE Signal(r)
    BY <1>1, <2>5 DEF Signal, Processes
  <2> QED BY <2>1, <2>2, <2>3, <2>4, <2>5
<1>4. /\ proc' = [proc EXCEPT ![r] = q]
      /\ q.main = p.main /\ q.got = p.got /\ q.result = p.result
      /\ q.signalled = p.signalled \/ q.signalled = TRUE
      /\ q.stopping = p.stopping /\ q.lost = p.lost /\ q.on = p.on
      /\ q.elector = p.elector /\ q.election = p.election
      /\ q.starter = p.starter /\ q.started = p.started
      /\ q.shutdown = p.shutdown \/ (p.shutdown # "none" /\ q.shutdown # "none")
      /\ q.overtaken = p.overtaken /\ p.causes \subseteq q.causes
      /\ q.server = p.server \/ p.shutdown # "none" \/ "server" \in q.causes
  <2> USE DEF Fields
  <2>1. CASE ServerFails(r)
    BY <1>1, <1>2, <2>1 DEF ServerFails
  <2>2. CASE ServerCloses(r)
    BY <1>1, <1>2, <2>2 DEF ServerCloses
  <2>3. CASE ShutdownReturns(r)
    BY <1>1, <1>2, <2>3 DEF ShutdownReturns
  <2>4. CASE ShutdownTimeout(r) \/ Signal(r)
    BY <1>1, <1>2, <2>4 DEF ShutdownTimeout, Signal
  <2> QED BY <2>1, <2>2, <2>3, <2>4
<1>5. MainInOrder(q) /\ WaitsInShutdown(q)
  BY <1>4, ProcessFacts DEF Good, MainInOrder, WaitsInShutdown
<1>6. ServerInOrder(q) /\ ResultIsCause(q) /\ ControllerAwaited(q)
  BY <1>4, ProcessFacts DEF Good, ServerInOrder, ResultIsCause, ControllerAwaited
<1>7. ElectionInOrder(q)
  BY <1>4, ProcessFacts DEF Good, ElectionInOrder, Stopped
<1>8. StarterInOrder(q)
  BY <1>4, ProcessFacts DEF Good, StarterInOrder, Stopped
<1> QED BY <1>3, <1>4, <1>5, <1>6, <1>7, <1>8, OneProcess DEF Good

(* The result a branch of the select received, and the errors it blames on *)
(* it, are what has happened.                                              *)
Justified(p, got, result) ==
    /\ got \in {None, "controller", "election", "server"}
    /\ result \in SUBSET {"leadership lost", "controller", "election", "server"}
    /\ got = "controller" => p.starter = "returned"
    /\ result = {} => p.signalled
    /\ "leadership lost" \in result => "renewal" \in p.causes
    /\ \A part \in {"controller", "election", "server"} :
          part \in result => part \in p.causes

(* Run leaves its select: the branch it takes says what has happened. *)
LEMMA SelectGood ==
    ASSUME Inductive, NEW r \in Replicas,
           \/ SelectSignal(r) \/ SelectLost(r) \/ SelectController(r)
           \/ SelectElection(r) \/ SelectServer(r)
    PROVE  Inductive'
<1> DEFINE p == proc[r]
           q == proc'[r]
<1>1. r \in DOMAIN proc /\ p \in Processes
  BY ProcessFacts
<1>2. DOMAIN p = Fields
  BY <1>1, ProcessFields
<1>3. MainInOrder(p) /\ ElectionInOrder(p) /\ StarterInOrder(p) /\ ServerInOrder(p)
  BY ProcessFacts DEF Good
<1>4. PICK got, result : Selected(r, got, result) /\ Justified(p, got, result)
  <2>1. CASE SelectSignal(r)
    <3>1. Justified(p, None, {})
      BY <2>1, ReplicasAssumption DEF SelectSignal, Justified
    <3> QED BY <2>1, <3>1 DEF SelectSignal
  <2>2. CASE SelectLost(r)
    <3>1. Justified(p, None, {"leadership lost"})
      BY <1>3, <2>2, ReplicasAssumption DEF SelectLost, ElectionInOrder, Justified
    <3> QED BY <2>2, <3>1 DEF SelectLost
  <2>3. CASE SelectController(r)
    <3>1. p.starter = "returned" /\ ~p.stopping
      BY <1>3, <2>3 DEF SelectController, Selected, MainInOrder
    <3>2. CASE p.signalled
      <4>1. Justified(p, "controller", {}) /\ Selected(r, "controller", {})
        BY <2>3, <3>1, <3>2 DEF Justified, SelectController
      <4> QED BY <4>1
    <3>3. CASE ~p.signalled /\ p.lost
      <4>1. /\ Justified(p, "controller", {"leadership lost"})
            /\ Selected(r, "controller", {"leadership lost"})
        BY <1>3, <2>3, <3>1, <3>3 DEF Justified, SelectController, ElectionInOrder
      <4> QED BY <4>1
    <3>4. CASE ~p.signalled /\ ~p.lost
      <4>1. "controller" \in p.causes
        BY <1>3, <3>1, <3>4 DEF StarterInOrder, Stopped
      <4>2. Justified(p, "controller", {"controller"}) /\ Selected(r, "controller", {"controller"})
        BY <2>3, <3>1, <3>4, <4>1 DEF Justified, SelectController
      <4> QED BY <4>2
    <3> QED BY <3>2, <3>3, <3>4
  <2>4. CASE SelectElection(r)
    <3>1. p.elector = "returned" /\ ~p.stopping
      BY <1>3, <2>4 DEF SelectElection, Selected, MainInOrder
    <3>2. CASE p.signalled
      <4>1. Justified(p, "election", {}) /\ Selected(r, "election", {})
        BY <2>4, <3>1, <3>2 DEF Justified, SelectElection
      <4> QED BY <4>1
    <3>3. CASE ~p.signalled /\ (p.lost \/ p.election = "lost")
      <4>1. "renewal" \in p.causes
        BY <1>3, <3>1, <3>3 DEF ElectionInOrder
      <4>2. /\ Justified(p, "election", {"leadership lost"})
            /\ Selected(r, "election", {"leadership lost"})
        BY <2>4, <3>1, <3>3, <4>1 DEF Justified, SelectElection
      <4> QED BY <4>2
    <3>4. CASE ~p.signalled /\ ~(p.lost \/ p.election = "lost")
      <4>1. "election" \in p.causes
        BY <1>3, <3>1, <3>4 DEF ElectionInOrder, Stopped
      <4>2. Justified(p, "election", {"election"}) /\ Selected(r, "election", {"election"})
        BY <2>4, <3>1, <3>4, <4>1 DEF Justified, SelectElection
      <4> QED BY <4>2
    <3> QED BY <3>2, <3>3, <3>4
  <2>5. CASE SelectServer(r)
    <3>1. "server" \in p.causes
      BY <1>3, <2>5 DEF SelectServer, Selected, ServerInOrder, MainInOrder
    <3>2. CASE p.signalled
      <4>1. Justified(p, "server", {}) /\ Selected(r, "server", {})
        BY <2>5, <3>2 DEF Justified, SelectServer
      <4> QED BY <4>1
    <3>3. CASE ~p.signalled
      <4>1. Justified(p, "server", {"server"}) /\ Selected(r, "server", {"server"})
        BY <2>5, <3>1, <3>3 DEF Justified, SelectServer
      <4> QED BY <4>1
    <3> QED BY <3>2, <3>3
  <2> QED BY <2>1, <2>2, <2>3, <2>4, <2>5
<1>5. q \in Processes
  BY <1>1, <1>4 DEF Selected, Justified, Processes, Mains, Receipts, Results
<1>6. /\ proc' = [proc EXCEPT ![r] = q]
      /\ p.main = "select" /\ q.main = "stop" /\ q.got = got /\ q.result = result
      /\ q.signalled = p.signalled /\ q.stopping = p.stopping
      /\ q.lost = p.lost /\ q.on = p.on
      /\ q.elector = p.elector /\ q.election = p.election
      /\ q.starter = p.starter /\ q.started = p.started
      /\ q.server = p.server /\ q.shutdown = p.shutdown
      /\ q.overtaken = p.overtaken /\ q.causes = p.causes
  BY <1>1, <1>2, <1>4 DEF Selected, Fields
<1>7. MainInOrder(q) /\ WaitsInShutdown(q) /\ ControllerAwaited(q)
  BY <1>3, <1>4, <1>6 DEF Justified, MainInOrder, WaitsInShutdown, ControllerAwaited
<1>8. ServerInOrder(q) /\ ResultIsCause(q)
  BY <1>3, <1>4, <1>6 DEF Justified, ServerInOrder, ResultIsCause
<1>9. ElectionInOrder(q)
  BY <1>3, <1>6 DEF ElectionInOrder, Stopped
<1>10. StarterInOrder(q)
  BY <1>3, <1>4, <1>6 DEF Justified, StarterInOrder, Stopped
<1> QED BY <1>5, <1>6, <1>7, <1>8, <1>9, <1>10, OneProcess DEF Good

(* Run goes on with its shutdown. *)
LEMMA ShutdownGood ==
    ASSUME Inductive, NEW r \in Replicas,
           \/ BeginShutdown(r) \/ ShutdownServer(r)
           \/ WaitElection(r) \/ WaitController(r) \/ WaitServer(r) \/ WaitShutdown(r)
    PROVE  Inductive'
<1> DEFINE p == proc[r]
           q == proc'[r]
<1>1. r \in DOMAIN proc /\ p \in Processes
  BY ProcessFacts
<1>2. DOMAIN p = Fields
  BY <1>1, ProcessFields
<1>3. /\ MainInOrder(p) /\ ElectionInOrder(p) /\ StarterInOrder(p) /\ ServerInOrder(p)
      /\ ResultIsCause(p) /\ ControllerAwaited(p) /\ WaitsInShutdown(p)
  BY ProcessFacts DEF Good
<1>4. q \in Processes
  <2>1. CASE BeginShutdown(r)
    BY <1>1, <2>1 DEF BeginShutdown, Processes, Mains
  <2>2. CASE ShutdownServer(r)
    BY <1>1, <2>2 DEF ShutdownServer, Processes, Mains, Shutdowns
  <2>3. CASE proc' = [proc EXCEPT ![r].main = "waitServer",
                                  ![r].overtaken = proc[r].starter = "checked"]
    BY <1>1, <2>3 DEF Processes, Mains
  <2>4. ASSUME NEW next \in {"waitController", "waitServer", "waitShutdown", "returned"},
               proc' = [proc EXCEPT ![r].main = next]
        PROVE  q \in Processes
    BY <1>1, <2>4 DEF Processes, Mains
  <2>5. ASSUME NEW err \in {"timeout", "shutdown"},
               proc' = [proc EXCEPT ![r].main = "returned", ![r].result = @ \cup {err}]
        PROVE  q \in Processes
    BY <1>1, <2>5 DEF Processes, Mains, Results
  <2> QED BY <2>1, <2>2, <2>3, <2>4, <2>5
          DEF WaitElection, WaitController, WaitServer, WaitShutdown, Wait
<1>5. /\ proc' = [proc EXCEPT ![r] = q]
      /\ q.got = p.got /\ q.signalled = p.signalled
      /\ q.lost = p.lost
      /\ q.elector = p.elector /\ q.election = p.election
      /\ q.starter = p.starter /\ q.started = p.started
      /\ q.server = p.server /\ q.causes = p.causes
  <2> USE DEF Fields
  <2>1. CASE BeginShutdown(r)
    BY <1>1, <1>2, <2>1 DEF BeginShutdown
  <2>2. CASE ShutdownServer(r)
    BY <1>1, <1>2, <2>2 DEF ShutdownServer
  <2>3. CASE WaitElection(r)
    BY <1>1, <1>2, <2>3 DEF WaitElection, Wait
  <2>4. CASE WaitController(r)
    BY <1>1, <1>2, <2>4 DEF WaitController, Wait
  <2>5. CASE WaitServer(r)
    BY <1>1, <1>2, <2>5 DEF WaitServer, Wait
  <2>6. CASE WaitShutdown(r)
    BY <1>1, <1>2, <2>6 DEF WaitShutdown, Wait
  <2> QED BY <2>1, <2>2, <2>3, <2>4, <2>5, <2>6
<1>6. \/ /\ p.main = "stop" /\ q.main = "unready" /\ q.stopping
         /\ q.result = p.result /\ q.shutdown = p.shutdown
         /\ q.on = p.on /\ q.overtaken = p.overtaken
      \/ /\ p.main = "unready" /\ q.main = "waitElection" /\ q.stopping = p.stopping
         /\ q.result = p.result /\ ~q.on /\ q.overtaken = p.overtaken
      \/ /\ p.main \in {"waitElection", "waitController", "waitServer", "waitShutdown"}
         /\ q.stopping = p.stopping /\ q.on = p.on /\ q.shutdown = p.shutdown
         /\ \/ /\ q.main = "returned" /\ q.overtaken = p.overtaken
               /\ \/ q.result = p.result \cup {"timeout"}
                  \/ p.main = "waitShutdown" /\ q.result = p.result \cup {"shutdown"}
            \/ /\ q.main = "waitController" /\ p.main = "waitElection"
               /\ q.result = p.result /\ q.overtaken = p.overtaken
            \/ /\ q.main = "waitServer" /\ p.main = "waitController" /\ q.result = p.result
               /\ q.overtaken \/ p.starter \in {"none", "spawned", "returned"}
            \/ /\ q.main = "waitShutdown" /\ p.main = "waitServer"
               /\ q.result = p.result /\ q.overtaken = p.overtaken
            \/ /\ q.main = "returned" /\ p.main = "waitShutdown"
               /\ q.result = p.result /\ q.overtaken = p.overtaken
  <2> USE DEF Fields
  <2>1. CASE BeginShutdown(r)
    BY <1>1, <1>2, <2>1 DEF BeginShutdown
  <2>2. CASE ShutdownServer(r)
    BY <1>1, <1>2, <2>2 DEF ShutdownServer
  <2>3. ASSUME NEW next, proc' = [proc EXCEPT ![r].main = next]
        PROVE  /\ q.main = next /\ q.result = p.result /\ q.overtaken = p.overtaken
               /\ q.stopping = p.stopping /\ q.on = p.on /\ q.shutdown = p.shutdown
    BY <1>1, <1>2, <2>3
  <2>4. ASSUME NEW err,
               proc' = [proc EXCEPT ![r].main = "returned", ![r].result = @ \cup {err}]
        PROVE  /\ q.main = "returned" /\ q.result = p.result \cup {err}
               /\ q.overtaken = p.overtaken
               /\ q.stopping = p.stopping /\ q.on = p.on /\ q.shutdown = p.shutdown
    BY <1>1, <1>2, <2>4
  <2>5. CASE WaitElection(r)
    BY <2>3, <2>4, <2>5 DEF WaitElection, Wait
  <2>6. CASE WaitController(r)
    <3>1. CASE ~p.started \/ Received(r, "controller")
      <4>1. /\ p.main = "waitController"
            /\ proc' = [proc EXCEPT ![r].main = "waitServer",
                                    ![r].overtaken = proc[r].starter = "checked"]
        BY <2>6, <3>1 DEF WaitController
      <4>2. /\ q.main = "waitServer" /\ q.result = p.result
            /\ q.overtaken <=> p.starter = "checked"
            /\ q.stopping = p.stopping /\ q.on = p.on /\ q.shutdown = p.shutdown
        BY <1>1, <1>2, <4>1
      <4>3. p.starter \in {"none", "spawned", "checked", "returned"}
        BY <1>1, <1>3, <3>1 DEF StarterInOrder, Received, Processes, Starters
      <4> QED BY <4>1, <4>2, <4>3
    <3>2. CASE ~(~p.started \/ Received(r, "controller"))
      BY <2>3, <2>4, <2>6, <3>2 DEF WaitController, Wait
    <3> QED BY <3>1, <3>2
  <2>7. CASE WaitServer(r)
    BY <2>3, <2>4, <2>7 DEF WaitServer, Wait
  <2>8. CASE WaitShutdown(r)
    BY <2>3, <2>4, <2>8 DEF WaitShutdown, Wait
  <2> QED BY <2>1, <2>2, <2>5, <2>6, <2>7, <2>8
<1>7. MainInOrder(q)
  BY <1>3, <1>5, <1>6 DEF MainInOrder
<1>8. WaitsInShutdown(q) /\ ControllerAwaited(q)
  BY <1>3, <1>5, <1>6 DEF WaitsInShutdown, ControllerAwaited
<1>9. ServerInOrder(q)
  BY <1>3, <1>5, <1>6 DEF ServerInOrder, MainInOrder
<1>10. ResultIsCause(q)
  BY <1>3, <1>5, <1>6 DEF ResultIsCause
<1>11. (p.stopping => q.stopping) /\ (q.on => p.on)
  BY <1>6
<1>12. ElectionInOrder(q)
  BY <1>3, <1>5, <1>11 DEF ElectionInOrder, Stopped
<1>13. StarterInOrder(q)
  BY <1>3, <1>5, <1>11 DEF StarterInOrder, Stopped
<1> QED BY <1>4, <1>5, <1>7, <1>8, <1>9, <1>10, <1>12, <1>13, OneProcess DEF Good

(* A process ends, and another is started in its place. *)
LEMMA ProcessGood ==
    ASSUME Inductive, NEW r \in Replicas, Exit(r) \/ Crash(r) \/ Restart(r)
    PROVE  Inductive'
<1>1. r \in DOMAIN proc
  BY ProcessFacts
<1>2. PICK q : Good(q) /\ proc' = [proc EXCEPT ![r] = q]
  BY StartedGood, ReplicasAssumption DEF Exit, Crash, Restart
<1> QED BY <1>1, <1>2, OneProcess

(* The invariant holds at first, and every step keeps it. *)
LEMMA InductiveInit == Init => Inductive
<1> SUFFICES ASSUME Init PROVE Inductive
  OBVIOUS
<1>1. \A loads \in InitialLoads : Good(Started(loads))
  BY StartedGood, ReplicasAssumption
<1>2. \A r \in Replicas : Good(proc[r])
  BY <1>1 DEF Init
<1> QED BY <1>2 DEF Init, Inductive, Good

LEMMA InductiveNext == Inductive /\ [Next]_vars => Inductive'
<1> SUFFICES ASSUME Inductive, [Next]_vars PROVE Inductive'
  OBVIOUS
<1>1. CASE UNCHANGED proc
  BY <1>1 DEF Inductive
<1>2. CASE \E r \in Replicas : \/ Acquire(r) \/ Elector(r) \/ ElectorFails(r) \/ RenewFails(r)
  BY <1>2, ElectorGood
<1>3. CASE \E r \in Replicas : \/ Starter(r) \/ ReloadPolicy(r) \/ ObserveReconcile(r)
                               \/ ControllerStopped(r) \/ ControllerFails(r)
  BY <1>3, StarterGood
<1>4. CASE \E r \in Replicas : \/ ServerCloses(r) \/ ShutdownReturns(r) \/ ServerFails(r)
                               \/ ShutdownTimeout(r) \/ Signal(r)
  BY <1>4, ServerGood
<1>5. CASE \E r \in Replicas : Main(r)
  BY <1>5, SelectGood, ShutdownGood DEF Main
<1>6. CASE \E r \in Replicas : Exit(r) \/ Crash(r) \/ Restart(r)
  BY <1>6, ProcessGood
<1> QED BY <1>1, <1>2, <1>3, <1>4, <1>5, <1>6
        DEF Next, Failure, LeaseExpires, RivalLeads, RivalLeaves, vars

(* ... and so it always holds. *)
LEMMA Invariance == Spec => []Inductive
  BY InductiveInit, InductiveNext, PTL DEF Spec

-----------------------------------------------------------------------------

(* Whichever of the elector, the controller, the server and a signal       *)
(* reaches the select of Run first, and whatever ends meanwhile: what Run  *)
(* returns has happened, and no error means that the process was told to   *)
(* stop.                                                                   *)
THEOREM ReturnsTheCause == Spec => []OutcomeIsCause
<1>1. Inductive => OutcomeIsCause
  BY DEF Inductive, Good, ResultIsCause, MainInOrder, OutcomeIsCause
<1> QED BY <1>1, Invariance, PTL

(* When Run has returned in time the controller is not running and the     *)
(* process is not ready, but for an OnStartedLeading that was overtaken.   *)
THEOREM ReturnsQuietly == Spec => []QuietOnReturn
<1>1. Inductive => QuietOnReturn
  BY DEF Inductive, Good, ControllerAwaited, StarterInOrder, QuietOnReturn
<1> QED BY <1>1, Invariance, PTL

-----------------------------------------------------------------------------

(* A replica whose elector leads is the one in the Lease. *)
LeadHolds == \A r \in Replicas : proc[r].elector = "lead" => holder = r

(* A step of r that is not Acquire changes r only, and does not make it    *)
(* lead.                                                                   *)
Follows(r) ==
    /\ \A s \in Replicas \ {r} : proc'[s] = proc[s]
    /\ proc'[r].elector = "lead" => proc[r].elector = "lead"

(* The steps of the elector. *)
LEMMA ElectorFollows ==
    ASSUME Inductive, NEW r \in Replicas, Elector(r) \/ ElectorFails(r) \/ RenewFails(r)
    PROVE  Follows(r)
<1>1. r \in DOMAIN proc /\ DOMAIN proc = Replicas /\ DOMAIN proc[r] = Fields
  BY ProcessFacts, ProcessFields DEF Inductive
<1> USE <1>1 DEF Follows, Fields
<1>2. CASE StopElecting(r)
  BY <1>2 DEF StopElecting
<1>3. CASE Release(r) \/ CancelLeader(r)
  BY <1>3 DEF Release, CancelLeader
<1>4. CASE StoppedLeading(r)
  BY <1>4 DEF StoppedLeading
<1>5. CASE ReturnElection(r)
  BY <1>5 DEF ReturnElection
<1>6. CASE ElectorFails(r)
  BY <1>6 DEF ElectorFails
<1>7. CASE RenewFails(r)
  BY <1>7 DEF RenewFails
<1> QED BY <1>2, <1>3, <1>4, <1>5, <1>6, <1>7 DEF Elector

(* The steps of the callback, the controller and the server. *)
LEMMA StarterFollows ==
    ASSUME Inductive, NEW r \in Replicas,
           \/ Starter(r) \/ ReloadPolicy(r) \/ ObserveReconcile(r)
           \/ ControllerStopped(r) \/ ControllerFails(r)
           \/ ServerCloses(r) \/ ShutdownReturns(r) \/ ServerFails(r)
           \/ ShutdownTimeout(r) \/ Signal(r)
    PROVE  Follows(r)
<1>1. r \in DOMAIN proc /\ DOMAIN proc = Replicas /\ DOMAIN proc[r] = Fields
  BY ProcessFacts, ProcessFields DEF Inductive
<1> USE <1>1 DEF Follows, Fields
<1>2. CASE StartLeading(r) \/ MarkStarted(r)
  BY <1>2 DEF StartLeading, MarkStarted
<1>3. CASE SetReady(r) \/ ControllerStarted(r)
  BY <1>3 DEF SetReady, ControllerStarted
<1>4. CASE ReportController(r)
  BY <1>4 DEF ReportController
<1>5. CASE ReloadPolicy(r) \/ ObserveReconcile(r)
  BY <1>5 DEF ReloadPolicy, ObserveReconcile
<1>6. CASE ControllerStopped(r) \/ ControllerFails(r)
  BY <1>6 DEF ControllerStopped, ControllerFails
<1>7. CASE ServerCloses(r) \/ ServerFails(r)
  BY <1>7 DEF ServerCloses, ServerFails
<1>8. CASE ShutdownReturns(r)
  BY <1>8 DEF ShutdownReturns
<1>9. CASE ShutdownTimeout(r) \/ Signal(r)
  BY <1>9 DEF ShutdownTimeout, Signal
<1> QED BY <1>2, <1>3, <1>4, <1>5, <1>6, <1>7, <1>8, <1>9 DEF Starter

(* The steps of Run, and of the process. *)
LEMMA MainFollows ==
    ASSUME Inductive, NEW r \in Replicas, Main(r) \/ Exit(r) \/ Crash(r) \/ Restart(r)
    PROVE  Follows(r)
<1>1. r \in DOMAIN proc /\ DOMAIN proc = Replicas /\ DOMAIN proc[r] = Fields
  BY ProcessFacts, ProcessFields DEF Inductive
<1> USE <1>1 DEF Follows, Fields
<1>2. ASSUME NEW got, NEW result, Selected(r, got, result) PROVE Follows(r)
  BY <1>2 DEF Selected
<1>3. ASSUME NEW at, NEW done, NEW next, Wait(r, at, done, next) PROVE Follows(r)
  BY <1>3 DEF Wait
<1>4. CASE SelectSignal(r) \/ SelectLost(r) \/ SelectController(r) \/ SelectElection(r)
           \/ SelectServer(r)
  <2>1. \E got, result : Selected(r, got, result)
    BY <1>4 DEF SelectSignal, SelectLost, SelectController, SelectElection, SelectServer
  <2> QED BY ONLY <1>2, <2>1
<1>5. CASE BeginShutdown(r) \/ ShutdownServer(r)
  BY <1>5 DEF BeginShutdown, ShutdownServer
<1>6. CASE WaitElection(r)
  BY <1>3, <1>6 DEF WaitElection
<1>7. CASE WaitController(r)
  BY <1>3, <1>7 DEF WaitController
<1>8. CASE WaitServer(r)
  BY <1>3, <1>8 DEF WaitServer
<1>9. CASE WaitShutdown(r)
  BY <1>3, <1>9 DEF WaitShutdown
<1>10. CASE Exit(r) \/ Crash(r)
  <2>1. proc' = [proc EXCEPT ![r] = Down]
    BY <1>10 DEF Exit, Crash
  <2>2. Down.elector # "lead"
    BY DEF Down, Started
  <2> QED BY <1>1, <2>1, <2>2
<1>11. CASE Restart(r)
  BY <1>11 DEF Restart, Started
<1> QED BY <1>4, <1>5, <1>6, <1>7, <1>8, <1>9, <1>10, <1>11 DEF Main

(* Only Acquire makes an elector lead. *)
LEMMA LeadKept ==
    ASSUME Inductive, [Next]_vars, ~(\E r \in Replicas : Acquire(r))
    PROVE  \A s \in Replicas : proc'[s].elector = "lead" => proc[s].elector = "lead"
<1>1. CASE UNCHANGED proc
  BY <1>1
<1>2. CASE \E r \in Replicas : Follows(r)
  BY <1>2 DEF Follows
<1>3. UNCHANGED proc \/ \E r \in Replicas : Follows(r)
  BY ElectorFollows, StarterFollows, MainFollows
     DEF Next, Failure, LeaseExpires, RivalLeads, RivalLeaves, vars
<1> QED BY <1>1, <1>2, <1>3

(* What becomes of the Lease. *)
LEMMA LeaseSteps ==
    ASSUME [Next]_vars, ~(\E r \in Replicas : Acquire(r))
    PROVE  \/ holder' = holder
           \/ \E r \in Replicas : holder = r /\ proc[r].elector # "lead"
           \/ holder \in Rivals \cup {None}
<1>1. CASE \E r \in Replicas : Elector(r)
  BY <1>1 DEF Elector, StopElecting, Release, CancelLeader, StoppedLeading, ReturnElection
<1>2. CASE LeaseExpires \/ RivalLeads \/ RivalLeaves \/ UNCHANGED vars
  BY <1>2 DEF LeaseExpires, RivalLeads, RivalLeaves, vars
<1>3. CASE Failure
  BY <1>3 DEF Failure, ElectorFails, RenewFails, ControllerFails, ServerFails, Signal, Crash
<1>4. CASE \E r \in Replicas : Starter(r) \/ ReloadPolicy(r) \/ ObserveReconcile(r)
                               \/ ControllerStopped(r)
  BY <1>4 DEF Starter, StartLeading, MarkStarted, SetReady, ControllerStarted,
              ReportController, ReloadPolicy, ObserveReconcile, ControllerStopped
<1>5. CASE \E r \in Replicas : Main(r)
  BY <1>5 DEF Main, SelectSignal, SelectLost, SelectController, SelectElection,
              SelectServer, Selected, BeginShutdown, ShutdownServer, WaitElection,
              WaitController, WaitServer, WaitShutdown, Wait
<1>6. CASE \E r \in Replicas : ServerCloses(r) \/ ShutdownReturns(r) \/ ShutdownTimeout(r)
                               \/ Exit(r) \/ Restart(r)
  BY <1>6 DEF ServerCloses, ShutdownReturns, ShutdownTimeout, Exit, Restart
<1> QED BY <1>1, <1>2, <1>3, <1>4, <1>5, <1>6 DEF Next

(* A controller that is not told to stop works under the Lease, for any    *)
(* number of replicas: the overlap of two leaders is confined to the       *)
(* release of the Lease and to calls that outlast their context.           *)
THEOREM LeaseCovers == Spec => []WorksUnderLease
<1>1. Init => LeadHolds
  BY DEF Init, LeadHolds, Started
<1>2. Inductive /\ LeadHolds /\ [Next]_vars => LeadHolds'
  <2> SUFFICES ASSUME Inductive, LeadHolds, [Next]_vars PROVE LeadHolds'
    OBVIOUS
  <2>1. CASE \E r \in Replicas : Acquire(r)
    <3>1. PICK r \in Replicas : Acquire(r)
      BY <2>1
    <3>2. \A s \in Replicas : proc[s].elector # "lead"
      BY <3>1, ReplicasAssumption DEF Acquire, LeadHolds
    <3> QED BY <3>1, <3>2, ProcessFields DEF Acquire, LeadHolds, Inductive
  <2>2. CASE ~(\E r \in Replicas : Acquire(r))
    <3>1. \A s \in Replicas : proc[s].elector = "lead" => holder = s /\ s \notin Rivals \cup {None}
      BY ReplicasAssumption DEF LeadHolds
    <3> QED BY <2>2, <3>1, LeadKept, LeaseSteps DEF LeadHolds
  <2> QED BY <2>1, <2>2
<1>3. Inductive /\ LeadHolds => WorksUnderLease
  <2> SUFFICES ASSUME Inductive, LeadHolds, NEW r \in Replicas, Running(r), ~LeaderDone(r)
               PROVE  holder = r \/ proc[r].elector \in {"release", "released"}
    BY DEF WorksUnderLease
  <2>1. /\ proc[r].elector \in {"acquire", "lead", "release", "released", "stopped", "unready",
                                "returned", "down"}
        /\ proc[r].elector \in {"acquire", "down"} => proc[r].starter = "none"
    BY DEF Inductive, Good, ElectionInOrder, Processes, Electors
  <2> QED BY <2>1 DEF LeadHolds, Running, LeaderDone
<1> QED BY <1>1, <1>2, <1>3, Invariance, PTL DEF Spec
=============================================================================
