---------------------------- MODULE Coordinator -----------------------------
(***************************************************************************)
(* Replicas of the controller process (cmd/controller/main.go), each with  *)
(* the coordinator of its goroutines (internal/runtime/runtime.go), leader *)
(* election (election.go) and readiness (observability/runtime.go), and    *)
(* the Lease they share.                                                   *)
(*                                                                         *)
(* A process has five goroutines: Run of the coordinator, the elector, the *)
(* OnStartedLeading callback with the controller in it, the HTTP server    *)
(* and its Shutdown.  A step is one access to what another goroutine sees: *)
(* a context, an atomic flag, a channel, the Lease.  Steps that commute    *)
(* with everything between them are joined.  A channel holds a result from *)
(* the end of the goroutine that sends it; the token in leadershipLost     *)
(* comes and is taken with lost, which is all that is kept of it.          *)
(***************************************************************************)
EXTENDS Naturals

CONSTANTS
    Replicas,
    Rivals,        \* further replicas, of which only their hold of the Lease is seen
    None,
    InitialLoads   \* what main may have loaded before it starts the runtime

Parts == {"policy", "state"}

ASSUME ReplicasAssumption ==
    /\ None \notin Replicas \cup Rivals /\ Replicas \cap Rivals = {}
    /\ None \notin {"controller", "election", "server"}
    /\ InitialLoads \subseteq SUBSET Parts

VARIABLES
    holder,   \* the replica in the Lease, or None
    proc      \* the process of each replica

vars == <<holder, proc>>

(* A process main has just started; Run has set readiness to false. *)
Started(loads) == [
    main      |-> "select",   \* Run: what it does next
    got       |-> None,       \* Run: the result its select has received
    result    |-> {},         \* Run: the errors it will return
    signalled |-> FALSE,      \* ctx is done
    stopping  |-> FALSE,      \* shuttingDown; runCtx is cancelled
    expired   |-> FALSE,      \* shutdownCtx is done
    lost      |-> FALSE,      \* lost
    started   |-> FALSE,      \* leaderStarted
    elector   |-> "acquire",  \* LeaderElector.Run
    election  |-> None,       \* electionResult
    starter   |-> "none",     \* OnStartedLeading and Runner.Run
    server    |-> "serving",  \* ListenAndServe
    shutdown  |-> "none",     \* Shutdown of the server
    on        |-> FALSE,      \* Readiness.controllerOn
    loaded    |-> loads,      \* Readiness: dependencies, and a policy
    causes    |-> {},         \* observer: what has failed
    overtaken |-> FALSE]      \* observer: see WaitController

(* No process: its goroutines are gone with it. *)
Down == [Started({}) EXCEPT !.main = "down", !.elector = "down", !.server = "down"]

Init ==
    /\ holder = None
    /\ proc \in [Replicas -> {Started(loads) : loads \in InitialLoads}]

-----------------------------------------------------------------------------

RunDone(r) == proc[r].signalled \/ proc[r].stopping

(* Slip: the controller is run under runCtx and not under leaderCtx. *)
LeaderDoneAsRun(r) == RunDone(r)

(* leaderCtx is a child of runCtx; client-go cancels it after the renewal. *)
LeaderDone(r) == RunDone(r) \/ proc[r].elector \in {"stopped", "unready", "returned"}

Running(r) == proc[r].starter = "running"

(* Readiness.Ready *)
Ready(r) == proc[r].on /\ proc[r].loaded = Parts

-----------------------------------------------------------------------------
(***************************************************************************)
(* LeaderElector.Run of client-go, and KubernetesElector.Run around it.    *)
(***************************************************************************)

ElectorFails(r) ==
    /\ proc[r].elector = "acquire"
    /\ proc' = [proc EXCEPT ![r].elector = "returned", ![r].election = "error",
                            ![r].causes = @ \cup {"election"}]
    /\ UNCHANGED holder

Acquire(r) ==
    /\ proc[r].elector = "acquire" /\ ~RunDone(r) /\ holder = None
    /\ holder' = r
    /\ proc' = [proc EXCEPT ![r].elector = "lead", ![r].starter = "spawned"]

(* No renewal succeeds within RenewDeadline. *)
RenewFails(r) ==
    /\ proc[r].elector = "lead" /\ ~RunDone(r)
    /\ proc' = [proc EXCEPT ![r].elector = "release", ![r].causes = @ \cup {"renewal"}]
    /\ UNCHANGED holder

(* The context is done: before the Lease was acquired, or while it is held. *)
StopElecting(r) ==
    /\ RunDone(r)
    /\ \/ proc[r].elector = "acquire" /\ proc' = [proc EXCEPT ![r].elector = "stopped"]
       \/ proc[r].elector = "lead"    /\ proc' = [proc EXCEPT ![r].elector = "release"]
    /\ UNCHANGED holder

(* ReleaseOnCancel: the Lease is given up, or the call fails. *)
Release(r) ==
    /\ proc[r].elector = "release"
    /\ holder' \in {holder, IF holder = r THEN None ELSE holder}
    /\ proc' = [proc EXCEPT ![r].elector = "released"]

(* The deferred cancel of leaderCtx. *)
CancelLeader(r) ==
    /\ proc[r].elector = "released"
    /\ proc' = [proc EXCEPT ![r].elector = "stopped"]
    /\ UNCHANGED holder

(* OnStoppedLeading: readiness is withdrawn, *)
StoppedLeading(r) ==
    /\ proc[r].elector = "stopped"
    /\ proc' = [proc EXCEPT ![r].elector = "unready", ![r].on = FALSE]
    /\ UNCHANGED holder

(* and the loss noted, unless the process is being stopped; Run returns.   *)
ReturnElection(r) ==
    /\ proc[r].elector = "unready"
    /\ proc' = [proc EXCEPT ![r].elector = "returned",
                            ![r].lost = @ \/ ~RunDone(r),
                            ![r].election = IF RunDone(r) THEN "nil" ELSE "lost"]
    /\ UNCHANGED holder

(* Another candidate finds that the Lease was not renewed for              *)
(* LeaseDuration, which is longer than RenewDeadline.                      *)
LeaseExpires ==
    /\ holder \in Replicas /\ proc[holder].elector # "lead"
    /\ holder' = None
    /\ UNCHANGED proc

RivalLeads ==
    /\ holder = None
    /\ holder' \in Rivals
    /\ UNCHANGED proc

RivalLeaves ==
    /\ holder \in Rivals
    /\ holder' = None
    /\ UNCHANGED proc

Elector(r) ==
    \/ StopElecting(r) \/ Release(r) \/ CancelLeader(r)
    \/ StoppedLeading(r) \/ ReturnElection(r)

-----------------------------------------------------------------------------
(***************************************************************************)
(* OnStartedLeading, and the controller it runs.                           *)
(***************************************************************************)

(* The callback does nothing once runCtx is done. *)
StartLeading(r) ==
    /\ proc[r].starter = "spawned"
    /\ proc' = [proc EXCEPT ![r].starter = IF RunDone(r) THEN "none" ELSE "checked"]
    /\ UNCHANGED holder

MarkStarted(r) ==
    /\ proc[r].starter = "checked"
    /\ proc' = [proc EXCEPT ![r].starter = "marked", ![r].started = TRUE]
    /\ UNCHANGED holder

SetReady(r) ==
    /\ proc[r].starter = "marked"
    /\ proc' = [proc EXCEPT ![r].starter = "entering", ![r].on = TRUE]
    /\ UNCHANGED holder

(* Controller.Run tells the telemetry, which sets readiness again. *)
ControllerStarted(r) ==
    /\ proc[r].starter = "entering"
    /\ proc' = [proc EXCEPT ![r].starter = "running", ![r].on = TRUE]
    /\ UNCHANGED holder

(* The policy watch brings a valid text and reloads the manager. *)
ReloadPolicy(r) ==
    /\ Running(r) /\ ~LeaderDone(r) /\ "policy" \notin proc[r].loaded
    /\ proc' = [proc EXCEPT ![r].loaded = @ \cup {"policy"}]
    /\ UNCHANGED holder

(* Slip: only the load at the start makes the dependencies ready. *)
ObserveReconcileIgnored(r) == FALSE /\ UNCHANGED vars

(* A reconcile with the result "success", which has loaded the state.  The *)
(* result "skipped", of workloads no policy selects, changes nothing.      *)
ObserveReconcile(r) ==
    /\ Running(r) /\ ~LeaderDone(r)
    /\ "policy" \in proc[r].loaded /\ "state" \notin proc[r].loaded
    /\ proc' = [proc EXCEPT ![r].loaded = @ \cup {"state"}]
    /\ UNCHANGED holder

(* Runner.Run returns, which Controller.Run does only when its context is  *)
(* done; ControllerStopped and OnStartedLeading withdraw readiness.        *)
ControllerStopped(r) ==
    /\ Running(r) /\ LeaderDone(r)
    /\ proc' = [proc EXCEPT ![r].starter = "ended", ![r].on = FALSE]
    /\ UNCHANGED holder

(* A Runner may also return by itself. *)
ControllerFails(r) ==
    /\ Running(r) /\ ~LeaderDone(r)
    /\ proc' = [proc EXCEPT ![r].starter = "ended", ![r].on = FALSE,
                            ![r].causes = @ \cup {"controller"}]
    /\ UNCHANGED holder

(* The loss of the Lease is noted before the result is sent. *)
ReportController(r) ==
    /\ proc[r].starter = "ended"
    /\ proc' = [proc EXCEPT ![r].starter = "returned",
                            ![r].lost = @ \/ (LeaderDone(r) /\ ~RunDone(r))]
    /\ UNCHANGED holder

Starter(r) ==
    StartLeading(r) \/ MarkStarted(r) \/ SetReady(r) \/ ControllerStarted(r) \/ ReportController(r)

-----------------------------------------------------------------------------
(***************************************************************************)
(* The HTTP server.                                                        *)
(***************************************************************************)

ServerFails(r) ==
    /\ proc[r].server = "serving" /\ proc[r].shutdown = "none"
    /\ proc' = [proc EXCEPT ![r].server = "returned", ![r].causes = @ \cup {"server"}]
    /\ UNCHANGED holder

(* ListenAndServe returns when Shutdown is called. *)
ServerCloses(r) ==
    /\ proc[r].server = "serving" /\ proc[r].shutdown # "none"
    /\ proc' = [proc EXCEPT ![r].server = "returned"]
    /\ UNCHANGED holder

(* Shutdown returns when the connections are idle, or with an error. *)
ShutdownReturns(r) ==
    /\ proc[r].shutdown = "running"
    /\ \E outcome \in {"ok", "error"} : proc' = [proc EXCEPT ![r].shutdown = outcome]
    /\ UNCHANGED holder

-----------------------------------------------------------------------------
(***************************************************************************)
(* Coordinator.Run.                                                        *)
(***************************************************************************)

(* The select ends with one of its branches. *)
Selected(r, got, result) ==
    /\ proc[r].main = "select"
    /\ proc' = [proc EXCEPT ![r].main = "stop", ![r].got = got, ![r].result = result]
    /\ UNCHANGED holder

SelectSignal(r) == proc[r].signalled /\ Selected(r, None, {})

SelectLost(r) == proc[r].lost /\ Selected(r, None, {"leadership lost"})

(* Slip: every end of the controller is blamed on it. *)
SelectControllerUnasked(r) ==
    /\ proc[r].starter = "returned"
    /\ Selected(r, "controller", IF proc[r].signalled THEN {} ELSE {"controller"})

SelectController(r) ==
    /\ proc[r].starter = "returned"
    /\ Selected(r, "controller",
         IF proc[r].signalled THEN {}
         ELSE IF proc[r].lost THEN {"leadership lost"} ELSE {"controller"})

(* Slip: the end of an elector that has never led is ignored. *)
SelectElectionIfLed(r) ==
    /\ proc[r].elector = "returned" /\ proc[r].started
    /\ Selected(r, "election", IF proc[r].signalled THEN {} ELSE {"leadership lost"})

SelectElection(r) ==
    /\ proc[r].elector = "returned"
    /\ Selected(r, "election",
         IF proc[r].signalled THEN {}
         ELSE IF proc[r].lost \/ proc[r].election = "lost" THEN {"leadership lost"}
         ELSE {"election"})

SelectServer(r) ==
    /\ proc[r].server = "returned"
    /\ Selected(r, "server", IF proc[r].signalled THEN {} ELSE {"server"})

(* shuttingDown is set and runCtx cancelled, *)
BeginShutdown(r) ==
    /\ proc[r].main = "stop"
    /\ proc' = [proc EXCEPT ![r].main = "unready", ![r].stopping = TRUE]
    /\ UNCHANGED holder

(* readiness withdrawn, and the server told to stop. *)
ShutdownServer(r) ==
    /\ proc[r].main = "unready"
    /\ proc' = [proc EXCEPT ![r].main = "waitElection", ![r].on = FALSE,
                            ![r].shutdown = "running"]
    /\ UNCHANGED holder

(* waitResult: go on to next when done, or give up at the deadline.        *)
Wait(r, at, done, next) ==
    /\ proc[r].main = at
    /\ \/ done /\ proc' = [proc EXCEPT ![r].main = next]
       \/ /\ proc[r].expired
          /\ proc' = [proc EXCEPT ![r].main = "returned", ![r].result = @ \cup {"timeout"}]
    /\ UNCHANGED holder

(* A result that was received already is not waited for. *)
Received(r, result) == proc[r].got = result

WaitElection(r) ==
    IF Received(r, "election")
    THEN /\ proc[r].main = "waitElection"
         /\ proc' = [proc EXCEPT ![r].main = "waitController"]
         /\ UNCHANGED holder
    ELSE Wait(r, "waitElection", proc[r].elector = "returned", "waitController")

(* Slip: a controller that was started is waited for without a deadline. *)
WaitControllerForever(r) ==
    /\ proc[r].main = "waitController"
    /\ ~proc[r].started \/ proc[r].starter = "returned"
    /\ proc' = [proc EXCEPT ![r].main = "waitServer"]
    /\ UNCHANGED holder

(* Slip: a replica that is not ready is taken to have no controller. *)
WaitControllerIfReady(r) ==
    /\ proc[r].main = "waitController"
    /\ ~proc[r].on \/ proc[r].starter = "returned"
    /\ proc' = [proc EXCEPT ![r].main = "waitServer"]
    /\ UNCHANGED holder

(* OnStartedLeading is overtaken if it has passed its check of runCtx and  *)
(* not yet said that the controller is started.                            *)
WaitController(r) ==
    IF ~proc[r].started \/ Received(r, "controller")
    THEN /\ proc[r].main = "waitController"
         /\ proc' = [proc EXCEPT ![r].main = "waitServer",
                                 ![r].overtaken = proc[r].starter = "checked"]
         /\ UNCHANGED holder
    ELSE Wait(r, "waitController", proc[r].starter = "returned", "waitServer")

WaitServer(r) ==
    IF Received(r, "server")
    THEN /\ proc[r].main = "waitServer"
         /\ proc' = [proc EXCEPT ![r].main = "waitShutdown"]
         /\ UNCHANGED holder
    ELSE Wait(r, "waitServer", proc[r].server = "returned", "waitShutdown")

WaitShutdown(r) ==
    \/ Wait(r, "waitShutdown", proc[r].shutdown = "ok", "returned")
    \/ /\ proc[r].main = "waitShutdown" /\ proc[r].shutdown = "error"
       /\ proc' = [proc EXCEPT ![r].main = "returned", ![r].result = @ \cup {"shutdown"}]
       /\ UNCHANGED holder

(* DefaultShutdownTimeout is over. *)
ShutdownTimeout(r) ==
    /\ proc[r].shutdown # "none" /\ ~proc[r].expired
    /\ proc' = [proc EXCEPT ![r].expired = TRUE]
    /\ UNCHANGED holder

Main(r) ==
    \/ SelectSignal(r) \/ SelectLost(r) \/ SelectController(r) \/ SelectElection(r) \/ SelectServer(r)
    \/ BeginShutdown(r) \/ ShutdownServer(r)
    \/ WaitElection(r) \/ WaitController(r) \/ WaitServer(r) \/ WaitShutdown(r)

-----------------------------------------------------------------------------
(***************************************************************************)
(* The process.                                                            *)
(***************************************************************************)

(* SIGTERM or SIGINT; one that comes in the shutdown changes nothing. *)
Signal(r) ==
    /\ proc[r].main \in {"select", "stop"} /\ ~proc[r].signalled
    /\ proc' = [proc EXCEPT ![r].signalled = TRUE]
    /\ UNCHANGED holder

(* main returns or exits with an error, and all goroutines end with it. *)
Exit(r) ==
    /\ proc[r].main = "returned"
    /\ proc' = [proc EXCEPT ![r] = Down]
    /\ UNCHANGED holder

Crash(r) ==
    /\ proc[r].main \notin {"returned", "down"}
    /\ proc' = [proc EXCEPT ![r] = Down]
    /\ UNCHANGED holder

(* The pod is restarted; main loads policy and state if it can. *)
Restart(r) ==
    /\ proc[r].main = "down"
    /\ \E loads \in InitialLoads : proc' = [proc EXCEPT ![r] = Started(loads)]
    /\ UNCHANGED holder

Failure ==
    \E r \in Replicas :
       \/ ElectorFails(r) \/ RenewFails(r) \/ ControllerFails(r)
       \/ ServerFails(r) \/ Signal(r) \/ Crash(r)

Next ==
    \/ \E r \in Replicas :
          \/ Acquire(r) \/ Elector(r) \/ Starter(r) \/ Main(r)
          \/ ReloadPolicy(r) \/ ObserveReconcile(r) \/ ControllerStopped(r)
          \/ ServerCloses(r) \/ ShutdownReturns(r) \/ ShutdownTimeout(r)
          \/ Exit(r) \/ Restart(r)
    \/ LeaseExpires \/ RivalLeads \/ RivalLeaves
    \/ Failure

Spec == Init /\ [][Next]_vars

(***************************************************************************)
(* Goroutines that can go on do, time passes, and pods are restarted.      *)
(* Nothing is assumed of the controller and of the HTTP server when they   *)
(* are told to stop, nor of what may never come: a valid policy text, and  *)
(* a workload whose reconcile has the result "success".                    *)
(***************************************************************************)
Fairness ==
    /\ WF_vars(LeaseExpires)
    /\ \A r \in Replicas :
          /\ SF_vars(Acquire(r))
          /\ WF_vars(Elector(r)) /\ WF_vars(Starter(r)) /\ WF_vars(Main(r))
          /\ WF_vars(ShutdownTimeout(r)) /\ WF_vars(Exit(r)) /\ WF_vars(Restart(r))

FairSpec == Spec /\ Fairness

-----------------------------------------------------------------------------

(* Run returns what really happened, whichever result reaches its select   *)
(* first: the loss of the Lease is not blamed on the controller that it    *)
(* stops, an orderly stop is not reported as a loss, and no error means    *)
(* that the process was told to stop (the select of Run).                  *)
OutcomeIsCause == \A r \in Replicas : proc[r].main = "returned" =>
    /\ "leadership lost" \in proc[r].result => "renewal" \in proc[r].causes
    /\ \A part \in {"controller", "election", "server"} :
          part \in proc[r].result => part \in proc[r].causes
    /\ proc[r].result = {} => proc[r].signalled

(* A controller that is not told to stop works under the Lease: the        *)
(* replica holds it, or has failed to renew it and is just giving it up.   *)
(* Controllers of two replicas overlap in that call, or because one does   *)
(* not react to its context (ReleaseOnCancel, leaderCtx).                  *)
WorksUnderLease == \A r \in Replicas : Running(r) /\ ~LeaderDone(r) =>
    holder = r \/ proc[r].elector \in {"release", "released"}

(* A controller whose replica does not hold the Lease any more is stopped, *)
(* even if it does not react to its context: Run gives up waiting for it   *)
(* and the process ends (leaderCtx, the deadline of Run).                  *)
LossStopsController == \A r \in Replicas :
    holder # r /\ Running(r) ~> ~Running(r)

(* When nothing fails any more some replica leads and runs its controller, *)
(* again and again: no process stays behind without an elector, or waits   *)
(* for what does not end (leadershipLost, the select and deadline of Run). *)
LeadsAgain == <>[][~Failure]_vars =>
    []<>(holder \in Rivals \/ \E r \in Replicas : holder = r /\ Running(r))

(* There are a valid policy text and a workload it selects: the leader     *)
(* comes to load the one and to reconcile the other with "success".        *)
Supplied == \A r \in Replicas :
    WF_vars(ReloadPolicy(r)) /\ WF_vars(ObserveReconcile(r))

(* The leader is then ready, too, whatever main failed to load at the      *)
(* start.  A leader whose load of the state has failed and that has no     *)
(* workload to manage is not, and need not become so (ObserveReconcile).   *)
ReadyAgain == <>[][~Failure]_vars /\ Supplied =>
    []<>(holder \in Rivals \/ \E r \in Replicas : holder = r /\ Ready(r))

(* "Only the elected leader reconciles" (README.md): no two replicas run   *)
(* their controllers.                                                      *)
OneController == \A r, s \in Replicas : Running(r) /\ Running(s) => r = s

(* Run "does not return until all started components have stopped or the   *)
(* bounded shutdown deadline expires" (runtime.go): once it has returned   *)
(* the controller is not running and the process does not call itself      *)
(* ready, unless the shutdown has overtaken OnStartedLeading.              *)
QuietOnReturn == \A r \in Replicas :
    /\ proc[r].main = "returned" /\ "timeout" \notin proc[r].result
    /\ ~proc[r].overtaken
    => proc[r].starter \in {"none", "spawned", "returned"} /\ ~proc[r].on
=============================================================================
