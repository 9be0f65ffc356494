# Verification of kube-workload-lm

kube-workload-lm is a Kubernetes controller that scales Deployments and
StatefulSets down in weekly windows, scales down or deletes revisions that are
older than a policy's `maxAge`, and gives owners their replica counts back
afterwards. This directory holds TLA+ modules of the controller, the TLC
configurations that check them on small instances, and proofs checked by TLAPS.
`PROJECT.json` lists the parts of the system, the runs, the source lines every
definition stands for, the hazards the properties are aimed at, and the theorems.

## 1. The system

| Part | State | Operations | Used by |
|---|---|---|---|
| Lifecycle engine (`internal/lifecycle`) | none | `CalculateRevision`, `Decide` | reconciler |
| Transition reconciler (`internal/controller/transition.go`) | locals of one `Reconcile` | load, save, read scale, write scale, delete | orchestrator |
| Scale and delete gateways (`internal/workload/scale.go`, `deleter.go`) | none | get and update of the scale subresource, foreground delete | reconciler |
| Schedule (`internal/schedule`) | none | `Match`, `WindowInstanceID` | reconciler, policy validation |
| State store (`internal/state`) | one ConfigMap with one JSON document for all workloads | `Load`, `Save`, conflict retry, capacity check | reconciler |
| Orchestrator (`internal/controller/orchestrator.go`) | ticker, request channel, three supervisors | `Run`, `reconcileAll`, `reconcileOne`, `supervise*` | coordinator |
| Workload gateway (`internal/workload/gateway.go`) | merged watch stream | `List`, `Watch`, `Stop` | orchestrator |
| HPA detector (`internal/workload/hpa.go`) | watch stream | `Evaluate`, `Watch` | orchestrator |
| Policy (`internal/policy`) | the current snapshot | decode, validate, `Reload`, `Match`, watch | orchestrator |
| Coordinator and election (`internal/runtime`) | lease, contexts, result channels | `Run`, two callbacks, bounded shutdown | main |
| Observability (`internal/observability`) | readiness flags, metrics | setters, HTTP | coordinator, orchestrator |
| Process (`cmd/controller/main.go`) | the initial loads | signals, start, exit | Kubernetes |

One goroutine (`Controller.Run`) reconciles; three supervisors turn watch events
into requests on an unbuffered channel; a fourth goroutine per stream forwards
events, and the one of the policy watch replaces the policy snapshot by itself.
Around it the coordinator runs the elector, the callback in which the controller
runs, the HTTP server and its shutdown, each in a goroutine of its own.
Everything durable is in the cluster: the workload objects and the state
ConfigMap. A reconcile makes up to five API calls and can stop before any of them.

What is hard here:

* **Failure between calls.** Snapshot, scale write and the clearing of the
  snapshot are separate calls. The count an owner chose must survive whichever
  of them is the last (`IntentRecorded`, `IntentReturned`).
* **Owners act meanwhile.** They scale, redeploy, delete and recreate between
  any two calls, and the reconcile goes on with what it read.
* **Stale copies.** A watch event carries a copy of the workload that may wait
  while newer ones are reconciled.
* **Identity.** Age, skip and snapshot hang on the UID, the tracked images, the
  tracking definition and the window instance; each has its own reset rule
  (`ExpiryNeverEarly`, `ExemptionHolds`).
* **Calendar.** Windows cross midnight, and clocks are changed inside windows
  (`MatchIsInstance`, `InstancesInOrder`, `InstanceIsStable`, `OneIDPerInstance`).
* **One document for all.** Every save writes every entry (`KeyIsolation`,
  `EntriesSurvive`, `MalformedIsKept`, `WritesFit`, `ImplementsDurableStore`).
* **Watches break**, requests are sent to a loop that may be about to leave
  (`Converges`, `RunReturns`, `PolicyOnlyAdvances`).
* **Policies are text.** Omitted, empty and wrong fields meet defaults, and a
  mistake may bring down or delete workloads nobody meant (`SnapshotIsSound`,
  `OnlyAskedFor`).
* **Leadership ends anywhere.** The elector, the controller, the server and a
  signal race to one `select`; a context that is cancelled is not a controller
  that has stopped (`OutcomeIsCause`, `QuietOnReturn`, `WorksUnderLease`,
  `LossStopsController`, `LeadsAgain`, `ReadyAgain`, `OneController`).

## 2. The modules

`Lifecycle` (operators only) is extended by `Transition`, which is extended by
`TransitionHistory`, `TransitionEvents` and `TransitionProofs`. `Windows` (what a
down window is) is extended by `Schedule` and by `PolicySet`, and `PolicySet` by
`Orchestrator`. `StateStore` implements `DurableStore`, and `Coordinator` stands
alone. `TransitionHistoryProofs` and `TransitionEventsProofs` extend
`TransitionProofs` together with the module they are about; `ScheduleProofs`,
`PolicySetProofs`, `StateStoreProofs`, `OrchestratorProofs` and
`CoordinatorProofs` each extend one. An `MC` module gives a specification the
constants TLC needs. Definitions called *Slip* in a comment are plausible mistakes
in the definition that follows them; no specification uses them. They serve to
show that the properties notice such a mistake.

### Lifecycle

`Decide` and `downDecision` branch for branch, and the revision identity. A hash
is the value that is hashed. `NoneIsNoNumber` keeps the nil snapshot apart from 0.

### Transition

One action per API call of `TransitionReconciler.Reconcile`; what the code
computes between two calls belongs to the earlier one (`ReadScale` covers
everything from the scale read through the window cycle, redeploy and override
checks and `Decide` to the next call). `pc` names the next call, `rec` holds the
locals, `store` the durable document, `object` the workloads in the API server.
`Abort` is every way to stop before the next call: an error, a cancelled context,
a crash. A call that took effect although its answer was lost is the call and
then `Abort`. `Refused` are the errors nothing can avoid: an untrackable template
and an object that is gone.

The environment advances the clock, and lets owners scale, redeploy, delete and
recreate, at any moment. `chosen` and `contested` are observers. `chosen` is the
count the owner last asked for. `contested` is set when the owner asks for a count
while a snapshot is held or after the reconcile in flight has read the scale, and
when the object is recreated while a reconcile of its predecessor is in flight,
whether that has read the scale or not: the code then has no way to tell the two
intents apart (it may overwrite the new count, or restore the older snapshot), and
no property speaks about that workload until an override is accepted or the owner
scales again.

A policy is any member of `Policies` at each reconcile, so changes of policy
between reconciles are part of every run that has more than one. `window[t]` is
the result of `schedule.Match` and `WindowInstanceID` at `t`, described by
`Schedule`. Left out: `lastSeenAt`, `capturedAt`, policy and reason names, which
no decision reads. `store` is read and written atomically here; `StateStore`
describes how.

`TransitionHistory` adds two history variables no action reads. In
`TransitionEvents` reconciles are also started by watch events: `events` are the
copies that are on their way from the API server to `Run`, in order, any of which
may be lost.

### Schedule

`Match`, `matches` and `WindowInstanceID` over a local date and minute. The length
of a day is a constant, 1440 in the code. The clock moves by one minute, and once
it skips (`SkipForward`) or repeats (`SetBack`) `Shift` minutes; changes are months
apart, so no instance meets two. `DayBefore` is the date of
`local.AddDate(0, 0, -1)`: if that local time was skipped, `time.Date` moves it, back
by the change in zones west of Greenwich and forward in the others. Where this leads
across midnight, the code takes a wrong day for a window that crosses midnight
(`Misled`), and the properties that hold otherwise exempt such minutes. `Within` says
what an instance is, without the case distinctions of the code.

### DurableStore and StateStore

`DurableStore` is what `state/types.go` promises of a `StateStore`: `Load` and
`Save` act on one durable document, each at one instant; a `Save` that succeeds has
made its document durable; an error leaves the caller with nothing; a document
that cannot be decoded is never replaced.

In `StateStore` any number of controllers call `Load` and `Save`; each is a get
followed by a create or an update, retried on conflict at most `Steps` times in
all. Other writers change the other data in the ConfigMap, break the document,
delete and restore the ConfigMap between any two calls. `fresh` says whether the
ConfigMap is still the one the client got, which is all a comparison of resource
versions can tell; so there is no version counter to bound. After the last
conflict, and after any other error, the operation fails and the reconcile with
it. Of an entry `firstSeen` and `lastSeen` are kept, which a clock that is set back
can bring out of order, and one flag for whether the rest has the format
`validateWorkloadState` asks for; an entry that is not valid makes `Save` fail
before its first call. `alone` is an observer: nobody else wrote since the client
loaded.

The refinement maps the ConfigMap to its document if that decodes, and the calls
of an operation to one phase. `Save` and `Load` of `DurableStore` happen at the
write, or at the get of a `Load` that finds a document.

### PolicySet

`Decode`, with all the checks and defaults of `validate.go`, and `Match`. The raw
types are what strict YAML decoding yields, `Unset` for an omitted field; a text
without such a reading is `Malformed`. Each `Valid` operator collects the early
returns of the function that compiles the same part, and each `compile` operator
what the function returns otherwise. `Usable` is what the rest of the program
needs of a policy so that no branch fails on it, and `Sound` what its readers rely
on. `Regexps`, `FullMatch`, `TimeZones`, `LabelKeys` and `LabelValues` stand for
the libraries that accept or refuse a string.

### Orchestrator

`Run` with its loop, the supervisors, the streams and the policy manager.
An object is a revision number and a flag that says whether it exists; `Labels`,
`HPATarget` and `Payload` give the contents of a revision. A watch is opened
without a resource version, so the API server first reports every object there is;
the workload supervisor opens two, and the second may fail. `Break` loses whatever
happens until the next watch. Unbuffered channels are rendezvous (`Serve`). The
workload and HPA forwarders change nothing anyone else sees and are one with the
delivery (`Forward`). The policy forwarder is a step of its own (`Convert`),
because it replaces the snapshot before it sends its event. A supervisor stops the
policy stream only after the forwarder's last event or when `Run` is about to
leave, so that no forwarder reloads after the next watch was opened.
`Transition.Reconcile` is one step here, which succeeds or fails; it uses the
snapshot that is current at that moment, and not the one at the time of the event.

### Coordinator

A process of each replica, the Lease they share, and rivals of which only their
hold of the Lease is seen. A step is one access to what another goroutine sees: a
context, an atomic flag, a channel, the Lease. `Started` lists the state of a
process. `elector` follows `LeaderElector.Run` of client-go, from how `election.go`
configures and uses it: the Lease is released first (`ReleaseOnCancel`), then the
leader's context cancelled, then `OnStoppedLeading` called. `starter` is
`OnStartedLeading` with the controller in it, `main` is `Coordinator.Run`. Any part
may fail at any time, a signal may come before the shutdown, a process may crash,
and a process that is down is started again, with or without its initial loads.
`causes` and `overtaken` are observers.

## 3. What the runs show

| Run | Specification | Checks | States |
|---|---|---|---|
| `transition` | `Spec` | `IntentRecorded`, `ForgetsOnlyDeleted`, `KeyIsolation` | 1.3 million |
| `history` | `HSpec` | `IntentRecorded`, `ExpiryNeverEarly`, `ExemptionHolds` | 3.9 million |
| `events` | `EFairSpec` | `TypeOK`, `IntentRecorded`, `IntentReturned`, `DownEnforced` | 390 000 |
| `schedule` | `Spec` | `MatchIsInstance`, `InstancesInOrder`, `InstanceIsStable` | 820 000 |
| `state_store` | `FairSpec` | `TypeOK`, `MalformedIsKept`, `WritesFit`, `EntriesSurvive`, `ImplementsDurableStore`, `OperationsReturn` | 130 000 |
| `orchestrator` | `ShutdownSpec` | `TypeOK`, `SnapshotIsSound`, `PolicyOnlyAdvances`, `OnlyAskedFor`, `RunReturns` | 250 000 |
| `orchestrator_settles` | `FairSpec` | `Converges` | 140 000 |
| `coordinator` | `FairSpec` | `OutcomeIsCause`, `QuietOnReturn`, `WorksUnderLease`, `LossStopsController`, `LeadsAgain`, `ReadyAgain` | 190 000 |
| `transition_long_window` | `Spec` | `IntentRecorded`, violated | |
| `history_delete` | `HSpec` | `DeletesOnlyExpired`, violated | |
| `schedule_skipped_midnight` | `Spec` | `OneIDPerInstance`, violated | |
| `coordinator_overlap` | `Spec` | `OneController`, violated | |

Deadlock is checked where the system never stops (`state_store`, `coordinator`). Elsewhere the
model's clock ends, or `Run` returns.

### Bounds

* `transition`: two workloads, so that a save carries a foreign entry; both are
  reconciled, but only the owner of one acts, and the other is not deleted
  (`OthersAreQuiet`), since workloads meet only in the document. Two objects
  per name, so that a recreated workload meets the entry of its predecessor; two
  images; three instants, one of them in a window and the last at `maxAge`. The four
  policies scale down or delete what is expired, and track all containers or one
  the workload does not have.
* `history`: two images and two tracking definitions, only one of which sees the
  difference; two objects; a window of two instants followed by a pause and a
  second window, so that a skip can outlive a redeploy and must not outlive its
  window; `maxAge` of two instants, reached inside and outside windows.
* `events`: an event on its way may be served before or after any number of
  reconciles from a list, and the events that find the place taken are lost. With
  `MaxEvents = 2` TLC finds no error either, in 900 000 states. Replica counts 0, 1
  and 2, so that the owner's choices differ from the target of 1, on both sides,
  and from one another; two adjacent windows with an instant before and after them,
  and expiry at the end.
* `schedule`: days of five minutes hold windows that start and end at every
  pair of minutes, the first and the last included; eight dates include the step
  from the last weekday to the first, and the change, of two minutes, comes at every
  instant, on both sides of Greenwich. No operator depends on the length of the day
  but through comparisons, and the theorems hold for every one.
  `schedule_skipped_midnight` has windows that start on two successive days.
* `state_store`: two clients suffice for a conflict, three attempts have a first,
  a middle and a last one. The limit is reached by the document alone and together
  with the other data. One of the values of an entry has its times out of order.
* `orchestrator` and `orchestrator_settles`: each takes two of the three
  supervisors. They share nothing but the loop, and the third would add requests
  of the same two kinds. Between them every supervisor, both kinds of request, an
  HPA that comes and goes, an invalid text between two valid ones, an empty
  selector and a tie of priorities occur. The texts use every field that has a
  default; that validation is right for all texts is a theorem.
* `coordinator`: one replica in full and one rival, who may take the Lease whenever
  it is free; failures, crashes and restarts are not bounded. Two replicas in full
  are only needed for `OneController`.

### Fairness

* `Transition` (run with `EFairSpec`): a reconcile that was started goes on (weak
  fairness of `Call`: one goroutine makes the calls one after the other). Every
  workload is reconciled again and again (strong fairness of `Start`: the ticker
  lists all of them, and the `select` of `Run` takes a case that is ready again and
  again, events or not). Nothing is assumed of the watch.
  Failures happen any number of times, but not forever (`<>[][Abort => Call]`: an
  `Abort` with the same outcome as the call is no failure). Time is
  not fair: it may stand still inside a window or outside of it, which stands for
  any stretch that is long compared to a reconcile.
* `StateStore`: a client that has begun an operation makes its next call. Nothing
  is assumed of the other writers, who may conflict with every attempt.
* `Orchestrator`: for `Converges` every goroutine that can go on does. `Serve`,
  `Tick` and `Finish` are branches of one `select`; Go chooses among the ready ones
  at random, so a branch that is ready again and again is taken (strong fairness).
  Failures end, except those that a cancelled context causes. For `RunReturns` much
  less is assumed (`ShutdownFairness`): goroutines look at their context at last.
* `Coordinator`: goroutines that can go on do, deadlines pass, pods are restarted,
  and a Lease that is free again and again is acquired at last. Nothing is assumed
  of the controller and of the HTTP server when they are told to stop:
  `LossStopsController` holds because the deadline ends the wait and the process.
  `LeadsAgain` and `ReadyAgain` speak of behaviours in which failures end, and say
  so themselves. Nor is it taken for granted that there are a valid policy text and
  a workload whose reconcile has the result "success", which alone makes the
  dependencies ready; `ReadyAgain` names them as its condition (`Supplied`).

### Where the code and its documents disagree

* `transition_long_window`. `handleRedeployDuringWindow` restores the replicas,
  and `Decide` then still works with the count read before. If the revision is
  expired as well, which takes a window instance at least as long as `maxAge`, the
  low count becomes the new snapshot.
* `history_delete`. The delete call has no precondition on UID or version, so a
  redeploy after the decision does not stop it. That, or a recreation, is the only
  way: the theorem `DeletesOnlyExpiredAsRead` covers every object that is still as
  it was read.
* `schedule_skipped_midnight`. Some zones west of Greenwich (America/Santiago,
  America/Havana) skip the hour after midnight. A day later, at 00:30,
  `local.AddDate(0, 0, -1)` asks for a local time that does not exist and gets 23:30
  of two days before. For that hour `WindowInstanceID` gives a window that crosses
  midnight the date of another instance, and `matches` looks at the wrong start day:
  with two successive start days the identifier changes and changes back, which
  drops a skip; with one, the window closes, and one that started the day before
  that opens. These minutes of that day are the only exception: the theorems
  of `ScheduleProofs` cover everything else.
* `coordinator_overlap`. With `ReleaseOnCancel` the Lease is free as soon as the
  context is cancelled. Another replica acquires it and starts its controller while
  the old one is still inside a call. Together with the way `Save` works (below),
  the old controller can take back entries the new one has saved. `WorksUnderLease`
  says how far this goes: a controller whose replica is not in the Lease has been
  told to stop, or is about to be, by the call that gave the Lease up.

More limits of the code, found with the same modules:

* With `ExpiredTarget = 1` and `ScheduledTarget = 0`, TLC finds `IntentRecorded`
  violated: the override check compares the live count with the *scheduled* target
  only, so a workload held at a higher *expired* target when a window opens is
  taken to be overridden by its owner; its snapshot is dropped, and the next
  expired decision captures the low count as the owner's. This and
  `transition_long_window` show that the conditions of the theorem
  `IntentIsRecorded` are needed.
* The age of a revision restarts when a reconcile *sees* another image or tracking
  definition. If a workload goes from one image to another and back while no
  reconcile gets through, it keeps its age, although `docs/design.md` (line 67) says
  that changes set a new baseline. `ExpiryNeverEarly` therefore measures from when
  the images first ran under the object, not from when they last came back.
* A leader whose initial load of the state failed and that has no workload to manage
  stays unready though nothing fails: reconciles of workloads that no policy selects
  end as "skipped". TLC finds `ReadyAgain` violated without its condition.
* Where an hour is repeated, a window that ends in it closes, opens again and has the
  identifier it had before; a skip dropped at the first closing is not taken up.
* When the save after a successful delete fails, the entry stays: the workload is
  not listed any more, and `CleanupDeleted` has no caller.
* `Coordinator.Run` looks at `leaderStarted` once. If `OnStartedLeading` has passed
  its check of the context and not yet set that flag, `Run` returns without waiting
  for the controller, which then starts, and sets readiness, under a cancelled
  context. Without the exemption `overtaken` TLC finds `QuietOnReturn` violated in
  this way. As `main` ends the process at once, it is a matter of moments.
* An empty selector next to `namePatterns` is accepted (`compileTarget` does not
  pass it on to `compileSelector`, whose own check is never reached), although
  `README.md` and `docs/troubleshooting.md` of the repository say that empty
  selectors reject the update. It selects nothing (`OnlyAskedFor`).
* With `MaxUID = 2` in `Events.cfg`, TLC finds that a watch event of the previous
  object of a name, served after the workload was recreated, scales the new object
  down with a snapshot stored under the old UID. The next reconcile discards it
  and captures the low count. `events` therefore keeps to one object per name.
* `Save` gets the newest ConfigMap and replaces its document by one that was
  loaded before, so the resource version does not protect what another writer
  saved in between (`EntriesSurvive` needs its condition `alone`). That there is
  one leader at a time does, as far as that is so.
* With an expired target above the scheduled one, a workload that is held down
  for a window is scaled *up* when it expires: `downDecision` compares the target
  with the snapshot and not with the live count.

## 4. What is proved

The theorems hold for every value of the constants that the named assumptions
of the modules admit.

`TransitionProofs`:

* `TypeCorrect`: `Spec => []TypeOK`. Inductive together with one fact, that a
  pending `redeployScale` has a snapshot to restore (`TypeInv`).
* `IntentIsRecorded`: `IntentRecorded` is invariant if `TargetsAgree` (one
  scheduled target for all policies, and no expired target above it) and
  `WindowsAreShort` (no revision expires within the window instance that first saw
  it). `IntentRecorded` is not inductive: whether a scale write is harmless depends
  on what the reconcile knows, and on how its locals relate to a store and an
  object that change meanwhile. The invariant `Inductive` adds
  `UIDsGrow` (a local copy is never newer than the object, and if it is older, the
  count is contested), `DocCurrent` (the local document is the durable one but for
  the entry in work), `Recorded` (a workload without a snapshot runs at its owner's
  count; with one, at that count or below every target), `CallFacts` (what each
  pending call relies on) and `Anchored` (an entry's window instance was open no
  later than its changed revision was first seen, which is what excludes expiry
  after a redeploy in a short window). There is one lemma per call or family of
  calls, and `InductiveNext` puts them together.
* `KeysAreIsolated` (`KeyIsolation`) and `EntriesOutliveObjects`
  (`ForgetsOnlyDeleted`), under no condition on policies and windows. Here the
  actions are first reduced to a few *shapes* (`Shaped`: a step from outside, a
  call on the object, a save of the entry in work, a save without it, a load, a
  start, a beginning), and what follows argues about the shapes. The invariant
  `OwnedInv` says that the local document agrees with the store on all other keys
  (`OthersCurrent`), that entries and locals name objects that there are or were
  (`Attributed`), that the object of a save after a deletion is not alive
  (`DeletionAccepted`), and that a pending scale or delete call has the reason
  `Decide` gave it (`CallJustified`).

`TransitionHistoryProofs` builds on `OwnedInv`:

* `NoEarlyExpiry`: `ExpiryNeverEarly`. The invariant `AgeInductive` dates every
  entry, durable or in work: some template with the entry's revision was first run
  by the entry's object at the entry's `firstSeen` or earlier (`Dated`). It must
  speak about entries of *this* UID only, since those of an earlier object are
  still in the store when the next one is created.
* `DeletesOnlyExpiredAsRead`: at a pending deletion, an object that has the UID and
  the images the reconcile read first ran these images at least `maxAge` ago. It is
  stated in the proof module, as the counterpart of `history_delete`.
* `ExemptionsHold`: `ExemptionHolds`, if `InstancesAreStretches`. The invariant
  `SkipInductive` relates the durable skip to the observer: while an instance is
  not over, its entry has the skip (`EntrySkips`), and so has the document of a
  reconcile that works on the live object (`DocumentSkips`); a reconcile for an
  earlier object exempts nothing. The condition says that no policy that may be
  selected has an instance closed between two instants at which a policy has it
  open. It is needed because `reconcileWindowCycle` drops a skip as soon as it sees
  another instance or none. `InstanceIsOneStretch` of `ScheduleProofs` shows that
  a single window meets it in local time, but for a repeated hour and the minutes
  of `schedule_skipped_midnight`; overlapping windows, and policies with different
  windows that take turns, do not, and there the code drops the skip (property 8
  of `.kiro/specs/skip-scaledown-on-redeploy/design.md` intends it for overlapping
  windows).

`TransitionEventsProofs`: `EventsTypeCorrect`, `EventsKeepEntries` (`KeyIsolation`
and `ForgetsOnlyDeleted` with any number of objects per name) and
`EventsIntentIsRecorded` (`IntentRecorded`, under the conditions of
`IntentIsRecorded` and with `MaxUID = 1`). Copies on their way are never newer
than the object (`CopiesOK`), which makes a reconcile of a copy one that began
from a list earlier. With `MaxUID = 2` the last theorem is false, as section 3 says.

`ScheduleProofs`, for every schedule, every length of the day and of the clock
change: `MatchesInstances`, `OrderedInstances` and `InstanceIsOneStretch`, from lemmas
about one window and one or more instants; and `InstancesAreStable`
(`InstanceIsStable`), for any finite or infinite set of windows that pause for longer
than the change. All of them are about instants and windows that are not `Misled`:
there the day before is the previous date (`DayBeforeDate`), so the operators of the
code are those of the lemmas (`PlainMatches`, `PlainDate`). The last theorem needs that the window with the least name exists when one is open (`LeastNumber`),
which comes from the well-foundedness of the natural numbers.

`StateStoreProofs`, for any number of clients, keys and documents:

* `TypeCorrect`, `MalformedSurvives`, `WritesAlwaysFit`, `EntriesAlwaysSurvive`.
  The inductive facts are that while a client's copy is fresh, what it checked about
  the ConfigMap (the document decodes, the sum fits, the other data is what it
  copied) is still so, and that while a client is alone its document differs from
  the durable one in at most the entry it is saving.
* `Implements`: `Spec => ImplementsDurableStore`. Every step of a call is a step of
  `DurableStore` or leaves its variables alone. It needs that documents in work are
  valid, which `Save` establishes before its first call.

`PolicySetProofs`: `AcceptedIsSound`: every text `Decode` accepts compiles to a
sound set, along one lemma for each part of a policy. `MatchSelects` says that what
`Match` returns is a policy of the set whose target matches.

`OrchestratorProofs`, for any workloads, autoscalers, labels, set of supervisors
and sequence of policy texts: `TypeCorrect`, `SnapshotAlwaysSound`,
`PolicyAdvances` and `AskedFor`. That the snapshot only advances depends on what is
still on its way: the invariant `Inductive` adds to the types that events are about
objects of their source (`Reported`) and that the policy events in the stream come
in the order of the changes, none older than the snapshot and none newer than the
ConfigMap (`SnapshotInOrder`). A watch that is opened again starts from the current
revision, which is why a restart cannot bring an older text back. The other three
theorems use the same invariant together with `PolicySetProofs`.

`CoordinatorProofs`, for any number of replicas and rivals:

* `ReturnsTheCause` (`OutcomeIsCause`) and `ReturnsQuietly` (`QuietOnReturn`). Both
  speak about one process, and so does the invariant (`Good`): how far `Run` is and
  what that says about its contexts, which ways an election and a controller can
  have ended while the process was to go on, and that past the wait for the
  controller none is left. Each is about state that other goroutines change between
  two steps of `Run`. There is one lemma per goroutine.
* `LeaseCovers` (`WorksUnderLease`), which also needs that an elector that leads is
  in the Lease (`LeadHolds`), a fact about all replicas together.

Every invariant and every action property of the passing runs is thus a theorem.
The inductive invariants were checked by TLC on the same instances first. Only
model-checked are the properties under fairness (`IntentReturned`, `DownEnforced`,
`OperationsReturn`, `RunReturns`, `Converges`, `LossStopsController`,
`LeadsAgain`, `ReadyAgain`): proofs of liveness are out of reach of the installed provers.

## 5. Not modelled

* YAML and JSON syntax, durations, regular expressions, time zone data, label
  syntax and canonical hashing: each is the outcome the code sees.
* `state/cleanup.go`: no caller.
* Metrics, HTTP handlers, logging, environment variables and the construction of
  the parts; `hack/`.
* A wall clock that is set back in `Transition`, which reads one clock that never
  goes back. `Schedule` has the clock changes, and `StateStore` the entries a clock
  that was set back produces.
* What a watch event of an object of a wrong type, or of an unknown kind, does: it
  is an error event and part of `Break`.

## 6. Plan

1. `Schedule` with `Transition`: the table of windows of a policy built from its
   schedule, so that `InstancesAreStretches` and `WindowsAreShort` become theorems
   about schedules of one window.
2. Two controllers, one of which is losing its lease, reconciling with their own
   documents on one store, with the count of an owner as the property.
