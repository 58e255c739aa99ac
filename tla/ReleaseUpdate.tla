--------------------------- MODULE ReleaseUpdate ---------------------------
(***************************************************************************)
(* The update of an instance to another release (independent-update.ts,    *)
(* activateRelease, with the hooks update.ts gives it).                    *)
(*                                                                         *)
(* An updater takes the instance's update lock, waits until no job runs,   *)
(* stops the services, installs the candidate, moves the pin and starts    *)
(* the services again.  A journal names the phase; whatever goes wrong     *)
(* after it was written, this updater or the next goes back to the release *)
(* before.  The lock and the journal are also the barrier of the runner:   *)
(* it looks at both before and after each claim.                           *)
(*                                                                         *)
(* Several updaters (a person's, the automatic one, a --recover-only run), *)
(* the services, the watchdog and the person's start and stop interleave; an updater or  *)
(* a service may die between any two steps.  One instance is modelled; the *)
(* instances share nothing in a switch.  A switch of storage is backwards  *)
(* compatible and keeps the queue, so the queue is one request here; who   *)
(* runs it and how is in JobStore.  The older shared update and its        *)
(* journal are left out.  A start that was overtaken by a newer one is     *)
(* taken to have ended.                                                    *)
(***************************************************************************)
EXTENDS Naturals

CONSTANTS
  Updaters,
  None, Mixed,
  Latest,      \* bound: releases are numbered, 0 is the checkout before releases
  MaxRequests, \* bound: requests a user makes
  MaxFaults    \* bound: deaths and failures injected

Releases == 0..Latest

ASSUME ReleaseAssumption ==
  /\ None \notin Releases \cup Updaters /\ Mixed \notin Releases
  /\ Latest \in Nat /\ MaxRequests \in Nat /\ MaxFaults \in Nat

VARIABLES
  journal, intent,           \* release-transaction.json, release-target.json
  pin,                       \* runtime-release.json, 0 stands for: no file
  installed,                 \* what the links of the state directory lead to
  lock,                      \* the updater that holds update.lock
  gateway, runner, launcher, \* the release each service runs, None when down
  launch,                    \* a start of the services on its way in the pane
  halted,                    \* service-stopped.json: a person stopped the app
  row, worker,               \* the request, and where the runner is with it
  updater,                   \* the memory of each updater
  head, made, faults         \* main's release, requests made, faults injected

disk     == <<journal, intent, pin, installed, lock>>
services == <<gateway, runner, launcher, launch, halted>>
queue    == <<row, worker, made>>
vars     == <<disk, services, queue, updater, head, faults>>

Phases == {"waiting", "prepared", "stopped", "activated", "healthy", "rolling-back"}
Transaction ==
  [phase : Phases, previous : Releases, candidate : Releases, running : BOOLEAN,
   down : BOOLEAN] \* history: the gateway was down when the switch was recorded

ASSUME NoneAssumption == None \notin Transaction

Switching == {"stop", "bridge", "stopped", "install", "installing", "pin", "pinned", "start",
              "health", "healthy", "clear"}
Places == {"off", "ready", "locking", "locked", "observe", "drain", "drained", "undo",
           "release"} \cup Switching

Idle == [at |-> "off", recovers |-> FALSE, candidate |-> 0, tx |-> None, back |-> FALSE]

TypeOK ==
  /\ {journal, intent} \subseteq Transaction \cup {None}
  /\ pin \in Releases /\ installed \in Releases \cup {Mixed}
  /\ lock \in Updaters \cup {None}
  /\ {gateway, runner, launcher, launch} \subseteq Releases \cup {None} /\ halted \in BOOLEAN
  /\ row \in {"none", "queued", "running"}
  /\ worker \in {"idle", "checked", "claimed", "working"}
  /\ updater \in [Updaters -> [at : Places, recovers : BOOLEAN, candidate : Releases,
                               tx : Transaction \cup {None}, back : BOOLEAN]]
  /\ head \in Releases /\ made \in 0..MaxRequests /\ faults \in 0..MaxFaults

Init ==
  /\ journal = None /\ intent = None /\ pin = 0 /\ installed = 0 /\ lock = None
  /\ gateway = 0 /\ runner = 0 /\ launcher = 0 /\ launch = None /\ halted = FALSE
  /\ row = "none" /\ worker = "idle"
  /\ updater = [u \in Updaters |-> Idle]
  /\ head = 0 /\ made = 0 /\ faults = 0

Fault == faults < MaxFaults /\ faults' = faults + 1

\* readReleaseTransaction.
Pending == IF journal # None THEN journal ELSE intent

At(u, place) == updater[u].at = place
Go(u, place) == updater' = [updater EXCEPT ![u].at = place]
Ends(u)      == updater' = [updater EXCEPT ![u] = Idle]

\* All services run.
Up == gateway # None /\ runner # None /\ launcher # None

\* The release this updater is switching to.
Goal(u) == IF updater[u].back THEN updater[u].tx.previous ELSE updater[u].tx.candidate

-----------------------------------------------------------------------------
(* An updater.                                                             *)

\* independentMain: the candidate is the head of main when it was built.
Update(u) ==
  /\ At(u, "off") /\ head # 0
  /\ updater' = [updater EXCEPT ![u] =
       [Idle EXCEPT !.at = "ready", !.candidate = head]]
  /\ UNCHANGED <<disk, services, queue, head, faults>>

\* --recover-only takes the candidate of the transaction it finds.
Recover(u) ==
  /\ At(u, "off") /\ Pending # None
  /\ updater' = [updater EXCEPT ![u] =
       [Idle EXCEPT !.at = "ready", !.recovers = TRUE, !.candidate = Pending.candidate]]
  /\ UNCHANGED <<disk, services, queue, head, faults>>

\* The same release neither takes the lock nor restarts anything.
LookFirst(u) ==
  /\ At(u, "ready")
  /\ IF Pending = None /\ pin = updater[u].candidate THEN Ends(u) ELSE Go(u, "locking")
  /\ UNCHANGED <<disk, services, queue, head, faults>>

\* waitForUpdateLease: polled, so the waiting updaters get it in any order.
Acquire(u) ==
  /\ At(u, "locking") /\ lock = None
  /\ lock' = u /\ Go(u, "locked")
  /\ UNCHANGED <<journal, intent, pin, installed, services, queue, head, faults>>

\* finally: lock.release().
Release(u) ==
  /\ At(u, "release")
  /\ lock' = None /\ Ends(u)
  /\ UNCHANGED <<journal, intent, pin, installed, services, queue, head, faults>>

\* Mutant: what was activated counts as done.
SettledEarly(t) == t.phase \in {"activated", "healthy"}

Settled(t) == t.phase = "healthy"

GoesBack(u, t) ==
  updater' = [updater EXCEPT ![u] = [@ EXCEPT !.at = "undo", !.tx = t, !.back = TRUE]]

\* What the lock's new holder finds, read again under the lock.
FindNothing(u) ==
  /\ At(u, "locked")
  /\ Pending # None => Pending.phase = "waiting" /\ ~updater[u].recovers
  /\ Go(u, "observe")
  /\ UNCHANGED <<disk, services, queue, head, faults>>

FindIntent(u) ==
  /\ At(u, "locked") /\ Pending # None
  /\ Pending.phase = "waiting" /\ updater[u].recovers
  /\ intent' = None /\ Go(u, "release")
  /\ UNCHANGED <<journal, pin, installed, lock, services, queue, head, faults>>

FindSettled(u) ==
  /\ At(u, "locked") /\ Pending # None /\ Settled(Pending)
  /\ journal' = None /\ Go(u, "release")
  /\ UNCHANGED <<intent, pin, installed, lock, services, queue, head, faults>>

\* Also when the candidate of a settled switch is no longer valid.
FindUnfinished(u) ==
  /\ At(u, "locked") /\ Pending # None /\ Pending.phase # "waiting"
  /\ IF Settled(Pending) THEN Fault ELSE faults' = faults
  /\ GoesBack(u, Pending)
  /\ UNCHANGED <<disk, services, queue, head>>

\* hooks.observe.
Running == gateway # None

Observe(u) ==
  /\ At(u, "observe")
  /\ IF pin = updater[u].candidate
       THEN intent' = None /\ Go(u, "release")
       ELSE LET t == [phase |-> "waiting", previous |-> pin, candidate |-> updater[u].candidate,
                      running |-> Running, down |-> gateway = None]
            IN intent' = t /\ updater' = [updater EXCEPT ![u].at = "drain", ![u].tx = t]
  /\ UNCHANGED <<journal, pin, installed, lock, services, queue, head, faults>>

\* waitForRunningJobs: done, a dead runner's job is recovered, or the wait ends
\* for another reason (out of time, interrupted, the pane is not there).
Drained(u) ==
  /\ At(u, "drain") /\ row # "running" /\ Go(u, "drained")
  /\ UNCHANGED <<disk, services, queue, head, faults>>
DrainRecovers(u) ==
  /\ At(u, "drain") /\ row = "running" /\ runner = None
  /\ row' \in {"none", "queued"}
  /\ UNCHANGED <<disk, services, worker, made, updater, head, faults>>
DrainGivesUp(u) ==
  /\ At(u, "drain")
  /\ intent' = None /\ Go(u, "release")
  /\ UNCHANGED <<journal, pin, installed, lock, services, queue, head, faults>>

\* save: a record of a phase after waiting replaces the intent.  One step: the
\* journal hides an intent that a crash between the two writes left behind, and
\* the way back removes it.
Save(u, from, phase, to) ==
  /\ At(u, from)
  /\ journal' = [updater[u].tx EXCEPT !.phase = phase] /\ intent' = None
  /\ Go(u, to)
  /\ UNCHANGED <<pin, installed, lock, services, queue, head, faults>>

\* recover starts.
Undo(u) == Save(u, "undo", "rolling-back", "stop")

\* stopServices: the launcher, its runner, then the gateway.  A runner that is
\* told to stop ends the claim it is in the middle of.
StopRunner(u) ==
  /\ At(u, "stop") /\ worker # "claimed"
  /\ launcher' = None /\ runner' = None /\ worker' = "idle"
  /\ Go(u, "bridge")
  /\ UNCHANGED <<disk, gateway, launch, halted, row, made, head, faults>>
StopGateway(u) ==
  /\ At(u, "bridge")
  /\ gateway' = None
  /\ Go(u, IF updater[u].back THEN "install" ELSE "stopped")
  /\ UNCHANGED <<disk, runner, launcher, launch, halted, queue, head, faults>>

\* installInstanceRuntime: link by link.
BeginInstall(u) ==
  /\ At(u, "install") /\ installed' = Mixed /\ Go(u, "installing")
  /\ UNCHANGED <<journal, intent, pin, lock, services, queue, head, faults>>
Install(u) ==
  /\ At(u, "installing") /\ installed' = Goal(u) /\ Go(u, "pin")
  /\ UNCHANGED <<journal, intent, pin, lock, services, queue, head, faults>>

\* Where a switch goes on when the services were to stay down.
AfterServices(u) == IF updater[u].back THEN "clear" ELSE "healthy"
StartOrNot(u) == IF updater[u].tx.running THEN "start" ELSE AfterServices(u)

\* writeRuntimeRelease.
MovePin(u) ==
  /\ At(u, "pin") /\ pin' = Goal(u)
  /\ Go(u, IF updater[u].back THEN StartOrNot(u) ELSE "pinned")
  /\ UNCHANGED <<journal, intent, installed, lock, services, queue, head, faults>>

\* Mutant: what an earlier start brought up meanwhile is left running.
StartOnTop(u) ==
  /\ At(u, "start") /\ launch' = Goal(u)
  /\ Go(u, "health")
  /\ UNCHANGED <<disk, gateway, runner, launcher, halted, queue, head, faults>>

\* restartServices: stopServices once more, then a start in the service's pane;
\* its token replaces the token of an earlier one.
Start(u) ==
  /\ At(u, "start") /\ worker # "claimed"
  /\ launcher' = None /\ runner' = None /\ gateway' = None /\ worker' = "idle"
  /\ launch' = Goal(u)
  /\ Go(u, "health")
  /\ UNCHANGED <<disk, halted, row, made, head, faults>>

\* waitForStableHealth with updatedServicesHealthy.
Healthy(u) ==
  /\ At(u, "health")
  /\ gateway = Goal(u) /\ Up
  /\ Go(u, AfterServices(u))
  /\ UNCHANGED <<disk, services, queue, head, faults>>

Clear(u) ==
  /\ At(u, "clear")
  /\ journal' = None /\ Go(u, "release")
  /\ UNCHANGED <<intent, pin, installed, lock, services, queue, head, faults>>

\* Mutant: the lock is not released in a finally block.
GivesUpHolding(u) == Ends(u) /\ lock' = lock

\* A failed way back keeps the journal and gives the lock back.
GivesUp(u) == Ends(u) /\ lock' = None

\* Any operation of the switch may throw; a start that comes to nothing does.
\* Before the first record there is nothing to go back from.
Fails(u) ==
  /\ updater[u].at \in Switching \cup {"drained", "undo"}
  /\ IF At(u, "health") /\ launch = None /\ gateway # Goal(u) THEN faults' = faults ELSE Fault
  /\ IF updater[u].back \/ At(u, "drained") THEN GivesUp(u)
                                           ELSE GoesBack(u, updater[u].tx) /\ lock' = lock
  /\ UNCHANGED <<journal, intent, pin, installed, services, queue, head>>

\* The updater dies; its lock is stale and can be taken.
Dies(u) ==
  /\ ~At(u, "off") /\ Fault
  /\ Ends(u) /\ lock' = IF lock = u THEN None ELSE lock
  /\ UNCHANGED <<journal, intent, pin, installed, services, queue, head>>

-----------------------------------------------------------------------------
(* The services.                                                           *)

\* shouldPause: updateIsRunning or updateTransactionPending.
Paused == lock # None \/ journal # None

\* Startup recovery settles the row of a job nobody works on, but not while an
\* update is pending, and not later either.
DaemonStarts(release) ==
  /\ runner' = release
  /\ IF row = "running" /\ journal = None THEN row' \in {"none", "queued"} ELSE row' = row

RunnerChecks ==
  /\ runner # None /\ worker = "idle" /\ ~Paused
  /\ worker' = "checked"
  /\ UNCHANGED <<disk, services, row, made, updater, head, faults>>
RunnerClaims ==
  /\ worker = "checked"
  /\ IF row = "queued" THEN row' = "running" /\ worker' = "claimed"
                       ELSE row' = row /\ worker' = "idle"
  /\ UNCHANGED <<disk, services, made, updater, head, faults>>

\* Mutant: the barrier is not looked at again.
StartsWorkAtOnce == worker' = "working" /\ row' = row

StartsWork ==
  IF Paused THEN row' = "queued" /\ worker' = "idle"
            ELSE row' = row /\ worker' = "working"

RunnerRechecks ==
  /\ worker = "claimed"
  /\ StartsWork
  /\ UNCHANGED <<disk, services, made, updater, head, faults>>
JobEnds ==
  /\ worker = "working" /\ worker' = "idle" /\ row' = "none"
  /\ UNCHANGED <<disk, services, made, updater, head, faults>>
RunnerDies ==
  /\ runner # None /\ Fault
  /\ runner' = None /\ worker' = "idle"
  /\ UNCHANGED <<disk, gateway, launcher, launch, halted, row, made, updater, head>>
LauncherRestarts ==
  /\ launcher # None /\ runner = None
  /\ DaemonStarts(launcher)
  /\ UNCHANGED <<disk, gateway, launcher, launch, halted, worker, made, updater, head, faults>>

\* deliver: events are refused while the journal is pending.
Request ==
  /\ gateway # None /\ journal = None /\ row = "none" /\ made < MaxRequests
  /\ row' = "queued" /\ made' = made + 1
  /\ UNCHANGED <<disk, services, worker, updater, head, faults>>
GatewayDies ==
  /\ gateway # None /\ Fault
  /\ gateway' = None
  /\ UNCHANGED <<disk, runner, launcher, launch, halted, queue, updater, head>>

\* stopOrphanedUpdateCandidate.
GatewayLeaves ==
  /\ gateway # None /\ journal # None /\ lock = None
  /\ gateway' = None
  /\ UNCHANGED <<disk, runner, launcher, launch, halted, queue, updater, head, faults>>

\* codex-channel.sh in the pane, authorised by the updater's token: refused when
\* its checkout is not the pinned one, else it starts what is not running.
LaunchRefused ==
  /\ launch # None /\ launch # pin /\ launch' = None
  /\ UNCHANGED <<disk, gateway, runner, launcher, halted, queue, updater, head, faults>>
LaunchRunner ==
  /\ launch # None /\ runner = None
  /\ launcher' = launch /\ DaemonStarts(launch)
  /\ UNCHANGED <<disk, gateway, launch, halted, worker, made, updater, head, faults>>
LaunchGateway ==
  /\ launch # None /\ runner # None
  /\ gateway' = launch /\ launch' = None
  /\ UNCHANGED <<disk, runner, launcher, halted, queue, updater, head, faults>>

\* service-control.ts under the same lock, refused while a journal exists.  A
\* start wants all services down and a stop wants no job running; forced stops
\* are left out.
PersonStarts ==
  /\ lock = None /\ journal = None /\ {gateway, runner, launcher} = {None}
  /\ gateway' = pin /\ launcher' = pin /\ DaemonStarts(pin) /\ halted' = FALSE
  /\ UNCHANGED <<disk, launch, worker, made, updater, head, faults>>
PersonStops ==
  /\ lock = None /\ journal = None /\ row # "running"
  /\ gateway' = None /\ runner' = None /\ launcher' = None /\ worker' = "idle"
  /\ halted' = TRUE
  /\ UNCHANGED <<disk, launch, row, made, updater, head, faults>>

\* recoverManagedService, unless a job runs: what is left is stopped and a start
\* follows, of the release the watchdog read from the links before it had the
\* lock.  When the pin has moved since then that start is refused.
WatchdogRecovers ==
  /\ lock = None /\ journal = None /\ ~halted /\ ~Up
  /\ runner # None => row # "running"
  /\ worker' = "idle"
  /\ \E root \in 0..head :
       IF root = pin
         THEN gateway' = pin /\ launcher' = pin /\ DaemonStarts(pin)
         ELSE gateway' = None /\ launcher' = None /\ runner' = None /\ row' = row
  /\ UNCHANGED <<disk, launch, halted, made, updater, head, faults>>

NewRelease ==
  /\ head < Latest /\ head' = head + 1
  /\ UNCHANGED <<disk, services, queue, updater, faults>>

-----------------------------------------------------------------------------
Find(u)   == FindNothing(u) \/ FindIntent(u) \/ FindSettled(u) \/ FindUnfinished(u)
Drain(u)  == Drained(u) \/ DrainRecovers(u) \/ DrainGivesUp(u)
Saves(u)  ==
  \/ Save(u, "drained", "prepared", "stop")
  \/ Save(u, "stopped", "stopped", "install")
  \/ Save(u, "pinned", "activated", StartOrNot(u))
  \/ Save(u, "healthy", "healthy", "clear")
Step(u) ==
  \/ LookFirst(u) \/ Acquire(u) \/ Find(u) \/ Observe(u) \/ Drain(u) \/ Saves(u) \/ Undo(u)
  \/ StopRunner(u) \/ StopGateway(u) \/ BeginInstall(u) \/ Install(u) \/ MovePin(u)
  \/ Start(u) \/ Healthy(u) \/ Clear(u) \/ Release(u) \/ Fails(u)

Launching == LaunchRefused \/ LaunchRunner \/ LaunchGateway
Worker    == RunnerChecks \/ RunnerClaims \/ RunnerRechecks \/ JobEnds
Service   == Worker \/ LauncherRestarts \/ Request \/ GatewayLeaves \/ RunnerDies \/ GatewayDies

Next ==
  \/ \E u \in Updaters : Update(u) \/ Recover(u) \/ Step(u) \/ Dies(u)
  \/ Launching \/ Service \/ PersonStarts \/ PersonStops \/ WatchdogRecovers \/ NewRelease

\* Updaters, services and starts keep going.  Somebody asks for the recovery of
\* a switch that was left: the watchdog reports it, and each start runs it.
Fairness ==
  /\ \A u \in Updaters : WF_vars(Step(u)) /\ WF_vars(journal # None /\ Recover(u))
  /\ WF_vars(Worker) /\ WF_vars(LauncherRestarts) /\ WF_vars(Launching)

Spec == Init /\ [][Next]_vars /\ Fairness

-----------------------------------------------------------------------------
(* Properties.                                                             *)

\* The updater never stops a runner in the middle of a job: the wait, the lock
\* and the second look after the claim leave no gap, also on the way back, which
\* does not wait at all (README.md: running work is not interrupted).
NoWorkCutOff ==
  [][\A u \in Updaters :
       (At(u, "stop") /\ updater'[u].at = "bridge") \/ (At(u, "start") /\ updater'[u].at = "health")
         => worker # "working"]_vars

\* Once the journal is gone the switch is whole: links, pin and whatever runs
\* are of one release, wherever an updater died and whatever it had started.
SwitchIsWhole ==
  journal = None => installed = pin /\ {gateway, runner, launcher} \subseteq {pin, None}

\* A journal goes only when its switch was decided: forward after the candidate
\* was seen healthy, else all the way back, whoever finishes it.
SwitchIsDecided ==
  [][journal # None /\ journal' = None =>
       pin = IF journal.phase = "healthy" THEN journal.candidate ELSE journal.previous]_vars

\* An app whose gateway was down when its switch was recorded is stopped when the
\* switch is over, forward or back, also when a dead runner or an earlier start
\* left something behind (README.md: a stopped app stays stopped).
StoppedStaysStopped ==
  [][journal # None /\ journal' = None /\ journal.down =>
       {gateway, runner, launcher} = {None}]_vars

\* The variables are typed and a finished switch is whole.
Safety == TypeOK /\ SwitchIsWhole

\* A switch ends as it was decided, and leaves a stopped app stopped.
DecisionKept == SwitchIsDecided /\ StoppedStaysStopped

\* An unfinished switch does not stay: somebody who asks for its recovery often
\* enough gets past it, however often updaters and services died before.
SwitchEnds == journal # None ~> journal = None

\* zerokun/README.md: `zerochan update --recover-only` recovers the unfinished
\* switch.  It never switches to a candidate itself.
RecoveryOnlyGoesBack ==
  \A u \in Updaters : updater[u].recovers /\ updater[u].at \in Switching => updater[u].back

=============================================================================
