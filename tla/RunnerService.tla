---------------------------- MODULE RunnerService ----------------------------
(***************************************************************************)
(* Who may run the job runner, and who may stop it.  The runner launcher   *)
(* (runner-launcher.ts) keeps one runner alive: it records an intent, then *)
(* spawns a bootstrap shell whose helper must publish its own generation   *)
(* in that receipt before it becomes the runner (runner-launch-receipt.ts).*)
(* Launchers are killed between any two steps and a later one takes over   *)
(* what they left.  Service control (service-control.ts) stops, forces,    *)
(* starts, repairs and recovers the whole service under the update lock,   *)
(* while the runner it finds may just be claiming a job (job-runner.ts).   *)
(* One launcher lives at a time (starter lock) and one process holds the   *)
(* runner lock; process observations are exact.                            *)
(***************************************************************************)
EXTENDS Naturals, FiniteSets

CONSTANTS
  MaxRunners,  \* bound: bootstrap shells ever spawned
  MaxOps,      \* bound: service-control operations
  MaxFaults,   \* bound: kills, failed startups and waits that run out
  Windows      \* narrow races to admit: "unpinned" (a spawned shell whose
               \* identity cannot be read), "slow" (a signalled process outlasts
               \* the operator's wait)

ASSUME RunnerServiceAssumption ==
  /\ MaxRunners \in Nat /\ MaxOps \in Nat /\ MaxFaults \in Nat

Runners == 1 .. MaxRunners
Locked == {"recover", "idle", "claiming", "claimed", "working"}
Owning == Locked \cup {"boot"}

VARIABLES
  receipt,  \* the durable launch receipt
  life,     \* every spawned generation, from bootstrap shell to runner loop
  frozen,   \* generations stopped by SIGSTOP
  term,     \* runners with a SIGTERM their handler has not acted on
  launch,   \* the launcher and what it knows
  gateway,  \* the Slack gateway is up
  job,      \* the row of one job
  op,       \* the service-control operation that holds the update lock
  pause,    \* the pause request for a runner, and its acknowledgement
  marker,   \* the intentional-stop marker
  last,     \* outcome of the last operation
  ops, faults  \* bounds used

vars == <<receipt, life, frozen, term, launch, gateway, job, op, pause, marker, last,
          ops, faults>>

NoReceipt == [state |-> "none", owner |-> "dead", runner |-> 0]
Off == [step |-> "off", child |-> 0, shut |-> FALSE]
NoOp == [kind |-> "none", step |-> "none", back |-> "none", target |-> 0, round |-> 0,
         base |-> "none"]
NoPause == [runner |-> 0, ack |-> FALSE]

OpSteps == {"none", "check", "quiesce", "pause", "ack", "acked", "frozen", "leaving",
            "killing", "launcher", "gone", "receipt", "named", "closing", "gateway",
            "final", "force", "forceRunner", "forceLauncher", "forceCheck", "repair",
            "restart", "health", "undo", "reap", "disown"}

TypeOK ==
  /\ receipt \in [state : {"none", "prepared", "published"}, owner : {"live", "dead"},
                  runner : 0 .. MaxRunners]
  /\ life \in [Runners -> Owning \cup {"none", "shell", "dead"}]
  /\ frozen \in SUBSET Runners
  /\ term \in SUBSET Runners
  /\ launch \in [step : {"off", "look", "spawn", "pin", "failed", "supervise", "adopt",
                         "bridge"}, child : 0 .. MaxRunners, shut : BOOLEAN]
  /\ gateway \in BOOLEAN
  /\ job \in {"none", "queued", "running", "done", "failed"}
  /\ op \in [kind : {"none", "stop", "force", "start", "recover"}, step : OpSteps,
             back : {"none", "launcher", "closing"}, target : 0 .. MaxRunners,
             round : 0 .. 3, base : {"none", "queued", "empty"}]
  /\ pause \in [runner : 0 .. MaxRunners, ack : BOOLEAN]
  /\ marker \in BOOLEAN
  /\ last \in {"none", "stopped", "running", "failed"}
  /\ ops \in 0 .. MaxOps /\ faults \in 0 .. MaxFaults

Init ==
  /\ receipt = NoReceipt
  /\ life = [g \in Runners |-> "none"]
  /\ frozen = {} /\ term = {}
  /\ launch = [Off EXCEPT !.step = "look"]
  /\ gateway = TRUE
  /\ job = "queued"
  /\ op = NoOp
  /\ pause = NoPause
  /\ marker = FALSE
  /\ last = "running"
  /\ ops = 0 /\ faults = 0

Alive(g) == life[g] \notin {"none", "dead"}

\* The live owner of the runner lock, if there is one.
Holders == {g \in Runners : life[g] \in Locked}

\* The update lock is what pauses claims.
Barrier == op.kind # "none"

Dead(gs) == [g \in Runners |-> IF g \in gs THEN "dead" ELSE life[g]]

\* SIGTERM ends a process without a handler, and is kept by one that has it.
Unhandled(gs) == {g \in gs : life[g] \in {"shell", "boot"}}
Terminate(gs) ==
  /\ life' = Dead(Unhandled(gs))
  /\ term' = term \cup {g \in gs : life[g] \in Locked}

LauncherOn == launch.step # "off"

\* When the launcher ends, the receipt names a dead generation.
LauncherGone ==
  /\ launch' = Off
  /\ receipt' = [receipt EXCEPT !.owner = "dead"]

-----------------------------------------------------------------------------
(* The launcher. *)

\* Exact receipts are removed only under the mutation lock, and only if they are
\* still the one that was read.
Remove == receipt' = NoReceipt

\* No runner holds the lock and nothing is unresolved: record the intent.
Prepare ==
  /\ launch.step = "look" /\ ~launch.shut
  /\ Holders = {} /\ receipt.state = "none"
  /\ \E g \in Runners :
       /\ life[g] = "none" /\ \A h \in Runners : h < g => life[h] # "none"
       /\ receipt' = [state |-> "prepared", owner |-> "live", runner |-> g]
       /\ launch' = [launch EXCEPT !.step = "spawn", !.child = g]
  /\ UNCHANGED <<life, frozen, term, gateway, job, op, pause, marker, last, ops, faults>>

Spawn ==
  /\ launch.step = "spawn"
  /\ life' = [life EXCEPT ![launch.child] = "shell"]
  /\ launch' = [launch EXCEPT !.step = "pin"]
  /\ UNCHANGED <<receipt, frozen, term, gateway, job, op, pause, marker, last, ops, faults>>

\* The parent publishes what its child may have published first.
ParentPublishes ==
  /\ launch.step = "pin"
  /\ IF receipt.runner = launch.child
     THEN /\ receipt' = [receipt EXCEPT !.state = "published"]
          /\ launch' = [launch EXCEPT !.step = "supervise"]
          /\ UNCHANGED life
     ELSE /\ life' = Dead({launch.child})
          /\ launch' = [launch EXCEPT !.step = "failed"]
          /\ UNCHANGED receipt
  /\ UNCHANGED <<frozen, term, gateway, job, op, pause, marker, last, ops, faults>>

\* The startup fails after the spawn: the child is killed and waited for.  Only a
\* child that was pinned leaves the proof that its intent may be cleared.
StartupFails ==
  /\ launch.step = "pin" /\ faults < MaxFaults
  /\ life' = Dead({launch.child})
  /\ \/ launch' = [launch EXCEPT !.step = "failed"]
     \/ /\ "unpinned" \in Windows
        /\ launch' = [launch EXCEPT !.step = "look", !.child = 0]
  /\ faults' = faults + 1
  /\ UNCHANGED <<receipt, frozen, term, gateway, job, op, pause, marker, last, ops>>

\* retryFailedLaunchCleanup, at once or at the head of a later turn.
ClearFailed ==
  /\ launch.step = "failed"
  /\ IF receipt.runner = launch.child THEN Remove ELSE UNCHANGED receipt
  /\ launch' = [launch EXCEPT !.step = "look", !.child = 0]
  /\ UNCHANGED <<life, frozen, term, gateway, job, op, pause, marker, last, ops, faults>>

\* The child, or an adopted runner, is gone.
ChildGone ==
  /\ launch.step \in {"supervise", "adopt"} /\ ~Alive(launch.child)
  /\ IF receipt.runner = launch.child THEN Remove ELSE UNCHANGED receipt
  /\ launch' = IF launch.shut THEN Off ELSE [launch EXCEPT !.step = "look", !.child = 0]
  /\ UNCHANGED <<life, frozen, term, gateway, job, op, pause, marker, last, ops, faults>>

\* What an earlier launcher left: a runner that died, or one that lives but does
\* not hold the lock yet, or an intent whose shell may still publish.
Inherit ==
  /\ launch.step = "look" /\ ~launch.shut /\ Holders = {}
  /\ \/ /\ receipt.state = "published" /\ ~Alive(receipt.runner)
        /\ Remove /\ UNCHANGED launch
     \/ /\ receipt.state = "published" /\ Alive(receipt.runner)
        /\ launch' = [launch EXCEPT !.step = "adopt", !.child = receipt.runner]
        /\ UNCHANGED receipt
     \/ /\ receipt.state = "prepared" /\ receipt.owner = "dead"
        /\ launch' = [launch EXCEPT !.step = "bridge"]
        /\ UNCHANGED receipt
  /\ UNCHANGED <<life, frozen, term, gateway, job, op, pause, marker, last, ops, faults>>

\* Mutant: the intent of a dead launcher stays for ever.
Kept == receipt

\* Only an intent that is still prepared is withdrawn.
Withdrawn == IF receipt.state = "prepared" THEN NoReceipt ELSE receipt

\* Two seconds for the shell of a dead launcher, then its intent is withdrawn.
Bridge ==
  /\ launch.step = "bridge"
  /\ receipt' = Withdrawn
  /\ launch' = [launch EXCEPT !.step = "look"]
  /\ UNCHANGED <<life, frozen, term, gateway, job, op, pause, marker, last, ops, faults>>

LauncherExits ==
  /\ launch.step = "look" /\ launch.shut
  /\ LauncherGone
  /\ UNCHANGED <<life, frozen, term, gateway, job, op, pause, marker, last, ops, faults>>

\* SIGTERM to the launcher reaches the generation it has pinned or adopted, and
\* that one is killed when its grace has run out.
Shut ==
  /\ launch' = [launch EXCEPT !.shut = TRUE]
  /\ IF launch.step \in {"pin", "supervise", "adopt"} /\ ~launch.shut
     THEN Terminate({launch.child})
     ELSE UNCHANGED <<life, term>>

GraceEnds ==
  /\ launch.step \in {"supervise", "adopt"} /\ launch.shut
  /\ launch.child \in term /\ Alive(launch.child)
  /\ life' = Dead({launch.child}) /\ frozen' = frozen \ {launch.child}
  /\ UNCHANGED <<receipt, term, launch, gateway, job, op, pause, marker, last, ops, faults>>

LauncherDies ==
  /\ LauncherOn /\ faults < MaxFaults
  /\ faults' = faults + 1
  /\ LauncherGone
  /\ UNCHANGED <<life, frozen, term, gateway, job, op, pause, marker, last, ops>>

-----------------------------------------------------------------------------
(* The runner, from bootstrap shell to job loop. *)

\* Mutant: a late helper publishes whatever became of its intent.
AnyIntent(g) == TRUE

\* The intent the shell was spawned for is still the one on disk.
IntentStands(g) == receipt.state # "none" /\ receipt.runner = g

\* The helper of the shell publishes its parent, or the shell ends.
ChildPublishes(g) ==
  /\ life[g] = "shell"
  /\ IF IntentStands(g)
     THEN /\ receipt' = [receipt EXCEPT !.state = "published"]
          /\ life' = [life EXCEPT ![g] = "boot"]
     ELSE /\ life' = Dead({g})
          /\ UNCHANGED receipt
  /\ UNCHANGED <<frozen, term, launch, gateway, job, op, pause, marker, last, ops, faults>>

\* Only the winner of the runner lock goes on.
Acquire(g) ==
  /\ life[g] = "boot" /\ g \notin frozen
  /\ life' = [life EXCEPT ![g] = IF Holders = {} THEN "recover" ELSE "dead"]
  /\ UNCHANGED <<receipt, frozen, term, launch, gateway, job, op, pause, marker, last, ops, faults>>

\* Startup recovery requeues what an earlier runner left running.
Recover(g) ==
  /\ life[g] = "recover" /\ g \notin frozen
  /\ life' = [life EXCEPT ![g] = "idle"]
  /\ job' = IF job = "running" THEN "queued" ELSE job
  /\ UNCHANGED <<receipt, frozen, term, launch, gateway, op, pause, marker, last, ops, faults>>

\* shouldPause, which also answers a pause request for this runner.
Acknowledged(g) == IF Barrier /\ pause.runner = g THEN [pause EXCEPT !.ack = TRUE] ELSE pause

\* The head of the job loop.
Turn(g) ==
  /\ life[g] = "idle" /\ g \notin frozen /\ g \notin term
  /\ pause' = Acknowledged(g)
  /\ life' = IF ~Barrier /\ job = "queued" THEN [life EXCEPT ![g] = "claiming"] ELSE life
  /\ <<pause, life>>' # <<pause, life>>
  /\ UNCHANGED <<receipt, frozen, term, launch, gateway, job, op, marker, last, ops, faults>>

\* The cloud retry timer calls shouldPause whatever the loop is doing.
Timer(g) ==
  /\ life[g] \in {"claiming", "working"} /\ g \notin frozen
  /\ pause' = Acknowledged(g) /\ pause' # pause
  /\ UNCHANGED <<receipt, life, frozen, term, launch, gateway, job, op, marker, last, ops, faults>>

\* The claim, some awaits after the first look at the barrier.
Claim(g) ==
  /\ life[g] = "claiming" /\ g \notin frozen
  /\ life' = [life EXCEPT ![g] = IF job = "queued" THEN "claimed" ELSE "idle"]
  /\ job' = IF job = "queued" THEN "running" ELSE job
  /\ UNCHANGED <<receipt, frozen, term, launch, gateway, op, pause, marker, last, ops, faults>>

\* Mutant: the barrier is not looked at again.
NoSecondLook == FALSE

\* An updater that took its lock after the first look is seen after the claim.
BarrierAppeared == Barrier

\* The second look: an untouched claim goes back before anything starts.
Begin(g) ==
  /\ life[g] = "claimed" /\ g \notin frozen
  /\ pause' = Acknowledged(g)
  /\ IF BarrierAppeared
     THEN /\ job' = "queued" /\ life' = [life EXCEPT ![g] = "idle"]
     ELSE /\ life' = [life EXCEPT ![g] = "working"] /\ UNCHANGED job
  /\ UNCHANGED <<receipt, frozen, term, launch, gateway, op, marker, last, ops, faults>>

Finish(g) ==
  /\ life[g] = "working" /\ g \notin frozen /\ g \notin term
  /\ job' = "done" /\ life' = [life EXCEPT ![g] = "idle"]
  /\ UNCHANGED <<receipt, frozen, term, launch, gateway, op, pause, marker, last, ops, faults>>

\* The handler stops the loop; work in progress is aborted.
Leave(g) ==
  /\ g \in term /\ g \notin frozen /\ life[g] \in {"idle", "working"}
  /\ life' = Dead({g}) /\ term' = term \ {g}
  /\ UNCHANGED <<receipt, frozen, launch, gateway, job, op, pause, marker, last, ops, faults>>

RunnerDies(g) ==
  /\ Alive(g) /\ faults < MaxFaults
  /\ faults' = faults + 1
  /\ life' = Dead({g}) /\ term' = term \ {g} /\ frozen' = frozen \ {g}
  /\ UNCHANGED <<receipt, launch, gateway, job, op, pause, marker, last, ops>>

\* The gateway records a request.
Enqueue ==
  /\ gateway /\ job \in {"done", "failed"} /\ faults < MaxFaults
  /\ faults' = faults + 1
  /\ job' = "queued"
  /\ UNCHANGED <<receipt, life, frozen, term, launch, gateway, op, pause, marker, last, ops>>

-----------------------------------------------------------------------------
(* Service control. *)

\* Every operation takes the update lock first; an interrupted update refuses it.
Open(kind) ==
  /\ ~Barrier /\ ops < MaxOps
  /\ ops' = ops + 1
  /\ op' = [NoOp EXCEPT !.kind = kind, !.step = "check"]
  /\ last' = "none"
  /\ UNCHANGED <<receipt, life, frozen, term, launch, gateway, job, pause, marker, faults>>

\* The operation ends and its pause request with it.
Close(outcome) ==
  /\ op' = NoOp /\ last' = outcome /\ pause' = NoPause

Step(s) == op' = [op EXCEPT !.step = s]

\* stopManagedService: a plain stop refuses while a job runs; a forced one kills
\* the gateway, so that nothing is enqueued behind its back.
CheckStop ==
  /\ op.step = "check"
  /\ \/ /\ op.kind = "stop" /\ job = "running" /\ Close("failed") /\ UNCHANGED gateway
     \/ /\ op.kind = "stop" /\ job # "running"
        /\ op' = [op EXCEPT !.step = "quiesce", !.round = 1]
        /\ UNCHANGED <<gateway, last, pause>>
     \/ /\ op.kind = "force"
        /\ op' = [op EXCEPT !.step = "force", !.round = 1]
        /\ gateway' = FALSE
        /\ UNCHANGED <<last, pause>>
  /\ UNCHANGED <<receipt, life, frozen, term, launch, job, marker, ops, faults>>

\* quiesceRunnerAndLauncher: pause the runner that holds the lock, if one does
\* within the time a launcher may need to bring it up.
Quiesce ==
  /\ op.step = "quiesce"
  /\ IF Holders # {}
     THEN op' = [op EXCEPT !.step = "pause", !.back = "launcher"]
     ELSE Step("launcher")
  /\ UNCHANGED <<receipt, life, frozen, term, launch, gateway, job, pause, marker, last, ops, faults>>

\* createServiceControlPauseRequest.
Pause ==
  /\ op.step = "pause"
  /\ IF Holders = {}
     THEN Step(op.back) /\ UNCHANGED pause
     ELSE \E g \in Holders :
            /\ pause' = [runner |-> g, ack |-> FALSE]
            /\ op' = [op EXCEPT !.step = "ack", !.target = g]
  /\ UNCHANGED <<receipt, life, frozen, term, launch, gateway, job, marker, last, ops, faults>>

\* The wait for the acknowledgement: the runner has gone, another has come, it has
\* acknowledged, or it has not and is frozen instead.
Await ==
  /\ op.step = "ack"
  /\ \/ /\ Holders = {}
        /\ Step(op.back) /\ pause' = NoPause /\ UNCHANGED <<frozen, last>>
     \/ /\ Holders # {} /\ op.target \notin Holders
        /\ Close("failed") /\ UNCHANGED frozen
     \/ /\ op.target \in Holders /\ pause.ack
        /\ Step("acked") /\ UNCHANGED <<pause, frozen, last>>
     \/ /\ op.target \in Holders /\ ~pause.ack
        /\ Step("frozen") /\ frozen' = frozen \cup {op.target}
        /\ UNCHANGED <<pause, last>>
  /\ UNCHANGED <<receipt, life, term, launch, gateway, job, marker, ops, faults>>

\* The job table, looked at after the acknowledgement or while the runner is
\* frozen, decides: refuse and let it go on, or SIGTERM.
Decide ==
  /\ op.step \in {"acked", "frozen"}
  /\ frozen' = frozen \ {op.target}
  /\ IF job = "running"
     THEN /\ Close("failed") /\ UNCHANGED <<life, term>>
     ELSE /\ op' = [op EXCEPT !.step = IF @ = "frozen" THEN "killing" ELSE "leaving"]
          /\ Terminate({op.target})
          /\ UNCHANGED <<pause, last>>
  /\ UNCHANGED <<receipt, launch, gateway, job, marker, ops, faults>>

\* The signalled runner ends; one that was frozen is killed if it does not.
AwaitRunner ==
  /\ op.step \in {"leaving", "killing"}
  /\ \/ /\ ~Alive(op.target)
        /\ Step(op.back) /\ pause' = NoPause
        /\ UNCHANGED <<life, last, faults>>
     \/ /\ Alive(op.target) /\ op.step = "killing"
        /\ life' = Dead({op.target})
        /\ UNCHANGED <<op, pause, last, faults>>
     \/ /\ Alive(op.target) /\ op.step = "leaving"
        /\ "slow" \in Windows /\ faults < MaxFaults /\ faults' = faults + 1
        /\ Close("failed") /\ UNCHANGED life
  /\ UNCHANGED <<receipt, frozen, term, launch, gateway, job, marker, ops>>

\* stopRunnerLauncherIfPresent.
StopLauncher ==
  /\ op.step = "launcher"
  /\ IF LauncherOn /\ launch.step # "spawn"
     THEN Shut /\ Step("gone")
     ELSE ~LauncherOn /\ Step("receipt") /\ UNCHANGED <<launch, life, term>>
  /\ UNCHANGED <<receipt, frozen, gateway, job, pause, marker, last, ops, faults>>

AwaitLauncher ==
  /\ op.step = "gone"
  /\ \/ /\ ~LauncherOn
        /\ Step(IF op.kind = "force" THEN "forceCheck" ELSE "receipt")
        /\ UNCHANGED <<launch, receipt, pause, last, faults>>
     \/ /\ LauncherOn /\ op.kind = "force" /\ launch.step # "spawn"
        /\ LauncherGone /\ UNCHANGED <<op, pause, last, faults>>
     \/ /\ LauncherOn /\ op.kind # "force"
        /\ "slow" \in Windows /\ faults < MaxFaults /\ faults' = faults + 1
        /\ Close("failed") /\ UNCHANGED <<launch, receipt>>
  /\ UNCHANGED <<life, frozen, term, gateway, job, marker, ops>>

\* stopRunnerLaunchReceipt, first half: the launcher a receipt names is frozen and
\* killed, so that the receipt cannot change hands.
FreezeLauncher ==
  /\ op.step \in {"receipt", "force"}
  /\ IF receipt.state = "none"
     THEN /\ Step(IF op.kind = "force" THEN "forceRunner" ELSE "closing")
          /\ UNCHANGED <<launch, receipt>>
     ELSE /\ Step("named")
          /\ IF receipt.owner = "live" THEN LauncherGone ELSE UNCHANGED <<launch, receipt>>
  /\ UNCHANGED <<life, frozen, term, gateway, job, pause, marker, last, ops, faults>>

\* Second half, on what the receipt says now: an intent is withdrawn, a published
\* runner is frozen with its tree, checked against the job table, and killed.
ReapReceipt ==
  /\ op.step = "named"
  /\ LET after == IF op.kind = "force" THEN "forceRunner" ELSE "closing" IN
     CASE receipt.state = "none" ->
            Step(after) /\ UNCHANGED <<receipt, life, last, pause>>
       [] receipt.state = "prepared" ->
            Remove /\ Step(after) /\ UNCHANGED <<life, last, pause>>
       [] receipt.state = "published" /\ Alive(receipt.runner)
            /\ op.kind # "force" /\ job = "running" ->
            Close("failed") /\ UNCHANGED <<receipt, life>>
       [] OTHER ->
            Remove /\ life' = Dead({receipt.runner} \ {0}) /\ Step(after)
            /\ UNCHANGED <<last, pause>>
  /\ UNCHANGED <<frozen, term, launch, gateway, job, marker, ops, faults>>

\* A runner that came up meanwhile gets the same treatment; a launcher that did is
\* a failure.
Closing ==
  /\ op.step = "closing"
  /\ IF Holders # {}
     THEN op' = [op EXCEPT !.step = "pause", !.back = "closing"] /\ UNCHANGED <<last, pause>>
     ELSE IF LauncherOn \/ receipt.state # "none" \/ job = "running"
     THEN Close("failed")
     ELSE Step(IF op.round = 1 THEN "gateway" ELSE "final") /\ UNCHANGED <<last, pause>>
  /\ UNCHANGED <<receipt, life, frozen, term, launch, gateway, job, marker, ops, faults>>

\* Intake stops only after the runner; a recovery starts the service again, and a
\* stop looks a second time.
StopGateway ==
  /\ op.step = "gateway"
  /\ gateway' = FALSE
  /\ op' = IF op.kind = "recover" THEN [op EXCEPT !.step = "restart"]
           ELSE [op EXCEPT !.step = "quiesce", !.round = 2]
  /\ UNCHANGED <<receipt, life, frozen, term, launch, job, pause, marker, last, ops, faults>>

\* Everything is gone: a stop is recorded as intended, a failed start is not.
Stopped ==
  /\ op.step = "final"
  /\ IF op.kind = "stop" THEN marker' = TRUE /\ Close("stopped")
     ELSE UNCHANGED marker /\ Close("failed")
  /\ UNCHANGED <<receipt, life, frozen, term, launch, gateway, job, ops, faults>>

-----------------------------------------------------------------------------
(* Forced stop. *)

\* forceKillCurrentRunner: the runner tree is frozen, the job table is read and
\* the stop is recorded, then the tree is killed.
Boundary ==
  IF op.base = "none"
  THEN /\ op' = [op EXCEPT !.base = IF job = "queued" THEN "queued" ELSE "empty",
                           !.step = "forceLauncher"]
       /\ marker' = TRUE
  ELSE Step("forceLauncher") /\ UNCHANGED marker

ForceRunner ==
  /\ op.step = "forceRunner"
  /\ IF Holders # {}
     THEN Boundary /\ life' = Dead(Holders)
     ELSE Step("forceLauncher") /\ UNCHANGED <<life, marker>>
  /\ UNCHANGED <<receipt, frozen, term, launch, gateway, job, pause, last, ops, faults>>

\* The launcher gets its SIGTERM, and SIGKILL when the time is over.
ForceLauncher ==
  /\ op.step = "forceLauncher" /\ launch.step # "spawn"
  /\ IF LauncherOn
     THEN /\ Shut /\ Step("gone") /\ UNCHANGED receipt
     ELSE Step("forceCheck") /\ UNCHANGED <<launch, life, term, receipt>>
  /\ UNCHANGED <<frozen, gateway, job, pause, marker, last, ops, faults>>

\* The job that was running is failed under the runner lock.
FailedByForce == IF job = "running" THEN "failed" ELSE job

\* Another pass as long as anything is there, at most three.  Then the
\* queue must be as it was at the boundary.
ForceCheck ==
  /\ op.step = "forceCheck"
  /\ IF Holders # {} \/ LauncherOn \/ receipt.state # "none"
     THEN /\ IF op.round < 3
             THEN op' = [op EXCEPT !.step = "force", !.round = @ + 1] /\ UNCHANGED <<last, pause>>
             ELSE Close("failed")
          /\ UNCHANGED <<job, marker>>
     ELSE /\ marker' = TRUE
          /\ job' = FailedByForce
          /\ Close(IF op.base = "none" \/ op.base = IF job = "queued" THEN "queued" ELSE "empty"
                   THEN "stopped" ELSE "failed")
  /\ UNCHANGED <<receipt, life, frozen, term, launch, gateway, ops, faults>>

-----------------------------------------------------------------------------
(* Start, repair and recovery. *)

\* startManagedService: a service that is up keeps its runner and at most gets a
\* new launcher, one that is partly up is refused, and one that is down is started.
CheckStart ==
  /\ op.kind = "start" /\ op.step = "check"
  /\ \/ /\ gateway /\ Holders # {} /\ LauncherOn
        /\ marker' = FALSE /\ Close("running")
     \/ /\ gateway /\ Holders # {} /\ ~LauncherOn
        /\ op' = [op EXCEPT !.step = "repair", !.target = CHOOSE g \in Holders : TRUE]
        /\ UNCHANGED <<marker, last, pause>>
     \/ /\ ~(gateway /\ Holders # {})
        /\ gateway \/ Holders # {} \/ LauncherOn \/ receipt.state # "none"
        /\ Close("failed") /\ UNCHANGED marker
     \/ /\ ~gateway /\ Holders = {} /\ ~LauncherOn /\ receipt.state = "none"
        /\ marker' = FALSE /\ Step("restart")
        /\ UNCHANGED <<last, pause>>
  /\ UNCHANGED <<receipt, life, frozen, term, launch, gateway, job, ops, faults>>

\* startRunnerLauncherForExistingService, or startBot with a new gateway.
Launch ==
  /\ op.step \in {"repair", "restart"}
  /\ ~LauncherOn
  /\ launch' = [Off EXCEPT !.step = "look"]
  /\ gateway' = (gateway \/ op.step = "restart")
  /\ Step("health")
  /\ UNCHANGED <<receipt, life, frozen, term, job, pause, marker, last, ops, faults>>

\* Five equal observations in a row, or the checks run out.  A failed repair takes
\* back its launcher, a failed start takes back everything.
Health ==
  /\ op.step = "health"
  /\ \/ /\ gateway /\ LauncherOn /\ Holders # {}
        /\ Close("running")
        /\ marker' = (marker /\ op.kind = "recover")
     \/ /\ ~(gateway /\ LauncherOn /\ Holders # {})
        /\ CASE op.kind = "recover" -> Close("failed")
             [] op.kind = "start" /\ op.target # 0 ->
                  Step("undo") /\ UNCHANGED <<last, pause>>
             [] OTHER -> op' = [op EXCEPT !.step = "quiesce", !.round = 1]
                         /\ UNCHANGED <<last, pause>>
        /\ UNCHANGED marker
  /\ UNCHANGED <<receipt, life, frozen, term, launch, gateway, job, ops, faults>>

\* stopSpawnedRunnerLauncher: its normal shutdown first.
Undo ==
  /\ op.step = "undo" /\ launch.step # "spawn"
  /\ IF LauncherOn THEN Shut ELSE UNCHANGED <<launch, life, term>>
  /\ Step("reap")
  /\ UNCHANGED <<receipt, frozen, gateway, job, pause, marker, last, ops, faults>>

\* Then every generation that was seen below it, a runner that is not the one the
\* repair found, and the launcher itself; a shell that is just appearing is missed.
Reap ==
  /\ op.step = "reap" /\ launch.step # "spawn"
  /\ LET below == {g \in Runners : Alive(g) /\ (g = launch.child
                    \/ (receipt.owner = "live" /\ receipt.runner = g)
                    \/ life[g] \in Locked)} \ {op.target} IN
     \E gs \in {below, {g \in below : life[g] # "shell"}} :
       /\ life' = Dead(gs) /\ frozen' = frozen \ gs
  /\ LauncherGone
  /\ IF receipt.owner = "live" THEN Step("disown") ELSE Close("failed")
  /\ IF receipt.owner = "live" THEN UNCHANGED <<last, pause>> ELSE TRUE
  /\ UNCHANGED <<term, gateway, job, marker, ops, faults>>

\* The receipt of the launcher it stopped: cancel the intent before the publisher,
\* or reap what the publisher has bound.
Disown ==
  /\ op.step = "disown"
  /\ life' = IF receipt.state = "published" THEN Dead({receipt.runner} \ {0}) ELSE life
  /\ Remove
  /\ Close("failed")
  /\ UNCHANGED <<frozen, term, launch, gateway, job, marker, ops, faults>>

\* recoverManagedService, run by the watchdog: never against an intended stop, and
\* not while a live runner works.
CheckRecovery ==
  /\ op.kind = "recover" /\ op.step = "check"
  /\ LET up == gateway /\ LauncherOn /\ Holders # {} IN
     IF marker \/ up \/ (job = "running" /\ \E g \in Runners : life[g] \in Owning)
     THEN Close(IF up THEN "running" ELSE "failed")
     ELSE op' = [op EXCEPT !.step = "quiesce", !.round = 1] /\ UNCHANGED <<last, pause>>
  /\ UNCHANGED <<receipt, life, frozen, term, launch, gateway, job, marker, ops, faults>>

\* A plain launch (codex-channel.sh), refused while the update lock is held: it
\* replaces the gateway, keeps a runner that holds the lock, and starts a launcher
\* only for one that does not; another launcher is waited for first.
ShellStart ==
  /\ ~Barrier /\ ops < MaxOps /\ ops' = ops + 1
  /\ Holders # {} \/ ~LauncherOn
  /\ launch' = IF Holders = {} THEN [Off EXCEPT !.step = "look"] ELSE launch
  /\ gateway' = TRUE /\ marker' = FALSE /\ last' = "none"
  /\ UNCHANGED <<receipt, life, frozen, term, job, op, pause, faults>>

GatewayDies ==
  /\ gateway /\ faults < MaxFaults
  /\ gateway' = FALSE /\ faults' = faults + 1
  /\ UNCHANGED <<receipt, life, frozen, term, launch, job, op, pause, marker, last, ops>>

-----------------------------------------------------------------------------
LauncherStep == Prepare \/ Spawn \/ ParentPublishes \/ ClearFailed \/ ChildGone \/ Inherit
                \/ Bridge \/ LauncherExits \/ GraceEnds

RunnerStep(g) == ChildPublishes(g) \/ Acquire(g) \/ Recover(g) \/ Turn(g) \/ Claim(g)
                 \/ Begin(g) \/ Finish(g) \/ Leave(g)

OpStep == CheckStop \/ Quiesce \/ Pause \/ Await \/ Decide \/ AwaitRunner \/ StopLauncher
          \/ AwaitLauncher \/ FreezeLauncher \/ ReapReceipt \/ Closing \/ StopGateway
          \/ Stopped \/ ForceRunner \/ ForceLauncher \/ ForceCheck \/ CheckStart \/ Launch
          \/ Health \/ Undo \/ Reap \/ Disown \/ CheckRecovery

Next ==
  \/ LauncherStep \/ OpStep
  \/ \E g \in Runners : RunnerStep(g) \/ Timer(g) \/ RunnerDies(g)
  \/ StartupFails \/ LauncherDies \/ Enqueue \/ GatewayDies \/ ShellStart
  \/ \E kind \in {"stop", "force", "start", "recover"} : Open(kind)

Spec == Init /\ [][Next]_vars /\ WF_vars(LauncherStep) /\ WF_vars(OpStep)
        /\ \A g \in Runners : WF_vars(RunnerStep(g))

-----------------------------------------------------------------------------
(* Properties. *)

\* At most one generation is past its publication, and the receipt names it.
Owned ==
  \A g \in Runners : life[g] \in Owning =>
    receipt.state = "published" /\ receipt.runner = g

\* A stop that was reported leaves nothing behind, and nothing that comes back.
StopIsFinal ==
  last = "stopped" /\ ~Barrier =>
    ~gateway /\ ~LauncherOn /\ receipt.state = "none" /\ job # "running"
    /\ \A g \in Runners : life[g] \in {"none", "shell", "dead"}

Safety == TypeOK /\ Owned /\ StopIsFinal

\* Only a forced stop ends a runner at work, and a start never ends the one it found.
WorkIsSpared ==
  [][\A g \in Runners : Alive(g) /\ life'[g] = "dead" /\ faults' = faults /\ op.kind # "force" =>
       /\ life[g] # "working"
       /\ ~(op.kind = "start" /\ op.target = g /\ op.step \in {"repair", "health", "undo", "reap", "disown"}
            /\ g \notin term)]_vars

\* Every operation ends, and a launcher that stays brings a runner into its loop.
Exhausted == \A g \in Runners : life[g] # "none"
Quiet ==
  /\ ~Barrier
  /\ LauncherOn /\ ~launch.shut =>
       Exhausted \/ \E g \in Runners : life[g] \in Locked \ {"recover"}
Served == <>[]Quiet
=============================================================================
