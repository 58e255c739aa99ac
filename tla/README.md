# Formal model of Zeroちゃん (Slack → Codex gateway)

Zeroちゃん takes requests from Slack, keeps each one in a SQLite ledger, runs
them one at a time through the Codex App Server and sends the results back. It
lives on one Mac, is started inside Herdr (a terminal multiplexer with an API),
updates itself, and is built so that any of its processes may die at any moment
without losing a request, running a write twice, or saying something wrong in
the thread. This directory models that core in TLA+, checks it with TLC and
proves the safety of its main components with TLAPS.

Source paths below are relative to the repository. `job-runner.ts`,
`codex-executor.ts` and the like are in `zerokun/`; `server.ts` is at the root.

Contents: 1 the system; 2 the modules; 3 the runs and their bounds; 4 fairness;
5 the proofs; 6 findings, refuted properties and observations; 7 what is not
modelled; 8 how to run.

## 1. The system and its parts

    Slack ──Socket Mode──▶ gateway (server.ts) ──inbound_deliveries──▶ jobs, controls,
                                                                       interjections (SQLite)
    Slack ◀──posts── notifier lanes ◀──outbox rows── runner (job-runner.ts) ◀┘
                                                       │ executor (codex-executor.ts)
                                                       ▼
                                      supervisor ▶ Codex App Server (child process)
                                                       │
                          advisor broker, monitor tab, GitHub publisher, other brokers

    runner-launcher.ts ──restarts──▶ runner     update.ts ──stops, replaces, starts──▶ all of them
    process-lock.ts: the singleton and update locks every one of them takes

| Part | State it keeps | Operations | What makes it correct |
|---|---|---|---|
| Gateway `server.ts` | inbound rows with a cursor per thread; scan pages; delivered markers | take a message from the socket or a scan; stage it; drain it into a job, live input or an interrupt | nothing accepted is lost or delivered twice; no cursor passes an unrecorded message; a stop is not queued behind what it stops |
| Durable queue `job-runner.ts` (JobStore) | `jobs`, `job_initial_dispatches`, tombstones | enqueue, claim, release, requeue, defer, stage, complete, fail, cancel, recover at startup | serial; a thread in order; no uncertain write runs again; stop excludes success; recovery never stops at a row |
| Executor `codex-executor.ts` | turn, snapshot of the input revision, answer in progress | send turn, observe, answer replies, seal, hand over | the published result has all accepted input; a receipt precedes every byte it speaks of |
| Live input `primary-live-controls.ts`, interjection tables | one row per reply with a status and an input revision | bind, prepare, answer, post, promote, supersede | every reply is answered once, in order, or is reported |
| Notification outbox | five tables of rows (state, lifecycle, commentary, answers, results) | stage, claim, post, confirm, defer, supersede | the result is the last word; order of the story; what is posted is still true |
| Process lock `process-lock.ts` | lock file, identity, candidate, delegate | acquire, publish, release, delegate, finish, discard | never two holders; never wedged; never given up while work may go on |
| Self-update `independent-update.ts`, `update.ts` | intent, journal, pin, links of the state directory | wait, stop, install, pin, start, verify, go back, recover | no job is cut off; no mixed release; a switch ends |
| Update requests `update-request.ts`, `auto-update.ts` | reservation, request, outcome | reserve, start a detached worker, notify | one updater at a time; one outcome each |
| App Server session `codex-app-server-session.ts` | JSON-RPC ids, turn projection, tombstones | request, notification, interrupt | a turn's end is known only from authoritative evidence |
| Process supervision `codex-supervisor.ts`, `seatbelt-fingerprint.ts`, `process-tree.ts` | registration, tags, ledger | start behind a gate, reap, retire, recover | no descendant survives its owner |
| Service control `service-control.ts`, `runner-launcher.ts` | launch receipt, pause request, intentional stop | launch, adopt, stop, force, start, repair | one runner, which the receipt names; a running job is not killed by a stop |
| Herdr job monitor `herdr-job-monitor.ts` | manifest, epoch pointer, feed generations | create, run, close a tab; retire a feed | one viewer per job, no byte skipped, closed only when all is shown |
| Advisor broker `advisor-broker.ts` | round journal, slots, cache, fallback claim | ask, settle, retry, retire | a prompt is typed at most once; an answer survives its asker |
| GitHub publication `github-publication.ts` | operation journal, receipts | push, pull request, merge, supersede | every operation has one effect; foreign commits are kept |
| Artifacts and UI approval | upload checkpoint, approval row | upload, complete, reconcile, ask | a file is posted once; an approval counts for what was shown |
| Attached files, history | catalog, pending references, archive, tombstones | download, recover, retire, prune, compact | no accepted file is forgotten; a history accounts for every earlier job |
| Cloud handoff `handoff-coordinator.ts` | owner, epoch, package of a thread | park, publish, take over, import | one writer at a time; work changes hands whole |
| Slack socket supervisor | armed, looping and connected flags | connect, back off | a lost socket is noticed and reconnected once |
| App swap `app-swap-broker.ts` | transaction, backup, lock | put a build in place, restore | the operator's copy is never lost |
| security audit, gate and routing, tool brokers, configuration, fleet, setup, Python reviewers | see `PROJECT.json` | | |

`PROJECT.json` lists all of them under "components", with what is left out and
why. The parts interact in four ways: through tables of one SQLite database
(gateway, runner, notifier), through files replaced atomically (locks,
journals, pins, receipts), through signals and child processes (launcher,
updater, executor, supervisor), and through calls whose answer may never come
(Slack, Herdr, the App Server, GitHub, the cloud database).

**What is hard here.** The gateway, the runner's worker, its two delivery lanes
and the updater interleave at every transaction. Nearly every `await` in the
runner is a place where a stop, a reply or an update barrier may arrive. Every
process can die between any two writes, and what it had told Codex or Slack may
or may not have arrived. Rate limits put work back that was half done. The
hazards, each at its line and with the properties that cover it, are in
`PROJECT.json`.

## 2. Modules

| Module | Models | Sources |
|---|---|---|
| `JobStore` | the durable queue, the worker loop and startup recovery | `job-runner.ts` 7,246–14,241, 15,380–16,900, 18,955–19,040 |
| `JobPromise` | what the queue promises: custody of a request | abstract, no code |
| `LiveInput` | replies and a stop while a job runs | `job-runner.ts` 5,900–9,250, `codex-executor.ts` 8,900–12,000, `primary-live-controls.ts`, `server.ts` |
| `Outbox` | the rows, the lanes and the worker's waits for them | `job-runner.ts` 4,875–5,003, 11,733–12,822, 14,979–15,455, 17,368–17,464 |
| `ProcessLock` | locks, delegates, crash between any two writes | `process-lock.ts` |
| `ReleaseUpdate` | the switch of an instance to another release | `independent-update.ts`, `update.ts`, `codex-channel.sh`, `service-control.ts` |
| `UpdateRequest` | who asks for an update, and what becomes of it | `update-request.ts`, `auto-update.ts`, `server.ts` |
| `RunnerService` | the runner's launch receipt, and stops and starts of the service | `runner-launcher.ts`, `runner-launch-receipt.ts`, `service-control.ts`, `job-runner.ts` |
| `Ingress` | messages on their way into the ledger | `server.ts`, `job-runner.ts` |
| `ThreadFiles`, `ThreadHistory` | attached files; what outlives a settled job | `server.ts`, `job-runner.ts`, `thread-attachment-recovery.ts`, `state-maintenance.ts` |
| `SlackSocket` | the connection to Slack | `slack-socket-supervisor.ts` |
| `ArtifactDelivery` | images of a proposal and of a result, and the approval | `job-runner.ts`, `ui-approval.ts` |
| `AppServerSession` | one JSON-RPC session and the loop of a turn | `codex-app-server-session.ts`, `codex-executor.ts` |
| `Supervision` | the processes of an attempt, and who must find and kill them | `codex-supervisor.ts`, `seatbelt-fingerprint.ts`, `codex-executor.ts` |
| `BoundedCommand`, `TreeFreeze` | a command under a deadline; the freezing of a tree | `update.ts`, `advisor-broker.ts`, `github-publication.ts`, `process-tree.ts` |
| `AdvisorRound` | the rounds of the advisor broker | `advisor-broker.ts` |
| `MonitorFeed`, `JobMonitor` | the feeds of a monitor tab; the tab | `herdr-job-monitor.ts`, `job-runner.ts` |
| `GitHubPublication` | the plans of a staged result on GitHub | `github-publication.ts`, `job-runner.ts` |
| `CloudHandoff` | a thread two computers work on in turn | `handoff-coordinator.ts`, `cloud-handoff.ts`, `job-runner.ts`, the SQL migration |
| `AppSwap` | a verification build in the operator's place | `app-swap-broker.ts` |
| `…Proofs` | theorems about the module they are named after; `ProcessProofs`: about the three parts of `MCProcesses`; `SlackProofs`: about the images, the ways in and the socket of `MCSlack` | |
| `MC…` | the instances TLC checks | |

The modules are cut where the code is: each has the tables or files that only
its operations write. They are separate rather than composed because their
product is out of TLC's reach; where one relies on another, the other's promise
is an external action. `LiveInput` has one job and abstracts the queue to its
status; `Outbox` abstracts how a job ends; `ReleaseUpdate` has one request and
the runner's claim with its two looks at the barrier; `UpdateRequest` has the
updater as something that holds the lock and ends; `JobStore` has the barrier as
a file that somebody raises and lowers. Where a mistake of one component would
be seen only in another, both are in one module: the gateway's drain loop and
the executor in `LiveInput`, service control and a claiming runner in
`RunnerService`, the viewer and the writer in `MonitorFeed`.

Conventions: a constant that begins with `Max` counts what is injected (faults,
people's acts) or bounds a counter the code leaves open, and is named as a bound
where it is declared. `Windows` names races that are left out of an instance
because the code loses them (section 6 says which); with the empty set they do
not happen. Variables called history are read by properties only. A definition
that begins with "Mutant" is a plausible bug of the definition that follows it:
the project replaces the one by the other to see that a property notices. In
`PROJECT.json` a helper whose lines lie within those of the definition that uses it
is mapped with that definition.

### 2.1 JobStore

One row of `jobs` is one element of `Jobs`; the variables `status` to `outcome`
are its columns, `receipt` is the table `job_initial_dispatches`. `pc` and
`mine` are the place of the worker in `runQueuedJobs` and the job it holds.
`engine` is what the App Server really did with the prompt, which no code can
see: the receipts are the code's knowledge of it, and most properties compare
the two.

Three actors take steps:

- the gateway: `StageRequest`, `StageInterrupt`, `Drain` (enqueue, live input,
  interrupt, tombstone);
- the worker: `CheckBarrier`, `Claim`, `ReleaseAtBarrier`, `Activate`,
  `BeginDispatch`, `Acknowledge`, `FinishTurn`, `Seal`, `Commit` and its failure
  paths (`Rejected`, `Ambiguous`, `SoftLimit`, `Limited`, `Defer`,
  `Interrupted`, `FailRun`, `CancelRun`), then after a crash `Boot`,
  `RecoverStaged`, `RecoverRow`;
- the App Server: `Receive`, `TurnEnds`.

Every action that changes the tables is one IMMEDIATE transaction of the code.
`Crash` is possible everywhere and leaves `engine` as it is. Left out: steers,
interjections and UI approvals (`LiveInput` and `ArtifactDelivery` have them),
the order in which inbound rows drain (`Ingress`), cloud handoff, host
publication and monitor barriers.

`JobPromise` says the same without tables: a request is in nobody's custody, in
the queue's, the worker's, Codex's, or over. Custody comes back from Codex only
when Codex itself said so or the request may be repeated. `KeepsPromise` is the
refinement, with `Custody` as its mapping.

### 2.2 LiveInput

One job with its thread, replies and one stop. `ij[r]` is the status of reply
`r` in `job_interjections`, `bindRev` the input revision it is bound to,
`staged` the revision of the sealed result, `inbound` and `line` the inbound
rows that are there and the order they were accepted in. The gateway admits and
drains (`StageAny`, `Drain`, with an attachment download that a stop preempts),
the executor runs task, answer and steer turns and seals, the notifier posts
answers, and recovery puts back what a crash left. `told` (what arrived in the
thread), `finished` and `redone` are history. The work workflow of a read-only
job is modelled; outside audit setup and a retired flow no reply becomes a
steer, so steers are left out.

### 2.3 Outbox

`row[r]` is the state of a row, rows are <<kind, job, attempt or number>>. Two
lanes: the main one (state replies, answers, results, commentary, in that order
in a pass) and the lifecycle one, open only while a job runs. The worker closes
the lifecycle lane and waits for what has left before it changes a job's state
(`CloseLane`, `StatusSettled`, `Quieten`). Eligibility is the SQL predicates
(`NoteDeliverable`, `ResultDeliverable`, `LifecycleDeliverable`, `Current`); no
lock is shared, so they alone make the order. Rows that the code orders by
`created_at` within a pass are taken in any order the predicates allow. A post is
one message and a repeated post of a row carries the same `client_msg_id`.
`started` rows post nothing, and a progress report supersedes one that is still open
(`Overtaken`). A result file that can never be uploaded is `Broken`.

### 2.4 ProcessLock

Lock, identity and candidate are three files changed one system call at a time
under an `flock` guard that the kernel drops when its holder dies; `op` is the
operation inside the guard and how far it got. Processes are generations that
share pids and process groups, because that is what the code's start-time and
boot checks are for: a process seen dead stays dead, and a number is free only
when neither a process nor a group has it. `lease` and `works` say who was given
a lease and who works under one: no file has them, and the properties compare
them with the files. Identities of version 3 only; the bridge to the older
formats, inspection without effect and `stopProcessLockOwner` are left out.

### 2.5 ReleaseUpdate and UpdateRequest

One instance, several updaters. `updater[u]` is the memory of `activateRelease`
(its place, `tx`, whether it is on the way back), the files are `intent`
(release-target.json), `journal` (release-transaction.json), `pin`
(runtime-release.json) and `installed` (the links). The services are the release
each runs, `launch` is a start on its way in the Herdr pane. An updater may be a
full update or `--recover-only`, and may fail or die at every place. The
runner's claim is in three steps (look, claim, look again), as in
`runJobWorkers`. A person starts and
stops the services under the same lock, and the watchdog brings back what is
down, with a release it read from the links before it had the lock.
`DaemonStarts` skips startup recovery while a journal is pending, as the code
does. Left out: the older shared update, several instances, the guard of old
checkouts, building and validating a release. A start that was overtaken by a
newer one is taken to have ended.

`UpdateRequest` is the way there: `file` is update-request.json, `call[m]` how
far `requestUpdate` got for the message `m`, `worker` the detached worker and
`gates` the gates and updaters it started, `lock` what holds the update lock.
The gateway, the worker and a gate may die at every step; the next gateway
starts the worker again (`Resumable`), and the worker finds its gate from the
file. The automatic update is a message of its own, `Auto`.

Reading the file and acting on it are two steps (`Look`, `Act`), with what was read
in `seen`; workers and gates write the file in between. Two calls are never between
the two at once: the gateway holds a lock for its life (`server.ts:256`, `279`) and
`requestUpdate` does not wait between its read and its write, so the exclusive
creation (`update-request.ts:491–495`) can only meet what a worker wrote. While an
acceptance is being posted everything else goes on: another message, the timer and
the automatic check may start the worker of that request, whose caller then fails and
withdraws it (`Withdraw`). Two history variables say what that costs: `lost` are the
living gates whose name was given up, by such a caller, by a worker at its time limit
or by a call with a stale look, and `withdrawn` marks a worker whose request is gone.
Each such meeting counts as a fault, which bounds how many there are and excludes none.

### 2.6 RunnerService

`receipt` is the launch receipt (absent, intent, published), `life[g]` the life
of a spawned generation from bootstrap shell over helper to the loop of the
runner, `launch` the launcher's memory. The launcher takes over what an earlier
one left (`Takeover` and what follows), retires a receipt whose generation is
gone, spawns, waits and adopts. `op` is the service-control operation under the
update lock - stop, forced stop, start, recover - with its `pause` request for
the runner and the intentional-stop `marker`; the runner answers it between two
looks at the barrier. Frozen generations and pending signals are sets. Left out:
the panes and tabs it starts things in, log rotation, reading versions.

### 2.7 Ingress, SlackSocket, ThreadFiles, ThreadHistory

`Ingress`: a message is its place in Slack's order, `held[m]` where the ledger
holds it. `HandOver` is the socket's way and that of the scans (durable intent,
snapshot of the thread, classifier, bootstrap or stage), `poll` the page of an
owned thread's poll, `sweep` the catch-up cycles over the newest roots and over
all, `scans` the scans of replies. A cursor moves only in the transaction that
finds every message it passes durable (`AllDurable`). `ahead[m]` is what was staged
in the thread of an inbound delivery before it: deliveries of a thread drain in
order, while the choice among threads is left open, because the thread of an active
job overtakes the others (`claimNextInboundDelivery`).

`SlackSocket`: the supervisor's flags are the source's; the client is external: a
call opens a socket, its answer is a continuation that runs after events that
came before it.

`ThreadFiles`: `row`, `tries` and `bound` are a message's inbound row,
`manifest` the files its row recorded, `disk` what is in the inbox, `catalog`,
`pending`, `recovered` the tables. `op` is the drain loop's place: download,
record, recover pending references, hand over to a job or as live input. A job
copies what its thread has when it starts, verifies the bytes and retires bad
ones.

`ThreadHistory`: time, settled jobs, the archive with its two counters, the
snapshot a claim takes, tombstones, and the directories of jobs, which a sweep
removes after the transaction that pruned the rows. A queued job may be cancelled,
delivered and pruned while an earlier one is still to run; `counted` are the jobs
compaction dropped, and those up to `through` that are not among them were passed
(`Passed`): they have no entry and are in no number.

### 2.8 ArtifactDelivery

`rows` are the files of the current batch with the checkpoint of the only call
that shows a file, `inflight` the requests that Slack has not handled yet,
`thread` what it shows. The lane of the runner (`s`) uploads, shares, looks up
after a lost answer and gives up after the allowed checks; `reqs` are the
approval rows with the revision they ask about, and replies wake the job
(`AnswerTo`, `Settle`). Sealing of files on disk, re-encoding, the publication
policy and the completion reaction are left out. Today only the legacy phased
flow asks for approvals (`codex-executor.ts:11114`); every loop still processes
the rows.

### 2.9 AppServerSession and Supervision

`AppServerSession`: two pipes, `wire` and `stdin`; `server` is the peer's truth,
`view` what the client has observed of every turn, `pending` its requests with
tombstones for those that timed out. The owner loop starts or steers a turn, takes
control notifications, answers questions, probes progress, interrupts and reads
the end of the turn from the evidence (`verdict`). The peer keeps its protocol,
orders its messages as it may, and once may emit a line of garbage. An answer to a
probe, and its timeout, come before the next slot. `loadFullTurn` and
`loadPermissionProbeEvidence` (1486–1848) are left out.

`Supervision`: `life[a][p]` is the life of process `p` of attempt `a` (Codex, a
descendant in the group, one that left it, one it forks), `tags` the pair of
Seatbelt tags, `reg` the registration, `sup` the supervisor and its ledger,
`exec` the executor or the startup recovery. Freezing a group is one step; the
advisor drain, the retirement record and the watch and relay of a supervisor are
left out; attempts are of one job.

### 2.10 BoundedCommand and TreeFreeze

`BoundedCommand`: a command with a root, a helper in its group and a stray that
leaves it; three callers (`kind`), whose differences - lease, gate, last look,
deadline of the pipe - are guards. `TreeFreeze`: passes of scan and stop until
two find nothing new, descendants killed first, the root last; a failure lets all
go on.

### 2.11 AdvisorRound

The files of a round are variables indexed by round (`journal`, `slots`, `cache`,
`fallback`, `dir`, `cleanup`), `lock` is the claim, `retired` the receipt of a
retired generation. `run` is the broker's memory and dies with its generation;
`helper` is the process that types the prompt and may outlive it until the
generation is reaped. A slot of Claude says what is known of a prompt that
cannot be taken back (`ClaudeOutcomes`). The three writes of the finalisation of
a retired round are three steps; a crash may come between. `prompts` and
`obtained` are history.

### 2.12 MonitorFeed and JobMonitor

`MonitorFeed`: a byte is its number; two bytes make a character, so a chunk may
end inside one; `epoch` and the generations are the files, `progress` the
viewer's acknowledgement. `JobMonitor`: `job` is the row with its obligation,
`dir` the manifest on disk, `tabs` and `view` what is really in Herdr, `d` the
runner with its place. Each announcement precedes its call, and `Boot`
reconciles the three.

### 2.13 GitHubPublication

`remote[p]` is GitHub's state of a plan's repository - branch, pull request,
follow-up, obsolete pull request, merge queue - `row` and `kept` the durable
receipt and checkpoint, `pub` the publisher's place. Every mutation is followed
by a lookup; people (`Meddle`), CI (`Judge`) and the queue act in between. Titles
and bodies, retry delays and the checks of the local checkout are left out.

### 2.14 CloudHandoff

`cloud` is the thread's row (owner, epoch, state, published package), `events`
the idempotency table, `ctl` and `job` the local tables of each computer, `ws`,
`tree`, `prepared` and `package` what is on its disk. Each call of a database
function either fails, or succeeds and may lose its answer. A late application of
a call that timed out is not modelled, a failed capture is a blocked checkpoint,
and credentials are left out.

### 2.15 AppSwap

`target`, `backup` and `journal` are what is on disk, `pc[b]` the place of each
broker, `copies` the operator's copies that nobody took away. The operator acts
whenever a broker waits for a command.

## 3. Runs

| Run | Instance | Shows | States |
|---|---|---|---|
| `jobstore` | an audit and a read job in two threads, 2 faults, 4 attempts | `Integrity` (types, `SerialExecution`, `CancelExcludesSuccess`, `SuccessIsReal`), `RecoveryNeverWedges` | 1.9 million |
| `jobstore_thread` | a write and a read job of one thread, 1 fault, 3 attempts | `OrderedOnce` (`ThreadOrder`, `NoUncertainReplay`), `AttemptsArePaidFor`, refinement `KeepsPromise`, liveness `EverythingSettles` | 62 thousand |
| `jobstore_staged` | the same | the finding of section 6 | |
| `live_input` | 2 replies and a stop, 2 attempts, 1 fault | `Safety` (`NothingDropped`, `ResultIsCurrent`, `OneConversation`, `WaitingIsBound`, `CancelledIsClosed`), `CancelFreezes`, liveness `EverythingSettles` | 304 thousand |
| `outbox` | one job, 2 attempts, all kinds of rows of a running job, 1 fault | `ThreadReadsWell` (types; order of what a thread sees), `NoticesAreLive` | 1.1 million |
| `update` | 2 updaters, 3 releases, 1 request, 2 faults | `Safety`, `NoWorkCutOff`, `DecisionKept`, liveness `SwitchEnds` | 759 thousand |
| `service` | `RunnerService`, `UpdateRequest`, `ThreadFiles`, `ThreadHistory` | `Safety`, `UpkeepSafety`, `HistorySafety`, `ServiceKept`, liveness `Settles` | 454 thousand |
| `processes` | `ProcessLock`, `BoundedCommand`, `TreeFreeze` | `Safety`, `CommandSafety`, `UncertaintyIsKept`, liveness `Settles` | 522 thousand |
| `tools` | `AdvisorRound`, `MonitorFeed`, `JobMonitor`, `AppSwap` | `Safety`, `BesideSafety`, `TabKept`, liveness `Settles` | 659 thousand |
| `outside` | `CloudHandoff`, `GitHubPublication` | `Safety`, `GitHubSafety`, `PublicationKept`, liveness `Settles` | 314 thousand |
| `slack` | `ArtifactDelivery`, `Ingress`, `Outbox` with two jobs of a thread, `SlackSocket` | `Safety`, `InSafety`, `OrderKept`, liveness `Settles` | 289 thousand |
| `codex` | `Supervision`, `AppServerSession` | `Safety`, `SessionSafety`, `AnswersAreCurrent`, liveness `Settles` | 583 thousand |

**Runs of several components.** The last six runs check components side by side
that do not interact. A variable `part`, set in the first state, says which of
them moves; the others stay in their first state. The state space is the sum and
not the product, a property of a component is conditioned on its part, and
fairness is asked for the part that moves. Nothing is lost by that: each
component is in the run with its own bounds and its whole next-state relation.
In the module an MC module EXTENDS the properties are called by their own names
(`Safety`), those of the instances through a conjunction of the MC module
(`CommandSafety`). `MCTools`, `MCSlack` and others have several scenes of one
component too (`Feeds`, `Scenes`, `Turns`, `Freedoms`): choices of the constants
that would be large together, each in full.

**Why these bounds.** Bounds are CONSTANTS and count what is injected, not what
the code does. Two requests are enough for what relates two of them (order,
seriality): the code's predicates compare pairs. Two faults in `jobstore` let a
row be deferred by a limit and then found by a recovery; two in `update` let an
updater die on the way back from a failure. Four attempts let every kind of
retry follow every other. The second reply of `live_input` makes order and late
answers possible, its second attempt is what a reply put back meets. Three
generations of `ProcessLock` are a holder, its delegate's leader or descendant,
and a newcomer on a used pid; two inodes let a lock file be replaced. In `tools`
one advisor round goes through two generations of the executor, one retry and
two input revisions; a second round is only modelled (`Allowed`) and proved
about. Three builds, three deaths and two acts of the operator are
what an undo of an undo needs. In `outside` a hand-over and its return need two
computers and one job each; a promotion, a follow-up and an obsolete pull request
are the three kinds of a second plan. Two attempts of Codex in `codex` are one
whose remains the next must find. `slack` has two images, two rounds and two
checks, so that giving up and the next round meet. `service` has three runner
generations (left behind, current, repaired) under two operations and two
faults. The requests have two people and one automatic check, two gates (an updater
that was given up and a new one) and two faults, so that a meeting can follow a
death or another meeting. The
history has two scenes: two jobs, one with a reply, while the retention of 0 and the
tombstones of 1 run out within a time of 2 (`Past`), and four jobs, because a history
of one passes over a job only when two later ones are archived before it (`Long`);
liveness is asked of the first scene only.

Every property of a passing run has a mutant in `PROJECT.json`: a plausible bug
in the code (a dropped guard, a stale copy, a swapped order) with which TLC
finds the property violated under the very same bounds. None of them therefore
holds because its case does not happen.

**Deadlock** is checked where the system never stops: `JobStore` (the runner
polls) and `ReleaseUpdate` (a person may always ask). In the others a job, a
session, a call or a bound really ends the behaviour; there the liveness
property says what must have been reached by then.

**Inductive invariants** of section 5 were checked as invariants on these
instances before they were proved; they are defined in the `…Proofs` modules and
are no part of the runs.

## 4. Fairness

Fairness is given to what a loop, a timer or a restarting supervisor drives.
People, failures, deaths, models and GitHub's checks have none unless said.

- `JobStore`: the worker's loop polls, recovery runs at each start, the launcher
  restarts a dead daemon (all WF); the gateway's drain loop is re-armed by a
  timer (WF per message); deadlines pass (`Tick`); the App Server answers or the
  executor's timeout ends its turn; an updater gives its barrier back.
- `LiveInput`: WF on drain, executor, notifier and recovery; SF on the end of a
  task turn and on a usable answer: a goal does not go on for ever, and a
  question that is asked again is answered in the required form at some point.
- `Outbox`: WF on restarts and on the end of a post; SF on serving each row,
  because a lane takes every due row again after each failure but may find it
  not due, or be down, in between.
- `ProcessLock`: WF on the steps inside the guard (`Guarded`), where nobody
  waits for anybody, and on removing an abandoned lock (`Discard`): starts keep
  being attempted.
- `ReleaseUpdate`: WF on each updater's next step and on the services; and
  somebody asks for the recovery of a switch that was left, because the watchdog
  reports it and every start of the launcher script runs it.
- `RunnerService`, `UpdateRequest`: WF on launcher, runners, operations, worker
  and gateway; a start of the service follows only from the watchdog or a person.
- `Ingress`, `SlackSocket`, `ThreadFiles`, `ThreadHistory`, `ArtifactDelivery`:
  WF on each loop of gateway and runner (they are timers); Slack answers or times
  out.
- `Supervision`: WF on supervisor, executor and recovery, and on the departure of
  a process that was killed (`Leaves`), which is the kernel's promise.
- `AppServerSession`: WF on the reader, the owner and the peer's pipes; a
  deadline ends what the peer never answers.
- `BoundedCommand`, `TreeFreeze`: WF on the caller and on signals sent.
- `AdvisorRound`: WF on the broker and on the recovery of a retired generation
  (`Broker`, `Retirement`).
- `MonitorFeed`, `JobMonitor`: WF on the viewer and on the runner once it closes
  or opens a tab, not on what it has to say nor on the operator.
- `GitHubPublication`: WF on the publisher, the checks' verdict (`Judge`), the
  merge queue and the next start of the runner.
- `CloudHandoff`: WF on the computers' loops (`Goes`) and on receiving, per
  computer (`Receives`): failed calls are bounded, and a timer tries again.
- `AppSwap`: WF on the steps of brokers (`Works`), in which the one that swapped
  is asked for the restore.

## 5. Proofs

TLC says what holds of an instance; these theorems say it for every value of the
constants, from the assumptions that the modules declare. An invariant that is
not inductive was strengthened until it is, and the strengthening checked with
TLC before the proof.

### 5.1 JobStoreProofs

For every set of jobs, threads and kinds and for all bounds, from
`NoJobAssumption`, `KindAssumption` and `BoundAssumption`:

| Theorem | Says |
|---|---|
| `TypeCorrect`, `Invariance` | the type invariant; the inductive invariant `Consistent` |
| `SerialExecutionHolds` | one job runs, and no Codex process outlives its job |
| `ThreadOrderHolds` | a thread is attempted in order |
| `NoUncertainReplayHolds` | an uncertain write is never queued again |
| `CancelExcludesSuccessHolds` | a stop and a success exclude each other |
| `SuccessIsRealHolds` | a success rests on a turn that ended |
| `RecoveryNeverWedgesHolds` | recovery can settle every row it meets |
| `IntegrityHolds`, `OrderedOnceHolds` | the conjunctions the runs check |
| `AttemptsArePaidForHolds` | every attempt after the first is owed to a failure |
| `ImplementsPromise` | every step is a step of `JobPromise` or none |

None of the properties is inductive. `SerialExecution` needs to know that the
worker's job is the running row and who waits for the live process (`Holding`);
`NoUncertainReplay` needs that the receipt is always ahead of what Codex may have
received (`Prompting`), and, because a rate limit permits the replay of a write
that reached Codex, that the recorded limit remains the last thing Codex did while
nothing newer was delivered, over later attempts too (`Limiting`);
`SuccessIsReal` and the recovery property need what a staged result rests on
between the end of a turn and its commit (`Resulting`); `ThreadOrder` needs that
rows are numbered as they are made (`Numbering`). `Consistent` is their
conjunction. The proof reduces the actions to a few kinds of step (`StepKinds`,
`LeavingSteps`): most either keep what the invariant is about, or let a running
row go in one of three ways; the rest have a step of their own under each part.

`AttemptsArePaidFor` counts attempts against failures, so its invariant `Paying`
says what is owed at each place: at most the attempt in progress is unpaid, and
only while the worker has it in hand or its result is staged (`PaidRows`); the
worker is about to give a row back only after a failure (`PaidHere`); a staged
result was delivered and waits for nothing, so no recovery defers it
(`StagedStays`).

The refinement has a further invariant, `Ending` (a row that is not over has no
verdict, and a staged result is the last word of its attempt), and goes action by
action: each is a step of the promise under the mapping `Custody` or leaves it
alone. `JobPromise`'s liveness is not part of it; `KeepsPromise`
checks that on the instance.

### 5.2 ReleaseUpdateProofs

For every set of updaters and every number of releases and faults, from
`ReleaseAssumption` and `NoneAssumption`: `TypeCorrect`, `NoWorkCutOffHolds` (no
updater stops a runner in the middle of a job), `SwitchIsDecidedHolds` (a journal
goes forward when healthy, else all the way back), `SwitchIsWholeHolds` (without a
journal links, pin and services are of one release), `StoppedStaysStoppedHolds`,
and the conjunctions `SafetyHolds` and `DecisionIsKept`.

There are two inductive invariants. `Consistent` ties the memory of the updater
that holds the lock to the journal (`Remembered`): even the type invariant needs
it, since a record is written from memory. Its part `Quiet` is why no job is cut
off: work begins only without lock and journal, and nothing begins between the
end of the wait and the first record. `Whole` rests on it and says how far links
and services have been brought at each place of the switch (`Carried`), and what
may be found by whoever comes next (`Settles`): a start is on its way only while
a journal says that the app was running. The proof of each has one lemma per
group of actions; the other updaters wait for the lock, so what its holder
changes is not theirs (`OthersKeep`, `CarriesOn`).

### 5.3 OutboxProofs

For every number of jobs, attempts and notes, every assignment of threads and
every choice of rows, from `OutboxAssumption`: `TypeCorrect`,
`ResultIsLastHolds`, `NothingUnsaidHolds`, `StoryInOrderHolds`,
`StartFollowsWaitHolds`, and the two action properties of the run,
`ThreadReadsWellHolds` and `NoticesAreLiveHolds`.

An eligibility query is evaluated once, before a post leaves; the thread sees it
later, and no lock is held between. `Inv` says what remains true of it meanwhile:
that the worker has at most one job and which lane is open at each of its places
(`WorkerInv`), that a job once claimed stands behind settled jobs of its thread
only (`JobsInv`), that results and commentary are never withdrawn and what counts
as delivered was posted (`RowsInv`), and what was checked of each post on its way
(`PostInv`): a result has nothing unsaid before it, because nothing of its job is
staged once it is settled; a capacity notice still finds its attempt, because the
worker waits for the lane before it changes the job. That a job behind settled
ones has a first one whose result is missing is well-founded induction over finite
sets; everything else is by cases over the actions.

### 5.4 LiveInputProofs

For every set of replies and every number of attempts and faults: `SafetyHolds`
(all five invariants of the run) and `CancelFreezesHolds`. Executor, gateway and
notifier share the rows of the replies. `Lined` says what keeps them apart: at
most one row is taken up at a time, the foremost unfinished one. `Accounted` ties
rows to the fate of messages, `Bound` to the input revision, `InHand` says what
the executor may rely on at each place after it has let go of the database, and
`Covered` which updates the running turn, the result in memory and the staged
result have as input. `ResultIsCurrent` is the end of that chain.

### 5.5 ProcessProofs

The module extends `MCProcesses`, whose constants are left open, so it speaks of
the state space that the run checks and not of the values its cfg gives.

**The lock.** For every set of pids and inodes and every number of processes, leases, faults
and reboots: `SafetyHolds` (`WorkIsCovered`: whoever works under a lease finds
exactly this lease on the disk; `NeverWedged`: whatever an interrupted operation
left can be interpreted) and `UncertaintyIsKeptHolds` (a blocked or pending
delegation is removed by its token only, and only after its group). `Numbered`
is what the kernel guarantees of pids and groups; `Delegated` why a group
whose leader died cannot be taken for another; `Covered` the property with the
files it rests on; `Guard` what of it holds between two system calls of each
operation.

**Bounded commands and the freezing of a tree.** `CommandSafetyHolds`, from
`BoundAssumption` and `MishapsAssumption` (bounds are numbers) and nothing else: for
every set of kinds of command and of windows, every root with any set of other
processes, and every number of passes and faults. That a leased command runs only
while the lock names it (`LeaseCoversGroup`) rests on `Unleased`: a gate that nobody
wrote into the lock is not told to start, whichever write failed and whoever died
in between. `Kept` says what each kind of caller does and when, `Taken` that nobody
takes a lock over from a group that lives.

For the tree (`NobodySlips`), `Passes` says what the last passes have shown. A scan
of stopped processes that finds nothing new leaves a closed set (`Closed`): a
stopped process forks no more, and one that forked before it was stopped made the
scan differ. `Cover` says that whatever lives is below a pinned process, or below
one that lost its parent before a scan saw it; those are what the code cannot see,
and the property names them. `Below` is defined as the least set closed under
children, which is the fixed point that the scan reaches; so the lemmas on it
(`ReachHas`, `ReachIsLeast`, `ReachGrows`) need no induction.

### 5.6 AdvisorRoundProofs

For every set of rounds with two distinguished ones, and every number of retries,
revisions and generations, from `AdvisorAssumption` and
`NothingAssumption` (`None` is no record): `Invariance` and
`SafetyHolds` (`NeverAskedTwice`: a model is prompted at most once for a round, by
whatever broker; `AnswersSurvive`: an answer obtained is offered again). The
argument is that a prompt leaves a trace before it leaves the computer, that the
trace outlives the broker that made it, and that whatever says "not prompted" is
withdrawn before the next session is opened. `Lived` says what a dead broker
cannot have left, `Filed` what the files of each round say of prompts and
answers (`Blank`: nothing filed, nothing prompted; `Traced`: prompts have their
traces; `Kept`: memory, slots and journal have every answer), `InHand` what holds
at each place of the running broker, and `Helped` what a helper process that may
outlive it is still entitled to do. `Survives` is a lemma that a reader may want:
the death of a generation at any point keeps `Filed`.

### 5.7 RunnerServiceProofs

Three of the four components of the run `service`; `PartsStep` says that a step of
the run is a step of each component or leaves it alone.

*The runner.* For every number of generations, operations and faults, from
`RunnerServiceAssumption`: `ServiceIsSafe` (at most one generation is past its
publication and the receipt names it; a stop that was reported is final), for
every choice of `Windows`; and `ServiceSparesWork` (only a forced stop ends a
runner at work, a start never ends the one it found), for every choice that
leaves out "slow". With "slow" the code really ends work (section 6), so that
hypothesis is the finding and not a convenience.

`IInv` says which receipts, launchers and operations go together: a launcher
clears an intent only when its child is dead (`FailedIsDead`), an operation that
runs has reported nothing (`Unreported`), and each step of an operation finds
down what the steps before it brought down (`Stages`, `GatewayIsDown`,
`FinalIsDown`). `ISpare` says who may be near a job at each step: after the
quiescence nobody (`StopsAreStill`), between the pause request and the end of a
runner only that runner (`TargetStops`), during a start only the runner it found,
whose launcher is gone (`OnlyFound`, `Found`); and a runner with a pending SIGTERM
is not at work (`TermIsIdle`). Its key is `CalmStep`: behind the update lock no
runner begins to claim, so while an operation runs the set of runners at a job
only shrinks, and a look that found none stays true. A wait that runs out ends the
operation and with it that bound, which is where "slow" comes in.

*Requests and files* (`UpkeepIsSafe`, and `ServiceIsKept` for what no step of the
three may do): for every set of people and of files, and every number of requests,
gates, messages, tries, deaths and failures, from `UpkeepAssumption` (the
automatic update is nobody's message, the files are finitely many and each came
with a message). What concerns the requests needs no hypothesis: calls, the
timer, the automatic check and workers may meet as they do. `UpkeepIsSafe` leaves out
"inbox" for the files and `ServiceIsKept` "slow" for the runner, with which the
conclusions are false (section 6).

`UpdateInv` says why there is one updater at a time, beside those that were given up,
although gateway, worker and gates die independently. An updater is the gate that an
unfinished request in the file names (`UpdaterIsNamed`), because the worker registers
the gate before it lets it begin. A worker works for the request in the file, unless
the request's own caller withdrew it (`WorksForFile`), and then that request is gone
for good until the worker writes its outcome (`WithdrawnIsGone`). What each step of
the worker holds agrees with file and gates (`WorkerAt`): in particular no updater is
there that the worker does not know. What a call read may be old when it acts, but only
in one direction (`SeenIsOlder`): the file is at least as far, and if it names
another request by now, that one has its outcome. `CallsAgree` and `Agrees` say what
goes with what in calls and files.

`ServiceIsKept` says of a request that it disappears unsettled only in the ways the
definition lists, and that only its own caller ever takes it from its worker
(`RequestKept`).

`FilesInv` adds to the safety of the files what the drain loop has in hand
(`DrainAt`): what it has seen is whole on disk, what it recovers belongs to rows
that are gone. Rows are handed over in order, to the one open job of the thread
(`HandedInOrder`), so what is owed or old belongs to earlier rows (`OldIsGone`); the
files of a row stay whole until the row goes (`HandedFiles`), which is what "inbox"
breaks; what a row recovered stays in the row until it is handed over
(`HelpIsKept`), whatever restarts; and an open job may read only what is catalogued
(`OpenJobsRead`). `NothingForgotten`, `RepliesAreComplete` and `JobsAreInformed` are
preserved together with these and not alone. `BytesAreKept` counts: `BytesStay` says
that a step that spoils nothing adds nothing to the spoiled and retired files.

### 5.8 SlackProofs

Three components of the run `slack`. *Images*, for every number of proposals, checks, faults and messages, from
`ArtifactDeliveryAssumption` (replies are finitely many, "image" and "prompt" are
not names of messages, at least one look is allowed): `DeliveryIsSafe`, all
three invariants of the run.

The lookups of the code are unreliable in one direction: an image that is not in
the thread may still be on its way. So the argument counts what can ever show a
file, on its way or shown. All of it is behind the checkpoint `completing`, which
is written before the call (`Checkpointed`), and the lane makes the call from
`uploaded` only: hence one mark of each file (`OneEach`) however late the first
one lands and whatever the lane concluded in between. A row becomes delivered
only when its file is in the thread (`Delivered`); the question is sent when all
rows are, and is the last thing the lane sends (`Lane`, `PromptIsLast`), so it
stands after its images (`QuestionsFollow`). `Course` says which request can be
open at all and `Recording` that its recorded place is that of the question; the
two make an answer an informed one. That the last step of a result looks at every
file once more gives `NothingMissingSilently`.

*Messages and the socket* (`InSafetyHolds`, `MentionsInOrderHolds`): for every
channel, page size, backoff and number of faults, from `IngressAssumption` (a root
comes no later than its replies and is its own root, no case is longer than the
channel) and `SocketAssumption` (at least one attempt, and a first wait to tell
from none). What the invariant needs beyond the properties:

- *Order in a thread* (`Gated`). A claim looks only at the earlier intents the table
  has, so it is worth no more than the snapshot before it: after a snapshot every
  earlier mention of the thread is in the ledger or has an intent, hence after a
  claim all of them are in the ledger. The two together, and not the claim alone,
  give `MentionsInOrder`.
- *One bootstrap* (`Adopted`). A delivery of a thread nobody owns stands behind the
  thread's bootstrap, or an earlier delivery of the thread failed; that is why
  nothing becomes a job, and nobody an owner, before the context was taken. The
  exception in `OneBootstrap` is not a weakness of the argument: after a failure
  the code does let a second mention start anew.
- *Positions* (`Polled`, `Swept`). A page in hand may be old when it is committed.
  The invariant says what it must still be then: all that lies between the cursor
  and its end, whatever was posted or adopted meanwhile, and, for a cycle, exactly
  the page its position passes next. `LeftBehind` joins the cycles: the roots a
  cycle has behind it, complete or half way, include all up to where the next one
  starts (`Begins`, `PassedIs`), and a page with a message has all that is older,
  or newer (`PageIsWhole`). Messages posted later are past every position
  (`ReadsStay`).
- *The socket* (`Attached`, `Paid`). The client and the call in hand agree with the
  supervisor's step, and an attempt without a wait was paid for by a connection
  that held.

### 5.9 What stays with TLC

Liveness under fairness and ENABLED are outside what TLAPS does; so is
induction over data. The safety of `Supervision`, `AppServerSession`,
`ThreadHistory`, `MonitorFeed`, `JobMonitor`, `GitHubPublication`, `CloudHandoff`
and `AppSwap` is model-checked and not proved. `ThreadHistory` compacts its archive
with a fold over a sequence, and what a fold computes needs an induction over it.
For `CloudHandoff` there is a reason: over every scene that its constant admits
`OneWriter` and `NothingIsLost` are false, because of the second task with a
control at one computer that section 6 describes; a theorem would need a
restriction of the scenes that the code does not justify. `KeepsPromise` is proved
as far as it is a safety property and model-checked whole.
`RecoveryOnlyGoesBack` and the other properties of section 6 are false and
remain as definitions.

## 6. Findings and observations

**Found by a run.** `jobstore_staged`: `README.md:29–30` says that confirmed
results are recovered after a restart. A result that was sealed but not committed
is dropped if a message of its thread is staged before the restart: the staged
recovery refuses the row (`job-runner.ts:11091`) and the general recovery does not
look at the staged result (`14125`).

**Properties the code refutes.** They are defined in their modules, with the
comment or document that suggests them, and can be checked by adding them to the
cfg of their run:

| Property | Says | The code |
|---|---|---|
| `LiveInput!BarrierHasDeliverableInput` | pending input at a turn barrier is deliverable (`codex-executor.ts:9604` throws otherwise) | a reply that is paused, or was put back after a limit, is pending but not deliverable |
| `LiveInput!LateAnswerKeepsResult` | "A late answer-only message must not rerun an already completed task" (`codex-executor.ts:11908`) | a second reply while the first late one is answered makes it run again |
| `Outbox!WaitNoticeIsCurrent` | the wait before a claim is for the notice of the job that is claimed (`job-runner.ts:15405`) | it is for the head before the wait; the claim may take another job |
| `ReleaseUpdate!RecoveryOnlyGoesBack` | `--recover-only` recovers (`zerokun/README.md:558`) | having waited behind an update that failed without a journal, it installs (`independent-update.ts:81`) |
| `GitHubPublication!RestartsComplete` | a pending publication is completed by a restart (`github-publication.test.ts:1804`) | the start refuses one that is quarantined (`job-runner.ts:14731`) |
| `UpdateRequest!StartedAfterAcceptance` (`UpdateStartsAccepted` in `MCService`) | the worker starts after the acceptance was posted (`update-request.test.ts:687`, which makes its second call only after the first returned) | a second request (`update-request.ts:472`) or the timer (`544`) starts it while the first caller still posts |
| `ThreadHistory!OmittedAreOlder` (`HistoryCountsOlder` in `MCService`) | "N older job block(s) omitted", as a prompt says (`thread-history.ts:366`) | the count is of the thread (`job-runner.ts:1995`): a later job that was cancelled in the queue, archived and compacted before an earlier one runs is in it |
| `Ingress!ScansEnd` | a scan of replies ends (comment at `server.ts:2069`) | a page that is never durable is read again for ever (`server.ts:2241`) |

What follows from `StartedAfterAcceptance` being false: the first caller finds the
session, fails, and removes the request of the running worker
(`update-request.ts:499–505`), against the comment at `server.ts:1546`; its message is
answered with an error although the update runs. The run `service` contains these
meetings and shows how far the harm goes: `OneUpdater` and `Findable` hold beside the
gates in `lost`, and `RequestKept` names this way of losing a request.

**Races that an instance leaves out.** `Windows` names them; with the name in the
set the property fails:

- `RunnerService`, "unpinned": a launch intent whose child never published and
  whose daemon lock is held by another stays (`runner-launcher.ts:388` against
  `396–399`), so a start is not served. "slow": the cloud retry timer acknowledges
  a pause between the loop's look at the barrier and its claim
  (`job-runner.ts:19162`), so a stop meets a running job.
- `Supervision`, "start": recovery removes the tags of an attempt whose supervisor
  registers only then (against `seatbelt-fingerprint.ts:477–482`). "poll": a
  cancelled attempt's registration is removed while a Codex in the ledger lives
  (`codex-executor.ts:7992–7996`).
- `BoundedCommand`, "pipe": the host command does not return while a detached
  descendant keeps the output pipe open (`github-publication.ts:1262–1267`).
- `ThreadFiles`, "inbox": a recorded file lost before it is handed over makes the
  failure handler throw as well; the row stays `processing` and the inbox behind
  it waits, after restarts too (`job-runner.ts:4736–4797`, `7000–7045`). If it is
  the file of a reply that a waiting job took in before the gateway died, the row
  is refused later and the file owed again, and the job runs without having been
  told (`JobsAreInformed` fails with a file of a reply and three faults).
- `AppSwap`, "race": the operator acts between two moves of a broker.

**Observations** that no run shows, or that rest on what was left out:

- A result that can never be delivered stays in the outbox and holds back the
  commentary and results of later jobs of its own thread
  (`job-runner.ts:12277–12283`, `12764–12769`), which the comment at `15209–15210`
  can be read to exclude. Other threads are not affected (`OtherResultsArrive`).
- An updater that dies after it saved the phase `healthy` leaves services that
  stop themselves (`server.ts:1868`); the recovery removes the journal and starts
  nothing, though the app was running before (`README.md:366`).
- A daemon that starts while a journal is pending skips startup recovery and does
  not make up for it (`job-runner.ts:18962`); a row left `running` holds the queue
  until the next start.
- Two updaters that wait with different candidates may install the older last.
- A call that read a request before its worker wrote the outcome may reserve anew on
  what it read, so the outcome is never told (`RequestKept`, its last case). A worker
  whose request was withdrawn writes its outcome over the request accepted since.
- More cancelled queued jobs than the history keeps, pruned before an earlier job
  ends, make compaction pass over that job: it has no entry in the history of later
  jobs and is in no number (`Passed`; `PassedByMany` says that it takes that many).
- A process-lock delegate whose group number was used again by a group whose leader
  has died counts as alive until that group ends. This errs on the safe side.
- A forced stop looks once at what runs; the launcher may start a runner after
  that look.
- A supervisor killed between starting its gate and writing the ledger leaves a
  stopped gate for ever. A helper without the tag, forked after the last poll of a
  supervisor that is then killed, is out of reach by design.
- An `error` notification of an earlier native turn makes the next turn fail with
  "not bound to the active turn" (`codex-executor.ts:9126–9133`).
- In a hand-over a second task of the computer can run at the new epoch while an
  earlier control is retried; `enqueueCloudImport` has no epoch condition
  (`job-runner.ts:9743`, unlike `9601`) and marks it transferred. An old owner's
  waiting job never learns of the transfer, and a parked job is not claimed even
  to be stopped.
- A read position may pass a message that only `cloud_handoff_controls` holds back
  (`commitSlackReadCursorIfDurable`); a plain reply during a pending bootstrap is
  ignored live and delivered after a later mention; a second bootstrap after a
  failed one ends in a conflict.
- After an advisor slot ended `live`, the journal is refused and a saved answer of
  the other advisor is no longer offered (against the comment at
  `advisor-broker.ts:3031`). A death between the claim (`3861`) and the requested
  journal (`4053`) leaves `active-round.lock` behind.
- A death between the intent to run a viewer and `pane.run` makes the next start
  refuse until somebody removes the manifest; so do a forced stop after a job that
  was never shown failed (`herdr-job-monitor.ts:2569–2574`) and a completed job
  whose viewer died undrained.
- A follow-up pull request is looked for in all states
  (`github-publication.ts:1671–1689`), so a closed one counts; a cancel after the
  last checkpoint still lets a close and merge proceed; the `cleanup` quarantine is
  forgotten by a restart.
- A waiting result with a missing image never posts its text, and an unreadable
  image defers it for ever; both are by design.
- The socket supervisor reconnects once without a pause when the first connection
  dies young.

## 7. Not modelled, and the plan

- The write flow in phases and the JSONL path of `codex exec`
  (`codex-executor.ts` 9,960–10,290 and 10,333–11,746): only fixtures and old rows
  reach them.
- The older shared update (`legacyMain`) and migrations of the schema: a
  transaction at start, tested on copies.
- The security audit, gate, access and routing, project configuration, the fleet
  dashboard, the brokers of single tools, setup scripts, the Python reviewers:
  they keep no state that several actors change, or are data to the parts above.
  `PROJECT.json` gives the reason for each.
- An explicit override of the resume state (`job-runner.ts` 14,175–14,185), and a
  helper that lives on after a containment error of an advisor send.
- Inside the modelled parts, section 2 names what each module leaves out.

Theorems next: the evidence of a turn in `AppServerSession` and who finds the
processes of an attempt in `Supervision`.

## 8. How to run

    tlc -workers 2 -config MCJobStore.cfg MCJobStore
    tlc -workers 2 -config MCJobStoreLive.cfg MCJobStore
    tlc -workers 2 -config MCTools.cfg MCTools          # each cfg with its MC module
    tlapm JobStoreProofs.tla                            # each …Proofs module

`MCJobStoreLive.cfg` and `MCJobStoreStaged.cfg` belong to `MCJobStore`. The longest run
takes under three minutes with two workers.
