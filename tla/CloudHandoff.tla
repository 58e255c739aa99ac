----------------------------- MODULE CloudHandoff ----------------------------
(***************************************************************************)
(* A Slack thread that two computers work on in turn (handoff-coordinator, *)
(* cloud-runtime, cloud-handoff, the cloud tables of job-runner.ts and the *)
(* database functions of supabase/migrations).  A job that meets its usage *)
(* limit is parked, its workspace is frozen in a package, and the package  *)
(* is published; a later "continue" or "take over" moves the ownership of  *)
(* the thread one epoch on and imports the package as a new job.  Every    *)
(* call to the cloud may fail, or succeed and lose its answer; a runner    *)
(* may be restarted between any two steps.                                 *)
(***************************************************************************)
EXTENDS Naturals, FiniteSets

CONSTANTS
  PCs,         \* computers, each with its own runner, database and Slack app
  Scenes,      \* messages of the thread, in order: sequences of [pc, kind]
  MaxWork,     \* bound: units of work the jobs of the thread perform
  MaxFaults    \* bound: failed calls, lost answers, failed captures, restarts

Msgs == 1 .. 3
Epochs == 1 .. 3
Nobody == "nobody"

VARIABLES
  scene,     \* the messages of this run
  arrived,   \* how many of them the gateways have recorded
  cloud,     \* the thread's row: owner, epoch, state and published package
  events,    \* zerochan_handoff_events: the epoch each control took, 0 if none
  job,       \* the job of a message: state, cloud binding and its epoch
  ctl,       \* cloud_handoff_controls: none, staged or done
  reserved,  \* controls whose reservation has started
  ws,        \* workspace receipt of each computer: the epoch it was made for
  tree,      \* the work in each computer's workspace of an epoch
  prepared,  \* cloud-imports receipt of a control: the epoch restored
  package,   \* frozen packages of each computer, by epoch
  save,      \* the pause in progress at each computer
  recv,      \* the control in progress at each computer
  limited,   \* epochs whose usage limit has not been lifted
  work,      \* units of work done in the thread
  faults     \* bound used

vars == <<scene, arrived, cloud, events, job, ctl, reserved, ws, tree, prepared,
          package, save, recv, limited, work, faults>>

PC(m) == scene[m].pc
Kind(m) == scene[m].kind
Here(p) == {m \in Msgs : PC(m) = p}

NoRow == [owner |-> Nobody, epoch |-> 0, state |-> "none", pkg |-> 0]
Missing == MaxWork + 1                     \* a package file that does not exist
IdleSave == [job |-> 0, step |-> "idle", timer |-> FALSE]
IdleRecv == [ctl |-> 0, step |-> "idle", epoch |-> 0]

Parked(m) == job[m].st = "queued" /\ job[m].bind \in {"saving", "waiting"}
Busy(m) == job[m].st \in {"claimed", "running", "limited"}
Set(m, st, bind) == job' = [job EXCEPT ![m].st = st, ![m].bind = bind]

Init ==
  /\ scene \in Scenes
  /\ arrived = 0
  /\ cloud = NoRow
  /\ events = [m \in Msgs |-> 0]
  /\ job = [m \in Msgs |-> [st |-> "none", bind |-> "none", epoch |-> 0, blocked |-> FALSE]]
  /\ ctl = [m \in Msgs |-> "none"]
  /\ reserved = {}
  /\ ws = [p \in PCs |-> 0]
  /\ tree = [p \in PCs |-> [e \in Epochs |-> 0]]
  /\ prepared = [m \in Msgs |-> 0]
  /\ package = [p \in PCs |-> [e \in Epochs |-> Missing]]
  /\ save = [p \in PCs |-> IdleSave]
  /\ recv = [p \in PCs |-> IdleRecv]
  /\ limited = {}
  /\ work = 0
  /\ faults = 0

Fault == faults < MaxFaults /\ faults' = faults + 1
NoFault == UNCHANGED faults

-----------------------------------------------------------------------------
(* The database functions: each is one transaction on the row.  A call has *)
(* an effect when its guard holds; its answer may still be lost.           *)

Claimable(p) == cloud = NoRow \/ (cloud.owner = p /\ cloud.state = "active")
Claimed(p) == IF cloud = NoRow THEN [NoRow EXCEPT !.owner = p, !.epoch = 1, !.state = "active"]
                               ELSE cloud

Fresh(p, e) == cloud.owner = p /\ cloud.epoch = e
CanSave(p, e) == Fresh(p, e) /\ cloud.state \in {"active", "saving"}
Saving == [cloud EXCEPT !.state = "saving"]
CanPublish(p, e, w) ==
  Fresh(p, e) /\ (cloud.state = "saving" \/ (cloud.state = "waiting" /\ cloud.pkg = w))
Published(w) == [cloud EXCEPT !.state = "waiting", !.pkg = w]

TakenBy(p, m) == events[m] # 0 /\ Fresh(p, events[m])
CanTake(p, e, m) ==
  /\ events[m] = 0
  /\ cloud.state = "waiting" /\ cloud.epoch = e
  /\ ~(cloud.owner = p /\ e \in limited)
Taken(p) == [cloud EXCEPT !.owner = p, !.epoch = @ + 1, !.state = "importing"]

CanActivate(p, e) == Fresh(p, e) /\ cloud.state \in {"importing", "active"}
Active == [cloud EXCEPT !.state = "active"]

-----------------------------------------------------------------------------
(* Admission of the thread's messages.                                     *)

\* Jobs parked at an epoch the cloud has left behind give up their place.
Retired(p) ==
  job' = [m \in Msgs |->
    IF PC(m) = p /\ job[m].epoch < cloud.epoch /\ job[m].bind \in {"saving", "waiting"}
    THEN [job[m] EXCEPT !.bind = "transferred", !.blocked = FALSE] ELSE job[m]]

Arrive ==
  /\ arrived < 3
  /\ arrived' = arrived + 1
  /\ LET m == arrived + 1
         p == PC(m)
         foreign == Kind(m) = "continue" /\ cloud # NoRow /\ cloud.owner # p
         control == \/ Kind(m) = "handoff"
                    \/ Kind(m) = "continue" /\ cloud.state \in {"saving", "waiting", "importing"}
     IN \/ foreign /\ Retired(p) /\ UNCHANGED ctl
        \/ ~foreign /\ control /\ ctl' = [ctl EXCEPT ![m] = "staged"] /\ UNCHANGED job
        \/ ~foreign /\ ~control /\ Set(m, "queued", "none") /\ UNCHANGED ctl
  /\ UNCHANGED <<scene, cloud, events, reserved, ws, prepared, package, save, recv,
                 limited, work, faults, tree>>

-----------------------------------------------------------------------------
(* The job runner's loop.                                                  *)

\* A job waits for the controls before its message and for the earlier jobs
\* of the thread that were not transferred.
Ready(m) ==
  /\ job[m].st = "queued" /\ job[m].bind \in {"none", "active"}
  /\ \A c \in Here(PC(m)) : c < m => ctl[c] # "staged"
  /\ \A k \in Here(PC(m)) : k < m =>
       ~(job[k].st = "queued" \/ Busy(k)) \/ job[k].bind = "transferred"

Claim(m) ==
  /\ Ready(m)
  /\ job' = [job EXCEPT ![m].st = "claimed"]
  /\ UNCHANGED <<scene, arrived, cloud, events, ctl, reserved, ws, prepared, package,
                 save, recv, limited, work, faults, tree>>

\* The claim of the thread, the binding and the workspace of the task.  A
\* refusal is final, a failed call only defers the job.
Prepare(m) ==
  LET p == PC(m)
      epoch == IF cloud = NoRow THEN 1 ELSE cloud.epoch
      fresh == ws[p] = 0
  IN
  /\ job[m].st = "claimed"
  /\ \/ /\ Claimable(p) /\ NoFault
        /\ cloud' = Claimed(p)
        /\ ws' = IF fresh THEN [ws EXCEPT ![p] = epoch] ELSE ws
        /\ job' = [job EXCEPT ![m].st = IF fresh \/ ws[p] = epoch THEN "running" ELSE "failed",
                              ![m].bind = "active", ![m].epoch = epoch]
     \/ /\ ~Claimable(p) /\ NoFault
        /\ job' = [job EXCEPT ![m].st = "failed"]
        /\ UNCHANGED <<cloud, ws>>
     \/ /\ Fault
        /\ job' = [job EXCEPT ![m].st = "queued"]
        /\ cloud' \in {cloud, IF Claimable(p) THEN Claimed(p) ELSE cloud}
        /\ UNCHANGED ws
  /\ UNCHANGED <<scene, arrived, events, ctl, reserved, prepared, package, save, recv,
                 limited, work, tree>>

Work(m) ==
  /\ job[m].st = "running" /\ work < MaxWork
  /\ work' = work + 1
  /\ tree' = [tree EXCEPT ![PC(m)][ws[PC(m)]] = @ + 1]
  /\ UNCHANGED <<scene, arrived, cloud, events, job, ctl, reserved, ws, prepared, package,
                 save, recv, limited, faults>>

Finish(m) ==
  /\ job[m].st = "running"
  /\ job' = [job EXCEPT ![m].st = "done"]
  /\ UNCHANGED <<scene, arrived, cloud, events, ctl, reserved, ws, prepared, package,
                 save, recv, limited, work, faults, tree>>

\* The provider's refusal, recorded before the processes of the job settle.
MeetLimit(m) ==
  /\ job[m].st = "running"
  /\ job' = [job EXCEPT ![m].st = "limited"]
  /\ limited' = limited \cup {job[m].epoch}
  /\ UNCHANGED <<scene, arrived, cloud, events, ctl, reserved, ws, prepared, package,
                 save, recv, work, faults, tree>>

LimitLifts(e) ==
  /\ e \in limited /\ limited' = limited \ {e}
  /\ UNCHANGED <<scene, arrived, cloud, events, job, ctl, reserved, ws, prepared, package,
                 save, recv, work, faults, tree>>

-----------------------------------------------------------------------------
(* Pausing: park, look, declare, freeze, publish, record.                  *)

Rest(p) == save' = [save EXCEPT ![p] = IdleSave]
SaveTo(p, step) == save' = [save EXCEPT ![p].step = step]

\* Mutant: the save begins while the processes of the job still run.
PauseRunning(m) ==
  /\ save[PC(m)].step = "idle"
  /\ \/ job[m].st \in {"limited", "running"}
     \/ /\ job[m].st = "queued" /\ job[m].bind = "saving" /\ ~job[m].blocked
        /\ recv[PC(m)].step = "idle"
  /\ Set(m, IF job[m].st = "running" THEN "running" ELSE "queued", "saving")
  /\ save' = [save EXCEPT ![PC(m)] = [job |-> m, step |-> "look", timer |-> job[m].st = "queued"]]
  /\ UNCHANGED <<scene, arrived, cloud, events, ctl, reserved, ws, prepared, package,
                 recv, limited, work, faults, tree>>

\* The wait is durable, and the worker released, before any call is made.
\* A save the timer retries parks again without effect; the timer handles one
\* control or one save at a time, the worker's own pause runs beside it.
Pause(m) ==
  /\ save[PC(m)].step = "idle"
  /\ \/ job[m].st = "limited"
     \/ /\ job[m].st = "queued" /\ job[m].bind = "saving" /\ ~job[m].blocked
        /\ recv[PC(m)].step = "idle"
  /\ Set(m, "queued", "saving")
  /\ save' = [save EXCEPT ![PC(m)] = [job |-> m, step |-> "look", timer |-> job[m].st = "queued"]]
  /\ UNCHANGED <<scene, arrived, cloud, events, ctl, reserved, ws, prepared, package,
                 recv, limited, work, faults, tree>>

\* Mutant: a job the cloud has moved past is never given up.
LookAgain(p) ==
  LET m == save[p].job IN
  /\ save[p].step = "look"
  /\ \/ /\ NoFault /\ cloud.epoch > job[m].epoch
        /\ UNCHANGED job
        /\ Rest(p)
     \/ /\ NoFault /\ Fresh(p, job[m].epoch) /\ UNCHANGED job
        /\ SaveTo(p, IF cloud.state = "waiting" THEN "freeze" ELSE "declare")
     \/ Fault /\ Rest(p) /\ UNCHANGED job
  /\ UNCHANGED <<scene, arrived, cloud, events, ctl, reserved, ws, prepared, package,
                 recv, limited, work, tree>>

\* Where the thread stands decides: a later epoch retires the job, a row of
\* somebody else fails the attempt, a published package only needs its record.
Look(p) ==
  LET m == save[p].job IN
  /\ save[p].step = "look"
  /\ \/ /\ NoFault /\ cloud.epoch > job[m].epoch
        /\ job' = IF job[m].bind \in {"saving", "waiting"}
                  THEN [job EXCEPT ![m].bind = "transferred", ![m].blocked = FALSE] ELSE job
        /\ Rest(p)
     \/ /\ NoFault /\ Fresh(p, job[m].epoch) /\ UNCHANGED job
        /\ SaveTo(p, IF cloud.state = "waiting" THEN "freeze" ELSE "declare")
     \/ Fault /\ Rest(p) /\ UNCHANGED job
  /\ UNCHANGED <<scene, arrived, cloud, events, ctl, reserved, ws, prepared, package,
                 recv, limited, work, tree>>

Declare(p) ==
  LET able == CanSave(p, job[save[p].job].epoch) IN
  /\ save[p].step = "declare"
  /\ \/ NoFault /\ able /\ cloud' = Saving /\ SaveTo(p, "freeze")
     \/ NoFault /\ ~able /\ UNCHANGED cloud /\ Rest(p)
     \/ Fault /\ cloud' \in {cloud, IF able THEN Saving ELSE cloud} /\ Rest(p)
  /\ UNCHANGED <<scene, arrived, events, job, ctl, reserved, ws, prepared, package,
                 recv, limited, work, tree>>

\* The first package written for the epoch is the one every retry publishes.
ToPublish(p, e) == IF package[p][e] = Missing THEN tree[p][ws[p]] ELSE package[p][e]

\* A file that may not travel blocks the save until a person answers.
Freeze(p) ==
  LET m == save[p].job
      e == job[m].epoch
  IN
  /\ save[p].step = "freeze"
  /\ \/ /\ NoFault
        /\ package' = [package EXCEPT ![p][e] = ToPublish(p, e)]
        /\ SaveTo(p, "publish") /\ UNCHANGED job
     \/ /\ Fault /\ package[p][e] = Missing
        /\ job' = IF job[m].bind = "saving" THEN [job EXCEPT ![m].blocked = TRUE] ELSE job
        /\ Rest(p) /\ UNCHANGED package
  /\ UNCHANGED <<scene, arrived, cloud, events, ctl, reserved, ws, prepared, recv,
                 limited, work, tree>>

Publish(p) ==
  LET e == job[save[p].job].epoch
      w == package[p][e]
      able == CanPublish(p, e, w)
  IN
  /\ save[p].step = "publish"
  /\ \/ NoFault /\ able /\ cloud' = Published(w) /\ SaveTo(p, "record")
     \/ NoFault /\ ~able /\ UNCHANGED cloud /\ Rest(p)
     \/ Fault /\ cloud' \in {cloud, IF able THEN Published(w) ELSE cloud} /\ Rest(p)
  /\ UNCHANGED <<scene, arrived, events, job, ctl, reserved, ws, prepared, package,
                 recv, limited, work, tree>>

Record(p) ==
  LET m == save[p].job IN
  /\ save[p].step = "record"
  /\ job' = IF job[m].bind = "saving"
            THEN [job EXCEPT ![m].bind = "waiting", ![m].blocked = FALSE] ELSE job
  /\ Rest(p)
  /\ UNCHANGED <<scene, arrived, cloud, events, ctl, reserved, ws, prepared, package,
                 recv, limited, work, faults, tree>>

SaveStep(p) == Look(p) \/ Declare(p) \/ Freeze(p) \/ Publish(p) \/ Record(p)

-----------------------------------------------------------------------------
(* A control: continue here, or take over.                                 *)

Leave(p) == recv' = [recv EXCEPT ![p] = IdleRecv]
Settle(m) == ctl' = [ctl EXCEPT ![m] = "done"]
Imported(m) == job[m].bind # "none"
Turn(m) ==
  /\ ctl[m] = "staged" /\ recv[PC(m)].step = "idle" /\ ~save[PC(m)].timer
  /\ \A c \in Here(PC(m)) : c < m => ctl[c] # "staged"

\* Saving here: the first reservation asks for one more attempt at a blocked
\* save, a later look finds the answer to it.
DeferOwned(p, m) ==
  LET blocked == {k \in Here(p) : Parked(k) /\ job[k].bind = "saving" /\ job[k].blocked} IN
  /\ reserved' = reserved \cup {m}
  /\ \/ /\ m \notin reserved
        /\ job' = [k \in Msgs |-> IF k \in blocked THEN [job[k] EXCEPT !.blocked = FALSE] ELSE job[k]]
        /\ UNCHANGED ctl
     \/ m \in reserved /\ blocked # {} /\ Settle(m) /\ UNCHANGED job
     \/ m \in reserved /\ blocked = {} /\ UNCHANGED <<ctl, job>>

Begin(p, m) ==
  recv' = [recv EXCEPT ![p] = [ctl |-> m, step |-> "restore",
             epoch |-> IF cloud.state = "waiting" THEN cloud.epoch + 1 ELSE cloud.epoch]]

Receive(m) ==
  LET p == PC(m)
      waitsForLimit == cloud.state = "waiting" /\ cloud.owner = p /\ cloud.epoch \in limited
      foreign == Kind(m) = "continue" /\ cloud.owner # p
  IN
  /\ Turn(m)
  /\ \/ /\ Imported(m) \/ cloud = NoRow
        /\ Settle(m) /\ UNCHANGED <<job, reserved, recv>>
     \/ /\ ~Imported(m) /\ cloud # NoRow
        /\ \/ foreign /\ Retired(p) /\ Settle(m) /\ UNCHANGED <<reserved, recv>>
           \/ /\ ~foreign /\ cloud.state = "saving" /\ cloud.owner = p
              /\ DeferOwned(p, m) /\ UNCHANGED recv
           \/ /\ ~foreign /\ (waitsForLimit \/ (cloud.state = "saving" /\ cloud.owner # p))
              /\ reserved' = reserved \cup {m} /\ UNCHANGED <<job, ctl, recv>>
           \/ /\ ~foreign /\ cloud.state = "active" /\ ~TakenBy(p, m)
              /\ Settle(m) /\ UNCHANGED <<job, reserved, recv>>
           \/ /\ ~foreign /\ ~waitsForLimit
              /\ \/ cloud.state \in {"waiting", "importing"}
                 \/ cloud.state = "active" /\ TakenBy(p, m)
              /\ Begin(p, m) /\ UNCHANGED <<job, ctl, reserved>>
  /\ UNCHANGED <<scene, arrived, cloud, events, ws, prepared, package, save, limited,
                 work, faults, tree>>

\* The package is downloaded and restored before ownership changes; a thing
\* that cannot be restored ends the control with an explanation.
Restore(p) ==
  LET m == recv[p].ctl IN
  /\ recv[p].step = "restore"
  /\ \/ /\ NoFault /\ UNCHANGED ctl
        /\ prepared' = [prepared EXCEPT ![m] = recv[p].epoch]
        /\ tree' = IF prepared[m] = recv[p].epoch THEN tree
                   ELSE [tree EXCEPT ![p][recv[p].epoch] = cloud.pkg]
        /\ recv' = [recv EXCEPT ![p].step = "take",
                                ![p].epoch = cloud.epoch]
     \/ Fault /\ Leave(p) /\ UNCHANGED <<prepared, tree>> /\ (UNCHANGED ctl \/ Settle(m))
  /\ UNCHANGED <<scene, arrived, cloud, events, job, reserved, ws, package, save, limited,
                 work>>

\* Ownership, then the workspace; an epoch other than the prepared one stops.
Take(p) ==
  LET m == recv[p].ctl
      able == CanTake(p, recv[p].epoch, m)
      now == IF able THEN Taken(p) ELSE cloud
  IN
  /\ recv[p].step = "take"
  /\ \/ /\ NoFault /\ (able \/ TakenBy(p, m))
        /\ cloud' = now
        /\ events' = IF able THEN [events EXCEPT ![m] = now.epoch] ELSE events
        /\ IF prepared[m] = now.epoch
           THEN /\ ws' = [ws EXCEPT ![p] = now.epoch]
                /\ recv' = [recv EXCEPT ![p].step = "activate", ![p].epoch = now.epoch]
           ELSE Leave(p) /\ UNCHANGED ws
     \/ /\ NoFault /\ ~able /\ ~TakenBy(p, m)
        /\ Leave(p) /\ UNCHANGED <<cloud, events, ws>>
     \/ /\ Fault /\ Leave(p) /\ UNCHANGED ws
        /\ \/ UNCHANGED <<cloud, events>>
           \/ able /\ cloud' = now /\ events' = [events EXCEPT ![m] = now.epoch]
  /\ UNCHANGED <<scene, arrived, job, ctl, reserved, prepared, package, save, limited, work, tree>>

Activate(p) ==
  LET able == CanActivate(p, recv[p].epoch) IN
  /\ recv[p].step = "activate"
  /\ \/ NoFault /\ able /\ cloud' = Active /\ recv' = [recv EXCEPT ![p].step = "enqueue"]
     \/ NoFault /\ ~able /\ UNCHANGED cloud /\ Leave(p)
     \/ Fault /\ cloud' \in {cloud, IF able THEN Active ELSE cloud} /\ Leave(p)
  /\ UNCHANGED <<scene, arrived, events, job, ctl, reserved, ws, prepared, package, save,
                 limited, work, tree>>

\* One transaction: the new job, its binding and the end of the parked ones.
\* A second activation follows; when it fails, the imported job settles the
\* control at its next turn.
Enqueue(p) ==
  LET m == recv[p].ctl IN
  /\ recv[p].step = "enqueue"
  /\ job' = [k \in Msgs |->
       IF k = m THEN [st |-> "queued", bind |-> "active", epoch |-> recv[p].epoch, blocked |-> FALSE]
       ELSE IF PC(k) = p /\ job[k].bind \in {"saving", "waiting"}
       THEN [job[k] EXCEPT !.bind = "transferred"] ELSE job[k]]
  /\ Leave(p)
  /\ \/ NoFault /\ Settle(m)
     \/ Fault /\ UNCHANGED ctl
  /\ UNCHANGED <<scene, arrived, cloud, events, reserved, ws, prepared, package, save,
                 limited, work, tree>>

RecvStep(p) == Restore(p) \/ Take(p) \/ Activate(p) \/ Enqueue(p)

-----------------------------------------------------------------------------
(* A runner dies and starts again: a job whose limit was observed is       *)
(* parked, another unfinished one starts over or fails.                    *)
Recovered(m) ==
  CASE job[m].st = "limited" -> {[job[m] EXCEPT !.st = "queued", !.bind = "saving"]}
    [] job[m].st = "claimed" -> {[job[m] EXCEPT !.st = "queued"]}
    [] job[m].st = "running" -> {[job[m] EXCEPT !.st = "queued"], [job[m] EXCEPT !.st = "failed"]}
    [] OTHER -> {job[m]}

Restart(p) ==
  /\ Fault
  /\ save[p] # IdleSave \/ recv[p] # IdleRecv \/ \E m \in Here(p) : Busy(m)
  /\ job' \in {f \in [Msgs -> UNION {Recovered(m) : m \in Msgs}] :
                 \A m \in Msgs : IF PC(m) = p THEN f[m] \in Recovered(m) ELSE f[m] = job[m]}
  /\ Rest(p) /\ Leave(p)
  /\ UNCHANGED <<scene, arrived, cloud, events, ctl, reserved, ws, prepared, package,
                 limited, work, tree>>

-----------------------------------------------------------------------------
Next ==
  \/ Arrive
  \/ \E m \in Msgs : \/ Claim(m) \/ Prepare(m) \/ Work(m) \/ Finish(m) \/ MeetLimit(m)
                     \/ Pause(m) \/ Receive(m)
  \/ \E p \in PCs : SaveStep(p) \/ RecvStep(p) \/ Restart(p)
  \/ \E e \in Epochs : LimitLifts(e)

\* Runners poll on timers, executions end, and time lifts every limit.
Goes ==
  \/ \E m \in Msgs : Claim(m) \/ Prepare(m) \/ Finish(m) \/ Pause(m)
  \/ \E e \in Epochs : LimitLifts(e)
  \/ \E p \in PCs : SaveStep(p)
Receives(p) == RecvStep(p) \/ \E m \in Msgs : PC(m) = p /\ Receive(m)
Fairness == WF_vars(Goes) /\ \A p \in PCs : WF_vars(Receives(p))

Spec == Init /\ [][Next]_vars /\ Fairness

-----------------------------------------------------------------------------
TypeOK ==
  /\ scene \in Scenes /\ arrived \in 0 .. 3
  /\ cloud \in [owner : PCs \cup {Nobody}, epoch : 0 .. 3, pkg : 0 .. MaxWork,
                state : {"none", "active", "saving", "waiting", "importing"}]
  /\ events \in [Msgs -> 0 .. 3]
  /\ job \in [Msgs -> [st : {"none", "queued", "claimed", "running", "limited", "done", "failed"},
                       bind : {"none", "active", "saving", "waiting", "transferred"},
                       epoch : 0 .. 3, blocked : BOOLEAN]]
  /\ ctl \in [Msgs -> {"none", "staged", "done"}]
  /\ reserved \subseteq Msgs
  /\ ws \in [PCs -> 0 .. 3] /\ tree \in [PCs -> [Epochs -> 0 .. MaxWork]]
  /\ prepared \in [Msgs -> 0 .. 3]
  /\ package \in [PCs -> [Epochs -> 0 .. Missing]]
  /\ save \in [PCs -> [job : 0 .. 3, step : {"idle", "look", "declare", "freeze", "publish", "record"},
                        timer : BOOLEAN]]
  /\ recv \in [PCs -> [ctl : 0 .. 3, step : {"idle", "restore", "take", "activate", "enqueue"},
                       epoch : 0 .. 3]]
  /\ limited \subseteq Epochs /\ work \in 0 .. MaxWork /\ faults \in 0 .. MaxFaults

\* At most one job of the thread executes in the whole space, and only at the
\* computer and the epoch that own the thread: a later epoch never finds the
\* writer of an earlier one still at work.
OneWriter ==
  /\ Cardinality({m \in Msgs : job[m].st \in {"running", "limited"}}) <= 1
  /\ \A m \in Msgs : job[m].st = "running" =>
       Fresh(PC(m), job[m].epoch) /\ cloud.state = "active"

\* Work changes hands whole: what runs starts from everything the thread has
\* done so far, wherever it was done, and what is published is all of it.
NothingIsLost ==
  /\ \A m \in Msgs : job[m].st = "running" => tree[PC(m)][ws[PC(m)]] = work
  /\ cloud.state \in {"waiting", "importing"} => cloud.pkg = work

\* A control moves the ownership at most once, however often it is retried,
\* and never while the computer it leaves behind still has an unsaved job.
OnlyOnce ==
  /\ \A m, k \in Msgs : events[m] # 0 /\ events[m] = events[k] => m = k
  /\ \A m \in Msgs : job[m].bind = "saving" /\ ~job[m].blocked /\ cloud.epoch > job[m].epoch =>
       package[PC(m)][job[m].epoch] # Missing

Safety == TypeOK /\ OneWriter /\ NothingIsLost /\ OnlyOnce

\* Unless a save waits for a person to deal with a blocked file, every
\* control ends and no job stays half saved.
Settled ==
  /\ \A m \in Msgs : ctl[m] # "staged"
  /\ \A m \in Msgs : job[m].st # "limited" /\ ~(job[m].st = "queued" /\ job[m].bind = "saving")
Quiet == Settled \/ \E m \in Msgs : job[m].bind = "saving" /\ job[m].blocked
EveryHandoffSettles == <>[]Quiet
=============================================================================
