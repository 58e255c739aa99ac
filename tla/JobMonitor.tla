----------------------------- MODULE JobMonitor -----------------------------
(***************************************************************************)
(* The terminal tab that shows a job while it runs, and the obligation in  *)
(* the job store that a job is not run, recovered or forgotten without it. *)
(*                                                                         *)
(* The runner opens a tab of the Herdr server for the job, types the       *)
(* command of a viewer into its pane, and closes the tab when the job has  *)
(* ended and the viewer has shown everything; the tab of a failed job is   *)
(* left to the operator.  Herdr offers neither transactions nor            *)
(* idempotent calls, so that each step is announced in a manifest on disk  *)
(* before it is taken, and a runner that starts reconciles the manifest,   *)
(* the obligation and what Herdr shows.  The runner may die at any step, a *)
(* call may fail or lose its response, Herdr may restart and bring tabs    *)
(* back without their viewers, the viewer may die, the operator may close  *)
(* the tab or use its pane, and the answer to a parked job may come at any *)
(* moment.                                                                 *)
(*                                                                         *)
(* One job; the feeds are those of MonitorFeed, reduced to whether they    *)
(* are sealed and whether the last line is on the terminal.  Security      *)
(* audits, cloud jobs and malformed files are left out.                    *)
(***************************************************************************)
EXTENDS Naturals, FiniteSets

CONSTANTS
  None, Bare, \* no monitor directory, and one without its manifest
  MaxOps,    \* bound: tabs announced in the life of the job
  MaxFaults  \* bound: deaths, failed calls, restarts and acts of the operator

VARIABLES
  job,     \* its row in the store; obl is monitor_state
  dir,     \* its monitor directory: None, Bare, or the manifest and the files
  tabs,    \* the tab of an operation: "none", "open", "gone"
  view,    \* its viewer: "none", "typed", "alive", "dead"
  told,    \* the last line is on its terminal
  busy,    \* the operator runs a program in its pane
  plane,   \* the generation of the Herdr server
  d,       \* the runner
  ops,     \* operations announced
  calls,   \* history, per operation: tabs created and commands typed
  worked,  \* history: the job was executed under the operation
  faults,  \* faults so far
  disturbed \* history: a fault was more than a death of the runner between two calls or a
            \* forced stop, or an answer came before the tab of the job was gone

ext  == <<tabs, view, told, busy, plane>>
hist == <<ops, calls, worked, faults, disturbed>>
vars == <<job, dir, ext, d, hist>>

Ops      == 1..MaxOps
Phases   == {"create-intent", "tab-created", "run-intent", "active", "retained-failure",
             "close-intent"}
Terminal == {"completed", "failed", "cancelled"}
Manifest == [op : Ops, phase : Phases, viewer : BOOLEAN, plane : Nat, sealed : BOOLEAN,
             ready : BOOLEAN]
Off      == [at |-> "off", why |-> "boot", kept |-> FALSE, fresh |-> FALSE, plane |-> 0,
             blind |-> FALSE, pass |-> 1]

Has      == dir \notin {None, Bare}
Phase(s) == Has /\ dir.phase \in s
Ended    == job.st \in Terminal

TypeOK ==
  /\ job \in [st : Terminal \cup {"queued", "running"}, parked : BOOLEAN, staged : BOOLEAN,
              obl : {"none", "preparing", "required", "lost"}]
  /\ dir \in Manifest \cup {None, Bare}
  /\ tabs \in [Ops -> {"none", "open", "gone"}]
  /\ view \in [Ops -> {"none", "typed", "alive", "dead"}]
  /\ told \in [Ops -> BOOLEAN] /\ busy \in [Ops -> BOOLEAN] /\ worked \in [Ops -> BOOLEAN]
  /\ calls \in [Ops -> [create : Nat, run : Nat]]
  /\ plane \in Nat /\ ops \in 0..MaxOps /\ faults \in 0..MaxFaults /\ disturbed \in BOOLEAN
  /\ job.staged => job.st = "running"
  \* parseManifest: only a phase that follows the viewer's receipt records a viewer.
  /\ Phase({"active", "retained-failure"}) => dir.viewer
  /\ Phase({"create-intent", "tab-created", "run-intent"}) => ~ dir.viewer

Init ==
  /\ job = [st |-> "queued", parked |-> FALSE, staged |-> FALSE, obl |-> "none"]
  /\ dir = None /\ tabs = [o \in Ops |-> "none"] /\ view = [o \in Ops |-> "none"]
  /\ told = [o \in Ops |-> FALSE] /\ busy = [o \in Ops |-> FALSE] /\ plane = 1
  /\ d = Off /\ ops = 0 /\ calls = [o \in Ops |-> [create |-> 0, run |-> 0]]
  /\ worked = [o \in Ops |-> FALSE] /\ faults = 0 /\ disturbed = FALSE

-----------------------------------------------------------------------------
(* The store and the runner *)

Goes(at) == d' = [d EXCEPT !.at = at]

\* retireMonitorObligation: of a job that ended or is parked, and of no other.
Retired == IF Ended \/ (job.st = "queued" /\ job.parked) \/ d.why = "stop"
           THEN [job EXCEPT !.obl = "none"] ELSE job

\* What a failed step leads to.  Startup fails and is tried again; a job that could
\* not be shown is released and the runner exits; a job that ended keeps its result.
Fails ==
  /\ CASE d.why \in {"boot", "stop"} -> d' = Off /\ UNCHANGED job
       [] d.why = "open" -> d' = Off /\ job' = [job EXCEPT !.st = "queued"]
       [] d.why = "end"  -> Goes("idle") /\ job' = Retired
  /\ UNCHANGED <<dir, ext>>

Reach      == d.plane = plane
Open(o)    == Reach /\ tabs[o] = "open"
Binding    == Has /\ Open(dir.op)
Viewing    == Binding /\ view[dir.op] = "alive"

\* verifyHerdrJobMonitorActive: a viewer that showed every sealed byte has no heartbeat.
Fresh == Viewing /\ ~ (dir.sealed /\ told[dir.op])

Write(phase) == dir' = [dir EXCEPT !.phase = phase]

-----------------------------------------------------------------------------
(* Opening the tab *)

Claim ==
  /\ d.at = "idle" /\ job.st = "queued" /\ ~ job.parked
  /\ job' = [job EXCEPT !.st = "running"]
  /\ d' = [d EXCEPT !.at = "claimed", !.why = "open", !.blind = FALSE,
                    !.kept = job.obl \in {"required", "lost"}]
  /\ UNCHANGED <<dir, ext, hist>>

\* A job cancelled while it was queued is shown only if a tab was kept for it.
CancelClaimed ==
  /\ d.at = "claimed" /\ job' = [job EXCEPT !.st = "cancelled"]
  /\ d' = [d EXCEPT !.at = IF job.obl = "none" THEN "idle" ELSE "close", !.why = "end"]
  /\ UNCHANGED <<dir, ext, hist>>

BeginPreparation ==
  /\ d.at = "claimed"
  /\ job' = IF job.obl = "none" THEN [job EXCEPT !.obl = "preparing"] ELSE job
  /\ Goes("begun") /\ UNCHANGED <<dir, ext, hist>>

\* openHerdrJobMonitor: a tab that was promised is never replaced by a new one.
MakeDirectory ==
  /\ d.at = "begun" /\ UNCHANGED hist
  /\ \/ Has /\ dir.plane = d.plane /\ Reach /\ d' = [d EXCEPT !.at = "intent", !.fresh = FALSE]
        /\ UNCHANGED <<job, dir, ext>>
     \/ ~ Has /\ ~ d.kept /\ Reach /\ dir' = Bare /\ Goes("bare") /\ UNCHANGED <<job, ext>>
     \/ ((Has /\ dir.plane # d.plane) \/ (~ Has /\ d.kept) \/ ~ Reach) /\ Fails

WriteIntent ==
  /\ d.at = "bare" /\ ops < MaxOps
  /\ ops' = ops + 1
  /\ dir' = [op |-> ops + 1, phase |-> "create-intent", viewer |-> FALSE, plane |-> d.plane,
             sealed |-> FALSE, ready |-> FALSE]
  /\ d' = [d EXCEPT !.at = "intent", !.fresh = TRUE]
  /\ UNCHANGED <<job, ext, calls, worked, faults, disturbed>>

\* The store requires the tab before Herdr is asked for it.
Arm ==
  /\ d.at = "intent"
  /\ job' = [job EXCEPT !.obl = "required"]
  /\ Goes("armed") /\ UNCHANGED <<dir, ext, hist>>

\* tab.create is sent once, by the runner that announced it.
Creates == Phase({"create-intent"}) /\ d.fresh

CreateTab ==
  /\ d.at = "armed" /\ Creates /\ Reach
  /\ tabs' = [tabs EXCEPT ![dir.op] = "open"]
  /\ calls' = [calls EXCEPT ![dir.op].create = @ + 1]
  /\ Goes("bound") /\ UNCHANGED <<job, dir, view, told, busy, plane, ops, worked, faults, disturbed>>

\* Another runner adopts the one tab that carries the label.
Adopt ==
  /\ d.at = "armed" /\ ~ Creates /\ UNCHANGED hist
  /\ IF Binding /\ ~ Phase({"close-intent", "retained-failure"})
     THEN Goes(IF dir.phase = "active" THEN "verify" ELSE "bound") /\ UNCHANGED <<job, dir, ext>>
     ELSE Fails

Bind ==
  /\ d.at = "bound"
  /\ IF dir.phase = "create-intent" THEN Write("tab-created") ELSE UNCHANGED dir
  /\ Goes("activate") /\ UNCHANGED <<job, ext, hist>>

\* Mutant: a command whose response was lost is sent again.
AnnouncesAgain == Phase({"tab-created", "run-intent"})

\* activateViewer: pane.run is announced, sent once, and never again.
Announces == Phase({"tab-created"})

Announce ==
  /\ d.at = "activate"
  /\ IF Announces THEN Write("run-intent") /\ Goes("run") ELSE Goes("wait") /\ UNCHANGED dir
  /\ UNCHANGED <<job, ext, hist>>

RunPane ==
  /\ d.at = "run" /\ Goes("wait")
  /\ \/ /\ Binding /\ view' = [view EXCEPT ![dir.op] = "typed"]
        /\ calls' = [calls EXCEPT ![dir.op].run = @ + 1]
     \/ ~ Binding /\ UNCHANGED <<view, calls>>
  /\ UNCHANGED <<job, dir, tabs, told, busy, plane, ops, worked, faults, disturbed>>

WaitReady ==
  /\ d.at = "wait" /\ UNCHANGED hist
  /\ \/ Viewing /\ dir.ready /\ Goes("ready") /\ UNCHANGED <<job, dir, ext>>
     \/ view[dir.op] # "typed" /\ ~ (Viewing /\ dir.ready) /\ Fails
     \/ view[dir.op] = "typed" /\ (busy[dir.op] \/ ~ Binding) /\ Fails

Activate ==
  /\ d.at = "ready"
  /\ dir' = [dir EXCEPT !.phase = "active", !.viewer = TRUE]
  /\ Goes("shown") /\ UNCHANGED <<job, ext, hist>>

VerifyActive ==
  /\ d.at = "verify" /\ UNCHANGED hist
  /\ \/ Fresh /\ Goes("shown") /\ UNCHANGED <<job, dir, ext>>
     \/ ~ Fresh /\ Fails

-----------------------------------------------------------------------------
(* The job *)

\* The tab is shown: the job is executed, or startup retains it.
Work ==
  /\ d.at = "shown" /\ d.why = "open"
  /\ worked' = [worked EXCEPT ![dir.op] = TRUE]
  /\ Goes("working") /\ UNCHANGED <<job, dir, ext, ops, calls, faults, disturbed>>

Stage ==
  /\ d.at = "working" /\ ~ job.staged
  /\ job' = [job EXCEPT !.staged = TRUE] /\ UNCHANGED <<dir, ext, d, hist>>

\* markMonitorUnavailable: the execution goes on, and the tab is not touched again.
LoseSight ==
  /\ d.at = "working" /\ ~ d.blind /\ ~ Viewing
  /\ d' = [d EXCEPT !.blind = TRUE] /\ UNCHANGED <<job, dir, ext, hist>>

\* The end of an attempt: a result, a failure, a cancellation, a limit to wait for,
\* a question to the user, or input that came just before the question.
Settle ==
  /\ d.at = "working"
  /\ \E st \in Terminal \cup {"queued"}, parked \in BOOLEAN, ended \in BOOLEAN :
       /\ st = "cancelled" \/ (st = "completed") = job.staged
       /\ parked => st = "queued"
       /\ st \in Terminal \/ parked => ended
       /\ disturbed' = (disturbed \/ (ended /\ st = "queued" /\ ~ parked))
       /\ job' = [job EXCEPT !.st = st, !.parked = parked, !.staged = FALSE]
       /\ d' = [d EXCEPT !.why = "end",
                         !.at = IF ~ ended THEN "idle" ELSE IF d.blind THEN "blind"
                                ELSE IF st = "failed" THEN "keep" ELSE "close"]
  /\ UNCHANGED <<dir, ext, ops, calls, worked, faults>>

\* The tab went out of sight: its obligation ends, its files stay.
Detach ==
  /\ d.at = "blind" /\ job' = Retired /\ Goes("idle") /\ UNCHANGED <<dir, ext, hist>>

-----------------------------------------------------------------------------
(* Closing the tab, or leaving it to the operator *)

\* A viewer that wrote its receipt is one to wait for, recorded or not.
Known == dir.viewer \/ dir.ready

\* confirmDeadViewerDrain
DeadButTold == dir.sealed /\ told[dir.op] /\ ~ busy[dir.op]

\* closeHerdrJobMonitor, up to what its first look at Herdr allows.
CloseLooks ==
  /\ d.at = "close" /\ UNCHANGED hist
  /\ LET gone    == Has /\ Reach /\ tabs[dir.op] # "open"
         retires == gone /\ dir.phase \in {"close-intent", "create-intent", "retained-failure"}
                    /\ (dir.viewer => view[dir.op] = "dead")
         drains  == Viewing /\ Known
         marks   == /\ Binding
                    /\ IF Known THEN view[dir.op] = "dead" /\ DeadButTold
                       ELSE view[dir.op] # "alive" /\ ~ busy[dir.op]
     IN \/ retires /\ Goes("retire") /\ UNCHANGED <<job, dir, ext>>
        \/ drains /\ dir' = [dir EXCEPT !.sealed = TRUE] /\ Goes("drain") /\ UNCHANGED <<job, ext>>
        \/ marks /\ Goes("mark") /\ UNCHANGED <<job, dir, ext>>
        \/ ~ (retires \/ drains \/ marks) /\ Fails

\* Mutant: the feeds are sealed, and that is all.
DrainedSealed == Viewing

\* waitForViewerDrain, requireFinalDrainObserved
Drained == Viewing /\ told[dir.op]

Drain ==
  /\ d.at \in {"drain", "freeze"} /\ UNCHANGED hist
  /\ \/ Drained /\ Goes(IF d.at = "freeze" THEN "frozen" ELSE "mark") /\ UNCHANGED <<job, dir, ext>>
     \/ ~ Drained /\ ~ Viewing /\ Fails

MarkClose ==
  /\ d.at = "mark"
  /\ dir' = [dir EXCEPT !.phase = "close-intent", !.viewer = Known]
  /\ Goes("recheck") /\ UNCHANGED <<job, ext, hist>>

\* verifyExactCloseTarget
Recheck ==
  /\ d.at = "recheck" /\ UNCHANGED hist
  /\ LET exact == /\ Binding
                  /\ IF view[dir.op] = "alive" THEN dir.viewer ELSE ~ busy[dir.op]
     IN \/ exact /\ Goes("shut") /\ UNCHANGED <<job, dir, ext>>
        \/ ~ exact /\ Fails

CloseTab ==
  /\ d.at = "shut" /\ Goes("prove")
  /\ IF Binding
     THEN /\ tabs' = [tabs EXCEPT ![dir.op] = "gone"] /\ busy' = [busy EXCEPT ![dir.op] = FALSE]
          /\ view' = [view EXCEPT ![dir.op] = IF @ = "none" THEN @ ELSE "dead"]
     ELSE UNCHANGED <<tabs, busy, view>>
  /\ UNCHANGED <<job, dir, told, plane, hist>>

ProveClosed ==
  /\ d.at = "prove" /\ UNCHANGED hist
  /\ LET closed == Reach /\ tabs[dir.op] # "open" /\ view[dir.op] \in {"none", "dead"}
     IN \/ closed /\ Goes("retire") /\ UNCHANGED <<job, dir, ext>>
        \/ ~ closed /\ Fails

Retire ==
  /\ d.at = "retire" /\ job' = Retired
  /\ Goes("remove") /\ UNCHANGED <<dir, ext, hist>>

\* The directory goes last: until then the obligation can be met or retired again.
Remove ==
  /\ d.at = "remove" /\ dir' = None
  /\ Goes(IF d.why = "end" THEN "idle" ELSE "passed") /\ UNCHANGED <<job, ext, hist>>

\* retainFailedHerdrJobMonitor
KeepLooks ==
  /\ d.at = "keep" /\ UNCHANGED hist
  /\ LET known   == Phase({"active", "retained-failure"}) /\ Reach
         kept    == Phase({"retained-failure"})
         forgets == known /\ view[dir.op] = "dead" /\ (tabs[dir.op] # "open" \/ kept)
         freezes == known /\ Viewing /\ ~ kept
         stays   == known /\ Viewing /\ kept
     IN \/ forgets /\ Goes("retire") /\ UNCHANGED <<job, dir, ext>>
        \/ freezes /\ dir' = [dir EXCEPT !.sealed = TRUE] /\ Goes("freeze") /\ UNCHANGED <<job, ext>>
        \/ stays /\ Goes("kept") /\ UNCHANGED <<job, dir, ext>>
        \/ ~ (forgets \/ freezes \/ stays) /\ Fails

Freeze ==
  /\ d.at = "frozen" /\ Write("retained-failure") /\ Goes("kept") /\ UNCHANGED <<job, ext, hist>>

KeepTab ==
  /\ d.at = "kept" /\ job' = Retired
  /\ Goes(IF d.why = "end" THEN "idle" ELSE "passed") /\ UNCHANGED <<dir, ext, hist>>

-----------------------------------------------------------------------------
(* Startup, and a forced stop of the service *)

\* terminateTrackedExecutors comes first: nothing runs while monitors are reconciled.
Boot ==
  /\ d.at = "off"
  /\ d' = [Off EXCEPT !.at = "reconcile", !.plane = plane]
  /\ UNCHANGED <<job, dir, ext, hist>>

\* recoverForcedServiceStop: what ran has ended, a recorded viewer is stopped and its
\* directory archived; what is left is reconciled.
ForceStop ==
  /\ d.at = "off" /\ faults < MaxFaults /\ faults' = faults + 1
  /\ d' = [Off EXCEPT !.at = "reconcile", !.why = "stop", !.plane = plane]
  /\ LET archives == Has /\ dir.viewer /\ job.obl # "none"
     IN /\ job' = [job EXCEPT !.st = IF @ # "running" THEN @ ELSE IF job.staged THEN "completed" ELSE "failed",
                              !.staged = FALSE, !.obl = IF archives THEN "none" ELSE @]
        /\ dir' = IF archives THEN None ELSE dir
        /\ view' = IF archives /\ view[dir.op] = "alive" THEN [view EXCEPT ![dir.op] = "dead"] ELSE view
  /\ UNCHANGED <<tabs, told, busy, plane, ops, calls, worked, disturbed>>

\* recoverMissingMonitorAfterExecutorsStopped, for a tab that is lost.
Recovered(state) ==
  IF d.why = "stop" \/ state = "preparing" THEN [job EXCEPT !.obl = "none"]
  ELSE IF state = "lost" THEN job
  ELSE IF job.staged THEN [job EXCEPT !.obl = "lost"]
  ELSE IF job.st = "queued" THEN [job EXCEPT !.obl = "none"]
  ELSE IF job.st = "running" THEN [job EXCEPT !.st = "failed", !.obl = "none"]
  ELSE Retired

Loses(state, then) ==
  /\ job' = Recovered(state)
  /\ IF job'.obl = "lost" THEN d' = Off ELSE Goes(then)
  /\ UNCHANGED <<dir, ext>>

State == IF job.obl = "none" THEN "required" ELSE job.obl
Stale == Has /\ dir.plane # d.plane
Gone  == Has /\ ~ Stale /\ tabs[dir.op] # "open"
Quiet == Has /\ (dir.viewer => view[dir.op] = "dead")
Forgotten == Has /\ Ended /\ job.obl = "none"

\* The directory is missing, or its manifest was never written.
ReconcileNothing ==
  /\ d.at = "reconcile" /\ ~ Has /\ Reach /\ UNCHANGED hist
  /\ LET free == \/ job.obl \in {"none", "preparing"}
                 \/ d.why = "stop" /\ \A o \in Ops : tabs[o] # "open"
     IN \/ free /\ dir' = None /\ job' = [job EXCEPT !.obl = "none"] /\ Goes("passed") /\ UNCHANGED ext
        \/ ~ free /\ Fails

\* archiveStoppedHerdrMonitor: only a viewer known to be dead leaves its files.
Stopped == dir.viewer /\ view[dir.op] = "dead"

\* A tab detached from a job that ended: archived when its viewer is dead, else left.
ReconcileForgotten ==
  /\ d.at = "reconcile" /\ Forgotten /\ Reach /\ UNCHANGED hist
  /\ \/ Stopped /\ dir' = None /\ Goes("passed") /\ UNCHANGED <<job, ext>>
     \/ ~ Stopped /\ (dir.phase # "retained-failure" \/ Stale)
        /\ Goes("passed") /\ UNCHANGED <<job, dir, ext>>
     \/ ~ Stopped /\ dir.phase = "retained-failure" /\ ~ Stale
        /\ Goes("keep") /\ UNCHANGED <<job, dir, ext>>

\* The tab belongs to a server that is gone.
ReconcileStale ==
  /\ d.at = "reconcile" /\ Stale /\ ~ Forgotten /\ Reach /\ UNCHANGED hist
  /\ LET proven == IF dir.viewer THEN view[dir.op] = "dead" ELSE tabs[dir.op] # "open"
     IN \/ proven /\ Loses(State, "archive")
        \/ ~ proven /\ Fails

\* archiveStoppedHerdrMonitor: the directory of a job that does not run.
Archive ==
  /\ d.at = "archive" /\ UNCHANGED hist
  /\ IF job.st = "running" THEN Fails
     ELSE dir' = None /\ job' = Retired /\ Goes("passed") /\ UNCHANGED ext

\* The tab is on this server: it is closed, kept, given up, verified or completed.
ReconcileTab ==
  /\ d.at = "reconcile" /\ Has /\ ~ Stale /\ ~ Forgotten /\ Reach /\ UNCHANGED hist
  /\ LET keeps    == /\ d.why = "boot" /\ job.st = "failed"
                     /\ dir.phase \in {"retained-failure", "active"}
         refuses  == d.why = "boot" /\ dir.phase = "retained-failure" /\ job.st # "failed"
         lost     == d.why = "boot" /\ ~ keeps /\ ~ refuses /\ Gone
         closes   == /\ ~ keeps /\ ~ refuses
                     /\ \/ d.why = "stop"
                        \/ lost /\ Quiet /\ dir.phase = "close-intent"
                        \/ ~ lost /\ job.obl \notin {"preparing", "lost"} /\ (Ended \/ job.parked)
         drops    == /\ lost /\ Quiet /\ dir.phase # "close-intent"
                     /\ job.obl = "preparing" \/ ~ Ended
         resumes  == /\ d.why = "boot" /\ ~ keeps /\ ~ refuses /\ ~ lost /\ ~ closes
                     /\ job.obl \notin {"preparing", "lost"} /\ dir.phase # "close-intent"
     IN \/ keeps /\ Goes("keep") /\ UNCHANGED <<job, dir, ext>>
        \/ closes /\ Goes("close") /\ UNCHANGED <<job, dir, ext>>
        \/ drops /\ Loses(State, IF State = "preparing" THEN "remove" ELSE "archive")
        \/ resumes /\ Goes(IF dir.phase = "active" THEN "verify" ELSE "bound")
           /\ UNCHANGED <<job, dir, ext>>
        \/ ~ (keeps \/ closes \/ drops \/ resumes) /\ Fails

\* reconcileAdvisorsWithMonitorHealthBarrier: a saved result needs its tab verified.
Retain ==
  /\ d.at = "shown" /\ d.why = "boot"
  /\ Goes("retained") /\ UNCHANGED <<job, dir, ext, hist>>

\* Between the two reconciliations a saved result is completed and an interrupted
\* job queued again or, when its effects are uncertain, failed.
Passed ==
  /\ d.at \in {"passed", "retained"} /\ UNCHANGED hist
  /\ \/ d.why = "stop" /\ d' = Off /\ UNCHANGED <<job, dir, ext>>
     \/ d.why = "boot" /\ d.pass = 1 /\ job.staged /\ d.at = "passed" /\ Fails
     \/ /\ d.why = "boot" /\ d.pass = 1 /\ (job.staged => d.at = "retained")
        /\ \E st \in Terminal \cup {"queued"} :
             /\ IF job.st # "running" THEN st = job.st
                ELSE st \in (IF job.staged THEN {"completed"} ELSE {"queued", "failed"})
             /\ job' = [job EXCEPT !.st = st, !.staged = FALSE]
        /\ d' = [d EXCEPT !.at = "reconcile", !.pass = 2] /\ UNCHANGED <<dir, ext>>
     \/ d.why = "boot" /\ d.pass = 2 /\ Goes("idle") /\ UNCHANGED <<job, dir, ext>>

-----------------------------------------------------------------------------
(* The viewer, Herdr, the operator and the user *)

\* It writes its receipt, unless it was started outside its announcement.
ViewerStarts ==
  \E o \in Ops :
    /\ view[o] = "typed" /\ ~ busy[o]
    /\ IF Phase({"run-intent", "active"}) /\ dir.op = o
       THEN view' = [view EXCEPT ![o] = "alive"] /\ dir' = [dir EXCEPT !.ready = TRUE]
       ELSE view' = [view EXCEPT ![o] = "dead"] /\ UNCHANGED dir
    /\ UNCHANGED <<job, tabs, told, busy, plane, d, hist>>

ViewerShows ==
  /\ Has /\ dir.sealed /\ view[dir.op] = "alive" /\ ~ told[dir.op]
  /\ told' = [told EXCEPT ![dir.op] = TRUE]
  /\ UNCHANGED <<job, dir, tabs, view, busy, plane, d, hist>>

Fault(b) == faults < MaxFaults /\ faults' = faults + 1 /\ disturbed' = (disturbed \/ b)
            /\ UNCHANGED <<ops, calls, worked>>

\* Between an announcement and its call nobody can tell whether the call was made, and
\* a forced stop that was cut off is the operator's to repeat.
RunnerDies ==
  /\ d.at # "off" /\ Fault(d.at = "run" \/ d.why = "stop") /\ d' = Off /\ UNCHANGED <<job, dir, ext>>

\* A call to Herdr fails, or its response is lost.
CallFails ==
  /\ d.at \in {"bound", "wait", "verify", "close", "drain", "recheck", "prove", "keep",
               "freeze", "reconcile"}
  /\ Fault(TRUE) /\ Fails

CallLost ==
  /\ Fault(TRUE) /\ UNCHANGED <<job, dir, ext>>
  /\ \/ d.at = "run" /\ Goes("wait")
     \/ d.at = "shut" /\ Goes("prove")

CreateFails == d.at = "armed" /\ Creates /\ Fault(TRUE) /\ Fails

ViewerDies ==
  \E o \in Ops :
    /\ view[o] = "alive" /\ Fault(TRUE) /\ view' = [view EXCEPT ![o] = "dead"]
    /\ UNCHANGED <<job, dir, tabs, told, busy, plane, d>>

OperatorCloses ==
  \E o \in Ops :
    /\ tabs[o] = "open" /\ Fault(TRUE) /\ tabs' = [tabs EXCEPT ![o] = "gone"]
    /\ view' = [view EXCEPT ![o] = IF @ = "none" THEN @ ELSE "dead"]
    /\ busy' = [busy EXCEPT ![o] = FALSE] /\ UNCHANGED <<job, dir, told, plane, d>>

OperatorWorks ==
  \E o \in Ops :
    /\ tabs[o] = "open" /\ view[o] \notin {"typed", "alive"} /\ ~ busy[o] /\ Fault(TRUE)
    /\ busy' = [busy EXCEPT ![o] = TRUE] /\ UNCHANGED <<job, dir, tabs, view, told, plane, d>>

\* The tabs may come back, their programs do not.
HerdrRestarts ==
  \E back \in SUBSET {o \in Ops : tabs[o] = "open"} :
    /\ Fault(TRUE) /\ plane' = plane + 1
    /\ tabs' = [o \in Ops |-> IF tabs[o] = "open" /\ o \notin back THEN "gone" ELSE tabs[o]]
    /\ view' = [o \in Ops |-> IF view[o] = "none" THEN "none" ELSE "dead"]
    /\ busy' = [o \in Ops |-> FALSE] /\ UNCHANGED <<job, dir, told, d>>

\* The gateway records the answer a parked job waits for.
Answer ==
  /\ job.parked /\ job.st = "queued" /\ job' = [job EXCEPT !.parked = FALSE]
  /\ disturbed' = (disturbed \/ Has) /\ UNCHANGED <<dir, ext, d, ops, calls, worked, faults>>

-----------------------------------------------------------------------------
Opening    == Claim \/ CancelClaimed \/ BeginPreparation \/ MakeDirectory \/ WriteIntent \/ Arm
              \/ CreateTab \/ Adopt \/ Bind \/ Announce \/ RunPane \/ WaitReady \/ Activate
              \/ VerifyActive
Executing  == Stage \/ LoseSight \/ Settle
Closing    == CloseLooks \/ Drain \/ MarkClose \/ Recheck \/ CloseTab \/ ProveClosed \/ Retire
              \/ Remove \/ KeepLooks \/ Freeze \/ KeepTab
Recovering == Boot \/ ReconcileNothing \/ ReconcileForgotten \/ ReconcileStale \/ Archive
              \/ ReconcileTab \/ Retain \/ Passed
Runner     == Opening \/ Work \/ Detach \/ Closing \/ Recovering
Viewer     == ViewerStarts \/ ViewerShows
World      == RunnerDies \/ ForceStop \/ CallFails \/ CallLost \/ CreateFails \/ ViewerDies
              \/ OperatorCloses \/ OperatorWorks \/ HerdrRestarts \/ Answer

Next == Runner \/ Executing \/ Viewer \/ World

\* The launcher starts the runner again, and the runner and the viewer go on with what
\* they began; an execution need not end, nor an answer come.
Spec == Init /\ [][Next]_vars /\ WF_vars(Runner) /\ WF_vars(Viewer)

-----------------------------------------------------------------------------
(* Properties *)

\* Whatever response is lost and whoever dies, a tab is created once and its command
\* typed once for an announcement, and no two viewers run.
OneViewer ==
  /\ \A o \in Ops : calls[o].create <= 1 /\ calls[o].run <= 1
  /\ Cardinality({o \in Ops : view[o] \in {"typed", "alive"}}) <= 1

\* The files of a viewer that lives are never taken from it.
ViewerHasFiles == \A o \in Ops : view[o] = "alive" => Has /\ dir.op = o

\* The runner closes a tab in which a job was executed only when all of its output
\* is on the terminal.
ClosedWhenTold ==
  [][d.at = "shut" /\ d'.at = "prove" =>
       \A o \in Ops : worked[o] /\ tabs[o] = "open" /\ tabs'[o] = "gone" => told[o]]_vars

\* A result that was saved is not failed or run again because its tab was lost.
SavedResultKept ==
  [][job.staged /\ d.at # "working" => (job'.staged \/ job'.st = "completed")]_vars

\* Deaths of the runner never keep it from starting again, unless one came between the
\* announcement of the viewer's command and the command, or cut off a forced stop.
Rests == disturbed \/ d.why # "boot" \/ d.at = "idle"
BootEnds == <>[]Rests
=============================================================================
