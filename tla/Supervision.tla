------------------------------ MODULE Supervision ------------------------------
(***************************************************************************)
(* The processes of a job's attempts and who must find and kill them.  The *)
(* executor (codex-executor.ts runAttempt) creates a pair of Seatbelt tags *)
(* and starts a supervisor (codex-supervisor.ts); the supervisor registers *)
(* itself, starts Codex stopped behind a gate, stores it in the durable    *)
(* ledger, releases it, and reaps the descendants when it ends.  The       *)
(* executor then proves the attempt is over and retires registration and   *)
(* tags.  When the runner or the supervisor dies in between, the next      *)
(* runner (terminateTrackedExecutors) finishes the work from what is on    *)
(* disk.  "near" stands for an untagged descendant in the supervisor's     *)
(* process group, "far" for a sandboxed one that left group and parent,    *)
(* "kin" for one that far forks.  Running processes may exit at any time.  *)
(***************************************************************************)
EXTENDS Naturals, FiniteSets

CONSTANTS
  MaxAttempts,  \* bound: attempts, one after the other
  MaxFaults,    \* bound: runner crashes, supervisor deaths and failed steps
  Windows       \* narrow races to admit: "start" (a runner is back before a
                \* supervisor has registered), "poll" (a supervisor dies before
                \* the executor's poll has seen its group)

Attempts == 1 .. MaxAttempts
Processes == {"codex", "near", "far", "kin"}
Tagged == {"far", "kin"}
Group == {"codex", "near"}

VARIABLES
  life,     \* life of every process of every attempt
  tags,     \* Seatbelt tags of each attempt on disk
  reg,      \* the durable executor registration of the job
  sup,      \* supervisor of each attempt, and its memory
  exec,     \* executor or start-up recovery of the runner, and its memory
  reap,     \* a running reapSeatbeltFingerprint
  known,    \* history: processes that were ever in the durable ledger
  outcome,  \* how the executor ended each attempt
  faults    \* bound: faults used

vars == <<life, tags, reg, sup, exec, reap, known, outcome, faults>>

NoReg == [attempt |-> 0, phase |-> "active", ledger |-> {}]
NewSup == [step |-> "none", tracked |-> {}, force |-> FALSE, sealed |-> FALSE]
NoReap == [owner |-> "none", step |-> "scan", caught |-> {}, seen |-> {},
           stable |-> 0, gentle |-> FALSE, forced |-> FALSE]
Idle == [step |-> "idle", a |-> 0, tracked |-> {}, ledger |-> {}, cancel |-> FALSE,
         term |-> FALSE, forced |-> FALSE, proven |-> FALSE, purpose |-> "none"]

SupSteps == {"none", "starting", "gated", "kept", "running", "draining", "reaping",
             "tagged", "confirming", "retained", "frozen", "dead"}
ExecSteps == {"idle", "allow", "preflight", "spawn", "spawned", "running", "boundary", "tracked", "verify",
              "reap", "again", "unregister", "deny", "untag", "down", "scan", "term",
              "wait", "durable", "confirmed", "freeze", "refresh", "kill", "confirm",
              "orphans"}

TypeOK ==
  /\ life \in [Attempts -> [Processes -> {"none", "gate", "run", "frozen", "dead"}]]
  /\ tags \in [Attempts -> {"none", "allow", "both"}]
  /\ reg \in [attempt : 0 .. MaxAttempts, phase : {"active", "recovery", "confirmed"},
              ledger : SUBSET Processes]
  /\ sup \in [Attempts -> [step : SupSteps, tracked : SUBSET Processes,
                           force : BOOLEAN, sealed : BOOLEAN]]
  /\ exec \in [step : ExecSteps, a : 0 .. MaxAttempts, tracked : SUBSET Processes,
               ledger : SUBSET Processes, cancel : BOOLEAN, term : BOOLEAN,
               forced : BOOLEAN, proven : BOOLEAN,
               purpose : {"none", "unregistered", "completed", "cancelled",
                          "recovered", "orphan"}]
  /\ reap \in [owner : {"none", "sup", "exec"},
               step : {"scan", "stop", "resume", "wait", "kill", "rescan"},
               caught : SUBSET Tagged, seen : SUBSET Tagged, stable : 0 .. 2,
               gentle : BOOLEAN, forced : BOOLEAN]
  /\ known \in [Attempts -> SUBSET Processes]
  /\ outcome \in [Attempts -> {"none", "open", "success", "failed", "cancelled", "pending",
                              "abandoned", "past"}]
  /\ faults \in 0 .. MaxFaults

Init ==
  /\ life = [a \in Attempts |-> [p \in Processes |-> "none"]]
  /\ tags = [a \in Attempts |-> "none"]
  /\ reg = NoReg
  /\ sup = [a \in Attempts |-> NewSup]
  /\ exec = Idle
  /\ reap = NoReap
  /\ known = [a \in Attempts |-> {}]
  /\ outcome = [a \in Attempts |-> "none"]
  /\ faults = 0

\* An exact generation that is still there, stopped or not.
Alive(a) == {p \in Processes : life[a][p] \in {"run", "frozen"}}

\* What could still act for an attempt and that somebody must find: the processes
\* with its tags and those its ledger ever named.
Traceable(a) == Alive(a) \cap (Tagged \cup known[a])

\* Killed, in the attempt's process table.
Killed(a, ps) == [life EXCEPT ![a] = [p \in Processes |->
  IF p \in ps /\ @[p] # "none" THEN "dead" ELSE @[p]]]
Stopped(a, ps) == [life EXCEPT ![a] = [p \in Processes |->
  IF p \in ps /\ @[p] = "run" THEN "frozen" ELSE @[p]]]

\* What a table scan adds to the tracked generations: the process group while its
\* exact leader lives, and the children of a tracked process that lives.
Captured(a, tracked) ==
  LET here == {p \in Group : life[a][p] \in {"gate", "run", "frozen"}} IN
  tracked \cup (IF sup[a].step # "dead" \/ (tracked \cap {"codex"} \cap Alive(a)) # {}
                THEN here ELSE {})

\* Confirmed-dead generations are dropped.
Pruned(a, tracked) == {p \in tracked : life[a][p] # "dead"}

\* The executor's 50 ms poll has seen the group.
Polled(a) == "poll" \in Windows \/ Group \cap Alive(a) \subseteq exec.tracked

SupLives(a) == sup[a].step \notin {"none", "frozen", "dead"}

\* SIGTERM to the supervisor: the default action before its handlers exist, a
\* request to force the cleanup after, ignored once it retains its registration.
Terminated(a) ==
  [sup EXCEPT ![a] =
    IF @.step \in {"starting", "gated", "kept"} THEN [@ EXCEPT !.step = "dead"]
    ELSE IF @.step \in {"running", "draining", "reaping", "tagged"}
    THEN [@ EXCEPT !.force = TRUE] ELSE @]

-----------------------------------------------------------------------------
(* The processes themselves. *)

\* Codex or one of its descendants forks.
Fork(a, parent, child) ==
  /\ <<parent, child>> \in {<<"codex", "near">>, <<"codex", "far">>, <<"far", "kin">>}
  /\ life[a][parent] = "run" /\ life[a][child] = "none"
  /\ life' = [life EXCEPT ![a][child] = "run"]
  /\ UNCHANGED <<tags, reg, sup, exec, reap, known, outcome, faults>>

Exit(a, p) ==
  /\ life[a][p] = "run"
  /\ life' = [life EXCEPT ![a][p] = "dead"]
  /\ UNCHANGED <<tags, reg, sup, exec, reap, known, outcome, faults>>

-----------------------------------------------------------------------------
(* The supervisor. *)

\* It needs both tags, and a registration path that does not exist.
Register(a) ==
  /\ sup[a].step = "starting"
  /\ IF tags[a] = "both" /\ reg = NoReg
     THEN /\ reg' = [attempt |-> a, phase |-> "active", ledger |-> {}]
          /\ life' = [life EXCEPT ![a]["codex"] = "gate"]
          /\ sup' = [sup EXCEPT ![a].step = "gated", ![a].tracked = {"codex"}]
     ELSE /\ sup' = [sup EXCEPT ![a].step = "dead"]
          /\ UNCHANGED <<life, reg>>
  /\ UNCHANGED <<tags, exec, reap, known, outcome, faults>>

Ledger(a, tracked) ==
  /\ reg' = [reg EXCEPT !.ledger = tracked]
  /\ known' = [known EXCEPT ![a] = @ \cup tracked]

\* Mutant: the gate is released before it is durable.
LooseGate(a) ==
  /\ sup[a].step = "gated"
  /\ sup' = [sup EXCEPT ![a].step = "kept"]
  /\ UNCHANGED <<life, tags, reg, exec, reap, known, outcome, faults>>

\* The stopped gate is durable before Codex may run.
KeepGate(a) ==
  /\ sup[a].step = "gated"
  /\ Ledger(a, sup[a].tracked)
  /\ sup' = [sup EXCEPT ![a].step = "kept"]
  /\ UNCHANGED <<life, tags, exec, reap, outcome, faults>>

\* SIGCONT: the gate becomes Codex.  A gate that is gone is an error.
ReleaseGate(a) ==
  /\ sup[a].step = "kept"
  /\ IF life[a]["codex"] = "gate"
     THEN /\ life' = [life EXCEPT ![a]["codex"] = "run"]
          /\ sup' = [sup EXCEPT ![a].step = "running"]
     ELSE /\ sup' = [sup EXCEPT ![a].step = "retained"]
          /\ UNCHANGED life
  /\ UNCHANGED <<tags, reg, exec, reap, known, outcome, faults>>

\* The 100 ms poll: scan, then write the ledger.
Poll(a) ==
  LET found == Pruned(a, Captured(a, sup[a].tracked)) IN
  /\ sup[a].step = "running" /\ found # sup[a].tracked
  /\ sup' = [sup EXCEPT ![a].tracked = found]
  /\ Ledger(a, found)
  /\ UNCHANGED <<life, tags, exec, reap, outcome, faults>>

\* SIGKILL of Codex after the TERM grace of a forced stop.
KillCodex(a) ==
  /\ sup[a].step = "running" /\ sup[a].force /\ life[a]["codex"] = "run"
  /\ life' = Killed(a, {"codex"})
  /\ UNCHANGED <<tags, reg, sup, exec, reap, known, outcome, faults>>

\* The direct child is gone: a last scan of the group, written before the reaping.
Drain(a) ==
  LET found == Pruned(a, Captured(a, sup[a].tracked)) IN
  /\ sup[a].step = "running" /\ life[a]["codex"] = "dead"
  /\ sup' = [sup EXCEPT ![a].step = "reaping", ![a].tracked = found]
  /\ Ledger(a, found)
  /\ UNCHANGED <<life, tags, exec, reap, outcome, faults>>

\* Descendants are asked to stop; KILL needs a forced stop, or a sealed result
\* whose drain deadline passed.
MayForce(a) == sup[a].force \/ sup[a].sealed

SupReaps(a) ==
  LET left == Captured(a, sup[a].tracked) \cap Alive(a) IN
  /\ sup[a].step = "reaping"
  /\ left = {} \/ MayForce(a)
  /\ life' = Killed(a, left)
  /\ sup' = [sup EXCEPT ![a].step = "tagged"]
  /\ reap' = [NoReap EXCEPT !.owner = "sup", !.gentle = TRUE]
  /\ UNCHANGED <<tags, reg, exec, known, outcome, faults>>

\* The receipt: every descendant is gone and the relays are closed.
Confirm(a) ==
  /\ sup[a].step = "confirming"
  /\ reg' = [reg EXCEPT !.phase = "confirmed"]
  /\ sup' = [sup EXCEPT ![a].step = "dead"]
  /\ UNCHANGED <<life, tags, exec, reap, known, outcome, faults>>

\* An error once the child exists: the registration stays and its exact leader
\* with it, deaf to signals.
Retain(a) ==
  /\ sup[a].step \in {"gated", "kept", "running", "reaping", "tagged", "confirming"}
  /\ faults < MaxFaults
  /\ sup' = [sup EXCEPT ![a].step = "retained"]
  /\ reap' = IF sup[a].step = "tagged" THEN NoReap ELSE reap
  /\ faults' = faults + 1
  /\ UNCHANGED <<life, tags, reg, exec, known, outcome>>

\* The supervisor is killed from outside.
SupervisorDies(a) ==
  /\ SupLives(a) /\ faults < MaxFaults
  /\ exec.step \in {"running", "tracked"} => Polled(a)
  /\ sup' = [sup EXCEPT ![a].step = "dead"]
  /\ reap' = IF sup[a].step = "tagged" THEN NoReap ELSE reap
  /\ faults' = faults + 1
  /\ UNCHANGED <<life, tags, reg, exec, known, outcome>>

-----------------------------------------------------------------------------
(* reapSeatbeltFingerprint, run by the supervisor, the executor or recovery. *)

\* The attempt being reaped, and whether its owner now permits KILL.
Reaped == IF reap.owner = "sup" THEN CHOOSE a \in Attempts : sup[a].step = "tagged"
          ELSE exec.a
ReapLives ==
  \/ reap.owner = "sup" /\ \E a \in Attempts : sup[a].step = "tagged"
  \/ reap.owner = "exec" /\ exec.step = "reap"
Force == IF reap.owner = "sup" THEN MayForce(Reaped) ELSE exec.cancel

\* A tagged process is known by its kernel policy, wherever it moved.
ReapScan ==
  /\ ReapLives /\ reap.step = "scan"
  /\ reap' = [reap EXCEPT !.step = "stop", !.caught = @ \cup (Tagged \cap Alive(Reaped))]
  /\ UNCHANGED <<life, tags, reg, sup, exec, known, outcome, faults>>

\* Stop what was found; two further passes must find nothing new.
ReapStop ==
  LET stable == IF reap.caught = reap.seen THEN reap.stable + 1 ELSE 0 IN
  /\ ReapLives /\ reap.step = "stop"
  /\ life' = Stopped(Reaped, reap.caught)
  /\ reap' = [reap EXCEPT !.seen = reap.caught, !.stable = stable,
       !.step = IF stable < 2 THEN "scan"
                ELSE IF reap.gentle THEN "resume" ELSE "kill"]
  /\ UNCHANGED <<tags, reg, sup, exec, known, outcome, faults>>

\* Ordinary cleanup resumes them with a TERM and waits without a deadline.
ReapResume ==
  /\ ReapLives /\ reap.step = "resume"
  /\ life' = [life EXCEPT ![Reaped] = [p \in Processes |->
       IF p \in reap.caught /\ @[p] = "frozen" THEN "run" ELSE @[p]]]
  /\ reap' = [reap EXCEPT !.step = "wait"]
  /\ UNCHANGED <<tags, reg, sup, exec, known, outcome, faults>>

ReapWaited ==
  /\ ReapLives /\ reap.step = "wait"
  /\ reap.caught \cap Alive(Reaped) = {} \/ Force
  /\ reap' = [reap EXCEPT !.step = "kill"]
  /\ UNCHANGED <<life, tags, reg, sup, exec, known, outcome, faults>>

ReapKill ==
  /\ ReapLives /\ reap.step = "kill"
  /\ life' = Killed(Reaped, reap.caught)
  /\ reap' = [reap EXCEPT !.step = "rescan",
                          !.forced = reap.caught \cap Alive(Reaped) # {}]
  /\ UNCHANGED <<tags, reg, sup, exec, known, outcome, faults>>

\* One that appeared meanwhile makes the cleanup uncertain: the supervisor retains
\* its registration, the runner ends without retiring anything.
ReapEnds ==
  LET clean == Tagged \cap Alive(Reaped) = {} IN
  /\ ReapLives /\ reap.step = "rescan"
  /\ IF reap.owner = "sup"
     THEN /\ sup' = [sup EXCEPT ![Reaped].step = IF clean THEN "confirming" ELSE "retained"]
          /\ UNCHANGED <<exec, outcome>>
     ELSE /\ exec' = IF ~clean THEN [Idle EXCEPT !.step = "down"]
                     ELSE [exec EXCEPT !.forced = @ \/ reap.forced, !.step =
                       CASE exec.purpose \in {"unregistered", "orphan"} -> "deny"
                         [] exec.purpose = "recovered" -> "confirm"
                         [] OTHER -> "again"]
          /\ outcome' = IF ~clean /\ exec.purpose \in {"unregistered", "completed", "cancelled"}
                        THEN [outcome EXCEPT ![exec.a] = "pending"] ELSE outcome
          /\ UNCHANGED sup
  /\ reap' = NoReap
  /\ UNCHANGED <<life, tags, reg, known, faults>>

-----------------------------------------------------------------------------
(* The executor. *)

\* Bound: of earlier attempts only what the properties speak of is kept.
Begin(a) ==
  /\ exec.step = "idle" /\ outcome[a] = "none"
  /\ \A b \in Attempts : b < a => outcome[b] # "none"
  /\ exec' = [Idle EXCEPT !.step = "allow", !.a = a]
  /\ tags' = [tags EXCEPT ![a] = "allow"]
  /\ outcome' = [b \in Attempts |-> IF b = a THEN "open" ELSE
                    IF outcome[b] \in {"none", "abandoned"} THEN outcome[b] ELSE "past"]
  /\ life' = [b \in Attempts |-> [p \in Processes |->
                 IF b < a /\ p \notin Traceable(b) THEN "dead" ELSE life[b][p]]]
  /\ sup' = [b \in Attempts |-> IF b < a /\ sup[b].step = "dead"
                THEN [NewSup EXCEPT !.step = "dead"] ELSE sup[b]]
  /\ known' = [b \in Attempts |-> known[b] \cap Alive(b)]
  /\ UNCHANGED <<reg, reap, faults>>

CompleteTags ==
  /\ exec.step = "allow"
  /\ tags' = [tags EXCEPT ![exec.a] = "both"]
  /\ exec' = [exec EXCEPT !.step = "preflight"]
  /\ UNCHANGED <<life, reg, sup, reap, known, outcome, faults>>

\* The sandboxed configuration check leaves a tagged process behind.
PreflightForks ==
  /\ exec.step = "preflight" /\ life[exec.a]["far"] = "none"
  /\ life' = [life EXCEPT ![exec.a]["far"] = "run"]
  /\ UNCHANGED <<tags, reg, sup, exec, reap, known, outcome, faults>>

StartReap(purpose, gentle) ==
  /\ exec' = [exec EXCEPT !.step = "reap", !.purpose = purpose]
  /\ reap' = [NoReap EXCEPT !.owner = "exec", !.gentle = gentle]

\* The check fails or the user cancelled: there is no registration to retire.
PreflightEnds(cancelled) ==
  /\ exec.step = "preflight"
  /\ exec' = [exec EXCEPT !.step = "reap", !.purpose = "unregistered", !.cancel = cancelled]
  /\ reap' = [NoReap EXCEPT !.owner = "exec"]
  /\ UNCHANGED <<life, tags, reg, sup, known, outcome, faults>>

Spawn ==
  /\ exec.step = "preflight"
  /\ sup' = [sup EXCEPT ![exec.a].step = "starting"]
  /\ exec' = [exec EXCEPT !.step = "spawned"]
  /\ UNCHANGED <<life, tags, reg, reap, known, outcome, faults>>

\* The supervisor is the leader of its own group, and its generation is known.
Identify ==
  /\ exec.step = "spawned" /\ sup[exec.a].step # "dead"
  /\ exec' = [exec EXCEPT !.step = "running"]
  /\ UNCHANGED <<life, tags, reg, sup, reap, known, outcome, faults>>

\* It is gone: retire the tags, unless a registration exists; then the error leaves
\* both to the next runner.
IdentityMissing ==
  /\ exec.step = "spawned" /\ sup[exec.a].step = "dead"
  /\ IF reg = NoReg
     THEN StartReap("unregistered", FALSE) /\ UNCHANGED outcome
     ELSE /\ exec' = Idle
          /\ outcome' = [outcome EXCEPT ![exec.a] = "abandoned"]
          /\ UNCHANGED reap
  /\ UNCHANGED <<life, tags, reg, sup, known, faults>>

\* The executor's own 50 ms poll.
ExecPoll ==
  LET found == Pruned(exec.a, Captured(exec.a, exec.tracked)) IN
  /\ exec.step = "running" /\ found # exec.tracked
  /\ exec' = [exec EXCEPT !.tracked = found]
  /\ UNCHANGED <<life, tags, reg, sup, reap, known, outcome, faults>>

\* The turn is complete: SIGUSR2 to the exact supervisor.
FinishTurn ==
  /\ exec.step = "running" /\ sup[exec.a].step = "running" /\ ~exec.cancel
  /\ life[exec.a]["codex"] = "run"
  /\ sup' = [sup EXCEPT ![exec.a].sealed = TRUE]
  /\ UNCHANGED <<life, tags, reg, exec, reap, known, outcome, faults>>

\* The user cancels, or the runner is asked to stop: terminate().
Cancel ==
  /\ ~exec.cancel
  /\ \/ /\ exec.step = "running"
        /\ sup' = Terminated(exec.a)
        /\ exec' = [exec EXCEPT !.cancel = TRUE, !.term = TRUE]
     \/ /\ exec.step = "reap" /\ exec.purpose = "completed"
        /\ exec' = [exec EXCEPT !.cancel = TRUE]
        /\ UNCHANGED sup
  /\ UNCHANGED <<life, tags, reg, reap, known, outcome, faults>>

\* A supervisor that retains its registration has closed its output.
SeeRetained ==
  /\ exec.step = "running" /\ ~exec.term /\ sup[exec.a].step = "retained"
  /\ exec' = [exec EXCEPT !.term = TRUE]
  /\ UNCHANGED <<life, tags, reg, sup, reap, known, outcome, faults>>

\* The process boundary: the supervisor's exit, or the end of its grace.  The
\* receipt at exactly this point decides.
Boundary ==
  LET gone == sup[exec.a].step = "dead" IN
  /\ exec.step = "running" /\ (gone \/ (exec.term /\ Polled(exec.a)))
  /\ exec' = [exec EXCEPT !.step = "tracked", !.forced = ~gone,
       !.proven = gone /\ reg.attempt = exec.a /\ reg.phase = "confirmed"]
  /\ UNCHANGED <<life, tags, reg, sup, reap, known, outcome, faults>>

\* reapTrackedSupervisor: the group and what was polled.  A success waits; a force,
\* a missing receipt, a cancellation or a failed exit permits KILL.
ReapTracked ==
  LET a == exec.a
      left == Captured(a, exec.tracked) \cap {p \in Processes : life[a][p] \in {"gate", "run", "frozen"}}
      forced == exec.forced \/ left # {} IN
  /\ exec.step = "tracked"
  /\ left = {} \/ exec.forced \/ ~exec.proven \/ exec.cancel \/ ~sup[a].sealed
  /\ life' = Killed(a, left)
  /\ sup' = [sup EXCEPT ![a].step = "dead"]
  /\ reap' = NoReap
  /\ IF exec.cancel \/ (exec.proven /\ ~forced)
     THEN /\ exec' = [exec EXCEPT !.step = "verify", !.forced = FALSE,
            !.purpose = IF exec.cancel THEN "cancelled" ELSE "completed"]
          /\ UNCHANGED outcome
     ELSE /\ exec' = [Idle EXCEPT !.step = "down"]
          /\ outcome' = [outcome EXCEPT ![a] = "pending"]
  /\ UNCHANGED <<tags, reg, known, faults>>

\* verifyRegistration, before and after the tagged processes are reaped: this
\* supervisor's own registration; an active one only for a cancellation.
Verified ==
  /\ sup[exec.a].step = "dead"
  /\ CASE exec.purpose = "cancelled" ->
            reg.attempt = exec.a /\ reg.phase \in {"active", "confirmed"}
       [] OTHER -> reg = NoReg \/ (reg.attempt = exec.a /\ reg.phase = "confirmed")

Verify ==
  /\ exec.step \in {"verify", "again"}
  /\ CASE ~Verified -> /\ exec' = [Idle EXCEPT !.step = "down"]
                       /\ outcome' = [outcome EXCEPT ![exec.a] = "pending"]
                       /\ UNCHANGED reap
       [] Verified /\ exec.step = "verify" ->
            StartReap(exec.purpose, exec.purpose = "completed") /\ UNCHANGED outcome
       [] OTHER -> /\ exec' = [exec EXCEPT !.step = "unregister"]
                   /\ UNCHANGED <<reap, outcome>>
  /\ UNCHANGED <<life, tags, reg, sup, known, faults>>

\* The registration goes first: a leftover tag is inert, a lost key is not.
Unregister ==
  /\ exec.step = "unregister"
  /\ reg' = NoReg
  /\ exec' = [exec EXCEPT !.step = "deny"]
  /\ UNCHANGED <<life, tags, sup, reap, known, outcome, faults>>

\* removeSeatbeltFingerprint: deny first.
RemoveDeny ==
  /\ exec.step = "deny"
  /\ tags' = [tags EXCEPT ![exec.a] = "allow"]
  /\ exec' = [exec EXCEPT !.step = "untag"]
  /\ UNCHANGED <<life, reg, sup, reap, known, outcome, faults>>

RemoveAllow ==
  LET a == exec.a
      own == exec.purpose \in {"unregistered", "completed", "cancelled"}
      result == CASE exec.purpose = "cancelled" \/ exec.cancel -> "cancelled"
                  [] exec.forced -> "pending"
                  [] exec.purpose = "unregistered" \/ ~sup[a].sealed -> "failed"
                  [] OTHER -> "success" IN
  /\ exec.step = "untag"
  /\ tags' = [tags EXCEPT ![a] = "none"]
  /\ outcome' = IF own THEN [outcome EXCEPT ![a] = result] ELSE outcome
  /\ exec' = [Idle EXCEPT !.step =
       IF ~own THEN "orphans" ELSE IF result = "pending" THEN "down" ELSE "idle"]
  /\ UNCHANGED <<life, reg, sup, reap, known, faults>>

-----------------------------------------------------------------------------
(* Crash of the runner, and terminateTrackedExecutors of the next one. *)

RunnerCrash ==
  /\ exec.step \notin {"idle", "down"} /\ faults < MaxFaults
  /\ exec' = [Idle EXCEPT !.step = "down"]
  /\ reap' = IF reap.owner = "exec" THEN NoReap ELSE reap
  /\ outcome' = [a \in Attempts |-> IF outcome[a] = "open" THEN "pending" ELSE outcome[a]]
  /\ faults' = faults + 1
  /\ UNCHANGED <<life, tags, reg, sup, known>>

Restart ==
  /\ exec.step = "down"
  /\ "start" \in Windows \/ \A a \in Attempts : sup[a].step # "starting"
  /\ exec' = [Idle EXCEPT !.step = "scan"]
  /\ UNCHANGED <<life, tags, reg, sup, reap, known, outcome, faults>>

\* A registration names its tags; without them start-up refuses.
Scan ==
  /\ exec.step = "scan"
  /\ exec' = IF reg = NoReg THEN [exec EXCEPT !.step = "orphans"]
             ELSE IF tags[reg.attempt] # "both" THEN [Idle EXCEPT !.step = "down"]
             ELSE [exec EXCEPT !.a = reg.attempt,
                     !.step = IF sup[reg.attempt].step = "dead" THEN "durable" ELSE "term"]
  /\ UNCHANGED <<life, tags, reg, sup, reap, known, outcome, faults>>

TermSupervisor ==
  /\ exec.step = "term"
  /\ sup' = Terminated(exec.a)
  /\ exec' = [exec EXCEPT !.step = "wait"]
  /\ UNCHANGED <<life, tags, reg, reap, known, outcome, faults>>

\* It ends, or its 15 s are over; then the ledger on disk is read.
ReadLedger ==
  /\ exec.step \in {"wait", "durable"}
  /\ exec' = [exec EXCEPT !.ledger = reg.ledger,
                          !.step = IF reg.phase = "confirmed" THEN "confirmed" ELSE "freeze"]
  /\ UNCHANGED <<life, tags, reg, sup, reap, known, outcome, faults>>

\* Stop the group while its exact leader lives, and everything in the ledger.
Freeze ==
  LET a == exec.a IN
  /\ exec.step = "freeze"
  /\ life' = Stopped(a, exec.ledger \cup (IF sup[a].step # "dead" THEN Group ELSE {}))
  /\ sup' = [sup EXCEPT ![a].step = IF @ = "dead" THEN @ ELSE "frozen"]
  /\ exec' = [exec EXCEPT !.step = "refresh"]
  /\ UNCHANGED <<tags, reg, reap, known, outcome, faults>>

\* The writer is stopped: read its last revision, which may be the receipt; then
\* stop and record everything reachable, as the only writer.
Refresh ==
  LET a == exec.a
      found == Pruned(a, Captured(a, reg.ledger)) IN
  /\ exec.step = "refresh"
  /\ IF reg.phase = "confirmed"
     THEN /\ exec' = [exec EXCEPT !.ledger = reg.ledger, !.step = "confirmed"]
          /\ UNCHANGED <<life, reg, known>>
     ELSE /\ exec' = [exec EXCEPT !.ledger = found, !.step = "kill"]
          /\ life' = Stopped(a, found)
          /\ reg' = [reg EXCEPT !.phase = "recovery", !.ledger = reg.ledger \cup found]
          /\ known' = [known EXCEPT ![a] = @ \cup found]
  /\ UNCHANGED <<tags, sup, reap, outcome, faults>>

\* Mutant: the supervisor alone is killed.
KillRoot ==
  /\ exec.step \in {"kill", "confirmed"}
  /\ sup' = [sup EXCEPT ![exec.a].step = "dead"]
  /\ StartReap("recovered", FALSE)
  /\ UNCHANGED <<life, tags, reg, known, outcome, faults>>

\* KILL for the exact generations of the ledger, the supervisor among them.
KillLedger ==
  /\ exec.step \in {"kill", "confirmed"}
  /\ life' = Killed(exec.a, exec.ledger)
  /\ sup' = [sup EXCEPT ![exec.a].step = "dead"]
  /\ StartReap("recovered", FALSE)
  /\ UNCHANGED <<tags, reg, known, outcome, faults>>

ConfirmRecovery ==
  /\ exec.step = "confirm"
  /\ reg' = [reg EXCEPT !.phase = "confirmed"]
  /\ exec' = [exec EXCEPT !.step = "unregister"]
  /\ UNCHANGED <<life, tags, sup, reap, known, outcome, faults>>

\* recoverOrphanSeatbeltFingerprints: a lone tag belongs to nobody, a pair may
\* still be carried.
Orphans(a) ==
  /\ exec.step = "orphans" /\ tags[a] # "none"
  /\ \/ /\ tags[a] = "allow"
        /\ tags' = [tags EXCEPT ![a] = "none"]
        /\ UNCHANGED <<exec, reap>>
     \/ /\ tags[a] = "both"
        /\ exec' = [exec EXCEPT !.a = a, !.step = "reap", !.purpose = "orphan"]
        /\ reap' = [NoReap EXCEPT !.owner = "exec"]
        /\ UNCHANGED tags
  /\ UNCHANGED <<life, reg, sup, known, outcome, faults>>

Recovered ==
  /\ exec.step = "orphans" /\ \A a \in Attempts : tags[a] = "none"
  /\ exec' = Idle
  /\ UNCHANGED <<life, tags, reg, sup, reap, known, outcome, faults>>

-----------------------------------------------------------------------------
SupervisorStep == \E a \in Attempts :
  \/ Register(a) \/ KeepGate(a) \/ ReleaseGate(a) \/ KillCodex(a)
  \/ Drain(a) \/ SupReaps(a) \/ Confirm(a)

ReapStep == ReapScan \/ ReapStop \/ ReapResume \/ ReapWaited \/ ReapKill \/ ReapEnds

ExecutorStep ==
  \/ CompleteTags \/ Spawn \/ Identify \/ IdentityMissing \/ SeeRetained
  \/ Boundary \/ ReapTracked \/ Verify \/ Unregister \/ RemoveDeny \/ RemoveAllow

RecoveryStep ==
  \/ Restart \/ Scan \/ TermSupervisor \/ ReadLedger \/ Freeze \/ Refresh
  \/ KillLedger \/ ConfirmRecovery \/ (\E a \in Attempts : Orphans(a)) \/ Recovered

Next ==
  \/ SupervisorStep \/ ReapStep \/ ExecutorStep \/ RecoveryStep
  \/ \E a \in Attempts :
       \/ Begin(a) \/ Poll(a) \/ Retain(a) \/ SupervisorDies(a)
       \/ \E p, q \in Processes : Fork(a, p, q)
       \/ \E p \in Processes : Exit(a, p)
  \/ PreflightForks \/ (\E c \in BOOLEAN : PreflightEnds(c)) \/ ExecPoll
  \/ FinishTurn \/ Cancel \/ RunnerCrash

\* A turn is finished or cancelled at last, and a process exits once its work is
\* done: Codex when the turn is over or its standard input is closed, a descendant
\* when Codex is gone.
Leaves == \E a \in Attempts : \E p \in Processes :
  /\ \/ p # "codex" /\ life[a]["codex"] \in {"none", "gate", "dead"}
     \/ p = "codex" /\ (sup[a].sealed \/ exec.a # a \/ exec.step = "down")
  /\ Exit(a, p)

\* Whoever has a next step takes it: a supervisor, a reap, the executor, a recovery,
\* or the turn that ends.
Works ==
  \/ SupervisorStep \/ ReapStep \/ ExecutorStep \/ RecoveryStep
  \/ FinishTurn /\ sup' # sup

Spec ==
  /\ Init /\ [][Next]_vars
  /\ WF_vars(Works) /\ WF_vars(ExecPoll) /\ WF_vars(Leaves)

-----------------------------------------------------------------------------
\* The recovery key: while a process with the attempt's tags, or one its ledger
\* ever named, lives, the tags and the ledger entry that find it are on disk, and
\* Codex never runs before the ledger names it (codex-supervisor.ts 326,
\* removeSeatbeltFingerprint, retireRegistration, terminateTrackedExecutors).
KeyIsKept == \A a \in Attempts :
  /\ Alive(a) \cap Tagged # {} => tags[a] = "both"
  /\ \A p \in Alive(a) \cap known[a] : reg.attempt = a /\ p \in reg.ledger
  /\ "codex" \in Alive(a) => "codex" \in known[a]

\* A helper of one attempt never overlaps the next: nothing traceable of an earlier
\* attempt lives when Codex runs for a later one, nothing at all is left of a
\* success, and nothing traceable of a failure or a cancellation that was retired
\* (codex-executor.ts 12099-12102, 7976-7999).
NothingSurvives ==
  /\ \A a, b \in Attempts :
       a < b /\ life[b]["codex"] = "run" => Traceable(a) = {}
  /\ \A a \in Attempts :
       /\ outcome[a] = "success" => Alive(a) = {}
       /\ outcome[a] \in {"failed", "cancelled"} => Traceable(a) = {}

Safety == TypeOK /\ KeyIsKept /\ NothingSurvives

\* Whatever died on the way, at last no registration, tag or traceable process is
\* left, unless an attempt whose supervisor died before it was identified left its
\* registration to a later start (terminateTrackedExecutors as a whole).
Quiet ==
  /\ exec.step = "idle"
  /\ \/ \E a \in Attempts : outcome[a] = "abandoned"
     \/ reg = NoReg /\ \A a \in Attempts : tags[a] = "none" /\ Traceable(a) = {}
EverythingIsRetired == <>[]Quiet
=============================================================================
